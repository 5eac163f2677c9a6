------------------------ MODULE FeatLifecycleProofs -------------------------
(***************************************************************************)
(* FeatLifecycle for any number of invocations and any set of scripts.     *)
(***************************************************************************)
EXTENDS FeatLifecycle, SequenceTheorems, TLAPS

-----------------------------------------------------------------------------
(* The plan *)

LEMMA One ==
    ASSUME NEW a \in Phases
    PROVE  <<a>> \in Seq(Phases) /\ <<a>> # <<>> /\ Head(<<a>>) = a /\ Tail(<<a>>) = <<>>
<1>1. <<a>> \in Seq(Phases)
  OBVIOUS
<1>2. <<a>> # <<>>
  OBVIOUS
<1>3. Head(<<a>>) = a
  OBVIOUS
<1>4. Tail(<<a>>) = <<>>
  OBVIOUS
<1> QED BY <1>1, <1>2, <1>3, <1>4

LEMMA Two ==
    ASSUME NEW a \in Phases, NEW b \in Phases
    PROVE  /\ <<a, b>> \in Seq(Phases) /\ <<a, b>> # <<>>
           /\ Head(<<a, b>>) = a /\ Tail(<<a, b>>) = <<b>>
           /\ <<a>> \o <<b>> = <<a, b>>
<1>1. <<a, b>> \in Seq(Phases)
  OBVIOUS
<1>2. <<a, b>> # <<>>
  OBVIOUS
<1>3. Head(<<a, b>>) = a
  OBVIOUS
<1>4. Tail(<<a, b>>) = <<b>>
  OBVIOUS
<1>5. <<a>> \o <<b>> = <<a, b>>
  <2> DEFINE s == <<a>> \o <<b>>
             t == <<a, b>>
  <2>1. s \in Seq(Phases) /\ t \in Seq(Phases)
    OBVIOUS
  <2>2. Len(s) = 2 /\ Len(t) = 2
    OBVIOUS
  <2>3. s[1] = a /\ s[2] = b /\ t[1] = a /\ t[2] = b
    OBVIOUS
  <2>4. \A i \in 1 .. Len(s) : s[i] = t[i]
    BY <2>2, <2>3
  <2> HIDE DEF s, t
  <2>5. s = t
    BY <2>1, <2>2, <2>4, SeqEqual
  <2> QED
    BY <2>5 DEF s, t
<1> QED BY <1>1, <1>2, <1>3, <1>4, <1>5

LEMMA AddPlanIs ==
    ASSUME NEW s \in State
    PROVE  AddPlan(s) = IF s \in {"NotInstalled", "Installing", "Uninstalling"}
                        THEN <<"install", "enable">> ELSE EnablePlan(s)
<1>1. <<"install">> \o <<"enable">> = <<"install", "enable">> /\ <<"install">> # <<>>
  BY One, Two DEF Phases
<1>2. EnablePlan("Installed") = <<"enable">>
  BY DEF EnablePlan
<1> QED
  BY <1>1, <1>2 DEF AddPlan, InstallPlan

\* The states from which the plans run each phase.
From(phase) ==
    CASE phase = "install" -> {"NotInstalled", "Installing", "Uninstalling"}
      [] phase = "enable"  -> {"Installed", "Enabling", "Disabling"}
      [] phase = "disable" -> {"Enabled", "Enabling", "Disabling"}
      [] OTHER             -> {"Installed", "Installing", "Uninstalling"}

LEMMA PlanIsSeq ==
    ASSUME NEW v \in Verbs, NEW s \in State PROVE Plan(v, s) \in Seq(Phases)
<1>1. <<>> \in Seq(Phases)
  OBVIOUS
<1>2. /\ <<"install">> \in Seq(Phases) /\ <<"enable">> \in Seq(Phases)
      /\ <<"disable">> \in Seq(Phases) /\ <<"uninstall">> \in Seq(Phases)
      /\ <<"install", "enable">> \in Seq(Phases) /\ <<"disable", "uninstall">> \in Seq(Phases)
  BY One, Two DEF Phases
<1> QED
  BY <1>1, <1>2, AddPlanIs DEF Plan, InstallPlan, EnablePlan, DisablePlan, RemovePlan

\* Planning again from the pending state of the first phase is the same plan;
\* from its settled state, the rest of the plan.
LEMMA PlanResumes ==
    ASSUME NEW v \in Verbs, NEW s \in State, ~Refuses(v, s), Plan(v, s) # <<>>
    PROVE  LET h == Head(Plan(v, s)) IN
           /\ h \in Phases /\ s \in From(h)
           /\ Plan(v, Pending[h]) = Plan(v, s) /\ ~Refuses(v, Pending[h])
           /\ Plan(v, SettledBy[h]) = Tail(Plan(v, s)) /\ ~Refuses(v, SettledBy[h])
<1> DEFINE P == Plan(v, s)
<1>1. CASE P = <<"install">> /\ v = "install"
  <2>1. Head(P) = "install" /\ Tail(P) = <<>>
    BY <1>1, One DEF Phases
  <2> QED
    BY <1>1, <2>1 DEF Plan, InstallPlan, From, Pending, SettledBy, Refuses, Phases, State,
       Settled, PendingStates
<1>2. CASE P = <<"enable">> /\ v = "enable"
  <2>1. Head(P) = "enable" /\ Tail(P) = <<>>
    BY <1>2, One DEF Phases
  <2> QED
    BY <1>2, <2>1 DEF Plan, EnablePlan, From, Pending, SettledBy, Refuses, Phases, State,
       Settled, PendingStates
<1>3. CASE P = <<"disable">> /\ v = "disable"
  <2>1. Head(P) = "disable" /\ Tail(P) = <<>>
    BY <1>3, One DEF Phases
  <2> QED
    BY <1>3, <2>1 DEF Plan, DisablePlan, From, Pending, SettledBy, Refuses, Phases, State,
       Settled, PendingStates
<1>4. CASE P = <<"uninstall">> /\ v = "remove"
  <2>1. Head(P) = "uninstall" /\ Tail(P) = <<>>
    BY <1>4, One DEF Phases
  <2>2. P # <<"disable", "uninstall">>
    BY <1>4
  <2> QED
    BY <1>4, <2>1, <2>2 DEF Plan, RemovePlan, From, Pending, SettledBy, Refuses, Phases, State,
       Settled, PendingStates
<1>5. CASE P = <<"disable", "uninstall">> /\ v = "remove"
  <2>1. Head(P) = "disable" /\ Tail(P) = <<"uninstall">>
    BY <1>5, Two DEF Phases
  <2>2. P # <<"uninstall">>
    BY <1>5
  <2> QED
    BY <1>5, <2>1, <2>2 DEF Plan, RemovePlan, From, Pending, SettledBy, Refuses, Phases, State,
       Settled, PendingStates
<1>6. CASE P = <<"enable">> /\ v = "add"
  <2>1. Head(P) = "enable" /\ Tail(P) = <<>>
    BY <1>6, One DEF Phases
  <2>2. P # <<"install", "enable">>
    BY <1>6
  <2>3. s \notin {"NotInstalled", "Installing", "Uninstalling", "Enabled"}
    BY <1>6, <2>2, AddPlanIs DEF Plan, EnablePlan
  <2>4. "Enabling" \in State /\ "Enabled" \in State
    BY DEF State, Settled, PendingStates
  <2>5. AddPlan("Enabling") = <<"enable">> /\ AddPlan("Enabled") = <<>>
    BY <2>4, AddPlanIs DEF EnablePlan
  <2>6. Plan(v, "Enabling") = <<"enable">> /\ Plan(v, "Enabled") = <<>>
    BY <1>6, <2>5 DEF Plan
  <2>7. Pending["enable"] = "Enabling" /\ SettledBy["enable"] = "Enabled"
    BY DEF Pending, SettledBy
  <2>8. s \in From("enable") /\ "enable" \in Phases
    BY <2>3 DEF From, State, Settled, PendingStates, Phases
  <2>9. ~Refuses(v, "Enabling") /\ ~Refuses(v, "Enabled")
    BY DEF Refuses
  <2> HIDE DEF P
  <2> QED
    BY <1>6, <2>1, <2>6, <2>7, <2>8, <2>9 DEF P
<1>7. CASE P = <<"install", "enable">> /\ v = "add"
  <2>1. Head(P) = "install" /\ Tail(P) = <<"enable">>
    BY <1>7, Two DEF Phases
  <2>2. P # <<"enable">>
    BY <1>7
  <2>3. s \in {"NotInstalled", "Installing", "Uninstalling"}
    BY <1>7, <2>2, AddPlanIs DEF Plan, EnablePlan
  <2>4. "Installing" \in State /\ "Installed" \in State
    BY DEF State, Settled, PendingStates
  <2>5. AddPlan("Installing") = <<"install", "enable">> /\ AddPlan("Installed") = <<"enable">>
    BY <2>4, AddPlanIs DEF EnablePlan
  <2>6. Plan(v, "Installing") = <<"install", "enable">> /\ Plan(v, "Installed") = <<"enable">>
    BY <1>7, <2>5 DEF Plan
  <2>7. Pending["install"] = "Installing" /\ SettledBy["install"] = "Installed"
    BY DEF Pending, SettledBy
  <2>8. s \in From("install") /\ "install" \in Phases
    BY <2>3 DEF From, Phases
  <2>9. ~Refuses(v, "Installing") /\ ~Refuses(v, "Installed")
    BY <1>7 DEF Refuses
  <2> HIDE DEF P
  <2> QED
    BY <1>7, <2>1, <2>6, <2>7, <2>8, <2>9 DEF P
<1>8. \/ P = <<"install">> /\ v = "install"
      \/ P = <<"enable">> /\ v = "enable"
      \/ P = <<"disable">> /\ v = "disable"
      \/ P \in {<<"uninstall">>, <<"disable", "uninstall">>} /\ v = "remove"
      \/ P \in {<<"enable">>, <<"install", "enable">>} /\ v = "add"
  BY AddPlanIs DEF Plan, InstallPlan, EnablePlan, DisablePlan, RemovePlan, Verbs
<1> QED
  BY <1>1, <1>2, <1>3, <1>4, <1>5, <1>6, <1>7, <1>8

\* A verb that has nothing to run finds it done.
LEMMA NothingToRun ==
    ASSUME NEW v \in Verbs, NEW s \in State, ~Refuses(v, s), Plan(v, s) = <<>>
    PROVE  CASE v = "install" -> s \in {"Installed", "Enabled", "Enabling", "Disabling"}
             [] v = "disable" -> s \in {"NotInstalled", "Installed", "Installing", "Uninstalling"}
             [] v = "remove"  -> s = "NotInstalled"
             [] OTHER         -> s = "Enabled"
<1>1. /\ <<"install">> # <<>> /\ <<"enable">> # <<>> /\ <<"disable">> # <<>>
      /\ <<"uninstall">> # <<>> /\ <<"install", "enable">> # <<>>
      /\ <<"disable", "uninstall">> # <<>>
  BY One, Two DEF Phases
<1> QED
  BY <1>1, AddPlanIs DEF Plan, InstallPlan, EnablePlan, DisablePlan, RemovePlan, State,
     Settled, PendingStates, Verbs

-----------------------------------------------------------------------------
(* Type correctness *)

LEMMA HeadPhase == ASSUME NEW q \in Seq(Phases), q # <<>> PROVE Head(q) \in Phases /\ Tail(q) \in Seq(Phases)
OBVIOUS

LEMMA FactTypes ==
    ASSUME TypeOK, NEW phase \in Phases, Begun(phase) \/ Succeeded(phase) \/ UNCHANGED system
    PROVE  setup' \in {"no", "partly", "yes"} /\ on' \in {"no", "partly", "yes"}
BY DEF TypeOK, Begun, Succeeded, Turn, system

LEMMA ExitType ==
    ASSUME TypeOK, NEW p \in Procs, Exit(p)
    PROVE  /\ pc' \in [Procs -> {"off", "next", "spawn", "wait", "settle"}]
           /\ todo' \in [Procs -> Seq(Phases)]
           /\ \A q \in Procs : pc'[q] \in {"spawn", "wait", "settle"} => todo'[q] # <<>>
           /\ verb' \in [Procs -> Verbs \cup {Nothing}]
<1>1. <<>> \in Seq(Phases)
  OBVIOUS
<1> QED
  BY <1>1 DEF TypeOK, Exit

LEMMA NextType == TypeOK /\ [Next]_vars => TypeOK'
<1> SUFFICES ASSUME TypeOK, [Next]_vars PROVE TypeOK'
  OBVIOUS
<1> USE DEF system, local
<1>1. CASE UNCHANGED vars
  BY <1>1 DEF vars, TypeOK
<1>2. ASSUME NEW p \in Procs, NEW v \in Verbs, NEW seen \in State, Start(p, v, seen)
      PROVE  TypeOK'
  <2>1. Plan(v, seen) \in Seq(Phases)
    BY PlanIsSeq
  <2>2. commands' \in 0 .. MaxCommands
    BY <1>2, FeatAssumption DEF Start, TypeOK
  <2>3. clean' \in BOOLEAN
    BY <1>2, ZenonT(30) DEF Start, TypeOK
  <2>4. /\ todo' \in [Procs -> Seq(Phases)]
        /\ pc' \in [Procs -> {"off", "next", "spawn", "wait", "settle"}]
        /\ \A q \in Procs : pc'[q] \in {"spawn", "wait", "settle"} => todo'[q] # <<>>
        /\ verb' \in [Procs -> Verbs \cup {Nothing}]
    BY <1>2, <2>1 DEF Start, TypeOK
  <2> QED
    BY <1>2, <2>2, <2>3, <2>4 DEF Start, TypeOK
<1>3. ASSUME NEW p \in Procs, WritePending(p) PROVE TypeOK'
  <2>1. Head(todo[p]) \in Phases
    BY <1>3, HeadPhase DEF WritePending, TypeOK
  <2>2. state' \in State
    BY <1>3, <2>1 DEF WritePending, Pending, State, PendingStates, Phases
  <2>3. pc' = [pc EXCEPT ![p] = "spawn"] /\ todo[p] # <<>> /\ UNCHANGED todo
    BY <1>3 DEF WritePending
  <2> QED
    BY <1>3, <2>2, <2>3 DEF WritePending, TypeOK
<1>4. ASSUME NEW p \in Procs, SkipScript(p) \/ Spawn(p) \/ ScriptSucceeds(p) PROVE TypeOK'
  <2>1. pc[p] \in {"spawn", "wait"} /\ todo[p] # <<>> /\ Head(todo[p]) \in Phases
    BY <1>4, HeadPhase DEF SkipScript, Spawn, ScriptSucceeds, TypeOK
  <2>2. setup' \in {"no", "partly", "yes"} /\ on' \in {"no", "partly", "yes"}
    BY <1>4, <2>1, FactTypes DEF SkipScript, Spawn, ScriptSucceeds
  <2>3. /\ \E c \in {"wait", "settle"} : pc' = [pc EXCEPT ![p] = c]
        /\ UNCHANGED <<state, todo, verb, orphans, clean, told, commands>>
    BY <1>4 DEF SkipScript, Spawn, ScriptSucceeds
  <2> QED
    BY <2>1, <2>2, <2>3 DEF TypeOK
<1>5. ASSUME NEW p \in Procs, ScriptFails(p) \/ Fail(p) PROVE TypeOK'
  BY <1>5, ExitType DEF ScriptFails, Fail, TypeOK
<1>6. ASSUME NEW p \in Procs, WriteSettled(p) PROVE TypeOK'
  <2>1. Head(todo[p]) \in Phases /\ Tail(todo[p]) \in Seq(Phases)
    BY <1>6, HeadPhase DEF WriteSettled, TypeOK
  <2>2. state' \in State
    BY <1>6, <2>1 DEF WriteSettled, SettledBy, State, Settled, Phases
  <2>3. /\ pc' = [pc EXCEPT ![p] = "next"] /\ todo' = [todo EXCEPT ![p] = Tail(todo[p])]
        /\ UNCHANGED <<system, verb, orphans, clean, told, commands>>
    BY <1>6 DEF WriteSettled
  <2> QED
    BY <2>1, <2>2, <2>3 DEF TypeOK
<1>7. ASSUME NEW p \in Procs, Done(p) PROVE TypeOK'
  BY <1>7, ExitType DEF Done, TypeOK
<1>8. ASSUME NEW p \in Procs, Kill(p) PROVE TypeOK'
  <2>1. pc[p] = "wait" => Head(todo[p]) \in Phases
    BY HeadPhase DEF TypeOK
  <2>2. orphans' \subseteq Phases
    BY <1>8, <2>1 DEF Kill, TypeOK
  <2> QED
    BY <1>8, <2>2, ExitType DEF Kill, TypeOK
<1>9. ASSUME NEW phase \in Phases, OrphanEnds(phase) PROVE TypeOK'
  <2>1. setup' \in {"no", "partly", "yes"} /\ on' \in {"no", "partly", "yes"}
    BY <1>9, FactTypes DEF OrphanEnds
  <2> QED
    BY <1>9, <2>1 DEF OrphanEnds, TypeOK
<1>10. CASE Crash
  <2>1. <<>> \in Seq(Phases)
    OBVIOUS
  <2> QED
    BY <1>10, <2>1 DEF Crash, TypeOK
<1> QED
  BY <1>1, <1>2, <1>3, <1>4, <1>5, <1>6, <1>7, <1>8, <1>9, <1>10 DEF Next, Step

LEMMA InitType == Init => TypeOK
<1>1. <<>> \in Seq(Phases)
  OBVIOUS
<1> QED
  BY <1>1, FeatAssumption DEF Init, TypeOK, State, Settled

\* The registry value, the plan of every invocation and the facts about the
\* system keep their types (cmd.rs, registry.rs).
THEOREM TypeCorrect == Spec => []TypeOK
BY InitType, NextType, PTL DEF Spec

-----------------------------------------------------------------------------
(* The inductive invariant *)

\* One thing runs at a time.
Lone ==
    clean => /\ \A p, q \in Procs : Running(p) /\ Running(q) => p = q
             /\ orphans # {} => \A p \in Procs : ~Running(p)

\* An invocation follows the plan that the registry implies, and has done what
\* it is about to record.
Follows ==
    clean => \A p \in Procs : Running(p) =>
        /\ verb[p] \in Verbs
        /\ todo[p] = Plan(verb[p], state) /\ ~Refuses(verb[p], state)
        /\ pc[p] \in {"spawn", "wait", "settle"} => state = Pending[Head(todo[p])]
        /\ pc[p] = "settle" => Claimed(SettledBy[Head(todo[p])])

\* A script without its feat is one whose pending state stands.
OrphansPend == clean => \A phase \in orphans : state = Pending[phase]

\* What every state says of the system, the pending ones included.
Facts ==
    clean => /\ state \in Settled => Claimed(state)
             /\ state \in {"Installing", "Uninstalling"} => on = "no"
             /\ state \in {"Enabling", "Disabling"} => setup = "yes"

\* What was delivered stands until the next invocation.
ToldStays ==
    clean /\ told # Nothing =>
        /\ orphans = {} /\ \A p \in Procs : ~Running(p)
        /\ Delivered(told)

Inv == TypeOK /\ Lone /\ Follows /\ OrphansPend /\ Facts /\ ToldStays

LEMMA OnlyOne ==
    ASSUME Inv, clean, NEW p \in Procs, Running(p)
    PROVE  orphans = {} /\ told = Nothing /\ \A q \in Procs : Running(q) => q = p
BY DEF Inv, Lone, ToldStays

LEMMA InitInv == Init => Inv
<1> SUFFICES ASSUME Init PROVE Inv
  OBVIOUS
<1>1. TypeOK
  BY InitType
<1>2. state = "NotInstalled" /\ setup = "no" /\ on = "no" /\ orphans = {} /\ told = Nothing
  BY DEF Init
<1>3. \A p \in Procs : ~Running(p)
  BY DEF Init, Running
<1>4. Facts
  BY <1>2 DEF Facts, Claimed
<1> QED
  BY <1>1, <1>2, <1>3, <1>4 DEF Inv, Lone, Follows, OrphansPend, ToldStays

\* An exit of the only invocation, leaving state and system as they are.
LEMMA ExitInv ==
    ASSUME Inv, clean, NEW p \in Procs, Running(p), Exit(p), UNCHANGED <<state, setup, on>>,
           orphans' = {} \/ (pc[p] = "wait" /\ orphans' = {Head(todo[p])}),
           told' = Nothing \/ (orphans' = {} /\ Delivered(told'))
    PROVE  Lone' /\ Follows' /\ OrphansPend' /\ Facts' /\ ToldStays'
<1>1. \A q \in Procs : pc'[q] = "off"
  BY OnlyOne DEF Exit, Running, Inv, TypeOK
<1>2. Lone' /\ Follows'
  BY <1>1 DEF Lone, Follows, Running
<1>3. OrphansPend'
  BY DEF OrphansPend, Inv, Follows
<1>4. Facts'
  BY DEF Facts, Inv, Claimed
<1>5. ToldStays'
  BY <1>1 DEF ToldStays, Running, Delivered
<1> QED
  BY <1>2, <1>3, <1>4, <1>5

\* From what the pending state of a phase says of the system to what its
\* settled state claims.
LEMMA ScriptDelivers ==
    ASSUME NEW phase \in Phases, Inv, clean, state = Pending[phase], Succeeded(phase)
    PROVE  /\ setup' = IF SettledBy[phase] = "NotInstalled" THEN "no" ELSE "yes"
           /\ on' = IF SettledBy[phase] = "Enabled" THEN "yes" ELSE "no"
<1>1. Facts
  BY DEF Inv
<1>2. CASE phase = "install"
  BY <1>1, <1>2 DEF Facts, Pending, SettledBy, Succeeded, Turn
<1>3. CASE phase = "enable"
  BY <1>1, <1>3 DEF Facts, Pending, SettledBy, Succeeded, Turn
<1>4. CASE phase = "disable"
  BY <1>1, <1>4 DEF Facts, Pending, SettledBy, Succeeded, Turn
<1>5. CASE phase = "uninstall"
  BY <1>1, <1>5 DEF Facts, Pending, SettledBy, Succeeded, Turn
<1> QED
  BY <1>2, <1>3, <1>4, <1>5 DEF Phases

\* A script, running or done, leaves what its pending state says.
LEMMA ScriptFacts ==
    ASSUME NEW phase \in Phases, Inv, clean, state = Pending[phase], UNCHANGED state,
           Begun(phase) \/ Succeeded(phase)
    PROVE  Facts'
<1>1. Facts
  BY DEF Inv
<1> USE DEF Facts, Pending, Succeeded, Begun, Turn, Settled
<1>2. CASE phase = "install"
  BY <1>1, <1>2
<1>3. CASE phase = "enable"
  BY <1>1, <1>3
<1>4. CASE phase = "disable"
  BY <1>1, <1>4
<1>5. CASE phase = "uninstall"
  BY <1>1, <1>5
<1> QED
  BY <1>2, <1>3, <1>4, <1>5 DEF Phases

LEMMA NextInv == Inv /\ [Next]_vars => Inv'
<1> DEFINE Goal == Lone' /\ Follows' /\ OrphansPend' /\ Facts' /\ ToldStays'
<1> SUFFICES ASSUME Inv, [Next]_vars PROVE Goal
  BY NextType DEF Inv
<1>0. TypeOK /\ Lone /\ Follows /\ OrphansPend /\ Facts /\ ToldStays
  BY DEF Inv
<1>a. CASE ~clean'
  BY <1>a DEF Lone, Follows, OrphansPend, Facts, ToldStays
<1>b. CASE clean'
  <2> USE DEF system, local
  <2>0. clean
    BY <1>b DEF Next, Step, vars, Start, WritePending, SkipScript, Spawn, ScriptSucceeds,
       ScriptFails, WriteSettled, Done, Fail, Kill, OrphanEnds, Crash
  <2>1. CASE UNCHANGED vars
    BY <1>0, <2>1 DEF vars, Lone, Follows, OrphansPend, Facts, ToldStays, Running, Claimed,
       Delivered
  <2>2. ASSUME NEW p \in Procs, NEW v \in Verbs, NEW seen \in State, Start(p, v, seen)
        PROVE  Goal
    <3>1. /\ seen = state /\ ~Refuses(v, state) /\ orphans = {}
          /\ \A q \in Procs \ {p} : ~Running(q)
          /\ pc' = [pc EXCEPT ![p] = "next"]
          /\ todo' = [todo EXCEPT ![p] = Plan(v, state)]
          /\ verb' = [verb EXCEPT ![p] = v]
          /\ told' = Nothing /\ UNCHANGED <<state, system, orphans>>
      BY <1>b, <2>2 DEF Start, Alone
    <3>2. \A q \in Procs : pc'[q] # "off" => q = p
      BY <1>0, <3>1 DEF Running, TypeOK
    <3>3. /\ todo'[p] = Plan(v, state) /\ verb'[p] = v /\ pc'[p] = "next"
      BY <1>0, <3>1 DEF TypeOK
    <3>4. Follows'
      BY <3>1, <3>2, <3>3 DEF Follows, Running
    <3>5. Lone' /\ OrphansPend' /\ ToldStays'
      BY <3>1, <3>2 DEF Lone, Running, OrphansPend, ToldStays
    <3>6. Facts'
      BY <1>0, <2>0, <3>1 DEF Facts, Claimed
    <3> QED
      BY <3>4, <3>5, <3>6
  <2>3. ASSUME NEW p \in Procs, Running(p),
               UNCHANGED <<orphans, told>>,
               \A q \in Procs \ {p} : pc'[q] = pc[q] /\ todo'[q] = todo[q] /\ verb'[q] = verb[q],
               verb'[p] = verb[p], todo'[p] = Plan(verb[p], state'),
               ~Refuses(verb[p], state'),
               pc'[p] \in {"spawn", "wait", "settle"} => state' = Pending[Head(todo'[p])],
               pc'[p] = "settle" =>
                   /\ setup' = IF SettledBy[Head(todo'[p])] = "NotInstalled" THEN "no" ELSE "yes"
                   /\ on' = IF SettledBy[Head(todo'[p])] = "Enabled" THEN "yes" ELSE "no",
               Facts'
        PROVE  Goal
    <3>1. orphans = {} /\ told = Nothing /\ \A q \in Procs : Running(q) => q = p
      BY <2>0, <2>3, OnlyOne
    <3>2. \A q \in Procs : pc'[q] # "off" => q = p
      BY <2>3, <3>1 DEF Running
    <3>3. Lone' /\ OrphansPend' /\ ToldStays'
      BY <2>3, <3>1, <3>2 DEF Lone, Running, OrphansPend, ToldStays
    <3>4. verb[p] \in Verbs
      BY <1>0, <2>0, <2>3 DEF Follows
    <3>5. Follows'
      BY <2>3, <3>2, <3>4 DEF Follows, Running, Claimed
    <3> QED
      BY <2>3, <3>3, <3>5
  <2>4. ASSUME NEW p \in Procs, WritePending(p) PROVE Goal
    <3> DEFINE h == Head(todo[p])
    <3>1. /\ Running(p) /\ todo[p] # <<>> /\ state' = Pending[h]
          /\ pc' = [pc EXCEPT ![p] = "spawn"]
          /\ UNCHANGED <<system, todo, verb, orphans, clean, told, commands>>
      BY <2>4 DEF WritePending, Running
    <3>2. /\ verb[p] \in Verbs /\ todo[p] = Plan(verb[p], state)
          /\ ~Refuses(verb[p], state) /\ state \in State
      BY <1>0, <2>0, <3>1 DEF Follows, TypeOK
    <3>3. /\ h \in Phases /\ state \in From(h)
          /\ Plan(verb[p], Pending[h]) = todo[p] /\ ~Refuses(verb[p], Pending[h])
      BY <3>1, <3>2, PlanResumes
    <3> HIDE DEF h
    <3>4. Facts'
      BY <1>0, <2>0, <3>1, <3>3 DEF Facts, From, Pending, Phases, Settled, Claimed
    <3>5. \A q \in Procs \ {p} : pc'[q] = pc[q] /\ todo'[q] = todo[q] /\ verb'[q] = verb[q]
      BY <1>0, <3>1 DEF TypeOK
    <3>6. pc'[p] = "spawn"
      BY <1>0, <3>1 DEF TypeOK
    <3> QED
      BY <2>3, <3>1, <3>3, <3>4, <3>5, <3>6 DEF h
  <2>5. ASSUME NEW p \in Procs, SkipScript(p) \/ Spawn(p) \/ ScriptSucceeds(p) PROVE Goal
    <3> DEFINE h == Head(todo[p])
    <3>1. /\ Running(p) /\ pc[p] \in {"spawn", "wait"}
          /\ UNCHANGED <<state, todo, verb, orphans, clean, told, commands>>
          /\ \/ pc' = [pc EXCEPT ![p] = "settle"] /\ Succeeded(h)
             \/ pc' = [pc EXCEPT ![p] = "wait"] /\ Begun(h)
      BY <2>5 DEF SkipScript, Spawn, ScriptSucceeds, Running
    <3>2. /\ todo[p] = Plan(verb[p], state) /\ ~Refuses(verb[p], state)
          /\ state = Pending[h]
      BY <1>0, <2>0, <3>1 DEF Follows
    <3>3. h \in Phases
      BY <1>0, <3>1, HeadPhase DEF TypeOK
    <3> HIDE DEF h
    <3>4. Facts'
      BY <2>0, <3>1, <3>2, <3>3, ScriptFacts
    <3>5. \A q \in Procs \ {p} : pc'[q] = pc[q] /\ todo'[q] = todo[q] /\ verb'[q] = verb[q]
      BY <1>0, <3>1 DEF TypeOK
    <3>6. pc'[p] \in {"wait", "settle"} /\ (pc'[p] = "settle" => Succeeded(h))
      BY <1>0, <3>1 DEF TypeOK
    <3>7. pc'[p] = "settle" =>
              /\ setup' = IF SettledBy[h] = "NotInstalled" THEN "no" ELSE "yes"
              /\ on' = IF SettledBy[h] = "Enabled" THEN "yes" ELSE "no"
      BY <2>0, <3>2, <3>3, <3>6, ScriptDelivers
    <3> QED
      BY <2>3, <3>1, <3>2, <3>4, <3>5, <3>6, <3>7 DEF h
  <2>6. ASSUME NEW p \in Procs, WriteSettled(p) PROVE Goal
    <3> DEFINE h == Head(todo[p])
    <3>1. /\ Running(p) /\ pc[p] = "settle" /\ state' = SettledBy[h]
          /\ todo' = [todo EXCEPT ![p] = Tail(todo[p])]
          /\ pc' = [pc EXCEPT ![p] = "next"]
          /\ UNCHANGED <<system, verb, orphans, clean, told, commands>>
      BY <2>6 DEF WriteSettled, Running
    <3>2. /\ verb[p] \in Verbs /\ todo[p] = Plan(verb[p], state) /\ todo[p] # <<>>
          /\ ~Refuses(verb[p], state) /\ state \in State /\ Claimed(SettledBy[h])
      BY <1>0, <2>0, <3>1 DEF Follows, TypeOK
    <3>3. /\ h \in Phases
          /\ Plan(verb[p], SettledBy[h]) = Tail(todo[p]) /\ ~Refuses(verb[p], SettledBy[h])
      BY <3>2, PlanResumes
    <3> HIDE DEF h
    <3>4. Facts'
      BY <3>1, <3>2, <3>3 DEF Facts, SettledBy, Phases, Claimed
    <3>5. \A q \in Procs \ {p} : pc'[q] = pc[q] /\ todo'[q] = todo[q] /\ verb'[q] = verb[q]
      BY <1>0, <3>1 DEF TypeOK
    <3>6. pc'[p] = "next" /\ todo'[p] = Tail(todo[p])
      BY <1>0, <3>1 DEF TypeOK
    <3> QED
      BY <2>3, <3>1, <3>3, <3>4, <3>5, <3>6
  <2>7. ASSUME NEW p \in Procs, ScriptFails(p) \/ Fail(p) PROVE Goal
    <3>1. Running(p) /\ Exit(p) /\ UNCHANGED <<state, system, orphans, clean, told>>
      BY <2>7 DEF ScriptFails, Fail, Running
    <3> QED
      BY <2>0, <3>1, OnlyOne, ExitInv
  <2>8. ASSUME NEW p \in Procs, Done(p) PROVE Goal
    <3>1. /\ Running(p) /\ Exit(p) /\ todo[p] = <<>> /\ told' = verb[p]
          /\ UNCHANGED <<state, system, orphans, clean>>
      BY <2>8 DEF Done, Running
    <3>2. /\ verb[p] \in Verbs /\ Plan(verb[p], state) = <<>>
          /\ ~Refuses(verb[p], state) /\ state \in State
      BY <1>0, <2>0, <3>1 DEF Follows, TypeOK
    <3>3. Delivered(verb[p])
      <4>1. CASE verb[p] = "install"
        BY <1>0, <2>0, <3>2, <4>1, NothingToRun DEF Facts, Settled, Claimed, Delivered
      <4>2. CASE verb[p] = "disable"
        BY <1>0, <2>0, <3>2, <4>2, NothingToRun DEF Facts, Settled, Claimed, Delivered
      <4>3. CASE verb[p] = "remove"
        BY <1>0, <2>0, <3>2, <4>3, NothingToRun DEF Facts, Settled, Claimed, Delivered
      <4>4. CASE verb[p] \notin {"install", "disable", "remove"}
        BY <1>0, <2>0, <3>2, <4>4, NothingToRun DEF Facts, Settled, Claimed, Delivered
      <4> QED
        BY <4>1, <4>2, <4>3, <4>4
    <3>4. orphans = {}
      BY <2>0, <3>1, OnlyOne
    <3>5. Delivered(told')
      BY <3>1, <3>3
    <3> QED
      BY <2>0, <3>1, <3>4, <3>5, ExitInv
  <2>9. ASSUME NEW p \in Procs, Kill(p) PROVE Goal
    <3>1. /\ Running(p) /\ Exit(p) /\ UNCHANGED <<state, system, clean, told>>
          /\ orphans' = orphans \/ (pc[p] = "wait" /\ orphans' = orphans \cup {Head(todo[p])})
      BY <2>9 DEF Kill
    <3>2. orphans = {} /\ told = Nothing
      BY <2>0, <3>1, OnlyOne
    <3>3. orphans' = {} \/ (pc[p] = "wait" /\ orphans' = {Head(todo[p])})
      BY <3>1, <3>2
    <3> QED
      BY <2>0, <3>1, <3>2, <3>3, ExitInv
  <2>10. ASSUME NEW phase \in Phases, OrphanEnds(phase) PROVE Goal
    <3>1. /\ phase \in orphans /\ orphans' = orphans \ {phase}
          /\ Succeeded(phase) \/ UNCHANGED system
          /\ UNCHANGED <<state, local, clean, told>>
      BY <2>10 DEF OrphanEnds
    <3>2. (\A p \in Procs : ~Running(p)) /\ told = Nothing /\ state = Pending[phase]
      BY <1>0, <2>0, <3>1 DEF Lone, ToldStays, OrphansPend
    <3>3. Facts'
      <4>1. CASE Succeeded(phase)
        BY <2>0, <3>1, <3>2, <4>1, ScriptFacts
      <4>2. CASE UNCHANGED system
        BY <1>0, <3>1, <4>2 DEF Facts, Claimed
      <4> QED
        BY <3>1, <4>1, <4>2
    <3>4. Lone' /\ Follows' /\ OrphansPend' /\ ToldStays'
      BY <1>0, <2>0, <3>1, <3>2 DEF Lone, Follows, OrphansPend, ToldStays, Running
    <3> QED
      BY <3>3, <3>4
  <2>11. CASE Crash
    <3>1. /\ \A p \in Procs : pc'[p] = "off"
          /\ orphans' = {} /\ UNCHANGED <<state, system, clean, told>>
      BY <2>11 DEF Crash
    <3>2. Lone' /\ Follows' /\ OrphansPend'
      BY <3>1 DEF Lone, Follows, OrphansPend, Running
    <3>3. Facts' /\ ToldStays'
      BY <1>0, <3>1 DEF Facts, Claimed, ToldStays, Running, Delivered
    <3> QED
      BY <3>2, <3>3
  <2> QED
    BY <2>1, <2>2, <2>4, <2>5, <2>6, <2>7, <2>8, <2>9, <2>10, <2>11 DEF Next, Step
<1> QED
  BY <1>a, <1>b

LEMMA InvCorrect == Spec => []Inv
BY InitInv, NextInv, PTL DEF Spec

-----------------------------------------------------------------------------
(* What follows *)

\* The registry claims only what happened, whatever failed, was killed or was
\* interrupted, while invocations do not overlap (cmd.rs, transition).
THEOREM SettledStatesAreTrue == Spec => []SettledIsTrue
<1>1. Inv => SettledIsTrue
  BY DEF Inv, Facts, SettledIsTrue
<1> QED
  BY <1>1, InvCorrect, PTL

\* Nothing that is on, even partly, is uninstalled (cmd.rs, plan).
THEOREM OnImpliesSetup == Spec => []OnOnlyOverSetup
<1>1. Inv => OnOnlyOverSetup
  BY DEF Inv, Facts, OnOnlyOverSetup, TypeOK, State, Settled, PendingStates, Claimed
<1> QED
  BY <1>1, InvCorrect, PTL

\* Planning the same verb again, after an interruption anywhere, gives the work
\* that was left (cmd.rs, plan and change).
THEOREM RetriesResume == Spec => []ResumesWhereItStopped
<1>1. Inv => ResumesWhereItStopped
  BY DEF Inv, Follows, ResumesWhereItStopped
<1> QED
  BY <1>1, InvCorrect, PTL

\* Exit 0 means that the verb's promise holds (cmd.rs, change).
THEOREM ExitZeroDelivers == Spec => []ToldIsDone
<1>1. Inv => ToldIsDone
  BY DEF Inv, ToldStays, ToldIsDone
<1> QED
  BY <1>1, InvCorrect, PTL
=============================================================================
