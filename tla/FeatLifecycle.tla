--------------------------- MODULE FeatLifecycle ----------------------------
(***************************************************************************)
(* `feat` on one feature: several invocations, each planned from the state *)
(* it reads, then for every step of the plan the pending state, the        *)
(* lifecycle script and the settled state.  The scripts are children that  *)
(* outlive a feat that is killed.  What they do to the system is two facts *)
(* - set up, and switched on - each of which an unfinished script leaves   *)
(* in doubt.                                                               *)
(***************************************************************************)
EXTENDS Naturals, Sequences

CONSTANTS
    Procs,           \* the `feat` invocations
    Ships,           \* the phases the feature has a script for
    MaxCommands,     \* bound of the model: invocations
    Nothing

Phases == {"install", "enable", "disable", "uninstall"}
Verbs == {"install", "enable", "disable", "add", "remove"}
Settled == {"NotInstalled", "Installed", "Enabled"}
PendingStates == {"Installing", "Enabling", "Disabling", "Uninstalling"}
State == Settled \cup PendingStates

ASSUME FeatAssumption ==
    /\ Ships \subseteq Phases
    /\ MaxCommands \in Nat
    /\ Nothing \notin Verbs

VARIABLES
    state,       \* State of Machine\System\Features\<name>
    setup, on,   \* external: whether the scripts have set it up, switched it on
    pc,          \* where each invocation is; "off" before and after
    todo,        \* the phases it has still to settle, its current one first
    verb,        \* what it was asked
    orphans,     \* phases whose script runs on without its feat
    clean,       \* history: no two feats or scripts ever overlapped, no read failed
    told,        \* history: the verb that last exited 0, until the next invocation
    commands

local == <<pc, todo, verb>>
system == <<setup, on>>
vars == <<state, setup, on, pc, todo, verb, orphans, clean, told, commands>>

-----------------------------------------------------------------------------
(* The plan *)

Pending == [install |-> "Installing", enable |-> "Enabling",
            disable |-> "Disabling", uninstall |-> "Uninstalling"]

SettledBy == [install |-> "Installed", enable |-> "Enabled",
              disable |-> "Installed", uninstall |-> "NotInstalled"]

\* enable is refused for what is not installed.
Refuses(v, s) == v = "enable" /\ s \in {"NotInstalled", "Installing", "Uninstalling"}

\* Mutants: an interrupted enable is taken not to have begun, or to have
\* finished; an interrupted install is taken to have finished.
RemovePlanIfOn(s) ==
    IF s = "NotInstalled" THEN <<>>
    ELSE IF s \in {"Enabled", "Disabling"} THEN <<"disable", "uninstall">>
    ELSE <<"uninstall">>
EnablePlanIfOff(s) == IF s \in {"Enabled", "Enabling"} THEN <<>> ELSE <<"enable">>
InstallPlanIfNew(s) == IF s \in {"NotInstalled", "Uninstalling"} THEN <<"install">> ELSE <<>>

InstallPlan(s) ==
    IF s \in {"NotInstalled", "Installing", "Uninstalling"} THEN <<"install">> ELSE <<>>
EnablePlan(s) == IF s = "Enabled" THEN <<>> ELSE <<"enable">>
DisablePlan(s) == IF s \in {"Enabled", "Enabling", "Disabling"} THEN <<"disable">> ELSE <<>>
RemovePlan(s) ==
    IF s = "NotInstalled" THEN <<>>
    ELSE IF s \in {"Enabled", "Enabling", "Disabling"} THEN <<"disable", "uninstall">>
    ELSE <<"uninstall">>

\* add: install if need be, then enable from where that leaves the feature.
AddPlan(s) ==
    IF InstallPlan(s) = <<>> THEN EnablePlan(s)
    ELSE InstallPlan(s) \o EnablePlan("Installed")

\* plan: the phases to run for verb v from state s.
Plan(v, s) ==
    CASE v = "install" -> InstallPlan(s)
      [] v = "enable"  -> EnablePlan(s)
      [] v = "disable" -> DisablePlan(s)
      [] v = "add"     -> AddPlan(s)
      [] OTHER         -> RemovePlan(s)

-----------------------------------------------------------------------------
(* The scripts, external: each turns one fact, and is idempotent *)

Turn(fact, phases, phase, to) == IF phase \in phases THEN to ELSE fact

\* The two facts once the script of a phase has begun, and once it succeeded.
Begun(phase) ==
    /\ setup' = Turn(setup, {"install", "uninstall"}, phase, "partly")
    /\ on' = Turn(on, {"enable", "disable"}, phase, "partly")

Succeeded(phase) ==
    /\ setup' = Turn(Turn(setup, {"install"}, phase, "yes"), {"uninstall"}, phase, "no")
    /\ on' = Turn(Turn(on, {"enable"}, phase, "yes"), {"disable"}, phase, "no")

-----------------------------------------------------------------------------
(* The invocations *)

Running(p) == pc[p] # "off"
Alone(p) == orphans = {} /\ \A q \in Procs \ {p} : ~Running(q)

Init ==
    /\ state = "NotInstalled" /\ setup = "no" /\ on = "no"
    /\ pc = [p \in Procs |-> "off"]
    /\ todo = [p \in Procs |-> <<>>]
    /\ verb = [p \in Procs |-> Nothing]
    /\ orphans = {}
    /\ clean = TRUE
    /\ told = Nothing
    /\ commands = 0

Exit(p) ==
    /\ pc' = [pc EXCEPT ![p] = "off"]
    /\ todo' = [todo EXCEPT ![p] = <<>>]
    /\ verb' = [verb EXCEPT ![p] = Nothing]

\* change: read the state, plan.  A value that cannot be queried reads as
\* NotInstalled.
Start(p, v, seen) ==
    /\ ~Running(p) /\ commands < MaxCommands
    /\ seen \in {state, "NotInstalled"}
    /\ ~Refuses(v, seen)
    /\ pc' = [pc EXCEPT ![p] = "next"]
    /\ todo' = [todo EXCEPT ![p] = Plan(v, seen)]
    /\ verb' = [verb EXCEPT ![p] = v]
    /\ clean' = (clean /\ Alone(p) /\ seen = state)
    /\ told' = Nothing
    /\ commands' = commands + 1
    /\ UNCHANGED <<state, system, orphans>>

\* transition: persist the pending state of the next phase.
WritePending(p) ==
    /\ pc[p] = "next" /\ todo[p] # <<>>
    /\ state' = Pending[Head(todo[p])]
    /\ pc' = [pc EXCEPT ![p] = "spawn"]
    /\ UNCHANGED <<system, todo, verb, orphans, clean, told, commands>>

\* run_phase: a feature without the script has nothing to do in that phase.
SkipScript(p) ==
    /\ pc[p] = "spawn" /\ Head(todo[p]) \notin Ships
    /\ Succeeded(Head(todo[p]))
    /\ pc' = [pc EXCEPT ![p] = "settle"]
    /\ UNCHANGED <<state, todo, verb, orphans, clean, told, commands>>

Spawn(p) ==
    /\ pc[p] = "spawn" /\ Head(todo[p]) \in Ships
    /\ Begun(Head(todo[p]))
    /\ pc' = [pc EXCEPT ![p] = "wait"]
    /\ UNCHANGED <<state, todo, verb, orphans, clean, told, commands>>

ScriptSucceeds(p) ==
    /\ pc[p] = "wait"
    /\ Succeeded(Head(todo[p]))
    /\ pc' = [pc EXCEPT ![p] = "settle"]
    /\ UNCHANGED <<state, todo, verb, orphans, clean, told, commands>>

\* Mutant: the settled state is persisted for a script that failed.
ScriptFailsSilently(p) ==
    /\ pc[p] = "wait"
    /\ pc' = [pc EXCEPT ![p] = "settle"]
    /\ UNCHANGED <<state, system, todo, verb, orphans, clean, told, commands>>

\* A non-zero exit leaves the pending state.
ScriptFails(p) ==
    /\ pc[p] = "wait"
    /\ Exit(p)
    /\ UNCHANGED <<state, system, orphans, clean, told, commands>>

\* Mutant: the next script starts without its pending state.
WriteSettledThenSpawn(p) ==
    /\ pc[p] = "settle"
    /\ state' = SettledBy[Head(todo[p])]
    /\ todo' = [todo EXCEPT ![p] = Tail(@)]
    /\ pc' = [pc EXCEPT ![p] = "spawn"]
    /\ UNCHANGED <<system, verb, orphans, clean, told, commands>>

\* transition: persist the settled state, and go on with the plan.
WriteSettled(p) ==
    /\ pc[p] = "settle"
    /\ state' = SettledBy[Head(todo[p])]
    /\ todo' = [todo EXCEPT ![p] = Tail(@)]
    /\ pc' = [pc EXCEPT ![p] = "next"]
    /\ UNCHANGED <<system, verb, orphans, clean, told, commands>>

\* A registry write, or the start of the script, is refused: exit with an error.
Fail(p) ==
    /\ pc[p] \in {"next", "spawn", "settle"}
    /\ todo[p] # <<>>
    /\ Exit(p)
    /\ UNCHANGED <<state, system, orphans, clean, told, commands>>

Done(p) ==
    /\ pc[p] = "next" /\ todo[p] = <<>>
    /\ told' = verb[p]
    /\ Exit(p)
    /\ UNCHANGED <<state, system, orphans, clean, commands>>

\* feat is killed, with the script it was waiting for or without.
Kill(p) ==
    /\ Running(p)
    /\ \/ UNCHANGED orphans
       \/ pc[p] = "wait" /\ orphans' = orphans \cup {Head(todo[p])}
    /\ Exit(p)
    /\ UNCHANGED <<state, system, clean, told, commands>>

OrphanEnds(phase) ==
    /\ phase \in orphans
    /\ orphans' = orphans \ {phase}
    /\ Succeeded(phase) \/ UNCHANGED system
    /\ UNCHANGED <<state, local, clean, told, commands>>

\* The machine stops: everything running is gone, what was persisted stays.
Crash ==
    /\ pc' = [p \in Procs |-> "off"]
    /\ todo' = [p \in Procs |-> <<>>]
    /\ verb' = [p \in Procs |-> Nothing]
    /\ orphans' = {}
    /\ UNCHANGED <<state, system, clean, told, commands>>

Step(p) ==
    \/ WritePending(p) \/ SkipScript(p) \/ Spawn(p)
    \/ ScriptSucceeds(p) \/ ScriptFails(p) \/ WriteSettled(p) \/ Done(p)

Next ==
    \/ \E p \in Procs, v \in Verbs, seen \in State : Start(p, v, seen)
    \/ \E p \in Procs : Step(p)
    \/ \E p \in Procs : Fail(p)
    \/ \E p \in Procs : Kill(p)
    \/ \E phase \in Phases : OrphanEnds(phase)
    \/ Crash

Spec == Init /\ [][Next]_vars

-----------------------------------------------------------------------------
(* Properties *)

\* Type invariant.
TypeOK ==
    /\ state \in State
    /\ setup \in {"no", "partly", "yes"} /\ on \in {"no", "partly", "yes"}
    /\ pc \in [Procs -> {"off", "next", "spawn", "wait", "settle"}]
    /\ todo \in [Procs -> Seq(Phases)]
    /\ \A p \in Procs : pc[p] \in {"spawn", "wait", "settle"} => todo[p] # <<>>
    /\ verb \in [Procs -> Verbs \cup {Nothing}]
    /\ orphans \subseteq Phases
    /\ clean \in BOOLEAN /\ told \in Verbs \cup {Nothing}
    /\ commands \in 0 .. MaxCommands

\* What a settled state claims.
Claimed(s) ==
    /\ setup = IF s = "NotInstalled" THEN "no" ELSE "yes"
    /\ on = IF s = "Enabled" THEN "yes" ELSE "no"

\* "Never a state that claims success that didn't happen": through failed
\* scripts, kills, crashes and retries, the registry holds a settled state only
\* when the system is in it.  (While invocations do not overlap.)
SettledIsTrue == clean /\ state \in Settled => Claimed(state)

\* "You cannot uninstall while enabled": what is on, even partly, is set up in
\* full, whichever verbs follow an interruption.
OnOnlyOverSetup == clean => (on # "no" => setup = "yes")

\* "Pending states are treated as resume/retry": wherever an invocation stops,
\* the same verb planned again from what the registry holds is exactly the
\* work that was left.
ResumesWhereItStopped ==
    \A p \in Procs : clean /\ Running(p) =>
        todo[p] = Plan(verb[p], state) /\ ~Refuses(verb[p], state)

\* Exit 0 means that it is so: also when nothing was run because it was
\* "already" so.
Delivered(v) ==
    CASE v = "install" -> setup = "yes"
      [] v = "disable" -> on = "no"
      [] v = "remove"  -> setup = "no" /\ on = "no"
      [] OTHER         -> setup = "yes" /\ on = "yes"

ToldIsDone == clean /\ told # Nothing => Delivered(told)

\* The same claim of any invocations, as the source makes it.
NeverClaimsWhatDidNotHappen == state \in Settled => Claimed(state)
=============================================================================
