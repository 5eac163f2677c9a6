---------------------------- MODULE TimeoutProofs ----------------------------
(***************************************************************************)
(* The safety properties of Timeout for every set of signals, exit codes   *)
(* and faults, by one inductive invariant.                                 *)
(***************************************************************************)
EXTENDS Timeout, TLAPS

\* What the assumption says of the numbers.
LEMMA NumbersAreSmall ==
    Signals \subseteq 0 .. 31 /\ Codes \subseteq 0 .. 123 /\ Faults \subseteq 1 .. 64
BY TimeoutAssumption DEF Ending

\* Where the command is, by where timeout is.
CommandFollows ==
    /\ pc = "spawn" => proc["command"].state = "none"
    /\ pc = "exec" => proc["command"].state = "starting"
    /\ pc \in {"poll", "check", "wait", "group", "cont", "contgroup"} =>
          proc["command"].state \in {"running", "stopped", "ended"}
    /\ pc \in {"spawn", "exec"} => call = "run" /\ end = NoEnd
    /\ pc = "group" => call \in {"run", "killed"}
    /\ pc \in {"cont", "contgroup"} => call = "run"
    /\ pc # "done" => slain = "no"
    /\ proc["descendant"].state \notin {"starting", "ended"}

\* Why a signal was sent: the deadline, or a signal that came.
HasCause ==
    /\ received # 0 /\ first = None => received \in came
    /\ timer = "passed" /\ call = "run" => late
    /\ external => received # 0
    /\ call = "run" /\ pc \notin {"group", "cont", "contgroup", "done"} => first = None
    /\ first # None => late \/ came # {}

\* How the command can end.
EndIsSmall == end.n \in 0 .. 123

\* Who was there at the group's signal is no newcomer, there was one, and it is
\* told to go on after it.
PresentWasThere ==
    /\ \A m \in present : proc[m].state # "none"
    /\ present # {} =>
          first # None /\ (call # "run" \/ pc \in {"cont", "contgroup", "done"})
    /\ resumed => call # "run" \/ pc = "done"

Inv ==
    /\ TypeOK /\ CommandFollows /\ HasCause /\ EndIsSmall /\ PresentWasThere
    /\ NoCommandSurvives /\ GroupGetsTheSignal /\ NoFalseTimeout /\ OwnCodeIsKept
    /\ TheRightSignalIsSent /\ OrphanIsSignalled

-----------------------------------------------------------------------------
(* What sending does *)

ProcType ==
    [Members -> [state : {"none", "starting", "running", "stopped", "ended", "gone"},
                 pending : SUBSET (Signals \cup {KILL})]]

\* A signal sent to one member is one more that waits there.
LEMMA PostIs ==
    ASSUME NEW ps \in ProcType, NEW m \in Members, NEW s \in Signals \cup {KILL}
    PROVE  /\ Post(ps, m, s) \in ProcType
           /\ \A x \in Members : /\ Post(ps, m, s)[x].state = ps[x].state
                                 /\ ps[x].pending \subseteq Post(ps, m, s)[x].pending
           /\ s # 0 /\ ps[m].state \in {"starting", "running", "stopped"}
                 => s \in Post(ps, m, s)[m].pending
<1>1. CASE s # 0 /\ ps[m].state \in {"starting", "running", "stopped"}
  <2>1. Post(ps, m, s) = [ps EXCEPT ![m].pending = @ \cup {s}]
    BY <1>1 DEF Post
  <2>2. ps[m].pending \cup {s} \in SUBSET (Signals \cup {KILL})
    BY DEF ProcType
  <2> QED BY <2>1, <2>2 DEF ProcType
<1>2. CASE ~(s # 0 /\ ps[m].state \in {"starting", "running", "stopped"})
  BY <1>2 DEF Post
<1> QED BY <1>1, <1>2

\* One sent to all waits with all.
LEMMA SentToAll ==
    ASSUME NEW ps \in ProcType, NEW s \in Signals
    PROVE  /\ PostAll(ps, s) \in ProcType
           /\ \A x \in Members :
                 LET q == PostAll(ps, s) IN
                 /\ q[x].state = ps[x].state
                 /\ ps[x].pending \subseteq q[x].pending
                 /\ s # 0 /\ ps[x].state \in {"starting", "running", "stopped"}
                       => s \in q[x].pending
<1> DEFINE a == Post(ps, "command", s)
           b == Post(a, "descendant", s)
<1>1. /\ a \in ProcType
      /\ \A x \in Members : a[x].state = ps[x].state /\ ps[x].pending \subseteq a[x].pending
      /\ s # 0 /\ ps["command"].state \in {"starting", "running", "stopped"}
            => s \in a["command"].pending
  BY PostIs DEF Members
<1>2. /\ b \in ProcType
      /\ \A x \in Members : b[x].state = a[x].state /\ a[x].pending \subseteq b[x].pending
      /\ s # 0 /\ a["descendant"].state \in {"starting", "running", "stopped"}
            => s \in b["descendant"].pending
  BY <1>1, PostIs DEF Members
<1> HIDE DEF a, b
<1>3. PostAll(ps, s) = b BY DEF PostAll, a, b
<1> QED BY <1>1, <1>2, <1>3 DEF Members

\* CONT ends a stop, and changes nothing else.
LEMMA ContinueIs ==
    ASSUME NEW ps \in ProcType, NEW ms \in SUBSET Members
    PROVE  /\ Continue(ps, ms) \in ProcType
           /\ \A x \in Members :
                 /\ Continue(ps, ms)[x].pending = ps[x].pending
                 /\ Continue(ps, ms)[x].state =
                       IF x \in ms /\ ps[x].state = "stopped" THEN "running" ELSE ps[x].state
BY DEF Continue, ProcType

-----------------------------------------------------------------------------
(* One lemma per action *)

Endings == {Exit(c) : c \in Codes} \cup {KilledBy(s) : s \in Faults \cup Signals \cup {KILL}}

\* A signal that an indifferent member ignores.
Discard(m, s) ==
    /\ s # KILL
    /\ proc' = [proc EXCEPT ![m].pending = @ \ {s}]
    /\ UNCHANGED <<opts, pc, call, timer, received, first, external, status, deaf, end, late, came,
                   slain, present, resumed>>

LEMMA ForkStep == ASSUME Inv, Fork PROVE Inv'
<1>1. TypeOK' BY DEF Inv, TypeOK, Fork, Members
<1>2. CommandFollows' BY DEF Inv, CommandFollows, Fork, TypeOK, Members
<1>3. HasCause' BY DEF Inv, HasCause, Fork
<1>4. EndIsSmall' BY DEF Inv, EndIsSmall, Fork
<1>5. PresentWasThere' BY DEF Inv, PresentWasThere, Fork, Alive
<1>6. NoCommandSurvives' BY DEF NoCommandSurvives, Fork, Ended
<1>7. GroupGetsTheSignal' BY DEF Inv, GroupGetsTheSignal, Fork, CommandFollows, PresentWasThere
<1>8. NoFalseTimeout' BY DEF NoFalseTimeout, Fork, Ended
<1>9. OwnCodeIsKept' BY DEF OwnCodeIsKept, Fork, Ended
<1>10. TheRightSignalIsSent' BY DEF Inv, TheRightSignalIsSent, Fork
<1>11. OrphanIsSignalled' BY DEF Inv, OrphanIsSignalled, Fork, CommandFollows
<1> QED BY <1>1, <1>2, <1>3, <1>4, <1>5, <1>6, <1>7, <1>8, <1>9, <1>10, <1>11 DEF Inv

LEMMA ExecStep == ASSUME Inv, Exec PROVE Inv'
<1>1. TypeOK' BY DEF Inv, TypeOK, Exec, WaitFor, Members
<1>2. CommandFollows' BY DEF Inv, CommandFollows, Exec, WaitFor, TypeOK, Members
<1>3. HasCause' BY DEF Inv, HasCause, Exec, WaitFor, CommandFollows
<1>4. EndIsSmall' BY DEF Inv, EndIsSmall, Exec
<1>5. PresentWasThere' BY DEF Inv, PresentWasThere, Exec, Alive, CommandFollows
<1>6. NoCommandSurvives' BY DEF NoCommandSurvives, Exec, WaitFor, Ended
<1>7. GroupGetsTheSignal' BY DEF Inv, GroupGetsTheSignal, Exec, CommandFollows, PresentWasThere
<1>8. NoFalseTimeout' BY DEF NoFalseTimeout, Exec, WaitFor, Ended
<1>9. OwnCodeIsKept' BY DEF OwnCodeIsKept, Exec, WaitFor, Ended
<1>10. TheRightSignalIsSent' BY DEF Inv, TheRightSignalIsSent, Exec
<1>11. OrphanIsSignalled' BY DEF Inv, OrphanIsSignalled, Exec, CommandFollows
<1> QED BY <1>1, <1>2, <1>3, <1>4, <1>5, <1>6, <1>7, <1>8, <1>9, <1>10, <1>11 DEF Inv

LEMMA ExecFailsStep == ASSUME Inv, ExecFails PROVE Inv'
<1>1. TypeOK' BY DEF Inv, TypeOK, ExecFails, Exit, Members
<1>2. CommandFollows' BY DEF Inv, CommandFollows, ExecFails
<1>3. HasCause' BY DEF Inv, HasCause, ExecFails
<1>4. EndIsSmall' BY DEF Inv, EndIsSmall, ExecFails
<1>5. PresentWasThere' BY DEF Inv, PresentWasThere, ExecFails, Alive
<1>6. NoCommandSurvives' BY DEF Inv, NoCommandSurvives, ExecFails, TypeOK, Members
<1>7. GroupGetsTheSignal'
  BY DEF Inv, GroupGetsTheSignal, ExecFails, CommandFollows, PresentWasThere
<1>8. NoFalseTimeout' BY NumbersAreSmall DEF NoFalseTimeout, ExecFails, Exit, KILL
<1>9. OwnCodeIsKept' BY DEF Inv, OwnCodeIsKept, ExecFails, NoEnd, CommandFollows
<1>10. TheRightSignalIsSent' BY DEF Inv, TheRightSignalIsSent, ExecFails
<1>11. OrphanIsSignalled' BY DEF Inv, OrphanIsSignalled, ExecFails, CommandFollows
<1> QED BY <1>1, <1>2, <1>3, <1>4, <1>5, <1>6, <1>7, <1>8, <1>9, <1>10, <1>11 DEF Inv

LEMMA ReapStep == ASSUME Inv, Reap PROVE Inv'
<1>1. TypeOK' BY NumbersAreSmall DEF Inv, TypeOK, Reap, Result, Exit, KilledBy, KILL, Members
<1>2. CommandFollows' BY DEF Inv, CommandFollows, Reap
<1>3. HasCause' BY DEF Inv, HasCause, Reap
<1>4. EndIsSmall' BY DEF Inv, EndIsSmall, Reap
<1>5. PresentWasThere' BY DEF Inv, PresentWasThere, Reap, Alive
<1>6. NoCommandSurvives' BY DEF Inv, NoCommandSurvives, Reap, TypeOK, Members
<1>7. GroupGetsTheSignal' BY DEF Inv, GroupGetsTheSignal, Reap, Alive
<1>8. NoFalseTimeout'
  BY NumbersAreSmall DEF Inv, NoFalseTimeout, Reap, Result, Exit, KilledBy, TypeOK,
     HasCause, EndIsSmall, KILL
<1>9. OwnCodeIsKept' BY DEF Inv, OwnCodeIsKept, Reap, Result, Exit, TypeOK, HasCause
<1>10. TheRightSignalIsSent' BY DEF Inv, TheRightSignalIsSent, Reap
<1>11. OrphanIsSignalled' BY DEF Inv, OrphanIsSignalled, Reap, CommandFollows
<1> QED BY <1>1, <1>2, <1>3, <1>4, <1>5, <1>6, <1>7, <1>8, <1>9, <1>10, <1>11 DEF Inv

LEMMA PollStep == ASSUME Inv, Poll PROVE Inv'
<1>1. TypeOK' BY DEF Inv, TypeOK, Poll
<1>2. CommandFollows' BY DEF Inv, CommandFollows, Poll
<1>3. HasCause' BY DEF Inv, HasCause, Poll
<1>4. EndIsSmall' BY DEF Inv, EndIsSmall, Poll
<1>5. PresentWasThere' BY DEF Inv, PresentWasThere, Poll, Alive
<1>6. NoCommandSurvives' BY DEF NoCommandSurvives, Poll, Ended
<1>7. GroupGetsTheSignal' BY DEF Inv, GroupGetsTheSignal, Poll, Alive
<1>8. NoFalseTimeout' BY DEF NoFalseTimeout, Poll, Ended
<1>9. OwnCodeIsKept' BY DEF OwnCodeIsKept, Poll, Ended
<1>10. TheRightSignalIsSent' BY DEF Inv, TheRightSignalIsSent, Poll
<1>11. OrphanIsSignalled' BY DEF Inv, OrphanIsSignalled, Poll, CommandFollows
<1> QED BY <1>1, <1>2, <1>3, <1>4, <1>5, <1>6, <1>7, <1>8, <1>9, <1>10, <1>11 DEF Inv

LEMMA SleepStep == ASSUME Inv, Sleep PROVE Inv'
<1>1. TypeOK' BY DEF Inv, TypeOK, Sleep
<1>2. CommandFollows' BY DEF Inv, CommandFollows, Sleep
<1>3. HasCause' BY DEF Inv, HasCause, Sleep
<1>4. EndIsSmall' BY DEF Inv, EndIsSmall, Sleep
<1>5. PresentWasThere' BY DEF Inv, PresentWasThere, Sleep, Alive
<1>6. NoCommandSurvives' BY DEF NoCommandSurvives, Sleep, Ended
<1>7. GroupGetsTheSignal' BY DEF Inv, GroupGetsTheSignal, Sleep, Alive
<1>8. NoFalseTimeout' BY DEF NoFalseTimeout, Sleep, Ended
<1>9. OwnCodeIsKept' BY DEF OwnCodeIsKept, Sleep, Ended
<1>10. TheRightSignalIsSent' BY DEF Inv, TheRightSignalIsSent, Sleep
<1>11. OrphanIsSignalled' BY DEF Inv, OrphanIsSignalled, Sleep, CommandFollows
<1> QED BY <1>1, <1>2, <1>3, <1>4, <1>5, <1>6, <1>7, <1>8, <1>9, <1>10, <1>11 DEF Inv

LEMMA SendStep == ASSUME Inv, Send PROVE Inv'
<1>a. /\ first' \in Signals \cup {None} /\ first' # None
      /\ call' \in {call, "killed"} /\ (call' = "killed" \/ call = "run")
  BY NumbersAreSmall DEF Inv, TypeOK, Send, ToSend, None
<1>b. external' \in BOOLEAN
  <2>1. CASE call = "run" BY <2>1 DEF Send
  <2>2. CASE call # "run" BY <2>2 DEF Inv, TypeOK, Send
  <2> QED BY <2>1, <2>2
<1>c. LET s == IF call = "run" THEN ToSend ELSE KILL IN
        /\ s \in Signals \cup {KILL} /\ proc' = Post(proc, "command", s)
  BY DEF Inv, TypeOK, Send, ToSend
<1>d. /\ proc' \in ProcType
      /\ \A x \in Members : /\ proc'[x].state = proc[x].state
                             /\ proc[x].pending \subseteq proc'[x].pending
  BY <1>c, PostIs DEF Inv, TypeOK, ProcType, Members
<1>1. TypeOK' BY <1>d, <1>b, NumbersAreSmall DEF Inv, TypeOK, Send, ToSend, None, ProcType
<1>2. CommandFollows' BY <1>d DEF Inv, CommandFollows, Send, Members
<1>3. HasCause' BY DEF Inv, HasCause, Send, Over
<1>4. EndIsSmall' BY DEF Inv, EndIsSmall, Send
<1>5. PresentWasThere' BY <1>d DEF Inv, PresentWasThere, Send, TypeOK
<1>6. NoCommandSurvives' BY DEF NoCommandSurvives, Send, Ended
<1>7. GroupGetsTheSignal'
  BY <1>d DEF Inv, GroupGetsTheSignal, Send, Alive, TypeOK, PresentWasThere
<1>8. NoFalseTimeout' BY DEF Inv, NoFalseTimeout, Send, Over, TypeOK, HasCause
<1>9. OwnCodeIsKept' BY DEF OwnCodeIsKept, Send, Ended
<1>10. TheRightSignalIsSent' BY DEF Inv, TheRightSignalIsSent, Send, Over, ToSend, HasCause
<1>11. OrphanIsSignalled' BY DEF Inv, OrphanIsSignalled, Send, CommandFollows
<1> QED BY <1>1, <1>2, <1>3, <1>4, <1>5, <1>6, <1>7, <1>8, <1>9, <1>10, <1>11 DEF Inv

LEMMA NextWaits ==
    ASSUME Inv, NextWait, pc \in {"group", "contgroup"}
    PROVE  /\ call' \in {"grace", "end", "killed"} /\ (call' = "grace" => opts.after # "none")
           /\ pc' \in {"poll", "wait"} /\ timer' \in {"off", "running"}
           /\ (timer' # "off" => pc' = "poll")
BY DEF Inv, CommandFollows, NextWait, WaitFor

LEMMA GroupStep == ASSUME Inv, Group PROVE Inv'
<1>a. /\ first \in Signals /\ resumed' = resumed
      /\ \/ proc' = proc /\ present' = present /\ pc' \in {"poll", "wait"}
         \/ /\ first \notin {0, KILL} /\ call = "run" /\ call' = "run" /\ ~resumed
            /\ pc' = "cont"
            /\ proc' = PostAll(proc, first) /\ present' = {m \in Members : Alive(m)}
  <2>1. first \in Signals /\ (call = "killed" \/ call = "run")
    BY DEF Inv, TypeOK, CommandFollows, Group
  <2>2. call = "run" => ~resumed BY DEF Inv, PresentWasThere, Group
  <2> QED BY <2>1, <2>2 DEF Group, Sending, NextWait, WaitFor
<1>b. /\ proc' \in ProcType
      /\ \A x \in Members : proc'[x].state = proc[x].state
      /\ \A x \in Members : proc[x].pending \subseteq proc'[x].pending
  <2>1. proc \in ProcType BY DEF Inv, TypeOK, ProcType
  <2> QED BY <1>a, <2>1, SentToAll
<1>c. \A x \in present' : \/ proc' = proc /\ x \in present
                          \/ /\ first \in proc'[x].pending /\ ~resumed
                             /\ proc[x].state # "none" /\ x \in Members
  <2>1. CASE proc' = proc /\ present' = present
    BY <2>1
  <2>2. CASE /\ first \notin {0, KILL} /\ ~resumed
             /\ proc' = PostAll(proc, first) /\ present' = {m \in Members : Alive(m)}
    <3> SUFFICES ASSUME NEW x \in present'
                 PROVE  first \in proc'[x].pending /\ proc[x].state # "none" /\ x \in Members
      BY <2>2
    <3>1. proc \in ProcType BY DEF Inv, TypeOK, ProcType
    <3>2. x \in Members /\ proc[x].state \in {"starting", "running", "stopped"}
      BY <2>2 DEF Alive
    <3> QED BY <1>a, <2>2, <3>1, <3>2, SentToAll
  <2> QED BY <1>a, <2>1, <2>2
<1>d. \/ /\ call' \in {"grace", "end", "killed"} /\ (call' = "grace" => opts.after # "none")
         /\ pc' \in {"poll", "wait"} /\ timer' \in {"off", "running"}
         /\ (timer' # "off" => pc' = "poll")
      \/ pc' = "cont" /\ call' = "run" /\ call = "run" /\ timer' = timer
  <2>1. CASE NextWait BY <2>1, NextWaits DEF Group
  <2>2. CASE pc' = "cont" /\ UNCHANGED <<call, timer>> BY <1>a, <2>2
  <2> QED BY <2>1, <2>2 DEF Group
<1>e. present' \subseteq Members
  BY <1>a DEF Inv, TypeOK
<1>f. timer' # "off" => pc' = "poll"
  BY <1>d DEF Inv, TypeOK, Group
<1>g. pc' # "done" /\ first # None
  BY <1>a DEF Inv, TypeOK, Group
<1>1. TypeOK' BY <1>b, <1>d, <1>e, <1>f, <1>g DEF Inv, TypeOK, Group, ProcType
<1>2. CommandFollows' BY <1>b, <1>d DEF Inv, CommandFollows, Group, Members
<1>3. HasCause' BY <1>d, <1>f, <1>g DEF Inv, HasCause, Group
<1>4. EndIsSmall' BY DEF Inv, EndIsSmall, Group
<1>5. PresentWasThere' BY <1>a, <1>b, <1>c, <1>d, <1>g DEF Inv, PresentWasThere, Group
<1>6. NoCommandSurvives' BY <1>d DEF NoCommandSurvives, Ended
<1>7. GroupGetsTheSignal' BY <1>a, <1>c DEF Inv, GroupGetsTheSignal, Group, Alive
<1>8. NoFalseTimeout' BY <1>d DEF NoFalseTimeout, Ended
<1>9. OwnCodeIsKept' BY <1>d DEF OwnCodeIsKept, Ended
<1>10. TheRightSignalIsSent' BY DEF Inv, TheRightSignalIsSent, Group
<1>11. OrphanIsSignalled' BY DEF Inv, OrphanIsSignalled, Group, CommandFollows
<1> QED BY <1>1, <1>2, <1>3, <1>4, <1>5, <1>6, <1>7, <1>8, <1>9, <1>10, <1>11 DEF Inv

LEMMA ContinueCommandStep == ASSUME Inv, ContinueCommand PROVE Inv'
<1>a. proc \in ProcType /\ {"command"} \in SUBSET Members
  BY DEF Inv, TypeOK, ProcType, Members
<1>b. /\ proc' \in ProcType
      /\ \A x \in Members : /\ proc'[x].pending = proc[x].pending
                             /\ proc'[x].state = IF x = "command" /\ proc[x].state = "stopped"
                                                 THEN "running" ELSE proc[x].state
  BY <1>a, ContinueIs DEF ContinueCommand
<1>1. TypeOK' BY <1>b DEF Inv, TypeOK, ContinueCommand, ProcType
<1>2. CommandFollows' BY <1>b DEF Inv, CommandFollows, ContinueCommand, Members
<1>3. HasCause' BY DEF Inv, HasCause, ContinueCommand
<1>4. EndIsSmall' BY DEF Inv, EndIsSmall, ContinueCommand
<1>5. PresentWasThere' BY <1>b DEF Inv, PresentWasThere, ContinueCommand, TypeOK
<1>6. NoCommandSurvives' BY DEF NoCommandSurvives, ContinueCommand, Ended
<1>7. GroupGetsTheSignal'
  BY <1>b DEF Inv, GroupGetsTheSignal, ContinueCommand, Alive, TypeOK
<1>8. NoFalseTimeout' BY DEF NoFalseTimeout, ContinueCommand, Ended
<1>9. OwnCodeIsKept' BY DEF OwnCodeIsKept, ContinueCommand, Ended
<1>10. TheRightSignalIsSent' BY DEF Inv, TheRightSignalIsSent, ContinueCommand
<1>11. OrphanIsSignalled' BY DEF Inv, OrphanIsSignalled, ContinueCommand, CommandFollows
<1> QED BY <1>1, <1>2, <1>3, <1>4, <1>5, <1>6, <1>7, <1>8, <1>9, <1>10, <1>11 DEF Inv

LEMMA ContinueGroupStep == ASSUME Inv, ContinueGroup PROVE Inv'
<1>a. proc \in ProcType /\ NextWait /\ pc \in {"group", "contgroup"}
  BY DEF Inv, TypeOK, ProcType, ContinueGroup
<1>b. /\ proc' \in ProcType
      /\ \A x \in Members : /\ proc'[x].pending = proc[x].pending
                             /\ proc'[x].state = IF proc[x].state = "stopped"
                                                 THEN "running" ELSE proc[x].state
  BY <1>a, ContinueIs DEF ContinueGroup
<1>d. /\ call' \in {"grace", "end", "killed"} /\ (call' = "grace" => opts.after # "none")
      /\ pc' \in {"poll", "wait"} /\ timer' \in {"off", "running"}
      /\ (timer' # "off" => pc' = "poll")
  BY <1>a, NextWaits
<1>e. \A x \in present : proc'[x].state \in {"starting", "running"} \/ ~Alive(x)'
  BY <1>b DEF Inv, TypeOK, Alive, ProcType
<1>1. TypeOK' BY <1>b, <1>d DEF Inv, TypeOK, ContinueGroup, ProcType
<1>2. CommandFollows' BY <1>b, <1>d DEF Inv, CommandFollows, ContinueGroup, Members
<1>3. HasCause' BY <1>d DEF Inv, HasCause, ContinueGroup
<1>4. EndIsSmall' BY DEF Inv, EndIsSmall, ContinueGroup
<1>5. PresentWasThere' BY <1>b, <1>d DEF Inv, PresentWasThere, ContinueGroup, TypeOK
<1>6. NoCommandSurvives' BY <1>d DEF NoCommandSurvives, Ended
<1>7. GroupGetsTheSignal'
  <2>1. \A x \in present : proc[x].state # "starting"
    BY DEF Inv, TypeOK, CommandFollows, ContinueGroup, Members
  <2> QED BY <1>b, <1>e, <2>1 DEF Inv, GroupGetsTheSignal, ContinueGroup, Alive, TypeOK
<1>8. NoFalseTimeout' BY <1>d DEF NoFalseTimeout, Ended
<1>9. OwnCodeIsKept' BY <1>d DEF OwnCodeIsKept, Ended
<1>10. TheRightSignalIsSent' BY DEF Inv, TheRightSignalIsSent, ContinueGroup
<1>11. OrphanIsSignalled' BY DEF Inv, OrphanIsSignalled, ContinueGroup, CommandFollows
<1> QED BY <1>1, <1>2, <1>3, <1>4, <1>5, <1>6, <1>7, <1>8, <1>9, <1>10, <1>11 DEF Inv

LEMMA SignalStep == ASSUME Inv, NEW s \in Signals, Signal(s) PROVE Inv'
<1>1. TypeOK' BY DEF Inv, TypeOK, Signal
<1>2. CommandFollows' BY DEF Inv, CommandFollows, Signal
<1>3. HasCause' BY DEF Inv, HasCause, Signal, Handled
<1>4. EndIsSmall' BY DEF Inv, EndIsSmall, Signal
<1>5. PresentWasThere' BY DEF Inv, PresentWasThere, Signal, Alive
<1>6. NoCommandSurvives' BY DEF NoCommandSurvives, Signal, Ended
<1>7. GroupGetsTheSignal' BY DEF Inv, GroupGetsTheSignal, Signal, Alive
<1>8. NoFalseTimeout' BY DEF Inv, NoFalseTimeout, Signal, HasCause
<1>9. OwnCodeIsKept' BY DEF OwnCodeIsKept, Signal, Ended
<1>10. TheRightSignalIsSent' BY DEF Inv, TheRightSignalIsSent, Signal
<1>11. OrphanIsSignalled' BY DEF Inv, OrphanIsSignalled, Signal, CommandFollows
<1> QED BY <1>1, <1>2, <1>3, <1>4, <1>5, <1>6, <1>7, <1>8, <1>9, <1>10, <1>11 DEF Inv

LEMMA SlayStep == ASSUME Inv, NEW s \in Signals, Slay(s) PROVE Inv'
<1>a. /\ proc' \in ProcType
      /\ \A x \in Members : /\ proc'[x].state = proc[x].state
                             /\ proc[x].pending \subseteq proc'[x].pending
      /\ pc # "exec" /\ opts.sig # 0 /\ Alive("command") => opts.sig \in proc'["command"].pending
  BY PostIs DEF Inv, TypeOK, ProcType, Slay, Members, Alive
<1>1. TypeOK' BY <1>a, NumbersAreSmall DEF Inv, TypeOK, Slay, KilledBy, ProcType
<1>2. CommandFollows' BY <1>a DEF Inv, CommandFollows, Slay, Members
<1>3. HasCause' BY DEF Inv, HasCause, Slay
<1>4. EndIsSmall' BY DEF Inv, EndIsSmall, Slay
<1>5. PresentWasThere' BY <1>a DEF Inv, PresentWasThere, Slay, TypeOK
<1>6. NoCommandSurvives' BY DEF NoCommandSurvives, Slay, Ended
<1>7. GroupGetsTheSignal' BY <1>a DEF Inv, GroupGetsTheSignal, Slay, Alive, TypeOK
<1>8. NoFalseTimeout' BY NumbersAreSmall DEF NoFalseTimeout, Slay, KilledBy, KILL
<1>9. OwnCodeIsKept' BY DEF OwnCodeIsKept, Slay, Ended
<1>10. TheRightSignalIsSent' BY DEF Inv, TheRightSignalIsSent, Slay
<1>11. OrphanIsSignalled' BY <1>a DEF OrphanIsSignalled, Slay, Alive, Members
<1> QED BY <1>1, <1>2, <1>3, <1>4, <1>5, <1>6, <1>7, <1>8, <1>9, <1>10, <1>11 DEF Inv

LEMMA TickStep == ASSUME Inv, Tick PROVE Inv'
<1>1. TypeOK' BY DEF Inv, TypeOK, Tick
<1>2. CommandFollows' BY DEF Inv, CommandFollows, Tick
<1>3. HasCause' BY DEF Inv, HasCause, Tick, CommandFollows, EndIsSmall, KILL, Members
<1>4. EndIsSmall' BY DEF Inv, EndIsSmall, Tick
<1>5. PresentWasThere' BY DEF Inv, PresentWasThere, Tick, Alive
<1>6. NoCommandSurvives' BY DEF Inv, NoCommandSurvives, Tick, Ended
<1>7. GroupGetsTheSignal' BY DEF Inv, GroupGetsTheSignal, Tick, Alive
<1>8. NoFalseTimeout' BY DEF Inv, NoFalseTimeout, Tick, TypeOK, HasCause
<1>9. OwnCodeIsKept' BY DEF Inv, OwnCodeIsKept, Tick, Ended
<1>10. TheRightSignalIsSent' BY DEF Inv, TheRightSignalIsSent, Tick
<1>11. OrphanIsSignalled' BY DEF Inv, OrphanIsSignalled, Tick, Alive
<1> QED BY <1>1, <1>2, <1>3, <1>4, <1>5, <1>6, <1>7, <1>8, <1>9, <1>10, <1>11 DEF Inv

LEMMA EndsStep ==
    ASSUME Inv, NEW m \in Members, NEW e \in Endings, Alive(m), proc[m].state #
           "starting", Ends(m, e)
    PROVE  Inv'
<1>a. e \in [how : {"code", "signal"}, n : 0 .. 123]
  BY NumbersAreSmall DEF Endings, Exit, KilledBy, KILL
<1>b. /\ proc' \in ProcType
      /\ proc'[m].state = IF m = "command" /\ pc # "done" THEN "ended" ELSE "gone"
      /\ \A x \in Members \ {m} : proc'[x] = proc[x]
  BY DEF Inv, TypeOK, ProcType, Ends
<1>1. TypeOK' BY <1>a DEF Inv, TypeOK, Ends
<1>2. CommandFollows' BY DEF Inv, CommandFollows, Ends, Alive
<1>3. HasCause' BY DEF Inv, HasCause, Ends
<1>4. EndIsSmall' BY <1>a DEF Inv, EndIsSmall, Ends
<1>5. PresentWasThere' BY DEF Inv, PresentWasThere, Ends
<1>6. NoCommandSurvives' BY DEF Inv, NoCommandSurvives, Ends, Ended
<1>7. GroupGetsTheSignal' BY DEF Inv, GroupGetsTheSignal, Ends, Alive
<1>8. NoFalseTimeout' BY DEF Inv, NoFalseTimeout, Ends, Ended
<1>9. OwnCodeIsKept' BY DEF Inv, OwnCodeIsKept, Ends, Alive, NoCommandSurvives, Ended
<1>10. TheRightSignalIsSent' BY DEF Inv, TheRightSignalIsSent, Ends
<1>11. OrphanIsSignalled' BY DEF Inv, OrphanIsSignalled, Ends, Alive
<1> QED BY <1>1, <1>2, <1>3, <1>4, <1>5, <1>6, <1>7, <1>8, <1>9, <1>10, <1>11 DEF Inv

LEMMA ExecAloneStep == ASSUME Inv, ExecAlone PROVE Inv'
<1>1. TypeOK' BY DEF Inv, TypeOK, ExecAlone, Members
<1>2. CommandFollows' BY DEF Inv, CommandFollows, ExecAlone
<1>3. HasCause' BY DEF Inv, HasCause, ExecAlone
<1>4. EndIsSmall' BY DEF Inv, EndIsSmall, ExecAlone
<1>5. PresentWasThere' BY DEF Inv, PresentWasThere, ExecAlone, Alive
<1>6. NoCommandSurvives' BY DEF Inv, NoCommandSurvives, ExecAlone, Ended
<1>7. GroupGetsTheSignal' BY DEF Inv, GroupGetsTheSignal, ExecAlone, Alive
<1>8. NoFalseTimeout' BY DEF Inv, NoFalseTimeout, ExecAlone, Ended
<1>9. OwnCodeIsKept' BY DEF Inv, OwnCodeIsKept, ExecAlone, Ended
<1>10. TheRightSignalIsSent' BY DEF Inv, TheRightSignalIsSent, ExecAlone
<1>11. OrphanIsSignalled' BY DEF Inv, OrphanIsSignalled, ExecAlone, Alive
<1> QED BY <1>1, <1>2, <1>3, <1>4, <1>5, <1>6, <1>7, <1>8, <1>9, <1>10, <1>11 DEF Inv

LEMMA DescendStep == ASSUME Inv, Descend PROVE Inv'
<1>1. TypeOK' BY DEF Inv, TypeOK, Descend, Members
<1>2. CommandFollows' BY DEF Inv, CommandFollows, Descend
<1>3. HasCause' BY DEF Inv, HasCause, Descend
<1>4. EndIsSmall' BY DEF Inv, EndIsSmall, Descend
<1>5. PresentWasThere' BY DEF Inv, PresentWasThere, Descend, Alive
<1>6. NoCommandSurvives' BY DEF NoCommandSurvives, Descend, Ended
<1>7. GroupGetsTheSignal' BY DEF Inv, GroupGetsTheSignal, Descend, Alive, PresentWasThere
<1>8. NoFalseTimeout' BY DEF NoFalseTimeout, Descend, Ended
<1>9. OwnCodeIsKept' BY DEF OwnCodeIsKept, Descend, Ended
<1>10. TheRightSignalIsSent' BY DEF Inv, TheRightSignalIsSent, Descend
<1>11. OrphanIsSignalled' BY DEF Inv, OrphanIsSignalled, Descend, CommandFollows
<1> QED BY <1>1, <1>2, <1>3, <1>4, <1>5, <1>6, <1>7, <1>8, <1>9, <1>10, <1>11 DEF Inv

LEMMA StopStep == ASSUME Inv, NEW m \in Members, Stop(m) PROVE Inv'
<1>1. TypeOK' BY DEF Inv, TypeOK, Stop
<1>2. CommandFollows' BY DEF Inv, CommandFollows, Stop
<1>3. HasCause' BY DEF Inv, HasCause, Stop
<1>4. EndIsSmall' BY DEF Inv, EndIsSmall, Stop
<1>5. PresentWasThere' BY DEF Inv, PresentWasThere, Stop, Alive
<1>6. NoCommandSurvives' BY DEF NoCommandSurvives, Stop, Ended
<1>7. GroupGetsTheSignal' BY DEF Inv, GroupGetsTheSignal, Stop, Alive
<1>8. NoFalseTimeout' BY DEF NoFalseTimeout, Stop, Ended
<1>9. OwnCodeIsKept' BY DEF OwnCodeIsKept, Stop, Ended
<1>10. TheRightSignalIsSent' BY DEF Inv, TheRightSignalIsSent, Stop
<1>11. OrphanIsSignalled' BY DEF Inv, OrphanIsSignalled, Stop, CommandFollows
<1> QED BY <1>1, <1>2, <1>3, <1>4, <1>5, <1>6, <1>7, <1>8, <1>9, <1>10, <1>11 DEF Inv

LEMMA DiscardStep ==
    ASSUME Inv, NEW m \in deaf, NEW s \in proc[m].pending, Discard(m, s)
    PROVE  Inv'
<1>1. TypeOK' BY DEF Inv, TypeOK, Discard
<1>2. CommandFollows' BY DEF Inv, CommandFollows, Discard
<1>3. HasCause' BY DEF Inv, HasCause, Discard
<1>4. EndIsSmall' BY DEF Inv, EndIsSmall, Discard
<1>5. PresentWasThere' BY DEF Inv, PresentWasThere, Discard, Alive
<1>6. NoCommandSurvives' BY DEF Inv, NoCommandSurvives, Discard, Ended
<1>7. GroupGetsTheSignal' BY DEF Inv, GroupGetsTheSignal, Discard, Alive
<1>8. NoFalseTimeout' BY DEF Inv, NoFalseTimeout, Discard, Ended
<1>9. OwnCodeIsKept' BY DEF Inv, OwnCodeIsKept, Discard, Ended
<1>10. TheRightSignalIsSent' BY DEF Inv, TheRightSignalIsSent, Discard
<1>11. OrphanIsSignalled' BY DEF Inv, OrphanIsSignalled, Discard, Alive
<1> QED BY <1>1, <1>2, <1>3, <1>4, <1>5, <1>6, <1>7, <1>8, <1>9, <1>10, <1>11 DEF Inv

LEMMA DeliverStep == ASSUME Inv, NEW m \in Members, Deliver(m) PROVE Inv'
<1>1. PICK s \in proc[m].pending :
         /\ proc[m].state = "running" \/ (proc[m].state = "stopped" /\ s = KILL)
         /\ IF m \in deaf /\ s # KILL THEN Discard(m, s) ELSE Ends(m, KilledBy(s))
  BY DEF Deliver, Discard
<1>2. CASE m \in deaf /\ s # KILL
  BY <1>1, <1>2, DiscardStep
<1>3. CASE ~(m \in deaf /\ s # KILL)
  <2>1. s \in Signals \cup {KILL} BY DEF Inv, TypeOK
  <2>2. KilledBy(s) \in Endings BY <2>1 DEF Endings
  <2>3. Alive(m) /\ proc[m].state # "starting" BY <1>1 DEF Alive
  <2> QED BY <1>1, <1>3, <2>2, <2>3, EndsStep
<1> QED BY <1>2, <1>3

LEMMA EndsItselfStep == ASSUME Inv, NEW m \in Members, EndsItself(m) PROVE Inv'
<1>1. PICK e \in {Exit(c) : c \in Codes} \cup {KilledBy(s) : s \in Faults} : Ends(m, e)
  BY DEF EndsItself
<1>2. e \in Endings BY DEF Endings
<1>3. Alive(m) /\ proc[m].state # "starting" BY DEF EndsItself, Alive
<1> QED BY <1>1, <1>2, <1>3, EndsStep

LEMMA StutterStep == ASSUME Inv, UNCHANGED vars PROVE Inv'
BY DEF vars, Inv, TypeOK, CommandFollows, HasCause, EndIsSmall, PresentWasThere,
       NoCommandSurvives, GroupGetsTheSignal, NoFalseTimeout, OwnCodeIsKept,
       TheRightSignalIsSent, OrphanIsSignalled, Ended, Alive

LEMMA InvInit == Init => Inv
<1> SUFFICES ASSUME Init PROVE Inv OBVIOUS
<1>1. TypeOK BY DEF Init, TypeOK, NoEnd, None
<1>2. CommandFollows /\ HasCause /\ EndIsSmall /\ PresentWasThere
  BY DEF Init, CommandFollows, HasCause, EndIsSmall, PresentWasThere, NoEnd, Members
<1>3. /\ NoCommandSurvives /\ GroupGetsTheSignal /\ NoFalseTimeout /\ OwnCodeIsKept
      /\ TheRightSignalIsSent /\ OrphanIsSignalled
  BY DEF Init, NoCommandSurvives, GroupGetsTheSignal, NoFalseTimeout, OwnCodeIsKept,
         TheRightSignalIsSent, OrphanIsSignalled, Ended
<1> QED BY <1>1, <1>2, <1>3 DEF Inv

LEMMA InvNext == Inv /\ [Next]_vars => Inv'
<1> SUFFICES ASSUME Inv, [Next]_vars PROVE Inv' OBVIOUS
<1>1. CASE Own
  BY <1>1, ForkStep, ExecStep, ExecFailsStep, ReapStep, PollStep, SleepStep, SendStep, GroupStep,
     ContinueCommandStep, ContinueGroupStep DEF Own
<1>2. CASE World
  <2>1. CASE Tick \/ ExecAlone \/ Descend
    BY <2>1, TickStep, ExecAloneStep, DescendStep
  <2>2. CASE \E s \in Signals : Signal(s) \/ Slay(s)
    BY <2>2, SignalStep, SlayStep
  <2>3. CASE \E m \in Members : Deliver(m) \/ EndsItself(m) \/ Stop(m)
    BY <2>3, DeliverStep, EndsItselfStep, StopStep
  <2> QED BY <1>2, <2>1, <2>2, <2>3 DEF World
<1>3. CASE UNCHANGED vars BY <1>3, StutterStep
<1> QED BY <1>1, <1>2, <1>3 DEF Next

-----------------------------------------------------------------------------
(* The theorems *)

\* Every state timeout can be in satisfies the invariant.
THEOREM InvIsInvariant == Spec => []Inv
BY InvInit, InvNext, PTL DEF Spec

\* Every state is well typed.
THEOREM TypeCorrect == Spec => []TypeOK
BY InvIsInvariant, PTL DEF Inv

\* timeout does not end by itself before its command has.
THEOREM CommandIsReaped == Spec => []NoCommandSurvives
BY InvIsInvariant, PTL DEF Inv

\* Whoever was in the group when it was signalled ends, is about to, or ignores
\* it; and is not stopped once the group was told to go on, but for a stop that
\* overtakes the signal.  timeout may be killed between the one and the other.
THEOREM GroupIsSignalled == Spec => []GroupGetsTheSignal
BY InvIsInvariant, PTL DEF Inv

\* 124 and the codes of a signal are said only when the time was over or a signal came.
THEOREM TimeoutsAreReal == Spec => []NoFalseTimeout
BY InvIsInvariant, PTL DEF Inv

\* The exit code of a command that needed no signal, or with -p none but the first, is kept.
THEOREM CodesAreKept == Spec => []OwnCodeIsKept
BY InvIsInvariant, PTL DEF Inv

\* What came in is sent on, and -s stands for the deadline.
THEOREM SignalsAreTheRightOnes == Spec => []TheRightSignalIsSent
BY InvIsInvariant, PTL DEF Inv

\* A timeout that is killed leaves its command signalled.
THEOREM OrphansAreSignalled == Spec => []OrphanIsSignalled
BY InvIsInvariant, PTL DEF Inv
-----------------------------------------------------------------------------
(* The way down *)

Waits == {"poll", "wait"}

\* The steps timeout can still make, but for the rounds of its polling: two
\* waits, a look at the clock after each, what is sent after it, and the last wait.
StepsLeft ==
    IF pc = "done" THEN 0
    ELSE IF pc = "spawn" THEN 11
    ELSE IF pc = "exec" THEN 10
    ELSE IF call = "run" THEN CASE pc \in Waits -> 9 [] pc = "check" -> 8 [] pc = "group" -> 7
                               [] pc = "cont" -> 6 [] OTHER -> 5
    ELSE IF call = "grace" THEN IF pc \in Waits THEN 4 ELSE 3
    ELSE IF pc = "group" THEN 2 ELSE 1

\* Every step of timeout takes it on, but for the sleep of a wait that is not
\* over; nothing else takes it back; and a wait that is over stays so until
\* timeout has gone on from it.
GoesOn ==
    /\ Own => StepsLeft' < StepsLeft \/ (~Over /\ pc = "check" /\ pc' = "poll")
    /\ World => StepsLeft' <= StepsLeft
    /\ Over /\ pc \in {"poll", "check"} => Over' \/ StepsLeft' < StepsLeft

LEMMA StepsLeftType == StepsLeft \in 0 .. 11 /\ (StepsLeft = 0 <=> pc = "done")
BY DEF StepsLeft

\* Only the first wait and the grace period look at the clock.
PollIsTimed == pc \in {"poll", "check"} => call \in {"run", "grace"}

LEMMA OwnGoesOn ==
    ASSUME CommandFollows, PollIsTimed, Own
    PROVE  StepsLeft' < StepsLeft \/ (~Over /\ pc = "check" /\ pc' = "poll")
<1> USE DEF StepsLeft, Waits
<1>1. CASE Fork \/ Exec \/ ExecFails
  <2>1. CASE Fork BY <2>1 DEF Fork
  <2>2. CASE Exec
    <3>1. pc = "exec" /\ call' = "run" /\ pc' \in Waits BY <2>2 DEF Exec, WaitFor
    <3> QED BY <3>1
  <2>3. CASE ExecFails BY <2>3 DEF ExecFails
  <2> QED BY <1>1, <2>1, <2>2, <2>3
<1>2. CASE Reap \/ Poll
  <2>1. CASE Reap BY <2>1 DEF Reap
  <2>2. CASE Poll
    <3>1. /\ pc = "poll" /\ pc' = "check" /\ call' = call /\ call \in {"run", "grace"}
      BY <2>2 DEF Poll, PollIsTimed
    <3> QED BY <3>1
  <2> QED BY <1>2, <2>1, <2>2
<1>3. CASE Sleep BY <1>3 DEF Sleep
<1>4. CASE Send
  <2>1. pc = "check" /\ pc' = "group" /\ call' = (IF call = "run" THEN "run" ELSE "killed")
    BY <1>4 DEF Send
  <2>3. call \in {"run", "grace"} BY <2>1 DEF PollIsTimed
  <2>4. CASE call = "run" BY <2>1, <2>4
  <2>5. CASE call = "grace" BY <2>1, <2>5
  <2> QED BY <2>3, <2>4, <2>5
<1>5. CASE Group
  <2>1. pc = "group" /\ call \in {"run", "killed"} BY <1>5 DEF Group, CommandFollows
  <2>2. CASE NextWait
    <3>1. pc' \in Waits /\ call' \in (IF call = "run" THEN {"grace", "end"} ELSE {"killed"})
      BY <2>1, <2>2 DEF NextWait, WaitFor
    <3> QED BY <2>1, <3>1
  <2>3. CASE ~NextWait
    <3>1. pc' = "cont" /\ call' = call /\ call = "run"
      BY <1>5, <2>1, <2>3 DEF Group, Sending
    <3> QED BY <2>1, <3>1
  <2> QED BY <2>2, <2>3
<1>6. CASE ContinueCommand
  <2>1. pc = "cont" /\ pc' = "contgroup" /\ call = "run" /\ call' = "run"
    BY <1>6 DEF ContinueCommand, CommandFollows
  <2> QED BY <2>1
<1>7. CASE ContinueGroup
  <2>1. pc = "contgroup" /\ call = "run" BY <1>7 DEF ContinueGroup, CommandFollows
  <2>2. pc' \in Waits /\ call' \in {"grace", "end"}
    BY <1>7, <2>1 DEF ContinueGroup, NextWait, WaitFor
  <2> QED BY <2>1, <2>2
<1> QED BY <1>1, <1>2, <1>3, <1>4, <1>5, <1>6, <1>7 DEF Own

\* The world changes where timeout is only by killing it, and never takes back
\* a signal that has come or time that has passed.
LEMMA WorldStands ==
    ASSUME World
    PROVE  /\ pc' = "done" \/ (pc' = pc /\ call' = call)
           /\ Over => Over'
<1> USE DEF Over
<1>1. CASE Tick \/ ExecAlone \/ Descend BY <1>1 DEF Tick, ExecAlone, Descend
<1>2. ASSUME NEW s \in Signals, Signal(s) \/ Slay(s)
      PROVE  (pc' = "done" \/ (pc' = pc /\ call' = call)) /\ (Over => Over')
  <2>1. CASE Signal(s)
    <3>1. received' = received \/ received' # 0 BY <2>1 DEF Signal, Handled
    <3> QED BY <2>1, <3>1 DEF Signal
  <2>2. CASE Slay(s) BY <2>2 DEF Slay
  <2> QED BY <1>2, <2>1, <2>2
<1>3. ASSUME NEW m \in Members, Deliver(m) \/ EndsItself(m) \/ Stop(m)
      PROVE  (pc' = "done" \/ (pc' = pc /\ call' = call)) /\ (Over => Over')
  BY <1>3 DEF Deliver, EndsItself, Stop, Ends
<1> QED BY <1>1, <1>2, <1>3 DEF World

LEMMA NextPolls == PollIsTimed /\ [Next]_vars => PollIsTimed'
<1> SUFFICES ASSUME PollIsTimed, [Next]_vars PROVE PollIsTimed' OBVIOUS
<1> USE DEF PollIsTimed
<1>1. CASE Fork \/ Exec \/ ExecFails \/ Reap
  BY <1>1 DEF Fork, Exec, ExecFails, Reap, WaitFor
<1>2. CASE Poll \/ Sleep \/ Send BY <1>2 DEF Poll, Sleep, Send
<1>3. CASE Group \/ ContinueCommand \/ ContinueGroup
  BY <1>3 DEF Group, ContinueCommand, ContinueGroup, NextWait, WaitFor
<1>4. CASE World BY <1>4, WorldStands
<1>5. CASE UNCHANGED vars BY <1>5 DEF vars
<1> QED BY <1>1, <1>2, <1>3, <1>4, <1>5 DEF Next, Own

LEMMA NextGoesOn == CommandFollows /\ PollIsTimed /\ [Next]_vars => [GoesOn]_vars
<1> SUFFICES ASSUME CommandFollows, PollIsTimed, Next PROVE GoesOn OBVIOUS
<1>1. Own => StepsLeft' < StepsLeft \/ (~Over /\ pc = "check" /\ pc' = "poll")
  BY OwnGoesOn
<1>2. World => StepsLeft' <= StepsLeft
  <2> SUFFICES ASSUME World PROVE StepsLeft' <= StepsLeft OBVIOUS
  <2>1. CASE pc' = "done" BY <2>1 DEF StepsLeft
  <2>2. CASE pc' = pc /\ call' = call BY <2>2 DEF StepsLeft
  <2> QED BY <2>1, <2>2, WorldStands
<1>3. Over /\ pc \in {"poll", "check"} => Over' \/ StepsLeft' < StepsLeft
  <2>1. CASE World BY <2>1, WorldStands
  <2>2. CASE Own BY <2>2, <1>1
  <2> QED BY <2>1, <2>2 DEF Next
<1> QED BY <1>1, <1>2, <1>3 DEF GoesOn

\* timeout comes to its end in at most eleven steps of its own, whatever the
\* command, its group and the world do meanwhile, but for the rounds of a wait
\* whose time is not over and that no signal has ended; and once it is over, no
\* later signal puts timeout back to sleep (wait_or_timeout, send_signal).
THEOREM TimeoutGoesOn == Spec => [][GoesOn]_vars
<1>1. Init => PollIsTimed BY DEF Init, PollIsTimed
<1>2. Inv => CommandFollows BY DEF Inv
<1> QED BY <1>1, <1>2, InvIsInvariant, NextPolls, NextGoesOn, PTL DEF Spec
=============================================================================
