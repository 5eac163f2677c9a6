------------------------------ MODULE Timeout -------------------------------
(***************************************************************************)
(* `timeout`: one command under a deadline.  timeout polls its child and   *)
(* two things its signal handler and the clock write behind its back;      *)
(* sends a signal to the command and to its group when the deadline is     *)
(* over or a signal came in; with -k waits again and sends KILL; and turns *)
(* what happened into one exit status.  The command, a process it left in  *)
(* the group, the clock and whoever signals timeout are external and may   *)
(* act between any two of its steps.  Signals are their numbers.           *)
(***************************************************************************)
EXTENDS Naturals

CONSTANTS
    Signals,     \* what -s may name (0: none) and the world may send
    Codes,       \* what the command may exit with
    Faults       \* signals the command may die of by itself

KILL == 9
ALRM == 14
STOP == 19
Listed == {1, 2, 3, 10, 12, 13, 14, 15}  \* install_signal_handlers, PIPE not ignored

None == 200      \* no signal has this number

\* Signals that end a process by default and that the nix crate knows.
Ending == (1 .. 16) \cup (24 .. 27) \cup (29 .. 31)

ASSUME TimeoutAssumption ==
    /\ Signals \subseteq {0} \cup Ending /\ Codes \subseteq 0 .. 123 /\ Faults \subseteq 1 .. 64

Members == {"command", "descendant"}     \* of the process group

VARIABLES
    opts,        \* the command line; a zero duration has no deadline
    pc, call,    \* where timeout is, and what it waits for
    timer,       \* the clock of this wait: "off", "running" or "passed"
    received,    \* RECEIVED_SIGNAL; SIGNALED is that it is not 0
    first,       \* the signal sent when the first wait ended
    external,    \* is_external_signal
    status,      \* timeout's own end
    proc,        \* external: each member's state and undelivered signals
    deaf,        \* external: the members that ignore what can be ignored
    end,         \* external: how the command ended
    late,        \* history: the deadline has passed
    came,        \* history: signals that came while timeout waited for the deadline
    slain,       \* history: "no", or how far the command was when timeout was killed
    present,     \* history: the members there when the group was signalled
    resumed      \* history: the group has been told to go on

vars == <<opts, pc, call, timer, received, first, external, status, proc, deaf, end, late,
          came, slain, present, resumed>>

Exit(n) == [how |-> "code", n |-> n]
KilledBy(s) == [how |-> "signal", n |-> s]
NoEnd == [how |-> "none", n |-> 0]

Handled == (Listed \cup {opts.sig}) \ {0, KILL}
Alive(m) == proc[m].state \in {"starting", "running", "stopped"}

Post(ps, m, s) ==
    IF s # 0 /\ ps[m].state \in {"starting", "running", "stopped"}
    THEN [ps EXCEPT ![m].pending = @ \cup {s}] ELSE ps
PostAll(ps, s) == Post(Post(ps, "command", s), "descendant", s)
\* CONT for the members ms.
Continue(ps, ms) ==
    [m \in Members |-> IF m \in ms /\ ps[m].state = "stopped"
                       THEN [ps[m] EXCEPT !.state = "running"] ELSE ps[m]]

Init ==
    /\ opts \in [duration : BOOLEAN, after : {"none", "zero", "some"}, sig : Signals,
                 foreground : BOOLEAN, preserve : BOOLEAN]
    /\ pc = "spawn" /\ call = "run" /\ timer = "off"
    /\ received = 0 /\ first = None /\ external = FALSE /\ status = NoEnd
    /\ proc = [m \in Members |-> [state |-> "none", pending |-> {}]]
    /\ deaf \in SUBSET Members
    /\ end = NoEnd
    /\ late = FALSE /\ came = {} /\ slain = "no" /\ present = {} /\ resumed = FALSE

-----------------------------------------------------------------------------
(* timeout *)

\* The handlers are there; the child is forked.
Fork ==
    /\ pc = "spawn" /\ pc' = "exec"
    /\ proc' = [proc EXCEPT !["command"].state = "starting"]
    /\ UNCHANGED <<opts, call, timer, received, first, external, status, deaf, end, late, came,
                   slain, present, resumed>>

\* wait_or_timeout for a duration that is zero or not.
WaitFor(some, c) ==
    /\ call' = c
    /\ pc' = IF some THEN "poll" ELSE "wait"
    /\ timer' = IF some THEN "running" ELSE "off"

\* The child has asked for the death signal and is the command now.
Exec ==
    /\ pc = "exec"
    /\ proc' = [proc EXCEPT !["command"].state = "running"]
    /\ WaitFor(opts.duration, "run")
    /\ UNCHANGED <<opts, received, first, external, status, deaf, end, late, came, slain, present,
                   resumed>>

\* No such command (127), or none that can be run (126).
ExecFails ==
    /\ pc = "exec" /\ pc' = "done"
    /\ proc' = [proc EXCEPT !["command"] = [state |-> "gone", pending |-> {}]]
    /\ status' \in {Exit(126), Exit(127)}
    /\ UNCHANGED <<opts, call, timer, received, first, external, deaf, end, late, came, slain,
                   present, resumed>>

\* Mutant: what the handler has seen is reported before what the command said.
ResultSignalFirst ==
    CASE call = "killed" -> Exit(128 + KILL)
      [] received # 0 /\ call = "run" -> Exit(124)
      [] call = "run" -> IF end.how = "code" THEN end
                         ELSE IF end.n \in Handled THEN Exit(end.n) ELSE KilledBy(end.n)
      [] call = "grace" -> IF opts.preserve THEN Exit(end.n) ELSE Exit(124)
      [] external -> Exit(128 + first)
      [] ~external /\ received = 0 /\ opts.preserve ->
            IF end.how = "code" THEN end ELSE Exit(128 + end.n)
      [] OTHER -> Exit(124)

\* The status timeout ends with once it has the command's.  In the first wait
\* preserve_signal_info kills timeout itself with the command's signal, which
\* a handler survives; in the grace period the signal's number is the code.
Result ==
    CASE call = "run" -> IF end.how = "code" THEN end
                         ELSE IF end.n \in Handled THEN Exit(end.n) ELSE KilledBy(end.n)
      [] call = "grace" -> IF opts.preserve THEN Exit(end.n) ELSE Exit(124)
      [] call = "killed" -> Exit(128 + KILL)
      [] call = "end" /\ external -> Exit(128 + first)
      [] call = "end" /\ ~external /\ received = 0 /\ opts.preserve ->
            IF end.how = "code" THEN end ELSE Exit(128 + end.n)
      [] OTHER -> Exit(124)

\* Mutant: the loop of the grace period does not look at the command.
ReapUnlessGrace ==
    /\ pc \in {"poll", "wait"} /\ proc["command"].state = "ended"
    /\ ~(pc = "poll" /\ call = "grace")
    /\ pc' = "done" /\ status' = Result
    /\ proc' = [proc EXCEPT !["command"].state = "gone"]
    /\ UNCHANGED <<opts, call, timer, received, first, external, deaf, end, late, came, slain,
                   present, resumed>>

\* wait, or a try_wait that finds the command's end.
Reap ==
    /\ pc \in {"poll", "wait"} /\ proc["command"].state = "ended"
    /\ pc' = "done" /\ status' = Result
    /\ proc' = [proc EXCEPT !["command"].state = "gone"]
    /\ UNCHANGED <<opts, call, timer, received, first, external, deaf, end, late, came, slain,
                   present, resumed>>

Poll ==
    /\ pc = "poll" /\ proc["command"].state # "ended"
    /\ pc' = "check"
    /\ UNCHANGED <<opts, call, timer, received, first, external, status, proc, deaf, end, late,
                   came, slain, present, resumed>>

\* Mutant: a deadline is over once it is set.
OverAtOnce == timer # "off" \/ (call = "run" /\ received # 0)

\* The time is over, or (in the first wait alone) a signal came.
Over == timer = "passed" \/ (call = "run" /\ received # 0)

Sleep ==
    /\ pc = "check" /\ ~Over /\ pc' = "poll"
    /\ UNCHANGED <<opts, call, timer, received, first, external, status, proc, deaf, end, late,
                   came, slain, present, resumed>>

\* What came in, but for ALRM, which stands for the deadline.
ToSend == IF received # 0 /\ received # ALRM THEN received ELSE opts.sig

\* Mutant: the grace period is over, and nobody waits for the command.
SendAndLeave ==
    /\ pc = "check" /\ Over
    /\ IF call = "run"
       THEN /\ first' = ToSend /\ external' = (received # 0 /\ received # ALRM)
            /\ pc' = "group" /\ UNCHANGED <<call, status>>
       ELSE call' = "killed" /\ pc' = "done" /\ status' = Exit(137) /\ UNCHANGED <<first, external>>
    /\ proc' = Post(proc, "command", IF call = "run" THEN ToSend ELSE KILL)
    /\ timer' = "off"
    /\ UNCHANGED <<opts, received, deaf, end, late, came, slain, present, resumed>>

\* send_signal: the command itself first.
Send ==
    /\ pc = "check" /\ Over /\ pc' = "group"
    /\ IF call = "run"
       THEN first' = ToSend /\ external' = (received # 0 /\ received # ALRM) /\ UNCHANGED call
       ELSE call' = "killed" /\ UNCHANGED <<first, external>>
    /\ proc' = Post(proc, "command", IF call = "run" THEN ToSend ELSE KILL)
    /\ timer' = "off"
    /\ UNCHANGED <<opts, received, status, deaf, end, late, came, slain, present, resumed>>

Sending == IF call = "killed" THEN KILL ELSE first

\* Mutant: a grace period follows without -k too.
NextWaitAlwaysGrace ==
    IF call = "run" THEN WaitFor(opts.after = "some", "grace") ELSE WaitFor(FALSE, call)

\* Once a signal is sent: the grace period of -k, or the last wait.
NextWait ==
    IF call = "run" /\ opts.after # "none" THEN WaitFor(opts.after = "some", "grace")
    ELSE WaitFor(FALSE, IF call = "run" THEN "end" ELSE call)

\* Mutant: nobody is told to go on.
GroupNoContinue ==
    /\ pc = "group" /\ NextWait
    /\ IF opts.foreground \/ Sending \in {0, KILL} THEN UNCHANGED <<proc, present>>
       ELSE proc' = PostAll(proc, Sending) /\ present' = {m \in Members : Alive(m)}
    /\ UNCHANGED <<opts, received, first, external, status, deaf, end, late, came, slain, resumed>>

\* Then the group, but for 0, in the foreground, and KILL: that cannot be
\* ignored meanwhile, so send_signal_group gives up before it sends.
Group ==
    /\ pc = "group"
    /\ IF opts.foreground \/ Sending \in {0, KILL}
       THEN NextWait /\ UNCHANGED <<proc, present>>
       ELSE /\ proc' = PostAll(proc, Sending) /\ present' = {m \in Members : Alive(m)}
            /\ pc' = "cont" /\ UNCHANGED <<call, timer>>
    /\ UNCHANGED <<opts, received, first, external, status, deaf, end, late, came, slain, resumed>>

\* CONT follows, to the command ...
ContinueCommand ==
    /\ pc = "cont" /\ pc' = "contgroup"
    /\ proc' = Continue(proc, {"command"})
    /\ UNCHANGED <<opts, call, timer, received, first, external, status, deaf, end, late, came,
                   slain, present, resumed>>

\* Mutant: CONT goes to the command alone.
ContinueNoGroup ==
    /\ pc = "contgroup" /\ NextWait
    /\ resumed' = TRUE
    /\ UNCHANGED <<opts, received, first, external, status, proc, deaf, end, late, came, slain,
                   present>>

\* ... and to the group.
ContinueGroup ==
    /\ pc = "contgroup" /\ NextWait
    /\ proc' = Continue(proc, Members) /\ resumed' = TRUE
    /\ UNCHANGED <<opts, received, first, external, status, deaf, end, late, came, slain, present>>

-----------------------------------------------------------------------------
(* Whoever signals timeout, the clock, the command and its descendant *)

\* handle_signal; the signal that is going to the group is ignored for a moment.
Signal(s) ==
    /\ pc # "done" /\ s \in Handled
    /\ \/ received' = s
       \/ /\ pc \in {"group", "cont"} /\ ~opts.foreground /\ s = Sending
          /\ UNCHANGED received
    /\ came' = IF first = None THEN came \cup {s} ELSE came
    /\ UNCHANGED <<opts, pc, call, timer, first, external, status, proc, deaf, end, late, slain,
                   present, resumed>>

\* Mutant: the child has asked for no death signal.
SlayQuietly(s) ==
    /\ pc # "done" /\ s \notin Handled \cup {0}
    /\ pc' = "done" /\ status' = KilledBy(s)
    /\ slain' = IF pc \in {"spawn", "exec"} THEN "early" ELSE "late"
    /\ UNCHANGED <<opts, call, timer, received, first, external, proc, deaf, end, late, came,
                   present, resumed>>

\* One without a handler: timeout is gone, and the kernel sends -s to the child
\* that has asked for it.
Slay(s) ==
    /\ pc # "done" /\ s \notin Handled \cup {0}
    /\ pc' = "done" /\ status' = KilledBy(s)
    /\ slain' = IF pc \in {"spawn", "exec"} THEN "early" ELSE "late"
    /\ \/ proc' = Post(proc, "command", opts.sig)
       \/ pc = "exec" /\ proc' = proc
    /\ UNCHANGED <<opts, call, timer, received, first, external, deaf, end, late, came, present,
                   resumed>>

Tick ==
    /\ timer = "running" /\ timer' = "passed"
    /\ late' = (late \/ call = "run")
    /\ UNCHANGED <<opts, pc, call, received, first, external, status, proc, deaf, end, came, slain,
                   present, resumed>>

\* m is over; init reaps the descendant, and the command once timeout is gone.
Ends(m, e) ==
    /\ proc' = [proc EXCEPT ![m] =
                    [state |-> IF m = "command" /\ pc # "done" THEN "ended" ELSE "gone",
                     pending |-> {}]]
    /\ end' = IF m = "command" THEN e ELSE end
    /\ UNCHANGED <<opts, pc, call, timer, received, first, external, status, deaf, late, came,
                   slain, present, resumed>>

\* A stopped process takes KILL alone.
Deliver(m) ==
    \E s \in proc[m].pending :
       /\ proc[m].state = "running" \/ (proc[m].state = "stopped" /\ s = KILL)
       /\ IF m \in deaf /\ s # KILL
          THEN /\ proc' = [proc EXCEPT ![m].pending = @ \ {s}]
               /\ UNCHANGED <<opts, pc, call, timer, received, first, external, status, deaf, end,
                              late, came, slain, present, resumed>>
          ELSE Ends(m, KilledBy(s))

EndsItself(m) ==
    /\ proc[m].state = "running"
    /\ \E e \in {Exit(c) : c \in Codes} \cup {KilledBy(s) : s \in Faults} : Ends(m, e)

\* The child of a timeout that is gone executes the command all the same.
ExecAlone ==
    /\ pc = "done" /\ proc["command"].state = "starting"
    /\ proc' = [proc EXCEPT !["command"].state = "running"]
    /\ UNCHANGED <<opts, pc, call, timer, received, first, external, status, deaf, end, late, came,
                   slain, present, resumed>>

\* The command forks.  (Neither this nor Stop is followed past timeout's end.)
Descend ==
    /\ pc # "done" /\ proc["command"].state = "running" /\ proc["descendant"].state = "none"
    /\ proc' = [proc EXCEPT !["descendant"].state = "running"]
    /\ UNCHANGED <<opts, pc, call, timer, received, first, external, status, deaf, end, late, came,
                   slain, present, resumed>>

\* STOP, which overtakes a waiting signal of a higher number only.
Stop(m) ==
    /\ pc # "done" /\ proc[m].state = "running" /\ \A s \in proc[m].pending : s > STOP
    /\ proc' = [proc EXCEPT ![m].state = "stopped"]
    /\ UNCHANGED <<opts, pc, call, timer, received, first, external, status, deaf, end, late, came,
                   slain, present, resumed>>

Own ==
    \/ Fork \/ Exec \/ ExecFails \/ Reap \/ Poll \/ Sleep
    \/ Send \/ Group \/ ContinueCommand \/ ContinueGroup

World ==
    \/ Tick \/ ExecAlone \/ Descend
    \/ \E s \in Signals : Signal(s) \/ Slay(s)
    \/ \E m \in Members : Deliver(m) \/ EndsItself(m) \/ Stop(m)

Next == Own \/ World

Spec == Init /\ [][Next]_vars

\* timeout is scheduled, time passes, and the kernel delivers.
FairSpec ==
    /\ Spec /\ WF_vars(Own) /\ WF_vars(Tick)
    /\ \A m \in Members : WF_vars(Deliver(m))

-----------------------------------------------------------------------------
(* Properties *)

Ended == pc = "done" /\ slain = "no"

TypeOK ==
    /\ opts \in [duration : BOOLEAN, after : {"none", "zero", "some"}, sig : Signals,
                 foreground : BOOLEAN, preserve : BOOLEAN]
    /\ pc \in {"spawn", "exec", "poll", "check", "wait", "group", "cont", "contgroup", "done"}
    /\ call \in {"run", "grace", "end", "killed"}
    /\ timer \in {"off", "running", "passed"}
    /\ received \in Signals \cup {0} /\ first \in Signals \cup {None} /\ external \in BOOLEAN
    /\ status \in [how : {"none", "code", "signal"}, n : Nat]
    /\ end \in [how : {"none", "code", "signal"}, n : Nat]
    /\ proc \in [Members -> [state : {"none", "starting", "running", "stopped", "ended", "gone"},
                             pending : SUBSET (Signals \cup {KILL})]]
    /\ deaf \subseteq Members /\ late \in BOOLEAN /\ came \subseteq Signals
    /\ slain \in {"no", "early", "late"} /\ present \subseteq Members
    /\ resumed \in BOOLEAN
    /\ call = "grace" => opts.after # "none"
    /\ timer # "off" /\ pc # "done" => pc \in {"poll", "check"}
    /\ pc \in {"group", "cont", "contgroup"} \/ call # "run" => first # None

\* timeout does not end by itself before its command has ended and been waited
\* for, whichever wait, deadline and signal came together.
NoCommandSurvives == Ended => proc["command"].state = "gone"

\* A process that was in the group when it was signalled has ended, ignores the
\* signal, or has it waiting; and once the group was told to go on as well, it
\* is not held up by a stop, unless STOP overtakes that signal.  A timeout that
\* is killed between the two may leave it stopped (send_signal: the group, CONT
\* to the command, CONT to the group).
GroupGetsTheSignal ==
    \A m \in present :
        \/ m \in deaf \/ ~Alive(m)
        \/ first \in proc[m].pending /\ (resumed => proc[m].state = "running" \/ first > STOP)

\* 124, and the death of a signal's number plus 128, are never said of a
\* command whose time was not over and that no signal was meant for.
NoFalseTimeout ==
    Ended /\ status.n \in {124} \cup {128 + s : s \in Signals \cup {KILL}} => late \/ came # {}

\* The exit code of a command that was not signalled is timeout's, whatever
\* deadline or signal comes in while it ends; with --preserve-status also that
\* of one that was signalled at the deadline, and for which neither KILL nor a
\* signal from outside was needed.
OwnCodeIsKept ==
    Ended /\ end.how = "code" /\ \/ first = None
                                 \/ opts.preserve /\ call # "killed" /\ received = 0
    => status = end

\* What is sent when the first wait ends is what came in, if it was not ALRM,
\* and else what -s names.
TheRightSignalIsSent ==
    first # None => \/ first \in came \ {ALRM}
                    \/ first = opts.sig /\ (late \/ ALRM \in came)

\* A timeout that is killed takes its command along, or has at least sent it
\* -s, unless it was killed before the command ran (set_pdeathsig).
OrphanIsSignalled ==
    slain = "late" /\ Alive("command") /\ "command" \notin deaf /\ opts.sig # 0
    => opts.sig \in proc["command"].pending

\* A command with a deadline comes to its end, and timeout with it: if KILL is
\* to follow, whatever the command does; and without KILL, if the command does
\* not ignore the signal, even when it is stopped - unless what is sent is a
\* signal that a later STOP overtakes.
EndsInTime ==
    /\ [](opts.duration /\ opts.after = "some" => <>(pc = "done"))
    /\ [](opts.duration /\ opts.sig # 0 /\ "command" \notin deaf /\ ~opts.foreground
          => <>(pc = "done" \/ (first # None /\ first > STOP)))

\* timeout does not miss its command's end, in whichever wait it is.
EndIsNoticed == (proc["command"].state = "ended") ~> (pc = "done")
=============================================================================
