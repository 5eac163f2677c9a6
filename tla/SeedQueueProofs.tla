-------------------------- MODULE SeedQueueProofs ---------------------------
(***************************************************************************)
(* SeedQueue for any seeds and any releases.                               *)
(***************************************************************************)
EXTENDS SeedQueue, TLAPS

-----------------------------------------------------------------------------
(* The invariant *)

\* What `up` and `reported` say of the staging in progress.
Progress ==
    /\ up \notin {"stage", "fill"} => staging = {}
    /\ up # "off" => reported = Nothing

\* An upgrade that met no sweep but its own is alone while it stages, and no
\* two sweeps run.
Lone ==
    /\ up \in {"stage", "fill", "chmod", "staged"} => \A d \in Drains : reg[d] = "off"
    /\ up = "apply" => reg["boot"] = "off"
    /\ reg["boot"] = "off" \/ reg["live"] = "off"

\* A file holds what is owed, if it is whole.
QueueIsOwed ==
    /\ up = "fill" => queue[file] = Torn
    /\ \A s \in Seeds : queue[s] \in Releases => owed[s] = queue[s]

\* The file a sweep has read is the one that is there, and goes only when it
\* has been applied.
HeldIsQueued ==
    \A d \in Drains : reg[d] \in {"apply", "unlink"} =>
        /\ queue[held[d].seed] = held[d].from
        /\ reg[d] = "unlink" => registry[held[d].seed] = held[d].from

Survive == \A s \in Seeds : owed[s] # Nothing => Waits(s)

\* What the installed release names is staged, one by one, and no file of it that
\* an earlier upgrade has torn is left so.
AllStaged ==
    up # "off" \/ reported # Nothing =>
        \A s \in Asks[installed] : s \in staging \/ (owed[s] = installed /\ queue[s] # Torn)

\* What it names is applied, one by one, until a file fails.
Sweeping ==
    up = "apply" /\ reg["live"] \in {"next", "apply", "unlink"} /\ ~failed["live"] =>
        \A s \in Asks[installed] : s \in list["live"] \/ registry[s] = installed

Told ==
    /\ reported = "applied" => \A s \in Asks[installed] : registry[s] = installed
    /\ reported = "none" => Asks[installed] = {}

Quiet == Lone /\ QueueIsOwed /\ HeldIsQueued /\ Survive /\ AllStaged /\ Sweeping /\ Told

\* The drain script is executable once it is there, while none was cut short.
Placed ==
    /\ script = "plain" => up = "chmod" \/ cut
    /\ up \in {"staged", "apply"} \/ reported = "queued" => script # "none"

Inv == TypeOK /\ Progress /\ Placed /\ (~raced => Quiet)

-----------------------------------------------------------------------------
(* Types *)

\* The steps of an upgrade leave the sweeps as they are.
SweepType ==
    /\ reg \in [Drains -> {"off", "list", "next", "apply", "unlink"}]
    /\ list \in [Drains -> SUBSET Seeds]
    /\ held \in [Drains -> [seed : Seeds \cup {Nothing}, from : Releases \cup {Nothing}]]
    /\ \A d \in Drains :
          IF reg[d] \in {"apply", "unlink"}
          THEN held[d].seed \in list[d] /\ held[d].from \in Releases
          ELSE held[d] = NothingHeld
    /\ failed \in [Drains -> BOOLEAN]

UpType ==
    /\ up \in {"off", "stage", "fill", "chmod", "staged", "apply"}
    /\ onReboot \in BOOLEAN /\ staging \subseteq Seeds
    /\ IF up = "fill" THEN file \in staging ELSE file = Nothing

LEMMA TypeParts == TypeOK <=>
    /\ UpType /\ SweepType
    /\ installed \in Releases
    /\ queue \in [Seeds -> Releases \cup {Absent, Torn}]
    /\ script \in {"none", "plain", "exec"}
    /\ registry \in [Seeds -> Releases \cup {0}]
    /\ reported \in {Nothing, "queued", "none", "applied"}
    /\ owed \in [Seeds -> Releases \cup {Nothing}]
    /\ raced \in BOOLEAN /\ cut \in BOOLEAN
    /\ runs \in 0 .. MaxRuns /\ boots \in 0 .. MaxBoots
BY DEF TypeOK, UpType, SweepType

LEMMA InitType == Init => TypeOK /\ Progress
<1> SUFFICES ASSUME Init PROVE TypeOK /\ Progress
  OBVIOUS
<1>1. NothingHeld \in [seed : Seeds \cup {Nothing}, from : Releases \cup {Nothing}]
  BY DEF NothingHeld
<1>2. SweepType
  BY <1>1 DEF Init, SweepType
<1>3. 1 \in Releases
  BY SeedAssumption DEF Releases
<1>4. UpType /\ Progress
  BY DEF Init, UpType, Progress
<1>5. runs \in 0 .. MaxRuns /\ boots \in 0 .. MaxBoots
  BY SeedAssumption DEF Init
<1>6. /\ queue \in [Seeds -> Releases \cup {Absent, Torn}]
      /\ registry \in [Seeds -> Releases \cup {0}]
      /\ owed \in [Seeds -> Releases \cup {Nothing}]
  BY DEF Init
<1>7. /\ installed \in Releases /\ raced \in BOOLEAN /\ cut \in BOOLEAN
      /\ script \in {"none", "plain", "exec"}
      /\ reported \in {Nothing, "queued", "none", "applied"}
  BY <1>3 DEF Init
<1> QED
  BY <1>2, <1>4, <1>5, <1>6, <1>7, TypeParts

LEMMA NextType == TypeOK /\ Progress /\ [Next]_vars => TypeOK' /\ Progress'
<1> SUFFICES ASSUME TypeOK, Progress, [Next]_vars PROVE TypeOK' /\ Progress'
  OBVIOUS
<1> USE SeedAssumption
<1>t. TypeOK' <=>
    /\ UpType' /\ SweepType'
    /\ installed' \in Releases
    /\ queue' \in [Seeds -> Releases \cup {Absent, Torn}]
    /\ script' \in {"none", "plain", "exec"}
    /\ registry' \in [Seeds -> Releases \cup {0}]
    /\ reported' \in {Nothing, "queued", "none", "applied"}
    /\ owed' \in [Seeds -> Releases \cup {Nothing}]
    /\ raced' \in BOOLEAN /\ cut' \in BOOLEAN
    /\ runs' \in 0 .. MaxRuns /\ boots' \in 0 .. MaxBoots
  BY DEF TypeOK, UpType, SweepType
<1>0. CASE UNCHANGED vars
  BY <1>0 DEF TypeOK, Progress, vars
<1>s. ASSUME UNCHANGED sweep PROVE SweepType'
  BY <1>s, TypeParts DEF SweepType, sweep
<1>u. ASSUME UNCHANGED upgrade PROVE UpType'
  BY <1>u, TypeParts DEF UpType, upgrade
<1>1. ASSUME NEW r \in Releases, NEW later \in BOOLEAN, Packages(r, later)
      PROVE TypeOK' /\ Progress'
  <2>1. SweepType'
    BY <1>1, <1>s DEF Packages
  <2> QED
    BY <1>1, <1>t, <2>1, TypeParts DEF Packages, UpType, Progress, files, sweep, history
<1>2. ASSUME NEW s \in Seeds, Truncate(s) PROVE TypeOK' /\ Progress'
  <2>1. SweepType'
    BY <1>2, <1>s DEF Truncate
  <2> QED
    BY <1>2, <1>t, <2>1, TypeParts DEF Truncate, UpType, Progress, files, sweep, history
<1>3. CASE Fill
  <2>1. SweepType'
    BY <1>3, <1>s DEF Fill
  <2> QED
    BY <1>3, <1>t, <2>1, TypeParts DEF Fill, UpType, Progress, files, sweep, history
<1>4. CASE PlaceScript
  <2>1. SweepType'
    BY <1>4, <1>s DEF PlaceScript
  <2> QED
    BY <1>4, <1>t, <2>1, TypeParts DEF PlaceScript, UpType, Progress, files, sweep, history
<1>5. CASE Chmod
  <2>1. SweepType'
    BY <1>5, <1>s DEF Chmod
  <2> QED
    BY <1>5, <1>t, <2>1, TypeParts DEF Chmod, UpType, Progress, files, sweep, history
<1>6. CASE StageFails
  <2>1. SweepType'
    BY <1>6, <1>s DEF StageFails
  <2> QED
    BY <1>6, <1>t, <2>1, TypeParts DEF StageFails, UpExits, UpType, Progress, files, sweep, history
<1>7. CASE LeaveQueued
  <2>1. SweepType'
    BY <1>7, <1>s DEF LeaveQueued
  <2> QED
    BY <1>7, <1>t, <2>1, TypeParts DEF LeaveQueued, UpExits, UpType, Progress, files, sweep, history
<1>8. CASE KillUpgrade
  <2>1. SweepType'
    BY <1>8, <1>s DEF KillUpgrade
  <2> QED
    BY <1>8, <1>t, <2>1, TypeParts DEF KillUpgrade, UpExits, UpType, Progress, files, sweep, history
<1>9. CASE StartApply
  <2>1. SweepType'
    BY <1>9, TypeParts DEF StartApply, SweepType, Drains, NothingHeld
  <2> QED
    BY <1>9, <1>t, <2>1, TypeParts DEF StartApply, UpType, Progress, files, history
<1>10. ASSUME NEW d \in Drains, List(d) PROVE TypeOK' /\ Progress'
  <2>1. SweepType'
    BY <1>10, TypeParts DEF List, SweepType, Drains, NothingHeld
  <2> QED
    BY <1>10, <1>t, <2>1, TypeParts DEF List, UpType, Progress, files, upgrade, history
<1>11. ASSUME NEW d \in Drains, NEW s \in Seeds, Read(d, s) PROVE TypeOK' /\ Progress'
  <2>1. SweepType'
    BY <1>11, TypeParts DEF Read, SweepType, Drains, NothingHeld
  <2> QED
    BY <1>11, <1>t, <2>1, TypeParts DEF Read, UpType, Progress, files, upgrade, history
<1>12. ASSUME NEW d \in Drains, NEW s \in Seeds, Skip(d, s) PROVE TypeOK' /\ Progress'
  <2>1. SweepType'
    BY <1>12, TypeParts DEF Skip, SweepType, Drains, NothingHeld
  <2> QED
    BY <1>12, <1>t, <2>1, TypeParts DEF Skip, UpType, Progress, files, upgrade, history
<1>13. ASSUME NEW d \in Drains, Apply(d) PROVE TypeOK' /\ Progress'
  <2>1. SweepType'
    BY <1>13, TypeParts DEF Apply, SweepType, Drains, NothingHeld
  <2> QED
    BY <1>13, <1>t, <2>1, TypeParts DEF Apply, SweepType, UpType, Progress, files, upgrade, history
<1>14. ASSUME NEW d \in Drains, Refused(d) PROVE TypeOK' /\ Progress'
  <2>1. SweepType'
    BY <1>14, TypeParts DEF Refused, SweepType, Drains, NothingHeld
  <2> QED
    BY <1>14, <1>t, <2>1, TypeParts DEF Refused, UpType, Progress, files, upgrade, history
<1>15. ASSUME NEW d \in Drains, Unlink(d) PROVE TypeOK' /\ Progress'
  <2>1. SweepType'
    BY <1>15, TypeParts DEF Unlink, SweepType, Drains, NothingHeld
  <2> QED
    BY <1>15, <1>t, <2>1, TypeParts DEF Unlink, UpType, Progress, files, upgrade, history
<1>16. ASSUME NEW d \in Drains, UnlinkFails(d) PROVE TypeOK' /\ Progress'
  <2>1. SweepType'
    BY <1>16, TypeParts DEF UnlinkFails, SweepType, Drains, NothingHeld
  <2> QED
    BY <1>16, <1>t, <2>1, TypeParts DEF UnlinkFails, UpType, Progress, files, upgrade, history
<1>17. ASSUME NEW d \in Drains, SweepEnds(d) PROVE TypeOK' /\ Progress'
  <2>1. SweepType'
    BY <1>17, TypeParts DEF SweepEnds, SweepExits, UpExits, SweepType, Drains, NothingHeld
  <2>2. UpType' /\ Progress' /\ reported' \in {reported, "applied"}
    <3>1. CASE d = "live" /\ up = "apply"
      BY <1>17, <3>1, TypeParts DEF SweepEnds, SweepExits, UpExits, UpType, Progress
    <3>2. CASE ~(d = "live" /\ up = "apply")
      BY <1>17, <3>2, TypeParts DEF SweepEnds, SweepExits, upgrade, UpType, Progress
    <3> QED
      BY <3>1, <3>2
  <2>3. UNCHANGED <<installed, queue, script, registry, owed, raced, cut, runs, boots>>
    BY <1>17 DEF SweepEnds, files
  <2> QED
    BY <1>t, <2>1, <2>2, <2>3, TypeParts
<1>18. ASSUME NEW d \in Drains, KillSweep(d) PROVE TypeOK' /\ Progress'
  <2>1. SweepType'
    BY <1>18, TypeParts DEF KillSweep, SweepExits, UpExits, SweepType, Drains, NothingHeld
  <2> QED
    BY <1>18, <1>t, <2>1, TypeParts
       DEF KillSweep, SweepExits, UpExits, UpType, Progress, files, upgrade, history
<1>19. CASE Reboot
  <2>1. SweepType'
    BY <1>19, TypeParts DEF Reboot, UpExits, SweepType, Drains, NothingHeld
  <2>2. UpType' /\ Progress'
    BY <1>19 DEF Reboot, UpExits, UpType, Progress
  <2>3. boots' \in 0 .. MaxBoots
    BY <1>19, TypeParts DEF Reboot
  <2>4. /\ UNCHANGED <<installed, queue, script, registry, reported, owed, raced, runs>>
        /\ cut' \in BOOLEAN
    BY <1>19, TypeParts DEF Reboot, files
  <2> QED
    BY <1>t, <2>1, <2>2, <2>3, <2>4, TypeParts
<1> QED
  BY <1>0, <1>1, <1>2, <1>3, <1>4, <1>5, <1>6, <1>7, <1>8, <1>9, <1>10, <1>11, <1>12, <1>13,
     <1>14, <1>15, <1>16, <1>17, <1>18, <1>19 DEF Next

\* The queue, the registry and every process keep their types (upgrade_peios.rs,
\* apply.rs).
THEOREM TypeCorrect == Spec => []TypeOK
BY InitType, NextType, PTL DEF Spec

-----------------------------------------------------------------------------
(* The invariant holds *)

LEMMA InitPlaced == Init => Placed
BY SeedAssumption DEF Init, Placed

LEMMA NextPlaced == TypeOK /\ Placed /\ [Next]_vars => Placed'
<1> SUFFICES ASSUME TypeOK, Placed, [Next]_vars PROVE Placed'
  OBVIOUS
<1> USE SeedAssumption DEF Placed
<1>1. CASE \E r \in Releases, later \in BOOLEAN : Packages(r, later)
  BY <1>1 DEF Packages, files
<1>2. CASE (\E s \in Seeds : Truncate(s)) \/ Fill
  BY <1>2 DEF Truncate, Fill, history
<1>3. CASE PlaceScript \/ Chmod
  BY <1>3 DEF PlaceScript, Chmod, history, TypeOK
<1>4. CASE StageFails \/ KillUpgrade \/ Reboot
  BY <1>4 DEF StageFails, KillUpgrade, Reboot, UpExits, files
<1>5. CASE LeaveQueued \/ StartApply
  BY <1>5 DEF LeaveQueued, StartApply, UpExits, files, history
<1>6. CASE \E d \in Drains : \/ List(d) \/ Apply(d) \/ Refused(d) \/ Unlink(d) \/ UnlinkFails(d)
                            \/ \E s \in Seeds : Read(d, s) \/ Skip(d, s)
  BY <1>6 DEF List, Apply, Refused, Unlink, UnlinkFails, Read, Skip, files, upgrade, history
<1>7. CASE \E d \in Drains : SweepEnds(d) \/ KillSweep(d)
  BY <1>7 DEF SweepEnds, KillSweep, SweepExits, UpExits, files, upgrade
<1>8. CASE UNCHANGED vars BY <1>8 DEF vars
<1> QED BY <1>1, <1>2, <1>3, <1>4, <1>5, <1>6, <1>7, <1>8 DEF Next

LEMMA InitInv == Init => Inv
<1> SUFFICES ASSUME Init PROVE Quiet
  BY InitType, InitPlaced DEF Inv
<1>1. Absent \notin Releases /\ Nothing \notin {"queued", "none", "applied"}
  BY SeedAssumption
<1> QED
  BY <1>1 DEF Init, Quiet, Lone, QueueIsOwed, HeldIsQueued, Survive, AllStaged, Sweeping, Told,
     Drains

\* An upgrade that has met a foreign sweep has met it for good.
LEMMA RacedStays == [Next]_vars /\ raced => raced'
BY DEF Next, Packages, Truncate, Fill, PlaceScript, Chmod, StageFails, LeaveQueued, StartApply,
   List, Read, Skip, Apply, Refused, Unlink, UnlinkFails, SweepEnds, KillUpgrade, KillSweep,
   Reboot, UpExits, SweepExits, history, vars

\* Each step keeps the parts of Quiet it does not touch, and re-establishes the
\* others from what the process has done before.
LEMMA NextQuiet == Inv /\ [Next]_vars /\ ~raced' => Quiet'
<1> SUFFICES ASSUME Inv, [Next]_vars, ~raced' PROVE Quiet'
  OBVIOUS
<1>a. TypeOK /\ Progress /\ (~raced => Quiet)
  BY DEF Inv
<1>b. /\ UpType /\ SweepType /\ installed \in Releases
      /\ queue \in [Seeds -> Releases \cup {Absent, Torn}]
      /\ registry \in [Seeds -> Releases \cup {0}]
      /\ reported \in {Nothing, "queued", "none", "applied"}
      /\ owed \in [Seeds -> Releases \cup {Nothing}]
  BY <1>a, TypeParts
<1>c. /\ Asks \in [Releases -> SUBSET Seeds]
      /\ Absent \notin Releases /\ Torn \notin Releases /\ Nothing \notin Releases
      /\ Absent # Torn /\ Nothing \notin {"queued", "none", "applied"}
  BY SeedAssumption
<1>d. Quiet
  BY <1>a, RacedStays
<1> USE DEF Drains, Quiet, Lone, QueueIsOwed, HeldIsQueued, Survive, Waits, AllStaged, Sweeping,
       Told
<1>0. CASE UNCHANGED vars
  BY <1>d, <1>0 DEF vars
<1>1. ASSUME NEW r \in Releases, NEW later \in BOOLEAN, Packages(r, later) PROVE Quiet'
  BY <1>1, <1>c, <1>d DEF Packages, sweep, files
<1>2. ASSUME NEW s \in Seeds, Truncate(s) PROVE Quiet'
  BY <1>2, <1>b, <1>c, <1>d DEF Truncate, sweep, history
<1>3. CASE Fill
  BY <1>3, <1>b, <1>c, <1>d DEF Fill, sweep
<1>4. CASE PlaceScript
  BY <1>4, <1>d DEF PlaceScript, sweep, history
<1>5. CASE Chmod
  BY <1>5, <1>d DEF Chmod, sweep, history
<1>6. CASE StageFails
  BY <1>6, <1>a, <1>d DEF StageFails, UpExits, sweep, history, files, Progress
<1>7. CASE LeaveQueued
  BY <1>7, <1>a, <1>d DEF LeaveQueued, UpExits, sweep, files, Progress
<1>8. CASE StartApply
  BY <1>8, <1>d DEF StartApply, history, files
<1>9. CASE KillUpgrade
  BY <1>9, <1>a, <1>d DEF KillUpgrade, UpExits, sweep, history, files, Progress
<1>10. ASSUME NEW d \in Drains, List(d) PROVE Quiet'
  BY <1>10, <1>a, <1>b, <1>c, <1>d DEF List, upgrade, history, files, Progress, SweepType
<1>11. ASSUME NEW d \in Drains, NEW s \in Seeds, Read(d, s) PROVE Quiet'
  BY <1>11, <1>b, <1>d DEF Read, upgrade, history, files, SweepType
<1>12. ASSUME NEW d \in Drains, NEW s \in Seeds, Skip(d, s) PROVE Quiet'
  BY <1>12, <1>b, <1>d DEF Skip, upgrade, history, files, SweepType
<1>13. ASSUME NEW d \in Drains, Apply(d) PROVE Quiet'
  BY <1>13, <1>a, <1>b, <1>c, <1>d DEF Apply, upgrade, history, files, SweepType, Progress
<1>14. ASSUME NEW d \in Drains, Refused(d) PROVE Quiet'
  BY <1>14, <1>b, <1>d DEF Refused, upgrade, history, files, SweepType
<1>15. ASSUME NEW d \in Drains, Unlink(d) PROVE Quiet'
  BY <1>15, <1>a, <1>b, <1>c, <1>d DEF Unlink, upgrade, history, SweepType, Progress
<1>16. ASSUME NEW d \in Drains, UnlinkFails(d) PROVE Quiet'
  BY <1>16, <1>b, <1>d DEF UnlinkFails, upgrade, history, files, SweepType
<1>17. ASSUME NEW d \in Drains, SweepEnds(d) PROVE Quiet'
  BY <1>17, <1>a, <1>d DEF SweepEnds, SweepExits, UpExits, upgrade, files, Progress
<1>18. ASSUME NEW d \in Drains, KillSweep(d) PROVE Quiet'
  BY <1>18, <1>a, <1>b, <1>d DEF KillSweep, SweepExits, UpExits, upgrade, files, SweepType, Progress
<1>19. CASE Reboot
  BY <1>19, <1>a, <1>d DEF Reboot, UpExits, history, files, Progress
<1> QED
  BY <1>0, <1>1, <1>2, <1>3, <1>4, <1>5, <1>6, <1>7, <1>8, <1>9, <1>10, <1>11, <1>12, <1>13,
     <1>14, <1>15, <1>16, <1>17, <1>18, <1>19 DEF Next

LEMMA InvCorrect == Spec => []Inv
<1>1. Inv /\ [Next]_vars => Inv'
  BY NextType, NextPlaced, NextQuiet DEF Inv
<1> QED
  BY <1>1, InitInv, PTL DEF Spec

-----------------------------------------------------------------------------
(* What follows *)

\* A staged seed keeps its file until it is applied, whatever is killed,
\* restarted or refused; only a staging of the same seed that is cut short takes
\* the contents from it, and no sweep takes such a file for a seed
\* (apply.rs, apply_file; upgrade_peios.rs, stage_seeds).
THEOREM StagedSeedsAreKept == Spec => []StagedSeedsSurvive
<1>1. Inv => StagedSeedsSurvive
  BY DEF Inv, Quiet, Survive, StagedSeedsSurvive
<1> QED
  BY <1>1, InvCorrect, PTL

\* What an upgrade that exits 0 says of its seeds is so, and stays so until the
\* next upgrade (upgrade_peios.rs, seeds).
THEOREM ReportsHold == Spec => []ReportsAreTrue
<1>1. Inv => ReportsAreTrue
  <2>0. ASSUME Inv, ~cut, reported = "queued" PROVE script = "exec"
    <3>1. up = "off" BY <2>0, SeedAssumption DEF Inv, Progress
    <3> QED BY <2>0, <3>1 DEF Inv, Placed, TypeOK
  <2> SUFFICES ASSUME Inv, ~raced, reported # Nothing, NEW s \in Asks[installed]
               PROVE  \/ registry[s] = installed
                      \/ reported = "queued" /\ queue[s] = installed
    BY <2>0 DEF ReportsAreTrue
  <2>1. TypeOK /\ Progress /\ Quiet
    BY DEF Inv
  <2>2. up = "off" /\ staging = {}
    BY <2>1 DEF Progress, TypeOK
  <2>3. owed[s] = installed /\ queue[s] # Torn /\ installed # Nothing /\ s \in Seeds
    BY <2>1, <2>2, SeedAssumption DEF Quiet, AllStaged, TypeOK
  <2>4. registry[s] = installed \/ queue[s] = installed
    BY <2>1, <2>3 DEF Quiet, Survive, Waits
  <2>5. reported # "none" /\ (reported = "applied" => registry[s] = installed)
    BY <2>1 DEF Quiet, Told
  <2> QED
    BY <2>1, <2>4, <2>5 DEF TypeOK
<1> QED
  BY <1>1, InvCorrect, PTL
-----------------------------------------------------------------------------
(* Releases go forward *)

\* No sweep, whenever it began and however often it is cut short, takes a seed
\* back to a release that it has left.  (While no upgrade meets a sweep that it
\* did not start.)
SeedsGoForward == ~raced' => \A s \in Seeds : registry'[s] >= registry[s]

\* What is queued is no older than what is applied, and no newer than what is
\* installed.
InOrder ==
    \A s \in Seeds :
        /\ registry[s] <= installed
        /\ queue[s] \in Releases => registry[s] <= queue[s] /\ queue[s] <= installed

LEMMA NextInOrder ==
    ASSUME Inv, [Next]_vars, ~raced', InOrder
    PROVE  InOrder' /\ \A s \in Seeds : registry'[s] >= registry[s]
<1>a. /\ Quiet /\ TypeOK /\ UpType /\ SweepType
      /\ installed \in Releases /\ Releases \subseteq Nat
      /\ queue \in [Seeds -> Releases \cup {Absent, Torn}]
      /\ registry \in [Seeds -> Releases \cup {0}]
  BY RacedStays, TypeParts DEF Inv, Releases
<1>b. ASSUME NEW s \in Seeds PROVE registry[s] \in Nat
  <2>1. CASE registry[s] = 0 BY <2>1
  <2>2. CASE registry[s] \in Releases BY <2>2, <1>a
  <2> QED BY <2>1, <2>2, <1>a
<1>c. Absent \notin Releases /\ Torn \notin Releases BY SeedAssumption
<1> USE DEF InOrder
<1>1. ASSUME UNCHANGED <<installed, registry>>,
             \A s \in Seeds : queue'[s] \in Releases => queue'[s] = queue[s]
      PROVE  InOrder' /\ \A s \in Seeds : registry'[s] >= registry[s]
  BY <1>1, <1>b
<1>2. ASSUME NEW r \in Releases, NEW later \in BOOLEAN, Packages(r, later)
      PROVE  InOrder' /\ \A s \in Seeds : registry'[s] >= registry[s]
  <2>1. UNCHANGED <<queue, registry>> /\ installed' >= installed /\ installed' \in Nat
    BY <1>2, <1>a DEF Packages, files
  <2>2. installed \in Nat BY <1>a
  <2>3. \A s \in Seeds : queue[s] \in Releases => queue[s] \in Nat BY <1>a
  <2> HIDE DEF Releases
  <2>4. InOrder'
    <3> SUFFICES ASSUME NEW s \in Seeds
                 PROVE  /\ registry[s] <= installed'
                        /\ queue[s] \in Releases =>
                              registry[s] <= queue[s] /\ queue[s] <= installed'
      BY <2>1
    <3> QED BY <2>1, <2>2, <2>3, <1>b
  <2> QED BY <2>1, <2>4, <1>b
<1>3. ASSUME NEW s \in Seeds, Truncate(s)
      PROVE  InOrder' /\ \A x \in Seeds : registry'[x] >= registry[x]
  BY <1>1, <1>3, <1>a, <1>c DEF Truncate
<1>4. ASSUME Fill PROVE InOrder' /\ \A s \in Seeds : registry'[s] >= registry[s]
  <2>1. /\ UNCHANGED <<installed, registry>>
        /\ \A s \in Seeds : queue'[s] = queue[s] \/ queue'[s] = installed
    BY <1>4, <1>a DEF Fill
  <2> QED BY <2>1, <1>a, <1>b
<1>5. ASSUME NEW d \in Drains, Apply(d)
      PROVE  InOrder' /\ \A s \in Seeds : registry'[s] >= registry[s]
  <2>1. /\ held[d].from \in Releases /\ held[d].seed \in Seeds
        /\ queue[held[d].seed] = held[d].from
    BY <1>5, <1>a DEF Apply, SweepType, Quiet, HeldIsQueued
  <2>2. /\ UNCHANGED <<installed, queue>>
        /\ \A s \in Seeds : registry'[s] = IF s = held[d].seed THEN queue[s] ELSE registry[s]
    BY <1>5, <1>a, <2>1 DEF Apply, files
  <2>3. \A s \in Seeds : registry'[s] = registry[s] \/ (registry'[s] = queue[s] /\ queue[s] \in Releases)
    BY <2>1, <2>2
  <2>4. \A s \in Seeds : queue[s] \in Releases => queue[s] \in Nat BY <1>a
  <2>5. installed \in Nat BY <1>a
  <2> QED BY <2>2, <2>3, <2>4, <2>5, <1>b
<1>6. ASSUME NEW d \in Drains, Unlink(d)
      PROVE  InOrder' /\ \A s \in Seeds : registry'[s] >= registry[s]
  BY <1>1, <1>6, <1>a, <1>c DEF Unlink
<1>7. ASSUME UNCHANGED <<installed, queue, registry>>
      PROVE  InOrder' /\ \A s \in Seeds : registry'[s] >= registry[s]
  BY <1>1, <1>7
<1>8. CASE PlaceScript \/ Chmod \/ StageFails \/ LeaveQueued \/ StartApply \/ KillUpgrade \/ Reboot
  BY <1>7, <1>8 DEF PlaceScript, Chmod, StageFails, LeaveQueued, StartApply, KillUpgrade, Reboot,
     files
<1>9. ASSUME NEW d \in Drains,
             \/ List(d) \/ Refused(d) \/ UnlinkFails(d) \/ SweepEnds(d) \/ KillSweep(d)
             \/ \E s \in Seeds : Read(d, s) \/ Skip(d, s)
      PROVE  InOrder' /\ \A s \in Seeds : registry'[s] >= registry[s]
  BY <1>7, <1>9 DEF List, Refused, UnlinkFails, SweepEnds, KillSweep, Read, Skip, files
<1>10. CASE UNCHANGED vars BY <1>7, <1>10 DEF vars
<1> QED
  BY <1>2, <1>3, <1>4, <1>5, <1>6, <1>8, <1>9, <1>10 DEF Next

\* A sweep that was cut short, refused or repeated applies a seed of the release
\* it was staged for, and never sets back what a later one has applied
\* (apply.rs, apply_file; upgrade_peios.rs, stage_seeds).
THEOREM AppliedInOrder == Spec => [][SeedsGoForward]_vars
<1>1. Init => InOrder
  <2>1. Absent \notin Releases BY SeedAssumption
  <2>2. Init => \A s \in Seeds : registry[s] = 0 /\ queue[s] = Absent BY DEF Init
  <2>3. Init => installed = 1 BY DEF Init
  <2>4. ASSUME Init, NEW s \in Seeds
        PROVE  /\ registry[s] <= installed
               /\ queue[s] \in Releases => registry[s] <= queue[s] /\ queue[s] <= installed
    BY <2>1, <2>2, <2>3, <2>4
  <2> QED BY <2>4 DEF InOrder
<1>2. Inv /\ (~raced => InOrder) /\ [Next]_vars => (~raced => InOrder)'
  BY NextInOrder, RacedStays
<1>3. Inv /\ (~raced => InOrder) /\ [Next]_vars => [SeedsGoForward]_vars
  BY NextInOrder, RacedStays DEF SeedsGoForward
<1> QED BY <1>1, <1>2, <1>3, InvCorrect, PTL DEF Spec
=============================================================================
