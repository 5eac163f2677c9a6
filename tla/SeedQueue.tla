----------------------------- MODULE SeedQueue ------------------------------
(***************************************************************************)
(* The registry seeds of a release on their way to the registry:           *)
(* `upgrade-peios` moves the packages, stages the seeds the release names  *)
(* into a queue directory and makes sure the drain script is in place;     *)
(* `reg apply --dir --once-delete` drains the queue, run by upgrade-peios  *)
(* on a live system and by the drain script on every boot.  A seed is the  *)
(* release whose master it is; the files are shared and unlocked.          *)
(***************************************************************************)
EXTENDS Naturals

CONSTANTS
    Seeds,
    LastRelease,
    Asks,         \* external: the seeds each release's release.toml names
    MaxRuns,      \* bounds of the model: upgrades, and reboots
    MaxBoots,
    Absent, Torn, Nothing

Releases == 1 .. LastRelease

ASSUME SeedAssumption ==
    /\ LastRelease \in Nat \ {0}
    /\ Asks \in [Releases -> SUBSET Seeds]
    /\ MaxRuns \in Nat /\ MaxBoots \in Nat
    /\ Absent \notin Releases /\ Torn \notin Releases /\ Nothing \notin Releases
    /\ Absent # Torn /\ Nothing \notin Seeds \cup {"queued", "none", "applied"}

\* Who runs `reg apply`: the boot, through the drain script, or upgrade-peios.
Drains == {"boot", "live"}

VARIABLES
    installed,   \* external: the release whose packages are installed
    queue,       \* autoapply.d: each seed's file, as Absent, Torn or a release
    script,      \* the drain script: "none", "plain" (not executable) or "exec"
    registry,    \* the release each seed was last applied from, 0 for never
    up,          \* where upgrade-peios is
    onReboot,    \* --on-reboot, or a --root that is not live
    staging,     \* the seeds it has still to stage
    file,        \* the one whose file it has open
    reg,         \* where each drain is
    list,        \* the files a drain has listed and not yet dealt with
    held,        \* the file it has read, and its contents
    failed,      \* some file of the sweep failed
    reported,    \* history: how the last upgrade that exited 0 ended
    owed,        \* history: the release each seed was last staged from in full
    raced,       \* history: an upgrade and a sweep it did not start have overlapped
    cut,         \* history: an upgrade stopped before it made its drain script executable
    runs, boots

files == <<queue, script>>
upgrade == <<up, onReboot, staging, file>>
sweep == <<reg, list, held, failed>>
history == <<reported, owed, raced, cut>>
vars == <<installed, queue, script, registry, up, onReboot, staging, file,
          reg, list, held, failed, reported, owed, raced, cut, runs, boots>>

NothingHeld == [seed |-> Nothing, from |-> Nothing]

Init ==
    /\ installed = 1
    /\ queue = [s \in Seeds |-> Absent]
    /\ script \in {"none", "exec"}
    /\ registry = [s \in Seeds |-> 0]
    /\ up = "off" /\ onReboot = FALSE /\ staging = {} /\ file = Nothing
    /\ reg = [d \in Drains |-> "off"]
    /\ list = [d \in Drains |-> {}]
    /\ held = [d \in Drains |-> NothingHeld]
    /\ failed = [d \in Drains |-> FALSE]
    /\ reported = Nothing
    /\ owed = [s \in Seeds |-> Nothing]
    /\ raced = FALSE /\ cut = FALSE
    /\ runs = 0 /\ boots = 0

-----------------------------------------------------------------------------
(* upgrade-peios *)

UpExits ==
    /\ up' = "off" /\ onReboot' = FALSE /\ staging' = {} /\ file' = Nothing

\* peipkg moves the packages to the next release, or finds them current, or is
\* not run (--seeds-only); release_seeds reads what the release names.
Packages(r, later) ==
    /\ up = "off" /\ runs < MaxRuns
    /\ r \in {installed, installed + 1}
    /\ installed' = r
    /\ up' = "stage" /\ onReboot' = later /\ staging' = Asks[r] /\ file' = Nothing
    /\ raced' = (raced \/ \E d \in Drains : reg[d] # "off")
    /\ reported' = Nothing
    /\ runs' = runs + 1
    /\ UNCHANGED <<files, registry, sweep, owed, cut, boots>>

\* Mutant: a seed that is queued already is left as it is.
TruncateIfAbsent(s) ==
    /\ up = "stage" /\ s \in staging
    /\ IF queue[s] = Absent
       THEN /\ queue' = [queue EXCEPT ![s] = Torn]
            /\ up' = "fill" /\ file' = s
            /\ UNCHANGED staging
       ELSE /\ staging' = staging \ {s}
            /\ UNCHANGED <<queue, up, file>>
    /\ UNCHANGED <<installed, script, registry, onReboot, sweep, history, runs, boots>>

\* stage_seeds: fs::write opens and truncates, then writes.  What was queued
\* under the name and not yet applied is gone, though it is still owed.
Truncate(s) ==
    /\ up = "stage" /\ s \in staging
    /\ queue' = [queue EXCEPT ![s] = Torn]
    /\ up' = "fill" /\ file' = s
    /\ UNCHANGED <<installed, script, registry, onReboot, staging, sweep, history, runs, boots>>

\* Into the file it has open, which may have lost its name since.
Fill ==
    /\ up = "fill"
    /\ queue' = [queue EXCEPT ![file] = IF @ = Torn THEN installed ELSE @]
    /\ owed' = [owed EXCEPT ![file] = installed]
    /\ staging' = staging \ {file}
    /\ up' = "stage" /\ file' = Nothing
    /\ UNCHANGED <<installed, script, registry, onReboot, sweep, reported, raced, cut, runs, boots>>

\* The drain script is written only where there is none, and then made
\* executable.
PlaceScript ==
    /\ up = "stage" /\ staging = {}
    /\ IF script = "none" THEN script' = "plain" /\ up' = "chmod"
       ELSE up' = "staged" /\ UNCHANGED script
    /\ UNCHANGED <<installed, queue, registry, onReboot, staging, file, sweep, history,
                   runs, boots>>

Chmod ==
    /\ up = "chmod"
    /\ script' = "exec"
    /\ up' = "staged"
    /\ UNCHANGED <<installed, queue, registry, onReboot, staging, file, sweep, history,
                   runs, boots>>

\* A missing master, an invalid name, or an I/O error: exit 4, leaving what is
\* staged.
StageFails ==
    /\ up \in {"stage", "fill", "chmod"}
    /\ UpExits
    /\ cut' = (cut \/ up = "chmod")
    /\ UNCHANGED <<installed, files, registry, sweep, reported, owed, raced, runs, boots>>

\* Nothing to apply now: the seeds wait for the boot, or there are none.
LeaveQueued ==
    /\ up = "staged"
    /\ onReboot \/ Asks[installed] = {}
    /\ reported' = IF onReboot THEN "queued" ELSE "none"
    /\ UpExits
    /\ UNCHANGED <<installed, files, registry, sweep, owed, raced, cut, runs, boots>>

\* apply_seeds runs `reg apply` and waits for it.  (One sweep of each origin at
\* a time: an earlier one that outlived its upgrade-peios ends first.)
StartApply ==
    /\ up = "staged" /\ ~onReboot /\ Asks[installed] # {}
    /\ reg["live"] = "off"
    /\ up' = "apply"
    /\ reg' = [reg EXCEPT !["live"] = "list"]
    /\ UNCHANGED <<installed, files, registry, onReboot, staging, file, list, held, failed,
                   history, runs, boots>>

-----------------------------------------------------------------------------
(* reg apply --dir --once-delete *)

\* The sweep ends; upgrade-peios, when it waits for it, passes the outcome on.
SweepExits(d, ok) ==
    /\ reg' = [reg EXCEPT ![d] = "off"]
    /\ list' = [list EXCEPT ![d] = {}]
    /\ held' = [held EXCEPT ![d] = NothingHeld]
    /\ failed' = [failed EXCEPT ![d] = FALSE]
    /\ IF d = "live" /\ up = "apply"
       THEN UpExits /\ reported' = IF ok THEN "applied" ELSE reported
       ELSE UNCHANGED <<upgrade, reported>>

List(d) ==
    /\ reg[d] = "list"
    /\ list' = [list EXCEPT ![d] = {s \in Seeds : queue[s] # Absent}]
    /\ reg' = [reg EXCEPT ![d] = "next"]
    /\ UNCHANGED <<installed, files, registry, upgrade, held, failed, history, runs, boots>>

\* Mutant: a file half written is applied as far as it goes.
ReadTorn(d, s) ==
    /\ reg[d] = "next" /\ s \in list[d]
    /\ queue[s] # Absent
    /\ held' = [held EXCEPT ![d] = [seed |-> s, from |-> queue[s]]]
    /\ reg' = [reg EXCEPT ![d] = "apply"]
    /\ UNCHANGED <<installed, files, registry, upgrade, list, failed, history, runs, boots>>

\* apply_file reads the file whole.
Read(d, s) ==
    /\ reg[d] = "next" /\ s \in list[d]
    /\ queue[s] \in Releases
    /\ held' = [held EXCEPT ![d] = [seed |-> s, from |-> queue[s]]]
    /\ reg' = [reg EXCEPT ![d] = "apply"]
    /\ UNCHANGED <<installed, files, registry, upgrade, list, failed, history, runs, boots>>

\* A file that is gone, or no batch, is reported and skipped, and left in place.
Skip(d, s) ==
    /\ reg[d] = "next" /\ s \in list[d] /\ queue[s] \notin Releases
    /\ failed' = [failed EXCEPT ![d] = TRUE]
    /\ list' = [list EXCEPT ![d] = @ \ {s}]
    /\ UNCHANGED <<installed, files, registry, upgrade, reg, held, history, runs, boots>>

\* apply_doc: one registry transaction, which commits in whole ...
Apply(d) ==
    /\ reg[d] = "apply"
    /\ registry' = [registry EXCEPT ![held[d].seed] = held[d].from]
    /\ reg' = [reg EXCEPT ![d] = "unlink"]
    /\ UNCHANGED <<installed, files, upgrade, list, held, failed, history, runs, boots>>

\* Mutant: a seed that the registry refuses is deleted all the same.
RefusedDeleted(d) ==
    /\ reg[d] = "apply"
    /\ reg' = [reg EXCEPT ![d] = "unlink"]
    /\ failed' = [failed EXCEPT ![d] = TRUE]
    /\ UNCHANGED <<installed, files, registry, upgrade, list, held, history, runs, boots>>

\* ... or not at all: the file stays.
Refused(d) ==
    /\ reg[d] = "apply"
    /\ failed' = [failed EXCEPT ![d] = TRUE]
    /\ list' = [list EXCEPT ![d] = @ \ {held[d].seed}]
    /\ held' = [held EXCEPT ![d] = NothingHeld]
    /\ reg' = [reg EXCEPT ![d] = "next"]
    /\ UNCHANGED <<installed, files, registry, upgrade, history, runs, boots>>

\* --once-delete unlinks the name, whatever file bears it now.
Unlink(d) ==
    /\ reg[d] = "unlink"
    /\ LET s == held[d].seed IN
       /\ queue' = [queue EXCEPT ![s] = Absent]
       /\ failed' = [failed EXCEPT ![d] = @ \/ queue[s] = Absent]
       /\ list' = [list EXCEPT ![d] = @ \ {s}]
    /\ held' = [held EXCEPT ![d] = NothingHeld]
    /\ reg' = [reg EXCEPT ![d] = "next"]
    /\ UNCHANGED <<installed, script, registry, upgrade, history, runs, boots>>

\* Or it cannot: the file is applied, reported as failed, and stays.
UnlinkFails(d) ==
    /\ reg[d] = "unlink"
    /\ failed' = [failed EXCEPT ![d] = TRUE]
    /\ list' = [list EXCEPT ![d] = @ \ {held[d].seed}]
    /\ held' = [held EXCEPT ![d] = NothingHeld]
    /\ reg' = [reg EXCEPT ![d] = "next"]
    /\ UNCHANGED <<installed, files, registry, upgrade, history, runs, boots>>

SweepEnds(d) ==
    /\ reg[d] = "next" /\ list[d] = {}
    /\ SweepExits(d, ~failed[d])
    /\ UNCHANGED <<installed, files, registry, owed, raced, cut, runs, boots>>

-----------------------------------------------------------------------------
(* Interruptions *)

\* upgrade-peios is killed; its `reg` runs on.
KillUpgrade ==
    /\ up # "off"
    /\ UpExits
    /\ cut' = (cut \/ up = "chmod")
    /\ UNCHANGED <<installed, files, registry, sweep, reported, owed, raced, runs, boots>>

KillSweep(d) ==
    /\ reg[d] # "off"
    /\ SweepExits(d, FALSE)
    /\ UNCHANGED <<installed, files, registry, owed, raced, cut, runs, boots>>

\* The machine restarts, and peinit runs what is executable in autorun.d.
Reboot ==
    /\ boots < MaxBoots
    /\ boots' = boots + 1
    /\ UpExits
    /\ reg' = [d \in Drains |-> IF d = "boot" /\ script = "exec" THEN "list" ELSE "off"]
    /\ list' = [d \in Drains |-> {}]
    /\ held' = [d \in Drains |-> NothingHeld]
    /\ failed' = [d \in Drains |-> FALSE]
    /\ cut' = (cut \/ up = "chmod")
    /\ UNCHANGED <<installed, files, registry, reported, owed, raced, runs>>

Next ==
    \/ \E r \in Releases, later \in BOOLEAN : Packages(r, later)
    \/ \E s \in Seeds : Truncate(s)
    \/ Fill
    \/ PlaceScript \/ Chmod \/ StageFails \/ LeaveQueued \/ StartApply
    \/ \E d \in Drains : List(d) \/ Apply(d) \/ Refused(d) \/ SweepEnds(d)
    \/ \E d \in Drains : Unlink(d) \/ UnlinkFails(d)
    \/ \E d \in Drains, s \in Seeds : Read(d, s) \/ Skip(d, s)
    \/ KillUpgrade \/ Reboot
    \/ \E d \in Drains : KillSweep(d)

Spec == Init /\ [][Next]_vars

-----------------------------------------------------------------------------
(* Properties *)

\* Type invariant.
TypeOK ==
    /\ installed \in Releases
    /\ queue \in [Seeds -> Releases \cup {Absent, Torn}]
    /\ script \in {"none", "plain", "exec"}
    /\ registry \in [Seeds -> Releases \cup {0}]
    /\ up \in {"off", "stage", "fill", "chmod", "staged", "apply"}
    /\ onReboot \in BOOLEAN /\ staging \subseteq Seeds
    /\ IF up = "fill" THEN file \in staging ELSE file = Nothing
    /\ reg \in [Drains -> {"off", "list", "next", "apply", "unlink"}]
    /\ list \in [Drains -> SUBSET Seeds]
    /\ held \in [Drains -> [seed : Seeds \cup {Nothing}, from : Releases \cup {Nothing}]]
    /\ \A d \in Drains :
          IF reg[d] \in {"apply", "unlink"}
          THEN held[d].seed \in list[d] /\ held[d].from \in Releases
          ELSE held[d] = NothingHeld
    /\ failed \in [Drains -> BOOLEAN]
    /\ reported \in {Nothing, "queued", "none", "applied"}
    /\ owed \in [Seeds -> Releases \cup {Nothing}]
    /\ raced \in BOOLEAN /\ cut \in BOOLEAN
    /\ runs \in 0 .. MaxRuns /\ boots \in 0 .. MaxBoots

\* A staged seed is applied, or waits: in full, or, once a later upgrade has
\* begun to stage it again, as the torn file that upgrade leaves when it is cut
\* short.  No kill, reboot, failing sweep or refused seed takes the name from
\* the queue, and no sweep applies or removes a torn file.  (While no upgrade
\* meets a sweep that it did not start.)
Waits(s) == queue[s] \in {owed[s], Torn} \/ registry[s] = owed[s]

StagedSeedsSurvive == ~raced => \A s \in Seeds : owed[s] # Nothing => Waits(s)

\* Exit 0 means what it says: every seed of the installed release is applied,
\* or queued for the boot; and "they apply on the next boot" means that there is
\* a script the boot can run, if no upgrade stopped half way through placing it
\* (script.exists() is all that the next one asks).
ReportsAreTrue ==
    /\ ~raced /\ reported # Nothing =>
          \A s \in Asks[installed] :
              \/ registry[s] = installed
              \/ reported = "queued" /\ queue[s] = installed
    /\ ~cut /\ reported = "queued" => script = "exec"

\* "Each file is unlinked after it applies successfully", whoever else stages
\* and sweeps: StagedSeedsSurvive without its condition.
NoSeedIsLost == \A s \in Seeds : owed[s] # Nothing => Waits(s)
=============================================================================
