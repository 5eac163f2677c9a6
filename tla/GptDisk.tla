------------------------------ MODULE GptDisk -------------------------------
(***************************************************************************)
(* The commands of `part` as processes on one disk: probe, plan, the five  *)
(* buffered writes of a commit, fsync, and the retried BLKRRPART that      *)
(* makes the kernel re-read.  Around them: writeback in any order, power   *)
(* loss, kill, I/O errors, mounts and transient openers of a partition.    *)
(* A table is its disk GUID and its set of partitions (GptTable has the    *)
(* layout); a header stands for the table whose entries its CRC covers.    *)
(***************************************************************************)
EXTENDS Naturals, Sequences

CONSTANTS
    Procs,        \* the `part` processes
    Guids, Parts, \* disk GUIDs and unique partition GUIDs, random in the code
    FirstTables,  \* the tables the disk may carry at first
    Verbs,        \* the commands issued, of "create", "add" and "del"
    Budget,       \* REREAD_BUSY_BUDGET
    FirstWait,    \* REREAD_FIRST_WAIT
    MaxWait,      \* REREAD_MAX_WAIT
    MaxCommands, MaxCrashes,   \* bounds of the model
    NoHeader, Torn, Damaged, Blank, Foreign, Nothing

ASSUME WaitAssumption ==
    /\ Budget \in Nat /\ FirstWait \in Nat \ {0} /\ MaxWait \in Nat \ {0}
    /\ MaxCommands \in Nat /\ MaxCrashes \in Nat

Table == [guid : Guids, parts : SUBSET Parts]

ASSUME ValueAssumption ==
    /\ FirstTables \subseteq Table
    /\ {NoHeader, Damaged, Blank, Foreign, Nothing} \cap Table = {}
    /\ \A S \in SUBSET Parts : Torn # S
    /\ Damaged # Blank /\ Damaged # Foreign /\ Blank # Foreign

VARIABLES
    cache,      \* what reads return: the page cache over the disk
    media,      \* what a power loss leaves
    kernel,     \* the partitions the kernel has device nodes for
    mounted,    \* one of them is in /proc/mounts
    probing,    \* something else has one open for a moment
    pc,         \* where each process is; "off" before and after
    cmd,        \* its verb and --force
    seen,       \* the first two sectors it read, and whether it has probed once
    plan,       \* the table it is committing
    step,       \* the next of its five writes
    waited,     \* time it has slept in retry_while_busy
    wait,       \* its next nap
    alone,      \* history: no other process has run since it opened the disk
    planned,    \* history: the first table, and every table a commit set out to write
    acked,      \* history: the last table reported written, until the next write
    added,      \* history: the partitions of the tables `add` reported
    commands, crashes

disk == <<cache, media>>
env == <<kernel, mounted, probing>>
local == <<cmd, seen, plan, step, waited, wait>>
history == <<alone, planned, acked, added>>
bounds == <<commands, crashes>>
vars == <<cache, media, kernel, mounted, probing, pc, cmd, seen, plan, step,
          waited, wait, alone, planned, acked, added, commands, crashes>>

-----------------------------------------------------------------------------
(* Disk contents *)

Regions == {"mbr", "pEnt", "bEnt", "pHdr", "bHdr"}
Arrays == {"pEnt", "bEnt"}

\* Gpt::writes, in the order they are issued.
WriteOrder == <<"mbr", "pEnt", "bEnt", "pHdr", "bHdr">>

\* What a commit of table t puts in each region.
Written(t) == [mbr |-> "protective", pEnt |-> t.parts, bEnt |-> t.parts,
               pHdr |-> t, bHdr |-> t]

Untouched(mbr) == [mbr |-> mbr, pEnt |-> {}, bEnt |-> {},
                   pHdr |-> NoHeader, bHdr |-> NoHeader]

\* Mutant: the array is parsed without its CRC.
CrcIgnored(hdr, ents) == ents # Torn

\* The entry-array CRC check of Gpt::parse.
CrcMatches(hdr, ents) == ents = hdr.parts

\* label::probe of sector 0, the primary header and the primary array.  The
\* backup is never consulted; without a header the MBR decides.
Found(mbr, hdr, ents) ==
    IF hdr # NoHeader /\ CrcMatches(hdr, ents) THEN [guid |-> hdr.guid, parts |-> ents]
    ELSE IF hdr # NoHeader \/ mbr = "protective" THEN Damaged
    ELSE IF mbr = "dos" THEN Foreign
    ELSE Blank

Probe(d) == Found(d["mbr"], d["pHdr"], d["pEnt"])

\* permit_destructive
Permitted(found, force) == found \in Table \cup {Blank} \/ force

\* The kernel reads the primary table, and the backup when that is damaged.
KernelView(d) ==
    IF d["pHdr"] # NoHeader /\ d["pEnt"] = d["pHdr"].parts THEN d["pEnt"]
    ELSE IF d["bHdr"] # NoHeader /\ d["bEnt"] = d["bHdr"].parts THEN d["bEnt"]
    ELSE {}

-----------------------------------------------------------------------------
(* Processes *)

Running(p) == pc[p] # "off"

NoCommand == [verb |-> Nothing, force |-> FALSE]
NothingSeen == [mbr |-> "none", hdr |-> NoHeader, again |-> FALSE]

Init ==
    /\ \/ \E t \in FirstTables : cache = Written(t) /\ planned = {t}
       \/ \E m \in {"none", "dos"} : cache = Untouched(m) /\ planned = {}
    /\ media = cache
    /\ kernel = KernelView(cache)
    /\ mounted = FALSE /\ probing = FALSE
    /\ pc = [p \in Procs |-> "off"]
    /\ cmd = [p \in Procs |-> NoCommand]
    /\ seen = [p \in Procs |-> NothingSeen]
    /\ plan = [p \in Procs |-> Nothing]
    /\ step = [p \in Procs |-> 1]
    /\ waited = [p \in Procs |-> 0]
    /\ wait = [p \in Procs |-> FirstWait]
    /\ alone = [p \in Procs |-> FALSE]
    /\ acked = Nothing
    /\ added = {}
    /\ commands = 0 /\ crashes = 0

\* The process exits; nothing local is needed afterwards.
Finish(p) ==
    /\ pc' = [pc EXCEPT ![p] = "off"]
    /\ alone' = [alone EXCEPT ![p] = FALSE]
    /\ cmd' = [cmd EXCEPT ![p] = NoCommand]
    /\ seen' = [seen EXCEPT ![p] = NothingSeen]
    /\ plan' = [plan EXCEPT ![p] = Nothing]
    /\ step' = [step EXCEPT ![p] = 1]
    /\ waited' = [waited EXCEPT ![p] = 0]
    /\ wait' = [wait EXCEPT ![p] = FirstWait]

\* open_rw: refused while a partition is mounted, else a plain, non-exclusive
\* open, which another process may also do.
Open(p, verb, force) ==
    /\ ~Running(p)
    /\ commands < MaxCommands
    /\ commands' = commands + 1
    /\ ~mounted
    /\ pc' = [pc EXCEPT ![p] = "header"]
    /\ cmd' = [cmd EXCEPT ![p] = [verb |-> verb, force |-> force]]
    /\ alone' = [q \in Procs |-> q = p /\ \A r \in Procs : ~Running(r)]
    /\ UNCHANGED <<disk, env, seen, plan, step, waited, wait, planned, acked, added, crashes>>

\* probe, first reads: sector 0 and the header sector.
ReadHeader(p) ==
    /\ pc[p] = "header"
    /\ pc' = [pc EXCEPT ![p] = "entries"]
    /\ seen' = [seen EXCEPT ![p] = [mbr |-> cache["mbr"], hdr |-> cache["pHdr"],
                                    again |-> seen[p].again]]
    /\ UNCHANGED <<disk, env, cmd, plan, step, waited, wait, history, bounds>>

\* What the probe of p concludes, once the array the header describes is read.
Concludes(p) == Found(seen[p].mbr, seen[p].hdr, cache["pEnt"])

\* Random GUIDs: one that no table had yet.
FreshGuid(g) == \A t \in planned : t.guid # g
FreshPart(x) == \A t \in planned : x \notin t.parts

\* The table p will write, from the one it found: create starts over, add
\* takes a free slot, del clears one.
Plans(p, found, t) ==
    \/ cmd[p].verb = "create" /\ FreshGuid(t.guid) /\ t.parts = {}
    \/ /\ cmd[p].verb = "add" /\ found \in Table
       /\ t.guid = found.guid
       /\ \E x \in Parts : FreshPart(x) /\ t.parts = found.parts \cup {x}
    \/ /\ cmd[p].verb = "del" /\ found \in Table
       /\ t.guid = found.guid
       /\ \E x \in found.parts : t.parts = found.parts \ {x}

\* `create` acts on its first probe; `add` and `del` probe again in load_gpt.
LastProbe(p) == cmd[p].verb = "create" \/ seen[p].again

\* The first probe of add and del only decides whether to go on.
ProbeAgain(p) ==
    /\ pc[p] = "entries" /\ ~LastProbe(p)
    /\ Permitted(Concludes(p), cmd[p].force)
    /\ pc' = [pc EXCEPT ![p] = "header"]
    /\ seen' = [seen EXCEPT ![p].again = TRUE]
    /\ UNCHANGED <<disk, env, cmd, plan, step, waited, wait, history, bounds>>

Plan(p) ==
    /\ pc[p] = "entries" /\ LastProbe(p)
    /\ Permitted(Concludes(p), cmd[p].force)
    /\ \E t \in Table :
          /\ Plans(p, Concludes(p), t)
          /\ plan' = [plan EXCEPT ![p] = t]
          /\ planned' = planned \cup {t}
    /\ pc' = [pc EXCEPT ![p] = "write"]
    /\ UNCHANGED <<disk, env, cmd, seen, step, waited, wait, alone, acked, added, bounds>>

\* Not permitted; or, at the last probe, nothing to modify: a foreign or damaged
\* table, too small a disk, no free slot or space, no such partition.
Refuse(p) ==
    /\ pc[p] = "entries"
    /\ ~Permitted(Concludes(p), cmd[p].force) \/ LastProbe(p)
    /\ Finish(p)
    /\ UNCHANGED <<disk, env, planned, acked, added, bounds>>

\* Mutant: one write too many.
LastWriteOffByOne(p) == step[p] > Len(WriteOrder)

LastWrite(p) == step[p] = Len(WriteOrder)

\* commit: one write_at, into the page cache.
Write(p) ==
    /\ pc[p] = "write"
    /\ LET r == WriteOrder[step[p]]
       IN  cache' = [cache EXCEPT ![r] = Written(plan[p])[r]]
    /\ step' = [step EXCEPT ![p] = @ + 1]
    /\ pc' = [pc EXCEPT ![p] = IF LastWrite(p) THEN "sync" ELSE "write"]
    /\ acked' = Nothing
    /\ UNCHANGED <<media, env, cmd, seen, plan, waited, wait, alone, planned, added, bounds>>

\* Mutant: the kernel is asked to re-read a table that was never synced.
SyncSkipped(p) ==
    /\ pc[p] = "sync"
    /\ pc' = [pc EXCEPT ![p] = "reread"]
    /\ UNCHANGED <<disk, env, local, history, bounds>>

\* sync_all
Sync(p) ==
    /\ pc[p] = "sync"
    /\ media' = cache
    /\ pc' = [pc EXCEPT ![p] = "reread"]
    /\ UNCHANGED <<cache, env, local, history, bounds>>

Busy == mounted \/ probing

\* The command reports table t: `visible` when the kernel has re-read it.
Report(p, visible) ==
    /\ acked' = IF alone[p] THEN [table |-> plan[p], visible |-> visible] ELSE Nothing
    /\ added' = IF visible /\ cmd[p].verb = "add" THEN added \cup plan[p].parts ELSE added

\* BLKRRPART: the kernel re-reads through the page cache.
Reread(p) ==
    /\ pc[p] = "reread" /\ ~Busy
    /\ kernel' = KernelView(cache)
    /\ Report(p, TRUE)
    /\ Finish(p)
    /\ UNCHANGED <<disk, mounted, probing, planned, bounds>>

Least(a, b) == IF a < b THEN a ELSE b

\* Mutant: a retry without a budget.
MayRetryForever(p) == TRUE

\* retry_while_busy: EBUSY before the budget is spent is a nap and another try,
\* the last one cut to what remains.
NapOf(p) == Least(wait[p], Budget - waited[p])
MayRetry(p) == waited[p] < Budget

Nap(p) ==
    /\ pc[p] = "reread" /\ Busy /\ MayRetry(p)
    /\ waited' = [waited EXCEPT ![p] = @ + NapOf(p)]
    /\ wait' = [wait EXCEPT ![p] = Least(2 * @, MaxWait)]
    /\ UNCHANGED <<disk, env, pc, cmd, seen, plan, step, history, bounds>>

\* EBUSY with the budget spent: refused, with the table written.
GiveUp(p) ==
    /\ pc[p] = "reread" /\ Busy /\ ~MayRetry(p)
    /\ Report(p, FALSE)
    /\ Finish(p)
    /\ UNCHANGED <<disk, env, planned, bounds>>

\* What a process leaves behind when it stops in the middle of a write: nothing
\* of it, or an entry array half written.
Abandon(p) ==
    \/ UNCHANGED <<cache, acked>>
    \/ /\ pc[p] = "write" /\ WriteOrder[step[p]] \in Arrays
       /\ cache' = [cache EXCEPT ![WriteOrder[step[p]]] = Torn]
       /\ acked' = Nothing

\* A write or the sync reports an I/O error: exit, leaving what was written.
Fail(p) ==
    /\ pc[p] \in {"write", "sync"}
    /\ Abandon(p)
    /\ Finish(p)
    /\ UNCHANGED <<media, env, planned, added, bounds>>

Kill(p) ==
    /\ Running(p)
    /\ Abandon(p)
    /\ Finish(p)
    /\ UNCHANGED <<media, env, planned, added, bounds>>

-----------------------------------------------------------------------------
(* Environment *)

\* Writeback persists the regions in any order.
Writeback(r) ==
    /\ media[r] # cache[r]
    /\ media' = [media EXCEPT ![r] = cache[r]]
    /\ UNCHANGED <<cache, env, pc, local, history, bounds>>

\* Power loss: the page cache is gone, and an array that was being written back
\* may be half old and half new.  Headers and the MBR are single sectors.
Crash ==
    /\ crashes < MaxCrashes
    /\ crashes' = crashes + 1
    /\ \E half \in SUBSET {r \in Arrays : media[r] # cache[r]} :
          media' = [r \in Regions |-> IF r \in half THEN Torn ELSE media[r]]
    /\ cache' = media'
    /\ kernel' = KernelView(media')
    /\ mounted' = FALSE /\ probing' = FALSE
    /\ pc' = [p \in Procs |-> "off"]
    /\ cmd' = [p \in Procs |-> NoCommand]
    /\ seen' = [p \in Procs |-> NothingSeen]
    /\ plan' = [p \in Procs |-> Nothing]
    /\ step' = [p \in Procs |-> 1]
    /\ waited' = [p \in Procs |-> 0]
    /\ wait' = [p \in Procs |-> FirstWait]
    /\ alone' = [p \in Procs |-> FALSE]
    /\ UNCHANGED <<planned, acked, added, commands>>

\* Somebody mounts a partition the kernel knows, or opens one to probe it.
Mount ==
    /\ kernel # {} /\ mounted' = ~mounted
    /\ UNCHANGED <<disk, kernel, probing, pc, local, history, bounds>>

ProbeDevice ==
    /\ kernel # {} /\ probing' = ~probing
    /\ UNCHANGED <<disk, kernel, mounted, pc, local, history, bounds>>

Act(p) ==
    \/ ReadHeader(p) \/ ProbeAgain(p) \/ Plan(p) \/ Refuse(p)
    \/ Write(p) \/ Sync(p) \/ Reread(p) \/ Nap(p) \/ GiveUp(p)

Next ==
    \/ \E p \in Procs, v \in Verbs, f \in BOOLEAN : Open(p, v, f)
    \/ \E p \in Procs : Act(p)
    \/ \E p \in Procs : Fail(p)
    \/ \E p \in Procs : Kill(p)
    \/ \E r \in Regions : Writeback(r)
    \/ Crash
    \/ Mount
    \/ ProbeDevice

\* A process that was started runs; nobody has to start one, to release a
\* partition or to write anything back.
Fairness == \A p \in Procs : WF_vars(Act(p))

Spec == Init /\ [][Next]_vars /\ Fairness

-----------------------------------------------------------------------------
(* Properties *)

\* Type invariant.
Image(d) ==
    /\ DOMAIN d = Regions
    /\ d["mbr"] \in {"none", "dos", "protective"}
    /\ \A r \in Arrays : d[r] = Torn \/ d[r] \in SUBSET Parts
    /\ \A r \in Regions \ (Arrays \cup {"mbr"}) : d[r] \in Table \cup {NoHeader}

TypeOK ==
    /\ Image(cache) /\ Image(media)
    /\ kernel \in SUBSET Parts
    /\ mounted \in BOOLEAN /\ probing \in BOOLEAN
    /\ pc \in [Procs -> {"off", "header", "entries", "write", "sync", "reread"}]
    /\ cmd \in [Procs -> [verb : Verbs \cup {Nothing}, force : BOOLEAN]]
    /\ seen \in [Procs -> [mbr : {"none", "dos", "protective"},
                           hdr : Table \cup {NoHeader}, again : BOOLEAN]]
    /\ plan \in [Procs -> Table \cup {Nothing}]
    /\ \A p \in Procs : pc[p] \in {"write", "sync", "reread"} => plan[p] \in planned
    /\ step \in [Procs -> 1 .. Len(WriteOrder) + 1]
    /\ \A p \in Procs : pc[p] \in {"sync", "reread"} \/ step[p] <= Len(WriteOrder)
    /\ waited \in [Procs -> Nat] /\ wait \in [Procs -> Nat \ {0}]
    /\ alone \in [Procs -> BOOLEAN]
    /\ planned \in SUBSET Table /\ added \in SUBSET Parts
    /\ acked \in [table : Table, visible : BOOLEAN] \cup {Nothing}
    /\ commands \in 0 .. MaxCommands /\ crashes \in 0 .. MaxCrashes

\* "If power is lost midway the disk holds either the old table or an
\* unreadable one": under any writeback order, torn arrays, kills, and two
\* commands at once, what a probe finds after a power loss is the first table,
\* one that some command planned, or damage, and the disk never turns blank.
Durable == INSTANCE TableStore WITH stored <- Probe(media), intents <- planned
OldOrPlannedOrDamaged == Durable!Spec

\* The same of what the next command reads through the page cache: no table
\* that nobody planned, in particular none with the header of one command and
\* the entries of another.
NeverAConfidentLie == Probe(cache) \in Table => Probe(cache) \in planned

\* "Durability before visibility": once a command that ran alone has reported,
\* even to say that the kernel would not re-read, its table is on the medium
\* in full, and stays there through power losses until the next write; and
\* exit 0 means that the kernel shows it.
ReportedIsDurable ==
    acked # Nothing =>
        /\ \A r \in Regions : media[r] = Written(acked.table)[r]
        /\ acked.visible => kernel = acked.table.parts

\* retry_while_busy: "Never sleep past the budget", in any number of naps.
NeverSleepsPastBudget == \A p \in Procs : waited[p] <= Budget

\* Every command ends, though a partition stays mounted or open for ever.
EveryCommandEnds == \A p \in Procs : Running(p) ~> ~Running(p)

\* Another `part` is taken to hold the disk exclusively: then a partition that
\* `add` has reported is in every healthy table afterwards, when nothing but
\* `add` runs.
NoLostUpdate == Probe(cache) \in Table => added \subseteq Probe(cache).parts
=============================================================================
