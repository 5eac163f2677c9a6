---------------------------- MODULE DynamicBoot -----------------------------
(***************************************************************************)
(* Dynamic boot: `mkirf --watch` packs a tree into an archive, and         *)
(* `mkuki --watch` joins the archive and the one kernel of a directory     *)
(* into the image that is booted.  Two processes that know of each other   *)
(* by file events alone; the tree and the kernels change under both while  *)
(* they build, and a supervisor may kill and restart them at any step.     *)
(* A file is the number of its version.  mkirf looks at the tree twice in  *)
(* a build: it judges it, and takes sizes and the order of the hooks from  *)
(* it, and then reads it again to pack it.  Events wait in a channel; only *)
(* whether there is one matters, since a burst is drained as a whole.      *)
(***************************************************************************)
EXTENDS Naturals, FiniteSets

CONSTANTS
    Files,          \* of the tree
    Bad,            \* contents that cannot be built: a bad layout, a cycle of hooks
    Releases, Old,  \* kernels, and the one that is installed at first
    MaxEdits,       \* bound of the model: edits of the tree
    MaxKills,       \* bound of the model: kills of both watchers
    MaxErrors,      \* bound of the model: watch errors
    None

Versions == 0 .. MaxEdits
Contents == [Files -> Versions]
Archive == [judged : Contents, files : Contents]
Part == [release : Releases \cup {None}, state : {"no", "half", "whole"},
         initramfs : Archive \cup {None}]

ASSUME BootAssumption ==
    /\ MaxEdits \in Nat /\ MaxKills \in Nat /\ MaxErrors \in Nat
    /\ IsFiniteSet(Files)
    /\ Bad \subseteq Contents /\ Old \in Releases
    /\ None \notin Releases /\ None \notin Versions
    /\ None \notin Contents /\ None \notin Archive /\ None \notin Part

Tools == {"mkirf", "mkuki"}

VARIABLES
    tree,        \* external: the version of each file
    kernels,     \* external: "no", "half" (being copied) or "whole", per release
    archive,     \* the initramfs that is installed: what its hooks.seq was made
                 \* from and its layout judged by, and the files it packs
    uki,         \* the boot image that is installed
    pc, armed,   \* where each watcher is, and whether it is told of changes
    queue,       \* its channel: "event" and "error"
    seen,        \* of each file, what mkirf's build is judged by
    read,        \* of each file, what mkirf's build has packed
    moved,       \* the files that changed since mkirf's build began
    part,        \* what mkuki's build has read
    untold,      \* history: a file changed since mkirf's build began, and it was not told
    edits, kills, errors

vars == <<tree, kernels, archive, uki, pc, armed, queue, seen, read, moved, part, untold,
          edits, kills, errors>>

Unread == [f \in Files |-> None]
NoPart == [release |-> None, state |-> "no", initramfs |-> None]

Init ==
    /\ tree = [f \in Files |-> 0]
    /\ kernels = [r \in Releases |-> IF r = Old THEN "whole" ELSE "no"]
    /\ archive = None /\ uki = None
    /\ pc = [t \in Tools |-> "off"] /\ armed = [t \in Tools |-> FALSE]
    /\ queue = [t \in Tools |-> {}]
    /\ seen = Unread /\ read = Unread /\ moved = {} /\ part = NoPart
    /\ untold = FALSE
    /\ edits = 0 /\ kills = 0 /\ errors = 0

\* A change of t's inputs, told by e to who listens.
Tell(t, e) == queue' = IF armed[t] THEN [queue EXCEPT ![t] = @ \cup {e}] ELSE queue

-----------------------------------------------------------------------------
(* The loop that both have *)

\* Mutant: mkuki builds before it listens, as mkirf does.
StartUnarmed(t) ==
    /\ pc[t] = "off"
    /\ pc' = [pc EXCEPT ![t] = "build"]
    /\ UNCHANGED <<tree, kernels, archive, uki, armed, queue, seen, read, moved, part, untold,
                   edits, kills, errors>>

\* mkuki listens, then builds; mkirf builds first.
Start(t) ==
    /\ pc[t] = "off"
    /\ pc' = [pc EXCEPT ![t] = "build"]
    /\ armed' = [armed EXCEPT ![t] = (t = "mkuki")]
    /\ UNCHANGED <<tree, kernels, archive, uki, queue, seen, read, moved, part, untold, edits,
                   kills, errors>>

\* mkirf registers its watch once its first build is over.
Arm(t) ==
    /\ pc[t] = "arm"
    /\ pc' = [pc EXCEPT ![t] = "idle"]
    /\ armed' = [armed EXCEPT ![t] = TRUE]
    /\ UNCHANGED <<tree, kernels, archive, uki, queue, seen, read, moved, part, untold, edits,
                   kills, errors>>

\* The first event of a burst.
Recv(t) ==
    /\ pc[t] = "idle" /\ "event" \in queue[t]
    /\ pc' = [pc EXCEPT ![t] = "drain"]
    /\ queue' = [queue EXCEPT ![t] = @ \ {"event"}]
    /\ UNCHANGED <<tree, kernels, archive, uki, armed, seen, read, moved, part, untold, edits,
                   kills, errors>>

\* An error is logged, and nothing is built.
RecvError(t) ==
    /\ pc[t] = "idle" /\ "error" \in queue[t]
    /\ queue' = [queue EXCEPT ![t] = @ \ {"error"}]
    /\ untold' = IF t = "mkirf" THEN "event" \notin queue[t] ELSE untold
    /\ UNCHANGED <<tree, kernels, archive, uki, pc, armed, seen, read, moved, part, edits,
                   kills, errors>>

Drain(t) ==
    /\ pc[t] = "drain" /\ queue[t] # {}
    /\ queue' = [queue EXCEPT ![t] = {}]
    /\ UNCHANGED <<tree, kernels, archive, uki, pc, armed, seen, read, moved, part, untold,
                   edits, kills, errors>>

\* Nothing came for the debounce time.
Quiet(t) ==
    /\ pc[t] = "drain" /\ queue[t] = {}
    /\ pc' = [pc EXCEPT ![t] = "build"]
    /\ untold' = IF t = "mkirf" THEN FALSE ELSE untold
    /\ UNCHANGED <<tree, kernels, archive, uki, armed, queue, seen, read, moved, part, edits,
                   kills, errors>>

\* What follows a build, failed or not.
Built(t) == [pc EXCEPT ![t] = IF armed[t] THEN "idle" ELSE "arm"]

-----------------------------------------------------------------------------
(* mkirf: one build *)

Judged == pc["mkirf"] = "build" /\ \A f \in Files : seen[f] # None
Packed == Judged /\ seen \notin Bad /\ \A f \in Files : read[f] # None

\* The end of a build: nothing of it is kept.
Forget == seen' = Unread /\ read' = Unread /\ moved' = {} /\ pc' = Built("mkirf")

\* Nothing is written yet: the files are looked at one after the other, by
\* validate_layout, the walk and resolve_hooks.
Look(f) ==
    /\ pc["mkirf"] = "build" /\ seen[f] = None
    /\ seen' = [seen EXCEPT ![f] = tree[f]]
    /\ UNCHANGED <<tree, kernels, archive, uki, pc, armed, queue, read, moved, part, untold,
                   edits, kills, errors>>

\* Mutant: the archive is written where it is to be.
ReadInPlace(f) ==
    /\ Judged /\ seen \notin Bad /\ read[f] = None
    /\ read' = [read EXCEPT ![f] = tree[f]]
    /\ archive' = [judged |-> seen, files |-> read']
    /\ Tell("mkuki", "event")
    /\ UNCHANGED <<tree, kernels, uki, pc, armed, seen, moved, part, untold, edits, kills, errors>>

\* The files of a tree that can be built are read again, one after the other,
\* and written to a temporary file in the directory that mkuki watches.
Read(f) ==
    /\ Judged /\ seen \notin Bad /\ read[f] = None
    /\ read' = [read EXCEPT ![f] = tree[f]]
    /\ Tell("mkuki", "event")
    /\ UNCHANGED <<tree, kernels, archive, uki, pc, armed, seen, moved, part, untold, edits, kills,
                   errors>>

\* Mutant: what has come while it was built is taken for built.
InstallFlushes ==
    /\ Packed /\ Forget
    /\ archive' = [judged |-> seen, files |-> read]
    /\ queue' = [queue EXCEPT !["mkirf"] = {},
                              !["mkuki"] = IF armed["mkuki"] THEN @ \cup {"event"} ELSE @]
    /\ UNCHANGED <<tree, kernels, uki, armed, part, untold, edits, kills, errors>>

\* The temporary file is renamed.
Install ==
    /\ Packed /\ Forget
    /\ archive' = [judged |-> seen, files |-> read]
    /\ Tell("mkuki", "event")
    /\ UNCHANGED <<tree, kernels, uki, armed, part, untold, edits, kills, errors>>

\* Mutant: a build that fails removes the archive, not the temporary file.
BuildFailsRemoves ==
    /\ Judged /\ seen \in Bad /\ Forget
    /\ archive' = None
    /\ UNCHANGED <<tree, kernels, uki, armed, queue, part, untold, edits, kills, errors>>

\* What cannot be built fails before anything is written.  It is logged; what
\* is installed stays.
BuildFails ==
    /\ Judged /\ seen \in Bad /\ Forget
    /\ UNCHANGED <<tree, kernels, archive, uki, armed, queue, part, untold, edits, kills, errors>>

\* A file that changed since the build began may have another size than the
\* walk took of it ("file changed during archiving"), or be gone.  The
\* temporary file is removed, if it is there.
ChangeFails(f) ==
    /\ pc["mkirf"] = "build" /\ f \in moved
    /\ IF Judged THEN seen \notin Bad /\ read[f] = None /\ Tell("mkuki", "event")
       ELSE seen[f] = None /\ UNCHANGED queue
    /\ Forget
    /\ UNCHANGED <<tree, kernels, archive, uki, armed, part, untold, edits, kills, errors>>

-----------------------------------------------------------------------------
(* mkuki: one build *)

Candidates == {r \in Releases : kernels[r] # "no"}

\* resolve_kernel: one candidate, neither none nor several.
Resolve ==
    /\ pc["mkuki"] = "build"
    /\ IF \E r \in Releases : Candidates = {r}
       THEN /\ \E r \in Candidates : part' = [NoPart EXCEPT !.release = r]
            /\ pc' = [pc EXCEPT !["mkuki"] = "kernel"]
       ELSE pc' = Built("mkuki") /\ UNCHANGED part
    /\ UNCHANGED <<tree, kernels, archive, uki, armed, queue, seen, read, moved, untold, edits,
                   kills, errors>>

\* The kernel is read as it is, whole or half, if it is still there.
ReadKernel ==
    /\ pc["mkuki"] = "kernel"
    /\ IF kernels[part.release] = "no"
       THEN part' = NoPart /\ pc' = Built("mkuki")
       ELSE /\ part' = [part EXCEPT !.state = kernels[part.release]]
            /\ pc' = [pc EXCEPT !["mkuki"] = "initramfs"]
    /\ UNCHANGED <<tree, kernels, archive, uki, armed, queue, seen, read, moved, untold, edits,
                   kills, errors>>

ReadInitramfs ==
    /\ pc["mkuki"] = "initramfs"
    /\ IF archive = None
       THEN part' = NoPart /\ pc' = Built("mkuki")
       ELSE /\ part' = [part EXCEPT !.initramfs = archive]
            /\ pc' = [pc EXCEPT !["mkuki"] = "persist"]
    /\ UNCHANGED <<tree, kernels, archive, uki, armed, queue, seen, read, moved, untold, edits,
                   kills, errors>>

\* The temporary file is renamed.
Persist ==
    /\ pc["mkuki"] = "persist"
    /\ uki' = part /\ part' = NoPart /\ pc' = Built("mkuki")
    /\ UNCHANGED <<tree, kernels, archive, armed, queue, seen, read, moved, untold, edits,
                   kills, errors>>

-----------------------------------------------------------------------------
(* The world *)

\* External: a file of the tree is edited.  Where the tree cannot be watched,
\* an error is all that mkirf is told.
Edit(f) ==
    /\ edits < MaxEdits /\ edits' = edits + 1
    /\ tree' = [tree EXCEPT ![f] = @ + 1]
    /\ moved' = IF pc["mkirf"] = "build" THEN moved \cup {f} ELSE moved
    /\ \/ Tell("mkirf", "event") /\ UNCHANGED errors
       \/ /\ errors < MaxErrors /\ errors' = errors + 1
          /\ Tell("mkirf", "error")
    /\ untold' = (untold \/ (~armed["mkirf"] /\ pc["mkirf"] \in {"build", "arm"}))
    /\ UNCHANGED <<kernels, archive, uki, pc, armed, seen, read, part, kills>>

\* External: a package puts its kernel there, and takes the other's away.
Copy(r) ==
    /\ \/ kernels[r] = "no" /\ r # Old /\ kernels' = [kernels EXCEPT ![r] = "half"]
       \/ kernels[r] = "half" /\ kernels' = [kernels EXCEPT ![r] = "whole"]
       \/ r = Old /\ kernels' = [kernels EXCEPT ![r] = "no"] /\ kernels[r] # "no"
    /\ Tell("mkuki", "event")
    /\ UNCHANGED <<tree, archive, uki, pc, armed, seen, read, moved, part, untold, edits, kills,
                   errors>>

\* A watcher is killed; Start is its restart.
Kill(t) ==
    /\ pc[t] # "off" /\ kills < MaxKills
    /\ kills' = kills + 1
    /\ pc' = [pc EXCEPT ![t] = "off"] /\ armed' = [armed EXCEPT ![t] = FALSE]
    /\ queue' = [queue EXCEPT ![t] = {}]
    /\ untold' = IF t = "mkirf" THEN FALSE ELSE untold
    /\ IF t = "mkirf" THEN seen' = Unread /\ read' = Unread /\ moved' = {}
       ELSE UNCHANGED <<seen, read, moved>>
    /\ part' = IF t = "mkuki" THEN NoPart ELSE part
    /\ UNCHANGED <<tree, kernels, archive, uki, edits, errors>>

Loop(t) == Start(t) \/ Recv(t) \/ RecvError(t) \/ Drain(t) \/ Quiet(t) \/ Arm(t)
Mkirf ==
    \/ Loop("mkirf") \/ Install \/ BuildFails
    \/ \E f \in Files : Look(f) \/ Read(f) \/ ChangeFails(f)
Mkuki == Loop("mkuki") \/ Resolve \/ ReadKernel \/ ReadInitramfs \/ Persist
World ==
    \/ \E f \in Files : Edit(f)
    \/ \E r \in Releases : Copy(r)
    \/ \E t \in Tools : Kill(t)

Next == Mkirf \/ Mkuki \/ World

Spec == Init /\ [][Next]_vars

\* Both watchers run, and are restarted; nobody has to edit anything.
FairSpec == Spec /\ WF_vars(Mkirf) /\ WF_vars(Mkuki)

-----------------------------------------------------------------------------
(* Properties *)

TypeOK ==
    /\ tree \in Contents
    /\ kernels \in [Releases -> {"no", "half", "whole"}]
    /\ archive \in Archive \cup {None} /\ uki \in Part \cup {None}
    /\ pc \in [Tools -> {"off", "build", "arm", "idle", "drain", "kernel", "initramfs", "persist"}]
    /\ armed \in [Tools -> BOOLEAN] /\ untold \in BOOLEAN
    /\ queue \in [Tools -> SUBSET {"event", "error"}]
    /\ seen \in [Files -> Versions \cup {None}] /\ read \in [Files -> Versions \cup {None}]
    /\ moved \subseteq Files /\ part \in Part
    /\ edits \in 0 .. MaxEdits /\ kills \in 0 .. MaxKills /\ errors \in 0 .. MaxErrors

AtRest(t) == pc[t] = "idle" /\ queue[t] = {}

\* The archive of a tree that holds still.
Of(files) == [judged |-> files, files |-> files]

\* When mkirf waits and no event does, its archive is that of the tree: neither
\* an edit that made a build fail, nor one between what the build was judged by
\* and what it packed, is left behind.  Excepted are a file that changed after
\* mkirf's first build began and before its watch, one it knows of by an error
\* alone, and a tree that cannot be built.
ArchiveIsCurrent == AtRest("mkirf") /\ ~untold /\ tree \notin Bad => archive = Of(tree)

\* When mkuki waits and no event does, the image is that of the kernel and the
\* archive that are there; it listens before it builds, so a change during its
\* start is no exception.
ImageIsCurrent ==
    AtRest("mkuki") /\ archive # None =>
        \A r \in Releases : Candidates = {r} =>
            uki = [release |-> r, state |-> kernels[r], initramfs |-> archive]

\* The files of an archive, as a copy of the tree.
Packs(a) == IF a = None THEN None ELSE a.files
OfTree == INSTANCE Mirror WITH source <- tree, copy <- Packs(archive)

\* The image embeds an archive that mkirf finished, even if mkirf was killed or
\* failed as it wrote: every file, and the hooks.seq of contents that could be
\* built and that are no newer than the files packed.  The files themselves may
\* be such that cannot be built: they are read after they are judged.
EmbedsWholeArchive ==
    uki # None => /\ uki.initramfs \in [judged : Contents \ Bad, files : Contents]
                  /\ OfTree!NoNewer(uki.initramfs.judged, uki.initramfs.files)

\* The archive is a copy of the tree, and the image one of the archive: neither
\* goes back to an older version of a file nor is ahead of what it was made
\* from, across builds that overlap with edits, failed builds and restarts.
OfArchive ==
    INSTANCE Mirror WITH source <- Packs(archive),
                         copy <- IF uki = None THEN None ELSE Packs(uki.initramfs)
FollowsInOrder == OfTree!Spec /\ OfArchive!Spec

\* Once nobody edits, copies or kills any more, the image comes to be that of
\* the tree and the kernel, with ArchiveIsCurrent's exceptions.
BootFollows ==
    <>[](tree \notin Bad /\ ~untold =>
         \A r \in Releases : Candidates = {r} =>
             uki = [release |-> r, state |-> kernels[r], initramfs |-> Of(tree)])
=============================================================================
