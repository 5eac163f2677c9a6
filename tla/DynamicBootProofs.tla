-------------------------- MODULE DynamicBootProofs --------------------------
(***************************************************************************)
(* The safety of DynamicBoot for any files, kernels, edits and kills, by   *)
(* one inductive invariant.                                                *)
(***************************************************************************)
EXTENDS DynamicBoot, FiniteSetTheorems, TLAPS

\* Who is where, who listens, and what is kept between builds.
Shape ==
    /\ \A t \in Tools : /\ armed[t] => pc[t] \notin {"off", "arm"}
                        /\ ~armed[t] => pc[t] \in {"off", "build", "arm"} /\ queue[t] = {}
    /\ pc["mkuki"] \notin {"off", "arm"} => armed["mkuki"]
    /\ pc["mkuki"] # "arm" /\ "error" \notin queue["mkuki"]
    /\ pc["mkirf"] \in {"off", "build", "arm", "idle", "drain"}
    /\ pc["mkirf"] # "build" => seen = Unread /\ read = Unread /\ moved = {}
    /\ pc["mkuki"] \notin {"kernel", "initramfs", "persist"} => part = NoPart
    /\ pc["mkuki"] \in {"kernel", "initramfs", "persist"} => part.release # None
    /\ pc["mkuki"] = "persist" <=> part.initramfs # None

\* What mkirf has seen and read, and then installed, is what is there, or it is
\* told.
Fresh ==
    queue["mkirf"] # {} \/ untold \/
        /\ moved = {}
        /\ pc["mkirf"] = "build" => \A f \in Files : /\ seen[f] \in {None, tree[f]}
                                                   /\ read[f] \in {None, tree[f]}
        /\ pc["mkirf"] \in {"arm", "idle"} => archive = Of(tree) \/ tree \in Bad

\* So it is with mkuki, step by step.
Joined ==
    queue["mkuki"] # {} \/
        /\ pc["mkuki"] \in {"kernel", "initramfs", "persist"} => Candidates = {part.release}
        /\ pc["mkuki"] \in {"initramfs", "persist"} => part.state = kernels[part.release]
        /\ pc["mkuki"] = "persist" => part.initramfs = archive
        /\ pc["mkuki"] = "idle" /\ archive # None =>
              \A r \in Releases : Candidates = {r} =>
                  uki = [release |-> r, state |-> kernels[r], initramfs |-> archive]

\* From the image back to the tree, nothing is newer than what it comes from.
Ordered ==
    /\ part.initramfs # None => archive # None
    /\ uki # None => archive # None /\ uki.initramfs # None
    /\ \A f \in Files :
          /\ seen[f] # None => seen[f] <= tree[f]
          /\ read[f] # None => seen[f] # None /\ seen[f] <= read[f] /\ read[f] <= tree[f]
          /\ archive # None => /\ archive.files[f] <= tree[f]
                               /\ read[f] # None => archive.files[f] <= read[f]
          /\ part.initramfs # None => part.initramfs.files[f] <= archive.files[f]
          /\ uki # None => /\ uki.initramfs.files[f] <= archive.files[f]
                           /\ part.initramfs # None =>
                                 uki.initramfs.files[f] <= part.initramfs.files[f]

\* It was judged buildable, by versions no newer than those it packs.
Finished(a) ==
    /\ a \in [judged : Contents \ Bad, files : Contents]
    /\ \A f \in Files : a.judged[f] <= a.files[f]

Buildable ==
    /\ archive # None => Finished(archive)
    /\ part.initramfs # None => Finished(part.initramfs)
    /\ uki # None => Finished(uki.initramfs)

\* No file has more versions than there were edits.
Counted == \A f \in Files : tree[f] <= edits

Inv == TypeOK /\ Counted /\ Shape /\ Fresh /\ Joined /\ Ordered /\ Buildable

\* A step of each of the two copies.
InOrder ==
    /\ [OfTree!Next]_<<tree, Packs(archive)>>
    /\ [OfArchive!Next]_<<Packs(archive), IF uki = None THEN None ELSE Packs(uki.initramfs)>>

-----------------------------------------------------------------------------
(* One lemma per action *)

LEMMA StartStep == ASSUME Inv, NEW t \in Tools, Start(t) PROVE Inv' /\ InOrder
<1>1. TypeOK' BY DEF Inv, TypeOK, Start
<1>2. Shape' BY DEF Inv, Shape, Start, TypeOK, Tools
<1>3. Fresh' BY DEF Inv, Fresh, Start, Shape, Unread
<1>4. Joined' BY DEF Inv, Joined, Start, Candidates
<1>5. Ordered' BY DEF Inv, Ordered, Start
<1>6. Buildable' BY DEF Inv, Buildable, Start
<1>7. InOrder BY DEF InOrder, Start, Packs
<1>8. Counted' BY DEF Inv, Counted, Start
<1> QED BY <1>1, <1>2, <1>3, <1>4, <1>5, <1>6, <1>7, <1>8 DEF Inv

LEMMA ArmStep == ASSUME Inv, NEW t \in Tools, Arm(t) PROVE Inv' /\ InOrder
<1>1. TypeOK' BY DEF Inv, TypeOK, Arm
<1>2. Shape' BY DEF Inv, Shape, Arm, TypeOK
<1>3. Fresh' BY DEF Inv, Fresh, Arm
<1>4. Joined' BY DEF Inv, Joined, Arm, Candidates, Shape
<1>5. Ordered' BY DEF Inv, Ordered, Arm
<1>6. Buildable' BY DEF Inv, Buildable, Arm
<1>7. InOrder BY DEF InOrder, Arm, Packs
<1>8. Counted' BY DEF Inv, Counted, Arm
<1> QED BY <1>1, <1>2, <1>3, <1>4, <1>5, <1>6, <1>7, <1>8 DEF Inv

LEMMA RecvStep == ASSUME Inv, NEW t \in Tools, Recv(t) PROVE Inv' /\ InOrder
<1>1. TypeOK' BY DEF Inv, TypeOK, Recv
<1>2. Shape' BY DEF Inv, Shape, Recv
<1>3. Fresh' BY DEF Inv, Fresh, Recv, TypeOK, Shape
<1>4. Joined' BY DEF Inv, Joined, Recv, Candidates, TypeOK
<1>5. Ordered' BY DEF Inv, Ordered, Recv
<1>6. Buildable' BY DEF Inv, Buildable, Recv
<1>7. InOrder BY DEF InOrder, Recv, Packs
<1>8. Counted' BY DEF Inv, Counted, Recv
<1> QED BY <1>1, <1>2, <1>3, <1>4, <1>5, <1>6, <1>7, <1>8 DEF Inv

LEMMA RecvErrorStep == ASSUME Inv, NEW t \in Tools, RecvError(t) PROVE Inv' /\ InOrder
<1>1. TypeOK' BY DEF Inv, TypeOK, RecvError
<1>2. Shape' BY DEF Inv, Shape, RecvError
<1>3. Fresh' BY DEF Inv, Fresh, RecvError, TypeOK, Tools
<1>4. Joined' BY DEF Inv, Joined, RecvError, Candidates, Shape
<1>5. Ordered' BY DEF Inv, Ordered, RecvError
<1>6. Buildable' BY DEF Inv, Buildable, RecvError
<1>7. InOrder BY DEF InOrder, RecvError, Packs
<1>8. Counted' BY DEF Inv, Counted, RecvError
<1> QED BY <1>1, <1>2, <1>3, <1>4, <1>5, <1>6, <1>7, <1>8 DEF Inv

LEMMA DrainStep == ASSUME Inv, NEW t \in Tools, Drain(t) PROVE Inv' /\ InOrder
<1>1. TypeOK' BY DEF Inv, TypeOK, Drain
<1>2. Shape' BY DEF Inv, Shape, Drain
<1>3. Fresh' BY DEF Inv, Fresh, Drain, Shape
<1>4. Joined' BY DEF Inv, Joined, Drain, Candidates
<1>5. Ordered' BY DEF Inv, Ordered, Drain
<1>6. Buildable' BY DEF Inv, Buildable, Drain
<1>7. InOrder BY DEF InOrder, Drain, Packs
<1>8. Counted' BY DEF Inv, Counted, Drain
<1> QED BY <1>1, <1>2, <1>3, <1>4, <1>5, <1>6, <1>7, <1>8 DEF Inv

LEMMA QuietStep == ASSUME Inv, NEW t \in Tools, Quiet(t) PROVE Inv' /\ InOrder
<1>1. TypeOK' BY DEF Inv, TypeOK, Quiet
<1>2. Shape' BY DEF Inv, Shape, Quiet
<1>3. Fresh' BY DEF Inv, Fresh, Quiet, Shape, Unread
<1>4. Joined' BY DEF Inv, Joined, Quiet, Candidates
<1>5. Ordered' BY DEF Inv, Ordered, Quiet
<1>6. Buildable' BY DEF Inv, Buildable, Quiet
<1>7. InOrder BY DEF InOrder, Quiet, Packs
<1>8. Counted' BY DEF Inv, Counted, Quiet
<1> QED BY <1>1, <1>2, <1>3, <1>4, <1>5, <1>6, <1>7, <1>8 DEF Inv

LEMMA LookStep == ASSUME Inv, NEW f \in Files, Look(f) PROVE Inv' /\ InOrder
<1>1. TypeOK' BY DEF Inv, TypeOK, Look, Contents
<1>2. Shape' BY DEF Inv, Shape, Look
<1>3. Fresh' BY DEF Inv, Fresh, Look, TypeOK
<1>4. Joined' BY DEF Inv, Joined, Look, Candidates
<1>5. Ordered' BY DEF Inv, Ordered, Look, TypeOK, Contents, Versions
<1>6. Buildable' BY DEF Inv, Buildable, Look
<1>7. InOrder BY DEF InOrder, Look, Packs
<1>8. Counted' BY DEF Inv, Counted, Look
<1> QED BY <1>1, <1>2, <1>3, <1>4, <1>5, <1>6, <1>7, <1>8 DEF Inv

LEMMA ReadStep == ASSUME Inv, NEW f \in Files, Read(f) PROVE Inv' /\ InOrder
<1>1. TypeOK' BY DEF Inv, TypeOK, Read, Tell, Contents
<1>2. Shape' BY DEF Inv, Shape, Read, Judged, Tell
<1>3. Fresh' BY DEF Inv, Fresh, Read, Judged, Tell, TypeOK
<1>4. Joined' BY DEF Inv, Joined, Read, Tell, TypeOK, Shape, Tools
<1>5. Ordered' BY DEF Inv, Ordered, Read, Judged, TypeOK, Contents, Versions
<1>6. Buildable' BY DEF Inv, Buildable, Read
<1>7. InOrder BY DEF InOrder, Read, Packs
<1>8. Counted' BY DEF Inv, Counted, Read
<1> QED BY <1>1, <1>2, <1>3, <1>4, <1>5, <1>6, <1>7, <1>8 DEF Inv

LEMMA InstallStep == ASSUME Inv, Install PROVE Inv' /\ InOrder
<1>a. /\ pc["mkirf"] = "build" /\ seen \in Contents \ Bad /\ read \in Contents
      /\ \A f \in Files : /\ seen[f] # None /\ seen[f] <= read[f]
                           /\ read[f] # None /\ read[f] <= tree[f]
  BY DEF Inv, Install, Packed, Judged, Ordered, TypeOK, Contents
<1>b. /\ archive' = [judged |-> seen, files |-> read] /\ archive' \in Archive
      /\ archive' # None
  BY <1>a, BootAssumption DEF Install, Archive
<1>c. /\ seen' = Unread /\ read' = Unread /\ moved' = {} /\ pc' = Built("mkirf")
      /\ UNCHANGED <<tree, kernels, uki, armed, part, untold, edits, kills, errors>>
  BY DEF Install, Forget
<1>1. TypeOK' BY <1>b, <1>c DEF Inv, TypeOK, Install, Built, Tell, Unread
<1>2. Shape' BY <1>a, <1>c DEF Inv, Shape, Install, Built, Tell, TypeOK, Tools
<1>3. Fresh'
  <2>1. CASE queue["mkirf"] # {} \/ untold
    BY <1>c, <2>1 DEF Install, Fresh, Tell, Inv, TypeOK, Tools
  <2>2. CASE ~(queue["mkirf"] # {} \/ untold)
    <3>1. seen = tree /\ read = tree
      BY <1>a, <2>2 DEF Inv, Fresh, TypeOK, Contents
    <3>2. archive' = Of(tree') BY <1>b, <1>c, <3>1 DEF Of
    <3>3. pc'["mkirf"] # "build" BY <1>c DEF Inv, TypeOK, Built, Tools
    <3> QED BY <1>c, <3>2, <3>3 DEF Fresh
  <2> QED BY <2>1, <2>2
<1>4. Joined' BY <1>c DEF Inv, Joined, Install, Built, Tell, TypeOK, Shape, Tools
<1>5. Ordered'
  <2>1. \A f \in Files : archive # None => archive.files[f] <= read[f]
    BY <1>a DEF Inv, Ordered
  <2>2. \A f \in Files : /\ part.initramfs # None => part.initramfs.files[f] <= archive.files[f]
                         /\ uki # None => uki.initramfs.files[f] <= archive.files[f]
    BY DEF Inv, Ordered
  <2>3. /\ archive # None => archive.files \in Contents
        /\ part.initramfs # None => archive # None /\ part.initramfs.files \in Contents
        /\ uki # None => archive # None /\ uki.initramfs.files \in Contents
    BY DEF Inv, Buildable, Finished, Ordered
  <2>4. \A f \in Files :
           /\ part.initramfs # None => part.initramfs.files[f] <= read[f]
           /\ uki # None => uki.initramfs.files[f] <= read[f]
    BY <1>a, <2>1, <2>2, <2>3 DEF Contents, Versions
  <2> QED BY <1>a, <1>b, <1>c, <2>4 DEF Inv, Ordered, Unread
<1>6. Buildable' BY <1>a, <1>b, <1>c DEF Inv, Buildable, Finished
<1>7. InOrder
  <2>1. /\ Packs(archive)' = read /\ read # None /\ tree # None
        /\ archive # None => \A f \in Files : Packs(archive)[f] <= read[f]
    BY <1>a, <1>b, BootAssumption DEF Inv, Ordered, Packs, TypeOK
  <2>2. OfTree!Publish
    BY <1>a, <1>c, <2>1 DEF OfTree!Publish, OfTree!NoNewer, Packs
  <2>3. OfArchive!Change
    BY <1>c, <2>1 DEF OfArchive!Change, OfArchive!NoNewer, Packs
  <2> QED BY <2>2, <2>3 DEF InOrder, OfTree!Next, OfArchive!Next
<1>8. Counted' BY <1>c DEF Inv, Counted
<1> QED BY <1>1, <1>2, <1>3, <1>4, <1>5, <1>6, <1>7, <1>8 DEF Inv

LEMMA BuildFailsStep == ASSUME Inv, BuildFails PROVE Inv' /\ InOrder
<1>a. /\ pc["mkirf"] = "build" /\ queue' = queue
      /\ seen' = Unread /\ read' = Unread /\ moved' = {} /\ pc' = Built("mkirf")
      /\ UNCHANGED <<tree, kernels, archive, uki, armed, part, untold, edits, kills, errors>>
  BY DEF BuildFails, Judged, Forget
<1>1. TypeOK' BY <1>a DEF Inv, TypeOK, Built, Unread
<1>2. Shape' BY <1>a DEF Inv, Shape, Built, TypeOK, Tools
<1>3. Fresh'
  <2>1. CASE queue["mkirf"] # {} \/ untold BY <1>a, <2>1 DEF Fresh
  <2>2. CASE ~(queue["mkirf"] # {} \/ untold)
    <3>1. seen = tree /\ seen \in Bad
      BY <1>a, <2>2 DEF Inv, Fresh, TypeOK, Contents, BuildFails, Judged
    <3>2. pc'["mkirf"] # "build" BY <1>a DEF Inv, TypeOK, Built, Tools
    <3> QED BY <1>a, <3>1, <3>2 DEF Fresh
  <2> QED BY <2>1, <2>2
<1>4. Joined' BY <1>a DEF Inv, Joined, Built, Candidates, TypeOK, Tools
<1>5. Ordered' BY <1>a DEF Inv, Ordered, Unread
<1>6. Buildable' BY <1>a DEF Inv, Buildable
<1>7. InOrder BY <1>a DEF InOrder, Packs
<1>8. Counted' BY <1>a DEF Inv, Counted
<1> QED BY <1>1, <1>2, <1>3, <1>4, <1>5, <1>6, <1>7, <1>8 DEF Inv

LEMMA ChangeFailsStep == ASSUME Inv, NEW f \in Files, ChangeFails(f) PROVE Inv' /\ InOrder
<1>a. /\ pc["mkirf"] = "build" /\ (queue' = queue \/ Tell("mkuki", "event"))
      /\ seen' = Unread /\ read' = Unread /\ moved' = {} /\ pc' = Built("mkirf")
      /\ UNCHANGED <<tree, kernels, archive, uki, armed, part, untold, edits, kills, errors>>
  BY DEF ChangeFails, Forget
<1>1. TypeOK'
  <2>1. queue' \in [Tools -> SUBSET {"event", "error"}] BY <1>a DEF Inv, TypeOK, Tell
  <2> QED BY <1>a, <2>1 DEF Inv, TypeOK, Built, Unread
<1>2. Shape' BY <1>a DEF Inv, Shape, Built, Tell, TypeOK, Tools
<1>3. Fresh'
  <2>1. queue["mkirf"] # {} \/ untold BY DEF Inv, Fresh, ChangeFails
  <2>2. queue'["mkirf"] = queue["mkirf"] BY <1>a DEF Tell, Inv, TypeOK, Tools
  <2> QED BY <1>a, <2>1, <2>2 DEF Fresh
<1>4. Joined' BY <1>a DEF Inv, Joined, Built, Candidates, Tell, TypeOK, Shape, Tools
<1>5. Ordered' BY <1>a DEF Inv, Ordered, Unread
<1>6. Buildable' BY <1>a DEF Inv, Buildable
<1>7. InOrder BY <1>a DEF InOrder, Packs
<1>8. Counted' BY <1>a DEF Inv, Counted
<1> QED BY <1>1, <1>2, <1>3, <1>4, <1>5, <1>6, <1>7, <1>8 DEF Inv

LEMMA ResolveStep == ASSUME Inv, Resolve PROVE Inv' /\ InOrder
<1>1. TypeOK' BY DEF Inv, TypeOK, Resolve, Built, Shape, Part
<1>2. Shape' BY BootAssumption DEF Inv, Shape, Resolve, Built, TypeOK, Part, Tools
<1>3. Fresh' BY DEF Inv, Fresh, Resolve, Built, TypeOK, Tools
<1>4. Joined' BY DEF Inv, Joined, Resolve, Built, Candidates, TypeOK, Shape, Part
<1>5. Ordered' BY DEF Inv, Ordered, Resolve, TypeOK, Shape, Part
<1>6. Buildable' BY DEF Inv, Buildable, Resolve, TypeOK, Shape, Part
<1>7. InOrder BY DEF InOrder, Resolve, Packs
<1>8. Counted' BY DEF Inv, Counted, Resolve
<1> QED BY <1>1, <1>2, <1>3, <1>4, <1>5, <1>6, <1>7, <1>8 DEF Inv

LEMMA ReadKernelStep == ASSUME Inv, ReadKernel PROVE Inv' /\ InOrder
<1>1. TypeOK' BY DEF Inv, TypeOK, ReadKernel, Built, Shape, NoPart, Part
<1>2. Shape' BY DEF Inv, Shape, ReadKernel, Built, TypeOK, NoPart, Part, Tools
<1>3. Fresh' BY DEF Inv, Fresh, ReadKernel, Built, TypeOK, Tools
<1>4. Joined' BY DEF Inv, Joined, ReadKernel, Candidates, TypeOK, Part
<1>5. Ordered' BY DEF Inv, Ordered, ReadKernel, TypeOK, NoPart, Part
<1>6. Buildable' BY DEF Inv, Buildable, ReadKernel, TypeOK, NoPart, Part
<1>7. InOrder BY DEF InOrder, ReadKernel, Packs
<1>8. Counted' BY DEF Inv, Counted, ReadKernel
<1> QED BY <1>1, <1>2, <1>3, <1>4, <1>5, <1>6, <1>7, <1>8 DEF Inv

LEMMA ReadInitramfsStep == ASSUME Inv, ReadInitramfs PROVE Inv' /\ InOrder
<1>1. TypeOK' BY DEF Inv, TypeOK, ReadInitramfs, Built, NoPart, Part
<1>2. Shape' BY DEF Inv, Shape, ReadInitramfs, Built, TypeOK, NoPart, Part, Tools
<1>3. Fresh' BY DEF Inv, Fresh, ReadInitramfs, Built, TypeOK, Tools
<1>4. Joined' BY DEF Inv, Joined, ReadInitramfs, Built, Candidates, TypeOK, Part, Tools
<1>5. Ordered'
  <2>1. archive # None => \A f \in Files : archive.files[f] \in Nat
    BY DEF Inv, Buildable, Finished, Contents, Versions
  <2>2. /\ part'.initramfs # None => archive # None /\ part'.initramfs = archive
        /\ UNCHANGED <<tree, seen, read, archive, uki>>
    BY DEF Inv, TypeOK, ReadInitramfs, NoPart, Part
  <2> QED BY <2>1, <2>2 DEF Inv, Ordered
<1>6. Buildable' BY DEF Inv, Buildable, ReadInitramfs, TypeOK, NoPart, Part
<1>7. InOrder BY DEF InOrder, ReadInitramfs, Packs
<1>8. Counted' BY DEF Inv, Counted, ReadInitramfs
<1> QED BY <1>1, <1>2, <1>3, <1>4, <1>5, <1>6, <1>7, <1>8 DEF Inv

LEMMA PersistStep == ASSUME Inv, Persist PROVE Inv' /\ InOrder
<1>1. TypeOK' BY DEF Inv, TypeOK, Persist, Built, NoPart, Part
<1>2. Shape' BY DEF Inv, Shape, Persist, Built, TypeOK, NoPart, Tools
<1>3. Fresh' BY DEF Inv, Fresh, Persist, Built
<1>4. Joined' BY DEF Inv, Joined, Persist, Built, Candidates, TypeOK, Part, Tools
<1>5. Ordered' BY DEF Inv, Ordered, Persist, Shape, NoPart
<1>6. Buildable' BY DEF Inv, Buildable, Persist, Shape, NoPart
<1>7. InOrder
  <2>1. uki' = part /\ uki' # None /\ tree' = tree /\ archive' = archive
    BY BootAssumption DEF Inv, TypeOK, Persist
  <2>2. /\ part.initramfs # None /\ archive # None
        /\ archive.files # None /\ part.initramfs.files # None
        /\ \A f \in Files : /\ part.initramfs.files[f] <= archive.files[f]
                            /\ uki # None => uki.initramfs.files[f] <= part.initramfs.files[f]
    BY BootAssumption DEF Inv, Shape, Persist, Ordered, Buildable, Finished
  <2>3. uki # None => uki.initramfs # None BY DEF Inv, Ordered
  <2>4. OfArchive!Publish BY <2>1, <2>2, <2>3 DEF OfArchive!Publish, OfArchive!NoNewer, Packs
  <2> QED BY <2>1, <2>4 DEF InOrder, OfArchive!Next, Packs
<1>8. Counted' BY DEF Inv, Counted, Persist
<1> QED BY <1>1, <1>2, <1>3, <1>4, <1>5, <1>6, <1>7, <1>8 DEF Inv

LEMMA EditStep == ASSUME Inv, NEW f \in Files, Edit(f) PROVE Inv' /\ InOrder
<1>c. Tell("mkirf", "event") \/ Tell("mkirf", "error")
  BY DEF Edit
<1>a. \/ queue'["mkirf"] # {}
      \/ ~armed["mkirf"] /\ (untold' \/ pc["mkirf"] = "off")
  <2>1. CASE armed["mkirf"] BY <1>c, <2>1 DEF Inv, TypeOK, Tools, Tell
  <2>2. CASE ~armed["mkirf"] BY <2>2 DEF Edit, Inv, Shape, Tools
  <2> QED BY <2>1, <2>2
<1>b. \A g \in Files : g # f => tree'[g] = tree[g]
  BY DEF Inv, TypeOK, Contents, Edit
<1>1. TypeOK'
  <2>1. edits' \in 0 .. MaxEdits /\ errors' \in 0 .. MaxErrors
    BY BootAssumption DEF Inv, TypeOK, Edit
  <2>2. tree' \in Contents /\ moved' \subseteq Files
    BY BootAssumption DEF Inv, TypeOK, Counted, Edit, Contents, Versions
  <2> QED BY <2>1, <2>2 DEF Inv, TypeOK, Edit, Tell
<1>2. Shape' BY DEF Inv, Shape, Edit, Tell, TypeOK, Tools
<1>3. Fresh' BY <1>a DEF Inv, Fresh, Edit, TypeOK, Shape, Tools
<1>4. Joined' BY DEF Inv, Joined, Edit, Tell, Candidates, TypeOK, Tools
<1>5. Ordered'
  <2>1. \A g \in Files : tree[g] \in Nat /\ tree'[g] \in Nat /\ tree[g] <= tree'[g]
    BY <1>b DEF Inv, TypeOK, Contents, Versions, Edit
  <2>2. \A g \in Files : /\ seen[g] # None => seen[g] \in Nat
                         /\ read[g] # None => read[g] \in Nat
                         /\ archive # None => archive.files[g] \in Nat
    BY DEF Inv, TypeOK, Buildable, Finished, Contents, Versions
  <2> QED BY <2>1, <2>2 DEF Inv, Ordered, Edit
<1>6. Buildable' BY DEF Inv, Buildable, Edit
<1>7. InOrder
  <2>1. OfTree!Change
    <3>1. tree' # None BY <1>1, BootAssumption DEF TypeOK
    <3>2. \A g \in Files : tree[g] <= tree'[g]
      BY <1>b DEF Inv, TypeOK, Contents, Versions, Edit
    <3> QED BY <3>1, <3>2 DEF Edit, OfTree!Change, OfTree!NoNewer, Packs
  <2> QED BY <2>1 DEF InOrder, Edit, OfTree!Next, Packs
<1>8. Counted'
  <2>1. \A g \in Files : tree'[g] = IF g = f THEN tree[g] + 1 ELSE tree[g]
    BY <1>b DEF Edit, Inv, TypeOK, Contents
  <2> QED BY <2>1 DEF Edit, Inv, Counted, TypeOK, Contents, Versions
<1> QED BY <1>1, <1>2, <1>3, <1>4, <1>5, <1>6, <1>7, <1>8 DEF Inv

LEMMA CopyStep == ASSUME Inv, NEW r \in Releases, Copy(r) PROVE Inv' /\ InOrder
<1>1. TypeOK' BY DEF Inv, TypeOK, Copy, Tell
<1>2. Shape' BY DEF Inv, Shape, Copy, Tell
<1>3. Fresh' BY DEF Inv, Fresh, Copy, Tell
<1>4. Joined' BY DEF Inv, Joined, Copy, Tell, TypeOK, Shape, Tools
<1>5. Ordered' BY DEF Inv, Ordered, Copy
<1>6. Buildable' BY DEF Inv, Buildable, Copy
<1>7. InOrder BY DEF InOrder, Copy, Packs
<1>8. Counted' BY DEF Inv, Counted, Copy
<1> QED BY <1>1, <1>2, <1>3, <1>4, <1>5, <1>6, <1>7, <1>8 DEF Inv

LEMMA KillStep == ASSUME Inv, NEW t \in Tools, Kill(t) PROVE Inv' /\ InOrder
<1>a. /\ seen' \in [Files -> Versions \cup {None}] /\ moved' \subseteq Files
      /\ read' \in [Files -> Versions \cup {None}] /\ part' \in Part
      /\ untold' \in BOOLEAN /\ kills' \in 0 .. MaxKills
  <2>1. Unread \in [Files -> Versions \cup {None}] BY DEF Unread
  <2>2. NoPart \in Part BY DEF NoPart, Part
  <2>3. CASE t = "mkirf" BY <2>1, <2>3, BootAssumption DEF Inv, TypeOK, Kill
  <2>4. CASE t # "mkirf" BY <2>2, <2>4, BootAssumption DEF Inv, TypeOK, Kill
  <2> QED BY <2>3, <2>4
<1>b. /\ pc' \in [Tools -> {"off", "build", "arm", "idle", "drain",
                             "kernel", "initramfs", "persist"}]
      /\ armed' \in [Tools -> BOOLEAN]
      /\ queue' \in [Tools -> SUBSET {"event", "error"}]
  BY DEF Inv, TypeOK, Kill
<1>1. TypeOK' BY <1>a DEF Inv, TypeOK, Kill
<1>2. Shape' BY DEF Inv, Shape, Kill, TypeOK, NoPart
<1>3. Fresh' BY DEF Inv, Fresh, Kill, TypeOK
<1>4. Joined' BY DEF Inv, Joined, Kill, Candidates, TypeOK
<1>5. Ordered' BY DEF Inv, Ordered, Kill, Unread, NoPart
<1>6. Buildable' BY DEF Inv, Buildable, Kill, NoPart
<1>7. InOrder BY DEF InOrder, Kill, Packs
<1>8. Counted' BY DEF Inv, Counted, Kill
<1> QED BY <1>1, <1>2, <1>3, <1>4, <1>5, <1>6, <1>7, <1>8 DEF Inv

LEMMA StutterStep == ASSUME Inv, UNCHANGED vars PROVE Inv' /\ InOrder
<1>1. TypeOK' /\ Counted' /\ Shape' /\ Buildable'
  BY DEF Inv, TypeOK, Counted, Shape, Buildable, vars
<1>2. Fresh' /\ Joined' BY DEF Inv, Fresh, Joined, Candidates, vars
<1>3. Ordered' BY DEF Inv, Ordered, vars
<1>4. InOrder BY DEF InOrder, vars, Packs
<1> QED BY <1>1, <1>2, <1>3, <1>4 DEF Inv

LEMMA InvInit == Init => Inv
<1> SUFFICES ASSUME Init PROVE Inv OBVIOUS
<1>1. TypeOK
  <2>1. tree \in Contents BY BootAssumption DEF Init, Contents, Versions
  <2>2. seen \in [Files -> Versions \cup {None}] /\ read \in [Files -> Versions \cup {None}]
    BY DEF Init, Unread
  <2>3. part \in Part BY DEF Init, NoPart, Part
  <2>4. edits \in 0 .. MaxEdits /\ kills \in 0 .. MaxKills /\ errors \in 0 .. MaxErrors
    BY BootAssumption DEF Init
  <2> QED BY <2>1, <2>2, <2>3, <2>4 DEF Init, TypeOK
<1>2. Counted /\ Shape /\ Fresh /\ Joined /\ Ordered /\ Buildable
  BY DEF Init, Counted, Shape, Fresh, Joined, Ordered, Buildable, Unread, NoPart, Tools
<1> QED BY <1>1, <1>2 DEF Inv

LEMMA InvNext == Inv /\ [Next]_vars => Inv' /\ InOrder
<1> SUFFICES ASSUME Inv, [Next]_vars PROVE Inv' /\ InOrder OBVIOUS
<1>1. CASE \E t \in Tools : Loop(t)
  BY <1>1, StartStep, ArmStep, RecvStep, RecvErrorStep, DrainStep, QuietStep DEF Loop
<1>2. CASE Install \/ BuildFails \/ \E f \in Files : Look(f) \/ Read(f) \/ ChangeFails(f)
  BY <1>2, InstallStep, BuildFailsStep, LookStep, ReadStep, ChangeFailsStep
<1>3. CASE Resolve \/ ReadKernel \/ ReadInitramfs \/ Persist
  BY <1>3, ResolveStep, ReadKernelStep, ReadInitramfsStep, PersistStep
<1>4. CASE World BY <1>4, EditStep, CopyStep, KillStep DEF World
<1>5. CASE UNCHANGED vars BY <1>5, StutterStep
<1> QED BY <1>1, <1>2, <1>3, <1>4, <1>5 DEF Next, Mkirf, Mkuki, Tools

-----------------------------------------------------------------------------
(* The theorems *)

\* Every state of the two watchers satisfies the invariant.
THEOREM InvIsInvariant == Spec => []Inv
<1>1. Inv /\ [Next]_vars => Inv' BY InvNext
<1> QED BY <1>1, InvInit, PTL DEF Spec

\* Every state is well typed.
THEOREM TypeCorrect == Spec => []TypeOK
BY InvIsInvariant, PTL DEF Inv

\* When mkirf waits and no event does, its archive is that of the tree it was
\* told of: of one moment, though a build judges the tree at one time and packs
\* it at another, and fails when a file changes in between.
THEOREM ArchiveStaysCurrent == Spec => []ArchiveIsCurrent
<1>1. Inv => ArchiveIsCurrent BY DEF Inv, Fresh, ArchiveIsCurrent, AtRest
<1> QED BY <1>1, InvIsInvariant, PTL

\* When mkuki waits and no event does, the image is that of the archive and the
\* kernel that are there.
THEOREM ImageStaysCurrent == Spec => []ImageIsCurrent
<1>1. Inv => ImageIsCurrent BY DEF Inv, Joined, ImageIsCurrent, AtRest
<1> QED BY <1>1, InvIsInvariant, PTL

\* Every image embeds an archive that was finished: every file, under the order
\* of hooks of contents that could be built and were no newer.
THEOREM EmbedsWhole == Spec => []EmbedsWholeArchive
<1>1. Inv => EmbedsWholeArchive
  <2> SUFFICES ASSUME Inv, uki # None
               PROVE  /\ uki.initramfs \in [judged : Contents \ Bad, files : Contents]
                      /\ OfTree!NoNewer(uki.initramfs.judged, uki.initramfs.files)
    BY DEF EmbedsWholeArchive
  <2>1. Finished(uki.initramfs) BY DEF Inv, Buildable
  <2>2. uki.initramfs.files # None BY <2>1, BootAssumption DEF Finished
  <2> QED BY <2>1, <2>2 DEF Finished, OfTree!NoNewer
<1> QED BY <1>1, InvIsInvariant, PTL

\* The archive is a copy that follows the tree, and the image one that follows
\* the archive: no version of a file comes after a newer one, nor before its
\* time.
THEOREM CopiesFollow == Spec => FollowsInOrder
<1>1. Init => OfTree!Init /\ OfArchive!Init
  BY DEF Init, OfTree!Init, OfArchive!Init, Packs
<1>2. Inv /\ [Next]_vars
        => /\ [OfTree!Next]_<<tree, Packs(archive)>>
           /\ [OfArchive!Next]_<<Packs(archive),
                                IF uki = None THEN None ELSE Packs(uki.initramfs)>>
  BY InvNext DEF InOrder
<1> QED BY <1>1, <1>2, InvIsInvariant, PTL DEF Spec, FollowsInOrder, OfTree!Spec, OfArchive!Spec

-----------------------------------------------------------------------------
(* What is left to do when nobody edits, copies or kills any more *)

Waiting(t, event) ==
    (IF "event" \in queue[t] THEN event ELSE 0) + (IF "error" \in queue[t] THEN 1 ELSE 0)

Left(looked) == {f \in Files : looked[f] = None}

\* The steps that mkirf can still make: a build looks at every file that is
\* left, reads it and installs, and the first one is followed by a watch; an
\* event makes for a burst and a build, an error for a message.
MkirfWork ==
    Waiting("mkirf", 2 * Cardinality(Files) + 4) +
        IF pc["mkirf"] = "idle" THEN 0
        ELSE IF pc["mkirf"] = "arm" THEN 1
        ELSE IF pc["mkirf"] = "build" THEN Cardinality(Left(seen)) + Cardinality(Left(read)) + 2
        ELSE 2 * Cardinality(Files) + 3

\* And those of mkuki, whose builds have four steps.
MkukiWork ==
    Waiting("mkuki", 6) +
        IF pc["mkuki"] = "idle" THEN 0
        ELSE IF pc["mkuki"] = "persist" THEN 1
        ELSE IF pc["mkuki"] = "initramfs" THEN 2
        ELSE IF pc["mkuki"] = "kernel" THEN 3
        ELSE IF pc["mkuki"] = "build" THEN 4
        ELSE 5

\* A step of a watcher is one less: mkirf may give mkuki work, but nothing that
\* mkuki does gives mkirf any.
WorkLessens ==
    /\ Mkirf => MkirfWork' < MkirfWork
    /\ Mkuki => MkirfWork' = MkirfWork /\ MkukiWork' < MkukiWork

\* And when there is none left, the image is that of the tree and the kernel.
NoWorkLeft ==
    /\ MkirfWork \in Nat /\ MkukiWork \in Nat
    /\ MkirfWork = 0 <=> AtRest("mkirf")
    /\ MkukiWork = 0 <=> AtRest("mkuki")
    /\ MkirfWork = 0 /\ MkukiWork = 0 /\ ~untold /\ tree \notin Bad =>
          \A r \in Releases : Candidates = {r} =>
              uki = [release |-> r, state |-> kernels[r], initramfs |-> Of(tree)]

LEMMA FilesLeft ==
    /\ Cardinality(Files) \in Nat
    /\ \A looked \in {seen, read} :
          /\ Cardinality(Left(looked)) \in Nat
          /\ Cardinality(Left(looked)) <= Cardinality(Files)
          /\ looked = Unread => Cardinality(Left(looked)) = Cardinality(Files)
<1>1. IsFiniteSet(Files) /\ \A looked \in {seen, read} : Left(looked) \in SUBSET Files
  BY BootAssumption DEF Left
<1>2. \A looked \in {seen, read} : looked = Unread => Left(looked) = Files
  BY DEF Left, Unread
<1> QED BY <1>1, <1>2, FS_CardinalityType, FS_Subset

LEMMA NoneLeft == ASSUME Inv PROVE NoWorkLeft
<1> DEFINE n == Cardinality(Files)
           l == Cardinality(Left(seen)) + Cardinality(Left(read))
<1>1. n \in Nat /\ l \in Nat BY FilesLeft
<1> HIDE DEF n, l
<1>2. /\ MkirfWork \in Nat /\ MkukiWork \in Nat
      /\ MkirfWork = 0 <=> pc["mkirf"] = "idle" /\ queue["mkirf"] \cap {"event", "error"} = {}
      /\ MkukiWork = 0 <=> pc["mkuki"] = "idle" /\ queue["mkuki"] \cap {"event", "error"} = {}
  BY <1>1 DEF MkirfWork, MkukiWork, Waiting, n, l
<1>3. /\ queue["mkirf"] \in SUBSET {"event", "error"}
      /\ queue["mkuki"] \in SUBSET {"event", "error"}
  BY DEF Inv, TypeOK, Tools
<1>4. (MkirfWork = 0 <=> AtRest("mkirf")) /\ (MkukiWork = 0 <=> AtRest("mkuki"))
  BY <1>2, <1>3 DEF AtRest
<1>5. ASSUME AtRest("mkirf"), AtRest("mkuki"), ~untold, tree \notin Bad,
             NEW r \in Releases, Candidates = {r}
      PROVE  uki = [release |-> r, state |-> kernels[r], initramfs |-> Of(tree)]
  <2>1. archive = Of(tree) BY <1>5 DEF Inv, Fresh, AtRest
  <2>2. archive # None BY <2>1, BootAssumption DEF Inv, TypeOK, Of, Archive
  <2> QED BY <1>5, <2>1, <2>2 DEF Inv, Joined, AtRest
<1> QED BY <1>2, <1>4, <1>5 DEF NoWorkLeft

\* What a step does to the work of the watcher that it leaves alone.
LEMMA WorkStays ==
    /\ pc'["mkirf"] = pc["mkirf"] /\ queue'["mkirf"] = queue["mkirf"]
       /\ seen' = seen /\ read' = read
          => MkirfWork' = MkirfWork
    /\ pc'["mkuki"] = pc["mkuki"] /\ queue'["mkuki"] = queue["mkuki"]
          => MkukiWork' = MkukiWork
BY DEF MkirfWork, MkukiWork, Waiting, Left

\* The loop that both have.
LEMMA LoopLessens ==
    ASSUME Inv, NEW t \in Tools, Loop(t)
    PROVE  /\ t = "mkirf" => MkirfWork' < MkirfWork
           /\ t = "mkuki" => MkirfWork' = MkirfWork /\ MkukiWork' < MkukiWork
<1> DEFINE n == Cardinality(Files)
           l == Cardinality(Left(seen)) + Cardinality(Left(read))
<1>1. n \in Nat /\ l \in Nat /\ l <= 2 * n /\ (seen = Unread /\ read = Unread => l = 2 * n)
  BY FilesLeft
<1>2. seen' = seen /\ read' = read /\ l' = l
  BY DEF Loop, Start, Recv, RecvError, Drain, Quiet, Arm, Left
<1>3. /\ pc \in [Tools -> {"off", "build", "arm", "idle", "drain",
                             "kernel", "initramfs", "persist"}]
      /\ queue \in [Tools -> SUBSET {"event", "error"}]
      /\ pc["mkirf"] # "build" => seen = Unread /\ read = Unread
      /\ pc["mkuki"] # "arm" /\ "error" \notin queue["mkuki"]
  BY DEF Inv, TypeOK, Shape
<1> HIDE DEF n, l
<1>4. ASSUME t = "mkirf" PROVE MkirfWork' < MkirfWork
  <2>1. MkirfWork = Waiting("mkirf", 2 * n + 4) +
            IF pc["mkirf"] = "idle" THEN 0 ELSE IF pc["mkirf"] = "arm" THEN 1
            ELSE IF pc["mkirf"] = "build" THEN l + 2 ELSE 2 * n + 3
    BY DEF MkirfWork, n, l
  <2>2. MkirfWork' = Waiting("mkirf", 2 * n + 4)' +
            IF pc'["mkirf"] = "idle" THEN 0 ELSE IF pc'["mkirf"] = "arm" THEN 1
            ELSE IF pc'["mkirf"] = "build" THEN l + 2 ELSE 2 * n + 3
    BY <1>2 DEF MkirfWork, n, l
  <2>3. CASE Start(t) BY <1>1, <1>3, <1>4, <2>1, <2>2, <2>3 DEF Start, Waiting
  <2>4. CASE Arm(t) BY <1>1, <1>3, <1>4, <2>1, <2>2, <2>4 DEF Arm, Waiting
  <2>5. CASE Recv(t) BY <1>1, <1>3, <1>4, <2>1, <2>2, <2>5 DEF Recv, Waiting
  <2>6. CASE RecvError(t) BY <1>1, <1>3, <1>4, <2>1, <2>2, <2>6 DEF RecvError, Waiting
  <2>7. CASE Drain(t) BY <1>1, <1>3, <1>4, <2>1, <2>2, <2>7 DEF Drain, Waiting
  <2>8. CASE Quiet(t) BY <1>1, <1>3, <1>4, <2>1, <2>2, <2>8 DEF Quiet, Waiting
  <2> QED BY <2>3, <2>4, <2>5, <2>6, <2>7, <2>8 DEF Loop
<1>5. ASSUME t = "mkuki" PROVE MkirfWork' = MkirfWork /\ MkukiWork' < MkukiWork
  <2>1. MkirfWork' = MkirfWork
    BY <1>2, <1>3, <1>5, WorkStays DEF Loop, Start, Recv, RecvError, Drain, Quiet, Arm, Tools
  <2>2. MkukiWork' < MkukiWork
    BY <1>3, <1>5 DEF Loop, Start, Recv, RecvError, Drain, Quiet, Arm, MkukiWork, Waiting
  <2> QED BY <2>1, <2>2
<1> QED BY <1>4, <1>5

\* A file that is looked at is no longer left.
LEMMA LookedAt ==
    ASSUME NEW looked, NEW next, NEW f \in Files, looked[f] = None,
           \A g \in Files : IF g = f THEN next[g] # None ELSE next[g] = looked[g]
    PROVE  /\ Cardinality(Left(next)) \in Nat /\ Cardinality(Left(looked)) \in Nat
           /\ Cardinality(Left(next)) = Cardinality(Left(looked)) - 1
<1>1. IsFiniteSet(Left(looked)) /\ f \in Left(looked)
  BY BootAssumption, FS_Subset DEF Left
<1>2. Left(next) = Left(looked) \ {f} BY DEF Left
<1>3. IsFiniteSet(Left(next)) BY BootAssumption, FS_Subset DEF Left
<1> QED BY <1>1, <1>2, <1>3, FS_RemoveElement, FS_CardinalityType

\* One build of mkirf.
LEMMA BuildLessens ==
    ASSUME Inv, Install \/ BuildFails \/ \E f \in Files : Look(f) \/ Read(f) \/ ChangeFails(f)
    PROVE  MkirfWork' < MkirfWork
<1> DEFINE l == Cardinality(Left(seen)) + Cardinality(Left(read))
<1>1. l \in Nat BY FilesLeft
<1>2. /\ pc["mkirf"] = "build" /\ queue'["mkirf"] = queue["mkirf"]
      /\ pc'["mkirf"] \in {"build", "idle", "arm"}
  <2>1. pc["mkirf"] = "build" /\ (pc' = pc \/ pc' = Built("mkirf"))
    BY DEF Install, BuildFails, Look, Read, ChangeFails, Packed, Judged, Forget
  <2>2. queue' = queue \/ Tell("mkuki", "event")
    BY DEF Install, BuildFails, Look, Read, ChangeFails
  <2>3. queue'["mkirf"] = queue["mkirf"] BY <2>2 DEF Inv, TypeOK, Tell, Tools
  <2>4. Built("mkirf")["mkirf"] \in {"idle", "arm"} BY DEF Inv, TypeOK, Built, Tools
  <2> QED BY <2>1, <2>3, <2>4
<1>3. /\ Waiting("mkirf", 2 * Cardinality(Files) + 4)'
            = Waiting("mkirf", 2 * Cardinality(Files) + 4)
      /\ Waiting("mkirf", 2 * Cardinality(Files) + 4) \in Nat
  BY <1>2, FilesLeft DEF Waiting
<1>4. pc'["mkirf"] = "build" => l' \in Nat /\ l' < l
  <2> SUFFICES ASSUME pc'["mkirf"] = "build" PROVE l' \in Nat /\ l' < l
    OBVIOUS
  <2>1. PICK f \in Files : Look(f) \/ Read(f)
    BY DEF Inv, TypeOK, Tools, Install, BuildFails, ChangeFails, Forget, Built
  <2>2. \A g \in Files : tree[g] # None BY BootAssumption DEF Inv, TypeOK, Contents
  <2>3. CASE Look(f)
    <3>1. /\ seen[f] = None /\ read' = read
          /\ \A g \in Files : IF g = f THEN seen'[g] # None ELSE seen'[g] = seen[g]
      BY <2>2, <2>3 DEF Inv, TypeOK, Look
    <3>2. /\ Cardinality(Left(seen')) \in Nat /\ Cardinality(Left(seen)) \in Nat
          /\ Cardinality(Left(seen')) = Cardinality(Left(seen)) - 1
      BY <3>1, LookedAt
    <3>3. Cardinality(Left(read)) \in Nat BY FilesLeft
    <3>4. l' = Cardinality(Left(seen')) + Cardinality(Left(read)) BY <3>1
    <3> QED BY <3>2, <3>3, <3>4
  <2>4. CASE Read(f)
    <3>1. /\ read[f] = None /\ seen' = seen
          /\ \A g \in Files : IF g = f THEN read'[g] # None ELSE read'[g] = read[g]
      BY <2>2, <2>4 DEF Inv, TypeOK, Read
    <3>2. /\ Cardinality(Left(read')) \in Nat /\ Cardinality(Left(read)) \in Nat
          /\ Cardinality(Left(read')) = Cardinality(Left(read)) - 1
      BY <3>1, LookedAt
    <3>3. Cardinality(Left(seen)) \in Nat BY FilesLeft
    <3>4. l' = Cardinality(Left(seen)) + Cardinality(Left(read')) BY <3>1
    <3> QED BY <3>2, <3>3, <3>4
  <2> QED BY <2>1, <2>3, <2>4
<1>5. MkirfWork = Waiting("mkirf", 2 * Cardinality(Files) + 4) + (l + 2)
  BY <1>2 DEF MkirfWork
<1>6. MkirfWork' = Waiting("mkirf", 2 * Cardinality(Files) + 4)' +
          IF pc'["mkirf"] = "idle" THEN 0 ELSE IF pc'["mkirf"] = "arm" THEN 1 ELSE l' + 2
  BY <1>2 DEF MkirfWork
<1> HIDE DEF l
<1> QED BY <1>1, <1>2, <1>3, <1>4, <1>5, <1>6

\* One build of mkuki.
LEMMA JoinLessens ==
    ASSUME Inv, Resolve \/ ReadKernel \/ ReadInitramfs \/ Persist
    PROVE  MkirfWork' = MkirfWork /\ MkukiWork' < MkukiWork
<1>1. /\ pc \in [Tools -> {"off", "build", "arm", "idle", "drain",
                             "kernel", "initramfs", "persist"}]
      /\ queue' = queue /\ seen' = seen /\ read' = read
  BY DEF Inv, TypeOK, Resolve, ReadKernel, ReadInitramfs, Persist
<1>2. pc'["mkirf"] = pc["mkirf"]
  BY <1>1 DEF Resolve, ReadKernel, ReadInitramfs, Persist, Built, Tools
<1>3. MkirfWork' = MkirfWork BY <1>1, <1>2, WorkStays
<1>4. armed["mkuki"] BY DEF Inv, Shape, Resolve, ReadKernel, ReadInitramfs, Persist
<1>5. MkukiWork' < MkukiWork
  BY <1>1, <1>4 DEF Resolve, ReadKernel, ReadInitramfs, Persist, Built, MkukiWork, Waiting, Tools
<1> QED BY <1>3, <1>5

\* Left alone, the watchers run out of work: every step of theirs leaves less,
\* whatever is in their channels and however far their builds are.
THEOREM WorkRunsOut == Spec => [][WorkLessens]_vars
<1>1. Inv /\ Next => WorkLessens
  BY LoopLessens, BuildLessens, JoinLessens DEF WorkLessens, Mkirf, Mkuki, Tools
<1> QED BY <1>1, InvIsInvariant, PTL DEF Spec

\* A watcher without work is one at rest; and when neither has any, the image is
\* that of the tree and of the one kernel there is, unless mkirf missed an edit.
THEOREM WorkIsDone == Spec => []NoWorkLeft
<1>1. Inv => NoWorkLeft BY NoneLeft
<1> QED BY <1>1, InvIsInvariant, PTL
=============================================================================
