--------------------------- MODULE HookOrderProofs ---------------------------
(***************************************************************************)
(* What HookOrder resolves, for any finite set of names, any capabilities  *)
(* and any directories: the order is the least that is asked for, and a    *)
(* build fails for the reason it gives.                                    *)
(***************************************************************************)
EXTENDS HookOrder, FiniteSetTheorems, SequenceTheorems, WellFoundedInduction, TLAPS

\* While the directories are scanned, and once they are.
Scanned ==
    \A n \in Names :
        \/ hooks[n] = None /\ \A d \in Dirs : d < dir => tree[d][n] = None
        \/ \E d \in Dirs : d < dir /\ Wins(d, n) /\ hooks[n] = tree[d][n]

Merged ==
    \A n \in Names : hooks[n] = IF n \in Present THEN WaitsForReady(File(n)) ELSE None

Placed == {order[i] : i \in 1 .. Len(order)}

\* In the sort, the numbers and the set are what they stand for.
Counted ==
    /\ Placed \subseteq Constrained /\ Len(order) = Cardinality(Placed)
    /\ \A c \in Names : indegree[c] = Cardinality({p \in Names : Edge(p, c) /\ p \notin Placed})
    /\ ready = {c \in Constrained : c \notin Placed /\ indegree[c] = 0}

\* What is placed is placed well, and is in no cycle.
Least ==
    \A i \in 1 .. Len(order) : /\ CanFollow(order, i - 1, order[i])
                               /\ \A n \in Present : CanFollow(order, i - 1, n) => order[i] <= n
Acyclic == \A S \in SUBSET Present : Cyclic(S) => S \cap Placed = {}

Inv ==
    /\ TypeOK
    /\ IF pc = "discover" THEN Scanned ELSE Merged
    /\ pc \in {"discover", "resolve"} => order = <<>>
    /\ pc \in {"sort", "done", "cycle"} => ~IsMixed /\ ~IsMissing
    /\ pc = "sort" => Counted /\ Least /\ Acyclic
    /\ OrderIsLeast /\ VerdictIsRight

-----------------------------------------------------------------------------
(* What the merged hooks say of the files *)

\* One file wins a name, and it is the one that counts.
LEMMA WinnerIsFile ==
    ASSUME TypeOK, NEW n \in Names, NEW d \in Dirs, Wins(d, n)
    PROVE  n \in Present /\ File(n) = tree[d][n] /\ File(n) \in Hook
<1>1. \A e \in Dirs : Wins(e, n) => e = d
  BY DEF Wins, Dirs
<1>2. (CHOOSE e \in Dirs : Wins(e, n)) = d
  BY <1>1
<1> QED BY <1>2 DEF Present, File, Wins, TypeOK

\* A name that is present has a file.
LEMMA FileIsHook == ASSUME TypeOK, NEW n \in Present PROVE n \in Names /\ File(n) \in Hook
<1>1. PICK d \in Dirs : Wins(d, n) BY DEF Present
<1> QED BY <1>1, WinnerIsFile DEF Present

\* The implicit edge adds to what a hook waits for, and to nothing else.
LEMMA WaitingIs ==
    ASSUME NEW h \in Hook
    PROVE  /\ WaitsForReady(h) \in Hook
           /\ Supplies(WaitsForReady(h)) = Supplies(h)
           /\ WaitsForReady(h).provides = h.provides
           /\ WaitsForReady(h).contributes = h.contributes
           /\ WaitsForReady(h).requires = h.requires
           /\ IsConstrained(WaitsForReady(h)) = IsConstrained(h)
           /\ Consumes(WaitsForReady(h)) =
                 Consumes(h) \cup
                     IF IsConstrained(h) /\ Ready \notin Supplies(h) THEN {Ready} ELSE {}
<1> DEFINE g == [h EXCEPT !.after = @ \cup {Ready}]
<1>1. CASE WaitsForReady(h) = h /\ ~(IsConstrained(h) /\ Ready \notin Supplies(h) \cup Consumes(h))
  BY <1>1 DEF Consumes, IsConstrained
<1>2. CASE WaitsForReady(h) = g /\ IsConstrained(h) /\ Ready \notin Supplies(h) \cup Consumes(h)
  <2>1. /\ g \in Hook /\ g.provides = h.provides /\ g.contributes = h.contributes
        /\ g.requires = h.requires /\ g.after = h.after \cup {Ready}
    BY HookAssumption DEF Hook
  <2> HIDE DEF g
  <2> QED BY <1>2, <2>1 DEF Supplies, Consumes, IsConstrained
<1> QED BY <1>1, <1>2, HookAssumption DEF WaitsForReady

\* So the graph of the sort is the relation that is asked for.
LEMMA GraphIs ==
    ASSUME TypeOK, Merged
    PROVE  /\ Found = Present
           /\ Constrained = {n \in Present : IsConstrained(File(n))}
           /\ \A p, c \in Names : Edge(p, c) <=> /\ p \in Constrained /\ c \in Constrained
                                                 /\ MustPrecede(p, c)
           /\ Mixed <=> IsMixed
           /\ Missing <=> IsMissing
<1>1. Found = Present
  BY FileIsHook, WaitingIs, HookAssumption DEF Found, Merged, Present
<1>2. \A n \in Present : /\ hooks[n] = WaitsForReady(File(n)) /\ n \in Names /\ File(n) \in Hook
  BY FileIsHook DEF Merged, Present
<1>3. Constrained = {n \in Present : IsConstrained(File(n))}
  BY <1>1, <1>2, WaitingIs DEF Constrained
<1>4. \A p, c \in Names : Edge(p, c) <=> /\ p \in Constrained /\ c \in Constrained
                                         /\ MustPrecede(p, c)
  <2> SUFFICES ASSUME NEW p \in Constrained, NEW c \in Constrained, p # c
               PROVE  Supplies(hooks[p]) \cap Consumes(hooks[c]) # {}
                        <=> Precedes(File(p), File(c))
    BY DEF Edge, MustPrecede
  <2>1. /\ p \in Present /\ IsConstrained(File(p)) /\ c \in Present /\ IsConstrained(File(c))
    BY <1>3
  <2>2. /\ Supplies(hooks[p]) = Supplies(File(p))
        /\ Consumes(hooks[c]) =
              Consumes(File(c)) \cup IF Ready \notin Supplies(File(c)) THEN {Ready} ELSE {}
    BY <1>2, <2>1, WaitingIs
  <2> QED BY <2>1, <2>2 DEF Precedes
<1>5. Mixed <=> IsMixed
  BY <1>1, <1>2, WaitingIs DEF Mixed, IsMixed
<1>6. Missing <=> IsMissing
  BY <1>1, <1>2, WaitingIs DEF Missing, IsMissing
<1> QED BY <1>1, <1>3, <1>4, <1>5, <1>6

\* What a step that leaves the directories leaves.
LEMMA FilesStay ==
    ASSUME tree' = tree
    PROVE  /\ Present' = Present /\ \A n : File(n)' = File(n)
           /\ \A p, n : MustPrecede(p, n)' <=> MustPrecede(p, n)
           /\ \A S : Cyclic(S)' <=> Cyclic(S)
           /\ IsMixed' <=> IsMixed
           /\ IsMissing' <=> IsMissing
<1>1. Present' = Present BY DEF Present, Wins
<1>2. \A n : File(n)' = File(n) BY DEF File, Wins
<1>3. \A p, n : MustPrecede(p, n)' <=> MustPrecede(p, n) BY <1>2 DEF MustPrecede
<1>4. \A S : Cyclic(S)' <=> Cyclic(S) BY <1>3 DEF Cyclic
<1> QED BY <1>1, <1>2, <1>3, <1>4 DEF IsMixed, IsMissing

-----------------------------------------------------------------------------
(* One lemma per action *)

LEMMA InitInv == ASSUME Init PROVE Inv
<1>1. TypeOK BY HookAssumption DEF Init, TypeOK, Dirs
<1>2. Scanned BY DEF Init, Scanned, Dirs
<1> QED BY <1>1, <1>2 DEF Init, Inv, OrderIsLeast, LeastOrder, VerdictIsRight

LEMMA DiscoverStep == ASSUME Inv, Discover PROVE Inv'
<1>1. TypeOK'
  BY DEF Inv, TypeOK, Discover, Dirs
<1>2. Scanned'
  <2> SUFFICES ASSUME NEW n \in Names
               PROVE  \/ hooks'[n] = None /\ \A d \in Dirs : d < dir' => tree'[d][n] = None
                      \/ \E d \in Dirs : d < dir' /\ Wins(d, n)' /\ hooks'[n] = tree'[d][n]
    BY DEF Scanned
  <2>1. CASE \E d \in Dirs : d < dir /\ Wins(d, n) /\ hooks[n] = tree[d][n]
    BY <2>1 DEF Inv, TypeOK, Discover, Dirs, Wins
  <2>2. CASE hooks[n] = None /\ \A d \in Dirs : d < dir => tree[d][n] = None
    <3>1. CASE tree[dir][n] = None
      BY <2>2, <3>1 DEF Inv, TypeOK, Discover, Dirs
    <3>2. CASE tree[dir][n] # None
      <4>1. PICK d \in Dirs : d = dir BY DEF Discover
      <4>2. Wins(d, n)' BY <2>2, <3>2, <4>1 DEF Wins, Discover
      <4>3. hooks'[n] = tree'[d][n] /\ d < dir' BY <2>2, <4>1 DEF Discover, Dirs
      <4> QED BY <4>2, <4>3
    <3> QED BY <3>1, <3>2
  <2> QED BY <2>1, <2>2 DEF Inv, Discover, Scanned
<1> QED BY <1>1, <1>2 DEF Inv, Discover, OrderIsLeast, LeastOrder, VerdictIsRight

LEMMA ImplicitOrderingStep == ASSUME Inv, ImplicitOrdering PROVE Inv'
<1>1. dir = 4 /\ Scanned /\ TypeOK /\ order = <<>> /\ tree' = tree /\ order' = order
  BY DEF Inv, TypeOK, ImplicitOrdering, Dirs
<1>2. \A n \in Names : hooks[n] = IF n \in Present THEN File(n) ELSE None
  <2> SUFFICES ASSUME NEW n \in Names
               PROVE  hooks[n] = IF n \in Present THEN File(n) ELSE None
    OBVIOUS
  <2>1. CASE \E d \in Dirs : d < dir /\ Wins(d, n) /\ hooks[n] = tree[d][n]
    BY <1>1, <2>1, WinnerIsFile
  <2>2. CASE hooks[n] = None /\ \A d \in Dirs : d < dir => tree[d][n] = None
    <3>1. \A d \in Dirs : d < dir BY <1>1 DEF Dirs
    <3> QED BY <2>2, <3>1 DEF Present, Wins
  <2> QED BY <1>1, <2>1, <2>2 DEF Scanned
<1>3. Merged'
  <2>1. \A n \in Names : hooks'[n] = WaitsForReady(hooks[n]) BY DEF ImplicitOrdering
  <2>2. WaitsForReady(None) = None BY DEF WaitsForReady
  <2>3. Present' = Present /\ \A n : File(n)' = File(n) BY <1>1, FilesStay
  <2> QED BY <1>2, <2>1, <2>2, <2>3 DEF Merged
<1>4. TypeOK'
  <2>1. \A n \in Names : hooks[n] \in Hook \cup {None} BY <1>1 DEF TypeOK
  <2>2. \A n \in Names : WaitsForReady(hooks[n]) \in Hook \cup {None}
    BY <2>1, WaitingIs DEF WaitsForReady
  <2> QED BY <1>1, <2>2 DEF TypeOK, ImplicitOrdering
<1>5. CASE Found = {}
  <2>1. Present = {} BY <1>1, <1>2, <1>5, FileIsHook, HookAssumption DEF Found, Present
  <2>2. pc' = "done" /\ Present' = {} BY <1>1, <1>5, <2>1, FilesStay DEF ImplicitOrdering
  <2>3. ~IsMixed' /\ ~IsMissing' BY <2>2 DEF IsMixed, IsMissing
  <2>4. OrderIsLeast' BY <1>1, <2>2 DEF OrderIsLeast, LeastOrder
  <2>5. VerdictIsRight' BY <2>2, <2>3 DEF VerdictIsRight, Cyclic
  <2> QED BY <1>3, <1>4, <2>2, <2>3, <2>4, <2>5 DEF Inv
<1>6. CASE Found # {}
  <2>1. pc' = "resolve" BY <1>6 DEF ImplicitOrdering
  <2> QED BY <1>1, <1>3, <1>4, <2>1 DEF Inv, OrderIsLeast, LeastOrder, VerdictIsRight
<1> QED BY <1>5, <1>6

\* The definitions over the hooks, in a step that leaves these.
LEMMA GraphStays ==
    ASSUME hooks' = hooks
    PROVE  /\ Found' = Found /\ Constrained' = Constrained
           /\ \A p, c : Edge(p, c)' <=> Edge(p, c)
<1>1. Found' = Found BY DEF Found
<1>2. Constrained' = Constrained BY <1>1 DEF Constrained
<1> QED BY <1>1, <1>2 DEF Edge

LEMMA MergedStays == ASSUME Merged, tree' = tree, hooks' = hooks PROVE Merged'
<1>1. Present' = Present /\ \A n : File(n)' = File(n) BY FilesStay
<1> QED BY <1>1 DEF Merged

\* A set of names has a number.
LEMMA NamesAreFinite ==
    ASSUME NEW S \in SUBSET Names
    PROVE  IsFiniteSet(S) /\ Cardinality(S) \in Nat /\ (Cardinality(S) = 0 <=> S = {})
BY HookAssumption, FS_Subset, FS_CardinalityType, FS_EmptySet

LEMMA ResolveStep == ASSUME Inv, Resolve PROVE Inv'
<1>1. /\ TypeOK /\ Merged /\ order = <<>> /\ pc = "resolve"
      /\ tree' = tree /\ dir' = dir /\ hooks' = hooks /\ order' = order
  BY DEF Inv, Resolve
<1>2. TypeOK'
  <2>1. \A c \in Names : Cardinality({p \in Names : Edge(p, c)}) \in Nat BY NamesAreFinite
  <2>2. indegree' \in [Names -> Nat] BY <2>1 DEF Resolve
  <2>3. ready' \subseteq Names BY DEF Resolve, Constrained, Found
  <2> QED BY <1>1, <2>2, <2>3 DEF TypeOK, Resolve
<1>3. Merged' BY <1>1, MergedStays
<1>4. (IsMixed' <=> IsMixed) /\ (IsMissing' <=> IsMissing) BY <1>1, FilesStay
<1>5. (Mixed <=> IsMixed) /\ (Missing <=> IsMissing) BY <1>1, GraphIs
<1>6. pc' = IF Mixed THEN "mixed" ELSE IF Missing THEN "missing" ELSE "sort"
  BY DEF Resolve
<1>7. OrderIsLeast' /\ VerdictIsRight'
  BY <1>4, <1>5, <1>6 DEF OrderIsLeast, LeastOrder, VerdictIsRight
<1>8. Placed' = {} /\ Len(order') = 0 BY <1>1 DEF Placed
<1>9. Counted'
  <2>1. \A c \in Names : {p \in Names : Edge(p, c)' /\ p \notin Placed'} = {p \in Names : Edge(p, c)}
    BY <1>1, <1>8, GraphStays
  <2>2. Cardinality(Placed') = 0 BY <1>8, FS_EmptySet
  <2>3. \A c \in Names : indegree'[c] = Cardinality({p \in Names : Edge(p, c)' /\ p \notin Placed'})
    BY <2>1 DEF Resolve
  <2>4. ready' = {c \in Constrained' : c \notin Placed' /\ indegree'[c] = 0}
    BY <1>1, <1>8, GraphStays DEF Resolve
  <2> QED BY <1>8, <2>2, <2>3, <2>4 DEF Counted
<1>10. Least' /\ Acyclic' BY <1>1, <1>8 DEF Least, Acyclic
<1> QED BY <1>1, <1>2, <1>3, <1>4, <1>5, <1>6, <1>7, <1>9, <1>10 DEF Inv

\* A name after another.
LEMMA OneMorePlaced ==
    ASSUME order \in Seq(Names), NEW n \in Names, order' = Append(order, n)
    PROVE  /\ order' \in Seq(Names) /\ Len(order') = Len(order) + 1 /\ Len(order) \in Nat
           /\ \A i \in 1 .. Len(order) : order'[i] = order[i]
           /\ order'[Len(order) + 1] = n
           /\ Placed' = Placed \cup {n}
<1>1. /\ order' \in Seq(Names) /\ Len(order') = Len(order) + 1 /\ Len(order) \in Nat
      /\ \A i \in 1 .. Len(order) : order'[i] = order[i]
      /\ order'[Len(order) + 1] = n
  BY AppendProperties
<1>2. 1 .. Len(order') = 1 .. Len(order) \cup {Len(order) + 1} BY <1>1
<1> QED BY <1>1, <1>2 DEF Placed

\* What can follow depends on what is before.
LEMMA FollowingStays ==
    ASSUME tree' = tree, NEW i \in Nat, \A j \in 1 .. i : order'[j] = order[j]
    PROVE  \A n : CanFollow(order, i, n)' <=> CanFollow(order, i, n)
<1>1. Present' = Present /\ \A p, n : MustPrecede(p, n)' <=> MustPrecede(p, n) BY FilesStay
<1> QED BY <1>1 DEF CanFollow

\* While hooks that declared something are left, only such can be next.
LEMMA ConstrainedFirst ==
    ASSUME TypeOK, Merged, NEW i \in Nat, NEW c \in Constrained, CanFollow(order, i, c),
           NEW n \in Present, CanFollow(order, i, n)
    PROVE  n \in Constrained
<1> SUFFICES ASSUME n \notin Constrained PROVE FALSE
  OBVIOUS
<1>1. c \in Present /\ IsConstrained(File(c)) /\ ~IsConstrained(File(n)) BY GraphIs
<1>2. MustPrecede(c, n) BY <1>1 DEF MustPrecede, Precedes
<1> QED BY <1>1, <1>2 DEF CanFollow

\* Of the hooks that declared something, those that are ready can be next.
LEMMA ReadyCanFollow ==
    ASSUME TypeOK, Merged, Counted, NEW n \in Constrained
    PROVE  CanFollow(order, Len(order), n) <=> n \in ready
<1> DEFINE before == {p \in Names : Edge(p, n) /\ p \notin Placed}
<1>1. n \in Names /\ n \in Present BY GraphIs DEF Present
<1>2. indegree[n] = 0 <=> before = {} BY <1>1, NamesAreFinite DEF Counted
<1>3. n \in ready <=> n \notin Placed /\ before = {} BY <1>2 DEF Counted
<1>4. before = {} <=> \A p \in Present : MustPrecede(p, n) => p \in Placed
  <2>1. \A p \in Present : p \in Names BY DEF Present
  <2>2. \A p \in Present : MustPrecede(p, n) => p \in Constrained
    BY GraphIs DEF MustPrecede, Precedes
  <2>3. \A p \in Names : Edge(p, n) <=> p \in Present /\ MustPrecede(p, n)
    BY <1>1, <2>1, <2>2, GraphIs
  <2> QED BY <2>1, <2>3
<1>5. CanFollow(order, Len(order), n) <=>
         n \notin Placed /\ \A p \in Present : MustPrecede(p, n) => p \in Placed
  BY <1>1 DEF CanFollow, Placed
<1> QED BY <1>3, <1>4, <1>5

LEMMA PopStep == ASSUME Inv, NEW n \in Names, Pop(n) PROVE Inv'
<1>1. /\ TypeOK /\ Merged /\ Counted /\ Least /\ Acyclic /\ ~IsMixed /\ ~IsMissing
      /\ pc = "sort" /\ pc' = "sort" /\ tree' = tree /\ dir' = dir /\ hooks' = hooks
      /\ n \in ready /\ order' = Append(order, n)
  BY DEF Inv, Pop
<1>2. /\ order' \in Seq(Names) /\ Len(order') = Len(order) + 1 /\ Len(order) \in Nat
      /\ \A i \in 1 .. Len(order) : order'[i] = order[i]
      /\ order'[Len(order) + 1] = n
      /\ Placed' = Placed \cup {n}
  BY <1>1, OneMorePlaced DEF TypeOK
<1>3. n \in Constrained /\ n \notin Placed /\ n \in Present BY <1>1, GraphIs DEF Counted
<1>4. /\ Constrained' = Constrained /\ Present' = Present
      /\ \A p, c : Edge(p, c)' <=> Edge(p, c)
      /\ \A S : Cyclic(S)' <=> Cyclic(S)
      /\ ~IsMixed' /\ ~IsMissing'
  BY <1>1, GraphStays, FilesStay
<1>5. Merged' BY <1>1, MergedStays
<1>6. \A c \in Names : indegree'[c] =
         Cardinality({p \in Names : Edge(p, c)' /\ p \notin Placed'})
  <2> SUFFICES ASSUME NEW c \in Names
               PROVE  indegree'[c] = Cardinality({p \in Names : Edge(p, c)' /\ p \notin Placed'})
    OBVIOUS
  <2> DEFINE B == {p \in Names : Edge(p, c) /\ p \notin Placed}
             A == {p \in Names : Edge(p, c)' /\ p \notin Placed'}
  <2>1. A = B \ {n} /\ (n \in B <=> Edge(n, c)) BY <1>2, <1>3, <1>4
  <2>2. indegree[c] = Cardinality(B) BY <1>1 DEF Counted
  <2>3. IsFiniteSet(B) BY NamesAreFinite
  <2>4. indegree'[c] = IF Edge(n, c) THEN indegree[c] - 1 ELSE indegree[c] BY DEF Pop
  <2>5. Cardinality(A) = IF n \in B THEN Cardinality(B) - 1 ELSE Cardinality(B)
    <3> HIDE DEF A, B
    <3> QED BY <2>1, <2>3, FS_RemoveElement
  <2> QED BY <2>1, <2>2, <2>4, <2>5
<1>7. indegree' \in [Names -> Nat]
  <2>1. \A c \in Names : Cardinality({p \in Names : Edge(p, c)' /\ p \notin Placed'}) \in Nat
    BY NamesAreFinite
  <2> QED BY <1>6, <2>1 DEF Pop
<1>8. TypeOK'
  <2>1. ready' \subseteq Names BY <1>1 DEF Pop, TypeOK
  <2> QED BY <1>1, <1>2, <1>7, <2>1 DEF TypeOK
<1>9. Counted'
  <2>1. Placed' \subseteq Constrained' BY <1>1, <1>2, <1>3, <1>4 DEF Counted
  <2>2. Len(order') = Cardinality(Placed')
    <3>1. Placed \subseteq Names BY <1>1 DEF Counted, Constrained, Found
    <3>2. IsFiniteSet(Placed) BY <3>1, NamesAreFinite
    <3>3. Cardinality(Placed \cup {n}) = Cardinality(Placed) + 1
      BY <1>3, <3>2, FS_AddElement
    <3> QED BY <1>1, <1>2, <3>3 DEF Counted
  <2>3. ready' = {c \in Constrained' : c \notin Placed' /\ indegree'[c] = 0}
    <3>1. \A c \in Constrained : c \in Names BY DEF Constrained, Found
    <3>2. \A c \in Names : Edge(n, c) => c \in Constrained /\ c # n /\ c \notin Placed
      <4> SUFFICES ASSUME NEW c \in Names, Edge(n, c), c \in Placed PROVE FALSE
        BY DEF Edge
      <4>1. PICK i \in 1 .. Len(order) : order[i] = c BY DEF Placed
      <4>2. MustPrecede(n, c) BY <1>1, GraphIs
      <4>3. CanFollow(order, i - 1, c) BY <1>1, <4>1 DEF Least
      <4>4. \E j \in 1 .. i - 1 : order[j] = n BY <1>3, <4>2, <4>3 DEF CanFollow
      <4> QED BY <1>2, <1>3, <4>4 DEF Placed
    <3>3. \A c \in Names : indegree'[c] = IF Edge(n, c) THEN indegree[c] - 1 ELSE indegree[c]
      BY DEF Pop
    <3>4. ready' = (ready \ {n}) \cup {c \in Names : Edge(n, c) /\ indegree'[c] = 0}
      BY DEF Pop
    <3>5. ready = {c \in Constrained : c \notin Placed /\ indegree[c] = 0} BY <1>1 DEF Counted
    <3>6. \A c \in Constrained : Edge(n, c) => indegree[c] # 0
      <4> SUFFICES ASSUME NEW c \in Constrained, Edge(n, c) PROVE indegree[c] # 0
        OBVIOUS
      <4>1. n \in {p \in Names : Edge(p, c) /\ p \notin Placed} BY <1>3
      <4> QED BY <1>1, <3>1, <4>1, NamesAreFinite DEF Counted
    <3> QED BY <1>2, <1>4, <3>1, <3>2, <3>3, <3>4, <3>5, <3>6
  <2> QED BY <1>6, <2>1, <2>2, <2>3 DEF Counted
<1>10. Least'
  <2> SUFFICES ASSUME NEW i \in 1 .. Len(order')
               PROVE  /\ CanFollow(order, i - 1, order[i])'
                      /\ \A m \in Present' : CanFollow(order, i - 1, m)' => order'[i] <= m
    BY DEF Least
  <2>1. i - 1 \in Nat /\ \A j \in 1 .. i - 1 : order'[j] = order[j] BY <1>2
  <2>2. \A m : CanFollow(order, i - 1, m)' <=> CanFollow(order, i - 1, m) BY <1>1, <2>1, FollowingStays
  <2>3. CASE i <= Len(order)
    <3>1. order'[i] = order[i] /\ i \in 1 .. Len(order) BY <1>2, <2>3
    <3> QED BY <1>1, <1>4, <2>2, <3>1 DEF Least
  <2>4. CASE i = Len(order) + 1
    <3>1. order'[i] = n /\ i - 1 = Len(order) BY <1>2, <2>4
    <3>2. CanFollow(order, Len(order), n) BY <1>1, <1>3, ReadyCanFollow
    <3>3. \A m \in Present : CanFollow(order, Len(order), m) => n <= m
      <4> SUFFICES ASSUME NEW m \in Present, CanFollow(order, Len(order), m) PROVE n <= m
        OBVIOUS
      <4>1. m \in Constrained BY <1>1, <1>2, <1>3, <3>2, ConstrainedFirst
      <4>2. m \in ready BY <1>1, <4>1, ReadyCanFollow
      <4> QED BY <4>2 DEF Pop
    <3> QED BY <1>4, <2>2, <3>1, <3>2, <3>3
  <2> QED BY <1>2, <2>3, <2>4
<1>11. Acyclic'
  <2> SUFFICES ASSUME NEW S \in SUBSET Present, Cyclic(S) PROVE S \cap (Placed \cup {n}) = {}
    BY <1>2, <1>4 DEF Acyclic
  <2>1. S \cap Placed = {} BY <1>1 DEF Acyclic
  <2>2. n \notin S
    <3> SUFFICES ASSUME n \in S PROVE FALSE
      OBVIOUS
    <3>1. PICK p \in S : MustPrecede(p, n) BY DEF Cyclic
    <3>2. CanFollow(order, Len(order), n) BY <1>1, <1>3, ReadyCanFollow
    <3>3. p \in Placed BY <3>1, <3>2 DEF CanFollow, Placed
    <3> QED BY <2>1, <3>3
  <2> QED BY <2>1, <2>2
<1> QED BY <1>1, <1>4, <1>5, <1>8, <1>9, <1>10, <1>11 DEF Inv, OrderIsLeast, LeastOrder, VerdictIsRight

LEMMA FinishStep == ASSUME Inv, Finish PROVE Inv'
<1>1. /\ TypeOK /\ Merged /\ Counted /\ Least /\ Acyclic /\ ~IsMixed /\ ~IsMissing
      /\ pc = "sort" /\ ready = {}
      /\ tree' = tree /\ dir' = dir /\ hooks' = hooks /\ indegree' = indegree /\ ready' = ready
  BY DEF Inv, Finish
<1>2. Merged' BY <1>1, MergedStays
<1>3. /\ Present' = Present /\ \A p, n : MustPrecede(p, n)' <=> MustPrecede(p, n)
      /\ \A S : Cyclic(S)' <=> Cyclic(S)
      /\ ~IsMixed' /\ ~IsMissing'
  BY <1>1, FilesStay
<1>4. Constrained \subseteq Present /\ Found = Present BY <1>1, GraphIs
<1>5. IsFiniteSet(Constrained) /\ Placed \in SUBSET Constrained /\ Len(order) = Cardinality(Placed)
  BY <1>1, NamesAreFinite DEF Counted, Constrained, Found
<1>6. \A p, c \in Names : Edge(p, c) => p \in Constrained /\ MustPrecede(p, c)
  BY <1>1, GraphIs
<1>7. \A p, n \in Present : MustPrecede(p, n) => p \in Constrained
  BY <1>1, GraphIs DEF MustPrecede, Precedes
<1>8. CASE Len(order) = Cardinality(Constrained)
  <2>1. Placed = Constrained BY <1>5, <1>8, FS_Subset
  <2> DEFINE U == Present \ Constrained
             L == Len(order)
  <2>2. PICK last \in InNameOrder(U) : order' = order \o last BY <1>4, <1>8 DEF Finish
  <2>3. pc' = "done" BY <1>8 DEF Finish
  <2>4. U \in SUBSET Names BY DEF Present
  <2>5. /\ last \in Seq(Names) /\ Len(last) = Cardinality(U) /\ Cardinality(U) \in Nat
        /\ \A n \in U : \E k \in 1 .. Len(last) : last[k] = n
        /\ \A k \in 1 .. Len(last) : last[k] \in U
        /\ \A k, l \in 1 .. Len(last) : k < l => last[k] < last[l]
    <3>1. Cardinality(U) \in Nat BY <2>4, NamesAreFinite
    <3> HIDE DEF U
    <3>2. last \in [1 .. Cardinality(U) -> U] BY DEF InNameOrder
    <3>3. last \in Seq(Names) /\ Len(last) = Cardinality(U) BY <2>4, <3>1, <3>2
    <3> QED BY <3>1, <3>2, <3>3 DEF InNameOrder
  <2>6. order \in Seq(Names) /\ L \in Nat BY <1>1 DEF TypeOK
  <2>7. /\ order' \in Seq(Names) /\ Len(order') = L + Len(last)
        /\ \A i \in 1 .. L : order'[i] = order[i]
        /\ \A k \in 1 .. Len(last) : order'[L + k] = last[k]
    <3>1. /\ order' \in Seq(Names) /\ Len(order') = L + Len(last)
          /\ \A i \in 1 .. L + Len(last) : order'[i] = IF i <= L THEN order[i] ELSE last[i - L]
      BY <2>2, <2>5, <2>6, ConcatProperties
    <3>2. ASSUME NEW k \in 1 .. Len(last) PROVE order'[L + k] = last[k]
      <4> HIDE DEF L
      <4>1. L + k \in 1 .. L + Len(last) /\ ~(L + k <= L) /\ (L + k) - L = k BY <2>5, <2>6
      <4> QED BY <3>1, <4>1
    <3>3. \A i \in 1 .. L : order'[i] = order[i]
      <4>1. \A i \in 1 .. L : i \in 1 .. L + Len(last) /\ i <= L BY <2>5, <2>6
      <4> QED BY <3>1, <4>1
    <3> QED BY <3>1, <3>2, <3>3
  <2>8. \A n \in Constrained : \E i \in 1 .. L : order'[i] = n
    BY <2>1, <2>7 DEF Placed
  <2>9. \A i \in 1 .. L : order'[i] \in Constrained BY <2>1, <2>7 DEF Placed
  <2>10. \A n \in Present : \E i \in 1 .. Len(order') : order'[i] = n
    <3> SUFFICES ASSUME NEW n \in Present PROVE \E i \in 1 .. Len(order') : order'[i] = n
      OBVIOUS
    <3> HIDE DEF L
    <3>1. CASE n \in Constrained
      <4>1. PICK i \in 1 .. L : order'[i] = n BY <2>8, <3>1
      <4>2. i \in 1 .. Len(order') BY <2>5, <2>6, <2>7
      <4> QED BY <4>1, <4>2
    <3>2. CASE n \in U
      <4>1. PICK k \in 1 .. Len(last) : last[k] = n BY <2>5, <3>2
      <4>2. L + k \in 1 .. Len(order') BY <2>5, <2>6, <2>7
      <4>3. order'[L + k] = n BY <2>7, <4>1
      <4> QED BY <4>2, <4>3
    <3> QED BY <3>1, <3>2
  <2>11. Least'
    <3> SUFFICES ASSUME NEW i \in 1 .. Len(order')
                 PROVE  /\ CanFollow(order, i - 1, order[i])'
                        /\ \A m \in Present' : CanFollow(order, i - 1, m)' => order'[i] <= m
      BY DEF Least
    <3>1. CASE i <= L
      <4>1. i \in 1 .. L /\ i - 1 \in Nat /\ \A j \in 1 .. i - 1 : order'[j] = order[j]
        BY <2>6, <2>7, <3>1
      <4>2. \A m : CanFollow(order, i - 1, m)' <=> CanFollow(order, i - 1, m) BY <1>1, <4>1, FollowingStays
      <4>3. order'[i] = order[i] BY <2>7, <4>1
      <4> QED BY <1>1, <1>3, <4>1, <4>2, <4>3 DEF Least
    <3>2. CASE i > L
      <4>1. PICK k \in 1 .. Len(last) : i = L + k
        <5>1. i - L \in 1 .. Len(last) /\ i = L + (i - L) BY <2>5, <2>6, <2>7, <3>2
        <5> QED BY <5>1
      <4>2. order'[i] = last[k] /\ last[k] \in U BY <2>5, <2>7, <4>1
      <4>3. \A j \in 1 .. i - 1 : order'[j] # last[k]
        <5> SUFFICES ASSUME NEW j \in 1 .. i - 1 PROVE order'[j] # last[k]
          OBVIOUS
        <5>1. CASE j <= L BY <2>6, <2>9, <4>2, <5>1
        <5>2. CASE j > L
          <6>1. j - L \in 1 .. Len(last) /\ j = L + (j - L) /\ j - L < k
            BY <2>5, <2>6, <4>1, <5>2
          <6>2. order'[j] = last[j - L] /\ last[j - L] < last[k] BY <2>5, <2>7, <6>1
          <6>3. last[j - L] \in Nat /\ last[k] \in Nat
            BY <2>4, <2>5, <6>1, HookAssumption
          <6> QED BY <6>2, <6>3
        <5> QED BY <2>6, <5>1, <5>2
      <4>4. \A p \in Present : MustPrecede(p, last[k]) => \E j \in 1 .. i - 1 : order'[j] = p
        BY <1>7, <2>6, <2>8, <4>1, <4>2
      <4>5. CanFollow(order, i - 1, order[i])' BY <1>3, <4>2, <4>3, <4>4 DEF CanFollow
      <4>6. ASSUME NEW m \in Present, CanFollow(order, i - 1, m)' PROVE order'[i] <= m
        <5>1. \A j \in 1 .. i - 1 : order'[j] # m BY <4>6 DEF CanFollow
        <5>2. m \in U BY <2>6, <2>8, <4>1, <5>1
        <5>3. PICK l \in 1 .. Len(last) : last[l] = m BY <2>5, <5>2
        <5>4. ~(l < k)
          <6>1. l < k => L + l \in 1 .. i - 1 BY <2>5, <2>6, <4>1
          <6> QED BY <2>7, <5>1, <5>3, <6>1
        <5>5. l = k \/ k < l BY <2>5, <5>4
        <5>6. last[k] \in Nat /\ last[l] \in Nat BY <2>4, <2>5, HookAssumption
        <5>7. last[k] <= last[l]
          <6>1. CASE l = k BY <5>6, <6>1
          <6>2. CASE k < l
            <7>1. last[k] < last[l] BY <2>5, <6>2
            <7> QED BY <5>6, <7>1
          <6> QED BY <5>5, <6>1, <6>2
        <5> QED BY <4>2, <5>3, <5>7
      <4> QED BY <1>3, <4>5, <4>6
    <3> QED BY <2>6, <2>7, <3>1, <3>2
  <2>12. OrderIsLeast'
    <3>1. DOMAIN order' = 1 .. Len(order') BY <2>7
    <3> QED BY <1>3, <2>10, <2>11, <3>1 DEF OrderIsLeast, LeastOrder, Least
  <2>13. ASSUME NEW S \in SUBSET Present, Cyclic(S) PROVE FALSE
    <3>1. S \cap Placed = {} BY <1>1, <2>13 DEF Acyclic
    <3>2. PICK c \in S : \E p \in S : MustPrecede(p, c) BY <2>13 DEF Cyclic
    <3>3. PICK p \in S : MustPrecede(p, c) BY <3>2
    <3>4. p \in Placed BY <1>7, <2>1, <3>2, <3>3
    <3> QED BY <3>1, <3>4
  <2>14. VerdictIsRight' BY <1>3, <2>3, <2>13 DEF VerdictIsRight
  <2>15. TypeOK' BY <1>1, <2>3, <2>7 DEF TypeOK
  <2> QED BY <1>2, <1>3, <2>3, <2>12, <2>14, <2>15 DEF Inv
<1>9. CASE Len(order) # Cardinality(Constrained)
  <2> DEFINE S == Constrained \ Placed
  <2>1. pc' = "cycle" /\ order' = order BY <1>9 DEF Finish
  <2>2. S # {}
    <3>1. Placed # Constrained BY <1>5, <1>9
    <3> QED BY <1>5, <3>1
  <2>3. \A c \in S : \E p \in S : MustPrecede(p, c)
    <3> SUFFICES ASSUME NEW c \in S PROVE \E p \in S : MustPrecede(p, c)
      OBVIOUS
    <3>1. c \in Names /\ indegree[c] # 0 BY <1>1 DEF Counted, Constrained, Found
    <3>2. {p \in Names : Edge(p, c) /\ p \notin Placed} # {}
      BY <1>1, <3>1, NamesAreFinite DEF Counted
    <3> QED BY <1>6, <3>1, <3>2
  <2>4. S \in SUBSET Present /\ Cyclic(S) BY <1>4, <2>2, <2>3 DEF Cyclic
  <2> HIDE DEF S
  <2>5. VerdictIsRight' BY <1>3, <2>1, <2>4 DEF VerdictIsRight
  <2>6. TypeOK' BY <1>1, <2>1 DEF TypeOK
  <2> QED BY <1>2, <1>3, <2>1, <2>5, <2>6 DEF Inv, OrderIsLeast, LeastOrder
<1> QED BY <1>8, <1>9

LEMMA StutterStep == ASSUME Inv, UNCHANGED vars PROVE Inv'
<1>1. /\ tree' = tree /\ dir' = dir /\ hooks' = hooks /\ pc' = pc /\ indegree' = indegree
      /\ ready' = ready /\ order' = order
  BY DEF vars
<1>2. /\ Present' = Present /\ \A S : Cyclic(S)' <=> Cyclic(S)
      /\ (IsMixed' <=> IsMixed) /\ (IsMissing' <=> IsMissing)
      /\ \A n : File(n)' = File(n)
      /\ \A p, c : Edge(p, c)' <=> Edge(p, c)
      /\ Constrained' = Constrained /\ Placed' = Placed
  BY <1>1, FilesStay, GraphStays DEF Placed
<1>3. \A i \in Nat, n \in Names : CanFollow(order, i, n)' <=> CanFollow(order, i, n) BY <1>1, FollowingStays
<1>4. TypeOK' BY <1>1 DEF Inv, TypeOK
<1>5. (Scanned' <=> Scanned) /\ (Merged' <=> Merged)
  BY <1>1, <1>2 DEF Scanned, Merged, Wins
<1>6. Counted' <=> Counted BY <1>1, <1>2 DEF Counted
<1>7. Least' <=> Least
  <2>1. \A i \in 1 .. Len(order) : CanFollow(order, i - 1, order[i])' <=> CanFollow(order, i - 1, order[i])
    BY <1>1, <1>2 DEF CanFollow, MustPrecede
  <2>2. \A i \in 1 .. Len(order) : \A n \in Present : CanFollow(order, i - 1, n)' <=> CanFollow(order, i - 1, n)
    BY <1>1, <1>2 DEF CanFollow, MustPrecede
  <2> QED BY <1>1, <1>2, <2>1, <2>2 DEF Least
<1>8. OrderIsLeast' <=> OrderIsLeast
  <2>1. \A i \in DOMAIN order : CanFollow(order, i - 1, order[i])' <=> CanFollow(order, i - 1, order[i])
    BY <1>1, <1>2 DEF CanFollow, MustPrecede
  <2>2. \A i \in DOMAIN order : \A n \in Present : CanFollow(order, i - 1, n)' <=> CanFollow(order, i - 1, n)
    BY <1>1, <1>2 DEF CanFollow, MustPrecede
  <2> QED BY <1>1, <1>2, <2>1, <2>2 DEF OrderIsLeast, LeastOrder
<1>9. (Acyclic' <=> Acyclic) /\ (VerdictIsRight' <=> VerdictIsRight)
  BY <1>1, <1>2 DEF Acyclic, VerdictIsRight
<1> QED BY <1>1, <1>2, <1>4, <1>5, <1>6, <1>7, <1>8, <1>9 DEF Inv

-----------------------------------------------------------------------------
(* There is one such order *)

\* A set of numbers has a least one.
LEMMA LeastIndex ==
    ASSUME NEW T \in SUBSET Nat, T # {}
    PROVE  \E k \in T : \A l \in T : k <= l
<1>1. PICK k \in T : \A l \in Nat : <<l, k>> \in OpToRel(<, Nat) => l \notin T
  BY NatLessThanWellFounded, WFMin
<1>2. \A l \in Nat : l < k => l \notin T BY <1>1 DEF OpToRel
<1> QED BY <1>2

\* Where two orders agree on the first i, the same hooks can follow.
LEMMA FollowersOfPrefix ==
    ASSUME NEW s, NEW t, NEW i \in Nat, \A j \in 1 .. i : s[j] = t[j]
    PROVE  \A n : CanFollow(s, i, n) <=> CanFollow(t, i, n)
BY DEF CanFollow

\* Two least orders do not differ where both have a hook.
LEMMA LeastOrdersAgree ==
    ASSUME Names \subseteq Nat, TypeOK,
           NEW s \in Seq(Names), LeastOrder(s), NEW t \in Seq(Names), LeastOrder(t)
    PROVE  \A k \in Nat : k \in 1 .. Len(s) /\ k \in 1 .. Len(t) => s[k] = t[k]
<1> DEFINE T == {k \in Nat : k \in 1 .. Len(s) /\ k \in 1 .. Len(t) /\ s[k] # t[k]}
<1> SUFFICES ASSUME T # {} PROVE FALSE
  OBVIOUS
<1>1. PICK k \in T : \A l \in T : k <= l
  <2> HIDE DEF T
  <2>1. T \in SUBSET Nat BY DEF T
  <2> QED BY <2>1, LeastIndex
<1>2. k \in 1 .. Len(s) /\ k \in 1 .. Len(t) /\ s[k] # t[k] /\ k - 1 \in Nat
  OBVIOUS
<1>3. \A j \in 1 .. k - 1 : s[j] = t[j]
  <2> SUFFICES ASSUME NEW j \in 1 .. k - 1, s[j] # t[j] PROVE FALSE
    OBVIOUS
  <2>1. j \in T /\ j < k BY <1>2
  <2> QED BY <1>1, <2>1
<1>4. \A n : CanFollow(s, k - 1, n) <=> CanFollow(t, k - 1, n)
  BY <1>2, <1>3, FollowersOfPrefix
<1>5. /\ CanFollow(s, k - 1, s[k]) /\ \A n \in Present : CanFollow(s, k - 1, n) => s[k] <= n
      /\ CanFollow(t, k - 1, t[k]) /\ \A n \in Present : CanFollow(t, k - 1, n) => t[k] <= n
  <2>1. DOMAIN s = 1 .. Len(s) /\ DOMAIN t = 1 .. Len(t) OBVIOUS
  <2> HIDE DEF T
  <2> QED BY <1>2, <2>1 DEF LeastOrder
<1>6. s[k] \in Present /\ t[k] \in Present /\ s[k] \in Nat /\ t[k] \in Nat
  <2>1. s[k] \in Names /\ t[k] \in Names BY <1>2
  <2> HIDE DEF T
  <2> QED BY <1>5, <2>1 DEF CanFollow
<1>7. s[k] <= t[k] /\ t[k] <= s[k] BY <1>4, <1>5, <1>6
<1> QED BY <1>2, <1>6, <1>7

\* Neither is longer: what the one had more would have to be in the other too.
LEMMA LeastOrderNoShorter ==
    ASSUME Names \subseteq Nat, TypeOK,
           NEW s \in Seq(Names), LeastOrder(s), NEW t \in Seq(Names), LeastOrder(t)
    PROVE  Len(t) <= Len(s)
<1> SUFFICES ASSUME Len(s) < Len(t) PROVE FALSE
  OBVIOUS
<1> DEFINE k == Len(s) + 1
<1>1. k \in 1 .. Len(t) /\ k - 1 = Len(s) OBVIOUS
<1>2. DOMAIN s = 1 .. Len(s) /\ DOMAIN t = 1 .. Len(t) OBVIOUS
<1>3. CanFollow(t, k - 1, t[k]) /\ t[k] \in Present
  BY <1>1, <1>2 DEF LeastOrder, CanFollow
<1>4. PICK j \in 1 .. Len(s) : s[j] = t[k] BY <1>2, <1>3 DEF LeastOrder
<1>5. s[j] = t[j]
  <2>1. j \in Nat /\ j \in 1 .. Len(t) BY <1>1, <1>4
  <2> QED BY <1>4, <2>1, LeastOrdersAgree
<1>6. j \in 1 .. k - 1 BY <1>1, <1>4
<1> HIDE DEF k
<1> QED BY <1>3, <1>4, <1>5, <1>6 DEF CanFollow

\* There is no other least order than that of resolve.
OrderIsOnly == pc = "done" => \A s \in Seq(Names) : LeastOrder(s) => s = order

LEMMA LeastIsOnly == ASSUME Inv PROVE OrderIsOnly
<1> SUFFICES ASSUME pc = "done", NEW s \in Seq(Names), LeastOrder(s) PROVE s = order
  BY DEF OrderIsOnly
<1>1. LeastOrder(order) /\ TypeOK /\ order \in Seq(Names) /\ Names \subseteq Nat
  BY HookAssumption DEF Inv, OrderIsLeast, TypeOK
<1>2. Len(s) <= Len(order) /\ Len(order) <= Len(s) BY <1>1, LeastOrderNoShorter
<1>3. Len(s) = Len(order) BY <1>1, <1>2
<1>4. \A k \in 1 .. Len(s) : s[k] = order[k] BY <1>1, <1>3, LeastOrdersAgree
<1> QED BY <1>1, <1>3, <1>4, SeqEqual

-----------------------------------------------------------------------------
(* Theorems *)

\* The inductive invariant holds throughout a build.
THEOREM InvIsInvariant == Spec => []Inv
<1>1. Init => Inv BY InitInv
<1>2. Inv /\ [Next]_vars => Inv'
  BY DiscoverStep, ImplicitOrderingStep, ResolveStep, PopStep, FinishStep, StutterStep DEF Next
<1> QED BY <1>1, <1>2, PTL DEF Spec

\* The variables keep their types; no hook has fewer than no suppliers left.
THEOREM TypeCorrect == Spec => []TypeOK
<1>1. Inv => TypeOK BY DEF Inv
<1> QED BY <1>1, InvIsInvariant, PTL

\* Whatever the directories hold, the order is the least that they ask for.
THEOREM OrdersAreLeast == Spec => []OrderIsLeast
<1>1. Inv => OrderIsLeast BY DEF Inv
<1> QED BY <1>1, InvIsInvariant, PTL

\* What resolve gives out is decided by the files alone: no other order is the
\* least, and LeastOrder speaks of no directory and of no step of the sort.
THEOREM OrdersAreDetermined == Spec => []OrderIsOnly
<1>1. Inv => OrderIsOnly BY LeastIsOnly
<1> QED BY <1>1, InvIsInvariant, PTL

\* And the build fails for the reason it gives, or for none.
THEOREM VerdictsAreRight == Spec => []VerdictIsRight
<1>1. Inv => VerdictIsRight BY DEF Inv
<1> QED BY <1>1, InvIsInvariant, PTL
=============================================================================
