------------------------------ MODULE HookOrder ------------------------------
(***************************************************************************)
(* The order in which the hooks of an initramfs run, as mkirf resolves it: *)
(* the directories are merged by precedence, what is not part of           *)
(* initramfs-ready is put after it, the declarations are checked, and the  *)
(* hooks that declared something are sorted by Kahn's algorithm, one per   *)
(* step.  A hook is its name, a number; names compare as numbers do.       *)
(***************************************************************************)
EXTENDS Integers, Sequences, FiniteSets

CONSTANTS
    Names,   \* file names of hooks
    Caps,    \* capabilities
    Ready,   \* initramfs-ready
    Trees,   \* what the hook directories may hold
    None

Dirs == 1 .. 3   \* HOOK_DIRS: lcl, usr, and the legacy hooks/

\* The metadata of a hook; a list is the set of what it names.
Hook == [provides : SUBSET Caps, contributes : SUBSET Caps,
         requires : SUBSET Caps, after : SUBSET Caps]

ASSUME HookAssumption ==
    /\ Names \subseteq Nat /\ IsFiniteSet(Names)
    /\ Ready \in Caps /\ None \notin Hook
    /\ Trees \subseteq [Dirs -> [Names -> Hook \cup {None}]]

VARIABLES
    tree,       \* the hook of each name in each directory, or None
    dir,        \* the next directory to scan
    hooks,      \* the hook of each name, or None
    pc,         \* "discover", "resolve", "sort", and how it ended: "done",
                \* or the error "mixed", "missing" or "cycle"
    indegree, ready,
    order       \* the names in the order of execution

vars == <<tree, dir, hooks, pc, indegree, ready, order>>

Init ==
    /\ tree \in Trees
    /\ dir = 1 /\ hooks = [n \in Names |-> None]
    /\ pc = "discover"
    /\ indegree = [n \in Names |-> 0] /\ ready = {} /\ order = <<>>

-----------------------------------------------------------------------------
(* What a hook declares *)

Supplies(h) == h.provides \cup h.contributes
Consumes(h) == h.requires \cup h.after
IsConstrained(h) == Supplies(h) # {} \/ Consumes(h) # {}

Found == {n \in Names : hooks[n] # None}
Constrained == {n \in Found : IsConstrained(hooks[n])}

\* Supplier p runs before consumer c.
Edge(p, c) ==
    /\ p \in Constrained /\ c \in Constrained /\ p # c
    /\ Supplies(hooks[p]) \cap Consumes(hooks[c]) # {}

\* A capability is either alternatives or contributors.
Mixed == \E p, c \in Found : hooks[p].provides \cap hooks[c].contributes # {}

\* Mutant: what is to be waited for softly must be supplied as well.
MissingAfter ==
    \E c \in Found : \E cap \in Consumes(hooks[c]) : \A p \in Found : cap \notin Supplies(hooks[p])

Missing ==
    \E c \in Found : \E cap \in hooks[c].requires : \A p \in Found : cap \notin Supplies(hooks[p])

-----------------------------------------------------------------------------
(* The steps *)

\* Mutant: a later directory wins.
DiscoverLast ==
    /\ pc = "discover" /\ dir \in Dirs
    /\ hooks' = [n \in Names |-> IF tree[dir][n] # None THEN tree[dir][n] ELSE hooks[n]]
    /\ dir' = dir + 1
    /\ UNCHANGED <<tree, pc, indegree, ready, order>>

\* discover_all: a name that an earlier directory holds is shadowed.
Discover ==
    /\ pc = "discover" /\ dir \in Dirs
    /\ hooks' = [n \in Names |-> IF hooks[n] = None THEN tree[dir][n] ELSE hooks[n]]
    /\ dir' = dir + 1
    /\ UNCHANGED <<tree, pc, indegree, ready, order>>

\* A hook that declares something, and is no part of initramfs-ready, waits for it.
WaitsForReady(h) ==
    IF h # None /\ IsConstrained(h) /\ Ready \notin Supplies(h) \cup Consumes(h)
    THEN [h EXCEPT !.after = @ \cup {Ready}] ELSE h

\* apply_implicit_ordering, and there is nothing to resolve where there is no hook.
ImplicitOrdering ==
    /\ pc = "discover" /\ dir \notin Dirs
    /\ hooks' = [n \in Names |-> WaitsForReady(hooks[n])]
    /\ pc' = IF Found = {} THEN "done" ELSE "resolve"
    /\ UNCHANGED <<tree, dir, indegree, ready, order>>

\* resolve: the checks, and the graph of the sort.
Resolve ==
    /\ pc = "resolve"
    /\ pc' = IF Mixed THEN "mixed" ELSE IF Missing THEN "missing" ELSE "sort"
    /\ indegree' = [c \in Names |-> Cardinality({p \in Names : Edge(p, c)})]
    /\ ready' = {c \in Constrained : indegree'[c] = 0}
    /\ UNCHANGED <<tree, dir, hooks, order>>

\* Mutant: a hook becomes ready with the first of its suppliers.
PopEager(n) ==
    /\ pc = "sort" /\ n \in ready /\ \A m \in ready : n <= m
    /\ order' = Append(order, n)
    /\ indegree' = [c \in Names |-> IF Edge(n, c) THEN indegree[c] - 1 ELSE indegree[c]]
    /\ ready' = (ready \ {n}) \cup {c \in Names : Edge(n, c)}
    /\ UNCHANGED <<tree, dir, hooks, pc>>

\* kahn_sort: the smallest name that is ready, and whom it makes ready.
Pop(n) ==
    /\ pc = "sort" /\ n \in ready /\ \A m \in ready : n <= m
    /\ order' = Append(order, n)
    /\ indegree' = [c \in Names |-> IF Edge(n, c) THEN indegree[c] - 1 ELSE indegree[c]]
    /\ ready' = (ready \ {n}) \cup {c \in Names : Edge(n, c) /\ indegree'[c] = 0}
    /\ UNCHANGED <<tree, dir, hooks, pc>>

\* The enumerations of a set of names in their order (there is one).
InNameOrder(S) ==
    {s \in [1 .. Cardinality(S) -> S] :
        /\ \A n \in S : \E i \in DOMAIN s : s[i] = n
        /\ \A i, j \in DOMAIN s : i < j => s[i] < s[j]}

\* Those that declared nothing run last, if the sort placed all others.
Finish ==
    /\ pc = "sort" /\ ready = {}
    /\ IF Len(order) = Cardinality(Constrained)
       THEN /\ pc' = "done"
            /\ \E last \in InNameOrder(Found \ Constrained) : order' = order \o last
       ELSE pc' = "cycle" /\ UNCHANGED order
    /\ UNCHANGED <<tree, dir, hooks, indegree, ready>>

Next ==
    \/ Discover \/ ImplicitOrdering \/ Resolve \/ Finish
    \/ \E n \in Names : Pop(n)

Spec == Init /\ [][Next]_vars

-----------------------------------------------------------------------------
(* Properties: what the directories ask for *)

TypeOK ==
    /\ tree \in [Dirs -> [Names -> Hook \cup {None}]] /\ dir \in 1 .. 4
    /\ hooks \in [Names -> Hook \cup {None}]
    /\ pc \in {"discover", "resolve", "sort", "done", "mixed", "missing", "cycle"}
    /\ indegree \in [Names -> Nat] /\ ready \subseteq Names /\ order \in Seq(Names)

\* The file that counts for a name.
Wins(d, n) == tree[d][n] # None /\ \A e \in Dirs : e < d => tree[e][n] = None
Present == {n \in Names : \E d \in Dirs : Wins(d, n)}
File(n) == tree[CHOOSE d \in Dirs : Wins(d, n)][n]

\* x runs before y: it supplies what y waits for, or initramfs-ready of which y
\* is no part; or y declared nothing.
Precedes(x, y) ==
    /\ IsConstrained(x)
    /\ \/ ~IsConstrained(y)
       \/ Supplies(x) \cap Consumes(y) # {}
       \/ Ready \in Supplies(x) \ Supplies(y)
MustPrecede(p, n) == p # n /\ Precedes(File(p), File(n))

\* What can be next after the first i of an order s.
CanFollow(s, i, n) ==
    /\ n \in Present /\ \A j \in 1 .. i : s[j] # n
    /\ \A p \in Present : MustPrecede(p, n) => \E j \in 1 .. i : s[j] = p

\* s is the least of the orders that run every hook that no other shadows once
\* and after all that precede it: each is the smallest that can follow.
LeastOrder(s) ==
    /\ \A n \in Present : \E i \in DOMAIN s : s[i] = n
    /\ \A i \in DOMAIN s : /\ CanFollow(s, i - 1, s[i])
                           /\ \A n \in Present : CanFollow(s, i - 1, n) => s[i] <= n

\* The order of resolve, once there is one, is the least that the directories
\* ask for: it is the same wherever the hooks were found and in whatever turn.
OrderIsLeast == pc = "done" => LeastOrder(order)

\* A set in which every hook waits for another.
Cyclic(S) == S # {} /\ \A c \in S : \E p \in S : MustPrecede(p, c)

IsMixed == \E p, c \in Present : File(p).provides \cap File(c).contributes # {}
IsMissing ==
    \E c \in Present : \E cap \in File(c).requires :
        \A p \in Present : cap \notin Supplies(File(p))

\* The build fails with the error that is there, and only then: a capability of
\* both kinds, a requirement that nothing supplies, a cycle; a hook that waits
\* for what it supplies alone is no cycle.
VerdictIsRight ==
    /\ pc = "mixed" => IsMixed
    /\ pc = "missing" => ~IsMixed /\ IsMissing
    /\ pc = "cycle" => ~IsMixed /\ ~IsMissing /\ \E S \in SUBSET Present : Cyclic(S)
    /\ pc = "done" => ~IsMixed /\ ~IsMissing /\ ~\E S \in SUBSET Present : Cyclic(S)
=============================================================================
