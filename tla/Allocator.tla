------------------------------ MODULE Allocator ------------------------------
(***************************************************************************)
(* What a partition table promises to whoever asks it for room: the lowest *)
(* aligned place that is large enough, or the largest there is, and no     *)
(* other partition moves.  Nothing here scans: every place is tried.  A    *)
(* table that already has a problem is promised nothing.                   *)
(***************************************************************************)
EXTENDS Integers

CONSTANTS Align, Sizes, Unused

VARIABLES
    first, last,   \* the usable sectors
    slots          \* what each slot of the table holds

Extent == [start : Nat, end : Nat]

Init ==
    /\ first \in Nat /\ last \in Nat
    /\ slots \in [DOMAIN slots -> Extent \cup {Unused}]

Taken == {i \in DOMAIN slots : slots[i] # Unused}

\* All partitions usable, aligned, and apart from each other.
Orderly ==
    /\ \A i \in Taken : /\ slots[i].start \in first .. slots[i].end
                        /\ slots[i].end <= last /\ slots[i].start % Align = 0
    /\ \A i, j \in Taken :
          i # j => slots[i].end < slots[j].start \/ slots[j].end < slots[i].start

\* n sectors are free from the boundary s on.
Room(s, n) ==
    /\ s \in first .. last /\ s % Align = 0 /\ s + n - 1 <= last
    /\ \A i \in Taken : s + n - 1 < slots[i].start \/ slots[i].end < s

\* The first slot that is unused takes n sectors from s on.
Put(s, n) ==
    /\ \E i \in DOMAIN slots \ Taken :
          /\ \A j \in DOMAIN slots \ Taken : i <= j
          /\ slots' = [slots EXCEPT ![i] = [start |-> s, end |-> s + n - 1]]
    /\ UNCHANGED <<first, last>>

\* The lowest place for n sectors.
Place(n) ==
    \E s \in first .. last :
        /\ Room(s, n) /\ \A t \in first .. last : Room(t, n) => s <= t
        /\ Put(s, n)

\* The largest place, the highest of them when several are.
PlaceLargest ==
    \E s \in first .. last : \E n \in 1 .. last + 1 - s :
        /\ Room(s, n)
        /\ \A t \in first .. last : ~Room(t, n + 1) /\ (Room(t, n) => t <= s)
        /\ Put(s, n)

Remove(i) ==
    /\ i \in Taken
    /\ slots' = [slots EXCEPT ![i] = Unused]
    /\ UNCHANGED <<first, last>>

Clear == \A i \in DOMAIN slots' : slots'[i] = Unused

Unpromised == ~Orderly /\ UNCHANGED <<first, last>>

Next ==
    \/ Unpromised
    \/ \E n \in Sizes : Place(n)
    \/ PlaceLargest
    \/ \E i \in Taken : Remove(i)
    \/ Clear

Spec == Init /\ [][Next]_<<first, last, slots>>
=============================================================================
