---------------------------- MODULE MCLoopMount -----------------------------
(***************************************************************************)
(* Two commands, two devices, one mount point, one file and two offsets.   *)
(***************************************************************************)
EXTENDS LoopMount, TLC

CONSTANTS p1, p2, d1, d2, t1, f1

MCProcs == {p1, p2}
MCDevs == {d1, d2}
Symmetry == Permutations(MCProcs) \cup Permutations(MCDevs)
=============================================================================
