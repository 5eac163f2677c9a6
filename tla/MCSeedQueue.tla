---------------------------- MODULE MCSeedQueue -----------------------------
(***************************************************************************)
(* Two seeds and three releases: the second drops a seed of the first, the *)
(* third names both.                                                       *)
(***************************************************************************)
EXTENDS SeedQueue

CONSTANTS s1, s2

MCSeeds == {s1, s2}
MCAsks == <<{s1}, {s2}, {s1, s2}>>
=============================================================================
