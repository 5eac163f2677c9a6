--------------------------- MODULE MCDynamicBoot ----------------------------
(***************************************************************************)
(* Two files and two edits, so that a file can have one version when it is *)
(* judged, another when it is packed and a third when mkirf waits; the     *)
(* tree cannot be built while the first is ahead of the second by its only *)
(* edit.  An upgrade of the kernel, two kills and one watch error.         *)
(***************************************************************************)
EXTENDS DynamicBoot

CONSTANTS f1, f2, r1, r2

MCBad == {c \in Contents : c[f1] = 1 /\ c[f2] = 0}
=============================================================================
