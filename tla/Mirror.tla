------------------------------- MODULE Mirror -------------------------------
(***************************************************************************)
(* A copy that follows its source: the files of the source only get newer, *)
(* and each copy that is published holds, of every file, some version that *)
(* the source has had since the copy before.  How far the copy is behind,  *)
(* and whether its files were read at one moment, is left open.            *)
(***************************************************************************)
EXTENDS Naturals

CONSTANTS Files, None

VARIABLES source, copy   \* the version of each file, or None

\* x has no file that is newer than in y.
NoNewer(x, y) == x # None => y # None /\ \A f \in Files : x[f] <= y[f]

Init == copy = None

Change == NoNewer(source, source') /\ UNCHANGED copy

Publish == NoNewer(copy, copy') /\ NoNewer(copy', source) /\ UNCHANGED source

Next == Change \/ Publish

Spec == Init /\ [][Next]_<<source, copy>>
=============================================================================
