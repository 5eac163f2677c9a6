----------------------------- MODULE MCGptDisk ------------------------------
(***************************************************************************)
(* A disk with one partition, and commands that add, delete or start over. *)
(***************************************************************************)
EXTENDS GptDisk, TLC

CONSTANTS g0, g1, a, b, c

MCGuids == {g0, g1}
MCParts == {a, b}
MCFirstTables == {[guid |-> g0, parts |-> {a}]}

\* Room for two additions.
MCThreeParts == {a, b, c}

\* The processes are interchangeable, and no checked property of the run that
\* uses this is a liveness property.
Symmetry == Permutations(Procs)
=============================================================================
