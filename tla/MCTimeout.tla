----------------------------- MODULE MCTimeout ------------------------------
(***************************************************************************)
(* TERM, KILL, ALRM and no signal at all; one exit code, and death by a    *)
(* segmentation fault.                                                     *)
(***************************************************************************)
EXTENDS Timeout

MCSignals == {0, 9, 14, 15}
=============================================================================
