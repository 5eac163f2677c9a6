-------------------------- MODULE MCFeatLifecycle ---------------------------
(***************************************************************************)
(* Two invocations at a time of four, on a feature that ships all but its  *)
(* disable script.                                                         *)
(***************************************************************************)
EXTENDS FeatLifecycle

MCShips == {"install", "enable", "uninstall"}
=============================================================================
