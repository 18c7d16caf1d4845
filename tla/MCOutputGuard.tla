--------------------------- MODULE MCOutputGuard ---------------------------
(***************************************************************************)
(* Instances of OutputGuard for TLC; the constants are set in the .cfg     *)
(* files.                                                                  *)
(***************************************************************************)
EXTENDS OutputGuard
=============================================================================
