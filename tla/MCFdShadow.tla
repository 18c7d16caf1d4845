----------------------------- MODULE MCFdShadow -----------------------------
(* Instances of FdShadow for TLC; the constants are given in the .cfg files. *)
EXTENDS FdShadow
=============================================================================
