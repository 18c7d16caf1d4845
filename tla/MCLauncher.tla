----------------------------- MODULE MCLauncher -----------------------------
(***************************************************************************)
(* Launcher for TLC; the constants are set in the .cfg file.               *)
(***************************************************************************)
EXTENDS Launcher
=============================================================================
