---------------------------- MODULE MCProcLimit ----------------------------
(***************************************************************************)
(* ProcLimit for TLC; the constants are set in the .cfg file.              *)
(***************************************************************************)
EXTENDS ProcLimit
=============================================================================
