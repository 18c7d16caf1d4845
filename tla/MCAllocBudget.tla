--------------------------- MODULE MCAllocBudget ---------------------------
(* Instances of AllocBudget for TLC; the constants are given in the .cfg files. *)
EXTENDS AllocBudget
=============================================================================
