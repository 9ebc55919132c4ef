---------------------------- MODULE MCGroupBills ----------------------------
(***************************************************************************)
(* Small instances of GroupBills for TLC.                                  *)
(***************************************************************************)
EXTENDS GroupBills, TLC

Symmetry == Permutations(Requests) \cup Permutations(Users)
=============================================================================
