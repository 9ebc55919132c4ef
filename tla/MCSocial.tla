------------------------------ MODULE MCSocial ------------------------------
(***************************************************************************)
(* Small instances of Social for TLC.                                      *)
(***************************************************************************)
EXTENDS Social, TLC

Symmetry == Permutations(Users) \cup Permutations(Requests)
=============================================================================
