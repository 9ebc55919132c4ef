----------------------------- MODULE MCUserRows -----------------------------
(***************************************************************************)
(* Small instances of UserRows for TLC.                                    *)
(***************************************************************************)
EXTENDS UserRows, TLC

Symmetry == Permutations(Requests)
=============================================================================
