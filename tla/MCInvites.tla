----------------------------- MODULE MCInvites -----------------------------
(***************************************************************************)
(* Small instances of Invites for TLC.                                     *)
(***************************************************************************)
EXTENDS Invites, TLC

Symmetry == Permutations(Requests)
=============================================================================
