----------------------------- MODULE MCAccounts -----------------------------
(***************************************************************************)
(* Small instances of Accounts for TLC.                                    *)
(***************************************************************************)
EXTENDS Accounts, TLC

PhonesAndRequests == Permutations(Phones) \cup Permutations(Requests)
=============================================================================
