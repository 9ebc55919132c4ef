---------------------------- MODULE MCWalletLedger ----------------------------
(***************************************************************************)
(* Small instances of WalletLedger for TLC.                                *)
(***************************************************************************)
EXTENDS WalletLedger, TLC

CONSTANTS u1, u2, b1, batch1

OpeningOf(n1, n2) == (u1 :> n1) @@ (u2 :> n2)

NothingHeld == OpeningOf(0, 0)
SomeHeld == OpeningOf(0, 2)
BothHold == OpeningOf(3, 2)

Offer(creditor, debtor, amount) ==
  [creditor |-> creditor, debtor |-> debtor, referenceId |-> batch1,
   amount |-> amount, paid |-> 0, isPaid |-> FALSE]

\* u2 owes u1: two payments of 2 are too much, a 1 and a 2 are exact.
OneDebt == {Offer(u1, u2, 3)}

\* u2 owes u1, or itself.
OwnDebt == {Offer(u1, u2, 3), Offer(u2, u2, 3)}

\* A debt that one payment does not reach, in as many digits as its amount.
LargeDebt == {Offer(u1, u2, 9)}

NoDebt == {}

IdSymmetry == Permutations(Ids)
=============================================================================
