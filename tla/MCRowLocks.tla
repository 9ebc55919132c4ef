----------------------------- MODULE MCRowLocks -----------------------------
(***************************************************************************)
(* Small instances of RowLocks for TLC.                                    *)
(***************************************************************************)
EXTENDS RowLocks, TLC

CONSTANTS p1, p2, batch1

\* Two users who owe each other.
MutualBills == (1 :> [creditor |-> 1, debtor |-> 2]) @@ (2 :> [creditor |-> 2, debtor |-> 1])

OneBatch == batch1 :> <<1, 2>>

\* The first bill is being paid at the gateway; so is a top-up.
TwoPayments == (p1 :> [payer |-> 2, bill |-> 1]) @@ (p2 :> [payer |-> 1, bill |-> NoBill])

TxSymmetry == Permutations(Txs)
=============================================================================
