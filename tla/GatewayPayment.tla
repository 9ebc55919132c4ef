--------------------------- MODULE GatewayPayment ---------------------------
(***************************************************************************)
(* What the gateway payments of WalletService promise, whatever the order  *)
(* and number of callbacks: a payment is settled at most once, credits a   *)
(* wallet exactly then, only after the gateway has verified it, and is     *)
(* final afterwards.  A failed payment may still be settled, for the       *)
(* customer may pay after a refused attempt.                               *)
(***************************************************************************)
EXTENDS Integers

CONSTANT Ids   \* money requests

VARIABLES
  status,      \* of the payment's row in wallet_transactions
  captured,    \* payments the gateway has verified
  credits      \* how often a wallet was credited for the payment

vars == <<status, captured, credits>>

Init ==
  /\ status = [id \in Ids |-> "NONE"]
  /\ captured = {}
  /\ credits = [id \in Ids |-> 0]

\* The payment is recorded.
Open(id) ==
  /\ status[id] = "NONE"
  /\ status' = [status EXCEPT ![id] = "PENDING"]
  /\ UNCHANGED <<captured, credits>>

\* The gateway refuses it, or cannot be asked for it.
Fail(id) ==
  /\ status[id] = "PENDING"
  /\ status' = [status EXCEPT ![id] = "FAILED"]
  /\ UNCHANGED <<captured, credits>>

\* The gateway verifies, and keeps, the customer's money: never for a payment
\* that is not on record.
Capture(id) ==
  /\ status[id] # "NONE"
  /\ captured' = captured \cup {id}
  /\ UNCHANGED <<status, credits>>

\* The payment credits a wallet and is done.
Settle(id) ==
  /\ id \in captured
  /\ status[id] \in {"PENDING", "FAILED"}
  /\ status' = [status EXCEPT ![id] = "SUCCESS"]
  /\ credits' = [credits EXCEPT ![id] = @ + 1]
  /\ UNCHANGED captured

Next == \E id \in Ids : Open(id) \/ Fail(id) \/ Capture(id) \/ Settle(id)

Spec == Init /\ [][Next]_vars
=============================================================================
