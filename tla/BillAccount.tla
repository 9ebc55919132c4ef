----------------------------- MODULE BillAccount -----------------------------
(***************************************************************************)
(* What the bills promise, whoever pays, assigns or deletes them meanwhile: *)
(* a bill is opened once and states one amount for as long as it is there, *)
(* is paid only while it is open and never above its amount, is not opened *)
(* again when it is closed, and takes no money and does not come back when *)
(* it is gone.                                                             *)
(*                                                                         *)
(* Several bills may move in one step: the bills of a batch are deleted    *)
(* together.                                                               *)
(***************************************************************************)
EXTENDS Integers

CONSTANT Bills

VARIABLES
  state,      \* none, open, closed, gone; void: not an account any more
  due,        \* the amount the bill states: 0 when it is not there
  collected   \* what its payments add up to

vars == <<state, due, collected>>

Init ==
  /\ state = [b \in Bills |-> "none"]
  /\ due = [b \in Bills |-> 0]
  /\ collected = [b \in Bills |-> 0]

\* Some of it may be paid from the start: one's own share.
Opens(b) ==
  /\ state[b] = "none"
  /\ state'[b] \in {"open", "closed"}
  /\ collected'[b] <= due'[b]

\* A payment: the bill stays open only when something is left.
Collects(b) ==
  /\ state[b] = "open"
  /\ due'[b] = due[b]
  /\ collected[b] < collected'[b] /\ collected'[b] <= due[b]
  /\ \/ state'[b] = "closed"
     \/ state'[b] = "open" /\ collected'[b] < due[b]

\* The row is deleted; what was paid stays paid.
Goes(b) ==
  /\ state[b] \in {"open", "closed"}
  /\ state'[b] = "gone"
  /\ due'[b] = 0
  /\ collected'[b] = collected[b]

\* Its row is, or may be, overwritten from a copy that was read before.
Spoils(b) ==
  /\ state'[b] = "void"
  /\ due'[b] = 0
  /\ collected'[b] = 0

Keeps(b) ==
  /\ state'[b] = state[b]
  /\ due'[b] = due[b]
  /\ collected'[b] = collected[b]

Next == \A b \in Bills : Keeps(b) \/ Opens(b) \/ Collects(b) \/ Goes(b) \/ Spoils(b)

Spec == Init /\ [][Next]_vars
=============================================================================
