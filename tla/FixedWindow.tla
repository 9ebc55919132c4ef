----------------------------- MODULE FixedWindow -----------------------------
(***************************************************************************)
(* What the rate limiter of the invites promises: a client passes as often *)
(* as the maximum allows in a window that begins with its first attempt,   *)
(* is refused exactly when it has used the window up, and starts afresh    *)
(* at the moment the window ends, when nothing is left of it.              *)
(***************************************************************************)
EXTENDS Integers

CONSTANTS
  Clients,
  Attempts,    \* each of one client
  Client(_),
  Max,         \* passes in a window
  Length       \* of a window, in units of time

VARIABLES
  window,      \* of a client: how much of it is used, and how long is left
  passes,
  refusals

vars == <<window, passes, refusals>>

None == [used |-> 0, left |-> 0]
Empty == [c \in Clients |-> None]

Init ==
  /\ window = Empty
  /\ passes = {}
  /\ refusals = {}

UsedUp(c) == window[c].used >= Max

Pass(a) ==
  LET c == Client(a) IN
  /\ passes' = passes \cup {a}
  /\ UNCHANGED refusals
  /\ ~UsedUp(c)
  /\ window' = [window EXCEPT ![c] =
       IF @ = None THEN [used |-> 1, left |-> Length]
                   ELSE [used |-> @.used + 1, left |-> @.left]]

Refuse(a) ==
  /\ refusals' = refusals \cup {a}
  /\ UNCHANGED passes
  /\ UsedUp(Client(a))
  /\ UNCHANGED window

\* A window of which nothing is left is forgotten.
Tick ==
  /\ window' = [c \in Clients |->
       IF window[c].left <= 1 THEN None ELSE [used |-> window[c].used, left |-> window[c].left - 1]]
  /\ UNCHANGED <<passes, refusals>>

\* With the process everything is forgotten.
Restart ==
  /\ window' = Empty
  /\ passes' = {}
  /\ refusals' = {}

Next == (\E a \in Attempts : Pass(a) \/ Refuse(a)) \/ Tick \/ Restart

Spec == Init /\ [][Next]_vars
=============================================================================
