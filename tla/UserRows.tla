------------------------------ MODULE UserRows ------------------------------
(***************************************************************************)
(* Who writes the rows of users.  A change of a password or a profile      *)
(* names its columns.  The push subscription and the links of friends read *)
(* a row, await others, and write back the whole of what they have read.   *)
(*                                                                         *)
(* A column is known by the request that wrote it: Null for what it was    *)
(* registered with, and for no subscription.  A request of Requests is     *)
(* used once.                                                              *)
(***************************************************************************)
CONSTANTS
  Users,
  Requests,
  Null

ASSUME NullAssumption == Null \notin Users \cup Requests

VARIABLES
  live,        \* users who have a row
  row,         \* its columns
  dead,        \* subscriptions the push service answers with 404 or 410
  stage,       \* what a handler awaits
  of,          \* its user
  copy,        \* the row it is going to write
  base,        \* the row save() has selected to compare it with
  \* history
  last,        \* what was last written to a column on purpose
  overlapped,  \* <<user, column>>: when it was, another handler held a copy
  removed      \* users who were removed

locals == <<of, copy, base>>
history == <<last, overlapped, removed>>
vars == <<live, row, dead, stage, locals, history>>

-----------------------------------------------------------------------------
(***************************************************************************)
(* Rows                                                                    *)
(***************************************************************************)

Columns == {"password", "profile", "subscription"}
Row == [Columns -> Requests \cup {Null}]
Blank == [c \in Columns |-> Null]

Init ==
  /\ live = Users
  /\ row = [u \in Users |-> Blank]
  /\ dead = {}
  /\ stage = [r \in Requests |-> "idle"]
  /\ of = [r \in Requests |-> Null]
  /\ copy = [r \in Requests |-> Blank]
  /\ base = [r \in Requests |-> Blank]
  /\ last = [u \in Users |-> Blank]
  /\ overlapped = {}
  /\ removed = {}

Goes(r, next) == stage' = [stage EXCEPT ![r] = next]

\* The handler is over, and its variables are gone.
Ends(r) ==
  /\ Goes(r, "done")
  /\ of' = [of EXCEPT ![r] = Null]
  /\ copy' = [copy EXCEPT ![r] = Blank]
  /\ base' = [base EXCEPT ![r] = Blank]

Saving == {"select", "update", "insert"}
Holds(s, u) == of[s] = u

\* r has written what u wanted.
Noted(r, u, c, value) ==
  /\ last' = [last EXCEPT ![u][c] = value]
  /\ overlapped' = IF \E s \in Requests \ {r} : Holds(s, u)
                   THEN overlapped \cup {<<u, c>>} ELSE overlapped \ {<<u, c>>}
  /\ UNCHANGED removed

-----------------------------------------------------------------------------
(***************************************************************************)
(* One column                                                              *)
(***************************************************************************)

SetColumn(r, u, c) ==
  /\ stage[r] = "idle"
  /\ u \in live
  /\ row' = [row EXCEPT ![u][c] = r]
  /\ Noted(r, u, c, r)
  /\ Ends(r)
  /\ UNCHANGED <<live, dead>>

\* update() of a body with columns of the profile: its lookups refuse what the
\* unique columns refuse.
Update(r, u) == SetColumn(r, u, "profile")

\* updatePassword with the right old password, one that was right when it was
\* read included.
UpdatePassword(r, u) == SetColumn(r, u, "password")

RemoveUser(u) ==
  /\ u \in live
  /\ live' = live \ {u}
  /\ removed' = removed \cup {u}
  /\ overlapped' = IF \E s \in Requests : Holds(s, u) /\ stage[s] \in Saving
                   THEN overlapped \cup {<<u, "id">>} ELSE overlapped
  /\ UNCHANGED <<row, dead, stage, locals, last>>

-----------------------------------------------------------------------------
(***************************************************************************)
(* Push subscriptions                                                      *)
(***************************************************************************)

Reads(r, u, mine, next) ==
  /\ stage[r] = "idle"
  /\ u \in live
  /\ of' = [of EXCEPT ![r] = u]
  /\ copy' = [copy EXCEPT ![r] = mine]
  /\ Goes(r, next)
  /\ UNCHANGED <<live, row, dead, base, history>>

Subscribe(r, u) == Reads(r, u, [row[u] EXCEPT !.subscription = r], "store")

JsonNull(user) ==                                \* mutant: the word
  [user EXCEPT !.subscription = "null"]
Unsubscribed(user) == [user EXCEPT !.subscription = Null]

\* The endpoint is the one of the row: another changes nothing.
Unsubscribe(r, u) ==
  /\ row[u].subscription # Null
  /\ Reads(r, u, Unsubscribed(row[u]), "store")

\* send, up to the answer of the push service.
Send(r, u) ==
  /\ row[u].subscription # Null
  /\ Reads(r, u, row[u], "push")

\* A subscription expires, or is revoked in the browser.
Expire(s) ==
  /\ stage[s] # "idle"
  /\ s \notin dead
  /\ dead' = dead \cup {s}
  /\ UNCHANGED <<live, row, stage, locals, history>>

AnyError(s) == TRUE                              \* mutant: no status code
IsDead(s) == s \in dead

OnDeadSubscription(r) ==
  /\ stage[r] = "push"
  /\ IsDead(copy[r].subscription)
  /\ copy' = [copy EXCEPT ![r] = Unsubscribed(@)]
  /\ Goes(r, "cleanUp")
  /\ UNCHANGED <<live, row, dead, of, base, history>>

\* update() with a whole user: the row of that id, if there is one.
SavesUser(r) ==                                  \* mutant: save() for update()
  /\ live' = live \cup {of[r]}
  /\ row' = [row EXCEPT ![of[r]] = copy[r]]
UpdatesUser(r) ==
  /\ row' = IF of[r] \in live THEN [row EXCEPT ![of[r]] = copy[r]] ELSE row
  /\ UNCHANGED live

StoreSubscription(r) ==
  /\ stage[r] = "store"
  /\ UpdatesUser(r)
  /\ IF of[r] \in live THEN Noted(r, of[r], "subscription", copy[r].subscription)
                       ELSE UNCHANGED history
  /\ Ends(r)
  /\ UNCHANGED dead

CleanUp(r) ==
  /\ stage[r] = "cleanUp"
  /\ UpdatesUser(r)
  /\ Ends(r)
  /\ UNCHANGED <<dead, history>>

-----------------------------------------------------------------------------
(***************************************************************************)
(* Links                                                                   *)
(***************************************************************************)

\* What a link does with each of the two users who do not list each other yet:
\* it reads the row, and saves it with a longer array of friends.
Link(r, u) == Reads(r, u, row[u], "select")

SaveSelect(r) ==
  /\ stage[r] = "select"
  /\ base' = [base EXCEPT ![r] = IF of[r] \in live THEN row[of[r]] ELSE Blank]
  /\ Goes(r, IF of[r] \in live THEN "update" ELSE "insert")
  /\ UNCHANGED <<live, row, dead, of, copy, history>>

\* The columns in which the copy differs from what was selected.
Merged(r, user) == [c \in Columns |-> IF copy[r][c] = base[r][c] THEN user[c] ELSE copy[r][c]]

SaveUpdate(r) ==
  /\ stage[r] = "update"
  /\ row' = IF of[r] \in live THEN [row EXCEPT ![of[r]] = Merged(r, @)] ELSE row
  /\ Ends(r)
  /\ UNCHANGED <<live, dead, history>>

SaveInsert(r) ==
  /\ stage[r] = "insert"
  /\ of[r] \notin live
  /\ live' = live \cup {of[r]}
  /\ row' = [row EXCEPT ![of[r]] = copy[r]]
  /\ Ends(r)
  /\ UNCHANGED <<dead, history>>

\* A push is delivered or fails otherwise, a lookup refuses, a statement fails,
\* the process dies: nothing more is written.
Returns(r) ==
  /\ stage[r] \notin {"idle", "done"}
  /\ Ends(r)
  /\ UNCHANGED <<live, row, dead, history>>

Next ==
  \/ \E r \in Requests :
       \/ \E u \in Users : \/ Update(r, u)
                           \/ UpdatePassword(r, u)
                           \/ Subscribe(r, u)
                           \/ Unsubscribe(r, u)
                           \/ Send(r, u)
                           \/ Link(r, u)
       \/ OnDeadSubscription(r)
       \/ StoreSubscription(r)
       \/ CleanUp(r)
       \/ SaveSelect(r)
       \/ SaveUpdate(r)
       \/ SaveInsert(r)
       \/ Returns(r)
       \/ Expire(r)
  \/ \E u \in Users : RemoveUser(u)

Spec == Init /\ [][Next]_vars

-----------------------------------------------------------------------------
(***************************************************************************)
(* Properties                                                              *)
(***************************************************************************)

\* Every column and local variable keeps its type.
TypeOK ==
  /\ live \subseteq Users
  /\ row \in [Users -> Row]
  /\ dead \subseteq Requests
  /\ stage \in [Requests -> {"idle", "store", "push", "cleanUp", "done"} \cup Saving]
  /\ of \in [Requests -> Users \cup {Null}]
  /\ copy \in [Requests -> Row]
  /\ base \in [Requests -> Row]
  /\ last \in [Users -> Row]
  /\ overlapped \subseteq Users \X (Columns \cup {"id"})
  /\ removed \subseteq Users

\* What a user can find in a column: what was last written there on purpose, or
\* no subscription, once that one is dead.
Kept(u, c, value) ==
  \/ value = last[u][c]
  \/ c = "subscription" /\ value = Null /\ last[u][c] \in dead

\* A new password, profile or subscription stays, unless a handler that writes
\* whole rows had read the row before: then, and only then, it may be undone.
ChangesAreKept ==
  \A u \in live, c \in Columns : Kept(u, c, row[u][c]) \/ <<u, c>> \in overlapped

\* A removed user does not come back, unless a link had read the row before.
RemovedStaysRemoved == \A u \in removed : u \notin live \/ <<u, "id">> \in overlapped
=============================================================================
