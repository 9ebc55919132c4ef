---------------------------- MODULE UserRowsProofs ----------------------------
(***************************************************************************)
(* Theorems about UserRows, for any users and any number of requests.      *)
(***************************************************************************)
EXTENDS UserRows, TLAPS

-----------------------------------------------------------------------------
(***************************************************************************)
(* Types                                                                   *)
(***************************************************************************)

\* A handler that has started and is not over has a user.
HandlerShape == \A r \in Requests : stage[r] \notin {"idle", "done"} => of[r] \in Users
IdleShape == \A r \in Requests : stage[r] \in {"idle", "done"} => of[r] = Null

Typed == TypeOK /\ HandlerShape /\ IdleShape

LEMMA TypedInit == Init => Typed
BY DEF Init, Typed, TypeOK, HandlerShape, IdleShape, Row, Blank

\* A handler that ends.
LEMMA EndsTyped ==
  ASSUME Typed, NEW r \in Requests, Ends(r)
  PROVE  /\ stage' \in [Requests -> {"idle", "store", "push", "cleanUp", "done"} \cup Saving]
         /\ of' \in [Requests -> Users \cup {Null}]
         /\ copy' \in [Requests -> Row]
         /\ base' \in [Requests -> Row]
         /\ HandlerShape' /\ IdleShape'
         /\ stage'[r] = "done" /\ of'[r] = Null
         /\ \A s \in Requests \ {r} : /\ stage'[s] = stage[s] /\ of'[s] = of[s]
                                      /\ copy'[s] = copy[s]
<1>1. Blank \in Row
  BY DEF Blank, Row
<1>2. /\ stage' \in [Requests -> {"idle", "store", "push", "cleanUp", "done"} \cup Saving]
      /\ of' \in [Requests -> Users \cup {Null}]
      /\ copy' \in [Requests -> Row]
      /\ base' \in [Requests -> Row]
  BY <1>1 DEF Ends, Goes, Typed, TypeOK
<1>3. /\ stage'[r] = "done" /\ of'[r] = Null
      /\ \A s \in Requests \ {r} : /\ stage'[s] = stage[s] /\ of'[s] = of[s]
                                   /\ copy'[s] = copy[s]
  BY DEF Ends, Goes, Typed, TypeOK
<1>4. HandlerShape' /\ IdleShape'
  BY <1>3 DEF HandlerShape, IdleShape, Typed
<1> QED BY <1>2, <1>3, <1>4

\* A handler that reads its user's row.
LEMMA ReadsTyped ==
  ASSUME Typed, NEW r \in Requests, NEW u \in Users, NEW mine \in Row,
         NEW next \in {"store", "push", "select"}, Reads(r, u, mine, next)
  PROVE  /\ Typed'
         /\ of'[r] = u /\ copy'[r] = mine /\ stage'[r] = next
         /\ \A s \in Requests \ {r} : /\ stage'[s] = stage[s] /\ of'[s] = of[s]
                                      /\ copy'[s] = copy[s]
<1>1. TypeOK'
  BY DEF Reads, Goes, history, Typed, TypeOK, Saving
<1>2. /\ of'[r] = u /\ copy'[r] = mine /\ stage'[r] = next
      /\ \A s \in Requests \ {r} : /\ stage'[s] = stage[s] /\ of'[s] = of[s]
                                   /\ copy'[s] = copy[s]
  BY DEF Reads, Goes, Typed, TypeOK
<1>3. HandlerShape' /\ IdleShape'
  BY <1>2 DEF HandlerShape, IdleShape, Typed
<1> QED BY <1>1, <1>2, <1>3 DEF Typed

\* What Subscribe and Unsubscribe are going to write.
LEMMA SubscriptionTyped ==
  ASSUME NEW user \in Row, NEW value \in Requests \cup {Null}
  PROVE  /\ [user EXCEPT !.subscription = value] \in Row
         /\ [user EXCEPT !.subscription = value].subscription = value
         /\ \A c \in Columns \ {"subscription"} :
              [user EXCEPT !.subscription = value][c] = user[c]
BY DEF Row, Columns

\* What is noted is typed.
LEMMA NotedTyped ==
  ASSUME Typed, NEW r \in Requests, NEW u \in Users, NEW c \in Columns,
         NEW value \in Requests \cup {Null}, Noted(r, u, c, value)
  PROVE  /\ last' \in [Users -> Row]
         /\ overlapped' \subseteq Users \X (Columns \cup {"id"})
         /\ removed' \subseteq Users
         /\ last'[u][c] = value
         /\ \A v \in Users, d \in Columns :
              <<v, d>> # <<u, c>> => /\ last'[v][d] = last[v][d]
                                     /\ <<v, d>> \in overlapped' <=> <<v, d>> \in overlapped
BY DEF Noted, Typed, TypeOK, Row

\* Each step keeps the types.
LEMMA TypedStep == Typed /\ [Next]_vars => Typed'
<1> SUFFICES ASSUME Typed, [Next]_vars
             PROVE  Typed'
  OBVIOUS
<1>1. ASSUME NEW r \in Requests, NEW u \in Users, NEW c \in Columns, SetColumn(r, u, c)
      PROVE  Typed'
  <2>1. row' \in [Users -> Row]
    BY <1>1 DEF SetColumn, Typed, TypeOK, Row
  <2> QED BY <1>1, <2>1, EndsTyped, NotedTyped DEF SetColumn, Typed, TypeOK
<1>2. ASSUME NEW r \in Requests, NEW u \in Users,
             Subscribe(r, u) \/ Unsubscribe(r, u) \/ Send(r, u) \/ Link(r, u)
      PROVE  Typed'
  <2>1. row[u] \in Row
    BY DEF Typed, TypeOK
  <2>2. /\ [row[u] EXCEPT !.subscription = r] \in Row
        /\ Unsubscribed(row[u]) \in Row
    BY <2>1, SubscriptionTyped DEF Unsubscribed
  <2> QED BY <1>2, <2>1, <2>2, ReadsTyped DEF Subscribe, Unsubscribe, Send, Link
<1>3. ASSUME NEW r \in Requests, OnDeadSubscription(r)
      PROVE  Typed'
  <2>1. Unsubscribed(copy[r]) \in Row
    BY SubscriptionTyped DEF Unsubscribed, Typed, TypeOK
  <2>2. TypeOK'
    BY <1>3, <2>1 DEF OnDeadSubscription, Goes, history, Typed, TypeOK
  <2>3. HandlerShape' /\ IdleShape'
    BY <1>3 DEF OnDeadSubscription, Goes, Typed, TypeOK, HandlerShape, IdleShape
  <2> QED BY <2>2, <2>3 DEF Typed
<1>4. ASSUME NEW r \in Requests, StoreSubscription(r) \/ CleanUp(r)
      PROVE  Typed'
  <2>1. of[r] \in Users /\ copy[r] \in Row /\ copy[r].subscription \in Requests \cup {Null}
    BY <1>4 DEF StoreSubscription, CleanUp, Typed, TypeOK, HandlerShape, Row, Columns
  <2>2. row' \in [Users -> Row] /\ live' = live
    BY <1>4, <2>1 DEF StoreSubscription, CleanUp, UpdatesUser, Typed, TypeOK
  <2>3. /\ last' \in [Users -> Row]
        /\ overlapped' \subseteq Users \X (Columns \cup {"id"})
        /\ removed' \subseteq Users
    BY <1>4, <2>1, NotedTyped DEF StoreSubscription, CleanUp, history, Columns, Typed, TypeOK
  <2> QED BY <1>4, <2>2, <2>3, EndsTyped DEF StoreSubscription, CleanUp, Typed, TypeOK
<1>5. ASSUME NEW r \in Requests, SaveSelect(r)
      PROVE  Typed'
  <2>1. of[r] \in Users /\ Blank \in Row
    BY <1>5 DEF SaveSelect, Typed, HandlerShape, Blank, Row
  <2>2. TypeOK'
    BY <1>5, <2>1 DEF SaveSelect, Goes, history, Typed, TypeOK, Saving
  <2>3. HandlerShape' /\ IdleShape'
    BY <1>5 DEF SaveSelect, Goes, Typed, TypeOK, HandlerShape, IdleShape
  <2> QED BY <2>2, <2>3 DEF Typed
<1>6. ASSUME NEW r \in Requests, SaveUpdate(r) \/ SaveInsert(r)
      PROVE  Typed'
  <2>1. of[r] \in Users /\ copy[r] \in Row
    BY <1>6 DEF SaveUpdate, SaveInsert, Typed, TypeOK, HandlerShape
  <2>2. Merged(r, row[of[r]]) \in Row
    BY <2>1 DEF Merged, Typed, TypeOK, Row
  <2>3. row' \in [Users -> Row] /\ live' \subseteq Users
    BY <1>6, <2>1, <2>2 DEF SaveUpdate, SaveInsert, Typed, TypeOK
  <2> QED BY <1>6, <2>3, EndsTyped DEF SaveUpdate, SaveInsert, history, Typed, TypeOK
<1>7. ASSUME NEW r \in Requests, Returns(r)
      PROVE  Typed'
  BY <1>7, EndsTyped DEF Returns, history, Typed, TypeOK
<1>8. ASSUME NEW s \in Requests, Expire(s)
      PROVE  Typed'
  BY <1>8 DEF Expire, locals, history, Typed, TypeOK, HandlerShape, IdleShape
<1>9. ASSUME NEW u \in Users, RemoveUser(u)
      PROVE  Typed'
  BY <1>9 DEF RemoveUser, locals, Typed, TypeOK, HandlerShape, IdleShape
<1>10. CASE UNCHANGED vars
  BY <1>10 DEF vars, locals, history, Typed, TypeOK, HandlerShape, IdleShape
<1> QED
  BY <1>1, <1>2, <1>3, <1>4, <1>5, <1>6, <1>7, <1>8, <1>9, <1>10
     DEF Next, Update, UpdatePassword, Columns

\* Columns and local variables keep their types, whatever the handlers do.
THEOREM UserRowsTyped == Spec => []TypeOK
<1>1. Typed => TypeOK
  BY DEF Typed
<1> QED BY TypedInit, TypedStep, <1>1, PTL DEF Spec
-----------------------------------------------------------------------------
(***************************************************************************)
(* Changes are kept                                                        *)
(***************************************************************************)

\* While nobody held a copy when a column was last written on purpose, the row
\* and every copy of it show that: except the subscription that a handler is
\* about to store.
CopyKept(s, u, c) ==
  of[s] = u /\ (c = "subscription" => stage[s] # "store") => Kept(u, c, copy[s][c])

Safe ==
  \A u \in Users, c \in Columns :
    <<u, c>> \notin overlapped =>
      /\ Kept(u, c, row[u][c])
      /\ \A s \in Requests : CopyKept(s, u, c)

\* A column on which nothing is noted: each value comes from the row or a copy.
Quiet(u, c) ==
  /\ last'[u][c] = last[u][c]
  /\ <<u, c>> \in overlapped' <=> <<u, c>> \in overlapped
  /\ dead \subseteq dead'
  /\ \/ row'[u][c] = row[u][c]
     \/ \E s \in Requests : /\ of[s] = u
                            /\ c = "subscription" => stage[s] # "store"
                            /\ row'[u][c] = copy[s][c]
  /\ \A s \in Requests :
       \/ of'[s] # u
       \/ c = "subscription" /\ stage'[s] = "store"
       \/ copy'[s][c] = row[u][c]
       \/ /\ of[s] = u /\ (c = "subscription" => stage[s] # "store")
          /\ \/ copy'[s][c] = copy[s][c]
             \/ c = "subscription" /\ copy'[s][c] = Null /\ copy[s][c] \in dead

\* A column on which something is noted, while nobody else holds a copy.
Alone(u, c) ==
  /\ row'[u][c] = last'[u][c]
  /\ \A s \in Requests : of'[s] # u

LEMMA SafeKept ==
  ASSUME Typed, Safe,
         \A u \in Users, c \in Columns : <<u, c>> \in overlapped' \/ Quiet(u, c) \/ Alone(u, c)
  PROVE  Safe'
<1> SUFFICES ASSUME NEW u \in Users, NEW c \in Columns, <<u, c>> \notin overlapped'
             PROVE  Kept(u, c, row[u][c])' /\ \A s \in Requests : CopyKept(s, u, c)'
  BY DEF Safe
<1>1. CASE Alone(u, c)
  BY <1>1 DEF Alone, Kept, CopyKept
<1>2. CASE Quiet(u, c)
  <2>1. /\ Kept(u, c, row[u][c])
        /\ \A s \in Requests : CopyKept(s, u, c)
    BY <1>2 DEF Quiet, Safe
  <2>2. Kept(u, c, row[u][c])'
    BY <1>2, <2>1 DEF Quiet, Kept, CopyKept
  <2>3. ASSUME NEW s \in Requests, of'[s] = u, c = "subscription" => stage'[s] # "store"
        PROVE  Kept(u, c, copy[s][c])'
    <3>1. CASE copy'[s][c] = row[u][c]
      BY <1>2, <2>1, <3>1 DEF Quiet, Kept
    <3>2. CASE /\ of[s] = u /\ (c = "subscription" => stage[s] # "store")
               /\ copy'[s][c] = copy[s][c]
      BY <1>2, <2>1, <3>2 DEF Quiet, Kept, CopyKept
    <3>3. CASE /\ of[s] = u /\ (c = "subscription" => stage[s] # "store")
               /\ c = "subscription" /\ copy'[s][c] = Null /\ copy[s][c] \in dead
      <4>1. copy[s][c] # Null
        BY <3>3, NullAssumption DEF Typed, TypeOK
      <4>2. last[u][c] = copy[s][c]
        BY <2>1, <3>3, <4>1 DEF Kept, CopyKept
      <4> QED BY <1>2, <3>3, <4>2 DEF Quiet, Kept
    <3> QED BY <1>2, <2>3, <3>1, <3>2, <3>3 DEF Quiet
  <2> QED BY <2>2, <2>3 DEF CopyKept
<1> QED BY <1>1, <1>2

\* What is noted while another handler holds a copy is excused.
LEMMA NotedAlone ==
  ASSUME Typed, NEW r \in Requests, NEW u \in Users, NEW c \in Columns,
         NEW value \in Requests \cup {Null}, Noted(r, u, c, value),
         <<u, c>> \notin overlapped'
  PROVE  \A s \in Requests \ {r} : of[s] # u
BY DEF Noted, Holds

\* At first every column shows what it was registered with.
LEMMA SafeInit == Init => Safe
BY NullAssumption DEF Init, Safe, Kept, CopyKept

\* Each step keeps it.
LEMMA SafeStep == Typed /\ Safe /\ [Next]_vars => Safe'
<1> SUFFICES ASSUME Typed, Safe, [Next]_vars
             PROVE  \A v \in Users, d \in Columns :
                      <<v, d>> \in overlapped' \/ Quiet(v, d) \/ Alone(v, d)
  BY SafeKept
<1> SUFFICES ASSUME NEW v \in Users, NEW d \in Columns, <<v, d>> \notin overlapped'
             PROVE  Quiet(v, d) \/ Alone(v, d)
  OBVIOUS
<1>1. ASSUME NEW r \in Requests, NEW u \in Users, NEW c \in Columns, SetColumn(r, u, c)
      PROVE  Quiet(v, d) \/ Alone(v, d)
  <2>1. Ends(r) /\ Noted(r, u, c, r) /\ dead' = dead /\ row' = [row EXCEPT ![u][c] = r]
    BY <1>1 DEF SetColumn
  <2>2. /\ of'[r] = Null /\ Null \notin Users /\ of[r] = Null
        /\ \A s \in Requests \ {r} : /\ stage'[s] = stage[s] /\ of'[s] = of[s]
                                     /\ copy'[s] = copy[s]
    BY <1>1, <2>1, EndsTyped, NullAssumption DEF SetColumn, Typed, IdleShape
  <2>3. CASE <<v, d>> = <<u, c>>
    <3>1. row'[v][d] = last'[v][d]
      BY <2>1, <2>3, NotedTyped DEF Typed, TypeOK, Row
    <3>2. \A s \in Requests : of'[s] # v
      BY <2>1, <2>2, <2>3, NotedAlone
    <3> QED BY <3>1, <3>2 DEF Alone
  <2>4. CASE <<v, d>> # <<u, c>>
    <3>1. row'[v][d] = row[v][d]
      BY <2>1, <2>4 DEF Typed, TypeOK, Row
    <3>2. last'[v][d] = last[v][d] /\ (<<v, d>> \in overlapped' <=> <<v, d>> \in overlapped)
      BY <2>1, <2>4, NotedTyped
    <3> QED BY <2>1, <2>2, <3>1, <3>2 DEF Quiet
  <2> QED BY <2>3, <2>4
<1>2. ASSUME NEW r \in Requests, NEW u \in Users,
             Subscribe(r, u) \/ Unsubscribe(r, u) \/ Send(r, u) \/ Link(r, u)
      PROVE  Quiet(v, d)
  <2>1. row[u] \in Row
    BY DEF Typed, TypeOK
  <2>2. PICK mine \in Row, next \in {"store", "push", "select"} :
          /\ Reads(r, u, mine, next)
          /\ next = "store" \/ mine = row[u]
          /\ \A c \in Columns \ {"subscription"} : mine[c] = row[u][c]
    BY <1>2, <2>1, SubscriptionTyped
       DEF Subscribe, Unsubscribe, Unsubscribed, Send, Link
  <2>3. /\ of'[r] = u /\ copy'[r] = mine /\ stage'[r] = next
        /\ \A s \in Requests \ {r} : /\ stage'[s] = stage[s] /\ of'[s] = of[s]
                                     /\ copy'[s] = copy[s]
    BY <2>2, ReadsTyped
  <2>4. row' = row /\ dead' = dead /\ last' = last /\ overlapped' = overlapped
    BY <2>2 DEF Reads, history
  <2>5. \/ of'[r] # v
        \/ d = "subscription" /\ stage'[r] = "store"
        \/ copy'[r][d] = row[v][d]
    BY <2>2, <2>3
  <2> QED BY <2>3, <2>4, <2>5 DEF Quiet
<1>3. ASSUME NEW r \in Requests, OnDeadSubscription(r)
      PROVE  Quiet(v, d)
  <2>1. /\ copy[r] \in Row /\ copy' = [copy EXCEPT ![r] = Unsubscribed(copy[r])]
        /\ copy[r].subscription \in dead /\ stage[r] = "push"
        /\ row' = row /\ dead' = dead /\ of' = of /\ last' = last /\ overlapped' = overlapped
    BY <1>3 DEF OnDeadSubscription, IsDead, history, Typed, TypeOK
  <2>2. copy'[r] = Unsubscribed(copy[r])
    BY <2>1 DEF Typed, TypeOK
  <2>3. copy'[r].subscription = Null /\ \A c \in Columns \ {"subscription"} : copy'[r][c] = copy[r][c]
    BY <2>1, <2>2 DEF Unsubscribed, Row, Columns
  <2>4. \A s \in Requests \ {r} : copy'[s] = copy[s] /\ stage'[s] = stage[s]
    BY <1>3, <2>1 DEF OnDeadSubscription, Goes, Typed, TypeOK
  <2> QED BY <2>1, <2>3, <2>4 DEF Quiet
<1>4. ASSUME NEW r \in Requests, StoreSubscription(r)
      PROVE  Quiet(v, d) \/ Alone(v, d)
  <2>1. /\ of[r] \in Users /\ copy[r] \in Row /\ stage[r] = "store" /\ dead' = dead
        /\ Ends(r)
        /\ row' = IF of[r] \in live THEN [row EXCEPT ![of[r]] = copy[r]] ELSE row
    BY <1>4 DEF StoreSubscription, UpdatesUser, Typed, TypeOK, HandlerShape
  <2>2. /\ of'[r] = Null /\ Null \notin Users
        /\ \A s \in Requests \ {r} : /\ stage'[s] = stage[s] /\ of'[s] = of[s]
                                     /\ copy'[s] = copy[s]
    BY <2>1, EndsTyped, NullAssumption
  <2>3. CASE of[r] \notin live
    BY <1>4, <2>1, <2>2, <2>3 DEF StoreSubscription, Quiet, history
  <2>4. CASE of[r] \in live
    <3>1. Noted(r, of[r], "subscription", copy[r].subscription)
          /\ copy[r].subscription \in Requests \cup {Null} /\ "subscription" \in Columns
      BY <1>4, <2>1, <2>4 DEF StoreSubscription, Row, Columns
    <3>2. CASE <<v, d>> = <<of[r], "subscription">>
      <4>1. row'[v][d] = last'[v][d]
        BY <2>1, <2>4, <3>1, <3>2, NotedTyped DEF Typed, TypeOK
      <4>2. \A s \in Requests : of'[s] # v
        BY <2>1, <2>2, <3>1, <3>2, NotedAlone
      <4> QED BY <4>1, <4>2 DEF Alone
    <3>3. CASE <<v, d>> # <<of[r], "subscription">>
      <4>1. last'[v][d] = last[v][d] /\ (<<v, d>> \in overlapped' <=> <<v, d>> \in overlapped)
        BY <2>1, <3>1, <3>3, NotedTyped
      <4>2. \/ row'[v][d] = row[v][d]
            \/ of[r] = v /\ d # "subscription" /\ row'[v][d] = copy[r][d]
        BY <2>1, <2>4, <3>3 DEF Typed, TypeOK
      <4> QED BY <2>1, <2>2, <4>1, <4>2 DEF Quiet
    <3> QED BY <3>2, <3>3
  <2> QED BY <2>3, <2>4
<1>5. ASSUME NEW r \in Requests, CleanUp(r) \/ SaveUpdate(r) \/ SaveInsert(r)
      PROVE  Quiet(v, d)
  <2>1. /\ of[r] \in Users /\ stage[r] # "store" /\ Ends(r)
        /\ dead' = dead /\ last' = last /\ overlapped' = overlapped
    BY <1>5 DEF CleanUp, SaveUpdate, SaveInsert, history, Typed, HandlerShape
  <2>2. /\ of'[r] = Null /\ Null \notin Users
        /\ \A s \in Requests \ {r} : /\ stage'[s] = stage[s] /\ of'[s] = of[s]
                                     /\ copy'[s] = copy[s]
    BY <2>1, EndsTyped, NullAssumption
  <2>3. row'[v][d] = row[v][d] \/ (of[r] = v /\ row'[v][d] = copy[r][d])
    <3>1. CASE CleanUp(r) \/ SaveInsert(r)
      BY <2>1, <3>1 DEF CleanUp, UpdatesUser, SaveInsert, Typed, TypeOK
    <3>2. CASE SaveUpdate(r)
      BY <2>1, <3>2 DEF SaveUpdate, Merged, Typed, TypeOK
    <3> QED BY <1>5, <3>1, <3>2
  <2> QED BY <2>1, <2>2, <2>3 DEF Quiet
<1>6. ASSUME NEW r \in Requests, SaveSelect(r)
      PROVE  Quiet(v, d)
  <2>1. /\ row' = row /\ dead' = dead /\ of' = of /\ copy' = copy
        /\ last' = last /\ overlapped' = overlapped
    BY <1>6 DEF SaveSelect, history
  <2>2. \A s \in Requests : stage'[s] = "store" <=> stage[s] = "store"
    BY <1>6 DEF SaveSelect, Goes, Typed, TypeOK
  <2> QED BY <2>1, <2>2 DEF Quiet
<1>7. ASSUME NEW r \in Requests, Returns(r)
      PROVE  Quiet(v, d)
  <2>1. row' = row /\ dead' = dead /\ last' = last /\ overlapped' = overlapped /\ Ends(r)
    BY <1>7 DEF Returns, history
  <2>2. /\ of'[r] = Null /\ Null \notin Users
        /\ \A s \in Requests \ {r} : /\ stage'[s] = stage[s] /\ of'[s] = of[s]
                                     /\ copy'[s] = copy[s]
    BY <2>1, EndsTyped, NullAssumption
  <2> QED BY <2>1, <2>2 DEF Quiet
<1>8. CASE (\E s \in Requests : Expire(s)) \/ (\E u \in Users : RemoveUser(u)) \/ UNCHANGED vars
  <2>1. /\ row' = row /\ dead \subseteq dead' /\ of' = of /\ copy' = copy /\ stage' = stage
        /\ last' = last
    BY <1>8 DEF Expire, RemoveUser, vars, locals, history
  <2>2. <<v, d>> \in overlapped' <=> <<v, d>> \in overlapped
    BY <1>8 DEF Expire, RemoveUser, vars, history, Columns
  <2> QED BY <2>1, <2>2 DEF Quiet
<1> QED
  BY <1>1, <1>2, <1>3, <1>4, <1>5, <1>6, <1>7, <1>8 DEF Next, Update, UpdatePassword, Columns

\* A change that no other handler's copy of the row overlaps stays, whatever
\* whole rows are written back.
THEOREM ChangesStay == Spec => []ChangesAreKept
<1>1. Typed /\ Safe => ChangesAreKept
  BY DEF Typed, TypeOK, Safe, ChangesAreKept
<1> QED BY TypedInit, TypedStep, SafeInit, SafeStep, <1>1, PTL DEF Spec

-----------------------------------------------------------------------------
(***************************************************************************)
(* Removed users                                                           *)
(***************************************************************************)

\* No link that could insert the row again holds a copy of it.
Gone ==
  \A u \in removed :
    <<u, "id">> \in overlapped \/ (u \notin live /\ \A s \in Requests : of[s] = u => stage[s] \notin Saving)

LEMMA GoneInit == Init => Gone
BY DEF Init, Gone

\* A step after which no user is new, and no link holds another.
LEMMA GoneKept ==
  ASSUME Gone, removed' = removed,
         \A u \in Users : <<u, "id">> \in overlapped => <<u, "id">> \in overlapped',
         removed \subseteq Users,
         \A u \in live' \ live : \E s \in Requests : of[s] = u /\ stage[s] \in Saving,
         \A s \in Requests : of'[s] \in Users /\ stage'[s] \in Saving =>
                               of'[s] \in live \/ (of[s] = of'[s] /\ stage[s] \in Saving)
  PROVE  Gone'
<1> SUFFICES ASSUME NEW u \in removed, <<u, "id">> \notin overlapped'
             PROVE  u \notin live' /\ \A s \in Requests : of'[s] = u => stage'[s] \notin Saving
  BY DEF Gone
<1>1. u \in Users /\ <<u, "id">> \notin overlapped
  OBVIOUS
<1>2. u \notin live /\ \A s \in Requests : of[s] = u => stage[s] \notin Saving
  BY <1>1 DEF Gone
<1>3. u \notin live'
  BY <1>2
<1>4. ASSUME NEW s \in Requests, of'[s] = u
      PROVE  stage'[s] \notin Saving
  BY <1>1, <1>2, <1>4
<1> QED BY <1>3, <1>4

LEMMA GoneStep == Typed /\ Gone /\ [Next]_vars => Gone'
<1> SUFFICES ASSUME Typed, Gone, [Next]_vars
             PROVE  Gone'
  OBVIOUS
<1> removed \subseteq Users
  BY DEF Typed, TypeOK
<1>1. ASSUME NEW r \in Requests, NEW u \in Users, NEW c \in Columns, SetColumn(r, u, c)
      PROVE  Gone'
  <2>1. /\ live' = live /\ removed' = removed
        /\ \A v \in Users : <<v, "id">> \in overlapped => <<v, "id">> \in overlapped'
    BY <1>1 DEF SetColumn, Noted, Columns
  <2>2. stage'[r] = "done" /\ \A s \in Requests \ {r} : stage'[s] = stage[s] /\ of'[s] = of[s]
    BY <1>1, EndsTyped DEF SetColumn
  <2> QED BY <2>1, <2>2, GoneKept DEF Saving
<1>2. ASSUME NEW r \in Requests, NEW u \in Users,
             Subscribe(r, u) \/ Unsubscribe(r, u) \/ Send(r, u) \/ Link(r, u)
      PROVE  Gone'
  <2>1. /\ u \in live /\ live' = live /\ removed' = removed /\ overlapped' = overlapped
        /\ of'[r] = u
        /\ \A s \in Requests \ {r} : stage'[s] = stage[s] /\ of'[s] = of[s]
    BY <1>2 DEF Subscribe, Unsubscribe, Send, Link, Reads, Goes, history, Typed, TypeOK
  <2> QED BY <2>1, GoneKept
<1>3. ASSUME NEW r \in Requests, OnDeadSubscription(r) \/ SaveSelect(r)
      PROVE  Gone'
  <2>1. /\ live' = live /\ removed' = removed /\ overlapped' = overlapped /\ of' = of
        /\ stage'[r] \in Saving => stage[r] \in Saving
        /\ \A s \in Requests \ {r} : stage'[s] = stage[s]
    BY <1>3 DEF OnDeadSubscription, SaveSelect, Goes, Saving, history, Typed, TypeOK
  <2> QED BY <2>1, GoneKept
<1>4. ASSUME NEW r \in Requests,
             \/ StoreSubscription(r) \/ CleanUp(r) \/ SaveUpdate(r) \/ SaveInsert(r) \/ Returns(r)
      PROVE  Gone'
  <2>1. /\ removed' = removed /\ Ends(r)
        /\ \A v \in Users : <<v, "id">> \in overlapped => <<v, "id">> \in overlapped'
    BY <1>4 DEF StoreSubscription, CleanUp, SaveUpdate, SaveInsert, Returns, Noted, history
  <2>2. stage'[r] = "done" /\ \A s \in Requests \ {r} : stage'[s] = stage[s] /\ of'[s] = of[s]
    BY <2>1, EndsTyped
  <2>3. \A u \in live' \ live : of[r] = u /\ stage[r] \in Saving
    BY <1>4 DEF StoreSubscription, CleanUp, UpdatesUser, SaveUpdate, SaveInsert, Returns, Saving
  <2> QED BY <2>1, <2>2, <2>3, GoneKept DEF Saving
<1>5. ASSUME NEW u \in Users, RemoveUser(u)
      PROVE  Gone'
  <2>1. /\ live' = live \ {u} /\ removed' = removed \cup {u} /\ of' = of /\ stage' = stage
        /\ overlapped \subseteq overlapped'
        /\ <<u, "id">> \in overlapped' \/ \A s \in Requests : of[s] = u => stage[s] \notin Saving
    BY <1>5 DEF RemoveUser, locals, Holds
  <2> QED BY <2>1 DEF Gone
<1>6. CASE (\E s \in Requests : Expire(s)) \/ UNCHANGED vars
  <2>1. /\ live' = live /\ removed' = removed /\ overlapped' = overlapped
        /\ of' = of /\ stage' = stage
    BY <1>6 DEF Expire, vars, locals, history
  <2> QED BY <2>1 DEF Gone
<1> QED
  BY <1>1, <1>2, <1>3, <1>4, <1>5, <1>6 DEF Next, Update, UpdatePassword, Columns

\* A removed user stays removed, unless a link had read the row before.
THEOREM RemovedStay == Spec => []RemovedStaysRemoved
<1>1. Gone => RemovedStaysRemoved
  BY DEF Gone, RemovedStaysRemoved
<1> QED BY TypedInit, TypedStep, GoneInit, GoneStep, <1>1, PTL DEF Spec
=============================================================================
