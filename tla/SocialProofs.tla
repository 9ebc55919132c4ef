----------------------------- MODULE SocialProofs -----------------------------
(***************************************************************************)
(* Theorems about Social, for any users and any number of requests.        *)
(***************************************************************************)
EXTENDS Social, TLAPS

-----------------------------------------------------------------------------
(***************************************************************************)
(* Types                                                                   *)
(***************************************************************************)

\* What a handler holds at its stage: a pair of users, an accepted row, a group.
HandlerShape ==
  \A r \in Requests :
    /\ stage[r] \in {"insertReverse", "acceptDirect", "findDirect", "saveDirect",
                     "findReverse", "saveReverse", "join"} => pair[r] \in Pairs
    /\ stage[r] \in {"insertReverse", "acceptDirect", "saveDirect", "saveReverse"} =>
         copy[r] \in FriendshipRow /\ copy[r].accepted
    /\ stage[r] \in {"addMembers", "join", "saveGroup"} => group[r] \in Requests
    /\ stage[r] = "saveGroup" => host[r] \in Users

Typed == TypeOK /\ HandlerShape

\* The reverse of a pair is a pair of the same two.
LEMMA ReversePairs ==
  \A p \in Pairs : Reverse(p) \in Pairs /\ Reverse(Reverse(p)) = p /\ Two(Reverse(p)) = Two(p)
BY DEF Pairs, Reverse, Two

\* What a link saves is an accepted row.
LEMMA LinkedType ==
  ASSUME NEW friendship \in FriendshipRow \cup {NoRow}, NEW r \in Requests
  PROVE  Linked(friendship, r) \in FriendshipRow /\ Linked(friendship, r).accepted
<1>1. CASE friendship = NoRow
  BY <1>1 DEF Linked, FriendshipRow
<1>2. CASE friendship # NoRow
  <2>1. Linked(friendship, r) = [friendship EXCEPT !.accepted = TRUE] /\ friendship \in FriendshipRow
    BY <1>2 DEF Linked, Accepted
  <2> QED BY <2>1 DEF FriendshipRow
<1> QED BY <1>1, <1>2

\* At first there is nothing.
LEMMA TypedInit == Init => Typed
BY DEF Init, Typed, TypeOK, HandlerShape, FriendshipRow, NoRow

\* A handler that ends leaves typed variables.
LEMMA EndsTyped ==
  ASSUME Typed, NEW r \in Requests, Ends(r)
  PROVE  /\ stage' \in [Requests -> {"idle", "insertReverse", "acceptDirect", "findDirect", "saveDirect",
                             "findReverse", "saveReverse", "addMembers", "join", "saveGroup", "done"}]
         /\ pair' \in [Requests -> Pairs \cup {Null}]
         /\ copy' \in [Requests -> FriendshipRow \cup {NoRow}]
         /\ group' \in [Requests -> Requests \cup {Null}]
         /\ adds' \in [Requests -> SUBSET Users]
         /\ host' \in [Requests -> Users \cup {Null}]
         /\ HandlerShape'
<1>1. /\ stage' \in [Requests -> {"idle", "insertReverse", "acceptDirect", "findDirect", "saveDirect",
                             "findReverse", "saveReverse", "addMembers", "join", "saveGroup", "done"}]
      /\ pair' \in [Requests -> Pairs \cup {Null}]
      /\ copy' \in [Requests -> FriendshipRow \cup {NoRow}]
      /\ group' \in [Requests -> Requests \cup {Null}]
      /\ adds' \in [Requests -> SUBSET Users]
      /\ host' \in [Requests -> Users \cup {Null}]
  BY DEF Ends, Goes, Typed, TypeOK
<1>2. stage'[r] = "done"
  BY DEF Ends, Goes, Typed, TypeOK
<1>3. \A s \in Requests \ {r} :
        /\ stage'[s] = stage[s] /\ pair'[s] = pair[s] /\ copy'[s] = copy[s]
        /\ group'[s] = group[s] /\ host'[s] = host[s]
  BY DEF Ends, Goes, Typed, TypeOK
<1>4. HandlerShape'
  BY <1>2, <1>3 DEF HandlerShape, Typed
<1> QED BY <1>1, <1>4

\* New memberships are typed.
LEMMA MembershipsType ==
  ASSUME Typed, NEW r \in Requests, stage[r] \in {"addMembers", "join"}
  PROVE  Memberships(r) \subseteq Membership
BY DEF Typed, TypeOK, HandlerShape, Memberships, Membership

\* What a handler crosses is typed.
LEMMA CrossingType ==
  ASSUME Typed, NEW r \in Requests, stage[r] \in {"addMembers", "join"}
  PROVE  Crossing(r) \subseteq Requests \X Users
BY DEF Typed, TypeOK, HandlerShape, Crossing

\* A save writes an accepted row in one place.
LEMMA SavesType ==
  ASSUME Typed, NEW r \in Requests, NEW p \in Pairs, Saves(r, p),
         stage[r] \in {"acceptDirect", "saveDirect", "saveReverse"}
  PROVE  /\ row' \in [Pairs -> FriendshipRow \cup {NoRow}]
         /\ row'[p].accepted /\ \A q \in Pairs \ {p} : row'[q] = row[q]
BY DEF Typed, TypeOK, HandlerShape, Saves

\* Each step keeps the types.
LEMMA TypedStep == Typed /\ [Next]_vars => Typed'
<1> SUFFICES ASSUME Typed, [Next]_vars
             PROVE  Typed'
  OBVIOUS
<1> USE DEF Typed
<1>1. ASSUME NEW r \in Requests, NEW u \in Users, NEW v \in Users, SendFriendRequest(r, u, v)
      PROVE  Typed'
  <2>1. row' \in [Pairs -> FriendshipRow \cup {NoRow}]
    BY <1>1 DEF SendFriendRequest, TypeOK, FriendshipRow
  <2> QED BY <1>1, <2>1, EndsTyped DEF SendFriendRequest, TypeOK, history
<1>2. ASSUME NEW r \in Requests, NEW u \in Users, NEW v \in Users, AddFriendByLink(r, u, v)
      PROVE  Typed'
  <2>1. <<u, v>> \in Pairs
    BY DEF Pairs
  <2>2. TypeOK'
    BY <1>2, <2>1 DEF AddFriendByLink, Goes, TypeOK, tables, history
  <2>3. HandlerShape'
    BY <1>2, <2>1 DEF AddFriendByLink, Goes, TypeOK, HandlerShape
  <2> QED BY <2>2, <2>3
<1>3. ASSUME NEW r \in Requests, NEW u \in Users, NEW v \in Users, NEW g \in Requests,
             AddGroupMemberByLink(r, g, u, v)
      PROVE  Typed'
  <2>1. <<u, v>> \in Pairs
    BY DEF Pairs
  <2>2. TypeOK'
    BY <1>3, <2>1 DEF AddGroupMemberByLink, Goes, TypeOK, tables, history
  <2>3. HandlerShape'
    BY <1>3, <2>1 DEF AddGroupMemberByLink, Goes, TypeOK, HandlerShape
  <2> QED BY <2>2, <2>3
<1>4. ASSUME NEW r \in Requests, NEW p \in Pairs, AcceptRequest(r, p)
      PROVE  Typed'
  <2>1. row[p] \in FriendshipRow
    BY <1>4 DEF AcceptRequest, TypeOK
  <2>2. Accepted(row[p]) \in FriendshipRow /\ Accepted(row[p]).accepted
    BY <2>1 DEF Accepted, FriendshipRow
  <2>3. TypeOK'
    BY <1>4, <2>2 DEF AcceptRequest, Goes, TypeOK, tables, history
  <2>4. HandlerShape'
    BY <1>4, <2>2 DEF AcceptRequest, Goes, TypeOK, HandlerShape
  <2> QED BY <2>3, <2>4
<1>5. ASSUME NEW r \in Requests, InsertReverse(r)
      PROVE  Typed'
  <2>1. Reverse(pair[r]) \in Pairs
    BY <1>5, ReversePairs DEF InsertReverse, HandlerShape
  <2>2. row' \in [Pairs -> FriendshipRow \cup {NoRow}]
    BY <1>5, <2>1 DEF InsertReverse, TypeOK, FriendshipRow
  <2>3. TypeOK'
    BY <1>5, <2>2 DEF InsertReverse, Goes, TypeOK, locals, history
  <2>4. HandlerShape'
    BY <1>5 DEF InsertReverse, Goes, TypeOK, HandlerShape, locals
  <2> QED BY <2>3, <2>4
<1>6. ASSUME NEW r \in Requests, AcceptDirect(r) \/ SaveReverse(r)
      PROVE  Typed'
  <2>1. row' \in [Pairs -> FriendshipRow \cup {NoRow}]
    <3>1. pair[r] \in Pairs /\ Reverse(pair[r]) \in Pairs
      BY <1>6, ReversePairs DEF AcceptDirect, SaveReverse, HandlerShape
    <3> QED BY <1>6, <3>1, SavesType DEF AcceptDirect, SaveReverse
  <2> QED BY <1>6, <2>1, EndsTyped DEF AcceptDirect, SaveReverse, TypeOK, history
<1>7. ASSUME NEW r \in Requests, FindDirect(r)
      PROVE  Typed'
  <2>1. row[pair[r]] \in FriendshipRow \cup {NoRow} /\ pair[r] \in Pairs
    BY <1>7 DEF FindDirect, HandlerShape, TypeOK
  <2>2. Linked(row[pair[r]], r) \in FriendshipRow /\ Linked(row[pair[r]], r).accepted
    BY <2>1, LinkedType
  <2>3. TypeOK'
    BY <1>7, <2>2 DEF FindDirect, Goes, TypeOK, tables, history
  <2>4. HandlerShape'
    BY <1>7, <2>1, <2>2 DEF FindDirect, Goes, TypeOK, HandlerShape
  <2> QED BY <2>3, <2>4
<1>8. ASSUME NEW r \in Requests, SaveDirect(r)
      PROVE  Typed'
  <2>1. row' \in [Pairs -> FriendshipRow \cup {NoRow}]
    BY <1>8, SavesType DEF SaveDirect, HandlerShape
  <2>2. TypeOK'
    BY <1>8, <2>1 DEF SaveDirect, Goes, TypeOK, locals, history
  <2>3. HandlerShape'
    BY <1>8 DEF SaveDirect, Goes, TypeOK, HandlerShape, locals
  <2> QED BY <2>2, <2>3
<1>9. ASSUME NEW r \in Requests, FindReverse(r)
      PROVE  Typed'
  <2>1. CASE Ends(r)
    BY <1>9, <2>1, EndsTyped DEF FindReverse, TypeOK, tables, history
  <2>2. CASE /\ copy' = [copy EXCEPT ![r] = Linked(row[Reverse(pair[r])], r)]
             /\ Goes(r, "saveReverse")
             /\ UNCHANGED <<pair, group, adds, host>>
    <3>1. row[Reverse(pair[r])] \in FriendshipRow \cup {NoRow} /\ pair[r] \in Pairs
      BY <1>9, ReversePairs DEF FindReverse, HandlerShape, TypeOK
    <3>2. Linked(row[Reverse(pair[r])], r) \in FriendshipRow /\ Linked(row[Reverse(pair[r])], r).accepted
      BY <3>1, LinkedType
    <3>3. TypeOK'
      BY <1>9, <2>2, <3>2 DEF FindReverse, Goes, TypeOK, tables, history
    <3>4. HandlerShape'
      BY <2>2, <3>1, <3>2 DEF Goes, TypeOK, HandlerShape
    <3> QED BY <3>3, <3>4
  <2> QED BY <1>9, <2>1, <2>2 DEF FindReverse
<1>10. ASSUME NEW r \in Requests, NEW u \in Users, CreateGroup(r, u)
       PROVE  Typed'
  <2>1. TypeOK'
    BY <1>10 DEF CreateGroup, Goes, TypeOK, history
  <2>2. HandlerShape'
    BY <1>10 DEF CreateGroup, Goes, TypeOK, HandlerShape
  <2> QED BY <2>1, <2>2
<1>11. ASSUME NEW r \in Requests, NEW g \in Requests, NEW friends \in SUBSET Users,
              AddFriendsToGroup(r, g, friends)
       PROVE  Typed'
  <2>1. TypeOK'
    BY <1>11 DEF AddFriendsToGroup, Missing, Goes, TypeOK, tables, history
  <2>2. HandlerShape'
    BY <1>11 DEF AddFriendsToGroup, Goes, TypeOK, HandlerShape
  <2> QED BY <2>1, <2>2
<1>12. ASSUME NEW r \in Requests, AddMembers(r)
       PROVE  Typed'
  <2>1. members' \subseteq Membership
    BY <1>12, MembershipsType DEF AddMembers, TypeOK
  <2>2. crossed' \subseteq Requests \X Users
    BY <1>12, CrossingType DEF AddMembers, TypeOK
  <2> QED BY <1>12, <2>1, <2>2, EndsTyped DEF AddMembers, TypeOK
<1>13. ASSUME NEW r \in Requests, CommitJoin(r)
       PROVE  Typed'
  <2>1. members' \subseteq Membership
    BY <1>13, MembershipsType DEF CommitJoin, TypeOK
  <2>2. row' \in [Pairs -> FriendshipRow \cup {NoRow}]
    <3>1. pair[r] \in Pairs /\ Reverse(pair[r]) \in Pairs
      BY <1>13, ReversePairs DEF CommitJoin, HandlerShape
    <3>2. \A p \in Pairs : Linked(row[p], r) \in FriendshipRow
      BY LinkedType DEF TypeOK
    <3>3. \A p \in Pairs : Linked(Linked(row[p], r), r) \in FriendshipRow
      BY <3>2, LinkedType
    <3> QED BY <1>13, <3>1, <3>2, <3>3 DEF CommitJoin, BothWays, TypeOK
  <2>3. crossed' \subseteq Requests \X Users
    BY <1>13, CrossingType DEF CommitJoin, TypeOK
  <2> QED BY <1>13, <2>1, <2>2, <2>3, EndsTyped DEF CommitJoin, TypeOK
<1>14. ASSUME NEW r \in Requests, RemoveGroup(r)
       PROVE  Typed'
  BY <1>14 DEF RemoveGroup, TypeOK, HandlerShape, locals, history
<1>15. ASSUME NEW r \in Requests, Throws(r)
       PROVE  Typed'
  <2>1. left' \subseteq Requests \X Users
    BY <1>15 DEF Throws, TypeOK, HandlerShape
  <2>2. halfway' \subseteq SUBSET Users
    <3>1. stage[r] \in {"acceptDirect", "findReverse", "saveReverse"} => Two(pair[r]) \in SUBSET Users
      BY DEF HandlerShape, Two, Pairs
    <3> QED BY <1>15, <3>1 DEF Throws, TypeOK
  <2> QED BY <1>15, <2>1, <2>2, EndsTyped DEF Throws, TypeOK, tables
<1>16. ASSUME NEW p \in Pairs, DeleteRequest(p)
       PROVE  Typed'
  <2>1. Two(p) \in SUBSET Users
    BY DEF Two, Pairs
  <2> QED BY <1>16, <2>1 DEF DeleteRequest, TypeOK, HandlerShape, locals
<1>17. ASSUME NEW m \in members, EndMembership(m)
       PROVE  Typed'
  <2>1. <<m.group, m.user>> \in Requests \X Users
    BY DEF TypeOK, Membership
  <2> QED BY <1>17, <2>1 DEF EndMembership, TypeOK, HandlerShape, locals
<1>18. ASSUME NEW r \in Requests, NEW g \in Requests, UpdateGroup(r, g)
       PROVE  Typed'
  <2>1. owner[g] \in Users
    BY <1>18 DEF UpdateGroup, TypeOK
  <2>2. TypeOK'
    BY <1>18, <2>1 DEF UpdateGroup, Goes, TypeOK, tables, history
  <2>3. HandlerShape'
    BY <1>18, <2>1 DEF UpdateGroup, Goes, TypeOK, HandlerShape
  <2> QED BY <2>2, <2>3
<1>19. ASSUME NEW r \in Requests, SaveGroup(r)
       PROVE  Typed'
  <2>1. group[r] \in Requests /\ host[r] \in Users
    BY <1>19 DEF SaveGroup, HandlerShape
  <2>2. owner' \in [Requests -> Users \cup {Null}] /\ revived' \subseteq Requests
    BY <1>19, <2>1 DEF SaveGroup, TypeOK
  <2> QED BY <1>19, <2>2, EndsTyped DEF SaveGroup, TypeOK
<1>20. CASE UNCHANGED vars
  BY <1>20 DEF vars, tables, locals, history, TypeOK, HandlerShape
<1> QED
  BY <1>1, <1>2, <1>3, <1>4, <1>5, <1>6, <1>7, <1>8, <1>9, <1>10, <1>11, <1>12, <1>13,
     <1>14, <1>15, <1>16, <1>17, <1>18, <1>19, <1>20 DEF Next

\* Columns and local variables keep their types, whatever the handlers do.
THEOREM SocialTyped == Spec => []TypeOK
<1>1. Typed => TypeOK
  BY DEF Typed
<1> QED BY TypedInit, TypedStep, <1>1, PTL DEF Spec
-----------------------------------------------------------------------------
(***************************************************************************)
(* Friendships are mutual                                                  *)
(***************************************************************************)

\* What a handler that is about to write its last row has found or written: the
\* other direction, accepted, unless it was deleted since.
Half(r) ==
  /\ stage[r] = "acceptDirect" => row[Reverse(pair[r])].accepted \/ Two(pair[r]) \in deleted
  /\ stage[r] \in {"findReverse", "saveReverse"} =>
       row[pair[r]].accepted \/ Two(pair[r]) \in deleted

Mutual == /\ \A r \in Requests : Half(r)
          /\ FriendshipIsMutual

\* What every step does: friends are only lost to a deletion ...
Kept == /\ deleted \subseteq deleted' /\ halfway \subseteq halfway'
        /\ \A p \in Pairs : row[p].accepted => row'[p].accepted \/ Two(p) \in deleted'

Excused(p) == Two(p) \in deleted \cup halfway

\* ... new ones are on their way to be mutual ...
NewOnesExcused ==
  \A p \in Pairs :
    row'[p].accepted /\ ~row[p].accepted =>
      \/ row'[Reverse(p)].accepted
      \/ Excused(p)'
      \/ \E s \in Requests : Completes(s, Reverse(p))'

Same(s) == stage'[s] = stage[s] /\ pair'[s] = pair[s]

\* ... and a handler that was about to write a row goes on, has, or failed to.
Lawful(s) ==
  \/ Same(s)
  \/ /\ Half(s)'
     /\ \A p \in Pairs : Completes(s, p) => Completes(s, p)' \/ row'[p].accepted \/ Excused(p)'

\* This is enough.
LEMMA MutualKept ==
  ASSUME Typed, Mutual, Kept, NewOnesExcused, \A s \in Requests : Lawful(s)
  PROVE  Mutual'
<1>1. ASSUME NEW s \in Requests
      PROVE  Half(s)'
  <2>1. CASE Same(s)
    <3>1. stage[s] \in {"acceptDirect", "findReverse", "saveReverse"} =>
            /\ pair[s] \in Pairs
            /\ Reverse(pair[s]) \in Pairs
            /\ Two(Reverse(pair[s])) = Two(pair[s])
      BY ReversePairs DEF Typed, HandlerShape
    <3>2. Half(s)
      BY DEF Mutual
    <3> QED BY <2>1, <3>1, <3>2 DEF Same, Half, Kept
  <2> QED BY <2>1 DEF Lawful
<1>2. ASSUME NEW p \in Pairs, row'[p].accepted, ~row'[Reverse(p)].accepted
      PROVE  Excused(p)' \/ \E s \in Requests : Completes(s, Reverse(p))'
  <2>0. Reverse(p) \in Pairs /\ Two(Reverse(p)) = Two(p)
    BY ReversePairs
  <2>1. CASE ~row[p].accepted
    BY <1>2, <2>1 DEF NewOnesExcused
  <2>2. CASE row[p].accepted /\ row[Reverse(p)].accepted
    BY <1>2, <2>0, <2>2 DEF Kept, Excused
  <2>3. CASE row[p].accepted /\ ~row[Reverse(p)].accepted /\ Excused(p)
    BY <2>3 DEF Kept, Excused
  <2>4. CASE row[p].accepted /\ ~row[Reverse(p)].accepted /\ ~Excused(p)
    <3>1. PICK s \in Requests : Completes(s, Reverse(p))
      BY <2>4 DEF Mutual, FriendshipIsMutual, Excused
    <3>2. CASE Same(s)
      BY <3>1, <3>2 DEF Same, Completes
    <3>3. CASE ~Same(s)
      <4>1. Completes(s, Reverse(p))' \/ Excused(Reverse(p))'
        BY <1>2, <2>0, <3>1, <3>3 DEF Lawful
      <4>2. Excused(Reverse(p))' => Excused(p)'
        BY <2>0 DEF Excused
      <4> QED BY <4>1, <4>2
    <3> QED BY <3>2, <3>3
  <2> QED BY <2>1, <2>2, <2>3, <2>4
<1>3. FriendshipIsMutual'
  BY <1>2 DEF FriendshipIsMutual, Excused
<1> QED BY <1>1, <1>3 DEF Mutual

\* Where a handler goes, and that the others stay.
LEMMA GoesFrame ==
  ASSUME Typed, NEW r \in Requests, NEW next, Goes(r, next)
  PROVE  stage'[r] = next /\ \A s \in Requests \ {r} : stage'[s] = stage[s]
BY DEF Goes, Typed, TypeOK

LEMMA EndsFrame ==
  ASSUME Typed, NEW r \in Requests, Ends(r)
  PROVE  stage'[r] = "done" /\ \A s \in Requests \ {r} : Same(s)
BY DEF Ends, Goes, Same, Typed, TypeOK

\* A step that writes no friendship, of a handler that is not between two rows.
LEMMA ElsewhereKept ==
  ASSUME Typed, Mutual, NEW r \in Requests,
         \A p \in Pairs : row'[p].accepted = row[p].accepted,
         deleted' = deleted, halfway' = halfway,
         \A s \in Requests \ {r} : Same(s),
         stage[r] \notin {"acceptDirect", "findReverse", "saveReverse"},
         stage'[r] \notin {"acceptDirect", "findReverse", "saveReverse"}
  PROVE  Mutual'
<1>1. Kept /\ NewOnesExcused
  BY DEF Kept, NewOnesExcused
<1>2. Lawful(r)
  BY DEF Lawful, Half, Completes
<1> QED BY <1>1, <1>2, MutualKept DEF Lawful

\* At first nobody is anybody's friend.
LEMMA MutualInit == Init => Mutual
BY ReversePairs DEF Init, Mutual, Half, FriendshipIsMutual, NoRow

\* Each step keeps friendships mutual.
LEMMA MutualStep == Typed /\ Mutual /\ [Next]_vars => Mutual'
<1> SUFFICES ASSUME Typed, Mutual, [Next]_vars
             PROVE  Mutual'
  OBVIOUS
<1>1. ASSUME NEW r \in Requests, NEW u \in Users, NEW v \in Users, SendFriendRequest(r, u, v)
      PROVE  Mutual'
  <2>1. ASSUME NEW p \in Pairs
        PROVE  row'[p].accepted = row[p].accepted
    <3>1. CASE p = <<u, v>>
      <4>1. row[p] = [id |-> Null, accepted |-> FALSE] /\ row'[p] = [id |-> r, accepted |-> FALSE]
        BY <1>1, <3>1 DEF SendFriendRequest, Typed, TypeOK, NoRow
      <4> QED BY <4>1
    <3>2. CASE p # <<u, v>>
      BY <1>1, <3>2 DEF SendFriendRequest, Typed, TypeOK
    <3> QED BY <3>1, <3>2
  <2> QED BY <1>1, <2>1, EndsFrame, ElsewhereKept DEF SendFriendRequest, history
<1>2. ASSUME NEW r \in Requests, NEW u \in Users, NEW v \in Users, AddFriendByLink(r, u, v)
      PROVE  Mutual'
  <2>1. stage'[r] = "findDirect" /\ \A s \in Requests \ {r} : Same(s)
    BY <1>2, GoesFrame DEF AddFriendByLink, Same, Typed, TypeOK
  <2> QED BY <1>2, <2>1, ElsewhereKept DEF AddFriendByLink, tables, history
<1>3. ASSUME NEW r \in Requests, NEW u \in Users, NEW v \in Users, NEW g \in Requests,
             AddGroupMemberByLink(r, g, u, v)
      PROVE  Mutual'
  <2>1. stage'[r] = "join" /\ \A s \in Requests \ {r} : Same(s)
    BY <1>3, GoesFrame DEF AddGroupMemberByLink, Same, Typed, TypeOK
  <2> QED BY <1>3, <2>1, ElsewhereKept DEF AddGroupMemberByLink, tables, history
<1>4. ASSUME NEW r \in Requests, NEW p \in Pairs, AcceptRequest(r, p)
      PROVE  Mutual'
  <2>1. stage'[r] = "insertReverse" /\ \A s \in Requests \ {r} : Same(s)
    BY <1>4, GoesFrame DEF AcceptRequest, Same, Typed, TypeOK
  <2> QED BY <1>4, <2>1, ElsewhereKept DEF AcceptRequest, tables, history
<1>5. ASSUME NEW r \in Requests, InsertReverse(r)
      PROVE  Mutual'
  <2>1. pair[r] \in Pairs /\ Reverse(pair[r]) \in Pairs /\ Reverse(Reverse(pair[r])) = pair[r]
    BY <1>5, ReversePairs DEF InsertReverse, Typed, HandlerShape
  <2>2. /\ row'[Reverse(pair[r])].accepted
        /\ \A p \in Pairs \ {Reverse(pair[r])} : row'[p] = row[p]
    BY <1>5, <2>1 DEF InsertReverse, Typed, TypeOK
  <2>3. stage'[r] = "acceptDirect" /\ pair'[r] = pair[r] /\ \A s \in Requests \ {r} : Same(s)
    BY <1>5, GoesFrame DEF InsertReverse, Same, locals
  <2>4. Kept
    BY <1>5, <2>2 DEF InsertReverse, Kept, history
  <2>5. NewOnesExcused
    BY <2>1, <2>2, <2>3 DEF NewOnesExcused, Completes
  <2>6. Lawful(r)
    BY <1>5, <2>2, <2>3 DEF InsertReverse, Lawful, Half, Completes
  <2> QED BY <2>3, <2>4, <2>5, <2>6, MutualKept DEF Lawful
<1>6. ASSUME NEW r \in Requests, AcceptDirect(r)
      PROVE  Mutual'
  <2>1. pair[r] \in Pairs /\ Reverse(pair[r]) \in Pairs /\ Reverse(Reverse(pair[r])) = pair[r]
    BY <1>6, ReversePairs DEF AcceptDirect, Typed, HandlerShape
  <2>2. row'[pair[r]].accepted /\ \A p \in Pairs \ {pair[r]} : row'[p] = row[p]
    BY <1>6, <2>1, SavesType DEF AcceptDirect
  <2>3. stage'[r] = "done" /\ \A s \in Requests \ {r} : Same(s)
    BY <1>6, EndsFrame DEF AcceptDirect
  <2>4. Kept
    BY <1>6, <2>2 DEF AcceptDirect, Kept, history
  <2>5. ASSUME NEW p \in Pairs, p = pair[r]
        PROVE  row'[Reverse(p)].accepted \/ Excused(p)'
    <3>1. row[Reverse(p)].accepted \/ Two(p) \in deleted
      BY <1>6, <2>5 DEF AcceptDirect, Mutual, Half
    <3>2. row'[Reverse(p)].accepted \/ row'[Reverse(p)] = row[Reverse(p)]
      BY <2>1, <2>2, <2>5
    <3> QED BY <1>6, <3>1, <3>2 DEF AcceptDirect, Excused, history
  <2>6. NewOnesExcused
    BY <2>2, <2>5 DEF NewOnesExcused
  <2>7. Lawful(r)
    BY <1>6, <2>2, <2>3 DEF AcceptDirect, Lawful, Half, Completes
  <2> QED BY <2>3, <2>4, <2>6, <2>7, MutualKept DEF Lawful
<1>7. ASSUME NEW r \in Requests, FindDirect(r)
      PROVE  Mutual'
  <2>1. /\ stage'[r] = IF row[pair[r]].accepted THEN "findReverse" ELSE "saveDirect"
        /\ \A s \in Requests : pair'[s] = pair[s]
        /\ \A s \in Requests \ {r} : Same(s)
    BY <1>7, GoesFrame DEF FindDirect, Same
  <2>2. Kept /\ NewOnesExcused
    BY <1>7 DEF FindDirect, Kept, NewOnesExcused, tables, history
  <2>3. Lawful(r)
    BY <1>7, <2>1 DEF FindDirect, Lawful, Half, Completes, tables
  <2> QED BY <2>1, <2>2, <2>3, MutualKept DEF Lawful
<1>8. ASSUME NEW r \in Requests, SaveDirect(r)
      PROVE  Mutual'
  <2>1. pair[r] \in Pairs
    BY <1>8 DEF SaveDirect, Typed, HandlerShape
  <2>2. row'[pair[r]].accepted /\ \A p \in Pairs \ {pair[r]} : row'[p] = row[p]
    BY <1>8, <2>1, SavesType DEF SaveDirect
  <2>3. stage'[r] = "findReverse" /\ pair'[r] = pair[r] /\ \A s \in Requests \ {r} : Same(s)
    BY <1>8, GoesFrame DEF SaveDirect, Same, locals
  <2>4. Kept
    BY <1>8, <2>2 DEF SaveDirect, Kept, history
  <2>5. NewOnesExcused
    BY <2>1, <2>2, <2>3, ReversePairs DEF NewOnesExcused, Completes
  <2>6. Lawful(r)
    BY <1>8, <2>2, <2>3 DEF SaveDirect, Lawful, Half, Completes
  <2> QED BY <2>3, <2>4, <2>5, <2>6, MutualKept DEF Lawful
<1>9. ASSUME NEW r \in Requests, FindReverse(r)
      PROVE  Mutual'
  <2>1. Kept /\ NewOnesExcused
    BY <1>9 DEF FindReverse, Kept, NewOnesExcused, tables, history
  <2>2. CASE Ends(r) /\ row[Reverse(pair[r])].accepted
    <3>1. stage'[r] = "done" /\ \A s \in Requests \ {r} : Same(s)
      BY <2>2, EndsFrame
    <3>2. ASSUME NEW p \in Pairs, Completes(r, p)
          PROVE  row'[p].accepted
      <4>1. pair[r] = Reverse(p) /\ Reverse(Reverse(p)) = p
        BY <1>9, <3>2, ReversePairs DEF FindReverse, Completes
      <4> QED BY <1>9, <2>2, <4>1 DEF FindReverse, tables
    <3>3. Lawful(r)
      BY <3>1, <3>2 DEF Lawful, Half
    <3> QED BY <2>1, <3>1, <3>3, MutualKept DEF Lawful
  <2>3. CASE Goes(r, "saveReverse") /\ UNCHANGED pair
    <3>1. stage'[r] = "saveReverse" /\ pair'[r] = pair[r] /\ \A s \in Requests \ {r} : Same(s)
      BY <2>3, GoesFrame DEF Same
    <3>2. Lawful(r)
      BY <1>9, <3>1 DEF FindReverse, Lawful, Half, Completes, Mutual, tables, history
    <3> QED BY <2>1, <3>1, <3>2, MutualKept DEF Lawful
  <2> QED BY <1>9, <2>2, <2>3 DEF FindReverse
<1>10. ASSUME NEW r \in Requests, SaveReverse(r)
       PROVE  Mutual'
  <2>1. pair[r] \in Pairs /\ Reverse(pair[r]) \in Pairs /\ Reverse(Reverse(pair[r])) = pair[r]
        /\ Two(Reverse(pair[r])) = Two(pair[r])
    BY <1>10, ReversePairs DEF SaveReverse, Typed, HandlerShape
  <2>2. row'[Reverse(pair[r])].accepted /\ \A p \in Pairs \ {Reverse(pair[r])} : row'[p] = row[p]
    BY <1>10, <2>1, SavesType DEF SaveReverse
  <2>3. stage'[r] = "done" /\ \A s \in Requests \ {r} : Same(s)
    BY <1>10, EndsFrame DEF SaveReverse
  <2>4. Kept
    BY <1>10, <2>2 DEF SaveReverse, Kept, history
  <2>5. ASSUME NEW p \in Pairs, p = Reverse(pair[r])
        PROVE  row'[Reverse(p)].accepted \/ Excused(p)'
    <3>1. Reverse(p) = pair[r] /\ Two(pair[r]) = Two(p)
      BY <2>1, <2>5
    <3>2. row[Reverse(p)].accepted \/ Two(p) \in deleted
      BY <1>10, <3>1 DEF SaveReverse, Mutual, Half
    <3>3. row'[Reverse(p)].accepted \/ row'[Reverse(p)] = row[Reverse(p)]
      BY <2>1, <2>2, <3>1
    <3> QED BY <1>10, <3>2, <3>3 DEF SaveReverse, Excused, history
  <2>6. NewOnesExcused
    BY <2>2, <2>5 DEF NewOnesExcused
  <2>7. ASSUME NEW p \in Pairs, Completes(r, p)
        PROVE  row'[p].accepted
    BY <1>10, <2>2, <2>7, ReversePairs DEF SaveReverse, Completes
  <2>8. Lawful(r)
    BY <2>3, <2>7 DEF Lawful, Half
  <2> QED BY <2>3, <2>4, <2>6, <2>8, MutualKept DEF Lawful
<1>11. ASSUME NEW r \in Requests, NEW u \in Users, CreateGroup(r, u)
       PROVE  Mutual'
  <2>1. stage'[r] = "addMembers" /\ \A s \in Requests \ {r} : Same(s)
    BY <1>11, GoesFrame DEF CreateGroup, Same
  <2> QED BY <1>11, <2>1, ElsewhereKept DEF CreateGroup, history
<1>12. ASSUME NEW r \in Requests, NEW g \in Requests, NEW friends \in SUBSET Users,
              AddFriendsToGroup(r, g, friends)
       PROVE  Mutual'
  <2>1. stage'[r] = "addMembers" /\ \A s \in Requests \ {r} : Same(s)
    BY <1>12, GoesFrame DEF AddFriendsToGroup, Same
  <2> QED BY <1>12, <2>1, ElsewhereKept DEF AddFriendsToGroup, tables, history
<1>13. ASSUME NEW r \in Requests, AddMembers(r)
       PROVE  Mutual'
  BY <1>13, EndsFrame, ElsewhereKept DEF AddMembers, history
<1>14. ASSUME NEW r \in Requests, CommitJoin(r)
       PROVE  Mutual'
  <2>1. pair[r] \in Pairs /\ Reverse(pair[r]) \in Pairs /\ Reverse(Reverse(pair[r])) = pair[r]
    BY <1>14, ReversePairs DEF CommitJoin, Typed, HandlerShape
  <2>2. /\ row'[pair[r]].accepted /\ row'[Reverse(pair[r])].accepted
        /\ \A p \in Pairs \ {pair[r], Reverse(pair[r])} : row'[p] = row[p]
    <3>1. \A p \in Pairs : /\ Linked(row[p], r) \in FriendshipRow
                           /\ Linked(row[p], r).accepted
      BY LinkedType DEF Typed, TypeOK
    <3>2. \A p \in Pairs : Linked(Linked(row[p], r), r).accepted
      BY <3>1, LinkedType
    <3> QED BY <1>14, <2>1, <3>1, <3>2 DEF CommitJoin, BothWays, Typed, TypeOK
  <2>3. stage'[r] = "done" /\ \A s \in Requests \ {r} : Same(s)
    BY <1>14, EndsFrame DEF CommitJoin
  <2>4. Kept
    BY <1>14, <2>2 DEF CommitJoin, Kept, history
  <2>5. NewOnesExcused
    BY <2>1, <2>2 DEF NewOnesExcused
  <2>6. Lawful(r)
    BY <1>14, <2>3 DEF CommitJoin, Lawful, Half, Completes
  <2> QED BY <2>3, <2>4, <2>5, <2>6, MutualKept DEF Lawful
<1>15. ASSUME NEW r \in Requests, Throws(r)
       PROVE  Mutual'
  <2>1. stage'[r] = "done" /\ \A s \in Requests \ {r} : Same(s)
    BY <1>15, EndsFrame DEF Throws
  <2>2. Kept /\ NewOnesExcused
    BY <1>15 DEF Throws, Kept, NewOnesExcused, tables
  <2>3. ASSUME NEW p \in Pairs, Completes(r, p)
        PROVE  Excused(p)'
    <3>1. stage[r] \in {"acceptDirect", "findReverse", "saveReverse"} /\ Two(pair[r]) = Two(p)
      BY <2>3, ReversePairs DEF Completes
    <3> QED BY <1>15, <3>1 DEF Throws, Excused
  <2>4. Lawful(r)
    BY <2>1, <2>3 DEF Lawful, Half
  <2> QED BY <2>1, <2>2, <2>4, MutualKept DEF Lawful
<1>16. ASSUME NEW p \in Pairs, DeleteRequest(p)
       PROVE  Mutual'
  <2>1. Kept /\ NewOnesExcused
    BY <1>16 DEF DeleteRequest, Kept, NewOnesExcused, NoRow, Typed, TypeOK
  <2>2. \A s \in Requests : Same(s)
    BY <1>16 DEF DeleteRequest, Same, locals
  <2> QED BY <2>1, <2>2, MutualKept DEF Lawful
<1>17. ASSUME NEW r \in Requests, NEW g \in Requests, UpdateGroup(r, g)
       PROVE  Mutual'
  <2>1. stage'[r] = "saveGroup" /\ \A s \in Requests \ {r} : Same(s)
    BY <1>17, GoesFrame DEF UpdateGroup, Same
  <2> QED BY <1>17, <2>1, ElsewhereKept DEF UpdateGroup, tables, history
<1>18. ASSUME NEW r \in Requests, SaveGroup(r)
       PROVE  Mutual'
  BY <1>18, EndsFrame, ElsewhereKept DEF SaveGroup
<1>19. CASE \/ \E g \in Requests : RemoveGroup(g)
            \/ \E m \in members : EndMembership(m)
            \/ UNCHANGED vars
  <2>1. row' = row /\ deleted' = deleted /\ halfway' = halfway /\ stage' = stage /\ pair' = pair
    BY <1>19 DEF RemoveGroup, EndMembership, vars, tables, locals, history
  <2>2. Kept /\ NewOnesExcused
    BY <2>1 DEF Kept, NewOnesExcused
  <2> QED BY <2>1, <2>2, MutualKept DEF Lawful, Same
<1> QED
  BY <1>1, <1>2, <1>3, <1>4, <1>5, <1>6, <1>7, <1>8, <1>9, <1>10, <1>11, <1>12, <1>13,
     <1>14, <1>15, <1>16, <1>17, <1>18, <1>19 DEF Next

\* Accepted friends accept, unless a row was deleted or a handler is, or was cut
\* off, between its two rows: whatever stale rows the handlers write.
THEOREM FriendsAreMutual == Spec => []FriendshipIsMutual
<1>1. Mutual => FriendshipIsMutual
  BY DEF Mutual
<1> QED BY TypedInit, TypedStep, MutualInit, MutualStep, <1>1, PTL DEF Spec
-----------------------------------------------------------------------------
(***************************************************************************)
(* Owners are members                                                      *)
(***************************************************************************)

\* The group g of the owner u is made by the request it is named after, which
\* then adds u.
Made(g, u) ==
  /\ stage[g] \in {"addMembers", "done"}
  /\ stage[g] = "addMembers" => group[g] = g /\ u \in adds[g]

\* Who saves a group holds its owner, the one of its making.
Saving(s) == stage[s] = "saveGroup"

Creation ==
  /\ \A g \in Requests : owner[g] # Null => Made(g, owner[g])
  /\ \A s \in Requests :
       Saving(s) => Made(group[s], host[s]) /\ owner[group[s]] \in {Null, host[s]}
  /\ \A s, t \in Requests :
       Saving(s) /\ Saving(t) /\ group[s] = group[t] => host[s] = host[t]

Owned == Creation /\ OwnerIsMember

\* A step that makes no group, but may remove one or insert it again, and whose
\* handler does not start to save one.
LEMMA CreationKept ==
  ASSUME Typed, Creation, NEW r \in Requests, stage'[r] # "saveGroup",
         stage[r] \notin {"addMembers", "done"} \/ stage'[r] = "done",
         \A s \in Requests \ {r} :
           stage'[s] = stage[s] /\ group'[s] = group[s] /\ adds'[s] = adds[s] /\ host'[s] = host[s],
         \A g \in Requests : \/ owner'[g] \in {owner[g], Null}
                             \/ Saving(r) /\ g = group[r] /\ owner'[g] = host[r]
  PROVE  Creation'
<1>1. \A g \in Requests, u \in Users : Made(g, u) => Made(g, u)'
  BY DEF Made
<1>2. \A g \in Requests : owner[g] # Null => owner[g] \in Users
  BY DEF Typed, TypeOK
<1>3. \A s \in Requests : Saving(s) => group[s] \in Requests /\ host[s] \in Users
  BY DEF Typed, HandlerShape, Saving
<1>4. ASSUME NEW s \in Requests, Saving(s)'
      PROVE  /\ s # r /\ Saving(s) /\ group'[s] = group[s] /\ host'[s] = host[s]
             /\ Made(group[s], host[s])' /\ owner'[group[s]] \in {Null, host[s]}
  <2>1. s # r /\ Saving(s) /\ group'[s] = group[s] /\ host'[s] = host[s]
    BY <1>4 DEF Saving
  <2>2. Made(group[s], host[s])'
    BY <1>1, <1>3, <2>1 DEF Creation
  <2>3. owner'[group[s]] \in {Null, host[s]}
    BY <1>3, <2>1 DEF Creation
  <2> QED BY <2>1, <2>2, <2>3
<1>5. ASSUME NEW g \in Requests, NEW u \in Users, owner'[g] = u
      PROVE  Made(g, u)'
  <2>1. CASE owner[g] = u
    BY <1>1, <2>1, NullAssumption DEF Creation
  <2>2. CASE Saving(r) /\ g = group[r] /\ u = host[r]
    BY <1>1, <2>2 DEF Creation
  <2> QED BY <1>5, <2>1, <2>2, NullAssumption
<1>6. \A g \in Requests : owner'[g] # Null => Made(g, owner[g])'
  <2>1. \A g \in Requests : owner'[g] # Null => owner'[g] \in Users
    BY <1>2, <1>3
  <2> QED BY <1>5, <2>1 DEF Made
<1>7. \A s \in Requests : Saving(s)' => Made(group[s], host[s])' /\ owner'[group'[s]] \in {Null, host'[s]}
  BY <1>4 DEF Made
<1>8. \A s, t \in Requests : Saving(s)' /\ Saving(t)' /\ group'[s] = group'[t] => host'[s] = host'[t]
  BY <1>4 DEF Creation
<1> QED BY <1>6, <1>7, <1>8 DEF Creation

\* A step that makes or removes no group, ends no membership, and whose handler
\* neither makes a group nor starts to save one.
LEMMA OwnedKept ==
  ASSUME Typed, Owned, owner' = owner, members \subseteq members', left \subseteq left',
         revived' = revived,
         NEW r \in Requests, stage[r] \notin {"addMembers", "done"}, stage'[r] # "saveGroup",
         \A s \in Requests \ {r} :
           stage'[s] = stage[s] /\ group'[s] = group[s] /\ adds'[s] = adds[s] /\ host'[s] = host[s]
  PROVE  Owned'
<1>1. Creation'
  BY CreationKept DEF Owned
<1>2. \A g \in Requests : owner[g] # Null => owner[g] \in Users
  BY DEF Typed, TypeOK
<1>3. \A g \in Requests, u \in Users : IsMember(g, u) => IsMember(g, u)'
  BY DEF IsMember
<1>4. \A g \in Requests : stage'[g] = stage[g] \/ stage[g] # "addMembers"
  OBVIOUS
<1>5. OwnerIsMember'
  BY <1>2, <1>3, <1>4 DEF OwnerIsMember, Owned
<1> QED BY <1>1, <1>5 DEF Owned

\* At first there is no group.
LEMMA OwnedInit == Init => Owned
BY DEF Init, Owned, Creation, Saving, OwnerIsMember

\* Each step keeps owners among the members.
LEMMA OwnedStep == Typed /\ Owned /\ [Next]_vars => Owned'
<1> SUFFICES ASSUME Typed, Owned, [Next]_vars
             PROVE  Owned'
  OBVIOUS
<1>1. ASSUME NEW r \in Requests,
             \/ \E u, v \in Users : \/ SendFriendRequest(r, u, v)
                                    \/ AddFriendByLink(r, u, v)
                                    \/ \E g \in Requests : AddGroupMemberByLink(r, g, u, v)
             \/ \E p \in Pairs : AcceptRequest(r, p)
             \/ \E g \in Requests, friends \in SUBSET Users : AddFriendsToGroup(r, g, friends)
      PROVE  Owned'
  <2>1. /\ stage[r] = "idle" /\ owner' = owner /\ members' = members
        /\ left' = left /\ revived' = revived
    BY <1>1 DEF SendFriendRequest, AddFriendByLink, AddGroupMemberByLink, AcceptRequest,
                AddFriendsToGroup, tables, history
  <2>2. \A s \in Requests \ {r} :
          stage'[s] = stage[s] /\ group'[s] = group[s] /\ adds'[s] = adds[s] /\ host'[s] = host[s]
    BY <1>1 DEF SendFriendRequest, AddFriendByLink, AddGroupMemberByLink, AcceptRequest,
                AddFriendsToGroup, Ends, Goes, Typed, TypeOK
  <2>3. stage'[r] # "saveGroup"
    BY <1>1 DEF SendFriendRequest, AddFriendByLink, AddGroupMemberByLink, AcceptRequest,
                AddFriendsToGroup, Ends, Goes, Typed, TypeOK
  <2> QED BY <2>1, <2>2, <2>3, OwnedKept
<1>2. ASSUME NEW r \in Requests,
             \/ InsertReverse(r) \/ AcceptDirect(r) \/ FindDirect(r) \/ SaveDirect(r)
             \/ FindReverse(r) \/ SaveReverse(r)
      PROVE  Owned'
  <2>1. /\ stage[r] \notin {"addMembers", "done"}
        /\ owner' = owner /\ members' = members /\ left' = left /\ revived' = revived
    BY <1>2 DEF InsertReverse, AcceptDirect, FindDirect, SaveDirect, FindReverse, SaveReverse,
                tables, history
  <2>2. \A s \in Requests \ {r} :
          stage'[s] = stage[s] /\ group'[s] = group[s] /\ adds'[s] = adds[s] /\ host'[s] = host[s]
    BY <1>2 DEF InsertReverse, AcceptDirect, FindDirect, SaveDirect, FindReverse, SaveReverse,
                Ends, Goes, locals, Typed, TypeOK
  <2>3. stage'[r] # "saveGroup"
    BY <1>2 DEF InsertReverse, AcceptDirect, FindDirect, SaveDirect, FindReverse, SaveReverse,
                Ends, Goes, Typed, TypeOK
  <2> QED BY <2>1, <2>2, <2>3, OwnedKept
<1>3. ASSUME NEW r \in Requests, CommitJoin(r)
      PROVE  Owned'
  <2>1. /\ stage[r] = "join" /\ owner' = owner /\ members \subseteq members'
        /\ left' = left /\ revived' = revived
    BY <1>3 DEF CommitJoin
  <2>2. \A s \in Requests \ {r} :
          stage'[s] = stage[s] /\ group'[s] = group[s] /\ adds'[s] = adds[s] /\ host'[s] = host[s]
    BY <1>3 DEF CommitJoin, Ends, Goes, Typed, TypeOK
  <2>3. stage'[r] # "saveGroup"
    BY <1>3 DEF CommitJoin, Ends, Goes, Typed, TypeOK
  <2> QED BY <2>1, <2>2, <2>3, OwnedKept
<1>4. ASSUME NEW r \in Requests, NEW u \in Users, CreateGroup(r, u)
      PROVE  Owned'
  <2>1. /\ stage'[r] = "addMembers" /\ owner'[r] = u /\ group'[r] = r /\ u \in adds'[r]
        /\ members' = members /\ left' = left /\ revived' = revived /\ stage[r] = "idle"
    BY <1>4 DEF CreateGroup, Goes, history, Typed, TypeOK
  <2>2. \A s \in Requests \ {r} : /\ stage'[s] = stage[s] /\ owner'[s] = owner[s]
                                  /\ group'[s] = group[s] /\ adds'[s] = adds[s] /\ host'[s] = host[s]
    BY <1>4 DEF CreateGroup, Goes, Typed, TypeOK
  <2>3. \A g \in Requests : \A v : g # r /\ Made(g, v) => Made(g, v)'
    BY <2>2 DEF Made
  <2>4. ASSUME NEW s \in Requests, Saving(s)'
        PROVE  s # r /\ Saving(s) /\ group[s] \in Requests /\ group[s] # r
    <3>1. s # r /\ Saving(s)
      BY <2>1, <2>2, <2>4 DEF Saving
    <3>2. Made(group[s], host[s]) /\ group[s] \in Requests
      BY <3>1 DEF Owned, Creation, Typed, HandlerShape, Saving
    <3> QED BY <2>1, <3>1, <3>2 DEF Made
  <2>5. \A g \in Requests : owner'[g] # Null => Made(g, owner[g])'
    <3>1. Made(r, owner[r])'
      BY <2>1 DEF Made
    <3>2. ASSUME NEW g \in Requests, g # r, owner'[g] # Null
          PROVE  Made(g, owner[g])'
      BY <2>2, <3>2 DEF Owned, Creation, Made
    <3> QED BY <3>1, <3>2
  <2>6. \A s \in Requests : Saving(s)' =>
          Made(group[s], host[s])' /\ owner'[group'[s]] \in {Null, host'[s]}
    BY <2>2, <2>3, <2>4 DEF Owned, Creation, Made
  <2>7. \A s, t \in Requests : Saving(s)' /\ Saving(t)' /\ group'[s] = group'[t] => host'[s] = host'[t]
    BY <2>2, <2>4 DEF Owned, Creation
  <2>8. OwnerIsMember'
    BY <2>1, <2>2 DEF OwnerIsMember, Owned, IsMember
  <2> QED BY <2>5, <2>6, <2>7, <2>8 DEF Owned, Creation
<1>5. ASSUME NEW r \in Requests, AddMembers(r)
      PROVE  Owned'
  <2>1. /\ stage[r] = "addMembers" /\ stage'[r] = "done"
        /\ owner' = owner /\ left' = left /\ revived' = revived
        /\ members' = members \cup Memberships(r)
    BY <1>5 DEF AddMembers, Ends, Goes, Typed, TypeOK
  <2>2. \A s \in Requests \ {r} :
          stage'[s] = stage[s] /\ group'[s] = group[s] /\ adds'[s] = adds[s] /\ host'[s] = host[s]
    BY <1>5 DEF AddMembers, Ends, Goes, Typed, TypeOK
  <2>3. Creation'
    BY <2>1, <2>2, CreationKept DEF Owned
  <2>4. owner[r] # Null => IsMember(r, owner[r])'
    <3>1. ASSUME owner[r] # Null
          PROVE  [by |-> r, group |-> r, user |-> owner[r]] \in members'
      <4>1. group[r] = r /\ owner[r] \in adds[r]
        BY <2>1, <3>1 DEF Owned, Creation, Made
      <4> QED BY <2>1, <4>1 DEF Memberships
    <3> QED BY <2>1, <3>1 DEF IsMember
  <2>5. \A g \in Requests \ {r} : owner[g] # Null =>
          \/ IsMember(g, owner[g])' \/ <<g, owner[g]>> \in left'
          \/ stage'[g] = "addMembers" \/ g \in revived'
    BY <2>1, <2>2 DEF Owned, OwnerIsMember, IsMember
  <2>6. OwnerIsMember'
    BY <2>1, <2>4, <2>5 DEF OwnerIsMember
  <2> QED BY <2>3, <2>6 DEF Owned
<1>6. ASSUME NEW r \in Requests, Throws(r)
      PROVE  Owned'
  <2>1. /\ stage'[r] = "done" /\ owner' = owner /\ members' = members
        /\ left \subseteq left' /\ revived' = revived
    BY <1>6 DEF Throws, Ends, Goes, tables, Typed, TypeOK
  <2>2. \A s \in Requests \ {r} :
          stage'[s] = stage[s] /\ group'[s] = group[s] /\ adds'[s] = adds[s] /\ host'[s] = host[s]
    BY <1>6 DEF Throws, Ends, Goes, Typed, TypeOK
  <2>3. Creation'
    BY <2>1, <2>2, CreationKept DEF Owned
  <2>4. owner[r] # Null => <<r, owner[r]>> \in left'
    <3>1. owner[r] # Null => stage[r] = "addMembers" /\ group[r] = r /\ owner[r] \in adds[r]
      BY <1>6 DEF Throws, Owned, Creation, Made
    <3> QED BY <1>6, <3>1 DEF Throws
  <2>5. \A g \in Requests \ {r} : owner[g] # Null =>
          \/ IsMember(g, owner[g])' \/ <<g, owner[g]>> \in left'
          \/ stage'[g] = "addMembers" \/ g \in revived'
    BY <2>1, <2>2 DEF Owned, OwnerIsMember, IsMember
  <2>6. OwnerIsMember'
    BY <2>1, <2>4, <2>5 DEF OwnerIsMember
  <2> QED BY <2>3, <2>6 DEF Owned
<1>7. ASSUME NEW g \in Requests, RemoveGroup(g)
      PROVE  Owned'
  <2>1. /\ owner'[g] = Null /\ \A h \in Requests \ {g} : owner'[h] = owner[h]
        /\ members' = {m \in members : m.group # g}
        /\ stage' = stage /\ group' = group /\ adds' = adds /\ host' = host
        /\ left' = left /\ revived' = revived
    BY <1>7 DEF RemoveGroup, locals, history, Typed, TypeOK
  <2>2. Creation'
    BY <2>1 DEF Creation, Made, Saving, Owned, Typed, HandlerShape
  <2>3. \A h \in Requests \ {g} : IsMember(h, owner[h]) => IsMember(h, owner[h])'
    BY <2>1 DEF IsMember
  <2>4. OwnerIsMember'
    <3> SUFFICES ASSUME NEW h \in Requests, owner'[h] # Null
                 PROVE  (\/ IsMember(h, owner[h]) \/ <<h, owner[h]>> \in left
                         \/ stage[h] = "addMembers" \/ h \in revived)'
      BY DEF OwnerIsMember
    <3>1. h # g /\ owner'[h] = owner[h]
      BY <2>1
    <3>2. \/ IsMember(h, owner[h]) \/ <<h, owner[h]>> \in left
          \/ stage[h] = "addMembers" \/ h \in revived
      BY <3>1 DEF Owned, OwnerIsMember
    <3> QED BY <2>1, <2>3, <3>1, <3>2
  <2> QED BY <2>2, <2>4 DEF Owned
<1>8. ASSUME NEW m \in members, EndMembership(m)
      PROVE  Owned'
  <2>1. /\ members' = members \ {m} /\ left' = left \cup {<<m.group, m.user>>}
        /\ owner' = owner /\ stage' = stage /\ group' = group /\ adds' = adds /\ host' = host
        /\ revived' = revived
    BY <1>8 DEF EndMembership, locals
  <2>2. Creation'
    BY <2>1 DEF Creation, Made, Saving, Owned, Typed, HandlerShape
  <2>3. \A g \in Requests :
          IsMember(g, owner[g]) => IsMember(g, owner[g])' \/ <<g, owner[g]>> \in left'
    BY <2>1 DEF IsMember
  <2>4. OwnerIsMember'
    BY <2>1, <2>3 DEF Owned, OwnerIsMember
  <2> QED BY <2>2, <2>4 DEF Owned
<1>9. CASE (\E p \in Pairs : DeleteRequest(p)) \/ UNCHANGED vars
  <2>1. /\ owner' = owner /\ members' = members /\ left' = left /\ revived' = revived
        /\ stage' = stage /\ group' = group /\ adds' = adds /\ host' = host
    BY <1>9 DEF DeleteRequest, vars, tables, locals, history
  <2> QED BY <2>1 DEF Owned, Creation, Made, Saving, OwnerIsMember, IsMember
<1>10. ASSUME NEW r \in Requests, NEW g \in Requests, UpdateGroup(r, g)
       PROVE  Owned'
  <2>1. /\ stage[r] = "idle" /\ stage'[r] = "saveGroup" /\ group'[r] = g /\ host'[r] = owner[g]
        /\ owner[g] # Null /\ owner' = owner /\ members' = members
        /\ left' = left /\ revived' = revived /\ adds' = adds
    BY <1>10 DEF UpdateGroup, Goes, tables, history, Typed, TypeOK
  <2>2. \A s \in Requests \ {r} :
          stage'[s] = stage[s] /\ group'[s] = group[s] /\ host'[s] = host[s]
    BY <1>10 DEF UpdateGroup, Goes, Typed, TypeOK
  <2>3. \A h \in Requests : \A v : Made(h, v) => Made(h, v)'
    BY <2>1, <2>2 DEF Made
  <2>4. \A h \in Requests : owner'[h] # Null => Made(h, owner[h])'
    BY <2>1, <2>2 DEF Owned, Creation, Made
  <2>5. ASSUME NEW s \in Requests, s # r, Saving(s)'
        PROVE  Saving(s) /\ group'[s] = group[s] /\ host'[s] = host[s] /\ group[s] \in Requests
    BY <2>2, <2>5 DEF Saving, Typed, HandlerShape
  <2>6. \A s \in Requests : Saving(s)' =>
          Made(group[s], host[s])' /\ owner'[group'[s]] \in {Null, host'[s]}
    <3>1. Made(group[r], host[r])' /\ owner'[group'[r]] = host'[r]
      BY <2>1, <2>2 DEF Owned, Creation, Made
    <3>2. ASSUME NEW s \in Requests, s # r, Saving(s)'
          PROVE  Made(group[s], host[s])' /\ owner'[group'[s]] \in {Null, host'[s]}
      <4>1. Made(group[s], host[s]) /\ owner[group[s]] \in {Null, host[s]}
        BY <2>5, <3>2 DEF Owned, Creation
      <4>2. stage'[group[s]] = stage[group[s]] /\ group'[group[s]] = group[group[s]]
        BY <2>1, <2>2, <2>5, <3>2, <4>1 DEF Made
      <4> QED BY <2>1, <2>5, <3>2, <4>1, <4>2 DEF Made
    <3> QED BY <3>1, <3>2
  <2>7. \A s, t \in Requests : Saving(s)' /\ Saving(t)' /\ group'[s] = group'[t] => host'[s] = host'[t]
    <3>1. ASSUME NEW s \in Requests, s # r, Saving(s)', group'[s] = g
          PROVE  host'[s] = owner[g]
      BY <2>1, <2>5, <3>1 DEF Owned, Creation
    <3> QED BY <2>1, <2>5, <3>1 DEF Owned, Creation
  <2>8. OwnerIsMember'
    BY <2>1, <2>2 DEF OwnerIsMember, Owned, IsMember
  <2> QED BY <2>4, <2>6, <2>7, <2>8 DEF Owned, Creation
<1>11. ASSUME NEW r \in Requests, SaveGroup(r)
       PROVE  Owned'
  <2>1. /\ Saving(r) /\ group[r] \in Requests /\ stage'[r] = "done"
        /\ owner' = [owner EXCEPT ![group[r]] = host[r]]
        /\ members' = members /\ left' = left
        /\ revived' = IF owner[group[r]] = Null THEN revived \cup {group[r]} ELSE revived
    BY <1>11 DEF SaveGroup, Saving, Ends, Goes, Typed, TypeOK, HandlerShape
  <2>2. \A s \in Requests \ {r} :
          stage'[s] = stage[s] /\ group'[s] = group[s] /\ adds'[s] = adds[s] /\ host'[s] = host[s]
    BY <1>11 DEF SaveGroup, Ends, Goes, Typed, TypeOK
  <2>3. /\ owner'[group[r]] = host[r]
        /\ \A g \in Requests \ {group[r]} : owner'[g] = owner[g]
    BY <2>1 DEF Typed, TypeOK
  <2>4. Creation'
    BY <2>1, <2>2, <2>3, CreationKept DEF Owned
  <2>5. \A g \in Requests : owner[g] # Null => owner'[g] = owner[g]
    BY <2>1, <2>3 DEF Owned, Creation
  <2>6. \A g \in Requests : owner[g] = Null /\ owner'[g] # Null => g \in revived'
    BY <2>1, <2>3
  <2>7. \A g \in Requests : stage[g] = "addMembers" => stage'[g] = "addMembers"
    BY <2>1, <2>2 DEF Saving
  <2>8. OwnerIsMember'
    BY <2>1, <2>5, <2>6, <2>7 DEF OwnerIsMember, Owned, IsMember
  <2> QED BY <2>4, <2>8 DEF Owned
<1> QED BY <1>1, <1>2, <1>3, <1>4, <1>5, <1>6, <1>7, <1>8, <1>9, <1>10, <1>11 DEF Next

\* The owner is a member, unless the membership was ended, or is being made, or
\* broke off, or an update inserted the group again after its removal.
THEOREM OwnersAreMembers == Spec => []OwnerIsMember
<1>1. Owned => OwnerIsMember
  BY DEF Owned
<1> QED BY TypedInit, TypedStep, OwnedInit, OwnedStep, <1>1, PTL DEF Spec
-----------------------------------------------------------------------------
(***************************************************************************)
(* A member twice                                                          *)
(***************************************************************************)

\* The members a handler is going to insert have no row yet, or somebody crossed
\* it; a group that is not there has no members.
Once ==
  /\ \A r \in Requests, u \in Users :
       stage[r] \in Inserting /\ u \in adds[r] /\ IsMember(group[r], u) => <<group[r], u>> \in crossed
  /\ \A m \in members : owner[m.group] # Null
  /\ TwiceOnlyIfCrossed

\* A handler that goes on as it was, or inserts only who has no row.
InsertsMissing(s) ==
  stage'[s] \in Inserting =>
    \/ stage[s] \in Inserting /\ group'[s] = group[s] /\ adds'[s] = adds[s]
    \/ \A u \in adds'[s] : ~IsMember(group'[s], u)

\* A step that adds no membership.
LEMMA OnceKept ==
  ASSUME Typed, Once, members' \subseteq members, crossed' = crossed,
         \A m \in members' : owner[m.group] # Null => owner'[m.group] # Null,
         \A s \in Requests : InsertsMissing(s)
  PROVE  Once'
<1>1. \A g \in Requests, u \in Users : IsMember(g, u)' => IsMember(g, u)
  BY DEF IsMember
<1>2. ASSUME NEW r \in Requests, NEW u \in Users,
             stage'[r] \in Inserting, u \in adds'[r], IsMember(group[r], u)'
      PROVE  <<group'[r], u>> \in crossed'
  <2>1. IsMember(group'[r], u)
    BY <1>2 DEF IsMember
  <2> QED BY <1>2, <2>1 DEF InsertsMissing, Once
<1>3. TwiceOnlyIfCrossed'
  BY DEF Once, TwiceOnlyIfCrossed
<1> QED BY <1>2, <1>3 DEF Once

\* A handler's insertion of those it found missing.
LEMMA OnceInserted ==
  ASSUME Typed, Once, NEW r \in Requests, stage[r] \in Inserting, Ends(r),
         adds[r] # {} => owner[group[r]] # Null,
         members' = members \cup Memberships(r), crossed' = crossed \cup Crossing(r), owner' = owner
  PROVE  Once'
<1>1. /\ stage'[r] = "done"
      /\ \A s \in Requests \ {r} :
           stage'[s] = stage[s] /\ group'[s] = group[s] /\ adds'[s] = adds[s]
  BY DEF Ends, Goes, Typed, TypeOK
<1>2. ASSUME NEW m \in Memberships(r)
      PROVE  /\ m.by = r /\ m.group = group[r] /\ m.user \in adds[r]
             /\ m = [by |-> r, group |-> group[r], user |-> m.user]
  BY DEF Memberships
<1>3. ASSUME NEW s \in Requests, NEW u \in Users,
             stage'[s] \in Inserting, u \in adds'[s], IsMember(group[s], u)'
      PROVE  <<group'[s], u>> \in crossed'
  <2>1. s # r /\ stage[s] \in Inserting /\ group'[s] = group[s] /\ u \in adds[s]
    BY <1>1, <1>3 DEF Inserting
  <2>2. PICK m \in members' : m.group = group[s] /\ m.user = u
    BY <1>3, <2>1 DEF IsMember
  <2>3. CASE m \in members
    BY <2>1, <2>2, <2>3 DEF Once, IsMember
  <2>4. CASE m \in Memberships(r)
    <3>1. u \in adds[r] /\ group[s] = group[r]
      BY <1>2, <2>2, <2>4
    <3>2. <<group[r], u>> \in Crossing(r)
      BY <2>1, <3>1 DEF Crossing
    <3> QED BY <2>1, <3>1, <3>2
  <2> QED BY <2>2, <2>3, <2>4
<1>4. ASSUME NEW m \in members'
      PROVE  owner'[m.group] # Null
  BY <1>2, <1>4 DEF Once
<1>5. ASSUME NEW m \in members', NEW n \in members', m.group = n.group, m.user = n.user
      PROVE  m = n \/ <<m.group, m.user>> \in crossed'
  <2>1. CASE m \in members /\ n \in members
    BY <1>5, <2>1 DEF Once, TwiceOnlyIfCrossed
  <2>2. CASE m \in Memberships(r) /\ n \in Memberships(r)
    BY <1>2, <1>5, <2>2
  <2>3. ASSUME NEW old \in members, NEW new \in Memberships(r),
               old.group = new.group, old.user = new.user
        PROVE  <<new.group, new.user>> \in crossed
    <3>1. new.group = group[r] /\ new.user \in adds[r] /\ new.user \in Users
      BY <1>2 DEF Typed, TypeOK
    <3>2. IsMember(group[r], new.user)
      BY <2>3, <3>1 DEF IsMember
    <3> QED BY <3>1, <3>2 DEF Once
  <2> QED BY <1>5, <2>1, <2>2, <2>3
<1> QED BY <1>3, <1>4, <1>5 DEF Once, TwiceOnlyIfCrossed

\* At first nobody is a member.
LEMMA OnceInit == Init => Once
BY DEF Init, Once, TwiceOnlyIfCrossed, Inserting

\* Each step keeps it.
LEMMA OnceStep == Typed /\ Owned /\ Once /\ [Next]_vars => Once'
<1> SUFFICES ASSUME Typed, Owned, Once, [Next]_vars
             PROVE  Once'
  OBVIOUS
<1>1. ASSUME NEW r \in Requests, AddMembers(r) \/ CommitJoin(r)
      PROVE  Once'
  <2>1. stage[r] \in Inserting /\ Ends(r) /\ (adds[r] # {} => owner[group[r]] # Null)
        /\ members' = members \cup Memberships(r) /\ crossed' = crossed \cup Crossing(r)
        /\ owner' = owner
    BY <1>1 DEF AddMembers, CommitJoin, Inserting
  <2> QED BY <2>1, OnceInserted
<1>2. ASSUME NEW r \in Requests,
             \/ \E u, v \in Users : SendFriendRequest(r, u, v) \/ AddFriendByLink(r, u, v)
             \/ \E p \in Pairs : AcceptRequest(r, p)
             \/ InsertReverse(r) \/ AcceptDirect(r) \/ FindDirect(r) \/ SaveDirect(r)
             \/ FindReverse(r) \/ SaveReverse(r) \/ Throws(r)
      PROVE  Once'
  <2>1. members' = members /\ owner' = owner /\ crossed' = crossed
    BY <1>2 DEF SendFriendRequest, AddFriendByLink, AcceptRequest, InsertReverse, AcceptDirect,
                FindDirect, SaveDirect, FindReverse, SaveReverse, Throws, tables, history
  <2>2. stage'[r] \notin Inserting /\ \A s \in Requests \ {r} :
          stage'[s] = stage[s] /\ group'[s] = group[s] /\ adds'[s] = adds[s]
    <3>1. CASE Ends(r)
      BY <3>1 DEF Ends, Goes, Inserting, Typed, TypeOK
    <3>2. CASE ~Ends(r)
      BY <1>2, <3>2 DEF SendFriendRequest, AddFriendByLink, AcceptRequest, InsertReverse,
                        AcceptDirect, FindDirect, SaveDirect, FindReverse, SaveReverse, Throws,
                        Goes, locals, Inserting, Typed, TypeOK
    <3> QED BY <3>1, <3>2
  <2> QED BY <2>1, <2>2, OnceKept DEF InsertsMissing
<1>3. ASSUME NEW r \in Requests, NEW u \in Users, CreateGroup(r, u)
      PROVE  Once'
  <2>1. /\ members' = members /\ crossed' = crossed /\ group'[r] = r
        /\ \A g \in Requests \ {r} : owner'[g] = owner[g]
        /\ owner'[r] = u
        /\ \A s \in Requests \ {r} :
             stage'[s] = stage[s] /\ group'[s] = group[s] /\ adds'[s] = adds[s]
    BY <1>3 DEF CreateGroup, Goes, history, Typed, TypeOK
  <2>2. owner[r] = Null
    BY <1>3 DEF CreateGroup, Owned, Creation, Made
  <2>3. \A v : ~IsMember(r, v)
    BY <2>2 DEF Once, IsMember
  <2>4. \A m \in members : m.group # r /\ m.group \in Requests
    BY <2>2 DEF Once, Typed, TypeOK, Membership
  <2> QED BY <2>1, <2>3, <2>4, OnceKept DEF InsertsMissing
<1>4. ASSUME NEW r \in Requests, NEW g \in Requests,
             \/ \E friends \in SUBSET Users : AddFriendsToGroup(r, g, friends)
             \/ \E u, v \in Users : AddGroupMemberByLink(r, g, u, v)
      PROVE  Once'
  <2>1. /\ members' = members /\ owner' = owner /\ crossed' = crossed
        /\ \A s \in Requests \ {r} :
             stage'[s] = stage[s] /\ group'[s] = group[s] /\ adds'[s] = adds[s]
    BY <1>4 DEF AddFriendsToGroup, AddGroupMemberByLink, Goes, tables, history, Typed, TypeOK
  <2>2. group'[r] = g /\ \A u \in adds'[r] : ~IsMember(g, u)
    BY <1>4 DEF AddFriendsToGroup, AddGroupMemberByLink, Missing, Typed, TypeOK
  <2> QED BY <2>1, <2>2, OnceKept DEF InsertsMissing
<1>5. ASSUME NEW g \in Requests, RemoveGroup(g)
      PROVE  Once'
  <2>1. /\ members' = {m \in members : m.group # g} /\ crossed' = crossed
        /\ \A h \in Requests \ {g} : owner'[h] = owner[h]
        /\ stage' = stage /\ group' = group /\ adds' = adds
    BY <1>5 DEF RemoveGroup, locals, history, Typed, TypeOK
  <2>2. \A m \in members' : m.group \in Requests \ {g}
    BY <2>1 DEF Typed, TypeOK, Membership
  <2> QED BY <2>1, <2>2, OnceKept DEF InsertsMissing
<1>6. CASE \/ \E p \in Pairs : DeleteRequest(p)
           \/ \E m \in members : EndMembership(m)
           \/ UNCHANGED vars
  <2>1. /\ members' \subseteq members /\ owner' = owner /\ crossed' = crossed
        /\ stage' = stage /\ group' = group /\ adds' = adds
    BY <1>6 DEF DeleteRequest, EndMembership, vars, tables, locals, history
  <2> QED BY <2>1, OnceKept DEF InsertsMissing
<1>7. ASSUME NEW r \in Requests, NEW g \in Requests, UpdateGroup(r, g)
      PROVE  Once'
  <2>1. /\ members' = members /\ owner' = owner /\ crossed' = crossed /\ stage'[r] = "saveGroup"
        /\ \A s \in Requests \ {r} :
             stage'[s] = stage[s] /\ group'[s] = group[s] /\ adds'[s] = adds[s]
    BY <1>7 DEF UpdateGroup, Goes, tables, history, Typed, TypeOK
  <2> QED BY <2>1, OnceKept DEF InsertsMissing, Inserting
<1>8. ASSUME NEW r \in Requests, SaveGroup(r)
      PROVE  Once'
  <2>1. /\ members' = members /\ crossed' = crossed /\ stage'[r] = "done"
        /\ \A s \in Requests \ {r} :
             stage'[s] = stage[s] /\ group'[s] = group[s] /\ adds'[s] = adds[s]
    BY <1>8 DEF SaveGroup, Ends, Goes, Typed, TypeOK
  <2>2. host[r] # Null
    BY <1>8, NullAssumption DEF SaveGroup, Typed, HandlerShape
  <2>3. \A m \in members : owner[m.group] # Null => owner'[m.group] # Null
    BY <1>8, <2>2 DEF SaveGroup, Typed, TypeOK, Membership
  <2> QED BY <2>1, <2>3, OnceKept DEF InsertsMissing, Inserting
<1> QED BY <1>1, <1>2, <1>3, <1>4, <1>5, <1>6, <1>7, <1>8 DEF Next

\* A user is a member of a group once, unless two handlers had both found no
\* membership before either inserted one.
THEOREM OneMembershipEach == Spec => []TwiceOnlyIfCrossed
<1>1. Once => TwiceOnlyIfCrossed
  BY DEF Once
<1> QED BY TypedInit, TypedStep, OwnedInit, OwnedStep, OnceInit, OnceStep, <1>1, PTL DEF Spec
=============================================================================
