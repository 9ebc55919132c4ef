------------------------------- MODULE Social -------------------------------
(***************************************************************************)
(* Friendships and group memberships.  A friendship is two rows, one per   *)
(* direction, written by separate statements; no handler but the one that  *)
(* adds a group member by link has a transaction, and none takes a lock.   *)
(*                                                                         *)
(* A request of Requests is used once, and names the rows it inserts.      *)
(***************************************************************************)
CONSTANTS
  Users,
  Requests,
  Null

ASSUME NullAssumption == Null \notin Users \cup Requests

VARIABLES
  row,      \* rows of friendship, by <<user, friend>>: a unique pair
  owner,    \* owners of the groups, by group id
  members,  \* rows of group_membership
  stage,    \* what a handler awaits
  pair,     \* <<user, friend>> of the handler, or <<host, new member>>
  copy,     \* the row it is going to save
  group,    \* the group it adds to
  adds,     \* the users it found not to be members
  host,     \* the owner of the group it is going to save
  \* history
  deleted,  \* pairs of whom a row was deleted
  halfway,  \* pairs of whom a handler threw between its two rows
  left,     \* <<group, user>>: memberships that were ended, or broke off
  crossed,  \* <<group, user>>: inserted while another handler was going to
  revived   \* groups that were inserted again after their removal

tables == <<row, owner, members>>
locals == <<pair, copy, group, adds, host>>
history == <<deleted, halfway, left, crossed, revived>>
vars == <<tables, stage, locals, history>>

-----------------------------------------------------------------------------
(***************************************************************************)
(* Rows                                                                    *)
(***************************************************************************)

Pairs == Users \X Users
Reverse(p) == <<p[2], p[1]>>
Two(p) == {p[1], p[2]}

FriendshipRow == [id : Requests, accepted : BOOLEAN]
NoRow == [id |-> Null, accepted |-> FALSE]

Membership == [by : Requests, group : Requests, user : Users]
IsMember(g, u) == \E m \in members : m.group = g /\ m.user = u

Init ==
  /\ row = [p \in Pairs |-> NoRow]
  /\ owner = [g \in Requests |-> Null]
  /\ members = {}
  /\ stage = [r \in Requests |-> "idle"]
  /\ pair = [r \in Requests |-> Null]
  /\ copy = [r \in Requests |-> NoRow]
  /\ group = [r \in Requests |-> Null]
  /\ adds = [r \in Requests |-> {}]
  /\ host = [r \in Requests |-> Null]
  /\ deleted = {}
  /\ halfway = {}
  /\ left = {}
  /\ crossed = {}
  /\ revived = {}

Goes(r, next) == stage' = [stage EXCEPT ![r] = next]

\* The handler is over, and its variables are gone.
Ends(r) ==
  /\ Goes(r, "done")
  /\ pair' = [pair EXCEPT ![r] = Null]
  /\ copy' = [copy EXCEPT ![r] = NoRow]
  /\ group' = [group EXCEPT ![r] = Null]
  /\ adds' = [adds EXCEPT ![r] = {}]
  /\ host' = [host EXCEPT ![r] = Null]

-----------------------------------------------------------------------------
(***************************************************************************)
(* Friendship requests                                                     *)
(***************************************************************************)

\* A second request is refused by the check or by the unique pair.
SendFriendRequest(r, u, v) ==
  /\ stage[r] = "idle"
  /\ u # v
  /\ row[<<u, v>>] = NoRow
  /\ row' = [row EXCEPT ![<<u, v>>] = [id |-> r, accepted |-> FALSE]]
  /\ Ends(r)
  /\ UNCHANGED <<owner, members, history>>

Accepted(friendship) == [friendship EXCEPT !.accepted = TRUE]

\* acceptRequest reads the request ...
AcceptRequest(r, p) ==
  /\ stage[r] = "idle"
  /\ row[p] # NoRow
  /\ ~row[p].accepted
  /\ pair' = [pair EXCEPT ![r] = p]
  /\ copy' = [copy EXCEPT ![r] = Accepted(row[p])]
  /\ Goes(r, "insertReverse")
  /\ UNCHANGED <<tables, group, adds, host, history>>

\* ... inserts the other direction, if there is no row of it, pending or not ...
InsertReverse(r) ==
  LET p == Reverse(pair[r])
  IN  /\ stage[r] = "insertReverse"
      /\ row[p] = NoRow
      /\ row' = [row EXCEPT ![p] = [id |-> r, accepted |-> TRUE]]
      /\ Goes(r, "acceptDirect")
      /\ UNCHANGED <<owner, members, locals, history>>

\* save() updates the row of that id; if it was deleted, it is inserted again,
\* unless the pair has another.
Saves(r, p) ==
  /\ row[p].id \in {copy[r].id, NoRow.id}
  /\ row' = [row EXCEPT ![p] = copy[r]]

\* ... and saves the request.
AcceptDirect(r) ==
  /\ stage[r] = "acceptDirect"
  /\ Saves(r, pair[r])
  /\ Ends(r)
  /\ UNCHANGED <<owner, members, history>>

\* deleteRequest, of a friend too: the row of one direction.
DeleteRequest(p) ==
  /\ row[p] # NoRow
  /\ row' = [row EXCEPT ![p] = NoRow]
  /\ deleted' = deleted \cup {Two(p)}
  /\ UNCHANGED <<owner, members, stage, locals, halfway, left, crossed, revived>>

-----------------------------------------------------------------------------
(***************************************************************************)
(* Friends by link                                                         *)
(***************************************************************************)

\* addFriendByLink, for two who have no row.  User.friends, which it writes
\* next, is read by nobody.
AddFriendByLink(r, u, v) ==
  /\ stage[r] = "idle"
  /\ row[<<u, v>>] = NoRow
  /\ row[<<v, u>>] = NoRow
  /\ pair' = [pair EXCEPT ![r] = <<u, v>>]
  /\ Goes(r, "findDirect")
  /\ UNCHANGED <<tables, copy, group, adds, host, history>>

\* What is saved after a direction is looked up: nothing, when it is accepted.
LinkedUnchecked(friendship, r) ==                \* mutant: no new row for null
  Accepted(friendship)
Linked(friendship, r) ==
  IF friendship = NoRow THEN [id |-> r, accepted |-> TRUE] ELSE Accepted(friendship)

FindDirect(r) ==
  LET friendship == row[pair[r]]
  IN  /\ stage[r] = "findDirect"
      /\ copy' = [copy EXCEPT ![r] = Linked(friendship, r)]
      /\ Goes(r, IF friendship.accepted THEN "findReverse" ELSE "saveDirect")
      /\ UNCHANGED <<tables, pair, group, adds, host, history>>

SaveDirect(r) ==
  /\ stage[r] = "saveDirect"
  /\ Saves(r, pair[r])
  /\ Goes(r, "findReverse")
  /\ UNCHANGED <<owner, members, locals, history>>

FindReverse(r) ==
  LET friendship == row[Reverse(pair[r])]
  IN  /\ stage[r] = "findReverse"
      /\ \/ /\ friendship.accepted
            /\ Ends(r)
         \/ /\ ~friendship.accepted
            /\ copy' = [copy EXCEPT ![r] = Linked(friendship, r)]
            /\ Goes(r, "saveReverse")
            /\ UNCHANGED <<pair, group, adds, host>>
      /\ UNCHANGED <<tables, history>>

SaveReverse(r) ==
  /\ stage[r] = "saveReverse"
  /\ Saves(r, Reverse(pair[r]))
  /\ Ends(r)
  /\ UNCHANGED <<owner, members, history>>

-----------------------------------------------------------------------------
(***************************************************************************)
(* Groups                                                                  *)
(***************************************************************************)

CreateGroup(r, u) ==
  /\ stage[r] = "idle"
  /\ owner' = [owner EXCEPT ![r] = u]
  /\ group' = [group EXCEPT ![r] = r]
  /\ adds' = [adds EXCEPT ![r] = {u}]
  /\ Goes(r, "addMembers")
  /\ UNCHANGED <<row, members, pair, copy, host, history>>

\* remove: the memberships go with the group.
RemoveGroup(g) ==
  /\ owner[g] # Null
  /\ owner' = [owner EXCEPT ![g] = Null]
  /\ members' = {m \in members : m.group # g}
  /\ UNCHANGED <<row, stage, locals, history>>

\* update reads the group with its owner ...
UpdateGroup(r, g) ==
  /\ stage[r] = "idle"
  /\ owner[g] # Null
  /\ group' = [group EXCEPT ![r] = g]
  /\ host' = [host EXCEPT ![r] = owner[g]]
  /\ Goes(r, "saveGroup")
  /\ UNCHANGED <<tables, pair, copy, adds, history>>

\* ... and saves it: a group that was removed is inserted again, with its owner
\* and without its members.
SaveGroup(r) ==
  /\ stage[r] = "saveGroup"
  /\ owner' = [owner EXCEPT ![group[r]] = host[r]]
  /\ revived' = IF owner[group[r]] = Null THEN revived \cup {group[r]} ELSE revived
  /\ Ends(r)
  /\ UNCHANGED <<row, members, deleted, halfway, left, crossed>>

Everybody(g, friends) == friends                 \* mutant: memberships not looked up
Missing(g, friends) == {u \in friends : ~IsMember(g, u)}

\* addFriendsToGroup looks for each friend's membership.  That they are friends
\* of the caller is looked up and not used.
AddFriendsToGroup(r, g, friends) ==
  /\ stage[r] = "idle"
  /\ owner[g] # Null
  /\ group' = [group EXCEPT ![r] = g]
  /\ adds' = [adds EXCEPT ![r] = Missing(g, friends)]
  /\ Goes(r, "addMembers")
  /\ UNCHANGED <<tables, pair, copy, host, history>>

NotSaved(r) == {}                                \* mutant: memberships not saved
Memberships(r) == {[by |-> r, group |-> group[r], user |-> u] : u \in adds[r]}

Inserting == {"addMembers", "join"}
Crossing(r) ==
  {<<group[r], u>> : u \in {v \in adds[r] :
     \E s \in Requests \ {r} : stage[s] \in Inserting /\ group[s] = group[r] /\ v \in adds[s]}}

\* The foreign key demands the group; nothing demands one row per user.
AddMembers(r) ==
  /\ stage[r] = "addMembers"
  /\ adds[r] # {} => owner[group[r]] # Null
  /\ members' = members \cup Memberships(r)
  /\ crossed' = crossed \cup Crossing(r)
  /\ Ends(r)
  /\ UNCHANGED <<row, owner, deleted, halfway, left, revived>>

\* addGroupMemberByLink, up to its writes.
AddGroupMemberByLink(r, g, u, v) ==
  /\ stage[r] = "idle"
  /\ u # v
  /\ owner[g] # Null
  /\ owner[g] = u \/ IsMember(g, u)
  /\ pair' = [pair EXCEPT ![r] = <<u, v>>]
  /\ group' = [group EXCEPT ![r] = g]
  /\ adds' = [adds EXCEPT ![r] = IF IsMember(g, v) THEN {} ELSE {v}]
  /\ Goes(r, "join")
  /\ UNCHANGED <<tables, copy, host, history>>

OneWay(r, p) ==                                  \* mutant: the host's direction only
  [row EXCEPT ![p] = Linked(@, r)]
BothWays(r, p) == [row EXCEPT ![p] = Linked(@, r), ![Reverse(p)] = Linked(@, r)]

\* The transaction's writes become visible at once.
CommitJoin(r) ==
  /\ stage[r] = "join"
  /\ adds[r] # {} => owner[group[r]] # Null
  /\ members' = members \cup Memberships(r)
  /\ crossed' = crossed \cup Crossing(r)
  /\ row' = BothWays(r, pair[r])
  /\ Ends(r)
  /\ UNCHANGED <<owner, deleted, halfway, left, revived>>

\* removeFriendFromGroup and leftFromGroup remove the row they find.
EndMembership(m) ==
  /\ members' = members \ {m}
  /\ left' = left \cup {<<m.group, m.user>>}
  /\ UNCHANGED <<row, owner, stage, locals, deleted, halfway, crossed, revived>>

\* A statement fails or is refused by a constraint, or the process dies: a
\* transaction is rolled back, other writes stay.
Throws(r) ==
  /\ stage[r] \notin {"idle", "done"}
  /\ halfway' = IF stage[r] \in {"acceptDirect", "findReverse", "saveReverse"}
                THEN halfway \cup {Two(pair[r])} ELSE halfway
  /\ left' = IF stage[r] = "addMembers"
             THEN left \cup {<<group[r], u>> : u \in adds[r]} ELSE left
  /\ Ends(r)
  /\ UNCHANGED <<tables, deleted, crossed, revived>>

Next ==
  \/ \E r \in Requests :
       \/ \E u, v \in Users : \/ SendFriendRequest(r, u, v)
                              \/ AddFriendByLink(r, u, v)
                              \/ \E g \in Requests : AddGroupMemberByLink(r, g, u, v)
       \/ \E p \in Pairs : AcceptRequest(r, p)
       \/ InsertReverse(r)
       \/ AcceptDirect(r)
       \/ FindDirect(r)
       \/ SaveDirect(r)
       \/ FindReverse(r)
       \/ SaveReverse(r)
       \/ \E u \in Users : CreateGroup(r, u)
       \/ \E g \in Requests, friends \in SUBSET Users : AddFriendsToGroup(r, g, friends)
       \/ AddMembers(r)
       \/ CommitJoin(r)
       \/ RemoveGroup(r)
       \/ \E g \in Requests : UpdateGroup(r, g)
       \/ SaveGroup(r)
       \/ Throws(r)
  \/ \E p \in Pairs : DeleteRequest(p)
  \/ \E m \in members : EndMembership(m)

Spec == Init /\ [][Next]_vars

-----------------------------------------------------------------------------
(***************************************************************************)
(* Properties                                                              *)
(***************************************************************************)

\* Every column and local variable keeps its type.
TypeOK ==
  /\ row \in [Pairs -> FriendshipRow \cup {NoRow}]
  /\ owner \in [Requests -> Users \cup {Null}]
  /\ members \subseteq Membership
  /\ stage \in [Requests -> {"idle", "insertReverse", "acceptDirect", "findDirect", "saveDirect",
                             "findReverse", "saveReverse", "addMembers", "join", "saveGroup", "done"}]
  /\ pair \in [Requests -> Pairs \cup {Null}]
  /\ copy \in [Requests -> FriendshipRow \cup {NoRow}]
  /\ group \in [Requests -> Requests \cup {Null}]
  /\ adds \in [Requests -> SUBSET Users]
  /\ host \in [Requests -> Users \cup {Null}]
  /\ deleted \subseteq SUBSET Users
  /\ halfway \subseteq SUBSET Users
  /\ left \subseteq Requests \X Users
  /\ crossed \subseteq Requests \X Users
  /\ revived \subseteq Requests

\* A handler between its two rows.
Completes(r, p) ==
  \/ stage[r] = "acceptDirect" /\ pair[r] = p
  \/ stage[r] \in {"findReverse", "saveReverse"} /\ pair[r] = Reverse(p)

\* Who has accepted friends is accepted by them: a friendship has one direction
\* only while a handler is about to write the other, or after one has failed to,
\* or after a row was deleted.  Links, requests and group links of the same two
\* people cross, each with rows it read earlier.
FriendshipIsMutual ==
  \A p \in Pairs :
    row[p].accepted /\ ~row[Reverse(p)].accepted =>
      \/ Two(p) \in deleted \cup halfway
      \/ \E r \in Requests : Completes(r, Reverse(p))

\* A group has its owner among its members, unless the owner was removed or left,
\* the group's creation is not over or broke off, or the group was removed and an
\* update that had read it before inserted it again.
OwnerIsMember ==
  \A g \in Requests :
    owner[g] # Null =>
      \/ IsMember(g, owner[g])
      \/ <<g, owner[g]>> \in left
      \/ stage[g] = "addMembers"
      \/ g \in revived

\* A user is a member of a group once, unless two handlers had both found no
\* membership before either inserted one.
TwiceOnlyIfCrossed ==
  \A m, n \in members :
    m.group = n.group /\ m.user = n.user => m = n \/ <<m.group, m.user>> \in crossed
=============================================================================
