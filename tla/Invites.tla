------------------------------ MODULE Invites ------------------------------
(***************************************************************************)
(* Invites: a member of a group creates one, as often as a rate limiter in *)
(* the memory of the process allows, and another user accepts it.  Between *)
(* two awaits members leave, and groups and users are removed.             *)
(*                                                                         *)
(* A request of Requests is used once; an invite is known by the request   *)
(* that created it.  No invite is ever used, so it has no column for that. *)
(***************************************************************************)
EXTENDS Integers, FiniteSets

CONSTANTS
  Users,
  Groups,
  Addresses,           \* of clients
  Requests,
  Null,
  MaxCreatesPerWindow,
  CreateWindow,        \* units of time
  Lifetime,            \* of an invite
  Horizon              \* the bound of time

ASSUME InviteAssumption ==
  /\ {MaxCreatesPerWindow, CreateWindow, Lifetime} \subseteq Nat \ {0}
  /\ Horizon \in Nat
  /\ Null \notin Users \cup Groups \cup Requests

Buckets == Addresses \X Users
Entry == [count : 1..MaxCreatesPerWindow, resetAt : Nat]
Form == [user : Users \cup {Null}, group : Groups \cup {Null}, owner : Users \cup {Null},
         invite : Requests \cup {Null}]
Invite == [user : Users, group : Groups \cup {Null}, expiresAt : Nat]
Attempt == [request : Requests, bucket : Buckets, time : Nat]

ASSUME NullAssumption == Null \notin Entry \cup Form \cup Invite

VARIABLES
  now,
  \* tables
  users,
  groups,
  owner,        \* of a group, Null when its user was removed
  members,      \* <<user, group>>
  invites,      \* request |-> Null, or what it has created
  \* the process
  store,        \* bucket |-> Null, or its window
  stage,        \* what a handler awaits
  form,         \* its variables
  \* history, since the process started
  passes,       \* creations the limiter let pass
  refusals,     \* and those it refused
  belonged      \* creators who were in their group at some time of the request

people == <<users, groups, owner, members>>
limiter == <<store, passes, refusals>>
vars == <<now, people, invites, limiter, stage, form, belonged>>

-----------------------------------------------------------------------------
Awaits == {"inviter", "group", "membership", "save", "accept"}
InFlight == {r \in Requests : stage[r] \in Awaits}

Belongs(u, g) == <<u, g>> \in members \/ owner[g] = u

Init ==
  /\ now = 0
  /\ users = Users
  /\ groups = Groups
  /\ owner \in [Groups -> Users \cup {Null}]
  /\ members \in SUBSET (Users \X Groups)
  /\ invites = [r \in Requests |-> Null]
  /\ store = [b \in Buckets |-> Null]
  /\ stage = [r \in Requests |-> "idle"]
  /\ form = [r \in Requests |-> Null]
  /\ passes = {}
  /\ refusals = {}
  /\ belonged = {}

Tick ==
  /\ now < Horizon
  /\ now' = now + 1
  /\ UNCHANGED <<people, invites, limiter, stage, form, belonged>>

Awaiting(r, next) ==
  /\ stage' = [stage EXCEPT ![r] = next]
  /\ UNCHANGED form

Replies(r) ==
  /\ stage' = [stage EXCEPT ![r] = "done"]
  /\ form' = [form EXCEPT ![r] = Null]

-----------------------------------------------------------------------------
(***************************************************************************)
(* The rate limiter                                                        *)
(***************************************************************************)

ElapsedLate(b) == store[b] = Null \/ store[b].resetAt < now     \* mutant: < for <=
Elapsed(b) == store[b] = Null \/ store[b].resetAt <= now
Overfull(b) ==                                                 \* mutant: > for >=
  ~Elapsed(b) /\ store[b].count > MaxCreatesPerWindow
Full(b) == ~Elapsed(b) /\ store[b].count >= MaxCreatesPerWindow

NotStored(b) == IF Elapsed(b) THEN [count |-> 1, resetAt |-> now + CreateWindow]
                              ELSE store[b]                    \* mutant: a copy counts
Counted(b) == IF Elapsed(b) THEN [count |-> 1, resetAt |-> now + CreateWindow]
                            ELSE [store[b] EXCEPT !.count = @ + 1]

Tried(r, b) == [request |-> r, bucket |-> b, time |-> now]

Create(r, address, u, g) ==
  LET b == <<address, u>> IN
  /\ stage[r] = "idle"
  /\ ~Full(b)
  /\ store' = [store EXCEPT ![b] = Counted(b)]
  /\ passes' = passes \cup {Tried(r, b)}
  /\ form' = [form EXCEPT ![r] = [user |-> u, group |-> g, owner |-> Null, invite |-> Null]]
  /\ stage' = [stage EXCEPT ![r] = "inviter"]
  /\ belonged' = IF g # Null /\ Belongs(u, g) THEN belonged \cup {r} ELSE belonged
  /\ UNCHANGED <<now, people, invites, refusals>>

RefuseCreate(r, address, u) ==
  LET b == <<address, u>> IN
  /\ stage[r] = "idle"
  /\ Full(b)
  /\ refusals' = refusals \cup {Tried(r, b)}
  /\ Replies(r)
  /\ UNCHANGED <<now, people, invites, store, passes, belonged>>

-----------------------------------------------------------------------------
(***************************************************************************)
(* create                                                                  *)
(***************************************************************************)

FindInviter(r) ==
  /\ stage[r] = "inviter"
  /\ IF form[r].user \notin users THEN Replies(r)
     ELSE Awaiting(r, IF form[r].group = Null THEN "save" ELSE "group")
  /\ UNCHANGED <<now, people, invites, limiter, belonged>>

FindGroup(r) ==
  /\ stage[r] = "group"
  /\ IF form[r].group \notin groups THEN Replies(r)
     ELSE /\ stage' = [stage EXCEPT ![r] = "membership"]
          /\ form' = [form EXCEPT ![r].owner = owner[form[r].group]]
  /\ UNCHANGED <<now, people, invites, limiter, belonged>>

Anyone(r) == TRUE                                \* mutant: no check
MayInvite(r) ==
  \/ <<form[r].user, form[r].group>> \in members
  \/ form[r].owner = form[r].user

FindMembership(r) ==
  /\ stage[r] = "membership"
  /\ IF MayInvite(r) THEN Awaiting(r, "save") ELSE Replies(r)
  /\ UNCHANGED <<now, people, invites, limiter, belonged>>

\* The foreign keys refuse what was removed meanwhile.
SaveInvite(r) ==
  /\ stage[r] = "save"
  /\ IF form[r].user \in users /\ form[r].group \in groups \cup {Null}
     THEN invites' = [invites EXCEPT ![r] = [user |-> form[r].user, group |-> form[r].group,
                                             expiresAt |-> now + Lifetime]]
     ELSE UNCHANGED invites
  /\ Replies(r)
  /\ UNCHANGED <<now, people, limiter, belonged>>

-----------------------------------------------------------------------------
(***************************************************************************)
(* accept: one transaction, which ends in an exception and changes nothing *)
(***************************************************************************)

Locked(i) == \E r \in Requests : stage[r] = "accept" /\ form[r].invite = i

\* The test of used is left out with the column.
Usable(i) == invites[i] # Null /\ invites[i].expiresAt > now

Accept(r, i, u) ==
  /\ stage[r] = "idle"
  /\ ~Locked(i)
  /\ IF Usable(i)
     THEN /\ stage' = [stage EXCEPT ![r] = "accept"]
          /\ form' = [form EXCEPT ![r] = [user |-> u, group |-> invites[i].group,
                                          owner |-> Null, invite |-> i]]
     ELSE Replies(r)
  /\ UNCHANGED <<now, people, invites, limiter, belonged>>

\* The body names any number, one that is nobody's (Null) included.  What find()
\* returns is an array, which is true when it is empty, too.
Conflict(r) ==
  /\ stage[r] = "accept"
  /\ form[r].user \in users
  /\ Replies(r)
  /\ UNCHANGED <<now, people, invites, limiter, belonged>>

UserNotFound(r) ==
  /\ stage[r] = "accept"
  /\ form[r].user \notin users
  /\ Replies(r)
  /\ UNCHANGED <<now, people, invites, limiter, belonged>>

-----------------------------------------------------------------------------
(***************************************************************************)
(* The others                                                              *)
(***************************************************************************)

Join(u, g) ==
  /\ u \in users /\ g \in groups
  /\ <<u, g>> \notin members
  /\ members' = members \cup {<<u, g>>}
  /\ belonged' = belonged \cup {r \in InFlight : form[r].user = u /\ form[r].group = g}
  /\ UNCHANGED <<now, users, groups, owner, invites, limiter, stage, form>>

Leave(u, g) ==
  /\ <<u, g>> \in members
  /\ members' = members \ {<<u, g>>}
  /\ UNCHANGED <<now, users, groups, owner, invites, limiter, stage, form, belonged>>

\* A deletion cascades, and waits for the locks of what it deletes.
Without(gone) ==
  /\ ~\E i \in gone : Locked(i)
  /\ invites' = [i \in Requests |-> IF i \in gone THEN Null ELSE invites[i]]

RemoveGroup(g) ==
  /\ g \in groups
  /\ groups' = groups \ {g}
  /\ members' = {m \in members : m[2] # g}
  /\ Without({i \in Requests : invites[i] # Null /\ invites[i].group = g})
  /\ UNCHANGED <<now, users, owner, limiter, stage, form, belonged>>

RemoveUser(u) ==
  /\ u \in users
  /\ users' = users \ {u}
  /\ owner' = [g \in Groups |-> IF owner[g] = u THEN Null ELSE owner[g]]
  /\ members' = {m \in members : m[1] # u}
  /\ Without({i \in Requests : invites[i] # Null /\ invites[i].user = u})
  /\ UNCHANGED <<now, groups, limiter, stage, form, belonged>>

\* The process starts again, with an empty limiter.
Restart ==
  /\ store' = [b \in Buckets |-> Null]
  /\ passes' = {}
  /\ refusals' = {}
  /\ stage' = [r \in Requests |-> IF r \in InFlight THEN "done" ELSE stage[r]]
  /\ form' = [r \in Requests |-> Null]
  /\ UNCHANGED <<now, people, invites, belonged>>

Next ==
  \/ \E r \in Requests :
       \/ \E address \in Addresses, u \in Users :
            \/ \E g \in Groups \cup {Null} : Create(r, address, u, g)
            \/ RefuseCreate(r, address, u)
       \/ FindInviter(r)
       \/ FindGroup(r)
       \/ FindMembership(r)
       \/ SaveInvite(r)
       \/ \E i \in Requests, u \in Users \cup {Null} : Accept(r, i, u)
       \/ Conflict(r)
       \/ UserNotFound(r)
  \/ \E u \in Users, g \in Groups : Join(u, g) \/ Leave(u, g)
  \/ \E g \in Groups : RemoveGroup(g)
  \/ \E u \in Users : RemoveUser(u)
  \/ Tick
  \/ Restart

Spec == Init /\ [][Next]_vars

-----------------------------------------------------------------------------
(***************************************************************************)
(* Properties                                                              *)
(***************************************************************************)

\* Rows, windows and variables keep their types: no count exceeds its maximum.
TypeOK ==
  /\ now \in 0..Horizon
  /\ users \subseteq Users
  /\ groups \subseteq Groups
  /\ owner \in [Groups -> Users \cup {Null}]
  /\ members \subseteq users \X groups
  /\ invites \in [Requests -> Invite \cup {Null}]
  /\ store \in [Buckets -> Entry \cup {Null}]
  /\ stage \in [Requests -> {"idle", "done"} \cup Awaits]
  /\ form \in [Requests -> Form \cup {Null}]
  /\ passes \subseteq Attempt
  /\ refusals \subseteq Attempt
  /\ belonged \subseteq Requests

\* Passes in the window that begins at a time.
PassesFrom(b, time) ==
  {p \in passes : p.bucket = b /\ p.time >= time /\ p.time < time + CreateWindow}

\* Windows do not slide: some span of a window's length may let nearly twice the
\* maximum pass, and none lets more pass.
NearlyTwiceAtMost ==
  \A b \in Buckets : \A p \in passes :
    Cardinality(PassesFrom(b, p.time)) < 2 * MaxCreatesPerWindow

\* The limiter refuses nobody who has not used up the maximum within the last
\* window, not even at the moment the window ends.
RefusesOnlyTheBusy ==
  \A f \in refusals :
    Cardinality(PassesFrom(f.bucket, f.time - CreateWindow + 1)) >= MaxCreatesPerWindow

\* The limiter implements FixedWindow, which forgets a window when it ends: that the
\* store keeps the entry, until the bucket is used again or for ever, lets nobody pass
\* or be refused, and an attempt at the moment of the end opens a new window.
BucketOf(attempt) == attempt.bucket

Limiter == INSTANCE FixedWindow WITH
  Clients <- Buckets,
  Attempts <- [request : Requests, bucket : Buckets, time : 0..Horizon],
  Client <- BucketOf,
  Max <- MaxCreatesPerWindow,
  Length <- CreateWindow,
  window <- [b \in Buckets |->
               IF Elapsed(b) THEN [used |-> 0, left |-> 0]
               ELSE [used |-> store[b].count, left |-> store[b].resetAt - now]]

LimiterForgets == Limiter!Spec

\* Who invites to a group was its owner or a member at some time of the request,
\* whoever left or was removed between its awaits.
InviterBelonged ==
  \A r \in Requests : invites[r] # Null /\ invites[r].group # Null => r \in belonged

\* 'User is already a member of the group' is said to members of the invite's
\* group only: an acceptance can come to another end.
ConflictIsMember ==
  [][\A r \in Requests :
       Conflict(r) /\ form[r].group # Null => <<form[r].user, form[r].group>> \in members]_vars
=============================================================================
