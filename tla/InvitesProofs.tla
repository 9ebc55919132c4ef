--------------------------- MODULE InvitesProofs ---------------------------
(***************************************************************************)
(* Theorems about Invites, for any users, groups, requests, length of a    *)
(* window and number of creations in it.                                   *)
(***************************************************************************)
EXTENDS Invites, FiniteSetTheorems, TLAPS

-----------------------------------------------------------------------------
(***************************************************************************)
(* Types                                                                   *)
(***************************************************************************)

Creating == {"inviter", "group", "membership", "save"}

\* What a handler holds at its stage.
HandlerShape ==
  \A r \in Requests :
    /\ stage[r] \in Awaits => form[r] \in Form
    /\ stage[r] \in Creating => form[r].user \in Users
    /\ stage[r] \in {"group", "membership"} => form[r].group \in Groups

Typed == TypeOK /\ HandlerShape

\* At first there are no handlers, and no rows but those of users and groups.
LEMMA TypedInit == Init => Typed
<1> SUFFICES ASSUME Init PROVE Typed
  OBVIOUS
<1>1. TypeOK
  BY InviteAssumption DEF Init, TypeOK
<1>2. HandlerShape
  BY DEF Init, HandlerShape, Awaits, Creating
<1> QED BY <1>1, <1>2 DEF Typed

\* A handler that replies leaves typed variables.
LEMMA RepliesTyped ==
  ASSUME Typed, NEW r \in Requests, Replies(r)
  PROVE  /\ stage' \in [Requests -> {"idle", "done"} \cup Awaits]
         /\ form' \in [Requests -> Form \cup {Null}]
         /\ HandlerShape'
         /\ stage'[r] = "done"
         /\ \A s \in Requests \ {r} : stage'[s] = stage[s] /\ form'[s] = form[s]
<1>1. /\ stage' \in [Requests -> {"idle", "done"} \cup Awaits]
      /\ form' \in [Requests -> Form \cup {Null}]
      /\ stage'[r] = "done"
      /\ \A s \in Requests \ {r} : stage'[s] = stage[s] /\ form'[s] = form[s]
  BY DEF Typed, TypeOK, Replies
<1>2. HandlerShape'
  BY <1>1 DEF Typed, HandlerShape, Awaits, Creating
<1> QED BY <1>1, <1>2

\* So does one that goes on.
LEMMA GoesOnTyped ==
  ASSUME Typed, NEW r \in Requests, NEW next \in Awaits, NEW mine \in Form,
         stage' = [stage EXCEPT ![r] = next], form' = [form EXCEPT ![r] = mine],
         next \in Creating => mine.user \in Users,
         next \in {"group", "membership"} => mine.group \in Groups
  PROVE  /\ stage' \in [Requests -> {"idle", "done"} \cup Awaits]
         /\ form' \in [Requests -> Form \cup {Null}]
         /\ HandlerShape'
         /\ stage'[r] = next /\ form'[r] = mine
         /\ \A s \in Requests \ {r} : stage'[s] = stage[s] /\ form'[s] = form[s]
<1>1. /\ stage' \in [Requests -> {"idle", "done"} \cup Awaits]
      /\ form' \in [Requests -> Form \cup {Null}]
      /\ stage'[r] = next /\ form'[r] = mine
      /\ \A s \in Requests \ {r} : stage'[s] = stage[s] /\ form'[s] = form[s]
  BY DEF Typed, TypeOK
<1>2. HandlerShape'
  BY <1>1 DEF Typed, HandlerShape
<1> QED BY <1>1, <1>2

\* The limiter's entry after an attempt it lets pass.
LEMMA CountedTyped ==
  ASSUME Typed, NEW b \in Buckets, ~Full(b)
  PROVE  Counted(b) \in Entry
<1>1. MaxCreatesPerWindow \in Nat \ {0} /\ CreateWindow \in Nat \ {0} /\ now \in Nat
  BY InviteAssumption DEF Typed, TypeOK
<1>2. CASE Elapsed(b)
  BY <1>1, <1>2 DEF Counted, Entry
<1>3. CASE ~Elapsed(b)
  <2>1. store[b] \in Entry
    BY <1>3 DEF Typed, TypeOK, Elapsed
  <2>2. store[b].count < MaxCreatesPerWindow
    BY <1>1, <1>3, <2>1 DEF Full, Entry
  <2> QED BY <1>1, <1>3, <2>1, <2>2 DEF Counted, Entry
<1> QED BY <1>2, <1>3

\* What create and accept do with handlers and forms, one step at a time.
LEMMA CreateTyped ==
  ASSUME Typed, NEW r \in Requests, NEW address \in Addresses, NEW u \in Users,
         NEW g \in Groups \cup {Null}, Create(r, address, u, g)
  PROVE  Typed'
<1> DEFINE b == <<address, u>>
           mine == [user |-> u, group |-> g, owner |-> Null, invite |-> Null]
<1>1. b \in Buckets /\ mine \in Form
  BY DEF Buckets, Form
<1>2. store' \in [Buckets -> Entry \cup {Null}]
  BY <1>1, CountedTyped DEF Create, Typed, TypeOK
<1>3. Tried(r, b) \in Attempt
  BY <1>1 DEF Tried, Attempt, Typed, TypeOK
<1>4. /\ stage' \in [Requests -> {"idle", "done"} \cup Awaits]
      /\ form' \in [Requests -> Form \cup {Null}]
      /\ HandlerShape'
  <2>1. "inviter" \in Awaits /\ "inviter" \notin {"group", "membership"} /\ mine.user \in Users
    BY DEF Awaits
  <2> QED BY <1>1, <2>1, GoesOnTyped DEF Create
<1>5. passes' \subseteq Attempt /\ belonged' \subseteq Requests
  BY <1>3 DEF Create, Typed, TypeOK
<1>6. UNCHANGED <<now, people, invites, refusals>>
  BY DEF Create
<1> QED BY <1>2, <1>4, <1>5, <1>6 DEF Typed, TypeOK, people

\* The lookups of create refuse, or go on with what they have read.
LEMMA FindTyped ==
  ASSUME Typed, NEW r \in Requests, FindInviter(r) \/ FindGroup(r) \/ FindMembership(r)
  PROVE  Typed'
<1>1. /\ form[r] \in Form /\ form[r].user \in Users
      /\ stage[r] \in {"group", "membership"} => form[r].group \in Groups
  BY DEF FindInviter, FindGroup, FindMembership, Typed, HandlerShape, Awaits, Creating
<1>2. /\ stage' \in [Requests -> {"idle", "done"} \cup Awaits]
      /\ form' \in [Requests -> Form \cup {Null}]
      /\ HandlerShape'
  <2>1. CASE Replies(r)
    BY <2>1, RepliesTyped
  <2>2. CASE FindInviter(r) /\ ~Replies(r)
    <3>1. PICK next \in {"save", "group"} : /\ stage' = [stage EXCEPT ![r] = next] /\ form' = form
                                            /\ next = "group" => form[r].group # Null
      BY <2>2 DEF FindInviter, Awaiting
    <3>2. form' = [form EXCEPT ![r] = form[r]]
      BY <3>1 DEF Typed, TypeOK
    <3>3. next \in Awaits /\ (next \in {"group", "membership"} => form[r].group \in Groups)
      BY <1>1, <3>1 DEF Awaits, Form
    <3> QED BY <1>1, <3>1, <3>2, <3>3, GoesOnTyped
  <2>3. CASE FindGroup(r) /\ ~Replies(r)
    <3> DEFINE mine == [form[r] EXCEPT !.owner = owner[form[r].group]]
    <3>1. stage' = [stage EXCEPT ![r] = "membership"] /\ form[r].group \in Groups
      BY <1>1, <2>3 DEF FindGroup
    <3>2. form' = [form EXCEPT ![r] = mine]
      BY <2>3 DEF FindGroup
    <3>3. owner[form[r].group] \in Users \cup {Null}
      BY <3>1 DEF Typed, TypeOK
    <3>4. mine \in Form /\ mine.user = form[r].user /\ mine.group = form[r].group
      BY <1>1, <3>3 DEF Form
    <3>5. "membership" \in Awaits
      BY DEF Awaits
    <3> HIDE DEF mine
    <3> QED BY <1>1, <3>1, <3>2, <3>4, <3>5, GoesOnTyped
  <2>4. CASE FindMembership(r) /\ ~Replies(r)
    <3>1. stage' = [stage EXCEPT ![r] = "save"] /\ form' = form
      BY <2>4 DEF FindMembership, Awaiting
    <3>2. form' = [form EXCEPT ![r] = form[r]] /\ "save" \in Awaits
      BY <3>1 DEF Typed, TypeOK, Awaits
    <3> QED BY <1>1, <3>1, <3>2, GoesOnTyped
  <2> QED BY <2>1, <2>2, <2>3, <2>4
<1>3. UNCHANGED <<now, people, invites, limiter, belonged>>
  BY DEF FindInviter, FindGroup, FindMembership
<1> QED BY <1>2, <1>3 DEF Typed, TypeOK, people, limiter

\* The insert makes an invite of what the handler holds.
LEMMA SaveTyped ==
  ASSUME Typed, NEW r \in Requests, SaveInvite(r)
  PROVE  Typed'
<1>1. form[r] \in Form /\ form[r].user \in Users
  BY DEF SaveInvite, Typed, HandlerShape, Awaits, Creating
<1>2. now \in Nat /\ Lifetime \in Nat
  BY InviteAssumption DEF Typed, TypeOK
<1>3. [user |-> form[r].user, group |-> form[r].group, expiresAt |-> now + Lifetime] \in Invite
  BY <1>1, <1>2 DEF Form, Invite
<1>4. invites' \in [Requests -> Invite \cup {Null}]
  BY <1>3 DEF SaveInvite, Typed, TypeOK
<1>5. Replies(r) /\ UNCHANGED <<now, people, limiter, belonged>>
  BY DEF SaveInvite
<1> QED BY <1>4, <1>5, RepliesTyped DEF Typed, TypeOK, people, limiter

\* accept holds the invite it has locked.
LEMMA AcceptTyped ==
  ASSUME Typed, NEW r \in Requests, NEW i \in Requests, NEW u \in Users \cup {Null}, Accept(r, i, u)
  PROVE  Typed'
<1> DEFINE mine == [user |-> u, group |-> invites[i].group, owner |-> Null, invite |-> i]
<1>1. UNCHANGED <<now, people, invites, limiter, belonged>>
  BY DEF Accept
<1>2. /\ stage' \in [Requests -> {"idle", "done"} \cup Awaits]
      /\ form' \in [Requests -> Form \cup {Null}]
      /\ HandlerShape'
  <2>1. CASE Usable(i)
    <3>1. invites[i] \in Invite
      BY <2>1 DEF Usable, Typed, TypeOK
    <3>2. mine \in Form
      BY <3>1 DEF Form, Invite
    <3>3. "accept" \in Awaits /\ "accept" \notin Creating /\ "accept" \notin {"group", "membership"}
      BY DEF Awaits, Creating
    <3>4. stage' = [stage EXCEPT ![r] = "accept"] /\ form' = [form EXCEPT ![r] = mine]
      BY <2>1 DEF Accept
    <3> HIDE DEF mine
    <3> QED BY <3>2, <3>3, <3>4, GoesOnTyped
  <2>2. CASE ~Usable(i)
    BY <2>2, RepliesTyped DEF Accept
  <2> QED BY <2>1, <2>2
<1> QED BY <1>1, <1>2 DEF Typed, TypeOK, people, limiter

\* Each step keeps the types.
LEMMA TypedStep == Typed /\ [Next]_vars => Typed'
<1> SUFFICES ASSUME Typed, [Next]_vars
             PROVE  Typed'
  OBVIOUS
<1>1. ASSUME NEW r \in Requests, NEW address \in Addresses, NEW u \in Users,
             RefuseCreate(r, address, u)
      PROVE  Typed'
  <2>1. Tried(r, <<address, u>>) \in Attempt
    BY DEF Tried, Attempt, Buckets, Typed, TypeOK
  <2>2. refusals' \subseteq Attempt /\ Replies(r)
    BY <1>1, <2>1 DEF RefuseCreate, Typed, TypeOK
  <2>3. UNCHANGED <<now, people, invites, store, passes, belonged>>
    BY <1>1 DEF RefuseCreate
  <2> QED BY <2>2, <2>3, RepliesTyped DEF Typed, TypeOK, people
<1>2. ASSUME NEW r \in Requests, Conflict(r) \/ UserNotFound(r)
      PROVE  Typed'
  <2>1. Replies(r) /\ UNCHANGED <<now, people, invites, limiter, belonged>>
    BY <1>2 DEF Conflict, UserNotFound
  <2> QED BY <2>1, RepliesTyped DEF Typed, TypeOK, people, limiter
<1>3. ASSUME NEW u \in Users, NEW g \in Groups, Join(u, g) \/ Leave(u, g)
      PROVE  Typed'
  <2>1. members' \subseteq users \X groups /\ belonged' \subseteq Requests
    BY <1>3 DEF Join, Leave, InFlight, Typed, TypeOK
  <2>2. UNCHANGED <<now, users, groups, owner, invites, limiter, stage, form>>
    BY <1>3 DEF Join, Leave
  <2> QED BY <2>1, <2>2 DEF Typed, TypeOK, HandlerShape, limiter
<1>4. ASSUME NEW g \in Groups, RemoveGroup(g)
      PROVE  Typed'
  <2>1. /\ groups' \subseteq Groups /\ members' \subseteq users \X groups'
        /\ invites' \in [Requests -> Invite \cup {Null}]
    BY <1>4 DEF RemoveGroup, Without, Typed, TypeOK
  <2>2. UNCHANGED <<now, users, owner, limiter, stage, form, belonged>>
    BY <1>4 DEF RemoveGroup
  <2> QED BY <2>1, <2>2 DEF Typed, TypeOK, HandlerShape, limiter
<1>5. ASSUME NEW u \in Users, RemoveUser(u)
      PROVE  Typed'
  <2>1. /\ users' \subseteq Users /\ members' \subseteq users' \X groups
        /\ owner' \in [Groups -> Users \cup {Null}]
        /\ invites' \in [Requests -> Invite \cup {Null}]
    BY <1>5 DEF RemoveUser, Without, Typed, TypeOK
  <2>2. UNCHANGED <<now, groups, limiter, stage, form, belonged>>
    BY <1>5 DEF RemoveUser
  <2> QED BY <2>1, <2>2 DEF Typed, TypeOK, HandlerShape, limiter
<1>6. CASE Tick
  <2>1. now' \in 0..Horizon
    BY <1>6, InviteAssumption DEF Tick, Typed, TypeOK
  <2> QED BY <1>6, <2>1 DEF Tick, Typed, TypeOK, HandlerShape, people, limiter
<1>7. CASE Restart
  <2>1. /\ stage' \in [Requests -> {"idle", "done"} \cup Awaits]
        /\ form' \in [Requests -> Form \cup {Null}]
        /\ store' \in [Buckets -> Entry \cup {Null}]
        /\ passes' \subseteq Attempt /\ refusals' \subseteq Attempt
    BY <1>7 DEF Restart, Typed, TypeOK
  <2>2. \A r \in Requests : stage'[r] \notin Awaits /\ stage'[r] \notin Creating
    BY <1>7 DEF Restart, InFlight, Awaits, Creating
  <2>3. HandlerShape'
    BY <2>2 DEF HandlerShape, Awaits, Creating
  <2>4. UNCHANGED <<now, people, invites, belonged>>
    BY <1>7 DEF Restart
  <2> QED BY <2>1, <2>3, <2>4 DEF Typed, TypeOK, people
<1>8. CASE UNCHANGED vars
  BY <1>8 DEF Typed, TypeOK, HandlerShape, vars, people, limiter
<1> QED
  BY <1>1, <1>2, <1>3, <1>4, <1>5, <1>6, <1>7, <1>8, CreateTyped, FindTyped, SaveTyped, AcceptTyped
     DEF Next

\* Rows, windows and variables keep their types: the limiter never counts beyond
\* its maximum.
THEOREM InvitesTyped == Spec => []TypeOK
<1>1. Typed => TypeOK
  BY DEF Typed
<1> QED BY TypedInit, TypedStep, <1>1, PTL DEF Spec

-----------------------------------------------------------------------------
(***************************************************************************)
(* Inviters                                                                *)
(***************************************************************************)

\* A creation whose user belongs to the group, belonged to it when it read the
\* owner, or is past the check.
Entitled(r) ==
  \/ Belongs(form[r].user, form[r].group)
  \/ stage[r] = "membership" /\ form[r].owner = form[r].user
  \/ stage[r] = "save"

\* All of these are recorded.
Recorded ==
  \A r \in Requests :
    stage[r] \in Creating /\ form[r].group # Null /\ Entitled(r) => r \in belonged

\* At first there are no creations and no invites.
LEMMA RecordedInit == Init => Recorded /\ InviterBelonged
BY DEF Init, Recorded, InviterBelonged, Creating

\* Only a handler that goes on, and only who joins a group, can add to what is to
\* be recorded.
LEMMA RecordedKept ==
  ASSUME Typed, Recorded, belonged \subseteq belonged',
         \A r \in Requests : stage'[r] \in Creating =>
           stage'[r] = stage[r] /\ form'[r] = form[r],
         \A r \in Requests : stage'[r] \in Creating /\ form'[r].group # Null
             /\ Belongs(form[r].user, form[r].group)' =>
           Belongs(form[r].user, form[r].group) \/ r \in belonged'
  PROVE  Recorded'
<1> SUFFICES ASSUME NEW r \in Requests, stage'[r] \in Creating, form'[r].group # Null, Entitled(r)'
             PROVE  r \in belonged'
  BY DEF Recorded
<1>1. stage'[r] = stage[r] /\ form'[r] = form[r] /\ stage[r] \in Creating /\ form[r].group # Null
  OBVIOUS
<1>2. CASE Belongs(form[r].user, form[r].group)'
  BY <1>1, <1>2 DEF Recorded, Entitled
<1>3. CASE ~Belongs(form[r].user, form[r].group)'
  <2>1. Entitled(r)
    BY <1>1, <1>3 DEF Entitled, Belongs
  <2> QED BY <1>1, <2>1 DEF Recorded
<1> QED BY <1>2, <1>3

\* Each step keeps the record complete, and invites to those recorded.
LEMMA RecordedStep == Typed /\ Recorded /\ InviterBelonged /\ [Next]_vars => Recorded' /\ InviterBelonged'
<1> SUFFICES ASSUME Typed, Recorded, InviterBelonged, [Next]_vars
             PROVE  Recorded' /\ InviterBelonged'
  OBVIOUS
<1>1. ASSUME NEW r \in Requests, NEW address \in Addresses, NEW u \in Users,
             NEW g \in Groups \cup {Null}, Create(r, address, u, g)
      PROVE  Recorded' /\ InviterBelonged'
  <2>1. /\ stage'[r] = "inviter" /\ form'[r].user = u /\ form'[r].group = g
        /\ \A s \in Requests \ {r} : stage'[s] = stage[s] /\ form'[s] = form[s]
        /\ UNCHANGED <<people, invites>>
        /\ belonged \subseteq belonged' /\ (g # Null /\ Belongs(u, g) => r \in belonged')
    BY <1>1 DEF Create, Typed, TypeOK
  <2>2. ASSUME NEW s \in Requests, stage'[s] \in Creating, form'[s].group # Null, Entitled(s)'
        PROVE  s \in belonged'
    BY <2>1, <2>2 DEF Recorded, Entitled, Belongs, people
  <2> QED BY <2>1, <2>2 DEF Recorded, InviterBelonged
<1>2. ASSUME NEW r \in Requests, FindInviter(r)
      PROVE  Recorded' /\ InviterBelonged'
  <2>1. /\ stage[r] = "inviter" /\ UNCHANGED <<people, invites, belonged>>
        /\ \A s \in Requests \ {r} : stage'[s] = stage[s] /\ form'[s] = form[s]
        /\ \/ stage'[r] = "done"
           \/ form' = form /\ stage'[r] = IF form[r].group = Null THEN "save" ELSE "group"
    BY <1>2 DEF FindInviter, Awaiting, Replies, Typed, TypeOK
  <2>2. ASSUME NEW s \in Requests, stage'[s] \in Creating, form'[s].group # Null, Entitled(s)'
        PROVE  s \in belonged'
    BY <2>1, <2>2 DEF Recorded, Entitled, Belongs, people, Creating
  <2> QED BY <2>1, <2>2 DEF Recorded, InviterBelonged
<1>3. ASSUME NEW r \in Requests, FindGroup(r)
      PROVE  Recorded' /\ InviterBelonged'
  <2>1. /\ stage[r] = "group" /\ UNCHANGED <<people, invites, belonged>>
        /\ \A s \in Requests \ {r} : stage'[s] = stage[s] /\ form'[s] = form[s]
        /\ \/ stage'[r] = "done"
           \/ /\ stage'[r] = "membership"
              /\ form'[r] = [form[r] EXCEPT !.owner = owner[form[r].group]]
    BY <1>3 DEF FindGroup, Replies, Typed, TypeOK
  <2>2. form[r] \in Form
    BY <2>1 DEF Typed, HandlerShape, Awaits
  <2>3. stage'[r] # "done" => /\ form'[r].user = form[r].user /\ form'[r].group = form[r].group
                              /\ form'[r].owner = owner[form[r].group]
    BY <2>1, <2>2 DEF Form
  <2>4. ASSUME NEW s \in Requests, stage'[s] \in Creating, form'[s].group # Null, Entitled(s)'
        PROVE  s \in belonged'
    BY <2>1, <2>3, <2>4 DEF Recorded, Entitled, Belongs, people, Creating
  <2> QED BY <2>1, <2>4 DEF Recorded, InviterBelonged
<1>4. ASSUME NEW r \in Requests, FindMembership(r)
      PROVE  Recorded' /\ InviterBelonged'
  <2>1. /\ stage[r] = "membership" /\ UNCHANGED <<people, invites, belonged>>
        /\ \A s \in Requests \ {r} : stage'[s] = stage[s] /\ form'[s] = form[s]
        /\ stage'[r] = "done" \/ (MayInvite(r) /\ form' = form)
    BY <1>4 DEF FindMembership, Awaiting, Replies, Typed, TypeOK
  <2>2. MayInvite(r) => Entitled(r)
    BY <2>1 DEF MayInvite, Entitled, Belongs
  <2>3. ASSUME NEW s \in Requests, stage'[s] \in Creating, form'[s].group # Null, Entitled(s)'
        PROVE  s \in belonged'
    BY <2>1, <2>2, <2>3 DEF Recorded, Entitled, Belongs, people, Creating
  <2> QED BY <2>1, <2>3 DEF Recorded, InviterBelonged
<1>5. ASSUME NEW r \in Requests, SaveInvite(r)
      PROVE  Recorded' /\ InviterBelonged'
  <2>1. /\ stage[r] = "save" /\ UNCHANGED <<people, belonged>> /\ Replies(r)
        /\ \A s \in Requests \ {r} : invites'[s] = invites[s]
        /\ invites'[r] = invites[r] \/ invites'[r].group = form[r].group
    BY <1>5 DEF SaveInvite, Typed, TypeOK
  <2>2. Recorded'
    <3>1. \A s \in Requests : stage'[s] \in Creating => stage'[s] = stage[s] /\ form'[s] = form[s]
      BY <2>1, RepliesTyped DEF Creating
    <3> QED BY <2>1, <3>1, RecordedKept DEF Belongs, people
  <2>3. form[r].group # Null => r \in belonged
    BY <2>1 DEF Recorded, Entitled, Creating
  <2>4. ASSUME NEW s \in Requests, invites'[s] # Null, invites'[s].group # Null
        PROVE  s \in belonged'
    <3>1. CASE s # r
      BY <2>1, <2>4, <3>1 DEF InviterBelonged
    <3>2. CASE s = r
      BY <2>1, <2>3, <2>4, <3>2 DEF InviterBelonged
    <3> QED BY <3>1, <3>2
  <2> QED BY <2>2, <2>4 DEF InviterBelonged
<1>6. ASSUME NEW r \in Requests,
             \/ \E i \in Requests, u \in Users \cup {Null} : Accept(r, i, u)
             \/ \E address \in Addresses, u \in Users : RefuseCreate(r, address, u)
             \/ Conflict(r) \/ UserNotFound(r)
      PROVE  Recorded' /\ InviterBelonged'
  <2>1. /\ UNCHANGED <<people, invites, belonged>>
        /\ \A s \in Requests \ {r} : stage'[s] = stage[s] /\ form'[s] = form[s]
        /\ stage'[r] \in {"accept", "done"}
    BY <1>6 DEF Accept, RefuseCreate, Conflict, UserNotFound, Replies, Typed, TypeOK
  <2>2. Recorded'
    <3>1. \A s \in Requests : stage'[s] \in Creating => stage'[s] = stage[s] /\ form'[s] = form[s]
      BY <2>1 DEF Creating
    <3> QED BY <2>1, <3>1, RecordedKept DEF Belongs, people
  <2> QED BY <2>1, <2>2 DEF InviterBelonged
<1>7. ASSUME NEW u \in Users, NEW g \in Groups, Join(u, g)
      PROVE  Recorded' /\ InviterBelonged'
  <2>1. /\ UNCHANGED <<owner, invites, stage, form>> /\ members' = members \cup {<<u, g>>}
        /\ belonged \subseteq belonged'
        /\ \A r \in Requests : stage[r] \in Creating /\ form[r].user = u /\ form[r].group = g
                                => r \in belonged'
    BY <1>7 DEF Join, InFlight, Creating, Awaits
  <2>2. Recorded'
    BY <2>1, RecordedKept DEF Belongs
  <2> QED BY <2>1, <2>2 DEF InviterBelonged
<1>8. CASE \/ \E u \in Users, g \in Groups : Leave(u, g)
           \/ \E g \in Groups : RemoveGroup(g)
           \/ \E u \in Users : RemoveUser(u)
           \/ Tick
           \/ UNCHANGED vars
  <2>1. /\ UNCHANGED <<stage, form, belonged>> /\ members' \subseteq members
        /\ \A g \in Groups : owner'[g] \in {owner[g], Null}
        /\ \A r \in Requests : invites'[r] \in {invites[r], Null}
    BY <1>8 DEF Leave, RemoveGroup, RemoveUser, Without, Tick, vars, people, Typed, TypeOK
  <2>2. \A r \in Requests : stage[r] \in Creating /\ form[r].group # Null =>
                              form[r].user \in Users /\ form[r].group \in Groups
    BY DEF Typed, HandlerShape, Creating, Awaits, Form
  <2>3. Null \notin Users
    BY InviteAssumption
  <2>4. Recorded'
    BY <2>1, <2>2, <2>3, RecordedKept DEF Belongs
  <2> QED BY <2>1, <2>4 DEF InviterBelonged
<1>9. CASE Restart
  <2>1. \A r \in Requests : stage'[r] \notin Creating
    BY <1>9 DEF Restart, InFlight, Awaits, Creating, Typed, TypeOK
  <2>2. UNCHANGED <<invites, belonged>>
    BY <1>9 DEF Restart
  <2> QED BY <2>1, <2>2 DEF Recorded, InviterBelonged
<1> QED
  BY <1>1, <1>2, <1>3, <1>4, <1>5, <1>6, <1>7, <1>8, <1>9 DEF Next

\* Whoever leaves and whatever is removed while a creation waits: who invites to a
\* group belonged to it at some time of the request.
THEOREM InvitersBelonged == Spec => []InviterBelonged
BY TypedInit, TypedStep, RecordedInit, RecordedStep, PTL DEF Spec

-----------------------------------------------------------------------------
(***************************************************************************)
(* The limiter                                                             *)
(***************************************************************************)

\* What a bucket has let pass in a span of time, and since a time.
Between(ps, b, from, to) == {p \in ps : p.bucket = b /\ p.time >= from /\ p.time < to}
Since(ps, b, from) == {p \in ps : p.bucket = b /\ p.time >= from}

Log(ps, n) == ps \subseteq Attempt /\ IsFiniteSet(ps) /\ \A p \in ps : p.time <= n

Opened(e) == e.resetAt - CreateWindow

\* How the entry e of a bucket relates to what has passed: a window opens with an
\* attempt, counts the attempts since, and less than the maximum of them came in
\* a window's length before it.
Window(ps, b, e, n) ==
  /\ e = Null => \A p \in ps : p.bucket # b
  /\ e # Null =>
       /\ Opened(e) <= n
       /\ \E p \in ps : p.bucket = b /\ p.time = Opened(e)
       /\ \A p \in ps : p.bucket = b => p.time < e.resetAt
       /\ Cardinality(Since(ps, b, Opened(e))) = e.count
       /\ \A from \in Int : from > Opened(e) - CreateWindow =>
            Cardinality(Between(ps, b, from, Opened(e))) < MaxCreatesPerWindow

\* Both constants of the limiter are positive.
LEMMA Sizes == MaxCreatesPerWindow \in Nat \ {0} /\ CreateWindow \in Nat \ {0}
BY InviteAssumption

\* A window and what comes before it fit into a span that ends now.
LEMMA SpanOfWindow ==
  ASSUME NEW ps, NEW n \in Nat, NEW b, NEW e \in Entry \cup {Null},
         Log(ps, n), Window(ps, b, e, n), NEW from \in Int, from > n - CreateWindow
  PROVE  Cardinality(Between(ps, b, from, from + CreateWindow)) < 2 * MaxCreatesPerWindow
<1> DEFINE span == Between(ps, b, from, from + CreateWindow)
<1>1. CASE e = Null
  <2>1. span = {}
    BY <1>1 DEF Window, Between
  <2>2. Cardinality(span) = 0
    BY <2>1, FS_EmptySet
  <2>3. 0 < 2 * MaxCreatesPerWindow
    BY Sizes
  <2> QED BY <2>2, <2>3
<1>2. CASE e # Null
  <2> DEFINE before == Between(ps, b, from, Opened(e))
             since == Since(ps, b, Opened(e))
  <2>1. e \in Entry /\ e.count \in 1..MaxCreatesPerWindow /\ Opened(e) \in Int
    BY <1>2, Sizes DEF Entry, Opened
  <2>2. IsFiniteSet(before) /\ IsFiniteSet(since)
    <3>1. IsFiniteSet(ps) /\ before \subseteq ps /\ since \subseteq ps
      BY DEF Log, Between, Since
    <3> QED BY <3>1, FS_Subset
  <2>3. span \subseteq before \cup since
    <3>1. \A p \in ps : p.time \in Nat
      BY DEF Log, Attempt
    <3> QED BY <2>1, <3>1 DEF Between, Since
  <2>4. Cardinality(before) < MaxCreatesPerWindow
    <3>1. from > Opened(e) - CreateWindow
      BY <1>2, <2>1, Sizes DEF Window
    <3> QED BY <1>2, <3>1 DEF Window
  <2>5. Cardinality(since) <= MaxCreatesPerWindow
    BY <1>2, <2>1, Sizes DEF Window
  <2> HIDE DEF before, since, span
  <2>6. /\ Cardinality(before) \in Nat /\ Cardinality(since) \in Nat
        /\ Cardinality(before \cap since) \in Nat
    <3>1. IsFiniteSet(before \cap since)
      BY <2>2, FS_Subset
    <3> QED BY <2>2, <3>1, FS_CardinalityType
  <2>7. /\ IsFiniteSet(before \cup since)
        /\ Cardinality(before \cup since) <= Cardinality(before) + Cardinality(since)
    <3>1. /\ IsFiniteSet(before \cup since)
          /\ Cardinality(before \cup since)
               = Cardinality(before) + Cardinality(since) - Cardinality(before \cap since)
      BY <2>2, FS_Union
    <3> QED BY <2>6, <3>1
  <2>8. IsFiniteSet(span) /\ Cardinality(span) <= Cardinality(before \cup since)
    BY <2>3, <2>7, FS_Subset
  <2>9. Cardinality(span) \in Nat /\ Cardinality(before \cup since) \in Nat
    BY <2>7, <2>8, FS_CardinalityType
  <2>10. Cardinality(span) < 2 * MaxCreatesPerWindow
    BY <2>4, <2>5, <2>6, <2>7, <2>8, <2>9, Sizes
  <2> QED BY <2>10 DEF span
<1> QED BY <1>1, <1>2

\* An attempt opens a window when the last one is over.
LEMMA NextWindow ==
  ASSUME NEW ps, NEW n \in Nat, NEW b, NEW e \in Entry \cup {Null},
         Log(ps, n), Window(ps, b, e, n), e = Null \/ e.resetAt <= n,
         NEW new \in Attempt, new.bucket = b, new.time = n
  PROVE  Window(ps \cup {new}, b, [count |-> 1, resetAt |-> n + CreateWindow], n)
<1> DEFINE next == [count |-> 1, resetAt |-> n + CreateWindow]
<1>1. Opened(next) = n /\ next.resetAt > n /\ next.count = 1 /\ next \in Entry
  BY Sizes DEF Opened, Entry
<1>2. \A p \in ps : p.time \in Nat /\ (p.bucket = b => p.time < n)
  BY DEF Window, Log, Attempt, Entry
<1>3. Since(ps \cup {new}, b, n) = {new}
  BY <1>2 DEF Since
<1>4. ASSUME NEW from \in Int, from > n - CreateWindow
      PROVE  Cardinality(Between(ps \cup {new}, b, from, n)) < MaxCreatesPerWindow
  <2> DEFINE before == Between(ps, b, from, n)
  <2>1. Between(ps \cup {new}, b, from, n) = before
    BY DEF Between
  <2>2. CASE e = Null
    <3>1. before = {}
      BY <2>2 DEF Window, Between
    <3> QED BY <2>1, <3>1, FS_EmptySet, Sizes
  <2>3. CASE e # Null
    <3> DEFINE since == Since(ps, b, Opened(e))
    <3>1. /\ e \in Entry /\ e.count \in 1..MaxCreatesPerWindow /\ e.resetAt \in Nat
          /\ Opened(e) \in Int /\ from > Opened(e)
      BY <1>4, <2>3, Sizes DEF Entry, Opened
    <3>2. PICK first \in since : first.time = Opened(e)
      BY <2>3, <3>1 DEF Window, Since
    <3>3. before \subseteq since \ {first}
      BY <1>2, <3>1, <3>2 DEF Between, Since
    <3>4. IsFiniteSet(since)
      <4>1. IsFiniteSet(ps) /\ since \subseteq ps
        BY DEF Log, Since
      <4> QED BY <4>1, FS_Subset
    <3>5. Cardinality(since) = e.count
      BY <2>3 DEF Window
    <3> HIDE DEF before, since
    <3>6. IsFiniteSet(since \ {first}) /\ Cardinality(since \ {first}) = e.count - 1
      BY <3>2, <3>4, <3>5, FS_RemoveElement
    <3>7. IsFiniteSet(before) /\ Cardinality(before) <= e.count - 1
      BY <3>3, <3>6, FS_Subset
    <3>8. Cardinality(before) \in Nat
      BY <3>7, FS_CardinalityType
    <3> QED BY <2>1, <3>1, <3>7, <3>8, Sizes
  <2> QED BY <2>2, <2>3
<1>5. Cardinality({new}) = 1
  BY FS_Singleton
<1>6. next # Null
  BY <1>1, NullAssumption
<1>7. /\ \E p \in ps \cup {new} : p.bucket = b /\ p.time = n
      /\ \A p \in ps \cup {new} : p.bucket = b => p.time < next.resetAt
  BY <1>1, <1>2, Sizes
<1> HIDE DEF next
<1>8. Window(ps \cup {new}, b, next, n)
  <2>1. Opened(next) <= n /\ Cardinality(Since(ps \cup {new}, b, Opened(next))) = next.count
    BY <1>1, <1>3, <1>5
  <2>2. \A from \in Int : from > Opened(next) - CreateWindow =>
          Cardinality(Between(ps \cup {new}, b, from, Opened(next))) < MaxCreatesPerWindow
    BY <1>1, <1>4
  <2> QED BY <1>1, <1>6, <1>7, <2>1, <2>2 DEF Window
<1> QED BY <1>8 DEF next

\* Otherwise it is counted in the one that is open.
LEMMA SameWindow ==
  ASSUME NEW ps, NEW n \in Nat, NEW b, NEW e \in Entry, e # Null,
         Log(ps, n), Window(ps, b, e, n), e.resetAt > n, e.count < MaxCreatesPerWindow,
         NEW new \in Attempt, new.bucket = b, new.time = n, new \notin ps
  PROVE  Window(ps \cup {new}, b, [e EXCEPT !.count = @ + 1], n)
<1> DEFINE next == [e EXCEPT !.count = @ + 1]
           since == Since(ps, b, Opened(e))
<1>1. /\ next \in Entry /\ next.resetAt = e.resetAt /\ next.count = e.count + 1
      /\ Opened(next) = Opened(e) /\ Opened(e) \in Int /\ Opened(e) <= n
  BY Sizes DEF Entry, Opened, Window
<1>2. Since(ps \cup {new}, b, Opened(e)) = since \cup {new} /\ new \notin since
  BY <1>1 DEF Since
<1>3. IsFiniteSet(since)
  <2>1. IsFiniteSet(ps) /\ since \subseteq ps
    BY DEF Log, Since
  <2> QED BY <2>1, FS_Subset
<1>4. Cardinality(since) = e.count
  BY DEF Window
<1>5. Cardinality(since \cup {new}) = e.count + 1
  <2> HIDE DEF since
  <2> QED BY <1>2, <1>3, <1>4, FS_AddElement
<1>6. ASSUME NEW from \in Int, from > Opened(e) - CreateWindow
      PROVE  Cardinality(Between(ps \cup {new}, b, from, Opened(e))) < MaxCreatesPerWindow
  <2>1. Between(ps \cup {new}, b, from, Opened(e)) = Between(ps, b, from, Opened(e))
    BY <1>1 DEF Between
  <2> QED BY <1>6, <2>1 DEF Window
<1>7. /\ \E p \in ps \cup {new} : p.bucket = b /\ p.time = Opened(e)
      /\ \A p \in ps \cup {new} : p.bucket = b => p.time < e.resetAt
  BY DEF Window
<1>8. next # Null
  BY <1>1, NullAssumption
<1> HIDE DEF next, since
<1>9. Window(ps \cup {new}, b, next, n)
  BY <1>1, <1>2, <1>5, <1>6, <1>7, <1>8 DEF Window
<1> QED BY <1>9 DEF next

\* It is nothing to the other buckets.
LEMMA OtherWindow ==
  ASSUME NEW ps, NEW n, NEW b, NEW e, Window(ps, b, e, n), NEW new, new.bucket # b
  PROVE  Window(ps \cup {new}, b, e, n)
<1>1. \A from, to : Between(ps \cup {new}, b, from, to) = Between(ps, b, from, to)
  BY DEF Between
<1>2. \A from : Since(ps \cup {new}, b, from) = Since(ps, b, from)
  BY DEF Since
<1> QED BY <1>1, <1>2 DEF Window

\* Time alone changes nothing in a window.
LEMMA LaterWindow ==
  ASSUME NEW ps, NEW n \in Nat, NEW b, NEW e \in Entry \cup {Null}, Window(ps, b, e, n)
  PROVE  Window(ps, b, e, n + 1)
<1>1. e # Null => Opened(e) \in Int
  BY Sizes DEF Entry, Opened
<1> QED BY <1>1 DEF Window

\* The limiter's table agrees with what has passed, at every time.
Windows == \A b \in Buckets : Window(passes, b, store[b], now)

Spans ==
  \A b \in Buckets, from \in Int :
    Cardinality(Between(passes, b, from, from + CreateWindow)) < 2 * MaxCreatesPerWindow

Logged == Log(passes, now) /\ \A p \in passes : stage[p.request] # "idle"

Limited == Logged /\ Windows /\ Spans /\ RefusesOnlyTheBusy

\* With nothing passed, nothing is counted.
LEMMA LimitedEmpty ==
  ASSUME passes = {}, refusals = {}, store = [b \in Buckets |-> Null]
  PROVE  Limited
<1>1. Logged
  BY FS_EmptySet DEF Logged, Log
<1>2. Windows
  BY DEF Windows, Window
<1>3. Spans
  <2>1. \A b, from, to : Between(passes, b, from, to) = {}
    BY DEF Between
  <2>2. Cardinality({}) = 0 /\ 0 < 2 * MaxCreatesPerWindow
    BY FS_EmptySet, Sizes
  <2> QED BY <2>1, <2>2 DEF Spans
<1>4. RefusesOnlyTheBusy
  BY DEF RefusesOnlyTheBusy
<1> QED BY <1>1, <1>2, <1>3, <1>4 DEF Limited

\* The process starts like that.
LEMMA LimitedInit == Init => Limited
BY LimitedEmpty DEF Init

\* What passes later makes nobody less busy.
LEMMA BusyStaysBusy ==
  ASSUME Logged', passes \subseteq passes', refusals' = refusals, RefusesOnlyTheBusy
  PROVE  RefusesOnlyTheBusy'
<1> SUFFICES ASSUME NEW f \in refusals
             PROVE  Cardinality(PassesFrom(f.bucket, f.time - CreateWindow + 1))' >= MaxCreatesPerWindow
  BY DEF RefusesOnlyTheBusy
<1> DEFINE old == PassesFrom(f.bucket, f.time - CreateWindow + 1)
<1>1. old \subseteq old' /\ old' \subseteq passes' /\ IsFiniteSet(passes')
  BY DEF PassesFrom, Logged, Log
<1>2. Cardinality(old) >= MaxCreatesPerWindow
  BY DEF RefusesOnlyTheBusy
<1> HIDE DEF old
<1>3. IsFiniteSet(old') /\ IsFiniteSet(old) /\ Cardinality(old) <= Cardinality(old')
  <2>1. IsFiniteSet(old')
    BY <1>1, FS_Subset
  <2> QED BY <1>1, <2>1, FS_Subset
<1>4. Cardinality(old') \in Nat /\ Cardinality(old) \in Nat
  BY <1>3, FS_CardinalityType
<1>5. Cardinality(old') >= MaxCreatesPerWindow
  BY <1>2, <1>3, <1>4, Sizes
<1> QED BY <1>5 DEF old

\* What the limiter does with an attempt it lets pass.
LEMMA LimitedCreate ==
  ASSUME Typed, Limited, NEW r \in Requests, NEW address \in Addresses, NEW u \in Users,
         NEW g \in Groups \cup {Null}, Create(r, address, u, g)
  PROVE  Limited'
<1> DEFINE c == <<address, u>>
           new == Tried(r, c)
<1>1. /\ c \in Buckets /\ new \in Attempt
      /\ new.request = r /\ new.bucket = c /\ new.time = now
  BY DEF Buckets, Tried, Attempt, Typed, TypeOK
<1>2. /\ passes' = passes \cup {new} /\ new \notin passes
      /\ now' = now /\ now \in Nat /\ refusals' = refusals
      /\ store'[c] = Counted(c) /\ \A b \in Buckets \ {c} : store'[b] = store[b]
  BY <1>1 DEF Create, Limited, Logged, Typed, TypeOK
<1>3. /\ \A b \in Buckets : store[b] \in Entry \cup {Null} /\ Window(passes, b, store[b], now)
      /\ Log(passes, now)
  BY DEF Limited, Logged, Windows, Typed, TypeOK
<1> HIDE DEF new
<1>4. Logged'
  <2>1. IsFiniteSet(passes')
    BY <1>2, <1>3, FS_AddElement DEF Log
  <2>2. \A p \in passes' : p.time <= now /\ p \in Attempt
    BY <1>1, <1>2, <1>3 DEF Log
  <2>3. \A p \in passes' : stage'[p.request] # "idle"
    <3>1. stage' = [stage EXCEPT ![r] = "inviter"]
      BY DEF Create
    <3>2. \A s \in Requests : stage[s] # "idle" => stage'[s] # "idle"
      BY <3>1 DEF Typed, TypeOK
    <3>3. stage'[r] # "idle"
      BY <3>1 DEF Typed, TypeOK
    <3>4. \A p \in passes : p.request \in Requests /\ stage[p.request] # "idle"
      BY DEF Limited, Logged, Log, Attempt
    <3> QED BY <1>1, <1>2, <3>2, <3>3, <3>4
  <2> QED BY <1>2, <2>1, <2>2, <2>3 DEF Logged, Log
<1>5. Window(passes', c, store'[c], now)
  <2>1. CASE Elapsed(c)
    <3>1. store[c] = Null \/ store[c].resetAt <= now
      BY <2>1 DEF Elapsed
    <3>2. Window(passes \cup {new}, c, [count |-> 1, resetAt |-> now + CreateWindow], now)
      BY <1>1, <1>2, <1>3, <3>1, NextWindow
    <3> QED BY <1>2, <2>1, <3>2 DEF Counted
  <2>2. CASE ~Elapsed(c)
    <3>1. store[c] \in Entry /\ store[c] # Null /\ store[c].resetAt > now
      BY <1>1, <1>2, <1>3, <2>2 DEF Elapsed, Entry
    <3>2. store[c].count < MaxCreatesPerWindow
      BY <2>2, <3>1, Sizes DEF Create, Full, Entry
    <3>3. Window(passes \cup {new}, c, [store[c] EXCEPT !.count = @ + 1], now)
      BY <1>1, <1>2, <1>3, <3>1, <3>2, SameWindow
    <3> QED BY <1>2, <2>2, <3>3 DEF Counted
  <2> QED BY <2>1, <2>2
<1>6. Windows'
  <2>1. ASSUME NEW b \in Buckets, b # c
        PROVE  Window(passes', b, store'[b], now)
    <3>1. Window(passes \cup {new}, b, store[b], now)
      BY <1>1, <1>3, <2>1, OtherWindow
    <3> QED BY <1>2, <2>1, <3>1
  <2> QED BY <1>2, <1>5, <2>1 DEF Windows
<1>7. Spans'
  <2> SUFFICES ASSUME NEW b \in Buckets, NEW from \in Int
               PROVE  Cardinality(Between(passes', b, from, from + CreateWindow)) < 2 * MaxCreatesPerWindow
    BY DEF Spans
  <2>1. CASE b # c \/ from <= now - CreateWindow
    <3>1. Between(passes', b, from, from + CreateWindow) = Between(passes, b, from, from + CreateWindow)
      BY <1>1, <1>2, <2>1, Sizes DEF Between
    <3> QED BY <3>1 DEF Limited, Spans
  <2>2. CASE b = c /\ from > now - CreateWindow
    <3>1. Log(passes', now) /\ store'[c] \in Entry \cup {Null}
      <4>1. ~Full(c)
        BY DEF Create
      <4> QED BY <1>1, <1>2, <1>4, <4>1, CountedTyped DEF Logged
    <3> QED BY <1>2, <1>5, <2>2, <3>1, SpanOfWindow
  <2> QED BY <1>2, <2>1, <2>2, Sizes
<1>8. RefusesOnlyTheBusy'
  BY <1>2, <1>4, BusyStaysBusy DEF Limited
<1> QED BY <1>4, <1>6, <1>7, <1>8 DEF Limited

\* And with one it refuses.
LEMMA LimitedRefuse ==
  ASSUME Typed, Limited, NEW r \in Requests, NEW address \in Addresses, NEW u \in Users,
         RefuseCreate(r, address, u)
  PROVE  Limited'
<1> DEFINE c == <<address, u>>
           f == Tried(r, c)
<1>1. /\ c \in Buckets /\ f.bucket = c /\ f.time = now /\ now \in Nat
      /\ refusals' = refusals \cup {f} /\ UNCHANGED <<now, store, passes>>
  BY DEF Buckets, Tried, RefuseCreate, Typed, TypeOK
<1>2. Logged'
  <2>1. \A s \in Requests : stage[s] # "idle" => stage'[s] # "idle"
    BY RepliesTyped DEF RefuseCreate
  <2> QED BY <1>1, <2>1 DEF Limited, Logged, Log, Attempt
<1>3. Windows' /\ Spans'
  BY <1>1 DEF Limited, Windows, Spans
<1>4. Cardinality(PassesFrom(c, now - CreateWindow + 1)) >= MaxCreatesPerWindow
  <2> DEFINE since == Since(passes, c, Opened(store[c]))
             busy == PassesFrom(c, now - CreateWindow + 1)
  <2>1. /\ store[c] \in Entry /\ store[c] # Null
        /\ store[c].resetAt > now /\ store[c].count >= MaxCreatesPerWindow
    BY <1>1 DEF RefuseCreate, Full, Elapsed, Typed, TypeOK, Entry
  <2>2. Window(passes, c, store[c], now)
    BY <1>1 DEF Limited, Windows
  <2>3. Cardinality(since) >= MaxCreatesPerWindow
    BY <2>1, <2>2 DEF Window
  <2>4. Opened(store[c]) >= now - CreateWindow + 1
    BY <1>1, <2>1, Sizes DEF Opened, Entry
  <2>5. \A p \in passes : p.time \in Nat /\ p.time <= now
    BY DEF Limited, Logged, Log, Attempt
  <2>6. since \subseteq busy
    BY <1>1, <2>1, <2>4, <2>5, Sizes DEF Since, PassesFrom, Opened, Entry
  <2>7. IsFiniteSet(passes) /\ busy \subseteq passes
    BY DEF Limited, Logged, Log, PassesFrom
  <2> HIDE DEF since, busy
  <2>8. IsFiniteSet(busy)
    BY <2>7, FS_Subset
  <2>9. IsFiniteSet(since) /\ Cardinality(since) <= Cardinality(busy)
    BY <2>6, <2>8, FS_Subset
  <2>10. Cardinality(since) \in Nat /\ Cardinality(busy) \in Nat
    BY <2>8, <2>9, FS_CardinalityType
  <2>11. Cardinality(busy) >= MaxCreatesPerWindow
    BY <2>3, <2>9, <2>10, Sizes
  <2> QED BY <2>11 DEF busy
<1>5. RefusesOnlyTheBusy'
  <2>1. \A b, from : PassesFrom(b, from)' = PassesFrom(b, from)
    BY <1>1 DEF PassesFrom
  <2>2. ASSUME NEW d \in refusals'
        PROVE  Cardinality(PassesFrom(d.bucket, d.time - CreateWindow + 1)) >= MaxCreatesPerWindow
    <3>1. CASE d \in refusals
      BY <3>1 DEF Limited, RefusesOnlyTheBusy
    <3>2. CASE d = f
      BY <1>1, <1>4, <3>2
    <3> QED BY <1>1, <2>2, <3>1, <3>2
  <2> QED BY <1>1, <2>2 DEF RefusesOnlyTheBusy, PassesFrom
<1> QED BY <1>2, <1>3, <1>5 DEF Limited

\* Each step keeps the agreement.
LEMMA LimitedStep == Typed /\ Limited /\ [Next]_vars => Limited'
<1> SUFFICES ASSUME Typed, Limited, [Next]_vars
             PROVE  Limited'
  OBVIOUS
<1>1. ASSUME UNCHANGED limiter, now' \in {now, now + 1},
             \A r \in Requests : stage[r] # "idle" => stage'[r] # "idle"
      PROVE  Limited'
  <2>1. passes' = passes /\ refusals' = refusals /\ store' = store
    BY <1>1 DEF limiter
  <2>2. now \in Nat /\ \A b \in Buckets : store[b] \in Entry \cup {Null}
    BY DEF Typed, TypeOK
  <2>3. Logged'
    BY <1>1, <2>1, <2>2 DEF Limited, Logged, Log, Attempt
  <2>4. Windows'
    BY <1>1, <2>1, <2>2, LaterWindow DEF Limited, Windows
  <2>5. Spans'
    BY <2>1 DEF Limited, Spans
  <2>6. RefusesOnlyTheBusy'
    BY <2>1, <2>3, BusyStaysBusy DEF Limited
  <2> QED BY <2>3, <2>4, <2>5, <2>6 DEF Limited
<1>2. ASSUME NEW r \in Requests,
             \/ FindInviter(r) \/ FindGroup(r) \/ FindMembership(r) \/ SaveInvite(r)
             \/ \E i \in Requests, u \in Users \cup {Null} : Accept(r, i, u)
             \/ Conflict(r) \/ UserNotFound(r)
      PROVE  Limited'
  <2>1. UNCHANGED limiter /\ now' = now
    BY <1>2 DEF FindInviter, FindGroup, FindMembership, SaveInvite, Accept, Conflict, UserNotFound
  <2>2. \E next \in {"save", "group", "membership", "accept", "done"} : stage' = [stage EXCEPT ![r] = next]
    BY <1>2 DEF FindInviter, FindGroup, FindMembership, SaveInvite, Accept, Conflict, UserNotFound,
                Awaiting, Replies
  <2>3. \A s \in Requests : stage[s] # "idle" => stage'[s] # "idle"
    BY <2>2 DEF Typed, TypeOK
  <2> QED BY <1>1, <2>1, <2>3
<1>3. CASE \/ \E u \in Users, g \in Groups : Join(u, g) \/ Leave(u, g)
           \/ \E g \in Groups : RemoveGroup(g)
           \/ \E u \in Users : RemoveUser(u)
           \/ Tick
           \/ UNCHANGED vars
  <2>1. UNCHANGED <<limiter, stage>> /\ now' \in {now, now + 1}
    BY <1>3 DEF Join, Leave, RemoveGroup, RemoveUser, Tick, vars
  <2> QED BY <1>1, <2>1
<1>4. CASE Restart
  <2>1. passes' = {} /\ refusals' = {} /\ store' = [b \in Buckets |-> Null]
    BY <1>4 DEF Restart
  <2>2. (passes = {} /\ refusals = {} /\ store = [b \in Buckets |-> Null] => Limited)'
    BY LimitedEmpty, PTL
  <2> QED BY <2>1, <2>2
<1> QED
  BY <1>2, <1>3, <1>4, LimitedCreate, LimitedRefuse DEF Next

\* For any length of the window and any maximum: no span of that length lets twice
\* the maximum of creations pass in a bucket.
THEOREM SpansAreLimited == Spec => []NearlyTwiceAtMost
<1>1. Typed /\ Limited => NearlyTwiceAtMost
  <2> SUFFICES ASSUME Typed, Limited, NEW b \in Buckets, NEW p \in passes
               PROVE  Cardinality(PassesFrom(b, p.time)) < 2 * MaxCreatesPerWindow
    BY DEF NearlyTwiceAtMost
  <2>1. p.time \in Int
    BY DEF Typed, TypeOK, Attempt
  <2>2. PassesFrom(b, p.time) = Between(passes, b, p.time, p.time + CreateWindow)
    BY DEF PassesFrom, Between
  <2> QED BY <2>1, <2>2 DEF Limited, Spans
<1> QED BY TypedInit, TypedStep, LimitedInit, LimitedStep, <1>1, PTL DEF Spec

\* And nobody is refused who has not used up the maximum within the last window.
THEOREM OnlyTheBusyAreRefused == Spec => []RefusesOnlyTheBusy
<1>1. Limited => RefusesOnlyTheBusy
  BY DEF Limited
<1> QED BY TypedInit, TypedStep, LimitedInit, LimitedStep, <1>1, PTL DEF Spec

-----------------------------------------------------------------------------
(***************************************************************************)
(* Windows that are forgotten                                              *)
(***************************************************************************)

\* What the mapping shows of a bucket.
Shown(b) == IF Elapsed(b) THEN [used |-> 0, left |-> 0]
            ELSE [used |-> store[b].count, left |-> store[b].resetAt - now]
Try == [request : Requests, bucket : Buckets, time : 0..Horizon]

\* The steps of the abstract limiter, in terms of what is shown.
LEMMA LimiterMoves ==
  /\ UNCHANGED <<passes, refusals>> /\ (\A b \in Buckets : Shown(b)' = Shown(b))
     => UNCHANGED Limiter!vars
  /\ \A a \in Try :
       /\ /\ passes' = passes \cup {a} /\ UNCHANGED refusals
          /\ ~(Shown(a.bucket).used >= MaxCreatesPerWindow)
          /\ Shown(a.bucket)' = IF Shown(a.bucket) = [used |-> 0, left |-> 0]
                                THEN [used |-> 1, left |-> CreateWindow]
                                ELSE [used |-> Shown(a.bucket).used + 1, left |-> Shown(a.bucket).left]
          /\ \A b \in Buckets \ {a.bucket} : Shown(b)' = Shown(b)
          => Limiter!Pass(a)
       /\ /\ refusals' = refusals \cup {a} /\ UNCHANGED passes
          /\ Shown(a.bucket).used >= MaxCreatesPerWindow
          /\ \A b \in Buckets : Shown(b)' = Shown(b)
          => Limiter!Refuse(a)
  /\ /\ UNCHANGED <<passes, refusals>>
     /\ \A b \in Buckets : Shown(b)' = IF Shown(b).left <= 1 THEN [used |-> 0, left |-> 0]
                                       ELSE [used |-> Shown(b).used, left |-> Shown(b).left - 1]
     => Limiter!Tick
  /\ /\ passes' = {} /\ refusals' = {}
     /\ \A b \in Buckets : Shown(b)' = [used |-> 0, left |-> 0]
     => Limiter!Restart
<1> DEFINE W == [b \in Buckets |-> IF Elapsed(b) THEN [used |-> 0, left |-> 0]
                                   ELSE [used |-> store[b].count, left |-> store[b].resetAt - now]]
<1>1. \A b \in Buckets : W[b] = Shown(b) /\ W'[b] = Shown(b)'
  BY DEF Shown
<1>2. DOMAIN W = Buckets /\ DOMAIN W' = Buckets
  OBVIOUS
<1>3. W = [b \in Buckets |-> W[b]] /\ W' = [b \in Buckets |-> W'[b]]
  OBVIOUS
<1>4. Limiter!vars = <<W, passes, refusals>> /\ Limiter!vars' = <<W', passes', refusals'>>
  BY DEF Limiter!vars
<1> HIDE DEF W
<1>5. UNCHANGED <<passes, refusals>> /\ (\A b \in Buckets : Shown(b)' = Shown(b))
      => UNCHANGED Limiter!vars
  BY <1>1, <1>3, <1>4
<1>6. ASSUME NEW a \in Try,
             passes' = passes \cup {a}, UNCHANGED refusals,
             ~(Shown(a.bucket).used >= MaxCreatesPerWindow),
             Shown(a.bucket)' = IF Shown(a.bucket) = [used |-> 0, left |-> 0]
                                THEN [used |-> 1, left |-> CreateWindow]
                                ELSE [used |-> Shown(a.bucket).used + 1, left |-> Shown(a.bucket).left],
             \A b \in Buckets \ {a.bucket} : Shown(b)' = Shown(b)
      PROVE  Limiter!Pass(a)
  <2> DEFINE c == a.bucket
             opened == [used |-> 1, left |-> CreateWindow]
             more == IF W[c] = [used |-> 0, left |-> 0] THEN opened
                     ELSE [used |-> W[c].used + 1, left |-> W[c].left]
  <2>1. c \in Buckets
    BY DEF Try
  <2>2. W'[c] = more /\ \A b \in Buckets \ {c} : W'[b] = W[b]
    BY <1>1, <1>6, <2>1
  <2> HIDE DEF more
  <2>3. W' = [W EXCEPT ![c] = more]
    BY <1>3, <2>1, <2>2
  <2>4. ~(W[c].used >= MaxCreatesPerWindow)
    BY <1>1, <1>6, <2>1
  <2> QED
    BY <1>6, <2>3, <2>4 DEF W, more, Limiter!Pass, Limiter!UsedUp, Limiter!None, BucketOf
<1>7. ASSUME NEW a \in Try,
             refusals' = refusals \cup {a}, UNCHANGED passes,
             Shown(a.bucket).used >= MaxCreatesPerWindow,
             \A b \in Buckets : Shown(b)' = Shown(b)
      PROVE  Limiter!Refuse(a)
  <2>1. W' = W /\ W[a.bucket].used >= MaxCreatesPerWindow
    BY <1>1, <1>3, <1>7 DEF Try
  <2> QED BY <1>7, <2>1 DEF W, Limiter!Refuse, Limiter!UsedUp, BucketOf
<1> QED
  BY <1>1, <1>3, <1>5, <1>6, <1>7 DEF W, Limiter!Tick, Limiter!Restart, Limiter!Empty, Limiter!None

\* An attempt is one of the abstract limiter's.
LEMMA TriedTry ==
  ASSUME Typed, NEW r \in Requests, NEW b \in Buckets
  PROVE  Tried(r, b) \in Try /\ Tried(r, b).bucket = b
BY DEF Typed, TypeOK, Tried, Try

\* A bucket's entry is full when what is shown of it is used up.
LEMMA ShownFull ==
  ASSUME Typed, NEW b \in Buckets
  PROVE  Full(b) <=> Shown(b).used >= MaxCreatesPerWindow
BY InviteAssumption DEF Full, Shown

\* Each step of the limiter is one of the abstract limiter, the others are none.
LEMMA LimiterStep == Typed /\ [Next]_vars => [Limiter!Next]_(Limiter!vars)
<1> SUFFICES ASSUME Typed, [Next]_vars
             PROVE  Limiter!Next \/ UNCHANGED Limiter!vars
  OBVIOUS
<1>0. now \in Nat /\ CreateWindow \in Nat \ {0} /\ MaxCreatesPerWindow \in Nat \ {0}
  BY InviteAssumption DEF Typed, TypeOK
<1>1. ASSUME UNCHANGED <<now, limiter>>
      PROVE  UNCHANGED Limiter!vars
  <2>1. \A b \in Buckets : Shown(b)' = Shown(b)
    BY <1>1 DEF limiter, Shown, Elapsed
  <2> QED BY <1>1, <2>1, LimiterMoves DEF limiter
<1>2. ASSUME NEW r \in Requests, NEW address \in Addresses, NEW u \in Users,
             NEW g \in Groups \cup {Null}, Create(r, address, u, g)
      PROVE  Limiter!Next
  <2> DEFINE b == <<address, u>>
  <2>1. b \in Buckets
    BY DEF Buckets
  <2>2. PICK a \in Try : a = Tried(r, b) /\ a.bucket = b
    BY <2>1, TriedTry
  <2>3. /\ ~Full(b) /\ passes' = passes \cup {a} /\ UNCHANGED <<now, refusals>>
        /\ store' = [store EXCEPT ![b] = Counted(b)]
    BY <1>2, <2>2 DEF Create
  <2>4. store'[b] = Counted(b) /\ \A c \in Buckets \ {b} : store'[c] = store[c]
    BY <2>1, <2>3 DEF Typed, TypeOK
  <2> HIDE DEF b
  <2>5. \A c \in Buckets \ {b} : Shown(c)' = Shown(c)
    BY <2>3, <2>4 DEF Shown, Elapsed
  <2>6. CASE Elapsed(b)
    <3>1. store'[b] = [count |-> 1, resetAt |-> now + CreateWindow]
      BY <2>4, <2>6 DEF Counted
    <3>2. store'[b] # Null
      BY <1>0, <3>1, NullAssumption DEF Entry
    <3>3. Shown(b)' = [used |-> 1, left |-> CreateWindow]
      BY <1>0, <2>3, <3>1, <3>2 DEF Shown, Elapsed
    <3>4. Shown(b) = [used |-> 0, left |-> 0]
      BY <2>6 DEF Shown
    <3>5. Limiter!Pass(a)
      BY <2>1, <2>2, <2>3, <2>5, <3>3, <3>4, ShownFull, LimiterMoves
    <3> QED BY <2>2, <3>5 DEF Limiter!Next, Try
  <2>7. CASE ~Elapsed(b)
    <3>1. store[b] \in Entry /\ store[b].resetAt > now
      BY <1>0, <2>1, <2>7 DEF Elapsed, Typed, TypeOK, Entry
    <3>2. store'[b] = [store[b] EXCEPT !.count = @ + 1]
      BY <2>4, <2>7 DEF Counted
    <3>3. store'[b] \in Entry
      BY <2>1, <2>3, <2>4, CountedTyped
    <3>4. ~Elapsed(b)'
      BY <1>0, <2>3, <3>1, <3>2, <3>3, NullAssumption DEF Elapsed, Entry
    <3>5. /\ Shown(b) = [used |-> store[b].count, left |-> store[b].resetAt - now]
          /\ Shown(b)' = [used |-> store[b].count + 1, left |-> store[b].resetAt - now]
      BY <2>3, <2>7, <3>1, <3>2, <3>4 DEF Shown, Entry
    <3>6. Shown(b) # [used |-> 0, left |-> 0]
      BY <1>0, <3>1, <3>5 DEF Entry
    <3>7. Shown(b)' = [used |-> Shown(b).used + 1, left |-> Shown(b).left]
      BY <3>5
    <3>8. Limiter!Pass(a)
      BY <2>1, <2>2, <2>3, <2>5, <3>6, <3>7, ShownFull, LimiterMoves
    <3> QED BY <2>2, <3>8 DEF Limiter!Next, Try
  <2> QED BY <2>6, <2>7
<1>3. ASSUME NEW r \in Requests, NEW address \in Addresses, NEW u \in Users,
             RefuseCreate(r, address, u)
      PROVE  Limiter!Next
  <2> DEFINE b == <<address, u>>
  <2>1. b \in Buckets
    BY DEF Buckets
  <2>2. PICK a \in Try : a = Tried(r, b) /\ a.bucket = b
    BY <2>1, TriedTry
  <2>3. Full(b) /\ refusals' = refusals \cup {a} /\ UNCHANGED <<now, store, passes>>
    BY <1>3, <2>2 DEF RefuseCreate
  <2>4. \A c \in Buckets : Shown(c)' = Shown(c)
    BY <2>3 DEF Shown, Elapsed
  <2>5. Limiter!Refuse(a)
    BY <2>1, <2>2, <2>3, <2>4, ShownFull, LimiterMoves
  <2> QED BY <2>2, <2>5 DEF Limiter!Next, Try
<1>4. CASE Tick
  <2>1. now' = now + 1 /\ UNCHANGED limiter
    BY <1>4 DEF Tick
  <2>2. ASSUME NEW b \in Buckets
        PROVE  Shown(b)' = IF Shown(b).left <= 1 THEN [used |-> 0, left |-> 0]
                           ELSE [used |-> Shown(b).used, left |-> Shown(b).left - 1]
    <3>1. CASE Elapsed(b)
      <4>1. Elapsed(b)'
        BY <1>0, <2>1, <3>1 DEF Elapsed, Typed, TypeOK, Entry, limiter
      <4> QED BY <3>1, <4>1 DEF Shown
    <3>2. CASE ~Elapsed(b)
      <4>1. store[b] \in Entry /\ store'[b] = store[b] /\ store[b] # Null
        BY <2>1, <3>2 DEF Elapsed, Typed, TypeOK, limiter
      <4>2. Elapsed(b)' <=> store[b].resetAt - now <= 1
        BY <1>0, <2>1, <4>1 DEF Elapsed, Entry
      <4> QED BY <1>0, <2>1, <3>2, <4>1, <4>2 DEF Shown, Entry
    <3> QED BY <3>1, <3>2
  <2>3. Limiter!Tick
    BY <2>1, <2>2, LimiterMoves DEF limiter
  <2> QED BY <2>3 DEF Limiter!Next
<1>5. CASE Restart
  <2>1. passes' = {} /\ refusals' = {} /\ \A b \in Buckets : store'[b] = Null
    BY <1>5 DEF Restart
  <2>2. \A b \in Buckets : Shown(b)' = [used |-> 0, left |-> 0]
    BY <2>1 DEF Shown, Elapsed
  <2>3. Limiter!Restart
    BY <2>1, <2>2, LimiterMoves
  <2> QED BY <2>3 DEF Limiter!Next
<1>6. ASSUME NEW r \in Requests,
             \/ FindInviter(r) \/ FindGroup(r) \/ FindMembership(r) \/ SaveInvite(r)
             \/ \E i \in Requests, u \in Users \cup {Null} : Accept(r, i, u)
             \/ Conflict(r) \/ UserNotFound(r)
      PROVE  UNCHANGED Limiter!vars
  <2>1. UNCHANGED <<now, limiter>>
    BY <1>6 DEF FindInviter, FindGroup, FindMembership, SaveInvite, Accept, Conflict, UserNotFound
  <2> QED BY <1>1, <2>1
<1>7. CASE \/ \E u \in Users, g \in Groups : Join(u, g) \/ Leave(u, g)
           \/ \E g \in Groups : RemoveGroup(g)
           \/ \E u \in Users : RemoveUser(u)
           \/ UNCHANGED vars
  <2>1. UNCHANGED <<now, limiter>>
    BY <1>7 DEF Join, Leave, RemoveGroup, RemoveUser, vars
  <2> QED BY <1>1, <2>1
<1> QED
  BY <1>2, <1>3, <1>4, <1>5, <1>6, <1>7 DEF Next

\* For any length of the window and any maximum: the store implements the limiter
\* that forgets a window at the moment it ends, so the entries that stay behind in it
\* change nothing that anybody can see.
THEOREM StaleEntriesDoNothing == Spec => LimiterForgets
<1>1. Init => Limiter!Init
  BY DEF Init, Elapsed, Limiter!Init, Limiter!Empty, Limiter!None
<1> QED BY TypedInit, TypedStep, LimiterStep, <1>1, PTL DEF Spec, LimiterForgets, Limiter!Spec
=============================================================================
