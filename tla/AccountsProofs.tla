---------------------------- MODULE AccountsProofs ----------------------------
(***************************************************************************)
(* Theorems about Accounts, for any phones, any number of requests and any *)
(* number of attempts.                                                     *)
(***************************************************************************)
EXTENDS Accounts, TLAPS

-----------------------------------------------------------------------------
(***************************************************************************)
(* Types                                                                   *)
(***************************************************************************)

\* A row that issueOtp fills in is a row.
LEMMA IssuedType ==
  ASSUME NEW row \in OtpRow \cup {NoOtp}, NEW r \in Requests
  PROVE  Issued(row, r) \in OtpRow
<1>1. 0 \in 0 .. MaxAttempts
  BY AttemptsAssumption
<1>2. (IF row = NoOtp THEN r ELSE row.id) \in Requests
  BY DEF OtpRow
<1> QED BY <1>1, <1>2 DEF Issued, OtpRow

\* What confirmOtp writes has counted at most MaxAttempts.
LEMMA ComparedType ==
  ASSUME NEW row \in OtpRow, row.attempts < MaxAttempts, NEW r \in Requests,
         NEW isValid \in BOOLEAN
  PROVE  Compared(row, r, isValid) \in OtpRow
<1>1. 0 \in 0 .. MaxAttempts /\ row.attempts + 1 \in 0 .. MaxAttempts
  BY AttemptsAssumption DEF OtpRow
<1>2. CASE isValid
  BY <1>1, <1>2 DEF Compared, OtpRow
<1>3. CASE ~isValid
  BY <1>1, <1>3 DEF Compared, OtpRow
<1> QED BY <1>2, <1>3

\* An update of some columns leaves a row.
LEMMA UpdatedType ==
  ASSUME NEW row \in OtpRow, NEW new \in OtpRow, NEW old
  PROVE  Updated(row, new, old) \in OtpRow
BY DEF Updated, OtpRow

\* A row that has an id in common with a row is one.
LEMMA NoOtpHasNoId == NoOtp \notin OtpRow /\ \A row \in OtpRow : row.id \in Requests /\ row.id # NoOtp.id
BY NullAssumption DEF OtpRow, NoOtp

\* A handler that saves holds a row, and has a phone as soon as it has begun.
HandlerShape ==
  \A r \in Requests :
    /\ stage[r] \in {"save", "write"} => mine[r] \in OtpRow
    /\ stage[r] \notin {"idle", "done"} => phone[r] \in Phones
    /\ stage[r] \in {"found", "wallet"} => found[r] \in Requests

Typed == TypeOK /\ HandlerShape

\* At first there is nothing.
LEMMA TypedInit == Init => Typed
BY DEF Init, Typed, TypeOK, HandlerShape

\* What a handler ends with is typed.
LEMMA EndsTyped ==
  ASSUME Typed, NEW r \in Requests, Ends(r)
  PROVE  /\ stage' \in [Requests -> {"idle", "save", "write", "hash", "created", "found", "wallet", "done"}]
         /\ phone' \in [Requests -> Phones \cup {Null}]
         /\ mine' \in [Requests -> OtpRow \cup {NoOtp}]
         /\ base' \in [Requests -> OtpRow \cup {NoOtp}]
         /\ found' \in [Requests -> Requests \cup {Null}]
         /\ HandlerShape'
<1>1. /\ stage' \in [Requests -> {"idle", "save", "write", "hash", "created", "found", "wallet", "done"}]
      /\ phone' \in [Requests -> Phones \cup {Null}]
      /\ mine' \in [Requests -> OtpRow \cup {NoOtp}]
      /\ base' \in [Requests -> OtpRow \cup {NoOtp}]
      /\ found' \in [Requests -> Requests \cup {Null}]
  BY DEF Ends, Goes, Typed, TypeOK
<1>2. stage'[r] = "done"
  BY DEF Ends, Goes, Typed, TypeOK
<1>3. \A s \in Requests \ {r} :
        stage'[s] = stage[s] /\ phone'[s] = phone[s] /\ mine'[s] = mine[s] /\ found'[s] = found[s]
  BY DEF Ends, Goes, Typed, TypeOK
<1>4. HandlerShape'
  BY <1>2, <1>3 DEF HandlerShape, Typed
<1> QED BY <1>1, <1>4

\* Those who are crossed are handlers.
LEMMA CrossesType ==
  ASSUME Typed, NEW r \in Requests, Crosses(r)
  PROVE  crossed' \subseteq Requests
BY DEF Typed, TypeOK, Crosses, InHand

\* Each step keeps the types.
LEMMA TypedStep == Typed /\ [Next]_vars => Typed'
<1> SUFFICES ASSUME Typed, [Next]_vars
             PROVE  Typed'
  OBVIOUS
<1> USE DEF Typed
<1>1. ASSUME NEW r \in Requests, NEW p \in Phones, SendOtp(r, p)
      PROVE  Typed'
  <2>1. otp[p] \in OtpRow \cup {NoOtp}
    BY DEF TypeOK
  <2>2. Issued(otp[p], r) \in OtpRow
    BY <2>1, IssuedType
  <2>3. TypeOK'
    BY <1>1, <2>2 DEF SendOtp, Goes, TypeOK, tables, history, people
  <2>4. HandlerShape'
    BY <1>1, <2>2 DEF SendOtp, Goes, TypeOK, HandlerShape
  <2> QED BY <2>3, <2>4
<1>2. ASSUME NEW r \in Requests, NEW p \in Phones, ConfirmOtp(r, p)
      PROVE  Typed'
  <2>1. otp[p] \in OtpRow /\ otp[p].attempts < MaxAttempts
    BY <1>2 DEF ConfirmOtp, MayTry, TypeOK
  <2>2. PICK isValid \in BOOLEAN :
           /\ mine' = [mine EXCEPT ![r] = Compared(otp[p], r, isValid)]
           /\ confirmed' = IF isValid THEN confirmed \cup {p} ELSE confirmed
    BY <1>2 DEF ConfirmOtp
  <2>3. Compared(otp[p], r, isValid) \in OtpRow
    BY <2>1, ComparedType
  <2>4. TypeOK'
    BY <1>2, <2>2, <2>3 DEF ConfirmOtp, Goes, TypeOK, tables, people
  <2>5. HandlerShape'
    BY <1>2, <2>2, <2>3 DEF ConfirmOtp, Goes, TypeOK, HandlerShape
  <2> QED BY <2>4, <2>5
<1>3. ASSUME NEW r \in Requests, SaveSelect(r)
      PROVE  Typed'
  <2>1. otp[phone[r]] \in OtpRow \cup {NoOtp}
    BY <1>3 DEF SaveSelect, HandlerShape, TypeOK
  <2>2. TypeOK'
    BY <1>3, <2>1 DEF SaveSelect, Goes, TypeOK, tables, history, people
  <2>3. HandlerShape'
    BY <1>3 DEF SaveSelect, Goes, TypeOK, HandlerShape
  <2> QED BY <2>2, <2>3
<1>4. ASSUME NEW r \in Requests, SaveUpdate(r)
      PROVE  Typed'
  <2>1. phone[r] \in Phones /\ mine[r] \in OtpRow
    BY <1>4 DEF SaveUpdate, HandlerShape
  <2>2. otp[phone[r]] \in OtpRow \cup {NoOtp}
    BY <2>1 DEF TypeOK
  <2>3. otp[phone[r]].id = mine[r].id => Updated(otp[phone[r]], mine[r], base[r]) \in OtpRow
    BY <2>1, <2>2, NoOtpHasNoId, UpdatedType
  <2>4. otp' \in [Phones -> OtpRow \cup {NoOtp}] /\ told' \in [Phones -> Requests \cup {Null}]
    BY <1>4, <2>2, <2>3 DEF SaveUpdate, TypeOK, Tell
  <2> QED BY <1>4, <2>4, EndsTyped, CrossesType DEF SaveUpdate, TypeOK, people
<1>5. ASSUME NEW r \in Requests, SaveInsert(r)
      PROVE  Typed'
  <2>1. phone[r] \in Phones /\ mine[r] \in OtpRow
    BY <1>5 DEF SaveInsert, HandlerShape
  <2>2. otp' \in [Phones -> OtpRow \cup {NoOtp}] /\ told' \in [Phones -> Requests \cup {Null}]
    BY <1>5, <2>1 DEF SaveInsert, TypeOK, Tell
  <2> QED BY <1>5, <2>2, EndsTyped, CrossesType DEF SaveInsert, TypeOK, people
<1>6. ASSUME NEW r \in Requests, NEW p \in Phones, Register(r, p)
      PROVE  Typed'
  <2>1. TypeOK'
    BY <1>6 DEF Register, Goes, TypeOK, tables, history, people
  <2>2. HandlerShape'
    BY <1>6 DEF Register, Goes, TypeOK, HandlerShape
  <2> QED BY <2>1, <2>2
<1>7. ASSUME NEW r \in Requests, CreateUser(r)
      PROVE  Typed'
  <2>1. phone[r] \in Phones
    BY <1>7 DEF CreateUser, HandlerShape
  <2>2. /\ user' \in [Requests -> Phones \cup {Null}] /\ had' \subseteq Requests \X Phones
        /\ registered' \in [Requests -> Phones \cup {Null}]
    BY <1>7, <2>1 DEF CreateUser, Writes, TypeOK
  <2>3. TypeOK'
    BY <1>7, <2>2 DEF CreateUser, Goes, TypeOK, locals
  <2>4. HandlerShape'
    BY <1>7, <2>1 DEF CreateUser, Goes, TypeOK, HandlerShape, locals
  <2> QED BY <2>3, <2>4
<1>8. ASSUME NEW r \in Requests, FindUser(r)
      PROVE  Typed'
  <2>1. PICK u \in UsersWith(phone[r]) : found' = [found EXCEPT ![r] = u]
    BY <1>8 DEF FindUser
  <2>2. u \in Requests /\ phone[r] \in Phones
    BY <1>8 DEF UsersWith, FindUser, HandlerShape
  <2>3. TypeOK'
    BY <1>8, <2>1, <2>2 DEF FindUser, Goes, TypeOK, tables
  <2>4. HandlerShape'
    BY <1>8, <2>1, <2>2 DEF FindUser, Goes, TypeOK, HandlerShape
  <2> QED BY <2>3, <2>4
<1>9. ASSUME NEW r \in Requests, CreateWallet(r)
      PROVE  Typed'
  <2>1. found[r] \in Requests
    BY <1>9 DEF CreateWallet, HandlerShape
  <2>2. TypeOK'
    BY <1>9, <2>1 DEF CreateWallet, Goes, TypeOK, locals, history, people
  <2>3. HandlerShape'
    BY <1>9 DEF CreateWallet, Goes, TypeOK, HandlerShape, locals
  <2> QED BY <2>2, <2>3
<1>10. ASSUME NEW r \in Requests, DeleteOtp(r)
       PROVE  Typed'
  <2>1. otp' \in [Phones -> OtpRow \cup {NoOtp}] /\ told' \in [Phones -> Requests \cup {Null}]
    BY <1>10 DEF DeleteOtp, TypeOK
  <2> QED BY <1>10, <2>1, EndsTyped, CrossesType DEF DeleteOtp, TypeOK, people
<1>11. ASSUME NEW r \in Requests, Throws(r)
       PROVE  Typed'
  BY <1>11, EndsTyped DEF Throws, TypeOK, tables
<1>12. ASSUME NEW r \in Requests, NEW p \in Phones, PostUser(r, p)
       PROVE  Typed'
  <2>1. user' \in [Requests -> Phones \cup {Null}] /\ had' \subseteq Requests \X Phones
    BY <1>12 DEF PostUser, Writes, TypeOK
  <2> QED BY <1>12, <2>1, EndsTyped DEF PostUser, TypeOK
<1>13. ASSUME NEW r \in Requests,
              RemoveUser(r) \/ \E p \in Phones : UpdateUser(r, p) \/ RestoreUser(r, p)
       PROVE  Typed'
  <2>1. user' \in [Requests -> Phones \cup {Null}] /\ had' \subseteq Requests \X Phones
    <3>1. CASE RemoveUser(r)
      BY <3>1 DEF RemoveUser, TypeOK, history, people
    <3>2. ASSUME NEW p \in Phones, UpdateUser(r, p)
          PROVE  user' \in [Requests -> Phones \cup {Null}] /\ had' \subseteq Requests \X Phones
      BY <3>2 DEF UpdateUser, Writes, TypeOK
    <3>3. ASSUME NEW p \in Phones, RestoreUser(r, p)
          PROVE  user' \in [Requests -> Phones \cup {Null}] /\ had' \subseteq Requests \X Phones
      BY <3>3 DEF RestoreUser, TypeOK, history, people
    <3> QED BY <1>13, <3>1, <3>2, <3>3
  <2>2. /\ wallets' = wallets /\ otp' = otp /\ late' = late /\ stage' = stage
        /\ phone' = phone /\ mine' = mine /\ base' = base /\ found' = found
        /\ registered' = registered /\ displaced' = displaced /\ brokenOff' = brokenOff
        /\ confirmed' = confirmed /\ told' = told /\ crossed' = crossed
    BY <1>13 DEF UpdateUser, RestoreUser, RemoveUser, locals, history, people
  <2> QED BY <2>1, <2>2 DEF TypeOK, HandlerShape
<1>14. ASSUME NEW r \in Requests, TimePasses(r)
       PROVE  Typed'
  BY <1>14 DEF TimePasses, TypeOK, HandlerShape, tables, locals, history, people
<1>15. CASE UNCHANGED vars
  BY <1>15 DEF vars, tables, locals, history, people, TypeOK, HandlerShape
<1> QED
  BY <1>1, <1>2, <1>3, <1>4, <1>5, <1>6, <1>7, <1>8, <1>9, <1>10, <1>11, <1>12, <1>13,
     <1>14, <1>15 DEF Next

\* Columns and local variables keep their types, whatever the handlers do.
THEOREM AccountsTyped == Spec => []TypeOK
<1>1. Typed => TypeOK
  BY DEF Typed
<1> QED BY TypedInit, TypedStep, <1>1, PTL DEF Spec

-----------------------------------------------------------------------------
(***************************************************************************)
(* Nobody registers with a phone that nobody has confirmed                 *)
(***************************************************************************)

\* Wherever a phone counts as verified, in its row, in a copy some handler is
\* going to write back or in a registration, its code has been given.
Confirmed ==
  /\ \A p \in Phones : otp[p] # NoOtp /\ otp[p].verified => p \in confirmed
  /\ \A r \in Requests :
       /\ stage[r] \in {"save", "write"} /\ mine[r].verified => phone[r] \in confirmed
       /\ stage[r] \in {"hash", "created", "found", "wallet"} => phone[r] \in confirmed
  /\ RegisteredWasVerified

\* Each step keeps it: a stale copy was made when its phone was confirmed, and
\* what is confirmed stays so.
LEMMA ConfirmedStep == Typed /\ Confirmed /\ [Next]_vars => Confirmed'
<1> SUFFICES ASSUME Typed, Confirmed, [Next]_vars
             PROVE  Confirmed'
  OBVIOUS
<1> USE DEF Typed
<1>1. ASSUME NEW r \in Requests, NEW p \in Phones, SendOtp(r, p)
      PROVE  Confirmed'
  <2>1. mine'[r].verified = FALSE /\ stage'[r] = "save"
    BY <1>1 DEF SendOtp, Issued, Goes, TypeOK
  <2>2. \A s \in Requests \ {r} : mine'[s] = mine[s] /\ stage'[s] = stage[s] /\ phone'[s] = phone[s]
    BY <1>1 DEF SendOtp, Goes, TypeOK
  <2>3. otp' = otp /\ registered' = registered /\ confirmed' = confirmed
    BY <1>1 DEF SendOtp, tables, history, people
  <2> QED BY <2>1, <2>2, <2>3 DEF Confirmed, RegisteredWasVerified
<1>2. ASSUME NEW r \in Requests, NEW p \in Phones, ConfirmOtp(r, p)
      PROVE  Confirmed'
  <2>1. PICK isValid \in BOOLEAN :
           /\ mine' = [mine EXCEPT ![r] = Compared(otp[p], r, isValid)]
           /\ confirmed' = IF isValid THEN confirmed \cup {p} ELSE confirmed
    BY <1>2 DEF ConfirmOtp
  <2>2. otp[p] \in OtpRow
    BY <1>2 DEF ConfirmOtp, MayTry, TypeOK
  <2>3. stage'[r] = "save" /\ phone'[r] = p /\ mine'[r] = Compared(otp[p], r, isValid)
    BY <1>2, <2>1 DEF ConfirmOtp, Goes, TypeOK
  <2>4. mine'[r].verified => p \in confirmed'
    <3>1. CASE isValid
      BY <2>1, <3>1
    <3>2. CASE ~isValid
      <4>1. mine'[r].verified = otp[p].verified
        BY <2>2, <2>3, <3>2 DEF Compared, OtpRow
      <4> QED BY <1>2, <2>1, <3>2, <4>1 DEF Confirmed, ConfirmOtp, MayTry
    <3> QED BY <3>1, <3>2
  <2>5. \A s \in Requests \ {r} : mine'[s] = mine[s] /\ stage'[s] = stage[s] /\ phone'[s] = phone[s]
    BY <1>2, <2>1 DEF ConfirmOtp, Goes, TypeOK
  <2>6. otp' = otp /\ registered' = registered /\ confirmed \subseteq confirmed'
    BY <1>2, <2>1 DEF ConfirmOtp, tables, people
  <2> QED BY <2>3, <2>4, <2>5, <2>6 DEF Confirmed, RegisteredWasVerified
<1>3. ASSUME NEW r \in Requests, SaveSelect(r)
      PROVE  Confirmed'
  <2>1. stage[r] = "save" /\ stage'[r] = "write" /\ \A s \in Requests \ {r} : stage'[s] = stage[s]
    BY <1>3 DEF SaveSelect, Goes, TypeOK
  <2>2. otp' = otp /\ registered' = registered /\ confirmed' = confirmed /\ mine' = mine /\ phone' = phone
    BY <1>3 DEF SaveSelect, tables, history, people
  <2> QED BY <2>1, <2>2 DEF Confirmed, RegisteredWasVerified
<1>4. ASSUME NEW r \in Requests, Ends(r), registered' = registered, confirmed' = confirmed,
             \A p \in Phones : otp'[p] # NoOtp /\ otp'[p].verified => p \in confirmed
      PROVE  Confirmed'
  <2>1. stage'[r] = "done" /\ \A s \in Requests \ {r} :
           stage'[s] = stage[s] /\ phone'[s] = phone[s] /\ mine'[s] = mine[s]
    BY <1>4 DEF Ends, Goes, TypeOK
  <2> QED BY <1>4, <2>1 DEF Confirmed, RegisteredWasVerified
<1>5. ASSUME NEW r \in Requests, SaveUpdate(r)
      PROVE  Confirmed'
  <2>1. phone[r] \in Phones /\ mine[r] \in OtpRow /\ (mine[r].verified => phone[r] \in confirmed)
    BY <1>5 DEF SaveUpdate, HandlerShape, Confirmed
  <2>2. \A p \in Phones \ {phone[r]} : otp'[p] = otp[p]
    BY <1>5, <2>1 DEF SaveUpdate, TypeOK
  <2>3. CASE otp[phone[r]].id # mine[r].id
    <3>1. otp' = otp
      BY <1>5, <2>1, <2>3 DEF SaveUpdate, TypeOK
    <3> QED BY <1>4, <1>5, <3>1 DEF SaveUpdate, Confirmed, people
  <2>4. CASE otp[phone[r]].id = mine[r].id
    <3>1. otp[phone[r]] \in OtpRow
      BY <2>1, <2>4, NoOtpHasNoId DEF TypeOK
    <3>2. otp'[phone[r]] = Updated(otp[phone[r]], mine[r], base[r])
      BY <1>5, <2>1, <2>4 DEF SaveUpdate, TypeOK
    <3>3. otp'[phone[r]].verified \in {otp[phone[r]].verified, mine[r].verified}
      BY <3>1, <3>2 DEF Updated, OtpRow
    <3>4. otp'[phone[r]].verified => phone[r] \in confirmed
      BY <2>1, <3>1, <3>3, NoOtpHasNoId DEF Confirmed
    <3>5. \A p \in Phones : otp'[p] # NoOtp /\ otp'[p].verified => p \in confirmed
      BY <2>2, <3>4 DEF Confirmed
    <3> QED BY <1>4, <1>5, <3>5 DEF SaveUpdate, people
  <2> QED BY <2>3, <2>4
<1>6. ASSUME NEW r \in Requests, SaveInsert(r)
      PROVE  Confirmed'
  <2>1. phone[r] \in Phones /\ (mine[r].verified => phone[r] \in confirmed)
    BY <1>6 DEF SaveInsert, HandlerShape, Confirmed
  <2>2. otp' = [otp EXCEPT ![phone[r]] = mine[r]]
    BY <1>6 DEF SaveInsert
  <2>3. \A p \in Phones : otp'[p] # NoOtp /\ otp'[p].verified => p \in confirmed
    BY <2>1, <2>2 DEF Confirmed, TypeOK
  <2> QED BY <1>4, <1>6, <2>3 DEF SaveInsert, people
<1>7. ASSUME NEW r \in Requests, NEW p \in Phones, Register(r, p)
      PROVE  Confirmed'
  <2>1. p \in confirmed
    BY <1>7 DEF Register, Allowed, Confirmed
  <2>2. stage'[r] = "hash" /\ phone'[r] = p /\ \A s \in Requests \ {r} :
           stage'[s] = stage[s] /\ phone'[s] = phone[s]
    BY <1>7 DEF Register, Goes, TypeOK
  <2>3. otp' = otp /\ registered' = registered /\ confirmed' = confirmed /\ mine' = mine
    BY <1>7 DEF Register, tables, history, people
  <2> QED BY <2>1, <2>2, <2>3 DEF Confirmed, RegisteredWasVerified
<1>8. ASSUME NEW r \in Requests, CreateUser(r)
      PROVE  Confirmed'
  <2>1. phone[r] \in confirmed /\ stage'[r] = "created"
    BY <1>8 DEF CreateUser, Confirmed, Goes, TypeOK
  <2>2. \A s \in Requests \ {r} : stage'[s] = stage[s] /\ registered'[s] = registered[s]
    BY <1>8 DEF CreateUser, Goes, TypeOK
  <2>3. registered'[r] = phone[r]
    BY <1>8 DEF CreateUser, TypeOK
  <2>4. otp' = otp /\ confirmed' = confirmed /\ mine' = mine /\ phone' = phone
    BY <1>8 DEF CreateUser, locals, history, people
  <2> QED BY <2>1, <2>2, <2>3, <2>4 DEF Confirmed, RegisteredWasVerified
<1>9. ASSUME NEW r \in Requests, FindUser(r) \/ CreateWallet(r)
      PROVE  Confirmed'
  <2>1. stage[r] \in {"created", "found"} /\ \A s \in Requests \ {r} : stage'[s] = stage[s]
    BY <1>9 DEF FindUser, CreateWallet, Goes, TypeOK
  <2>2. otp' = otp /\ registered' = registered /\ confirmed' = confirmed /\ mine' = mine /\ phone' = phone
    BY <1>9 DEF FindUser, CreateWallet, tables, locals, history, people
  <2>3. stage'[r] \notin {"save", "write"}
    BY <1>9 DEF FindUser, CreateWallet, Goes, TypeOK
  <2> QED BY <2>1, <2>2, <2>3 DEF Confirmed, RegisteredWasVerified
<1>10. ASSUME NEW r \in Requests, DeleteOtp(r)
       PROVE  Confirmed'
  <2>1. \A p \in Phones : otp'[p] # NoOtp /\ otp'[p].verified => p \in confirmed
    BY <1>10 DEF DeleteOtp, Confirmed, TypeOK
  <2> QED BY <1>4, <1>10, <2>1 DEF DeleteOtp, people
<1>11. ASSUME NEW r \in Requests, Throws(r)
       PROVE  Confirmed'
  BY <1>4, <1>11 DEF Throws, tables, Confirmed
<1>12. ASSUME NEW r \in Requests, NEW p \in Phones, PostUser(r, p)
       PROVE  Confirmed'
  BY <1>4, <1>12 DEF PostUser, Confirmed
<1>13. ASSUME NEW r \in Requests,
              RemoveUser(r) \/ \E p \in Phones : UpdateUser(r, p) \/ RestoreUser(r, p)
       PROVE  Confirmed'
  BY <1>13 DEF UpdateUser, RestoreUser, RemoveUser, Confirmed, RegisteredWasVerified,
               locals, history, people
<1>14. CASE UNCHANGED vars \/ \E r \in Requests : TimePasses(r)
  BY <1>14 DEF vars, TimePasses, tables, locals, history, people, Confirmed, RegisteredWasVerified
<1> QED
  BY <1>1, <1>2, <1>3, <1>5, <1>6, <1>7, <1>8, <1>9, <1>10, <1>11, <1>12, <1>13, <1>14
     DEF Next

\* Nobody registers with a phone whose code nobody has given.
THEOREM OnlyVerifiedRegister == Spec => []RegisteredWasVerified
<1>1. Init => Confirmed
  BY DEF Init, Confirmed, RegisteredWasVerified
<1>2. Confirmed => RegisteredWasVerified
  BY DEF Confirmed
<1> QED BY TypedInit, TypedStep, ConfirmedStep, <1>1, <1>2, PTL DEF Spec

-----------------------------------------------------------------------------
(***************************************************************************)
(* A user who registered has a wallet                                      *)
(***************************************************************************)

\* No two users have a phone in common.
PhonesAreUnique == \A u, v \in Requests : user[u] # Null /\ user[u] = user[v] => u = v

\* A registration goes on with its own user, unless it was displaced.
FindsItsOwn == \A r \in Requests : stage[r] = "found" => found[r] = r \/ r \in displaced

Owned == PhonesAreUnique /\ FindsItsOwn /\ WalletUnlessDisplaced

\* Whoever is written with a phone that is free keeps the phones unique.
LEMMA FreePhoneIsUnique ==
  ASSUME Typed, PhonesAreUnique, NEW u \in Requests, NEW p \in Phones, IsFree(p),
         user' = [user EXCEPT ![u] = p]
  PROVE  PhonesAreUnique'
<1>1. \A v \in Requests : user[v] # p
  BY DEF IsFree, UsersWith
<1>2. user'[u] = p /\ \A v \in Requests \ {u} : user'[v] = user[v]
  BY DEF Typed, TypeOK
<1> QED BY <1>1, <1>2 DEF PhonesAreUnique

\* Each step keeps that the phones are unique.
LEMMA UniqueStep == Typed /\ PhonesAreUnique /\ [Next]_vars => PhonesAreUnique'
<1> SUFFICES ASSUME Typed, PhonesAreUnique, [Next]_vars
             PROVE  PhonesAreUnique'
  OBVIOUS
<1>1. ASSUME NEW r \in Requests, CreateUser(r)
      PROVE  PhonesAreUnique'
  <2>1. phone[r] \in Phones
    BY <1>1 DEF CreateUser, Typed, HandlerShape
  <2> QED BY <1>1, <2>1, FreePhoneIsUnique DEF CreateUser, Writes
<1>2. ASSUME NEW r \in Requests, NEW p \in Phones,
             PostUser(r, p) \/ UpdateUser(r, p) \/ RestoreUser(r, p)
      PROVE  PhonesAreUnique'
  BY <1>2, FreePhoneIsUnique DEF PostUser, UpdateUser, RestoreUser, Writes
<1>3. ASSUME NEW r \in Requests, RemoveUser(r)
      PROVE  PhonesAreUnique'
  <2>1. user'[r] = Null /\ \A v \in Requests \ {r} : user'[v] = user[v]
    BY <1>3 DEF RemoveUser, Typed, TypeOK
  <2> QED BY <2>1 DEF PhonesAreUnique
<1>4. ASSUME user' = user
      PROVE  PhonesAreUnique'
  BY <1>4 DEF PhonesAreUnique
<1>5. CASE UNCHANGED vars
  BY <1>4, <1>5 DEF vars, tables
<1>6. ASSUME NEW r \in Requests, NEW p \in Phones,
             SendOtp(r, p) \/ ConfirmOtp(r, p) \/ Register(r, p)
      PROVE  PhonesAreUnique'
  BY <1>4, <1>6 DEF SendOtp, ConfirmOtp, Register, tables
<1>7. ASSUME NEW r \in Requests,
             \/ SaveSelect(r) \/ SaveUpdate(r) \/ SaveInsert(r) \/ FindUser(r)
             \/ CreateWallet(r) \/ DeleteOtp(r) \/ Throws(r) \/ TimePasses(r)
      PROVE  PhonesAreUnique'
  BY <1>4, <1>7 DEF SaveSelect, SaveUpdate, SaveInsert, FindUser, CreateWallet, DeleteOtp,
                    Throws, TimePasses, tables
<1> QED BY <1>1, <1>2, <1>3, <1>5, <1>6, <1>7 DEF Next

\* Each step keeps that a registration goes on with its own user: the lookup
\* finds who has the phone, and that is nobody else.
LEMMA OwnedStep == Typed /\ Owned /\ [Next]_vars => Owned'
<1> SUFFICES ASSUME Typed, Owned, [Next]_vars
             PROVE  Owned'
  OBVIOUS
<1>0. TypeOK /\ PhonesAreUnique'
  BY UniqueStep DEF Typed, Owned
<1>1. ASSUME NEW r \in Requests, stage'[r] # "found",
             \A s \in Requests \ {r} : stage'[s] = stage[s] /\ found'[s] = found[s],
             wallets \subseteq wallets', brokenOff \subseteq brokenOff', displaced' = displaced,
             \A s \in Requests \ {r} : registered'[s] = registered[s],
             \/ /\ registered'[r] = registered[r]
                /\ stage[r] \notin {"created", "found"}
             \/ r \in wallets' \cup brokenOff' \cup displaced
             \/ stage'[r] = "created"
      PROVE  Owned'
  <2>1. FindsItsOwn'
    BY <1>1 DEF Owned, FindsItsOwn
  <2>2. WalletUnlessDisplaced'
    BY <1>1 DEF Owned, WalletUnlessDisplaced
  <2> QED BY <1>0, <2>1, <2>2 DEF Owned
<1>2. ASSUME NEW r \in Requests, NEW p \in Phones,
             SendOtp(r, p) \/ ConfirmOtp(r, p) \/ Register(r, p) \/ PostUser(r, p)
      PROVE  Owned'
  <2>1. /\ stage[r] = "idle" /\ stage'[r] # "found"
        /\ \A s \in Requests \ {r} : stage'[s] = stage[s] /\ found'[s] = found[s]
        /\ wallets' = wallets /\ brokenOff' = brokenOff /\ displaced' = displaced
        /\ registered' = registered
    BY <1>0, <1>2 DEF SendOtp, ConfirmOtp, Register, PostUser, Ends, Goes, TypeOK, tables,
                      history, people
  <2> QED BY <1>1, <2>1
<1>3. ASSUME NEW r \in Requests,
             SaveSelect(r) \/ SaveUpdate(r) \/ SaveInsert(r) \/ DeleteOtp(r)
      PROVE  Owned'
  <2>1. /\ stage[r] \in {"save", "write", "wallet"} /\ stage'[r] # "found"
        /\ \A s \in Requests \ {r} : stage'[s] = stage[s] /\ found'[s] = found[s]
        /\ wallets' = wallets /\ brokenOff' = brokenOff /\ displaced' = displaced
        /\ registered' = registered
    BY <1>0, <1>3 DEF SaveSelect, SaveUpdate, SaveInsert, DeleteOtp, Ends, Goes, TypeOK, tables,
                      history, people
  <2> QED BY <1>1, <2>1
<1>4. ASSUME NEW r \in Requests, CreateUser(r)
      PROVE  Owned'
  <2>1. /\ stage'[r] = "created"
        /\ \A s \in Requests \ {r} : stage'[s] = stage[s] /\ registered'[s] = registered[s]
        /\ found' = found /\ wallets' = wallets /\ brokenOff' = brokenOff
        /\ displaced' = displaced
    BY <1>0, <1>4 DEF CreateUser, Goes, TypeOK, locals
  <2> QED BY <1>1, <2>1
<1>5. ASSUME NEW r \in Requests, FindUser(r)
      PROVE  Owned'
  <2>1. PICK u \in UsersWith(phone[r]) : found' = [found EXCEPT ![r] = u]
    BY <1>5 DEF FindUser
  <2>2. /\ u \in Requests /\ user[u] = phone[r] /\ phone[r] \in Phones
        /\ stage[r] = "created" /\ stage'[r] = "found" /\ found'[r] = u
        /\ \A s \in Requests \ {r} : stage'[s] = stage[s] /\ found'[s] = found[s]
        /\ displaced' = IF user[r] = phone[r] THEN displaced ELSE displaced \cup {r}
        /\ wallets' = wallets /\ brokenOff' = brokenOff /\ registered' = registered
    BY <1>0, <1>5, <2>1 DEF FindUser, UsersWith, Goes, TypeOK, Typed, HandlerShape, tables
  <2>3. u = r \/ r \in displaced'
    BY <2>2, NullAssumption DEF Owned, PhonesAreUnique
  <2>4. FindsItsOwn' /\ WalletUnlessDisplaced'
    BY <2>2, <2>3 DEF Owned, FindsItsOwn, WalletUnlessDisplaced
  <2> QED BY <1>0, <2>4 DEF Owned
<1>6. ASSUME NEW r \in Requests, CreateWallet(r)
      PROVE  Owned'
  <2>1. /\ stage[r] = "found" /\ stage'[r] = "wallet" /\ wallets' = wallets \cup {found[r]}
        /\ \A s \in Requests \ {r} : stage'[s] = stage[s]
        /\ found' = found /\ brokenOff' = brokenOff /\ displaced' = displaced
        /\ registered' = registered
    BY <1>0, <1>6 DEF CreateWallet, Goes, TypeOK, locals, history, people
  <2>2. found[r] = r \/ r \in displaced
    BY <2>1 DEF Owned, FindsItsOwn
  <2> QED BY <1>1, <2>1, <2>2
<1>7. ASSUME NEW r \in Requests, Throws(r)
      PROVE  Owned'
  <2>1. /\ stage'[r] = "done"
        /\ stage[r] \in {"created", "found"} => r \in brokenOff'
        /\ \A s \in Requests \ {r} : stage'[s] = stage[s] /\ found'[s] = found[s]
        /\ wallets' = wallets /\ brokenOff \subseteq brokenOff' /\ displaced' = displaced
        /\ registered' = registered
    BY <1>0, <1>7 DEF Throws, Ends, Goes, TypeOK, tables
  <2> QED BY <1>1, <2>1
<1>8. ASSUME stage' = stage, found' = found, wallets' = wallets, brokenOff' = brokenOff,
             displaced' = displaced, registered' = registered
      PROVE  Owned'
  BY <1>0, <1>8 DEF Owned, FindsItsOwn, WalletUnlessDisplaced
<1>9. ASSUME NEW r \in Requests, NEW p \in Phones,
             UpdateUser(r, p) \/ RestoreUser(r, p)
      PROVE  Owned'
  BY <1>8, <1>9 DEF UpdateUser, RestoreUser, tables, locals, history, people
<1>10. CASE UNCHANGED vars
  BY <1>8, <1>10 DEF vars, tables, locals, history, people
<1>11. ASSUME NEW r \in Requests, RemoveUser(r) \/ TimePasses(r)
       PROVE  Owned'
  BY <1>8, <1>11 DEF RemoveUser, TimePasses, tables, locals, history, people
<1> QED BY <1>2, <1>3, <1>4, <1>5, <1>6, <1>7, <1>9, <1>10, <1>11 DEF Next

\* A registration leaves its user with a wallet, unless it broke off or found that
\* the user had lost the phone.
THEOREM RegisteredHasWallet == Spec => []WalletUnlessDisplaced
<1>1. Init => Owned
  BY DEF Init, Owned, PhonesAreUnique, FindsItsOwn, WalletUnlessDisplaced
<1>2. Owned => WalletUnlessDisplaced
  BY DEF Owned
<1> QED BY TypedInit, TypedStep, OwnedStep, <1>1, <1>2, PTL DEF Spec

-----------------------------------------------------------------------------
(***************************************************************************)
(* Whom confirmOtp told that the phone is verified may register            *)
(***************************************************************************)

Over == {r \in Requests : stage[r] = "done"}

\* What a handler holds of the OTP row: a right guess, of the row that is still
\* there unless it was crossed; a new code; or a wrong guess, which leaves the
\* verification as somebody was told it is.
Copy(r) ==
  \/ /\ mine[r].until = r
     /\ mine[r].verified
     /\ r \notin crossed => otp[phone[r]].id = mine[r].id
  \/ mine[r].code = r /\ mine[r].until = Null
  \/ /\ mine[r].until # r
     /\ told[phone[r]] # Null => mine[r].verified /\ mine[r].until = told[phone[r]]

\* What save() selected is still what the row is, unless it was crossed.
Selected(r) ==
  stage[r] = "write" /\ r \notin crossed =>
    base[r] = IF otp[phone[r]].id = mine[r].id THEN otp[phone[r]] ELSE NoOtp

Holds(r) ==
  stage[r] \in {"save", "write"} =>
    /\ mine[r].until \in {r, Null} \cup Over
    /\ Copy(r)
    /\ Selected(r)

Sound(p) ==
  /\ otp[p] # NoOtp => otp[p].until \in {Null} \cup Over
  /\ told[p] # Null => otp[p] # NoOtp /\ otp[p].verified /\ otp[p].until = told[p]

Trusted == /\ \A r \in Requests : Holds(r)
           /\ \A p \in Phones : Sound(p)

\* A step that writes no OTP row, of a handler that holds none afterwards.
LEMMA TrustedElsewhere ==
  ASSUME Typed, Trusted, otp' = otp, told' = told, crossed' \subseteq crossed,
         NEW r \in Requests, crossed \subseteq crossed' \cup {r},
         stage[r] # "done", stage'[r] \notin {"save", "write"},
         \A s \in Requests \ {r} : /\ stage'[s] = stage[s] /\ phone'[s] = phone[s]
                                   /\ mine'[s] = mine[s] /\ base'[s] = base[s]
  PROVE  Trusted'
<1>1. Over \subseteq Over'
  BY DEF Over
<1>2. ASSUME NEW s \in Requests, stage'[s] \in {"save", "write"}
      PROVE  Holds(s)'
  <2>1. s # r /\ (s \in crossed' <=> s \in crossed)
    BY <1>2
  <2> QED BY <1>1, <1>2, <2>1 DEF Trusted, Holds, Copy, Selected
<1>3. \A s \in Requests : Holds(s)'
  BY <1>2 DEF Holds
<1>4. \A p \in Phones : Sound(p)'
  BY <1>1 DEF Trusted, Sound
<1> QED BY <1>3, <1>4 DEF Trusted

\* A handler that writes, or deletes, the row of its phone and is over.
LEMMA TrustedWritten ==
  ASSUME Typed, Trusted, NEW r \in Requests, stage[r] # "done", Ends(r), Crosses(r),
         phone[r] \in Phones,
         \A q \in Phones \ {phone[r]} : otp'[q] = otp[q] /\ told'[q] = told[q],
         otp'[phone[r]] # NoOtp => otp'[phone[r]].until \in {r, Null} \cup Over,
         told'[phone[r]] # Null => /\ otp'[phone[r]] # NoOtp
                                   /\ otp'[phone[r]].verified
                                   /\ otp'[phone[r]].until = told'[phone[r]],
         told'[phone[r]] \in {Null, told[phone[r]]} \/ InHand(phone[r]) = {r}
  PROVE  Trusted'
<1>1. /\ stage'[r] = "done"
      /\ \A s \in Requests \ {r} : /\ stage'[s] = stage[s] /\ phone'[s] = phone[s]
                                   /\ mine'[s] = mine[s] /\ base'[s] = base[s]
  BY DEF Ends, Goes, Typed, TypeOK
<1>2. Over' = Over \cup {r}
  BY <1>1 DEF Over
<1>3. ASSUME NEW s \in Requests, stage'[s] \in {"save", "write"}
      PROVE  Holds(s)'
  <2>1. s # r /\ phone[s] \in Phones /\ Holds(s) /\ stage[s] \in {"save", "write"}
    BY <1>1, <1>3 DEF Trusted, Typed, HandlerShape
  <2>2. CASE phone[s] = phone[r]
    <3>1. s \in InHand(phone[r]) /\ s \in crossed'
      BY <2>1, <2>2 DEF InHand, Crosses
    <3>2. told'[phone[s]] \in {Null, told[phone[s]]}
      BY <2>1, <2>2, <3>1
    <3> QED BY <1>1, <1>2, <2>1, <3>1, <3>2 DEF Holds, Copy, Selected
  <2>3. CASE phone[s] # phone[r]
    <3>1. s \in crossed' <=> s \in crossed
      BY <2>1, <2>3 DEF InHand, Crosses
    <3>2. otp'[phone[s]] = otp[phone[s]] /\ told'[phone[s]] = told[phone[s]]
      BY <2>1, <2>3
    <3> QED BY <1>1, <1>2, <2>1, <3>1, <3>2 DEF Holds, Copy, Selected
  <2> QED BY <2>2, <2>3
<1>4. ASSUME NEW p \in Phones
      PROVE  Sound(p)'
  BY <1>2 DEF Trusted, Sound
<1> QED BY <1>3, <1>4 DEF Trusted, Holds

\* At first nobody was told anything.
LEMMA TrustedInit == Init => Trusted
BY DEF Init, Trusted, Holds, Sound, NoOtp

\* Each step keeps it.
LEMMA TrustedStep == Typed /\ Trusted /\ [Next]_vars => Trusted'
<1> SUFFICES ASSUME Typed, Trusted, [Next]_vars
             PROVE  Trusted'
  OBVIOUS
<1>0. TypeOK
  BY DEF Typed
<1>1. ASSUME NEW r \in Requests, NEW p \in Phones, SendOtp(r, p) \/ ConfirmOtp(r, p)
      PROVE  Trusted'
  <2>1. /\ stage[r] = "idle" /\ stage'[r] = "save" /\ phone'[r] = p
        /\ \A s \in Requests \ {r} : stage'[s] = stage[s] /\ phone'[s] = phone[s] /\ mine'[s] = mine[s]
        /\ base' = base /\ otp' = otp /\ told' = told /\ crossed' = crossed
    BY <1>0, <1>1 DEF SendOtp, ConfirmOtp, Goes, TypeOK, tables, history, people
  <2>2. Over' = Over
    BY <2>1 DEF Over
  <2>3. mine'[r].until \in {r, Null} \cup Over /\ Copy(r)'
    <3>1. CASE SendOtp(r, p)
      <4>1. mine'[r].code = r /\ mine'[r].until = Null
        BY <1>0, <3>1 DEF SendOtp, Issued, TypeOK
      <4> QED BY <4>1 DEF Copy
    <3>2. CASE ConfirmOtp(r, p)
      <4>1. PICK isValid \in BOOLEAN : mine'[r] = Compared(otp[p], r, isValid)
        BY <1>0, <3>2 DEF ConfirmOtp, TypeOK
      <4>2. otp[p] \in OtpRow /\ otp[p] # NoOtp
        BY <1>0, <3>2 DEF ConfirmOtp, MayTry, TypeOK
      <4>3. CASE isValid
        <5>1. mine'[r].until = r /\ mine'[r].verified /\ mine'[r].id = otp[p].id
          BY <4>1, <4>2, <4>3 DEF Compared, OtpRow
        <5> QED BY <2>1, <5>1 DEF Copy
      <4>4. CASE ~isValid
        <5>1. mine'[r].until = otp[p].until /\ mine'[r].verified = otp[p].verified
          BY <4>1, <4>2, <4>4 DEF Compared, OtpRow
        <5>2. otp[p].until \in {Null} \cup Over
          BY <4>2 DEF Trusted, Sound
        <5>3. otp[p].until # r
          BY <2>1, <5>2, NullAssumption DEF Over
        <5>4. told[p] # Null => otp[p].verified /\ otp[p].until = told[p]
          BY DEF Trusted, Sound
        <5> QED BY <2>1, <5>1, <5>2, <5>3, <5>4 DEF Copy
      <4> QED BY <4>3, <4>4
    <3> QED BY <1>1, <3>1, <3>2
  <2>4. Holds(r)'
    BY <2>1, <2>2, <2>3 DEF Holds, Selected
  <2>5. \A s \in Requests \ {r} : Holds(s)'
    BY <2>1, <2>2 DEF Trusted, Holds, Copy, Selected
  <2>6. \A q \in Phones : Sound(q)'
    BY <2>1, <2>2 DEF Trusted, Sound
  <2> QED BY <2>4, <2>5, <2>6 DEF Trusted
<1>2. ASSUME NEW r \in Requests, SaveSelect(r)
      PROVE  Trusted'
  <2>1. /\ stage[r] = "save" /\ stage'[r] = "write"
        /\ base'[r] = IF otp[phone[r]].id = mine[r].id THEN otp[phone[r]] ELSE NoOtp
        /\ \A s \in Requests \ {r} : stage'[s] = stage[s] /\ base'[s] = base[s]
        /\ mine' = mine /\ phone' = phone /\ otp' = otp /\ told' = told /\ crossed' = crossed
    BY <1>0, <1>2 DEF SaveSelect, Goes, TypeOK, tables, history, people
  <2>2. Over' = Over
    BY <2>1 DEF Over
  <2>3. \A s \in Requests : Holds(s)'
    BY <2>1, <2>2 DEF Trusted, Holds, Copy, Selected
  <2>4. \A q \in Phones : Sound(q)'
    BY <2>1, <2>2 DEF Trusted, Sound
  <2> QED BY <2>3, <2>4 DEF Trusted
<1>3. ASSUME NEW r \in Requests, SaveUpdate(r)
      PROVE  Trusted'
  <2> DEFINE p == phone[r]
  <2>1. /\ stage[r] = "write" /\ base[r] # NoOtp /\ p \in Phones /\ mine[r] \in OtpRow
        /\ Holds(r) /\ Sound(p) /\ Ends(r) /\ Crosses(r) /\ Tell(r)
    BY <1>3 DEF SaveUpdate, Typed, HandlerShape, Trusted
  <2>2. \A q \in Phones \ {p} : otp'[q] = otp[q] /\ told'[q] = told[q]
    BY <1>0, <1>3, <2>1 DEF SaveUpdate, Tell, TypeOK
  <2>3. told'[p] = IF mine[r].until = r /\ InHand(p) = {r} /\ r \notin crossed THEN r
                   ELSE IF r \in {mine[r].until, mine[r].code} THEN Null ELSE told[p]
    BY <1>0, <2>1 DEF Tell, TypeOK
  <2>4. otp[p].id # mine[r].id => otp'[p] = otp[p]
    BY <1>0, <1>3, <2>1 DEF SaveUpdate, TypeOK
  <2>5. ASSUME otp[p].id = mine[r].id
        PROVE  /\ otp[p] \in OtpRow /\ otp'[p] \in OtpRow
               /\ otp'[p].verified =
                    IF mine[r].verified # base[r].verified THEN mine[r].verified ELSE otp[p].verified
               /\ otp'[p].until =
                    IF mine[r].until # base[r].until THEN mine[r].until ELSE otp[p].until
    <3>1. otp[p] \in OtpRow
      BY <1>0, <2>1, <2>5, NoOtpHasNoId DEF TypeOK
    <3>2. otp'[p] = Updated(otp[p], mine[r], base[r])
      BY <1>0, <1>3, <2>1, <2>5 DEF SaveUpdate, TypeOK
    <3>3. otp'[p] \in OtpRow
      BY <2>1, <3>1, <3>2, UpdatedType
    <3> QED BY <3>1, <3>2, <3>3 DEF Updated, OtpRow
  <2>6. otp'[p] # NoOtp => otp'[p].until \in {r, Null} \cup Over
    BY <2>1, <2>4, <2>5, NoOtpHasNoId DEF Holds, Sound
  <2>7. ASSUME told'[p] # Null
        PROVE  otp'[p] # NoOtp /\ otp'[p].verified /\ otp'[p].until = told'[p]
    <3>1. CASE mine[r].until = r /\ InHand(p) = {r} /\ r \notin crossed
      <4>1. mine[r].verified /\ otp[p].id = mine[r].id
        BY <2>1, <3>1, NullAssumption DEF Holds, Copy
      <4>2. base[r] = otp[p]
        BY <2>1, <3>1, <4>1 DEF Holds, Selected
      <4> QED BY <2>3, <2>5, <3>1, <4>1, <4>2, NoOtpHasNoId
    <3>2. CASE ~(mine[r].until = r /\ InHand(p) = {r} /\ r \notin crossed)
      <4>1. told'[p] = told[p] /\ told[p] # Null /\ r # mine[r].until /\ r # mine[r].code
        BY <2>3, <2>7, <3>2
      <4>2. mine[r].verified /\ mine[r].until = told[p]
        BY <2>1, <4>1 DEF Holds, Copy
      <4>3. otp[p] # NoOtp /\ otp[p].verified /\ otp[p].until = told[p]
        BY <2>1, <4>1 DEF Sound
      <4> QED BY <2>4, <2>5, <4>1, <4>2, <4>3, NoOtpHasNoId
    <3> QED BY <3>1, <3>2
  <2>8. told'[p] \in {Null, told[p]} \/ InHand(p) = {r}
    BY <2>3
  <2> QED BY <2>1, <2>2, <2>6, <2>7, <2>8, TrustedWritten
<1>4. ASSUME NEW r \in Requests, SaveInsert(r)
      PROVE  Trusted'
  <2> DEFINE p == phone[r]
  <2>1. /\ stage[r] = "write" /\ base[r] = NoOtp /\ otp[p] = NoOtp /\ p \in Phones
        /\ mine[r] \in OtpRow /\ Holds(r) /\ Sound(p) /\ Ends(r) /\ Crosses(r) /\ Tell(r)
    BY <1>4 DEF SaveInsert, Typed, HandlerShape, Trusted
  <2>2. \A q \in Phones \ {p} : otp'[q] = otp[q] /\ told'[q] = told[q]
    BY <1>0, <1>4, <2>1 DEF SaveInsert, Tell, TypeOK
  <2>3. otp'[p] = mine[r]
    BY <1>0, <1>4, <2>1 DEF SaveInsert, TypeOK
  <2>4. told[p] = Null /\ otp[p].id # mine[r].id
    BY <2>1, NoOtpHasNoId DEF Sound
  <2>5. told'[p] = Null
    <3>1. mine[r].until = r => r \in crossed
      BY <2>1, <2>4, NullAssumption DEF Holds, Copy
    <3> QED BY <1>0, <2>1, <2>4, <3>1 DEF Tell, TypeOK
  <2> QED BY <2>1, <2>2, <2>3, <2>5, TrustedWritten DEF Holds
<1>5. ASSUME NEW r \in Requests, DeleteOtp(r)
      PROVE  Trusted'
  <2>1. stage[r] = "wallet" /\ phone[r] \in Phones /\ Ends(r) /\ Crosses(r)
    BY <1>5 DEF DeleteOtp, Typed, HandlerShape
  <2>2. /\ \A q \in Phones \ {phone[r]} : otp'[q] = otp[q] /\ told'[q] = told[q]
        /\ otp'[phone[r]] = NoOtp /\ told'[phone[r]] = Null
    BY <1>0, <1>5, <2>1 DEF DeleteOtp, TypeOK
  <2> QED BY <2>1, <2>2, TrustedWritten
<1>6. ASSUME NEW r \in Requests,
             \/ \E p \in Phones : Register(r, p) \/ PostUser(r, p)
             \/ CreateUser(r) \/ FindUser(r) \/ CreateWallet(r) \/ Throws(r)
      PROVE  Trusted'
  <2>1. /\ otp' = otp /\ told' = told /\ crossed' \subseteq crossed /\ crossed \subseteq crossed' \cup {r}
    BY <1>6 DEF Register, PostUser, CreateUser, FindUser, CreateWallet, Throws, tables, history, people
  <2>2. /\ stage[r] # "done" /\ stage'[r] \notin {"save", "write"}
        /\ \A s \in Requests \ {r} : /\ stage'[s] = stage[s] /\ phone'[s] = phone[s]
                                     /\ mine'[s] = mine[s] /\ base'[s] = base[s]
    BY <1>0, <1>6 DEF Register, PostUser, CreateUser, FindUser, CreateWallet, Throws, Ends, Goes,
                      TypeOK, locals
  <2> QED BY <2>1, <2>2, TrustedElsewhere
<1>7. CASE \/ UNCHANGED vars
           \/ \E r \in Requests :
                \/ RemoveUser(r) \/ TimePasses(r)
                \/ \E p \in Phones : UpdateUser(r, p) \/ RestoreUser(r, p)
  <2>1. /\ otp' = otp /\ told' = told /\ crossed' = crossed /\ stage' = stage
        /\ phone' = phone /\ mine' = mine /\ base' = base
    BY <1>7 DEF vars, RemoveUser, UpdateUser, RestoreUser, TimePasses, tables, locals, history, people
  <2>2. Over' = Over
    BY <2>1 DEF Over
  <2> QED BY <2>1, <2>2 DEF Trusted, Holds, Copy, Selected, Sound
<1> QED BY <1>1, <1>2, <1>3, <1>4, <1>5, <1>6, <1>7 DEF Next

\* Whom confirmOtp told that the phone is verified may register, until the window
\* ends or a new code is sent, unless a handler that held the row was crossed.
THEOREM VerificationHolds == Spec => []VerifiedMayRegister
<1>1. Typed /\ Trusted => VerifiedMayRegister
  BY NullAssumption DEF Typed, TypeOK, Trusted, Sound, VerifiedMayRegister, Allowed
<1> QED BY TypedInit, TypedStep, TrustedInit, TrustedStep, <1>1, PTL DEF Spec
=============================================================================
