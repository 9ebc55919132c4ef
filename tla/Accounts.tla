------------------------------ MODULE Accounts ------------------------------
(***************************************************************************)
(* Registration: the one-time password of a phone number, the user, the    *)
(* user's wallet.  Each handler is cut at its awaits, and none of them     *)
(* locks what it has read.                                                 *)
(*                                                                         *)
(* A request of Requests is used once.  It also stands for what it makes:  *)
(* the id of a row, a code with its expiresAt, a registerAllowedUntil.     *)
(***************************************************************************)
EXTENDS Naturals

CONSTANTS
  Phones,
  Requests,
  MaxAttempts,  \* MAX_ATTEMPTS
  Null

ASSUME AttemptsAssumption == MaxAttempts \in Nat
ASSUME NullAssumption == Null \notin Phones \cup Requests

VARIABLES
  user,       \* phones of the rows of users, by id
  wallets,    \* userIds of the rows of wallets
  otp,        \* rows of phone_otps, by phone
  late,       \* codes that have expired, registration windows that are over
  stage,      \* what a handler awaits
  phone,      \* its payload's phone
  mine,       \* the row of phone_otps it is going to save
  base,       \* the one save() has selected to compare it with
  found,      \* the user a registration makes a wallet for
  \* history
  had,        \* <<user, phone>>: a row that somebody may have read
  registered, \* the phone a registration created its user with
  displaced,  \* registrations that did not find their user at that phone
  confirmed,  \* phones whose code somebody gave
  brokenOff,  \* registrations that threw after they had created the user
  told,       \* whom confirmOtp told last that the phone is verified, unless crossed
  crossed     \* handlers during which another one wrote the OTP row they have in hand

tables == <<user, wallets, otp>>
locals == <<phone, mine, base, found>>
people == <<had, registered, displaced, brokenOff>>
history == <<people, confirmed, told, crossed>>
vars == <<tables, late, stage, locals, history>>

-----------------------------------------------------------------------------
(***************************************************************************)
(* Rows                                                                    *)
(***************************************************************************)

OtpRow == [id : Requests,                       \* the request that inserted it
           code : Requests,                     \* codeHash and expiresAt
           attempts : 0 .. MaxAttempts,
           verified : BOOLEAN,                  \* isVerified
           until : Requests \cup {Null}]        \* registerAllowedUntil

NoOtp == [id |-> Null]

UsersWith(p) == {u \in Requests : user[u] = p}
AnyPhone(p) == TRUE                              \* mutant: a column that is not unique
IsFree(p) == UsersWith(p) = {}

Init ==
  /\ user = [r \in Requests |-> Null]
  /\ wallets = {}
  /\ otp = [p \in Phones |-> NoOtp]
  /\ late = {}
  /\ stage = [r \in Requests |-> "idle"]
  /\ phone = [r \in Requests |-> Null]
  /\ mine = [r \in Requests |-> NoOtp]
  /\ base = [r \in Requests |-> NoOtp]
  /\ found = [r \in Requests |-> Null]
  /\ had = {}
  /\ registered = [r \in Requests |-> Null]
  /\ displaced = {}
  /\ confirmed = {}
  /\ brokenOff = {}
  /\ told = [p \in Phones |-> Null]
  /\ crossed = {}

\* The row of u has the phone p from now on.
Writes(u, p) ==
  /\ user' = [user EXCEPT ![u] = p]
  /\ had' = had \cup {<<u, p>>}

Goes(r, next) == stage' = [stage EXCEPT ![r] = next]

\* The handler is over, and its variables are gone.
Ends(r) ==
  /\ Goes(r, "done")
  /\ phone' = [phone EXCEPT ![r] = Null]
  /\ mine' = [mine EXCEPT ![r] = NoOtp]
  /\ base' = [base EXCEPT ![r] = NoOtp]
  /\ found' = [found EXCEPT ![r] = Null]

-----------------------------------------------------------------------------
(***************************************************************************)
(* One-time passwords                                                      *)
(***************************************************************************)

\* issueOtp writes every column of the row it was given, or of a new one.
Issued(row, r) ==
  [id |-> IF row = NoOtp THEN r ELSE row.id,
   code |-> r, attempts |-> 0, verified |-> FALSE, until |-> Null]

\* sendOtp and resendOtp, up to the save.  The throttle may refuse it: then it
\* has done nothing.
SendOtp(r, p) ==
  /\ stage[r] = "idle"
  /\ phone' = [phone EXCEPT ![r] = p]
  /\ mine' = [mine EXCEPT ![r] = Issued(otp[p], r)]
  /\ Goes(r, "save")
  /\ UNCHANGED <<tables, late, base, found, history>>

\* What confirmOtp makes of the row, once the code is compared.
Unverifies(row, r, isValid) ==                   \* mutant: a wrong code closes the window
  IF isValid
  THEN [row EXCEPT !.verified = TRUE, !.attempts = 0, !.until = r]
  ELSE [row EXCEPT !.attempts = @ + 1, !.verified = FALSE]
FallsThrough(row, r, isValid) ==                 \* mutant: no throw after a wrong code
  [row EXCEPT !.verified = TRUE, !.attempts = 0, !.until = r]
Compared(row, r, isValid) ==
  IF isValid
  THEN [row EXCEPT !.verified = TRUE, !.attempts = 0, !.until = r]
  ELSE [row EXCEPT !.attempts = @ + 1]

OnceTooOften(row) ==                             \* mutant: > for >=
  row # NoOtp /\ row.attempts <= MaxAttempts /\ row.code \notin late
MayTry(row) ==
  row # NoOtp /\ row.attempts < MaxAttempts /\ row.code \notin late

\* confirmOtp, up to the save.
ConfirmOtp(r, p) ==
  /\ stage[r] = "idle"
  /\ MayTry(otp[p])
  /\ \E isValid \in BOOLEAN :
       /\ mine' = [mine EXCEPT ![r] = Compared(otp[p], r, isValid)]
       /\ confirmed' = IF isValid THEN confirmed \cup {p} ELSE confirmed
  /\ phone' = [phone EXCEPT ![r] = p]
  /\ Goes(r, "save")
  /\ UNCHANGED <<tables, late, base, found, people, told, crossed>>

\* save() selects the row by its id ...
SaveSelect(r) ==
  LET row == otp[phone[r]]
  IN  /\ stage[r] = "save"
      /\ base' = [base EXCEPT ![r] = IF row.id = mine[r].id THEN row ELSE NoOtp]
      /\ Goes(r, "write")
      /\ UNCHANGED <<tables, late, phone, mine, found, history>>

\* ... and updates the columns that differ from what it selected.
Updated(row, new, old) ==
  [row EXCEPT !.code = IF new.code # old.code THEN new.code ELSE @,
              !.attempts = IF new.attempts # old.attempts THEN new.attempts ELSE @,
              !.verified = IF new.verified # old.verified THEN new.verified ELSE @,
              !.until = IF new.until # old.until THEN new.until ELSE @]

InHand(p) == {s \in Requests : stage[s] \in {"save", "write"} /\ phone[s] = p}
Crosses(r) == crossed' = (crossed \cup InHand(phone[r])) \ {r}

\* The answer: verified by this request, or waiting for a new code.
Tell(r) ==
  told' = [told EXCEPT ![phone[r]] =
             IF mine[r].until = r /\ InHand(phone[r]) = {r} /\ r \notin crossed THEN r
             ELSE IF r \in {mine[r].until, mine[r].code} THEN Null ELSE @]

\* A row deleted after the SELECT takes no update, which is no error.
SaveUpdate(r) ==
  LET row == otp[phone[r]]
  IN  /\ stage[r] = "write"
      /\ base[r] # NoOtp
      /\ otp' = [otp EXCEPT ![phone[r]] =
                   IF row.id = mine[r].id THEN Updated(row, mine[r], base[r]) ELSE row]
      /\ Tell(r)
      /\ Crosses(r)
      /\ Ends(r)
      /\ UNCHANGED <<user, wallets, late, people, confirmed>>

\* No row of that id: it is inserted, one that has been deleted too.  The phone
\* is unique.
SaveInsert(r) ==
  /\ stage[r] = "write"
  /\ base[r] = NoOtp
  /\ otp[phone[r]] = NoOtp
  /\ otp' = [otp EXCEPT ![phone[r]] = mine[r]]
  /\ Tell(r)
  /\ Crosses(r)
  /\ Ends(r)
  /\ UNCHANGED <<user, wallets, late, people, confirmed>>

-----------------------------------------------------------------------------
(***************************************************************************)
(* Registration                                                            *)
(***************************************************************************)

Allowed(row) ==
  /\ row # NoOtp
  /\ row.verified
  /\ row.until # Null
  /\ row.until \notin late

\* register, up to bcrypt.hash.
Register(r, p) ==
  /\ stage[r] = "idle"
  /\ Allowed(otp[p])
  /\ phone' = [phone EXCEPT ![r] = p]
  /\ Goes(r, "hash")
  /\ UNCHANGED <<tables, late, mine, base, found, history>>

\* A phone that is taken is refused, by the check or by the unique column.
CreateUser(r) ==
  /\ stage[r] = "hash"
  /\ IsFree(phone[r])
  /\ Writes(r, phone[r])
  /\ registered' = [registered EXCEPT ![r] = phone[r]]
  /\ Goes(r, "created")
  /\ UNCHANGED <<wallets, otp, late, locals, displaced, brokenOff, confirmed, told, crossed>>

\* The user is looked up by the phone, and may be another one by then.
FindUser(r) ==
  /\ stage[r] = "created"
  /\ \E u \in UsersWith(phone[r]) : found' = [found EXCEPT ![r] = u]
  /\ displaced' = IF user[r] = phone[r] THEN displaced ELSE displaced \cup {r}
  /\ Goes(r, "found")
  /\ UNCHANGED <<tables, late, phone, mine, base, had, registered, brokenOff, confirmed, told, crossed>>

\* createForUser: userId is unique, and refers to no table.
CreateWallet(r) ==
  /\ stage[r] = "found"
  /\ found[r] \notin wallets
  /\ wallets' = wallets \cup {found[r]}
  /\ Goes(r, "wallet")
  /\ UNCHANGED <<user, otp, late, locals, history>>

DeleteOtp(r) ==
  /\ stage[r] = "wallet"
  /\ otp' = [otp EXCEPT ![phone[r]] = NoOtp]
  /\ told' = [told EXCEPT ![phone[r]] = Null]
  /\ Crosses(r)
  /\ Ends(r)
  /\ UNCHANGED <<user, wallets, late, people, confirmed>>

\* A statement fails, a unique column refuses a row, a user is not found, or
\* the process dies.
Throws(r) ==
  /\ stage[r] \notin {"idle", "done"}
  /\ brokenOff' = IF stage[r] \in {"created", "found"} THEN brokenOff \cup {r} ELSE brokenOff
  /\ Ends(r)
  /\ crossed' = crossed \ {r}
  /\ UNCHANGED <<tables, late, had, registered, displaced, confirmed, told>>

-----------------------------------------------------------------------------
(***************************************************************************)
(* POST, PUT and DELETE /users, and time                                   *)
(***************************************************************************)

PostUser(r, p) ==
  /\ stage[r] = "idle"
  /\ IsFree(p)
  /\ Writes(r, p)
  /\ Ends(r)
  /\ UNCHANGED <<wallets, otp, late, registered, displaced, brokenOff, confirmed, told, crossed>>

\* update: nobody confirms the new phone.  A phone that is taken is refused, by
\* the check or by the unique column.
UpdateUser(u, p) ==
  /\ user[u] \notin {Null, p}
  /\ IsFree(p)
  /\ Writes(u, p)
  /\ UNCHANGED <<wallets, otp, late, stage, locals, registered, displaced, brokenOff,
                 confirmed, told, crossed>>

\* The wallet stays.
RemoveUser(u) ==
  /\ user[u] # Null
  /\ user' = [user EXCEPT ![u] = Null]
  /\ UNCHANGED <<wallets, otp, late, stage, locals, history>>

\* save() of a user a link of friends had read before the removal.
RestoreUser(u, p) ==
  /\ user[u] = Null
  /\ <<u, p>> \in had
  /\ IsFree(p)
  /\ user' = [user EXCEPT ![u] = p]
  /\ UNCHANGED <<wallets, otp, late, stage, locals, history>>

\* Two minutes after it was sent, or ten after it was confirmed.
TimePasses(r) ==
  /\ r \notin late
  /\ stage[r] # "idle"
  /\ late' = late \cup {r}
  /\ UNCHANGED <<tables, stage, locals, history>>

Next ==
  \E r \in Requests :
    \/ \E p \in Phones : \/ SendOtp(r, p)
                         \/ ConfirmOtp(r, p)
                         \/ Register(r, p)
                         \/ PostUser(r, p)
                         \/ UpdateUser(r, p)
                         \/ RestoreUser(r, p)
    \/ SaveSelect(r)
    \/ SaveUpdate(r)
    \/ SaveInsert(r)
    \/ CreateUser(r)
    \/ FindUser(r)
    \/ CreateWallet(r)
    \/ DeleteOtp(r)
    \/ Throws(r)
    \/ RemoveUser(r)
    \/ TimePasses(r)

Spec == Init /\ [][Next]_vars

-----------------------------------------------------------------------------
(***************************************************************************)
(* Properties                                                              *)
(***************************************************************************)

\* Every column and local variable keeps its type.
TypeOK ==
  /\ user \in [Requests -> Phones \cup {Null}]
  /\ wallets \subseteq Requests
  /\ otp \in [Phones -> OtpRow \cup {NoOtp}]
  /\ late \subseteq Requests
  /\ stage \in [Requests -> {"idle", "save", "write", "hash", "created", "found", "wallet", "done"}]
  /\ phone \in [Requests -> Phones \cup {Null}]
  /\ mine \in [Requests -> OtpRow \cup {NoOtp}]
  /\ base \in [Requests -> OtpRow \cup {NoOtp}]
  /\ found \in [Requests -> Requests \cup {Null}]
  /\ had \subseteq Requests \X Phones
  /\ registered \in [Requests -> Phones \cup {Null}]
  /\ displaced \subseteq Requests
  /\ confirmed \subseteq Phones
  /\ brokenOff \subseteq Requests
  /\ told \in [Phones -> Requests \cup {Null}]
  /\ crossed \subseteq Requests

\* Nobody registers with a phone whose code nobody has given, although the
\* handlers write back rows they read long before, deleted ones included.
RegisteredWasVerified ==
  \A u \in Requests : registered[u] # Null => registered[u] \in confirmed

\* A registration that has created its user leaves it with a wallet, unless it is
\* not over or broke off, or had to look for the user by a phone that PUT or DELETE
\* had taken from it before, and others have now.
WalletUnlessDisplaced ==
  \A u \in Requests :
    registered[u] # Null =>
      u \in wallets \cup brokenOff \cup displaced \/ stage[u] \in {"created", "found"}

\* Whom confirmOtp told that the phone is verified is not turned away by register
\* for a phone that is not, before the window ends or a new code is sent: unless
\* somebody wrote the row while this handler had it in hand, or the other way round.
VerifiedMayRegister ==
  \A p \in Phones :
    told[p] \notin late \cup {Null} => Allowed(otp[p])
=============================================================================
