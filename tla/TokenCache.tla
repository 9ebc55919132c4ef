----------------------------- MODULE TokenCache -----------------------------
(***************************************************************************)
(* Transfers through Jibit: each sends an order with an access token that  *)
(* the process keeps in memory, and asks Jibit for another when that one   *)
(* is missing or about to expire.  Callers do not wait for each other, and *)
(* answers come late, or never.                                            *)
(*                                                                         *)
(* A caller of Callers is one transfer.  It asks for two tokens at most:   *)
(* <<caller, "refresh">> and <<caller, "generate">>.                       *)
(***************************************************************************)
EXTENDS Integers

CONSTANTS
  Callers,
  Answered,   \* those of whom no call stays without an answer or an error
  Null,
  Lifetime,   \* TEN_HOURS_MS, of a token from its issue
  Margin,     \* 5 * 60 * 1000
  Horizon     \* the bound of time

ASSUME TimesAssumption ==
  /\ {Lifetime, Margin, Horizon} \subseteq Nat
  /\ Margin < Lifetime
  /\ Answered \subseteq Callers

Tokens == Callers \X {"refresh", "generate"}

ASSUME NullAssumption == Null \notin Tokens \cup Nat

VARIABLES
  now,
  \* the process
  accessToken,
  refreshToken,
  expiresAt,
  stage,        \* what a caller awaits
  bearer,       \* the token of its order
  sentAt,
  \* Jibit
  issuedAt,     \* token |-> Null, or when
  \* history
  arrivedAt,    \* token |-> Null, or when its answer came
  refusedAt,    \* caller |-> Null, or when its order was refused: the token had expired
  outage,       \* callers of whom a call failed otherwise
  fetched,      \* tokens that came since the process started
  overtaken     \* <<caller, token>>: it came while the caller was asking

cache == <<accessToken, refreshToken, expiresAt>>
order == <<bearer, sentAt>>
history == <<arrivedAt, refusedAt, outage, fetched, overtaken>>
vars == <<now, cache, stage, order, issuedAt, history>>

Asking == {"refresh", "generate"}
Over == {"done", "unsent"}

Init ==
  /\ now = 0
  /\ accessToken = Null
  /\ refreshToken = Null
  /\ expiresAt = Null
  /\ stage = [c \in Callers |-> "idle"]
  /\ bearer = [c \in Callers |-> Null]
  /\ sentAt = [c \in Callers |-> Null]
  /\ issuedAt = [t \in Tokens |-> Null]
  /\ arrivedAt = [t \in Tokens |-> Null]
  /\ refusedAt = [c \in Callers |-> Null]
  /\ outage = {}
  /\ fetched = {}
  /\ overtaken = {}

Goes(c, next) == stage' = [stage EXCEPT ![c] = next]

Tick ==
  /\ now < Horizon
  /\ now' = now + 1
  /\ UNCHANGED <<cache, stage, order, issuedAt, history>>

-----------------------------------------------------------------------------
(***************************************************************************)
(* getValidAccessToken                                                     *)
(***************************************************************************)

ExpiredWithoutMargin == expiresAt = Null \/ now >= expiresAt   \* mutant
IsExpired == expiresAt = Null \/ now >= expiresAt - Margin

Valid == accessToken # Null /\ ~IsExpired

\* transfer posts the order with the token it was given.
Sends(c, token) ==
  /\ bearer' = [bearer EXCEPT ![c] = token]
  /\ sentAt' = [sentAt EXCEPT ![c] = now]
  /\ Goes(c, "order")

UseCached(c) ==
  /\ stage[c] = "idle"
  /\ Valid
  /\ Sends(c, accessToken)
  /\ UNCHANGED <<now, cache, issuedAt, history>>

\* A refresh, or a new token when there is nothing to refresh.
Ask(c) ==
  /\ stage[c] = "idle"
  /\ ~Valid
  /\ Goes(c, IF refreshToken # Null THEN "refresh" ELSE "generate")
  /\ UNCHANGED <<now, cache, order, issuedAt, history>>

\* Jibit issues the token; the answer is on its way, or is lost.
Issue(c) ==
  /\ stage[c] \in Asking
  /\ issuedAt[<<c, stage[c]>>] = Null
  /\ issuedAt' = [issuedAt EXCEPT ![<<c, stage[c]>>] = now]
  /\ UNCHANGED <<now, cache, stage, order, history>>

OnlyFirst == IF expiresAt = Null THEN now + Lifetime ELSE expiresAt  \* mutant
ExpiryFromNow == now + Lifetime

ReadBefore(c) == accessToken                     \* mutant: the token as it was
Returned(c) == <<c, stage[c]>>

\* setTokenData, and the order: between them are only promises that are settled, so
\* nothing else runs.
TokenArrives(c) ==
  LET t == <<c, stage[c]>> IN
  /\ stage[c] \in Asking
  /\ issuedAt[t] # Null
  /\ accessToken' = t
  /\ refreshToken' = t
  /\ expiresAt' = ExpiryFromNow
  /\ arrivedAt' = [arrivedAt EXCEPT ![t] = now]
  /\ fetched' = fetched \cup {t}
  /\ overtaken' = overtaken \cup {<<d, t>> : d \in {e \in Callers : stage[e] \in Asking}}
  /\ Sends(c, Returned(c))
  /\ UNCHANGED <<now, issuedAt, refusedAt, outage>>

Rethrows(c) == "unsent"                          \* mutant: no catch
RetriedForEver(c) == stage[c]                    \* mutant: the same call again
\* After a refresh that failed, for whatever reason, a token is generated; after a
\* generation that failed the transfer throws.
AfterFailure(c) == IF stage[c] = "refresh" THEN "generate" ELSE "unsent"

\* Jibit does not accept the refresh token: another caller has used it up, say.
RefreshRefused(c) ==
  /\ stage[c] = "refresh"
  /\ issuedAt[<<c, "refresh">>] = Null
  /\ Goes(c, AfterFailure(c))
  /\ UNCHANGED <<now, cache, order, issuedAt, history>>

CallFails(c) ==
  /\ stage[c] \in Asking
  /\ Goes(c, AfterFailure(c))
  /\ outage' = outage \cup {c}
  /\ UNCHANGED <<now, cache, order, issuedAt, arrivedAt, refusedAt, fetched, overtaken>>

-----------------------------------------------------------------------------
(***************************************************************************)
(* The order                                                               *)
(***************************************************************************)

Expired(t) == now >= issuedAt[t] + Lifetime

\* Jibit takes the order, or refuses it for another reason, or the call fails.
OrderTaken(c) ==
  /\ stage[c] = "order"
  /\ ~Expired(bearer[c])
  /\ Goes(c, "done")
  /\ bearer' = [bearer EXCEPT ![c] = Null]
  /\ sentAt' = [sentAt EXCEPT ![c] = Null]
  /\ UNCHANGED <<now, cache, issuedAt, history>>

OrderRefused(c) ==
  /\ stage[c] = "order"
  /\ Expired(bearer[c])
  /\ Goes(c, "done")
  /\ refusedAt' = [refusedAt EXCEPT ![c] = now]
  /\ UNCHANGED <<now, cache, order, issuedAt, arrivedAt, outage, fetched, overtaken>>

\* The process starts again: its memory is empty, and nobody waits any more.
Restart ==
  /\ accessToken' = Null
  /\ refreshToken' = Null
  /\ expiresAt' = Null
  /\ stage' = [c \in Callers |-> IF stage[c] \in Asking \cup {"order"} THEN "done" ELSE stage[c]]
  /\ fetched' = {}
  /\ overtaken' = {}
  /\ UNCHANGED <<now, order, issuedAt, arrivedAt, refusedAt, outage>>

-----------------------------------------------------------------------------
\* What Jibit's answer, or the loss of it, makes of a caller.
Outcome(c) ==
  \/ TokenArrives(c)
  \/ RefreshRefused(c)
  \/ CallFails(c)
  \/ OrderTaken(c)
  \/ OrderRefused(c)

Next ==
  \/ Tick
  \/ Restart
  \/ \E c \in Callers : UseCached(c) \/ Ask(c) \/ Issue(c) \/ Outcome(c)

Spec == Init /\ [][Next]_vars

\* The calls have no timeout: they end for those that get an answer, and nothing is
\* said of the others.
FairSpec == Spec /\ \A c \in Answered : WF_vars(Outcome(c))

-----------------------------------------------------------------------------
(***************************************************************************)
(* Properties                                                              *)
(***************************************************************************)

\* Variables keep their types, and an order has a token that came from Jibit.
TypeOK ==
  /\ now \in 0..Horizon
  /\ {accessToken, refreshToken} \subseteq Tokens \cup {Null}
  /\ expiresAt \in Nat \cup {Null}
  /\ stage \in [Callers -> Asking \cup Over \cup {"idle", "order"}]
  /\ bearer \in [Callers -> Tokens \cup {Null}]
  /\ sentAt \in [Callers -> Nat \cup {Null}]
  /\ issuedAt \in [Tokens -> Nat \cup {Null}]
  /\ arrivedAt \in [Tokens -> Nat \cup {Null}]
  /\ refusedAt \in [Callers -> Nat \cup {Null}]
  /\ outage \subseteq Callers
  /\ fetched \subseteq Tokens
  /\ overtaken \subseteq Callers \X Tokens
  /\ \A c \in Callers : stage[c] = "order" => bearer[c] # Null /\ arrivedAt[bearer[c]] # Null

\* An order is refused for an expired token only if the answer that brought the token
\* and the order itself were on their way for longer than the margin, although several
\* callers replace the token, in any order, and its expiry is counted from its arrival.
RefusedOnlyWhenSlow ==
  \A c \in Callers :
    refusedAt[c] # Null =>
      (refusedAt[c] - sentAt[c]) + (arrivedAt[bearer[c]] - issuedAt[bearer[c]]) > Margin

\* No call for a token begins, be it the one after a refresh that failed, while a
\* token that came since the start is good for longer than the margin, whichever came
\* last: unless that one came while the caller was asking already.
AsksOnlyWhenDue ==
  [][\A c \in Callers, t \in fetched :
       stage'[c] # stage[c] /\ stage'[c] \in Asking /\ <<c, t>> \notin overtaken =>
         now >= arrivedAt[t] + Lifetime - Margin]_vars

\* A transfer is given up only after a call that failed: a refresh token that Jibit no
\* longer accepts stops nobody.
GivenUpOnlyInOutage == \A c \in Callers : stage[c] = "unsent" => c \in outage

\* A transfer whose calls are answered ends, though others hang for ever.
TransferEnds == \A c \in Answered : stage[c] \in Asking \cup {"order"} ~> stage[c] \in Over
=============================================================================
