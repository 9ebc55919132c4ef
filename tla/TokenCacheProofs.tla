--------------------------- MODULE TokenCacheProofs ---------------------------
(***************************************************************************)
(* Theorems about TokenCache, for any number of transfers, any lifetime of *)
(* a token and any margin below it.                                        *)
(***************************************************************************)
EXTENDS TokenCache, TLAPS

-----------------------------------------------------------------------------
(***************************************************************************)
(* The invariant                                                           *)
(***************************************************************************)

\* Tokens are issued before they arrive, and both before now.
Clocked ==
  \A t \in Tokens :
    /\ issuedAt[t] # Null => issuedAt[t] <= now
    /\ arrivedAt[t] # Null => issuedAt[t] # Null /\ issuedAt[t] <= arrivedAt[t] /\ arrivedAt[t] <= now

\* The process has the token that came last, and knows its expiry.
Cached ==
  /\ accessToken = Null => fetched = {}
  /\ accessToken # Null => /\ arrivedAt[accessToken] # Null
                           /\ expiresAt = arrivedAt[accessToken] + Lifetime
  /\ \A t \in fetched : arrivedAt[t] # Null /\ expiresAt # Null /\ expiresAt >= arrivedAt[t] + Lifetime

\* An order left with a token that was not due, at a time.
Left(c) ==
  /\ bearer[c] # Null /\ sentAt[c] # Null
  /\ arrivedAt[bearer[c]] # Null
  /\ sentAt[c] < arrivedAt[bearer[c]] + Lifetime - Margin

\* An order that was refused stays as it was.
Ended(c) ==
  /\ stage[c] = "done" /\ Left(c)
  /\ (refusedAt[c] - sentAt[c]) + (arrivedAt[bearer[c]] - issuedAt[bearer[c]]) > Margin

Callings ==
  \A c \in Callers :
    /\ stage[c] = "order" => Left(c)
    /\ refusedAt[c] # Null => Ended(c)
    /\ stage[c] = "unsent" => c \in outage

Inv == TypeOK /\ Clocked /\ Cached /\ Callings

\* A token that had come when a caller began to ask was due then, and still is.
Known ==
  \A c \in Callers, t \in fetched :
    stage[c] \in Asking /\ <<c, t>> \notin overtaken => now >= arrivedAt[t] + Lifetime - Margin

-----------------------------------------------------------------------------
(***************************************************************************)
(* Steps                                                                   *)
(***************************************************************************)

\* The numbers.
LEMMA Times ==
  /\ Lifetime \in Nat /\ Margin \in Nat /\ Horizon \in Nat /\ Margin < Lifetime
  /\ Null \notin Nat /\ Null \notin Tokens
BY TimesAssumption, NullAssumption

\* The two tokens of a caller.
LEMMA TokensType == \A c \in Callers, k \in Asking : <<c, k>> \in Tokens
BY DEF Tokens, Asking

LEMMA InvInit == Init => Inv
<1> SUFFICES ASSUME Init PROVE Inv
  OBVIOUS
<1>1. TypeOK
  BY Times DEF Init, TypeOK, Asking, Over
<1>2. Clocked /\ Cached /\ Callings
  BY Times DEF Init, Clocked, Cached, Callings
<1> QED BY <1>1, <1>2 DEF Inv

\* A step that moves one caller on, to something else than an order or "unsent", and
\* leaves what the others know.
LEMMA CallerMoves ==
  ASSUME Inv, NEW c \in Callers, NEW next \in Asking \cup Over, Goes(c, next),
         stage[c] # "done", next = "unsent" => c \in outage',
         UNCHANGED <<now, cache, issuedAt, arrivedAt, fetched, overtaken, order>>,
         outage \subseteq outage', outage' \subseteq Callers,
         refusedAt' = refusedAt
  PROVE  Inv'
<1>1. /\ stage' = [stage EXCEPT ![c] = next] /\ TypeOK /\ Clocked /\ Cached /\ Callings
      /\ now' = now /\ accessToken' = accessToken /\ refreshToken' = refreshToken
      /\ expiresAt' = expiresAt /\ issuedAt' = issuedAt /\ arrivedAt' = arrivedAt
      /\ fetched' = fetched /\ overtaken' = overtaken /\ bearer' = bearer /\ sentAt' = sentAt
  BY DEF Goes, Inv, cache, order
<1>2. stage'[c] = next /\ \A d \in Callers \ {c} : stage'[d] = stage[d]
  BY <1>1 DEF TypeOK
<1>3. next # "order"
  BY DEF Asking, Over
<1>4. TypeOK'
  BY <1>1, <1>2, <1>3 DEF TypeOK
<1>5. Clocked' /\ Cached'
  BY <1>1 DEF Clocked, Cached
<1>6. ASSUME NEW d \in Callers
      PROVE  /\ stage'[d] = "order" => Left(d)'
             /\ refusedAt'[d] # Null => Ended(d)'
             /\ stage'[d] = "unsent" => d \in outage'
  <2>1. CASE d = c
    BY <1>1, <1>2, <1>3, <2>1 DEF Callings, Ended
  <2>2. CASE d # c
    <3>1. stage'[d] = stage[d]
      BY <1>2, <2>2
    <3>2. Left(d)' <=> Left(d)
      BY <1>1 DEF Left
    <3>3. Ended(d)' <=> Ended(d)
      BY <1>1, <3>1, <3>2 DEF Ended
    <3> QED BY <1>1, <3>1, <3>2, <3>3 DEF Callings
  <2> QED BY <2>1, <2>2
<1> QED BY <1>4, <1>5, <1>6 DEF Inv, Callings

\* A caller sends its order with a token that is not due, while a token may arrive.
LEMMA OrderLeaves ==
  ASSUME Inv, NEW c \in Callers, NEW token \in Tokens, Sends(c, token), stage[c] \in {"idle"} \cup Asking,
         UNCHANGED <<now, issuedAt, refusedAt, outage>>, TypeOK',
         \A t \in Tokens : arrivedAt[t] # Null => arrivedAt'[t] # Null /\ arrivedAt'[t] >= arrivedAt[t],
         arrivedAt'[token] # Null, now < arrivedAt'[token] + Lifetime - Margin
  PROVE  Callings'
<1>1. /\ TypeOK /\ Clocked /\ Callings /\ now' = now /\ issuedAt' = issuedAt
      /\ refusedAt' = refusedAt /\ outage' = outage
  BY DEF Inv
<1>2. /\ stage'[c] = "order" /\ bearer'[c] = token /\ sentAt'[c] = now
      /\ \A d \in Callers \ {c} : stage'[d] = stage[d] /\ bearer'[d] = bearer[d] /\ sentAt'[d] = sentAt[d]
  BY <1>1 DEF TypeOK, Sends, Goes
<1>3. now \in Nat
  BY <1>1, Times DEF TypeOK
<1> SUFFICES ASSUME NEW d \in Callers
             PROVE  /\ stage'[d] = "order" => Left(d)'
                    /\ refusedAt'[d] # Null => Ended(d)'
                    /\ stage'[d] = "unsent" => d \in outage'
  BY DEF Callings
<1>4. CASE d = c
  <2>1. refusedAt[c] = Null
    BY <1>1 DEF Callings, Ended, Asking
  <2>2. Left(c)'
    BY <1>2, <1>3, Times DEF Left
  <2> QED BY <1>1, <1>2, <1>4, <2>1, <2>2
<1>5. CASE d # c
  <2>1. stage'[d] = stage[d] /\ bearer'[d] = bearer[d] /\ sentAt'[d] = sentAt[d]
    BY <1>2, <1>5
  <2>2. ASSUME Left(d)
        PROVE  /\ Left(d)' /\ bearer[d] \in Tokens /\ sentAt[d] \in Nat /\ arrivedAt[bearer[d]] \in Nat
               /\ arrivedAt'[bearer[d]] \in Nat /\ arrivedAt'[bearer[d]] >= arrivedAt[bearer[d]]
    <3>1. bearer[d] \in Tokens /\ sentAt[d] \in Nat
      BY <1>1, <2>2 DEF TypeOK, Left
    <3>2. arrivedAt[bearer[d]] \in Nat /\ arrivedAt'[bearer[d]] # Null
          /\ arrivedAt'[bearer[d]] >= arrivedAt[bearer[d]]
      BY <1>1, <2>2, <3>1 DEF TypeOK, Left
    <3>3. arrivedAt'[bearer[d]] \in Nat
      BY <3>1, <3>2 DEF TypeOK
    <3> QED BY <2>1, <2>2, <3>1, <3>2, <3>3, Times DEF Left
  <2>3. ASSUME refusedAt[d] # Null
        PROVE  Ended(d)'
    <3>1. Ended(d) /\ Left(d) /\ refusedAt[d] \in Nat
      BY <1>1, <2>3 DEF Callings, Ended, TypeOK
    <3>2. issuedAt[bearer[d]] \in Nat
      BY <1>1, <2>2, <3>1 DEF Clocked, Left, TypeOK
    <3>3. (refusedAt'[d] - sentAt'[d]) + (arrivedAt'[bearer'[d]] - issuedAt'[bearer'[d]]) > Margin
      BY <1>1, <2>1, <2>2, <3>1, <3>2, Times DEF Ended
    <3> QED BY <1>1, <2>1, <2>2, <3>1, <3>3 DEF Ended
  <2> QED BY <1>1, <2>1, <2>2, <2>3 DEF Callings
<1> QED BY <1>4, <1>5

\* Each step keeps the invariant.
LEMMA InvStep == Inv /\ [Next]_vars => Inv'
<1> SUFFICES ASSUME Inv, [Next]_vars
             PROVE  Inv'
  OBVIOUS
<1>0. TypeOK /\ Clocked /\ Cached /\ Callings
  BY DEF Inv
<1>n. now \in Nat
  BY <1>0, Times DEF TypeOK
<1>1. CASE Tick
  <2>1. /\ now' = now + 1 /\ now' <= Horizon
        /\ accessToken' = accessToken /\ refreshToken' = refreshToken
        /\ expiresAt' = expiresAt /\ issuedAt' = issuedAt /\ arrivedAt' = arrivedAt
        /\ fetched' = fetched /\ overtaken' = overtaken /\ bearer' = bearer /\ sentAt' = sentAt
        /\ stage' = stage /\ refusedAt' = refusedAt /\ outage' = outage
    BY <1>1, <1>n, Times DEF Tick, cache, order, history
  <2>2. TypeOK'
    BY <1>0, <1>n, <2>1, Times DEF TypeOK
  <2>3. Clocked'
    <3> SUFFICES ASSUME NEW t \in Tokens
                 PROVE  /\ issuedAt[t] # Null => issuedAt[t] <= now + 1
                        /\ arrivedAt[t] # Null =>
                             issuedAt[t] # Null /\ issuedAt[t] <= arrivedAt[t] /\ arrivedAt[t] <= now + 1
      BY <2>1 DEF Clocked
    <3>1. issuedAt[t] \in Nat \cup {Null} /\ arrivedAt[t] \in Nat \cup {Null}
      BY <1>0 DEF TypeOK
    <3> QED BY <1>0, <1>n, <3>1 DEF Clocked
  <2>4. Cached' /\ Callings'
    BY <1>0, <2>1 DEF Cached, Callings, Ended, Left
  <2> QED BY <2>2, <2>3, <2>4 DEF Inv
<1>2. CASE Restart
  <2>1. /\ now' = now /\ accessToken' = Null /\ refreshToken' = Null /\ expiresAt' = Null
        /\ issuedAt' = issuedAt /\ arrivedAt' = arrivedAt /\ fetched' = {} /\ overtaken' = {}
        /\ bearer' = bearer /\ sentAt' = sentAt /\ refusedAt' = refusedAt /\ outage' = outage
        /\ stage' = [c \in Callers |-> IF stage[c] \in Asking \cup {"order"} THEN "done" ELSE stage[c]]
    BY <1>2 DEF Restart, order
  <2>2. \A c \in Callers : /\ stage'[c] # "order"
                           /\ stage[c] = "done" => stage'[c] = "done"
                           /\ stage'[c] = "unsent" => stage[c] = "unsent"
    BY <2>1 DEF Asking
  <2>3. TypeOK'
    BY <1>0, <2>1, <2>2 DEF TypeOK, Over
  <2>4. Clocked' /\ Cached'
    BY <1>0, <2>1 DEF Clocked, Cached
  <2>5. Callings'
    BY <1>0, <2>1, <2>2 DEF Callings, Ended, Left
  <2> QED BY <2>3, <2>4, <2>5 DEF Inv
<1>3. ASSUME NEW c \in Callers, UseCached(c)
      PROVE  Inv'
  <2>1. /\ stage[c] = "idle" /\ accessToken # Null /\ expiresAt # Null /\ ~(now >= expiresAt - Margin)
        /\ Sends(c, accessToken)
        /\ now' = now /\ accessToken' = accessToken /\ refreshToken' = refreshToken
        /\ expiresAt' = expiresAt /\ issuedAt' = issuedAt /\ arrivedAt' = arrivedAt
        /\ fetched' = fetched /\ overtaken' = overtaken /\ refusedAt' = refusedAt /\ outage' = outage
    BY <1>3 DEF UseCached, Valid, IsExpired, cache, history
  <2>2. accessToken \in Tokens /\ arrivedAt[accessToken] \in Nat
    BY <1>0, <2>1 DEF TypeOK, Cached
  <2>3. now < arrivedAt[accessToken] + Lifetime - Margin
    BY <1>0, <1>n, <2>1, <2>2, Times DEF Cached
  <2>4. TypeOK'
    BY <1>0, <1>n, <2>1, <2>2, Times DEF TypeOK, Sends, Goes
  <2>5. Clocked' /\ Cached'
    BY <1>0, <2>1 DEF Clocked, Cached
  <2>6. \A t \in Tokens : arrivedAt[t] # Null => arrivedAt'[t] # Null /\ arrivedAt'[t] >= arrivedAt[t]
    BY <1>0, <2>1 DEF TypeOK
  <2>7. Callings'
    BY <2>1, <2>2, <2>3, <2>4, <2>6, OrderLeaves, Times
  <2> QED BY <2>4, <2>5, <2>7 DEF Inv
<1>4. ASSUME NEW c \in Callers, Ask(c)
      PROVE  Inv'
  <2>1. PICK next \in Asking : Goes(c, next)
    BY <1>4 DEF Ask, Asking
  <2>2. stage[c] = "idle" /\ UNCHANGED <<now, cache, order, issuedAt, history>>
    BY <1>4 DEF Ask
  <2>3. next # "unsent"
    BY DEF Asking
  <2> QED BY <1>0, <2>1, <2>2, <2>3, CallerMoves DEF history, TypeOK
<1>5. ASSUME NEW c \in Callers, Issue(c)
      PROVE  Inv'
  <2> DEFINE t == <<c, stage[c]>>
  <2>1. /\ t \in Tokens /\ issuedAt[t] = Null /\ issuedAt' = [issuedAt EXCEPT ![t] = now]
        /\ now' = now /\ accessToken' = accessToken /\ refreshToken' = refreshToken
        /\ expiresAt' = expiresAt /\ arrivedAt' = arrivedAt
        /\ fetched' = fetched /\ overtaken' = overtaken /\ bearer' = bearer /\ sentAt' = sentAt
        /\ stage' = stage /\ refusedAt' = refusedAt /\ outage' = outage
    BY <1>5, TokensType DEF Issue, cache, order, history
  <2> HIDE DEF t
  <2>2. issuedAt'[t] = now /\ \A s \in Tokens \ {t} : issuedAt'[s] = issuedAt[s]
    BY <1>0, <2>1 DEF TypeOK
  <2>3. arrivedAt[t] = Null
    BY <1>0, <2>1 DEF Clocked
  <2>4. TypeOK'
    BY <1>0, <1>n, <2>1 DEF TypeOK
  <2>5. Clocked'
    BY <1>0, <1>n, <2>1, <2>2, <2>3 DEF Clocked
  <2>6. Cached'
    BY <1>0, <2>1 DEF Cached
  <2>7. ASSUME NEW d \in Callers, Left(d)
        PROVE  Left(d)' /\ issuedAt'[bearer[d]] = issuedAt[bearer[d]]
    <3>1. bearer[d] \in Tokens \ {t}
      BY <1>0, <2>3, <2>7 DEF Left, TypeOK
    <3> QED BY <2>1, <2>2, <2>7, <3>1 DEF Left
  <2>8. Callings'
    BY <1>0, <2>1, <2>7 DEF Callings, Ended
  <2> QED BY <2>4, <2>5, <2>6, <2>8 DEF Inv
<1>6. ASSUME NEW c \in Callers, TokenArrives(c)
      PROVE  Inv'
  <2> DEFINE t == <<c, stage[c]>>
  <2>1. /\ stage[c] \in Asking /\ t \in Tokens /\ issuedAt[t] # Null
        /\ arrivedAt' = [arrivedAt EXCEPT ![t] = now]
        /\ accessToken' = t /\ refreshToken' = t /\ expiresAt' = now + Lifetime
        /\ fetched' = fetched \cup {t}
        /\ overtaken' = overtaken \cup {<<d, t>> : d \in {e \in Callers : stage[e] \in Asking}}
        /\ Sends(c, t) /\ now' = now /\ issuedAt' = issuedAt /\ refusedAt' = refusedAt /\ outage' = outage
    BY <1>6, TokensType DEF TokenArrives, Returned, ExpiryFromNow
  <2> HIDE DEF t
  <2>2. arrivedAt'[t] = now /\ \A s \in Tokens \ {t} : arrivedAt'[s] = arrivedAt[s]
    BY <1>0, <2>1 DEF TypeOK
  <2>3. TypeOK'
    <3>1. /\ stage' \in [Callers -> Asking \cup Over \cup {"idle", "order"}]
          /\ bearer' \in [Callers -> Tokens \cup {Null}]
          /\ sentAt' \in [Callers -> Nat \cup {Null}]
          /\ arrivedAt' \in [Tokens -> Nat \cup {Null}]
          /\ expiresAt' \in Nat \cup {Null}
      BY <1>0, <1>n, <2>1, Times DEF TypeOK, Sends, Goes
    <3>2. ASSUME NEW d \in Callers, stage'[d] = "order"
          PROVE  bearer'[d] # Null /\ arrivedAt'[bearer'[d]] # Null
      <4>1. CASE d = c
        BY <1>0, <1>n, <2>1, <2>2, <4>1, Times DEF TypeOK, Sends
      <4>2. CASE d # c
        <5>1. stage[d] = "order" /\ bearer'[d] = bearer[d]
          BY <1>0, <2>1, <3>2, <4>2 DEF TypeOK, Sends, Goes
        <5>2. bearer[d] \in Tokens /\ arrivedAt[bearer[d]] # Null
          BY <1>0, <5>1 DEF TypeOK
        <5> QED BY <1>n, <2>2, <5>1, <5>2, Times
      <4> QED BY <4>1, <4>2
    <3>3. fetched' \subseteq Tokens /\ {accessToken', refreshToken'} \subseteq Tokens \cup {Null}
      BY <1>0, <2>1 DEF TypeOK
    <3>4. overtaken' \subseteq Callers \X Tokens
      BY <1>0, <2>1 DEF TypeOK
    <3> QED BY <1>0, <2>1, <3>1, <3>2, <3>3, <3>4 DEF TypeOK
  <2>4. Clocked'
    <3> SUFFICES ASSUME NEW s \in Tokens
                 PROVE  /\ issuedAt[s] # Null => issuedAt[s] <= now
                        /\ arrivedAt'[s] # Null =>
                             issuedAt[s] # Null /\ issuedAt[s] <= arrivedAt'[s] /\ arrivedAt'[s] <= now
      BY <2>1 DEF Clocked
    <3> QED BY <1>0, <1>n, <2>1, <2>2 DEF Clocked
  <2>5. Cached'
    <3>1. accessToken' # Null /\ arrivedAt'[accessToken'] # Null
          /\ expiresAt' = arrivedAt'[accessToken'] + Lifetime
      BY <1>n, <2>1, <2>2, Times
    <3>2. ASSUME NEW s \in fetched'
          PROVE  arrivedAt'[s] # Null /\ expiresAt' # Null /\ expiresAt' >= arrivedAt'[s] + Lifetime
      <4>1. expiresAt' \in Nat
        BY <1>n, <2>1, Times
      <4>2. CASE s = t
        BY <1>n, <2>1, <2>2, <4>1, <4>2, Times
      <4>3. CASE s # t
        <5>1. s \in fetched /\ s \in Tokens
          BY <1>0, <2>1, <4>3 DEF TypeOK
        <5>2. arrivedAt'[s] = arrivedAt[s] /\ arrivedAt[s] \in Nat /\ arrivedAt[s] <= now
          BY <1>0, <2>2, <4>3, <5>1 DEF Cached, Clocked, TypeOK
        <5> QED BY <1>n, <2>1, <4>1, <5>2, Times
      <4> QED BY <4>2, <4>3
    <3> QED BY <3>1, <3>2 DEF Cached
  <2>6. \A s \in Tokens : arrivedAt[s] # Null => arrivedAt'[s] # Null /\ arrivedAt'[s] >= arrivedAt[s]
    <3> SUFFICES ASSUME NEW s \in Tokens, arrivedAt[s] # Null
                 PROVE  arrivedAt'[s] # Null /\ arrivedAt'[s] >= arrivedAt[s]
      OBVIOUS
    <3>1. arrivedAt[s] \in Nat /\ arrivedAt[s] <= now
      BY <1>0 DEF TypeOK, Clocked
    <3> QED BY <1>n, <2>2, <3>1, Times
  <2>7. arrivedAt'[t] # Null /\ now < arrivedAt'[t] + Lifetime - Margin
    BY <1>n, <2>2, Times
  <2>8. Callings'
    BY <2>1, <2>3, <2>6, <2>7, OrderLeaves
  <2> QED BY <2>3, <2>4, <2>5, <2>8 DEF Inv
<1>7. ASSUME NEW c \in Callers, RefreshRefused(c)
      PROVE  Inv'
  <2>1. /\ stage[c] = "refresh" /\ Goes(c, "generate")
        /\ UNCHANGED <<now, cache, order, issuedAt, history>>
    BY <1>7 DEF RefreshRefused, AfterFailure
  <2> QED BY <1>0, <2>1, CallerMoves DEF history, TypeOK, Asking
<1>8. ASSUME NEW c \in Callers, CallFails(c)
      PROVE  Inv'
  <2>1. PICK next \in {"generate", "unsent"} : Goes(c, next)
    BY <1>8 DEF CallFails, AfterFailure
  <2>2. /\ stage[c] \in Asking /\ outage' = outage \cup {c}
        /\ UNCHANGED <<now, cache, order, issuedAt, arrivedAt, refusedAt, fetched, overtaken>>
    BY <1>8 DEF CallFails
  <2>3. stage[c] # "done" /\ next \in Asking \cup Over
    BY <2>2 DEF Asking, Over
  <2>4. outage \subseteq outage' /\ outage' \subseteq Callers /\ c \in outage'
    BY <1>0, <2>2 DEF TypeOK
  <2> QED BY <2>1, <2>2, <2>3, <2>4, CallerMoves
<1>9. ASSUME NEW c \in Callers, OrderTaken(c) \/ OrderRefused(c)
      PROVE  Inv'
  <2>1. /\ stage[c] = "order" /\ Goes(c, "done")
        /\ now' = now /\ accessToken' = accessToken /\ refreshToken' = refreshToken
        /\ expiresAt' = expiresAt /\ issuedAt' = issuedAt /\ arrivedAt' = arrivedAt
        /\ fetched' = fetched /\ overtaken' = overtaken /\ outage' = outage
        /\ \A d \in Callers \ {c} : bearer'[d] = bearer[d] /\ sentAt'[d] = sentAt[d] /\ refusedAt'[d] = refusedAt[d]
    BY <1>0, <1>9 DEF OrderTaken, OrderRefused, cache, order, history, TypeOK
  <2>2. stage'[c] = "done" /\ \A d \in Callers \ {c} : stage'[d] = stage[d]
    BY <1>0, <2>1 DEF Goes, TypeOK
  <2>3. /\ stage' \in [Callers -> Asking \cup Over \cup {"idle", "order"}]
        /\ bearer' \in [Callers -> Tokens \cup {Null}]
        /\ sentAt' \in [Callers -> Nat \cup {Null}]
        /\ refusedAt' \in [Callers -> Nat \cup {Null}]
    BY <1>0, <1>9, <1>n, <2>1 DEF TypeOK, Goes, Over, OrderTaken, OrderRefused, order, history
  <2>4. TypeOK'
    BY <1>0, <2>1, <2>2, <2>3 DEF TypeOK
  <2>5. Clocked' /\ Cached'
    BY <1>0, <2>1 DEF Clocked, Cached
  <2>6. refusedAt'[c] # Null => Ended(c)'
    <3>1. CASE OrderTaken(c)
      BY <1>0, <2>1, <3>1 DEF OrderTaken, history, Callings, Ended
    <3>2. CASE OrderRefused(c)
      <4>1. /\ Left(c) /\ bearer' = bearer /\ sentAt' = sentAt /\ refusedAt'[c] = now
            /\ now >= issuedAt[bearer[c]] + Lifetime
        BY <1>0, <2>1, <3>2 DEF OrderRefused, Callings, Expired, order, TypeOK
      <4>2. /\ bearer[c] \in Tokens /\ sentAt[c] \in Nat /\ arrivedAt[bearer[c]] \in Nat
            /\ sentAt[c] < arrivedAt[bearer[c]] + Lifetime - Margin
        BY <1>0, <4>1 DEF Left, TypeOK
      <4>3. issuedAt[bearer[c]] \in Nat
        BY <1>0, <4>2, Times DEF Clocked, TypeOK
      <4>4. (now - sentAt[c]) + (arrivedAt[bearer[c]] - issuedAt[bearer[c]]) > Margin
        BY <1>n, <4>1, <4>2, <4>3, Times
      <4>5. Left(c)'
        BY <2>1, <4>1 DEF Left
      <4> QED BY <2>1, <2>2, <4>1, <4>4, <4>5 DEF Ended
    <3> QED BY <1>9, <3>1, <3>2
  <2>7. ASSUME NEW d \in Callers
        PROVE  /\ stage'[d] = "order" => Left(d)'
               /\ refusedAt'[d] # Null => Ended(d)'
               /\ stage'[d] = "unsent" => d \in outage'
    <3>1. CASE d = c
      BY <2>2, <2>6, <3>1
    <3>2. CASE d # c
      BY <1>0, <2>1, <2>2, <3>2 DEF Callings, Ended, Left
    <3> QED BY <3>1, <3>2
  <2> QED BY <2>4, <2>5, <2>7 DEF Inv, Callings
<1>10. CASE UNCHANGED vars
  BY <1>0, <1>10 DEF vars, cache, order, history, Inv, TypeOK, Clocked, Cached, Callings, Ended, Left
<1> QED
  BY <1>1, <1>2, <1>3, <1>4, <1>5, <1>6, <1>7, <1>8, <1>9, <1>10 DEF Next, Outcome

\* While the process has no valid token, those that came since its start are due.
LEMMA DueWhenInvalid ==
  ASSUME Inv, ~Valid, NEW t \in fetched
  PROVE  now >= arrivedAt[t] + Lifetime - Margin
<1>0. TypeOK /\ Cached
  BY DEF Inv
<1>1. /\ accessToken # Null /\ expiresAt # Null /\ expiresAt \in Nat /\ arrivedAt[t] \in Nat
      /\ expiresAt >= arrivedAt[t] + Lifetime
  BY <1>0 DEF Cached, TypeOK
<1>2. now \in Nat /\ now >= expiresAt - Margin
  BY <1>0, <1>1, Times DEF Valid, IsExpired, TypeOK
<1> QED BY <1>1, <1>2, Times

\* What a caller knows stays due: time goes on, and a token that comes overtakes all who ask.
LEMMA KnownStep == Inv /\ Known /\ [Next]_vars => Known'
<1> SUFFICES ASSUME Inv, Known, [Next]_vars
             PROVE  Known'
  OBVIOUS
<1>0. /\ TypeOK /\ Cached
      /\ now \in Nat /\ \A t \in fetched : t \in Tokens /\ arrivedAt[t] \in Nat
  BY Times DEF Inv, TypeOK, Cached
\* A step of a caller that begins no call, and by which no token comes.
<1>1. ASSUME NEW c \in Callers, NEW next, Goes(c, next), next \in Asking => stage[c] \in Asking,
             UNCHANGED <<now, arrivedAt, fetched, overtaken>>
      PROVE  Known'
  BY <1>0, <1>1 DEF Known, Goes, TypeOK
<1>2. CASE Tick
  BY <1>0, <1>2, Times DEF Tick, Known, history
<1>3. CASE Restart
  BY <1>3 DEF Restart, Known
<1>4. ASSUME NEW c \in Callers, UseCached(c)
      PROVE  Known'
  BY <1>1, <1>4 DEF UseCached, Sends, history, Asking
<1>5. ASSUME NEW c \in Callers, Ask(c)
      PROVE  Known'
  BY <1>0, <1>5, DueWhenInvalid DEF Ask, Goes, Known, TypeOK, history
<1>6. CASE UNCHANGED <<now, stage, arrivedAt, fetched, overtaken>>
  BY <1>6 DEF Known
<1>7. ASSUME NEW c \in Callers, TokenArrives(c)
      PROVE  Known'
  <2> DEFINE t == <<c, stage[c]>>
  <2>1. /\ t \in Tokens /\ arrivedAt' = [arrivedAt EXCEPT ![t] = now]
        /\ fetched' = fetched \cup {t} /\ now' = now /\ Goes(c, "order")
        /\ overtaken' = overtaken \cup {<<d, t>> : d \in {e \in Callers : stage[e] \in Asking}}
    BY <1>7, TokensType DEF TokenArrives, Sends
  <2> HIDE DEF t
  <2> SUFFICES ASSUME NEW d \in Callers, NEW s \in fetched', stage'[d] \in Asking, <<d, s>> \notin overtaken'
               PROVE  now >= arrivedAt'[s] + Lifetime - Margin
    BY <2>1 DEF Known
  <2>2. stage[d] \in Asking
    BY <1>0, <2>1 DEF Goes, TypeOK, Asking
  <2>3. s # t /\ s \in fetched /\ <<d, s>> \notin overtaken
    BY <2>1, <2>2
  <2>4. arrivedAt'[s] = arrivedAt[s]
    BY <1>0, <2>1, <2>3 DEF TypeOK
  <2> QED BY <2>2, <2>3, <2>4 DEF Known
<1>8. ASSUME NEW c \in Callers, RefreshRefused(c) \/ CallFails(c)
      PROVE  Known'
  <2>1. stage[c] \in Asking /\ Goes(c, AfterFailure(c)) /\ UNCHANGED <<now, arrivedAt, fetched, overtaken>>
    BY <1>8 DEF RefreshRefused, CallFails, history, Asking
  <2> QED BY <1>1, <2>1
<1>9. ASSUME NEW c \in Callers, OrderTaken(c) \/ OrderRefused(c)
      PROVE  Known'
  BY <1>1, <1>9 DEF OrderTaken, OrderRefused, history, Asking
<1> QED
  BY <1>2, <1>3, <1>4, <1>5, <1>6, <1>7, <1>8, <1>9 DEF Next, Outcome, Issue, vars, history

-----------------------------------------------------------------------------
(***************************************************************************)
(* Theorems                                                                *)
(***************************************************************************)

\* The invariant holds of every behaviour, fair or not.
LEMMA InvHolds == Spec => []Inv
BY InvInit, InvStep, PTL DEF Spec

\* Every variable keeps its type.
THEOREM TransfersTyped == Spec => []TypeOK
<1>1. Inv => TypeOK
  BY DEF Inv
<1> QED BY InvHolds, <1>1, PTL

\* The margin pays for the time that answers and orders take: an order is refused for
\* its token only if they took longer.
THEOREM MarginSuffices == Spec => []RefusedOnlyWhenSlow
<1>1. Inv => RefusedOnlyWhenSlow
  BY DEF Inv, Callings, Ended, RefusedOnlyWhenSlow
<1> QED BY InvHolds, <1>1, PTL

\* A transfer is given up only after a failed call.
THEOREM OutageOnly == Spec => []GivenUpOnlyInOutage
<1>1. Inv => GivenUpOnlyInOutage
  BY DEF Inv, Callings, GivenUpOnlyInOutage
<1> QED BY InvHolds, <1>1, PTL

\* No call for a token begins, the one after a failed refresh included, while a token
\* that came since the start is good, unless it came while the caller was asking.
THEOREM AskedWhenDue == Spec => AsksOnlyWhenDue
<1>1. Init => Known
  BY DEF Init, Known
<1>2. Spec => []Known
  BY <1>1, InvHolds, KnownStep, PTL DEF Spec
<1>3. ASSUME Inv, [Next]_vars, Known', NEW c \in Callers, NEW t \in fetched,
             stage'[c] # stage[c], stage'[c] \in Asking, <<c, t>> \notin overtaken
      PROVE  now >= arrivedAt[t] + Lifetime - Margin
  <2>0. TypeOK
    BY <1>3 DEF Inv
  <2>1. ASSUME NEW d \in Callers, NEW next, next \notin Asking, Goes(d, next)
        PROVE  FALSE
    BY <1>3, <2>0, <2>1 DEF Goes, TypeOK
  <2>2. ~Restart /\ ~Tick /\ vars' # vars
    BY <1>3 DEF Restart, Tick, Asking, vars
  <2>3. PICK d \in Callers : UseCached(d) \/ Ask(d) \/ Issue(d) \/ Outcome(d)
    BY <1>3, <2>2 DEF Next
  <2>4. ~Issue(d)
    BY <1>3 DEF Issue
  <2>5. ~UseCached(d) /\ ~TokenArrives(d) /\ ~OrderTaken(d) /\ ~OrderRefused(d)
    BY <2>1 DEF UseCached, TokenArrives, OrderTaken, OrderRefused, Sends, Asking
  <2>6. UNCHANGED <<now, arrivedAt, fetched, overtaken>>
    BY <2>3, <2>4, <2>5 DEF Outcome, Ask, RefreshRefused, CallFails, history
  <2> QED BY <1>3, <2>6 DEF Known
<1>4. Inv /\ Known' /\ [Next]_vars =>
        [\A c \in Callers, t \in fetched :
           stage'[c] # stage[c] /\ stage'[c] \in Asking /\ <<c, t>> \notin overtaken =>
             now >= arrivedAt[t] + Lifetime - Margin]_vars
  BY <1>3
<1> QED BY <1>2, <1>4, InvHolds, PTL DEF Spec, AsksOnlyWhenDue
=============================================================================
