--------------------------- MODULE GroupBillsProofs ---------------------------
(***************************************************************************)
(* Theorems about GroupBills, for any users, groups and batches, any       *)
(* number of requests, and any amounts.                                    *)
(***************************************************************************)
EXTENDS GroupBills, SequenceTheorems, TLAPS

-----------------------------------------------------------------------------
(***************************************************************************)
(* Shares                                                                  *)
(***************************************************************************)

\* A list of debtors has a length, and users in its positions.
LEMMA DebtorsType ==
  ASSUME NEW ds \in Debtors
  PROVE  /\ Len(ds) \in 1..MaxDebtors /\ DOMAIN ds = 1..Len(ds)
         /\ \A i \in DOMAIN ds : ds[i] \in Users
<1>1. PICK n \in 1..MaxDebtors : ds \in [1..n -> Users]
  BY DEF Debtors
<1>2. n \in Nat /\ n # 0
  BY SplitAssumption
<1>3. ds \in Seq(Users)
  BY <1>1, <1>2, SeqDef
<1>4. Len(ds) = n
  BY <1>1, <1>2, <1>3, LenProperties
<1> QED BY <1>1, <1>4

\* What rounding a division to the nearest makes: shares of a total that are off by
\* at most a half each, and none of a total that is large enough is zero.
LEMMA Rounding ==
  ASSUME NEW t \in Nat, NEW n \in Nat, n > 0
  PROVE  LET s == (2 * t + n) \div (2 * n)
         IN s \in Nat /\ 2 * (n * s - t) <= n /\ -2 * (n * s - t) <= n /\ (2 * t >= n => s > 0)
<1> DEFINE a == 2 * t + n
           k == 2 * n
           s == a \div k
<1>1. a \in Nat /\ k \in Nat /\ k > 0
  OBVIOUS
<1>2. s \in Nat /\ k * s <= a /\ a < k * s + k
  <2> HIDE DEF a, k
  <2> QED BY <1>1 DEF s
<1>3. k * s = 2 * (n * s)
  BY <1>2
<1>4. 2 * t >= n => a >= k
  OBVIOUS
<1>5. s = 0 => k * s = 0
  OBVIOUS
<1> HIDE DEF s
<1>6. n * s \in Nat
  BY <1>2
<1>7. 2 * (n * s - t) <= n /\ -2 * (n * s - t) <= n /\ (2 * t >= n => s > 0)
  <2> DEFINE x == n * s
  <2>1. 2 * x <= a /\ a < 2 * x + k /\ x \in Nat
    BY <1>2, <1>3, <1>6
  <2> HIDE DEF x
  <2>2. 2 * (x - t) <= n /\ -2 * (x - t) <= n
    BY <2>1
  <2>3. 2 * t >= n => s > 0
    BY <1>2, <1>4, <1>5
  <2> QED BY <2>2, <2>3 DEF x
<1> QED BY <1>2, <1>7 DEF s

\* Two multiples that differ differ by the unit at least.
LEMMA Multiples ==
  ASSUME NEW u \in Nat, u > 0, NEW x \in Nat, NEW y \in Nat, x % u = 0, y % u = 0, x < y
  PROVE  y - x >= u
<1> DEFINE p == x \div u
           q == y \div u
<1>1. p \in Nat /\ q \in Nat /\ x = u * p /\ y = u * q
  OBVIOUS
<1> HIDE DEF p, q
<1>2. p < q
  <2>1. ASSUME p >= q PROVE u * p >= u * q
    BY <1>1, <2>1
  <2> QED BY <1>1, <2>1
<1>3. u * q >= u * (p + 1)
  BY <1>1, <1>2
<1>4. u * (p + 1) = u * p + u
  BY <1>1
<1> QED BY <1>1, <1>3, <1>4

\* The sum of two multiples is one.
LEMMA SumOfMultiples ==
  ASSUME NEW u \in Nat, u > 0, NEW x \in Nat, NEW y \in Nat, x % u = 0, y % u = 0
  PROVE  (x + y) % u = 0
<1> DEFINE p == x \div u
           q == y \div u
<1>1. p \in Nat /\ q \in Nat /\ x = u * p /\ y = u * q
  OBVIOUS
<1> HIDE DEF p, q
<1>2. x + y = u * (p + q)
  BY <1>1
<1>3. (u * (p + q)) % u = 0
  BY <1>1
<1> QED BY <1>2, <1>3

\* What a request that splits is made of.
LEMMA SplitType ==
  ASSUME NEW asked \in Split
  PROVE  /\ Share(asked) \in Nat /\ Share(asked) > 0
         /\ Len(asked.debtors) \in 1..MaxDebtors /\ DOMAIN asked.debtors = 1..Len(asked.debtors)
         /\ \A i \in DOMAIN asked.debtors : asked.debtors[i] \in Users
         /\ 2 * (Len(asked.debtors) * Share(asked) - asked.total) <= Len(asked.debtors)
         /\ -2 * (Len(asked.debtors) * Share(asked) - asked.total) <= Len(asked.debtors)
<1>1. asked.debtors \in Debtors /\ asked.total \in Totals
  BY DEF Split
<1>2. /\ Len(asked.debtors) \in 1..MaxDebtors /\ DOMAIN asked.debtors = 1..Len(asked.debtors)
      /\ \A i \in DOMAIN asked.debtors : asked.debtors[i] \in Users
  BY <1>1, DebtorsType
<1>3. /\ asked.total \in Nat /\ 2 * asked.total >= MaxDebtors /\ MaxDebtors \in Nat
      /\ Len(asked.debtors) \in Nat /\ Len(asked.debtors) > 0 /\ Len(asked.debtors) <= MaxDebtors
  <2>1. asked.total \in Nat /\ 2 * asked.total >= MaxDebtors /\ MaxDebtors \in Nat
    BY <1>1, SplitAssumption
  <2> DEFINE l == Len(asked.debtors)
  <2>2. l \in 1..MaxDebtors
    BY <1>2
  <2> HIDE DEF l
  <2>3. l \in Nat /\ l > 0 /\ l <= MaxDebtors
    BY <2>1, <2>2
  <2> QED BY <2>1, <2>3 DEF l
<1> DEFINE t == asked.total
           n == Len(asked.debtors)
           s == (2 * t + n) \div (2 * n)
<1>4. s \in Nat /\ 2 * (n * s - t) <= n /\ -2 * (n * s - t) <= n /\ (2 * t >= n => s > 0)
  BY <1>3, Rounding
<1>5. s = Share(asked)
  BY DEF Share
<1>6. 2 * t >= n
  BY <1>3
<1> QED BY <1>2, <1>4, <1>5, <1>6

-----------------------------------------------------------------------------
(***************************************************************************)
(* Types                                                                   *)
(***************************************************************************)

\* A row of the bill at position i of a request: it may be paid and belong to any
\* group, the rest is as it was asked.
Made(asked, i, row) ==
  /\ row \in Row
  /\ row.paid <= row.amount
  /\ row.amount = Share(asked)
  /\ row.creditor = asked.creditor
  /\ row.debtor = asked.debtors[i]

Writing == {"select", "update", "insert"}

\* Bills, insertions and assignments belong to requests that were made.
Shape ==
  /\ \A b \in Batches : answer[b] # "none" => split[b] \in Split
  /\ \A id \in Ids :
       /\ part[id] # "none" => answer[id[1]] # "none" /\ id[2] \in Positions(id[1])
       /\ bill[id] # Null => part[id] = "saved" /\ Made(split[id[1]], id[2], bill[id])
  /\ \A r \in Requests :
       /\ stage[r] \in Writing =>
            /\ target[r] \in Ids
            /\ part[target[r]] = "saved"
            /\ Made(split[target[r][1]], target[r][2], copy[r])
       /\ stage[r] = "update" => base[r] \in Row
       /\ stage[r] = "delete" => target[r] \in Batches

Typed == TypeOK /\ Shape

\* The parts of an id.
LEMMA IdsType == \A id \in Ids : id[1] \in Batches /\ id[2] \in 1..MaxDebtors /\ id = <<id[1], id[2]>>
BY DEF Ids

\* A row is not Null.
LEMMA RowNotNull == Null \notin Row /\ Null \notin Split /\ Null \notin Ids /\ Null \notin Batches
BY NullAssumption

\* A new bill is as it was asked.
LEMMA NewBillMade ==
  ASSUME NEW asked \in Split, NEW i \in DOMAIN asked.debtors, NEW g \in Groups \cup {Null}
  PROVE  Made(asked, i, NewBill(asked, i, g)) /\ NewBill(asked, i, g).paid \in Nat
<1>1. Share(asked) \in Nat /\ asked.debtors[i] \in Users /\ asked.creditor \in Users
      /\ asked.divided \in BOOLEAN
  BY SplitType DEF Split
<1>2. Opening(asked, i) \in Nat /\ Opening(asked, i) <= Share(asked) /\ IsOwn(asked, i) \in BOOLEAN
  BY <1>1 DEF Opening, IsOwn
<1> QED BY <1>1, <1>2 DEF Made, NewBill, Row

\* What save() writes is as it was asked.
LEMMA MergedMade ==
  ASSUME NEW asked, NEW i, NEW mine, NEW row, NEW selected,
         Made(asked, i, mine), Made(asked, i, row)
  PROVE  Made(asked, i, Merged(mine, selected, row))
BY DEF Made, Merged, Row

\* What a payment writes is as it was asked.
LEMMA PaidMade ==
  ASSUME NEW asked, NEW i, NEW row, Made(asked, i, row), NEW a \in 1..Remaining(row)
  PROVE  /\ Made(asked, i, [row EXCEPT !.paid = @ + a, !.isPaid = Closes(row, a)])
         /\ a \in Nat /\ row.paid + a <= row.amount
<1>1. row.paid \in Nat /\ row.amount \in Nat /\ a \in Nat
  BY DEF Made, Row, Remaining
<1>2. row.paid + a <= row.amount
  BY <1>1 DEF Made, Remaining
<1>3. Closes(row, a) \in BOOLEAN
  BY DEF Closes
<1> DEFINE new == [row EXCEPT !.paid = @ + a, !.isPaid = Closes(row, a)]
<1>4. new \in Row /\ new.paid = row.paid + a /\ new.amount = row.amount
      /\ new.creditor = row.creditor /\ new.debtor = row.debtor
  <2>1. row \in Row /\ row.paid + a \in Nat
    BY <1>1 DEF Made
  <2> DEFINE closed == Closes(row, a)
             mid == [row EXCEPT !.paid = @ + a]
  <2>2. /\ mid \in Row /\ mid.paid = row.paid + a /\ mid.amount = row.amount
        /\ mid.creditor = row.creditor /\ mid.debtor = row.debtor
    BY <2>1 DEF Row
  <2>3. closed \in BOOLEAN
    BY <1>3
  <2>4. new = [mid EXCEPT !.isPaid = closed]
    OBVIOUS
  <2> HIDE DEF mid, closed, new
  <2> QED BY <2>2, <2>3, <2>4 DEF Row
<1> HIDE DEF new
<1>5. Made(asked, i, new)
  BY <1>2, <1>4 DEF Made
<1> QED BY <1>1, <1>2, <1>5 DEF new

\* At first there is nothing.
LEMMA TypedInit == Init => Typed
BY RowNotNull DEF Init, Typed, TypeOK, Shape, Writing, Steps

\* A request that replies leaves typed variables.
LEMMA RepliesTyped ==
  ASSUME Typed, NEW r \in Requests, Replies(r)
  PROVE  /\ stage' \in [Requests -> {"idle", "select", "update", "insert", "delete", "done"}]
         /\ target' \in [Requests -> Batches \cup Ids \cup {Null}]
         /\ copy' \in [Requests -> Row \cup {Null}]
         /\ base' \in [Requests -> Row \cup {Null}]
         /\ stage'[r] = "done"
         /\ \A s \in Requests \ {r} : /\ stage'[s] = stage[s] /\ target'[s] = target[s]
                                      /\ copy'[s] = copy[s] /\ base'[s] = base[s]
         /\ split' = split /\ part' = part /\ found' = found /\ answer' = answer
BY DEF Replies, Goes, creation, Typed, TypeOK

\* A step that only writes rows that are as they were asked keeps the shape.
LEMMA ShapeOfRows ==
  ASSUME Typed, split' = split, part' = part, answer' = answer,
         \A id \in Ids : bill'[id] # Null =>
           part[id] = "saved" /\ Made(split[id[1]], id[2], bill'[id]),
         \A s \in Requests :
           \/ stage'[s] \notin Writing \cup {"delete"}
           \/ /\ stage'[s] = stage[s] /\ target'[s] = target[s]
              /\ copy'[s] = copy[s] /\ base'[s] = base[s]
  PROVE  Shape'
<1>1. \A s \in Requests :
        /\ stage'[s] \in Writing =>
             /\ target'[s] \in Ids
             /\ part'[target'[s]] = "saved"
             /\ Made(split[target'[s][1]], target'[s][2], copy'[s])
        /\ stage'[s] = "update" => base'[s] \in Row
        /\ stage'[s] = "delete" => target'[s] \in Batches
  BY DEF Typed, Shape, Writing
<1>2. \A id \in Ids : part'[id] # "none" => answer'[id[1]] # "none" /\ id[2] \in DOMAIN split'[id[1]].debtors
  BY DEF Typed, Shape, Positions
<1>3. \A b \in Batches : answer'[b] # "none" => split'[b] \in Split
  BY DEF Typed, Shape
<1> QED BY <1>1, <1>2, <1>3 DEF Shape, Positions

\* A request that is made leaves typed variables.
LEMMA StartsTyped ==
  ASSUME Typed, NEW b \in Batches, NEW creditor \in Users, NEW debtors \in Debtors,
         NEW g \in Groups \cup {Null}, NEW total \in Totals, NEW divided \in BOOLEAN,
         Starts(b, creditor, debtors, g, total, divided)
  PROVE  Typed'
<1> DEFINE asked == [creditor |-> creditor, debtors |-> debtors, group |-> g, total |-> total,
                     divided |-> divided]
<1>1. asked \in Split
  BY DEF Split
<1>2. /\ answer[b] = "none" /\ answer' = [answer EXCEPT ![b] = "awaited"]
      /\ split' = [split EXCEPT ![b] = asked]
      /\ part' = [id \in Ids |-> IF id[1] = b /\ id[2] \in DOMAIN debtors THEN "creditor" ELSE part[id]]
      /\ bill' = bill /\ users' = users /\ owner' = owner /\ groups' = groups /\ found' = found
      /\ stage' = stage /\ target' = target /\ copy' = copy /\ base' = base
      /\ deleted' = deleted /\ returning' = returning /\ collected' = collected /\ reverted' = reverted
  BY DEF Starts, tables, request, history
<1>3. asked.debtors = debtors
  OBVIOUS
<1> HIDE DEF asked
<1>4. TypeOK'
  BY <1>1, <1>2 DEF Typed, TypeOK, Steps
<1>5. /\ answer'[b] = "awaited" /\ split'[b] = asked
      /\ \A c \in Batches \ {b} : answer'[c] = answer[c] /\ split'[c] = split[c]
  BY <1>2 DEF Typed, TypeOK
<1>6. \A id \in Ids : id[1] = b => part[id] = "none" /\ bill[id] = Null
  BY <1>2 DEF Typed, Shape
<1>7. \A id \in Ids : id[1] # b => part'[id] = part[id] /\ split'[id[1]] = split[id[1]]
  BY <1>2, <1>5, IdsType
<1>8. \A c \in Batches : answer'[c] # "none" => split'[c] \in Split
  BY <1>1, <1>5 DEF Typed, Shape
<1>9. ASSUME NEW id \in Ids
      PROVE  /\ part'[id] # "none" => answer'[id[1]] # "none" /\ id[2] \in DOMAIN split'[id[1]].debtors
             /\ bill'[id] # Null => part'[id] = "saved" /\ Made(split'[id[1]], id[2], bill'[id])
  <2>1. CASE id[1] = b
    BY <1>2, <1>3, <1>5, <1>6, <2>1
  <2>2. CASE id[1] # b
    <3>1. id[1] \in Batches \ {b}
      BY <2>2, IdsType
    <3> QED BY <1>2, <1>5, <1>7, <2>2, <3>1 DEF Typed, Shape, Positions
  <2> QED BY <2>1, <2>2
<1>10. ASSUME NEW r \in Requests, stage[r] \in Writing
       PROVE  /\ target[r] \in Ids
              /\ part'[target[r]] = "saved"
              /\ Made(split'[target[r][1]], target[r][2], copy[r])
  <2>1. /\ target[r] \in Ids /\ part[target[r]] = "saved"
        /\ Made(split[target[r][1]], target[r][2], copy[r])
    BY <1>10 DEF Typed, Shape
  <2>2. target[r][1] # b
    BY <1>6, <2>1
  <2> QED BY <1>7, <2>1, <2>2
<1>11. Shape'
  BY <1>2, <1>8, <1>9, <1>10 DEF Typed, Shape, Positions
<1> QED BY <1>4, <1>11 DEF Typed

\* An insertion that moves on, and may leave its bill.
LEMMA InsertionShape ==
  ASSUME Typed, NEW id \in Ids, Inserting(id), NEW step \in Steps \cup {"saved", "failed"},
         part' = [part EXCEPT ![id] = step], split' = split,
         \A b \in Batches : answer'[b] # "none" <=> answer[b] # "none",
         \A i \in Ids \ {id} : bill'[i] = bill[i],
         bill'[id] # Null => step = "saved" /\ Made(split[id[1]], id[2], bill'[id]),
         UNCHANGED request
  PROVE  Shape'
<1>1. part[id] \in Steps /\ part'[id] = step /\ \A i \in Ids \ {id} : part'[i] = part[i]
  BY DEF Inserting, Typed, TypeOK
<1>2. "none" \notin Steps \cup {"saved", "failed"} /\ "saved" \notin Steps
  BY DEF Steps
<1>3. ASSUME NEW i \in Ids
      PROVE  /\ part'[i] # "none" => answer'[i[1]] # "none" /\ i[2] \in DOMAIN split'[i[1]].debtors
             /\ bill'[i] # Null => part'[i] = "saved" /\ Made(split'[i[1]], i[2], bill'[i])
  <2>1. part[i] # "none" => answer'[i[1]] # "none" /\ i[2] \in DOMAIN split'[i[1]].debtors
    BY IdsType DEF Typed, Shape, Positions
  <2>2. CASE i = id
    BY <1>1, <1>2, <2>1, <2>2
  <2>3. CASE i # id
    BY <1>1, <2>1, <2>3 DEF Typed, Shape
  <2> QED BY <2>2, <2>3
<1>4. ASSUME NEW r \in Requests, stage[r] \in Writing
      PROVE  /\ target[r] \in Ids
             /\ part'[target[r]] = "saved"
             /\ Made(split'[target[r][1]], target[r][2], copy[r])
  BY <1>1, <1>2, <1>4 DEF Typed, Shape
<1>5. stage' = stage /\ target' = target /\ copy' = copy /\ base' = base
  BY DEF request
<1>6. \A b \in Batches : answer'[b] # "none" => split'[b] \in Split
  BY DEF Typed, Shape
<1>7. \A r \in Requests : (stage[r] = "update" => base[r] \in Row) /\ (stage[r] = "delete" => target[r] \in Batches)
  BY DEF Typed, Shape
<1> QED BY <1>3, <1>4, <1>5, <1>6, <1>7 DEF Shape, Positions

\* What an insertion answers is typed, and only after it was asked.
LEMMA AnsweredType ==
  ASSUME Typed, NEW id \in Ids, Inserting(id), NEW step
  PROVE  /\ answer[id[1]] # "none"
         /\ Answered(id[1], id, step) \in {"awaited", "ok", "errors"}
<1>1. part[id] # "none"
  BY DEF Inserting, Steps
<1>2. answer[id[1]] \in {"awaited", "ok", "errors"}
  BY <1>1, IdsType DEF Typed, TypeOK, Shape
<1> QED BY <1>2 DEF Answered

\* The end of an insertion.
LEMMA SettlesTyped ==
  ASSUME Typed, NEW id \in Ids, Inserting(id), NEW step \in {"saved", "failed"}, Settles(id, step)
  PROVE  /\ part' = [part EXCEPT ![id] = step] /\ split' = split /\ found' = found
         /\ part' \in [Ids -> Steps \cup {"none", "saved", "failed"}]
         /\ answer' \in [Batches -> {"none", "awaited", "ok", "errors"}]
         /\ \A b \in Batches : answer'[b] # "none" <=> answer[b] # "none"
<1>1. id[1] \in Batches
  BY IdsType
<1>2. /\ answer[id[1]] # "none"
      /\ Answered(id[1], id, step) \in {"awaited", "ok", "errors"}
  BY AnsweredType
<1> QED BY <1>1, <1>2 DEF Settles, Typed, TypeOK

\* What a request that goes on awaits, and that the others stay.
LEMMA GoesFrame ==
  ASSUME Typed, NEW r \in Requests, NEW next, Goes(r, next)
  PROVE  /\ stage' = [stage EXCEPT ![r] = next]
         /\ stage'[r] = next /\ \A s \in Requests \ {r} : stage'[s] = stage[s]
         /\ split' = split /\ part' = part /\ found' = found /\ answer' = answer
BY DEF Goes, creation, Typed, TypeOK

\* Each step keeps the types.
LEMMA TypedStep == Typed /\ [Next]_vars => Typed'
<1> SUFFICES ASSUME Typed, [Next]_vars
             PROVE  Typed'
  OBVIOUS
<1>0. TypeOK /\ Shape
  BY DEF Typed
<1>1. ASSUME NEW b \in Batches, NEW c \in Users, NEW total \in Totals,
             \/ \E ds \in Debtors, g \in Groups : SplitBill(b, c, ds, g, total)
             \/ \E d \in Users, g \in Groups \cup {Null} : CreateBill(b, c, d, g, total)
      PROVE  Typed'
  <2>1. ASSUME NEW d \in Users
        PROVE  <<d>> \in Debtors
    <3>1. 1 \in 1..MaxDebtors /\ <<d>> \in [1..1 -> Users]
      BY SplitAssumption
    <3> QED BY <3>1 DEF Debtors
  <2>2. CASE \E ds \in Debtors, g \in Groups : SplitBill(b, c, ds, g, total)
    BY <2>2, StartsTyped DEF SplitBill
  <2>3. CASE \E d \in Users, g \in Groups \cup {Null} : CreateBill(b, c, d, g, total)
    BY <2>1, <2>3, StartsTyped DEF CreateBill
  <2> QED BY <1>1, <2>2, <2>3
<1>2. ASSUME NEW id \in Ids, FindCreditor(id) \/ FindGroup(id) \/ FindDebtor(id)
      PROVE  Typed'
  <2>1. PICK next \in {"group", "debtor", "save"} : Awaits(id, next)
    BY <1>2 DEF FindCreditor, FindGroup, FindDebtor
  <2>2. Inserting(id) /\ next \in Steps
    BY <1>2 DEF FindCreditor, FindGroup, FindDebtor, Inserting, Steps
  <2>3. /\ part' = [part EXCEPT ![id] = next] /\ split' = split /\ answer' = answer
        /\ bill' = bill /\ users' = users /\ owner' = owner /\ groups' = groups
        /\ UNCHANGED <<request, history>>
    BY <2>1 DEF Awaits, tables
  <2>4. bill[id] = Null
    BY <1>0, <2>2 DEF Inserting, Steps, Shape
  <2>5. Shape'
    BY <2>2, <2>3, <2>4, InsertionShape
  <2>6. found' \in [Ids -> Groups \cup {Null}]
    <3>1. CASE found' = found
      BY <1>0, <3>1 DEF TypeOK
    <3>2. CASE FindGroup(id)
      <4>1. part[id] # "none"
        BY <3>2 DEF FindGroup
      <4>2. split[id[1]] \in Split
        BY <1>0, <4>1, IdsType DEF Shape
      <4>3. split[id[1]].group \in groups => split[id[1]].group \in Groups
        BY <1>0 DEF TypeOK
      <4> QED BY <1>0, <3>2, <4>3 DEF FindGroup, TypeOK
    <3> QED BY <1>2, <3>1, <3>2 DEF FindCreditor, FindDebtor
  <2>7. TypeOK'
    BY <1>0, <2>2, <2>3, <2>6 DEF TypeOK, request, history
  <2> QED BY <2>5, <2>7 DEF Typed
<1>3. ASSUME NEW id \in Ids, SaveBill(id)
      PROVE  Typed'
  <2> DEFINE new == NewBill(split[id[1]], id[2], found[id])
  <2>1. /\ Inserting(id) /\ Settles(id, "saved") /\ bill' = [bill EXCEPT ![id] = new]
        /\ collected' = [collected EXCEPT ![id] = new.paid]
        /\ users' = users /\ owner' = owner /\ groups' = groups /\ UNCHANGED request
        /\ deleted' = deleted /\ returning' = returning /\ reverted' = reverted
    BY <1>3 DEF SaveBill, Inserting, Steps
  <2>2. split[id[1]] \in Split /\ id[2] \in DOMAIN split[id[1]].debtors
    BY <1>0, <2>1, IdsType DEF Inserting, Steps, Shape, Positions
  <2>3. Made(split[id[1]], id[2], new) /\ new.paid \in Nat
    BY <1>0, <2>2, NewBillMade DEF TypeOK
  <2> HIDE DEF new
  <2>4. /\ bill'[id] = new /\ \A i \in Ids \ {id} : bill'[i] = bill[i]
        /\ bill' \in [Ids -> Row \cup {Null}] /\ collected' \in [Ids -> Nat]
    BY <1>0, <2>1, <2>3 DEF TypeOK, Made
  <2>5. Shape'
    BY <2>1, <2>3, <2>4, SettlesTyped, InsertionShape
  <2>6. \A i \in Ids : bill'[i] # Null => bill'[i].paid <= bill'[i].amount
    BY <1>0, <2>3, <2>4 DEF TypeOK, Made
  <2>7. TypeOK'
    BY <1>0, <2>1, <2>4, <2>6, SettlesTyped DEF TypeOK, request
  <2> QED BY <2>5, <2>7 DEF Typed
<1>4. ASSUME NEW id \in Ids, InsertionFails(id)
      PROVE  Typed'
  <2>1. /\ Inserting(id) /\ Settles(id, "failed") /\ bill[id] = Null /\ bill' = bill
        /\ users' = users /\ owner' = owner /\ groups' = groups /\ UNCHANGED <<request, history>>
    BY <1>0, <1>4 DEF InsertionFails, Inserting, Steps, Shape, tables
  <2>2. Shape'
    BY <2>1, SettlesTyped, InsertionShape
  <2>3. TypeOK'
    BY <1>0, <2>1, SettlesTyped DEF TypeOK, request, history
  <2> QED BY <2>2, <2>3 DEF Typed
<1>5. ASSUME NEW r \in Requests, NEW u \in Users, NEW g \in Groups, NEW id \in Ids, AssignBill(r, u, g, id)
      PROVE  Typed'
  <2>1. part[id] = "saved" /\ Made(split[id[1]], id[2], bill[id])
    BY <1>0, <1>5 DEF AssignBill, Shape
  <2> DEFINE new == [bill[id] EXCEPT !.group = g]
  <2>2. Made(split[id[1]], id[2], new) /\ new \in Row
    BY <2>1 DEF Made, Row
  <2>3. /\ target' = [target EXCEPT ![r] = id] /\ copy' = [copy EXCEPT ![r] = new] /\ base' = base
        /\ Goes(r, "select") /\ UNCHANGED <<tables, history>>
    BY <1>5 DEF AssignBill
  <2> HIDE DEF new
  <2>4. TypeOK'
    BY <1>0, <2>2, <2>3, GoesFrame DEF TypeOK, tables, history
  <2>5. target'[r] = id /\ copy'[r] = new /\ \A s \in Requests \ {r} : target'[s] = target[s] /\ copy'[s] = copy[s]
    BY <1>0, <2>3 DEF TypeOK
  <2>6. Shape'
    BY <1>0, <2>1, <2>2, <2>3, <2>5, GoesFrame DEF Shape, Writing, tables, Positions
  <2> QED BY <2>4, <2>6 DEF Typed
<1>6. ASSUME NEW r \in Requests, SaveSelect(r)
      PROVE  Typed'
  <2>1. /\ target[r] \in Ids /\ part[target[r]] = "saved"
        /\ Made(split[target[r][1]], target[r][2], copy[r])
    BY <1>0, <1>6 DEF SaveSelect, Shape, Writing
  <2>2. /\ base' = [base EXCEPT ![r] = bill[target[r]]] /\ target' = target /\ copy' = copy
        /\ Goes(r, IF bill[target[r]] = Null THEN "insert" ELSE "update")
        /\ UNCHANGED <<tables, history>>
    BY <1>6 DEF SaveSelect
  <2>3. bill[target[r]] \in Row \cup {Null}
    BY <1>0, <2>1 DEF TypeOK
  <2>4. TypeOK'
    BY <1>0, <2>2, <2>3, GoesFrame DEF TypeOK, tables, history
  <2>5. base'[r] = bill[target[r]] /\ \A s \in Requests \ {r} : base'[s] = base[s]
    BY <1>0, <2>2 DEF TypeOK
  <2>6. Shape'
    BY <1>0, <2>1, <2>2, <2>3, <2>5, GoesFrame DEF Shape, Writing, tables, Positions
  <2> QED BY <2>4, <2>6 DEF Typed
<1>7. ASSUME NEW r \in Requests, SaveUpdate(r) \/ SaveInsert(r)
      PROVE  Typed'
  <2>1. /\ target[r] \in Ids /\ part[target[r]] = "saved"
        /\ Made(split[target[r][1]], target[r][2], copy[r])
    BY <1>0, <1>7 DEF SaveUpdate, SaveInsert, Shape, Writing
  <2>2. Replies(r) /\ UNCHANGED <<users, owner, groups, history>>
    BY <1>7 DEF SaveUpdate, SaveInsert
  <2>3. /\ \A id \in Ids \ {target[r]} : bill'[id] = bill[id]
        /\ bill'[target[r]] # Null => Made(split[target[r][1]], target[r][2], bill'[target[r]])
        /\ bill' \in [Ids -> Row \cup {Null}]
    <3>1. CASE bill' = bill
      BY <1>0, <2>1, <3>1 DEF Shape, TypeOK
    <3>2. ASSUME NEW new, Made(split[target[r][1]], target[r][2], new),
                 bill' = [bill EXCEPT ![target[r]] = new]
          PROVE  <2>3!1 /\ <2>3!2 /\ <2>3!3
      BY <1>0, <2>1, <3>2 DEF TypeOK, Made
    <3>3. CASE SaveUpdate(r)
      <4>1. bill[target[r]] # Null =>
              Made(split[target[r][1]], target[r][2], Merged(copy[r], base[r], bill[target[r]]))
        BY <1>0, <2>1, MergedMade DEF Shape
      <4> QED BY <3>1, <3>2, <3>3, <4>1 DEF SaveUpdate
    <3>4. CASE SaveInsert(r)
      BY <2>1, <3>2, <3>4 DEF SaveInsert
    <3> QED BY <1>7, <3>3, <3>4
  <2>4. \A id \in Ids : bill'[id] # Null => part[id] = "saved" /\ Made(split[id[1]], id[2], bill'[id])
    BY <1>0, <2>1, <2>3 DEF Shape
  <2>5. Shape'
    BY <2>2, <2>4, RepliesTyped, ShapeOfRows DEF Writing
  <2>6. \A id \in Ids : bill'[id] # Null => bill'[id].paid <= bill'[id].amount
    BY <2>4 DEF Made
  <2>7. TypeOK'
    BY <1>0, <2>2, <2>3, <2>6, RepliesTyped DEF TypeOK, history
  <2> QED BY <2>5, <2>7 DEF Typed
<1>8. ASSUME NEW r \in Requests, NEW u \in Users, NEW b \in Batches, FindBatch(r, u, b)
      PROVE  Typed'
  <2>1. /\ target' = [target EXCEPT ![r] = b] /\ Goes(r, "delete") /\ copy' = copy /\ base' = base
        /\ UNCHANGED <<tables, history>>
    BY <1>8 DEF FindBatch
  <2>2. TypeOK'
    BY <1>0, <2>1, GoesFrame DEF TypeOK, tables, history
  <2>3. target'[r] = b /\ \A s \in Requests \ {r} : target'[s] = target[s]
    BY <1>0, <2>1 DEF TypeOK
  <2>4. Shape'
    BY <1>0, <2>1, <2>3, GoesFrame DEF Shape, Writing, tables, Positions
  <2> QED BY <2>2, <2>4 DEF Typed
<1>9. ASSUME NEW r \in Requests, DeleteBatch(r)
      PROVE  Typed'
  <2>1. /\ target[r] \in Batches /\ Replies(r) /\ users' = users /\ owner' = owner /\ groups' = groups
        /\ bill' = [id \in Ids |-> IF id \in Affected(target[r]) THEN Null ELSE bill[id]]
        /\ deleted' = deleted \cup {target[r]} /\ returning' = returning \cup InHand(target[r])
        /\ collected' = collected /\ reverted' = reverted
    BY <1>0, <1>9 DEF DeleteBatch, Shape
  <2>2. \A id \in Ids : bill'[id] = bill[id] \/ bill'[id] = Null
    BY <2>1
  <2>3. Shape'
    BY <1>0, <2>1, <2>2, RepliesTyped, ShapeOfRows DEF Shape, Writing
  <2>4. bill' \in [Ids -> Row \cup {Null}] /\ returning' \subseteq Ids
    BY <1>0, <2>1 DEF TypeOK, InHand
  <2>5. TypeOK'
    BY <1>0, <2>1, <2>2, <2>4, RepliesTyped DEF TypeOK
  <2> QED BY <2>3, <2>5 DEF Typed
<1>10. ASSUME NEW r \in Requests, Throws(r)
       PROVE  Typed'
  <2>1. Replies(r) /\ UNCHANGED <<tables, history>>
    BY <1>10 DEF Throws
  <2>2. Shape'
    BY <1>0, <2>1, RepliesTyped, ShapeOfRows DEF Shape, Writing, tables
  <2>3. TypeOK'
    BY <1>0, <2>1, RepliesTyped DEF TypeOK, tables, history
  <2> QED BY <2>2, <2>3 DEF Typed
<1>11. ASSUME NEW id \in Ids, PayBill(id)
       PROVE  Typed'
  <2>1. bill[id] # Null /\ part[id] = "saved" /\ Made(split[id[1]], id[2], bill[id])
    BY <1>0, <1>11 DEF PayBill, Shape
  <2>2. PICK a \in 1..Remaining(bill[id]) :
          /\ bill' = [bill EXCEPT ![id] = [bill[id] EXCEPT !.paid = @ + a, !.isPaid = Closes(bill[id], a)]]
          /\ collected' = [collected EXCEPT ![id] = @ + a]
    BY <1>11 DEF PayBill
  <2> DEFINE new == [bill[id] EXCEPT !.paid = @ + a, !.isPaid = Closes(bill[id], a)]
  <2>3. Made(split[id[1]], id[2], new) /\ a \in Nat
    BY <2>1, PaidMade
  <2>4. bill' = [bill EXCEPT ![id] = new]
    BY <2>2
  <2> HIDE DEF new
  <2>5. /\ bill'[id] = new /\ \A i \in Ids \ {id} : bill'[i] = bill[i]
        /\ bill' \in [Ids -> Row \cup {Null}] /\ collected' \in [Ids -> Nat]
    BY <1>0, <2>2, <2>3, <2>4 DEF TypeOK, Made
  <2>6. /\ UNCHANGED <<users, owner, groups, creation, request, deleted, returning>>
        /\ reverted' \subseteq reverted \cup {id}
    BY <1>11 DEF PayBill
  <2>7. \A i \in Ids : bill'[i] # Null => part[i] = "saved" /\ Made(split[i[1]], i[2], bill'[i])
    BY <1>0, <2>1, <2>3, <2>5 DEF Shape
  <2>8. Shape'
    BY <1>0, <2>6, <2>7, ShapeOfRows DEF creation, request
  <2>9. \A i \in Ids : bill'[i] # Null => bill'[i].paid <= bill'[i].amount
    BY <2>7 DEF Made
  <2>10. TypeOK'
    BY <1>0, <2>5, <2>6, <2>9 DEF TypeOK, creation, request
  <2> QED BY <2>8, <2>10 DEF Typed
<1>12. ASSUME NEW g \in Groups, RemoveGroup(g)
       PROVE  Typed'
  <2>1. /\ groups' = groups \ {g} /\ UNCHANGED <<users, owner, creation, request, history>>
        /\ bill' = [id \in Ids |-> IF bill[id] # Null /\ bill[id].group = g
                                   THEN [bill[id] EXCEPT !.group = Null] ELSE bill[id]]
    BY <1>12 DEF RemoveGroup
  <2>2. ASSUME NEW id \in Ids, bill'[id] # Null
        PROVE  part[id] = "saved" /\ Made(split[id[1]], id[2], bill'[id])
    <3>1. bill[id] # Null /\ bill'[id] \in {bill[id], [bill[id] EXCEPT !.group = Null]}
      BY <2>1, <2>2
    <3>2. part[id] = "saved" /\ Made(split[id[1]], id[2], bill[id])
      BY <1>0, <3>1 DEF Shape
    <3>3. Made(split[id[1]], id[2], [bill[id] EXCEPT !.group = Null])
      BY <3>2 DEF Made, Row
    <3> QED BY <3>1, <3>2, <3>3
  <2>3. bill' \in [Ids -> Row \cup {Null}] /\ \A id \in Ids : bill'[id] # Null => bill'[id].paid <= bill'[id].amount
    BY <2>1, <2>2 DEF Made
  <2>4. Shape'
    BY <1>0, <2>1, <2>2, ShapeOfRows DEF creation, request
  <2>5. TypeOK'
    BY <1>0, <2>1, <2>3 DEF TypeOK, creation, request, history
  <2> QED BY <2>4, <2>5 DEF Typed
<1>13. ASSUME NEW u \in Users, RemoveUser(u)
       PROVE  Typed'
  <2>1. /\ users' = users \ {u} /\ UNCHANGED <<groups, creation, request, history>>
        /\ owner' = [g \in Groups |-> IF owner[g] = u THEN Null ELSE owner[g]]
        /\ bill' = [id \in Ids |-> IF bill[id] # Null /\ u \in {bill[id].creditor, bill[id].debtor}
                                   THEN Null ELSE bill[id]]
    BY <1>13 DEF RemoveUser
  <2>2. \A id \in Ids : bill'[id] = bill[id] \/ bill'[id] = Null
    BY <2>1
  <2>3. Shape'
    BY <1>0, <2>1, <2>2, ShapeOfRows DEF Shape, creation, request
  <2>4. TypeOK'
    BY <1>0, <2>1, <2>2 DEF TypeOK, creation, request, history
  <2> QED BY <2>3, <2>4 DEF Typed
<1>14. CASE UNCHANGED vars
  BY <1>0, <1>14 DEF vars, tables, creation, request, history, Typed, TypeOK, Shape, Positions
<1> QED
  BY <1>1, <1>2, <1>3, <1>4, <1>5, <1>6, <1>7, <1>8, <1>9, <1>10, <1>11, <1>12, <1>13, <1>14 DEF Next

\* Columns and local variables keep their types, and paid stays within the amount.
THEOREM GroupBillsTyped == Spec => []TypeOK
<1>1. Typed => TypeOK
  BY DEF Typed
<1> QED BY TypedInit, TypedStep, <1>1, PTL DEF Spec

\* The shares of a bill add up to its total, to half a unit for each debtor.
THEOREM SharesOfTotal == Spec => []SharesAddUp
<1>1. ASSUME Typed
      PROVE  SharesAddUp
  <2> SUFFICES ASSUME NEW id \in Ids, bill[id] # Null
               PROVE  LET n == Len(split[id[1]].debtors)
                          rest == n * bill[id].amount - split[id[1]].total
                      IN 2 * rest <= n /\ -2 * rest <= n
    BY DEF SharesAddUp
  <2>1. part[id] # "none" /\ bill[id].amount = Share(split[id[1]])
    BY <1>1 DEF Typed, Shape, Made
  <2>2. split[id[1]] \in Split
    BY <1>1, <2>1, IdsType DEF Typed, Shape
  <2> QED BY <2>1, <2>2, SplitType
<1> QED BY TypedInit, TypedStep, <1>1, PTL DEF Spec

-----------------------------------------------------------------------------
(***************************************************************************)
(* The answer tells whether every debtor has a bill                        *)
(***************************************************************************)

Gone(id) ==
  \/ id[1] \in deleted
  \/ ~({split[id[1]].creditor, split[id[1]].debtors[id[2]]} \subseteq users)

\* What was inserted is there, or gone; a success means that every insertion was
\* made, and errors that one was not.
Told ==
  /\ \A id \in Ids : part[id] = "saved" => bill[id] # Null \/ Gone(id)
  /\ \A b \in Batches :
       /\ answer[b] = "ok" => \A i \in Positions(b) : part[<<b, i>>] = "saved"
       /\ answer[b] = "errors" => \E i \in Positions(b) : part[<<b, i>>] = "failed"

\* The positions of a request are those of its bills.
LEMMA PositionsOfIds ==
  ASSUME Typed, NEW b \in Batches, answer[b] # "none"
  PROVE  \A i \in Positions(b) : <<b, i>> \in Ids
<1>1. split[b] \in Split
  BY DEF Typed, Shape
<1>2. Positions(b) = 1..Len(split[b].debtors) /\ Len(split[b].debtors) \in 1..MaxDebtors
  BY <1>1, SplitType DEF Positions
<1>3. Positions(b) \subseteq 1..MaxDebtors
  <2> DEFINE l == Len(split[b].debtors)
  <2>1. l \in 1..MaxDebtors /\ MaxDebtors \in Nat
    BY <1>2, SplitAssumption
  <2> HIDE DEF l
  <2>2. 1..l \subseteq 1..MaxDebtors
    BY <2>1
  <2> QED BY <1>2, <2>2 DEF l
<1> QED BY <1>3 DEF Ids

\* A step that takes no bill away but those that are gone, of no insertion.
LEMMA ToldKept ==
  ASSUME Told, part' = part, answer' = answer, split' = split,
         deleted \subseteq deleted', users' \subseteq users,
         \A id \in Ids : bill[id] # Null => bill'[id] # Null \/ Gone(id)'
  PROVE  Told'
BY DEF Told, Gone, Positions

\* Each step keeps it.
LEMMA ToldStep == Typed /\ Told /\ [Next]_vars => Told'
<1> SUFFICES ASSUME Typed, Told, [Next]_vars
             PROVE  Told'
  OBVIOUS
<1>0. TypeOK /\ Shape
  BY DEF Typed
<1>1. ASSUME NEW b \in Batches, NEW creditor \in Users, NEW debtors \in Debtors,
             NEW g \in Groups \cup {Null}, NEW total \in Totals, NEW divided \in BOOLEAN,
             Starts(b, creditor, debtors, g, total, divided)
      PROVE  Told'
  <2>1. /\ answer[b] = "none" /\ answer' = [answer EXCEPT ![b] = "awaited"]
        /\ part' = [id \in Ids |-> IF id[1] = b /\ id[2] \in DOMAIN debtors THEN "creditor" ELSE part[id]]
        /\ bill' = bill /\ users' = users /\ deleted' = deleted
        /\ \A c \in Batches \ {b} : split'[c] = split[c]
    BY <1>0, <1>1 DEF Starts, tables, history, TypeOK
  <2>2. \A id \in Ids : id[1] = b => part'[id] # "saved"
    BY <1>0, <2>1 DEF Shape
  <2>3. \A id \in Ids : part'[id] = "saved" => bill'[id] # Null \/ Gone(id)'
    <3> SUFFICES ASSUME NEW id \in Ids, part'[id] = "saved"
                 PROVE  bill'[id] # Null \/ Gone(id)'
      OBVIOUS
    <3>1. id[1] \in Batches \ {b}
      BY <2>2, IdsType
    <3>2. part[id] = "saved" /\ split'[id[1]] = split[id[1]]
      BY <2>1, <3>1
    <3> QED BY <2>1, <3>2 DEF Told, Gone
  <2>4. \A c \in Batches \ {b} : answer'[c] = answer[c] /\ Positions(c)' = Positions(c)
                                 /\ \A i \in Positions(c) : <<c, i>> \in Ids => part'[<<c, i>>] = part[<<c, i>>]
    BY <1>0, <2>1 DEF TypeOK, Positions
  <2>5. answer'[b] = "awaited"
    BY <1>0, <2>1 DEF TypeOK
  <2>6. ASSUME NEW c \in Batches
        PROVE  /\ answer'[c] = "ok" => \A i \in Positions(c)' : part'[<<c, i>>] = "saved"
               /\ answer'[c] = "errors" => \E i \in Positions(c)' : part'[<<c, i>>] = "failed"
    BY <2>4, <2>5, PositionsOfIds DEF Told
  <2> QED BY <2>3, <2>6 DEF Told
<1>2. ASSUME NEW id \in Ids, FindCreditor(id) \/ FindGroup(id) \/ FindDebtor(id)
      PROVE  Told'
  <2>1. PICK next \in {"group", "debtor", "save"} : Awaits(id, next)
    BY <1>2 DEF FindCreditor, FindGroup, FindDebtor
  <2>2. part[id] \notin {"saved", "failed"}
    BY <1>2 DEF FindCreditor, FindGroup, FindDebtor
  <2>3. /\ part'[id] = next /\ \A i \in Ids \ {id} : part'[i] = part[i]
        /\ bill' = bill /\ users' = users /\ deleted' = deleted /\ split' = split /\ answer' = answer
    BY <1>0, <2>1 DEF Awaits, tables, history, TypeOK
  <2>4. \A i \in Ids : part'[i] = "saved" => bill'[i] # Null \/ Gone(i)'
    BY <2>3 DEF Told, Gone
  <2>5. \A b \in Batches : \A i \in Positions(b) :
          answer[b] # "none" /\ part[<<b, i>>] \in {"saved", "failed"} => part'[<<b, i>>] = part[<<b, i>>]
    BY <2>2, <2>3, PositionsOfIds
  <2> QED BY <2>3, <2>4, <2>5 DEF Told, Positions
<1>3. ASSUME NEW id \in Ids, NEW step \in {"saved", "failed"}, Inserting(id), Settles(id, step),
             \A i \in Ids \ {id} : bill'[i] = bill[i], step = "saved" => bill'[id] # Null,
             users' = users, deleted' = deleted
      PROVE  Told'
  <2>1. /\ part[id] \notin {"none", "saved", "failed"} /\ id[1] \in Batches
        /\ part'[id] = step /\ \A i \in Ids \ {id} : part'[i] = part[i]
        /\ split' = split /\ answer'[id[1]] = Answered(id[1], id, step)
        /\ \A b \in Batches \ {id[1]} : answer'[b] = answer[b]
    BY <1>0, <1>3, IdsType DEF Settles, Inserting, Steps, TypeOK
  <2>2. \A i \in Ids : part'[i] = "saved" => bill'[i] # Null \/ Gone(i)'
    BY <1>3, <2>1 DEF Told, Gone
  <2>3. answer[id[1]] # "none" /\ id[2] \in Positions(id[1]) /\ id = <<id[1], id[2]>>
    BY <1>0, <2>1, IdsType DEF Shape
  <2>4. ASSUME NEW b \in Batches, answer'[b] = "ok", NEW i \in Positions(b)
        PROVE  part'[<<b, i>>] = "saved"
    <3>1. CASE answer[b] = "ok"
      <4>1. part[<<b, i>>] = "saved" /\ <<b, i>> \in Ids
        BY <3>1, PositionsOfIds DEF Told
      <4> QED BY <2>1, <4>1
    <3>2. CASE answer[b] # "ok"
      <4>1. b = id[1] /\ AllSaved(b, id, step)
        BY <2>1, <2>4, <3>2 DEF Answered
      <4>2. <<b, i>> \in Ids
        BY <2>3, <4>1, PositionsOfIds
      <4> QED BY <2>1, <4>1, <4>2 DEF AllSaved
    <3> QED BY <3>1, <3>2
  <2>5. ASSUME NEW b \in Batches, answer'[b] = "errors"
        PROVE  \E i \in Positions(b) : part'[<<b, i>>] = "failed"
    <3>1. CASE answer[b] = "errors"
      <4>1. PICK i \in Positions(b) : part[<<b, i>>] = "failed"
        BY <3>1 DEF Told
      <4>2. <<b, i>> \in Ids
        BY <3>1, PositionsOfIds
      <4> QED BY <2>1, <4>1, <4>2
    <3>2. CASE answer[b] # "errors"
      <4>1. b = id[1] /\ step = "failed"
        BY <2>1, <2>5, <3>2 DEF Answered
      <4> QED BY <2>1, <2>3, <4>1
    <3> QED BY <3>1, <3>2
  <2> QED BY <2>1, <2>2, <2>4, <2>5 DEF Told, Positions
<1>4. ASSUME NEW id \in Ids, SaveBill(id)
      PROVE  Told'
  <2> DEFINE new == NewBill(split[id[1]], id[2], found[id])
  <2>1. /\ Inserting(id) /\ Settles(id, "saved") /\ bill' = [bill EXCEPT ![id] = new]
        /\ users' = users /\ deleted' = deleted
    BY <1>4 DEF SaveBill, Inserting, Steps
  <2>2. split[id[1]] \in Split /\ id[2] \in DOMAIN split[id[1]].debtors
    BY <1>0, <2>1, IdsType DEF Inserting, Steps, Shape, Positions
  <2>3. new # Null
    BY <1>0, <2>2, NewBillMade, RowNotNull DEF TypeOK, Made
  <2> HIDE DEF new
  <2>4. bill'[id] # Null /\ \A i \in Ids \ {id} : bill'[i] = bill[i]
    BY <1>0, <2>1, <2>3 DEF TypeOK
  <2> QED BY <1>3, <2>1, <2>4
<1>5. ASSUME NEW id \in Ids, InsertionFails(id)
      PROVE  Told'
  <2>1. /\ Inserting(id) /\ Settles(id, "failed") /\ bill' = bill /\ users' = users /\ deleted' = deleted
    BY <1>5 DEF InsertionFails, tables, history
  <2> QED BY <1>3, <2>1
<1>6. ASSUME NEW r \in Requests,
             \/ \E u \in Users : \/ \E g \in Groups, id \in Ids : AssignBill(r, u, g, id)
                                 \/ \E b \in Batches : FindBatch(r, u, b)
             \/ SaveSelect(r) \/ Throws(r)
      PROVE  Told'
  <2>1. /\ bill' = bill /\ users' = users /\ deleted' = deleted
        /\ part' = part /\ answer' = answer /\ split' = split
    BY <1>6 DEF AssignBill, FindBatch, SaveSelect, Throws, Replies, Goes, creation, tables, history
  <2> QED BY <2>1, ToldKept
<1>7. ASSUME NEW r \in Requests, SaveUpdate(r) \/ SaveInsert(r)
      PROVE  Told'
  <2>1. /\ users' = users /\ deleted' = deleted
        /\ part' = part /\ answer' = answer /\ split' = split
    BY <1>7 DEF SaveUpdate, SaveInsert, Replies, Goes, creation, history
  <2>2. /\ target[r] \in Ids /\ copy[r] \in Row /\ Made(split[target[r][1]], target[r][2], copy[r])
    BY <1>0, <1>7 DEF SaveUpdate, SaveInsert, Shape, Writing, Made
  <2>3. bill[target[r]] # Null => Merged(copy[r], base[r], bill[target[r]]) # Null
    <3> DEFINE new == Merged(copy[r], base[r], bill[target[r]])
    <3>1. bill[target[r]] # Null => Made(split[target[r][1]], target[r][2], new)
      BY <1>0, <2>2, MergedMade DEF Shape
    <3> HIDE DEF new
    <3>2. bill[target[r]] # Null => new \in Row
      BY <3>1 DEF Made
    <3>3. bill[target[r]] # Null => new # Null
      BY <3>2, RowNotNull
    <3> QED BY <3>3 DEF new
  <2>4. copy[r] # Null
    BY <2>2, RowNotNull
  <2>5. \A id \in Ids : bill[id] # Null => bill'[id] # Null
    BY <1>0, <1>7, <2>2, <2>3, <2>4 DEF SaveUpdate, SaveInsert, TypeOK
  <2> QED BY <2>1, <2>5, ToldKept
<1>8. ASSUME NEW r \in Requests, DeleteBatch(r)
      PROVE  Told'
  <2>1. /\ users' = users /\ deleted' = deleted \cup {target[r]}
        /\ part' = part /\ answer' = answer /\ split' = split
        /\ bill' = [id \in Ids |-> IF id \in Affected(target[r]) THEN Null ELSE bill[id]]
    BY <1>8 DEF DeleteBatch, Replies, Goes, creation
  <2>2. \A id \in Ids : bill[id] # Null => bill'[id] # Null \/ Gone(id)'
    BY <2>1 DEF Affected, Batch, Gone
  <2> QED BY <2>1, <2>2, ToldKept
<1>9. ASSUME NEW id \in Ids, PayBill(id)
      PROVE  Told'
  <2>1. bill[id] # Null /\ Made(split[id[1]], id[2], bill[id])
    BY <1>0, <1>9 DEF PayBill, Shape
  <2>2. PICK a \in 1..Remaining(bill[id]) :
          bill' = [bill EXCEPT ![id] = [bill[id] EXCEPT !.paid = @ + a, !.isPaid = Closes(bill[id], a)]]
    BY <1>9 DEF PayBill
  <2> DEFINE new == [bill[id] EXCEPT !.paid = @ + a, !.isPaid = Closes(bill[id], a)]
  <2>3. Made(split[id[1]], id[2], new)
    BY <2>1, PaidMade
  <2>4. bill' = [bill EXCEPT ![id] = new]
    BY <2>2
  <2> HIDE DEF new
  <2>5. \A i \in Ids : bill[i] # Null => bill'[i] # Null
    BY <1>0, <2>3, <2>4, RowNotNull DEF TypeOK, Made
  <2>6. users' = users /\ deleted' = deleted /\ part' = part /\ answer' = answer /\ split' = split
    BY <1>9 DEF PayBill, creation
  <2> QED BY <2>5, <2>6, ToldKept
<1>10. ASSUME NEW g \in Groups, RemoveGroup(g)
       PROVE  Told'
  <2>1. /\ users' = users /\ deleted' = deleted /\ part' = part /\ answer' = answer /\ split' = split
        /\ bill' = [id \in Ids |-> IF bill[id] # Null /\ bill[id].group = g
                                   THEN [bill[id] EXCEPT !.group = Null] ELSE bill[id]]
    BY <1>10 DEF RemoveGroup, creation, history
  <2>2. ASSUME NEW id \in Ids, bill[id] # Null
        PROVE  bill'[id] # Null
    <3>1. bill[id] \in Row
      BY <1>0, <2>2 DEF TypeOK
    <3>2. [bill[id] EXCEPT !.group = Null] \in Row
      BY <3>1 DEF Row
    <3> QED BY <2>1, <2>2, <3>2, RowNotNull
  <2> QED BY <2>1, <2>2, ToldKept
<1>11. ASSUME NEW u \in Users, RemoveUser(u)
       PROVE  Told'
  <2>1. /\ users' = users \ {u} /\ deleted' = deleted /\ part' = part /\ answer' = answer /\ split' = split
        /\ bill' = [id \in Ids |-> IF bill[id] # Null /\ u \in {bill[id].creditor, bill[id].debtor}
                                   THEN Null ELSE bill[id]]
    BY <1>11 DEF RemoveUser, creation, history
  <2>2. \A id \in Ids : bill[id] # Null => /\ bill[id].creditor = split[id[1]].creditor
                                           /\ bill[id].debtor = split[id[1]].debtors[id[2]]
    BY <1>0 DEF Shape, Made
  <2>3. \A id \in Ids : bill[id] # Null => bill'[id] # Null \/ Gone(id)'
    BY <2>1, <2>2 DEF Gone
  <2> QED BY <2>1, <2>3, ToldKept
<1>12. CASE UNCHANGED vars
  <2>1. /\ bill' = bill /\ users' = users /\ deleted' = deleted
        /\ part' = part /\ answer' = answer /\ split' = split
    BY <1>12 DEF vars, tables, creation, history
  <2> QED BY <2>1, ToldKept
<1>13. ASSUME NEW b \in Batches, NEW c \in Users, NEW total \in Totals,
              \/ \E ds \in Debtors, g \in Groups : SplitBill(b, c, ds, g, total)
              \/ \E d \in Users, g \in Groups \cup {Null} : CreateBill(b, c, d, g, total)
       PROVE  Told'
  <2>1. \A d \in Users : <<d>> \in Debtors
    <3>1. 1 \in 1..MaxDebtors /\ \A d \in Users : <<d>> \in [1..1 -> Users]
      BY SplitAssumption
    <3> QED BY <3>1 DEF Debtors
  <2> QED BY <1>1, <1>13, <2>1 DEF SplitBill, CreateBill
<1> QED
  BY <1>2, <1>4, <1>5, <1>6, <1>7, <1>8, <1>9, <1>10, <1>11, <1>12, <1>13 DEF Next

\* When every bill was made the answer says so, and when it says errors some debtor
\* has no bill and gets none.
THEOREM AnswersTell == Spec => []AnswerTellsAll
<1>1. Init => Told
  BY DEF Init, Told
<1>2. ASSUME Typed, Told
      PROVE  AnswerTellsAll
  <2> SUFFICES ASSUME NEW b \in Batches
               PROVE  /\ answer[b] = "ok" => \A i \in Positions(b) : bill[<<b, i>>] # Null \/ Gone(<<b, i>>)
                      /\ answer[b] = "errors" => \E i \in Positions(b) : bill[<<b, i>>] = Null
    BY DEF AnswerTellsAll, Gone
  <2>1. ASSUME answer[b] = "ok", NEW i \in Positions(b)
        PROVE  bill[<<b, i>>] # Null \/ Gone(<<b, i>>)
    BY <1>2, <2>1, PositionsOfIds DEF Told
  <2>2. ASSUME answer[b] = "errors"
        PROVE  \E i \in Positions(b) : bill[<<b, i>>] = Null
    <3>1. PICK i \in Positions(b) : part[<<b, i>>] = "failed"
      BY <1>2, <2>2 DEF Told
    <3>2. <<b, i>> \in Ids
      BY <1>2, <2>2, PositionsOfIds
    <3> QED BY <1>2, <3>1, <3>2 DEF Typed, Shape
  <2> QED BY <2>1, <2>2
<1> QED BY TypedInit, TypedStep, ToldStep, <1>1, <1>2, PTL DEF Spec

-----------------------------------------------------------------------------
(***************************************************************************)
(* A deleted batch stays deleted                                           *)
(***************************************************************************)

\* Who may still write a bill of a deleted batch had it in hand at the deletion.
Dead ==
  /\ \A b \in deleted : answer[b] # "none"
  /\ \A id \in Ids : id[1] \in deleted /\ (bill[id] # Null \/ Inserting(id)) => id \in returning
  /\ \A r \in Requests :
       stage[r] \in {"select", "insert"} /\ target[r][1] \in deleted => target[r] \in returning

\* A step that deletes nothing, begins no insertion, and writes no bill that is not
\* there, nor assigns one.
LEMMA DeadKept ==
  ASSUME Typed, Dead, deleted' = deleted, returning' = returning,
         \A b \in Batches : answer[b] # "none" => answer'[b] # "none",
         \A id \in Ids : (bill'[id] # Null \/ part'[id] \in Steps) /\ id[1] \in deleted =>
           bill[id] # Null \/ Inserting(id) \/ id \in returning,
         \A r \in Requests : stage'[r] \in {"select", "insert"} =>
           \/ target'[r] \in Ids /\ bill[target'[r]] # Null
           \/ stage[r] \in {"select", "insert"} /\ target'[r] = target[r]
  PROVE  Dead'
<1>1. deleted \subseteq Batches
  BY DEF Typed, TypeOK
<1>2. \A b \in deleted' : answer'[b] # "none"
  BY <1>1 DEF Dead
<1>3. \A id \in Ids : id[1] \in deleted' /\ (bill'[id] # Null \/ part'[id] \in Steps) => id \in returning'
  BY DEF Dead
<1>4. \A r \in Requests :
        stage'[r] \in {"select", "insert"} /\ target'[r][1] \in deleted' => target'[r] \in returning'
  BY DEF Dead
<1> QED BY <1>2, <1>3, <1>4 DEF Dead, Inserting

\* Each step keeps it.
LEMMA DeadStep == Typed /\ Dead /\ [Next]_vars => Dead'
<1> SUFFICES ASSUME Typed, Dead, [Next]_vars
             PROVE  Dead'
  OBVIOUS
<1>0. TypeOK /\ Shape
  BY DEF Typed
<1>1. ASSUME NEW b \in Batches, NEW c \in Users, NEW total \in Totals,
             \/ \E ds \in Debtors, g \in Groups : SplitBill(b, c, ds, g, total)
             \/ \E d \in Users, g \in Groups \cup {Null} : CreateBill(b, c, d, g, total)
      PROVE  Dead'
  <2>1. PICK debtors, g, divided : Starts(b, c, debtors, g, total, divided)
    BY <1>1 DEF SplitBill, CreateBill
  <2>2. /\ answer[b] = "none" /\ bill' = bill /\ deleted' = deleted /\ returning' = returning
        /\ stage' = stage /\ target' = target
        /\ part' = [id \in Ids |-> IF id[1] = b /\ id[2] \in DOMAIN debtors THEN "creditor" ELSE part[id]]
        /\ answer' = [answer EXCEPT ![b] = "awaited"]
    BY <2>1 DEF Starts, tables, request, history
  <2>3. b \notin deleted
    BY <2>2 DEF Dead
  <2>4. \A id \in Ids : id[1] \in deleted => part'[id] = part[id]
    BY <2>2, <2>3
  <2>5. \A d \in Batches : answer[d] # "none" => answer'[d] # "none"
    BY <1>0, <2>2 DEF TypeOK
  <2> QED BY <2>2, <2>4, <2>5, DeadKept DEF Inserting
<1>2. ASSUME NEW id \in Ids, Inserting(id), UNCHANGED <<stage, target, deleted, returning>>,
             \A i \in Ids \ {id} : bill'[i] = bill[i] /\ part'[i] = part[i],
             \A b \in Batches : answer[b] # "none" => answer'[b] # "none"
      PROVE  Dead'
  BY <1>2, DeadKept DEF Inserting
<1>3. ASSUME NEW id \in Ids, FindCreditor(id) \/ FindGroup(id) \/ FindDebtor(id)
      PROVE  Dead'
  <2>1. PICK next : Awaits(id, next)
    BY <1>3 DEF FindCreditor, FindGroup, FindDebtor
  <2>2. Inserting(id)
    BY <1>3 DEF FindCreditor, FindGroup, FindDebtor, Inserting, Steps
  <2>3. /\ bill' = bill /\ UNCHANGED <<stage, target, deleted, returning, answer>>
        /\ \A i \in Ids \ {id} : part'[i] = part[i]
    BY <1>0, <2>1 DEF Awaits, tables, request, history, TypeOK
  <2> QED BY <1>2, <2>2, <2>3
<1>4. ASSUME NEW id \in Ids, SaveBill(id) \/ InsertionFails(id)
      PROVE  Dead'
  <2>1. PICK step \in {"saved", "failed"} : Settles(id, step)
    BY <1>4 DEF SaveBill, InsertionFails
  <2>2. Inserting(id)
    BY <1>4 DEF SaveBill, InsertionFails, Inserting, Steps
  <2>3. /\ UNCHANGED <<stage, target, deleted, returning>>
        /\ \A i \in Ids \ {id} : bill'[i] = bill[i]
    BY <1>0, <1>4 DEF SaveBill, InsertionFails, tables, request, history, TypeOK
  <2>4. \A i \in Ids \ {id} : part'[i] = part[i]
    BY <1>0, <2>1 DEF Settles, TypeOK
  <2> QED BY <1>2, <2>1, <2>2, <2>3, <2>4, SettlesTyped
<1>5. ASSUME NEW r \in Requests, NEW u \in Users, NEW g \in Groups, NEW id \in Ids, AssignBill(r, u, g, id)
      PROVE  Dead'
  <2>1. /\ bill[id] # Null /\ bill' = bill /\ deleted' = deleted /\ returning' = returning
        /\ target'[r] = id /\ \A s \in Requests \ {r} : target'[s] = target[s]
    BY <1>0, <1>5 DEF AssignBill, tables, history, TypeOK
  <2>2. \A s \in Requests \ {r} : stage'[s] = stage[s]
    BY <1>5, GoesFrame DEF AssignBill
  <2>3. part' = part /\ answer' = answer
    BY <1>5 DEF AssignBill, Goes, creation
  <2> QED BY <2>1, <2>2, <2>3, DeadKept DEF Inserting
<1>6. ASSUME NEW r \in Requests,
             \/ \E u \in Users, b \in Batches : FindBatch(r, u, b)
             \/ SaveSelect(r) \/ Throws(r) \/ SaveUpdate(r) \/ SaveInsert(r)
      PROVE  Dead'
  <2>1. /\ deleted' = deleted /\ returning' = returning /\ part' = part /\ answer' = answer
    BY <1>6 DEF FindBatch, SaveSelect, Throws, SaveUpdate, SaveInsert, Replies, Goes, creation, history
  <2>2. \A s \in Requests : stage'[s] \in {"select", "insert"} =>
          stage[s] \in {"select", "insert"} /\ target'[s] = target[s]
    BY <1>0, <1>6 DEF FindBatch, SaveSelect, Throws, SaveUpdate, SaveInsert, Replies, Goes, TypeOK
  <2>3. \A id \in Ids : bill'[id] # Null =>
          \/ bill[id] # Null
          \/ stage[r] = "insert" /\ id = target[r]
    BY <1>0, <1>6 DEF FindBatch, SaveSelect, Throws, SaveUpdate, SaveInsert, TypeOK, tables
  <2>4. \A id \in Ids : bill'[id] # Null /\ id[1] \in deleted => bill[id] # Null \/ id \in returning
    BY <2>3 DEF Dead
  <2> QED BY <2>1, <2>2, <2>4, DeadKept DEF Inserting
<1>7. ASSUME NEW r \in Requests, DeleteBatch(r)
      PROVE  Dead'
  <2> DEFINE b == target[r]
  <2>1. /\ stage[r] = "delete" /\ b \in Batches /\ Batch(b) # {} /\ Replies(r)
        /\ bill' = [id \in Ids |-> IF id \in Affected(b) THEN Null ELSE bill[id]]
        /\ deleted' = deleted \cup {b} /\ returning' = returning \cup InHand(b)
    BY <1>0, <1>7 DEF DeleteBatch, Shape
  <2>2. part' = part /\ answer' = answer
    BY <2>1 DEF Replies, Goes, creation
  <2>3. answer[b] # "none"
    <3>1. PICK id \in Ids : id[1] = b /\ bill[id] # Null
      BY <2>1 DEF Batch
    <3> QED BY <1>0, <3>1 DEF Shape
  <2>4. \A s \in Requests : stage'[s] \in {"select", "insert"} =>
          stage[s] = stage'[s] /\ target'[s] = target[s] /\ target[s] \in Ids
    BY <1>0, <2>1, RepliesTyped DEF Shape, Writing
  <2>5. \A id \in Ids : bill'[id] # Null => bill[id] # Null /\ id[1] # b
    BY <2>1 DEF Affected, Batch
  <2>6. \A id \in Ids : id[1] = b /\ Inserting(id) => id \in InHand(b)
    BY DEF InHand
  <2>7. \A s \in Requests :
          stage[s] \in {"select", "insert"} /\ target[s] \in Ids /\ target[s][1] = b => target[s] \in InHand(b)
    BY DEF InHand
  <2>8. \A id \in Ids : id[1] \in deleted' /\ (bill'[id] # Null \/ Inserting(id)) => id \in returning'
    BY <2>1, <2>5, <2>6 DEF Dead
  <2>9. \A s \in Requests :
          stage'[s] \in {"select", "insert"} /\ target'[s][1] \in deleted' => target'[s] \in returning'
    BY <2>1, <2>4, <2>7 DEF Dead
  <2> QED BY <2>1, <2>2, <2>3, <2>8, <2>9 DEF Dead, Inserting
<1>8. CASE \/ \E id \in Ids : PayBill(id)
           \/ \E g \in Groups : RemoveGroup(g)
           \/ \E u \in Users : RemoveUser(u)
           \/ UNCHANGED vars
  <2>1. UNCHANGED <<part, answer, stage, target, deleted, returning>>
    BY <1>8 DEF PayBill, RemoveGroup, RemoveUser, vars, tables, creation, request, history
  <2>2. \A id \in Ids : bill'[id] # Null => bill[id] # Null
    BY <1>0, <1>8 DEF PayBill, RemoveGroup, RemoveUser, vars, tables, TypeOK
  <2> QED BY <2>1, <2>2, DeadKept DEF Inserting
<1> QED
  BY <1>1, <1>3, <1>4, <1>5, <1>6, <1>7, <1>8 DEF Next

\* A deleted batch has no bills but those that others had in hand.
THEOREM DeletedBatches == Spec => []DeletedStaysDeleted
<1>1. Init => Dead
  BY DEF Init, Dead, Inserting, Steps
<1>2. Dead => DeletedStaysDeleted
  BY DEF Dead, DeletedStaysDeleted
<1> QED BY TypedInit, TypedStep, DeadStep, <1>1, <1>2, PTL DEF Spec

-----------------------------------------------------------------------------
(***************************************************************************)
(* Payments are kept                                                       *)
(***************************************************************************)

\* A row says that c was collected.
Tells(row, c) == row.paid = c /\ c <= row.amount /\ (row.isPaid <=> row.paid >= row.amount)

\* An assignment leaves the payment alone.
LeavesPayment(mine, selected) == mine.paid = selected.paid /\ mine.isPaid = selected.isPaid

\* The rows, and what assignments hold of them, tell what was collected; of a share
\* that is whole, only whole units are.
Paid ==
  /\ \A id \in Ids :
       /\ bill[id] # Null /\ id \notin reverted => Tells(bill[id], collected[id])
       /\ part[id] = "saved" /\ Share(split[id[1]]) % Unit = 0 => collected[id] % Unit = 0
  /\ \A r \in Requests :
       /\ stage[r] \in {"select", "insert"} /\ target[r] \notin reverted =>
            Tells(copy[r], collected[target[r]])
       /\ stage[r] = "update" /\ target[r] \notin reverted =>
            LeavesPayment(copy[r], base[r]) \/ Tells(copy[r], collected[target[r]])

\* A step that collects nothing, and writes rows that tell.
LEMMA PaidKept ==
  ASSUME Typed, Paid, collected' = collected, reverted' = reverted, split' = split,
         \A id \in Ids : part'[id] = "saved" => part[id] = "saved",
         \A id \in Ids : bill'[id] # Null /\ id \notin reverted => Tells(bill'[id], collected[id]),
         \A r \in Requests :
           \/ stage'[r] \notin Writing
           \/ /\ stage'[r] = stage[r] /\ target'[r] = target[r]
              /\ copy'[r] = copy[r] /\ base'[r] = base[r]
           \/ target'[r] \notin reverted => Tells(copy'[r], collected[target'[r]])
  PROVE  Paid'
<1>1. \A id \in Ids : part'[id] = "saved" /\ Share(split'[id[1]]) % Unit = 0 => collected'[id] % Unit = 0
  BY DEF Paid
<1>2. ASSUME NEW r \in Requests
      PROVE  /\ stage'[r] \in {"select", "insert"} /\ target'[r] \notin reverted =>
                  Tells(copy'[r], collected[target'[r]])
             /\ stage'[r] = "update" /\ target'[r] \notin reverted =>
                  LeavesPayment(copy'[r], base'[r]) \/ Tells(copy'[r], collected[target'[r]])
  BY DEF Paid, Writing
<1> QED BY <1>1, <1>2 DEF Paid

\* A new bill tells what its opening was.
LEMMA NewBillTells ==
  ASSUME NEW asked \in Split, NEW i, NEW g
  PROVE  /\ Tells(NewBill(asked, i, g), NewBill(asked, i, g).paid)
         /\ Share(asked) % Unit = 0 => NewBill(asked, i, g).paid % Unit = 0
<1>1. Share(asked) \in Nat /\ Share(asked) > 0
  BY SplitType
<1>2. Unit \in Nat /\ Unit # 0
  BY SplitAssumption
<1>3. 0 % Unit = 0
  BY <1>2
<1>4. /\ NewBill(asked, i, g).paid = Opening(asked, i) /\ NewBill(asked, i, g).amount = Share(asked)
      /\ NewBill(asked, i, g).isPaid = IsOwn(asked, i)
  BY DEF NewBill
<1>5. CASE IsOwn(asked, i)
  BY <1>1, <1>4, <1>5 DEF Tells, Opening
<1>6. CASE ~IsOwn(asked, i)
  BY <1>1, <1>3, <1>4, <1>6 DEF Tells, Opening
<1> QED BY <1>5, <1>6

\* What save() makes of a row that tells, when the copy tells or leaves the payment.
LEMMA MergedTells ==
  ASSUME NEW asked, NEW i, NEW mine, NEW row, NEW selected \in Row, NEW c,
         Made(asked, i, mine), Made(asked, i, row), Tells(row, c),
         LeavesPayment(mine, selected) \/ Tells(mine, c)
  PROVE  Tells(Merged(mine, selected, row), c)
<1>1. /\ mine \in Row /\ row \in Row /\ mine.amount = row.amount
  BY DEF Made
<1> DEFINE new == Merged(mine, selected, row)
<1>2. /\ new.amount = row.amount
      /\ new.paid = IF mine.paid # selected.paid THEN mine.paid ELSE row.paid
      /\ new.isPaid = IF mine.isPaid # selected.isPaid THEN mine.isPaid ELSE row.isPaid
  BY <1>1 DEF Merged, Row
<1> HIDE DEF new
<1>3. ASSUME LeavesPayment(mine, selected)
      PROVE  new.paid = row.paid /\ new.isPaid = row.isPaid
  BY <1>2, <1>3 DEF LeavesPayment
<1>4. ASSUME Tells(mine, c)
      PROVE  new.paid = row.paid /\ new.isPaid = row.isPaid
  <2>1. mine.paid = row.paid /\ mine.isPaid \in BOOLEAN /\ row.isPaid \in BOOLEAN
    BY <1>1, <1>4 DEF Tells, Row
  <2>2. mine.isPaid = row.isPaid
    BY <1>1, <1>4, <2>1 DEF Tells
  <2> QED BY <1>2, <2>1, <2>2
<1>5. Tells(new, c)
  <2>1. new.paid = row.paid /\ new.isPaid = row.isPaid /\ new.amount = row.amount
    BY <1>2, <1>3, <1>4
  <2>2. row.isPaid \in BOOLEAN
    BY <1>1 DEF Row
  <2> QED BY <2>1, <2>2 DEF Tells
<1> QED BY <1>5 DEF new

\* Each step keeps it.
LEMMA PaidStep == Typed /\ Paid /\ [Next]_vars => Paid'
<1> SUFFICES ASSUME Typed, Paid, [Next]_vars
             PROVE  Paid'
  OBVIOUS
<1>0. TypeOK /\ Shape
  BY DEF Typed
<1>1. ASSUME NEW b \in Batches, NEW c \in Users, NEW total \in Totals,
             \/ \E ds \in Debtors, g \in Groups : SplitBill(b, c, ds, g, total)
             \/ \E d \in Users, g \in Groups \cup {Null} : CreateBill(b, c, d, g, total)
      PROVE  Paid'
  <2>1. PICK debtors, g, divided : Starts(b, c, debtors, g, total, divided)
    BY <1>1 DEF SplitBill, CreateBill
  <2>2. /\ answer[b] = "none" /\ bill' = bill /\ collected' = collected /\ reverted' = reverted
        /\ stage' = stage /\ target' = target /\ copy' = copy /\ base' = base
        /\ part' = [id \in Ids |-> IF id[1] = b /\ id[2] \in DOMAIN debtors THEN "creditor" ELSE part[id]]
        /\ \A d \in Batches \ {b} : split'[d] = split[d]
    BY <1>0, <2>1 DEF Starts, tables, request, history, TypeOK
  <2>3. ASSUME NEW id \in Ids, part'[id] = "saved"
        PROVE  part[id] = "saved" /\ split'[id[1]] = split[id[1]]
    <3>1. part[id] = "saved"
      BY <2>2, <2>3
    <3>2. id[1] # b
      BY <1>0, <2>2, <3>1 DEF Shape
    <3> QED BY <2>2, <3>1, <3>2, IdsType
  <2>4. \A id \in Ids : /\ bill'[id] # Null /\ id \notin reverted' => Tells(bill'[id], collected'[id])
                        /\ part'[id] = "saved" /\ Share(split'[id[1]]) % Unit = 0 => collected'[id] % Unit = 0
    BY <2>2, <2>3 DEF Paid
  <2>5. \A r \in Requests :
          /\ stage'[r] \in {"select", "insert"} /\ target'[r] \notin reverted' =>
               Tells(copy'[r], collected'[target'[r]])
          /\ stage'[r] = "update" /\ target'[r] \notin reverted' =>
               LeavesPayment(copy'[r], base'[r]) \/ Tells(copy'[r], collected'[target'[r]])
    BY <2>2 DEF Paid
  <2> QED BY <2>4, <2>5 DEF Paid
<1>2. ASSUME NEW id \in Ids, FindCreditor(id) \/ FindGroup(id) \/ FindDebtor(id) \/ InsertionFails(id)
      PROVE  Paid'
  <2>1. /\ bill' = bill /\ split' = split /\ collected' = collected /\ reverted' = reverted
        /\ stage' = stage /\ target' = target /\ copy' = copy /\ base' = base
    BY <1>2 DEF FindCreditor, FindGroup, FindDebtor, InsertionFails, Awaits, Settles, tables, request, history
  <2>2. PICK next \in {"group", "debtor", "save", "failed"} : part' = [part EXCEPT ![id] = next]
    BY <1>2 DEF FindCreditor, FindGroup, FindDebtor, InsertionFails, Awaits, Settles
  <2>3. \A i \in Ids : part'[i] = "saved" => part[i] = "saved"
    BY <1>0, <2>2 DEF TypeOK
  <2> QED BY <2>1, <2>3, PaidKept DEF Paid
<1>3. ASSUME NEW id \in Ids, SaveBill(id)
      PROVE  Paid'
  <2> DEFINE new == NewBill(split[id[1]], id[2], found[id])
  <2>1. /\ part[id] = "save" /\ bill' = [bill EXCEPT ![id] = new] /\ part' = [part EXCEPT ![id] = "saved"]
        /\ collected' = [collected EXCEPT ![id] = new.paid] /\ split' = split /\ reverted' = reverted
        /\ stage' = stage /\ target' = target /\ copy' = copy /\ base' = base
    BY <1>3 DEF SaveBill, Settles, request
  <2>2. split[id[1]] \in Split
    BY <1>0, <2>1, IdsType DEF Shape
  <2>3. /\ Tells(new, new.paid)
        /\ Share(split[id[1]]) % Unit = 0 => new.paid % Unit = 0
    BY <2>2, NewBillTells
  <2> HIDE DEF new
  <2>4. /\ bill'[id] = new /\ collected'[id] = new.paid
        /\ \A i \in Ids \ {id} : bill'[i] = bill[i] /\ collected'[i] = collected[i] /\ part'[i] = part[i]
    BY <1>0, <2>1 DEF TypeOK
  <2>5. \A i \in Ids : /\ bill'[i] # Null /\ i \notin reverted' => Tells(bill'[i], collected'[i])
                       /\ part'[i] = "saved" /\ Share(split'[i[1]]) % Unit = 0 => collected'[i] % Unit = 0
    <3>1. SUFFICES ASSUME NEW i \in Ids
                   PROVE  /\ bill'[i] # Null /\ i \notin reverted' => Tells(bill'[i], collected'[i])
                          /\ part'[i] = "saved" /\ Share(split'[i[1]]) % Unit = 0 => collected'[i] % Unit = 0
      OBVIOUS
    <3>2. CASE i = id
      BY <2>1, <2>3, <2>4, <3>2
    <3>3. CASE i # id
      BY <2>1, <2>4, <3>3 DEF Paid
    <3> QED BY <3>2, <3>3
  <2>6. \A r \in Requests : stage[r] \in Writing => target[r] \in Ids /\ collected'[target[r]] = collected[target[r]]
    BY <1>0, <2>1, <2>4 DEF Shape
  <2>7. \A r \in Requests :
          /\ stage'[r] \in {"select", "insert"} /\ target'[r] \notin reverted' =>
               Tells(copy'[r], collected'[target'[r]])
          /\ stage'[r] = "update" /\ target'[r] \notin reverted' =>
               LeavesPayment(copy'[r], base'[r]) \/ Tells(copy'[r], collected'[target'[r]])
    BY <2>1, <2>6 DEF Paid, Writing
  <2> QED BY <2>5, <2>7 DEF Paid
<1>4. ASSUME NEW r \in Requests, NEW u \in Users, NEW g \in Groups, NEW id \in Ids, AssignBill(r, u, g, id)
      PROVE  Paid'
  <2>1. /\ bill[id] # Null /\ bill' = bill /\ split' = split /\ part' = part
        /\ collected' = collected /\ reverted' = reverted
        /\ target'[r] = id /\ copy'[r] = [bill[id] EXCEPT !.group = g]
        /\ \A s \in Requests \ {r} : /\ target'[s] = target[s] /\ copy'[s] = copy[s]
                                     /\ base'[s] = base[s] /\ stage'[s] = stage[s]
    BY <1>0, <1>4, GoesFrame DEF AssignBill, tables, history, TypeOK
  <2>2. id \notin reverted => Tells(copy'[r], collected[id])
    <3>1. bill[id] \in Row
      BY <1>0, <2>1 DEF TypeOK
    <3> QED BY <2>1, <3>1 DEF Paid, Tells, Row
  <2> QED BY <2>1, <2>2, PaidKept DEF Paid
<1>5. ASSUME NEW r \in Requests, SaveSelect(r)
      PROVE  Paid'
  <2>1. /\ stage[r] = "select" /\ bill' = bill /\ split' = split /\ part' = part
        /\ collected' = collected /\ reverted' = reverted /\ target' = target /\ copy' = copy
        /\ \A s \in Requests \ {r} : base'[s] = base[s] /\ stage'[s] = stage[s]
    BY <1>0, <1>5, GoesFrame DEF SaveSelect, tables, history, TypeOK
  <2> QED BY <2>1, PaidKept DEF Paid
<1>6. ASSUME NEW r \in Requests, SaveUpdate(r) \/ SaveInsert(r)
      PROVE  Paid'
  <2>1. /\ split' = split /\ part' = part /\ collected' = collected /\ reverted' = reverted /\ Replies(r)
    BY <1>6 DEF SaveUpdate, SaveInsert, Replies, Goes, creation, history
  <2> DEFINE id == target[r]
  <2>2. id \in Ids /\ Made(split[id[1]], id[2], copy[r])
    BY <1>0, <1>6 DEF SaveUpdate, SaveInsert, Shape, Writing
  <2>3. \A i \in Ids \ {id} : bill'[i] = bill[i]
    BY <1>0, <1>6 DEF SaveUpdate, SaveInsert, TypeOK
  <2>4. bill'[id] # Null /\ id \notin reverted => Tells(bill'[id], collected[id])
    <3>1. CASE SaveInsert(r)
      BY <1>0, <2>2, <3>1 DEF SaveInsert, TypeOK, Paid
    <3>2. CASE SaveUpdate(r)
      <4> DEFINE new == Merged(copy[r], base[r], bill[id])
      <4>1. bill[id] = Null => bill'[id] = Null
        BY <3>2 DEF SaveUpdate
      <4>2. bill[id] # Null => bill'[id] = new
        BY <1>0, <2>2, <3>2 DEF SaveUpdate, TypeOK
      <4>3. ASSUME bill[id] # Null, id \notin reverted
            PROVE  Tells(new, collected[id])
        <5>1. Made(split[id[1]], id[2], bill[id]) /\ Tells(bill[id], collected[id])
          BY <1>0, <2>2, <4>3 DEF Shape, Paid
        <5>2. base[r] \in Row /\ (LeavesPayment(copy[r], base[r]) \/ Tells(copy[r], collected[id]))
          BY <1>0, <3>2, <4>3 DEF SaveUpdate, Shape, Paid
        <5> QED BY <2>2, <5>1, <5>2, MergedTells
      <4> HIDE DEF new
      <4> QED BY <4>1, <4>2, <4>3
    <3> QED BY <1>6, <3>1, <3>2
  <2>5. \A i \in Ids : bill'[i] # Null /\ i \notin reverted => Tells(bill'[i], collected[i])
    BY <2>3, <2>4 DEF Paid
  <2>6. \A s \in Requests :
          \/ stage'[s] \notin Writing
          \/ /\ stage'[s] = stage[s] /\ target'[s] = target[s]
             /\ copy'[s] = copy[s] /\ base'[s] = base[s]
    BY <2>1, RepliesTyped DEF Writing
  <2> QED BY <2>1, <2>5, <2>6, PaidKept
<1>7. ASSUME NEW r \in Requests, DeleteBatch(r) \/ Throws(r) \/ \E u \in Users, b \in Batches : FindBatch(r, u, b)
      PROVE  Paid'
  <2>1. /\ split' = split /\ part' = part /\ collected' = collected /\ reverted' = reverted
    BY <1>7 DEF DeleteBatch, Throws, FindBatch, Replies, Goes, creation, history
  <2>2. \A i \in Ids : bill'[i] # Null => bill'[i] = bill[i]
    BY <1>7 DEF DeleteBatch, Throws, FindBatch, tables
  <2>3. \A s \in Requests :
          \/ stage'[s] \notin Writing
          \/ /\ stage'[s] = stage[s] /\ target'[s] = target[s]
             /\ copy'[s] = copy[s] /\ base'[s] = base[s]
    <3>1. CASE DeleteBatch(r) \/ Throws(r)
      BY <3>1, RepliesTyped DEF DeleteBatch, Throws, Writing
    <3>2. CASE \E u \in Users, b \in Batches : FindBatch(r, u, b)
      BY <1>0, <3>2, GoesFrame DEF FindBatch, Writing, TypeOK
    <3> QED BY <1>7, <3>1, <3>2
  <2> QED BY <2>1, <2>2, <2>3, PaidKept DEF Paid
<1>8. ASSUME NEW id \in Ids, PayBill(id)
      PROVE  Paid'
  <2> DEFINE row == bill[id]
  <2>1. PICK a \in 1..Remaining(row) :
          /\ a % Unit = 0
          /\ bill' = [bill EXCEPT ![id] = [row EXCEPT !.paid = @ + a, !.isPaid = Closes(row, a)]]
          /\ collected' = [collected EXCEPT ![id] = @ + a]
    BY <1>8 DEF PayBill
  <2>2. /\ row # Null /\ part[id] = "saved" /\ Made(split[id[1]], id[2], row)
        /\ split' = split /\ part' = part
        /\ stage' = stage /\ target' = target /\ copy' = copy /\ base' = base
        /\ reverted' = IF Holding(id) THEN reverted \cup {id} ELSE reverted
    BY <1>0, <1>8 DEF PayBill, creation, request, Shape
  <2> DEFINE new == [row EXCEPT !.paid = @ + a, !.isPaid = Closes(row, a)]
  <2>3. /\ a \in Nat /\ row.paid + a <= row.amount
        /\ row \in Row /\ collected[id] \in Nat
    <3>1. a \in Nat /\ row.paid + a <= row.amount
      BY <2>2, PaidMade
    <3>2. row \in Row /\ collected[id] \in Nat
      BY <1>0, <2>2 DEF TypeOK, Made
    <3> QED BY <3>1, <3>2
  <2>4. /\ new.paid = row.paid + a /\ new.amount = row.amount /\ (new.isPaid <=> row.paid + a >= row.amount)
    <3> DEFINE closed == Closes(row, a)
               mid == [row EXCEPT !.paid = @ + a]
    <3>1. /\ mid \in Row /\ mid.paid = row.paid + a /\ mid.amount = row.amount
      BY <2>3 DEF Row
    <3>2. closed \in BOOLEAN /\ (closed <=> row.paid + a >= row.amount)
      BY DEF Closes
    <3>3. new = [mid EXCEPT !.isPaid = closed]
      OBVIOUS
    <3> HIDE DEF mid, closed, new
    <3>4. new.paid = mid.paid /\ new.amount = mid.amount /\ new.isPaid = closed
      BY <3>1, <3>2, <3>3 DEF Row
    <3> QED BY <3>1, <3>2, <3>4
  <2>5. bill' = [bill EXCEPT ![id] = new]
    BY <2>1
  <2> HIDE DEF new
  <2>6. /\ bill'[id] = new /\ collected'[id] = collected[id] + a
        /\ \A i \in Ids \ {id} : bill'[i] = bill[i] /\ collected'[i] = collected[i]
    BY <1>0, <2>1, <2>5 DEF TypeOK
  <2>7. id \notin reverted => Tells(new, collected[id] + a)
    BY <2>2, <2>3, <2>4 DEF Paid, Tells
  <2>8. collected[id] % Unit = 0 => (collected[id] + a) % Unit = 0
    <3>1. Unit \in Nat /\ Unit > 0
      BY SplitAssumption
    <3> QED BY <2>1, <2>3, <3>1, SumOfMultiples
  <2>9. ASSUME NEW i \in Ids
        PROVE  /\ bill'[i] # Null /\ i \notin reverted' => Tells(bill'[i], collected'[i])
               /\ part'[i] = "saved" /\ Share(split'[i[1]]) % Unit = 0 => collected'[i] % Unit = 0
    <3>1. CASE i = id
      BY <2>2, <2>6, <2>7, <2>8, <3>1 DEF Paid
    <3>2. CASE i # id
      BY <2>2, <2>6, <3>2 DEF Paid
    <3> QED BY <3>1, <3>2
  <2>10. ASSUME NEW r \in Requests, stage[r] \in Writing, target[r] \notin reverted'
         PROVE  /\ stage[r] \in {"select", "insert"} => Tells(copy[r], collected'[target[r]])
                /\ stage[r] = "update" =>
                     LeavesPayment(copy[r], base[r]) \/ Tells(copy[r], collected'[target[r]])
    <3>1. target[r] \in Ids /\ target[r] \notin reverted
      BY <1>0, <2>2, <2>10 DEF Shape
    <3>2. CASE target[r] = id
      BY <2>2, <2>10, <3>2 DEF Holding, LeavesPayment, Writing
    <3>3. CASE target[r] # id
      BY <2>6, <2>10, <3>1, <3>3 DEF Paid
    <3> QED BY <3>2, <3>3
  <2> QED BY <2>2, <2>9, <2>10 DEF Paid, Writing
<1>9. ASSUME NEW g \in Groups, RemoveGroup(g)
      PROVE  Paid'
  <2>1. /\ split' = split /\ part' = part /\ collected' = collected /\ reverted' = reverted
        /\ stage' = stage /\ target' = target /\ copy' = copy /\ base' = base
        /\ bill' = [id \in Ids |-> IF bill[id] # Null /\ bill[id].group = g
                                   THEN [bill[id] EXCEPT !.group = Null] ELSE bill[id]]
    BY <1>9 DEF RemoveGroup, creation, request, history
  <2>2. ASSUME NEW id \in Ids, bill'[id] # Null, id \notin reverted
        PROVE  Tells(bill'[id], collected[id])
    <3>1. bill[id] # Null
      BY <2>1, <2>2
    <3>2. bill[id] \in Row /\ Tells(bill[id], collected[id])
      BY <1>0, <2>2, <3>1 DEF TypeOK, Paid
    <3>3. Tells([bill[id] EXCEPT !.group = Null], collected[id])
      BY <3>2 DEF Tells, Row
    <3> QED BY <2>1, <3>2, <3>3
  <2> QED BY <2>1, <2>2, PaidKept
<1>10. CASE (\E u \in Users : RemoveUser(u)) \/ UNCHANGED vars
  <2>1. /\ split' = split /\ part' = part /\ collected' = collected /\ reverted' = reverted
        /\ stage' = stage /\ target' = target /\ copy' = copy /\ base' = base
    BY <1>10 DEF RemoveUser, vars, tables, creation, request, history
  <2>2. \A i \in Ids : bill'[i] # Null => bill'[i] = bill[i]
    BY <1>10 DEF RemoveUser, vars, tables
  <2> QED BY <2>1, <2>2, PaidKept DEF Paid
<1> QED
  BY <1>1, <1>2, <1>3, <1>4, <1>5, <1>6, <1>7, <1>8, <1>9, <1>10 DEF Next

\* At first nothing is collected.
LEMMA PaidInit == Init => Paid
BY DEF Init, Paid

\* Unless an assignment held a bill while it was paid, its row tells its payments.
THEOREM PaymentsTold == Spec => []PaymentsAreKept
<1>1. Paid => PaymentsAreKept
  BY DEF Paid, PaymentsAreKept, Tells
<1> QED BY TypedInit, TypedStep, PaidInit, PaidStep, <1>1, PTL DEF Spec

\* And what is open of a whole amount is at least a unit.
THEOREM OpenBillsPayable == Spec => []OpenBillsArePayable
<1>1. ASSUME Typed, Paid
      PROVE  OpenBillsArePayable
  <2> SUFFICES ASSUME NEW id \in Ids, bill[id] # Null, ~bill[id].isPaid, id \notin reverted,
                      bill[id].amount % Unit = 0
               PROVE  Remaining(bill[id]) >= Unit
    BY DEF OpenBillsArePayable
  <2>1. /\ part[id] = "saved" /\ bill[id] \in Row /\ bill[id].amount = Share(split[id[1]])
    BY <1>1 DEF Typed, Shape, Made
  <2>2. /\ bill[id].paid = collected[id] /\ collected[id] % Unit = 0
        /\ ~(bill[id].paid >= bill[id].amount)
    BY <1>1, <2>1 DEF Paid, Tells
  <2>3. bill[id].paid \in Nat /\ bill[id].amount \in Nat
    BY <2>1 DEF Row
  <2>4. bill[id].paid < bill[id].amount
    BY <2>2, <2>3
  <2>5. Unit \in Nat /\ Unit > 0
    BY SplitAssumption
  <2>6. bill[id].amount - bill[id].paid >= Unit
    BY <2>2, <2>3, <2>4, <2>5, Multiples
  <2> QED BY <2>3, <2>4, <2>6 DEF Remaining
<1> QED BY TypedInit, TypedStep, PaidInit, PaidStep, <1>1, PTL DEF Spec
-----------------------------------------------------------------------------
(***************************************************************************)
(* The bills implement BillAccount                                         *)
(***************************************************************************)

\* What BillAccount sees of a bill.
Life(id) == IF InHandAtChange(id) THEN "void"
            ELSE IF bill[id] # Null
              THEN IF bill[id].isPaid THEN "closed" ELSE "open"
            ELSE IF part[id] = "saved" THEN "gone" ELSE "none"
Due(id) == IF bill[id] = Null \/ InHandAtChange(id) THEN 0 ELSE bill[id].amount
Got(id) == IF InHandAtChange(id) THEN 0 ELSE collected[id]

\* Its moves, in those words.
LEMMA AccountMoves ==
  ASSUME NEW id \in Ids
  PROVE  /\ /\ Life(id)' = Life(id) /\ Due(id)' = Due(id) /\ Got(id)' = Got(id)
            => Account!Keeps(id)
         /\ /\ Life(id) = "none" /\ Life(id)' \in {"open", "closed"} /\ Got(id)' <= Due(id)'
            => Account!Opens(id)
         /\ /\ Life(id) = "open" /\ Due(id)' = Due(id)
            /\ Got(id) < Got(id)' /\ Got(id)' <= Due(id)
            /\ Life(id)' = "closed" \/ (Life(id)' = "open" /\ Got(id)' < Due(id))
            => Account!Collects(id)
         /\ /\ Life(id) \in {"open", "closed"} /\ Life(id)' = "gone" /\ Due(id)' = 0
            /\ Got(id)' = Got(id)
            => Account!Goes(id)
         /\ InHandAtChange(id)' => Account!Spoils(id)
<1> DEFINE S == [i \in Ids |-> IF InHandAtChange(i) THEN "void"
                               ELSE IF bill[i] # Null
                                 THEN IF bill[i].isPaid THEN "closed" ELSE "open"
                               ELSE IF part[i] = "saved" THEN "gone" ELSE "none"]
           D == [i \in Ids |-> IF bill[i] = Null \/ InHandAtChange(i) THEN 0 ELSE bill[i].amount]
           C == [i \in Ids |-> IF InHandAtChange(i) THEN 0 ELSE collected[i]]
<1>1. /\ S[id] = Life(id) /\ D[id] = Due(id) /\ C[id] = Got(id)
      /\ S'[id] = Life(id)' /\ D'[id] = Due(id)' /\ C'[id] = Got(id)'
  BY DEF Life, Due, Got
<1>2. InHandAtChange(id)' => Life(id)' = "void" /\ Due(id)' = 0 /\ Got(id)' = 0
  BY DEF Life, Due, Got
<1> HIDE DEF S, D, C
<1> QED
  BY <1>1, <1>2 DEF S, D, C, Account!Keeps, Account!Opens, Account!Collects, Account!Goes,
    Account!Spoils

\* A step keeps a bill when its row states and tells what it did.
LEMMA AccountKept ==
  ASSUME NEW id \in Ids, returning' = returning, reverted' = reverted,
         part'[id] = "saved" <=> part[id] = "saved",
         collected'[id] = collected[id],
         bill'[id] = Null <=> bill[id] = Null,
         bill[id] # Null => /\ bill'[id].amount = bill[id].amount
                            /\ bill'[id].isPaid <=> bill[id].isPaid
  PROVE  Account!Keeps(id)
<1>1. InHandAtChange(id)' <=> InHandAtChange(id)
  BY DEF InHandAtChange
<1>2. Life(id)' = Life(id) /\ Due(id)' = Due(id) /\ Got(id)' = Got(id)
  BY <1>1 DEF Life, Due, Got
<1> QED BY <1>2, AccountMoves

\* Nobody writes back a bill that is gone, unless he had it in hand when its batch
\* was deleted: the removal of its user is refused by a foreign key for ever.
LEMMA GoneIsNotInserted ==
  ASSUME Typed, Told, Dead, NEW r \in Requests, SaveInsert(r)
  PROVE  target[r] \in Ids /\ target[r] \in returning
<1> DEFINE id == target[r]
<1>1. /\ id \in Ids /\ part[id] = "saved" /\ bill[id] = Null /\ stage[r] = "insert"
      /\ Made(split[id[1]], id[2], copy[r]) /\ Referable(copy[r])
  BY DEF SaveInsert, Typed, Shape, Writing
<1>2. Gone(id)
  BY <1>1 DEF Told
<1>3. {split[id[1]].creditor, split[id[1]].debtors[id[2]]} \subseteq users
  BY <1>1 DEF Made, Referable
<1> QED BY <1>1, <1>2, <1>3 DEF Gone, Dead

\* Every step moves each bill as an account does.
LEMMA AccountStep ==
  ASSUME Typed, Told, Dead, Paid, [Next]_vars
  PROVE  Account!Next
<1> SUFFICES ASSUME NEW i \in Ids
             PROVE  \/ Account!Keeps(i) \/ Account!Opens(i) \/ Account!Collects(i)
                    \/ Account!Goes(i) \/ Account!Spoils(i)
  BY DEF Account!Next
<1> DEFINE Moves == \/ Account!Keeps(i) \/ Account!Opens(i) \/ Account!Collects(i)
                    \/ Account!Goes(i) \/ Account!Spoils(i)
<1>0. TypeOK /\ Shape
  BY DEF Typed
<1> HIDE DEF Moves
<1>void. ASSUME InHandAtChange(i), returning \subseteq returning', reverted \subseteq reverted'
      PROVE  Moves
  <2>1. InHandAtChange(i)'
    BY <1>void DEF InHandAtChange
  <2> QED BY <2>1, AccountMoves DEF Moves
<1>1. ASSUME NEW b \in Batches, NEW c \in Users, NEW total \in Totals,
             \/ \E ds \in Debtors, g \in Groups : SplitBill(b, c, ds, g, total)
             \/ \E d \in Users, g \in Groups \cup {Null} : CreateBill(b, c, d, g, total)
      PROVE  Moves
  <2>1. PICK debtors, g, divided : Starts(b, c, debtors, g, total, divided)
    BY <1>1 DEF SplitBill, CreateBill
  <2>2. /\ answer[b] = "none" /\ UNCHANGED <<bill, collected, returning, reverted>>
        /\ part' = [id \in Ids |-> IF id[1] = b /\ id[2] \in DOMAIN debtors THEN "creditor" ELSE part[id]]
    BY <2>1 DEF Starts, tables, history
  <2>3. part'[i] = "saved" <=> part[i] = "saved"
    BY <1>0, <2>2 DEF Shape
  <2> QED BY <2>2, <2>3, AccountKept DEF Moves
<1>2. ASSUME NEW id \in Ids, FindCreditor(id) \/ FindGroup(id) \/ FindDebtor(id) \/ InsertionFails(id)
      PROVE  Moves
  <2>1. UNCHANGED <<bill, collected, returning, reverted>> /\ part[id] # "saved"
    BY <1>2 DEF FindCreditor, FindGroup, FindDebtor, InsertionFails, Inserting, Steps, Awaits,
      tables, history
  <2>2. PICK next \in {"group", "debtor", "save", "failed"} : part' = [part EXCEPT ![id] = next]
    BY <1>2 DEF FindCreditor, FindGroup, FindDebtor, InsertionFails, Awaits, Settles
  <2>3. part'[i] = "saved" <=> part[i] = "saved"
    BY <1>0, <2>1, <2>2 DEF TypeOK
  <2> QED BY <2>1, <2>3, AccountKept DEF Moves
<1>3. ASSUME NEW id \in Ids, SaveBill(id)
      PROVE  Moves
  <2> DEFINE new == NewBill(split[id[1]], id[2], found[id])
  <2>1. /\ part[id] = "save" /\ bill' = [bill EXCEPT ![id] = new] /\ part' = [part EXCEPT ![id] = "saved"]
        /\ collected' = [collected EXCEPT ![id] = new.paid]
        /\ UNCHANGED <<returning, reverted>>
    BY <1>3 DEF SaveBill, Settles
  <2>2. split[id[1]] \in Split /\ bill[id] = Null
    BY <1>0, <2>1, IdsType DEF Shape
  <2>3. Tells(new, new.paid)
    BY <2>2, NewBillTells
  <2>4. new # Null
    <3>1. id[2] \in DOMAIN split[id[1]].debtors /\ found[id] \in Groups \cup {Null}
      BY <1>0, <2>1 DEF Shape, Positions, TypeOK
    <3> QED BY <2>2, <3>1, NewBillMade, RowNotNull DEF Made
  <2> HIDE DEF new
  <2>5. CASE i = id /\ InHandAtChange(i)
    BY <1>void, <2>1, <2>5
  <2>6. CASE i = id /\ ~InHandAtChange(i)
    <3>1. bill'[i] = new /\ collected'[i] = new.paid /\ ~InHandAtChange(i)'
      BY <1>0, <2>1, <2>6 DEF TypeOK, InHandAtChange
    <3>2. Life(i) = "none" /\ Life(i)' \in {"open", "closed"}
      BY <2>1, <2>2, <2>4, <2>6, <3>1 DEF Life
    <3>3. Got(i)' = new.paid /\ Due(i)' = new.amount
      BY <2>4, <3>1 DEF Got, Due
    <3> QED BY <2>3, <3>2, <3>3, AccountMoves DEF Moves, Tells
  <2>7. CASE i # id
    <3>1. bill'[i] = bill[i] /\ part'[i] = part[i] /\ collected'[i] = collected[i]
      BY <1>0, <2>1, <2>7 DEF TypeOK
    <3> QED BY <2>1, <3>1, AccountKept DEF Moves
  <2> QED BY <2>5, <2>6, <2>7
<1>4. ASSUME NEW r \in Requests,
             \/ \E u \in Users, g \in Groups, id \in Ids : AssignBill(r, u, g, id)
             \/ \E u \in Users, b \in Batches : FindBatch(r, u, b)
             \/ SaveSelect(r) \/ Throws(r)
      PROVE  Moves
  <2>1. UNCHANGED <<bill, part, collected, returning, reverted>>
    BY <1>4 DEF AssignBill, FindBatch, SaveSelect, Throws, Replies, Goes, tables, creation, history
  <2> QED BY <2>1, AccountKept DEF Moves
<1>5. ASSUME NEW r \in Requests, SaveUpdate(r) \/ SaveInsert(r)
      PROVE  Moves
  <2> DEFINE id == target[r]
  <2>1. UNCHANGED <<part, collected, returning, reverted>>
    BY <1>5 DEF SaveUpdate, SaveInsert, Replies, Goes, creation, history
  <2>2. id \in Ids /\ Made(split[id[1]], id[2], copy[r])
    BY <1>0, <1>5 DEF SaveUpdate, SaveInsert, Shape, Writing
  <2>3. i # id => bill'[i] = bill[i]
    BY <1>0, <1>5 DEF SaveUpdate, SaveInsert, TypeOK
  <2>4. CASE InHandAtChange(i)
    BY <1>void, <2>1, <2>4
  <2>5. CASE ~InHandAtChange(i) /\ i = id
    <3>1. SaveUpdate(r) /\ i \notin reverted
      BY <1>5, <2>5, GoneIsNotInserted DEF InHandAtChange
    <3> DEFINE new == Merged(copy[r], base[r], bill[i])
    <3>2. bill[i] = Null => bill' = bill
      BY <2>5, <3>1 DEF SaveUpdate
    <3>3. ASSUME bill[i] # Null
          PROVE  /\ bill'[i] = new /\ new # Null /\ new.amount = bill[i].amount
                 /\ new.isPaid <=> bill[i].isPaid
      <4>1. Made(split[i[1]], i[2], bill[i]) /\ Tells(bill[i], collected[i])
        BY <1>0, <3>1, <3>3 DEF Shape, Paid
      <4>2. base[r] \in Row /\ (LeavesPayment(copy[r], base[r]) \/ Tells(copy[r], collected[i]))
        BY <1>0, <2>5, <3>1 DEF SaveUpdate, Shape, Paid
      <4>3. Tells(new, collected[i]) /\ Made(split[i[1]], i[2], new)
        BY <2>2, <2>5, <4>1, <4>2, MergedTells, MergedMade
      <4>4. bill'[i] = new
        BY <1>0, <2>2, <2>5, <3>1, <3>3 DEF SaveUpdate, TypeOK
      <4> HIDE DEF new
      <4> QED BY <4>1, <4>3, <4>4, RowNotNull DEF Tells, Made
    <3> HIDE DEF new
    <3> QED BY <2>1, <3>2, <3>3, AccountKept DEF Moves
  <2>6. CASE i # id
    BY <2>1, <2>3, <2>6, AccountKept DEF Moves
  <2> QED BY <2>4, <2>5, <2>6
<1>6. ASSUME NEW r \in Requests, DeleteBatch(r)
      PROVE  Moves
  <2> DEFINE b == target[r]
  <2>1. /\ bill' = [id \in Ids |-> IF id \in Affected(b) THEN Null ELSE bill[id]]
        /\ returning' = returning \cup InHand(b)
        /\ UNCHANGED <<part, collected, reverted>>
    BY <1>6 DEF DeleteBatch, Replies, Goes, creation
  <2>2. CASE InHandAtChange(i)
    BY <1>void, <2>1, <2>2
  <2>3. CASE i \in InHand(b)
    <3>1. InHandAtChange(i)'
      BY <2>1, <2>3 DEF InHandAtChange
    <3> QED BY <3>1, AccountMoves DEF Moves
  <2>4. CASE ~InHandAtChange(i) /\ i \notin InHand(b)
    <3>1. ~InHandAtChange(i)'
      BY <2>1, <2>4 DEF InHandAtChange
    <3>2. CASE i \in Affected(b)
      <4>1. bill[i] # Null /\ bill'[i] = Null /\ part'[i] = "saved"
        BY <1>0, <2>1, <3>2 DEF Affected, Batch, Shape
      <4>2. Life(i) \in {"open", "closed"} /\ Life(i)' = "gone" /\ Due(i)' = 0 /\ Got(i)' = Got(i)
        BY <2>1, <2>4, <3>1, <4>1 DEF Life, Due, Got
      <4> QED BY <4>2, AccountMoves DEF Moves
    <3>3. CASE i \notin Affected(b)
      <4>1. bill'[i] = bill[i]
        BY <2>1, <3>3
      <4>2. Life(i)' = Life(i) /\ Due(i)' = Due(i) /\ Got(i)' = Got(i)
        BY <2>1, <2>4, <3>1, <4>1 DEF Life, Due, Got
      <4> QED BY <4>2, AccountMoves DEF Moves
    <3> QED BY <3>2, <3>3
  <2> QED BY <2>2, <2>3, <2>4
<1>7. ASSUME NEW id \in Ids, PayBill(id)
      PROVE  Moves
  <2> DEFINE row == bill[id]
  <2>1. PICK a \in 1..Remaining(row) :
          /\ bill' = [bill EXCEPT ![id] = [row EXCEPT !.paid = @ + a, !.isPaid = Closes(row, a)]]
          /\ collected' = [collected EXCEPT ![id] = @ + a]
    BY <1>7 DEF PayBill
  <2>2. /\ row # Null /\ ~row.isPaid /\ UNCHANGED <<part, returning>>
        /\ reverted \subseteq reverted' /\ reverted' \subseteq reverted \cup {id}
        /\ Made(split[id[1]], id[2], row)
    BY <1>0, <1>7 DEF PayBill, creation, Shape
  <2> DEFINE new == [row EXCEPT !.paid = @ + a, !.isPaid = Closes(row, a)]
  <2>3. new.amount = row.amount /\ new # Null /\ (new.isPaid <=> row.paid + a >= row.amount)
        /\ a \in Nat /\ a > 0 /\ row.paid + a <= row.amount
    <3>1. Made(split[id[1]], id[2], new) /\ a \in Nat /\ row.paid + a <= row.amount
      BY <2>2, PaidMade
    <3>2. row \in Row /\ a > 0
      BY <2>2 DEF Made, Row, Remaining
    <3>3. new.isPaid <=> row.paid + a >= row.amount
      <4> DEFINE closed == Closes(row, a)
                 mid == [row EXCEPT !.paid = @ + a]
      <4>1. mid \in Row
        BY <3>1, <3>2 DEF Row
      <4>2. closed <=> row.paid + a >= row.amount
        BY DEF Closes
      <4>3. new = [mid EXCEPT !.isPaid = closed]
        OBVIOUS
      <4> HIDE DEF mid, closed, new
      <4>4. new.isPaid = closed
        BY <4>1, <4>3 DEF Row
      <4> QED BY <4>2, <4>4
    <3> HIDE DEF new
    <3> QED BY <2>2, <3>1, <3>3, RowNotNull DEF Made
  <2>4. bill' = [bill EXCEPT ![id] = new]
    BY <2>1
  <2> HIDE DEF new
  <2>5. CASE InHandAtChange(i)
    BY <1>void, <2>2, <2>5
  <2>6. CASE i = id /\ ~InHandAtChange(i) /\ InHandAtChange(i)'
    BY <2>6, AccountMoves DEF Moves
  <2>7. CASE i = id /\ ~InHandAtChange(i) /\ ~InHandAtChange(i)'
    <3>1. bill'[i] = new /\ collected'[i] = collected[i] + a /\ i \notin reverted
      BY <1>0, <2>1, <2>4, <2>7 DEF TypeOK, InHandAtChange
    <3>2. collected[i] = row.paid /\ row.paid \in Nat /\ row.amount \in Nat
      BY <2>2, <2>7, <3>1 DEF Paid, Tells, Made, Row
    <3>3. /\ Life(i) = "open" /\ Life(i)' = (IF row.paid + a >= row.amount THEN "closed" ELSE "open")
          /\ Due(i) = row.amount /\ Due(i)' = row.amount
          /\ Got(i) = row.paid /\ Got(i)' = row.paid + a
      BY <2>2, <2>3, <2>7, <3>1, <3>2 DEF Life, Due, Got
    <3>4. /\ Got(i) < Got(i)' /\ Got(i)' <= Due(i)
          /\ Life(i)' = "closed" \/ (Life(i)' = "open" /\ Got(i)' < Due(i))
      BY <2>3, <3>2, <3>3
    <3> QED BY <3>3, <3>4, AccountMoves DEF Moves
  <2>8. CASE i # id
    <3>1. bill'[i] = bill[i] /\ collected'[i] = collected[i] /\ (InHandAtChange(i)' <=> InHandAtChange(i))
      BY <1>0, <2>1, <2>2, <2>8 DEF TypeOK, InHandAtChange
    <3>2. Life(i)' = Life(i) /\ Due(i)' = Due(i) /\ Got(i)' = Got(i)
      BY <2>2, <3>1 DEF Life, Due, Got
    <3> QED BY <3>2, AccountMoves DEF Moves
  <2> QED BY <2>5, <2>6, <2>7, <2>8
<1>8. ASSUME NEW g \in Groups, RemoveGroup(g)
      PROVE  Moves
  <2>1. /\ UNCHANGED <<part, collected, returning, reverted>>
        /\ bill'[i] = IF bill[i] # Null /\ bill[i].group = g
                      THEN [bill[i] EXCEPT !.group = Null] ELSE bill[i]
    BY <1>8 DEF RemoveGroup, creation, history
  <2>2. ASSUME NEW row \in Row
        PROVE  LET free == [row EXCEPT !.group = Null] IN
               free # Null /\ free.amount = row.amount /\ free.isPaid = row.isPaid
    <3>1. [row EXCEPT !.group = Null] \in Row
      BY DEF Row
    <3> QED BY <3>1, RowNotNull DEF Row
  <2>3. bill[i] # Null => bill[i] \in Row
    BY <1>0 DEF TypeOK
  <2> QED BY <2>1, <2>2, <2>3, AccountKept DEF Moves
<1>9. ASSUME NEW u \in Users, RemoveUser(u)
      PROVE  Moves
  <2>1. /\ UNCHANGED <<part, collected, returning, reverted>>
        /\ bill'[i] = bill[i] \/ (bill[i] # Null /\ bill'[i] = Null)
    BY <1>9 DEF RemoveUser, creation, history
  <2>2. CASE bill'[i] = bill[i]
    BY <2>1, <2>2, AccountKept DEF Moves
  <2>3. CASE InHandAtChange(i)
    BY <1>void, <2>1, <2>3
  <2>4. CASE bill[i] # Null /\ bill'[i] = Null /\ ~InHandAtChange(i)
    <3>1. part'[i] = "saved" /\ ~InHandAtChange(i)'
      BY <1>0, <2>1, <2>4 DEF Shape, InHandAtChange
    <3>2. Life(i) \in {"open", "closed"} /\ Life(i)' = "gone" /\ Due(i)' = 0 /\ Got(i)' = Got(i)
      BY <2>1, <2>4, <3>1 DEF Life, Due, Got
    <3> QED BY <3>2, AccountMoves DEF Moves
  <2> QED BY <2>1, <2>2, <2>3, <2>4
<1>10. CASE UNCHANGED vars
  <2>1. UNCHANGED <<bill, part, collected, returning, reverted>>
    BY <1>10 DEF vars, tables, creation, history
  <2> QED BY <2>1, AccountKept DEF Moves
<1> QED
  BY <1>1, <1>2, <1>3, <1>4, <1>5, <1>6, <1>7, <1>8, <1>9, <1>10 DEF Next, Moves

\* Every behaviour of the bills of batches is one of BillAccount: no insertion,
\* assignment or removal reopens, overpays or revives one, unless a copy of it was in
\* hand when it was paid or deleted.
THEOREM BatchBillsImplement == Spec => BillsAreAccounts
<1>1. Init => Told /\ Dead
  BY DEF Init, Told, Dead, Inserting, Steps
<1>2. Init => Account!Init
  BY DEF Init, Account!Init, InHandAtChange
<1>3. Typed /\ Told /\ Dead /\ Paid /\ [Next]_vars => [Account!Next]_(Account!vars)
  BY AccountStep
<1> QED
  BY <1>1, <1>2, <1>3, TypedInit, TypedStep, ToldStep, DeadStep, PaidInit, PaidStep, PTL
    DEF Spec, Account!Spec, BillsAreAccounts
=============================================================================
