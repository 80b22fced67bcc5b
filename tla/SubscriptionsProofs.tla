------------------------- MODULE SubscriptionsProofs -------------------------
(***************************************************************************)
(* Proofs about Subscriptions, for every set of concurrent calls, set of   *)
(* provider events, period length and bound.  The first invariant types   *)
(* the rows and the calls' locals, and says what each kind of call         *)
(* carries: a roll only ever writes a free period, and a grant a period of *)
(* full length.                                                            *)
(*                                                                         *)
(* The second is about time.  That active periods do not overlap is not    *)
(* inductive: a roll, which looks only at the present, would meet a        *)
(* renewal further on.  It cannot, since what is active has no gap between *)
(* now and its last start; and a call under which nobody wrote still sees  *)
(* the rows it decided on.                                                 *)
(***************************************************************************)
EXTENDS Subscriptions, SequenceTheorems, WellFoundedInduction, TLAPS

RowSet == [plan : Plans, start : Int, end : Int, status : {"active", "cancelled"},
           origin : Modes \cup {"default", "roll"}, event : Events \cup {"none"}]

CallSet == [mode : Modes \cup {"none"}, at : Int, plan : Plans,
            event : Events \cup {"none"}, start : Int, end : Int, seen : Nat,
            targets : SUBSET Nat, base : Nat]

Typed == rows \in Seq(RowSet) /\ call \in [Calls -> CallSet]

Labels == {"idle", "select", "lock", "insert", "read", "cancel", "commit"}

\* What a call with locals v knows when its next statement is `label`.
Knows(label, v) ==
  /\ v.targets \subseteq DOMAIN rows
  /\ label \in {"select", "lock", "insert"} => v.plan = "free"
  /\ label \in {"lock", "insert"} => v.seen \in DOMAIN rows
  /\ label \in {"read", "cancel", "commit"} => v.mode \in Modes
  /\ label \in {"cancel", "commit"} => v.end = v.start + PeriodLength

AllKnow == \A c \in Calls : Knows(pc[c], call[c])

\* No active period covers t.
Unserved(t) == \A i \in DOMAIN rows : ~Covers(i, t)

IInv == Typed /\ TypeOK /\ AllKnow /\ GrantedOnce /\ PaidNeverRolls

-----------------------------------------------------------------------------
\* Finitely many integers and zero have a maximum: there is no least length of
\* a family without one.
LEMMA FamilyMax ==
  ASSUME NEW n \in Nat, NEW f \in [1 .. n -> Int]
  PROVE  \E m \in {f[i] : i \in 1 .. n} \cup {0} :
           \A x \in {f[i] : i \in 1 .. n} \cup {0} : m >= x
<1> DEFINE Prefix(k) == {f[i] : i \in 1 .. k} \cup {0}
           Bounded(k) == \E m \in Prefix(k) : \A x \in Prefix(k) : m >= x
           Bad == {k \in 0 .. n : ~Bounded(k)}
<1>1. ASSUME NEW k \in 1 .. n PROVE Prefix(k) = Prefix(k - 1) \cup {f[k]}
  OBVIOUS
<1>2. ASSUME NEW k \in 0 .. n PROVE Prefix(k) \subseteq Int
  OBVIOUS
<1>3. Bounded(0)
  <2>1. Prefix(0) = {0}
    OBVIOUS
  <2>2. QED
    BY <2>1
<1>4. ASSUME NEW k \in 1 .. n, Bounded(k - 1) PROVE Bounded(k)
  <2>1. PICK m \in Prefix(k - 1) : \A x \in Prefix(k - 1) : m >= x
    BY <1>4
  <2>2. m \in Int /\ f[k] \in Int /\ Prefix(k - 1) \subseteq Int
    BY <1>2
  <2> HIDE DEF Prefix
  <2>3. CASE m >= f[k]
    BY <1>1, <2>1, <2>2, <2>3
  <2>4. CASE f[k] > m
    BY <1>1, <2>1, <2>2, <2>4
  <2>5. QED
    BY <2>2, <2>3, <2>4
<1>5. Bad \subseteq Nat
  OBVIOUS
<1> HIDE DEF Bounded
<1>6. Bad = {}
  <2>1. SUFFICES ASSUME Bad # {} PROVE FALSE
    OBVIOUS
  <2>2. PICK k \in Bad : \A j \in Bad : ~(<<j, k>> \in OpToRel(<, Nat))
    <3> HIDE DEF Bad
    <3>1. QED
      BY <1>5, <2>1, NatLessThanWellFounded, WFMin
  <2>3. \A j \in Bad : ~(j < k)
    <3> HIDE DEF Bad
    <3>1. QED
      BY <1>5, <2>2 DEF OpToRel
  <2>4. k \in 1 .. n
    BY <1>3
  <2>5. Bounded(k - 1)
    BY <2>3, <2>4
  <2>6. QED
    BY <1>4, <2>4, <2>5
<1>7. Bounded(n)
  BY <1>6
<1>8. QED
  BY <1>7 DEF Bounded

\* Max of such a set is one of its elements, and none is above it.
LEMMA MaxOf ==
  ASSUME NEW n \in Nat, NEW f \in [1 .. n -> Int]
  PROVE  /\ Max({f[i] : i \in 1 .. n} \cup {0}) \in {f[i] : i \in 1 .. n} \cup {0}
         /\ \A x \in {f[i] : i \in 1 .. n} \cup {0} : Max({f[i] : i \in 1 .. n} \cup {0}) >= x
BY FamilyMax DEF Max

LEMMA LatestEndFact ==
  ASSUME rows \in Seq(RowSet)
  PROVE  LatestEnd \in Int /\ \A i \in DOMAIN rows : rows[i].end <= LatestEnd
<1> DEFINE f == [i \in 1 .. Len(rows) |-> rows[i].end]
<1>1. Len(rows) \in Nat /\ DOMAIN rows = 1 .. Len(rows)
  BY LenProperties
<1>2. f \in [1 .. Len(rows) -> Int]
  <2>1. \A i \in 1 .. Len(rows) : rows[i] \in RowSet
    BY ElementOfSeq
  <2>2. \A i \in 1 .. Len(rows) : rows[i].end \in Int
    BY <2>1 DEF RowSet
  <2>3. QED
    BY <2>2
<1>3. {rows[i].end : i \in DOMAIN rows} = {f[i] : i \in 1 .. Len(rows)}
  BY <1>1
<1>4. {f[i] : i \in 1 .. Len(rows)} \cup {0} \subseteq Int
  BY <1>2
<1> HIDE DEF f
<1> DEFINE ends == {f[i] : i \in 1 .. Len(rows)} \cup {0}
<1>5. Max(ends) \in ends /\ \A x \in ends : Max(ends) >= x
  BY <1>1, <1>2, MaxOf
<1>6. ends \subseteq Int /\ LatestEnd = Max(ends)
  BY <1>3, <1>4 DEF LatestEnd
<1>7. \A i \in DOMAIN rows : rows[i].end \in ends
  BY <1>3
<1> HIDE DEF ends
<1>8. QED
  BY <1>5, <1>6, <1>7

LEMMA ServedFact ==
  ASSUME rows \in Seq(RowSet), NEW t
  PROVE  /\ Served(t) \in DOMAIN rows \cup {NoRow}
         /\ Served(t) = NoRow => Unserved(t)
         /\ Served(t) # NoRow => Served(t) \in DOMAIN rows /\ Covers(Served(t), t)
<1> DEFINE f == [i \in 1 .. Len(rows) |-> IF Covers(i, t) THEN i ELSE 0]
<1>1. Len(rows) \in Nat /\ DOMAIN rows = 1 .. Len(rows)
  BY LenProperties
<1>2. f \in [1 .. Len(rows) -> Int]
  OBVIOUS
<1>3. {i \in DOMAIN rows : Covers(i, t)} \cup {NoRow} = {f[i] : i \in 1 .. Len(rows)} \cup {0}
  BY <1>1 DEF NoRow
<1>4. {i \in DOMAIN rows : Covers(i, t)} \cup {NoRow} \subseteq DOMAIN rows \cup {NoRow}
  OBVIOUS
<1> HIDE DEF f
<1> DEFINE covering == {f[i] : i \in 1 .. Len(rows)} \cup {0}
<1>5. Max(covering) \in covering /\ \A x \in covering : Max(covering) >= x
  BY <1>1, <1>2, MaxOf
<1>6. covering = {i \in DOMAIN rows : Covers(i, t)} \cup {NoRow} /\ Served(t) = Max(covering)
  BY <1>3 DEF Served
<1> HIDE DEF covering
<1>7. /\ Served(t) \in {i \in DOMAIN rows : Covers(i, t)} \cup {NoRow}
      /\ \A x \in {i \in DOMAIN rows : Covers(i, t)} \cup {NoRow} : Served(t) >= x
  BY <1>5, <1>6
<1>8. Served(t) = NoRow => Unserved(t)
  <2> SUFFICES ASSUME Served(t) = 0, NEW i \in DOMAIN rows, Covers(i, t) PROVE FALSE
    BY DEF Unserved, NoRow
  <2>1. 0 >= i
    BY <1>7
  <2>2. QED
    BY <1>1, <2>1
<1>9. QED
  BY <1>7, <1>8

LEMMA MaxOfTwo ==
  ASSUME NEW a \in Int, NEW b \in Int
  PROVE  /\ Max({a, b}) \in Int /\ Max({a, b}) >= a /\ Max({a, b}) >= b
         /\ Max({a, b}) \in {a, b}
<1>1. \E m \in {a, b} : \A x \in {a, b} : m >= x
  OBVIOUS
<1>2. QED
  BY <1>1 DEF Max

-----------------------------------------------------------------------------
\* The two kinds of step: a statement that only changes the locals of its call,
\* and one that adds a row (and perhaps cancels others) and ends its call.
LEMMA LocalStep ==
  ASSUME IInv, NEW c \in Calls, NEW label \in Labels, NEW v \in CallSet,
         Goto(c, label), call' = [call EXCEPT ![c] = v], Knows(label, v),
         UNCHANGED <<now, rows, clean>>
  PROVE  IInv'
<1> USE DEF IInv
<1>1. Typed'
  BY DEF Typed
<1>2. pc' \in [Calls -> Labels] /\ \A b \in Calls :
        /\ pc'[b] = IF b = c THEN label ELSE pc[b]
        /\ call'[b] = IF b = c THEN v ELSE call[b]
  BY DEF Goto, TypeOK, Typed, Labels
<1>3. AllKnow'
  BY <1>2 DEF AllKnow, Knows
<1>4. TypeOK'
  BY <1>2, <1>3 DEF TypeOK, AllKnow, Knows, Labels
<1>5. GrantedOnce' /\ PaidNeverRolls'
  BY DEF GrantedOnce, PaidNeverRolls
<1>6. QED
  BY <1>1, <1>3, <1>4, <1>5

LEMMA NoCallType == NoCall \in CallSet /\ Knows("idle", NoCall)
BY DEF NoCall, CallSet, Knows, Plans, NoRow

LEMMA RowStep ==
  ASSUME IInv, NEW c \in Calls, NEW old \in Seq(RowSet), NEW row \in RowSet,
         Len(old) = Len(rows),
         \A i \in DOMAIN rows : /\ old[i].plan = rows[i].plan
                                /\ old[i].origin = rows[i].origin
                                /\ old[i].event = rows[i].event
                                /\ old[i].end = old[i].start + PeriodLength,
         row.end = row.start + PeriodLength,
         row.origin = "roll" => row.plan = "free",
         row.event = "none" \/ ~Granted(row.event),
         rows' = Append(old, row), Finish(c), now' = now, clean' \in BOOLEAN
  PROVE  IInv'
<1> USE DEF IInv
<1>1. /\ DOMAIN rows = 1 .. Len(rows) /\ DOMAIN old = 1 .. Len(rows)
      /\ Len(rows) \in Nat
  BY LenProperties DEF Typed
<1>2. rows' \in Seq(RowSet) /\ Len(rows') = Len(rows) + 1
  BY AppendProperties
<1>3. \A i \in DOMAIN rows : rows'[i] = old[i]
  BY <1>1, AppendProperties
<1>4. rows'[Len(rows) + 1] = row
  BY AppendProperties
<1>5. DOMAIN rows' = DOMAIN rows \cup {Len(rows) + 1} /\ Len(rows) + 1 \notin DOMAIN rows
  BY <1>1, <1>2, LenProperties
<1>6. Typed'
  BY <1>2, NoCallType DEF Typed, Finish
<1>7. pc' \in [Calls -> Labels] /\ \A b \in Calls :
        /\ pc'[b] = IF b = c THEN "idle" ELSE pc[b]
        /\ call'[b] = IF b = c THEN NoCall ELSE call[b]
  BY DEF Finish, Goto, TypeOK, Typed, Labels
<1>8. AllKnow'
  <2> SUFFICES ASSUME NEW b \in Calls PROVE Knows(pc[b], call[b])'
    BY DEF AllKnow
  <2>1. CASE b = c
    BY <1>7, <2>1 DEF Knows, NoCall
  <2>2. CASE b # c
    BY <1>5, <1>7, <2>2 DEF AllKnow, Knows
  <2>3. QED
    BY <2>1, <2>2
<1>9. TypeOK'
  <2>1. \A i \in DOMAIN rows' :
          rows'[i] \in RowSet /\ rows'[i].end = rows'[i].start + PeriodLength
    <3>1. \A i \in DOMAIN rows' : rows'[i] \in RowSet
      BY <1>2, LenProperties, ElementOfSeq
    <3>2. QED
      BY <1>3, <1>4, <1>5, <3>1
  <2>2. \A b \in Calls : call'[b].targets \subseteq DOMAIN rows'
    BY <1>8 DEF AllKnow, Knows
  <2>3. QED
    BY <1>7, <2>1, <2>2 DEF TypeOK, RowSet, Labels
<1>10. GrantedOnce'
  BY <1>3, <1>4, <1>5 DEF GrantedOnce, Granted
<1>11. PaidNeverRolls'
  BY <1>3, <1>4, <1>5 DEF PaidNeverRolls
<1>12. QED
  BY <1>6, <1>8, <1>9, <1>10, <1>11

-----------------------------------------------------------------------------
LEMMA InitIInv == Init => IInv
<1> SUFFICES ASSUME Init PROVE IInv
  OBVIOUS
<1>1. Row("free", 0, PeriodLength, "default", "none") \in RowSet
  BY LengthsAssumption DEF Row, RowSet, Plans
<1>2. rows \in Seq(RowSet) /\ \A i \in DOMAIN rows :
        rows[i] = Row("free", 0, PeriodLength, "default", "none") /\ i = 1
  <2>1. CASE rows = <<>>
    BY <2>1
  <2>2. CASE rows = <<Row("free", 0, PeriodLength, "default", "none")>>
    <3> DEFINE first == Row("free", 0, PeriodLength, "default", "none")
    <3> HIDE DEF first
    <3>1. /\ <<first>> \in Seq(RowSet)
          /\ \A i \in DOMAIN <<first>> : <<first>>[i] = first /\ i = 1
      BY <1>1 DEF first
    <3>2. QED
      BY <2>2, <3>1 DEF first
  <2>3. QED
    BY <2>1, <2>2 DEF Init
<1>3. Typed
  BY <1>2, NoCallType DEF Init, Typed
<1>4. AllKnow
  BY DEF Init, AllKnow, Knows, NoCall
<1>5. TypeOK
  BY <1>2, <1>4, BoundsAssumption, LengthsAssumption
     DEF Init, TypeOK, AllKnow, Knows, Row, Plans
<1>6. GrantedOnce /\ PaidNeverRolls
  BY <1>2 DEF GrantedOnce, PaidNeverRolls, Row
<1>7. QED
  BY <1>3, <1>4, <1>5, <1>6 DEF IInv

LEMMA CallFacts ==
  ASSUME IInv, NEW c \in Calls
  PROVE  /\ call \in [Calls -> CallSet] /\ call[c] \in CallSet
         /\ Knows(pc[c], call[c]) /\ now \in Int /\ rows \in Seq(RowSet)
         /\ Len(rows) \in Nat /\ DOMAIN rows = 1 .. Len(rows)
<1>1. call \in [Calls -> CallSet] /\ rows \in Seq(RowSet)
  BY DEF IInv, Typed
<1>2. now \in Int
  BY BoundsAssumption DEF IInv, TypeOK
<1>3. Knows(pc[c], call[c])
  BY DEF IInv, AllKnow
<1>4. QED
  BY <1>1, <1>2, <1>3, LenProperties

\* The statements of a roll.
LEMMA RollIInv ==
  ASSUME IInv, NEW c \in Calls, ReadActive(c) \/ SelectLast(c) \/ LockLast(c)
  PROVE  IInv'
<1>1. UNCHANGED <<now, rows, clean>>
  BY DEF ReadActive, SelectLast, LockLast
<1>2. /\ call \in [Calls -> CallSet] /\ call[c] \in CallSet
      /\ Knows(pc[c], call[c]) /\ now \in Int /\ rows \in Seq(RowSet)
      /\ Len(rows) \in Nat /\ DOMAIN rows = 1 .. Len(rows)
  BY CallFacts
<1>3. CASE Finish(c)
  BY <1>1, <1>2, <1>3, NoCallType, LocalStep DEF Finish, Labels
<1>4. CASE ReadActive(c)
  <2> DEFINE v == [NoCall EXCEPT !.at = now, !.base = Len(rows)]
  <2>1. v \in CallSet
    BY <1>2, NoCallType DEF CallSet
  <2>4. Knows("select", v)
    BY DEF NoCall, Knows
  <2>2. Goto(c, "select") /\ call' = [call EXCEPT ![c] = v]
    BY <1>4 DEF ReadActive
  <2> HIDE DEF v
  <2>3. QED
    BY <1>1, <1>2, <2>1, <2>2, <2>4, LocalStep DEF Labels
<1>5. CASE SelectLast(c) /\ ~Finish(c)
  <2> DEFINE v == [call[c] EXCEPT !.seen = Len(rows)]
  <2>1. rows # <<>> /\ pc[c] = "select" /\ Goto(c, "lock")
        /\ call' = [call EXCEPT ![c].seen = Len(rows)]
    BY <1>5 DEF SelectLast
  <2>2. Len(rows) \in DOMAIN rows
    BY <1>2, <2>1, EmptySeq DEF IInv, Typed
  <2>3. v \in CallSet /\ Knows("lock", v)
    BY <1>1, <1>2, <2>1, <2>2 DEF CallSet, Knows
  <2>4. call' = [call EXCEPT ![c] = v]
    BY <2>1
  <2> HIDE DEF v
  <2>5. QED
    BY <1>1, <1>2, <2>1, <2>3, <2>4, LocalStep DEF Labels
<1>6. CASE LockLast(c) /\ ~Finish(c)
  <2>1. pc[c] = "lock" /\ Goto(c, "insert") /\ UNCHANGED call
    BY <1>6 DEF LockLast
  <2>2. call' = [call EXCEPT ![c] = call[c]]
    BY <1>1, <1>2, <2>1
  <2>3. Knows("insert", call[c])
    BY <1>1, <1>2, <2>1 DEF Knows
  <2>4. QED
    BY <1>1, <1>2, <2>1, <2>2, <2>3, LocalStep DEF Labels
<1>7. QED
  BY <1>3, <1>4, <1>5, <1>6

\* The statements of a grant before its writes, and a worker that dies.
LEMMA GrantIInv ==
  ASSUME IInv, NEW c \in Calls, Deliver(c) \/ ReadPeriods(c) \/ CancelActive(c) \/ Die(c)
  PROVE  IInv'
<1>1. UNCHANGED <<now, rows, clean>>
  BY DEF Deliver, ReadPeriods, CancelActive, Die
<1>2. /\ call \in [Calls -> CallSet] /\ call[c] \in CallSet
      /\ Knows(pc[c], call[c]) /\ now \in Int /\ rows \in Seq(RowSet)
      /\ Len(rows) \in Nat /\ DOMAIN rows = 1 .. Len(rows)
  BY CallFacts
<1>3. CASE Die(c)
  BY <1>1, <1>2, <1>3, NoCallType, LocalStep DEF Die, Finish, Labels
<1>4. CASE Deliver(c)
  <2>1. PICK mode \in Modes, plan \in Plans, event \in Events \cup {"none"} :
          call' = [call EXCEPT ![c] = Called(mode, plan, event)]
    BY <1>4 DEF Deliver
  <2> DEFINE v == Called(mode, plan, event)
  <2>2. v \in CallSet
    BY <1>2, NoCallType DEF CallSet, Called
  <2>5. Knows("read", v)
    BY DEF NoCall, Knows, Called
  <2>3. Goto(c, "read") /\ call' = [call EXCEPT ![c] = v]
    BY <1>4, <2>1 DEF Deliver
  <2> HIDE DEF v
  <2>4. QED
    BY <1>1, <1>2, <2>2, <2>3, <2>5, LocalStep DEF Labels
<1>5. CASE ReadPeriods(c)
  <2>1. PICK start \in Int, end \in Int, targets \in SUBSET DOMAIN rows :
          SetPeriod(c, start, end, targets) /\ end = start + PeriodLength
    <3>1. call[c].at \in Int /\ PeriodLength \in Int
      BY <1>1, <1>2, LengthsAssumption DEF CallSet
    <3>2. CASE FreshPeriod(c, Max({call[c].at, LatestEnd}))
      <4> DEFINE m == Max({call[c].at, LatestEnd})
      <4>1. LatestEnd \in Int
        BY <1>2, LatestEndFact
      <4>2. m \in Int
        BY <3>1, <4>1, MaxOfTwo, Zenon
      <4>3. m + PeriodLength \in Int /\ {} \in SUBSET DOMAIN rows
        BY <3>1, <4>2
      <4>4. SetPeriod(c, m, m + PeriodLength, {})
        BY <3>2 DEF FreshPeriod
      <4> HIDE DEF m
      <4>5. QED
        BY <4>2, <4>3, <4>4
    <3>3. CASE FreshPeriod(c, call[c].at)
      <4> DEFINE m == call[c].at
      <4>1. m \in Int /\ m + PeriodLength \in Int /\ {} \in SUBSET DOMAIN rows
        BY <3>1
      <4>2. SetPeriod(c, m, m + PeriodLength, {})
        BY <3>3 DEF FreshPeriod
      <4> HIDE DEF m
      <4>3. QED
        BY <4>1, <4>2
    <3>4. ASSUME NEW i \in DOMAIN rows, SetPeriod(c, rows[i].start, rows[i].end, {i})
          PROVE  \E start \in Int, end \in Int, targets \in SUBSET DOMAIN rows :
                   SetPeriod(c, start, end, targets) /\ end = start + PeriodLength
      <4>1. rows[i] \in RowSet /\ rows[i].end = rows[i].start + PeriodLength
        BY <1>1, <1>2, <3>4, ElementOfSeq DEF IInv, TypeOK
      <4>2. rows[i].start \in Int /\ rows[i].end \in Int /\ {i} \in SUBSET DOMAIN rows
        BY <4>1 DEF RowSet
      <4>3. QED
        BY <3>4, <4>1, <4>2
    <3>5. QED
      BY <1>1, <1>2, <1>5, <3>2, <3>3, <3>4, ServedFact DEF ReadPeriods
  <2> DEFINE v == [call[c] EXCEPT !.start = start, !.end = end, !.targets = targets]
  <2>2. PICK label \in {"cancel", "commit"} : Goto(c, label) /\ pc[c] = "read"
    BY <1>5 DEF ReadPeriods
  <2>3. v \in CallSet
    <3>1. targets \in SUBSET Nat
      BY <1>2
    <3>2. QED
      BY <1>2, <3>1 DEF CallSet
  <2>6. Knows(label, v)
    BY <1>2, <2>1, <2>2 DEF CallSet, Knows
  <2>4. call' = [call EXCEPT ![c] = v]
    BY <1>1, <1>2, <2>1 DEF SetPeriod
  <2> HIDE DEF v
  <2>5. QED
    BY <1>1, <1>2, <2>2, <2>3, <2>4, <2>6, LocalStep DEF Labels
<1>6. CASE CancelActive(c)
  <2> DEFINE t == {i \in DOMAIN rows : Active(i)}
             v == [call[c] EXCEPT !.targets = t]
  <2>1. t \subseteq DOMAIN rows /\ t \subseteq Nat
    BY <1>2
  <2>2. call' = [call EXCEPT ![c].targets = t] /\ Goto(c, "commit") /\ pc[c] = "cancel"
    BY <1>6 DEF CancelActive
  <2> HIDE DEF t
  <2>3. v \in CallSet /\ Knows("commit", v)
    BY <1>1, <1>2, <2>1, <2>2 DEF CallSet, Knows
  <2>4. call' = [call EXCEPT ![c] = v]
    BY <2>2
  <2> HIDE DEF v
  <2>5. QED
    BY <1>1, <1>2, <2>2, <2>3, <2>4, LocalStep DEF Labels
<1>7. QED
  BY <1>3, <1>4, <1>5, <1>6

\* The statements that write.
LEMMA WriteIInv ==
  ASSUME IInv, NEW c \in Calls, InsertRolled(c) \/ Commit(c) PROVE IInv'
<1>1. /\ call \in [Calls -> CallSet] /\ call[c] \in CallSet
      /\ Knows(pc[c], call[c]) /\ rows \in Seq(RowSet)
      /\ Len(rows) \in Nat /\ DOMAIN rows = 1 .. Len(rows)
  BY CallFacts
<1>2. now' = now /\ Finish(c) /\ clean \in BOOLEAN
  BY DEF InsertRolled, Commit, IInv, TypeOK
<1>3. \A i \in DOMAIN rows : rows[i] \in RowSet /\ rows[i].end = rows[i].start + PeriodLength
  BY <1>1, ElementOfSeq DEF IInv, TypeOK
<1>4. CASE InsertRolled(c)
  <2> DEFINE row == Row(call[c].plan, call[c].at, call[c].at + PeriodLength, "roll", "none")
  <2>1. row \in RowSet /\ row.end = row.start + PeriodLength
        /\ row.event = "none" /\ row.plan = "free"
    BY <1>1, <1>4, LengthsAssumption DEF Row, RowSet, CallSet, Knows, InsertRolled
  <2>2. rows' = Append(rows, row) /\ clean' \in BOOLEAN
    BY <1>2, <1>4 DEF InsertRolled
  <2> HIDE DEF row
  <2>3. QED
    BY <1>1, <1>2, <1>3, <2>1, <2>2, RowStep
<1>5. CASE Commit(c) /\ UNCHANGED <<rows, clean>>
  BY <1>2, <1>5, NoCallType, LocalStep DEF Finish, Labels
<1>6. CASE Commit(c) /\ Write(c) /\ (call[c].event = "none" \/ ~Granted(call[c].event))
  <2> DEFINE row == Row(call[c].plan, call[c].start, call[c].end,
                        call[c].mode, call[c].event)
             old == [i \in DOMAIN rows |->
                       IF i \in call[c].targets
                         THEN [rows[i] EXCEPT !.status = "cancelled"] ELSE rows[i]]
  <2>1. pc[c] = "commit" /\ (call[c].event = "none" \/ ~Granted(call[c].event))
    BY <1>6 DEF Commit
  <2>2. row \in RowSet /\ row.end = row.start + PeriodLength
        /\ row.event = call[c].event /\ row.origin # "roll"
    BY <1>1, <2>1 DEF Row, RowSet, CallSet, Knows, Modes
  <2>3. \A i \in DOMAIN rows :
          /\ old[i] \in RowSet
          /\ old[i].plan = rows[i].plan /\ old[i].origin = rows[i].origin
          /\ old[i].event = rows[i].event
          /\ old[i].end = old[i].start + PeriodLength
    BY <1>3 DEF RowSet
  <2>4. old \in Seq(RowSet) /\ Len(old) = Len(rows)
    <3>1. old \in [1 .. Len(rows) -> RowSet]
      BY <1>1, <2>3
    <3> HIDE DEF old
    <3>2. old \in Seq(RowSet)
      BY <1>1, <3>1, SeqDef
    <3>3. QED
      BY <1>1, <3>1, <3>2, LenProperties
  <2>5. rows' = Append(old, row) /\ clean' \in BOOLEAN
    BY <1>2, <1>6 DEF Write
  <2> HIDE DEF row, old
  <2>6. QED
    BY <1>2, <2>1, <2>2, <2>3, <2>4, <2>5, RowStep
<1>7. QED
  BY <1>4, <1>5, <1>6 DEF Commit

LEMMA NextIInv == IInv /\ [Next]_vars => IInv'
<1> SUFFICES ASSUME IInv, [Next]_vars PROVE IInv'
  OBVIOUS
<1>1. ASSUME NEW c \in Calls,
             \/ ReadActive(c) \/ SelectLast(c) \/ LockLast(c) \/ InsertRolled(c)
             \/ Deliver(c) \/ ReadPeriods(c) \/ CancelActive(c) \/ Commit(c) \/ Die(c)
      PROVE  IInv'
  BY <1>1, RollIInv, GrantIInv, WriteIInv
<1>2. ASSUME UNCHANGED <<rows, pc, call, clean>>, now' \in 0 .. MaxTime PROVE IInv'
  BY <1>2 DEF IInv, Typed, TypeOK, AllKnow, Knows, GrantedOnce, PaidNeverRolls
<1>3. CASE Tick
  <2>1. now' \in 0 .. MaxTime
    BY <1>3, BoundsAssumption DEF Tick, IInv, TypeOK
  <2>2. QED
    BY <1>2, <1>3, <2>1 DEF Tick
<1>4. CASE UNCHANGED vars
  BY <1>2, <1>4 DEF vars, IInv, TypeOK
<1>5. QED
  BY <1>1, <1>3, <1>4 DEF Next

THEOREM Invariance == Spec => []IInv
BY InitIInv, NextIInv, PTL DEF Spec

-----------------------------------------------------------------------------
(* The timeline *)

\* What is active up to t and beyond has no gap: from u on, every instant up to
\* the start of an active period is covered.
NoGap(u) ==
  \A i \in DOMAIN rows : Active(i) =>
    \A t \in Int : u <= t /\ t <= rows[i].start => \E j \in DOMAIN rows : Covers(j, t)

\* How a call with locals v settled its period: chained behind all others, in
\* place of the current one, or from its own moment on in place of all.
Chains(v) == v.targets = {} /\ v.start >= v.at /\ \A i \in DOMAIN rows : rows[i].end <= v.start
Inherits(v) ==
  \E k \in DOMAIN rows : /\ Covers(k, v.at) /\ v.targets = {k}
                         /\ v.start = rows[k].start /\ v.end = rows[k].end
Opens(v) == v.start = v.at /\ (v.mode = "assign" => Unserved(v.at))
Replaces(v) == Opens(v) /\ v.targets = {i \in DOMAIN rows : Active(i)}

\* What a call knows of the rows, as long as nobody wrote since it began.
Sees(label, v) ==
  /\ NoGap(v.at)
  /\ label \in {"select", "lock", "insert"} => Unserved(v.at)
  /\ label = "cancel" => v.mode # "renew" /\ Opens(v)
  /\ label = "commit" /\ v.mode = "renew" => Chains(v)
  /\ label = "commit" /\ v.mode # "renew" => Inherits(v) \/ Replaces(v)

Undisturbed(label, v) ==
  label # "idle" =>
    /\ v.at <= now /\ v.base <= Len(rows)
    /\ clean /\ Len(rows) = v.base => Sees(label, v)

AllUndisturbed == \A c \in Calls : Undisturbed(pc[c], call[c])
Contiguous == clean => NoGap(now)

TimelineInv == Contiguous /\ AllUndisturbed /\ OneTimeline

\* A statement that only changes the locals of its call.
LEMMA LocalTimeline ==
  ASSUME IInv, TimelineInv, NEW c \in Calls, NEW label, NEW v,
         Goto(c, label), call' = [call EXCEPT ![c] = v], Undisturbed(label, v),
         UNCHANGED <<now, rows, clean>>
  PROVE  TimelineInv'
<1>1. Contiguous' /\ OneTimeline'
  BY DEF TimelineInv, Contiguous, NoGap, OneTimeline, Active, Covers, Overlap
<1>2. \A b \in Calls : /\ pc'[b] = IF b = c THEN label ELSE pc[b]
                       /\ call'[b] = IF b = c THEN v ELSE call[b]
  BY DEF Goto, IInv, TypeOK, Typed
<1>3. \A l, w : Undisturbed(l, w)' <=> Undisturbed(l, w)
  BY DEF Undisturbed, Sees, NoGap, Unserved, Opens, Chains, Inherits, Replaces, Active, Covers
<1>4. AllUndisturbed'
  BY <1>2, <1>3 DEF TimelineInv, AllUndisturbed
<1>5. QED
  BY <1>1, <1>4 DEF TimelineInv

\* Row n is added and those of `targets` are cancelled.
Adds(n, start, end, targets) ==
  /\ Len(rows) \in Nat /\ DOMAIN rows = 1 .. Len(rows) /\ n = Len(rows) + 1
  /\ Len(rows') = n /\ DOMAIN rows' = DOMAIN rows \cup {n}
  /\ \A i \in DOMAIN rows :
       /\ rows'[i].start = rows[i].start /\ rows'[i].end = rows[i].end
       /\ rows'[i].status = "active" <=> Active(i) /\ i \notin targets
  /\ rows'[n].status = "active"
  /\ rows'[n].start = start /\ rows'[n].end = end

\* No active period meets the new one, which leaves no gap.
Fits(start, end, targets) ==
  /\ \A i \in DOMAIN rows \ targets : Active(i) => rows[i].end <= start \/ end <= rows[i].start
  /\ NoGap(now)'

LEMMA RowsTyped ==
  ASSUME IInv
  PROVE  \A i \in DOMAIN rows : /\ rows[i].start \in Int /\ rows[i].end \in Int
                                /\ rows[i].end = rows[i].start + PeriodLength
<1>1. rows \in Seq(RowSet)
  BY DEF IInv, Typed
<1>2. \A i \in DOMAIN rows : rows[i] \in RowSet
  BY <1>1, LenProperties, ElementOfSeq
<1>3. QED
  BY <1>2 DEF RowSet, IInv, TypeOK

\* A row added by a call that nobody wrote under.
LEMMA RowTimeline ==
  ASSUME IInv, TimelineInv, NEW c \in Calls, Finish(c), now' = now,
         NEW start \in Int, NEW end \in Int, NEW targets, NEW n, Adds(n, start, end, targets),
         clean' => clean, clean' => Fits(start, end, targets)
  PROVE  TimelineInv'
<1>1. Contiguous'
  BY DEF Contiguous, Fits
<1>2. \A b \in Calls : /\ pc'[b] = IF b = c THEN "idle" ELSE pc[b]
                       /\ b # c => call'[b] = call[b]
  BY DEF Finish, Goto, IInv, TypeOK, Typed
<1>3. \A b \in Calls : call[b].base \in Nat
  BY DEF IInv, Typed, CallSet
<1>4. AllUndisturbed'
  <2> SUFFICES ASSUME NEW b \in Calls, b # c, pc[b] # "idle"
               PROVE  Undisturbed(pc[b], call[b])'
    BY <1>2 DEF AllUndisturbed, Undisturbed
  <2>1. call[b].at <= now /\ call[b].base <= Len(rows)
    BY DEF TimelineInv, AllUndisturbed, Undisturbed
  <2>2. call[b].base <= Len(rows') /\ Len(rows') # call[b].base
    BY <1>3, <2>1 DEF Adds
  <2>3. QED
    BY <1>2, <2>1, <2>2 DEF Undisturbed
<1>5. OneTimeline'
  <2> SUFFICES ASSUME clean', NEW i \in DOMAIN rows', NEW j \in DOMAIN rows',
                      Active(i)', Active(j)', i # j
               PROVE  rows'[i].end <= rows'[j].start \/ rows'[j].end <= rows'[i].start
    <3>1. \A i \in DOMAIN rows' : rows'[i].start \in Int /\ rows'[i].end \in Int
      BY RowsTyped DEF Adds
    <3>2. QED
      BY <3>1 DEF OneTimeline, Overlap
  <2>1. clean /\ Fits(start, end, targets)
    OBVIOUS
  <2>2. CASE i \in DOMAIN rows /\ j \in DOMAIN rows
    <3>1. ~Overlap(i, j)
      BY <2>1, <2>2 DEF Adds, TimelineInv, OneTimeline, Active
    <3>2. QED
      BY <2>2, <3>1, RowsTyped DEF Adds, Overlap
  <2>3. CASE i = n /\ j \in DOMAIN rows
    BY <2>1, <2>3 DEF Adds, Fits, Active
  <2>4. CASE j = n /\ i \in DOMAIN rows
    BY <2>1, <2>4 DEF Adds, Fits, Active
  <2>5. QED
    BY <2>2, <2>3, <2>4 DEF Adds
<1>6. QED
  BY <1>1, <1>4, <1>5 DEF TimelineInv

\* What is covered after a row was added.
LEMMA CoversNext ==
  ASSUME NEW start, NEW end, NEW targets, NEW n, Adds(n, start, end, targets), NEW t
  PROVE  /\ \A j \in DOMAIN rows : Covers(j, t)' <=> Covers(j, t) /\ j \notin targets
         /\ Covers(n, t)' <=> start <= t /\ t < end
BY DEF Adds, Covers, Active

LEMMA CoverStays ==
  ASSUME NEW n, NEW start, NEW end, NEW targets, Adds(n, start, end, targets), NEW t,
         NEW j \in DOMAIN rows \ targets, Covers(j, t)
  PROVE  \E h \in DOMAIN rows' : Covers(h, t)'
<1>1. Covers(j, t)'
  BY CoversNext
<1>2. j \in DOMAIN rows'
  BY DEF Adds
<1>3. QED
  BY <1>1, <1>2

\* A period that opens at `at`, when none is active or in place of all.
LEMMA OpenFits ==
  ASSUME IInv, now' = now, NEW at \in Int, at <= now, NEW targets, NEW n,
         Adds(n, at, at + PeriodLength, targets), NoGap(at), NoGap(now),
         (targets = {} /\ Unserved(at)) \/ targets = {i \in DOMAIN rows : Active(i)}
  PROVE  Fits(at, at + PeriodLength, targets)
<1>1. now \in Int /\ PeriodLength \in Nat /\ PeriodLength > 0
  BY BoundsAssumption, LengthsAssumption DEF IInv, TypeOK
<1>2. \A i \in DOMAIN rows \ targets : Active(i) => rows[i].end <= at
  <2> SUFFICES ASSUME NEW i \in DOMAIN rows \ targets, Active(i), Unserved(at)
               PROVE  rows[i].end <= at
    OBVIOUS
  <2>1. ~(at <= rows[i].start)
    BY DEF NoGap, Unserved
  <2>2. ~Covers(i, at)
    BY DEF Unserved
  <2>3. QED
    BY <1>1, <2>1, <2>2, RowsTyped DEF Covers
<1>3. ASSUME NEW i \in DOMAIN rows', Active(i)', NEW t \in Int, now <= t, t <= rows'[i].start
      PROVE  \E j \in DOMAIN rows' : Covers(j, t)'
  <2>1. CASE i \in DOMAIN rows
    <3>1. i \notin targets /\ Active(i) /\ rows[i].start = rows'[i].start
      BY <1>3, <2>1 DEF Adds, Active
    <3>2. QED
      BY <1>1, <1>2, <1>3, <2>1, <3>1, RowsTyped
  <2>2. CASE i = n
    <3>1. t = at
      BY <1>1, <1>3, <2>2 DEF Adds
    <3>2. Covers(n, t)'
      BY <1>1, <3>1, CoversNext
    <3>3. QED
      BY <1>3, <2>2, <3>2
  <2>3. QED
    BY <1>3, <2>1, <2>2 DEF Adds
<1>4. NoGap(now)'
  BY <1>3 DEF NoGap
<1>5. QED
  BY <1>2, <1>4 DEF Fits

\* A renewal behind all periods, which follows on one that is still active.
LEMMA ChainFits ==
  ASSUME IInv, now' = now, NEW at \in Int, at <= now, NEW start \in Int, start >= at,
         NEW n, Adds(n, start, start + PeriodLength, {}), NoGap(now),
         \A i \in DOMAIN rows : rows[i].end <= start,
         start > at => \E i \in DOMAIN rows : Active(i) /\ rows[i].end = start
  PROVE  Fits(start, start + PeriodLength, {})
<1>1. now \in Int /\ PeriodLength \in Nat /\ PeriodLength > 0
  BY BoundsAssumption, LengthsAssumption DEF IInv, TypeOK
<1>2. ASSUME NEW i \in DOMAIN rows', Active(i)', NEW t \in Int, now <= t, t <= rows'[i].start
      PROVE  \E j \in DOMAIN rows' : Covers(j, t)'
  <2>1. ASSUME NEW k \in DOMAIN rows, Active(k), t <= rows[k].start
        PROVE  \E j \in DOMAIN rows' : Covers(j, t)'
    <3>1. PICK j \in DOMAIN rows : Covers(j, t)
      BY <1>2, <2>1 DEF NoGap
    <3>2. QED
      BY <3>1, CoverStays
  <2>2. CASE i \in DOMAIN rows
    BY <1>2, <2>1, <2>2 DEF Adds, Active
  <2>3. CASE i = n /\ t = start
    <3>1. Covers(n, t)'
      BY <1>1, <2>3, CoversNext
    <3>2. QED
      BY <1>2, <2>3, <3>1
  <2>4. CASE i = n /\ t # start
    <3>1. t < start /\ start > at
      BY <1>1, <1>2, <2>4 DEF Adds
    <3>2. PICK k \in DOMAIN rows : Active(k) /\ rows[k].end = start
      BY <3>1
    <3>3. CASE t <= rows[k].start
      BY <2>1, <3>2, <3>3
    <3>4. CASE ~(t <= rows[k].start)
      <4>1. Covers(k, t)
        BY <3>1, <3>2, <3>4, RowsTyped DEF Covers
      <4>2. QED
        BY <4>1, CoverStays
    <3>5. QED
      BY <3>3, <3>4
  <2>5. QED
    BY <1>2, <2>2, <2>3, <2>4 DEF Adds
<1>3. NoGap(now)'
  BY <1>2 DEF NoGap
<1>4. QED
  BY <1>3 DEF Fits

\* A plan change, whose row takes the place of the current one.
LEMMA InheritFits ==
  ASSUME IInv, now' = now, clean, OneTimeline, NEW k \in DOMAIN rows, Active(k),
         NEW n, Adds(n, rows[k].start, rows[k].end, {k}), NoGap(now)
  PROVE  Fits(rows[k].start, rows[k].end, {k})
<1>1. now \in Int
  BY BoundsAssumption DEF IInv, TypeOK
<1>2. \A i \in DOMAIN rows \ {k} : Active(i) =>
        rows[i].end <= rows[k].start \/ rows[k].end <= rows[i].start
  <2>1. \A i \in DOMAIN rows \ {k} : Active(i) => ~Overlap(i, k)
    BY DEF OneTimeline
  <2>2. QED
    BY <2>1, RowsTyped DEF Overlap
<1>3. ASSUME NEW i \in DOMAIN rows', Active(i)', NEW t \in Int, now <= t, t <= rows'[i].start
      PROVE  \E j \in DOMAIN rows' : Covers(j, t)'
  <2>1. \E h \in DOMAIN rows : Active(h) /\ rows[h].start = rows'[i].start
    BY <1>3 DEF Adds, Active
  <2>2. PICK j \in DOMAIN rows : Covers(j, t)
    BY <1>3, <2>1 DEF NoGap
  <2>3. CASE j = k
    <3>1. Covers(n, t)'
      BY <2>2, <2>3, CoversNext DEF Covers
    <3>2. QED
      BY <3>1 DEF Adds
  <2>4. CASE j # k
    BY <2>2, <2>4, CoverStays
  <2>5. QED
    BY <2>3, <2>4
<1>4. NoGap(now)'
  BY <1>3 DEF NoGap
<1>5. QED
  BY <1>2, <1>4 DEF Fits

-----------------------------------------------------------------------------
LEMMA InitTimeline == Init => TimelineInv
<1> SUFFICES ASSUME Init PROVE TimelineInv
  OBVIOUS
<1> DEFINE first == Row("free", 0, PeriodLength, "default", "none")
<1>1. \A i \in DOMAIN rows : i = 1 /\ rows[i] = first
  <2> HIDE DEF first
  <2>1. \A i \in DOMAIN <<first>> : i = 1 /\ <<first>>[i] = first
    OBVIOUS
  <2>2. rows = <<>> \/ rows = <<first>>
    BY DEF Init, first
  <2>3. QED
    BY <2>1, <2>2
<1>2. now = 0 /\ PeriodLength \in Nat /\ PeriodLength > 0
  BY LengthsAssumption DEF Init
<1>3. NoGap(now)
  <2> SUFFICES ASSUME NEW i \in DOMAIN rows, NEW t \in Int, now <= t, t <= rows[i].start
               PROVE  Covers(i, t)
    BY DEF NoGap
  <2>1. rows[i].start = 0 /\ rows[i].end = PeriodLength /\ Active(i)
    BY <1>1 DEF Row, Active
  <2>2. QED
    BY <1>2, <2>1 DEF Covers
<1>4. OneTimeline
  BY <1>1 DEF OneTimeline
<1>5. AllUndisturbed
  BY DEF Init, AllUndisturbed, Undisturbed
<1>6. QED
  BY <1>3, <1>4, <1>5 DEF TimelineInv, Contiguous

LEMMA TimelineFacts ==
  ASSUME IInv, TimelineInv, NEW c \in Calls
  PROVE  /\ call[c].at \in Int /\ call[c].base \in Nat /\ now \in Int /\ Len(rows) \in Nat
         /\ Undisturbed(pc[c], call[c])
         /\ clean => NoGap(now)
         /\ clean => OneTimeline
<1>1. call[c] \in CallSet /\ now \in Int /\ Len(rows) \in Nat
  BY CallFacts
<1>2. QED
  BY <1>1 DEF TimelineInv, AllUndisturbed, Contiguous, CallSet

\* The statements of a roll before its write.
LEMMA RollTimeline ==
  ASSUME IInv, TimelineInv, NEW c \in Calls, ReadActive(c) \/ SelectLast(c) \/ LockLast(c)
  PROVE  TimelineInv'
<1>1. UNCHANGED <<now, rows, clean>>
  BY DEF ReadActive, SelectLast, LockLast
<1>2. call \in [Calls -> CallSet] /\ rows \in Seq(RowSet)
  BY CallFacts
<1>3. CASE Finish(c)
  <2>1. Undisturbed("idle", NoCall)
    BY DEF Undisturbed
  <2>2. QED
    BY <1>1, <1>3, <2>1, LocalTimeline DEF Finish
<1>4. CASE ReadActive(c)
  <2> DEFINE v == [NoCall EXCEPT !.at = now, !.base = Len(rows)]
  <2>1. Goto(c, "select") /\ call' = [call EXCEPT ![c] = v] /\ Served(now) = NoRow
    BY <1>4 DEF ReadActive
  <2>2. v.at = now /\ v.base = Len(rows)
    BY DEF NoCall
  <2> HIDE DEF v
  <2>3. Unserved(now)
    BY <1>2, <2>1, ServedFact
  <2>4. Undisturbed("select", v)
    BY <2>2, <2>3, TimelineFacts DEF Undisturbed, Sees
  <2>5. QED
    BY <1>1, <2>1, <2>4, LocalTimeline
<1>5. CASE SelectLast(c) /\ ~Finish(c)
  <2> DEFINE v == [call[c] EXCEPT !.seen = Len(rows)]
  <2>1. pc[c] = "select" /\ Goto(c, "lock") /\ call' = [call EXCEPT ![c] = v]
    BY <1>5 DEF SelectLast
  <2>2. v.at = call[c].at /\ v.base = call[c].base
    BY <1>2 DEF CallSet
  <2> HIDE DEF v
  <2>3. Undisturbed("lock", v)
    BY <2>1, <2>2, TimelineFacts DEF Undisturbed, Sees
  <2>4. QED
    BY <1>1, <2>1, <2>3, LocalTimeline
<1>6. CASE LockLast(c) /\ ~Finish(c)
  <2>1. pc[c] = "lock" /\ Goto(c, "insert") /\ UNCHANGED call
    BY <1>6 DEF LockLast
  <2>2. call' = [call EXCEPT ![c] = call[c]]
    BY <1>2, <2>1
  <2>3. Undisturbed("insert", call[c])
    BY <2>1, TimelineFacts DEF Undisturbed, Sees
  <2>4. QED
    BY <1>1, <2>1, <2>2, <2>3, LocalTimeline
<1>7. QED
  BY <1>3, <1>4, <1>5, <1>6

\* What the reads of a grant settle.
LEMMA PeriodSettled ==
  ASSUME IInv, TimelineInv, NEW c \in Calls, ReadPeriods(c)
  PROVE  \E start \in Int, end \in Int, targets \in SUBSET DOMAIN rows, label \in Labels :
           /\ SetPeriod(c, start, end, targets) /\ Goto(c, label)
           /\ LET v == [call[c] EXCEPT !.start = start, !.end = end, !.targets = targets] IN
              \/ label = "commit" /\ v.mode = "renew" /\ Chains(v)
              \/ label = "commit" /\ v.mode = "assign" /\ Inherits(v)
              \/ label = "cancel" /\ v.mode # "renew" /\ Opens(v)
<1> DEFINE at == call[c].at
           V(start, end, targets) ==
             [call[c] EXCEPT !.start = start, !.end = end, !.targets = targets]
<1>1. /\ rows \in Seq(RowSet) /\ call[c] \in CallSet /\ at \in Int /\ PeriodLength \in Nat
      /\ {} \in SUBSET DOMAIN rows
  BY CallFacts, LengthsAssumption DEF CallSet
<1>2. ASSUME NEW start, NEW end, NEW targets
      PROVE  LET v == V(start, end, targets) IN
             /\ v.mode = call[c].mode /\ v.at = at /\ v.start = start
             /\ v.end = end /\ v.targets = targets
  BY <1>1 DEF CallSet
<1>3. CASE /\ call[c].mode = "renew"
           /\ FreshPeriod(c, Max({at, LatestEnd}))
           /\ Goto(c, "commit")
  <2> DEFINE m == Max({at, LatestEnd})
  <2>1. LatestEnd \in Int /\ \A i \in DOMAIN rows : rows[i].end <= LatestEnd
    BY <1>1, LatestEndFact
  <2>2. m \in Int /\ m >= at /\ m >= LatestEnd
    BY <1>1, <2>1, MaxOfTwo, Zenon
  <2>3. SetPeriod(c, m, m + PeriodLength, {}) /\ m + PeriodLength \in Int
    BY <1>1, <1>3, <2>2 DEF FreshPeriod
  <2> HIDE DEF m
  <2>4. \A i \in DOMAIN rows : rows[i].end <= m
    BY <2>1, <2>2, RowsTyped
  <2>5. Chains(V(m, m + PeriodLength, {}))
    BY <1>2, <2>2, <2>4 DEF Chains
  <2>6. V(m, m + PeriodLength, {}).mode = "renew"
    BY <1>2, <1>3
  <2>7. QED
    BY <1>1, <1>3, <2>2, <2>3, <2>5, <2>6 DEF Labels
<1>4. CASE /\ call[c].mode = "assign" /\ Served(at) # NoRow
           /\ SetPeriod(c, rows[Served(at)].start, rows[Served(at)].end, {Served(at)})
           /\ Goto(c, "commit")
  <2> DEFINE k == Served(at)
  <2>1. k \in DOMAIN rows /\ Covers(k, at)
    BY <1>1, <1>4, ServedFact
  <2>2. SetPeriod(c, rows[k].start, rows[k].end, {k})
    BY <1>4
  <2> HIDE DEF k
  <2>3. rows[k].start \in Int /\ rows[k].end \in Int /\ {k} \in SUBSET DOMAIN rows
    BY <2>1, RowsTyped
  <2>4. Inherits(V(rows[k].start, rows[k].end, {k}))
    BY <1>2, <2>1 DEF Inherits
  <2>5. V(rows[k].start, rows[k].end, {k}).mode = "assign"
    BY <1>2, <1>4
  <2>6. QED
    BY <1>4, <2>2, <2>3, <2>4, <2>5 DEF Labels
<1>5. CASE /\ call[c].mode = "start" \/ (call[c].mode = "assign" /\ Served(at) = NoRow)
           /\ FreshPeriod(c, at)
           /\ Goto(c, "cancel")
  <2>1. call[c].mode = "assign" => Unserved(at)
    BY <1>1, <1>5, ServedFact
  <2>2. Opens(V(at, at + PeriodLength, {}))
    BY <1>2, <2>1 DEF Opens
  <2>3. V(at, at + PeriodLength, {}).mode # "renew"
    BY <1>2, <1>5
  <2>4. SetPeriod(c, at, at + PeriodLength, {}) /\ at + PeriodLength \in Int
    BY <1>1, <1>5 DEF FreshPeriod
  <2>5. QED
    BY <1>1, <1>5, <2>2, <2>3, <2>4 DEF Labels
<1>6. QED
  BY <1>3, <1>4, <1>5 DEF ReadPeriods

\* The statements of a grant before its writes, and a worker that dies.
LEMMA GrantTimeline ==
  ASSUME IInv, TimelineInv, NEW c \in Calls,
         Deliver(c) \/ ReadPeriods(c) \/ CancelActive(c) \/ Die(c)
  PROVE  TimelineInv'
<1>1. UNCHANGED <<now, rows, clean>>
  BY DEF Deliver, ReadPeriods, CancelActive, Die
<1>2. call \in [Calls -> CallSet] /\ rows \in Seq(RowSet)
  BY CallFacts
<1>3. CASE Die(c)
  <2>1. Undisturbed("idle", NoCall)
    BY DEF Undisturbed
  <2>2. QED
    BY <1>1, <1>3, <2>1, LocalTimeline DEF Die, Finish
<1>4. CASE Deliver(c)
  <2>1. PICK mode \in Modes, plan \in Plans, event \in Events \cup {"none"} :
          call' = [call EXCEPT ![c] = Called(mode, plan, event)]
    BY <1>4 DEF Deliver
  <2> DEFINE v == Called(mode, plan, event)
  <2>2. v.at = now /\ v.base = Len(rows)
    BY DEF NoCall, Called
  <2>3. Goto(c, "read") /\ call' = [call EXCEPT ![c] = v]
    BY <1>4, <2>1 DEF Deliver
  <2> HIDE DEF v
  <2>4. Undisturbed("read", v)
    BY <2>2, TimelineFacts DEF Undisturbed, Sees
  <2>5. QED
    BY <1>1, <2>3, <2>4, LocalTimeline
<1>5. CASE ReadPeriods(c)
  <2>1. PICK start \in Int, end \in Int, targets \in SUBSET DOMAIN rows, label \in Labels :
           /\ SetPeriod(c, start, end, targets) /\ Goto(c, label)
           /\ LET v == [call[c] EXCEPT !.start = start, !.end = end, !.targets = targets] IN
              \/ label = "commit" /\ v.mode = "renew" /\ Chains(v)
              \/ label = "commit" /\ v.mode = "assign" /\ Inherits(v)
              \/ label = "cancel" /\ v.mode # "renew" /\ Opens(v)
    BY <1>5, PeriodSettled
  <2> DEFINE v == [call[c] EXCEPT !.start = start, !.end = end, !.targets = targets]
  <2>2. call' = [call EXCEPT ![c] = v] /\ v.at = call[c].at /\ v.base = call[c].base
    BY <1>2, <2>1 DEF SetPeriod, CallSet
  <2>3. \/ label = "commit" /\ v.mode = "renew" /\ Chains(v)
        \/ label = "commit" /\ v.mode = "assign" /\ Inherits(v)
        \/ label = "cancel" /\ v.mode # "renew" /\ Opens(v)
    BY <2>1
  <2> HIDE DEF v
  <2>4. pc[c] = "read"
    BY <1>5 DEF ReadPeriods
  <2>5. Undisturbed(label, v)
    BY <2>2, <2>3, <2>4, TimelineFacts DEF Undisturbed, Sees
  <2>6. QED
    BY <1>1, <2>1, <2>2, <2>5, LocalTimeline
<1>6. CASE CancelActive(c)
  <2> DEFINE t == {i \in DOMAIN rows : Active(i)}
             v == [call[c] EXCEPT !.targets = t]
  <2>1. call' = [call EXCEPT ![c] = v] /\ Goto(c, "commit") /\ pc[c] = "cancel"
    BY <1>6 DEF CancelActive
  <2>2. /\ v.at = call[c].at /\ v.base = call[c].base /\ v.mode = call[c].mode
        /\ v.start = call[c].start /\ v.targets = t
    BY <1>2 DEF CallSet
  <2> HIDE DEF v
  <2>3. Undisturbed("commit", v)
    BY <2>1, <2>2, TimelineFacts DEF Undisturbed, Sees, Replaces, Opens
  <2>4. QED
    BY <1>1, <2>1, <2>3, LocalTimeline
<1>7. QED
  BY <1>3, <1>4, <1>5, <1>6

\* The rows once a write has cancelled targets.
Cancelling(targets) ==
  [i \in DOMAIN rows |->
     IF i \in targets THEN [rows[i] EXCEPT !.status = "cancelled"] ELSE rows[i]]

\* A row that is written is added as Adds says.
LEMMA AppendAdds ==
  ASSUME IInv, NEW targets \in SUBSET DOMAIN rows, NEW row, NEW n, n = Len(rows) + 1,
         row.status = "active", rows' = Append(Cancelling(targets), row)
  PROVE  Adds(n, row.start, row.end, targets) /\ rows'[n] = row
<1> DEFINE old == Cancelling(targets)
<1>1. Len(rows) \in Nat /\ DOMAIN rows = 1 .. Len(rows)
  BY LenProperties DEF IInv, Typed
<1>2. \A i \in DOMAIN rows : rows[i] \in RowSet
  BY <1>1, ElementOfSeq DEF IInv, Typed
<1>3. old \in Seq(RowSet) /\ Len(old) = Len(rows)
  <2>1. old \in [1 .. Len(rows) -> RowSet]
    BY <1>1, <1>2 DEF RowSet, Cancelling
  <2>2. old \in Seq(RowSet)
    BY <1>1, <2>1, SeqDef
  <2>3. QED
    BY <1>1, <2>1, <2>2, LenProperties
<1>4. \A i \in DOMAIN rows :
        /\ old[i].start = rows[i].start /\ old[i].end = rows[i].end
        /\ old[i].status = "active" <=> rows[i].status = "active" /\ i \notin targets
  <2> SUFFICES ASSUME NEW i \in DOMAIN rows
               PROVE  /\ old[i].start = rows[i].start /\ old[i].end = rows[i].end
                      /\ old[i].status = "active"
                           <=> rows[i].status = "active" /\ i \notin targets
    OBVIOUS
  <2>1. rows[i] \in RowSet
    BY <1>2
  <2>2. CASE i \in targets
    <3>1. old[i] = [rows[i] EXCEPT !.status = "cancelled"]
      BY <2>2 DEF Cancelling
    <3>2. QED
      BY <2>1, <2>2, <3>1 DEF RowSet
  <2>3. CASE i \notin targets
    BY <2>3 DEF Cancelling
  <2>4. QED
    BY <2>2, <2>3
<1>5. Len(rows') = n /\ rows'[n] = row /\ DOMAIN rows' = 1 .. n
      /\ \A i \in DOMAIN rows : rows'[i] = old[i]
  BY <1>1, <1>3
<1>6. QED
  BY <1>1, <1>4, <1>5 DEF Adds, Active

\* What a roll and a grant add, and what the call knew if nobody wrote under it.
LEMMA RollAdds ==
  ASSUME IInv, TimelineInv, NEW c \in Calls, InsertRolled(c), NEW n, n = Len(rows) + 1
  PROVE  /\ Adds(n, call[c].at, call[c].at + PeriodLength, {})
         /\ rows'[n].origin = "roll"
         /\ clean' => clean /\ Sees("insert", call[c])
<1> DEFINE row == Row(call[c].plan, call[c].at, call[c].at + PeriodLength, "roll", "none")
<1>1. rows \in Seq(RowSet)
  BY CallFacts
<1>2. rows = Cancelling({})
  BY <1>1 DEF Cancelling
<1>3. row.status = "active" /\ row.origin = "roll"
      /\ row.start = call[c].at /\ row.end = call[c].at + PeriodLength
  BY DEF Row
<1>4. rows' = Append(rows, row)
  BY DEF InsertRolled
<1> HIDE DEF row
<1>5. rows' = Append(Cancelling({}), row) /\ row.status = "active"
  BY <1>2, <1>3, <1>4
<1>6. Adds(n, row.start, row.end, {}) /\ rows'[n] = row
  BY <1>5, AppendAdds
<1>7. clean' => clean /\ Sees("insert", call[c])
  BY TimelineFacts DEF InsertRolled, Undisturbed
<1>8. QED
  BY <1>3, <1>6, <1>7

LEMMA CommitAdds ==
  ASSUME IInv, TimelineInv, NEW c \in Calls, pc[c] = "commit", Write(c),
         NEW n, n = Len(rows) + 1
  PROVE  /\ Adds(n, call[c].start, call[c].end, call[c].targets)
         /\ rows'[n].origin = call[c].mode
         /\ clean' => clean /\ Sees("commit", call[c]) /\ Anchored(c)
<1> DEFINE row == Row(call[c].plan, call[c].start, call[c].end, call[c].mode, call[c].event)
<1>1. call[c].targets \in SUBSET DOMAIN rows
  BY CallFacts DEF Knows
<1>2. row.status = "active" /\ row.origin = call[c].mode
      /\ row.start = call[c].start /\ row.end = call[c].end
  BY DEF Row
<1>3. rows' = Append(Cancelling(call[c].targets), row)
  BY DEF Write, Cancelling
<1> HIDE DEF row
<1>4. Adds(n, row.start, row.end, call[c].targets) /\ rows'[n] = row
  BY <1>1, <1>2, <1>3, AppendAdds
<1>5. clean' => clean /\ Sees("commit", call[c]) /\ Anchored(c)
  BY TimelineFacts DEF Write, Undisturbed
<1>6. QED
  BY <1>2, <1>4, <1>5

\* The statements that write.
LEMMA WriteTimeline ==
  ASSUME IInv, TimelineInv, NEW c \in Calls, InsertRolled(c) \/ Commit(c) PROVE TimelineInv'
<1> DEFINE v == call[c]
           n == Len(rows) + 1
<1>1. now' = now /\ Finish(c) /\ v \in CallSet
  BY CallFacts DEF InsertRolled, Commit
<1>2. /\ v.at \in Int /\ now \in Int /\ PeriodLength \in Int
      /\ v.start \in Int /\ v.end \in Int /\ v.at + PeriodLength \in Int
  BY <1>1, TimelineFacts, LengthsAssumption DEF CallSet
<1>3. pc[c] # "idle" => v.at <= now
  BY TimelineFacts DEF Undisturbed
<1>4. CASE InsertRolled(c)
  <2>1. /\ Adds(n, v.at, v.at + PeriodLength, {})
        /\ clean' => clean /\ Sees("insert", v)
    BY <1>4, RollAdds
  <2>2. v.at <= now
    BY <1>3, <1>4 DEF InsertRolled
  <2> HIDE DEF v, n
  <2>3. ASSUME clean' PROVE Fits(v.at, v.at + PeriodLength, {})
    <3>1. NoGap(v.at) /\ Unserved(v.at) /\ NoGap(now)
      BY <2>1, <2>3, TimelineFacts DEF Sees
    <3>2. QED
      BY <1>1, <1>2, <2>1, <2>2, <3>1, OpenFits
  <2>4. QED
    BY <1>1, <1>2, <2>1, <2>3, RowTimeline
<1>5. CASE Commit(c) /\ UNCHANGED <<rows, clean>>
  <2>1. Undisturbed("idle", NoCall)
    BY DEF Undisturbed
  <2>2. QED
    BY <1>1, <1>5, <2>1, LocalTimeline DEF Finish
<1>6. CASE Commit(c) /\ Write(c)
  <2>1. /\ Adds(n, v.start, v.end, v.targets)
        /\ clean' => clean /\ Sees("commit", v) /\ Anchored(c)
    BY <1>6, CommitAdds DEF Commit
  <2>2. v.at <= now /\ v.end = v.start + PeriodLength
    BY <1>3, <1>6, CallFacts DEF Commit, Knows
  <2>3. Anchored(c) => (v.mode = "renew" /\ v.start > v.at
          => \E i \in DOMAIN rows : Active(i) /\ rows[i].end = v.start)
    BY DEF Anchored
  <2> HIDE DEF v, n
  <2>4. ASSUME clean' PROVE Fits(v.start, v.end, v.targets)
    <3>1. clean /\ OneTimeline /\ NoGap(v.at) /\ NoGap(now)
      BY <2>1, <2>4, TimelineFacts DEF Sees
    <3>2. CASE v.mode = "renew" /\ Chains(v)
      BY <1>1, <1>2, <2>1, <2>2, <2>3, <2>4, <3>1, <3>2, ChainFits DEF Chains
    <3>3. CASE Inherits(v)
      <4>1. PICK k \in DOMAIN rows : /\ Covers(k, v.at) /\ v.targets = {k}
                                     /\ v.start = rows[k].start /\ v.end = rows[k].end
        BY <3>3 DEF Inherits
      <4>2. Active(k)
        BY <4>1 DEF Covers
      <4>3. QED
        BY <1>1, <2>1, <3>1, <4>1, <4>2, InheritFits
    <3>4. CASE Replaces(v)
      <4>1. v.start = v.at /\ v.targets = {i \in DOMAIN rows : Active(i)}
        BY <3>4 DEF Replaces, Opens
      <4>2. QED
        BY <1>1, <1>2, <2>1, <2>2, <3>1, <4>1, OpenFits
    <3>5. QED
      BY <2>1, <2>4, <3>2, <3>3, <3>4 DEF Sees
  <2>5. QED
    BY <1>1, <1>2, <2>1, <2>4, RowTimeline
<1>7. QED
  BY <1>4, <1>5, <1>6 DEF Commit

LEMMA TickTimeline ==
  ASSUME IInv, TimelineInv, Tick PROVE TimelineInv'
<1>1. /\ now' = now + 1 /\ now \in Int /\ UNCHANGED <<rows, pc, call, clean>>
  BY BoundsAssumption DEF Tick, IInv, TypeOK
<1>2. \A t \in Int : NoGap(t)' <=> NoGap(t)
  BY <1>1 DEF NoGap, Active, Covers
<1>3. NoGap(now) => NoGap(now + 1)
  BY <1>1, RowsTyped DEF NoGap
<1>4. Contiguous'
  <2>1. NoGap(now + 1) => NoGap(now)'
    BY <1>1 DEF NoGap, Active, Covers
  <2>2. QED
    BY <1>1, <1>3, <2>1 DEF TimelineInv, Contiguous
<1>5. AllUndisturbed'
  <2> SUFFICES ASSUME NEW c \in Calls, pc[c] # "idle" PROVE Undisturbed(pc[c], call[c])'
    BY <1>1 DEF AllUndisturbed, Undisturbed
  <2>1. Undisturbed(pc[c], call[c]) /\ call[c].at \in Int
    BY TimelineFacts
  <2>2. Sees(pc[c], call[c]) => Sees(pc[c], call[c])'
    BY <1>1 DEF Sees, NoGap, Unserved, Opens, Chains, Inherits, Replaces, Active, Covers
  <2>3. QED
    BY <1>1, <2>1, <2>2 DEF Undisturbed
<1>6. OneTimeline'
  BY <1>1 DEF TimelineInv, OneTimeline, Active, Overlap
<1>7. QED
  BY <1>4, <1>5, <1>6 DEF TimelineInv

LEMMA NextTimeline == IInv /\ TimelineInv /\ [Next]_vars => TimelineInv'
<1> SUFFICES ASSUME IInv, TimelineInv, [Next]_vars PROVE TimelineInv'
  OBVIOUS
<1>1. ASSUME NEW c \in Calls,
             \/ ReadActive(c) \/ SelectLast(c) \/ LockLast(c) \/ InsertRolled(c)
             \/ Deliver(c) \/ ReadPeriods(c) \/ CancelActive(c) \/ Commit(c) \/ Die(c)
      PROVE  TimelineInv'
  BY <1>1, RollTimeline, GrantTimeline, WriteTimeline
<1>2. CASE UNCHANGED vars
  <2>1. Contiguous' /\ OneTimeline'
    BY <1>2 DEF vars, TimelineInv, Contiguous, NoGap, OneTimeline, Active, Covers, Overlap
  <2>2. \A l, w : Undisturbed(l, w)' <=> Undisturbed(l, w)
    BY <1>2 DEF vars, Undisturbed, Sees, NoGap, Unserved, Opens, Chains, Inherits,
                Replaces, Active, Covers
  <2>3. AllUndisturbed'
    BY <1>2, <2>2 DEF vars, TimelineInv, AllUndisturbed
  <2>4. QED
    BY <2>1, <2>3 DEF TimelineInv
<1>3. QED
  BY <1>1, <1>2, TickTimeline DEF Next

THEOREM TimelineInvariance == Spec => [](IInv /\ TimelineInv)
<1>1. Init => IInv /\ TimelineInv
  BY InitIInv, InitTimeline
<1>2. IInv /\ TimelineInv /\ [Next]_vars => (IInv /\ TimelineInv)'
  BY NextIInv, NextTimeline
<1>3. QED
  BY <1>1, <1>2, PTL DEF Spec

-----------------------------------------------------------------------------
\* Every reachable state of a user's periods is well typed: each has its full
\* length, and a call only cancels rows that exist.
THEOREM TypeCorrect == Spec => []TypeOK
<1>1. IInv => TypeOK
  BY DEF IInv
<1>2. QED
  BY <1>1, Invariance, PTL

\* For any number of concurrent and repeated deliveries, a provider's event
\* grants at most one period.
THEOREM EventsGrantOnce == Spec => []GrantedOnce
<1>1. IInv => GrantedOnce
  BY DEF IInv
<1>2. QED
  BY <1>1, Invariance, PTL

\* However calls interleave, a period that was rolled forward is a free one.
THEOREM OnlyFreeRolls == Spec => []PaidNeverRolls
<1>1. IInv => PaidNeverRolls
  BY DEF IInv
<1>2. QED
  BY <1>1, Invariance, PTL

\* As long as no call writes under another and every renewal is anchored at a
\* live period, no two active periods share an instant: whatever is purchased,
\* renewed, assigned or rolled, in any order and number, hands over.
THEOREM PeriodsHandOver == Spec => []OneTimeline
<1>1. TimelineInv => OneTimeline
  BY DEF TimelineInv
<1>2. QED
  BY <1>1, TimelineInvariance, PTL

\* A plan change opens a fresh period, and with it a fresh ledger, only where no
\* period was active; otherwise it inherits the period it replaces.
THEOREM PlanChangeKeepsUsage == Spec => NoResetByPlanChange
<1> DEFINE NoReset ==
      \A i \in DOMAIN rows' \ DOMAIN rows :
        clean' /\ rows'[i].origin = "assign"
               /\ (\A j \in DOMAIN rows : rows'[i].start # rows[j].start)
          => ~\E j \in DOMAIN rows : Covers(j, rows'[i].start)
<1>1. IInv /\ TimelineInv /\ [Next]_vars => [NoReset]_vars
  <2> SUFFICES ASSUME IInv, TimelineInv, Next,
                      NEW i \in DOMAIN rows' \ DOMAIN rows, clean', rows'[i].origin = "assign",
                      \A j \in DOMAIN rows : rows'[i].start # rows[j].start
               PROVE  Unserved(rows'[i].start)
    BY DEF Unserved
  <2>1. PICK c \in Calls : InsertRolled(c) \/ Commit(c)
    BY DEF Next, ReadActive, SelectLast, LockLast, Deliver, ReadPeriods, CancelActive, Die,
           Tick
  <2>2. ~InsertRolled(c)
    <3> SUFFICES ASSUME InsertRolled(c) PROVE FALSE
      OBVIOUS
    <3> DEFINE n == Len(rows) + 1
    <3>1. /\ Adds(n, call[c].at, call[c].at + PeriodLength, {})
          /\ rows'[n].origin = "roll"
      BY RollAdds
    <3> HIDE DEF n
    <3>2. i = n
      BY <3>1 DEF Adds
    <3>3. QED
      BY <3>1, <3>2
  <2>3. pc[c] = "commit" /\ Write(c)
    BY <2>1, <2>2 DEF Commit
  <2> DEFINE n == Len(rows) + 1
             v == call[c]
  <2>4. /\ Adds(n, v.start, v.end, v.targets) /\ rows'[n].origin = v.mode
        /\ Sees("commit", v)
    BY <2>3, CommitAdds
  <2> HIDE DEF n, v
  <2>5. i = n /\ rows'[i].start = v.start /\ v.mode = "assign"
    BY <2>4 DEF Adds
  <2>6. ~Inherits(v)
    BY <2>5 DEF Inherits
  <2>7. Replaces(v)
    BY <2>4, <2>5, <2>6 DEF Sees
  <2>8. QED
    BY <2>5, <2>7 DEF Replaces, Opens
<1>2. QED
  BY <1>1, TimelineInvariance, PTL DEF Spec, NoResetByPlanChange
=============================================================================
