---------------------------- MODULE GatewayProofs ----------------------------
(***************************************************************************)
(* Proofs about Gateway, for every set of requests, slot limit, credit     *)
(* limit, breaker threshold and set of escapes.  The inductive invariant   *)
(* says what each phase of the path knows: the upstream's answer, the      *)
(* report to the breaker, and what the request holds of the account; and   *)
(* that the breaker counts no failure that a request did not report.       *)
(***************************************************************************)
EXTENDS Gateway, FiniteSetTheorems, TLAPS

\* The phases in which a request owns no slot.
Slotless == {"idle", "slot", "over"}

Settled(r) == state[r] = IF outcome[r] = "answered200" THEN "charged" ELSE "free"

Stage(r) ==
  /\ pc[r] \in {"idle", "slot", "observe", "reserve", "giveBack"} =>
       outcome[r] = "none" /\ state[r] = "free"
  /\ pc[r] = "upstream" => outcome[r] = "none" /\ state[r] = "held"
  /\ pc[r] \in Outcomes => outcome[r] = pc[r] /\ state[r] = "held"
  /\ pc[r] \in {"body", "stream", "settle"} =>
       outcome[r] = "answered200" /\ state[r] = "held"
  /\ pc[r] \in {"errorBody", "fail"} =>
       outcome[r] \in Outcomes \ {"answered200"} /\ state[r] = "held"
  /\ pc[r] = "freeSlot" => outcome[r] \in Outcomes /\ Settled(r)
  /\ pc[r] = "over" => Settled(r)

Stages == \A r \in Requests : Stage(r)

AccountTypeOK == state \in [Requests -> {"free", "held", "charged"}]

\* The requests that reported an outage.
Failed == {r \in Requests : outcome[r] \in Outage /\ reports[r] > 0}

Blamed == failures <= Cardinality(Failed) /\ OpensOnlyOnOutages

IInv == TypeOK /\ AccountTypeOK /\ SlotsAccounted /\ OneReport /\ Stages /\ Blamed

-----------------------------------------------------------------------------
\* A request that moves without taking or freeing a slot leaves them accounted.
LEMMA SlotsKept ==
  ASSUME pc \in [Requests -> Phases], SlotsAccounted, NEW r \in Requests,
         NEW phase \in Phases, Goto(r, phase), UNCHANGED slotVars,
         (pc[r] \in Slotless) <=> (phase \in Slotless)
  PROVE  SlotsAccounted'
BY DEF SlotsAccounted, Goto, slotVars, Slotless

\* So does one that takes a slot, and one that frees its own.
LEMMA SlotTaken ==
  ASSUME pc \in [Requests -> Phases], SlotsAccounted, NEW r \in Requests,
         NEW phase \in Phases, Goto(r, phase), slots' = slots + 1, held' = held \cup {r},
         pc[r] \in Slotless, phase \notin Slotless
  PROVE  SlotsAccounted'
<1>1. IsFiniteSet(held) /\ r \notin held
  BY RequestsAssumption, FS_Subset DEF SlotsAccounted, Slotless
<1>2. Cardinality(held') = Cardinality(held) + 1
  BY <1>1, FS_AddElement
<1>3. held' = {q \in Requests : pc'[q] \notin Slotless}
  BY DEF SlotsAccounted, Goto, Slotless
<1>4. QED
  BY <1>2, <1>3 DEF SlotsAccounted, Slotless

LEMMA SlotFreed ==
  ASSUME pc \in [Requests -> Phases], SlotsAccounted, NEW r \in held,
         Goto(r, "over"), slots' = slots - 1, held' = held \ {r}
  PROVE  SlotsAccounted' /\ slots' \in Nat
<1>1. IsFiniteSet(held) /\ r \in Requests
  BY RequestsAssumption, FS_Subset DEF SlotsAccounted
<1>2. Cardinality(held') = Cardinality(held) - 1 /\ Cardinality(held') \in Nat
  BY <1>1, FS_RemoveElement, FS_CardinalityType
<1>3. held' = {q \in Requests : pc'[q] \notin {"idle", "slot", "over"}}
  BY <1>1 DEF SlotsAccounted, Goto
<1>4. QED
  BY <1>2, <1>3 DEF SlotsAccounted

LEMMA FailedFinite == IsFiniteSet(Failed) /\ Cardinality(Failed) \in Nat
BY RequestsAssumption, FS_Subset, FS_CardinalityType DEF Failed

\* A breaker and a history that stay as they are keep the blame.
LEMMA BlameKept ==
  ASSUME Blamed, UNCHANGED <<breakerVars, outcome, reports>>
  PROVE  Blamed'
BY DEF Blamed, OpensOnlyOnOutages, Failed, breakerVars

\* The breaker's methods keep its state in range.
LEMMA BreakerTypes ==
  ASSUME BreakerTypeOK, RecordSuccess \/ RecordFailure \/ Tick
  PROVE  BreakerTypeOK'
BY ThresholdAssumption, CooldownAssumption
   DEF BreakerTypeOK, RecordSuccess, RecordFailure, Tick, Closed

\* A step of one request within its own phase, seen from the others.
LEMMA StageKept ==
  ASSUME pc \in [Requests -> Phases], Stages, NEW r \in Requests,
         NEW phase \in Phases, Goto(r, phase),
         \A q \in Requests \ {r} : outcome'[q] = outcome[q] /\ state'[q] = state[q],
         Stage(r)'
  PROVE  Stages'
<1> SUFFICES ASSUME NEW q \in Requests PROVE Stage(q)'
  BY DEF Stages
<1>1. CASE q = r
  BY <1>1
<1>2. CASE q # r
  <2>1. pc'[q] = pc[q] /\ outcome'[q] = outcome[q] /\ state'[q] = state[q]
    BY <1>2 DEF Goto
  <2>2. Stage(q)
    BY DEF Stages
  <2>3. QED
    BY <2>1, <2>2 DEF Stage, Settled
<1>3. QED
  BY <1>1, <1>2

-----------------------------------------------------------------------------
LEMMA InitIInv == Init => IInv
<1> SUFFICES ASSUME Init PROVE IInv
  OBVIOUS
<1>1. TypeOK /\ AccountTypeOK
  BY ThresholdAssumption
     DEF Init, BreakerInit, Account!Init, TypeOK, AccountTypeOK, BreakerTypeOK, Phases
<1>2. SlotsAccounted
  BY FS_EmptySet DEF Init, SlotsAccounted
<1>3. OneReport /\ Stages
  BY DEF Init, Account!Init, OneReport, Stages, Stage, Settled, Outcomes
<1>4. Blamed
  BY FailedFinite DEF Init, BreakerInit, Blamed, OpensOnlyOnOutages
<1>5. QED
  BY <1>1, <1>2, <1>3, <1>4 DEF IInv

\* Every step preserves the inductive invariant.  The first group of actions
\* moves a request and leaves the breaker and the history alone.
LEMMA AdmitIInv ==
  ASSUME IInv, NEW r \in Requests, Admit(r) PROVE IInv'
<1> USE DEF IInv
<1>1. Goto(r, "slot") /\ "slot" \in Phases /\ pc[r] = "idle"
      /\ UNCHANGED <<slotVars, accountVars, breakerVars, outcome, reports>>
  BY DEF Admit, Phases
<1>2. TypeOK' /\ AccountTypeOK'
  BY <1>1 DEF Admit, TypeOK, AccountTypeOK, Goto, BreakerTypeOK, breakerVars,
             slotVars, accountVars
<1>3. SlotsAccounted'
  BY <1>1, SlotsKept DEF TypeOK, Slotless
<1>4. OneReport'
  BY <1>1 DEF OneReport, TypeOK, Goto, Outcomes
<1>5. Stages'
  <2>1. Stage(r)'
    BY <1>1 DEF Stages, Stage, TypeOK, Goto, accountVars, Outcomes
  <2>2. QED
    BY <1>1, <2>1, StageKept DEF TypeOK, accountVars
<1>6. Blamed'
  BY <1>1, BlameKept
<1>7. QED
  BY <1>2, <1>3, <1>4, <1>5, <1>6

LEMMA TakeSlotIInv ==
  ASSUME IInv, NEW r \in Requests, TakeSlot(r) PROVE IInv'
<1> USE DEF IInv
<1>1. pc[r] = "slot" /\ UNCHANGED <<streams, accountVars, breakerVars, historyVars>>
  BY DEF TakeSlot
<1>2. PICK phase \in {"observe", "over"} : Goto(r, phase)
  BY DEF TakeSlot
<1>3. phase \in Phases
  BY DEF Phases, EscapePhases
<1>4. TypeOK' /\ AccountTypeOK'
  BY <1>1, <1>2, <1>3 DEF TakeSlot, TypeOK, AccountTypeOK, Goto, BreakerTypeOK,
     breakerVars, slotVars, accountVars, historyVars
<1>5. SlotsAccounted'
  <2>1. CASE Goto(r, "observe") /\ slots' = slots + 1 /\ held' = held \cup {r}
    BY <1>1, <2>1, SlotTaken DEF TypeOK, Slotless, Phases, EscapePhases
  <2>2. CASE Goto(r, "over") /\ UNCHANGED slotVars
    BY <1>1, <2>2, SlotsKept DEF TypeOK, Slotless, Phases
  <2>3. QED
    BY <2>1, <2>2 DEF TakeSlot
<1>6. OneReport'
  BY <1>1, <1>2 DEF OneReport, TypeOK, Goto, historyVars, Outcomes
<1>7. Stages'
  <2>1. Stage(r)'
    BY <1>1, <1>2
       DEF Stages, Stage, Settled, TypeOK, Goto, historyVars, accountVars, Outcomes
  <2>2. QED
    BY <1>1, <1>2, <1>3, <2>1, StageKept DEF TypeOK, historyVars, accountVars
<1>8. Blamed'
  BY <1>1, BlameKept DEF historyVars
<1>9. QED
  BY <1>4, <1>5, <1>6, <1>7, <1>8

\* The steps that free a slot: the failed reservation's handler, and the end of
\* the finalization.
LEMMA FreeIInv ==
  ASSUME IInv, NEW r \in Requests, GiveBack(r) \/ FreeSlot(r) PROVE IInv'
<1> USE DEF IInv
<1>1. /\ pc[r] \in {"giveBack", "freeSlot"} /\ r \in held
      /\ slots' = slots - 1 /\ held' = held \ {r} /\ Goto(r, "over")
      /\ UNCHANGED <<streams, accountVars, breakerVars, historyVars>>
  BY DEF GiveBack, FreeSlot
<1>2. SlotsAccounted' /\ slots' \in Nat
  BY <1>1, SlotFreed DEF TypeOK
<1>3. TypeOK' /\ AccountTypeOK'
  BY <1>1, <1>2 DEF TypeOK, AccountTypeOK, Goto, BreakerTypeOK, breakerVars,
     accountVars, historyVars, Phases
<1>4. OneReport'
  BY <1>1 DEF OneReport, TypeOK, Goto, historyVars, Outcomes
<1>5. Stages'
  <2>1. Stage(r)'
    BY <1>1
       DEF Stages, Stage, Settled, TypeOK, Goto, historyVars, accountVars, Outcomes
  <2>2. QED
    BY <1>1, <2>1, StageKept DEF TypeOK, historyVars, accountVars, Phases
<1>6. Blamed'
  BY <1>1, BlameKept DEF historyVars
<1>7. QED
  BY <1>2, <1>3, <1>4, <1>5, <1>6

\* The steps that only move a request along.
LEMMA MoveIInv ==
  ASSUME IInv, NEW r \in Requests, Observe(r) \/ ReadBody(r) \/ Escape(r) PROVE IInv'
<1> USE DEF IInv
<1>1. UNCHANGED <<streams, slotVars, accountVars, breakerVars, historyVars>>
  BY DEF Observe, ReadBody, Escape
<1>2. PICK phase \in {"reserve", "settle", "fail", "escaped"} :
        /\ Goto(r, phase)
        /\ phase = "reserve" => pc[r] = "observe"
        /\ phase = "settle" => pc[r] \in {"body", "stream"}
        /\ phase = "fail" => pc[r] = "errorBody"
        /\ phase = "escaped" => pc[r] \in EscapePhases
  BY EscapesAssumption DEF Observe, ReadBody, Escape
<1>3. /\ phase \in Phases /\ phase \notin Slotless /\ pc[r] \notin Slotless
      /\ phase \notin Outcomes /\ pc[r] \notin Outcomes
  BY <1>2 DEF Phases, EscapePhases, Slotless, Outcomes
<1>4. TypeOK' /\ AccountTypeOK'
  BY <1>1, <1>2, <1>3 DEF TypeOK, AccountTypeOK, Goto, BreakerTypeOK, breakerVars,
     slotVars, accountVars, historyVars
<1>5. SlotsAccounted'
  BY <1>1, <1>2, <1>3, SlotsKept DEF TypeOK
<1>6. OneReport'
  BY <1>1, <1>2, <1>3 DEF OneReport, TypeOK, Goto, historyVars
<1>7. Stages'
  <2>1. Stage(r)'
    BY <1>1, <1>2, <1>3 DEF Stages, Stage, TypeOK, Goto, historyVars, accountVars
  <2>2. QED
    BY <1>1, <1>2, <1>3, <2>1, StageKept DEF TypeOK, historyVars, accountVars
<1>8. Blamed'
  BY <1>1, BlameKept DEF historyVars
<1>9. QED
  BY <1>4, <1>5, <1>6, <1>7, <1>8

\* The steps that change the credit account.
LEMMA AccountIInv ==
  ASSUME IInv, NEW r \in Requests, Reserve(r) \/ Finalize(r) PROVE IInv'
<1> USE DEF IInv
<1>1. UNCHANGED <<streams, slotVars, breakerVars, historyVars>>
  BY DEF Reserve, Finalize
<1>2. PICK phase \in {"upstream", "giveBack", "freeSlot"} : Goto(r, phase)
  BY DEF Reserve, Finalize
<1>3. PICK s \in {"free", "held", "charged"} :
        /\ state' = [state EXCEPT ![r] = s]
        /\ phase = "upstream" => pc[r] = "reserve" /\ s = "held"
        /\ phase = "giveBack" => pc[r] = "reserve" /\ s = "free"
        /\ phase = "freeSlot" => \/ pc[r] = "settle" /\ s = "charged"
                                 \/ pc[r] = "fail" /\ s = "free"
  <2>1. CASE Reserve(r) /\ Account!Grant(r) /\ Goto(r, "upstream")
    <3>1. state' = [state EXCEPT ![r] = "held"] /\ pc[r] = "reserve"
      BY <2>1 DEF Reserve, Account!Grant
    <3>2. phase = "upstream"
      BY <1>2, <2>1 DEF Goto, TypeOK
    <3>3. QED
      BY <3>1, <3>2
  <2>2. CASE Reserve(r) /\ UNCHANGED accountVars /\ Goto(r, "giveBack")
    <3>1. state' = [state EXCEPT ![r] = "free"] /\ phase = "giveBack" /\ pc[r] = "reserve"
      BY <1>2, <2>2
         DEF Reserve, Stages, Stage, accountVars, AccountTypeOK, Goto, TypeOK
    <3>2. QED
      BY <3>1
  <2>3. CASE Finalize(r)
    BY <1>2, <2>3 DEF Finalize, Account!Settle, Account!Return, Goto, TypeOK
  <2>4. QED
    BY <2>1, <2>2, <2>3 DEF Reserve
<1>4. /\ phase \in Phases /\ phase \notin Slotless /\ pc[r] \notin Slotless
      /\ phase \notin Outcomes /\ pc[r] \notin Outcomes
  BY <1>2, <1>3 DEF Phases, EscapePhases, Slotless, Outcomes
<1>5. TypeOK' /\ AccountTypeOK'
  BY <1>1, <1>2, <1>3, <1>4 DEF TypeOK, AccountTypeOK, Goto, BreakerTypeOK,
     breakerVars, slotVars, historyVars
<1>6. SlotsAccounted'
  BY <1>1, <1>2, <1>4, SlotsKept DEF TypeOK
<1>7. OneReport'
  BY <1>1, <1>2, <1>4 DEF OneReport, TypeOK, Goto, historyVars
<1>8. Stages'
  <2>1. Stage(r)'
    BY <1>1, <1>2, <1>3, <1>4
       DEF Stages, Stage, Settled, TypeOK, AccountTypeOK, Goto, historyVars, Outcomes
  <2>2. QED
    BY <1>1, <1>2, <1>3, <1>4, <2>1, StageKept DEF TypeOK, historyVars, AccountTypeOK
<1>9. Blamed'
  BY <1>1, BlameKept DEF historyVars
<1>10. QED
  BY <1>5, <1>6, <1>7, <1>8, <1>9

\* The answer of the upstream.
LEMMA CallIInv ==
  ASSUME IInv, NEW r \in Requests, CallUpstream(r) PROVE IInv'
<1> USE DEF IInv
<1>1. UNCHANGED <<streams, slotVars, accountVars, breakerVars, reports>>
      /\ pc[r] = "upstream"
  BY DEF CallUpstream
<1>2. PICK o \in Outcomes : Goto(r, o) /\ outcome' = [outcome EXCEPT ![r] = o]
  BY DEF CallUpstream
<1>3. o \in Phases /\ o \notin Slotless /\ pc[r] \notin Slotless
      /\ outcome[r] = "none" /\ reports[r] = 0 /\ state[r] = "held"
  BY <1>1 DEF Phases, Slotless, Outcomes, Stages, Stage, OneReport
<1>4. TypeOK' /\ AccountTypeOK'
  BY <1>1, <1>2, <1>3 DEF TypeOK, AccountTypeOK, Goto, BreakerTypeOK, breakerVars,
     slotVars, accountVars
<1>5. SlotsAccounted'
  BY <1>1, <1>2, <1>3, SlotsKept DEF TypeOK
<1>6. OneReport'
  BY <1>1, <1>2, <1>3 DEF OneReport, TypeOK, Goto
<1>7. Stages'
  <2>1. Stage(r)'
    BY <1>1, <1>2, <1>3 DEF Stage, TypeOK, Goto, accountVars, Outcomes
  <2>2. QED
    BY <1>1, <1>2, <1>3, <2>1, StageKept DEF TypeOK, accountVars
<1>8. Blamed'
  <2>1. Failed' = Failed
    BY <1>1, <1>2, <1>3 DEF Failed, TypeOK
  <2>2. QED
    BY <1>1, <2>1 DEF Blamed, OpensOnlyOnOutages, Failed, breakerVars
<1>9. QED
  BY <1>4, <1>5, <1>6, <1>7, <1>8

\* The report of an outcome to the breaker.
LEMMA ReportIInv ==
  ASSUME IInv, NEW r \in Requests, RecordException(r) \/ RecordOutcome(r) PROVE IInv'
<1> USE DEF IInv
<1>1. UNCHANGED <<streams, slotVars, accountVars>> /\ Report(r) /\ pc[r] \in Outcomes
  BY DEF RecordException, RecordOutcome, Outcomes
<1>2. PICK phase \in {"fail", "errorBody", "body", "stream"} :
        /\ Goto(r, phase)
        /\ phase \in {"body", "stream"} <=> pc[r] = "answered200"
  BY DEF RecordException, RecordOutcome, ErrorPhase
<1>3. /\ phase \in Phases /\ phase \notin Slotless /\ pc[r] \notin Slotless
      /\ phase \notin Outcomes
  BY <1>1 DEF Phases, EscapePhases, Slotless, Outcomes
<1>4. /\ outcome[r] = pc[r] /\ state[r] = "held" /\ reports[r] = 0
      /\ reports' = [reports EXCEPT ![r] = @ + 1] /\ outcome' = outcome
  BY <1>1 DEF Stages, Stage, OneReport, Report
<1>5. RecordSuccess \/ (RecordFailure /\ pc[r] \in Outage)
  BY DEF RecordException, RecordOutcome, Outage
<1>6. TypeOK' /\ AccountTypeOK'
  <2>1. BreakerTypeOK'
    BY <1>5, BreakerTypes DEF TypeOK
  <2>2. QED
    BY <1>1, <1>2, <1>3, <1>4, <2>1
       DEF TypeOK, AccountTypeOK, Goto, Report, slotVars, accountVars
<1>7. SlotsAccounted'
  BY <1>1, <1>2, <1>3, SlotsKept DEF TypeOK
<1>8. OneReport'
  BY <1>1, <1>2, <1>3, <1>4 DEF OneReport, TypeOK, Goto, Outcomes
<1>9. Stages'
  <2>1. Stage(r)'
    BY <1>1, <1>2, <1>3, <1>4 DEF Stage, TypeOK, Goto, accountVars
  <2>2. QED
    BY <1>1, <1>2, <1>3, <1>4, <2>1, StageKept DEF TypeOK, accountVars
<1>10. Blamed'
  <2>1. CASE RecordSuccess
    <3>1. Cardinality(Failed') \in Nat
      BY RequestsAssumption, FS_Subset, FS_CardinalityType DEF Failed
    <3>2. QED
      BY <2>1, <3>1 DEF RecordSuccess, Blamed, OpensOnlyOnOutages
  <2>2. CASE RecordFailure /\ pc[r] \in Outage
    <3>1. Failed' = Failed \cup {r} /\ r \notin Failed
      BY <1>4, <2>2 DEF Failed, TypeOK
    <3>2. Cardinality(Failed') = Cardinality(Failed) + 1
      BY <3>1, FailedFinite, FS_AddElement
    <3>3. /\ failures' <= Cardinality(Failed')
          /\ openFor' # Closed => Cardinality(Failed') >= Threshold
      BY <2>2, <3>2, FailedFinite, ThresholdAssumption
         DEF RecordFailure, Blamed, OpensOnlyOnOutages, Failed, TypeOK, BreakerTypeOK
    <3>4. QED
      BY <3>3 DEF Blamed, OpensOnlyOnOutages, Failed
  <2>3. QED
    BY <1>5, <2>1, <2>2
<1>11. QED
  BY <1>6, <1>7, <1>8, <1>9, <1>10

\* The clock.
LEMMA PassTimeIInv ==
  ASSUME IInv, PassTime PROVE IInv'
<1> USE DEF IInv
<1>1. UNCHANGED <<pc, streams, slotVars, accountVars, historyVars>> /\ Tick
  BY DEF PassTime
<1>2. TypeOK' /\ AccountTypeOK'
  BY <1>1, BreakerTypes DEF TypeOK, AccountTypeOK, slotVars, accountVars, historyVars
<1>3. SlotsAccounted' /\ OneReport' /\ Stages'
  BY <1>1 DEF SlotsAccounted, OneReport, Stages, Stage, Settled, slotVars, accountVars,
     historyVars
<1>4. Blamed'
  <2>1. openFor # Closed /\ failures' = failures /\ Failed' = Failed
    BY <1>1 DEF Tick, Closed, Failed, historyVars
  <2>2. QED
    BY <2>1 DEF Blamed, OpensOnlyOnOutages, Failed
<1>5. QED
  BY <1>2, <1>3, <1>4

LEMMA NextIInv == IInv /\ [Next]_vars => IInv'
<1> SUFFICES ASSUME IInv, [Next]_vars PROVE IInv'
  OBVIOUS
<1>1. ASSUME NEW r \in Requests, Admit(r) \/ Step(r) \/ Escape(r) PROVE IInv'
  BY <1>1, AdmitIInv, TakeSlotIInv, FreeIInv, MoveIInv, AccountIInv, CallIInv,
     ReportIInv DEF Step
<1>2. CASE PassTime
  BY <1>2, PassTimeIInv
<1>3. CASE UNCHANGED vars
  <2>1. UNCHANGED <<pc, streams, slotVars, accountVars, breakerVars, historyVars>>
    BY <1>3 DEF vars
  <2>2. TypeOK' /\ AccountTypeOK'
    BY <2>1 DEF IInv, TypeOK, AccountTypeOK, BreakerTypeOK, slotVars, accountVars,
       breakerVars, historyVars
  <2>3. SlotsAccounted' /\ OneReport' /\ Stages'
    BY <2>1 DEF IInv, SlotsAccounted, OneReport, Stages, Stage, Settled, slotVars,
       accountVars, historyVars
  <2>4. Blamed'
    BY <2>1, BlameKept DEF IInv, historyVars
  <2>5. QED
    BY <2>2, <2>3, <2>4 DEF IInv
<1>4. QED
  BY <1>1, <1>2, <1>3 DEF Next

THEOREM Invariance == Spec => []IInv
BY InitIInv, NextIInv, PTL DEF Spec

-----------------------------------------------------------------------------
\* Every reachable state of the chat path is well typed.
THEOREM TypeCorrect == Spec => []TypeOK
<1>1. IInv => TypeOK
  BY DEF IInv
<1>2. QED
  BY <1>1, Invariance, PTL

\* For any number of requests and any cap, the counter is exactly the slots of
\* the requests that own one: no path of the chat handlers frees a slot twice
\* or ends in a handler with its slot.
THEOREM NoHandlerLeaksSlots == Spec => []SlotsAccounted
<1>1. IInv => SlotsAccounted
  BY DEF IInv
<1>2. QED
  BY <1>1, Invariance, PTL

\* Every finished call is reported to the breaker exactly once, in both copies
\* of the handlers.
THEOREM ReportedOnce == Spec => []OneReport
<1>1. IInv => OneReport
  BY DEF IInv
<1>2. QED
  BY <1>1, Invariance, PTL

\* A request that ends in a handler was charged if and only if the upstream
\* answered 200, and holds no reservation otherwise.
THEOREM ChargedIffServed == Spec => []ServedIffCharged
<1>1. IInv => ServedIffCharged
  BY DEF IInv, Stages, Stage, Settled, ServedIffCharged
<1>2. QED
  BY <1>1, Invariance, PTL

\* For any threshold and cooldown, the breaker is open only after that many
\* calls failed on the provider's side.
THEOREM BreakerBlamesProvider == Spec => []OpensOnlyOnOutages
<1>1. IInv => OpensOnlyOnOutages
  BY DEF IInv, Blamed
<1>2. QED
  BY <1>1, Invariance, PTL
=============================================================================
