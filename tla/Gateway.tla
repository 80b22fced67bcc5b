------------------------------- MODULE Gateway -------------------------------
(***************************************************************************)
(* The path of a chat request through the gateway (chat_completions,       *)
(* _stream_response, stream_sse_events and _finalize_event of              *)
(* routers/gateway.py), composed of the circuit breaker, the concurrency   *)
(* slots and the credit account.  Slots and credits are taken and given    *)
(* back in one step each: SessionGuard and CreditLedger model the Redis    *)
(* commands behind them, and CreditLedger implements the QuotaAccount used *)
(* here.  Refusals before the breaker (no subscription, a tier the plan    *)
(* does not allow, rate limits) touch none of this state.                  *)
(***************************************************************************)
EXTENDS CircuitBreaker, FiniteSets

CONSTANTS
  Requests,    \* the chat requests of one account
  SlotLimit,   \* plan.max_concurrent_requests
  Limit, Prior, Amounts, Actuals,   \* as in QuotaAccount
  Escapes      \* where an exception or a disconnect leaves the path uncaught

ASSUME RequestsAssumption == IsFiniteSet(Requests)
ASSUME SlotLimitAssumption == SlotLimit \in Nat \ {0}

VARIABLES
  pc,          \* the phase of each request
  streams,     \* the requests with stream = true
  slots,       \* the account's in-flight counter
  held,        \* the requests that own a slot: request.state.guard_slot_held, which
               \* the code clears just before the release
  state, reserved, charge, sound,   \* the credit account
  outcome,     \* history: how the upstream answered each request
  reports      \* history: outcomes each request reported to the breaker

accountVars == <<state, reserved, charge, sound>>
slotVars == <<slots, held>>
historyVars == <<outcome, reports>>
vars == <<pc, streams, slotVars, accountVars, breakerVars, historyVars>>

Account == INSTANCE QuotaAccount

-----------------------------------------------------------------------------
\* Where an uncaught exception can leave a request: guard.observe outside the
\* try; the release of a failed reservation; the sanitizing before the call; a
\* 200 body that is not JSON; aread of an error body of a stream; a client gone
\* before the stream generator starts; a database or Redis error in the
\* finalization itself.
EscapePhases == {"observe", "giveBack", "upstream", "body", "stream", "errorBody",
                 "settle", "fail", "freeSlot"}
ASSUME EscapesAssumption == Escapes \subseteq EscapePhases

\* How a call to the upstream ends: an exception, a 200, an error that says
\* nothing about the provider's health (400, 402, 422, 429), or another one.
Outcomes == {"raised", "answered200", "answeredError", "answeredBad"}
Outage == {"raised", "answeredBad"}

Phases == {"idle", "slot", "reserve", "over", "escaped"}
            \cup Outcomes \cup EscapePhases

TypeOK ==
  /\ BreakerTypeOK
  /\ pc \in [Requests -> Phases]
  /\ streams \subseteq Requests
  /\ slots \in Nat
  /\ held \subseteq Requests
  /\ outcome \in [Requests -> Outcomes \cup {"none"}]
  /\ reports \in [Requests -> Nat]

Goto(r, phase) == pc' = [pc EXCEPT ![r] = phase]

Init ==
  /\ BreakerInit
  /\ Account!Init
  /\ pc = [r \in Requests |-> "idle"]
  /\ streams = {}
  /\ slots = 0
  /\ held = {}
  /\ outcome = [r \in Requests |-> "none"]
  /\ reports = [r \in Requests |-> 0]

\* chat_completions: the breaker lets the request through (else 503).
Admit(r) ==
  /\ pc[r] = "idle"
  /\ Allows
  /\ \/ streams' = streams \cup {r}
     \/ UNCHANGED streams
  /\ Goto(r, "slot")
  /\ UNCHANGED <<slotVars, accountVars, breakerVars, outcome, reports>>

\* guard.acquire_slot (else 429).
TakeSlot(r) ==
  /\ pc[r] = "slot"
  /\ \/ /\ slots < SlotLimit
        /\ slots' = slots + 1
        /\ held' = held \cup {r}
        /\ Goto(r, "observe")
     \/ slots >= SlotLimit /\ Goto(r, "over") /\ UNCHANGED slotVars
  /\ UNCHANGED <<streams, accountVars, breakerVars, historyVars>>

\* guard.observe, advisory.
Observe(r) ==
  /\ pc[r] = "observe"
  /\ Goto(r, "reserve")
  /\ UNCHANGED <<streams, slotVars, accountVars, breakerVars, historyVars>>

\* _reserve: the credits are granted and the RESERVED row inserted, or it
\* raises: 402, or an infrastructure error (what one may leave behind in the
\* ledger, CreditLedger counts as stray; the account holds nothing for it).
Reserve(r) ==
  /\ pc[r] = "reserve"
  /\ \/ Account!Grant(r) /\ Goto(r, "upstream")
     \/ UNCHANGED accountVars /\ Goto(r, "giveBack")
  /\ UNCHANGED <<streams, slotVars, breakerVars, historyVars>>

\* A variant whose handler re-raises without releasing the slot.
GiveNothingBack(r) ==
  /\ pc[r] = "giveBack"
  /\ held' = held \ {r}
  /\ Goto(r, "over")
  /\ UNCHANGED <<slots, streams, accountVars, breakerVars, historyVars>>

\* chat_completions: the handler of a failed _reserve releases the slot.
GiveBack(r) ==
  /\ pc[r] = "giveBack"
  /\ r \in held
  /\ slots' = slots - 1
  /\ held' = held \ {r}
  /\ Goto(r, "over")
  /\ UNCHANGED <<streams, accountVars, breakerVars, historyVars>>

\* upstream.chat or open_stream returns or raises.
CallUpstream(r) ==
  /\ pc[r] = "upstream"
  /\ \E o \in Outcomes : Goto(r, o) /\ outcome' = [outcome EXCEPT ![r] = o]
  /\ UNCHANGED <<streams, slotVars, accountVars, breakerVars, reports>>

Report(r) ==
  /\ reports' = [reports EXCEPT ![r] = @ + 1]
  /\ UNCHANGED outcome

\* What follows an answer with an error status: a stream's body is read first.
ErrorPhase(r) == IF r \in streams THEN "errorBody" ELSE "fail"

\* A variant that takes an exception of the client for no outcome at all.
RecordNothing(r) ==
  /\ pc[r] = "raised"
  /\ Goto(r, "fail")
  /\ UNCHANGED <<streams, slotVars, accountVars, breakerVars, historyVars>>

\* The three except clauses around the call: record_failure, then _fail_event.
RecordException(r) ==
  /\ pc[r] = "raised"
  /\ RecordFailure
  /\ Report(r)
  /\ Goto(r, "fail")
  /\ UNCHANGED <<streams, slotVars, accountVars>>

\* _record_breaker_outcome.
RecordOutcome(r) ==
  /\ \/ /\ pc[r] = "answered200"
        /\ RecordSuccess
        /\ Goto(r, IF r \in streams THEN "stream" ELSE "body")
     \/ /\ pc[r] = "answeredError"
        /\ RecordSuccess
        /\ Goto(r, ErrorPhase(r))
     \/ /\ pc[r] = "answeredBad"
        /\ RecordFailure
        /\ Goto(r, ErrorPhase(r))
  /\ Report(r)
  /\ UNCHANGED <<streams, slotVars, accountVars>>

\* The body is parsed, the stream ends or its client disconnects (the
\* generator's finally runs), or the error body is read.
ReadBody(r) ==
  /\ \/ pc[r] \in {"body", "stream"} /\ Goto(r, "settle")
     \/ pc[r] = "errorBody" /\ Goto(r, "fail")
  /\ UNCHANGED <<streams, slotVars, accountVars, breakerVars, historyVars>>

\* A variant that charges a request that failed.
ChargeFailure(r) ==
  /\ pc[r] \in {"settle", "fail"}
  /\ Account!Settle(r)
  /\ Goto(r, "freeSlot")
  /\ UNCHANGED <<streams, slotVars, breakerVars, historyVars>>

\* _finalize_event: settle the row and adjust the ledger, or fail the row and
\* return the reservation.
Finalize(r) ==
  /\ \/ pc[r] = "settle" /\ Account!Settle(r)
     \/ pc[r] = "fail" /\ Account!Return(r)
  /\ Goto(r, "freeSlot")
  /\ UNCHANGED <<streams, slotVars, breakerVars, historyVars>>

\* A variant that never clears the flag, so that a second finalization
\* releases again.
FreeSlotAgain(r) ==
  /\ pc[r] \in {"freeSlot", "over"}
  /\ r \in held
  /\ slots' = slots - 1
  /\ Goto(r, "over")
  /\ UNCHANGED <<held, streams, accountVars, breakerVars, historyVars>>

\* _finalize_event: clear the flag and release the slot.
FreeSlot(r) ==
  /\ pc[r] = "freeSlot"
  /\ r \in held
  /\ slots' = slots - 1
  /\ held' = held \ {r}
  /\ Goto(r, "over")
  /\ UNCHANGED <<streams, accountVars, breakerVars, historyVars>>

\* The request ends by an exception no handler turns into a release: its slot
\* and its reservation stay behind.
Escape(r) ==
  /\ pc[r] \in Escapes
  /\ Goto(r, "escaped")
  /\ UNCHANGED <<streams, slotVars, accountVars, breakerVars, historyVars>>

PassTime == Tick /\ UNCHANGED <<pc, streams, slotVars, accountVars, historyVars>>

Step(r) ==
  \/ TakeSlot(r) \/ Observe(r) \/ Reserve(r) \/ GiveBack(r) \/ CallUpstream(r)
  \/ RecordException(r) \/ RecordOutcome(r) \/ ReadBody(r) \/ Finalize(r) \/ FreeSlot(r)

Next ==
  \/ \E r \in Requests : Admit(r) \/ Step(r) \/ Escape(r)
  \/ PassTime

Spec == Init /\ [][Next]_vars

-----------------------------------------------------------------------------
(* Properties *)

\* The counter is exactly the slots of the requests that still own one: those
\* between acquire_slot and a release, and those that escaped.  No path
\* releases twice, or ends in a handler without releasing.
SlotsAccounted ==
  /\ slots = Cardinality(held)
  /\ held = {r \in Requests : pc[r] \notin {"idle", "slot", "over"}}

\* A request that ends through a handler leaves nothing open: it was charged if
\* the upstream answered 200 and its whole reservation is back if not.
ServedIffCharged ==
  \A r \in Requests : pc[r] = "over" =>
    state[r] = IF outcome[r] = "answered200" THEN "charged" ELSE "free"

\* Every finished call tells the breaker its outcome exactly once, whichever of
\* the two copies of the handlers (plain and streaming) it went through.
OneReport ==
  \A r \in Requests :
    reports[r] = IF outcome[r] = "none" \/ pc[r] \in Outcomes THEN 0 ELSE 1

\* The breaker shuts users out only after Threshold calls failed on the
\* provider's side: requests refused here, or by the provider for the user's
\* own fault, never open it.
OpensOnlyOnOutages ==
  openFor # Closed =>
    Cardinality({r \in Requests : outcome[r] \in Outage /\ reports[r] > 0}) >= Threshold

\* What the comment in _finalize_event and privacy-rules.md say: when no
\* request is under way, no slot is taken.
SlotsNeverLeak ==
  (\A r \in Requests : pc[r] \in {"idle", "over", "escaped"}) => slots = 0
=============================================================================
