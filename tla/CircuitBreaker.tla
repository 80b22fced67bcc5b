--------------------------- MODULE CircuitBreaker ---------------------------
(***************************************************************************)
(* The in-process circuit breaker in front of the upstream                 *)
(* (services/circuit_breaker.py).  Its methods run under an asyncio lock,  *)
(* so each is one step; Gateway says when requests call them.              *)
(***************************************************************************)
EXTENDS Integers

CONSTANTS
  Threshold,   \* failure_threshold
  Cooldown     \* cooldown_seconds, in ticks of the clock

ASSUME ThresholdAssumption == Threshold \in Nat \ {0}
ASSUME CooldownAssumption == Cooldown \in Nat \ {0}

VARIABLES
  failures,    \* _consecutive_failures, counted up to Threshold
  openFor      \* ticks since _opened_at, up to Cooldown; Closed when it is None

breakerVars == <<failures, openFor>>

Closed == -1

BreakerTypeOK ==
  /\ failures \in 0 .. Threshold
  /\ openFor \in {Closed} \cup 0 .. Cooldown

BreakerInit ==
  /\ failures = 0
  /\ openFor = Closed

\* allow_request: closed, or the cooldown is over.
Allows == openFor = Closed \/ openFor >= Cooldown

\* record_success.
RecordSuccess ==
  /\ failures' = 0
  /\ openFor' = Closed

\* A variant that opens one failure early.
RecordFailureEarly ==
  /\ failures' = IF failures < Threshold THEN failures + 1 ELSE failures
  /\ openFor' = IF failures + 2 >= Threshold THEN 0 ELSE openFor

\* record_failure: at the threshold, and at every failure from then on, the
\* cooldown starts again.
RecordFailure ==
  /\ failures' = IF failures < Threshold THEN failures + 1 ELSE failures
  /\ openFor' = IF failures + 1 >= Threshold THEN 0 ELSE openFor

\* Time passes.
Tick ==
  /\ openFor \in 0 .. Cooldown - 1
  /\ openFor' = openFor + 1
  /\ UNCHANGED failures
=============================================================================
