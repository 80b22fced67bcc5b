---------------------------- MODULE QuotaAccount ----------------------------
(***************************************************************************)
(* What the credit ledger promises the gateway (the docstring of           *)
(* CreditLedger in services/credits.py, and "Concurrent requests reserve   *)
(* before calling upstream, so overspending is not possible" in            *)
(* docs/gateway-contract.md): one account per user and period, in which a  *)
(* reservation is granted atomically and only while it fits the limit, and *)
(* is later replaced by a charge or returned.  CreditLedger implements it  *)
(* until its Redis key is overwritten or lost under requests; from then on *)
(* the account is not sound and nothing is promised.                       *)
(***************************************************************************)
EXTENDS Integers, FiniteSets, Functions

CONSTANTS Requests, Limit, Prior, Amounts, Actuals

VARIABLES
  state,     \* "free", "held" or "charged", per request
  reserved,  \* what the request was granted
  charge,    \* what it was charged in the end
  sound      \* whether the account's promises still hold

vars == <<state, reserved, charge, sound>>

\* What a request takes of the limit: its reservation, or the smaller of the
\* reservation and the charge.
Taken(r) ==
  IF state[r] = "charged" /\ charge[r] < reserved[r] THEN charge[r] ELSE reserved[r]

Available == Limit - Prior - SumFunction([r \in Requests |-> Taken(r)])

Init ==
  /\ state = [r \in Requests |-> "free"]
  /\ reserved = [r \in Requests |-> 0]
  /\ charge = [r \in Requests |-> 0]
  /\ sound = TRUE

Grant(r) ==
  /\ state[r] = "free"
  /\ \E a \in Amounts :
       /\ a <= Available
       /\ reserved' = [reserved EXCEPT ![r] = a]
  /\ state' = [state EXCEPT ![r] = "held"]
  /\ UNCHANGED <<charge, sound>>

Settle(r) ==
  /\ state[r] = "held"
  /\ \E c \in Actuals : charge' = [charge EXCEPT ![r] = c]
  /\ state' = [state EXCEPT ![r] = "charged"]
  /\ UNCHANGED <<reserved, sound>>

Return(r) ==
  /\ state[r] = "held"
  /\ state' = [state EXCEPT ![r] = "free"]
  /\ reserved' = [reserved EXCEPT ![r] = 0]
  /\ UNCHANGED <<charge, sound>>

Unsound == sound' = FALSE

Next ==
  \/ \E r \in Requests : Grant(r) \/ Settle(r) \/ Return(r)
  \/ Unsound

Spec == Init /\ [][Next]_vars
=============================================================================
