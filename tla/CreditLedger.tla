---------------------------- MODULE CreditLedger ----------------------------
(***************************************************************************)
(* One user's credits in one billing period: the Redis ledger              *)
(* credits:{user}:{period} (services/credits.py), the window budget        *)
(* budget:{user}:{window}, and the durable usage_events rows, driven by    *)
(* concurrent chat requests (_reserve and _finalize_event of               *)
(* routers/gateway.py).                                                    *)
(*                                                                         *)
(* Every Redis command and every database transaction is one step.  Amounts*)
(* are small integers: what matters is only how they add up.               *)
(***************************************************************************)
EXTENDS Integers, FiniteSets, Functions

CONSTANTS
  Requests,     \* the chat requests of the period
  Limit,        \* plan.monthly_credit_limit
  WindowLimit,  \* plan.max_credits_per_window
  RequestCap,   \* plan.max_credits_per_request
  Prior,        \* credits of the rows settled before the modelled requests
  Amounts,      \* what a request may reserve: its estimated worst case
  Actuals,      \* what a request may turn out to cost
  MaxCrashes,   \* bound on the requests that die under way
  MaxLosses     \* bound on the times Redis loses its data

ASSUME RequestsAssumption == IsFiniteSet(Requests)
ASSUME LimitsAssumption == Limit \in Nat /\ WindowLimit \in Nat /\ RequestCap \in Nat
ASSUME PriorAssumption == Prior \in 0 .. Limit
ASSUME AmountsAssumption == Amounts \subseteq Nat /\ Actuals \subseteq Nat
ASSUME BoundsAssumption == MaxCrashes \in Nat /\ MaxLosses \in Nat

VARIABLES
  ledger,       \* the ledger's value, 0 while its key does not exist
  present,      \* whether the ledger's key exists
  spent,        \* the value of the current budget window's key
  consumers,    \* the requests that added to it
  rows,         \* the usage_events row of each request
  pc,           \* the phase of each request
  amount,       \* the credits each request reserves
  snap,         \* the SUM each rebuilding request read
  crashes, losses,
  stray,        \* history: what dead requests left in the ledger beyond their rows
  intact        \* history: no rebuild overwrote a live ledger, and Redis never
                \* lost the ledger under requests

vars == <<ledger, present, spent, consumers, rows, pc, amount, snap,
          crashes, losses, stray, intact>>

ledgerVars == <<ledger, present>>
windowVars == <<spent, consumers>>
faultVars == <<crashes, losses, stray, intact>>

-----------------------------------------------------------------------------
Statuses == {"none", "RESERVED", "SETTLED", "FAILED"}
NoRow == [status |-> "none", charge |-> 0]

Syncing == {"sum", "set", "reserve"}
Holding == {"rollback", "window", "unspend", "release", "insert", "upstream", "adjust"}
Over == {"refused", "done", "dead"}
Phases == {"idle"} \cup Syncing \cup Holding \cup Over

Busy(r) == pc[r] \in Syncing \cup Holding

TypeOK ==
  /\ ledger \in Int
  /\ present \in BOOLEAN
  /\ ~present => ledger = 0
  /\ spent \in Int
  /\ consumers \subseteq Requests
  /\ rows \in [Requests -> [status : Statuses, charge : Nat]]
  /\ pc \in [Requests -> Phases]
  /\ amount \in [Requests -> Nat]
  /\ snap \in [Requests -> Nat]
  /\ crashes \in 0 .. MaxCrashes
  /\ losses \in 0 .. MaxLosses
  /\ stray \in Int
  /\ intact \in BOOLEAN

Charge(r) == rows[r].charge

\* A variant whose SUM leaves the rows still RESERVED out.
SettledUsage ==
  Prior + SumFunction([r \in Requests |-> IF rows[r].status = "SETTLED" THEN Charge(r) ELSE 0])

\* ensure_ledger_synced's SUM: what the RESERVED and SETTLED rows charge (a
\* FAILED row charges nothing).
DurableUsage == Prior + SumFunction([r \in Requests |-> Charge(r)])

Goto(r, phase) == pc' = [pc EXCEPT ![r] = phase]

\* INCRBYFLOAT, which creates a missing key.
Incr(delta) == ledger' = ledger + delta /\ present' = TRUE

\* CreditLedger.adjust: a zero difference sends no command.
AdjustBy(delta) == IF delta = 0 THEN UNCHANGED ledgerVars ELSE Incr(delta)

-----------------------------------------------------------------------------
Init ==
  /\ present \in BOOLEAN
  /\ ledger = IF present THEN Prior ELSE 0
  /\ spent = 0
  /\ consumers = {}
  /\ rows = [r \in Requests |-> NoRow]
  /\ pc = [r \in Requests |-> "idle"]
  /\ amount = [r \in Requests |-> 0]
  /\ snap = [r \in Requests |-> 0]
  /\ crashes = 0
  /\ losses = 0
  /\ stray = 0
  /\ intact = TRUE

\* _reserve: the per-request ceiling, then the GET of ensure_ledger_synced.
Begin(r) ==
  /\ pc[r] = "idle"
  /\ \E a \in Amounts :
       \/ a > RequestCap /\ Goto(r, "refused") /\ UNCHANGED amount
       \/ /\ a <= RequestCap
          /\ amount' = [amount EXCEPT ![r] = a]
          /\ Goto(r, IF present THEN "reserve" ELSE "sum")
  /\ UNCHANGED <<ledgerVars, windowVars, faultVars, rows, snap>>

\* ensure_ledger_synced: the SELECT SUM of a request that found no key.
ReadRows(r) ==
  /\ pc[r] = "sum"
  /\ snap' = [snap EXCEPT ![r] = DurableUsage]
  /\ Goto(r, "set")
  /\ UNCHANGED <<ledgerVars, windowVars, faultVars, rows, amount>>

\* ensure_ledger_synced: the SET, unconditional.
Rebuild(r) ==
  /\ pc[r] = "set"
  /\ ledger' = snap[r]
  /\ present' = TRUE
  /\ intact' = (intact /\ (present => ledger = snap[r]))
  /\ snap' = [snap EXCEPT ![r] = 0]
  /\ Goto(r, "reserve")
  /\ UNCHANGED <<windowVars, rows, amount, crashes, losses, stray>>

\* A variant that compares what the ledger held before its own increment.
ReserveComparesFirst(r) ==
  /\ pc[r] = "reserve"
  /\ Incr(amount[r])
  /\ Goto(r, IF ledger > Limit THEN "rollback" ELSE "window")
  /\ UNCHANGED <<windowVars, faultVars, rows, amount, snap>>

\* CreditLedger.reserve: add first, compare after.
Reserve(r) ==
  /\ pc[r] = "reserve"
  /\ Incr(amount[r])
  /\ Goto(r, IF ledger + amount[r] > Limit THEN "rollback" ELSE "window")
  /\ UNCHANGED <<windowVars, faultVars, rows, amount, snap>>

\* CreditLedger.reserve: take the over-limit increment back, then 402.
Rollback(r) ==
  /\ pc[r] = "rollback"
  /\ Incr(-amount[r])
  /\ Goto(r, "refused")
  /\ amount' = [amount EXCEPT ![r] = 0]
  /\ UNCHANGED <<windowVars, faultVars, rows, snap>>

\* A variant that compares what the window held before its own increment.
ConsumeComparesFirst(r) ==
  /\ pc[r] = "window"
  /\ spent' = spent + amount[r]
  /\ consumers' = consumers \cup {r}
  /\ Goto(r, IF spent > WindowLimit THEN "unspend" ELSE "insert")
  /\ UNCHANGED <<ledgerVars, faultVars, rows, amount, snap>>

\* BudgetLedger.consume: add to the current window, compare after.
Consume(r) ==
  /\ pc[r] = "window"
  /\ spent' = spent + amount[r]
  /\ consumers' = consumers \cup {r}
  /\ Goto(r, IF spent + amount[r] > WindowLimit THEN "unspend" ELSE "insert")
  /\ UNCHANGED <<ledgerVars, faultVars, rows, amount, snap>>

\* BudgetLedger.consume: take the increment back from the window it was added
\* to, which may be over by then.
Unspend(r) ==
  /\ pc[r] = "unspend"
  /\ spent' = IF r \in consumers THEN spent - amount[r] ELSE spent
  /\ consumers' = consumers \ {r}
  /\ Goto(r, "release")
  /\ UNCHANGED <<ledgerVars, faultVars, rows, amount, snap>>

\* A variant that keeps the reservation of a request over the window budget.
KeepRefused(r) ==
  /\ pc[r] = "release"
  /\ Goto(r, "refused")
  /\ amount' = [amount EXCEPT ![r] = 0]
  /\ UNCHANGED <<ledgerVars, windowVars, faultVars, rows, snap>>

\* _reserve: a request over the window budget gives its reservation back.
ReleaseRefused(r) ==
  /\ pc[r] = "release"
  /\ AdjustBy(-amount[r])
  /\ Goto(r, "refused")
  /\ amount' = [amount EXCEPT ![r] = 0]
  /\ UNCHANGED <<windowVars, faultVars, rows, snap>>

\* _reserve: the INSERT of the RESERVED row.
Insert(r) ==
  /\ pc[r] = "insert"
  /\ rows' = [rows EXCEPT ![r] = [status |-> "RESERVED", charge |-> amount[r]]]
  /\ Goto(r, "upstream")
  /\ UNCHANGED <<ledgerVars, windowVars, faultVars, amount, snap>>

\* A variant that records the difference to the reservation as the charge.
SettleDifference(r) ==
  /\ pc[r] = "upstream"
  /\ rows[r].status = "RESERVED"
  /\ \E c \in Actuals :
       rows' = [rows EXCEPT ![r] = [status |-> "SETTLED", charge |-> c - amount[r]]]
  /\ Goto(r, "adjust")
  /\ UNCHANGED <<ledgerVars, windowVars, faultVars, amount, snap>>

\* settle_usage_event: the first transition out of RESERVED.  A request that
\* succeeded is charged its actual cost, whatever it had reserved; one that
\* failed is charged nothing.
Settle(r) ==
  /\ pc[r] = "upstream"
  /\ rows[r].status = "RESERVED"
  /\ \/ \E c \in Actuals : rows' = [rows EXCEPT ![r] = [status |-> "SETTLED", charge |-> c]]
     \/ rows' = [rows EXCEPT ![r] = [status |-> "FAILED", charge |-> 0]]
  /\ Goto(r, "adjust")
  /\ UNCHANGED <<ledgerVars, windowVars, faultVars, amount, snap>>

\* _finalize_event: replace the reservation by the charge in the ledger.
Adjust(r) ==
  /\ pc[r] = "adjust"
  /\ AdjustBy(Charge(r) - amount[r])
  /\ Goto(r, "done")
  /\ UNCHANGED <<windowVars, faultVars, rows, amount, snap>>

\* A new budget window begins: its key starts from nothing.
RollWindow ==
  /\ consumers # {}
  /\ spent' = 0
  /\ consumers' = {}
  /\ UNCHANGED <<ledgerVars, faultVars, rows, pc, amount, snap>>

\* What a request has in the ledger: its reservation from the increment to the
\* adjustment or rollback, and from then on what its row charges.
Share(r) == IF pc[r] \in Holding THEN amount[r] ELSE Charge(r)

\* The worker of a request dies between two steps.
Crash(r) ==
  /\ Busy(r)
  /\ crashes < MaxCrashes
  /\ crashes' = crashes + 1
  /\ stray' = stray + Share(r) - Charge(r)
  /\ Goto(r, "dead")
  /\ UNCHANGED <<ledgerVars, windowVars, rows, amount, snap, losses, intact>>

\* Redis restarts or evicts: both keys are gone.  A request under way may still
\* take its increment back from the window.
LoseKeys ==
  /\ losses < MaxLosses
  /\ losses' = losses + 1
  /\ ledger' = 0
  /\ present' = FALSE
  /\ spent' = 0
  /\ consumers' = {r \in consumers : Busy(r)}
  /\ stray' = 0
  /\ intact' = (intact /\ \A r \in Requests : ~Busy(r))
  /\ UNCHANGED <<rows, pc, amount, snap, crashes>>

Next ==
  \/ \E r \in Requests :
       \/ Begin(r) \/ ReadRows(r) \/ Rebuild(r) \/ Reserve(r) \/ Rollback(r)
       \/ Consume(r) \/ Unspend(r) \/ ReleaseRefused(r) \/ Insert(r)
       \/ Settle(r) \/ Adjust(r) \/ Crash(r)
  \/ RollWindow
  \/ LoseKeys

Spec == Init /\ [][Next]_vars

-----------------------------------------------------------------------------
(* Properties *)

\* No credit is lost or counted twice: while the ledger is intact it holds the
\* prior usage, each request's share and what dead requests left behind, at
\* every point between reserve, window budget, insert, settle and adjust.
LedgerExact ==
  present /\ intact => ledger = Prior + SumFunction([r \in Requests |-> Share(r)]) + stray

\* The part of a request's charge that it had reserved beforehand.
Covered(r) == IF Charge(r) < amount[r] THEN Charge(r) ELSE amount[r]

\* Concurrent requests never spend past the plan's limit, except for what a
\* request cost beyond its own estimate: the durable rows' reserved part stays
\* within monthly_credit_limit (the docstring of CreditLedger, README.md and
\* gateway-contract.md promise it of every request).
NeverOverspent == Prior + SumFunction([r \in Requests |-> Covered(r)]) <= Limit

\* The same while the ledger is intact.
NoOverspend == intact => NeverOverspent

\* The burst budget holds: the requests that reach the upstream out of one
\* window reserved at most max_credits_per_window between them.
Funded(r) == IF rows[r].status # "none" /\ r \in consumers THEN amount[r] ELSE 0
WindowWithinBudget == intact => SumFunction([r \in Requests |-> Funded(r)]) <= WindowLimit

\* The account this ledger implements: a request holds credits from its INCR
\* until its row is settled or failed, or its reservation is refused; a worker
\* that dies before the INSERT holds nothing any more.
InAccount(r) ==
  \/ pc[r] \in {"window", "insert", "upstream"}
  \/ rows[r].status \in {"RESERVED", "SETTLED"}

Account == INSTANCE QuotaAccount WITH
  state <- [r \in Requests |-> IF rows[r].status = "SETTLED" THEN "charged"
                               ELSE IF InAccount(r) THEN "held" ELSE "free"],
  reserved <- [r \in Requests |-> IF InAccount(r) THEN amount[r] ELSE 0],
  charge <- [r \in Requests |-> IF rows[r].status = "SETTLED" THEN Charge(r) ELSE 0],
  sound <- intact

\* The interleaved Redis commands and transactions implement the atomic
\* account: every step grants, settles or returns one request's credits within
\* the limit, or changes nothing in the account.
ImplementsAccount == Account!Spec
=============================================================================
