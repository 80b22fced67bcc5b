---------------------------- MODULE BillingEvents ----------------------------
(***************************************************************************)
(* From a payment to a granted period, for one user: what the provider     *)
(* reports (services/billing_providers) and billing_webhook                *)
(* (routers/billing.py).                                                   *)
(*                                                                         *)
(* A provider reports a payment by events, delivers each until it is       *)
(* answered with 200, and may deliver it again afterwards, in any order.   *)
(* Signatures are left out: a delivery that fails verification answers 400 *)
(* and changes nothing.  assign_plan is one step here; Subscriptions shows *)
(* what its statements amount to.                                          *)
(***************************************************************************)
EXTENDS Integers, Sequences, FiniteSets, FiniteSetsExt

CONSTANTS
  Hooks,         \* concurrent calls about this user
  Payments,      \* the payments the provider takes
  MaxNotices,    \* bound on the events reported
  MaxFailures    \* bound on the calls that fail before their answer

ASSUME BillingBoundsAssumption == MaxNotices \in Nat /\ MaxFailures \in Nat

VARIABLES
  provider,   \* BILLING_PROVIDER
  known,      \* the users row exists
  notices,    \* the events reported, in order
  answered,   \* those answered with 200
  hook,       \* the progress of each call
  recorded,   \* the events that are the billing_event_id of a subscription
  granted,    \* periods granted for each payment, counted to MaxNotices + 1
  failures    \* calls that failed so far

billingVars ==
  <<provider, known, notices, answered, hook, recorded, granted, failures>>

-----------------------------------------------------------------------------
\* The _EVENT_TYPES table of each provider.
StripeEvents ==
  [checkout_session_completed |-> "started", subscription_created |-> "started",
   subscription_updated |-> "updated", subscription_deleted |-> "cancelled",
   invoice_paid |-> "renewed", invoice_payment_failed |-> "payment_failed"]
DodoEvents ==
  [subscription_active |-> "started", subscription_renewed |-> "renewed",
   subscription_updated |-> "updated", subscription_plan_changed |-> "updated",
   subscription_cancelled |-> "cancelled", subscription_expired |-> "cancelled",
   payment_succeeded |-> "payment_succeeded", payment_failed |-> "payment_failed"]
PaddleEvents ==
  [subscription_activated |-> "started", subscription_created |-> "started",
   subscription_renewed |-> "renewed", subscription_updated |-> "updated",
   subscription_canceled |-> "cancelled", transaction_completed |-> "payment_succeeded",
   transaction_payment_failed |-> "payment_failed"]

\* Live and test modes differ in their address only.
EventTypes == [stripe |-> StripeEvents, dodo |-> DodoEvents, paddle |-> PaddleEvents]
Providers == DOMAIN EventTypes
Types(p) == DOMAIN EventTypes[p] \cup {"unmapped"}

\* full: a plan's price, the user's address and an event id, wherever the
\* provider puts them.  anonymous: no id.  partial: no price or no address.
\* foreign: a price of no plan, or an address of no user.
Payloads == {"full", "anonymous", "partial", "foreign"}

\* parse_event and billing_webhook: the events that call for a period.
CallsForPeriod(type) ==
  type # "unmapped" /\ EventTypes[provider][type] \in {"started", "renewed"}
Granting(n) == CallsForPeriod(n.type) /\ n.payload \in {"full", "anonymous"}

NoCall == [stage |-> "idle", notice |-> 0]

BillingTypeOK ==
  /\ provider \in Providers
  /\ known \in BOOLEAN
  /\ notices \in Seq([payment : Payments, type : Types(provider), payload : Payloads])
  /\ answered \subseteq DOMAIN notices /\ recorded \subseteq DOMAIN notices
  /\ hook \in [Hooks -> [stage : {"idle", "grant"}, notice : 0 .. MaxNotices]]
  /\ granted \in [Payments -> 0 .. MaxNotices + 1]
  /\ failures \in 0 .. MaxFailures

BillingInit ==
  /\ provider \in Providers
  /\ known = TRUE
  /\ notices = <<>> /\ answered = {} /\ recorded = {}
  /\ hook = [h \in Hooks |-> NoCall]
  /\ granted = [p \in Payments |-> 0]
  /\ failures = 0

Free(h) == hook[h].stage = "idle"
Stage(h, stage, n) == hook' = [hook EXCEPT ![h] = [stage |-> stage, notice |-> n]]
Finish(h) == hook' = [hook EXCEPT ![h] = NoCall]

-----------------------------------------------------------------------------
\* The provider reports something about a payment.  What an event that is
\* ignored for its type carries makes no difference.
Report(p) ==
  /\ Len(notices) < MaxNotices
  /\ \E type \in Types(provider), payload \in Payloads :
       /\ CallsForPeriod(type) \/ payload = "full"
       /\ notices' = Append(notices, [payment |-> p, type |-> type, payload |-> payload])
  /\ UNCHANGED <<provider, known, answered, hook, recorded, granted, failures>>

\* billing_webhook, up to the user's row: what calls for no period is ignored
\* with a 200; so is a period for an unknown user.
Receive(h) ==
  /\ Free(h)
  /\ \E n \in DOMAIN notices :
       \/ /\ Granting(notices[n]) /\ known
          /\ Stage(h, "grant", n)
          /\ UNCHANGED answered
       \/ /\ ~Granting(notices[n]) \/ ~known
          /\ answered' = answered \cup {n}
          /\ UNCHANGED hook
  /\ UNCHANGED <<provider, known, notices, recorded, granted, failures>>

\* A variant that grants a period for every delivery.
GrantAgain(h) ==
  LET n == hook[h].notice IN
  /\ hook[h].stage = "grant"
  /\ granted' = [granted EXCEPT ![notices[n].payment] = Min({@ + 1, MaxNotices + 1})]
  /\ recorded' = recorded \cup {n}
  /\ answered' = answered \cup {n}
  /\ Finish(h)
  /\ UNCHANGED <<provider, known, notices, failures>>

\* billing_webhook, assign_plan: an id already recorded grants nothing; if the
\* user is gone, the foreign key turns the call into a 500.
Grant(h) ==
  LET n == hook[h].notice IN
  /\ hook[h].stage = "grant"
  /\ \/ /\ known /\ n \notin recorded
        /\ granted' = [granted EXCEPT ![notices[n].payment] = Min({@ + 1, MaxNotices + 1})]
        /\ recorded' = IF notices[n].payload = "full" THEN recorded \cup {n} ELSE recorded
        /\ answered' = answered \cup {n}
     \/ /\ known /\ n \in recorded
        /\ answered' = answered \cup {n}
        /\ UNCHANGED <<granted, recorded>>
     \/ /\ ~known
        /\ UNCHANGED <<answered, granted, recorded>>
  /\ Finish(h)
  /\ UNCHANGED <<provider, known, notices, failures>>

\* The worker dies, or a store or the provider fails it: no 200.
HookFails(h) ==
  /\ ~Free(h) /\ failures < MaxFailures
  /\ failures' = failures + 1
  /\ Finish(h)
  /\ UNCHANGED <<provider, known, notices, answered, recorded, granted>>

\* delete_me takes the user and the subscriptions; Redis and the rest are
\* AccountDeletion's.
CloseAccount ==
  /\ known
  /\ known' = FALSE
  /\ recorded' = {}
  /\ UNCHANGED <<provider, notices, answered, hook, granted, failures>>

BillingNext ==
  \/ \E p \in Payments : Report(p)
  \/ \E h \in Hooks :
       \/ Receive(h) \/ Grant(h) \/ HookFails(h)
  \/ CloseAccount

\* Delivers one event, to whichever call is free.
DeliverNotice(n) ==
  \E h \in Hooks : Receive(h) /\ (n \in answered' \/ hook'[h].notice = n)

\* The provider delivers again what was not answered, and calls go on.
BillingFairness ==
  /\ \A n \in 1 .. MaxNotices : SF_billingVars(n \notin answered /\ DeliverNotice(n))
  /\ \A h \in Hooks : WF_billingVars(Grant(h))

BillingSpec == BillingInit /\ [][BillingNext]_billingVars /\ BillingFairness

-----------------------------------------------------------------------------
(* Properties *)

Reports(p) == {n \in DOMAIN notices : notices[n].payment = p /\ Granting(notices[n])}
Identified(p) == \A n \in Reports(p) : notices[n].payload = "full"

\* However its deliveries repeat, overlap, fail or outlive the account, a payment
\* whose events all have an id never has more periods than events that call for
\* one (assign_plan on billing_event_id).
AtMostOnce(p) == Identified(p) => granted[p] <= Cardinality(Reports(p))
NeverGrantedTwice == \A p \in Payments : AtMostOnce(p)

\* "A redelivered provider webhook ... must never grant a second period"
\* (assign_plan), and none is lost either: whatever fails, a payment comes to
\* have, for good, one period for each event that called for one, while there
\* is a user to have it and every such event has an id.
PurchasesGrantOnce ==
  \A p \in Payments :
    /\ []AtMostOnce(p)
    /\ <>[](granted[p] = Cardinality(Reports(p)) \/ ~Identified(p) \/ ~known)
=============================================================================
