---------------------------- MODULE SessionGuard ----------------------------
(***************************************************************************)
(* The concurrency cap of one account: the counter inflight:{user_id} that *)
(* SessionGuard keeps in Redis (services/session_guard.py).                *)
(*                                                                         *)
(* A chat request claims a slot with INCR, gives the counter a time to     *)
(* live when it was the first (EXPIRE), takes the increment back when the  *)
(* account is over its cap (DECR and 429), and releases the slot with DECR *)
(* at its end, resetting a negative counter to 0.  Each Redis command is   *)
(* one step; the awaits between them are where other requests run.         *)
(*                                                                         *)
(* A plan without a cap takes no slot and never touches the counter, so    *)
(* only accounts with a cap are modelled.                                  *)
(***************************************************************************)
EXTENDS Integers, FiniteSets

CONSTANTS
  Requests,    \* the chat requests one account may have under way at a time
  Limit,       \* plan.max_concurrent_requests
  MaxLosses    \* bound on the requests that vanish without releasing

ASSUME RequestsAssumption == IsFiniteSet(Requests)
ASSUME LimitAssumption == Limit \in Nat \ {0}
ASSUME MaxLossesAssumption == MaxLosses \in Nat

VARIABLES
  inflight,    \* the counter's value, 0 while the key does not exist
  expiry,      \* "absent": no key, "unset": key without TTL, "set": key with one
  pc,          \* the phase of each request
  losses,      \* history: slots whose request vanished
  lapsed,      \* history: the key expired while slots were out
  torn         \* history: a worker died between INCR and EXPIRE

vars == <<inflight, expiry, pc, losses, lapsed, torn>>

Phases == {"idle", "expire", "refuse", "held", "clamp"}

TypeOK ==
  /\ inflight \in Int
  /\ expiry \in {"absent", "unset", "set"}
  /\ expiry = "absent" => inflight = 0
  /\ pc \in [Requests -> Phases]
  /\ losses \in 0 .. MaxLosses
  /\ lapsed \in BOOLEAN
  /\ torn \in BOOLEAN

\* The requests whose increment is still in the counter.
Counted == {r \in Requests : pc[r] \in {"expire", "refuse", "held"}}

\* The requests that were admitted and are (or are about to be) served.
Admitted == {r \in Requests : pc[r] \in {"expire", "held"}}

Goto(r, phase) == pc' = [pc EXCEPT ![r] = phase]

\* A variant in which a command on a missing key does not create it.
BumpWithoutKey(by) ==
  /\ inflight' = inflight + by
  /\ UNCHANGED expiry

\* INCR and DECR create a missing key, without a time to live, and keep the
\* one an existing key has.
Bump(by) ==
  /\ inflight' = inflight + by
  /\ expiry' = IF expiry = "absent" THEN "unset" ELSE expiry

-----------------------------------------------------------------------------
Init ==
  /\ inflight = 0
  /\ expiry = "absent"
  /\ pc = [r \in Requests |-> "idle"]
  /\ losses = 0
  /\ lapsed = FALSE
  /\ torn = FALSE

\* A variant that compares with the cap before counting itself.
ClaimOneTooMany(r) ==
  /\ pc[r] = "idle"
  /\ Bump(1)
  /\ Goto(r, IF inflight > Limit THEN "refuse"
             ELSE IF inflight = 0 THEN "expire" ELSE "held")
  /\ UNCHANGED <<losses, lapsed, torn>>

\* A variant that refuses the request that reaches the cap.
ClaimOneTooFew(r) ==
  /\ pc[r] = "idle"
  /\ Bump(1)
  /\ Goto(r, IF inflight + 1 >= Limit THEN "refuse"
             ELSE IF inflight = 0 THEN "expire" ELSE "held")
  /\ UNCHANGED <<losses, lapsed, torn>>

\* A variant that gives the key no time to live.
ClaimForever(r) ==
  /\ pc[r] = "idle"
  /\ Bump(1)
  /\ Goto(r, IF inflight + 1 > Limit THEN "refuse" ELSE "held")
  /\ UNCHANGED <<losses, lapsed, torn>>

\* acquire_slot: the INCR.  The first increment is always within the cap.
Claim(r) ==
  /\ pc[r] = "idle"
  /\ Bump(1)
  /\ \/ inflight + 1 = 1 /\ Goto(r, "expire")
     \/ inflight + 1 # 1 /\ inflight + 1 <= Limit /\ Goto(r, "held")
     \/ inflight + 1 > Limit /\ Goto(r, "refuse")
  /\ UNCHANGED <<losses, lapsed, torn>>

\* acquire_slot: the EXPIRE after the first increment, which does nothing to a
\* key that is already gone.
SetExpiry(r) ==
  /\ pc[r] = "expire"
  /\ expiry' = IF expiry = "absent" THEN "absent" ELSE "set"
  /\ Goto(r, "held")
  /\ UNCHANGED <<inflight, losses, lapsed, torn>>

\* A variant that refuses without taking the increment back.
RefuseKeepingSlot(r) ==
  /\ pc[r] = "refuse"
  /\ Goto(r, "idle")
  /\ UNCHANGED <<inflight, expiry, losses, lapsed, torn>>

\* acquire_slot: the DECR that takes an over-cap increment back, then 429.
Refuse(r) ==
  /\ pc[r] = "refuse"
  /\ Bump(-1)
  /\ Goto(r, "idle")
  /\ UNCHANGED <<losses, lapsed, torn>>

\* release_slot: the DECR.
Release(r) ==
  /\ pc[r] = "held"
  /\ Bump(-1)
  /\ Goto(r, IF inflight - 1 < 0 THEN "clamp" ELSE "idle")
  /\ UNCHANGED <<losses, lapsed, torn>>

\* release_slot: SET 0 EX, after a decrement that went below zero.
Clamp(r) ==
  /\ pc[r] = "clamp"
  /\ inflight' = 0
  /\ expiry' = "set"
  /\ Goto(r, "idle")
  /\ UNCHANGED <<losses, lapsed, torn>>

\* The key reaches the end of its time to live.
Expire ==
  /\ expiry = "set"
  /\ inflight' = 0
  /\ expiry' = "absent"
  /\ lapsed' = (lapsed \/ Counted # {})
  /\ UNCHANGED <<pc, losses, torn>>

\* A request vanishes: its worker dies, or an exception leaves it on a path
\* that does not release (gateway.py calls observe outside the try, and a
\* response body that is not JSON is not caught).
Vanish(r) ==
  /\ pc[r] # "idle"
  /\ losses < MaxLosses
  /\ losses' = losses + 1
  /\ torn' = (torn \/ pc[r] = "expire")
  /\ Goto(r, "idle")
  /\ UNCHANGED <<inflight, expiry, lapsed>>

Next ==
  \/ \E r \in Requests :
       \/ Claim(r) \/ SetExpiry(r) \/ Refuse(r)
       \/ Release(r) \/ Clamp(r) \/ Vanish(r)
  \/ Expire

\* Redis answers and the event loop runs every ready task, so a request that
\* has begun takes its next step; time passes, so a key with a TTL expires.
SlotsFairness ==
  /\ \A r \in Requests : WF_vars(SetExpiry(r) \/ Refuse(r) \/ Release(r) \/ Clamp(r))
  /\ WF_vars(Expire)

Spec == Init /\ [][Next]_vars
SlotsSpec == Spec /\ SlotsFairness

-----------------------------------------------------------------------------
(* Properties *)

\* Every slot the counter holds belongs to a request under way or to one that
\* vanished: acquire and release, in any interleaving and across expiry, never
\* leave a slot behind by themselves, so only a loss can shut an account out.
NoStraySlots == inflight <= Cardinality(Counted) + losses

\* The cap holds: as long as the key never expired under requests in flight,
\* at most Limit requests are served at once (acquire_slot's 429).
CapHolds == ~lapsed => Cardinality(Admitted) <= Limit

\* The counter exceeds the requests under way: a slot nobody will release.
Phantom == inflight > Cardinality(Counted)

\* A phantom slot has a bounded life: unless a worker died between INCR and
\* EXPIRE, the key has a TTL, or the request that will set one is under way.
PhantomsExpire ==
  Phantom /\ ~torn => expiry = "set" \/ \E r \in Requests : pc[r] = "expire"

\* What the comment on CONCURRENCY_SLOT_TTL_SECONDS says of every slot: when
\* no request is under way, a slot that is still counted has a TTL.
SlotsSelfRelease == inflight > 0 /\ (\A r \in Requests : pc[r] = "idle") => expiry = "set"

\* A refusal: the step in which r finds the counter over the cap.
Refused(r) == pc[r] = "idle" /\ pc'[r] = "refuse"

\* acquire_slot is to refuse "when the account already has limit requests in
\* flight".  It keeps that but for one case, refusals below the cap caused by
\* other refusals: while no other request is between its INCR and the DECR of
\* its own 429, only an account whose cap is full of admitted requests and lost
\* slots is refused.
LoneRefusalAtCap ==
  [][\A r \in Requests : Refused(r) /\ (\A q \in Requests : pc[q] # "refuse")
        => Cardinality(Admitted) + losses >= Limit]_vars

\* A lost slot comes back: phantom slots go away by expiry, unless a worker
\* died between INCR and EXPIRE.
PhantomsGoAway == Phantom ~> (~Phantom \/ torn)
=============================================================================
