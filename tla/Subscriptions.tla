---------------------------- MODULE Subscriptions ----------------------------
(***************************************************************************)
(* One user's billing periods (services/subscriptions.py): the rows of the *)
(* subscriptions table, the requests that roll an expired free period      *)
(* forward, the provider's webhooks that start or renew a paid period, and *)
(* an administrator's plan changes.                                        *)
(*                                                                         *)
(* Sessions run at PostgreSQL's default level, READ COMMITTED: a statement *)
(* sees what was committed when it began; one that needs a locked row      *)
(* waits for its holder, then looks at that row again but at no other.     *)
(* Each statement is a step.  A transaction's writes and its COMMIT are    *)
(* one step, taken when nobody else holds the rows it updates: only a roll *)
(* decides anything while it holds a lock.  Rows are numbered by           *)
(* created_at, which is set when the row is written.                       *)
(***************************************************************************)
EXTENDS Integers, Sequences, FiniteSets, FiniteSetsExt

CONSTANTS
  Calls,         \* concurrent calls for this user
  Starts,        \* provider events that report a first purchase
  Renewals,      \* provider events that report a renewal
  PeriodLength,  \* PERIOD_DAYS, in ticks
  DayLength,     \* ticks in one date, the resolution of period_key
  MaxTime,       \* bound on the clock
  MaxRows        \* bound on the subscription rows

ASSUME CallsAssumption == IsFiniteSet(Calls)
ASSUME EventsAssumption == Starts \cap Renewals = {} /\ "none" \notin Starts \cup Renewals
ASSUME LengthsAssumption ==
  PeriodLength \in Nat \ {0} /\ DayLength \in 1 .. PeriodLength
ASSUME BoundsAssumption == MaxTime \in Nat /\ MaxRows \in Nat

VARIABLES
  now,     \* the clock
  rows,    \* the user's subscription rows, oldest first
  pc,      \* the next statement of each call
  call,    \* the local state of each call
  clean    \* history: no call wrote under another, and no renewal was
           \* anchored at the end of a period that had been cancelled

vars == <<now, rows, pc, call, clean>>

-----------------------------------------------------------------------------
Plans == {"free", "paid"}
Modes == {"assign", "start", "renew"}
Events == Starts \cup Renewals
NoRow == 0

Row(plan, start, end, origin, event) ==
  [plan |-> plan, start |-> start, end |-> end, status |-> "active",
   origin |-> origin, event |-> event]

\* mode, at: the arguments and the call's own `now`; plan, event, start, end:
\* those of the row it will write; seen: the row it read; targets: the rows it
\* will cancel; base: how many rows there were when it began.
NoCall == [mode |-> "none", at |-> 0, plan |-> "free", event |-> "none", start |-> 0,
           end |-> 0, seen |-> NoRow, targets |-> {}, base |-> 0]

TypeOK ==
  /\ now \in 0 .. MaxTime
  /\ \A i \in DOMAIN rows :
       /\ rows[i].plan \in Plans
       /\ rows[i].status \in {"active", "cancelled"}
       /\ rows[i].origin \in Modes \cup {"default", "roll"}
       /\ rows[i].event \in Events \cup {"none"}
       /\ rows[i].end = rows[i].start + PeriodLength
  /\ pc \in [Calls -> {"idle", "select", "lock", "insert", "read", "cancel", "commit"}]
  /\ \A c \in Calls : call[c].targets \subseteq DOMAIN rows
  /\ clean \in BOOLEAN

Active(i) == rows[i].status = "active"

\* get_active_subscription: the newest active row whose period covers t.
Covers(i, t) == Active(i) /\ rows[i].start <= t /\ t < rows[i].end

Served(t) == Max({i \in DOMAIN rows : Covers(i, t)} \cup {NoRow})

\* ActiveSubscription.period_key: the date of the period's start.
PeriodKey(start) == start \div DayLength

Granted(event) == \E i \in DOMAIN rows : rows[i].event = event

Busy == {c \in Calls : pc[c] # "idle"}
MayBegin == Len(rows) + Cardinality(Busy) < MaxRows

Goto(c, label) == pc' = [pc EXCEPT ![c] = label]

Finish(c) ==
  /\ Goto(c, "idle")
  /\ call' = [call EXCEPT ![c] = NoCall]

-----------------------------------------------------------------------------
\* ensure_default_subscription gave a new user a period, or there is no
\* default plan.
Init ==
  /\ now = 0
  /\ rows \in {<<>>, <<Row("free", 0, PeriodLength, "default", "none")>>}
  /\ pc = [c \in Calls |-> "idle"]
  /\ call = [c \in Calls |-> NoCall]
  /\ clean = TRUE

\* get_active_or_rolled_subscription: no period is active.
ReadActive(c) ==
  /\ pc[c] = "idle" /\ MayBegin
  /\ Served(now) = NoRow
  /\ call' = [call EXCEPT ![c] = [NoCall EXCEPT !.at = now, !.base = Len(rows)]]
  /\ Goto(c, "select")
  /\ UNCHANGED <<now, rows, clean>>

\* The SELECT ... FOR UPDATE begins: it sees the newest row of that moment.
SelectLast(c) ==
  /\ pc[c] = "select"
  /\ IF rows = <<>>
       THEN Finish(c)
       ELSE /\ call' = [call EXCEPT ![c].seen = Len(rows)]
            /\ Goto(c, "lock")
  /\ UNCHANGED <<now, rows, clean>>

Locked(i) == \E c \in Calls : pc[c] = "insert" /\ call[c].seen = i

\* A variant that rolls any plan.
LockAnyLast(c) ==
  LET last == call[c].seen IN
  /\ pc[c] = "lock"
  /\ ~Locked(last)
  /\ IF Covers(last, call[c].at)
       THEN Finish(c)
       ELSE /\ call' = [call EXCEPT ![c].plan = rows[last].plan]
            /\ Goto(c, "insert")
  /\ UNCHANGED <<now, rows, clean>>

\* The row is locked and checked again: active after all, or not free.
LockLast(c) ==
  LET last == call[c].seen IN
  /\ pc[c] = "lock"
  /\ ~Locked(last)
  /\ IF Covers(last, call[c].at) \/ rows[last].plan # "free"
       THEN Finish(c)
       ELSE Goto(c, "insert") /\ UNCHANGED call
  /\ UNCHANGED <<now, rows, clean>>

\* The rolled period is written and the transaction commits.
InsertRolled(c) ==
  /\ pc[c] = "insert"
  /\ rows' = Append(rows, Row(call[c].plan, call[c].at, call[c].at + PeriodLength,
                              "roll", "none"))
  /\ clean' = (clean /\ Len(rows) = call[c].base)
  /\ Finish(c)
  /\ UNCHANGED now

\* What a call of assign_plan is given and knows when it begins.
Called(mode, plan, event) ==
  [NoCall EXCEPT !.mode = mode, !.at = now, !.plan = plan,
                 !.event = event, !.base = Len(rows)]

\* billing_webhook (a purchase or a renewal, which the provider may deliver
\* again) or assign_plan_to_user calls assign_plan, which looks for the event.
Deliver(c) ==
  /\ pc[c] = "idle" /\ MayBegin
  /\ \E mode \in Modes, plan \in Plans, event \in Events \cup {"none"} :
       /\ \/ mode = "assign" /\ event = "none"
          \/ mode = "start" /\ event \in Starts /\ plan = "paid"
          \/ mode = "renew" /\ event \in Renewals /\ plan = "paid"
       /\ event = "none" \/ ~Granted(event)
       /\ call' = [call EXCEPT ![c] = Called(mode, plan, event)]
  /\ Goto(c, "read")
  /\ UNCHANGED <<now, rows, clean>>

\* The end of the latest known period, cancelled ones included.
LatestEnd == Max({rows[i].end : i \in DOMAIN rows} \cup {0})

SetPeriod(c, start, end, targets) ==
  call' = [call EXCEPT ![c].start = start, ![c].end = end, ![c].targets = targets]

FreshPeriod(c, start) == SetPeriod(c, start, start + PeriodLength, {})

\* A variant whose plan change opens a fresh period.
ReadPeriodsAfresh(c) ==
  LET at == call[c].at IN
  /\ pc[c] = "read"
  /\ \/ /\ call[c].mode = "renew"
        /\ FreshPeriod(c, Max({at, LatestEnd}))
        /\ Goto(c, "commit")
     \/ /\ call[c].mode # "renew"
        /\ FreshPeriod(c, at)
        /\ Goto(c, "cancel")
  /\ UNCHANGED <<now, rows, clean>>

\* A variant that counts a renewed period from the moment of the call.
ReadPeriodsFromNow(c) ==
  LET at == call[c].at IN
  /\ pc[c] = "read"
  /\ SetPeriod(c, Max({at, LatestEnd}), at + PeriodLength, {})
  /\ Goto(c, "commit")
  /\ UNCHANGED <<now, rows, clean>>

\* assign_plan: the reads that settle the new period.
ReadPeriods(c) ==
  LET at == call[c].at
      current == Served(at)
  IN
  /\ pc[c] = "read"
  /\ \/ /\ call[c].mode = "renew"
        /\ FreshPeriod(c, Max({at, LatestEnd}))
        /\ Goto(c, "commit")
     \/ /\ call[c].mode = "assign" /\ current # NoRow
        /\ SetPeriod(c, rows[current].start, rows[current].end, {current})
        /\ Goto(c, "commit")
     \/ /\ call[c].mode = "start" \/ (call[c].mode = "assign" /\ current = NoRow)
        /\ FreshPeriod(c, at)
        /\ Goto(c, "cancel")
  /\ UNCHANGED <<now, rows, clean>>

\* A variant that leaves the other periods as they are.
CancelNone(c) ==
  /\ pc[c] = "cancel"
  /\ Goto(c, "commit")
  /\ UNCHANGED <<now, rows, call, clean>>

\* assign_plan: the UPDATE that cancels begins, on the rows active now.
CancelActive(c) ==
  /\ pc[c] = "cancel"
  /\ call' = [call EXCEPT ![c].targets = {i \in DOMAIN rows : Active(i)}]
  /\ Goto(c, "commit")
  /\ UNCHANGED <<now, rows, clean>>

Anchored(c) ==
  call[c].mode = "renew" /\ call[c].start > call[c].at
    => \E i \in DOMAIN rows : Active(i) /\ rows[i].end = call[c].start

Write(c) ==
  /\ rows' = Append([i \in DOMAIN rows |->
                       IF i \in call[c].targets
                         THEN [rows[i] EXCEPT !.status = "cancelled"] ELSE rows[i]],
                    Row(call[c].plan, call[c].start, call[c].end,
                        call[c].mode, call[c].event))
  /\ clean' = (clean /\ Len(rows) = call[c].base /\ Anchored(c))

\* A variant without the unique constraint.
CommitUnchecked(c) ==
  /\ pc[c] = "commit"
  /\ \A i \in call[c].targets : ~Locked(i)
  /\ Write(c)
  /\ Finish(c)
  /\ UNCHANGED now

\* assign_plan: cancel, insert and commit; the unique constraint on
\* billing_event_id undoes it all when the event was granted meanwhile.
Commit(c) ==
  /\ pc[c] = "commit"
  /\ \A i \in call[c].targets : ~Locked(i)
  /\ IF call[c].event # "none" /\ Granted(call[c].event)
       THEN UNCHANGED <<rows, clean>>
       ELSE Write(c)
  /\ Finish(c)
  /\ UNCHANGED now

\* A worker dies or loses its connection: its transaction is rolled back.
Die(c) ==
  /\ pc[c] # "idle"
  /\ Finish(c)
  /\ UNCHANGED <<now, rows, clean>>

\* Time passes.
Tick ==
  /\ now < MaxTime
  /\ now' = now + 1
  /\ UNCHANGED <<rows, pc, call, clean>>

Next ==
  \/ \E c \in Calls :
       \/ ReadActive(c) \/ SelectLast(c) \/ LockLast(c) \/ InsertRolled(c)
       \/ Deliver(c) \/ ReadPeriods(c) \/ CancelActive(c) \/ Commit(c) \/ Die(c)
  \/ Tick

Spec == Init /\ [][Next]_vars

-----------------------------------------------------------------------------
(* Properties *)

\* A redelivered or concurrently delivered webhook never grants twice: at most
\* one row per provider event (the docstring of assign_plan).
GrantedOnce ==
  \A i, j \in DOMAIN rows : rows[i].event = rows[j].event /\ rows[i].event # "none" => i = j

Overlap(i, j) == rows[i].start < rows[j].end /\ rows[j].start < rows[i].end

\* Paid, assigned and rolled periods hand over to each other without overlap:
\* as long as calls do not run into each other, no two active periods share an
\* instant, so a renewal chains and what is served is never ambiguous.
OneTimeline ==
  clean => \A i, j \in DOMAIN rows : Active(i) /\ Active(j) /\ i # j => ~Overlap(i, j)

\* A plan change never resets usage: a period an administrator's call opens
\* afresh starts at a moment when no period was active.
NoResetByPlanChange ==
  [][\A i \in DOMAIN rows' \ DOMAIN rows :
       clean' /\ rows'[i].origin = "assign"
              /\ (\A j \in DOMAIN rows : rows'[i].start # rows[j].start)
         => ~\E j \in DOMAIN rows : Covers(j, rows'[i].start)]_vars

\* No renewal payment, no service: a paid period is never rolled forward.
PaidNeverRolls == \A i \in DOMAIN rows : rows[i].origin = "roll" => rows[i].plan = "free"

\* "The customer just paid and must get the quota they bought": a rolled free
\* period is never served while the period of a purchase (START) is active.
PaidServed ==
  Served(now) # NoRow /\ rows[Served(now)].origin = "roll"
    => ~\E i \in DOMAIN rows : Covers(i, now) /\ rows[i].origin = "start"

\* "Each billing period starts with the plan's full limit": two periods never
\* share a ledger, and so their usage.
OwnLedger ==
  \A i, j \in DOMAIN rows :
    PeriodKey(rows[i].start) = PeriodKey(rows[j].start) => rows[i].start = rows[j].start
=============================================================================
