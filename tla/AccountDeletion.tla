--------------------------- MODULE AccountDeletion ---------------------------
(***************************************************************************)
(* delete_me (routers/me.py) among the requests of the same user: it purges *)
(* the images, then the rows in one transaction, then the Redis keys, while *)
(* image generations and chat requests may be under way.                   *)
(*                                                                         *)
(* Images supplies the generations and delete_for_user.  Of a chat request *)
(* (Gateway, CreditLedger) only what it leaves about the user is kept: the *)
(* families of Redis keys it writes, its usage event, and the row of the   *)
(* daily cost rollup its settlement adds to.                               *)
(***************************************************************************)
EXTENDS Images

CONSTANT MaxEvents   \* bound on the usage events

ASSUME EventsBoundAssumption == MaxEvents \in Nat

VARIABLES
  keys,    \* the families of the user's keys that are in Redis
  events,  \* the usage_events rows
  owned,   \* those whose user_id names the user
  rollup   \* a cost_daily_rollup row names the user

deletionVars == <<imageVars, keys, events, owned, rollup>>

-----------------------------------------------------------------------------
AdmissionKeys == {"inflight", "anomaly", "rpm"}
LedgerKeys == {"credits", "budget"}
Keys == AdmissionKeys \cup LedgerKeys

DeletionTypeOK ==
  /\ present \in BOOLEAN /\ crossed \in BOOLEAN
  /\ period \in Periods /\ made \in 0 .. MaxImages
  /\ used \in [Periods -> Nat]
  /\ files \subseteq Ids /\ rows \subseteq Ids
  /\ job \in [Workers ->
       [stage : {"idle"} \cup GenerateStages \cup DeleteStages \cup ChatStages,
        period : Periods, total : Nat, batch : 1 .. MaxItems, left : 0 .. MaxItems,
        image : 0 .. MaxImages, targets : SUBSET Ids,
        found : SUBSET Keys]]
  /\ outrun \subseteq Workers /\ overrun \subseteq Periods
  /\ keys \subseteq Keys
  /\ owned \subseteq events /\ events \subseteq 1 .. MaxEvents
  /\ rollup \in BOOLEAN

DeletionInit ==
  /\ ImagesInit
  /\ keys = {} /\ events = {} /\ owned = {} /\ rollup = FALSE

-----------------------------------------------------------------------------
\* A chat request is admitted: a slot, the session signals, the request rate.
BeginChat(c) ==
  /\ Idle(c) /\ present
  /\ Enters(c, "reserve")
  /\ keys' = keys \cup AdmissionKeys
  /\ crossed' = (crossed \/ Doing(DeleteStages) # {})
  /\ UNCHANGED <<present, period, used, files, rows, made, outrun, overrun, events, owned,
                 rollup>>

\* The reservation creates the ledger's keys if they are not there.
ReserveCredits(c) ==
  /\ StageIs(c, "reserve")
  /\ Enters(c, "record")
  /\ keys' = keys \cup LedgerKeys
  /\ UNCHANGED <<present, period, used, files, rows, made, outrun, overrun, crossed,
                 events, owned, rollup>>

\* Its last request over, the slot set is empty, and so gone.
ReleaseSlot(c, ks) == IF Doing(ChatStages) = {c} THEN ks \ {"inflight"} ELSE ks

\* The usage event is inserted; the foreign key refuses it without a user, and
\* the reservation is given back.
RecordEvent(c) ==
  /\ StageIs(c, "record")
  /\ Cardinality(events) < MaxEvents
  /\ \/ /\ present
        /\ events' = events \cup {Cardinality(events) + 1}
        /\ owned' = owned \cup {Cardinality(events) + 1}
        /\ Enters(c, "settle")
        /\ UNCHANGED <<keys, outrun>>
     \/ /\ ~present
        /\ keys' = ReleaseSlot(c, keys \cup LedgerKeys)
        /\ Ends(c)
        /\ UNCHANGED <<events, owned>>
  /\ UNCHANGED <<present, period, used, files, rows, made, overrun, crossed, rollup>>

\* A variant that takes the user from the request.
SettleChatByRequest(c) ==
  /\ StageIs(c, "settle")
  /\ rollup' = TRUE
  /\ keys' = ReleaseSlot(c, keys \cup LedgerKeys)
  /\ Ends(c)
  /\ UNCHANGED <<present, period, used, files, rows, made, overrun, crossed, events, owned>>

\* The request is settled: its event by id, the ledger by its keys.  A success
\* is folded into the day's rollup row, which takes the user from the event if
\* that still names one; a failure is not.
SettleChat(c) ==
  /\ StageIs(c, "settle")
  /\ \/ rollup' = TRUE /\ owned # {}
     \/ UNCHANGED rollup
  /\ keys' = ReleaseSlot(c, keys \cup LedgerKeys)
  /\ Ends(c)
  /\ UNCHANGED <<present, period, used, files, rows, made, overrun, crossed, events, owned>>

-----------------------------------------------------------------------------
\* delete_me: the password is right (an account without one is refused).
BeginDeletion(c) ==
  /\ Idle(c) /\ present
  /\ Enters(c, "select")
  /\ crossed' = (crossed \/ \E d \in Workers : ~Idle(d))
  /\ UNCHANGED <<present, period, used, files, rows, made, outrun, overrun, keys, events,
                 owned, rollup>>

\* delete_me: one transaction anonymizes the events and deletes the tokens,
\* the subscriptions and the user; the cascade takes images stored since.
DropUser(c) ==
  /\ StageIs(c, "drop")
  /\ present' = FALSE
  /\ owned' = {}
  /\ rows' = {}
  /\ used' = [p \in Periods |-> 0]
  /\ Enters(c, "scan")
  /\ UNCHANGED <<period, files, made, outrun, overrun, crossed, keys, events,
                 rollup>>

\* A variant that does not look for budget keys.
ScanKeysPartly(c) ==
  /\ StageIs(c, "scan")
  /\ job' = [job EXCEPT ![c].stage = "delkeys", ![c].found = keys \ {"inflight", "budget"}]
  /\ UNCHANGED <<present, period, used, files, rows, made, outrun, overrun, crossed, keys,
                 events, owned, rollup>>

\* delete_me: the keys of four families are scanned for.
ScanKeys(c) ==
  /\ StageIs(c, "scan")
  /\ job' = [job EXCEPT ![c].stage = "delkeys", ![c].found = keys \ {"inflight"}]
  /\ UNCHANGED <<present, period, used, files, rows, made, outrun, overrun, crossed, keys,
                 events, owned, rollup>>

\* delete_me: what was found, and the slots, are deleted.
DeleteKeys(c) ==
  /\ StageIs(c, "delkeys")
  /\ keys' = keys \ (job[c].found \cup {"inflight"})
  /\ Ends(c)
  /\ UNCHANGED <<present, period, used, files, rows, made, overrun, crossed, events, owned,
                 rollup>>

DeletionNext ==
  \/ ImageStep /\ UNCHANGED <<keys, events, owned, rollup>>
  \/ \E c \in Workers :
       \/ BeginChat(c) \/ ReserveCredits(c) \/ RecordEvent(c) \/ SettleChat(c)
       \/ BeginDeletion(c) \/ DropUser(c) \/ ScanKeys(c) \/ DeleteKeys(c)

DeletionSpec == DeletionInit /\ [][DeletionNext]_deletionVars

-----------------------------------------------------------------------------
(* Properties *)

\* "The row no longer points to any person", "Redis keys referencing the user
\* are deleted" (docs/privacy-rules.md), as far as delete_me keeps it: once the
\* user is gone no image row is left and no usage event names the user, whatever
\* was under way; and when a deletion that met no other request is over, no key
\* and no file is left either.
DeletionErases ==
  ~present => /\ rows = {} /\ owned = {}
              /\ ~crossed /\ Doing(DeleteStages) = {} => keys = {} /\ files = {}

\* A request that is settled after its user is gone does not name him again:
\* the daily rollup takes the user from the event, which delete_me anonymized.
\* (The rollup's earlier rows are another matter: no step of delete_me touches
\* them.)
NamedNoMore == [][~present /\ ~rollup => ~rollup']_deletionVars
=============================================================================
