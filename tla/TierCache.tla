------------------------------ MODULE TierCache ------------------------------
(***************************************************************************)
(* One model tier: its row, edited by administrators (create_tier and      *)
(* update_tier in routers/admin.py), and its copy in Redis, filled by      *)
(* get_tier and removed by invalidate_tier (services/tiers.py).            *)
(*                                                                         *)
(* Each Redis command and each transaction is a step of its own; a worker  *)
(* may die between two.  Of the many columns three kinds are kept: one     *)
(* that is always there (price), one that may be NULL (note), and one that *)
(* copies written by an older release lack (multiplier).                   *)
(***************************************************************************)
EXTENDS Integers

CONSTANTS
  Readers,   \* concurrent calls of get_tier
  Admins,    \* concurrent edits
  Prices,    \* the values of a column
  Notes,     \* the values of a nullable column, neither empty nor zero:
             \* pricing and routing take those for NULL
  None,      \* NULL, and no cached copy
  MaxEdits   \* bound on the edits

VARIABLES
  tier,     \* the row; None before it is created
  cached,   \* the value of tier:{alias}; None when there is no such key
  read,     \* the progress of each get_tier
  edit,     \* the progress of each edit
  edits,    \* edits so far
  excused   \* history: the copy was written by a call that an edit overtook, or
            \* an edit's worker died, or an older release wrote it

tierVars == <<tier, cached, read, edit, edits, excused>>

-----------------------------------------------------------------------------
Multipliers == {"plain", "reduced"}
Tiers == [enabled : BOOLEAN, price : Prices, note : Notes \cup {None}, multiplier : Multipliers]

Enabled == {row \in Tiers : row.enabled}

\* as_dict: NULL becomes the empty string.  from_dict: and back; a field that
\* is missing gets the neutral value.
Blank == "blank"
Missing == "missing"

\* from_dict takes the empty string back to NULL, so no note may be empty.
ASSUME TierAssumption ==
  None \notin Prices \cup Notes /\ Blank \notin Notes /\ MaxEdits \in Nat

Encode(row) ==
  [price |-> row.price, note |-> IF row.note = None THEN Blank ELSE row.note,
   multiplier |-> row.multiplier]
Decode(copy) ==
  [price |-> copy.price, note |-> IF copy.note = Blank THEN None ELSE copy.note,
   multiplier |-> IF copy.multiplier = Missing THEN "plain" ELSE copy.multiplier]
OlderCopy(row) == [Encode(row) EXCEPT !.multiplier = Missing]

\* tier_to_view: what a request is priced and routed by.
View(row) == [price |-> row.price, note |-> row.note, multiplier |-> row.multiplier]

Copies == [price : Prices, note : Notes \cup {Blank}, multiplier : Multipliers \cup {Missing}]

TierTypeOK ==
  /\ tier \in Tiers \cup {None}
  /\ cached \in Copies \cup {None}
  /\ read \in [Readers -> [stage : {"idle", "select", "set"}, copy : Copies \cup {None},
                           raced : BOOLEAN]]
  /\ edit \in [Admins -> {"idle", "invalidate"}]
  /\ edits \in 0 .. MaxEdits
  /\ excused \in BOOLEAN

Reads(r, stage, copy) ==
  read' = [read EXCEPT ![r] = [stage |-> stage, copy |-> copy, raced |-> FALSE]]

\* A release starts on the row and the cache the one before left.
TierInit ==
  /\ tier \in Tiers \cup {None}
  /\ cached \in IF tier = None THEN {None} ELSE {None, OlderCopy(tier)}
  /\ excused = (cached # None)
  /\ read = [r \in Readers |-> [stage |-> "idle", copy |-> None, raced |-> FALSE]]
  /\ edit = [a \in Admins |-> "idle"]
  /\ edits = 0

-----------------------------------------------------------------------------
\* get_tier: a GET that finds the copy answers from it; this one does not.
MissCache(r) ==
  /\ read[r].stage = "idle" /\ cached = None
  /\ Reads(r, "select", None)
  /\ UNCHANGED <<tier, cached, edit, edits, excused>>

\* get_tier: the SELECT of the enabled row; without one nothing is cached.
SelectTier(r) ==
  /\ read[r].stage = "select"
  /\ \/ /\ tier \in Enabled
        /\ Reads(r, "set", Encode(tier))
     \/ /\ tier \notin Enabled
        /\ Reads(r, "idle", None)
  /\ UNCHANGED <<tier, cached, edit, edits, excused>>

\* get_tier: SET with an expiry, whatever was committed since the SELECT.
FillCache(r) ==
  /\ read[r].stage = "set"
  /\ cached' = read[r].copy
  /\ excused' = read[r].raced
  /\ Reads(r, "idle", None)
  /\ UNCHANGED <<tier, edit, edits>>

\* A variant whose SET gives no expiry.
CopyStays ==
  /\ cached # None
  /\ UNCHANGED tierVars

\* The copy reaches its expiry, TIER_CACHE_TTL_SECONDS after the SET.
CopyExpires ==
  /\ cached # None
  /\ cached' = None
  /\ excused' = FALSE
  /\ UNCHANGED <<tier, read, edit, edits>>

\* create_tier, update_tier: the columns given, in one transaction.
EditTier(a) ==
  /\ edit[a] = "idle" /\ edits < MaxEdits
  /\ tier' \in Tiers \ {tier}
  /\ edit' = [edit EXCEPT ![a] = "invalidate"]
  /\ edits' = edits + 1
  /\ read' = [r \in Readers |-> [read[r] EXCEPT !.raced = (read[r].stage = "set")]]
  /\ UNCHANGED <<cached, excused>>

\* invalidate_tier: DEL.
Invalidate(a) ==
  /\ edit[a] = "invalidate"
  /\ cached' = None
  /\ excused' = FALSE
  /\ edit' = [edit EXCEPT ![a] = "idle"]
  /\ UNCHANGED <<tier, read, edits>>

\* The worker of a get_tier or of an edit dies.
AbandonRead(r) ==
  /\ read[r].stage # "idle"
  /\ Reads(r, "idle", None)
  /\ UNCHANGED <<tier, cached, edit, edits, excused>>
AbandonEdit(a) ==
  /\ edit[a] = "invalidate"
  /\ edit' = [edit EXCEPT ![a] = "idle"]
  /\ excused' = (cached # None)
  /\ UNCHANGED <<tier, cached, read, edits>>

TierNext ==
  \/ \E r \in Readers : MissCache(r) \/ SelectTier(r) \/ FillCache(r) \/ AbandonRead(r)
  \/ \E a \in Admins : EditTier(a) \/ Invalidate(a) \/ AbandonEdit(a)
  \/ CopyExpires

\* Redis and the database answer, and copies expire; nobody needs to call.
TierFairness ==
  /\ \A r \in Readers : WF_tierVars(SelectTier(r) \/ FillCache(r))
  /\ \A a \in Admins : WF_tierVars(Invalidate(a))
  /\ WF_tierVars(CopyExpires)

TierSpec == TierInit /\ [][TierNext]_tierVars /\ TierFairness

-----------------------------------------------------------------------------
(* Properties *)

CopyIsCurrent ==
  cached # None => tier \in Enabled /\ Decode(cached) = View(tier)

\* Between edits requests are priced and routed by the row as it is, unless a
\* get_tier was overtaken by an edit, an edit's worker died or an older release
\* wrote the copy.
StaleOnlyWhenRaced ==
  CopyIsCurrent \/ excused \/ \E a \in Admins : edit[a] = "invalidate"

\* "Admin edits invalidate it" (docs/backup-restore.md): a copy is stale only
\* after a race; and even then the cache comes to agree with the row, for good,
\* once there are no more edits, since every copy expires (get_tier).
CacheSettles == []StaleOnlyWhenRaced /\ <>[]CopyIsCurrent
=============================================================================
