------------------------------- MODULE Images -------------------------------
(***************************************************************************)
(* One user's generated images (routers/images.py,                         *)
(* services/image_service.py): the quota of the billing period, the files  *)
(* on disk and the rows that own them, and delete_for_user.                *)
(*                                                                         *)
(* Every await is the end of a step.  Rows and files bear one number, the  *)
(* image's id.  Credits are counted in Units of a stored credit, which     *)
(* quantize_credits rounds to; the sum over a period's rows is kept as a   *)
(* tally.                                                                  *)
(***************************************************************************)
EXTENDS Integers, FiniteSets, FiniteSetsExt

CONSTANTS
  Workers,      \* concurrent requests of this user
  Quota,        \* plan.monthly_image_quota, in credits
  Unit,         \* the stored units in one credit
  Weights,      \* QUALITY_CREDIT_WEIGHT's values
  MaxCount,     \* MAX_IMAGES_PER_REQUEST
  MaxItems,     \* bound on the images an upstream answer holds
  MaxImages,    \* bound on the images ever written
  MaxPeriod     \* bound on the billing periods

ASSUME WorkersAssumption == IsFiniteSet(Workers)
ASSUME QuotaAssumption == Quota \in Nat /\ Unit \in Nat \ {0} /\ Weights \subseteq Nat \ {0}
ASSUME ImageBoundsAssumption ==
  /\ MaxCount \in Nat \ {0} /\ MaxItems \in Nat \ {0}
  /\ MaxImages \in Nat /\ MaxPeriod \in Nat \ {0}

VARIABLES
  present,   \* the users row exists
  period,    \* the current billing period
  used,      \* credits charged by the rows of each period
  files,     \* the images on disk
  rows,      \* the generated_images rows
  made,      \* the ids given out
  job,       \* the progress of each request
  outrun,    \* history: requests another one's INSERT overtook
  overrun,   \* history: periods an overtaken request was charged to
  crossed    \* history: a deletion met another request, or a worker died

imageVars == <<present, period, used, files, rows, made, job, outrun, overrun, crossed>>

-----------------------------------------------------------------------------
Periods == 1 .. MaxPeriod
Ids == 1 .. MaxImages
GenerateStages == {"upstream", "decode", "recheck", "insert"}
DeleteStages == {"select", "unlink", "delrows", "drop", "scan", "delkeys"}
ChatStages == {"reserve", "record", "settle"}

\* period, total: read and priced at the start; batch: the items of the
\* upstream answer, left: those still to do; image: the file being stored;
\* targets, found: the images and the Redis keys a deletion will remove.
NoJob == [stage |-> "idle", period |-> 1, total |-> 0, batch |-> 1, left |-> 0,
          image |-> 0, targets |-> {}, found |-> {}]

Idle(c) == job[c].stage = "idle"
StageIs(c, stage) == job[c].stage = stage
Enters(c, stage) == job' = [job EXCEPT ![c].stage = stage]
Ends(c) == job' = [job EXCEPT ![c] = NoJob] /\ outrun' = outrun \ {c}

Doing(stages) == {c \in Workers : job[c].stage \in stages}
Held == {job[c].image : c \in Doing({"recheck", "insert"})}

\* quota_for: int(...) drops the fraction of the credits used.
Remaining(p) == Max({Quota - used[p] \div Unit, 0})

\* consume_quota: nothing is generated beyond what remains.
WithinQuota(p, total) == total <= Remaining(p)

\* per_image_credits exceeds so many credits; the exact quotient is compared.
ShareExceeds(c, credits) == job[c].total > credits * job[c].batch

\* quantize_credits(per_image_credits): ROUND_HALF_UP.
Share(c) == (2 * job[c].total * Unit + job[c].batch) \div (2 * job[c].batch)

ImagesInit ==
  /\ present = TRUE
  /\ period = 1
  /\ used = [p \in Periods |-> 0]
  /\ files = {} /\ rows = {} /\ made = 0
  /\ job = [c \in Workers |-> NoJob]
  /\ outrun = {} /\ overrun = {} /\ crossed = FALSE

-----------------------------------------------------------------------------
\* generate_images: the user and the period are read, count is clamped, and
\* consume_quota lets the total pass; otherwise 402 and nothing is written.
Ask(c) ==
  /\ Idle(c) /\ present
  /\ \E weight \in Weights, count \in 1 .. MaxCount :
       /\ WithinQuota(period, weight * count)
       /\ job' = [job EXCEPT ![c] = [NoJob EXCEPT !.stage = "upstream", !.period = period,
                                              !.total = weight * count]]
  /\ crossed' = (crossed \/ Doing(DeleteStages) # {})
  /\ UNCHANGED <<present, period, used, files, rows, made, outrun, overrun>>

\* A variant that takes an empty answer for a batch.
UpstreamAnswersAny(c) ==
  /\ StageIs(c, "upstream")
  /\ \E n \in 0 .. MaxItems :
       job' = [job EXCEPT ![c].stage = "decode", ![c].batch = n, ![c].left = n]
  /\ UNCHANGED <<present, period, used, files, rows, made, outrun, overrun, crossed>>

\* The upstream answers: with images, not always as many as were asked for,
\* or with an error or none at all, which is a 502.
UpstreamAnswers(c) ==
  /\ StageIs(c, "upstream")
  /\ \/ /\ \E n \in 1 .. MaxItems :
             job' = [job EXCEPT ![c].stage = "decode", ![c].batch = n, ![c].left = n]
        /\ UNCHANGED outrun
     \/ Ends(c)
  /\ UNCHANGED <<present, period, used, files, rows, made, overrun, crossed>>

\* store: the file is written first.
WriteFile(c) ==
  /\ made < MaxImages
  /\ made' = made + 1
  /\ files' = files \cup {made + 1}
  /\ job' = [job EXCEPT ![c].stage = "recheck", ![c].image = made + 1]
  /\ UNCHANGED outrun

\* One item: not an image (skipped), unreadable or a URL (502, whatever was
\* stored before), or decoded and written to disk by store.
TakeItem(c) ==
  /\ StageIs(c, "decode") /\ job[c].left > 0
  /\ \/ /\ job' = [job EXCEPT ![c].left = @ - 1]
        /\ UNCHANGED <<files, made, outrun>>
     \/ /\ Ends(c)
        /\ UNCHANGED <<files, made>>
     \/ WriteFile(c)
  /\ UNCHANGED <<present, period, used, rows, overrun, crossed>>

\* A variant that leaves the refused file on disk.
RecheckKeepingFile(c) ==
  /\ StageIs(c, "recheck")
  /\ \/ /\ ~ShareExceeds(c, Remaining(job[c].period))
        /\ Enters(c, "insert")
        /\ outrun' = outrun \ {c}
     \/ /\ ShareExceeds(c, Remaining(job[c].period))
        /\ Ends(c)
  /\ UNCHANGED <<present, period, used, files, rows, made, overrun, crossed>>

\* A variant without the second check.
RecheckNothing(c) ==
  /\ StageIs(c, "recheck")
  /\ Enters(c, "insert")
  /\ outrun' = outrun \ {c}
  /\ UNCHANGED <<present, period, used, files, rows, made, overrun, crossed>>

\* store: the quota is checked again; if it is exceeded, the file goes and the
\* request ends with 402.
Recheck(c) ==
  /\ StageIs(c, "recheck")
  /\ \/ /\ ~ShareExceeds(c, Remaining(job[c].period))
        /\ Enters(c, "insert")
        /\ outrun' = outrun \ {c}
        /\ UNCHANGED files
     \/ /\ ShareExceeds(c, Remaining(job[c].period))
        /\ files' = files \ {job[c].image}
        /\ Ends(c)
  /\ UNCHANGED <<present, period, used, rows, made, overrun, crossed>>

\* store: INSERT and COMMIT; the foreign key refuses a row without a user, and
\* the file stays.
StoreRow(c) ==
  LET p == job[c].period IN
  /\ StageIs(c, "insert")
  /\ \/ /\ present
        /\ rows' = rows \cup {job[c].image}
        /\ used' = [used EXCEPT ![p] = @ + Share(c)]
        /\ job' = [job EXCEPT ![c].stage = "decode", ![c].image = 0, ![c].left = @ - 1]
        /\ outrun' = outrun \cup (Doing({"insert"}) \ {c})
        /\ overrun' = IF c \in outrun THEN overrun \cup {p} ELSE overrun
     \/ /\ ~present
        /\ Ends(c)
        /\ UNCHANGED <<rows, used, overrun>>
  /\ UNCHANGED <<present, period, files, made, crossed>>

\* The batch is done: the images stored, or a 502 when there are none.
Deliver(c) ==
  /\ StageIs(c, "decode") /\ job[c].left = 0
  /\ Ends(c)
  /\ UNCHANGED <<present, period, used, files, rows, made, overrun, crossed>>

\* The next billing period begins; requests under way keep theirs.
NextPeriod ==
  /\ period < MaxPeriod
  /\ period' = period + 1
  /\ UNCHANGED <<present, used, files, rows, made, job, outrun, overrun, crossed>>

-----------------------------------------------------------------------------
\* delete_for_user: the paths are read.
SelectPaths(c) ==
  /\ StageIs(c, "select")
  /\ job' = [job EXCEPT ![c].stage = "unlink", ![c].targets = rows]
  /\ UNCHANGED <<present, period, used, files, rows, made, outrun, overrun, crossed>>

\* delete_for_user: the files go, one after the other.
UnlinkPaths(c) ==
  /\ StageIs(c, "unlink")
  /\ files' = files \ job[c].targets
  /\ job' = [job EXCEPT ![c].stage = "delrows", ![c].targets = {}]
  /\ UNCHANGED <<present, period, used, rows, made, outrun, overrun, crossed>>

\* delete_for_user: every row of the user goes, read or not, and with the rows
\* what they were charged.
DeleteRows(c) ==
  /\ StageIs(c, "delrows")
  /\ rows' = {}
  /\ used' = [p \in Periods |-> 0]
  /\ Enters(c, "drop")
  /\ UNCHANGED <<present, period, files, made, outrun, overrun, crossed>>

\* A worker dies, or its database session fails: what it did so far stays.
Perish(c) ==
  /\ ~Idle(c)
  /\ Ends(c)
  /\ crossed' = TRUE
  /\ UNCHANGED <<present, period, used, files, rows, made, overrun>>

ImageStep ==
  \/ \E c \in Workers :
       \/ Ask(c) \/ UpstreamAnswers(c) \/ TakeItem(c) \/ Recheck(c) \/ StoreRow(c)
       \/ Deliver(c) \/ SelectPaths(c) \/ UnlinkPaths(c) \/ DeleteRows(c) \/ Perish(c)
  \/ NextPeriod

-----------------------------------------------------------------------------
(* Properties *)

\* What store's second check secures: a period whose INSERTs did not overtake
\* each other is charged less than one credit beyond its quota, the fraction
\* quota_for drops from the credits used; however many images are under way,
\* and whatever their shares round to.  A race of two INSERTs it does not catch,
\* though its docstring says so: each of them may add what the check let pass.
ExcessUnderOneCredit ==
  \A p \in Periods : used[p] < (Quota + 1) * Unit \/ p \in overrun

\* "We never silently exceed a paid quota" (store), of periods without such a
\* race: not even by the fraction.
QuotaNeverExceeded == \A p \in Periods : used[p] <= Quota * Unit \/ p \in overrun

\* Files and rows match (store, delete_for_user): every file on disk has its
\* row, or the request that wrote it is still at it; every row has its file,
\* except while a deletion is between the two.
GalleryMatches ==
  ~crossed => /\ files \ rows \subseteq Held
              /\ rows \ files # {} => Doing({"delrows"}) # {}
=============================================================================
