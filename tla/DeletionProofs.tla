---------------------------- MODULE DeletionProofs ----------------------------
(***************************************************************************)
(* Proofs about AccountDeletion with Images, for every finite set of       *)
(* concurrent requests, every quota and weight, and every bound on images, *)
(* periods and events.                                                     *)
(*                                                                         *)
(* Two arguments run side by side.  The quota: whoever passed the second   *)
(* check and was not overtaken still fits.  The gallery and the deletion:  *)
(* while none met another request, a deletion is alone, so what it read is *)
(* what there is, and a file without a row is in the hands of one request. *)
(***************************************************************************)
EXTENDS MCAccounts, SessionsProofs, IdentitiesProofs, FiniteSetTheorems

\* The stages in which a request has a file on disk and no row of it yet.
Storing == {"recheck", "insert"}

JobStages == {"idle"} \cup GenerateStages \cup DeleteStages \cup ChatStages

Jobs == [stage : JobStages, period : Periods, total : Nat, batch : 1 .. MaxItems,
         left : 0 .. MaxItems, image : 0 .. MaxImages, targets : SUBSET Ids,
         found : SUBSET Keys]

-----------------------------------------------------------------------------
(* The quota's invariant *)

\* Nothing is generated for nothing.
Asked == \A c \in Doing(GenerateStages) : job[c].total >= 1

\* An INSERT that none overtook since its check fits the quota.
Fits ==
  \A c \in Doing({"insert"}) :
    c \notin outrun => used[job[c].period] + Share(c) < (Quota + 1) * Unit

QuotaInv == Asked /\ Fits /\ ExcessUnderOneCredit

(* The gallery's and the deletion's invariant *)

Numbered == files \subseteq 1 .. made /\ rows \subseteq 1 .. made

\* A deletion that met no other request is the only one under way.
Alone ==
  ~crossed => \A c, d \in Workers : c # d /\ job[c].stage \in DeleteStages => Idle(d)

\* How far a deletion is tells what is left.
Deleting(c) ==
  /\ StageIs(c, "unlink") => job[c].targets = rows
  /\ job[c].stage \in {"delrows", "drop"} => files = {}
  /\ job[c].stage \in {"scan", "delkeys"} => ~present
  /\ StageIs(c, "delkeys") => keys \subseteq job[c].found \cup {"inflight"}

\* The file of a request that stores an image is there, and its alone.
OnDisk(c) ==
  /\ job[c].image \in 1 .. made /\ job[c].image \in files /\ job[c].image \notin rows
  /\ \A d \in Workers : d # c /\ job[d].stage \in Storing => job[d].image # job[c].image

Orderly ==
  ~crossed => \A c \in Workers : /\ Deleting(c)
                                 /\ job[c].stage \in Storing => OnDisk(c)

\* What is left of a user that is gone.
Gone ==
  ~present => /\ rows = {} /\ owned = {}
              /\ ~crossed => /\ files = {}
                             /\ \A c \in Workers : job[c].stage \in {"idle", "scan", "delkeys"}
                             /\ (\A c \in Workers : Idle(c)) => keys = {}

GalleryInv == Numbered /\ Alone /\ Orderly /\ Gone /\ GalleryMatches

\* A request that stores an item has a number for it.
InHand ==
  \A c \in Workers : job[c].stage \in Storing => job[c].image \in 1 .. made /\ job[c].left >= 1

DeletionIInv == DeletionTypeOK /\ InHand /\ QuotaInv /\ GalleryInv

-----------------------------------------------------------------------------
(* How a step moves a request *)

LEMMA JobsFact == DeletionTypeOK => job \in [Workers -> Jobs]
BY DEF DeletionTypeOK, Jobs, JobStages

LEMMA FieldsFact ==
  ASSUME NEW j \in Jobs
  PROVE  /\ j.stage \in JobStages /\ j.period \in Periods /\ j.total \in Nat
         /\ j.batch \in 1 .. MaxItems /\ j.left \in 0 .. MaxItems
         /\ j.image \in 0 .. MaxImages /\ j.targets \subseteq Ids /\ j.found \subseteq Keys
BY DEF Jobs

LEMMA NoJobFact == NoJob \in Jobs /\ NoJob.stage = "idle"
BY ImageBoundsAssumption DEF NoJob, Jobs, JobStages, Periods

\* The request c moves, and no other.
Moves(c) == job' \in [Workers -> Jobs] /\ \A d \in Workers \ {c} : job'[d] = job[d]

LEMMA MovesTo ==
  ASSUME DeletionTypeOK, NEW c \in Workers, NEW j \in Jobs, job' = [job EXCEPT ![c] = j]
  PROVE  Moves(c) /\ job'[c] = j
BY JobsFact DEF Moves

LEMMA EntersFact ==
  ASSUME DeletionTypeOK, NEW c \in Workers, NEW next \in JobStages, Enters(c, next)
  PROVE  /\ Moves(c) /\ job'[c].stage = next
         /\ job'[c].period = job[c].period /\ job'[c].total = job[c].total
         /\ job'[c].batch = job[c].batch /\ job'[c].left = job[c].left
         /\ job'[c].image = job[c].image
         /\ job'[c].targets = job[c].targets /\ job'[c].found = job[c].found
BY JobsFact DEF Enters, Moves, Jobs

LEMMA EndsFact ==
  ASSUME DeletionTypeOK, NEW c \in Workers, Ends(c)
  PROVE  Moves(c) /\ job'[c] = NoJob /\ job'[c].stage = "idle" /\ outrun' = outrun \ {c}
BY JobsFact, NoJobFact DEF Ends, Moves

\* The row of the item in hand is written, and the next item is taken.
LEMMA StoresFact ==
  ASSUME DeletionTypeOK, InHand, NEW c \in Workers, job[c].stage \in Storing,
         job' = [job EXCEPT ![c].stage = "decode", ![c].image = 0, ![c].left = @ - 1]
  PROVE  /\ Moves(c) /\ job'[c].stage = "decode" /\ job'[c].total = job[c].total
<1>1. job \in [Workers -> Jobs] /\ job[c].left - 1 \in 0 .. MaxItems /\ 0 \in 0 .. MaxImages
  BY JobsFact, FieldsFact, ImageBoundsAssumption DEF InHand
<1>2. job'[c] = [job[c] EXCEPT !.stage = "decode", !.image = 0, !.left = job[c].left - 1]
  BY <1>1
<1>3. job'[c] \in Jobs
  BY <1>1, <1>2 DEF Jobs, JobStages, GenerateStages
<1>4. QED
  BY <1>1, <1>2, <1>3 DEF Moves, Jobs

-----------------------------------------------------------------------------
(* The quota *)

LEMMA Monotone ==
  ASSUME NEW a \in Nat, NEW m \in Int, NEW n \in Int, m <= n
  PROVE  a * m \in Int /\ a * n \in Int /\ a * m <= a * n
<1>1. a * (n - m) \in Nat /\ a * n = a * m + a * (n - m) /\ a * m \in Int /\ a * n \in Int
  OBVIOUS
<1>2. QED
  BY <1>1

\* A rounded share of credits that fit is no more than these credits.
LEMMA ShareIsRounded ==
  ASSUME NEW total \in Nat, NEW batch \in Nat \ {0}, NEW credits \in Nat,
         total <= credits * batch
  PROVE  /\ (2 * total * Unit + batch) \div (2 * batch) \in Nat
         /\ (2 * total * Unit + batch) \div (2 * batch) <= credits * Unit
<1> DEFINE n == 2 * total * Unit + batch
           q == n \div (2 * batch)
<1>1. Unit \in Nat /\ total * Unit \in Nat /\ credits * Unit \in Nat /\ credits * batch \in Nat
  BY QuotaAssumption
<1>2. n \in Nat /\ 2 * batch \in Nat \ {0}
  BY <1>1
<1>3. n < 2 * batch * (credits * Unit + 1)
  <2>1. Unit * total <= Unit * (credits * batch)
    BY <1>1, Monotone
  <2>2. Unit * (credits * batch) = batch * (credits * Unit) /\ batch * (credits * Unit) \in Nat
    BY <1>1
  <2>3. 2 * total * Unit + batch < 2 * (batch * (credits * Unit)) + 2 * batch
    BY <1>1, <2>1, <2>2
  <2>4. 2 * batch * (credits * Unit + 1) = 2 * (batch * (credits * Unit)) + 2 * batch
    BY <1>1
  <2>5. QED
    BY <2>3, <2>4
<1>4. q \in Nat /\ (2 * batch) * q <= n
  <2> HIDE DEF n
  <2>1. QED
    BY <1>2
<1>5. q < credits * Unit + 1
  <2> HIDE DEF n, q
  <2>1. SUFFICES ASSUME credits * Unit + 1 <= q PROVE FALSE
    BY <1>1, <1>4
  <2>2. (2 * batch) * (credits * Unit + 1) <= (2 * batch) * q
    BY <1>1, <1>2, <1>4, <2>1, Monotone
  <2>3. n \in Int /\ (2 * batch) * q \in Int /\ (2 * batch) * (credits * Unit + 1) \in Int
    BY <1>1, <1>2, <1>4
  <2>4. QED
    BY <1>3, <1>4, <2>2, <2>3
<1>6. QED
  BY <1>1, <1>4, <1>5

LEMMA ShareType ==
  ASSUME DeletionTypeOK, NEW c \in Workers
  PROVE  Share(c) \in Nat
<1>1. job[c].total \in Nat /\ job[c].batch \in Nat \ {0}
  BY JobsFact, FieldsFact, ImageBoundsAssumption
<1>2. job[c].total <= job[c].total * job[c].batch
  BY <1>1, Monotone
<1>3. QED
  BY <1>1, <1>2, ShareIsRounded DEF Share

\* quota_for returns what remains, or nothing.
LEMMA RemainingFact ==
  ASSUME NEW p \in Periods, used[p] \in Nat
  PROVE  /\ Remaining(p) \in Nat
         /\ Remaining(p) >= 1 =>
              used[p] + Remaining(p) * Unit < (Quota + 1) * Unit
<1> DEFINE q == used[p] \div Unit
           left == Quota - q
<1>1. q \in Nat /\ Quota \in Nat /\ Unit \in Nat \ {0} /\ used[p] < Unit * q + Unit
  BY QuotaAssumption
<1> HIDE DEF q
<1>2. Remaining(p) = IF left > 0 THEN left ELSE 0
  <2>1. Remaining(p) \in {left, 0} /\ Remaining(p) >= left /\ Remaining(p) >= 0
    <3>1. \E x \in {left, 0} : \A y \in {left, 0} : x >= y
      BY <1>1
    <3>2. Remaining(p) = CHOOSE x \in {left, 0} : \A y \in {left, 0} : x >= y
      BY DEF Remaining, Max, q
    <3> HIDE DEF left
    <3>3. QED
      BY <3>1, <3>2
  <2>2. QED
    BY <1>1, <2>1
<1>3. Remaining(p) >= 1 => used[p] + Remaining(p) * Unit < (Quota + 1) * Unit
  <2>1. SUFFICES ASSUME Remaining(p) >= 1 PROVE used[p] + left * Unit < (Quota + 1) * Unit
    BY <1>1, <1>2
  <2>2. left * Unit = Quota * Unit - Unit * q /\ (Quota + 1) * Unit = Quota * Unit + Unit
        /\ Quota * Unit \in Int /\ Unit * q \in Int
    BY <1>1
  <2>3. QED
    BY <1>1, <2>2
<1>4. QED
  BY <1>1, <1>2, <1>3

\* A step that charges nothing, and after which no other INSERT is due.
LEMMA ChargesNothing ==
  ASSUME DeletionIInv, NEW c \in Workers, Moves(c), job'[c].stage # "insert",
         job'[c].stage \in GenerateStages => job'[c].total >= 1,
         used' \in [Periods -> Nat], \A p \in Periods : used'[p] <= used[p],
         outrun \ {c} \subseteq outrun', overrun \subseteq overrun'
  PROVE  QuotaInv'
<1>1. Asked'
  BY DEF Moves, Asked, Doing, DeletionIInv, QuotaInv
<1>2. Fits'
  <2>1. SUFFICES ASSUME NEW d \in Workers, job'[d].stage = "insert", d \notin outrun'
                 PROVE  used'[job'[d].period] + Share(d)' < (Quota + 1) * Unit
    BY DEF Fits, Doing
  <2>2. d # c /\ job'[d] = job[d] /\ d \notin outrun
    BY <2>1 DEF Moves
  <2>3. used[job[d].period] + Share(d) < (Quota + 1) * Unit /\ Share(d)' = Share(d)
    BY <2>1, <2>2 DEF DeletionIInv, QuotaInv, Fits, Doing, Share
  <2>4. job[d].period \in Periods /\ Share(d) \in Nat /\ used \in [Periods -> Nat]
    BY JobsFact, FieldsFact, ShareType DEF DeletionIInv, DeletionTypeOK
  <2>5. used'[job[d].period] <= used[job[d].period] /\ used'[job[d].period] \in Nat
        /\ used[job[d].period] \in Nat
    BY <2>4
  <2>6. (Quota + 1) * Unit \in Nat
    BY QuotaAssumption
  <2>7. QED
    BY <2>2, <2>3, <2>4, <2>5, <2>6
<1>3. ExcessUnderOneCredit'
  <2>1. SUFFICES ASSUME NEW p \in Periods, p \notin overrun'
                 PROVE  used'[p] < (Quota + 1) * Unit
    BY DEF ExcessUnderOneCredit
  <2>2. used[p] < (Quota + 1) * Unit /\ used[p] \in Nat /\ used'[p] \in Nat /\ used'[p] <= used[p]
    BY <2>1 DEF DeletionIInv, QuotaInv, ExcessUnderOneCredit, DeletionTypeOK
  <2>3. (Quota + 1) * Unit \in Nat
    BY QuotaAssumption
  <2>4. QED
    BY <2>2, <2>3
<1>4. QED
  BY <1>1, <1>2, <1>3 DEF QuotaInv

LEMMA RecheckQuota ==
  ASSUME DeletionIInv, NEW c \in Workers, Recheck(c)
  PROVE  QuotaInv'
<1>1. CASE ~ShareExceeds(c, Remaining(job[c].period)) /\ Enters(c, "insert")
  <2>1. /\ Moves(c) /\ job'[c].stage = "insert" /\ job'[c].period = job[c].period
        /\ job'[c].total = job[c].total /\ job'[c].batch = job[c].batch
        /\ Share(c)' = Share(c)
    BY <1>1, EntersFact DEF DeletionIInv, JobStages, GenerateStages, Share
  <2>2. used' = used /\ overrun' = overrun /\ outrun' = outrun \ {c} /\ job[c].stage = "recheck"
    BY <1>1, <2>1, EndsFact DEF Recheck, StageIs, DeletionIInv
  <2>3. Asked'
    BY <2>1, <2>2 DEF Moves, Asked, Doing, GenerateStages, DeletionIInv, QuotaInv
  <2>4. used[job[c].period] + Share(c) < (Quota + 1) * Unit
    <3> DEFINE p == job[c].period
    <3>1. /\ p \in Periods /\ used[p] \in Nat /\ job[c].total \in Nat
          /\ job[c].batch \in Nat \ {0} /\ job[c].total >= 1
      BY <2>2, JobsFact, FieldsFact, ImageBoundsAssumption
         DEF DeletionIInv, DeletionTypeOK, QuotaInv, Asked, Doing, GenerateStages
    <3>2. Remaining(p) \in Nat
          /\ (Remaining(p) >= 1 => used[p] + Remaining(p) * Unit < (Quota + 1) * Unit)
      BY <3>1, RemainingFact
    <3>3. job[c].total <= Remaining(p) * job[c].batch
      BY <1>1, <3>1, <3>2 DEF ShareExceeds
    <3>4. Remaining(p) >= 1
      BY <3>1, <3>2, <3>3
    <3>5. Share(c) \in Nat /\ Share(c) <= Remaining(p) * Unit
      BY <3>1, <3>2, <3>3, ShareIsRounded DEF Share
    <3>6. Remaining(p) * Unit \in Nat /\ (Quota + 1) * Unit \in Nat
      BY <3>2, QuotaAssumption
    <3> HIDE DEF p
    <3>7. used[p] + Share(c) < (Quota + 1) * Unit
      BY <3>1, <3>2, <3>4, <3>5, <3>6
    <3>8. QED
      BY <3>7 DEF p
  <2>5. Fits'
    <3>1. SUFFICES ASSUME NEW d \in Workers, job'[d].stage = "insert", d \notin outrun'
                   PROVE  used'[job'[d].period] + Share(d)' < (Quota + 1) * Unit
      BY DEF Fits, Doing
    <3>2. CASE d = c
      BY <2>1, <2>2, <2>4, <3>2
    <3>3. CASE d # c
      <4>1. job'[d] = job[d] /\ d \notin outrun /\ Share(d)' = Share(d)
        BY <2>1, <2>2, <3>1, <3>3 DEF Moves, Share
      <4>2. QED
        BY <2>2, <3>1, <4>1 DEF DeletionIInv, QuotaInv, Fits, Doing
    <3>4. QED
      BY <3>2, <3>3
  <2>6. QED
    BY <2>2, <2>3, <2>5 DEF QuotaInv, ExcessUnderOneCredit, DeletionIInv
<1>2. CASE Ends(c) /\ UNCHANGED <<used, overrun>>
  BY <1>2, EndsFact, ChargesNothing DEF DeletionIInv, DeletionTypeOK, GenerateStages
<1>3. QED
  BY <1>1, <1>2 DEF Recheck

LEMMA StoreRowQuota ==
  ASSUME DeletionIInv, NEW c \in Workers, StoreRow(c)
  PROVE  QuotaInv'
<1> DEFINE p == job[c].period
<1>1. CASE present
  <2>1. /\ job[c].stage = "insert" /\ used' = [used EXCEPT ![p] = @ + Share(c)]
        /\ outrun' = outrun \cup (Doing({"insert"}) \ {c})
        /\ overrun' = IF c \in outrun THEN overrun \cup {p} ELSE overrun
        /\ job' = [job EXCEPT ![c].stage = "decode", ![c].image = 0, ![c].left = @ - 1]
    BY <1>1 DEF StoreRow, StageIs
  <2>2. /\ \A d \in Workers \ {c} : job'[d] = job[d]
        /\ job'[c].stage = "decode" /\ job'[c].total = job[c].total
    BY <2>1, JobsFact DEF DeletionIInv, Jobs
  <2>3. Asked'
    BY <2>1, <2>2 DEF Asked, Doing, GenerateStages, DeletionIInv, QuotaInv
  <2>4. Fits'
    BY <2>1, <2>2 DEF Fits, Doing
  <2>5. ExcessUnderOneCredit'
    <3>1. SUFFICES ASSUME NEW o \in Periods, o \notin overrun'
                   PROVE  used'[o] < (Quota + 1) * Unit
      BY DEF ExcessUnderOneCredit
    <3>2. o \notin overrun /\ used \in [Periods -> Nat] /\ p \in Periods
      BY <2>1, <3>1, JobsFact, FieldsFact DEF DeletionIInv, DeletionTypeOK
    <3>3. CASE o # p
      BY <2>1, <3>2, <3>3 DEF DeletionIInv, QuotaInv, ExcessUnderOneCredit
    <3>4. CASE o = p
      <4>1. c \notin outrun
        BY <2>1, <3>1, <3>4
      <4>2. used[p] + Share(c) < (Quota + 1) * Unit
        BY <2>1, <4>1 DEF DeletionIInv, QuotaInv, Fits, Doing
      <4>3. used'[o] = used[p] + Share(c)
        BY <2>1, <3>2, <3>4
      <4>4. QED
        BY <4>2, <4>3
    <3>5. QED
      BY <3>3, <3>4
  <2>6. QED
    BY <2>3, <2>4, <2>5 DEF QuotaInv
<1>2. CASE Ends(c) /\ UNCHANGED <<used, overrun>>
  BY <1>2, EndsFact, ChargesNothing DEF DeletionIInv, DeletionTypeOK, GenerateStages
<1>3. QED
  BY <1>1, <1>2 DEF StoreRow

-----------------------------------------------------------------------------
(* The gallery and the deletion *)

\* While nobody deletes, every row has its file, and every file without a row is
\* in the hands of a request.
LEMMA GalleryFact ==
  ASSUME DeletionIInv, ~crossed
  PROVE  /\ \A i \in files \ rows : \E d \in Workers : job[d].stage \in Storing /\ job[d].image = i
         /\ (\A d \in Workers : job[d].stage # "delrows") => rows \subseteq files
BY DEF DeletionIInv, GalleryInv, GalleryMatches, Held, Doing, Storing

\* After a step, the other way around.
LEMMA GalleryMatchesNext ==
  ASSUME ~crossed' =>
           /\ \A i \in files' \ rows' : \E d \in Workers : job'[d].stage \in Storing /\ job'[d].image = i
           /\ (\A d \in Workers : job'[d].stage # "delrows") => rows' \subseteq files'
  PROVE  GalleryMatches'
<1>1. SUFFICES ASSUME ~crossed'
               PROVE  /\ files' \ rows' \subseteq Held'
                      /\ rows' \ files' # {} => Doing({"delrows"})' # {}
  BY DEF GalleryMatches
<1>2. files' \ rows' \subseteq Held'
  BY <1>1 DEF Held, Doing, Storing
<1>3. rows' \ files' # {} => Doing({"delrows"})' # {}
  BY <1>1 DEF Doing
<1>4. QED
  BY <1>2, <1>3

\* A request under way, its user gone, is the rest of a deletion.
LEMMA LeftOver ==
  ASSUME DeletionIInv, ~crossed, ~present, NEW c \in Workers
  PROVE  job[c].stage \in {"idle", "scan", "delkeys"} /\ files = {} /\ rows = {}
BY DEF DeletionIInv, GalleryInv, Gone

\* Who is at something else shows that nobody deletes.
LEMMA NobodyDeletes ==
  ASSUME DeletionIInv, ~crossed, NEW c \in Workers, job[c].stage \notin {"idle"} \cup DeleteStages
  PROVE  present /\ \A d \in Workers : job[d].stage \notin DeleteStages
<1>1. present
  BY LeftOver DEF DeleteStages
<1>2. ASSUME NEW d \in Workers, job[d].stage \in DeleteStages PROVE FALSE
  BY <1>2 DEF DeletionIInv, GalleryInv, Alone, Idle
<1>3. QED
  BY <1>1, <1>2

\* What a deletion that met no other request finds.
LEMMA DeletesAlone ==
  ASSUME DeletionIInv, ~crossed, NEW c \in Workers, job[c].stage \in DeleteStages
  PROVE  /\ \A d \in Workers \ {c} : job[d].stage = "idle"
         /\ files \subseteq rows
         /\ job[c].stage # "delrows" => rows = files
         /\ Deleting(c)
<1>1. \A d \in Workers \ {c} : job[d].stage = "idle"
  BY DEF DeletionIInv, GalleryInv, Alone, Idle
<1>2. \A d \in Workers : job[d].stage \notin Storing
  BY <1>1 DEF Storing, DeleteStages
<1>3. Deleting(c)
  BY DEF DeletionIInv, GalleryInv, Orderly
<1>4. QED
  BY <1>1, <1>2, <1>3, GalleryFact

\* After a step, nobody deletes, and the user is there.
LEMMA GalleryKept ==
  ASSUME DeletionIInv, crossed => crossed', Numbered', ~present' => rows' = {} /\ owned' = {},
         ~crossed' => /\ present'
                      /\ \A d \in Workers : job'[d].stage \notin DeleteStages
                      /\ \A d \in Workers : job'[d].stage \in Storing => OnDisk(d)'
                      /\ rows' \subseteq files'
                      /\ \A i \in files' \ rows' :
                           \E d \in Workers : job'[d].stage \in Storing /\ job'[d].image = i
  PROVE  GalleryInv'
<1>1. Alone' /\ Gone'
  BY DEF Alone, Gone
<1>2. Orderly'
  BY DEF Orderly, Deleting, StageIs, DeleteStages
<1>3. GalleryMatches'
  BY GalleryMatchesNext
<1>4. QED
  BY <1>1, <1>2, <1>3 DEF GalleryInv

\* A step that leaves files and rows alone, of a request that has no file in
\* hand and deletes nothing.
LEMMA QuietStep ==
  ASSUME DeletionIInv, NEW c \in Workers, Moves(c),
         ~crossed' => job[c].stage \notin Storing \cup DeleteStages,
         job'[c].stage \notin Storing \cup DeleteStages,
         UNCHANGED <<present, files, rows, made>>,
         Idle(c) => present /\ (crossed' \/ Doing(DeleteStages) = {}),
         crossed => crossed', present \/ owned' = owned
  PROVE  GalleryInv'
<1>1. Numbered' /\ (~present' => rows' = {} /\ owned' = {})
  BY DEF DeletionIInv, GalleryInv, Numbered, Gone
<1>2. \A d \in Workers : d # c => job'[d] = job[d]
  BY DEF Moves
<1>3. SUFFICES ASSUME ~crossed'
               PROVE  /\ present'
                      /\ \A d \in Workers : job'[d].stage \notin DeleteStages
                      /\ \A d \in Workers : job'[d].stage \in Storing => OnDisk(d)'
                      /\ rows' \subseteq files'
                      /\ \A i \in files' \ rows' :
                           \E d \in Workers : job'[d].stage \in Storing /\ job'[d].image = i
  BY <1>1, GalleryKept
<1>4. present /\ \A d \in Workers : job[d].stage \notin DeleteStages
  <2>1. CASE Idle(c)
    BY <1>3, <2>1 DEF Doing
  <2>2. CASE ~Idle(c)
    BY <1>3, <2>2, NobodyDeletes DEF Idle
  <2>3. QED
    BY <2>1, <2>2
<1>5. \A d \in Workers : job'[d].stage \notin DeleteStages
  BY <1>2, <1>4
<1>6. ASSUME NEW d \in Workers, job'[d].stage \in Storing PROVE OnDisk(d)'
  <2>1. d # c /\ job[d].stage \in Storing
    BY <1>2, <1>6
  <2>2. OnDisk(d)
    BY <1>3, <2>1 DEF DeletionIInv, GalleryInv, Orderly
  <2>3. QED
    BY <1>2, <2>1, <2>2 DEF OnDisk
<1>7. rows \subseteq files
  BY <1>3, <1>4, GalleryFact DEF DeleteStages
<1>8. \A i \in files' \ rows' :
        \E d \in Workers : job'[d].stage \in Storing /\ job'[d].image = i
  BY <1>2, <1>3, GalleryFact
<1>9. QED
  BY <1>4, <1>5, <1>6, <1>7, <1>8

\* A step of a deletion: where none met another request, it is enough to see
\* what the step does.
LEMMA DeletionStep ==
  ASSUME DeletionIInv, NEW c \in Workers, Moves(c), job[c].stage \in DeleteStages,
         job'[c].stage \in {"idle"} \cup DeleteStages,
         crossed' = crossed, Numbered', ~present' => rows' = {} /\ owned' = {},
         ~crossed => /\ Deleting(c)'
                     /\ files' \subseteq rows'
                     /\ job'[c].stage = "delrows" \/ rows' = files'
                     /\ ~present' => /\ files' = {}
                                     /\ job'[c].stage \in {"idle", "scan", "delkeys"}
                                     /\ job'[c].stage = "idle" => keys' = {}
  PROVE  GalleryInv'
<1>1. CASE crossed
  BY <1>1 DEF GalleryInv, Alone, Orderly, Gone, GalleryMatches
<1>2. CASE ~crossed
  <2>1. \A d \in Workers \ {c} : job'[d].stage = "idle"
    BY <1>2, DeletesAlone DEF Moves
  <2>2. Alone'
    BY <2>1 DEF Alone, Idle, DeleteStages
  <2>3. Gone'
    BY <1>2, <2>1 DEF Gone, Idle
  <2>4. Orderly'
    <3>1. \A d \in Workers : job'[d].stage \notin Storing
      BY <2>1 DEF Storing, DeleteStages
    <3>2. \A d \in Workers \ {c} : Deleting(d)'
      BY <2>1 DEF Deleting, StageIs
    <3>3. QED
      BY <1>2, <3>1, <3>2 DEF Orderly
  <2>5. GalleryMatches'
    BY <1>2, GalleryMatchesNext
  <2>6. QED
    BY <2>2, <2>3, <2>4, <2>5 DEF GalleryInv
<1>3. QED
  BY <1>1, <1>2

-----------------------------------------------------------------------------
(* The files and the rows, request by request *)

LEMMA WriteFileGallery ==
  ASSUME DeletionIInv, NEW c \in Workers, StageIs(c, "decode"), WriteFile(c),
         UNCHANGED <<present, rows, crossed, owned>>
  PROVE  GalleryInv'
<1>1. /\ made' = made + 1 /\ made \in Nat /\ files' = files \cup {made + 1}
      /\ job' = [job EXCEPT ![c].stage = "recheck", ![c].image = made + 1]
      /\ made < MaxImages
  BY ImageBoundsAssumption DEF WriteFile, DeletionIInv, DeletionTypeOK
<1>2. /\ \A d \in Workers : d # c => job'[d] = job[d]
      /\ job'[c].stage = "recheck" /\ job'[c].image = made + 1
  BY <1>1, JobsFact DEF DeletionIInv, Jobs
<1>3. Numbered /\ made + 1 \notin 1 .. made /\ made + 1 \notin files /\ made + 1 \notin rows
  BY <1>1 DEF DeletionIInv, GalleryInv, Numbered
<1>4. Numbered'
  BY <1>1, <1>3 DEF Numbered
<1>5. ASSUME ~crossed
      PROVE  /\ present
             /\ \A d \in Workers : job'[d].stage \notin DeleteStages
             /\ \A d \in Workers : job'[d].stage \in Storing => OnDisk(d)'
             /\ rows \subseteq files'
             /\ \A i \in files' \ rows :
                  \E d \in Workers : job'[d].stage \in Storing /\ job'[d].image = i
  <2>1. present /\ \A d \in Workers : job[d].stage \notin DeleteStages
    BY <1>5, NobodyDeletes DEF StageIs, DeleteStages
  <2>2. \A d \in Workers : job'[d].stage \notin DeleteStages
    BY <1>2, <2>1 DEF DeleteStages
  <2>3. \A d \in Workers \ {c} : job[d].stage \in Storing => OnDisk(d)
    BY <1>5 DEF DeletionIInv, GalleryInv, Orderly
  <2>4. \A d \in Workers \ {c} : job[d].stage \in Storing => job[d].image \in 1 .. made
    BY <2>3 DEF OnDisk
  <2>5. \A d \in Workers \ {c} : job'[d].stage \in Storing => OnDisk(d)'
    <3>1. SUFFICES ASSUME NEW d \in Workers \ {c}, job'[d].stage \in Storing PROVE OnDisk(d)'
      OBVIOUS
    <3>2. job'[d] = job[d] /\ OnDisk(d)
      BY <1>2, <2>3, <3>1
    <3>3. job'[d].image \in 1 .. made' /\ job'[d].image \in files' /\ job'[d].image \notin rows'
          /\ job'[d].image # made + 1
      BY <1>1, <3>2 DEF OnDisk
    <3>4. \A e \in Workers : e # d /\ job'[e].stage \in Storing => job'[e].image # job'[d].image
      BY <1>2, <3>2, <3>3 DEF OnDisk
    <3>5. QED
      BY <3>3, <3>4 DEF OnDisk
  <2>6. OnDisk(c)'
    <3>1. job'[c].image \in 1 .. made' /\ job'[c].image \in files' /\ job'[c].image \notin rows'
      BY <1>1, <1>2, <1>3
    <3>2. ASSUME NEW d \in Workers, d # c, job'[d].stage \in Storing
          PROVE  job'[d].image # job'[c].image
      <4>1. job'[d] = job[d] /\ job[d].image \in 1 .. made
        BY <1>2, <2>4, <3>2
      <4>2. QED
        BY <1>2, <1>3, <4>1
    <3>3. QED
      BY <3>1, <3>2 DEF OnDisk
  <2>7. rows \subseteq files'
    BY <1>1, <1>5, <2>1, GalleryFact DEF DeleteStages
  <2>8. ASSUME NEW i \in files' \ rows
        PROVE  \E d \in Workers : job'[d].stage \in Storing /\ job'[d].image = i
    <3>1. CASE i = made + 1
      BY <1>2, <3>1 DEF Storing
    <3>2. CASE i # made + 1
      <4>1. PICK d \in Workers : job[d].stage \in Storing /\ job[d].image = i
        BY <1>1, <1>5, <2>8, <3>2, GalleryFact
      <4>2. d # c
        BY <4>1 DEF StageIs, Storing
      <4>3. QED
        BY <1>2, <4>1, <4>2
    <3>3. QED
      BY <3>1, <3>2
  <2>9. QED
    BY <2>1, <2>2, <2>5, <2>6, <2>7, <2>8
<1>6. ~present' => rows' = {} /\ owned' = {}
  BY DEF DeletionIInv, GalleryInv, Gone
<1>7. QED
  BY <1>4, <1>5, <1>6, GalleryKept

\* The request c lets its file go: into the gallery, or off the disk.
LEMMA LetsGo ==
  ASSUME DeletionIInv, NEW c \in Workers, job[c].stage \in Storing, Moves(c),
         job'[c].stage \notin Storing \cup DeleteStages,
         UNCHANGED <<present, made, crossed>>,
         \/ files' = files /\ rows' = rows \cup {job[c].image} /\ present
         \/ files' = files \ {job[c].image} /\ rows' = rows,
         Numbered', ~present' => rows' = {} /\ owned' = {}
  PROVE  GalleryInv'
<1>1. \A d \in Workers : d # c => job'[d] = job[d]
  BY DEF Moves
<1>2. SUFFICES ASSUME ~crossed
               PROVE  /\ present
                      /\ \A d \in Workers : job'[d].stage \notin DeleteStages
                      /\ \A d \in Workers : job'[d].stage \in Storing => OnDisk(d)'
                      /\ rows' \subseteq files'
                      /\ \A i \in files' \ rows' :
                           \E d \in Workers : job'[d].stage \in Storing /\ job'[d].image = i
  BY GalleryKept
<1>3. present /\ \A d \in Workers : job[d].stage \notin DeleteStages
  BY <1>2, NobodyDeletes DEF Storing, DeleteStages
<1>4. OnDisk(c)
  BY <1>2 DEF DeletionIInv, GalleryInv, Orderly
<1>5. rows \subseteq files
  BY <1>2, <1>3, GalleryFact DEF DeleteStages
<1>6. rows' \subseteq files'
  BY <1>4, <1>5 DEF OnDisk
<1>7. ASSUME NEW d \in Workers, job'[d].stage \in Storing PROVE OnDisk(d)'
  <2>1. d # c /\ job'[d] = job[d] /\ OnDisk(d)
    BY <1>1, <1>2, <1>7 DEF DeletionIInv, GalleryInv, Orderly
  <2>2. job[d].image # job[c].image
    BY <1>4, <2>1, <1>7 DEF OnDisk
  <2>3. job'[d].image \in 1 .. made' /\ job'[d].image \in files' /\ job'[d].image \notin rows'
    BY <2>1, <2>2 DEF OnDisk
  <2>4. \A e \in Workers : e # d /\ job'[e].stage \in Storing => job'[e].image # job'[d].image
    BY <1>1, <2>1 DEF OnDisk
  <2>5. QED
    BY <2>3, <2>4 DEF OnDisk
<1>8. ASSUME NEW i \in files' \ rows'
      PROVE  \E d \in Workers : job'[d].stage \in Storing /\ job'[d].image = i
  <2>1. i \in files \ rows /\ i # job[c].image
    BY <1>8
  <2>2. PICK d \in Workers : job[d].stage \in Storing /\ job[d].image = i
    BY <1>2, <2>1, GalleryFact
  <2>3. QED
    BY <1>1, <2>1, <2>2
<1>9. \A d \in Workers : job'[d].stage \notin DeleteStages
  BY <1>1, <1>3
<1>10. QED
  BY <1>3, <1>6, <1>7, <1>8, <1>9

LEMMA RecheckGallery ==
  ASSUME DeletionIInv, NEW c \in Workers, Recheck(c), owned' = owned
  PROVE  GalleryInv'
<1>1. job[c].stage = "recheck" /\ UNCHANGED <<present, rows, made, crossed>>
  BY DEF Recheck, StageIs
<1>2. ~present' => rows' = {} /\ owned' = {}
  BY <1>1 DEF DeletionIInv, GalleryInv, Gone
<1>3. CASE Enters(c, "insert") /\ files' = files
  <2>1. Moves(c) /\ job'[c].stage = "insert" /\ job'[c].image = job[c].image
    BY <1>3, EntersFact DEF DeletionIInv, JobStages, GenerateStages
  <2>2. \A d \in Workers : job'[d].image = job[d].image
                           /\ (job'[d].stage \in Storing <=> job[d].stage \in Storing)
    BY <1>1, <2>1 DEF Moves, Storing
  <2>3. Numbered'
    BY <1>1, <1>3 DEF DeletionIInv, GalleryInv, Numbered
  <2>4. ASSUME ~crossed
        PROVE  /\ present
               /\ \A d \in Workers : job'[d].stage \notin DeleteStages
               /\ \A d \in Workers : job'[d].stage \in Storing => OnDisk(d)'
               /\ rows \subseteq files
               /\ \A i \in files \ rows :
                    \E d \in Workers : job'[d].stage \in Storing /\ job'[d].image = i
    <3>1. present /\ \A d \in Workers : job[d].stage \notin DeleteStages
      BY <1>1, <2>4, NobodyDeletes DEF DeleteStages
    <3>2. \A d \in Workers : job'[d].stage \notin DeleteStages
      BY <2>1, <3>1 DEF Moves, DeleteStages
    <3>3. ASSUME NEW d \in Workers, job'[d].stage \in Storing PROVE OnDisk(d)'
      <4>1. OnDisk(d)
        BY <2>2, <2>4, <3>3 DEF DeletionIInv, GalleryInv, Orderly
      <4>2. QED
        BY <1>1, <1>3, <2>2, <4>1 DEF OnDisk
    <3>4. rows \subseteq files
      BY <2>4, <3>1, GalleryFact DEF DeleteStages
    <3>5. \A i \in files \ rows :
            \E d \in Workers : job'[d].stage \in Storing /\ job'[d].image = i
      BY <2>2, <2>4, GalleryFact
    <3>6. QED
      BY <3>1, <3>2, <3>3, <3>4, <3>5
  <2>5. QED
    BY <1>1, <1>2, <1>3, <2>3, <2>4, GalleryKept
<1>4. CASE Ends(c) /\ files' = files \ {job[c].image}
  <2>1. Moves(c) /\ job'[c].stage = "idle"
    BY <1>4, EndsFact DEF DeletionIInv
  <2>2. Numbered'
    BY <1>1, <1>4 DEF DeletionIInv, GalleryInv, Numbered
  <2>3. QED
    BY <1>1, <1>2, <1>4, <2>1, <2>2, LetsGo DEF Storing, DeleteStages
<1>5. QED
  BY <1>3, <1>4 DEF Recheck

LEMMA StoreRowGallery ==
  ASSUME DeletionIInv, NEW c \in Workers, StoreRow(c), owned' = owned
  PROVE  GalleryInv'
<1>1. job[c].stage = "insert" /\ UNCHANGED <<present, files, made, crossed>>
  BY DEF StoreRow, StageIs
<1>2. Numbered /\ job[c].image \in 1 .. made
  BY <1>1 DEF DeletionIInv, GalleryInv, InHand, Storing
<1>3. CASE present /\ rows' = rows \cup {job[c].image}
           /\ job' = [job EXCEPT ![c].stage = "decode", ![c].image = 0, ![c].left = @ - 1]
  <2>1. Moves(c) /\ job'[c].stage = "decode"
    BY <1>1, <1>3, StoresFact DEF DeletionIInv, Storing
  <2>2. Numbered'
    BY <1>1, <1>2, <1>3 DEF Numbered
  <2>3. QED
    BY <1>1, <1>3, <2>1, <2>2, LetsGo DEF Storing, DeleteStages
<1>4. CASE ~present /\ Ends(c) /\ rows' = rows
  <2>1. Moves(c) /\ job'[c].stage = "idle" /\ Numbered' /\ ~present'
    BY <1>1, <1>2, <1>4, EndsFact DEF DeletionIInv, Numbered
  <2>2. crossed
    BY <1>1, <1>4, NobodyDeletes DEF DeleteStages
  <2>3. rows' = {} /\ owned' = {}
    BY <1>4 DEF DeletionIInv, GalleryInv, Gone
  <2>4. QED
    BY <1>1, <2>1, <2>2, <2>3, GalleryKept
<1>5. QED
  BY <1>3, <1>4 DEF StoreRow

-----------------------------------------------------------------------------
(* The deletion, step by step *)

LEMMA BeginDeletionGallery ==
  ASSUME DeletionIInv, NEW c \in Workers, BeginDeletion(c)
  PROVE  GalleryInv'
<1>1. /\ job[c].stage = "idle" /\ present /\ UNCHANGED <<present, files, rows, made, owned>>
      /\ crossed' = (crossed \/ \E d \in Workers : ~Idle(d))
  BY DEF BeginDeletion, Idle
<1>2. Moves(c) /\ job'[c].stage = "select"
  BY EntersFact DEF BeginDeletion, DeletionIInv, JobStages, DeleteStages
<1>3. Numbered' /\ Gone'
  BY <1>1 DEF DeletionIInv, GalleryInv, Numbered, Gone
<1>4. CASE crossed'
  BY <1>3, <1>4 DEF GalleryInv, Alone, Orderly, GalleryMatches
<1>5. CASE ~crossed'
  <2>1. ~crossed /\ \A d \in Workers : job[d].stage = "idle"
    BY <1>1, <1>5 DEF Idle
  <2>2. \A d \in Workers : d # c => job'[d].stage = "idle"
    BY <1>2, <2>1 DEF Moves
  <2>3. Alone'
    BY <2>2 DEF Alone, Idle, DeleteStages
  <2>4. Orderly'
    BY <1>2, <2>2 DEF Orderly, Deleting, StageIs, Storing
  <2>5. rows \subseteq files /\ files \subseteq rows
    BY <2>1, GalleryFact DEF Storing
  <2>6. GalleryMatches'
    BY <1>1, <2>5, GalleryMatchesNext
  <2>7. QED
    BY <1>3, <2>3, <2>4, <2>6 DEF GalleryInv
<1>6. QED
  BY <1>4, <1>5

LEMMA SelectPathsGallery ==
  ASSUME DeletionIInv, NEW c \in Workers, SelectPaths(c), UNCHANGED <<keys, owned>>
  PROVE  GalleryInv'
<1>1. /\ job[c].stage = "select" /\ UNCHANGED <<present, files, rows, made, crossed>>
      /\ job' = [job EXCEPT ![c].stage = "unlink", ![c].targets = rows]
  BY DEF SelectPaths, StageIs
<1>2. Moves(c) /\ job'[c].stage = "unlink" /\ job'[c].targets = rows
  <2> DEFINE j == [job[c] EXCEPT !.stage = "unlink", !.targets = rows]
  <2>1. job[c] \in Jobs /\ rows \subseteq Ids
    BY JobsFact DEF DeletionIInv, DeletionTypeOK
  <2>2. j \in Jobs /\ j.stage = "unlink" /\ j.targets = rows
    BY <2>1 DEF Jobs, JobStages, DeleteStages
  <2>3. job' = [job EXCEPT ![c] = j]
    BY <1>1
  <2> HIDE DEF j
  <2>4. QED
    BY <2>2, <2>3, MovesTo DEF DeletionIInv
<1>3. Numbered' /\ (~present' => rows' = {} /\ owned' = {})
  BY <1>1 DEF DeletionIInv, GalleryInv, Numbered, Gone
<1>4. ~crossed => present /\ rows = files
  BY <1>1, LeftOver, DeletesAlone DEF DeleteStages
<1>5. Deleting(c)'
  BY <1>1, <1>2 DEF Deleting, StageIs
<1>6. QED
  BY <1>1, <1>2, <1>3, <1>4, <1>5, DeletionStep DEF DeleteStages

LEMMA UnlinkPathsGallery ==
  ASSUME DeletionIInv, NEW c \in Workers, UnlinkPaths(c), UNCHANGED <<keys, owned>>
  PROVE  GalleryInv'
<1>1. /\ job[c].stage = "unlink" /\ UNCHANGED <<present, rows, made, crossed>>
      /\ files' = files \ job[c].targets
      /\ job' = [job EXCEPT ![c].stage = "delrows", ![c].targets = {}]
  BY DEF UnlinkPaths, StageIs
<1>2. Moves(c) /\ job'[c].stage = "delrows"
  <2> DEFINE j == [job[c] EXCEPT !.stage = "delrows", !.targets = {}]
  <2>1. job[c] \in Jobs
    BY JobsFact DEF DeletionIInv
  <2>2. j \in Jobs /\ j.stage = "delrows" /\ j.targets = {}
    BY <2>1 DEF Jobs, JobStages, DeleteStages
  <2>3. job' = [job EXCEPT ![c] = j]
    BY <1>1
  <2> HIDE DEF j
  <2>4. QED
    BY <2>2, <2>3, MovesTo DEF DeletionIInv
<1>3. Numbered' /\ (~present' => rows' = {} /\ owned' = {})
  BY <1>1 DEF DeletionIInv, GalleryInv, Numbered, Gone
<1>4. ~crossed => present /\ files' = {}
  BY <1>1, LeftOver, DeletesAlone DEF DeleteStages, Deleting, StageIs
<1>5. ~crossed => Deleting(c)'
  BY <1>2, <1>4 DEF Deleting, StageIs
<1>6. QED
  BY <1>1, <1>2, <1>3, <1>4, <1>5, DeletionStep DEF DeleteStages

LEMMA DeleteRowsGallery ==
  ASSUME DeletionIInv, NEW c \in Workers, DeleteRows(c), UNCHANGED <<keys, owned>>
  PROVE  GalleryInv'
<1>1. job[c].stage = "delrows" /\ UNCHANGED <<present, files, made, crossed>> /\ rows' = {}
  BY DEF DeleteRows, StageIs
<1>2. Moves(c) /\ job'[c].stage = "drop"
  BY EntersFact DEF DeleteRows, DeletionIInv, JobStages, DeleteStages
<1>3. Numbered' /\ (~present' => rows' = {} /\ owned' = {})
  BY <1>1 DEF DeletionIInv, GalleryInv, Numbered, Gone
<1>4. ~crossed => present /\ files' = {}
  BY <1>1, LeftOver, DeletesAlone DEF DeleteStages, Deleting
<1>5. ~crossed => Deleting(c)'
  BY <1>2, <1>4 DEF Deleting, StageIs
<1>6. QED
  BY <1>1, <1>2, <1>3, <1>4, <1>5, DeletionStep DEF DeleteStages

LEMMA DropUserGallery ==
  ASSUME DeletionIInv, NEW c \in Workers, DropUser(c)
  PROVE  GalleryInv'
<1>1. /\ job[c].stage = "drop" /\ UNCHANGED <<files, made, crossed>>
      /\ present' = FALSE /\ rows' = {} /\ owned' = {}
  BY DEF DropUser, StageIs
<1>2. Moves(c) /\ job'[c].stage = "scan"
  BY EntersFact DEF DropUser, DeletionIInv, JobStages, DeleteStages
<1>3. Numbered'
  BY <1>1 DEF DeletionIInv, GalleryInv, Numbered
<1>4. ~crossed => files' = {}
  BY <1>1, DeletesAlone DEF DeleteStages, Deleting
<1>5. Deleting(c)'
  BY <1>1, <1>2 DEF Deleting, StageIs
<1>6. QED
  BY <1>1, <1>2, <1>3, <1>4, <1>5, DeletionStep DEF DeleteStages

LEMMA ScanKeysGallery ==
  ASSUME DeletionIInv, NEW c \in Workers, ScanKeys(c)
  PROVE  GalleryInv'
<1>1. /\ job[c].stage = "scan" /\ UNCHANGED <<present, files, rows, made, crossed, keys, owned>>
      /\ job' = [job EXCEPT ![c].stage = "delkeys", ![c].found = keys \ {"inflight"}]
  BY DEF ScanKeys, StageIs
<1>2. Moves(c) /\ job'[c].stage = "delkeys" /\ job'[c].found = keys \ {"inflight"}
  <2> DEFINE j == [job[c] EXCEPT !.stage = "delkeys", !.found = keys \ {"inflight"}]
  <2>1. job[c] \in Jobs /\ keys \subseteq Keys
    BY JobsFact DEF DeletionIInv, DeletionTypeOK
  <2>2. j \in Jobs /\ j.stage = "delkeys" /\ j.found = keys \ {"inflight"}
    BY <2>1 DEF Jobs, JobStages, DeleteStages
  <2>3. job' = [job EXCEPT ![c] = j]
    BY <1>1
  <2> HIDE DEF j
  <2>4. QED
    BY <2>2, <2>3, MovesTo DEF DeletionIInv
<1>3. Numbered' /\ (~present' => rows' = {} /\ owned' = {})
  BY <1>1 DEF DeletionIInv, GalleryInv, Numbered, Gone
<1>4. ~crossed => ~present /\ files' = {} /\ rows' = {}
  BY <1>1, LeftOver, DeletesAlone DEF DeleteStages, Deleting
<1>5. ~crossed => Deleting(c)'
  BY <1>1, <1>2, <1>4 DEF Deleting, StageIs
<1>6. QED
  BY <1>1, <1>2, <1>3, <1>4, <1>5, DeletionStep DEF DeleteStages

LEMMA DeleteKeysGallery ==
  ASSUME DeletionIInv, NEW c \in Workers, DeleteKeys(c)
  PROVE  GalleryInv'
<1>1. /\ job[c].stage = "delkeys" /\ UNCHANGED <<present, files, rows, made, crossed, owned>>
      /\ keys' = keys \ (job[c].found \cup {"inflight"})
  BY DEF DeleteKeys, StageIs
<1>2. Moves(c) /\ job'[c].stage = "idle"
  BY EndsFact DEF DeleteKeys, DeletionIInv
<1>3. Numbered' /\ (~present' => rows' = {} /\ owned' = {})
  BY <1>1 DEF DeletionIInv, GalleryInv, Numbered, Gone
<1>4. ~crossed => ~present /\ files' = {} /\ rows' = {} /\ keys' = {}
  BY <1>1, LeftOver, DeletesAlone DEF DeleteStages, Deleting, StageIs
<1>5. Deleting(c)'
  BY <1>2 DEF Deleting, StageIs
<1>6. QED
  BY <1>1, <1>2, <1>3, <1>4, <1>5, DeletionStep DEF DeleteStages

-----------------------------------------------------------------------------
(* Every step *)

LEMMA AskIInv ==
  ASSUME DeletionIInv, NEW c \in Workers, Ask(c), UNCHANGED <<keys, events, owned, rollup>>
  PROVE  DeletionIInv'
<1>1. PICK weight \in Weights, count \in 1 .. MaxCount :
        job' = [job EXCEPT ![c] = [NoJob EXCEPT !.stage = "upstream", !.period = period,
                                            !.total = weight * count]]
  BY DEF Ask
<1>2. weight * count \in Nat /\ weight * count >= 1
  BY QuotaAssumption, ImageBoundsAssumption
<1> DEFINE j == [NoJob EXCEPT !.stage = "upstream", !.period = period, !.total = weight * count]
<1>3. j \in Jobs /\ j.stage = "upstream" /\ j.total = weight * count
  BY <1>2, NoJobFact DEF DeletionIInv, DeletionTypeOK, Jobs, JobStages, GenerateStages, NoJob
<1> HIDE DEF j
<1>4. Moves(c) /\ job'[c].stage = "upstream" /\ job'[c].total >= 1
  BY <1>1, <1>2, <1>3, JobsFact DEF DeletionIInv, Moves, j
<1>5. /\ Idle(c) /\ present /\ crossed' = (crossed \/ Doing(DeleteStages) # {})
      /\ UNCHANGED <<present, period, used, files, rows, made, outrun, overrun>>
  BY DEF Ask
<1>6. DeletionTypeOK'
  BY <1>4, <1>5 DEF DeletionIInv, DeletionTypeOK, Moves, Jobs, JobStages
<1>7. InHand'
  BY <1>4, <1>5 DEF DeletionIInv, InHand, Moves, Storing
<1>8. QuotaInv'
  BY <1>4, <1>5, ChargesNothing DEF DeletionIInv, DeletionTypeOK
<1>9. GalleryInv'
  BY <1>4, <1>5, QuietStep DEF Idle, Storing, DeleteStages
<1>10. QED
  BY <1>6, <1>7, <1>8, <1>9 DEF DeletionIInv

LEMMA UpstreamAnswersIInv ==
  ASSUME DeletionIInv, NEW c \in Workers, UpstreamAnswers(c), UNCHANGED <<keys, events, owned, rollup>>
  PROVE  DeletionIInv'
<1>1. /\ job[c].stage = "upstream" /\ outrun \ {c} \subseteq outrun' /\ outrun' \subseteq Workers
      /\ UNCHANGED <<present, period, used, files, rows, made, overrun, crossed>>
  BY EndsFact DEF UpstreamAnswers, StageIs, DeletionIInv, DeletionTypeOK
<1>2. /\ Moves(c) /\ job'[c].stage \in {"decode", "idle"}
      /\ job'[c].stage = "decode" => job'[c].total = job[c].total
  <2>1. CASE Ends(c)
    BY <2>1, EndsFact DEF DeletionIInv
  <2>2. ASSUME NEW n \in 1 .. MaxItems,
               job' = [job EXCEPT ![c].stage = "decode", ![c].batch = n, ![c].left = n]
        PROVE  Moves(c) /\ job'[c].stage = "decode" /\ job'[c].total = job[c].total
    <3>1. job \in [Workers -> Jobs] /\ n \in 0 .. MaxItems
      BY JobsFact DEF DeletionIInv
    <3>2. job'[c] = [job[c] EXCEPT !.stage = "decode", !.batch = n, !.left = n]
      BY <2>2, <3>1
    <3>3. job'[c] \in Jobs /\ job'[c].stage = "decode" /\ job'[c].total = job[c].total
      BY <3>1, <3>2 DEF Jobs, JobStages, GenerateStages
    <3>4. QED
      BY <2>2, <3>1, <3>3 DEF Moves
  <2>3. QED
    BY <2>1, <2>2 DEF UpstreamAnswers
<1>3. QuotaInv'
  BY <1>1, <1>2, ChargesNothing DEF DeletionIInv, DeletionTypeOK, QuotaInv, Asked, Doing,
     GenerateStages
<1>4. GalleryInv'
  BY <1>1, <1>2, QuietStep DEF Idle, Storing, DeleteStages
<1>5. DeletionTypeOK' /\ InHand'
  BY <1>1, <1>2 DEF DeletionIInv, DeletionTypeOK, InHand, Moves, Jobs, JobStages, Storing
<1>6. QED
  BY <1>3, <1>4, <1>5 DEF DeletionIInv

LEMMA TakeItemIInv ==
  ASSUME DeletionIInv, NEW c \in Workers, TakeItem(c), UNCHANGED <<keys, events, owned, rollup>>
  PROVE  DeletionIInv'
<1>1. /\ job[c].stage = "decode" /\ job[c].left > 0 /\ job \in [Workers -> Jobs]
      /\ job[c] \in Jobs /\ job[c].total >= 1
      /\ UNCHANGED <<present, period, used, rows, overrun, crossed>>
  BY JobsFact DEF TakeItem, StageIs, DeletionIInv, QuotaInv, Asked, Doing, GenerateStages
<1>2. CASE /\ \/ job' = [job EXCEPT ![c].left = @ - 1] /\ outrun' = outrun
              \/ Ends(c)
           /\ UNCHANGED <<files, made>>
  <2>1. /\ Moves(c) /\ job'[c].stage \in {"decode", "idle"}
        /\ job'[c].stage = "decode" => job'[c].total = job[c].total
        /\ outrun \ {c} \subseteq outrun' /\ outrun' \subseteq Workers
    <3>1. CASE Ends(c)
      BY <3>1, EndsFact DEF DeletionIInv, DeletionTypeOK
    <3>2. CASE job' = [job EXCEPT ![c].left = @ - 1] /\ outrun' = outrun
      <4>1. job[c].left - 1 \in 0 .. MaxItems
        BY <1>1, FieldsFact, ImageBoundsAssumption
      <4>2. job'[c] = [job[c] EXCEPT !.left = job[c].left - 1]
        BY <1>1, <3>2
      <4>3. job'[c] \in Jobs /\ job'[c].stage = "decode" /\ job'[c].total = job[c].total
        BY <1>1, <4>1, <4>2 DEF Jobs
      <4>4. QED
        BY <1>1, <3>2, <4>3 DEF Moves, DeletionIInv, DeletionTypeOK
    <3>3. QED
      BY <1>2, <3>1, <3>2
  <2>2. QuotaInv'
    BY <1>1, <2>1, ChargesNothing DEF DeletionIInv, DeletionTypeOK, GenerateStages
  <2>3. GalleryInv'
    BY <1>1, <1>2, <2>1, QuietStep DEF Idle, Storing, DeleteStages
  <2>4. DeletionTypeOK' /\ InHand'
    BY <1>1, <1>2, <2>1 DEF DeletionIInv, DeletionTypeOK, InHand, Moves, Jobs, JobStages, Storing
  <2>5. QED
    BY <2>2, <2>3, <2>4 DEF DeletionIInv
<1>3. CASE WriteFile(c)
  <2>1. /\ made' = made + 1 /\ made \in Nat /\ made < MaxImages
        /\ files' = files \cup {made + 1} /\ made + 1 \in 1 .. MaxImages
        /\ outrun' = outrun /\ MaxImages \in Nat
        /\ job' = [job EXCEPT ![c].stage = "recheck", ![c].image = made + 1]
    BY <1>3, ImageBoundsAssumption DEF WriteFile, DeletionIInv, DeletionTypeOK
  <2>2. /\ Moves(c) /\ job'[c].stage = "recheck" /\ job'[c].image = made + 1
        /\ job'[c].left = job[c].left /\ job'[c].total = job[c].total
    <3>1. job'[c] = [job[c] EXCEPT !.stage = "recheck", !.image = made + 1]
      BY <1>1, <2>1
    <3>2. made + 1 \in 0 .. MaxImages
      BY <2>1
    <3>3. /\ job'[c] \in Jobs /\ job'[c].stage = "recheck" /\ job'[c].image = made + 1
          /\ job'[c].left = job[c].left /\ job'[c].total = job[c].total
      BY <1>1, <3>1, <3>2 DEF Jobs, JobStages, GenerateStages
    <3>4. QED
      BY <1>1, <2>1, <3>3 DEF Moves
  <2>3. QuotaInv'
    BY <1>1, <2>1, <2>2, ChargesNothing DEF DeletionIInv, DeletionTypeOK
  <2>4. GalleryInv'
    BY <1>1, <1>3, WriteFileGallery DEF StageIs
  <2>5. InHand'
    <3>1. ASSUME NEW d \in Workers, job'[d].stage \in Storing
          PROVE  job'[d].image \in 1 .. made' /\ job'[d].left >= 1
      <4>1. CASE d = c
        BY <1>1, <2>1, <2>2, <4>1, FieldsFact
      <4>2. CASE d # c
        <5>1. job[d].image \in 1 .. made /\ job[d].left >= 1 /\ job'[d] = job[d]
          BY <2>2, <3>1, <4>2 DEF Moves, DeletionIInv, InHand
        <5>2. QED
          BY <2>1, <5>1
      <4>3. QED
        BY <4>1, <4>2
    <3>2. QED
      BY <3>1 DEF InHand
  <2>6. DeletionTypeOK'
    BY <1>1, <2>1, <2>2 DEF DeletionIInv, DeletionTypeOK, Moves, Jobs, JobStages, Ids
  <2>7. QED
    BY <2>3, <2>4, <2>5, <2>6 DEF DeletionIInv
<1>4. QED
  BY <1>2, <1>3 DEF TakeItem

LEMMA RecheckIInv ==
  ASSUME DeletionIInv, NEW c \in Workers, Recheck(c), UNCHANGED <<keys, events, owned, rollup>>
  PROVE  DeletionIInv'
<1>1. /\ Moves(c) /\ job'[c].stage \in {"insert", "idle"}
      /\ job'[c].stage = "insert" => job'[c].image = job[c].image /\ job'[c].left = job[c].left
  BY EntersFact, EndsFact DEF Recheck, DeletionIInv, JobStages, GenerateStages
<1>2. /\ job[c].stage = "recheck" /\ files' \subseteq files /\ outrun' \subseteq Workers
      /\ UNCHANGED <<present, period, used, rows, made, overrun, crossed>>
  BY EndsFact DEF Recheck, StageIs, DeletionIInv, DeletionTypeOK
<1>3. InHand'
  BY <1>1, <1>2 DEF DeletionIInv, InHand, Moves, Storing
<1>4. DeletionTypeOK'
  BY <1>1, <1>2 DEF DeletionIInv, DeletionTypeOK, Moves, Jobs, JobStages
<1>5. QED
  BY <1>3, <1>4, RecheckQuota, RecheckGallery DEF DeletionIInv

LEMMA StoreRowIInv ==
  ASSUME DeletionIInv, NEW c \in Workers, StoreRow(c), UNCHANGED <<keys, events, owned, rollup>>
  PROVE  DeletionIInv'
<1> DEFINE p == job[c].period
<1>1. /\ job[c].stage = "insert" /\ job[c].image \in 1 .. made /\ made \in 0 .. MaxImages
      /\ p \in Periods /\ UNCHANGED <<present, period, files, made, crossed>>
  BY JobsFact, FieldsFact DEF StoreRow, StageIs, DeletionIInv, InHand, Storing, DeletionTypeOK
<1>2. /\ rows' \subseteq Ids /\ used' \in [Periods -> Nat]
      /\ outrun' \subseteq Workers /\ overrun' \subseteq Periods
      /\ Moves(c) /\ job'[c].stage \in {"decode", "idle"}
  <2>1. CASE ~present
    BY <2>1, EndsFact DEF StoreRow, DeletionIInv, DeletionTypeOK
  <2>2. CASE present
    <3>1. Share(c) \in Nat /\ MaxImages \in Nat
      BY ShareType, ImageBoundsAssumption DEF DeletionIInv
    <3>2. used' \in [Periods -> Nat]
      BY <1>1, <2>2, <3>1 DEF StoreRow, DeletionIInv, DeletionTypeOK
    <3>3. rows' \subseteq Ids
      BY <1>1, <2>2, <3>1 DEF StoreRow, DeletionIInv, DeletionTypeOK, Ids
    <3>4. outrun' \subseteq Workers /\ overrun' \subseteq Periods
      BY <1>1, <2>2 DEF StoreRow, DeletionIInv, DeletionTypeOK, Doing
    <3>5. Moves(c) /\ job'[c].stage = "decode"
      BY <1>1, <2>2, StoresFact DEF StoreRow, DeletionIInv, Storing
    <3>6. QED
      BY <3>2, <3>3, <3>4, <3>5
  <2>3. QED
    BY <2>1, <2>2
<1>3. InHand'
  BY <1>1, <1>2 DEF DeletionIInv, InHand, Moves, Storing
<1>4. DeletionTypeOK'
  BY <1>1, <1>2 DEF DeletionIInv, DeletionTypeOK, Moves, Jobs, JobStages
<1>5. QED
  BY <1>3, <1>4, StoreRowQuota, StoreRowGallery DEF DeletionIInv

\* A step that stores no image keeps the types and the quota.
LEMMA StoresNothing ==
  ASSUME DeletionIInv, NEW c \in Workers, Moves(c), job'[c].stage \notin GenerateStages,
         present' \in BOOLEAN, crossed' \in BOOLEAN, files' \subseteq files, rows' \subseteq rows,
         used' = used \/ used' = [p \in Periods |-> 0],
         outrun \ {c} \subseteq outrun', outrun' \subseteq outrun,
         UNCHANGED <<period, made, overrun>>, keys' \subseteq Keys,
         owned' \subseteq events', events' \subseteq 1 .. MaxEvents, rollup' \in BOOLEAN
  PROVE  DeletionTypeOK' /\ InHand' /\ QuotaInv'
<1>1. used' \in [Periods -> Nat] /\ \A p \in Periods : used'[p] <= used[p]
  BY DEF DeletionIInv, DeletionTypeOK
<1>2. DeletionTypeOK'
  BY <1>1 DEF DeletionIInv, DeletionTypeOK, Moves, Jobs, JobStages
<1>3. InHand'
  BY DEF DeletionIInv, InHand, Moves, Storing, GenerateStages
<1>4. QuotaInv'
  BY <1>1, ChargesNothing DEF GenerateStages
<1>5. QED
  BY <1>2, <1>3, <1>4

LEMMA DeliverIInv ==
  ASSUME DeletionIInv, NEW c \in Workers, Deliver(c), UNCHANGED <<keys, events, owned, rollup>>
  PROVE  DeletionIInv'
<1>1. Moves(c) /\ job'[c].stage = "idle" /\ outrun' = outrun \ {c}
  BY EndsFact DEF Deliver, DeletionIInv
<1>2. job[c].stage = "decode"
      /\ UNCHANGED <<present, period, used, files, rows, made, overrun, crossed>>
  BY DEF Deliver, StageIs
<1>3. DeletionTypeOK' /\ InHand' /\ QuotaInv'
  BY <1>1, <1>2, StoresNothing DEF GenerateStages, DeletionIInv, DeletionTypeOK
<1>4. GalleryInv'
  BY <1>1, <1>2, QuietStep DEF Idle, Storing, DeleteStages
<1>5. QED
  BY <1>3, <1>4 DEF DeletionIInv

LEMMA PerishIInv ==
  ASSUME DeletionIInv, NEW c \in Workers, Perish(c), UNCHANGED <<keys, events, owned, rollup>>
  PROVE  DeletionIInv'
<1>1. Moves(c) /\ job'[c].stage = "idle" /\ outrun' = outrun \ {c}
  BY EndsFact DEF Perish, DeletionIInv
<1>2. /\ ~Idle(c) /\ crossed' = TRUE
      /\ UNCHANGED <<present, period, used, files, rows, made, overrun>>
  BY DEF Perish
<1>3. DeletionTypeOK' /\ InHand' /\ QuotaInv'
  BY <1>1, <1>2, StoresNothing DEF GenerateStages, DeletionIInv, DeletionTypeOK
<1>4. GalleryInv'
  BY <1>1, <1>2, QuietStep DEF Storing, DeleteStages
<1>5. QED
  BY <1>3, <1>4 DEF DeletionIInv

LEMMA NextPeriodIInv ==
  ASSUME DeletionIInv, NextPeriod, UNCHANGED <<keys, events, owned, rollup>>
  PROVE  DeletionIInv'
<1>1. /\ period' \in Periods
      /\ UNCHANGED <<present, used, files, rows, made, job, outrun, overrun, crossed>>
  BY ImageBoundsAssumption DEF NextPeriod, DeletionIInv, DeletionTypeOK, Periods
<1>2. DeletionTypeOK' /\ InHand'
  BY <1>1 DEF DeletionIInv, DeletionTypeOK, InHand
<1>3. QuotaInv'
  BY <1>1 DEF DeletionIInv, QuotaInv, Asked, Fits, ExcessUnderOneCredit, Doing, Share
<1>4. GalleryInv'
  BY <1>1 DEF DeletionIInv, GalleryInv, Numbered, Alone, Orderly, Deleting, OnDisk, Gone, GalleryMatches,
     Held, Doing, Idle, StageIs
<1>5. QED
  BY <1>2, <1>3, <1>4 DEF DeletionIInv

\* The steps of a chat request write neither file nor row.
LEMMA ChatIInv ==
  ASSUME DeletionIInv, NEW c \in Workers,
         BeginChat(c) \/ ReserveCredits(c) \/ RecordEvent(c) \/ SettleChat(c)
  PROVE  DeletionIInv'
<1>1. /\ job[c].stage \in {"idle"} \cup ChatStages
      /\ job[c].stage = "idle" =>
           present /\ crossed' = (crossed \/ Doing(DeleteStages) # {})
      /\ job[c].stage # "idle" => crossed' = crossed
      /\ UNCHANGED <<present, period, used, files, rows, made, overrun>>
  BY DEF BeginChat, ReserveCredits, RecordEvent, SettleChat, StageIs, Idle, ChatStages
<1>2. /\ Moves(c) /\ job'[c].stage \in {"idle"} \cup ChatStages
      /\ outrun \ {c} \subseteq outrun' /\ outrun' \subseteq outrun
  BY EntersFact, EndsFact
     DEF BeginChat, ReserveCredits, RecordEvent, SettleChat, DeletionIInv, JobStages, ChatStages
<1>3. keys' \subseteq Keys
  BY DEF BeginChat, ReserveCredits, RecordEvent, SettleChat, ReleaseSlot, Keys, DeletionIInv,
     DeletionTypeOK
<1>4. owned' \subseteq events' /\ events' \subseteq 1 .. MaxEvents /\ (present \/ owned' = owned)
  <2>1. Cardinality(events) \in Nat
    <3>1. IsFiniteSet(1 .. MaxEvents)
      BY EventsBoundAssumption, FS_Interval
    <3>2. QED
      BY <3>1, FS_Subset, FS_CardinalityType DEF DeletionIInv, DeletionTypeOK
  <2>2. CASE RecordEvent(c)
    <3>1. Cardinality(events) + 1 \in 1 .. MaxEvents
      BY <2>1, <2>2, EventsBoundAssumption DEF RecordEvent
    <3>2. owned \subseteq events /\ events \subseteq 1 .. MaxEvents
      BY DEF DeletionIInv, DeletionTypeOK
    <3>3. CASE present
      <4>1. /\ events' = events \cup {Cardinality(events) + 1}
            /\ owned' = owned \cup {Cardinality(events) + 1}
        BY <2>2, <3>3 DEF RecordEvent
      <4>2. QED
        BY <3>1, <3>2, <3>3, <4>1
    <3>4. CASE ~present
      BY <2>2, <3>2, <3>4 DEF RecordEvent
    <3>5. QED
      BY <3>3, <3>4
  <2>3. CASE UNCHANGED <<events, owned>>
    BY <2>3 DEF DeletionIInv, DeletionTypeOK
  <2>4. QED
    BY <2>2, <2>3 DEF BeginChat, ReserveCredits, SettleChat
<1>5. /\ crossed' \in BOOLEAN /\ present' \in BOOLEAN
      /\ crossed => crossed'
      /\ Idle(c) => present /\ (crossed' \/ Doing(DeleteStages) = {})
  <2>1. crossed \in BOOLEAN /\ present' \in BOOLEAN
    BY <1>1 DEF DeletionIInv, DeletionTypeOK
  <2>2. CASE Idle(c)
    BY Zenon, <1>1, <2>1, <2>2 DEF Idle
  <2>3. CASE ~Idle(c)
    BY Zenon, <1>1, <2>1, <2>3 DEF Idle
  <2>4. QED
    BY <2>2, <2>3
<1>6. rollup' \in BOOLEAN
  <2>1. CASE SettleChat(c)
    BY Zenon, <2>1 DEF SettleChat, DeletionIInv, DeletionTypeOK
  <2>2. CASE UNCHANGED rollup
    BY Zenon, <2>2 DEF DeletionIInv, DeletionTypeOK
  <2>3. QED
    BY <2>1, <2>2 DEF BeginChat, ReserveCredits, RecordEvent
<1>7. DeletionTypeOK' /\ InHand' /\ QuotaInv'
  BY <1>1, <1>2, <1>3, <1>4, <1>5, <1>6, StoresNothing DEF GenerateStages, ChatStages
<1>8. GalleryInv'
  <2>1. job[c].stage \notin Storing \cup DeleteStages /\ job'[c].stage \notin Storing \cup DeleteStages
    BY <1>1, <1>2 DEF Storing, DeleteStages, ChatStages
  <2>2. UNCHANGED <<present, files, rows, made>>
    BY <1>1
  <2>3. QED
    BY Zenon, <1>2, <1>4, <1>5, <2>1, <2>2, QuietStep
<1>9. QED
  BY <1>7, <1>8 DEF DeletionIInv

\* The steps of a deletion.
LEMMA WipeIInv ==
  ASSUME DeletionIInv, NEW c \in Workers,
         \/ /\ SelectPaths(c) \/ UnlinkPaths(c) \/ DeleteRows(c)
            /\ UNCHANGED <<keys, events, owned, rollup>>
         \/ BeginDeletion(c) \/ DropUser(c) \/ ScanKeys(c) \/ DeleteKeys(c)
  PROVE  DeletionIInv'
<1>1. /\ present' \in BOOLEAN /\ crossed' \in BOOLEAN
      /\ files' \subseteq files /\ rows' \subseteq rows
      /\ used' = used \/ used' = [p \in Periods |-> 0]
      /\ outrun \ {c} \subseteq outrun' /\ outrun' \subseteq outrun
      /\ UNCHANGED <<period, made, overrun>> /\ keys' \subseteq Keys
      /\ owned' \subseteq events' /\ events' \subseteq 1 .. MaxEvents /\ rollup' \in BOOLEAN
  BY EndsFact DEF SelectPaths, UnlinkPaths, DeleteRows, BeginDeletion, DropUser, ScanKeys,
     DeleteKeys, DeletionIInv,
     DeletionTypeOK
<1>2. Moves(c) /\ job'[c].stage \in {"idle"} \cup DeleteStages
  <2>1. job \in [Workers -> Jobs] /\ rows \subseteq Ids /\ keys \subseteq Keys
    BY JobsFact DEF DeletionIInv, DeletionTypeOK
  <2>2. CASE SelectPaths(c) \/ UnlinkPaths(c) \/ ScanKeys(c)
    BY <2>1, <2>2 DEF SelectPaths, UnlinkPaths, ScanKeys, Moves, Jobs, JobStages, DeleteStages
  <2>3. CASE DeleteRows(c) \/ BeginDeletion(c) \/ DropUser(c) \/ DeleteKeys(c)
    BY <2>3, EntersFact, EndsFact DEF DeleteRows, BeginDeletion, DropUser, DeleteKeys, DeletionIInv,
       JobStages, DeleteStages
  <2>4. QED
    BY <2>2, <2>3
<1>3. DeletionTypeOK' /\ InHand' /\ QuotaInv'
  BY <1>1, <1>2, StoresNothing DEF GenerateStages, DeleteStages
<1>4. GalleryInv'
  BY SelectPathsGallery, UnlinkPathsGallery, DeleteRowsGallery, BeginDeletionGallery,
     DropUserGallery, ScanKeysGallery, DeleteKeysGallery
<1>5. QED
  BY <1>3, <1>4 DEF DeletionIInv

LEMMA DeletionInitIInv == DeletionInit => DeletionIInv
<1> SUFFICES ASSUME DeletionInit PROVE DeletionIInv
  OBVIOUS
<1>1. /\ job = [c \in Workers |-> NoJob] /\ present = TRUE /\ crossed = FALSE /\ period = 1
      /\ used = [p \in Periods |-> 0] /\ files = {} /\ rows = {} /\ made = 0
      /\ outrun = {} /\ overrun = {} /\ keys = {} /\ events = {} /\ owned = {}
      /\ rollup = FALSE
  BY DEF DeletionInit, ImagesInit
<1>2. /\ job \in [Workers -> Jobs] /\ \A c \in Workers : job[c].stage = "idle"
  BY <1>1, NoJobFact
<1>3. DeletionTypeOK
  <2>1. period \in Periods /\ made \in 0 .. MaxImages /\ used \in [Periods -> Nat]
    BY <1>1, ImageBoundsAssumption DEF Periods
  <2>2. present \in BOOLEAN /\ crossed \in BOOLEAN /\ rollup \in BOOLEAN
    BY Zenon, <1>1
  <2>3. QED
    BY <1>1, <1>2, <2>1, <2>2 DEF DeletionTypeOK, Jobs, JobStages
<1>4. InHand /\ Asked /\ Fits
  BY <1>2 DEF InHand, Asked, Fits, Doing, Storing, GenerateStages
<1>5. ExcessUnderOneCredit
  <2>1. (Quota + 1) * Unit > 0
    BY QuotaAssumption
  <2>2. QED
    BY <1>1, <2>1 DEF ExcessUnderOneCredit
<1>6. GalleryInv
  BY <1>1, <1>2 DEF GalleryInv, Numbered, Alone, Orderly, Deleting, Gone, GalleryMatches, Idle,
     StageIs, Storing, DeleteStages
<1>7. QED
  BY <1>3, <1>4, <1>5, <1>6 DEF DeletionIInv, QuotaInv

LEMMA DeletionNextIInv == DeletionIInv /\ [DeletionNext]_deletionVars => DeletionIInv'
<1> SUFFICES ASSUME DeletionIInv, [DeletionNext]_deletionVars PROVE DeletionIInv'
  OBVIOUS
<1>1. CASE ImageStep /\ UNCHANGED <<keys, events, owned, rollup>>
  BY <1>1, AskIInv, UpstreamAnswersIInv, TakeItemIInv, RecheckIInv, StoreRowIInv, DeliverIInv,
     WipeIInv, PerishIInv, NextPeriodIInv DEF ImageStep
<1>2. CASE \E c \in Workers :
             \/ BeginChat(c) \/ ReserveCredits(c) \/ RecordEvent(c) \/ SettleChat(c)
             \/ BeginDeletion(c) \/ DropUser(c) \/ ScanKeys(c) \/ DeleteKeys(c)
  BY <1>2, ChatIInv, WipeIInv
<1>3. CASE UNCHANGED deletionVars
  <2>1. UNCHANGED <<present, period, used, files, rows, made, job, outrun, overrun, crossed,
                    keys, events, owned, rollup>>
    BY <1>3 DEF deletionVars, imageVars
  <2>2. DeletionTypeOK' /\ InHand'
    BY <2>1 DEF DeletionIInv, DeletionTypeOK, InHand
  <2>3. QuotaInv'
    BY <2>1 DEF DeletionIInv, QuotaInv, Asked, Fits, ExcessUnderOneCredit, Doing, Share
  <2>4. GalleryInv'
    BY <2>1 DEF DeletionIInv, GalleryInv, Numbered, Alone, Orderly, Deleting, OnDisk, Gone,
       GalleryMatches, Held, Doing, Idle, StageIs
  <2>5. QED
    BY <2>2, <2>3, <2>4 DEF DeletionIInv
<1>4. QED
  BY <1>1, <1>2, <1>3 DEF DeletionNext

-----------------------------------------------------------------------------
LEMMA SpecIInv == DeletionSpec => []DeletionIInv
BY DeletionInitIInv, DeletionNextIInv, PTL DEF DeletionSpec

\* Every variable of the gallery, the quota and the deletion keeps its type.
THEOREM DeletionTypeCorrect == DeletionSpec => []DeletionTypeOK
BY SpecIInv, PTL DEF DeletionIInv

\* "We never silently exceed a paid quota", as far as the code keeps it: a period
\* no INSERT overtook is charged less than one credit beyond its quota.
THEOREM PaidQuotaHeld == DeletionSpec => []ExcessUnderOneCredit
BY SpecIInv, PTL DEF DeletionIInv, QuotaInv

\* Files and rows match: each file has its row or a request that is still at it,
\* and each row its file, but for the moment a deletion is between the two.
THEOREM FilesMatchRows == DeletionSpec => []GalleryMatches
BY SpecIInv, PTL DEF DeletionIInv, GalleryInv

\* No image row and no usage event names a deleted user, whatever was under way;
\* and a deletion that met no other request leaves no key and no file.
THEOREM DeletionLeavesNothing == DeletionSpec => []DeletionErases
<1>1. DeletionIInv => DeletionErases
  <2>1. SUFFICES ASSUME DeletionIInv, ~present
                 PROVE  /\ rows = {} /\ owned = {}
                        /\ ~crossed /\ Doing(DeleteStages) = {} => keys = {} /\ files = {}
    BY DEF DeletionErases
  <2>2. rows = {} /\ owned = {}
    BY <2>1 DEF DeletionIInv, GalleryInv, Gone
  <2>3. ASSUME ~crossed, Doing(DeleteStages) = {} PROVE keys = {} /\ files = {}
    <3>1. \A c \in Workers : Idle(c)
      BY <2>1, <2>3, LeftOver DEF Doing, Idle, DeleteStages
    <3>2. QED
      BY <2>1, <2>3, <3>1 DEF DeletionIInv, GalleryInv, Gone
  <2>4. QED
    BY <2>2, <2>3
<1>2. QED
  BY <1>1, SpecIInv, PTL

\* The daily rollup takes a name only from an event that still has one.
LEMMA RollupsFollowEvents ==
  [DeletionNext]_deletionVars => rollup' = rollup \/ owned # {}
BY DEF DeletionNext, deletionVars, BeginChat, ReserveCredits, RecordEvent, SettleChat,
       BeginDeletion, DropUser, ScanKeys, DeleteKeys

\* Once a user is gone, no request that was under way writes him into the daily
\* rollup.
THEOREM NobodyNamedAnew == DeletionSpec => NamedNoMore
<1>1. DeletionIInv /\ [DeletionNext]_deletionVars
        => [~present /\ ~rollup => ~rollup']_deletionVars
  BY RollupsFollowEvents DEF DeletionIInv, GalleryInv, Gone
<1>2. QED
  BY <1>1, SpecIInv, PTL DEF DeletionSpec, NamedNoMore

-----------------------------------------------------------------------------
(* MCAccounts: the account components keep their invariants side by side,   *)
(* since a step of the whole is for each of them one of its own or none.    *)

AccountsIInv == SessionsIInv /\ IdentitiesIInv /\ DeletionIInv

\* The components share no variable.
LEMMA AccountsSteps ==
  [AccountsNext]_accounts =>
    /\ [SessionsNext]_sessionVars /\ [IdentitiesNext]_identityVars
    /\ [DeletionNext]_deletionVars
BY DEF AccountsNext, accounts

\* Every account component's invariant holds in a behaviour of the whole.
THEOREM AccountsInvariance == AccountsSpec => []AccountsIInv
<1>1. AccountsInit => AccountsIInv
  BY SessionsInitIInv, IdentitiesInitIInv, DeletionInitIInv DEF AccountsInit, AccountsIInv
<1>2. AccountsIInv /\ [AccountsNext]_accounts => AccountsIInv'
  BY AccountsSteps, SessionsNextIInv, IdentitiesNextIInv, DeletionNextIInv DEF AccountsIInv
<1>3. QED
  BY <1>1, <1>2, PTL DEF AccountsSpec

\* Every variable of the three account components keeps its type, for all values of their
\* constants.
THEOREM AccountsTypeCorrect == AccountsSpec => []AccountsTypeOK
<1>1. AccountsIInv => AccountsTypeOK
  BY DEF AccountsIInv, AccountsTypeOK, SessionsIInv, IdentitiesIInv, DeletionIInv
<1>2. QED
  BY <1>1, AccountsInvariance, PTL
=============================================================================
