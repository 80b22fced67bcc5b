---------------------------- MODULE LedgerProofs ----------------------------
(***************************************************************************)
(* Proofs about CreditLedger, for every finite set of requests, all limits,*)
(* amounts and costs, and any number of crashes and losses of Redis.       *)
(*                                                                         *)
(* LedgerExact alone does not give NoOverspend: a request that dies after  *)
(* its settlement, before the adjustment, leaves the ledger below its row. *)
(* The inductive invariant bounds what dead requests left behind from      *)
(* below and counts what is granted rather than what is charged.  The      *)
(* window needs the same: what it was spent on, and what of it passed.     *)
(***************************************************************************)
EXTENDS CreditLedger, FiniteSetTheorems, WellFoundedInduction, TLAPS

\* The phases before the row of a request.
Rowless == {"idle", "rollback", "window", "unspend", "release", "insert", "refused"} \cup Syncing

\* What a phase knows of the request's row, of its amount and of the window.
Stage(r) ==
  /\ pc[r] \in Rowless => rows[r] = NoRow
  /\ pc[r] = "upstream" => rows[r].status = "RESERVED"
  /\ pc[r] \in {"adjust", "done"} => rows[r].status \in {"SETTLED", "FAILED"}
  /\ rows[r].status \in {"none", "FAILED"} => Charge(r) = 0
  /\ rows[r].status = "RESERVED" => Charge(r) = amount[r]
  /\ pc[r] \notin {"idle", "refused"} => amount[r] \in Amounts
  /\ r \in consumers => pc[r] \in {"unspend", "insert", "upstream", "adjust", "done", "dead"}

Stages == \A r \in Requests : Stage(r)

\* Before the key of an intact ledger exists, no request is past its rebuild,
\* and every rebuild under way will write the usage of the rows.
Missing ==
  ~present /\ intact =>
    /\ stray = 0
    /\ \A r \in Requests : /\ pc[r] \notin {"reserve"} \cup Holding
                           /\ pc[r] = "set" => snap[r] = DurableUsage

\* What a dead request lacks in the ledger at most, against its row.
Unpaid(r) == IF pc[r] = "dead" THEN Covered(r) - Charge(r) ELSE 0

\* What a request takes of the limit, in the account.
Taken(r) ==
  IF rows[r].status = "SETTLED" THEN Covered(r) ELSE IF InAccount(r) THEN amount[r] ELSE 0

\* What a request added to the window, and what of it passed the check.
Spent(r) == IF r \in consumers THEN amount[r] ELSE 0
Passed(r) ==
  IF r \in consumers /\ (rows[r].status # "none" \/ pc[r] = "insert") THEN amount[r] ELSE 0

Shares == [r \in Requests |-> Share(r)]
Unpaids == [r \in Requests |-> Unpaid(r)]
Takens == [r \in Requests |-> Taken(r)]
Spents == [r \in Requests |-> Spent(r)]
Passeds == [r \in Requests |-> Passed(r)]

StrayBounded == stray >= SumFunction(Unpaids)
Granted == intact => Prior + SumFunction(Takens) <= Limit
WindowExact == intact => spent = SumFunction(Spents)
WindowHeld == intact => SumFunction(Passeds) <= WindowLimit

IInv ==
  /\ TypeOK /\ Stages /\ Missing
  /\ LedgerExact /\ StrayBounded /\ Granted
  /\ WindowExact /\ WindowHeld

-----------------------------------------------------------------------------
(* Sums over the requests *)

FirstOf(s) == CHOOSE x \in s : TRUE

\* g adds f up over every set of requests, in the order of the CHOOSEs.
IsFold(g, f) ==
  g = [s \in SUBSET Requests |->
         IF s = {} THEN 0 ELSE f[FirstOf(s)] + g[s \ {FirstOf(s)}]]

LEMMA CountFact ==
  ASSUME NEW s \in SUBSET Requests
  PROVE  /\ IsFiniteSet(s) /\ Cardinality(s) \in Nat /\ Cardinality(s) <= Cardinality(Requests)
         /\ s = {} <=> Cardinality(s) = 0
BY RequestsAssumption, FS_Subset, FS_CardinalityType, FS_EmptySet

\* A set of requests that is not empty has one fewer without its first.
LEMMA FirstFact ==
  ASSUME NEW s \in SUBSET Requests
  PROVE  s # {} => /\ FirstOf(s) \in s
                   /\ s \ {FirstOf(s)} \in SUBSET Requests
                   /\ Cardinality(s \ {FirstOf(s)}) = Cardinality(s) - 1
<1>1. s # {} => FirstOf(s) \in s
  BY DEF FirstOf
<1>2. QED
  BY <1>1, CountFact, FS_RemoveElement

LEMMA LeastNumber ==
  ASSUME NEW B, B \subseteq Nat, B # {}
  PROVE  \E n \in B : \A m \in B : ~(m < n)
<1>1. PICK n \in B : \A m \in B : ~(<<m, n>> \in OpToRel(<, Nat))
  BY NatLessThanWellFounded, WFMin
<1>2. \A m \in B : ~(m < n)
  BY <1>1 DEF OpToRel
<1>3. QED
  BY <1>2

\* What holds of the empty set, and of a set whenever it holds of the set without
\* its first element, holds of every set of requests.
LEMMA FoldInduction ==
  ASSUME NEW Good \in SUBSET (SUBSET Requests),
         {} \in Good,
         \A s \in SUBSET Requests : s # {} /\ s \ {FirstOf(s)} \in Good => s \in Good
  PROVE  Good = SUBSET Requests
<1> DEFINE Bad == {n \in Nat : \E s \in SUBSET Requests : s \notin Good /\ Cardinality(s) = n}
<1>1. SUFFICES ASSUME NEW t \in SUBSET Requests, t \notin Good PROVE FALSE
  OBVIOUS
<1>2. Cardinality(t) \in Bad
  BY <1>1, CountFact
<1>3. Bad # {} /\ Bad \subseteq Nat
  BY <1>2
<1>4. PICK n \in Bad : \A m \in Bad : ~(m < n)
  <2> HIDE DEF Bad
  <2>1. QED
    BY <1>3, LeastNumber
<1>5. PICK s \in SUBSET Requests : s \notin Good /\ Cardinality(s) = n
  OBVIOUS
<1>6. s # {} /\ s \ {FirstOf(s)} \notin Good
  BY <1>5
<1>7. s \ {FirstOf(s)} \in SUBSET Requests /\ Cardinality(s \ {FirstOf(s)}) = n - 1 /\ n # 0
  BY <1>5, <1>6, CountFact, FirstFact
<1>8. n - 1 \in Bad
  BY <1>6, <1>7
<1>9. QED
  BY <1>4, <1>7, <1>8

\* The fold exists.
LEMMA FoldExists ==
  ASSUME NEW f \in [Requests -> Int]
  PROVE  \E g \in [SUBSET Requests -> Int] : IsFold(g, f)
<1> DEFINE Small(n) == {s \in SUBSET Requests : Cardinality(s) <= n}
           FoldsTo(g, n) ==
             g = [s \in Small(n) |-> IF s = {} THEN 0 ELSE f[FirstOf(s)] + g[s \ {FirstOf(s)}]]
           Bad == {n \in Nat : ~\E g \in [Small(n) -> Int] : FoldsTo(g, n)}
<1>1. 0 \notin Bad
  <2>1. Small(0) = {{}}
    <3>1. \A s \in SUBSET Requests : Cardinality(s) <= 0 <=> s = {}
      BY CountFact
    <3>2. QED
      BY <3>1
  <2> DEFINE g == [s \in Small(0) |-> 0]
  <2>2. g \in [Small(0) -> Int] /\ FoldsTo(g, 0)
    BY <2>1
  <2>3. QED
    BY <2>2
<1>2. ASSUME NEW n \in Nat, n \notin Bad PROVE n + 1 \notin Bad
  <2>1. PICK g \in [Small(n) -> Int] : FoldsTo(g, n)
    BY <1>2
  <2> DEFINE h == [s \in Small(n + 1) |-> IF s = {} THEN 0 ELSE f[FirstOf(s)] + g[s \ {FirstOf(s)}]]
  <2>2. \A s \in Small(n + 1) : s # {} => s \ {FirstOf(s)} \in Small(n) /\ FirstOf(s) \in Requests
    BY CountFact, FirstFact
  <2>3. h \in [Small(n + 1) -> Int]
    BY <2>2
  <2>4. \A s \in Small(n) : h[s] = g[s] /\ s \in Small(n + 1)
    <3>1. \A s \in Small(n) : s \in Small(n + 1)
      BY CountFact
    <3>2. \A s \in Small(n) : g[s] = IF s = {} THEN 0 ELSE f[FirstOf(s)] + g[s \ {FirstOf(s)}]
      BY <2>1
    <3>3. QED
      BY <3>1, <3>2
  <2>5. FoldsTo(h, n + 1)
    <3>1. \A s \in Small(n + 1) : s # {} => h[s \ {FirstOf(s)}] = g[s \ {FirstOf(s)}]
      BY <2>2, <2>4
    <3>2. QED
      BY <3>1
  <2>6. QED
    BY <2>3, <2>5
<1>3. Bad = {}
  <2>1. SUFFICES ASSUME Bad # {} PROVE FALSE
    OBVIOUS
  <2>2. Bad \subseteq Nat
    OBVIOUS
  <2> HIDE DEF Bad
  <2>3. PICK n \in Bad : \A m \in Bad : ~(m < n)
    BY <2>1, <2>2, LeastNumber
  <2>4. n \in Nat
    BY <2>2
  <2>5. n # 0 /\ n - 1 \in Nat /\ n - 1 \notin Bad
    BY <1>1, <2>3, <2>4
  <2>6. n \notin Bad
    BY <1>2, <2>4, <2>5
  <2>7. QED
    BY <2>6
<1>4. Cardinality(Requests) \in Nat
  BY CountFact
<1>5. PICK g \in [Small(Cardinality(Requests)) -> Int] : FoldsTo(g, Cardinality(Requests))
  BY <1>3, <1>4
<1>6. Small(Cardinality(Requests)) = SUBSET Requests
  BY CountFact
<1>7. QED
  BY <1>5, <1>6 DEF IsFold

\* SumFunction is the value of a fold at the set of all requests.
LEMMA SumFold ==
  ASSUME NEW f \in [Requests -> Int]
  PROVE  \E g \in [SUBSET Requests -> Int] : IsFold(g, f) /\ SumFunction(f) = g[Requests]
<1> DEFINE g == CHOOSE g : IsFold(g, f)
<1>1. IsFold(g, f)
  BY FoldExists
<1>2. PICK h \in [SUBSET Requests -> Int] : IsFold(h, f)
  BY FoldExists
<1> HIDE DEF g
<1>3. g \in [SUBSET Requests -> Int]
  <2> DEFINE Good == {s \in SUBSET Requests : g[s] = h[s]}
  <2>1. {} \in Good
    BY <1>1, <1>2 DEF IsFold
  <2>2. \A s \in SUBSET Requests : s # {} /\ s \ {FirstOf(s)} \in Good => s \in Good
    BY <1>1, <1>2 DEF IsFold
  <2>3. Good = SUBSET Requests
    <3> HIDE DEF Good
    <3>1. Good \subseteq SUBSET Requests
      BY DEF Good
    <3>2. QED
      BY <2>1, <2>2, <3>1, FoldInduction
  <2>4. \A s \in SUBSET Requests : g[s] \in Int
    BY <2>3
  <2>5. QED
    BY <1>1, <2>4 DEF IsFold
<1>4. SumFunction(f) = g[Requests]
  <2>1. DOMAIN f = Requests
    OBVIOUS
  <2>2. SumFunction(f) =
          (CHOOSE fold : fold = [s \in SUBSET (DOMAIN f) |->
             IF s = {} THEN 0 ELSE f[FirstOf(s)] + fold[s \ {FirstOf(s)}]])[DOMAIN f]
    BY Zenon DEF SumFunction, SumFunctionOnSet, FoldFunctionOnSet, MapThenFoldSet, FirstOf
  <2>3. QED
    BY <2>1, <2>2 DEF g, IsFold
<1>5. QED
  BY <1>1, <1>3, <1>4

LEMMA SumInt ==
  ASSUME NEW f \in [Requests -> Int]
  PROVE  SumFunction(f) \in Int
<1>1. PICK g \in [SUBSET Requests -> Int] : SumFunction(f) = g[Requests]
  BY SumFold
<1>2. QED
  BY <1>1

\* The sum of two functions.
LEMMA SumPlus ==
  ASSUME NEW f \in [Requests -> Int], NEW g \in [Requests -> Int], NEW h \in [Requests -> Int],
         \A r \in Requests : h[r] = f[r] + g[r]
  PROVE  SumFunction(h) = SumFunction(f) + SumFunction(g)
<1>1. PICK a \in [SUBSET Requests -> Int] : IsFold(a, f) /\ SumFunction(f) = a[Requests]
  BY SumFold
<1>2. PICK b \in [SUBSET Requests -> Int] : IsFold(b, g) /\ SumFunction(g) = b[Requests]
  BY SumFold
<1>3. PICK c \in [SUBSET Requests -> Int] : IsFold(c, h) /\ SumFunction(h) = c[Requests]
  BY SumFold
<1> DEFINE Good == {s \in SUBSET Requests : c[s] = a[s] + b[s]}
<1>4. {} \in Good
  BY <1>1, <1>2, <1>3 DEF IsFold
<1>5. ASSUME NEW s \in SUBSET Requests, s # {}, s \ {FirstOf(s)} \in Good
      PROVE  s \in Good
  <2>1. FirstOf(s) \in Requests /\ s \ {FirstOf(s)} \in SUBSET Requests
    BY <1>5, FirstFact
  <2>2. /\ a[s] = f[FirstOf(s)] + a[s \ {FirstOf(s)}]
        /\ b[s] = g[FirstOf(s)] + b[s \ {FirstOf(s)}]
        /\ c[s] = h[FirstOf(s)] + c[s \ {FirstOf(s)}]
    BY <1>1, <1>2, <1>3, <1>5 DEF IsFold
  <2>3. QED
    BY <1>5, <2>1, <2>2
<1>6. Good = SUBSET Requests
  <2>1. Good \subseteq SUBSET Requests
    OBVIOUS
  <2> HIDE DEF Good
  <2>2. QED
    BY <1>4, <1>5, <2>1, FoldInduction
<1>7. Requests \in Good
  BY <1>6
<1>8. QED
  BY <1>1, <1>2, <1>3, <1>7

\* A sum of natural numbers is one.
LEMMA SumNat ==
  ASSUME NEW f \in [Requests -> Nat]
  PROVE  SumFunction(f) \in Nat
<1>0. f \in [Requests -> Int]
  OBVIOUS
<1>1. PICK a \in [SUBSET Requests -> Int] : IsFold(a, f) /\ SumFunction(f) = a[Requests]
  BY <1>0, SumFold
<1> DEFINE Good == {s \in SUBSET Requests : a[s] \in Nat}
<1>2. {} \in Good
  BY <1>1 DEF IsFold
<1>3. ASSUME NEW s \in SUBSET Requests, s # {}, s \ {FirstOf(s)} \in Good
      PROVE  s \in Good
  <2>1. FirstOf(s) \in Requests
    BY <1>3, FirstFact
  <2>2. a[s] = f[FirstOf(s)] + a[s \ {FirstOf(s)}]
    BY <1>1, <1>3 DEF IsFold
  <2>3. QED
    BY <1>3, <2>1, <2>2
<1>4. Good = SUBSET Requests
  <2>1. Good \subseteq SUBSET Requests
    OBVIOUS
  <2> HIDE DEF Good
  <2>2. QED
    BY <1>2, <1>3, <2>1, FoldInduction
<1>5. Requests \in Good
  BY <1>4
<1>6. QED
  BY <1>1, <1>5

\* The sum of a function that is zero but at one request.
LEMMA SumOfOne ==
  ASSUME NEW f \in [Requests -> Int], NEW r \in Requests,
         \A q \in Requests \ {r} : f[q] = 0
  PROVE  SumFunction(f) = f[r]
<1>1. PICK a \in [SUBSET Requests -> Int] : IsFold(a, f) /\ SumFunction(f) = a[Requests]
  BY SumFold
<1> DEFINE Good == {s \in SUBSET Requests : a[s] = IF r \in s THEN f[r] ELSE 0}
<1>2. {} \in Good
  BY <1>1 DEF IsFold
<1>3. ASSUME NEW s \in SUBSET Requests, s # {}, s \ {FirstOf(s)} \in Good
      PROVE  s \in Good
  <2>1. FirstOf(s) \in s
    BY <1>3, FirstFact
  <2>2. a[s] = f[FirstOf(s)] + a[s \ {FirstOf(s)}]
    BY <1>1, <1>3 DEF IsFold
  <2>3. QED
    BY <1>3, <2>1, <2>2
<1>4. Good = SUBSET Requests
  <2>1. Good \subseteq SUBSET Requests
    OBVIOUS
  <2> HIDE DEF Good
  <2>2. QED
    BY <1>2, <1>3, <2>1, FoldInduction
<1>5. QED
  BY <1>1, <1>4

\* What a change at one request, or at all, does to a sum.
LEMMA SumChange ==
  ASSUME NEW f \in [Requests -> Int], NEW g \in [Requests -> Int], NEW r \in Requests,
         \A q \in Requests \ {r} : g[q] = f[q]
  PROVE  /\ SumFunction(f) \in Int /\ SumFunction(g) \in Int
         /\ SumFunction(g) = SumFunction(f) + g[r] - f[r]
<1> DEFINE d == [q \in Requests |-> g[q] - f[q]]
<1>1. d \in [Requests -> Int] /\ d[r] = g[r] - f[r]
  OBVIOUS
<1>2. \A q \in Requests : g[q] = f[q] + d[q]
  OBVIOUS
<1>3. \A q \in Requests \ {r} : d[q] = 0
  OBVIOUS
<1> HIDE DEF d
<1>4. SumFunction(d) = d[r]
  BY <1>1, <1>3, SumOfOne
<1>5. SumFunction(g) = SumFunction(f) + SumFunction(d)
  BY <1>1, <1>2, SumPlus
<1>6. SumFunction(f) \in Int /\ SumFunction(g) \in Int
  BY SumFold
<1>7. QED
  BY <1>1, <1>4, <1>5, <1>6

LEMMA SumLeq ==
  ASSUME NEW f \in [Requests -> Int], NEW g \in [Requests -> Int],
         \A q \in Requests : f[q] <= g[q]
  PROVE  /\ SumFunction(f) \in Int /\ SumFunction(g) \in Int
         /\ SumFunction(f) <= SumFunction(g)
<1> DEFINE d == [q \in Requests |-> g[q] - f[q]]
<1>1. d \in [Requests -> Nat] /\ d \in [Requests -> Int]
  OBVIOUS
<1>2. \A q \in Requests : g[q] = f[q] + d[q]
  OBVIOUS
<1> HIDE DEF d
<1>3. SumFunction(d) \in Nat
  BY <1>1, SumNat
<1>4. SumFunction(g) = SumFunction(f) + SumFunction(d)
  BY <1>1, <1>2, SumPlus
<1>5. SumFunction(f) \in Int /\ SumFunction(g) \in Int
  BY SumFold
<1>6. QED
  BY <1>3, <1>4, <1>5

LEMMA SumZero ==
  ASSUME NEW f \in [Requests -> Int], \A q \in Requests : f[q] = 0
  PROVE  SumFunction(f) = 0
<1>1. SumFunction(f) = SumFunction(f) + SumFunction(f)
  BY SumPlus
<1>2. SumFunction(f) \in Int
  BY SumFold
<1>3. \A n \in Int : n = n + n => n = 0
  OBVIOUS
<1>4. QED
  BY <1>1, <1>2, <1>3, Zenon

-----------------------------------------------------------------------------
(* Steps of one request *)

\* A request's terms are numbers.
LEMMA TermTypes ==
  ASSUME TypeOK
  PROVE  /\ Shares \in [Requests -> Nat] /\ Takens \in [Requests -> Nat]
         /\ Spents \in [Requests -> Nat] /\ Passeds \in [Requests -> Nat]
         /\ Unpaids \in [Requests -> Int]
         /\ \A r \in Requests : Charge(r) \in Nat /\ Covered(r) \in Nat /\ amount[r] \in Nat
<1>1. \A r \in Requests : Charge(r) \in Nat /\ amount[r] \in Nat
  BY DEF TypeOK, Charge
<1>2. \A r \in Requests : Covered(r) \in Nat
  BY <1>1 DEF Covered
<1>3. QED
  BY <1>1, <1>2 DEF Shares, Share, Takens, Taken, Spents, Spent, Passeds, Passed, Unpaids, Unpaid

LEMMA TermTypesNext ==
  ASSUME TypeOK'
  PROVE  /\ Shares' \in [Requests -> Nat] /\ Takens' \in [Requests -> Nat]
         /\ Spents' \in [Requests -> Nat] /\ Passeds' \in [Requests -> Nat]
         /\ Unpaids' \in [Requests -> Int]
         /\ \A r \in Requests : Charge(r)' \in Nat /\ Covered(r)' \in Nat /\ amount'[r] \in Nat
<1>1. \A r \in Requests : Charge(r)' \in Nat /\ amount'[r] \in Nat
  BY DEF TypeOK, Charge
<1>2. \A r \in Requests : Covered(r)' \in Nat
  BY <1>1 DEF Covered
<1>3. QED
  BY <1>1, <1>2 DEF Shares, Share, Takens, Taken, Spents, Spent, Passeds, Passed, Unpaids, Unpaid

\* A step that leaves the other requests alone.
OnlyAt(r) ==
  \A q \in Requests \ {r} :
    /\ pc'[q] = pc[q] /\ rows'[q] = rows[q] /\ amount'[q] = amount[q] /\ snap'[q] = snap[q]
    /\ q \in consumers' <=> q \in consumers

\* It changes each sum by the request's own term.
LEMMA SumsChange ==
  ASSUME TypeOK, TypeOK', NEW r \in Requests, OnlyAt(r)
  PROVE  /\ SumFunction(Shares) \in Int /\ SumFunction(Shares)' = SumFunction(Shares) + Share(r)' - Share(r)
         /\ SumFunction(Unpaids) \in Int /\ SumFunction(Unpaids)' = SumFunction(Unpaids) + Unpaid(r)' - Unpaid(r)
         /\ SumFunction(Takens) \in Int /\ SumFunction(Takens)' = SumFunction(Takens) + Taken(r)' - Taken(r)
         /\ SumFunction(Spents) \in Int /\ SumFunction(Spents)' = SumFunction(Spents) + Spent(r)' - Spent(r)
         /\ SumFunction(Passeds) \in Int /\ SumFunction(Passeds)' = SumFunction(Passeds) + Passed(r)' - Passed(r)
<1>1. ASSUME NEW q \in Requests \ {r}
      PROVE  /\ Share(q)' = Share(q) /\ Unpaid(q)' = Unpaid(q) /\ Taken(q)' = Taken(q)
             /\ Spent(q)' = Spent(q) /\ Passed(q)' = Passed(q)
  BY DEF OnlyAt, Share, Unpaid, Taken, Spent, Passed, Charge, Covered, InAccount
<1>2. /\ Shares \in [Requests -> Int] /\ Shares' \in [Requests -> Int]
      /\ Takens \in [Requests -> Int] /\ Takens' \in [Requests -> Int]
      /\ Spents \in [Requests -> Int] /\ Spents' \in [Requests -> Int]
      /\ Passeds \in [Requests -> Int] /\ Passeds' \in [Requests -> Int]
      /\ Unpaids \in [Requests -> Int] /\ Unpaids' \in [Requests -> Int]
  BY TermTypes, TermTypesNext
<1>3. \A q \in Requests :
        /\ Shares[q] = Share(q) /\ Shares'[q] = Share(q)'
        /\ Takens[q] = Taken(q) /\ Takens'[q] = Taken(q)'
        /\ Spents[q] = Spent(q) /\ Spents'[q] = Spent(q)'
        /\ Passeds[q] = Passed(q) /\ Passeds'[q] = Passed(q)'
        /\ Unpaids[q] = Unpaid(q) /\ Unpaids'[q] = Unpaid(q)'
  BY DEF Shares, Takens, Spents, Passeds, Unpaids
<1>4. ASSUME NEW f \in [Requests -> Int], NEW g \in [Requests -> Int],
             \A q \in Requests \ {r} : g[q] = f[q]
      PROVE  SumFunction(f) \in Int /\ SumFunction(g) = SumFunction(f) + g[r] - f[r]
  BY <1>4, SumChange
<1>5. /\ SumFunction(Shares) \in Int
      /\ SumFunction(Shares') = SumFunction(Shares) + Shares'[r] - Shares[r]
  <2>1. \A q \in Requests \ {r} : Shares'[q] = Shares[q]
    BY <1>1, <1>3
  <2>2. Shares \in [Requests -> Int] /\ Shares' \in [Requests -> Int]
    BY <1>2
  <2>3. QED
    BY <1>4, <2>1, <2>2
<1>6. /\ SumFunction(Unpaids) \in Int
      /\ SumFunction(Unpaids') = SumFunction(Unpaids) + Unpaids'[r] - Unpaids[r]
  <2>1. \A q \in Requests \ {r} : Unpaids'[q] = Unpaids[q]
    BY <1>1, <1>3
  <2>2. Unpaids \in [Requests -> Int] /\ Unpaids' \in [Requests -> Int]
    BY <1>2
  <2>3. QED
    BY <1>4, <2>1, <2>2
<1>7. /\ SumFunction(Takens) \in Int
      /\ SumFunction(Takens') = SumFunction(Takens) + Takens'[r] - Takens[r]
  <2>1. \A q \in Requests \ {r} : Takens'[q] = Takens[q]
    BY <1>1, <1>3
  <2>2. Takens \in [Requests -> Int] /\ Takens' \in [Requests -> Int]
    BY <1>2
  <2>3. QED
    BY <1>4, <2>1, <2>2
<1>8. /\ SumFunction(Spents) \in Int
      /\ SumFunction(Spents') = SumFunction(Spents) + Spents'[r] - Spents[r]
  <2>1. \A q \in Requests \ {r} : Spents'[q] = Spents[q]
    BY <1>1, <1>3
  <2>2. Spents \in [Requests -> Int] /\ Spents' \in [Requests -> Int]
    BY <1>2
  <2>3. QED
    BY <1>4, <2>1, <2>2
<1>9. /\ SumFunction(Passeds) \in Int
      /\ SumFunction(Passeds') = SumFunction(Passeds) + Passeds'[r] - Passeds[r]
  <2>1. \A q \in Requests \ {r} : Passeds'[q] = Passeds[q]
    BY <1>1, <1>3
  <2>2. Passeds \in [Requests -> Int] /\ Passeds' \in [Requests -> Int]
    BY <1>2
  <2>3. QED
    BY <1>4, <2>1, <2>2
<1>10. QED
  BY <1>3, <1>5, <1>6, <1>7, <1>8, <1>9

\* A step of one request keeps the invariant if the ledger follows its share,
\* what dead requests lack stays accounted for, the window follows what it
\* added, and what it is newly granted fits.
Fits(r) ==
  /\ intact => Taken(r)' <= Taken(r)
       \/ Prior + SumFunction(Takens) + Taken(r)' - Taken(r) <= Limit
  /\ intact => Passed(r)' <= Passed(r)
       \/ SumFunction(Passeds) + Passed(r)' - Passed(r) <= WindowLimit

LEMMA StepKeeps ==
  ASSUME IInv, TypeOK', NEW r \in Requests, OnlyAt(r), Stage(r)', Missing',
         intact' = intact,
         intact /\ present' => present,
         intact => ledger' = ledger + Share(r)' - Share(r) + stray' - stray,
         stray' - stray >= Unpaid(r)' - Unpaid(r),
         intact => spent' = spent + Spent(r)' - Spent(r),
         Fits(r)
  PROVE  IInv'
<1> USE DEF IInv
<1>1. Stages'
  <2>1. \A q \in Requests \ {r} : Stage(q)'
    BY DEF Stages, Stage, OnlyAt, Charge, NoRow
  <2>2. QED
    BY <2>1 DEF Stages
<1>2. /\ ledger \in Int /\ stray \in Int /\ spent \in Int
      /\ ledger' \in Int /\ stray' \in Int /\ spent' \in Int
      /\ Prior \in Int /\ Limit \in Int /\ WindowLimit \in Int
  BY LimitsAssumption, PriorAssumption DEF TypeOK
<1>3. /\ Share(r) \in Int /\ Share(r)' \in Int /\ Unpaid(r) \in Int /\ Unpaid(r)' \in Int
      /\ Taken(r) \in Int /\ Taken(r)' \in Int /\ Spent(r) \in Int /\ Spent(r)' \in Int
      /\ Passed(r) \in Int /\ Passed(r)' \in Int
  BY TermTypes, TermTypesNext DEF Share, Unpaid, Taken, Spent, Passed
<1>4. LedgerExact'
  <2>1. SumFunction(Shares) \in Int /\ SumFunction(Shares)' = SumFunction(Shares) + Share(r)' - Share(r)
    BY SumsChange
  <2>2. present /\ intact => ledger = Prior + SumFunction(Shares) + stray
    BY DEF LedgerExact, Shares
  <2>3. present' /\ intact' => ledger' = Prior + SumFunction(Shares)' + stray'
    BY <1>2, <1>3, <2>1, <2>2
  <2>4. QED
    BY <2>3 DEF LedgerExact, Shares
<1>5. StrayBounded'
  BY <1>2, <1>3, SumsChange DEF StrayBounded
<1>6. Granted'
  BY <1>2, <1>3, SumsChange DEF Granted, Fits
<1>7. WindowExact'
  BY <1>2, <1>3, SumsChange DEF WindowExact
<1>8. WindowHeld'
  BY <1>2, <1>3, SumsChange DEF WindowHeld, Fits
<1>9. QED
  BY <1>1, <1>4, <1>5, <1>6, <1>7, <1>8

\* A step that changes no amount anywhere.
LEMMA QuietStep ==
  ASSUME IInv, TypeOK', NEW r \in Requests, OnlyAt(r), Stage(r)', Missing',
         intact' = intact, intact /\ present' => present,
         ledger' = ledger, stray' = stray, spent' = spent,
         Share(r)' = Share(r), Unpaid(r)' = Unpaid(r), Taken(r)' = Taken(r),
         Spent(r)' = Spent(r), Passed(r)' = Passed(r)
  PROVE  IInv'
<1>1. /\ ledger \in Int /\ stray \in Int /\ spent \in Int
      /\ Share(r) \in Int /\ Unpaid(r) \in Int /\ Taken(r) \in Int
      /\ Spent(r) \in Int /\ Passed(r) \in Int
  BY TermTypes DEF IInv, TypeOK, Share, Unpaid, Taken, Spent, Passed
<1>2. Fits(r)
  BY <1>1 DEF Fits
<1>3. /\ ledger' = ledger + Share(r)' - Share(r) + stray' - stray
      /\ stray' - stray >= Unpaid(r)' - Unpaid(r)
      /\ spent' = spent + Spent(r)' - Spent(r)
  BY <1>1
<1>4. QED
  BY <1>2, <1>3, StepKeeps

\* An intact ledger has its key from a request's increment on.
LEMMA MissingNext ==
  ASSUME IInv, NEW r \in Requests, pc[r] \in {"reserve"} \cup Holding,
         intact' = intact, present' \/ present' = present
  PROVE  Missing' /\ (intact => present)
BY DEF IInv, Missing

\* The sum of the rows' charges.
LEMMA UsageType ==
  ASSUME TypeOK
  PROVE  DurableUsage \in Nat
<1>1. [r \in Requests |-> Charge(r)] \in [Requests -> Nat]
  BY DEF TypeOK, Charge
<1>2. QED
  BY <1>1, SumNat, PriorAssumption, LimitsAssumption DEF DurableUsage

-----------------------------------------------------------------------------
(* The actions *)

LEMMA BeginIInv ==
  ASSUME IInv, NEW r \in Requests, Begin(r)
  PROVE  IInv'
<1>1. PICK a \in Amounts :
        \/ a > RequestCap /\ Goto(r, "refused") /\ UNCHANGED amount
        \/ /\ a <= RequestCap
           /\ amount' = [amount EXCEPT ![r] = a]
           /\ Goto(r, IF present THEN "reserve" ELSE "sum")
  BY DEF Begin
<1>2. /\ pc[r] = "idle" /\ pc' = [pc EXCEPT ![r] = pc'[r]]
      /\ pc'[r] \in {"refused", "reserve", "sum"} /\ (pc'[r] = "reserve" => present)
      /\ amount' = [amount EXCEPT ![r] = amount'[r]] /\ amount'[r] \in Nat
      /\ (pc'[r] # "refused" => amount'[r] \in Amounts)
      /\ UNCHANGED <<ledger, present, spent, consumers, crashes, losses, stray, intact, rows, snap>>
  BY <1>1, AmountsAssumption
     DEF Begin, Goto, IInv, TypeOK, Phases, ledgerVars, windowVars, faultVars
<1>3. TypeOK'
  BY <1>2 DEF IInv, TypeOK, Phases, Syncing, Over
<1>4. OnlyAt(r)
  BY <1>2 DEF IInv, TypeOK, OnlyAt
<1>5. Stage(r)'
  BY <1>2 DEF IInv, Stages, Stage, Rowless, Syncing, Charge, NoRow
<1>6. Missing'
  <2>1. DurableUsage' = DurableUsage
    BY <1>2 DEF DurableUsage, Charge
  <2>2. QED
    BY <1>2, <1>4, <2>1 DEF IInv, Missing, OnlyAt, Holding
<1>7. /\ Share(r)' = Share(r) /\ Unpaid(r)' = Unpaid(r) /\ Spent(r)' = Spent(r)
      /\ Taken(r)' = Taken(r) /\ Passed(r)' = Passed(r)
  BY <1>2 DEF IInv, Stages, Stage, Rowless, Syncing, Share, Unpaid, Spent, Taken, Passed, Charge,
              InAccount, Holding, NoRow
<1>8. QED
  BY <1>2, <1>3, <1>4, <1>5, <1>6, <1>7, QuietStep

LEMMA ReadRowsIInv ==
  ASSUME IInv, NEW r \in Requests, ReadRows(r)
  PROVE  IInv'
<1>1. /\ pc[r] = "sum" /\ pc' = [pc EXCEPT ![r] = "set"]
      /\ snap' = [snap EXCEPT ![r] = DurableUsage] /\ DurableUsage \in Nat
      /\ UNCHANGED <<ledger, present, spent, consumers, crashes, losses, stray, intact, rows, amount>>
  BY UsageType DEF ReadRows, Goto, IInv, ledgerVars, windowVars, faultVars
<1>2. TypeOK'
  BY <1>1 DEF IInv, TypeOK, Phases, Syncing
<1>3. OnlyAt(r)
  BY <1>1 DEF IInv, TypeOK, OnlyAt
<1>4. Stage(r)' /\ rows[r] = NoRow
  BY <1>1 DEF IInv, TypeOK, Stages, Stage, Rowless, Syncing, Charge, NoRow
<1>5. Missing'
  <2>1. DurableUsage' = DurableUsage
    BY <1>1 DEF DurableUsage, Charge
  <2>2. QED
    BY <1>1, <1>3, <2>1 DEF IInv, TypeOK, Missing, OnlyAt, Holding
<1>6. /\ Share(r)' = Share(r) /\ Unpaid(r)' = Unpaid(r) /\ Spent(r)' = Spent(r)
      /\ Taken(r)' = Taken(r) /\ Passed(r)' = Passed(r)
  BY <1>1, <1>4 DEF IInv, TypeOK, Share, Unpaid, Spent, Taken, Passed, Charge, InAccount, Holding,
              NoRow
<1>7. QED
  BY <1>1, <1>2, <1>3, <1>4, <1>5, <1>6, QuietStep

\* What the ledger holds is enough for all that was granted.
LEMMA LedgerCovers ==
  ASSUME IInv
  PROVE  SumFunction(Takens) <= SumFunction(Shares) + stray
<1> DEFINE h == [r \in Requests |-> Share(r) + Unpaid(r)]
<1>1. /\ Shares \in [Requests -> Int] /\ Unpaids \in [Requests -> Int]
      /\ Takens \in [Requests -> Int]
      /\ \A r \in Requests : Charge(r) \in Nat /\ amount[r] \in Nat
  BY TermTypes DEF IInv
<1>2. h \in [Requests -> Int] /\ \A r \in Requests : h[r] = Shares[r] + Unpaids[r]
  BY <1>1 DEF Shares, Unpaids
<1>3. ASSUME NEW r \in Requests PROVE Takens[r] <= h[r]
  <2>1. Stage(r) /\ Charge(r) \in Nat /\ amount[r] \in Nat /\ pc[r] \in Phases
        /\ rows[r].status \in Statuses
    BY <1>1 DEF IInv, Stages, TypeOK
  <2>2. Taken(r) <= Share(r) + Unpaid(r)
    BY <2>1 DEF Taken, Share, Unpaid, Stage, Covered, InAccount, Holding, Phases, Over, Statuses,
                Rowless, Syncing, NoRow
  <2>3. QED
    BY <2>2 DEF Takens
<1> HIDE DEF h
<1>4. SumFunction(h) = SumFunction(Shares) + SumFunction(Unpaids)
  BY <1>1, <1>2, SumPlus
<1>5. SumFunction(Takens) <= SumFunction(h)
  BY <1>1, <1>2, <1>3, SumLeq
<1>6. SumFunction(Shares) \in Int /\ SumFunction(Unpaids) \in Int /\ SumFunction(Takens) \in Int
  BY <1>1, SumInt
<1>7. stray >= SumFunction(Unpaids) /\ stray \in Int
  BY DEF IInv, StrayBounded, TypeOK
<1>8. QED
  BY <1>4, <1>5, <1>6, <1>7

LEMMA RebuildIInv ==
  ASSUME IInv, NEW r \in Requests, Rebuild(r)
  PROVE  IInv'
<1>1. /\ pc[r] = "set" /\ pc' = [pc EXCEPT ![r] = "reserve"]
      /\ snap' = [snap EXCEPT ![r] = 0]
      /\ ledger' = snap[r] /\ snap[r] \in Nat /\ present'
      /\ intact' = (intact /\ (present => ledger = snap[r]))
      /\ UNCHANGED <<spent, consumers, crashes, losses, stray, rows, amount>>
  BY DEF Rebuild, Goto, IInv, TypeOK, windowVars
<1>2. TypeOK'
  BY <1>1 DEF IInv, TypeOK, Phases, Syncing
<1>3. \A q \in Requests :
        /\ Share(q)' = Share(q) /\ Unpaid(q)' = Unpaid(q) /\ Spent(q)' = Spent(q)
        /\ Taken(q)' = Taken(q) /\ Passed(q)' = Passed(q)
  BY <1>1 DEF IInv, TypeOK, Share, Unpaid, Spent, Taken, Passed, Charge, Covered, InAccount, Holding
<1>4. /\ Shares' = Shares /\ Unpaids' = Unpaids /\ Spents' = Spents /\ Takens' = Takens
      /\ Passeds' = Passeds
  BY <1>3 DEF Shares, Unpaids, Spents, Takens, Passeds
<1>5. Stages'
  BY <1>1 DEF IInv, TypeOK, Stages, Stage, Rowless, Syncing, Charge, NoRow
<1>6. Missing'
  BY <1>1 DEF Missing
<1>7. LedgerExact'
  <2>1. SUFFICES ASSUME intact' PROVE ledger' = Prior + SumFunction(Shares) + stray
    BY <1>1, <1>4 DEF LedgerExact, Shares
  <2>2. CASE present
    BY <1>1, <2>1, <2>2 DEF IInv, LedgerExact, Shares
  <2>3. CASE ~present
    <3>1. stray = 0 /\ snap[r] = DurableUsage /\ \A q \in Requests : pc[q] \notin Holding
      BY <1>1, <2>1, <2>3 DEF IInv, Missing
    <3>2. Shares = [q \in Requests |-> Charge(q)]
      BY <3>1 DEF Shares, Share
    <3>3. SumFunction(Shares) \in Int /\ Prior \in Int
      BY SumInt, TermTypes, PriorAssumption, LimitsAssumption DEF IInv
    <3>4. QED
      BY <1>1, <3>1, <3>2, <3>3 DEF DurableUsage
  <2>4. QED
    BY <2>2, <2>3
<1>8. StrayBounded' /\ Granted' /\ WindowExact' /\ WindowHeld'
  BY <1>1, <1>4 DEF IInv, StrayBounded, Granted, WindowExact, WindowHeld
<1>9. QED
  BY <1>2, <1>5, <1>6, <1>7, <1>8 DEF IInv

LEMMA ReserveIInv ==
  ASSUME IInv, NEW r \in Requests, Reserve(r)
  PROVE  IInv'
<1>1. /\ pc[r] = "reserve" /\ pc' = [pc EXCEPT ![r] = pc'[r]]
      /\ pc'[r] = IF ledger + amount[r] > Limit THEN "rollback" ELSE "window"
      /\ ledger' = ledger + amount[r] /\ present' = TRUE
      /\ UNCHANGED <<spent, consumers, crashes, losses, stray, intact, rows, amount, snap>>
  BY DEF Reserve, Goto, Incr, IInv, TypeOK, windowVars, faultVars
<1>2. /\ rows[r] = NoRow /\ Charge(r) = 0 /\ r \notin consumers
      /\ amount[r] \in Nat /\ ledger \in Int /\ stray \in Int /\ spent \in Int
  BY <1>1 DEF IInv, TypeOK, Stages, Stage, Rowless, Syncing, NoRow, Charge
<1>3. TypeOK'
  BY <1>1, <1>2 DEF IInv, TypeOK, Phases, Holding
<1>4. OnlyAt(r)
  BY <1>1 DEF IInv, TypeOK, OnlyAt
<1>5. Stage(r)'
  BY <1>1, <1>2 DEF IInv, Stages, Stage, Rowless, Syncing, Charge, NoRow
<1>6. Missing' /\ (intact => present)
  BY <1>1, MissingNext
<1>7. /\ Share(r)' = amount[r] /\ Share(r) = 0
      /\ Unpaid(r)' = 0 /\ Unpaid(r) = 0 /\ Spent(r)' = 0 /\ Spent(r) = 0
      /\ Passed(r)' = 0 /\ Passed(r) = 0
      /\ Taken(r) = 0 /\ Taken(r)' = IF pc'[r] = "window" THEN amount[r] ELSE 0
  BY <1>1, <1>2 DEF Share, Unpaid, Spent, Taken, Passed, Charge, InAccount, Holding, NoRow
<1>8. Fits(r)
  <2>1. SUFFICES ASSUME intact, pc'[r] = "window"
                 PROVE  Prior + SumFunction(Takens) + amount[r] <= Limit
    BY <1>2, <1>7 DEF Fits
  <2>2. ledger = Prior + SumFunction(Shares) + stray
    BY <1>6, <2>1 DEF IInv, LedgerExact, Shares
  <2>3. SumFunction(Takens) <= SumFunction(Shares) + stray
    BY LedgerCovers
  <2>4. SumFunction(Takens) \in Int /\ SumFunction(Shares) \in Int
    BY <1>3, <1>4, SumsChange DEF IInv
  <2>5. ledger + amount[r] <= Limit /\ Prior \in Int /\ Limit \in Int
    BY <1>1, <1>2, <2>1, LimitsAssumption, PriorAssumption
  <2>6. QED
    BY <1>2, <2>2, <2>3, <2>4, <2>5
<1>9. /\ ledger' = ledger + Share(r)' - Share(r) + stray' - stray
      /\ stray' - stray >= Unpaid(r)' - Unpaid(r)
      /\ spent' = spent + Spent(r)' - Spent(r)
  BY <1>1, <1>2, <1>7
<1>10. QED
  BY <1>1, <1>3, <1>4, <1>5, <1>6, <1>8, <1>9, StepKeeps

\* A refused request gives back what it had reserved.
LEMMA GiveBack ==
  ASSUME IInv, NEW r \in Requests, pc[r] \in {"rollback", "release"},
         pc' = [pc EXCEPT ![r] = "refused"], amount' = [amount EXCEPT ![r] = 0],
         ledger' = ledger - amount[r],
         present' \in BOOLEAN, ~present' => ledger' = 0,
         present' = present \/ present' = TRUE,
         UNCHANGED <<spent, consumers, crashes, losses, stray, intact, rows, snap>>
  PROVE  IInv'
<1>1. /\ rows[r] = NoRow /\ Charge(r) = 0 /\ r \notin consumers
      /\ amount[r] \in Nat /\ ledger \in Int /\ stray \in Int /\ spent \in Int
  BY DEF IInv, TypeOK, Stages, Stage, Rowless, Syncing, NoRow, Charge
<1>2. TypeOK'
  BY <1>1 DEF IInv, TypeOK, Phases, Over
<1>3. OnlyAt(r)
  BY DEF IInv, TypeOK, OnlyAt
<1>4. Stage(r)'
  BY <1>1 DEF IInv, TypeOK, Stages, Stage, Rowless, Syncing, Charge, NoRow
<1>5. Missing' /\ (intact => present)
  BY MissingNext DEF Holding
<1>6. /\ Share(r)' = 0 /\ Share(r) = amount[r]
      /\ Unpaid(r)' = 0 /\ Unpaid(r) = 0 /\ Spent(r)' = 0 /\ Spent(r) = 0
      /\ Passed(r)' = 0 /\ Passed(r) = 0 /\ Taken(r) = 0 /\ Taken(r)' = 0
  BY <1>1 DEF IInv, TypeOK, Share, Unpaid, Spent, Taken, Passed, Charge, InAccount, Holding, NoRow
<1>7. Fits(r)
  BY <1>6 DEF Fits
<1>8. /\ ledger' = ledger + Share(r)' - Share(r) + stray' - stray
      /\ stray' - stray >= Unpaid(r)' - Unpaid(r)
      /\ spent' = spent + Spent(r)' - Spent(r)
  BY <1>1, <1>6
<1>9. QED
  BY <1>2, <1>3, <1>4, <1>5, <1>7, <1>8, StepKeeps

LEMMA RollbackIInv ==
  ASSUME IInv, NEW r \in Requests, Rollback(r)
  PROVE  IInv'
<1>1. /\ pc[r] = "rollback" /\ pc' = [pc EXCEPT ![r] = "refused"]
      /\ ledger' = ledger - amount[r] /\ present' = TRUE
      /\ amount' = [amount EXCEPT ![r] = 0]
      /\ UNCHANGED <<spent, consumers, crashes, losses, stray, intact, rows, snap>>
  BY DEF Rollback, Goto, Incr, IInv, TypeOK, windowVars, faultVars
<1>2. QED
  BY <1>1, GiveBack

LEMMA AdjustFact ==
  ASSUME TypeOK, NEW delta \in Int, AdjustBy(delta)
  PROVE  /\ ledger' = ledger + delta /\ present' \in BOOLEAN /\ (~present' => ledger' = 0)
         /\ present' = present \/ present' = TRUE
<1>1. ledger \in Int /\ present \in BOOLEAN /\ (~present => ledger = 0)
  BY DEF TypeOK
<1>2. CASE delta = 0
  BY <1>1, <1>2 DEF AdjustBy, ledgerVars
<1>3. CASE delta # 0
  BY <1>1, <1>3 DEF AdjustBy, Incr
<1>4. QED
  BY <1>2, <1>3

LEMMA ReleaseRefusedIInv ==
  ASSUME IInv, NEW r \in Requests, ReleaseRefused(r)
  PROVE  IInv'
<1>1. amount[r] \in Nat /\ ledger \in Int
  BY DEF IInv, TypeOK
<1>2. /\ ledger' = ledger - amount[r] /\ present' \in BOOLEAN /\ (~present' => ledger' = 0)
      /\ present' = present \/ present' = TRUE
  <2>1. AdjustBy(-amount[r]) /\ -amount[r] \in Int
    BY <1>1 DEF ReleaseRefused
  <2>2. QED
    BY <1>1, <2>1, AdjustFact DEF IInv
<1>3. /\ pc[r] = "release" /\ pc' = [pc EXCEPT ![r] = "refused"]
      /\ amount' = [amount EXCEPT ![r] = 0]
      /\ UNCHANGED <<spent, consumers, crashes, losses, stray, intact, rows, snap>>
  BY DEF ReleaseRefused, Goto, windowVars, faultVars
<1>4. QED
  BY <1>2, <1>3, GiveBack

LEMMA ConsumeIInv ==
  ASSUME IInv, NEW r \in Requests, Consume(r)
  PROVE  IInv'
<1>1. /\ pc[r] = "window" /\ pc' = [pc EXCEPT ![r] = pc'[r]]
      /\ pc'[r] = IF spent + amount[r] > WindowLimit THEN "unspend" ELSE "insert"
      /\ spent' = spent + amount[r] /\ consumers' = consumers \cup {r}
      /\ UNCHANGED <<ledger, present, crashes, losses, stray, intact, rows, amount, snap>>
  BY DEF Consume, Goto, IInv, TypeOK, ledgerVars, faultVars
<1>2. /\ rows[r] = NoRow /\ Charge(r) = 0 /\ r \notin consumers
      /\ amount[r] \in Nat /\ ledger \in Int /\ stray \in Int /\ spent \in Int
  BY <1>1 DEF IInv, TypeOK, Stages, Stage, Rowless, Syncing, NoRow, Charge
<1>3. TypeOK'
  BY <1>1, <1>2 DEF IInv, TypeOK, Phases, Holding
<1>4. OnlyAt(r)
  BY <1>1 DEF IInv, TypeOK, OnlyAt
<1>5. Stage(r)'
  BY <1>1, <1>2 DEF IInv, Stages, Stage, Rowless, Syncing, Charge, NoRow
<1>6. Missing' /\ (intact => present)
  BY <1>1, MissingNext DEF Holding
<1>7. /\ Share(r)' = amount[r] /\ Share(r) = amount[r]
      /\ Unpaid(r)' = 0 /\ Unpaid(r) = 0 /\ Spent(r)' = amount[r] /\ Spent(r) = 0
      /\ Passed(r)' = (IF pc'[r] = "insert" THEN amount[r] ELSE 0) /\ Passed(r) = 0
      /\ Taken(r) = amount[r] /\ Taken(r)' = IF pc'[r] = "insert" THEN amount[r] ELSE 0
  BY <1>1, <1>2 DEF Share, Unpaid, Spent, Taken, Passed, Charge, InAccount, Holding, NoRow
<1>8. Fits(r)
  <2>1. SUFFICES ASSUME intact, pc'[r] = "insert"
                 PROVE  SumFunction(Passeds) + amount[r] <= WindowLimit
    BY <1>2, <1>7 DEF Fits
  <2>2. spent = SumFunction(Spents)
    BY <2>1 DEF IInv, WindowExact
  <2>3. SumFunction(Passeds) <= SumFunction(Spents)
    <3>1. \A q \in Requests : Passeds[q] <= Spents[q]
      BY TermTypes DEF IInv, Passeds, Spents, Passed, Spent
    <3>2. QED
      BY <3>1, SumLeq, TermTypes DEF IInv
  <2>4. SumFunction(Passeds) \in Int /\ SumFunction(Spents) \in Int /\ WindowLimit \in Int
    BY <1>3, <1>4, SumsChange, LimitsAssumption DEF IInv
  <2>5. QED
    BY <1>1, <1>2, <2>1, <2>2, <2>3, <2>4
<1>9. /\ ledger' = ledger + Share(r)' - Share(r) + stray' - stray
      /\ stray' - stray >= Unpaid(r)' - Unpaid(r)
      /\ spent' = spent + Spent(r)' - Spent(r)
  BY <1>1, <1>2, <1>7
<1>10. QED
  BY <1>1, <1>3, <1>4, <1>5, <1>6, <1>8, <1>9, StepKeeps

LEMMA UnspendIInv ==
  ASSUME IInv, NEW r \in Requests, Unspend(r)
  PROVE  IInv'
<1>1. /\ pc[r] = "unspend" /\ pc' = [pc EXCEPT ![r] = "release"]
      /\ spent' = (IF r \in consumers THEN spent - amount[r] ELSE spent)
      /\ consumers' = consumers \ {r}
      /\ UNCHANGED <<ledger, present, crashes, losses, stray, intact, rows, amount, snap>>
  BY DEF Unspend, Goto, IInv, TypeOK, ledgerVars, faultVars
<1>2. /\ rows[r] = NoRow /\ Charge(r) = 0
      /\ amount[r] \in Nat /\ ledger \in Int /\ stray \in Int /\ spent \in Int
  BY <1>1 DEF IInv, TypeOK, Stages, Stage, Rowless, Syncing, NoRow, Charge
<1>3. TypeOK'
  BY <1>1, <1>2 DEF IInv, TypeOK, Phases, Holding
<1>4. OnlyAt(r)
  BY <1>1 DEF IInv, TypeOK, OnlyAt
<1>5. Stage(r)'
  BY <1>1, <1>2 DEF IInv, Stages, Stage, Rowless, Syncing, Charge, NoRow
<1>6. Missing' /\ (intact => present)
  BY <1>1, MissingNext DEF Holding
<1>7. /\ Share(r)' = amount[r] /\ Share(r) = amount[r]
      /\ Unpaid(r)' = 0 /\ Unpaid(r) = 0
      /\ Spent(r)' = 0 /\ Spent(r) = (IF r \in consumers THEN amount[r] ELSE 0)
      /\ Passed(r)' = 0 /\ Passed(r) = 0 /\ Taken(r) = 0 /\ Taken(r)' = 0
  BY <1>1, <1>2 DEF Share, Unpaid, Spent, Taken, Passed, Charge, InAccount, Holding, NoRow
<1>8. Fits(r)
  BY <1>7 DEF Fits
<1>9. /\ ledger' = ledger + Share(r)' - Share(r) + stray' - stray
      /\ stray' - stray >= Unpaid(r)' - Unpaid(r)
      /\ spent' = spent + Spent(r)' - Spent(r)
  BY <1>1, <1>2, <1>7
<1>10. QED
  BY <1>1, <1>3, <1>4, <1>5, <1>6, <1>8, <1>9, StepKeeps

LEMMA InsertIInv ==
  ASSUME IInv, NEW r \in Requests, Insert(r)
  PROVE  IInv'
<1>1. /\ pc[r] = "insert" /\ pc' = [pc EXCEPT ![r] = "upstream"]
      /\ rows' = [rows EXCEPT ![r] = [status |-> "RESERVED", charge |-> amount[r]]]
      /\ UNCHANGED <<ledger, present, spent, consumers, crashes, losses, stray, intact, amount, snap>>
  BY DEF Insert, Goto, ledgerVars, windowVars, faultVars
<1>2. /\ rows[r] = NoRow /\ amount[r] \in Nat /\ amount[r] \in Amounts
      /\ rows'[r] = [status |-> "RESERVED", charge |-> amount[r]]
  BY <1>1 DEF IInv, TypeOK, Stages, Stage, Rowless
<1>3. TypeOK'
  BY <1>1, <1>2 DEF IInv, TypeOK, Phases, Holding, Statuses
<1>4. OnlyAt(r)
  BY <1>1 DEF IInv, TypeOK, OnlyAt
<1>5. Stage(r)'
  BY <1>1, <1>2 DEF IInv, TypeOK, Stages, Stage, Rowless, Syncing, Charge
<1>6. Missing' /\ (intact => present)
  BY <1>1, MissingNext DEF Holding
<1>7. /\ Share(r)' = Share(r) /\ Unpaid(r)' = Unpaid(r) /\ Spent(r)' = Spent(r)
      /\ Taken(r)' = Taken(r) /\ Passed(r)' = Passed(r)
  BY <1>1, <1>2 DEF IInv, TypeOK, Share, Unpaid, Spent, Taken, Passed, Charge, Covered, InAccount,
                    Holding, NoRow
<1>8. QED
  BY <1>1, <1>3, <1>4, <1>5, <1>6, <1>7, QuietStep

LEMMA SettleIInv ==
  ASSUME IInv, NEW r \in Requests, Settle(r)
  PROVE  IInv'
<1>1. PICK row \in [status : {"SETTLED", "FAILED"}, charge : Nat] :
        /\ rows' = [rows EXCEPT ![r] = row]
        /\ row.status = "FAILED" => row.charge = 0
  BY AmountsAssumption DEF Settle
<1>2. /\ pc[r] = "upstream" /\ rows[r].status = "RESERVED" /\ pc' = [pc EXCEPT ![r] = "adjust"]
      /\ UNCHANGED <<ledger, present, spent, consumers, crashes, losses, stray, intact, amount, snap>>
  BY DEF Settle, Goto, ledgerVars, windowVars, faultVars
<1>3. /\ rows'[r] = row /\ amount[r] \in Nat /\ amount[r] \in Amounts /\ Charge(r) = amount[r]
      /\ row.status \in {"SETTLED", "FAILED"} /\ row.charge \in Nat
      /\ ledger \in Int /\ stray \in Int /\ spent \in Int
  BY <1>1, <1>2 DEF IInv, TypeOK, Stages, Stage
<1>4. TypeOK'
  BY <1>1, <1>2 DEF IInv, TypeOK, Phases, Holding, Statuses
<1>5. OnlyAt(r)
  BY <1>1, <1>2 DEF IInv, TypeOK, OnlyAt
<1>6. Stage(r)'
  BY <1>1, <1>2, <1>3 DEF IInv, TypeOK, Stages, Stage, Rowless, Syncing, Charge
<1>7. Missing' /\ (intact => present)
  BY <1>2, MissingNext DEF Holding
<1>8. /\ Share(r)' = amount[r] /\ Share(r) = amount[r] /\ Unpaid(r)' = 0 /\ Unpaid(r) = 0
      /\ Spent(r)' = Spent(r) /\ Passed(r)' = Passed(r)
      /\ Taken(r) = amount[r] /\ Taken(r)' <= amount[r]
  BY <1>1, <1>2, <1>3 DEF IInv, TypeOK, Share, Unpaid, Spent, Taken, Passed, Charge, Covered,
                    InAccount, Holding
<1>9. Fits(r) /\ Spent(r) \in Nat
  BY <1>3, <1>8 DEF Fits, Spent, Passed
<1>10. /\ ledger' = ledger + Share(r)' - Share(r) + stray' - stray
       /\ stray' - stray >= Unpaid(r)' - Unpaid(r)
       /\ spent' = spent + Spent(r)' - Spent(r)
  BY <1>2, <1>3, <1>8, <1>9
<1>11. QED
  BY <1>2, <1>4, <1>5, <1>6, <1>7, <1>9, <1>10, StepKeeps

LEMMA AdjustIInv ==
  ASSUME IInv, NEW r \in Requests, Adjust(r)
  PROVE  IInv'
<1>0. Charge(r) \in Nat /\ amount[r] \in Nat /\ ledger \in Int /\ stray \in Int /\ spent \in Int
  BY TermTypes DEF IInv, TypeOK
<1>1. /\ pc[r] = "adjust" /\ pc' = [pc EXCEPT ![r] = "done"]
      /\ UNCHANGED <<spent, consumers, crashes, losses, stray, intact, rows, amount, snap>>
      /\ ledger' = ledger + (Charge(r) - amount[r]) /\ present' \in BOOLEAN
      /\ ~present' => ledger' = 0
      /\ present' = present \/ present' = TRUE
  <2>1. AdjustBy(Charge(r) - amount[r])
    BY DEF Adjust
  <2>2. Charge(r) - amount[r] \in Int /\ TypeOK
    BY <1>0 DEF IInv
  <2>3. /\ pc[r] = "adjust" /\ pc' = [pc EXCEPT ![r] = "done"]
        /\ UNCHANGED <<spent, consumers, crashes, losses, stray, intact, rows, amount, snap>>
    BY DEF Adjust, Goto, windowVars, faultVars
  <2>4. QED
    BY <2>1, <2>2, <2>3, AdjustFact
<1>2. rows[r].status \in {"SETTLED", "FAILED"} /\ amount[r] \in Amounts
      /\ (rows[r].status = "FAILED" => Charge(r) = 0)
  <2>1. Stage(r)
    BY DEF IInv, Stages
  <2>2. QED
    BY <1>1, <2>1 DEF Stage
<1>3. TypeOK'
  BY <1>0, <1>1 DEF IInv, TypeOK, Phases, Over
<1>4. OnlyAt(r)
  BY <1>1 DEF IInv, TypeOK, OnlyAt
<1>5. Stage(r)'
  BY <1>1, <1>2 DEF IInv, TypeOK, Stages, Stage, Rowless, Syncing, Charge
<1>6. Missing' /\ (intact => present)
  BY <1>1, MissingNext DEF Holding
<1>7. /\ Share(r)' = Charge(r) /\ Share(r) = amount[r] /\ Unpaid(r)' = 0 /\ Unpaid(r) = 0
      /\ Spent(r)' = Spent(r) /\ Passed(r)' = Passed(r) /\ Taken(r)' = Taken(r)
  BY <1>1, <1>2 DEF IInv, TypeOK, Share, Unpaid, Spent, Taken, Passed, Charge, Covered,
                    InAccount, Holding
<1>8. Fits(r) /\ Spent(r) \in Nat
  BY <1>0, <1>7, TermTypes DEF Fits, Spent, Passed, Taken, IInv
<1>9. /\ ledger' = ledger + Share(r)' - Share(r) + stray' - stray
      /\ stray' - stray >= Unpaid(r)' - Unpaid(r)
      /\ spent' = spent + Spent(r)' - Spent(r)
  BY <1>0, <1>1, <1>7, <1>8
<1>10. QED
  BY <1>1, <1>3, <1>4, <1>5, <1>6, <1>8, <1>9, StepKeeps

LEMMA CrashIInv ==
  ASSUME IInv, NEW r \in Requests, Crash(r)
  PROVE  IInv'
<1>1. /\ pc[r] \in Syncing \cup Holding /\ pc' = [pc EXCEPT ![r] = "dead"]
      /\ crashes' = crashes + 1 /\ crashes < MaxCrashes
      /\ stray' = stray + Share(r) - Charge(r)
      /\ UNCHANGED <<ledger, present, spent, consumers, losses, intact, rows, amount, snap>>
  BY DEF Crash, Busy, Goto, ledgerVars, windowVars
<1>2. /\ Charge(r) \in Nat /\ amount[r] \in Nat /\ Share(r) \in Nat /\ Covered(r) \in Nat
      /\ ledger \in Int /\ stray \in Int /\ spent \in Int
  BY TermTypes DEF IInv, TypeOK, Share
<1>3. TypeOK'
  BY <1>1, <1>2, BoundsAssumption DEF IInv, TypeOK, Phases, Over
<1>4. OnlyAt(r)
  BY <1>1 DEF IInv, TypeOK, OnlyAt
<1>5. Stage(r)'
  BY <1>1 DEF IInv, TypeOK, Stages, Stage, Rowless, Syncing, Holding, Charge
<1>6. Missing'
  <2>1. DurableUsage' = DurableUsage
    BY <1>1 DEF DurableUsage, Charge
  <2>2. ~present /\ intact => Share(r) = Charge(r)
    BY DEF IInv, Missing, Share
  <2>3. QED
    BY <1>1, <1>2, <1>4, <2>1, <2>2 DEF IInv, TypeOK, Missing, OnlyAt, Holding
<1>7. /\ Share(r)' = Charge(r) /\ Unpaid(r)' = Covered(r) - Charge(r) /\ Unpaid(r) = 0
      /\ Covered(r) <= Share(r) /\ Spent(r)' = Spent(r)
  BY <1>1, <1>2 DEF IInv, TypeOK, Share, Unpaid, Spent, Charge, Covered, Holding, Syncing
<1>8. Fits(r)
  <2>1. Taken(r)' <= Taken(r) /\ Passed(r)' <= Passed(r)
    BY <1>1, <1>2 DEF IInv, TypeOK, Taken, Passed, Charge, Covered, InAccount
  <2>2. QED
    BY <2>1 DEF Fits
<1>9. /\ ledger' = ledger + Share(r)' - Share(r) + stray' - stray
      /\ stray' - stray >= Unpaid(r)' - Unpaid(r)
      /\ spent' = spent + Spent(r)' - Spent(r)
  BY <1>1, <1>2, <1>7, TermTypes DEF Spent, IInv
<1>10. QED
  BY <1>1, <1>3, <1>4, <1>5, <1>6, <1>8, <1>9, StepKeeps

-----------------------------------------------------------------------------
(* The window rolls over, and Redis loses its keys *)

\* Where no request is in the window, nothing was spent on it.
LEMMA NobodySpent ==
  ASSUME TypeOK', consumers' = {}
  PROVE  SumFunction(Spents)' = 0 /\ SumFunction(Passeds)' = 0
<1>1. \A q \in Requests : Spents'[q] = 0 /\ Passeds'[q] = 0
  BY DEF Spents, Passeds, Spent, Passed
<1>2. Spents' \in [Requests -> Int] /\ Passeds' \in [Requests -> Int]
  BY TermTypesNext
<1>3. SumFunction(Spents') = 0 /\ SumFunction(Passeds') = 0
  BY <1>1, <1>2, SumZero
<1>4. QED
  BY <1>3

\* The account does not see the keys.
LEMMA SameTerms ==
  ASSUME UNCHANGED <<rows, pc, amount>>
  PROVE  Shares' = Shares /\ Unpaids' = Unpaids /\ Takens' = Takens
BY DEF Shares, Share, Unpaids, Unpaid, Takens, Taken, Charge, Covered, InAccount

LEMMA RollWindowIInv ==
  ASSUME IInv, RollWindow
  PROVE  IInv'
<1>1. /\ spent' = 0 /\ consumers' = {}
      /\ UNCHANGED <<ledger, present, crashes, losses, stray, intact, rows, pc, amount, snap>>
  BY DEF RollWindow, ledgerVars, faultVars
<1>2. TypeOK'
  BY <1>1 DEF IInv, TypeOK
<1>3. Stages'
  BY <1>1 DEF IInv, Stages, Stage, Charge
<1>4. Missing'
  BY <1>1 DEF IInv, Missing, DurableUsage, Charge
<1>5. LedgerExact' /\ StrayBounded' /\ Granted'
  BY <1>1, SameTerms DEF IInv, LedgerExact, Shares, StrayBounded, Granted
<1>6. WindowExact' /\ WindowHeld'
  BY <1>1, <1>2, NobodySpent, LimitsAssumption DEF WindowExact, WindowHeld
<1>7. QED
  BY <1>2, <1>3, <1>4, <1>5, <1>6 DEF IInv

LEMMA LoseKeysIInv ==
  ASSUME IInv, LoseKeys
  PROVE  IInv'
<1>1. /\ losses < MaxLosses /\ losses' = losses + 1
      /\ ledger' = 0 /\ present' = FALSE /\ spent' = 0
      /\ consumers' = {q \in consumers : Busy(q)}
      /\ stray' = 0
      /\ intact' = (intact /\ \A q \in Requests : ~Busy(q))
      /\ UNCHANGED <<rows, pc, amount, snap, crashes>>
  BY DEF LoseKeys
<1>2. TypeOK'
  <2>1. losses' \in 0 .. MaxLosses
    BY <1>1, BoundsAssumption DEF IInv, TypeOK
  <2>2. intact' \in BOOLEAN
    BY <1>1 DEF IInv, TypeOK
  <2>3. consumers' \subseteq Requests
    BY <1>1 DEF IInv, TypeOK
  <2>4. present' = FALSE /\ ledger' = 0 /\ spent' = 0 /\ stray' = 0
        /\ UNCHANGED <<rows, pc, amount, snap, crashes>>
    BY <1>1
  <2>5. /\ ledger' \in Int /\ present' \in BOOLEAN /\ (~present' => ledger' = 0)
        /\ spent' \in Int /\ stray' \in Int
    <3>1. ledger' \in Int /\ spent' \in Int /\ stray' \in Int
      BY <2>4
    <3>2. present' \in BOOLEAN /\ (~present' => ledger' = 0)
      BY Zenon, <2>4
    <3>3. QED
      BY <3>1, <3>2
  <2>6. /\ rows' \in [Requests -> [status : Statuses, charge : Nat]]
        /\ pc' \in [Requests -> Phases] /\ amount' \in [Requests -> Nat]
        /\ snap' \in [Requests -> Nat] /\ crashes' \in 0 .. MaxCrashes
    BY <2>4 DEF IInv, TypeOK
  <2>7. QED
    BY Zenon, <2>1, <2>2, <2>3, <2>5, <2>6 DEF TypeOK
<1>3. Stages'
  BY <1>1 DEF IInv, Stages, Stage, Charge
<1>4. Missing'
  BY <1>1 DEF Missing, Busy, Syncing
<1>5. LedgerExact'
  BY <1>1 DEF LedgerExact
<1>6. StrayBounded'
  <2> DEFINE zero == [q \in Requests |-> 0]
  <2>1. \A q \in Requests : Unpaids[q] <= zero[q]
    BY TermTypes DEF IInv, Unpaids, Unpaid, Covered
  <2>2. zero \in [Requests -> Int] /\ \A q \in Requests : zero[q] = 0
    OBVIOUS
  <2> HIDE DEF zero
  <2>3. SumFunction(Unpaids) <= SumFunction(zero)
    BY <2>1, <2>2, SumLeq, TermTypes DEF IInv
  <2>4. SumFunction(zero) = 0
    BY <2>2, SumZero
  <2>5. SumFunction(Unpaids) \in Int
    BY SumInt, TermTypes DEF IInv
  <2>6. QED
    BY <1>1, <2>3, <2>4, <2>5, SameTerms DEF StrayBounded
<1>7. Granted'
  BY <1>1, SameTerms DEF IInv, Granted
<1>8. WindowExact' /\ WindowHeld'
  <2>1. intact' => consumers' = {}
    BY <1>1 DEF IInv, TypeOK
  <2>2. QED
    BY <1>1, <1>2, <2>1, NobodySpent, LimitsAssumption DEF WindowExact, WindowHeld
<1>9. QED
  BY <1>2, <1>3, <1>4, <1>5, <1>6, <1>7, <1>8 DEF IInv

-----------------------------------------------------------------------------
LEMMA InitIInv == Init => IInv
<1> SUFFICES ASSUME Init PROVE IInv
  OBVIOUS
<1>1. /\ present \in BOOLEAN /\ ledger = (IF present THEN Prior ELSE 0)
      /\ spent = 0 /\ consumers = {} /\ stray = 0 /\ intact = TRUE
      /\ \A r \in Requests : /\ rows[r] = NoRow /\ pc[r] = "idle" /\ amount[r] = 0
                             /\ Charge(r) = 0 /\ Covered(r) = 0
  BY DEF Init, Charge, Covered, NoRow
<1>2. TypeOK
  BY BoundsAssumption, PriorAssumption, LimitsAssumption
     DEF Init, TypeOK, NoRow, Statuses, Phases
<1>3. Stages
  BY <1>1 DEF Stages, Stage, NoRow
<1>4. Missing
  BY <1>1 DEF Missing, Holding
<1>5. \A r \in Requests :
        Shares[r] = 0 /\ Unpaids[r] = 0 /\ Takens[r] = 0 /\ Spents[r] = 0 /\ Passeds[r] = 0
  BY <1>1 DEF Shares, Share, Unpaids, Unpaid, Takens, Taken, Spents, Spent, Passeds, Passed,
              InAccount, Holding, NoRow
<1>6. /\ Shares \in [Requests -> Int] /\ Unpaids \in [Requests -> Int] /\ Takens \in [Requests -> Int]
      /\ Spents \in [Requests -> Int] /\ Passeds \in [Requests -> Int]
  BY <1>2, TermTypes
<1>7. /\ SumFunction(Shares) = 0 /\ SumFunction(Unpaids) = 0 /\ SumFunction(Takens) = 0
      /\ SumFunction(Spents) = 0 /\ SumFunction(Passeds) = 0
  <2>1. SumFunction(Shares) = 0
    BY <1>5, <1>6, SumZero
  <2>2. SumFunction(Unpaids) = 0
    BY <1>5, <1>6, SumZero
  <2>3. SumFunction(Takens) = 0
    BY <1>5, <1>6, SumZero
  <2>4. SumFunction(Spents) = 0
    BY <1>5, <1>6, SumZero
  <2>5. SumFunction(Passeds) = 0
    BY <1>5, <1>6, SumZero
  <2>6. QED
    BY <2>1, <2>2, <2>3, <2>4, <2>5
<1>8. LedgerExact
  BY <1>1, <1>7, PriorAssumption DEF LedgerExact, Shares
<1>9. StrayBounded /\ Granted /\ WindowExact /\ WindowHeld
  BY <1>1, <1>7, PriorAssumption, LimitsAssumption
     DEF StrayBounded, Granted, WindowExact, WindowHeld
<1>10. QED
  BY <1>2, <1>3, <1>4, <1>8, <1>9 DEF IInv

LEMMA StepIInv == IInv /\ [Next]_vars => IInv'
<1> SUFFICES ASSUME IInv, [Next]_vars PROVE IInv'
  OBVIOUS
<1>1. ASSUME NEW r \in Requests,
             \/ Begin(r) \/ ReadRows(r) \/ Rebuild(r) \/ Reserve(r) \/ Rollback(r)
             \/ Consume(r) \/ Unspend(r) \/ ReleaseRefused(r) \/ Insert(r)
             \/ Settle(r) \/ Adjust(r) \/ Crash(r)
      PROVE  IInv'
  BY <1>1, BeginIInv, ReadRowsIInv, RebuildIInv, ReserveIInv, RollbackIInv, ConsumeIInv,
     UnspendIInv, ReleaseRefusedIInv, InsertIInv, SettleIInv, AdjustIInv, CrashIInv
<1>2. CASE UNCHANGED vars
  <2>1. TypeOK' /\ Stages' /\ Missing'
    BY <1>2 DEF vars, IInv, TypeOK, Stages, Stage, Missing, Charge, DurableUsage
  <2>2. LedgerExact' /\ StrayBounded' /\ Granted'
    BY <1>2, SameTerms DEF vars, IInv, LedgerExact, Shares, StrayBounded, Granted
  <2>3. Spents' = Spents /\ Passeds' = Passeds
    BY <1>2 DEF vars, Spents, Spent, Passeds, Passed
  <2>4. QED
    BY <1>2, <2>1, <2>2, <2>3 DEF vars, IInv, WindowExact, WindowHeld
<1>3. QED
  BY <1>1, <1>2, RollWindowIInv, LoseKeysIInv DEF Next

-----------------------------------------------------------------------------
LEMMA SpecIInv == Spec => []IInv
BY InitIInv, StepIInv, PTL DEF Spec

\* Every variable of the ledger keeps its type; a ledger without a key is 0.
THEOREM LedgerTypeCorrect == Spec => []TypeOK
BY SpecIInv, PTL DEF IInv

\* No credit is lost or counted twice between reserve, settle and adjust, with
\* requests dying anywhere between.
THEOREM LedgerIsExact == Spec => []LedgerExact
BY SpecIInv, PTL DEF IInv

\* The durable rows' reserved part never exceeds monthly_credit_limit.
THEOREM LimitHeld == Spec => []NoOverspend
<1>1. IInv => NoOverspend
  <2>1. SUFFICES ASSUME IInv, intact PROVE NeverOverspent
    BY DEF NoOverspend
  <2> DEFINE covereds == [r \in Requests |-> Covered(r)]
  <2>2. covereds \in [Requests -> Int] /\ Takens \in [Requests -> Int]
    BY <2>1, TermTypes DEF IInv
  <2>3. ASSUME NEW r \in Requests PROVE covereds[r] <= Takens[r]
    <3>1. Stage(r) /\ rows[r].status \in Statuses /\ Charge(r) \in Nat /\ amount[r] \in Nat
      BY <2>1, TermTypes DEF IInv, Stages, TypeOK
    <3>2. QED
      BY <3>1 DEF Takens, Taken, Covered, Stage, InAccount, Statuses
  <2> HIDE DEF covereds
  <2>4. /\ SumFunction(covereds) \in Int /\ SumFunction(Takens) \in Int
        /\ SumFunction(covereds) <= SumFunction(Takens)
    BY <2>2, <2>3, SumLeq
  <2>5. Prior + SumFunction(Takens) <= Limit
    BY <2>1 DEF IInv, Granted
  <2>6. QED
    BY <2>4, <2>5, PriorAssumption, LimitsAssumption DEF NeverOverspent, covereds
<1>2. QED
  BY <1>1, SpecIInv, PTL

\* The requests that reach the upstream out of one window reserved at most
\* max_credits_per_window.
THEOREM WindowBudgetHeld == Spec => []WindowWithinBudget
<1>1. IInv => WindowWithinBudget
  <2>1. SUFFICES ASSUME IInv, intact
                 PROVE  SumFunction([r \in Requests |-> Funded(r)]) <= WindowLimit
    BY DEF WindowWithinBudget
  <2> DEFINE fundeds == [r \in Requests |-> Funded(r)]
  <2>2. fundeds \in [Requests -> Int] /\ Passeds \in [Requests -> Int]
    BY <2>1, TermTypes DEF IInv, Funded
  <2>3. \A r \in Requests : fundeds[r] <= Passeds[r]
    BY <2>1, TermTypes DEF IInv, Passeds, Passed, Funded
  <2> HIDE DEF fundeds
  <2>4. /\ SumFunction(fundeds) \in Int /\ SumFunction(Passeds) \in Int
        /\ SumFunction(fundeds) <= SumFunction(Passeds)
    BY <2>2, <2>3, SumLeq
  <2>5. SumFunction(Passeds) <= WindowLimit
    BY <2>1 DEF IInv, WindowHeld
  <2>6. QED
    BY <2>4, <2>5, LimitsAssumption DEF fundeds
<1>2. QED
  BY <1>1, SpecIInv, PTL

-----------------------------------------------------------------------------
(* The refinement *)

\* The account's variables, as CreditLedger instantiates them.
AccountState ==
  [r \in Requests |-> IF rows[r].status = "SETTLED" THEN "charged"
                      ELSE IF InAccount(r) THEN "held" ELSE "free"]
AccountReserved == [r \in Requests |-> IF InAccount(r) THEN amount[r] ELSE 0]
AccountCharge == [r \in Requests |-> IF rows[r].status = "SETTLED" THEN Charge(r) ELSE 0]

\* A function of the requests that changed at one request only.
LEMMA OneChanged ==
  ASSUME NEW f, NEW g, NEW r \in Requests, NEW v,
         f = [q \in Requests |-> f[q]], g = [q \in Requests |-> g[q]],
         g[r] = v, \A q \in Requests \ {r} : g[q] = f[q]
  PROVE  g = [f EXCEPT ![r] = v]
OBVIOUS

\* What is left of the limit.
LEMMA AvailableFact ==
  ASSUME IInv
  PROVE  Account!Available = Limit - Prior - SumFunction(Takens)
<1>1. \A r \in Requests : Account!Taken(r) = Taken(r)
  BY DEF Account!Taken, Taken, Covered, InAccount
<1>2. [r \in Requests |-> Account!Taken(r)] = Takens
  BY <1>1 DEF Takens
<1>3. Account!SumFunction(Takens) = SumFunction(Takens)
  BY Zenon DEF SumFunction, SumFunctionOnSet, FoldFunctionOnSet, MapThenFoldSet,
     Account!SumFunction, Account!SumFunctionOnSet, Account!FoldFunctionOnSet,
     Account!MapThenFoldSet
<1>4. QED
  BY <1>2, <1>3 DEF Account!Available

\* A step that changes the request's terms in the account in no way, and leaves
\* it as sound as it was, is none of the account.
LEMMA NoAccountStep ==
  ASSUME UNCHANGED <<rows, intact>>, \A q \in Requests : InAccount(q)' = InAccount(q),
         \A q \in Requests : InAccount(q) => amount'[q] = amount[q]
  PROVE  UNCHANGED Account!vars
<1>1. AccountState' = AccountState /\ AccountReserved' = AccountReserved
      /\ AccountCharge' = AccountCharge
  BY DEF AccountState, AccountReserved, AccountCharge, Charge
<1>2. QED
  BY <1>1 DEF Account!vars, AccountState, AccountReserved, AccountCharge

LEMMA ReserveRefines ==
  ASSUME IInv, NEW r \in Requests, Reserve(r)
  PROVE  [Account!Next]_(Account!vars)
<1>1. /\ pc[r] = "reserve" /\ pc' = [pc EXCEPT ![r] = pc'[r]]
      /\ pc'[r] = IF ledger + amount[r] > Limit THEN "rollback" ELSE "window"
      /\ UNCHANGED <<rows, amount, intact>>
  BY DEF Reserve, Goto, IInv, TypeOK, faultVars
<1>2. /\ rows[r] = NoRow /\ amount[r] \in Nat /\ amount[r] \in Amounts
      /\ ledger \in Int /\ stray \in Int
  BY <1>1 DEF IInv, TypeOK, Stages, Stage, Rowless, Syncing
<1>3. \A q \in Requests \ {r} : InAccount(q)' = InAccount(q)
  BY <1>1 DEF IInv, TypeOK, InAccount
<1>4. CASE pc'[r] = "rollback"
  <2>1. InAccount(r)' = InAccount(r)
    BY <1>1, <1>4 DEF IInv, TypeOK, InAccount
  <2>2. QED
    BY <1>1, <1>3, <2>1, NoAccountStep
<1>5. CASE pc'[r] = "window" /\ intact
  <2>1. ~InAccount(r) /\ InAccount(r)'
    BY <1>1, <1>2, <1>5 DEF IInv, TypeOK, InAccount, NoRow
  <2>2. amount[r] <= Account!Available
    <3>1. present
      BY <1>1, <1>5 DEF IInv, Missing
    <3>2. ledger = Prior + SumFunction(Shares) + stray
      BY <1>5, <3>1 DEF IInv, LedgerExact, Shares
    <3>3. SumFunction(Takens) <= SumFunction(Shares) + stray
      BY LedgerCovers
    <3>4. SumFunction(Takens) \in Int /\ SumFunction(Shares) \in Int
      BY SumInt, TermTypes DEF IInv
    <3>5. ledger + amount[r] <= Limit /\ Prior \in Int /\ Limit \in Int
      BY <1>1, <1>2, <1>5, LimitsAssumption, PriorAssumption
    <3>6. QED
      BY <1>2, <3>2, <3>3, <3>4, <3>5, AvailableFact
  <2>3. /\ AccountState[r] = "free" /\ AccountState' = [AccountState EXCEPT ![r] = "held"]
        /\ AccountReserved' = [AccountReserved EXCEPT ![r] = amount[r]]
        /\ AccountCharge' = AccountCharge
    <3>1. AccountState[r] = "free" /\ AccountState' = [AccountState EXCEPT ![r] = "held"]
      <4>1. AccountState[r] = "free" /\ AccountState'[r] = "held"
        BY <1>1, <1>2, <2>1 DEF AccountState, NoRow
      <4>2. \A q \in Requests \ {r} : AccountState'[q] = AccountState[q]
        BY <1>1, <1>3 DEF AccountState
      <4>3. QED
        BY <4>1, <4>2, OneChanged DEF AccountState
    <3>2. AccountReserved' = [AccountReserved EXCEPT ![r] = amount[r]]
      BY <1>1, <1>3, <2>1 DEF AccountReserved
    <3>3. AccountCharge' = AccountCharge
      BY <1>1 DEF AccountCharge, Charge
    <3>4. QED
      BY <3>1, <3>2, <3>3
  <2>4. Account!Grant(r)
    BY <1>1, <1>2, <2>2, <2>3 DEF Account!Grant, AccountState, AccountReserved, AccountCharge
  <2>5. QED
    BY <2>4 DEF Account!Next
<1>6. CASE ~intact
  BY <1>1, <1>6 DEF Account!Next, Account!Unsound
<1>7. QED
  BY <1>1, <1>4, <1>5, <1>6

\* A request that leaves the account without a charge.
LEMMA Returns ==
  ASSUME IInv, NEW r \in Requests, InAccount(r), rows[r].status # "SETTLED",
         ~InAccount(r)', rows'[r].status # "SETTLED",
         \A q \in Requests \ {r} :
           rows'[q] = rows[q] /\ amount'[q] = amount[q] /\ InAccount(q)' = InAccount(q),
         intact' = intact
  PROVE  [Account!Next]_(Account!vars)
<1>1. /\ AccountState[r] = "held" /\ AccountState' = [AccountState EXCEPT ![r] = "free"]
      /\ AccountReserved' = [AccountReserved EXCEPT ![r] = 0]
      /\ AccountCharge' = AccountCharge
  BY DEF AccountState, AccountReserved, AccountCharge, Charge
<1>2. Account!Return(r)
  BY <1>1 DEF Account!Return, AccountState, AccountReserved, AccountCharge
<1>3. QED
  BY <1>2 DEF Account!Next

LEMMA ConsumeRefines ==
  ASSUME IInv, NEW r \in Requests, Consume(r)
  PROVE  [Account!Next]_(Account!vars)
<1>1. /\ pc[r] = "window" /\ pc' = [pc EXCEPT ![r] = pc'[r]]
      /\ pc'[r] \in {"unspend", "insert"} /\ UNCHANGED <<rows, amount, intact>>
  BY DEF Consume, Goto, IInv, TypeOK, faultVars
<1>2. rows[r] = NoRow /\ InAccount(r)
  BY <1>1 DEF IInv, Stages, Stage, Rowless, InAccount
<1>3. \A q \in Requests \ {r} : InAccount(q)' = InAccount(q)
  BY <1>1 DEF IInv, TypeOK, InAccount
<1>4. CASE pc'[r] = "insert"
  <2>1. InAccount(r)' = InAccount(r)
    BY <1>1, <1>4 DEF InAccount
  <2>2. \A q \in Requests : InAccount(q)' = InAccount(q)
    BY <1>3, <2>1
  <2>3. QED
    BY <1>1, <2>2, NoAccountStep
<1>5. CASE pc'[r] = "unspend"
  <2>1. ~InAccount(r)'
    BY <1>1, <1>2, <1>5 DEF InAccount, NoRow
  <2>2. QED
    BY <1>1, <1>2, <1>3, <2>1, Returns DEF NoRow
<1>6. QED
  BY <1>1, <1>4, <1>5

LEMMA SettleRefines ==
  ASSUME IInv, NEW r \in Requests, Settle(r)
  PROVE  [Account!Next]_(Account!vars)
<1>1. /\ pc[r] = "upstream" /\ pc' = [pc EXCEPT ![r] = "adjust"]
      /\ UNCHANGED <<amount, intact>> /\ rows[r].status = "RESERVED"
  BY DEF Settle, Goto, faultVars
<1>2. InAccount(r) /\ rows \in [Requests -> [status : Statuses, charge : Nat]]
  BY <1>1 DEF InAccount, IInv, TypeOK
<1>3. CASE \E c \in Actuals : rows' = [rows EXCEPT ![r] = [status |-> "SETTLED", charge |-> c]]
  <2>1. PICK c \in Actuals : rows' = [rows EXCEPT ![r] = [status |-> "SETTLED", charge |-> c]]
    BY <1>3
  <2>2. rows'[r] = [status |-> "SETTLED", charge |-> c] /\ InAccount(r)'
    BY <1>2, <2>1 DEF InAccount
  <2>3. \A q \in Requests \ {r} : rows'[q] = rows[q] /\ InAccount(q)' = InAccount(q)
    BY <1>1, <1>2, <2>1 DEF InAccount, IInv, TypeOK
  <2>4. /\ AccountState[r] = "held" /\ AccountState' = [AccountState EXCEPT ![r] = "charged"]
        /\ AccountReserved' = AccountReserved
        /\ AccountCharge' = [AccountCharge EXCEPT ![r] = c]
    <3>1. AccountState[r] = "held" /\ AccountState' = [AccountState EXCEPT ![r] = "charged"]
      <4>1. AccountState[r] = "held" /\ AccountState'[r] = "charged"
        BY <1>1, <1>2, <2>2 DEF AccountState
      <4>2. \A q \in Requests \ {r} : AccountState'[q] = AccountState[q]
        BY <2>3 DEF AccountState
      <4>3. QED
        BY <4>1, <4>2, OneChanged DEF AccountState
    <3>2. AccountReserved' = AccountReserved
      BY <1>1, <1>2, <2>2, <2>3 DEF AccountReserved
    <3>3. AccountCharge' = [AccountCharge EXCEPT ![r] = c]
      <4>1. AccountCharge'[r] = c
        BY <2>2 DEF AccountCharge, Charge
      <4>2. \A q \in Requests \ {r} : AccountCharge'[q] = AccountCharge[q]
        BY <2>3 DEF AccountCharge, Charge
      <4>3. QED
        BY <4>1, <4>2, OneChanged DEF AccountCharge
    <3>4. QED
      BY <3>1, <3>2, <3>3
  <2>5. Account!Settle(r)
    BY <1>1, <2>4 DEF Account!Settle, AccountState, AccountReserved, AccountCharge
  <2>6. QED
    BY <2>5 DEF Account!Next
<1>4. CASE rows' = [rows EXCEPT ![r] = [status |-> "FAILED", charge |-> 0]]
  <2>1. rows'[r].status = "FAILED" /\ ~InAccount(r)'
    BY <1>1, <1>2, <1>4 DEF InAccount, IInv, TypeOK
  <2>2. \A q \in Requests \ {r} :
          rows'[q] = rows[q] /\ amount'[q] = amount[q] /\ InAccount(q)' = InAccount(q)
    BY <1>1, <1>2, <1>4 DEF InAccount, IInv, TypeOK
  <2>3. QED
    BY <1>1, <1>2, <2>1, <2>2, Returns
<1>5. QED
  BY <1>3, <1>4 DEF Settle

LEMMA InsertRefines ==
  ASSUME IInv, NEW r \in Requests, Insert(r)
  PROVE  [Account!Next]_(Account!vars)
<1>1. /\ pc[r] = "insert" /\ pc' = [pc EXCEPT ![r] = "upstream"]
      /\ rows' = [rows EXCEPT ![r] = [status |-> "RESERVED", charge |-> amount[r]]]
      /\ UNCHANGED <<amount, intact>>
  BY DEF Insert, Goto, faultVars
<1>2. rows[r] = NoRow /\ rows'[r] = [status |-> "RESERVED", charge |-> amount[r]]
  BY <1>1 DEF IInv, TypeOK, Stages, Stage, Rowless
<1>3. InAccount(r) /\ InAccount(r)'
  BY <1>1, <1>2 DEF InAccount
<1>4. \A q \in Requests \ {r} : rows'[q] = rows[q] /\ InAccount(q)' = InAccount(q)
  BY <1>1 DEF InAccount, IInv, TypeOK
<1>5. AccountState' = AccountState /\ AccountReserved' = AccountReserved
      /\ AccountCharge' = AccountCharge
  BY <1>1, <1>2, <1>3, <1>4 DEF AccountState, AccountReserved, AccountCharge, Charge, NoRow
<1>6. QED
  BY <1>1, <1>5 DEF Account!vars, AccountState, AccountReserved, AccountCharge

LEMMA CrashRefines ==
  ASSUME IInv, NEW r \in Requests, Crash(r)
  PROVE  [Account!Next]_(Account!vars)
<1>1. /\ pc' = [pc EXCEPT ![r] = "dead"] /\ UNCHANGED <<rows, amount, intact>>
  BY DEF Crash, Goto
<1>2. \A q \in Requests \ {r} : InAccount(q)' = InAccount(q)
  BY <1>1 DEF InAccount, IInv, TypeOK
<1>3. InAccount(r)' <=> rows[r].status \in {"RESERVED", "SETTLED"}
  BY <1>1 DEF InAccount, IInv, TypeOK
<1>4. CASE InAccount(r)' = InAccount(r)
  BY <1>1, <1>2, <1>4, NoAccountStep
<1>5. CASE InAccount(r) /\ ~InAccount(r)'
  BY <1>1, <1>2, <1>3, <1>5, Returns
<1>6. QED
  BY <1>3, <1>4, <1>5 DEF InAccount

\* The other steps of a request pass the account by.
LEMMA QuietRefines ==
  ASSUME IInv, NEW r \in Requests,
         \/ Begin(r) \/ ReadRows(r) \/ Rollback(r) \/ Unspend(r) \/ ReleaseRefused(r) \/ Adjust(r)
  PROVE  [Account!Next]_(Account!vars)
<1>1. /\ pc[r] \in {"idle", "sum", "rollback", "unspend", "release", "adjust"}
      /\ pc' = [pc EXCEPT ![r] = pc'[r]]
      /\ pc'[r] \in {"refused", "reserve", "sum", "set", "release", "done"}
      /\ amount' = [amount EXCEPT ![r] = amount'[r]]
      /\ (pc[r] = "adjust" => amount'[r] = amount[r])
      /\ UNCHANGED <<rows, intact>>
  BY DEF Begin, ReadRows, Rollback, Unspend, ReleaseRefused, Adjust, Goto, IInv, TypeOK, faultVars
<1>2. \A q \in Requests : InAccount(q)' = InAccount(q)
  BY <1>1 DEF InAccount, IInv, TypeOK
<1>3. \A q \in Requests : InAccount(q) => amount'[q] = amount[q]
  BY <1>1 DEF InAccount, IInv, TypeOK, Stages, Stage, Rowless, Syncing, NoRow
<1>4. QED
  BY <1>1, <1>2, <1>3, NoAccountStep

\* A rebuild, a loss of the keys and a new window change the account at most in
\* that it is no longer sound.
LEMMA KeysRefine ==
  ASSUME IInv, UNCHANGED <<rows, amount>>,
         \A q \in Requests : InAccount(q)' = InAccount(q), intact' = intact \/ intact' = FALSE
  PROVE  [Account!Next]_(Account!vars)
<1>1. CASE intact' = intact
  BY <1>1, NoAccountStep
<1>2. CASE intact' = FALSE
  BY <1>2 DEF Account!Next, Account!Unsound
<1>3. QED
  BY <1>1, <1>2

\* The interleaved Redis commands and transactions implement the atomic account
\* of QuotaAccount: every step is a step of the account or changes nothing in it.
THEOREM AccountImplemented == Spec => ImplementsAccount
<1>1. Init => Account!Init
  <2>1. SUFFICES ASSUME Init PROVE Account!Init
    OBVIOUS
  <2>2. /\ \A r \in Requests : rows[r].status = "none" /\ ~InAccount(r)
        /\ intact = TRUE
    BY <2>1 DEF Init, NoRow, InAccount
  <2>3. QED
    BY <2>2 DEF Account!Init
<1>2. IInv /\ [Next]_vars => [Account!Next]_(Account!vars)
  <2> SUFFICES ASSUME IInv, [Next]_vars PROVE [Account!Next]_(Account!vars)
    OBVIOUS
  <2>1. ASSUME NEW r \in Requests, Rebuild(r) PROVE [Account!Next]_(Account!vars)
    <3>1. /\ pc[r] = "set" /\ pc' = [pc EXCEPT ![r] = "reserve"] /\ UNCHANGED <<rows, amount>>
          /\ intact' = intact \/ intact' = FALSE
      BY <2>1 DEF Rebuild, Goto, IInv, TypeOK
    <3>2. \A q \in Requests : InAccount(q)' = InAccount(q)
      BY <3>1 DEF InAccount, IInv, TypeOK
    <3>3. QED
      BY <3>1, <3>2, KeysRefine
  <2>2. CASE RollWindow \/ LoseKeys \/ UNCHANGED vars
    <3>1. UNCHANGED <<rows, pc, amount>> /\ (intact' = intact \/ intact' = FALSE)
      BY <2>2 DEF RollWindow, LoseKeys, vars, faultVars, IInv, TypeOK
    <3>2. \A q \in Requests : InAccount(q)' = InAccount(q)
      BY <3>1 DEF InAccount
    <3>3. QED
      BY <3>1, <3>2, KeysRefine
  <2>3. QED
    BY <2>1, <2>2, ReserveRefines, ConsumeRefines, SettleRefines, InsertRefines, CrashRefines,
       QuietRefines DEF Next
<1>3. QED
  BY <1>1, <1>2, SpecIInv, PTL DEF Spec, ImplementsAccount, Account!Spec
=============================================================================
