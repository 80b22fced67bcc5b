------------------------- MODULE SessionGuardProofs -------------------------
(***************************************************************************)
(* Proofs about SessionGuard, for every set of requests, cap and number of *)
(* losses.  The inductive invariant adds to the checked invariants that,   *)
(* until the key lapses under requests in flight, the counter counts every *)
(* one of them (so that nobody has to clamp it), and that a key without a  *)
(* TTL and with slots taken has a request about to set the TTL.            *)
(***************************************************************************)
EXTENDS SessionGuard, FiniteSetTheorems, TLAPS

CountsAll ==
  ~lapsed => /\ Cardinality(Counted) <= inflight
             /\ \A r \in Requests : pc[r] # "clamp"

TtlPending ==
  ~torn /\ expiry = "unset" /\ inflight >= 1 => \E r \in Requests : pc[r] = "expire"

IInv == TypeOK /\ NoStraySlots /\ CountsAll /\ CapHolds /\ TtlPending

-----------------------------------------------------------------------------
\* The two sets of requests are finite, and moving one request to a phase adds
\* it to them or takes it from them.
LEMMA MoveOne ==
  ASSUME pc \in [Requests -> Phases], NEW r \in Requests, NEW phase \in Phases,
         Goto(r, phase)
  PROVE  /\ pc' \in [Requests -> Phases]
         /\ Counted' = IF phase \in {"expire", "refuse", "held"}
                         THEN Counted \cup {r} ELSE Counted \ {r}
         /\ Admitted' = IF phase \in {"expire", "held"}
                          THEN Admitted \cup {r} ELSE Admitted \ {r}
BY DEF Goto, Counted, Admitted

LEMMA Finiteness ==
  ASSUME pc \in [Requests -> Phases]
  PROVE  /\ IsFiniteSet(Counted) /\ Cardinality(Counted) \in Nat
         /\ IsFiniteSet(Admitted) /\ Cardinality(Admitted) \in Nat
         /\ Cardinality(Admitted) <= Cardinality(Counted)
<1>1. Counted \subseteq Requests /\ Admitted \subseteq Counted
  BY DEF Counted, Admitted
<1>2. IsFiniteSet(Counted) /\ IsFiniteSet(Admitted)
  BY <1>1, RequestsAssumption, FS_Subset
<1>3. QED
  BY <1>1, <1>2, FS_Subset, FS_CardinalityType

\* The sizes of the two sets after a request moved.
LEMMA CountOne ==
  ASSUME pc \in [Requests -> Phases], NEW r \in Requests, NEW phase \in Phases,
         Goto(r, phase)
  PROVE  /\ phase \in {"expire", "refuse", "held"} =>
              Cardinality(Counted') =
                IF r \in Counted THEN Cardinality(Counted) ELSE Cardinality(Counted) + 1
         /\ phase \notin {"expire", "refuse", "held"} =>
              Cardinality(Counted') =
                IF r \in Counted THEN Cardinality(Counted) - 1 ELSE Cardinality(Counted)
         /\ phase \in {"expire", "held"} =>
              Cardinality(Admitted') =
                IF r \in Admitted THEN Cardinality(Admitted) ELSE Cardinality(Admitted) + 1
         /\ phase \notin {"expire", "held"} =>
              Cardinality(Admitted') <= Cardinality(Admitted)
         /\ Cardinality(Counted') \in Nat /\ Cardinality(Admitted') \in Nat
<1>1. IsFiniteSet(Counted) /\ IsFiniteSet(Admitted)
      /\ Cardinality(Counted) \in Nat /\ Cardinality(Admitted) \in Nat
  BY Finiteness
<1>2. /\ Cardinality(Counted \cup {r}) =
           IF r \in Counted THEN Cardinality(Counted) ELSE Cardinality(Counted) + 1
      /\ Cardinality(Admitted \cup {r}) =
           IF r \in Admitted THEN Cardinality(Admitted) ELSE Cardinality(Admitted) + 1
  BY <1>1, FS_AddElement
<1>3. /\ Cardinality(Counted \ {r}) =
           IF r \in Counted THEN Cardinality(Counted) - 1 ELSE Cardinality(Counted)
      /\ Cardinality(Admitted \ {r}) =
           IF r \in Admitted THEN Cardinality(Admitted) - 1 ELSE Cardinality(Admitted)
  BY <1>1, FS_RemoveElement
<1>4. /\ Cardinality(Admitted \ {r}) <= Cardinality(Admitted)
      /\ Cardinality(Counted \ {r}) \in Nat /\ Cardinality(Admitted \ {r}) \in Nat
  BY <1>1, <1>3, FS_RemoveElement, FS_CardinalityType
<1>5. Cardinality(Counted \cup {r}) \in Nat /\ Cardinality(Admitted \cup {r}) \in Nat
  BY <1>1, <1>2
<1>6. QED
  BY <1>2, <1>3, <1>4, <1>5, MoveOne

-----------------------------------------------------------------------------
LEMMA InitIInv == Init => IInv
<1> SUFFICES ASSUME Init PROVE IInv
  OBVIOUS
<1>1. TypeOK
  <2>1. pc \in [Requests -> Phases]
    BY DEF Init, Phases
  <2>2. losses \in 0 .. MaxLosses
    BY MaxLossesAssumption DEF Init
  <2>3. inflight \in Int /\ inflight = 0 /\ expiry \in {"absent", "unset", "set"}
    BY DEF Init
  <2>4. lapsed \in BOOLEAN /\ torn \in BOOLEAN
    BY Zenon DEF Init
  <2>5. QED
    BY <2>1, <2>2, <2>3, <2>4 DEF TypeOK
<1>2. Counted = {} /\ Admitted = {}
  BY DEF Init, Counted, Admitted
<1>3. Cardinality(Counted) = 0 /\ Cardinality(Admitted) = 0
  BY <1>2, FS_EmptySet
<1>4. QED
  BY <1>1, <1>3, LimitAssumption
     DEF Init, IInv, NoStraySlots, CountsAll, CapHolds, TtlPending

\* Every step preserves the inductive invariant, one action at a time.
LEMMA NextIInv == IInv /\ [Next]_vars => IInv'
<1> SUFFICES ASSUME IInv, [Next]_vars PROVE IInv'
  OBVIOUS
<1> USE DEF Phases
<1>1. pc \in [Requests -> Phases] /\ inflight \in Int /\ losses \in Nat
  BY MaxLossesAssumption DEF IInv, TypeOK
<1>2. Cardinality(Counted) \in Nat /\ Cardinality(Admitted) \in Nat
      /\ Cardinality(Admitted) <= Cardinality(Counted)
  BY <1>1, Finiteness
<1>3. ASSUME NEW r \in Requests, Claim(r) PROVE IInv'
  <2>1. PICK phase \in Phases : Goto(r, phase) /\ phase \in {"expire", "refuse", "held"}
    BY <1>3 DEF Claim
  <2>2. r \notin Counted /\ r \notin Admitted
    BY <1>3 DEF Claim, Counted, Admitted
  <2>3. Cardinality(Counted') = Cardinality(Counted) + 1
    BY <1>1, <2>1, <2>2, CountOne
  <2>4. /\ pc[r] = "idle" /\ phase # "refuse" => inflight + 1 <= Limit
        /\ inflight' = inflight + 1
        /\ pc' = [pc EXCEPT ![r] = phase]
        /\ inflight + 1 = 1 => phase = "expire"
    BY <1>1, <1>3, <2>1, LimitAssumption DEF Claim, Bump, Goto
  <2>5. TypeOK'
    BY <1>1, <1>3, <2>4 DEF IInv, TypeOK, Claim, Bump
  <2>6. NoStraySlots'
    BY <1>1, <1>2, <1>3, <2>3, <2>4 DEF IInv, NoStraySlots, Claim
  <2>7. CountsAll'
    BY <1>1, <1>2, <1>3, <2>1, <2>3, <2>4 DEF IInv, CountsAll, Claim
  <2>8. CapHolds'
    <3>1. CASE phase = "refuse"
      <4>1. Cardinality(Admitted') <= Cardinality(Admitted) /\ Cardinality(Admitted') \in Nat
        BY <1>1, <2>1, <3>1, CountOne
      <4>2. QED
        BY <1>2, <1>3, <4>1, LimitAssumption DEF IInv, CapHolds, Claim
    <3>2. CASE phase # "refuse"
      <4>1. Cardinality(Admitted') = Cardinality(Admitted) + 1
        BY <1>1, <2>1, <2>2, <3>2, CountOne
      <4>2. inflight + 1 <= Limit
        BY <1>3, <2>4, <3>2 DEF Claim
      <4>3. QED
        BY <1>1, <1>2, <1>3, <4>1, <4>2, LimitAssumption
           DEF IInv, CapHolds, CountsAll, Claim
    <3>3. QED
      BY <3>1, <3>2
  <2>9. TtlPending'
    <3>1. CASE inflight + 1 = 1
      BY <1>1, <2>4, <3>1 DEF TtlPending
    <3>2. CASE inflight + 1 # 1
      <4>1. inflight' >= 1 => inflight >= 1
        BY <1>1, <2>4, <3>2
      <4>2. expiry' = "unset" /\ inflight >= 1 => expiry = "unset"
        BY <1>1, <1>3 DEF IInv, TypeOK, Claim, Bump
      <4>3. \A q \in Requests : pc[q] = "expire" => pc'[q] = "expire"
        BY <1>1, <1>3, <2>4 DEF Claim
      <4>4. QED
        BY <1>3, <4>1, <4>2, <4>3 DEF IInv, TtlPending, Claim
    <3>3. QED
      BY <3>1, <3>2
  <2>10. QED
    BY <2>5, <2>6, <2>7, <2>8, <2>9 DEF IInv
<1>4. ASSUME NEW r \in Requests, SetExpiry(r) PROVE IInv'
  <2>1. r \in Counted /\ r \in Admitted /\ Goto(r, "held")
    BY <1>4 DEF SetExpiry, Counted, Admitted
  <2>2. Cardinality(Counted') = Cardinality(Counted)
        /\ Cardinality(Admitted') = Cardinality(Admitted)
    BY <1>1, <2>1, CountOne
  <2>3. TypeOK'
    BY <1>1, <1>4, <2>1 DEF IInv, TypeOK, SetExpiry, Goto
  <2>4. QED
    BY <1>1, <1>2, <1>4, <2>1, <2>2, <2>3
       DEF IInv, NoStraySlots, CountsAll, CapHolds, TtlPending, SetExpiry, Goto
<1>5. ASSUME NEW r \in Requests, Refuse(r) PROVE IInv'
  <2>1. r \in Counted /\ r \notin Admitted /\ Goto(r, "idle")
    BY <1>5 DEF Refuse, Counted, Admitted
  <2>2. Cardinality(Counted') = Cardinality(Counted) - 1
    BY <1>1, <2>1, CountOne
  <2>3. Admitted' = Admitted
    BY <1>1, <2>1, MoveOne
  <2>4. TypeOK'
    BY <1>1, <1>5, <2>1 DEF IInv, TypeOK, Refuse, Bump, Goto
  <2>5. NoStraySlots' /\ CountsAll' /\ CapHolds'
    BY <1>1, <1>2, <1>5, <2>1, <2>2, <2>3
       DEF IInv, NoStraySlots, CountsAll, CapHolds, Refuse, Bump, Goto
  <2>6. TtlPending'
    BY <1>1, <1>5, <2>1 DEF IInv, TypeOK, TtlPending, Refuse, Bump, Goto
  <2>7. QED
    BY <2>4, <2>5, <2>6 DEF IInv
<1>6. ASSUME NEW r \in Requests, Release(r) PROVE IInv'
  <2>1. PICK phase \in {"idle", "clamp"} :
          /\ Goto(r, phase)
          /\ phase = "clamp" <=> inflight - 1 < 0
    BY <1>6 DEF Release
  <2>2. r \in Counted /\ r \in Admitted
    BY <1>6 DEF Release, Counted, Admitted
  <2>3. Cardinality(Counted') = Cardinality(Counted) - 1
    BY <1>1, <2>1, <2>2, CountOne
  <2>4. Cardinality(Admitted') <= Cardinality(Admitted) /\ Cardinality(Admitted') \in Nat
    BY <1>1, <2>1, CountOne
  <2>5. Cardinality(Counted) >= 1
    BY <1>1, <2>2, Finiteness, FS_EmptySet
  <2>6. TypeOK'
    BY <1>1, <1>6, <2>1 DEF IInv, TypeOK, Release, Bump, Goto
  <2>7. NoStraySlots' /\ CapHolds'
    BY <1>1, <1>2, <1>6, <2>3, <2>4, LimitAssumption
       DEF IInv, NoStraySlots, CapHolds, Release, Bump
  <2>8. CountsAll'
    BY <1>1, <1>2, <1>6, <2>1, <2>3, <2>5 DEF IInv, CountsAll, Release, Bump, Goto
  <2>9. TtlPending'
    BY <1>1, <1>6, <2>1 DEF IInv, TypeOK, TtlPending, Release, Bump, Goto
  <2>10. QED
    BY <2>6, <2>7, <2>8, <2>9 DEF IInv
<1>7. ASSUME NEW r \in Requests, Clamp(r) PROVE IInv'
  <2>1. r \notin Counted /\ r \notin Admitted /\ Goto(r, "idle")
    BY <1>7 DEF Clamp, Counted, Admitted
  <2>2. Counted' = Counted /\ Admitted' = Admitted
    BY <1>1, <2>1, MoveOne
  <2>3. TypeOK'
    BY <1>1, <1>7, <2>1 DEF IInv, TypeOK, Clamp, Goto
  <2>4. lapsed
    BY <1>7 DEF IInv, CountsAll, Clamp
  <2>5. QED
    BY <1>1, <1>2, <1>7, <2>2, <2>3, <2>4
       DEF IInv, TypeOK, NoStraySlots, CountsAll, CapHolds, TtlPending, Clamp
<1>8. ASSUME NEW r \in Requests, Vanish(r) PROVE IInv'
  <2>1. Goto(r, "idle") /\ losses' = losses + 1
    BY <1>8 DEF Vanish
  <2>2. /\ Cardinality(Counted') <= Cardinality(Counted)
        /\ Cardinality(Counted') >= Cardinality(Counted) - 1
        /\ Cardinality(Counted') \in Int
    BY <1>1, <1>2, <2>1, CountOne
  <2>3. Cardinality(Admitted') <= Cardinality(Admitted) /\ Cardinality(Admitted') \in Nat
    BY <1>1, <2>1, CountOne
  <2>4. TypeOK'
    BY <1>1, <1>8, <2>1, MaxLossesAssumption DEF IInv, TypeOK, Vanish, Goto
  <2>5. NoStraySlots' /\ CapHolds'
    BY <1>1, <1>2, <1>8, <2>1, <2>2, <2>3, LimitAssumption
       DEF IInv, NoStraySlots, CapHolds, Vanish
  <2>6. CountsAll'
    BY <1>1, <1>2, <1>8, <2>1, <2>2 DEF IInv, CountsAll, Vanish, Goto
  <2>7. TtlPending'
    BY <1>1, <1>8, <2>1 DEF IInv, TypeOK, TtlPending, Vanish, Goto
  <2>8. QED
    BY <2>4, <2>5, <2>6, <2>7 DEF IInv
<1>9. CASE Expire
  <2>1. Counted' = Counted /\ Admitted' = Admitted /\ inflight' = 0
    BY <1>9 DEF Expire, Counted, Admitted
  <2>2. TypeOK'
    BY <1>1, <1>9 DEF IInv, TypeOK, Expire
  <2>3. ~lapsed' => Cardinality(Counted) = 0 /\ \A r \in Requests : pc'[r] # "clamp"
    BY <1>9, FS_EmptySet DEF IInv, CountsAll, Expire
  <2>4. NoStraySlots' /\ TtlPending'
    BY <1>1, <1>2, <1>9, <2>1 DEF NoStraySlots, TtlPending, Expire
  <2>5. CountsAll'
    BY <2>1, <2>3 DEF CountsAll
  <2>6. CapHolds'
    BY <1>9, <2>1 DEF IInv, CapHolds, Expire
  <2>7. QED
    BY <2>2, <2>4, <2>5, <2>6 DEF IInv
<1>10. CASE UNCHANGED vars
  BY <1>10 DEF vars, IInv, TypeOK, NoStraySlots, CountsAll, CapHolds, TtlPending,
               Counted, Admitted
<1>11. QED
  BY <1>3, <1>4, <1>5, <1>6, <1>7, <1>8, <1>9, <1>10 DEF Next

-----------------------------------------------------------------------------
\* The inductive invariant holds in every reachable state.
LEMMA Inductive == Spec => []IInv
BY InitIInv, NextIInv, PTL DEF Spec

\* Every variable keeps its type.
THEOREM TypeCorrect == Spec => []TypeOK
<1>1. IInv => TypeOK
  BY DEF IInv
<1>2. QED
  BY <1>1, Inductive, PTL

\* acquire_slot and release_slot never strand a slot by themselves: whatever
\* the interleaving and whenever the key expires, the counter holds at most
\* the requests under way and those that vanished.
THEOREM SlotsAccountedFor == Spec => []NoStraySlots
<1>1. IInv => NoStraySlots
  BY DEF IInv
<1>2. QED
  BY <1>1, Inductive, PTL

\* acquire_slot serves at most Limit requests of an account at once until the
\* counter's key expires under them.
THEOREM CapSafety == Spec => []CapHolds
<1>1. IInv => CapHolds
  BY DEF IInv
<1>2. QED
  BY <1>1, Inductive, PTL

\* A slot nobody will release sits in a key with a TTL, or in one that is about
\* to get its TTL, unless a worker died between INCR and EXPIRE.
THEOREM PhantomSlotsHaveTtl == Spec => []PhantomsExpire
<1>1. IInv => PhantomsExpire
  <2> SUFFICES ASSUME IInv PROVE PhantomsExpire
    OBVIOUS
  <2>1. Cardinality(Counted) \in Nat /\ inflight \in Int
    BY Finiteness DEF IInv, TypeOK
  <2>2. Phantom => inflight >= 1
    BY <2>1 DEF Phantom
  <2>3. QED
    BY <2>1, <2>2 DEF IInv, TypeOK, TtlPending, PhantomsExpire
<1>2. QED
  BY <1>1, Inductive, PTL

\* While no other request is being refused, acquire_slot answers 429 only to an
\* account whose cap is full of admitted requests and lost slots.
THEOREM LoneRefusalsJustified == Spec => LoneRefusalAtCap
<1>1. IInv /\ [Next]_vars =>
        [\A r \in Requests : Refused(r) /\ (\A q \in Requests : pc[q] # "refuse")
           => Cardinality(Admitted) + losses >= Limit]_vars
  <2> SUFFICES ASSUME IInv, Next, NEW r \in Requests, Refused(r),
                      \A q \in Requests : pc[q] # "refuse"
               PROVE  Cardinality(Admitted) + losses >= Limit
    OBVIOUS
  <2>1. Claim(r)
    BY DEF Refused, Next, Claim, SetExpiry, Refuse, Release, Clamp, Vanish, Expire,
           Goto, IInv, TypeOK
  <2>2. inflight + 1 > Limit
    BY <2>1 DEF Refused, Claim, Goto, IInv, TypeOK
  <2>3. Counted = Admitted
    BY DEF Counted, Admitted
  <2>4. Cardinality(Admitted) \in Nat /\ losses \in Nat
    BY Finiteness, MaxLossesAssumption DEF IInv, TypeOK
  <2>5. QED
    BY <2>2, <2>3, <2>4, LimitAssumption DEF IInv, TypeOK, NoStraySlots
<1>2. QED
  BY <1>1, Inductive, PTL DEF Spec, LoneRefusalAtCap
=============================================================================
