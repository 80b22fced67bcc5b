---------------------------- MODULE ServicesProofs ----------------------------
(***************************************************************************)
(* Proofs about LoginLimits, UpstreamCalls, Pricing, Answers, TierCache    *)
(* and BillingEvents, and about MCServices, which runs them side by side.  *)
(***************************************************************************)
EXTENDS MCServices, FiniteSetTheorems, SequenceTheorems,
  WellFoundedInduction, NaturalsInduction, TLAPS

-----------------------------------------------------------------------------
(* LoginLimits, for every finite set of clients, and all limits and lengths *)
(* of windows.  GuessesBounded is not inductive: the count rises after the  *)
(* check.  What no step raises past the bound is the count together with    *)
(* the calls that have passed the check and may yet raise it.               *)

\* The calls between the look at the account's count and their own failure.
Guessing == {c \in Clients : call[c].stage \in {"password", "fail"}}

RoomForGuesses ==
  window["account"].count + Cardinality(Guessing) <= Failures - 1 + Cardinality(Clients)

LimitsIInv == LimitsTypeOK /\ RoomForGuesses

-----------------------------------------------------------------------------
\* There are no more guesses under way than clients.
LEMMA GuessingFinite ==
  /\ IsFiniteSet(Guessing)
  /\ Cardinality(Guessing) \in Nat /\ Cardinality(Clients) \in Nat
  /\ Cardinality(Guessing) <= Cardinality(Clients)
<1>1. Guessing \subseteq Clients
  BY DEF Guessing
<1>2. QED
  BY <1>1, ClientsAssumption, FS_Subset, FS_CardinalityType

\* The same of the guesses after a step.
LEMMA GuessingFiniteNext ==
  /\ IsFiniteSet(Guessing')
  /\ Cardinality(Guessing') \in Nat
  /\ Cardinality(Guessing') <= Cardinality(Clients)
<1>1. Guessing' \subseteq Clients
  BY DEF Guessing
<1>2. QED
  BY <1>1, ClientsAssumption, FS_Subset, FS_CardinalityType

\* A call that goes to a stage that is no guess leaves no more guesses than
\* there were, and one fewer if it was one.
LEMMA FewerGuesses ==
  ASSUME NEW c \in Clients,
         \A d \in Clients \ {c} : call'[d].stage = call[d].stage,
         call'[c].stage \notin {"password", "fail"}
  PROVE  /\ Cardinality(Guessing') <= Cardinality(Guessing)
         /\ c \in Guessing => Cardinality(Guessing') = Cardinality(Guessing) - 1
<1>1. Guessing' = Guessing \ {c}
  BY DEF Guessing
<1>2. Cardinality(Guessing \ {c}) =
        IF c \in Guessing THEN Cardinality(Guessing) - 1 ELSE Cardinality(Guessing)
  BY GuessingFinite, FS_RemoveElement
<1>3. QED
  BY <1>1, <1>2, GuessingFinite

\* A step of one call moves that call only.
LEMMA OneCall ==
  ASSUME LimitsTypeOK, NEW c \in Clients, NEW place \in CallStages,
         To(c, place) \/ (Close(c) /\ place = "idle")
  PROVE  /\ call' \in [Clients -> [stage : CallStages, over : BOOLEAN]]
         /\ call'[c].stage = place
         /\ \A d \in Clients \ {c} : call'[d].stage = call[d].stage
<1>1. call \in [Clients -> [stage : CallStages, over : BOOLEAN]]
  BY DEF LimitsTypeOK
<1>2. CASE To(c, place)
  BY <1>1, <1>2 DEF To
<1>3. CASE Close(c) /\ place = "idle"
  BY <1>1, <1>3 DEF Close
<1>4. QED
  BY <1>2, <1>3

-----------------------------------------------------------------------------
\* LimitsInit => LimitsIInv
LEMMA LimitsInitIInv == LimitsInit => LimitsIInv
<1> SUFFICES ASSUME LimitsInit PROVE LimitsIInv
  OBVIOUS
<1>1. LimitsTypeOK
  BY LimitsAssumption DEF LimitsInit, LimitsTypeOK, Closed, Endless, WindowKeys, CallStages
<1>2. window["account"].count = 0
  BY DEF LimitsInit, Closed, WindowKeys
<1>3. QED
  BY <1>1, <1>2, GuessingFinite, LimitsAssumption DEF LimitsIInv, RoomForGuesses

\* EXPIRE keeps every count.
LEMMA ExpireKeepsCounts ==
  ASSUME LimitsTypeOK, NEW k \in WindowKeys, ArmWindow(k)
  PROVE  /\ window' \in [WindowKeys -> [count : Nat, ttl : {Endless} \cup 1 .. Window]]
         /\ window'["account"].count = window["account"].count
<1>1. Window \in {Endless} \cup 1 .. Window
  BY LimitsAssumption
<1>2. QED
  BY <1>1 DEF LimitsTypeOK, ArmWindow, WindowKeys

\* A step that moves a call elsewhere than to a guess, and does not raise the
\* account's count, keeps the invariant.
LEMMA QuietStep ==
  ASSUME LimitsIInv, NEW c \in Clients, NEW place \in CallStages \ {"password", "fail"},
         To(c, place) \/ (Close(c) /\ place = "idle"),
         window' \in [WindowKeys -> [count : Nat, ttl : {Endless} \cup 1 .. Window]],
         window'["account"].count = window["account"].count,
         deaths' \in 0 .. MaxDeaths
  PROVE  LimitsIInv'
<1>1. LimitsTypeOK'
  BY OneCall DEF LimitsIInv, LimitsTypeOK
<1>2. Cardinality(Guessing') <= Cardinality(Guessing)
  BY OneCall, FewerGuesses DEF LimitsIInv
<1>3. window["account"].count \in Nat
  BY DEF LimitsIInv, LimitsTypeOK, WindowKeys
<1>4. QED
  BY <1>1, <1>2, <1>3, GuessingFinite, GuessingFiniteNext, LimitsAssumption
  DEF LimitsIInv, RoomForGuesses

\* Every step keeps the invariant.
LEMMA LimitsNextIInv == LimitsIInv /\ [LimitsNext]_limitVars => LimitsIInv'
<1> SUFFICES ASSUME LimitsIInv, [LimitsNext]_limitVars PROVE LimitsIInv'
  OBVIOUS
<1> USE DEF CallStages
<1>1. ASSUME NEW c \in Clients, CountCall(c) PROVE LimitsIInv'
  <2>1. /\ window' \in [WindowKeys -> [count : Nat, ttl : {Endless} \cup 1 .. Window]]
        /\ window'["account"].count = window["account"].count
    BY <1>1, LimitsAssumption DEF CountCall, LimitsIInv, LimitsTypeOK, WindowKeys
  <2>2. /\ call' \in [Clients -> [stage : CallStages, over : BOOLEAN]]
        /\ call'[c].stage = "ttl"
        /\ \A d \in Clients \ {c} : call'[d].stage = call[d].stage
    BY <1>1 DEF CountCall, LimitsIInv, LimitsTypeOK
  <2>3. LimitsTypeOK'
    BY <1>1, <2>1, <2>2 DEF CountCall, LimitsIInv, LimitsTypeOK
  <2>4. Cardinality(Guessing') <= Cardinality(Guessing)
    BY <2>2, FewerGuesses
  <2>5. window["account"].count \in Nat
    BY DEF LimitsIInv, LimitsTypeOK, WindowKeys
  <2>6. QED
    BY <2>1, <2>3, <2>4, <2>5, GuessingFinite, GuessingFiniteNext, LimitsAssumption
    DEF LimitsIInv, RoomForGuesses
<1>2. ASSUME NEW c \in Clients, ReadTtl(c) PROVE LimitsIInv'
  <2>1. \E place \in {"expire", "check", "idle"} : To(c, place) \/ (Close(c) /\ place = "idle")
    BY <1>2 DEF ReadTtl, Pass
  <2>2. window' = window /\ deaths' = deaths
    BY <1>2 DEF ReadTtl
  <2>3. QED
    BY <2>1, <2>2, QuietStep DEF LimitsIInv, LimitsTypeOK
<1>3. ASSUME NEW c \in Clients, SetTtl(c) PROVE LimitsIInv'
  <2>1. \E place \in {"check", "idle"} : To(c, place) \/ (Close(c) /\ place = "idle")
    BY <1>3 DEF SetTtl, Pass
  <2>2. ArmWindow("ip") /\ deaths' = deaths
    BY <1>3 DEF SetTtl
  <2>3. /\ window' \in [WindowKeys -> [count : Nat, ttl : {Endless} \cup 1 .. Window]]
        /\ window'["account"].count = window["account"].count
    BY <2>2, ExpireKeepsCounts DEF LimitsIInv, WindowKeys
  <2>4. deaths' \in 0 .. MaxDeaths
    BY <2>2 DEF LimitsIInv, LimitsTypeOK
  <2>5. QED
    BY <2>1, <2>3, <2>4, QuietStep
<1>4. ASSUME NEW c \in Clients, CheckAccount(c) PROVE LimitsIInv'
  <2>1. window' = window /\ deaths' = deaths
    BY <1>4 DEF CheckAccount
  <2>2. CASE Close(c)
    <3>1. "idle" \in CallStages \ {"password", "fail"}
      OBVIOUS
    <3>2. QED
      BY <2>1, <2>2, <3>1, QuietStep DEF LimitsIInv, LimitsTypeOK
  <2>3. CASE To(c, "password") /\ window["account"].count < Failures
    <3>1. LimitsTypeOK'
      BY <2>1, <2>3, OneCall DEF LimitsIInv, LimitsTypeOK
    <3>2. window["account"].count \in Nat
      BY DEF LimitsIInv, LimitsTypeOK, WindowKeys
    <3>3. QED
      BY <2>1, <2>3, <3>1, <3>2, GuessingFinite, GuessingFiniteNext, LimitsAssumption
      DEF LimitsIInv, RoomForGuesses
  <2>4. window["account"].count \in Nat
    BY DEF LimitsIInv, LimitsTypeOK, WindowKeys
  <2>5. QED
    BY <1>4, <2>2, <2>3, <2>4, LimitsAssumption DEF CheckAccount
<1>5. ASSUME NEW c \in Clients, TryPassword(c) PROVE LimitsIInv'
  <2>1. window' = window /\ deaths' = deaths /\ call[c].stage = "password"
    BY <1>5 DEF TryPassword, At
  <2>2. CASE Close(c)
    <3>1. "idle" \in CallStages \ {"password", "fail"}
      OBVIOUS
    <3>2. QED
      BY <2>1, <2>2, <3>1, QuietStep DEF LimitsIInv, LimitsTypeOK
  <2>3. CASE To(c, "fail")
    <3>1. /\ call' \in [Clients -> [stage : CallStages, over : BOOLEAN]]
          /\ call'[c].stage = "fail"
          /\ \A d \in Clients \ {c} : call'[d].stage = call[d].stage
      BY <2>3, OneCall DEF LimitsIInv
    <3>2. Guessing' = Guessing
      BY <2>1, <3>1 DEF Guessing
    <3>3. QED
      BY <2>1, <3>1, <3>2 DEF LimitsIInv, LimitsTypeOK, RoomForGuesses
  <2>4. QED
    BY <1>5, <2>2, <2>3 DEF TryPassword
<1>6. ASSUME NEW c \in Clients, CountFailure(c) PROVE LimitsIInv'
  <2>1. PICK place \in {"failExpire", "failTtl"} : To(c, place)
    BY <1>6 DEF CountFailure
  <2>2. /\ call' \in [Clients -> [stage : CallStages, over : BOOLEAN]]
        /\ call'[c].stage = place
        /\ \A d \in Clients \ {c} : call'[d].stage = call[d].stage
    BY <2>1, OneCall DEF LimitsIInv
  <2>3. /\ window' \in [WindowKeys -> [count : Nat, ttl : {Endless} \cup 1 .. Window]]
        /\ window["account"].count \in Nat
        /\ window'["account"].count = window["account"].count + 1
    BY <1>6 DEF CountFailure, LimitsIInv, LimitsTypeOK, WindowKeys
  <2>4. c \in Guessing
    BY <1>6 DEF CountFailure, At, Guessing
  <2>5. Cardinality(Guessing') = Cardinality(Guessing) - 1
    BY <2>2, <2>4, FewerGuesses
  <2>6. LimitsTypeOK'
    BY <1>6, <2>2, <2>3 DEF CountFailure, LimitsIInv, LimitsTypeOK
  <2>7. QED
    BY <2>3, <2>5, <2>6, GuessingFinite, LimitsAssumption DEF LimitsIInv, RoomForGuesses
<1>7. ASSUME NEW c \in Clients, ReadFailureTtl(c) PROVE LimitsIInv'
  <2>1. \E place \in {"failExpire", "idle"} : To(c, place) \/ (Close(c) /\ place = "idle")
    BY <1>7 DEF ReadFailureTtl
  <2>2. window' = window /\ deaths' = deaths
    BY <1>7 DEF ReadFailureTtl
  <2>3. QED
    BY <2>1, <2>2, QuietStep DEF LimitsIInv, LimitsTypeOK
<1>8. ASSUME NEW c \in Clients, SetFailureTtl(c) PROVE LimitsIInv'
  <2>1. Close(c) /\ ArmWindow("account") /\ deaths' = deaths
    BY <1>8 DEF SetFailureTtl
  <2>2. /\ window' \in [WindowKeys -> [count : Nat, ttl : {Endless} \cup 1 .. Window]]
        /\ window'["account"].count = window["account"].count
    BY <2>1, ExpireKeepsCounts DEF LimitsIInv, WindowKeys
  <2>3. "idle" \in CallStages \ {"password", "fail"} /\ deaths' \in 0 .. MaxDeaths
    BY <2>1 DEF LimitsIInv, LimitsTypeOK
  <2>4. QED
    BY <2>1, <2>2, <2>3, QuietStep
<1>9. ASSUME NEW c \in Clients, CallDies(c) PROVE LimitsIInv'
  <2>1. Close(c) /\ window' = window
    BY <1>9 DEF CallDies
  <2>2. "idle" \in CallStages \ {"password", "fail"}
    OBVIOUS
  <2>3. deaths' \in 0 .. MaxDeaths
    BY <1>9, LimitsAssumption DEF CallDies, LimitsIInv, LimitsTypeOK
  <2>4. QED
    BY <2>1, <2>2, <2>3, QuietStep DEF LimitsIInv, LimitsTypeOK
<1>10. ASSUME NEW k \in WindowKeys, Pace(k) PROVE LimitsIInv'
  <2>1. call' = call /\ deaths' = deaths
    BY <1>10 DEF Pace
  <2>2. /\ window[k].ttl \in 1 .. Window /\ window["account"].count \in Nat
        /\ window[k] \in [count : Nat, ttl : {Endless} \cup 1 .. Window]
    BY <1>10, LimitsAssumption DEF Pace, LimitsIInv, LimitsTypeOK, Endless, WindowKeys
  <2>3. PICK key \in {Closed, [count |-> window[k].count, ttl |-> window[k].ttl - 1]} :
          /\ window' = [window EXCEPT ![k] = key]
          /\ window[k].ttl = 1 => key = Closed
          /\ window[k].ttl # 1 => key = [count |-> window[k].count, ttl |-> window[k].ttl - 1]
    BY <1>10 DEF Pace
  <2>4. /\ key \in [count : Nat, ttl : {Endless} \cup 1 .. Window]
        /\ key.count <= window[k].count
    <3>1. CASE window[k].ttl = 1
      BY <2>2, <2>3, <3>1 DEF Closed, Endless
    <3>2. CASE window[k].ttl # 1
      <4>1. window[k].ttl - 1 \in 1 .. Window
        BY <2>2, <3>2, LimitsAssumption
      <4>2. QED
        BY <2>2, <2>3, <3>2, <4>1
    <3>3. QED
      BY <3>1, <3>2
  <2>5. /\ window' \in [WindowKeys -> [count : Nat, ttl : {Endless} \cup 1 .. Window]]
        /\ window'["account"].count <= window["account"].count
        /\ window'["account"].count \in Nat
    BY <2>2, <2>3, <2>4 DEF LimitsIInv, LimitsTypeOK, WindowKeys
  <2>6. LimitsTypeOK'
    BY <2>1, <2>5 DEF LimitsIInv, LimitsTypeOK
  <2>7. Guessing' = Guessing
    BY <2>1 DEF Guessing
  <2>8. QED
    BY <2>2, <2>5, <2>6, <2>7, GuessingFinite, LimitsAssumption DEF LimitsIInv, RoomForGuesses
<1>11. CASE UNCHANGED limitVars
  BY <1>11 DEF limitVars, LimitsIInv, LimitsTypeOK, RoomForGuesses, Guessing
<1>12. QED
  BY <1>1, <1>2, <1>3, <1>4, <1>5, <1>6, <1>7, <1>8, <1>9, <1>10, <1>11 DEF LimitsNext, Proceed

\* The invariant holds of every behaviour.
THEOREM LimitsInvariance == LimitsSpec => []LimitsIInv
<1>1. QED
  BY LimitsInitIInv, LimitsNextIInv, PTL DEF LimitsSpec

-----------------------------------------------------------------------------
\* The windows and the calls of the login form keep their types.
THEOREM LimitsTypeCorrect == LimitsSpec => []LimitsTypeOK
<1>1. LimitsIInv => LimitsTypeOK
  BY DEF LimitsIInv
<1>2. QED
  BY <1>1, LimitsInvariance, PTL

\* Of any number of parallel logins, no more than LOGIN_ACCOUNT_FAILURES and
\* one per further client get to try a password in one window.
THEOREM GuessingIsBounded == LimitsSpec => []GuessesBounded
<1>1. LimitsIInv => GuessesBounded
  <2> SUFFICES ASSUME LimitsIInv PROVE GuessesBounded
    OBVIOUS
  <2>1. window["account"].count \in Nat
    BY DEF LimitsIInv, LimitsTypeOK, WindowKeys
  <2>2. QED
    BY <2>1, GuessingFinite, LimitsAssumption DEF LimitsIInv, RoomForGuesses, GuessesBounded
<1>2. QED
  BY <1>1, LimitsInvariance, PTL

-----------------------------------------------------------------------------
(* UpstreamCalls, for every set of models and every hint.  Accounted says in *)
(* each phase what the attempts, the upstream, the breaker, the reservation  *)
(* and the client know of each other.                                        *)

\* What is known of the answer once the handler is done with it.
Ended ==
  \/ /\ answer = Answer(403, NoHint) /\ held = "none" /\ reported = "nothing" /\ delivered = 0
  \/ answer = Answer(200, NoHint) /\ held = "handed" /\ reported = "success" /\ delivered = 1
  \/ /\ answer = Answer(500, NoHint) /\ held = "held"
     /\ reply.status \notin {0, 200} /\ (ask.stream \/ ~Normalizes)
  \/ /\ answer.status \in {502, 504} /\ answer.after = NoHint /\ held = "freed"
  \/ /\ held = "freed" /\ reply \in Replies /\ Normalizes /\ answer = Normalized
     /\ reported = "success" /\ reply.status \in {400, 429}

Accounted ==
  /\ delivered <= 1
  /\ phase \in {"admit", "send"} => delivered = 0 /\ reported = "nothing" /\ answer = Pending
  /\ phase = "admit" => held = "none" /\ attempts = 0
  /\ phase = "send" => held = "held" /\ attempts <= 1
  /\ phase \in {"judge", "read"} =>
       /\ delivered = 1 /\ held = "held" /\ answer = Pending /\ reply \in Replies
  /\ phase = "judge" => reported = "nothing"
  /\ phase = "read" =>
       /\ reply.status # 200
       /\ reported = IF reply.status \in {400, 402, 422, 429} THEN "success" ELSE "failure"
  /\ phase = "done" => Ended

UpstreamIInv == UpstreamTypeOK /\ Accounted /\ OwnModels

-----------------------------------------------------------------------------
\* A hint is a number, and one that was given.
LEMMA HintFact == \A h \in Hints : h \in Int /\ h # NoHint
BY UpstreamAssumption

\* A time to come back is a natural number, and no earlier than the only hint.
LEMMA RetryAfterFact ==
  ASSUME reply \in Replies, Normalizes, reply.status = 429
  PROVE  /\ RetryAfter \in Nat
         /\ reply.header = NoHint /\ reply.body \in Hints => RetryAfter >= reply.body
<1>1. Hints \subseteq Int /\ NoHint \notin Int
  BY UpstreamAssumption
<1>2. ResetsAt \in Hints \cup {NoHint}
  BY DEF ResetsAt
<1>3. CASE reply.header \in Hints
  <2>1. RetryAfter = IF reply.header < 0 THEN 0 ELSE reply.header
    BY <1>3 DEF RetryAfter
  <2>2. reply.header \in Int
    BY <1>3, HintFact
  <2>3. reply.header # NoHint
    BY <1>3, HintFact
  <2>4. QED
    BY <2>1, <2>2, <2>3
<1>4. CASE reply.header \notin Hints /\ ResetsAt = NoHint
  <2>1. RetryAfter = 30
    BY <1>4 DEF RetryAfter
  <2>2. reply.body \notin Hints
    BY <1>1, <1>4, NoHint \notin Hints DEF ResetsAt
  <2>3. QED
    BY <2>1, <2>2
<1>5. CASE reply.header \notin Hints /\ ResetsAt # NoHint
  <2>1. RetryAfter = IF ResetsAt < 1 THEN 1 ELSE ResetsAt
    BY <1>5 DEF RetryAfter
  <2>2. ResetsAt \in Int
    BY <1>1, <1>2, <1>5
  <2>3. reply.body \in Hints => ResetsAt = reply.body
    BY DEF ResetsAt
  <2>4. QED
    BY <2>1, <2>2, <2>3
<1>6. QED
  BY <1>3, <1>4, <1>5

\* What a refusal by the upstream becomes.
LEMMA NormalizedFact ==
  ASSUME reply \in Replies, Normalizes, reply.status # 200
  PROVE  /\ Normalized \in [status : {400, 429, 502, 504}, after : Nat \cup {NoHint}]
         /\ Normalized.status = 400 => reply.status = 400
         /\ Normalized.status = 429 => reply.status = 429 /\ Normalized.after = RetryAfter
         /\ Normalized.status \in {502, 504} =>
              Normalized.after = NoHint /\ reply.status \notin {400, 429}
<1>1. CASE reply.status = 429
  <2>1. Normalized = Answer(429, RetryAfter)
    BY <1>1 DEF Normalized
  <2>2. QED
    BY <1>1, <2>1, RetryAfterFact DEF Answer
<1>2. CASE reply.status # 429
  BY <1>2 DEF Normalized, Answer
<1>3. QED
  BY <1>1, <1>2

-----------------------------------------------------------------------------
LEMMA UpstreamInitIInv == UpstreamInit => UpstreamIInv
BY DEF UpstreamInit, UpstreamIInv, UpstreamTypeOK, Accounted, OwnModels, UpstreamPayloads,
       NoPayload, NoPin, Pending, Answer

\* What a handler of exceptions leaves behind.
LEMMA GiveUpFact ==
  ASSUME NEW status \in {502, 504}, GiveUp(status)
  PROVE  /\ phase' = "done" /\ reported' = "failure" /\ held' = "freed"
         /\ answer' \in [status : {0, 200, 400, 403, 429, 500, 502, 504},
                         after : Nat \cup {NoHint}]
         /\ Ended'
BY DEF GiveUp, Answer, Ended

LEMMA UpstreamNextIInv == UpstreamIInv /\ [UpstreamNext]_upstreamVars => UpstreamIInv'
<1> SUFFICES ASSUME UpstreamIInv, [UpstreamNext]_upstreamVars PROVE UpstreamIInv'
  OBVIOUS
<1>1. CASE RefuseTier
  BY <1>1 DEF RefuseTier, UpstreamIInv, UpstreamTypeOK, Accounted, OwnModels, Chain, Answer, Ended
<1>2. CASE Prepare
  <2>1. Pin \subseteq Chain /\ Chain \subseteq Models
    BY DEF Pin, NoPin, Chain, UpstreamIInv, UpstreamTypeOK, Routes
  <2>2. /\ payload' \in UpstreamPayloads
        /\ payload'.models \cup payload'.pinned \subseteq Chain
        /\ payload'.names \subseteq {"messages"}
        /\ route.plugin \in {"auto-router", "pareto-router"} => payload'.pinned = Chain
    BY <1>2, <2>1 DEF Pin, Prepare, SanitizeRequest, UpstreamPayloads, UpstreamIInv,
                      UpstreamTypeOK, Asks, ClientFields
  <2>3. UpstreamTypeOK' /\ Accounted'
    BY <1>2, <2>2 DEF Prepare, UpstreamIInv, UpstreamTypeOK, Accounted
  <2>4. OwnModels'
    BY <1>2, <2>2 DEF Prepare, OwnModels, Chain
  <2>5. QED
    BY <2>3, <2>4 DEF UpstreamIInv
<1>3. CASE ConnectFails
  <2>1. CASE attempts = 0 /\ UNCHANGED <<reported, held, answer, phase>>
    BY <1>3, <2>1 DEF ConnectFails, UpstreamIInv, UpstreamTypeOK, Accounted, OwnModels, Chain
  <2>2. CASE attempts = 1 /\ GiveUp(502)
    BY <1>3, <2>2, GiveUpFact DEF ConnectFails, UpstreamIInv, UpstreamTypeOK, Accounted, OwnModels, Chain
  <2>3. QED
    BY <1>3, <2>1, <2>2 DEF ConnectFails
<1>4. CASE SendBreaks
  <2>1. PICK status \in {502, 504} : GiveUp(status)
    BY <1>4 DEF SendBreaks
  <2>2. /\ phase' = "done" /\ reported' = "failure" /\ held' = "freed" /\ Ended'
        /\ answer' \in [status : {0, 200, 400, 403, 429, 500, 502, 504},
                        after : Nat \cup {NoHint}]
    BY <2>1, GiveUpFact
  <2>3. delivered' \in {0, 1} /\ attempts' \in 0 .. 2
    BY <1>4 DEF SendBreaks, UpstreamIInv, UpstreamTypeOK, Accounted
  <2>4. QED
    BY <1>4, <2>2, <2>3 DEF SendBreaks, UpstreamIInv, UpstreamTypeOK, Accounted, OwnModels, Chain
<1>5. CASE Reply
  <2>1. reply' \in Replies
    BY <1>5 DEF Reply
  <2>2. QED
    BY <1>5, <2>1 DEF Reply, UpstreamIInv, UpstreamTypeOK, Accounted, OwnModels, Chain
<1>6. CASE Judge
  <2>1. CASE reply.status = 200
    BY <1>6, <2>1 DEF Judge, UpstreamIInv, UpstreamTypeOK, Accounted, OwnModels, Chain, Answer, Ended
  <2>2. CASE reply.status # 200
    BY <1>6, <2>2 DEF Judge, UpstreamIInv, UpstreamTypeOK, Accounted, OwnModels, Chain
  <2>3. QED
    BY <2>1, <2>2
<1>7. CASE Fail
  <2>1. reply \in Replies /\ reply.status # 200 /\ Normalizes
    BY <1>7 DEF Fail, UpstreamIInv, Accounted
  <2>2. /\ answer' = Normalized /\ held' = "freed" /\ phase' = "done"
        /\ reported' = reported /\ reply' = reply /\ delivered' = delivered
    BY <1>7 DEF Fail
  <2>3. Normalized' = Normalized /\ Normalizes'
    BY <2>1, <2>2 DEF Normalized, Normalizes, RetryAfter, ResetsAt
  <2>4. reply.status \in {400, 429} => reported = "success"
    BY <1>7 DEF Fail, UpstreamIInv, Accounted
  <2>5. Ended'
    BY <2>1, <2>2, <2>3, <2>4, NormalizedFact DEF Ended
  <2>6. answer' \in [status : {0, 200, 400, 403, 429, 500, 502, 504}, after : Nat \cup {NoHint}]
    BY <2>1, <2>2, NormalizedFact
  <2>7. QED
    BY <1>7, <2>2, <2>5, <2>6 DEF Fail, UpstreamIInv, UpstreamTypeOK, Accounted, OwnModels, Chain
<1>8. CASE Escape
  <2>1. reply \in Replies /\ reply.status \notin {0, 200} /\ (ask.stream \/ ~Normalizes)
    BY <1>8 DEF Escape, UpstreamIInv, Accounted, Replies, Statuses
  <2>2. Normalizes' = Normalizes
    BY <1>8 DEF Escape, Normalizes
  <2>3. QED
    BY <1>8, <2>1, <2>2
       DEF Escape, UpstreamIInv, UpstreamTypeOK, Accounted, OwnModels, Chain, Answer, Ended
<1>9. CASE UNCHANGED upstreamVars
  BY <1>9 DEF upstreamVars, UpstreamIInv, UpstreamTypeOK, Accounted, OwnModels, Chain, Ended,
              Normalized, Normalizes, RetryAfter, ResetsAt
<1>10. QED
  BY <1>1, <1>2, <1>3, <1>4, <1>5, <1>6, <1>7, <1>8, <1>9 DEF UpstreamNext

\* The invariant holds of every request.
THEOREM UpstreamInvariance == UpstreamSpec => []UpstreamIInv
BY UpstreamInitIInv, UpstreamNextIInv, PTL DEF UpstreamSpec

-----------------------------------------------------------------------------
\* A request, its payload and its answer keep their types.
THEOREM UpstreamTypeCorrect == UpstreamSpec => []UpstreamTypeOK
<1>1. UpstreamIInv => UpstreamTypeOK
  BY DEF UpstreamIInv
<1>2. QED
  BY <1>1, UpstreamInvariance, PTL

\* Whatever fails on the way to the upstream and back, the request reaches it at
\* most once and names its tier's models only; unless an exception escapes the
\* handlers, it is answered as the contract says, and its reservation is freed
\* or handed on; and one escapes only over an error of the upstream's, to a
\* stream or to a 429 whose Retry-After does not convert.
THEOREM HandledErrorsKept == UpstreamSpec => []HandledErrorsKeepTheContract
<1>1. UpstreamIInv => HandledErrorsKeepTheContract
  <2> SUFFICES ASSUME UpstreamIInv PROVE HandledErrorsKeepTheContract
    OBVIOUS
  <2>1. SentOnce /\ OwnModels
    BY DEF UpstreamIInv, Accounted, SentOnce
  <2>2. phase # "done" => answer = Pending
    BY DEF UpstreamIInv, UpstreamTypeOK, Accounted
  <2> DEFINE Handled == /\ Contract /\ Freed
                        /\ Escaped => reply.status \notin {0, 200} /\ (ask.stream \/ ~Normalizes)
  <2> SUFFICES Handled
    BY <2>1 DEF HandledErrorsKeepTheContract
  <2>3. CASE phase # "done"
    BY <2>2, <2>3 DEF Contract, Freed, Escaped, Pending, Answer
  <2>4. CASE phase = "done" /\ reply \in Replies /\ Normalizes /\ answer = Normalized
             /\ held = "freed" /\ reported = "success" /\ reply.status \in {400, 429}
    <3>1. answer.status \in {400, 429} /\ (answer.status = 429 => reply.status = 429
            /\ answer.after = RetryAfter)
      BY <2>4, NormalizedFact
    <3>2. answer.status = 429 =>
            /\ answer.after \in Nat
            /\ reply.header = NoHint /\ reply.body \in Hints => answer.after >= reply.body
      BY <2>4, <3>1, RetryAfterFact
    <3>3. QED
      BY <2>4, <3>1, <3>2 DEF Contract, Freed, Escaped
  <2>5. CASE phase = "done" /\ ~(/\ held = "freed" /\ reply \in Replies /\ Normalizes
                               /\ answer = Normalized /\ reported = "success"
                               /\ reply.status \in {400, 429})
    BY <2>5 DEF UpstreamIInv, Accounted, Ended, Contract, Freed, Escaped, Answer
  <2>6. QED
    BY <2>3, <2>4, <2>5
<1>2. QED
  BY <1>1, UpstreamInvariance, PTL

-----------------------------------------------------------------------------
(* Pricing, for every tier, every estimate and every counts an upstream may *)
(* report, negative and contradictory ones included.                        *)

\* What an upstream may report.
Measured == [prompt : Int, completion : Int, cached : Int, written : Int, reasoning : Int]

-----------------------------------------------------------------------------
\* The buckets of token_cost partition the tokens: none is counted twice.
THEOREM BucketsPartition ==
  ASSUME NEW used \in Measured
  PROVE  /\ Fresh(used) \in Nat /\ Cached(used) \in Nat /\ Written(used) \in Nat
         /\ Fresh(used) + Cached(used) + Written(used) = Larger(used.prompt, 0)
         /\ Visible(used) \in Nat /\ Reasoning(used) \in Nat
         /\ Visible(used) + Reasoning(used) = Larger(used.completion, 0)
<1>1. /\ used.prompt \in Int /\ used.completion \in Int /\ used.cached \in Int
      /\ used.written \in Int /\ used.reasoning \in Int
  BY DEF Measured
<1>2. Cached(used) \in Nat /\ Cached(used) <= Larger(used.prompt, 0)
  BY <1>1 DEF Cached, Larger, Smaller
<1>3. /\ Written(used) \in Nat
      /\ Written(used) <= Larger(used.prompt - Cached(used), 0)
  BY <1>1, <1>2 DEF Written, Larger, Smaller
<1>4. /\ Fresh(used) \in Nat
      /\ Fresh(used) + Cached(used) + Written(used) = Larger(used.prompt, 0)
  BY <1>1, <1>2, <1>3 DEF Fresh, Larger
<1>5. Reasoning(used) \in Nat /\ Reasoning(used) <= Larger(used.completion, 0)
  BY <1>1 DEF Reasoning, Larger, Smaller
<1>6. Visible(used) \in Nat /\ Visible(used) + Reasoning(used) = Larger(used.completion, 0)
  BY <1>1, <1>5 DEF Visible, Larger
<1>7. QED
  BY <1>2, <1>3, <1>4, <1>5, <1>6

-----------------------------------------------------------------------------
(* The amounts *)

LEMMA Monotone ==
  ASSUME NEW a \in Nat, NEW b \in Nat, NEW c \in Nat, b <= c
  PROVE  a * b \in Nat /\ a * c \in Nat /\ a * b <= a * c
<1>1. a * (c - b) \in Nat /\ a * c = a * b + a * (c - b) /\ a * b \in Nat
  OBVIOUS
<1>2. QED
  BY <1>1

\* Rounding keeps the order, and does not depend on the unit.
LEMMA QuantizeOrder ==
  ASSUME NEW n \in Nat, NEW m \in Nat, n <= m
  PROVE  /\ Quantize(n, 1000 * Scale) \in Nat /\ Quantize(m, 1000 * Scale) \in Nat
         /\ Quantize(n, 1000 * Scale) <= Quantize(m, 1000 * Scale)
BY DEF Quantize, Scale

LEMMA QuantizeFact ==
  ASSUME NEW m \in Nat
  PROVE  Quantize(Scale * m + (0 + 0), 1000 * Scale) = Quantize(m, 1000)
BY DEF Quantize, Scale

LEMMA TierFact ==
  ASSUME NEW rate \in Rates
  PROVE  /\ rate.input \in Nat /\ rate.output \in Nat /\ rate.cacheRead \in Nat
         /\ rate.cacheWrite \in Nat /\ rate.reasoning \in Nat
BY DEF Rates

\* What is charged is never negative, whatever counts are reported.
THEOREM CostIsNatural ==
  ASSUME NEW rate \in Rates, NEW used \in Measured
  PROVE  TokenCost(rate, used) \in Nat
<1>1. InputWeight(rate, used) \in Nat
  <2>1. Fresh(used) * Scale \in Nat /\ Cached(used) * rate.cacheRead \in Nat
        /\ Written(used) * rate.cacheWrite \in Nat
    BY TierFact, BucketsPartition DEF Scale
  <2>2. QED
    BY <2>1 DEF InputWeight
<1>2. OutputWeight(rate, used) \in Nat
  <2>1. Visible(used) * Scale \in Nat /\ Reasoning(used) * rate.reasoning \in Nat
    BY TierFact, BucketsPartition DEF Scale
  <2>2. QED
    BY <2>1 DEF OutputWeight
<1> DEFINE n == rate.input * InputWeight(rate, used) + rate.output * OutputWeight(rate, used)
<1>3. n \in Nat
  BY <1>1, <1>2, TierFact
<1> HIDE DEF n
<1>4. Quantize(n, 1000 * Scale) \in Nat
  BY <1>3 DEF Quantize, Scale
<1>5. QED
  BY <1>4 DEF TokenCost, n

\* A bucket at its rate, and at the full rate with the surcharge.
LEMMA BucketFact ==
  ASSUME NEW x \in Nat, NEW rate \in Nat
  PROVE  /\ x * rate \in Nat /\ x * Scale \in Nat /\ x * Excess(rate) \in Nat
         /\ x * rate <= x * Scale + x * Excess(rate)
<1>1. Excess(rate) \in Nat /\ Scale \in Nat /\ rate <= Scale + Excess(rate)
  BY DEF Excess, Larger, Scale
<1>2. x * rate \in Nat /\ x * rate <= x * (Scale + Excess(rate))
  BY <1>1, Monotone
<1>3. x * (Scale + Excess(rate)) = x * Scale + x * Excess(rate)
  BY <1>1
<1>4. x * Scale \in Nat /\ x * Excess(rate) \in Nat
  BY <1>1
<1>5. QED
  BY <1>2, <1>3, <1>4

\* The weight of some tokens, times what one costs.
LEMMA WeightFact ==
  ASSUME NEW rate \in Nat, NEW weight \in Nat, NEW tokens \in Nat, NEW more \in Nat,
         weight <= Scale * tokens + more
  PROVE  rate * weight <= Scale * (tokens * rate) + rate * more
<1>1. Scale * tokens \in Nat
  BY DEF Scale
<1>2. rate * weight <= rate * (Scale * tokens + more)
  BY <1>1, Monotone
<1>3. rate * (Scale * tokens + more) = rate * (Scale * tokens) + rate * more
  BY <1>1
<1>4. rate * (Scale * tokens) = Scale * (tokens * rate)
  BY DEF Scale
<1>5. QED
  BY <1>2, <1>3, <1>4

\* A request that stays within the counts it reserved settles for no more than
\* the reservation and the surcharge on the tokens that carry one, whatever its
\* tier and its buckets are; rounding does not break the tie.  Where no
\* multiplier is above 1 there is no surcharge.
THEOREM ReservationCovers ==
  ASSUME NEW rate \in Rates, NEW used \in Measured,
         NEW prompt \in Nat, NEW completion \in Nat,
         used.prompt <= prompt, used.completion <= completion
  PROVE  /\ TokenCost(rate, used) <= ReserveWithSurcharge(rate, prompt, completion, used)
         /\ ReserveWithSurcharge(rate, prompt, completion, used) \in Nat
         /\ rate.cacheRead <= Scale /\ rate.cacheWrite <= Scale /\ rate.reasoning <= Scale =>
              ReserveWithSurcharge(rate, prompt, completion, used)
                = ReserveAmount(rate, prompt, completion)
<1> DEFINE f == Fresh(used)
           r == Cached(used)
           w == Written(used)
           v == Visible(used)
           t == Reasoning(used)
           inMore == r * Excess(rate.cacheRead) + w * Excess(rate.cacheWrite)
           outMore == t * Excess(rate.reasoning)
<1>1. /\ f \in Nat /\ r \in Nat /\ w \in Nat /\ f + r + w <= prompt
      /\ v \in Nat /\ t \in Nat /\ v + t <= completion
  BY BucketsPartition DEF Larger, Measured
<1>2. /\ InputWeight(rate, used) = f * Scale + r * rate.cacheRead + w * rate.cacheWrite
      /\ OutputWeight(rate, used) = v * Scale + t * rate.reasoning
  BY DEF InputWeight, OutputWeight
<1>3. Surcharge(rate, used) = rate.input * inMore + rate.output * outMore
  BY DEF Surcharge
<1> HIDE DEF f, r, w, v, t
<1>4. /\ InputWeight(rate, used) \in Nat /\ inMore \in Nat
      /\ InputWeight(rate, used) <= Scale * prompt + inMore
  <2>1. /\ r * rate.cacheRead \in Nat /\ r * Scale \in Nat /\ r * Excess(rate.cacheRead) \in Nat
        /\ r * rate.cacheRead <= r * Scale + r * Excess(rate.cacheRead)
        /\ w * rate.cacheWrite \in Nat /\ w * Scale \in Nat /\ w * Excess(rate.cacheWrite) \in Nat
        /\ w * rate.cacheWrite <= w * Scale + w * Excess(rate.cacheWrite)
    BY <1>1, TierFact, BucketFact
  <2>2. f * Scale \in Nat /\ f * Scale + r * Scale + w * Scale <= Scale * prompt
    BY <1>1 DEF Scale
  <2>3. Scale * prompt \in Nat
    BY DEF Scale
  <2>4. QED
    BY <1>2, <2>1, <2>2, <2>3
<1>5. /\ OutputWeight(rate, used) \in Nat /\ outMore \in Nat
      /\ OutputWeight(rate, used) <= Scale * completion + outMore
  <2>1. /\ t * rate.reasoning \in Nat /\ t * Scale \in Nat /\ t * Excess(rate.reasoning) \in Nat
        /\ t * rate.reasoning <= t * Scale + t * Excess(rate.reasoning)
    BY <1>1, TierFact, BucketFact
  <2>2. v * Scale \in Nat /\ v * Scale + t * Scale <= Scale * completion
    BY <1>1 DEF Scale
  <2>3. Scale * completion \in Nat
    BY DEF Scale
  <2>4. QED
    BY <1>2, <2>1, <2>2, <2>3
<1>6. /\ rate.cacheRead <= Scale /\ rate.cacheWrite <= Scale => inMore = 0
      /\ rate.reasoning <= Scale => outMore = 0
  BY <1>1, TierFact DEF Excess, Larger, Scale
<1> HIDE DEF inMore, outMore
<1> DEFINE a == rate.input * InputWeight(rate, used)
           b == rate.output * OutputWeight(rate, used)
           p == prompt * rate.input
           q == completion * rate.output
           x == rate.input * inMore
           y == rate.output * outMore
<1>7. a \in Nat /\ b \in Nat /\ p \in Nat /\ q \in Nat /\ x \in Nat /\ y \in Nat
  BY <1>4, <1>5, TierFact
<1>8. a <= Scale * p + x
  BY <1>4, TierFact, WeightFact
<1>9. b <= Scale * q + y
  BY <1>5, TierFact, WeightFact
<1>10. /\ TokenCost(rate, used) = Quantize(a + b, 1000 * Scale)
       /\ ReserveAmount(rate, prompt, completion) = Quantize(p + q, 1000)
       /\ ReserveWithSurcharge(rate, prompt, completion, used)
            = Quantize(Scale * (p + q) + (x + y), 1000 * Scale)
  BY <1>3 DEF TokenCost, ReserveAmount, ReserveWithSurcharge
<1>11. /\ rate.cacheRead <= Scale /\ rate.cacheWrite <= Scale => x = 0
       /\ rate.reasoning <= Scale => y = 0
  BY <1>6, TierFact
<1> HIDE DEF a, b, p, q, x, y
<1>12. Quantize(a + b, 1000 * Scale) <= Quantize(Scale * (p + q) + (x + y), 1000 * Scale)
  <2>1. a + b <= Scale * (p + q) + (x + y)
    BY <1>7, <1>8, <1>9 DEF Scale
  <2>2. a + b \in Nat /\ Scale * (p + q) + (x + y) \in Nat
    BY <1>7 DEF Scale
  <2>3. QED
    BY <2>1, <2>2, QuantizeOrder
<1>13. Quantize(Scale * (p + q) + (x + y), 1000 * Scale) \in Nat
  <2>1. Scale * (p + q) + (x + y) \in Nat
    BY <1>7 DEF Scale
  <2>2. QED
    BY <2>1, QuantizeOrder
<1>14. x = 0 /\ y = 0 =>
         Quantize(Scale * (p + q) + (x + y), 1000 * Scale) = Quantize(p + q, 1000)
  BY <1>7, QuantizeFact
<1>15. QED
  BY <1>10, <1>11, <1>12, <1>13, <1>14

-----------------------------------------------------------------------------
(* Answers, for every body an upstream may send, every way to cut it into   *)
(* chunks and every tier.  ChargedAsRelayed speaks of what was relayed and  *)
(* settled; while a stream is under way, what keeps it true is that the     *)
(* buffer holds just the pieces after the lines passed on, and that the     *)
(* scanner has added up just those lines.                                   *)

\* What the buffer holds.
PieceRows == [line : Nat, part : {"head", "tail", "newline"}]

\* What the scanner knows of the first k lines.
Tally(k) ==
  [counts |-> [counter \in Counters |-> LastReport(counter, k, FreshScanner.counts[counter])],
   chars |-> Text[k]]

\* Of a stream that is being passed on.
Underway ==
  /\ 3 * Len(relayed) <= sent /\ sent <= Len(Pieces)
  /\ Len(buffer) = sent - 3 * Len(relayed)
  /\ \A i \in 1 .. Len(buffer) : buffer[i] = Pieces[3 * Len(relayed) + i]
  /\ scanner = Tally(Len(relayed))
  /\ stage = "read" => sent < 3 * Len(relayed) + 3

\* The line on its way when the client went may be counted or not; a fragment
\* at the end counts for nothing.
Concluded ==
  /\ \E j \in {Len(relayed), Len(relayed) + 1} : scanner = Tally(Smaller(j, Complete))
  /\ sent = Len(Pieces) /\ buffer = <<>> => scanner = Tally(Complete)

\* A plain answer has no pieces.
Whole ==
  /\ Len(body) = 1 /\ ending = "newline" /\ stage \in {"read", "settled", "lost"}
  /\ stage = "read" => relayed = <<>>

AnswersIInv ==
  /\ AnswersTypeOK
  /\ streaming /\ stage \in {"read", "split"} => Underway
  /\ streaming /\ stage = "closing" => Concluded
  /\ ~streaming => Whole
  /\ charged \in {0, TokenCost(Tier, bill)}
  /\ RelayedInOrder /\ ChargedForLines

-----------------------------------------------------------------------------
(* The lines and their pieces *)

\* The upstream's lines.
LEMMA BodyFact ==
  ASSUME AnswersTypeOK
  PROVE  /\ Len(body) \in Nat /\ DOMAIN body = 1 .. Len(body)
         /\ body = <<>> <=> Len(body) = 0
         /\ \A i \in 1 .. Len(body) :
              /\ body[i] \in Lines /\ body[i].data \in BOOLEAN /\ body[i].chars \in Nat
              /\ body[i].counts \in [Counters -> Int \cup {Absent}]
              /\ ~body[i].data => ~body[i].private
<1>1. body \in Seq(Lines)
  BY DEF AnswersTypeOK
<1>2. Len(body) \in Nat /\ DOMAIN body = 1 .. Len(body) /\ (body = <<>> <=> Len(body) = 0)
  BY <1>1, LenProperties, EmptySeq
<1>3. \A i \in 1 .. Len(body) : body[i] \in Lines
  BY <1>1, ElementOfSeq
<1>4. QED
  BY <1>2, <1>3, LinesAssumption

\* How many pieces the last line lacks, and how many lines are whole.
LEMMA EndingFact ==
  ASSUME AnswersTypeOK
  PROVE  /\ Endings[ending] \in 0 .. 2
         /\ ending = "newline" <=> Endings[ending] = 0
         /\ ending = "unterminated" <=> Endings[ending] = 1
         /\ ending = "cut" <=> Endings[ending] = 2
         /\ Complete = IF ending = "cut" /\ Len(body) # 0 THEN Len(body) - 1 ELSE Len(body)
         /\ Complete \in 0 .. Len(body)
<1>1. /\ Endings[ending] \in 0 .. 2
      /\ ending = "newline" <=> Endings[ending] = 0
      /\ ending = "unterminated" <=> Endings[ending] = 1
      /\ ending = "cut" <=> Endings[ending] = 2
  BY DEF AnswersTypeOK, Endings
<1>2. /\ Complete = IF ending = "cut" /\ Len(body) # 0 THEN Len(body) - 1 ELSE Len(body)
      /\ Complete \in 0 .. Len(body)
  BY BodyFact DEF Complete
<1>3. QED
  BY <1>1, <1>2

\* The pieces, line by line.
LEMMA PiecesFact ==
  ASSUME AnswersTypeOK
  PROVE  /\ Pieces \in Seq(PieceRows) /\ Len(Pieces) \in Nat
         /\ Len(Pieces) = IF Len(body) = 0 THEN 0 ELSE 3 * Len(body) - Endings[ending]
         /\ \A i \in 1 .. Len(Pieces) : Pieces[i] \in PieceRows
         /\ \A k \in Nat :
              /\ 3 * k + 1 <= Len(Pieces) => Pieces[3 * k + 1] = Piece(k + 1, "head")
              /\ 3 * k + 2 <= Len(Pieces) => Pieces[3 * k + 2] = Piece(k + 1, "tail")
              /\ 3 * k + 3 <= Len(Pieces) => Pieces[3 * k + 3] = Piece(k + 1, "newline")
<1> DEFINE n == IF Len(body) = 0 THEN 0 ELSE 3 * Len(body) - Endings[ending]
<1>1. n \in Nat /\ 1 .. n = 1 .. 3 * Len(body) - Endings[ending]
  BY EndingFact, BodyFact
<1>2. /\ DOMAIN Pieces = 1 .. n
      /\ \A i \in 1 .. n :
           Pieces[i] = Piece((i + 2) \div 3, <<"newline", "head", "tail">>[(i % 3) + 1])
      /\ Pieces = [i \in 1 .. n |-> Pieces[i]]
  BY <1>1 DEF Pieces
<1> HIDE DEF n
<1>3. ASSUME NEW i \in 1 .. n PROVE Pieces[i] \in PieceRows
  <2>1. i \in Nat
    BY <1>1
  <2>2. (i + 2) \div 3 \in Nat
    BY <2>1
  <2>3. <<"newline", "head", "tail">>[(i % 3) + 1] \in {"head", "tail", "newline"}
    BY <2>1
  <2>4. ASSUME NEW line \in Nat, NEW part \in {"head", "tail", "newline"}
        PROVE  Piece(line, part) \in PieceRows
    BY DEF Piece, PieceRows
  <2>5. QED
    BY <1>2, <2>2, <2>3, <2>4
<1>4. Pieces \in Seq(PieceRows) /\ Len(Pieces) = n
  <2>1. Pieces \in [1 .. n -> PieceRows]
    BY <1>2, <1>3
  <2>2. Pieces \in Seq(PieceRows)
    BY <1>1, <2>1, SeqDef
  <2>3. Len(Pieces) \in Nat /\ DOMAIN Pieces = 1 .. Len(Pieces)
    BY <2>2, LenProperties
  <2>4. 1 .. Len(Pieces) = 1 .. n
    BY <1>2, <2>3
  <2>5. n <= Len(Pieces)
    <3>1. n = 0 \/ n \in 1 .. n
      BY <1>1
    <3>2. QED
      BY <2>3, <2>4, <3>1
  <2>6. Len(Pieces) <= n
    <3>1. Len(Pieces) = 0 \/ Len(Pieces) \in 1 .. Len(Pieces)
      BY <2>3
    <3>2. QED
      BY <1>1, <2>4, <3>1
  <2>7. n \in Nat
    BY <1>1
  <2>8. Len(Pieces) \in Nat
    BY <2>3
  <2> DEFINE length == Len(Pieces)
  <2>9. length = n
    <3> HIDE DEF length
    <3>1. n <= length /\ length <= n /\ length \in Nat
      BY <2>5, <2>6, <2>8 DEF length
    <3>2. QED
      BY <2>7, <3>1
  <2>10. QED
    BY <2>2, <2>9
<1>5. ASSUME NEW k \in Nat
      PROVE  /\ 3 * k + 1 <= n => Pieces[3 * k + 1] = Piece(k + 1, "head")
             /\ 3 * k + 2 <= n => Pieces[3 * k + 2] = Piece(k + 1, "tail")
             /\ 3 * k + 3 <= n => Pieces[3 * k + 3] = Piece(k + 1, "newline")
  <2>1. /\ ((3 * k + 1) + 2) \div 3 = k + 1 /\ (3 * k + 1) % 3 = 1
        /\ ((3 * k + 2) + 2) \div 3 = k + 1 /\ (3 * k + 2) % 3 = 2
        /\ ((3 * k + 3) + 2) \div 3 = k + 1 /\ (3 * k + 3) % 3 = 0
    OBVIOUS
  <2>2. /\ 3 * k + 1 <= n => 3 * k + 1 \in 1 .. n
        /\ 3 * k + 2 <= n => 3 * k + 2 \in 1 .. n
        /\ 3 * k + 3 <= n => 3 * k + 3 \in 1 .. n
    BY <1>1
  <2>3. /\ <<"newline", "head", "tail">>[1 + 1] = "head"
        /\ <<"newline", "head", "tail">>[2 + 1] = "tail"
        /\ <<"newline", "head", "tail">>[0 + 1] = "newline"
    OBVIOUS
  <2>4. QED
    BY <1>2, <2>1, <2>2, <2>3
<1>6. QED
  BY <1>1, <1>3, <1>4, <1>5 DEF n

-----------------------------------------------------------------------------
(* What the scanner adds up *)

\* A set of natural numbers has a least one.
LEMMA LeastNumber ==
  ASSUME NEW B, B \subseteq Nat, B # {}
  PROVE  \E n \in B : \A m \in B : ~(m < n)
<1>1. PICK n \in B : \A m \in B : ~(<<m, n>> \in OpToRel(<, Nat))
  BY NatLessThanWellFounded, WFMin
<1>2. \A m \in B : ~(m < n)
  BY <1>1 DEF OpToRel
<1>3. QED
  BY <1>2

\* The prompt's estimate is a natural number.
LEMMA EstPromptFact == EstPrompt \in Nat
<1>1. /\ Prompt.messages \in Nat /\ Prompt.chars \in Nat /\ Prompt.blocks \in Nat
      /\ BlockTokens \in Nat
  BY AnswerAssumption
<1>2. Margin(TextTokens(Prompt.chars)) \in Nat /\ Prompt.blocks * BlockTokens \in Nat
  BY <1>1 DEF Margin, TextTokens, Larger
<1>3. QED
  BY <1>1, <1>2 DEF EstPrompt, EstimateMessages

\* The text is what its definition says.
LEMMA TextFact ==
  ASSUME AnswersTypeOK
  PROVE  /\ Text \in [0 .. Len(body) -> Nat]
         /\ Text[0] = 0
         /\ \A k \in 1 .. Len(body) : Text[k] = Text[k - 1] + body[k].chars
<1> DEFINE IsText(g, n) ==
             g = [k \in 0 .. n |-> IF k = 0 THEN 0 ELSE g[k - 1] + body[k].chars]
           Bad == {n \in 0 .. Len(body) : ~\E g \in [0 .. n -> Nat] : IsText(g, n)}
<1>1. Len(body) \in Nat /\ \A i \in 1 .. Len(body) : body[i].chars \in Nat
  BY BodyFact
<1>2. 0 \notin Bad
  <2> DEFINE g == [k \in 0 .. 0 |-> 0]
  <2>1. g \in [0 .. 0 -> Nat] /\ IsText(g, 0)
    OBVIOUS
  <2>2. QED
    BY <2>1
<1>3. ASSUME NEW n \in Nat, n + 1 \in 0 .. Len(body), n \notin Bad PROVE n + 1 \notin Bad
  <2>1. n \in 0 .. Len(body)
    BY <1>1, <1>3
  <2>2. PICK g \in [0 .. n -> Nat] : IsText(g, n)
    BY <1>3, <2>1
  <2> DEFINE h == [k \in 0 .. n + 1 |-> IF k = 0 THEN 0 ELSE g[k - 1] + body[k].chars]
  <2>3. \A k \in 0 .. n + 1 : k # 0 => k - 1 \in 0 .. n /\ body[k].chars \in Nat
    BY <1>1, <1>3
  <2>4. h \in [0 .. n + 1 -> Nat]
    BY <2>3
  <2>5. \A k \in 0 .. n : h[k] = g[k]
    BY <2>2
  <2>6. IsText(h, n + 1)
    <3>1. \A k \in 0 .. n + 1 : k # 0 => h[k - 1] = g[k - 1]
      BY <2>3, <2>5
    <3>2. QED
      BY <3>1
  <2>7. QED
    BY <2>4, <2>6
<1>4. Bad = {}
  <2>1. SUFFICES ASSUME Bad # {} PROVE FALSE
    OBVIOUS
  <2>2. Bad \subseteq Nat /\ Bad \subseteq 0 .. Len(body)
    BY <1>1
  <2> HIDE DEF Bad
  <2>3. PICK n \in Bad : \A m \in Bad : ~(m < n)
    BY <2>1, <2>2, LeastNumber
  <2>4. n # 0 /\ n - 1 \in Nat /\ n - 1 \notin Bad /\ (n - 1) + 1 \in 0 .. Len(body)
    BY <1>1, <1>2, <2>2, <2>3
  <2>5. (n - 1) + 1 \notin Bad
    BY <1>3, <2>4
  <2>6. QED
    BY <2>2, <2>3, <2>5
<1>5. PICK g \in [0 .. Len(body) -> Nat] : IsText(g, Len(body))
  BY <1>1, <1>4
<1>6. Text = [k \in 0 .. Len(body) |-> IF k = 0 THEN 0 ELSE Text[k - 1] + body[k].chars]
  <2> DEFINE t == CHOOSE t : t = [k \in 0 .. Len(body) |->
                                    IF k = 0 THEN 0 ELSE t[k - 1] + body[k].chars]
  <2>1. t = [k \in 0 .. Len(body) |-> IF k = 0 THEN 0 ELSE t[k - 1] + body[k].chars]
    BY <1>5
  <2>2. Text = t
    BY Zenon DEF Text
  <2> HIDE DEF t
  <2>3. QED
    BY <2>1, <2>2
<1>7. /\ Text[0] = 0
      /\ \A k \in 1 .. Len(body) : Text[k] = Text[k - 1] + body[k].chars
  BY <1>1, <1>6
<1>8. Text \in [0 .. Len(body) -> Nat]
  <2> DEFINE Worse == {k \in 0 .. Len(body) : Text[k] \notin Nat}
  <2>1. SUFFICES ASSUME Worse # {} PROVE FALSE
    BY <1>6
  <2>2. Worse \subseteq Nat
    BY <1>1
  <2>3. PICK n \in Worse : \A m \in Worse : ~(m < n)
    <3> HIDE DEF Worse
    <3>1. QED
      BY <2>1, <2>2, LeastNumber
  <2>4. n # 0 /\ n \in 1 .. Len(body) /\ n - 1 \in 0 .. Len(body) /\ n - 1 < n
    BY <1>1, <1>7
  <2>5. Text[n - 1] \in Nat
    BY <2>3, <2>4
  <2>6. QED
    BY <1>1, <1>7, <2>4, <2>5
<1>9. QED
  BY <1>7, <1>8

\* What a set of line numbers has as its maximum.
LEMMA LatestLine ==
  ASSUME NEW k \in Nat, NEW lines \in SUBSET (1 .. k), lines # {}
  PROVE  Max(lines) \in lines /\ \A i \in lines : i <= Max(lines)
<1> DEFINE Bounds == {n \in Nat : \A i \in lines : i <= n}
<1>1. k \in Bounds /\ Bounds \subseteq Nat
  OBVIOUS
<1>2. PICK n \in Bounds : \A m \in Bounds : ~(m < n)
  <2> HIDE DEF Bounds
  <2>1. QED
    BY <1>1, LeastNumber
<1>3. n \in lines
  <2>1. SUFFICES ASSUME n \notin lines PROVE FALSE
    OBVIOUS
  <2>2. \A i \in lines : i <= n - 1
    BY <2>1
  <2>3. n - 1 \in Nat
    <3>1. PICK i \in lines : TRUE
      OBVIOUS
    <3>2. i <= n - 1 /\ i \in 1 .. k
      BY <2>2, <3>1
    <3>3. QED
      BY <3>2
  <2>4. n - 1 \in Bounds
    BY <2>2, <2>3
  <2>5. QED
    BY <1>2, <2>4
<1>4. \E x \in lines : \A y \in lines : x >= y
  BY <1>2, <1>3
<1>5. Max(lines) \in lines /\ \A y \in lines : Max(lines) >= y
  BY <1>4 DEF Max
<1>6. QED
  BY <1>5

\* A report replaces earlier ones; without one the earlier ones stay.
LEMMA ReportNext ==
  ASSUME AnswersTypeOK, NEW k \in Nat, k + 1 <= Len(body), NEW counter \in Counters, NEW otherwise
  PROVE  LastReport(counter, k + 1, otherwise) =
           IF body[k + 1].counts[counter] # Absent THEN body[k + 1].counts[counter]
           ELSE LastReport(counter, k, otherwise)
<1> DEFINE Reporting(n) == {i \in 1 .. n : body[i].counts[counter] # Absent}
<1>1. CASE body[k + 1].counts[counter] # Absent
  <2>1. k + 1 \in Reporting(k + 1) /\ Reporting(k + 1) \in SUBSET (1 .. k + 1) /\ k + 1 \in Nat
    BY <1>1
  <2>2. Max(Reporting(k + 1)) \in 1 .. k + 1 /\ k + 1 <= Max(Reporting(k + 1))
    <3> HIDE DEF Reporting
    <3>1. QED
      BY <2>1, LatestLine
  <2>3. Max(Reporting(k + 1)) = k + 1
    <3> HIDE DEF Reporting
    <3>1. QED
      BY <2>2
  <2>4. QED
    BY <1>1, <2>1, <2>3 DEF LastReport
<1>2. CASE body[k + 1].counts[counter] = Absent
  <2>1. Reporting(k + 1) = Reporting(k)
    BY <1>2
  <2>2. QED
    BY <1>2, <2>1 DEF LastReport
<1>3. QED
  BY <1>1, <1>2

\* What stands in for a missing report does not matter otherwise.
LEMMA ReportFact ==
  ASSUME AnswersTypeOK, NEW k \in 0 .. Len(body), NEW counter \in Counters, NEW other
  PROVE  /\ LastReport(counter, k, Absent) = Absent \/ LastReport(counter, k, Absent) \in Int
         /\ LastReport(counter, k, other) =
              IF LastReport(counter, k, Absent) = Absent THEN other
              ELSE LastReport(counter, k, Absent)
<1> DEFINE Reporting == {i \in 1 .. k : body[i].counts[counter] # Absent}
<1>1. k \in Nat /\ Reporting \in SUBSET (1 .. k) /\ \A i \in 1 .. k : i \in 1 .. Len(body)
  BY BodyFact
<1>2. CASE Reporting = {}
  BY <1>2 DEF LastReport
<1>3. CASE Reporting # {}
  <2>1. Max(Reporting) \in Reporting
    <3> HIDE DEF Reporting
    <3>1. QED
      BY <1>1, <1>3, LatestLine
  <2>2. body[Max(Reporting)].counts[counter] \in Int
    BY <1>1, <2>1, BodyFact
  <2>3. body[Max(Reporting)].counts[counter] # Absent
    BY <2>1
  <2>4. \A o : LastReport(counter, k, o) = body[Max(Reporting)].counts[counter]
    BY <1>3 DEF LastReport
  <2>5. QED
    BY <2>2, <2>3, <2>4
<1>4. QED
  BY <1>2, <1>3

-----------------------------------------------------------------------------
\* Nothing is known before the first line, and each line adds what it says.
LEMMA TallyFact ==
  ASSUME AnswersTypeOK
  PROVE  /\ Tally(0) = FreshScanner
         /\ \A k \in Nat : k + 1 <= Len(body) => FeedLine(Tally(k), body[k + 1]) = Tally(k + 1)
<1>1. Len(body) \in Nat
  BY BodyFact
<1>2. Tally(0) = FreshScanner
  <2>1. \A counter \in Counters :
          LastReport(counter, 0, FreshScanner.counts[counter]) = FreshScanner.counts[counter]
    BY DEF LastReport
  <2>2. Text[0] = 0
    BY TextFact
  <2>3. QED
    BY <2>1, <2>2 DEF Tally, FreshScanner
<1>3. ASSUME NEW k \in Nat, k + 1 <= Len(body)
      PROVE  FeedLine(Tally(k), body[k + 1]) = Tally(k + 1)
  <2> DEFINE start(counter) == FreshScanner.counts[counter]
  <2>1. \A counter \in Counters :
          LastReport(counter, k + 1, start(counter)) =
            IF body[k + 1].counts[counter] # Absent THEN body[k + 1].counts[counter]
            ELSE LastReport(counter, k, start(counter))
    <3> HIDE DEF start
    <3>1. QED
      BY <1>3, ReportNext
  <2>2. Text[k + 1] = Text[k] + body[k + 1].chars
    <3>1. k + 1 \in 1 .. Len(body) /\ (k + 1) - 1 = k
      BY <1>1, <1>3
    <3>2. QED
      BY <3>1, TextFact
  <2>3. QED
    BY <2>1, <2>2 DEF Tally, FeedLine
<1>4. QED
  BY <1>2, <1>3

\* A fragment adds nothing, and is not passed on as an object.
LEMMA FragmentFact ==
  ASSUME AnswersTypeOK
  PROVE  FeedLine(scanner, Fragment) = scanner /\ Transform(Fragment) = Fragment
<1>1. scanner \in [counts : [Counters -> Int \cup {Absent}], chars : Nat]
  BY DEF AnswersTypeOK
<1>2. QED
  BY <1>1 DEF FeedLine, Fragment, Transform

\* What is billed after k lines is what k lines cost.
LEMMA BillFact ==
  ASSUME AnswersTypeOK, NEW k \in 0 .. Len(body)
  PROVE  BillFor(Tally(k)) = Charge(k)
<1> DEFINE c == [counter \in Counters |-> LastReport(counter, k, FreshScanner.counts[counter])]
           s == Tally(k)
           e == EstimateTokens(Text[k])
<1>1. s.counts = c /\ s.chars = Text[k]
  BY DEF Tally
<1>2. BillFor(s) = [counter \in Counters |->
                      IF counter = "prompt" /\ c[counter] = Absent THEN EstPrompt
                      ELSE IF counter = "completion" /\ c[counter] = Absent THEN e
                      ELSE c[counter]]
  <2> HIDE DEF c, s
  <2>1. QED
    BY <1>1 DEF BillFor, Counters, c
<1>3. \A counter \in {"prompt", "completion"} :
        c[counter] = LastReport(counter, k, Absent)
  BY DEF FreshScanner, Counters
<1>4. \A counter \in Counters \ {"prompt", "completion"} :
        c[counter] = LastReport(counter, k, 0)
  BY DEF FreshScanner
<1>5. \A counter \in Counters : \A other :
        LastReport(counter, k, other) =
          IF LastReport(counter, k, Absent) = Absent THEN other
          ELSE LastReport(counter, k, Absent)
  BY ReportFact
<1> HIDE DEF c, s, e
<1>6. Charge(k) = [counter \in Counters |->
                     LastReport(counter, k, IF counter = "prompt" THEN EstPrompt
                                            ELSE IF counter = "completion" THEN e ELSE 0)]
  BY DEF Charge, NoBill, Counters, e
<1>7. \A counter \in Counters : BillFor(s)[counter] = Charge(k)[counter]
  <2> SUFFICES ASSUME NEW counter \in Counters PROVE BillFor(s)[counter] = Charge(k)[counter]
    OBVIOUS
  <2>1. CASE counter = "prompt"
    BY <1>2, <1>3, <1>5, <1>6, <2>1
  <2>2. CASE counter = "completion"
    BY <1>2, <1>3, <1>5, <1>6, <2>2
  <2>3. CASE counter \notin {"prompt", "completion"}
    BY <1>2, <1>4, <1>6, <2>3
  <2>4. QED
    BY <2>1, <2>2, <2>3
<1>8. QED
  BY <1>2, <1>6, <1>7 DEF s

\* A charge is made of integers, and what it costs is a natural number.
LEMMA ChargeType ==
  ASSUME AnswersTypeOK, NEW k \in 0 .. Len(body)
  PROVE  Charge(k) \in [Counters -> Int]
<1> DEFINE otherwise == [NoBill EXCEPT !["prompt"] = EstPrompt,
                                       !["completion"] = EstimateTokens(Text[k])]
<1>1. EstimateTokens(Text[k]) \in Int /\ EstPrompt \in Int
  BY TextFact, EstPromptFact DEF EstimateTokens, Larger, TextTokens
<1>2. \A counter \in Counters : otherwise[counter] \in Int
  BY <1>1 DEF NoBill, Counters
<1> HIDE DEF otherwise
<1>3. \A counter \in Counters : LastReport(counter, k, otherwise[counter]) \in Int
  BY <1>2, ReportFact
<1>4. QED
  BY <1>3 DEF Charge, otherwise

\* What a bill costs.
LEMMA CostFact ==
  ASSUME NEW b \in [Counters -> Int]
  PROVE  b \in Measured /\ TokenCost(Tier, b) \in Nat
<1>1. b \in Measured
  BY DEF Measured, Counters
<1>2. QED
  BY <1>1, CostIsNatural, AnswerAssumption

-----------------------------------------------------------------------------
(* The steps *)

\* What is passed on of a line of the upstream's.
LEMMA TransformFact ==
  ASSUME AnswersTypeOK, NEW i \in 1 .. Len(body)
  PROVE  /\ Transform(body[i]) = [body[i] EXCEPT !.private = FALSE]
         /\ Transform(body[i]) \in {Fragment} \cup {Transform(line) : line \in Lines}
<1>1. body[i] \in Lines /\ (~body[i].data => ~body[i].private)
  BY BodyFact
<1>2. body[i] \in [data : BOOLEAN, counts : [Counters -> Int \cup {Absent}], chars : Nat,
                   private : BOOLEAN]
  BY <1>1, LinesAssumption
<1>3. CASE body[i].data
  BY <1>1, <1>3 DEF Transform
<1>4. CASE ~body[i].data
  <2>1. [body[i] EXCEPT !.private = FALSE] = body[i]
    BY <1>1, <1>2, <1>4
  <2>2. QED
    BY <1>1, <1>4, <2>1 DEF Transform
<1>5. QED
  BY <1>3, <1>4

\* The lines passed on stay in order when the next line is.
LEMMA PassedInOrder ==
  ASSUME AnswersTypeOK, RelayedInOrder, body' = body, ending' = ending, NEW line,
         relayed' = Append(relayed, Transform(line)),
         line \in Lines \cup {Fragment},
         Len(relayed) + 1 <= Complete => line = body[Len(relayed) + 1]
  PROVE  /\ RelayedInOrder'
         /\ Len(relayed') = Len(relayed) + 1
         /\ relayed' \in Seq({Fragment} \cup {Transform(l) : l \in Lines})
<1> DEFINE R == {Fragment} \cup {Transform(l) : l \in Lines}
<1>1. relayed \in Seq(R) /\ Transform(line) \in R
  BY FragmentFact DEF AnswersTypeOK
<1> HIDE DEF R
<1>2. /\ relayed' \in Seq(R) /\ Len(relayed') = Len(relayed) + 1 /\ Len(relayed) \in Nat
      /\ DOMAIN relayed = 1 .. Len(relayed) /\ DOMAIN relayed' = 1 .. Len(relayed) + 1
      /\ relayed'[Len(relayed) + 1] = Transform(line)
      /\ \A i \in 1 .. Len(relayed) : relayed'[i] = relayed[i]
  BY <1>1, AppendProperties, LenProperties
<1>3. Complete' = Complete
  BY DEF Complete
<1>4. ASSUME NEW i \in DOMAIN relayed', i <= Complete
      PROVE  relayed'[i] = [body[i] EXCEPT !.private = FALSE]
  <2>1. CASE i = Len(relayed) + 1
    <3>1. i \in 1 .. Len(body)
      BY <1>2, <1>4, BodyFact, EndingFact
    <3>2. QED
      BY <1>2, <1>4, <2>1, <3>1, TransformFact
  <2>2. CASE i \in DOMAIN relayed
    BY <1>2, <1>4, <2>2 DEF RelayedInOrder
  <2>3. QED
    BY <1>2, <2>1, <2>2
<1>5. QED
  BY <1>2, <1>3, <1>4 DEF RelayedInOrder, R

\* The least of two numbers.
LEMMA LeastOfTwo ==
  ASSUME NEW a \in Int, NEW b \in Int
  PROVE  Min({a, b}) = Smaller(a, b)
<1>1. \E m \in {a, b} : \A x \in {a, b} : m <= x
  OBVIOUS
<1>2. Min({a, b}) \in {a, b} /\ Min({a, b}) <= a /\ Min({a, b}) <= b
  BY <1>1 DEF Min
<1>3. QED
  BY <1>2 DEF Smaller

\* Initially nothing has arrived.
LEMMA AnswersInitIInv == AnswersInit => AnswersIInv
<1> SUFFICES ASSUME AnswersInit PROVE AnswersIInv
  OBVIOUS
<1>1. body \in Seq(Lines) /\ ending \in DOMAIN Endings /\ (~streaming => Len(body) = 1 /\ ending = "newline")
  <2>1. PICK n \in Nat : body \in [1 .. n -> Lines] /\ (~streaming => n = 1)
    BY AnswerAssumption DEF AnswersInit
  <2>2. body \in Seq(Lines) /\ DOMAIN body = 1 .. n
    BY <2>1, SeqDef
  <2>3. ~streaming => Len(body) = 1
    <3>1. Len(body) \in Nat /\ DOMAIN body = 1 .. Len(body)
      BY <2>2, LenProperties
    <3>2. SUFFICES ASSUME ~streaming PROVE Len(body) = 1
      OBVIOUS
    <3>3. 1 .. Len(body) = {1}
      BY <2>1, <2>2, <3>1, <3>2
    <3>4. 1 \in 1 .. Len(body) /\ (Len(body) = 0 \/ Len(body) \in 1 .. Len(body))
      BY <3>1, <3>3
    <3>5. QED
      BY <3>1, <3>3, <3>4
  <2>4. QED
    BY <2>2, <2>3 DEF AnswersInit, Endings
<1>2. FreshScanner \in [counts : [Counters -> Int \cup {Absent}], chars : Nat]
  BY DEF FreshScanner
<1>3. AnswersTypeOK
  BY <1>1, <1>2, EmptySeq DEF AnswersInit, AnswersTypeOK, NoBill
<1>4. Len(relayed) = 0 /\ Len(buffer) = 0 /\ DOMAIN relayed = {} /\ sent = 0 /\ stage = "read"
  BY DEF AnswersInit
<1>5. Underway
  <2>1. scanner = Tally(0)
    BY <1>3, TallyFact DEF AnswersInit
  <2>2. Len(Pieces) \in Nat
    BY <1>3, PiecesFact
  <2>3. QED
    BY <1>4, <2>1, <2>2 DEF Underway
<1>6. ~streaming => Whole
  BY <1>1 DEF Whole, AnswersInit
<1>7. RelayedInOrder /\ ChargedForLines
  BY <1>4 DEF RelayedInOrder, ChargedForLines
<1>8. QED
  BY <1>3, <1>4, <1>5, <1>6, <1>7 DEF AnswersIInv, AnswersInit

-----------------------------------------------------------------------------
\* Nothing that is said of the upstream's lines changes while they do not.
LEMMA SameBody ==
  ASSUME body' = body, ending' = ending
  PROVE  /\ Pieces' = Pieces /\ Complete' = Complete
         /\ \A k : Tally(k)' = Tally(k) /\ Charge(k)' = Charge(k)
<1>1. Pieces' = Pieces /\ Complete' = Complete
  BY DEF Pieces, Complete
<1>2. Text' = Text
  BY DEF Text
<1>3. ASSUME NEW k PROVE Tally(k)' = Tally(k) /\ Charge(k)' = Charge(k)
  <2>1. \A counter, other : LastReport(counter, k, other)' = LastReport(counter, k, other)
    BY DEF LastReport
  <2>2. Tally(k)' = Tally(k)
    BY <1>2 DEF Tally, LastReport
  <2>3. Charge(k)' = Charge(k)
    BY <1>2 DEF Charge, LastReport
  <2>4. QED
    BY <2>2, <2>3
<1>4. QED
  BY <1>1, <1>3

\* The lengths and the pieces of the buffer.
LEMMA BufferFact ==
  ASSUME AnswersTypeOK, Underway
  PROVE  /\ buffer \in Seq(PieceRows) /\ Len(buffer) \in Nat /\ DOMAIN buffer = 1 .. Len(buffer)
         /\ buffer = <<>> <=> Len(buffer) = 0
         /\ Len(relayed) \in Nat /\ sent \in Nat /\ Len(buffer) = sent - 3 * Len(relayed)
         /\ \A i \in 1 .. Len(buffer) : buffer[i] = Pieces[3 * Len(relayed) + i]
         /\ sent >= 3 * Len(relayed) + 1 => buffer[1] = Piece(Len(relayed) + 1, "head")
         /\ sent >= 3 * Len(relayed) + 2 => buffer[2] = Piece(Len(relayed) + 1, "tail")
         /\ sent >= 3 * Len(relayed) + 3 => buffer[3] = Piece(Len(relayed) + 1, "newline")
<1>1. /\ buffer \in Seq(PieceRows) /\ Len(buffer) \in Nat /\ DOMAIN buffer = 1 .. Len(buffer)
      /\ buffer = <<>> <=> Len(buffer) = 0
  BY LenProperties, EmptySeq DEF AnswersTypeOK, PieceRows
<1>2. Len(relayed) \in Nat /\ sent \in Nat
  BY LenProperties DEF AnswersTypeOK
<1>3. /\ Len(buffer) = sent - 3 * Len(relayed) /\ sent <= Len(Pieces)
      /\ \A i \in 1 .. Len(buffer) : buffer[i] = Pieces[3 * Len(relayed) + i]
  BY DEF Underway
<1> DEFINE k == Len(relayed)
<1>4. /\ sent >= 3 * k + 1 => 1 \in 1 .. Len(buffer) /\ 3 * k + 1 <= Len(Pieces)
      /\ sent >= 3 * k + 2 => 2 \in 1 .. Len(buffer) /\ 3 * k + 2 <= Len(Pieces)
      /\ sent >= 3 * k + 3 => 3 \in 1 .. Len(buffer) /\ 3 * k + 3 <= Len(Pieces)
  BY <1>1, <1>2, <1>3, PiecesFact
<1>5. k \in Nat
  BY <1>2
<1>6. /\ sent >= 3 * k + 1 => buffer[1] = Piece(k + 1, "head")
      /\ sent >= 3 * k + 2 => buffer[2] = Piece(k + 1, "tail")
      /\ sent >= 3 * k + 3 => buffer[3] = Piece(k + 1, "newline")
  BY <1>3, <1>4, <1>5, PiecesFact
<1>7. QED
  BY <1>1, <1>2, <1>3, <1>6

\* A newline in the buffer ends the line after those passed on.
LEMMA CutFact ==
  ASSUME AnswersTypeOK, Underway
  PROVE  SelectInSeq(buffer, EndsLine) = IF sent >= 3 * Len(relayed) + 3 THEN 3 ELSE 0
<1> DEFINE k == Len(relayed)
           I == {i \in 1 .. Len(buffer) : EndsLine(buffer[i])}
<1>1. SelectInSeq(buffer, EndsLine) = IF I # {} THEN Min(I) ELSE 0
  BY DEF SelectInSeq
<1>2. /\ Len(buffer) \in Nat /\ k \in Nat /\ sent \in Nat /\ Len(buffer) = sent - 3 * k
  BY BufferFact
<1>3. 1 \notin I /\ 2 \notin I
  <2>1. Len(buffer) >= 1 => buffer[1].part = "head"
    BY <1>2, BufferFact DEF Piece
  <2>2. Len(buffer) >= 2 => buffer[2].part = "tail"
    BY <1>2, BufferFact DEF Piece
  <2>3. QED
    BY <1>2, <2>1, <2>2 DEF EndsLine
<1>4. CASE sent >= 3 * k + 3
  <2>1. buffer[3].part = "newline" /\ 3 \in 1 .. Len(buffer)
    BY <1>2, <1>4, BufferFact DEF Piece
  <2>2. 3 \in I /\ \A i \in I : i \in Nat /\ i >= 3
    BY <1>2, <1>3, <2>1 DEF EndsLine
  <2> HIDE DEF I
  <2>3. \E x \in I : \A y \in I : x <= y
    BY <2>2
  <2>4. Min(I) \in I /\ \A y \in I : Min(I) <= y
    BY <2>3 DEF Min
  <2>5. Min(I) = 3
    BY <2>2, <2>4
  <2>6. QED
    BY <1>1, <1>4, <2>2, <2>5
<1>5. CASE ~(sent >= 3 * k + 3)
  <2>1. I = {}
    BY <1>2, <1>3, <1>5
  <2>2. QED
    BY <1>1, <1>5, <2>1
<1>6. QED
  BY <1>4, <1>5

\* A whole line is recognized; less than two pieces are none.
LEMMA ParseFact ==
  ASSUME AnswersTypeOK, NEW pieces \in Seq(PieceRows), NEW k \in Nat
  PROVE  /\ Len(pieces) = 1 => Parse(pieces) = Fragment
         /\ /\ Len(pieces) = 2 /\ k + 1 <= Len(body)
            /\ pieces[1] = Piece(k + 1, "head") /\ pieces[2] = Piece(k + 1, "tail")
            => Parse(pieces) = body[k + 1]
<1>1. CASE Len(pieces) = 1
  <2>1. \A i : pieces # <<Piece(i, "head"), Piece(i, "tail")>>
    BY <1>1
  <2>2. QED
    BY <1>1, <2>1 DEF Parse
<1>2. CASE /\ Len(pieces) = 2 /\ k + 1 <= Len(body)
           /\ pieces[1] = Piece(k + 1, "head") /\ pieces[2] = Piece(k + 1, "tail")
  <2>1. pieces = <<Piece(k + 1, "head"), Piece(k + 1, "tail")>>
    <3> DEFINE line == <<Piece(k + 1, "head"), Piece(k + 1, "tail")>>
    <3>1. line \in Seq(PieceRows) /\ Len(line) = 2
      BY DEF Piece, PieceRows
    <3>2. \A i \in 1 .. Len(pieces) : pieces[i] = line[i]
      BY <1>2
    <3> HIDE DEF line
    <3>3. pieces = line
      BY <1>2, <3>1, <3>2, SeqEqual
    <3>4. QED
      BY <3>3 DEF line
  <2>2. k + 1 \in DOMAIN body
    BY <1>2, BodyFact
  <2>3. \E i \in DOMAIN body : pieces = <<Piece(i, "head"), Piece(i, "tail")>>
    BY <2>1, <2>2
  <2>4. pieces[1].line = k + 1
    BY <1>2 DEF Piece
  <2>5. QED
    BY <1>2, <2>3, <2>4 DEF Parse
<1>3. QED
  BY <1>1, <1>2

\* The same of r lines passed on, s pieces arrived, and a body of b lines, whose
\* last lacks e of its pieces.
LEMMA WholeNumbers ==
  ASSUME NEW r \in Nat, NEW s \in Nat, NEW b \in Nat, NEW e \in 0 .. 2, NEW whole \in Nat,
         b # 0, whole = IF e = 2 THEN b - 1 ELSE b,
         3 * r <= s, s <= 3 * b - e
  PROVE  /\ r \in 0 .. whole
         /\ s >= 3 * r + 3 => r + 1 <= whole
         /\ s = 3 * b - e /\ s \in {3 * r, 3 * r + 1} => r = whole
         /\ s = 3 * b - e /\ s \in {3 * r + 2, 3 * r + 3} => r + 1 = whole
<1>1. CASE e = 0
  BY <1>1
<1>2. CASE e = 1
  BY <1>2
<1>3. CASE e = 2
  BY <1>3
<1>4. QED
  BY <1>1, <1>2, <1>3

\* The lines passed on are whole; once all has arrived they are all there is.
LEMMA WholeLines ==
  ASSUME AnswersTypeOK, Underway
  PROVE  /\ Len(relayed) \in 0 .. Complete
         /\ sent >= 3 * Len(relayed) + 3 => Len(relayed) + 1 <= Complete
         /\ sent = Len(Pieces) /\ sent = 3 * Len(relayed) => Len(relayed) = Complete
         /\ sent = Len(Pieces) /\ sent = 3 * Len(relayed) + 1 => Len(relayed) = Complete
         /\ sent = Len(Pieces) /\ sent = 3 * Len(relayed) + 2 => Len(relayed) + 1 = Complete
         /\ sent = Len(Pieces) /\ sent = 3 * Len(relayed) + 3 => Len(relayed) + 1 = Complete
<1>1. /\ Len(relayed) \in Nat /\ sent \in Nat /\ 3 * Len(relayed) <= sent /\ sent <= Len(Pieces)
      /\ Len(body) \in Nat
  BY BufferFact, BodyFact DEF Underway
<1>2. CASE Len(body) = 0
  BY <1>1, <1>2, PiecesFact, EndingFact
<1>3. CASE Len(body) # 0
  <2>1. /\ Endings[ending] \in 0 .. 2 /\ Complete \in Nat
        /\ Complete = IF Endings[ending] = 2 THEN Len(body) - 1 ELSE Len(body)
    BY <1>1, <1>3, EndingFact
  <2>2. Len(Pieces) = 3 * Len(body) - Endings[ending]
    BY <1>3, PiecesFact
  <2>3. /\ Len(relayed) \in 0 .. Complete
        /\ sent >= 3 * Len(relayed) + 3 => Len(relayed) + 1 <= Complete
        /\ sent = Len(Pieces) /\ sent \in {3 * Len(relayed), 3 * Len(relayed) + 1}
             => Len(relayed) = Complete
        /\ sent = Len(Pieces) /\ sent \in {3 * Len(relayed) + 2, 3 * Len(relayed) + 3}
             => Len(relayed) + 1 = Complete
    <3>1. PICK r \in Nat, s \in Nat, b \in Nat, e \in 0 .. 2, whole \in Nat :
            /\ r = Len(relayed) /\ s = sent /\ b = Len(body) /\ e = Endings[ending]
            /\ whole = Complete
      BY <1>1, <2>1
    <3>2. /\ b # 0 /\ whole = IF e = 2 THEN b - 1 ELSE b
          /\ 3 * r <= s /\ s <= 3 * b - e /\ Len(Pieces) = 3 * b - e
      BY <1>1, <1>3, <2>1, <2>2, <3>1
    <3>3. /\ r \in 0 .. whole
          /\ s >= 3 * r + 3 => r + 1 <= whole
          /\ s = 3 * b - e /\ s \in {3 * r, 3 * r + 1} => r = whole
          /\ s = 3 * b - e /\ s \in {3 * r + 2, 3 * r + 3} => r + 1 = whole
      BY <3>2, WholeNumbers
    <3>4. QED
      BY <3>1, <3>2, <3>3
  <2>4. QED
    BY <2>3
<1>4. QED
  BY <1>2, <1>3

\* A plain answer is settled for its only line.
LEMMA PlainKeeps ==
  ASSUME AnswersIInv, AnswerPlain PROVE AnswersIInv'
<1>1. /\ ~streaming /\ stage = "read" /\ AnswersTypeOK /\ Whole /\ RelayedInOrder
      /\ relayed = <<>> /\ Len(body) = 1 /\ ending = "newline"
      /\ charged \in {0, TokenCost(Tier, bill)}
      /\ UNCHANGED <<streaming, body, ending, sent, buffer, scanner>>
  BY DEF AnswersIInv, AnswerPlain, Whole
<1>2. CASE ~body[1].data
  <2>1. stage' = "lost" /\ UNCHANGED <<relayed, bill, charged>>
    BY <1>1, <1>2 DEF AnswerPlain
  <2>2. AnswersTypeOK'
    BY <1>1, <2>1 DEF AnswersTypeOK
  <2>3. RelayedInOrder'
    BY <1>1, <2>1, SameBody DEF RelayedInOrder
  <2>4. QED
    BY <1>1, <2>1, <2>2, <2>3 DEF AnswersIInv, Whole, ChargedForLines
<1>3. CASE body[1].data
  <2>1. /\ relayed' = <<Transform(body[1])>> /\ stage' = "settled"
        /\ bill' = BillFor(FeedLine(FreshScanner, body[1])) /\ charged' = TokenCost(Tier, bill')
    BY <1>1, <1>3 DEF AnswerPlain, Settle
  <2>2. FeedLine(FreshScanner, body[1]) = Tally(1)
    <3>1. 0 + 1 <= Len(body) /\ 0 \in Nat /\ 0 + 1 = 1
      BY <1>1
    <3>2. QED
      BY <1>1, <3>1, TallyFact
  <2>3. bill' = Charge(1) /\ bill' \in [Counters -> Int]
    <3>1. 1 \in 0 .. Len(body)
      BY <1>1
    <3>2. QED
      BY <1>1, <2>1, <2>2, <3>1, BillFact, ChargeType
  <2>4. charged' \in Nat
    BY <2>1, <2>3, CostFact
  <2>5. Complete = 1 /\ body[1] \in Lines
    BY <1>1, EndingFact, BodyFact
  <2>6. relayed' = Append(relayed, Transform(body[1])) /\ Len(relayed) + 1 = 1
    BY <1>1, <2>1
  <2>7. /\ RelayedInOrder' /\ Len(relayed') = 1
        /\ relayed' \in Seq({Fragment} \cup {Transform(l) : l \in Lines})
    BY <1>1, <2>5, <2>6, PassedInOrder
  <2>8. AnswersTypeOK'
    BY <1>1, <2>1, <2>3, <2>4, <2>7 DEF AnswersTypeOK
  <2>9. ChargedForLines'
    <3>1. Complete' = 1 /\ bill' = Charge(1)' /\ bill' = Charge(Complete)'
      BY <1>1, <2>3, <2>5, SameBody
    <3>2. Min({1, 1}) = 1
      BY LeastOfTwo DEF Smaller
    <3>3. bill' = Charge(Min({1, Complete}))'
      BY <3>1, <3>2
    <3>4. QED
      BY <2>7, <3>1, <3>3 DEF ChargedForLines
  <2>10. QED
    BY <1>1, <2>1, <2>7, <2>8, <2>9 DEF AnswersIInv, Whole
<1>4. QED
  BY <1>2, <1>3

\* A step of a stream that settles nothing and passes nothing on keeps what is
\* said of what was relayed and charged.
LEMMA StreamKeeps ==
  ASSUME AnswersIInv, streaming, UNCHANGED <<streaming, body, ending, bill, charged>>,
         AnswersTypeOK', RelayedInOrder', stage' # "settled",
         stage' \in {"read", "split"} => Underway',
         stage' = "closing" => Concluded'
  PROVE  AnswersIInv'
BY DEF AnswersIInv, ChargedForLines

\* Nothing passed on, nothing out of order.
LEMMA SameRelayed ==
  ASSUME AnswersTypeOK, RelayedInOrder, UNCHANGED <<body, ending, relayed>> PROVE RelayedInOrder'
BY SameBody DEF RelayedInOrder

\* A chunk prolongs the buffer by the pieces that follow.
LEMMA ReceiveKeeps ==
  ASSUME AnswersIInv, ReceiveChunk PROVE AnswersIInv'
<1>1. /\ streaming /\ stage = "read" /\ AnswersTypeOK /\ Underway /\ RelayedInOrder
      /\ stage' = "split" /\ UNCHANGED <<streaming, body, ending, scanner, relayed, bill, charged>>
  BY DEF AnswersIInv, ReceiveChunk
<1>2. PICK n \in sent + 1 .. Len(Pieces) :
        buffer' = buffer \o SubSeq(Pieces, sent + 1, n) /\ sent' = n
  BY DEF ReceiveChunk
<1> DEFINE chunk == SubSeq(Pieces, sent + 1, n)
           k == Len(relayed)
<1>3. /\ buffer \in Seq(PieceRows) /\ Len(buffer) \in Nat /\ k \in Nat /\ sent \in Nat
      /\ Len(buffer) = sent - 3 * k /\ Len(Pieces) \in Nat /\ n \in Nat
      /\ \A i \in 1 .. Len(buffer) : buffer[i] = Pieces[3 * k + i]
  BY <1>1, <1>2, BufferFact, PiecesFact
<1>4. /\ chunk \in Seq(PieceRows) /\ Len(chunk) = n - sent
      /\ \A i \in 1 .. n - sent : chunk[i] = Pieces[sent + i]
  <2>1. \A i \in sent + 1 .. n : Pieces[i] \in PieceRows
    BY <1>1, <1>2, <1>3, PiecesFact
  <2>2. sent + 1 \in Int /\ n \in Int /\ sent + 1 <= n
    BY <1>2, <1>3
  <2> DEFINE a == sent + 1
  <2>3. /\ SubSeq(Pieces, a, n) \in Seq(PieceRows)
        /\ Len(SubSeq(Pieces, a, n)) = IF a <= n THEN n - a + 1 ELSE 0
        /\ \A i \in 1 .. n - a + 1 : SubSeq(Pieces, a, n)[i] = Pieces[a + i - 1]
    <3> HIDE DEF a
    <3>1. a \in Int /\ n \in Int /\ \A i \in a .. n : Pieces[i] \in PieceRows
      BY <2>1, <2>2 DEF a
    <3>2. QED
      BY <3>1, SubSeqProperties
  <2>4. n - a + 1 = n - sent /\ \A i \in 1 .. n - sent : a + i - 1 = sent + i
    BY <1>3
  <2>5. QED
    BY <2>2, <2>3, <2>4
<1> HIDE DEF chunk
<1>5. /\ buffer' \in Seq(PieceRows) /\ Len(buffer') = n - 3 * k
      /\ \A i \in 1 .. Len(buffer') :
           buffer'[i] = IF i <= Len(buffer) THEN buffer[i] ELSE chunk[i - Len(buffer)]
  <2>1. buffer' = buffer \o chunk
    BY <1>2 DEF chunk
  <2>2. /\ buffer' \in Seq(PieceRows) /\ Len(buffer') = Len(buffer) + Len(chunk)
        /\ \A i \in 1 .. Len(buffer) + Len(chunk) :
             buffer'[i] = IF i <= Len(buffer) THEN buffer[i] ELSE chunk[i - Len(buffer)]
    BY <1>3, <1>4, <2>1, ConcatProperties
  <2>3. QED
    BY <1>3, <1>4, <2>2
<1>6. \A i \in 1 .. Len(buffer') : buffer'[i] = Pieces[3 * k + i]
  <2> SUFFICES ASSUME NEW i \in 1 .. Len(buffer') PROVE buffer'[i] = Pieces[3 * k + i]
    OBVIOUS
  <2>1. CASE i <= Len(buffer)
    BY <1>3, <1>5, <2>1
  <2>2. CASE ~(i <= Len(buffer))
    <3>1. i - Len(buffer) \in 1 .. n - sent /\ sent + (i - Len(buffer)) = 3 * k + i
      BY <1>3, <1>5, <2>2
    <3>2. chunk[i - Len(buffer)] = Pieces[sent + (i - Len(buffer))]
      BY <1>4, <3>1
    <3>3. QED
      BY <1>5, <2>2, <3>1, <3>2
  <2>3. QED
    BY <2>1, <2>2
<1>7. Underway'
  <2>1. Pieces' = Pieces /\ scanner' = Tally(k)'
    BY <1>1, SameBody DEF Underway
  <2>2. 3 * k <= n /\ n <= Len(Pieces) /\ sent' = n
    BY <1>2, <1>3
  <2>3. QED
    BY <1>1, <1>5, <1>6, <2>1, <2>2 DEF Underway
<1>8. AnswersTypeOK'
  BY <1>1, <1>2, <1>3, <1>5 DEF AnswersTypeOK, PieceRows
<1>9. QED
  BY <1>1, <1>7, <1>8, SameRelayed, StreamKeeps

\* The look for another newline, and the ends of a stream that pass nothing on.
LEMMA QuietKeeps ==
  ASSUME AnswersIInv, streaming, stage \in {"read", "split"},
         UNCHANGED <<streaming, body, ending, sent, buffer, scanner, relayed, bill, charged>>,
         \/ stage' = "closing"
         \/ stage' = "read" /\ SelectInSeq(buffer, EndsLine) = 0
  PROVE  AnswersIInv'
<1>1. AnswersTypeOK /\ Underway /\ RelayedInOrder
  BY DEF AnswersIInv
<1>2. AnswersTypeOK' /\ RelayedInOrder'
  BY <1>1, SameRelayed DEF AnswersTypeOK
<1>3. stage' = "read" => Underway'
  <2>1. stage' = "read" => sent < 3 * Len(relayed) + 3
    BY <1>1, CutFact, BufferFact
  <2>2. QED
    BY <1>1, <2>1, SameBody DEF Underway
<1>4. Concluded
  <2>1. scanner = Tally(Len(relayed)) /\ Len(relayed) \in Nat /\ Complete \in Nat
    BY <1>1, BufferFact, EndingFact, BodyFact DEF Underway
  <2>2. Len(relayed) <= Complete
    BY <1>1, <2>1, WholeLines
  <2>3. Smaller(Len(relayed), Complete) = Len(relayed)
    BY <2>1, <2>2 DEF Smaller
  <2>4. ASSUME sent = Len(Pieces), buffer = <<>> PROVE Len(relayed) = Complete
    <3>1. sent = 3 * Len(relayed)
      BY <1>1, <2>4, BufferFact
    <3>2. QED
      BY <1>1, <2>4, <3>1, WholeLines
  <2>5. QED
    BY <2>1, <2>3, <2>4 DEF Concluded
<1>5. Concluded'
  BY <1>4, SameBody DEF Concluded
<1>6. QED
  BY <1>2, <1>3, <1>5, StreamKeeps

\* A line that is passed on, or lost with the client that goes.
LEMMA PassKeeps ==
  ASSUME AnswersIInv, streaming, stage \in {"read", "split"}, NEW line, NEW next,
         line \in Lines \cup {Fragment},
         FeedLine(scanner, line) = Tally(Smaller(Len(relayed) + 1, Complete)),
         Len(relayed) + 1 <= Complete => line = body[Len(relayed) + 1],
         sent = Len(Pieces) /\ buffer' = <<>> => Len(relayed) + 1 >= Complete,
         scanner' = FeedLine(scanner, line),
         \/ relayed' = Append(relayed, Transform(line)) /\ stage' = next
         \/ UNCHANGED relayed /\ stage' = "closing",
         UNCHANGED <<streaming, body, ending, sent, bill, charged>>,
         buffer' \in Seq(PieceRows),
         \/ next = "closing"
         \/ /\ next = "split" /\ Len(relayed) + 1 <= Complete
            /\ 3 * Len(relayed) + 3 <= sent
            /\ Len(buffer') = sent - (3 * Len(relayed) + 3)
            /\ \A i \in 1 .. Len(buffer') : buffer'[i] = Pieces[3 * Len(relayed) + 3 + i]
  PROVE  AnswersIInv'
<1>0. PICK k, m : k = Len(relayed) /\ m = Smaller(k + 1, Complete)
  OBVIOUS
<1>1. AnswersTypeOK /\ Underway /\ RelayedInOrder
  BY DEF AnswersIInv
<1>2. k \in Nat /\ sent \in Nat /\ Complete \in Nat /\ Complete <= Len(body) /\ Len(body) \in Nat
  BY <1>0, <1>1, BufferFact, EndingFact, BodyFact
<1>3. Pieces' = Pieces /\ Complete' = Complete /\ \A j : Tally(j)' = Tally(j)
  BY SameBody
<1>4. scanner' = Tally(m)'
  BY <1>0, <1>3
<1>5. scanner' \in [counts : [Counters -> Int \cup {Absent}], chars : Nat]
  <2>1. line.counts \in [Counters -> Int \cup {Absent}] /\ line.chars \in Nat
    BY LinesAssumption DEF Fragment
  <2>2. scanner \in [counts : [Counters -> Int \cup {Absent}], chars : Nat]
    BY <1>1 DEF AnswersTypeOK
  <2>3. QED
    BY <2>1, <2>2 DEF FeedLine
<1>6. ASSUME relayed' = Append(relayed, Transform(line))
      PROVE  /\ RelayedInOrder' /\ Len(relayed') = k + 1
             /\ relayed' \in Seq({Fragment} \cup {Transform(l) : l \in Lines})
  BY <1>0, <1>1, <1>6, PassedInOrder
<1>7. /\ RelayedInOrder' /\ Len(relayed') \in {k, k + 1}
      /\ relayed' \in Seq({Fragment} \cup {Transform(l) : l \in Lines})
      /\ stage' \in {"split", "closing"}
      /\ stage' = "split" => next = "split" /\ Len(relayed') = k + 1
  <2>1. CASE relayed' = Append(relayed, Transform(line)) /\ stage' = next
    BY <1>6, <2>1
  <2>2. CASE UNCHANGED relayed /\ stage' = "closing"
    <3>1. RelayedInOrder'
      BY <1>1, <2>2, SameRelayed
    <3>2. QED
      BY <1>0, <1>1, <2>2, <3>1 DEF AnswersTypeOK
  <2>3. QED
    BY <2>1, <2>2
<1>8. AnswersTypeOK'
  BY <1>1, <1>5, <1>7 DEF AnswersTypeOK, PieceRows
<1>9. stage' = "split" => Underway'
  <2>1. SUFFICES ASSUME stage' = "split" PROVE Underway'
    OBVIOUS
  <2>2. /\ next = "split" /\ Len(relayed') = k + 1 /\ k + 1 <= Complete
        /\ 3 * k + 3 <= sent /\ sent <= Len(Pieces)
        /\ Len(buffer') = sent - (3 * k + 3)
        /\ \A i \in 1 .. Len(buffer') : buffer'[i] = Pieces[3 * k + 3 + i]
    BY <1>0, <1>1, <1>7, <2>1 DEF Underway
  <2>3. m = k + 1
    BY <1>0, <1>2, <2>2 DEF Smaller
  <2>4. 3 * Len(relayed') = 3 * k + 3
    BY <1>2, <2>2
  <2>5. scanner' = Tally(Len(relayed))'
    BY <1>4, <2>2, <2>3
  <2>6. QED
    BY <1>3, <2>1, <2>2, <2>4, <2>5 DEF Underway
<1>10. Concluded'
  <2>1. k + 1 \in {Len(relayed'), Len(relayed') + 1} /\ m = Smaller(k + 1, Complete)'
    BY <1>0, <1>2, <1>3, <1>7 DEF Smaller
  <2>2. ASSUME sent' = Len(Pieces'), buffer' = <<>> PROVE scanner' = Tally(Complete)'
    <3>1. m = Complete'
      BY <1>0, <1>2, <1>3, <2>2 DEF Smaller
    <3>2. QED
      BY <1>4, <3>1
  <2>3. QED
    BY <1>4, <2>1, <2>2 DEF Concluded
<1>11. QED
  BY <1>7, <1>8, <1>9, <1>10, StreamKeeps

\* The first line of the buffer.
LEMMA SplitKeeps ==
  ASSUME AnswersIInv, SplitLine PROVE AnswersIInv'
<1> DEFINE k == Len(relayed)
           first == SubSeq(buffer, 1, 2)
           rest == SubSeq(buffer, 4, Len(buffer))
<1>1. AnswersTypeOK /\ Underway /\ RelayedInOrder /\ streaming /\ stage = "split"
  BY DEF AnswersIInv, SplitLine, Whole
<1>2. sent >= 3 * k + 3 /\ PassOn(first, rest, "split")
  <2>1. SelectInSeq(buffer, EndsLine) > 0
    BY DEF SplitLine
  <2>2. SelectInSeq(buffer, EndsLine) = 3 /\ sent >= 3 * k + 3
    BY <1>1, <2>1, CutFact
  <2>3. QED
    BY <2>2 DEF SplitLine
<1>3. /\ buffer \in Seq(PieceRows) /\ Len(buffer) \in Nat /\ k \in Nat /\ sent \in Nat
      /\ Len(buffer) = sent - 3 * k
      /\ \A i \in 1 .. Len(buffer) : buffer[i] = Pieces[3 * k + i]
      /\ buffer[1] = Piece(k + 1, "head") /\ buffer[2] = Piece(k + 1, "tail")
  BY <1>1, <1>2, BufferFact
<1>4. k + 1 <= Complete /\ Complete \in Nat /\ Complete <= Len(body) /\ k + 1 \in 1 .. Len(body)
  BY <1>1, <1>2, <1>3, WholeLines, EndingFact, BodyFact
<1>5. /\ first \in Seq(PieceRows) /\ Len(first) = 2
      /\ first[1] = buffer[1] /\ first[2] = buffer[2]
  <2>1. \A i \in 1 .. 2 : buffer[i] \in PieceRows
    BY <1>2, <1>3, ElementOfSeq
  <2>2. /\ first \in Seq(PieceRows) /\ Len(first) = IF 1 <= 2 THEN 2 - 1 + 1 ELSE 0
        /\ \A i \in 1 .. 2 - 1 + 1 : first[i] = buffer[1 + i - 1]
    BY <2>1, SubSeqProperties
  <2>3. QED
    BY <2>2
<1>6. /\ rest \in Seq(PieceRows) /\ Len(rest) = sent - (3 * k + 3)
      /\ \A i \in 1 .. Len(rest) : rest[i] = Pieces[3 * k + 3 + i]
  <2> DEFINE n == Len(buffer)
  <2>1. \A i \in 4 .. n : buffer[i] \in PieceRows
    BY <1>2, <1>3, ElementOfSeq
  <2>2. n \in Int /\ 4 \in Int /\ n >= 3
    BY <1>2, <1>3
  <2>3. /\ rest \in Seq(PieceRows) /\ Len(rest) = IF 4 <= n THEN n - 4 + 1 ELSE 0
        /\ \A i \in 1 .. n - 4 + 1 : rest[i] = buffer[4 + i - 1]
    <3> HIDE DEF n
    <3>1. /\ SubSeq(buffer, 4, n) \in Seq(PieceRows)
          /\ Len(SubSeq(buffer, 4, n)) = IF 4 <= n THEN n - 4 + 1 ELSE 0
          /\ \A i \in 1 .. n - 4 + 1 : SubSeq(buffer, 4, n)[i] = buffer[4 + i - 1]
      BY <2>1, <2>2, SubSeqProperties
    <3>2. QED
      BY <3>1 DEF n
  <2> HIDE DEF n, rest
  <2>4. Len(rest) = n - 3
    BY <2>2, <2>3
  <2>5. \A i \in 1 .. Len(rest) :
          i \in 1 .. n - 4 + 1 /\ 4 + i - 1 \in 1 .. n /\ 3 * k + (4 + i - 1) = 3 * k + 3 + i
    BY <1>3, <2>2, <2>4
  <2>6. n = sent - 3 * k /\ \A i \in 1 .. n : buffer[i] = Pieces[3 * k + i]
    BY <1>3 DEF n
  <2>7. Len(rest) = sent - (3 * k + 3)
    BY <1>3, <2>4, <2>6
  <2>8. \A i \in 1 .. Len(rest) : rest[i] = Pieces[3 * k + 3 + i]
    BY <2>3, <2>5, <2>6
  <2>9. QED
    BY <2>3, <2>7, <2>8
<1> HIDE DEF first, rest
<1>7. Parse(first) = body[k + 1]
  <2>1. k \in Nat /\ k + 1 <= Len(body) /\ Len(first) = 2 /\ first \in Seq(PieceRows)
        /\ first[1] = Piece(k + 1, "head") /\ first[2] = Piece(k + 1, "tail")
    BY <1>3, <1>4, <1>5
  <2> HIDE DEF k
  <2>2. QED
    BY <1>1, <2>1, ParseFact
<1>8. /\ buffer' = rest /\ scanner' = FeedLine(scanner, body[k + 1])
      /\ \/ relayed' = Append(relayed, Transform(body[k + 1])) /\ stage' = "split"
         \/ UNCHANGED relayed /\ stage' = "closing"
      /\ UNCHANGED <<streaming, body, ending, sent, bill, charged>>
  BY <1>2, <1>7 DEF PassOn
<1>9. body[k + 1] \in Lines
  BY <1>1, <1>4, BodyFact
<1>10. FeedLine(scanner, body[k + 1]) = Tally(Smaller(k + 1, Complete))
  <2>1. scanner = Tally(k) /\ k + 1 <= Len(body)
    BY <1>1, <1>3, <1>4 DEF Underway
  <2>2. FeedLine(scanner, body[k + 1]) = Tally(k + 1)
    BY <1>1, <1>3, <2>1, TallyFact
  <2>3. Smaller(k + 1, Complete) = k + 1
    BY <1>4 DEF Smaller
  <2>4. QED
    BY <2>2, <2>3
<1>11. sent = Len(Pieces) /\ buffer' = <<>> => k + 1 >= Complete
  <2>1. SUFFICES ASSUME sent = Len(Pieces), buffer' = <<>> PROVE k + 1 >= Complete
    OBVIOUS
  <2>2. sent = 3 * k + 3
    <3>1. Len(rest) = 0
      BY <1>8, <2>1
    <3>2. QED
      BY <1>3, <1>6, <3>1
  <2>3. QED
    BY <1>1, <1>4, <2>1, <2>2, WholeLines
<1> DEFINE line == body[k + 1]
<1>12. QED
  <2>1. /\ line \in Lines \cup {Fragment} /\ scanner' = FeedLine(scanner, line)
        /\ FeedLine(scanner, line) = Tally(Smaller(Len(relayed) + 1, Complete))
        /\ Len(relayed) + 1 <= Complete => line = body[Len(relayed) + 1]
        /\ sent = Len(Pieces) /\ buffer' = <<>> => Len(relayed) + 1 >= Complete
        /\ \/ relayed' = Append(relayed, Transform(line)) /\ stage' = "split"
           \/ UNCHANGED relayed /\ stage' = "closing"
    BY <1>8, <1>9, <1>10, <1>11
  <2>2. /\ buffer' \in Seq(PieceRows) /\ Len(relayed) + 1 <= Complete
        /\ 3 * Len(relayed) + 3 <= sent
        /\ Len(buffer') = sent - (3 * Len(relayed) + 3)
        /\ \A i \in 1 .. Len(buffer') : buffer'[i] = Pieces[3 * Len(relayed) + 3 + i]
    BY <1>2, <1>3, <1>4, <1>6, <1>8
  <2> HIDE DEF line, k
  <2>3. QED
    BY <1>1, <1>8, <2>1, <2>2, PassKeeps

\* The upstream's end.
LEMMA FlushKeeps ==
  ASSUME AnswersIInv, Flush PROVE AnswersIInv'
<1>1. AnswersTypeOK /\ Underway /\ RelayedInOrder /\ streaming /\ stage = "read" /\ sent = Len(Pieces)
  BY DEF AnswersIInv, Flush
<1>2. CASE buffer = <<>>
  <2>1. /\ stage' = "closing"
        /\ UNCHANGED <<streaming, body, ending, sent, buffer, scanner, relayed, bill, charged>>
    BY <1>2 DEF Flush
  <2>2. QED
    BY <1>1, <2>1, QuietKeeps
<1>3. CASE buffer # <<>>
  <2>1. PICK k, line : k = Len(relayed) /\ line = Parse(buffer)
    OBVIOUS
  <2>2. /\ buffer' = <<>> /\ scanner' = FeedLine(scanner, line)
        /\ \/ relayed' = Append(relayed, Transform(line)) /\ stage' = "closing"
           \/ UNCHANGED relayed /\ stage' = "closing"
        /\ UNCHANGED <<streaming, body, ending, sent, bill, charged>>
    BY <1>3, <2>1 DEF Flush, PassOn
  <2>3. /\ buffer \in Seq(PieceRows) /\ Len(buffer) \in Nat /\ k \in Nat /\ sent \in Nat
        /\ Len(buffer) = sent - 3 * k /\ Len(buffer) # 0 /\ sent < 3 * k + 3
        /\ sent >= 3 * k + 1 => buffer[1] = Piece(k + 1, "head")
        /\ sent >= 3 * k + 2 => buffer[2] = Piece(k + 1, "tail")
    BY <1>1, <1>3, <2>1, BufferFact DEF Underway
  <2>4. scanner = Tally(k) /\ Complete \in Nat /\ Complete <= Len(body) /\ Len(body) \in Nat
    BY <1>1, <2>1, EndingFact, BodyFact DEF Underway
  <2>5. /\ line \in Lines \cup {Fragment} /\ k + 1 >= Complete
        /\ k + 1 <= Complete => line = body[k + 1]
        /\ FeedLine(scanner, line) = Tally(Complete)
    <3>1. CASE sent = 3 * k + 1
      <4>1. k = Complete
        BY <1>1, <2>1, <3>1, WholeLines
      <4>2. line = Fragment
        BY <1>1, <2>1, <2>3, <3>1, ParseFact
      <4>3. FeedLine(scanner, line) = Tally(Complete)
        BY <1>1, <2>4, <4>1, <4>2, FragmentFact
      <4>4. QED
        BY <2>3, <4>1, <4>2, <4>3
    <3>2. CASE sent = 3 * k + 2
      <4>1. k + 1 = Complete /\ k + 1 \in 1 .. Len(body) /\ k + 1 <= Len(body)
        BY <1>1, <2>1, <2>3, <2>4, <3>2, WholeLines
      <4>2. line = body[k + 1]
        BY <1>1, <2>1, <2>3, <3>2, <4>1, ParseFact
      <4>3. FeedLine(scanner, body[k + 1]) = Tally(k + 1)
        BY <1>1, <2>3, <2>4, <4>1, TallyFact
      <4>4. body[k + 1] \in Lines
        BY <1>1, <4>1, BodyFact
      <4>5. QED
        BY <2>3, <4>1, <4>2, <4>3, <4>4
    <3>3. QED
      BY <2>3, <3>1, <3>2
  <2>6. Smaller(k + 1, Complete) = Complete
    BY <2>3, <2>4, <2>5 DEF Smaller
  <2>7. buffer' \in Seq(PieceRows)
    BY <2>2, EmptySeq
  <2> DEFINE next == "closing"
  <2>8. /\ FeedLine(scanner, line) = Tally(Smaller(Len(relayed) + 1, Complete))
        /\ Len(relayed) + 1 <= Complete => line = body[Len(relayed) + 1]
        /\ sent = Len(Pieces) /\ buffer' = <<>> => Len(relayed) + 1 >= Complete
    BY <2>1, <2>5, <2>6
  <2>9. QED
    BY <1>1, <2>2, <2>5, <2>7, <2>8, PassKeeps
<1>4. QED
  BY <1>2, <1>3

\* The settlement of a stream.
LEMMA FinalizeKeeps ==
  ASSUME AnswersIInv, FinalizePartial PROVE AnswersIInv'
<1>1. /\ streaming /\ stage = "closing" /\ AnswersTypeOK /\ Concluded /\ RelayedInOrder
      /\ bill' = BillFor(scanner) /\ charged' = TokenCost(Tier, bill') /\ stage' = "settled"
      /\ UNCHANGED <<streaming, body, ending, sent, buffer, scanner, relayed>>
  BY DEF AnswersIInv, FinalizePartial, Settle, Whole
<1>2. PICK j \in {Len(relayed), Len(relayed) + 1} : scanner = Tally(Smaller(j, Complete))
  BY <1>1 DEF Concluded
<1>3. PICK m : m = Smaller(j, Complete)
  OBVIOUS
<1>4. Len(relayed) \in Nat /\ Complete \in Nat /\ Complete \in 0 .. Len(body) /\ Len(body) \in Nat
  BY <1>1, LenProperties, EndingFact, BodyFact DEF AnswersTypeOK
<1>5. m \in 0 .. Len(body) /\ Min({j, Complete}) = m
  <2>1. m \in 0 .. Len(body) /\ j \in Int /\ Complete \in Int
    BY <1>2, <1>3, <1>4 DEF Smaller
  <2>2. QED
    BY <1>3, <2>1, LeastOfTwo
<1>6. bill' = Charge(m) /\ bill' \in [Counters -> Int]
  BY <1>1, <1>2, <1>3, <1>5, BillFact, ChargeType
<1>7. charged' \in Nat
  BY <1>1, <1>6, CostFact
<1>8. AnswersTypeOK'
  BY <1>1, <1>6, <1>7 DEF AnswersTypeOK
<1>9. ChargedForLines'
  <2>1. Complete' = Complete /\ Pieces' = Pieces /\ \A k : Charge(k)' = Charge(k)
    BY <1>1, SameBody
  <2>2. bill' = Charge(Min({j, Complete}))'
    BY <1>5, <1>6, <2>1
  <2>3. j \in {Len(relayed), Len(relayed) + 1}'
    BY <1>1, <1>2
  <2>4. ASSUME sent = Len(Pieces), buffer = <<>> PROVE bill' = Charge(Complete)'
    <3>1. PICK c : c = Complete
      OBVIOUS
    <3>2. scanner = Tally(c)
      BY <1>1, <2>4, <3>1 DEF Concluded
    <3>3. bill' = Charge(c)
      BY <1>1, <1>4, <3>1, <3>2, BillFact
    <3>4. QED
      BY <2>1, <3>1, <3>3
  <2>5. QED
    BY <1>1, <2>1, <2>2, <2>3, <2>4 DEF ChargedForLines
<1>10. RelayedInOrder'
  BY <1>1, SameRelayed
<1>11. QED
  BY <1>1, <1>8, <1>9, <1>10 DEF AnswersIInv

\* Every step keeps the invariant.
LEMMA AnswersNextIInv == AnswersIInv /\ [AnswersNext]_answerVars => AnswersIInv'
<1> SUFFICES ASSUME AnswersIInv, [AnswersNext]_answerVars PROVE AnswersIInv'
  OBVIOUS
<1>1. CASE NeedMore \/ BreakOff
  <2>1. /\ streaming /\ stage \in {"read", "split"}
        /\ UNCHANGED <<streaming, body, ending, sent, buffer, scanner, relayed, bill, charged>>
        /\ \/ stage' = "closing"
           \/ stage' = "read" /\ SelectInSeq(buffer, EndsLine) = 0
    BY <1>1 DEF NeedMore, BreakOff, AnswersIInv, Whole
  <2>2. QED
    BY <2>1, QuietKeeps
<1>2. CASE CloseFails
  <2>1. /\ streaming /\ stage' = "lost" /\ AnswersTypeOK /\ RelayedInOrder
        /\ UNCHANGED <<streaming, body, ending, sent, buffer, scanner, relayed, bill, charged>>
    BY <1>2 DEF CloseFails, AnswersIInv, Whole
  <2>2. AnswersTypeOK'
    BY <2>1 DEF AnswersTypeOK
  <2>3. QED
    BY <2>1, <2>2, SameRelayed, StreamKeeps
<1>3. CASE UNCHANGED answerVars
  <2>1. UNCHANGED <<streaming, body, ending, sent, buffer, scanner, relayed, stage, bill, charged>>
    BY <1>3 DEF answerVars
  <2>2. AnswersTypeOK' /\ RelayedInOrder'
    BY <2>1, SameRelayed DEF AnswersIInv, AnswersTypeOK
  <2>3. (Underway => Underway') /\ (Concluded => Concluded') /\ (Whole => Whole')
    BY <2>1, SameBody DEF Underway, Concluded, Whole
  <2>4. ChargedForLines'
    BY <2>1, SameBody DEF AnswersIInv, ChargedForLines
  <2>5. QED
    BY <2>1, <2>2, <2>3, <2>4 DEF AnswersIInv
<1>4. QED
  BY <1>1, <1>2, <1>3, PlainKeeps, ReceiveKeeps, SplitKeeps, FlushKeeps, FinalizeKeeps
  DEF AnswersNext

\* The invariant holds of every behaviour.
THEOREM AnswersInvariance == AnswersSpec => []AnswersIInv
<1>1. QED
  BY AnswersInitIInv, AnswersNextIInv, PTL DEF AnswersSpec

-----------------------------------------------------------------------------
\* What has arrived, been passed on, counted and charged keeps its type,
\* whatever an upstream reports: no amount is negative.
THEOREM AnswersTypeCorrect == AnswersSpec => []AnswersTypeOK
<1>1. AnswersIInv => AnswersTypeOK
  BY DEF AnswersIInv
<1>2. QED
  BY <1>1, AnswersInvariance, PTL

\* However a stream is cut into chunks, wherever it ends and whoever leaves
\* first, the client gets the upstream's lines in order and free of private
\* fields, and is billed for those, or at most for the one on its way, by the
\* last counts reported and the handler's estimates of the missing ones; and
\* within the tokens reserved, no more than the reservation and the surcharge.
THEOREM RelayedIsCharged == AnswersSpec => []ChargedAsRelayed
<1>1. AnswersIInv => ChargedAsRelayed
  <2> SUFFICES ASSUME AnswersIInv PROVE ChargedAsRelayed
    OBVIOUS
  <2>1. bill \in Measured /\ charged \in {0, TokenCost(Tier, bill)}
    BY CostFact DEF AnswersIInv, AnswersTypeOK
  <2>2. ChargedAtMost
    <3>1. SUFFICES ASSUME bill["prompt"] <= EstPrompt, bill["completion"] <= MaxOutput
                   PROVE  charged <= ReserveWithSurcharge(Tier, EstPrompt, MaxOutput, bill)
      BY DEF ChargedAtMost, WithinReserve
    <3>2. /\ Tier \in Rates /\ EstPrompt \in Nat /\ MaxOutput \in Nat
          /\ bill.prompt <= EstPrompt /\ bill.completion <= MaxOutput
      BY <3>1, AnswerAssumption, EstPromptFact
    <3>3. /\ TokenCost(Tier, bill) <= ReserveWithSurcharge(Tier, EstPrompt, MaxOutput, bill)
          /\ ReserveWithSurcharge(Tier, EstPrompt, MaxOutput, bill) \in Nat
      BY <2>1, <3>2, ReservationCovers
    <3>4. 0 <= ReserveWithSurcharge(Tier, EstPrompt, MaxOutput, bill)
      BY <3>3
    <3>5. QED
      BY <2>1, <3>3, <3>4
  <2>3. QED
    BY <2>2 DEF AnswersIInv, ChargedAsRelayed
<1>2. QED
  BY <1>1, AnswersInvariance, PTL
-----------------------------------------------------------------------------
(* TierCache, for all readers, administrators and columns.  That a copy is  *)
(* stale only after a race is not inductive: FillCache writes what was read *)
(* before.  What a call holds that no edit overtook is a copy of the row.   *)

HeldIsCurrent ==
  \A r \in Readers :
    read[r].stage = "set" /\ ~read[r].raced =>
      tier \in Enabled /\ read[r].copy = Encode(tier)

\* What is written to the cache was read.
HeldIsCopy == \A r \in Readers : read[r].stage = "set" => read[r].copy \in Copies

TierIInv == TierTypeOK /\ HeldIsCopy /\ HeldIsCurrent /\ StaleOnlyWhenRaced

-----------------------------------------------------------------------------
\* A copy that this release wrote says what the row says: from_dict takes back
\* what as_dict did to NULL.
LEMMA RoundTrip ==
  ASSUME NEW row \in Tiers
  PROVE  Encode(row) \in Copies /\ OlderCopy(row) \in Copies /\ Decode(Encode(row)) = View(row)
<1>1. /\ row.price \in Prices /\ row.note \in Notes \cup {None}
      /\ row.multiplier \in Multipliers
  BY DEF Tiers
<1>2. Encode(row) \in Copies
  BY <1>1 DEF Encode, Copies
<1>3. OlderCopy(row) \in Copies
  BY <1>1, <1>2 DEF OlderCopy, Encode, Copies
<1>4. /\ Encode(row).note = Blank <=> row.note = None
      /\ row.note # None => Encode(row).note = row.note
  BY <1>1, TierAssumption DEF Encode
<1>5. Encode(row).multiplier = row.multiplier /\ row.multiplier # Missing
  BY <1>1 DEF Encode, Multipliers, Missing
<1>6. Encode(row).price = row.price
  BY DEF Encode
<1>7. QED
  BY <1>2, <1>3, <1>4, <1>5, <1>6 DEF Decode, View

LEMMA TierInitIInv == TierInit => TierIInv
<1> SUFFICES ASSUME TierInit PROVE TierIInv
  OBVIOUS
<1>1. cached \in Copies \cup {None}
  BY RoundTrip DEF TierInit
<1>2. read \in [Readers -> [stage : {"idle", "select", "set"}, copy : Copies \cup {None},
                            raced : BOOLEAN]]
  BY DEF TierInit
<1>3. excused \in BOOLEAN /\ (cached # None => excused)
  BY DEF TierInit
<1>4. TierTypeOK
  BY <1>1, <1>2, <1>3, TierAssumption DEF TierInit, TierTypeOK
<1>5. \A r \in Readers : read[r].stage = "idle"
  BY DEF TierInit
<1>6. QED
  BY <1>3, <1>4, <1>5 DEF TierIInv, HeldIsCopy, HeldIsCurrent, StaleOnlyWhenRaced, CopyIsCurrent

\* What a call's step leaves of the calls.
LEMMA ReadsFact ==
  ASSUME TierTypeOK, NEW r \in Readers, NEW to \in {"idle", "select", "set"},
         NEW copy \in Copies \cup {None}, Reads(r, to, copy)
  PROVE  /\ read' \in [Readers -> [stage : {"idle", "select", "set"}, copy : Copies \cup {None},
                                   raced : BOOLEAN]]
         /\ read'[r].stage = to /\ read'[r].copy = copy /\ read'[r].raced = FALSE
         /\ \A s \in Readers \ {r} : read'[s] = read[s]
BY DEF Reads, TierTypeOK

\* Every action keeps the invariant.
LEMMA TierNextIInv == TierIInv /\ [TierNext]_tierVars => TierIInv'
<1> SUFFICES ASSUME TierIInv, [TierNext]_tierVars PROVE TierIInv'
  OBVIOUS
<1> USE DEF TierIInv
<1>1. ASSUME NEW r \in Readers, MissCache(r) PROVE TierIInv'
  <2>1. UNCHANGED <<tier, cached, edit, edits, excused>> /\ Reads(r, "select", None)
    BY <1>1 DEF MissCache
  <2>2. QED
    BY <2>1, ReadsFact
       DEF TierTypeOK, HeldIsCopy, HeldIsCurrent, StaleOnlyWhenRaced, CopyIsCurrent
<1>2. ASSUME NEW r \in Readers, SelectTier(r) PROVE TierIInv'
  <2>1. UNCHANGED <<tier, cached, edit, edits, excused>>
    BY <1>2 DEF SelectTier
  <2>2. CASE tier \in Enabled /\ Reads(r, "set", Encode(tier))
    <3>1. Encode(tier) \in Copies
      BY <2>2, RoundTrip DEF Enabled
    <3>2. /\ read' \in [Readers -> [stage : {"idle", "select", "set"}, copy : Copies \cup {None},
                                    raced : BOOLEAN]]
          /\ read'[r].stage = "set" /\ read'[r].copy = Encode(tier)
          /\ \A s \in Readers \ {r} : read'[s] = read[s]
      BY <2>2, <3>1, ReadsFact
    <3>3. TierTypeOK'
      BY <2>1, <3>2 DEF TierTypeOK
    <3>4. HeldIsCopy' /\ HeldIsCurrent'
      BY <2>1, <2>2, <3>1, <3>2 DEF HeldIsCopy, HeldIsCurrent
    <3>5. QED
      BY <2>1, <3>3, <3>4 DEF StaleOnlyWhenRaced, CopyIsCurrent
  <2>3. CASE Reads(r, "idle", None)
    BY <2>1, <2>3, ReadsFact
       DEF TierTypeOK, HeldIsCopy, HeldIsCurrent, StaleOnlyWhenRaced, CopyIsCurrent
  <2>4. QED
    BY <1>2, <2>2, <2>3 DEF SelectTier
<1>3. ASSUME NEW r \in Readers, FillCache(r) PROVE TierIInv'
  <2>1. /\ read[r].stage = "set" /\ cached' = read[r].copy /\ excused' = read[r].raced
        /\ Reads(r, "idle", None) /\ UNCHANGED <<tier, edit, edits>>
    BY <1>3 DEF FillCache
  <2>2. cached' \in Copies /\ excused' \in BOOLEAN
    BY <2>1 DEF HeldIsCopy, TierTypeOK
  <2>3. TierTypeOK' /\ HeldIsCopy' /\ HeldIsCurrent'
    <3>1. /\ read' \in [Readers -> [stage : {"idle", "select", "set"}, copy : Copies \cup {None},
                                    raced : BOOLEAN]]
          /\ read'[r].stage = "idle"
          /\ \A s \in Readers \ {r} : read'[s] = read[s]
      BY <2>1, ReadsFact
    <3>2. TierTypeOK'
      BY <2>1, <2>2, <3>1 DEF TierTypeOK
    <3>3. QED
      BY <2>1, <3>1, <3>2 DEF HeldIsCopy, HeldIsCurrent
  <2>4. ASSUME ~excused' PROVE CopyIsCurrent'
    <3>1. tier \in Enabled /\ cached' = Encode(tier)
      BY <2>1, <2>4 DEF HeldIsCurrent, TierTypeOK
    <3>2. Decode(cached') = View(tier)
      BY <3>1, RoundTrip DEF Enabled
    <3>3. QED
      BY <2>1, <3>1, <3>2 DEF CopyIsCurrent
  <2>5. QED
    BY <2>3, <2>4 DEF StaleOnlyWhenRaced
<1>4. ASSUME NEW r \in Readers, AbandonRead(r) PROVE TierIInv'
  <2>1. UNCHANGED <<tier, cached, edit, edits, excused>> /\ Reads(r, "idle", None)
    BY <1>4 DEF AbandonRead
  <2>2. QED
    BY <2>1, ReadsFact
       DEF TierTypeOK, HeldIsCopy, HeldIsCurrent, StaleOnlyWhenRaced, CopyIsCurrent
<1>5. ASSUME NEW a \in Admins, EditTier(a) PROVE TierIInv'
  <2>1. /\ tier' \in Tiers \cup {None} /\ edits' \in 0 .. MaxEdits
        /\ edit' = [edit EXCEPT ![a] = "invalidate"] /\ UNCHANGED <<cached, excused>>
    BY <1>5, TierAssumption DEF EditTier, TierTypeOK
  <2>2. /\ read' \in [Readers -> [stage : {"idle", "select", "set"}, copy : Copies \cup {None},
                                  raced : BOOLEAN]]
        /\ \A r \in Readers : /\ read'[r].stage = read[r].stage /\ read'[r].copy = read[r].copy
                              /\ read'[r].raced = (read[r].stage = "set")
    BY <1>5 DEF EditTier, TierTypeOK
  <2>3. edit' \in [Admins -> {"idle", "invalidate"}] /\ edit'[a] = "invalidate"
    BY <2>1 DEF TierTypeOK
  <2>4. HeldIsCopy' /\ HeldIsCurrent'
    BY <2>2 DEF HeldIsCopy, HeldIsCurrent
  <2>5. QED
    BY <2>1, <2>2, <2>3, <2>4 DEF TierTypeOK, StaleOnlyWhenRaced
<1>6. ASSUME NEW a \in Admins, Invalidate(a) PROVE TierIInv'
  BY <1>6 DEF Invalidate, TierTypeOK, HeldIsCopy, HeldIsCurrent, StaleOnlyWhenRaced, CopyIsCurrent
<1>7. ASSUME NEW a \in Admins, AbandonEdit(a) PROVE TierIInv'
  BY <1>7 DEF AbandonEdit, TierTypeOK, HeldIsCopy, HeldIsCurrent, StaleOnlyWhenRaced, CopyIsCurrent
<1>8. ASSUME CopyExpires PROVE TierIInv'
  BY <1>8 DEF CopyExpires, TierTypeOK, HeldIsCopy, HeldIsCurrent, StaleOnlyWhenRaced, CopyIsCurrent
<1>9. ASSUME UNCHANGED tierVars PROVE TierIInv'
  BY <1>9
     DEF tierVars, TierTypeOK, HeldIsCopy, HeldIsCurrent, StaleOnlyWhenRaced, CopyIsCurrent
<1>10. QED
  BY <1>1, <1>2, <1>3, <1>4, <1>5, <1>6, <1>7, <1>8, <1>9 DEF TierNext

\* The invariant holds throughout.
THEOREM TierInvariance == TierSpec => []TierIInv
<1>1. QED
  BY TierInitIInv, TierNextIInv, PTL DEF TierSpec

\* Between edits the copy that requests are priced and routed by is the row
\* (get_tier, invalidate_tier), unless a get_tier was overtaken by an edit, an
\* edit's worker died or an older release wrote the copy.
THEOREM CacheIsCurrent == TierSpec => []StaleOnlyWhenRaced
<1>1. TierIInv => StaleOnlyWhenRaced
  BY DEF TierIInv
<1>2. QED
  BY <1>1, TierInvariance, PTL

-----------------------------------------------------------------------------
(* BillingEvents, for all payments, calls and bounds.  NeverGrantedTwice    *)
(* counts the events reported; the invariant says which of them were        *)
(* granted: those recorded, each once, while the account is there to hold   *)
(* the record.                                                              *)

\* The recorded events of a payment.
RecordedFor(p) == {n \in recorded : notices[n].payment = p}

GrantsRecorded ==
  known => \A p \in Payments : Identified(p) => granted[p] <= Cardinality(RecordedFor(p))

\* Only what calls for a period is being granted or recorded.
OnlyGranting ==
  /\ \A h \in Hooks : hook[h].stage = "grant" =>
       hook[h].notice \in DOMAIN notices /\ Granting(notices[hook[h].notice])
  /\ \A n \in recorded : Granting(notices[n])

BillingIInv ==
  /\ BillingTypeOK /\ Len(notices) <= MaxNotices
  /\ OnlyGranting /\ GrantsRecorded /\ NeverGrantedTwice

-----------------------------------------------------------------------------
\* The events of a payment are finitely many, the recorded ones among them.
LEMMA EventsFinite ==
  ASSUME BillingTypeOK, OnlyGranting, NEW p \in Payments
  PROVE  /\ IsFiniteSet(RecordedFor(p)) /\ IsFiniteSet(Reports(p))
         /\ Cardinality(RecordedFor(p)) \in Nat /\ Cardinality(Reports(p)) \in Nat
         /\ RecordedFor(p) \subseteq Reports(p)
         /\ Cardinality(RecordedFor(p)) <= Cardinality(Reports(p))
<1>1. Len(notices) \in Nat /\ DOMAIN notices = 1 .. Len(notices)
  BY DEF BillingTypeOK
<1>2. IsFiniteSet(DOMAIN notices)
  BY <1>1, FS_Interval
<1>3. Reports(p) \subseteq DOMAIN notices /\ RecordedFor(p) \subseteq Reports(p)
  BY DEF Reports, RecordedFor, OnlyGranting, BillingTypeOK
<1>4. QED
  BY <1>2, <1>3, FS_Subset, FS_CardinalityType

\* The same after a step.
LEMMA EventsFiniteNext ==
  ASSUME BillingTypeOK', OnlyGranting', NEW p \in Payments
  PROVE  /\ IsFiniteSet(Reports(p)')
         /\ Cardinality(RecordedFor(p)') \in Nat /\ Cardinality(Reports(p)') \in Nat
         /\ Cardinality(RecordedFor(p)') <= Cardinality(Reports(p)')
<1>1. Len(notices') \in Nat /\ DOMAIN notices' = 1 .. Len(notices')
  BY DEF BillingTypeOK
<1>2. IsFiniteSet(DOMAIN notices')
  BY <1>1, FS_Interval
<1>3. Reports(p)' \subseteq DOMAIN notices' /\ RecordedFor(p)' \subseteq Reports(p)'
  BY DEF Reports, RecordedFor, OnlyGranting, BillingTypeOK
<1>4. QED
  BY <1>2, <1>3, FS_Subset, FS_CardinalityType

LEMMA BillingInitIInv == BillingInit => BillingIInv
<1> SUFFICES ASSUME BillingInit PROVE BillingIInv
  OBVIOUS
<1>1. notices \in Seq([payment : Payments, type : Types(provider), payload : Payloads])
      /\ Len(notices) = 0 /\ DOMAIN notices = {}
  BY DEF BillingInit
<1>2. BillingTypeOK
  BY <1>1, BillingBoundsAssumption DEF BillingInit, BillingTypeOK, NoCall
<1>3. OnlyGranting
  BY DEF BillingInit, OnlyGranting, NoCall
<1>4. \A p \in Payments : granted[p] = 0
  BY DEF BillingInit
<1>5. QED
  BY <1>1, <1>2, <1>3, <1>4, EventsFinite, BillingBoundsAssumption
     DEF BillingIInv, GrantsRecorded, NeverGrantedTwice, AtMostOnce

\* The record of events bounds the grants by the events.
LEMMA RecordedBounds ==
  ASSUME BillingTypeOK, OnlyGranting, GrantsRecorded, known
  PROVE  NeverGrantedTwice
BY EventsFinite DEF GrantsRecorded, NeverGrantedTwice, AtMostOnce, BillingTypeOK

\* A step that changes neither the events nor the record nor the grants.
LEMMA QuietBilling ==
  ASSUME BillingIInv, BillingTypeOK', UNCHANGED <<provider, known, notices, recorded, granted>>,
         \A h \in Hooks : hook'[h].stage = "grant" =>
           hook'[h].notice \in DOMAIN notices /\ Granting(notices[hook'[h].notice])
  PROVE  BillingIInv'
<1>1. OnlyGranting'
  BY DEF BillingIInv, OnlyGranting, Granting, CallsForPeriod
<1>2. \A p \in Payments : Reports(p)' = Reports(p) /\ RecordedFor(p)' = RecordedFor(p)
  BY DEF Reports, RecordedFor, Granting, CallsForPeriod
<1>3. \A p \in Payments : Identified(p)' <=> Identified(p)
  BY <1>2 DEF Identified
<1>4. GrantsRecorded' /\ NeverGrantedTwice'
  BY <1>2, <1>3 DEF BillingIInv, GrantsRecorded, NeverGrantedTwice, AtMostOnce
<1>5. QED
  BY <1>1, <1>4 DEF BillingIInv

\* An event reported.
LEMMA ReportKeeps ==
  ASSUME BillingIInv, NEW p \in Payments, Report(p)
  PROVE  BillingIInv'
<1> DEFINE Notice == [payment : Payments, type : Types(provider), payload : Payloads]
<1>1. PICK e \in Notice : notices' = Append(notices, e)
  BY DEF Report
<1>2. /\ notices \in Seq(Notice) /\ Len(notices) \in Nat /\ Len(notices) < MaxNotices
      /\ UNCHANGED <<provider, known, answered, hook, recorded, granted, failures>>
  BY DEF Report, BillingIInv, BillingTypeOK
<1> HIDE DEF Notice
<1>3. /\ notices' \in Seq(Notice) /\ Len(notices') = Len(notices) + 1
      /\ \A n \in DOMAIN notices : n \in DOMAIN notices' /\ notices'[n] = notices[n]
  BY <1>1, <1>2
<1>4. BillingTypeOK' /\ Len(notices') <= MaxNotices
  BY <1>2, <1>3, BillingBoundsAssumption DEF BillingIInv, BillingTypeOK, Notice
<1>5. OnlyGranting'
  BY <1>2, <1>3 DEF BillingIInv, BillingTypeOK, OnlyGranting, Granting, CallsForPeriod
<1>6. \A q \in Payments : RecordedFor(q)' = RecordedFor(q)
  BY <1>2, <1>3 DEF RecordedFor, BillingIInv, BillingTypeOK
<1>7. \A q \in Payments : Reports(q) \subseteq Reports(q)'
  BY <1>2, <1>3 DEF Reports, Granting, CallsForPeriod
<1>8. \A q \in Payments : Identified(q)' => Identified(q)
  BY <1>3, <1>7 DEF Identified, Reports
<1>9. GrantsRecorded'
  BY <1>2, <1>6, <1>8 DEF BillingIInv, GrantsRecorded
<1>10. NeverGrantedTwice'
  <2> SUFFICES ASSUME NEW q \in Payments, Identified(q)'
               PROVE  granted'[q] <= Cardinality(Reports(q)')
    BY DEF NeverGrantedTwice, AtMostOnce
  <2>1. granted[q] \in Nat /\ granted[q] <= Cardinality(Reports(q))
    BY <1>8, BillingBoundsAssumption DEF BillingIInv, NeverGrantedTwice, AtMostOnce, BillingTypeOK
  <2>2. IsFiniteSet(Reports(q)') /\ Cardinality(Reports(q)') \in Nat
    BY <1>4, <1>5, EventsFiniteNext
  <2>3. QED
    BY <1>2, <1>7, <2>1, <2>2, FS_Subset, FS_CardinalityType
<1>11. QED
  BY <1>4, <1>5, <1>9, <1>10 DEF BillingIInv

\* A call that takes up an event, or ignores it.
LEMMA ReceiptKeeps ==
  ASSUME BillingIInv, NEW h \in Hooks, Receive(h)
  PROVE  BillingIInv'
<1>1. PICK n \in DOMAIN notices :
        \/ /\ Granting(notices[n]) /\ known
           /\ Stage(h, "grant", n)
           /\ UNCHANGED answered
        \/ /\ answered' = answered \cup {n}
           /\ UNCHANGED hook
  BY DEF Receive
<1>2. UNCHANGED <<provider, known, notices, recorded, granted, failures>>
  BY DEF Receive
<1>3. n \in 0 .. MaxNotices
  BY BillingBoundsAssumption DEF BillingIInv, BillingTypeOK
<1>4. /\ hook' \in [Hooks -> [stage : {"idle", "grant"}, notice : 0 .. MaxNotices]]
      /\ \A g \in Hooks : hook'[g].stage = "grant" =>
           hook'[g].notice \in DOMAIN notices /\ Granting(notices[hook'[g].notice])
  <2>1. /\ hook \in [Hooks -> [stage : {"idle", "grant"}, notice : 0 .. MaxNotices]]
        /\ \A g \in Hooks : hook[g].stage = "grant" =>
             hook[g].notice \in DOMAIN notices /\ Granting(notices[hook[g].notice])
    BY DEF BillingIInv, BillingTypeOK, OnlyGranting
  <2>2. CASE Granting(notices[n]) /\ Stage(h, "grant", n)
    BY <1>3, <2>1, <2>2 DEF Stage
  <2>3. QED
    BY <1>1, <2>1, <2>2
<1>5. BillingTypeOK'
  <2>1. answered' \subseteq DOMAIN notices
    BY <1>1 DEF BillingIInv, BillingTypeOK
  <2>2. QED
    BY <1>2, <1>4, <2>1 DEF BillingIInv, BillingTypeOK
<1>6. QED
  BY <1>2, <1>4, <1>5, QuietBilling

\* What a call that ends leaves of the calls.
LEMMA FinishFact ==
  ASSUME BillingIInv, NEW h \in Hooks, Finish(h)
  PROVE  /\ hook' \in [Hooks -> [stage : {"idle", "grant"}, notice : 0 .. MaxNotices]]
         /\ \A g \in Hooks : hook'[g].stage = "grant" => g # h /\ hook'[g] = hook[g]
         /\ \A g \in Hooks : hook'[g].stage = "grant" =>
              hook'[g].notice \in DOMAIN notices /\ Granting(notices[hook'[g].notice])
BY BillingBoundsAssumption DEF BillingIInv, BillingTypeOK, OnlyGranting, Finish, NoCall

\* What is known stays known.
LEMMA KnownStays == ASSUME known, known' = known PROVE known'
OBVIOUS

\* A period granted, for an event not recorded yet, which is recorded if it has
\* an id.
LEMMA GrantAdds ==
  ASSUME BillingIInv, NEW h \in Hooks, Finish(h), NEW n, n = hook[h].notice,
         hook[h].stage = "grant", known, n \notin recorded,
         granted' = [granted EXCEPT ![notices[n].payment] = Min({@ + 1, MaxNotices + 1})],
         recorded' = IF notices[n].payload = "full" THEN recorded \cup {n} ELSE recorded,
         answered' = answered \cup {n},
         UNCHANGED <<provider, known, notices, failures>>
  PROVE  BillingIInv'
<1> DEFINE p == notices[n].payment
<1>1. n \in DOMAIN notices /\ Granting(notices[n]) /\ p \in Payments /\ n \in Reports(p)
  <2>1. n \in DOMAIN notices /\ Granting(notices[n])
    BY DEF BillingIInv, OnlyGranting
  <2>2. notices[n].payment \in Payments
    <3> DEFINE Notice == [payment : Payments, type : Types(provider), payload : Payloads]
    <3>1. notices \in Seq(Notice)
      BY DEF BillingIInv, BillingTypeOK
    <3> HIDE DEF Notice
    <3>2. notices[n] \in Notice
      BY <2>1, <3>1
    <3>3. QED
      BY <3>2 DEF Notice
  <2>3. QED
    BY <2>1, <2>2 DEF Reports
<1>2. /\ recorded' \subseteq DOMAIN notices /\ answered' \subseteq DOMAIN notices
      /\ recorded \subseteq recorded'
  BY <1>1 DEF BillingIInv, BillingTypeOK
<1> HIDE DEF p
<1>3. /\ granted[p] \in Nat /\ granted[p] + 1 \in Int /\ MaxNotices + 1 \in Int
      /\ granted[p] <= MaxNotices + 1
  BY <1>1, BillingBoundsAssumption DEF BillingIInv, BillingTypeOK
<1>4. \E m \in {granted[p] + 1, MaxNotices + 1} : \A x \in {granted[p] + 1, MaxNotices + 1} : m <= x
  BY <1>3
<1>5. PICK least : least = Min({granted[p] + 1, MaxNotices + 1})
  OBVIOUS
<1>6. least \in 0 .. MaxNotices + 1 /\ least <= granted[p] + 1
  BY <1>3, <1>4, <1>5 DEF Min
<1>7. granted' = [granted EXCEPT ![p] = least]
  BY <1>5 DEF p
<1>8. /\ granted' \in [Payments -> 0 .. MaxNotices + 1]
      /\ granted'[p] <= granted[p] + 1 /\ \A q \in Payments \ {p} : granted'[q] = granted[q]
  <2> DEFINE Counts == 0 .. MaxNotices + 1
  <2>1. granted \in [Payments -> Counts] /\ least \in Counts
    BY <1>6 DEF BillingIInv, BillingTypeOK
  <2> HIDE DEF Counts
  <2>2. p \in Payments
    BY <1>1
  <2>3. /\ granted' \in [Payments -> Counts]
        /\ granted'[p] = least /\ \A q \in Payments \ {p} : granted'[q] = granted[q]
    BY <1>7, <2>1, <2>2
  <2>4. QED
    BY <1>6, <2>3 DEF Counts
<1>9. BillingTypeOK'
  BY <1>2, <1>8, FinishFact DEF BillingIInv, BillingTypeOK
<1>10. OnlyGranting'
  BY <1>1, FinishFact DEF BillingIInv, OnlyGranting, Granting, CallsForPeriod
<1>11. \A q \in Payments : Reports(q)' = Reports(q)
  BY DEF Reports, Granting, CallsForPeriod
<1>12. \A q \in Payments : Identified(q)' => Identified(q)
  BY <1>11 DEF Identified
<1>13. ASSUME NEW q \in Payments, q # p
       PROVE  RecordedFor(q)' = RecordedFor(q)
  BY <1>13 DEF RecordedFor, p
<1>14. ASSUME NEW q \in Payments, q = p, Identified(q)
       PROVE  granted'[q] <= Cardinality(RecordedFor(q)')
  <2>1. n \in Reports(q) /\ notices[n].payment = q /\ notices[n].payload = "full"
    BY <1>1, <1>14 DEF Identified, Reports, p
  <2>2. RecordedFor(q)' = RecordedFor(q) \cup {n} /\ n \notin RecordedFor(q)
    BY <2>1 DEF RecordedFor
  <2>3. /\ Cardinality(RecordedFor(q)) \in Nat
        /\ Cardinality(RecordedFor(q)') = Cardinality(RecordedFor(q)) + 1
    BY <2>2, EventsFinite, FS_AddElement DEF BillingIInv
  <2>4. granted[q] <= Cardinality(RecordedFor(q))
    BY <1>14 DEF BillingIInv, GrantsRecorded
  <2>5. granted'[q] \in Int /\ granted[q] \in Int /\ granted'[q] <= granted[q] + 1
    <3>1. granted'[q] \in 0 .. MaxNotices + 1 /\ granted'[q] <= granted[q] + 1
      BY <1>8, <1>14
    <3>2. granted[q] \in Nat
      BY <1>3, <1>14
    <3>3. QED
      BY <3>1, <3>2
  <2>6. QED
    BY <2>3, <2>4, <2>5
<1>15. GrantsRecorded'
  <2> SUFFICES ASSUME NEW q \in Payments, Identified(q)'
               PROVE  granted'[q] <= Cardinality(RecordedFor(q)')
    BY DEF GrantsRecorded
  <2>1. Identified(q) /\ granted[q] <= Cardinality(RecordedFor(q))
    BY <1>12 DEF BillingIInv, GrantsRecorded
  <2>2. CASE q = p
    BY <1>14, <2>1, <2>2
  <2>3. CASE q # p
    <3>1. granted'[q] = granted[q]
      BY <1>8, <2>3
    <3>2. QED
      BY <1>13, <2>1, <2>3, <3>1
  <2>4. QED
    BY <2>2, <2>3
<1>16. NeverGrantedTwice'
  <2> SUFFICES ASSUME NEW q \in Payments, Identified(q)'
               PROVE  granted'[q] <= Cardinality(Reports(q)')
    BY DEF NeverGrantedTwice, AtMostOnce
  <2>1. granted'[q] \in Int
    BY <1>8, BillingBoundsAssumption
  <2>2. known'
    <3>1. known' = known
      OBVIOUS
    <3>2. QED
      BY <3>1, KnownStays
  <2>3. granted'[q] <= Cardinality(RecordedFor(q)')
    BY <1>15, <2>2 DEF GrantsRecorded
  <2>4. QED
    BY <1>9, <1>10, <2>1, <2>3, EventsFiniteNext
<1>17. QED
  BY <1>9, <1>10, <1>15, <1>16 DEF BillingIInv

LEMMA GrantKeeps ==
  ASSUME BillingIInv, NEW h \in Hooks, Grant(h)
  PROVE  BillingIInv'
<1>1. PICK n : n = hook[h].notice
  OBVIOUS
<1>2. /\ hook[h].stage = "grant" /\ Finish(h)
      /\ UNCHANGED <<provider, known, notices, failures>>
  BY DEF Grant
<1>3. n \in DOMAIN notices
  BY <1>1, <1>2 DEF BillingIInv, OnlyGranting
<1>4. CASE /\ known /\ n \notin recorded
           /\ granted' = [granted EXCEPT ![notices[n].payment] = Min({@ + 1, MaxNotices + 1})]
           /\ recorded' = IF notices[n].payload = "full" THEN recorded \cup {n} ELSE recorded
           /\ answered' = answered \cup {n}
  BY <1>1, <1>2, <1>4, GrantAdds
<1>5. CASE /\ answered' \in {answered, answered \cup {n}}
           /\ UNCHANGED <<granted, recorded>>
  <2>1. BillingTypeOK'
    BY <1>2, <1>3, <1>5, FinishFact DEF BillingIInv, BillingTypeOK
  <2>2. QED
    BY <1>2, <1>5, <2>1, FinishFact, QuietBilling
<1>6. QED
  BY <1>1, <1>4, <1>5 DEF Grant

\* The account is closed, and with it goes the record.
LEMMA CloseKeeps ==
  ASSUME BillingIInv, CloseAccount
  PROVE  BillingIInv'
<1>1. /\ known' = FALSE /\ recorded' = {}
      /\ UNCHANGED <<provider, notices, answered, hook, granted, failures>>
  BY DEF CloseAccount
<1>2. BillingTypeOK' /\ OnlyGranting'
  BY <1>1 DEF BillingIInv, BillingTypeOK, OnlyGranting, Granting, CallsForPeriod
<1>3. \A p \in Payments : Reports(p)' = Reports(p)
  BY <1>1 DEF Reports, Granting, CallsForPeriod
<1>4. \A p \in Payments : Identified(p)' => Identified(p)
  BY <1>1, <1>3 DEF Identified
<1>5. GrantsRecorded' /\ NeverGrantedTwice'
  BY <1>1, <1>3, <1>4 DEF BillingIInv, GrantsRecorded, NeverGrantedTwice, AtMostOnce
<1>6. QED
  BY <1>1, <1>2, <1>5 DEF BillingIInv

\* Every action keeps the invariant.
LEMMA BillingNextIInv == BillingIInv /\ [BillingNext]_billingVars => BillingIInv'
<1> SUFFICES ASSUME BillingIInv, [BillingNext]_billingVars PROVE BillingIInv'
  OBVIOUS
<1>1. ASSUME NEW h \in Hooks, HookFails(h) PROVE BillingIInv'
  <2>1. /\ Finish(h) /\ failures' \in 0 .. MaxFailures
        /\ UNCHANGED <<provider, known, notices, answered, recorded, granted>>
    BY <1>1, BillingBoundsAssumption DEF HookFails, BillingIInv, BillingTypeOK
  <2>2. BillingTypeOK'
    BY <2>1, FinishFact DEF BillingIInv, BillingTypeOK
  <2>3. QED
    BY <2>1, <2>2, FinishFact, QuietBilling
<1>2. ASSUME UNCHANGED billingVars PROVE BillingIInv'
  <2>1. BillingTypeOK'
    BY <1>2 DEF billingVars, BillingIInv, BillingTypeOK
  <2>2. QED
    BY <1>2, <2>1, QuietBilling DEF billingVars, BillingIInv, OnlyGranting
<1>3. QED
  BY <1>1, <1>2, ReportKeeps, ReceiptKeeps, GrantKeeps, CloseKeeps DEF BillingNext

\* The invariant holds throughout.
THEOREM BillingInvariance == BillingSpec => []BillingIInv
<1>1. QED
  BY BillingInitIInv, BillingNextIInv, PTL DEF BillingSpec

\* However deliveries repeat, overlap, fail or outlive the account, and however
\* many calls, payments and events there are, no payment has more periods than
\* events that call for one (assign_plan on billing_event_id).
THEOREM GrantsAreBounded == BillingSpec => []NeverGrantedTwice
<1>1. BillingIInv => NeverGrantedTwice
  BY DEF BillingIInv
<1>2. QED
  BY <1>1, BillingInvariance, PTL

-----------------------------------------------------------------------------
(* MCServices: five components keep their invariants side by side, since a  *)
(* step of the whole is for each of them one of its own or none.            *)

ServicesIInv == LimitsIInv /\ TierIInv /\ BillingIInv /\ UpstreamIInv /\ AnswersIInv

\* The components share no variable.
LEMMA ServicesSteps ==
  [ServicesNext]_services =>
    /\ [LimitsNext]_limitVars /\ [TierNext]_tierVars /\ [BillingNext]_billingVars
    /\ [UpstreamNext]_upstreamVars /\ [AnswersNext]_answerVars
BY DEF ServicesNext, services

\* These five components' invariants hold in a behaviour of the whole.
THEOREM ServicesInvariance == ServicesSpec => []ServicesIInv
<1>1. ServicesInit => ServicesIInv
  BY LimitsInitIInv, TierInitIInv, BillingInitIInv, UpstreamInitIInv, AnswersInitIInv
     DEF ServicesInit, ServicesIInv
<1>2. ServicesIInv /\ [ServicesNext]_services => ServicesIInv'
  BY ServicesSteps, LimitsNextIInv, TierNextIInv, BillingNextIInv, UpstreamNextIInv,
     AnswersNextIInv
     DEF ServicesIInv
<1>3. QED
  BY <1>1, <1>2, PTL DEF ServicesSpec

\* Every variable of the five components keeps its type, for all values of
\* their constants.
THEOREM ServicesTypeCorrect == ServicesSpec => []ServicesTypeOK
<1>1. ServicesIInv => ServicesTypeOK
  BY DEF ServicesIInv, ServicesTypeOK, LimitsIInv, TierIInv, BillingIInv, UpstreamIInv,
         AnswersIInv
<1>2. QED
  BY <1>1, ServicesInvariance, PTL
=============================================================================
