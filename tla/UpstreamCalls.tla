----------------------------- MODULE UpstreamCalls -----------------------------
(***************************************************************************)
(* One chat request on its way to the upstream and back: the tier it may   *)
(* name, the payload built for it (sanitize_request), the attempts to send *)
(* it (_send_with_retry), and the answer an error becomes                  *)
(* (normalize_upstream_error) -- services/upstream.py, with the handlers   *)
(* of chat_completions and _stream_response in routers/gateway.py.  Rate   *)
(* limits, the breaker's state, slots and credits are other modules'.      *)
(***************************************************************************)
EXTENDS Integers, FiniteSets

CONSTANTS
  Models,     \* the upstream's models
  Foreign,    \* one that no tier is made of
  NoHint,     \* a header or field that is absent
  Garbage,    \* one that does not parse
  Infinite,   \* a Retry-After that is no finite number
  Hints       \* the times a hint may name, in seconds from now

ASSUME UpstreamAssumption ==
  /\ Foreign \notin Models
  /\ Hints \subseteq Int /\ {NoHint, Garbage, Infinite} \cap Int = {}

VARIABLES
  ask,        \* the client's request
  route,      \* the tier it names
  payload,    \* what is sent
  attempts,   \* attempts to send it
  delivered,  \* how often the upstream got it
  reported,   \* what the breaker was told
  reply,      \* the upstream's answer
  phase,      \* where the handler stands
  answer,     \* the client's answer
  held        \* the reservation: none, held, freed, or handed to the settlement

upstreamVars ==
  <<ask, route, payload, attempts, delivered, reported, reply, phase, answer, held>>

-----------------------------------------------------------------------------
\* One of ALLOWED_REQUEST_FIELDS, one of SERVER_ONLY_FIELDS, and another.
ClientFields == {"messages", "models", "unknown"}
Asks == [fields : SUBSET ClientFields, stream : BOOLEAN]

Plugins == {"none", "auto-router", "pareto-router", "other"}
Routes == [allowed : BOOLEAN, internal : BOOLEAN, primary : Models, fallbacks : SUBSET Models,
           plugin : Plugins]

\* models: those the upstream may pick from, as far as the payload says.
\* pinned: the router's allowed_models.  names: client fields that went along.
NoPin == {}
UpstreamPayloads ==
  [models : SUBSET (Models \cup {Foreign}), pinned : SUBSET Models,
   names : SUBSET ClientFields, usage : BOOLEAN]
NoPayload == [models |-> {}, pinned |-> NoPin, names |-> {}, usage |-> FALSE]

Statuses == {200, 400, 401, 402, 403, 404, 408, 422, 429, 500, 503}
HeaderHints == Hints \cup {NoHint, Garbage, Infinite}
BodyHints == Hints \cup {NoHint, Garbage}
Replies == [status : Statuses, header : HeaderHints, body : BodyHints, reset : BodyHints]
NoReply == [status |-> 0, header |-> NoHint, body |-> NoHint, reset |-> NoHint]

Answer(status, after) == [status |-> status, after |-> after]
Pending == Answer(0, NoHint)

UpstreamTypeOK ==
  /\ ask \in Asks /\ route \in Routes
  /\ payload \in UpstreamPayloads
  /\ attempts \in 0 .. 2 /\ delivered \in Nat
  /\ reported \in {"nothing", "success", "failure"}
  /\ reply \in Replies \cup {NoReply}
  /\ phase \in {"admit", "send", "judge", "read", "done"}
  /\ answer \in [status : {0, 200, 400, 403, 429, 500, 502, 504}, after : Nat \cup {NoHint}]
  /\ held \in {"none", "held", "freed", "handed"}

UpstreamInit ==
  /\ ask \in Asks /\ route \in Routes
  /\ payload = NoPayload
  /\ attempts = 0 /\ delivered = 0
  /\ reported = "nothing"
  /\ reply = NoReply
  /\ phase = "admit"
  /\ answer = Pending
  /\ held = "none"

-----------------------------------------------------------------------------
\* _apply_routing: the tier's chain; two kinds of router are held to it.
Chain == {route.primary} \cup route.fallbacks
Pin == IF route.plugin \in {"auto-router", "pareto-router"} THEN Chain ELSE NoPin

\* A variant that forwards what the client says of models.
SanitizeNothing ==
  [models |-> Chain \cup (IF "models" \in ask.fields THEN {Foreign} ELSE {}), pinned |-> Pin,
   names |-> ask.fields, usage |-> ask.stream]

\* sanitize_request: allowed fields, the routing, usage for streams.
SanitizeRequest ==
  [models |-> Chain, pinned |-> Pin, names |-> ask.fields \cap {"messages"}, usage |-> ask.stream]

\* chat_completions: 403 unless the plan has the tier and it is no internal one.
RefuseTier ==
  /\ phase = "admit" /\ (~route.allowed \/ route.internal)
  /\ answer' = Answer(403, NoHint)
  /\ phase' = "done"
  /\ UNCHANGED <<ask, route, payload, attempts, delivered, reported, reply, held>>

Prepare ==
  /\ phase = "admit" /\ route.allowed /\ ~route.internal
  /\ payload' = SanitizeRequest
  /\ held' = "held"
  /\ phase' = "send"
  /\ UNCHANGED <<ask, route, attempts, delivered, reported, reply, answer>>

\* The handlers of exceptions: record_failure, _fail_event.
GiveUp(status) ==
  /\ reported' = "failure"
  /\ held' = "freed"
  /\ answer' = Answer(status, NoHint)
  /\ phase' = "done"

\* _send_with_retry: no connection, or none in time; once more, then 502.
ConnectFails ==
  /\ phase = "send"
  /\ attempts' = attempts + 1
  /\ \/ attempts = 0 /\ UNCHANGED <<reported, held, answer, phase>>
     \/ attempts = 1 /\ GiveUp(502)
  /\ UNCHANGED <<ask, route, payload, delivered, reply>>

\* A variant that tries once more after any error.
SendBreaksAnyway ==
  /\ phase = "send"
  /\ attempts' = attempts + 1
  /\ delivered' \in {delivered, delivered + 1}
  /\ \/ attempts = 0 /\ UNCHANGED <<reported, held, answer, phase>>
     \/ attempts = 1 /\ \E status \in {502, 504} : GiveUp(status)
  /\ UNCHANGED <<ask, route, payload, reply>>

\* Another timeout (504) or transport error (502), with the request on its way
\* or not: not tried again.
SendBreaks ==
  /\ phase = "send"
  /\ attempts' = attempts + 1
  /\ delivered' \in {delivered, delivered + 1}
  /\ \E status \in {502, 504} : GiveUp(status)
  /\ UNCHANGED <<ask, route, payload, reply>>

\* Hints matter with a 429 only.
Reply ==
  /\ phase = "send"
  /\ attempts' = attempts + 1
  /\ delivered' = delivered + 1
  /\ \E r \in Replies :
       /\ r.status = 429 \/ r = [NoReply EXCEPT !.status = r.status]
       /\ reply' = r
  /\ phase' = "judge"
  /\ UNCHANGED <<ask, route, payload, reported, answer, held>>

\* _record_breaker_outcome
Judge ==
  /\ phase = "judge"
  /\ reported' = IF reply.status \in {200, 400, 402, 422, 429} THEN "success" ELSE "failure"
  /\ IF reply.status = 200
     THEN answer' = Answer(200, NoHint) /\ held' = "handed" /\ phase' = "done"
     ELSE phase' = "read" /\ UNCHANGED <<answer, held>>
  /\ UNCHANGED <<ask, route, payload, attempts, delivered, reply>>

\* normalize_upstream_error, 429: a header that is a number wins; then the
\* body's hint; then X-RateLimit-Reset; then half a minute.
ResetsAt ==
  IF reply.body \in Hints THEN reply.body
  ELSE IF reply.header \notin Hints /\ reply.reset \in Hints THEN reply.reset
  ELSE NoHint
RetryAfter ==
  IF reply.header \in Hints THEN IF reply.header < 0 THEN 0 ELSE reply.header
  ELSE IF ResetsAt = NoHint THEN 30
  ELSE IF ResetsAt < 1 THEN 1 ELSE ResetsAt

\* The rest of normalize_upstream_error.
Normalized ==
  CASE reply.status = 400 -> Answer(400, NoHint)
    [] reply.status = 429 -> Answer(429, RetryAfter)
    [] reply.status = 408 -> Answer(504, NoHint)
    [] OTHER -> Answer(502, NoHint)

\* int(float("inf")) raises what the handler does not catch.
Normalizes == ~(reply.status = 429 /\ reply.header = Infinite)

Fail ==
  /\ phase = "read" /\ Normalizes
  /\ answer' = Normalized
  /\ held' = "freed"
  /\ phase' = "done"
  /\ UNCHANGED <<ask, route, payload, attempts, delivered, reported, reply>>

\* An exception nobody handles: that one, or a stream's error body that breaks
\* off (aread).  The framework answers 500 and the reservation stays.
Escape ==
  /\ phase = "read" /\ (~Normalizes \/ ask.stream)
  /\ answer' = Answer(500, NoHint)
  /\ phase' = "done"
  /\ UNCHANGED <<ask, route, payload, attempts, delivered, reported, reply, held>>

UpstreamNext ==
  \/ RefuseTier \/ Prepare
  \/ ConnectFails \/ SendBreaks \/ Reply
  \/ Judge \/ Fail \/ Escape

UpstreamSpec == UpstreamInit /\ [][UpstreamNext]_upstreamVars

-----------------------------------------------------------------------------
(* Properties *)

\* "Connection never established ...: safe to retry" (_send_with_retry): no
\* retry makes the upstream serve a request twice.
SentOnce == delivered <= 1

\* Only the tier's models are named, whatever the client asks for, and the two
\* routers that are known are held to all of them.
OwnModels ==
  /\ payload.models \cup payload.pinned \subseteq Chain /\ payload.names \subseteq {"messages"}
  /\ held # "none" /\ route.plugin \in {"auto-router", "pareto-router"} => payload.pinned = Chain

\* The upstream's refusal of the gateway's key is never shown as the client's;
\* a 403 is the gateway's own, and nothing was sent or reserved for it; after a
\* failure that counts against the upstream the client reads of no fault of its
\* own; a 429 says when to come back, and not before the reset if that is all
\* that is known.
Contract ==
  /\ answer.status = 403 => delivered = 0 /\ held = "none" /\ reported = "nothing"
  /\ phase = "done" /\ reported = "failure" => answer.status >= 500
  /\ answer.status = 429 =>
       /\ answer.after \in Nat
       /\ reply.header = NoHint /\ reply.body \in Hints => answer.after >= reply.body

\* An exception got past the handlers.
Escaped == phase = "done" /\ answer.status = 500

\* Every request that ends with an answer of the gateway's has its reservation
\* freed, or handed to the settlement if it was served, and no other way round.
Freed ==
  phase = "done" /\ ~Escaped =>
    CASE answer.status = 200 -> held = "handed" /\ delivered = 1
      [] answer.status = 403 -> held = "none"
      [] OTHER -> held = "freed"

\* The contract of docs/gateway-contract.md for requests the upstream fails,
\* wherever it fails them (chat_completions, upstream.py), but for those an
\* exception ends: of these it is said only that the upstream had answered with
\* an error, and that it was a stream or a 429 whose header does not convert.
HandledErrorsKeepTheContract ==
  /\ SentOnce /\ OwnModels /\ Contract /\ Freed
  /\ Escaped => reply.status \notin {0, 200} /\ (ask.stream \/ ~Normalizes)

\* "When it returns 429, the gateway forwards 429 with Retry-After", "failed
\* requests never charged" (gateway-contract.md), for an answer that is read
\* whole.
LimitsForwarded ==
  phase = "done" /\ reply.status = 429 /\ ~ask.stream =>
    answer.status = 429 /\ held = "freed"
=============================================================================
