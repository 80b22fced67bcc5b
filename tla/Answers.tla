-------------------------------- MODULE Answers --------------------------------
(***************************************************************************)
(* The answer of a request that the upstream accepted, and what it is      *)
(* settled for (chat_completions, stream_sse_events, SseUsageScanner and   *)
(* _transform_sse_line in routers/gateway.py).                             *)
(*                                                                         *)
(* A plain answer is one object.  A stream's lines arrive in chunks that   *)
(* end anywhere, and are scanned, rewritten and passed on one by one,      *)
(* until the upstream ends or breaks off, or the client goes.  A line      *)
(* travels as two pieces and a newline.                                    *)
(***************************************************************************)
EXTENDS Integers, Sequences, SequencesExt, FiniteSetsExt, Pricing

CONSTANTS
  Lines,       \* the lines an upstream may send
  MaxLines,    \* bound on the lines of a body
  Tier,        \* the tier's rates
  Prompt,      \* the client's messages, as far as they are counted
  BlockTokens, \* NON_TEXT_BLOCK_TOKENS
  MaxOutput,   \* max_tokens, as reserved and as asked of the upstream
  Absent       \* a count that is not reported

Counters == {"prompt", "completion", "cached", "written", "reasoning"}

\* data: a "data:" line that holds an object.  chars: of its text.  private: it
\* holds what clients must not see (the upstream's model id, its usage fields).
ASSUME LinesAssumption ==
  /\ Lines \subseteq [data : BOOLEAN, counts : [Counters -> Int \cup {Absent}], chars : Nat,
                      private : BOOLEAN]
  /\ \A line \in Lines : line.data \/ /\ \A k \in Counters : line.counts[k] = Absent
                                      /\ line.chars = 0 /\ ~line.private
ASSUME AnswerAssumption ==
  /\ Tier \in Rates
  /\ Prompt \in [messages : Nat, chars : Nat, blocks : Nat] /\ BlockTokens \in Nat
  /\ MaxLines \in Nat /\ MaxOutput \in Nat /\ Absent \notin Int

VARIABLES
  streaming,  \* the client asked for a stream
  body,       \* the upstream's lines
  ending,     \* how the last line ends
  sent,       \* pieces that have arrived
  buffer,     \* the pieces not yet passed on
  scanner,    \* SseUsageScanner
  relayed,    \* what the client was sent
  stage,      \* where the handler stands
  bill,       \* what the settlement is called with
  charged     \* credits_charged

answerVars ==
  <<streaming, body, ending, sent, buffer, scanner, relayed, stage, bill, charged>>

-----------------------------------------------------------------------------
\* _reserve: the prompt's estimate, which the settlement is given too.
EstPrompt == EstimateMessages(Prompt.messages, Prompt.chars, Prompt.blocks, BlockTokens)

NoBill == [k \in Counters |-> 0]
FreshScanner ==
  [counts |-> [k \in Counters |-> IF k \in {"prompt", "completion"} THEN Absent ELSE 0],
   chars |-> 0]

\* A part of a line is no object; who knows what it holds.
Fragment == [data |-> FALSE, counts |-> [k \in Counters |-> Absent], chars |-> 0,
             private |-> TRUE]

Endings == [newline |-> 0, unterminated |-> 1, cut |-> 2]  \* the pieces that lack

Piece(i, part) == [line |-> i, part |-> part]
Pieces ==
  [n \in 1 .. 3 * Len(body) - Endings[ending] |->
     Piece((n + 2) \div 3, <<"newline", "head", "tail">>[(n % 3) + 1])]

\* What a stretch of the buffer without a newline says.
Parse(pieces) ==
  IF \E i \in DOMAIN body : pieces = <<Piece(i, "head"), Piece(i, "tail")>>
  THEN body[pieces[1].line]
  ELSE Fragment

\* feed_line: later counts replace earlier ones; text adds up.
FeedLine(s, line) ==
  [counts |-> [k \in Counters |-> IF line.counts[k] = Absent THEN s.counts[k] ELSE line.counts[k]],
   chars |-> s.chars + line.chars]

\* _transform_sse_line, _strip_protected_usage: in an object the model is
\* renamed and the protected usage fields go.
Transform(line) == IF line.data THEN [line EXCEPT !.private = FALSE] ELSE line

\* _finalize_partial, chat_completions: estimates stand in for missing counts.
BillFor(s) ==
  [s.counts EXCEPT
     !["prompt"] = IF @ = Absent THEN EstPrompt ELSE @,
     !["completion"] = IF @ = Absent THEN EstimateTokens(s.chars) ELSE @]

AnswersTypeOK ==
  /\ streaming \in BOOLEAN
  /\ body \in Seq(Lines) /\ ending \in DOMAIN Endings /\ sent \in Nat
  /\ buffer \in Seq([line : Nat, part : {"head", "tail", "newline"}])
  /\ scanner \in [counts : [Counters -> Int \cup {Absent}], chars : Nat]
  /\ relayed \in Seq({Fragment} \cup {Transform(line) : line \in Lines})
  /\ stage \in {"read", "split", "closing", "settled", "lost"}
  /\ bill \in [Counters -> Int] /\ charged \in Nat

AnswersInit ==
  /\ streaming \in BOOLEAN
  /\ body \in UNION {[1 .. n -> Lines] : n \in IF streaming THEN 0 .. MaxLines ELSE {1}}
  /\ ending \in IF streaming THEN DOMAIN Endings ELSE {"newline"}
  /\ sent = 0 /\ buffer = <<>>
  /\ scanner = FreshScanner
  /\ relayed = <<>>
  /\ stage = "read"
  /\ bill = NoBill /\ charged = 0

\* _finalize_event, as far as the amount goes.
Settle(b) == bill' = b /\ charged' = TokenCost(Tier, b) /\ stage' = "settled"

-----------------------------------------------------------------------------
\* chat_completions: a plain answer; without an object nothing is settled.
AnswerPlain ==
  /\ ~streaming /\ stage = "read"
  /\ \/ /\ body[1].data
        /\ Settle(BillFor(FeedLine(FreshScanner, body[1])))
        /\ relayed' = <<Transform(body[1])>>
     \/ /\ ~body[1].data
        /\ stage' = "lost"
        /\ UNCHANGED <<relayed, bill, charged>>
  /\ UNCHANGED <<streaming, body, ending, sent, buffer, scanner>>

\* A variant that loses the end of the chunk before.
ReceiveChunkOnly ==
  /\ streaming /\ stage = "read"
  /\ \E n \in sent + 1 .. Len(Pieces) :
       /\ buffer' = SubSeq(Pieces, sent + 1, n)
       /\ sent' = n
  /\ stage' = "split"
  /\ UNCHANGED <<streaming, body, ending, scanner, relayed, bill, charged>>

\* aiter_bytes: a chunk of any length.
ReceiveChunk ==
  /\ streaming /\ stage = "read"
  /\ \E n \in sent + 1 .. Len(Pieces) :
       /\ buffer' = buffer \o SubSeq(Pieces, sent + 1, n)
       /\ sent' = n
  /\ stage' = "split"
  /\ UNCHANGED <<streaming, body, ending, scanner, relayed, bill, charged>>

EndsLine(piece) == piece.part = "newline"

\* One line leaves the buffer, is scanned, and is handed to the client, who
\* may be gone.
PassOn(pieces, rest, next) ==
  LET line == Parse(pieces) IN
  /\ buffer' = rest
  /\ scanner' = FeedLine(scanner, line)
  /\ \/ relayed' = Append(relayed, Transform(line)) /\ stage' = next
     \/ UNCHANGED relayed /\ stage' = "closing"
  /\ UNCHANGED <<streaming, body, ending, sent, bill, charged>>

\* while b"\n" in buffer: the first line.
SplitLine ==
  LET cut == SelectInSeq(buffer, EndsLine) IN
  /\ stage = "split" /\ cut > 0
  /\ PassOn(SubSeq(buffer, 1, cut - 1), SubSeq(buffer, cut + 1, Len(buffer)), "split")

NeedMore ==
  /\ stage = "split" /\ SelectInSeq(buffer, EndsLine) = 0
  /\ stage' = "read"
  /\ UNCHANGED <<streaming, body, ending, sent, buffer, scanner, relayed, bill, charged>>

\* The upstream's end: what is left in the buffer is a line, too.
Flush ==
  /\ streaming /\ stage = "read" /\ sent = Len(Pieces)
  /\ \/ /\ buffer # <<>>
        /\ PassOn(buffer, <<>>, "closing")
     \/ /\ buffer = <<>>
        /\ stage' = "closing"
        /\ UNCHANGED <<streaming, body, ending, sent, buffer, scanner, relayed, bill, charged>>

\* The upstream breaks off or times out, or the client goes meanwhile.
BreakOff ==
  /\ streaming /\ stage = "read"
  /\ stage' = "closing"
  /\ UNCHANGED <<streaming, body, ending, sent, buffer, scanner, relayed, bill, charged>>

\* _finalize_partial, shielded from the client's going.
FinalizePartial ==
  /\ stage = "closing"
  /\ Settle(BillFor(scanner))
  /\ UNCHANGED <<streaming, body, ending, sent, buffer, scanner, relayed>>

\* aclose is not shielded: if it raises, the settlement is skipped.
CloseFails ==
  /\ stage = "closing"
  /\ stage' = "lost"
  /\ UNCHANGED <<streaming, body, ending, sent, buffer, scanner, relayed, bill, charged>>

AnswersNext ==
  \/ AnswerPlain
  \/ ReceiveChunk \/ SplitLine \/ NeedMore \/ Flush \/ BreakOff
  \/ FinalizePartial \/ CloseFails

AnswersSpec == AnswersInit /\ [][AnswersNext]_answerVars

-----------------------------------------------------------------------------
(* Properties *)

Complete == IF ending = "cut" /\ body # <<>> THEN Len(body) - 1 ELSE Len(body)

\* The last count of a kind among the first k lines.
LastReport(counter, k, otherwise) ==
  LET reports == {i \in 1 .. k : body[i].counts[counter] # Absent}
  IN  IF reports = {} THEN otherwise ELSE body[Max(reports)].counts[counter]

\* How much text the first k lines hold.
Text[k \in 0 .. Len(body)] == IF k = 0 THEN 0 ELSE Text[k - 1] + body[k].chars

\* What the first k lines are billed: the counts reported last, and where there
\* is none, the prompt's estimate as it was reserved, margin included, and a
\* bare estimate of the text.
Charge(k) ==
  LET otherwise == [NoBill EXCEPT !["prompt"] = EstPrompt,
                                  !["completion"] = EstimateTokens(Text[k])]
  IN  [counter \in Counters |-> LastReport(counter, k, otherwise[counter])]

\* The whole lines of the upstream, free of private fields.
RelayedInOrder ==
  \A i \in DOMAIN relayed : i <= Complete => relayed[i] = [body[i] EXCEPT !.private = FALSE]

\* The lines passed on are charged for; of a stream the client leaves, one more
\* may be, the one on its way.
ChargedForLines ==
  stage = "settled" =>
    /\ \E k \in {Len(relayed), Len(relayed) + 1} : bill = Charge(Min({k, Complete}))
    /\ ~streaming \/ (sent = Len(Pieces) /\ buffer = <<>>) => bill = Charge(Complete)

WithinReserve == bill["prompt"] <= EstPrompt /\ bill["completion"] <= MaxOutput

\* Details beyond their totals cost nothing more.
ChargedAtMost ==
  WithinReserve => charged <= ReserveWithSurcharge(Tier, EstPrompt, MaxOutput, bill)

\* Wherever chunks end and whoever goes first (stream_sse_events), the client
\* gets the upstream's lines in order and free of private fields, and is billed
\* for those by the counts reported last, or by the handler's estimates, padded
\* or not, where there are none; and whatever details an upstream reports
\* (token_cost), if the totals are within the reservation no more is charged
\* than it and the surcharge on the tokens that carry one.
ChargedAsRelayed == RelayedInOrder /\ ChargedForLines /\ ChargedAtMost

\* "Applied ONLY to pre-reservations ... never to the fallback used for real
\* billing" (credits.py, TOKEN_SAFETY_MARGIN): a prompt no report counted is
\* billed by an estimate without the margin.
MarginNeverBilled ==
  stage = "settled" /\ LastReport("prompt", Len(body), Absent) = Absent =>
    bill["prompt"] <= EstimateTokens(Prompt.chars) + Prompt.blocks * BlockTokens
                        + 4 * Prompt.messages
=============================================================================
