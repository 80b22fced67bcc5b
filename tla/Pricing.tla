-------------------------------- MODULE Pricing --------------------------------
(***************************************************************************)
(* What a request costs (services/credits.py): the estimate of its prompt, *)
(* the amount it reserves and the amount it settles for.                   *)
(*                                                                         *)
(* Amounts and rates are whole numbers of CREDIT_QUANTUM, multipliers of   *)
(* ten-thousandths, as the columns hold them.                              *)
(***************************************************************************)
EXTENDS Integers

Scale == 10000

\* A tier: what 1000 tokens cost, and the multipliers of some of them.
Rates == [input : Nat, output : Nat, cacheRead : Nat, cacheWrite : Nat, reasoning : Nat]

Larger(a, b) == IF a >= b THEN a ELSE b
Smaller(a, b) == IF a <= b THEN a ELSE b

\* quantize_credits: n / d, rounded half up.
Quantize(n, d) == (2 * n + d) \div (2 * d)

-----------------------------------------------------------------------------
(* The estimate *)

\* _apply_margin, with TOKEN_SAFETY_MARGIN: a fifth more, rounded up.
Margin(raw) == Larger(1, (6 * raw + 4) \div 5)

\* Characters for tokens, without an encoder.
TextTokens(chars) == (chars + 3) \div 4

\* estimate_tokens: no margin, since it is charged.
EstimateTokens(chars) == Larger(1, TextTokens(chars))

\* estimate_messages_tokens: other blocks than text have a flat budget.
EstimateMessages(messages, chars, blocks, blockTokens) ==
  Margin(TextTokens(chars)) + blocks * blockTokens + 4 * messages

-----------------------------------------------------------------------------
(* The amounts *)

\* reserve_amount
ReserveAmount(tier, prompt, completion) ==
  Quantize(prompt * tier.input + completion * tier.output, 1000)

\* token_cost: three disjoint buckets of the prompt ...
Cached(used) == Larger(0, Smaller(used.cached, used.prompt))
Written(used) == Larger(0, Smaller(used.written, used.prompt - Cached(used)))
Fresh(used) == Larger(used.prompt - Cached(used) - Written(used), 0)

\* ... and two of the completion.
Reasoning(used) == Larger(0, Smaller(used.reasoning, used.completion))
Visible(used) == Larger(used.completion - Reasoning(used), 0)

InputWeight(tier, used) ==
  Fresh(used) * Scale + Cached(used) * tier.cacheRead + Written(used) * tier.cacheWrite
OutputWeight(tier, used) == Visible(used) * Scale + Reasoning(used) * tier.reasoning

\* A variant that charges cached tokens twice, as fresh ones too.
TokenCostTwice(tier, used) ==
  Quantize(tier.input * (InputWeight(tier, used) + Cached(used) * Scale)
             + tier.output * OutputWeight(tier, used), 1000 * Scale)

TokenCost(tier, used) ==
  Quantize(tier.input * InputWeight(tier, used) + tier.output * OutputWeight(tier, used),
           1000 * Scale)

-----------------------------------------------------------------------------
(* What reserve_amount leaves out: the multipliers above 1 *)

Excess(multiplier) == Larger(0, multiplier - Scale)

\* The tokens that cost more than their rate, as far as they do.
Surcharge(tier, used) ==
  tier.input * (Cached(used) * Excess(tier.cacheRead) + Written(used) * Excess(tier.cacheWrite))
    + tier.output * (Reasoning(used) * Excess(tier.reasoning))

\* The reservation, and the surcharge on top.
ReserveWithSurcharge(tier, prompt, completion, used) ==
  Quantize(Scale * (prompt * tier.input + completion * tier.output) + Surcharge(tier, used),
           1000 * Scale)
=============================================================================
