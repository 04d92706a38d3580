------------------------------ MODULE PromptFit ------------------------------
(***************************************************************************)
(* fit_prompt_to_tokens and fit_quality_prompt_to_tokens of qwen_bench.py:  *)
(* the search for a prompt of exactly the wanted number of tokens, one     *)
(* request to /tokenize at a time.  The tokenizer is met one answer at a   *)
(* time; nothing is known of it but that a little more text may join the   *)
(* token before it.                                                        *)
(***************************************************************************)
EXTENDS Integers

CONSTANTS
  Targets,      \* the wanted counts that are tried
  FirstHigh,    \* max(1024, 5 * target): the first upper bound, in characters
  LastHigh,     \* bound: at this many characters a prompt has its target
  Probes,       \* 32 tries of the search, 40 for a quality prompt
  PadRepeats,   \* 64 repetitions of a unit of padding
  Units,        \* the 4 units of padding
  Overshoot,    \* 8: padding so far beyond the target ends its unit
  Dip           \* bound: by how much a longer text may have fewer tokens

ASSUME FitAssumption ==
  /\ Targets \subseteq Nat \ {0} /\ FirstHigh \in Nat \ {0} /\ LastHigh \in Nat
  /\ Probes \in Nat /\ PadRepeats \in Nat /\ Units \in Nat
  /\ Overshoot \in Nat /\ Dip \in Nat

VARIABLES
  target,    \* target_tokens
  fpc,       \* "low", "high", "search", "pad", "returned", "refused", "failed"
  low, high, \* low_chars, low_count and high_chars, high_count: [chars, count]
  best,      \* best_chars, best_count
  probes,    \* the tries of the search so far
  pad,       \* the padding to try next: [unit, repeats]
  measured,  \* every answer of /tokenize so far: {[chars, pad, count]}
  answer     \* the count of the prompt that was returned

fit_vars == <<target, fpc, low, high, best, probes, pad, measured, answer>>

NoPadding == [unit |-> 0, repeats |-> 0]
At(chars, count) == [chars |-> chars, count |-> count]
Largest(S) == CHOOSE x \in S : \A y \in S : y <= x

-----------------------------------------------------------------------------
(* The tokenizer *)

AnswersFor(chars, padding) == {m \in measured : m.chars = chars /\ m.pad = padding}

\* Two counts a tokenizer may give to a text and to a longer one that starts or
\* ends like it: a token has a character or more, only a little of what is added
\* can join what was there, and FirstHigh characters or more are a token more at least.
Fits(short, short_n, long, long_n) ==
  /\ long_n <= short_n + (long - short)
  /\ IF long - short < FirstHigh THEN short_n <= long_n + Dip ELSE short_n < long_n

\* What /tokenize may say of a prompt: what it said before, or what fits every
\* count so far.
Counts(chars, padding) ==
  LET plain == {m \in measured : m.pad = NoPadding}
  IN IF AnswersFor(chars, padding) # {}
     THEN {m.count : m \in AnswersFor(chars, padding)}
     ELSE {n \in 0..LastHigh + PadRepeats :
            IF padding = NoPadding
            THEN \A m \in plain : IF m.chars < chars THEN Fits(m.chars, m.count, chars, n)
                                                     ELSE Fits(chars, n, m.chars, m.count)
            ELSE \A m \in plain : m.chars = chars => m.count - Dip <= n}

Ask(chars, padding, count) ==
  /\ count \in Counts(chars, padding)
  /\ chars >= LastHigh => count >= target
  /\ measured' = measured \cup {[chars |-> chars, pad |-> padding, count |-> count]}

-----------------------------------------------------------------------------

FitInit ==
  /\ target \in Targets /\ fpc = "low"
  /\ low = At(0, 0) /\ high = At(FirstHigh, 0) /\ best = At(0, 0)
  /\ probes = 0 /\ pad = NoPadding /\ measured = {} /\ answer = -1

Return(count) == fpc' = "returned" /\ answer' = count

\* The task alone; if it is too long the request is refused.
AskLow ==
  /\ fpc = "low"
  /\ \E n \in 0..target + 1 :
       /\ Ask(0, NoPadding, n)
       /\ low' = At(0, n)
       /\ fpc' = IF n > target THEN "refused" ELSE "high"
  /\ UNCHANGED <<target, high, best, probes, pad, answer>>

\* The upper bound doubles until it is not below the target.
AskHigh ==
  /\ fpc = "high"
  /\ \E n \in Counts(high.chars, NoPadding) :
       /\ Ask(high.chars, NoPadding, n)
       /\ IF n < target
          THEN /\ low' = At(high.chars, n) /\ high' = At(2 * high.chars, n)
               /\ UNCHANGED <<fpc, best>>
          ELSE /\ high' = At(high.chars, n) /\ best' = low /\ fpc' = "search"
               /\ UNCHANGED low
  /\ UNCHANGED <<target, probes, pad, answer>>

\* Interpolation, kept strictly inside the bracket while it can be.
Estimated ==
  low.chars + ((target - low.count) * (high.chars - low.chars)) \div (high.count - low.count)
Between ==
  LET a == IF Estimated < low.chars + 1 THEN low.chars + 1 ELSE Estimated
  IN IF a > high.chars - 1 THEN high.chars - 1 ELSE a
Probe ==
  IF Between <= low.chars \/ Between >= high.chars
  THEN (low.chars + high.chars) \div 2 ELSE Between

Exhausted ==
  \/ probes = Probes
  \/ high.count = low.count
  \/ probes > 0 /\ high.chars - low.chars <= 1
  \/ high.count # low.count /\ Probe <= low.chars

\* One try of the search: the bracket shrinks from the side the answer is on.
MutantSearch ==
  /\ fpc = "search" /\ ~Exhausted
  /\ probes' = probes + 1
  /\ \E n \in Counts(Probe, NoPadding) :
       /\ Ask(Probe, NoPadding, n)
       /\ \/ n = target /\ Return(n) /\ UNCHANGED <<low, high, best>>
          \/ /\ n < target /\ low' = At(Probe, n)
             /\ best' = At(Probe, n)
             /\ UNCHANGED <<high, fpc, answer>>
          \/ n > target /\ high' = At(Probe, n) /\ UNCHANGED <<low, best, fpc, answer>>
  /\ UNCHANGED <<target, pad>>

Search ==
  /\ fpc = "search" /\ ~Exhausted
  /\ probes' = probes + 1
  /\ \E n \in Counts(Probe, NoPadding) :
       /\ Ask(Probe, NoPadding, n)
       /\ \/ n = target /\ Return(n) /\ UNCHANGED <<low, high, best>>
          \/ /\ n < target /\ low' = At(Probe, n)
             /\ best' = IF n > best.count THEN At(Probe, n) ELSE best
             /\ UNCHANGED <<high, fpc, answer>>
          \/ n > target /\ high' = At(Probe, n) /\ UNCHANGED <<low, best, fpc, answer>>
  /\ UNCHANGED <<target, pad>>

SearchEnds ==
  /\ fpc = "search" /\ Exhausted
  /\ fpc' = "pad" /\ pad' = [unit |-> 1, repeats |-> 1]
  /\ UNCHANGED <<target, low, high, best, probes, measured, answer>>

\* Padding behind the best prompt so far, unit by unit.
NextUnit == [unit |-> pad.unit + 1, repeats |-> 1]
Pad ==
  /\ fpc = "pad" /\ pad.unit <= Units
  /\ \E n \in Counts(best.chars, pad) :
       /\ Ask(best.chars, pad, n)
       /\ \/ n = target /\ Return(n) /\ UNCHANGED pad
          \/ /\ n # target
             /\ pad' = IF n > target + Overshoot \/ pad.repeats = PadRepeats
                       THEN NextUnit ELSE [pad EXCEPT !.repeats = @ + 1]
             /\ UNCHANGED <<fpc, answer>>
  /\ UNCHANGED <<target, low, high, best, probes>>

GiveUp ==
  /\ fpc = "pad" /\ pad.unit > Units
  /\ fpc' = "failed"
  /\ UNCHANGED <<target, low, high, best, probes, pad, measured, answer>>

FitNext == AskLow \/ AskHigh \/ Search \/ SearchEnds \/ Pad \/ GiveUp
FitSpec == FitInit /\ [][FitNext]_fit_vars

-----------------------------------------------------------------------------
(* Properties *)

\* The search never loses the target and never the best prompt: the bracket is
\* of measured prompts with the target between their counts, and the padding
\* starts from the fullest prompt below it that was measured without padding.
SearchIsSound ==
  fpc \in {"search", "pad", "failed"} =>
    /\ low.chars < high.chars /\ low.count <= target /\ target <= high.count
    /\ \A p \in {low, high, best} :
         [chars |-> p.chars, pad |-> NoPadding, count |-> p.count] \in measured
    /\ best.count = Largest({m.count : m \in {q \in measured :
                              q.pad = NoPadding /\ q.count <= target /\ q.chars < high.chars}})

\* "could not construct an exact prompt, closest count was": when the search gives
\* up, no prompt that was measured has the exact count, neither the upper bound,
\* beside which another count is called the closest, nor the task alone.
NoneWasExact == fpc = "failed" => \A m \in measured : m.count # target
=============================================================================
