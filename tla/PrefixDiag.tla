----------------------------- MODULE PrefixDiag -----------------------------
(***************************************************************************)
(* qwen_prefix_diag.py: two conversations A and B alternate over two slots *)
(* of one server, once with the slots named and once routed by the server, *)
(* and the last answer of A is compared with the same request from a cold  *)
(* slot.  What the server really did for each request is kept beside what  *)
(* the response said of it.                                                *)
(***************************************************************************)
EXTENDS MtpEvidence

CONSTANTS
  PrefixServers,   \* kinds of server
  PrefixFaults     \* bound: lost answers and foreign requests of a run

ASSUME PrefixAssumption == PrefixFaults \in Nat

VARIABLES
  pserver,  \* the kind of this server
  ppc,      \* "run", "classify", "exit"
  pstep,    \* the request to come, 1..11
  slots,    \* what each slot's cache holds: "A", "B", "C" (another client) or "none"
  lru,      \* the slots, least recently used first
  prows,    \* the rows so far
  auto,     \* automatic_slots: the slot each family was first answered from
  did,      \* what the server did for each row (history)
  pfaults,
  preport,  \* the failures of the report
  pexit

prefix_vars == <<pserver, ppc, pstep, slots, lru, prows, auto, did, pfaults, preport, pexit>>

Slot(family) == IF family = "A" THEN 0 ELSE 1
Other(family) == IF family = "A" THEN "B" ELSE "A"

\* The eleven requests; the sixth is the cold reference in B's slot.
Sequence ==
  LET Case(family, marker, warm) ==
        [family |-> family, marker |-> marker, warm |-> warm]
      round == <<Case("A", 1001, FALSE), Case("B", 2001, FALSE), Case("A", 1002, TRUE),
                 Case("B", 2002, TRUE), Case("A", 1003, TRUE)>>
      Routed(case, routing, slot) ==
        [family |-> case.family, marker |-> case.marker, warm |-> case.warm,
         routing |-> routing, slot |-> slot]
  IN [i \in 1..11 |->
        IF i <= 5 THEN Routed(round[i], "explicit", Slot(round[i].family))
        ELSE IF i = 6 THEN Routed(Case("A", 1003, FALSE), "cold", Slot("B"))
        ELSE Routed(round[i - 6], "automatic", NoValue)]
FinalCached == 5
FinalCold == 6
AutoA == 7
AutoB == 8
AutoFinal == 11

\* The slots erased before a request.
Erased(i) == IF i \in {1, 7} THEN {0, 1} ELSE IF i = 6 THEN {1} ELSE {}

-----------------------------------------------------------------------------
(* The server *)

\* A named slot, or the one that holds the conversation, or the oldest.
Serving(case, held) ==
  IF pserver \in {"oneslot", "liar"} \/ (pserver = "swaps" /\ case.routing = "automatic") THEN 0
  ELSE IF case.slot # NoValue THEN case.slot
  ELSE IF \E s \in {0, 1} : held[s] = case.family
       THEN CHOOSE s \in {0, 1} : held[s] = case.family
       ELSE lru[1]

\* Reuse, the markers in the text, and the tokens, of a request in a slot.
Served(case, held) ==
  LET s      == Serving(case, held)
      reused == held[s] = case.family /\ pserver # "nocache"
      leaks  == reused /\ pserver = "leaks"
      drifts == reused /\ (pserver = "drifts" \/ (pserver = "driftsB" /\ case.family = "B"))
  IN [slot |-> s, reused |-> reused,
      marks |-> {case.family} \cup (IF leaks THEN {Other(case.family)} ELSE {}),
      trace |-> <<[id |-> case.marker], [id |-> IF drifts THEN 1 ELSE 0]>>]

-----------------------------------------------------------------------------
(* run_request and classify *)

PrefixAnswers == {"ok", "status", "unparsed", "length", "noids"}

\* The cached share of a prompt of 100 tokens.
CacheCount(d) == IF ~d.reused THEN 0 ELSE IF pserver = "half" THEN 40 ELSE 90

PrefixRow(i, expected, d, answer) ==
  [case |-> Sequence[i], expected |-> expected, ok |-> answer \notin {"status", "unparsed"},
   reported |-> IF pserver = "mute" \/ answer \in {"status", "unparsed"} THEN NoValue
                ELSE IF pserver = "liar" /\ Sequence[i].slot # NoValue THEN Sequence[i].slot
                ELSE d.slot,
   marks |-> d.marks, trace |-> d.trace, cache |-> CacheCount(d),
   draft |-> IF pserver = "nodraft" \/ answer \in {"status", "unparsed"} THEN 0 ELSE 3,
   stop |-> answer # "length", ids |-> answer # "noids"]

\* The default thresholds: 70% of a warm prompt, no token of a cold one.
MutantRowPasses(row) ==
  /\ row.ok /\ row.reported # NoValue
  /\ row.expected = NoValue \/ row.reported = row.expected
  /\ row.marks = {row.case.family}
  /\ row.stop /\ row.ids
  /\ row.case.warm \/ row.cache = 0
RowPasses(row) ==
  /\ row.ok /\ row.reported # NoValue
  /\ row.expected = NoValue \/ row.reported = row.expected
  /\ row.marks = {row.case.family}
  /\ row.stop /\ row.ids
  /\ IF row.case.warm THEN row.cache >= 70 ELSE row.cache = 0

exact_output_comparison(cached, cold) ==
  /\ cached.ok /\ cold.ok
  /\ cached.case.marker = cold.case.marker /\ cached.marks = cold.marks
  /\ first_token_divergence(cold.trace, cached.trace) = NoValue

\* The run asks for drafts (--n-max above zero).
PrefixFailures(set) ==
  {<<"row", i>> : i \in {j \in DOMAIN set : ~RowPasses(set[j])}}
  \cup (IF \E i \in DOMAIN set : set[i].draft > 0 THEN {} ELSE {<<"no drafts", 0>>})
  \cup (IF exact_output_comparison(set[FinalCached], set[FinalCold])
        THEN {} ELSE {<<"cached A", FinalCached>>})
  \cup (IF set[AutoA].reported \in {NoValue, set[AutoB].reported} \/ set[AutoB].reported = NoValue
        THEN {<<"routing", AutoB>>} ELSE {})
  \cup (IF exact_output_comparison(set[AutoFinal], set[FinalCold])
        THEN {} ELSE {<<"automatic A", AutoFinal>>})

-----------------------------------------------------------------------------
(* The run *)

PrefixInit ==
  /\ pserver \in PrefixServers
  /\ ppc = "run" /\ pstep = 1
  /\ slots \in {[s \in {0, 1} |-> "none"], [s \in {0, 1} |-> IF s = 0 THEN "C" ELSE "A"]}
  /\ lru = <<0, 1>>
  /\ prows = <<>> /\ did = <<>> /\ auto = [f \in {"A", "B"} |-> NoValue]
  /\ pfaults = PrefixFaults /\ preport = {} /\ pexit = NoValue

\* The erasures before the request, then the request; the row is kept in memory.
MutantErasedSlots(i) == [s \in {0, 1} |-> IF s \in Erased(i) /\ i = 1 THEN "none" ELSE slots[s]]
ErasedSlots(i) == [s \in {0, 1} |-> IF s \in Erased(i) THEN "none" ELSE slots[s]]
Request(answer) ==
  LET case == Sequence[pstep]
      d    == Served(case, ErasedSlots(pstep))
      expected == IF case.routing = "automatic" THEN auto[case.family] ELSE case.slot
      row  == PrefixRow(pstep, expected, d, answer)
  IN /\ ppc = "run"
     /\ answer # "ok" => pfaults > 0
     /\ pfaults' = IF answer = "ok" THEN pfaults ELSE pfaults - 1
     /\ slots' = [ErasedSlots(pstep) EXCEPT ![d.slot] = case.family]
     /\ lru' = IF d.slot = lru[1] THEN <<lru[2], lru[1]>> ELSE lru
     /\ prows' = Append(prows, row) /\ did' = Append(did, d)
     /\ auto' = IF case.routing = "automatic" /\ auto[case.family] = NoValue
                THEN [auto EXCEPT ![case.family] = row.reported] ELSE auto
     /\ pstep' = pstep + 1
     /\ ppc' = IF pstep = 11 THEN "classify" ELSE "run"
     /\ UNCHANGED <<pserver, preport, pexit>>

\* A connection that breaks, or a failed erasure, ends the run; the rows were
\* only to be written at the end.
RequestLost ==
  /\ ppc = "run" /\ pfaults > 0
  /\ pfaults' = pfaults - 1
  /\ prows' = <<>> /\ ppc' = "exit" /\ pexit' = 1
  /\ UNCHANGED <<pserver, pstep, slots, lru, auto, did, preport>>

\* Another client is served by the slot used least recently.
Intruder ==
  /\ ppc = "run" /\ pfaults > 0
  /\ pfaults' = pfaults - 1
  /\ slots' = [slots EXCEPT ![lru[1]] = "C"] /\ lru' = <<lru[2], lru[1]>>
  /\ UNCHANGED <<pserver, ppc, pstep, prows, auto, did, preport, pexit>>

\* The verdict, with --require-pass.
PrefixClassify ==
  /\ ppc = "classify"
  /\ preport' = PrefixFailures(prows)
  /\ ppc' = "exit" /\ pexit' = IF preport' = {} THEN 0 ELSE 2
  /\ UNCHANGED <<pserver, pstep, slots, lru, prows, auto, did, pfaults>>

PrefixNext ==
  \/ \E answer \in PrefixAnswers : Request(answer)
  \/ RequestLost \/ Intruder \/ PrefixClassify
PrefixSpec == PrefixInit /\ [][PrefixNext]_prefix_vars

-----------------------------------------------------------------------------
(* Properties *)

\* A pass means that A and B were kept in two slots, that no answer carried the
\* other conversation, that every resumed request really reused its own cache,
\* every first one none, and that the tokens of A's last answer, with and without
\* its cache, were the same.
PrefixPassIsTrue ==
  pexit = 0 =>
    /\ Len(did) = 11
    /\ \A i \in 1..11 : /\ did[i].reused <=> Sequence[i].warm
                        /\ did[i].marks = {Sequence[i].family}
    /\ \A i, j \in 1..11 :
         (Sequence[i].routing = Sequence[j].routing /\ Sequence[i].family # Sequence[j].family)
           => did[i].slot # did[j].slot
    /\ did[FinalCached].trace = did[FinalCold].trace
    /\ did[AutoFinal].trace = did[FinalCold].trace

\* A server that keeps two conversations apart, and is not disturbed, passes,
\* whatever its slots held before.
PrefixSoundPasses ==
  (ppc = "exit" /\ pserver = "sound" /\ pfaults = PrefixFaults) => pexit = 0
=============================================================================
