---------------------------- MODULE MtpEvidence -----------------------------
(***************************************************************************)
(* What the MTP equivalence diagnostic reads out of one answer and out of  *)
(* one slice of the server's log, and how it compares two answers.  A      *)
(* token is its id, whether candidates came with it, and its score; a text *)
(* is the sequence of the token ids it was made from; an event stream is a *)
(* sequence of blocks.                                                     *)
(***************************************************************************)
EXTENDS Integers, Sequences, FiniteSets, SequencesExt

NoValue == -1     \* None, among counts and positions

\* The elements of a sequence at some places, in their order: SelectSeq without
\* its recursion, about which nothing can be proved.
Picked(s, places) ==
  [k \in 1..Cardinality(places) |->
     s[CHOOSE i \in places : Cardinality({j \in places : j <= i}) = k]]

-----------------------------------------------------------------------------
(* The condition matrix *)

Profile(name) ==
  CASE name = "full"           -> [t |-> <<0, 1>>, n |-> <<0, 1, 2, 3>>, s |-> <<FALSE, TRUE>>]
    [] name = "greedy-n01"     -> [t |-> <<0>>, n |-> <<0, 1>>, s |-> <<FALSE>>]
    [] name = "production-n03" -> [t |-> <<1>>, n |-> <<0, 3>>, s |-> <<FALSE, TRUE>>]

condition_matrix(repeats, name) ==
  LET p == Profile(name)
      ns == Len(p.n) * Len(p.s)
      per == Len(p.t) * ns
  IN [i \in 1..repeats * per |->
        LET k == (i - 1) % per
        IN [r |-> 1 + ((i - 1) \div per), t |-> p.t[1 + (k \div ns)],
            n |-> p.n[1 + ((k % ns) \div Len(p.s))], s |-> p.s[1 + (k % Len(p.s))]]]

\* The request of a condition: nothing tells one repeat from another, and only
\* a non-stream request may ask for the tokens.
build_payload(cell, slot) ==
  [t |-> cell.t, n |-> cell.n, stream |-> cell.s, slot |-> slot, logprobs |-> ~cell.s]

-----------------------------------------------------------------------------
(* Answers *)

parse_sse(blocks) ==
  [events |-> Picked(blocks, {i \in DOMAIN blocks : blocks[i].kind = "event"}),
   done |-> \E i \in DOMAIN blocks : blocks[i].kind = "done",
   errors |-> \E i \in DOMAIN blocks : blocks[i].kind = "junk"]

\* Deltas are concatenated; the last finish reason, usage and timings count.
reconstruct_sse(events) ==
  LET deltas   == Picked(events, {i \in DOMAIN events : events[i].text # NoValue})
      finishes == {i \in DOMAIN events : events[i].finish # "none"}
      usages   == {i \in DOMAIN events : events[i].usage}
      Of(field) == IF usages = {} THEN NoValue ELSE events[Max(usages)].totals[field]
  IN [message |-> [i \in DOMAIN deltas |-> deltas[i].text],
      finish |-> IF finishes = {} THEN "none" ELSE events[Max(finishes)].finish,
      finishes |-> Cardinality(finishes), trace |-> <<>>,
      cache_n |-> Of("cache_n"), cached |-> Of("cached"),
      completion |-> Of("completion"), draft_n |-> Of("draft_n")]

parse_nonstream(object) ==
  [message |-> object.message, finish |-> object.finish,
   finishes |-> IF object.finish = "none" THEN 0 ELSE 1, trace |-> object.trace,
   cache_n |-> object.totals.cache_n, cached |-> object.totals.cached,
   completion |-> object.totals.completion, draft_n |-> object.totals.draft_n]

\* The fixture allows the finish reasons stop and tool_calls, and wants content.
validate_response_contract(message, finish) ==
  (IF finish \in {"stop", "tool_calls"} THEN {} ELSE {"finish " \o finish}) \cup
  (IF finish = "stop" /\ message = <<>> THEN {"no content"} ELSE {})

token_identity_error(trace) == \E i \in DOMAIN trace : trace[i].id = NoValue
token_distribution_error(trace) == \E i \in DOMAIN trace : ~trace[i].top

-----------------------------------------------------------------------------
(* Comparing two traces; positions count from zero *)

Common(left, right) == 1..Min({Len(left), Len(right)})

first_token_divergence(left, right) ==
  LET differ == {i \in Common(left, right) : left[i].id # right[i].id}
  IN IF differ # {} THEN Min(differ) - 1
     ELSE IF Len(left) # Len(right) THEN Min({Len(left), Len(right)})
     ELSE NoValue

first_scored_distribution_divergence(left, right) ==
  LET drift == {i \in Common(left, right) :
                  /\ \A j \in 1..i : left[j].id = right[j].id
                  /\ left[i].top /\ right[i].top
                  /\ left[i].score # right[i].score}
  IN IF drift = {} THEN NoValue ELSE Min(drift) - 1

-----------------------------------------------------------------------------
(* The server's log *)

\* A file that cannot be looked at is marked at its beginning.
server_log_mark(lines, readable) == IF readable THEN Len(lines) ELSE 0

\* A log shorter than the mark was started over: all of it is read.  Of a file that
\* cannot be read the error is kept in the place of its lines.
CaptureFailed == <<[kind |-> "failed"]>>
server_log_since(lines, mark, readable) ==
  CASE mark = NoValue -> <<>>
    [] mark # NoValue /\ ~readable -> CaptureFailed
    [] mark # NoValue /\ readable ->
         SubSeq(lines, IF Len(lines) >= mark THEN mark + 1 ELSE 1, Len(lines))

parse_draft_acceptance_events(lines) ==
  LET drafts == Picked(lines, {i \in DOMAIN lines : lines[i].kind = "draft"})
  IN [i \in DOMAIN drafts |->
        [accepted |-> drafts[i].accepted, total |-> drafts[i].total,
         partial |-> drafts[i].accepted < drafts[i].total,
         valid |-> drafts[i].total > 0 /\ drafts[i].accepted <= drafts[i].total]]

\* The tokens of the first k steps, when step i emits counts[i] tokens of its draft
\* and one token more.
Outputs(counts, k) == Cardinality(UNION {{i} \X (0..counts[i]) : i \in 1..k})

\* A lower bound on the tokens that precede the first rejected draft: those of the
\* steps before it, whose drafts are accepted whole.
MutantOutputs(events) ==
  [minimum |-> Outputs([i \in DOMAIN events |-> events[i].accepted], Len(events)),
   rejected |-> \E i \in DOMAIN events : events[i].partial,
   all_full |-> events # <<>> /\ \A i \in DOMAIN events : ~events[i].partial]
outputs_before_first_rejection(events) ==
  LET stops == {i \in DOMAIN events : ~events[i].valid \/ events[i].partial}
      first == IF stops = {} THEN Len(events) + 1 ELSE Min(stops)
  IN [minimum |-> Outputs([i \in DOMAIN events |-> events[i].total], first - 1),
      rejected |-> stops # {} /\ events[first].valid,
      all_full |-> events # <<>> /\ stops = {}]

\* The rejection depths of a draft of three that the rows exercised.
n3_partial_acceptance_coverage(rows) ==
  {a \in {0, 1, 2} :
     \E row \in rows : /\ row.ok /\ row.cell.n = 3
                       /\ \E i \in DOMAIN row.events :
                            LET e == row.events[i]
                            IN e.valid /\ e.total = 3 /\ e.partial /\ e.accepted = a}
=============================================================================
