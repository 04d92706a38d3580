------------------------------ MODULE MtpDiag -------------------------------
(***************************************************************************)
(* qwen_mtp_diag.py: the run of the condition matrix against one server,   *)
(* the rows it appends, and the verdict it draws from them.  The server's  *)
(* true generations are kept beside the rows, so that a verdict can be     *)
(* compared with what it is a verdict about.                               *)
(***************************************************************************)
EXTENDS MtpEvidence

CONSTANTS
  DiagCases,     \* command lines [profile, repeats, require, ref, log, primes, prime_n, cap]
                 \* each with what the server does: [kind, at]; cap is the limit of tokens
                 \* the request states, or NoValue
  DiagFaults     \* bound: faulty requests of a run

ASSUME DiagAssumption ==
  /\ DiagFaults \in Nat
  /\ \A c \in DiagCases :
       /\ c[1].profile \in {"full", "greedy-n01", "production-n03"}
       /\ c[1].repeats \in Nat \ {0} /\ c[1].primes \in Nat /\ c[1].prime_n \in 0..3

VARIABLES
  job, server,
  mpc,       \* "start", "send", "receive", "classify", "exit", "reclassified"
  at,        \* the request in hand: 1, 2, ... of the matrix, 0 and below are primes
  rows,      \* results.jsonl
  prime,     \* priming.json
  log,       \* the server's log: its lines since the process started
  late,      \* lines the server's logger has not written yet
  mark,      \* where the log ended when the request was sent
  truth,     \* what was really generated for each row (history)
  sound_log, \* no line has reached the slice of another request (history)
  faults,    \* faulty requests still allowed
  report,    \* comparisons.json
  exit_code

mtp_vars == <<job, server, mpc, at, rows, prime, log, late, mark, truth, sound_log,
              faults, report, exit_code>>

Matrix == condition_matrix(job.repeats, job.profile)
Condition == IF at > 0 THEN Matrix[at]
             ELSE [r |-> 0, t |-> 0, n |-> job.prime_n, s |-> FALSE]
Repeats == 1..job.repeats

-----------------------------------------------------------------------------
(* The server: a generation is eight tokens; it differs from the reference *)
(* from a position on, or nowhere. *)

Tokens(from, score) ==
  [i \in 1..8 |-> [id |-> IF from # NoValue /\ i > from THEN 10 + i ELSE i,
                   top |-> TRUE, score |-> IF i = 1 THEN score ELSE 0]]

\* Accepted draft tokens, step by step, of the eight tokens.
Accepted(cell) ==
  CASE cell.n = 0 -> <<>>
    [] cell.n = 1 -> <<1, 0, 1, 1>>
    [] cell.n = 2 -> <<2, 1, 1>>
    [] cell.n = 3 -> IF cell.t = 0 THEN <<3, 2>> ELSE <<0, 1, 2>>

\* Some request has used MTP already.
MtpUsed == \E i \in DOMAIN truth : truth[i].cell.n > 0

Departs(cell) ==
  \/ server.kind = "draft1" /\ cell.n = 1 /\ cell.t = 0
  \/ server.kind = "draft23" /\ cell.n > 1
  \/ server.kind = "drift" /\ (cell.n > 0 \/ MtpUsed)
  \/ server.kind = "unseeded" /\ cell.t = 1 /\ cell.r = 2
  \/ server.kind = "bypass"

Generation(cell) ==
  Tokens(IF Departs(cell) THEN server.at ELSE NoValue,
         IF server.kind = "score" /\ cell.n > 0 THEN 1 ELSE 0)

Finish == IF server.kind = "capped" THEN "length" ELSE "stop"

DraftLines(cell) ==
  LET acc == Accepted(cell)
  IN [i \in DOMAIN acc |-> [kind |-> "draft", accepted |-> acc[i], total |-> cell.n]]

-----------------------------------------------------------------------------
(* One request *)

Faults == {"status", "junk", "cut", "warm", "cached", "notrace", "noid", "notop",
           "short", "nofinish", "nodraft", "glitch"}

\* What comes back for a generation, after the fault.
Recorded(tokens, f) ==
  CASE f = "notrace" -> <<>>
    [] f = "noid"    -> [tokens EXCEPT ![2].id = NoValue]
    [] f = "notop"   -> [i \in DOMAIN tokens |-> [tokens[i] EXCEPT !.top = FALSE]]
    [] f = "short"   -> SubSeq(tokens, 1, 7)
    [] OTHER         -> tokens

Totals(cell, tokens, f) ==
  [cache_n |-> IF f = "warm" THEN 5 ELSE 0, cached |-> IF f = "cached" THEN 5 ELSE 0,
   completion |-> Len(tokens), draft_n |-> IF f = "nodraft" THEN 0 ELSE cell.n * 3]

Event(text, finish, totals) ==
  [kind |-> "event", text |-> text, finish |-> finish, usage |-> finish # "none",
   totals |-> totals]

Stream(cell, tokens, f) ==
  LET totals == Totals(cell, tokens, f)
      deltas == [i \in DOMAIN tokens |-> Event(tokens[i].id, "none", totals)]
      sent   == IF server.kind = "stream" THEN SubSeq(deltas, 2, Len(deltas)) ELSE deltas
      final  == Event(NoValue, IF f = "nofinish" THEN "none" ELSE Finish, totals)
  IN sent \o (IF f = "junk" THEN <<[kind |-> "junk"]>> ELSE <<>>) \o <<final>>
          \o (IF f = "cut" THEN <<>> ELSE <<[kind |-> "done"]>>)

Object(cell, tokens, f) ==
  [message |-> [i \in DOMAIN tokens |-> tokens[i].id],
   finish |-> IF f = "nofinish" THEN "none" ELSE Finish,
   trace |-> Recorded(tokens, f), totals |-> Totals(cell, tokens, f)]

\* A reply that is not JSON, or the error status, leaves nothing to parse.
Unparsed(cell, f) ==
  \/ f = "status"
  \/ ~cell.s /\ f \in {"junk", "cut"}

Parsed(cell, tokens, f) ==
  IF Unparsed(cell, f) THEN reconstruct_sse(<<>>)
  ELSE IF cell.s THEN reconstruct_sse(parse_sse(Stream(cell, tokens, f)).events)
  ELSE parse_nonstream(Object(cell, tokens, f))

\* The answer is not an object, or the stream has junk in it or no end.
Broken(cell, tokens, f) ==
  \/ Unparsed(cell, f)
  \/ cell.s /\ LET sse == parse_sse(Stream(cell, tokens, f)) IN ~sse.done \/ sse.errors

MutantFresh(p) == p.cache_n = 0 /\ p.cached = NoValue
Fresh(p) == p.cache_n = 0 /\ p.cached \in {NoValue, 0}

\* The checks of run_case, any of which makes the row an error.
Rejected(cell, p) ==
  \/ ~Fresh(p)
  \/ ~cell.s /\ \/ p.trace = <<>> \/ token_identity_error(p.trace)
                \/ p.completion # NoValue /\ p.completion # Len(p.trace)
  \/ p.finishes # 1

\* The row of a request whose generation, fault and slice of the log are given.
Row(cell, tokens, f, slice) ==
  LET p == Parsed(cell, tokens, f)
  IN [cell |-> cell, ok |-> ~Broken(cell, tokens, f) /\ ~Rejected(cell, p), fresh |-> Fresh(p),
      request |-> build_payload(cell, 0), trace |-> p.trace, message |-> p.message,
      finish |-> p.finish, contract |-> validate_response_contract(p.message, p.finish),
      generated |-> IF p.trace # <<>> THEN Len(p.trace) ELSE p.completion,
      draft_n |-> p.draft_n, logged |-> slice # <<>>,
      events |-> parse_draft_acceptance_events(slice)]

-----------------------------------------------------------------------------
(* classify_run: comparisons are pairs of cells whose rows are ready *)

Cell(t, n, s, r) == [t |-> t, n |-> n, s |-> s, r |-> r]
Expected == {Matrix[i] : i \in DOMAIN Matrix}

ready(row) == row.ok /\ (row.cell.s \/ (row.trace # <<>> /\ ~token_identity_error(row.trace)))

\* row_map, of the rows that are ready.
Indexed(set) ==
  LET good == {i \in DOMAIN set : ready(set[i])}
  IN [c \in {set[i].cell : i \in good} |-> set[Max({i \in good : set[i].cell = c})]]

NmaxPairs(cells) ==
  {<<Cell(t, 0, FALSE, r), Cell(t, n, FALSE, r)>> : t \in {0, 1}, n \in 1..3, r \in Repeats}
    \cap (cells \X cells)
StreamPairs(cells) ==
  {<<Cell(t, n, FALSE, r), Cell(t, n, TRUE, r)>> : t \in {0, 1}, n \in 0..3, r \in Repeats}
    \cap (cells \X cells)
RepeatPairs(cells) ==
  {<<Cell(t, n, FALSE, 1), Cell(t, n, FALSE, r)>> : t \in {0, 1}, n \in 0..3, r \in Repeats \ {1}}
    \cap (cells \X cells)
Greedy(pairs) == {p \in pairs : p[1].t = 0}
Baseline(pairs) == {p \in pairs : p[1].t = 0 /\ p[1].n = 0}

Divergence(idx, pair) == first_token_divergence(idx[pair[1]].trace, idx[pair[2]].trace)
MutantDivergent(idx, pairs) == {p \in pairs : Divergence(idx, p) > 0}
Divergent(idx, pairs) == {p \in pairs : Divergence(idx, p) # NoValue}

\* pre_rejection_analysis: the divergence came before any draft was rejected.
BeforeRejection(idx, pair) ==
  LET pre == outputs_before_first_rejection(idx[pair[2]].events)
  IN /\ Divergence(idx, pair) < pre.minimum
     /\ pre.rejected \/ pre.all_full

\* The two renderings of one answer agree, deltas against the whole message.
SameMessage(idx, pair) ==
  /\ idx[pair[1]].message = idx[pair[2]].message
  /\ idx[pair[1]].finish = idx[pair[2]].finish

\* The reference run's row of an n=0 cell.
Reference(cell) ==
  [ok |-> job.ref # "error", request |-> build_payload(cell, IF job.ref = "body" THEN 1 ELSE 0),
   trace |-> CASE job.ref = "notrace" -> <<>>
               [] job.ref = "noid" -> Recorded(Tokens(NoValue, 0), "noid")
               [] OTHER -> Tokens(NoValue, 0)]

ReferenceCells == {c \in Expected : c.n = 0 /\ ~c.s}

\* A reference cell that cannot be compared.
ReferenceFailed(idx, cell) ==
  LET left == Reference(cell)
  IN \/ job.ref = "missing" \/ ~left.ok
     \/ cell \notin DOMAIN idx
     \/ left.request # idx[cell].request
     \/ left.trace = <<>> \/ token_identity_error(left.trace)

\* The archived prime is the first measured n=0 answer, token for token.
PrimeMatches(idx) ==
  LET first == Cell(0, 0, FALSE, 1)
  IN /\ prime # <<>> /\ job.prime_n = 0 /\ first \in DOMAIN idx
     /\ first_token_divergence(Last(prime).trace, idx[first].trace) = NoValue

\* All failures of the contract are the explicit token cap, which every answer reached.
DebugCap(set, idx) ==
  LET failing  == {row \in {idx[c] : c \in DOMAIN idx} : row.contract # {}}
      complete == {set[i] : i \in {j \in DOMAIN set : set[j].ok}}
  IN /\ failing # {}
     /\ \A row \in failing : row.contract = {"finish length"}
     /\ {row.cell : row \in failing} = {row.cell : row \in complete}
     /\ job.cap > 0 /\ \A row \in complete : row.generated = job.cap

Gate(pass) == IF pass THEN "pass" ELSE "fail"
When(condition, cause) == IF condition THEN {cause} ELSE {}

\* The gates of the report: pass, fail, or none where the matrix asks nothing.
Acceptance(set, idx, ref) ==
  LET cells    == DOMAIN idx
      greedy   == Greedy(NmaxPairs(cells))
      streams  == StreamPairs(cells)
      repeats  == RepeatPairs(cells)
      Asked(pairs, observed, good) ==
        IF pairs = {} THEN "none" ELSE Gate(observed = pairs /\ good)
      baseline == Asked(Baseline(RepeatPairs(Expected)), Baseline(repeats),
                        Divergent(idx, Baseline(repeats)) = {})
      reference == {c \in ReferenceCells : ~ReferenceFailed(idx, c)}
  IN [matrix_complete |->
        Gate(/\ Len(set) = Cardinality(Expected)
             /\ {set[i].cell : i \in DOMAIN set} = Expected
             /\ \A i \in DOMAIN set : ready(set[i])),
      fresh_slot |-> Gate(\A c \in cells : idx[c].fresh),
      mtp_exercised |-> Gate(\A c \in cells : c.n > 0 => idx[c].draft_n > 0),
      greedy |-> IF Greedy(NmaxPairs(Expected)) = {} \/ baseline = "fail" THEN "none"
                 ELSE Gate(greedy = Greedy(NmaxPairs(Expected)) /\ Divergent(idx, greedy) = {}),
      stream |-> Asked(StreamPairs(Expected), streams, \A p \in streams : SameMessage(idx, p)),
      repeat |-> Asked(RepeatPairs(Expected), repeats, Divergent(idx, repeats) = {}),
      baseline |-> baseline,
      contract |-> Gate(\A c \in cells : idx[c].contract = {}),
      log |-> Gate(set # <<>> /\ \A i \in DOMAIN set : set[i].logged),
      n3 |-> IF \E c \in Expected : c.n = 3
             THEN Gate(n3_partial_acceptance_coverage({set[i] : i \in DOMAIN set}) = {0, 1, 2})
             ELSE "none",
      reference |-> IF ~ref THEN "none"
                    ELSE Gate(/\ reference = ReferenceCells
                              /\ \A c \in reference :
                                   first_token_divergence(Reference(c).trace, idx[c].trace) = NoValue)]

\* What the divergences are put down to.
Suspects(idx) ==
  LET greedy == Divergent(idx, Greedy(NmaxPairs(DOMAIN idx)))
      early  == {p \in greedy : BeforeRejection(idx, p)}
      score  == {p \in Greedy(NmaxPairs(DOMAIN idx)) :
                   first_scored_distribution_divergence(idx[p[1]].trace, idx[p[2]].trace) = 0}
      shaky  == Divergent(idx, Baseline(RepeatPairs(DOMAIN idx))) # {}
      noisy  == Divergent(idx, NmaxPairs(DOMAIN idx) \ Greedy(NmaxPairs(DOMAIN idx)))
      broken == {p \in StreamPairs(DOMAIN idx) : ~SameMessage(idx, p)}
  IN When(shaky, IF PrimeMatches(idx) THEN "MTP changed n=0" ELSE "n=0 is not repeatable")
     \cup When(score # {} /\ ~shaky, "scores of token 0 drift")
     \cup When(early # {} /\ ~shaky, "before any rejection")
     \cup When(early = {} /\ ~shaky /\ \E p \in greedy : p[2].n = 1, "n=1 diverged")
     \cup When(early = {} /\ ~shaky /\ greedy # {} /\ \A p \in greedy : p[2].n > 1, "only n=2,3 diverged")
     \cup When(broken # {} /\ greedy = {}, "streams differ")
     \cup When(noisy # {} /\ greedy = {}, "only temperature 1 differs")

\* What is missing from the evidence.
Gaps(set, idx, ref) ==
  LET gates == Acceptance(set, idx, ref)
      cells == DOMAIN idx
  IN When(ref /\ \E c \in ReferenceCells : ReferenceFailed(idx, c), "reference incomplete")
     \cup When(ref /\ \E c \in ReferenceCells : /\ ~ReferenceFailed(idx, c)
                 /\ first_token_divergence(Reference(c).trace, idx[c].trace) # NoValue,
               "n=0 differs from the reference")
     \cup When(gates.mtp_exercised = "fail", "no draft tokens")
     \cup When(Greedy(NmaxPairs(cells)) # Greedy(NmaxPairs(Expected)), "greedy pairs missing")
     \cup When(StreamPairs(cells) # StreamPairs(Expected), "stream pairs missing")
     \cup When(RepeatPairs(cells) # RepeatPairs(Expected), "repeat pairs missing")
     \cup When(job.repeats < 2, "repeats not tested")
     \cup When(\E c \in cells : ~c.s /\ token_distribution_error(idx[c].trace), "scores missing")
     \cup When(gates.contract = "fail",
               IF DebugCap(set, idx) THEN "token cap" ELSE "contract violated")
     \cup When(gates.log = "fail", "no server log")
     \cup When(gates.log = "pass" /\ gates.n3 = "fail", "rollback not exercised")

classify_run(set, ref) ==
  LET idx    == Indexed(set)
      causes == Suspects(idx) \cup Gaps(set, idx, ref)
      failed == \E i \in DOMAIN set : ~set[i].ok
  IN [gates |-> Acceptance(set, idx, ref),
      claimed |-> {p \in Divergent(idx, NmaxPairs(DOMAIN idx)) : BeforeRejection(idx, p)},
      classification |-> IF causes = {} /\ ~failed THEN {"no external divergence"} ELSE causes]

NoReport == [gates |-> <<>>, claimed |-> {}, classification |-> {}]

\* The gates --require-pass asks for.
Passing(gates) ==
  /\ \A g \in {"matrix_complete", "fresh_slot", "mtp_exercised", "greedy", "contract", "log"} :
       gates[g] = "pass"
  /\ \A g \in {"stream", "repeat", "baseline", "n3"} : gates[g] # "fail"
  /\ job.ref # "none" => gates.reference = "pass"

-----------------------------------------------------------------------------
(* The run *)

MtpInit ==
  /\ \E c \in DiagCases : job = c[1] /\ server = c[2]
  /\ mpc = "start" /\ at = 1 - job.primes
  /\ rows = <<>> /\ prime = <<>> /\ truth = <<>>
  /\ log = <<[kind |-> "startup"]>> /\ late = <<>> /\ mark = NoValue
  /\ sound_log = TRUE /\ faults = DiagFaults
  /\ report = NoReport /\ exit_code = NoValue

Exit(code) == mpc' = "exit" /\ exit_code' = code

\* main and command_run refuse a command line they cannot qualify.
Refused ==
  \/ job.require /\ (job.ref = "none" \/ job.profile # "full" \/ job.repeats < 2)
  \/ job.ref = "manifest"

Start ==
  /\ mpc = "start"
  /\ IF Refused THEN Exit(1) ELSE mpc' = "send" /\ UNCHANGED exit_code
  /\ UNCHANGED <<job, server, at, rows, prime, log, late, mark, truth, sound_log, faults, report>>

\* The slot is erased, then the end of the log is marked, then the request is sent.
Send ==
  /\ mpc = "send" /\ at <= Len(Matrix)
  /\ mpc' = "receive"
  /\ mark' = IF job.log THEN server_log_mark(log, TRUE) ELSE NoValue
  /\ UNCHANGED <<job, server, at, rows, prime, log, late, truth, sound_log, faults, report, exit_code>>

\* The log cannot be looked at: it is gone and will be started over, or it is there
\* all the same and its old lines will be taken for the request's.
SendUnmarked ==
  /\ mpc = "send" /\ at <= Len(Matrix)
  /\ job.log /\ faults > 0
  /\ faults' = faults - 1
  /\ mpc' = "receive"
  /\ mark' = server_log_mark(log, FALSE)
  /\ \/ log' = <<>> /\ UNCHANGED sound_log
     \/ sound_log' = FALSE /\ UNCHANGED log
  /\ UNCHANGED <<job, server, at, rows, prime, late, truth, report, exit_code>>

\* The erasure fails and is not caught, or the operator interrupts.
Abort ==
  /\ mpc = "send" /\ at <= Len(Matrix) /\ faults > 0
  /\ faults' = faults - 1
  /\ \E code \in {1, 130} : Exit(code)
  /\ UNCHANGED <<job, server, at, rows, prime, log, late, mark, truth, sound_log, report>>

\* The answer arrives and its slice of the log is read 50 ms later: "late" lines
\* come after it, a "rotated" log was started over just before the request's, and
\* an "unread" one cannot be opened.
Receive(f) ==
  LET cell   == Condition
      tokens == IF f = "glitch" THEN Tokens(3, 0) ELSE Generation(cell)
      lines  == late \o <<[kind |-> "request"]>> \o DraftLines(cell)
      shown  == IF f = "late" THEN Front(lines) ELSE lines
      log2   == IF f = "rotated" THEN lines ELSE log \o shown
      row    == Row(cell, tokens, f, server_log_since(log2, mark, f # "unread"))
  IN /\ mpc = "receive"
     /\ f # "none" => faults > 0
     /\ faults' = IF f = "none" THEN faults ELSE faults - 1
     /\ f = "late" => DraftLines(cell) # <<>>
     /\ log' = log2
     /\ late' = IF f = "late" THEN <<Last(lines)>> ELSE <<>>
     /\ sound_log' = (sound_log /\ late = <<>> /\ (f = "rotated" => Len(lines) < mark))
     /\ truth' = Append(truth, [cell |-> cell, tokens |-> tokens])
     /\ IF at > 0 THEN rows' = Append(rows, row) /\ UNCHANGED prime
                  ELSE prime' = Append(prime, row) /\ UNCHANGED rows
     /\ at' = at + 1
     /\ IF at <= 0 /\ ~row.ok THEN Exit(1)
        ELSE /\ mpc' = IF at = Len(Matrix) THEN "classify" ELSE "send"
             /\ UNCHANGED exit_code
     /\ UNCHANGED <<job, server, mark, report>>

\* The logger catches up between two requests.
Flush ==
  /\ late # <<>> /\ mpc = "send"
  /\ log' = log \o late /\ late' = <<>>
  /\ UNCHANGED <<job, server, mpc, at, rows, prime, mark, truth, sound_log, faults, report, exit_code>>

Classify ==
  /\ mpc = "classify"
  /\ report' = classify_run(rows, job.ref # "none")
  /\ Exit(IF Passing(report'.gates) \/ ~job.require THEN 0 ELSE 1)
  /\ UNCHANGED <<job, server, at, rows, prime, log, late, mark, truth, sound_log, faults>>

\* The archive is classified once more, with its reference run or without one.
command_reclassify ==
  /\ mpc = "exit" /\ rows # <<>>
  /\ mpc' = "reclassified"
  /\ \E ref \in BOOLEAN :
       (ref => job.ref # "none") /\ report' = classify_run(rows, ref)
  /\ exit_code' = 0
  /\ UNCHANGED <<job, server, at, rows, prime, log, late, mark, truth, sound_log, faults>>

\* A server that is itself at fault is only met with a log that misbehaves.
MtpNext ==
  \/ Start \/ Send \/ SendUnmarked \/ Abort \/ Flush \/ Classify \/ command_reclassify
  \/ \E f \in {"none", "late", "rotated", "unread"} : Receive(f)
  \/ \E f \in Faults : server.kind = "sound" /\ Receive(f)
MtpSpec == MtpInit /\ [][MtpNext]_mtp_vars

-----------------------------------------------------------------------------
(* Properties *)

True(cell) == truth[Max({i \in DOMAIN truth : truth[i].cell = cell})].tokens

\* A report that passes every gate is about a whole matrix in which no draft
\* depth, rendering or repeat changed a token, and, if a reference was given,
\* n=0 is what it was there: no gate passes because it had nothing to compare.
PassIsTrue ==
  (report # NoReport /\ Passing(report.gates)) =>
    /\ \A c \in Expected : \E i \in DOMAIN truth : truth[i].cell = c
    /\ \A p \in Greedy(NmaxPairs(Expected)) \cup RepeatPairs(Expected) :
         first_token_divergence(True(p[1]), True(p[2])) = NoValue
    /\ \A i, j \in DOMAIN rows : <<rows[i].cell, rows[j].cell>> \in StreamPairs(Expected)
         => rows[i].message = rows[j].message
    /\ job.ref # "none" =>
         \A c \in ReferenceCells : first_token_divergence(True(c), Tokens(NoValue, 0)) = NoValue

\* The step of speculation that emitted a token, counted from zero at the
\* token of the prompt.
StepOf(cell, position) ==
  LET acc == Accepted(cell)
      covering == {k \in 0..Len(acc) : position < 1 + Outputs(acc, k)}
  IN IF covering = {} THEN Len(acc) + 1 ELSE Min(covering)

\* A divergence the report puts before the first rejected draft did come before
\* it, provided each slice of the log holds its own request's lines only.
ClaimIsTrue ==
  sound_log =>
    \A p \in report.claimed :
      LET acc  == Accepted(p[2])
          step == StepOf(p[2], first_token_divergence(True(p[1]), True(p[2])))
      IN \A k \in 1..Min({step, Len(acc)}) : acc[k] = p[2].n

\* A sound server whose answers all arrive is never failed.
SoundPasses ==
  (mpc = "exit" /\ server.kind = "sound" /\ faults = DiagFaults /\ ~Refused /\ job.log
    /\ job.require /\ job.ref = "same") => exit_code = 0

\* "no external divergence was detected in this matrix" is said of a matrix
\* without a divergence.
NothingFound ==
  report.classification = {"no external divergence"} =>
    \A g \in {"greedy", "stream", "repeat", "baseline", "reference"} :
      report.gates[g] # "fail"
=============================================================================
