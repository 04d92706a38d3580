--------------------------- MODULE MtpDiagProofs ---------------------------
(***************************************************************************)
(* For every command line, server and number of faulty requests: what a    *)
(* report of qwen_mtp_diag.py says is true of what the server generated.   *)
(*                                                                         *)
(* A pass: an answer may come without its tokens, or with some of them.    *)
(* MtpInv says that run_case lets no such row be ready, so that the index  *)
(* of a whole matrix has of each condition the tokens of its last          *)
(* generation; the gates are then read one by one.                         *)
(*                                                                         *)
(* A claim that a divergence came before the first rejected draft:         *)
(* ClaimInv says where the run is in the matrix, which meets no condition  *)
(* twice, and that the events of a row are the first steps of its own      *)
(* request; the steps before the first rejection then emitted the token.   *)
(*                                                                         *)
(* No false alarm: SoundInv says what every row is when nothing has gone   *)
(* wrong; each gate then finds its pairs and none of them diverges.        *)
(***************************************************************************)
EXTENDS MtpDiag, MtpEvidenceProofs

\* Eight tokens, each with its id.
Generated(tokens) ==
  Listed(tokens) /\ Len(tokens) = 8 /\ \A i \in 1..8 : "id" \in DOMAIN tokens[i]

\* A row without an error has the ids of the tokens that were generated.
RowIsOf(row, entry) ==
  /\ row.cell = entry.cell
  /\ row.ok /\ ~row.cell.s => SameIds(row.trace, entry.tokens)

\* The primes come first, then a generation for every row.
RowsAreTrue ==
  /\ Listed(rows) /\ Listed(prime) /\ Listed(truth)
  /\ at \in Int
  /\ at <= 0 => rows = <<>>
  /\ Len(truth) = Len(prime) + Len(rows)
  /\ \A i \in 1..Len(rows) : RowIsOf(rows[i], truth[Len(prime) + i])
  /\ \A i \in 1..Len(truth) : Generated(truth[i].tokens)

MtpInv ==
  /\ RowsAreTrue
  /\ mpc \notin {"exit", "reclassified"} => report = NoReport
  /\ PassIsTrue

-----------------------------------------------------------------------------
(* A passing report *)

\* Appending to a list.
LEMMA ListedAppend ==
  ASSUME NEW s, Listed(s), NEW e
  PROVE  /\ Listed(Append(s, e)) /\ Len(Append(s, e)) = Len(s) + 1
         /\ Append(s, e)[Len(s) + 1] = e
         /\ \A i \in 1..Len(s) : Append(s, e)[i] = s[i]
<1> DEFINE S == {s[i] : i \in 1..Len(s)} \cup {e}
<1>1. s \in Seq(S)
  <2>1. s = [i \in 1..Len(s) |-> s[i]] /\ Len(s) \in Nat BY DEF Listed
  <2>2. \A i \in 1..Len(s) : s[i] \in S OBVIOUS
  <2> HIDE DEF S
  <2>3. [i \in 1..Len(s) |-> s[i]] \in Seq(S) BY <2>1, <2>2, IsASeq
  <2> QED BY <2>1, <2>3
<1> HIDE DEF S
<1>2. e \in S BY DEF S
<1>3. /\ Append(s, e) \in Seq(S) /\ Len(Append(s, e)) = Len(s) + 1
      /\ Append(s, e)[Len(s) + 1] = e
      /\ \A i \in 1..Len(s) : Append(s, e)[i] = s[i]
  BY <1>1, <1>2, AppendProperties
<1>4. Listed(Append(s, e))
  <2>1. Append(s, e) \in [1..Len(Append(s, e)) -> S] BY <1>3, LenProperties
  <2>2. Len(Append(s, e)) \in Nat BY <1>3, LenProperties
  <2> QED BY <2>1, <2>2 DEF Listed
<1> QED BY <1>3, <1>4

\* A generation is eight tokens, whose ids are those of the reference or not.
LEMMA EightTokens ==
  ASSUME NEW from, NEW score
  PROVE  Generated(Tokens(from, score))
<1> DEFINE token(i) == [id |-> IF from # NoValue /\ i > from THEN 10 + i ELSE i,
                        top |-> TRUE, score |-> IF i = 1 THEN score ELSE 0]
           T == {token(i) : i \in 1..8}
<1>1. Tokens(from, score) = [i \in 1..8 |-> token(i)] BY DEF Tokens
<1>2. \A i \in 1..8 : token(i) \in T /\ "id" \in DOMAIN token(i) OBVIOUS
<1> HIDE DEF token, T
<1>3. [i \in 1..8 |-> token(i)] \in Seq(T) BY <1>2, IsASeq
<1>4. Len(Tokens(from, score)) = 8 BY <1>1, <1>3, LenProperties
<1>5. Tokens(from, score) = [i \in 1..8 |-> Tokens(from, score)[i]] BY <1>1
<1>6. \A i \in 1..8 : "id" \in DOMAIN Tokens(from, score)[i] BY <1>1, <1>2
<1> QED BY <1>4, <1>5, <1>6 DEF Listed, Generated

\* What run_case reads of an answer that is no stream and not broken.
LEMMA ParsedObject ==
  ASSUME NEW cell, ~cell.s, NEW tokens, NEW f, ~Broken(cell, tokens, f)
  PROVE  /\ Parsed(cell, tokens, f).trace = Recorded(tokens, f)
         /\ Parsed(cell, tokens, f).completion = Len(tokens)
<1> DEFINE o == Object(cell, tokens, f)
<1>1. ~Unparsed(cell, f) BY DEF Broken
<1>2. Parsed(cell, tokens, f) = parse_nonstream(o) BY <1>1 DEF Parsed
<1>3. o.trace = Recorded(tokens, f) /\ o.totals = Totals(cell, tokens, f) BY DEF Object
<1>4. Totals(cell, tokens, f).completion = Len(tokens) BY DEF Totals
<1> HIDE DEF o
<1>5. parse_nonstream(o).trace = o.trace /\ parse_nonstream(o).completion = o.totals.completion
  BY DEF parse_nonstream
<1> QED BY <1>2, <1>3, <1>4, <1>5

\* A recording that misses no token and no id is of the tokens that were generated.
LEMMA RecordedIds ==
  ASSUME NEW tokens, Generated(tokens), NEW f,
         Recorded(tokens, f) # <<>>, ~token_identity_error(Recorded(tokens, f)),
         Len(Recorded(tokens, f)) = Len(tokens)
  PROVE  SameIds(Recorded(tokens, f), tokens)
<1> DEFINE t == Recorded(tokens, f)
<1>0. Listed(tokens) /\ Len(tokens) = 8 /\ DOMAIN tokens = 1..8 BY ListedDomain DEF Generated
<1>1. CASE f = "notrace"
  <2>1. t = <<>> BY <1>1 DEF Recorded
  <2> QED BY <2>1
<1>2. CASE f = "noid"
  <2>1. t = [tokens EXCEPT ![2].id = NoValue] BY <1>2 DEF Recorded
  <2>2. 2 \in DOMAIN t /\ t[2].id = NoValue
    <3>1. DOMAIN t = 1..8 BY <1>0, <2>1
    <3>2. t[2] = [tokens[2] EXCEPT !.id = NoValue] BY <1>0, <2>1
    <3>3. "id" \in DOMAIN tokens[2] BY DEF Generated
    <3> QED BY <3>1, <3>2, <3>3
  <2> QED BY <2>2 DEF token_identity_error
<1>3. CASE f = "notop"
  <2>1. t = [i \in DOMAIN tokens |-> [tokens[i] EXCEPT !.top = FALSE]] BY <1>3 DEF Recorded
  <2>2. \A i \in 1..8 : t[i].id = tokens[i].id BY <1>0, <2>1
  <2>3. Len(t) = 8
    <3> DEFINE S == {t[i] : i \in 1..8}
    <3>1. t = [i \in 1..8 |-> t[i]] BY <1>0, <2>1
    <3>2. \A i \in 1..8 : t[i] \in S OBVIOUS
    <3> HIDE DEF S, t
    <3>3. [i \in 1..8 |-> t[i]] \in Seq(S) BY <3>2, IsASeq
    <3>4. Len([i \in 1..8 |-> t[i]]) = 8 BY <3>3, LenProperties
    <3> QED BY <3>1, <3>4
  <2> QED BY <1>0, <2>2, <2>3 DEF SameIds
<1>4. CASE f = "short"
  <2>1. t = SubSeq(tokens, 1, 7) BY <1>4 DEF Recorded
  <2>2. Len(SubSeq(tokens, 1, 7)) = 7
    <3> DEFINE S == {tokens[i] : i \in 1..8}
    <3>1. tokens = [i \in 1..8 |-> tokens[i]] BY <1>0 DEF Listed
    <3>2. \A i \in 1..8 : tokens[i] \in S OBVIOUS
    <3> HIDE DEF S
    <3>3. [i \in 1..8 |-> tokens[i]] \in Seq(S) BY <3>2, IsASeq
    <3>4. tokens \in Seq(S) BY <3>1, <3>3
    <3> QED BY <3>4, SubSeqProperties
  <2> QED BY <1>0, <2>1, <2>2
<1>5. CASE f \notin {"notrace", "noid", "notop", "short"}
  <2>1. t = tokens BY <1>5 DEF Recorded
  <2> QED BY <1>0, <2>1 DEF SameIds
<1> QED BY <1>1, <1>2, <1>3, <1>4, <1>5

\* A row that run_case does not reject, of a request that asked for the tokens, has
\* the ids of all tokens that were generated, whatever went wrong with the request.
LEMMA RowHonest ==
  ASSUME NEW cell, NEW tokens, Generated(tokens), NEW f, NEW slice
  PROVE  RowIsOf(Row(cell, tokens, f, slice), [cell |-> cell, tokens |-> tokens])
<1> DEFINE p == Parsed(cell, tokens, f)
           row == Row(cell, tokens, f, slice)
           ok == ~Broken(cell, tokens, f) /\ ~Rejected(cell, p)
<1>1. row.cell = cell /\ row.ok = ok /\ row.trace = p.trace BY DEF Row
<1> HIDE DEF row
<1>2. ASSUME ok, ~cell.s PROVE SameIds(p.trace, tokens)
  <2>1. /\ p.trace # <<>> /\ ~token_identity_error(p.trace)
        /\ p.completion # NoValue => p.completion = Len(p.trace)
    BY <1>2 DEF Rejected
  <2>2. p.trace = Recorded(tokens, f) /\ p.completion = Len(tokens) /\ Len(tokens) = 8
    BY <1>2, ParsedObject DEF Generated
  <2> HIDE DEF p
  <2>3. Len(p.trace) = Len(tokens) BY <2>1, <2>2 DEF NoValue
  <2> QED BY <2>1, <2>2, <2>3, RecordedIds
<1> HIDE DEF p
<1>3. row.ok => ok BY <1>1
<1> HIDE DEF ok
<1>4. row.ok /\ ~row.cell.s => SameIds(row.trace, tokens) BY <1>1, <1>2, <1>3
<1> QED BY <1>1, <1>4 DEF RowIsOf, row

-----------------------------------------------------------------------------
\* What the gates say, read off the report.
LEMMA GatesSay ==
  ASSUME NEW set, NEW idx, NEW ref \in BOOLEAN, Passing(Acceptance(set, idx, ref))
  PROVE  /\ Len(set) = Cardinality(Expected)
         /\ {set[i].cell : i \in DOMAIN set} = Expected
         /\ \A i \in DOMAIN set : ready(set[i])
         /\ Divergent(idx, Greedy(NmaxPairs(DOMAIN idx))) = {}
         /\ RepeatPairs(Expected) # {} => Divergent(idx, RepeatPairs(DOMAIN idx)) = {}
         /\ StreamPairs(Expected) # {} => \A p \in StreamPairs(DOMAIN idx) : SameMessage(idx, p)
         /\ job.ref # "none" =>
              \A c \in ReferenceCells :
                /\ ~ReferenceFailed(idx, c)
                /\ first_token_divergence(Reference(c).trace, idx[c].trace) = NoValue
<1> DEFINE gates    == Acceptance(set, idx, ref)
           cells    == DOMAIN idx
           greedy   == Greedy(NmaxPairs(cells))
           streams  == StreamPairs(cells)
           repeats  == RepeatPairs(cells)
           Asked(pairs, observed, good) ==
             IF pairs = {} THEN "none" ELSE Gate(observed = pairs /\ good)
           baseline == Asked(Baseline(RepeatPairs(Expected)), Baseline(repeats),
                             Divergent(idx, Baseline(repeats)) = {})
           reference == {c \in ReferenceCells : ~ReferenceFailed(idx, c)}
           same == \A c \in reference :
                     first_token_divergence(Reference(c).trace, idx[c].trace) = NoValue
           whole == /\ Len(set) = Cardinality(Expected)
                    /\ {set[i].cell : i \in DOMAIN set} = Expected
                    /\ \A i \in DOMAIN set : ready(set[i])
<1>1. /\ gates.matrix_complete = Gate(whole)
      /\ gates.greedy = IF Greedy(NmaxPairs(Expected)) = {} \/ baseline = "fail" THEN "none"
                        ELSE Gate(greedy = Greedy(NmaxPairs(Expected)) /\ Divergent(idx, greedy) = {})
      /\ gates.stream = Asked(StreamPairs(Expected), streams, \A p \in streams : SameMessage(idx, p))
      /\ gates.repeat = Asked(RepeatPairs(Expected), repeats, Divergent(idx, repeats) = {})
      /\ gates.reference = IF ~ref THEN "none" ELSE Gate(reference = ReferenceCells /\ same)
  BY DEF Acceptance
<1> HIDE DEF gates
<1>2. /\ gates.matrix_complete = "pass" /\ gates.greedy = "pass"
      /\ gates.stream # "fail" /\ gates.repeat # "fail"
      /\ job.ref # "none" => gates.reference = "pass"
  BY DEF Passing, gates
<1> HIDE DEF baseline, whole, same, reference, greedy, streams, repeats
<1>3. whole
  <2>1. Gate(whole) = "pass" BY <1>1, <1>2
  <2> QED BY <2>1 DEF Gate
<1>4. Divergent(idx, greedy) = {}
  <2>1. Gate(greedy = Greedy(NmaxPairs(Expected)) /\ Divergent(idx, greedy) = {}) = "pass"
    BY <1>1, <1>2
  <2> QED BY <2>1 DEF Gate
<1>5. RepeatPairs(Expected) # {} => Divergent(idx, repeats) = {}
  BY <1>1, <1>2 DEF Gate
<1>6. StreamPairs(Expected) # {} => \A p \in streams : SameMessage(idx, p)
  <2> DEFINE good == \A p \in streams : SameMessage(idx, p)
  <2> HIDE DEF good
  <2>1. StreamPairs(Expected) # {} => gates.stream = Gate(streams = StreamPairs(Expected) /\ good)
    BY <1>1 DEF good
  <2>2. StreamPairs(Expected) # {} => good BY <1>2, <2>1 DEF Gate
  <2> QED BY <2>2 DEF good
<1>7. job.ref # "none" => reference = ReferenceCells /\ same
  <2> SUFFICES ASSUME job.ref # "none" PROVE reference = ReferenceCells /\ same OBVIOUS
  <2>1. Gate(reference = ReferenceCells /\ same) = "pass" BY <1>1, <1>2
  <2> QED BY <2>1 DEF Gate
<1>8. ASSUME job.ref # "none", NEW c \in ReferenceCells
      PROVE  /\ ~ReferenceFailed(idx, c)
             /\ first_token_divergence(Reference(c).trace, idx[c].trace) = NoValue
  <2>1. c \in reference /\ same BY <1>7, <1>8
  <2> QED BY <2>1 DEF reference, same
<1> QED BY <1>3, <1>4, <1>5, <1>6, <1>8 DEF whole, greedy, repeats, streams

\* Every condition has a row, each row is ready.
Whole ==
  /\ {rows[i].cell : i \in DOMAIN rows} = Expected
  /\ \A i \in DOMAIN rows : ready(rows[i])

\* In a whole matrix the index holds the last row of a condition, and that is the
\* row of its last generation.
LEMMA IndexedWhole ==
  ASSUME RowsAreTrue, Whole
  PROVE  /\ DOMAIN Indexed(rows) = Expected
         /\ \A c \in Expected : \E m \in 1..Len(rows) :
              /\ rows[m].cell = c /\ Indexed(rows)[c] = rows[m]
              /\ True(c) = truth[Len(prime) + m].tokens
<1> DEFINE good == {i \in DOMAIN rows : ready(rows[i])}
           Of(c) == {i \in good : rows[i].cell = c}
           Made(c) == {i \in DOMAIN truth : truth[i].cell = c}
           cells == {rows[i].cell : i \in good}
           k == Len(prime)
           n == Len(rows)
<1>1. DOMAIN rows = 1..n /\ DOMAIN truth = 1..(k + n) /\ n \in Nat /\ k \in Nat
  <2>1. Listed(rows) /\ Listed(prime) /\ Listed(truth) /\ Len(truth) = k + n BY DEF RowsAreTrue
  <2> QED BY <2>1, ListedDomain DEF Listed
<1>2. good = 1..n BY <1>1 DEF Whole
<1>3. Indexed(rows) = [c \in cells |-> rows[Max(Of(c))]] BY DEF Indexed
<1>4. cells = Expected BY <1>1, <1>2 DEF Whole
<1>5. ASSUME NEW c \in Expected
      PROVE  \E m \in 1..n : /\ rows[m].cell = c /\ Indexed(rows)[c] = rows[m]
                             /\ True(c) = truth[k + m].tokens
  <2>1. Of(c) \in SUBSET (1..n) /\ Of(c) # {} BY <1>2, <1>4
  <2>2. PICK m \in Of(c) : Max(Of(c)) = m /\ \A y \in Of(c) : m >= y
    <3> HIDE DEF Of, n
    <3> QED BY <1>1, <2>1, MaxIn
  <2>3. m \in 1..n /\ rows[m].cell = c BY <1>2
  <2>4. \A i \in 1..n : truth[k + i].cell = rows[i].cell BY DEF RowsAreTrue, RowIsOf
  <2>5. k + m \in Made(c) BY <1>1, <2>3, <2>4
  <2>6. \A y \in Made(c) : k + m >= y
    <3> SUFFICES ASSUME NEW y \in Made(c), y > k + m PROVE FALSE BY <1>1, <2>3
    <3>1. y \in 1..(k + n) /\ truth[y].cell = c BY <1>1
    <3>2. y - k \in 1..n /\ k + (y - k) = y BY <1>1, <2>3, <3>1
    <3>3. rows[y - k].cell = c BY <2>4, <3>1, <3>2
    <3>4. y - k \in Of(c) BY <1>2, <3>2, <3>3
    <3> QED BY <1>1, <2>2, <2>3, <3>1, <3>4
  <2>7. Made(c) \in SUBSET Nat BY <1>1
  <2> HIDE DEF Made
  <2>8. Max(Made(c)) = k + m BY <2>5, <2>6, <2>7, MaxIs
  <2>9. True(c) = truth[k + m].tokens BY <2>8 DEF True, Made
  <2> QED BY <1>3, <1>4, <2>2, <2>3, <2>9
<1> QED BY <1>3, <1>4, <1>5

\* There the index has of each condition without a stream the tokens of its last
\* generation.
LEMMA IndexIsTrue ==
  ASSUME RowsAreTrue, Whole, NEW c \in Expected, ~c.s
  PROVE  SameIds(Indexed(rows)[c].trace, True(c)) /\ Len(True(c)) = 8
<1>1. PICK m \in 1..Len(rows) : /\ rows[m].cell = c /\ Indexed(rows)[c] = rows[m]
                                /\ True(c) = truth[Len(prime) + m].tokens
  BY IndexedWhole
<1>2. RowIsOf(rows[m], truth[Len(prime) + m]) /\ Len(rows) \in Nat /\ Len(prime) \in Nat
      /\ Len(truth) = Len(prime) + Len(rows)
  BY DEF RowsAreTrue, Listed
<1>3. Generated(truth[Len(prime) + m].tokens) BY <1>2 DEF RowsAreTrue
<1>4. ready(rows[m])
  <2>1. m \in DOMAIN rows BY ListedDomain DEF RowsAreTrue
  <2> QED BY <2>1 DEF Whole
<1>5. rows[m].ok BY <1>4 DEF ready
<1> QED BY <1>1, <1>2, <1>3, <1>5 DEF RowIsOf, Generated

\* The two conditions of a pair that is compared by its tokens.
LEMMA PairsAreTraces ==
  ASSUME NEW p \in NmaxPairs(Expected) \cup RepeatPairs(Expected)
  PROVE  p[1] \in Expected /\ p[2] \in Expected /\ ~p[1].s /\ ~p[2].s
<1>1. \A t, n, r : ~Cell(t, n, FALSE, r).s BY DEF Cell
<1> DEFINE deep(t, n, r) == <<Cell(t, 0, FALSE, r), Cell(t, n, FALSE, r)>>
           again(t, n, r) == <<Cell(t, n, FALSE, 1), Cell(t, n, FALSE, r)>>
<1>2. CASE p \in NmaxPairs(Expected)
  <2>1. p \in Expected \X Expected BY <1>2 DEF NmaxPairs
  <2> DEFINE deeps == {deep(t, n, r) : t \in {0, 1}, n \in 1..3, r \in Repeats}
  <2>0. NmaxPairs(Expected) = deeps \cap (Expected \X Expected) BY DEF NmaxPairs
  <2> HIDE DEF deeps
  <2>2. p \in deeps BY <1>2, <2>0
  <2> USE DEF deeps
  <2> HIDE DEF deep
  <2>3. PICK t \in {0, 1}, n \in 1..3, r \in Repeats : p = deep(t, n, r) BY <2>2
  <2>4. p[1] = Cell(t, 0, FALSE, r) /\ p[2] = Cell(t, n, FALSE, r) BY <2>3 DEF deep
  <2> QED BY <1>1, <2>1, <2>4
<1>3. CASE p \in RepeatPairs(Expected)
  <2>1. p \in Expected \X Expected BY <1>3 DEF RepeatPairs
  <2> DEFINE agains == {again(t, n, r) : t \in {0, 1}, n \in 0..3, r \in Repeats \ {1}}
  <2>0. RepeatPairs(Expected) = agains \cap (Expected \X Expected) BY DEF RepeatPairs
  <2> HIDE DEF agains
  <2>2. p \in agains BY <1>3, <2>0
  <2> USE DEF agains
  <2> HIDE DEF again
  <2>3. PICK t \in {0, 1}, n \in 0..3, r \in Repeats \ {1} : p = again(t, n, r) BY <2>2
  <2>4. p[1] = Cell(t, n, FALSE, 1) /\ p[2] = Cell(t, n, FALSE, r) BY <2>3 DEF again
  <2> QED BY <1>1, <2>1, <2>4
<1> QED BY <1>2, <1>3

\* A pair whose recorded traces do not diverge is one of equal generations.
LEMMA PairIsTrue ==
  ASSUME RowsAreTrue, Whole, NEW p \in NmaxPairs(Expected) \cup RepeatPairs(Expected),
         Divergence(Indexed(rows), p) = NoValue
  PROVE  first_token_divergence(True(p[1]), True(p[2])) = NoValue
<1> DEFINE left == Indexed(rows)[p[1]].trace
           right == Indexed(rows)[p[2]].trace
<1>1. SameIds(left, True(p[1])) /\ Len(True(p[1])) = 8 BY PairsAreTraces, IndexIsTrue
<1>2. SameIds(right, True(p[2])) /\ Len(True(p[2])) = 8 BY PairsAreTraces, IndexIsTrue
<1>3. first_token_divergence(left, right) = NoValue BY DEF Divergence
<1> HIDE DEF left, right
<1>4. Len(left) = 8 /\ Len(right) = 8 BY <1>1, <1>2 DEF SameIds
<1>5. SameIds(left, right) BY <1>3, <1>4, NoDivergence
<1>6. SameIds(True(p[1]), True(p[2])) BY <1>1, <1>2, <1>4, <1>5 DEF SameIds
<1> QED BY <1>1, <1>6, SameNoDivergence

-----------------------------------------------------------------------------
\* A matrix with as many rows as conditions has one row of each.
LEMMA OneRowEach ==
  ASSUME RowsAreTrue, Whole, Len(rows) = Cardinality(Expected),
         NEW i \in 1..Len(rows), NEW j \in 1..Len(rows), rows[i].cell = rows[j].cell
  PROVE  i = j
<1> DEFINE n == Len(rows)
           f == [k \in 1..n |-> rows[k].cell]
<1>1. n \in Nat /\ DOMAIN rows = 1..n
  <2>1. Listed(rows) BY DEF RowsAreTrue
  <2> QED BY <2>1, ListedDomain DEF Listed
<1>2. IsFiniteSet(1..n) /\ Cardinality(1..n) = n BY <1>1, FS_Interval
<1>3. f \in Surjection(1..n, Expected)
  <2>1. {rows[k].cell : k \in 1..n} = Expected BY <1>1 DEF Whole
  <2>2. f \in [1..n -> Expected] BY <2>1
  <2>3. \A c \in Expected : \E k \in 1..n : f[k] = c BY <2>1
  <2> QED BY <2>2, <2>3 DEF Surjection
<1>4. f \in Injection(1..n, Expected) BY <1>2, <1>3, FS_SurjSameCardinalityImpliesInj
<1>5. f[i] = f[j] OBVIOUS
<1> HIDE DEF f
<1> QED BY <1>4, <1>5 DEF Injection, IsInjective

\* A reference cell that was compared is one whose trace is whole.
LEMMA ReferenceTrace ==
  ASSUME NEW idx, NEW c, ~ReferenceFailed(idx, c)
  PROVE  Reference(c).trace = Tokens(NoValue, 0)
<1> DEFINE trace == CASE job.ref = "notrace" -> <<>>
                      [] job.ref = "noid" -> Recorded(Tokens(NoValue, 0), "noid")
                      [] OTHER -> Tokens(NoValue, 0)
<1>1. Reference(c).trace = trace BY DEF Reference
<1>2. trace # <<>> /\ ~token_identity_error(trace) BY <1>1 DEF ReferenceFailed
<1>3. job.ref # "notrace" BY <1>2
<1>4. job.ref # "noid"
  <2> SUFFICES ASSUME job.ref = "noid" PROVE FALSE OBVIOUS
  <2> DEFINE t == Tokens(NoValue, 0)
  <2>1. trace = [t EXCEPT ![2].id = NoValue]
    <3>1. trace = Recorded(t, "noid") OBVIOUS
    <3> QED BY <3>1 DEF Recorded
  <2>2. Generated(t) BY EightTokens
  <2> HIDE DEF t, trace
  <2>3. DOMAIN t = 1..8 BY <2>2, ListedDomain DEF Generated
  <2>4. DOMAIN trace = 1..8 /\ trace[2] = [t[2] EXCEPT !.id = NoValue] BY <2>1, <2>3
  <2>5. "id" \in DOMAIN t[2] BY <2>2 DEF Generated
  <2>6. 2 \in DOMAIN trace /\ trace[2].id = NoValue BY <2>4, <2>5
  <2> QED BY <1>2, <2>6 DEF token_identity_error
<1> QED BY <1>1, <1>3, <1>4

\* What a passing report says of the generations and the messages.
LEMMA PassFollows ==
  ASSUME RowsAreTrue, NEW ref \in BOOLEAN, Passing(Acceptance(rows, Indexed(rows), ref))
  PROVE  /\ \A c \in Expected : \E i \in DOMAIN truth : truth[i].cell = c
         /\ \A p \in Greedy(NmaxPairs(Expected)) \cup RepeatPairs(Expected) :
              first_token_divergence(True(p[1]), True(p[2])) = NoValue
         /\ \A i, j \in DOMAIN rows : <<rows[i].cell, rows[j].cell>> \in StreamPairs(Expected)
              => rows[i].message = rows[j].message
         /\ job.ref # "none" =>
              \A c \in ReferenceCells :
                first_token_divergence(True(c), Tokens(NoValue, 0)) = NoValue
<1> DEFINE idx == Indexed(rows)
<1> HIDE DEF idx
<1>1. /\ Len(rows) = Cardinality(Expected) /\ Whole
      /\ Divergent(idx, Greedy(NmaxPairs(DOMAIN idx))) = {}
      /\ RepeatPairs(Expected) # {} => Divergent(idx, RepeatPairs(DOMAIN idx)) = {}
      /\ StreamPairs(Expected) # {} => \A p \in StreamPairs(DOMAIN idx) : SameMessage(idx, p)
      /\ job.ref # "none" =>
           \A c \in ReferenceCells :
             /\ ~ReferenceFailed(idx, c)
             /\ first_token_divergence(Reference(c).trace, idx[c].trace) = NoValue
  BY GatesSay DEF Whole, idx
<1>2. DOMAIN idx = Expected BY <1>1, IndexedWhole DEF idx
<1>3. ASSUME NEW c \in Expected
      PROVE  \E m \in 1..Len(rows) : rows[m].cell = c /\ idx[c] = rows[m]
                                     /\ True(c) = truth[Len(prime) + m].tokens
  BY <1>1, IndexedWhole DEF idx
<1>4. /\ DOMAIN rows = 1..Len(rows) /\ DOMAIN truth = 1..(Len(prime) + Len(rows))
      /\ Len(rows) \in Nat /\ Len(prime) \in Nat
  <2>1. Listed(rows) /\ Listed(prime) /\ Listed(truth) /\ Len(truth) = Len(prime) + Len(rows)
    BY DEF RowsAreTrue
  <2> QED BY <2>1, ListedDomain DEF Listed
<1>5. ASSUME NEW c \in Expected PROVE \E i \in DOMAIN truth : truth[i].cell = c
  <2>1. PICK m \in 1..Len(rows) : rows[m].cell = c BY <1>3
  <2>2. RowIsOf(rows[m], truth[Len(prime) + m]) BY DEF RowsAreTrue
  <2> QED BY <1>4, <2>1, <2>2 DEF RowIsOf
<1>6. ASSUME NEW p \in Greedy(NmaxPairs(Expected)) \cup RepeatPairs(Expected)
      PROVE  first_token_divergence(True(p[1]), True(p[2])) = NoValue
  <2>1. p \in NmaxPairs(Expected) \cup RepeatPairs(Expected) BY DEF Greedy
  <2>2. Divergence(idx, p) = NoValue
    <3>1. CASE p \in Greedy(NmaxPairs(Expected)) BY <1>1, <1>2, <3>1 DEF Divergent
    <3>2. CASE p \in RepeatPairs(Expected) BY <1>1, <1>2, <3>2 DEF Divergent
    <3> QED BY <3>1, <3>2
  <2> QED BY <1>1, <2>1, <2>2, PairIsTrue DEF idx
<1>7. ASSUME NEW i \in DOMAIN rows, NEW j \in DOMAIN rows,
             <<rows[i].cell, rows[j].cell>> \in StreamPairs(Expected)
      PROVE  rows[i].message = rows[j].message
  <2>1. SameMessage(idx, <<rows[i].cell, rows[j].cell>>) BY <1>1, <1>2, <1>7
  <2>2. rows[i].cell \in Expected /\ rows[j].cell \in Expected BY <1>1 DEF Whole
  <2>3. \A k \in 1..Len(rows) : rows[k].cell \in Expected => idx[rows[k].cell] = rows[k]
    <3> SUFFICES ASSUME NEW k \in 1..Len(rows), rows[k].cell \in Expected
                 PROVE  idx[rows[k].cell] = rows[k]
      OBVIOUS
    <3>1. PICK m \in 1..Len(rows) : rows[m].cell = rows[k].cell /\ idx[rows[k].cell] = rows[m]
      BY <1>3
    <3>2. m = k BY <1>1, <3>1, OneRowEach
    <3> QED BY <3>1, <3>2
  <2>4. idx[rows[i].cell] = rows[i] /\ idx[rows[j].cell] = rows[j] BY <1>4, <2>2, <2>3
  <2> QED BY <2>1, <2>4 DEF SameMessage
<1>8. ASSUME job.ref # "none", NEW c \in ReferenceCells
      PROVE  first_token_divergence(True(c), Tokens(NoValue, 0)) = NoValue
  <2>1. c \in Expected /\ ~c.s BY DEF ReferenceCells
  <2>2. SameIds(idx[c].trace, True(c)) /\ Len(True(c)) = 8 BY <1>1, <2>1, IndexIsTrue DEF idx
  <2>3. first_token_divergence(Tokens(NoValue, 0), idx[c].trace) = NoValue
    BY <1>1, <1>8, ReferenceTrace
  <2>4. Len(Tokens(NoValue, 0)) = 8 BY EightTokens DEF Generated
  <2>5. Len(idx[c].trace) = 8 BY <2>2 DEF SameIds
  <2>6. SameIds(Tokens(NoValue, 0), idx[c].trace) BY <2>3, <2>4, <2>5, NoDivergence
  <2>7. SameIds(True(c), Tokens(NoValue, 0)) BY <2>2, <2>4, <2>5, <2>6 DEF SameIds
  <2> QED BY <2>2, <2>7, SameNoDivergence
<1> QED BY <1>5, <1>6, <1>7, <1>8

-----------------------------------------------------------------------------
\* What PassIsTrue says of a passing report, apart from the report.
MatrixIsTrue ==
  /\ \A c \in Expected : \E i \in DOMAIN truth : truth[i].cell = c
  /\ \A p \in Greedy(NmaxPairs(Expected)) \cup RepeatPairs(Expected) :
       first_token_divergence(True(p[1]), True(p[2])) = NoValue
  /\ \A i, j \in DOMAIN rows : <<rows[i].cell, rows[j].cell>> \in StreamPairs(Expected)
       => rows[i].message = rows[j].message
ReferenceIsTrue ==
  \A c \in ReferenceCells : first_token_divergence(True(c), Tokens(NoValue, 0)) = NoValue

\* The property in these terms.
LEMMA PassTerms ==
  PassIsTrue <=> ((report # NoReport /\ Passing(report.gates)) =>
                    MatrixIsTrue /\ (job.ref # "none" => ReferenceIsTrue))
BY DEF PassIsTrue, MatrixIsTrue, ReferenceIsTrue

\* They are about the command line, the rows and the generations only.
LEMMA TermsStay ==
  ASSUME UNCHANGED <<job, rows, truth>>
  PROVE  (MatrixIsTrue => MatrixIsTrue') /\ (ReferenceIsTrue => ReferenceIsTrue')
<1>1. Expected' = Expected BY DEF Expected, Matrix
<1>2. ReferenceCells' = ReferenceCells BY <1>1 DEF ReferenceCells
<1>3. /\ NmaxPairs(Expected)' = NmaxPairs(Expected)
      /\ RepeatPairs(Expected)' = RepeatPairs(Expected)
      /\ StreamPairs(Expected)' = StreamPairs(Expected)
  BY <1>1 DEF NmaxPairs, RepeatPairs, StreamPairs, Repeats
<1>5. \A c : True(c)' = True(c) BY DEF True
<1>6. Greedy(NmaxPairs(Expected))' = Greedy(NmaxPairs(Expected)) BY <1>3 DEF Greedy
<1>7. MatrixIsTrue => MatrixIsTrue' BY <1>1, <1>3, <1>5, <1>6 DEF MatrixIsTrue
<1>8. ReferenceIsTrue => ReferenceIsTrue' BY <1>2, <1>5 DEF ReferenceIsTrue
<1> QED BY <1>7, <1>8

\* A verdict over the rows of the run is true.
LEMMA VerdictKept ==
  ASSUME MtpInv, NEW ref \in BOOLEAN, report' = classify_run(rows, ref),
         UNCHANGED <<job, at, rows, prime, truth>>, mpc' \in {"exit", "reclassified"}
  PROVE  MtpInv'
<1>1. RowsAreTrue' BY DEF MtpInv, RowsAreTrue, Listed, RowIsOf, Generated
<1>2. report'.gates = Acceptance(rows, Indexed(rows), ref) BY DEF classify_run
<1>3. ASSUME Passing(Acceptance(rows, Indexed(rows), ref))
      PROVE  MatrixIsTrue /\ (job.ref # "none" => ReferenceIsTrue)
  BY <1>3, PassFollows DEF MtpInv, MatrixIsTrue, ReferenceIsTrue
<1>4. Passing(report.gates)' => Passing(Acceptance(rows, Indexed(rows), ref))
  <2> DEFINE gates == Acceptance(rows, Indexed(rows), ref)
  <2> HIDE DEF gates
  <2>1. report'.gates = gates BY <1>2 DEF gates
  <2>2. Passing(report.gates)' => Passing(gates) BY <2>1 DEF Passing
  <2> QED BY <2>2 DEF gates
<1>5. Passing(report.gates)' => MatrixIsTrue' /\ (job'.ref # "none" => ReferenceIsTrue')
  BY <1>3, <1>4, TermsStay
<1>6. PassIsTrue' BY <1>5 DEF PassIsTrue, MatrixIsTrue, ReferenceIsTrue
<1> QED BY <1>1, <1>6 DEF MtpInv

\* Before the first request there is nothing to be true.
LEMMA MtpStart == MtpInit => MtpInv
<1> SUFFICES ASSUME MtpInit PROVE MtpInv OBVIOUS
<1>1. rows = <<>> /\ prime = <<>> /\ truth = <<>> /\ at = 1 - job.primes /\ report = NoReport
  BY DEF MtpInit
<1>2. at \in Int
  <2>1. PICK c \in DiagCases : job = c[1] BY DEF MtpInit
  <2> QED BY <1>1, <2>1, DiagAssumption
<1>3. Listed(<<>>) BY DEF Listed
<1>4. RowsAreTrue BY <1>1, <1>2, <1>3 DEF RowsAreTrue
<1> QED BY <1>1, <1>4 DEF MtpInv, PassIsTrue

\* An answer adds a generation, and after the primes a row of it.
LEMMA ReceiveKept == ASSUME MtpInv, NEW f, Receive(f) PROVE MtpInv'
<1> DEFINE cell   == Condition
           tokens == IF f = "glitch" THEN Tokens(3, 0) ELSE Generation(cell)
           lines  == late \o <<[kind |-> "request"]>> \o DraftLines(cell)
           shown  == IF f = "late" THEN Front(lines) ELSE lines
           log2   == IF f = "rotated" THEN lines ELSE log \o shown
           slice  == server_log_since(log2, mark, f # "unread")
           row    == Row(cell, tokens, f, slice)
           entry  == [cell |-> cell, tokens |-> tokens]
<1>1. /\ mpc = "receive" /\ truth' = Append(truth, entry) /\ at' = at + 1
      /\ IF at > 0 THEN rows' = Append(rows, row) /\ UNCHANGED prime
                   ELSE prime' = Append(prime, row) /\ UNCHANGED rows
      /\ UNCHANGED <<job, report>>
  BY DEF Receive
<1>2. Generated(tokens)
  <2>1. Generated(Tokens(3, 0)) BY EightTokens
  <2>2. Generated(Generation(cell)) BY EightTokens DEF Generation
  <2> QED BY <2>1, <2>2
<1> HIDE DEF tokens, slice, cell
<1>3. RowIsOf(row, entry) BY <1>2, RowHonest
<1>4. Generated(entry.tokens) BY <1>2
<1> HIDE DEF row, entry
<1>5. /\ Listed(rows) /\ Listed(prime) /\ Listed(truth)
      /\ at \in Int
      /\ at <= 0 => rows = <<>>
      /\ Len(truth) = Len(prime) + Len(rows)
      /\ \A i \in 1..Len(rows) : RowIsOf(rows[i], truth[Len(prime) + i])
      /\ \A i \in 1..Len(truth) : Generated(truth[i].tokens)
      /\ Len(rows) \in Nat /\ Len(prime) \in Nat /\ Len(truth) \in Nat
  BY DEF MtpInv, RowsAreTrue, Listed
<1>6. /\ Listed(truth') /\ Len(truth') = Len(truth) + 1 /\ truth'[Len(truth) + 1] = entry
      /\ \A i \in 1..Len(truth) : truth'[i] = truth[i]
  BY <1>1, <1>5, ListedAppend
<1>7. \A i \in 1..Len(truth') : Generated(truth'[i].tokens)
  <2> SUFFICES ASSUME NEW i \in 1..Len(truth') PROVE Generated(truth'[i].tokens) OBVIOUS
  <2>0. Len(truth) \in Nat /\ Len(truth') = Len(truth) + 1 BY <1>5, <1>6
  <2>1. i \in 1..Len(truth) \/ i = Len(truth) + 1 BY <2>0
  <2> QED BY <1>4, <1>5, <1>6, <2>1
<1>8. CASE at > 0
  <2>1. rows' = Append(rows, row) /\ prime' = prime BY <1>1, <1>8
  <2>2. /\ Listed(rows') /\ Len(rows') = Len(rows) + 1 /\ rows'[Len(rows) + 1] = row
        /\ \A i \in 1..Len(rows) : rows'[i] = rows[i]
    BY <1>5, <2>1, ListedAppend
  <2>3. \A i \in 1..Len(rows') : RowIsOf(rows'[i], truth'[Len(prime') + i])
    <3> SUFFICES ASSUME NEW i \in 1..Len(rows') PROVE RowIsOf(rows'[i], truth'[Len(prime') + i])
      OBVIOUS
    <3>1. CASE i \in 1..Len(rows)
      <4>1. Len(prime) + i \in 1..Len(truth) BY <1>5, <3>1
      <4> QED BY <1>5, <1>6, <2>1, <2>2, <3>1, <4>1
    <3>2. CASE i = Len(rows) + 1
      <4>1. Len(prime) + i = Len(truth) + 1 BY <1>5, <3>2
      <4> QED BY <1>3, <1>6, <2>1, <2>2, <3>2, <4>1
    <3> QED BY <1>5, <2>2, <3>1, <3>2
  <2>4. RowsAreTrue'
    <3>1. Len(truth') = Len(prime') + Len(rows') BY <1>5, <1>6, <2>1, <2>2
    <3>2. at' \in Int /\ ~(at' <= 0) BY <1>1, <1>5, <1>8
    <3> QED BY <1>5, <1>6, <1>7, <2>1, <2>2, <2>3, <3>1, <3>2 DEF RowsAreTrue, Listed, RowIsOf, Generated
  <2> QED BY <2>4, <1>1 DEF MtpInv, PassIsTrue
<1>9. CASE ~(at > 0)
  <2>1. prime' = Append(prime, row) /\ rows' = rows /\ rows = <<>> BY <1>1, <1>5, <1>9
  <2>2. Listed(prime') /\ Len(prime') = Len(prime) + 1 BY <1>5, <2>1, ListedAppend
  <2>3. Len(rows) = 0 BY <2>1
  <2>4. RowsAreTrue'
    <3>1. Len(truth') = Len(prime') + Len(rows') BY <1>5, <1>6, <2>1, <2>2
    <3>2. at' \in Int BY <1>1, <1>5
    <3> QED BY <1>5, <1>6, <1>7, <2>1, <2>2, <2>3, <3>1, <3>2 DEF RowsAreTrue, Listed, RowIsOf, Generated
  <2> QED BY <2>4, <1>1 DEF MtpInv, PassIsTrue
<1> QED BY <1>8, <1>9

\* No step of a run leaves the invariant.
LEMMA MtpStep == MtpInv /\ [MtpNext]_mtp_vars => MtpInv'
<1> SUFFICES ASSUME MtpInv, [MtpNext]_mtp_vars PROVE MtpInv' OBVIOUS
<1>1. ASSUME UNCHANGED <<job, at, rows, prime, truth, report>>, report = NoReport
      PROVE  MtpInv'
  <2>1. RowsAreTrue' BY <1>1 DEF MtpInv, RowsAreTrue, Listed, RowIsOf, Generated
  <2> QED BY <1>1, <2>1 DEF MtpInv, PassIsTrue
<1>2. mpc \notin {"exit", "reclassified"} => report = NoReport BY DEF MtpInv
<1>3. CASE Start BY <1>1, <1>2, <1>3 DEF Start
<1>4. CASE Send \/ SendUnmarked BY <1>1, <1>2, <1>4 DEF Send, SendUnmarked
<1>5. CASE Abort BY <1>1, <1>2, <1>5 DEF Abort
<1>6. CASE Flush BY <1>1, <1>2, <1>6 DEF Flush
<1>7. CASE Classify
  <2> DEFINE ref == job.ref # "none"
  <2>1. /\ report' = classify_run(rows, ref) /\ mpc' = "exit"
        /\ UNCHANGED <<job, at, rows, prime, truth>>
    BY <1>7 DEF Classify, Exit
  <2>2. ref \in BOOLEAN OBVIOUS
  <2> HIDE DEF ref
  <2> QED BY <2>1, <2>2, VerdictKept
<1>8. CASE command_reclassify
  <2>1. /\ mpc' = "reclassified" /\ UNCHANGED <<job, at, rows, prime, truth>>
        /\ \E ref \in BOOLEAN : report' = classify_run(rows, ref)
    BY <1>8 DEF command_reclassify
  <2> QED BY <2>1, VerdictKept
<1>9. CASE \E f \in {"none", "late", "rotated", "unread"} : Receive(f) BY <1>9, ReceiveKept
<1>10. CASE \E f \in Faults : server.kind = "sound" /\ Receive(f) BY <1>10, ReceiveKept
<1>11. CASE UNCHANGED mtp_vars
  <2>1. UNCHANGED <<job, at, rows, prime, truth, report, mpc>> BY <1>11 DEF mtp_vars
  <2>2. RowsAreTrue' BY <2>1 DEF MtpInv, RowsAreTrue, Listed, RowIsOf, Generated
  <2>3. Passing(report.gates)' => Passing(report.gates) BY <2>1 DEF Passing
  <2>4. PassIsTrue'
    <3>1. (report # NoReport /\ Passing(report.gates)) =>
             MatrixIsTrue /\ (job.ref # "none" => ReferenceIsTrue)
      BY PassTerms DEF MtpInv
    <3>2. (report' # NoReport /\ Passing(report.gates)') =>
             MatrixIsTrue' /\ (job'.ref # "none" => ReferenceIsTrue')
      BY <2>1, <2>3, <3>1, TermsStay
    <3> QED BY <3>2 DEF PassIsTrue, MatrixIsTrue, ReferenceIsTrue, NoReport
  <2> QED BY <2>1, <2>2, <2>4 DEF MtpInv, NoReport
<1> QED BY <1>3, <1>4, <1>5, <1>6, <1>7, <1>8, <1>9, <1>10, <1>11 DEF MtpNext

\* classify_run of qwen_mtp_diag.py, for every command line, server and number of
\* faulty requests: a report that passes is about a whole matrix in which no draft
\* depth, repeat or rendering changed the answer, and which is what the reference was.
THEOREM PassTrue == MtpSpec => []PassIsTrue
<1>1. MtpInit => MtpInv BY MtpStart
<1>2. MtpInv /\ [MtpNext]_mtp_vars => MtpInv' BY MtpStep
<1>3. MtpInv => PassIsTrue BY DEF MtpInv
<1> QED BY <1>1, <1>2, <1>3, PTL DEF MtpSpec
-----------------------------------------------------------------------------
(* The matrix *)

\* What a command line and a condition can be.
JobOK ==
  /\ job.profile \in {"full", "greedy-n01", "production-n03"}
  /\ job.repeats \in Nat \ {0} /\ job.prime_n \in 0..3 /\ job.primes \in Nat
IsCell(cell) == cell.r \in Nat /\ cell.t \in {0, 1} /\ cell.n \in 0..3 /\ cell.s \in BOOLEAN

\* The place of a condition in its repeat, counted from zero.
Digits(i, per, ns, s) ==
  LET k == (i - 1) % per IN <<(i - 1) \div per, k \div ns, (k % ns) \div s, k % s>>

\* A place is its digits.
LEMMA DigitsTell ==
  ASSUME NEW i \in Nat \ {0}, NEW j \in Nat \ {0},
         NEW base \in {<<16, 8, 2>>, <<2, 2, 1>>, <<4, 4, 2>>},
         Digits(i, base[1], base[2], base[3]) = Digits(j, base[1], base[2], base[3])
  PROVE  i = j
<1> DEFINE D(x) == Digits(x, base[1], base[2], base[3])
<1>1. CASE base = <<16, 8, 2>>
  <2> DEFINE a == i - 1
             b == j - 1
  <2>1. \A x \in Nat \ {0} : D(x) = <<(x - 1) \div 16, ((x - 1) % 16) \div 8,
                                      (((x - 1) % 16) % 8) \div 2, ((x - 1) % 16) % 2>>
    BY <1>1 DEF Digits
  <2>2. /\ a \div 16 = b \div 16 /\ (a % 16) \div 8 = (b % 16) \div 8
        /\ ((a % 16) % 8) \div 2 = ((b % 16) % 8) \div 2 /\ (a % 16) % 2 = (b % 16) % 2
    BY <2>1
  <2> DEFINE x == a % 16
             y == b % 16
  <2>3. x \in 0..15 /\ y \in 0..15 OBVIOUS
  <2>4. a = 16 * (a \div 16) + x /\ b = 16 * (b \div 16) + y OBVIOUS
  <2>5. x \div 8 = y \div 8 /\ (x % 8) \div 2 = (y % 8) \div 2 /\ x % 2 = y % 2 BY <2>2
  <2>6. a \div 16 = b \div 16 /\ a \div 16 \in Int BY <2>2
  <2> HIDE DEF x, y
  <2>7. x = y BY <2>3, <2>5
  <2> QED BY <2>4, <2>6, <2>7
<1>2. CASE base = <<2, 2, 1>>
  <2> DEFINE a == i - 1
             b == j - 1
  <2>1. \A x \in Nat \ {0} : D(x) = <<(x - 1) \div 2, ((x - 1) % 2) \div 2,
                                      (((x - 1) % 2) % 2) \div 1, ((x - 1) % 2) % 1>>
    BY <1>2 DEF Digits
  <2>2. a \div 2 = b \div 2 /\ ((a % 2) % 2) \div 1 = ((b % 2) % 2) \div 1 BY <2>1
  <2>3. a % 2 \in 0..1 /\ b % 2 \in 0..1 OBVIOUS
  <2>4. a = 2 * (a \div 2) + (a % 2) /\ b = 2 * (b \div 2) + (b % 2) OBVIOUS
  <2>5. a % 2 = b % 2 BY <2>2, <2>3
  <2> QED BY <2>2, <2>4, <2>5
<1>3. CASE base = <<4, 4, 2>>
  <2> DEFINE a == i - 1
             b == j - 1
  <2>1. \A x \in Nat \ {0} : D(x) = <<(x - 1) \div 4, ((x - 1) % 4) \div 4,
                                      (((x - 1) % 4) % 4) \div 2, ((x - 1) % 4) % 2>>
    BY <1>3 DEF Digits
  <2>2. /\ a \div 4 = b \div 4
        /\ ((a % 4) % 4) \div 2 = ((b % 4) % 4) \div 2 /\ (a % 4) % 2 = (b % 4) % 2
    BY <2>1
  <2> DEFINE x == a % 4
             y == b % 4
  <2>3. x \in 0..3 /\ y \in 0..3 OBVIOUS
  <2>4. a = 4 * (a \div 4) + x /\ b = 4 * (b \div 4) + y OBVIOUS
  <2>5. (x % 4) \div 2 = (y % 4) \div 2 /\ x % 2 = y % 2 BY <2>2
  <2>6. a \div 4 = b \div 4 /\ a \div 4 \in Int BY <2>2
  <2> HIDE DEF x, y
  <2>7. x = y BY <2>3, <2>5
  <2> QED BY <2>4, <2>6, <2>7
<1> QED BY <1>1, <1>2, <1>3

\* The values an axis of the matrix takes, each once.
Axis(v, S) ==
  Len(v) \in Nat \ {0} /\ \A i, j \in 1..Len(v) : v[i] \in S /\ (v[i] = v[j] => i = j)

\* Different values make an axis.
LEMMA AxisOf ==
  ASSUME NEW v, NEW S, Len(v) \in {1, 2, 4}, \A i \in 1..Len(v) : v[i] \in S,
         Len(v) \in {2, 4} => v[1] # v[2],
         Len(v) = 4 => v[1] # v[3] /\ v[1] # v[4] /\ v[2] # v[3] /\ v[2] # v[4] /\ v[3] # v[4]
  PROVE  Axis(v, S)
BY DEF Axis

\* The axes of each profile and their lengths.
LEMMA Axes ==
  ASSUME JobOK, NEW p, p = Profile(job.profile)
  PROVE  /\ Axis(p.t, {0, 1}) /\ Axis(p.n, 0..3) /\ Axis(p.s, BOOLEAN)
         /\ \/ Len(p.t) = 2 /\ Len(p.n) = 4 /\ Len(p.s) = 2
            \/ Len(p.t) = 1 /\ Len(p.n) = 2 /\ Len(p.s) = 1
            \/ Len(p.t) = 1 /\ Len(p.n) = 2 /\ Len(p.s) = 2
<1>1. CASE job.profile = "full"
  <2>1. p = [t |-> <<0, 1>>, n |-> <<0, 1, 2, 3>>, s |-> <<FALSE, TRUE>>]
    BY <1>1 DEF Profile
  <2>2. /\ Len(p.t) = 2 /\ p.t[1] = 0 /\ p.t[2] = 1
        /\ Len(p.n) = 4 /\ p.n[1] = 0 /\ p.n[2] = 1 /\ p.n[3] = 2 /\ p.n[4] = 3
        /\ Len(p.s) = 2 /\ p.s[1] = FALSE /\ p.s[2] = TRUE
    BY <2>1
  <2>3. Axis(p.t, {0, 1}) BY <2>2, AxisOf
  <2>4. Axis(p.n, 0..3) BY <2>2, AxisOf
  <2>5. Axis(p.s, BOOLEAN)
    <3>1. p.s[1] \in BOOLEAN /\ p.s[2] \in BOOLEAN /\ p.s[1] # p.s[2] BY <2>2
    <3>2. \A i \in 1..Len(p.s) : p.s[i] \in BOOLEAN BY <2>2, <3>1
    <3> QED BY <2>2, <3>1, <3>2, AxisOf
  <2> QED BY <2>2, <2>3, <2>4, <2>5
<1>2. CASE job.profile = "greedy-n01"
  <2>1. p = [t |-> <<0>>, n |-> <<0, 1>>, s |-> <<FALSE>>] BY <1>2 DEF Profile
  <2>2. /\ Len(p.t) = 1 /\ p.t[1] = 0 /\ Len(p.n) = 2 /\ p.n[1] = 0 /\ p.n[2] = 1
        /\ Len(p.s) = 1 /\ p.s[1] = FALSE
    BY <2>1
  <2>3. Axis(p.t, {0, 1}) BY <2>2, AxisOf
  <2>4. Axis(p.n, 0..3) BY <2>2, AxisOf
  <2>5. Axis(p.s, BOOLEAN)
    <3>1. p.s[1] \in BOOLEAN BY <2>2
    <3>2. \A i \in 1..Len(p.s) : p.s[i] \in BOOLEAN BY <2>2, <3>1
    <3> QED BY <2>2, <3>2, AxisOf
  <2> QED BY <2>2, <2>3, <2>4, <2>5
<1>3. CASE job.profile = "production-n03"
  <2>1. p = [t |-> <<1>>, n |-> <<0, 3>>, s |-> <<FALSE, TRUE>>] BY <1>3 DEF Profile
  <2>2. /\ Len(p.t) = 1 /\ p.t[1] = 1 /\ Len(p.n) = 2 /\ p.n[1] = 0 /\ p.n[2] = 3
        /\ Len(p.s) = 2 /\ p.s[1] = FALSE /\ p.s[2] = TRUE
    BY <2>1
  <2>3. Axis(p.t, {0, 1}) BY <2>2, AxisOf
  <2>4. Axis(p.n, 0..3) BY <2>2, AxisOf
  <2>5. Axis(p.s, BOOLEAN)
    <3>1. p.s[1] \in BOOLEAN /\ p.s[2] \in BOOLEAN /\ p.s[1] # p.s[2] BY <2>2
    <3>2. \A i \in 1..Len(p.s) : p.s[i] \in BOOLEAN BY <2>2, <3>1
    <3> QED BY <2>2, <3>1, <3>2, AxisOf
  <2> QED BY <2>2, <2>3, <2>4, <2>5
<1> QED BY <1>1, <1>2, <1>3 DEF JobOK

\* The matrix is a list of conditions, each with the digits of its place.
LEMMA MatrixCells ==
  ASSUME JobOK
  PROVE  /\ Listed(Matrix) /\ Len(Matrix) \in Nat \ {0}
         /\ \A i \in 1..Len(Matrix) : IsCell(Matrix[i]) /\ Matrix[i].r \in Repeats
         /\ \A i, j \in 1..Len(Matrix) : Matrix[i] = Matrix[j] => i = j
<1> DEFINE p == Profile(job.profile)
           ns == Len(p.n) * Len(p.s)
           per == Len(p.t) * ns
           D(i) == Digits(i, per, ns, Len(p.s))
           cell(i) == LET k == (i - 1) % per
                      IN [r |-> 1 + ((i - 1) \div per), t |-> p.t[1 + (k \div ns)],
                          n |-> p.n[1 + ((k % ns) \div Len(p.s))], s |-> p.s[1 + (k % Len(p.s))]]
           N == job.repeats * per
<1>1. Matrix = [i \in 1..N |-> cell(i)] BY DEF Matrix, condition_matrix
<1>2. \A i : /\ cell(i).r = 1 + D(i)[1] /\ cell(i).t = p.t[1 + D(i)[2]]
            /\ cell(i).n = p.n[1 + D(i)[3]] /\ cell(i).s = p.s[1 + D(i)[4]]
  BY DEF Digits
<1>3. /\ Axis(p.t, {0, 1}) /\ Axis(p.n, 0..3) /\ Axis(p.s, BOOLEAN)
      /\ \/ Len(p.t) = 2 /\ Len(p.n) = 4 /\ Len(p.s) = 2 /\ per = 16 /\ ns = 8
         \/ Len(p.t) = 1 /\ Len(p.n) = 2 /\ Len(p.s) = 1 /\ per = 2 /\ ns = 2
         \/ Len(p.t) = 1 /\ Len(p.n) = 2 /\ Len(p.s) = 2 /\ per = 4 /\ ns = 4
  <2>1. /\ Axis(p.t, {0, 1}) /\ Axis(p.n, 0..3) /\ Axis(p.s, BOOLEAN)
        /\ \/ Len(p.t) = 2 /\ Len(p.n) = 4 /\ Len(p.s) = 2
           \/ Len(p.t) = 1 /\ Len(p.n) = 2 /\ Len(p.s) = 1
           \/ Len(p.t) = 1 /\ Len(p.n) = 2 /\ Len(p.s) = 2
    BY Axes
  <2> HIDE DEF p
  <2>2. per = Len(p.t) * (Len(p.n) * Len(p.s)) /\ ns = Len(p.n) * Len(p.s) OBVIOUS
  <2> HIDE DEF per, ns
  <2>3. CASE Len(p.t) = 2 /\ Len(p.n) = 4 /\ Len(p.s) = 2 BY <2>1, <2>2, <2>3
  <2>4. CASE Len(p.t) = 1 /\ Len(p.n) = 2 /\ Len(p.s) = 1 BY <2>1, <2>2, <2>4
  <2>5. CASE Len(p.t) = 1 /\ Len(p.n) = 2 /\ Len(p.s) = 2 BY <2>1, <2>2, <2>5
  <2> QED BY <2>1, <2>3, <2>4, <2>5
<1> HIDE DEF p, ns, per, cell
<1>4. N \in Nat \ {0}
  <2>1. per \in {16, 2, 4} BY <1>3
  <2> QED BY <2>1 DEF JobOK
<1>5. ASSUME NEW i \in 1..N
      PROVE  /\ D(i)[1] \in 0..job.repeats - 1 /\ D(i)[2] \in 0..Len(p.t) - 1
             /\ D(i)[3] \in 0..Len(p.n) - 1 /\ D(i)[4] \in 0..Len(p.s) - 1
  <2>1. CASE Len(p.t) = 2 /\ Len(p.n) = 4 /\ Len(p.s) = 2 /\ per = 16 /\ ns = 8
    BY <2>1 DEF Digits, JobOK
  <2>2. CASE Len(p.t) = 1 /\ Len(p.n) = 2 /\ Len(p.s) = 1 /\ per = 2 /\ ns = 2
    BY <2>2 DEF Digits, JobOK
  <2>3. CASE Len(p.t) = 1 /\ Len(p.n) = 2 /\ Len(p.s) = 2 /\ per = 4 /\ ns = 4
    BY <2>3 DEF Digits, JobOK
  <2> QED BY <1>3, <2>1, <2>2, <2>3
<1>6. ASSUME NEW i \in 1..N
      PROVE  1 + D(i)[2] \in 1..Len(p.t) /\ 1 + D(i)[3] \in 1..Len(p.n) /\ 1 + D(i)[4] \in 1..Len(p.s)
  <2>1. Len(p.t) \in Nat /\ Len(p.n) \in Nat /\ Len(p.s) \in Nat BY <1>3
  <2>2. /\ D(i)[2] \in 0..Len(p.t) - 1 /\ D(i)[3] \in 0..Len(p.n) - 1
        /\ D(i)[4] \in 0..Len(p.s) - 1
    BY <1>5
  <2>3. \A x, n : n \in Nat /\ x \in 0..n - 1 => 1 + x \in 1..n OBVIOUS
  <2> HIDE DEF D
  <2> QED BY <2>1, <2>2, <2>3
<1> HIDE DEF N
<1>7. Listed(Matrix) /\ Len(Matrix) = N
  <2>1. Matrix = [i \in 1..N |-> Matrix[i]] BY <1>1
  <2>2. Len(Matrix) = N BY <1>4, <2>1, IsList
  <2> QED BY <1>4, <2>1, <2>2 DEF Listed
<1>8. ASSUME NEW i \in 1..N PROVE IsCell(Matrix[i]) /\ Matrix[i].r \in Repeats
  <2>1. Matrix[i] = cell(i) BY <1>1
  <2> HIDE DEF D
  <2>2. cell(i).r \in Nat /\ cell(i).r \in 1..job.repeats BY <1>2, <1>5 DEF JobOK
  <2>3. cell(i).t \in {0, 1} /\ cell(i).n \in 0..3 /\ cell(i).s \in BOOLEAN
    BY <1>2, <1>3, <1>6 DEF Axis
  <2> QED BY <2>1, <2>2, <2>3 DEF IsCell, Repeats
<1>9. ASSUME NEW i \in 1..N, NEW j \in 1..N, Matrix[i] = Matrix[j] PROVE i = j
  <2>1. cell(i) = cell(j) BY <1>1, <1>9
  <2>2. D(i) = <<D(i)[1], D(i)[2], D(i)[3], D(i)[4]>> /\ D(j) = <<D(j)[1], D(j)[2], D(j)[3], D(j)[4]>>
    BY DEF Digits
  <2> HIDE DEF D
  <2>3. D(i)[1] = D(j)[1]
    <3>1. 1 + D(i)[1] = 1 + D(j)[1] BY <1>2, <2>1
    <3> QED BY <1>5, <3>1
  <2>4. /\ p.t[1 + D(i)[2]] = p.t[1 + D(j)[2]] /\ p.n[1 + D(i)[3]] = p.n[1 + D(j)[3]]
        /\ p.s[1 + D(i)[4]] = p.s[1 + D(j)[4]]
    BY <1>2, <2>1
  <2>5. D(i)[2] = D(j)[2]
    <3>1. \A x, y \in 1..Len(p.t) : p.t[x] = p.t[y] => x = y BY <1>3 DEF Axis
    <3>2. 1 + D(i)[2] = 1 + D(j)[2] BY <1>6, <2>4, <3>1
    <3> QED BY <1>5, <3>2
  <2>6. D(i)[3] = D(j)[3]
    <3>1. \A x, y \in 1..Len(p.n) : p.n[x] = p.n[y] => x = y BY <1>3 DEF Axis
    <3>2. 1 + D(i)[3] = 1 + D(j)[3] BY <1>6, <2>4, <3>1
    <3> QED BY <1>5, <3>2
  <2>7. D(i)[4] = D(j)[4]
    <3>1. \A x, y \in 1..Len(p.s) : p.s[x] = p.s[y] => x = y BY <1>3 DEF Axis
    <3>2. 1 + D(i)[4] = 1 + D(j)[4] BY <1>6, <2>4, <3>1
    <3> QED BY <1>5, <3>2
  <2>8. D(i) = D(j) BY <2>2, <2>3, <2>5, <2>6, <2>7
  <2> DEFINE base == <<per, ns, Len(p.s)>>
  <2>9. Digits(i, base[1], base[2], base[3]) = Digits(j, base[1], base[2], base[3]) BY <2>8 DEF D
  <2>10. base \in {<<16, 8, 2>>, <<2, 2, 1>>, <<4, 4, 2>>} BY <1>3
  <2> HIDE DEF base
  <2> QED BY <1>4, <2>9, <2>10, DigitsTell
<1> QED BY <1>4, <1>7, <1>8, <1>9
-----------------------------------------------------------------------------
(* The lines of the log *)

\* What a line can be; a draft line of a request.
Line == [kind : {"startup", "request"}] \cup [kind : {"draft"}, accepted : 0..3, total : 0..3]
DraftLine(cell, k) == [kind |-> "draft", accepted |-> Accepted(cell)[k], total |-> cell.n]

\* A generation takes at most four steps of speculation.
LEMMA AcceptedSteps ==
  ASSUME NEW cell, cell.n \in 0..3
  PROVE  /\ Accepted(cell) \in Seq(0..3) /\ Len(Accepted(cell)) \in 0..4
         /\ \A k \in 1..Len(Accepted(cell)) : Accepted(cell)[k] \in 0..cell.n
<1>1. CASE cell.n = 0
  <2>1. Accepted(cell) = <<>> BY <1>1 DEF Accepted
  <2> QED BY <2>1
<1>2. CASE cell.n = 1
  <2>1. Accepted(cell) = <<1, 0, 1, 1>> BY <1>2 DEF Accepted
  <2> QED BY <1>2, <2>1
<1>3. CASE cell.n = 2
  <2>1. Accepted(cell) = <<2, 1, 1>> BY <1>3 DEF Accepted
  <2> QED BY <1>3, <2>1
<1>4. CASE cell.n = 3 /\ cell.t = 0
  <2>1. Accepted(cell) = <<3, 2>> BY <1>4 DEF Accepted
  <2> QED BY <1>4, <2>1
<1>5. CASE cell.n = 3 /\ cell.t # 0
  <2>1. Accepted(cell) = <<0, 1, 2>> BY <1>5 DEF Accepted
  <2> QED BY <1>5, <2>1
<1> QED BY <1>1, <1>2, <1>3, <1>4, <1>5

\* The draft lines of a request are one for each step.
LEMMA DraftLinesAre ==
  ASSUME NEW cell, cell.n \in 0..3
  PROVE  /\ DraftLines(cell) \in Seq(Line) /\ Len(DraftLines(cell)) = Len(Accepted(cell))
         /\ \A k \in 1..Len(Accepted(cell)) : DraftLines(cell)[k] = DraftLine(cell, k)
<1> DEFINE acc == Accepted(cell)
<1>1. /\ acc \in Seq(0..3) /\ Len(acc) \in Nat /\ DOMAIN acc = 1..Len(acc)
      /\ \A k \in 1..Len(acc) : acc[k] \in 0..3
  BY AcceptedSteps
<1>2. DraftLines(cell) = [k \in 1..Len(acc) |-> DraftLine(cell, k)]
  BY <1>1 DEF DraftLines, DraftLine
<1>3. \A k \in 1..Len(acc) : DraftLine(cell, k) \in Line BY <1>1 DEF Line, DraftLine
<1> HIDE DEF acc
<1>4. [k \in 1..Len(acc) |-> DraftLine(cell, k)] \in Seq(Line) BY <1>1, <1>3, IsASeq
<1>5. Len(DraftLines(cell)) = Len(acc) BY <1>1, <1>2, <1>4, LenProperties
<1> QED BY <1>2, <1>4, <1>5 DEF acc

\* What a slice holds of its own request's lines: the first of them, up to m drafts.
OwnLines(slice, cell, m) ==
  /\ slice \in Seq(Line) /\ Len(slice) = m + 1 /\ slice[1].kind = "request"
  /\ \A k \in 1..m : slice[k + 1] = DraftLine(cell, k)
DraftEvent(cell, k) ==
  [accepted |-> Accepted(cell)[k], total |-> cell.n, partial |-> Accepted(cell)[k] < cell.n,
   valid |-> cell.n > 0 /\ Accepted(cell)[k] <= cell.n]

\* Such a slice is read as the first m steps of the request.
LEMMA OwnLinesRead ==
  ASSUME NEW cell, NEW m \in Nat, NEW slice, OwnLines(slice, cell, m)
  PROVE  parse_draft_acceptance_events(slice) = [k \in 1..m |-> DraftEvent(cell, k)]
<1> DEFINE places == {i \in DOMAIN slice : slice[i].kind = "draft"}
           drafts == Picked(slice, places)
<1>1. /\ DOMAIN slice = 1..m + 1 /\ slice[1].kind = "request"
      /\ \A k \in 1..m : slice[k + 1] = DraftLine(cell, k)
  BY DEF OwnLines
<1>2. places = 2..m + 1
  <2>0. \A k : DraftLine(cell, k).kind = "draft" BY DEF DraftLine
  <2>1. \A k \in 1..m : slice[k + 1].kind = "draft" BY <1>1, <2>0
  <2>2. \A i \in 2..m + 1 : i - 1 \in 1..m /\ (i - 1) + 1 = i OBVIOUS
  <2>3. \A i \in 2..m + 1 : slice[i].kind = "draft" BY <2>1, <2>2
  <2> QED BY <1>1, <2>3
<1>3. drafts = [k \in 1..m |-> slice[k + 1]]
  <2> DEFINE b == m + 1
  <2>4. b \in Nat /\ b + 1 = 2 + m /\ 2 \in Nat /\ m \in Nat OBVIOUS
  <2>5. places = 2..b BY <1>2
  <2> HIDE DEF b, places
  <2>1. /\ Listed(drafts) /\ Len(drafts) = m
        /\ \A k \in 1..m : drafts[k] = slice[2 + k - 1]
    BY <2>4, <2>5, PickedStretch
  <2> HIDE DEF drafts
  <2>2. \A k \in 1..m : 2 + k - 1 = k + 1 OBVIOUS
  <2>3. \A k \in 1..m : drafts[k] = slice[k + 1] BY <2>1, <2>2
  <2> QED BY <2>1, <2>3 DEF Listed
<1>4. parse_draft_acceptance_events(slice) =
        [i \in DOMAIN drafts |->
           [accepted |-> drafts[i].accepted, total |-> drafts[i].total,
            partial |-> drafts[i].accepted < drafts[i].total,
            valid |-> drafts[i].total > 0 /\ drafts[i].accepted <= drafts[i].total]]
  BY DEF parse_draft_acceptance_events
<1> HIDE DEF drafts, places
<1>5. DOMAIN drafts = 1..m /\ \A k \in 1..m : drafts[k] = DraftLine(cell, k) BY <1>1, <1>3
<1>6. \A k \in 1..m : drafts[k].accepted = Accepted(cell)[k] /\ drafts[k].total = cell.n
  BY <1>5 DEF DraftLine
<1> QED BY <1>4, <1>5, <1>6 DEF DraftEvent

\* A slice that was not taken has no events.
LEMMA NoLinesRead == parse_draft_acceptance_events(<<>>) = <<>>
<1>1. DOMAIN <<>> = {} OBVIOUS
<1>2. Picked(<<>>, {i \in DOMAIN <<>> : <<>>[i].kind = "draft"}) = <<>> BY <1>1, PickedNone
<1> QED BY <1>1, <1>2 DEF parse_draft_acceptance_events

-----------------------------------------------------------------------------
(* What one request does to the log *)

\* The lines a request adds, those it shows in time, and the log after it.
Request == <<[kind |-> "request"]>>
Lines(cell) == late \o Request \o DraftLines(cell)
ShownLines(cell, f) == IF f = "late" THEN Front(Lines(cell)) ELSE Lines(cell)
LogAfter(cell, f) == IF f = "rotated" THEN Lines(cell) ELSE log \o ShownLines(cell, f)

\* The log stays a log.
LEMMA LogTyped ==
  ASSUME NEW cell, cell.n \in 0..3, NEW f, log \in Seq(Line), late \in Seq(Line)
  PROVE  /\ Lines(cell) \in Seq(Line) /\ Len(Lines(cell)) = Len(late) + 1 + Len(DraftLines(cell))
         /\ \A i \in 1..Len(Lines(cell)) : Lines(cell)[i] =
              IF i <= Len(late) THEN late[i]
              ELSE IF i = Len(late) + 1 THEN [kind |-> "request"]
              ELSE DraftLines(cell)[i - Len(late) - 1]
         /\ ShownLines(cell, f) \in Seq(Line)
         /\ Len(ShownLines(cell, f)) = Len(Lines(cell)) - (IF f = "late" THEN 1 ELSE 0)
         /\ \A i \in 1..Len(ShownLines(cell, f)) : ShownLines(cell, f)[i] = Lines(cell)[i]
         /\ LogAfter(cell, f) \in Seq(Line)
         /\ <<Last(Lines(cell))>> \in Seq(Line)
<1> DEFINE head == late \o Request
           lines == Lines(cell)
           n == Len(lines)
<1>1. DraftLines(cell) \in Seq(Line) BY DraftLinesAre
<1>2. Request \in Seq(Line) /\ Len(Request) = 1 /\ Request[1] = [kind |-> "request"]
  BY DEF Request, Line
<1>3. /\ head \in Seq(Line) /\ Len(head) = Len(late) + 1
      /\ \A i \in 1..Len(late) + 1 : head[i] = IF i <= Len(late) THEN late[i] ELSE Request[i - Len(late)]
  <2>1. /\ late \o Request \in Seq(Line) /\ Len(late \o Request) = Len(late) + Len(Request)
        /\ \A i \in 1..Len(late) + Len(Request) : (late \o Request)[i] =
             IF i <= Len(late) THEN late[i] ELSE Request[i - Len(late)]
    BY <1>2, ConcatProperties
  <2> QED BY <1>2, <2>1
<1>4. /\ lines \in Seq(Line) /\ n = Len(head) + Len(DraftLines(cell))
      /\ \A i \in 1..Len(head) + Len(DraftLines(cell)) :
           lines[i] = IF i <= Len(head) THEN head[i] ELSE DraftLines(cell)[i - Len(head)]
  BY <1>1, <1>3, ConcatProperties DEF Lines
<1>5. Len(late) \in Nat /\ Len(DraftLines(cell)) \in Nat /\ n \in Nat
  BY <1>1, <1>4, LenProperties
<1> HIDE DEF head, lines
<1>6. n = Len(late) + 1 + Len(DraftLines(cell)) BY <1>3, <1>4, <1>5
<1>7. \A i \in 1..n : lines[i] = IF i <= Len(late) THEN late[i]
                                 ELSE IF i = Len(late) + 1 THEN [kind |-> "request"]
                                 ELSE DraftLines(cell)[i - Len(late) - 1]
  <2> SUFFICES ASSUME NEW i \in 1..n
               PROVE  lines[i] = IF i <= Len(late) THEN late[i]
                                 ELSE IF i = Len(late) + 1 THEN [kind |-> "request"]
                                 ELSE DraftLines(cell)[i - Len(late) - 1]
    OBVIOUS
  <2>1. CASE i <= Len(late) BY <1>3, <1>4, <1>5, <2>1
  <2>2. CASE i = Len(late) + 1
    <3>1. i - Len(late) = 1 /\ i \in 1..Len(late) + 1 /\ ~(i <= Len(late)) BY <1>5, <2>2
    <3>2. head[i] = Request[1] BY <1>3, <3>1
    <3>3. lines[i] = head[i] BY <1>3, <1>4, <1>5, <1>6, <3>1
    <3> QED BY <1>2, <3>1, <3>2, <3>3
  <2>3. CASE i > Len(late) + 1
    <3>1. i - Len(head) = i - Len(late) - 1 /\ ~(i <= Len(head)) BY <1>3, <1>5, <2>3
    <3> QED BY <1>4, <1>5, <2>3, <3>1
  <2> QED BY <1>5, <2>1, <2>2, <2>3
<1>8. /\ ShownLines(cell, f) \in Seq(Line) /\ Len(ShownLines(cell, f)) = n - (IF f = "late" THEN 1 ELSE 0)
      /\ \A i \in 1..Len(ShownLines(cell, f)) : ShownLines(cell, f)[i] = lines[i]
  <2>1. CASE f = "late"
    <3>1. ShownLines(cell, f) = SubSeq(lines, 1, n - 1) BY <2>1 DEF ShownLines, Front, lines
    <3>2. \A i \in 1..n - 1 : lines[i] \in Line BY <1>4, <1>5, ElementOfSeq
    <3>3. /\ SubSeq(lines, 1, n - 1) \in Seq(Line)
          /\ Len(SubSeq(lines, 1, n - 1)) = IF 1 <= n - 1 THEN (n - 1) - 1 + 1 ELSE 0
          /\ \A i \in 1..(n - 1) - 1 + 1 : SubSeq(lines, 1, n - 1)[i] = lines[1 + i - 1]
      BY <1>5, <3>2, SubSeqProperties
    <3>4. n >= 1 BY <1>5, <1>6
    <3>5. Len(SubSeq(lines, 1, n - 1)) = n - 1
      <4> DEFINE l == Len(SubSeq(lines, 1, n - 1))
      <4>1. l = IF 1 <= n - 1 THEN (n - 1) - 1 + 1 ELSE 0 BY <3>3
      <4> HIDE DEF l, n
      <4> QED BY <1>5, <3>4, <4>1 DEF l
    <3>6. \A i \in 1..n - 1 : 1 + i - 1 = i BY <1>5
    <3>7. \A i \in 1..n - 1 : SubSeq(lines, 1, n - 1)[i] = lines[i] BY <1>5, <3>3, <3>6
    <3> QED BY <2>1, <3>1, <3>3, <3>5, <3>7
  <2>2. CASE f # "late"
    <3>1. ShownLines(cell, f) = lines BY <2>2 DEF ShownLines, lines
    <3> QED BY <1>4, <1>5, <2>2, <3>1
  <2> QED BY <2>1, <2>2
<1>9. LogAfter(cell, f) \in Seq(Line) BY <1>4, <1>8, ConcatProperties DEF LogAfter, lines
<1>10. <<Last(Lines(cell))>> \in Seq(Line)
  <2>1. n \in 1..n BY <1>5, <1>6
  <2>2. lines[n] \in Line BY <1>4, <2>1, ElementOfSeq
  <2>3. Last(Lines(cell)) = lines[n] BY DEF Last, lines
  <2> QED BY <2>2, <2>3
<1> QED BY <1>4, <1>6, <1>7, <1>8, <1>9, <1>10 DEF lines

\* A request that meets no late line, and whose log was not started over unseen, has
\* its own lines in its slice, all of them unless its last one is late.
LEMMA OwnSlice ==
  ASSUME NEW cell, cell.n \in 0..3, NEW f, log \in Seq(Line), late = <<>>,
         mark = IF job.log THEN Len(log) ELSE NoValue,
         f = "rotated" => Len(Lines(cell)) < mark,
         f = "late" => DraftLines(cell) # <<>>, f # "unread"
  PROVE  \/ ~job.log /\ server_log_since(LogAfter(cell, f), mark, f # "unread") = <<>>
         \/ /\ job.log
            /\ \E m \in 0..Len(Accepted(cell)) :
                 /\ OwnLines(server_log_since(LogAfter(cell, f), mark, f # "unread"), cell, m)
                 /\ f # "late" => m = Len(Accepted(cell))
<1> DEFINE slice == server_log_since(LogAfter(cell, f), mark, f # "unread")
           shown == ShownLines(cell, f)
           k == Len(Accepted(cell))
<1>0. k \in 0..4 BY AcceptedSteps
<1>1. /\ DraftLines(cell) \in Seq(Line) /\ Len(DraftLines(cell)) = k
      /\ \A i \in 1..k : DraftLines(cell)[i] = DraftLine(cell, i)
  BY DraftLinesAre
<1>2. late \in Seq(Line) /\ Len(late) = 0 OBVIOUS
<1>3. /\ Lines(cell) \in Seq(Line) /\ Len(Lines(cell)) = 0 + 1 + k
      /\ \A i \in 1..Len(Lines(cell)) : Lines(cell)[i] =
           IF i <= 0 THEN late[i] ELSE IF i = 0 + 1 THEN [kind |-> "request"]
           ELSE DraftLines(cell)[i - 0 - 1]
      /\ shown \in Seq(Line) /\ Len(shown) = Len(Lines(cell)) - (IF f = "late" THEN 1 ELSE 0)
      /\ \A i \in 1..Len(shown) : shown[i] = Lines(cell)[i]
  BY <1>1, <1>2, LogTyped
<1> DEFINE m == IF f = "late" THEN k - 1 ELSE k
<1>4. m \in 0..k /\ Len(shown) = m + 1 /\ Len(Lines(cell)) = k + 1
  <2>1. f = "late" => k # 0
    <3>1. k = 0 => DraftLines(cell) = <<>> BY <1>1, EmptySeq
    <3> QED BY <3>1
  <2> HIDE DEF k, shown
  <2> QED BY <1>0, <1>3, <2>1
<1>5. OwnLines(shown, cell, m)
  <2>1. shown[1].kind = "request"
    <3>1. 1 \in 1..Len(shown) /\ 1 \in 1..Len(Lines(cell)) BY <1>0, <1>4
    <3>2. shown[1] = [kind |-> "request"] BY <1>3, <3>1
    <3> QED BY <3>2
  <2>2. ASSUME NEW i \in 1..m PROVE shown[i + 1] = DraftLine(cell, i)
    <3>1. i + 1 \in 1..Len(shown) /\ i + 1 \in 1..Len(Lines(cell)) /\ i \in 1..k BY <1>0, <1>4
    <3>2. shown[i + 1] = Lines(cell)[i + 1] BY <1>3, <3>1
    <3>3. Lines(cell)[i + 1] = DraftLines(cell)[i]
      <4>1. ~(i + 1 <= 0) /\ i + 1 # 0 + 1 /\ (i + 1) - 0 - 1 = i BY <3>1
      <4> QED BY <1>3, <3>1, <4>1
    <3> QED BY <1>1, <3>1, <3>2, <3>3
  <2> QED BY <1>3, <1>4, <2>1, <2>2 DEF OwnLines
<1> HIDE DEF m
<1>6. CASE ~job.log
  <2>1. slice = <<>> BY <1>6 DEF server_log_since
  <2> QED BY <1>6, <2>1
<1>7. CASE job.log
  <2>1. mark = Len(log) /\ mark \in Nat /\ mark # NoValue BY <1>7, LenProperties DEF NoValue
  <2>2. slice = shown
    <3>1. CASE f = "rotated"
      <4>1. LogAfter(cell, f) = Lines(cell) /\ shown = Lines(cell) BY <3>1 DEF LogAfter, ShownLines
      <4>2. ~(Len(Lines(cell)) >= mark) BY <1>0, <1>4, <2>1, <3>1
      <4>3. slice = SubSeq(Lines(cell), 1, Len(Lines(cell)))
        BY <2>1, <4>1, <4>2 DEF server_log_since
      <4> QED BY <1>3, <4>1, <4>3, SubSeqFull
    <3>2. CASE f # "rotated"
      <4>1. LogAfter(cell, f) = log \o shown BY <3>2 DEF LogAfter
      <4> DEFINE all == log \o shown
      <4>2. /\ all \in Seq(Line) /\ Len(all) = mark + (m + 1)
            /\ \A i \in 1..mark + (m + 1) : all[i] = IF i <= mark THEN log[i] ELSE shown[i - mark]
        <5>1. shown \in Seq(Line) BY <1>3
        <5>2. Len(shown) = m + 1 BY <1>4
        <5> HIDE DEF shown
        <5>3. /\ log \o shown \in Seq(Line) /\ Len(log \o shown) = Len(log) + Len(shown)
              /\ \A i \in 1..Len(log) + Len(shown) : (log \o shown)[i] =
                   IF i <= Len(log) THEN log[i] ELSE shown[i - Len(log)]
          BY <5>1, ConcatProperties
        <5> QED BY <2>1, <5>2, <5>3
      <4> HIDE DEF all
      <4>3. slice = SubSeq(all, mark + 1, mark + (m + 1))
        <5>1. Len(all) >= mark BY <1>0, <1>4, <2>1, <4>2
        <5> QED BY <2>1, <4>1, <4>2, <5>1 DEF server_log_since, all
      <4>4. \A i \in mark + 1..mark + (m + 1) : all[i] \in Line
        BY <2>1, <4>2, ElementOfSeq
      <4>5. m \in Nat BY <1>0, <1>4
      <4>6. /\ slice \in Seq(Line) /\ Len(slice) = m + 1
            /\ \A i \in 1..m + 1 : slice[i] = all[mark + 1 + i - 1]
        <5> HIDE DEF slice
        <5> DEFINE a == mark + 1
                   b == mark + (m + 1)
        <5>1. a \in Int /\ b \in Int /\ a <= b /\ b - a + 1 = m + 1 BY <2>1, <4>5
        <5>2. \A i \in a..b : all[i] \in Line BY <4>4
        <5>3. slice = SubSeq(all, a, b) BY <4>3
        <5> HIDE DEF a, b
        <5>4. /\ slice \in Seq(Line) /\ Len(slice) = b - a + 1
              /\ \A i \in 1..b - a + 1 : slice[i] = all[a + i - 1]
          BY <5>1, <5>2, <5>3, SubSeqProperties
        <5> QED BY <5>1, <5>4 DEF a
      <4>7. \A i \in 1..m + 1 : slice[i] = shown[i]
        <5> SUFFICES ASSUME NEW i \in 1..m + 1 PROVE slice[i] = shown[i] OBVIOUS
        <5>1. mark + 1 + i - 1 = mark + i /\ mark + i \in 1..mark + (m + 1) /\ ~(mark + i <= mark)
              /\ (mark + i) - mark = i
          BY <2>1, <4>5
        <5> QED BY <4>2, <4>6, <5>1
      <4> QED BY <1>3, <1>4, <4>6, <4>7, SeqEqual
    <3> QED BY <3>1, <3>2
  <2> QED BY <1>4, <1>5, <1>7, <2>2 DEF m
<1> QED BY <1>6, <1>7

-----------------------------------------------------------------------------
(* A claimed divergence *)

\* Where the run is in the matrix, and which conditions it has had.
PlaceIsTrue ==
  /\ JobOK
  /\ at > 0 => Len(rows) = at - 1
  /\ mpc = "receive" => at <= Len(Matrix)
  /\ mpc = "classify" => Len(rows) = Len(Matrix)
  /\ Len(rows) <= Len(Matrix)
  /\ \A i \in 1..Len(rows) : rows[i].cell = Matrix[i]
  /\ \A i \in 1..Len(prime) : truth[i].cell.r = 0

\* The events of a row are the first steps of its own request.
OwnEvents(row) ==
  \E m \in 0..Len(Accepted(row.cell)) : row.events = [k \in 1..m |-> DraftEvent(row.cell, k)]

\* Each condition is measured once: the index holds its only row, and that is the
\* row of its only generation.
LEMMA IndexedOnce ==
  ASSUME RowsAreTrue, PlaceIsTrue, NEW c \in DOMAIN Indexed(rows)
  PROVE  \E m \in 1..Len(rows) :
           /\ rows[m].cell = c /\ Matrix[m] = c /\ Indexed(rows)[c] = rows[m] /\ ready(rows[m])
           /\ True(c) = truth[Len(prime) + m].tokens
<1> DEFINE good == {i \in DOMAIN rows : ready(rows[i])}
           Of(d) == {i \in good : rows[i].cell = d}
           Made == {i \in DOMAIN truth : truth[i].cell = c}
           cells == {rows[i].cell : i \in good}
           k == Len(prime)
           n == Len(rows)
<1>1. DOMAIN rows = 1..n /\ DOMAIN truth = 1..(k + n) /\ n \in Nat /\ k \in Nat
  <2>1. Listed(rows) /\ Listed(prime) /\ Listed(truth) /\ Len(truth) = k + n BY DEF RowsAreTrue
  <2> QED BY <2>1, ListedDomain DEF Listed
<1>2. Indexed(rows) = [d \in cells |-> rows[Max(Of(d))]] BY DEF Indexed
<1>3. c \in cells BY <1>2
<1>4. PICK m \in good : rows[m].cell = c BY <1>3
<1>5. m \in 1..n /\ ready(rows[m]) BY <1>1, <1>4
<1>6. /\ Len(Matrix) \in Nat /\ \A i \in 1..Len(Matrix) : Matrix[i].r \in Repeats
      /\ \A i, j \in 1..Len(Matrix) : Matrix[i] = Matrix[j] => i = j
  BY MatrixCells DEF PlaceIsTrue
<1>7. /\ n <= Len(Matrix) /\ \A i \in 1..n : rows[i].cell = Matrix[i]
      /\ \A i \in 1..k : truth[i].cell.r = 0
  BY DEF PlaceIsTrue
<1>8. \A i \in 1..n : i \in 1..Len(Matrix) BY <1>1, <1>6, <1>7
<1>9. \A i \in 1..n : rows[i].cell = c => i = m BY <1>4, <1>5, <1>6, <1>7, <1>8
<1>10. m \in Of(c) /\ \A y \in Of(c) : m >= y
  <2>1. \A y \in Of(c) : y = m BY <1>1, <1>9
  <2> QED BY <1>1, <1>4, <2>1
<1>11. Of(c) \in SUBSET Nat BY <1>1
<1>12. Max(Of(c)) = m
  <2> HIDE DEF Of
  <2> QED BY <1>10, <1>11, MaxIs
<1>13. Indexed(rows)[c] = rows[m] BY <1>2, <1>3, <1>12
<1>14. \A i \in 1..n : truth[k + i].cell = rows[i].cell BY DEF RowsAreTrue, RowIsOf
<1>15. ASSUME NEW y \in Made PROVE y = k + m
  <2>1. y \in 1..(k + n) /\ truth[y].cell = c BY <1>1
  <2>2. Matrix[m].r \in Repeats /\ c = Matrix[m] BY <1>4, <1>5, <1>6, <1>7, <1>8
  <2>3. y > k
    <3>1. ~(y \in 1..k) BY <1>7, <2>1, <2>2 DEF Repeats
    <3> QED BY <1>1, <2>1, <3>1
  <2>4. y - k \in 1..n /\ k + (y - k) = y BY <1>1, <2>1, <2>3
  <2>5. rows[y - k].cell = c BY <1>14, <2>1, <2>4
  <2>6. y - k = m BY <1>9, <2>4, <2>5
  <2> QED BY <1>1, <2>1, <2>6
<1>16. k + m \in Made BY <1>1, <1>4, <1>5, <1>14
<1>17. Made \in SUBSET Nat BY <1>1
<1>18. k + m \in Nat BY <1>1, <1>5
<1>19. Max(Made) = k + m
  <2> HIDE DEF Made
  <2>1. \A y \in Made : k + m >= y BY <1>15, <1>18
  <2> QED BY <1>16, <1>17, <2>1, MaxIs
<1>20. True(c) = truth[k + m].tokens BY <1>19 DEF True
<1> QED BY <1>4, <1>5, <1>7, <1>13, <1>20

\* What is read of such events: the tokens of the steps whose drafts were accepted
\* whole.
LEMMA BeforeStops ==
  ASSUME NEW cell, cell.n \in 0..3, NEW m \in 0..Len(Accepted(cell)), NEW events,
         events = [k \in 1..m |-> DraftEvent(cell, k)]
  PROVE  \E q \in 0..m :
           /\ outputs_before_first_rejection(events).minimum = Outputs(Accepted(cell), q)
           /\ \A k \in 1..q : Accepted(cell)[k] = cell.n
<1> DEFINE acc == Accepted(cell)
           stops == {i \in DOMAIN events : ~events[i].valid \/ events[i].partial}
           first == IF stops = {} THEN Len(events) + 1 ELSE Min(stops)
           totals == [i \in DOMAIN events |-> events[i].total]
<1>1. Len(acc) \in 0..4 /\ \A k \in 1..Len(acc) : acc[k] \in 0..cell.n BY AcceptedSteps
<1>2. m \in Nat /\ m <= Len(acc) BY <1>1
<1>3. events = [k \in 1..m |-> events[k]] OBVIOUS
<1>4. Len(events) = m /\ DOMAIN events = 1..m BY <1>2, <1>3, IsList
<1>5. \A k \in 1..m : /\ events[k].total = cell.n
                      /\ events[k].partial = (acc[k] < cell.n)
                      /\ events[k].valid = (cell.n > 0 /\ acc[k] <= cell.n)
  BY DEF DraftEvent
<1>6. outputs_before_first_rejection(events).minimum = Outputs(totals, first - 1)
  BY DEF outputs_before_first_rejection
<1>7. stops \in SUBSET (1..m) BY <1>4
<1>8. \A k \in 1..m : k \notin stops => acc[k] = cell.n
  <2> SUFFICES ASSUME NEW k \in 1..m, k \notin stops PROVE acc[k] = cell.n OBVIOUS
  <2>1. events[k].valid /\ ~events[k].partial BY <1>4
  <2>2. k \in 1..Len(acc) BY <1>1, <1>2
  <2>3. acc[k] \in 0..cell.n BY <1>1, <2>2
  <2>4. ~(acc[k] < cell.n) /\ acc[k] <= cell.n BY <1>5, <2>1
  <2> HIDE DEF acc
  <2> QED BY <2>3, <2>4
<1> HIDE DEF stops
<1>9. first - 1 \in 0..m /\ \A k \in 1..first - 1 : k \in 1..m /\ k \notin stops
  <2>1. CASE stops = {}
    <3>1. first - 1 = m BY <1>2, <1>4, <2>1
    <3> QED BY <1>2, <2>1, <3>1
  <2>2. CASE stops # {}
    <3>0. stops \in SUBSET Nat BY <1>7
    <3>1. Min(stops) \in stops /\ \A y \in stops : Min(stops) <= y BY <2>2, <3>0, MinIn
    <3>2. first = Min(stops) /\ first \in 1..m BY <1>7, <2>2, <3>1
    <3> QED BY <1>2, <1>7, <3>1, <3>2
  <2> QED BY <2>1, <2>2
<1> HIDE DEF first
<1> DEFINE q == first - 1
<1>10. q \in 0..m BY <1>9
<1>11. \A k \in 1..q : k \in 1..m /\ acc[k] = cell.n BY <1>8, <1>9
<1>12. \A k \in 1..q : totals[k] = cell.n BY <1>4, <1>5, <1>11
<1>13. Outputs(totals, q) = Outputs(acc, q)
  <2> HIDE DEF totals, q, acc
  <2>1. \A k \in 1..q : acc[k] \in 0..3 /\ totals[k] = acc[k] BY <1>11, <1>12
  <2>2. q \in Int BY <1>10
  <2> QED BY <2>1, <2>2, OutputsOfSteps
<1> HIDE DEF q
<1>14. Outputs(totals, first - 1) = Outputs(totals, q) BY DEF q
<1> QED BY <1>6, <1>10, <1>11, <1>13, <1>14

\* What the report says of a pair of conditions comes true.
ClaimOf(p) ==
  LET acc  == Accepted(p[2])
      step == StepOf(p[2], first_token_divergence(True(p[1]), True(p[2])))
  IN \A k \in 1..Min({step, Len(acc)}) : acc[k] = p[2].n

\* A pair whose divergence the log puts before the first rejected draft.
LEMMA ClaimFollows ==
  ASSUME RowsAreTrue, PlaceIsTrue, \A i \in 1..Len(rows) : OwnEvents(rows[i]),
         NEW p \in NmaxPairs(DOMAIN Indexed(rows)),
         BeforeRejection(Indexed(rows), p)
  PROVE  ClaimOf(p)
<1> DEFINE idx == Indexed(rows)
           left == p[1]
           right == p[2]
           acc == Accepted(right)
           d == first_token_divergence(True(left), True(right))
<1>1. ASSUME NEW c \in DOMAIN idx
      PROVE  /\ c \in Expected /\ IsCell(c) /\ OwnEvents(idx[c]) /\ idx[c].cell = c
             /\ ~c.s => SameIds(idx[c].trace, True(c)) /\ Len(True(c)) = 8
  <2>1. PICK m \in 1..Len(rows) :
          /\ rows[m].cell = c /\ Matrix[m] = c /\ idx[c] = rows[m] /\ ready(rows[m])
          /\ True(c) = truth[Len(prime) + m].tokens
    BY IndexedOnce
  <2>2. /\ Len(rows) \in Nat /\ Len(prime) \in Nat /\ Len(truth) = Len(prime) + Len(rows)
        /\ RowIsOf(rows[m], truth[Len(prime) + m])
        /\ \A i \in 1..Len(truth) : Generated(truth[i].tokens)
    BY DEF RowsAreTrue, Listed
  <2>3. Generated(True(c)) BY <2>1, <2>2
  <2>4. Len(True(c)) = 8 BY <2>3 DEF Generated
  <2>5. rows[m].ok BY <2>1 DEF ready
  <2>6. ~c.s => SameIds(idx[c].trace, True(c)) BY <2>1, <2>2, <2>5 DEF RowIsOf
  <2>7. c \in Expected /\ IsCell(c)
    <3>1. Listed(Matrix) /\ \A i \in 1..Len(Matrix) : IsCell(Matrix[i])
      BY MatrixCells DEF PlaceIsTrue
    <3>2. DOMAIN Matrix = 1..Len(Matrix) /\ Len(Matrix) \in Nat BY <3>1, ListedDomain DEF Listed
    <3>3. m \in 1..Len(Matrix) BY <2>2, <3>2 DEF PlaceIsTrue
    <3> QED BY <2>1, <3>1, <3>2, <3>3 DEF Expected
  <2> QED BY <2>1, <2>4, <2>6, <2>7
<1> HIDE DEF idx
<1>2. left \in DOMAIN idx /\ right \in DOMAIN idx /\ ~left.s /\ ~right.s
  <2> DEFINE cells == DOMAIN idx
  <2>1. p \in NmaxPairs(cells) BY DEF idx
  <2> HIDE DEF cells
  <2> DEFINE pairs == {<<Cell(t, 0, FALSE, r), Cell(t, n, FALSE, r)>> :
                         t \in {0, 1}, n \in 1..3, r \in Repeats}
  <2>0. \A c : NmaxPairs(c) = pairs \cap (c \X c) BY DEF NmaxPairs
  <2> HIDE DEF pairs
  <2>2. NmaxPairs(cells) \subseteq cells \X cells BY <2>0
  <2>3. left \in cells /\ right \in cells BY <2>1, <2>2
  <2>4. cells \subseteq Expected BY <1>1 DEF cells
  <2>5. cells \X cells \subseteq Expected \X Expected BY <2>4
  <2>6. NmaxPairs(cells) \subseteq NmaxPairs(Expected) BY <2>0, <2>5
  <2>7. p \in NmaxPairs(Expected) BY <2>1, <2>6
  <2>8. ~left.s /\ ~right.s BY <2>7, PairsAreTraces
  <2> QED BY <2>3, <2>8 DEF cells
<1>3. Divergence(idx, p) = d /\ d \in Int
  <2>1. /\ SameIds(idx[left].trace, True(left)) /\ Len(True(left)) = 8
        /\ SameIds(idx[right].trace, True(right)) /\ Len(True(right)) = 8
    BY <1>1, <1>2
  <2>2. Len(idx[left].trace) = 8 /\ Len(idx[right].trace) = 8 BY <2>1 DEF SameIds
  <2>3. Divergence(idx, p) = first_token_divergence(idx[left].trace, idx[right].trace)
    BY DEF Divergence
  <2> QED BY <2>1, <2>2, <2>3, SameDivergence
<1>4. /\ OwnEvents(idx[right]) /\ idx[right].cell = right /\ right.n \in 0..3
  BY <1>1, <1>2 DEF IsCell
<1>5. PICK m \in 0..Len(acc) : idx[right].events = [k \in 1..m |-> DraftEvent(right, k)]
  BY <1>4 DEF OwnEvents
<1>6. PICK q \in 0..m :
        /\ outputs_before_first_rejection(idx[right].events).minimum = Outputs(acc, q)
        /\ \A k \in 1..q : acc[k] = right.n
  BY <1>4, <1>5, BeforeStops
<1>7. d < Outputs(acc, q) BY <1>3, <1>6 DEF BeforeRejection, idx
<1>8. Len(acc) \in Nat /\ q \in 0..Len(acc) /\ q \in Nat
  <2>1. Len(acc) \in 0..4 BY <1>4, AcceptedSteps
  <2> HIDE DEF acc
  <2> QED BY <1>5, <1>6, <2>1
<1>9. Outputs(acc, q) \in Nat
  <2>1. \A k \in 1..Len(acc) : acc[k] \in 0..right.n BY <1>4, AcceptedSteps
  <2>2. \A k \in 1..q : acc[k] \in 0..3 BY <1>4, <1>8, <2>1
  <2> HIDE DEF acc
  <2>3. \A k \in 1..q : acc[k] \in 0..3 /\ acc[k] = acc[k] BY <2>2
  <2>4. q \in Int /\ 3 \in Nat BY <1>8
  <2> QED BY <2>3, <2>4, OutputsOfSteps
<1> DEFINE covering == {k \in 0..Len(acc) : d < 1 + Outputs(acc, k)}
           step == StepOf(right, d)
<1>10. q \in covering /\ covering \in SUBSET Nat
  <2> HIDE DEF d, acc
  <2>1. d < 1 + Outputs(acc, q) BY <1>3, <1>7, <1>9
  <2> QED BY <1>8, <2>1
<1>11. step = Min(covering)
  <2>1. step = IF covering = {} THEN Len(acc) + 1 ELSE Min(covering) BY DEF StepOf
  <2> HIDE DEF step
  <2> QED BY <1>10, <2>1
<1>12. step \in Nat /\ step <= q
  <2> HIDE DEF covering, step
  <2> QED BY <1>10, <1>11, MinIn
<1>13. Min({step, Len(acc)}) \in Nat /\ Min({step, Len(acc)}) <= step
  <2> HIDE DEF step, acc
  <2> QED BY <1>8, <1>12, MinIn
<1>14. \A k \in 1..Min({step, Len(acc)}) : acc[k] = right.n
  <2> HIDE DEF step, acc
  <2> QED BY <1>6, <1>8, <1>12, <1>13
<1> QED BY <1>14 DEF ClaimOf

-----------------------------------------------------------------------------
(* The claims of a run *)

\* A slice that could not be read has none either.
LEMMA FailedRead == parse_draft_acceptance_events(CaptureFailed) = <<>>
<1>1. DOMAIN CaptureFailed = {1} /\ CaptureFailed[1].kind = "failed" BY DEF CaptureFailed
<1>2. {i \in DOMAIN CaptureFailed : CaptureFailed[i].kind = "draft"} = {} BY <1>1
<1> DEFINE drafts == Picked(CaptureFailed, {i \in DOMAIN CaptureFailed : CaptureFailed[i].kind = "draft"})
<1>3. drafts = <<>> BY <1>2, PickedNone
<1>4. parse_draft_acceptance_events(CaptureFailed) =
        [i \in DOMAIN drafts |->
           [accepted |-> drafts[i].accepted, total |-> drafts[i].total,
            partial |-> drafts[i].accepted < drafts[i].total,
            valid |-> drafts[i].total > 0 /\ drafts[i].accepted <= drafts[i].total]]
  BY DEF parse_draft_acceptance_events
<1> HIDE DEF drafts
<1>5. DOMAIN drafts = {} BY <1>3
<1> QED BY <1>4, <1>5

\* The log is a log, and a request in flight was marked at its end, or else the slice
\* is known to be unsound.
LogIsTrue ==
  /\ log \in Seq(Line) /\ late \in Seq(Line)
  /\ mpc = "receive" /\ sound_log => mark = IF job.log THEN Len(log) ELSE NoValue

ClaimInv ==
  /\ PlaceIsTrue /\ LogIsTrue
  /\ sound_log => \A i \in 1..Len(rows) : OwnEvents(rows[i])
  /\ sound_log => \A p \in report.claimed : ClaimOf(p)

\* The condition in hand, and the row and the generation it gives.
LEMMA ConditionIs ==
  ASSUME PlaceIsTrue, RowsAreTrue, mpc = "receive"
  PROVE  /\ IsCell(Condition)
         /\ at > 0 => Condition = Matrix[at] /\ at \in 1..Len(Matrix)
         /\ ~(at > 0) => Condition.r = 0
<1>1. at \in Int /\ at <= Len(Matrix) /\ JobOK BY DEF PlaceIsTrue, RowsAreTrue
<1>2. /\ Len(Matrix) \in Nat \ {0} /\ \A i \in 1..Len(Matrix) : IsCell(Matrix[i])
  BY <1>1, MatrixCells
<1>3. CASE at > 0
  <2>1. Condition = Matrix[at] /\ at \in 1..Len(Matrix) BY <1>1, <1>2, <1>3 DEF Condition
  <2> QED BY <1>2, <1>3, <2>1
<1>4. CASE ~(at > 0)
  <2>1. Condition = [r |-> 0, t |-> 0, n |-> job.prime_n, s |-> FALSE] BY <1>4 DEF Condition
  <2> QED BY <1>1, <1>4, <2>1 DEF JobOK, IsCell
<1> QED BY <1>3, <1>4

\* An answer moves on in the matrix.
LEMMA PlaceKept ==
  ASSUME MtpInv, PlaceIsTrue, NEW f, Receive(f)
  PROVE  PlaceIsTrue'
<1> DEFINE cell   == Condition
           tokens == IF f = "glitch" THEN Tokens(3, 0) ELSE Generation(cell)
           lines  == late \o <<[kind |-> "request"]>> \o DraftLines(cell)
           shown  == IF f = "late" THEN Front(lines) ELSE lines
           log2   == IF f = "rotated" THEN lines ELSE log \o shown
           row    == Row(cell, tokens, f, server_log_since(log2, mark, f # "unread"))
           entry  == [cell |-> cell, tokens |-> tokens]
<1>1. /\ mpc = "receive" /\ truth' = Append(truth, entry) /\ at' = at + 1
      /\ IF at > 0 THEN rows' = Append(rows, row) /\ UNCHANGED prime
                   ELSE prime' = Append(prime, row) /\ UNCHANGED rows
      /\ mpc' # "receive"
      /\ mpc' = "classify" => at = Len(Matrix)
      /\ job' = job
  BY DEF Receive, Exit
<1>2. row.cell = cell /\ entry.cell = cell BY DEF Row
<1>3. /\ IsCell(cell)
      /\ at > 0 => cell = Matrix[at] /\ at \in 1..Len(Matrix)
      /\ ~(at > 0) => cell.r = 0
  BY <1>1, ConditionIs DEF MtpInv
<1> HIDE DEF row, entry, cell
<1>4. /\ Listed(rows) /\ Listed(prime) /\ Listed(truth) /\ at \in Int
      /\ at <= 0 => rows = <<>>
      /\ Len(truth) = Len(prime) + Len(rows)
      /\ Len(rows) \in Nat /\ Len(prime) \in Nat /\ Len(truth) \in Nat
  BY DEF MtpInv, RowsAreTrue, Listed
<1>5. /\ Len(truth') = Len(truth) + 1 /\ truth'[Len(truth) + 1] = entry
      /\ \A i \in 1..Len(truth) : truth'[i] = truth[i]
  BY <1>1, <1>4, ListedAppend
<1>6. JobOK' /\ Matrix' = Matrix BY <1>1 DEF PlaceIsTrue, JobOK, Matrix
<1>7. /\ at > 0 => Len(rows) = at - 1
      /\ Len(rows) <= Len(Matrix)
      /\ \A i \in 1..Len(rows) : rows[i].cell = Matrix[i]
      /\ \A i \in 1..Len(prime) : truth[i].cell.r = 0
      /\ Len(Matrix) \in Nat \ {0}
  BY MatrixCells DEF PlaceIsTrue
<1>8. CASE at > 0
  <2>1. rows' = Append(rows, row) /\ prime' = prime BY <1>1, <1>8
  <2>2. /\ Len(rows') = Len(rows) + 1 /\ rows'[Len(rows) + 1] = row
        /\ \A i \in 1..Len(rows) : rows'[i] = rows[i]
    BY <1>4, <2>1, ListedAppend
  <2>3. Len(rows') = at /\ at' - 1 = at /\ at \in 1..Len(Matrix)
    <3>1. Len(rows) = at - 1 /\ Len(rows') = Len(rows) + 1 /\ at' = at + 1 /\ at \in Int
      BY <1>1, <1>4, <1>7, <1>8, <2>2
    <3>2. Len(rows') = at BY <3>1
    <3>3. at' - 1 = at BY <3>1
    <3> QED BY <1>3, <1>8, <3>2, <3>3
  <2>4. \A i \in 1..Len(rows') : rows'[i].cell = Matrix[i]
    <3> SUFFICES ASSUME NEW i \in 1..Len(rows') PROVE rows'[i].cell = Matrix[i] OBVIOUS
    <3>1. i \in 1..Len(rows) \/ i = Len(rows) + 1 BY <1>4, <2>2
    <3>2. CASE i \in 1..Len(rows) BY <1>7, <2>2, <3>2
    <3>3. CASE i = Len(rows) + 1
      <4>1. i = at BY <1>4, <2>2, <2>3, <3>3
      <4>2. rows'[i] = row BY <2>2, <3>3
      <4>3. Matrix[i] = cell BY <1>3, <1>8, <4>1
      <4> QED BY <1>2, <4>2, <4>3
    <3> QED BY <3>1, <3>2, <3>3
  <2>5. \A i \in 1..Len(prime') : truth'[i].cell.r = 0
    <3>1. \A i \in 1..Len(prime') : i \in 1..Len(prime) /\ i \in 1..Len(truth) BY <1>4, <2>1
    <3> QED BY <1>5, <1>7, <3>1
  <2> QED BY <1>1, <1>6, <1>7, <2>3, <2>4, <2>5 DEF PlaceIsTrue
<1>9. CASE ~(at > 0)
  <2>1. prime' = Append(prime, row) /\ rows' = rows /\ rows = <<>> BY <1>1, <1>4, <1>9
  <2>2. Len(prime') = Len(prime) + 1 /\ Len(rows) = 0 BY <1>4, <2>1, ListedAppend
  <2>3. \A i \in 1..Len(prime') : truth'[i].cell.r = 0
    <3> SUFFICES ASSUME NEW i \in 1..Len(prime') PROVE truth'[i].cell.r = 0 OBVIOUS
    <3>1. Len(truth) = Len(prime) BY <1>4, <2>2
    <3>2. i \in 1..Len(prime) \/ i = Len(truth) + 1 BY <1>4, <2>2, <3>1
    <3>3. CASE i \in 1..Len(prime) BY <1>5, <1>7, <3>1, <3>3
    <3>4. CASE i = Len(truth) + 1 BY <1>2, <1>3, <1>5, <1>9, <3>4
    <3> QED BY <3>2, <3>3, <3>4
  <2>4. at' > 0 => Len(rows') = at' - 1 BY <1>1, <1>4, <1>9, <2>1, <2>2
  <2>5. mpc' # "classify" BY <1>1, <1>4, <1>7, <1>9
  <2>6. Len(rows') <= Len(Matrix') /\ \A i \in 1..Len(rows') : rows'[i].cell = Matrix'[i]
    BY <1>6, <1>7, <2>1
  <2> QED BY <1>1, <1>6, <2>3, <2>4, <2>5, <2>6 DEF PlaceIsTrue
<1> QED BY <1>8, <1>9

\* It adds a row of its own request's events, if its slice is its own.
LEMMA EventsKept ==
  ASSUME MtpInv, ClaimInv, NEW f, Receive(f), sound_log'
  PROVE  \A i \in 1..Len(rows') : OwnEvents(rows'[i])
<1> DEFINE cell   == Condition
           tokens == IF f = "glitch" THEN Tokens(3, 0) ELSE Generation(cell)
           slice  == server_log_since(LogAfter(cell, f), mark, f # "unread")
           row    == Row(cell, tokens, f, slice)
<1>1. /\ mpc = "receive"
      /\ IF at > 0 THEN rows' = Append(rows, row) ELSE UNCHANGED rows
      /\ sound_log /\ late = <<>> /\ (f = "rotated" => Len(Lines(cell)) < mark)
      /\ f = "late" => DraftLines(cell) # <<>>
  BY DEF Receive, Lines, Request, ShownLines, LogAfter
<1>2. row.cell = cell /\ row.events = parse_draft_acceptance_events(slice) BY DEF Row
<1>3. OwnEvents(row)
  <2>1. cell.n \in 0..3 BY <1>1, ConditionIs DEF MtpInv, ClaimInv, IsCell
  <2>2. log \in Seq(Line) /\ mark = IF job.log THEN Len(log) ELSE NoValue
    BY <1>1 DEF ClaimInv, LogIsTrue
  <2> HIDE DEF cell, slice, row
  <2>3. \/ slice \in {<<>>, CaptureFailed}
        \/ \E m \in 0..Len(Accepted(cell)) : OwnLines(slice, cell, m)
    <3>1. CASE f = "unread" BY <3>1 DEF slice, server_log_since
    <3>2. CASE f # "unread" BY <1>1, <2>1, <2>2, <3>2, OwnSlice DEF slice
    <3> QED BY <3>1, <3>2
  <2>4. CASE slice \in {<<>>, CaptureFailed}
    <3>1. row.events = <<>> BY <1>2, <2>4, NoLinesRead, FailedRead
    <3>2. row.events = [k \in 1..0 |-> DraftEvent(cell, k)] BY <3>1
    <3>3. 0 \in 0..Len(Accepted(cell))
      <4>1. Len(Accepted(cell)) \in 0..4 BY <2>1, AcceptedSteps
      <4> QED BY <4>1
    <3> QED BY <1>2, <3>2, <3>3 DEF OwnEvents
  <2>5. ASSUME NEW m \in 0..Len(Accepted(cell)), OwnLines(slice, cell, m) PROVE OwnEvents(row)
    <3>0. m \in Nat
      <4>1. Len(Accepted(cell)) \in 0..4 BY <2>1, AcceptedSteps
      <4> QED BY <4>1
    <3>1. row.events = [k \in 1..m |-> DraftEvent(cell, k)] BY <1>2, <2>5, <3>0, OwnLinesRead
    <3> QED BY <1>2, <3>1 DEF OwnEvents
  <2> QED BY <2>3, <2>4, <2>5
<1> HIDE DEF row
<1>4. Listed(rows) /\ Len(rows) \in Nat /\ \A i \in 1..Len(rows) : OwnEvents(rows[i])
  BY <1>1 DEF MtpInv, RowsAreTrue, ClaimInv, Listed
<1>5. CASE at > 0
  <2>1. /\ Len(rows') = Len(rows) + 1 /\ rows'[Len(rows) + 1] = row
        /\ \A i \in 1..Len(rows) : rows'[i] = rows[i]
    BY <1>1, <1>4, <1>5, ListedAppend
  <2> SUFFICES ASSUME NEW i \in 1..Len(rows') PROVE OwnEvents(rows'[i]) OBVIOUS
  <2>2. i \in 1..Len(rows) \/ i = Len(rows) + 1 BY <1>4, <2>1
  <2> QED BY <1>3, <1>4, <2>1, <2>2
<1>6. CASE ~(at > 0) BY <1>1, <1>4, <1>6
<1> QED BY <1>5, <1>6

\* A report claims what comes true.
LEMMA ReportClaims ==
  ASSUME RowsAreTrue, ClaimInv, sound_log, NEW ref
  PROVE  \A p \in classify_run(rows, ref).claimed : ClaimOf(p)
<1> SUFFICES ASSUME NEW p \in classify_run(rows, ref).claimed PROVE ClaimOf(p) OBVIOUS
<1> DEFINE idx == Indexed(rows)
           pairs == NmaxPairs(DOMAIN idx)
<1>1. classify_run(rows, ref).claimed = {q \in Divergent(idx, pairs) : BeforeRejection(idx, q)}
  BY DEF classify_run
<1>2. p \in Divergent(idx, pairs) /\ BeforeRejection(idx, p) BY <1>1
<1>3. p \in pairs BY <1>2 DEF Divergent
<1>4. PlaceIsTrue /\ \A i \in 1..Len(rows) : OwnEvents(rows[i]) BY DEF ClaimInv
<1> QED BY <1>2, <1>3, <1>4, ClaimFollows

\* The parts of the invariant that a step leaves alone with what they read.
LEMMA ClaimsStay ==
  ASSUME ClaimInv, UNCHANGED <<job, rows, prime, truth, at>>, sound_log' => sound_log,
         mpc' = "classify" => mpc = "classify", mpc' = "receive" => at <= Len(Matrix)
  PROVE  /\ PlaceIsTrue'
         /\ sound_log' => \A i \in 1..Len(rows') : OwnEvents(rows'[i])
         /\ \A p : ClaimOf(p)' <=> ClaimOf(p)
<1>1. Matrix' = Matrix BY DEF Matrix
<1>2. PlaceIsTrue' BY <1>1 DEF ClaimInv, PlaceIsTrue, JobOK
<1>3. sound_log' => \A i \in 1..Len(rows') : OwnEvents(rows'[i]) BY DEF ClaimInv
<1>4. \A c : True(c)' = True(c) BY DEF True
<1>5. \A p : ClaimOf(p)' <=> ClaimOf(p) BY <1>4 DEF ClaimOf
<1> QED BY <1>2, <1>3, <1>5

\* Before the first request nothing is claimed.
LEMMA ClaimStart == MtpInit => ClaimInv
<1> SUFFICES ASSUME MtpInit PROVE ClaimInv OBVIOUS
<1>1. /\ rows = <<>> /\ prime = <<>> /\ truth = <<>> /\ at = 1 - job.primes /\ mpc = "start"
      /\ log = <<[kind |-> "startup"]>> /\ late = <<>> /\ report = NoReport
  BY DEF MtpInit
<1>2. JobOK
  <2>1. PICK c \in DiagCases : job = c[1] BY DEF MtpInit
  <2> QED BY <2>1, DiagAssumption DEF JobOK
<1>3. Len(rows) = 0 /\ Len(prime) = 0 BY <1>1
<1>4. Len(Matrix) \in Nat BY <1>2, MatrixCells
<1>5. at > 0 => Len(rows) = at - 1 BY <1>1, <1>2, <1>3 DEF JobOK
<1>6. PlaceIsTrue BY <1>1, <1>2, <1>3, <1>4, <1>5 DEF PlaceIsTrue
<1>7. LogIsTrue BY <1>1 DEF LogIsTrue, Line
<1>8. report.claimed = {} BY <1>1 DEF NoReport
<1> QED BY <1>3, <1>6, <1>7, <1>8 DEF ClaimInv

\* No step of a run leaves the invariant.
LEMMA ClaimStep == MtpInv /\ ClaimInv /\ [MtpNext]_mtp_vars => ClaimInv'
<1> SUFFICES ASSUME MtpInv, ClaimInv, [MtpNext]_mtp_vars PROVE ClaimInv' OBVIOUS
<1>1. /\ PlaceIsTrue /\ LogIsTrue /\ RowsAreTrue
      /\ sound_log => \A p \in report.claimed : ClaimOf(p)
  BY DEF ClaimInv, MtpInv
<1>2. CASE Start
  <2>1. UNCHANGED <<job, rows, prime, truth, at, log, late, sound_log, report>>
        /\ mpc' \in {"exit", "send"}
    BY <1>2 DEF Start, Exit
  <2>2. LogIsTrue' BY <1>1, <2>1 DEF LogIsTrue
  <2> QED BY <1>1, <2>1, <2>2, ClaimsStay DEF ClaimInv
<1>3. CASE Send
  <2>1. UNCHANGED <<job, rows, prime, truth, at, log, late, sound_log, report>>
        /\ mpc' = "receive" /\ at <= Len(Matrix)
        /\ mark' = IF job.log THEN Len(log) ELSE NoValue
    BY <1>3 DEF Send, server_log_mark
  <2>2. LogIsTrue' BY <1>1, <2>1 DEF LogIsTrue
  <2> QED BY <1>1, <2>1, <2>2, ClaimsStay DEF ClaimInv
<1>10. CASE SendUnmarked
  <2>1. /\ UNCHANGED <<job, rows, prime, truth, at, late, report>>
        /\ mpc' = "receive" /\ at <= Len(Matrix) /\ job.log /\ mark' = 0
        /\ \/ log' = <<>> /\ UNCHANGED sound_log
           \/ sound_log' = FALSE /\ UNCHANGED log
    BY <1>10 DEF SendUnmarked, server_log_mark
  <2>2. LogIsTrue'
    <3>0. log \in Seq(Line) /\ late \in Seq(Line) /\ <<>> \in Seq(Line)
      <4>1. log \in Seq(Line) /\ late \in Seq(Line) BY <1>1 DEF LogIsTrue
      <4> QED BY <4>1
    <3>1. log' \in Seq(Line) /\ late' \in Seq(Line) BY <2>1, <3>0
    <3>2. CASE log' = <<>>
      <4>1. Len(log') = 0 BY <3>2
      <4> QED BY <2>1, <3>1, <4>1 DEF LogIsTrue
    <3>3. CASE sound_log' = FALSE BY <3>1, <3>3 DEF LogIsTrue
    <3> QED BY <2>1, <3>2, <3>3
  <2>3. sound_log' => sound_log BY <2>1
  <2> QED BY <1>1, <2>1, <2>2, <2>3, ClaimsStay DEF ClaimInv
<1>4. CASE Abort
  <2>1. UNCHANGED <<job, rows, prime, truth, at, log, late, sound_log, report>> /\ mpc' = "exit"
    BY <1>4 DEF Abort, Exit
  <2>2. LogIsTrue' BY <1>1, <2>1 DEF LogIsTrue
  <2> QED BY <1>1, <2>1, <2>2, ClaimsStay DEF ClaimInv
<1>5. CASE Flush
  <2>1. UNCHANGED <<job, rows, prime, truth, at, sound_log, report>> /\ mpc' = "send"
        /\ log' = log \o late /\ late' = <<>>
    BY <1>5 DEF Flush
  <2>2. LogIsTrue' BY <1>1, <2>1, ConcatProperties DEF LogIsTrue
  <2> QED BY <1>1, <2>1, <2>2, ClaimsStay DEF ClaimInv
<1>6. CASE Classify
  <2> DEFINE ref == job.ref # "none"
  <2>1. UNCHANGED <<job, rows, prime, truth, at, log, late, sound_log>> /\ mpc' = "exit"
        /\ report' = classify_run(rows, ref)
    BY <1>6 DEF Classify, Exit
  <2>2. LogIsTrue' BY <1>1, <2>1 DEF LogIsTrue
  <2> HIDE DEF ref
  <2>3. sound_log => \A p \in report'.claimed : ClaimOf(p) BY <1>1, <2>1, ReportClaims
  <2> QED BY <2>1, <2>2, <2>3, ClaimsStay DEF ClaimInv
<1>7. CASE command_reclassify
  <2>1. UNCHANGED <<job, rows, prime, truth, at, log, late, sound_log>> /\ mpc' = "reclassified"
        /\ \E ref \in BOOLEAN : report' = classify_run(rows, ref)
    BY <1>7 DEF command_reclassify
  <2>2. LogIsTrue' BY <1>1, <2>1 DEF LogIsTrue
  <2>3. sound_log => \A p \in report'.claimed : ClaimOf(p) BY <1>1, <2>1, ReportClaims
  <2> QED BY <2>1, <2>2, <2>3, ClaimsStay DEF ClaimInv
<1>8. ASSUME NEW f, Receive(f) PROVE ClaimInv'
  <2>1. mpc = "receive" /\ mpc' # "receive" /\ UNCHANGED report BY <1>8 DEF Receive, Exit
  <2>2. report = NoReport BY <2>1 DEF MtpInv
  <2>3. report'.claimed = {} BY <2>1, <2>2 DEF NoReport
  <2>4. log' = LogAfter(Condition, f)
        /\ late' = IF f = "late" THEN <<Last(Lines(Condition))>> ELSE <<>>
    BY <1>8 DEF Receive, Lines, Request, ShownLines, LogAfter
  <2>5. Condition.n \in 0..3 BY <1>1, <2>1, ConditionIs DEF IsCell
  <2>6. LogAfter(Condition, f) \in Seq(Line) /\ <<Last(Lines(Condition))>> \in Seq(Line)
    BY <1>1, <2>5, LogTyped DEF LogIsTrue
  <2>7. LogIsTrue' BY <2>1, <2>4, <2>6 DEF LogIsTrue
  <2>8. PlaceIsTrue' BY <1>1, <1>8, PlaceKept
  <2>9. sound_log' => \A i \in 1..Len(rows') : OwnEvents(rows'[i]) BY <1>8, EventsKept
  <2> QED BY <2>3, <2>7, <2>8, <2>9 DEF ClaimInv
<1>9. CASE UNCHANGED mtp_vars
  <2>1. UNCHANGED <<job, rows, prime, truth, at, log, late, sound_log, report, mpc, mark>>
    BY <1>9 DEF mtp_vars
  <2>2. LogIsTrue' BY <1>1, <2>1 DEF LogIsTrue
  <2> QED BY <1>1, <2>1, <2>2, ClaimsStay DEF ClaimInv, PlaceIsTrue
<1> QED BY <1>2, <1>3, <1>4, <1>5, <1>6, <1>7, <1>8, <1>9, <1>10 DEF MtpNext

\* pre_rejection_analysis of qwen_mtp_diag.py: when no line of the log has reached the
\* slice of another request, a divergence it puts before the first rejected draft came
\* in steps whose drafts were all accepted.
THEOREM ClaimTrue == MtpSpec => []ClaimIsTrue
<1>1. MtpInit => MtpInv /\ ClaimInv BY MtpStart, ClaimStart
<1>2. MtpInv /\ ClaimInv /\ [MtpNext]_mtp_vars => (MtpInv /\ ClaimInv)' BY MtpStep, ClaimStep
<1>3. ClaimInv => ClaimIsTrue BY DEF ClaimInv, ClaimOf, ClaimIsTrue
<1> QED BY <1>1, <1>2, <1>3, PTL DEF MtpSpec

-----------------------------------------------------------------------------
(* A sound server whose answers all arrive *)

\* The tokens of the reference, and the text made from them.
Ideal == Tokens(NoValue, 0)
IdealText == [i \in 1..8 |-> i]

\* The row of an answer that arrived.
IsIdeal(row) ==
  /\ row.ok /\ row.fresh /\ row.logged
  /\ row.request = build_payload(row.cell, 0)
  /\ ~row.cell.s => row.trace = Ideal
  /\ row.message = IdealText /\ row.finish = "stop" /\ row.contract = {}
  /\ row.draft_n = row.cell.n * 3
  /\ row.events = [k \in 1..Len(Accepted(row.cell)) |-> DraftEvent(row.cell, k)]

\* The tokens have their ids.
LEMMA IdealTokens ==
  /\ Listed(Ideal) /\ Len(Ideal) = 8 /\ DOMAIN Ideal = 1..8 /\ \A i \in 1..8 : Ideal[i].id = i
  /\ Ideal # <<>> /\ ~token_identity_error(Ideal)
<1> DEFINE token(i) == [id |-> IF NoValue # NoValue /\ i > NoValue THEN 10 + i ELSE i,
                        top |-> TRUE, score |-> IF i = 1 THEN 0 ELSE 0]
<1>1. Generated(Ideal) BY EightTokens DEF Ideal
<1>2. Listed(Ideal) /\ Len(Ideal) = 8 /\ DOMAIN Ideal = 1..8 BY <1>1, ListedDomain DEF Generated
<1>3. Ideal = [i \in 1..8 |-> token(i)] BY DEF Ideal, Tokens
<1>4. \A i : token(i).id = i OBVIOUS
<1> HIDE DEF token
<1>5. \A i \in 1..8 : Ideal[i].id = i BY <1>3, <1>4
<1>6. ~token_identity_error(Ideal) BY <1>2, <1>5 DEF token_identity_error, NoValue
<1>7. Ideal # <<>>
  <2>1. 1 \in DOMAIN Ideal BY <1>2
  <2> QED BY <2>1
<1> QED BY <1>2, <1>5, <1>6, <1>7

\* A sound server generates them, whatever it is asked.
LEMMA SoundGeneration ==
  ASSUME server.kind = "sound", NEW cell
  PROVE  Generation(cell) = Ideal /\ Finish = "stop"
<1>1. ~Departs(cell) BY DEF Departs
<1> QED BY <1>1 DEF Generation, Finish, Ideal

\* The blocks of a stream: a delta for each token, the final event, the end.
LEMMA IdealStream ==
  ASSUME server.kind = "sound", NEW cell
  PROVE  LET blocks == Stream(cell, Ideal, "none")
             totals == Totals(cell, Ideal, "none")
         IN /\ Listed(blocks) /\ Len(blocks) = 10
            /\ \A i \in 1..8 : blocks[i] = Event(i, "none", totals)
            /\ blocks[9] = Event(NoValue, "stop", totals)
            /\ blocks[10] = [kind |-> "done"]
<1> DEFINE blocks == Stream(cell, Ideal, "none")
           totals == Totals(cell, Ideal, "none")
           deltas == [i \in DOMAIN Ideal |-> Event(Ideal[i].id, "none", totals)]
           final == Event(NoValue, "stop", totals)
           done == [kind |-> "done"]
           S == {deltas[i] : i \in 1..8} \cup {final, done}
<1>1. Finish = "stop" BY SoundGeneration
<1>2. blocks = deltas \o <<>> \o <<final>> \o <<done>> BY <1>1 DEF Stream
<1>3. deltas = [i \in 1..8 |-> deltas[i]] /\ \A i \in 1..8 : deltas[i] = Event(i, "none", totals)
  BY IdealTokens
<1> HIDE DEF blocks, totals, deltas, final, done
<1>4. \A i \in 1..8 : deltas[i] \in S OBVIOUS
<1>5. final \in S /\ done \in S OBVIOUS
<1> HIDE DEF S
<1>6. deltas \in Seq(S) /\ Len(deltas) = 8
  <2>1. [i \in 1..8 |-> deltas[i]] \in Seq(S) BY <1>4, IsASeq
  <2> QED BY <1>3, <2>1, LenProperties
<1> DEFINE two == Append(deltas, final)
<1>7. blocks = Append(two, done)
  <2>1. deltas \o <<>> = deltas BY <1>6, ConcatEmptySeq
  <2>2. deltas \o <<final>> = two BY <1>5, <1>6, AppendIsConcat
  <2>3. two \in Seq(S) BY <1>5, <1>6, AppendProperties
  <2> HIDE DEF two
  <2>4. two \o <<done>> = Append(two, done) BY <1>5, <2>3, AppendIsConcat
  <2> QED BY <1>2, <2>1, <2>2, <2>4
<1>8. two \in Seq(S) /\ Len(two) = 9 /\ two[9] = final /\ \A i \in 1..8 : two[i] = deltas[i]
  <2>1. /\ two \in Seq(S) /\ Len(two) = Len(deltas) + 1
        /\ \A i \in 1..Len(deltas) : two[i] = deltas[i]
        /\ two[Len(deltas) + 1] = final
    <3>1. deltas \in Seq(S) /\ final \in S BY <1>5, <1>6
    <3> QED BY <3>1, AppendProperties
  <2> HIDE DEF two
  <2> QED BY <1>6, <2>1
<1> HIDE DEF two
<1>9. /\ blocks \in Seq(S) /\ Len(blocks) = 10 /\ blocks[10] = done
      /\ \A i \in 1..9 : blocks[i] = two[i]
  <2>1. /\ Append(two, done) \in Seq(S) /\ Len(Append(two, done)) = Len(two) + 1
        /\ \A i \in 1..Len(two) : Append(two, done)[i] = two[i]
        /\ Append(two, done)[Len(two) + 1] = done
    <3>1. two \in Seq(S) /\ done \in S BY <1>5, <1>8
    <3> QED BY <3>1, AppendProperties
  <2> QED BY <1>7, <1>8, <2>1
<1>10. Listed(blocks)
  <2>1. blocks \in [1..Len(blocks) -> S] BY <1>9, LenProperties
  <2> QED BY <1>9, <2>1 DEF Listed
<1>11. blocks[9] = final /\ \A i \in 1..8 : blocks[i] = Event(i, "none", totals)
  BY <1>3, <1>8, <1>9
<1> QED BY <1>9, <1>10, <1>11 DEF blocks, final, totals, done

\* What is read of them.
LEMMA IdealParsed ==
  ASSUME server.kind = "sound", NEW cell
  PROVE  LET sse == parse_sse(Stream(cell, Ideal, "none"))
             p == reconstruct_sse(sse.events)
         IN /\ sse.done /\ ~sse.errors
            /\ p.message = IdealText /\ p.finish = "stop" /\ p.finishes = 1
            /\ p.cache_n = 0 /\ p.cached = 0 /\ p.draft_n = cell.n * 3
<1> DEFINE blocks == Stream(cell, Ideal, "none")
           totals == Totals(cell, Ideal, "none")
           sse == parse_sse(blocks)
           events == sse.events
           shown == {i \in DOMAIN blocks : blocks[i].kind = "event"}
           worded == {i \in DOMAIN events : events[i].text # NoValue}
           finishes == {i \in DOMAIN events : events[i].finish # "none"}
           usages == {i \in DOMAIN events : events[i].usage}
           deltas == Picked(events, worded)
           p == reconstruct_sse(events)
<1>1. /\ Listed(blocks) /\ Len(blocks) = 10
      /\ \A i \in 1..8 : blocks[i] = Event(i, "none", totals)
      /\ blocks[9] = Event(NoValue, "stop", totals) /\ blocks[10] = [kind |-> "done"]
  BY IdealStream
<1>2. DOMAIN blocks = 1..10 BY <1>1, ListedDomain
<1>3. totals.cache_n = 0 /\ totals.cached = 0 /\ totals.draft_n = cell.n * 3 BY DEF Totals
<1> HIDE DEF blocks, totals
<1>4. \A text, finish : /\ Event(text, finish, totals).kind = "event"
                        /\ Event(text, finish, totals).text = text
                        /\ Event(text, finish, totals).finish = finish
                        /\ Event(text, finish, totals).usage <=> finish # "none"
                        /\ Event(text, finish, totals).totals = totals
  BY DEF Event
<1>5. /\ \A i \in 1..8 : /\ blocks[i].kind = "event" /\ blocks[i].text = i
                         /\ blocks[i].finish = "none" /\ ~blocks[i].usage
      /\ blocks[9].kind = "event" /\ blocks[9].text = NoValue /\ blocks[9].finish = "stop"
      /\ blocks[9].usage /\ blocks[9].totals = totals
      /\ blocks[10].kind = "done"
  <2>1. \A i \in 1..8 : /\ blocks[i].kind = "event" /\ blocks[i].text = i
                         /\ blocks[i].finish = "none" /\ ~blocks[i].usage
    BY <1>1, <1>4
  <2>2. /\ blocks[9].kind = "event" /\ blocks[9].text = NoValue /\ blocks[9].finish = "stop"
        /\ blocks[9].usage /\ blocks[9].totals = totals
    BY <1>1, <1>4
  <2>3. blocks[10].kind = "done" BY <1>1
  <2> QED BY <2>1, <2>2, <2>3
<1>6. shown = 1..9
  <2>1. \A i \in 1..10 : i \in 1..8 \/ i = 9 \/ i = 10 OBVIOUS
  <2>2. \A i \in 1..10 : blocks[i].kind = "event" <=> i \in 1..9 BY <1>5, <2>1
  <2> QED BY <1>2, <2>2
<1>7. sse.done /\ ~sse.errors /\ events = Picked(blocks, shown)
  <2>1. \A i \in DOMAIN blocks : i \in 1..8 \/ i = 9 \/ i = 10 BY <1>2
  <2>2. \A i \in DOMAIN blocks : blocks[i].kind # "junk" BY <1>5, <2>1
  <2>3. 10 \in DOMAIN blocks BY <1>2
  <2> QED BY <1>5, <2>2, <2>3 DEF parse_sse
<1> HIDE DEF sse, shown, events
<1>8. Listed(events) /\ Len(events) = 9 /\ \A k \in 1..9 : events[k] = blocks[k]
  <2> DEFINE a == 1
             n == 9
  <2>1. a \in Nat /\ n \in Nat /\ n + 1 = a + n OBVIOUS
  <2>2. a = 1 /\ n = 9 OBVIOUS
  <2>3. shown = a..n BY <1>6
  <2> HIDE DEF a, n
  <2>4. /\ Listed(events) /\ Len(events) = n /\ \A k \in 1..n : events[k] = blocks[a + k - 1]
    BY <1>7, <2>1, <2>3, PickedStretch
  <2>5. \A k \in 1..n : a + k - 1 = k BY <2>2
  <2> HIDE DEF events
  <2> QED BY <2>4, <2>5, <2>2
<1>9. DOMAIN events = 1..9 BY <1>8, ListedDomain
<1>10. \A i \in 1..9 : i \in 1..8 \/ i = 9 OBVIOUS
<1>11. worded = 1..8
  <2>1. \A i \in 1..9 : events[i].text # NoValue <=> i \in 1..8
    BY <1>5, <1>8, <1>10 DEF NoValue
  <2> QED BY <1>9, <2>1
<1>12. finishes = {9} /\ usages = {9}
  <2>1. \A i \in 1..9 : events[i].finish # "none" <=> i = 9 BY <1>5, <1>8, <1>10
  <2>2. \A i \in 1..9 : events[i].usage <=> i = 9 BY <1>5, <1>8, <1>10
  <2> QED BY <1>9, <2>1, <2>2
<1>13. Listed(deltas) /\ Len(deltas) = 8 /\ \A k \in 1..8 : deltas[k] = events[k]
  <2> DEFINE a == 1
             n == 8
  <2>1. a \in Nat /\ n \in Nat /\ n + 1 = a + n OBVIOUS
  <2>2. a = 1 /\ n = 8 OBVIOUS
  <2>3. worded = a..n BY <1>11
  <2> HIDE DEF a, n, worded
  <2>4. /\ Listed(deltas) /\ Len(deltas) = n /\ \A k \in 1..n : deltas[k] = events[a + k - 1]
    BY <2>1, <2>3, PickedStretch
  <2>5. \A k \in 1..n : a + k - 1 = k BY <2>2
  <2> HIDE DEF deltas
  <2> QED BY <2>4, <2>5, <2>2
<1>14. DOMAIN deltas = 1..8 BY <1>13, ListedDomain
<1>15. Max({9}) = 9 /\ Cardinality({9}) = 1
  <2>1. Max({9}) = 9 BY MaxIs
  <2> QED BY <2>1, FS_Singleton
<1>16. /\ p.message = [i \in DOMAIN deltas |-> deltas[i].text]
       /\ p.finish = IF finishes = {} THEN "none" ELSE events[Max(finishes)].finish
       /\ p.finishes = Cardinality(finishes)
       /\ p.cache_n = IF usages = {} THEN NoValue ELSE events[Max(usages)].totals.cache_n
       /\ p.cached = IF usages = {} THEN NoValue ELSE events[Max(usages)].totals.cached
       /\ p.draft_n = IF usages = {} THEN NoValue ELSE events[Max(usages)].totals.draft_n
  BY DEF reconstruct_sse
<1> HIDE DEF p, deltas, finishes, usages
<1>17. p.message = IdealText
  <2>1. \A i \in 1..8 : deltas[i].text = i
    <3>1. \A i \in 1..8 : i \in 1..9 OBVIOUS
    <3> QED BY <1>5, <1>8, <1>13, <3>1
  <2> QED BY <1>14, <1>16, <2>1 DEF IdealText
<1>18. p.finish = "stop" /\ p.finishes = 1 BY <1>5, <1>8, <1>12, <1>15, <1>16
<1>19. p.cache_n = 0 /\ p.cached = 0 /\ p.draft_n = cell.n * 3
  <2>1. events[9] = blocks[9] BY <1>8
  <2> QED BY <1>3, <1>5, <1>12, <1>15, <1>16, <2>1
<1> QED BY <1>7, <1>17, <1>18, <1>19 DEF p, events, sse, blocks

\* The answer of a sound server is accepted, with all that belongs to it.
LEMMA IdealRow ==
  ASSUME server.kind = "sound", NEW cell, IsCell(cell), NEW slice, slice # <<>>,
         OwnLines(slice, cell, Len(Accepted(cell)))
  PROVE  IsIdeal(Row(cell, Ideal, "none", slice)) /\ Row(cell, Ideal, "none", slice).cell = cell
<1> DEFINE p == Parsed(cell, Ideal, "none")
           row == Row(cell, Ideal, "none", slice)
           sse == parse_sse(Stream(cell, Ideal, "none"))
           object == Object(cell, Ideal, "none")
<1>1. ~Unparsed(cell, "none") BY DEF Unparsed
<1>2. IF cell.s THEN p = reconstruct_sse(sse.events) ELSE p = parse_nonstream(object)
  BY <1>1 DEF Parsed
<1>3. cell.s \in BOOLEAN BY DEF IsCell
<1>4. /\ p.message = IdealText /\ p.finish = "stop" /\ p.finishes = 1
      /\ p.cache_n = 0 /\ p.cached = 0 /\ p.draft_n = cell.n * 3
      /\ ~cell.s => p.trace = Ideal /\ p.completion = 8
  <2>1. CASE cell.s
    <3>1. p = reconstruct_sse(sse.events) BY <1>2, <2>1
    <3> HIDE DEF p
    <3> QED BY <2>1, <3>1, IdealParsed
  <2>2. CASE ~cell.s
    <3>1. p = parse_nonstream(object) BY <1>2, <2>2
    <3>2. Finish = "stop" BY SoundGeneration
    <3>3. Recorded(Ideal, "none") = Ideal BY DEF Recorded
    <3>4. /\ object.message = [i \in DOMAIN Ideal |-> Ideal[i].id]
          /\ object.finish = "stop" /\ object.trace = Ideal
          /\ object.totals = Totals(cell, Ideal, "none")
      BY <3>2, <3>3 DEF Object
    <3>5. object.message = IdealText BY <3>4, IdealTokens DEF IdealText
    <3>6. /\ Totals(cell, Ideal, "none").cache_n = 0 /\ Totals(cell, Ideal, "none").cached = 0
          /\ Totals(cell, Ideal, "none").draft_n = cell.n * 3
          /\ Totals(cell, Ideal, "none").completion = 8
      BY IdealTokens DEF Totals
    <3> HIDE DEF object, p
    <3> QED BY <3>1, <3>4, <3>5, <3>6 DEF parse_nonstream
  <2> QED BY <2>1, <2>2
<1>5. ~Broken(cell, Ideal, "none") BY <1>1, IdealParsed DEF Broken
<1> HIDE DEF p
<1>6. Fresh(p) BY <1>4 DEF Fresh
<1>7. ~Rejected(cell, p)
  <2>1. CASE cell.s BY <1>4, <1>6, <2>1 DEF Rejected
  <2>2. CASE ~cell.s
    <3>1. /\ p.trace # <<>> /\ ~token_identity_error(p.trace) /\ p.completion = Len(p.trace)
          /\ p.finishes = 1
      BY <1>4, <2>2, IdealTokens
    <3> QED BY <1>6, <3>1 DEF Rejected
  <2> QED BY <2>1, <2>2
<1>8. validate_response_contract(p.message, p.finish) = {}
  <2>1. p.message # <<>>
    <3>1. 1 \in DOMAIN IdealText BY DEF IdealText
    <3>2. IdealText # <<>> BY <3>1
    <3> QED BY <1>4, <3>2
  <2>2. p.finish = "stop" BY <1>4
  <2> QED BY <2>1, <2>2 DEF validate_response_contract
<1>9. /\ row.cell = cell /\ row.ok = (~Broken(cell, Ideal, "none") /\ ~Rejected(cell, p))
      /\ row.fresh = Fresh(p) /\ row.request = build_payload(cell, 0) /\ row.trace = p.trace
      /\ row.message = p.message /\ row.finish = p.finish
      /\ row.contract = validate_response_contract(p.message, p.finish)
      /\ row.draft_n = p.draft_n /\ row.logged = (slice # <<>>)
      /\ row.events = parse_draft_acceptance_events(slice)
  BY DEF Row, p
<1> HIDE DEF row
<1>10. Len(Accepted(cell)) \in Nat
  <2>1. Len(Accepted(cell)) \in 0..4 BY AcceptedSteps DEF IsCell
  <2> QED BY <2>1
<1>11. row.events = [k \in 1..Len(Accepted(cell)) |-> DraftEvent(cell, k)]
  <2> DEFINE m == Len(Accepted(cell))
  <2>1. m \in Nat /\ OwnLines(slice, cell, m) BY <1>10
  <2>2. row.events = parse_draft_acceptance_events(slice) BY <1>9
  <2> HIDE DEF m
  <2>3. parse_draft_acceptance_events(slice) = [k \in 1..m |-> DraftEvent(cell, k)]
    BY <2>1, OwnLinesRead
  <2> QED BY <2>2, <2>3 DEF m
<1>12. row.ok /\ row.fresh /\ row.logged BY <1>5, <1>6, <1>7, <1>9
<1> QED BY <1>4, <1>8, <1>9, <1>11, <1>12 DEF IsIdeal, row

-----------------------------------------------------------------------------
(* The gates of an undisturbed run *)

\* The conditions the gates of a full matrix cannot do without.
LEMMA FullMatrix ==
  ASSUME JobOK, job.profile = "full"
  PROVE  /\ Cell(0, 0, FALSE, 1) \in Expected /\ Cell(0, 1, FALSE, 1) \in Expected
         /\ Cell(1, 3, FALSE, 1) \in Expected
<1> DEFINE p == Profile(job.profile)
           ns == Len(p.n) * Len(p.s)
           per == Len(p.t) * ns
           cell(i) == LET k == (i - 1) % per
                      IN [r |-> 1 + ((i - 1) \div per), t |-> p.t[1 + (k \div ns)],
                          n |-> p.n[1 + ((k % ns) \div Len(p.s))], s |-> p.s[1 + (k % Len(p.s))]]
           N == job.repeats * per
<1>1. p = [t |-> <<0, 1>>, n |-> <<0, 1, 2, 3>>, s |-> <<FALSE, TRUE>>] BY DEF Profile
<1>2. Len(p.t) = 2 /\ Len(p.n) = 4 /\ Len(p.s) = 2 BY <1>1
<1>3. p.t[1] = 0 /\ p.t[2] = 1 /\ p.n[1] = 0 /\ p.n[2] = 1 /\ p.n[4] = 3 /\ p.s[1] = FALSE
  <2> HIDE DEF p
  <2>1. p.t = <<0, 1>> /\ p.n = <<0, 1, 2, 3>> /\ p.s = <<FALSE, TRUE>>
    <3>1. p.t = <<0, 1>> BY <1>1
    <3>2. p.n = <<0, 1, 2, 3>> BY <1>1
    <3>3. p.s = <<FALSE, TRUE>> BY <1>1
    <3> QED BY <3>1, <3>2, <3>3
  <2>2. p.t[1] = 0 /\ p.t[2] = 1 BY <2>1
  <2>3. p.n[1] = 0 /\ p.n[2] = 1 /\ p.n[4] = 3 BY <2>1
  <2>4. p.s[1] = FALSE BY <2>1
  <2> QED BY <2>2, <2>3, <2>4
<1>4. Matrix = [i \in 1..N |-> cell(i)] BY DEF Matrix, condition_matrix
<1> HIDE DEF p
<1>5. ns = 8 /\ per = 16 BY <1>2
<1>6. N \in Nat /\ 1 \in 1..N /\ 3 \in 1..N /\ 15 \in 1..N
  <2>1. job.repeats \in Nat \ {0} BY DEF JobOK
  <2> HIDE DEF per
  <2>2. N = job.repeats * 16 BY <1>5
  <2> HIDE DEF N
  <2>3. N \in Nat /\ N >= 16 BY <2>1, <2>2
  <2> QED BY <2>3
<1> DEFINE k(i) == (i - 1) % 16
           digits(i) == [r |-> 1 + ((i - 1) \div 16), t |-> p.t[1 + (k(i) \div 8)],
                         n |-> p.n[1 + ((k(i) % 8) \div 2)], s |-> p.s[1 + (k(i) % 2)]]
<1>7. \A i : cell(i) = digits(i) BY <1>2, <1>5
<1>8. digits(1) = [r |-> 1, t |-> 0, n |-> 0, s |-> FALSE]
  <2>1. 1 + ((1 - 1) \div 16) = 1 /\ 1 + (k(1) \div 8) = 1 /\ 1 + ((k(1) % 8) \div 2) = 1
        /\ 1 + (k(1) % 2) = 1
    OBVIOUS
  <2> QED BY <1>3, <2>1
<1>9. digits(3) = [r |-> 1, t |-> 0, n |-> 1, s |-> FALSE]
  <2>1. 1 + ((3 - 1) \div 16) = 1 /\ 1 + (k(3) \div 8) = 1 /\ 1 + ((k(3) % 8) \div 2) = 2
        /\ 1 + (k(3) % 2) = 1
    OBVIOUS
  <2> QED BY <1>3, <2>1
<1>10. digits(15) = [r |-> 1, t |-> 1, n |-> 3, s |-> FALSE]
  <2>1. 1 + ((15 - 1) \div 16) = 1 /\ 1 + (k(15) \div 8) = 2 /\ 1 + ((k(15) % 8) \div 2) = 4
        /\ 1 + (k(15) % 2) = 1
    OBVIOUS
  <2> QED BY <1>3, <2>1
<1>11. \A t, n, s, r : Cell(t, n, s, r) = [r |-> r, t |-> t, n |-> n, s |-> s] BY DEF Cell
<1> HIDE DEF digits, cell, N
<1>12. \A i \in 1..N : digits(i) \in Expected BY <1>4, <1>7 DEF Expected
<1> QED BY <1>6, <1>8, <1>9, <1>10, <1>11, <1>12

\* A matrix whose answers all arrived.
Sound ==
  RowsAreTrue /\ PlaceIsTrue /\ Len(rows) = Len(Matrix) /\ \A i \in 1..Len(rows) : IsIdeal(rows[i])

\* It is whole, and its index has the row of each condition.
LEMMA SoundMatrix ==
  ASSUME Sound
  PROVE  /\ Whole /\ Len(rows) = Cardinality(Expected) /\ rows # <<>>
         /\ DOMAIN Indexed(rows) = Expected
         /\ \A c \in Expected : IsIdeal(Indexed(rows)[c]) /\ Indexed(rows)[c].cell = c
<1> DEFINE n == Len(rows)
<1>1. /\ RowsAreTrue /\ PlaceIsTrue /\ n = Len(Matrix) /\ \A i \in 1..n : IsIdeal(rows[i])
      /\ JobOK /\ \A i \in 1..n : rows[i].cell = Matrix[i]
  BY DEF Sound, PlaceIsTrue
<1>2. /\ Listed(Matrix) /\ n \in Nat \ {0}
      /\ \A i, j \in 1..n : Matrix[i] = Matrix[j] => i = j
  BY <1>1, MatrixCells
<1>3. DOMAIN rows = 1..n /\ DOMAIN Matrix = 1..n BY <1>1, <1>2, ListedDomain DEF RowsAreTrue
<1>4. ASSUME NEW i \in 1..n PROVE ready(rows[i])
  <2>1. rows[i].ok /\ (~rows[i].cell.s => rows[i].trace = Ideal) BY <1>1 DEF IsIdeal
  <2> QED BY <2>1, IdealTokens DEF ready
<1>5. Expected = {Matrix[i] : i \in 1..n} BY <1>3 DEF Expected
<1>6. Whole BY <1>1, <1>3, <1>4, <1>5 DEF Whole
<1>7. n = Cardinality(Expected)
  <2> DEFINE f == [i \in 1..n |-> Matrix[i]]
  <2>1. f \in [1..n -> Expected] /\ \A i, j \in 1..n : f[i] = f[j] => i = j BY <1>2, <1>5
  <2>2. \A c \in Expected : \E i \in 1..n : f[i] = c BY <1>5
  <2> HIDE DEF f
  <2>3. f \in Bijection(1..n, Expected)
    BY <2>1, <2>2 DEF Bijection, Injection, Surjection, IsInjective
  <2>4. IsFiniteSet(1..n) /\ Cardinality(1..n) = n BY <1>2, FS_Interval
  <2>5. ExistsBijection(1..n, Expected) BY <2>3 DEF ExistsBijection
  <2> QED BY <2>4, <2>5, FS_Bijection
<1>8. rows # <<>>
  <2>1. 1 \in DOMAIN rows BY <1>2, <1>3
  <2> QED BY <2>1
<1>9. DOMAIN Indexed(rows) = Expected /\
      \A c \in Expected : \E m \in 1..n : rows[m].cell = c /\ Indexed(rows)[c] = rows[m]
  BY <1>1, <1>6, IndexedWhole
<1>10. \A c \in Expected : IsIdeal(Indexed(rows)[c]) /\ Indexed(rows)[c].cell = c
  BY <1>1, <1>9
<1> QED BY <1>6, <1>7, <1>8, <1>9, <1>10

\* Its traces are all the same.
LEMMA SoundPairs ==
  ASSUME Sound, NEW p \in NmaxPairs(Expected) \cup RepeatPairs(Expected)
  PROVE  Divergence(Indexed(rows), p) = NoValue
<1>1. p[1] \in Expected /\ p[2] \in Expected /\ ~p[1].s /\ ~p[2].s BY PairsAreTraces
<1>2. \A c \in Expected : ~c.s => Indexed(rows)[c].trace = Ideal BY SoundMatrix DEF IsIdeal
<1>3. Divergence(Indexed(rows), p) = first_token_divergence(Ideal, Ideal)
  BY <1>1, <1>2 DEF Divergence
<1>4. SameIds(Ideal, Ideal) /\ Len(Ideal) \in Nat BY IdealTokens DEF SameIds
<1> QED BY <1>3, <1>4, SameNoDivergence

\* The drafts of three that it rejects, at every depth.
LEMMA SoundCoverage ==
  ASSUME Sound, Cell(1, 3, FALSE, 1) \in Expected
  PROVE  n3_partial_acceptance_coverage({rows[i] : i \in DOMAIN rows}) = {0, 1, 2}
<1> DEFINE c == Cell(1, 3, FALSE, 1)
           row == Indexed(rows)[c]
           set == {rows[i] : i \in DOMAIN rows}
<1>1. c.n = 3 /\ c.t = 1 BY DEF Cell
<1>2. Accepted(c) = <<0, 1, 2>>
  <2> HIDE DEF c
  <2> QED BY <1>1 DEF Accepted
<1> HIDE DEF c
<1>3. IsIdeal(row) /\ row.cell = c /\ row \in set
  <2>1. Sound /\ c \in Expected BY DEF c
  <2>2. IsIdeal(row) /\ row.cell = c /\ Whole BY <2>1, SoundMatrix
  <2>3. PICK m \in 1..Len(rows) : Indexed(rows)[c] = rows[m]
    BY <2>1, <2>2, IndexedWhole DEF Sound
  <2>4. m \in DOMAIN rows BY ListedDomain DEF Sound, RowsAreTrue
  <2> QED BY <2>2, <2>3, <2>4
<1> HIDE DEF row, set
<1>4. row.ok /\ row.cell.n = 3 BY <1>1, <1>3 DEF IsIdeal
<1>5. row.events = [k \in 1..3 |-> DraftEvent(c, k)] BY <1>2, <1>3 DEF IsIdeal
<1>6. \A k \in 1..3 : DraftEvent(c, k) = [accepted |-> k - 1, total |-> 3, partial |-> TRUE, valid |-> TRUE]
  <2> SUFFICES ASSUME NEW k \in 1..3
               PROVE  DraftEvent(c, k) = [accepted |-> k - 1, total |-> 3, partial |-> TRUE, valid |-> TRUE]
    OBVIOUS
  <2>1. Accepted(c)[k] = k - 1 BY <1>2
  <2>2. (k - 1 < 3) = TRUE /\ (3 > 0 /\ k - 1 <= 3) = TRUE OBVIOUS
  <2> QED BY <1>1, <2>1, <2>2 DEF DraftEvent
<1>7. ASSUME NEW a \in {0, 1, 2}
      PROVE  \E i \in DOMAIN row.events :
               LET e == row.events[i] IN e.valid /\ e.total = 3 /\ e.partial /\ e.accepted = a
  <2>1. a + 1 \in 1..3 /\ (a + 1) - 1 = a OBVIOUS
  <2>2. row.events[a + 1] = [accepted |-> a, total |-> 3, partial |-> TRUE, valid |-> TRUE]
    BY <1>5, <1>6, <2>1
  <2>3. a + 1 \in DOMAIN row.events BY <1>5, <2>1
  <2> QED BY <2>2, <2>3
<1> QED BY <1>3, <1>4, <1>7 DEF n3_partial_acceptance_coverage, set

\* The gates all pass.
LEMMA SoundGates ==
  ASSUME Sound, job.profile = "full", job.ref = "same"
  PROVE  Passing(Acceptance(rows, Indexed(rows), TRUE))
<1> DEFINE idx      == Indexed(rows)
           gates    == Acceptance(rows, idx, TRUE)
           cells    == DOMAIN idx
           greedy   == Greedy(NmaxPairs(cells))
           streams  == StreamPairs(cells)
           repeats  == RepeatPairs(cells)
           Asked(pairs, observed, good) ==
             IF pairs = {} THEN "none" ELSE Gate(observed = pairs /\ good)
           baseline == Asked(Baseline(RepeatPairs(Expected)), Baseline(repeats),
                             Divergent(idx, Baseline(repeats)) = {})
           reference == {c \in ReferenceCells : ~ReferenceFailed(idx, c)}
           same == \A c \in reference :
                     first_token_divergence(Reference(c).trace, idx[c].trace) = NoValue
           whole == /\ Len(rows) = Cardinality(Expected)
                    /\ {rows[i].cell : i \in DOMAIN rows} = Expected
                    /\ \A i \in DOMAIN rows : ready(rows[i])
           covered == n3_partial_acceptance_coverage({rows[i] : i \in DOMAIN rows}) = {0, 1, 2}
<1>1. /\ gates.matrix_complete = Gate(whole)
      /\ gates.fresh_slot = Gate(\A c \in cells : idx[c].fresh)
      /\ gates.mtp_exercised = Gate(\A c \in cells : c.n > 0 => idx[c].draft_n > 0)
      /\ gates.greedy = IF Greedy(NmaxPairs(Expected)) = {} \/ baseline = "fail" THEN "none"
                        ELSE Gate(greedy = Greedy(NmaxPairs(Expected)) /\ Divergent(idx, greedy) = {})
      /\ gates.stream = Asked(StreamPairs(Expected), streams, \A p \in streams : SameMessage(idx, p))
      /\ gates.repeat = Asked(RepeatPairs(Expected), repeats, Divergent(idx, repeats) = {})
      /\ gates.baseline = baseline
      /\ gates.contract = Gate(\A c \in cells : idx[c].contract = {})
      /\ gates.log = Gate(rows # <<>> /\ \A i \in DOMAIN rows : rows[i].logged)
      /\ gates.n3 = (IF \E c \in Expected : c.n = 3 THEN Gate(covered) ELSE "none")
      /\ gates.reference = Gate(reference = ReferenceCells /\ same)
  BY DEF Acceptance
<1> HIDE DEF gates
<1>2. /\ Whole /\ Len(rows) = Cardinality(Expected) /\ rows # <<>> /\ cells = Expected
      /\ \A c \in Expected : IsIdeal(idx[c]) /\ idx[c].cell = c
  BY SoundMatrix
<1> HIDE DEF idx
<1>3. Gate(TRUE) = "pass" BY DEF Gate
<1>4. whole BY <1>2 DEF Whole
<1>5. \A c \in cells : idx[c].fresh /\ idx[c].contract = {} /\ (c.n > 0 => idx[c].draft_n > 0)
  <2> SUFFICES ASSUME NEW c \in Expected
               PROVE  idx[c].fresh /\ idx[c].contract = {} /\ (c.n > 0 => idx[c].draft_n > 0)
    BY <1>2
  <2> DEFINE row == idx[c]
  <2>0. IsIdeal(row) /\ row.cell = c BY <1>2
  <2> HIDE DEF row
  <2>1. row.fresh /\ row.contract = {} /\ row.draft_n = c.n * 3 BY <2>0 DEF IsIdeal
  <2>2. c.n \in 0..3
    <3>1. \A i \in 1..Len(Matrix) : IsCell(Matrix[i])
      BY MatrixCells DEF Sound, PlaceIsTrue
    <3>2. DOMAIN Matrix = 1..Len(Matrix) BY MatrixCells, ListedDomain DEF Sound, PlaceIsTrue
    <3> QED BY <3>1, <3>2 DEF Expected, IsCell
  <2> QED BY <2>1, <2>2 DEF row
<1>6. rows # <<>> /\ \A i \in DOMAIN rows : rows[i].logged
  <2>1. DOMAIN rows = 1..Len(rows) BY ListedDomain DEF Sound, RowsAreTrue
  <2> QED BY <1>2, <2>1 DEF Sound, IsIdeal
<1>7. /\ Cell(0, 0, FALSE, 1) \in Expected /\ Cell(0, 1, FALSE, 1) \in Expected
      /\ Cell(1, 3, FALSE, 1) \in Expected
  BY FullMatrix DEF Sound, PlaceIsTrue
<1>8. covered BY <1>7, SoundCoverage
<1>9. \A p \in NmaxPairs(Expected) \cup RepeatPairs(Expected) : Divergence(idx, p) = NoValue
  BY SoundPairs DEF idx
<1>10. Divergent(idx, greedy) = {} /\ greedy = Greedy(NmaxPairs(Expected))
  BY <1>2, <1>9 DEF Divergent, Greedy
<1>11. /\ Divergent(idx, repeats) = {} /\ repeats = RepeatPairs(Expected)
       /\ Divergent(idx, Baseline(repeats)) = {}
  BY <1>2, <1>9 DEF Divergent, Baseline
<1>12. streams = StreamPairs(Expected) /\ \A p \in streams : SameMessage(idx, p)
  <2>0. streams = StreamPairs(Expected) BY <1>2
  <2> SUFFICES ASSUME NEW p \in StreamPairs(Expected) PROVE SameMessage(idx, p) BY <2>0
  <2> DEFINE pairs == {<<Cell(t, n, FALSE, r), Cell(t, n, TRUE, r)>> :
                         t \in {0, 1}, n \in 0..3, r \in Repeats}
  <2>1. StreamPairs(Expected) = pairs \cap (Expected \X Expected) BY DEF StreamPairs
  <2> HIDE DEF pairs
  <2>2. p[1] \in Expected /\ p[2] \in Expected BY <2>1
  <2>3. \A c \in Expected : idx[c].message = IdealText /\ idx[c].finish = "stop"
    BY <1>2 DEF IsIdeal
  <2> QED BY <2>2, <2>3 DEF SameMessage
<1>13. Greedy(NmaxPairs(Expected)) # {}
  <2> DEFINE pair == <<Cell(0, 0, FALSE, 1), Cell(0, 1, FALSE, 1)>>
             deep(t, n, r) == <<Cell(t, 0, FALSE, r), Cell(t, n, FALSE, r)>>
             pairs == {deep(t, n, r) : t \in {0, 1}, n \in 1..3, r \in Repeats}
  <2>1. NmaxPairs(Expected) = pairs \cap (Expected \X Expected) BY DEF NmaxPairs
  <2>2. 1 \in Repeats BY DEF Repeats, Sound, PlaceIsTrue, JobOK
  <2>3. pair \in pairs
    <3>1. pair = deep(0, 1, 1) OBVIOUS
    <3> HIDE DEF pair, deep
    <3>2. 0 \in {0, 1} /\ 1 \in 1..3 OBVIOUS
    <3> QED BY <2>2, <3>1, <3>2
  <2>4. pair \in Expected \X Expected BY <1>7
  <2> HIDE DEF pairs
  <2>5. pair \in NmaxPairs(Expected) BY <2>1, <2>3, <2>4
  <2>6. pair[1].t = 0 BY DEF Cell
  <2> HIDE DEF pair
  <2> QED BY <2>5, <2>6 DEF Greedy
<1>14. reference = ReferenceCells /\ same
  <2> SUFFICES ASSUME NEW c \in ReferenceCells
               PROVE  /\ ~ReferenceFailed(idx, c)
                      /\ first_token_divergence(Reference(c).trace, idx[c].trace) = NoValue
    OBVIOUS
  <2>1. c \in Expected /\ ~c.s BY DEF ReferenceCells
  <2>2. idx[c].trace = Ideal /\ idx[c].request = build_payload(c, 0)
    <3> DEFINE row == idx[c]
    <3>1. IsIdeal(row) /\ row.cell = c BY <1>2, <2>1
    <3> HIDE DEF row
    <3>2. row.trace = Ideal /\ row.request = build_payload(c, 0) BY <2>1, <3>1 DEF IsIdeal
    <3> QED BY <3>2 DEF row
  <2>3. Reference(c).ok /\ Reference(c).request = build_payload(c, 0) /\ Reference(c).trace = Ideal
    <3> DEFINE trace == CASE job.ref = "notrace" -> <<>>
                          [] job.ref = "noid" -> Recorded(Tokens(NoValue, 0), "noid")
                          [] OTHER -> Tokens(NoValue, 0)
    <3>1. Reference(c) = [ok |-> job.ref # "error",
                          request |-> build_payload(c, IF job.ref = "body" THEN 1 ELSE 0),
                          trace |-> trace]
      BY DEF Reference
    <3>2. trace = Tokens(NoValue, 0) OBVIOUS
    <3> HIDE DEF trace
    <3>3. Reference(c).ok = (job.ref # "error") BY <3>1
    <3>4. Reference(c).request = build_payload(c, 0) BY <3>1
    <3>5. Reference(c).trace = Ideal BY <3>1, <3>2 DEF Ideal
    <3> QED BY <3>3, <3>4, <3>5
  <2>4. ~ReferenceFailed(idx, c) BY <1>2, <2>1, <2>2, <2>3, IdealTokens DEF ReferenceFailed
  <2>5. SameIds(Ideal, Ideal) /\ Len(Ideal) \in Nat BY IdealTokens DEF SameIds
  <2>6. first_token_divergence(Ideal, Ideal) = NoValue BY <2>5, SameNoDivergence
  <2> QED BY <2>2, <2>3, <2>4, <2>6
<1> HIDE DEF whole, covered, same, reference, greedy, streams, repeats, cells
<1>15. baseline # "fail"
  <2>1. Baseline(repeats) = Baseline(RepeatPairs(Expected)) BY <1>11
  <2> QED BY <1>3, <1>11, <2>1 DEF Gate
<1> HIDE DEF baseline
<1>16. /\ gates.matrix_complete = "pass" /\ gates.fresh_slot = "pass"
       /\ gates.mtp_exercised = "pass" /\ gates.contract = "pass" /\ gates.log = "pass"
       /\ gates.reference = "pass" /\ gates.n3 # "fail" /\ gates.baseline # "fail"
  BY <1>1, <1>3, <1>4, <1>5, <1>6, <1>8, <1>14, <1>15 DEF Gate
<1>17. gates.greedy = "pass" BY <1>1, <1>10, <1>13, <1>15 DEF Gate
<1>18. gates.stream # "fail" /\ gates.repeat # "fail" BY <1>1, <1>11, <1>12 DEF Gate
<1>19. Passing(gates) BY <1>16, <1>17, <1>18 DEF Passing
<1> QED BY <1>19 DEF gates, idx

-----------------------------------------------------------------------------
\* Nothing has gone wrong: the server is sound, every answer arrived, the log is read.
Undisturbed == server.kind = "sound" /\ faults = DiagFaults /\ job.log

SoundInv ==
  /\ faults \in 0..DiagFaults
  /\ Undisturbed => sound_log /\ late = <<>> /\ \A i \in 1..Len(rows) : IsIdeal(rows[i])
  /\ SoundPasses

\* A report on an undisturbed run is one of a sound matrix.
LEMMA SoundReport ==
  ASSUME MtpInv, ClaimInv, SoundInv, mpc = "classify", Undisturbed, ~Refused, job.require,
         job.ref = "same"
  PROVE  Passing(Acceptance(rows, Indexed(rows), TRUE))
<1>1. Len(rows) = Len(Matrix) /\ PlaceIsTrue BY DEF ClaimInv, PlaceIsTrue
<1>2. Sound BY <1>1 DEF MtpInv, SoundInv, Sound
<1>3. job.profile = "full" BY DEF Refused
<1> QED BY <1>2, <1>3, SoundGates

\* An answer that arrives gives a row with all that belongs to it.
LEMMA SoundReceive ==
  ASSUME MtpInv, ClaimInv, SoundInv, NEW f, Receive(f)
  PROVE  SoundInv'
<1> DEFINE cell   == Condition
           tokens == IF f = "glitch" THEN Tokens(3, 0) ELSE Generation(cell)
           slice  == server_log_since(LogAfter(cell, f), mark, f # "unread")
           row    == Row(cell, tokens, f, slice)
<1>1. /\ mpc = "receive" /\ (f # "none" => faults > 0)
      /\ faults' = IF f = "none" THEN faults ELSE faults - 1
      /\ late' = IF f = "late" THEN <<Last(Lines(cell))>> ELSE <<>>
      /\ sound_log' = (sound_log /\ late = <<>> /\ (f = "rotated" => Len(Lines(cell)) < mark))
      /\ IF at > 0 THEN rows' = Append(rows, row) ELSE UNCHANGED rows
      /\ mpc' = "exit" => ~row.ok
      /\ UNCHANGED <<job, server>>
  BY DEF Receive, Exit, Lines, Request, ShownLines, LogAfter
<1>2. faults \in 0..DiagFaults /\ DiagFaults \in Nat BY DiagAssumption DEF SoundInv
<1>3. faults' \in 0..DiagFaults BY <1>1, <1>2
<1>4. ASSUME Undisturbed'
      PROVE  /\ f = "none" /\ Undisturbed /\ server.kind = "sound" /\ job.log
             /\ sound_log /\ late = <<>>
  <2>1. faults' = DiagFaults BY <1>4 DEF Undisturbed
  <2>2. f = "none" BY <1>1, <1>2, <2>1
  <2>3. Undisturbed BY <1>1, <1>4, <2>2 DEF Undisturbed
  <2> QED BY <2>2, <2>3 DEF SoundInv, Undisturbed
<1>5. ASSUME Undisturbed' PROVE IsIdeal(row)
  <2>1. f = "none" /\ server.kind = "sound" /\ job.log /\ sound_log /\ late = <<>> BY <1>4, <1>5
  <2>2. tokens = Ideal BY <2>1, SoundGeneration
  <2>3. IsCell(cell) BY <1>1, ConditionIs DEF MtpInv, ClaimInv
  <2>4. log \in Seq(Line) /\ mark = IF job.log THEN Len(log) ELSE NoValue
    BY <1>1, <2>1 DEF ClaimInv, LogIsTrue
  <2> HIDE DEF cell, tokens
  <2>5. cell.n \in 0..3 /\ f \notin {"rotated", "late", "unread"} BY <2>1, <2>3 DEF IsCell
  <2>6. OwnLines(slice, cell, Len(Accepted(cell))) BY <2>1, <2>4, <2>5, OwnSlice
  <2> HIDE DEF slice
  <2>7. slice # <<>>
    <3>1. Len(Accepted(cell)) \in 0..4 BY <2>5, AcceptedSteps
    <3>2. Len(slice) = Len(Accepted(cell)) + 1 BY <2>6 DEF OwnLines
    <3>3. Len(slice) # 0 BY <3>1, <3>2
    <3> QED BY <3>3
  <2>8. IsIdeal(Row(cell, Ideal, "none", slice)) BY <2>1, <2>3, <2>6, <2>7, IdealRow
  <2> QED BY <2>1, <2>2, <2>8
<1> HIDE DEF row
<1>6. ASSUME Undisturbed'
      PROVE  sound_log' /\ late' = <<>> /\ \A i \in 1..Len(rows') : IsIdeal(rows'[i])
  <2>1. sound_log' /\ late' = <<>> BY <1>1, <1>4, <1>6
  <2>2. \A i \in 1..Len(rows) : IsIdeal(rows[i]) BY <1>4, <1>6 DEF SoundInv
  <2>3. IsIdeal(row) BY <1>5, <1>6
  <2>4. CASE at > 0
    <3>1. Listed(rows) /\ Len(rows) \in Nat BY DEF MtpInv, RowsAreTrue, Listed
    <3>2. rows' = Append(rows, row) BY <1>1, <2>4
    <3>3. /\ Len(rows') = Len(rows) + 1 /\ rows'[Len(rows) + 1] = row
          /\ \A i \in 1..Len(rows) : rows'[i] = rows[i]
      BY <3>1, <3>2, ListedAppend
    <3>4. ASSUME NEW i \in 1..Len(rows') PROVE IsIdeal(rows'[i])
      <4>1. i \in 1..Len(rows) \/ i = Len(rows) + 1 BY <3>1, <3>3
      <4> QED BY <2>2, <2>3, <3>3, <4>1
    <3> QED BY <2>1, <3>4
  <2>5. CASE ~(at > 0)
    <3>1. rows' = rows BY <1>1, <2>5
    <3> QED BY <2>1, <2>2, <3>1
  <2> QED BY <2>4, <2>5
<1>7. SoundPasses'
  <2>1. Undisturbed' => mpc' # "exit" BY <1>1, <1>5 DEF IsIdeal
  <2> QED BY <2>1 DEF SoundPasses, Undisturbed
<1> QED BY <1>3, <1>6, <1>7 DEF SoundInv

\* No step of a run leaves the invariant.
LEMMA SoundStep == MtpInv /\ ClaimInv /\ SoundInv /\ [MtpNext]_mtp_vars => SoundInv'
<1> SUFFICES ASSUME MtpInv, ClaimInv, SoundInv, [MtpNext]_mtp_vars PROVE SoundInv' OBVIOUS
<1>1. ASSUME UNCHANGED <<job, server, rows, faults, sound_log>>, late' \in {late, <<>>}, SoundPasses'
      PROVE  SoundInv'
  BY <1>1 DEF SoundInv, Undisturbed
<1>2. CASE Start
  <2>1. /\ UNCHANGED <<job, server, rows, faults, sound_log, late>>
        /\ mpc' = "exit" => Refused
    BY <1>2 DEF Start, Exit
  <2>2. Refused' <=> Refused BY <2>1 DEF Refused
  <2>3. SoundPasses' BY <2>1, <2>2 DEF SoundPasses
  <2> QED BY <1>1, <2>1, <2>3
<1>3. CASE Send
  <2>1. UNCHANGED <<job, server, rows, faults, sound_log, late>> /\ mpc' # "exit" BY <1>3 DEF Send
  <2> QED BY <1>1, <2>1 DEF SoundPasses
<1>4. CASE Abort \/ SendUnmarked
  <2>1. UNCHANGED <<job, server, rows, late>> /\ faults > 0 /\ faults' = faults - 1
    BY <1>4 DEF Abort, SendUnmarked
  <2>2. faults \in 0..DiagFaults /\ DiagFaults \in Nat BY DiagAssumption DEF SoundInv
  <2>3. faults' \in 0..DiagFaults /\ faults' # DiagFaults BY <2>1, <2>2
  <2> QED BY <2>3 DEF SoundInv, Undisturbed, SoundPasses
<1>5. CASE Flush
  <2>1. UNCHANGED <<job, server, rows, faults, sound_log>> /\ late' = <<>> /\ mpc' # "exit"
    BY <1>5 DEF Flush
  <2> QED BY <1>1, <2>1 DEF SoundPasses
<1>6. CASE Classify
  <2>1. /\ mpc = "classify" /\ UNCHANGED <<job, server, rows, faults, sound_log, late>>
        /\ report' = classify_run(rows, job.ref # "none")
        /\ exit_code' = IF Passing(report'.gates) \/ ~job.require THEN 0 ELSE 1
    BY <1>6 DEF Classify, Exit
  <2>2. Refused' <=> Refused BY <2>1 DEF Refused
  <2>3. ASSUME Undisturbed, ~Refused, job.require, job.ref = "same" PROVE exit_code' = 0
    <3> DEFINE gates == Acceptance(rows, Indexed(rows), TRUE)
    <3>1. Passing(gates) BY <2>1, <2>3, SoundReport
    <3>2. report'.gates = gates
      <4>1. report' = classify_run(rows, TRUE) BY <2>1, <2>3
      <4> QED BY <4>1 DEF classify_run
    <3> HIDE DEF gates
    <3>3. Passing(report'.gates) BY <3>1, <3>2 DEF Passing
    <3> QED BY <2>1, <3>3
  <2>4. SoundPasses' BY <2>1, <2>2, <2>3 DEF SoundPasses, Undisturbed
  <2> QED BY <1>1, <2>1, <2>4
<1>7. CASE command_reclassify
  <2>1. UNCHANGED <<job, server, rows, faults, sound_log, late>> /\ mpc' # "exit"
    BY <1>7 DEF command_reclassify
  <2> QED BY <1>1, <2>1 DEF SoundPasses
<1>8. ASSUME NEW f, Receive(f) PROVE SoundInv' BY <1>8, SoundReceive
<1>9. CASE UNCHANGED mtp_vars
  <2>1. UNCHANGED <<job, server, rows, faults, sound_log, late, mpc, exit_code>> BY <1>9 DEF mtp_vars
  <2>2. Refused' <=> Refused BY <2>1 DEF Refused
  <2>3. SoundPasses' BY <2>1, <2>2 DEF SoundPasses, SoundInv
  <2> QED BY <1>1, <2>1, <2>3
<1> QED BY <1>2, <1>3, <1>4, <1>5, <1>6, <1>7, <1>8, <1>9 DEF MtpNext

\* command_run of qwen_mtp_diag.py: a sound server whose answers all arrive, asked the
\* full matrix against a reference run of the same requests, is never failed.
THEOREM SoundPass == MtpSpec => []SoundPasses
<1>1. MtpInit => MtpInv /\ ClaimInv /\ SoundInv
  <2> SUFFICES ASSUME MtpInit PROVE SoundInv BY MtpStart, ClaimStart
  <2>1. faults = DiagFaults /\ sound_log = TRUE /\ late = <<>> /\ rows = <<>> /\ mpc = "start" BY DEF MtpInit
  <2>2. faults \in 0..DiagFaults BY <2>1, DiagAssumption
  <2> QED BY <2>1, <2>2 DEF SoundInv, SoundPasses
<1>2. MtpInv /\ ClaimInv /\ SoundInv /\ [MtpNext]_mtp_vars => (MtpInv /\ ClaimInv /\ SoundInv)'
  BY MtpStep, ClaimStep, SoundStep
<1>3. SoundInv => SoundPasses BY DEF SoundInv
<1> QED BY <1>1, <1>2, <1>3, PTL DEF MtpSpec
=============================================================================
