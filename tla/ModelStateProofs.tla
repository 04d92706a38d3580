-------------------------- MODULE ModelStateProofs --------------------------
(***************************************************************************)
(* The two states the patches keep beside the KV memory, for every value   *)
(* of their constants.  The history of a sequence begins with the tokens   *)
(* its memory holds (CoverInv), so that no ubatch is hashed with wrong     *)
(* predecessors and no snapshot of the server's own is refused.  The live  *)
(* slots of the verifier's ring are the newest positions of the present    *)
(* tokens (RingInv), so that the draft continues from the row of the last  *)
(* of them and a prompt can go back as far as the ring is long.            *)
(***************************************************************************)
EXTENDS PleHistory, MtpVerifier, SequenceTheorems, TLAPS

Inv == TypeOK /\ CoverInv

-----------------------------------------------------------------------------
\* Joining two sequences and taking a prefix, element by element.
LEMMA Joined ==
  ASSUME NEW T, NEW a \in Seq(T), NEW b \in Seq(T)
  PROVE  /\ a \o b \in Seq(T)
         /\ Len(a \o b) = Len(a) + Len(b)
         /\ \A i \in 1..Len(a) : (a \o b)[i] = a[i]
         /\ \A i \in Len(a)+1..Len(a)+Len(b) : (a \o b)[i] = b[i - Len(a)]
OBVIOUS

\* The first tokens of a sequence.
LEMMA Prefixed ==
  ASSUME NEW T, NEW a \in Seq(T), NEW n \in 0..Len(a)
  PROVE  /\ SubSeq(a, 1, n) \in Seq(T)
         /\ Len(SubSeq(a, 1, n)) = n
         /\ \A i \in 1..n : SubSeq(a, 1, n)[i] = a[i]
OBVIOUS

\* Bringing a covering history to a position the memory still reaches leaves
\* exactly the tokens before that position.
LEMMA Reconciled ==
  ASSUME NEW h \in Histories, NEW held \in Contents, Covers(h, held),
         NEW pos \in 0..Len(held)
  PROVE  \E toks \in Contents :
           /\ Reconcile(h, pos) = [first_pos |-> 0, next_pos |-> pos, toks |-> toks]
           /\ Len(toks) = pos
           /\ \A i \in 1..pos : toks[i] = held[i]
<1>1. CASE h.first_pos = -1
  <2>1. held = <<>> BY <1>1 DEF Covers
  <2>2. pos = 0 BY <2>1
  <2>3. Reconcile(h, pos) = [first_pos |-> 0, next_pos |-> 0, toks |-> <<>>]
    BY <1>1, <2>2 DEF Reconcile, Fresh
  <2>4. <<>> \in Contents BY PleAssumption DEF Contents
  <2> QED BY <2>2, <2>3, <2>4
<1>2. CASE h.first_pos # -1
  <2>1. /\ h.first_pos = 0 /\ h.next_pos \in Int /\ h.next_pos - 0 = Len(h.toks)
        /\ Len(held) <= Len(h.toks)
        /\ \A i \in 1..Len(held) : held[i] = h.toks[i]
    BY <1>2 DEF Covers, Histories
  <2>2. h.toks \in Contents /\ h.toks \in Seq(Tokens) /\ Len(h.toks) <= MaxContext
    BY DEF Histories, Contents
  <2>3. Len(held) \in Nat /\ Len(h.toks) \in Nat BY <2>2 DEF Contents
  <2>4. pos \in 0..Len(h.toks) BY <2>1, <2>3
  <2>5. h = [first_pos |-> 0, next_pos |-> h.next_pos, toks |-> h.toks]
    BY <2>1 DEF Histories
  <2>6. CASE h.next_pos = pos
    <3>1. Reconcile(h, pos) = h BY <2>1, <2>3, <2>6 DEF Reconcile
    <3>2. Len(h.toks) = pos BY <2>1, <2>3, <2>6
    <3> QED BY <2>1, <2>2, <2>5, <2>6, <3>1, <3>2
  <2>7. CASE h.next_pos # pos
    <3>1. pos - h.first_pos = pos BY <2>1, <2>4
    <3>2. ~(h.first_pos < 0 \/ h.next_pos < h.first_pos) BY <2>1, <2>3
    <3>3. Reconcile(h, pos) =
            [first_pos |-> 0, next_pos |-> pos, toks |-> SubSeq(h.toks, 1, pos)]
      BY <2>1, <2>4, <2>7, <3>1, <3>2 DEF Reconcile
    <3>4. /\ SubSeq(h.toks, 1, pos) \in Seq(Tokens)
          /\ Len(SubSeq(h.toks, 1, pos)) = pos
          /\ \A i \in 1..pos : SubSeq(h.toks, 1, pos)[i] = h.toks[i]
      BY <2>2, <2>4, Prefixed
    <3>5. SubSeq(h.toks, 1, pos) \in Contents
      BY <2>2, <2>3, <2>4, <3>4, PleAssumption DEF Contents
    <3>6. \A i \in 1..pos : SubSeq(h.toks, 1, pos)[i] = held[i]
      BY <2>1, <2>3, <3>4
    <3> QED BY <3>3, <3>4, <3>5, <3>6
  <2> QED BY <2>6, <2>7
<1> QED BY <1>1, <1>2

-----------------------------------------------------------------------------
\* At the start no slot has history, and none is needed.
LEMMA InvInit == Init => Inv
<1> SUFFICES ASSUME Init PROVE Inv OBVIOUS
<1>1. <<>> \in Contents BY PleAssumption DEF Contents
<1>2. Empty \in Histories BY <1>1 DEF Empty, Fresh, Histories
<1>3. Covers(Empty, <<>>) BY DEF Covers, Empty, Fresh
<1> QED BY <1>1, <1>2, <1>3 DEF Init, Inv, TypeOK, CoverInv

\* A ubatch extends the memory and the reconciled history alike.
LEMMA InvEvaluate ==
  ASSUME Inv, NEW s \in Seqs, Evaluate(s) PROVE Inv'
<1> DEFINE pos == Len(kv[s])
           old == Reconcile(hist[s], pos)
<1>1. PICK chunk \in Chunks :
        /\ Len(chunk) <= MaxContext - pos
        /\ kv' = [kv EXCEPT ![s] = kv[s] \o chunk]
        /\ hist' = [hist EXCEPT ![s] = Record(old, pos, chunk)]
        /\ UNCHANGED snapshot
  BY DEF Evaluate, Room
<1>2. chunk \in Seq(Tokens) BY PleAssumption DEF Chunks
<1>3. kv[s] \in Contents /\ hist[s] \in Histories /\ Covers(hist[s], kv[s])
      /\ pos \in 0..Len(kv[s])
  BY DEF Inv, TypeOK, CoverInv, Contents
<1>4. PICK toks \in Contents :
        /\ old = [first_pos |-> 0, next_pos |-> pos, toks |-> toks]
        /\ Len(toks) = pos
        /\ \A i \in 1..pos : toks[i] = kv[s][i]
  BY <1>3, Reconciled
<1>5. toks \in Seq(Tokens) /\ kv[s] \in Seq(Tokens) /\ pos \in Nat /\ Len(chunk) \in Nat
  BY <1>2, <1>3 DEF Contents
<1>6. Record(old, pos, chunk) =
        [first_pos |-> 0, next_pos |-> pos + Len(chunk), toks |-> toks \o chunk]
  <2>1. Record([first_pos |-> 0, next_pos |-> pos, toks |-> toks], pos, chunk) =
          [first_pos |-> 0, next_pos |-> pos + Len(chunk), toks |-> toks \o chunk]
    BY DEF Record
  <2> QED BY <1>4, <2>1
<1>7. /\ toks \o chunk \in Seq(Tokens) /\ kv[s] \o chunk \in Seq(Tokens)
      /\ Len(toks \o chunk) = pos + Len(chunk) /\ Len(kv[s] \o chunk) = pos + Len(chunk)
  <2>1. toks \o chunk \in Seq(Tokens) /\ Len(toks \o chunk) = Len(toks) + Len(chunk)
    BY <1>2, <1>5, Joined
  <2>2. kv[s] \o chunk \in Seq(Tokens) /\ Len(kv[s] \o chunk) = Len(kv[s]) + Len(chunk)
    BY <1>2, <1>5, Joined
  <2> QED BY <1>4, <2>1, <2>2
<1>8. toks \o chunk \in Contents /\ kv[s] \o chunk \in Contents
  BY <1>1, <1>5, <1>7, PleAssumption DEF Contents
<1>9. ASSUME NEW i \in 1..Len(kv[s] \o chunk)
      PROVE  (kv[s] \o chunk)[i] = (toks \o chunk)[i]
  <2>1. CASE i \in 1..pos BY <1>2, <1>4, <1>5, <2>1, Joined
  <2>2. CASE i \in pos+1..pos+Len(chunk) BY <1>2, <1>4, <1>5, <2>2, Joined
  <2> QED BY <1>5, <1>7, <2>1, <2>2
<1>10. Record(old, pos, chunk) \in Histories
      /\ Covers(Record(old, pos, chunk), kv[s] \o chunk)
  BY <1>5, <1>6, <1>7, <1>8, <1>9 DEF Histories, Covers
<1>11. TypeOK' BY <1>1, <1>8, <1>10 DEF Inv, TypeOK
<1>12. CoverInv' BY <1>1, <1>10 DEF Inv, TypeOK, CoverInv
<1> QED BY <1>11, <1>12 DEF Inv

\* A shorter memory is covered by the same history.
LEMMA InvTruncate ==
  ASSUME Inv, NEW s \in Seqs, Truncate(s) PROVE Inv'
<1>1. PICK n \in 0..Len(kv[s]) : kv' = [kv EXCEPT ![s] = SubSeq(kv[s], 1, n)]
  BY DEF Truncate
<1>2. kv[s] \in Contents /\ hist[s] \in Histories /\ Covers(hist[s], kv[s])
  BY DEF Inv, TypeOK, CoverInv
<1>3. SubSeq(kv[s], 1, n) \in Contents /\ Len(SubSeq(kv[s], 1, n)) = n
      /\ \A i \in 1..n : SubSeq(kv[s], 1, n)[i] = kv[s][i]
  BY <1>2, Prefixed, PleAssumption DEF Contents
<1>4. Covers(hist[s], SubSeq(kv[s], 1, n))
  <2>1. CASE hist[s].first_pos = -1
    <3>1. kv[s] = <<>> BY <1>2, <2>1 DEF Covers
    <3>2. n = 0 BY <3>1
    <3>3. SubSeq(kv[s], 1, n) = <<>> BY <1>2, <1>3, <3>1, <3>2 DEF Contents
    <3> QED BY <1>2, <2>1, <3>3 DEF Covers
  <2>2. CASE hist[s].first_pos # -1
    BY <1>2, <1>3, <2>2 DEF Covers, Contents, Histories
  <2> QED BY <2>1, <2>2
<1>5. TypeOK' BY <1>1, <1>3 DEF Inv, TypeOK, Truncate
<1>6. CoverInv' BY <1>1, <1>4 DEF Inv, TypeOK, CoverInv, Truncate
<1> QED BY <1>5, <1>6 DEF Inv

\* A snapshot takes memory and history of one slot together.
LEMMA InvSave == ASSUME Inv, NEW s \in Seqs, Save(s) PROVE Inv'
BY DEF Inv, TypeOK, CoverInv, Save

\* So does putting it back.
LEMMA InvRestore == ASSUME Inv, NEW s \in Seqs, Restore(s) PROVE Inv'
BY DEF Inv, TypeOK, CoverInv, Restore

\* A refused restore leaves the slot empty, with an empty history.
LEMMA InvRestoreRefused ==
  ASSUME Inv, NEW s \in Seqs, RestoreRefused(s) PROVE Inv'
<1>1. <<>> \in Contents BY PleAssumption DEF Contents
<1>2. Covers(hist[s], <<>>)
  BY DEF Inv, TypeOK, CoverInv, Covers, Contents, Histories
<1> QED BY <1>1, <1>2 DEF Inv, TypeOK, CoverInv, RestoreRefused

\* Every step of Next keeps the cover.
LEMMA InvNext == Inv /\ [Next]_vars => Inv'
<1> SUFFICES ASSUME Inv, [Next]_vars PROVE Inv' OBVIOUS
<1>1. CASE UNCHANGED vars BY <1>1 DEF vars, Inv, TypeOK, CoverInv
<1>2. ASSUME NEW s \in Seqs, Evaluate(s) PROVE Inv' BY <1>2, InvEvaluate
<1>3. ASSUME NEW s \in Seqs, Truncate(s) PROVE Inv' BY <1>3, InvTruncate
<1>4. ASSUME NEW s \in Seqs, Save(s) PROVE Inv' BY <1>4, InvSave
<1>5. ASSUME NEW s \in Seqs, Restore(s) PROVE Inv' BY <1>5, InvRestore
<1>6. ASSUME NEW s \in Seqs, RestoreRefused(s) PROVE Inv' BY <1>6, InvRestoreRefused
<1> QED BY <1>1, <1>2, <1>3, <1>4, <1>5, <1>6 DEF Next

\* The cover holds in every reachable state.
LEMMA InvAlways == Spec => []Inv
BY InvInit, InvNext, PTL DEF Spec

-----------------------------------------------------------------------------
\* A covering history gives the true predecessors at every position.
LEMMA CoverIsTrue ==
  ASSUME NEW h \in Histories, NEW held \in Contents, Covers(h, held)
  PROVE  TruePredecessors(held, h)
<1> SUFFICES ASSUME NEW pos \in 0..Len(held)
             PROVE  Predecessors(Reconcile(h, pos).toks) = Predecessors(SubSeq(held, 1, pos))
  BY DEF TruePredecessors
<1> DEFINE a == Reconcile(h, pos).toks
           b == SubSeq(held, 1, pos)
<1>1. a \in Seq(Tokens) /\ Len(a) = pos /\ \A i \in 1..pos : a[i] = held[i]
  <2>1. PICK toks \in Contents :
          /\ Reconcile(h, pos) = [first_pos |-> 0, next_pos |-> pos, toks |-> toks]
          /\ Len(toks) = pos
          /\ \A i \in 1..pos : toks[i] = held[i]
    BY Reconciled
  <2> QED BY <2>1 DEF Contents
<1>2. b \in Seq(Tokens) /\ Len(b) = pos /\ \A i \in 1..pos : b[i] = held[i]
  BY Prefixed DEF Contents
<1>3. a = b
  <2>1. \A i \in 1..pos : a[i] = b[i] BY <1>1, <1>2
  <2> HIDE DEF a, b
  <2> QED BY <1>1, <1>2, <2>1
<1> QED BY <1>3

\* Every own trailer passes the reader.
LEMMA CoverIsReadable ==
  ASSUME NEW h \in Histories, NEW held \in Contents, Covers(h, held)
  PROVE  Readable(h)
<1>1. Len(h.toks) <= MaxContext + MaxBatch
  BY PleAssumption DEF Histories, Contents
<1>2. CASE h.first_pos = -1 BY <1>1, <1>2 DEF Covers, Readable, Count, Empty, Fresh
<1>3. CASE h.first_pos # -1
  BY <1>1, <1>3 DEF Covers, Readable, Count, Histories, Contents
<1> QED BY <1>2, <1>3

-----------------------------------------------------------------------------
\* Type correctness: memory, histories and snapshot stay within the context.
THEOREM TypeCorrect == Spec => []TypeOK
BY InvAlways, PTL DEF Inv

\* No ubatch of any slot is hashed with predecessors other than the true ones.
THEOREM TrueHashes == Spec => []PredecessorsKept
<1>1. Inv => PredecessorsKept
  BY CoverIsTrue DEF Inv, TypeOK, CoverInv, PredecessorsKept
<1> QED BY <1>1, InvAlways, PTL

\* The reader of a trailer never refuses what the writer wrote.
THEOREM OwnTrailers == Spec => []OwnTrailersReadable
<1>1. Inv => OwnTrailersReadable
  <2> SUFFICES ASSUME Inv PROVE OwnTrailersReadable OBVIOUS
  <2>1. snapshot.hist \in Histories /\ snapshot.kv \in Contents
        /\ Covers(snapshot.hist, snapshot.kv)
    BY DEF Inv, TypeOK, CoverInv
  <2>2. \A s \in Seqs : hist[s] \in Histories /\ kv[s] \in Contents /\ Covers(hist[s], kv[s])
    BY DEF Inv, TypeOK, CoverInv
  <2> QED BY <2>1, <2>2, CoverIsReadable DEF OwnTrailersReadable
<1> QED BY <1>1, InvAlways, PTL

-----------------------------------------------------------------------------
(* The verifier: its inductive invariant *)

\* The ring reaches back RING_N positions from the longest the memory has been,
\* or to the first position.
DeepEnough(len, n, most) ==
  /\ len <= n /\ n <= most
  /\ len >= n \/ len >= n - most + RING_N

\* True rows, and how far back they reach, which the rows alone do not say.
RingInv == RingTrue /\ DeepEnough(ring_len, Len(tokens), peak)

\* While a draft is verified the rows of the batch are those of its positions.
BatchInv ==
  verifying =>
    /\ verify_pos_first >= 0 /\ Len(verify_h) >= 1
    /\ verify_pos_first + Len(verify_h) = Len(tokens)
    /\ \A i \in 1..Len(verify_h) : verify_h[i] = Row(tokens, verify_pos_first + i - 1)

-----------------------------------------------------------------------------
(* The ring of the verifier: slots, and the least of a set *)

\* For sums below twice the number of slots the remainder is one subtraction.
LEMMA Wrapped ==
  ASSUME NEW x \in 0..2 * RING_N - 1
  PROVE  x % RING_N = IF x < RING_N THEN x ELSE x - RING_N
BY VerifierAssumption, SMT

\* The least element of a set of integers.
LEMMA Least ==
  ASSUME NEW S \in SUBSET Int, NEW m \in S, \A y \in S : m <= y
  PROVE  Min(S) = m
<1>1. \E x \in S : \A y \in S : x <= y
  OBVIOUS
<1>2. Min(S) \in S /\ \A y \in S : Min(S) <= y
  BY <1>1 DEF Min
<1>3. Min(S) \in Int /\ m \in Int /\ Min(S) <= m /\ m <= Min(S)
  BY <1>2
<1> QED
  BY <1>3

\* The greatest element of a set of integers.
LEMMA Most ==
  ASSUME NEW S \in SUBSET Int, NEW m \in S, \A y \in S : m >= y
  PROVE  Max(S) = m
<1>1. \E x \in S : \A y \in S : x >= y
  OBVIOUS
<1>2. Max(S) \in S /\ \A y \in S : Max(S) >= y
  BY <1>1 DEF Max
<1>3. Max(S) \in Int /\ m \in Int /\ Max(S) <= m /\ m <= Max(S)
  BY <1>2
<1> QED
  BY <1>3

\* Min of two, as the capped ring_len and the accepted count use it.
LEMMA LesserOfTwo ==
  ASSUME NEW a \in Int, NEW b \in Int
  PROVE  Min({a, b}) = IF a < b THEN a ELSE b
<1>1. {a, b} \in SUBSET Int
  OBVIOUS
<1>2. CASE a < b
  <2>1. a \in {a, b} /\ \A y \in {a, b} : a <= y
    BY <1>2
  <2> QED
    BY <1>1, <1>2, <2>1, Least
<1>3. CASE ~(a < b)
  <2>1. b \in {a, b} /\ \A y \in {a, b} : b <= y
    BY <1>3
  <2> QED
    BY <1>1, <1>3, <2>1, Least
<1> QED
  BY <1>2, <1>3

\* Max of two, as peak uses it.
LEMMA GreaterOfTwo ==
  ASSUME NEW a \in Int, NEW b \in Int
  PROVE  Max({a, b}) = IF a < b THEN b ELSE a
<1>1. {a, b} \in SUBSET Int
  OBVIOUS
<1>2. CASE a < b
  <2>1. b \in {a, b} /\ \A y \in {a, b} : b >= y
    BY <1>2
  <2> QED
    BY <1>1, <1>2, <2>1, Most
<1>3. CASE ~(a < b)
  <2>1. a \in {a, b} /\ \A y \in {a, b} : a >= y
    BY <1>3
  <2> QED
    BY <1>1, <1>3, <2>1, Most
<1> QED
  BY <1>2, <1>3

\* The slot that is i rows older than the newest when the head is at h.
At(h, i) == (h + RING_N - 1 - i) % RING_N

\* Each age below RING_N has a slot of its own, whatever the head.
LEMMA AtFacts ==
  ASSUME NEW h \in Slots, NEW i \in Slots
  PROVE  /\ At(h, i) = IF i < h THEN h - 1 - i ELSE h + RING_N - 1 - i
         /\ At(h, i) \in Slots
         /\ \A j \in Slots : At(h, i) = At(h, j) => i = j
<1>1. \A j \in Slots : At(h, j) = IF j < h THEN h - 1 - j ELSE h + RING_N - 1 - j
  <2> TAKE j \in Slots
  <2>1. h + RING_N - 1 - j \in 0..2 * RING_N - 1
    BY VerifierAssumption DEF Slots
  <2> QED
    BY <2>1, Wrapped, VerifierAssumption DEF At, Slots
<1> QED
  BY <1>1, VerifierAssumption DEF Slots

\* The slot that the j-th row of a batch is written to.
LEMMA WrittenAt ==
  ASSUME NEW h \in Slots, NEW j \in 1..RING_N
  PROVE  (h + j - 1) % RING_N = IF h + j - 1 < RING_N THEN h + j - 1 ELSE h + j - 1 - RING_N
<1>1. h + j - 1 \in 0..2 * RING_N - 1
  BY VerifierAssumption DEF Slots
<1> QED
  BY <1>1, Wrapped, VerifierAssumption DEF Slots

\* After k rows have been written the k newest slots are those just written, and
\* the others are as much older.
LEMMA Turned ==
  ASSUME NEW h \in Slots, NEW k \in 1..RING_N, NEW i \in Slots
  PROVE  /\ (h + k) % RING_N \in Slots
         /\ i < k => \A j \in 1..k : (h + j - 1) % RING_N = At((h + k) % RING_N, i) <=> j = k - i
         /\ i >= k => /\ At((h + k) % RING_N, i) = At(h, i - k)
                      /\ \A j \in 1..k : (h + j - 1) % RING_N # At((h + k) % RING_N, i)
<1> DEFINE g == (h + k) % RING_N
<1>1. h + k \in 0..2 * RING_N - 1
  BY VerifierAssumption DEF Slots
<1>2. g = IF h + k < RING_N THEN h + k ELSE h + k - RING_N
  BY <1>1, Wrapped, VerifierAssumption DEF Slots
<1>3. g \in Slots
  BY <1>2, VerifierAssumption DEF Slots
<1> HIDE DEF g
<1>4. At(g, i) = IF i < g THEN g - 1 - i ELSE g + RING_N - 1 - i
  BY <1>3, AtFacts
<1>5. \A j \in 1..k : (h + j - 1) % RING_N = IF h + j - 1 < RING_N THEN h + j - 1 ELSE h + j - 1 - RING_N
  BY WrittenAt, VerifierAssumption
<1>6. i < k => \A j \in 1..k : (h + j - 1) % RING_N = At(g, i) <=> j = k - i
  BY <1>2, <1>4, <1>5, VerifierAssumption DEF Slots
<1>7. i >= k => /\ At(g, i) = At(h, i - k)
                /\ \A j \in 1..k : (h + j - 1) % RING_N # At(g, i)
  <2> SUFFICES ASSUME i >= k PROVE /\ At(g, i) = At(h, i - k)
                                  /\ \A j \in 1..k : (h + j - 1) % RING_N # At(g, i)
    OBVIOUS
  <2>1. i - k \in Slots
    BY VerifierAssumption DEF Slots
  <2>2. At(h, i - k) = IF i - k < h THEN h - 1 - (i - k) ELSE h + RING_N - 1 - (i - k)
    BY <2>1, AtFacts
  <2> QED
    BY <1>2, <1>4, <1>5, <2>2, VerifierAssumption DEF Slots
<1> QED
  BY <1>3, <1>6, <1>7 DEF g

\* Giving back the newest slots, none of them or more.
LEMMA TurnedBack ==
  ASSUME NEW h \in Slots, NEW gone \in 0..RING_N, NEW i \in Slots, i + gone < RING_N
  PROVE  /\ (h + RING_N - gone) % RING_N \in Slots
         /\ At((h + RING_N - gone) % RING_N, i) = At(h, i + gone)
<1> DEFINE g == (h + RING_N - gone) % RING_N
<1>1. h + RING_N - gone \in 0..2 * RING_N - 1
  BY VerifierAssumption DEF Slots
<1>2. g = IF h < gone THEN h + RING_N - gone ELSE h - gone
  BY <1>1, Wrapped, VerifierAssumption DEF Slots
<1>3. g \in Slots
  BY <1>2, VerifierAssumption DEF Slots
<1> HIDE DEF g
<1>4. At(g, i) = IF i < g THEN g - 1 - i ELSE g + RING_N - 1 - i
  BY <1>3, AtFacts
<1>5. i + gone \in Slots
  BY VerifierAssumption DEF Slots
<1>6. At(h, i + gone) = IF i + gone < h THEN h - 1 - (i + gone) ELSE h + RING_N - 1 - (i + gone)
  BY <1>5, AtFacts
<1> QED
  BY <1>2, <1>3, <1>4, <1>6, VerifierAssumption DEF Slots, g

-----------------------------------------------------------------------------
(* Writing to the ring, and pruning it *)

RingOK == /\ ring_pos \in [Slots -> -1..MaxTokens - 1] /\ ring_row \in [Slots -> Texts]
          /\ ring_head \in Slots /\ ring_len \in 0..RING_N

\* ring_push of k rows: the k newest slots hold them, the others are k older.
LEMMA PushedStep ==
  ASSUME RingOK, NEW first \in Nat, NEW rows \in Seq(Texts), NEW k \in 1..RING_N,
         Len(rows) = k, first + k <= MaxTokens, Pushed(first, rows)
  PROVE  /\ RingOK'
         /\ ring_len' = IF ring_len + k < RING_N THEN ring_len + k ELSE RING_N
         /\ \A i \in Slots : i < k =>
              /\ ring_pos'[At(ring_head', i)] = first + k - 1 - i
              /\ ring_row'[At(ring_head', i)] = rows[k - i]
         /\ \A i \in Slots : i >= k =>
              /\ ring_pos'[At(ring_head', i)] = ring_pos[At(ring_head, i - k)]
              /\ ring_row'[At(ring_head', i)] = ring_row[At(ring_head, i - k)]
<1> DEFINE AtSlot(s) == {i \in 1..k : (ring_head + i - 1) % RING_N = s}
           pos(s) == IF AtSlot(s) = {} THEN ring_pos[s] ELSE first + Max(AtSlot(s)) - 1
           row(s) == IF AtSlot(s) = {} THEN ring_row[s] ELSE rows[Max(AtSlot(s))]
<1>0. /\ RING_N \in Nat \ {0} /\ MaxTokens \in Nat /\ ring_head \in Slots /\ ring_len \in 0..RING_N
      /\ k \in 1..RING_N
  BY VerifierAssumption DEF RingOK
<1>1. /\ ring_pos' = [s \in Slots |-> pos(s)]
      /\ ring_row' = [s \in Slots |-> row(s)]
      /\ ring_head' = (ring_head + k) % RING_N
      /\ ring_len' = Min({ring_len + k, RING_N})
  BY DEF Pushed
<1>2. ring_len' = IF ring_len + k < RING_N THEN ring_len + k ELSE RING_N
  BY <1>0, <1>1, LesserOfTwo
<1>3. ASSUME NEW i \in Slots
      PROVE  /\ ring_head' \in Slots /\ At(ring_head', i) \in Slots
             /\ i < k => AtSlot(At(ring_head', i)) = {k - i}
             /\ i >= k => /\ AtSlot(At(ring_head', i)) = {}
                          /\ At(ring_head', i) = At(ring_head, i - k)
  <2> DEFINE g == (ring_head + k) % RING_N
  <2>4. /\ g \in Slots
        /\ i < k => \A j \in 1..k : (ring_head + j - 1) % RING_N = At(g, i) <=> j = k - i
        /\ i >= k => /\ At(g, i) = At(ring_head, i - k)
                     /\ \A j \in 1..k : (ring_head + j - 1) % RING_N # At(g, i)
    BY <1>0, Turned
  <2>5. ring_head' = g
    BY <1>1
  <2> HIDE DEF g
  <2>1. /\ ring_head' \in Slots
        /\ i < k => \A j \in 1..k : (ring_head + j - 1) % RING_N = At(ring_head', i) <=> j = k - i
        /\ i >= k => /\ At(ring_head', i) = At(ring_head, i - k)
                     /\ \A j \in 1..k : (ring_head + j - 1) % RING_N # At(ring_head', i)
    BY <2>4, <2>5
  <2>2. At(ring_head', i) \in Slots
    BY <2>1, AtFacts
  <2>3. i < k => k - i \in 1..k
    BY <1>0 DEF Slots
  <2> QED
    BY <2>1, <2>2, <2>3
<1>4. ASSUME NEW j \in 1..k
      PROVE  Max({j}) = j
  <2>1. {j} = {j, j}
    OBVIOUS
  <2> QED
    BY <2>1, GreaterOfTwo
<1>5. \A s \in Slots : AtSlot(s) # {} => \E j \in 1..k : Max(AtSlot(s)) = j
  <2> TAKE s \in Slots
  <2>1. \A i, j \in 1..k : (ring_head + i - 1) % RING_N = (ring_head + j - 1) % RING_N => i = j
    BY <1>0, WrittenAt DEF Slots
  <2> SUFFICES ASSUME NEW j \in AtSlot(s) PROVE Max(AtSlot(s)) = j
    OBVIOUS
  <2>2. AtSlot(s) = {j}
    BY <2>1
  <2> QED
    BY <2>2, <1>4
<1>6. RingOK'
  <2>1. ring_head' \in Slots
    BY <1>0, <1>3 DEF Slots
  <2>2. ring_len' \in 0..RING_N
    BY <1>0, <1>2
  <2>3. ASSUME NEW s \in Slots PROVE pos(s) \in -1..MaxTokens - 1 /\ row(s) \in Texts
    <3>1. CASE AtSlot(s) = {}
      BY <3>1 DEF RingOK
    <3>2. CASE AtSlot(s) # {}
      <4>1. PICK j \in 1..k : Max(AtSlot(s)) = j
        BY <1>5, <3>2
      <4>2. pos(s) = first + j - 1 /\ row(s) = rows[j]
        BY <3>2, <4>1
      <4> QED
        BY <1>0, <4>1, <4>2
    <3> QED
      BY <3>1, <3>2
  <2> HIDE DEF pos, row
  <2> QED
    BY <1>1, <2>1, <2>2, <2>3 DEF RingOK
<1>7. ASSUME NEW i \in Slots, i < k
      PROVE  /\ ring_pos'[At(ring_head', i)] = first + k - 1 - i
             /\ ring_row'[At(ring_head', i)] = rows[k - i]
  <2>1. At(ring_head', i) \in Slots /\ AtSlot(At(ring_head', i)) = {k - i} /\ k - i \in 1..k
    BY <1>0, <1>3, <1>7 DEF Slots
  <2>2. Max(AtSlot(At(ring_head', i))) = k - i
    BY <2>1, <1>4
  <2>3. pos(At(ring_head', i)) = first + (k - i) - 1 /\ row(At(ring_head', i)) = rows[k - i]
    BY <2>1, <2>2
  <2> HIDE DEF pos, row
  <2> QED
    BY <1>0, <1>1, <2>1, <2>3 DEF Slots
<1>8. ASSUME NEW i \in Slots, i >= k
      PROVE  /\ ring_pos'[At(ring_head', i)] = ring_pos[At(ring_head, i - k)]
             /\ ring_row'[At(ring_head', i)] = ring_row[At(ring_head, i - k)]
  <2>1. At(ring_head', i) \in Slots /\ AtSlot(At(ring_head', i)) = {} /\ At(ring_head', i) = At(ring_head, i - k)
    BY <1>3, <1>8
  <2>2. /\ pos(At(ring_head', i)) = ring_pos[At(ring_head, i - k)]
        /\ row(At(ring_head', i)) = ring_row[At(ring_head, i - k)]
    BY <2>1
  <2> HIDE DEF pos, row
  <2> QED
    BY <1>1, <2>1, <2>2
<1> QED
  BY <1>2, <1>6, <1>7, <1>8

\* ring_prune_after on a true ring gives back the rows beyond pos and no other.
LEMMA PruneStep ==
  ASSUME RingOK, tokens \in Texts, RingTrue, ring_len <= Len(tokens),
         NEW pos \in 0..Len(tokens) - 1, ring_prune_after(pos)
  PROVE  \E gone \in 0..ring_len :
           /\ gone = IF Len(tokens) - 1 - pos < ring_len THEN Len(tokens) - 1 - pos ELSE ring_len
           /\ RingOK' /\ ring_len' = ring_len - gone
           /\ \A i \in 0..ring_len - gone - 1 :
                /\ ring_pos'[At(ring_head', i)] = ring_pos[At(ring_head, i + gone)]
                /\ ring_row'[At(ring_head', i)] = ring_row[At(ring_head, i + gone)]
<1> DEFINE Kept(i) == ring_pos[Slot(i)] >= 0 /\ ring_pos[Slot(i)] <= pos
           S == {i \in 0..ring_len : i = ring_len \/ Kept(i)}
           g == IF Len(tokens) - 1 - pos < ring_len THEN Len(tokens) - 1 - pos ELSE ring_len
           dead(s) == IF \E i \in 0..g - 1 : s = Slot(i) THEN -1 ELSE ring_pos[s]
<1>0. /\ RING_N \in Nat \ {0} /\ MaxTokens \in Nat /\ ring_head \in Slots
      /\ ring_len \in 0..RING_N /\ Len(tokens) \in Nat /\ pos \in 0..Len(tokens) - 1
  BY VerifierAssumption DEF RingOK, Texts
<1>1. g \in 0..ring_len
  BY <1>0
<1>2. \A i \in 0..ring_len - 1 : Kept(i) <=> Len(tokens) - 1 - i <= pos
  BY <1>0 DEF RingTrue
<1>3. Min(S) = g
  <2>1. S \in SUBSET Int
    BY <1>0
  <2>2. g \in S
    BY <1>0, <1>1, <1>2
  <2>3. \A y \in S : g <= y
    BY <1>0, <1>2
  <2> HIDE DEF g, S
  <2> QED
    BY <2>1, <2>2, <2>3, Least
<1>4. /\ ring_pos' = [s \in Slots |-> dead(s)]
      /\ ring_head' = (ring_head + RING_N - g) % RING_N
      /\ ring_len' = ring_len - g /\ ring_row' = ring_row
  <2>1. /\ ring_pos' = [s \in Slots |-> IF \E i \in 0..Min(S) - 1 : s = Slot(i) THEN -1 ELSE ring_pos[s]]
        /\ ring_head' = (ring_head + RING_N - Min(S)) % RING_N
        /\ ring_len' = ring_len - Min(S) /\ ring_row' = ring_row
    BY DEF ring_prune_after
  <2> HIDE DEF S, g
  <2> QED
    BY <1>3, <2>1
<1> HIDE DEF g, S, Kept
<1>5. ring_head' \in Slots
  <2>1. 0 \in Slots /\ g \in 0..RING_N
    BY <1>0, <1>1 DEF Slots
  <2>2. (ring_head + RING_N - g) % RING_N \in Slots
    <3>1. CASE g < RING_N
      BY <1>0, <2>1, <3>1, TurnedBack
    <3>2. CASE g = RING_N
      BY <1>0, <3>2, Wrapped DEF Slots
    <3> QED
      BY <1>0, <2>1, <3>1, <3>2
  <2> QED
    BY <1>4, <2>2
<1>6. RingOK'
  <2>1. ring_len' \in 0..RING_N
    BY <1>0, <1>1, <1>4
  <2>2. \A s \in Slots : dead(s) \in -1..MaxTokens - 1
    BY <1>0 DEF RingOK
  <2> HIDE DEF dead
  <2> QED
    BY <1>4, <1>5, <2>1, <2>2 DEF RingOK
<1>7. ASSUME NEW i \in 0..ring_len - g - 1
      PROVE  /\ ring_pos'[At(ring_head', i)] = ring_pos[At(ring_head, i + g)]
             /\ ring_row'[At(ring_head', i)] = ring_row[At(ring_head, i + g)]
  <2>1. i \in Slots /\ i + g \in Slots /\ g \in 0..RING_N /\ i + g < RING_N
    BY <1>0, <1>1 DEF Slots
  <2>2. At(ring_head', i) = At(ring_head, i + g)
    BY <1>0, <1>4, <2>1, TurnedBack
  <2>3. At(ring_head, i + g) \in Slots /\ \A j \in Slots : At(ring_head, i + g) = At(ring_head, j) => i + g = j
    BY <1>0, <2>1, AtFacts
  <2>4. \A j \in 0..g - 1 : At(ring_head, i + g) # Slot(j)
    <3> TAKE j \in 0..g - 1
    <3>1. j \in Slots /\ i + g # j
      BY <1>0, <1>1, <2>1 DEF Slots
    <3>2. Slot(j) = At(ring_head, j)
      BY DEF Slot, At
    <3> QED
      BY <2>3, <3>1, <3>2
  <2>5. dead(At(ring_head, i + g)) = ring_pos[At(ring_head, i + g)]
    BY <2>4
  <2> HIDE DEF dead
  <2> QED
    BY <1>4, <2>2, <2>3, <2>5
<1>8. g = IF Len(tokens) - 1 - pos < ring_len THEN Len(tokens) - 1 - pos ELSE ring_len
  BY DEF g
<1> QED
  BY <1>1, <1>4, <1>6, <1>7, <1>8

-----------------------------------------------------------------------------
(* Rows: the tokens they were computed from *)

\* The row of a position is computed from the tokens up to it.
LEMMA RowIs ==
  ASSUME NEW T, NEW t \in Seq(T), NEW p \in 0..Len(t) - 1
  PROVE  /\ Row(t, p) \in Seq(T) /\ Len(Row(t, p)) = p + 1
         /\ \A i \in 1..p + 1 : Row(t, p)[i] = t[i]
<1>1. Len(t) \in Nat /\ p + 1 \in 0..Len(t)
  OBVIOUS
<1> QED
  BY <1>1, Prefixed DEF Row

\* The row of the last position is computed from all of them.
LEMMA WholeRow ==
  ASSUME NEW T, NEW t \in Seq(T), Len(t) >= 1
  PROVE  Row(t, Len(t) - 1) = t
<1>1. Len(t) \in Nat /\ Len(t) - 1 \in 0..Len(t) - 1
  OBVIOUS
<1> DEFINE r == Row(t, Len(t) - 1)
<1>2. r \in Seq(T) /\ Len(r) = Len(t) /\ \A i \in 1..Len(t) : r[i] = t[i]
  BY <1>1, RowIs
<1> HIDE DEF r
<1>3. r = t
  BY <1>2, SeqEqual
<1> QED
  BY <1>3 DEF r

\* The row of a position does not depend on what follows it.
LEMMA RowExtended ==
  ASSUME NEW T, NEW a \in Seq(T), NEW b \in Seq(T), NEW p \in 0..Len(a) - 1
  PROVE  Row(a \o b, p) = Row(a, p)
<1> DEFINE c == a \o b
<1>1. c \in Seq(T) /\ Len(c) = Len(a) + Len(b) /\ \A i \in 1..Len(a) : c[i] = a[i]
  BY Joined
<1>2. Len(a) \in Nat /\ Len(b) \in Nat
  OBVIOUS
<1> HIDE DEF c
<1>3. p \in 0..Len(c) - 1
  BY <1>1, <1>2
<1>4. /\ Row(c, p) \in Seq(T) /\ Len(Row(c, p)) = p + 1
      /\ \A i \in 1..p + 1 : Row(c, p)[i] = c[i]
  BY <1>1, <1>3, RowIs
<1>5. /\ Row(a, p) \in Seq(T) /\ Len(Row(a, p)) = p + 1
      /\ \A i \in 1..p + 1 : Row(a, p)[i] = a[i]
  BY RowIs
<1>6. \A i \in 1..p + 1 : Row(c, p)[i] = Row(a, p)[i]
  BY <1>1, <1>2, <1>4, <1>5
<1>7. Row(c, p) = Row(a, p)
  BY <1>4, <1>5, <1>6, SeqEqual
<1> QED
  BY <1>7 DEF c

\* Dropping the tokens after pos changes no row up to pos.
LEMMA RowCut ==
  ASSUME NEW T, NEW t \in Seq(T), NEW pos \in 0..Len(t) - 1, NEW p \in 0..pos
  PROVE  Row(Row(t, pos), p) = Row(t, p)
<1> DEFINE c == Row(t, pos)
<1>1. c \in Seq(T) /\ Len(c) = pos + 1 /\ \A i \in 1..pos + 1 : c[i] = t[i]
  BY RowIs
<1>2. Len(t) \in Nat
  OBVIOUS
<1> HIDE DEF c
<1>3. p \in 0..Len(c) - 1 /\ p \in 0..Len(t) - 1
  BY <1>1, <1>2
<1>4. /\ Row(c, p) \in Seq(T) /\ Len(Row(c, p)) = p + 1
      /\ \A i \in 1..p + 1 : Row(c, p)[i] = c[i]
  BY <1>1, <1>3, RowIs
<1>5. /\ Row(t, p) \in Seq(T) /\ Len(Row(t, p)) = p + 1
      /\ \A i \in 1..p + 1 : Row(t, p)[i] = t[i]
  BY <1>3, RowIs
<1>6. \A i \in 1..p + 1 : Row(c, p)[i] = Row(t, p)[i]
  BY <1>1, <1>4, <1>5
<1>7. Row(c, p) = Row(t, p)
  BY <1>4, <1>5, <1>6, SeqEqual
<1> QED
  BY <1>7 DEF c

-----------------------------------------------------------------------------
(* The three operations *)

RestOK ==
  /\ tokens \in Texts
  /\ verify_h \in Seq(Texts) /\ Len(verify_h) <= DraftMax + 1
  /\ verify_pos_first \in -1..MaxTokens - 1
  /\ pending \in [pos : -1..MaxTokens - 1, row : Texts]
  /\ verifying \in BOOLEAN /\ peak \in 0..MaxTokens

\* The type invariant, as the ring's part and the rest.
LEMMA VerifierParts == VerifierTypeOK <=> RingOK /\ RestOK
BY DEF VerifierTypeOK, RingOK, RestOK

VerifierInv == RingOK /\ RestOK /\ RingInv /\ BatchInv /\ PendingTrue

\* The numbers among the constants and variables.
LEMMA Sizes ==
  ASSUME RingOK, RestOK
  PROVE  /\ RING_N \in Nat \ {0} /\ DraftMax \in Nat /\ DraftMax < RING_N /\ MaxTokens \in Nat
         /\ ring_len \in 0..RING_N /\ tokens \in Seq(Vocabulary) /\ Len(tokens) \in 0..MaxTokens
         /\ peak \in 0..MaxTokens
BY VerifierAssumption DEF RingOK, RestOK, Texts

\* A longer sequence keeps the ring as deep as its size allows.
LEMMA DepthGrown ==
  ASSUME NEW len \in Nat, NEW n \in Nat, NEW most \in Nat, NEW k \in 0..RING_N,
         DeepEnough(len, n, most)
  PROVE  DeepEnough(IF len + k < RING_N THEN len + k ELSE RING_N, n + k,
                    IF most < n + k THEN n + k ELSE most)
BY VerifierAssumption DEF DeepEnough

\* A shorter one keeps the rows of the positions that remain.
LEMMA DepthCut ==
  ASSUME NEW len \in Nat, NEW n \in Nat, NEW most \in Nat, NEW pos \in 0..n - 1,
         DeepEnough(len, n, most)
  PROVE  DeepEnough(len - (IF n - 1 - pos < len THEN n - 1 - pos ELSE len), pos + 1, most)
BY VerifierAssumption DEF DeepEnough

\* process() keeps the invariant: its rows are pushed after those of the tokens.
LEMMA ProcessStep ==
  ASSUME VerifierInv, NEW isDraft \in BOOLEAN, Process(isDraft)
  PROVE  VerifierInv'
<1> DEFINE n == Len(tokens)
<1>0. /\ RingOK /\ RestOK /\ RingInv
      /\ RING_N \in Nat \ {0} /\ DraftMax \in Nat /\ DraftMax < RING_N /\ MaxTokens \in Nat
      /\ ring_len \in 0..RING_N /\ tokens \in Seq(Vocabulary) /\ n \in Nat
      /\ peak \in 0..MaxTokens
  BY Sizes DEF VerifierInv
<1>a. PICK k \in 1..DraftMax + 1 : \E batch \in [1..k -> Vocabulary] :
        LET new == tokens \o batch
            rows == [i \in 1..k |-> Row(new, Len(tokens) + i - 1)]
        IN /\ Len(new) <= MaxTokens
           /\ tokens' = new
           /\ Pushed(Len(tokens), rows)
           /\ verify_h' = rows /\ verify_pos_first' = Len(tokens)
           /\ pending' = [pos |-> Len(new) - 1, row |-> rows[k]]
  BY DEF Process
<1>1. PICK batch \in [1..k -> Vocabulary] :
        LET new == tokens \o batch
            rows == [i \in 1..k |-> Row(new, Len(tokens) + i - 1)]
        IN /\ Len(new) <= MaxTokens
           /\ tokens' = new
           /\ Pushed(Len(tokens), rows)
           /\ verify_h' = rows /\ verify_pos_first' = Len(tokens)
           /\ pending' = [pos |-> Len(new) - 1, row |-> rows[k]]
  BY <1>a
<1> DEFINE new == tokens \o batch
           rows == [i \in 1..k |-> Row(new, n + i - 1)]
<1>2. /\ Len(new) <= MaxTokens /\ tokens' = new /\ Pushed(n, rows)
      /\ verify_h' = rows /\ verify_pos_first' = n
      /\ pending' = [pos |-> Len(new) - 1, row |-> rows[k]]
  BY <1>1
<1>3. verifying' = isDraft /\ peak' = Max({peak, Len(tokens')})
  BY DEF Process
<1>4. batch \in Seq(Vocabulary) /\ Len(batch) = k /\ k \in 1..RING_N
  BY <1>0
<1>5. new \in Seq(Vocabulary) /\ Len(new) = n + k /\ new \in Texts
  BY <1>0, <1>2, <1>4, Joined DEF Texts
<1>6. \A p \in 0..n - 1 : Row(new, p) = Row(tokens, p)
  BY <1>0, <1>4, RowExtended
<1> HIDE DEF new
<1>7. Row(new, n + k - 1) = new
  <2>1. Len(new) >= 1 /\ Len(new) - 1 = n + k - 1
    BY <1>0, <1>4, <1>5
  <2>2. Row(new, Len(new) - 1) = new
    BY <1>5, <2>1, WholeRow
  <2> QED
    BY <2>1, <2>2
<1>8. \A i \in 1..k : Row(new, n + i - 1) \in Texts
  <2> TAKE i \in 1..k
  <2>1. n + i - 1 \in 0..Len(new) - 1
    BY <1>0, <1>4, <1>5
  <2>2. Row(new, n + i - 1) \in Seq(Vocabulary) /\ Len(Row(new, n + i - 1)) = n + i
    BY <1>0, <1>5, <2>1, RowIs
  <2> QED
    BY <1>0, <1>2, <1>4, <1>5, <2>1, <2>2 DEF Texts
<1>9. rows \in Seq(Texts) /\ Len(rows) = k /\ \A i \in 1..k : rows[i] = Row(new, n + i - 1)
  BY <1>4, <1>8
<1> HIDE DEF rows
<1>10. n + k <= MaxTokens /\ n \in 0..MaxTokens - 1
  BY <1>0, <1>2, <1>4, <1>5
<1>11. /\ RingOK'
       /\ ring_len' = IF ring_len + k < RING_N THEN ring_len + k ELSE RING_N
       /\ \A i \in Slots : i < k =>
            /\ ring_pos'[At(ring_head', i)] = n + k - 1 - i
            /\ ring_row'[At(ring_head', i)] = rows[k - i]
       /\ \A i \in Slots : i >= k =>
            /\ ring_pos'[At(ring_head', i)] = ring_pos[At(ring_head, i - k)]
            /\ ring_row'[At(ring_head', i)] = ring_row[At(ring_head, i - k)]
  BY <1>0, <1>2, <1>4, <1>9, <1>10, PushedStep
<1>12. ASSUME NEW i \in 0..ring_len' - 1
       PROVE  /\ ring_pos'[At(ring_head', i)] = n + k - 1 - i
              /\ ring_row'[At(ring_head', i)] = Row(new, n + k - 1 - i)
  <2>1. i \in Slots
    BY <1>0, <1>4, <1>11 DEF Slots
  <2>2. CASE i < k
    <3>1. k - i \in 1..k /\ n + (k - i) - 1 = n + k - 1 - i
      BY <1>0, <1>4, <2>2
    <3>2. rows[k - i] = Row(new, n + k - 1 - i)
      BY <1>9, <3>1
    <3> QED
      BY <1>11, <2>1, <2>2, <3>2
  <2>3. CASE ~(i < k)
    <3>1. i - k \in 0..ring_len - 1 /\ i >= k
      BY <1>0, <1>4, <1>11, <2>3
    <3>2. /\ ring_pos[At(ring_head, i - k)] = n - 1 - (i - k)
          /\ ring_row[At(ring_head, i - k)] = Row(tokens, n - 1 - (i - k))
      BY <1>0, <3>1 DEF RingInv, RingTrue, Slot, At
    <3>3. n - 1 - (i - k) \in 0..n - 1 /\ n - 1 - (i - k) = n + k - 1 - i
      BY <1>0, <1>4, <3>1 DEF RingInv, DeepEnough
    <3> QED
      BY <1>6, <1>11, <2>1, <3>1, <3>2, <3>3
  <2> QED
    BY <2>2, <2>3
<1>13. peak' = IF peak < n + k THEN n + k ELSE peak
  BY <1>0, <1>2, <1>3, <1>4, <1>5, GreaterOfTwo
<1>14. RestOK'
  BY <1>0, <1>2, <1>3, <1>4, <1>5, <1>8, <1>9, <1>10, <1>13 DEF RestOK
<1>15. RingInv'
  <2>1. RingTrue'
    BY <1>2, <1>5, <1>12 DEF RingTrue, Slot, At
  <2>2. DeepEnough(ring_len', n + k, peak')
    <3>1. /\ DeepEnough(ring_len, n, peak)
          /\ ring_len \in Nat /\ peak \in Nat /\ k \in 0..RING_N /\ n \in Nat
      BY <1>0, <1>4 DEF RingInv
    <3> HIDE DEF n
    <3> QED
      BY <1>11, <1>13, <3>1, DepthGrown
  <2>3. Len(tokens') = n + k
    BY <1>2, <1>5
  <2>4. DeepEnough(ring_len', Len(tokens'), peak')
    BY <2>2, <2>3
  <2> QED
    BY <2>1, <2>4 DEF RingInv
<1>16. BatchInv'
  BY <1>0, <1>2, <1>4, <1>5, <1>9 DEF BatchInv
<1>17. PendingTrue'
  BY <1>0, <1>2, <1>4, <1>5, <1>7, <1>9 DEF PendingTrue
<1> QED
  BY <1>11, <1>14, <1>15, <1>16, <1>17 DEF VerifierInv

\* What accept and rollback have in common: the sequence is cut after pos.
LEMMA CutStep ==
  ASSUME RingOK, RestOK, RingInv, NEW pos \in 0..Len(tokens) - 1,
         ring_prune_after(pos), tokens' = SubSeq(tokens, 1, pos + 1), peak' = peak
  PROVE  /\ RingOK' /\ RingInv' /\ tokens' \in Texts /\ Len(tokens') = pos + 1
         /\ tokens' = Row(tokens, pos)
<1> DEFINE n == Len(tokens)
<1>0. /\ RING_N \in Nat \ {0} /\ MaxTokens \in Nat
      /\ ring_len \in 0..RING_N /\ tokens \in Seq(Vocabulary) /\ n \in 0..MaxTokens
      /\ peak \in 0..MaxTokens
  BY Sizes
<1>1. tokens' = Row(tokens, pos)
  BY DEF Row
<1>2. tokens' \in Texts /\ Len(tokens') = pos + 1
  <2>1. Row(tokens, pos) \in Seq(Vocabulary) /\ Len(Row(tokens, pos)) = pos + 1
    BY <1>0, RowIs
  <2> QED
    BY <1>0, <1>1, <2>1 DEF Texts
<1>3. \A p \in 0..pos : Row(tokens', p) = Row(tokens, p)
  BY <1>0, <1>1, RowCut
<1>4. PICK gone \in 0..ring_len :
        /\ gone = IF n - 1 - pos < ring_len THEN n - 1 - pos ELSE ring_len
        /\ RingOK' /\ ring_len' = ring_len - gone
        /\ \A i \in 0..ring_len - gone - 1 :
             /\ ring_pos'[At(ring_head', i)] = ring_pos[At(ring_head, i + gone)]
             /\ ring_row'[At(ring_head', i)] = ring_row[At(ring_head, i + gone)]
  BY PruneStep DEF RingInv, DeepEnough, RestOK
<1>a. /\ DeepEnough(ring_len, n, peak) /\ ring_len <= n
      /\ ring_len \in Nat /\ n \in Nat /\ peak \in Nat /\ pos \in 0..n - 1
  BY <1>0 DEF RingInv, DeepEnough
<1>5. ASSUME NEW i \in 0..ring_len' - 1
      PROVE  /\ ring_pos'[At(ring_head', i)] = pos - i
             /\ ring_row'[At(ring_head', i)] = Row(tokens', pos - i)
  <2>1. /\ i \in 0..ring_len - gone - 1 /\ i + gone \in 0..ring_len - 1
        /\ gone = n - 1 - pos /\ n - 1 - (i + gone) = pos - i
    <3>1. /\ gone \in 0..ring_len /\ i \in 0..ring_len - gone - 1
          /\ gone = IF n - 1 - pos < ring_len THEN n - 1 - pos ELSE ring_len
      BY <1>4
    <3> HIDE DEF n
    <3> QED
      BY <1>a, <3>1
  <2>2. /\ ring_pos[At(ring_head, i + gone)] = n - 1 - (i + gone)
        /\ ring_row[At(ring_head, i + gone)] = Row(tokens, n - 1 - (i + gone))
    BY <2>1 DEF RingInv, RingTrue, Slot, At
  <2>3. pos - i \in 0..pos
    <3> HIDE DEF n
    <3> QED
      BY <1>a, <1>4, <2>1
  <2> QED
    BY <1>3, <1>4, <2>1, <2>2, <2>3
<1>6. RingTrue'
  BY <1>0, <1>2, <1>5 DEF RingTrue, Slot, At
<1>7. DeepEnough(ring_len', Len(tokens'), peak')
  <2>1. gone = IF n - 1 - pos < ring_len THEN n - 1 - pos ELSE ring_len
    BY <1>4
  <2>2. ring_len' = ring_len - gone /\ Len(tokens') = pos + 1 /\ peak' = peak
    BY <1>2, <1>4
  <2> HIDE DEF n
  <2>3. DeepEnough(ring_len - gone, pos + 1, peak)
    BY <1>a, <2>1, DepthCut
  <2> QED
    BY <2>2, <2>3
<1> QED
  BY <1>1, <1>2, <1>4, <1>6, <1>7 DEF RingInv

\* accept() keeps it: what is pruned is what the target drops.
LEMMA AcceptStep ==
  ASSUME VerifierInv, accept
  PROVE  VerifierInv'
<1>0. /\ RingOK /\ RestOK /\ RingInv /\ verifying
      /\ DraftMax \in Nat /\ MaxTokens \in Nat /\ Len(tokens) \in 0..MaxTokens
      /\ verify_pos_first \in Nat /\ verify_h \in Seq(Texts) /\ Len(verify_h) \in Nat \ {0}
      /\ verify_pos_first + Len(verify_h) = Len(tokens)
      /\ \A i \in 1..Len(verify_h) : verify_h[i] = Row(tokens, verify_pos_first + i - 1)
  BY Sizes DEF VerifierInv, BatchInv, RestOK, accept
<1>1. PICK n_accepted \in 0..DraftMax :
        LET i_h == Min({n_accepted, Len(verify_h) - 1})
            pos == verify_pos_first + i_h
        IN /\ pending' = [pos |-> pos, row |-> verify_h[i_h + 1]]
           /\ tokens' = SubSeq(tokens, 1, pos + 1)
           /\ ring_prune_after(pos)
  BY DEF accept
<1> DEFINE i_h == Min({n_accepted, Len(verify_h) - 1})
           pos == verify_pos_first + i_h
<1>2. /\ pending' = [pos |-> pos, row |-> verify_h[i_h + 1]]
      /\ tokens' = SubSeq(tokens, 1, pos + 1) /\ ring_prune_after(pos)
  BY <1>1
<1>3. i_h \in 0..Len(verify_h) - 1
  <2>1. n_accepted \in Int /\ Len(verify_h) - 1 \in Int
    BY <1>0
  <2>2. i_h = IF n_accepted < Len(verify_h) - 1 THEN n_accepted ELSE Len(verify_h) - 1
    BY <2>1, LesserOfTwo
  <2> HIDE DEF i_h
  <2> QED
    BY <1>0, <2>2
<1> HIDE DEF i_h
<1>4. pos \in 0..Len(tokens) - 1
  BY <1>0, <1>3
<1>5. verify_h[i_h + 1] = Row(tokens, pos)
  BY <1>0, <1>3
<1> HIDE DEF pos
<1>6. verifying' = FALSE /\ UNCHANGED <<verify_h, verify_pos_first, peak>>
  BY DEF accept
<1>7. /\ RingOK' /\ RingInv' /\ tokens' \in Texts /\ Len(tokens') = pos + 1
      /\ tokens' = Row(tokens, pos)
  BY <1>0, <1>2, <1>4, <1>6, CutStep
<1>8. pending' = [pos |-> Len(tokens') - 1, row |-> tokens']
  BY <1>0, <1>2, <1>4, <1>5, <1>7
<1>9. RestOK'
  <2>1. Len(tokens') - 1 \in -1..MaxTokens - 1
    BY <1>0, <1>4, <1>7
  <2>2. pending' \in [pos : -1..MaxTokens - 1, row : Texts]
    BY <1>7, <1>8, <2>1
  <2> QED
    BY <1>0, <1>6, <1>7, <2>2 DEF RestOK
<1> QED
  BY <1>6, <1>7, <1>8, <1>9 DEF VerifierInv, BatchInv, PendingTrue

\* A position that is live is found, at the only slot that has it.
LEMMA Found ==
  ASSUME RingOK, RestOK, RingInv, NEW pos \in 0..Len(tokens) - 1
  PROVE  ring_get(pos) = IF Len(tokens) - 1 - pos < ring_len
                         THEN {At(ring_head, Len(tokens) - 1 - pos)} ELSE {}
<1> DEFINE found == {i \in 0..ring_len - 1 : ring_pos[Slot(i)] = pos}
           m == Len(tokens) - 1 - pos
<1>0. ring_len \in Nat /\ Len(tokens) \in Nat /\ m \in Nat
  BY Sizes
<1>1. \A i \in 0..ring_len - 1 : ring_pos[Slot(i)] = pos <=> i = m
  BY <1>0 DEF RingInv, RingTrue
<1>2. CASE m < ring_len
  <2>1. found = {m, m}
    BY <1>0, <1>1, <1>2
  <2>2. Min(found) = m
    BY <1>0, <2>1, LesserOfTwo
  <2>3. found # {}
    BY <2>1
  <2> HIDE DEF m, found
  <2>4. Slot(m) = At(ring_head, m)
    BY DEF Slot, At
  <2> USE DEF found
  <2>5. ring_get(pos) = {Slot(Min(found))}
    BY <2>3 DEF ring_get
  <2> QED
    BY <1>2, <2>2, <2>4, <2>5 DEF m
<1>3. CASE ~(m < ring_len)
  <2>1. found = {}
    BY <1>0, <1>1, <1>3
  <2> QED
    BY <1>3, <2>1 DEF ring_get
<1> QED
  BY <1>2, <1>3

\* So does going back to a shared prefix whose row the ring still has.
LEMMA RollbackStep ==
  ASSUME VerifierInv, rollback
  PROVE  VerifierInv'
<1>0. /\ RingOK /\ RestOK /\ RingInv /\ MaxTokens \in Nat /\ Len(tokens) \in 0..MaxTokens
      /\ ring_len \in Nat
  BY Sizes DEF VerifierInv
<1>1. PICK pos \in 0..Len(tokens) - 1 : \E s \in ring_get(pos) :
        /\ pending' = [pos |-> pos, row |-> ring_row[s]]
        /\ tokens' = SubSeq(tokens, 1, pos + 1) /\ ring_prune_after(pos)
  BY DEF rollback
<1>2. PICK s \in ring_get(pos) :
        /\ pending' = [pos |-> pos, row |-> ring_row[s]]
        /\ tokens' = SubSeq(tokens, 1, pos + 1) /\ ring_prune_after(pos)
  BY <1>1
<1>3. ~verifying /\ UNCHANGED <<verifying, verify_h, verify_pos_first, peak>>
  BY DEF rollback
<1>4. Len(tokens) - 1 - pos < ring_len /\ s = At(ring_head, Len(tokens) - 1 - pos)
  BY <1>0, <1>2, Found
<1>5. ring_row[s] = Row(tokens, pos)
  <2>1. Len(tokens) - 1 - pos \in 0..ring_len - 1 /\ Len(tokens) - 1 - (Len(tokens) - 1 - pos) = pos
    BY <1>0, <1>4
  <2>2. ring_row[Slot(Len(tokens) - 1 - pos)] = Row(tokens, pos)
    BY <2>1 DEF RingInv, RingTrue, VerifierInv
  <2> QED
    BY <1>4, <2>2 DEF Slot, At
<1>6. /\ RingOK' /\ RingInv' /\ tokens' \in Texts /\ Len(tokens') = pos + 1
      /\ tokens' = Row(tokens, pos)
  BY <1>0, <1>2, <1>3, CutStep
<1>7. pending' = [pos |-> Len(tokens') - 1, row |-> tokens']
  BY <1>0, <1>2, <1>5, <1>6
<1>8. RestOK'
  BY <1>0, <1>3, <1>6, <1>7 DEF RestOK
<1> QED
  BY <1>3, <1>6, <1>7, <1>8 DEF VerifierInv, BatchInv, PendingTrue

\* An empty ring over an empty memory is true.
LEMMA VerifierInitOK ==
  ASSUME VerifierInit
  PROVE  VerifierInv
<1>1. /\ <<>> \in Texts /\ Len(<<>>) = 0
  BY VerifierAssumption, EmptySeq DEF Texts
<1>2. RingOK
  BY <1>1, VerifierAssumption DEF VerifierInit, RingOK, Slots
<1>3. RestOK
  <2>1. -1 \in -1..MaxTokens - 1 /\ 0 \in 0..MaxTokens /\ 0 <= DraftMax + 1
    BY VerifierAssumption
  <2>2. /\ tokens = <<>> /\ verify_h = <<>> /\ verify_pos_first = -1
        /\ pending = [pos |-> -1, row |-> <<>>] /\ verifying = FALSE /\ peak = 0
    BY DEF VerifierInit
  <2>3. pending \in [pos : -1..MaxTokens - 1, row : Texts]
    BY <1>1, <2>1, <2>2
  <2>4. verify_h \in Seq(Texts) /\ Len(verify_h) = 0
    BY <2>2, EmptySeq
  <2> QED
    BY <1>1, <2>1, <2>2, <2>3, <2>4 DEF RestOK
<1>4. RingInv
  BY <1>1 DEF VerifierInit, RingInv, DeepEnough, RingTrue
<1> QED
  BY <1>2, <1>3, <1>4 DEF VerifierInv, BatchInv, PendingTrue, VerifierInit

\* Every step of VerifierNext keeps the invariant.
LEMMA VerifierStep ==
  ASSUME VerifierInv, [VerifierNext]_verifier_vars
  PROVE  VerifierInv'
<1>1. CASE UNCHANGED verifier_vars
  BY <1>1 DEF verifier_vars, ring, VerifierInv, RingOK, RestOK, RingInv, RingTrue, Slot,
     BatchInv, PendingTrue
<1> QED
  BY <1>1, ProcessStep, AcceptStep, RollbackStep DEF VerifierNext

\* Type correctness: ring, rows and positions stay in their ranges.
THEOREM VerifierTypeCorrect == VerifierSpec => []VerifierTypeOK
<1>1. VerifierInv => VerifierTypeOK
  BY VerifierParts DEF VerifierInv
<1> QED
  BY <1>1, VerifierInitOK, VerifierStep, PTL DEF VerifierSpec

\* No slot that ring_get may return holds the row of a rejected continuation.
THEOREM RingIsTrue == VerifierSpec => []RingTrue
<1>1. VerifierInv => RingTrue
  BY DEF VerifierInv, RingInv
<1> QED
  BY <1>1, VerifierInitOK, VerifierStep, PTL DEF VerifierSpec

\* The draft continues from the row of the last token the target holds.
THEOREM PendingIsTrue == VerifierSpec => []PendingTrue
<1>1. VerifierInv => PendingTrue
  BY DEF VerifierInv
<1> QED
  BY <1>1, VerifierInitOK, VerifierStep, PTL DEF VerifierSpec

\* A prompt can go back to any position less than RING_N before the longest.
THEOREM RollbackReaches == VerifierSpec => []RollbackDepth
<1>1. VerifierInv => RollbackDepth
  <2> SUFFICES ASSUME VerifierInv, NEW pos \in 0..Len(tokens) - 1, pos >= peak - RING_N
               PROVE  ring_get(pos) # {}
    BY DEF RollbackDepth
  <2>1. /\ RING_N \in Nat /\ ring_len \in Nat /\ Len(tokens) \in Nat /\ peak \in Nat
    BY Sizes DEF VerifierInv
  <2>2. Len(tokens) - 1 - pos < ring_len
    BY <2>1 DEF VerifierInv, RingInv, DeepEnough
  <2> QED
    BY <2>2, Found DEF VerifierInv
<1> QED
  BY <1>1, VerifierInitOK, VerifierStep, PTL DEF VerifierSpec
=============================================================================
