----------------------------- MODULE PleHistory -----------------------------
(***************************************************************************)
(* The token history behind Qwen4Exp's PLE hash (the patches               *)
(* mtp-state-correctness and backing-cache-checkpoint).  Each ubatch hashes *)
(* its first tokens with predecessors it does not hold, so the model keeps *)
(* them per sequence, outside the KV memory.  Speculative verification     *)
(* evaluates tokens that are rejected afterwards, and nobody tells the     *)
(* history: it must find out from the position of the next ubatch.         *)
(* Snapshots of a sequence carry the history as a trailer.                 *)
(***************************************************************************)
EXTENDS Integers, Sequences

CONSTANTS
  Seqs,         \* the sequences (slots) of the context
  Tokens,       \* the vocabulary
  Eos,          \* the padding before the first token
  NGram,        \* tokens per hash, the current one included
  MaxContext,   \* n_ctx
  MaxBatch      \* n_batch; also the longest draft, with its sampled token

ASSUME PleAssumption ==
  /\ NGram \in Nat /\ NGram >= 2          \* GGML_ASSERT(n_gram >= 2)
  /\ MaxContext \in Nat /\ MaxBatch \in Nat \ {0}
  /\ Eos \notin Tokens

VARIABLES
  kv,        \* per sequence, the tokens the memory holds, at positions 0, 1, ...
  hist,      \* ple_hist
  snapshot   \* one saved sequence state: memory and trailer

vars == <<kv, hist, snapshot>>

-----------------------------------------------------------------------------
Fresh(pos) == [first_pos |-> pos, next_pos |-> pos, toks |-> <<>>]
Empty == Fresh(-1)

\* The history is brought to the first incoming position: a lower one cuts off
\* the rejected suffix, a position it cannot reach starts it anew.
MutantReconcile(h, pos) == IF h.next_pos # pos THEN Fresh(pos) ELSE h
Reconcile(h, pos) ==
  LET kept == pos - h.first_pos
  IN IF h.first_pos < 0 \/ h.next_pos < h.first_pos THEN Fresh(pos)
     ELSE IF h.next_pos = pos THEN h
     ELSE IF kept \in 0..Len(h.toks)
          THEN [first_pos |-> h.first_pos, next_pos |-> pos, toks |-> SubSeq(h.toks, 1, kept)]
     ELSE Fresh(pos)

\* The predecessors a ubatch is hashed with: the last NGram - 1 tokens, EOS
\* where there are none.
Predecessors(toks) ==
  [i \in 1..NGram - 1 |-> LET j == Len(toks) - (NGram - 1) + i
                          IN IF j >= 1 THEN toks[j] ELSE Eos]

\* The tokens of the ubatch are remembered.
MutantRecord(h, pos, chunk) ==
  LET all == h.toks \o chunk
      keep == IF Len(all) > NGram - 1 THEN NGram - 1 ELSE Len(all)
  IN [first_pos |-> h.first_pos, next_pos |-> pos + Len(chunk),
      toks |-> SubSeq(all, Len(all) - keep + 1, Len(all))]
Record(h, pos, chunk) ==
  LET from == IF h.next_pos # pos THEN Fresh(pos) ELSE h
  IN [first_pos |-> from.first_pos, next_pos |-> pos + Len(chunk),
      toks |-> from.toks \o chunk]

\* qwen_ple_state_read: a trailer that does not fit is an exception.
Count(h) == Len(h.toks)
Readable(h) ==
  /\ Count(h) <= MaxContext + MaxBatch
  /\ \/ Count(h) = 0 /\ h.first_pos = -1 /\ h.next_pos = -1
     \/ h.first_pos >= 0 /\ h.next_pos >= h.first_pos
        /\ h.next_pos - h.first_pos = Count(h)

-----------------------------------------------------------------------------
Chunks == UNION {[1..n -> Tokens] : n \in 1..MaxBatch}
MutantRoom(s) == MaxContext - Len(kv[s]) + 1
Room(s) == MaxContext - Len(kv[s])

\* One ubatch of a sequence, at the end of its memory.
Evaluate(s) ==
  LET pos == Len(kv[s])
  IN \E chunk \in Chunks :
       /\ Len(chunk) <= Room(s)
       /\ kv' = [kv EXCEPT ![s] = @ \o chunk]
       /\ hist' = [hist EXCEPT ![s] = Record(Reconcile(@, pos), pos, chunk)]
       /\ UNCHANGED snapshot

\* Rejected draft tokens, or the part of an old prompt that a new one does not
\* share, are removed from the memory; the history is not told.
Truncate(s) ==
  /\ \E n \in 0..Len(kv[s]) : kv' = [kv EXCEPT ![s] = SubSeq(@, 1, n)]
  /\ UNCHANGED <<hist, snapshot>>

\* A context checkpoint or a prompt-cache entry.
Save(s) ==
  /\ snapshot' = [kv |-> kv[s], hist |-> hist[s]]
  /\ UNCHANGED <<kv, hist>>

\* It may be restored into any slot.
Restore(s) ==
  /\ Readable(snapshot.hist)
  /\ kv' = [kv EXCEPT ![s] = snapshot.kv]
  /\ hist' = [hist EXCEPT ![s] = snapshot.hist]
  /\ UNCHANGED snapshot

\* A refused or torn trailer: the memory has been read already, so the server
\* clears the sequence; the history is as it was.
RestoreRefused(s) ==
  /\ kv' = [kv EXCEPT ![s] = <<>>]
  /\ UNCHANGED <<hist, snapshot>>

Init ==
  /\ kv = [s \in Seqs |-> <<>>]
  /\ hist = [s \in Seqs |-> Empty]
  /\ snapshot = [kv |-> <<>>, hist |-> Empty]

Next == \E s \in Seqs :
  Evaluate(s) \/ Truncate(s) \/ Save(s) \/ Restore(s) \/ RestoreRefused(s)

Spec == Init /\ [][Next]_vars

-----------------------------------------------------------------------------
Contents == {t \in Seq(Tokens) : Len(t) <= MaxContext}
Histories == [first_pos : Int, next_pos : Int, toks : Contents]
TypeOK ==
  /\ kv \in [Seqs -> Contents]
  /\ hist \in [Seqs -> Histories]
  /\ snapshot \in [kv : Contents, hist : Histories]

\* Whatever was rejected, reused, saved and restored: a ubatch that continues
\* the memory at any position it still holds is hashed with the tokens that
\* really precede it.
TruePredecessors(tokens, h) ==
  \A pos \in 0..Len(tokens) :
    Predecessors(Reconcile(h, pos).toks) = Predecessors(SubSeq(tokens, 1, pos))
PredecessorsKept == \A s \in Seqs : TruePredecessors(kv[s], hist[s])

\* No trailer the server wrote is refused when it is read back: every history
\* is as long as its positions say and within the bound of the reader.
OwnTrailersReadable == Readable(snapshot.hist) /\ \A s \in Seqs : Readable(hist[s])

-----------------------------------------------------------------------------
\* The inductive form: a history of a sequence that holds tokens begins at
\* position 0 and begins with those tokens.
Covers(h, tokens) ==
  /\ h.next_pos - h.first_pos = Len(h.toks)
  /\ IF h.first_pos = -1 THEN h = Empty /\ tokens = <<>>
     ELSE /\ h.first_pos = 0
          /\ Len(tokens) <= Len(h.toks)
          /\ \A i \in 1..Len(tokens) : tokens[i] = h.toks[i]
CoverInv == Covers(snapshot.hist, snapshot.kv) /\ \A s \in Seqs : Covers(hist[s], kv[s])
=============================================================================
