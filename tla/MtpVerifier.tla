---------------------------- MODULE MtpVerifier -----------------------------
(***************************************************************************)
(* The hidden rows the MTP draft continues from, after the patch           *)
(* mtp-state-correctness.  process() keeps the target's row of every       *)
(* position of a batch in a ring of RING_N slots; accept() goes back to    *)
(* the row of the last accepted token, and a shorter prompt to an older    *)
(* one, if the ring still has it.  A row is stood for by the tokens it was *)
(* computed from, so that a stale row is a wrong row.                      *)
(***************************************************************************)
EXTENDS Integers, Sequences, FiniteSetsExt

CONSTANTS
  Vocabulary,   \* the vocabulary
  RING_N,       \* slots of the ring
  DraftMax,     \* n_max, the longest draft
  MaxTokens     \* bound: tokens of the sequence

ASSUME VerifierAssumption ==
  RING_N \in Nat \ {0} /\ DraftMax \in Nat /\ DraftMax < RING_N /\ MaxTokens \in Nat

VARIABLES
  tokens,         \* what the target's memory holds, at positions 0, 1, ...
  ring_pos,       \* per slot, the position of its row, or -1
  ring_row,       \* per slot, its row
  ring_head,      \* the slot written next
  ring_len,       \* live slots, those before ring_head
  verify_h,       \* the rows of the last batch
  verify_pos_first,
  pending,        \* pending_h with pending_h_pos
  verifying,      \* a draft is being verified: accept() comes next
  peak            \* the most tokens the memory has held (history)

ring == <<ring_pos, ring_row, ring_head, ring_len>>
verifier_vars == <<tokens, ring, verify_h, verify_pos_first, pending, verifying, peak>>

Slots == 0..RING_N - 1
Row(seq, pos) == SubSeq(seq, 1, pos + 1)

\* The slot that is i rows older than the newest.
Slot(i) == (ring_head + RING_N - 1 - i) % RING_N

-----------------------------------------------------------------------------
(* The ring *)

\* ring_push of the rows of a batch, oldest first: the last RING_N of them stay.
MutantPushed(first, rows) ==
  LET k == Len(rows)
      AtSlot(s) == {i \in 1..k : (ring_head + i - 1) % RING_N = s}
  IN /\ ring_pos' = [s \in Slots |-> IF AtSlot(s) = {} THEN ring_pos[s]
                                     ELSE first + Max(AtSlot(s)) - 1]
     /\ ring_row' = [s \in Slots |-> IF AtSlot(s) = {} THEN ring_row[s]
                                     ELSE rows[Max(AtSlot(s))]]
     /\ ring_head' = (ring_head + k) % RING_N
     /\ ring_len' = ring_len + k
Pushed(first, rows) ==
  LET k == Len(rows)
      AtSlot(s) == {i \in 1..k : (ring_head + i - 1) % RING_N = s}
  IN /\ ring_pos' = [s \in Slots |-> IF AtSlot(s) = {} THEN ring_pos[s]
                                     ELSE first + Max(AtSlot(s)) - 1]
     /\ ring_row' = [s \in Slots |-> IF AtSlot(s) = {} THEN ring_row[s]
                                     ELSE rows[Max(AtSlot(s))]]
     /\ ring_head' = (ring_head + k) % RING_N
     /\ ring_len' = Min({ring_len + k, RING_N})

\* ring_prune_after: the newest rows beyond pos go, and the head goes back.
MutantRingPruneAfter(pos) ==
  /\ ring_pos' = [s \in Slots |-> IF ring_pos[s] > pos THEN -1 ELSE ring_pos[s]]
  /\ UNCHANGED <<ring_row, ring_head, ring_len>>
ring_prune_after(pos) ==
  LET Kept(i) == ring_pos[Slot(i)] >= 0 /\ ring_pos[Slot(i)] <= pos
      gone == Min({i \in 0..ring_len : i = ring_len \/ Kept(i)})
  IN /\ ring_pos' = [s \in Slots |-> IF \E i \in 0..gone - 1 : s = Slot(i) THEN -1
                                     ELSE ring_pos[s]]
     /\ ring_head' = (ring_head + RING_N - gone) % RING_N
     /\ ring_len' = ring_len - gone
     /\ UNCHANGED ring_row

\* ring_get: the slot of the newest row at pos, none if there is no such row.
ring_get(pos) ==
  LET found == {i \in 0..ring_len - 1 : ring_pos[Slot(i)] = pos}
  IN IF found = {} THEN {} ELSE {Slot(Min(found))}

-----------------------------------------------------------------------------
(* The operations *)

\* process(): a piece of the prompt, or a sampled token with its draft.
Process(isDraft) ==
  /\ ~verifying
  /\ \E k \in 1..DraftMax + 1 : \E batch \in [1..k -> Vocabulary] :
       LET new == tokens \o batch
           rows == [i \in 1..k |-> Row(new, Len(tokens) + i - 1)]
       IN /\ Len(new) <= MaxTokens
          /\ tokens' = new
          /\ Pushed(Len(tokens), rows)
          /\ verify_h' = rows /\ verify_pos_first' = Len(tokens)
          /\ pending' = [pos |-> Len(new) - 1, row |-> rows[k]]
  /\ verifying' = isDraft
  /\ peak' = Max({peak, Len(tokens')})

\* accept(): some of the draft is kept; the target drops the rest.
MutantAccept ==
  /\ verifying /\ verifying' = FALSE
  /\ \E n_accepted \in 0..DraftMax :
       LET i_h == Min({n_accepted, Len(verify_h) - 1})
           pos == verify_pos_first + i_h
       IN /\ pending' = [pos |-> pos, row |-> verify_h[i_h + 1]]
          /\ tokens' = SubSeq(tokens, 1, pos + 1)
          /\ Pushed(verify_pos_first, verify_h)
  /\ UNCHANGED <<verify_h, verify_pos_first, peak>>
MutantAcceptRow ==
  /\ verifying /\ verifying' = FALSE
  /\ \E n_accepted \in 0..DraftMax :
       LET i_h == Min({n_accepted, Len(verify_h) - 1})
           pos == verify_pos_first + i_h
       IN /\ pending' = [pos |-> pos, row |-> verify_h[Max({i_h, 1})]]
          /\ tokens' = SubSeq(tokens, 1, pos + 1)
          /\ ring_prune_after(pos)
  /\ UNCHANGED <<verify_h, verify_pos_first, peak>>
accept ==
  /\ verifying /\ verifying' = FALSE
  /\ \E n_accepted \in 0..DraftMax :
       LET i_h == Min({n_accepted, Len(verify_h) - 1})
           pos == verify_pos_first + i_h
       IN /\ pending' = [pos |-> pos, row |-> verify_h[i_h + 1]]
          /\ tokens' = SubSeq(tokens, 1, pos + 1)
          /\ ring_prune_after(pos)
  /\ UNCHANGED <<verify_h, verify_pos_first, peak>>

\* A new prompt shares the tokens up to pos: go on from there, if the row of
\* that boundary is still in the ring.
rollback ==
  /\ ~verifying
  /\ \E pos \in 0..Len(tokens) - 1 : \E s \in ring_get(pos) :
       /\ pending' = [pos |-> pos, row |-> ring_row[s]]
       /\ tokens' = SubSeq(tokens, 1, pos + 1)
       /\ ring_prune_after(pos)
  /\ UNCHANGED <<verify_h, verify_pos_first, verifying, peak>>

VerifierInit ==
  /\ tokens = <<>>
  /\ ring_pos = [s \in Slots |-> -1] /\ ring_row = [s \in Slots |-> <<>>]
  /\ ring_head = 0 /\ ring_len = 0
  /\ verify_h = <<>> /\ verify_pos_first = -1
  /\ pending = [pos |-> -1, row |-> <<>>]
  /\ verifying = FALSE /\ peak = 0

VerifierNext == (\E isDraft \in BOOLEAN : Process(isDraft)) \/ accept \/ rollback
VerifierSpec == VerifierInit /\ [][VerifierNext]_verifier_vars

-----------------------------------------------------------------------------
Texts == {t \in Seq(Vocabulary) : Len(t) <= MaxTokens}
VerifierTypeOK ==
  /\ tokens \in Texts
  /\ ring_pos \in [Slots -> -1..MaxTokens - 1] /\ ring_row \in [Slots -> Texts]
  /\ ring_head \in Slots /\ ring_len \in 0..RING_N
  /\ verify_h \in Seq(Texts) /\ Len(verify_h) <= DraftMax + 1
  /\ verify_pos_first \in -1..MaxTokens - 1
  /\ pending \in [pos : -1..MaxTokens - 1, row : Texts]
  /\ verifying \in BOOLEAN /\ peak \in 0..MaxTokens

\* The draft always continues from the row of the last token the target holds,
\* computed from the tokens it holds now, not from a rejected continuation.
PendingTrue ==
  tokens # <<>> => pending = [pos |-> Len(tokens) - 1, row |-> tokens]

\* The live slots are the newest positions without a hole, each with the row of
\* the present tokens: what ring_get returns is never stale.
RingTrue ==
  \A i \in 0..ring_len - 1 :
    /\ ring_pos[Slot(i)] = Len(tokens) - 1 - i
    /\ ring_row[Slot(i)] = Row(tokens, Len(tokens) - 1 - i)

\* Only the size of the ring limits how far a prompt can go back: every position
\* less than RING_N before the longest the memory has been is still there.
\* Rejected drafts take nothing more away, however many there were.
RollbackDepth ==
  \A pos \in 0..Len(tokens) - 1 : pos >= peak - RING_N => ring_get(pos) # {}
=============================================================================
