---------------------------- MODULE MCModelState ----------------------------
(* The two states the patches keep beside the KV memory, one at a time.      *)
(* History: contexts of three tokens with hashes of three, so that a         *)
(* rejection that cuts into the predecessors and one that leaves them whole  *)
(* both fit.  Verifier: a ring of four slots and drafts of two, so that a    *)
(* batch replaces most of the ring and seven tokens wrap it around.          *)
EXTENDS PleHistory, MtpVerifier

MCSeqs == {"slot0", "slot1"}
MCTokens == {"a", "b"}

ModelStateInit == Init /\ VerifierInit
\* Each runs alone while the other is as it started.
ModelStateNext ==
  \/ VerifierInit /\ Next /\ UNCHANGED verifier_vars
  \/ Init /\ VerifierNext /\ UNCHANGED vars
ModelStateSpec == ModelStateInit /\ [][ModelStateNext]_<<vars, verifier_vars>>
=============================================================================
