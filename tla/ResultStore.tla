---------------------------- MODULE ResultStore ----------------------------
(***************************************************************************)
(* What a benchmark run directory promises its reader, whatever happens to *)
(* the harness in between: for every probe key (round, experiment, cell)   *)
(* at most one measurement is ever accepted, and the evidence kept for an  *)
(* accepted probe - the measurement whose response file lies beside the    *)
(* results - is never replaced by a later measurement.                     *)
(***************************************************************************)
EXTENDS Naturals

CONSTANT Keys          \* the probe keys of the sweep

VARIABLE done          \* done[k]: the accepted measurement of k, 0 before there is one

StoreInit == done = [k \in Keys |-> 0]

\* One probe becomes accepted; every other probe keeps what it has.
Accept(k) ==
  /\ done[k] = 0
  /\ done'[k] \in Nat \ {0}
  /\ done' = [done EXCEPT ![k] = done'[k]]

StoreNext == \E k \in Keys : Accept(k)

StoreSpec == StoreInit /\ [][StoreNext]_done
=============================================================================
