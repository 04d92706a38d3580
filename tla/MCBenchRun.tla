----------------------------- MODULE MCBenchRun -----------------------------
(* Small sweeps for TLC: two experiments and tiers that between them use     *)
(* every branch of execute_run.                                              *)
EXTENDS BenchRun

MCNames == {"base", "mtp"}
Code == <<"code", 0>>
Json == <<"json", 0>>
MCCells == {Code, Json, <<"prose", 0>>, StartupCell}

Base == [rounds |-> 1, experiments |-> <<"base">>, cells |-> {Code}, warmup |-> "none", concurrent |-> FALSE,
         erase |-> TRUE, scored |-> FALSE, startup |-> FALSE, failFast |-> FALSE]

T1 == [Base EXCEPT !.rounds = 2, !.experiments = <<"base", "mtp">>,
                   !.cells = {StartupCell}, !.startup = TRUE, !.erase = FALSE, !.failFast = TRUE]
T2 == [Base EXCEPT !.experiments = <<"base", "mtp">>, !.warmup = "experiment"]
T3 == [Base EXCEPT !.cells = {Code, Json}, !.concurrent = TRUE, !.failFast = TRUE]
T4 == [Base EXCEPT !.scored = TRUE, !.warmup = "per_cell"]
MCTiers == {T1, T2, T3, T4}

MCScored == {[Base EXCEPT !.scored = TRUE]}
MCPlain == {[Base EXCEPT !.warmup = "experiment"]}
=============================================================================
