-------------------------- MODULE BackingCacheDiag --------------------------
(***************************************************************************)
(* run-backing-cache.sh and qwen_backing_cache_diag.py: the production     *)
(* service is stopped, one server without and one with the host-memory     *)
(* prompt cache answer the same five requests, and the service is started  *)
(* again by the shell's exit trap.  The server belongs to a session of its *)
(* own, so a signal to the script does not reach it.                       *)
(***************************************************************************)
EXTENDS MtpEvidence

CONSTANTS
  BackingServers,   \* kinds of server
  BackingSignals    \* bound: signals of a run

ASSUME BackingAssumption == BackingSignals \in Nat

VARIABLES
  bkind,     \* the kind of this server
  service,   \* the production service is active
  restore,   \* restore_service of the shell
  bpc,       \* where the script is
  arm,       \* 1: cache off, 2: cache in RAM
  trial,     \* the trial server: "none", "up", "stopping"
  brows,     \* results.jsonl
  failure,   \* an exception was recorded
  passed,    \* of report.json
  start_failed, \* systemctl start failed, which the shell reports (history)
  cut,       \* a signal cut a cleanup short or killed the script (history)
  signals

backing_vars == <<bkind, service, restore, bpc, arm, trial, brows, failure, passed, start_failed,
                  cut, signals>>

\* The requests of an arm: prime, A, B, A again, B again.
Cases == 1..5
Resumed == {4, 5}
Family(case) == CASE case = 1 -> 0 [] case \in {2, 4} -> 1 [] case \in {3, 5} -> 2

-----------------------------------------------------------------------------
(* Rows *)

\* Tokens of the prompt that came from a cache, of 100; in the one slot the
\* other conversation has displaced this one.
BackingReuse(a, case) ==
  IF case \notin Resumed \/ (a = 1 /\ bkind # "offcaches") \/ bkind = "ramcold" THEN 0
  ELSE IF bkind \in {"checkpoint", "short"} THEN 30 ELSE 90

\* What the answer says of it.
CacheReported(reuse) ==
  CASE bkind = "nocount"             -> NoValue
    [] bkind = "over" /\ reuse > 0   -> 110
    [] OTHER                         -> reuse

BackingRow(a, case, ok) ==
  LET reuse == BackingReuse(a, case)
  IN [arm |-> a, case |-> case, ok |-> ok, cache |-> CacheReported(reuse),
      ids |-> ok /\ bkind # "noids",
      \* checkpoint_evidence: the log shows the restore of this very count
      checkpoint |-> bkind = "checkpoint" /\ reuse > 0,
      contract |-> ok /\ bkind # "prose", draft |-> bkind # "nomtp",
      trace |-> <<[id |-> Family(case)], [id |-> IF bkind = "drifts" /\ reuse > 0 THEN 1 ELSE 0]>>]

BRow(a, case) ==
  LET at2 == {i \in DOMAIN brows : brows[i].arm = a /\ brows[i].case = case}
  IN IF at2 = {} THEN {} ELSE {brows[Max(at2)]}

\* One resumed request: the row of the arm without a cache against the other.  A
\* count that is missing, or beyond the prompt of 100 tokens, is no cache hit.
MutantComparisonPasses(case) ==
  \E cold \in BRow(1, case), cached \in BRow(2, case) :
    /\ cold.ok /\ cached.ok /\ cold.ids /\ cached.ids
    /\ first_token_divergence(cold.trace, cached.trace) = NoValue
    /\ cached.cache \in 1..100 /\ (cached.cache >= 50 \/ cached.checkpoint)
    /\ cold.draft /\ cached.draft
    /\ cold.contract /\ cached.contract
ComparisonPasses(case) ==
  \E cold \in BRow(1, case), cached \in BRow(2, case) :
    /\ cold.ok /\ cached.ok /\ cold.ids /\ cached.ids
    /\ first_token_divergence(cold.trace, cached.trace) = NoValue
    /\ cached.cache \in 1..100 /\ (cached.cache >= 50 \/ cached.checkpoint)
    /\ cold.cache \in 0..9
    /\ cold.draft /\ cached.draft
    /\ cold.contract /\ cached.contract

Measured == {i \in DOMAIN brows : brows[i].case # 1}
ReportPasses ==
  /\ Cardinality(Measured) = 8 /\ \A i \in Measured : brows[i].contract
  /\ \A a \in {1, 2} : \E i \in Measured : brows[i].arm = a /\ brows[i].draft
  /\ \A case \in Resumed : ComparisonPasses(case)

-----------------------------------------------------------------------------
(* The shell *)

BackingInit ==
  /\ bkind \in BackingServers
  /\ service \in BOOLEAN /\ restore = FALSE /\ bpc = "shell"
  /\ arm = 1 /\ trial = "none" /\ brows = <<>> /\ failure = FALSE /\ passed = FALSE
  /\ start_failed = FALSE /\ cut = FALSE /\ signals = BackingSignals

\* The service is stopped under the trap; a foreign llama-server ends the shell.
StopService ==
  /\ bpc = "shell"
  /\ restore' = service /\ service' = FALSE
  /\ bpc' \in {"check", "trap"}
  /\ UNCHANGED <<bkind, arm, trial, brows, failure, passed, start_failed, cut, signals>>

\* The exit trap: whatever happened, the service is started again if it was active.
MutantTrap ==
  /\ bpc = "trap" /\ bpc' = "over"
  /\ service' = (restore /\ ~failure)
  /\ UNCHANGED <<bkind, restore, arm, trial, brows, failure, passed, start_failed, cut, signals>>
Trap ==
  /\ bpc = "trap" /\ bpc' = "over"
  /\ \/ service' = restore /\ UNCHANGED start_failed
     \/ restore /\ service' = FALSE /\ start_failed' = TRUE
  /\ UNCHANGED <<bkind, restore, arm, trial, brows, failure, passed, cut, signals>>

-----------------------------------------------------------------------------
(* The script *)

\* The port is taken, or the built server lacks the patch.
CheckRuntimePatch ==
  /\ bpc = "check"
  /\ \/ bpc' = "launch" /\ UNCHANGED failure
     \/ bpc' = "report" /\ failure' = TRUE
     \/ bpc' = "trap" /\ UNCHANGED failure
  /\ UNCHANGED <<bkind, service, restore, arm, trial, brows, passed, start_failed, cut, signals>>

Launch ==
  /\ bpc = "launch" /\ trial' = "up" /\ bpc' = "load"
  /\ UNCHANGED <<bkind, service, restore, arm, brows, failure, passed, start_failed, cut, signals>>

\* Healthy with one slot and the capacity of the arm; or it exits, is not ready
\* in time, or runs with something else.
Load ==
  /\ bpc = "load"
  /\ \/ bpc' = "request" /\ UNCHANGED <<trial, failure>>
     \/ bpc' = "stop" /\ failure' = TRUE /\ trial' \in {"up", "none"}
  /\ UNCHANGED <<bkind, service, restore, arm, brows, passed, start_failed, cut, signals>>

\* A request; its row is on disk before its status is looked at.  A connection
\* that breaks leaves no row.
BackingRequest ==
  LET case == 1 + Cardinality({i \in DOMAIN brows : brows[i].arm = arm})
  IN /\ bpc = "request"
     /\ \/ \E ok \in BOOLEAN :
             /\ brows' = Append(brows, BackingRow(arm, case, ok))
             /\ failure' = ~ok
             /\ bpc' = IF ~ok \/ case = 5 THEN "stop" ELSE "request"
        \/ UNCHANGED brows /\ failure' = TRUE /\ bpc' = "stop"
     /\ UNCHANGED <<bkind, service, restore, arm, trial, passed, start_failed, cut, signals>>

\* The finally block of an arm: SIGINT to the server's session, if it runs.
Stop ==
  /\ bpc = "stop"
  /\ trial' = IF trial = "up" THEN "stopping" ELSE trial
  /\ bpc' = "wait"
  /\ UNCHANGED <<bkind, service, restore, arm, brows, failure, passed, start_failed, cut, signals>>

TrialExits ==
  /\ trial = "stopping" /\ trial' = "none"
  /\ UNCHANGED <<bkind, service, restore, bpc, arm, brows, failure, passed, start_failed, cut, signals>>

\* It has ended, or is killed after two minutes.  Then the next arm, or the end.
Wait ==
  /\ bpc = "wait" /\ trial' = "none"
  /\ IF failure \/ arm = 2 THEN bpc' = "report" /\ UNCHANGED arm
     ELSE bpc' = "launch" /\ arm' = 2
  /\ UNCHANGED <<bkind, service, restore, brows, failure, passed, start_failed, cut, signals>>

WriteReport ==
  /\ bpc = "report" /\ bpc' = "trap"
  /\ passed' = (ReportPasses /\ ~failure)
  /\ UNCHANGED <<bkind, service, restore, arm, trial, brows, failure, start_failed, cut, signals>>

\* SIGINT or SIGTERM, raised as an exception wherever the script is: caught while
\* it waits for the server, inside Popen after the fork, or twice, it leaves a
\* server behind; in the last block it skips the report.
Interrupt ==
  /\ signals > 0 /\ signals' = signals - 1
  /\ failure' = (failure \/ bpc # "report")
  /\ CASE bpc \in {"load", "request"} -> bpc' = "stop" /\ UNCHANGED <<trial, cut>>
       [] bpc = "check"  -> bpc' \in {"report", "trap"} /\ UNCHANGED <<trial, cut>>
       [] bpc = "launch" -> bpc' = "report" /\ trial' \in {trial, "up"} /\ cut' = TRUE
       [] bpc \in {"stop", "wait"} -> bpc' = "report" /\ cut' = TRUE /\ UNCHANGED trial
       [] bpc = "report" -> bpc' = "trap" /\ UNCHANGED <<trial, cut>>
       [] OTHER -> FALSE
  /\ UNCHANGED <<bkind, service, restore, arm, brows, passed, start_failed>>

\* The terminal goes away: the script dies without cleaning up, the shell runs
\* its trap.
Hangup ==
  /\ signals > 0 /\ signals' = signals - 1
  /\ bpc \in {"check", "launch", "load", "request", "stop", "wait", "report"}
  /\ bpc' = "trap" /\ cut' = TRUE
  /\ UNCHANGED <<bkind, service, restore, arm, trial, brows, failure, passed, start_failed>>

BackingNext ==
  \/ StopService \/ Trap \/ CheckRuntimePatch \/ Launch \/ Load \/ BackingRequest
  \/ Stop \/ TrialExits \/ Wait \/ WriteReport \/ Interrupt \/ Hangup
BackingSpec == BackingInit /\ [][BackingNext]_backing_vars

-----------------------------------------------------------------------------
(* Properties *)

\* A pass is a run of both arms to the end, in which the second continued both
\* conversations from its cache, the first did not, and the tokens were the same.
BackingPassIsTrue ==
  passed =>
    /\ ~cut /\ signals = BackingSignals
    /\ [i \in DOMAIN brows |-> <<brows[i].arm, brows[i].case>>]
         = [i \in 1..10 |-> <<1 + ((i - 1) \div 5), 1 + ((i - 1) % 5)>>]
    /\ \A case \in Resumed :
         /\ BackingReuse(1, case) = 0 /\ BackingReuse(2, case) > 0
         /\ \A cold \in BRow(1, case), cached \in BRow(2, case) : cold.trace = cached.trace

\* When the shell is through, the service is as it was, and it was never beside a
\* trial server, unless a signal cut a cleanup short.
BackingReturned ==
  /\ bpc = "over" => service = restore \/ start_failed
  /\ service /\ trial # "none" => cut
=============================================================================
