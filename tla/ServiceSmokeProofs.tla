------------------------- MODULE ServiceSmokeProofs -------------------------
(***************************************************************************)
(* Proofs about ServiceSmoke for every number of requests and of signals:  *)
(* the type invariant, that the trial and the production service never     *)
(* share the GPU, that production is put back, that a saturation PASS was  *)
(* measured under a quiet guard, and what exit status 0 stands for.        *)
(***************************************************************************)
EXTENDS ServiceSmoke, TLAPS

-----------------------------------------------------------------------------
(* The inductive invariants *)

Before == {"checks", "ask", "stop", "spawn", "ready"}
Requesting == {"send", "post", "answer"}

\* Behind TypeOK: the watcher counts low samples only until it trips, and a
\* request is made only while one is left.
WatcherInv ==
  /\ watcher \in {"reading", "resting"} => low < LowSamples
  /\ watcher = "off" => low = 0
  /\ pc \in Before \/ ~Long => watcher = "off"
  /\ pc \in Requesting => left > 0

\* Behind TrialAlone: production stays down from the stop the trial has waited
\* for until the server the trial can stop is gone.
GpuInv ==
  /\ pc \in Before \ {"ready"} => ~handle
  /\ pc \in {"spawn", "ready", "teardown"} \cup Probing /\ restore => production = "inactive"
  /\ handle /\ restore => production = "inactive" \/ ~Alive
  /\ pc = "f_restore" /\ handle => ~Alive

\* Behind Restored: only an active production is taken, and the cleanup passes
\* its start before anything that counts as its end.
RestoreInv ==
  /\ pc \in {"checks", "ask"} => ~taken /\ started = "no"
  /\ pc = "stop" => restore
  /\ taken => restore
  /\ started # "no" => restore
  /\ pc \in {"f_write", "f_archive"} /\ taken => started # "no"
  /\ pc = "ended" /\ taken /\ ~cut => started # "no"

\* Once the join has seen the watcher's end nothing can trip the guard any more.
Joined == ~late => watcher = "over"
Quiet == ~late => watcher = "over" /\ ~tripped

\* Behind PassUnderGuard: the saturation mode has no PASS before it has looked
\* at the guard, and looks at it only after the watcher's end.
GuardInv ==
  /\ pc = "tripped" => Joined
  /\ Long /\ pc \in {"alive", "teardown"} => Quiet
  /\ mode = "capacity" /\ pc = "judge" => Quiet
  /\ mode = "capacity" /\ verdicts[1] = "PASS" => Quiet
  /\ mode = "capacity" /\ pc \in Before \cup Probing => verdicts[1] # "PASS"
  /\ report = "PASS" => verdicts[1] = "PASS" /\ pc \in {"f_archive", "ended"}

\* Behind SuccessIsWhole: status 0 in the cleanup is what a whole trial left, and
\* no later part of the cleanup sets it back to 0.
Whole ==
  /\ verdicts[arm] = "PASS" /\ (mode = "repeat" => arm = 2)
  /\ Long => Quiet
  /\ ~handle /\ server = "dead"
StatusInv ==
  /\ arm = 2 => mode = "repeat"
  /\ status = 0 /\ arm = 2 => verdicts[1] = "PASS"
  /\ pc \in Cleanup /\ status = 0 => Whole
  /\ pc \in {"f_write", "f_archive"} /\ status = 0 /\ restore => started = "ok"
  /\ exit = "ok" => /\ pc = "ended" /\ status = 0 /\ archived /\ Whole
                    /\ restore => started = "ok"

-----------------------------------------------------------------------------
(* Type correctness *)

(* TypeOK in four parts: what the trial, its watcher and production are in, *)
(* what they count, and what they judge.                                    *)
PlaceOK ==
  /\ mode \in Modes /\ arm \in 1..2 /\ status \in {0, 1}
  /\ pc \in Probing \cup Cleanup \cup
            {"checks", "ask", "stop", "spawn", "ready", "unwind", "teardown", "except", "ended"}
  /\ server \in {"none", "starting", "up", "hung", "dead"}
  /\ watcher \in {"off", "reading", "resting", "tripping", "over"}
  /\ production \in {"inactive", "activating", "active"}
  /\ started \in {"no", "ok", "failed"} /\ exit \in {"running", "ok", "failed"}
FlagOK ==
  /\ handle \in BOOLEAN /\ stopGuard \in BOOLEAN /\ tripped \in BOOLEAN /\ late \in BOOLEAN
  /\ restore \in BOOLEAN /\ taken \in BOOLEAN /\ archived \in BOOLEAN /\ cut \in BOOLEAN
CountOK == left \in 0..Requests /\ low \in 0..LowSamples /\ signals \in 0..MaxSignals
VerdictOK == verdicts \in [1..2 -> Verdicts] /\ report \in Verdicts \cup {"absent"}

\* The four parts together are TypeOK.
LEMMA TypeParts == TypeOK <=> PlaceOK /\ FlagOK /\ CountOK /\ VerdictOK
BY DEF TypeOK, PlaceOK, FlagOK, CountOK, VerdictOK

\* Every step leads to a place of the program, and to states a process can be in.
LEMMA PlaceStep ==
  ASSUME PlaceOK, [Next]_vars
  PROVE  PlaceOK'
<1> USE DEF PlaceOK, Rest, Running, trial, service, guard, results, Leave, Raise, Probing,
            Cleanup, Alive
<1>1. CASE CheckFails \/ Checked \/ Ask \/ StopProduction \/ StopFails
  BY <1>1 DEF CheckFails, Checked, Ask, StopProduction, StopFails, StopCut
<1>2. CASE Spawn \/ SpawnFails \/ Ready \/ ReadyFails \/ Send \/ Post \/ PostFails
  BY <1>2 DEF Spawn, SpawnFails, Ready, ReadyFails, Send, Post, PostFails
<1>3. CASE Answer \/ AnswerBad \/ Judge
  BY <1>3 DEF Answer, AnswerBad, Judge, AfterAnswers
<1>4. CASE StopWatcher \/ Join \/ CheckTripped \/ CheckWatcher \/ Unwind
  BY <1>4 DEF StopWatcher, Join, CheckTripped, CheckWatcher, Unwind, Distrust
<1>5. CASE StopServer \/ StopTimesOut \/ Except
  BY <1>5 DEF StopServer, StopTimesOut, Except, Counted
<1>6. CASE FinallyStop \/ FinallyStopTimesOut \/ RestoreProduction
  BY <1>6 DEF FinallyStop, FinallyStopTimesOut, RestoreProduction, StartProduction
<1>7. CASE WriteResults \/ Archive \/ WriteFails
  BY <1>7 DEF WriteResults, Archive, WriteFails
<1>8. CASE Watcher
  BY <1>8 DEF Watcher, Sample, WatcherFails, WatcherLoops, Terminate
<1>9. CASE Signal
  BY <1>9 DEF Signal, SignalEarly, SignalInTry, SignalInHandler, SignalInCleanup, Signalled,
     StopCut
<1>10. CASE ServerMoves
  BY <1>10 DEF ServerMoves
<1>11. CASE ProductionMoves \/ UNCHANGED vars
  BY <1>11 DEF ProductionMoves, vars
<1> QED
  BY <1>1, <1>2, <1>3, <1>4, <1>5, <1>6, <1>7, <1>8, <1>9, <1>10, <1>11 DEF Next, TrialStep

\* The flags stay Boolean, also where a comparison is assigned to one.
LEMMA FlagStep ==
  ASSUME FlagOK, [Next]_vars
  PROVE  FlagOK'
<1> USE DEF FlagOK, Rest, Running, service, guard, results, Leave
<1>1. CASE CheckFails \/ Checked \/ StopProduction \/ StopFails
  BY <1>1 DEF CheckFails, Checked, StopProduction, StopFails, StopCut
<1>2. CASE Ask
  <2>1. restore' \in BOOLEAN
    BY <1>2 DEF Ask
  <2> QED
    BY <1>2, <2>1 DEF Ask
<1>3. CASE Spawn \/ SpawnFails \/ Ready \/ ReadyFails \/ Send \/ Post \/ PostFails
           \/ Answer \/ AnswerBad \/ Judge
  BY <1>3 DEF Spawn, SpawnFails, Ready, ReadyFails, Send, Post, PostFails, Answer, AnswerBad,
     Judge
<1>4. CASE StopWatcher \/ CheckTripped \/ CheckWatcher \/ Unwind
  BY <1>4 DEF StopWatcher, CheckTripped, CheckWatcher, Unwind
<1>5. CASE Join
  <2>1. late' \in BOOLEAN
    BY <1>5 DEF Join
  <2> QED
    BY <1>5, <2>1 DEF Join
<1>6. CASE StopServer \/ StopTimesOut \/ Except \/ FinallyStop \/ FinallyStopTimesOut
           \/ RestoreProduction \/ WriteResults \/ Archive \/ WriteFails
  BY <1>6 DEF StopServer, StopTimesOut, Except, FinallyStop, FinallyStopTimesOut,
     RestoreProduction, WriteResults, Archive, WriteFails
<1>7. CASE Sample
  <2>1. tripped' \in BOOLEAN
    BY <1>7 DEF Sample, guard_reason
  <2> QED
    BY <1>7, <2>1 DEF Sample
<1>8. CASE WatcherFails \/ WatcherLoops \/ Terminate
  BY <1>8 DEF WatcherFails, WatcherLoops, Terminate
<1>9. CASE Signal
  BY <1>9 DEF Signal, SignalEarly, SignalInTry, SignalInHandler, SignalInCleanup, StopCut
<1>10. CASE ServerMoves \/ ProductionMoves \/ UNCHANGED vars
  BY <1>10 DEF ServerMoves, ProductionMoves, vars
<1> QED
  BY <1>1, <1>2, <1>3, <1>4, <1>5, <1>6, <1>7, <1>8, <1>9, <1>10 DEF Next, TrialStep, Watcher

\* A verdict is written by Judge, taken back by Distrust, and copied to the report.
LEMMA VerdictStep ==
  ASSUME PlaceOK, VerdictOK, [Next]_vars
  PROVE  VerdictOK'
<1> USE DEF VerdictOK, Verdicts, trial, results
<1>1. CASE Judge
  <2>1. arm \in 1..2
    BY DEF PlaceOK
  <2>2. PICK v \in Verdicts : verdicts' = [verdicts EXCEPT ![arm] = v]
    BY <1>1 DEF Judge
  <2>3. report' = report
    BY <1>1 DEF Judge
  <2> QED
    BY <2>1, <2>2, <2>3
<1>2. CASE CheckTripped \/ CheckWatcher
  <2>1. arm \in 1..2
    BY DEF PlaceOK
  <2>2. report' = report /\ (verdicts' = verdicts \/ verdicts' = [verdicts EXCEPT ![arm] = "none"])
    BY <1>2 DEF CheckTripped, CheckWatcher, Distrust
  <2> QED
    BY <2>1, <2>2
<1>3. CASE WriteResults
  BY <1>3 DEF WriteResults
<1>4. CASE ~Judge /\ ~CheckTripped /\ ~CheckWatcher /\ ~WriteResults
  <2>1. UNCHANGED <<verdicts, report>>
    BY <1>4 DEF Next, TrialStep, Watcher, Signal, vars, Rest, CheckFails, Checked, Ask,
       StopProduction, StopFails, Spawn, SpawnFails, Ready, ReadyFails, Send, Post, PostFails,
       Answer, AnswerBad, StopWatcher, Join, Unwind, StopServer, StopTimesOut, Except,
       FinallyStop, FinallyStopTimesOut, RestoreProduction, Archive, WriteFails, Sample,
       WatcherFails, WatcherLoops, Terminate, SignalEarly, SignalInTry, SignalInHandler,
       SignalInCleanup, ServerMoves, ProductionMoves
  <2> QED
    BY <2>1
<1> QED
  BY <1>1, <1>2, <1>3, <1>4

\* The counters, together with what bounds them.
LEMMA CountStep ==
  ASSUME PlaceOK, CountOK, WatcherInv, [Next]_vars
  PROVE  CountOK' /\ WatcherInv'
<1> USE SmokeAssumption
    DEF CountOK, WatcherInv, LowSamples, Rest, Running, trial, guard, Leave, Raise, Long,
        Before, Requesting, Probing
<1>1. CASE CheckFails \/ Checked \/ Ask \/ StopProduction \/ StopFails
  BY <1>1 DEF CheckFails, Checked, Ask, StopProduction, StopFails
<1>2. CASE Spawn \/ SpawnFails \/ ReadyFails
  BY <1>2 DEF Spawn, SpawnFails, ReadyFails
<1>3. CASE Ready
  BY <1>3 DEF Ready
<1>4. CASE Send \/ Post \/ PostFails \/ AnswerBad
  BY <1>4 DEF Send, Post, PostFails, AnswerBad
<1>5. CASE Answer
  BY <1>5 DEF Answer, AfterAnswers
<1>6. CASE Judge \/ StopWatcher \/ Join \/ Unwind
  BY <1>6 DEF Judge, StopWatcher, Join, Unwind
<1>7. CASE CheckTripped \/ CheckWatcher
  BY <1>7 DEF CheckTripped, CheckWatcher, Distrust
<1>8. CASE StopServer \/ StopTimesOut \/ Except
  BY <1>8 DEF StopServer, StopTimesOut, Except
<1>9. CASE FinallyStop \/ FinallyStopTimesOut \/ RestoreProduction \/ WriteResults \/ Archive
           \/ WriteFails
  BY <1>9 DEF FinallyStop, FinallyStopTimesOut, RestoreProduction, WriteResults, Archive,
     WriteFails
<1>10. CASE Sample
  BY <1>10 DEF Sample, guard_reason, PlaceOK
<1>11. CASE WatcherFails \/ WatcherLoops \/ Terminate
  BY <1>11 DEF WatcherFails, WatcherLoops, Terminate
<1>12. CASE Signal
  BY <1>12 DEF Signal, SignalEarly, SignalInTry, SignalInHandler, SignalInCleanup, Signalled,
     Cleanup
<1>13. CASE ServerMoves \/ ProductionMoves \/ UNCHANGED vars
  BY <1>13 DEF ServerMoves, ProductionMoves, vars
<1> QED
  BY <1>1, <1>2, <1>3, <1>4, <1>5, <1>6, <1>7, <1>8, <1>9, <1>10, <1>11, <1>12, <1>13
     DEF Next, TrialStep, Watcher

TypeInv == TypeOK /\ WatcherInv

\* TypeInv holds in every state the trial starts in, and every step keeps it.
LEMMA TypeInit ==
  ASSUME Init
  PROVE  TypeInv
<1>1. PlaceOK
  BY DEF Init, PlaceOK
<1>2. FlagOK
  BY DEF Init, FlagOK
<1>3. CountOK /\ WatcherInv
  BY SmokeAssumption DEF Init, CountOK, WatcherInv, LowSamples, Requesting
<1>4. VerdictOK
  BY DEF Init, VerdictOK, Verdicts
<1> QED
  BY <1>1, <1>2, <1>3, <1>4, TypeParts DEF TypeInv

\* Every step keeps TypeInv.
LEMMA TypeStep ==
  ASSUME TypeInv, [Next]_vars
  PROVE  TypeInv'
<1>1. PlaceOK /\ FlagOK /\ CountOK /\ VerdictOK /\ WatcherInv
  BY TypeParts DEF TypeInv
<1>2. PlaceOK' /\ FlagOK' /\ CountOK' /\ VerdictOK' /\ WatcherInv'
  BY <1>1, PlaceStep, FlagStep, CountStep, VerdictStep
<1>3. TypeOK'
  BY <1>2 DEF TypeOK, PlaceOK, FlagOK, CountOK, VerdictOK
<1> QED
  BY <1>2, <1>3 DEF TypeInv

\* Every variable stays within its type, whatever the main thread, the watcher,
\* the signals and the two services do between two steps of one another.
THEOREM TypeCorrect == Spec => []TypeOK
<1>1. TypeInv => TypeOK
  BY DEF TypeInv
<1> QED
  BY <1>1, TypeInit, TypeStep, PTL DEF Spec

-----------------------------------------------------------------------------
(* One holder of the GPU *)

\* Taking over goes stop, spawn; giving back goes stop the server, start production.
LEMMA GpuStep ==
  ASSUME PlaceOK, FlagOK, GpuInv, [Next]_vars
  PROVE  GpuInv'
<1> USE DEF PlaceOK, FlagOK, GpuInv, Before, Probing, Alive, Rest, trial, service, Leave, Raise
<1>1. CASE CheckFails \/ Checked \/ Ask
  BY <1>1 DEF CheckFails, Checked, Ask
<1>2. CASE StopProduction \/ StopFails
  BY <1>2 DEF StopProduction, StopFails, StopCut
<1>3. CASE Spawn \/ SpawnFails
  BY <1>3 DEF Spawn, SpawnFails
<1>4. CASE Ready \/ ReadyFails \/ Send \/ Post \/ PostFails
  BY <1>4 DEF Ready, ReadyFails, Send, Post, PostFails
<1>5. CASE Answer \/ AnswerBad \/ Judge
  BY <1>5 DEF Answer, AnswerBad, Judge, AfterAnswers
<1>6. CASE StopWatcher \/ Join \/ CheckTripped \/ CheckWatcher \/ Unwind
  BY <1>6 DEF StopWatcher, Join, CheckTripped, CheckWatcher, Unwind, Distrust
<1>7. CASE StopServer
  BY <1>7 DEF StopServer
<1>8. CASE StopTimesOut \/ Except
  BY <1>8 DEF StopTimesOut, Except
<1>9. CASE FinallyStop \/ FinallyStopTimesOut
  BY <1>9 DEF FinallyStop, FinallyStopTimesOut
<1>10. CASE RestoreProduction
  BY <1>10 DEF RestoreProduction, StartProduction
<1>11. CASE WriteResults \/ Archive \/ WriteFails
  BY <1>11 DEF WriteResults, Archive, WriteFails
<1>12. CASE Sample \/ WatcherFails \/ WatcherLoops
  BY <1>12 DEF Sample, WatcherFails, WatcherLoops
<1>13. CASE Terminate
  BY <1>13 DEF Terminate
<1>14. CASE SignalEarly \/ SignalInHandler
  BY <1>14 DEF SignalEarly, SignalInHandler
<1>15. CASE SignalInTry
  BY <1>15 DEF SignalInTry, StopCut, Cleanup
<1>16. CASE SignalInCleanup
  BY <1>16 DEF SignalInCleanup, Cleanup
<1>17. CASE ServerMoves
  BY <1>17 DEF ServerMoves
<1>18. CASE ProductionMoves \/ UNCHANGED vars
  BY <1>18 DEF ProductionMoves, vars
<1> QED
  BY <1>1, <1>2, <1>3, <1>4, <1>5, <1>6, <1>7, <1>8, <1>9, <1>10, <1>11, <1>12, <1>13,
     <1>14, <1>15, <1>16, <1>17, <1>18 DEF Next, TrialStep, Watcher, Signal

\* The trial's server and a production service the trial has taken down never
\* hold the GPU together: the stop is waited for before the server is spawned,
\* and the server's end before production is started again.
THEOREM TrialIsAlone == Spec => []TrialAlone
<1>1. Init => GpuInv
  BY DEF Init, GpuInv, Probing
<1>2. GpuInv => TrialAlone
  BY DEF GpuInv, TrialAlone
<1>3. TypeInv => PlaceOK /\ FlagOK
  BY TypeParts DEF TypeInv
<1> QED
  BY <1>1, <1>2, <1>3, TypeInit, TypeStep, GpuStep, PTL DEF Spec

-----------------------------------------------------------------------------
(* Production put back *)

\* The record of what was taken is kept until the cleanup has acted on it.
LEMMA RestoreStep ==
  ASSUME PlaceOK, FlagOK, RestoreInv, [Next]_vars
  PROVE  RestoreInv'
<1> USE DEF PlaceOK, FlagOK, RestoreInv, Probing, Rest, Running, trial, service, Leave, Raise
<1>1. CASE CheckFails \/ Checked \/ Ask
  BY <1>1 DEF CheckFails, Checked, Ask
<1>2. CASE StopProduction \/ StopFails
  BY <1>2 DEF StopProduction, StopFails, StopCut
<1>3. CASE Spawn \/ SpawnFails \/ Ready \/ ReadyFails \/ Send \/ Post \/ PostFails
  BY <1>3 DEF Spawn, SpawnFails, Ready, ReadyFails, Send, Post, PostFails
<1>4. CASE Answer \/ AnswerBad \/ Judge
  BY <1>4 DEF Answer, AnswerBad, Judge, AfterAnswers
<1>5. CASE StopWatcher \/ Join \/ CheckTripped \/ CheckWatcher \/ Unwind
  BY <1>5 DEF StopWatcher, Join, CheckTripped, CheckWatcher, Unwind, Distrust
<1>6. CASE StopServer \/ StopTimesOut \/ Except \/ FinallyStop \/ FinallyStopTimesOut
  BY <1>6 DEF StopServer, StopTimesOut, Except, FinallyStop, FinallyStopTimesOut
<1>7. CASE RestoreProduction
  BY <1>7 DEF RestoreProduction, StartProduction
<1>8. CASE WriteResults \/ Archive \/ WriteFails
  BY <1>8 DEF WriteResults, Archive, WriteFails
<1>9. CASE Watcher
  BY <1>9 DEF Watcher, Sample, WatcherFails, WatcherLoops, Terminate
<1>10. CASE SignalEarly \/ SignalInTry \/ SignalInHandler
  BY <1>10 DEF SignalEarly, SignalInTry, SignalInHandler, StopCut, Cleanup
<1>11. CASE SignalInCleanup
  BY <1>11 DEF SignalInCleanup, Cleanup
<1>12. CASE ServerMoves \/ ProductionMoves \/ UNCHANGED vars
  BY <1>12 DEF ServerMoves, ProductionMoves, vars
<1> QED
  BY <1>1, <1>2, <1>3, <1>4, <1>5, <1>6, <1>7, <1>8, <1>9, <1>10, <1>11, <1>12
     DEF Next, TrialStep, Signal

\* A production service the trial has stopped is started again whatever failed,
\* as long as the cleanup itself is left to run; a service that was not found
\* active is never started.
THEOREM ProductionRestored == Spec => []Restored
<1>1. Init => RestoreInv
  BY DEF Init, RestoreInv
<1>2. RestoreInv => Restored
  BY DEF RestoreInv, Restored
<1>3. TypeInv => PlaceOK /\ FlagOK
  BY TypeParts DEF TypeInv
<1> QED
  BY <1>1, <1>2, <1>3, TypeInit, TypeStep, RestoreStep, PTL DEF Spec

-----------------------------------------------------------------------------
(* A PASS under a quiet guard *)

\* A watcher that is over samples no more: what the join has seen stays true.
LEMMA QuietKept ==
  ASSUME [Next]_vars, ~Join, ~Ready
  PROVE  /\ late' = late
         /\ watcher = "over" => watcher' = "over" /\ tripped' = tripped
<1>1. CASE Sample \/ WatcherFails \/ WatcherLoops \/ Terminate
  BY <1>1 DEF Sample, WatcherFails, WatcherLoops, Terminate
<1>2. CASE ~Watcher
  BY <1>2 DEF Next, TrialStep, Signal, vars, guard, Rest, CheckFails, Checked, Ask,
     StopProduction, StopFails, Spawn, SpawnFails, ReadyFails, Send, Post, PostFails, Answer,
     AnswerBad, Judge, StopWatcher, CheckTripped, CheckWatcher, Unwind, StopServer,
     StopTimesOut, Except, FinallyStop, FinallyStopTimesOut, RestoreProduction, WriteResults,
     Archive, WriteFails, SignalEarly, SignalInTry, SignalInHandler, SignalInCleanup,
     ServerMoves, ProductionMoves
<1> QED
  BY <1>1, <1>2 DEF Watcher

\* The saturation mode reaches its verdict only over join, tripped and alive.
LEMMA GuardStep ==
  ASSUME PlaceOK, VerdictOK, GuardInv, [Next]_vars
  PROVE  GuardInv'
<1> USE DEF GuardInv, Before, Probing, Cleanup, Long, Rest, Running, trial, guard, results,
            Leave, Raise
<1>1. CASE Join
  BY <1>1 DEF Join, Joined, Quiet
<1>2. CASE Ready
  BY <1>2 DEF Ready, Joined, Quiet
<1>3. CASE ~Join /\ ~Ready
  <2>0. (Joined => Joined') /\ (Quiet => Quiet')
    BY <1>3, QuietKept DEF Joined, Quiet
  <2>1. CASE CheckFails \/ Checked \/ Ask \/ StopProduction \/ StopFails \/ Spawn \/ SpawnFails
             \/ ReadyFails
    BY <2>0, <2>1 DEF CheckFails, Checked, Ask, StopProduction, StopFails, Spawn, SpawnFails,
       ReadyFails
  <2>2. CASE Send \/ Post \/ PostFails \/ AnswerBad
    BY <2>0, <2>2 DEF Send, Post, PostFails, AnswerBad
  <2>3. CASE Answer
    BY <2>0, <2>3 DEF Answer, AfterAnswers
  <2>4. CASE Judge
    <3>1. PICK v \in {"PASS", "INVALID", "FAIL"} : verdicts' = [verdicts EXCEPT ![arm] = v]
      BY <2>4 DEF Judge
    <3>2. /\ pc = "judge" /\ pc' = IF mode = "retention" THEN "join" ELSE "teardown"
          /\ UNCHANGED <<mode, late, watcher, tripped, report>>
      BY <2>4 DEF Judge
    <3> QED
      BY <2>0, <3>1, <3>2 DEF PlaceOK, VerdictOK, Modes
  <2>5. CASE StopWatcher \/ Unwind
    BY <2>0, <2>5 DEF StopWatcher, Unwind
  <2>6. CASE CheckTripped
    <3>1. verdicts' = verdicts \/ verdicts' = [verdicts EXCEPT ![arm] = "none"]
      BY <2>6 DEF CheckTripped, Distrust
    <3>2. verdicts'[1] = "PASS" => verdicts[1] = "PASS"
      BY <3>1 DEF VerdictOK
    <3>3. /\ pc = "tripped" /\ UNCHANGED <<mode, late, watcher, tripped, report>>
          /\ pc' \in {"unwind", "except", "alive"} /\ (pc' = "alive" => ~tripped)
      BY <2>6 DEF CheckTripped, Distrust
    <3> QED
      BY <2>0, <3>2, <3>3 DEF Joined, Quiet
  <2>7. CASE CheckWatcher
    <3>1. verdicts' = verdicts \/ verdicts' = [verdicts EXCEPT ![arm] = "none"]
      BY <2>7 DEF CheckWatcher, Distrust
    <3>2. verdicts'[1] = "PASS" => verdicts[1] = "PASS"
      BY <3>1 DEF VerdictOK
    <3>3. /\ pc = "alive" /\ UNCHANGED <<mode, late, watcher, tripped, report>>
          /\ pc' \in {"unwind", "except"} \cup (IF mode = "capacity" THEN {"judge"} ELSE {"teardown"})
      BY <2>7 DEF CheckWatcher, Distrust
    <3> QED
      BY <2>0, <3>2, <3>3
  <2>8. CASE StopServer
    BY <2>0, <2>8 DEF StopServer
  <2>9. CASE StopTimesOut \/ Except \/ FinallyStop \/ FinallyStopTimesOut
             \/ RestoreProduction
    BY <2>0, <2>9 DEF StopTimesOut, Except, FinallyStop, FinallyStopTimesOut,
       RestoreProduction
  <2>10. CASE WriteResults \/ Archive \/ WriteFails
    BY <2>0, <2>10 DEF WriteResults, Archive, WriteFails
  <2>11. CASE Watcher
    BY <2>0, <2>11 DEF Watcher, Sample, WatcherFails, WatcherLoops, Terminate
  <2>12. CASE Signal
    BY <2>0, <2>12 DEF Signal, SignalEarly, SignalInTry, SignalInHandler, SignalInCleanup,
       Signalled
  <2>13. CASE ServerMoves \/ ProductionMoves \/ UNCHANGED vars
    BY <2>0, <2>13 DEF ServerMoves, ProductionMoves, vars
  <2> QED
    BY <1>3, <2>1, <2>2, <2>3, <2>4, <2>5, <2>6, <2>7, <2>8, <2>9, <2>10, <2>11, <2>12, <2>13
       DEF Next, TrialStep
<1> QED
  BY <1>1, <1>2, <1>3

\* A saturation verdict of PASS is only ever written to results.json by a trial
\* whose memory guard never tripped, unless the watcher outlived its join.
THEOREM PassIsGuarded == Spec => []PassUnderGuard
<1>1. Init => GuardInv
  BY DEF Init, GuardInv, Verdicts
<1>2. GuardInv => PassUnderGuard
  BY DEF GuardInv, PassUnderGuard, Quiet
<1>3. TypeInv => PlaceOK /\ VerdictOK
  BY TypeParts DEF TypeInv
<1> QED
  BY <1>1, <1>2, <1>3, TypeInit, TypeStep, GuardStep, PTL DEF Spec

-----------------------------------------------------------------------------
(* What exit status 0 stands for *)

\* Status 0 is lost by every failure and never set again.
LEMMA StatusStep ==
  ASSUME PlaceOK, FlagOK, VerdictOK, GuardInv, StatusInv, [Next]_vars
  PROVE  StatusInv'
<1> USE DEF StatusInv, Probing, Cleanup, Rest, Running, trial, service, results, Leave, Raise
<1>1. CASE Join
  BY <1>1 DEF Join
<1>2. CASE Ready
  BY <1>2 DEF Ready
<1>3. CASE ~Join /\ ~Ready
  <2>0. Quiet => Quiet'
    BY <1>3, QuietKept DEF Quiet
  <2>1. CASE CheckFails \/ Checked \/ Ask \/ StopProduction \/ StopFails \/ Spawn \/ SpawnFails
             \/ ReadyFails \/ Send \/ Post \/ PostFails \/ AnswerBad
    BY <2>1 DEF CheckFails, Checked, Ask, StopProduction, StopFails, Spawn, SpawnFails,
       ReadyFails, Send, Post, PostFails, AnswerBad
  <2>2. CASE Answer \/ StopWatcher \/ Unwind
    BY <2>2 DEF Answer, AfterAnswers, StopWatcher, Unwind
  <2>3. CASE Judge
    <3>1. PICK v \in {"PASS", "INVALID", "FAIL"} : verdicts' = [verdicts EXCEPT ![arm] = v]
      BY <2>3 DEF Judge
    <3>2. /\ pc = "judge" /\ pc' \in {"join", "teardown"}
          /\ UNCHANGED <<mode, arm, status, exit>>
      BY <2>3 DEF Judge
    <3> QED
      BY <3>1, <3>2 DEF VerdictOK
  <2>4. CASE CheckTripped \/ CheckWatcher
    <3>1. mode # "retention" => verdicts' = verdicts
      BY <2>4 DEF CheckTripped, CheckWatcher, Distrust
    <3>2. /\ pc \in {"tripped", "alive"} /\ pc' \in {"unwind", "except", "alive", "judge", "teardown"}
          /\ UNCHANGED <<mode, arm, status, exit>>
      BY <2>4 DEF CheckTripped, CheckWatcher, Distrust
    <3> QED
      BY <3>1, <3>2
  <2>5. CASE StopServer
    <3>1. /\ pc = "teardown" /\ status' = Counted /\ server' = "dead" /\ handle' = FALSE
          /\ UNCHANGED <<mode, verdicts, late, watcher, tripped, exit>>
      BY <2>5 DEF StopServer, guard
    <3>2. status' = 0 => verdicts[arm] = "PASS" /\ status = 0
      BY <3>1 DEF Counted
    <3>3. Long => Quiet'
      BY <2>0, <3>1 DEF GuardInv, Long
    <3>4. CASE mode = "repeat" /\ arm = 1
      BY <2>5, <3>1, <3>2, <3>4 DEF StopServer
    <3>5. CASE ~(mode = "repeat" /\ arm = 1)
      BY <2>5, <3>1, <3>2, <3>3, <3>5 DEF StopServer, Whole, PlaceOK, Long
    <3> QED
      BY <3>4, <3>5
  <2>6. CASE StopTimesOut
    BY <2>6 DEF StopTimesOut, Counted
  <2>7. CASE Except
    BY <2>7 DEF Except
  <2>8. CASE FinallyStop \/ FinallyStopTimesOut
    BY <2>0, <2>8 DEF FinallyStop, FinallyStopTimesOut, Whole, Long
  <2>9. CASE RestoreProduction
    BY <2>0, <2>9 DEF RestoreProduction, StartProduction, Whole, Long
  <2>10. CASE WriteResults
    BY <2>0, <2>10 DEF WriteResults, Whole, Long
  <2>11. CASE Archive \/ WriteFails
    BY <2>0, <2>11 DEF Archive, WriteFails, Whole, Long
  <2>12. CASE Watcher
    BY <2>0, <2>12 DEF Watcher, Sample, WatcherFails, WatcherLoops, Terminate, Whole, Long,
       Alive
  <2>13. CASE Signal
    BY <2>0, <2>13 DEF Signal, SignalEarly, SignalInTry, SignalInHandler, SignalInCleanup,
       Signalled, Whole, Long
  <2>14. CASE ServerMoves
    BY <2>0, <2>14 DEF ServerMoves, Whole, Long, Alive
  <2>15. CASE ProductionMoves \/ UNCHANGED vars
    BY <2>0, <2>15 DEF ProductionMoves, vars, Whole, Long
  <2> QED
    BY <1>3, <2>1, <2>2, <2>3, <2>4, <2>5, <2>6, <2>7, <2>8, <2>9, <2>10, <2>11, <2>12, <2>13,
       <2>14, <2>15 DEF Next, TrialStep
<1> QED
  BY <1>1, <1>2, <1>3

\* Exit status 0 means that every server of the trial passed, the guard stayed
\* quiet while they did, production was put back, the trial's server is gone and
\* the archive is written.
THEOREM SuccessMeansWhole == Spec => []SuccessIsWhole
<1>1. Init => GuardInv /\ StatusInv
  BY DEF Init, GuardInv, StatusInv, Verdicts, Cleanup
<1>2. PlaceOK /\ StatusInv => SuccessIsWhole
  BY DEF PlaceOK, StatusInv, SuccessIsWhole, Whole, Quiet, Alive
<1>3. TypeInv => PlaceOK /\ FlagOK /\ VerdictOK
  BY TypeParts DEF TypeInv
<1> QED
  BY <1>1, <1>2, <1>3, TypeInit, TypeStep, GuardStep, StatusStep, PTL DEF Spec
=============================================================================
