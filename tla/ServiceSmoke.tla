---------------------------- MODULE ServiceSmoke ----------------------------
(***************************************************************************)
(* qwen_strix_service_smoke.py --run with qwen_strix_capacity.py: a trial  *)
(* that takes the production service off the GPU, runs one server (two in  *)
(* the repeat mode) of its own, judges its answers, and puts production    *)
(* back from a finally block.  In the two long modes a watcher thread      *)
(* samples memory beside the requests and terminates the trial's server    *)
(* when RAM runs out or swap grows.  Signals, errors and the service's own *)
(* restarts may come between any two steps.                                *)
(***************************************************************************)
EXTENDS Naturals

CONSTANTS
  Requests,     \* bound: requests of one server before its verdict
  MaxSignals    \* bound: SIGINT or SIGTERM sent to the trial

ASSUME SmokeAssumption == Requests \in Nat \ {0} /\ MaxSignals \in Nat

Modes == {"smoke", "repeat", "capacity", "retention"}
Verdicts == {"none", "PASS", "FAIL", "INVALID"}   \* INVALID: not PASS, not FAIL
LowSamples == 3                                   \* low samples in a row

VARIABLES
  mode,        \* which validation was asked for; never changes
  pc, arm,     \* the main thread's next step; 1, or 2 for the MTP-off server
  left,        \* requests still to make of this server
  server,      \* the trial's server process
  handle,      \* the variable server is set: the process can be stopped
  watcher,     \* the memory watcher thread of the long modes
  stopGuard,   \* its stop event
  low,         \* low samples in a row
  tripped,     \* guard["tripped"]
  late,        \* the watcher outlived its join (history)
  verdicts,    \* per arm
  status,      \* the exit status so far
  production,  \* the production service, as systemd reports it
  restore,     \* production was active when the trial asked
  taken,       \* the trial stopped an active production (history)
  started,     \* its start of production: no, ok or failed
  report,      \* the verdict in results.json
  archived,    \* the archive and its checksum are written
  exit,        \* running, then ok (status 0) or failed
  cut,         \* the cleanup did not run to its end (history)
  signals      \* signals received

guard == <<watcher, stopGuard, low, tripped, late>>
trial == <<mode, arm, left, verdicts>>
service == <<production, taken, started>>
results == <<report, archived>>
vars == <<pc, trial, server, handle, guard, status, service, restore, results,
          exit, cut, signals>>

Long == mode \in {"capacity", "retention"}
Alive == server \in {"starting", "up", "hung"}
\* Where an exception of the try body goes; the long modes unwind the watcher.
Probing == {"send", "post", "answer", "judge", "join", "joining",
            "tripped", "alive"}
Cleanup == {"f_stop", "f_restore", "f_write", "f_archive"}
Raise == pc' = IF Long /\ pc \in Probing THEN "unwind" ELSE "except"
Leave(how, short) == pc' = "ended" /\ exit' = how /\ cut' = (cut \/ short)
Running == UNCHANGED <<exit, cut, signals>>
Rest == UNCHANGED <<trial, server, handle, guard, status, service, restore, results>>
        /\ Running

-----------------------------------------------------------------------------
(* Taking over from production *)

\* Revision, files, markers, the port and the sudo credential; none of it
\* touches the service.
CheckFails ==
  /\ pc = "checks" /\ Leave("failed", FALSE)
  /\ UNCHANGED <<trial, server, handle, guard, status, service, restore, results, signals>>

Checked ==
  /\ pc = "checks" /\ pc' = "ask"
  /\ Rest

\* systemctl is-active says no to a service that is only coming up.
Ask ==
  /\ pc = "ask"
  /\ restore' = (production = "active")
  /\ pc' = IF restore' THEN "stop" ELSE "spawn"
  /\ UNCHANGED <<trial, server, handle, guard, status, service, results>> /\ Running

StopProduction ==
  /\ pc = "stop" /\ pc' = "spawn"
  /\ production' = "inactive" /\ taken' = TRUE
  /\ UNCHANGED <<trial, server, handle, guard, status, started, restore, results>> /\ Running

\* systemctl stop fails or is interrupted; the service may stop all the same.
StopCut ==
  \/ UNCHANGED <<production, taken>>
  \/ production' = "inactive" /\ taken' = TRUE

MutantStopFails ==
  /\ pc = "stop" /\ StopCut /\ pc' = "spawn"
  /\ UNCHANGED <<trial, server, handle, guard, status, started, restore, results>> /\ Running

StopFails ==
  /\ pc = "stop" /\ StopCut /\ Raise
  /\ UNCHANGED <<trial, server, handle, guard, status, started, restore, results>> /\ Running

-----------------------------------------------------------------------------
(* One server and its requests *)

Spawn ==
  /\ pc = "spawn" /\ pc' = "ready"
  /\ server' = "starting" /\ handle' = TRUE
  /\ UNCHANGED <<trial, guard, status, service, restore, results>> /\ Running

SpawnFails ==
  /\ pc = "spawn" /\ Raise
  /\ Rest

\* /health, /props; then the long modes start the watcher.
Ready ==
  /\ pc = "ready" /\ server = "up" /\ pc' = "send"
  /\ left' = Requests
  /\ watcher' = IF Long THEN "reading" ELSE "off"
  /\ UNCHANGED <<mode, arm, verdicts, server, handle, stopGuard, low, tripped, late,
                 status, service, restore, results>> /\ Running

\* The server exited, the 600 seconds are over, or /props is not as asked.
ReadyFails ==
  /\ pc = "ready" /\ Raise
  /\ Rest

Send ==
  /\ pc = "send"
  /\ IF tripped THEN Raise ELSE pc' = "post"
  /\ Rest

Post ==
  /\ pc = "post" /\ server = "up" /\ pc' = "answer"
  /\ Rest

MutantPostFails == FALSE

\* Every request has a timeout.
PostFails ==
  /\ pc = "post" /\ Raise
  /\ Rest

\* The capacity mode stops the watcher before it judges, the retention mode
\* after, as retention_probes sets the verdict itself.
MutantAfterAnswers == "judge"
AfterAnswers == IF mode = "capacity" THEN "join" ELSE "judge"

Answer ==
  /\ pc = "answer"
  /\ IF tripped THEN Raise /\ UNCHANGED left
     ELSE left' = left - 1 /\ pc' = IF left' > 0 THEN "send" ELSE AfterAnswers
  /\ UNCHANGED <<mode, arm, verdicts, server, handle, guard, status, service,
                 restore, results>> /\ Running

\* A degenerate answer, a cache that did not fill, a restore not seen.
AnswerBad ==
  /\ pc = "answer" /\ Raise
  /\ Rest

Judge ==
  /\ pc = "judge"
  /\ \E v \in IF mode = "repeat" THEN {"PASS", "INVALID"} ELSE {"PASS", "FAIL"} :
       verdicts' = [verdicts EXCEPT ![arm] = v]
  /\ pc' = IF mode = "retention" THEN "join" ELSE "teardown"
  /\ UNCHANGED <<mode, arm, left, server, handle, guard, status, service, restore,
                 results>> /\ Running

-----------------------------------------------------------------------------
(* The watcher, and its end *)

\* Three low samples in a row, or swap that grew.
MutantGuardReason(samples, swapped) == samples > LowSamples \/ swapped
guard_reason(samples, swapped) == samples >= LowSamples \/ swapped

Sample ==
  /\ watcher = "reading"
  /\ \E below, swapped \in BOOLEAN :
       /\ low' = IF below THEN low + 1 ELSE 0
       /\ tripped' = guard_reason(low', swapped)
  /\ watcher' = IF tripped' THEN "tripping" ELSE "resting"
  /\ UNCHANGED <<pc, trial, server, handle, stopGuard, late, status, service,
                 restore, results>> /\ Running

\* Any error of the watcher counts as a trip.
WatcherFails ==
  /\ watcher = "reading" /\ watcher' = "tripping" /\ tripped' = TRUE
  /\ UNCHANGED <<pc, trial, server, handle, stopGuard, low, late, status, service,
                 restore, results>> /\ Running

WatcherLoops ==
  /\ watcher = "resting"
  /\ watcher' = IF stopGuard THEN "over" ELSE "reading"
  /\ UNCHANGED <<pc, trial, server, handle, stopGuard, low, tripped, late, status,
                 service, restore, results>> /\ Running

\* server.terminate(): the process may take its time.
Terminate ==
  /\ watcher = "tripping" /\ watcher' = "over"
  /\ server' \in IF Alive THEN {server, "dead"} ELSE {server}
  /\ UNCHANGED <<pc, trial, handle, stopGuard, low, tripped, late, status, service,
                 restore, results>> /\ Running

StopWatcher ==
  /\ pc = "join" /\ stopGuard' = TRUE /\ pc' = "joining"
  /\ UNCHANGED <<trial, server, handle, watcher, low, tripped, late, status, service,
                 restore, results>> /\ Running

\* join(timeout=3): the thread ended, or it did not in time.
Join ==
  /\ pc = "joining" /\ pc' = "tripped"
  /\ late' = (watcher # "over")
  /\ UNCHANGED <<trial, server, handle, watcher, stopGuard, low, tripped, status,
                 service, restore, results>> /\ Running

\* guard["tripped"] is read first, then watcher.is_alive().
Distrust == Raise /\ verdicts' = IF mode = "retention"
                                 THEN [verdicts EXCEPT ![arm] = "none"] ELSE verdicts
CheckTripped ==
  /\ pc = "tripped"
  /\ IF tripped THEN Distrust ELSE pc' = "alive" /\ UNCHANGED verdicts
  /\ UNCHANGED <<mode, arm, left, server, handle, guard, status, service, restore,
                 results>> /\ Running

CheckWatcher ==
  /\ pc = "alive"
  /\ IF watcher # "over" THEN Distrust
     ELSE /\ pc' = IF mode = "capacity" THEN "judge" ELSE "teardown"
          /\ UNCHANGED verdicts
  /\ UNCHANGED <<mode, arm, left, server, handle, guard, status, service, restore,
                 results>> /\ Running

\* The except and finally of capacity_probes.
Unwind ==
  /\ pc = "unwind" /\ stopGuard' = TRUE /\ pc' = "except"
  /\ UNCHANGED <<trial, server, handle, watcher, low, tripped, late, status, service,
                 restore, results>> /\ Running

\* At the end of an arm: its verdict counts, and its server is stopped.
Counted == IF verdicts[arm] = "PASS" THEN status ELSE 1
MutantStopServer ==
  /\ pc = "teardown"
  /\ status' = IF verdicts[arm] = "PASS" THEN 0 ELSE 1
  /\ server' = "dead" /\ handle' = FALSE
  /\ IF mode = "repeat" /\ arm = 1 THEN arm' = 2 /\ pc' = "spawn"
     ELSE UNCHANGED arm /\ pc' = "f_stop"
  /\ UNCHANGED <<mode, left, verdicts, guard, service, restore, results>> /\ Running

StopServer ==
  /\ pc = "teardown"
  /\ status' = Counted
  /\ server' = "dead" /\ handle' = FALSE
  /\ IF mode = "repeat" /\ arm = 1 THEN arm' = 2 /\ pc' = "spawn"
     ELSE UNCHANGED arm /\ pc' = "f_stop"
  /\ UNCHANGED <<mode, left, verdicts, guard, service, restore, results>> /\ Running

\* 30 seconds after SIGKILL the process is still there: the wait raises.
StopTimesOut ==
  /\ pc = "teardown" /\ Alive
  /\ status' = Counted /\ Raise
  /\ UNCHANGED <<trial, server, handle, guard, service, restore, results>> /\ Running

Except ==
  /\ pc = "except" /\ status' = 1 /\ pc' = "f_stop"
  /\ UNCHANGED <<trial, server, handle, guard, service, restore, results>> /\ Running

-----------------------------------------------------------------------------
(* The finally block *)

FinallyStop ==
  /\ pc = "f_stop" /\ pc' = "f_restore"
  /\ server' = IF handle THEN "dead" ELSE server
  /\ UNCHANGED <<trial, handle, guard, status, service, restore, results>> /\ Running

FinallyStopTimesOut ==
  /\ pc = "f_stop" /\ handle /\ Alive
  /\ Leave("failed", TRUE)
  /\ UNCHANGED <<trial, server, handle, guard, status, service, restore, results, signals>>

\* systemctl start waits for the service to be ready, or fails.
StartProduction ==
  \/ production' = "active" /\ started' = "ok" /\ UNCHANGED status
  \/ production' \in {"inactive", "activating"} /\ started' = "failed" /\ status' = 1

MutantRestoreProduction ==
  /\ pc = "f_restore" /\ pc' = "f_write"
  /\ IF restore /\ status = 0 THEN StartProduction
     ELSE UNCHANGED <<production, started, status>>
  /\ UNCHANGED <<trial, server, handle, guard, taken, restore, results>> /\ Running

RestoreProduction ==
  /\ pc = "f_restore" /\ pc' = "f_write"
  /\ IF restore THEN StartProduction ELSE UNCHANGED <<production, started, status>>
  /\ UNCHANGED <<trial, server, handle, guard, taken, restore, results>> /\ Running

\* In the repeat mode results.json has one entry per arm and no verdict key.
WriteResults ==
  /\ pc = "f_write" /\ pc' = "f_archive"
  /\ report' = IF mode = "repeat" THEN "none" ELSE verdicts[1]
  /\ UNCHANGED <<trial, server, handle, guard, status, service, restore, archived>>
  /\ Running

Archive ==
  /\ pc = "f_archive" /\ archived' = TRUE
  /\ Leave(IF status = 0 THEN "ok" ELSE "failed", FALSE)
  /\ UNCHANGED <<trial, server, handle, guard, status, service, restore, report, signals>>

WriteFails ==
  /\ pc \in {"f_write", "f_archive"}
  /\ Leave("failed", TRUE)
  /\ UNCHANGED <<trial, server, handle, guard, status, service, restore, results, signals>>

-----------------------------------------------------------------------------
(* Signals: KeyboardInterrupt in the try body, the end of the process before *)
(* it and in the finally block                                               *)

Signalled == pc # "ended" /\ signals < MaxSignals /\ signals' = signals + 1

SignalEarly ==
  /\ Signalled /\ pc = "checks" /\ Leave("failed", FALSE)
  /\ UNCHANGED <<trial, server, handle, guard, status, service, restore, results>>

\* In Popen the process may already exist; in systemctl stop the job may go on.
SignalInTry ==
  /\ Signalled /\ pc \notin Cleanup \cup {"checks", "unwind", "except"}
  /\ Raise
  /\ IF pc = "stop" THEN StopCut ELSE UNCHANGED <<production, taken>>
  /\ server' \in IF pc = "spawn" THEN {server, "starting"} ELSE {server}
  /\ UNCHANGED <<trial, handle, guard, status, started, restore, results, exit, cut>>

SignalInHandler ==
  /\ Signalled /\ pc \in {"unwind", "except"}
  /\ IF pc = "unwind" THEN pc' = "except" /\ UNCHANGED status
     ELSE pc' = "f_stop" /\ status' = 1
  /\ UNCHANGED <<trial, server, handle, guard, service, restore, results, exit, cut>>

SignalInCleanup ==
  /\ Signalled /\ pc \in Cleanup /\ Leave("failed", TRUE)
  /\ \/ UNCHANGED <<production, started>>
     \/ pc = "f_restore" /\ restore
        /\ production' \in {"activating", "active"} /\ started' = "ok"
  /\ UNCHANGED <<trial, server, handle, guard, status, taken, restore, results>>

-----------------------------------------------------------------------------
(* The trial's server, and a production service that restarts by itself *)

ServerMoves ==
  /\ pc # "ended" /\ Alive
  /\ server' \in CASE server = "starting" -> {"up", "dead"}
                   [] server = "up" -> {"hung", "dead"}
                   [] OTHER -> {"dead"}
  /\ UNCHANGED <<pc, trial, handle, guard, status, service, restore, results>> /\ Running

ProductionMoves ==
  /\ pc # "ended"
  /\ \/ production = "active" /\ production' = "activating"
     \/ production = "activating" /\ production' \in {"active", "inactive"}
  /\ UNCHANGED <<pc, trial, server, handle, guard, status, taken, started, restore,
                 results>> /\ Running

-----------------------------------------------------------------------------
Init ==
  /\ mode \in Modes /\ pc = "checks" /\ arm = 1 /\ left = 0
  /\ server = "none" /\ handle = FALSE
  /\ watcher = "off" /\ stopGuard = FALSE /\ low = 0 /\ tripped = FALSE /\ late = FALSE
  /\ verdicts = [a \in 1..2 |-> "none"] /\ status = 0
  /\ production \in {"inactive", "activating", "active"}
  /\ restore = FALSE /\ taken = FALSE /\ started = "no"
  /\ report = "absent" /\ archived = FALSE
  /\ exit = "running" /\ cut = FALSE /\ signals = 0

TrialStep ==
  \/ CheckFails \/ Checked \/ Ask \/ StopProduction \/ StopFails
  \/ Spawn \/ SpawnFails \/ Ready \/ ReadyFails
  \/ Send \/ Post \/ PostFails \/ Answer \/ AnswerBad \/ Judge
  \/ StopWatcher \/ Join \/ CheckTripped \/ CheckWatcher \/ Unwind
  \/ StopServer \/ StopTimesOut \/ Except
  \/ FinallyStop \/ FinallyStopTimesOut \/ RestoreProduction
  \/ WriteResults \/ Archive \/ WriteFails
Watcher == Sample \/ WatcherFails \/ WatcherLoops \/ Terminate
Signal == SignalEarly \/ SignalInTry \/ SignalInHandler \/ SignalInCleanup

Next == TrialStep \/ Watcher \/ Signal \/ ServerMoves \/ ProductionMoves
Spec == Init /\ [][Next]_vars

\* Every blocking call of the trial has a timeout of its own.
FairSpec == Spec /\ WF_vars(TrialStep)

-----------------------------------------------------------------------------
TypeOK ==
  /\ mode \in Modes /\ arm \in 1..2 /\ left \in 0..Requests
  /\ pc \in Probing \cup Cleanup \cup
            {"checks", "ask", "stop", "spawn", "ready", "unwind", "teardown", "except", "ended"}
  /\ server \in {"none", "starting", "up", "hung", "dead"} /\ handle \in BOOLEAN
  /\ watcher \in {"off", "reading", "resting", "tripping", "over"}
  /\ stopGuard \in BOOLEAN /\ low \in 0..LowSamples /\ tripped \in BOOLEAN /\ late \in BOOLEAN
  /\ verdicts \in [1..2 -> Verdicts] /\ status \in {0, 1}
  /\ production \in {"inactive", "activating", "active"}
  /\ restore \in BOOLEAN /\ taken \in BOOLEAN /\ started \in {"no", "ok", "failed"}
  /\ report \in Verdicts \cup {"absent"} /\ archived \in BOOLEAN
  /\ exit \in {"running", "ok", "failed"} /\ cut \in BOOLEAN /\ signals \in 0..MaxSignals

\* A saturation verdict of PASS is only ever reported by a trial whose watcher
\* never tripped, unless the watcher outlived its join (capacity_probes stops it
\* before it judges).
PassUnderGuard ==
  report = "PASS" /\ mode = "capacity" /\ ~late => ~tripped

\* Exit status 0 means that every server of the trial passed, the guard stayed
\* quiet while they did, production was put back, the trial's server is gone and
\* the archive is written: one failing part may not be hidden by a later one.
SuccessIsWhole ==
  exit = "ok" =>
    /\ \A a \in 1..2 : verdicts[a] = "PASS" \/ (a = 2 /\ mode # "repeat")
    /\ Long /\ ~late => ~tripped
    /\ restore => started = "ok"
    /\ handle = FALSE /\ ~Alive
    /\ archived

\* A production service the trial has stopped is started again whatever failed,
\* as long as the cleanup itself is left to run; one it has not found active is
\* never started.
Restored ==
  /\ pc = "ended" /\ taken /\ ~cut => started # "no"
  /\ started # "no" => restore

\* The trial's server and a production service it has taken down never hold the
\* GPU together: the stop is waited for, and so is the server's end.
TrialAlone == restore /\ handle /\ Alive => production = "inactive"

\* No failure, signal, silent server or stuck watcher keeps the trial from ending.
TrialEnds == <>(pc = "ended")

\* STRIX-SERVICE-SMOKE.md: a guard termination is never a pass.
GuardNeverPasses == report = "PASS" => ~tripped

\* STRIX-SERVICE-SMOKE.md: production is started again if it was active initially,
\* and Ctrl-C goes through the cleanup.
ProductionComesBack == pc = "ended" /\ taken => started # "no"
=============================================================================
