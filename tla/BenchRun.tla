------------------------------ MODULE BenchRun ------------------------------
(***************************************************************************)
(* execute_run of qwen_bench.py: a sweep of probes over rounds x           *)
(* experiments x cells that is journalled in results.jsonl, can be         *)
(* interrupted or killed anywhere, and is resumed by a later session that  *)
(* skips the probes whose rows the journal already holds.                  *)
(*                                                                         *)
(* One behaviour is a run directory's life: up to MaxSessions invocations  *)
(* of the harness on it.  The memory of a session (completed, pending,     *)
(* the server it manages) dies with it; the journal, the response files    *)
(* and a llama-server that outlives its harness do not.                    *)
(***************************************************************************)
EXTENDS Naturals, Sequences, FiniteSets

CONSTANTS
  Names,         \* the experiments of the matrix
  CellUniverse,  \* every <<workload, depth>> some tier measures
  Tiers,         \* the tiers a run may be started with (records, see TierOK)
  MaxRounds,     \* the largest number of rounds of a tier
  MaxSessions,   \* bound: harness invocations on the run directory
  MaxSignals     \* bound: SIGINT/SIGTERM delivered to one session

Keys == (0..(MaxRounds - 1)) \X Names \X CellUniverse
StartupCell == <<"startup", 0>>

(* The fields of a tier the control flow of execute_run branches on.       *)
TierOK(t) ==
  /\ t.rounds \in 1..MaxRounds
  /\ t.experiments \in Seq(Names) /\ t.experiments # <<>>
  /\ \A i, j \in 1..Len(t.experiments) :
       t.experiments[i] = t.experiments[j] => i = j
  /\ t.cells \subseteq CellUniverse
  /\ t.cells # {}
  /\ t.warmup \in {"none", "experiment", "per_cell"}
  /\ {t.concurrent, t.erase, t.scored, t.startup, t.failFast} \subseteq BOOLEAN
  /\ t.concurrent => ~t.scored /\ t.warmup # "per_cell"
  /\ t.startup => t.cells = {StartupCell} /\ ~t.concurrent /\ ~t.scored

ASSUME SweepAssumption ==
  /\ \A t \in Tiers : TierOK(t)
  /\ MaxRounds \in Nat \ {0} /\ MaxSessions \in Nat /\ MaxSignals \in Nat

VARIABLES
  \* on disk, or outside the harness
  tier,       \* the tier the run directory was created with (kept on resume)
  journal,    \* results.jsonl: the rows written in full, in order
  open,       \* the last line of results.jsonl lacks its newline
  readable,   \* every line of results.jsonl parses as one JSON value
  responses,  \* responses[k]: the session whose measurement is in k's response
              \* file, 0 if there is no file
  archive,    \* rows inside <run>.tar.gz, 0 if there is no archive
  checksum,   \* rows inside the archive that <run>.tar.gz.sha256 describes
  leaked,     \* a llama-server no session manages any more
  sessions,   \* sessions started so far
  exit,       \* how the last session ended
  \* in the memory of the session
  pc,         \* where execute_run is
  completed,  \* the set of that name
  round,      \* round_index of the outer loop
  place,      \* position in the round's rotated list of experiments
  pending,    \* cells of the visit still to be measured
  batch,      \* cells whose responses are in hand and not yet recorded
  lane,       \* the cell being recorded
  server,     \* the ManagedServer's process
  slot,       \* the server slot's KV state: clean, or left by a request
  after,      \* what follows server.stop(): the next visit, or the exit
  signals     \* SIGINT/SIGTERM received

disk == <<journal, open, readable, responses, archive, checksum>>
control == <<completed, round, place, pending, batch, lane>>
vars == <<tier, disk, leaked, sessions, exit, pc, control, server,
          slot, after, signals>>

-----------------------------------------------------------------------------
(* The journal *)

NoCell == <<"none", 0>>

\* A probe row: "short" is probe_row's own verdict (fewer than 95% of the
\* requested tokens, or no answer), "quality" the text, anchor or vision gate.
\* A session measures a probe at most once, so the session names the attempt.
ProbeRows(k, s, t) ==
  [status : {"ok"}, key : {k}, session : {s},
   short : IF t.startup THEN {FALSE} ELSE BOOLEAN,
   quality : IF t.scored THEN {"pass", "fail"} ELSE {"unscored"}]

Degenerate(row) == row.short \/ row.quality = "fail"
IsScored(row) == row.quality # "unscored"

\* Which row makes its probe complete.
Accepts(row) ==
  /\ row.status = "ok"
  /\ ~Degenerate(row) \/ IsScored(row)

Rows == {journal[i] : i \in 1..Len(journal)}

MutantCompletedKeys == {row.key : row \in {r \in Rows : r.status = "ok" /\ ~Degenerate(r)}}
completedKeys == {row.key : row \in {r \in Rows : Accepts(r)}}
\* append_jsonl in full: text glued to a line that lacks its newline spoils it.
AppendRow(row) ==
  /\ journal' = Append(journal, row)
  /\ open' = FALSE
  /\ readable' = (readable /\ ~open)

\* append_jsonl cut off by an I/O error or a crash: nothing, part of the line,
\* or all of it but the newline reaches the disk.
TearRow(row) ==
  \/ UNCHANGED <<journal, open, readable>>
  \/ /\ open' = TRUE
     /\ readable' = FALSE
     /\ UNCHANGED journal
  \/ /\ journal' = Append(journal, row)
     /\ open' = TRUE
     /\ readable' = (readable /\ ~open)

(***************************************************************************)
(* The schedule: in every round the list of experiments is rotated by the  *)
(* round.  The visit of (round, place) measures one experiment.            *)
(***************************************************************************)
N == Len(tier.experiments)
Offset(r) == r % N
ExperimentAt(r, p) ==
  tier.experiments[(IF p + Offset(r) < N THEN p + Offset(r) ELSE p + Offset(r) - N) + 1]
Experiment == ExperimentAt(round, place)
KeyOf(c) == <<round, Experiment, c>>
TierKeys == (0..(tier.rounds - 1)) \X {tier.experiments[i] : i \in 1..N} \X tier.cells

MutantInLoop == round + 1 < tier.rounds
InLoop == round < tier.rounds
NextVisit ==
  IF place + 1 < N THEN place' = place + 1 /\ round' = round
                   ELSE place' = 0 /\ round' = round + 1

\* The cells of the visit a session still has to measure.
MutantRemaining == tier.cells
Remaining == {c \in tier.cells : KeyOf(c) \notin completed}
MutantGroup(d) == {c \in CellUniverse : c[2] = d}
Group(d) == {c \in tier.cells : c[2] = d}
MutantUnrecorded(cells) == cells
Unrecorded(cells) == {c \in cells : KeyOf(c) \notin completed}

-----------------------------------------------------------------------------
(* Sessions *)

Stopped == signals > 0     \* stop_event

ForgetSession ==
  /\ completed' = {} /\ round' = 0 /\ place' = 0 /\ pending' = {} /\ batch' = {}
  /\ lane' = NoCell
  /\ server' = "none" /\ slot' = "clean" /\ after' = "next"

EndSession(how) ==
  /\ pc' = "idle"
  /\ exit' = how
  /\ ForgetSession
  /\ UNCHANGED <<tier, sessions>>

\* preflight finds the port taken or a llama process alive.
PreflightRefuses ==
  /\ pc = "idle" /\ sessions < MaxSessions
  /\ leaked # "none"
  /\ sessions' = sessions + 1
  /\ exit' = "error"
  /\ signals' = 0
  /\ UNCHANGED <<tier, disk, leaked, pc, control, server, slot, after>>

\* read_jsonl raises on the first line that is not a JSON value.
ResumeUnreadable ==
  /\ pc = "idle" /\ sessions < MaxSessions
  /\ leaked = "none" /\ ~readable
  /\ sessions' = sessions + 1
  /\ exit' = "unreadable"
  /\ signals' = 0
  /\ UNCHANGED <<tier, disk, leaked, pc, control, server, slot, after>>

StartSession ==
  /\ pc = "idle" /\ sessions < MaxSessions
  /\ leaked = "none" /\ readable
  /\ sessions' = sessions + 1
  /\ exit' = "running"
  /\ pc' = "loop"
  /\ completed' = completedKeys
  /\ signals' = 0
  /\ UNCHANGED <<tier, disk, leaked, round, place, pending, batch, lane, server,
                 slot, after>>

-----------------------------------------------------------------------------
(* The double loop over rounds and experiments *)

LoopDone ==
  /\ pc = "loop"
  /\ Stopped \/ ~InLoop
  /\ pc' = "finishing"
  /\ UNCHANGED <<tier, disk, leaked, sessions, exit, control, server,
                 slot, after, signals>>

SkipVisit ==
  /\ pc = "loop" /\ ~Stopped /\ InLoop
  /\ Remaining = {}
  /\ NextVisit
  /\ UNCHANGED <<tier, disk, leaked, sessions, exit, pc, completed,
                 pending, batch, lane, server, slot, after, signals>>

\* port_available: another process that only listens later is not seen.
MutantPortFree == TRUE
PortFree == leaked # "listening"

\* Outside the try block: not recorded, and no later experiment runs.
PortBusy ==
  /\ pc = "loop" /\ ~Stopped /\ InLoop
  /\ Remaining # {} /\ ~PortFree
  /\ EndSession("error")
  /\ UNCHANGED <<disk, leaked, signals>>

StartServer ==
  /\ pc = "loop" /\ ~Stopped /\ InLoop
  /\ Remaining # {} /\ PortFree
  /\ pending' = Remaining
  /\ server' = "spawned"
  /\ pc' = "starting"
  /\ UNCHANGED <<tier, disk, leaked, sessions, exit, completed, round, place,
                 batch, lane, slot, after, signals>>

\* llama-server opens its port some time after exec.
ServerListens ==
  /\ pc = "starting" /\ server = "spawned"
  /\ server' = "listening"
  /\ UNCHANGED <<tier, disk, leaked, sessions, exit, pc, control,
                 slot, after, signals>>

\* A health answer of 200.  A startup-only tier records the readiness itself.
StartReady ==
  /\ pc = "starting" /\ server = "listening"
  /\ slot' = "clean"
  /\ IF tier.startup
     THEN /\ pc' = "append"
          /\ batch' = {StartupCell} /\ lane' = StartupCell /\ pending' = {}
     ELSE /\ pc' = IF tier.warmup = "experiment" THEN "warmup" ELSE "cells"
          /\ UNCHANGED <<batch, lane, pending>>
  /\ UNCHANGED <<tier, disk, leaked, sessions, exit, completed, round, place,
                 server, after, signals>>

\* ManagedServer.start looks at stop_event on every turn of its health loop.
StartInterrupted ==
  /\ pc = "starting" /\ Stopped
  /\ pc' = "stopping" /\ after' = "interrupt"
  /\ UNCHANGED <<tier, disk, leaked, sessions, exit, control, server,
                 slot, signals>>

-----------------------------------------------------------------------------
(* Measuring the cells of a visit *)

MutantEraseSlot(s) == IF tier.erase /\ pc # "warmup" THEN "clean" ELSE s
EraseSlot(s) == IF tier.erase THEN "clean" ELSE s

\* Warm-up requests, each followed by its slot erase.
Warmup ==
  /\ pc = "warmup"
  /\ slot' = EraseSlot("dirty")
  /\ pc' = IF batch = {} THEN "cells" ELSE "measure"
  /\ UNCHANGED <<tier, disk, leaked, sessions, exit, control, server,
                 after, signals>>

VisitDone ==
  /\ pc = "cells"
  /\ Stopped \/ pending = {}
  /\ pc' = "stopping" /\ after' = "next"
  /\ UNCHANGED <<tier, disk, leaked, sessions, exit, control, server,
                 slot, signals>>

PickCell ==
  /\ pc = "cells" /\ ~Stopped /\ ~tier.concurrent
  /\ \E c \in pending : batch' = {c} /\ pending' = pending \ {c}
  /\ pc' = IF tier.warmup = "per_cell" THEN "warmup" ELSE "measure"
  /\ UNCHANGED <<tier, disk, leaked, sessions, exit, completed, round, place,
                 lane, server, slot, after, signals>>

\* Concurrent tiers run every workload of a depth, the completed ones included.
PickGroup ==
  /\ pc = "cells" /\ ~Stopped /\ tier.concurrent
  /\ \E c \in pending : batch' = Group(c[2]) /\ pending' = pending \ Group(c[2])
  /\ pc' = "measure"
  /\ UNCHANGED <<tier, disk, leaked, sessions, exit, completed, round, place,
                 lane, server, slot, after, signals>>

\* The request answers, or every lane of the group does; lanes of the group
\* that a former session completed are dropped.
Measure ==
  /\ pc = "measure"
  /\ slot' = "dirty"
  /\ batch' = IF tier.concurrent THEN Unrecorded(batch) ELSE batch
  /\ pc' = IF tier.concurrent THEN "erase" ELSE "file"
  /\ UNCHANGED <<tier, disk, leaked, sessions, exit, completed, round, place, pending,
                 lane, server, after, signals>>

\* atomic_json of the response: the file is replaced whole or not at all.
WriteResponse ==
  /\ pc = "file"
  /\ \E c \in batch :
       /\ lane' = c
       /\ responses' = [responses EXCEPT ![KeyOf(c)] = sessions]
  /\ pc' = IF tier.concurrent THEN "append" ELSE "erase"
  /\ UNCHANGED <<tier, journal, open, readable, archive, checksum, leaked,
                 sessions, exit, completed, round, place, pending, batch,
                 server, slot, after, signals>>

Erase ==
  /\ pc = "erase"
  /\ slot' = EraseSlot(slot)
  /\ pc' = IF tier.concurrent THEN "file" ELSE "append"
  /\ UNCHANGED <<tier, disk, leaked, sessions, exit, control, server,
                 after, signals>>

ErrorRow == [status |-> "server_error", round |-> round, experiment |-> Experiment,
             session |-> sessions]
LaneKey == KeyOf(lane)
LaneRows == ProbeRows(LaneKey, sessions, tier)

Record ==
  /\ pc = "append"
  /\ \E row \in LaneRows : AppendRow(row)
  /\ completed' = completed \cup {LaneKey}
  /\ batch' = batch \ {lane}
  /\ lane' = NoCell
  /\ pc' = IF batch \ {lane} = {} THEN "cells" ELSE "file"
  /\ UNCHANGED <<tier, responses, archive, checksum, leaked, sessions,
                 exit, round, place, pending, server, slot, after, signals>>

-----------------------------------------------------------------------------
(* Failures inside the try block, and the finally block *)

\* A server that exits or misses its deadline, a failed request or runtime
\* gate, a response that cannot be written, a refused erase.
MutantStepFails ==
  /\ pc \in {"warmup", "measure", "file", "erase"}
  /\ pc' = "error"
  /\ UNCHANGED <<tier, disk, leaked, sessions, exit, control, server,
                 slot, after, signals>>

StepFails ==
  /\ pc \in {"starting", "warmup", "measure", "file", "erase"}
  /\ pc' = "error"
  /\ UNCHANGED <<tier, disk, leaked, sessions, exit, control, server,
                 slot, after, signals>>

RecordFails ==
  /\ pc = "append"
  /\ \E row \in LaneRows : TearRow(row)
  /\ pc' = "error"
  /\ UNCHANGED <<tier, responses, archive, checksum, leaked, sessions,
                 exit, control, server, slot, after, signals>>

RecordError ==
  /\ pc = "error"
  /\ AppendRow(ErrorRow)
  /\ pc' = "stopping"
  /\ after' = IF tier.failFast THEN "abort" ELSE "next"
  /\ UNCHANGED <<tier, responses, archive, checksum, leaked, sessions,
                 exit, control, server, slot, signals>>

\* The handler's own append raises: the exception leaves the loop.
RecordErrorFails ==
  /\ pc = "error"
  /\ TearRow(ErrorRow)
  /\ pc' = "stopping" /\ after' = "abort"
  /\ UNCHANGED <<tier, responses, archive, checksum, leaked, sessions,
                 exit, control, server, slot, signals>>

\* The port a surviving llama-server holds.
Survivor(s) == IF s = "listening" \/ leaked = "listening" THEN "listening"
               ELSE IF s = "spawned" THEN "wedged" ELSE leaked

\* ManagedServer.stop: SIGTERM, SIGKILL, and a server neither of them ends.
StopServer ==
  /\ pc = "stopping"
  /\ leaked' \in {leaked, Survivor(server)}
  /\ \/ /\ after = "next"
        /\ pc' = "loop" /\ NextVisit
        /\ pending' = {} /\ batch' = {} /\ lane' = NoCell
        /\ server' = "none" /\ slot' = "clean"
        /\ UNCHANGED <<tier, disk, sessions, exit, completed, after>>
     \/ after = "abort" /\ EndSession("error") /\ UNCHANGED disk
     \/ after = "interrupt" /\ EndSession("interrupted") /\ UNCHANGED disk
  /\ UNCHANGED signals

\* The server is gone but the closing line of its log cannot be written.
StopLogFails ==
  /\ pc = "stopping"
  /\ EndSession("error")
  /\ UNCHANGED <<disk, leaked, signals>>

-----------------------------------------------------------------------------
(* After the loop: summarize, archive_results *)

Package ==
  /\ pc = "finishing" /\ readable
  /\ archive' = <<Len(journal)>>
  /\ pc' = "checksum"
  /\ UNCHANGED <<tier, journal, open, readable, responses, checksum, leaked,
                 sessions, exit, control, server, slot, after, signals>>

WriteChecksum ==
  /\ pc = "checksum"
  /\ checksum' = archive
  /\ EndSession("ok")
  /\ UNCHANGED <<journal, open, readable, responses, archive, leaked, signals>>

\* summarize cannot parse the journal, or an output cannot be written.
FinishFails ==
  /\ pc \in {"finishing", "checksum"}
  /\ EndSession("error")
  /\ UNCHANGED <<disk, leaked, signals>>

-----------------------------------------------------------------------------
(* Signals, crashes, and what a lost llama-server does *)

\* handle_signal: the first one only sets stop_event.
FirstSignal ==
  /\ pc \notin {"idle", "finishing", "checksum"}
  /\ signals = 0 /\ MaxSignals > 0
  /\ signals' = 1
  /\ UNCHANGED <<tier, disk, leaked, sessions, exit, pc, control,
                 server, slot, after>>

\* Later ones raise KeyboardInterrupt wherever the main thread is.
SecondSignal ==
  /\ Stopped /\ signals < MaxSignals
  /\ signals' = signals + 1
  /\ \/ /\ pc = "loop"
        /\ EndSession("interrupted")
        /\ UNCHANGED <<disk, leaked>>
     \/ /\ pc = "stopping"       \* stop() is abandoned half way
        /\ EndSession("interrupted")
        /\ leaked' \in {leaked, IF server = "none" \/ leaked = "listening"
                                THEN leaked ELSE server}
        /\ UNCHANGED disk
     \/ /\ pc \notin {"idle", "loop", "stopping", "finishing", "checksum"}
        /\ pc' = "stopping" /\ after' = "interrupt"
        /\ UNCHANGED <<tier, disk, leaked, sessions, exit, control,
                       server, slot>>

\* After the handlers are restored a signal ends the process.
LateSignal ==
  /\ pc \in {"finishing", "checksum"}
  /\ signals < MaxSignals
  /\ signals' = signals + 1
  /\ EndSession("interrupted")
  /\ UNCHANGED <<disk, leaked>>

\* SIGKILL of the harness: its server has a session of its own and lives on,
\* the files hold what the kernel had accepted, part of a row at worst.
Crash ==
  /\ pc # "idle"
  /\ IF pc = "append" THEN \E row \in LaneRows : TearRow(row)
     ELSE IF pc = "error" THEN TearRow(ErrorRow)
     ELSE UNCHANGED <<journal, open, readable>>
  /\ EndSession("crashed")
  /\ leaked' \in {leaked, IF server = "none" \/ leaked = "listening"
                                  THEN leaked ELSE server}
  /\ UNCHANGED <<responses, archive, checksum, signals>>

LeakedServerMoves ==
  /\ \/ leaked # "none" /\ leaked' = "none"
     \/ leaked = "spawned" /\ leaked' = "listening"
  /\ UNCHANGED <<tier, disk, sessions, exit, pc, control, server,
                 slot, after, signals>>

-----------------------------------------------------------------------------
Init ==
  /\ tier \in Tiers
  /\ journal = <<>> /\ open = FALSE /\ readable = TRUE
  /\ responses = [k \in Keys |-> 0]
  /\ archive = <<>> /\ checksum = <<>>
  /\ leaked = "none"
  /\ sessions = 0 /\ exit = "never" /\ pc = "idle"
  /\ completed = {} /\ round = 0 /\ place = 0 /\ pending = {} /\ batch = {} /\ lane = NoCell
  /\ server = "none" /\ slot = "clean" /\ after = "next" /\ signals = 0

\* What the session's own thread does next; every blocking call it makes has
\* a deadline after which StepFails or StopServer is what happens.
HarnessStep ==
  \/ LoopDone \/ SkipVisit \/ PortBusy \/ StartServer
  \/ StartReady \/ StartInterrupted \/ Warmup \/ VisitDone
  \/ PickCell \/ PickGroup \/ Measure \/ WriteResponse \/ Erase \/ Record
  \/ StepFails \/ RecordFails \/ RecordError \/ RecordErrorFails
  \/ StopServer \/ StopLogFails \/ Package \/ WriteChecksum \/ FinishFails

Environment ==
  \/ PreflightRefuses \/ ResumeUnreadable \/ StartSession \/ ServerListens
  \/ FirstSignal \/ SecondSignal \/ LateSignal \/ Crash \/ LeakedServerMoves

Next == HarnessStep \/ Environment

Spec == Init /\ [][Next]_vars
FairSpec == Spec /\ WF_vars(HarnessStep)

-----------------------------------------------------------------------------
(* Properties *)

\* Control points at which the session is inside a visit.
Serving == {"warmup", "cells", "measure", "file", "erase", "append"}
ControlPoints == Serving \cup {"idle", "loop", "starting", "error", "stopping",
                               "finishing", "checksum"}
InVisit == Serving \cup {"starting", "error", "stopping"}
RowSet ==
  [status : {"ok"}, key : TierKeys, session : 1..MaxSessions, short : BOOLEAN,
   quality : {"pass", "fail", "unscored"}]
  \cup [status : {"server_error"}, round : 0..(tier.rounds - 1),
        experiment : {tier.experiments[i] : i \in 1..N}, session : 1..MaxSessions]

\* The harness's variables have the shapes execute_run gives them; in
\* particular only cells of the tier are ever pending or measured.
TypeOK ==
  /\ tier \in Tiers
  /\ journal \in Seq(RowSet)
  /\ open \in BOOLEAN /\ readable \in BOOLEAN
  /\ responses \in [Keys -> 0..MaxSessions]
  /\ archive \in Seq(Nat) /\ Len(archive) <= 1
  /\ checksum \in Seq(Nat) /\ Len(checksum) <= 1
  /\ leaked \in {"none", "spawned", "listening", "wedged"}
  /\ sessions \in 0..MaxSessions
  /\ exit \in {"never", "running", "ok", "error", "interrupted", "crashed", "unreadable"}
  /\ pc \in ControlPoints
  /\ pc \in InVisit => InLoop
  /\ completed \subseteq TierKeys
  /\ round \in 0..tier.rounds /\ place \in 0..(N - 1)
  /\ pending \subseteq tier.cells /\ batch \subseteq tier.cells
  /\ lane \in tier.cells \cup {NoCell}
  /\ server \in {"none", "spawned", "listening"}
  /\ slot \in {"clean", "dirty"}
  /\ after \in {"next", "abort", "interrupt"}
  /\ signals \in 0..MaxSignals

\* A probe is accepted at most once over all sessions of a run directory,
\* although a resumed concurrent group measures its finished lanes again.
MeasuredOnce ==
  \A i, j \in 1..Len(journal) :
     /\ Accepts(journal[i]) /\ Accepts(journal[j])
     /\ journal[i].key = journal[j].key
     => i = j

\* The store's view of the run directory.  A startup probe has no response
\* file, its row is all there is.
accepted == [k \in Keys |-> IF k \notin completedKeys THEN 0
                            ELSE IF tier.startup THEN 1 ELSE responses[k]]
Store == INSTANCE ResultStore WITH done <- accepted

\* The run directory implements the store of accepted measurements: the
\* response file of an accepted probe holds a measurement, the same for good.
EvidenceKept == Store!StoreSpec

\* "Completed probes are skipped": a sequential session sends no request for a
\* probe the journal already accepts.
NoRemeasure ==
  (pc = "measure" /\ ~tier.concurrent) =>
     \A c \in batch : KeyOf(c) \notin completedKeys

\* A tier that erases slots measures every probe on an erased slot, also after
\* warm-ups, failed erases and restarted servers.
CleanSlot == (tier.erase /\ pc = "measure") => slot = "clean"

\* While a visit measures, no other llama-server answers on its port, whatever
\* earlier visits, interrupted stops or killed sessions left behind.
OwnEndpoint == pc \in Serving => leaked # "listening"

\* An uninterrupted run that reports success has, for every probe of the sweep,
\* a row of the probe or an error row of its visit, and has packed all of them.
Accounted(k) ==
  \/ k \in completedKeys
  \/ \E row \in {r \in Rows : r.session = sessions} :
       \/ row.status = "ok" /\ row.key = k
       \/ /\ row.status = "server_error"
          /\ row.round = k[1] /\ row.experiment = k[2]
SuccessIsComplete ==
  (exit = "ok" /\ signals = 0) =>
     /\ archive = <<Len(journal)>> /\ checksum = archive
     /\ \A k \in TierKeys : Accounted(k)

\* Every session ends, although nothing guarantees that a llama-server ever
\* becomes healthy, answers or dies.
SessionEnds == (pc # "idle") ~> (pc = "idle")

\* README: a response with fewer than 95% of the requested tokens is "retried
\* when a run is resumed".
ShortRetried ==
  [][(pc = "idle" /\ pc' = "loop") =>
       \A k \in completed' :
          \E row \in Rows : row.status = "ok" /\ row.key = k /\ ~row.short]_vars

\* README: "Every completed or interrupted benchmark is automatically packaged".
\* Stated for the gentle case, one signal.
InterruptedIsPackaged ==
  (exit = "interrupted" /\ signals = 1) => archive = <<Len(journal)>>

\* README: each probe is "appended and flushed to JSONL immediately, so an
\* interrupted multi-hour sweep can be resumed".
ResumeReadable == exit # "unreadable"
=============================================================================
