# Qwen flash-next bench: specification and verification

The repository measures and serves one model (Qwen3.8 Flash Next) on one Linux
host. Four kinds of code in it have behaviour that is hard to test: a resumable
benchmark sweep that runs for hours beside a server it starts and stops, scripts
that take the production service down and must put it back, patches to the
server that keep per-sequence state across rejected drafts, and tools whose
verdict others act upon (diagnostics, an audit and its gate, quantization). The TLA+ modules in
this directory model these. TLC checks them on small instances; TLAPS proves the
properties that matter most for every instance.

Run `tlc -config X.cfg MCModule` for a check and `tlapm XProofs.tla` for the
proofs. `PROJECT.json` lists runs, mutants, theorems, hazards and the source
lines of every definition.

## 1. Inventory

| Component | State it keeps | Operations | Hard behaviour | What makes it correct | Module |
|---|---|---|---|---|---|
| Benchmark sweep: `execute_run`, `main`, `ManagedServer`, journal and resume (`qwen_bench.py`) | run directory (journal `results.jsonl`, response files, summary, archive), the server process and its slot, stop flag | resume, start server, warm up, erase slot, measure, record, error, stop, package | crash or signal between any two steps, torn rows, a server that outlives its stop, resumption, concurrent lanes | no probe is accepted twice, accepted evidence is never replaced, clean slots, own server, success means complete, sessions end | `BenchRun`, `ResultStore` |
| Production installer (`install-strix-production.sh`) | two files, systemd unit, backups | deploy steps, EXIT-trap rollback, manual rollback | half-done commands, kill, reboot, the service's own restarts | rollback exact, originals never lost, new runtime served on success | `StrixInstall` |
| Service trial (`qwen_strix_service_smoke.py`, `qwen_strix_capacity.py`) | trial server, watcher thread, verdicts, production service | take production down, serve, request, judge, restore, archive | signals inside cleanup, watcher against requests, servers that hang or outlive SIGKILL | production comes back, no overlap, success is whole, a guard trip is not a pass | `ServiceSmoke` |
| PLE history (patches `state-correctness`, `backing-cache-checkpoint`) | per-sequence token history, snapshot trailers | evaluate, reject, reuse, save, restore, refuse | rejections nobody reports, partial restores | hashes use the true predecessors | `PleHistory` |
| MTP verifier ring (patch `state-correctness`) | rollback ring, verify rows, pending row | process, accept, rollback | wrap-around with rejections | no stale row, depth is not used up | `MtpVerifier` |
| Audit of the ROCm build and its gate (`rocm-audit`, `validate_rocm_audit`) | `rocm-audit.json`; libraries, sources and kernels it looks at | hash, inspect, test, report, gate | the build goes on between the four looks; 13 versions of the report | what the gate lets through is what was tested | `RocmAudit` |
| Prompt fitting (`fit_prompt_to_tokens` and its quality twin) | bracket, best prompt, padding | ask `/tokenize`, double, interpolate, pad | a longer text may have fewer tokens | the bracket holds the target, the best is the best | `PromptFit` |
| MTP equivalence diagnostic (`qwen_mtp_diag.py`) | rows, log marks, report | prime, request, slice the log, classify, reclassify | missing answers, late log lines, drift, servers that lie | a pass and a cause are about what the server did | `MtpEvidence`, `MtpDiag` |
| Prefix-cache diagnostic (`qwen_prefix_diag.py`) | rows, slots seen | eleven requests, erasures, verdict | other clients, failed erasures, servers that mix slots | a pass means two separate caches | `PrefixDiag` |
| Backing-cache diagnostic and `run-backing-cache.sh` | service, trial server, rows | stop service, two arms, report, trap | signals anywhere, hang-ups, half-done arms | service comes back, a pass is a cache hit | `BackingCacheDiag` |
| Quantization (`qwen_quant.py`, `qwen_strix_quant.py`) | outputs of external tools | convert, imatrix, quantize, verify | kills, partial outputs, two jobs at once | nothing finished is overwritten, a pass is one's own output | `Quantization` |
| Strix launcher and readiness (`run-strix-production.py`), systemd unit | evidence, environment, restart counter | validate, exec, ready, restart | restart limits against readiness deadlines | serves only validated binaries | its outcome in `StrixInstall` |
| Prompt-cache checkpoint choice (patch `backing-cache-checkpoint`), checkpoint carry (`strix-mtp-checkpoint-state`), speculation bypass patches | entries, checkpoints, slot flags | choose, restore, launch, batch | conditions inside functions of the server | | not modelled (section 6) |
| Old production launcher, startup prime | environment | ordered checks, exec, one request | | refuses before it serves | not modelled |
| Matrix resolution, server arguments | none (pure) | inherit, select, translate | | | not modelled |
| Telemetry sampler, summaries and statistics, preflight and system capture | samples, tables, captures | | a daemon thread, floating point, I/O | | not modelled; the preflight is one refusing action of `BenchRun` |
| Inventory, fixtures, builds, CI, model-graph patches | | pure I/O, formats, tensor graphs | | | not modelled |

How they interact. The sweep owns a server child and talks HTTP to it. The
installer and the two trials share the systemd unit `qwen-flash-next`. The trial
writes `results.json` and `binary-fingerprint.json`, which the production
launcher validates on every start, which the installer's restart waits for. The
patches live in the server that all of them drive; their state is reached only
through requests, slot erasure and cache restores.

## 2. Modules

### BenchRun and ResultStore

`BenchRun` is one run directory, the sessions of the harness on it, and the
server of the present session. A tier is a record chosen at `Init` (rounds, experiments,
cells, warm-up kind, concurrency, erasure, scoring, fail-fast); a key
`<<round, experiment, cell>>` is the code's probe key.

- The journal is the sequence of fully written rows. `open` says that the last line
  lacks its newline, `readable` that every line parses: `TearRow` appends
  nothing, a part, or all but the newline, as a crash or a full disk does, and the
  next `append_jsonl` may join the tail to its own row.
- `completedKeys` is the code's `completed_keys`: a row counts if it is not an
  error and not degenerate, or if it has a boolean `quality_failure`.
- `pc` is the harness thread. `StartSession` covers parsing, resume and
  preflight; `PickCell`/`PickGroup`, `Measure`, `WriteResponse`, `Erase`, `Record` are
  the body of a visit in order; `StepFails` is the `except` around it, `RecordError` its
  error row; `StopServer` is the finally block, `Package` the summary and archive.
- `slot` and `leaked` are the server: `leaked` is a process an earlier session
  could not stop, which may come to listen on the port.
- `FirstSignal` sets the stop flag, `SecondSignal` raises, `LateSignal` hits the
  packaging; `Crash` is SIGKILL of the harness, which the server survives
  (`start_new_session`).

Every row records its session and `responses[k]` the session whose answer is in k's
response file. `ResultStore` is the abstract promise: a map from keys to the
attempt that measured them, where a key gets a value at most once. `EvidenceKept`
is the refinement (`accepted` is the mapping).

Left out: `allow_busy`, `warmups.jsonl`, `concurrency-groups.jsonl`, telemetry,
and power loss of the host.

### StrixInstall

`dropin` and `launcher` are the two files (a version, absent, or torn), `loaded`
the drop-in systemd read last, `unit` and `enabled` the service, `runs` the pair it
was started from. One action per command of the script, in order; each may
fail or be cut off with part of its effect (`Cut`), which is where `Recover`, the EXIT trap,
takes over with the rollback steps `r_*`. `Kill` is SIGKILL, which runs
no trap; `Boot` starts an enabled service from what is on disk; `ServiceMoves` are the
unit's own deaths and restarts. `original` is a history variable.

### ServiceSmoke

`pc` walks through `main` and, in the two long modes, through `capacity_probes`.
`Raise` is where an exception goes: to the unwinding of the watcher, then to
`except BaseException`, then to the finally block. The watcher is a second process:
it samples, trips (first the flag, then the SIGTERM) and ends when its stop event is set; the main
thread joins it with a timeout and reads the flag and the thread's life in
two steps, as the code does. The saturation mode judges after that join,
the retention mode before it. A signal raises in the try body and ends the
process in the finally block. `taken`, `late` and `cut` are history variables. The
contents of verdicts are nondeterministic.

### PleHistory

`kv` is what the sequence's memory holds, `hist` the patch's `ple_history`.
`Evaluate` is `set_input` of one ubatch: reconcile, hash, record. `Truncate` is a
rejection or a reused prompt, which the history is not told of. `Save`/`Restore` are
the trailers; a refused one leaves the old history beside a cleared memory. Text only:
image chunks repeat positions and restart the history.

### MtpVerifier

A row is stood for by the tokens it was computed from. `Process` pushes
the rows of a batch, `accept` goes back to the last accepted one and prunes the
ring, `rollback` looks an older boundary up. `ring_push` is seen in the patch only as
context. A new prompt that shares no boundary is outside the patch and left out.

### MtpEvidence and MtpDiag

`MtpEvidence` has what the diagnostics share, as operators: the condition matrix, the event
stream and its reconstruction, the token trace, the draft events of a slice of the log, the position
of the first divergence. `MtpDiag` is one run: primes, then one request per
condition of the matrix (`Send` marks the end of the log, `Receive` reads the answer and the slice from
the mark), `Classify` with every gate and cause of `classify_run`, the exit status, and
`command_reclassify` from the rows alone, with the archived reference run or without it. The server is the environment. It is sound, drifts
with time, ignores the seed, diverges at one draft depth from a position on, has the stream, the scores or the
bypass wrong; its logger may write a line after the slice was
read, the log may start over, may not be there when its end is to be marked (`SendUnmarked`: the mark is 0), or may not open
when the slice is read (`CaptureFailed`: a line of text that counts as a slice without draft events). `truth` keeps what was really generated,
`sound_log` whether each slice held its own request's lines: the verdict is
compared with these. A faulty server and a faulty request are not combined, except for the log.
`Picked` (the elements a filter leaves, in order) and `Outputs` (the tokens that so many draft steps put out, the
accepted ones and one more each) say what the code's loops compute without a loop, so that proofs can speak of them. `DiagAssumption` takes from
the command line what its parser lets through (the `choices` of the profile and of the primes).
Left out: tool calls, the recovery of rows of version 1.2, archives without
a manifest, redaction of the key, the text of the report.

### PrefixDiag

The eleven requests in their order, each to a slot with what its cache holds; the sixth is
the cold reference in the slot of the other conversation, after an erasure. A
server routes into one slot, swaps slots, leaks, drifts, does not cache, lies about its
reuse, reports nothing (then no slot routes as it should, since the code asks for the names of both); another client or a lost answer comes in between. `did` keeps what
the server really did.

### BackingCacheDiag

The shell (`restore`, its exit trap) and the Python script as one control flow, since
the shell only waits. The trial server has a session of its own and survives the
script; it may also answer without token ids, without a count of cached tokens, or with more of them than the prompt has; signals reach both, in any step, and `cut` notes that one cut a cleanup short. The
memory recorder writes samples nobody decides on and is left out.

### RocmAudit

A file of the build is the generation of the source tree it was built from, so that
equal numbers are equal hashes. `Edit` and `Build` go on between
`AuditStart` (hashes), `Inspect` (markers of libraries and sources), `Test` (the kernel tests of one type on
one device) and `WriteAudit`. `Build` stands for the build of `build-rocm10-dual.sh` and for anything else that
replaces files: it may put any one of them, or all, in place or take one away, which is more than the script does.
One test stands for both operations (`MUL_MAT`, `MUL_MAT_ID`) and one custom type for the two of the code, which are
run one after the other on the same device and counted alike. Without the program that runs the tests (`asked.binary`) there are none. `AuditAccepts` is `validate_rocm_audit` for a
set of needed features, over the present report and the present build; `OldAudit` are reports of
older versions of the harness. Limits: a generation does not come back, so that a
library replaced and put back to the very old content between two looks is not seen (the hashes
could not see it either); hashing is one step; the binary that runs the tests
is there or not for a whole audit, and its content is not tracked; the gate does not compare which devices were asked for, and neither does the property;
the gate is at the start of a session, and a build during a sweep is not its business.

### PromptFit

One request to `/tokenize` per step. `measured` is every answer so far, and the tokenizer is
whatever is consistent with it: the same text has the same count, and a longer text has
at least the count of a shorter one less `Dip`, and more than its count if it is longer by `FirstHigh` (1024 or more) characters. `FirstHigh` and `LastHigh` are
where the doubling starts and must end. `Estimated` is the interpolation with its clamps, `Pad`
the units and repetitions of padding. Building the texts and the target of no tokens are left out.

### Quantization

Jobs are invocations of either program, each killed at any time, with its tool (`Kill`) or without it (`KillCommand`): the
tool that Python leaves behind is `left` before it opens its output and an `orphan` afterwards, and it goes on until it ends
by itself or by the closed pipe. `file` says of each output
whether it is absent, partial or complete, whose it is and which layout its header has. `Check` and
the start of the tool are two steps for both programs; only
`qwen_strix_quant.py` has a directory it makes atomically. The operator may remove outputs between
jobs, and overlooks an orphan of `llama-quantize`, whose file has no name from then on; the orphans of the other two tools are ended first.
The importance matrix is made without the source. `preflight` and `verify` of `qwen_quant.py` only report. The
headers of a source in several shards are read in one step.

## 3. Runs

| Run | Module / cfg | States | Question |
|---|---|---|---|
| `bench_run` | `MCBenchRun` / `BenchRun.cfg` | 186,861 | all properties of the sweep in four tiers |
| `bench_short` | `BenchRunShort.cfg` | violation | are short scored responses retried? |
| `bench_packaged` | `BenchRunPackaged.cfg` | violation | is every interrupted run packaged? |
| `bench_torn` | `BenchRunTorn.cfg` | violation | can a run directory always be resumed? |
| `strix_install` | `MCStrixInstall` / `StrixInstall.cfg` | 111,587 | installer under failures, kills, reboots |
| `service_smoke` | `MCServiceSmoke` / `ServiceSmoke.cfg` | 83,482 | the trial under failures and signals |
| `smoke_guard` | `ServiceSmokeGuard.cfg` | violation | is a guard trip never a pass? |
| `smoke_back` | `ServiceSmokeBack.cfg` | violation | does production always come back? |
| `model_state` | `MCModelState` / `ModelState.cfg` | 134,813 | hash predecessors and trailers, the rollback ring |
| `tools` | `MCTools` / `Tools.cfg` | 1,445,836 | three diagnostics, audit, prompt fitting, quantization |
| `mtp_nothing_found` | `MtpNothingFound.cfg` | violation | is "no divergence was detected" true? |
| `prompt_none_exact` | `PromptNoneExact.cfg` | violation | was no prompt exact when the search gives up? |

The components of `MCModelState` and of `MCTools` do not meet: each behaviour takes one of
them and leaves the others as they start. They share a run only to be checked in one go.

Bounds and why they are enough.

- `bench_run`: two rounds, two sessions, two signals. Tier T1 has two rounds, two
  experiments and the startup cell; T2 an experiment warm-up; T3 two cells measured
  concurrently with fail-fast; T4 scoring with per-cell warm-up. Everything a session
  leaves behind is met by the second one, and the only interaction of signals is first against second.
- `strix_install`: two versions, two invocations: a deployment over the remains of
  a killed one, a rollback of the one or the other. Three invocations with one version
  (342,684 states) were checked with the same result.
- `service_smoke`: two requests per server (a trip before, between, after), two
  signals (one in the handling of another), both arms of the repeat mode.
- `model_state`: for the history two slots, two tokens, contexts of three, hashes of three, one
  snapshot that either slot may restore; for the verifier a ring of four slots, drafts of
  two, seven tokens.
- `tools`, MTP diagnostic: 27 command lines with servers, from the full matrix (16 conditions, two
  repeats) under a sound server with any one faulty request (`DiagFaults`) to
  each kind of lie; generations of eight tokens, so that a divergence may come before, at
  and after the first rejected draft. Prefix diagnostic: eleven kinds of server, one fault.
  Backing cache: eleven kinds of server, two signals (one inside the cleanup of the other).
- `tools`, audit: two generations, of which the second has wrong kernels and has lost
  features; two changes, which is one before and one after any look; two devices.
- `tools`, prompt fitting: targets 2 and 5, a first bound of 6 characters and a last of 12 (one
  doubling or none), four probes, two units of two paddings, an overshoot and a dip of one. The search
  of the code is longer but each probe is the same step on a bracket; the four probes
  already lead from every bracket to an empty one or to the last try.
- `tools`, quantization: three jobs (two that overlap and one that comes after), two layouts.

Deadlock is not checked where the system may stop for good: the last session
or invocation, a finished trial, a full context.

Fairness. `BenchRun`, `StrixInstall` and `ServiceSmoke` assume weak fairness of the
steps of their one main thread, nothing else: not of the server, the service, the
watcher or signals. The code justifies it, as each blocking call returns: the
startup deadline, the request timeout and the two stop timeouts of `ManagedServer`;
600 seconds of `wait_ready`, the
timeout of every `post`, the join timeout and the two waits of `stop_server` in the trial. The `systemctl` calls of installer and
trial have no timeout of their own: that they return is assumed of systemd, whose start and stop timeouts end the jobs they wait for.
The other modules state safety only and assume no fairness.

What the passing properties say, beyond one type invariant per module:

- `BenchRun`: `MeasuredOnce` (never two accepted rows for a key), `EvidenceKept`
  (refinement of `ResultStore`: the response file of an accepted row is that
  measurement), `NoRemeasure`, `CleanSlot`, `OwnEndpoint` (no probe is sent to a
  server left over from an earlier session), `SuccessIsComplete`, `SessionEnds`.
- `StrixInstall`: `OriginalKept`, `FirstMigrationBoots`, `RestoredIsExact`,
  `DeployedIsNew`, `ReplacedWhenStopped`, `InvocationEnds`.
- `ServiceSmoke`: `PassUnderGuard`, `SuccessIsWhole`, `Restored`, `TrialAlone`,
  `TrialEnds`.
- `PleHistory`: `PredecessorsKept`, `OwnTrailersReadable`.
- `MtpVerifier`: `PendingTrue`, `RingTrue`, `RollbackDepth`.
- `MtpDiag`: `PassIsTrue` (a pass is about a whole matrix without a divergence), `ClaimIsTrue` (a
  divergence that is put before the first rejected draft was there), `SoundPasses`.
- `PrefixDiag`: `PrefixPassIsTrue`, `PrefixSoundPasses`; `BackingCacheDiag`:
  `BackingPassIsTrue`, `BackingReturned`.
- `RocmAudit`: `AuditIsTrue` (what is let through is what was tested), `AuditUsable` (an
  undisturbed audit is enough).
- `PromptFit`: `SearchIsSound`; `Quantization`: `PassIsOurs`, `NothingOverwritten`.

For each of them `PROJECT.json` names a mutant, a plausible bug of the same
lines (for the two patches mostly the code they replaced), under which TLC finds
the property violated.

## 4. Findings

Each is a run that shows the code and a document of the repository disagree.

1. `bench_short`: the README says a response of under 95% of its tokens is retried on
   resume; in scored tiers `completed_keys` accepts it.
2. `bench_packaged`: the README says every interrupted benchmark is packaged; a
   signal while a server starts leaves `execute_run` without summary and archive.
3. `bench_torn`: the README says an interrupted sweep can be resumed; a row
   cut off in the middle makes every later resume fail in `read_jsonl`.
4. `smoke_guard`: "Guard termination is … never a pass"; in the retention mode a trip
   after the verdict, met by a signal during the join, leaves verdict PASS in `results.json`.
5. `smoke_back`: the trial starts production again if it was active, and Ctrl-C goes
   through the cleanup; a signal inside the finally block ends it before the start.
6. `mtp_nothing_found`: the report says "no external divergence was detected in this matrix"
   whenever it has found no cause; repeats that differ at every draft depth fail
   their gate, are listed as divergences, and have no cause.
7. `prompt_none_exact`: the search promises a prompt of exactly the wanted count or
   says that it could not construct one; an upper bound of exactly that count, or a task
   alone of that count, is measured and not returned. In the first case the error calls a smaller count the closest, in the
   second the wanted count itself.

## 5. Proofs

All proofs are checked by TLAPS without any unproved step, and rest on the named assumptions of
the modules only. Every invariant and every action property of the passing runs, and the
refinement, is stated by a theorem for every value of the constants. Each of the eight
modules below proves from inductive invariants that were first model-checked.

`BenchRunProofs` (from the assumptions on names, cells, tiers and bounds).
Types alone are not inductive, since a step indexes the lanes and the session
of its own control point; `TypeInv` is `TypeOK` with
`LaneOK` (the lanes are those of the present visit) and `SessionOK` (each
row and file is of a session so far). On it rest:

- `TypeCorrect`, `Spec => []TypeOK`;
- `SlotsStayClean` by `SlotInv` (what has dirtied the slot on the way to `measure`)
  and `EndpointIsOwn` by `PortInv` (a leaked process that listens was seen by the port check);
- `AcceptedOnce`, `Spec => []MeasuredOnce`, by `OnceInv`: the set of completed keys of the
  session is at least what the journal holds (`DoneInv`), the keys still to be
  recorded are not among them (`PendingInv`) and differ from each other (`BatchInv`);
- `CompletedSkipped`, `Spec => NoRemeasure`, from the same invariant: the request of a
  sequential visit is for a key that is pending, so none the journal accepts;
- `ImplementsStore`, `Spec => EvidenceKept`, by `EvidenceInv`: the response file
  of every accepted key is the one its row tells of, and the keys whose files
  are being written have no accepted row. Each step then maps to a step of
  `ResultStore` or to a stutter;
- `SuccessMeansComplete`, `Spec => []SuccessIsComplete`, by `CompleteInv`: a session without a signal leaves
  no visit before each of its probes has a row, its own or an error row (`AccountInv`, over the visits
  `Behind` the present one); `OutcomeInv` has where a session starts and what it has packed.

`StrixInstallProofs` (for every set of versions and number of invocations). `TypeOK` is not inductive
by itself, as the steps after the sealing write the chosen version: `TypeInv` adds `VersionChosen`.

- `TypeCorrect`;
- `OriginalFilesKept` by `KeptInv`: as long as no backup is sealed, the files are the original ones,
  and the first one that is sealed copied them. A later backup may hold torn files, the first never;
- `FilesReplacedWhenStopped` by `StoppedInv`: nothing between the stop and the last file, no restart of the
  unit and no boot, brings the service up without leaving these steps;
- `RestoredMeansRestored` by `RollbackInv` and `DeployedMeansDeployed` by `DeployInv`: what a
  rollback or a deployment has put in place stays so up to its last word;
- `FirstMigrationAlwaysBoots` by `MigrationInv`: the drop-in comes after its launcher and goes before it.

`ServiceSmokeProofs` (for every number of requests, low samples and signals). The two processes share the flag,
the trial server and the signal; each invariant says what one may still do at each place of the other.

- `TypeCorrect`, which needs `WatcherInv` (samples are counted only before the trip);
- `TrialIsAlone` by `GpuInv`: production is down from the stop that was waited for until the trial's server is gone;
- `ProductionRestored` by `RestoreInv`: what was taken was active, and a cleanup that is not cut short passes the start;
- `PassIsGuarded` by `GuardInv`: the saturation mode judges after the join, and once the join has seen
  the watcher's end nothing trips the guard (`Quiet`);
- `SuccessMeansWhole` by `StatusInv`: status 0 in the cleanup is what a whole trial left, and only ever changes away from 0.

`ModelStateProofs`, the history (for every number of slots, vocabulary, `NGram`, context and batch).
`CoverInv` is the strengthening: a history is empty, or starts at position 0, is as
long as its positions say, and begins with the tokens of the memory. It is
needed because `PredecessorsKept` speaks of the last `NGram - 1` tokens only,
and a later truncation reaches any older one. `Reconciled` is the central lemma: reconciling a
covering history to a held position leaves exactly the tokens before it.

- `TypeCorrect`, `TrueHashes` (`[]PredecessorsKept`), `OwnTrailers` (`[]OwnTrailersReadable`).

`ModelStateProofs`, the verifier (for every ring, draft and sequence length). `VerifierInv` has the ring
(`RingInv`: `RingTrue`, and `DeepEnough`, how far back the rows reach), the rows of the batch just processed and the pending
row. `RollbackDepth` alone is not inductive: what a rollback finds depends on the longest length the memory
has had, not on the present one. `AtFacts`, `Turned` and `TurnedBack` are the arithmetic of a position modulo the ring.

- `VerifierTypeCorrect`, `RingIsTrue`, `PendingIsTrue`, `RollbackReaches`.

`DiagProofs`, backing cache (for every set of servers and any number of signals). `BackingInv` says who is down
and who may be up at each place of the script, where `BackingReturned` speaks of its end. `ArmsInv` keeps the rows in
the order of the requests, each with the arm and the case of its place, and says what a failure and a
verdict were drawn from.

- `ServiceReturned`, `BackingPassTrue`.

`DiagProofs`, prefix (for every kind of server and number of faults). A pass is inferred from what the server
reports, and the property speaks of what it did: `RowIsTrue` ties a row to `did`, `AutoKept` says when the slot chosen
by the server itself is still the one of the conversation, `LiarForgets` that a server that uses one slot and names
two has kept neither conversation. For the other direction `SoundInv` has the exact contents of the slots before each request
(`SoundSlots`), whatever they held at first, and the exact rows (`RowIsSound`).

- `PrefixPassTrue`, `PrefixSound` (`[]PrefixSoundPasses`).

The second proof found that `Serving` was a CASE with overlapping guards, of which TLA+ may take either and
TLC takes the first; it is an IF now.

`MtpEvidenceProofs` has the lemmas about the shared operators: minimum and maximum of a statistic, what it means that
no divergence was found (`NoDivergence`, `SameDivergence`), what a filter leaves of a stretch of the log
(`PickedStretch`), the tokens that a number of draft steps put out (`OutputsOfSteps`).

`MtpDiagProofs` (for every number of repeats and primes, every command line of the parser, server and number of faulty requests).

- `PassTrue` by `MtpInv`: every row is honest about the generation it was read from (`RowHonest`), and a
  verdict is about rows the run has. A gate counts rows, and what it counted must be the whole matrix: a pass has one
  row for each place (`OneRowEach`, by counting), and what is indexed is whole (`IndexedWhole`).
- `ClaimTrue` by `ClaimInv`: the run is at its place of the matrix (`PlaceIsTrue`), whose conditions all differ
  (`DigitsTell`, `MatrixCells`); each line of the log is of its request, and a row has the events of its own as
  long as `sound_log` (`OwnSlice`). Then what the claim says of the steps before the first rejected draft
  (`BeforeStops`) was so.
- `SoundPass` by `SoundInv`: undisturbed, no line is late and every row is the ideal one of its condition (`IdealStream`,
  `IdealParsed`, `IdealRow`). `SoundMatrix`, `SoundPairs`, `SoundCoverage` and `SoundGates` then go through the gates.

`ToolProofs`, audit (for every number of generations and changes, every list of devices and
every tree). `AuditInv` puts the looks of an audit in the order of time: hashes, contents and tests are
of the past (`Past`, `Tested`), the contents and the tests are no older than the hashes, and what a report
claims it has seen. It is needed because `AuditIsTrue` compares the two ends only: the gate finds
the hashes of the report on the disk of now, and since files only get newer, everything between
has to be the same. `PastKept`, `TestedKept` and `ReportKept` say that edits and builds keep the past,
`WantedMany` and `WantedTwice` how many tests there are. The other direction is `UsableInv`: as long as nothing fails
or changes, the report has all that was asked for so far (`Complete`); every second test is of the same kind
(`EverySecond`, `WantedTurns`), so that both kinds have passed on each device.

- `AuditTrue` (`[]AuditIsTrue`), `AuditIsUsable` (`[]AuditUsable`).

`ToolProofs`, quantization (for every set of jobs and layouts). `OneOwner`: the directory of
`qwen_strix_quant.py` has one owner from `mkdir` to the end of its job and of the tool it may leave behind, and its output no other
writer; `Noted`: two jobs that run at once are both in `overlapped`, so that an output which appeared after
a job had looked is excused. Neither property holds of the outputs alone.

- `VerifiedIsOurs`, `QuantSpec => PassIsOurs`; `NothingLost`, `QuantSpec => NothingOverwritten`.

`ToolProofs`, prompt fitting (for every target, tokenizer within the assumptions, and number of tries). `Bracket` is the property with
what it takes to keep it: the best prompt never lies beyond the lower bound, so that a falling upper
bound does not pass it. `Doubling` is needed before: no prompt so far has more tokens than
the lower bound, which holds only because the steps of the doubling are at least
`FirstHigh` characters, which add a token or more. `ProbeInside` is the arithmetic of the interpolation.

- `SearchSound`, `FitSpec => []SearchIsSound`.

In the runs `model_state` and `tools` the modules are started by one specification, which chooses one of them and
takes its steps; the theorems speak of each module's own specification.

Only model-checked: liveness (`SessionEnds`, `InvocationEnds`, `TrialEnds`), since ENABLED and fairness are
out of the prover's reach, and the runs of the findings, whose counterexamples are TLC's.

## 6. Not modelled, and what is left

Not modelled, with the reason:

- The choice of a prompt-cache checkpoint, the carry of the Strix patch and the bypass patches change
  single conditions inside functions of the server; the rollback window, the restoration
  and the batching loop around them are not in the repository. A model would
  be mostly of guesses. (The history trailer and the verifier ring are whole in their patches and are
  modelled.)
- The restart limit of the unit is systemd's; `StrixInstall` has the restarts without it.
- The old launcher is a straight line of checks before an exec; matrix resolution and the
  translation of arguments are pure and run once; the telemetry sampler writes samples that decide nothing;
  statistics are floating point.
- Hazards known and not covered: two installers at once, a service that is still activating when
  the installer or the trial looks, a resume under another matrix, a second row of a concurrency group,
  files renamed without a sync before a power loss, and a signal inside `Popen`. The list in `PROJECT.json`
  has the first three.

Theorems still worth proving: no safety property of the runs is left. Candidates, each to be stated as a property
and model-checked first: what success guarantees when a signal did reach the session (`AccountInv` speaks of
sessions without one), that a rollback after a second migration still leaves a host that boots, and what the causes
of the MTP report other than the first rejected draft say of the server.
