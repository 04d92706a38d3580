--------------------------- MODULE BenchRunProofs ---------------------------
(***************************************************************************)
(* Proofs about BenchRun for every matrix, tier, number of sessions and    *)
(* number of signals: the type invariant, that a probe is accepted at most *)
(* once and not requested again, that measured requests start on an erased *)
(* slot, that nothing else answers on the port while a visit measures, and *)
(* that a run which reports success has left nothing out.                  *)
(***************************************************************************)
EXTENDS BenchRun, TLAPS

-----------------------------------------------------------------------------
(* Facts about the tier and the schedule *)

LEMMA TierFacts ==
  ASSUME tier \in Tiers
  PROVE  /\ tier.rounds \in 1..MaxRounds
         /\ tier.experiments \in Seq(Names)
         /\ N \in Nat \ {0}
         /\ \A i, j \in 1..N : tier.experiments[i] = tier.experiments[j] => i = j
         /\ tier.cells \subseteq CellUniverse
         /\ tier.concurrent \in BOOLEAN /\ tier.erase \in BOOLEAN
         /\ tier.startup \in BOOLEAN /\ tier.scored \in BOOLEAN
         /\ tier.startup => tier.cells = {StartupCell} /\ ~tier.concurrent
<1>1. TierOK(tier)
  BY SweepAssumption
<1>2. tier.experiments \in Seq(Names) /\ tier.experiments # <<>>
  BY <1>1 DEF TierOK
<1>3. Len(tier.experiments) \in Nat \ {0}
  BY <1>2
<1> QED
  BY <1>1, <1>2, <1>3 DEF TierOK, N

\* The rotated list of a round is a permutation of the experiments.
LEMMA ScheduleType ==
  ASSUME tier \in Tiers, NEW r \in Nat, NEW p \in 0..(N - 1)
  PROVE  \E i \in 1..N : ExperimentAt(r, p) = tier.experiments[i]
<1>1. N \in Nat \ {0}
  BY TierFacts
<1>2. Offset(r) \in 0..(N - 1)
  BY <1>1 DEF Offset
<1> QED
  BY <1>1, <1>2 DEF ExperimentAt

LEMMA ScheduleInjective ==
  ASSUME tier \in Tiers, NEW r \in Nat, NEW p \in 0..(N - 1), NEW q \in 0..(N - 1),
         ExperimentAt(r, p) = ExperimentAt(r, q)
  PROVE  p = q
<1>1. N \in Nat \ {0} /\ \A i, j \in 1..N : tier.experiments[i] = tier.experiments[j] => i = j
  BY TierFacts
<1>2. Offset(r) \in 0..(N - 1)
  BY <1>1 DEF Offset
<1> DEFINE at(x) == (IF x + Offset(r) < N THEN x + Offset(r) ELSE x + Offset(r) - N) + 1
<1>3. at(p) \in 1..N /\ at(q) \in 1..N
  BY <1>1, <1>2
<1>4. at(p) = at(q)
  BY <1>1, <1>3 DEF ExperimentAt
<1> QED
  BY <1>1, <1>2, <1>4

-----------------------------------------------------------------------------
(* Type correctness *)

(* TypeOK is inductive together with: the lane being recorded is one of    *)
(* the batch (a row is only ever written for a cell that was measured), and *)
(* a running session has been counted.                                     *)
LaneOK ==
  /\ pc = "append" => lane \in batch
  /\ (pc = "erase" /\ ~tier.concurrent) => lane \in batch
SessionOK == pc # "idle" => sessions > 0
TypeInv == TypeOK /\ LaneOK /\ SessionOK

\* The keys of a visit are keys of the sweep, and of the response table.
LEMMA KeyType ==
  ASSUME TypeOK, InLoop, NEW c \in tier.cells
  PROVE  KeyOf(c) \in TierKeys /\ KeyOf(c) \in Keys /\ Experiment \in Names
<1>1. tier \in Tiers /\ round \in 0..(tier.rounds - 1) /\ place \in 0..(N - 1)
  BY TierFacts DEF TypeOK, InLoop
<1>2. \E i \in 1..N : Experiment = tier.experiments[i]
  BY <1>1, ScheduleType DEF Experiment
<1>3. \A i \in 1..N : tier.experiments[i] \in Names
  BY <1>1, TierFacts DEF N
<1>4. round \in 0..(MaxRounds - 1) /\ c \in CellUniverse
  BY <1>1, TierFacts, SweepAssumption
<1> QED
  BY <1>1, <1>2, <1>3, <1>4 DEF KeyOf, TierKeys, Keys

LEMMA RowType ==
  ASSUME TypeOK, InLoop, sessions \in 1..MaxSessions
  PROVE  /\ ErrorRow \in RowSet
         /\ lane \in tier.cells => LaneRows \subseteq RowSet
<1>1. tier \in Tiers /\ round \in 0..(tier.rounds - 1) /\ place \in 0..(N - 1)
  BY TierFacts DEF TypeOK, InLoop
<1>2. \E i \in 1..N : Experiment = tier.experiments[i]
  BY <1>1, ScheduleType DEF Experiment
<1>3. ErrorRow \in RowSet
  BY <1>1, <1>2 DEF ErrorRow, RowSet
<1>4. ASSUME lane \in tier.cells, NEW row \in LaneRows PROVE row \in RowSet
  <2>1. LaneKey \in TierKeys
    BY <1>4, KeyType DEF LaneKey
  <2> DEFINE Short == IF tier.startup THEN {FALSE} ELSE BOOLEAN
             Quality == IF tier.scored THEN {"pass", "fail"} ELSE {"unscored"}
  <2>2. row \in [status : {"ok"}, key : {LaneKey}, session : {sessions},
                 short : Short, quality : Quality]
    BY <1>4 DEF LaneRows, ProbeRows
  <2>3. Short \subseteq BOOLEAN /\ Quality \subseteq {"pass", "fail", "unscored"}
    OBVIOUS
  <2> HIDE DEF Short, Quality
  <2> QED
    BY <2>1, <2>2, <2>3 DEF RowSet
<1> QED
  BY <1>3, <1>4

LEMMA TierKeysType ==
  ASSUME TypeOK
  PROVE  TierKeys \subseteq Keys
<1>1. tier \in Tiers
  BY DEF TypeOK
<1>2. tier.rounds \in 1..MaxRounds /\ MaxRounds \in Nat
  BY <1>1, TierFacts, SweepAssumption
<1>3. \A r \in 0..(tier.rounds - 1) : r \in 0..(MaxRounds - 1)
  BY <1>2
<1>4. \A i \in 1..N : tier.experiments[i] \in Names
  BY <1>1, TierFacts DEF N
<1>5. \A c \in tier.cells : c \in CellUniverse
  BY <1>1, TierFacts
<1> QED
  BY <1>3, <1>4, <1>5 DEF TierKeys, Keys

LEMMA CompletedType ==
  ASSUME TypeOK
  PROVE  completedKeys \subseteq TierKeys
BY DEF TypeOK, completedKeys, Rows, RowSet, Accepts

LEMMA InitType == Init => TypeInv
<1> SUFFICES ASSUME Init PROVE TypeInv
  OBVIOUS
<1> USE DEF Init
<1>1. N - 1 \in Nat /\ tier.rounds \in Nat
  BY TierFacts, SweepAssumption
<1>2. journal \in Seq(RowSet) /\ archive \in Seq(Nat) /\ checksum \in Seq(Nat)
  OBVIOUS
<1>3. Len(archive) <= 1 /\ Len(checksum) <= 1
  OBVIOUS
<1>4. responses \in [Keys -> 0..MaxSessions]
  BY SweepAssumption
<1>5. /\ completed \subseteq TierKeys /\ pending \subseteq tier.cells
      /\ batch \subseteq tier.cells
  OBVIOUS
<1>6. pc \in ControlPoints /\ pc \notin InVisit
  BY DEF ControlPoints, InVisit, Serving
<1>7. /\ open \in BOOLEAN /\ readable \in BOOLEAN
      /\ leaked \in {"none", "spawned", "listening", "wedged"}
      /\ exit \in {"never", "running", "ok", "error", "interrupted", "crashed", "unreadable"}
      /\ lane \in tier.cells \cup {NoCell}
      /\ server \in {"none", "spawned", "listening"} /\ slot \in {"clean", "dirty"}
      /\ after \in {"next", "abort", "interrupt"}
  OBVIOUS
<1>8. /\ sessions \in 0..MaxSessions /\ signals \in 0..MaxSignals
      /\ round \in 0..tier.rounds /\ place \in 0..(N - 1)
  BY <1>1, SweepAssumption
<1>9. TypeOK
  BY <1>1, <1>2, <1>3, <1>4, <1>5, <1>6, <1>7, <1>8 DEF TypeOK
<1> QED
  BY <1>9 DEF TypeInv, LaneOK, SessionOK

\* What every step that ends a session leaves behind.
LEMMA EndType ==
  ASSUME TypeInv, NEW how \in {"ok", "error", "interrupted", "crashed"}, EndSession(how),
         journal' \in Seq(RowSet), open' \in BOOLEAN, readable' \in BOOLEAN,
         responses' \in [Keys -> 0..MaxSessions],
         archive' \in Seq(Nat), Len(archive') <= 1,
         checksum' \in Seq(Nat), Len(checksum') <= 1,
         leaked' \in {"none", "spawned", "listening", "wedged"},
         signals' \in 0..MaxSignals
  PROVE  TypeInv'
<1> USE DEF EndSession, ForgetSession
<1>1. tier' = tier /\ N' = N /\ RowSet' = RowSet /\ TierKeys' = TierKeys
  BY DEF RowSet, TierKeys, N
<1>2. N - 1 \in Nat /\ tier.rounds \in Nat
  BY TierFacts, SweepAssumption DEF TypeInv, TypeOK
<1>3. TypeOK'
  BY <1>1, <1>2 DEF TypeInv, TypeOK, ControlPoints, InVisit, Serving
<1> QED
  BY <1>3 DEF TypeInv, LaneOK, SessionOK

LEMMA Frame ==
  ASSUME tier' = tier
  PROVE  N' = N /\ RowSet' = RowSet /\ TierKeys' = TierKeys
BY DEF N, RowSet, TierKeys

\* What appending one row, or part of one, does to the journal.
LEMMA AppendType ==
  ASSUME TypeOK, NEW row \in RowSet, AppendRow(row) \/ TearRow(row)
  PROVE  journal' \in Seq(RowSet) /\ open' \in BOOLEAN /\ readable' \in BOOLEAN
<1>1. journal \in Seq(RowSet) /\ open \in BOOLEAN /\ readable \in BOOLEAN
  BY DEF TypeOK
<1>2. journal' = journal \/ journal' = Append(journal, row)
  BY DEF AppendRow, TearRow
<1>3. journal' \in Seq(RowSet)
  BY <1>1, <1>2
<1>4. open' \in BOOLEAN /\ readable' \in BOOLEAN
  BY <1>1 DEF AppendRow, TearRow
<1> QED
  BY <1>3, <1>4

\* Steps that end the session are covered by EndType.
LEMMA EndingStepType ==
  ASSUME TypeInv,
         \/ PortBusy \/ StopLogFails \/ WriteChecksum \/ FinishFails
         \/ LateSignal \/ Crash
  PROVE  TypeInv'
<1> USE DEF TypeInv, TypeOK, disk
<1>1. CASE PortBusy
  BY <1>1, EndType DEF PortBusy
<1>2. CASE StopLogFails
  BY <1>2, EndType DEF StopLogFails
<1>3. CASE WriteChecksum
  BY <1>3, EndType DEF WriteChecksum
<1>4. CASE FinishFails
  BY <1>4, EndType DEF FinishFails
<1>5. CASE LateSignal
  BY <1>5, EndType, SweepAssumption DEF LateSignal
<1>6. CASE Crash
  <2>1. journal' \in Seq(RowSet) /\ open' \in BOOLEAN /\ readable' \in BOOLEAN
    <3>1. CASE pc = "append"
      <4>1. LaneRows \subseteq RowSet
        BY <3>1, RowType DEF LaneOK, SessionOK, InVisit, Serving
      <4> QED
        BY <1>6, <3>1, <4>1, AppendType DEF Crash
    <3>2. CASE pc = "error"
      <4>1. ErrorRow \in RowSet
        BY <3>2, RowType DEF SessionOK, InVisit, Serving
      <4> QED
        BY <1>6, <3>2, <4>1, AppendType DEF Crash
    <3>3. CASE pc \notin {"append", "error"}
      BY <1>6, <3>3 DEF Crash
    <3> QED
      BY <3>1, <3>2, <3>3
  <2> QED
    BY <1>6, <2>1, EndType DEF Crash
<1> QED
  BY <1>1, <1>2, <1>3, <1>4, <1>5, <1>6

\* Steps that leave the journal alone and stay in the session.
LEMMA QuietStepType ==
  ASSUME TypeInv,
         \/ PreflightRefuses \/ ResumeUnreadable \/ StartSession \/ LoopDone
         \/ SkipVisit \/ StartServer \/ ServerListens \/ StartReady
         \/ StartInterrupted \/ Warmup \/ VisitDone \/ PickCell \/ PickGroup
         \/ Measure \/ WriteResponse \/ Erase \/ StepFails \/ Package
         \/ FirstSignal \/ LeakedServerMoves
  PROVE  TypeInv'
<1> USE DEF TypeInv, TypeOK, LaneOK, SessionOK, disk, control
<1>0. tier' = tier
  BY DEF PreflightRefuses, ResumeUnreadable, StartSession, LoopDone, SkipVisit, StartServer, ServerListens, StartReady, StartInterrupted, Warmup, VisitDone, PickCell, PickGroup, Measure, WriteResponse, Erase, StepFails, Package, FirstSignal, LeakedServerMoves
<1>t. N' = N /\ RowSet' = RowSet /\ TierKeys' = TierKeys /\ InLoop' = (round' < tier.rounds)
  BY <1>0, Frame DEF InLoop
<1>n. N \in Nat \ {0} /\ tier.rounds \in Nat
  BY TierFacts, SweepAssumption
<1> USE DEF InLoop, ControlPoints, InVisit, Serving
<1>1. CASE PreflightRefuses
  BY <1>1, <1>0, <1>t, <1>n, SweepAssumption DEF PreflightRefuses
<1>2. CASE ResumeUnreadable
  BY <1>2, <1>0, <1>t, <1>n, SweepAssumption DEF ResumeUnreadable
<1>3. CASE StartSession
  BY <1>3, <1>0, <1>t, <1>n, SweepAssumption, CompletedType DEF StartSession
<1>4. CASE LoopDone
  BY <1>4, <1>0, <1>t, <1>n, SweepAssumption DEF LoopDone
<1>5. CASE SkipVisit
  BY <1>5, <1>0, <1>t, <1>n, SweepAssumption DEF SkipVisit, NextVisit
<1>6. CASE StartServer
  BY <1>6, <1>0, <1>t, <1>n, SweepAssumption DEF StartServer, Remaining
<1>7. CASE ServerListens
  BY <1>7, <1>0, <1>t, <1>n, SweepAssumption DEF ServerListens
<1>8. CASE StartReady
  BY <1>8, <1>0, <1>t, <1>n, SweepAssumption, TierFacts DEF StartReady
<1>9. CASE StartInterrupted
  BY <1>9, <1>0, <1>t, <1>n, SweepAssumption DEF StartInterrupted
<1>10. CASE Warmup
  BY <1>10, <1>0, <1>t, <1>n, SweepAssumption DEF Warmup, EraseSlot
<1>11. CASE VisitDone
  BY <1>11, <1>0, <1>t, <1>n, SweepAssumption DEF VisitDone
<1>12. CASE PickCell
  BY <1>12, <1>0, <1>t, <1>n, SweepAssumption DEF PickCell
<1>13. CASE PickGroup
  BY <1>13, <1>0, <1>t, <1>n, SweepAssumption DEF PickGroup, Group
<1>14. CASE Measure
  BY <1>14, <1>0, <1>t, <1>n, SweepAssumption DEF Measure, Unrecorded
<1>15. CASE WriteResponse
  <2>1. PICK c \in batch :
          lane' = c /\ responses' = [responses EXCEPT ![KeyOf(c)] = sessions]
    BY <1>15 DEF WriteResponse
  <2>2. responses' \in [Keys -> 0..MaxSessions]
    BY <2>1
  <2> QED
    BY <1>15, <2>1, <2>2, <1>0, <1>t, <1>n DEF WriteResponse
<1>16. CASE Erase
  BY <1>16, <1>0, <1>t, <1>n, SweepAssumption DEF Erase, EraseSlot
<1>17. CASE StepFails
  BY <1>17, <1>0, <1>t, <1>n, SweepAssumption DEF StepFails
<1>18. CASE Package
  BY <1>18, <1>0, <1>t, <1>n, SweepAssumption DEF Package
<1>19. CASE FirstSignal
  BY <1>19, <1>0, <1>t, <1>n, SweepAssumption DEF FirstSignal
<1>20. CASE LeakedServerMoves
  BY <1>20, <1>0, <1>t, <1>n, SweepAssumption DEF LeakedServerMoves
<1> QED
  BY <1>1, <1>2, <1>3, <1>4, <1>5, <1>6, <1>7, <1>8, <1>9, <1>10, <1>11, <1>12, <1>13, <1>14, <1>15, <1>16, <1>17, <1>18, <1>19, <1>20

\* Steps that write to the journal, stop the server or unwind the session.
LEMMA JournalStepType ==
  ASSUME TypeInv,
         \/ Record \/ RecordFails \/ RecordError \/ RecordErrorFails
         \/ StopServer \/ SecondSignal
  PROVE  TypeInv'
<1> USE DEF TypeInv, TypeOK, LaneOK, SessionOK, disk, control
<1>0. tier' = tier
  BY DEF Record, RecordFails, RecordError, RecordErrorFails, StopServer,
         SecondSignal, EndSession
<1>t. N' = N /\ RowSet' = RowSet /\ TierKeys' = TierKeys /\ InLoop' = (round' < tier.rounds)
  BY <1>0, Frame DEF InLoop
<1>n. N \in Nat \ {0} /\ tier.rounds \in Nat
  BY TierFacts, SweepAssumption
<1>s. pc # "idle" => sessions \in 1..MaxSessions
  OBVIOUS
<1>e. ASSUME pc = "error", NEW row, row = ErrorRow, AppendRow(row) \/ TearRow(row)
      PROVE  journal' \in Seq(RowSet) /\ open' \in BOOLEAN /\ readable' \in BOOLEAN
  <2>1. row \in RowSet
    BY <1>e, <1>s, RowType DEF InVisit, Serving
  <2> QED
    BY <1>e, <2>1, AppendType
<1>a. ASSUME pc = "append", NEW row \in LaneRows, AppendRow(row) \/ TearRow(row)
      PROVE  journal' \in Seq(RowSet) /\ open' \in BOOLEAN /\ readable' \in BOOLEAN
  <2>1. row \in RowSet
    BY <1>a, <1>s, RowType DEF InVisit, Serving
  <2> QED
    BY <1>a, <2>1, AppendType
<1>k. pc = "append" => LaneKey \in TierKeys
  BY KeyType DEF LaneKey, InVisit, Serving
<1> USE DEF InLoop, ControlPoints, InVisit, Serving
<1>1. CASE Record
  BY <1>1, <1>a, <1>k, <1>0, <1>t, <1>n DEF Record
<1>2. CASE RecordFails
  BY <1>2, <1>a, <1>0, <1>t, <1>n DEF RecordFails
<1>3. CASE RecordError
  BY <1>3, <1>e, <1>0, <1>t, <1>n DEF RecordError
<1>4. CASE RecordErrorFails
  BY <1>4, <1>e, <1>0, <1>t, <1>n DEF RecordErrorFails
<1>5. CASE StopServer
  <2>1. leaked' \in {"none", "spawned", "listening", "wedged"}
    BY <1>5 DEF StopServer, Survivor
  <2>2. CASE after = "next"
    BY <1>5, <2>1, <2>2, <1>0, <1>t, <1>n DEF StopServer, NextVisit
  <2>3. CASE after # "next"
    BY <1>5, <2>1, <2>3, EndType DEF StopServer
  <2> QED
    BY <2>2, <2>3
<1>6. CASE SecondSignal
  <2>1. signals' \in 0..MaxSignals
    BY <1>6, SweepAssumption DEF SecondSignal
  <2>2. CASE pc \in {"loop", "stopping"}
    BY <1>6, <2>1, <2>2, EndType DEF SecondSignal
  <2>3. CASE pc \notin {"loop", "stopping"}
    BY <1>6, <2>1, <2>3, <1>0, <1>t, <1>n DEF SecondSignal
  <2> QED
    BY <2>2, <2>3
<1> QED
  BY <1>1, <1>2, <1>3, <1>4, <1>5, <1>6

LEMMA NextType == TypeInv /\ [Next]_vars => TypeInv'
<1> SUFFICES ASSUME TypeInv, [Next]_vars PROVE TypeInv'
  OBVIOUS
<1>1. CASE Next
  BY <1>1, EndingStepType, QuietStepType, JournalStepType
     DEF Next, HarnessStep, Environment
<1>2. CASE UNCHANGED vars
  <2>1. N' = N /\ RowSet' = RowSet /\ TierKeys' = TierKeys
    BY <1>2, Frame DEF vars
  <2> QED
    BY <1>2, <2>1 DEF vars, disk, control, TypeInv, TypeOK, LaneOK, SessionOK, InLoop
<1> QED
  BY <1>1, <1>2

\* The variables of the harness keep the shapes execute_run gives them, for
\* every matrix, tier and number of sessions and signals.
THEOREM TypeCorrect == Spec => []TypeOK
<1>1. TypeInv => TypeOK
  BY DEF TypeInv
<1> QED
  BY <1>1, InitType, NextType, PTL DEF Spec

-----------------------------------------------------------------------------
(* Slots and ports *)

\* Between its erase and the next request a slot stays clean: the only points
\* of a visit with a dirty slot are those between an answer and its erase.
SlotInv ==
  tier.erase =>
     /\ pc \in {"warmup", "cells", "measure", "append"} => slot = "clean"
     /\ (pc = "file" /\ tier.concurrent) => slot = "clean"

\* A survivor that does not listen yet can only be met by a session that
\* found no llama process at all when it started.
PortInv ==
  /\ pc # "idle" => leaked # "spawned"
  /\ pc \in InVisit => leaked # "listening"

LEMMA NextSlot == TypeInv /\ SlotInv /\ [Next]_vars => SlotInv'
<1> SUFFICES ASSUME TypeInv, SlotInv, [Next]_vars PROVE SlotInv'
  OBVIOUS
<1> USE DEF SlotInv
<1>0. tier' = tier /\ tier.erase \in BOOLEAN /\ tier.concurrent \in BOOLEAN
      /\ (tier.startup => ~tier.concurrent)
  BY TierFacts DEF TypeInv, TypeOK, Next, HarnessStep, Environment, vars,
     LoopDone, SkipVisit, PortBusy, StartServer, StartReady, StartInterrupted, Warmup,
     VisitDone, PickCell, PickGroup, Measure, WriteResponse, Erase, Record, StepFails,
     RecordFails, RecordError, RecordErrorFails, StopServer, StopLogFails, Package,
     WriteChecksum, FinishFails, PreflightRefuses, ResumeUnreadable, StartSession,
     ServerListens, FirstSignal, SecondSignal, LateSignal, Crash, LeakedServerMoves,
     EndSession
<1>1. CASE LoopDone \/ SkipVisit \/ StartServer \/ StartInterrupted \/ VisitDone
           \/ StepFails \/ RecordFails \/ RecordError \/ RecordErrorFails \/ Package
  BY <1>0, <1>1 DEF LoopDone, SkipVisit, StartServer, StartInterrupted, VisitDone,
     StepFails, RecordFails, RecordError, RecordErrorFails, Package
<1>2. CASE PortBusy \/ StopLogFails \/ WriteChecksum \/ FinishFails \/ LateSignal
           \/ Crash \/ StopServer
  BY <1>0, <1>2 DEF PortBusy, StopLogFails, WriteChecksum, FinishFails, LateSignal,
     Crash, StopServer, EndSession
<1>3. CASE StartReady \/ Warmup \/ PickCell \/ PickGroup \/ Measure
  BY <1>0, <1>3 DEF StartReady, Warmup, PickCell, PickGroup, Measure, EraseSlot
<1>4. CASE WriteResponse \/ Erase \/ Record
  BY <1>0, <1>4 DEF WriteResponse, Erase, Record, EraseSlot
<1>5. CASE PreflightRefuses \/ ResumeUnreadable \/ StartSession \/ ServerListens
           \/ FirstSignal \/ LeakedServerMoves
  BY <1>0, <1>5 DEF PreflightRefuses, ResumeUnreadable, StartSession, ServerListens,
     FirstSignal, LeakedServerMoves
<1>6. CASE SecondSignal
  BY <1>0, <1>6 DEF SecondSignal, EndSession
<1>7. CASE UNCHANGED vars
  BY <1>0, <1>7 DEF vars
<1> QED
  BY <1>1, <1>2, <1>3, <1>4, <1>5, <1>6, <1>7 DEF Next, HarnessStep, Environment

LEMMA NextPort == TypeInv /\ PortInv /\ [Next]_vars => PortInv'
<1> SUFFICES ASSUME TypeInv, PortInv, [Next]_vars PROVE PortInv'
  OBVIOUS
<1> USE DEF PortInv, InVisit, Serving
<1>1. CASE LoopDone \/ SkipVisit \/ StartServer \/ StartInterrupted \/ VisitDone
           \/ StepFails \/ RecordFails \/ RecordError \/ RecordErrorFails \/ Package
           \/ StartReady \/ Warmup \/ PickCell \/ PickGroup \/ Measure
           \/ WriteResponse \/ Erase \/ Record \/ ServerListens \/ FirstSignal
  BY <1>1 DEF LoopDone, SkipVisit, StartServer, StartInterrupted, VisitDone,
     StepFails, RecordFails, RecordError, RecordErrorFails, Package, StartReady,
     Warmup, PickCell, PickGroup, Measure, WriteResponse, Erase, Record, PortFree,
     ServerListens, FirstSignal
<1>2. CASE PortBusy \/ StopLogFails \/ WriteChecksum \/ FinishFails \/ LateSignal
           \/ Crash
  BY <1>2 DEF PortBusy, StopLogFails, WriteChecksum, FinishFails, LateSignal,
     Crash, EndSession
<1>3. CASE StopServer
  BY <1>3 DEF StopServer, Survivor, EndSession, TypeInv, TypeOK
<1>4. CASE PreflightRefuses \/ ResumeUnreadable \/ StartSession \/ LeakedServerMoves
  BY <1>4 DEF PreflightRefuses, ResumeUnreadable, StartSession, LeakedServerMoves
<1>5. CASE SecondSignal
  BY <1>5 DEF SecondSignal, EndSession, TypeInv, TypeOK, ControlPoints
<1>6. CASE UNCHANGED vars
  BY <1>6 DEF vars
<1> QED
  BY <1>1, <1>2, <1>3, <1>4, <1>5, <1>6 DEF Next, HarnessStep, Environment

\* Every measured request of an erasing tier is made on an erased slot.
THEOREM SlotsStayClean == Spec => []CleanSlot
<1>1. Init => SlotInv
  BY DEF Init, SlotInv
<1>2. SlotInv => CleanSlot
  BY DEF SlotInv, CleanSlot
<1> QED
  BY <1>1, <1>2, InitType, NextType, NextSlot, PTL DEF Spec

\* No other llama-server answers on the port while a visit measures.
THEOREM EndpointIsOwn == Spec => []OwnEndpoint
<1>1. Init => PortInv
  BY DEF Init, PortInv, InVisit, Serving
<1>2. PortInv => OwnEndpoint
  BY DEF PortInv, OwnEndpoint, InVisit
<1> QED
  BY <1>1, <1>2, InitType, NextType, NextPort, PTL DEF Spec

-----------------------------------------------------------------------------
(* At most one accepted measurement of a probe                             *)

\* The visits the session has left behind, or is leaving, for good.
Passed(k) ==
  \/ k[1] \in 0..(round - 1)
  \/ k[1] = round /\ \E p \in 0..(place - 1) : k[2] = ExperimentAt(round, p)
  \/ pc \in {"error", "stopping"} /\ k[1] = round /\ k[2] = Experiment
  \/ pc \in {"finishing", "checksum"}

\* A row cut off before its newline is accepted by the next session although
\* this one never marked it completed; but then this one has left the visit.
DoneInv ==
  pc # "idle" =>
    \A i \in 1..Len(journal) :
       Accepts(journal[i]) => journal[i].key \in completed \/ Passed(journal[i].key)

PendingInv ==
  /\ pc \in {"idle", "loop", "starting"} => batch = {}
  /\ pc = "starting" => pending # {}
  /\ pc \in Serving \cup {"starting"} =>
       \A c \in pending : c \notin batch /\ KeyOf(c) \notin completed

BatchInv ==
  (pc \in {"file", "erase", "append"} \/ (pc \in {"warmup", "measure"} /\ ~tier.concurrent))
     => \A c \in batch : KeyOf(c) \notin completed

OnceInv == DoneInv /\ PendingInv /\ BatchInv /\ MeasuredOnce

LEMMA KeyInjective ==
  ASSUME NEW c, NEW d, KeyOf(c) = KeyOf(d)
  PROVE  c = d
BY DEF KeyOf

\* A cell that is measured but not completed has no accepted row yet.
LEMMA FreshRow ==
  ASSUME TypeInv, OnceInv, pc = "append"
  PROVE  /\ lane \in batch /\ LaneKey \notin completed /\ ~Passed(LaneKey)
         /\ \A i \in 1..Len(journal) : Accepts(journal[i]) => journal[i].key # LaneKey
<1>1. lane \in batch /\ LaneKey \notin completed
  BY DEF TypeInv, LaneOK, OnceInv, BatchInv, LaneKey
<1>2. tier \in Tiers /\ round \in Nat /\ place \in 0..(N - 1) /\ N \in Nat \ {0}
  BY TierFacts, SweepAssumption DEF TypeInv, TypeOK
<1>3. \A p \in 0..(place - 1) : p \in 0..(N - 1) /\ p # place
  BY <1>2
<1>4. \A p \in 0..(place - 1) : ExperimentAt(round, p) # ExperimentAt(round, place)
  BY <1>2, <1>3, ScheduleInjective
<1>5. LaneKey[1] = round /\ LaneKey[2] = ExperimentAt(round, place)
  BY DEF LaneKey, KeyOf, Experiment
<1>6. ~Passed(LaneKey)
  BY <1>2, <1>4, <1>5 DEF Passed
<1> QED
  BY <1>1, <1>6 DEF OnceInv, DoneInv

\* Leaving a visit keeps what was passed, and passes the visit itself.
LEMMA PassedGrows ==
  ASSUME TypeInv, NextVisit, pc \in {"loop", "stopping"}, pc' = "loop", tier' = tier,
         NEW k, Passed(k)
  PROVE  Passed(k)'
<1>1. tier \in Tiers /\ round \in Nat /\ place \in 0..(N - 1) /\ N \in Nat \ {0}
  BY TierFacts, SweepAssumption DEF TypeInv, TypeOK
<1>2. \A r, p : ExperimentAt(r, p)' = ExperimentAt(r, p)
  BY DEF ExperimentAt, Offset, N
<1>3. CASE place + 1 < N
  <2>1. place' = place + 1 /\ round' = round
    BY <1>3 DEF NextVisit
  <2>2. \A p \in 0..(place - 1) : p \in 0..(place' - 1)
    BY <1>1, <2>1
  <2>3. place \in 0..(place' - 1)
    BY <1>1, <2>1
  <2>4. \/ k[1] \in 0..(round - 1)
        \/ k[1] = round /\ \E p \in 0..(place' - 1) : k[2] = ExperimentAt(round, p)
    BY <2>2, <2>3 DEF Passed, Experiment
  <2> QED
    BY <1>2, <2>1, <2>4 DEF Passed, ExperimentAt, Offset, N
<1>4. CASE ~(place + 1 < N)
  BY <1>1, <1>4 DEF NextVisit, Passed
<1> QED
  BY <1>3, <1>4

\* What OnceInv says of the journal is untouched by steps that write no row.
LEMMA SameJournal ==
  ASSUME OnceInv, journal' = journal
  PROVE  MeasuredOnce'
BY DEF OnceInv, MeasuredOnce, Accepts, Degenerate, IsScored

\* Appending a row, whole or in part, keeps the rows accepted at most once,
\* if nothing accepted has the row's key.
LEMMA AppendOnce ==
  ASSUME TypeOK, MeasuredOnce, NEW row, AppendRow(row) \/ TearRow(row),
         Accepts(row) => \A i \in 1..Len(journal) :
                           Accepts(journal[i]) => journal[i].key # row.key
  PROVE  /\ MeasuredOnce'
         /\ \A i \in 1..Len(journal') :
              \/ i \in 1..Len(journal) /\ journal'[i] = journal[i]
              \/ journal'[i] = row
<1>1. journal \in Seq(RowSet) /\ (journal' = journal \/ journal' = Append(journal, row))
  BY DEF TypeOK, AppendRow, TearRow
<1>2. CASE journal' = journal
  BY <1>2 DEF MeasuredOnce, Accepts, Degenerate, IsScored
<1>3. CASE journal' = Append(journal, row)
  <2>1. /\ Len(journal) \in Nat /\ Len(journal') = Len(journal) + 1
        /\ journal'[Len(journal) + 1] = row
        /\ \A i \in 1..Len(journal) : journal'[i] = journal[i]
    BY <1>1, <1>3
  <2>2. \A i \in 1..Len(journal') :
          \/ i \in 1..Len(journal) /\ journal'[i] = journal[i]
          \/ i = Len(journal) + 1 /\ journal'[i] = row
    BY <2>1
  <2>3. ASSUME NEW i \in 1..Len(journal'), NEW j \in 1..Len(journal'),
               Accepts(journal'[i]), Accepts(journal'[j]), journal'[i].key = journal'[j].key
        PROVE  i = j
    BY <2>2, <2>3 DEF MeasuredOnce
  <2> QED
    BY <2>2, <2>3 DEF MeasuredOnce, Accepts, Degenerate, IsScored
<1> QED
  BY <1>1, <1>2, <1>3

LEMMA InitOnce == Init => OnceInv
BY DEF Init, OnceInv, DoneInv, PendingInv, BatchInv, MeasuredOnce, Serving

\* Steps that neither write the journal nor end the session, visit by visit.
LEMMA VisitOnce ==
  ASSUME TypeInv, OnceInv,
         \/ StartServer \/ ServerListens \/ StartReady \/ StartInterrupted
         \/ Warmup \/ VisitDone \/ PickCell \/ PickGroup \/ Measure
         \/ WriteResponse \/ Erase \/ StepFails
  PROVE  OnceInv'
<1> USE DEF disk, control
<1>0. /\ tier' = tier /\ journal' = journal /\ completed' = completed
      /\ round' = round /\ place' = place /\ pc # "idle"
  BY DEF StartServer, ServerListens, StartReady, StartInterrupted, Warmup, VisitDone,
     PickCell, PickGroup, Measure, WriteResponse, Erase, StepFails, Serving
<1>1. \A c : KeyOf(c)' = KeyOf(c)
  BY <1>0 DEF KeyOf, Experiment, ExperimentAt, Offset, N
<1>2. MeasuredOnce'
  BY <1>0, SameJournal
<1>3. (pc' \in {"error", "stopping"} \/ pc \notin {"error", "stopping"})
      /\ pc \notin {"finishing", "checksum"}
  BY DEF StartServer, ServerListens, StartReady, StartInterrupted, Warmup, VisitDone,
     PickCell, PickGroup, Measure, WriteResponse, Erase, StepFails
<1>4. DoneInv'
  BY <1>0, <1>3 DEF OnceInv, DoneInv, Passed, Experiment, ExperimentAt, Offset, N,
     Accepts, Degenerate, IsScored
<1>5. PendingInv' /\ BatchInv'
  <2> USE DEF OnceInv, PendingInv, BatchInv, Serving
  <2>1. CASE StartServer
    BY <2>1, <1>0, <1>1 DEF StartServer, Remaining
  <2>2. CASE StartReady
    <3>1. tier.startup => tier.cells = {StartupCell}
      BY TierFacts DEF TypeInv, TypeOK
    <3>2. pending \subseteq tier.cells
      BY DEF TypeInv, TypeOK
    <3>3. tier.startup => KeyOf(StartupCell) \notin completed
      BY <2>2, <3>1, <3>2 DEF StartReady
    <3> QED
      BY <2>2, <3>3, <1>0, <1>1 DEF StartReady
  <2>3. CASE ServerListens \/ StartInterrupted \/ VisitDone \/ StepFails
    BY <2>3, <1>0, <1>1 DEF ServerListens, StartInterrupted, VisitDone, StepFails
  <2>4. CASE Warmup
    BY <2>4, <1>0, <1>1 DEF Warmup
  <2>5. CASE PickCell
    BY <2>5, <1>0, <1>1 DEF PickCell
  <2>6. CASE PickGroup
    BY <2>6, <1>0, <1>1 DEF PickGroup
  <2>7. CASE Measure
    BY <2>7, <1>0, <1>1 DEF Measure, Unrecorded
  <2>8. CASE WriteResponse
    BY <2>8, <1>0, <1>1 DEF WriteResponse
  <2>9. CASE Erase
    BY <2>9, <1>0, <1>1 DEF Erase
  <2> QED
    BY <2>1, <2>2, <2>3, <2>4, <2>5, <2>6, <2>7, <2>8, <2>9
<1> QED
  BY <1>2, <1>4, <1>5 DEF OnceInv

\* Steps that end the session without writing the journal.
LEMMA EndOnce ==
  ASSUME OnceInv, NEW how, EndSession(how), MeasuredOnce'
  PROVE  OnceInv'
BY DEF OnceInv, DoneInv, PendingInv, BatchInv, EndSession, ForgetSession, Serving

\* Steps that write a row, or part of one.
LEMMA JournalOnce ==
  ASSUME TypeInv, OnceInv,
         Record \/ RecordFails \/ RecordError \/ RecordErrorFails \/ Crash
  PROVE  OnceInv'
<1> USE DEF disk, control
<1>0. tier' = tier /\ pc # "idle"
  BY DEF Record, RecordFails, RecordError, RecordErrorFails, Crash, EndSession
<1>1. ASSUME NEW row, AppendRow(row) \/ TearRow(row),
             \/ row = ErrorRow
             \/ pc = "append" /\ row \in LaneRows
      PROVE  /\ MeasuredOnce'
             /\ Accepts(row) => row.key = LaneKey
             /\ \A i \in 1..Len(journal') :
                  \/ i \in 1..Len(journal) /\ journal'[i] = journal[i]
                  \/ journal'[i] = row
  <2>1. Accepts(row) => pc = "append" /\ row.key = LaneKey
    <3>1. CASE row = ErrorRow
      BY <3>1 DEF ErrorRow, Accepts
    <3>2. CASE pc = "append" /\ row \in LaneRows
      BY <3>2 DEF LaneRows, ProbeRows
    <3> QED
      BY <1>1, <3>1, <3>2
  <2>2. Accepts(row) => \A i \in 1..Len(journal) :
                           Accepts(journal[i]) => journal[i].key # row.key
    BY <2>1, FreshRow
  <2> QED
    BY <1>1, <2>1, <2>2, AppendOnce DEF TypeInv, OnceInv
<1>2. CASE Record
  <2>1. PICK row \in LaneRows : AppendRow(row)
    BY <1>2 DEF Record
  <2>2. /\ MeasuredOnce' /\ pc = "append" /\ completed' = completed \cup {LaneKey}
        /\ round' = round /\ place' = place /\ pending' = pending
        /\ batch' = batch \ {lane} /\ pc' \in {"cells", "file"}
    BY <1>1, <1>2, <2>1 DEF Record
  <2>3. \A c : KeyOf(c)' = KeyOf(c)
    BY <1>0, <2>2 DEF KeyOf, Experiment, ExperimentAt, Offset, N
  <2>4. \A k : Passed(k) => Passed(k)'
    BY <1>0, <2>2 DEF Passed, Experiment, ExperimentAt, Offset, N
  <2>5. DoneInv'
    BY <1>0, <1>1, <2>1, <2>2, <2>4
       DEF OnceInv, DoneInv, Accepts, Degenerate, IsScored
  <2>6. lane \in batch /\ \A c : KeyOf(c) = LaneKey => c = lane
    BY <2>2, FreshRow, KeyInjective DEF LaneKey
  <2>7. PendingInv' /\ BatchInv'
    BY <2>2, <2>3, <2>6 DEF OnceInv, PendingInv, BatchInv, Serving
  <2> QED
    BY <2>2, <2>5, <2>7 DEF OnceInv
<1>3. CASE RecordFails \/ RecordError \/ RecordErrorFails
  <2>1. PICK row : /\ AppendRow(row) \/ TearRow(row)
                   /\ row = ErrorRow \/ (pc = "append" /\ row \in LaneRows)
    BY <1>3 DEF RecordFails, RecordError, RecordErrorFails
  <2>2. /\ MeasuredOnce' /\ completed' = completed /\ round' = round /\ place' = place
        /\ pc' \in {"error", "stopping"} /\ pc \in {"append", "error"}
    BY <1>1, <1>3, <2>1 DEF RecordFails, RecordError, RecordErrorFails
  <2>3. \A k : Passed(k) => Passed(k)'
    BY <1>0, <2>2 DEF Passed, Experiment, ExperimentAt, Offset, N
  <2>4. \A k : k = LaneKey => Passed(k)'
    BY <1>0, <2>2 DEF Passed, LaneKey, KeyOf, Experiment, ExperimentAt, Offset, N
  <2>5. DoneInv'
    BY <1>0, <1>1, <2>1, <2>2, <2>3, <2>4
       DEF OnceInv, DoneInv, Accepts, Degenerate, IsScored
  <2>6. PendingInv' /\ BatchInv'
    BY <2>2 DEF PendingInv, BatchInv, Serving
  <2> QED
    BY <2>2, <2>5, <2>6 DEF OnceInv
<1>4. CASE Crash
  <2>1. MeasuredOnce'
    <3>1. CASE pc \in {"append", "error"}
      <4>1. PICK row : /\ TearRow(row)
                       /\ row = ErrorRow \/ (pc = "append" /\ row \in LaneRows)
        BY <1>4, <3>1 DEF Crash
      <4> QED
        BY <1>1, <4>1
    <3>2. CASE pc \notin {"append", "error"}
      BY <1>4, <3>2, SameJournal DEF Crash
    <3> QED
      BY <3>1, <3>2
  <2> QED
    BY <1>4, <2>1, EndOnce DEF Crash
<1> QED
  BY <1>2, <1>3, <1>4

\* Steps outside the visits: sessions, the loop, signals, the packaging.
LEMMA LoopOnce ==
  ASSUME TypeInv, OnceInv,
         \/ PreflightRefuses \/ ResumeUnreadable \/ StartSession \/ LoopDone
         \/ SkipVisit \/ PortBusy \/ StopServer \/ StopLogFails \/ Package
         \/ WriteChecksum \/ FinishFails \/ FirstSignal \/ SecondSignal
         \/ LateSignal \/ LeakedServerMoves
  PROVE  OnceInv'
<1> USE DEF disk, control
<1>0. tier' = tier /\ journal' = journal
  BY DEF PreflightRefuses, ResumeUnreadable, StartSession, LoopDone, SkipVisit,
     PortBusy, StopServer, StopLogFails, Package, WriteChecksum, FinishFails,
     FirstSignal, SecondSignal, LateSignal, LeakedServerMoves, EndSession
<1>1. MeasuredOnce'
  BY <1>0, SameJournal
<1>2. \A c : round' = round /\ place' = place =>
                KeyOf(c)' = KeyOf(c) /\ Experiment' = Experiment
  BY <1>0 DEF KeyOf, Experiment, ExperimentAt, Offset, N
<1>3. ASSUME completed' = completed,
             pc # "idle", pc' # "idle", \A k : Passed(k) => Passed(k)'
      PROVE  DoneInv'
  BY <1>0, <1>3 DEF OnceInv, DoneInv, Accepts, Degenerate, IsScored
<1>4. CASE PortBusy \/ StopLogFails \/ WriteChecksum \/ FinishFails \/ LateSignal
  BY <1>1, <1>4, EndOnce DEF PortBusy, StopLogFails, WriteChecksum, FinishFails, LateSignal
<1>5. CASE PreflightRefuses \/ ResumeUnreadable
  BY <1>1, <1>5 DEF OnceInv, DoneInv, PendingInv, BatchInv, Serving,
     PreflightRefuses, ResumeUnreadable
<1>6. CASE StartSession
  <2>1. DoneInv'
    BY <1>6, <1>0 DEF StartSession, DoneInv, completedKeys, Rows, Accepts, Degenerate,
       IsScored
  <2> QED
    BY <1>1, <1>6, <2>1 DEF StartSession, OnceInv, PendingInv, BatchInv, Serving
<1>7. CASE LoopDone \/ Package \/ FirstSignal \/ LeakedServerMoves
  <2>1. pc # "idle" => DoneInv'
    <3>1. completed' = completed /\ round' = round /\ place' = place
      BY <1>7 DEF LoopDone, Package, FirstSignal, LeakedServerMoves
    <3>2. \A k : Passed(k) => Passed(k)'
      BY <1>7, <1>0, <1>2, <3>1 DEF Passed, ExperimentAt, Offset, N, LoopDone, Package,
         FirstSignal, LeakedServerMoves
    <3> QED
      BY <1>7, <1>3, <3>1, <3>2 DEF LoopDone, Package, FirstSignal, LeakedServerMoves
  <2>2. pc = "idle" => DoneInv'
    BY <1>7 DEF DoneInv, LoopDone, Package, FirstSignal, LeakedServerMoves
  <2>3. PendingInv' /\ BatchInv'
    BY <1>7, <1>0, <1>2 DEF OnceInv, PendingInv, BatchInv, Serving, LoopDone, Package,
       FirstSignal, LeakedServerMoves
  <2> QED
    BY <1>1, <2>1, <2>2, <2>3 DEF OnceInv
<1>8. CASE SkipVisit
  <2>1. DoneInv'
    BY <1>8, <1>0, <1>3, PassedGrows DEF SkipVisit
  <2> QED
    BY <1>1, <1>8, <2>1 DEF SkipVisit, OnceInv, PendingInv, BatchInv, Serving
<1>9. CASE StopServer
  <2>1. CASE after = "next"
    <3>1. DoneInv'
      BY <1>9, <2>1, <1>0, <1>3, PassedGrows DEF StopServer
    <3> QED
      BY <1>1, <1>9, <2>1, <3>1 DEF StopServer, OnceInv, PendingInv, BatchInv, Serving
  <2>2. CASE after # "next"
    BY <1>1, <1>9, <2>2, EndOnce DEF StopServer
  <2> QED
    BY <2>1, <2>2
<1>10. CASE SecondSignal
  <2>1. CASE pc \in {"loop", "stopping"}
    BY <1>1, <1>10, <2>1, EndOnce DEF SecondSignal
  <2>2. CASE pc \notin {"loop", "stopping"}
    <3>1. /\ completed' = completed /\ round' = round /\ place' = place
          /\ pc' = "stopping" /\ pc \notin {"idle", "finishing", "checksum"}
      BY <1>10, <2>2 DEF SecondSignal
    <3>2. \A k : Passed(k) => Passed(k)'
      BY <1>0, <1>2, <3>1 DEF Passed, ExperimentAt, Offset, N
    <3>3. DoneInv'
      BY <1>3, <3>1, <3>2
    <3> QED
      BY <1>1, <3>1, <3>3 DEF OnceInv, PendingInv, BatchInv, Serving
  <2> QED
    BY <2>1, <2>2
<1> QED
  BY <1>4, <1>5, <1>6, <1>7, <1>8, <1>9, <1>10

LEMMA NextOnce == TypeInv /\ OnceInv /\ [Next]_vars => OnceInv'
<1> SUFFICES ASSUME TypeInv, OnceInv, [Next]_vars PROVE OnceInv'
  OBVIOUS
<1>1. CASE Next
  BY <1>1, VisitOnce, JournalOnce, LoopOnce DEF Next, HarnessStep, Environment
<1>2. CASE UNCHANGED vars
  <2> USE <1>2 DEF vars, disk, control
  <2>1. \A c : KeyOf(c)' = KeyOf(c)
    BY DEF KeyOf, Experiment, ExperimentAt, Offset, N
  <2>2. \A k : Passed(k)' <=> Passed(k)
    BY DEF Passed, Experiment, ExperimentAt, Offset, N
  <2>3. MeasuredOnce' /\ DoneInv'
    BY <2>2, SameJournal DEF OnceInv, DoneInv, Accepts, Degenerate, IsScored
  <2> QED
    BY <2>1, <2>3 DEF OnceInv, PendingInv, BatchInv
<1> QED
  BY <1>1, <1>2

\* Over all sessions, crashes and signals no probe is accepted twice.
THEOREM AcceptedOnce == Spec => []MeasuredOnce
<1>1. OnceInv => MeasuredOnce
  BY DEF OnceInv
<1> QED
  BY <1>1, InitType, NextType, InitOnce, NextOnce, PTL DEF Spec

-----------------------------------------------------------------------------
(* The run directory implements the store of accepted measurements *)

\* Accepted probes have a response file, and the row about to be written
\* belongs to the response file this session wrote.
EvidenceInv ==
  ~tier.startup =>
     /\ \A k \in completedKeys : responses[k] # 0
     /\ pc = "append" \/ (pc = "erase" /\ ~tier.concurrent) => responses[LaneKey] = sessions

\* What a step that writes a row, or part of one, does to the accepted probes.
LEMMA KeysAfter ==
  ASSUME TypeOK, NEW row, AppendRow(row) \/ TearRow(row)
  PROVE  \/ completedKeys' = completedKeys
         \/ Accepts(row) /\ completedKeys' = completedKeys \cup {row.key}
<1>1. journal \in Seq(RowSet) /\ (journal' = journal \/ journal' = Append(journal, row))
  BY DEF TypeOK, AppendRow, TearRow
<1>2. CASE journal' = journal
  BY <1>2 DEF completedKeys, Rows, Accepts, Degenerate, IsScored
<1>3. CASE journal' = Append(journal, row)
  <2>1. /\ Len(journal) \in Nat /\ Len(journal') = Len(journal) + 1
        /\ journal'[Len(journal) + 1] = row
        /\ \A i \in 1..Len(journal) : journal'[i] = journal[i]
    BY <1>1, <1>3
  <2>2. \A r : r \in Rows' <=> r \in Rows \/ r = row
    BY <2>1 DEF Rows
  <2>3. completedKeys' = {r.key : r \in {q \in Rows' : Accepts(q)}}
    BY DEF completedKeys, Accepts, Degenerate, IsScored
  <2>4. \A k : k \in completedKeys' <=> k \in completedKeys \/ (Accepts(row) /\ k = row.key)
    BY <2>2, <2>3 DEF completedKeys
  <2> QED
    BY <2>4
<1> QED
  BY <1>1, <1>2, <1>3

\* A cell that is requested, or whose response is written, has no accepted row.
LEMMA FreshCell ==
  ASSUME TypeInv, OnceInv, NEW c \in batch,
         pc = "file" \/ (pc = "measure" /\ ~tier.concurrent)
  PROVE  KeyOf(c) \notin completedKeys
<1>1. tier \in Tiers /\ round \in Nat /\ place \in 0..(N - 1) /\ N \in Nat \ {0}
  BY TierFacts, SweepAssumption DEF TypeInv, TypeOK
<1>2. \A p \in 0..(place - 1) : p \in 0..(N - 1) /\ p # place
  BY <1>1
<1>3. \A p \in 0..(place - 1) : ExperimentAt(round, p) # ExperimentAt(round, place)
  BY <1>1, <1>2, ScheduleInjective
<1>4. KeyOf(c)[1] = round /\ KeyOf(c)[2] = ExperimentAt(round, place)
  BY DEF KeyOf, Experiment
<1>5. ~Passed(KeyOf(c))
  BY <1>1, <1>3, <1>4 DEF Passed
<1>6. KeyOf(c) \notin completed
  BY DEF OnceInv, BatchInv
<1> QED
  BY <1>5, <1>6 DEF OnceInv, DoneInv, completedKeys, Rows

LEMMA SameAccepted ==
  ASSUME tier' = tier, journal' = journal
  PROVE  /\ completedKeys' = completedKeys
         /\ responses' = responses => accepted' = accepted
BY DEF completedKeys, Rows, Accepts, Degenerate, IsScored, accepted

\* Steps that write neither a row nor a response change nothing in the store.
LEMMA QuietAccepted ==
  ASSUME TypeInv, EvidenceInv,
         \/ PreflightRefuses \/ ResumeUnreadable \/ StartSession \/ LoopDone
         \/ SkipVisit \/ PortBusy \/ StartServer \/ ServerListens \/ StartReady
         \/ StartInterrupted \/ Warmup \/ VisitDone \/ PickCell \/ PickGroup
         \/ Measure \/ Erase \/ StepFails \/ StopServer \/ StopLogFails \/ Package
         \/ WriteChecksum \/ FinishFails \/ FirstSignal \/ SecondSignal
         \/ LateSignal \/ LeakedServerMoves
  PROVE  EvidenceInv' /\ accepted' = accepted
<1> USE DEF disk, control
<1>1. tier' = tier /\ journal' = journal /\ responses' = responses
  BY DEF PreflightRefuses, ResumeUnreadable, StartSession, LoopDone, SkipVisit,
     PortBusy, StartServer, ServerListens, StartReady, StartInterrupted, Warmup,
     VisitDone, PickCell, PickGroup, Measure, Erase, StepFails, StopServer,
     StopLogFails, Package, WriteChecksum, FinishFails, FirstSignal, SecondSignal,
     LateSignal, LeakedServerMoves, EndSession
<1>2. completedKeys' = completedKeys /\ accepted' = accepted
  BY <1>1, SameAccepted
<1>3. ASSUME ~tier.startup, pc' = "append" \/ (pc' = "erase" /\ ~tier.concurrent)
      PROVE  /\ pc = "append" \/ (pc = "erase" /\ ~tier.concurrent)
             /\ lane' = lane /\ round' = round /\ place' = place /\ sessions' = sessions
  BY <1>3 DEF PreflightRefuses, ResumeUnreadable, StartSession, LoopDone, SkipVisit,
     PortBusy, StartServer, ServerListens, StartReady, StartInterrupted, Warmup,
     VisitDone, PickCell, PickGroup, Measure, Erase, StepFails, StopServer,
     StopLogFails, Package, WriteChecksum, FinishFails, FirstSignal, SecondSignal,
     LateSignal, LeakedServerMoves, EndSession
<1>4. round' = round /\ place' = place /\ lane' = lane => LaneKey' = LaneKey
  BY <1>1 DEF LaneKey, KeyOf, Experiment, ExperimentAt, Offset, N
<1> QED
  BY <1>1, <1>2, <1>3, <1>4 DEF EvidenceInv

\* A response is only ever written for a probe that is not accepted yet.
LEMMA ResponseAccepted ==
  ASSUME TypeInv, OnceInv, EvidenceInv, WriteResponse
  PROVE  EvidenceInv' /\ accepted' = accepted
<1>1. PICK c \in batch :
        lane' = c /\ responses' = [responses EXCEPT ![KeyOf(c)] = sessions]
  BY DEF WriteResponse
<1>2. tier' = tier /\ journal' = journal /\ round' = round /\ place' = place
      /\ sessions' = sessions /\ pc = "file"
  BY DEF WriteResponse
<1>3. completedKeys' = completedKeys /\ KeyOf(c) \notin completedKeys
  BY <1>2, SameAccepted, FreshCell
<1>4. KeyOf(c) \in Keys /\ responses \in [Keys -> 0..MaxSessions]
  BY <1>2, KeyType DEF TypeInv, TypeOK, InVisit, Serving
<1>5. LaneKey' = KeyOf(c)
  BY <1>1, <1>2 DEF LaneKey, KeyOf, Experiment, ExperimentAt, Offset, N
<1>6. responses'[KeyOf(c)] = sessions
      /\ \A k \in Keys : k # KeyOf(c) => responses'[k] = responses[k]
  BY <1>1, <1>4
<1>7. completedKeys \subseteq Keys
  BY CompletedType, TierKeysType DEF TypeInv
<1>8. accepted' = accepted
  BY <1>2, <1>3, <1>6 DEF accepted
<1> QED
  BY <1>2, <1>3, <1>5, <1>6, <1>7, <1>8 DEF EvidenceInv

\* Writing a row, or part of one, accepts at most the probe just measured.
LEMMA RowAccepted ==
  ASSUME TypeInv, OnceInv, EvidenceInv,
         Record \/ RecordFails \/ RecordError \/ RecordErrorFails \/ Crash
  PROVE  EvidenceInv' /\ (accepted' = accepted \/ \E k \in Keys : Store!Accept(k))
<1> USE DEF disk, control
<1>1. tier' = tier /\ responses' = responses /\ pc' \notin {"append", "erase"}
      /\ pc # "idle" /\ sessions \in Nat \ {0}
  BY DEF TypeInv, TypeOK, SessionOK,
     Record, RecordFails, RecordError, RecordErrorFails, Crash, EndSession
<1>2. ASSUME journal' = journal PROVE EvidenceInv' /\ accepted' = accepted
  BY <1>1, <1>2, SameAccepted DEF EvidenceInv
<1>3. ASSUME NEW row, AppendRow(row) \/ TearRow(row),
             \/ row = ErrorRow
             \/ pc = "append" /\ row \in LaneRows
      PROVE  EvidenceInv' /\ (accepted' = accepted \/ \E k \in Keys : Store!Accept(k))
  <2>1. Accepts(row) => pc = "append" /\ row.key = LaneKey
    <3>1. CASE row = ErrorRow
      BY <3>1 DEF ErrorRow, Accepts
    <3>2. CASE pc = "append" /\ row \in LaneRows
      BY <3>2 DEF LaneRows, ProbeRows
    <3> QED
      BY <1>3, <3>1, <3>2
  <2>2. CASE completedKeys' = completedKeys
    BY <1>1, <2>2 DEF EvidenceInv, accepted
  <2>3. CASE Accepts(row) /\ completedKeys' = completedKeys \cup {row.key}
    <3>1. pc = "append" /\ row.key = LaneKey /\ LaneKey \notin completedKeys
      BY <2>1, <2>3, FreshRow DEF completedKeys, Rows
    <3>2. LaneKey \in Keys
      BY <3>1, KeyType, FreshRow DEF LaneKey, TypeInv, TypeOK, InVisit, Serving
    <3>3. EvidenceInv'
      BY <1>1, <2>3, <3>1 DEF EvidenceInv
    <3> DEFINE v == IF tier.startup THEN 1 ELSE responses[LaneKey]
    <3>4. v \in Nat \ {0}
      BY <1>1, <3>1 DEF EvidenceInv
    <3>5. accepted[LaneKey] = 0 /\ accepted'[LaneKey] = v
      BY <1>1, <2>3, <3>1, <3>2 DEF accepted
    <3>6. \A k \in Keys : k # LaneKey => accepted'[k] = accepted[k]
      BY <1>1, <2>3, <3>1 DEF accepted
    <3>7. accepted' = [accepted EXCEPT ![LaneKey] = accepted'[LaneKey]]
      BY <3>2, <3>6 DEF accepted
    <3>8. Store!Accept(LaneKey)
      BY <3>4, <3>5, <3>7 DEF Store!Accept
    <3> QED
      BY <3>2, <3>3, <3>8
  <2> QED
    BY <1>3, <2>2, <2>3, KeysAfter DEF TypeInv
<1> DEFINE RowWritten(row) ==
      /\ AppendRow(row) \/ TearRow(row)
      /\ row = ErrorRow \/ (pc = "append" /\ row \in LaneRows)
<1>4. journal' = journal \/ \E row : RowWritten(row)
  BY DEF Record, RecordFails, RecordError, RecordErrorFails, Crash
<1>5. CASE journal' = journal
  BY <1>2, <1>5
<1>6. CASE \E row : RowWritten(row)
  <2>1. PICK row : RowWritten(row)
    BY <1>6
  <2> QED
    BY <1>3, <2>1
<1> HIDE DEF RowWritten
<1> QED
  BY <1>4, <1>5, <1>6, Zenon

LEMMA InitEvidence == Init => EvidenceInv /\ Store!StoreInit
<1> SUFFICES ASSUME Init PROVE EvidenceInv /\ Store!StoreInit
  OBVIOUS
<1>1. completedKeys = {}
  BY DEF Init, completedKeys, Rows
<1> QED
  BY <1>1 DEF Init, EvidenceInv, Store!StoreInit, accepted

LEMMA NextEvidence ==
  TypeInv /\ OnceInv /\ EvidenceInv /\ [Next]_vars
    => EvidenceInv' /\ [Store!StoreNext]_accepted
<1> SUFFICES ASSUME TypeInv, OnceInv, EvidenceInv, [Next]_vars
             PROVE  EvidenceInv' /\ [Store!StoreNext]_accepted
  OBVIOUS
<1>1. CASE Next
  BY <1>1, QuietAccepted, ResponseAccepted, RowAccepted
     DEF Next, HarnessStep, Environment, Store!StoreNext
<1>2. CASE UNCHANGED vars
  BY <1>2, SameAccepted DEF vars, disk, control, EvidenceInv, LaneKey, KeyOf,
     Experiment, ExperimentAt, Offset, N
<1> QED
  BY <1>1, <1>2

\* A run directory is a store of measurements in which every probe is accepted
\* at most once and the evidence of an accepted probe never changes.
THEOREM ImplementsStore == Spec => EvidenceKept
BY InitType, NextType, InitOnce, NextOnce, InitEvidence, NextEvidence, PTL
   DEF Spec, EvidenceKept, Store!StoreSpec

-----------------------------------------------------------------------------
(* What a session skips, and what a successful one has accounted for *)

\* "Completed probes are skipped", also by a session that resumes the journal of
\* one that was killed in the middle of a row.
THEOREM CompletedSkipped == Spec => []NoRemeasure
<1>1. TypeInv /\ OnceInv => NoRemeasure
  BY FreshCell DEF NoRemeasure
<1> QED
  BY <1>1, InitType, NextType, InitOnce, NextOnce, PTL DEF Spec

\* The probes of the visits the loop has been through.
Behind(k) ==
  \/ k[1] \in 0..(round - 1)
  \/ k[1] = round /\ \E p \in 0..(place - 1) : k[2] = ExperimentAt(round, p)
  \/ k[1] = round /\ k[2] = Experiment /\ pc = "stopping" /\ after = "next"
  \/ pc \in {"finishing", "checksum"}

\* What a session knows of itself besides: where it starts, that it runs, and what
\* it has packed.
OutcomeInv ==
  /\ pc = "idle" => round = 0 /\ place = 0
  /\ pc # "idle" => exit = "running"
  /\ pc = "cells" => batch = {}
  /\ pc = "checksum" => archive = <<Len(journal)>>

\* Without a signal the loop leaves no visit before each of its probes has a row.
AccountInv ==
  pc # "idle" /\ signals = 0 =>
    /\ \A k \in TierKeys : k \in completed \/ Behind(k) => Accounted(k)
    /\ pc \in Serving \cup {"starting"} =>
         \A c \in tier.cells : KeyOf(c) \in completed \/ c \in pending \/ c \in batch

CompleteInv == OutcomeInv /\ AccountInv /\ SuccessIsComplete

\* Every experiment has its place in the rotated list of a round.
LEMMA ScheduleComplete ==
  ASSUME tier \in Tiers, NEW r \in Nat, NEW i \in 1..N
  PROVE  \E p \in 0..(N - 1) : ExperimentAt(r, p) = tier.experiments[i]
<1>1. N \in Nat \ {0}
  BY TierFacts
<1>2. Offset(r) \in 0..(N - 1)
  BY <1>1 DEF Offset
<1> DEFINE p == IF i - 1 < Offset(r) THEN i - 1 - Offset(r) + N ELSE i - 1 - Offset(r)
<1>3. p \in 0..(N - 1)
  BY <1>1, <1>2
<1>4. (IF p + Offset(r) < N THEN p + Offset(r) ELSE p + Offset(r) - N) + 1 = i
  BY <1>1, <1>2
<1> HIDE DEF p
<1> QED
  BY <1>3, <1>4 DEF ExperimentAt

\* Rows stay, and a row appended in full is there.
LEMMA RowsAfter ==
  ASSUME TypeOK, NEW row, AppendRow(row) \/ TearRow(row)
  PROVE  Rows \subseteq Rows' /\ (AppendRow(row) => row \in Rows')
<1>1. journal \in Seq(RowSet) /\ (journal' = journal \/ journal' = Append(journal, row))
      /\ (AppendRow(row) => journal' = Append(journal, row))
  BY DEF TypeOK, AppendRow, TearRow
<1>2. CASE journal' = journal /\ ~AppendRow(row)
  BY <1>2 DEF Rows
<1>3. CASE journal' = Append(journal, row)
  <2>1. /\ Len(journal) \in Nat /\ Len(journal') = Len(journal) + 1
        /\ journal'[Len(journal) + 1] = row
        /\ \A i \in 1..Len(journal) : journal'[i] = journal[i]
    BY <1>1, <1>3
  <2> QED
    BY <2>1 DEF Rows
<1> QED
  BY <1>1, <1>2, <1>3

\* Within a session an accounted probe stays accounted.
LEMMA AccountedKept ==
  ASSUME sessions' = sessions, Rows \subseteq Rows', NEW k, Accounted(k)
  PROVE  Accounted(k)'
<1>1. k \in completedKeys => k \in completedKeys'
  BY DEF completedKeys, Accepts, Degenerate, IsScored
<1> QED
  BY <1>1 DEF Accounted

\* A step that leaves the journal alone changes no row.
LEMMA SameRows ==
  ASSUME journal' = journal
  PROVE  Rows' = Rows
BY DEF Rows

\* Going on to the next visit leaves behind the present one and no other.
LEMMA BehindNext ==
  ASSUME TypeInv, NextVisit, tier' = tier, pc' = "loop", NEW k \in TierKeys, Behind(k)'
  PROVE  Behind(k) \/ (k[1] = round /\ k[2] = Experiment)
<1>1. tier \in Tiers /\ round \in Nat /\ place \in 0..(N - 1) /\ N \in Nat \ {0}
  BY TierFacts, SweepAssumption DEF TypeInv, TypeOK
<1>2. \A r, p : ExperimentAt(r, p)' = ExperimentAt(r, p)
  BY DEF ExperimentAt, Offset, N
<1>3. CASE place + 1 < N
  <2>1. place' = place + 1 /\ round' = round
    BY <1>3 DEF NextVisit
  <2>2. \/ k[1] \in 0..(round - 1)
        \/ k[1] = round /\ \E p \in 0..place : k[2] = ExperimentAt(round, p)
    BY <1>1, <1>2, <2>1 DEF Behind, ExperimentAt, Offset, N
  <2>3. \A p \in 0..place : p \in 0..(place - 1) \/ p = place
    BY <1>1
  <2> QED
    BY <2>2, <2>3 DEF Behind, Experiment
<1>4. CASE ~(place + 1 < N)
  <2>1. place' = 0 /\ round' = round + 1 /\ place = N - 1
    BY <1>1, <1>4 DEF NextVisit
  <2>2. k[1] \in 0..round
    BY <1>1, <2>1 DEF Behind
  <2>3. PICK i \in 1..N : k[2] = tier.experiments[i]
    BY DEF TierKeys
  <2>4. PICK p \in 0..(N - 1) : ExperimentAt(round, p) = k[2]
    BY <1>1, <2>3, ScheduleComplete
  <2>5. p \in 0..(place - 1) \/ p = place
    BY <1>1, <2>1
  <2>6. k[1] \in 0..(round - 1) \/ k[1] = round
    BY <1>1, <2>2
  <2> QED
    BY <2>4, <2>5, <2>6 DEF Behind, Experiment
<1> QED
  BY <1>3, <1>4

\* The probes of a visit are those of its cells.
LEMMA VisitKeys ==
  ASSUME TypeInv, NEW k \in TierKeys, k[1] = round, k[2] = Experiment
  PROVE  \E c \in tier.cells : k = KeyOf(c)
BY DEF TierKeys, KeyOf

\* A new run directory promises nothing yet.
LEMMA InitComplete == Init => CompleteInv
BY DEF Init, CompleteInv, OutcomeInv, AccountInv, SuccessIsComplete

\* Steps that end a session.
LEMMA EndComplete ==
  ASSUME NEW how \in {"error", "interrupted", "crashed"}, EndSession(how)
  PROVE  CompleteInv'
BY DEF EndSession, ForgetSession, CompleteInv, OutcomeInv, AccountInv, SuccessIsComplete

\* Steps inside a visit that write no row.
LEMMA VisitComplete ==
  ASSUME TypeInv, OnceInv, CompleteInv,
         \/ StartServer \/ ServerListens \/ StartReady \/ StartInterrupted
         \/ Warmup \/ VisitDone \/ PickCell \/ PickGroup \/ Measure
         \/ WriteResponse \/ Erase \/ StepFails
  PROVE  CompleteInv'
<1> USE DEF disk, control
<1>0. /\ tier' = tier /\ journal' = journal /\ completed' = completed
      /\ round' = round /\ place' = place /\ sessions' = sessions /\ exit' = exit
      /\ signals' = signals /\ pc # "idle" /\ pc' # "idle" /\ pc' # "checksum"
      /\ exit = "running" /\ pc' \notin {"finishing", "checksum"} /\ pc # "stopping"
  BY DEF CompleteInv, OutcomeInv, StartServer, ServerListens, StartReady, StartInterrupted,
     Warmup, VisitDone, PickCell, PickGroup, Measure, WriteResponse, Erase, StepFails, Serving
<1>1. \A c : KeyOf(c)' = KeyOf(c)
  BY <1>0 DEF KeyOf, Experiment, ExperimentAt, Offset, N
<1>2. TierKeys' = TierKeys /\ Experiment' = Experiment
      /\ \A r, p : ExperimentAt(r, p)' = ExperimentAt(r, p)
  BY <1>0 DEF TierKeys, N, Experiment, ExperimentAt, Offset
<1>3. \A k : Accounted(k) => Accounted(k)'
  BY <1>0, SameRows, AccountedKept
<1>4. pc' = "cells" => batch' = {}
  BY DEF CompleteInv, OutcomeInv, OnceInv, PendingInv, StartServer, ServerListens, StartReady,
     StartInterrupted, Warmup, VisitDone, PickCell, PickGroup, Measure, WriteResponse, Erase,
     StepFails
<1>5. OutcomeInv' /\ SuccessIsComplete'
  BY <1>0, <1>4 DEF OutcomeInv, SuccessIsComplete
<1> SUFFICES ASSUME signals = 0 PROVE AccountInv'
  BY <1>0, <1>5 DEF CompleteInv, AccountInv
<1>6. ASSUME pc' \in Serving \cup {"starting"}
      PROVE  \A c \in tier.cells : KeyOf(c) \in completed \/ c \in pending' \/ c \in batch'
  <2> USE DEF CompleteInv, AccountInv, Serving
  <2>1. CASE StartServer
    BY <2>1 DEF StartServer, Remaining
  <2>2. CASE StartReady
    BY <2>2, <1>0, TierFacts DEF StartReady, TypeInv, TypeOK
  <2>3. CASE ServerListens \/ StartInterrupted \/ VisitDone \/ StepFails
    BY <2>3, <1>0, <1>6 DEF ServerListens, StartInterrupted, VisitDone, StepFails
  <2>4. CASE Warmup \/ WriteResponse \/ Erase
    BY <2>4, <1>0 DEF Warmup, WriteResponse, Erase
  <2>5. CASE PickCell
    BY <2>5, <1>0 DEF PickCell, OutcomeInv
  <2>6. CASE PickGroup
    BY <2>6, <1>0 DEF PickGroup, OutcomeInv
  <2>7. CASE Measure
    BY <2>7, <1>0 DEF Measure, Unrecorded
  <2> QED
    BY <2>1, <2>2, <2>3, <2>4, <2>5, <2>6, <2>7
<1>7. ASSUME NEW k \in TierKeys, k \in completed \/ Behind(k)' PROVE Accounted(k)
  <2>1. CASE k \in completed \/ Behind(k)
    BY <2>1, <1>0 DEF CompleteInv, AccountInv
  <2>2. CASE ~Behind(k) /\ k \notin completed
    <3>1. k[1] = round /\ k[2] = Experiment /\ pc' = "stopping" /\ after' = "next"
      BY <1>0, <1>2, <1>7, <2>2 DEF Behind
    <3>2. PICK c \in tier.cells : k = KeyOf(c)
      BY <3>1, VisitKeys
    <3>3. VisitDone
      BY <3>1, <1>0 DEF StartServer, ServerListens, StartReady, StartInterrupted, Warmup,
         VisitDone, PickCell, PickGroup, Measure, WriteResponse, Erase, StepFails
    <3>4. pc = "cells" /\ pending = {} /\ batch = {}
      BY <3>3 DEF VisitDone, Stopped, CompleteInv, OutcomeInv
    <3> QED
      BY <2>2, <3>2, <3>4, <1>0 DEF CompleteInv, AccountInv, Serving
  <2> QED
    BY <2>1, <2>2
<1> QED
  BY <1>0, <1>1, <1>2, <1>3, <1>6, <1>7 DEF AccountInv

\* Steps that write a row, or part of one.
LEMMA RowComplete ==
  ASSUME TypeInv, OnceInv, CompleteInv,
         Record \/ RecordFails \/ RecordError \/ RecordErrorFails
  PROVE  CompleteInv'
<1> USE DEF disk, control
<1>0. /\ tier' = tier /\ sessions' = sessions /\ exit' = exit /\ signals' = signals
      /\ round' = round /\ place' = place /\ pc \in {"append", "error"}
      /\ pc' \in {"cells", "file", "error", "stopping"}
      /\ exit = "running"
  BY DEF CompleteInv, OutcomeInv, Record, RecordFails, RecordError, RecordErrorFails
<1>1. \A c : KeyOf(c)' = KeyOf(c)
  BY <1>0 DEF KeyOf, Experiment, ExperimentAt, Offset, N
<1>2. TierKeys' = TierKeys /\ Experiment' = Experiment
      /\ \A r, p : ExperimentAt(r, p)' = ExperimentAt(r, p)
  BY <1>0 DEF TierKeys, N, Experiment, ExperimentAt, Offset
<1>3. PICK row : AppendRow(row) \/ TearRow(row)
  BY DEF Record, RecordFails, RecordError, RecordErrorFails
<1>4. \A k : Accounted(k) => Accounted(k)'
  BY <1>0, <1>3, RowsAfter, AccountedKept DEF TypeInv
<1>5. OutcomeInv' /\ SuccessIsComplete'
  BY <1>0 DEF OutcomeInv, SuccessIsComplete, Record, RecordFails, RecordError, RecordErrorFails
<1> SUFFICES ASSUME signals = 0 PROVE AccountInv'
  BY <1>0, <1>5 DEF CompleteInv, AccountInv
<1>6. \A k \in TierKeys : k \in completed \/ Behind(k) => Accounted(k)
  BY <1>0 DEF CompleteInv, AccountInv
<1>7. CASE Record
  <2>1. PICK r \in LaneRows : AppendRow(r)
    BY <1>7 DEF Record
  <2>2. r \in Rows' /\ r.status = "ok" /\ r.key = LaneKey /\ r.session = sessions
    BY <2>1, RowsAfter DEF TypeInv, LaneRows, ProbeRows
  <2>3. \A k : k = LaneKey => Accounted(k)'
    BY <1>0, <2>2 DEF Accounted
  <2>4. /\ pc = "append" /\ completed' = completed \cup {LaneKey} /\ pending' = pending
        /\ batch' = batch \ {lane} /\ pc' \in {"cells", "file"}
    BY <1>7 DEF Record
  <2>5. \A k \in TierKeys : Behind(k)' => Behind(k)
    BY <1>0, <1>2, <2>4 DEF Behind
  <2>6. \A c \in tier.cells : KeyOf(c) \in completed' \/ c \in pending' \/ c \in batch'
    BY <2>4 DEF CompleteInv, AccountInv, Serving, LaneKey
  <2>7. ASSUME NEW k \in TierKeys, k \in completed' \/ Behind(k)' PROVE Accounted(k)'
    BY <1>4, <1>6, <2>3, <2>4, <2>5, <2>7
  <2> QED
    BY <1>0, <1>1, <1>2, <2>6, <2>7 DEF AccountInv
<1>8. CASE RecordFails \/ RecordErrorFails
  <2>1. /\ completed' = completed /\ pc' \in {"error", "stopping"}
        /\ pc' = "stopping" => after' = "abort"
    BY <1>8 DEF RecordFails, RecordErrorFails
  <2>2. \A k \in TierKeys : Behind(k)' => Behind(k)
    BY <1>0, <1>2, <2>1 DEF Behind
  <2> QED
    BY <1>0, <1>2, <1>4, <1>6, <2>1, <2>2 DEF AccountInv, Serving
<1>9. CASE RecordError
  <2>1. AppendRow(ErrorRow) /\ completed' = completed /\ pc' = "stopping"
    BY <1>9 DEF RecordError
  <2>2. ErrorRow \in Rows'
    BY <2>1, RowsAfter DEF TypeInv
  <2>3. \A k : k[1] = round /\ k[2] = Experiment => Accounted(k)'
    BY <1>0, <2>2 DEF Accounted, ErrorRow
  <2>4. \A k \in TierKeys : Behind(k)' => Behind(k) \/ (k[1] = round /\ k[2] = Experiment)
    BY <1>0, <1>2, <2>1 DEF Behind
  <2> QED
    BY <1>0, <1>2, <1>4, <1>6, <2>1, <2>3, <2>4 DEF AccountInv, Serving
<1> QED
  BY <1>7, <1>8, <1>9

\* The loop, the sessions and the packaging.
LEMMA LoopComplete ==
  ASSUME TypeInv, OnceInv, CompleteInv,
         \/ StartSession \/ LoopDone \/ SkipVisit \/ StopServer \/ Package
         \/ WriteChecksum \/ PreflightRefuses \/ ResumeUnreadable
  PROVE  CompleteInv'
<1> USE DEF disk, control
<1>0. tier' = tier /\ journal' = journal /\ TierKeys' = TierKeys
  BY DEF StartSession, LoopDone, SkipVisit, StopServer, Package, WriteChecksum,
     PreflightRefuses, ResumeUnreadable, EndSession, TierKeys, N
<1>1. \A k : sessions' = sessions /\ Accounted(k) => Accounted(k)'
  BY <1>0, SameRows, AccountedKept
<1>2. CASE PreflightRefuses \/ ResumeUnreadable
  BY <1>2 DEF PreflightRefuses, ResumeUnreadable, CompleteInv, OutcomeInv, AccountInv,
     SuccessIsComplete
<1>3. CASE StartSession
  <2>1. /\ completed' = completedKeys /\ round' = 0 /\ place' = 0 /\ pc' = "loop"
        /\ exit' = "running"
    BY <1>3 DEF StartSession, CompleteInv, OutcomeInv
  <2>2. \A k \in TierKeys : ~Behind(k)'
    BY <2>1 DEF Behind
  <2>3. \A k \in completedKeys : Accounted(k)'
    BY <1>0, SameAccepted DEF Accounted
  <2> QED
    BY <1>0, <2>1, <2>2, <2>3 DEF CompleteInv, OutcomeInv, AccountInv, SuccessIsComplete, Serving
<1>4. ASSUME NextVisit, pc \in {"loop", "stopping"}, pc' = "loop", signals' = signals,
             completed' = completed, sessions' = sessions, exit' = exit,
             signals = 0 => \A k \in TierKeys : k[1] = round /\ k[2] = Experiment => Accounted(k)
      PROVE  CompleteInv'
  <2>1. exit = "running"
    BY <1>4 DEF CompleteInv, OutcomeInv
  <2>2. ASSUME signals = 0, NEW k \in TierKeys, k \in completed \/ Behind(k)'
        PROVE  Accounted(k)'
    <3>1. k \in completed \/ Behind(k) \/ (k[1] = round /\ k[2] = Experiment)
      BY <1>0, <1>4, <2>2, BehindNext
    <3>2. Accounted(k)
      BY <1>4, <2>2, <3>1 DEF CompleteInv, AccountInv
    <3> QED
      BY <1>1, <1>4, <3>2
  <2> QED
    BY <1>0, <1>4, <2>1, <2>2 DEF CompleteInv, OutcomeInv, AccountInv, SuccessIsComplete, Serving
<1>5. CASE SkipVisit
  <2>1. ASSUME signals = 0, NEW k \in TierKeys, k[1] = round, k[2] = Experiment
        PROVE  Accounted(k)
    <3>1. PICK c \in tier.cells : k = KeyOf(c)
      BY <2>1, VisitKeys
    <3>2. k \in completed
      BY <1>5, <3>1 DEF SkipVisit, Remaining
    <3> QED
      BY <1>5, <2>1, <3>2 DEF SkipVisit, CompleteInv, AccountInv
  <2> QED
    BY <1>5, <1>4, <2>1 DEF SkipVisit
<1>6. CASE StopServer
  <2>1. CASE after = "next"
    <3>1. ASSUME signals = 0, NEW k \in TierKeys, k[1] = round, k[2] = Experiment
          PROVE  Accounted(k)
      BY <1>6, <2>1, <3>1 DEF StopServer, CompleteInv, AccountInv, Behind
    <3> QED
      BY <1>6, <2>1, <1>4, <3>1 DEF StopServer
  <2>2. CASE after # "next"
    BY <1>6, <2>2, EndComplete DEF StopServer
  <2> QED
    BY <2>1, <2>2
<1>7. CASE LoopDone
  <2>1. /\ pc = "loop" /\ pc' = "finishing" /\ sessions' = sessions /\ exit' = exit
        /\ signals' = signals /\ round' = round /\ place' = place /\ completed' = completed
    BY <1>7 DEF LoopDone
  <2>2. ASSUME signals = 0, NEW k \in TierKeys PROVE Accounted(k)'
    <3>1. ~InLoop /\ round \in Nat /\ tier.rounds \in Nat
      BY <1>7, <2>2, TierFacts, SweepAssumption DEF LoopDone, Stopped, TypeInv, TypeOK
    <3>2. k[1] \in 0..(tier.rounds - 1)
      BY DEF TierKeys
    <3>3. Behind(k)
      BY <3>1, <3>2 DEF InLoop, Behind
    <3> QED
      BY <1>1, <2>1, <2>2, <3>3 DEF CompleteInv, AccountInv
  <2> QED
    BY <1>0, <2>1, <2>2 DEF CompleteInv, OutcomeInv, AccountInv, SuccessIsComplete, Serving
<1>8. CASE Package
  <2>1. /\ pc = "finishing" /\ pc' = "checksum" /\ sessions' = sessions /\ exit' = exit
        /\ signals' = signals /\ archive' = <<Len(journal)>> /\ completed' = completed
    BY <1>8 DEF Package
  <2>2. ASSUME signals = 0, NEW k \in TierKeys PROVE Accounted(k)'
    BY <1>1, <2>1, <2>2 DEF CompleteInv, AccountInv, Behind
  <2> QED
    BY <1>0, <2>1, <2>2 DEF CompleteInv, OutcomeInv, AccountInv, SuccessIsComplete, Serving
<1>9. CASE WriteChecksum
  <2>1. /\ pc = "checksum" /\ pc' = "idle" /\ sessions' = sessions /\ exit' = "ok"
        /\ signals' = signals /\ archive' = archive /\ checksum' = archive
        /\ round' = 0 /\ place' = 0
    BY <1>9 DEF WriteChecksum, EndSession, ForgetSession
  <2>2. archive = <<Len(journal)>>
    BY <2>1 DEF CompleteInv, OutcomeInv
  <2>3. ASSUME signals = 0, NEW k \in TierKeys PROVE Accounted(k)'
    BY <1>1, <2>1, <2>3 DEF CompleteInv, AccountInv, Behind
  <2> QED
    BY <1>0, <2>1, <2>2, <2>3 DEF CompleteInv, OutcomeInv, AccountInv, SuccessIsComplete
<1> QED
  BY <1>2, <1>3, <1>5, <1>6, <1>7, <1>8, <1>9

\* Failures outside the visits, signals, crashes and what a lost server does.
LEMMA RestComplete ==
  ASSUME TypeInv, OnceInv, CompleteInv,
         \/ PortBusy \/ StopLogFails \/ FinishFails \/ FirstSignal \/ SecondSignal
         \/ LateSignal \/ Crash \/ LeakedServerMoves \/ UNCHANGED vars
  PROVE  CompleteInv'
<1>1. CASE PortBusy \/ StopLogFails \/ FinishFails \/ LateSignal \/ Crash
  BY <1>1, EndComplete DEF PortBusy, StopLogFails, FinishFails, LateSignal, Crash
<1>2. CASE FirstSignal
  BY <1>2 DEF FirstSignal, disk, control, CompleteInv, OutcomeInv, AccountInv,
     SuccessIsComplete
<1>3. CASE SecondSignal
  <2>1. CASE pc \in {"loop", "stopping"}
    BY <1>3, <2>1, EndComplete DEF SecondSignal
  <2>2. CASE pc \notin {"loop", "stopping"}
    <3>1. signals' # 0
      BY <1>3 DEF SecondSignal, Stopped, TypeInv, TypeOK
    <3> QED
      BY <1>3, <2>2, <3>1 DEF SecondSignal, disk, control, CompleteInv, OutcomeInv,
         AccountInv, SuccessIsComplete
  <2> QED
    BY <2>1, <2>2
<1>4. CASE LeakedServerMoves \/ UNCHANGED vars
  <2>1. /\ tier' = tier /\ UNCHANGED disk /\ UNCHANGED control /\ sessions' = sessions
        /\ exit' = exit /\ pc' = pc /\ after' = after /\ signals' = signals
    BY <1>4 DEF LeakedServerMoves, vars
  <2> USE DEF disk, control
  <2>2. TierKeys' = TierKeys /\ \A k : Accounted(k)' <=> Accounted(k)
    BY <2>1 DEF TierKeys, N, Accounted, completedKeys, Rows, Accepts, Degenerate, IsScored
  <2>3. \A k : Behind(k)' <=> Behind(k)
    BY <2>1 DEF Behind, Experiment, ExperimentAt, Offset, N
  <2>4. \A c : KeyOf(c)' = KeyOf(c)
    BY <2>1 DEF KeyOf, Experiment, ExperimentAt, Offset, N
  <2> QED
    BY <2>1, <2>2, <2>3, <2>4 DEF CompleteInv, OutcomeInv, AccountInv, SuccessIsComplete
<1> QED
  BY <1>1, <1>2, <1>3, <1>4

\* Every step keeps the account complete.
LEMMA NextComplete == TypeInv /\ OnceInv /\ CompleteInv /\ [Next]_vars => CompleteInv'
BY VisitComplete, RowComplete, LoopComplete, RestComplete DEF Next, HarnessStep, Environment

\* A session that ends with status 0 and saw no signal has a row of every probe of
\* the sweep, or an error row of its visit, and has packed all of them.
THEOREM SuccessMeansComplete == Spec => []SuccessIsComplete
<1>1. CompleteInv => SuccessIsComplete
  BY DEF CompleteInv
<1> QED
  BY <1>1, InitType, NextType, InitOnce, NextOnce, InitComplete, NextComplete, PTL DEF Spec
=============================================================================
