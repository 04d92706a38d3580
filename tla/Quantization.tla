---------------------------- MODULE Quantization ----------------------------
(***************************************************************************)
(* The two ways to make a quantized model.  qwen_quant.py converts a       *)
(* source, collects an importance matrix and quantizes, one command at a   *)
(* time, and looks whether its output is there before it starts a tool.    *)
(* qwen_strix_quant.py makes a directory of its own, quantizes into it and *)
(* compares the output with the headers of the source it read at first.    *)
(* Commands are killed, with their tool or without it, and several may run *)
(* at once.                                                                *)
(***************************************************************************)
EXTENDS Integers, FiniteSets

CONSTANTS
  Jobs,       \* the invocations
  Layouts     \* what the headers of a source may say

Kinds == {"source", "imatrix", "h1", "strix"}

VARIABLES
  file,       \* per output: [state, by, layout]
  strix_dir,  \* the output directory of qwen_strix_quant.py exists
  phase,      \* per job: "idle", "checked", "made", "tool", "verify", "verify-only";
              \*          "left" and "orphan", a tool without its command, before and
              \*          after it opens its output; and at last "done", "passed",
              \*          "refused", "failed", "killed"
  command,    \* per job, the output it is to make
  before,     \* per job, the layout of the source it checked
  overlapped  \* jobs that were running when another was (history)

quant_vars == <<file, strix_dir, phase, command, before, overlapped>>

Absent == [state |-> "absent", by |-> {}, layout |-> 0]
Finished(k) == file[k].state = "done"
Running(j) == phase[j] \in {"checked", "made", "tool", "verify", "verify-only", "left", "orphan"}

\* The jobs that are in each other's way once j goes on.
Beside(j) == {i \in Jobs \ {j} : Running(i)}
Overlap(j) == overlapped' = overlapped \cup Beside(j) \cup {i \in {j} : Beside(j) # {}}

-----------------------------------------------------------------------------

\* What main() asks for before anything is started.  Any importance matrix will
\* do, and none if that is allowed; the first shard stands for the source.
MutantMayStart(k) ==
  CASE k = "source"  -> file["source"].state = "absent"
    [] k = "imatrix" -> file["imatrix"].state = "absent"
    [] k = "h1"      -> file["source"].state # "absent"
    [] k = "strix"   -> ~strix_dir /\ file["source"].state # "absent"
MayStart(k) ==
  CASE k = "source"  -> file["source"].state = "absent"
    [] k = "imatrix" -> file["imatrix"].state = "absent"
    [] k = "h1"      -> file["source"].state # "absent" /\ file["h1"].state = "absent"
    [] k = "strix"   -> ~strix_dir /\ file["source"].state # "absent"

Check(j) ==
  /\ phase[j] = "idle"
  /\ \E k \in Kinds :
       /\ command' = [command EXCEPT ![j] = k]
       /\ before' = [before EXCEPT ![j] = file["source"].layout]
       /\ IF MayStart(k)
          THEN phase' = [phase EXCEPT ![j] = "checked"] /\ Overlap(j)
          ELSE phase' = [phase EXCEPT ![j] = "refused"] /\ UNCHANGED overlapped
  /\ UNCHANGED <<file, strix_dir>>

\* mkdir(exist_ok=False)
MutantMakeDirectory(j) ==
  /\ phase[j] = "checked" /\ command[j] = "strix"
  /\ phase' = [phase EXCEPT ![j] = "made"] /\ strix_dir' = TRUE
  /\ UNCHANGED <<file, command, before, overlapped>>
MakeDirectory(j) ==
  /\ phase[j] = "checked" /\ command[j] = "strix"
  /\ phase' = [phase EXCEPT ![j] = IF strix_dir THEN "failed" ELSE "made"]
  /\ strix_dir' = TRUE
  /\ UNCHANGED <<file, command, before, overlapped>>

\* What the headers of an output say: those of a quantized model are those of its
\* source, which has to be there; the importance matrix is not made from it.
LayoutsOf(k) ==
  CASE k = "source"         -> Layouts
    [] k = "imatrix"        -> {0}
    [] k \in {"h1", "strix"} -> Layouts \cap {file["source"].layout}

\* The tool opens its output and starts it anew; one that still has it open
\* goes on writing.
ToolStart(j) ==
  /\ phase[j] = "left" \/ phase[j] = (IF command[j] = "strix" THEN "made" ELSE "checked")
  /\ LET k == command[j]
         writers == {i \in Jobs : phase[i] \in {"tool", "orphan"} /\ command[i] = k}
     IN \E layout \in LayoutsOf(k) :
          file' = [file EXCEPT ![k] = [state |-> "partial", by |-> writers \cup {j},
                                       layout |-> layout]]
  /\ phase' = [phase EXCEPT ![j] = IF @ = "left" THEN "orphan" ELSE "tool"]
  /\ UNCHANGED <<strix_dir, command, before, overlapped>>

\* run_logged: exit status 0, which an orphan's command does not live to see.  A
\* tool reads an incomplete source as far as it is there, or fails.
ToolEnds(j) ==
  /\ phase[j] \in {"tool", "orphan"}
  /\ file' = [file EXCEPT ![command[j]].state = IF @ = "absent" THEN "absent" ELSE "done"]
  /\ phase' = [phase EXCEPT ![j] = IF @ = "orphan" THEN "killed"
                                  ELSE IF command[j] = "strix" THEN "verify" ELSE "done"]
  /\ UNCHANGED <<strix_dir, command, before, overlapped>>

\* Another exit status, of the dry run too, or no tool to start.
ToolFails(j) ==
  /\ phase[j] \in {"checked", "made", "tool"}
  /\ phase' = [phase EXCEPT ![j] = "failed"]
  /\ UNCHANGED <<file, strix_dir, command, before, overlapped>>

\* --verify-only: the source as it is now against an output that is there.
VerifyOnly(j) ==
  /\ phase[j] = "idle" /\ file["source"].state # "absent"
  /\ phase' = [phase EXCEPT ![j] = "verify-only"]
  /\ command' = [command EXCEPT ![j] = "strix"]
  /\ before' = [before EXCEPT ![j] = file["source"].layout]
  /\ Overlap(j)
  /\ UNCHANGED <<file, strix_dir>>

\* checked_tensors and verify; the headers of an output that is still written
\* may not be readable yet.
Agrees(j) == file["strix"].state # "absent" /\ file["strix"].layout = before[j]
Verify(j) ==
  /\ phase[j] \in {"verify", "verify-only"}
  /\ \/ Agrees(j) /\ phase' = [phase EXCEPT ![j] = "passed"]
     \/ ~(Agrees(j) /\ Finished("strix")) /\ phase' = [phase EXCEPT ![j] = "failed"]
  /\ UNCHANGED <<file, strix_dir, command, before, overlapped>>

\* A signal to the whole group ends the command and its tool; what was written
\* stays.  An orphan ends like this too, by the closed pipe it writes to.
Kill(j) ==
  /\ Running(j) /\ phase' = [phase EXCEPT ![j] = "killed"]
  /\ UNCHANGED <<file, strix_dir, command, before, overlapped>>

\* A signal to the command alone, or an exception while it copies the output of
\* its tool: the tool goes on.
KillCommand(j) ==
  /\ \/ phase[j] = "tool" /\ phase' = [phase EXCEPT ![j] = "orphan"]
     \/ /\ phase[j] = (IF command[j] = "strix" THEN "made" ELSE "checked")
        /\ phase' = [phase EXCEPT ![j] = "left"]
  /\ UNCHANGED <<file, strix_dir, command, before, overlapped>>

\* The operator removes an output nobody is working on.  An orphan is overlooked;
\* llama-quantize writes on to a file that has no name any more.
RemoveOutput(k) ==
  /\ file[k].state # "absent" \/ (k = "strix" /\ strix_dir)
  /\ \A j \in Jobs : Running(j) /\ command[j] = k => phase[j] = "orphan" /\ k \in {"h1", "strix"}
  /\ file' = [file EXCEPT ![k] = Absent]
  /\ strix_dir' = (strix_dir /\ k # "strix")
  /\ phase' = [j \in Jobs |-> IF phase[j] = "orphan" /\ command[j] = k THEN "killed" ELSE phase[j]]
  /\ UNCHANGED <<command, before, overlapped>>

QuantInit ==
  /\ file = [k \in Kinds |-> Absent] /\ strix_dir = FALSE
  /\ phase = [j \in Jobs |-> "idle"] /\ command = [j \in Jobs |-> "h1"]
  /\ before = [j \in Jobs |-> 0] /\ overlapped = {}

QuantNext ==
  \/ \E j \in Jobs : \/ Check(j) \/ MakeDirectory(j) \/ ToolStart(j) \/ ToolEnds(j) \/ ToolFails(j)
                     \/ VerifyOnly(j) \/ Verify(j) \/ Kill(j) \/ KillCommand(j)
  \/ \E k \in Kinds : RemoveOutput(k)
QuantSpec == QuantInit /\ [][QuantNext]_quant_vars

-----------------------------------------------------------------------------
(* Properties *)

\* An output that passes its verification after a quantization is complete and was
\* written by that job and no other, however many were started at once and whatever
\* tools earlier ones have left running.
PassIsOurs ==
  [][\A j \in Jobs : phase[j] = "verify" /\ phase'[j] = "passed" =>
       Finished("strix") /\ file["strix"].by = {j}]_quant_vars

\* Nothing finished is overwritten: an output goes from complete to something
\* else only when the operator removes it.  qwen_strix_quant.py keeps that against
\* every other job; the commands of qwen_quant.py while they run alone, which a
\* command beside a tool that was left behind does not.
NothingOverwritten ==
  [][\A k \in Kinds : Finished(k) /\ file'[k] # file[k] =>
       \/ file'[k] = Absent
       \/ k # "strix" /\ \E j \in overlapped : command[j] = k]_quant_vars
=============================================================================
