------------------------------ MODULE RocmAudit ------------------------------
(***************************************************************************)
(* qwen_bench.py rocm-audit and its gate: the audit takes the hashes of    *)
(* the installed build, looks at sources and libraries, runs the kernel    *)
(* tests of every device, and only then writes its report; a run of the    *)
(* benchmarks is let through while the hashes of the report are still      *)
(* those of the build.  The build goes on changing all the while.          *)
(*                                                                         *)
(* A file is the generation of the source tree it was built from, which    *)
(* stands for its content and its hash; 0 is a file that is not there.     *)
(***************************************************************************)
EXTENDS Integers, Sequences, FiniteSets

CONSTANTS
  Generations,   \* bound: the last generation of the source tree
  Changes,       \* bound: how often the tree or a file of the build changes
  Traits,        \* what a generation has: [dispatch, archs, kernels, features]
  Devices        \* the GPUs, in the order they are tested

Files == {"server", "hip", "llama", "common"}
Types == <<"q8_0", "rocmfp4">>
Features == {"mtp", "state", "host", "vision", "bypass"}

ASSUME AuditAssumption ==
  /\ Generations \in Nat \ {0}
  /\ Changes \in Nat
  /\ Devices \in Seq(STRING) /\ Devices # <<>>
  /\ Traits \in [1..Generations -> [dispatch : BOOLEAN, archs : BOOLEAN, kernels : BOOLEAN,
                                    features : SUBSET Features]]

VARIABLES
  disk,     \* the installed build: the generation of each file
  tree,     \* the generation of the source tree
  changes,  \* how often the two have changed
  apc,      \* the audit: "idle", "inspect", "test"
  asked,    \* its devices, whether it was asked to run the tests, and whether the
            \* build has the program that runs them
  taken,    \* rocm_build_fingerprint: the hashes it took
  seen,     \* the files whose contents it looked at afterwards
  source,   \* the generation of the tree it looked at
  results,  \* its tests so far: whether each passed, and the library it ran on
  audit     \* rocm-audit.json

audit_vars == <<disk, tree, changes, apc, asked, taken, seen, source, results, audit>>

Installed == [Files -> 0..Generations]
Nothing == [f \in Files |-> 0]
NoAudit == [schema |-> 0]

-----------------------------------------------------------------------------
(* Markers: a compiled feature leaves its marker in these files.  "mtp" has *)
(* the markers only the audit looks for, "state" those the gate repeats.    *)

Carriers(feature) ==
  CASE feature = "mtp"   -> {"llama"}
    [] feature = "state" -> {"llama", "common", "server"}
    [] feature = "host"  -> {"common"}
    [] OTHER             -> {"server"}

Compiled(feature, files) ==
  \A f \in Carriers(feature) : files[f] # 0 /\ feature \in Traits[files[f]].features
DualArch(files) == files["hip"] # 0 /\ Traits[files["hip"]].archs

\* inspect_rocmfp4_sources and its four siblings.
SourceReady(feature) == feature \in Traits[source].features

-----------------------------------------------------------------------------
(* The report *)

\* The tests of one audit, in their order: the custom type is tested when the
\* sources have it.  One test stands for those of both operations, and of both
\* custom types, on a device.
Wanted(devices, dispatch) ==
  LET types == IF dispatch THEN 2 ELSE 1
  IN [i \in 1..types * Len(devices) |->
        [device |-> devices[((i - 1) \div types) + 1], type |-> Types[((i - 1) % types) + 1]]]

\* standard_control_pass and custom_functional_pass: as many tests of the type
\* as devices, and all of them passed.
Passed(type) ==
  LET wanted == Wanted(asked.devices, Traits[source].dispatch)
      ran == {i \in DOMAIN results : wanted[i].type = type}
  IN asked.ops /\ Cardinality(ran) = Len(asked.devices) /\ \A i \in ran : results[i].passed

ReadyModel ==
  /\ Traits[source].dispatch /\ DualArch(seen)
  /\ Passed("q8_0") /\ Passed("rocmfp4")
Proven(feature) == SourceReady(feature) /\ Compiled(feature, seen)
ReadyMtp == ReadyModel /\ Proven("mtp") /\ Proven("state")

Ready ==
  {f \in {"model"} : ReadyModel} \cup {f \in {"mtp"} : ReadyMtp}
    \cup {f \in {"host"} : ReadyModel /\ Proven(f)}
    \cup {f \in {"vision", "bypass"} : ReadyMtp /\ Proven(f)}

-----------------------------------------------------------------------------
(* validate_rocm_audit *)

\* Vision and bypass bring MTP with them.
NeedsMtp(need) == need \cap {"mtp", "vision", "bypass"} # {}
FingerprintKeys(need) ==
  {"server", "hip", "llama"} \cup (IF need = {} THEN {} ELSE {"common"})

\* The first version of the report that knows a gate.
MutantFirstSchema(feature) ==
  CASE feature = "mtp" -> 14 [] feature = "host" -> 5 [] feature = "vision" -> 8
    [] feature = "bypass" -> 10
FirstSchema(feature) ==
  CASE feature = "mtp" -> 13 [] feature = "host" -> 5 [] feature = "vision" -> 8
    [] feature = "bypass" -> 10

\* The markers of the current build that the gate asks for once more.
Repeated(feature) == IF feature = "mtp" THEN "state" ELSE feature

Demanded(need) == need \cup {f \in {"mtp"} : NeedsMtp(need)}

AuditAccepts(need) ==
  /\ audit # NoAudit
  /\ "model" \in audit.ready
  /\ \A f \in FingerprintKeys(need) : audit.taken[f] # 0 /\ audit.taken[f] = disk[f]
  /\ \A f \in Demanded(need) : /\ audit.schema >= FirstSchema(f)
                               /\ Compiled(Repeated(f), disk)
                               /\ f \in audit.ready

-----------------------------------------------------------------------------

\* The report an earlier version of the harness left for the first generation;
\* its MTP gate asked for less.
OldAudit(schema) ==
  LET files == [f \in Files |-> 1]
  IN [schema |-> schema, ready |-> {"model", "mtp", "host"}, taken |-> files, seen |-> files,
      source |-> 1, asked |-> [devices |-> Devices, ops |-> TRUE, binary |-> TRUE],
      results |-> [i \in 1..2 * Len(Devices) |-> [passed |-> TRUE, hip |-> 1]]]

AuditInit ==
  /\ disk \in {Nothing, [f \in Files |-> 1]}
  /\ tree = 1 /\ changes = 0 /\ apc = "idle"
  /\ taken = Nothing /\ seen = Nothing /\ source = 1
  /\ asked = [devices |-> <<>>, ops |-> FALSE, binary |-> FALSE] /\ results = <<>>
  /\ audit \in {NoAudit} \cup {OldAudit(schema) : schema \in {4, 12}}
  /\ audit # NoAudit => Traits[1].kernels /\ Traits[1].archs /\ Traits[1].dispatch

\* The tree moves on; a generation does not come back.
Edit ==
  /\ changes < Changes /\ changes' = changes + 1
  /\ tree < Generations /\ tree' = tree + 1
  /\ UNCHANGED <<disk, apc, asked, taken, seen, source, results, audit>>

\* The build removes a file, or puts the tree's generation of files in place:
\* of one, or of all of them before anybody looks.
Build ==
  /\ changes < Changes /\ changes' = changes + 1
  /\ \/ \E f \in Files, g \in {0, tree} : disk' = [disk EXCEPT ![f] = g]
     \/ disk' = [f \in Files |-> tree]
  /\ UNCHANGED <<tree, apc, asked, taken, seen, source, results, audit>>

\* The hashes come first.
AuditStart ==
  /\ apc = "idle" /\ apc' = "inspect"
  /\ \E devices \in {Devices, <<Head(Devices)>>}, ops, binary \in BOOLEAN :
       asked' = [devices |-> devices, ops |-> ops, binary |-> binary]
  /\ taken' = disk /\ results' = <<>>
  /\ UNCHANGED <<disk, tree, changes, seen, source, audit>>

\* Then the markers of the libraries and of the sources.
Inspect ==
  /\ apc = "inspect" /\ apc' = "test"
  /\ seen' = disk /\ source' = tree
  /\ UNCHANGED <<disk, tree, changes, asked, taken, results, audit>>

\* A test fails, runs out of time, or passes if the kernels of the library on
\* disk are right.  Without the program there are none.
Unfinished ==
  /\ asked.ops /\ asked.binary
  /\ Len(results) < Len(Wanted(asked.devices, Traits[source].dispatch))
Test ==
  /\ apc = "test" /\ Unfinished
  /\ LET type == Wanted(asked.devices, Traits[source].dispatch)[Len(results) + 1].type
     IN \E passed \in BOOLEAN :
          /\ passed => /\ disk["hip"] # 0
                       /\ type = "q8_0" \/ Traits[disk["hip"]].kernels
          /\ results' = Append(results, [passed |-> passed, hip |-> disk["hip"]])
  /\ UNCHANGED <<disk, tree, changes, apc, asked, taken, seen, source, audit>>

\* What the process held goes with it.
AuditEnd ==
  /\ apc' = "idle" /\ asked' = [devices |-> <<>>, ops |-> FALSE, binary |-> FALSE]
  /\ taken' = Nothing /\ seen' = Nothing /\ source' = 1 /\ results' = <<>>

MutantWriteAudit ==
  /\ apc = "test" /\ ~Unfinished
  /\ audit' = [schema |-> 13, ready |-> Ready, taken |-> disk, seen |-> seen,
               source |-> source, asked |-> asked, results |-> results]
  /\ AuditEnd
  /\ UNCHANGED <<disk, tree, changes>>
WriteAudit ==
  /\ apc = "test" /\ ~Unfinished
  /\ audit' = [schema |-> 13, ready |-> Ready, taken |-> taken, seen |-> seen,
               source |-> source, asked |-> asked, results |-> results]
  /\ AuditEnd
  /\ UNCHANGED <<disk, tree, changes>>

\* Interrupted or killed: the report of the last audit stays.
AuditAbort ==
  /\ apc # "idle" /\ AuditEnd
  /\ UNCHANGED <<disk, tree, changes, audit>>

AuditNext ==
  \/ Edit \/ Build \/ AuditStart \/ Inspect \/ Test \/ WriteAudit \/ AuditAbort
AuditSpec == AuditInit /\ [][AuditNext]_audit_vars

-----------------------------------------------------------------------------
(* Properties *)

Needs == {{}, {"mtp"}, {"host"}, {"vision"}, {"bypass"}}

\* A build that is let through is the one that was audited: the tests of every
\* device that was asked for passed on the very library that is installed now,
\* and every feature the run needs is compiled into the files that are there,
\* the ones whose markers only the audit looked at included.
AuditIsTrue ==
  \A need \in Needs : AuditAccepts(need) =>
    /\ Len(audit.results) = 2 * Len(audit.asked.devices)
    /\ \A i \in DOMAIN audit.results :
         audit.results[i].passed /\ audit.results[i].hip = disk["hip"]
    /\ DualArch(disk)
    /\ \A f \in Demanded(need) : Compiled(Repeated(f), disk)
    /\ (NeedsMtp(need) /\ audit.schema = 13) => Compiled("mtp", disk)

\* A build of one complete generation whose audit was not disturbed, and whose
\* tests passed, is let through for whatever it has.
AuditUsable ==
  (/\ audit # NoAudit /\ audit.schema = 13 /\ audit.asked.ops /\ audit.asked.binary
   /\ \A f \in Files : /\ disk[f] = audit.source
                       /\ audit.taken[f] = disk[f] /\ audit.seen[f] = disk[f]
   /\ Traits[audit.source].dispatch /\ Traits[audit.source].archs
   /\ {"mtp", "state"} \subseteq Traits[audit.source].features
   /\ \A i \in DOMAIN audit.results : audit.results[i].passed)
  => \A need \in Needs : need \subseteq Traits[audit.source].features => AuditAccepts(need)
=============================================================================
