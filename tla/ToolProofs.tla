---------------------------- MODULE ToolProofs -----------------------------
(***************************************************************************)
(* The audit of a build, the quantization commands and the search for an   *)
(* exact prompt, each with the argument its property rests on, for every   *)
(* value of their constants.                                               *)
(***************************************************************************)
EXTENDS RocmAudit, Quantization, PromptFit,
        SequenceTheorems, FunctionTheorems, FiniteSetTheorems, TLAPS

(***************************************************************************)
(* For every tree, list of devices and number of changes: a build that the *)
(* gate lets through is the one the kernel tests ran on.  The argument is  *)
(* one of time: hashes, contents and tests are of the past in that order,  *)
(* and a file only gets newer, so that equal ends make everything between  *)
(* them equal.  And the gate is no stricter than that: the undisturbed     *)
(* audit of a complete build lets it through.                              *)
(***************************************************************************)

\* Two looks at one file, the first one earlier.
Before(a, b) == a # 0 /\ b # 0 => a <= b

\* Looks at all files that happened in the past.
Past(a) == a \in [Files -> 0..tree] /\ \A f \in Files : Before(a[f], disk[f])

\* Tests that ran after the hashes were taken.
Tested(rs, hash) ==
  /\ rs \in Seq([passed : BOOLEAN, hip : 0..tree])
  /\ \A i \in DOMAIN rs : /\ rs[i].passed => rs[i].hip # 0
                          /\ Before(hash, rs[i].hip)
                          /\ Before(rs[i].hip, disk["hip"])

Report(a) ==
  /\ Past(a.taken) /\ Past(a.seen)
  /\ \A f \in Files : Before(a.taken[f], a.seen[f])
  /\ "model" \in a.ready =>
       /\ DualArch(a.seen) /\ Tested(a.results, a.taken["hip"])
       /\ Len(a.results) = 2 * Len(a.asked.devices)
       /\ \A i \in DOMAIN a.results : a.results[i].passed
  /\ a.schema = 13 /\ "mtp" \in a.ready => Compiled("mtp", a.seen)

AuditInv ==
  /\ tree \in Nat \ {0} /\ disk \in [Files -> 0..tree]
  /\ asked \in [devices : Seq(STRING), ops : BOOLEAN, binary : BOOLEAN]
  /\ Past(taken) /\ Past(seen) /\ Tested(results, taken["hip"])
  /\ apc = "inspect" \/ ~asked.binary => results = <<>>
  /\ apc = "test" => /\ \A f \in Files : Before(taken[f], seen[f])
                     /\ Len(results) <= Len(Wanted(asked.devices, Traits[source].dispatch))
  /\ audit # NoAudit => Report(audit)
-----------------------------------------------------------------------------
\* A build or an edit only makes files newer: the past stays the past.
LEMMA PastKept ==
  ASSUME NEW a, tree \in Nat, tree' \in Nat, tree <= tree', Past(a),
         disk \in [Files -> 0..tree], disk' \in [Files -> 0..tree'],
         \A f \in Files : disk'[f] \in {disk[f], 0} \/ tree <= disk'[f]
  PROVE  /\ a \in [Files -> 0..tree']
         /\ \A f \in Files : Before(a[f], disk'[f])
<1>1. a \in [Files -> 0..tree] BY DEF Past
<1>2. a \in [Files -> 0..tree'] BY <1>1
<1>3. ASSUME NEW f \in Files PROVE Before(a[f], disk'[f])
  <2>1. Before(a[f], disk[f]) BY DEF Past
  <2>2. a[f] \in 0..tree /\ disk[f] \in 0..tree /\ disk'[f] \in 0..tree' BY <1>1
  <2> QED BY <2>1, <2>2 DEF Before
<1> QED BY <1>2, <1>3

\* Tests that ran before files got newer ran before still.
LEMMA TestedKept ==
  ASSUME NEW rs, NEW hash, tree \in Nat, tree' \in Nat, tree <= tree', Tested(rs, hash),
         disk \in [Files -> 0..tree], disk' \in [Files -> 0..tree'],
         \A f \in Files : disk'[f] \in {disk[f], 0} \/ tree <= disk'[f]
  PROVE  /\ rs \in Seq([passed : BOOLEAN, hip : 0..tree'])
         /\ \A i \in DOMAIN rs : /\ rs[i].passed => rs[i].hip # 0
                                 /\ Before(hash, rs[i].hip)
                                 /\ Before(rs[i].hip, disk'["hip"])
<1>1. rs \in Seq([passed : BOOLEAN, hip : 0..tree]) BY DEF Tested
<1>2. [passed : BOOLEAN, hip : 0..tree] \subseteq [passed : BOOLEAN, hip : 0..tree']
  <2>1. 0..tree \subseteq 0..tree' OBVIOUS
  <2> QED BY <2>1
<1>3. rs \in Seq([passed : BOOLEAN, hip : 0..tree']) BY <1>1, <1>2, SeqMonotonic
<1>4. ASSUME NEW i \in DOMAIN rs PROVE Before(rs[i].hip, disk'["hip"])
  <2>1. Before(rs[i].hip, disk["hip"]) BY DEF Tested
  <2>2. rs[i] \in [passed : BOOLEAN, hip : 0..tree]
    <3> DEFINE T == [passed : BOOLEAN, hip : 0..tree]
    <3>1. rs \in Seq(T) BY <1>1
    <3> HIDE DEF T
    <3>2. rs[i] \in T BY <3>1, LenProperties, ElementOfSeq
    <3> QED BY <3>2 DEF T
  <2>3. "hip" \in Files BY DEF Files
  <2>4. rs[i].hip \in 0..tree /\ disk["hip"] \in 0..tree /\ disk'["hip"] \in 0..tree'
    BY <2>2, <2>3
  <2> QED BY <2>1, <2>3, <2>4 DEF Before
<1>5. \A i \in DOMAIN rs : (rs[i].passed => rs[i].hip # 0) /\ Before(hash, rs[i].hip)
  BY DEF Tested
<1> QED BY <1>3, <1>4, <1>5

\* The report of an audit in the past stays true of the past.
LEMMA ReportKept ==
  ASSUME tree \in Nat, tree' \in Nat, tree <= tree', Report(audit), audit' = audit,
         disk \in [Files -> 0..tree], disk' \in [Files -> 0..tree'],
         \A f \in Files : disk'[f] \in {disk[f], 0} \/ tree <= disk'[f]
  PROVE  Report(audit)'
<1>1. Past(audit.taken) /\ Past(audit.seen) BY DEF Report
<1>2. /\ audit.taken \in [Files -> 0..tree']
      /\ \A f \in Files : Before(audit.taken[f], disk'[f])
  BY <1>1, PastKept
<1>3. /\ audit.seen \in [Files -> 0..tree']
      /\ \A f \in Files : Before(audit.seen[f], disk'[f])
  BY <1>1, PastKept
<1>4. Past(audit.taken)' /\ Past(audit.seen)' BY <1>2, <1>3 DEF Past
<1>5. "model" \in audit.ready => Tested(audit.results, audit.taken["hip"])'
  <2> SUFFICES ASSUME "model" \in audit.ready PROVE Tested(audit.results, audit.taken["hip"])'
    OBVIOUS
  <2>1. Tested(audit.results, audit.taken["hip"]) BY DEF Report
  <2>2. /\ audit.results \in Seq([passed : BOOLEAN, hip : 0..tree'])
        /\ \A i \in DOMAIN audit.results :
             /\ audit.results[i].passed => audit.results[i].hip # 0
             /\ Before(audit.taken["hip"], audit.results[i].hip)
             /\ Before(audit.results[i].hip, disk'["hip"])
    BY <2>1, TestedKept
  <2> QED BY <2>2 DEF Tested
<1>6. \A f \in Files : Before(audit.taken[f], audit.seen[f])' BY DEF Report, Before
<1>7. ("model" \in audit.ready =>
        /\ DualArch(audit.seen)
        /\ Len(audit.results) = 2 * Len(audit.asked.devices)
        /\ \A i \in DOMAIN audit.results : audit.results[i].passed)'
  BY DEF Report, DualArch
<1>8. (audit.schema = 13 /\ "mtp" \in audit.ready => Compiled("mtp", audit.seen))'
  BY DEF Report, Compiled
<1> QED BY <1>4, <1>5, <1>6, <1>7, <1>8 DEF Report

-----------------------------------------------------------------------------
\* An audit that has not begun knows nothing, and the report of an old harness
\* is one of the build it finds.
THEOREM AuditStarts == AuditInit => AuditInv
<1> SUFFICES ASSUME AuditInit PROVE AuditInv OBVIOUS
<1>1. tree = 1 /\ tree \in Nat \ {0} BY DEF AuditInit
<1>2. disk \in [Files -> 0..tree] /\ \A f \in Files : disk[f] \in {0, 1}
  BY <1>1 DEF AuditInit, Nothing
<1>3. asked \in [devices : Seq(STRING), ops : BOOLEAN, binary : BOOLEAN] BY DEF AuditInit
<1>4. Past(Nothing) BY <1>1 DEF Past, Nothing, Before
<1>5. Tested(results, taken["hip"])
  <2>1. results = <<>> BY DEF AuditInit
  <2> QED BY <2>1 DEF Tested
<1>6. apc = "idle" /\ taken = Nothing /\ seen = Nothing /\ results = <<>> BY DEF AuditInit
<1>7. ASSUME audit # NoAudit PROVE Report(audit)
  <2>1. PICK schema \in {4, 12} : audit = OldAudit(schema) BY <1>7 DEF AuditInit
  <2> DEFINE files == [f \in Files |-> 1]
             rs == [i \in 1..2 * Len(Devices) |-> [passed |-> TRUE, hip |-> 1]]
  <2>2. /\ audit.taken = files /\ audit.seen = files /\ audit.schema = schema
        /\ audit.results = rs /\ audit.asked.devices = Devices
    BY <2>1 DEF OldAudit
  <2>3. Past(files) BY <1>1, <1>2 DEF Past, Before
  <2>4. \A f \in Files : Before(files[f], files[f]) BY DEF Before
  <2>5. Len(Devices) \in Nat BY AuditAssumption
  <2>6. rs \in Seq([passed : BOOLEAN, hip : 0..tree]) /\ Len(rs) = 2 * Len(Devices)
    <3>1. \A i \in 1..2 * Len(Devices) :
            [passed |-> TRUE, hip |-> 1] \in [passed : BOOLEAN, hip : 0..tree]
      BY <1>1
    <3>2. 2 * Len(Devices) \in Nat BY <2>5
    <3>3. rs \in [1..2 * Len(Devices) -> [passed : BOOLEAN, hip : 0..tree]] BY <3>1
    <3> DEFINE T == [passed : BOOLEAN, hip : 0..tree]
    <3>5. rs \in [1..2 * Len(Devices) -> T] BY <3>3
    <3> HIDE DEF rs, T
    <3>6. rs \in Seq(T)
      <4>1. \E n \in Nat : rs \in [1..n -> T] BY <3>2, <3>5
      <4> QED BY <4>1, SeqDef
    <3>4. rs \in Seq([passed : BOOLEAN, hip : 0..tree]) BY <3>6 DEF T
    <3> QED BY <3>2, <3>3, <3>4, LenProperties
  <2>7. "hip" \in Files BY DEF Files
  <2>8. Tested(rs, files["hip"])
    <3>1. DOMAIN rs = 1..2 * Len(Devices) OBVIOUS
    <3>2. \A i \in DOMAIN rs : rs[i].passed /\ rs[i].hip = 1 BY <3>1
    <3>3. files["hip"] = 1 /\ disk["hip"] \in {0, 1} BY <1>2, <2>7
    <3> HIDE DEF rs
    <3> QED BY <2>6, <3>2, <3>3 DEF Tested, Before
  <2>9. DualArch(files)
    <3>1. Traits[1].archs BY <1>7 DEF AuditInit
    <3> QED BY <2>7, <3>1 DEF DualArch
  <2>10. \A i \in DOMAIN rs : rs[i].passed OBVIOUS
  <2>11. audit.schema # 13 BY <2>2
  <2> HIDE DEF files, rs
  <2> QED BY <2>2, <2>3, <2>4, <2>6, <2>8, <2>9, <2>10, <2>11 DEF Report
<1> QED BY <1>1, <1>2, <1>3, <1>4, <1>5, <1>6, <1>7 DEF AuditInv
-----------------------------------------------------------------------------
\* Twice as many tests are wanted as there are devices when the sources have the
\* custom type, and each is of one of the two types.
LEMMA WantedTwice ==
  ASSUME NEW devices \in Seq(STRING)
  PROVE  /\ Len(Wanted(devices, TRUE)) = 2 * Len(devices)
         /\ \A i \in 1..2 * Len(devices) :
              Wanted(devices, TRUE)[i].type \in {"q8_0", "rocmfp4"}
<1>1. Len(devices) \in Nat OBVIOUS
<1>2. Wanted(devices, TRUE) =
        [i \in 1..2 * Len(devices) |->
           [device |-> devices[((i - 1) \div 2) + 1], type |-> Types[((i - 1) % 2) + 1]]]
  BY DEF Wanted
<1>3. Len(Wanted(devices, TRUE)) = 2 * Len(devices)
  <2> DEFINE e(i) == [device |-> devices[((i - 1) \div 2) + 1], type |-> Types[((i - 1) % 2) + 1]]
             w == [i \in 1..2 * Len(devices) |-> e(i)]
             T == {e(i) : i \in 1..2 * Len(devices)}
  <2>1. 2 * Len(devices) \in Nat BY <1>1
  <2> HIDE DEF e
  <2>2. w \in [1..2 * Len(devices) -> T] OBVIOUS
  <2>3. DOMAIN w = 1..2 * Len(devices) OBVIOUS
  <2> HIDE DEF w, T
  <2>4. w \in Seq(T)
    <3>1. \E n \in Nat : w \in [1..n -> T] BY <2>1, <2>2
    <3> QED BY <3>1, SeqDef
  <2>5. Len(w) = 2 * Len(devices) BY <2>1, <2>3, <2>4, LenProperties
  <2> QED BY <1>2, <2>5 DEF w, e
<1>4. ASSUME NEW i \in 1..2 * Len(devices)
      PROVE  Wanted(devices, TRUE)[i].type \in {"q8_0", "rocmfp4"}
  <2>1. i \in Int BY <1>1
  <2>2. (i - 1) % 2 \in {0, 1} BY <2>1
  <2> DEFINE n == 2 * Len(devices)
             e(j) == [device |-> devices[((j - 1) \div 2) + 1], type |-> Types[((j - 1) % 2) + 1]]
  <2>3. e(i).type = Types[((i - 1) % 2) + 1] OBVIOUS
  <2>4. e(i).type \in {"q8_0", "rocmfp4"}
    <3>1. CASE (i - 1) % 2 = 0 BY <2>3, <3>1 DEF Types
    <3>2. CASE (i - 1) % 2 = 1 BY <2>3, <3>2 DEF Types
    <3> QED BY <2>2, <3>1, <3>2
  <2>5. Wanted(devices, TRUE) = [j \in 1..n |-> e(j)] BY <1>2
  <2>6. i \in 1..n OBVIOUS
  <2> HIDE DEF e, n
  <2> QED BY <2>4, <2>5, <2>6
<1> QED BY <1>3, <1>4

\* A report that is written now is one of the past.
LEMMA Written ==
  ASSUME AuditInv, WriteAudit
  PROVE  Report(audit)'
<1>1. /\ audit'.taken = taken /\ audit'.seen = seen /\ audit'.results = results
      /\ audit'.asked = asked /\ audit'.ready = Ready
  BY DEF WriteAudit
<1>2. apc = "test" /\ ~Unfinished /\ disk' = disk /\ tree' = tree BY DEF WriteAudit
<1>3. (Past(audit.taken) /\ Past(audit.seen))'
  BY <1>1, <1>2 DEF AuditInv, Past
<1>4. \A f \in Files : Before(taken[f], seen[f]) BY <1>2 DEF AuditInv
<1>5. ASSUME "model" \in Ready
      PROVE  /\ DualArch(seen)
             /\ Len(results) = 2 * Len(asked.devices)
             /\ \A i \in DOMAIN results : results[i].passed
  <2>1. ReadyModel BY <1>5 DEF Ready
  <2>2. Traits[source].dispatch /\ DualArch(seen) /\ Passed("q8_0") /\ Passed("rocmfp4")
    BY <2>1 DEF ReadyModel
  <2>3. Wanted(asked.devices, Traits[source].dispatch) = Wanted(asked.devices, TRUE)
    BY <2>2 DEF Wanted
  <2>4. asked.ops BY <2>2 DEF Passed
  <2>5. asked.devices \in Seq(STRING) /\ Len(asked.devices) \in Nat BY DEF AuditInv
  <2>6. results \in Seq([passed : BOOLEAN, hip : 0..tree]) BY DEF AuditInv, Tested
  <2>7. Len(results) \in Nat /\ DOMAIN results = 1..Len(results) BY <2>6, LenProperties
  <2>8. Len(Wanted(asked.devices, TRUE)) = 2 * Len(asked.devices) BY <2>5, WantedTwice
  <2>9. Len(results) <= 2 * Len(asked.devices) BY <1>2, <2>3, <2>8 DEF AuditInv
  <2>10. ~(Len(results) < 2 * Len(asked.devices))
    <3>1. CASE asked.binary BY <1>2, <2>3, <2>4, <2>8, <3>1 DEF Unfinished
    <3>2. CASE ~asked.binary
      <4>1. results = <<>> BY <3>2 DEF AuditInv
      <4>2. DOMAIN results = {} BY <4>1
      <4>3. {i \in DOMAIN results :
              Wanted(asked.devices, Traits[source].dispatch)[i].type = "q8_0"} = {}
        BY <4>2
      <4>4. Cardinality({}) = Len(asked.devices) BY <2>2, <4>3 DEF Passed
      <4>5. Len(asked.devices) = 0 BY <4>4, FS_EmptySet
      <4> QED BY <2>7, <4>5
    <3> QED BY <3>1, <3>2
  <2>11. Len(results) = 2 * Len(asked.devices)
    <3> DEFINE n == Len(results)
               m == Len(asked.devices)
    <3>1. n \in Nat /\ m \in Nat /\ n <= 2 * m /\ ~(n < 2 * m) BY <2>5, <2>7, <2>9, <2>10
    <3> HIDE DEF n, m
    <3>2. n = 2 * m BY <3>1
    <3> QED BY <3>2 DEF n, m
  <2>12. ASSUME NEW i \in DOMAIN results PROVE results[i].passed
    <3>1. Wanted(asked.devices, TRUE)[i].type \in {"q8_0", "rocmfp4"}
      BY <2>5, <2>7, <2>11, <2>12, WantedTwice
    <3>2. \A type : Passed(type) /\ Wanted(asked.devices, TRUE)[i].type = type => results[i].passed
      BY <2>3, <2>12 DEF Passed
    <3> QED BY <2>2, <3>1, <3>2
  <2> QED BY <2>2, <2>11, <2>12
<1>6. ASSUME "mtp" \in Ready PROVE Compiled("mtp", seen)
  BY <1>6 DEF Ready, ReadyMtp, Proven
<1>7. Tested(audit.results, audit.taken["hip"])'
  BY <1>1, <1>2 DEF AuditInv, Tested
<1>8. (\A f \in Files : Before(audit.taken[f], audit.seen[f]))'
  BY <1>1, <1>4 DEF Before
<1>9. ("model" \in audit.ready =>
         /\ DualArch(audit.seen)
         /\ Len(audit.results) = 2 * Len(audit.asked.devices)
         /\ \A i \in DOMAIN audit.results : audit.results[i].passed)'
  BY <1>1, <1>5 DEF DualArch
<1>10. (audit.schema = 13 /\ "mtp" \in audit.ready => Compiled("mtp", audit.seen))'
  BY <1>1, <1>6 DEF Compiled
<1> QED BY <1>3, <1>7, <1>8, <1>9, <1>10 DEF Report

-----------------------------------------------------------------------------
\* There are so many tests to be run, whatever the sources have.
LEMMA WantedMany ==
  ASSUME NEW devices \in Seq(STRING), NEW dispatch
  PROVE  Len(Wanted(devices, dispatch)) \in Nat
<1> DEFINE types == IF dispatch THEN 2 ELSE 1
           e(i) == [device |-> devices[((i - 1) \div types) + 1],
                    type |-> Types[((i - 1) % types) + 1]]
           n == types * Len(devices)
           w == [i \in 1..n |-> e(i)]
           T == {e(i) : i \in 1..n}
<1>1. n \in Nat
  <2>1. Len(devices) \in Nat OBVIOUS
  <2>2. types \in {1, 2} OBVIOUS
  <2> HIDE DEF types
  <2> QED BY <2>1, <2>2
<1>2. Wanted(devices, dispatch) = w BY DEF Wanted
<1> HIDE DEF e, n
<1>3. w \in [1..n -> T] OBVIOUS
<1>4. DOMAIN w = 1..n OBVIOUS
<1> HIDE DEF w, T
<1>5. w \in Seq(T)
  <2>1. \E m \in Nat : w \in [1..m -> T] BY <1>1, <1>3
  <2> QED BY <2>1, SeqDef
<1> QED BY <1>1, <1>2, <1>4, <1>5, LenProperties

\* What is not there yet is of the past.
LEMMA NothingPast ==
  ASSUME tree \in Nat, disk \in [Files -> 0..tree]
  PROVE  Past(Nothing)
BY DEF Past, Nothing, Before

\* An audit that ends leaves nothing behind.
LEMMA Ended ==
  ASSUME AuditInv, AuditEnd, disk' = disk, tree' = tree, (audit # NoAudit => Report(audit))'
  PROVE  AuditInv'
<1>1. apc' = "idle" /\ asked' = [devices |-> <<>>, ops |-> FALSE, binary |-> FALSE]
      /\ taken' = Nothing /\ seen' = Nothing /\ results' = <<>>
  BY DEF AuditEnd
<1>2. tree' \in Nat \ {0} /\ disk' \in [Files -> 0..tree'] BY DEF AuditInv
<1>3. asked' \in [devices : Seq(STRING), ops : BOOLEAN, binary : BOOLEAN] BY <1>1
<1>4. Past(Nothing) BY NothingPast DEF AuditInv
<1>5. (Past(taken) /\ Past(seen))' BY <1>1, <1>4 DEF Past, Nothing
<1>6. Tested(results, taken["hip"])' BY <1>1 DEF Tested
<1> QED BY <1>1, <1>2, <1>3, <1>5, <1>6 DEF AuditInv

\* The build and the tree go on while an audit is under way.
LEMMA Changed ==
  ASSUME AuditInv, tree' \in Nat \ {0}, tree <= tree', disk' \in [Files -> 0..tree'],
         \A f \in Files : disk'[f] \in {disk[f], 0} \/ tree <= disk'[f],
         UNCHANGED <<apc, asked, taken, seen, source, results, audit>>
  PROVE  AuditInv'
<1>1. tree \in Nat /\ tree' \in Nat /\ disk \in [Files -> 0..tree] BY DEF AuditInv
<1>2. Past(taken)'
  <2>1. Past(taken) BY DEF AuditInv
  <2>2. taken \in [Files -> 0..tree'] /\ \A f \in Files : Before(taken[f], disk'[f])
    BY <1>1, <2>1, PastKept
  <2> QED BY <2>2 DEF Past
<1>3. Past(seen)'
  <2>1. Past(seen) BY DEF AuditInv
  <2>2. seen \in [Files -> 0..tree'] /\ \A f \in Files : Before(seen[f], disk'[f])
    BY <1>1, <2>1, PastKept
  <2> QED BY <2>2 DEF Past
<1>4. Tested(results, taken["hip"])'
  <2>1. Tested(results, taken["hip"]) BY DEF AuditInv
  <2>2. /\ results \in Seq([passed : BOOLEAN, hip : 0..tree'])
        /\ \A i \in DOMAIN results :
             /\ results[i].passed => results[i].hip # 0
             /\ Before(taken["hip"], results[i].hip)
             /\ Before(results[i].hip, disk'["hip"])
    BY <1>1, <2>1, TestedKept
  <2> QED BY <2>2 DEF Tested
<1>5. (audit # NoAudit => Report(audit))'
  <2> SUFFICES ASSUME audit # NoAudit PROVE Report(audit)' OBVIOUS
  <2>1. Report(audit) BY DEF AuditInv
  <2> QED BY <1>1, <2>1, ReportKept
<1>6. (apc = "inspect" \/ ~asked.binary => results = <<>>)' BY DEF AuditInv
<1>7. (apc = "test" => /\ \A f \in Files : Before(taken[f], seen[f])
                      /\ Len(results) <= Len(Wanted(asked.devices, Traits[source].dispatch)))'
  BY DEF AuditInv, Before, Wanted
<1>8. asked' \in [devices : Seq(STRING), ops : BOOLEAN, binary : BOOLEAN] BY DEF AuditInv
<1> QED BY <1>2, <1>3, <1>4, <1>5, <1>6, <1>7, <1>8 DEF AuditInv

\* The hashes of a build are of its past from the moment they are taken.
LEMMA Started ==
  ASSUME AuditInv, AuditStart
  PROVE  AuditInv'
<1>1. /\ apc' = "inspect" /\ taken' = disk /\ results' = <<>>
      /\ UNCHANGED <<disk, tree, seen, audit>>
  BY DEF AuditStart
<1>2. asked' \in [devices : Seq(STRING), ops : BOOLEAN, binary : BOOLEAN]
  <2>1. Devices \in Seq(STRING) /\ <<Head(Devices)>> \in Seq(STRING) BY AuditAssumption
  <2>2. PICK devices \in {Devices, <<Head(Devices)>>}, ops, binary \in BOOLEAN :
          asked' = [devices |-> devices, ops |-> ops, binary |-> binary]
    BY DEF AuditStart
  <2>3. devices \in Seq(STRING) BY <2>1, <2>2
  <2> QED BY <2>2, <2>3
<1>3. Past(disk)
  <2>1. tree \in Nat /\ disk \in [Files -> 0..tree] BY DEF AuditInv
  <2> QED BY <2>1 DEF Past, Before
<1>4. Past(taken)' BY <1>1, <1>3 DEF Past
<1>5. Past(seen)' BY <1>1 DEF AuditInv, Past
<1>6. Tested(results, taken["hip"])' BY <1>1 DEF Tested
<1>7. (audit # NoAudit => Report(audit))' BY <1>1 DEF AuditInv, Report, Past, Tested, DualArch, Compiled
<1> QED BY <1>1, <1>2, <1>4, <1>5, <1>6, <1>7 DEF AuditInv

\* What the audit looks at is no older than its hashes.
LEMMA Inspected ==
  ASSUME AuditInv, Inspect
  PROVE  AuditInv'
<1>1. /\ apc = "inspect" /\ apc' = "test" /\ seen' = disk
      /\ UNCHANGED <<disk, tree, asked, taken, results, audit>>
  BY DEF Inspect
<1>2. Past(disk)
  <2>1. tree \in Nat /\ disk \in [Files -> 0..tree] BY DEF AuditInv
  <2> QED BY <2>1 DEF Past, Before
<1>3. Past(seen)' BY <1>1, <1>2 DEF Past
<1>4. Past(taken)' BY <1>1 DEF AuditInv, Past
<1>5. (\A f \in Files : Before(taken[f], seen[f]))' BY <1>1 DEF AuditInv, Past, Before
<1>6. (Len(results) <= Len(Wanted(asked.devices, Traits[source].dispatch)))'
  <2>1. results' = <<>> /\ asked'.devices \in Seq(STRING) BY <1>1 DEF AuditInv
  <2>2. Len(Wanted(asked'.devices, Traits[source'].dispatch)) \in Nat BY <2>1, WantedMany
  <2>3. Len(Wanted(asked.devices, Traits[source].dispatch))' \in Nat BY <2>2 DEF Wanted
  <2> QED BY <2>1, <2>3
<1>7. Tested(results, taken["hip"])' BY <1>1 DEF AuditInv, Tested
<1>8. (audit # NoAudit => Report(audit))' BY <1>1 DEF AuditInv, Report, Past, Tested, DualArch, Compiled
<1>9. (tree \in Nat \ {0} /\ disk \in [Files -> 0..tree]
        /\ asked \in [devices : Seq(STRING), ops : BOOLEAN, binary : BOOLEAN])'
  BY <1>1 DEF AuditInv
<1> QED BY <1>1, <1>3, <1>4, <1>5, <1>6, <1>7, <1>8, <1>9 DEF AuditInv

\* A test runs on a library that is no older than the hashes.
LEMMA TestRan ==
  ASSUME AuditInv, Test
  PROVE  AuditInv'
<1>1. /\ apc = "test" /\ Unfinished
      /\ UNCHANGED <<disk, tree, apc, asked, taken, seen, source, audit>>
  BY DEF Test
<1> DEFINE T == [passed : BOOLEAN, hip : 0..tree]
<1>2. PICK passed \in BOOLEAN :
        /\ passed => disk["hip"] # 0
        /\ results' = Append(results, [passed |-> passed, hip |-> disk["hip"]])
  BY DEF Test
<1> DEFINE new == [passed |-> passed, hip |-> disk["hip"]]
<1>3. tree \in Nat /\ "hip" \in Files /\ disk["hip"] \in 0..tree BY DEF AuditInv, Files
<1>4. new \in T BY <1>3
<1>5. results \in Seq(T) BY DEF AuditInv, Tested
<1>6. new.passed => new.hip # 0 BY <1>2
<1>7. Before(taken["hip"], new.hip) BY <1>3 DEF AuditInv, Past
<1>8. Before(new.hip, disk["hip"]) BY <1>3 DEF Before
<1>9. results' = Append(results, new) BY <1>2
<1>10. \A i \in DOMAIN results : /\ results[i].passed => results[i].hip # 0
                                 /\ Before(taken["hip"], results[i].hip)
                                 /\ Before(results[i].hip, disk["hip"])
  BY DEF AuditInv, Tested
<1>11. Len(results) < Len(Wanted(asked.devices, Traits[source].dispatch))
  BY <1>1 DEF Unfinished
<1>12. Len(Wanted(asked.devices, Traits[source].dispatch)) \in Nat
  <2>1. asked.devices \in Seq(STRING) BY DEF AuditInv
  <2> QED BY <2>1, WantedMany
<1> HIDE DEF new, T
<1>13. /\ results' \in Seq(T) /\ Len(results') = Len(results) + 1 /\ Len(results) \in Nat
       /\ \A i \in DOMAIN results' : \/ i \in DOMAIN results /\ results'[i] = results[i]
                                     \/ results'[i] = new
  BY <1>4, <1>5, <1>9, AppendProperties, LenProperties
<1>14. \A i \in DOMAIN results' : /\ results'[i].passed => results'[i].hip # 0
                                  /\ Before(taken["hip"], results'[i].hip)
                                  /\ Before(results'[i].hip, disk["hip"])
  BY <1>6, <1>7, <1>8, <1>10, <1>13
<1>15. Tested(results, taken["hip"])'
  <2>1. results' \in Seq([passed : BOOLEAN, hip : 0..tree']) BY <1>1, <1>13 DEF T
  <2> QED BY <1>1, <1>14, <2>1 DEF Tested, Before
<1>16. Len(results)' <= Len(Wanted(asked.devices, Traits[source].dispatch))
  BY <1>11, <1>12, <1>13
<1>17. (Len(results) <= Len(Wanted(asked.devices, Traits[source].dispatch)))'
  BY <1>1, <1>16 DEF Wanted
<1>18. (Past(taken) /\ Past(seen))' BY <1>1 DEF AuditInv, Past
<1>19. (audit # NoAudit => Report(audit))'
  BY <1>1 DEF AuditInv, Report, Past, Tested, DualArch, Compiled
<1>20. (\A f \in Files : Before(taken[f], seen[f]))' BY <1>1 DEF AuditInv, Before
<1>22. (apc = "inspect" \/ ~asked.binary => results = <<>>)' BY <1>1 DEF Unfinished
<1>21. (tree \in Nat \ {0} /\ disk \in [Files -> 0..tree]
         /\ asked \in [devices : Seq(STRING), ops : BOOLEAN, binary : BOOLEAN])'
  BY <1>1 DEF AuditInv
<1> QED BY <1>1, <1>15, <1>17, <1>18, <1>19, <1>20, <1>21, <1>22 DEF AuditInv

-----------------------------------------------------------------------------
\* Whatever the audit, the build and the tree do, the past stays the past.
THEOREM AuditSteps == AuditInv /\ [AuditNext]_audit_vars => AuditInv'
<1> SUFFICES ASSUME AuditInv, [AuditNext]_audit_vars PROVE AuditInv' OBVIOUS
<1>1. CASE Edit
  <2>1. tree \in Nat \ {0} /\ tree' = tree + 1 /\ disk' = disk /\ disk \in [Files -> 0..tree]
    BY <1>1 DEF Edit, AuditInv
  <2>2. tree' \in Nat \ {0} /\ tree <= tree' BY <2>1
  <2>3. 0..tree \subseteq 0..tree' BY <2>1
  <2>4. disk' \in [Files -> 0..tree'] BY <2>1, <2>3
  <2>5. UNCHANGED <<apc, asked, taken, seen, source, results, audit>> BY <1>1 DEF Edit
  <2> QED BY <2>1, <2>2, <2>4, <2>5, Changed
<1>2. CASE Build
  <2>1. tree \in Nat \ {0} /\ tree' = tree /\ disk \in [Files -> 0..tree]
    BY <1>2 DEF Build, AuditInv
  <2>2. UNCHANGED <<apc, asked, taken, seen, source, results, audit>> BY <1>2 DEF Build
  <2>3. /\ disk' \in [Files -> 0..tree]
        /\ \A f \in Files : disk'[f] \in {disk[f], 0} \/ tree <= disk'[f]
    <3>1. CASE \E f \in Files, g \in {0, tree} : disk' = [disk EXCEPT ![f] = g]
      BY <2>1, <3>1
    <3>2. CASE disk' = [f \in Files |-> tree] BY <2>1, <3>2
    <3> QED BY <1>2, <3>1, <3>2 DEF Build
  <2> QED BY <2>1, <2>2, <2>3, Changed
<1>3. CASE AuditStart BY <1>3, Started
<1>4. CASE Inspect BY <1>4, Inspected
<1>5. CASE Test BY <1>5, TestRan
<1>6. CASE WriteAudit
  <2>1. Report(audit)' BY <1>6, Written
  <2>2. AuditEnd /\ disk' = disk /\ tree' = tree BY <1>6 DEF WriteAudit
  <2> QED BY <2>1, <2>2, Ended
<1>7. CASE AuditAbort
  <2>1. AuditEnd /\ disk' = disk /\ tree' = tree /\ audit' = audit BY <1>7 DEF AuditAbort
  <2>2. (audit # NoAudit => Report(audit))'
    BY <2>1 DEF AuditInv, Report, Past, Tested, DualArch, Compiled
  <2> QED BY <2>1, <2>2, Ended
<1>8. CASE UNCHANGED audit_vars
  BY <1>8 DEF audit_vars, AuditInv, Report, Past, Tested, DualArch, Compiled, Before, Wanted
<1> QED BY <1>1, <1>2, <1>3, <1>4, <1>5, <1>6, <1>7, <1>8 DEF AuditNext

\* The gate pins both ends of that time: the hashes of the report are those of
\* the build, and so are the contents and the tests in between.
THEOREM AuditInvTrue == AuditInv => AuditIsTrue
<1> SUFFICES ASSUME AuditInv, NEW need \in Needs, AuditAccepts(need)
             PROVE  /\ Len(audit.results) = 2 * Len(audit.asked.devices)
                    /\ \A i \in DOMAIN audit.results :
                         audit.results[i].passed /\ audit.results[i].hip = disk["hip"]
                    /\ DualArch(disk)
                    /\ \A f \in Demanded(need) : Compiled(Repeated(f), disk)
                    /\ (NeedsMtp(need) /\ audit.schema = 13) => Compiled("mtp", disk)
  BY DEF AuditIsTrue
<1>1. Report(audit) /\ "model" \in audit.ready BY DEF AuditAccepts, AuditInv
<1>2. tree \in Nat /\ disk \in [Files -> 0..tree] BY DEF AuditInv
<1>3. /\ audit.taken["hip"] # 0 /\ audit.taken["hip"] = disk["hip"]
      /\ audit.taken["llama"] # 0 /\ audit.taken["llama"] = disk["llama"]
  BY DEF AuditAccepts, FingerprintKeys
<1>4. "hip" \in Files /\ "llama" \in Files BY DEF Files
<1>5. ASSUME NEW f \in {"hip", "llama"}, audit.seen[f] # 0
      PROVE  audit.seen[f] = disk[f]
  <2>1. Before(audit.taken[f], audit.seen[f]) /\ Before(audit.seen[f], disk[f])
    BY <1>1, <1>4 DEF Report, Past
  <2>2. audit.seen[f] \in Nat /\ disk[f] \in Nat BY <1>1, <1>2, <1>4 DEF Report, Past
  <2> QED BY <1>3, <1>5, <2>1, <2>2 DEF Before
<1>6. DualArch(disk) BY <1>1, <1>5 DEF Report, DualArch
<1>7. ASSUME NEW i \in DOMAIN audit.results
      PROVE  audit.results[i].passed /\ audit.results[i].hip = disk["hip"]
  <2> DEFINE T == [passed : BOOLEAN, hip : 0..tree]
  <2>1. audit.results[i].passed BY <1>1 DEF Report
  <2>2. /\ audit.results[i].hip # 0
        /\ Before(audit.taken["hip"], audit.results[i].hip)
        /\ Before(audit.results[i].hip, disk["hip"])
    BY <1>1, <2>1 DEF Report, Tested
  <2>3. audit.results \in Seq(T) BY <1>1 DEF Report, Tested
  <2>4. audit.results[i].hip \in Nat
    <3> HIDE DEF T
    <3>1. audit.results[i] \in T BY <2>3, LenProperties, ElementOfSeq
    <3> QED BY <1>2, <3>1 DEF T
  <2>5. disk["hip"] \in Nat BY <1>2, <1>4
  <2> QED BY <1>3, <2>1, <2>2, <2>4, <2>5 DEF Before
<1>8. ASSUME NeedsMtp(need), audit.schema = 13 PROVE Compiled("mtp", disk)
  <2>1. "mtp" \in audit.ready BY <1>8 DEF AuditAccepts, Demanded
  <2>2. Compiled("mtp", audit.seen) BY <1>1, <1>8, <2>1 DEF Report
  <2>3. Carriers("mtp") = {"llama"} BY DEF Carriers
  <2> QED BY <1>5, <2>2, <2>3 DEF Compiled
<1>9. \A f \in Demanded(need) : Compiled(Repeated(f), disk) BY DEF AuditAccepts
<1>10. Len(audit.results) = 2 * Len(audit.asked.devices) BY <1>1 DEF Report
<1> QED BY <1>6, <1>7, <1>8, <1>9, <1>10

\* validate_rocm_audit never lets a build through that is not the one whose
\* libraries were looked at and whose kernels passed on every device asked for.
THEOREM AuditTrue == AuditSpec => []AuditIsTrue
<1>1. AuditInit => AuditInv BY AuditStarts
<1>2. AuditInv /\ [AuditNext]_audit_vars => AuditInv' BY AuditSteps
<1>3. AuditInv => AuditIsTrue BY AuditInvTrue
<1> QED BY <1>1, <1>2, <1>3, PTL DEF AuditSpec
-----------------------------------------------------------------------------
\* What the undisturbed audit of a complete build finds.
Whole(a) ==
  /\ a.asked.ops /\ a.asked.binary /\ \A f \in Files : a.seen[f] = a.source
  /\ Traits[a.source].dispatch /\ Traits[a.source].archs
  /\ {"mtp", "state"} \subseteq Traits[a.source].features
  /\ \A i \in DOMAIN a.results : a.results[i].passed

\* A report of this version is ready for everything a whole build has.
Complete(a) ==
  /\ a.source # 0
  /\ Whole(a) => {"model", "mtp"} \cup ({"host", "vision", "bypass"} \cap Traits[a.source].features)
                   \subseteq a.ready

UsableInv ==
  /\ source \in Nat \ {0}
  /\ audit # NoAudit /\ audit.schema = 13 => Complete(audit)

\* Every second of the first 2 * n numbers: there are n, from the first or the
\* second one on.
LEMMA EverySecond ==
  ASSUME NEW n \in Nat, NEW r \in {0, 1}
  PROVE  Cardinality({i \in 1..2 * n : (i - 1) % 2 = r}) = n
<1> DEFINE S == {i \in 1..2 * n : (i - 1) % 2 = r}
           F == [j \in 1..n |-> 2 * j - 1 + r]
<1>1. ASSUME NEW j \in 1..n PROVE 2 * j - 1 + r \in S
  <2>1. j \in Nat /\ 1 <= j /\ j <= n /\ r \in Nat /\ r <= 1 BY DEF S
  <2>2. 2 * j - 1 + r \in 1..2 * n BY <2>1
  <2>3. (2 * j - 1 + r - 1) % 2 = r BY <2>1
  <2> QED BY <2>2, <2>3
<1>2. \A j, k \in 1..n : 2 * j - 1 + r = 2 * k - 1 + r => j = k OBVIOUS
<1>3. ASSUME NEW i \in S PROVE \E j \in 1..n : 2 * j - 1 + r = i
  <2>1. i \in Nat /\ 1 <= i /\ i <= 2 * n /\ (i - 1) % 2 = r OBVIOUS
  <2> DEFINE j == (i + 1 - r) \div 2
  <2>2. i - 1 - r = 2 * ((i - 1) \div 2) BY <2>1
  <2> DEFINE q == (i - 1) \div 2
  <2>3. q \in Int BY <2>1
  <2>4. i - 1 - r = 2 * q BY <2>2
  <2> HIDE DEF q
  <2>5. q + 1 \in 1..n BY <2>1, <2>3, <2>4
  <2>6. 2 * (q + 1) - 1 + r = i BY <2>1, <2>3, <2>4
  <2> QED BY <2>5, <2>6
<1>4. F \in [1..n -> S] BY <1>1
<1>5. F \in Bijection(1..n, S)
  <2>1. \A j \in 1..n : F[j] = 2 * j - 1 + r OBVIOUS
  <2> HIDE DEF F, S
  <2>2. \A j, k \in 1..n : F[j] = F[k] => j = k BY <1>2, <2>1
  <2>3. \A i \in S : \E j \in 1..n : F[j] = i BY <1>3, <2>1
  <2> QED BY <1>4, <2>2, <2>3, Fun_IsBij
<1>6. ExistsBijection(1..n, S) BY <1>5 DEF ExistsBijection
<1> HIDE DEF S
<1>7. Cardinality(S) = n BY <1>6, FS_CountingElements
<1> QED BY <1>7 DEF S

\* The tests take turns: the standard type first, then the custom one.
LEMMA WantedTurns ==
  ASSUME NEW devices \in Seq(STRING), NEW i \in 1..2 * Len(devices)
  PROVE  /\ Wanted(devices, TRUE)[i].type = "q8_0" <=> (i - 1) % 2 = 0
         /\ Wanted(devices, TRUE)[i].type = "rocmfp4" <=> (i - 1) % 2 = 1
<1> DEFINE n == 2 * Len(devices)
           e(j) == [device |-> devices[((j - 1) \div 2) + 1], type |-> Types[((j - 1) % 2) + 1]]
<1>1. i \in Int /\ (i - 1) % 2 \in {0, 1}
  <2>1. Len(devices) \in Nat OBVIOUS
  <2> QED BY <2>1
<1>2. e(i).type = Types[((i - 1) % 2) + 1] OBVIOUS
<1>3. Wanted(devices, TRUE) = [j \in 1..n |-> e(j)] BY DEF Wanted
<1>4. Wanted(devices, TRUE)[i] = e(i)
  <2>1. i \in 1..n OBVIOUS
  <2> HIDE DEF e, n
  <2> QED BY <1>3, <2>1
<1>5. Types[1] = "q8_0" /\ Types[2] = "rocmfp4" BY DEF Types
<1> DEFINE r == (i - 1) % 2
<1>6. Wanted(devices, TRUE)[i].type = Types[r + 1] /\ r \in {0, 1} BY <1>1, <1>2, <1>4
<1> HIDE DEF r, e
<1>7. /\ r = 0 => Wanted(devices, TRUE)[i].type = "q8_0"
      /\ r = 1 => Wanted(devices, TRUE)[i].type = "rocmfp4"
  <2> DEFINE k == r + 1
  <2>1. r = 0 => k = 1 OBVIOUS
  <2>2. r = 1 => k = 2 OBVIOUS
  <2>3. Wanted(devices, TRUE)[i].type = Types[k] BY <1>6
  <2> HIDE DEF k
  <2> QED BY <1>5, <2>1, <2>2, <2>3
<1>8. /\ Wanted(devices, TRUE)[i].type = "q8_0" <=> r = 0
      /\ Wanted(devices, TRUE)[i].type = "rocmfp4" <=> r = 1
  BY <1>6, <1>7
<1> QED BY <1>8 DEF r

\* When all tests of the sources with the custom type ran and passed, both
\* types have passed on every device.
LEMMA BothPassed ==
  ASSUME asked.devices \in Seq(STRING), asked.ops, Traits[source].dispatch = TRUE,
         DOMAIN results = 1..2 * Len(asked.devices),
         \A i \in DOMAIN results : results[i].passed
  PROVE  Passed("q8_0") /\ Passed("rocmfp4")
<1> DEFINE n == Len(asked.devices)
           w == Wanted(asked.devices, TRUE)
<1>1. n \in Nat OBVIOUS
<1>2. {i \in 1..2 * n : w[i].type = "q8_0"} = {i \in 1..2 * n : (i - 1) % 2 = 0}
  BY WantedTurns
<1>3. {i \in 1..2 * n : w[i].type = "rocmfp4"} = {i \in 1..2 * n : (i - 1) % 2 = 1}
  BY WantedTurns
<1>4. /\ Cardinality({i \in 1..2 * n : w[i].type = "q8_0"}) = n
      /\ Cardinality({i \in 1..2 * n : w[i].type = "rocmfp4"}) = n
  <2> HIDE DEF w, n
  <2>1. Cardinality({i \in 1..2 * n : (i - 1) % 2 = 0}) = n BY <1>1, EverySecond
  <2>2. Cardinality({i \in 1..2 * n : (i - 1) % 2 = 1}) = n BY <1>1, EverySecond
  <2> QED BY <1>2, <1>3, <2>1, <2>2
<1>5. Wanted(asked.devices, Traits[source].dispatch) = w OBVIOUS
<1>6. \A type \in {"q8_0", "rocmfp4"} :
        Passed(type) <=> /\ asked.ops
                         /\ Cardinality({i \in DOMAIN results : w[i].type = type}) = n
                         /\ \A i \in {i \in DOMAIN results : w[i].type = type} : results[i].passed
  BY <1>5 DEF Passed
<1> QED BY <1>4, <1>6

\* A report that is written now is ready for all that a whole build has.
LEMMA WrittenComplete ==
  ASSUME AuditInv, UsableInv, WriteAudit
  PROVE  Complete(audit)'
<1>1. /\ audit'.seen = seen /\ audit'.results = results /\ audit'.source = source
      /\ audit'.asked = asked /\ audit'.ready = Ready
  BY DEF WriteAudit
<1>2. apc = "test" /\ ~Unfinished BY DEF WriteAudit
<1>3. source \in Nat \ {0} BY DEF UsableInv
<1>4. ASSUME Whole([asked |-> asked, seen |-> seen, source |-> source, results |-> results])
      PROVE  {"model", "mtp"} \cup ({"host", "vision", "bypass"} \cap Traits[source].features)
               \subseteq Ready
  <2>1. /\ asked.ops /\ asked.binary /\ \A f \in Files : seen[f] = source
        /\ Traits[source].dispatch /\ Traits[source].archs
        /\ {"mtp", "state"} \subseteq Traits[source].features
        /\ \A i \in DOMAIN results : results[i].passed
    BY <1>4 DEF Whole
  <2>2. asked.devices \in Seq(STRING) /\ Len(asked.devices) \in Nat BY DEF AuditInv
  <2>3. Wanted(asked.devices, Traits[source].dispatch) = Wanted(asked.devices, TRUE)
    BY <2>1 DEF Wanted
  <2>4. Len(Wanted(asked.devices, TRUE)) = 2 * Len(asked.devices) BY <2>2, WantedTwice
  <2>5. DOMAIN results = 1..2 * Len(asked.devices)
    <3>1. results \in Seq([passed : BOOLEAN, hip : 0..tree]) BY DEF AuditInv, Tested
    <3>2. Len(results) \in Nat /\ DOMAIN results = 1..Len(results) BY <3>1, LenProperties
    <3>3. Len(results) <= 2 * Len(asked.devices) BY <1>2, <2>3, <2>4 DEF AuditInv
    <3>4. ~(Len(results) < 2 * Len(asked.devices)) BY <1>2, <2>1, <2>3, <2>4 DEF Unfinished
    <3> DEFINE n == Len(results)
               m == Len(asked.devices)
    <3>5. n \in Nat /\ m \in Nat /\ n <= 2 * m /\ ~(n < 2 * m) BY <2>2, <3>2, <3>3, <3>4
    <3> HIDE DEF n, m
    <3>6. n = 2 * m BY <3>5
    <3> QED BY <3>2, <3>6 DEF n, m
  <2>6. Passed("q8_0") /\ Passed("rocmfp4") BY <2>1, <2>2, <2>5, BothPassed
  <2>7. \A f \in Files : seen[f] # 0 /\ seen[f] = source BY <1>3, <2>1
  <2>8. DualArch(seen) BY <2>1, <2>7 DEF DualArch, Files
  <2>9. ReadyModel BY <2>1, <2>6, <2>8 DEF ReadyModel
  <2>10. \A feature : Carriers(feature) \subseteq Files BY DEF Carriers, Files
  <2>11. \A feature \in Traits[source].features : Proven(feature)
    BY <2>7, <2>10 DEF Proven, SourceReady, Compiled
  <2>12. ReadyMtp BY <2>1, <2>9, <2>11 DEF ReadyMtp
  <2> QED BY <2>9, <2>11, <2>12 DEF Ready
<1>5. Whole(audit)' => Whole([asked |-> asked, seen |-> seen, source |-> source, results |-> results])
  BY <1>1 DEF Whole
<1>6. audit'.source # 0 BY <1>1, <1>3
<1>7. Whole(audit)' => {"model", "mtp"} \cup ({"host", "vision", "bypass"}
                                               \cap Traits[audit'.source].features)
                         \subseteq audit'.ready
  BY <1>1, <1>4, <1>5
<1> QED BY <1>6, <1>7 DEF Complete, Whole

\* No action but the writing of a report changes what reports have.
LEMMA UsableStep ==
  ASSUME AuditInv, UsableInv, [AuditNext]_audit_vars
  PROVE  UsableInv'
<1>1. ASSUME audit' = audit PROVE (audit # NoAudit /\ audit.schema = 13 => Complete(audit))'
  BY <1>1 DEF UsableInv, Complete, Whole, NoAudit
<1>2. ASSUME source' \in {source, tree, 1} PROVE source' \in Nat \ {0}
  BY <1>2 DEF AuditInv, UsableInv
<1>3. CASE WriteAudit
  <2>1. source' = 1 BY <1>3 DEF WriteAudit, AuditEnd
  <2> QED BY <1>2, <1>3, <2>1, WrittenComplete DEF UsableInv
<1>4. CASE ~WriteAudit
  <2>1. audit' = audit
    BY <1>4 DEF AuditNext, Edit, Build, AuditStart, Inspect, Test, AuditAbort, audit_vars
  <2>2. source' \in {source, tree, 1}
    BY <1>4 DEF AuditNext, Edit, Build, AuditStart, Inspect, Test, AuditAbort, AuditEnd,
                audit_vars
  <2> QED BY <1>1, <1>2, <2>1, <2>2 DEF UsableInv
<1> QED BY <1>3, <1>4

\* The gate asks for nothing that a whole build does not have.
LEMMA WholeAccepted ==
  ASSUME UsableInv, NEW need \in Needs,
         audit # NoAudit, audit.schema = 13, Whole(audit),
         \A f \in Files : /\ disk[f] = audit.source
                          /\ audit.taken[f] = disk[f] /\ audit.seen[f] = disk[f],
         need \subseteq Traits[audit.source].features
  PROVE  AuditAccepts(need)
<1>1. /\ audit.source # 0
      /\ {"model", "mtp"} \cup ({"host", "vision", "bypass"} \cap Traits[audit.source].features)
           \subseteq audit.ready
  BY DEF UsableInv, Complete
<1>2. \A f \in FingerprintKeys(need) : audit.taken[f] # 0 /\ audit.taken[f] = disk[f]
  BY <1>1 DEF FingerprintKeys, Files
<1>3. \A feature : Carriers(feature) \subseteq Files BY DEF Carriers, Files
<1>4. \A feature \in Traits[audit.source].features : Compiled(feature, disk)
  BY <1>1, <1>3 DEF Compiled
<1>5. {"mtp", "state"} \subseteq Traits[audit.source].features BY DEF Whole
<1>6. ASSUME NEW f \in Demanded(need)
      PROVE  audit.schema >= FirstSchema(f) /\ Compiled(Repeated(f), disk) /\ f \in audit.ready
  <2>1. f \in {"mtp", "host", "vision", "bypass"} /\ f \in Traits[audit.source].features
    BY <1>5 DEF Demanded, Needs
  <2>2. audit.schema >= FirstSchema(f) BY <2>1 DEF FirstSchema
  <2>3. Compiled(Repeated(f), disk) BY <1>4, <1>5, <2>1 DEF Repeated
  <2> QED BY <1>1, <2>1, <2>2, <2>3
<1> QED BY <1>1, <1>2, <1>6 DEF AuditAccepts

\* validate_rocm_audit is not only strict: an undisturbed audit of a complete
\* build whose kernels passed lets every run through that the build can do.
THEOREM AuditIsUsable == AuditSpec => []AuditUsable
<1>1. AuditInit => AuditInv /\ UsableInv
  <2>1. AuditInit => UsableInv
    <3> SUFFICES ASSUME AuditInit PROVE UsableInv OBVIOUS
    <3>1. source = 1 BY DEF AuditInit
    <3>2. audit # NoAudit => audit.schema # 13 BY DEF AuditInit, OldAudit
    <3> QED BY <3>1, <3>2 DEF UsableInv
  <2> QED BY <2>1, AuditStarts
<1>2. (AuditInv /\ UsableInv) /\ [AuditNext]_audit_vars => (AuditInv /\ UsableInv)'
  BY AuditSteps, UsableStep
<1>3. AuditInv /\ UsableInv => AuditUsable BY WholeAccepted DEF AuditUsable, Whole
<1> QED BY <1>1, <1>2, <1>3, PTL DEF AuditSpec

-----------------------------------------------------------------------------
(***************************************************************************)
(* For every set of jobs and layouts: a verified output of                 *)
(* qwen_strix_quant.py is its own, and nothing finished is overwritten.    *)
(* Two things carry the argument: the directory has one owner from mkdir   *)
(* to the end of its job, and two jobs that run at once both know it.      *)
(***************************************************************************)

States == {"absent", "partial", "done"}
Phases == {"idle", "checked", "made", "tool", "verify", "verify-only", "left", "orphan",
           "done", "passed", "refused", "failed", "killed"}

QuantTypeOK ==
  /\ file \in [Kinds -> [state : States, by : SUBSET Jobs, layout : Layouts \cup {0}]]
  /\ strix_dir \in BOOLEAN
  /\ phase \in [Jobs -> Phases]
  /\ command \in [Jobs -> Kinds]
  /\ before \in [Jobs -> Layouts \cup {0}]
  /\ overlapped \subseteq Jobs

\* j, or the tool it has left behind, works in the directory it has made.
Owns(j) ==
  command[j] = "strix" /\ phase[j] \in {"made", "tool", "verify", "left", "orphan"}

\* The directory has one owner at most, who is the only writer of its output.
OneOwner ==
  /\ ~strix_dir => file["strix"] = Absent
  /\ \A j \in Jobs :
       /\ phase[j] \in {"made", "verify", "verify-only"} => command[j] = "strix"
       /\ Owns(j) => strix_dir /\ \A i \in Jobs : Owns(i) => i = j
       /\ Owns(j) /\ phase[j] \in {"made", "left"} => file["strix"] = Absent
       /\ Owns(j) /\ phase[j] \in {"tool", "orphan"}
            => file["strix"].state = "partial" /\ file["strix"].by = {j}
       /\ Owns(j) /\ phase[j] = "verify" => Finished("strix") /\ file["strix"].by = {j}

\* Two jobs that run at once are both noted, and an output that appeared behind
\* the back of a job came from one of them.
Noted ==
  /\ \A i, j \in Jobs : i # j /\ Running(i) /\ Running(j) => j \in overlapped
  /\ \A j \in Jobs : phase[j] \in {"checked", "left"} /\ command[j] # "strix"
       => file[command[j]].state = "absent" \/ j \in overlapped

QuantInv == QuantTypeOK /\ OneOwner /\ Noted
-----------------------------------------------------------------------------
\* Nothing is there and nobody runs when the commands are first used.
THEOREM QuantStarts == QuantInit => QuantInv
<1> SUFFICES ASSUME QuantInit PROVE QuantInv OBVIOUS
<1>1. QuantTypeOK BY DEF QuantInit, QuantTypeOK, Kinds, Phases, States, Absent
<1>2. OneOwner BY DEF QuantInit, OneOwner, Owns, Kinds
<1>3. Noted BY DEF QuantInit, Noted, Running
<1> QED BY <1>1, <1>2, <1>3 DEF QuantInv

-----------------------------------------------------------------------------
\* A job that begins is noted beside those that run, and owns nothing yet.
LEMMA Begun ==
  ASSUME QuantInv, NEW j \in Jobs, NEW k \in Kinds, NEW p \in {"checked", "verify-only"},
         phase[j] = "idle", phase' = [phase EXCEPT ![j] = p],
         command' = [command EXCEPT ![j] = k],
         before' = [before EXCEPT ![j] = file["source"].layout],
         Overlap(j), UNCHANGED <<file, strix_dir>>,
         p = "checked" /\ k # "strix" => file[k].state = "absent",
         p = "verify-only" => k = "strix"
  PROVE  QuantInv'
<1>1. QuantTypeOK'
  BY DEF QuantInv, QuantTypeOK, Kinds, Phases, Overlap, Beside
<1>2. OneOwner'
  <2>1. \A i \in Jobs : Owns(i)' <=> Owns(i) BY DEF QuantInv, QuantTypeOK, Owns
  <2> QED BY <2>1 DEF QuantInv, QuantTypeOK, OneOwner, Owns, Finished
<1>3. Noted'
  <2>1. \A i \in Jobs \ {j} : Running(i)' <=> Running(i) BY DEF QuantInv, QuantTypeOK, Running
  <2>2. overlapped' = overlapped \cup Beside(j) \cup {i \in {j} : Beside(j) # {}}
    BY DEF Overlap
  <2>3. ASSUME NEW a \in Jobs, NEW b \in Jobs, a # b, Running(a)', Running(b)'
        PROVE  b \in overlapped'
    <3>1. CASE a = j BY <2>1, <2>2, <2>3, <3>1 DEF Beside
    <3>2. CASE b = j BY <2>1, <2>2, <2>3, <3>2 DEF Beside
    <3>3. CASE a # j /\ b # j BY <2>1, <2>2, <2>3, <3>3 DEF QuantInv, Noted
    <3> QED BY <3>1, <3>2, <3>3
  <2>4. ASSUME NEW i \in Jobs, phase'[i] \in {"checked", "left"}, command'[i] # "strix"
        PROVE  file'[command'[i]].state = "absent" \/ i \in overlapped'
    <3>1. CASE i = j BY <2>4, <3>1 DEF QuantInv, QuantTypeOK
    <3>2. CASE i # j BY <2>2, <2>4, <3>2 DEF QuantInv, QuantTypeOK, Noted
    <3> QED BY <3>1, <3>2
  <2> QED BY <2>3, <2>4 DEF Noted
<1> QED BY <1>1, <1>2, <1>3 DEF QuantInv

\* A job that ends gives up what it owned.
LEMMA EndsNow ==
  ASSUME QuantInv, NEW j \in Jobs,
         NEW p \in {"done", "passed", "refused", "failed", "killed"},
         phase' = [phase EXCEPT ![j] = p], overlapped' = overlapped,
         command' \in [Jobs -> Kinds], before' \in [Jobs -> Layouts \cup {0}],
         \A i \in Jobs \ {j} : command'[i] = command[i],
         UNCHANGED <<file, strix_dir>>
  PROVE  QuantInv'
<1>1. QuantTypeOK' BY DEF QuantInv, QuantTypeOK, Phases
<1>2. ~Owns(j)' /\ \A i \in Jobs \ {j} : Owns(i)' <=> Owns(i)
  BY DEF QuantInv, QuantTypeOK, Owns
<1>3. OneOwner' BY <1>2 DEF QuantInv, QuantTypeOK, OneOwner, Finished
<1>4. Noted' BY DEF QuantInv, QuantTypeOK, Noted, Running
<1> QED BY <1>1, <1>3, <1>4 DEF QuantInv

\* mkdir gives the directory to one job, and it is empty.
LEMMA Made ==
  ASSUME QuantInv, NEW j \in Jobs, MakeDirectory(j)
  PROVE  QuantInv'
<1>1. CASE strix_dir
  <2>1. phase' = [phase EXCEPT ![j] = "failed"] BY <1>1 DEF MakeDirectory
  <2> QED BY <1>1, <2>1, EndsNow DEF MakeDirectory, QuantInv, QuantTypeOK
<1>2. CASE ~strix_dir
  <2>1. /\ phase' = [phase EXCEPT ![j] = "made"] /\ strix_dir' = TRUE /\ command[j] = "strix"
        /\ phase[j] = "checked" /\ UNCHANGED <<file, command, before, overlapped>>
    BY <1>2 DEF MakeDirectory
  <2>2. QuantTypeOK' BY <2>1 DEF QuantInv, QuantTypeOK, Phases
  <2>3. \A i \in Jobs \ {j} : ~Owns(i) /\ ~Owns(i)'
    BY <1>2, <2>1 DEF QuantInv, QuantTypeOK, OneOwner, Owns
  <2>4. file'["strix"] = Absent BY <1>2, <2>1 DEF QuantInv, OneOwner
  <2>5. OneOwner' BY <2>1, <2>3, <2>4 DEF QuantInv, QuantTypeOK, OneOwner, Owns, Finished
  <2>6. Noted' BY <2>1 DEF QuantInv, QuantTypeOK, Noted, Running
  <2> QED BY <2>2, <2>5, <2>6 DEF QuantInv
<1> QED BY <1>1, <1>2 DEF QuantInv, QuantTypeOK

\* The tool starts the output anew; that of the directory has no other writer.
LEMMA ToolStarted ==
  ASSUME QuantInv, NEW j \in Jobs, ToolStart(j)
  PROVE  QuantInv'
<1> DEFINE k == command[j]
           writers == {i \in Jobs : phase[i] \in {"tool", "orphan"} /\ command[i] = k}
<1>3. k \in Kinds /\ writers \cup {j} \subseteq Jobs BY DEF QuantInv, QuantTypeOK
<1>1. PICK layout \in Layouts \cup {0} :
        file' = [file EXCEPT ![k] = [state |-> "partial", by |-> writers \cup {j},
                                     layout |-> layout]]
  <2>1. LayoutsOf(k) \subseteq Layouts \cup {0} BY <1>3 DEF LayoutsOf, Kinds
  <2>2. PICK layout \in LayoutsOf(k) :
          file' = [file EXCEPT ![k] = [state |-> "partial", by |-> writers \cup {j},
                                       layout |-> layout]]
    BY DEF ToolStart
  <2>3. layout \in Layouts \cup {0} BY <2>1, <2>2
  <2> HIDE DEF k, writers
  <2> QED BY <2>2, <2>3
<1>2. /\ phase' = [phase EXCEPT ![j] = IF @ = "left" THEN "orphan" ELSE "tool"]
      /\ UNCHANGED <<strix_dir, command, before, overlapped>>
      /\ phase[j] = "left" \/ phase[j] = (IF k = "strix" THEN "made" ELSE "checked")
  BY DEF ToolStart
<1>4. QuantTypeOK' BY <1>1, <1>2, <1>3 DEF QuantInv, QuantTypeOK, Phases, States
<1>5. OneOwner'
  <2>1. \A i \in Jobs : Owns(i)' <=> Owns(i) BY <1>2 DEF QuantInv, QuantTypeOK, Owns
  <2>2. CASE k = "strix"
    <3>1. Owns(j) BY <1>2, <2>2 DEF Owns
    <3>2. \A i \in Jobs : Owns(i) => i = j BY <3>1 DEF QuantInv, OneOwner
    <3>3. writers = {} BY <1>2, <2>2, <3>2 DEF Owns
    <3>4. "strix" \in DOMAIN file BY DEF QuantInv, QuantTypeOK, Kinds
    <3>5. file'["strix"].state = "partial" /\ file'["strix"].by = {j}
      BY <1>1, <2>2, <3>3, <3>4
    <3>6. strix_dir' BY <1>2, <3>1 DEF QuantInv, OneOwner
    <3>7. ASSUME NEW i \in Jobs
          PROVE  /\ phase'[i] \in {"made", "verify", "verify-only"} => command'[i] = "strix"
                 /\ Owns(i)' => strix_dir' /\ \A h \in Jobs : Owns(h)' => h = i
                 /\ Owns(i)' => phase'[i] \in {"tool", "orphan"} /\ i = j
      BY <1>2, <2>1, <3>2, <3>6 DEF QuantInv, QuantTypeOK, OneOwner
    <3> QED BY <3>5, <3>6, <3>7 DEF OneOwner
  <2>3. CASE k # "strix"
    <3>1. file'["strix"] = file["strix"] BY <1>1, <2>3 DEF QuantInv, QuantTypeOK, Kinds
    <3>2. ~Owns(j) BY <2>3 DEF Owns
    <3> QED BY <1>2, <2>1, <3>1, <3>2 DEF QuantInv, QuantTypeOK, OneOwner, Finished
  <2> QED BY <2>2, <2>3
<1>6. Noted'
  <2>1. \A i \in Jobs : Running(i)' <=> Running(i) BY <1>2 DEF QuantInv, QuantTypeOK, Running
  <2>2. Running(j) BY <1>2 DEF Running
  <2>3. ASSUME NEW i \in Jobs, phase'[i] \in {"checked", "left"}, command'[i] # "strix"
        PROVE  file'[command'[i]].state = "absent" \/ i \in overlapped'
    <3>1. i # j /\ phase[i] \in {"checked", "left"} BY <1>2, <2>3 DEF QuantInv, QuantTypeOK
    <3>2. i \in overlapped BY <2>2, <3>1 DEF QuantInv, Noted, Running
    <3> QED BY <1>2, <3>2
  <2> QED BY <1>2, <2>1, <2>3 DEF QuantInv, Noted
<1> QED BY <1>4, <1>5, <1>6 DEF QuantInv

\* The tool of the owner leaves a finished output behind.
LEMMA ToolEnded ==
  ASSUME QuantInv, NEW j \in Jobs, ToolEnds(j)
  PROVE  QuantInv'
<1> DEFINE k == command[j]
<1>1. /\ phase[j] \in {"tool", "orphan"}
      /\ file' = [file EXCEPT ![k].state = IF @ = "absent" THEN "absent" ELSE "done"]
      /\ phase' = [phase EXCEPT ![j] = IF @ = "orphan" THEN "killed"
                                      ELSE IF k = "strix" THEN "verify" ELSE "done"]
      /\ UNCHANGED <<strix_dir, command, before, overlapped>>
  BY DEF ToolEnds
<1>2. k \in Kinds BY DEF QuantInv, QuantTypeOK
<1>3. QuantTypeOK'
  <2>1. file' \in [Kinds -> [state : States, by : SUBSET Jobs, layout : Layouts \cup {0}]]
    <3>1. file' = [file EXCEPT ![k].state = IF @ = "absent" THEN "absent" ELSE "done"]
      BY <1>1
    <3> HIDE DEF k
    <3> QED BY <1>2, <3>1 DEF QuantInv, QuantTypeOK, States
  <2> QED BY <1>1, <2>1 DEF QuantInv, QuantTypeOK, Phases
<1>4. OneOwner'
  <2>1. /\ \A i \in Jobs \ {j} : Owns(i)' <=> Owns(i)
        /\ Owns(j)' => Owns(j)
    BY <1>1 DEF QuantInv, QuantTypeOK, Owns
  <2>2. CASE k = "strix"
    <3>1. Owns(j) BY <1>1, <2>2 DEF Owns
    <3>2. file["strix"].state = "partial" /\ file["strix"].by = {j} /\ strix_dir
      BY <1>1, <3>1 DEF QuantInv, OneOwner
    <3>3. file'["strix"].state = "done" /\ file'["strix"].by = {j}
      BY <1>1, <1>2, <2>2, <3>2 DEF QuantInv, QuantTypeOK
    <3>4. \A i \in Jobs : Owns(i) => i = j BY <3>1 DEF QuantInv, OneOwner
    <3>5. phase'[j] \in {"verify", "killed"} BY <1>1, <2>2 DEF QuantInv, QuantTypeOK
    <3>6. \A i \in Jobs : phase'[i] \in {"made", "verify", "verify-only"} => command'[i] = "strix"
      BY <1>1, <2>2 DEF QuantInv, QuantTypeOK, OneOwner
    <3> QED BY <1>1, <2>1, <3>2, <3>3, <3>4, <3>5, <3>6 DEF OneOwner, Finished
  <2>3. CASE k # "strix"
    <3>1. file'["strix"] = file["strix"] BY <1>1, <1>2, <2>3 DEF QuantInv, QuantTypeOK, Kinds
    <3>2. ~Owns(j) BY <2>3 DEF Owns
    <3> QED BY <1>1, <2>1, <2>3, <3>1, <3>2 DEF QuantInv, QuantTypeOK, OneOwner, Finished
  <2> QED BY <2>2, <2>3
<1>5. Noted'
  <2>1. \A i \in Jobs : Running(i)' => Running(i) BY <1>1 DEF QuantInv, QuantTypeOK, Running
  <2>2. Running(j) BY <1>1 DEF Running
  <2>3. ASSUME NEW i \in Jobs, phase'[i] \in {"checked", "left"}, command'[i] # "strix"
        PROVE  file'[command'[i]].state = "absent" \/ i \in overlapped'
    <3>1. i # j /\ phase[i] \in {"checked", "left"} BY <1>1, <2>3 DEF QuantInv, QuantTypeOK
    <3>2. i \in overlapped BY <2>2, <3>1 DEF QuantInv, Noted, Running
    <3> QED BY <1>1, <3>2
  <2> QED BY <1>1, <2>1, <2>3 DEF QuantInv, Noted
<1> QED BY <1>3, <1>4, <1>5 DEF QuantInv

\* An output is removed while nobody works on it but tools that were left behind,
\* which have no output from then on.
LEMMA Removed ==
  ASSUME QuantInv, NEW k \in Kinds, RemoveOutput(k)
  PROVE  QuantInv'
<1>1. /\ \A j \in Jobs : Running(j) /\ command[j] = k => phase[j] = "orphan"
      /\ file' = [file EXCEPT ![k] = Absent] /\ strix_dir' = (strix_dir /\ k # "strix")
      /\ UNCHANGED <<command, before, overlapped>>
      /\ phase' = [j \in Jobs |-> IF phase[j] = "orphan" /\ command[j] = k
                                  THEN "killed" ELSE phase[j]]
  BY DEF RemoveOutput
<1>2. Absent \in [state : States, by : SUBSET Jobs, layout : Layouts \cup {0}]
  BY DEF Absent, States
<1>3. QuantTypeOK' BY <1>1, <1>2 DEF QuantInv, QuantTypeOK, Phases
<1>4. OneOwner'
  <2>1. \A i \in Jobs : phase'[i] = phase[i] \/ (phase'[i] = "killed" /\ command[i] = k)
    BY <1>1
  <2>2. \A i \in Jobs : Owns(i)' => Owns(i) /\ phase'[i] = phase[i] BY <1>1, <2>1 DEF Owns
  <2>3. CASE k = "strix"
    <3>1. \A i \in Jobs : ~Owns(i)' BY <1>1, <2>3 DEF Owns, Running
    <3>2. file'["strix"] = Absent BY <1>1, <2>3 DEF QuantInv, QuantTypeOK, Kinds
    <3> QED BY <1>1, <2>1, <3>1, <3>2 DEF QuantInv, OneOwner
  <2>4. CASE k # "strix"
    <3>1. file'["strix"] = file["strix"] /\ strix_dir' = strix_dir
      BY <1>1, <2>4 DEF QuantInv, QuantTypeOK, Kinds
    <3> QED BY <1>1, <2>1, <2>2, <3>1 DEF QuantInv, OneOwner, Finished
  <2> QED BY <2>3, <2>4
<1>5. Noted'
  <2>1. \A i \in Jobs : Running(i)' => Running(i) BY <1>1 DEF Running
  <2>2. \A i \in Jobs : phase'[i] \in {"checked", "left"} => phase'[i] = phase[i] BY <1>1
  <2>3. \A i \in Jobs : file'[command[i]].state \in {file[command[i]].state, "absent"}
    BY <1>1 DEF QuantInv, QuantTypeOK, Absent
  <2> QED BY <1>1, <2>1, <2>2, <2>3 DEF QuantInv, Noted
<1> QED BY <1>3, <1>4, <1>5 DEF QuantInv

\* A tool that loses its command keeps what the two of them had.
LEMMA CommandKilled ==
  ASSUME QuantInv, NEW j \in Jobs, KillCommand(j)
  PROVE  QuantInv'
<1>1. UNCHANGED <<file, strix_dir, command, before, overlapped>> BY DEF KillCommand
<1>2. PICK p \in {"orphan", "left"} :
        /\ phase' = [phase EXCEPT ![j] = p]
        /\ p = "orphan" => phase[j] = "tool"
        /\ p = "left" => phase[j] = (IF command[j] = "strix" THEN "made" ELSE "checked")
  BY DEF KillCommand
<1>3. QuantTypeOK' BY <1>1, <1>2 DEF QuantInv, QuantTypeOK, Phases
<1>4. OneOwner'
  <2>1. \A i \in Jobs : Owns(i)' <=> Owns(i)
    BY <1>1, <1>2 DEF QuantInv, QuantTypeOK, Owns
  <2> QED BY <1>1, <1>2, <2>1 DEF QuantInv, QuantTypeOK, OneOwner, Owns, Finished
<1>5. Noted' BY <1>1, <1>2 DEF QuantInv, QuantTypeOK, Noted, Running
<1> QED BY <1>3, <1>4, <1>5 DEF QuantInv

-----------------------------------------------------------------------------
\* Every command of every job, and the operator, keep the owner of the directory
\* and the note of who ran beside whom.
THEOREM QuantSteps == QuantInv /\ [QuantNext]_quant_vars => QuantInv'
<1> SUFFICES ASSUME QuantInv, [QuantNext]_quant_vars PROVE QuantInv' OBVIOUS
<1>1. ASSUME NEW j \in Jobs, Check(j) PROVE QuantInv'
  <2>1. PICK k \in Kinds :
          /\ command' = [command EXCEPT ![j] = k]
          /\ before' = [before EXCEPT ![j] = file["source"].layout]
          /\ IF MayStart(k)
             THEN phase' = [phase EXCEPT ![j] = "checked"] /\ Overlap(j)
             ELSE phase' = [phase EXCEPT ![j] = "refused"] /\ UNCHANGED overlapped
    BY <1>1 DEF Check
  <2>2. phase[j] = "idle" /\ UNCHANGED <<file, strix_dir>> BY <1>1 DEF Check
  <2>3. before' \in [Jobs -> Layouts \cup {0}] /\ command' \in [Jobs -> Kinds]
    BY <2>1 DEF QuantInv, QuantTypeOK, Kinds
  <2>4. CASE MayStart(k)
    <3>1. k # "strix" => file[k].state = "absent" BY <2>4 DEF MayStart, Kinds
    <3>2. phase' = [phase EXCEPT ![j] = "checked"] /\ Overlap(j) BY <2>1, <2>4
    <3> QED BY <2>1, <2>2, <3>1, <3>2, Begun
  <2>5. CASE ~MayStart(k)
    <3>1. phase' = [phase EXCEPT ![j] = "refused"] /\ overlapped' = overlapped BY <2>1, <2>5
    <3>2. \A i \in Jobs \ {j} : command'[i] = command[i] BY <2>1 DEF QuantInv, QuantTypeOK
    <3> QED BY <2>2, <2>3, <3>1, <3>2, EndsNow
  <2> QED BY <2>4, <2>5
<1>2. ASSUME NEW j \in Jobs, MakeDirectory(j) PROVE QuantInv' BY <1>2, Made
<1>3. ASSUME NEW j \in Jobs, ToolStart(j) PROVE QuantInv' BY <1>3, ToolStarted
<1>4. ASSUME NEW j \in Jobs, ToolEnds(j) PROVE QuantInv' BY <1>4, ToolEnded
<1>5. ASSUME NEW j \in Jobs, ToolFails(j) PROVE QuantInv'
  BY <1>5, EndsNow DEF ToolFails, QuantInv, QuantTypeOK
<1>6. ASSUME NEW j \in Jobs, VerifyOnly(j) PROVE QuantInv'
  <2>1. "strix" \in Kinds BY DEF Kinds
  <2> QED BY <1>6, <2>1, Begun DEF VerifyOnly
<1>7. ASSUME NEW j \in Jobs, Verify(j) PROVE QuantInv'
  BY <1>7, EndsNow DEF Verify, QuantInv, QuantTypeOK
<1>8. ASSUME NEW j \in Jobs, Kill(j) PROVE QuantInv'
  BY <1>8, EndsNow DEF Kill, QuantInv, QuantTypeOK
<1>9. ASSUME NEW k \in Kinds, RemoveOutput(k) PROVE QuantInv' BY <1>9, Removed
<1>10. ASSUME NEW j \in Jobs, KillCommand(j) PROVE QuantInv' BY <1>10, CommandKilled
<1>11. CASE UNCHANGED quant_vars
  BY <1>11 DEF quant_vars, QuantInv, QuantTypeOK, OneOwner, Noted, Owns, Finished, Running
<1> QED BY <1>1, <1>2, <1>3, <1>4, <1>5, <1>6, <1>7, <1>8, <1>9, <1>10, <1>11 DEF QuantNext

\* qwen_strix_quant.py says that an output is good only of the output it made
\* itself, which is complete.
THEOREM VerifiedIsOurs == QuantSpec => PassIsOurs
<1>1. QuantInit => QuantInv BY QuantStarts
<1>2. QuantInv /\ [QuantNext]_quant_vars => QuantInv' BY QuantSteps
<1>3. QuantInv /\ [QuantNext]_quant_vars =>
        [\A j \in Jobs : phase[j] = "verify" /\ phase'[j] = "passed" =>
           Finished("strix") /\ file["strix"].by = {j}]_quant_vars
  <2> SUFFICES ASSUME QuantInv, NEW j \in Jobs, phase[j] = "verify"
               PROVE  Finished("strix") /\ file["strix"].by = {j}
    BY DEF quant_vars
  <2>1. Owns(j) BY DEF QuantInv, OneOwner, Owns
  <2> QED BY <2>1 DEF QuantInv, OneOwner
<1> QED BY <1>1, <1>2, <1>3, PTL DEF QuantSpec, PassIsOurs

\* No command overwrites a finished output, but for two commands of qwen_quant.py
\* that ran at once, or beside a tool that one of them had left behind.
THEOREM NothingLost == QuantSpec => NothingOverwritten
<1>1. QuantInit => QuantInv BY QuantStarts
<1>2. QuantInv /\ [QuantNext]_quant_vars => QuantInv' BY QuantSteps
<1>3. QuantInv /\ [QuantNext]_quant_vars =>
        [\A k \in Kinds : Finished(k) /\ file'[k] # file[k] =>
           \/ file'[k] = Absent
           \/ k # "strix" /\ \E j \in overlapped : command[j] = k]_quant_vars
  <2> SUFFICES ASSUME QuantInv, QuantNext, NEW k \in Kinds, Finished(k), file'[k] # file[k],
                      file'[k] # Absent
               PROVE  k # "strix" /\ \E j \in overlapped : command[j] = k
    BY DEF quant_vars
  <2>1. file \in [Kinds -> [state : States, by : SUBSET Jobs, layout : Layouts \cup {0}]]
    BY DEF QuantInv, QuantTypeOK
  <2>2. PICK j \in Jobs : ToolStart(j)
    <3>1. \A j \in Jobs : ~Check(j) /\ ~MakeDirectory(j) /\ ~ToolFails(j) /\ ~VerifyOnly(j)
                          /\ ~Verify(j) /\ ~Kill(j) /\ ~KillCommand(j)
      BY DEF Check, MakeDirectory, ToolFails, VerifyOnly, Verify, Kill, KillCommand
    <3>2. \A j \in Jobs : ~ToolEnds(j)
      <4> SUFFICES ASSUME NEW j \in Jobs, ToolEnds(j) PROVE FALSE OBVIOUS
      <4>1. file' = [file EXCEPT ![command[j]].state = IF @ = "absent" THEN "absent" ELSE "done"]
        BY DEF ToolEnds
      <4>2. command[j] = k BY <2>1, <4>1
      <4>3. file[k].state = "done" BY DEF Finished
      <4>4. file'[k] = [file[k] EXCEPT !.state = "done"] BY <2>1, <4>1, <4>2, <4>3
      <4> QED BY <2>1, <4>3, <4>4
    <3>3. \A h \in Kinds : ~RemoveOutput(h) BY <2>1 DEF RemoveOutput
    <3> QED BY <3>1, <3>2, <3>3 DEF QuantNext
  <2>3. command[j] = k BY <2>1, <2>2 DEF ToolStart
  <2>4. k # "strix"
    <3> SUFFICES ASSUME k = "strix" PROVE FALSE OBVIOUS
    <3>1. phase[j] \in {"made", "left"} BY <2>2, <2>3 DEF ToolStart
    <3>2. file["strix"] = Absent BY <2>3, <3>1 DEF QuantInv, OneOwner, Owns
    <3> QED BY <3>2 DEF Finished, Absent
  <2>5. j \in overlapped
    <3>1. phase[j] \in {"checked", "left"} BY <2>2, <2>3, <2>4 DEF ToolStart
    <3> QED BY <2>3, <2>4, <3>1 DEF QuantInv, Noted, Finished
  <2> QED BY <2>3, <2>4, <2>5
<1> QED BY <1>1, <1>2, <1>3, PTL DEF QuantSpec, NothingOverwritten

-----------------------------------------------------------------------------
(***************************************************************************)
(* For every target, tokenizer and number of tries: the search for a       *)
(* prompt keeps the target in its bracket and the best prompt in hand.     *)
(* That best_count really is the best needs more than the bracket: while   *)
(* the upper bound doubles no earlier prompt has more tokens than the      *)
(* lower bound, as FirstHigh characters add a token or more, and later the *)
(* best never lies beyond the lower bound.                                 *)
(***************************************************************************)

Point == [chars : Nat, count : Nat]
Answer == [chars : Nat, pad : [unit : Nat, repeats : Nat], count : Nat]
Plain(p) == [chars |-> p.chars, pad |-> NoPadding, count |-> p.count]

FitTypes ==
  /\ target \in Nat \ {0} /\ probes \in Nat
  /\ low \in Point /\ high \in Point /\ best \in Point
  /\ pad \in [unit : Nat, repeats : Nat]
  /\ measured \subseteq Answer

\* Nothing has more tokens than the lower bound.
Doubling ==
  fpc = "high" =>
    /\ low.count <= target /\ FirstHigh <= high.chars - low.chars
    /\ Plain(low) \in measured
    /\ \A m \in measured : m.chars <= low.chars /\ m.count <= low.count

Bracket ==
  /\ low.chars < high.chars /\ low.count <= target /\ target <= high.count
  /\ \A p \in {low, high, best} : Plain(p) \in measured
  /\ best.chars <= low.chars /\ best.count <= target
  /\ \A m \in measured :
       m.pad = NoPadding /\ m.count <= target /\ m.chars < high.chars => m.count <= best.count

FitInv ==
  /\ FitTypes
  /\ fpc = "low" => measured = {} /\ low.chars = 0 /\ high.chars = FirstHigh
  /\ Doubling
  /\ fpc \in {"search", "pad", "failed"} => Bracket
  /\ fpc = "pad" => pad.unit # 0

-----------------------------------------------------------------------------
\* A prompt with padding is not one without.
LEMMA PaddingIsMore == ASSUME NEW p, p.unit # 0 PROVE p # NoPadding
BY DEF NoPadding

\* The tokenizer answers with a count, and what was measured is kept.
LEMMA Counted ==
  ASSUME FitTypes, NEW chars \in Nat, NEW padding \in [unit : Nat, repeats : Nat],
         NEW n \in Counts(chars, padding), Ask(chars, padding, n)
  PROVE  /\ n \in Nat
         /\ measured' = measured \cup {[chars |-> chars, pad |-> padding, count |-> n]}
         /\ measured' \subseteq Answer
<1>1. n \in Nat
  <2>1. CASE AnswersFor(chars, padding) # {}
    <3>1. n \in {m.count : m \in AnswersFor(chars, padding)} BY <2>1 DEF Counts
    <3> QED BY <3>1 DEF AnswersFor, FitTypes, Answer
  <2>2. CASE AnswersFor(chars, padding) = {}
    <3>1. n \in 0..LastHigh + PadRepeats BY <2>2 DEF Counts
    <3> QED BY <3>1, FitAssumption
  <2> QED BY <2>1, <2>2
<1>2. measured' = measured \cup {[chars |-> chars, pad |-> padding, count |-> n]} BY DEF Ask
<1> QED BY <1>1, <1>2 DEF FitTypes, Answer

\* A try of the search is strictly inside the bracket.
LEMMA ProbeInside ==
  ASSUME FitTypes, Bracket, ~Exhausted
  PROVE  Probe \in Nat /\ low.chars < Probe /\ Probe < high.chars
<1>1. /\ low.chars \in Nat /\ low.count \in Nat /\ high.chars \in Nat /\ high.count \in Nat
      /\ target \in Nat
  BY DEF FitTypes, Point
<1>2. high.count # low.count /\ ~(Probe <= low.chars) BY DEF Exhausted
<1>3. low.count < high.count /\ low.chars < high.chars BY <1>1, <1>2 DEF Bracket
<1>4. Estimated \in Int
  <2> DEFINE d == high.count - low.count
             x == (target - low.count) * (high.chars - low.chars)
  <2>1. d \in Int /\ d > 0 /\ x \in Int BY <1>1, <1>3
  <2> HIDE DEF d, x
  <2>2. x \div d \in Int BY <2>1
  <2>3. low.chars + x \div d \in Int BY <1>1, <2>2
  <2> QED BY <2>3 DEF Estimated, d, x
<1>5. Between \in Int
  <2> HIDE DEF Estimated
  <2> QED BY <1>1, <1>4 DEF Between
<1>6. Probe \in Int /\ Probe < high.chars BY <1>1, <1>3, <1>5 DEF Probe
<1> QED BY <1>1, <1>2, <1>6

-----------------------------------------------------------------------------
\* Nothing has been measured before the first answer.
THEOREM FitStarts == FitInit => FitInv
<1> SUFFICES ASSUME FitInit PROVE FitInv OBVIOUS
<1>1. FitTypes
  BY FitAssumption DEF FitInit, FitTypes, Point, At, NoPadding
<1> QED BY <1>1 DEF FitInit, FitInv, Doubling, At

\* The first answer is that of the task alone.
LEMMA LowAsked ==
  ASSUME FitInv, AskLow
  PROVE  FitInv'
<1>1. PICK n \in 0..target + 1 :
        /\ Ask(0, NoPadding, n) /\ low' = At(0, n)
        /\ fpc' = IF n > target THEN "refused" ELSE "high"
  BY DEF AskLow
<1>2. /\ UNCHANGED <<target, high, best, probes, pad, answer>>
      /\ measured = {} /\ high.chars = FirstHigh
  BY DEF AskLow, FitInv
<1>3. measured' = {[chars |-> 0, pad |-> NoPadding, count |-> n]} BY <1>1, <1>2 DEF Ask
<1>4. n \in Nat /\ target \in Nat BY <1>1 DEF FitInv, FitTypes
<1>5. FitTypes' BY <1>1, <1>2, <1>3, <1>4 DEF FitInv, FitTypes, Point, Answer, At, NoPadding
<1>6. Doubling'
  <2> SUFFICES ASSUME fpc' = "high"
               PROVE  /\ low'.count <= target' /\ FirstHigh <= high'.chars - low'.chars
                      /\ Plain(low)' \in measured'
                      /\ \A m \in measured' : m.chars <= low'.chars /\ m.count <= low'.count
    BY DEF Doubling
  <2>1. n <= target BY <1>1, <1>4
  <2>2. low'.count = n /\ low'.chars = 0 BY <1>1 DEF At
  <2>3. Plain(low)' \in measured' BY <1>3, <2>2 DEF Plain
  <2>4. FirstHigh <= high'.chars - low'.chars BY <1>2, <2>2, FitAssumption
  <2>5. \A m \in measured' : m.chars = 0 /\ m.count = n BY <1>3
  <2> QED BY <1>2, <1>4, <2>1, <2>2, <2>3, <2>4, <2>5
<1>7. fpc' \in {"refused", "high"} BY <1>1
<1> QED BY <1>5, <1>6, <1>7 DEF FitInv

\* Until the upper bound has the target, each answer is the largest so far.
LEMMA HighAsked ==
  ASSUME FitInv, AskHigh
  PROVE  FitInv'
<1> DEFINE c == high.chars
<1>1. fpc = "high" /\ UNCHANGED <<target, probes, pad, answer>> BY DEF AskHigh
<1>2. PICK n \in Counts(c, NoPadding) :
        /\ Ask(c, NoPadding, n)
        /\ IF n < target
           THEN /\ low' = At(c, n) /\ high' = At(2 * c, n) /\ UNCHANGED <<fpc, best>>
           ELSE /\ high' = At(c, n) /\ best' = low /\ fpc' = "search" /\ UNCHANGED low
  BY DEF AskHigh
<1>3. FitTypes /\ c \in Nat /\ low.chars \in Nat /\ low.count \in Nat /\ target \in Nat
  BY DEF FitInv, FitTypes, Point
<1>4. NoPadding \in [unit : Nat, repeats : Nat] BY DEF NoPadding
<1>5. /\ n \in Nat /\ measured' \subseteq Answer
      /\ measured' = measured \cup {[chars |-> c, pad |-> NoPadding, count |-> n]}
  BY <1>2, <1>3, <1>4, Counted
<1>6. /\ low.count <= target /\ FirstHigh <= c - low.chars /\ Plain(low) \in measured
      /\ \A m \in measured : m.chars <= low.chars /\ m.count <= low.count
  BY <1>1 DEF FitInv, Doubling
<1>7. FirstHigh \in Nat \ {0} BY FitAssumption
<1>8. low.chars < c BY <1>3, <1>6, <1>7
<1>9. CASE n < target
  <2>1. low' = At(c, n) /\ high' = At(2 * c, n) /\ fpc' = "high" /\ best' = best
    BY <1>1, <1>2, <1>9
  <2>2. FitTypes' BY <1>1, <1>3, <1>5, <2>1 DEF FitTypes, Point, At
  <2>3. low'.count = n /\ low'.chars = c /\ high'.chars = 2 * c BY <2>1 DEF At
  <2>4. FirstHigh <= high'.chars - low'.chars BY <1>3, <1>6, <1>7, <2>3
  <2>5. Plain(low)' \in measured' BY <1>5, <2>3 DEF Plain
  <2>6. ASSUME NEW m \in measured PROVE m.chars <= c /\ m.count <= n
    <3>1. m \in Answer /\ m.chars \in Nat /\ m.count \in Nat BY <1>3 DEF FitTypes, Answer
    <3>2. m.chars <= low.chars /\ FirstHigh <= c - m.chars BY <1>3, <1>6, <1>7, <3>1
    <3>3. m.count <= low.count BY <1>6
    <3>4. n \in {k \in 0..LastHigh + PadRepeats :
                   \A q \in {r \in measured : r.pad = NoPadding} :
                     IF q.chars < c THEN Fits(q.chars, q.count, c, k)
                                    ELSE Fits(c, k, q.chars, q.count)}
      <4>1. AnswersFor(c, NoPadding) = {}
        BY <1>3, <1>6, <1>8 DEF AnswersFor, FitTypes, Answer
      <4> QED BY <1>2, <4>1 DEF Counts
    <3>5. Fits(low.chars, low.count, c, n)
      <4>1. Plain(low) \in {r \in measured : r.pad = NoPadding} BY <1>6 DEF Plain
      <4>2. Plain(low).chars = low.chars /\ Plain(low).count = low.count BY DEF Plain
      <4> QED BY <1>8, <3>4, <4>1, <4>2
    <3>6. ~(c - low.chars < FirstHigh) BY <1>3, <1>6, <1>7
    <3>7. low.count < n BY <3>5, <3>6 DEF Fits
    <3> QED BY <1>3, <1>5, <1>8, <3>1, <3>2, <3>3, <3>7
  <2>7. \A m \in measured' : m.chars <= low'.chars /\ m.count <= low'.count
    BY <1>3, <1>5, <2>3, <2>6
  <2>8. low'.count <= target' BY <1>1, <1>3, <1>5, <1>9, <2>3
  <2> QED BY <2>1, <2>2, <2>4, <2>5, <2>7, <2>8 DEF FitInv, Doubling
<1>10. CASE ~(n < target)
  <2>1. high' = At(c, n) /\ best' = low /\ fpc' = "search" /\ low' = low BY <1>2, <1>10
  <2>2. FitTypes' BY <1>1, <1>3, <1>5, <2>1 DEF FitTypes, Point, At
  <2>3. high'.chars = c /\ high'.count = n BY <2>1 DEF At
  <2>4. Plain(low)' \in measured' /\ Plain(high)' \in measured' /\ Plain(best)' \in measured'
    BY <1>5, <1>6, <2>1, <2>3 DEF Plain
  <2>5. \A m \in measured' : m.chars < high'.chars => m.count <= best'.count
    BY <1>3, <1>5, <1>6, <2>1, <2>3
  <2>6. target <= n BY <1>3, <1>5, <1>10
  <2>7. Bracket'
    BY <1>1, <1>3, <1>6, <1>8, <2>1, <2>3, <2>4, <2>5, <2>6 DEF Bracket
  <2> QED BY <2>1, <2>2, <2>7 DEF FitInv, Doubling
<1> QED BY <1>9, <1>10

\* A try of the search shrinks the bracket from the side the answer is on.
LEMMA Searched ==
  ASSUME FitInv, Search
  PROVE  FitInv'
<1> DEFINE c == Probe
<1>1. fpc = "search" /\ ~Exhausted /\ probes' = probes + 1 /\ UNCHANGED <<target, pad>>
  BY DEF Search
<1>2. PICK n \in Counts(c, NoPadding) :
        /\ Ask(c, NoPadding, n)
        /\ \/ n = target /\ Return(n) /\ UNCHANGED <<low, high, best>>
           \/ /\ n < target /\ low' = At(c, n)
              /\ best' = IF n > best.count THEN At(c, n) ELSE best
              /\ UNCHANGED <<high, fpc, answer>>
           \/ n > target /\ high' = At(c, n) /\ UNCHANGED <<low, best, fpc, answer>>
  BY DEF Search
<1>3. FitTypes /\ Bracket BY <1>1 DEF FitInv
<1>4. c \in Nat /\ low.chars < c /\ c < high.chars BY <1>1, <1>3, ProbeInside
<1> HIDE DEF c
<1>5. NoPadding \in [unit : Nat, repeats : Nat] BY DEF NoPadding
<1>6. /\ n \in Nat /\ measured' \subseteq Answer
      /\ measured' = measured \cup {[chars |-> c, pad |-> NoPadding, count |-> n]}
  BY <1>2, <1>3, <1>4, <1>5, Counted
<1>7. /\ low.chars \in Nat /\ low.count \in Nat /\ high.chars \in Nat /\ high.count \in Nat
      /\ best.chars \in Nat /\ best.count \in Nat /\ target \in Nat /\ probes' \in Nat
  BY <1>1, <1>3 DEF FitTypes, Point
<1>8. At(c, n) \in Point /\ Plain(At(c, n)) \in measured' /\ At(c, n).chars = c
      /\ At(c, n).count = n
  BY <1>4, <1>6 DEF At, Point, Plain
<1>9. Plain(low) \in measured' /\ Plain(high) \in measured' /\ Plain(best) \in measured'
  BY <1>3, <1>6 DEF Bracket
<1>10. \A m \in measured' : m \in measured \/ (m.chars = c /\ m.count = n) BY <1>6
<1>11. CASE n = target /\ Return(n) /\ UNCHANGED <<low, high, best>>
  <2>1. fpc' = "returned" BY <1>11 DEF Return
  <2>2. FitTypes' BY <1>1, <1>3, <1>6, <1>7, <1>11 DEF FitTypes
  <2> QED BY <2>1, <2>2 DEF FitInv, Doubling
<1>12. CASE /\ n < target /\ low' = At(c, n)
            /\ best' = IF n > best.count THEN At(c, n) ELSE best
            /\ UNCHANGED <<high, fpc, answer>>
  <2>1. best' = (IF n > best.count THEN At(c, n) ELSE best) /\ low' = At(c, n) /\ high' = high
        /\ fpc' = fpc
    BY <1>12
  <2>2. FitTypes' BY <1>1, <1>3, <1>6, <1>7, <1>8, <2>1 DEF FitTypes
  <2>3. low'.chars = c /\ low'.count = n BY <1>8, <2>1
  <2>4. /\ best'.chars \in {c, best.chars} /\ best'.count \in {n, best.count}
        /\ n <= best'.count /\ best.count <= best'.count
    BY <1>6, <1>7, <1>8, <2>1
  <2>5. Plain(low)' \in measured' /\ Plain(high)' \in measured' /\ Plain(best)' \in measured'
    BY <1>8, <1>9, <2>1 DEF Plain
  <2>6. ASSUME NEW m \in measured', m.pad = NoPadding, m.count <= target, m.chars < high.chars
        PROVE  m.count <= best'.count
    <3>1. CASE m \in measured
      <4>1. m.count <= best.count BY <1>3, <2>6, <3>1 DEF Bracket
      <4>2. m.count \in Nat /\ best'.count \in Nat BY <1>3, <1>6, <1>7, <2>4, <3>1 DEF FitTypes, Answer
      <4> QED BY <1>7, <2>4, <4>1, <4>2
    <3>2. CASE m.count = n BY <2>4, <3>2
    <3> QED BY <1>10, <3>1, <3>2
  <2>7. best'.chars <= low'.chars BY <1>3, <1>4, <1>7, <2>3, <2>4 DEF Bracket
  <2>8. best'.count <= target' BY <1>1, <1>3, <1>6, <1>7, <1>12, <2>4 DEF Bracket
  <2>9. low'.chars < high'.chars /\ low'.count <= target' /\ target' <= high'.count
    BY <1>1, <1>3, <1>4, <1>6, <1>7, <1>12, <2>1, <2>3 DEF Bracket
  <2>10. Bracket' BY <1>1, <2>1, <2>5, <2>6, <2>7, <2>8, <2>9 DEF Bracket
  <2> QED BY <1>1, <2>1, <2>2, <2>10 DEF FitInv, Doubling
<1>13. CASE n > target /\ high' = At(c, n) /\ UNCHANGED <<low, best, fpc, answer>>
  <2>1. high' = At(c, n) /\ low' = low /\ best' = best /\ fpc' = fpc BY <1>13
  <2>2. FitTypes' BY <1>1, <1>3, <1>6, <1>7, <1>8, <2>1 DEF FitTypes
  <2>3. high'.chars = c /\ high'.count = n BY <1>8, <2>1
  <2>4. Plain(low)' \in measured' /\ Plain(high)' \in measured' /\ Plain(best)' \in measured'
    BY <1>8, <1>9, <2>1 DEF Plain
  <2>5. ASSUME NEW m \in measured', m.pad = NoPadding, m.count <= target, m.chars < c
        PROVE  m.count <= best.count
    <3>1. m \in measured BY <1>4, <1>10, <2>5
    <3>2. m.chars \in Nat BY <1>3, <3>1 DEF FitTypes, Answer
    <3>3. m.chars < high.chars BY <1>4, <1>7, <2>5, <3>2
    <3> QED BY <1>3, <2>5, <3>1, <3>3 DEF Bracket
  <2>6. target' <= high'.count BY <1>1, <1>6, <1>7, <1>13, <2>3
  <2>7. low'.chars < high'.chars BY <1>4, <2>1, <2>3
  <2>8. Bracket' BY <1>1, <1>3, <2>1, <2>3, <2>4, <2>5, <2>6, <2>7 DEF Bracket
  <2> QED BY <1>1, <2>1, <2>2, <2>8 DEF FitInv, Doubling
<1> QED BY <1>2, <1>11, <1>12, <1>13

\* Padded prompts are measured beside the bracket, not in it.
LEMMA Padded ==
  ASSUME FitInv, Pad
  PROVE  FitInv'
<1>1. fpc = "pad" /\ UNCHANGED <<target, low, high, best, probes>> BY DEF Pad
<1>2. PICK n \in Counts(best.chars, pad) :
        /\ Ask(best.chars, pad, n)
        /\ \/ n = target /\ Return(n) /\ UNCHANGED pad
           \/ /\ n # target
              /\ pad' = IF n > target + Overshoot \/ pad.repeats = PadRepeats
                        THEN NextUnit ELSE [pad EXCEPT !.repeats = @ + 1]
              /\ UNCHANGED <<fpc, answer>>
  BY DEF Pad
<1>3. FitTypes /\ Bracket /\ pad.unit # 0 BY <1>1 DEF FitInv
<1>4. best.chars \in Nat /\ pad \in [unit : Nat, repeats : Nat] BY <1>3 DEF FitTypes, Point
<1>5. /\ measured' \subseteq Answer
      /\ measured' = measured \cup {[chars |-> best.chars, pad |-> pad, count |-> n]}
  BY <1>2, <1>3, <1>4, Counted
<1>6. pad' \in [unit : Nat, repeats : Nat] /\ pad'.unit # 0
  <2>1. CASE pad' = pad BY <1>3, <1>4, <2>1
  <2>2. CASE pad' = NextUnit BY <1>4, <2>2 DEF NextUnit
  <2>3. CASE pad' = [pad EXCEPT !.repeats = @ + 1] BY <1>3, <1>4, <2>3
  <2> QED BY <1>2, <2>1, <2>2, <2>3
<1>7. FitTypes' BY <1>1, <1>3, <1>5, <1>6 DEF FitTypes
<1>8. pad # NoPadding BY <1>3, PaddingIsMore
<1>9. \A m \in measured' : m.pad = NoPadding => m \in measured BY <1>5, <1>8
<1>10. Plain(low)' \in measured' /\ Plain(high)' \in measured' /\ Plain(best)' \in measured'
  BY <1>1, <1>3, <1>5 DEF Bracket, Plain
<1>11. Bracket' BY <1>1, <1>3, <1>9, <1>10 DEF Bracket
<1>12. fpc' \in {"pad", "returned"} BY <1>1, <1>2 DEF Return
<1> QED BY <1>6, <1>7, <1>11, <1>12 DEF FitInv, Doubling

-----------------------------------------------------------------------------
\* Every answer, the end of the search and giving up keep the bracket.
THEOREM FitSteps == FitInv /\ [FitNext]_fit_vars => FitInv'
<1> SUFFICES ASSUME FitInv, [FitNext]_fit_vars PROVE FitInv' OBVIOUS
<1>1. CASE AskLow BY <1>1, LowAsked
<1>2. CASE AskHigh BY <1>2, HighAsked
<1>3. CASE Search BY <1>3, Searched
<1>4. CASE SearchEnds
  <2>1. /\ fpc = "search" /\ fpc' = "pad" /\ pad' = [unit |-> 1, repeats |-> 1]
        /\ UNCHANGED <<target, low, high, best, probes, measured, answer>>
    BY <1>4 DEF SearchEnds
  <2>2. FitTypes' BY <2>1 DEF FitInv, FitTypes
  <2>3. Bracket' BY <2>1 DEF FitInv, Bracket, Plain
  <2> QED BY <2>1, <2>2, <2>3 DEF FitInv, Doubling
<1>5. CASE Pad BY <1>5, Padded
<1>6. CASE GiveUp
  <2>1. /\ fpc = "pad" /\ fpc' = "failed"
        /\ UNCHANGED <<target, low, high, best, probes, pad, measured, answer>>
    BY <1>6 DEF GiveUp
  <2>2. FitTypes' BY <2>1 DEF FitInv, FitTypes
  <2>3. Bracket' BY <2>1 DEF FitInv, Bracket, Plain
  <2> QED BY <2>1, <2>2, <2>3 DEF FitInv, Doubling
<1>7. CASE UNCHANGED fit_vars
  BY <1>7 DEF fit_vars, FitInv, FitTypes, Doubling, Bracket, Plain
<1> QED BY <1>1, <1>2, <1>3, <1>4, <1>5, <1>6, <1>7 DEF FitNext

\* A bracket with the best prompt in it is all that the property asks for.
LEMMA BestIsLargest ==
  ASSUME FitTypes, Bracket
  PROVE  best.count = Largest({m.count : m \in {q \in measured :
                        q.pad = NoPadding /\ q.count <= target /\ q.chars < high.chars}})
<1> DEFINE Q == {q \in measured : q.pad = NoPadding /\ q.count <= target /\ q.chars < high.chars}
           S == {m.count : m \in Q}
<1>1. best.count \in S
  <2>1. /\ best.chars \in Nat /\ low.chars \in Nat /\ high.chars \in Nat
        /\ best.chars <= low.chars /\ low.chars < high.chars /\ best.count <= target
    BY DEF FitTypes, Point, Bracket
  <2>2. Plain(best) \in measured BY DEF Bracket
  <2>3. Plain(best) \in Q BY <2>1, <2>2 DEF Plain
  <2>4. Plain(best).count = best.count BY DEF Plain
  <2> QED BY <2>3, <2>4
<1>2. \A y \in S : y \in Nat /\ y <= best.count BY DEF FitTypes, Answer, Bracket
<1> HIDE DEF S
<1>3. \A x \in S : (\A y \in S : y <= x) <=> x = best.count BY <1>1, <1>2
<1>4. Largest(S) = best.count BY <1>1, <1>3 DEF Largest
<1> QED BY <1>4 DEF S

\* fit_prompt_to_tokens never loses the target, nor the best prompt it has seen.
THEOREM SearchSound == FitSpec => []SearchIsSound
<1>1. FitInit => FitInv BY FitStarts
<1>2. FitInv /\ [FitNext]_fit_vars => FitInv' BY FitSteps
<1>3. FitInv => SearchIsSound
  <2> SUFFICES ASSUME FitInv, fpc \in {"search", "pad", "failed"}
               PROVE  /\ low.chars < high.chars /\ low.count <= target /\ target <= high.count
                      /\ \A p \in {low, high, best} : Plain(p) \in measured
                      /\ best.count = Largest({m.count : m \in {q \in measured :
                            q.pad = NoPadding /\ q.count <= target /\ q.chars < high.chars}})
    BY DEF SearchIsSound, Plain
  <2>1. FitTypes /\ Bracket BY DEF FitInv
  <2>2. best.count = Largest({m.count : m \in {q \in measured :
          q.pad = NoPadding /\ q.count <= target /\ q.chars < high.chars}})
    BY <2>1, BestIsLargest
  <2> QED BY <2>1, <2>2 DEF Bracket
<1> QED BY <1>1, <1>2, <1>3, PTL DEF FitSpec
=============================================================================
