----------------------------- MODULE DiagProofs -----------------------------
(***************************************************************************)
(* The backing-cache and the prefix-cache diagnostic, for every set of     *)
(* servers and any number of signals, lost answers and foreign requests.   *)
(* First the exit trap of run-backing-cache.sh: the production service is  *)
(* left as it was found, and no trial server beside it.  Then the verdict  *)
(* over the two arms: its invariant says how the rows on disk follow what  *)
(* each arm's server really did.  Then the verdict over the eleven         *)
(* requests of two conversations: its invariant says what a row may hide,  *)
(* and why a server that names another slot than it used is found out; and *)
(* that a server which keeps the conversations apart is not failed, for    *)
(* which the slots are followed from request to request.                   *)
(***************************************************************************)
EXTENDS PrefixDiag, BackingCacheDiag, MtpEvidenceProofs

\* From the stop of the service to the trap it is down.
Down == bpc \notin {"shell", "over"} => service = FALSE

\* Outside an arm there is a trial server only if a cleanup was cut short.
ArmsClosed == trial # "none" /\ bpc \notin {"load", "request", "stop", "wait"} => cut

\* The trap has done what it was set to do.
GivenBack == bpc = "over" => service = restore \/ start_failed

BackingInv == Down /\ ArmsClosed /\ GivenBack

-----------------------------------------------------------------------------
\* Before the shell has done anything there is no trial server.
THEOREM BackingStarts == BackingInit => BackingInv
BY DEF BackingInit, BackingInv, Down, ArmsClosed, GivenBack

\* Every step of the shell, of the script and of the server, every signal and the
\* end of the terminal keep this.
THEOREM BackingSteps == BackingInv /\ [BackingNext]_backing_vars => BackingInv'
<1> SUFFICES ASSUME BackingInv, [BackingNext]_backing_vars PROVE BackingInv' OBVIOUS
<1> USE DEF BackingInv, Down, ArmsClosed, GivenBack
<1>1. CASE StopService BY <1>1 DEF StopService
<1>2. CASE Trap BY <1>2 DEF Trap
<1>3. CASE CheckRuntimePatch BY <1>3 DEF CheckRuntimePatch
<1>4. CASE Launch BY <1>4 DEF Launch
<1>5. CASE Load BY <1>5 DEF Load
<1>6. CASE BackingRequest
  <2>1. UNCHANGED <<service, restore, trial, start_failed, cut>> BY <1>6 DEF BackingRequest
  <2>2. bpc = "request" /\ bpc' \in {"request", "stop"} BY <1>6 DEF BackingRequest
  <2> QED BY <2>1, <2>2
<1>7. CASE Stop BY <1>7 DEF Stop
<1>8. CASE TrialExits BY <1>8 DEF TrialExits
<1>9. CASE Wait BY <1>9 DEF Wait
<1>10. CASE WriteReport BY <1>10 DEF WriteReport
<1>11. CASE Interrupt
  <2>1. UNCHANGED <<service, restore, start_failed>> BY <1>11 DEF Interrupt
  <2>2. CASE bpc \in {"load", "request"} BY <1>11, <2>1, <2>2 DEF Interrupt
  <2>3. CASE bpc = "check" BY <1>11, <2>1, <2>3 DEF Interrupt
  <2>4. CASE bpc = "launch" BY <1>11, <2>1, <2>4 DEF Interrupt
  <2>5. CASE bpc \in {"stop", "wait"} BY <1>11, <2>1, <2>5 DEF Interrupt
  <2>6. CASE bpc = "report" BY <1>11, <2>1, <2>6 DEF Interrupt
  <2>7. bpc \in {"load", "request", "check", "launch", "stop", "wait", "report"}
    BY <1>11 DEF Interrupt
  <2> QED BY <2>2, <2>3, <2>4, <2>5, <2>6, <2>7
<1>12. CASE Hangup BY <1>12 DEF Hangup
<1>13. CASE UNCHANGED backing_vars BY <1>13 DEF backing_vars
<1> QED BY <1>1, <1>2, <1>3, <1>4, <1>5, <1>6, <1>7, <1>8, <1>9, <1>10, <1>11, <1>12, <1>13
        DEF BackingNext

\* When the shell is through, the service is as it was, or systemctl start has
\* failed; it is beside a trial server only after a cleanup that was cut short.
THEOREM ServiceReturned == BackingSpec => []BackingReturned
<1>1. BackingInit => BackingInv BY BackingStarts
<1>2. BackingInv /\ [BackingNext]_backing_vars => BackingInv' BY BackingSteps
<1>3. BackingInv => BackingReturned
  BY DEF BackingInv, Down, ArmsClosed, GivenBack, BackingReturned
<1> QED BY <1>1, <1>2, <1>3, PTL DEF BackingSpec

\* The arm and the request of a row, by its place in results.jsonl.
ArmOf(i) == IF i <= 5 THEN 1 ELSE 2
CaseOf(i) == IF i <= 5 THEN i ELSE i - 5

\* The rows are those of the requests in their order, whatever came back.
RowsInOrder ==
  /\ brows \in Seq({BackingRow(a, case, ok) : a \in {1, 2}, case \in Cases, ok \in BOOLEAN})
  /\ \A i \in 1..Len(brows) : \E ok \in BOOLEAN : brows[i] = BackingRow(ArmOf(i), CaseOf(i), ok)

\* How far the rows are when nothing has gone wrong.
Progress ==
  /\ bpc \in {"shell", "check", "launch", "load", "request", "stop", "wait", "report", "trap", "over"}
  /\ arm \in {1, 2} /\ Len(brows) <= 5 * arm
  /\ bpc \in {"shell", "check"} => arm = 1
  /\ bpc \in {"shell", "check", "launch", "load"} => Len(brows) = 5 * (arm - 1)
  /\ bpc = "request" => 5 * (arm - 1) <= Len(brows) /\ Len(brows) < 5 * arm
  /\ bpc \in {"stop", "wait"} /\ ~failure => Len(brows) = 5 * arm
  /\ bpc = "report" /\ ~failure => Len(brows) = 10

\* A failure ends the arms, and a signal or a cleanup cut short is one until the
\* report is due.
Failing ==
  /\ failure => bpc \in {"stop", "wait", "report", "trap", "over"}
  /\ (cut \/ signals # BackingSignals) /\ bpc \notin {"trap", "over"} => failure

\* What was written into report.json.
Verdict ==
  passed => /\ bpc \in {"trap", "over"}
            /\ ~cut /\ signals = BackingSignals /\ Len(brows) = 10 /\ ReportPasses

ArmsInv == signals \in Nat /\ RowsInOrder /\ Progress /\ Failing /\ Verdict

-----------------------------------------------------------------------------
\* What a row says of its arm, its request and its cache.
LEMMA ArmRow ==
  ASSUME NEW a, NEW case, NEW ok
  PROVE  /\ BackingRow(a, case, ok).arm = a /\ BackingRow(a, case, ok).case = case
         /\ BackingRow(a, case, ok).cache = CacheReported(BackingReuse(a, case))
BY DEF BackingRow

\* The next request of an arm is the one after the rows it has.
LEMMA NextCase ==
  ASSUME ArmsInv, bpc = "request"
  PROVE  /\ 1 + Cardinality({i \in DOMAIN brows : brows[i].arm = arm}) = CaseOf(Len(brows) + 1)
         /\ arm = ArmOf(Len(brows) + 1) /\ CaseOf(Len(brows) + 1) \in Cases
         /\ CaseOf(Len(brows) + 1) = 5 <=> Len(brows) + 1 = 5 * arm
<1> DEFINE n == Len(brows)
           mine == {i \in DOMAIN brows : brows[i].arm = arm}
<1>1. n \in Nat /\ DOMAIN brows = 1..n
  <2> DEFINE T == {BackingRow(a, case, ok) : a \in {1, 2}, case \in Cases, ok \in BOOLEAN}
  <2>1. brows \in Seq(T) BY DEF ArmsInv, RowsInOrder
  <2> HIDE DEF T
  <2> QED BY <2>1, LenProperties
<1>2. arm \in {1, 2} /\ 5 * (arm - 1) <= n /\ n < 5 * arm BY DEF ArmsInv, Progress
<1>3. \A i \in 1..n : brows[i].arm = ArmOf(i) BY ArmRow DEF ArmsInv, RowsInOrder
<1> HIDE DEF n
<1>4. mine = (5 * (arm - 1) + 1)..n
  <2>1. mine = {i \in 1..n : ArmOf(i) = arm} BY <1>1, <1>3
  <2>2. CASE arm = 1 BY <1>1, <1>2, <2>1, <2>2 DEF ArmOf
  <2>3. CASE arm = 2 BY <1>1, <1>2, <2>1, <2>3 DEF ArmOf
  <2> QED BY <1>2, <2>2, <2>3
<1>5. Cardinality(mine) = n - 5 * (arm - 1)
  <2> DEFINE a == 5 * (arm - 1) + 1
  <2>1. a \in Int /\ n \in Int BY <1>1, <1>2
  <2>2. Cardinality(a..n) = IF a > n THEN 0 ELSE n - a + 1 BY <2>1, FS_Interval
  <2>3. (IF a > n THEN 0 ELSE n - a + 1) = n - 5 * (arm - 1) BY <1>1, <1>2
  <2> QED BY <1>4, <2>2, <2>3
<1> DEFINE c == Cardinality(mine)
<1>6. c = n - 5 * (arm - 1) BY <1>5
<1> HIDE DEF mine, c
<1>7. /\ 1 + c = CaseOf(n + 1)
      /\ arm = ArmOf(n + 1) /\ CaseOf(n + 1) \in Cases
      /\ CaseOf(n + 1) = 5 <=> n + 1 = 5 * arm
  <2>1. CASE arm = 1
    <3>1. n < 5 /\ n + 1 <= 5 /\ c = n BY <1>1, <1>2, <1>6, <2>1
    <3>2. CaseOf(n + 1) = n + 1 /\ ArmOf(n + 1) = 1 BY <3>1 DEF CaseOf, ArmOf
    <3> QED BY <1>1, <2>1, <3>1, <3>2 DEF Cases
  <2>2. CASE arm = 2
    <3>1. 5 <= n /\ n < 10 /\ c = n - 5 BY <1>1, <1>2, <1>6, <2>2
    <3>2. CaseOf(n + 1) = n + 1 - 5 /\ ArmOf(n + 1) = 2 BY <1>1, <3>1 DEF CaseOf, ArmOf
    <3> QED BY <1>1, <2>2, <3>1, <3>2 DEF Cases
  <2> QED BY <1>2, <2>1, <2>2
<1> QED BY <1>7 DEF c, mine, n

\* Before the shell runs there is no row and no arm.
LEMMA ArmsStart == BackingInit => ArmsInv
<1> SUFFICES ASSUME BackingInit PROVE ArmsInv OBVIOUS
<1>1. signals \in Nat BY BackingAssumption DEF BackingInit
<1>2. brows = <<>> /\ Len(brows) = 0 BY DEF BackingInit
<1>3. RowsInOrder
  <2> DEFINE T == {BackingRow(a, case, ok) : a \in {1, 2}, case \in Cases, ok \in BOOLEAN}
  <2> HIDE DEF T
  <2>1. brows \in Seq(T) BY <1>2
  <2>2. \A i \in 1..Len(brows) : FALSE BY <1>2
  <2> QED BY <2>1, <2>2 DEF RowsInOrder, T
<1>4. Progress BY <1>2 DEF BackingInit, Progress
<1>5. Failing /\ Verdict BY DEF BackingInit, Failing, Verdict
<1> QED BY <1>1, <1>3, <1>4, <1>5 DEF ArmsInv

\* A request that is answered adds the row that is due.
LEMMA RowAdded ==
  ASSUME ArmsInv, bpc = "request", NEW ok \in BOOLEAN,
         brows' = Append(brows, BackingRow(arm, 1 + Cardinality({i \in DOMAIN brows : brows[i].arm = arm}), ok)),
         bkind' = bkind
  PROVE  RowsInOrder' /\ Len(brows') = Len(brows) + 1
<1> DEFINE T == {BackingRow(a, case, good) : a \in {1, 2}, case \in Cases, good \in BOOLEAN}
           n == Len(brows)
           new == BackingRow(ArmOf(n + 1), CaseOf(n + 1), ok)
<1>1. brows' = Append(brows, new) BY NextCase
<1>2. brows \in Seq(T) BY DEF ArmsInv, RowsInOrder
<1>3. new \in T
  <2>1. ArmOf(n + 1) \in {1, 2} BY DEF ArmOf
  <2>2. CaseOf(n + 1) \in Cases BY NextCase
  <2> QED BY <2>1, <2>2
<1>4. \A i \in 1..n : \E good \in BOOLEAN : brows[i] = BackingRow(ArmOf(i), CaseOf(i), good)
  BY DEF ArmsInv, RowsInOrder
<1>5. \E good \in BOOLEAN : new = BackingRow(ArmOf(n + 1), CaseOf(n + 1), good) OBVIOUS
<1> HIDE DEF T, new
<1>6. /\ brows' \in Seq(T) /\ Len(brows') = n + 1 /\ n \in Nat
      /\ brows'[n + 1] = new
      /\ \A i \in 1..n : brows'[i] = brows[i]
  BY <1>1, <1>2, <1>3, AppendProperties, LenProperties
<1>7. ASSUME NEW i \in 1..n + 1
      PROVE  \E good \in BOOLEAN : brows'[i] = BackingRow(ArmOf(i), CaseOf(i), good)
  <2> HIDE DEF n
  <2>1. CASE i = n + 1 BY <1>5, <1>6, <2>1
  <2>2. CASE i # n + 1
    <3>1. i \in 1..n BY <1>6, <2>2
    <3> QED BY <1>4, <1>6, <3>1
  <2> QED BY <2>1, <2>2
<1>8. brows' \in Seq(T) /\ \A i \in 1..Len(brows') :
         \E good \in BOOLEAN : brows'[i] = BackingRow(ArmOf(i), CaseOf(i), good)
  <2> HIDE DEF n
  <2> QED BY <1>6, <1>7
<1>9. RowsInOrder'
  <2>1. \A a, case, good : BackingRow(a, case, good)' = BackingRow(a, case, good)
    BY DEF BackingRow, BackingReuse, CacheReported
  <2>2. T' = T BY <2>1 DEF T
  <2>3. brows' \in Seq(T') BY <1>8, <2>2
  <2>4. \A i \in 1..Len(brows') :
          \E good \in BOOLEAN : brows'[i] = BackingRow(ArmOf(i), CaseOf(i), good)'
    BY <1>8, <2>1
  <2> QED BY <2>3, <2>4 DEF RowsInOrder, T
<1> QED BY <1>6, <1>9

\* The rows stay as they are in every other step.
LEMMA RowsStay ==
  ASSUME RowsInOrder, UNCHANGED <<bkind, brows>>
  PROVE  RowsInOrder'
<1> DEFINE T == {BackingRow(a, case, ok) : a \in {1, 2}, case \in Cases, ok \in BOOLEAN}
<1>1. \A a, case, ok : BackingRow(a, case, ok)' = BackingRow(a, case, ok)
  BY DEF BackingRow, BackingReuse, CacheReported
<1>2. T' = T BY <1>1
<1>3. brows' \in Seq(T')
  <2>1. brows \in Seq(T) BY DEF RowsInOrder
  <2> HIDE DEF T
  <2> QED BY <1>2, <2>1
<1>4. \A i \in 1..Len(brows') : \E ok \in BOOLEAN : brows'[i] = BackingRow(ArmOf(i), CaseOf(i), ok)'
  BY <1>1 DEF RowsInOrder
<1> QED BY <1>3, <1>4 DEF RowsInOrder

\* Once it is written, nothing changes what the report was written about.
LEMMA ReportStays ==
  ASSUME UNCHANGED brows, ReportPasses PROVE ReportPasses'
<1>1. Measured' = Measured BY DEF Measured
<1>2. \A a, case : BRow(a, case)' = BRow(a, case) BY DEF BRow
<1>3. ASSUME NEW case \in Resumed PROVE ComparisonPasses(case)'
  <2>1. ComparisonPasses(case) BY DEF ReportPasses
  <2>2. BRow(1, case)' = BRow(1, case) /\ BRow(2, case)' = BRow(2, case) BY <1>2
  <2> QED BY <2>1, <2>2 DEF ComparisonPasses
<1> QED BY <1>1, <1>3 DEF ReportPasses

\* Every step of the shell, of the script and of the server, every signal and the
\* end of the terminal keep this.
LEMMA ArmsStep ==
  ASSUME ArmsInv, [BackingNext]_backing_vars
  PROVE  ArmsInv'
<1> DEFINE n == Len(brows)
<1>0. n \in Nat /\ signals \in Nat /\ arm \in {1, 2} /\ RowsInOrder
  <2> DEFINE T == {BackingRow(a, case, ok) : a \in {1, 2}, case \in Cases, ok \in BOOLEAN}
  <2>1. brows \in Seq(T) BY DEF ArmsInv, RowsInOrder
  <2> HIDE DEF T
  <2>2. Len(brows) \in Nat BY <2>1, LenProperties
  <2> QED BY <2>2 DEF ArmsInv, Progress
<1>a. ASSUME bpc \in {"trap", "over"}, bpc' \in {"trap", "over"},
             UNCHANGED <<bkind, arm, brows, failure, passed, cut, signals>>
      PROVE  ArmsInv'
  <2>1. RowsInOrder' BY <1>0, <1>a, RowsStay
  <2>2. Verdict' BY <1>a, ReportStays DEF ArmsInv, Verdict
  <2>3. Progress' /\ Failing' BY <1>a DEF ArmsInv, Progress, Failing
  <2> QED BY <1>0, <1>a, <2>1, <2>2, <2>3 DEF ArmsInv
<1>b. ASSUME bpc \notin {"trap", "over"}, UNCHANGED <<bkind, brows, passed>>, signals' \in Nat,
             Progress', Failing'
      PROVE  ArmsInv'
  <2>1. RowsInOrder' BY <1>0, <1>b, RowsStay
  <2>2. ~passed BY <1>b DEF ArmsInv, Verdict
  <2> QED BY <1>b, <2>1, <2>2 DEF ArmsInv, Verdict
<1>1. CASE StopService
  <2>1. bpc = "shell" /\ bpc' \in {"check", "trap"} BY <1>1 DEF StopService
  <2>2. UNCHANGED <<bkind, arm, brows, failure, passed, cut, signals>> BY <1>1 DEF StopService
  <2>3. Progress' /\ Failing' BY <2>1, <2>2 DEF ArmsInv, Progress, Failing
  <2> QED BY <1>0, <1>b, <2>1, <2>2, <2>3
<1>2. CASE Trap BY <1>2, <1>a DEF Trap
<1>3. CASE CheckRuntimePatch
  <2>1. /\ bpc = "check"
        /\ \/ bpc' \in {"launch", "trap"} /\ failure' = failure
           \/ bpc' = "report" /\ failure' = TRUE
    BY <1>3 DEF CheckRuntimePatch
  <2>2. UNCHANGED <<bkind, arm, brows, passed, cut, signals>> BY <1>3 DEF CheckRuntimePatch
  <2>3. Progress' /\ Failing' BY <2>1, <2>2 DEF ArmsInv, Progress, Failing
  <2> QED BY <1>0, <1>b, <2>1, <2>2, <2>3
<1>4. CASE Launch
  <2>1. bpc = "launch" /\ bpc' = "load" BY <1>4 DEF Launch
  <2>2. UNCHANGED <<bkind, arm, brows, failure, passed, cut, signals>> BY <1>4 DEF Launch
  <2>3. Progress' /\ Failing' BY <2>1, <2>2 DEF ArmsInv, Progress, Failing
  <2> QED BY <1>0, <1>b, <2>1, <2>2, <2>3
<1>5. CASE Load
  <2>1. /\ bpc = "load"
        /\ \/ bpc' = "request" /\ failure' = failure
           \/ bpc' = "stop" /\ failure' = TRUE
    BY <1>5 DEF Load
  <2>2. UNCHANGED <<bkind, arm, brows, passed, cut, signals>> BY <1>5 DEF Load
  <2>3. n = 5 * (arm - 1) /\ 5 * (arm - 1) < 5 * arm BY <1>0, <2>1 DEF ArmsInv, Progress
  <2>4. Progress' BY <1>0, <2>1, <2>2, <2>3 DEF ArmsInv, Progress
  <2>5. Failing' BY <2>1, <2>2 DEF ArmsInv, Failing
  <2> QED BY <1>0, <1>b, <2>1, <2>2, <2>4, <2>5
<1>6. CASE BackingRequest
  <2> DEFINE case == 1 + Cardinality({i \in DOMAIN brows : brows[i].arm = arm})
  <2>1. /\ bpc = "request"
        /\ \/ \E ok \in BOOLEAN :
                /\ brows' = Append(brows, BackingRow(arm, case, ok))
                /\ failure' = ~ok
                /\ bpc' = IF ~ok \/ case = 5 THEN "stop" ELSE "request"
           \/ UNCHANGED brows /\ failure' = TRUE /\ bpc' = "stop"
    BY <1>6 DEF BackingRequest
  <2>2. UNCHANGED <<bkind, arm, passed, cut, signals>> BY <1>6 DEF BackingRequest
  <2>3. 5 * (arm - 1) <= n /\ n < 5 * arm /\ ~failure /\ ~cut /\ signals = BackingSignals
    BY <2>1 DEF ArmsInv, Progress, Failing
  <2>4. ~passed BY <2>1 DEF ArmsInv, Verdict
  <2>5. Failing' BY <2>1, <2>2, <2>3 DEF Failing
  <2>6. CASE UNCHANGED brows /\ failure' = TRUE /\ bpc' = "stop"
    <3>1. Progress' BY <2>1, <2>2, <2>6 DEF ArmsInv, Progress
    <3> QED BY <1>0, <1>b, <2>1, <2>2, <2>5, <2>6, <3>1
  <2>7. ASSUME NEW ok \in BOOLEAN,
               brows' = Append(brows, BackingRow(arm, case, ok)), failure' = ~ok,
               bpc' = IF ~ok \/ case = 5 THEN "stop" ELSE "request"
        PROVE  ArmsInv'
    <3>1. RowsInOrder' /\ Len(brows') = n + 1 BY <2>1, <2>2, <2>7, RowAdded DEF n, case
    <3>2. case = 5 <=> n + 1 = 5 * arm BY <2>1, NextCase
    <3> HIDE DEF case, n
    <3> DEFINE m == Len(brows')
    <3>4. /\ bpc' = "request" => 5 * (arm - 1) <= m /\ m < 5 * arm
          /\ bpc' = "stop" /\ ~failure' => m = 5 * arm
          /\ m <= 5 * arm /\ bpc' \in {"stop", "request"}
      <4> HIDE DEF m
      <4>1. m = n + 1 BY <3>1 DEF m
      <4>2. m <= 5 * arm /\ 5 * (arm - 1) <= m BY <1>0, <2>3, <4>1
      <4>3. n + 1 # 5 * arm => m < 5 * arm BY <1>0, <2>3, <4>1
      <4> QED BY <2>7, <3>2, <4>1, <4>2, <4>3
    <3>3. Progress' BY <1>0, <2>2, <3>4 DEF Progress
    <3> QED BY <1>0, <2>2, <2>4, <2>5, <3>1, <3>3 DEF ArmsInv, Verdict
  <2> QED BY <2>1, <2>6, <2>7
<1>7. CASE Stop
  <2>1. bpc = "stop" /\ bpc' = "wait" BY <1>7 DEF Stop
  <2>2. UNCHANGED <<bkind, arm, brows, failure, passed, cut, signals>> BY <1>7 DEF Stop
  <2>3. Progress' /\ Failing' BY <2>1, <2>2 DEF ArmsInv, Progress, Failing
  <2> QED BY <1>0, <1>b, <2>1, <2>2, <2>3
<1>8. CASE TrialExits
  <2>1. UNCHANGED <<bkind, bpc, arm, brows, failure, passed, cut, signals>> BY <1>8 DEF TrialExits
  <2>2. CASE bpc \in {"trap", "over"} BY <1>a, <2>1, <2>2
  <2>3. CASE bpc \notin {"trap", "over"}
    <3>1. Progress' /\ Failing' BY <2>1 DEF ArmsInv, Progress, Failing
    <3> QED BY <1>0, <1>b, <2>1, <2>3, <3>1
  <2> QED BY <2>2, <2>3
<1>9. CASE Wait
  <2>1. /\ bpc = "wait"
        /\ \/ (failure \/ arm = 2) /\ bpc' = "report" /\ arm' = arm
           \/ ~failure /\ arm # 2 /\ bpc' = "launch" /\ arm' = 2
    BY <1>9 DEF Wait
  <2>2. UNCHANGED <<bkind, brows, failure, passed, cut, signals>> BY <1>9 DEF Wait
  <2>3. n <= 5 * arm /\ (~failure => n = 5 * arm) BY <2>1 DEF ArmsInv, Progress
  <2>4. Progress'
    <3> HIDE DEF n
    <3>1. n' = n BY <2>2 DEF n
    <3>2. n' <= 5 * arm' /\ (bpc' = "report" /\ ~failure' => n' = 10)
          /\ (bpc' = "launch" => n' = 5 * (arm' - 1)) /\ arm' \in {1, 2}
      BY <1>0, <2>1, <2>2, <2>3, <3>1
    <3> QED BY <2>1, <3>2 DEF Progress, n
  <2>5. Failing' BY <2>1, <2>2 DEF ArmsInv, Failing
  <2> QED BY <1>0, <1>b, <2>1, <2>2, <2>4, <2>5
<1>10. CASE WriteReport
  <2>1. bpc = "report" /\ bpc' = "trap" /\ passed' = (ReportPasses /\ ~failure)
    BY <1>10 DEF WriteReport
  <2>2. UNCHANGED <<bkind, arm, brows, failure, cut, signals>> BY <1>10 DEF WriteReport
  <2>3. Progress' /\ Failing' BY <2>1, <2>2 DEF ArmsInv, Progress, Failing
  <2>4. ~failure => ~cut /\ signals = BackingSignals /\ n = 10
    BY <2>1 DEF ArmsInv, Progress, Failing
  <2>5. Verdict' BY <2>1, <2>2, <2>4, ReportStays DEF Verdict
  <2>6. RowsInOrder' BY <1>0, <2>2, RowsStay
  <2> QED BY <1>0, <2>2, <2>3, <2>5, <2>6 DEF ArmsInv
<1>11. CASE Interrupt
  <2>1. signals > 0 /\ signals' = signals - 1 /\ failure' = (failure \/ bpc # "report")
    BY <1>11 DEF Interrupt
  <2>2. UNCHANGED <<bkind, arm, brows, passed>> BY <1>11 DEF Interrupt
  <2>3. \/ bpc \in {"load", "request"} /\ bpc' = "stop"
        \/ bpc = "check" /\ bpc' \in {"report", "trap"}
        \/ bpc \in {"launch", "stop", "wait"} /\ bpc' = "report"
        \/ bpc = "report" /\ bpc' = "trap"
    BY <1>11 DEF Interrupt
  <2>4. Progress' BY <2>1, <2>2, <2>3 DEF ArmsInv, Progress
  <2>5. Failing' BY <2>1, <2>2, <2>3 DEF ArmsInv, Failing
  <2> QED BY <1>0, <1>b, <2>1, <2>2, <2>3, <2>4, <2>5
<1>12. CASE Hangup
  <2>1. signals > 0 /\ signals' = signals - 1 /\ bpc' = "trap" /\ bpc \notin {"trap", "over"}
    BY <1>12 DEF Hangup
  <2>2. UNCHANGED <<bkind, arm, brows, failure, passed>> BY <1>12 DEF Hangup
  <2>4. Progress' BY <2>1, <2>2 DEF ArmsInv, Progress
  <2>5. Failing' BY <2>1, <2>2 DEF ArmsInv, Failing
  <2> QED BY <1>0, <1>b, <2>1, <2>2, <2>4, <2>5
<1>13. CASE UNCHANGED backing_vars
  <2>1. UNCHANGED <<bkind, bpc, arm, brows, failure, passed, cut, signals>> BY <1>13 DEF backing_vars
  <2>2. CASE bpc \in {"trap", "over"} BY <1>a, <2>1, <2>2
  <2>3. CASE bpc \notin {"trap", "over"}
    <3>1. Progress' /\ Failing' BY <2>1 DEF ArmsInv, Progress, Failing
    <3> QED BY <1>0, <1>b, <2>1, <2>3, <3>1
  <2> QED BY <2>2, <2>3
<1> QED BY <1>1, <1>2, <1>3, <1>4, <1>5, <1>6, <1>7, <1>8, <1>9, <1>10, <1>11, <1>12, <1>13
        DEF BackingNext

-----------------------------------------------------------------------------
\* The row of a request, once all ten are there.
LEMMA OneRow ==
  ASSUME RowsInOrder, Len(brows) = 10, NEW a \in {1, 2}, NEW case \in Cases
  PROVE  BRow(a, case) = {brows[5 * (a - 1) + case]}
<1> DEFINE at2 == {i \in DOMAIN brows : brows[i].arm = a /\ brows[i].case = case}
           k == 5 * (a - 1) + case
<1>1. DOMAIN brows = 1..10
  <2> DEFINE T == {BackingRow(b, c, ok) : b \in {1, 2}, c \in Cases, ok \in BOOLEAN}
  <2>1. brows \in Seq(T) BY DEF RowsInOrder
  <2> HIDE DEF T
  <2> QED BY <2>1, LenProperties
<1>2. \A i \in 1..10 : brows[i].arm = ArmOf(i) /\ brows[i].case = CaseOf(i)
  BY ArmRow DEF RowsInOrder
<1>3. at2 = {k}
  <2>1. at2 = {i \in 1..10 : ArmOf(i) = a /\ CaseOf(i) = case} BY <1>1, <1>2
  <2>2. case \in 1..5 BY DEF Cases
  <2> HIDE DEF at2
  <2>3. CASE a = 1 BY <2>1, <2>2, <2>3 DEF ArmOf, CaseOf
  <2>4. CASE a = 2 BY <2>1, <2>2, <2>4 DEF ArmOf, CaseOf
  <2> QED BY <2>3, <2>4
<1>4. k \in Int BY DEF Cases
<1> HIDE DEF k
<1>5. Max({k}) = k
  <2>1. \E x \in {k} : \A y \in {k} : x >= y BY <1>4
  <2> QED BY <2>1 DEF Max
<1>6. BRow(a, case) = {brows[k]} BY <1>3, <1>5 DEF BRow
<1> QED BY <1>6 DEF k

\* Tokens tell the traces of one request apart.
LEMMA SameTrace ==
  ASSUME NEW a, NEW b, NEW case \in Cases, NEW ok, NEW good,
         first_token_divergence(BackingRow(a, case, ok).trace, BackingRow(b, case, good).trace)
           = NoValue
  PROVE  BackingRow(a, case, ok).trace = BackingRow(b, case, good).trace
<1> DEFINE id(x) == IF bkind = "drifts" /\ BackingReuse(x, case) > 0 THEN 1 ELSE 0
           trace(x) == <<[id |-> Family(case)], [id |-> id(x)]>>
<1>1. BackingRow(a, case, ok).trace = trace(a) /\ BackingRow(b, case, good).trace = trace(b)
  BY DEF BackingRow
<1> HIDE DEF id
<1>2. Len(trace(a)) = 2 /\ Len(trace(b)) = 2 OBVIOUS
<1>3. first_token_divergence(trace(a), trace(b)) = NoValue BY <1>1
<1>4. \A i \in 1..2 : trace(a)[i].id = trace(b)[i].id
  <2> HIDE DEF trace
  <2>1. \A i \in 1..Len(trace(a)) : trace(a)[i].id = trace(b)[i].id BY <1>2, <1>3, NoDivergence DEF SameIds
  <2> QED BY <1>2, <2>1
<1>5. id(a) = id(b) BY <1>4
<1> QED BY <1>1, <1>5

\* A count an answer can be judged by is of the tokens that were reused.
LEMMA CountIsTrue ==
  ASSUME NEW reuse \in {0, 30, 90}, CacheReported(reuse) \in 0..100
  PROVE  CacheReported(reuse) = reuse
<1>1. CASE bkind = "nocount" BY <1>1 DEF CacheReported, NoValue
<1>2. CASE bkind = "over" /\ reuse > 0 BY <1>2 DEF CacheReported
<1>3. CASE bkind # "nocount" /\ ~(bkind = "over" /\ reuse > 0) BY <1>3 DEF CacheReported
<1> QED BY <1>1, <1>2, <1>3

\* A report that passes was written of ten rows, in which the second arm resumed
\* from its cache what the first one began anew.
LEMMA ArmsInvPass == ArmsInv => BackingPassIsTrue
<1> SUFFICES ASSUME ArmsInv, passed PROVE BackingPassIsTrue BY DEF BackingPassIsTrue
<1>1. ~cut /\ signals = BackingSignals /\ Len(brows) = 10 /\ ReportPasses
  BY DEF ArmsInv, Verdict
<1>2. RowsInOrder BY DEF ArmsInv
<1>3. DOMAIN brows = 1..10
  <2> DEFINE T == {BackingRow(b, c, ok) : b \in {1, 2}, c \in Cases, ok \in BOOLEAN}
  <2>1. brows \in Seq(T) BY <1>2 DEF RowsInOrder
  <2> HIDE DEF T
  <2> QED BY <1>1, <2>1, LenProperties
<1>4. ASSUME NEW i \in 1..10
      PROVE  <<brows[i].arm, brows[i].case>> = <<1 + ((i - 1) \div 5), 1 + ((i - 1) % 5)>>
  <2>1. brows[i].arm = ArmOf(i) /\ brows[i].case = CaseOf(i)
    BY <1>1, <1>2, ArmRow DEF RowsInOrder
  <2>2. ArmOf(i) = 1 + ((i - 1) \div 5) BY DEF ArmOf
  <2>3. CaseOf(i) = 1 + ((i - 1) % 5) BY DEF CaseOf
  <2> QED BY <2>1, <2>2, <2>3
<1>5. [i \in DOMAIN brows |-> <<brows[i].arm, brows[i].case>>]
        = [i \in 1..10 |-> <<1 + ((i - 1) \div 5), 1 + ((i - 1) % 5)>>]
  BY <1>3, <1>4
<1>6. ASSUME NEW case \in Resumed
      PROVE  /\ BackingReuse(1, case) = 0 /\ BackingReuse(2, case) > 0
             /\ \A cold \in BRow(1, case), cached \in BRow(2, case) : cold.trace = cached.trace
  <2>1. case \in Cases /\ case \in 4..5 BY DEF Resumed, Cases
  <2> DEFINE i == case
             j == 5 + case
  <2>2. BRow(1, case) = {brows[i]} /\ BRow(2, case) = {brows[j]}
    <3>1. 5 * (1 - 1) + case = case /\ 5 * (2 - 1) + case = 5 + case BY <2>1
    <3> QED BY <1>1, <1>2, <2>1, <3>1, OneRow
  <2>3. PICK ok \in BOOLEAN : brows[i] = BackingRow(1, case, ok)
    <3>1. i \in 1..10 /\ ArmOf(i) = 1 /\ CaseOf(i) = case BY <2>1 DEF ArmOf, CaseOf
    <3> QED BY <1>1, <1>2, <3>1 DEF RowsInOrder
  <2>4. PICK good \in BOOLEAN : brows[j] = BackingRow(2, case, good)
    <3>1. j \in 1..10 /\ ArmOf(j) = 2 /\ CaseOf(j) = case BY <2>1 DEF ArmOf, CaseOf
    <3> QED BY <1>1, <1>2, <3>1 DEF RowsInOrder
  <2>5. ComparisonPasses(case) BY <1>1 DEF ReportPasses
  <2>6. /\ first_token_divergence(brows[i].trace, brows[j].trace) = NoValue
        /\ brows[j].cache \in 1..100 /\ brows[i].cache \in 0..9
    BY <2>2, <2>5 DEF ComparisonPasses
  <2>7. BackingReuse(1, case) \in {0, 30, 90} /\ BackingReuse(2, case) \in {0, 30, 90}
    BY DEF BackingReuse
  <2>8. brows[i].cache = BackingReuse(1, case) /\ brows[j].cache = BackingReuse(2, case)
    <3>1. /\ brows[i].cache = CacheReported(BackingReuse(1, case))
          /\ brows[j].cache = CacheReported(BackingReuse(2, case))
      BY <2>3, <2>4, ArmRow
    <3>2. brows[i].cache \in 0..100 /\ brows[j].cache \in 0..100 BY <2>6
    <3> HIDE DEF i, j
    <3> QED BY <2>7, <3>1, <3>2, CountIsTrue
  <2>9. brows[i].trace = brows[j].trace BY <2>1, <2>3, <2>4, <2>6, SameTrace
  <2> QED BY <2>2, <2>6, <2>7, <2>8, <2>9
<1> QED BY <1>1, <1>5, <1>6 DEF BackingPassIsTrue

\* qwen_backing_cache_diag.py passes no run but a whole one, of both arms and
\* without a signal, in which the cache in RAM, and it alone, was continued.
THEOREM BackingPassTrue == BackingSpec => []BackingPassIsTrue
<1>1. BackingInit => ArmsInv BY ArmsStart
<1>2. ArmsInv /\ [BackingNext]_backing_vars => ArmsInv' BY ArmsStep
<1>3. ArmsInv => BackingPassIsTrue BY ArmsInvPass
<1> QED BY <1>1, <1>2, <1>3, PTL DEF BackingSpec

\* What the server can have done for a request, and the row it can have left.
Dids == [slot : {0, 1}, reused : BOOLEAN, marks : SUBSET {"A", "B"},
         trace : {<<[id |-> marker], [id |-> x]>> : marker \in Nat, x \in {0, 1}}]
PrefixRows == {PrefixRow(i, expected, d, answer) :
                 i \in 1..11, expected \in {NoValue, 0, 1}, d \in Dids, answer \in PrefixAnswers}

\* A row says of its request what the server did, but for the slot a liar names.
RowIsTrue(i, row, d) ==
  /\ row.case = Sequence[i]
  /\ row.marks = d.marks /\ row.trace = d.trace /\ row.cache = CacheCount(d)
  /\ row.reported \in {NoValue, 0, 1}
  /\ pserver # "liar" => row.reported \in {NoValue, d.slot}
  /\ i <= 6 => row.expected = Sequence[i].slot

\* The slot expected of a family is the one its first routed request named.
Kept(i, first) ==
  Len(prows) >= i /\ prows[first].reported # NoValue => prows[i].expected = prows[first].reported
AutoKept ==
  /\ ppc = "run" /\ Len(prows) <= 6 => auto = [f \in {"A", "B"} |-> NoValue]
  /\ Len(prows) >= AutoA => prows[AutoA].reported \in {NoValue, auto["A"]}
  /\ Len(prows) = AutoA => auto["B"] = NoValue
  /\ Len(prows) >= AutoB => prows[AutoB].reported \in {NoValue, auto["B"]}
  /\ Kept(9, AutoA) /\ Kept(10, AutoB) /\ Kept(AutoFinal, AutoA)

\* One slot for two conversations keeps neither.
LiarForgets ==
  pserver = "liar" => /\ Len(did) = 2 /\ ppc = "run" => slots[0] # "A"
                      /\ Len(did) >= 3 => ~did[3].reused

PrefixTypes ==
  /\ pstep \in Nat /\ ppc \in {"run", "classify", "exit"}
  /\ slots \in [{0, 1} -> {"A", "B", "C", "none"}] /\ lru \in {<<0, 1>>, <<1, 0>>}
  /\ auto \in [{"A", "B"} -> {NoValue, 0, 1}]
  /\ did \in Seq(Dids) /\ prows \in Seq(PrefixRows)

PrefixPlace ==
  /\ ppc = "run" => pstep <= 11 /\ Len(did) = pstep - 1 /\ Len(prows) = pstep - 1
  /\ ppc = "classify" \/ pexit = 0 => Len(did) = 11 /\ Len(prows) = 11
  /\ ppc # "exit" => pexit = NoValue
  /\ Len(prows) \in {0, Len(did)} /\ Len(prows) <= 11

PrefixInv ==
  /\ PrefixTypes /\ PrefixPlace /\ AutoKept /\ LiarForgets
  /\ \A i \in 1..Len(prows) : RowIsTrue(i, prows[i], did[i])
  /\ pexit = 0 => PrefixFailures(prows) = {}

-----------------------------------------------------------------------------
\* A request, field by field.
Asks(i, family, marker, warm, routing, slot) ==
  /\ Sequence[i].family = family /\ Sequence[i].marker = marker /\ Sequence[i].warm = warm
  /\ Sequence[i].routing = routing /\ Sequence[i].slot = slot

\* The eleven requests, one by one.
LEMMA Requests ==
  /\ Asks(1, "A", 1001, FALSE, "explicit", 0)
  /\ Asks(2, "B", 2001, FALSE, "explicit", 1)
  /\ Asks(3, "A", 1002, TRUE, "explicit", 0)
  /\ Asks(4, "B", 2002, TRUE, "explicit", 1)
  /\ Asks(5, "A", 1003, TRUE, "explicit", 0)
  /\ Asks(6, "A", 1003, FALSE, "cold", 1)
  /\ Asks(7, "A", 1001, FALSE, "automatic", NoValue)
  /\ Asks(8, "B", 2001, FALSE, "automatic", NoValue)
  /\ Asks(9, "A", 1002, TRUE, "automatic", NoValue)
  /\ Asks(10, "B", 2002, TRUE, "automatic", NoValue)
  /\ Asks(11, "A", 1003, TRUE, "automatic", NoValue)
<1> DEFINE Case(family, marker, warm) == [family |-> family, marker |-> marker, warm |-> warm]
           c1 == Case("A", 1001, FALSE)
           c2 == Case("B", 2001, FALSE)
           c3 == Case("A", 1002, TRUE)
           c4 == Case("B", 2002, TRUE)
           c5 == Case("A", 1003, TRUE)
           c6 == Case("A", 1003, FALSE)
           round == <<c1, c2, c3, c4, c5>>
           Routed(case, routing, slot) ==
             [family |-> case.family, marker |-> case.marker, warm |-> case.warm,
              routing |-> routing, slot |-> slot]
           first(i) == Routed(round[i], "explicit", Slot(round[i].family))
           cold == Routed(c6, "cold", Slot("B"))
           second(i) == Routed(round[i - 6], "automatic", NoValue)
<1>1. Sequence = [i \in 1..11 |-> IF i <= 5 THEN first(i) ELSE IF i = 6 THEN cold ELSE second(i)]
  BY DEF Sequence
<1>2. Slot("A") = 0 /\ Slot("B") = 1 BY DEF Slot
<1>3a. c1.family = "A" /\ c1.marker = 1001 /\ c1.warm = FALSE OBVIOUS
<1>3b. c2.family = "B" /\ c2.marker = 2001 /\ c2.warm = FALSE OBVIOUS
<1>3c. c3.family = "A" /\ c3.marker = 1002 /\ c3.warm = TRUE OBVIOUS
<1>3d. c4.family = "B" /\ c4.marker = 2002 /\ c4.warm = TRUE OBVIOUS
<1>3e. c5.family = "A" /\ c5.marker = 1003 /\ c5.warm = TRUE OBVIOUS
<1>3f. c6.family = "A" /\ c6.marker = 1003 /\ c6.warm = FALSE OBVIOUS
<1> HIDE DEF c1, c2, c3, c4, c5, c6
<1>4. round[1] = c1 /\ round[2] = c2 /\ round[3] = c3 /\ round[4] = c4 /\ round[5] = c5 OBVIOUS
<1> HIDE DEF round
<1>5. 7 - 6 = 1 /\ 8 - 6 = 2 /\ 9 - 6 = 3 /\ 10 - 6 = 4 /\ 11 - 6 = 5 OBVIOUS
<1>6. \A c, r, x : /\ Routed(c, r, x).family = c.family /\ Routed(c, r, x).marker = c.marker
                  /\ Routed(c, r, x).warm = c.warm /\ Routed(c, r, x).routing = r
                  /\ Routed(c, r, x).slot = x
  OBVIOUS
<1> HIDE DEF first, cold, second
<1>7. /\ Sequence[1] = first(1) /\ Sequence[2] = first(2) /\ Sequence[3] = first(3)
      /\ Sequence[4] = first(4) /\ Sequence[5] = first(5) /\ Sequence[6] = cold
      /\ Sequence[7] = second(7) /\ Sequence[8] = second(8) /\ Sequence[9] = second(9)
      /\ Sequence[10] = second(10) /\ Sequence[11] = second(11)
  BY <1>1
<1> HIDE DEF Routed
<1>8. Asks(1, "A", 1001, FALSE, "explicit", 0)
  <2>1. Sequence[1] = Routed(c1, "explicit", 0)
    BY <1>2, <1>3a, <1>4, <1>7 DEF first
  <2> QED BY <1>3a, <1>6, <2>1 DEF Asks
<1>9. Asks(2, "B", 2001, FALSE, "explicit", 1)
  <2>1. Sequence[2] = Routed(c2, "explicit", 1)
    BY <1>2, <1>3b, <1>4, <1>7 DEF first
  <2> QED BY <1>3b, <1>6, <2>1 DEF Asks
<1>10. Asks(3, "A", 1002, TRUE, "explicit", 0)
  <2>1. Sequence[3] = Routed(c3, "explicit", 0)
    BY <1>2, <1>3c, <1>4, <1>7 DEF first
  <2> QED BY <1>3c, <1>6, <2>1 DEF Asks
<1>11. Asks(4, "B", 2002, TRUE, "explicit", 1)
  <2>1. Sequence[4] = Routed(c4, "explicit", 1)
    BY <1>2, <1>3d, <1>4, <1>7 DEF first
  <2> QED BY <1>3d, <1>6, <2>1 DEF Asks
<1>12. Asks(5, "A", 1003, TRUE, "explicit", 0)
  <2>1. Sequence[5] = Routed(c5, "explicit", 0)
    BY <1>2, <1>3e, <1>4, <1>7 DEF first
  <2> QED BY <1>3e, <1>6, <2>1 DEF Asks
<1>13. Asks(6, "A", 1003, FALSE, "cold", 1)
  <2>1. Sequence[6] = Routed(c6, "cold", 1)
    BY <1>2, <1>7 DEF cold
  <2> QED BY <1>3f, <1>6, <2>1 DEF Asks
<1>14. Asks(7, "A", 1001, FALSE, "automatic", NoValue)
  <2>1. Sequence[7] = Routed(c1, "automatic", NoValue)
    BY <1>4, <1>5, <1>7 DEF second
  <2> QED BY <1>3a, <1>6, <2>1 DEF Asks
<1>15. Asks(8, "B", 2001, FALSE, "automatic", NoValue)
  <2>1. Sequence[8] = Routed(c2, "automatic", NoValue)
    BY <1>4, <1>5, <1>7 DEF second
  <2> QED BY <1>3b, <1>6, <2>1 DEF Asks
<1>16. Asks(9, "A", 1002, TRUE, "automatic", NoValue)
  <2>1. Sequence[9] = Routed(c3, "automatic", NoValue)
    BY <1>4, <1>5, <1>7 DEF second
  <2> QED BY <1>3c, <1>6, <2>1 DEF Asks
<1>17. Asks(10, "B", 2002, TRUE, "automatic", NoValue)
  <2>1. Sequence[10] = Routed(c4, "automatic", NoValue)
    BY <1>4, <1>5, <1>7 DEF second
  <2> QED BY <1>3d, <1>6, <2>1 DEF Asks
<1>18. Asks(11, "A", 1003, TRUE, "automatic", NoValue)
  <2>1. Sequence[11] = Routed(c5, "automatic", NoValue)
    BY <1>4, <1>5, <1>7 DEF second
  <2> QED BY <1>3e, <1>6, <2>1 DEF Asks
<1> QED BY <1>8, <1>9, <1>10, <1>11, <1>12, <1>13, <1>14, <1>15, <1>16, <1>17, <1>18 DEF Asks

\* What a request is, whichever it is.
LEMMA RequestType ==
  ASSUME NEW i \in 1..11
  PROVE  /\ Sequence[i].family \in {"A", "B"} /\ Sequence[i].marker \in Nat
         /\ Sequence[i].slot \in {NoValue, 0, 1}
         /\ Sequence[i].routing \in {"explicit", "cold", "automatic"}
         /\ Sequence[i].routing = "automatic" <=> i > 6
         /\ i <= 6 => Sequence[i].slot # NoValue
<1> DEFINE Typed(c) == /\ c.family \in {"A", "B"} /\ c.marker \in Nat
                       /\ c.slot \in {NoValue, 0, 1}
                       /\ c.routing \in {"explicit", "cold", "automatic"}
<1>2a. Typed(Sequence[1]) BY Requests DEF Asks
<1>2b. Typed(Sequence[2]) BY Requests DEF Asks
<1>2c. Typed(Sequence[3]) BY Requests DEF Asks
<1>2d. Typed(Sequence[4]) BY Requests DEF Asks
<1>2e. Typed(Sequence[5]) BY Requests DEF Asks
<1>2f. Typed(Sequence[6]) BY Requests DEF Asks
<1>2g. Typed(Sequence[7]) BY Requests DEF Asks
<1>2h. Typed(Sequence[8]) BY Requests DEF Asks
<1>2i. Typed(Sequence[9]) BY Requests DEF Asks
<1>2j. Typed(Sequence[10]) BY Requests DEF Asks
<1>2k. Typed(Sequence[11]) BY Requests DEF Asks
<1>5. /\ Sequence[1].routing = "explicit" /\ Sequence[1].slot = 0
      /\ Sequence[2].routing = "explicit" /\ Sequence[2].slot = 1
      /\ Sequence[3].routing = "explicit" /\ Sequence[3].slot = 0
      /\ Sequence[4].routing = "explicit" /\ Sequence[4].slot = 1
      /\ Sequence[5].routing = "explicit" /\ Sequence[5].slot = 0
      /\ Sequence[6].routing = "cold" /\ Sequence[6].slot = 1
  BY Requests DEF Asks
<1>6. /\ Sequence[7].routing = "automatic" /\ Sequence[8].routing = "automatic"
      /\ Sequence[9].routing = "automatic" /\ Sequence[10].routing = "automatic"
      /\ Sequence[11].routing = "automatic"
  BY Requests DEF Asks
<1>7. i \in {1, 2, 3, 4, 5, 6} \/ i \in {7, 8, 9, 10, 11} OBVIOUS
<1> HIDE DEF Typed
<1>8. Typed(Sequence[i]) BY <1>7, <1>2a, <1>2b, <1>2c, <1>2d, <1>2e, <1>2f, <1>2g, <1>2h, <1>2i, <1>2j, <1>2k
<1>9. (Sequence[i].routing = "automatic") <=> (i > 6) BY <1>5, <1>6, <1>7
<1>10. i <= 6 => Sequence[i].slot # NoValue BY <1>5, <1>7 DEF NoValue
<1> QED BY <1>8, <1>9, <1>10 DEF Typed

\* Traces of the one form the server's answers have are their ids.
LEMMA TwoTokens ==
  ASSUME NEW d \in Dids, NEW e \in Dids, first_token_divergence(d.trace, e.trace) = NoValue
  PROVE  d.trace = e.trace
<1>1. PICK m \in Nat, x \in {0, 1} : d.trace = <<[id |-> m], [id |-> x]>> BY DEF Dids
<1>2. PICK n \in Nat, y \in {0, 1} : e.trace = <<[id |-> n], [id |-> y]>> BY DEF Dids
<1> DEFINE s == <<[id |-> m], [id |-> x]>>
           t == <<[id |-> n], [id |-> y]>>
<1>3. Len(s) = 2 /\ Len(t) = 2 OBVIOUS
<1>4. s[1].id = m /\ s[2].id = x /\ t[1].id = n /\ t[2].id = y OBVIOUS
<1>5. first_token_divergence(s, t) = NoValue BY <1>1, <1>2
<1> HIDE DEF s, t
<1>6. s[1].id = t[1].id /\ s[2].id = t[2].id
  <2>1. Len(s) \in Nat /\ Len(t) \in Nat BY <1>3
  <2>2. \A i \in 1..Len(s) : s[i].id = t[i].id BY <1>5, <2>1, NoDivergence DEF SameIds
  <2> QED BY <1>3, <2>2
<1>7. m = n /\ x = y BY <1>4, <1>6
<1> QED BY <1>1, <1>2, <1>7

\* A report without a failure has a passing row of each request, two equal
\* comparisons, and two slots.
LEMMA NoFailure ==
  ASSUME NEW set, DOMAIN set = 1..11, PrefixFailures(set) = {}
  PROVE  /\ \A i \in 1..11 : RowPasses(set[i])
         /\ exact_output_comparison(set[FinalCached], set[FinalCold])
         /\ exact_output_comparison(set[AutoFinal], set[FinalCold])
         /\ set[AutoA].reported \notin {NoValue, set[AutoB].reported}
<1>1. \A i \in 1..11 : RowPasses(set[i])
  <2> SUFFICES ASSUME NEW i \in 1..11, ~RowPasses(set[i]) PROVE FALSE OBVIOUS
  <2>1. <<"row", i>> \in PrefixFailures(set) BY DEF PrefixFailures
  <2> QED BY <2>1
<1>2. exact_output_comparison(set[FinalCached], set[FinalCold])
  <2> SUFFICES ASSUME ~exact_output_comparison(set[FinalCached], set[FinalCold]) PROVE FALSE
    OBVIOUS
  <2>1. <<"cached A", FinalCached>> \in PrefixFailures(set) BY DEF PrefixFailures
  <2> QED BY <2>1
<1>3. exact_output_comparison(set[AutoFinal], set[FinalCold])
  <2> SUFFICES ASSUME ~exact_output_comparison(set[AutoFinal], set[FinalCold]) PROVE FALSE
    OBVIOUS
  <2>1. <<"automatic A", AutoFinal>> \in PrefixFailures(set) BY DEF PrefixFailures
  <2> QED BY <2>1
<1>4. set[AutoA].reported \notin {NoValue, set[AutoB].reported}
  <2> SUFFICES ASSUME set[AutoA].reported \in {NoValue, set[AutoB].reported} PROVE FALSE
    OBVIOUS
  <2>1. <<"routing", AutoB>> \in PrefixFailures(set) BY DEF PrefixFailures
  <2> QED BY <2>1
<1> QED BY <1>1, <1>2, <1>3, <1>4

\* What the rows of a passing report say is so, for only a liar says otherwise,
\* and its one slot fails the first resumed request.
LEMMA PrefixInvPass == PrefixInv => PrefixPassIsTrue
<1> SUFFICES ASSUME PrefixInv, pexit = 0 PROVE PrefixPassIsTrue BY DEF PrefixPassIsTrue
<1>1. Len(did) = 11 /\ Len(prows) = 11 BY DEF PrefixInv, PrefixPlace
<1>2. did \in Seq(Dids) /\ DOMAIN prows = 1..11
  <2>1. did \in Seq(Dids) /\ prows \in Seq(PrefixRows) BY DEF PrefixInv, PrefixTypes
  <2> QED BY <1>1, <2>1, LenProperties
<1>3. \A i \in 1..11 : did[i] \in Dids BY <1>1, <1>2, ElementOfSeq
<1>4. \A i \in 1..11 : RowIsTrue(i, prows[i], did[i]) BY <1>1 DEF PrefixInv
<1>5. /\ \A i \in 1..11 : RowPasses(prows[i])
      /\ exact_output_comparison(prows[FinalCached], prows[FinalCold])
      /\ exact_output_comparison(prows[AutoFinal], prows[FinalCold])
      /\ prows[AutoA].reported \notin {NoValue, prows[AutoB].reported}
  <2>1. PrefixFailures(prows) = {} BY DEF PrefixInv
  <2> QED BY <1>2, <2>1, NoFailure
<1>6. ASSUME NEW i \in 1..11
      PROVE  (did[i].reused <=> Sequence[i].warm) /\ did[i].marks = {Sequence[i].family}
  <2>1. RowPasses(prows[i]) /\ RowIsTrue(i, prows[i], did[i]) BY <1>4, <1>5
  <2>2. /\ prows[i].case = Sequence[i] /\ prows[i].marks = did[i].marks
        /\ prows[i].cache = CacheCount(did[i])
    BY <2>1 DEF RowIsTrue
  <2>3. did[i].marks = {Sequence[i].family} BY <2>1, <2>2 DEF RowPasses
  <2>4. IF Sequence[i].warm THEN CacheCount(did[i]) >= 70 ELSE CacheCount(did[i]) = 0
    BY <2>1, <2>2 DEF RowPasses
  <2>5. CacheCount(did[i]) = IF ~did[i].reused THEN 0 ELSE IF pserver = "half" THEN 40 ELSE 90
    BY DEF CacheCount
  <2>6. CASE Sequence[i].warm
    <3>1. CacheCount(did[i]) >= 70 BY <2>4, <2>6
    <3>2. did[i].reused
      <4> SUFFICES ASSUME ~did[i].reused PROVE FALSE OBVIOUS
      <4>1. CacheCount(did[i]) = 0 BY <2>5
      <4> QED BY <3>1, <4>1
    <3> QED BY <2>3, <2>6, <3>2
  <2>7. CASE ~Sequence[i].warm
    <3>1. CacheCount(did[i]) = 0 BY <2>4, <2>7
    <3>2. ~did[i].reused
      <4> SUFFICES ASSUME did[i].reused PROVE FALSE OBVIOUS
      <4>1. CacheCount(did[i]) \in {40, 90} BY <2>5
      <4> QED BY <3>1, <4>1
    <3> QED BY <2>3, <2>7, <3>2
  <2> QED BY <2>6, <2>7
<1>7. pserver # "liar"
  <2>1. Sequence[3].warm BY Requests DEF Asks
  <2>2. did[3].reused BY <1>6, <2>1
  <2>3. pserver = "liar" => ~did[3].reused
    <3>1. Len(did) >= 3 BY <1>1
    <3> QED BY <3>1 DEF PrefixInv, LiarForgets
  <2> QED BY <2>2, <2>3
<1>8. \A i \in 1..11 : prows[i].reported = did[i].slot /\ did[i].slot # NoValue
  BY <1>4, <1>5, <1>7 DEF RowIsTrue, RowPasses
<1>9. \A i \in 1..11 : prows[i].expected = NoValue \/ did[i].slot = prows[i].expected
  BY <1>5, <1>8 DEF RowPasses
<1>10. \A i \in 1..6 : did[i].slot = Sequence[i].slot
  BY <1>4, <1>9, RequestType DEF RowIsTrue
<1>11. /\ did[9].slot = did[AutoA].slot /\ did[10].slot = did[AutoB].slot
       /\ did[AutoFinal].slot = did[AutoA].slot /\ did[AutoA].slot # did[AutoB].slot
  <2>1. Kept(9, AutoA) /\ Kept(10, AutoB) /\ Kept(AutoFinal, AutoA) BY DEF PrefixInv, AutoKept
  <2>2. 9 <= Len(prows) /\ 10 <= Len(prows) /\ 11 <= Len(prows) BY <1>1
  <2>3. /\ prows[9].expected = did[AutoA].slot /\ prows[10].expected = did[AutoB].slot
        /\ prows[AutoFinal].expected = did[AutoA].slot
    BY <1>8, <2>1, <2>2 DEF Kept, AutoA, AutoB, AutoFinal
  <2>4. did[AutoA].slot # NoValue /\ did[AutoB].slot # NoValue BY <1>8 DEF AutoA, AutoB
  <2>5. did[AutoA].slot # did[AutoB].slot BY <1>5, <1>8 DEF AutoA, AutoB
  <2> QED BY <1>9, <2>3, <2>4, <2>5 DEF AutoFinal
<1>12. ASSUME NEW i \in 1..11, NEW j \in 1..11,
              Sequence[i].routing = Sequence[j].routing, Sequence[i].family # Sequence[j].family
       PROVE  did[i].slot # did[j].slot
  <2> DEFINE home(f, r) == IF r = "explicit" THEN IF f = "A" THEN 0 ELSE 1
                           ELSE IF f = "A" THEN did[AutoA].slot ELSE did[AutoB].slot
  <2>1. ASSUME NEW k \in 1..11, k # 6
        PROVE  did[k].slot = home(Sequence[k].family, Sequence[k].routing)
    <3>1. CASE k <= 5
      <4>1. k \in {1, 2, 3, 4, 5} BY <3>1
      <4>2. did[k].slot = Sequence[k].slot BY <1>10, <3>1
      <4>3. /\ Sequence[k].routing = "explicit"
            /\ Sequence[k].slot = IF Sequence[k].family = "A" THEN 0 ELSE 1
        BY <4>1, Requests DEF Asks
      <4> QED BY <4>2, <4>3
    <3>2. CASE k > 5
      <4>1. k \in {7, 8, 9, 10, 11} BY <2>1, <3>2
      <4>2. /\ Sequence[k].routing = "automatic"
            /\ k \in {7, 9, 11} => Sequence[k].family = "A"
            /\ k \in {8, 10} => Sequence[k].family = "B"
        BY <4>1, Requests DEF Asks
      <4>3. /\ k \in {7, 9, 11} => did[k].slot = did[AutoA].slot
            /\ k \in {8, 10} => did[k].slot = did[AutoB].slot
        BY <1>11 DEF AutoA, AutoB, AutoFinal
      <4> QED BY <4>1, <4>2, <4>3
    <3> QED BY <3>1, <3>2
  <2>2. i # 6 /\ j # 6
    <3>1. \A k \in 1..11 : k # 6 => Sequence[k].routing # "cold"
      <4> SUFFICES ASSUME NEW k \in 1..11, k # 6 PROVE Sequence[k].routing # "cold" OBVIOUS
      <4>1. k \in {1, 2, 3, 4, 5} \/ k \in {7, 8, 9, 10, 11} OBVIOUS
      <4>2. k \in {1, 2, 3, 4, 5} => Sequence[k].routing = "explicit" BY Requests DEF Asks
      <4>3. k \in {7, 8, 9, 10, 11} => Sequence[k].routing = "automatic" BY Requests DEF Asks
      <4> QED BY <4>1, <4>2, <4>3
    <3>2. Sequence[6].routing = "cold" BY Requests DEF Asks
    <3> QED BY <1>12, <3>1, <3>2
  <2>3. did[i].slot = home(Sequence[i].family, Sequence[i].routing) BY <2>1, <2>2
  <2>4. did[j].slot = home(Sequence[j].family, Sequence[i].routing) BY <1>12, <2>1, <2>2
  <2>5. Sequence[i].family \in {"A", "B"} /\ Sequence[j].family \in {"A", "B"} BY RequestType
  <2> QED BY <1>11, <1>12, <2>3, <2>4, <2>5
<1>13. did[FinalCached].trace = did[FinalCold].trace /\ did[AutoFinal].trace = did[FinalCold].trace
  <2>1. /\ first_token_divergence(did[FinalCold].trace, did[FinalCached].trace) = NoValue
        /\ first_token_divergence(did[FinalCold].trace, did[AutoFinal].trace) = NoValue
    BY <1>4, <1>5 DEF exact_output_comparison, RowIsTrue, FinalCold, FinalCached, AutoFinal
  <2>2. did[FinalCold] \in Dids /\ did[FinalCached] \in Dids /\ did[AutoFinal] \in Dids
    BY <1>3 DEF FinalCold, FinalCached, AutoFinal
  <2> QED BY <2>1, <2>2, TwoTokens
<1> QED BY <1>1, <1>6, <1>12, <1>13 DEF PrefixPassIsTrue

Holds == {"A", "B", "C", "none"}

\* Every request is served in one of the two slots.
LEMMA ServingSlot ==
  ASSUME PrefixTypes, NEW i \in 1..11, NEW held
  PROVE  Serving(Sequence[i], held) \in {0, 1}
<1>1. lru[1] \in {0, 1} BY DEF PrefixTypes
<1>2. Sequence[i].slot \in {NoValue, 0, 1} BY RequestType
<1>3. (\E s \in {0, 1} : held[s] = Sequence[i].family)
        => (CHOOSE s \in {0, 1} : held[s] = Sequence[i].family) \in {0, 1}
  OBVIOUS
<1> QED BY <1>1, <1>2, <1>3 DEF Serving

\* What the server did for a request.
LEMMA ServedType ==
  ASSUME PrefixTypes, NEW i \in 1..11, NEW held
  PROVE  /\ Served(Sequence[i], held) \in Dids
         /\ Served(Sequence[i], held).slot \in {0, 1}
         /\ Served(Sequence[i], held).slot = Serving(Sequence[i], held)
         /\ Served(Sequence[i], held).reused
              <=> held[Serving(Sequence[i], held)] = Sequence[i].family /\ pserver # "nocache"
<1> DEFINE case == Sequence[i]
           s == Serving(case, held)
           reused == held[s] = case.family /\ pserver # "nocache"
           leaks == reused /\ pserver = "leaks"
           drifts == reused /\ (pserver = "drifts" \/ (pserver = "driftsB" /\ case.family = "B"))
           marks == {case.family} \cup (IF leaks THEN {Other(case.family)} ELSE {})
           x == IF drifts THEN 1 ELSE 0
           trace == <<[id |-> case.marker], [id |-> x]>>
<1>1. Served(case, held) = [slot |-> s, reused |-> reused, marks |-> marks, trace |-> trace]
  BY DEF Served
<1>2. s \in {0, 1} BY ServingSlot
<1>3. case.family \in {"A", "B"} /\ case.marker \in Nat BY RequestType
<1>4. marks \in SUBSET {"A", "B"} BY <1>3 DEF Other
<1>5. x \in {0, 1} OBVIOUS
<1> HIDE DEF x
<1>6. trace \in {<<[id |-> marker], [id |-> y]>> : marker \in Nat, y \in {0, 1}} BY <1>3, <1>5
<1>7. reused \in BOOLEAN OBVIOUS
<1> HIDE DEF s, marks, trace, case, reused
<1>8. Served(case, held) \in Dids BY <1>1, <1>2, <1>4, <1>6, <1>7 DEF Dids
<1>9. Served(case, held).slot = s /\ Served(case, held).reused = reused BY <1>1
<1>10. Served(case, held).reused <=> held[s] = case.family /\ pserver # "nocache"
  BY <1>9 DEF reused
<1> QED BY <1>2, <1>8, <1>9, <1>10 DEF case, s

\* The row of a request says what the server did, but for the slot a liar names.
LEMMA RowSays ==
  ASSUME NEW i \in 1..11, NEW expected, NEW d \in Dids, NEW answer
  PROVE  LET row == PrefixRow(i, expected, d, answer)
         IN /\ row.case = Sequence[i] /\ row.expected = expected
            /\ row.marks = d.marks /\ row.trace = d.trace /\ row.cache = CacheCount(d)
            /\ row.reported \in {NoValue, 0, 1}
            /\ pserver # "liar" => row.reported \in {NoValue, d.slot}
<1>1. d.slot \in {0, 1} BY DEF Dids
<1>2. Sequence[i].slot \in {NoValue, 0, 1} BY RequestType
<1> QED BY <1>1, <1>2 DEF PrefixRow

\* What a slot holds after the erasures.
LEMMA ErasedType ==
  ASSUME PrefixTypes, NEW i \in 1..11
  PROVE  ErasedSlots(i) \in [{0, 1} -> Holds]
BY DEF PrefixTypes, ErasedSlots, Holds

\* Before the first request there is no row, and no slot is kept for a family.
LEMMA PrefixStart == PrefixInit => PrefixInv
<1> SUFFICES ASSUME PrefixInit PROVE PrefixInv OBVIOUS
<1>1. PrefixTypes
  <2>1. did \in Seq(Dids) /\ prows \in Seq(PrefixRows) BY DEF PrefixInit
  <2>2. slots \in [{0, 1} -> {"A", "B", "C", "none"}] BY DEF PrefixInit
  <2>3. auto \in [{"A", "B"} -> {NoValue, 0, 1}] BY DEF PrefixInit
  <2> QED BY <2>1, <2>2, <2>3 DEF PrefixInit, PrefixTypes
<1>2. Len(did) = 0 /\ Len(prows) = 0 /\ pexit = NoValue BY DEF PrefixInit
<1>3. PrefixPlace BY <1>2 DEF PrefixInit, PrefixPlace, NoValue
<1>4. AutoKept BY <1>2 DEF PrefixInit, AutoKept, Kept, AutoA, AutoB, AutoFinal
<1>5. LiarForgets BY <1>2 DEF LiarForgets
<1>6. \A i \in 1..Len(prows) : RowIsTrue(i, prows[i], did[i]) BY <1>2
<1>7. pexit # 0 BY <1>2 DEF NoValue
<1> QED BY <1>1, <1>3, <1>4, <1>5, <1>6, <1>7 DEF PrefixInv

\* A run has one server, and so one set of rows.
LEMMA RowsOfOne ==
  ASSUME pserver' = pserver
  PROVE  PrefixRows' = PrefixRows
<1>1. \A i, expected, d, answer : PrefixRow(i, expected, d, answer)' = PrefixRow(i, expected, d, answer)
  BY DEF PrefixRow, CacheCount
<1> QED BY <1>1 DEF PrefixRows

\* A request that is answered adds a true row, and what is kept of the first
\* routed slots and of a liar's one slot still holds.
LEMMA RequestKept ==
  ASSUME PrefixInv, NEW answer \in PrefixAnswers, Request(answer)
  PROVE  PrefixInv'
<1> DEFINE case == Sequence[pstep]
           held == ErasedSlots(pstep)
           d == Served(case, held)
           expected == IF case.routing = "automatic" THEN auto[case.family] ELSE case.slot
           row == PrefixRow(pstep, expected, d, answer)
           n == Len(prows)
<1>1. /\ ppc = "run"
      /\ slots' = [held EXCEPT ![d.slot] = case.family]
      /\ lru' = IF d.slot = lru[1] THEN <<lru[2], lru[1]>> ELSE lru
      /\ prows' = Append(prows, row) /\ did' = Append(did, d)
      /\ auto' = IF case.routing = "automatic" /\ auto[case.family] = NoValue
                 THEN [auto EXCEPT ![case.family] = row.reported] ELSE auto
      /\ pstep' = pstep + 1
      /\ ppc' = IF pstep = 11 THEN "classify" ELSE "run"
      /\ UNCHANGED <<pserver, preport, pexit>>
  BY DEF Request
<1>2. PrefixTypes BY DEF PrefixInv
<1>3. pstep \in 1..11 /\ Len(did) = n /\ n = pstep - 1
  <2>1. Len(prows) \in Nat /\ pstep \in Nat
    <3>1. prows \in Seq(PrefixRows) BY <1>2 DEF PrefixTypes
    <3> QED BY <1>2, <3>1, LenProperties DEF PrefixTypes
  <2> QED BY <1>1, <2>1 DEF PrefixInv, PrefixPlace
<1>4. /\ case.family \in {"A", "B"} /\ case.slot \in {NoValue, 0, 1}
      /\ (case.routing = "automatic") <=> (pstep > 6)
      /\ pstep <= 6 => case.slot # NoValue
  BY <1>3, RequestType
<1>5. /\ d \in Dids /\ d.slot \in {0, 1} /\ d.slot = Serving(case, held)
      /\ d.reused <=> held[Serving(case, held)] = case.family /\ pserver # "nocache"
  BY <1>2, <1>3, ServedType
<1>6. held \in [{0, 1} -> Holds] BY <1>2, <1>3, ErasedType
<1>7. auto \in [{"A", "B"} -> {NoValue, 0, 1}] BY <1>2 DEF PrefixTypes
<1>8. expected \in {NoValue, 0, 1} BY <1>4, <1>7
<1> HIDE DEF d, expected, held
<1>9. /\ row.case = case /\ row.expected = expected
      /\ row.marks = d.marks /\ row.trace = d.trace /\ row.cache = CacheCount(d)
      /\ row.reported \in {NoValue, 0, 1}
      /\ pserver # "liar" => row.reported \in {NoValue, d.slot}
  BY <1>3, <1>5, RowSays
<1>10. row \in PrefixRows BY <1>3, <1>5, <1>8 DEF PrefixRows
<1> HIDE DEF row, case, n
<1>11. /\ prows' \in Seq(PrefixRows) /\ Len(prows') = n + 1 /\ prows'[n + 1] = row
       /\ \A i \in 1..n : prows'[i] = prows[i]
  <2>1. prows \in Seq(PrefixRows) BY <1>2 DEF PrefixTypes
  <2> QED BY <1>1, <1>10, <2>1, AppendProperties DEF n
<1>12. /\ did' \in Seq(Dids) /\ Len(did') = n + 1 /\ did'[n + 1] = d
       /\ \A i \in 1..n : did'[i] = did[i]
  <2>1. did \in Seq(Dids) BY <1>2 DEF PrefixTypes
  <2> QED BY <1>1, <1>3, <1>5, <2>1, AppendProperties DEF n
<1>13. n + 1 = pstep BY <1>3
<1>14. PrefixTypes'
  <2>1. pstep' \in Nat /\ ppc' \in {"run", "classify", "exit"} BY <1>1, <1>3
  <2>2. slots' \in [{0, 1} -> {"A", "B", "C", "none"}] BY <1>1, <1>4, <1>5, <1>6 DEF Holds
  <2>3. lru' \in {<<0, 1>>, <<1, 0>>} BY <1>1, <1>2 DEF PrefixTypes
  <2>4. auto' \in [{"A", "B"} -> {NoValue, 0, 1}] BY <1>1, <1>4, <1>7, <1>9
  <2>5. prows' \in Seq(PrefixRows') BY <1>1, <1>11, RowsOfOne
  <2>6. did' \in Seq(Dids) BY <1>12
  <2> QED BY <2>1, <2>2, <2>3, <2>4, <2>5, <2>6 DEF PrefixTypes
<1>15. pexit' = NoValue /\ pexit = NoValue BY <1>1 DEF PrefixInv, PrefixPlace
<1>16. PrefixPlace'
  <2>1. Len(prows') = pstep /\ Len(did') = pstep BY <1>11, <1>12, <1>13
  <2>2. ppc' = "run" => pstep' <= 11 /\ Len(did') = pstep' - 1 /\ Len(prows') = pstep' - 1
    BY <1>1, <1>3, <2>1
  <2>3. ppc' = "classify" => Len(did') = 11 /\ Len(prows') = 11 BY <1>1, <2>1
  <2>4. Len(prows') \in {0, Len(did')} /\ Len(prows') <= 11 BY <1>3, <2>1
  <2> QED BY <1>1, <1>15, <2>2, <2>3, <2>4 DEF PrefixPlace, NoValue
<1>17. ASSUME NEW i \in 1..Len(prows') PROVE RowIsTrue(i, prows[i], did[i])'
  <2>1. CASE i = pstep
    <3>1. prows'[i] = row /\ did'[i] = d BY <1>11, <1>12, <1>13, <2>1
    <3>2. i <= 6 => expected = Sequence[i].slot BY <1>4, <2>1 DEF expected, case
    <3>4. RowIsTrue(i, row, d) BY <1>9, <2>1, <3>2 DEF RowIsTrue, case
    <3>5. (\A r, e : RowIsTrue(i, r, e) => (prows'[i] = r /\ did'[i] = e => RowIsTrue(i, prows[i], did[i])'))
      BY <1>1 DEF RowIsTrue, CacheCount
    <3> QED BY <3>1, <3>4, <3>5
  <2>2. CASE i # pstep
    <3>1. i \in 1..n BY <1>3, <1>11, <2>2
    <3>2. RowIsTrue(i, prows[i], did[i]) BY <3>1 DEF PrefixInv, n
    <3>3. prows'[i] = prows[i] /\ did'[i] = did[i] BY <1>11, <1>12, <3>1
    <3> QED BY <1>1, <3>2, <3>3 DEF RowIsTrue, CacheCount
  <2> QED BY <2>1, <2>2
<1>18. LiarForgets'
  <2> SUFFICES ASSUME pserver = "liar"
               PROVE  /\ Len(did') = 2 /\ ppc' = "run" => slots'[0] # "A"
                      /\ Len(did') >= 3 => ~did'[3].reused
    BY <1>1 DEF LiarForgets
  <2>1. d.slot = 0
    <3>1. Serving(case, held) = 0 BY DEF Serving
    <3> QED BY <1>5, <3>1
  <2>2. Len(did') = pstep BY <1>12, <1>13
  <2>3. Len(did') = 2 => slots'[0] # "A"
    <3>1. pstep = 2 => case.family = "B" BY Requests DEF Asks, case
    <3>2. slots'[0] = case.family BY <1>1, <1>6, <2>1
    <3> QED BY <2>2, <3>1, <3>2
  <2>4. pstep = 3 => ~did'[3].reused
    <3> SUFFICES ASSUME pstep = 3 PROVE ~did'[3].reused OBVIOUS
    <3>1. case.family = "A" BY Requests DEF Asks, case
    <3>2. slots[0] # "A" BY <1>1, <1>3 DEF PrefixInv, LiarForgets
    <3>3. held[0] = slots[0] BY DEF held, ErasedSlots, Erased
    <3>4. ~d.reused BY <1>5, <2>1, <3>1, <3>2, <3>3
    <3> QED BY <1>12, <1>13, <3>4
  <2>5. pstep > 3 => ~did'[3].reused
    <3> SUFFICES ASSUME pstep > 3 PROVE ~did'[3].reused OBVIOUS
    <3>1. ~did[3].reused /\ 3 \in 1..n BY <1>3 DEF PrefixInv, LiarForgets
    <3> QED BY <1>12, <3>1
  <2> QED BY <1>3, <2>2, <2>3, <2>4, <2>5
<1>19. AutoKept'
  <2>1. Len(prows') = pstep /\ prows'[pstep] = row /\ \A i \in 1..pstep - 1 : prows'[i] = prows[i]
    BY <1>3, <1>11, <1>13
  <2>2. AutoKept BY DEF PrefixInv
  <2>3. pstep <= 6 => auto' = auto
    <3> SUFFICES ASSUME pstep <= 6 PROVE auto' = auto OBVIOUS
    <3>1. case.routing # "automatic" BY <1>3, <1>4
    <3> QED BY <1>1, <3>1
  <2>4. pstep <= 7 => auto = [f \in {"A", "B"} |-> NoValue]
    <3>1. pstep <= 7 => n <= 6 BY <1>3
    <3> QED BY <1>1, <2>2, <3>1 DEF AutoKept, n
  <2>5. ASSUME NEW f \in {"A", "B"}
        PROVE  /\ auto'[f] = auto[f] \/ auto[f] = NoValue
               /\ case.family # f => auto'[f] = auto[f]
               /\ pstep > 6 /\ case.family = f /\ auto[f] = NoValue => auto'[f] = row.reported
               /\ pstep > 6 /\ case.family = f => expected = auto[f]
    BY <1>1, <1>4, <1>7 DEF expected
  <2>6. pstep >= 7 => prows'[7].reported \in {NoValue, auto'["A"]}
    <3>1. CASE pstep = 7
      <4>1. case.family = "A" BY <3>1, Requests DEF Asks, case
      <4>2. auto["A"] = NoValue BY <2>4, <3>1
      <4> QED BY <2>1, <2>5, <3>1, <4>1, <4>2
    <3>2. CASE pstep > 7
      <4>1. prows[7].reported \in {NoValue, auto["A"]}
        <5>1. n >= 7 BY <1>3, <3>2
        <5> QED BY <2>2, <5>1 DEF AutoKept, AutoA, n
      <4>2. prows'[7] = prows[7]
        <5>1. 7 \in 1..pstep - 1 BY <1>3, <3>2
        <5> QED BY <2>1, <5>1
      <4> QED BY <2>5, <4>1, <4>2
    <3> QED BY <1>3, <3>1, <3>2
  <2>7. pstep = 7 => auto'["B"] = NoValue
    <3>1. pstep = 7 => case.family = "A" BY Requests DEF Asks, case
    <3> QED BY <2>4, <2>5, <3>1
  <2>8. pstep >= 8 => prows'[8].reported \in {NoValue, auto'["B"]}
    <3>1. CASE pstep = 8
      <4>1. case.family = "B" BY <3>1, Requests DEF Asks, case
      <4>2. auto["B"] = NoValue
        <5>1. n = 7 BY <1>3, <3>1
        <5> QED BY <2>2, <5>1 DEF AutoKept, AutoA, n
      <4> QED BY <2>1, <2>5, <3>1, <4>1, <4>2
    <3>2. CASE pstep > 8
      <4>1. prows[8].reported \in {NoValue, auto["B"]}
        <5>1. n >= 8 BY <1>3, <3>2
        <5> QED BY <2>2, <5>1 DEF AutoKept, AutoB, n
      <4>2. prows'[8] = prows[8]
        <5>1. 8 \in 1..pstep - 1 BY <1>3, <3>2
        <5> QED BY <2>1, <5>1
      <4> QED BY <2>5, <4>1, <4>2
    <3> QED BY <1>3, <3>1, <3>2
  <2>9. ASSUME NEW i \in {9, 10, 11}, NEW first \in {7, 8}, NEW f \in {"A", "B"},
               Kept(i, first), i = pstep => case.family = f,
               prows[first].reported \in {NoValue, auto[f]} \/ pstep <= first
        PROVE  Kept(i, first)'
    <3> SUFFICES ASSUME pstep >= i, prows'[first].reported # NoValue
                 PROVE  prows'[i].expected = prows'[first].reported
      BY <2>1 DEF Kept
    <3>1. prows'[first] = prows[first]
      <4>1. first \in 1..pstep - 1 BY <1>3
      <4> QED BY <2>1, <4>1
    <3>2. CASE pstep = i
      <4>1. prows[first].reported = auto[f] BY <2>9, <3>1, <3>2
      <4>2. expected = auto[f] BY <2>5, <2>9, <3>2
      <4> QED BY <1>9, <2>1, <3>1, <3>2, <4>1, <4>2
    <3>3. CASE pstep > i
      <4>1. prows'[i] = prows[i]
        <5>1. i \in 1..pstep - 1 BY <1>3, <3>3
        <5> QED BY <2>1, <5>1
      <4>2. n >= i BY <1>3, <3>3
      <4> QED BY <2>9, <3>1, <4>1, <4>2 DEF Kept, n
    <3> QED BY <1>3, <3>2, <3>3
  <2>10. /\ prows[7].reported \in {NoValue, auto["A"]} \/ pstep <= 7
         /\ prows[8].reported \in {NoValue, auto["B"]} \/ pstep <= 8
    <3>1. (n >= 7 \/ pstep <= 7) /\ (n >= 8 \/ pstep <= 8) BY <1>3
    <3> QED BY <2>2, <3>1 DEF AutoKept, AutoA, AutoB, n
  <2>11. Kept(9, 7)' /\ Kept(10, 8)' /\ Kept(11, 7)'
    <3>1. Kept(9, 7) /\ Kept(10, 8) /\ Kept(11, 7) BY <2>2 DEF AutoKept, AutoA, AutoB, AutoFinal
    <3>2. /\ 9 = pstep => case.family = "A"
          /\ 10 = pstep => case.family = "B"
          /\ 11 = pstep => case.family = "A"
      BY Requests DEF Asks, case
    <3>3. Kept(9, 7)' BY <2>9, <2>10, <3>1, <3>2
    <3>4. Kept(10, 8)' BY <2>9, <2>10, <3>1, <3>2
    <3>5. Kept(11, 7)' BY <2>9, <2>10, <3>1, <3>2
    <3> QED BY <3>3, <3>4, <3>5
  <2>12. Len(prows') <= 6 => auto' = [f \in {"A", "B"} |-> NoValue] BY <2>1, <2>3, <2>4
  <2> QED BY <1>1, <2>1, <2>6, <2>7, <2>8, <2>11, <2>12 DEF AutoKept, AutoA, AutoB, AutoFinal
<1> QED BY <1>14, <1>15, <1>16, <1>17, <1>18, <1>19 DEF PrefixInv, NoValue

\* A lost request ends the run with no row, so with nothing said of any.
LEMMA LostKept == PrefixInv /\ RequestLost => PrefixInv'
<1> SUFFICES ASSUME PrefixInv, RequestLost PROVE PrefixInv' OBVIOUS
<1>1. /\ prows' = <<>> /\ ppc' = "exit" /\ pexit' = 1
      /\ UNCHANGED <<pserver, pstep, slots, lru, auto, did>>
  BY DEF RequestLost
<1>2. Len(prows') = 0 BY <1>1
<1>3. PrefixTypes'
  <2>1. prows' \in Seq(PrefixRows') BY <1>1
  <2> QED BY <1>1, <2>1 DEF PrefixInv, PrefixTypes
<1>4. PrefixPlace' BY <1>1, <1>2 DEF PrefixPlace
<1>5. AutoKept' BY <1>1, <1>2 DEF AutoKept, Kept, AutoA, AutoB, AutoFinal
<1>6. LiarForgets' BY <1>1 DEF PrefixInv, LiarForgets
<1>7. (\A i \in 1..Len(prows) : RowIsTrue(i, prows[i], did[i]))' BY <1>2
<1> QED BY <1>1, <1>3, <1>4, <1>5, <1>6, <1>7 DEF PrefixInv

\* Another client changes the slots and no row; what it leaves is not A's.
LEMMA IntruderKept == PrefixInv /\ Intruder => PrefixInv'
<1> SUFFICES ASSUME PrefixInv, Intruder PROVE PrefixInv' OBVIOUS
<1>1. /\ slots' = [slots EXCEPT ![lru[1]] = "C"] /\ lru' = <<lru[2], lru[1]>>
      /\ UNCHANGED <<pserver, ppc, pstep, prows, auto, did, preport, pexit>>
  BY DEF Intruder
<1>2. slots \in [{0, 1} -> {"A", "B", "C", "none"}] /\ lru \in {<<0, 1>>, <<1, 0>>}
  BY DEF PrefixInv, PrefixTypes
<1>3. PrefixTypes'
  <2>1. slots' \in [{0, 1} -> {"A", "B", "C", "none"}] BY <1>1, <1>2
  <2>2. lru' \in {<<0, 1>>, <<1, 0>>} BY <1>1, <1>2
  <2>3. prows' \in Seq(PrefixRows')
    <3>1. prows \in Seq(PrefixRows) BY DEF PrefixInv, PrefixTypes
    <3> QED BY <1>1, <3>1, RowsOfOne
  <2> QED BY <1>1, <2>1, <2>2, <2>3 DEF PrefixInv, PrefixTypes
<1>4. PrefixPlace' BY <1>1 DEF PrefixInv, PrefixPlace
<1>5. AutoKept' BY <1>1 DEF PrefixInv, AutoKept, Kept
<1>6. LiarForgets'
  <2>1. slots[0] # "A" => slots'[0] # "A" BY <1>1, <1>2
  <2> QED BY <1>1, <2>1 DEF PrefixInv, LiarForgets
<1>7. (\A i \in 1..Len(prows) : RowIsTrue(i, prows[i], did[i]))'
  BY <1>1 DEF PrefixInv, RowIsTrue, CacheCount
<1> QED BY <1>1, <1>3, <1>4, <1>5, <1>6, <1>7 DEF PrefixInv

\* The verdict reads the rows and changes none.
LEMMA ClassifyKept == PrefixInv /\ PrefixClassify => PrefixInv'
<1> SUFFICES ASSUME PrefixInv, PrefixClassify PROVE PrefixInv' OBVIOUS
<1>1. /\ ppc = "classify" /\ ppc' = "exit"
      /\ preport' = PrefixFailures(prows) /\ pexit' = IF preport' = {} THEN 0 ELSE 2
      /\ UNCHANGED <<pserver, pstep, slots, lru, prows, auto, did>>
  BY DEF PrefixClassify
<1>2. pexit' = 0 => PrefixFailures(prows) = {} BY <1>1
<1>3. PrefixTypes'
  <2>1. prows' \in Seq(PrefixRows')
    <3>1. prows \in Seq(PrefixRows) BY DEF PrefixInv, PrefixTypes
    <3> QED BY <1>1, <3>1, RowsOfOne
  <2> QED BY <1>1, <2>1 DEF PrefixInv, PrefixTypes
<1>4. PrefixPlace' BY <1>1 DEF PrefixInv, PrefixPlace
<1>5. AutoKept' BY <1>1 DEF PrefixInv, AutoKept, Kept
<1>6. LiarForgets' BY <1>1 DEF PrefixInv, LiarForgets
<1>7. (\A i \in 1..Len(prows) : RowIsTrue(i, prows[i], did[i]))'
  BY <1>1 DEF PrefixInv, RowIsTrue, CacheCount
<1>8. pexit' = 0 => PrefixFailures(prows') = {} BY <1>1, <1>2
<1> QED BY <1>3, <1>4, <1>5, <1>6, <1>7, <1>8 DEF PrefixInv

\* No step of the diagnostic leaves the invariant.
LEMMA PrefixStep == PrefixInv /\ [PrefixNext]_prefix_vars => PrefixInv'
<1> SUFFICES ASSUME PrefixInv, [PrefixNext]_prefix_vars PROVE PrefixInv' OBVIOUS
<1>1. CASE \E answer \in PrefixAnswers : Request(answer) BY <1>1, RequestKept
<1>2. CASE RequestLost BY <1>2, LostKept
<1>3. CASE Intruder BY <1>3, IntruderKept
<1>4. CASE PrefixClassify BY <1>4, ClassifyKept
<1>5. CASE UNCHANGED prefix_vars
  <2>1. prows' \in Seq(PrefixRows')
    <3>1. prows \in Seq(PrefixRows) BY DEF PrefixInv, PrefixTypes
    <3> QED BY <1>5, <3>1, RowsOfOne DEF prefix_vars
  <2>2. PrefixTypes' BY <1>5, <2>1 DEF PrefixInv, PrefixTypes, prefix_vars
  <2>3. PrefixPlace' BY <1>5 DEF PrefixInv, PrefixPlace, prefix_vars
  <2>4. AutoKept' BY <1>5 DEF PrefixInv, AutoKept, Kept, prefix_vars
  <2>5. LiarForgets' BY <1>5 DEF PrefixInv, LiarForgets, prefix_vars
  <2>6. (\A i \in 1..Len(prows) : RowIsTrue(i, prows[i], did[i]))'
    BY <1>5 DEF PrefixInv, RowIsTrue, CacheCount, prefix_vars
  <2> QED BY <1>5, <2>2, <2>3, <2>4, <2>5, <2>6 DEF PrefixInv, prefix_vars
<1> QED BY <1>1, <1>2, <1>3, <1>4, <1>5 DEF PrefixNext

\* classify of qwen_prefix_diag.py: for every kind of server and any number of
\* lost answers and foreign requests, an exit of 0 means that the two
\* conversations were kept in two slots, that caches were reused exactly where
\* they should be, and that A's last answer was the same without its cache.
THEOREM PrefixPassTrue == PrefixSpec => []PrefixPassIsTrue
<1>1. PrefixInit => PrefixInv BY PrefixStart
<1>2. PrefixInv /\ [PrefixNext]_prefix_vars => PrefixInv' BY PrefixStep
<1>3. PrefixInv => PrefixPassIsTrue BY PrefixInvPass
<1> QED BY <1>1, <1>2, <1>3, PTL DEF PrefixSpec

-----------------------------------------------------------------------------
\* The slots a sound server that nothing disturbs has before each request.
SoundSlots(i) ==
  /\ i <= 8 => lru = IF i \in {1, 3, 5, 7} THEN <<0, 1>> ELSE <<1, 0>>
  /\ i \in {2, 8} => slots[0] = "A" /\ slots[1] = "none"
  /\ i \in {3, 4, 5, 6, 9, 10, 11} => slots[0] = "A" /\ slots[1] = "B"
  /\ i <= 7 => auto["A"] = NoValue
  /\ i <= 8 => auto["B"] = NoValue
  /\ i >= 8 => auto["A"] = 0
  /\ i >= 9 => auto["B"] = 1

\* The slot of each request, and the row it gets there.
Where(i) == IF i = 6 THEN 1 ELSE Slot(Sequence[i].family)
RowIsSound(i, row) ==
  /\ row.case = Sequence[i] /\ row.ok /\ row.stop /\ row.ids
  /\ row.reported = Where(i) /\ row.expected \in {NoValue, Where(i)}
  /\ row.marks = {Sequence[i].family}
  /\ row.trace = <<[id |-> Sequence[i].marker], [id |-> 0]>>
  /\ row.cache = (IF Sequence[i].warm THEN 90 ELSE 0) /\ row.draft = 3

Undisturbed == pserver = "sound" /\ pfaults = PrefixFaults

SoundInv ==
  /\ PrefixInv
  /\ pfaults \in 0..PrefixFaults
  /\ Undisturbed =>
       /\ ppc = "run" => SoundSlots(pstep)
       /\ \A i \in 1..Len(prows) : RowIsSound(i, prows[i])
       /\ ppc = "exit" => pexit = 0

-----------------------------------------------------------------------------
\* The slot a request of the sequence is served in, one by one.
LEMMA Wheres ==
  /\ Where(1) = 0 /\ Where(2) = 1 /\ Where(3) = 0 /\ Where(4) = 1 /\ Where(5) = 0 /\ Where(6) = 1
  /\ Where(7) = 0 /\ Where(8) = 1 /\ Where(9) = 0 /\ Where(10) = 1 /\ Where(11) = 0
BY Requests DEF Asks, Where, Slot

\* Where a sound server serves a request, and whether its cache is there.
Turn(i) ==
  /\ Serving(Sequence[i], ErasedSlots(i)) = Where(i)
  /\ ErasedSlots(i)[Where(i)] = Sequence[i].family <=> Sequence[i].warm

\* A named slot is taken as it is.
LEMMA NamedTurn ==
  ASSUME PrefixTypes, Undisturbed, NEW i \in 1..6, SoundSlots(i)
  PROVE  Turn(i)
<1>1. Sequence[i].slot # NoValue /\ Sequence[i].routing # "automatic" BY RequestType
<1>2. Serving(Sequence[i], ErasedSlots(i)) = Sequence[i].slot BY <1>1 DEF Serving, Undisturbed
<1>3. CASE i = 1
  <2>1. ErasedSlots(i)[0] = "none" BY <1>3 DEF ErasedSlots, Erased
  <2> QED BY <1>2, <1>3, <2>1, Requests, Wheres DEF Asks, Turn
<1>4. CASE i = 2
  <2>1. ErasedSlots(i)[1] = "none" BY <1>4 DEF ErasedSlots, Erased, SoundSlots
  <2> QED BY <1>2, <1>4, <2>1, Requests, Wheres DEF Asks, Turn
<1>5. CASE i \in {3, 5}
  <2>1. ErasedSlots(i)[0] = "A" BY <1>5 DEF ErasedSlots, Erased, SoundSlots
  <2> QED BY <1>2, <1>5, <2>1, Requests, Wheres DEF Asks, Turn
<1>6. CASE i = 4
  <2>1. ErasedSlots(i)[1] = "B" BY <1>6 DEF ErasedSlots, Erased, SoundSlots
  <2> QED BY <1>2, <1>6, <2>1, Requests, Wheres DEF Asks, Turn
<1>7. CASE i = 6
  <2>1. ErasedSlots(i)[1] = "none" BY <1>7 DEF ErasedSlots, Erased
  <2> QED BY <1>2, <1>7, <2>1, Requests, Wheres DEF Asks, Turn
<1> QED BY <1>3, <1>4, <1>5, <1>6, <1>7

\* A routed request goes where its conversation is, else to the oldest slot.
LEMMA RoutedTurn ==
  ASSUME PrefixTypes, Undisturbed, NEW i \in 7..11, SoundSlots(i)
  PROVE  Turn(i)
<1> DEFINE held == ErasedSlots(i)
           f == Sequence[i].family
<1>1. Sequence[i].slot = NoValue BY Requests DEF Asks
<1>2. Serving(Sequence[i], held) = IF \E s \in {0, 1} : held[s] = f
                                   THEN CHOOSE s \in {0, 1} : held[s] = f ELSE lru[1]
  BY <1>1 DEF Serving, Undisturbed
<1>3. CASE i = 7
  <2>1. held[0] = "none" /\ held[1] = "none" BY <1>3 DEF ErasedSlots, Erased
  <2>2. f = "A" /\ ~Sequence[i].warm BY <1>3, Requests DEF Asks
  <2>3. lru[1] = 0 BY <1>3 DEF SoundSlots
  <2> QED BY <1>2, <1>3, <2>1, <2>2, <2>3, Wheres DEF Turn
<1>4. CASE i = 8
  <2>1. held[0] = "A" /\ held[1] = "none" BY <1>4 DEF ErasedSlots, Erased, SoundSlots
  <2>2. f = "B" /\ ~Sequence[i].warm BY <1>4, Requests DEF Asks
  <2>3. lru[1] = 1 BY <1>4 DEF SoundSlots
  <2> QED BY <1>2, <1>4, <2>1, <2>2, <2>3, Wheres DEF Turn
<1>5. CASE i \in {9, 10, 11}
  <2>1. held[0] = "A" /\ held[1] = "B" BY <1>5 DEF ErasedSlots, Erased, SoundSlots
  <2>2. /\ i # 10 => f = "A" /\ Where(i) = 0
        /\ i = 10 => f = "B" /\ Where(i) = 1
        /\ Sequence[i].warm
    BY <1>5, Requests, Wheres DEF Asks
  <2> HIDE DEF held, f
  <2>3. \A s \in {0, 1} : held[s] = f <=> s = Where(i) BY <2>1, <2>2
  <2>4. Where(i) \in {0, 1} BY <2>2
  <2>5. Serving(Sequence[i], held) = Where(i) BY <1>2, <2>3, <2>4
  <2> QED BY <2>2, <2>3, <2>4, <2>5 DEF Turn, held, f
<1> QED BY <1>3, <1>4, <1>5

\* So each request of an undisturbed run has its turn, ...
LEMMA EachTurn ==
  ASSUME PrefixTypes, Undisturbed, NEW i \in 1..11, SoundSlots(i)
  PROVE  Turn(i)
<1>1. i \in 1..6 \/ i \in 7..11 OBVIOUS
<1> QED BY <1>1, NamedTurn, RoutedTurn

\* ... and its row passes.
LEMMA SoundRow ==
  ASSUME PrefixTypes, Undisturbed, NEW i \in 1..11, Turn(i), NEW expected \in {NoValue, Where(i)}
  PROVE  RowIsSound(i, PrefixRow(i, expected, Served(Sequence[i], ErasedSlots(i)), "ok"))
<1> DEFINE held == ErasedSlots(i)
           case == Sequence[i]
           d == Served(case, held)
           row == PrefixRow(i, expected, d, "ok")
<1>1. d \in Dids /\ d.slot = Where(i) /\ (d.reused <=> case.warm)
  BY ServedType DEF Turn, Undisturbed
<1>2. pserver = "sound" BY DEF Undisturbed
<1>3. d.marks = {case.family} /\ d.trace = <<[id |-> case.marker], [id |-> 0]>>
  BY <1>2 DEF Served
<1> HIDE DEF d, held
<1>4. CacheCount(d) = IF case.warm THEN 90 ELSE 0 BY <1>1, <1>2 DEF CacheCount
<1>5. /\ row.case = case /\ row.expected = expected /\ row.marks = d.marks /\ row.trace = d.trace
      /\ row.cache = CacheCount(d)
  BY DEF PrefixRow
<1>6. row.reported = d.slot /\ row.draft = 3 BY <1>2 DEF PrefixRow
<1>7. row.ok /\ row.stop /\ row.ids BY DEF PrefixRow
<1> HIDE DEF row
<1>8. RowIsSound(i, row) BY <1>1, <1>3, <1>4, <1>5, <1>6, <1>7 DEF RowIsSound
<1> QED BY <1>8 DEF row, d, held

\* Nothing has disturbed a run before the step that leaves it undisturbed.
LEMMA UndisturbedBefore ==
  ASSUME pfaults \in 0..PrefixFaults, pserver' = pserver, Undisturbed',
         pfaults' \in {pfaults, pfaults - 1}
  PROVE  Undisturbed /\ pfaults' = pfaults
BY PrefixAssumption DEF Undisturbed

\* An undisturbed request leaves the slots as the next one should find them, and
\* its row passes.
LEMMA SoundRequest ==
  ASSUME SoundInv, Request("ok"), Undisturbed
  PROVE  /\ ppc' = "run" => SoundSlots(pstep)'
         /\ \A i \in 1..Len(prows') : RowIsSound(i, prows'[i])
<1> DEFINE case == Sequence[pstep]
           held == ErasedSlots(pstep)
           d == Served(case, held)
           expected == IF case.routing = "automatic" THEN auto[case.family] ELSE case.slot
           row == PrefixRow(pstep, expected, d, "ok")
           n == Len(prows)
           w == Where(pstep)
<1>1. /\ ppc = "run"
      /\ slots' = [held EXCEPT ![d.slot] = case.family]
      /\ lru' = IF d.slot = lru[1] THEN <<lru[2], lru[1]>> ELSE lru
      /\ prows' = Append(prows, row)
      /\ auto' = IF case.routing = "automatic" /\ auto[case.family] = NoValue
                 THEN [auto EXCEPT ![case.family] = row.reported] ELSE auto
      /\ pstep' = pstep + 1
      /\ ppc' = IF pstep = 11 THEN "classify" ELSE "run"
  BY DEF Request
<1>2. PrefixTypes /\ PrefixPlace BY DEF SoundInv, PrefixInv
<1>3. pstep \in 1..11 /\ n = pstep - 1
  <2>1. Len(prows) \in Nat /\ pstep \in Nat
    <3>1. prows \in Seq(PrefixRows) BY <1>2 DEF PrefixTypes
    <3> QED BY <1>2, <3>1, LenProperties DEF PrefixTypes
  <2> QED BY <1>1, <1>2, <2>1 DEF PrefixPlace
<1>3a. (case.routing = "automatic" <=> pstep > 6) /\ case.family \in {"A", "B"}
  BY <1>3, RequestType
<1>4. SoundSlots(pstep) BY <1>1 DEF SoundInv
<1>5. Turn(pstep) BY <1>2, <1>3, <1>4, EachTurn
<1>6. d \in Dids /\ d.slot = w BY <1>2, <1>3, <1>5, ServedType DEF Turn
<1>7. held \in [{0, 1} -> Holds] BY <1>2, <1>3, ErasedType
<1>8. auto \in [{"A", "B"} -> {NoValue, 0, 1}] BY <1>2 DEF PrefixTypes
<1>9. expected \in {NoValue, w}
  <2>1. CASE pstep <= 6
    <3>1. case.routing # "automatic" BY <1>3, <1>3a, <2>1
    <3>2. case.slot = w
      <4>1. pstep \in {1, 2, 3, 4, 5, 6} BY <1>3, <2>1
      <4> QED BY <4>1, Requests, Wheres DEF Asks
    <3> QED BY <3>1, <3>2
  <2>2. CASE pstep > 6
    <3>1. case.routing = "automatic" BY <1>3a, <2>2
    <3>2. auto[case.family] \in {NoValue, w}
      <4>1. pstep \in {7, 8, 9, 10, 11} BY <1>3, <2>2
      <4> QED BY <1>4, <4>1, Requests, Wheres DEF Asks, SoundSlots
    <3> QED BY <3>1, <3>2
  <2> QED BY <1>3, <2>1, <2>2
<1>10. RowIsSound(pstep, row) BY <1>2, <1>3, <1>5, <1>9, SoundRow
<1>11. row \in PrefixRows
  <2>1. w \in {0, 1} BY <1>6 DEF Dids
  <2>2. expected \in {NoValue, 0, 1} BY <1>9, <2>1
  <2> HIDE DEF d, expected
  <2> QED BY <1>3, <1>6, <2>2 DEF PrefixRows, PrefixAnswers
<1> HIDE DEF row, d, expected, held
<1>12. \A i \in 1..Len(prows') : RowIsSound(i, prows'[i])
  <2>1. prows \in Seq(PrefixRows) BY <1>2 DEF PrefixTypes
  <2>2. /\ Len(prows') = n + 1 /\ prows'[n + 1] = row
        /\ \A i \in 1..n : prows'[i] = prows[i]
    BY <1>1, <1>11, <2>1, AppendProperties
  <2>3. n + 1 = pstep BY <1>3
  <2>4. \A i \in 1..n : RowIsSound(i, prows[i]) BY DEF SoundInv
  <2> HIDE DEF n
  <2>5. \A i \in 1..pstep : i \in 1..n \/ i = pstep BY <1>3
  <2> QED BY <1>10, <2>2, <2>3, <2>4, <2>5
<1>13. row.reported = w BY <1>10 DEF RowIsSound
<1>14. slots' = [held EXCEPT ![w] = case.family] BY <1>1, <1>6
<1>15. ASSUME pstep # 11 PROVE SoundSlots(pstep)'
  <2>1. /\ pstep + 1 <= 8 => lru' = IF pstep + 1 \in {1, 3, 5, 7} THEN <<0, 1>> ELSE <<1, 0>>
    <3> SUFFICES ASSUME pstep <= 7
                 PROVE  lru' = IF pstep + 1 \in {1, 3, 5, 7} THEN <<0, 1>> ELSE <<1, 0>>
      BY <1>3
    <3>1. pstep \in {1, 3, 5, 7} \/ pstep \in {2, 4, 6} BY <1>3
    <3>2. CASE pstep \in {1, 3, 5, 7}
      <4>1. lru = <<0, 1>> BY <1>4, <3>2 DEF SoundSlots
      <4>2. w = 0 BY <3>2, Wheres
      <4>3. lru' = <<1, 0>> BY <1>1, <1>6, <4>1, <4>2
      <4>4. pstep + 1 \notin {1, 3, 5, 7} BY <3>2
      <4> QED BY <4>3, <4>4
    <3>3. CASE pstep \in {2, 4, 6}
      <4>1. lru = <<1, 0>> BY <1>4, <3>3 DEF SoundSlots
      <4>2. w = 1 BY <3>3, Wheres
      <4>3. lru' = <<0, 1>> BY <1>1, <1>6, <4>1, <4>2
      <4>4. pstep + 1 \in {1, 3, 5, 7} BY <3>3
      <4> QED BY <4>3, <4>4
    <3> QED BY <3>1, <3>2, <3>3
  <2>2. pstep + 1 \in {2, 8} => slots'[0] = "A" /\ slots'[1] = "none"
    <3> SUFFICES ASSUME pstep \in {1, 7} PROVE slots'[0] = "A" /\ slots'[1] = "none" BY <1>3
    <3>1. w = 0 /\ case.family = "A" BY Requests, Wheres DEF Asks
    <3>2. held[1] = "none" BY DEF held, ErasedSlots, Erased
    <3> QED BY <1>7, <1>14, <3>1, <3>2
  <2>3. pstep + 1 \in {3, 4, 5, 6, 9, 10, 11} => slots'[0] = "A" /\ slots'[1] = "B"
    <3> SUFFICES ASSUME pstep \in {2, 3, 4, 5, 8, 9, 10} PROVE slots'[0] = "A" /\ slots'[1] = "B"
      BY <1>3
    <3>1. held[0] = slots[0] /\ held[1] = slots[1] BY DEF held, ErasedSlots, Erased
    <3>2. CASE pstep \in {2, 8}
      <4>1. w = 1 /\ case.family = "B" BY <3>2, Requests, Wheres DEF Asks
      <4>2. slots[0] = "A" BY <1>4, <3>2 DEF SoundSlots
      <4> QED BY <1>7, <1>14, <3>1, <4>1, <4>2
    <3>3. CASE pstep \in {3, 4, 5, 9, 10}
      <4>1. (w = 0 /\ case.family = "A") \/ (w = 1 /\ case.family = "B")
        BY <3>3, Requests, Wheres DEF Asks
      <4>2. slots[0] = "A" /\ slots[1] = "B" BY <1>4, <3>3 DEF SoundSlots
      <4> QED BY <1>7, <1>14, <3>1, <4>1, <4>2
    <3> QED BY <3>2, <3>3
  <2>4. pstep <= 6 => auto' = auto
    <3> SUFFICES ASSUME pstep <= 6 PROVE auto' = auto OBVIOUS
    <3>1. case.routing # "automatic" BY <1>3, <1>3a
    <3> QED BY <1>1, <3>1
  <2>5. pstep > 6 => /\ \A g \in {"A", "B"} : g # case.family => auto'[g] = auto[g]
                     /\ auto[case.family] # NoValue => auto' = auto
                     /\ auto[case.family] = NoValue => auto'[case.family] = w
    <3> SUFFICES ASSUME pstep > 6
                 PROVE  /\ \A g \in {"A", "B"} : g # case.family => auto'[g] = auto[g]
                        /\ auto[case.family] # NoValue => auto' = auto
                        /\ auto[case.family] = NoValue => auto'[case.family] = w
      OBVIOUS
    <3>1. case.routing = "automatic" /\ case.family \in {"A", "B"} BY <1>3a
    <3> QED BY <1>1, <1>8, <1>13, <3>1
  <2>6. /\ pstep + 1 <= 7 => auto'["A"] = NoValue
        /\ pstep + 1 <= 8 => auto'["B"] = NoValue
        /\ pstep + 1 >= 8 => auto'["A"] = 0
        /\ pstep + 1 >= 9 => auto'["B"] = 1
    <3>1. CASE pstep <= 6 BY <1>3, <1>4, <2>4, <3>1 DEF SoundSlots
    <3>2. CASE pstep = 7
      <4>1. case.family = "A" /\ w = 0 BY <3>2, Requests, Wheres DEF Asks
      <4>2. auto["A"] = NoValue /\ auto["B"] = NoValue BY <1>4, <3>2 DEF SoundSlots
      <4>3. auto'["A"] = 0 /\ auto'["B"] = NoValue BY <2>5, <3>2, <4>1, <4>2
      <4> QED BY <3>2, <4>3
    <3>3. CASE pstep = 8
      <4>1. case.family = "B" /\ w = 1 BY <3>3, Requests, Wheres DEF Asks
      <4>2. auto["A"] = 0 /\ auto["B"] = NoValue BY <1>4, <3>3 DEF SoundSlots
      <4>3. auto'["A"] = 0 /\ auto'["B"] = 1 BY <2>5, <3>3, <4>1, <4>2
      <4> QED BY <3>3, <4>3
    <3>4. CASE pstep > 8
      <4>1. auto["A"] = 0 /\ auto["B"] = 1 BY <1>3, <1>4, <3>4 DEF SoundSlots
      <4>2. auto[case.family] # NoValue BY <1>3a, <4>1 DEF NoValue
      <4>3. auto' = auto BY <1>3, <2>5, <3>4, <4>2
      <4> QED BY <1>3, <3>4, <4>1, <4>3
    <3> QED BY <1>3, <3>1, <3>2, <3>3, <3>4
  <2> QED BY <1>1, <2>1, <2>2, <2>3, <2>6 DEF SoundSlots
<1> QED BY <1>1, <1>12, <1>15

\* Eleven sound rows have no failure.
LEMMA SoundReport ==
  ASSUME NEW set, DOMAIN set = 1..11, \A i \in 1..11 : RowIsSound(i, set[i])
  PROVE  PrefixFailures(set) = {}
<1>1. ASSUME NEW i \in 1..11 PROVE RowPasses(set[i])
  <2>1. RowIsSound(i, set[i]) OBVIOUS
  <2>2. Where(i) # NoValue BY Wheres DEF NoValue
  <2> QED BY <2>1, <2>2 DEF RowIsSound, RowPasses
<1>2. \E i \in DOMAIN set : set[i].draft > 0 BY DEF RowIsSound
<1>3. ASSUME NEW i \in {5, 11} PROVE exact_output_comparison(set[i], set[6])
  <2>1. RowIsSound(i, set[i]) /\ RowIsSound(6, set[6]) OBVIOUS
  <2>2. /\ Sequence[i].marker = 1003 /\ Sequence[i].family = "A"
        /\ Sequence[6].marker = 1003 /\ Sequence[6].family = "A"
    BY Requests DEF Asks
  <2>3. set[i].trace = set[6].trace BY <2>1, <2>2 DEF RowIsSound
  <2>4. first_token_divergence(set[6].trace, set[i].trace) = NoValue
    <3> DEFINE t == <<[id |-> 1003], [id |-> 0]>>
    <3>1. set[6].trace = t /\ set[i].trace = t BY <2>1, <2>2 DEF RowIsSound
    <3>2. Len(t) = 2 OBVIOUS
    <3> HIDE DEF t
    <3>3. SameIds(t, t) BY DEF SameIds
    <3> QED BY <3>1, <3>2, <3>3, SameNoDivergence
  <2>5. /\ set[i].ok /\ set[6].ok /\ set[i].case = Sequence[i] /\ set[6].case = Sequence[6]
        /\ set[i].marks = set[6].marks
    BY <2>1, <2>2 DEF RowIsSound
  <2> QED BY <2>2, <2>4, <2>5 DEF exact_output_comparison
<1>4. set[7].reported \notin {NoValue, set[8].reported} /\ set[8].reported # NoValue
  <2>1. set[7].reported = 0 /\ set[8].reported = 1 BY Wheres DEF RowIsSound
  <2> QED BY <2>1 DEF NoValue
<1>5. {i \in DOMAIN set : ~RowPasses(set[i])} = {} BY <1>1
<1> QED BY <1>2, <1>3, <1>4, <1>5 DEF PrefixFailures, FinalCached, FinalCold, AutoA, AutoB, AutoFinal

\* Before the first request both slots are in their order, whatever they hold.
LEMMA SoundStart == PrefixInit => SoundInv
<1> SUFFICES ASSUME PrefixInit PROVE SoundInv OBVIOUS
<1>1. pfaults \in 0..PrefixFaults BY PrefixAssumption DEF PrefixInit
<1>2. SoundSlots(1)
  <2>1. lru = <<0, 1>> /\ auto["A"] = NoValue /\ auto["B"] = NoValue BY DEF PrefixInit
  <2> QED BY <2>1 DEF SoundSlots
<1>3. Len(prows) = 0 /\ ppc = "run" /\ pstep = 1 BY DEF PrefixInit
<1> QED BY <1>1, <1>2, <1>3, PrefixStart DEF SoundInv

\* What disturbs a run spends one of its faults; without that the slots, the rows
\* and the verdict are as they should be.
LEMMA SoundStep == SoundInv /\ [PrefixNext]_prefix_vars => SoundInv'
<1> SUFFICES ASSUME SoundInv, [PrefixNext]_prefix_vars PROVE SoundInv' OBVIOUS
<1>1. PrefixInv' BY PrefixStep DEF SoundInv
<1>2. pfaults \in 0..PrefixFaults /\ PrefixFaults \in Nat BY PrefixAssumption DEF SoundInv
<1>3. CASE \E answer \in PrefixAnswers : Request(answer)
  <2>1. PICK answer \in PrefixAnswers : Request(answer) BY <1>3
  <2>2. /\ answer # "ok" => pfaults > 0 /\ pfaults' = pfaults - 1
        /\ answer = "ok" => pfaults' = pfaults
        /\ pserver' = pserver /\ ppc' \in {"run", "classify"}
    BY <2>1 DEF Request
  <2>3. pfaults' \in 0..PrefixFaults BY <1>2, <2>2
  <2>4. Undisturbed' => Undisturbed /\ answer = "ok" BY <1>2, <2>2 DEF Undisturbed
  <2>5. ASSUME Undisturbed'
        PROVE  /\ ppc' = "run" => SoundSlots(pstep)'
               /\ \A i \in 1..Len(prows') : RowIsSound(i, prows'[i])
    <3>1. Undisturbed /\ Request("ok") BY <2>1, <2>4, <2>5
    <3> QED BY <3>1, SoundRequest
  <2> QED BY <1>1, <2>2, <2>3, <2>5 DEF SoundInv, RowIsSound, Where
<1>4. ASSUME pfaults' = pfaults - 1, pfaults > 0 PROVE SoundInv'
  <2>1. pfaults' \in 0..PrefixFaults BY <1>2, <1>4
  <2>2. ~Undisturbed' BY <1>2, <1>4 DEF Undisturbed
  <2> QED BY <1>1, <2>1, <2>2 DEF SoundInv
<1>5. CASE RequestLost BY <1>4, <1>5 DEF RequestLost
<1>6. CASE Intruder BY <1>4, <1>6 DEF Intruder
<1>7. CASE PrefixClassify
  <2>1. /\ ppc = "classify" /\ ppc' = "exit" /\ preport' = PrefixFailures(prows)
        /\ pexit' = IF preport' = {} THEN 0 ELSE 2
        /\ UNCHANGED <<pserver, prows, pfaults>>
    BY <1>7 DEF PrefixClassify
  <2>2. ASSUME Undisturbed'
        PROVE  pexit' = 0 /\ \A i \in 1..Len(prows') : RowIsSound(i, prows'[i])
    <3>1. Undisturbed BY <2>1, <2>2 DEF Undisturbed
    <3>2. \A i \in 1..Len(prows) : RowIsSound(i, prows[i]) BY <3>1 DEF SoundInv
    <3>3. Len(prows) = 11 /\ DOMAIN prows = 1..11
      <4>1. Len(prows) = 11 /\ prows \in Seq(PrefixRows)
        BY <2>1 DEF SoundInv, PrefixInv, PrefixPlace, PrefixTypes
      <4> QED BY <4>1, LenProperties
    <3>4. PrefixFailures(prows) = {} BY <3>2, <3>3, SoundReport
    <3> QED BY <2>1, <3>2, <3>4
  <2>3. pfaults' \in 0..PrefixFaults BY <1>2, <2>1
  <2> QED BY <1>1, <2>1, <2>2, <2>3 DEF SoundInv, RowIsSound, Where
<1>8. CASE UNCHANGED prefix_vars
  <2>1. UNCHANGED <<pserver, ppc, pstep, slots, lru, prows, auto, pfaults, pexit>>
    BY <1>8 DEF prefix_vars
  <2>2. Undisturbed' => Undisturbed BY <2>1 DEF Undisturbed
  <2>3. SoundSlots(pstep) => SoundSlots(pstep)' BY <2>1 DEF SoundSlots
  <2>4. pfaults' \in 0..PrefixFaults BY <1>2, <2>1
  <2> QED BY <1>1, <2>1, <2>2, <2>3, <2>4 DEF SoundInv, RowIsSound, Where
<1> QED BY <1>3, <1>5, <1>6, <1>7, <1>8 DEF PrefixNext

\* main of qwen_prefix_diag.py: a server that keeps two conversations apart, all of
\* whose answers arrive and whom no other client asks, passes, whatever its slots
\* held before.
THEOREM PrefixSound == PrefixSpec => []PrefixSoundPasses
<1>1. PrefixInit => SoundInv BY SoundStart
<1>2. SoundInv /\ [PrefixNext]_prefix_vars => SoundInv' BY SoundStep
<1>3. SoundInv => PrefixSoundPasses BY DEF SoundInv, PrefixSoundPasses, Undisturbed
<1> QED BY <1>1, <1>2, <1>3, PTL DEF PrefixSpec
=============================================================================
