------------------------- MODULE StrixInstallProofs -------------------------
(***************************************************************************)
(* Proofs about StrixInstall for every set of versions and every number of *)
(* invocations: the type invariant, that the original files are never      *)
(* lost, that the files are only replaced under a stopped service, that a  *)
(* first migration always leaves a host that can boot, and what "restored" *)
(* and "succeeded" promise when the script says them.                      *)
(***************************************************************************)
EXTENDS StrixInstall, SequenceTheorems, TLAPS

(* The inductive invariants *)

Holds(i) == /\ backups[i].complete
            /\ <<backups[i].dropin, backups[i].launcher>> = original

(* Behind OriginalKept: the first backup to be sealed holds the original   *)
(* files, as nothing replaces a file before a backup is sealed.            *)
KeptInv ==
  /\ \/ files = original /\ \A i \in 1..Len(backups) : ~backups[i].complete
     \/ \E i \in 1..Len(backups) : Holds(i)
  /\ pc = "seal" => /\ Backup.dropin = dropin /\ Backup.launcher = launcher
  /\ pc \in DeploySteps \cup RollbackSteps => Backup.complete

\* Behind ReplacedWhenStopped: no step between the stop and the last file, and
\* nothing the host does on its own, brings the service up.
StoppedInv ==
  pc \in {"launcher", "dropin", "reload", "r_dropin", "r_launcher", "r_reload",
          "r_enable", "r_start"} => unit = "inactive"

\* Behind RestoredIsExact: what a rollback has put back stays put back.
RollbackInv ==
  /\ pc \in {"r_launcher", "r_reload", "r_enable", "r_start"} => dropin = Backup.dropin
  /\ pc \in {"r_reload", "r_enable", "r_start"} => launcher = Backup.launcher
  /\ pc \in {"r_enable", "r_start"} => loaded = dropin
  /\ pc = "r_start" => enabled = Backup.enabled /\ Backup.active

\* Behind DeployedIsNew: the same of a deployment.
DeployInv ==
  /\ pc \in DeploySteps \ {"stop", "launcher"} => launcher = version
  /\ pc \in {"reload", "restart", "check", "enable", "status"} => dropin = version
  /\ pc \in {"restart", "check", "enable", "status"} => loaded = version
  /\ pc \in {"check", "enable", "status"} => runs = <<version, version>>
  /\ pc = "status" => enabled

\* Behind FirstMigrationBoots: the drop-in is written after the launcher and
\* removed before it, and the one backup there can be has neither.
MigrationInv ==
  original = <<Absent, Absent>> /\ invocations <= 1 =>
    /\ dropin # Absent => launcher \in Versions
    /\ pc \in {"seal", "stop", "launcher"} => dropin = Absent
    /\ invocations = 0 => pc = "idle" /\ backups = <<>> /\ dropin = Absent
    /\ \A i \in 1..Len(backups) : backups[i].dropin = Absent

-----------------------------------------------------------------------------
(* Type correctness *)

BackupSet == [dropin : Contents, launcher : Contents, active : BOOLEAN,
              enabled : BOOLEAN, complete : BOOLEAN]

\* TypeOK in two parts, so that a step that leaves the backups alone need not
\* look into them.
PositionOK ==
  /\ pc \in DeploySteps \cup RollbackSteps \cup {"idle", "seal"}
  /\ version \in Versions \cup {Absent}
  /\ pc \in DeploySteps => version \in Versions
  /\ pc # "idle" => current # 0
  /\ outcome \in {"none", "refused", "deployed", "restored", "rollback failed", "killed"}
CountOK == invocations \in 0..MaxInvocations
HostOK ==
  /\ dropin \in Contents /\ launcher \in Contents /\ loaded \in Contents
  /\ unit \in {"inactive", "activating", "active"}
  /\ runs \in Contents \X Contents
  /\ enabled \in BOOLEAN
  /\ original \in Contents \X Contents
BackupsOK ==
  /\ backups \in Seq(BackupSet)
  /\ current \in 0..Len(backups)

\* The four parts together are TypeOK.
LEMMA TypeParts == TypeOK <=> HostOK /\ BackupsOK /\ PositionOK /\ CountOK
BY DEF TypeOK, HostOK, BackupsOK, PositionOK, CountOK, BackupSet

\* TypeOK is not inductive by itself: a sealed backup is followed by the first
\* step that needs a version, so the version must be chosen while sealing.
VersionChosen == pc = "seal" => version \in Versions
TypeInv == TypeOK /\ VersionChosen

\* What Interrupted may leave of a file is again a content.
LEMMA InterruptedType ==
  ASSUME NEW file \in Contents, NEW new \in Contents
  PROVE  Interrupted(file, new) \subseteq Contents
BY DEF Interrupted, Contents

\* The backup the script works on is a record with all its fields.
LEMMA BackupType ==
  ASSUME TypeOK, pc # "idle"
  PROVE  /\ current \in 1..Len(backups) /\ Backup \in BackupSet
<1>1. backups \in Seq(BackupSet) /\ Len(backups) \in Nat
  BY TypeParts, LenProperties DEF BackupsOK
<1>2. current \in 0..Len(backups) /\ current # 0
  BY TypeParts DEF BackupsOK, PositionOK
<1>3. current \in 1..Len(backups)
  BY <1>1, <1>2
<1> QED
  BY <1>1, <1>3, ElementOfSeq DEF Backup

\* A command cut off half way leaves contents on disk,
LEMMA FileCutType ==
  ASSUME TypeOK, LauncherCut, DropinCut
  PROVE  launcher' \in Contents /\ dropin' \in Contents
<1>1. pc = "launcher" \/ pc = "dropin" => version \in Contents
  BY DEF TypeOK, Contents, DeploySteps
<1>2. pc \in RollbackSteps => Backup.dropin \in Contents /\ Backup.launcher \in Contents
  BY BackupType DEF BackupSet, RollbackSteps
<1>3. launcher' \in Contents
  BY <1>1, <1>2, InterruptedType DEF LauncherCut, TypeOK, RollbackSteps
<1>4. dropin' \in Contents
  BY <1>1, <1>2, InterruptedType DEF DropinCut, TypeOK, RollbackSteps
<1> QED
  BY <1>3, <1>4

\* and a service that systemd can report.
LEMMA ServiceCutType ==
  ASSUME TypeOK, ServiceCut
  PROVE  /\ loaded' \in Contents /\ unit' \in {"inactive", "activating", "active"}
         /\ runs' \in Contents \X Contents /\ enabled' \in BOOLEAN
<1>1. pc = "r_enable" => Backup.enabled \in BOOLEAN
  BY BackupType DEF BackupSet
<1> QED
  BY <1>1 DEF ServiceCut, StopCut, StartCut, EnableCut, service, TypeOK


(* What each part of a step may do, one lemma per part of the state *)

\* The files and the service stay what they can be.
LEMMA HostStep ==
  ASSUME TypeOK, [Next]_vars
  PROVE  HostOK'
<1> USE DEF Keep, Stop, Reload, Start, Enable, files, service, script
<1>0. HostOK /\ PositionOK
  BY TypeParts
<1>1. CASE SealBackup \/ SealFails \/ CheckActive \/ Deployed \/ Refuse \/ BeginBackup
           \/ ManualRollback
  BY <1>0, <1>1 DEF HostOK, SealBackup, SealFails, CheckActive, Deployed, Refuse,
     BeginBackup, ManualRollback
<1>2. CASE InstallLauncher \/ InstallDropin
  BY <1>0, <1>2 DEF HostOK, PositionOK, InstallLauncher, InstallDropin, DeploySteps, Contents
<1>3. CASE StopService \/ DaemonReload \/ RollbackStop \/ RollbackReload
  BY <1>0, <1>3 DEF HostOK, StopService, DaemonReload, RollbackStop, RollbackReload
<1>9. CASE Restart \/ RollbackStart
  BY <1>0, <1>9 DEF HostOK, Restart, RollbackStart
<1>10. CASE EnableService
  BY <1>0, <1>10 DEF HostOK, EnableService
<1>4. CASE RollbackDropin \/ RollbackLauncher \/ RollbackEnable
  <2>1. Backup \in BackupSet
    BY <1>4, BackupType DEF RollbackDropin, RollbackLauncher, RollbackEnable
  <2> QED
    BY <1>0, <1>4, <2>1 DEF HostOK, BackupSet, RollbackDropin, RollbackLauncher, RollbackEnable
<1>5. CASE Recover \/ RollbackFails \/ Kill
  BY <1>0, <1>5, FileCutType, ServiceCutType DEF HostOK, Recover, RollbackFails, Kill, Cut
<1>6. CASE Boot
  BY <1>0, <1>6, FileCutType DEF HostOK, Boot
<1>7. CASE ServiceMoves
  BY <1>0, <1>7 DEF HostOK, ServiceMoves, ServiceUp, ServiceDies, ServiceGivesUp, StartCut
<1>8. CASE UNCHANGED vars
  BY <1>0, <1>8 DEF HostOK, vars
<1> QED
  BY <1>1, <1>2, <1>3, <1>4, <1>5, <1>6, <1>7, <1>8, <1>9, <1>10 DEF Next, ScriptStep

\* Only a call of the script counts as an invocation.
LEMMA CountKept ==
  ASSUME [Next]_vars, ~Refuse, ~BeginBackup, ~ManualRollback
  PROVE  invocations' = invocations
BY DEF Next, ScriptStep, Keep, vars, SealBackup, SealFails, StopService, InstallLauncher,
   InstallDropin, DaemonReload, Restart, CheckActive, EnableService, Deployed, Recover,
   RollbackStop, RollbackDropin, RollbackLauncher, RollbackReload, RollbackEnable,
   RollbackStart, RollbackFails, Kill, Boot, ServiceMoves

\* The number of invocations stays within its bound.
LEMMA CountStep ==
  ASSUME TypeOK, [Next]_vars
  PROVE  CountOK'
<1>0. CountOK
  BY TypeParts
<1>1. CASE Refuse \/ BeginBackup \/ ManualRollback
  BY <1>0, <1>1, InstallAssumption DEF CountOK, Refuse, BeginBackup, ManualRollback
<1>2. CASE ~Refuse /\ ~BeginBackup /\ ~ManualRollback
  BY <1>0, <1>2, CountKept DEF CountOK
<1> QED
  BY <1>1, <1>2

\* The script stays on its two paths, with a version and a backup to work on.
LEMMA PositionStep ==
  ASSUME TypeOK, VersionChosen, [Next]_vars
  PROVE  PositionOK'
<1> USE DEF Goto, End, Keep, script
<1>0. PositionOK
  BY TypeParts
<1>1. CASE SealBackup
  BY <1>0, <1>1 DEF PositionOK, VersionChosen, DeploySteps, SealBackup
<1>8. CASE StopService \/ InstallLauncher \/ InstallDropin \/ DaemonReload
           \/ Restart \/ CheckActive \/ EnableService
  BY <1>0, <1>8 DEF PositionOK, DeploySteps, StopService, InstallLauncher,
     InstallDropin, DaemonReload, Restart, CheckActive, EnableService
<1>2. CASE SealFails \/ Deployed \/ RollbackFails \/ Kill \/ RollbackStart
  BY <1>0, <1>2 DEF PositionOK, DeploySteps, SealFails, Deployed, RollbackFails, Kill,
     RollbackStart
<1>3. CASE Recover \/ RollbackStop \/ RollbackDropin \/ RollbackLauncher \/ RollbackReload
           \/ RollbackEnable
  BY <1>0, <1>3 DEF PositionOK, DeploySteps, RollbackSteps, Recover, RollbackStop,
     RollbackDropin, RollbackLauncher, RollbackReload, RollbackEnable
<1>4. CASE Refuse
  BY <1>0, <1>4 DEF PositionOK, Refuse
<1>5. CASE BeginBackup
  <2>1. current' # 0
    BY <1>5, TypeParts, LenProperties DEF BeginBackup, BackupsOK
  <2> QED
    BY <1>0, <1>5, <2>1 DEF PositionOK, BeginBackup, DeploySteps
<1>6. CASE ManualRollback
  <2>1. current' # 0
    BY <1>6, TypeParts, LenProperties DEF ManualRollback, BackupsOK
  <2> QED
    BY <1>0, <1>6, <2>1 DEF PositionOK, ManualRollback, DeploySteps,
       RollbackSteps
<1>7. CASE Boot \/ ServiceMoves \/ UNCHANGED vars
  BY <1>0, <1>7 DEF PositionOK, Boot, ServiceMoves, DeploySteps, vars
<1> QED
  BY <1>1, <1>2, <1>3, <1>4, <1>5, <1>6, <1>7, <1>8 DEF Next, ScriptStep

(* The backups are append-only, and only the sealing step changes one. *)

\* A backup that is begun is the last one, and incomplete.
LEMMA BeginsBackup ==
  ASSUME TypeOK, BeginBackup
  PROVE  /\ backups' \in Seq(BackupSet) /\ Len(backups') = Len(backups) + 1
         /\ current' = Len(backups) + 1 /\ current' \in 1..Len(backups')
         /\ \A i \in 1..Len(backups) : backups'[i] = backups[i]
         /\ backups'[current'] = [dropin |-> dropin, launcher |-> launcher,
                                  active |-> unit = "active", enabled |-> enabled,
                                  complete |-> FALSE]
<1> DEFINE new == [dropin |-> dropin, launcher |-> launcher,
                   active |-> unit = "active", enabled |-> enabled, complete |-> FALSE]
<1>1. new \in BackupSet
  BY TypeParts DEF HostOK, BackupSet
<1>2. backups' = Append(backups, new) /\ current' = Len(backups) + 1
  BY DEF BeginBackup
<1>3. backups \in Seq(BackupSet) /\ Len(backups) \in Nat
  BY TypeParts, LenProperties DEF BackupsOK
<1> HIDE DEF new
<1>4. /\ backups' \in Seq(BackupSet) /\ Len(backups') = Len(backups) + 1
      /\ \A i \in 1..Len(backups) : backups'[i] = backups[i]
      /\ backups'[Len(backups) + 1] = new
  BY <1>1, <1>2, <1>3, AppendProperties
<1> QED
  BY <1>2, <1>3, <1>4 DEF new

\* Sealing completes the backup the script works on, and changes no other.
LEMMA SealsBackup ==
  ASSUME TypeOK, SealBackup
  PROVE  /\ backups' \in Seq(BackupSet) /\ Len(backups') = Len(backups)
         /\ current' = current /\ current \in 1..Len(backups)
         /\ \A i \in 1..Len(backups) : i # current => backups'[i] = backups[i]
         /\ backups'[current] = [Backup EXCEPT !.complete = TRUE]
<1>1. backups \in Seq(BackupSet) /\ Len(backups) \in Nat
  BY TypeParts, LenProperties DEF BackupsOK
<1>2. current \in 1..Len(backups) /\ Backup \in BackupSet
  BY BackupType DEF SealBackup
<1> DEFINE sealed == [Backup EXCEPT !.complete = TRUE]
<1>3. sealed \in BackupSet
  BY <1>2 DEF BackupSet
<1>4. backups' = [backups EXCEPT ![current] = sealed] /\ current' = current
  BY DEF SealBackup, Goto, Backup
<1> HIDE DEF sealed
<1>5. backups' \in Seq(BackupSet) /\ Len(backups') = Len(backups)
  BY <1>1, <1>2, <1>3, <1>4, ExceptSeq
<1> QED
  BY <1>1, <1>2, <1>4, <1>5 DEF sealed

\* No other step touches a backup; the script keeps its own or ends.
LEMMA BackupsKept ==
  ASSUME TypeOK, [Next]_vars, ~BeginBackup, ~SealBackup
  PROVE  /\ UNCHANGED <<backups, original>>
         /\ current' = current \/ (pc' = "idle" /\ current' = 0) \/ ManualRollback
<1> USE DEF Goto, End, Keep
<1>1. CASE StopService \/ InstallLauncher \/ InstallDropin \/ DaemonReload \/ Restart
           \/ CheckActive \/ EnableService \/ Recover \/ RollbackStop \/ RollbackDropin
           \/ RollbackLauncher \/ RollbackReload
  BY <1>1 DEF StopService, InstallLauncher, InstallDropin, DaemonReload, Restart,
     CheckActive, EnableService, Recover, RollbackStop, RollbackDropin, RollbackLauncher,
     RollbackReload
<1>2. CASE SealFails \/ Deployed \/ RollbackStart \/ RollbackFails \/ Kill \/ RollbackEnable
  BY <1>2 DEF SealFails, Deployed, RollbackStart, RollbackFails, Kill, RollbackEnable
<1>3. CASE Refuse \/ ManualRollback \/ Boot \/ ServiceMoves \/ UNCHANGED vars
  BY <1>3 DEF Refuse, ManualRollback, Boot, ServiceMoves, vars, script
<1> QED
  BY <1>1, <1>2, <1>3 DEF Next, ScriptStep

\* The backups stay a sequence of whole records, the current one among them.
LEMMA BackupsStep ==
  ASSUME TypeOK, [Next]_vars
  PROVE  BackupsOK'
<1>0. backups \in Seq(BackupSet) /\ Len(backups) \in Nat /\ current \in 0..Len(backups)
  BY TypeParts, LenProperties DEF BackupsOK
<1>1. CASE BeginBackup
  BY <1>0, <1>1, BeginsBackup DEF BackupsOK
<1>2. CASE SealBackup
  BY <1>0, <1>2, SealsBackup DEF BackupsOK
<1>3. CASE ManualRollback
  BY <1>0, <1>3 DEF BackupsOK, ManualRollback
<1>4. CASE ~BeginBackup /\ ~SealBackup /\ ~ManualRollback
  BY <1>0, <1>4, BackupsKept DEF BackupsOK
<1> QED
  BY <1>1, <1>2, <1>3, <1>4

\* Every step of the script, of the one who calls it and of the host keeps it.
\* How the script gets where it is: a backup is begun from idle, the deployment
\* follows its sealing, and a rollback follows a deployment or a call of its own.
LEMMA Positions ==
  ASSUME [Next]_vars, pc' # "idle", ~BeginBackup, ~ManualRollback
  PROVE  /\ UNCHANGED <<version, current>>
         /\ pc' = "seal" => pc = "seal"
         /\ pc' \in DeploySteps => pc \in DeploySteps \/ SealBackup
         /\ pc' \in RollbackSteps => pc \in DeploySteps \cup RollbackSteps
<1> USE DEF Goto, End
<1>1. CASE SealBackup \/ StopService \/ InstallLauncher \/ InstallDropin \/ DaemonReload
           \/ Restart \/ CheckActive \/ EnableService
  BY <1>1 DEF DeploySteps, RollbackSteps, SealBackup, StopService, InstallLauncher,
     InstallDropin, DaemonReload, Restart, CheckActive, EnableService
<1>2. CASE Recover \/ RollbackStop \/ RollbackDropin \/ RollbackLauncher \/ RollbackReload
           \/ RollbackEnable
  BY <1>2 DEF DeploySteps, RollbackSteps, Recover, RollbackStop, RollbackDropin,
     RollbackLauncher, RollbackReload, RollbackEnable
<1>3. CASE SealFails \/ Deployed \/ RollbackStart \/ RollbackFails \/ Kill
  BY <1>3 DEF SealFails, Deployed, RollbackStart, RollbackFails, Kill
<1>4. CASE Refuse \/ Boot \/ ServiceMoves \/ UNCHANGED vars
  BY <1>4 DEF Refuse, Boot, ServiceMoves, vars, script
<1> QED
  BY <1>1, <1>2, <1>3, <1>4 DEF Next, ScriptStep

\* The steps that write a file, whole or cut off.
LEMMA FilesWritten ==
  ASSUME [Next]_vars
  PROVE  /\ launcher' # launcher => pc \in {"launcher", "r_launcher"}
         /\ dropin' # dropin => pc \in {"dropin", "r_dropin"}
<1> USE DEF files, Keep
<1>1. CASE SealBackup \/ StopService \/ DaemonReload \/ Restart \/ CheckActive
           \/ EnableService \/ SealFails \/ Deployed \/ RollbackStop \/ RollbackReload
           \/ RollbackEnable \/ RollbackStart
  BY <1>1 DEF SealBackup, StopService, DaemonReload, Restart, CheckActive, EnableService,
     SealFails, Deployed, RollbackStop, RollbackReload, RollbackEnable, RollbackStart
<1>2. CASE InstallLauncher \/ InstallDropin \/ RollbackDropin \/ RollbackLauncher
  BY <1>2 DEF InstallLauncher, InstallDropin, RollbackDropin, RollbackLauncher
<1>3. CASE Recover \/ RollbackFails \/ Kill \/ Boot
  BY <1>3 DEF Recover, RollbackFails, Kill, Boot, Cut, LauncherCut, DropinCut
<1>4. CASE Refuse \/ BeginBackup \/ ManualRollback \/ ServiceMoves \/ UNCHANGED vars
  BY <1>4 DEF Refuse, BeginBackup, ManualRollback, ServiceMoves, vars
<1> QED
  BY <1>1, <1>2, <1>3, <1>4 DEF Next, ScriptStep

\* The version chosen with the backup is kept until it is sealed.
LEMMA VersionStep ==
  ASSUME VersionChosen, [Next]_vars
  PROVE  VersionChosen'
<1>1. CASE BeginBackup \/ ManualRollback
  BY <1>1 DEF VersionChosen, BeginBackup, ManualRollback
<1>2. CASE ~BeginBackup /\ ~ManualRollback
  BY <1>2, Positions DEF VersionChosen
<1> QED
  BY <1>1, <1>2

\* TypeInv is inductive: every step keeps it, and
LEMMA TypeStep ==
  ASSUME TypeInv, [Next]_vars
  PROVE  TypeInv'
<1>1. TypeOK /\ VersionChosen
  BY DEF TypeInv
<1>2. HostOK' /\ PositionOK' /\ BackupsOK' /\ CountOK'
  BY <1>1, HostStep, PositionStep, BackupsStep, CountStep
<1>3. TypeOK'
  BY <1>2 DEF TypeOK, HostOK, PositionOK, BackupsOK, CountOK, BackupSet
<1> QED
  BY <1>1, <1>3, VersionStep DEF TypeInv

\* every state the program starts in has it.
LEMMA TypeInit ==
  ASSUME Init
  PROVE  TypeInv
<1>1. HostOK
  BY DEF Init, HostOK, Contents
<1>2. PositionOK /\ VersionChosen
  BY DEF Init, PositionOK, VersionChosen, DeploySteps
<1>3. CountOK
  BY InstallAssumption DEF Init, CountOK
<1>4. BackupsOK
  BY EmptySeq DEF Init, BackupsOK
<1> QED
  BY <1>1, <1>2, <1>3, <1>4, TypeParts DEF TypeInv

\* Every variable stays within its type: the files, the backups, the script's
\* position and the state systemd reports (install-strix-production.sh).
THEOREM TypeCorrect == Spec => []TypeOK
<1>1. TypeInv => TypeOK
  BY DEF TypeInv
<1> QED
  BY <1>1, TypeInit, TypeStep, PTL DEF Spec

-----------------------------------------------------------------------------
(* The original files *)

\* Sealing is the step that turns "the files are the original ones" into "a
\* backup holds them"; before it nothing writes a file, after it nothing drops
\* a backup.
LEMMA KeptStep ==
  ASSUME TypeInv, KeptInv, [Next]_vars
  PROVE  KeptInv'
<1>0. /\ TypeOK /\ backups \in Seq(BackupSet) /\ Len(backups) \in Nat
      /\ pc # "idle" => current \in 1..Len(backups)
  BY TypeParts, BackupType, LenProperties DEF TypeInv, BackupsOK
<1> DEFINE None == \A i \in 1..Len(backups) : ~backups[i].complete
           Some == \E i \in 1..Len(backups) : Holds(i)
<1>1. CASE BeginBackup
  <2>1. UNCHANGED <<dropin, launcher, original>> /\ pc' = "seal"
    BY <1>1 DEF BeginBackup, files
  <2>2. Backup'.dropin = dropin /\ Backup'.launcher = launcher
    BY <1>0, <1>1, BeginsBackup DEF Backup
  <2>3. None => None'
    BY <1>0, <1>1, BeginsBackup
  <2>4. Some => Some'
    BY <1>0, <1>1, <2>1, BeginsBackup DEF Holds
  <2> QED
    BY <2>1, <2>2, <2>3, <2>4 DEF KeptInv, DeploySteps, RollbackSteps, files
<1>2. CASE SealBackup
  <2>1. pc = "seal" /\ pc' = "stop" /\ UNCHANGED <<dropin, launcher, original>>
    BY <1>2 DEF SealBackup, Goto, files
  <2>2. /\ current \in 1..Len(backups) /\ current' = current /\ Len(backups') = Len(backups)
        /\ \A i \in 1..Len(backups) : i # current => backups'[i] = backups[i]
        /\ Backup' = [Backup EXCEPT !.complete = TRUE] /\ Backup \in BackupSet
    BY <1>0, <1>2, <2>1, SealsBackup, BackupType DEF Backup
  <2>3. /\ Backup'.complete
        /\ Backup'.dropin = Backup.dropin /\ Backup'.launcher = Backup.launcher
    BY <2>2 DEF BackupSet
  <2>4. files = original => Holds(current)'
    BY <2>1, <2>2, <2>3 DEF KeptInv, Holds, Backup, files
  <2>5. ASSUME NEW i \in 1..Len(backups), Holds(i) PROVE Holds(i)'
    BY <2>1, <2>2, <2>3, <2>5 DEF Holds, Backup
  <2>6. Some'
    BY <2>2, <2>4, <2>5 DEF KeptInv
  <2> QED
    BY <2>1, <2>3, <2>6 DEF KeptInv
<1>3. CASE ManualRollback
  <2>1. pc' = "r_stop" /\ UNCHANGED <<dropin, launcher, backups, original>> /\ Backup'.complete
    BY <1>3 DEF ManualRollback, files, Backup
  <2> QED
    BY <2>1 DEF KeptInv, Holds, files
<1>4. CASE ~BeginBackup /\ ~SealBackup /\ ~ManualRollback
  <2>1. UNCHANGED <<backups, original>>
    BY <1>0, <1>4, BackupsKept
  <2>2. Some => Some'
    BY <2>1 DEF Holds
  <2>3. None /\ files = original => (None /\ files = original)'
    <3>1. None => pc \notin DeploySteps \cup RollbackSteps
      BY <1>0 DEF KeptInv, Backup, DeploySteps, RollbackSteps
    <3>2. None => UNCHANGED files
      BY <3>1, FilesWritten DEF files, DeploySteps, RollbackSteps
    <3> QED
      BY <2>1, <3>2
  <2>4. ASSUME pc' # "idle"
        PROVE  /\ Backup' = Backup
               /\ pc' = "seal" => pc = "seal"
               /\ pc' \in DeploySteps \cup RollbackSteps => pc \in DeploySteps \cup RollbackSteps
    BY <1>4, <2>1, <2>4, Positions DEF Backup
  <2>5. pc' = "seal" => Backup'.dropin = dropin' /\ Backup'.launcher = launcher'
    BY <2>4, FilesWritten DEF KeptInv
  <2>6. pc' \in DeploySteps \cup RollbackSteps => Backup'.complete
    BY <2>4 DEF KeptInv, DeploySteps, RollbackSteps
  <2> QED
    BY <2>2, <2>3, <2>5, <2>6 DEF KeptInv
<1> QED
  BY <1>1, <1>2, <1>3, <1>4

\* Whatever deployments, kills, reboots and later deployments over their
\* remains have done, the files are the original ones or some complete backup
\* under /var/backups still holds them.
THEOREM OriginalFilesKept == Spec => []OriginalKept
<1>1. Init => KeptInv
  BY EmptySeq DEF Init, KeptInv, files, DeploySteps, RollbackSteps
<1>2. KeptInv => OriginalKept
  BY DEF KeptInv, OriginalKept, Holds
<1> QED
  BY <1>1, <1>2, TypeInit, TypeStep, KeptStep, PTL DEF Spec

-----------------------------------------------------------------------------
(* Replacing the files under a stopped service *)

\* The two stops establish it, and a stopped service moves only when started.
LEMMA StoppedStep ==
  ASSUME StoppedInv, [Next]_vars
  PROVE  StoppedInv'
<1> USE DEF StoppedInv, Goto, End, service
<1>1. CASE StopService \/ RollbackStop
  BY <1>1 DEF StopService, RollbackStop, Stop
<1>2. CASE InstallLauncher \/ InstallDropin \/ RollbackDropin \/ RollbackLauncher
  BY <1>2 DEF InstallLauncher, InstallDropin, RollbackDropin, RollbackLauncher
<1>3. CASE RollbackReload \/ RollbackEnable
  BY <1>3 DEF RollbackReload, RollbackEnable, Reload, Enable
<1>4. CASE SealBackup \/ DaemonReload \/ Restart \/ CheckActive \/ EnableService \/ Recover
           \/ BeginBackup \/ ManualRollback
  BY <1>4 DEF SealBackup, DaemonReload, Restart, CheckActive, EnableService, Recover,
     BeginBackup, ManualRollback
<1>5. CASE SealFails \/ Deployed \/ RollbackStart \/ RollbackFails \/ Kill
  BY <1>5 DEF SealFails, Deployed, RollbackStart, RollbackFails, Kill
<1>6. CASE Refuse \/ Boot \/ UNCHANGED vars
  BY <1>6 DEF Refuse, Boot, vars, script
<1>7. CASE ServiceMoves
  BY <1>7 DEF ServiceMoves, ServiceUp, ServiceDies, ServiceGivesUp, StartCut, Stop, script
<1> QED
  BY <1>1, <1>2, <1>3, <1>4, <1>5, <1>6, <1>7 DEF Next, ScriptStep

\* A file of the runtime is written, or cut off in the writing, only while the
\* service is stopped, whatever the service did on its own before.
THEOREM FilesReplacedWhenStopped == Spec => ReplacedWhenStopped
<1>1. Init => StoppedInv
  BY DEF Init, StoppedInv
<1>2. StoppedInv /\ [Next]_vars => [files' # files => unit = "inactive"]_vars
  BY FilesWritten DEF StoppedInv, files
<1> QED
  BY <1>1, <1>2, StoppedStep, PTL DEF Spec, ReplacedWhenStopped

-----------------------------------------------------------------------------
(* Rollbacks and deployments that say they succeeded *)

\* Each step of the rollback adds one thing that is back in its place.
LEMMA RollbackStep ==
  ASSUME TypeInv, StoppedInv, RollbackInv, [Next]_vars
  PROVE  RollbackInv'
<1> USE DEF RollbackInv, Goto, End, Keep, Backup, files, service
<1>1. CASE RollbackDropin \/ RollbackLauncher
  BY <1>1 DEF RollbackDropin, RollbackLauncher
<1>2. CASE RollbackReload
  BY <1>2 DEF RollbackReload, Reload
<1>3. CASE RollbackEnable
  BY <1>3 DEF RollbackEnable, Enable
<1>4. CASE StopService \/ InstallLauncher \/ InstallDropin \/ DaemonReload \/ Restart
           \/ CheckActive \/ EnableService \/ Recover \/ RollbackStop
  BY <1>4 DEF StopService, InstallLauncher, InstallDropin, DaemonReload, Restart,
     CheckActive, EnableService, Recover, RollbackStop
<1>5. CASE SealBackup \/ BeginBackup \/ ManualRollback
  BY <1>5 DEF SealBackup, BeginBackup, ManualRollback
<1>6. CASE SealFails \/ Deployed \/ RollbackStart \/ RollbackFails \/ Kill
  BY <1>6 DEF SealFails, Deployed, RollbackStart, RollbackFails, Kill
<1>7. CASE Refuse \/ Boot \/ UNCHANGED vars
  BY <1>7 DEF Refuse, Boot, vars, script
<1>8. CASE ServiceMoves
  <2>1. unit # "inactive" /\ UNCHANGED <<dropin, launcher, backups, pc, current>>
    BY <1>8 DEF ServiceMoves, ServiceUp, ServiceDies, ServiceGivesUp, script
  <2>2. pc \notin {"r_dropin", "r_launcher", "r_reload", "r_enable", "r_start"}
    BY <2>1 DEF StoppedInv
  <2> QED
    BY <2>1, <2>2
<1> QED
  BY <1>1, <1>2, <1>3, <1>4, <1>5, <1>6, <1>7, <1>8 DEF Next, ScriptStep

\* What a deployment has installed, loaded and started stays so until it ends.
LEMMA DeployStep ==
  ASSUME DeployInv, [Next]_vars
  PROVE  DeployInv'
<1> USE DEF DeployInv, DeploySteps, Goto, End, files, service
<1>1. CASE InstallLauncher \/ InstallDropin
  BY <1>1 DEF InstallLauncher, InstallDropin
<1>2. CASE DaemonReload
  BY <1>2 DEF DaemonReload, Reload
<1>3. CASE Restart
  BY <1>3 DEF Restart, Start
<1>4. CASE CheckActive
  BY <1>4 DEF CheckActive
<1>5. CASE EnableService
  BY <1>5 DEF EnableService, Enable
<1>6. CASE SealBackup \/ StopService \/ Recover \/ RollbackStop \/ RollbackDropin
           \/ RollbackLauncher \/ RollbackReload \/ BeginBackup \/ ManualRollback
  BY <1>6 DEF SealBackup, StopService, Recover, RollbackStop, RollbackDropin,
     RollbackLauncher, RollbackReload, BeginBackup, ManualRollback
<1>7. CASE SealFails \/ Deployed \/ RollbackEnable \/ RollbackStart \/ RollbackFails \/ Kill
  BY <1>7 DEF SealFails, Deployed, RollbackEnable, RollbackStart, RollbackFails, Kill
<1>8. CASE Refuse \/ UNCHANGED vars
  BY <1>8 DEF Refuse, vars, script
<1>9. CASE Boot
  <2>1. pc' = "idle"
    BY <1>9 DEF Boot, script
  <2> QED
    BY <2>1
<1>10. CASE ServiceMoves
  BY <1>10 DEF ServiceMoves, ServiceUp, ServiceDies, ServiceGivesUp, Start, StartCut, Stop,
     script
<1> QED
  BY <1>1, <1>2, <1>3, <1>4, <1>5, <1>6, <1>7, <1>8, <1>9, <1>10 DEF Next, ScriptStep

\* How an invocation that was running says it ended.
LEMMA Endings ==
  ASSUME [Next]_vars, pc # "idle", pc' = "idle"
  PROVE  /\ outcome' = "restored" => (RollbackEnable /\ ~Backup.active) \/ RollbackStart
         /\ outcome' = "deployed" => Deployed
<1> USE DEF Goto, End
<1>1. CASE SealFails \/ Deployed \/ RollbackFails \/ Kill
  BY <1>1 DEF SealFails, Deployed, RollbackFails, Kill
<1>2. CASE RollbackEnable \/ RollbackStart
  BY <1>2 DEF RollbackEnable, RollbackStart
<1>3. CASE SealBackup \/ StopService \/ InstallLauncher \/ InstallDropin \/ DaemonReload
           \/ Restart \/ CheckActive \/ EnableService \/ Recover \/ RollbackStop
           \/ RollbackDropin \/ RollbackLauncher \/ RollbackReload
  BY <1>3 DEF SealBackup, StopService, InstallLauncher, InstallDropin, DaemonReload,
     Restart, CheckActive, EnableService, Recover, RollbackStop, RollbackDropin,
     RollbackLauncher, RollbackReload
<1>4. CASE Refuse \/ BeginBackup \/ ManualRollback \/ Boot
  BY <1>4 DEF Refuse, BeginBackup, ManualRollback, Boot
<1>5. CASE ServiceMoves \/ UNCHANGED vars
  BY <1>5 DEF ServiceMoves, vars, script
<1> QED
  BY <1>1, <1>2, <1>3, <1>4, <1>5 DEF Next, ScriptStep

\* The last step of a rollback that says it restored the backup.
LEMMA RestoredStep ==
  ASSUME StoppedInv, RollbackInv, [Next]_vars,
         pc # "idle", outcome' = "restored", pc' = "idle"
  PROVE  /\ dropin' = Backup.dropin /\ launcher' = Backup.launcher
         /\ loaded' = dropin' /\ enabled' = Backup.enabled
         /\ unit' = IF Backup.active THEN "active" ELSE "inactive"
         /\ Backup.active => runs' = <<Backup.dropin, Backup.launcher>>
<1>1. CASE RollbackEnable /\ ~Backup.active
  <2>1. /\ pc = "r_enable" /\ UNCHANGED <<dropin, launcher, loaded, unit>>
        /\ enabled' = Backup.enabled
    BY <1>1 DEF RollbackEnable, Enable, files
  <2> QED
    BY <1>1, <2>1 DEF StoppedInv, RollbackInv
<1>2. CASE RollbackStart
  <2>1. /\ pc = "r_start" /\ UNCHANGED <<dropin, launcher, loaded, enabled>>
        /\ unit' = "active" /\ runs' = <<loaded, launcher>>
    BY <1>2 DEF RollbackStart, Start, files
  <2> QED
    BY <2>1 DEF RollbackInv
<1> QED
  BY <1>1, <1>2, Endings

\* "Previous runtime files and prior active/inactive state restored": when
\* rollback() says so, the files, the configuration systemd has loaded, the
\* enablement and what the service runs are those the backup recorded.
THEOREM RestoredMeansRestored == Spec => RestoredIsExact
<1>1. Init => StoppedInv /\ RollbackInv
  BY DEF Init, StoppedInv, RollbackInv
<1>2. StoppedInv /\ RollbackInv /\ [Next]_vars =>
        [(pc # "idle" /\ outcome' = "restored" /\ pc' = "idle") =>
           /\ dropin' = Backup.dropin /\ launcher' = Backup.launcher
           /\ loaded' = dropin' /\ enabled' = Backup.enabled
           /\ unit' = IF Backup.active THEN "active" ELSE "inactive"
           /\ Backup.active => runs' = <<Backup.dropin, Backup.launcher>>]_vars
  BY RestoredStep
<1> QED
  BY <1>1, <1>2, TypeInit, TypeStep, StoppedStep, RollbackStep, PTL DEF Spec, RestoredIsExact

\* The last step of a deployment that says it succeeded.
LEMMA DeployedStep ==
  ASSUME DeployInv, [Next]_vars, pc = "status", outcome' = "deployed", pc' = "idle"
  PROVE  /\ files' = <<version, version>> /\ loaded' = version /\ enabled'
         /\ runs' = files'
<1>1. Deployed
  BY Endings
<1>2. UNCHANGED <<dropin, launcher, loaded, enabled, runs>>
  BY <1>1 DEF Deployed, files, service
<1>3. /\ dropin = version /\ launcher = version /\ loaded = version /\ enabled
      /\ runs = <<version, version>>
  BY DEF DeployInv, DeploySteps
<1> QED
  BY <1>2, <1>3 DEF files

\* "Strix production deployment succeeded": the service was started from the
\* new drop-in and the new launcher, and both are what the next boot uses.
THEOREM DeployedMeansDeployed == Spec => DeployedIsNew
<1>1. Init => DeployInv
  BY DEF Init, DeployInv, DeploySteps
<1>2. DeployInv /\ [Next]_vars =>
        [(pc = "status" /\ outcome' = "deployed" /\ pc' = "idle") =>
           /\ files' = <<version, version>> /\ loaded' = version /\ enabled'
           /\ runs' = files']_vars
  BY DeployedStep
<1> QED
  BY <1>1, <1>2, DeployStep, PTL DEF Spec, DeployedIsNew

-----------------------------------------------------------------------------
(* The first migration of a host *)

LEMMA BeforeDropin ==
  ASSUME [Next]_vars, ~BeginBackup, pc' \in {"seal", "stop", "launcher"}
  PROVE  pc \in {"seal", "stop", "launcher"}
<1> USE DEF Goto, End
<1>1. CASE StopService \/ InstallLauncher \/ InstallDropin \/ DaemonReload \/ Restart
           \/ CheckActive \/ EnableService \/ Recover \/ RollbackStop \/ RollbackDropin
           \/ RollbackLauncher \/ RollbackReload \/ SealBackup \/ ManualRollback
  BY <1>1 DEF StopService, InstallLauncher, InstallDropin, DaemonReload, Restart, CheckActive,
     EnableService, Recover, RollbackStop, RollbackDropin, RollbackLauncher, RollbackReload,
     SealBackup, ManualRollback
<1>2. CASE SealFails \/ Deployed \/ RollbackEnable \/ RollbackStart \/ RollbackFails \/ Kill
  BY <1>2 DEF SealFails, Deployed, RollbackEnable, RollbackStart, RollbackFails, Kill
<1>3. CASE Refuse \/ Boot \/ ServiceMoves \/ UNCHANGED vars
  BY <1>3 DEF Refuse, Boot, ServiceMoves, vars, script
<1> QED
  BY <1>1, <1>2, <1>3 DEF Next, ScriptStep

\* A rollback to "no drop-in" only ever removes it, also when it is cut off.
LEMMA DropinRemoved ==
  ASSUME [Next]_vars, pc = "r_dropin", Backup.dropin = Absent
  PROVE  dropin' \in {dropin, Absent}
<1> USE DEF files, Keep, Goto, End
<1>1. CASE RollbackDropin
  BY <1>1 DEF RollbackDropin
<1>2. CASE Recover \/ RollbackFails \/ Kill \/ Boot
  BY <1>2 DEF Recover, RollbackFails, Kill, Boot, Cut, DropinCut, Interrupted
<1>3. CASE SealBackup \/ SealFails \/ StopService \/ InstallLauncher \/ InstallDropin
           \/ DaemonReload \/ Restart \/ CheckActive \/ EnableService \/ Deployed
           \/ RollbackStop \/ RollbackLauncher \/ RollbackReload \/ RollbackEnable
           \/ RollbackStart \/ BeginBackup \/ ManualRollback
  BY <1>3 DEF SealBackup, SealFails, StopService, InstallLauncher, InstallDropin,
     DaemonReload, Restart, CheckActive, EnableService, Deployed, RollbackStop,
     RollbackLauncher, RollbackReload, RollbackEnable, RollbackStart, BeginBackup,
     ManualRollback
<1>4. CASE Refuse \/ ServiceMoves \/ UNCHANGED vars
  BY <1>4 DEF Refuse, ServiceMoves, vars
<1> QED
  BY <1>1, <1>2, <1>3, <1>4 DEF Next, ScriptStep

\* MigrationInv is kept by every step, using what the two paths have put in place.
LEMMA MigrationStep ==
  ASSUME TypeInv, DeployInv, RollbackInv, MigrationInv, [Next]_vars
  PROVE  MigrationInv'
<1>0. /\ TypeOK /\ invocations \in Nat /\ Len(backups) \in Nat
      /\ pc # "idle" => current \in 1..Len(backups)
      /\ backups \in Seq(BackupSet)
  BY TypeParts, BackupType, LenProperties, InstallAssumption DEF TypeInv, BackupsOK, CountOK
<1> DEFINE First == original = <<Absent, Absent>> /\ invocations <= 1
<1> SUFFICES ASSUME First' PROVE
      /\ (dropin # Absent => launcher \in Versions)'
      /\ (pc \in {"seal", "stop", "launcher"} => dropin = Absent)'
      /\ (invocations = 0 => pc = "idle" /\ backups = <<>> /\ dropin = Absent)'
      /\ (\A i \in 1..Len(backups) : backups[i].dropin = Absent)'
  BY DEF MigrationInv
<1>1. CASE ManualRollback
  <2>1. /\ invocations' = invocations + 1 /\ UNCHANGED <<original>> /\ Len(backups) > 0
    BY <1>0, <1>1 DEF ManualRollback
  <2>2. First /\ invocations = 0
    BY <1>0, <2>1
  <2>3. backups = <<>>
    BY <2>2 DEF MigrationInv
  <2> QED
    BY <2>1, <2>3, EmptySeq
<1>2. CASE BeginBackup
  <2>1. /\ invocations' = invocations + 1
        /\ UNCHANGED <<dropin, launcher, original>> /\ pc' = "seal"
    BY <1>2 DEF BeginBackup, files
  <2>2. First /\ invocations = 0
    BY <1>0, <2>1
  <2>3. backups = <<>> /\ dropin = Absent
    BY <2>2 DEF MigrationInv
  <2>4. Len(backups') = 1 /\ backups'[1].dropin = Absent
    BY <1>0, <1>2, <2>3, BeginsBackup, EmptySeq
  <2> QED
    BY <1>0, <2>1, <2>3, <2>4
<1>3. CASE Refuse
  <2>1. /\ invocations' = invocations + 1
        /\ UNCHANGED <<dropin, launcher, original, pc, backups>>
    BY <1>3 DEF Refuse, files, script
  <2> QED
    BY <1>0, <2>1 DEF MigrationInv
<1>4. CASE ~BeginBackup /\ ~ManualRollback /\ ~Refuse
  <2>1. invocations' = invocations /\ original' = original
    BY <1>0, <1>4, CountKept, BackupsKept DEF SealBackup
  <2>2. First /\ MigrationInv /\ DeployInv /\ RollbackInv
    BY <2>1
  <2>3. \A i \in 1..Len(backups) : backups[i].dropin = Absent
    BY <2>2 DEF MigrationInv
  <2>4. (\A i \in 1..Len(backups) : backups[i].dropin = Absent)'
    <3>1. CASE SealBackup
      <4>1. /\ Len(backups') = Len(backups) /\ current \in 1..Len(backups)
            /\ \A i \in 1..Len(backups) : i # current => backups'[i] = backups[i]
            /\ backups'[current] = [Backup EXCEPT !.complete = TRUE] /\ Backup \in BackupSet
        BY <1>0, <3>1, SealsBackup, BackupType DEF SealBackup
      <4>2. backups'[current].dropin = Backup.dropin /\ Backup.dropin = Absent
        BY <2>3, <4>1 DEF BackupSet, Backup
      <4> QED
        BY <2>3, <4>1, <4>2
    <3>2. CASE ~SealBackup
      BY <1>0, <1>4, <2>3, <3>2, BackupsKept
    <3> QED
      BY <3>1, <3>2
  <2>5. (pc \in {"seal", "stop", "launcher"} => dropin = Absent)'
    BY <1>4, <2>2, BeforeDropin, FilesWritten DEF MigrationInv
  <2>6. (invocations = 0 => pc = "idle" /\ backups = <<>> /\ dropin = Absent)'
    <3> SUFFICES ASSUME invocations = 0 PROVE (pc = "idle" /\ backups = <<>> /\ dropin = Absent)'
      BY <2>1
    <3>1. pc = "idle" /\ backups = <<>> /\ dropin = Absent
      BY <2>2 DEF MigrationInv
    <3>2. ~SealBackup /\ dropin' = dropin
      BY <3>1, FilesWritten DEF SealBackup
    <3>3. PositionOK'
      BY TypeStep, TypeParts, PositionStep DEF TypeInv
    <3>4. pc' = "idle"
      BY <1>4, <3>1, <3>2, <3>3, Positions DEF PositionOK, DeploySteps, RollbackSteps
    <3> QED
      BY <1>0, <1>4, <3>1, <3>2, <3>4, BackupsKept
  <2>7. (dropin # Absent => launcher \in Versions)'
    <3>1. dropin # Absent => launcher \in Versions
      BY <2>2 DEF MigrationInv
    <3>2. CASE pc = "launcher"
      BY <2>2, <3>2, FilesWritten DEF MigrationInv
    <3>3. CASE pc = "r_launcher"
      BY <1>0, <2>2, <2>3, <3>3, FilesWritten DEF RollbackInv, Backup
    <3>4. CASE pc = "dropin"
      <4>1. launcher = version /\ version \in Versions
        BY <2>2, <3>4, TypeParts DEF TypeInv, PositionOK, DeployInv, DeploySteps
      <4> QED
        BY <3>4, <4>1, FilesWritten
    <3>5. CASE pc = "r_dropin"
      <4>1. Backup.dropin = Absent
        BY <1>0, <2>3, <3>5 DEF Backup
      <4> QED
        BY <3>1, <3>5, <4>1, DropinRemoved, FilesWritten
    <3>6. CASE pc \notin {"launcher", "r_launcher", "dropin", "r_dropin"}
      BY <3>1, <3>6, FilesWritten
    <3> QED
      BY <3>2, <3>3, <3>4, <3>5, <3>6
  <2> QED
    BY <2>4, <2>5, <2>6, <2>7
<1> QED
  BY <1>1, <1>2, <1>3, <1>4

\* A host migrated for the first time can lose power at any step, also of the
\* rollback: its drop-in never names a launcher that is missing or cut off.
THEOREM FirstMigrationAlwaysBoots == Spec => []FirstMigrationBoots
<1>1. Init => StoppedInv /\ DeployInv /\ RollbackInv /\ MigrationInv
  BY EmptySeq, InstallAssumption DEF Init, StoppedInv, DeployInv, RollbackInv, MigrationInv,
     DeploySteps
<1>2. MigrationInv => FirstMigrationBoots
  BY DEF MigrationInv, FirstMigrationBoots
<1> QED
  BY <1>1, <1>2, TypeInit, TypeStep, StoppedStep, DeployStep, RollbackStep, MigrationStep,
     PTL DEF Spec
=============================================================================
