---------------------------- MODULE StrixInstall ----------------------------
(***************************************************************************)
(* install-strix-production.sh: the switch of an existing service to the   *)
(* Strix runtime.  A deployment backs up the two runtime files and the     *)
(* service's state, stops the service, replaces the files, starts it and   *)
(* enables it; any failure runs the rollback from an EXIT trap.  The same  *)
(* rollback can be called later on any complete backup.  Commands may fail *)
(* half done, the script may be killed, the host may be rebooted and the   *)
(* service may die or come up on its own between any two steps.            *)
(***************************************************************************)
EXTENDS Naturals, Sequences

CONSTANTS
  Versions,        \* the published versions of launcher and drop-in
  MaxInvocations   \* bound: calls of the script

Absent == "absent"
Torn == "torn"                              \* cut off half way
Contents == Versions \cup {Absent, Torn}    \* what a file can be

ASSUME InstallAssumption ==
  /\ Versions # {} /\ Absent \notin Versions /\ Torn \notin Versions
  /\ MaxInvocations \in Nat

VARIABLES
  dropin,      \* 90-strix-runtime.conf on disk
  launcher,    \* qwen-strix-production.py on disk
  loaded,      \* the drop-in systemd read at its last daemon-reload or boot
  unit,        \* the service: inactive, activating or active
  runs,        \* the <<drop-in, launcher>> the service was last started from
  enabled,     \* the service starts at boot
  backups,     \* /var/backups/qwen-strix.*, in order of creation
  original,    \* the files before the first invocation (history)
  pc, version, \* the script: its next step, the version it deploys
  current,     \* the backup its rollback restores
  outcome,     \* what the last invocation said, or how it ended
  invocations

files == <<dropin, launcher>>
service == <<loaded, unit, runs, enabled>>
script == <<pc, version, current>>
vars == <<files, service, backups, original, script, outcome, invocations>>

DeploySteps == {"stop", "launcher", "dropin", "reload", "restart", "check",
                "enable", "status"}
RollbackSteps == {"r_stop", "r_dropin", "r_launcher", "r_reload", "r_enable", "r_start"}
Backup == backups[current]

\* The base unit has a launcher of its own; the drop-in needs a whole one.
CanServe == loaded = Absent \/ (loaded \in Versions /\ launcher \in Versions)

-----------------------------------------------------------------------------
(* The commands of the script *)

\* install(1) removes its target and writes it anew; rm removes it.
Interrupted(file, new) == {file, Absent} \cup (IF new = Absent THEN {} ELSE {Torn})
LauncherCut ==
  launcher' \in CASE pc = "launcher" -> Interrupted(launcher, version)
                  [] pc = "r_launcher" -> Interrupted(launcher, Backup.launcher)
                  [] OTHER -> {launcher}
DropinCut ==
  dropin' \in CASE pc = "dropin" -> Interrupted(dropin, version)
                [] pc = "r_dropin" -> Interrupted(dropin, Backup.dropin)
                [] OTHER -> {dropin}

Stop == unit' = "inactive" /\ UNCHANGED <<loaded, runs, enabled>>

\* systemctl start returns once the readiness check of ExecStartPost passed.
Start == /\ CanServe
         /\ unit' = "active" /\ runs' = <<loaded, launcher>>
         /\ UNCHANGED <<loaded, enabled>>

MutantReload == UNCHANGED service
Reload == loaded' = dropin /\ UNCHANGED <<unit, runs, enabled>>

Enable(on) == enabled' = on /\ UNCHANGED <<loaded, unit, runs>>

\* A command that fails, or is cut off with the script: the service may have
\* been stopped, or be waiting for its automatic restart.
StopCut == unit' \in {unit, "inactive"} /\ UNCHANGED <<loaded, runs, enabled>>
StartCut == unit' \in {"inactive", "activating"} /\ UNCHANGED <<loaded, runs, enabled>>
EnableCut(on) == enabled' \in {enabled, on} /\ UNCHANGED <<loaded, unit, runs>>
ServiceCut ==
  CASE pc \in {"stop", "r_stop"} -> StopCut
    [] pc \in {"restart", "r_start"} -> StartCut
    [] pc \in {"reload", "r_reload"} ->
         loaded' \in {loaded, dropin} /\ UNCHANGED <<unit, runs, enabled>>
    [] pc = "enable" -> EnableCut(TRUE)
    [] pc = "r_enable" -> EnableCut(Backup.enabled)
    [] OTHER -> UNCHANGED service
Cut == LauncherCut /\ DropinCut /\ ServiceCut

Goto(step) == pc' = step /\ UNCHANGED <<version, current, outcome>>
End(how) == pc' = "idle" /\ outcome' = how /\ version' = Absent /\ current' = 0
Keep == UNCHANGED <<backups, original, invocations>>

-----------------------------------------------------------------------------
(* A deployment *)

\* The checks before the backup: unit, user, enablement, symlinks, a trial.
Refuse ==
  /\ pc = "idle" /\ invocations < MaxInvocations
  /\ invocations' = invocations + 1
  /\ outcome' = "refused"
  /\ UNCHANGED <<files, service, backups, original, script>>

\* The directory with the files and the state the rollback will go back to.
BeginBackup ==
  /\ pc = "idle" /\ invocations < MaxInvocations
  /\ invocations' = invocations + 1
  /\ backups' = Append(backups, [dropin |-> dropin, launcher |-> launcher,
                                 active |-> unit = "active", enabled |-> enabled,
                                 complete |-> FALSE])
  /\ current' = Len(backups) + 1
  /\ version' \in Versions
  /\ pc' = "seal" /\ outcome' = "none"
  /\ UNCHANGED <<files, service, original>>

MutantSealBackup ==
  /\ pc = "seal"
  /\ Goto("stop")
  /\ UNCHANGED <<files, service, backups, original, invocations>>

SealBackup ==
  /\ pc = "seal"
  /\ backups' = [backups EXCEPT ![current].complete = TRUE]
  /\ Goto("stop")
  /\ UNCHANGED <<files, service, original, invocations>>

\* Before the trap is set a failure changes nothing.
SealFails == pc = "seal" /\ End("refused") /\ Keep /\ UNCHANGED <<files, service>>

MutantStopService == pc = "stop" /\ Stop /\ Goto("dropin") /\ Keep /\ UNCHANGED files
StopService == pc = "stop" /\ Stop /\ Goto("launcher") /\ Keep /\ UNCHANGED files

InstallLauncher ==
  /\ pc = "launcher"
  /\ launcher' = version
  /\ Goto("dropin") /\ Keep /\ UNCHANGED <<dropin, service>>

InstallDropin ==
  /\ pc = "dropin"
  /\ dropin' = version
  /\ Goto("reload") /\ Keep /\ UNCHANGED <<launcher, service>>

DaemonReload == pc = "reload" /\ Reload /\ Goto("restart") /\ Keep /\ UNCHANGED files

Restart == pc = "restart" /\ Start /\ Goto("check") /\ Keep /\ UNCHANGED files

CheckActive ==
  /\ pc = "check" /\ unit = "active"
  /\ Goto("enable") /\ Keep /\ UNCHANGED <<files, service>>

EnableService == pc = "enable" /\ Enable(TRUE) /\ Goto("status") /\ Keep /\ UNCHANGED files

\* complete=1: from here on the EXIT trap lets the deployment stand.
Deployed ==
  /\ pc = "status" /\ unit # "inactive"
  /\ End("deployed") /\ Keep /\ UNCHANGED <<files, service>>

MutantRecover ==
  /\ pc \in DeploySteps \ {"check"}
  /\ Cut
  /\ Goto("r_stop") /\ Keep

\* errexit, SIGINT or SIGTERM: the EXIT trap starts the rollback.
Recover ==
  /\ pc \in DeploySteps
  /\ Cut
  /\ Goto("r_stop") /\ Keep

-----------------------------------------------------------------------------
(* rollback() *)

MutantManualRollback ==
  /\ pc = "idle" /\ invocations < MaxInvocations
  /\ invocations' = invocations + 1
  /\ current' \in 1..(Len(backups) + 1)
  /\ pc' = "r_stop" /\ outcome' = "none"
  /\ UNCHANGED <<files, service, backups, original, version>>

\* Called by hand; a backup that is not complete is turned down (Refuse).
ManualRollback ==
  /\ pc = "idle" /\ invocations < MaxInvocations
  /\ invocations' = invocations + 1
  /\ \E i \in 1..Len(backups) : backups[i].complete /\ current' = i
  /\ pc' = "r_stop" /\ outcome' = "none"
  /\ UNCHANGED <<files, service, backups, original, version>>

MutantRollbackStop ==
  pc = "r_stop" /\ Goto("r_dropin") /\ Keep /\ UNCHANGED <<files, service>>
RollbackStop == pc = "r_stop" /\ Stop /\ Goto("r_dropin") /\ Keep /\ UNCHANGED files

RollbackDropin ==
  /\ pc = "r_dropin"
  /\ dropin' = Backup.dropin
  /\ Goto("r_launcher") /\ Keep /\ UNCHANGED <<launcher, service>>

MutantRollbackLauncher ==
  /\ pc = "r_launcher"
  /\ launcher' = IF Backup.launcher = Absent THEN launcher ELSE Backup.launcher
  /\ Goto("r_reload") /\ Keep /\ UNCHANGED <<dropin, service>>
RollbackLauncher ==
  /\ pc = "r_launcher"
  /\ launcher' = Backup.launcher
  /\ Goto("r_reload") /\ Keep /\ UNCHANGED <<dropin, service>>

RollbackReload == pc = "r_reload" /\ Reload /\ Goto("r_enable") /\ Keep /\ UNCHANGED files

RollbackEnable ==
  /\ pc = "r_enable"
  /\ Enable(Backup.enabled)
  /\ IF Backup.active THEN Goto("r_start") ELSE End("restored")
  /\ Keep /\ UNCHANGED files

RollbackStart == pc = "r_start" /\ Start /\ End("restored") /\ Keep /\ UNCHANGED files

\* A step of the rollback that fails ends it: ROLLBACK FAILED.
RollbackFails ==
  /\ pc \in RollbackSteps
  /\ Cut
  /\ End("rollback failed") /\ Keep

-----------------------------------------------------------------------------
(* What happens around the script *)

\* SIGKILL: no trap runs.
Kill ==
  /\ pc # "idle"
  /\ Cut
  /\ End("killed") /\ Keep

\* Power loss, or a reboot.
Boot ==
  /\ LauncherCut /\ DropinCut
  /\ IF pc = "idle" THEN UNCHANGED <<script, outcome>> ELSE End("killed")
  /\ loaded' = dropin'
  /\ unit' = IF enabled THEN "activating" ELSE "inactive"
  /\ UNCHANGED <<runs, enabled, backups, original, invocations>>

\* The service comes up, dies and is restarted, or gives up, on its own.
ServiceUp == unit = "activating" /\ Start
ServiceDies == unit = "active" /\ StartCut
ServiceGivesUp == unit = "activating" /\ Stop
ServiceMoves ==
  /\ ServiceUp \/ ServiceDies \/ ServiceGivesUp
  /\ UNCHANGED <<files, backups, original, script, outcome, invocations>>

Init ==
  /\ dropin \in {Absent} \cup Versions
  /\ launcher = dropin /\ loaded = dropin /\ original = <<dropin, launcher>>
  /\ unit \in {"inactive", "activating", "active"} /\ runs = <<dropin, launcher>>
  /\ enabled \in BOOLEAN
  /\ backups = <<>> /\ pc = "idle" /\ version = Absent /\ current = 0
  /\ outcome = "none" /\ invocations = 0

ScriptStep ==
  \/ SealBackup \/ SealFails \/ StopService \/ InstallLauncher \/ InstallDropin
  \/ DaemonReload \/ Restart \/ CheckActive \/ EnableService \/ Deployed \/ Recover
  \/ RollbackStop \/ RollbackDropin \/ RollbackLauncher \/ RollbackReload
  \/ RollbackEnable \/ RollbackStart \/ RollbackFails

Next ==
  \/ ScriptStep
  \/ Refuse \/ BeginBackup \/ ManualRollback
  \/ Kill \/ Boot \/ ServiceMoves

Spec == Init /\ [][Next]_vars
FairSpec == Spec /\ WF_vars(ScriptStep)

-----------------------------------------------------------------------------
(* Properties *)

TypeOK ==
  /\ dropin \in Contents /\ launcher \in Contents /\ loaded \in Contents
  /\ unit \in {"inactive", "activating", "active"}
  /\ runs \in Contents \X Contents
  /\ enabled \in BOOLEAN
  /\ backups \in Seq([dropin : Contents, launcher : Contents, active : BOOLEAN,
                      enabled : BOOLEAN, complete : BOOLEAN])
  /\ original \in Contents \X Contents
  /\ pc \in DeploySteps \cup RollbackSteps \cup {"idle", "seal"}
  /\ version \in Versions \cup {Absent}
  /\ pc \in DeploySteps => version \in Versions
  /\ current \in 0..Len(backups)
  /\ pc # "idle" => current # 0
  /\ outcome \in {"none", "refused", "deployed", "restored", "rollback failed", "killed"}
  /\ invocations \in 0..MaxInvocations

\* Whatever deployments, kills, reboots and later deployments over their
\* remains have done, some complete backup still holds the original files.
OriginalKept ==
  \/ files = original
  \/ \E i \in 1..Len(backups) :
       backups[i].complete /\ <<backups[i].dropin, backups[i].launcher>> = original

\* "Previous runtime files and prior active/inactive state restored": when the
\* script says so the files, the loaded configuration, the enablement and what
\* the service runs are those of the backup.
RestoredIsExact ==
  [][(pc # "idle" /\ outcome' = "restored" /\ pc' = "idle") =>
       /\ dropin' = Backup.dropin /\ launcher' = Backup.launcher
       /\ loaded' = dropin' /\ enabled' = Backup.enabled
       /\ unit' = IF Backup.active THEN "active" ELSE "inactive"
       /\ Backup.active => runs' = <<Backup.dropin, Backup.launcher>>]_vars

\* "Strix production deployment succeeded": the service was started from the
\* new drop-in and the new launcher, and both are what the next boot uses.
DeployedIsNew ==
  [][(pc = "status" /\ outcome' = "deployed" /\ pc' = "idle") =>
       /\ files' = <<version, version>> /\ loaded' = version /\ enabled'
       /\ runs' = files']_vars

\* The runtime files are replaced only while the service is stopped, also when
\* a failed restart has left it in its automatic restarts.
ReplacedWhenStopped == [][files' # files => unit = "inactive"]_vars

\* A host migrated for the first time can lose power at any step: its drop-in
\* never names a launcher that is missing or cut off.
FirstMigrationBoots ==
  (original = <<Absent, Absent>> /\ invocations <= 1) =>
     (dropin # Absent => launcher \in Versions)

\* Every invocation ends, whatever fails in it.
InvocationEnds == (pc # "idle") ~> (pc = "idle")
=============================================================================
