------------------------------ MODULE Upgrade ------------------------------
(***************************************************************************)
(* Upgrade of a node: the daemon verifies a new binary, writes a plan and  *)
(* hands over to a helper in a unit of its own; the helper stops the       *)
(* daemon, replaces its binary, starts it, waits until it is ready and     *)
(* reports, or puts the old binary back.  The plan file and the daemon's   *)
(* journal are all that survives when the machine stops between two of     *)
(* these steps; then a retained recovery binary, run before each start of  *)
(* the daemon, decides what is to run.                                     *)
(***************************************************************************)
EXTENDS MaintenancePlan

CONSTANTS
    LastUpgrade, \* how many upgrades the administrator orders
    MaxFaults,   \* bound: how often something outside fails
    Mishaps      \* which of the faults below may be among them

\* A helper is killed by itself; systemd-run fails after it started the unit; a
\* helper saves after a later upgrade has; a rollback fails to stop the daemon.
MishapKinds == {"helper_killed", "handoff_misleads", "late_save", "rollback_misses"}

ASSUME UpgradeAssumption ==
    /\ LastUpgrade \in Nat \ {0} /\ MaxFaults \in Nat /\ Mishaps \subseteq MishapKinds

Upgrades == 1 .. LastUpgrade

\* Upgrade t installs version t; version 0 is what the installer put there.
Versions == 0 .. LastUpgrade

VARIABLES
    panel,      \* the panel's task rows, the version the session reported,
                \* and the task announced on this session (0: none)
    journal,    \* the daemon's task rows
    plan,       \* upgrade.json
    installed,  \* the version at InstalledBinary
    daemon,     \* the unit's process: where it is, its version, its number
    wanted,     \* whether systemd is to keep the daemon running
    ready,      \* ready.json: process and version
    exit,       \* exit.json: process, version and kind of exit
    worker,     \* the daemon's task worker
    helper,     \* the helper of each upgrade
    defective,  \* the versions that never become ready
    settled,    \* history: the last process saved its final traffic sample
    proven,     \* history: the versions a process of which became ready
    faults      \* how many faults have happened, and whether a mishap has

vars == <<panel, journal, plan, installed, daemon, wanted, ready, exit,
          worker, helper, defective, settled, proven, faults>>

files == <<journal, plan, installed>>
evidence == <<wanted, ready, exit, settled, proven>>
service == <<daemon, evidence>>

NoWorker == [at |-> "idle", task |-> 0]
NoHelper == [at |-> "gone", task |-> 0, old |-> 0, ready |-> 0, after |-> 0,
             back |-> FALSE, result |-> "none"]

\* Where the daemon's process has marked itself ready.
Running == {"ready", "confirmed", "up", "online"}

Init ==
    /\ panel = [task |-> [t \in Upgrades |-> "none"], version |-> 0, announced |-> 0]
    /\ journal = [t \in Upgrades |-> [status |-> "none", version |-> 0, acked |-> FALSE]]
    /\ plan = NoPlan /\ installed = 0
    /\ daemon = [at |-> "online", version |-> 0, pid |-> 1, ack |-> 0]
    /\ wanted = TRUE
    /\ ready = [pid |-> 1, version |-> 0]
    /\ exit = [pid |-> 0, version |-> 0, kind |-> "none"]
    /\ worker = NoWorker
    /\ helper = [t \in Upgrades |-> NoHelper]
    /\ defective \in SUBSET Upgrades
    /\ settled = FALSE /\ proven = {0}
    /\ faults = [number |-> 0, mishap |-> FALSE]

Fault == faults.number < MaxFaults /\ faults' = [faults EXCEPT !.number = @ + 1]

Mishap(kind) ==
    /\ kind \in Mishaps /\ faults.number < MaxFaults
    /\ faults' = [number |-> faults.number + 1, mishap |-> TRUE]

-----------------------------------------------------------------------------
(* The panel.                                                              *)

Settled(t) == panel.task[t] \in {"succeeded", "failed"}

\* enqueue: one upgrade at a time.
Enqueue(t) ==
    /\ panel.task[t] = "none" /\ \A u \in 1 .. t - 1 : Settled(u)
    /\ panel' = [panel EXCEPT !.task[t] = "queued"]
    /\ UNCHANGED <<files, service, worker, helper, defective, faults>>

\* reportTask: a success waits until the node has reported its new version.
Admits(t) ==
    \/ Settled(t)
    \/ panel.task[t] = "accepted"
       /\ (journal[t].status = "succeeded" => panel.version = t)

Outcome(t) == IF Settled(t) THEN panel.task[t]
              ELSE IF journal[t].status = "succeeded" THEN "succeeded" ELSE "failed"

-----------------------------------------------------------------------------
(* The daemon's worker: execute and BeginUpgrade.                          *)

\* AcceptTask, Accept, Active and the transition to running.
TakeTask(t) ==
    /\ daemon.at = "online" /\ worker.at = "idle"
    /\ panel.task[t] \in {"queued", "accepted"} /\ panel.announced # t
    /\ panel' = [panel EXCEPT !.task[t] = "accepted", !.announced = t]
    /\ IF Terminal(journal[t]) \/ HandedOver(plan, t)
       THEN UNCHANGED <<journal, worker>>
       ELSE /\ journal' = [journal EXCEPT ![t].status = "running"]
            /\ worker' = [at |-> "checking", task |-> t]
    /\ UNCHANGED <<plan, installed, service, helper, defective, faults>>

\* Everything BeginUpgrade verifies before it changes a file.
Verify ==
    /\ worker.at = "checking"
    /\ Idle(plan, journal) /\ installed = daemon.version
    /\ worker' = [worker EXCEPT !.at = "verified"]
    /\ UNCHANGED <<panel, files, service, helper, defective, faults>>

\* Any of those checks fails; execute records the failure.
Refuse ==
    /\ worker.at \in {"checking", "failing"}
    /\ journal' = [journal EXCEPT ![worker.task] = Decided(@, "failed", daemon.version)]
    /\ worker' = NoWorker
    /\ UNCHANGED <<panel, plan, installed, service, helper, defective, faults>>

PlanOf(t, phase) == [task |-> t, old |-> daemon.version, phase |-> phase]

\* No helper stands between its result and the save that follows, which would
\* replace the plan of the upgrade prepared in the meantime.
NoLateSave == \A t \in Upgrades : helper[t].at # "decided"

SavePlan ==
    /\ worker.at = "verified"
    /\ \/ NoLateSave /\ UNCHANGED faults
       \/ ~NoLateSave /\ Mishap("late_save")
    /\ plan' = Saved(plan, PlanOf(worker.task, "updater_ready"))
    /\ worker' = [worker EXCEPT !.at = "handing"]
    /\ UNCHANGED <<panel, journal, installed, service, helper, defective>>

\* systemd-run starts the helper's unit, then the command returns.
HandOver ==
    /\ worker.at = "handing"
    /\ helper' = [helper EXCEPT ![worker.task] = [NoHelper EXCEPT !.at = "loading"]]
    /\ worker' = [worker EXCEPT !.at = "handed"]
    /\ UNCHANGED <<panel, files, service, defective, faults>>

HandedOff ==
    /\ worker.at = "handed" /\ worker' = NoWorker
    /\ UNCHANGED <<panel, files, service, helper, defective, faults>>

\* The command fails, or it is ended when its caller is cancelled, by which
\* time the unit may have started.
HandOverFails ==
    /\ \/ worker.at = "handing" /\ Fault
       \/ worker.at = "handed" /\ Mishap("handoff_misleads")
    /\ plan' = Saved(plan, PlanOf(worker.task, "completed"))
    /\ worker' = [worker EXCEPT !.at = "failing"]
    /\ UNCHANGED <<panel, journal, installed, service, helper, defective>>

-----------------------------------------------------------------------------
(* The daemon's unit: ExecStartPre runs the recovery, then main.           *)

StartUnit ==
    /\ wanted /\ daemon.at = "down"
    /\ daemon' = [daemon EXCEPT !.at = "pre"]
    /\ UNCHANGED <<panel, files, evidence, worker, helper, defective, faults>>

\* The new process.  Processes are numbered by the readiness evidence they leave;
\* those that end without any share the number of the next one that will.
Executed == [at |-> "main", version |-> installed, pid |-> ready.pid + 1, ack |-> 0]

\* Fault: systemctl cannot be asked, which counts as no.
NotSeen == FALSE

\* helperActive on the unit the plan names.
HelperActive == plan.task # 0 /\ helper[plan.task].at # "gone"

\* RecoverBeforeStart finds an upgrade that nobody is working on any more.
Undecided ==
    /\ plan.task # 0 /\ plan.phase # "completed"
    /\ ~HelperActive
    /\ ~Terminal(journal[plan.task])

LocallyConfirmed == plan.phase \in {"local_healthy", "result_pending_ack"}

\* RecoverBeforeStart has nothing to do, or only confirms.
Proceed ==
    /\ daemon.at = "pre"
    /\ \/ ~Undecided /\ UNCHANGED journal
       \/ /\ Undecided /\ LocallyConfirmed
          /\ journal' = [journal EXCEPT ![plan.task] = Decided(@, "succeeded", plan.task)]
    /\ daemon' = Executed /\ settled' = FALSE
    /\ UNCHANGED <<panel, plan, installed, wanted, ready, exit, proven, worker,
                   helper, defective, faults>>

\* RecoverBeforeStart puts the old binary back.
RestoreBackup ==
    /\ daemon.at = "pre" /\ Undecided /\ ~LocallyConfirmed
    /\ installed' = plan.old
    /\ daemon' = [daemon EXCEPT !.at = "restored"]
    /\ UNCHANGED <<panel, journal, plan, evidence, worker,
                   helper, defective, faults>>

\* and notes it in the plan, after a progress report.
SaveRestored ==
    /\ daemon.at = "restored"
    /\ plan' = Saved(plan, [plan EXCEPT !.phase = "restored_pending_health"])
    /\ daemon' = Executed /\ settled' = FALSE
    /\ UNCHANGED <<panel, journal, installed, wanted, ready, exit, proven, worker,
                   helper, defective, faults>>

\* main: adapter.Recover and MarkReady.
BecomeReady ==
    /\ daemon.at = "main" /\ daemon.version \notin defective
    /\ daemon' = [daemon EXCEPT !.at = "ready"]
    /\ ready' = [pid |-> daemon.pid, version |-> daemon.version]
    /\ proven' = proven \cup {daemon.version}
    /\ UNCHANGED <<panel, files, wanted, exit, settled, worker, helper, defective, faults>>

\* adapter.Recover fails: a defective version always, another one by a fault.
StartupFails ==
    /\ daemon.at = "main"
    /\ \/ daemon.version \in defective /\ UNCHANGED faults
       \/ Fault
    /\ daemon' = [daemon EXCEPT !.at = "down"]
    /\ UNCHANGED <<panel, files, evidence, worker, helper, defective>>

\* ConfirmRecoveryReady: the restored daemon records the result itself.
ConfirmRecovery ==
    /\ daemon.at = "ready"
    /\ \/ /\ plan.phase # "restored_pending_health"
          /\ daemon' = [daemon EXCEPT !.at = "up"] /\ UNCHANGED journal
       \/ /\ plan.phase = "restored_pending_health" /\ daemon.version = plan.old
          /\ journal' = [journal EXCEPT ![plan.task] = Decided(@, "failed", plan.old)]
          /\ daemon' = [daemon EXCEPT !.at = "confirmed"]
    /\ UNCHANGED <<panel, plan, installed, evidence, worker,
                   helper, defective, faults>>

SaveConfirmed ==
    /\ daemon.at = "confirmed"
    /\ plan' = Saved(plan, [plan EXCEPT !.phase = "result_pending_ack"])
    /\ daemon' = [daemon EXCEPT !.at = "up"]
    /\ UNCHANGED <<panel, journal, installed, evidence, worker,
                   helper, defective, faults>>

\* A session: bind, and the first status report with the daemon's version.
Connect ==
    /\ daemon.at = "up"
    /\ daemon' = [daemon EXCEPT !.at = "online"]
    /\ panel' = [panel EXCEPT !.version = daemon.version, !.announced = 0]
    /\ UNCHANGED <<files, evidence, worker, helper, defective, faults>>

\* flushResults up to AcknowledgeTask; Acknowledge then completes the plan.
DaemonReports(t) ==
    /\ daemon.at = "online" /\ daemon.ack = 0
    /\ Terminal(journal[t]) /\ ~journal[t].acked /\ Admits(t)
    /\ panel' = [panel EXCEPT !.task[t] = Outcome(t)]
    /\ \/ /\ journal' = [journal EXCEPT ![t].acked = TRUE]
          /\ daemon' = [daemon EXCEPT !.ack = t] /\ UNCHANGED faults
       \/ UNCHANGED <<journal, daemon>> /\ Fault
    /\ UNCHANGED <<plan, installed, evidence, worker, helper, defective>>

AcknowledgePlan ==
    /\ daemon.ack # 0
    /\ plan' = IF plan.task = daemon.ack
               THEN Saved(plan, [plan EXCEPT !.phase = "completed"]) ELSE plan
    /\ daemon' = [daemon EXCEPT !.ack = 0]
    /\ UNCHANGED <<panel, journal, installed, evidence, worker,
                   helper, defective, faults>>

-----------------------------------------------------------------------------
(* The helper: RunUpgrade, rollbackUpgrade and finish.                     *)

Move(u, at) == helper' = [helper EXCEPT ![u].at = at]
At(u, at) == helper[u].at = at

Ending(h, result) == [h EXCEPT !.at = "finish", !.result = result]

\* The unit has a process, or none is being executed.
MainProcess == daemon.at \in Running \cup {"main"}

\* shutdownReady and checkServicePID: the evidence is of the old version, and
\* of the process that runs, if one runs.
Evidence == ready.version = plan.old /\ (MainProcess => ready.pid = daemon.pid)

\* RunUpgrade up to the first save, when the candidate and the backup are intact.
Loaded(h) ==
    IF plan.task = 0 \/ plan.phase = "completed" THEN NoHelper
    ELSE IF Terminal(journal[plan.task]) THEN Ending(h, journal[plan.task].status)
    ELSE IF LocallyConfirmed THEN Ending(h, "succeeded")
    ELSE IF plan.phase # "updater_ready" THEN [h EXCEPT !.at = "rollback"]
    ELSE IF Evidence THEN [h EXCEPT !.at = "checked", !.ready = ready.pid]
    ELSE Ending(h, "failed")

\* One of the two files is missing or changed.
Spoilt(h) == IF Loaded(h).at = "checked" THEN Ending(h, "failed") ELSE Loaded(h)

Load(u) ==
    /\ At(u, "loading")
    /\ LET h == [helper[u] EXCEPT !.task = plan.task, !.old = plan.old]
       IN  \/ helper' = [helper EXCEPT ![u] = Loaded(h)] /\ UNCHANGED faults
           \/ helper' = [helper EXCEPT ![u] = Spoilt(h)] /\ Fault
    /\ UNCHANGED <<panel, files, service, worker, defective>>

Keep(u, phase) ==
    plan' = Saved(plan, [task |-> helper[u].task, old |-> helper[u].old, phase |-> phase])

SaveSwitching(u) ==
    /\ At(u, "checked")
    /\ Keep(u, "switching") /\ Move(u, "stopping")
    /\ UNCHANGED <<panel, journal, installed, service, worker, defective, faults>>

WasReady == daemon.at \in Running

\* systemctl stop: a process that was ready says how it ended, and the final
\* sample may fail to be saved.
Stop(clean) ==
    /\ wanted' = FALSE
    /\ daemon' = [daemon EXCEPT !.at = "down", !.ack = 0]
    /\ worker' = NoWorker
    /\ exit' = IF WasReady
               THEN [pid |-> daemon.pid, version |-> daemon.version,
                     kind |-> IF clean THEN "clean_shutdown" ELSE "shutdown_failed"]
               ELSE exit
    /\ settled' = IF MainProcess THEN clean ELSE settled
    /\ UNCHANGED <<ready, proven>>

\* Fault: the process that ended need not be the one that was checked.
StoppedSomehow(h) == exit'.pid = h.ready /\ exit'.kind # "shutdown_failed"

\* checkServicePID and confirmStopped after the stop.
ConfirmedStop(h) ==
    /\ daemon.pid = h.ready
    /\ exit'.pid = h.ready /\ exit'.kind # "shutdown_failed"

\* The command ends the daemon, or it fails and the daemon goes on.
StopDaemon ==
    \/ Stop(TRUE) /\ UNCHANGED faults
    \/ Stop(FALSE) /\ Fault

StopOld(u) ==
    /\ At(u, "stopping")
    /\ \/ StopDaemon /\ Move(u, IF ConfirmedStop(helper[u]) THEN "stopped" ELSE "rollback")
       \/ Fault /\ Move(u, "rollback") /\ UNCHANGED <<service, worker>>
    /\ UNCHANGED <<panel, files, defective>>

Replace(u) ==
    /\ At(u, "stopped")
    /\ installed' = helper[u].task
    /\ Move(u, "renamed")
    /\ UNCHANGED <<panel, journal, plan, service, worker, defective, faults>>

SaveStarting(u) ==
    /\ At(u, "renamed")
    /\ Keep(u, "starting")
    /\ helper' = [helper EXCEPT ![u].at = "starting", ![u].after = ready.pid]
    /\ UNCHANGED <<panel, journal, installed, service, worker, defective, faults>>

\* Fault: only the new version is started.
StartNew(u) ==
    /\ At(u, "starting")
    /\ wanted' = (wanted \/ ~helper[u].back) /\ Move(u, "waiting")
    /\ UNCHANGED <<panel, files, daemon, ready, exit, settled, proven, worker, defective,
                   faults>>

\* systemctl start, of the new version or again of the old one.
Start(u) ==
    /\ At(u, "starting")
    /\ wanted' = TRUE /\ Move(u, "waiting")
    /\ UNCHANGED <<panel, files, daemon, ready, exit, settled, proven, worker, defective,
                   faults>>

Awaited(h) == IF h.back THEN h.old ELSE h.task

\* waitLocal: the process that runs is the awaited version and has become ready
\* since the start, or it did and then ended because the panel rejected it.
LocallyHealthy(h) ==
    \/ /\ daemon.at \in Running /\ ready.pid = daemon.pid
       /\ ready.version = Awaited(h) /\ ready.pid > h.after
    \/ /\ exit.kind = "rejected"
       /\ exit.version = Awaited(h) /\ exit.pid > h.after

SeenHealthy(u) ==
    /\ At(u, "waiting") /\ LocallyHealthy(helper[u])
    /\ helper' = [helper EXCEPT ![u] =
                    IF @.back THEN Ending(@, "failed") ELSE [@ EXCEPT !.at = "healthy"]]
    /\ UNCHANGED <<panel, files, service, worker, defective, faults>>

\* The start fails or waitLocal runs out of time.
GiveUp(u) ==
    /\ At(u, "waiting") /\ ~LocallyHealthy(helper[u])
    /\ helper' = [helper EXCEPT ![u] =
                    IF @.back THEN Ending(@, "rollback_failed")
                    ELSE [@ EXCEPT !.at = "rollback"]]
    /\ UNCHANGED <<panel, files, service, worker, defective, faults>>

SaveHealthy(u) ==
    /\ At(u, "healthy")
    /\ Keep(u, "local_healthy")
    /\ helper' = [helper EXCEPT ![u] = Ending(@, "succeeded")]
    /\ UNCHANGED <<panel, journal, installed, service, worker, defective, faults>>

SaveRollingBack(u) ==
    /\ At(u, "rollback")
    /\ Keep(u, "rolling_back") /\ Move(u, "undoing")
    /\ UNCHANGED <<panel, journal, installed, service, worker, defective, faults>>

\* The outcome of this stop is not looked at.
StopNew(u) ==
    /\ At(u, "undoing")
    /\ \/ StopDaemon
       \/ Mishap("rollback_misses") /\ UNCHANGED <<service, worker>>
    /\ helper' = [helper EXCEPT ![u].at = "restoring", ![u].after = ready.pid]
    /\ UNCHANGED <<panel, files, defective>>

PutBack(u) ==
    /\ At(u, "restoring")
    /\ installed' = helper[u].old
    /\ helper' = [helper EXCEPT ![u].at = "starting", ![u].back = TRUE]
    /\ UNCHANGED <<panel, journal, plan, service, worker, defective, faults>>

\* finish: the result first, then the plan.
Record(u) ==
    /\ At(u, "finish")
    /\ LET h == helper[u]
       IN  journal' = [journal EXCEPT ![h.task] =
             Decided(@, h.result, IF h.result = "succeeded" THEN h.task ELSE h.old)]
    /\ Move(u, "decided")
    /\ UNCHANGED <<panel, plan, installed, service, worker, defective, faults>>

SavePending(u) ==
    /\ At(u, "decided")
    /\ Keep(u, "result_pending_ack") /\ Move(u, "reporting")
    /\ UNCHANGED <<panel, journal, installed, service, worker, defective, faults>>

HelperReports(u) ==
    /\ At(u, "reporting")
    /\ LET t == helper[u].task
       IN  /\ ~journal[t].acked /\ Admits(t)
           /\ panel' = [panel EXCEPT !.task[t] = Outcome(t)]
           /\ \/ journal' = [journal EXCEPT ![t].acked = TRUE] /\ UNCHANGED faults
              \/ UNCHANGED journal /\ Fault
    /\ UNCHANGED <<plan, installed, service, worker, helper, defective>>

Complete(u) ==
    /\ At(u, "reporting") /\ journal[helper[u].task].acked
    /\ Keep(u, "completed")
    /\ helper' = [helper EXCEPT ![u] = NoHelper]
    /\ UNCHANGED <<panel, journal, installed, service, worker, defective, faults>>

HelperStep(u) ==
    \/ Load(u) \/ SaveSwitching(u) \/ StopOld(u) \/ Replace(u) \/ SaveStarting(u)
    \/ Start(u) \/ SeenHealthy(u) \/ GiveUp(u) \/ SaveHealthy(u)
    \/ SaveRollingBack(u) \/ StopNew(u) \/ PutBack(u)
    \/ Record(u) \/ SavePending(u) \/ HelperReports(u) \/ Complete(u)

-----------------------------------------------------------------------------
(* What happens around them.                                               *)

\* The panel rejects the daemon's credentials or binding: it closes its core
\* in order, says so and exits with an error, so that systemd starts it again.
Rejected ==
    /\ daemon.at \in {"up", "online"} /\ Fault
    /\ daemon' = [daemon EXCEPT !.at = "down", !.ack = 0]
    /\ exit' = [pid |-> daemon.pid, version |-> daemon.version, kind |-> "rejected"]
    /\ settled' = TRUE
    /\ worker' = NoWorker
    /\ UNCHANGED <<panel, files, wanted, ready, proven, helper, defective>>

Crash ==
    /\ daemon.at # "down" /\ Fault
    /\ daemon' = [daemon EXCEPT !.at = "down", !.ack = 0]
    /\ worker' = NoWorker
    /\ UNCHANGED <<panel, files, evidence, helper, defective>>

LoseSession ==
    /\ daemon.at = "online" /\ Fault
    /\ daemon' = [daemon EXCEPT !.at = "up"]
    /\ UNCHANGED <<panel, files, evidence, worker, helper, defective>>

\* The machine stops: helpers are transient units, the daemon's is enabled.
Reboot ==
    /\ Fault
    /\ daemon' = [daemon EXCEPT !.at = "down", !.ack = 0]
    /\ wanted' = TRUE
    /\ worker' = NoWorker
    /\ helper' = [t \in Upgrades |-> NoHelper]
    /\ UNCHANGED <<panel, files, ready, exit, settled, proven, defective>>

KillHelper(u) ==
    /\ ~At(u, "gone") /\ Mishap("helper_killed")
    /\ helper' = [helper EXCEPT ![u] = NoHelper]
    /\ UNCHANGED <<panel, files, service, worker, defective>>

-----------------------------------------------------------------------------
Panel == \E t \in Upgrades : Enqueue(t) \/ TakeTask(t)

Worker == Verify \/ Refuse \/ SavePlan \/ HandOver \/ HandedOff \/ HandOverFails

Unit ==
    \/ StartUnit \/ Proceed \/ RestoreBackup \/ SaveRestored
    \/ BecomeReady \/ StartupFails \/ ConfirmRecovery \/ SaveConfirmed
    \/ Connect \/ AcknowledgePlan \/ \E t \in Upgrades : DaemonReports(t)

Environment ==
    Rejected \/ Crash \/ LoseSession \/ Reboot \/ \E u \in Upgrades : KillHelper(u)

Next == Panel \/ Worker \/ Unit \/ Environment \/ \E u \in Upgrades : HelperStep(u)

Spec == Init /\ [][Next]_vars

\* Calls get through in the end, systemd does what the units say, and the
\* processes run.  Nobody has to order an upgrade, and nothing has to fail.
Fairness ==
    /\ \A t \in Upgrades : WF_vars(TakeTask(t)) /\ WF_vars(HelperStep(t))
    /\ WF_vars(Worker) /\ WF_vars(Unit)

FairSpec == Spec /\ Fairness

-----------------------------------------------------------------------------
\* The recorded result of the last upgrade tells which version is installed;
\* only a rollback that failed leaves that open.  (finish, RecoverBeforeStart
\* and ConfirmRecoveryReady write it.)
ResultTellsVersion ==
    \A t \in Upgrades :
        /\ journal[t].status \in {"succeeded", "failed"}
        /\ \A u \in t + 1 .. LastUpgrade : journal[u].status = "none"
        => installed = journal[t].version

\* Whenever an undecided upgrade has replaced the binary, the plan file still
\* names it, so that the next start of the daemon can put the old one back; and
\* the plan only says that the new version was healthy when a process of it has
\* been ready and it is still installed.
UnfinishedIsRecoverable ==
    \A t \in Upgrades : journal[t].status = "running" =>
        /\ installed = t => HandedOver(plan, t)
        /\ HandedOver(plan, t) /\ LocallyConfirmed => installed = t /\ t \in proven

\* Whatever was interrupted, the journal or the plan tells which version is
\* installed.
VersionIsKnown == ResultTellsVersion /\ UnfinishedIsRecoverable

\* The binary is only replaced by a newer one when the last process of the
\* service has saved its final traffic sample.  (confirmStopped: whatever
\* crashed, restarted or was rejected between the check and the stop.)
SettledBeforeSwitch == [][installed' > installed => settled]_vars

\* Every upgrade the node has accepted gets its result at the panel, and after
\* every upgrade and failure the daemon is back and connected, unless a mishap
\* has happened.  (There are LastUpgrade upgrades: each is settled when no
\* accepted one is left.)
UpgradesSettle ==
    []<>(\/ faults.mishap
         \/ daemon.at = "online" /\ \A t \in Upgrades : panel.task[t] # "accepted")
=============================================================================
