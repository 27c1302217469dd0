----------------------------- MODULE Uninstall -----------------------------
(***************************************************************************)
(* Removal of a node's program: the daemon writes a plan and starts a      *)
(* helper in a unit that is started again after failures and at each boot; *)
(* the helper stops the daemon, delivers the traffic it left, removes its  *)
(* service, records and reports the result, and only when the panel has    *)
(* the result removes the node's identity and data and its own unit.  Until*)
(* its unit is removed, the daemon comes back at every boot.               *)
(***************************************************************************)
EXTENDS MaintenancePlan

CONSTANTS
    LastUninstall, \* how many uninstalls the administrator orders
    MaxFaults,     \* how often something outside fails
    Mishaps        \* which of the faults below may be among them

\* The helper is killed by itself; the daemon ends with a plan saved for a helper
\* that is not started; the handover fails although a helper has the plan or was
\* started for it; power is lost when the daemon's last process has not become ready; the one
\* call a restarted helper makes for a recorded failure is lost.
MishapKinds == {"helper_killed", "handoff_ends", "handoff_misleads", "lost_at_start", "given_up"}

ASSUME UninstallAssumption ==
    /\ LastUninstall \in Nat \ {0} /\ MaxFaults \in Nat /\ Mishaps \subseteq MishapKinds

Uninstalls == 1 .. LastUninstall

VARIABLES
    panel,    \* the panel's task rows, and the task announced on this session
    journal,  \* the daemon's task rows
    plan,     \* uninstall.json
    unit,     \* the daemon's unit file, with its binary
    daemon,   \* the daemon's process: where it is and its number
    wanted,   \* whether systemd is to keep the daemon running
    ready,    \* ready.json: the process that wrote it
    exit,     \* exit.json: the process and whether it saved its last sample
    traffic,  \* whether bytes are counted and not yet in a batch
    outbox,   \* whether batches are waiting for the panel
    worker,   \* the daemon's task worker
    rescue,   \* the helper's unit: enabled, and to be started again
    helper,   \* the helper's process
    data,     \* whether identity, database and configuration are there
    settled,  \* history: the last process of the daemon saved its last sample
    faults    \* how many faults have happened, and whether a mishap has

vars == <<panel, journal, plan, unit, daemon, wanted, ready, exit, traffic, outbox,
          worker, rescue, helper, data, settled, faults>>

process == <<daemon, wanted, ready, exit, settled>>
usage == <<traffic, outbox>>
disk == <<journal, plan, unit, data>>
service == <<rescue, helper>>

NoWorker == [at |-> "idle", task |-> 0]
NoHelper == [at |-> "gone", task |-> 0, ready |-> 0, result |-> "none"]

Init ==
    /\ panel = [task |-> [t \in Uninstalls |-> "none"], announced |-> 0]
    /\ journal = [t \in Uninstalls |-> [status |-> "none", version |-> 0, acked |-> FALSE]]
    /\ plan = NoPlan /\ unit = "enabled"
    /\ daemon = [at |-> "online", pid |-> 1] /\ wanted = TRUE
    /\ ready = 1 /\ exit = [pid |-> 0, clean |-> FALSE]
    /\ traffic = FALSE /\ outbox = FALSE
    /\ worker = NoWorker
    /\ rescue = [enabled |-> FALSE, again |-> FALSE] /\ helper = NoHelper
    /\ data = "present" /\ settled = FALSE
    /\ faults = [number |-> 0, mishap |-> FALSE]

Fault == faults.number < MaxFaults /\ faults' = [faults EXCEPT !.number = @ + 1]

Mishap(kind) ==
    /\ kind \in Mishaps /\ faults.number < MaxFaults
    /\ faults' = [number |-> faults.number + 1, mishap |-> TRUE]

-----------------------------------------------------------------------------
(* The panel.                                                              *)

Settled(t) == panel.task[t] \in {"succeeded", "failed", "canceled"}

IsUninstalled == \E t \in Uninstalls : panel.task[t] = "succeeded"

\* uninstall: other tasks do not matter, a finished uninstall does.
Enqueue(t) ==
    /\ panel.task[t] = "none" /\ \A u \in 1 .. t - 1 : panel.task[u] # "none"
    /\ ~IsUninstalled
    /\ panel' = [panel EXCEPT !.task[t] = "queued"]
    /\ UNCHANGED <<disk, process, usage, worker, service, faults>>

\* The rows after reportTask: a success cancels what is still queued.
Reported(t) ==
    IF Settled(t) THEN panel.task
    ELSE [u \in Uninstalls |->
            IF u = t THEN journal[t].status
            ELSE IF journal[t].status = "succeeded" /\ panel.task[u] = "queued"
                 THEN "canceled" ELSE panel.task[u]]

Unacknowledged(t) == Terminal(journal[t]) /\ ~journal[t].acked

ReportTask(t) == panel' = [panel EXCEPT !.task = Reported(t)]

AcknowledgeTask(t) == journal' = [journal EXCEPT ![t].acked = TRUE]

\* The panel has the report; its reply may be lost.
Report(t) ==
    /\ ReportTask(t)
    /\ \/ AcknowledgeTask(t) /\ UNCHANGED faults
       \/ UNCHANGED journal /\ Fault

-----------------------------------------------------------------------------
(* The daemon.                                                             *)

\* The first unsettled task, accepted and taken unless a helper has it.
TakeTask(t) ==
    /\ daemon.at = "online" /\ worker.at = "idle"
    /\ panel.task[t] \in {"queued", "accepted"} /\ panel.announced # t
    /\ \A u \in 1 .. t - 1 : Settled(u)
    /\ panel' = [panel EXCEPT !.task[t] = "accepted", !.announced = t]
    /\ IF Terminal(journal[t]) \/ HandedOver(plan, t)
       THEN UNCHANGED <<journal, worker>>
       ELSE /\ journal' = [journal EXCEPT ![t].status = "running"]
            /\ worker' = [at |-> "checking", task |-> t]
    /\ UNCHANGED <<plan, unit, data, process, usage, service, faults>>

\* BeginUninstall up to the saved plan.
SavePlan ==
    /\ worker.at = "checking" /\ Idle(plan, journal)
    /\ plan' = Saved(plan, [task |-> worker.task, old |-> 0, phase |-> "updater_ready"])
    /\ worker' = [worker EXCEPT !.at = "handing"]
    /\ UNCHANGED <<panel, journal, unit, data, process, usage, service, faults>>

\* A start changes nothing while a helper is running.
StartHelper ==
    helper' = IF helper.at = "gone" THEN [NoHelper EXCEPT !.at = "loading"] ELSE helper

EnableHelper == rescue' = [rescue EXCEPT !.enabled = TRUE]

\* Fault: the unit is started but not enabled.
HandOverOnce ==
    /\ worker.at = "handing"
    /\ StartHelper
    /\ worker' = NoWorker
    /\ UNCHANGED <<panel, disk, process, usage, rescue, faults>>

\* The unit is written, enabled and started.
HandOver ==
    /\ worker.at = "handing"
    /\ EnableHelper /\ StartHelper
    /\ worker' = NoWorker
    /\ UNCHANGED <<panel, disk, process, usage, faults>>

WorkerMoves(at) == worker' = [worker EXCEPT !.at = at]

CompletePlan == plan' = Saved(plan, [task |-> worker.task, old |-> 0, phase |-> "completed"])

\* The unit file is not written, and the plan stays; one of the three commands
\* fails; or the start is ended when its caller is cancelled, by which time it may
\* have taken effect, and the plan is completed behind the helper's back.
HandOverFails ==
    /\ \/ /\ worker.at = "handing" /\ WorkerMoves("unwritten")
          /\ IF rescue.enabled \/ helper.at # "gone" THEN Mishap("handoff_misleads") ELSE Fault
          /\ UNCHANGED <<plan, rescue, helper>>
       \/ /\ worker.at = "handing" /\ WorkerMoves("failing")
          /\ IF helper.task = worker.task THEN Mishap("handoff_misleads") ELSE Fault
          /\ rescue' \in {rescue, [rescue EXCEPT !.enabled = TRUE]}
          /\ CompletePlan /\ UNCHANGED helper
       \/ /\ worker.at = "handing" /\ WorkerMoves("started")
          /\ Mishap("handoff_misleads")
          /\ EnableHelper /\ StartHelper /\ UNCHANGED plan
       \/ /\ worker.at = "started" /\ WorkerMoves("failing")
          /\ CompletePlan /\ UNCHANGED <<rescue, helper, faults>>
    /\ UNCHANGED <<panel, journal, unit, data, process, usage>>

\* A check of BeginUninstall or the handover has failed.
Refuse ==
    /\ worker.at \in {"checking", "unwritten", "failing"}
    /\ journal' = [journal EXCEPT ![worker.task] = Decided(@, "failed", 0)]
    /\ worker' = NoWorker
    /\ UNCHANGED <<panel, plan, unit, data, process, usage, service, faults>>

\* systemd starts the process; the core serves from the first step of main.
\* Processes that leave no readiness evidence share the next one's number.
StartDaemon ==
    /\ wanted /\ unit # "removed" /\ daemon.at = "down"
    /\ daemon' = [at |-> "main", pid |-> ready + 1]
    /\ settled' = FALSE
    /\ UNCHANGED <<panel, disk, wanted, ready, exit, usage, worker, service, faults>>

BecomeReady ==
    /\ daemon.at = "main"
    /\ daemon' = [daemon EXCEPT !.at = "up"] /\ ready' = daemon.pid
    /\ UNCHANGED <<panel, disk, wanted, exit, settled, usage, worker, service, faults>>

Connect ==
    /\ daemon.at = "up"
    /\ daemon' = [daemon EXCEPT !.at = "online"]
    /\ panel' = [panel EXCEPT !.announced = 0]
    /\ UNCHANGED <<disk, wanted, ready, exit, settled, usage, worker, service, faults>>

DaemonReports(t) ==
    /\ daemon.at = "online" /\ Unacknowledged(t) /\ Report(t)
    /\ UNCHANGED <<plan, unit, data, process, usage, worker, service>>

WasReady == daemon.at \in {"up", "online"}

Traffic ==
    /\ daemon.at # "down" /\ ~traffic /\ traffic' = TRUE
    /\ UNCHANGED <<panel, disk, process, outbox, worker, service, faults>>

\* collect and flushUsage.
Collect ==
    /\ WasReady /\ traffic
    /\ traffic' = FALSE /\ outbox' = TRUE
    /\ UNCHANGED <<panel, disk, process, worker, service, faults>>

FlushUsage ==
    /\ daemon.at = "online" /\ outbox /\ ~IsUninstalled
    /\ outbox' = FALSE
    /\ UNCHANGED <<panel, disk, process, traffic, worker, service, faults>>

\* The process ends; closed in order, it saves its last sample and, if it was
\* ready, says so.
End(clean) ==
    /\ daemon' = [daemon EXCEPT !.at = "down"]
    /\ worker' = NoWorker
    /\ IF daemon.at = "down" THEN UNCHANGED <<exit, settled, usage>>
       ELSE /\ exit' = IF WasReady THEN [pid |-> daemon.pid, clean |-> clean] ELSE exit
            /\ settled' = clean
            /\ traffic' = FALSE /\ outbox' = (outbox \/ (clean /\ traffic))
    /\ UNCHANGED ready

-----------------------------------------------------------------------------
(* The helper: RunUninstall, drainUsage and cleanupUninstall.              *)

At(at) == helper.at = at
Move(at) == helper' = [helper EXCEPT !.at = at]
Keep(phase) == plan' = Saved(plan, [task |-> helper.task, old |-> 0, phase |-> phase])

Ending(h, result) == [h EXCEPT !.at = "finish", !.result = result]
Fails == helper' = Ending(helper, "failed")

\* Up to the first save.  An unfinished task begins again with the stop, also
\* when the services were being removed.
Load ==
    /\ At("loading")
    /\ LET h == [helper EXCEPT !.task = plan.task]
       IN  helper' = CASE plan.phase = "acknowledged" -> [h EXCEPT !.at = "cleaning"]
                       [] plan.phase \in {"none", "failed", "completed"} -> NoHelper
                       [] plan.phase \notin {"none", "failed", "completed", "acknowledged"} ->
                          CASE journal[plan.task].status = "failed" -> [h EXCEPT !.at = "giving_up"]
                            [] journal[plan.task].status = "succeeded" -> Ending(h, "succeeded")
                            [] journal[plan.task].status = "running" ->
                               [h EXCEPT !.at = "checked", !.ready = ready]
    /\ UNCHANGED <<panel, disk, process, usage, worker, rescue, faults>>

\* A failure recorded by an earlier helper is sent once.
GiveUp ==
    /\ At("giving_up")
    /\ Keep("failed")
    /\ IF journal[helper.task].acked THEN UNCHANGED <<panel, journal, faults>>
       ELSE \/ ReportTask(helper.task) /\ AcknowledgeTask(helper.task) /\ UNCHANGED faults
            \/ /\ ReportTask(helper.task) \/ UNCHANGED panel
               /\ UNCHANGED journal /\ Mishap("given_up")
    /\ helper' = NoHelper
    /\ UNCHANGED <<unit, data, process, usage, worker, rescue>>

SaveStopping ==
    /\ At("checked")
    /\ Keep("stopping_daemon") /\ Move("stopping")
    /\ UNCHANGED <<panel, journal, unit, data, process, usage, worker, rescue, faults>>

\* A service is there to be stopped.
Installed == unit # "removed" \/ daemon.at # "down"

\* checkServicePID before the stop.
CheckProcess ==
    /\ At("stopping")
    /\ IF Installed /\ daemon.at # "down" /\ daemon.pid # helper.ready
       THEN Fails ELSE Move("halting")
    /\ UNCHANGED <<panel, disk, process, usage, worker, rescue, faults>>

\* Fault: only the exit record is compared, not the process systemd stopped.
StoppedSomehow == exit'.pid = helper.ready /\ exit'.clean

\* checkServicePID after the stop, and confirmStopped.
ConfirmedStop ==
    /\ Installed => daemon.pid \in {0, helper.ready}
    /\ exit'.pid = helper.ready /\ exit'.clean

\* systemctl stop, after which it is checked what has stopped.
StopDaemon ==
    /\ wanted' = FALSE
    /\ \/ End(TRUE) /\ UNCHANGED faults
       \/ End(FALSE) /\ Fault
    /\ IF ConfirmedStop THEN Move("stopped") ELSE Fails

\* It fails, and the daemon goes on.
StopFails == UNCHANGED <<process, usage, worker>> /\ Fails /\ Fault

Halt ==
    /\ At("halting")
    /\ StopDaemon \/ StopFails
    /\ UNCHANGED <<panel, disk, rescue>>

SaveDraining ==
    /\ At("stopped")
    /\ Keep("draining_usage") /\ Move("draining")
    /\ UNCHANGED <<panel, journal, unit, data, process, usage, worker, rescue, faults>>

\* drainUsage delivers every batch, or the stream needs a recovery.
Drain ==
    /\ At("draining")
    /\ \/ outbox' = FALSE /\ Move("drained")
       \/ UNCHANGED outbox /\ Fails
    /\ UNCHANGED <<panel, disk, process, traffic, worker, rescue, faults>>

SaveRemoving ==
    /\ At("drained")
    /\ Keep("removing_services") /\ Move("removing")
    /\ UNCHANGED <<panel, journal, unit, data, process, usage, worker, rescue, faults>>

\* systemctl disable, then the unit file and the binary; each may fail.
RemoveService ==
    /\ \/ /\ At("removing") /\ Move("unlinking") /\ UNCHANGED faults
          /\ unit' = IF unit = "enabled" THEN "disabled" ELSE unit
       \/ /\ At("unlinking") /\ unit' = "removed" /\ UNCHANGED faults
          /\ helper' = Ending(helper, "succeeded")
       \/ At("removing") /\ UNCHANGED unit /\ Fails /\ Fault
       \/ At("unlinking") /\ unit' \in {unit, "removed"} /\ Fails /\ Fault
    /\ UNCHANGED <<panel, journal, plan, data, process, usage, worker, rescue>>

Record ==
    /\ At("finish")
    /\ journal' = [journal EXCEPT ![helper.task] = Decided(@, helper.result, 0)]
    /\ Move("decided")
    /\ UNCHANGED <<panel, plan, unit, data, process, usage, worker, rescue, faults>>

SavePending ==
    /\ At("decided")
    /\ Keep("result_pending_ack") /\ Move("reporting")
    /\ UNCHANGED <<panel, journal, unit, data, process, usage, worker, rescue, faults>>

\* Fault: one report is enough.
Reporting == TRUE

\* send has been acknowledged.
Committed == journal[helper.task].acked

HelperReports ==
    /\ At("reporting") /\ ~journal[helper.task].acked /\ Report(helper.task)
    /\ UNCHANGED <<plan, unit, data, process, usage, worker, service>>

\* The end of finish: the data may go, or the failure is final.
Acknowledged ==
    /\ At("reporting") /\ Committed
    /\ IF helper.result = "succeeded"
       THEN Keep("acknowledged") /\ Move("cleaning")
       ELSE Keep("failed") /\ helper' = NoHelper
    /\ UNCHANGED <<panel, journal, unit, data, process, usage, worker, rescue, faults>>

\* cleanupUninstall: its own unit first, then what the unit needs.
Cleanup ==
    /\ \/ /\ At("cleaning")
          /\ rescue' = [enabled |-> FALSE, again |-> FALSE] /\ Move("clearing")
          /\ UNCHANGED data
       \/ /\ At("clearing")
          /\ data' = "removed" /\ helper' = NoHelper
          /\ UNCHANGED rescue
    /\ UNCHANGED <<panel, journal, plan, unit, process, usage, worker, faults>>

HelperStep ==
    \/ Load \/ GiveUp \/ SaveStopping \/ CheckProcess \/ Halt \/ SaveDraining \/ Drain
    \/ SaveRemoving \/ RemoveService \/ Record \/ SavePending \/ HelperReports
    \/ Acknowledged \/ Cleanup

\* Restart=on-failure, and the start at boot if there is a plan.
RestartHelper ==
    /\ At("gone") /\ rescue.enabled /\ rescue.again
    /\ rescue' = [rescue EXCEPT !.again = FALSE]
    /\ helper' = IF plan.task = 0 THEN NoHelper ELSE [NoHelper EXCEPT !.at = "loading"]
    /\ UNCHANGED <<panel, disk, process, usage, worker, faults>>

-----------------------------------------------------------------------------
(* What happens around them.                                               *)

KillHelper ==
    /\ ~At("gone") /\ Mishap("helper_killed")
    /\ helper' = NoHelper
    /\ rescue' = [rescue EXCEPT !.again = rescue.enabled]
    /\ UNCHANGED <<panel, disk, process, usage, worker>>

\* The daemon ends; between its plan and the helper's unit this is a mishap.
Interrupted == IF worker.at \in {"handing", "unwritten"} THEN Mishap("handoff_ends") ELSE Fault

Crash ==
    /\ daemon.at # "down" /\ Interrupted
    /\ daemon' = [daemon EXCEPT !.at = "down"]
    /\ worker' = NoWorker /\ traffic' = FALSE
    /\ UNCHANGED <<panel, disk, wanted, ready, exit, settled, outbox, service>>

LoseSession ==
    /\ daemon.at = "online" /\ Fault
    /\ daemon' = [daemon EXCEPT !.at = "up"]
    /\ UNCHANGED <<panel, disk, wanted, ready, exit, settled, usage, worker, service>>

\* Power is lost; at boot systemd starts what is enabled, and knows of no
\* earlier process.
Reboot ==
    /\ data = "present"
    /\ IF daemon.pid > ready THEN Mishap("lost_at_start") ELSE Interrupted
    /\ daemon' = [at |-> "down", pid |-> 0]
    /\ wanted' = (unit = "enabled")
    /\ worker' = NoWorker /\ traffic' = FALSE
    /\ helper' = NoHelper /\ rescue' = [rescue EXCEPT !.again = rescue.enabled]
    /\ UNCHANGED <<panel, disk, ready, exit, settled, outbox>>

-----------------------------------------------------------------------------
Panel == \E t \in Uninstalls : Enqueue(t) \/ TakeTask(t)

Worker == SavePlan \/ HandOver \/ HandOverFails \/ Refuse

Daemon ==
    \/ StartDaemon \/ BecomeReady \/ Connect \/ \E t \in Uninstalls : DaemonReports(t)
    \/ Traffic \/ Collect \/ FlushUsage

Environment == RestartHelper \/ KillHelper \/ Crash \/ LoseSession \/ Reboot

Next == Panel \/ Worker \/ Daemon \/ HelperStep \/ Environment

Spec == Init /\ [][Next]_vars

\* Calls get through in the end, systemd does what the units say, and the
\* processes run.  Nobody has to order an uninstall, and nothing has to fail.
Fairness ==
    /\ \A t \in Uninstalls : WF_vars(TakeTask(t)) /\ WF_vars(DaemonReports(t))
    /\ WF_vars(Worker) /\ WF_vars(HelperStep) /\ WF_vars(RestartHelper)
    /\ WF_vars(StartDaemon) /\ WF_vars(BecomeReady) /\ WF_vars(Connect)

FairSpec == Spec /\ Fairness

-----------------------------------------------------------------------------
\* When the journal says that the program was removed, the daemon does not run
\* and cannot be started, its last process has saved its last sample, and the
\* panel has every batch; afterwards it would refuse them.
NothingLeftBehind ==
    (\E t \in Uninstalls : journal[t].status = "succeeded") =>
        /\ daemon.at = "down" /\ unit = "removed"
        /\ settled /\ ~traffic /\ ~outbox

\* Until the panel has the result of a removal, everything is kept that is
\* needed to report it again, and the unit that will; nothing is removed from
\* a node the panel does not know as uninstalled.
KeptUntilKnown ==
    /\ data = "removed" => IsUninstalled
    /\ \A t \in Uninstalls :
         journal[t].status = "succeeded" /\ ~Settled(t) => rescue.enabled

\* Every uninstall the node has accepted gets its result at the panel, unless a
\* mishap has happened or an uninstall was ordered once more.
UninstallsSettle ==
    \A t \in Uninstalls :
        panel.task[t] = "accepted" ~>
            \/ Settled(t) \/ faults.mishap
            \/ \E u \in Uninstalls \ {t} : panel.task[u] # "none"
=============================================================================
