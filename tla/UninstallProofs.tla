---------------------------- MODULE UninstallProofs ----------------------------
(***************************************************************************)
(* Proofs about the removal of a node's program, for every number of       *)
(* uninstalls and faults.                                                  *)
(*                                                                         *)
(* Base is inductive whatever goes wrong: the types, who works on which    *)
(* task (TasksAreTaken, ResultsStand), that a stopped daemon stays down    *)
(* (StoppedIsDown, RemovedIsDown), and how the numbers of the processes    *)
(* order their evidence (Numbered).  On top of it,                         *)
(*   - EvidenceIsSettled says what the exit record of a process that was   *)
(*     ready is worth; with it, NothingLeftBehind.  A power loss after the *)
(*     start of a process that never became ready ("lost_at_start") breaks *)
(*     it, and is excluded;                                                *)
(*   - Known says that tasks are taken one at a time (OneAtATime), that a  *)
(*     task has one of worker and helper (HandedToOne, WorkerAlone) and    *)
(*     what the helper's unit waits for (RescueStays); with it,            *)
(*     KeptUntilKnown.  A handover that fails although a helper has its    *)
(*     plan ("handoff_misleads") breaks it, and is excluded.               *)
(***************************************************************************)
EXTENDS Uninstall, TLAPS

Phases == {"none", "updater_ready", "stopping_daemon", "draining_usage", "removing_services",
           "result_pending_ack", "acknowledged", "failed", "completed"}

\* Where the helper is between Load and Record, and where the daemon's process
\* has been stopped for good.
Stopping == {"checked", "stopping", "halting"}
Drained == {"drained", "removing", "unlinking"}
Working == Stopping \cup {"stopped", "draining"} \cup Drained
HelperAts == Working \cup {"gone", "loading", "giving_up", "finish", "decided", "reporting",
                           "cleaning", "clearing"}

\* The types of the variables, by who writes them
Rows == [status : {"none", "running", "succeeded", "failed"}, version : {0}, acked : BOOLEAN]
PanelTasks == {"none", "queued", "accepted", "succeeded", "failed", "canceled"}
Plans == {NoPlan} \cup [task : Uninstalls, old : {0}, phase : Phases]

PanelType == panel \in [task : [Uninstalls -> PanelTasks], announced : {0} \cup Uninstalls]

DiskType ==
    /\ journal \in [Uninstalls -> Rows] /\ plan \in Plans
    /\ unit \in {"enabled", "disabled", "removed"} /\ data \in {"present", "removed"}

ProcessType ==
    /\ daemon \in [at : {"down", "main", "up", "online"}, pid : Nat]
    /\ ready \in Nat \ {0} /\ exit \in [pid : Nat, clean : BOOLEAN]
    /\ wanted \in BOOLEAN /\ settled \in BOOLEAN /\ traffic \in BOOLEAN /\ outbox \in BOOLEAN

WorkerType ==
    /\ worker \in [at : {"idle", "checking", "handing", "unwritten", "started", "failing"},
                   task : {0} \cup Uninstalls]
    /\ worker.at # "idle" => worker.task \in Uninstalls

HelperType ==
    /\ rescue \in [enabled : BOOLEAN, again : BOOLEAN]
    /\ helper \in [at : HelperAts, task : {0} \cup Uninstalls, ready : Nat,
                   result : {"none", "succeeded", "failed"}]
    /\ helper.at \notin {"gone", "loading"} => helper.task \in Uninstalls

TypeOK == PanelType /\ DiskType /\ ProcessType /\ WorkerType /\ HelperType

\* Nobody works on a task that was not taken.
TasksAreTaken ==
    /\ plan.task # 0 => journal[plan.task].status # "none"
    /\ worker.at # "idle" => journal[worker.task].status # "none"
    /\ helper.at \notin {"gone", "loading"} => journal[helper.task].status # "none"

\* The helper ends with a result, and reports one that is recorded.
ResultsStand ==
    /\ helper.at \in {"finish", "decided", "reporting"} => helper.result # "none"
    /\ helper.at \in {"decided", "reporting"} => Terminal(journal[helper.task])
    /\ helper.at = "giving_up" => journal[helper.task].status = "failed"

\* Nothing is counted, no task is worked on and no new process can be started
\* once the helper has stopped the daemon; what is drained stays drained.
StoppedIsDown ==
    /\ daemon.at = "down" => ~traffic
    /\ daemon.at \in {"down", "main"} => worker.at = "idle"
    /\ helper.at \in {"stopped", "draining"} \cup Drained => daemon.at = "down" /\ ~wanted
    /\ helper.at \in Drained => ~outbox

\* A removed unit is that of a stopped and drained daemon, and only it is recorded
\* as a success.
RemovedIsDown ==
    /\ unit = "removed" => daemon.at = "down" /\ ~outbox
    /\ helper.at = "finish" /\ helper.result = "succeeded" => unit = "removed"
    /\ \A t \in Uninstalls : journal[t].status = "succeeded" => unit = "removed"

\* The number tells the process that left evidence from the one that has not yet.
Numbered ==
    /\ daemon.at = "main" => daemon.pid = ready + 1
    /\ daemon.at \in {"up", "online"} => daemon.pid = ready /\ exit.pid < ready
    /\ daemon.at = "down" => daemon.pid \in {0, ready, ready + 1}
    /\ exit.pid <= ready
    /\ helper.at \in Stopping => /\ helper.ready <= ready
                                 /\ daemon.pid = 0 => helper.ready = ready

Base == TypeOK /\ TasksAreTaken /\ ResultsStand /\ StoppedIsDown /\ RemovedIsDown /\ Numbered

\* Evidence of the last process means that it saved its last sample.
EvidenceIsSettled ==
    /\ daemon.at = "down" /\ daemon.pid # ready + 1 /\ exit = [pid |-> ready, clean |-> TRUE]
           => settled
    /\ helper.at \in {"stopped", "draining"} \cup Drained => settled
    /\ unit = "removed" => settled

\* One task at a time: an earlier one is settled before the next is taken.
OneAtATime ==
    /\ \A t \in Uninstalls :
         /\ panel.task[t] \in {"none", "queued", "canceled"} => journal[t].status = "none"
         /\ panel.task[t] \in {"succeeded", "failed"} => journal[t].status = panel.task[t]
         /\ panel.task[t] = "canceled" => IsUninstalled
         /\ journal[t].status # "none" => \A u \in 1 .. t - 1 : Settled(u)
         /\ journal[t].acked => Settled(t)
         /\ journal[t].status = "succeeded" =>
               \A u \in Uninstalls \ {t} : journal[u].status \notin {"running", "succeeded"}
    /\ worker.at # "idle" => \A u \in Uninstalls \ {worker.task} : journal[u].status # "running"

\* The helper's task is the one the plan hands over, until its result is recorded;
\* the worker only gives up a task that was not handed over.
HandedToOne ==
    /\ worker.at \in {"checking", "failing"} /\ journal[worker.task].status = "running"
           => ~HandedOver(plan, worker.task)
    /\ helper.at \in Working => journal[helper.task].status = "running"
    /\ helper.at = "finish" => journal[helper.task].status \in {"running", helper.result}
    /\ helper.at \in Working \cup {"finish"} /\ journal[helper.task].status = "running"
           => HandedOver(plan, helper.task)
    /\ helper.at \in {"decided", "reporting"} => journal[helper.task].status = helper.result

\* A plan whose unit was not written has no helper, and without the mishap no plan
\* is completed behind its helper's back.
WorkerAlone ==
    /\ worker.at # "started"
    /\ worker.at = "unwritten" => helper.at = "gone" /\ ~rescue.enabled

\* The helper's unit stays until the panel knows.
RescueStays ==
    /\ plan.phase = "acknowledged" => IsUninstalled
    /\ helper.at \in {"cleaning", "clearing"} => IsUninstalled
    /\ helper.at \notin {"gone", "cleaning", "clearing"} => rescue.enabled

Known == OneAtATime /\ HandedToOne /\ RescueStays /\ KeptUntilKnown

-----------------------------------------------------------------------------
(***************************************************************************)
(* Rows and the plan                                                       *)
(***************************************************************************)
LEMMA NoTaskZero == 0 \notin Uninstalls
BY UninstallAssumption DEF Uninstalls

LEMMA DecidedRow ==
  ASSUME NEW row \in Rows, NEW status \in {"succeeded", "failed"}
  PROVE  /\ Decided(row, status, 0) \in Rows
         /\ Decided(row, status, 0).status = IF Terminal(row) THEN row.status ELSE status
         /\ Decided(row, status, 0).acked = row.acked
BY DEF Decided, Terminal, Rows

LEMMA AcknowledgedRow ==
  ASSUME NEW row \in Rows
  PROVE  /\ [row EXCEPT !.acked = TRUE] \in Rows
         /\ [row EXCEPT !.acked = TRUE].status = row.status
         /\ [row EXCEPT !.acked = TRUE].acked = TRUE
BY DEF Rows

LEMMA TakenRow ==
  ASSUME NEW row \in Rows
  PROVE  /\ [row EXCEPT !.status = "running"] \in Rows
         /\ [row EXCEPT !.status = "running"].status = "running"
         /\ [row EXCEPT !.status = "running"].acked = row.acked
BY DEF Rows

LEMMA SavedPlan ==
  ASSUME plan \in Plans, NEW p, p \in Plans, plan' = Saved(plan, p)
  PROVE  plan' \in Plans /\ plan' \in {plan, p}
BY DEF Saved

\* What the helper saves is a plan.
LEMMA KeptPlan ==
  ASSUME TypeOK, helper.task \in Uninstalls, NEW phase \in Phases, Keep(phase)
  PROVE  /\ plan' \in Plans
         /\ plan' \in {plan, [task |-> helper.task, old |-> 0, phase |-> phase]}
BY SavedPlan DEF Keep, Plans, TypeOK, DiskType

\* A report changes the row of the task at the panel.
LEMMA ReportedTask ==
  ASSUME TypeOK, NEW t \in Uninstalls, Terminal(journal[t]), ReportTask(t)
  PROVE  /\ PanelType'
         /\ \A u \in Uninstalls :
              panel'.task[u] = IF Settled(t) THEN panel.task[u]
                               ELSE IF u = t THEN journal[t].status
                               ELSE IF journal[t].status = "succeeded" /\ panel.task[u] = "queued"
                                    THEN "canceled" ELSE panel.task[u]
<1>1. journal[t].status \in {"succeeded", "failed"}
  BY DEF Terminal, TypeOK, DiskType, Rows
<1>2. Reported(t) \in [Uninstalls -> PanelTasks]
  BY <1>1 DEF Reported, TypeOK, PanelType, PanelTasks
<1>3. panel' = [panel EXCEPT !.task = Reported(t)]
  BY DEF ReportTask
<1>4. PanelType' /\ panel'.task = Reported(t)
  BY <1>2, <1>3 DEF TypeOK, PanelType
<1> QED  BY <1>4 DEF Reported

\* What happens to the journal: a task is taken, a result is recorded, or a
\* recorded result is acknowledged.
LEMMA TakenTask ==
  ASSUME TypeOK, NEW t \in Uninstalls, TakeTask(t)
  PROVE  /\ DiskType'
         /\ \A u \in Uninstalls \ {t} : journal'[u] = journal[u]
         /\ journal'[t].acked = journal[t].acked
         /\ journal'[t].status = IF Terminal(journal[t]) \/ HandedOver(plan, t)
                                 THEN journal[t].status ELSE "running"
<1>1. CASE Terminal(journal[t]) \/ HandedOver(plan, t)
  <2>1. journal' = journal /\ UNCHANGED <<plan, unit, data>>
    BY <1>1 DEF TakeTask
  <2> QED  BY <1>1, <2>1 DEF TypeOK, DiskType
<1>2. CASE ~(Terminal(journal[t]) \/ HandedOver(plan, t))
  <2>1. PICK row : row = [journal[t] EXCEPT !.status = "running"]
    OBVIOUS
  <2>2. journal' = [journal EXCEPT ![t] = row] /\ UNCHANGED <<plan, unit, data>>
    BY <1>2, <2>1 DEF TakeTask
  <2>3. row \in Rows /\ row.status = "running" /\ row.acked = journal[t].acked
    BY <2>1, TakenRow DEF TypeOK, DiskType
  <2> QED  BY <1>2, <2>2, <2>3 DEF TypeOK, DiskType
<1> QED  BY <1>1, <1>2

\* Results stay, and a task that was taken stays taken.
JournalGrows ==
    \A u \in Uninstalls :
        /\ Terminal(journal[u]) => journal'[u].status = journal[u].status
        /\ journal[u].status # "none" => journal'[u].status # "none"

LEMMA RecordedResult ==
  ASSUME TypeOK, NEW t \in Uninstalls, NEW result \in {"succeeded", "failed"},
         journal' = [journal EXCEPT ![t] = Decided(@, result, 0)]
  PROVE  /\ journal' \in [Uninstalls -> Rows]
         /\ \A u \in Uninstalls \ {t} : journal'[u] = journal[u]
         /\ journal'[t].acked = journal[t].acked
         /\ journal'[t].status = IF Terminal(journal[t]) THEN journal[t].status ELSE result
<1>1. PICK row : row = Decided(journal[t], result, 0)
  OBVIOUS
<1>2. /\ row \in Rows /\ row.acked = journal[t].acked
      /\ row.status = IF Terminal(journal[t]) THEN journal[t].status ELSE result
  BY <1>1, DecidedRow DEF TypeOK, DiskType
<1>3. journal' = [journal EXCEPT ![t] = row]
  BY <1>1
<1> QED  BY <1>2, <1>3 DEF TypeOK, DiskType

LEMMA AcknowledgedTask ==
  ASSUME TypeOK, NEW t \in Uninstalls, AcknowledgeTask(t)
  PROVE  /\ journal' \in [Uninstalls -> Rows]
         /\ \A u \in Uninstalls : journal'[u].status = journal[u].status
         /\ \A u \in Uninstalls \ {t} : journal'[u].acked = journal[u].acked
<1>1. PICK row : row = [journal[t] EXCEPT !.acked = TRUE]
  OBVIOUS
<1>2. row \in Rows /\ row.status = journal[t].status
  BY <1>1, AcknowledgedRow DEF TypeOK, DiskType
<1>3. journal' = [journal EXCEPT ![t] = row]
  BY <1>1 DEF AcknowledgeTask
<1> QED  BY <1>2, <1>3 DEF TypeOK, DiskType

\* A report, by the daemon or by the helper, with or without the reply
LEMMA ReportMade ==
  ASSUME TypeOK, NEW t \in Uninstalls, Terminal(journal[t]), Report(t)
  PROVE  /\ PanelType' /\ journal' \in [Uninstalls -> Rows]
         /\ ReportTask(t)
         /\ \A u \in Uninstalls : journal'[u].status = journal[u].status
         /\ \A u \in Uninstalls \ {t} : journal'[u].acked = journal[u].acked
<1>1. ReportTask(t) /\ (AcknowledgeTask(t) \/ journal' = journal)
  BY DEF Report
<1> QED  BY <1>1, ReportedTask, AcknowledgedTask DEF TypeOK, DiskType

-----------------------------------------------------------------------------
(***************************************************************************)
(* Types: one lemma per action                                             *)
(***************************************************************************)
LEMMA EnqueueType == ASSUME TypeOK, NEW t \in Uninstalls, Enqueue(t) PROVE TypeOK'
<1>1. PanelType'
  BY DEF Enqueue, TypeOK, PanelType, disk, process, usage, service, PanelTasks
<1> QED  BY <1>1 DEF Enqueue, TypeOK, DiskType, ProcessType, WorkerType, HelperType, disk,
            process, usage, service

LEMMA HandOverType == ASSUME TypeOK, HandOver PROVE TypeOK'
<1>1. WorkerType'
  BY DEF HandOver, EnableHelper, StartHelper, TypeOK, WorkerType, disk, process, usage, NoHelper,
     NoWorker
<1>2. HelperType'
  BY DEF HandOver, EnableHelper, StartHelper, TypeOK, HelperType, disk, process, usage, NoHelper,
     NoWorker, HelperAts,
     Working, Stopping, Drained
<1> QED  BY <1>1, <1>2 DEF HandOver, EnableHelper, StartHelper, TypeOK, PanelType, DiskType,
            ProcessType, disk, process,
            usage

LEMMA ConnectType == ASSUME TypeOK, Connect PROVE TypeOK'
<1>1. PanelType'
  BY DEF Connect, TypeOK, PanelType, disk, usage, service
<1>2. ProcessType'
  BY DEF Connect, TypeOK, ProcessType, disk, usage, service
<1> QED  BY <1>1, <1>2 DEF Connect, TypeOK, DiskType, WorkerType, HelperType, disk, usage, service

LEMMA TrafficType == ASSUME TypeOK, Traffic PROVE TypeOK'
<1>1. ProcessType'
  BY DEF Traffic, TypeOK, ProcessType, disk, process, service
<1> QED  BY <1>1 DEF Traffic, TypeOK, PanelType, DiskType, WorkerType, HelperType, disk, process,
            service

LEMMA CollectType == ASSUME TypeOK, Collect PROVE TypeOK'
<1>1. ProcessType'
  BY DEF Collect, TypeOK, ProcessType, disk, process, service
<1> QED  BY <1>1 DEF Collect, TypeOK, PanelType, DiskType, WorkerType, HelperType, disk, process,
            service

LEMMA FlushUsageType == ASSUME TypeOK, FlushUsage PROVE TypeOK'
<1>1. ProcessType'
  BY DEF FlushUsage, TypeOK, ProcessType, disk, process, service
<1> QED  BY <1>1 DEF FlushUsage, TypeOK, PanelType, DiskType, WorkerType, HelperType, disk,
            process, service

LEMMA CheckProcessType == ASSUME TypeOK, CheckProcess PROVE TypeOK'
<1>1. HelperType'
  BY DEF CheckProcess, TypeOK, HelperType, disk, process, usage, At, Move, Fails, Ending,
     HelperAts, Working, Stopping, Drained
<1> QED  BY <1>1 DEF CheckProcess, TypeOK, PanelType, DiskType, ProcessType, WorkerType, disk,
            process, usage

LEMMA DrainType == ASSUME TypeOK, Drain PROVE TypeOK'
<1>1. ProcessType'
  BY DEF Drain, TypeOK, ProcessType, disk, process, At, Move, Fails, Ending
<1>2. HelperType'
  BY DEF Drain, TypeOK, HelperType, disk, process, At, Move, Fails, Ending, HelperAts, Working,
     Stopping, Drained
<1> QED  BY <1>1, <1>2 DEF Drain, TypeOK, PanelType, DiskType, WorkerType, disk, process

LEMMA RemoveServiceType == ASSUME TypeOK, RemoveService PROVE TypeOK'
<1>1. DiskType'
  BY DEF RemoveService, TypeOK, DiskType, process, usage, At, Move, Fails, Ending
<1>2. HelperType'
  BY DEF RemoveService, TypeOK, HelperType, process, usage, At, Move, Fails, Ending, HelperAts,
     Working, Stopping, Drained
<1> QED  BY <1>1, <1>2 DEF RemoveService, TypeOK, PanelType, ProcessType, WorkerType, process,
            usage

LEMMA RestartHelperType == ASSUME TypeOK, RestartHelper PROVE TypeOK'
<1>1. HelperType'
  BY DEF RestartHelper, TypeOK, HelperType, disk, process, usage, NoHelper, HelperAts, Working,
     Stopping, Drained
<1> QED  BY <1>1 DEF RestartHelper, TypeOK, PanelType, DiskType, ProcessType, WorkerType, disk,
            process, usage

LEMMA KillHelperType == ASSUME TypeOK, KillHelper PROVE TypeOK'
<1>1. HelperType'
  BY DEF KillHelper, TypeOK, HelperType, disk, process, usage, NoHelper, HelperAts, Working,
     Stopping, Drained
<1> QED  BY <1>1 DEF KillHelper, TypeOK, PanelType, DiskType, ProcessType, WorkerType, disk,
            process, usage

LEMMA CrashType == ASSUME TypeOK, Crash PROVE TypeOK'
<1>1. ProcessType'
  BY DEF Crash, TypeOK, ProcessType, disk, service, NoWorker
<1>2. WorkerType'
  BY DEF Crash, TypeOK, WorkerType, disk, service, NoWorker
<1> QED  BY <1>1, <1>2 DEF Crash, TypeOK, PanelType, DiskType, HelperType, disk, service

LEMMA LoseSessionType == ASSUME TypeOK, LoseSession PROVE TypeOK'
<1>1. ProcessType'
  BY DEF LoseSession, TypeOK, ProcessType, disk, usage, service
<1> QED  BY <1>1 DEF LoseSession, TypeOK, PanelType, DiskType, WorkerType, HelperType, disk,
            usage, service

LEMMA RebootType == ASSUME TypeOK, Reboot PROVE TypeOK'
<1>1. ProcessType'
  BY DEF Reboot, TypeOK, ProcessType, disk, NoWorker, NoHelper
<1>2. WorkerType'
  BY DEF Reboot, TypeOK, WorkerType, disk, NoWorker, NoHelper
<1>3. HelperType'
  BY DEF Reboot, TypeOK, HelperType, disk, NoWorker, NoHelper, HelperAts, Working, Stopping,
     Drained
<1> QED  BY <1>1, <1>2, <1>3 DEF Reboot, TypeOK, PanelType, DiskType, disk

LEMMA StartDaemonType == ASSUME TypeOK, StartDaemon PROVE TypeOK'
<1>1. daemon' \in [at : {"down", "main", "up", "online"}, pid : Nat]
  BY DEF StartDaemon, TypeOK, ProcessType
<1>2. ProcessType'
  BY <1>1 DEF StartDaemon, TypeOK, ProcessType, usage
<1> QED  BY <1>2 DEF StartDaemon, TypeOK, PanelType, DiskType, WorkerType, HelperType, disk,
            service

LEMMA BecomeReadyType == ASSUME TypeOK, daemon.at = "main" => daemon.pid = ready + 1, BecomeReady
                         PROVE  TypeOK'
<1>1. /\ daemon' \in [at : {"down", "main", "up", "online"}, pid : Nat]
      /\ ready' \in Nat \ {0}
  BY DEF BecomeReady, TypeOK, ProcessType
<1>2. ProcessType'
  BY <1>1 DEF BecomeReady, TypeOK, ProcessType, usage
<1> QED  BY <1>2 DEF BecomeReady, TypeOK, PanelType, DiskType, WorkerType, HelperType, disk,
            service

LEMMA CleanupType == ASSUME TypeOK, Cleanup PROVE TypeOK'
<1>1. DiskType'
  BY DEF Cleanup, TypeOK, DiskType
<1>2. rescue' \in [enabled : BOOLEAN, again : BOOLEAN]
  <2>1. CASE At("cleaning") /\ rescue' = [enabled |-> FALSE, again |-> FALSE]
    BY <2>1
  <2>2. CASE UNCHANGED rescue
    BY <2>2 DEF TypeOK, HelperType
  <2> QED  BY <2>1, <2>2 DEF Cleanup
<1>3. HelperType'
  BY <1>2 DEF Cleanup, TypeOK, HelperType, At, Move, NoHelper, HelperAts, Working, Stopping,
     Drained
<1> QED  BY <1>1, <1>3 DEF Cleanup, TypeOK, PanelType, ProcessType, WorkerType, process, usage

LEMMA TakeTaskType == ASSUME TypeOK, NEW t \in Uninstalls, TakeTask(t) PROVE TypeOK'
<1>1. PanelType'
  BY DEF TakeTask, TypeOK, PanelType, PanelTasks
<1>2. WorkerType'
  <2>1. worker' = worker \/ worker' = [at |-> "checking", task |-> t]
    BY DEF TakeTask
  <2>2. CASE worker' = worker
    BY <2>2 DEF TypeOK, WorkerType
  <2>3. CASE worker' = [at |-> "checking", task |-> t]
    BY <2>3 DEF WorkerType
  <2> QED  BY <2>1, <2>2, <2>3
<1>3. DiskType'
  BY TakenTask
<1>4. ProcessType' /\ HelperType'
  BY DEF TakeTask, TypeOK, ProcessType, HelperType, process, usage, service
<1> QED  BY <1>1, <1>2, <1>3, <1>4 DEF TypeOK

LEMMA SavePlanType == ASSUME TypeOK, SavePlan PROVE TypeOK'
<1>1. worker.task \in Uninstalls
  BY DEF SavePlan, TypeOK, WorkerType
<1>2. DiskType'
  BY <1>1, SavedPlan DEF SavePlan, TypeOK, DiskType, Plans, Phases
<1>3. WorkerType'
  BY DEF SavePlan, TypeOK, WorkerType
<1> QED  BY <1>2, <1>3 DEF SavePlan, TypeOK, PanelType, ProcessType, HelperType, process, usage,
            service

\* What a handover that fails leaves behind
LEMMA HandOverFailing ==
  ASSUME TypeOK, HandOverFails
  PROVE  /\ worker.at \in {"handing", "started"} /\ worker.task \in Uninstalls
         /\ worker'.at \in {"unwritten", "started", "failing"} /\ worker'.task = worker.task
         /\ WorkerType' /\ HelperType'
         /\ plan' \in Plans /\ plan'.task \in {plan.task, worker.task}
         /\ helper' = helper \/ helper'.at \in {"gone", "loading"}
         /\ UNCHANGED <<panel, journal, unit, data, process, usage>>
<1>1. /\ worker.at \in {"handing", "started"} /\ worker.task \in Uninstalls
      /\ UNCHANGED <<panel, journal, unit, data, process, usage>>
  BY DEF HandOverFails, TypeOK, WorkerType
<1>2. PICK at \in {"unwritten", "started", "failing"} : WorkerMoves(at)
  BY DEF HandOverFails
<1>3. /\ worker'.at \in {"unwritten", "started", "failing"} /\ worker'.task = worker.task
      /\ WorkerType'
  BY <1>1, <1>2 DEF WorkerMoves, TypeOK, WorkerType
<1>4. plan' = plan \/ CompletePlan
  BY DEF HandOverFails
<1>5. plan' \in Plans /\ plan'.task \in {plan.task, worker.task}
  <2>1. CASE plan' = plan
    BY <2>1 DEF TypeOK, DiskType
  <2>2. CASE CompletePlan
    BY <1>1, <2>2, SavedPlan DEF CompletePlan, TypeOK, DiskType, Plans, Phases
  <2> QED  BY <1>4, <2>1, <2>2
<1>6. \/ helper' = helper /\ rescue' = rescue
      \/ helper' = helper /\ rescue' \in {rescue, [rescue EXCEPT !.enabled = TRUE]}
      \/ EnableHelper /\ StartHelper
  BY DEF HandOverFails
<1>7. rescue' \in [enabled : BOOLEAN, again : BOOLEAN]
  <2>1. PICK yes \in BOOLEAN : yes = TRUE
    OBVIOUS
  <2>2. [rescue EXCEPT !.enabled = yes] \in [enabled : BOOLEAN, again : BOOLEAN]
    BY DEF TypeOK, HelperType
  <2>3. rescue' \in {rescue, [rescue EXCEPT !.enabled = yes]}
    BY <1>6, <2>1 DEF EnableHelper
  <2> QED  BY <2>2, <2>3 DEF TypeOK, HelperType
<1>8. helper' = helper \/ helper' = [NoHelper EXCEPT !.at = "loading"]
  BY <1>6 DEF StartHelper
<1>9. HelperType' /\ (helper' = helper \/ helper'.at \in {"gone", "loading"})
  BY <1>7, <1>8 DEF TypeOK, HelperType, NoHelper, HelperAts, Working, Stopping, Drained
<1> QED  BY <1>1, <1>3, <1>5, <1>9

LEMMA HandOverFailsType == ASSUME TypeOK, HandOverFails PROVE TypeOK'
BY HandOverFailing DEF TypeOK, PanelType, DiskType, ProcessType, process, usage

LEMMA RefuseType == ASSUME TypeOK, Refuse PROVE TypeOK'
<1>1. worker.task \in Uninstalls
  BY DEF Refuse, TypeOK, WorkerType
<1>2. DiskType'
  BY <1>1, RecordedResult DEF Refuse, TypeOK, DiskType
<1>3. WorkerType'
  BY DEF Refuse, WorkerType, NoWorker
<1> QED  BY <1>2, <1>3 DEF Refuse, TypeOK, PanelType, ProcessType, HelperType, process, usage,
            service

LEMMA DaemonReportsType ==
  ASSUME TypeOK, NEW t \in Uninstalls, DaemonReports(t)
  PROVE  TypeOK'
<1>1. Terminal(journal[t]) /\ Report(t)
  BY DEF DaemonReports, Unacknowledged
<1>2. PanelType' /\ journal' \in [Uninstalls -> Rows]
  BY <1>1, ReportMade
<1> QED  BY <1>2 DEF DaemonReports, TypeOK, DiskType, ProcessType, WorkerType, HelperType,
            process, usage, service

\* A step of the helper's
LEMMA Moved ==
  ASSUME TypeOK
  PROVE  /\ \A at : Move(at) => /\ helper'.at = at /\ helper'.task = helper.task
                                /\ helper'.ready = helper.ready /\ helper'.result = helper.result
         /\ \A h, result : h = helper /\ helper' = Ending(h, result) =>
               /\ helper'.at = "finish" /\ helper'.task = helper.task
               /\ helper'.ready = helper.ready /\ helper'.result = result
         /\ Fails => /\ helper'.at = "finish" /\ helper'.task = helper.task
                     /\ helper'.ready = helper.ready /\ helper'.result = "failed"
BY DEF Move, Fails, Ending, TypeOK, HelperType

\* What the helper does when it has loaded the plan
LEMMA Loaded ==
  ASSUME TypeOK, TasksAreTaken, Load
  PROVE  /\ helper.at = "loading"
         /\ \/ helper' = NoHelper
            \/ /\ plan.phase = "acknowledged" /\ plan.task \in Uninstalls
               /\ helper' = [helper EXCEPT !.task = plan.task, !.at = "cleaning"]
            \/ /\ plan.task \in Uninstalls /\ HandedOver(plan, plan.task)
               /\ \/ /\ journal[plan.task].status = "failed"
                     /\ helper' = [helper EXCEPT !.task = plan.task, !.at = "giving_up"]
                  \/ /\ journal[plan.task].status = "succeeded"
                     /\ helper' = [helper EXCEPT !.task = plan.task, !.at = "finish",
                                                 !.result = "succeeded"]
                  \/ /\ journal[plan.task].status = "running"
                     /\ helper' = [helper EXCEPT !.task = plan.task, !.at = "checked",
                                                 !.ready = ready]
<1> DEFINE h == [helper EXCEPT !.task = plan.task]
           Other == plan.phase \notin {"none", "failed", "completed", "acknowledged"}
<1>1. helper.at = "loading"
  BY DEF Load, At
<1>2. plan.phase # "none" => plan.task \in Uninstalls
  BY DEF TypeOK, DiskType, Plans, NoPlan
<1>3. CASE plan.phase = "acknowledged"
  <2>1. helper' = [h EXCEPT !.at = "cleaning"]
    BY <1>3 DEF Load
  <2> QED  BY <1>1, <1>2, <1>3, <2>1 DEF TypeOK, HelperType
<1>4. CASE plan.phase \in {"none", "failed", "completed"}
  <2>1. helper' = NoHelper
    BY <1>4 DEF Load
  <2> QED  BY <1>1, <2>1
<1>5. CASE Other
  <2>1. plan.task \in Uninstalls /\ HandedOver(plan, plan.task)
    BY <1>2, <1>5 DEF HandedOver
  <2>2. journal[plan.task].status \in {"failed", "succeeded", "running"}
    BY <1>5, <2>1, UninstallAssumption DEF TypeOK, DiskType, Rows, TasksAreTaken, Uninstalls
  <2>3. \/ /\ journal[plan.task].status = "failed" /\ helper' = [h EXCEPT !.at = "giving_up"]
        \/ /\ journal[plan.task].status = "succeeded" /\ helper' = Ending(h, "succeeded")
        \/ /\ journal[plan.task].status = "running"
           /\ helper' = [h EXCEPT !.at = "checked", !.ready = ready]
    <3>1. CASE journal[plan.task].status = "failed"
      BY <1>5, <3>1 DEF Load
    <3>2. CASE journal[plan.task].status = "succeeded"
      BY <1>5, <3>2 DEF Load
    <3>3. CASE journal[plan.task].status = "running"
      BY <1>5, <3>3 DEF Load
    <3> QED  BY <2>2, <3>1, <3>2, <3>3
  <2>4. helper \in [at : HelperAts, task : {0} \cup Uninstalls, ready : Nat,
                    result : {"none", "succeeded", "failed"}]
    BY DEF TypeOK, HelperType
  <2> QED  BY <1>1, <2>1, <2>3, <2>4 DEF Ending
<1> QED  BY <1>3, <1>4, <1>5

LEMMA LoadType == ASSUME TypeOK, TasksAreTaken, Load PROVE TypeOK'
<1>1. HelperType'
  <2>1. helper \in [at : HelperAts, task : {0} \cup Uninstalls, ready : Nat,
                    result : {"none", "succeeded", "failed"}]
    BY DEF TypeOK, HelperType
  <2>2. ready \in Nat
    BY DEF TypeOK, ProcessType
  <2>3. helper' = NoHelper \/ helper'.task \in Uninstalls
    BY <2>1, Loaded
  <2>4. helper' \in [at : HelperAts, task : {0} \cup Uninstalls, ready : Nat,
                     result : {"none", "succeeded", "failed"}]
    <3>1. helper' = NoHelper => helper' \in [at : HelperAts, task : {0} \cup Uninstalls,
                                             ready : Nat, result : {"none", "succeeded", "failed"}]
      BY DEF NoHelper, HelperAts
    <3>2. {"cleaning", "giving_up", "finish", "checked"} \subseteq HelperAts
      BY DEF HelperAts, Working, Stopping
    <3> QED  BY <2>1, <2>2, <3>1, <3>2, Loaded
  <2>5. rescue' = rescue
    BY DEF Load
  <2> QED  BY <2>3, <2>4, <2>5 DEF TypeOK, HelperType, NoHelper
<1> QED  BY <1>1 DEF Load, TypeOK, PanelType, DiskType, ProcessType, WorkerType, disk, process,
            usage

LEMMA GiveUpType ==
  ASSUME TypeOK, TasksAreTaken, GiveUp, journal[helper.task].status = "failed"
  PROVE  /\ TypeOK'
         /\ panel' = panel \/ ReportTask(helper.task)
         /\ journal' = journal \/ (AcknowledgeTask(helper.task) /\ ReportTask(helper.task))
<1>1. helper.task \in Uninstalls /\ Terminal(journal[helper.task])
  BY DEF GiveUp, At, TypeOK, HelperType, Terminal
<1>2. /\ panel' = panel \/ ReportTask(helper.task)
      /\ journal' = journal \/ (AcknowledgeTask(helper.task) /\ ReportTask(helper.task))
  <2>1. CASE journal[helper.task].acked
    BY <2>1 DEF GiveUp
  <2>2. CASE ~journal[helper.task].acked
    BY <2>2 DEF GiveUp
  <2> QED  BY <2>1, <2>2
<1>3. PanelType'
  BY <1>1, <1>2, ReportedTask DEF TypeOK, PanelType
<1>4. plan' \in Plans
  BY <1>1, KeptPlan DEF GiveUp, Phases
<1>5. DiskType'
  BY <1>1, <1>2, <1>4, AcknowledgedTask DEF GiveUp, TypeOK, DiskType
<1>6. HelperType'
  BY DEF GiveUp, TypeOK, HelperType, NoHelper, HelperAts
<1> QED  BY <1>2, <1>3, <1>5, <1>6 DEF GiveUp, TypeOK, ProcessType, WorkerType, process, usage

LEMMA SaveStoppingType == ASSUME TypeOK, SaveStopping PROVE TypeOK'
<1>1. helper.task \in Uninstalls
  BY DEF SaveStopping, At, TypeOK, HelperType
<1>2. DiskType'
  BY <1>1, KeptPlan DEF SaveStopping, TypeOK, DiskType, Phases
<1>3. HelperType'
  BY <1>1 DEF SaveStopping, TypeOK, HelperType, Move, HelperAts, Working, Stopping, Drained
<1> QED  BY <1>2, <1>3 DEF SaveStopping, TypeOK, PanelType, ProcessType, WorkerType, process,
            usage

LEMMA SaveDrainingType == ASSUME TypeOK, SaveDraining PROVE TypeOK'
<1>1. helper.task \in Uninstalls
  BY DEF SaveDraining, At, TypeOK, HelperType
<1>2. DiskType'
  BY <1>1, KeptPlan DEF SaveDraining, TypeOK, DiskType, Phases
<1>3. HelperType'
  BY <1>1 DEF SaveDraining, TypeOK, HelperType, Move, HelperAts, Working, Stopping, Drained
<1> QED  BY <1>2, <1>3 DEF SaveDraining, TypeOK, PanelType, ProcessType, WorkerType, process,
            usage

LEMMA SaveRemovingType == ASSUME TypeOK, SaveRemoving PROVE TypeOK'
<1>1. helper.task \in Uninstalls
  BY DEF SaveRemoving, At, TypeOK, HelperType
<1>2. DiskType'
  BY <1>1, KeptPlan DEF SaveRemoving, TypeOK, DiskType, Phases
<1>3. HelperType'
  BY <1>1 DEF SaveRemoving, TypeOK, HelperType, Move, HelperAts, Working, Stopping, Drained
<1> QED  BY <1>2, <1>3 DEF SaveRemoving, TypeOK, PanelType, ProcessType, WorkerType, process,
            usage

LEMMA SavePendingType == ASSUME TypeOK, SavePending PROVE TypeOK'
<1>1. helper.task \in Uninstalls
  BY DEF SavePending, At, TypeOK, HelperType
<1>2. DiskType'
  BY <1>1, KeptPlan DEF SavePending, TypeOK, DiskType, Phases
<1>3. HelperType'
  BY <1>1 DEF SavePending, TypeOK, HelperType, Move, HelperAts, Working, Stopping, Drained
<1> QED  BY <1>2, <1>3 DEF SavePending, TypeOK, PanelType, ProcessType, WorkerType, process, usage

LEMMA AcknowledgedType == ASSUME TypeOK, Acknowledged PROVE TypeOK'
<1>1. helper.task \in Uninstalls
  BY DEF Acknowledged, At, TypeOK, HelperType
<1>2. DiskType'
  BY <1>1, KeptPlan DEF Acknowledged, TypeOK, DiskType, Phases
<1>3. HelperType'
  BY <1>1 DEF Acknowledged, TypeOK, HelperType, Move, NoHelper, HelperAts
<1> QED  BY <1>2, <1>3 DEF Acknowledged, TypeOK, PanelType, ProcessType, WorkerType, process,
            usage

LEMMA RecordType ==
  ASSUME TypeOK, Record, helper.result # "none"
  PROVE  TypeOK'
<1>1. helper.task \in Uninstalls /\ helper.result \in {"succeeded", "failed"}
  BY DEF Record, At, TypeOK, HelperType
<1>2. DiskType'
  BY <1>1, RecordedResult DEF Record, TypeOK, DiskType
<1>3. HelperType'
  BY <1>1 DEF Record, TypeOK, HelperType, Move, HelperAts
<1> QED  BY <1>2, <1>3 DEF Record, TypeOK, PanelType, ProcessType, WorkerType, process, usage

LEMMA HelperReportsType ==
  ASSUME TypeOK, HelperReports, Terminal(journal[helper.task])
  PROVE  TypeOK'
<1>1. helper.task \in Uninstalls /\ Report(helper.task)
  BY DEF HelperReports, At, TypeOK, HelperType
<1>2. PanelType' /\ journal' \in [Uninstalls -> Rows]
  BY <1>1, ReportMade
<1> QED  BY <1>2 DEF HelperReports, TypeOK, DiskType, ProcessType, WorkerType, HelperType,
            process, usage, service

\* How systemctl stop ends
LEMMA Halted ==
  ASSUME TypeOK, Halt, StopDaemon
  PROVE  /\ helper.at = "halting" /\ wanted' = FALSE
         /\ daemon'.at = "down" /\ daemon'.pid = daemon.pid
         /\ worker' = NoWorker
         /\ \/ /\ daemon.at = "down"
               /\ UNCHANGED <<exit, settled, traffic, outbox>>
            \/ /\ daemon.at # "down"
               /\ exit' = exit \/ exit' = [pid |-> daemon.pid, clean |-> settled']
               /\ ~WasReady => exit' = exit
               /\ settled' \in BOOLEAN /\ traffic' = FALSE /\ outbox' \in BOOLEAN
         /\ \/ ConfirmedStop /\ helper' = [helper EXCEPT !.at = "stopped"]
            \/ ~ConfirmedStop /\ helper' = Ending(helper, "failed")
         /\ UNCHANGED <<panel, disk, ready, rescue>>
<1>1. PICK clean \in BOOLEAN : End(clean)
  BY DEF StopDaemon
<1>2. daemon' = [daemon EXCEPT !.at = "down"] /\ worker' = NoWorker /\ ready' = ready
  BY <1>1 DEF End
<1>3. daemon'.at = "down" /\ daemon'.pid = daemon.pid
  BY <1>2 DEF TypeOK, ProcessType
<1>4. \/ /\ daemon.at = "down"
         /\ UNCHANGED <<exit, settled, traffic, outbox>>
      \/ /\ daemon.at # "down"
         /\ exit' = exit \/ exit' = [pid |-> daemon.pid, clean |-> settled']
         /\ ~WasReady => exit' = exit
         /\ settled' \in BOOLEAN /\ traffic' = FALSE /\ outbox' \in BOOLEAN
  <2>1. CASE daemon.at = "down"
    BY <1>1, <2>1 DEF End, usage
  <2>2. CASE daemon.at # "down"
    <3>1. /\ exit' = IF WasReady THEN [pid |-> daemon.pid, clean |-> clean] ELSE exit
          /\ settled' = clean /\ traffic' = FALSE /\ outbox' = (outbox \/ (clean /\ traffic))
      BY <1>1, <2>2 DEF End
    <3> QED  BY <1>1, <2>2, <3>1
  <2> QED  BY <2>1, <2>2
<1>5. helper.at = "halting" /\ wanted' = FALSE /\ UNCHANGED <<panel, disk, rescue>>
  BY DEF Halt, StopDaemon, At
<1>6. \/ ConfirmedStop /\ helper' = [helper EXCEPT !.at = "stopped"]
      \/ ~ConfirmedStop /\ helper' = Ending(helper, "failed")
  BY DEF StopDaemon, Move, Fails
<1> QED  BY <1>2, <1>3, <1>4, <1>5, <1>6

\* How the stop leaves the helper
LEMMA HaltMoves ==
  ASSUME TypeOK, Halt, StopDaemon
  PROVE  /\ helper'.task = helper.task
         /\ \/ helper'.at = "stopped"
            \/ helper'.at = "finish" /\ helper'.result = "failed"
<1>1. Move("stopped") \/ Fails
  BY DEF StopDaemon
<1>2. CASE Move("stopped")
  BY <1>2, Moved
<1>3. CASE Fails
  BY <1>3, Moved
<1> QED  BY <1>1, <1>2, <1>3

LEMMA StopDaemonType == ASSUME TypeOK, Halt, StopDaemon PROVE TypeOK'
<1>1. daemon' \in [at : {"down", "main", "up", "online"}, pid : Nat] /\ ready' \in Nat \ {0}
  <2>1. daemon' = [daemon EXCEPT !.at = "down"] /\ ready' = ready
    BY DEF StopDaemon, End
  <2> QED  BY <2>1 DEF TypeOK, ProcessType
<1>2. /\ wanted' \in BOOLEAN /\ settled' \in BOOLEAN /\ traffic' \in BOOLEAN /\ outbox' \in BOOLEAN
  <2>1. wanted' \in BOOLEAN
    BY Halted
  <2>2. CASE daemon.at = "down"
    BY <2>2, Halted DEF TypeOK, ProcessType
  <2>3. CASE daemon.at # "down"
    BY <2>3, Halted
  <2> QED  BY <2>1, <2>2, <2>3
<1>3. exit' \in [pid : Nat, clean : BOOLEAN]
  <2>1. exit' = exit \/ exit' = [pid |-> daemon.pid, clean |-> settled']
    BY Halted
  <2>2. daemon.pid \in Nat
    BY DEF TypeOK, ProcessType
  <2> QED  BY <1>2, <2>1, <2>2 DEF TypeOK, ProcessType
<1>4. ProcessType'
  BY <1>1, <1>2, <1>3 DEF ProcessType
<1>5. WorkerType'
  BY Halted DEF WorkerType, NoWorker
<1>6. HelperType'
  BY Halted DEF TypeOK, HelperType, Ending, HelperAts, Working
<1> QED  BY <1>4, <1>5, <1>6, Halted DEF TypeOK, PanelType, DiskType, disk

\* A stop that failed ends the attempt.
LEMMA StopFailed ==
  ASSUME TypeOK, Halt, StopFails
  PROVE  /\ helper.at = "halting" /\ helper'.at = "finish" /\ helper'.result = "failed"
         /\ helper'.task = helper.task /\ HelperType'
         /\ UNCHANGED <<panel, disk, process, usage, worker, rescue>>
<1>1. helper.at = "halting" /\ Fails /\ UNCHANGED <<panel, disk, process, usage, worker, rescue>>
  BY DEF Halt, StopFails, At
<1>2. /\ helper'.at = "finish" /\ helper'.result = "failed" /\ helper'.task = helper.task
  BY <1>1, Moved
<1>3. HelperType'
  BY <1>1 DEF Fails, Ending, TypeOK, HelperType, HelperAts, Working, Stopping, Drained
<1> QED  BY <1>1, <1>2, <1>3

LEMMA HaltType == ASSUME TypeOK, Halt PROVE TypeOK'
<1>1. CASE StopDaemon
  BY <1>1, StopDaemonType
<1>2. CASE StopFails
  BY <1>2, StopFailed DEF TypeOK, PanelType, DiskType, ProcessType, WorkerType, disk, process, usage
<1> QED  BY <1>1, <1>2 DEF Halt

-----------------------------------------------------------------------------
(***************************************************************************)
(* Base: one lemma per action, one step per conjunct                       *)
(***************************************************************************)
LEMMA EnqueueBase == ASSUME Base, NEW t \in Uninstalls, Enqueue(t) PROVE Base'
<1>1. TypeOK'
  BY EnqueueType DEF Base
<1>2. TasksAreTaken'
  BY DEF Base, TasksAreTaken, Enqueue, process, disk, usage, service
<1>3. ResultsStand'
  BY DEF Base, ResultsStand, Enqueue, process, disk, usage, service
<1>4. StoppedIsDown'
  BY DEF Base, StoppedIsDown, Drained, Enqueue, process, disk, usage, service
<1>5. RemovedIsDown'
  BY DEF Base, RemovedIsDown, Enqueue, process, disk, usage, service
<1>6. Numbered'
  BY DEF Base, Numbered, Stopping, Enqueue, process, disk, usage, service
<1> QED  BY <1>1, <1>2, <1>3, <1>4, <1>5, <1>6 DEF Base

LEMMA HandOverBase == ASSUME Base, HandOver PROVE Base'
<1>1. TypeOK'
  BY HandOverType DEF Base
<1>2. TasksAreTaken'
  BY DEF Base, TasksAreTaken, HandOver, EnableHelper, StartHelper, NoHelper, NoWorker, process,
     disk, usage
<1>3. ResultsStand'
  BY DEF Base, ResultsStand, HandOver, EnableHelper, StartHelper, NoHelper, NoWorker, process,
     disk, usage
<1>4. StoppedIsDown'
  BY DEF Base, StoppedIsDown, Drained, HandOver, EnableHelper, StartHelper, NoHelper, NoWorker,
     process, disk, usage
<1>5. RemovedIsDown'
  BY DEF Base, RemovedIsDown, HandOver, EnableHelper, StartHelper, NoHelper, NoWorker, process,
     disk, usage
<1>6. Numbered'
  BY DEF Base, Numbered, Stopping, HandOver, EnableHelper, StartHelper, NoHelper, NoWorker,
     process, disk, usage
<1> QED  BY <1>1, <1>2, <1>3, <1>4, <1>5, <1>6 DEF Base

LEMMA ConnectBase == ASSUME Base, Connect PROVE Base'
<1>1. TypeOK'
  BY ConnectType DEF Base
<1>2. TasksAreTaken'
  BY DEF Base, TasksAreTaken, Connect, disk, usage, service
<1>3. ResultsStand'
  BY DEF Base, ResultsStand, Connect, disk, usage, service
<1>4. StoppedIsDown'
  BY DEF Base, StoppedIsDown, Drained, Connect, disk, usage, service
<1>5. RemovedIsDown'
  BY DEF Base, RemovedIsDown, Connect, disk, usage, service
<1>6. Numbered'
  BY DEF Base, Numbered, Stopping, Connect, disk, usage, service
<1> QED  BY <1>1, <1>2, <1>3, <1>4, <1>5, <1>6 DEF Base

LEMMA TrafficBase == ASSUME Base, Traffic PROVE Base'
<1>1. TypeOK'
  BY TrafficType DEF Base
<1>2. TasksAreTaken'
  BY DEF Base, TasksAreTaken, Traffic, process, disk, service
<1>3. ResultsStand'
  BY DEF Base, ResultsStand, Traffic, process, disk, service
<1>4. StoppedIsDown'
  BY DEF Base, StoppedIsDown, Drained, Traffic, process, disk, service
<1>5. RemovedIsDown'
  BY DEF Base, RemovedIsDown, Traffic, process, disk, service
<1>6. Numbered'
  BY DEF Base, Numbered, Stopping, Traffic, process, disk, service
<1> QED  BY <1>1, <1>2, <1>3, <1>4, <1>5, <1>6 DEF Base

LEMMA FlushUsageBase == ASSUME Base, FlushUsage PROVE Base'
<1>1. TypeOK'
  BY FlushUsageType DEF Base
<1>2. TasksAreTaken'
  BY DEF Base, TasksAreTaken, FlushUsage, process, disk, service
<1>3. ResultsStand'
  BY DEF Base, ResultsStand, FlushUsage, process, disk, service
<1>4. StoppedIsDown'
  BY DEF Base, StoppedIsDown, Drained, FlushUsage, process, disk, service
<1>5. RemovedIsDown'
  BY DEF Base, RemovedIsDown, FlushUsage, process, disk, service
<1>6. Numbered'
  BY DEF Base, Numbered, Stopping, FlushUsage, process, disk, service
<1> QED  BY <1>1, <1>2, <1>3, <1>4, <1>5, <1>6 DEF Base

LEMMA RestartHelperBase == ASSUME Base, RestartHelper PROVE Base'
<1>1. TypeOK'
  BY RestartHelperType DEF Base
<1>2. TasksAreTaken'
  BY DEF Base, TasksAreTaken, RestartHelper, NoHelper, process, disk, usage
<1>3. ResultsStand'
  BY DEF Base, ResultsStand, RestartHelper, NoHelper, process, disk, usage
<1>4. StoppedIsDown'
  BY DEF Base, StoppedIsDown, Drained, RestartHelper, NoHelper, process, disk, usage
<1>5. RemovedIsDown'
  BY DEF Base, RemovedIsDown, RestartHelper, NoHelper, process, disk, usage
<1>6. Numbered'
  BY DEF Base, Numbered, Stopping, RestartHelper, NoHelper, process, disk, usage
<1> QED  BY <1>1, <1>2, <1>3, <1>4, <1>5, <1>6 DEF Base

LEMMA KillHelperBase == ASSUME Base, KillHelper PROVE Base'
<1>1. TypeOK'
  BY KillHelperType DEF Base
<1>2. TasksAreTaken'
  BY DEF Base, TasksAreTaken, KillHelper, NoHelper, process, disk, usage
<1>3. ResultsStand'
  BY DEF Base, ResultsStand, KillHelper, NoHelper, process, disk, usage
<1>4. StoppedIsDown'
  BY DEF Base, StoppedIsDown, Drained, KillHelper, NoHelper, process, disk, usage
<1>5. RemovedIsDown'
  BY DEF Base, RemovedIsDown, KillHelper, NoHelper, process, disk, usage
<1>6. Numbered'
  BY DEF Base, Numbered, Stopping, KillHelper, NoHelper, process, disk, usage
<1> QED  BY <1>1, <1>2, <1>3, <1>4, <1>5, <1>6 DEF Base

LEMMA LoseSessionBase == ASSUME Base, LoseSession PROVE Base'
<1>1. TypeOK'
  BY LoseSessionType DEF Base
<1>2. TasksAreTaken'
  BY DEF Base, TasksAreTaken, LoseSession, disk, usage, service
<1>3. ResultsStand'
  BY DEF Base, ResultsStand, LoseSession, disk, usage, service
<1>4. StoppedIsDown'
  BY DEF Base, StoppedIsDown, Drained, LoseSession, disk, usage, service
<1>5. RemovedIsDown'
  BY DEF Base, RemovedIsDown, LoseSession, disk, usage, service
<1>6. Numbered'
  BY DEF Base, Numbered, Stopping, LoseSession, disk, usage, service
<1> QED  BY <1>1, <1>2, <1>3, <1>4, <1>5, <1>6 DEF Base

LEMMA RebootBase == ASSUME Base, Reboot PROVE Base'
<1>1. TypeOK'
  BY RebootType DEF Base
<1>2. TasksAreTaken'
  BY DEF Base, TasksAreTaken, Reboot, NoHelper, NoWorker, disk
<1>3. ResultsStand'
  BY DEF Base, ResultsStand, Reboot, NoHelper, NoWorker, disk
<1>4. StoppedIsDown'
  BY DEF Base, StoppedIsDown, Drained, Reboot, NoHelper, NoWorker, disk
<1>5. RemovedIsDown'
  BY DEF Base, RemovedIsDown, Reboot, NoHelper, NoWorker, disk
<1>6. Numbered'
  BY DEF Base, Numbered, Stopping, Reboot, NoHelper, NoWorker, disk
<1> QED  BY <1>1, <1>2, <1>3, <1>4, <1>5, <1>6 DEF Base

LEMMA SaveStoppingBase == ASSUME Base, SaveStopping PROVE Base'
<1>1. TypeOK'
  BY SaveStoppingType DEF Base
<1>2. /\ helper.at = "checked" /\ helper.task \in Uninstalls
      /\ UNCHANGED <<journal, unit, daemon, wanted, ready, exit, traffic, outbox, worker>>
  BY DEF SaveStopping, At, process, usage, Base, TypeOK, HelperType
<1>3. /\ helper'.at = "stopping" /\ helper'.task = helper.task
      /\ helper'.ready = helper.ready /\ helper'.result = helper.result
  BY Moved DEF SaveStopping, Base
<1>4. plan'.task \in {plan.task, helper.task}
  BY <1>2, KeptPlan DEF SaveStopping, Phases, Base
<1>5. TasksAreTaken'
  BY <1>2, <1>3, <1>4 DEF Base, TasksAreTaken
<1>6. ResultsStand'
  BY <1>2, <1>3, <1>4 DEF Base, ResultsStand
<1>7. StoppedIsDown'
  BY <1>2, <1>3, <1>4 DEF Base, StoppedIsDown, Drained
<1>8. RemovedIsDown'
  BY <1>2, <1>3, <1>4 DEF Base, RemovedIsDown
<1>9. Numbered'
  BY <1>2, <1>3, <1>4 DEF Base, Numbered, Stopping
<1> QED  BY <1>1, <1>5, <1>6, <1>7, <1>8, <1>9 DEF Base

LEMMA SaveDrainingBase == ASSUME Base, SaveDraining PROVE Base'
<1>1. TypeOK'
  BY SaveDrainingType DEF Base
<1>2. /\ helper.at = "stopped" /\ helper.task \in Uninstalls
      /\ UNCHANGED <<journal, unit, daemon, wanted, ready, exit, traffic, outbox, worker>>
  BY DEF SaveDraining, At, process, usage, Base, TypeOK, HelperType
<1>3. /\ helper'.at = "draining" /\ helper'.task = helper.task
      /\ helper'.ready = helper.ready /\ helper'.result = helper.result
  BY Moved DEF SaveDraining, Base
<1>4. plan'.task \in {plan.task, helper.task}
  BY <1>2, KeptPlan DEF SaveDraining, Phases, Base
<1>5. TasksAreTaken'
  BY <1>2, <1>3, <1>4 DEF Base, TasksAreTaken
<1>6. ResultsStand'
  BY <1>2, <1>3, <1>4 DEF Base, ResultsStand
<1>7. StoppedIsDown'
  BY <1>2, <1>3, <1>4 DEF Base, StoppedIsDown, Drained
<1>8. RemovedIsDown'
  BY <1>2, <1>3, <1>4 DEF Base, RemovedIsDown
<1>9. Numbered'
  BY <1>2, <1>3, <1>4 DEF Base, Numbered, Stopping
<1> QED  BY <1>1, <1>5, <1>6, <1>7, <1>8, <1>9 DEF Base

LEMMA SaveRemovingBase == ASSUME Base, SaveRemoving PROVE Base'
<1>1. TypeOK'
  BY SaveRemovingType DEF Base
<1>2. /\ helper.at = "drained" /\ helper.task \in Uninstalls
      /\ UNCHANGED <<journal, unit, daemon, wanted, ready, exit, traffic, outbox, worker>>
  BY DEF SaveRemoving, At, process, usage, Base, TypeOK, HelperType
<1>3. /\ helper'.at = "removing" /\ helper'.task = helper.task
      /\ helper'.ready = helper.ready /\ helper'.result = helper.result
  BY Moved DEF SaveRemoving, Base
<1>4. plan'.task \in {plan.task, helper.task}
  BY <1>2, KeptPlan DEF SaveRemoving, Phases, Base
<1>5. TasksAreTaken'
  BY <1>2, <1>3, <1>4 DEF Base, TasksAreTaken
<1>6. ResultsStand'
  BY <1>2, <1>3, <1>4 DEF Base, ResultsStand
<1>7. StoppedIsDown'
  BY <1>2, <1>3, <1>4 DEF Base, StoppedIsDown, Drained
<1>8. RemovedIsDown'
  BY <1>2, <1>3, <1>4 DEF Base, RemovedIsDown
<1>9. Numbered'
  BY <1>2, <1>3, <1>4 DEF Base, Numbered, Stopping
<1> QED  BY <1>1, <1>5, <1>6, <1>7, <1>8, <1>9 DEF Base

LEMMA SavePendingBase == ASSUME Base, SavePending PROVE Base'
<1>1. TypeOK'
  BY SavePendingType DEF Base
<1>2. /\ helper.at = "decided" /\ helper.task \in Uninstalls
      /\ UNCHANGED <<journal, unit, daemon, wanted, ready, exit, traffic, outbox, worker>>
  BY DEF SavePending, At, process, usage, Base, TypeOK, HelperType
<1>3. /\ helper'.at = "reporting" /\ helper'.task = helper.task
      /\ helper'.ready = helper.ready /\ helper'.result = helper.result
  BY Moved DEF SavePending, Base
<1>4. plan'.task \in {plan.task, helper.task}
  BY <1>2, KeptPlan DEF SavePending, Phases, Base
<1>5. TasksAreTaken'
  BY <1>2, <1>3, <1>4 DEF Base, TasksAreTaken
<1>6. ResultsStand'
  BY <1>2, <1>3, <1>4 DEF Base, ResultsStand
<1>7. StoppedIsDown'
  BY <1>2, <1>3, <1>4 DEF Base, StoppedIsDown, Drained
<1>8. RemovedIsDown'
  BY <1>2, <1>3, <1>4 DEF Base, RemovedIsDown
<1>9. Numbered'
  BY <1>2, <1>3, <1>4 DEF Base, Numbered, Stopping
<1> QED  BY <1>1, <1>5, <1>6, <1>7, <1>8, <1>9 DEF Base

LEMMA AcknowledgedBase == ASSUME Base, Acknowledged PROVE Base'
<1>1. TypeOK'
  BY AcknowledgedType DEF Base
<1>2. /\ helper.at = "reporting" /\ helper.task \in Uninstalls
      /\ UNCHANGED <<journal, unit, daemon, wanted, ready, exit, traffic, outbox, worker>>
  BY DEF Acknowledged, At, process, usage, Base, TypeOK, HelperType
<1>3. /\ helper'.at = "cleaning" /\ helper'.task = helper.task
      \/ helper'.at = "gone"
  BY Moved DEF Acknowledged, Base, NoHelper
<1>4. plan'.task \in {plan.task, helper.task}
  BY <1>2, KeptPlan DEF Acknowledged, Phases, Base
<1>5. TasksAreTaken'
  BY <1>2, <1>3, <1>4 DEF Base, TasksAreTaken
<1>6. ResultsStand'
  BY <1>2, <1>3, <1>4 DEF Base, ResultsStand
<1>7. StoppedIsDown'
  BY <1>2, <1>3, <1>4 DEF Base, StoppedIsDown, Drained
<1>8. RemovedIsDown'
  BY <1>2, <1>3, <1>4 DEF Base, RemovedIsDown
<1>9. Numbered'
  BY <1>2, <1>3, <1>4 DEF Base, Numbered, Stopping
<1> QED  BY <1>1, <1>5, <1>6, <1>7, <1>8, <1>9 DEF Base

LEMMA CleanupBase == ASSUME Base, Cleanup PROVE Base'
<1>1. TypeOK'
  BY CleanupType DEF Base
<1>2. /\ helper.at \in {"cleaning", "clearing"}
      /\ UNCHANGED <<journal, plan, unit, daemon, wanted, ready, exit, traffic, outbox, worker>>
  BY DEF Cleanup, At, process, usage
<1>3. \/ helper'.at = "clearing" /\ helper'.task = helper.task
      \/ helper'.at = "gone"
  BY Moved DEF Cleanup, Base, NoHelper
<1>4. TasksAreTaken'
  BY <1>2, <1>3 DEF Base, TasksAreTaken
<1>5. ResultsStand'
  BY <1>2, <1>3 DEF Base, ResultsStand
<1>6. StoppedIsDown'
  BY <1>2, <1>3 DEF Base, StoppedIsDown, Drained
<1>7. RemovedIsDown'
  BY <1>2, <1>3 DEF Base, RemovedIsDown
<1>8. Numbered'
  BY <1>2, <1>3 DEF Base, Numbered, Stopping
<1> QED  BY <1>1, <1>4, <1>5, <1>6, <1>7, <1>8 DEF Base

LEMMA CheckProcessBase == ASSUME Base, CheckProcess PROVE Base'
<1>1. TypeOK'
  BY CheckProcessType DEF Base
<1>2. /\ helper.at = "stopping"
      /\ UNCHANGED <<journal, plan, unit, daemon, wanted, ready, exit, traffic, outbox, worker>>
  BY DEF CheckProcess, At, process, usage, disk
<1>3. /\ helper'.task = helper.task /\ helper'.ready = helper.ready
      /\ \/ helper'.at = "halting"
         \/ helper'.at = "finish" /\ helper'.result = "failed"
  BY Moved DEF CheckProcess, Base
<1>4. TasksAreTaken'
  BY <1>2, <1>3 DEF Base, TasksAreTaken
<1>5. ResultsStand'
  BY <1>2, <1>3 DEF Base, ResultsStand
<1>6. StoppedIsDown'
  BY <1>2, <1>3 DEF Base, StoppedIsDown, Drained
<1>7. RemovedIsDown'
  BY <1>2, <1>3 DEF Base, RemovedIsDown
<1>8. Numbered'
  BY <1>2, <1>3 DEF Base, Numbered, Stopping
<1> QED  BY <1>1, <1>4, <1>5, <1>6, <1>7, <1>8 DEF Base

LEMMA DrainBase == ASSUME Base, Drain PROVE Base'
<1>1. TypeOK'
  BY DrainType DEF Base
<1>2. /\ helper.at = "draining" /\ (outbox' = outbox \/ outbox' = FALSE)
      /\ UNCHANGED <<journal, plan, unit, daemon, wanted, ready, exit, traffic, worker>>
  BY DEF Drain, At, process, disk
<1>3. /\ helper'.task = helper.task /\ helper'.ready = helper.ready
      /\ \/ helper'.at = "drained" /\ outbox' = FALSE
         \/ helper'.at = "finish" /\ helper'.result = "failed"
  BY Moved DEF Drain, Base
<1>4. TasksAreTaken'
  BY <1>2, <1>3 DEF Base, TasksAreTaken
<1>5. ResultsStand'
  BY <1>2, <1>3 DEF Base, ResultsStand
<1>6. StoppedIsDown'
  BY <1>2, <1>3 DEF Base, StoppedIsDown, Drained
<1>7. RemovedIsDown'
  BY <1>2, <1>3 DEF Base, RemovedIsDown
<1>8. Numbered'
  BY <1>2, <1>3 DEF Base, Numbered, Stopping
<1> QED  BY <1>1, <1>4, <1>5, <1>6, <1>7, <1>8 DEF Base

LEMMA RemoveServiceBase == ASSUME Base, RemoveService PROVE Base'
<1>1. TypeOK'
  BY RemoveServiceType DEF Base
<1>2. /\ helper.at \in {"removing", "unlinking"} /\ unit' \in {unit, "disabled", "removed"}
      /\ unit = "removed" => unit' = "removed"
      /\ UNCHANGED <<journal, plan, daemon, wanted, ready, exit, traffic, outbox, worker>>
  BY DEF RemoveService, At, process, usage
<1>3. /\ helper'.task = helper.task /\ helper'.ready = helper.ready
      /\ \/ helper'.at = "unlinking"
         \/ helper'.at = "finish" /\ helper'.result = "failed"
         \/ helper'.at = "finish" /\ helper'.result = "succeeded" /\ unit' = "removed"
  BY Moved DEF RemoveService, Base
<1>4. TasksAreTaken'
  BY <1>2, <1>3 DEF Base, TasksAreTaken
<1>5. ResultsStand'
  BY <1>2, <1>3 DEF Base, ResultsStand
<1>6. StoppedIsDown'
  BY <1>2, <1>3 DEF Base, StoppedIsDown, Drained
<1>7. RemovedIsDown'
  BY <1>2, <1>3 DEF Base, RemovedIsDown, StoppedIsDown, Drained
<1>8. Numbered'
  BY <1>2, <1>3 DEF Base, Numbered, Stopping
<1> QED  BY <1>1, <1>4, <1>5, <1>6, <1>7, <1>8 DEF Base

LEMMA CollectBase == ASSUME Base, Collect PROVE Base'
<1>1. TypeOK'
  BY CollectType DEF Base
<1>2. /\ daemon.at \in {"up", "online"} /\ traffic' = FALSE
      /\ UNCHANGED <<journal, plan, unit, daemon, wanted, ready, exit, worker, helper>>
  BY DEF Collect, WasReady, process, disk, service
<1>3. TasksAreTaken'
  BY <1>2 DEF Base, TasksAreTaken
<1>4. ResultsStand'
  BY <1>2 DEF Base, ResultsStand
<1>5. StoppedIsDown'
  BY <1>2 DEF Base, StoppedIsDown, Drained
<1>6. RemovedIsDown'
  BY <1>2 DEF Base, RemovedIsDown
<1>7. Numbered'
  BY <1>2 DEF Base, Numbered, Stopping
<1> QED  BY <1>1, <1>3, <1>4, <1>5, <1>6, <1>7 DEF Base

LEMMA StartDaemonBase == ASSUME Base, StartDaemon PROVE Base'
<1>1. TypeOK'
  BY StartDaemonType DEF Base
<1>2. /\ wanted /\ unit # "removed" /\ daemon.at = "down"
      /\ daemon'.at = "main" /\ daemon'.pid = ready + 1
      /\ UNCHANGED <<journal, plan, unit, wanted, ready, exit, traffic, outbox, worker, helper>>
  BY DEF StartDaemon, usage, disk, service
<1>3. ready \in Nat \ {0} /\ exit.pid \in Nat /\ helper.ready \in Nat
  BY DEF Base, TypeOK, ProcessType, HelperType
<1>4. TasksAreTaken'
  BY <1>2, <1>3 DEF Base, TasksAreTaken
<1>5. ResultsStand'
  BY <1>2, <1>3 DEF Base, ResultsStand
<1>6. StoppedIsDown'
  BY <1>2, <1>3 DEF Base, StoppedIsDown, Drained
<1>7. RemovedIsDown'
  BY <1>2, <1>3 DEF Base, RemovedIsDown
<1>8. Numbered'
  BY <1>2, <1>3 DEF Base, Numbered, Stopping
<1> QED  BY <1>1, <1>4, <1>5, <1>6, <1>7, <1>8 DEF Base

LEMMA BecomeReadyBase == ASSUME Base, BecomeReady PROVE Base'
<1>1. TypeOK'
  BY BecomeReadyType DEF Base, Numbered
<1>2. /\ daemon.at = "main" /\ daemon.pid = ready + 1 /\ daemon'.at = "up" /\ daemon'.pid = ready'
      /\ ready' = ready + 1
      /\ UNCHANGED <<journal, plan, unit, wanted, exit, traffic, outbox, worker, helper>>
  BY DEF BecomeReady, usage, disk, service, Base, TypeOK, ProcessType, Numbered
<1>3. ready \in Nat \ {0} /\ exit.pid \in Nat /\ helper.ready \in Nat
  BY DEF Base, TypeOK, ProcessType, HelperType
<1>4. TasksAreTaken'
  BY <1>2, <1>3 DEF Base, TasksAreTaken
<1>5. ResultsStand'
  BY <1>2, <1>3 DEF Base, ResultsStand
<1>6. StoppedIsDown'
  BY <1>2, <1>3 DEF Base, StoppedIsDown, Drained
<1>7. RemovedIsDown'
  BY <1>2, <1>3 DEF Base, RemovedIsDown
<1>8. Numbered'
  BY <1>2, <1>3 DEF Base, Numbered, Stopping
<1> QED  BY <1>1, <1>4, <1>5, <1>6, <1>7, <1>8 DEF Base

LEMMA CrashBase == ASSUME Base, Crash PROVE Base'
<1>1. TypeOK'
  BY CrashType DEF Base
<1>2. /\ daemon.at # "down" /\ daemon'.at = "down" /\ daemon'.pid = daemon.pid
      /\ daemon.at \in {"main", "up", "online"}
      /\ traffic' = FALSE /\ worker'.at = "idle"
      /\ UNCHANGED <<journal, plan, unit, wanted, ready, exit, outbox, helper>>
  BY DEF Crash, NoWorker, disk, service, Base, TypeOK, ProcessType
<1>3. TasksAreTaken'
  BY <1>2 DEF Base, TasksAreTaken
<1>4. ResultsStand'
  BY <1>2 DEF Base, ResultsStand
<1>5. StoppedIsDown'
  BY <1>2 DEF Base, StoppedIsDown, Drained
<1>6. RemovedIsDown'
  BY <1>2 DEF Base, RemovedIsDown
<1>7. Numbered'
  BY <1>2 DEF Base, Numbered, Stopping
<1> QED  BY <1>1, <1>3, <1>4, <1>5, <1>6, <1>7 DEF Base

LEMMA TakeTaskBase == ASSUME Base, NEW t \in Uninstalls, TakeTask(t) PROVE Base'
<1>1. TypeOK'
  BY TakeTaskType DEF Base
<1>2. /\ daemon.at = "online"
      /\ worker' = worker \/ (worker'.task = t /\ journal'[t].status # "none")
      /\ UNCHANGED <<plan, unit, daemon, wanted, ready, exit, traffic, outbox, helper>>
  <2>1. CASE Terminal(journal[t]) \/ HandedOver(plan, t)
    <3>1. worker' = worker
      BY <2>1 DEF TakeTask
    <3> QED  BY <3>1 DEF TakeTask, process, usage, service
  <2>2. CASE ~(Terminal(journal[t]) \/ HandedOver(plan, t))
    <3>1. worker'.task = t
      BY <2>2 DEF TakeTask
    <3>2. journal'[t].status # "none"
      BY <2>2, TakenTask DEF Base
    <3> QED  BY <3>1, <3>2 DEF TakeTask, process, usage, service
  <2> QED  BY <2>1, <2>2
<1>3. /\ JournalGrows
      /\ \A u \in Uninstalls : journal'[u].status = "succeeded" => journal[u].status = "succeeded"
  BY TakenTask DEF Base, JournalGrows
<1>4. plan.task \in {0} \cup Uninstalls /\ (worker.at # "idle" => worker.task \in Uninstalls)
      /\ (helper.at \notin {"gone", "loading"} => helper.task \in Uninstalls)
  BY DEF Base, TypeOK, DiskType, Plans, NoPlan, WorkerType, HelperType
<1>5. TasksAreTaken'
  BY <1>2, <1>3, <1>4 DEF Base, TasksAreTaken, Terminal, JournalGrows
<1>6. ResultsStand'
  BY <1>2, <1>3, <1>4 DEF Base, ResultsStand, Terminal, JournalGrows
<1>7. StoppedIsDown'
  BY <1>2, <1>3, <1>4 DEF Base, StoppedIsDown, Drained, Terminal, JournalGrows
<1>8. RemovedIsDown'
  BY <1>2, <1>3, <1>4 DEF Base, RemovedIsDown, Terminal, JournalGrows
<1>9. Numbered'
  BY <1>2, <1>3, <1>4 DEF Base, Numbered, Stopping, Terminal, JournalGrows
<1> QED  BY <1>1, <1>5, <1>6, <1>7, <1>8, <1>9 DEF Base

LEMMA RefuseBase == ASSUME Base, Refuse PROVE Base'
<1>1. TypeOK'
  BY RefuseType DEF Base
<1>2. /\ worker'.at = "idle"
      /\ UNCHANGED <<plan, unit, daemon, wanted, ready, exit, traffic, outbox, helper>>
  BY DEF Refuse, NoWorker, process, usage, service
<1>3. /\ JournalGrows
      /\ \A u \in Uninstalls : journal'[u].status = "succeeded" => journal[u].status = "succeeded"
  BY RecordedResult DEF Refuse, Base, TypeOK, WorkerType, JournalGrows, Terminal
<1>4. plan.task \in {0} \cup Uninstalls /\ (worker.at # "idle" => worker.task \in Uninstalls)
      /\ (helper.at \notin {"gone", "loading"} => helper.task \in Uninstalls)
  BY DEF Base, TypeOK, DiskType, Plans, NoPlan, WorkerType, HelperType
<1>5. TasksAreTaken'
  BY <1>2, <1>3, <1>4 DEF Base, TasksAreTaken, Terminal, JournalGrows
<1>6. ResultsStand'
  BY <1>2, <1>3, <1>4 DEF Base, ResultsStand, Terminal, JournalGrows
<1>7. StoppedIsDown'
  BY <1>2, <1>3, <1>4 DEF Base, StoppedIsDown, Drained, Terminal, JournalGrows
<1>8. RemovedIsDown'
  BY <1>2, <1>3, <1>4 DEF Base, RemovedIsDown, Terminal, JournalGrows
<1>9. Numbered'
  BY <1>2, <1>3, <1>4 DEF Base, Numbered, Stopping, Terminal, JournalGrows
<1> QED  BY <1>1, <1>5, <1>6, <1>7, <1>8, <1>9 DEF Base

LEMMA DaemonReportsBase == ASSUME Base, NEW t \in Uninstalls, DaemonReports(t) PROVE Base'
<1>1. TypeOK'
  BY DaemonReportsType DEF Base
<1>2. UNCHANGED <<plan, unit, daemon, wanted, ready, exit, traffic, outbox, worker, helper>>
  BY DEF DaemonReports, process, usage, service
<1>3. \A u \in Uninstalls : journal'[u].status = journal[u].status
  BY ReportMade DEF DaemonReports, Unacknowledged, Base
<1>4. plan.task \in {0} \cup Uninstalls /\ (worker.at # "idle" => worker.task \in Uninstalls)
      /\ (helper.at \notin {"gone", "loading"} => helper.task \in Uninstalls)
  BY DEF Base, TypeOK, DiskType, Plans, NoPlan, WorkerType, HelperType
<1>5. TasksAreTaken'
  BY <1>2, <1>3, <1>4 DEF Base, TasksAreTaken
<1>6. ResultsStand'
  BY <1>2, <1>3, <1>4 DEF Base, ResultsStand, Terminal
<1>7. StoppedIsDown'
  BY <1>2, <1>3, <1>4 DEF Base, StoppedIsDown, Drained
<1>8. RemovedIsDown'
  BY <1>2, <1>3, <1>4 DEF Base, RemovedIsDown
<1>9. Numbered'
  BY <1>2, <1>3, <1>4 DEF Base, Numbered, Stopping
<1> QED  BY <1>1, <1>5, <1>6, <1>7, <1>8, <1>9 DEF Base

LEMMA HelperReportsBase == ASSUME Base, HelperReports PROVE Base'
<1>1. TypeOK'
  BY HelperReportsType DEF Base, ResultsStand, HelperReports, At
<1>2. UNCHANGED <<plan, unit, daemon, wanted, ready, exit, traffic, outbox, worker, helper>>
  BY DEF HelperReports, process, usage, service
<1>3. \A u \in Uninstalls : journal'[u].status = journal[u].status
  BY ReportMade DEF HelperReports, At, Base, ResultsStand, TypeOK, HelperType
<1>4. plan.task \in {0} \cup Uninstalls /\ (worker.at # "idle" => worker.task \in Uninstalls)
      /\ (helper.at \notin {"gone", "loading"} => helper.task \in Uninstalls)
  BY DEF Base, TypeOK, DiskType, Plans, NoPlan, WorkerType, HelperType
<1>5. TasksAreTaken'
  BY <1>2, <1>3, <1>4 DEF Base, TasksAreTaken
<1>6. ResultsStand'
  BY <1>2, <1>3, <1>4 DEF Base, ResultsStand, Terminal
<1>7. StoppedIsDown'
  BY <1>2, <1>3, <1>4 DEF Base, StoppedIsDown, Drained
<1>8. RemovedIsDown'
  BY <1>2, <1>3, <1>4 DEF Base, RemovedIsDown
<1>9. Numbered'
  BY <1>2, <1>3, <1>4 DEF Base, Numbered, Stopping
<1> QED  BY <1>1, <1>5, <1>6, <1>7, <1>8, <1>9 DEF Base

LEMMA GiveUpBase == ASSUME Base, GiveUp PROVE Base'
<1>1. TypeOK'
  BY GiveUpType DEF Base, ResultsStand, GiveUp, At
<1>2. /\ helper'.at = "gone" /\ helper.task \in Uninstalls
      /\ journal[helper.task].status = "failed"
      /\ UNCHANGED <<unit, daemon, wanted, ready, exit, traffic, outbox, worker>>
  BY DEF GiveUp, At, NoHelper, process, usage, Base, ResultsStand, TypeOK, HelperType
<1>3. \A u \in Uninstalls : journal'[u].status = journal[u].status
  BY <1>2, GiveUpType, AcknowledgedTask DEF Base
<1>4. plan'.task \in {plan.task, helper.task}
  BY <1>2, KeptPlan DEF GiveUp, Phases, Base
<1>5. plan.task \in {0} \cup Uninstalls /\ (worker.at # "idle" => worker.task \in Uninstalls)
      /\ (helper.at \notin {"gone", "loading"} => helper.task \in Uninstalls)
  BY DEF Base, TypeOK, DiskType, Plans, NoPlan, WorkerType, HelperType
<1>6. TasksAreTaken'
  BY <1>2, <1>3, <1>4, <1>5 DEF Base, TasksAreTaken
<1>7. ResultsStand'
  BY <1>2, <1>3, <1>4, <1>5 DEF Base, ResultsStand, Terminal
<1>8. StoppedIsDown'
  BY <1>2, <1>3, <1>4, <1>5 DEF Base, StoppedIsDown, Drained
<1>9. RemovedIsDown'
  BY <1>2, <1>3, <1>4, <1>5 DEF Base, RemovedIsDown
<1>10. Numbered'
  BY <1>2, <1>3, <1>4, <1>5 DEF Base, Numbered, Stopping
<1> QED  BY <1>1, <1>6, <1>7, <1>8, <1>9, <1>10 DEF Base

LEMMA RecordBase == ASSUME Base, Record PROVE Base'
<1>1. TypeOK'
  BY RecordType DEF Base, ResultsStand, Record, At
<1>2. /\ helper.at = "finish" /\ helper.task \in Uninstalls
      /\ helper.result \in {"succeeded", "failed"}
      /\ helper'.at = "decided" /\ helper'.task = helper.task /\ helper'.result = helper.result
      /\ UNCHANGED <<plan, unit, daemon, wanted, ready, exit, traffic, outbox, worker>>
  BY Moved DEF Record, At, process, usage, Base, ResultsStand, TypeOK, HelperType
<1>3. /\ JournalGrows /\ Terminal(journal'[helper.task])
      /\ \A u \in Uninstalls : journal'[u].status = "succeeded" =>
             \/ journal[u].status = "succeeded"
             \/ helper.result = "succeeded"
  BY <1>2, RecordedResult DEF Record, Base, JournalGrows, Terminal
<1>4. plan.task \in {0} \cup Uninstalls /\ (worker.at # "idle" => worker.task \in Uninstalls)
      /\ (helper.at \notin {"gone", "loading"} => helper.task \in Uninstalls)
  BY DEF Base, TypeOK, DiskType, Plans, NoPlan, WorkerType, HelperType
<1>5. TasksAreTaken'
  BY <1>2, <1>3, <1>4 DEF Base, TasksAreTaken, Terminal, JournalGrows
<1>6. ResultsStand'
  BY <1>2, <1>3, <1>4 DEF Base, ResultsStand, Terminal, JournalGrows
<1>7. StoppedIsDown'
  BY <1>2, <1>3, <1>4 DEF Base, StoppedIsDown, Drained, Terminal, JournalGrows
<1>8. RemovedIsDown'
  BY <1>2, <1>3, <1>4 DEF Base, RemovedIsDown, Terminal, JournalGrows
<1>9. Numbered'
  BY <1>2, <1>3, <1>4 DEF Base, Numbered, Stopping, Terminal, JournalGrows
<1> QED  BY <1>1, <1>5, <1>6, <1>7, <1>8, <1>9 DEF Base

\* The fields of the helper that has loaded the plan
LEMMA LoadedAt ==
  ASSUME TypeOK, TasksAreTaken, Load
  PROVE  \/ helper'.at = "gone"
         \/ /\ helper'.task = plan.task /\ plan.task \in Uninstalls
            /\ \/ helper'.at = "cleaning" /\ plan.phase = "acknowledged"
               \/ /\ HandedOver(plan, plan.task)
                  /\ \/ helper'.at = "giving_up" /\ journal[plan.task].status = "failed"
                     \/ /\ helper'.at = "finish" /\ helper'.result = "succeeded"
                        /\ journal[plan.task].status = "succeeded"
                     \/ /\ helper'.at = "checked" /\ helper'.ready = ready
                        /\ journal[plan.task].status = "running"
<1>1. helper \in [at : HelperAts, task : {0} \cup Uninstalls, ready : Nat,
                  result : {"none", "succeeded", "failed"}]
  BY DEF TypeOK, HelperType
<1>2. CASE helper' = NoHelper
  BY <1>2 DEF NoHelper
<1>3. CASE /\ helper' = [helper EXCEPT !.task = plan.task, !.at = "cleaning"]
           /\ plan.task \in Uninstalls /\ plan.phase = "acknowledged"
  BY <1>1, <1>3
<1>4. CASE /\ helper' = [helper EXCEPT !.task = plan.task, !.at = "giving_up"]
           /\ plan.task \in Uninstalls /\ journal[plan.task].status = "failed"
           /\ HandedOver(plan, plan.task)
  BY <1>1, <1>4
<1>5. CASE /\ helper' = [helper EXCEPT !.task = plan.task, !.at = "finish", !.result = "succeeded"]
           /\ plan.task \in Uninstalls /\ journal[plan.task].status = "succeeded"
           /\ HandedOver(plan, plan.task)
  BY <1>1, <1>5
<1>6. CASE /\ helper' = [helper EXCEPT !.task = plan.task, !.at = "checked", !.ready = ready]
           /\ plan.task \in Uninstalls /\ journal[plan.task].status = "running"
           /\ HandedOver(plan, plan.task)
  BY <1>1, <1>6
<1> QED  BY <1>2, <1>3, <1>4, <1>5, <1>6, Loaded

LEMMA LoadBase == ASSUME Base, Load PROVE Base'
<1>1. TypeOK'
  BY LoadType DEF Base
<1>2. UNCHANGED <<journal, plan, unit, daemon, wanted, ready, exit, traffic, outbox, worker>>
  BY DEF Load, process, usage, disk
<1>3. \/ helper'.at = "gone"
      \/ /\ helper'.task = plan.task /\ plan.task \in Uninstalls
         /\ \/ helper'.at = "cleaning"
            \/ helper'.at = "giving_up" /\ journal[plan.task].status = "failed"
            \/ /\ helper'.at = "finish" /\ helper'.result = "succeeded"
               /\ journal[plan.task].status = "succeeded"
            \/ helper'.at = "checked" /\ helper'.ready = ready
  BY LoadedAt DEF Base
<1>4. ready \in Nat
  BY DEF Base, TypeOK, ProcessType
<1>5. plan.task \in {0} \cup Uninstalls /\ (worker.at # "idle" => worker.task \in Uninstalls)
      /\ (helper.at \notin {"gone", "loading"} => helper.task \in Uninstalls)
  BY DEF Base, TypeOK, DiskType, Plans, NoPlan, WorkerType, HelperType
<1>6. TasksAreTaken'
  BY <1>2, <1>3, <1>4, <1>5, NoTaskZero DEF Base, TasksAreTaken
<1>7. ResultsStand'
  BY <1>2, <1>3, <1>4, <1>5 DEF Base, ResultsStand, Terminal
<1>8. StoppedIsDown'
  BY <1>2, <1>3, <1>4, <1>5 DEF Base, StoppedIsDown, Drained
<1>9. RemovedIsDown'
  BY <1>2, <1>3, <1>4, <1>5 DEF Base, RemovedIsDown
<1>10. Numbered'
  BY <1>2, <1>3, <1>4, <1>5 DEF Base, Numbered, Stopping
<1> QED  BY <1>1, <1>6, <1>7, <1>8, <1>9, <1>10 DEF Base

LEMMA StopDaemonBase == ASSUME Base, Halt, StopDaemon PROVE Base'
<1>1. TypeOK'
  BY HaltType DEF Base
<1>2. /\ helper.at = "halting" /\ wanted' = FALSE /\ daemon'.at = "down" /\ daemon'.pid = daemon.pid
      /\ worker'.at = "idle" /\ UNCHANGED <<journal, plan, unit, ready>>
  BY Halted DEF Base, disk, NoWorker
<1>3. /\ helper'.task = helper.task
      /\ \/ helper'.at = "stopped"
         \/ helper'.at = "finish" /\ helper'.result = "failed"
  BY HaltMoves DEF Base
<1>4. daemon.at = "down" => UNCHANGED <<exit, traffic, outbox>>
  BY Halted DEF Base
<1>5. daemon.at # "down" => /\ traffic' = FALSE
                            /\ exit' = exit \/ (exit'.pid = daemon.pid /\ WasReady)
  <2>1. daemon.at # "down" =>
          /\ traffic' = FALSE
          /\ exit' = exit \/ exit' = [pid |-> daemon.pid, clean |-> settled']
          /\ ~WasReady => exit' = exit
    BY Halted DEF Base
  <2> QED  BY <2>1
<1>6. /\ ready \in Nat /\ exit.pid \in Nat /\ daemon.pid \in Nat
      /\ daemon.at \in {"down", "main", "up", "online"}
  BY DEF Base, TypeOK, ProcessType
<1>7. TasksAreTaken'
  BY <1>2, <1>3, <1>4, <1>5, <1>6 DEF Base, TasksAreTaken, WasReady
<1>8. ResultsStand'
  BY <1>2, <1>3, <1>4, <1>5, <1>6 DEF Base, ResultsStand, WasReady
<1>9. StoppedIsDown'
  BY <1>2, <1>3, <1>4, <1>5, <1>6 DEF Base, StoppedIsDown, Drained, WasReady
<1>10. RemovedIsDown'
  BY <1>2, <1>3, <1>4, <1>5, <1>6 DEF Base, RemovedIsDown, WasReady
<1>11. Numbered'
  BY <1>2, <1>3, <1>4, <1>5, <1>6 DEF Base, Numbered, Stopping, WasReady
<1> QED  BY <1>1, <1>7, <1>8, <1>9, <1>10, <1>11 DEF Base

LEMMA StopFailsBase == ASSUME Base, Halt, StopFails PROVE Base'
<1>1. TypeOK'
  BY HaltType DEF Base
<1>2. /\ helper.at = "halting" /\ helper'.at = "finish" /\ helper'.result = "failed"
      /\ helper'.task = helper.task
      /\ UNCHANGED <<journal, plan, unit, daemon, wanted, ready, exit, traffic, outbox, worker>>
  BY StopFailed DEF Base, disk, process, usage
<1>3. TasksAreTaken'
  BY <1>2 DEF Base, TasksAreTaken
<1>4. ResultsStand'
  BY <1>2 DEF Base, ResultsStand
<1>5. StoppedIsDown'
  BY <1>2 DEF Base, StoppedIsDown, Drained
<1>6. RemovedIsDown'
  BY <1>2 DEF Base, RemovedIsDown
<1>7. Numbered'
  BY <1>2 DEF Base, Numbered, Stopping
<1> QED  BY <1>1, <1>3, <1>4, <1>5, <1>6, <1>7 DEF Base

LEMMA HaltBase == ASSUME Base, Halt PROVE Base'
BY StopDaemonBase, StopFailsBase DEF Halt

LEMMA SavePlanBase == ASSUME Base, SavePlan PROVE Base'
<1>1. TypeOK'
  BY SavePlanType DEF Base
<1>2. /\ worker.at = "checking" /\ worker.task \in Uninstalls
      /\ worker'.at = "handing" /\ worker'.task = worker.task
      /\ UNCHANGED <<journal, unit, daemon, wanted, ready, exit, traffic, outbox, helper>>
  BY DEF SavePlan, process, usage, service, Base, TypeOK, WorkerType
<1>3. plan'.task \in {plan.task, worker.task}
  BY <1>2, SavedPlan DEF SavePlan, Base, TypeOK, DiskType, Plans, Phases
<1>4. TasksAreTaken'
  BY <1>2, <1>3 DEF Base, TasksAreTaken
<1>5. ResultsStand'
  BY <1>2, <1>3 DEF Base, ResultsStand
<1>6. StoppedIsDown'
  BY <1>2, <1>3 DEF Base, StoppedIsDown, Drained
<1>7. RemovedIsDown'
  BY <1>2, <1>3 DEF Base, RemovedIsDown
<1>8. Numbered'
  BY <1>2, <1>3 DEF Base, Numbered, Stopping
<1> QED  BY <1>1, <1>4, <1>5, <1>6, <1>7, <1>8 DEF Base

LEMMA HandOverFailsBase == ASSUME Base, HandOverFails PROVE Base'
<1>1. TypeOK'
  BY HandOverFailsType DEF Base
<1>2. /\ worker.at # "idle" /\ worker'.at # "idle" /\ worker'.task = worker.task
      /\ worker.task \in Uninstalls
      /\ helper' = helper \/ helper'.at \in {"gone", "loading"}
      /\ UNCHANGED <<journal, unit, daemon, wanted, ready, exit, traffic, outbox>>
  BY HandOverFailing DEF process, usage, Base
<1>3. plan'.task \in {plan.task, worker.task}
  BY HandOverFailing DEF Base
<1>4. TasksAreTaken'
  BY <1>2, <1>3 DEF Base, TasksAreTaken
<1>5. ResultsStand'
  BY <1>2, <1>3 DEF Base, ResultsStand
<1>6. StoppedIsDown'
  BY <1>2, <1>3 DEF Base, StoppedIsDown, Drained
<1>7. RemovedIsDown'
  BY <1>2, <1>3 DEF Base, RemovedIsDown
<1>8. Numbered'
  BY <1>2, <1>3 DEF Base, Numbered, Stopping
<1> QED  BY <1>1, <1>4, <1>5, <1>6, <1>7, <1>8 DEF Base

LEMMA InitBase == Init => Base
<1> SUFFICES ASSUME Init PROVE Base
  OBVIOUS
<1>1. PanelType
  BY DEF Init, PanelType, PanelTasks
<1>2. DiskType
  BY DEF Init, DiskType, Rows, Plans
<1>3. ProcessType
  <2>1. /\ exit = [pid |-> 0, clean |-> FALSE] /\ daemon = [at |-> "online", pid |-> 1] /\ ready = 1
        /\ wanted = TRUE /\ settled = FALSE /\ traffic = FALSE /\ outbox = FALSE
    BY DEF Init
  <2>2. exit \in [pid : Nat, clean : BOOLEAN]
    BY <2>1
  <2>3. wanted \in BOOLEAN /\ settled \in BOOLEAN /\ traffic \in BOOLEAN /\ outbox \in BOOLEAN
    BY <2>1, Zenon
  <2> QED  BY <2>1, <2>2, <2>3 DEF ProcessType
<1>4. WorkerType
  BY DEF Init, WorkerType, NoWorker
<1>5. HelperType
  BY DEF Init, HelperType, NoHelper, HelperAts
<1>6. TasksAreTaken /\ ResultsStand /\ StoppedIsDown
  BY DEF Init, TasksAreTaken, ResultsStand, StoppedIsDown, NoPlan, NoWorker, NoHelper, Drained
<1>7. RemovedIsDown
  BY DEF Init, RemovedIsDown, NoHelper
<1>8. Numbered
  BY DEF Init, Numbered, NoHelper, Stopping
<1> QED  BY <1>1, <1>2, <1>3, <1>4, <1>5, <1>6, <1>7, <1>8 DEF Base, TypeOK

LEMMA StepBase == Base /\ [Next]_vars => Base'
<1> SUFFICES ASSUME Base, [Next]_vars PROVE Base'
  OBVIOUS
<1>1. CASE Panel
  BY <1>1, EnqueueBase, TakeTaskBase DEF Panel
<1>2. CASE Worker
  BY <1>2, SavePlanBase, HandOverBase, HandOverFailsBase, RefuseBase DEF Worker
<1>3. CASE Daemon
  BY <1>3, StartDaemonBase, BecomeReadyBase, ConnectBase, DaemonReportsBase, TrafficBase,
     CollectBase, FlushUsageBase DEF Daemon
<1>4. CASE HelperStep
  BY <1>4, LoadBase, GiveUpBase, SaveStoppingBase, CheckProcessBase, HaltBase, SaveDrainingBase,
     DrainBase, SaveRemovingBase, RemoveServiceBase, RecordBase, SavePendingBase,
     HelperReportsBase, AcknowledgedBase, CleanupBase DEF HelperStep
<1>5. CASE Environment
  BY <1>5, RestartHelperBase, KillHelperBase, CrashBase, LoseSessionBase, RebootBase DEF
     Environment
<1>6. CASE UNCHANGED vars
  <2>1. UNCHANGED <<panel, journal, plan, unit, daemon, wanted, ready, exit, traffic, outbox>>
    BY <1>6 DEF vars
  <2>2. UNCHANGED <<worker, rescue, helper, data, settled>>
    BY <1>6 DEF vars
  <2>3. TypeOK'
    BY <2>1, <2>2 DEF Base, TypeOK, PanelType, DiskType, ProcessType, WorkerType, HelperType
  <2>4. TasksAreTaken' /\ ResultsStand' /\ StoppedIsDown' /\ RemovedIsDown' /\ Numbered'
    BY <2>1, <2>2 DEF Base, TasksAreTaken, ResultsStand, StoppedIsDown, RemovedIsDown, Numbered
  <2> QED  BY <2>3, <2>4 DEF Base
<1> QED  BY <1>1, <1>2, <1>3, <1>4, <1>5, <1>6 DEF Next

\* The types, and what the rest of the arguments stands on, whatever goes wrong
THEOREM SpecBase == Spec => []Base
<1> QED  BY InitBase, StepBase, PTL DEF Spec

-----------------------------------------------------------------------------
(***************************************************************************)
(* What the evidence of a stopped daemon is worth                          *)
(***************************************************************************)
Settling == {"stopped", "draining"} \cup Drained

\* Steps of the panel, of the worker and of the helper that touch neither the
\* process nor its evidence
LEMMA EvidenceKept ==
  ASSUME EvidenceIsSettled, UNCHANGED <<daemon, ready, exit, settled, unit>>,
         helper'.at \in Settling => helper.at \in Settling
  PROVE  EvidenceIsSettled'
BY DEF EvidenceIsSettled, Settling

LEMMA EnqueueEvidence ==
  ASSUME Base, EvidenceIsSettled, NEW t \in Uninstalls, Enqueue(t)
  PROVE  EvidenceIsSettled'
<1>1. UNCHANGED <<daemon, ready, exit, settled, unit>> /\ helper' = helper
  BY DEF Enqueue, disk, process, service
<1> QED  BY <1>1, EvidenceKept

LEMMA TakeTaskEvidence ==
  ASSUME Base, EvidenceIsSettled, NEW t \in Uninstalls, TakeTask(t)
  PROVE  EvidenceIsSettled'
<1>1. UNCHANGED <<daemon, ready, exit, settled, unit>> /\ helper' = helper
  BY DEF TakeTask, process, service
<1> QED  BY <1>1, EvidenceKept

LEMMA DaemonReportsEvidence ==
  ASSUME Base, EvidenceIsSettled, NEW t \in Uninstalls, DaemonReports(t)
  PROVE  EvidenceIsSettled'
<1>1. UNCHANGED <<daemon, ready, exit, settled, unit>> /\ helper' = helper
  BY DEF DaemonReports, process, service
<1> QED  BY <1>1, EvidenceKept

LEMMA SavePlanEvidence ==
  ASSUME Base, EvidenceIsSettled, SavePlan
  PROVE  EvidenceIsSettled'
<1>1. UNCHANGED <<daemon, ready, exit, settled, unit>> /\ helper' = helper
  BY DEF SavePlan, process, service
<1> QED  BY <1>1, EvidenceKept

LEMMA HandOverFailsEvidence ==
  ASSUME Base, EvidenceIsSettled, HandOverFails
  PROVE  EvidenceIsSettled'
<1>1. /\ UNCHANGED <<daemon, ready, exit, settled, unit>>
      /\ helper' = helper \/ helper'.at \in {"gone", "loading"}
  BY HandOverFailing DEF process, Base
<1> QED  BY <1>1, EvidenceKept DEF Settling, Drained

LEMMA RefuseEvidence ==
  ASSUME Base, EvidenceIsSettled, Refuse
  PROVE  EvidenceIsSettled'
<1>1. UNCHANGED <<daemon, ready, exit, settled, unit>> /\ helper' = helper
  BY DEF Refuse, process, service
<1> QED  BY <1>1, EvidenceKept

LEMMA TrafficEvidence ==
  ASSUME Base, EvidenceIsSettled, Traffic
  PROVE  EvidenceIsSettled'
<1>1. UNCHANGED <<daemon, ready, exit, settled, unit>> /\ helper' = helper
  BY DEF Traffic, disk, process, service
<1> QED  BY <1>1, EvidenceKept

LEMMA CollectEvidence ==
  ASSUME Base, EvidenceIsSettled, Collect
  PROVE  EvidenceIsSettled'
<1>1. UNCHANGED <<daemon, ready, exit, settled, unit>> /\ helper' = helper
  BY DEF Collect, disk, process, service
<1> QED  BY <1>1, EvidenceKept

LEMMA FlushUsageEvidence ==
  ASSUME Base, EvidenceIsSettled, FlushUsage
  PROVE  EvidenceIsSettled'
<1>1. UNCHANGED <<daemon, ready, exit, settled, unit>> /\ helper' = helper
  BY DEF FlushUsage, disk, process, service
<1> QED  BY <1>1, EvidenceKept

LEMMA HelperReportsEvidence ==
  ASSUME Base, EvidenceIsSettled, HelperReports
  PROVE  EvidenceIsSettled'
<1>1. UNCHANGED <<daemon, ready, exit, settled, unit>> /\ helper' = helper
  BY DEF HelperReports, process, service
<1> QED  BY <1>1, EvidenceKept

LEMMA HandOverEvidence ==
  ASSUME Base, EvidenceIsSettled, HandOver
  PROVE  EvidenceIsSettled'
<1>1. /\ UNCHANGED <<daemon, ready, exit, settled, unit>>
      /\ helper' = helper \/ helper'.at \in {"gone", "loading"}
  BY DEF HandOver, EnableHelper, StartHelper, disk, process, NoHelper
<1> QED  BY <1>1, EvidenceKept DEF Settling, Drained

LEMMA RestartHelperEvidence ==
  ASSUME Base, EvidenceIsSettled, RestartHelper
  PROVE  EvidenceIsSettled'
<1>1. /\ UNCHANGED <<daemon, ready, exit, settled, unit>>
      /\ helper' = helper \/ helper'.at \in {"gone", "loading"}
  BY DEF RestartHelper, disk, process, NoHelper
<1> QED  BY <1>1, EvidenceKept DEF Settling, Drained

LEMMA KillHelperEvidence ==
  ASSUME Base, EvidenceIsSettled, KillHelper
  PROVE  EvidenceIsSettled'
<1>1. /\ UNCHANGED <<daemon, ready, exit, settled, unit>>
      /\ helper' = helper \/ helper'.at \in {"gone", "loading"}
  BY DEF KillHelper, disk, process, NoHelper
<1> QED  BY <1>1, EvidenceKept DEF Settling, Drained

LEMMA GiveUpEvidence ==
  ASSUME Base, EvidenceIsSettled, GiveUp
  PROVE  EvidenceIsSettled'
<1>1. /\ UNCHANGED <<daemon, ready, exit, settled, unit>>
      /\ helper' = helper \/ helper'.at \in {"gone", "loading"}
  BY DEF GiveUp, process, NoHelper
<1> QED  BY <1>1, EvidenceKept DEF Settling, Drained

LEMMA LoadEvidence ==
  ASSUME Base, EvidenceIsSettled, Load
  PROVE  EvidenceIsSettled'
<1>1. UNCHANGED <<daemon, ready, exit, settled, unit>>
  BY DEF Load, disk, process
<1>2. helper'.at \in {"gone", "cleaning", "giving_up", "finish", "checked"}
  BY LoadedAt DEF Base
<1> QED  BY <1>1, <1>2, EvidenceKept DEF Settling, Drained

LEMMA SaveStoppingEvidence ==
  ASSUME Base, EvidenceIsSettled, SaveStopping
  PROVE  EvidenceIsSettled'
<1>1. UNCHANGED <<daemon, ready, exit, settled, unit>>
  BY DEF SaveStopping, process
<1>2. helper'.at \in {"stopping"}
  BY Moved DEF SaveStopping, Base
<1> QED  BY <1>1, <1>2, EvidenceKept DEF Settling, Drained

LEMMA CheckProcessEvidence ==
  ASSUME Base, EvidenceIsSettled, CheckProcess
  PROVE  EvidenceIsSettled'
<1>1. UNCHANGED <<daemon, ready, exit, settled, unit>>
  BY DEF CheckProcess, disk, process
<1>2. helper'.at \in {"halting", "finish"}
  BY Moved DEF CheckProcess, Base
<1> QED  BY <1>1, <1>2, EvidenceKept DEF Settling, Drained

LEMMA DrainEvidence ==
  ASSUME Base, EvidenceIsSettled, Drain
  PROVE  EvidenceIsSettled'
<1>1. UNCHANGED <<daemon, ready, exit, settled, unit>>
  BY DEF Drain, disk, process
<1>2. helper'.at \in {"drained", "finish"}
  BY Moved DEF Drain, Base
<1>3. helper.at = "draining"
  BY DEF Drain, At
<1> QED  BY <1>1, <1>2, <1>3, EvidenceKept DEF Settling, Drained

LEMMA SaveDrainingEvidence ==
  ASSUME Base, EvidenceIsSettled, SaveDraining
  PROVE  EvidenceIsSettled'
<1>1. UNCHANGED <<daemon, ready, exit, settled, unit>>
  BY DEF SaveDraining, process
<1>2. helper'.at \in {"draining"}
  BY Moved DEF SaveDraining, Base
<1>3. helper.at = "stopped"
  BY DEF SaveDraining, At
<1> QED  BY <1>1, <1>2, <1>3, EvidenceKept DEF Settling, Drained

LEMMA SaveRemovingEvidence ==
  ASSUME Base, EvidenceIsSettled, SaveRemoving
  PROVE  EvidenceIsSettled'
<1>1. UNCHANGED <<daemon, ready, exit, settled, unit>>
  BY DEF SaveRemoving, process
<1>2. helper'.at \in {"removing"}
  BY Moved DEF SaveRemoving, Base
<1>3. helper.at = "drained"
  BY DEF SaveRemoving, At
<1> QED  BY <1>1, <1>2, <1>3, EvidenceKept DEF Settling, Drained

LEMMA RecordEvidence ==
  ASSUME Base, EvidenceIsSettled, Record
  PROVE  EvidenceIsSettled'
<1>1. UNCHANGED <<daemon, ready, exit, settled, unit>>
  BY DEF Record, process
<1>2. helper'.at \in {"decided"}
  BY Moved DEF Record, Base
<1> QED  BY <1>1, <1>2, EvidenceKept DEF Settling, Drained

LEMMA SavePendingEvidence ==
  ASSUME Base, EvidenceIsSettled, SavePending
  PROVE  EvidenceIsSettled'
<1>1. UNCHANGED <<daemon, ready, exit, settled, unit>>
  BY DEF SavePending, process
<1>2. helper'.at \in {"reporting"}
  BY Moved DEF SavePending, Base
<1> QED  BY <1>1, <1>2, EvidenceKept DEF Settling, Drained

LEMMA AcknowledgedEvidence ==
  ASSUME Base, EvidenceIsSettled, Acknowledged
  PROVE  EvidenceIsSettled'
<1>1. UNCHANGED <<daemon, ready, exit, settled, unit>>
  BY DEF Acknowledged, process
<1>2. helper'.at \in {"cleaning", "gone"}
  BY Moved DEF Acknowledged, Base, NoHelper
<1> QED  BY <1>1, <1>2, EvidenceKept DEF Settling, Drained

LEMMA CleanupEvidence ==
  ASSUME Base, EvidenceIsSettled, Cleanup
  PROVE  EvidenceIsSettled'
<1>1. UNCHANGED <<daemon, ready, exit, settled, unit>>
  BY DEF Cleanup, process
<1>2. helper'.at \in {"clearing", "gone"}
  BY Moved DEF Cleanup, Base, NoHelper
<1> QED  BY <1>1, <1>2, EvidenceKept DEF Settling, Drained

LEMMA RemoveServiceEvidence ==
  ASSUME Base, EvidenceIsSettled, RemoveService
  PROVE  EvidenceIsSettled'
<1>1. UNCHANGED <<daemon, ready, exit, settled>>
  BY DEF RemoveService, process
<1>2. helper.at \in {"removing", "unlinking"} /\ helper'.at \in {"unlinking", "finish"}
  BY Moved DEF RemoveService, At, Base
<1>3. settled
  BY <1>2 DEF EvidenceIsSettled, Drained
<1> QED  BY <1>1, <1>2, <1>3 DEF EvidenceIsSettled, Drained

LEMMA ConnectEvidence ==
  ASSUME Base, EvidenceIsSettled, Connect
  PROVE  EvidenceIsSettled'
<1>1. daemon'.at # "down" /\ UNCHANGED <<ready, exit, settled, unit, helper>>
  BY DEF Connect, disk, service, Base, TypeOK, ProcessType
<1> QED  BY <1>1 DEF EvidenceIsSettled

LEMMA LoseSessionEvidence ==
  ASSUME Base, EvidenceIsSettled, LoseSession
  PROVE  EvidenceIsSettled'
<1>1. daemon'.at # "down" /\ UNCHANGED <<ready, exit, settled, unit, helper>>
  BY DEF LoseSession, disk, service, Base, TypeOK, ProcessType
<1> QED  BY <1>1 DEF EvidenceIsSettled

\* A new process has not saved anything yet.
LEMMA StartDaemonEvidence ==
  ASSUME Base, EvidenceIsSettled, StartDaemon
  PROVE  EvidenceIsSettled'
<1>1. /\ daemon.at = "down" /\ daemon'.at = "main" /\ wanted /\ unit # "removed"
      /\ UNCHANGED <<unit, helper>>
  BY DEF StartDaemon, disk, service
<1> QED  BY <1>1 DEF EvidenceIsSettled, Base, StoppedIsDown

LEMMA BecomeReadyEvidence ==
  ASSUME Base, EvidenceIsSettled, BecomeReady
  PROVE  EvidenceIsSettled'
<1>1. /\ daemon.at = "main" /\ daemon'.at = "up" /\ UNCHANGED <<unit, helper, settled>>
  BY DEF BecomeReady, disk, service, Base, TypeOK, ProcessType
<1> QED  BY <1>1 DEF EvidenceIsSettled

\* A process that ends by itself has left no exit record of its number.
LEMMA CrashEvidence ==
  ASSUME Base, EvidenceIsSettled, Crash
  PROVE  EvidenceIsSettled'
<1>1. /\ daemon.at # "down" /\ daemon'.at = "down" /\ daemon'.pid = daemon.pid
      /\ UNCHANGED <<unit, helper, settled, ready, exit>>
  BY DEF Crash, disk, service, Base, TypeOK, ProcessType
<1>2. /\ ready \in Nat /\ exit.pid \in Nat /\ daemon.pid \in Nat
      /\ daemon.at \in {"down", "main", "up", "online"}
  BY DEF Base, TypeOK, ProcessType
<1>3. ~(daemon'.pid # ready' + 1 /\ exit'.pid = ready')
  BY <1>1, <1>2 DEF Base, Numbered
<1> QED  BY <1>1, <1>3 DEF EvidenceIsSettled

\* After a boot the number of the last process is forgotten: evidence of a process
\* that became ready must then not be taken for evidence of the one after it.
LEMMA RebootEvidence ==
  ASSUME Base, EvidenceIsSettled, "lost_at_start" \notin Mishaps, Reboot
  PROVE  EvidenceIsSettled'
<1>1. /\ daemon'.at = "down" /\ helper'.at = "gone" /\ UNCHANGED <<unit, settled, ready, exit>>
  BY DEF Reboot, disk, NoHelper
<1>2. /\ ready \in Nat /\ exit.pid \in Nat /\ daemon.pid \in Nat
      /\ daemon.at \in {"down", "main", "up", "online"}
  BY DEF Base, TypeOK, ProcessType
<1>3. ~(daemon.pid > ready)
  BY DEF Reboot, Mishap
<1>4. exit = [pid |-> ready, clean |-> TRUE] => /\ daemon.at = "down" /\ daemon.pid # ready + 1
  BY <1>2, <1>3 DEF Base, Numbered
<1> QED  BY <1>1, <1>4 DEF EvidenceIsSettled, Drained

\* A confirmed stop is that of the process that became ready.
LEMMA StopDaemonEvidence ==
  ASSUME Base, EvidenceIsSettled, Halt, StopDaemon
  PROVE  EvidenceIsSettled'
<1>1. /\ helper.at = "halting" /\ daemon'.at = "down" /\ daemon'.pid = daemon.pid
      /\ UNCHANGED <<unit, ready>>
  BY Halted DEF Base, disk
<1>2. /\ helper'.at \in {"stopped", "finish"}
      /\ helper'.at = "stopped" => /\ Installed => daemon.pid \in {0, helper.ready}
                                /\ exit'.pid = helper.ready /\ exit'.clean
  BY Halted DEF Base, TypeOK, HelperType, ConfirmedStop, Ending
<1>3. /\ ready \in Nat \ {0} /\ exit.pid \in Nat /\ daemon.pid \in Nat /\ helper.ready \in Nat
      /\ daemon.at \in {"down", "main", "up", "online"}
      /\ exit \in [pid : Nat, clean : BOOLEAN] /\ exit' \in [pid : Nat, clean : BOOLEAN]
  BY HaltType DEF Base, TypeOK, ProcessType, HelperType
<1>4. /\ helper.ready <= ready /\ (daemon.pid = 0 => helper.ready = ready)
  BY <1>1 DEF Base, Numbered, Stopping
<1>5. CASE daemon.at = "down"
  <2>1. UNCHANGED <<exit, settled>>
    BY <1>5, Halted DEF Base
  <2>2. daemon.pid \in {0, ready, ready + 1}
    BY <1>5 DEF Base, Numbered
  <2>3. helper'.at = "stopped" => settled
    <3>1. CASE unit = "removed"
      BY <3>1 DEF EvidenceIsSettled
    <3>2. SUFFICES ASSUME unit # "removed", helper'.at = "stopped" PROVE settled
      BY <3>1
    <3>3. daemon.pid \in {0, helper.ready} /\ exit.pid = helper.ready /\ exit.clean
      BY <1>2, <2>1, <3>2 DEF Installed
    <3>4. helper.ready = ready /\ daemon.pid # ready + 1
      BY <1>3, <1>4, <2>2, <3>3
    <3>5. exit = [pid |-> ready, clean |-> TRUE]
      BY <1>3, <3>3, <3>4
    <3> QED  BY <1>5, <3>4, <3>5 DEF EvidenceIsSettled
  <2> QED  BY <1>1, <1>2, <1>5, <2>1, <2>3 DEF EvidenceIsSettled, Drained
<1>6. CASE daemon.at = "main"
  <2>1. exit' = exit /\ daemon.pid = ready + 1
    BY <1>6, Halted DEF Base, Numbered, WasReady
  <2>2. helper'.at # "stopped"
    BY <1>2, <1>3, <1>4, <1>6, <2>1 DEF Installed
  <2>3. unit' # "removed"
    BY <1>1, <1>6 DEF Base, RemovedIsDown
  <2> QED  BY <1>1, <1>2, <2>1, <2>2, <2>3 DEF EvidenceIsSettled, Drained
<1>7. CASE daemon.at \in {"up", "online"}
  <2>1. daemon.pid = ready /\ exit.pid < ready
    BY <1>7 DEF Base, Numbered
  <2>2. exit' = exit \/ exit' = [pid |-> daemon.pid, clean |-> settled']
    BY <1>7, Halted DEF Base
  <2>3. (exit'.pid = ready /\ exit'.clean) => settled'
    BY <1>3, <2>1, <2>2
  <2>4. helper'.at = "stopped" => settled'
    BY <1>2, <1>3, <1>7, <2>1, <2>3 DEF Installed
  <2>5. unit' # "removed"
    BY <1>1, <1>7 DEF Base, RemovedIsDown
  <2>6. exit' = [pid |-> ready', clean |-> TRUE] => settled'
    BY <1>1, <2>3
  <2> QED  BY <1>2, <2>4, <2>5, <2>6 DEF EvidenceIsSettled, Drained
<1> QED  BY <1>3, <1>5, <1>6, <1>7

LEMMA HaltEvidence ==
  ASSUME Base, EvidenceIsSettled, Halt
  PROVE  EvidenceIsSettled'
<1>1. CASE StopDaemon
  BY <1>1, StopDaemonEvidence
<1>2. CASE StopFails
  <2>1. UNCHANGED <<daemon, ready, exit, settled, unit>> /\ helper'.at = "finish"
    BY <1>2, StopFailed DEF disk, process, Base
  <2> QED  BY <2>1 DEF EvidenceIsSettled, Drained
<1> QED  BY <1>1, <1>2 DEF Halt

LEMMA StepEvidence ==
  ASSUME "lost_at_start" \notin Mishaps, Base, EvidenceIsSettled, [Next]_vars
  PROVE  EvidenceIsSettled'
<1>1. CASE Panel
  BY <1>1, EnqueueEvidence, TakeTaskEvidence DEF Panel
<1>2. CASE Worker
  BY <1>2, SavePlanEvidence, HandOverEvidence, HandOverFailsEvidence, RefuseEvidence DEF Worker
<1>3. CASE Daemon
  BY <1>3, StartDaemonEvidence, BecomeReadyEvidence, ConnectEvidence, DaemonReportsEvidence,
     TrafficEvidence, CollectEvidence, FlushUsageEvidence DEF Daemon
<1>4. CASE HelperStep
  BY <1>4, LoadEvidence, GiveUpEvidence, SaveStoppingEvidence, CheckProcessEvidence,
     HaltEvidence, SaveDrainingEvidence, DrainEvidence, SaveRemovingEvidence,
     RemoveServiceEvidence, RecordEvidence, SavePendingEvidence, HelperReportsEvidence,
     AcknowledgedEvidence, CleanupEvidence DEF HelperStep
<1>5. CASE Environment
  BY <1>5, RestartHelperEvidence, KillHelperEvidence, CrashEvidence, LoseSessionEvidence,
     RebootEvidence DEF Environment
<1>6. CASE UNCHANGED vars
  <2>1. UNCHANGED <<daemon, ready, exit, settled, unit>> /\ helper' = helper
    BY <1>6 DEF vars
  <2> QED  BY <2>1, EvidenceKept
<1> QED  BY <1>1, <1>2, <1>3, <1>4, <1>5, <1>6 DEF Next

\* When a removal is recorded as a success (uninstall.go RunUninstall, lifecycle.go
\* confirmStopped), the daemon is down for good, its last process saved its last
\* sample and every batch is delivered, unless power was lost at the one moment the
\* evidence cannot tell: after the start of a process that never became ready.
THEOREM NothingIsLeftBehind ==
  ASSUME "lost_at_start" \notin Mishaps
  PROVE  Spec => []NothingLeftBehind
<1>1. Init => EvidenceIsSettled
  BY DEF Init, EvidenceIsSettled, NoHelper, Drained
<1>2. Base /\ EvidenceIsSettled => NothingLeftBehind
  BY DEF NothingLeftBehind, Base, RemovedIsDown, StoppedIsDown, EvidenceIsSettled
<1>3. Base /\ EvidenceIsSettled /\ [Next]_vars => EvidenceIsSettled'
  BY StepEvidence
<1> QED  BY <1>1, <1>2, <1>3, SpecBase, PTL DEF Spec

-----------------------------------------------------------------------------
(***************************************************************************)
(* What is kept until the panel knows                                      *)
(***************************************************************************)
\* Neither the panel's rows nor the journal changes.
NoNews == panel'.task = panel.task /\ journal' = journal

\* An ended process has no worker.
SameWorker == worker' = worker \/ worker'.at = "idle"

LEMMA QuietKnown ==
  ASSUME Known, NoNews, SameWorker, UNCHANGED <<plan, data>>,
         rescue.enabled => rescue'.enabled,
         \/ helper' = helper
         \/ helper'.at = "gone"
         \/ helper'.at = "loading" /\ rescue'.enabled
  PROVE  Known'
<1>1. OneAtATime'
  BY DEF Known, OneAtATime, NoNews, SameWorker, Settled, IsUninstalled
<1>2. HandedToOne'
  BY DEF Known, HandedToOne, NoNews, SameWorker, Working, Stopping, Drained
<1>3. RescueStays'
  BY DEF Known, RescueStays, NoNews, IsUninstalled
<1>4. KeptUntilKnown'
  BY DEF Known, KeptUntilKnown, NoNews, IsUninstalled, Settled
<1> QED  BY <1>1, <1>2, <1>3, <1>4 DEF Known

\* A step of the helper at work that leaves the plan alone
LEMMA AdvancedKnown ==
  ASSUME Known, NoNews, SameWorker, UNCHANGED <<plan, data, rescue>>,
         helper.at \in Working, helper'.at \in Working \cup {"finish"},
         helper'.task = helper.task
  PROVE  Known'
<1>1. OneAtATime'
  BY DEF Known, OneAtATime, NoNews, SameWorker, Settled, IsUninstalled
<1>2. HandedToOne'
  BY DEF Known, HandedToOne, NoNews, SameWorker, Working, Stopping, Drained
<1>3. RescueStays'
  BY DEF Known, RescueStays, NoNews, IsUninstalled, Working, Stopping, Drained
<1>4. KeptUntilKnown'
  BY DEF Known, KeptUntilKnown, NoNews, IsUninstalled, Settled
<1> QED  BY <1>1, <1>2, <1>3, <1>4 DEF Known

\* The helper at work saves the plan of its own task, which the worker has not.
LEMMA SavedKnown ==
  ASSUME Known, NoNews, worker' = worker, UNCHANGED <<data, rescue>>,
         NEW phase \in Phases \ {"completed", "acknowledged"},
         plan' \in {plan, [task |-> helper.task, old |-> 0, phase |-> phase]},
         helper.at \in Working, helper'.at \in Working, helper'.task = helper.task
  PROVE  Known'
<1>1. OneAtATime'
  BY DEF Known, OneAtATime, NoNews, Settled, IsUninstalled
<1>2. journal[helper.task].status = "running" /\ HandedOver(plan, helper.task)
  BY DEF Known, HandedToOne
<1>3. HandedOver(plan', helper.task) /\ (plan'.phase = "acknowledged" => plan' = plan)
  BY <1>2 DEF HandedOver
<1>4. worker.at \in {"checking", "failing"} /\ journal[worker.task].status = "running"
        => /\ ~HandedOver(plan, worker.task) /\ worker.task # helper.task
           /\ ~HandedOver(plan', worker.task)
  BY <1>2, <1>3 DEF Known, HandedToOne, HandedOver
<1>5. HandedToOne'
  BY <1>2, <1>3, <1>4 DEF NoNews, HandedToOne, Working, Stopping, Drained
<1>6. RescueStays'
  BY <1>3 DEF Known, RescueStays, NoNews, IsUninstalled, Working, Stopping, Drained
<1>7. KeptUntilKnown'
  BY DEF Known, KeptUntilKnown, NoNews, IsUninstalled, Settled
<1> QED  BY <1>1, <1>5, <1>6, <1>7 DEF Known

\* A report settles the task and, if it is a success, cancels what is queued.
LEMMA ReportedKnown ==
  ASSUME Base, OneAtATime, NEW t \in Uninstalls, Terminal(journal[t]), ReportTask(t),
         \A u \in Uninstalls : journal'[u].status = journal[u].status,
         \A u \in Uninstalls \ {t} : journal'[u].acked = journal[u].acked,
         worker' = worker
  PROVE  /\ OneAtATime'
         /\ IsUninstalled => IsUninstalled'
         /\ \A u \in Uninstalls : Settled(u) => Settled(u)'
<1>1. journal[t].status \in {"succeeded", "failed"}
  BY DEF Terminal, Base, TypeOK, DiskType, Rows
<1>2. \A u \in Uninstalls :
         panel'.task[u] = IF Settled(t) THEN panel.task[u]
                          ELSE IF u = t THEN journal[t].status
                          ELSE IF journal[t].status = "succeeded" /\ panel.task[u] = "queued"
                               THEN "canceled" ELSE panel.task[u]
  BY ReportedTask DEF Base
<1>3. \A u \in Uninstalls : Settled(u) => panel'.task[u] = panel.task[u]
  BY <1>2 DEF Settled
<1>4. panel'.task[t] \in {"succeeded", "failed", "canceled"}
  BY <1>1, <1>2 DEF Settled
<1>5. \A u \in Uninstalls : Settled(u) => Settled(u)'
  BY <1>3 DEF Settled
<1>6. IsUninstalled => IsUninstalled'
  BY <1>3 DEF IsUninstalled, Settled
<1>7. ASSUME NEW u \in Uninstalls
      PROVE  /\ panel'.task[u] \in {"none", "queued", "canceled"} => journal[u].status = "none"
             /\ panel'.task[u] \in {"succeeded", "failed"} => journal[u].status = panel'.task[u]
             /\ panel'.task[u] = "canceled" => IsUninstalled'
             /\ journal'[u].acked => panel'.task[u] \in {"succeeded", "failed", "canceled"}
  <2>1. CASE Settled(t)
    <3>1. panel'.task[u] = panel.task[u]
      BY <1>2, <2>1
    <3> QED  BY <1>4, <1>6, <3>1 DEF OneAtATime, Settled
  <2>2. CASE ~Settled(t) /\ u = t
    BY <1>1, <1>2, <2>2
  <2>3. CASE ~Settled(t) /\ u # t
    <3>1. panel'.task[u] = IF journal[t].status = "succeeded" /\ panel.task[u] = "queued"
                           THEN "canceled" ELSE panel.task[u]
      BY <1>2, <2>3
    <3>2. journal[t].status = "succeeded" => panel'.task[t] = "succeeded"
      BY <1>2, <2>3
    <3>3. journal[t].status = "succeeded" => IsUninstalled'
      BY <3>2 DEF IsUninstalled
    <3> QED  BY <1>6, <2>3, <3>1, <3>3 DEF OneAtATime, Settled
  <2> QED  BY <2>1, <2>2, <2>3
<1>8. \A u \in Uninstalls : \A v \in 1 .. u - 1 : v \in Uninstalls
  BY UninstallAssumption DEF Uninstalls
<1>9. \A u \in Uninstalls : journal'[u].status # "none" => \A v \in 1 .. u - 1 : Settled(v)'
  BY <1>5, <1>8 DEF OneAtATime
<1>10. OneAtATime'
  <2>1. worker.at # "idle" => \A u \in Uninstalls \ {worker.task} : journal'[u].status # "running"
    BY DEF OneAtATime
  <2>2. \A u \in Uninstalls : journal'[u].status = "succeeded" =>
            \A v \in Uninstalls \ {u} : journal'[v].status \notin {"running", "succeeded"}
    BY DEF OneAtATime
  <2>3. \A u \in Uninstalls :
           /\ panel'.task[u] \in {"none", "queued", "canceled"} => journal'[u].status = "none"
           /\ panel'.task[u] \in {"succeeded", "failed"} => journal'[u].status = panel'.task[u]
           /\ panel'.task[u] = "canceled" => IsUninstalled'
           /\ journal'[u].acked => Settled(u)'
    BY <1>7 DEF Settled
  <2> QED  BY <1>9, <2>1, <2>2, <2>3 DEF OneAtATime
<1> QED  BY <1>5, <1>6, <1>10

LEMMA StartDaemonKnown == ASSUME Base, Known, StartDaemon PROVE Known'
<1>1. /\ NoNews /\ SameWorker /\ UNCHANGED <<plan, data, rescue>> /\ helper' = helper
  BY DEF StartDaemon, NoNews, SameWorker, disk, service
<1> QED  BY <1>1, QuietKnown

LEMMA BecomeReadyKnown == ASSUME Base, Known, BecomeReady PROVE Known'
<1>1. /\ NoNews /\ SameWorker /\ UNCHANGED <<plan, data, rescue>> /\ helper' = helper
  BY DEF BecomeReady, NoNews, SameWorker, disk, service
<1> QED  BY <1>1, QuietKnown

LEMMA ConnectKnown == ASSUME Base, Known, Connect PROVE Known'
<1>1. /\ NoNews /\ SameWorker /\ UNCHANGED <<plan, data, rescue>> /\ helper' = helper
  BY DEF Connect, NoNews, SameWorker, disk, service, Base, TypeOK, PanelType
<1> QED  BY <1>1, QuietKnown

LEMMA TrafficKnown == ASSUME Base, Known, Traffic PROVE Known'
<1>1. /\ NoNews /\ SameWorker /\ UNCHANGED <<plan, data, rescue>> /\ helper' = helper
  BY DEF Traffic, NoNews, SameWorker, disk, service
<1> QED  BY <1>1, QuietKnown

LEMMA CollectKnown == ASSUME Base, Known, Collect PROVE Known'
<1>1. /\ NoNews /\ SameWorker /\ UNCHANGED <<plan, data, rescue>> /\ helper' = helper
  BY DEF Collect, NoNews, SameWorker, disk, service
<1> QED  BY <1>1, QuietKnown

LEMMA FlushUsageKnown == ASSUME Base, Known, FlushUsage PROVE Known'
<1>1. /\ NoNews /\ SameWorker /\ UNCHANGED <<plan, data, rescue>> /\ helper' = helper
  BY DEF FlushUsage, NoNews, SameWorker, disk, service
<1> QED  BY <1>1, QuietKnown

LEMMA LoseSessionKnown == ASSUME Base, Known, LoseSession PROVE Known'
<1>1. /\ NoNews /\ SameWorker /\ UNCHANGED <<plan, data, rescue>> /\ helper' = helper
  BY DEF LoseSession, NoNews, SameWorker, disk, service
<1> QED  BY <1>1, QuietKnown

LEMMA CrashKnown == ASSUME Base, Known, Crash PROVE Known'
<1>1. /\ NoNews /\ SameWorker /\ UNCHANGED <<plan, data, rescue>> /\ helper' = helper
  BY DEF Crash, NoNews, SameWorker, NoWorker, disk, service
<1> QED  BY <1>1, QuietKnown

LEMMA HandOverKnown == ASSUME Base, Known, HandOver PROVE Known'
<1>1. /\ NoNews /\ SameWorker /\ UNCHANGED <<plan, data>>
  BY DEF HandOver, EnableHelper, StartHelper, NoNews, SameWorker, NoWorker, disk
<1>2. /\ rescue.enabled => rescue'.enabled
      /\ helper' = helper \/ helper'.at = "gone" \/ (helper'.at = "loading" /\ rescue'.enabled)
  BY DEF HandOver, EnableHelper, StartHelper, NoHelper, Base, TypeOK, HelperType
<1> QED  BY <1>1, <1>2, QuietKnown

LEMMA RestartHelperKnown == ASSUME Base, Known, RestartHelper PROVE Known'
<1>1. /\ NoNews /\ SameWorker /\ UNCHANGED <<plan, data>>
  BY DEF RestartHelper, NoNews, SameWorker, disk
<1>2. /\ rescue.enabled => rescue'.enabled
      /\ helper' = helper \/ helper'.at = "gone" \/ (helper'.at = "loading" /\ rescue'.enabled)
  BY DEF RestartHelper, NoHelper, Base, TypeOK, HelperType
<1> QED  BY <1>1, <1>2, QuietKnown

LEMMA KillHelperKnown == ASSUME Base, Known, KillHelper PROVE Known'
<1>1. /\ NoNews /\ SameWorker /\ UNCHANGED <<plan, data>>
  BY DEF KillHelper, NoNews, SameWorker, disk
<1>2. /\ rescue.enabled => rescue'.enabled
      /\ helper' = helper \/ helper'.at = "gone" \/ (helper'.at = "loading" /\ rescue'.enabled)
  BY DEF KillHelper, NoHelper, Base, TypeOK, HelperType
<1> QED  BY <1>1, <1>2, QuietKnown

LEMMA RebootKnown == ASSUME Base, Known, Reboot PROVE Known'
<1>1. /\ NoNews /\ SameWorker /\ UNCHANGED <<plan, data>>
  BY DEF Reboot, NoNews, SameWorker, NoWorker, disk
<1>2. /\ rescue.enabled => rescue'.enabled
      /\ helper' = helper \/ helper'.at = "gone" \/ (helper'.at = "loading" /\ rescue'.enabled)
  BY DEF Reboot, NoHelper, Base, TypeOK, HelperType
<1> QED  BY <1>1, <1>2, QuietKnown

LEMMA CheckProcessKnown == ASSUME Base, Known, CheckProcess PROVE Known'
<1>1. /\ NoNews /\ SameWorker /\ UNCHANGED <<plan, data, rescue>>
  BY DEF CheckProcess, NoNews, SameWorker, disk
<1>2. helper.at \in Working
  BY DEF CheckProcess, At, Working, Stopping, Drained
<1>3. helper'.task = helper.task /\ helper'.at \in Working \cup {"finish"}
  BY Moved DEF CheckProcess, Base, Working, Stopping, Drained
<1> QED  BY <1>1, <1>2, <1>3, AdvancedKnown

LEMMA DrainKnown == ASSUME Base, Known, Drain PROVE Known'
<1>1. /\ NoNews /\ SameWorker /\ UNCHANGED <<plan, data, rescue>>
  BY DEF Drain, NoNews, SameWorker, disk
<1>2. helper.at \in Working
  BY DEF Drain, At, Working, Stopping, Drained
<1>3. helper'.task = helper.task /\ helper'.at \in Working \cup {"finish"}
  BY Moved DEF Drain, Base, Working, Stopping, Drained
<1> QED  BY <1>1, <1>2, <1>3, AdvancedKnown

LEMMA RemoveServiceKnown == ASSUME Base, Known, RemoveService PROVE Known'
<1>1. /\ NoNews /\ SameWorker /\ UNCHANGED <<plan, data, rescue>>
  BY DEF RemoveService, NoNews, SameWorker
<1>2. helper.at \in Working
  BY DEF RemoveService, At, Working, Stopping, Drained
<1>3. helper'.task = helper.task /\ helper'.at \in Working \cup {"finish"}
  BY Moved DEF RemoveService, Base, Working, Stopping, Drained
<1> QED  BY <1>1, <1>2, <1>3, AdvancedKnown

LEMMA StopDaemonKnown == ASSUME Base, Known, Halt, StopDaemon PROVE Known'
<1>1. /\ NoNews /\ SameWorker /\ UNCHANGED <<plan, data, rescue>>
  BY Halted DEF NoNews, SameWorker, NoWorker, disk, Base
<1>2. helper.at \in Working
  BY Halted DEF Working, Stopping, Base
<1>3. helper'.task = helper.task /\ helper'.at \in {"stopped", "finish"}
  BY HaltMoves DEF Base
<1> QED  BY <1>1, <1>2, <1>3, AdvancedKnown DEF Working

LEMMA HaltKnown == ASSUME Base, Known, Halt PROVE Known'
<1>1. CASE StopDaemon
  BY <1>1, StopDaemonKnown
<1>2. CASE StopFails
  <2>1. /\ NoNews /\ SameWorker /\ UNCHANGED <<plan, data, rescue>>
        /\ helper.at \in Working /\ helper'.at = "finish" /\ helper'.task = helper.task
    BY <1>2, StopFailed DEF NoNews, SameWorker, disk, Working, Stopping, Base
  <2> QED  BY <2>1, AdvancedKnown
<1> QED  BY <1>1, <1>2 DEF Halt

LEMMA SaveStoppingKnown == ASSUME Base, Known, SaveStopping PROVE Known'
<1>1. /\ NoNews /\ worker' = worker /\ UNCHANGED <<data, rescue>>
  BY DEF SaveStopping, NoNews
<1>2. helper.at = "checked" /\ helper.task \in Uninstalls
  BY DEF SaveStopping, At, Base, TypeOK, HelperType
<1>3. helper'.task = helper.task /\ helper'.at = "stopping"
  BY Moved DEF SaveStopping, Base
<1>4. plan' \in {plan, [task |-> helper.task, old |-> 0, phase |-> "stopping_daemon"]}
  BY <1>2, KeptPlan DEF SaveStopping, Phases, Base
<1>5. "stopping_daemon" \in Phases \ {"completed", "acknowledged"}
  BY DEF Phases
<1> QED  BY <1>1, <1>2, <1>3, <1>4, <1>5, SavedKnown DEF Working, Stopping, Drained

LEMMA SaveDrainingKnown == ASSUME Base, Known, SaveDraining PROVE Known'
<1>1. /\ NoNews /\ worker' = worker /\ UNCHANGED <<data, rescue>>
  BY DEF SaveDraining, NoNews
<1>2. helper.at = "stopped" /\ helper.task \in Uninstalls
  BY DEF SaveDraining, At, Base, TypeOK, HelperType
<1>3. helper'.task = helper.task /\ helper'.at = "draining"
  BY Moved DEF SaveDraining, Base
<1>4. plan' \in {plan, [task |-> helper.task, old |-> 0, phase |-> "draining_usage"]}
  BY <1>2, KeptPlan DEF SaveDraining, Phases, Base
<1>5. "draining_usage" \in Phases \ {"completed", "acknowledged"}
  BY DEF Phases
<1> QED  BY <1>1, <1>2, <1>3, <1>4, <1>5, SavedKnown DEF Working, Stopping, Drained

LEMMA SaveRemovingKnown == ASSUME Base, Known, SaveRemoving PROVE Known'
<1>1. /\ NoNews /\ worker' = worker /\ UNCHANGED <<data, rescue>>
  BY DEF SaveRemoving, NoNews
<1>2. helper.at = "drained" /\ helper.task \in Uninstalls
  BY DEF SaveRemoving, At, Base, TypeOK, HelperType
<1>3. helper'.task = helper.task /\ helper'.at = "removing"
  BY Moved DEF SaveRemoving, Base
<1>4. plan' \in {plan, [task |-> helper.task, old |-> 0, phase |-> "removing_services"]}
  BY <1>2, KeptPlan DEF SaveRemoving, Phases, Base
<1>5. "removing_services" \in Phases \ {"completed", "acknowledged"}
  BY DEF Phases
<1> QED  BY <1>1, <1>2, <1>3, <1>4, <1>5, SavedKnown DEF Working, Stopping, Drained

\* What a report leaves alone
LEMMA ReportKeeps ==
  ASSUME TypeOK, HandedToOne, RescueStays, KeptUntilKnown,
         worker' = worker, UNCHANGED <<plan, data, rescue>>, helper' = helper,
         IsUninstalled => IsUninstalled',
         \A u \in Uninstalls : Settled(u) => Settled(u)',
         \A u \in Uninstalls : journal'[u].status = journal[u].status
  PROVE  HandedToOne' /\ RescueStays' /\ KeptUntilKnown'
<1>1. HandedToOne'
  <2>1. /\ worker.at # "idle" => worker.task \in Uninstalls
        /\ helper.at \notin {"gone", "loading"} => helper.task \in Uninstalls
    BY DEF TypeOK, WorkerType, HelperType
  <2> QED  BY <2>1 DEF HandedToOne, Working, Stopping, Drained
<1>2. RescueStays'
  BY DEF RescueStays
<1>3. KeptUntilKnown'
  BY DEF KeptUntilKnown
<1> QED  BY <1>1, <1>2, <1>3

LEMMA DaemonReportsKnown == ASSUME Base, Known, NEW t \in Uninstalls, DaemonReports(t) PROVE Known'
<1>1. t \in Uninstalls /\ Terminal(journal[t]) /\ Report(t)
  BY DEF DaemonReports, Unacknowledged
<1>2. worker' = worker /\ UNCHANGED <<plan, data, rescue>> /\ helper' = helper
  BY DEF DaemonReports, service
<1>3. /\ OneAtATime' /\ (IsUninstalled => IsUninstalled')
      /\ \A u \in Uninstalls : Settled(u) => Settled(u)'
      /\ \A u \in Uninstalls : journal'[u].status = journal[u].status
  BY <1>1, <1>2, ReportMade, ReportedKnown DEF Base, Known
<1> QED  BY <1>2, <1>3, ReportKeeps DEF Known, Base

LEMMA HelperReportsKnown == ASSUME Base, Known, HelperReports PROVE Known'
<1>1. helper.task \in Uninstalls /\ Terminal(journal[helper.task]) /\ Report(helper.task)
  BY DEF HelperReports, At, Base, ResultsStand, TypeOK, HelperType
<1>2. worker' = worker /\ UNCHANGED <<plan, data, rescue>> /\ helper' = helper
  BY DEF HelperReports, service
<1>3. /\ OneAtATime' /\ (IsUninstalled => IsUninstalled')
      /\ \A u \in Uninstalls : Settled(u) => Settled(u)'
      /\ \A u \in Uninstalls : journal'[u].status = journal[u].status
  BY <1>1, <1>2, ReportMade, ReportedKnown DEF Base, Known
<1> QED  BY <1>2, <1>3, ReportKeeps DEF Known, Base

LEMMA EnqueueKnown == ASSUME Base, Known, NEW t \in Uninstalls, Enqueue(t) PROVE Known'
<1>1. /\ panel.task[t] = "none"
      /\ UNCHANGED <<journal, plan, data, rescue>> /\ worker' = worker /\ helper' = helper
      /\ \A u \in Uninstalls : panel'.task[u] = IF u = t THEN "queued" ELSE panel.task[u]
  BY DEF Enqueue, disk, service, Base, TypeOK, PanelType
<1>2. \A u \in Uninstalls : Settled(u)' = Settled(u)
  BY <1>1 DEF Settled
<1>3. IsUninstalled' = IsUninstalled
  BY <1>1 DEF IsUninstalled
<1>4. \A u \in Uninstalls : \A v \in 1 .. u - 1 : v \in Uninstalls
  BY UninstallAssumption DEF Uninstalls
<1>5. OneAtATime'
  <2>1. \A u \in Uninstalls :
           /\ panel'.task[u] \in {"none", "queued", "canceled"} => journal[u].status = "none"
           /\ panel'.task[u] \in {"succeeded", "failed"} => journal[u].status = panel'.task[u]
           /\ panel'.task[u] = "canceled" => IsUninstalled
    BY <1>1 DEF Known, OneAtATime
  <2>2. \A u \in Uninstalls : journal[u].status # "none" => \A v \in 1 .. u - 1 : Settled(v)'
    BY <1>2, <1>4 DEF Known, OneAtATime
  <2>3. \A u \in Uninstalls : journal[u].acked => Settled(u)'
    BY <1>2 DEF Known, OneAtATime
  <2> QED  BY <1>1, <1>3, <2>1, <2>2, <2>3 DEF Known, OneAtATime
<1>6. HandedToOne'
  BY <1>1 DEF Known, HandedToOne
<1>7. RescueStays'
  BY <1>1, <1>3 DEF Known, RescueStays
<1>8. KeptUntilKnown'
  BY <1>1, <1>2, <1>3 DEF Known, KeptUntilKnown
<1> QED  BY <1>5, <1>6, <1>7, <1>8 DEF Known

\* Only the first unsettled task is taken, and none once the node's program is
\* removed.
LEMMA TakeTaskKnown == ASSUME Base, Known, NEW t \in Uninstalls, TakeTask(t) PROVE Known'
<1>1. /\ daemon.at = "online" /\ worker.at = "idle" /\ panel.task[t] \in {"queued", "accepted"}
      /\ \A u \in 1 .. t - 1 : Settled(u)
      /\ UNCHANGED <<plan, data, rescue>> /\ helper' = helper
  BY DEF TakeTask, service
<1>2. \A u \in Uninstalls : panel'.task[u] = IF u = t THEN "accepted" ELSE panel.task[u]
  BY DEF TakeTask, Base, TypeOK, PanelType
<1>3. /\ \A u \in Uninstalls \ {t} : journal'[u] = journal[u]
      /\ journal'[t].acked = journal[t].acked
      /\ journal'[t].status = IF Terminal(journal[t]) \/ HandedOver(plan, t)
                              THEN journal[t].status ELSE "running"
  BY TakenTask DEF Base
<1>4. \/ (Terminal(journal[t]) \/ HandedOver(plan, t)) /\ worker' = worker
      \/ /\ ~Terminal(journal[t]) /\ ~HandedOver(plan, t)
         /\ worker'.at = "checking" /\ worker'.task = t
  BY DEF TakeTask
<1>5. (\A u \in Uninstalls : Settled(u)' = Settled(u)) /\ ~Settled(t)
  BY <1>1, <1>2 DEF Settled
<1>6. IsUninstalled' = IsUninstalled
  BY <1>1, <1>2 DEF IsUninstalled
<1>7. \A u \in Uninstalls : /\ u \in Nat /\ \A v \in 1 .. u - 1 : v \in Uninstalls
                            /\ \A v \in Uninstalls : v < u => v \in 1 .. u - 1
  BY UninstallAssumption DEF Uninstalls
<1>8. \A u \in Uninstalls : journal[u].status # "succeeded"
  BY <1>1 DEF Base, RemovedIsDown
<1>9. \A u \in Uninstalls \ {t} : journal[u].status # "running"
  <2> SUFFICES ASSUME NEW u \in Uninstalls \ {t}, journal[u].status = "running" PROVE FALSE
    OBVIOUS
  <2>1. u < t \/ t < u
    BY <1>7
  <2>2. CASE u < t
    <3>1. Settled(u)
      BY <1>1, <1>7, <2>2
    <3> QED  BY <3>1 DEF Known, OneAtATime, Settled
  <2>3. CASE t < u
    <3>1. Settled(t)
      BY <1>7, <2>3 DEF Known, OneAtATime
    <3> QED  BY <1>5, <3>1
  <2> QED  BY <2>1, <2>2, <2>3
<1>10. journal'[t].status \in {"running", "failed", "none"} /\ ~journal[t].acked
  BY <1>3, <1>5, <1>8 DEF Known, OneAtATime, Base, TypeOK, DiskType, Rows, Terminal
<1>11. OneAtATime'
  <2>1. \A u \in Uninstalls :
           /\ panel'.task[u] \in {"none", "queued", "canceled"} => journal'[u].status = "none"
           /\ panel'.task[u] \in {"succeeded", "failed"} => journal'[u].status = panel'.task[u]
           /\ panel'.task[u] = "canceled" => IsUninstalled
    BY <1>2, <1>3 DEF Known, OneAtATime
  <2>2. ASSUME NEW u \in Uninstalls, journal'[u].status # "none", NEW v \in 1 .. u - 1
        PROVE  Settled(v)'
    <3>1. v \in Uninstalls
      BY <1>7, <2>2
    <3>2. CASE u = t
      BY <1>1, <1>5, <2>2, <3>1, <3>2
    <3>3. CASE u # t
      BY <1>3, <1>5, <2>2, <3>1, <3>3 DEF Known, OneAtATime
    <3> QED  BY <3>2, <3>3
  <2>3. \A u \in Uninstalls : journal'[u].acked => Settled(u)'
    BY <1>3, <1>5, <1>10 DEF Known, OneAtATime
  <2>4. \A u \in Uninstalls : journal'[u].status # "succeeded"
    BY <1>3, <1>8, <1>10
  <2>5. worker'.at # "idle" => \A u \in Uninstalls \ {worker'.task} : journal'[u].status # "running"
    BY <1>1, <1>3, <1>4, <1>9
  <2> QED  BY <1>6, <2>1, <2>2, <2>3, <2>4, <2>5 DEF OneAtATime
<1>12. helper.at \notin {"gone", "loading"} => helper.task \in Uninstalls
  BY DEF Base, TypeOK, HelperType
<1>13. HandedToOne'
  <2>1. CASE Terminal(journal[t]) \/ HandedOver(plan, t)
    <3>1. \A u \in Uninstalls : journal'[u].status = journal[u].status
      BY <1>3, <2>1
    <3>2. worker'.at = "idle"
      BY <1>1, <1>4, <2>1
    <3> QED  BY <1>1, <1>12, <3>1, <3>2 DEF Known, HandedToOne, Working, Stopping, Drained
  <2>2. CASE ~Terminal(journal[t]) /\ ~HandedOver(plan, t)
    <3>1. helper.at \notin {"gone", "loading"} /\ helper.task = t
            => helper.at \in {"giving_up", "cleaning", "clearing"}
      <4>1. t = helper.task /\ helper.at \notin {"gone", "loading"} => journal[t].status = "running"
        BY <2>2 DEF Base, TasksAreTaken, Terminal
      <4>2. helper.at \in {"decided", "reporting"} => Terminal(journal[helper.task])
        BY DEF Base, ResultsStand
      <4> QED  BY <2>2, <4>1, <4>2 DEF Known, HandedToOne, Base, TypeOK, HelperType, HelperAts
    <3>2. worker'.at = "checking" /\ worker'.task = t
      BY <1>4, <2>2
    <3>3. helper.at \in Working \cup {"finish", "decided", "reporting"}
            => helper.task \in Uninstalls \ {t}
      BY <1>12, <3>1 DEF Working, Stopping, Drained
    <3> QED  BY <1>1, <1>3, <2>2, <3>2, <3>3 DEF Known, HandedToOne
  <2> QED  BY <2>1, <2>2
<1>14. RescueStays'
  BY <1>1, <1>6 DEF Known, RescueStays
<1>15. KeptUntilKnown'
  BY <1>1, <1>3, <1>5, <1>6, <1>8, <1>10 DEF Known, KeptUntilKnown
<1> QED  BY <1>11, <1>13, <1>14, <1>15 DEF Known

\* A task that is running has not been acknowledged, so that its plan is not idle.
LEMMA SavePlanKnown == ASSUME Base, Known, SavePlan PROVE Known'
<1>1. /\ worker.at = "checking" /\ worker'.at = "handing" /\ worker'.task = worker.task
      /\ worker.task \in Uninstalls /\ Idle(plan, journal)
      /\ NoNews /\ UNCHANGED <<data, rescue>> /\ helper' = helper
  BY DEF SavePlan, NoNews, service, Base, TypeOK, WorkerType
<1>2. plan' = [task |-> worker.task, old |-> 0, phase |-> "updater_ready"]
  BY DEF SavePlan, Saved
<1>3. \A u \in Uninstalls : HandedOver(plan, u) => journal[u].status # "running"
  <2> SUFFICES ASSUME NEW u \in Uninstalls, HandedOver(plan, u) PROVE journal[u].status # "running"
    OBVIOUS
  <2>1. journal[u].acked
    BY <1>1, NoTaskZero DEF HandedOver, Idle
  <2>2. Settled(u)
    BY <2>1 DEF Known, OneAtATime
  <2> QED  BY <2>2 DEF Known, OneAtATime, Settled
<1>4. helper.at \notin {"gone", "loading"} => helper.task \in Uninstalls
  BY DEF Base, TypeOK, HelperType
<1>5. OneAtATime'
  BY <1>1 DEF Known, OneAtATime, NoNews, Settled, IsUninstalled
<1>6. HandedToOne'
  BY <1>1, <1>3, <1>4 DEF Known, HandedToOne, NoNews, Working, Stopping, Drained
<1>7. RescueStays'
  BY <1>1, <1>2 DEF Known, RescueStays, NoNews, IsUninstalled
<1>8. KeptUntilKnown'
  BY <1>1 DEF Known, KeptUntilKnown, NoNews, Settled, IsUninstalled
<1> QED  BY <1>5, <1>6, <1>7, <1>8 DEF Known

LEMMA WorkerAloneStep ==
  ASSUME "handoff_misleads" \notin Mishaps, Base, WorkerAlone, [Next]_vars
  PROVE  WorkerAlone'
<1>1. CASE worker.at = "unwritten"
  <2>1. helper.at = "gone" /\ ~rescue.enabled
    BY <1>1 DEF WorkerAlone
  <2>2. CASE UNCHANGED <<rescue, helper, worker>>
    BY <2>1, <1>1, <2>2 DEF WorkerAlone
  <2>3. CASE worker' = NoWorker
    BY <2>3 DEF WorkerAlone, NoWorker
  <2>4. CASE Panel
    BY <1>1, <2>2, <2>4 DEF Panel, Enqueue, TakeTask, service
  <2>5. CASE Worker
    BY <1>1, <2>3, <2>5 DEF Worker, SavePlan, HandOver, HandOverFails, Refuse
  <2>6. CASE Daemon
    BY <2>2, <2>6 DEF Daemon, StartDaemon, BecomeReady, Connect, DaemonReports, Traffic, Collect,
       FlushUsage, service
  <2>7. ~HelperStep
    BY <2>1 DEF HelperStep, Load, GiveUp, SaveStopping, CheckProcess, Halt, SaveDraining, Drain,
       SaveRemoving, RemoveService, Record, SavePending, HelperReports, Acknowledged, Cleanup, At
  <2>8. CASE Environment
    BY <2>1, <2>2, <2>3, <2>8 DEF Environment, RestartHelper, KillHelper, Crash, LoseSession,
       Reboot,
       At, service
  <2>9. CASE UNCHANGED vars
    BY <2>2, <2>9 DEF vars
  <2> QED  BY <2>4, <2>5, <2>6, <2>7, <2>8, <2>9 DEF Next
<1>2. CASE worker.at # "unwritten"
  <2>1. worker.at # "started"
    BY DEF WorkerAlone
  <2> SUFFICES worker'.at \notin {"started", "unwritten"} \/ WorkerAlone'
    BY DEF WorkerAlone
  <2>2. CASE worker' = worker
    BY <1>2, <2>1, <2>2
  <2>3. CASE worker' = NoWorker
    BY <2>3 DEF NoWorker
  <2>4. CASE Panel
    BY <2>2, <2>4 DEF Panel, Enqueue, TakeTask
  <2>5. CASE Worker
    <3>1. CASE SavePlan
      BY <3>1 DEF SavePlan, Base, TypeOK, WorkerType
    <3>2. CASE HandOver \/ Refuse
      BY <2>3, <3>2 DEF HandOver, Refuse
    <3>3. CASE HandOverFails
      <4>1. ~Mishap("handoff_misleads")
        BY DEF Mishap
      <4>2. \/ WorkerMoves("failing")
            \/ /\ WorkerMoves("unwritten")
               /\ ~rescue.enabled /\ helper.at = "gone" /\ UNCHANGED <<rescue, helper>>
        BY <2>1, <3>3, <4>1 DEF HandOverFails
      <4>3. \A at : WorkerMoves(at) => worker'.at = at
        BY DEF WorkerMoves, Base, TypeOK, WorkerType
      <4> QED  BY <4>2, <4>3 DEF WorkerAlone
    <3> QED  BY <2>5, <3>1, <3>2, <3>3 DEF Worker
  <2>6. CASE Daemon
    BY <2>2, <2>6 DEF Daemon, StartDaemon, BecomeReady, Connect, DaemonReports, Traffic, Collect,
       FlushUsage
  <2>7. CASE HelperStep
    BY <2>2, <2>3, <2>7 DEF HelperStep, Load, GiveUp, SaveStopping, CheckProcess, Halt, StopDaemon,
       StopFails, End, SaveDraining, Drain, SaveRemoving, RemoveService, Record, SavePending,
       HelperReports, Acknowledged, Cleanup
  <2>8. CASE Environment
    BY <2>2, <2>3, <2>8 DEF Environment, RestartHelper, KillHelper, Crash, LoseSession, Reboot
  <2>9. CASE UNCHANGED vars
    BY <2>2, <2>9 DEF vars
  <2> QED  BY <2>4, <2>5, <2>6, <2>7, <2>8, <2>9 DEF Next
<1> QED  BY <1>1, <1>2

\* The plan of a helper that works on another task stays.
LEMMA HandOverFailsKnown ==
  ASSUME "handoff_misleads" \notin Mishaps, Base, WorkerAlone, Known, HandOverFails
  PROVE  Known'
<1>1. /\ worker'.task = worker.task /\ worker.task \in Uninstalls /\ worker.at = "handing"
      /\ NoNews /\ data' = data
  BY HandOverFailing DEF NoNews, Base, WorkerAlone
<1>2. \/ worker'.at = "unwritten" /\ UNCHANGED <<plan, rescue, helper>>
      \/ /\ worker'.at = "failing" /\ helper.task # worker.task /\ CompletePlan
         /\ helper' = helper /\ rescue' \in {rescue, [rescue EXCEPT !.enabled = TRUE]}
  BY <1>1, HandOverFailing DEF HandOverFails, Mishap, WorkerMoves, Base, TypeOK, WorkerType
<1>3. helper' = helper /\ (rescue.enabled => rescue'.enabled)
  BY <1>2 DEF Base, TypeOK, HelperType
<1>4. worker'.at = "failing" => /\ plan'.task = worker.task => plan'.phase = "completed"
                                /\ plan.task \notin {0, worker.task} => plan' = plan
                                /\ plan'.phase = "acknowledged" => plan' = plan
  BY <1>2 DEF CompletePlan, Saved
<1>5. helper.at \notin {"gone", "loading"} => helper.task \in Uninstalls
  BY DEF Base, TypeOK, HelperType
<1>6. OneAtATime'
  <2>1. worker.at # "idle"
    BY <1>1
  <2> QED  BY <1>1, <2>1 DEF Known, OneAtATime, NoNews, Settled, IsUninstalled
<1>7. HandedToOne'
  <2>1. CASE worker'.at = "unwritten"
    BY <1>1, <1>2, <1>3, <2>1 DEF Known, HandedToOne, NoNews, Working, Stopping, Drained
  <2>2. CASE worker'.at = "failing"
    <3>1. ~HandedOver(plan', worker'.task)
      BY <1>1, <1>4, <2>2 DEF HandedOver
    <3>2. helper.at \notin {"gone", "loading"} /\ HandedOver(plan, helper.task) => plan' = plan
      BY <1>2, <1>4, <1>5, <2>2, NoTaskZero DEF HandedOver
    <3> QED  BY <1>1, <1>3, <2>2, <3>1, <3>2 DEF Known, HandedToOne, NoNews, Working, Stopping,
                Drained
  <2> QED  BY <1>2, <2>1, <2>2
<1>8. RescueStays'
  <2>1. plan'.phase = "acknowledged" => plan' = plan
    BY <1>2, <1>4
  <2> QED  BY <1>1, <1>3, <2>1 DEF Known, RescueStays, NoNews, IsUninstalled
<1>9. KeptUntilKnown'
  BY <1>1, <1>3 DEF Known, KeptUntilKnown, NoNews, Settled, IsUninstalled
<1> QED  BY <1>6, <1>7, <1>8, <1>9 DEF Known

\* Recording a result, of the worker's task or of the helper's: no other row
\* changes, and a success is the only one.
LEMMA RecordedKnown ==
  ASSUME Base, OneAtATime, NEW t \in Uninstalls, NEW result \in {"succeeded", "failed"},
         journal' = [journal EXCEPT ![t] = Decided(@, result, 0)],
         journal[t].status # "none", panel' = panel, SameWorker,
         result = "succeeded" => journal[t].status \in {"running", "succeeded"}
  PROVE  OneAtATime'
<1>1. /\ \A u \in Uninstalls \ {t} : journal'[u] = journal[u]
      /\ journal'[t].acked = journal[t].acked
      /\ journal'[t].status = IF Terminal(journal[t]) THEN journal[t].status ELSE result
  BY RecordedResult DEF Base
<1>2. journal[t].status \in {"running", "succeeded", "failed"}
  BY DEF Base, TypeOK, DiskType, Rows
<1>3. \A u \in Uninstalls : /\ u \in Nat /\ \A v \in 1 .. u - 1 : v \in Uninstalls
                            /\ \A v \in Uninstalls : v < u => v \in 1 .. u - 1
  BY UninstallAssumption DEF Uninstalls
<1>4. \A u \in Uninstalls : Settled(u)' = Settled(u)
  BY DEF Settled
<1>5. IsUninstalled' = IsUninstalled
  BY DEF IsUninstalled
\* At most one task is running, and none when another one has succeeded.
<1>6. journal[t].status = "running" =>
        \A u \in Uninstalls \ {t} : journal[u].status \notin {"running", "succeeded"}
  <2> SUFFICES ASSUME journal[t].status = "running", NEW u \in Uninstalls \ {t},
                      journal[u].status \in {"running", "succeeded"}
               PROVE  FALSE
    OBVIOUS
  <2>1. CASE journal[u].status = "succeeded"
    BY <2>1 DEF OneAtATime
  <2>2. CASE journal[u].status = "running" /\ u < t
    <3>1. Settled(u)
      BY <1>3, <2>2 DEF OneAtATime
    <3> QED  BY <2>2, <3>1 DEF OneAtATime, Settled
  <2>3. CASE journal[u].status = "running" /\ t < u
    <3>1. Settled(t)
      BY <1>3, <2>3 DEF OneAtATime
    <3> QED  BY <3>1 DEF OneAtATime, Settled
  <2> QED  BY <1>3, <2>1, <2>2, <2>3
<1>7. \A u \in Uninstalls :
         /\ panel.task[u] \in {"none", "queued", "canceled"} => journal'[u].status = "none"
         /\ panel.task[u] \in {"succeeded", "failed"} => journal'[u].status = panel.task[u]
         /\ panel.task[u] = "canceled" => IsUninstalled
         /\ journal'[u].status # "none" => \A v \in 1 .. u - 1 : Settled(v)
         /\ journal'[u].acked => Settled(u)
  BY <1>1, <1>2 DEF OneAtATime, Terminal
<1>8. \A u \in Uninstalls : journal'[u].status = "running" => journal[u].status = "running"
  BY <1>1, <1>2 DEF Terminal
<1>9. ASSUME NEW u \in Uninstalls, journal'[u].status = "succeeded", NEW v \in Uninstalls \ {u}
      PROVE  journal'[v].status \notin {"running", "succeeded"}
  <2>1. CASE u = t
    <3>1. journal[t].status \in {"running", "succeeded"}
      BY <1>1, <1>2, <1>9, <2>1 DEF Terminal
    <3>2. journal'[v] = journal[v]
      BY <1>1, <2>1
    <3> QED  BY <1>6, <2>1, <3>1, <3>2 DEF OneAtATime
  <2>2. CASE u # t /\ v = t
    <3>1. journal[u].status = "succeeded" /\ journal[t].status = "failed"
      BY <1>1, <1>2, <1>9, <2>2 DEF OneAtATime
    <3> QED  BY <1>1, <2>2, <3>1 DEF Terminal
  <2>3. CASE u # t /\ v # t
    BY <1>1, <1>9, <2>3 DEF OneAtATime
  <2> QED  BY <2>1, <2>2, <2>3
<1>10. worker'.at # "idle" => \A u \in Uninstalls \ {worker'.task} : journal'[u].status # "running"
  <2>1. worker'.at # "idle" => worker.at # "idle" /\ worker'.task = worker.task
    BY DEF SameWorker
  <2>2. SUFFICES ASSUME worker'.at # "idle", NEW u \in Uninstalls \ {worker'.task}
                 PROVE  journal'[u].status # "running"
    OBVIOUS
  <2>3. worker.at # "idle" /\ u \in Uninstalls \ {worker.task}
    BY <2>1, <2>2
  <2>4. journal[u].status # "running"
    BY <2>3 DEF OneAtATime
  <2> QED  BY <1>8, <2>3, <2>4
<1>11. \A u \in Uninstalls : journal'[u].status # "none" => \A v \in 1 .. u - 1 : Settled(v)'
  BY <1>3, <1>4, <1>7
<1>12. \A u \in Uninstalls :
          /\ panel'.task[u] \in {"none", "queued", "canceled"} => journal'[u].status = "none"
          /\ panel'.task[u] \in {"succeeded", "failed"} => journal'[u].status = panel'.task[u]
          /\ panel'.task[u] = "canceled" => IsUninstalled'
          /\ journal'[u].acked => Settled(u)'
  BY <1>4, <1>5, <1>7
<1> QED  BY <1>9, <1>10, <1>11, <1>12 DEF OneAtATime

LEMMA RefuseKnown == ASSUME Base, WorkerAlone, Known, Refuse PROVE Known'
<1>1. /\ worker.at \in {"checking", "unwritten", "failing"} /\ worker.task \in Uninstalls
      /\ worker'.at = "idle"
      /\ journal' = [journal EXCEPT ![worker.task] = Decided(@, "failed", 0)]
      /\ panel' = panel /\ UNCHANGED <<plan, data, rescue>> /\ helper' = helper
  BY DEF Refuse, NoWorker, service, Base, TypeOK, WorkerType
<1>2. journal[worker.task].status # "none"
  BY <1>1 DEF Base, TasksAreTaken
<1>3. OneAtATime'
  BY <1>1, <1>2, RecordedKnown DEF Known, SameWorker
<1>4. /\ \A u \in Uninstalls \ {worker.task} : journal'[u] = journal[u]
      /\ journal'[worker.task].status =
           IF Terminal(journal[worker.task]) THEN journal[worker.task].status ELSE "failed"
  BY <1>1, RecordedResult DEF Base
<1>5. ~Terminal(journal[worker.task]) => journal[worker.task].status = "running"
  BY <1>2 DEF Terminal
<1>6. helper.at \notin {"gone", "loading"} => helper.task \in Uninstalls
  BY DEF Base, TypeOK, HelperType
<1>7. helper.at \in Working \cup {"finish", "decided", "reporting"}
        => journal'[helper.task].status = journal[helper.task].status
  <2> SUFFICES ASSUME helper.at \in Working \cup {"finish", "decided", "reporting"},
                      helper.task = worker.task, ~Terminal(journal[worker.task])
               PROVE  FALSE
    BY <1>4, <1>6 DEF Working, Stopping, Drained
  <2>1. helper.at \notin {"decided", "reporting"}
    BY DEF Base, ResultsStand
  <2>2. worker.at # "unwritten"
    BY DEF WorkerAlone, Working, Stopping, Drained
  <2>3. journal[worker.task].status = "running" /\ ~HandedOver(plan, worker.task)
    BY <1>1, <1>5, <2>2 DEF Known, HandedToOne
  <2> QED  BY <2>1, <2>3 DEF Known, HandedToOne
<1>8. HandedToOne'
  BY <1>1, <1>7 DEF Known, HandedToOne
<1>9. RescueStays'
  BY <1>1 DEF Known, RescueStays, IsUninstalled
<1>10. KeptUntilKnown'
  BY <1>1, <1>4 DEF Known, KeptUntilKnown, IsUninstalled, Settled
<1> QED  BY <1>3, <1>8, <1>9, <1>10 DEF Known

\* A new helper goes on where the plan and the journal say.
LEMMA LoadKnown == ASSUME Base, Known, Load PROVE Known'
<1>1. /\ helper.at = "loading" /\ NoNews /\ worker' = worker /\ UNCHANGED <<plan, data, rescue>>
  BY DEF Load, At, NoNews, disk
<1>2. rescue.enabled
  BY <1>1 DEF Known, RescueStays
<1>3. OneAtATime'
  BY <1>1 DEF Known, OneAtATime, NoNews, Settled, IsUninstalled
<1>4. \/ helper'.at = "gone"
      \/ /\ helper'.task = plan.task /\ plan.task \in Uninstalls
         /\ \/ helper'.at = "cleaning" /\ plan.phase = "acknowledged"
            \/ /\ HandedOver(plan, plan.task)
               /\ \/ helper'.at = "giving_up" /\ journal[plan.task].status = "failed"
                  \/ /\ helper'.at = "finish" /\ helper'.result = "succeeded"
                     /\ journal[plan.task].status = "succeeded"
                  \/ /\ helper'.at = "checked" /\ helper'.ready = ready
                     /\ journal[plan.task].status = "running"
  BY LoadedAt DEF Base
<1>5. HandedToOne'
  BY <1>1, <1>4 DEF Known, HandedToOne, NoNews, Working, Stopping, Drained
<1>6. RescueStays'
  BY <1>1, <1>2, <1>4 DEF Known, RescueStays, NoNews, IsUninstalled
<1>7. KeptUntilKnown'
  BY <1>1, <1>2 DEF Known, KeptUntilKnown, NoNews, Settled, IsUninstalled
<1> QED  BY <1>3, <1>5, <1>6, <1>7 DEF Known

LEMMA GiveUpKnown == ASSUME Base, Known, GiveUp PROVE Known'
<1>1. /\ helper.at = "giving_up" /\ helper.task \in Uninstalls
      /\ journal[helper.task].status = "failed" /\ Terminal(journal[helper.task])
      /\ helper'.at = "gone" /\ worker' = worker /\ UNCHANGED <<data, rescue>>
  BY DEF GiveUp, At, NoHelper, Base, ResultsStand, TypeOK, HelperType, Terminal
<1>2. /\ panel' = panel \/ ReportTask(helper.task)
      /\ journal' = journal \/ (AcknowledgeTask(helper.task) /\ ReportTask(helper.task))
  BY <1>1, GiveUpType DEF Base
<1>3. /\ \A u \in Uninstalls : journal'[u].status = journal[u].status
      /\ \A u \in Uninstalls \ {helper.task} : journal'[u].acked = journal[u].acked
  BY <1>1, <1>2, AcknowledgedTask DEF Base
<1>4. /\ OneAtATime' /\ (IsUninstalled => IsUninstalled')
      /\ \A u \in Uninstalls : Settled(u) => Settled(u)'
  <2>1. CASE ReportTask(helper.task)
    BY <1>1, <1>3, <2>1, ReportedKnown DEF Known
  <2>2. CASE panel' = panel /\ journal' = journal
    BY <1>1, <2>2 DEF Known, OneAtATime, Settled, IsUninstalled
  <2> QED  BY <1>2, <2>1, <2>2
<1>5. plan' \in {plan, [task |-> helper.task, old |-> 0, phase |-> "failed"]}
  BY <1>1, KeptPlan DEF GiveUp, Phases, Base
<1>6. worker.at # "idle" => worker.task \in Uninstalls
  BY DEF Base, TypeOK, WorkerType
<1>7. HandedToOne'
  BY <1>1, <1>3, <1>5, <1>6 DEF Known, HandedToOne, HandedOver, Working, Stopping, Drained
<1>8. RescueStays'
  BY <1>1, <1>4, <1>5 DEF Known, RescueStays
<1>9. KeptUntilKnown'
  BY <1>1, <1>3, <1>4 DEF Known, KeptUntilKnown
<1> QED  BY <1>4, <1>7, <1>8, <1>9 DEF Known

LEMMA RecordKnown == ASSUME Base, Known, Record PROVE Known'
<1>1. /\ helper.at = "finish" /\ helper.task \in Uninstalls
      /\ helper.result \in {"succeeded", "failed"}
      /\ journal' = [journal EXCEPT ![helper.task] = Decided(@, helper.result, 0)]
      /\ helper'.at = "decided" /\ helper'.task = helper.task /\ helper'.result = helper.result
      /\ panel' = panel /\ worker' = worker /\ UNCHANGED <<plan, data, rescue>>
  BY Moved DEF Record, At, Base, ResultsStand, TypeOK, HelperType
<1>2. journal[helper.task].status \in {"running", helper.result}
  BY <1>1 DEF Known, HandedToOne
<1>3. journal[helper.task].status # "none"
  BY <1>1 DEF Base, TasksAreTaken
<1>4. OneAtATime'
  BY <1>1, <1>2, <1>3, RecordedKnown DEF Known, SameWorker
<1>5. /\ \A u \in Uninstalls \ {helper.task} : journal'[u] = journal[u]
      /\ journal'[helper.task].status =
           IF Terminal(journal[helper.task]) THEN journal[helper.task].status ELSE helper.result
  BY <1>1, RecordedResult DEF Base
<1>6. journal'[helper.task].status = helper.result
  BY <1>1, <1>2, <1>5 DEF Terminal
<1>7. rescue.enabled
  BY <1>1 DEF Known, RescueStays
<1>8. worker.at # "idle" => worker.task \in Uninstalls
  BY DEF Base, TypeOK, WorkerType
<1>9. HandedToOne'
  BY <1>1, <1>5, <1>6, <1>8 DEF Known, HandedToOne, Working, Stopping, Drained
<1>10. RescueStays'
  BY <1>1, <1>7 DEF Known, RescueStays, IsUninstalled
<1>11. KeptUntilKnown'
  BY <1>1, <1>7 DEF Known, KeptUntilKnown, IsUninstalled, Settled
<1> QED  BY <1>4, <1>9, <1>10, <1>11 DEF Known

LEMMA SavePendingKnown == ASSUME Base, Known, SavePending PROVE Known'
<1>1. /\ helper.at = "decided" /\ helper.task \in Uninstalls
      /\ NoNews /\ worker' = worker /\ UNCHANGED <<data, rescue>>
  BY DEF SavePending, At, NoNews, Base, TypeOK, HelperType
<1>2. helper'.at = "reporting" /\ helper'.task = helper.task /\ helper'.result = helper.result
  BY Moved DEF SavePending, Base
<1>3. plan' \in {plan, [task |-> helper.task, old |-> 0, phase |-> "result_pending_ack"]}
  BY <1>1, KeptPlan DEF SavePending, Phases, Base
<1>4. Terminal(journal[helper.task])
  BY <1>1 DEF Base, ResultsStand
<1>5. OneAtATime'
  BY <1>1 DEF Known, OneAtATime, NoNews, Settled, IsUninstalled
<1>6. HandedToOne'
  BY <1>1, <1>2, <1>3, <1>4 DEF Known, HandedToOne, NoNews, HandedOver, Terminal, Working,
     Stopping, Drained
<1>7. RescueStays'
  BY <1>1, <1>2, <1>3 DEF Known, RescueStays, NoNews, IsUninstalled
<1>8. KeptUntilKnown'
  BY <1>1 DEF Known, KeptUntilKnown, NoNews, Settled, IsUninstalled
<1> QED  BY <1>5, <1>6, <1>7, <1>8 DEF Known

\* An acknowledged success is one the panel has.
LEMMA AcknowledgedKnown == ASSUME Base, Known, Acknowledged PROVE Known'
<1>1. /\ helper.at = "reporting" /\ helper.task \in Uninstalls /\ journal[helper.task].acked
      /\ NoNews /\ worker' = worker /\ UNCHANGED <<data, rescue>>
  BY DEF Acknowledged, Committed, At, NoNews, Base, TypeOK, HelperType
<1>2. Terminal(journal[helper.task]) /\ journal[helper.task].status = helper.result
  BY <1>1 DEF Base, ResultsStand, Known, HandedToOne
<1>3. panel.task[helper.task] = helper.result
  BY <1>1, <1>2 DEF Known, OneAtATime, Settled, Terminal
<1>4. \/ /\ helper.result = "succeeded" /\ helper'.at = "cleaning" /\ helper'.task = helper.task
         /\ plan' \in {plan, [task |-> helper.task, old |-> 0, phase |-> "acknowledged"]}
      \/ /\ helper'.at = "gone"
         /\ plan' \in {plan, [task |-> helper.task, old |-> 0, phase |-> "failed"]}
  <2>1. CASE helper.result = "succeeded"
    <3>1. Keep("acknowledged") /\ Move("cleaning")
      BY <2>1 DEF Acknowledged
    <3> QED  BY <1>1, <2>1, <3>1, KeptPlan, Moved DEF Phases, Base
  <2>2. CASE helper.result # "succeeded"
    <3>1. Keep("failed") /\ helper'.at = "gone"
      BY <2>2 DEF Acknowledged, NoHelper
    <3> QED  BY <1>1, <3>1, KeptPlan DEF Phases, Base
  <2> QED  BY <2>1, <2>2
<1>5. OneAtATime'
  BY <1>1 DEF Known, OneAtATime, NoNews, Settled, IsUninstalled
<1>6. HandedToOne'
  BY <1>1, <1>2, <1>4 DEF Known, HandedToOne, NoNews, HandedOver, Terminal, Working, Stopping,
     Drained
<1>7. RescueStays'
  BY <1>1, <1>3, <1>4 DEF Known, RescueStays, NoNews, IsUninstalled
<1>8. KeptUntilKnown'
  BY <1>1 DEF Known, KeptUntilKnown, NoNews, Settled, IsUninstalled
<1> QED  BY <1>5, <1>6, <1>7, <1>8 DEF Known

\* The unit goes when the only removal that succeeded is one the panel knows.
LEMMA CleanupKnown == ASSUME Base, Known, Cleanup PROVE Known'
<1>1. /\ helper.at \in {"cleaning", "clearing"} /\ IsUninstalled
      /\ NoNews /\ worker' = worker /\ plan' = plan
  BY DEF Cleanup, At, NoNews, Known, RescueStays
<1>2. helper'.at \in {"clearing", "gone"}
  BY Moved DEF Cleanup, NoHelper, Base
<1>3. \A t \in Uninstalls : journal[t].status = "succeeded" => Settled(t)
  <2>1. PICK u \in Uninstalls : panel.task[u] = "succeeded"
    BY <1>1 DEF IsUninstalled
  <2>2. journal[u].status = "succeeded" /\ Settled(u)
    BY <2>1 DEF Known, OneAtATime, Settled
  <2> QED  BY <2>2 DEF Known, OneAtATime
<1>4. OneAtATime'
  BY <1>1 DEF Known, OneAtATime, NoNews, Settled, IsUninstalled
<1>5. HandedToOne'
  BY <1>1, <1>2 DEF Known, HandedToOne, NoNews, Working, Stopping, Drained
<1>6. RescueStays'
  BY <1>1, <1>2 DEF Known, RescueStays, NoNews, IsUninstalled
<1>7. KeptUntilKnown'
  BY <1>1, <1>3 DEF KeptUntilKnown, NoNews, Settled, IsUninstalled
<1> QED  BY <1>4, <1>5, <1>6, <1>7 DEF Known

LEMMA InitKnown == Init => Known
<1> SUFFICES ASSUME Init PROVE Known
  OBVIOUS
<1>1. /\ \A t \in Uninstalls : /\ panel.task[t] = "none" /\ journal[t].status = "none"
                               /\ ~journal[t].acked
      /\ worker.at = "idle" /\ helper.at = "gone" /\ plan.phase = "none" /\ data = "present"
  BY DEF Init, NoWorker, NoHelper, NoPlan
<1>2. OneAtATime
  BY <1>1 DEF OneAtATime
<1>3. HandedToOne
  BY <1>1 DEF HandedToOne, Working, Stopping, Drained
<1>4. RescueStays
  BY <1>1 DEF RescueStays
<1>5. KeptUntilKnown
  BY <1>1 DEF KeptUntilKnown
<1> QED  BY <1>2, <1>3, <1>4, <1>5 DEF Known

LEMMA StepKnown ==
  ASSUME "handoff_misleads" \notin Mishaps, Base, WorkerAlone, Known, [Next]_vars
  PROVE  Known'
<1>1. CASE Panel
  BY <1>1, EnqueueKnown, TakeTaskKnown DEF Panel
<1>2. CASE Worker
  BY <1>2, SavePlanKnown, HandOverKnown, HandOverFailsKnown, RefuseKnown DEF Worker
<1>3. CASE Daemon
  BY <1>3, StartDaemonKnown, BecomeReadyKnown, ConnectKnown, DaemonReportsKnown, TrafficKnown,
     CollectKnown, FlushUsageKnown DEF Daemon
<1>4. CASE HelperStep
  BY <1>4, LoadKnown, GiveUpKnown, SaveStoppingKnown, CheckProcessKnown, HaltKnown,
     SaveDrainingKnown, DrainKnown, SaveRemovingKnown, RemoveServiceKnown, RecordKnown,
     SavePendingKnown, HelperReportsKnown, AcknowledgedKnown, CleanupKnown DEF HelperStep
<1>5. CASE Environment
  BY <1>5, RestartHelperKnown, KillHelperKnown, CrashKnown, LoseSessionKnown, RebootKnown DEF
     Environment
<1>6. CASE UNCHANGED vars
  <2>1. /\ NoNews /\ SameWorker /\ UNCHANGED <<plan, data, rescue>> /\ helper' = helper
    BY <1>6 DEF vars, NoNews, SameWorker
  <2> QED  BY <2>1, QuietKnown
<1> QED  BY <1>1, <1>2, <1>3, <1>4, <1>5, <1>6 DEF Next

\* Until the panel has the result of a removal (uninstall.go finish, cleanupUninstall),
\* the identity, the data and the helper's unit are kept, unless a handover failed
\* although a helper had its plan, an earlier one or one it had started.
THEOREM KeptUntilThePanelKnows ==
  ASSUME "handoff_misleads" \notin Mishaps
  PROVE  Spec => []KeptUntilKnown
<1>1. Known => KeptUntilKnown
  BY DEF Known
<1>2. Base /\ WorkerAlone /\ Known /\ [Next]_vars => Known'
  BY StepKnown
<1>3. Init => WorkerAlone
  BY DEF Init, WorkerAlone, NoWorker
<1>4. Base /\ WorkerAlone /\ [Next]_vars => WorkerAlone'
  BY WorkerAloneStep
<1> QED  BY <1>1, <1>2, <1>3, <1>4, InitKnown, SpecBase, PTL DEF Spec
================================================================================
