----------------------------- MODULE TaskDelivery -----------------------------
(***************************************************************************)
(* How a task reaches a node and its result comes back: the machine and    *)
(* task rows of the panel (apps/web/src/server/modules/machines/store.ts   *)
(* behind rpc/machine-service.ts), the task journal of the node            *)
(* (services/daemon/internal/state/tasks.go) and the two threads of the    *)
(* daemon that call the panel (the session loop and the task worker of     *)
(* internal/panelclient).                                                  *)
(*                                                                         *)
(* The panel handles one request at a time.  A call can fail in two ways   *)
(* the caller cannot tell apart: the reply is lost, or the request is      *)
(* still on its way and is handled later.  The daemon can stop at any      *)
(* point; the rows, the journal and the identity survive.                  *)
(*                                                                         *)
(* Abstractions.  One machine.  Tasks are numbered in the order of their   *)
(* creation.  A payload always matches its digest, and request keys are    *)
(* left out.  The digest of a report stands for its state.  Tasks that a   *)
(* maintenance helper finishes (upgrade, uninstall) are left out, and with *)
(* them isUninstalled, which is false throughout.  What a task does to the *)
(* core is in CoreSwitch.tla, the usage that the session loop also sends   *)
(* in UsageLedger.tla.                                                     *)
(*                                                                         *)
(* Definitions marked "Fault" are plausible mistakes in the definition     *)
(* after them, used to show that the properties can fail.                  *)
(***************************************************************************)
EXTENDS Naturals, Sequences, TLC

CONSTANTS
    MaxTasks,    \* bound: tasks created
    MaxSession,  \* bound: session epochs
    MaxToken,    \* bound: token generations, and with them rebinds
    MaxFaults,   \* bound: failed calls, lost streams, crashes
    Kinds,       \* the kinds of task the administrator creates
    LongBackoff  \* the pause between sessions has grown past a call

ASSUME DeliveryAssumption ==
    /\ MaxTasks \in Nat /\ MaxSession \in Nat /\ MaxFaults \in Nat
    /\ MaxToken \in Nat \ {0}  \* a machine is created with a token
    /\ Kinds \subseteq {"inspect", "apply"}
    /\ LongBackoff \in BOOLEAN

VARIABLES
    machine,  \* the machine row of the panel
    tasks,    \* the task rows of the panel, in creation order
    stream,   \* the panel's side of the newest WatchTasks call
    node,     \* identity.json and daemon.json of the node
    journal,  \* the task journal of the node
    up,       \* the daemon process runs
    exit,     \* exit.json: how the last daemon process ended
    session,  \* the session loop
    worker,   \* the task worker
    jobs,     \* Client.jobs: tasks waiting for the worker
    queued,   \* Client.queued
    failure,  \* Client.failures, a channel of capacity 1
    call,     \* the call each thread of the node is waiting for
    late,     \* requests whose caller has given up
    faults    \* number of faults so far

panel == <<machine, tasks, stream>>
disk == <<node, journal, exit>>
threads == <<session, worker, jobs, queued, failure>>
vars == <<panel, disk, up, threads, call, late, faults>>

TaskIds == 1..MaxTasks
Callers == {"session", "worker"}
Active == {"accepted", "running"}
Final == {"succeeded", "failed"}

NoCall == [kind |-> "none"]
Idle == [pc |-> "idle", task |-> 0, epoch |-> 0]
Off == [pc |-> "off", epoch |-> 0, todo |-> {}, task |-> 0]
NoStream == [epoch |-> 0, announced |-> 0, events |-> <<>>]
Unknown == [status |-> "none", seq |-> 0, acked |-> FALSE]

--------------------------------------------------------------------------------
(***************************************************************************)
(* The panel                                                               *)
(***************************************************************************)
Created == 1..Len(tasks)
Bound(t) == t \in Created /\ tasks[t].binding = machine.binding

Cancel(rows) ==
    [t \in DOMAIN rows |->
        IF rows[t].state = "queued" THEN [rows[t] EXCEPT !.state = "canceled"]
        ELSE rows[t]]

\* Fault: queued work is coalesced with work that is already accepted.
SupersedesAccepted(t, kind) ==
    /\ kind = "apply" /\ Bound(t) /\ tasks[t].kind = "apply"
    /\ tasks[t].state \in {"queued", "accepted"}

\* A new configuration task replaces those that are still queued.
Supersedes(t, kind) ==
    /\ kind = "apply" /\ Bound(t) /\ tasks[t].kind = "apply"
    /\ tasks[t].state = "queued"

EnqueueTask(kind) ==
    /\ ~machine.removed /\ machine.installation # 0
    /\ Len(tasks) < MaxTasks
    /\ tasks' = Append([t \in Created |->
                           IF Supersedes(t, kind)
                           THEN [tasks[t] EXCEPT !.state = "superseded"]
                           ELSE tasks[t]],
                       [kind |-> kind, state |-> "queued",
                        binding |-> machine.binding, seq |-> 0])
    /\ UNCHANGED <<machine, stream, disk, up, threads, call, late, faults>>

NothingActive == \A t \in Created : tasks[t].state \notin Active

\* rebind, then hub.close
Rebind ==
    /\ ~machine.removed /\ NothingActive
    /\ machine.token < MaxToken /\ machine.session < MaxSession
    /\ machine' = [machine EXCEPT !.installation = 0, !.binding = @ + 1,
                                  !.session = @ + 1, !.token = @ + 1]
    /\ tasks' = Cancel(tasks)
    /\ stream' = NoStream
    /\ UNCHANGED <<disk, up, threads, call, late, faults>>

ResetToken ==
    /\ ~machine.removed
    /\ machine.token < MaxToken /\ machine.session < MaxSession
    /\ machine' = [machine EXCEPT !.session = @ + 1, !.token = @ + 1]
    /\ stream' = NoStream
    /\ UNCHANGED <<tasks, disk, up, threads, call, late, faults>>

Remove ==
    /\ ~machine.removed /\ machine.session < MaxSession
    /\ machine' = [machine EXCEPT !.removed = TRUE, !.session = @ + 1]
    /\ tasks' = Cancel(tasks)
    /\ stream' = NoStream
    /\ UNCHANGED <<disk, up, threads, call, late, faults>>

Authenticated(r) == ~machine.removed /\ r.token = machine.token

\* assertInstallation with allowInitial ...
MayEnroll(r) ==
    IF machine.installation = 0 THEN r.binding = 0
    ELSE r.installation = machine.installation /\ r.binding \in {0, machine.binding}

\* ... and without it
Enrolled(r) ==
    /\ machine.installation # 0
    /\ r.installation = machine.installation /\ r.binding = machine.binding

Unsettled(t) == t \in Created /\ tasks[t].state \in Active \cup {"queued"}

\* Fault: a task that was accepted is not announced again.
PendingQueued(t) ==
    /\ Bound(t) /\ tasks[t].state = "queued"
    /\ \A u \in Created : Bound(u) /\ Unsettled(u) => t <= u

\* pending: the first such task of the binding.
Pending(t) ==
    /\ Bound(t) /\ Unsettled(t)
    /\ \A u \in Created : Bound(u) /\ Unsettled(u) => t <= u

StreamCurrent == stream.epoch # 0 /\ stream.epoch = machine.session

\* One round of the loop of watchTasks, after a wake-up or a database scan.
Announce(t) ==
    /\ StreamCurrent /\ Pending(t) /\ stream.announced # t
    /\ stream' = [stream EXCEPT !.announced = t, !.events = Append(@, t)]
    /\ UNCHANGED <<machine, tasks, disk, up, threads, call, late, faults>>

\* What the panel does with a request: the rows and the stream it leaves, and
\* its reply.  "fatal" is Unauthenticated or PermissionDenied.
Reply(code) == [kind |-> "reply", code |-> code, epoch |-> 0, binding |-> 0,
                seq |-> 0, terminal |-> FALSE]

Outcome(rows, reply) ==
    [machine |-> machine, tasks |-> rows, stream |-> stream, reply |-> reply]

\* Fault: every session is a new binding.
BindingPerSession == machine.binding + 1

\* bind: the first enrolment of a machine starts its first binding.
CurrentBinding == IF machine.binding = 0 THEN 1 ELSE machine.binding

\* watchTasks up to the session event: bind and hub.open.
WatchTasks(r) ==
    LET epoch == machine.session + 1
    IN  IF MayEnroll(r)
        THEN [machine |-> [machine EXCEPT !.installation = r.installation,
                                          !.binding = CurrentBinding, !.session = epoch],
              tasks |-> tasks,
              stream |-> [NoStream EXCEPT !.epoch = epoch],
              reply |-> [Reply("ok") EXCEPT !.epoch = epoch, !.binding = CurrentBinding]]
        ELSE Outcome(tasks, Reply("error"))

\* The checks of acceptTask and accept.
Acceptable(r) ==
    /\ Enrolled(r) /\ r.epoch = machine.session
    /\ Bound(r.task) /\ tasks[r.task].state \in Active \cup {"queued"}
    /\ tasks[r.task].state = "queued" => NothingActive

AcceptTask(r) ==
    IF Acceptable(r)
    THEN Outcome([tasks EXCEPT ![r.task].state = IF @ = "queued" THEN "accepted" ELSE @],
                 [Reply("ok") EXCEPT !.binding = tasks[r.task].binding])
    ELSE Outcome(tasks, Reply("error"))

Committed(rows, t) == [Reply("ok") EXCEPT !.seq = rows[t].seq,
                                          !.terminal = rows[t].state \in Final]

\* Only the task in progress takes reports.
Recordable(r) == r.seq > tasks[r.task].seq /\ tasks[r.task].state \in Active

Recorded(r) == [tasks EXCEPT ![r.task].state = r.state, ![r.task].seq = r.seq]

\* A number that is known is answered with what is recorded, unless its report
\* was another one.
ReportTask(r) ==
    IF ~Enrolled(r) \/ ~Bound(r.task) THEN Outcome(tasks, Reply("error"))
    ELSE IF Recordable(r) THEN Outcome(Recorded(r), Committed(Recorded(r), r.task))
    ELSE IF \/ r.seq > tasks[r.task].seq
            \/ r.seq = tasks[r.task].seq /\ r.state # tasks[r.task].state
    THEN Outcome(tasks, Reply("error"))
    ELSE Outcome(tasks, Committed(tasks, r.task))

\* requestGate and authenticate, then the handler.
Handle(r) ==
    IF ~Authenticated(r) THEN Outcome(tasks, Reply("fatal"))
    ELSE CASE r.kind = "watch" -> WatchTasks(r)
           [] r.kind = "accept" -> AcceptTask(r)
           [] r.kind = "report" -> ReportTask(r)

--------------------------------------------------------------------------------
(***************************************************************************)
(* Calls                                                                   *)
(***************************************************************************)
\* What the node signs its requests with
WatchRequest ==
    [kind |-> "watch", installation |-> node.installation, binding |-> node.binding,
     token |-> node.token]
AcceptRequest(t, e) ==
    [kind |-> "accept", installation |-> node.installation, binding |-> node.binding,
     token |-> node.token, task |-> t, epoch |-> e]
ReportRequest(t, s, n) ==
    [kind |-> "report", installation |-> node.installation, binding |-> node.binding,
     token |-> node.token, task |-> t, state |-> s, seq |-> n]

IsRequest(r) == r.kind \in {"watch", "accept", "report"}
Answered(c) == call[c].kind = "reply"
Sends(c, r) == call' = [call EXCEPT ![c] = r]
Done(c) == call' = [call EXCEPT ![c] = NoCall]

Executes(r) ==
    /\ r.kind = "watch" => machine.session < MaxSession
    /\ machine' = Handle(r).machine
    /\ tasks' = Handle(r).tasks
    /\ stream' = Handle(r).stream

\* The panel handles a call and the caller will see the reply.
Deliver(c) ==
    /\ IsRequest(call[c])
    /\ Executes(call[c])
    /\ call' = [call EXCEPT ![c] = Handle(call[c]).reply]
    /\ UNCHANGED <<disk, up, threads, late, faults>>

\* The panel handles a request whose caller has given up.
DeliverLate(r) ==
    /\ Executes(r)
    /\ late' = late \ {r}
    /\ UNCHANGED <<disk, up, threads, call, faults>>

MayFail == faults < MaxFaults /\ faults' = faults + 1

\* A call fails for its caller: the reply is lost, or a timeout expires while
\* the request is on its way (late) or never to arrive.
Fails(c) ==
    /\ call[c] # NoCall /\ MayFail
    /\ call' = [call EXCEPT ![c] = Reply("error")]
    /\ \/ UNCHANGED late
       \/ IsRequest(call[c]) /\ late' = late \cup {call[c]}
    /\ UNCHANGED <<panel, disk, up, threads>>

--------------------------------------------------------------------------------
(***************************************************************************)
(* The daemon process                                                      *)
(***************************************************************************)

\* The process is gone: its threads with it, and the calls they waited for are
\* lost or still to be handled.
Vanish ==
    /\ up' = FALSE
    /\ session' = Off /\ worker' = Idle /\ jobs' = <<>>
    /\ queued' = {} /\ failure' = "none"
    /\ call' = [c \in Callers |-> NoCall]
    /\ \E coming \in SUBSET {c \in Callers : IsRequest(call[c])} :
          late' = late \cup {call[c] : c \in coming}

Crash ==
    /\ up /\ MayFail /\ Vanish
    /\ UNCHANGED <<panel, disk>>

\* systemd restarts the daemon.
Start ==
    /\ ~up
    /\ up' = TRUE
    /\ UNCHANGED <<panel, disk, threads, call, late, faults>>

\* The operator gives the node the token that the panel now shows.
Reconfigure ==
    /\ ~up /\ node.token # machine.token
    /\ node' = [node EXCEPT !.token = machine.token]
    /\ UNCHANGED <<panel, journal, up, exit, threads, call, late, faults>>

\* After a rebind: a new installation, with an empty state directory.
Reinstall ==
    /\ ~up /\ machine.installation = 0 /\ ~machine.removed
    /\ node.token # machine.token
    /\ node' = [installation |-> machine.token, binding |-> 0,
                token |-> machine.token]  \* a name no installation had before
    /\ journal' = [t \in TaskIds |-> Unknown]
    /\ exit' = "none"
    /\ UNCHANGED <<panel, up, threads, call, late, faults>>

--------------------------------------------------------------------------------
(***************************************************************************)
(* The session loop                                                        *)
(***************************************************************************)

\* session returns an error, with left still in the failures channel: Run
\* connects again, or ends the process.  A binding that cannot be written ends it
\* as a conflict does; it is told apart here, because nothing disagrees then.
SessionEnds(code, left) ==
    \/ /\ code = "error"
       /\ session' = Off
       /\ failure' = left
       /\ Done("session")
       /\ UNCHANGED <<disk, up, worker, jobs, queued, late>>
    \/ /\ code # "error"
       /\ exit' = CASE code = "fatal" -> "authentication_rejected"
                    [] code = "unsaved" -> "binding_unsaved"
                    [] OTHER -> "protocol_conflict"
       /\ Vanish
       /\ UNCHANGED <<node, journal>>

\* Run waits longer after every failed session, up to 30 s: long enough for the
\* worker to take a job and to accept it or give up, which takes it 15 s.
Connect ==
    /\ up /\ session.pc = "off"
    /\ LongBackoff => worker.pc # "accept" /\ (worker.pc = "idle" => jobs = <<>>)
    /\ session' = [session EXCEPT !.pc = "watch"]
    /\ Sends("session", WatchRequest)
    /\ UNCHANGED <<panel, disk, up, worker, jobs, queued, failure, late, faults>>

\* SaveBinding: the first epoch is kept for ever.
BindingAgrees(b) == node.binding \in {0, b}

\* The session event: SaveBinding, then the first report.
Greet ==
    /\ session.pc = "watch" /\ Answered("session")
    /\ call["session"].code = "ok" /\ BindingAgrees(call["session"].binding)
    /\ node' = [node EXCEPT !.binding = call["session"].binding]
    /\ session' = [session EXCEPT !.pc = "report", !.epoch = call["session"].epoch]
    /\ Done("session")
    /\ UNCHANGED <<panel, journal, exit, up, worker, jobs, queued, failure,
                   late, faults>>

\* WatchTasks failed, or its binding is not the one saved.
ConnectionRefused(r) ==
    \/ r.code # "ok" /\ SessionEnds(r.code, failure)
    \/ r.code = "ok" /\ ~BindingAgrees(r.binding) /\ SessionEnds("conflict", failure)

\* SaveBinding has a first binding to write and cannot.
BindingUnsaved(r) ==
    r.code = "ok" /\ node.binding = 0 /\ MayFail /\ SessionEnds("unsaved", failure)

ConnectFails ==
    /\ session.pc = "watch" /\ Answered("session")
    /\ \/ ConnectionRefused(call["session"]) /\ UNCHANGED faults
       \/ BindingUnsaved(call["session"])
    /\ UNCHANGED panel

\* PendingResults.  They are of the binding the node is in, which flushResults
\* checks: the journal of another one is emptied with the installation.
Unacknowledged ==
    {t \in TaskIds : journal[t].status \in Final /\ ~journal[t].acked}

\* report: on the session event, and from the ticker when there is something to
\* send.  ReportStatus needs the current session; then flushResults starts.
BeginReport ==
    /\ \/ session.pc = "report"
       \/ session.pc = "open" /\ Unacknowledged # {}
    /\ Authenticated(node) /\ machine.session = session.epoch
    /\ session' = [session EXCEPT !.pc = "flush", !.todo = Unacknowledged]
    /\ UNCHANGED <<panel, disk, up, worker, jobs, queued, failure, call, late, faults>>

FlushResult(t) ==
    /\ session.pc = "flush" /\ t \in session.todo /\ call["session"] = NoCall
    /\ Sends("session", ReportRequest(t, journal[t].status, journal[t].seq))
    /\ session' = [session EXCEPT !.pc = "sent", !.todo = @ \ {t},
                                  !.task = t]
    /\ UNCHANGED <<panel, disk, up, worker, jobs, queued, failure, late, faults>>

Flushed ==
    /\ session.pc = "flush" /\ session.todo = {}
    /\ session' = [session EXCEPT !.pc = "open"]
    /\ UNCHANGED <<panel, disk, up, worker, jobs, queued, failure, call, late, faults>>

--------------------------------------------------------------------------------
(***************************************************************************)
(* Results                                                                 *)
(***************************************************************************)

\* reportResult: the reply must be for this very result.
Receipt(r, t) == r.terminal /\ r.seq = journal[t].seq

Acknowledge(t) == journal' = [journal EXCEPT ![t].acked = TRUE]

\* Transition: final results stay, every other step counts.
TransitionTo(t, status) ==
    IF journal[t].status \in Final THEN journal
    ELSE [journal EXCEPT ![t].status = status, ![t].seq = @ + 1]

\* Fault: a failed call counts as the receipt.
ResultFlushedAnyway ==
    /\ session.pc = "sent" /\ Answered("session")
    /\ Acknowledge(session.task)
    /\ session' = [session EXCEPT !.pc = "flush", !.task = 0]
    /\ Done("session")
    /\ UNCHANGED <<panel, node, exit, up, worker, jobs, queued, failure, late, faults>>

ResultFlushed ==
    /\ session.pc = "sent" /\ Answered("session")
    /\ call["session"].code = "ok" /\ Receipt(call["session"], session.task)
    /\ Acknowledge(session.task)
    /\ session' = [session EXCEPT !.pc = "flush", !.task = 0]
    /\ Done("session")
    /\ UNCHANGED <<panel, node, exit, up, worker, jobs, queued, failure, late, faults>>

FlushFails ==
    /\ session.pc = "sent" /\ Answered("session")
    /\ LET r == call["session"]
       IN  \/ r.code # "ok" /\ SessionEnds(r.code, failure)
           \/ /\ r.code = "ok" /\ ~Receipt(r, session.task)
              /\ SessionEnds("conflict", failure)
    /\ UNCHANGED <<panel, faults>>

\* queueTask ignores a task that waits or runs.
NotQueued(t) == t \notin queued

\* A task event of the stream.
Notice ==
    /\ session.pc = "open" /\ stream.epoch = session.epoch /\ stream.events # <<>>
    /\ LET t == Head(stream.events)
       IN  IF NotQueued(t)
           THEN /\ queued' = queued \cup {t}
                /\ jobs' = Append(jobs, [task |-> t, epoch |-> session.epoch])
           ELSE UNCHANGED <<queued, jobs>>
    /\ stream' = [stream EXCEPT !.events = Tail(@)]
    /\ UNCHANGED <<machine, tasks, disk, up, session, worker, failure, call, late,
                   faults>>

\* The worker's last error ends the session.
TakeFailure ==
    /\ session.pc = "open" /\ failure # "none"
    /\ SessionEnds(failure, "none")
    /\ UNCHANGED <<panel, faults>>

\* The panel has closed the stream or refuses the session's status.
Evicted ==
    /\ session.pc \in {"report", "open"}
    /\ ~Authenticated(node) \/ machine.session # session.epoch
    /\ SessionEnds(IF Authenticated(node) THEN "error" ELSE "fatal", failure)
    /\ UNCHANGED <<panel, faults>>

\* The connection breaks, or no heartbeat arrives in time.
Disconnect ==
    /\ session.pc \in {"report", "open"} /\ MayFail
    /\ SessionEnds("error", failure)
    /\ UNCHANGED panel

--------------------------------------------------------------------------------
(***************************************************************************)
(* The task worker                                                         *)
(***************************************************************************)
WorkerAt(pc) == worker' = [worker EXCEPT !.pc = pc]

\* execute returned: the task leaves the queued set, an error goes to the
\* channel unless one is there.
JobDone(code) ==
    /\ worker' = Idle
    /\ queued' = queued \ {worker.task}
    /\ failure' = IF code = "ok" \/ failure # "none" THEN failure ELSE code
    /\ UNCHANGED <<session, jobs>>

TakeJob ==
    /\ up /\ worker.pc = "idle" /\ jobs # <<>>
    /\ worker' = [pc |-> "accept", task |-> Head(jobs).task,
                  epoch |-> Head(jobs).epoch]
    /\ jobs' = Tail(jobs)
    /\ Sends("worker", AcceptRequest(Head(jobs).task, Head(jobs).epoch))
    /\ UNCHANGED <<panel, disk, up, session, queued, failure, late, faults>>

\* store.Accept: journalled before anything is done, old progress is kept.
JournalTask ==
    /\ worker.pc = "accept" /\ Answered("worker")
    /\ call["worker"].code = "ok" /\ call["worker"].binding = node.binding
    /\ journal' = [journal EXCEPT ![worker.task].status =
                      IF @ = "none" THEN "accepted" ELSE @]
    /\ WorkerAt("journalled")
    /\ Done("worker")
    /\ UNCHANGED <<panel, node, exit, up, session, jobs, queued, failure, late, faults>>

AcceptFails ==
    /\ worker.pc = "accept" /\ Answered("worker")
    /\ LET r == call["worker"]
       IN  \/ r.code # "ok" /\ JobDone(r.code)
           \/ r.code = "ok" /\ r.binding # node.binding /\ JobDone("conflict")
    /\ Done("worker")
    /\ UNCHANGED <<panel, disk, up, late, faults>>

\* Fault: what the journal says of an earlier execution is not looked at.
NeverExecuted(t) == FALSE

Executed(t) == journal[t].status \in Final

SendResult(t) ==
    Sends("worker", ReportRequest(t, journal'[t].status, journal'[t].seq))

\* A task with a result is reported again, never executed again.
Resend ==
    /\ worker.pc = "journalled" /\ Executed(worker.task)
    /\ UNCHANGED journal
    /\ SendResult(worker.task)
    /\ WorkerAt("report")
    /\ UNCHANGED <<panel, node, exit, up, session, jobs, queued, failure, late, faults>>

\* The progress report: its answer, or its failure, is ignored.
Begin ==
    /\ worker.pc = "journalled" /\ ~Executed(worker.task)
    /\ journal' = TransitionTo(worker.task, "running")
    /\ SendResult(worker.task)
    /\ WorkerAt("progress")
    /\ UNCHANGED <<panel, node, exit, up, session, jobs, queued, failure, late, faults>>

Progressed ==
    /\ worker.pc = "progress" /\ Answered("worker")
    /\ Done("worker")
    /\ WorkerAt("perform")
    /\ UNCHANGED <<panel, disk, up, session, jobs, queued, failure, late, faults>>

\* The operation ends and its result is journalled, then reported.
Perform(status) ==
    /\ worker.pc = "perform"
    /\ journal' = TransitionTo(worker.task, status)
    /\ SendResult(worker.task)
    /\ WorkerAt("report")
    /\ UNCHANGED <<panel, node, exit, up, session, jobs, queued, failure, late, faults>>

ResultReported ==
    /\ worker.pc = "report" /\ Answered("worker")
    /\ call["worker"].code = "ok" /\ Receipt(call["worker"], worker.task)
    /\ Acknowledge(worker.task)
    /\ JobDone("ok")
    /\ Done("worker")
    /\ UNCHANGED <<panel, node, exit, up, late, faults>>

ReportFails ==
    /\ worker.pc = "report" /\ Answered("worker")
    /\ LET r == call["worker"]
       IN  \/ r.code # "ok" /\ JobDone(r.code)
           \/ r.code = "ok" /\ ~Receipt(r, worker.task) /\ JobDone("conflict")
    /\ Done("worker")
    /\ UNCHANGED <<panel, disk, up, late, faults>>

--------------------------------------------------------------------------------
Init ==
    /\ machine = [installation |-> 0, binding |-> 0, session |-> 0, token |-> 1,
                  removed |-> FALSE]
    /\ tasks = <<>>
    /\ stream = NoStream
    /\ node = [installation |-> 1, binding |-> 0, token |-> 1]
    /\ journal = [t \in TaskIds |-> Unknown]
    /\ up = FALSE /\ exit = "none"
    /\ session = Off /\ worker = Idle
    /\ jobs = <<>> /\ queued = {} /\ failure = "none"
    /\ call = [c \in Callers |-> NoCall] /\ late = {}
    /\ faults = 0

Administrator ==
    \/ \E kind \in Kinds : EnqueueTask(kind)
    \/ Rebind \/ ResetToken \/ Remove

Panel == \/ \E t \in TaskIds : Announce(t)
         \/ \E c \in Callers : Deliver(c)

Operator == Reconfigure \/ Reinstall

Session ==
    \/ Connect \/ Greet \/ ConnectFails
    \/ BeginReport \/ Flushed \/ ResultFlushed \/ FlushFails
    \/ \E t \in TaskIds : FlushResult(t)
    \/ Notice \/ TakeFailure \/ Evicted

Worker ==
    \/ TakeJob \/ JournalTask \/ AcceptFails
    \/ Resend \/ Begin \/ Progressed
    \/ \E status \in Final : Perform(status)
    \/ ResultReported \/ ReportFails

Faults ==
    \/ \E c \in Callers : Fails(c)
    \/ \E r \in late : DeliverLate(r)
    \/ Crash \/ Disconnect

Next ==
    \/ Administrator \/ Panel \/ Start \/ Operator
    \/ Session \/ Worker \/ Faults

Spec == Init /\ [][Next]_vars

\* The panel scans its database and serves its calls, systemd restarts the
\* daemon, and its threads go on while they can.
FairSpec ==
    /\ Spec
    /\ \A t \in TaskIds : WF_vars(Announce(t))
    /\ \A c \in Callers : WF_vars(Deliver(c))
    /\ WF_vars(Start) /\ WF_vars(Session) /\ WF_vars(Worker)

--------------------------------------------------------------------------------
States == Active \cup Final \cup {"queued", "canceled", "superseded"}
Codes == {"ok", "error", "fatal"}
Epochs == 0..MaxSession

RowType == [kind: Kinds, state: States, binding: 0..MaxToken, seq: Nat]
SignedType(r) == r.installation \in 0..MaxToken /\ r.binding \in 0..MaxToken
                 /\ r.token \in 1..MaxToken
RequestType(r) ==
    /\ IsRequest(r) /\ SignedType(r)
    /\ \/ r.kind = "watch"
       \/ r.kind = "accept" /\ r.task \in TaskIds /\ r.epoch \in Epochs
       \/ /\ r.kind = "report" /\ r.task \in TaskIds
          /\ r.state \in Final \cup {"running"} /\ r.seq \in Nat
Replies == [kind: {"reply"}, code: Codes, epoch: Epochs, binding: 0..MaxToken,
            seq: Nat, terminal: BOOLEAN]

PanelType ==
    /\ machine \in [installation: 0..MaxToken, binding: 0..MaxToken, session: Epochs,
                    token: 1..MaxToken, removed: BOOLEAN]
    /\ tasks \in Seq(RowType) /\ Len(tasks) <= MaxTasks
    /\ stream \in [epoch: Epochs, announced: 0..MaxTasks, events: Seq(TaskIds)]

NodeType ==
    /\ node \in [installation: 1..MaxToken, binding: 0..MaxToken, token: 1..MaxToken]
    /\ journal \in [TaskIds -> [status: Active \cup Final \cup {"none"}, seq: Nat,
                                acked: BOOLEAN]]
    /\ up \in BOOLEAN
    /\ exit \in {"none", "authentication_rejected", "binding_unsaved", "protocol_conflict"}

ThreadType ==
    /\ session \in [pc: {"off", "watch", "report", "flush", "sent", "open"},
                    epoch: Epochs, todo: SUBSET TaskIds, task: 0..MaxTasks]
    /\ worker \in [pc: {"idle", "accept", "journalled", "progress", "perform",
                        "report"}, task: 0..MaxTasks, epoch: Epochs]
    /\ jobs \in Seq([task: TaskIds, epoch: Epochs])
    /\ queued \subseteq TaskIds
    /\ failure \in {"none", "error", "fatal", "conflict"}
    /\ DOMAIN call = Callers
    /\ \A c \in Callers : call[c] = NoCall \/ call[c] \in Replies \/ RequestType(call[c])
    /\ \A r \in late : RequestType(r)
    /\ faults \in 0..MaxFaults

\* The ranges of the variables: no binding, and no token a node signs with, that
\* the panel has not issued.
TypeOK == PanelType /\ NodeType /\ ThreadType

\* The panel shows no result that its node has not journalled first, with the
\* same outcome under the same number (executor.go execute and reportResult,
\* store.ts reportTask).
ResultsAreJournalled ==
    \A t \in Created :
        /\ Bound(t) /\ node.installation = machine.installation
        /\ tasks[t].state \in Final
        => journal[t].status = tasks[t].state /\ journal[t].seq = tasks[t].seq

\* The node stops reporting a result only when the panel has that very result
\* (executor.go reportResult, tasks.go AcknowledgeTask).
ReceiptsAreTrue ==
    \A t \in TaskIds :
        journal[t].acked => /\ t \in Created
                            /\ tasks[t].state = journal[t].status
                            /\ tasks[t].seq = journal[t].seq

\* Panel and node agree on every result: none is shown that is not journalled,
\* and none is thought delivered that is not shown.
ResultsAgree == ResultsAreJournalled /\ ReceiptsAreTrue

\* While the node works on a task, the panel holds that task and no other as
\* the one in progress: it cannot be superseded, canceled or taken to another
\* installation (store.ts accept, rebind, enqueueTask).
HeldWhileWorking ==
    \A t \in TaskIds :
        worker.task = t /\ worker.pc \in {"progress", "perform"}
        => \A u \in Created : tasks[u].state \in Active <=> u = t

\* A task whose result is journalled is not executed again (tasks.go
\* Transition; docs/ARCHITECTURE.md: results may be sent again, not executed
\* again).
NeverExecutedAgain ==
    worker.pc \in {"progress", "perform"} => journal[worker.task].status = "running"

\* Crashes, late requests and two threads that report the same result never
\* make the daemon give up because the two sides disagree (main.go, client.go Run).
NoConflict == exit # "protocol_conflict"

\* A machine that is not removed settles every task: no announcement is lost for
\* good, whatever calls fail and processes stop (client.go queueTask and
\* taskWorker, machine-service.ts watchTasks).  Checked with MaxToken = 1: a node
\* whose token was reset waits for its operator, not for the code.
EveryTaskSettles ==
    \A t \in TaskIds : Unsettled(t) ~> (~Unsettled(t) \/ machine.removed)
================================================================================
