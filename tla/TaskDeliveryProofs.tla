-------------------------- MODULE TaskDeliveryProofs --------------------------
(***************************************************************************)
(* TaskDelivery.tla for every number of tasks, sessions, tokens and        *)
(* faults: panel and node agree on every result, a task is held while the  *)
(* node works on it and not executed again, and the daemon never gives up  *)
(* with a conflict.                                                        *)
(*                                                                         *)
(* A request is handled long after it was sent, by a panel that may have   *)
(* been rebound since.  RequestStands says what every request on its way   *)
(* still tells the truth about: only the newest token is authenticated,    *)
(* and under it a request names the installation and the binding of the    *)
(* node as it is now, and a report says what the journal says now, or is   *)
(* an older progress report.  The journal and the finished rows only move  *)
(* forward, so that the answers on their way stay true as well.            *)
(***************************************************************************)
EXTENDS TaskDelivery, SequenceTheorems, TLAPS

Installed == machine.installation # 0

AllRequests == late \cup {call[c] : c \in {d \in Callers : IsRequest(call[d])}}

\* A report that the journal still vouches for
ReportStands(r) ==
    \/ /\ r.seq = journal[r.task].seq /\ r.state = journal[r.task].status
    \/ /\ r.seq < journal[r.task].seq /\ r.state = "running"

RequestStands(r) ==
    /\ RequestType(r)
    /\ r.installation <= r.token /\ r.token <= node.token
    /\ r.token = node.token => r.installation = node.installation
    /\ r.installation = node.installation =>
          /\ r.binding \in {0, node.binding}
          /\ r.kind = "report" => ReportStands(r)
    /\ ~Installed /\ r.token = machine.token => r.binding = node.binding

\* The panel knows no other installation than the node's, and no other binding.
NodeStands ==
    /\ node.installation <= node.token /\ node.token <= machine.token
    /\ machine.binding <= machine.token
    /\ Installed => /\ machine.installation = node.installation
                    /\ machine.binding # 0
                    /\ node.binding \in {0, machine.binding}
    /\ \A t \in TaskIds : journal[t].status # "none" => node.binding # 0

RowsStand ==
    /\ \A t \in Created : tasks[t].binding \in 1..machine.binding
    /\ ~Installed => \A t \in Created : ~Bound(t)
    /\ \A t, u \in Created : tasks[t].state \in Active /\ tasks[u].state \in Active => t = u
    /\ \A t \in Created : Bound(t) => tasks[t].seq <= journal[t].seq

ReceiptsStand == \A t \in TaskIds : journal[t].acked => Executed(t)

ProcessStands ==
    ~up => /\ session = Off /\ worker = Idle /\ jobs = <<>> /\ queued = {}
           /\ failure = "none" /\ call = [c \in Callers |-> NoCall]

\* Panel and journal have the same result.
SameResult(t) ==
    /\ t \in Created /\ tasks[t].state \in Final
    /\ tasks[t].state = journal[t].status /\ tasks[t].seq = journal[t].seq

\* What waits for the answer to a result report
ResultInFlight(c, t) ==
    /\ t \in TaskIds /\ Executed(t)
    /\ \/ /\ c.kind = "report" /\ c.task = t
          /\ c.state = journal[t].status /\ c.seq = journal[t].seq
       \/ /\ c.kind = "reply"
          /\ c.code = "ok" => SameResult(t) /\ Receipt(c, t)

SessionStands ==
    LET c == call["session"]
    IN  /\ session.pc \in {"off", "report", "flush", "open"} => c = NoCall
        /\ session.pc = "watch" => c.kind \in {"watch", "reply"}
        /\ session.pc = "watch" /\ c.kind = "reply" /\ c.code = "ok" =>
              /\ c.binding # 0 /\ node.binding \in {0, c.binding}
              /\ Installed => c.binding = machine.binding
              /\ ~Installed => node.token # machine.token
        /\ session.pc = "sent" => ResultInFlight(c, session.task)
        /\ session.pc \in {"flush", "sent"} => \A t \in session.todo : Executed(t)

\* The panel has the task in progress, unless the node has finished it.
Held(t) ==
    /\ t \in Created
    /\ ~Executed(t) => tasks[t].state \in Active

WorkerStands ==
    LET c == call["worker"]
    IN  /\ worker.pc \in {"idle", "journalled", "perform"} => c = NoCall
        /\ worker.pc # "idle" => worker.task \in TaskIds
        /\ worker.pc = "accept" => /\ c.kind \in {"accept", "reply"}
                                   /\ c.kind = "accept" => c.task = worker.task
        /\ worker.pc = "accept" /\ c.kind = "reply" /\ c.code = "ok" =>
              c.binding = node.binding /\ node.binding # 0 /\ Held(worker.task)
        /\ worker.pc \in {"journalled", "progress", "perform"} =>
              journal[worker.task].status # "none" /\ Held(worker.task)
        /\ worker.pc = "progress" => c.kind \in {"report", "reply"}
        /\ worker.pc \in {"progress", "perform"} => journal[worker.task].status = "running"
        /\ worker.pc = "report" => ResultInFlight(c, worker.task)

\* No thread has met a conflict.
Peaceful == failure # "conflict" /\ exit # "protocol_conflict"

Inv ==
    /\ TypeOK /\ NodeStands /\ RowsStand /\ ReceiptsStand /\ ResultsAgree
    /\ \A r \in AllRequests : RequestStands(r)
    /\ ProcessStands /\ SessionStands /\ WorkerStands /\ Peaceful

--------------------------------------------------------------------------------
(***************************************************************************)
(* Rows                                                                    *)
(***************************************************************************)
LEMMA RowsTyped ==
  ASSUME TypeOK
  PROVE  \A t \in Created : t \in TaskIds /\ tasks[t] \in RowType
BY DeliveryAssumption, ElementOfSeq DEF TypeOK, PanelType, Created, TaskIds

\* A handler that changes one row
LEMMA OneRow ==
  ASSUME tasks \in Seq(RowType), NEW t \in Created, NEW row \in RowType,
         tasks' = [tasks EXCEPT ![t] = row]
  PROVE  /\ tasks' \in Seq(RowType) /\ Len(tasks') = Len(tasks) /\ Created' = Created
         /\ \A u \in Created : tasks'[u] = IF u = t THEN row ELSE tasks[u]
<1>1. tasks' \in Seq(RowType) /\ Len(tasks') = Len(tasks)
  BY ExceptSeq DEF Created
<1> QED  BY <1>1, ElementOfSeq DEF Created

\* A handler that rewrites every row
LEMMA EveryRow ==
  ASSUME tasks \in Seq(RowType), NEW rows \in [Created -> RowType]
  PROVE  rows \in Seq(RowType) /\ Len(rows) = Len(tasks)
<1>1. Len(tasks) \in Nat
  BY LenProperties
<1>2. rows \in Seq(RowType)
  BY <1>1, SeqDef DEF Created
<1>3. DOMAIN rows = 1..Len(rows) /\ Len(rows) \in Nat
  BY <1>2, LenProperties
<1>4. 1..Len(rows) = 1..Len(tasks)
  BY <1>3 DEF Created
<1>5. Len(rows) = Len(tasks)
  BY <1>1, <1>3, <1>4
<1> QED  BY <1>2, <1>5

LEMMA CancelRows ==
  ASSUME tasks \in Seq(RowType), tasks' = Cancel(tasks)
  PROVE  /\ tasks' \in Seq(RowType) /\ Len(tasks') = Len(tasks) /\ Created' = Created
         /\ \A t \in Created :
              /\ tasks[t].state = "queued" => tasks'[t] = [tasks[t] EXCEPT !.state = "canceled"]
              /\ tasks[t].state # "queued" => tasks'[t] = tasks[t]
<1> DEFINE f(t) == IF tasks[t].state = "queued" THEN [tasks[t] EXCEPT !.state = "canceled"]
                   ELSE tasks[t]
<1>1. \A t \in Created : tasks[t] \in RowType
  BY ElementOfSeq DEF Created
<1>2. \A t \in Created : f(t) \in RowType
  BY <1>1 DEF RowType, States
<1>3. tasks' = [t \in Created |-> f(t)]
  BY LenProperties DEF Cancel, Created
<1> HIDE DEF f
<1>4. tasks' \in Seq(RowType) /\ Len(tasks') = Len(tasks) /\ Created' = Created
  BY <1>2, <1>3, EveryRow DEF Created
<1>5. \A t \in Created : tasks'[t] = f(t)
  BY <1>3
<1> QED  BY <1>4, <1>5 DEF f

--------------------------------------------------------------------------------
(***************************************************************************)
(* What the threads of the node rely on while the panel moves              *)
(***************************************************************************)

\* A finished row stays as it is, and only the node ends the work it is doing.
RowsMove ==
    \A t \in Created :
        /\ t \in Created'
        /\ tasks[t].state \in Final => tasks'[t] = tasks[t]
        /\ tasks[t].state \in Active /\ ~Executed(t) => tasks'[t].state \in Active

\* A machine is enrolled by a node that signs with the newest token, and leaves
\* its node behind with an older one.
MachineMoves ==
    /\ machine.token <= machine'.token
    /\ Installed' => \/ Installed /\ machine'.binding = machine.binding
                     \/ ~Installed /\ node.token = machine.token
    /\ ~Installed' => \/ machine'.token # node.token
                      \/ ~Installed /\ machine'.token = machine.token

\* A journalled result stays as it is.
ResultsStay ==
    \A t \in TaskIds :
        Executed(t) => /\ journal'[t].status = journal[t].status
                       /\ journal'[t].seq = journal[t].seq

LEMMA ResultStays ==
  ASSUME RowsMove, ResultsStay, NEW t \in TaskIds
  PROVE  /\ Executed(t) => Executed(t)'
         /\ Executed(t) /\ SameResult(t) => SameResult(t)'
BY DEF RowsMove, ResultsStay, Executed, SameResult

LEMMA RequestsKept ==
  ASSUME TypeOK, NodeStands, MachineMoves, node' = node, journal' = journal,
         NEW r, RequestStands(r)
  PROVE  RequestStands(r)'
<1>1. RequestType(r)'
  BY DEF RequestStands, RequestType, SignedType
<1>2. /\ r.token \in 1..MaxToken /\ node.token \in 1..MaxToken
      /\ machine.token \in 1..MaxToken
  BY DEF TypeOK, PanelType, NodeType, RequestStands, RequestType, SignedType
<1>3. ASSUME ~Installed', r.token = machine'.token PROVE r.binding = node.binding
  <2>1. ~Installed /\ machine'.token = machine.token
    BY <1>2, <1>3 DEF MachineMoves, RequestStands, NodeStands
  <2> QED  BY <1>3, <2>1 DEF RequestStands
<1> QED  BY <1>1, <1>3 DEF RequestStands, ReportStands

LEMMA SessionFrame ==
  ASSUME TypeOK, SessionStands, RowsMove, ResultsStay, MachineMoves,
         node' = node, session' = session, call'["session"] = call["session"]
  PROVE  SessionStands'
<1> DEFINE c == call["session"]
<1>1. c' = c
  OBVIOUS
<1>2. ASSUME session.pc = "watch", c.kind = "reply", c.code = "ok"
      PROVE  /\ c.binding # 0 /\ node.binding \in {0, c.binding}
             /\ Installed' => c.binding = machine'.binding
             /\ ~Installed' => node.token # machine'.token
  <2>1. /\ c.binding # 0 /\ node.binding \in {0, c.binding}
        /\ Installed => c.binding = machine.binding
        /\ ~Installed => node.token # machine.token
    BY <1>2 DEF SessionStands
  <2> QED  BY <2>1 DEF MachineMoves
<1>3. ASSUME session.pc = "sent" PROVE ResultInFlight(c, session.task)'
  <2>1. ResultInFlight(c, session.task)
    BY <1>3 DEF SessionStands
  <2>2. session.task \in TaskIds /\ Executed(session.task)
    BY <2>1 DEF ResultInFlight
  <2>3. /\ Executed(session.task)'
        /\ SameResult(session.task) => SameResult(session.task)'
    BY <2>2, ResultStays DEF Executed, SameResult, Created
  <2> QED  BY <2>1, <2>2, <2>3 DEF ResultInFlight, ResultsStay, Receipt
<1>4. ASSUME session.pc \in {"flush", "sent"} PROVE \A t \in session.todo : Executed(t)'
  <2>1. \A t \in session.todo : Executed(t) /\ t \in TaskIds
    BY <1>4 DEF SessionStands, TypeOK, ThreadType
  <2> QED  BY <2>1, ResultStays
<1> QED  BY <1>1, <1>2, <1>3, <1>4 DEF SessionStands

LEMMA WorkerFrame ==
  ASSUME TypeOK, WorkerStands, RowsMove, node.binding \in {0, node'.binding},
         \A t \in TaskIds : /\ journal'[t].status = journal[t].status
                            /\ journal'[t].seq = journal[t].seq,
         worker' = worker, call'["worker"] = call["worker"]
  PROVE  WorkerStands'
<1> DEFINE c == call["worker"]
<1>1. c' = c
  OBVIOUS
<1>2. ResultsStay
  BY DEF ResultsStay
<1>3. \A t \in TaskIds : Held(t) => Held(t)'
  BY DEF Held, RowsMove, Executed
<1>4. ASSUME worker.pc = "report" PROVE ResultInFlight(c, worker.task)'
  <2>1. ResultInFlight(c, worker.task)
    BY <1>4 DEF WorkerStands
  <2>2. worker.task \in TaskIds /\ Executed(worker.task)
    BY <2>1 DEF ResultInFlight
  <2>3. /\ Executed(worker.task)'
        /\ SameResult(worker.task) => SameResult(worker.task)'
    BY <1>2, <2>2, ResultStays DEF Executed, SameResult, Created
  <2> QED  BY <2>1, <2>2, <2>3 DEF ResultInFlight, Receipt
<1>5. ASSUME worker.pc # "idle", Held(worker.task) PROVE Held(worker.task)'
  BY <1>3, <1>5 DEF WorkerStands, Held, Executed, Created
<1> QED  BY <1>1, <1>4, <1>5 DEF WorkerStands

--------------------------------------------------------------------------------
(***************************************************************************)
(* The administrator                                                       *)
(***************************************************************************)
PanelKept ==
    /\ PanelType' /\ RowsMove /\ MachineMoves
    /\ NodeStands' /\ RowsStand' /\ ResultsAgree'

LEMMA PanelOnly ==
  ASSUME Inv, PanelKept, UNCHANGED <<disk, up, threads, call, late, faults>>
  PROVE  Inv'
<1> USE DEF disk, threads
<1>1. TypeOK'
  BY DEF Inv, TypeOK, PanelKept, NodeType, ThreadType, SignedType, RequestType
<1>2. ReceiptsStand' /\ ProcessStands' /\ Peaceful'
  BY DEF Inv, ReceiptsStand, Executed, ProcessStands, Peaceful
<1>3. \A r \in AllRequests' : RequestStands(r)'
  <2>1. AllRequests' = AllRequests
    BY DEF AllRequests
  <2> QED  BY <2>1, RequestsKept DEF Inv, PanelKept
<1>4. SessionStands'
  BY SessionFrame DEF Inv, PanelKept, ResultsStay
<1>5. WorkerStands'
  BY WorkerFrame DEF Inv, PanelKept
<1> QED  BY <1>1, <1>2, <1>3, <1>4, <1>5 DEF Inv, PanelKept

\* Rows that are canceled or superseded were queued: nothing else relies on them.
LEMMA QueuedRowsEnd ==
  ASSUME TypeOK, RowsStand, ResultsAgree, Created \subseteq Created',
         \A t \in Created : \/ tasks'[t] = tasks[t]
                            \/ /\ tasks[t].state = "queued"
                               /\ tasks'[t].state \in {"canceled", "superseded"}
                               /\ tasks'[t].binding = tasks[t].binding
                               /\ tasks'[t].seq = tasks[t].seq
  PROVE  /\ RowsMove
         /\ \A t \in Created : tasks'[t].binding = tasks[t].binding
         /\ \A t \in Created : tasks'[t].seq = tasks[t].seq
         /\ \A t \in Created : tasks'[t].state \in Active <=> tasks[t].state \in Active
         /\ \A t \in Created : tasks'[t].state \in Final => tasks'[t] = tasks[t]
BY DEF RowsMove, Active, Final

LEMMA ReceiptsKept ==
  ASSUME Inv, RowsMove, journal' = journal
  PROVE  ReceiptsAreTrue'
<1>1. SUFFICES ASSUME NEW t \in TaskIds, journal[t].acked
               PROVE  /\ t \in Created' /\ tasks'[t].state = journal[t].status
                      /\ tasks'[t].seq = journal[t].seq
  BY DEF ReceiptsAreTrue
<1>2. SameResult(t)
  BY <1>1 DEF Inv, ReceiptsStand, ResultsAgree, ReceiptsAreTrue, SameResult, Executed
<1> QED  BY <1>2 DEF RowsMove, SameResult

LEMMA EnqueueTaskInv ==
  ASSUME Inv, NEW kind \in Kinds, EnqueueTask(kind)
  PROVE  Inv'
<1> DEFINE rows == [t \in Created |-> IF Supersedes(t, kind)
                                      THEN [tasks[t] EXCEPT !.state = "superseded"]
                                      ELSE tasks[t]]
           row == [kind |-> kind, state |-> "queued", binding |-> machine.binding, seq |-> 0]
<1>1. \A t \in Created : t \in TaskIds /\ tasks[t] \in RowType
  BY RowsTyped DEF Inv
<1>2. rows \in [Created -> RowType]
  BY <1>1 DEF RowType, States
<1>3. rows \in Seq(RowType) /\ Len(rows) = Len(tasks)
  BY <1>2, EveryRow DEF Inv, TypeOK, PanelType
<1>4. row \in RowType
  BY DEF Inv, TypeOK, PanelType, RowType, States
<1>5. tasks' = Append(rows, row) /\ UNCHANGED <<machine, stream>>
  BY DEF EnqueueTask
<1> HIDE DEF row
<1>6. /\ tasks' \in Seq(RowType) /\ Len(tasks') = Len(tasks) + 1
      /\ \A t \in Created : tasks'[t] = rows[t]
      /\ tasks'[Len(tasks) + 1] = row
  BY <1>3, <1>4, <1>5, AppendProperties DEF Created
<1>7. Len(tasks) \in Nat /\ Created' = Created \cup {Len(tasks) + 1}
  BY <1>6, LenProperties DEF Created, Inv, TypeOK, PanelType
<1>8. \A t \in Created : \/ tasks'[t] = tasks[t]
                         \/ /\ tasks[t].state = "queued"
                            /\ tasks'[t].state \in {"canceled", "superseded"}
                            /\ tasks'[t].binding = tasks[t].binding
                            /\ tasks'[t].seq = tasks[t].seq
  BY <1>1, <1>6 DEF Supersedes, RowType
<1>9. /\ RowsMove
      /\ \A t \in Created : tasks'[t].binding = tasks[t].binding
      /\ \A t \in Created : tasks'[t].seq = tasks[t].seq
      /\ \A t \in Created : tasks'[t].state \in Active <=> tasks[t].state \in Active
      /\ \A t \in Created : tasks'[t].state \in Final => tasks'[t] = tasks[t]
  BY <1>7, <1>8, QueuedRowsEnd DEF Inv
<1>10. PanelType'
  BY <1>5, <1>6, DeliveryAssumption DEF Inv, TypeOK, PanelType, EnqueueTask
<1>11. NodeStands' /\ MachineMoves
  BY <1>5 DEF Inv, TypeOK, PanelType, NodeStands, Installed, MachineMoves, EnqueueTask, disk
<1>12. RowsStand'
  <2> DEFINE n == Len(tasks) + 1
  <2>1. /\ machine' = machine /\ journal' = journal /\ Installed /\ machine.binding \in 1..MaxToken
        /\ tasks'[n].state = "queued" /\ tasks'[n].binding = machine.binding
        /\ tasks'[n].seq = 0 /\ Created' = Created \cup {n}
    BY <1>5, <1>6, <1>7 DEF row, EnqueueTask, disk, Installed, Inv, NodeStands, TypeOK, PanelType
  <2>2. n \in TaskIds
    BY <1>7, <1>10, <1>6, DeliveryAssumption DEF PanelType, TaskIds
  <2>3. journal[n].seq \in Nat
    BY <2>2 DEF Inv, TypeOK, NodeType
  <2>4. \A t \in Created : tasks[t].binding \in 1..machine.binding
    BY DEF Inv, RowsStand
  <2>5. \A t \in Created' : tasks'[t].binding \in 1..machine.binding
    BY <1>9, <2>1, <2>4
  <2>6. \A t, u \in Created' : tasks'[t].state \in Active /\ tasks'[u].state \in Active => t = u
    BY <1>9, <2>1 DEF Inv, RowsStand, Active
  <2>7. \A t \in Created' : Bound(t)' => tasks'[t].seq <= journal[t].seq
    BY <1>9, <2>1, <2>3 DEF Inv, RowsStand, Bound
  <2> QED  BY <2>1, <2>5, <2>6, <2>7 DEF RowsStand, Installed
<1>13. ResultsAgree'
  <2>1. /\ machine' = machine /\ node' = node /\ journal' = journal
        /\ Created' = Created \cup {Len(tasks) + 1}
        /\ tasks'[Len(tasks) + 1].state = "queued"
    BY <1>5, <1>6, <1>7 DEF row, EnqueueTask, disk
  <2>2. ResultsAreJournalled'
    BY <1>9, <2>1 DEF Inv, ResultsAgree, ResultsAreJournalled, Bound, Final
  <2>3. ReceiptsAreTrue'
    BY <1>9, <2>1, ReceiptsKept
  <2> QED  BY <2>2, <2>3 DEF ResultsAgree
<1> QED  BY <1>9, <1>10, <1>11, <1>12, <1>13, PanelOnly DEF PanelKept, EnqueueTask

\* Canceling the queued rows
LEMMA CancelKeepsRows ==
  ASSUME Inv, tasks' = Cancel(tasks), journal' = journal
  PROVE  /\ tasks' \in Seq(RowType) /\ Len(tasks') = Len(tasks) /\ Created' = Created
         /\ RowsMove /\ ReceiptsAreTrue'
         /\ \A t \in Created : tasks'[t].binding = tasks[t].binding
         /\ \A t \in Created : tasks'[t].seq = tasks[t].seq
         /\ \A t \in Created : tasks'[t].state \in Active <=> tasks[t].state \in Active
         /\ \A t \in Created : tasks'[t].state \in Final => tasks'[t] = tasks[t]
<1>1. /\ tasks' \in Seq(RowType) /\ Len(tasks') = Len(tasks) /\ Created' = Created
      /\ \A t \in Created :
            /\ tasks[t].state = "queued" => tasks'[t] = [tasks[t] EXCEPT !.state = "canceled"]
            /\ tasks[t].state # "queued" => tasks'[t] = tasks[t]
  BY CancelRows DEF Inv, TypeOK, PanelType
<1>2. \A t \in Created : \/ tasks'[t] = tasks[t]
                         \/ /\ tasks[t].state = "queued"
                            /\ tasks'[t].state \in {"canceled", "superseded"}
                            /\ tasks'[t].binding = tasks[t].binding
                            /\ tasks'[t].seq = tasks[t].seq
  BY <1>1, RowsTyped DEF Inv, RowType
<1>3. /\ RowsMove
      /\ \A t \in Created : tasks'[t].binding = tasks[t].binding
      /\ \A t \in Created : tasks'[t].seq = tasks[t].seq
      /\ \A t \in Created : tasks'[t].state \in Active <=> tasks[t].state \in Active
      /\ \A t \in Created : tasks'[t].state \in Final => tasks'[t] = tasks[t]
  BY <1>1, <1>2, QueuedRowsEnd DEF Inv
<1> QED  BY <1>1, <1>3, ReceiptsKept

LEMMA NoStreamType == NoStream \in [epoch: Epochs, announced: 0..MaxTasks, events: Seq(TaskIds)]
BY DeliveryAssumption, EmptySeq DEF NoStream, Epochs

LEMMA RebindInv ==
  ASSUME Inv, Rebind
  PROVE  Inv'
<1>1. /\ machine.token < MaxToken /\ machine.session < MaxSession /\ NothingActive
      /\ machine' = [machine EXCEPT !.installation = 0, !.binding = @ + 1,
                                    !.session = @ + 1, !.token = @ + 1]
      /\ tasks' = Cancel(tasks) /\ stream' = NoStream
      /\ UNCHANGED <<disk, up, threads, call, late, faults>>
      /\ node' = node /\ journal' = journal
  BY DEF Rebind, disk
<1>2. /\ tasks' \in Seq(RowType) /\ Len(tasks') = Len(tasks) /\ Created' = Created
      /\ RowsMove /\ ReceiptsAreTrue'
      /\ \A t \in Created : tasks'[t].binding = tasks[t].binding
      /\ \A t \in Created : tasks'[t].state \in Active <=> tasks[t].state \in Active
  BY <1>1, CancelKeepsRows
<1>3. /\ machine.binding \in Nat /\ machine.token \in Nat /\ machine.session \in Nat
      /\ machine.binding <= machine.token /\ node.token <= machine.token /\ node.token \in Nat
  BY DEF Inv, TypeOK, PanelType, NodeType, NodeStands, Epochs
<1>4. /\ machine'.installation = 0 /\ machine'.binding = machine.binding + 1
      /\ machine'.token = machine.token + 1 /\ machine'.session = machine.session + 1
  BY <1>1 DEF Inv, TypeOK, PanelType
<1>5. machine' \in [installation: 0..MaxToken, binding: 0..MaxToken, session: Epochs,
                    token: 1..MaxToken, removed: BOOLEAN]
  <2>1. /\ machine.binding + 1 \in 0..MaxToken /\ machine.session + 1 \in Epochs
        /\ machine.token + 1 \in 1..MaxToken /\ 0 \in 0..MaxToken
    BY <1>1, <1>3, DeliveryAssumption DEF Epochs
  <2> QED  BY <1>1, <2>1 DEF Inv, TypeOK, PanelType
<1>6. PanelType'
  BY <1>1, <1>2, <1>5, NoStreamType DEF Inv, TypeOK, PanelType, Epochs
<1>7. NodeStands' /\ MachineMoves
  BY <1>1, <1>3, <1>4 DEF Inv, NodeStands, MachineMoves, Installed
<1>8. \A t \in Created : ~Bound(t)'
  BY <1>2, <1>3, <1>4 DEF Inv, RowsStand, Bound
<1>9. RowsStand' /\ ResultsAgree'
  BY <1>2, <1>3, <1>4, <1>8 DEF Inv, RowsStand, ResultsAgree, ResultsAreJournalled
<1> QED  BY <1>1, <1>2, <1>6, <1>7, <1>9, PanelOnly DEF PanelKept

\* Only the token and the session of the machine change.
LEMMA ResetTokenInv ==
  ASSUME Inv, ResetToken
  PROVE  Inv'
<1>1. /\ machine.token < MaxToken /\ machine.session < MaxSession
      /\ machine' = [machine EXCEPT !.session = @ + 1, !.token = @ + 1]
      /\ tasks' = tasks /\ stream' = NoStream
      /\ UNCHANGED <<disk, up, threads, call, late, faults>>
      /\ node' = node /\ journal' = journal
  BY DEF ResetToken, disk
<1>2. /\ machine.token \in Nat /\ machine.session \in Nat /\ node.token \in Nat
      /\ node.token <= machine.token
  BY DEF Inv, TypeOK, PanelType, NodeType, NodeStands, Epochs
<1>3. /\ machine'.installation = machine.installation /\ machine'.binding = machine.binding
      /\ machine'.token = machine.token + 1
  BY <1>1 DEF Inv, TypeOK, PanelType
<1>4. machine' \in [installation: 0..MaxToken, binding: 0..MaxToken, session: Epochs,
                    token: 1..MaxToken, removed: BOOLEAN]
  <2>1. machine.session + 1 \in Epochs /\ machine.token + 1 \in 1..MaxToken
    BY <1>1, <1>2, DeliveryAssumption DEF Epochs
  <2> QED  BY <1>1, <2>1 DEF Inv, TypeOK, PanelType
<1>5. PanelType'
  BY <1>1, <1>4, NoStreamType DEF Inv, TypeOK, PanelType, Epochs
<1>6. NodeStands' /\ MachineMoves /\ RowsMove
  BY <1>1, <1>2, <1>3 DEF Inv, NodeStands, MachineMoves, Installed, RowsMove, Created,
     TypeOK, PanelType
<1>7. RowsStand' /\ ResultsAgree'
  BY <1>1, <1>3 DEF Inv, RowsStand, ResultsAgree, ResultsAreJournalled, ReceiptsAreTrue,
     Bound, Installed, Created
<1> QED  BY <1>1, <1>5, <1>6, <1>7, PanelOnly DEF PanelKept

LEMMA RemoveInv ==
  ASSUME Inv, Remove
  PROVE  Inv'
<1>1. /\ machine.session < MaxSession
      /\ machine' = [machine EXCEPT !.removed = TRUE, !.session = @ + 1]
      /\ tasks' = Cancel(tasks) /\ stream' = NoStream
      /\ UNCHANGED <<disk, up, threads, call, late, faults>>
      /\ node' = node /\ journal' = journal
  BY DEF Remove, disk
<1>2. /\ tasks' \in Seq(RowType) /\ Len(tasks') = Len(tasks) /\ Created' = Created
      /\ RowsMove /\ ReceiptsAreTrue'
      /\ \A t \in Created : tasks'[t].binding = tasks[t].binding
      /\ \A t \in Created : tasks'[t].seq = tasks[t].seq
      /\ \A t \in Created : tasks'[t].state \in Active <=> tasks[t].state \in Active
      /\ \A t \in Created : tasks'[t].state \in Final => tasks'[t] = tasks[t]
  BY <1>1, CancelKeepsRows
<1>3. /\ machine'.installation = machine.installation /\ machine'.binding = machine.binding
      /\ machine'.token = machine.token
  BY <1>1 DEF Inv, TypeOK, PanelType
<1>4. machine' \in [installation: 0..MaxToken, binding: 0..MaxToken, session: Epochs,
                    token: 1..MaxToken, removed: BOOLEAN]
  <2>1. machine.session + 1 \in Epochs
    BY <1>1, DeliveryAssumption DEF Inv, TypeOK, PanelType, Epochs
  <2> QED  BY <1>1, <2>1 DEF Inv, TypeOK, PanelType
<1>5. PanelType'
  BY <1>1, <1>2, <1>4, NoStreamType DEF Inv, TypeOK, PanelType, Epochs
<1>6. NodeStands' /\ MachineMoves
  BY <1>1, <1>3 DEF Inv, NodeStands, MachineMoves, Installed, TypeOK, PanelType
<1>7. \A t \in Created : Bound(t)' <=> Bound(t)
  BY <1>2, <1>3 DEF Bound
<1>8. RowsStand' /\ ResultsAreJournalled'
  BY <1>1, <1>2, <1>3, <1>7 DEF Inv, RowsStand, ResultsAgree, ResultsAreJournalled, Installed
<1> QED  BY <1>1, <1>2, <1>5, <1>6, <1>8, PanelOnly DEF PanelKept, ResultsAgree

--------------------------------------------------------------------------------
(***************************************************************************)
(* The panel                                                               *)
(***************************************************************************)
LEMMA AnnounceInv ==
  ASSUME Inv, NEW t \in TaskIds, Announce(t)
  PROVE  Inv'
<1>1. /\ stream' = [stream EXCEPT !.announced = t, !.events = Append(@, t)]
      /\ UNCHANGED <<machine, tasks, disk, up, threads, call, late, faults>>
      /\ node' = node /\ journal' = journal
  BY DEF Announce, disk
<1>2. Append(stream.events, t) \in Seq(TaskIds) /\ t \in 0..MaxTasks
  BY AppendProperties DEF Inv, TypeOK, PanelType, TaskIds
<1>3. PanelType'
  BY <1>1, <1>2 DEF Inv, TypeOK, PanelType
<1>4. NodeStands' /\ MachineMoves /\ RowsMove
  BY <1>1 DEF Inv, NodeStands, MachineMoves, Installed, RowsMove, Created, TypeOK, PanelType
<1>5. RowsStand' /\ ResultsAgree'
  BY <1>1 DEF Inv, RowsStand, ResultsAgree, ResultsAreJournalled, ReceiptsAreTrue,
     Bound, Installed, Created
<1> QED  BY <1>1, <1>3, <1>4, <1>5, PanelOnly DEF PanelKept

LEMMA PanelStill ==
  ASSUME Inv, UNCHANGED <<machine, tasks, node, journal>>, PanelType'
  PROVE  PanelKept
<1>1. NodeStands' /\ MachineMoves /\ RowsMove
  BY DEF Inv, NodeStands, MachineMoves, Installed, RowsMove, Created, TypeOK, PanelType
<1>2. RowsStand' /\ ResultsAgree'
  BY DEF Inv, RowsStand, ResultsAgree, ResultsAreJournalled, ReceiptsAreTrue,
     Bound, Installed, Created
<1> QED  BY <1>1, <1>2 DEF PanelKept

\* What the panel may conclude from the token of a request
LEMMA AuthenticRequests ==
  ASSUME Inv, NEW r, RequestStands(r), Authenticated(r)
  PROVE  /\ node.token = machine.token /\ r.installation = node.installation
         /\ r.binding \in {0, node.binding} /\ ~Installed => r.binding = node.binding
         /\ r.kind = "report" => ReportStands(r)
         /\ Enrolled(r) => /\ Installed /\ node.installation = machine.installation
                           /\ node.binding = machine.binding /\ node.binding # 0
<1>1. /\ r.token \in Nat /\ node.token \in Nat /\ machine.token \in Nat
  BY DEF Inv, TypeOK, PanelType, NodeType, RequestStands, RequestType, SignedType
<1>2. r.token = machine.token /\ r.token = node.token
  BY <1>1 DEF Authenticated, RequestStands, Inv, NodeStands
<1>3. /\ r.installation = node.installation /\ r.binding \in {0, node.binding}
      /\ r.kind = "report" => ReportStands(r)
      /\ ~Installed => r.binding = node.binding
  BY <1>2 DEF RequestStands
<1>4. ASSUME Enrolled(r)
      PROVE  /\ Installed /\ node.installation = machine.installation
             /\ node.binding = machine.binding /\ node.binding # 0
  BY <1>3, <1>4 DEF Enrolled, Installed, Inv, NodeStands
<1> QED  BY <1>2, <1>3, <1>4

LEMMA ReplyTypes ==
  /\ \A code \in Codes : Reply(code) \in Replies
  /\ \A code \in Codes : Reply(code).code = code
BY DeliveryAssumption DEF Reply, Replies, Epochs

LEMMA CommittedReply ==
  ASSUME NEW rows, NEW t, rows[t].seq \in Nat
  PROVE  /\ Committed(rows, t) \in Replies /\ Committed(rows, t).seq = rows[t].seq
         /\ Committed(rows, t).terminal <=> rows[t].state \in Final
<1>1. Reply("ok") \in Replies
  BY ReplyTypes DEF Codes
<1>2. (rows[t].state \in Final) \in BOOLEAN
  OBVIOUS
<1> QED  BY <1>1, <1>2 DEF Committed, Replies

\* The answer to WatchTasks names the binding the machine then has.
LEMMA WatchTasksKept ==
  ASSUME Inv, NEW r, RequestStands(r), r.kind = "watch", Authenticated(r),
         Executes(r), UNCHANGED <<node, journal>>
  PROVE  LET reply == Handle(r).reply
         IN  /\ PanelKept /\ reply \in Replies
             /\ reply.code = "ok" =>
                  /\ Installed' /\ reply.binding = machine'.binding
                  /\ reply.binding # 0 /\ node.binding \in {0, reply.binding}
<1>1. /\ Handle(r) = WatchTasks(r) /\ machine.session < MaxSession
      /\ machine' = WatchTasks(r).machine /\ tasks' = WatchTasks(r).tasks
      /\ stream' = WatchTasks(r).stream
  BY DEF Handle, Executes
<1>2. /\ node.token = machine.token /\ r.installation = node.installation
      /\ r.binding \in {0, node.binding} /\ ~Installed => r.binding = node.binding
  BY AuthenticRequests
<1>3. CASE ~MayEnroll(r)
  <2>1. WatchTasks(r) = Outcome(tasks, Reply("error"))
    BY <1>3 DEF WatchTasks
  <2>2. UNCHANGED <<machine, tasks, stream>> /\ Handle(r).reply = Reply("error")
    BY <1>1, <2>1 DEF Outcome
  <2>3. PanelKept
    BY <2>2, PanelStill DEF Inv, TypeOK, PanelType
  <2> QED  BY <2>2, <2>3, ReplyTypes DEF Codes
<1>4. CASE MayEnroll(r)
  <2> DEFINE epoch == machine.session + 1
  <2>1. /\ machine' = [machine EXCEPT !.installation = r.installation,
                                      !.binding = CurrentBinding, !.session = epoch]
        /\ tasks' = tasks /\ stream' = [NoStream EXCEPT !.epoch = epoch]
        /\ Handle(r).reply = [Reply("ok") EXCEPT !.epoch = epoch, !.binding = CurrentBinding]
    BY <1>1, <1>4 DEF WatchTasks
  <2>2. /\ machine.binding \in 0..MaxToken /\ machine.token \in 1..MaxToken
        /\ machine.binding <= machine.token
        /\ node.installation \in 1..MaxToken /\ node.installation <= node.token
    BY DEF Inv, TypeOK, PanelType, NodeType, NodeStands
  <2>3. /\ CurrentBinding \in 1..MaxToken /\ CurrentBinding <= machine.token
        /\ machine.binding # 0 => CurrentBinding = machine.binding
        /\ machine.binding = 0 => CurrentBinding = 1
    BY <2>2, DeliveryAssumption DEF CurrentBinding
  <2>4. epoch \in Epochs
    BY <1>1, DeliveryAssumption DEF Inv, TypeOK, PanelType, Epochs
  <2>5. r.installation \in 0..MaxToken
    BY <1>2, <2>2
  <2> HIDE DEF epoch
  <2>6. PanelType'
    <3>1. CurrentBinding \in 0..MaxToken
      BY <2>3, DeliveryAssumption
    <3>2. machine' \in [installation: 0..MaxToken, binding: 0..MaxToken, session: Epochs,
                        token: 1..MaxToken, removed: BOOLEAN]
      BY <2>1, <3>1, <2>4, <2>5 DEF Inv, TypeOK, PanelType
    <3>3. stream' \in [epoch: Epochs, announced: 0..MaxTasks, events: Seq(TaskIds)]
      BY <2>1, <2>4, NoStreamType
    <3> QED  BY <2>1, <3>2, <3>3 DEF Inv, TypeOK, PanelType
  <2>7. /\ machine'.installation = node.installation /\ machine'.binding = CurrentBinding
        /\ machine'.token = machine.token
    BY <1>2, <2>1 DEF Inv, TypeOK, PanelType
  <2>8. Handle(r).reply \in Replies
    <3>1. CurrentBinding \in 0..MaxToken /\ Reply("ok") \in Replies
      BY <2>3, DeliveryAssumption, ReplyTypes DEF Codes
    <3> QED  BY <2>1, <2>4, <3>1 DEF Replies
  <2>9. Handle(r).reply.binding = CurrentBinding
    BY <2>1, ReplyTypes DEF Replies, Codes
  <2>10. /\ Installed => machine.binding # 0 /\ node.binding \in {0, machine.binding}
         /\ ~Installed => node.binding = 0
    <3>1. Installed => machine.binding # 0 /\ node.binding \in {0, machine.binding}
      BY DEF Inv, NodeStands
    <3>2. ~Installed => r.binding = 0
      BY <1>4 DEF MayEnroll, Installed
    <3> QED  BY <1>2, <3>1, <3>2
  <2>11. Installed' /\ CurrentBinding # 0 /\ node.binding \in {0, CurrentBinding}
    BY <2>2, <2>3, <2>7, <2>10 DEF Installed
  <2>12. NodeStands' /\ MachineMoves
    <3>1. MachineMoves
      BY <1>2, <2>2, <2>3, <2>7, <2>10, <2>11 DEF MachineMoves
    <3> QED  BY <3>1, <2>2, <2>3, <2>7, <2>11 DEF Inv, NodeStands, Installed
  <2>13. \A t \in Created : tasks[t].binding \in 1..machine.binding
    BY DEF Inv, RowsStand
  <2>14. \A t \in Created : Bound(t)' => Installed /\ Bound(t)
    <3>1. SUFFICES ASSUME NEW t \in Created, Bound(t)' PROVE Installed /\ Bound(t)
      OBVIOUS
    <3>2. tasks[t].binding = CurrentBinding /\ tasks[t].binding \in 1..machine.binding
      BY <2>1, <2>7, <2>13, <3>1 DEF Bound
    <3>3. tasks[t].binding = machine.binding
      BY <2>2, <2>3, <3>2
    <3> QED  BY <3>1, <3>3 DEF Bound, Inv, RowsStand
  <2>15. RowsMove /\ RowsStand'
    <3>1. RowsMove
      BY <2>1 DEF RowsMove, Created
    <3>2. Created' = Created /\ \A t \in Created : tasks'[t].binding \in 1..machine'.binding
      BY <2>1, <2>2, <2>3, <2>7, <2>13 DEF Created
    <3> QED  BY <2>1, <2>11, <2>14, <3>1, <3>2 DEF Inv, RowsStand
  <2>16. ResultsAgree'
    <3>1. ResultsAreJournalled'
      BY <2>1, <2>14 DEF Inv, ResultsAgree, ResultsAreJournalled, NodeStands, Created
    <3> QED  BY <2>15, <3>1, ReceiptsKept DEF ResultsAgree
  <2> QED  BY <2>6, <2>7, <2>8, <2>9, <2>11, <2>12, <2>15, <2>16 DEF PanelKept
<1> QED  BY <1>3, <1>4

\* One row of the current binding moves on, and stays behind the journal.
LEMMA RowMoves ==
  ASSUME Inv, NEW t \in Created, Bound(t), Installed, NEW row \in RowType,
         tasks[t].state \notin Final, tasks' = [tasks EXCEPT ![t] = row],
         UNCHANGED <<machine, stream, node, journal>>,
         row.binding = tasks[t].binding, row.seq <= journal[t].seq,
         row.state \in Active => tasks[t].state \in Active \/ NothingActive,
         row.state \notin Active => Executed(t) /\ tasks[t].state \in Active,
         row.state \in Final => row.state = journal[t].status /\ row.seq = journal[t].seq
  PROVE  /\ PanelKept /\ Created' = Created
         /\ \A u \in Created : tasks'[u] = IF u = t THEN row ELSE tasks[u]
<1>1. /\ tasks' \in Seq(RowType) /\ Len(tasks') = Len(tasks) /\ Created' = Created
      /\ \A u \in Created : tasks'[u] = IF u = t THEN row ELSE tasks[u]
  BY OneRow DEF Inv, TypeOK, PanelType
<1>2. PanelType'
  BY <1>1 DEF Inv, TypeOK, PanelType
<1>3. NodeStands' /\ MachineMoves
  BY DEF Inv, NodeStands, MachineMoves, Installed, TypeOK, PanelType
<1>4. RowsMove
  BY <1>1 DEF RowsMove
<1>5. RowsStand'
  <2>1. \A u \in Created : tasks'[u].binding = tasks[u].binding
    BY <1>1
  <2>2. \A u, v \in Created :
            tasks'[u].state \in Active /\ tasks'[v].state \in Active => u = v
    BY <1>1 DEF Inv, RowsStand, NothingActive
  <2>3. \A u \in Created : Bound(u) => tasks'[u].seq <= journal[u].seq
    BY <1>1 DEF Inv, RowsStand
  <2> QED  BY <1>1, <2>1, <2>2, <2>3 DEF Inv, RowsStand, Bound, Installed
<1>6. ResultsAgree'
  <2>1. \A u \in Created : Bound(u)' <=> Bound(u)
    BY <1>1 DEF Bound
  <2>2. ResultsAreJournalled'
    BY <1>1, <2>1 DEF Inv, ResultsAgree, ResultsAreJournalled
  <2> QED  BY <1>4, <2>2, ReceiptsKept DEF ResultsAgree
<1> QED  BY <1>1, <1>2, <1>3, <1>4, <1>5, <1>6 DEF PanelKept

\* A task that the panel hands out is in progress, in the binding of the node.
LEMMA AcceptTaskKept ==
  ASSUME Inv, NEW r, RequestStands(r), r.kind = "accept", Authenticated(r),
         Executes(r), UNCHANGED <<node, journal>>
  PROVE  LET reply == Handle(r).reply
         IN  /\ PanelKept /\ reply \in Replies
             /\ reply.code = "ok" =>
                  /\ reply.binding = node.binding /\ node.binding # 0
                  /\ r.task \in Created' /\ tasks'[r.task].state \in Active
<1> DEFINE t == r.task
           row == [tasks[t] EXCEPT !.state = IF @ = "queued" THEN "accepted" ELSE @]
<1>1. /\ Handle(r) = AcceptTask(r)
      /\ machine' = AcceptTask(r).machine /\ tasks' = AcceptTask(r).tasks
      /\ stream' = AcceptTask(r).stream
  BY DEF Handle, Executes
<1>2. CASE ~Acceptable(r)
  <2>1. AcceptTask(r) = Outcome(tasks, Reply("error"))
    BY <1>2 DEF AcceptTask
  <2>2. UNCHANGED <<machine, tasks, stream>> /\ Handle(r).reply = Reply("error")
    BY <1>1, <2>1 DEF Outcome
  <2>3. PanelKept
    BY <2>2, PanelStill DEF Inv, TypeOK, PanelType
  <2> QED  BY <2>2, <2>3, ReplyTypes DEF Codes
<1>3. CASE Acceptable(r)
  <2>1. /\ tasks' = [tasks EXCEPT ![t].state = IF @ = "queued" THEN "accepted" ELSE @]
        /\ machine' = machine /\ stream' = stream
        /\ Handle(r).reply = [Reply("ok") EXCEPT !.binding = tasks[t].binding]
    BY <1>1, <1>3 DEF AcceptTask, Outcome
  <2>2. /\ t \in Created /\ Bound(t) /\ tasks[t].state \in Active \cup {"queued"}
        /\ tasks[t].state = "queued" => NothingActive
        /\ Enrolled(r)
    BY <1>3 DEF Acceptable, Bound
  <2>3. tasks[t] \in RowType /\ t \in TaskIds
    BY <2>2, RowsTyped DEF Inv
  <2>4. tasks' = [tasks EXCEPT ![t] = row]
    BY <2>1
  <2>5. row \in RowType /\ row.binding = tasks[t].binding /\ row.seq = tasks[t].seq
        /\ row.state \in Active /\ row.state \notin Final
    BY <2>2, <2>3 DEF RowType, States, Active, Final
  <2>6. /\ Installed /\ node.installation = machine.installation
        /\ node.binding = machine.binding /\ node.binding # 0
    BY <2>2, AuthenticRequests
  <2>7. tasks[t].seq <= journal[t].seq
    BY <2>2 DEF Inv, RowsStand
  <2>8. tasks[t].state \in Active \/ NothingActive
    BY <2>2
  <2>9. tasks[t].state \notin Final
    BY <2>2 DEF Active, Final
  <2> HIDE DEF row, t
  <2>10. /\ PanelKept /\ Created' = Created
         /\ \A u \in Created : tasks'[u] = IF u = t THEN row ELSE tasks[u]
    <3>1. UNCHANGED <<machine, stream, node, journal>>
      BY <2>1
    <3>2. t \in Created /\ Bound(t) /\ Installed
      BY <2>2, <2>6
    <3>3. row.seq <= journal[t].seq
      BY <2>5, <2>7
    <3>4. row.state \in Active /\ row.state \notin Final /\ row \in RowType
          /\ row.binding = tasks[t].binding
      BY <2>5
    <3> QED  BY <2>4, <2>8, <2>9, <3>1, <3>2, <3>3, <3>4, RowMoves
  <2>11. t \in Created' /\ tasks'[t].state \in Active
    BY <2>2, <2>5, <2>10
  <2>12. tasks[t].binding = node.binding /\ node.binding \in 0..MaxToken
    BY <2>2, <2>6 DEF Bound, Inv, TypeOK, NodeType
  <2>13. /\ Handle(r).reply \in Replies /\ Handle(r).reply.binding = node.binding
    BY <2>1, <2>12, ReplyTypes DEF Replies, Codes
  <2> QED  BY <2>6, <2>10, <2>11, <2>13 DEF t
<1> QED  BY <1>2, <1>3

\* The panel vouches for a result: it is the one that is journalled.
LEMMA ReportTaskKept ==
  ASSUME Inv, NEW r, RequestStands(r), r.kind = "report", Authenticated(r),
         Executes(r), UNCHANGED <<node, journal>>
  PROVE  LET reply == Handle(r).reply
         IN  /\ PanelKept /\ reply \in Replies
             /\ /\ reply.code = "ok"
                /\ Executed(r.task) /\ r.state = journal[r.task].status
                /\ r.seq = journal[r.task].seq
                => SameResult(r.task)' /\ Receipt(reply, r.task)
<1> DEFINE t == r.task
           row == [tasks[t] EXCEPT !.state = r.state, !.seq = r.seq]
<1>1. /\ Handle(r) = ReportTask(r)
      /\ machine' = ReportTask(r).machine /\ tasks' = ReportTask(r).tasks
      /\ stream' = ReportTask(r).stream
  BY DEF Handle, Executes
<1>2. /\ t \in TaskIds /\ r.state \in Final \cup {"running"} /\ r.seq \in Nat
      /\ journal[t].seq \in Nat /\ journal[t].status \in Active \cup Final \cup {"none"}
  BY DEF RequestStands, RequestType, Inv, TypeOK, NodeType
<1>3. ASSUME tasks' = tasks, machine' = machine, stream' = stream PROVE PanelKept
  BY <1>3, PanelStill DEF Inv, TypeOK, PanelType
<1>4. CASE ReportTask(r) = Outcome(tasks, Reply("error"))
  <2>1. UNCHANGED <<machine, tasks, stream>> /\ Handle(r).reply = Reply("error")
    BY <1>1, <1>4 DEF Outcome
  <2> QED  BY <1>3, <2>1, ReplyTypes DEF Codes
<1>5. ASSUME Enrolled(r), Bound(t)
      PROVE  /\ Installed /\ node.installation = machine.installation /\ ReportStands(r)
             /\ t \in Created /\ tasks[t] \in RowType /\ tasks[t].seq <= journal[t].seq
             /\ tasks[t].state \in Final => /\ journal[t].status = tasks[t].state
                                            /\ journal[t].seq = tasks[t].seq
  <2>1. Installed /\ node.installation = machine.installation /\ ReportStands(r)
    BY <1>5, AuthenticRequests
  <2>2. t \in Created /\ tasks[t] \in RowType
    BY <1>5, RowsTyped DEF Inv, Bound
  <2> QED  BY <1>5, <2>1, <2>2 DEF Inv, RowsStand, ResultsAgree, ResultsAreJournalled
<1>6. CASE Enrolled(r) /\ Bound(t) /\ Recordable(r)
  <2>1. /\ tasks' = [tasks EXCEPT ![t].state = r.state, ![t].seq = r.seq]
        /\ machine' = machine /\ stream' = stream
        /\ Handle(r).reply = Committed(tasks', t)
    BY <1>1, <1>6 DEF ReportTask, Outcome, Recorded
  <2>2. tasks' = [tasks EXCEPT ![t] = row]
    BY <2>1, <1>5, <1>6 DEF Created
  <2>3. row \in RowType /\ row.binding = tasks[t].binding /\ row.seq = r.seq
        /\ row.state = r.state
    BY <1>2, <1>5, <1>6 DEF RowType, States, Active, Final
  <2>4. tasks[t].state \in Active /\ tasks[t].state \notin Final
    BY <1>6 DEF Recordable, Active, Final
  <2>5. r.seq <= journal[t].seq
    BY <1>2, <1>5, <1>6 DEF ReportStands
  <2>6. /\ r.state \notin Active => Executed(t)
        /\ r.state \in Final => r.state = journal[t].status /\ r.seq = journal[t].seq
    BY <1>2, <1>5, <1>6 DEF ReportStands, Executed, Active, Final
  <2> HIDE DEF row, t
  <2>7. /\ PanelKept /\ Created' = Created
        /\ \A u \in Created : tasks'[u] = IF u = t THEN row ELSE tasks[u]
    <3>1. row.seq <= journal[t].seq
      BY <2>3, <2>5
    <3>2. row.state \notin Active => Executed(t)
      BY <2>3, <2>6
    <3>3. row.state \in Final => row.state = journal[t].status /\ row.seq = journal[t].seq
      BY <2>3, <2>6
    <3>4. UNCHANGED <<machine, stream, node, journal>>
      BY <2>1
    <3>5. t \in Created /\ Bound(t) /\ Installed
      BY <1>5, <1>6
    <3>6. row \in RowType /\ row.binding = tasks[t].binding
      BY <2>3
    <3> QED  BY <2>2, <2>4, <3>1, <3>2, <3>3, <3>4, <3>5, <3>6, RowMoves
  <2>8. tasks'[t] = row /\ t \in Created'
    BY <1>5, <1>6, <2>7
  <2>9. /\ Handle(r).reply \in Replies /\ Handle(r).reply.seq = r.seq
        /\ Handle(r).reply.terminal <=> r.state \in Final
    <3>1. tasks'[t].seq = r.seq /\ tasks'[t].seq \in Nat /\ tasks'[t].state = r.state
      BY <1>2, <2>3, <2>8
    <3>2. /\ Committed(tasks', t) \in Replies /\ Committed(tasks', t).seq = tasks'[t].seq
          /\ Committed(tasks', t).terminal <=> tasks'[t].state \in Final
      BY <3>1, CommittedReply
    <3> QED  BY <2>1, <3>1, <3>2
  <2>10. ASSUME Executed(t), r.state = journal[t].status, r.seq = journal[t].seq
         PROVE  SameResult(t)' /\ Receipt(Handle(r).reply, t)
    BY <2>3, <2>8, <2>9, <2>10 DEF SameResult, Receipt, Executed
  <2> QED  BY <2>7, <2>9, <2>10 DEF t
<1>7. CASE Enrolled(r) /\ Bound(t) /\ ~Recordable(r)
           /\ ReportTask(r) = Outcome(tasks, Committed(tasks, t))
           /\ ~(\/ r.seq > tasks[t].seq
                \/ r.seq = tasks[t].seq /\ r.state # tasks[t].state)
  <2>1. /\ UNCHANGED <<machine, tasks, stream>> /\ Handle(r).reply = Committed(tasks, t)
    BY <1>1, <1>7 DEF Outcome
  <2>2. tasks[t].seq \in Nat
    BY <1>5, <1>7 DEF RowType
  <2>3. /\ Handle(r).reply \in Replies /\ Handle(r).reply.seq = tasks[t].seq
        /\ Handle(r).reply.terminal <=> tasks[t].state \in Final
    BY <2>1, <2>2, CommittedReply
  <2>4. ASSUME Executed(t), r.state = journal[t].status, r.seq = journal[t].seq
        PROVE  SameResult(t)' /\ Receipt(Handle(r).reply, t)
    <3>1. r.seq = tasks[t].seq /\ r.state = tasks[t].state
      BY <1>2, <1>5, <1>7, <2>2, <2>4
    <3> QED  BY <1>5, <1>7, <2>1, <2>3, <2>4, <3>1 DEF SameResult, Receipt, Executed, Created
  <2> QED  BY <1>3, <2>1, <2>3, <2>4
<1> QED  BY <1>4, <1>6, <1>7 DEF ReportTask

\* Every request, when the panel comes to handle it
LEMMA Handled ==
  ASSUME Inv, NEW r, RequestStands(r), Executes(r), UNCHANGED <<node, journal>>
  PROVE  LET reply == Handle(r).reply
         IN  /\ PanelKept /\ reply \in Replies
             /\ r.kind = "watch" /\ reply.code = "ok" =>
                  /\ Installed' /\ reply.binding = machine'.binding
                  /\ reply.binding # 0 /\ node.binding \in {0, reply.binding}
             /\ r.kind = "accept" /\ reply.code = "ok" =>
                  /\ reply.binding = node.binding /\ node.binding # 0
                  /\ r.task \in Created' /\ tasks'[r.task].state \in Active
             /\ /\ r.kind = "report" /\ reply.code = "ok"
                /\ Executed(r.task) /\ r.state = journal[r.task].status
                /\ r.seq = journal[r.task].seq
                => SameResult(r.task)' /\ Receipt(reply, r.task)
<1>1. CASE ~Authenticated(r)
  <2>1. Handle(r) = Outcome(tasks, Reply("fatal"))
    BY <1>1 DEF Handle
  <2>2. UNCHANGED <<machine, tasks, stream>> /\ Handle(r).reply = Reply("fatal")
    BY <2>1 DEF Executes, Outcome
  <2>3. PanelKept
    BY <2>2, PanelStill DEF Inv, TypeOK, PanelType
  <2>4. Handle(r).reply \in Replies /\ Handle(r).reply.code = "fatal"
    BY <2>2, ReplyTypes DEF Codes
  <2> QED  BY <2>3, <2>4
<1>2. CASE Authenticated(r)
  <2>1. r.kind \in {"watch", "accept", "report"}
    BY DEF RequestStands, RequestType, IsRequest
  <2>2. CASE r.kind = "watch"
    BY <1>2, <2>2, WatchTasksKept
  <2>3. CASE r.kind = "accept"
    BY <1>2, <2>3, AcceptTaskKept
  <2>4. CASE r.kind = "report"
    BY <1>2, <2>4, ReportTaskKept
  <2> QED  BY <2>1, <2>2, <2>3, <2>4
<1> QED  BY <1>1, <1>2

\* One call is replaced by a reply.
LEMMA CallReplaced ==
  ASSUME Inv, NEW c \in Callers, NEW reply \in Replies, call' = [call EXCEPT ![c] = reply]
  PROVE  /\ call'[c] = reply /\ \A d \in Callers : d # c => call'[d] = call[d]
         /\ DOMAIN call' = Callers
         /\ \A d \in Callers : IsRequest(call'[d]) => call'[d] = call[d]
         /\ \A d \in Callers : call'[d] = NoCall \/ call'[d] \in Replies \/ RequestType(call'[d])
<1>1. /\ call'[c] = reply /\ \A d \in Callers : d # c => call'[d] = call[d]
      /\ DOMAIN call' = Callers
  BY DEF Inv, TypeOK, ThreadType
<1>2. ~IsRequest(reply)
  BY DEF Replies, IsRequest
<1> QED  BY <1>1, <1>2 DEF Inv, TypeOK, ThreadType

LEMMA DeliverInv ==
  ASSUME Inv, NEW c \in Callers, Deliver(c)
  PROVE  Inv'
<1>a. PICK r : r = call[c]
  OBVIOUS
<1>b. PICK reply : reply = Handle(r).reply
  OBVIOUS
<1>1. /\ r = call[c] /\ IsRequest(r) /\ Executes(r) /\ call' = [call EXCEPT ![c] = reply]
      /\ UNCHANGED <<node, journal, exit, up, session, worker, jobs, queued, failure,
                     late, faults>>
  BY <1>a, <1>b DEF Deliver, disk, threads
<1>2. RequestStands(r)
  BY <1>1 DEF Inv, AllRequests
<1>3. /\ PanelKept /\ reply \in Replies
      /\ r.kind = "watch" /\ reply.code = "ok" =>
           /\ Installed' /\ reply.binding = machine'.binding
           /\ reply.binding # 0 /\ node.binding \in {0, reply.binding}
      /\ r.kind = "accept" /\ reply.code = "ok" =>
           /\ reply.binding = node.binding /\ node.binding # 0
           /\ r.task \in Created' /\ tasks'[r.task].state \in Active
      /\ /\ r.kind = "report" /\ reply.code = "ok"
         /\ Executed(r.task) /\ r.state = journal[r.task].status
         /\ r.seq = journal[r.task].seq
         => SameResult(r.task)' /\ Receipt(reply, r.task)
  BY <1>1, <1>2, <1>b, Handled
<1>4. /\ call'[c] = reply /\ \A d \in Callers : d # c => call'[d] = call[d]
      /\ DOMAIN call' = Callers
      /\ \A d \in Callers : IsRequest(call'[d]) => call'[d] = call[d]
      /\ \A d \in Callers : call'[d] = NoCall \/ call'[d] \in Replies \/ RequestType(call'[d])
  BY <1>1, <1>3, CallReplaced
<1>5. RowsMove /\ MachineMoves
  BY <1>3 DEF PanelKept
<1>6. TypeOK'
  BY <1>1, <1>3, <1>4 DEF Inv, TypeOK, PanelKept, NodeType, ThreadType, SignedType, RequestType
<1>7. ReceiptsStand' /\ Peaceful'
  BY <1>1 DEF Inv, ReceiptsStand, Executed, Peaceful
<1>8. up /\ ProcessStands'
  <2>1. call # [d \in Callers |-> NoCall]
    BY <1>1 DEF IsRequest, NoCall
  <2> QED  BY <1>1, <2>1 DEF Inv, ProcessStands
<1>9. \A q \in AllRequests' : RequestStands(q)'
  <2>1. AllRequests' \subseteq AllRequests
    BY <1>1, <1>4 DEF AllRequests
  <2> QED  BY <1>1, <1>5, <2>1, RequestsKept DEF Inv
<1>10. reply.kind = "reply"
  BY <1>3 DEF Replies
<1>11. ResultsStay
  BY <1>1 DEF ResultsStay
<1>12. SessionStands'
  <2>1. CASE c # "session"
    BY <1>1, <1>4, <1>5, <1>11, <2>1, SessionFrame DEF Inv, Callers
  <2>2. CASE c = "session" /\ session.pc = "watch"
    <3>1. r.kind = "watch"
      BY <1>1, <2>2 DEF Inv, SessionStands, IsRequest
    <3> QED  BY <1>1, <1>3, <1>4, <1>10, <2>2, <3>1 DEF SessionStands
  <2>3. CASE c = "session" /\ session.pc = "sent"
    <3>1. /\ session.task \in TaskIds /\ Executed(session.task)
          /\ r.kind = "report" /\ r.task = session.task
          /\ r.state = journal[session.task].status /\ r.seq = journal[session.task].seq
          /\ \A t \in session.todo : Executed(t)
      BY <1>1, <2>3 DEF Inv, SessionStands, ResultInFlight, IsRequest
    <3>2. reply.code = "ok" => SameResult(session.task)' /\ Receipt(reply, session.task)'
      BY <1>1, <1>3, <3>1 DEF Receipt
    <3> QED  BY <1>1, <1>4, <1>10, <2>3, <3>1, <3>2 DEF SessionStands, ResultInFlight, Executed
  <2>4. c = "session" => session.pc \in {"watch", "sent"}
    BY <1>1 DEF Inv, SessionStands, IsRequest, NoCall, TypeOK, ThreadType
  <2> QED  BY <2>1, <2>2, <2>3, <2>4
<1>13. WorkerStands'
  <2>1. CASE c # "worker"
    BY <1>1, <1>4, <1>5, <2>1, WorkerFrame DEF Inv, Callers
  <2>2. CASE c = "worker" /\ worker.pc = "accept"
    <3>1. r.kind = "accept" /\ r.task = worker.task /\ worker.task \in TaskIds
      BY <1>1, <2>2 DEF Inv, WorkerStands, IsRequest
    <3>2. reply.code = "ok" => Held(worker.task)'
      BY <1>1, <1>3, <3>1 DEF Held
    <3> QED  BY <1>1, <1>3, <1>4, <1>10, <2>2, <3>1, <3>2 DEF WorkerStands
  <2>3. CASE c = "worker" /\ worker.pc = "progress"
    <3>1. /\ worker.task \in TaskIds /\ Held(worker.task)
          /\ journal[worker.task].status = "running"
      BY <2>3 DEF Inv, WorkerStands
    <3>2. Held(worker.task)'
      BY <1>1, <1>5, <3>1 DEF Held, RowsMove, Executed
    <3> QED  BY <1>1, <1>4, <1>10, <2>3, <3>1, <3>2 DEF WorkerStands
  <2>4. CASE c = "worker" /\ worker.pc = "report"
    <3>1. /\ worker.task \in TaskIds /\ Executed(worker.task)
          /\ r.kind = "report" /\ r.task = worker.task
          /\ r.state = journal[worker.task].status /\ r.seq = journal[worker.task].seq
      BY <1>1, <2>4 DEF Inv, WorkerStands, ResultInFlight, IsRequest
    <3>2. reply.code = "ok" => SameResult(worker.task)' /\ Receipt(reply, worker.task)'
      BY <1>1, <1>3, <3>1 DEF Receipt
    <3> QED  BY <1>1, <1>4, <1>10, <2>4, <3>1, <3>2 DEF WorkerStands, ResultInFlight, Executed
  <2>5. c = "worker" => worker.pc \in {"accept", "progress", "report"}
    BY <1>1 DEF Inv, WorkerStands, IsRequest, NoCall, TypeOK, ThreadType
  <2> QED  BY <2>1, <2>2, <2>3, <2>4, <2>5
<1> QED  BY <1>3, <1>6, <1>7, <1>8, <1>9, <1>12, <1>13 DEF Inv, PanelKept

--------------------------------------------------------------------------------
(***************************************************************************)
(* Calls that fail, and the end of the process                             *)
(***************************************************************************)

\* The rows, the identity and the journal stay.
LEMMA ThreadsOnly ==
  ASSUME Inv, UNCHANGED <<panel, node, journal>>, up' \in BOOLEAN,
         exit' \in {"none", "authentication_rejected", "binding_unsaved"},
         failure' # "conflict",
         ThreadType', ProcessStands', SessionStands', WorkerStands',
         \A r \in AllRequests' : RequestStands(r)
  PROVE  Inv'
<1> USE DEF panel
<1>1. TypeOK'
  BY DEF Inv, TypeOK, PanelType, NodeType
<1>2. PanelKept
  BY <1>1, PanelStill DEF TypeOK
<1>3. \A r \in AllRequests' : RequestStands(r)'
  BY <1>2, RequestsKept DEF PanelKept, Inv
<1>4. ReceiptsStand' /\ Peaceful'
  BY DEF Inv, ReceiptsStand, Executed, Peaceful
<1> QED  BY <1>1, <1>2, <1>3, <1>4 DEF Inv, PanelKept

\* What the threads rely on, in a step that leaves panel and disk alone
LEMMA FramesStill ==
  ASSUME Inv, UNCHANGED <<panel, node, journal>>
  PROVE  /\ session' = session /\ call'["session"] = call["session"] => SessionStands'
         /\ worker' = worker /\ call'["worker"] = call["worker"] => WorkerStands'
<1>1. PanelKept
  BY PanelStill DEF panel, Inv, TypeOK, PanelType
<1>2. ResultsStay /\ RowsMove /\ MachineMoves
  BY <1>1 DEF PanelKept, ResultsStay
<1> QED  BY <1>2, SessionFrame, WorkerFrame DEF Inv

LEMMA RequestsTyped ==
  ASSUME NEW r, RequestType(r)
  PROVE  RequestType(r)' /\ r # NoCall
BY DEF RequestType, SignedType, IsRequest, NoCall

LEMMA DeliverLateInv ==
  ASSUME Inv, NEW r \in late, DeliverLate(r)
  PROVE  Inv'
<1>1. /\ Executes(r) /\ late' = late \ {r}
      /\ UNCHANGED <<node, journal, exit, up, session, worker, jobs, queued, failure,
                     call, faults>>
  BY DEF DeliverLate, disk, threads
<1>2. RequestStands(r)
  BY DEF Inv, AllRequests
<1>3. PanelKept
  BY <1>1, <1>2, Handled
<1>4. TypeOK'
  BY <1>1, <1>3, RequestsTyped DEF Inv, TypeOK, PanelKept, NodeType, ThreadType
<1>5. ReceiptsStand' /\ ProcessStands' /\ Peaceful'
  BY <1>1 DEF Inv, ReceiptsStand, Executed, ProcessStands, Peaceful
<1>6. \A q \in AllRequests' : RequestStands(q)'
  <2>1. AllRequests' \subseteq AllRequests
    BY <1>1 DEF AllRequests
  <2> QED  BY <1>1, <1>3, <2>1, RequestsKept DEF Inv, PanelKept
<1>7. SessionStands'
  BY <1>1, <1>3, SessionFrame DEF Inv, PanelKept, ResultsStay
<1>8. WorkerStands'
  BY <1>1, <1>3, WorkerFrame DEF Inv, PanelKept
<1> QED  BY <1>3, <1>4, <1>5, <1>6, <1>7, <1>8 DEF Inv, PanelKept

LEMMA FailsInv ==
  ASSUME Inv, NEW c \in Callers, Fails(c)
  PROVE  Inv'
<1>a. PICK reply : reply = Reply("error")
  OBVIOUS
<1>1. /\ call[c] # NoCall /\ call' = [call EXCEPT ![c] = reply]
      /\ late' \subseteq late \cup (IF IsRequest(call[c]) THEN {call[c]} ELSE {})
      /\ UNCHANGED <<panel, node, journal, exit, up, session, worker, jobs, queued, failure>>
      /\ faults' \in 0..MaxFaults
  BY <1>a, DeliveryAssumption DEF Fails, MayFail, disk, threads, Inv, TypeOK, ThreadType
<1>2. reply \in Replies /\ reply.kind = "reply" /\ reply.code # "ok"
  BY <1>a, ReplyTypes DEF Codes, Replies
<1>3. /\ call'[c] = reply /\ \A d \in Callers : d # c => call'[d] = call[d]
      /\ DOMAIN call' = Callers
      /\ \A d \in Callers : IsRequest(call'[d]) => call'[d] = call[d]
      /\ \A d \in Callers : call'[d] = NoCall \/ call'[d] \in Replies \/ RequestType(call'[d])
  BY <1>1, <1>2, CallReplaced
<1>4. \A r \in AllRequests' : RequestStands(r)
  <2>1. AllRequests' \subseteq AllRequests
    BY <1>1, <1>3 DEF AllRequests
  <2> QED  BY <2>1 DEF Inv
<1>5. ThreadType'
  <2>1. \A r \in late' : RequestType(r)'
    <3>1. late' \subseteq AllRequests
      BY <1>1 DEF AllRequests
    <3> QED  BY <3>1, RequestsTyped DEF Inv, RequestStands
  <2> QED  BY <1>1, <1>3, <2>1, RequestsTyped DEF Inv, TypeOK, ThreadType
<1>6. up /\ ProcessStands'
  <2>1. call # [d \in Callers |-> NoCall]
    BY <1>1
  <2> QED  BY <1>1, <2>1 DEF Inv, ProcessStands
<1>7. SessionStands'
  <2>1. CASE c # "session"
    BY <1>1, <1>3, <2>1, FramesStill DEF Callers
  <2>2. CASE c = "session"
    <3>1. session.pc \in {"watch", "sent"}
      BY <1>1, <2>2 DEF Inv, SessionStands, TypeOK, ThreadType
    <3>2. session.pc = "sent" => /\ session.task \in TaskIds /\ Executed(session.task)
                                 /\ \A t \in session.todo : Executed(t)
      BY DEF Inv, SessionStands, ResultInFlight
    <3> QED  BY <1>1, <1>2, <1>3, <2>2, <3>1, <3>2 DEF SessionStands, ResultInFlight, Executed
  <2> QED  BY <2>1, <2>2
<1>8. WorkerStands'
  <2>1. CASE c # "worker"
    BY <1>1, <1>3, <2>1, FramesStill DEF Callers
  <2>2. CASE c = "worker"
    <3>1. worker.pc \in {"accept", "progress", "report"}
      BY <1>1, <2>2 DEF Inv, WorkerStands, TypeOK, ThreadType
    <3>2. worker.pc = "report" => worker.task \in TaskIds /\ Executed(worker.task)
      BY DEF Inv, WorkerStands, ResultInFlight
    <3>3. Held(worker.task) => Held(worker.task)'
      BY <1>1 DEF Held, Executed, Created, panel
    <3> QED  BY <1>1, <1>2, <1>3, <2>2, <3>1, <3>2, <3>3
             DEF Inv, WorkerStands, ResultInFlight, Executed
  <2> QED  BY <2>1, <2>2
<1> QED  BY <1>1, <1>4, <1>5, <1>6, <1>7, <1>8, ThreadsOnly
         DEF Inv, TypeOK, NodeType, Peaceful

\* The process ends, for whatever reason but a conflict.
LEMMA VanishInv ==
  ASSUME Inv, Vanish, UNCHANGED <<panel, node, journal>>,
         exit' \in {exit, "authentication_rejected", "binding_unsaved"},
         faults' \in 0..MaxFaults
  PROVE  Inv'
<1>1. /\ up' = FALSE /\ session' = Off /\ worker' = Idle /\ jobs' = <<>>
      /\ queued' = {} /\ failure' = "none" /\ call' = [c \in Callers |-> NoCall]
      /\ late' \subseteq AllRequests
  BY DEF Vanish, AllRequests
<1>2. \A r \in AllRequests' : RequestStands(r)
  <2>1. AllRequests' \subseteq AllRequests
    BY <1>1 DEF AllRequests, IsRequest, NoCall
  <2> QED  BY <2>1 DEF Inv
<1>3. ThreadType'
  <2>1. \A r \in late' : RequestType(r)'
    BY <1>1, RequestsTyped DEF Inv, RequestStands
  <2>2. session' \in [pc: {"off", "watch", "report", "flush", "sent", "open"},
                      epoch: Epochs, todo: SUBSET TaskIds, task: 0..MaxTasks]
    BY <1>1, DeliveryAssumption DEF Off, Epochs
  <2>3. worker' \in [pc: {"idle", "accept", "journalled", "progress", "perform", "report"},
                     task: 0..MaxTasks, epoch: Epochs]
    BY <1>1, DeliveryAssumption DEF Idle, Epochs
  <2>4. jobs' \in Seq([task: TaskIds, epoch: Epochs])
    BY <1>1, EmptySeq
  <2> QED  BY <1>1, <2>1, <2>2, <2>3, <2>4 DEF ThreadType
<1>4. ProcessStands'
  BY <1>1 DEF ProcessStands
<1>5. SessionStands' /\ WorkerStands'
  BY <1>1 DEF SessionStands, WorkerStands, Off, Idle, NoCall, Callers
<1> QED  BY <1>1, <1>2, <1>3, <1>4, <1>5, ThreadsOnly DEF Inv, TypeOK, NodeType, Peaceful

LEMMA CrashInv ==
  ASSUME Inv, Crash
  PROVE  Inv'
<1>1. faults' \in 0..MaxFaults
  BY DeliveryAssumption DEF Crash, MayFail, Inv, TypeOK, ThreadType
<1> QED  BY <1>1, VanishInv DEF Crash, panel, disk

\* The session ends without a conflict.
LEMMA SessionEndsInv ==
  ASSUME Inv, NEW code, NEW left \in {"none", "error", "fatal"},
         code \in {"error", "fatal", "unsaved"}, SessionEnds(code, left), up,
         UNCHANGED panel, faults' \in 0..MaxFaults
  PROVE  Inv'
<1>1. CASE code # "error"
  <2>1. /\ Vanish /\ UNCHANGED <<node, journal>>
        /\ exit' \in {"authentication_rejected", "binding_unsaved"}
    BY <1>1 DEF SessionEnds
  <2> QED  BY <2>1, VanishInv
<1>2. CASE code = "error"
  <2>1. /\ session' = Off /\ failure' = left /\ call' = [call EXCEPT !["session"] = NoCall]
        /\ UNCHANGED <<node, journal, exit, up, worker, jobs, queued, late>>
    BY <1>2 DEF SessionEnds, Done, disk
  <2>2. /\ call'["session"] = NoCall /\ call'["worker"] = call["worker"]
        /\ DOMAIN call' = Callers
        /\ \A d \in Callers : call'[d] \in {NoCall, call[d]}
    BY <2>1 DEF Inv, TypeOK, ThreadType, Callers
  <2>3. AllRequests' \subseteq AllRequests
    <3>1. ~IsRequest(NoCall)
      BY DEF IsRequest, NoCall
    <3> QED  BY <2>1, <2>2, <3>1 DEF AllRequests
  <2>4. \A r \in AllRequests' : RequestStands(r)
    BY <2>3 DEF Inv
  <2>5. session' \in [pc: {"off", "watch", "report", "flush", "sent", "open"},
                      epoch: Epochs, todo: SUBSET TaskIds, task: 0..MaxTasks]
    BY <2>1, DeliveryAssumption DEF Off, Epochs
  <2>6. ThreadType'
    BY <2>1, <2>2, <2>5, RequestsTyped DEF Inv, TypeOK, ThreadType
  <2>7. ProcessStands'
    BY <2>1 DEF ProcessStands
  <2>8. SessionStands' /\ WorkerStands'
    BY <2>1, <2>2, FramesStill DEF SessionStands, Off
  <2> QED  BY <2>1, <2>4, <2>6, <2>7, <2>8, ThreadsOnly
           DEF Inv, TypeOK, NodeType, Peaceful
<1> QED  BY <1>1, <1>2

LEMMA StartInv ==
  ASSUME Inv, Start
  PROVE  Inv'
<1>1. /\ up' = TRUE
      /\ UNCHANGED <<panel, node, journal, exit, session, worker, jobs, queued, failure,
                     call, late, faults>>
  BY DEF Start, disk, threads
<1>2. \A r \in AllRequests' : RequestStands(r)
  BY <1>1 DEF Inv, AllRequests
<1>3. ThreadType' /\ ProcessStands'
  BY <1>1, RequestsTyped DEF Inv, TypeOK, ThreadType, ProcessStands
<1>4. SessionStands' /\ WorkerStands'
  BY <1>1, FramesStill
<1> QED  BY <1>1, <1>2, <1>3, <1>4, ThreadsOnly DEF Inv, TypeOK, NodeType, Peaceful

--------------------------------------------------------------------------------
(***************************************************************************)
(* The operator                                                            *)
(***************************************************************************)

\* A stopped daemon waits for nothing.
LEMMA Stopped ==
  ASSUME Inv, ~up
  PROVE  /\ AllRequests = late
         /\ session = Off /\ worker = Idle /\ call = [c \in Callers |-> NoCall]
         /\ failure = "none"
         /\ \A r \in late : /\ RequestStands(r) /\ r.installation \in 0..MaxToken
                            /\ r.token \in 1..MaxToken
<1>1. /\ session = Off /\ worker = Idle /\ call = [c \in Callers |-> NoCall]
      /\ failure = "none"
  BY DEF Inv, ProcessStands
<1>2. AllRequests = late
  BY <1>1 DEF AllRequests, IsRequest, NoCall
<1> QED  BY <1>1, <1>2 DEF Inv, RequestStands, RequestType, SignedType

LEMMA ReconfigureInv ==
  ASSUME Inv, Reconfigure
  PROVE  Inv'
<1>1. /\ ~up /\ node.token # machine.token /\ node' = [node EXCEPT !.token = machine.token]
      /\ UNCHANGED <<machine, tasks, stream, journal, exit, up, session, worker, jobs,
                     queued, failure, call, late, faults>>
  BY DEF Reconfigure, panel, threads
<1>2. /\ node.token \in 1..MaxToken /\ machine.token \in 1..MaxToken
      /\ node.installation \in 1..MaxToken /\ node.installation <= node.token
      /\ node.token < machine.token
  BY <1>1 DEF Inv, TypeOK, NodeType, PanelType, NodeStands
<1>3. /\ node'.token = machine.token /\ node'.installation = node.installation
      /\ node'.binding = node.binding
      /\ node' \in [installation: 1..MaxToken, binding: 0..MaxToken, token: 1..MaxToken]
  BY <1>1, <1>2 DEF Inv, TypeOK, NodeType
<1>4. TypeOK'
  BY <1>1, <1>3, RequestsTyped DEF Inv, TypeOK, NodeType, PanelType, ThreadType
<1>5. NodeStands' /\ RowsStand' /\ ReceiptsStand' /\ ResultsAgree' /\ Peaceful'
  <2>1. NodeStands'
    BY <1>1, <1>2, <1>3 DEF Inv, NodeStands, Installed
  <2>2. RowsStand' /\ ReceiptsStand' /\ Peaceful'
    BY <1>1 DEF Inv, RowsStand, ReceiptsStand, Peaceful, Installed, Bound, Created, Executed
  <2>3. ResultsAgree'
    BY <1>1, <1>3 DEF Inv, ResultsAgree, ResultsAreJournalled, ReceiptsAreTrue, Bound, Created
  <2> QED  BY <2>1, <2>2, <2>3
<1>6. \A r \in AllRequests' : RequestStands(r)'
  <2>1. AllRequests' = late
    BY <1>1, Stopped DEF AllRequests
  <2>2. SUFFICES ASSUME NEW r \in late PROVE RequestStands(r)'
    BY <2>1
  <2>3. RequestStands(r) /\ r.token \in 1..MaxToken /\ r.token < machine.token
    BY <1>1, <1>2, Stopped DEF RequestStands
  <2>4. r.token <= node'.token /\ r.token # node'.token
    BY <1>2, <1>3, <2>3
  <2> QED  BY <1>1, <1>3, <2>3, <2>4, RequestsTyped DEF RequestStands, ReportStands
<1>7. ProcessStands' /\ SessionStands' /\ WorkerStands'
  BY <1>1, Stopped DEF Inv, ProcessStands, SessionStands, WorkerStands, Off, Idle, NoCall, Callers
<1> QED  BY <1>4, <1>5, <1>6, <1>7 DEF Inv

\* A new installation shares its name with none before it.
LEMMA ReinstallInv ==
  ASSUME Inv, Reinstall
  PROVE  Inv'
<1>1. /\ ~up /\ machine.installation = 0 /\ node.token # machine.token
      /\ node' = [installation |-> machine.token, binding |-> 0, token |-> machine.token]
      /\ journal' = [t \in TaskIds |-> Unknown] /\ exit' = "none"
      /\ UNCHANGED <<machine, tasks, stream, up, session, worker, jobs,
                     queued, failure, call, late, faults>>
  BY DEF Reinstall, panel, threads
<1>2. /\ node.token \in 1..MaxToken /\ machine.token \in 1..MaxToken
      /\ node.token < machine.token
  BY <1>1 DEF Inv, TypeOK, NodeType, PanelType, NodeStands
<1>3. /\ ~Installed /\ ~Installed' /\ \A t \in Created : ~Bound(t)
      /\ Created' = Created /\ \A t \in Created : ~Bound(t)'
  BY <1>1 DEF Inv, RowsStand, Installed, Bound, Created
<1>4. TypeOK'
  <2>1. Unknown \in [status: Active \cup Final \cup {"none"}, seq: Nat, acked: BOOLEAN]
    BY DEF Unknown
  <2>2. node' \in [installation: 1..MaxToken, binding: 0..MaxToken, token: 1..MaxToken]
    BY <1>1, <1>2, DeliveryAssumption
  <2> QED  BY <1>1, <2>1, <2>2, RequestsTyped DEF Inv, TypeOK, NodeType, PanelType, ThreadType
<1>5. NodeStands' /\ RowsStand' /\ ReceiptsStand' /\ ResultsAgree' /\ Peaceful'
  <2>1. NodeStands'
    BY <1>1, <1>2, <1>3 DEF Inv, NodeStands, Unknown
  <2>2. RowsStand' /\ ReceiptsStand' /\ Peaceful'
    BY <1>1, <1>3 DEF Inv, RowsStand, ReceiptsStand, Peaceful, Unknown
  <2>3. ResultsAgree'
    BY <1>1, <1>3 DEF ResultsAgree, ResultsAreJournalled, ReceiptsAreTrue, Unknown
  <2> QED  BY <2>1, <2>2, <2>3
<1>6. \A r \in AllRequests' : RequestStands(r)'
  <2>1. AllRequests' = late
    BY <1>1, Stopped DEF AllRequests
  <2>2. SUFFICES ASSUME NEW r \in late PROVE RequestStands(r)'
    BY <2>1
  <2>3. /\ RequestStands(r) /\ r.token \in 1..MaxToken /\ r.installation \in 0..MaxToken
        /\ r.installation <= r.token /\ r.token <= node.token
    BY <1>1, Stopped DEF RequestStands
  <2>4. r.token <= node'.token /\ r.token # node'.token /\ r.installation # node'.installation
        /\ r.token # machine'.token
    BY <1>1, <1>2, <2>3
  <2> QED  BY <2>3, <2>4, RequestsTyped DEF RequestStands
<1>7. ProcessStands' /\ SessionStands' /\ WorkerStands'
  BY <1>1, Stopped DEF Inv, ProcessStands, SessionStands, WorkerStands, Off, Idle, NoCall, Callers
<1> QED  BY <1>4, <1>5, <1>6, <1>7 DEF Inv

--------------------------------------------------------------------------------
(***************************************************************************)
(* The session loop                                                        *)
(***************************************************************************)

\* What the node signs now stands.
LEMMA SignedNow ==
  ASSUME Inv, NEW r, RequestType(r), r.installation = node.installation,
         r.binding = node.binding, r.token = node.token,
         r.kind = "report" => ReportStands(r)
  PROVE  RequestStands(r)
<1>1. node.token \in 1..MaxToken /\ node.installation <= node.token
  BY DEF Inv, TypeOK, NodeType, NodeStands
<1> QED  BY <1>1 DEF RequestStands

\* A thread sends a request.
LEMMA CallSent ==
  ASSUME Inv, NEW c \in Callers, NEW r, RequestType(r), call' = [call EXCEPT ![c] = r],
         late' = late
  PROVE  /\ call'[c] = r /\ \A d \in Callers : d # c => call'[d] = call[d]
         /\ DOMAIN call' = Callers
         /\ \A d \in Callers : call'[d] = NoCall \/ call'[d] \in Replies \/ RequestType(call'[d])
         /\ AllRequests' \subseteq AllRequests \cup {r}
<1>1. /\ call'[c] = r /\ \A d \in Callers : d # c => call'[d] = call[d]
      /\ DOMAIN call' = Callers
  BY DEF Inv, TypeOK, ThreadType
<1> QED  BY <1>1 DEF Inv, TypeOK, ThreadType, AllRequests

\* A thread has read its reply.
LEMMA CallDone ==
  ASSUME Inv, NEW c \in Callers, Done(c), late' = late
  PROVE  /\ call'[c] = NoCall /\ \A d \in Callers : d # c => call'[d] = call[d]
         /\ DOMAIN call' = Callers
         /\ \A d \in Callers : call'[d] = NoCall \/ call'[d] \in Replies \/ RequestType(call'[d])
         /\ AllRequests' \subseteq AllRequests
<1>1. /\ call'[c] = NoCall /\ \A d \in Callers : d # c => call'[d] = call[d]
      /\ DOMAIN call' = Callers
  BY DEF Done, Inv, TypeOK, ThreadType
<1>2. ~IsRequest(NoCall)
  BY DEF IsRequest, NoCall
<1> QED  BY <1>1, <1>2 DEF Inv, TypeOK, ThreadType, AllRequests

LEMMA ConnectInv ==
  ASSUME Inv, Connect
  PROVE  Inv'
<1>a. PICK r : r = WatchRequest
  OBVIOUS
<1>1. /\ up /\ session.pc = "off" /\ session' = [session EXCEPT !.pc = "watch"]
      /\ call' = [call EXCEPT !["session"] = r]
      /\ UNCHANGED <<panel, node, journal, exit, up, worker, jobs, queued, failure,
                     late, faults>>
  BY <1>a DEF Connect, Sends, disk
<1>2. /\ RequestType(r) /\ RequestStands(r) /\ r.kind = "watch"
  <2>1. /\ r.kind = "watch" /\ r.installation = node.installation
        /\ r.binding = node.binding /\ r.token = node.token
    BY <1>a DEF WatchRequest
  <2>2. RequestType(r)
    BY <2>1 DEF RequestType, IsRequest, SignedType, Inv, TypeOK, NodeType
  <2> QED  BY <2>1, <2>2, SignedNow
<1>3. /\ call'["session"] = r /\ call'["worker"] = call["worker"] /\ DOMAIN call' = Callers
      /\ \A d \in Callers : call'[d] = NoCall \/ call'[d] \in Replies \/ RequestType(call'[d])
      /\ AllRequests' \subseteq AllRequests \cup {r}
  BY <1>1, <1>2, CallSent DEF Callers
<1>4. \A q \in AllRequests' : RequestStands(q)
  BY <1>2, <1>3 DEF Inv
<1>5. ThreadType'
  BY <1>1, <1>3, RequestsTyped DEF Inv, TypeOK, ThreadType
<1>6. ProcessStands'
  BY <1>1 DEF ProcessStands
<1>7. SessionStands' /\ WorkerStands'
  BY <1>1, <1>2, <1>3, FramesStill DEF SessionStands, Inv, TypeOK, ThreadType
<1> QED  BY <1>1, <1>4, <1>5, <1>6, <1>7, ThreadsOnly DEF Inv, TypeOK, NodeType, Peaceful

LEMMA GreetInv ==
  ASSUME Inv, Greet
  PROVE  Inv'
<1>a. PICK b : b = call["session"].binding
  OBVIOUS
<1>1. /\ session.pc = "watch" /\ call["session"].kind = "reply" /\ call["session"].code = "ok"
      /\ node.binding \in {0, b} /\ node' = [node EXCEPT !.binding = b]
      /\ session' = [session EXCEPT !.pc = "report", !.epoch = call["session"].epoch]
      /\ Done("session")
      /\ UNCHANGED <<machine, tasks, stream, journal, exit, up, worker, jobs, queued, failure,
                     late, faults>>
  BY <1>a DEF Greet, Answered, BindingAgrees, panel
<1>2. /\ b # 0 /\ Installed => b = machine.binding
      /\ ~Installed => node.token # machine.token
  BY <1>1, <1>a DEF Inv, SessionStands
<1>3. call["session"] \in Replies
  BY <1>1 DEF Inv, TypeOK, ThreadType, RequestType, IsRequest, NoCall, Callers
<1>4. /\ node'.token = node.token /\ node'.installation = node.installation
      /\ node'.binding = b
      /\ node' \in [installation: 1..MaxToken, binding: 0..MaxToken, token: 1..MaxToken]
  BY <1>1, <1>3, <1>a DEF Inv, TypeOK, NodeType, Replies
<1>5. /\ call'["session"] = NoCall /\ call'["worker"] = call["worker"]
      /\ DOMAIN call' = Callers
      /\ \A d \in Callers : call'[d] = NoCall \/ call'[d] \in Replies \/ RequestType(call'[d])
      /\ AllRequests' \subseteq AllRequests
  BY <1>1, CallDone DEF Callers
<1>6. TypeOK'
  BY <1>1, <1>3, <1>4, <1>5, RequestsTyped
     DEF Inv, TypeOK, NodeType, PanelType, ThreadType, Replies
<1>7. NodeStands' /\ RowsStand' /\ ReceiptsStand' /\ ResultsAgree' /\ Peaceful'
  <2>1. NodeStands'
    BY <1>1, <1>2, <1>4 DEF Inv, NodeStands, Installed
  <2>2. RowsStand' /\ ReceiptsStand' /\ Peaceful'
    BY <1>1 DEF Inv, RowsStand, ReceiptsStand, Peaceful, Installed, Bound, Created, Executed
  <2>3. ResultsAgree'
    BY <1>1, <1>4 DEF Inv, ResultsAgree, ResultsAreJournalled, ReceiptsAreTrue, Bound, Created
  <2> QED  BY <2>1, <2>2, <2>3
<1>8. \A r \in AllRequests' : RequestStands(r)'
  <2>1. SUFFICES ASSUME NEW r \in AllRequests PROVE RequestStands(r)'
    BY <1>5
  <2>2. RequestStands(r) /\ r.token \in Nat /\ node.token \in Nat /\ machine.token \in Nat
    BY DEF Inv, RequestStands, RequestType, SignedType, TypeOK, NodeType, PanelType
  <2>3. ~(~Installed' /\ r.token = machine'.token)
    BY <1>1, <1>2, <2>2 DEF Inv, NodeStands, RequestStands, Installed
  <2>4. r.installation = node.installation => r.binding \in {0, b}
    BY <1>1, <2>2 DEF RequestStands
  <2> QED  BY <1>1, <1>4, <2>2, <2>3, <2>4, RequestsTyped DEF RequestStands, ReportStands
<1>9. session'.pc = "report" /\ up
  BY <1>1 DEF Inv, TypeOK, ThreadType, ProcessStands, Off
<1>10. ProcessStands' /\ SessionStands'
  BY <1>1, <1>5, <1>9 DEF ProcessStands, SessionStands
<1>11. WorkerStands'
  <2>1. RowsMove
    BY <1>1 DEF RowsMove, Created
  <2> QED  BY <1>1, <1>4, <1>5, <2>1, WorkerFrame DEF Inv
<1> QED  BY <1>6, <1>7, <1>8, <1>10, <1>11 DEF Inv

\* The codes of a reply, and the errors that can wait in the channel
LEMMA CodesKnown ==
  ASSUME Inv
  PROVE  /\ failure \in {"none", "error", "fatal"}
         /\ \A c \in Callers : Answered(c) => /\ call[c].code \in Codes
                                              /\ call[c] \in Replies
         /\ \A c \in Callers : call[c] # NoCall => up
<1>1. \A c \in Callers : Answered(c) => call[c] \in Replies
  BY DEF Inv, TypeOK, ThreadType, Answered, RequestType, IsRequest, NoCall
<1> QED  BY <1>1 DEF Inv, TypeOK, ThreadType, Peaceful, Replies, ProcessStands

LEMMA ConnectFailsInv ==
  ASSUME Inv, ConnectFails
  PROVE  Inv'
<1>a. PICK code : code = call["session"].code
  OBVIOUS
<1>1. Answered("session") /\ session.pc = "watch" /\ UNCHANGED panel
  BY DEF ConnectFails
<1>2. code \in Codes /\ failure \in {"none", "error", "fatal"} /\ up
  BY <1>1, <1>a, CodesKnown DEF Callers, Answered, NoCall
<1>3. CASE ConnectionRefused(call["session"]) /\ UNCHANGED faults
  <2>1. call["session"].code = "ok" => BindingAgrees(call["session"].binding)
    BY <1>1 DEF Inv, SessionStands, Answered, BindingAgrees
  <2>2. code # "ok" /\ SessionEnds(code, failure)
    BY <1>a, <1>3, <2>1 DEF ConnectionRefused
  <2>3. faults' \in 0..MaxFaults
    BY <1>3 DEF Inv, TypeOK, ThreadType
  <2> QED  BY <1>1, <1>2, <2>2, <2>3, SessionEndsInv DEF Codes
<1>4. CASE BindingUnsaved(call["session"])
  <2>1. SessionEnds("unsaved", failure)
    BY <1>4 DEF BindingUnsaved
  <2>2. faults' \in 0..MaxFaults
    BY <1>4, DeliveryAssumption DEF BindingUnsaved, MayFail, Inv, TypeOK, ThreadType
  <2> QED  BY <1>1, <1>2, <2>1, <2>2, SessionEndsInv
<1> QED  BY <1>3, <1>4 DEF ConnectFails

\* A step of the session that sends nothing
LEMMA SessionOnly ==
  ASSUME Inv, NEW pc, NEW todo, up, session' = [session EXCEPT !.pc = pc, !.todo = todo],
         pc \in {"flush", "open"}, todo \in SUBSET TaskIds,
         pc = "flush" => \A t \in todo : Executed(t),
         call["session"] = NoCall,
         UNCHANGED <<panel, disk, up, worker, jobs, queued, failure, call, late, faults>>
  PROVE  Inv'
<1> USE DEF disk
<1>1. /\ session'.pc = pc /\ session'.todo = todo
      /\ session' \in [pc: {"off", "watch", "report", "flush", "sent", "open"},
                       epoch: Epochs, todo: SUBSET TaskIds, task: 0..MaxTasks]
  BY DEF Inv, TypeOK, ThreadType
<1>2. ThreadType' /\ ProcessStands'
  BY <1>1, RequestsTyped DEF Inv, TypeOK, ThreadType, ProcessStands
<1>3. \A r \in AllRequests' : RequestStands(r)
  BY DEF Inv, AllRequests
<1>4. SessionStands' /\ WorkerStands'
  BY <1>1, FramesStill DEF SessionStands, Executed
<1> QED  BY <1>2, <1>3, <1>4, ThreadsOnly DEF Inv, TypeOK, NodeType, Peaceful

LEMMA BeginReportInv ==
  ASSUME Inv, BeginReport
  PROVE  Inv'
<1>1. /\ session.pc \in {"report", "open"}
      /\ session' = [session EXCEPT !.pc = "flush", !.todo = Unacknowledged]
      /\ UNCHANGED <<panel, disk, up, worker, jobs, queued, failure, call, late, faults>>
  BY DEF BeginReport
<1>2. call["session"] = NoCall /\ up
  BY <1>1 DEF Inv, SessionStands, ProcessStands, Off
<1>3. /\ Unacknowledged \in SUBSET TaskIds /\ \A t \in Unacknowledged : Executed(t)
  BY DEF Unacknowledged, Executed
<1> QED  BY <1>1, <1>2, <1>3, SessionOnly

LEMMA FlushedInv ==
  ASSUME Inv, Flushed
  PROVE  Inv'
<1>1. /\ session.pc = "flush" /\ session.todo = {}
      /\ session' = [session EXCEPT !.pc = "open"]
      /\ UNCHANGED <<panel, disk, up, worker, jobs, queued, failure, call, late, faults>>
  BY DEF Flushed
<1>2. call["session"] = NoCall /\ up
  BY <1>1 DEF Inv, SessionStands, ProcessStands, Off
<1>3. session' = [session EXCEPT !.pc = "open", !.todo = {}]
  BY <1>1 DEF Inv, TypeOK, ThreadType
<1> QED  BY <1>1, <1>2, <1>3, SessionOnly

LEMMA FlushResultInv ==
  ASSUME Inv, NEW t \in TaskIds, FlushResult(t)
  PROVE  Inv'
<1>a. PICK r : r = ReportRequest(t, journal[t].status, journal[t].seq)
  OBVIOUS
<1>1. /\ session.pc = "flush" /\ t \in session.todo
      /\ call' = [call EXCEPT !["session"] = r]
      /\ session' = [session EXCEPT !.pc = "sent", !.todo = @ \ {t}, !.task = t]
      /\ UNCHANGED <<panel, node, journal, exit, up, worker, jobs, queued, failure,
                     late, faults>>
  BY <1>a DEF FlushResult, Sends, disk
<1>2. Executed(t) /\ up
  BY <1>1 DEF Inv, SessionStands, ProcessStands, Off
<1>3. /\ r.kind = "report" /\ r.task = t /\ r.state = journal[t].status
      /\ r.seq = journal[t].seq /\ r.installation = node.installation
      /\ r.binding = node.binding /\ r.token = node.token
  BY <1>a DEF ReportRequest
<1>4. RequestType(r) /\ RequestStands(r)
  <2>1. RequestType(r)
    BY <1>2, <1>3 DEF RequestType, IsRequest, SignedType, Inv, TypeOK, NodeType, Executed
  <2> QED  BY <1>3, <2>1, SignedNow DEF ReportStands
<1>5. /\ call'["session"] = r /\ call'["worker"] = call["worker"] /\ DOMAIN call' = Callers
      /\ \A d \in Callers : call'[d] = NoCall \/ call'[d] \in Replies \/ RequestType(call'[d])
      /\ AllRequests' \subseteq AllRequests \cup {r}
  BY <1>1, <1>4, CallSent DEF Callers
<1>6. \A q \in AllRequests' : RequestStands(q)
  BY <1>4, <1>5 DEF Inv
<1>7. /\ session'.pc = "sent" /\ session'.task = t
      /\ session' \in [pc: {"off", "watch", "report", "flush", "sent", "open"},
                       epoch: Epochs, todo: SUBSET TaskIds, task: 0..MaxTasks]
  <2>1. t \in 0..MaxTasks
    BY DeliveryAssumption DEF TaskIds
  <2> QED  BY <1>1, <2>1 DEF Inv, TypeOK, ThreadType
<1>8. ThreadType' /\ ProcessStands'
  BY <1>1, <1>2, <1>5, <1>7, RequestsTyped DEF Inv, TypeOK, ThreadType, ProcessStands
<1>9. SessionStands' /\ WorkerStands'
  <2>1. session'.todo = session.todo \ {t}
    BY <1>1 DEF Inv, TypeOK, ThreadType
  <2>2. \A u \in session'.todo : Executed(u)'
    BY <1>1, <2>1 DEF Inv, SessionStands, Executed
  <2> QED  BY <1>1, <1>2, <1>3, <1>5, <1>7, <2>2, FramesStill
           DEF SessionStands, ResultInFlight, Executed
<1> QED  BY <1>1, <1>6, <1>8, <1>9, ThreadsOnly DEF Inv, TypeOK, NodeType, Peaceful

LEMMA FlushFailsInv ==
  ASSUME Inv, FlushFails
  PROVE  Inv'
<1>a. PICK code : code = call["session"].code
  OBVIOUS
<1>1. /\ Answered("session") /\ session.pc = "sent" /\ UNCHANGED <<panel, faults>>
  BY DEF FlushFails
<1>2. code \in Codes /\ failure \in {"none", "error", "fatal"} /\ up
  BY <1>1, <1>a, CodesKnown DEF Callers, Answered, NoCall
<1>3. code # "ok" /\ SessionEnds(code, failure)
  <2>1. call["session"].code = "ok" => Receipt(call["session"], session.task)
    BY <1>1 DEF Inv, SessionStands, ResultInFlight, Answered
  <2> QED  BY <1>a, <2>1 DEF FlushFails
<1>4. faults' \in 0..MaxFaults
  BY <1>1 DEF Inv, TypeOK, ThreadType
<1> QED  BY <1>1, <1>2, <1>3, <1>4, SessionEndsInv DEF Codes

LEMMA TakeFailureInv ==
  ASSUME Inv, TakeFailure
  PROVE  Inv'
<1>a. PICK code : code = failure
  OBVIOUS
<1>1. /\ code \in {"error", "fatal"} /\ SessionEnds(code, "none") /\ UNCHANGED <<panel, faults>>
      /\ session.pc = "open"
  BY <1>a, CodesKnown DEF TakeFailure
<1>2. up /\ faults' \in 0..MaxFaults
  BY <1>1 DEF Inv, TypeOK, ThreadType, ProcessStands, Off
<1> QED  BY <1>1, <1>2, SessionEndsInv

LEMMA EvictedInv ==
  ASSUME Inv, Evicted
  PROVE  Inv'
<1>a. PICK code : code = IF Authenticated(node) THEN "error" ELSE "fatal"
  OBVIOUS
<1>1. /\ code \in {"error", "fatal"} /\ SessionEnds(code, failure) /\ UNCHANGED <<panel, faults>>
      /\ session.pc \in {"report", "open"}
  BY <1>a DEF Evicted
<1>2. up /\ faults' \in 0..MaxFaults /\ failure \in {"none", "error", "fatal"}
  BY <1>1, CodesKnown DEF Inv, TypeOK, ThreadType, ProcessStands, Off
<1> QED  BY <1>1, <1>2, SessionEndsInv

LEMMA DisconnectInv ==
  ASSUME Inv, Disconnect
  PROVE  Inv'
<1>1. /\ SessionEnds("error", failure) /\ UNCHANGED panel /\ MayFail
      /\ session.pc \in {"report", "open"}
  BY DEF Disconnect
<1>2. up /\ faults' \in 0..MaxFaults /\ failure \in {"none", "error", "fatal"}
  BY <1>1, CodesKnown, DeliveryAssumption
     DEF Inv, TypeOK, ThreadType, ProcessStands, Off, MayFail
<1> QED  BY <1>1, <1>2, SessionEndsInv

LEMMA NoticeInv ==
  ASSUME Inv, Notice
  PROVE  Inv'
<1>a. PICK t : t = Head(stream.events)
  OBVIOUS
<1>1. /\ session.pc = "open" /\ stream.events # <<>>
      /\ \/ /\ queued' = queued \cup {t}
            /\ jobs' = Append(jobs, [task |-> t, epoch |-> session.epoch])
         \/ UNCHANGED <<queued, jobs>>
      /\ stream' = [stream EXCEPT !.events = Tail(@)]
      /\ UNCHANGED <<machine, tasks, node, journal, exit, up, session, worker, failure,
                     call, late, faults>>
  BY <1>a DEF Notice, disk
<1>2. t \in TaskIds /\ Tail(stream.events) \in Seq(TaskIds)
  BY <1>1, <1>a, HeadTailProperties DEF Inv, TypeOK, PanelType
<1>3. PanelType'
  BY <1>1, <1>2 DEF Inv, TypeOK, PanelType
<1>4. jobs' \in Seq([task: TaskIds, epoch: Epochs]) /\ queued' \subseteq TaskIds
  <2>1. PICK job : job = [task |-> t, epoch |-> session.epoch]
    OBVIOUS
  <2>2. /\ job \in [task: TaskIds, epoch: Epochs] /\ queued \subseteq TaskIds
        /\ jobs \in Seq([task: TaskIds, epoch: Epochs])
    BY <1>2, <2>1 DEF Inv, TypeOK, ThreadType
  <2>3. Append(jobs, job) \in Seq([task: TaskIds, epoch: Epochs])
    BY <2>2, AppendProperties
  <2> QED  BY <1>1, <1>2, <2>1, <2>2, <2>3
<1>5. TypeOK'
  BY <1>1, <1>3, <1>4, RequestsTyped DEF Inv, TypeOK, NodeType, ThreadType
<1>6. PanelKept
  BY <1>1, <1>3, PanelStill
<1>7. up /\ ReceiptsStand' /\ ProcessStands' /\ Peaceful'
  BY <1>1 DEF Inv, ReceiptsStand, Executed, ProcessStands, Peaceful, Off
<1>8. \A q \in AllRequests' : RequestStands(q)'
  <2>1. AllRequests' = AllRequests
    BY <1>1 DEF AllRequests
  <2> QED  BY <1>1, <1>6, <2>1, RequestsKept DEF Inv, PanelKept
<1>9. SessionStands'
  BY <1>1, <1>6, SessionFrame DEF Inv, PanelKept, ResultsStay
<1>10. WorkerStands'
  BY <1>1, <1>6, WorkerFrame DEF Inv, PanelKept
<1> QED  BY <1>5, <1>6, <1>7, <1>8, <1>9, <1>10 DEF Inv, PanelKept

--------------------------------------------------------------------------------
(***************************************************************************)
(* The journal                                                             *)
(***************************************************************************)

\* How an entry changes while its installation lives
EntryMoves(t) ==
    \/ /\ journal'[t].status = journal[t].status /\ journal'[t].seq = journal[t].seq
    \/ /\ ~Executed(t) /\ journal'[t].seq > journal[t].seq /\ node.binding # 0
    \/ /\ journal[t].status = "none" /\ journal'[t].status = "accepted"
       /\ journal'[t].seq = journal[t].seq /\ node.binding # 0

LEMMA JournalKept ==
  ASSUME Inv, UNCHANGED <<panel, node>>,
         journal' \in [TaskIds -> [status: Active \cup Final \cup {"none"}, seq: Nat,
                                   acked: BOOLEAN]],
         \A t \in TaskIds : EntryMoves(t),
         \A t \in TaskIds : journal'[t].acked => SameResult(t)'
  PROVE  /\ NodeStands' /\ RowsStand' /\ ReceiptsStand' /\ ResultsAgree' /\ PanelKept
         /\ ResultsStay
         /\ \A r : RequestStands(r) => RequestStands(r)'
<1>0. machine' = machine /\ tasks' = tasks /\ stream' = stream
  BY DEF panel
<1>1. ResultsStay
  BY DEF ResultsStay, EntryMoves, Executed, Final
<1>2. NodeStands'
  BY <1>0 DEF Inv, NodeStands, Installed, EntryMoves
<1>3. \A t \in TaskIds : /\ journal[t].seq \in Nat /\ journal'[t].seq \in Nat
                         /\ journal[t].seq <= journal'[t].seq
  <2>1. \A t \in TaskIds : journal[t].seq \in Nat /\ journal'[t].seq \in Nat
    BY DEF Inv, TypeOK, NodeType
  <2> QED  BY <2>1 DEF EntryMoves
<1>4. RowsStand'
  <2>1. \A t \in Created : /\ t \in TaskIds /\ tasks[t].seq \in Nat
                           /\ Bound(t) => tasks[t].seq <= journal'[t].seq
    BY <1>3, RowsTyped DEF Inv, RowsStand, RowType
  <2> QED  BY <1>0, <2>1 DEF Inv, RowsStand, Installed, Bound, Created
<1>5. ReceiptsStand' /\ ReceiptsAreTrue'
  BY DEF ReceiptsStand, ReceiptsAreTrue, SameResult, Executed
<1>6. ResultsAreJournalled'
  <2>1. \A t \in Created : t \in TaskIds
    BY RowsTyped DEF Inv
  <2> QED  BY <1>0, <1>1, <2>1
           DEF Inv, ResultsAgree, ResultsAreJournalled, Bound, Created, ResultsStay, Executed
<1>7. ASSUME NEW r, RequestStands(r) PROVE RequestStands(r)'
  <2>1. RequestType(r)
    BY <1>7 DEF RequestStands
  <2>2. ASSUME r.kind = "report", ReportStands(r) PROVE ReportStands(r)'
    <3>1. r.task \in TaskIds /\ r.seq \in Nat /\ r.state \in Final \cup {"running"}
      BY <2>1, <2>2 DEF RequestType
    <3>2. EntryMoves(r.task) /\ journal[r.task].seq <= journal'[r.task].seq
          /\ journal[r.task].seq \in Nat /\ journal'[r.task].seq \in Nat
      BY <1>3, <3>1
    <3>3. CASE r.seq < journal[r.task].seq /\ r.state = "running"
      BY <3>1, <3>2, <3>3 DEF ReportStands
    <3>4. CASE r.seq = journal[r.task].seq /\ r.state = journal[r.task].status
      BY <3>1, <3>2, <3>4 DEF ReportStands, EntryMoves, Executed, Final
    <3> QED  BY <2>2, <3>3, <3>4 DEF ReportStands
  <2> QED  BY <1>0, <1>7, <2>1, <2>2, RequestsTyped DEF RequestStands, Installed
<1>8. PanelKept
  <2>1. RowsMove /\ MachineMoves
    BY <1>0 DEF RowsMove, MachineMoves, Created, Installed, Inv, TypeOK, PanelType
  <2> QED  BY <1>0, <1>2, <1>4, <1>5, <1>6, <2>1
           DEF PanelKept, Inv, TypeOK, PanelType, ResultsAgree
<1> QED  BY <1>1, <1>2, <1>4, <1>5, <1>6, <1>7, <1>8 DEF ResultsAgree

\* A step that writes to the journal
LEMMA JournalStep ==
  ASSUME Inv, UNCHANGED <<panel, node, exit, up>>, up,
         journal' \in [TaskIds -> [status: Active \cup Final \cup {"none"}, seq: Nat,
                                   acked: BOOLEAN]],
         \A t \in TaskIds : EntryMoves(t),
         \A t \in TaskIds : journal'[t].acked => SameResult(t)',
         ThreadType', failure' # "conflict", SessionStands', WorkerStands',
         \A r \in AllRequests' : RequestStands(r) \/ RequestStands(r)'
  PROVE  Inv'
<1>1. /\ NodeStands' /\ RowsStand' /\ ReceiptsStand' /\ ResultsAgree'
      /\ \A r : RequestStands(r) => RequestStands(r)'
  BY JournalKept
<1>2. TypeOK'
  BY DEF panel, Inv, TypeOK, PanelType, NodeType
<1>3. ProcessStands' /\ Peaceful'
  BY DEF ProcessStands, Peaceful, Inv
<1>4. \A r \in AllRequests' : RequestStands(r)'
  BY <1>1
<1> QED  BY <1>1, <1>2, <1>3, <1>4 DEF Inv

\* Only the receipt for this result acknowledges it.
LEMMA AcknowledgeKept ==
  ASSUME Inv, UNCHANGED panel, NEW t \in TaskIds, SameResult(t), Acknowledge(t)
  PROVE  /\ journal' \in [TaskIds -> [status: Active \cup Final \cup {"none"}, seq: Nat,
                                      acked: BOOLEAN]]
         /\ \A u \in TaskIds : /\ journal'[u].status = journal[u].status
                               /\ journal'[u].seq = journal[u].seq
         /\ \A u \in TaskIds : EntryMoves(u)
         /\ \A u \in TaskIds : journal'[u].acked => SameResult(u)'
         /\ RowsMove /\ MachineMoves /\ ResultsStay
<1>1. /\ journal' \in [TaskIds -> [status: Active \cup Final \cup {"none"}, seq: Nat,
                                   acked: BOOLEAN]]
      /\ \A u \in TaskIds : /\ journal'[u].status = journal[u].status
                            /\ journal'[u].seq = journal[u].seq
                            /\ u # t => journal'[u] = journal[u]
  BY DEF Acknowledge, Inv, TypeOK, NodeType
<1>2. \A u \in TaskIds : EntryMoves(u)
  BY <1>1 DEF EntryMoves
<1>3. ASSUME NEW u \in TaskIds, journal'[u].acked PROVE SameResult(u)'
  <2>1. SameResult(u)
    <3>1. CASE u = t
      BY <3>1
    <3>2. CASE u # t
      BY <1>1, <1>3, <3>2
         DEF Inv, ReceiptsStand, ResultsAgree, ReceiptsAreTrue, SameResult, Executed
    <3> QED  BY <3>1, <3>2
  <2> QED  BY <1>1, <2>1 DEF SameResult, panel, Created
<1>4. RowsMove /\ MachineMoves /\ ResultsStay
  BY <1>1 DEF RowsMove, MachineMoves, ResultsStay, panel, Created, Installed, Inv, TypeOK,
     PanelType
<1> QED  BY <1>1, <1>2, <1>3, <1>4

LEMMA ResultFlushedInv ==
  ASSUME Inv, ResultFlushed
  PROVE  Inv'
<1>a. PICK t : t = session.task
  OBVIOUS
<1>1. /\ session.pc = "sent" /\ Answered("session") /\ call["session"].code = "ok"
      /\ Acknowledge(t) /\ session' = [session EXCEPT !.pc = "flush", !.task = 0]
      /\ Done("session")
      /\ UNCHANGED <<panel, node, exit, up, worker, jobs, queued, failure, late, faults>>
  BY <1>a DEF ResultFlushed
<1>2. t \in TaskIds /\ SameResult(t) /\ up
  BY <1>1, <1>a DEF Inv, SessionStands, ResultInFlight, Answered, ProcessStands, Off
<1>3. /\ journal' \in [TaskIds -> [status: Active \cup Final \cup {"none"}, seq: Nat,
                                   acked: BOOLEAN]]
      /\ \A u \in TaskIds : /\ journal'[u].status = journal[u].status
                            /\ journal'[u].seq = journal[u].seq
      /\ \A u \in TaskIds : EntryMoves(u)
      /\ \A u \in TaskIds : journal'[u].acked => SameResult(u)'
      /\ RowsMove
  BY <1>1, <1>2, AcknowledgeKept
<1>4. /\ call'["session"] = NoCall /\ call'["worker"] = call["worker"]
      /\ DOMAIN call' = Callers
      /\ \A d \in Callers : call'[d] = NoCall \/ call'[d] \in Replies \/ RequestType(call'[d])
      /\ AllRequests' \subseteq AllRequests
  BY <1>1, CallDone DEF Callers
<1>5. /\ session'.pc = "flush" /\ session'.todo = session.todo
      /\ session' \in [pc: {"off", "watch", "report", "flush", "sent", "open"},
                       epoch: Epochs, todo: SUBSET TaskIds, task: 0..MaxTasks]
  <2>1. 0 \in 0..MaxTasks
    BY DeliveryAssumption
  <2> QED  BY <1>1, <2>1 DEF Inv, TypeOK, ThreadType
<1>6. ThreadType'
  BY <1>1, <1>4, <1>5, RequestsTyped DEF Inv, TypeOK, ThreadType
<1>7. \A u \in session.todo : Executed(u)'
  BY <1>1, <1>3 DEF Inv, SessionStands, TypeOK, ThreadType, Executed
<1>8. SessionStands'
  BY <1>4, <1>5, <1>7 DEF SessionStands
<1>9. WorkerStands'
  BY <1>1, <1>3, <1>4, WorkerFrame DEF Inv
<1>10. \A r \in AllRequests' : RequestStands(r)
  BY <1>4 DEF Inv
<1> QED  BY <1>1, <1>2, <1>3, <1>6, <1>8, <1>9, <1>10, JournalStep DEF Inv, Peaceful

\* A step of an execution counts, and is ahead of every report before it.
LEMMA TransitionKept ==
  ASSUME Inv, UNCHANGED <<panel, node>>, NEW t \in TaskIds, ~Executed(t),
         journal[t].status # "none", NEW status \in Final \cup {"running"},
         journal' = TransitionTo(t, status)
  PROVE  /\ journal' \in [TaskIds -> [status: Active \cup Final \cup {"none"}, seq: Nat,
                                      acked: BOOLEAN]]
         /\ journal'[t].status = status /\ journal'[t].seq \in Nat
         /\ \A u \in TaskIds : EntryMoves(u)
         /\ \A u \in TaskIds : journal'[u].acked => SameResult(u)'
         /\ RowsMove /\ MachineMoves /\ ResultsStay
<1>1. journal' = [journal EXCEPT ![t].status = status, ![t].seq = @ + 1]
  BY DEF TransitionTo, Executed
<1>2. /\ journal' \in [TaskIds -> [status: Active \cup Final \cup {"none"}, seq: Nat,
                                   acked: BOOLEAN]]
      /\ journal'[t].status = status /\ journal'[t].seq = journal[t].seq + 1
      /\ journal'[t].acked = journal[t].acked /\ journal[t].seq \in Nat
      /\ \A u \in TaskIds : u # t => journal'[u] = journal[u]
  BY <1>1 DEF Inv, TypeOK, NodeType, Active
<1>3. node.binding # 0
  BY DEF Inv, NodeStands
<1>4. \A u \in TaskIds : EntryMoves(u)
  BY <1>2, <1>3 DEF EntryMoves
<1>5. ASSUME NEW u \in TaskIds, journal'[u].acked PROVE SameResult(u)'
  <2>1. journal[u].acked
    BY <1>2, <1>5
  <2>2. Executed(u) /\ SameResult(u)
    BY <2>1 DEF Inv, ReceiptsStand, ResultsAgree, ReceiptsAreTrue, SameResult, Executed
  <2>3. u # t
    BY <2>2
  <2> QED  BY <1>2, <2>2, <2>3 DEF SameResult, panel, Created
<1>6. RowsMove /\ MachineMoves /\ ResultsStay
  <2>1. ResultsStay
    BY <1>2 DEF ResultsStay, Executed
  <2> QED  BY <2>1 DEF RowsMove, MachineMoves, panel, Created, Installed, Inv, TypeOK, PanelType
<1> QED  BY <1>2, <1>4, <1>5, <1>6

--------------------------------------------------------------------------------
(***************************************************************************)
(* The task worker                                                         *)
(***************************************************************************)
LEMMA TakeJobInv ==
  ASSUME Inv, TakeJob
  PROVE  Inv'
<1>a. PICK job : job = Head(jobs)
  OBVIOUS
<1>b. PICK r : r = AcceptRequest(job.task, job.epoch)
  OBVIOUS
<1>1. /\ up /\ worker.pc = "idle" /\ jobs # <<>>
      /\ worker' = [pc |-> "accept", task |-> job.task, epoch |-> job.epoch]
      /\ jobs' = Tail(jobs) /\ call' = [call EXCEPT !["worker"] = r]
      /\ UNCHANGED <<panel, node, journal, exit, up, session, queued, failure, late, faults>>
  BY <1>a, <1>b DEF TakeJob, Sends, disk
<1>2. /\ job.task \in TaskIds /\ job.epoch \in Epochs
      /\ jobs' \in Seq([task: TaskIds, epoch: Epochs])
  <2>1. jobs \in Seq([task: TaskIds, epoch: Epochs])
    BY DEF Inv, TypeOK, ThreadType
  <2>2. job \in [task: TaskIds, epoch: Epochs]
        /\ Tail(jobs) \in Seq([task: TaskIds, epoch: Epochs])
    BY <1>1, <1>a, <2>1, HeadTailProperties
  <2> QED  BY <1>1, <2>2
<1>3. /\ r.kind = "accept" /\ r.task = job.task /\ r.epoch = job.epoch
      /\ r.installation = node.installation /\ r.binding = node.binding /\ r.token = node.token
  BY <1>b DEF AcceptRequest
<1>4. RequestType(r) /\ RequestStands(r)
  <2>1. RequestType(r)
    BY <1>2, <1>3 DEF RequestType, IsRequest, SignedType, Inv, TypeOK, NodeType
  <2> QED  BY <1>3, <2>1, SignedNow
<1>5. /\ call'["worker"] = r /\ call'["session"] = call["session"] /\ DOMAIN call' = Callers
      /\ \A d \in Callers : call'[d] = NoCall \/ call'[d] \in Replies \/ RequestType(call'[d])
      /\ AllRequests' \subseteq AllRequests \cup {r}
  BY <1>1, <1>4, CallSent DEF Callers
<1>6. \A q \in AllRequests' : RequestStands(q)
  BY <1>4, <1>5 DEF Inv
<1>7. /\ worker'.pc = "accept" /\ worker'.task = job.task
      /\ worker' \in [pc: {"idle", "accept", "journalled", "progress", "perform", "report"},
                      task: 0..MaxTasks, epoch: Epochs]
  <2>1. job.task \in 0..MaxTasks
    BY <1>2, DeliveryAssumption DEF TaskIds
  <2> QED  BY <1>1, <1>2, <2>1
<1>8. ThreadType' /\ ProcessStands'
  BY <1>1, <1>2, <1>5, <1>7, RequestsTyped DEF Inv, TypeOK, ThreadType, ProcessStands
<1>9. SessionStands' /\ WorkerStands'
  BY <1>1, <1>2, <1>3, <1>5, <1>7, FramesStill DEF WorkerStands
<1> QED  BY <1>1, <1>6, <1>8, <1>9, ThreadsOnly DEF Inv, TypeOK, NodeType, Peaceful

LEMMA WorkerTypes ==
  ASSUME Inv, NEW pc \in {"idle", "accept", "journalled", "progress", "perform", "report"},
         WorkerAt(pc)
  PROVE  /\ worker'.pc = pc /\ worker'.task = worker.task
         /\ worker' \in [pc: {"idle", "accept", "journalled", "progress", "perform", "report"},
                         task: 0..MaxTasks, epoch: Epochs]
BY DEF WorkerAt, Inv, TypeOK, ThreadType

LEMMA JournalTaskInv ==
  ASSUME Inv, JournalTask
  PROVE  Inv'
<1>a. PICK t : t = worker.task
  OBVIOUS
<1>1. /\ worker.pc = "accept" /\ Answered("worker") /\ call["worker"].code = "ok"
      /\ journal' = [journal EXCEPT ![t].status = IF @ = "none" THEN "accepted" ELSE @]
      /\ WorkerAt("journalled") /\ Done("worker")
      /\ UNCHANGED <<panel, node, exit, up, session, jobs, queued, failure, late, faults>>
  BY <1>a DEF JournalTask
<1>2. t \in TaskIds /\ node.binding # 0 /\ Held(t) /\ up
  BY <1>1, <1>a DEF Inv, WorkerStands, Answered, ProcessStands, Idle
<1>3. /\ journal' \in [TaskIds -> [status: Active \cup Final \cup {"none"}, seq: Nat,
                                   acked: BOOLEAN]]
      /\ \A u \in TaskIds : /\ journal'[u].seq = journal[u].seq
                            /\ journal'[u].acked = journal[u].acked
                            /\ u # t => journal'[u] = journal[u]
      /\ journal'[t].status = IF journal[t].status = "none" THEN "accepted"
                              ELSE journal[t].status
  BY <1>1, <1>2 DEF Inv, TypeOK, NodeType, Active
<1>4. \A u \in TaskIds : EntryMoves(u)
  BY <1>2, <1>3 DEF EntryMoves
<1>5. ASSUME NEW u \in TaskIds, journal'[u].acked PROVE SameResult(u)'
  <2>1. Executed(u) /\ SameResult(u)
    BY <1>3, <1>5 DEF Inv, ReceiptsStand, ResultsAgree, ReceiptsAreTrue, SameResult, Executed
  <2>2. journal'[u].status = journal[u].status /\ journal'[u].seq = journal[u].seq
    BY <1>3, <2>1 DEF Executed, Final
  <2> QED  BY <1>1, <2>1, <2>2 DEF SameResult, panel, Created
<1>6. RowsMove /\ MachineMoves /\ ResultsStay
  <2>1. ResultsStay
    BY <1>3 DEF ResultsStay, Executed, Final
  <2> QED  BY <1>1, <2>1
           DEF RowsMove, MachineMoves, panel, Created, Installed, Inv, TypeOK, PanelType
<1>7. /\ call'["worker"] = NoCall /\ call'["session"] = call["session"]
      /\ DOMAIN call' = Callers
      /\ \A d \in Callers : call'[d] = NoCall \/ call'[d] \in Replies \/ RequestType(call'[d])
      /\ AllRequests' \subseteq AllRequests
  BY <1>1, CallDone DEF Callers
<1>8. /\ worker'.pc = "journalled" /\ worker'.task = t
      /\ worker' \in [pc: {"idle", "accept", "journalled", "progress", "perform", "report"},
                      task: 0..MaxTasks, epoch: Epochs]
  BY <1>1, <1>a, WorkerTypes
<1>9. ThreadType'
  BY <1>1, <1>7, <1>8, RequestsTyped DEF Inv, TypeOK, ThreadType
<1>10. SessionStands'
  BY <1>1, <1>6, <1>7, SessionFrame DEF Inv
<1>11. WorkerStands'
  <2>1. journal'[t].status # "none"
    BY <1>3
  <2>2. Held(t)'
    BY <1>1, <1>2, <1>3 DEF Held, Executed, panel, Created, Final
  <2> QED  BY <1>2, <1>7, <1>8, <2>1, <2>2 DEF WorkerStands
<1>12. \A r \in AllRequests' : RequestStands(r)
  BY <1>7 DEF Inv
<1> QED  BY <1>1, <1>2, <1>3, <1>4, <1>5, <1>9, <1>10, <1>11, <1>12, JournalStep
         DEF Inv, Peaceful

\* execute has returned, without a conflict.
LEMMA JobDoneTypes ==
  ASSUME Inv, NEW code \in Codes, JobDone(code), Done("worker"), late' = late
  PROVE  /\ worker' = Idle /\ queued' \subseteq TaskIds /\ UNCHANGED <<session, jobs>>
         /\ failure' \in {"none", "error", "fatal"}
         /\ worker' \in [pc: {"idle", "accept", "journalled", "progress", "perform", "report"},
                         task: 0..MaxTasks, epoch: Epochs]
         /\ WorkerStands'
         /\ call'["session"] = call["session"]
         /\ AllRequests' \subseteq AllRequests
         /\ faults' = faults => ThreadType'
<1>1. /\ worker' = Idle /\ queued' = queued \ {worker.task} /\ UNCHANGED <<session, jobs>>
  BY DEF JobDone
<1>2. /\ call'["worker"] = NoCall /\ call'["session"] = call["session"]
      /\ DOMAIN call' = Callers
      /\ \A d \in Callers : call'[d] = NoCall \/ call'[d] \in Replies \/ RequestType(call'[d])
      /\ AllRequests' \subseteq AllRequests
  BY CallDone DEF Callers
<1>3. failure' \in {"none", "error", "fatal"}
  BY CodesKnown DEF JobDone, Codes
<1>4. worker' \in [pc: {"idle", "accept", "journalled", "progress", "perform", "report"},
                   task: 0..MaxTasks, epoch: Epochs]
  BY <1>1, DeliveryAssumption DEF Idle, Epochs
<1>5. WorkerStands'
  BY <1>1, <1>2 DEF WorkerStands, Idle
<1>6. queued' \subseteq TaskIds
  BY <1>1 DEF Inv, TypeOK, ThreadType
<1>7. faults' = faults => ThreadType'
  BY <1>1, <1>2, <1>3, <1>4, <1>6, RequestsTyped DEF Inv, TypeOK, ThreadType
<1> QED  BY <1>1, <1>2, <1>3, <1>4, <1>5, <1>6, <1>7

LEMMA AcceptFailsInv ==
  ASSUME Inv, AcceptFails
  PROVE  Inv'
<1>a. PICK code : code = call["worker"].code
  OBVIOUS
<1>1. /\ worker.pc = "accept" /\ Answered("worker") /\ Done("worker")
      /\ UNCHANGED <<panel, node, journal, exit, up, late, faults>>
  BY DEF AcceptFails, disk
<1>2. code \in Codes /\ up
  BY <1>1, <1>a, CodesKnown DEF Callers, Answered, NoCall
<1>3. JobDone(code)
  <2>1. call["worker"].code = "ok" => call["worker"].binding = node.binding
    BY <1>1 DEF Inv, WorkerStands, Answered
  <2> QED  BY <1>a, <2>1 DEF AcceptFails
<1>4. /\ UNCHANGED <<session, jobs>> /\ failure' \in {"none", "error", "fatal"}
      /\ WorkerStands' /\ call'["session"] = call["session"]
      /\ AllRequests' \subseteq AllRequests /\ ThreadType'
  BY <1>1, <1>2, <1>3, JobDoneTypes
<1>5. SessionStands'
  BY <1>1, <1>4, FramesStill
<1>6. ProcessStands'
  BY <1>1, <1>2 DEF ProcessStands
<1>7. \A r \in AllRequests' : RequestStands(r)
  BY <1>4 DEF Inv
<1> QED  BY <1>1, <1>2, <1>4, <1>5, <1>6, <1>7, ThreadsOnly DEF Inv, TypeOK, NodeType, Peaceful

\* The worker reports what the journal says once the step is done.
LEMMA WorkerReports ==
  ASSUME Inv, NEW t \in TaskIds, NEW status \in Final \cup {"running"}, NEW seq \in Nat,
         journal'[t].status = status, journal'[t].seq = seq, node' = node, machine' = machine,
         Sends("worker", ReportRequest(t, status, seq)), late' = late
  PROVE  /\ call'["worker"].kind = "report" /\ call'["worker"].task = t
         /\ call'["worker"].state = status /\ call'["worker"].seq = seq
         /\ call'["session"] = call["session"] /\ DOMAIN call' = Callers
         /\ \A d \in Callers : call'[d] = NoCall \/ call'[d] \in Replies \/ RequestType(call'[d])
         /\ \A r \in AllRequests' : RequestStands(r) \/ RequestStands(r)'
<1>a. PICK r : r = ReportRequest(t, status, seq)
  OBVIOUS
<1>1. /\ r.kind = "report" /\ r.task = t /\ r.state = status
      /\ r.seq = seq /\ r.installation = node.installation
      /\ r.binding = node.binding /\ r.token = node.token
  BY <1>a DEF ReportRequest
<1>2. RequestType(r)
  BY <1>1 DEF RequestType, IsRequest, SignedType, Inv, TypeOK, NodeType
<1>3. call' = [call EXCEPT !["worker"] = r]
  BY <1>a DEF Sends
<1>4. /\ call'["worker"] = r /\ call'["session"] = call["session"] /\ DOMAIN call' = Callers
      /\ \A d \in Callers : call'[d] = NoCall \/ call'[d] \in Replies \/ RequestType(call'[d])
      /\ AllRequests' \subseteq AllRequests \cup {r}
  BY <1>2, <1>3, CallSent DEF Callers
<1>5. ReportStands(r)'
  BY <1>1 DEF ReportStands
<1>6. RequestStands(r)'
  <2>1. node.token \in 1..MaxToken /\ node.installation <= node.token
    BY DEF Inv, TypeOK, NodeType, NodeStands
  <2> QED  BY <1>1, <1>2, <1>5, <2>1, RequestsTyped DEF RequestStands
<1>7. \A q \in AllRequests' : RequestStands(q) \/ RequestStands(q)'
  BY <1>4, <1>6 DEF Inv
<1> QED  BY <1>1, <1>4, <1>7

LEMMA ResendInv ==
  ASSUME Inv, Resend
  PROVE  Inv'
<1>a. PICK t, status, seq : t = worker.task /\ status = journal[t].status /\ seq = journal[t].seq
  OBVIOUS
<1>1. /\ worker.pc = "journalled" /\ Executed(t) /\ journal' = journal
      /\ Sends("worker", ReportRequest(t, status, seq)) /\ WorkerAt("report")
      /\ UNCHANGED <<panel, node, exit, up, session, jobs, queued, failure, late, faults>>
  BY <1>a DEF Resend, SendResult
<1>2. /\ t \in TaskIds /\ status \in Final /\ seq \in Nat /\ up
  BY <1>1, <1>a DEF Inv, WorkerStands, TypeOK, NodeType, Executed, ProcessStands, Idle
<1>3. /\ call'["worker"].kind = "report" /\ call'["worker"].task = t
      /\ call'["worker"].state = status /\ call'["worker"].seq = seq
      /\ call'["session"] = call["session"] /\ DOMAIN call' = Callers
      /\ \A d \in Callers : call'[d] = NoCall \/ call'[d] \in Replies \/ RequestType(call'[d])
      /\ \A r \in AllRequests' : RequestStands(r) \/ RequestStands(r)'
  BY <1>1, <1>2, <1>a, WorkerReports DEF panel
<1>4. /\ worker'.pc = "report" /\ worker'.task = t
      /\ worker' \in [pc: {"idle", "accept", "journalled", "progress", "perform", "report"},
                      task: 0..MaxTasks, epoch: Epochs]
  BY <1>1, <1>a, WorkerTypes
<1>5. ThreadType'
  BY <1>1, <1>3, <1>4, RequestsTyped DEF Inv, TypeOK, ThreadType
<1>6. SessionStands'
  BY <1>1, <1>3, FramesStill
<1>7. WorkerStands'
  BY <1>1, <1>2, <1>3, <1>4, <1>a DEF WorkerStands, ResultInFlight, Executed
<1>8. /\ \A u \in TaskIds : EntryMoves(u)
      /\ \A u \in TaskIds : journal'[u].acked => SameResult(u)'
  BY <1>1 DEF EntryMoves, SameResult, panel, Created, Inv, ReceiptsStand, ResultsAgree,
     ReceiptsAreTrue, Executed
<1> QED  BY <1>1, <1>2, <1>3, <1>5, <1>6, <1>7, <1>8, JournalStep
         DEF Inv, Peaceful, TypeOK, NodeType

LEMMA BeginInv ==
  ASSUME Inv, Begin
  PROVE  Inv'
<1>a. PICK t, seq : t = worker.task /\ seq = journal'[t].seq
  OBVIOUS
<1>1. /\ worker.pc = "journalled" /\ ~Executed(t) /\ journal' = TransitionTo(t, "running")
      /\ Sends("worker", ReportRequest(t, journal'[t].status, seq)) /\ WorkerAt("progress")
      /\ UNCHANGED <<panel, node, exit, up, session, jobs, queued, failure, late, faults>>
  BY <1>a DEF Begin, SendResult
<1>2. /\ t \in TaskIds /\ journal[t].status # "none" /\ Held(t) /\ up
  BY <1>1, <1>a DEF Inv, WorkerStands, ProcessStands, Idle
<1>3. /\ journal' \in [TaskIds -> [status: Active \cup Final \cup {"none"}, seq: Nat,
                                   acked: BOOLEAN]]
      /\ journal'[t].status = "running" /\ journal'[t].seq \in Nat
      /\ \A u \in TaskIds : EntryMoves(u)
      /\ \A u \in TaskIds : journal'[u].acked => SameResult(u)'
      /\ RowsMove /\ MachineMoves /\ ResultsStay
  BY <1>1, <1>2, TransitionKept
<1>4. /\ call'["worker"].kind = "report"
      /\ call'["session"] = call["session"] /\ DOMAIN call' = Callers
      /\ \A d \in Callers : call'[d] = NoCall \/ call'[d] \in Replies \/ RequestType(call'[d])
      /\ \A r \in AllRequests' : RequestStands(r) \/ RequestStands(r)'
  BY <1>1, <1>2, <1>3, <1>a, WorkerReports DEF panel
<1>5. /\ worker'.pc = "progress" /\ worker'.task = t
      /\ worker' \in [pc: {"idle", "accept", "journalled", "progress", "perform", "report"},
                      task: 0..MaxTasks, epoch: Epochs]
  BY <1>1, <1>a, WorkerTypes
<1>6. ThreadType'
  BY <1>1, <1>4, <1>5, RequestsTyped DEF Inv, TypeOK, ThreadType
<1>7. SessionStands'
  BY <1>1, <1>3, <1>4, SessionFrame DEF Inv
<1>8. WorkerStands'
  <2>1. Held(t)'
    BY <1>1, <1>2 DEF Held, panel, Created
  <2> QED  BY <1>2, <1>3, <1>4, <1>5, <2>1 DEF WorkerStands
<1> QED  BY <1>1, <1>2, <1>3, <1>4, <1>6, <1>7, <1>8, JournalStep DEF Inv, Peaceful

LEMMA ProgressedInv ==
  ASSUME Inv, Progressed
  PROVE  Inv'
<1>1. /\ worker.pc = "progress" /\ Done("worker") /\ WorkerAt("perform")
      /\ UNCHANGED <<panel, node, journal, exit, up, session, jobs, queued, failure,
                     late, faults>>
  BY DEF Progressed, disk
<1>2. /\ worker.task \in TaskIds /\ journal[worker.task].status = "running"
      /\ Held(worker.task) /\ up
  BY <1>1 DEF Inv, WorkerStands, ProcessStands, Idle
<1>3. /\ call'["worker"] = NoCall /\ call'["session"] = call["session"]
      /\ DOMAIN call' = Callers
      /\ \A d \in Callers : call'[d] = NoCall \/ call'[d] \in Replies \/ RequestType(call'[d])
      /\ AllRequests' \subseteq AllRequests
  BY <1>1, CallDone DEF Callers
<1>4. /\ worker'.pc = "perform" /\ worker'.task = worker.task
      /\ worker' \in [pc: {"idle", "accept", "journalled", "progress", "perform", "report"},
                      task: 0..MaxTasks, epoch: Epochs]
  BY <1>1, WorkerTypes
<1>5. ThreadType' /\ ProcessStands'
  BY <1>1, <1>2, <1>3, <1>4, RequestsTyped DEF Inv, TypeOK, ThreadType, ProcessStands
<1>6. SessionStands'
  BY <1>1, <1>3, FramesStill
<1>7. WorkerStands'
  <2>1. Held(worker.task)'
    BY <1>1, <1>2, <1>4 DEF Held, Executed, panel, Created
  <2> QED  BY <1>1, <1>2, <1>3, <1>4, <2>1 DEF WorkerStands
<1>8. \A r \in AllRequests' : RequestStands(r)
  BY <1>3 DEF Inv
<1> QED  BY <1>1, <1>5, <1>6, <1>7, <1>8, ThreadsOnly DEF Inv, TypeOK, NodeType, Peaceful

LEMMA PerformInv ==
  ASSUME Inv, NEW status \in Final, Perform(status)
  PROVE  Inv'
<1>a. PICK t, seq : t = worker.task /\ seq = journal'[t].seq
  OBVIOUS
<1>1. /\ worker.pc = "perform" /\ journal' = TransitionTo(t, status)
      /\ Sends("worker", ReportRequest(t, journal'[t].status, seq)) /\ WorkerAt("report")
      /\ UNCHANGED <<panel, node, exit, up, session, jobs, queued, failure, late, faults>>
  BY <1>a DEF Perform, SendResult
<1>2. /\ t \in TaskIds /\ journal[t].status = "running" /\ ~Executed(t) /\ up
  BY <1>1, <1>a DEF Inv, WorkerStands, ProcessStands, Idle, Executed, Final
<1>3. /\ journal' \in [TaskIds -> [status: Active \cup Final \cup {"none"}, seq: Nat,
                                   acked: BOOLEAN]]
      /\ journal'[t].status = status /\ journal'[t].seq \in Nat
      /\ \A u \in TaskIds : EntryMoves(u)
      /\ \A u \in TaskIds : journal'[u].acked => SameResult(u)'
      /\ RowsMove /\ MachineMoves /\ ResultsStay
  BY <1>1, <1>2, TransitionKept
<1>4. /\ call'["worker"].kind = "report" /\ call'["worker"].task = t
      /\ call'["worker"].state = status /\ call'["worker"].seq = seq
      /\ call'["session"] = call["session"] /\ DOMAIN call' = Callers
      /\ \A d \in Callers : call'[d] = NoCall \/ call'[d] \in Replies \/ RequestType(call'[d])
      /\ \A r \in AllRequests' : RequestStands(r) \/ RequestStands(r)'
  BY <1>1, <1>2, <1>3, <1>a, WorkerReports DEF panel
<1>5. /\ worker'.pc = "report" /\ worker'.task = t
      /\ worker' \in [pc: {"idle", "accept", "journalled", "progress", "perform", "report"},
                      task: 0..MaxTasks, epoch: Epochs]
  BY <1>1, <1>a, WorkerTypes
<1>6. ThreadType'
  BY <1>1, <1>4, <1>5, RequestsTyped DEF Inv, TypeOK, ThreadType
<1>7. SessionStands'
  BY <1>1, <1>3, <1>4, SessionFrame DEF Inv
<1>8. WorkerStands'
  BY <1>2, <1>3, <1>4, <1>5, <1>a DEF WorkerStands, ResultInFlight, Executed
<1> QED  BY <1>1, <1>2, <1>3, <1>4, <1>6, <1>7, <1>8, JournalStep DEF Inv, Peaceful

LEMMA ResultReportedInv ==
  ASSUME Inv, ResultReported
  PROVE  Inv'
<1>a. PICK t : t = worker.task
  OBVIOUS
<1>1. /\ worker.pc = "report" /\ Answered("worker") /\ call["worker"].code = "ok"
      /\ Acknowledge(t) /\ JobDone("ok") /\ Done("worker")
      /\ UNCHANGED <<panel, node, exit, up, late, faults>>
  BY <1>a DEF ResultReported
<1>2. t \in TaskIds /\ SameResult(t) /\ up
  BY <1>1, <1>a DEF Inv, WorkerStands, ResultInFlight, Answered, ProcessStands, Idle
<1>3. /\ journal' \in [TaskIds -> [status: Active \cup Final \cup {"none"}, seq: Nat,
                                   acked: BOOLEAN]]
      /\ \A u \in TaskIds : EntryMoves(u)
      /\ \A u \in TaskIds : journal'[u].acked => SameResult(u)'
      /\ RowsMove /\ MachineMoves /\ ResultsStay
  BY <1>1, <1>2, AcknowledgeKept
<1>4. /\ UNCHANGED <<session, jobs>> /\ failure' \in {"none", "error", "fatal"}
      /\ WorkerStands' /\ call'["session"] = call["session"]
      /\ AllRequests' \subseteq AllRequests /\ ThreadType'
  BY <1>1, JobDoneTypes DEF Codes
<1>5. SessionStands'
  BY <1>1, <1>3, <1>4, SessionFrame DEF Inv
<1>6. \A r \in AllRequests' : RequestStands(r)
  BY <1>4 DEF Inv
<1> QED  BY <1>1, <1>2, <1>3, <1>4, <1>5, <1>6, JournalStep DEF Inv, Peaceful

LEMMA ReportFailsInv ==
  ASSUME Inv, ReportFails
  PROVE  Inv'
<1>a. PICK code : code = call["worker"].code
  OBVIOUS
<1>1. /\ worker.pc = "report" /\ Answered("worker") /\ Done("worker")
      /\ UNCHANGED <<panel, node, journal, exit, up, late, faults>>
  BY DEF ReportFails, disk
<1>2. code \in Codes /\ up
  BY <1>1, <1>a, CodesKnown DEF Callers, Answered, NoCall
<1>3. JobDone(code)
  <2>1. call["worker"].code = "ok" => Receipt(call["worker"], worker.task)
    BY <1>1 DEF Inv, WorkerStands, ResultInFlight, Answered
  <2> QED  BY <1>a, <2>1 DEF ReportFails
<1>4. /\ UNCHANGED <<session, jobs>> /\ failure' \in {"none", "error", "fatal"}
      /\ WorkerStands' /\ call'["session"] = call["session"]
      /\ AllRequests' \subseteq AllRequests /\ ThreadType'
  BY <1>1, <1>2, <1>3, JobDoneTypes
<1>5. SessionStands'
  BY <1>1, <1>4, FramesStill
<1>6. ProcessStands'
  BY <1>1, <1>2 DEF ProcessStands
<1>7. \A r \in AllRequests' : RequestStands(r)
  BY <1>4 DEF Inv
<1> QED  BY <1>1, <1>2, <1>4, <1>5, <1>6, <1>7, ThreadsOnly DEF Inv, TypeOK, NodeType, Peaceful

--------------------------------------------------------------------------------
(***************************************************************************)
(* The specification                                                       *)
(***************************************************************************)
LEMMA InitInv == Init => Inv
<1> SUFFICES ASSUME Init PROVE Inv
  OBVIOUS
<1>1. TypeOK
  <2>1. PanelType
    <3>1. machine \in [installation: 0..MaxToken, binding: 0..MaxToken, session: Epochs,
                       token: 1..MaxToken, removed: BOOLEAN]
      BY DeliveryAssumption DEF Init, Epochs
    <3>2. tasks \in Seq(RowType) /\ Len(tasks) <= MaxTasks
      BY DeliveryAssumption, EmptySeq DEF Init
    <3> QED  BY <3>1, <3>2, NoStreamType DEF Init, PanelType
  <2>2. NodeType
    <3>1. Unknown \in [status: Active \cup Final \cup {"none"}, seq: Nat, acked: BOOLEAN]
      BY DEF Unknown
    <3>2. 1 \in 1..MaxToken /\ 0 \in 0..MaxToken
      BY DeliveryAssumption
    <3>3. node \in [installation: 1..MaxToken, binding: 0..MaxToken, token: 1..MaxToken]
      BY <3>2 DEF Init
    <3>4. up \in BOOLEAN /\ exit = "none" /\ journal = [t \in TaskIds |-> Unknown]
      BY DEF Init
    <3> QED  BY <3>1, <3>3, <3>4 DEF NodeType
  <2>3. ThreadType
    <3>1. session \in [pc: {"off", "watch", "report", "flush", "sent", "open"},
                       epoch: Epochs, todo: SUBSET TaskIds, task: 0..MaxTasks]
      BY DeliveryAssumption DEF Init, Off, Epochs
    <3>2. worker \in [pc: {"idle", "accept", "journalled", "progress", "perform", "report"},
                      task: 0..MaxTasks, epoch: Epochs]
      BY DeliveryAssumption DEF Init, Idle, Epochs
    <3>3. jobs \in Seq([task: TaskIds, epoch: Epochs])
      BY EmptySeq DEF Init
    <3> QED  BY <3>1, <3>2, <3>3, DeliveryAssumption DEF Init, ThreadType
  <2> QED  BY <2>1, <2>2, <2>3 DEF TypeOK
<1>2. Created = {}
  BY EmptySeq DEF Init, Created
<1>3. NodeStands /\ RowsStand /\ ReceiptsStand /\ ResultsAgree
  BY <1>2, DeliveryAssumption DEF Init, NodeStands, RowsStand, ReceiptsStand, ResultsAgree,
     ResultsAreJournalled, ReceiptsAreTrue, Installed, Unknown
<1>4. AllRequests = {}
  BY DEF Init, AllRequests, IsRequest, NoCall
<1>5. ProcessStands /\ SessionStands /\ WorkerStands /\ Peaceful
  BY DEF Init, ProcessStands, SessionStands, WorkerStands, Peaceful, Off, Idle, NoCall, Callers
<1> QED  BY <1>1, <1>3, <1>4, <1>5 DEF Inv

LEMMA StutterInv ==
  ASSUME Inv, UNCHANGED vars
  PROVE  Inv'
<1>1. /\ UNCHANGED <<panel, node, journal, up, exit, session, worker, jobs, queued, failure,
                     call, late, faults>>
  BY DEF vars, disk, threads
<1>2. \A r \in AllRequests' : RequestStands(r)
  BY <1>1 DEF Inv, AllRequests
<1>3. ThreadType' /\ ProcessStands'
  BY <1>1, RequestsTyped DEF Inv, TypeOK, ThreadType, ProcessStands
<1>4. SessionStands' /\ WorkerStands'
  BY <1>1, FramesStill
<1> QED  BY <1>1, <1>2, <1>3, <1>4, ThreadsOnly DEF Inv, TypeOK, NodeType, Peaceful

LEMMA StepInv == Inv /\ [Next]_vars => Inv'
<1> SUFFICES ASSUME Inv, [Next]_vars PROVE Inv'
  OBVIOUS
<1>1. CASE Administrator
  BY <1>1, EnqueueTaskInv, RebindInv, ResetTokenInv, RemoveInv DEF Administrator
<1>2. CASE Panel
  BY <1>2, AnnounceInv, DeliverInv DEF Panel
<1>3. CASE Start \/ Operator
  BY <1>3, StartInv, ReconfigureInv, ReinstallInv DEF Operator
<1>4. CASE Session
  BY <1>4, ConnectInv, GreetInv, ConnectFailsInv, BeginReportInv, FlushedInv, ResultFlushedInv,
     FlushFailsInv, FlushResultInv, NoticeInv, TakeFailureInv, EvictedInv DEF Session
<1>5. CASE Worker
  BY <1>5, TakeJobInv, JournalTaskInv, AcceptFailsInv, ResendInv, BeginInv, ProgressedInv,
     PerformInv, ResultReportedInv, ReportFailsInv DEF Worker
<1>6. CASE Faults
  BY <1>6, FailsInv, DeliverLateInv, CrashInv, DisconnectInv DEF Faults
<1>7. CASE UNCHANGED vars
  BY <1>7, StutterInv
<1> QED  BY <1>1, <1>2, <1>3, <1>4, <1>5, <1>6, <1>7 DEF Next

\* The inductive invariant holds in every reachable state.
LEMMA SpecInv == Spec => []Inv
BY InitInv, StepInv, PTL DEF Spec

--------------------------------------------------------------------------------
\* The variables stay in their ranges: the panel and the node know no binding and
\* no token but those the panel has issued (store.ts bind, rebind, resetToken).
THEOREM TypeCorrect == Spec => []TypeOK
<1>1. Inv => TypeOK
  BY DEF Inv
<1> QED  BY <1>1, SpecInv, PTL

\* Panel and node agree on every result, whatever calls are lost or handled late,
\* and however often the machine is rebound or the daemon stops: the panel shows
\* none that is not journalled, and the node stops reporting none that the panel
\* does not have (executor.go reportResult, store.ts reportTask).
THEOREM ResultsAlwaysAgree == Spec => []ResultsAgree
<1>1. Inv => ResultsAgree
  BY DEF Inv
<1> QED  BY <1>1, SpecInv, PTL

\* A task the node works on is the one task in progress at the panel: the checks
\* of accept and rebind are enough, although the node works without asking again.
THEOREM TaskIsHeld == Spec => []HeldWhileWorking
<1>1. Inv => HeldWhileWorking
  <2> SUFFICES ASSUME Inv, NEW t \in TaskIds, worker.task = t,
                      worker.pc \in {"progress", "perform"}, NEW u \in Created
               PROVE  tasks[u].state \in Active <=> u = t
    BY DEF HeldWhileWorking
  <2>1. Held(t) /\ ~Executed(t)
    BY DEF Inv, WorkerStands, Executed, Final
  <2>2. t \in Created /\ tasks[t].state \in Active
    BY <2>1 DEF Held
  <2> QED  BY <2>2 DEF Inv, RowsStand
<1> QED  BY <1>1, SpecInv, PTL

\* A task with a journalled result is reported again and not executed again
\* (executor.go execute, tasks.go Transition).
THEOREM ExecutedOnce == Spec => []NeverExecutedAgain
<1>1. Inv => NeverExecutedAgain
  BY DEF Inv, WorkerStands, NeverExecutedAgain
<1> QED  BY <1>1, SpecInv, PTL

\* The daemon never gives up over a disagreement (client.go Run): no late request and
\* no restart makes the panel answer with another result or another binding.
THEOREM NeverInConflict == Spec => []NoConflict
<1>1. Inv => NoConflict
  BY DEF Inv, Peaceful, NoConflict
<1> QED  BY <1>1, SpecInv, PTL
===============================================================================
