---------------------------- MODULE UpgradeProofs ----------------------------
(***************************************************************************)
(* Whatever is interrupted during an upgrade, the journal or the plan      *)
(* tells which version is installed, and a version is only replaced by a   *)
(* newer one when the last process of the service has saved its traffic.   *)
(*                                                                         *)
(* The argument: one upgrade is open at a time; until its result is        *)
(* recorded the plan is that of the helper that works on it, or of nobody, *)
(* and its phase says which version is installed; the daemon's process is  *)
(* of the installed version, and is down while the binary is exchanged.    *)
(* This rests on no fault but the killing of a helper being a mishap: a    *)
(* systemd-run that fails has not started a helper, no helper's save comes *)
(* after the next upgrade's first, and a rollback stops the daemon.        *)
(***************************************************************************)
EXTENDS Upgrade, TLAPS

Phases == {"none", "updater_ready", "switching", "starting", "local_healthy", "rolling_back",
           "restored_pending_health", "result_pending_ack", "completed"}

\* Where the helper is between Load and Record
Working == {"checked", "stopping", "stopped", "renamed", "starting", "waiting", "healthy",
            "rollback", "undoing", "restoring"}
HelperAts == Working \cup {"gone", "loading", "finish", "decided", "reporting"}
WorkerAts == {"idle", "checking", "verified", "handing", "handed", "failing"}
DaemonAts == Running \cup {"down", "pre", "restored", "main"}

\* The types of the variables, by who writes them
PanelTasks == {"none", "queued", "accepted", "succeeded", "failed"}
Rows == [status : {"none", "running", "succeeded", "failed", "rollback_failed"},
         version : Versions, acked : BOOLEAN]
Plans == {NoPlan} \cup [task : Upgrades, old : Versions, phase : Phases]
Helpers == [at : HelperAts, task : {0} \cup Upgrades, old : Versions, ready : Nat, after : Nat,
            back : BOOLEAN, result : {"none", "succeeded", "failed", "rollback_failed"}]

PanelType ==
    panel \in [task : [Upgrades -> PanelTasks], version : Versions, announced : {0} \cup Upgrades]

FilesType ==
    /\ journal \in [Upgrades -> Rows] /\ plan \in Plans /\ installed \in Versions

DaemonType ==
    daemon \in [at : DaemonAts, version : Versions, pid : Nat, ack : {0} \cup Upgrades]

EvidenceType ==
    /\ ready \in [pid : Nat, version : Versions]
    /\ exit \in [pid : Nat, version : Versions,
                 kind : {"none", "clean_shutdown", "shutdown_failed", "rejected"}]
    /\ proven \subseteq Versions

WorkerType ==
    /\ worker \in [at : WorkerAts, task : {0} \cup Upgrades]
    /\ worker.at # "idle" => worker.task \in Upgrades

HelperType == helper \in [Upgrades -> Helpers]

TypeOK == PanelType /\ FilesType /\ DaemonType /\ EvidenceType /\ WorkerType /\ HelperType

Open(t) == journal[t].status = "running"

\* One upgrade at a time: the earlier ones have a result, the later ones are not
\* in the journal.
OneAtATime ==
    \A t \in Upgrades :
        /\ panel.task[t] \in {"none", "queued"} => journal[t].status = "none"
        /\ Settled(t) => Terminal(journal[t])
        /\ panel.task[t] # "none" => \A u \in Upgrades : u < t => Settled(u)

\* The worker has an open task of its own until it has handed it over.
WorkerStands ==
    /\ worker.at # "idle" => daemon.at \in {"up", "online"}
    /\ worker.at \in {"checking", "verified", "handing", "failing"} => Open(worker.task)
    /\ worker.at \in {"checking", "verified", "failing"} => ~HandedOver(plan, worker.task)
    /\ worker.at = "handing" => /\ plan.task = worker.task /\ plan.phase = "updater_ready"
                                /\ helper[worker.task].at = "gone"

\* Until its result is recorded, a helper has the open task and the plan, and the
\* plan says how far it got.
HelperStands(h, u) ==
    /\ h.at \notin {"gone", "loading"} => h.task = u
    /\ h.at \in Working \cup {"loading", "finish"} => Open(u) /\ plan.task = u
    /\ h.at \in Working \cup {"finish"} => h.old = plan.old
    /\ h.at \in {"loading", "checked"} => plan.phase = "updater_ready"
    /\ h.at \in {"stopping", "stopped", "renamed"} => plan.phase = "switching"
    /\ h.at \in {"loading", "checked", "stopping", "stopped", "renamed"} => ~h.back
    /\ h.at = "rollback" => plan.phase \in {"switching", "starting"}
    /\ h.at = "healthy" => plan.phase = "starting"
    /\ h.at \in {"undoing", "restoring"} => plan.phase = "rolling_back"
    /\ h.at \in {"starting", "waiting"} =>
          plan.phase = IF h.back THEN "rolling_back" ELSE "starting"
    /\ h.at = "finish" =>
          \/ h.result = "succeeded" /\ plan.phase = "local_healthy"
          \/ h.result = "failed" /\ plan.phase \in {"updater_ready", "rolling_back"}
          \/ h.result = "rollback_failed" /\ plan.phase = "rolling_back"
    /\ h.at \in {"decided", "reporting"} => Terminal(journal[u])
    /\ h.at = "decided" => plan.task = u

HelpersStand == \A u \in Upgrades : HelperStands(helper[u], u)

\* Which version is installed while the plan is that of an open task
PlanStands(h) ==
    /\ plan.old < plan.task /\ installed \in {plan.old, plan.task}
    /\ plan.phase # "result_pending_ack"
    /\ plan.phase = "updater_ready" => installed = plan.old
    /\ plan.phase = "local_healthy" => installed = plan.task /\ plan.task \in proven
    /\ plan.phase = "restored_pending_health" => installed = plan.old /\ h.at = "gone"
    /\ h.at \in {"renamed", "healthy"} => installed = plan.task
    /\ h.at = "healthy" => plan.task \in proven
    /\ h.at \in {"starting", "waiting"} =>
          installed = IF h.back THEN plan.old ELSE plan.task
    /\ h.at = "finish" /\ h.result # "succeeded" => installed = plan.old

InstalledStands ==
    /\ installed # 0 => journal[installed].status # "none"
    /\ plan.task # 0 => journal[plan.task].status # "none"
    /\ \A t \in Upgrades : Open(t) /\ installed = t => HandedOver(plan, t)
    /\ \A t \in Upgrades : Open(t) /\ HandedOver(plan, t) => PlanStands(helper[t])

\* What the daemon's process knows, and when it cannot be there
DaemonStands ==
    /\ daemon.at \in Running \cup {"main"} => daemon.version = installed
    /\ daemon.at = "restored" =>
          /\ plan.task # 0 /\ Open(plan.task) /\ installed = plan.old
          /\ plan.phase \notin {"completed", "local_healthy", "result_pending_ack"}
          /\ helper[plan.task].at = "gone"
    /\ daemon.at = "confirmed" => plan.task # 0 /\ Terminal(journal[plan.task])
    /\ daemon.ack # 0 => daemon.at \in {"up", "online"} /\ Terminal(journal[daemon.ack])
    /\ \A u \in Upgrades :
          helper[u].at \in {"stopped", "renamed", "restoring", "starting"}
             => daemon.at = "down" /\ ~wanted

ProvenStands ==
    /\ ready.version \in proven
    /\ exit.kind # "none" => exit.version \in proven
    /\ daemon.at \in Running => daemon.version \in proven

\* The number tells the process that left evidence from the one that has not yet.
EvidenceStands ==
    /\ daemon.at = "main" => daemon.pid = ready.pid + 1
    /\ daemon.at \in Running => daemon.pid = ready.pid /\ exit.pid < ready.pid
    /\ exit.pid <= ready.pid
    /\ daemon.at \in {"down", "pre", "restored"} /\ exit.pid = daemon.pid
          => exit.kind = "shutdown_failed" \/ settled
    /\ \A u \in Upgrades : /\ helper[u].at \in {"checked", "stopping"}
                                => helper[u].ready <= ready.pid
                           /\ helper[u].at = "stopped" => settled

Inv == /\ TypeOK /\ OneAtATime /\ WorkerStands /\ HelpersStand /\ InstalledStands
       /\ DaemonStands /\ ProvenStands /\ EvidenceStands /\ ResultTellsVersion

-----------------------------------------------------------------------------
(***************************************************************************)
(* Rows, the plan and the helpers                                          *)
(***************************************************************************)
LEMMA Numbers == Upgrades \subseteq Nat \ {0} /\ Versions = {0} \cup Upgrades
BY UpgradeAssumption DEF Upgrades, Versions

LEMMA DecidedRow ==
  ASSUME NEW row \in Rows, NEW status \in {"succeeded", "failed", "rollback_failed"},
         NEW version \in Versions
  PROVE  /\ Decided(row, status, version) \in Rows
         /\ Decided(row, status, version).acked = row.acked
         /\ Terminal(row) => Decided(row, status, version) = row
         /\ ~Terminal(row) => /\ Decided(row, status, version).status = status
                              /\ Decided(row, status, version).version = version
BY DEF Decided, Terminal, Rows

\* A result is recorded: the first one stays.
LEMMA RecordedResult ==
  ASSUME TypeOK, NEW t \in Upgrades, NEW version \in Versions,
         NEW status \in {"succeeded", "failed", "rollback_failed"},
         journal' = [journal EXCEPT ![t] = Decided(@, status, version)]
  PROVE  /\ journal' \in [Upgrades -> Rows] /\ Terminal(journal'[t])
         /\ \A u \in Upgrades \ {t} : journal'[u] = journal[u]
         /\ Terminal(journal[t]) => journal'[t] = journal[t]
         /\ ~Terminal(journal[t]) => /\ journal'[t].status = status
                                     /\ journal'[t].version = version
<1>1. PICK row : row = Decided(journal[t], status, version)
  OBVIOUS
<1>2. journal[t] \in Rows
  BY DEF TypeOK, FilesType
<1>3. /\ row \in Rows /\ Terminal(row)
      /\ Terminal(journal[t]) => row = journal[t]
      /\ ~Terminal(journal[t]) => row.status = status /\ row.version = version
  <2>1. /\ row \in Rows
        /\ Terminal(journal[t]) => row = journal[t]
        /\ ~Terminal(journal[t]) => row.status = status /\ row.version = version
    BY <1>1, <1>2, DecidedRow
  <2>2. Terminal(row)
    BY <2>1 DEF Terminal
  <2> QED  BY <2>1, <2>2
<1>4. journal' = [journal EXCEPT ![t] = row]
  BY <1>1
<1> QED  BY <1>3, <1>4 DEF TypeOK, FilesType

\* A result is acknowledged, or the reply is lost.
LEMMA AcknowledgedResult ==
  ASSUME TypeOK, NEW t \in Upgrades,
         journal' = [journal EXCEPT ![t].acked = TRUE] \/ journal' = journal
  PROVE  /\ journal' \in [Upgrades -> Rows]
         /\ \A u \in Upgrades : /\ journal'[u].status = journal[u].status
                                /\ journal'[u].version = journal[u].version
<1>1. PICK row : row = [journal[t] EXCEPT !.acked = TRUE]
  OBVIOUS
<1>2. /\ row \in Rows /\ row.status = journal[t].status /\ row.version = journal[t].version
  BY <1>1 DEF TypeOK, FilesType, Rows
<1>3. journal' = [journal EXCEPT ![t] = row] \/ journal' = journal
  BY <1>1
<1> QED  BY <1>2, <1>3 DEF TypeOK, FilesType

\* The report of a result
LEMMA ReportedResult ==
  ASSUME TypeOK, NEW t \in Upgrades, panel' = [panel EXCEPT !.task[t] = Outcome(t)]
  PROVE  /\ PanelType' /\ Settled(t)'
         /\ \A u \in Upgrades \ {t} : panel'.task[u] = panel.task[u]
<1>1. PICK o : o = Outcome(t)
  OBVIOUS
<1>2. o \in {"succeeded", "failed"}
  BY <1>1 DEF Outcome, Settled
<1>3. panel' = [panel EXCEPT !.task[t] = o]
  BY <1>1
<1> QED  BY <1>2, <1>3 DEF TypeOK, PanelType, PanelTasks, Settled

LEMMA PlanFields ==
  ASSUME TypeOK
  PROVE  /\ plan.task \in {0} \cup Upgrades /\ plan.old \in Versions /\ plan.phase \in Phases
         /\ plan.phase # "none" => plan.task \in Upgrades
BY Numbers DEF TypeOK, FilesType, Plans, NoPlan, Phases

LEMMA SavedPlan ==
  ASSUME TypeOK, NEW t \in Upgrades, NEW old \in Versions, NEW phase \in Phases,
         plan' = Saved(plan, [task |-> t, old |-> old, phase |-> phase])
  PROVE  /\ plan' \in Plans
         /\ plan' = plan \/ (plan'.task = t /\ plan'.old = old /\ plan'.phase = phase)
         /\ plan'.task \in {plan.task, t}
         /\ (plan.task = t /\ plan.phase # "completed") \/ phase = "updater_ready"
               => plan'.task = t /\ plan'.old = old /\ plan'.phase = phase
         /\ plan.task \notin {0, t} /\ phase = "completed" => plan' = plan
<1>1. PICK p : p = [task |-> t, old |-> old, phase |-> phase]
  OBVIOUS
<1>2. p \in Plans /\ p.task = t /\ p.old = old /\ p.phase = phase
  BY <1>1 DEF Plans
<1>3. plan' = Saved(plan, p) /\ plan \in Plans
  BY <1>1 DEF TypeOK, FilesType
<1>4. plan' = plan \/ plan' = p
  BY <1>3 DEF Saved
<1>5. (plan.task = t /\ plan.phase # "completed") \/ phase = "updater_ready" => plan' = p
  BY <1>2, <1>3 DEF Saved
<1>6. plan.task \notin {0, t} /\ phase = "completed" => plan' = plan
  BY <1>2, <1>3 DEF Saved
<1> QED  BY <1>2, <1>3, <1>4, <1>5, <1>6

\* The daemon saves another phase of the plan it finds.
LEMMA AdvancedPlan ==
  ASSUME TypeOK, plan.task \in Upgrades, NEW phase \in Phases,
         plan' = Saved(plan, [plan EXCEPT !.phase = phase])
  PROVE  /\ plan' \in Plans /\ plan'.task = plan.task /\ plan'.old = plan.old
         /\ plan'.phase = phase \/ plan' = plan
         /\ plan.phase # "completed" \/ phase = "updater_ready" => plan'.phase = phase
<1>1. [plan EXCEPT !.phase = phase] = [task |-> plan.task, old |-> plan.old, phase |-> phase]
  BY Numbers DEF TypeOK, FilesType, Plans, NoPlan
<1>2. plan.old \in Versions
  BY PlanFields
<1>3. plan' = Saved(plan, [task |-> plan.task, old |-> plan.old, phase |-> phase])
  BY <1>1
<1>4. /\ plan' \in Plans
      /\ plan' = plan \/ (plan'.task = plan.task /\ plan'.old = plan.old /\ plan'.phase = phase)
      /\ plan.phase # "completed" \/ phase = "updater_ready" => plan'.phase = phase
  BY <1>2, <1>3, SavedPlan
<1> QED  BY <1>4

\* A helper's step changes its own row.
Others(u) == \A v \in Upgrades \ {u} : helper'[v] = helper[v]
SameRow(u) == /\ helper'[u].task = helper[u].task /\ helper'[u].old = helper[u].old
              /\ helper'[u].ready = helper[u].ready

LEMMA Moved ==
  ASSUME TypeOK, NEW u \in Upgrades, NEW at \in HelperAts, Move(u, at)
  PROVE  /\ HelperType' /\ Others(u) /\ SameRow(u)
         /\ helper'[u].at = at /\ helper'[u].back = helper[u].back
         /\ helper'[u].result = helper[u].result
BY DEF Move, TypeOK, HelperType, Helpers, Others, SameRow

LEMMA Rewritten ==
  ASSUME TypeOK, NEW u \in Upgrades, NEW row \in Helpers, helper' = [helper EXCEPT ![u] = row]
  PROVE  HelperType' /\ Others(u) /\ helper'[u] = row
BY DEF TypeOK, HelperType, Others

LEMMA NoHelperType == NoHelper \in Helpers /\ NoHelper.at = "gone"
BY Numbers DEF NoHelper, Helpers, HelperAts, Working

-----------------------------------------------------------------------------
(***************************************************************************)
(* One open upgrade, one helper                                            *)
(***************************************************************************)
Active == Working \cup {"loading", "finish"}
Busy == {"checking", "verified", "handing", "failing"}
Exchanging == {"stopped", "renamed", "restoring", "starting"}

\* What is open is the newest in the journal, and nothing before it is open.
LEMMA OnlyOne ==
  ASSUME TypeOK, OneAtATime, NEW t \in Upgrades, Open(t), NEW u \in Upgrades \ {t}
  PROVE  /\ ~Open(u)
         /\ u < t => Terminal(journal[u])
         /\ t < u => journal[u].status = "none"
<1>1. panel.task[t] \notin {"none", "queued"} /\ ~Settled(t)
  BY DEF OneAtATime, Open, Terminal
<1>2. CASE u < t
  BY <1>1, <1>2, Numbers DEF OneAtATime, Open, Terminal
<1>3. CASE t < u
  <2>1. panel.task[u] = "none"
    BY <1>1, <1>3 DEF OneAtATime
  <2> QED  BY <1>3, <2>1, Numbers DEF OneAtATime, Open
<1>4. u < t \/ t < u
  BY Numbers
<1> QED  BY <1>2, <1>3, <1>4

\* While an upgrade is open, no other one's result tells the installed version.
LEMMA OpenHidesResults ==
  ASSUME TypeOK, OneAtATime, NEW t \in Upgrades, Open(t)
  PROVE  \A u \in Upgrades :
            ~ /\ journal[u].status \in {"succeeded", "failed"}
              /\ \A v \in u + 1 .. LastUpgrade : journal[v].status = "none"
<1> SUFFICES ASSUME NEW u \in Upgrades, journal[u].status \in {"succeeded", "failed"},
                    \A v \in u + 1 .. LastUpgrade : journal[v].status = "none"
             PROVE  FALSE
  OBVIOUS
<1>1. u # t
  BY DEF Open
<1>2. u < t
  BY <1>1, OnlyOne, Numbers
<1>3. t \in u + 1 .. LastUpgrade
  BY <1>2, UpgradeAssumption DEF Upgrades
<1> QED  BY <1>3 DEF Open

LEMMA HelperWorks ==
  ASSUME TypeOK, OneAtATime, HelpersStand, WorkerStands,
         NEW u \in Upgrades, helper[u].at \in Active
  PROVE  /\ Open(u) /\ plan.task = u /\ HandedOver(plan, u) /\ worker.at \notin Busy
         /\ \A v \in Upgrades \ {u} :
               ~Open(v) /\ helper[v].at \in {"gone", "reporting"}
<1>1. HelperStands(helper[u], u)
  BY DEF HelpersStand
<1>2. Open(u) /\ plan.task = u
  BY <1>1 DEF HelperStands, Active, Working
<1>3. plan.phase # "completed"
  BY <1>1 DEF HelperStands, Active, Working
<1>4. ASSUME NEW v \in Upgrades \ {u}
      PROVE  ~Open(v) /\ helper[v].at \in {"gone", "reporting"}
  <2>1. ~Open(v)
    BY <1>2, OnlyOne
  <2>2. HelperStands(helper[v], v) /\ helper[v].at \in HelperAts
    BY DEF HelpersStand, TypeOK, HelperType, Helpers
  <2>3. helper[v].at \notin Working \cup {"loading", "finish"} /\ helper[v].at # "decided"
    BY <1>2, <2>1, <2>2 DEF HelperStands
  <2> QED  BY <2>1, <2>2, <2>3 DEF HelperAts
<1>5. worker.at \notin Busy
  <2>1. SUFFICES ASSUME worker.at \in Busy PROVE FALSE
    OBVIOUS
  <2>2. Open(worker.task) /\ worker.task \in Upgrades
    BY <2>1 DEF Busy, WorkerStands, TypeOK, WorkerType
  <2>3. worker.task = u
    BY <1>4, <2>2
  <2> QED  BY <1>2, <1>3, <2>1, <2>3 DEF Busy, WorkerStands, HandedOver, Active, Working
<1> QED  BY <1>2, <1>3, <1>4, <1>5 DEF HandedOver

\* What a helper's step leaves of the rest, while its upgrade stays open: the
\* conditions are about the helper itself, its plan and the installed version.
LEMMA HelperStepFiles ==
  ASSUME Inv, TypeOK', NEW u \in Upgrades, helper[u].at \in Active, Others(u),
         UNCHANGED <<panel, journal>>, plan'.task = u,
         (worker' = worker /\ daemon'.at = daemon.at) \/ worker'.at = "idle",
         HelperStands(helper[u], u)', PlanStands(helper[u])',
         installed' = installed \/ installed' \in {plan.old, u},
         installed' = u => plan'.phase # "completed"
  PROVE  /\ OneAtATime' /\ WorkerStands' /\ HelpersStand' /\ InstalledStands'
         /\ ResultTellsVersion'
<1>1. /\ Open(u) /\ plan.task = u /\ worker.at \notin Busy /\ HandedOver(plan, u)
      /\ \A v \in Upgrades \ {u} : ~Open(v) /\ helper[v].at \in {"gone", "reporting"}
  BY HelperWorks DEF Inv
<1>2. OneAtATime'
  BY DEF Inv, OneAtATime, Settled
<1>3. WorkerStands'
  BY <1>1 DEF Inv, WorkerStands, Busy
<1>4. HelpersStand'
  <2>1. ASSUME NEW v \in Upgrades \ {u}
        PROVE  HelperStands(helper[v], v)'
    <3>1. helper'[v] = helper[v] /\ helper[v].at \in {"gone", "reporting"}
      BY <1>1 DEF Others
    <3>2. HelperStands(helper[v], v)
      BY DEF Inv, HelpersStand
    <3> QED  BY <3>1, <3>2 DEF HelperStands, Working
  <2> QED  BY <2>1 DEF HelpersStand
<1>5. InstalledStands'
  <2>1. PlanStands(helper[u])
    BY <1>1 DEF Inv, InstalledStands
  <2>2. plan.old < u /\ plan.old \in Versions
    BY <1>1, <2>1, PlanFields DEF Inv, PlanStands
  <2>3. plan.old # 0 => plan.old \in Upgrades /\ Terminal(journal[plan.old])
    <3>1. SUFFICES ASSUME plan.old # 0 PROVE plan.old \in Upgrades /\ Terminal(journal[plan.old])
      OBVIOUS
    <3>2. plan.old \in Upgrades \ {u}
      BY <2>2, <3>1, Numbers
    <3> QED  BY <1>1, <2>2, <3>2, OnlyOne DEF Inv
  <2>4. installed' # 0 => journal'[installed'].status # "none"
    BY <1>1, <2>3 DEF Inv, InstalledStands, Open, Terminal
  <2>5. plan'.task # 0 => journal'[plan'.task].status # "none"
    BY <1>1 DEF Open
  <2>6. \A t \in Upgrades : Open(t)' /\ installed' = t => HandedOver(plan, t)'
    BY <1>1 DEF Open, HandedOver
  <2>7. \A t \in Upgrades : Open(t)' /\ HandedOver(plan, t)' => PlanStands(helper[t])'
    BY <1>1 DEF Open
  <2> QED  BY <2>4, <2>5, <2>6, <2>7 DEF InstalledStands
<1>6. ResultTellsVersion'
  BY <1>1, OpenHidesResults DEF Inv, ResultTellsVersion
<1> QED  BY <1>2, <1>3, <1>4, <1>5, <1>6

LEMMA HelperStepService ==
  ASSUME Inv, NEW u \in Upgrades, helper[u].at \in Active, Others(u), plan'.task = u,
         UNCHANGED <<panel, journal, daemon, ready, exit, settled, proven>>,
         installed' = installed \/ daemon.at = "down",
         helper'[u].at \in Exchanging => daemon.at = "down" /\ ~wanted',
         helper'[u].at \in {"checked", "stopping"} => helper'[u].ready <= ready.pid,
         helper'[u].at = "stopped" => settled
  PROVE  DaemonStands' /\ ProvenStands' /\ EvidenceStands'
<1>1. /\ Open(u) /\ plan.task = u
      /\ \A v \in Upgrades \ {u} : helper'[v] = helper[v] /\ helper[v].at \in {"gone", "reporting"}
  BY HelperWorks DEF Inv, Others
<1>2. daemon.at \notin {"restored", "confirmed"}
  BY <1>1 DEF Inv, DaemonStands, Active, Working, Terminal, Open
<1>3. DaemonStands'
  BY <1>1, <1>2 DEF Inv, DaemonStands, Running, Exchanging
<1>4. ProvenStands'
  BY DEF Inv, ProvenStands
<1>5. EvidenceStands'
  BY <1>1 DEF Inv, EvidenceStands
<1> QED  BY <1>3, <1>4, <1>5

-----------------------------------------------------------------------------
(***************************************************************************)
(* The helper's steps, while its upgrade is open                           *)
(***************************************************************************)
LEMMA Serving ==
  ASSUME Inv, NEW u \in Upgrades, helper[u].at \in Active
  PROVE  /\ Open(u) /\ plan.task = u /\ plan.phase # "completed" /\ plan.old \in Versions
         /\ helper[u] \in Helpers /\ HelperStands(helper[u], u) /\ PlanStands(helper[u])
         /\ helper[u].at # "loading" => helper[u].task = u /\ helper[u].old = plan.old
<1>1. Open(u) /\ plan.task = u /\ HandedOver(plan, u)
  BY HelperWorks DEF Inv
<1>2. HelperStands(helper[u], u)
  BY DEF Inv, HelpersStand
<1>3. PlanStands(helper[u])
  BY <1>1 DEF Inv, InstalledStands
<1>4. TypeOK /\ HelperType
  BY DEF Inv, TypeOK
<1>5. helper[u] \in Helpers /\ plan.old \in Versions
  BY <1>4, PlanFields DEF HelperType
<1> QED  BY <1>1, <1>2, <1>3, <1>5 DEF HandedOver, HelperStands, Active, Working

\* What the helper saves while its upgrade is open replaces the plan.
LEMMA KeptPlan ==
  ASSUME Inv, NEW u \in Upgrades, helper[u].at \in Active, helper[u].at # "loading",
         NEW phase \in Phases, Keep(u, phase)
  PROVE  plan' \in Plans /\ plan'.task = u /\ plan'.old = plan.old /\ plan'.phase = phase
<1>1. /\ plan.task = u /\ plan.phase # "completed" /\ plan.old \in Versions
      /\ helper[u].task = u /\ helper[u].old = plan.old
  BY Serving
<1>2. plan' = Saved(plan, [task |-> u, old |-> plan.old, phase |-> phase])
  BY <1>1 DEF Keep
<1> QED  BY <1>1, <1>2, SavedPlan DEF Inv

LEMMA Ended ==
  ASSUME NEW h \in Helpers, NEW result \in {"succeeded", "failed", "rollback_failed"}
  PROVE  /\ Ending(h, result) \in Helpers /\ Ending(h, result).at = "finish"
         /\ Ending(h, result).task = h.task /\ Ending(h, result).old = h.old
         /\ Ending(h, result).ready = h.ready /\ Ending(h, result).back = h.back
         /\ Ending(h, result).result = result
BY DEF Ending, Helpers, HelperAts

LEMMA SaveSwitchingKeeps == ASSUME Inv, NEW u \in Upgrades, SaveSwitching(u) PROVE Inv'
<1>1. /\ helper[u].at = "checked" /\ helper[u].at \in Active
      /\ UNCHANGED <<panel, journal, installed, daemon, wanted, ready, exit, settled, proven,
                     worker>>
  BY DEF SaveSwitching, At, Active, Working, service, evidence
<1>2. /\ Open(u) /\ plan.task = u /\ plan.phase # "completed" /\ plan.old \in Versions
      /\ helper[u] \in Helpers /\ HelperStands(helper[u], u) /\ PlanStands(helper[u])
      /\ helper[u].at # "loading" => helper[u].task = u /\ helper[u].old = plan.old
  BY <1>1, Serving
<1>3. HelperType' /\ Others(u) /\ SameRow(u) /\ helper'[u].at = "stopping"
      /\ helper'[u].back = helper[u].back /\ helper'[u].result = helper[u].result
  BY Moved DEF SaveSwitching, Inv, HelperAts, Working
<1>4. plan' \in Plans /\ plan'.task = u /\ plan'.old = plan.old /\ plan'.phase = "switching"
  BY <1>1, KeptPlan DEF SaveSwitching, Phases
<1>5. TypeOK'
  BY <1>1, <1>2, <1>3, <1>4 DEF Inv, TypeOK, PanelType, FilesType, DaemonType, EvidenceType,
     WorkerType
<1>6. HelperStands(helper[u], u)'
  BY <1>1, <1>2, <1>3, <1>4 DEF HelperStands, SameRow, Working, Open
<1>7. PlanStands(helper[u])'
  BY <1>1, <1>2, <1>3, <1>4 DEF PlanStands, HelperStands, SameRow, Working
<1>8. OneAtATime' /\ WorkerStands' /\ HelpersStand' /\ InstalledStands' /\ ResultTellsVersion'
  BY <1>1, <1>2, <1>3, <1>4, <1>5, <1>6, <1>7, HelperStepFiles DEF HelperStands, Working
<1>9. DaemonStands' /\ ProvenStands' /\ EvidenceStands'
  BY <1>1, <1>2, <1>3, <1>4, HelperStepService DEF Inv, DaemonStands, EvidenceStands, SameRow,
     Exchanging, HelperStands, Working
<1> QED  BY <1>5, <1>8, <1>9 DEF Inv

LEMMA ReplaceKeeps == ASSUME Inv, NEW u \in Upgrades, Replace(u) PROVE Inv'
<1>1. /\ helper[u].at = "stopped" /\ helper[u].at \in Active
      /\ UNCHANGED <<panel, journal, plan, daemon, wanted, ready, exit, settled, proven, worker>>
  BY DEF Replace, At, Active, Working, service, evidence
<1>2. /\ Open(u) /\ plan.task = u /\ plan.phase # "completed" /\ plan.old \in Versions
      /\ helper[u] \in Helpers /\ HelperStands(helper[u], u) /\ PlanStands(helper[u])
      /\ helper[u].at # "loading" => helper[u].task = u /\ helper[u].old = plan.old
  BY <1>1, Serving
<1>3. HelperType' /\ Others(u) /\ SameRow(u) /\ helper'[u].at = "renamed"
      /\ helper'[u].back = helper[u].back /\ helper'[u].result = helper[u].result
  BY Moved DEF Replace, Inv, HelperAts, Working
<1>4. installed' = u /\ installed' \in Versions
  BY <1>1, <1>2, Numbers DEF Replace
<1>5. TypeOK'
  BY <1>1, <1>2, <1>3, <1>4 DEF Inv, TypeOK, PanelType, FilesType, DaemonType, EvidenceType,
     WorkerType
<1>6. HelperStands(helper[u], u)'
  BY <1>1, <1>2, <1>3, <1>4 DEF HelperStands, SameRow, Working, Open
<1>7. PlanStands(helper[u])'
  BY <1>1, <1>2, <1>3, <1>4 DEF PlanStands, HelperStands, SameRow, Working
<1>8. OneAtATime' /\ WorkerStands' /\ HelpersStand' /\ InstalledStands' /\ ResultTellsVersion'
  BY <1>1, <1>2, <1>3, <1>4, <1>5, <1>6, <1>7, HelperStepFiles DEF HelperStands, Working
<1>9. DaemonStands' /\ ProvenStands' /\ EvidenceStands'
  BY <1>1, <1>2, <1>3, <1>4, HelperStepService DEF Inv, DaemonStands, EvidenceStands, SameRow,
     Exchanging, HelperStands, Working
<1> QED  BY <1>5, <1>8, <1>9 DEF Inv

LEMMA StartKeeps == ASSUME Inv, NEW u \in Upgrades, Start(u) PROVE Inv'
<1>1. /\ helper[u].at = "starting" /\ helper[u].at \in Active
      /\ UNCHANGED <<panel, journal, plan, installed, daemon, ready, exit, settled, proven,
                     worker>>
  BY DEF Start, At, Active, Working, files
<1>2. /\ Open(u) /\ plan.task = u /\ plan.phase # "completed" /\ plan.old \in Versions
      /\ helper[u] \in Helpers /\ HelperStands(helper[u], u) /\ PlanStands(helper[u])
      /\ helper[u].at # "loading" => helper[u].task = u /\ helper[u].old = plan.old
  BY <1>1, Serving
<1>3. HelperType' /\ Others(u) /\ SameRow(u) /\ helper'[u].at = "waiting"
      /\ helper'[u].back = helper[u].back /\ helper'[u].result = helper[u].result
  BY Moved DEF Start, Inv, HelperAts, Working
<1>4. TypeOK'
  BY <1>1, <1>2, <1>3 DEF Inv, TypeOK, PanelType, FilesType, DaemonType, EvidenceType, WorkerType
<1>5. HelperStands(helper[u], u)'
  BY <1>1, <1>2, <1>3 DEF HelperStands, SameRow, Working, Open
<1>6. PlanStands(helper[u])'
  BY <1>1, <1>2, <1>3 DEF PlanStands, HelperStands, SameRow, Working
<1>7. OneAtATime' /\ WorkerStands' /\ HelpersStand' /\ InstalledStands' /\ ResultTellsVersion'
  BY <1>1, <1>2, <1>3, <1>4, <1>5, <1>6, HelperStepFiles DEF HelperStands, Working
<1>8. DaemonStands' /\ ProvenStands' /\ EvidenceStands'
  BY <1>1, <1>2, <1>3, HelperStepService DEF Inv, DaemonStands, EvidenceStands, SameRow,
     Exchanging, HelperStands, Working
<1> QED  BY <1>4, <1>7, <1>8 DEF Inv

LEMMA SaveRollingBackKeeps == ASSUME Inv, NEW u \in Upgrades, SaveRollingBack(u) PROVE Inv'
<1>1. /\ helper[u].at = "rollback" /\ helper[u].at \in Active
      /\ UNCHANGED <<panel, journal, installed, daemon, wanted, ready, exit, settled, proven,
                     worker>>
  BY DEF SaveRollingBack, At, Active, Working, service, evidence
<1>2. /\ Open(u) /\ plan.task = u /\ plan.phase # "completed" /\ plan.old \in Versions
      /\ helper[u] \in Helpers /\ HelperStands(helper[u], u) /\ PlanStands(helper[u])
      /\ helper[u].at # "loading" => helper[u].task = u /\ helper[u].old = plan.old
  BY <1>1, Serving
<1>3. HelperType' /\ Others(u) /\ SameRow(u) /\ helper'[u].at = "undoing"
      /\ helper'[u].back = helper[u].back /\ helper'[u].result = helper[u].result
  BY Moved DEF SaveRollingBack, Inv, HelperAts, Working
<1>4. plan' \in Plans /\ plan'.task = u /\ plan'.old = plan.old /\ plan'.phase = "rolling_back"
  BY <1>1, KeptPlan DEF SaveRollingBack, Phases
<1>5. TypeOK'
  BY <1>1, <1>2, <1>3, <1>4 DEF Inv, TypeOK, PanelType, FilesType, DaemonType, EvidenceType,
     WorkerType
<1>6. HelperStands(helper[u], u)'
  BY <1>1, <1>2, <1>3, <1>4 DEF HelperStands, SameRow, Working, Open
<1>7. PlanStands(helper[u])'
  BY <1>1, <1>2, <1>3, <1>4 DEF PlanStands, HelperStands, SameRow, Working
<1>8. OneAtATime' /\ WorkerStands' /\ HelpersStand' /\ InstalledStands' /\ ResultTellsVersion'
  BY <1>1, <1>2, <1>3, <1>4, <1>5, <1>6, <1>7, HelperStepFiles DEF HelperStands, Working
<1>9. DaemonStands' /\ ProvenStands' /\ EvidenceStands'
  BY <1>1, <1>2, <1>3, <1>4, HelperStepService DEF Inv, DaemonStands, EvidenceStands, SameRow,
     Exchanging, HelperStands, Working
<1> QED  BY <1>5, <1>8, <1>9 DEF Inv

LEMMA SaveStartingKeeps == ASSUME Inv, NEW u \in Upgrades, SaveStarting(u) PROVE Inv'
<1>1. /\ helper[u].at = "renamed" /\ helper[u].at \in Active
      /\ UNCHANGED <<panel, journal, installed, daemon, wanted, ready, exit, settled, proven,
                     worker>>
  BY DEF SaveStarting, At, Active, Working, service, evidence
<1>2. /\ Open(u) /\ plan.task = u /\ plan.phase # "completed" /\ plan.old \in Versions
      /\ helper[u] \in Helpers /\ HelperStands(helper[u], u) /\ PlanStands(helper[u])
      /\ helper[u].at # "loading" => helper[u].task = u /\ helper[u].old = plan.old
  BY <1>1, Serving
<1>3. PICK row : row = [helper[u] EXCEPT !.at = "starting", !.after = ready.pid]
  OBVIOUS
<1>4. /\ row \in Helpers
      /\ row.task = helper[u].task /\ row.old = helper[u].old
      /\ row.ready = helper[u].ready /\ row.at = "starting" /\ row.back = helper[u].back
  BY <1>2, <1>3 DEF Helpers, HelperAts, Working, Inv, TypeOK, EvidenceType
<1>5. helper' = [helper EXCEPT ![u] = row]
  BY <1>3 DEF SaveStarting
<1>6. HelperType' /\ Others(u) /\ helper'[u] = row
  BY <1>4, <1>5, Rewritten DEF Inv
<1>7. plan' \in Plans /\ plan'.task = u /\ plan'.old = plan.old /\ plan'.phase = "starting"
  BY <1>1, KeptPlan DEF SaveStarting, Phases
<1>8. TypeOK'
  BY <1>1, <1>2, <1>3, <1>4, <1>5, <1>6, <1>7 DEF Inv, TypeOK, PanelType, FilesType, DaemonType,
     EvidenceType, WorkerType
<1>9. HelperStands(helper[u], u)'
  BY <1>1, <1>2, <1>3, <1>4, <1>5, <1>6, <1>7 DEF HelperStands, Working, Open
<1>10. PlanStands(helper[u])'
  BY <1>1, <1>2, <1>3, <1>4, <1>5, <1>6, <1>7 DEF PlanStands, HelperStands, Working
<1>11. OneAtATime' /\ WorkerStands' /\ HelpersStand' /\ InstalledStands' /\ ResultTellsVersion'
  BY <1>1, <1>2, <1>3, <1>4, <1>5, <1>6, <1>7, <1>8, <1>9, <1>10, HelperStepFiles DEF
     HelperStands, Working
<1>12. DaemonStands' /\ ProvenStands' /\ EvidenceStands'
  BY <1>1, <1>2, <1>3, <1>4, <1>5, <1>6, <1>7, HelperStepService DEF Inv, DaemonStands,
     EvidenceStands, Exchanging, HelperStands, Working
<1> QED  BY <1>8, <1>11, <1>12 DEF Inv

LEMMA PutBackKeeps == ASSUME Inv, NEW u \in Upgrades, PutBack(u) PROVE Inv'
<1>1. /\ helper[u].at = "restoring" /\ helper[u].at \in Active
      /\ UNCHANGED <<panel, journal, plan, daemon, wanted, ready, exit, settled, proven, worker>>
  BY DEF PutBack, At, Active, Working, service, evidence
<1>2. /\ Open(u) /\ plan.task = u /\ plan.phase # "completed" /\ plan.old \in Versions
      /\ helper[u] \in Helpers /\ HelperStands(helper[u], u) /\ PlanStands(helper[u])
      /\ helper[u].at # "loading" => helper[u].task = u /\ helper[u].old = plan.old
  BY <1>1, Serving
<1>3. PICK row : row = [helper[u] EXCEPT !.at = "starting", !.back = TRUE]
  OBVIOUS
<1>4. /\ row \in Helpers
      /\ row.task = helper[u].task /\ row.old = helper[u].old
      /\ row.ready = helper[u].ready /\ row.at = "starting" /\ row.back
  BY <1>2, <1>3 DEF Helpers, HelperAts, Working
<1>5. helper' = [helper EXCEPT ![u] = row]
  BY <1>3 DEF PutBack
<1>6. HelperType' /\ Others(u) /\ helper'[u] = row
  BY <1>4, <1>5, Rewritten DEF Inv
<1>7. installed' = plan.old
  BY <1>1, <1>2 DEF PutBack
<1>8. TypeOK'
  BY <1>1, <1>2, <1>3, <1>4, <1>5, <1>6, <1>7 DEF Inv, TypeOK, PanelType, FilesType, DaemonType,
     EvidenceType, WorkerType
<1>9. HelperStands(helper[u], u)'
  BY <1>1, <1>2, <1>3, <1>4, <1>5, <1>6, <1>7 DEF HelperStands, Working, Open
<1>10. PlanStands(helper[u])'
  BY <1>1, <1>2, <1>3, <1>4, <1>5, <1>6, <1>7 DEF PlanStands, HelperStands, Working
<1>11. OneAtATime' /\ WorkerStands' /\ HelpersStand' /\ InstalledStands' /\ ResultTellsVersion'
  BY <1>1, <1>2, <1>3, <1>4, <1>5, <1>6, <1>7, <1>8, <1>9, <1>10, HelperStepFiles DEF
     HelperStands, Working
<1>12. DaemonStands' /\ ProvenStands' /\ EvidenceStands'
  BY <1>1, <1>2, <1>3, <1>4, <1>5, <1>6, <1>7, HelperStepService DEF Inv, DaemonStands,
     EvidenceStands, Exchanging, HelperStands, Working
<1> QED  BY <1>8, <1>11, <1>12 DEF Inv

LEMMA SaveHealthyKeeps == ASSUME Inv, NEW u \in Upgrades, SaveHealthy(u) PROVE Inv'
<1>1. /\ helper[u].at = "healthy" /\ helper[u].at \in Active
      /\ UNCHANGED <<panel, journal, installed, daemon, wanted, ready, exit, settled, proven,
                     worker>>
  BY DEF SaveHealthy, At, Active, Working, service, evidence
<1>2. /\ Open(u) /\ plan.task = u /\ plan.phase # "completed" /\ plan.old \in Versions
      /\ helper[u] \in Helpers /\ HelperStands(helper[u], u) /\ PlanStands(helper[u])
      /\ helper[u].at # "loading" => helper[u].task = u /\ helper[u].old = plan.old
  BY <1>1, Serving
<1>3. PICK row : row = Ending(helper[u], "succeeded")
  OBVIOUS
<1>4. /\ row \in Helpers
      /\ row.task = helper[u].task /\ row.old = helper[u].old
      /\ row.ready = helper[u].ready /\ row.at = "finish" /\ row.back = helper[u].back
      /\ row.result = "succeeded"
  BY <1>2, <1>3, Ended
<1>5. helper' = [helper EXCEPT ![u] = row]
  BY <1>3 DEF SaveHealthy
<1>6. HelperType' /\ Others(u) /\ helper'[u] = row
  BY <1>4, <1>5, Rewritten DEF Inv
<1>7. plan' \in Plans /\ plan'.task = u /\ plan'.old = plan.old /\ plan'.phase = "local_healthy"
  BY <1>1, KeptPlan DEF SaveHealthy, Phases
<1>8. TypeOK'
  BY <1>1, <1>2, <1>3, <1>4, <1>5, <1>6, <1>7 DEF Inv, TypeOK, PanelType, FilesType, DaemonType,
     EvidenceType, WorkerType
<1>9. HelperStands(helper[u], u)'
  BY <1>1, <1>2, <1>3, <1>4, <1>5, <1>6, <1>7 DEF HelperStands, Working, Open
<1>10. PlanStands(helper[u])'
  BY <1>1, <1>2, <1>3, <1>4, <1>5, <1>6, <1>7 DEF PlanStands, HelperStands, Working
<1>11. OneAtATime' /\ WorkerStands' /\ HelpersStand' /\ InstalledStands' /\ ResultTellsVersion'
  BY <1>1, <1>2, <1>3, <1>4, <1>5, <1>6, <1>7, <1>8, <1>9, <1>10, HelperStepFiles DEF
     HelperStands, Working
<1>12. DaemonStands' /\ ProvenStands' /\ EvidenceStands'
  BY <1>1, <1>2, <1>3, <1>4, <1>5, <1>6, <1>7, HelperStepService DEF Inv, DaemonStands,
     EvidenceStands, Exchanging, HelperStands, Working
<1> QED  BY <1>8, <1>11, <1>12 DEF Inv

LEMMA SeenHealthyKeeps == ASSUME Inv, NEW u \in Upgrades, SeenHealthy(u) PROVE Inv'
<1>1. /\ helper[u].at = "waiting" /\ helper[u].at \in Active
      /\ UNCHANGED <<panel, journal, plan, installed, daemon, wanted, ready, exit, settled,
                     proven, worker>>
  BY DEF SeenHealthy, At, Active, Working, files, service, evidence
<1>2. /\ Open(u) /\ plan.task = u /\ plan.phase # "completed" /\ plan.old \in Versions
      /\ helper[u] \in Helpers /\ HelperStands(helper[u], u) /\ PlanStands(helper[u])
      /\ helper[u].at # "loading" => helper[u].task = u /\ helper[u].old = plan.old
  BY <1>1, Serving
<1>3. PICK row : row = IF helper[u].back THEN Ending(helper[u], "failed")
                        ELSE [helper[u] EXCEPT !.at = "healthy"]
  OBVIOUS
<1>4. /\ row \in Helpers
      /\ row.task = helper[u].task /\ row.old = helper[u].old
      /\ row.ready = helper[u].ready /\ row.back = helper[u].back
      /\ row.back => row.at = "finish" /\ row.result = "failed"
      /\ ~row.back => row.at = "healthy"
  <2>1. CASE helper[u].back
    BY <1>2, <1>3, <2>1, Ended
  <2>2. CASE ~helper[u].back
    BY <1>2, <1>3, <2>2 DEF Helpers, HelperAts, Working
  <2> QED  BY <2>1, <2>2
<1>5. helper' = [helper EXCEPT ![u] = row]
  BY <1>3 DEF SeenHealthy
<1>6. HelperType' /\ Others(u) /\ helper'[u] = row
  BY <1>4, <1>5, Rewritten DEF Inv
<1>7. ~helper[u].back => u \in proven
  BY <1>2, <1>1 DEF SeenHealthy, LocallyHealthy, Awaited, Inv, ProvenStands
<1>8. TypeOK'
  BY <1>1, <1>2, <1>3, <1>4, <1>5, <1>6, <1>7 DEF Inv, TypeOK, PanelType, FilesType, DaemonType,
     EvidenceType, WorkerType
<1>9. HelperStands(helper[u], u)'
  BY <1>1, <1>2, <1>3, <1>4, <1>5, <1>6, <1>7 DEF HelperStands, Working, Open
<1>10. PlanStands(helper[u])'
  BY <1>1, <1>2, <1>3, <1>4, <1>5, <1>6, <1>7 DEF PlanStands, HelperStands, Working
<1>11. OneAtATime' /\ WorkerStands' /\ HelpersStand' /\ InstalledStands' /\ ResultTellsVersion'
  BY <1>1, <1>2, <1>3, <1>4, <1>5, <1>6, <1>7, <1>8, <1>9, <1>10, HelperStepFiles DEF
     HelperStands, Working
<1>12. DaemonStands' /\ ProvenStands' /\ EvidenceStands'
  BY <1>1, <1>2, <1>3, <1>4, <1>5, <1>6, <1>7, HelperStepService DEF Inv, DaemonStands,
     EvidenceStands, Exchanging, HelperStands, Working
<1> QED  BY <1>8, <1>11, <1>12 DEF Inv

LEMMA GiveUpKeeps == ASSUME Inv, NEW u \in Upgrades, GiveUp(u) PROVE Inv'
<1>1. /\ helper[u].at = "waiting" /\ helper[u].at \in Active
      /\ UNCHANGED <<panel, journal, plan, installed, daemon, wanted, ready, exit, settled,
                     proven, worker>>
  BY DEF GiveUp, At, Active, Working, files, service, evidence
<1>2. /\ Open(u) /\ plan.task = u /\ plan.phase # "completed" /\ plan.old \in Versions
      /\ helper[u] \in Helpers /\ HelperStands(helper[u], u) /\ PlanStands(helper[u])
      /\ helper[u].at # "loading" => helper[u].task = u /\ helper[u].old = plan.old
  BY <1>1, Serving
<1>3. PICK row : row = IF helper[u].back THEN Ending(helper[u], "rollback_failed")
                        ELSE [helper[u] EXCEPT !.at = "rollback"]
  OBVIOUS
<1>4. /\ row \in Helpers
      /\ row.task = helper[u].task /\ row.old = helper[u].old
      /\ row.ready = helper[u].ready /\ row.back = helper[u].back
      /\ row.back => row.at = "finish" /\ row.result = "rollback_failed"
      /\ ~row.back => row.at = "rollback"
  <2>1. CASE helper[u].back
    BY <1>2, <1>3, <2>1, Ended
  <2>2. CASE ~helper[u].back
    BY <1>2, <1>3, <2>2 DEF Helpers, HelperAts, Working
  <2> QED  BY <2>1, <2>2
<1>5. helper' = [helper EXCEPT ![u] = row]
  BY <1>3 DEF GiveUp
<1>6. HelperType' /\ Others(u) /\ helper'[u] = row
  BY <1>4, <1>5, Rewritten DEF Inv
<1>7. TypeOK'
  BY <1>1, <1>2, <1>3, <1>4, <1>5, <1>6 DEF Inv, TypeOK, PanelType, FilesType, DaemonType,
     EvidenceType, WorkerType
<1>8. HelperStands(helper[u], u)'
  BY <1>1, <1>2, <1>3, <1>4, <1>5, <1>6 DEF HelperStands, Working, Open
<1>9. PlanStands(helper[u])'
  BY <1>1, <1>2, <1>3, <1>4, <1>5, <1>6 DEF PlanStands, HelperStands, Working
<1>10. OneAtATime' /\ WorkerStands' /\ HelpersStand' /\ InstalledStands' /\ ResultTellsVersion'
  BY <1>1, <1>2, <1>3, <1>4, <1>5, <1>6, <1>7, <1>8, <1>9, HelperStepFiles DEF HelperStands,
     Working
<1>11. DaemonStands' /\ ProvenStands' /\ EvidenceStands'
  BY <1>1, <1>2, <1>3, <1>4, <1>5, <1>6, HelperStepService DEF Inv, DaemonStands, EvidenceStands,
     Exchanging, HelperStands, Working
<1> QED  BY <1>7, <1>10, <1>11 DEF Inv

LEMMA LoadKeeps == ASSUME Inv, NEW u \in Upgrades, Load(u) PROVE Inv'
<1>1. /\ helper[u].at = "loading" /\ helper[u].at \in Active
      /\ UNCHANGED <<panel, journal, plan, installed, daemon, wanted, ready, exit, settled,
                     proven, worker>>
  BY DEF Load, At, Active, Working, files, service, evidence
<1>2. /\ Open(u) /\ plan.task = u /\ plan.phase # "completed" /\ plan.old \in Versions
      /\ helper[u] \in Helpers /\ HelperStands(helper[u], u) /\ PlanStands(helper[u])
      /\ helper[u].at # "loading" => helper[u].task = u /\ helper[u].old = plan.old
  BY <1>1, Serving
<1>3. PICK h : h = [helper[u] EXCEPT !.task = plan.task, !.old = plan.old]
  OBVIOUS
<1>4. /\ h \in Helpers /\ h.task = u /\ h.old = plan.old /\ h.back = helper[u].back
  BY <1>2, <1>3 DEF Helpers
<1>5. plan.phase = "updater_ready" /\ ~helper[u].back
  BY <1>1, <1>2 DEF HelperStands
<1> DEFINE checked == [h EXCEPT !.at = "checked", !.ready = ready.pid]
<1>6. Loaded(h) \in {checked, Ending(h, "failed")} /\ Spoilt(h) \in {checked, Ending(h, "failed")}
  <2>1. plan.task # 0 /\ ~LocallyConfirmed /\ ~Terminal(journal[plan.task])
    BY <1>2, <1>5, Numbers DEF LocallyConfirmed, Terminal, Open
  <2>2. Loaded(h) \in {checked, Ending(h, "failed")}
    BY <1>5, <2>1 DEF Loaded
  <2>3. Spoilt(h) \in {Loaded(h), Ending(h, "failed")}
    BY DEF Spoilt
  <2> QED  BY <2>2, <2>3
<1>8. PICK row \in {checked, Ending(h, "failed")} : helper' = [helper EXCEPT ![u] = row]
  BY <1>3, <1>6 DEF Load
<1>7. /\ row \in Helpers /\ row.task = u /\ row.old = plan.old /\ ~row.back
      /\ \/ row.at = "checked" /\ row.ready = ready.pid
         \/ row.at = "finish" /\ row.result = "failed"
  <2>1. CASE row = checked
    BY <1>4, <1>5, <2>1 DEF Helpers, HelperAts, Working, Inv, TypeOK, EvidenceType
  <2>2. CASE row = Ending(h, "failed")
    BY <1>4, <1>5, <2>2, Ended
  <2> QED  BY <1>8, <2>1, <2>2
<1> HIDE DEF checked
<1>9. HelperType' /\ Others(u) /\ helper'[u] = row
  BY <1>7, <1>8, Rewritten DEF Inv
<1>10. ready.pid \in Nat
  BY DEF Inv, TypeOK, EvidenceType
<1>11. TypeOK'
  BY <1>1, <1>2, <1>3, <1>4, <1>5, <1>7, <1>8, <1>9, <1>10 DEF Inv, TypeOK, PanelType,
     FilesType, DaemonType, EvidenceType, WorkerType
<1>12. HelperStands(helper[u], u)'
  BY <1>1, <1>2, <1>3, <1>4, <1>5, <1>7, <1>8, <1>9, <1>10 DEF HelperStands, Working, Open
<1>13. PlanStands(helper[u])'
  BY <1>1, <1>2, <1>3, <1>4, <1>5, <1>7, <1>8, <1>9, <1>10 DEF PlanStands, HelperStands,
     Working
<1>14. OneAtATime' /\ WorkerStands' /\ HelpersStand' /\ InstalledStands' /\ ResultTellsVersion'
  BY <1>1, <1>2, <1>3, <1>4, <1>5, <1>7, <1>8, <1>9, <1>10, <1>11, <1>12, <1>13,
     HelperStepFiles DEF HelperStands, Working
<1>15. DaemonStands' /\ ProvenStands' /\ EvidenceStands'
  <2>1. /\ helper'[u].at \notin Exchanging \cup {"stopping", "stopped"}
        /\ helper'[u].at = "checked" => helper'[u].ready <= ready.pid
    BY <1>7, <1>9, <1>10 DEF Exchanging
  <2>2. plan'.task = u /\ installed' = installed
    BY <1>1, <1>2
  <2> QED  BY <1>1, <1>9, <2>1, <2>2, HelperStepService
<1> QED  BY <1>11, <1>14, <1>15 DEF Inv

\* While the helper works, the daemon is neither recovering nor confirming.
LEMMA ServiceKnown ==
  ASSUME Inv, NEW u \in Upgrades, helper[u].at \in Active
  PROVE  /\ daemon.at \in Running \cup {"down", "pre", "main"} /\ daemon.at # "confirmed"
         /\ \A v \in Upgrades \ {u} : helper[v].at \in {"gone", "reporting"}
<1>1. /\ Open(u) /\ plan.task = u /\ helper[u].at # "gone"
      /\ \A v \in Upgrades \ {u} : helper[v].at \in {"gone", "reporting"}
  BY HelperWorks DEF Inv, Active, Working
<1>2. daemon.at \notin {"restored", "confirmed"}
  BY <1>1 DEF Inv, DaemonStands, Terminal, Open
<1>3. daemon.at \in DaemonAts
  BY DEF Inv, TypeOK, DaemonType
<1> QED  BY <1>1, <1>2, <1>3 DEF DaemonAts, Running

\* The daemon is stopped: what it leaves is evidence of a process that was ready,
\* and a confirmed stop is that of the process whose evidence was checked.
LEMMA Stopped ==
  ASSUME Inv, NEW u \in Upgrades, helper[u].at \in Active, NEW clean \in BOOLEAN, Stop(clean)
  PROVE  /\ DaemonType' /\ EvidenceType' /\ worker'.at = "idle" /\ WorkerType'
         /\ daemon'.at = "down" /\ daemon'.ack = 0 /\ daemon'.pid = daemon.pid /\ ~wanted'
         /\ UNCHANGED <<ready, proven>> /\ ProvenStands'
         /\ exit'.pid <= ready.pid
         /\ exit'.pid = daemon.pid => exit'.kind = "shutdown_failed" \/ settled'
<1> DEFINE kind == IF clean THEN "clean_shutdown" ELSE "shutdown_failed"
<1>1. /\ daemon.at \in Running \cup {"down", "pre", "main"}
      /\ daemon.pid \in Nat /\ exit.pid \in Nat /\ ready.pid \in Nat
      /\ daemon.version \in Versions
  BY ServiceKnown DEF Inv, TypeOK, DaemonType, EvidenceType
<1>2. /\ DaemonType' /\ daemon'.at = "down" /\ daemon'.ack = 0 /\ daemon'.pid = daemon.pid
      /\ ~wanted' /\ UNCHANGED <<ready, proven>>
  BY DEF Stop, Inv, TypeOK, DaemonType, DaemonAts
<1>3. worker'.at = "idle" /\ WorkerType'
  BY DEF Stop, WorkerType, WorkerAts, NoWorker
<1>4. kind \in {"clean_shutdown", "shutdown_failed"} /\ (kind = "shutdown_failed" \/ clean)
  OBVIOUS
<1>5. CASE daemon.at \in Running
  <2>1. PICK e : e = [pid |-> daemon.pid, version |-> daemon.version, kind |-> kind]
    OBVIOUS
  <2>2. exit' = e /\ (settled' <=> clean)
    BY <1>5, <2>1 DEF Stop, WasReady, MainProcess
  <2> HIDE DEF kind
  <2>3. /\ e.pid = daemon.pid /\ e.version = daemon.version /\ e.kind = kind
        /\ e \in [pid : Nat, version : Versions,
                  kind : {"none", "clean_shutdown", "shutdown_failed", "rejected"}]
    BY <1>1, <1>4, <2>1
  <2>4. daemon.pid = ready.pid /\ daemon.version \in proven
    BY <1>5 DEF Inv, EvidenceStands, ProvenStands
  <2>5. EvidenceType' /\ ProvenStands'
    BY <1>2, <2>2, <2>3, <2>4 DEF Inv, TypeOK, EvidenceType, ProvenStands, Running
  <2>6. exit'.pid <= ready.pid /\ (exit'.kind = "shutdown_failed" \/ settled')
    BY <1>1, <1>4, <2>2, <2>3, <2>4
  <2> QED  BY <1>2, <1>3, <2>5, <2>6
<1>6. CASE daemon.at \notin Running
  <2>1. exit' = exit
    BY <1>6 DEF Stop, WasReady
  <2>2. EvidenceType' /\ ProvenStands' /\ exit'.pid <= ready.pid
    BY <1>2, <2>1 DEF Inv, TypeOK, EvidenceType, ProvenStands, Running, EvidenceStands
  <2>3. CASE daemon.at = "main"
    <3>1. daemon.pid # exit'.pid
      BY <1>1, <2>1, <2>3 DEF Inv, EvidenceStands
    <3> QED  BY <1>2, <1>3, <2>2, <3>1
  <2>4. CASE daemon.at \in {"down", "pre"}
    <3>1. settled' = settled
      BY <1>6, <2>4 DEF Stop, MainProcess
    <3>2. exit'.pid = daemon.pid => exit'.kind = "shutdown_failed" \/ settled'
      BY <2>1, <2>4, <3>1 DEF Inv, EvidenceStands
    <3> QED  BY <1>2, <1>3, <2>2, <3>2
  <2> QED  BY <1>1, <1>6, <2>3, <2>4
<1> QED  BY <1>5, <1>6

LEMMA StoppedService ==
  ASSUME Inv, NEW u \in Upgrades, helper[u].at \in Active, NEW clean \in BOOLEAN, Stop(clean),
         UNCHANGED files, Others(u), helper'[u].at \in Active \ {"checked", "stopping"},
         helper'[u].at = "stopped" => settled'
  PROVE  DaemonStands' /\ ProvenStands' /\ EvidenceStands'
<1>1. /\ daemon'.at = "down" /\ daemon'.ack = 0 /\ daemon'.pid = daemon.pid /\ ~wanted'
      /\ UNCHANGED <<ready, proven>> /\ ProvenStands'
      /\ exit'.pid <= ready.pid
      /\ exit'.pid = daemon.pid => exit'.kind = "shutdown_failed" \/ settled'
  BY Stopped
<1>2. \A v \in Upgrades \ {u} : helper'[v].at \in {"gone", "reporting"}
  BY ServiceKnown DEF Others
<1>3. DaemonStands'
  BY <1>1 DEF DaemonStands, Running
<1>4. EvidenceStands'
  BY <1>1, <1>2 DEF EvidenceStands, Running
<1> QED  BY <1>1, <1>3, <1>4

LEMMA OldStopped ==
  ASSUME Inv, NEW u \in Upgrades, At(u, "stopping"), UNCHANGED <<panel, files>>,
         NEW clean \in BOOLEAN, Stop(clean),
         Move(u, IF ConfirmedStop(helper[u]) THEN "stopped" ELSE "rollback")
  PROVE  Inv'
<1>1. /\ helper[u].at = "stopping" /\ helper[u].at \in Active
      /\ UNCHANGED <<panel, journal, plan, installed>> /\ UNCHANGED files
  BY DEF At, Active, Working, files
<1>2. /\ Open(u) /\ plan.task = u /\ plan.phase # "completed" /\ plan.old \in Versions
      /\ helper[u] \in Helpers /\ HelperStands(helper[u], u) /\ PlanStands(helper[u])
      /\ helper[u].task = u /\ helper[u].old = plan.old
  BY <1>1, Serving
<1>4. /\ DaemonType' /\ EvidenceType' /\ worker'.at = "idle" /\ WorkerType'
      /\ UNCHANGED <<ready, proven>>
      /\ exit'.pid = daemon.pid => exit'.kind = "shutdown_failed" \/ settled'
  BY <1>1, Stopped
<1>5. PICK at : at = IF ConfirmedStop(helper[u]) THEN "stopped" ELSE "rollback"
  OBVIOUS
<1>6. at \in {"stopped", "rollback"} /\ Move(u, at)
  BY <1>5
<1>7. /\ HelperType' /\ Others(u) /\ SameRow(u) /\ helper'[u].at = at
      /\ helper'[u].back = helper[u].back /\ helper'[u].result = helper[u].result
  BY <1>6, Moved DEF Inv, HelperAts, Working
<1>8. at = "stopped" => settled'
  BY <1>4, <1>5 DEF ConfirmedStop
<1>9. TypeOK'
  BY <1>1, <1>2, <1>4, <1>6, <1>7, <1>8 DEF Inv, TypeOK, PanelType, FilesType
<1>10. HelperStands(helper[u], u)'
  BY <1>1, <1>2, <1>4, <1>6, <1>7, <1>8 DEF HelperStands, SameRow, Working, Open
<1>11. PlanStands(helper[u])'
  BY <1>1, <1>2, <1>4, <1>6, <1>7, <1>8 DEF PlanStands
<1>12. OneAtATime' /\ WorkerStands' /\ HelpersStand' /\ InstalledStands' /\ ResultTellsVersion'
  BY <1>1, <1>2, <1>4, <1>6, <1>7, <1>8, <1>9, <1>10, <1>11, HelperStepFiles
<1>13. DaemonStands' /\ ProvenStands' /\ EvidenceStands'
  <2>1. helper'[u].at \in Active \ {"checked", "stopping"}
    BY <1>1, <1>2, <1>4, <1>6, <1>7, <1>8 DEF Active, Working
  <2> QED  BY <1>1, <1>2, <1>4, <1>6, <1>7, <1>8, <2>1, StoppedService
<1> QED  BY <1>9, <1>12, <1>13 DEF Inv

LEMMA OldGoesOn ==
  ASSUME Inv, NEW u \in Upgrades, At(u, "stopping"),
         UNCHANGED <<panel, files, service, worker>>, Move(u, "rollback")
  PROVE  Inv'
<1>1. /\ helper[u].at = "stopping" /\ helper[u].at \in Active
      /\ UNCHANGED <<panel, journal, plan, installed, daemon, wanted, ready, exit, settled,
                     proven, worker>>
  BY DEF At, Active, Working, files, service, evidence
<1>2. /\ Open(u) /\ plan.task = u /\ plan.phase # "completed" /\ plan.old \in Versions
      /\ helper[u] \in Helpers /\ HelperStands(helper[u], u) /\ PlanStands(helper[u])
      /\ helper[u].at # "loading" => helper[u].task = u /\ helper[u].old = plan.old
  BY <1>1, Serving
<1>3. HelperType' /\ Others(u) /\ SameRow(u) /\ helper'[u].at = "rollback"
      /\ helper'[u].back = helper[u].back /\ helper'[u].result = helper[u].result
  BY Moved DEF Inv, HelperAts, Working
<1>4. TypeOK'
  BY <1>1, <1>2, <1>3 DEF Inv, TypeOK, PanelType, FilesType, DaemonType, EvidenceType, WorkerType
<1>5. HelperStands(helper[u], u)'
  BY <1>1, <1>2, <1>3 DEF HelperStands, SameRow, Working, Open
<1>6. PlanStands(helper[u])'
  BY <1>1, <1>2, <1>3 DEF PlanStands, HelperStands, SameRow, Working
<1>7. OneAtATime' /\ WorkerStands' /\ HelpersStand' /\ InstalledStands' /\ ResultTellsVersion'
  BY <1>1, <1>2, <1>3, <1>4, <1>5, <1>6, HelperStepFiles DEF HelperStands, Working
<1>8. DaemonStands' /\ ProvenStands' /\ EvidenceStands'
  BY <1>1, <1>2, <1>3, HelperStepService DEF Inv, DaemonStands, EvidenceStands, SameRow,
     Exchanging, HelperStands, Working
<1> QED  BY <1>4, <1>7, <1>8 DEF Inv

LEMMA StopOldKeeps == ASSUME Inv, NEW u \in Upgrades, StopOld(u) PROVE Inv'
<1>1. At(u, "stopping") /\ UNCHANGED <<panel, files>>
  BY DEF StopOld
<1>2. CASE /\ StopDaemon
           /\ Move(u, IF ConfirmedStop(helper[u]) THEN "stopped" ELSE "rollback")
  <2>1. PICK clean \in BOOLEAN : Stop(clean)
    BY <1>2 DEF StopDaemon
  <2> QED  BY <1>1, <1>2, <2>1, OldStopped
<1>3. CASE Move(u, "rollback") /\ UNCHANGED <<service, worker>>
  BY <1>1, <1>3, OldGoesOn
<1> QED  BY <1>2, <1>3 DEF StopOld

LEMMA StopNewKeeps ==
  ASSUME Mishaps \subseteq {"helper_killed"}, Inv, NEW u \in Upgrades, StopNew(u)
  PROVE  Inv'
<1>1. /\ helper[u].at = "undoing" /\ helper[u].at \in Active
      /\ UNCHANGED <<panel, journal, plan, installed>> /\ UNCHANGED files
  BY DEF StopNew, At, Active, Working, files
<1>2. /\ Open(u) /\ plan.task = u /\ plan.phase # "completed" /\ plan.old \in Versions
      /\ helper[u] \in Helpers /\ HelperStands(helper[u], u) /\ PlanStands(helper[u])
      /\ helper[u].task = u /\ helper[u].old = plan.old
  BY <1>1, Serving
<1>3. PICK clean \in BOOLEAN : Stop(clean)
  BY DEF StopNew, StopDaemon, Mishap
<1>4. /\ DaemonType' /\ EvidenceType' /\ worker'.at = "idle" /\ WorkerType'
      /\ UNCHANGED <<ready, proven>>
      /\ exit'.pid = daemon.pid => exit'.kind = "shutdown_failed" \/ settled'
  BY <1>1, <1>3, Stopped
<1>5. PICK row : row = [helper[u] EXCEPT !.at = "restoring", !.after = ready.pid]
  OBVIOUS
<1>6. /\ row \in Helpers
      /\ row.task = helper[u].task /\ row.old = helper[u].old
      /\ row.ready = helper[u].ready /\ row.at = "restoring" /\ row.back = helper[u].back
  BY <1>2, <1>5 DEF Helpers, HelperAts, Working, Inv, TypeOK, EvidenceType
<1>7. helper' = [helper EXCEPT ![u] = row]
  BY <1>5 DEF StopNew
<1>8. HelperType' /\ Others(u) /\ helper'[u] = row
  BY <1>6, <1>7, Rewritten DEF Inv
<1>9. TypeOK'
  BY <1>1, <1>2, <1>4, <1>6, <1>7, <1>8 DEF Inv, TypeOK, PanelType, FilesType
<1>10. HelperStands(helper[u], u)'
  BY <1>1, <1>2, <1>4, <1>6, <1>7, <1>8 DEF HelperStands, Working, Open
<1>11. PlanStands(helper[u])'
  BY <1>1, <1>2, <1>4, <1>6, <1>7, <1>8 DEF PlanStands
<1>12. OneAtATime' /\ WorkerStands' /\ HelpersStand' /\ InstalledStands' /\ ResultTellsVersion'
  BY <1>1, <1>2, <1>4, <1>6, <1>7, <1>8, <1>9, <1>10, <1>11, HelperStepFiles
<1>13. DaemonStands' /\ ProvenStands' /\ EvidenceStands'
  <2>1. helper'[u].at \in Active \ {"checked", "stopping"}
    BY <1>1, <1>2, <1>4, <1>6, <1>7, <1>8 DEF Active, Working
  <2> QED  BY <1>1, <1>2, <1>4, <1>6, <1>7, <1>8, <1>3, <2>1, StoppedService
<1> QED  BY <1>9, <1>12, <1>13 DEF Inv

-----------------------------------------------------------------------------
(***************************************************************************)
(* What steps leave of the files                                           *)
(***************************************************************************)
\* No upgrade enters the journal, and results stay.
Grown ==
    \A t \in Upgrades :
        /\ journal'[t].status = "none" <=> journal[t].status = "none"
        /\ Terminal(journal[t]) => Terminal(journal'[t])
        /\ journal'[t].status = "running" => Open(t)

HelpersKept == \A u \in Upgrades : helper'[u] = helper[u] \/ helper'[u].at = "gone"

LEMMA RowsUnchanged ==
  ASSUME TypeOK, OneAtATime, ResultTellsVersion, UNCHANGED installed,
         \A t \in Upgrades : /\ journal'[t].status = journal[t].status
                             /\ journal'[t].version = journal[t].version
  PROVE  /\ Grown /\ ResultTellsVersion' /\ (panel'.task = panel.task => OneAtATime')
         /\ \A t \in Upgrades : Open(t) => Open(t)'
<1>1. Grown /\ \A t \in Upgrades : Open(t) => Open(t)'
  BY DEF Grown, Terminal, Open
<1>2. panel'.task = panel.task => OneAtATime'
  BY DEF OneAtATime, Settled, Terminal
<1>3. ResultTellsVersion'
  <2> SUFFICES ASSUME NEW t \in Upgrades, journal'[t].status \in {"succeeded", "failed"},
                      \A u \in t + 1 .. LastUpgrade : journal'[u].status = "none"
               PROVE  installed' = journal'[t].version
    BY DEF ResultTellsVersion
  <2>1. \A u \in t + 1 .. LastUpgrade : u \in Upgrades
    BY UpgradeAssumption DEF Upgrades
  <2>2. \A u \in t + 1 .. LastUpgrade : journal[u].status = "none"
    BY <2>1
  <2> QED  BY <2>2 DEF ResultTellsVersion
<1> QED  BY <1>1, <1>2, <1>3

\* The result of the open upgrade is recorded with the version that is installed.
LEMMA ResultRecorded ==
  ASSUME TypeOK, OneAtATime, ResultTellsVersion, UNCHANGED installed, panel'.task = panel.task,
         NEW t \in Upgrades, Open(t) \/ Terminal(journal[t]), Terminal(journal'[t]),
         \A u \in Upgrades \ {t} : journal'[u] = journal[u],
         Terminal(journal[t]) => journal'[t] = journal[t],
         Open(t) => journal'[t].status = "rollback_failed" \/ journal'[t].version = installed
  PROVE  /\ Grown /\ OneAtATime' /\ ResultTellsVersion'
         /\ \A u \in Upgrades \ {t} : Open(u) => Open(u)'
<1>1. Grown /\ \A u \in Upgrades \ {t} : Open(u) => Open(u)'
  BY DEF Grown, Terminal, Open
<1>2. OneAtATime'
  BY <1>1 DEF OneAtATime, Settled, Grown
<1>3. CASE Terminal(journal[t])
  <2>1. \A u \in Upgrades : journal'[u].status = journal[u].status
                            /\ journal'[u].version = journal[u].version
    BY <1>3
  <2> QED  BY <1>1, <2>1, RowsUnchanged
<1>4. CASE Open(t)
  <2> SUFFICES ASSUME NEW u \in Upgrades, journal'[u].status \in {"succeeded", "failed"},
                      \A v \in u + 1 .. LastUpgrade : journal'[v].status = "none"
               PROVE  installed' = journal'[u].version
    BY <1>1, <1>2 DEF ResultTellsVersion
  <2>1. CASE u = t
    BY <1>4, <2>1
  <2>2. CASE u # t
    <3>1. u < t
      BY <1>4, <2>2, OnlyOne, Numbers
    <3>2. t \in u + 1 .. LastUpgrade
      BY <3>1, UpgradeAssumption DEF Upgrades
    <3> QED  BY <3>2 DEF Terminal
  <2> QED  BY <2>1, <2>2
<1> QED  BY <1>3, <1>4

\* Steps that save no plan and install nothing
LEMMA QuietFiles ==
  ASSUME Inv, Grown, UNCHANGED <<plan, installed>>, proven \subseteq proven', HelpersKept,
         \A u \in Upgrades : helper[u].at \in Active /\ helper'[u].at # "gone" => Open(u)'
  PROVE  HelpersStand' /\ InstalledStands'
<1>1. ASSUME NEW u \in Upgrades PROVE HelperStands(helper[u], u)'
  <2>1. HelperStands(helper[u], u)
    BY DEF Inv, HelpersStand
  <2>2. CASE helper'[u].at = "gone"
    BY <2>2 DEF HelperStands, Working
  <2>3. CASE helper'[u] = helper[u] /\ helper'[u].at # "gone"
    BY <2>1, <2>3 DEF HelperStands, Active, Grown
  <2> QED  BY <2>2, <2>3 DEF HelpersKept
<1>2. ASSUME NEW t \in Upgrades, Open(t)', HandedOver(plan, t)'
      PROVE  PlanStands(helper[t])'
  <2>1. PlanStands(helper[t])
    BY <1>2 DEF Inv, InstalledStands, Grown, Open, HandedOver
  <2>2. CASE helper'[t].at = "gone"
    BY <2>1, <2>2 DEF PlanStands
  <2>3. CASE helper'[t] = helper[t]
    BY <2>1, <2>3 DEF PlanStands
  <2> QED  BY <2>2, <2>3 DEF HelpersKept
<1>3. /\ installed' # 0 => journal'[installed'].status # "none"
      /\ plan'.task # 0 => journal'[plan'.task].status # "none"
  BY PlanFields, Numbers DEF Inv, InstalledStands, Grown, TypeOK, FilesType
<1>4. \A t \in Upgrades : Open(t)' /\ installed' = t => HandedOver(plan, t)'
  BY DEF Inv, InstalledStands, Grown, Open, HandedOver
<1> QED  BY <1>1, <1>2, <1>3, <1>4 DEF HelpersStand, InstalledStands

\* Steps that leave the worker alone or end its process
LEMMA QuietWorker ==
  ASSUME Inv, UNCHANGED plan, HelpersKept,
         worker' = worker \/ worker'.at = "idle",
         worker'.at # "idle" => daemon'.at \in {"up", "online"},
         worker'.at \in Busy => Open(worker.task)'
  PROVE  WorkerStands'
<1>1. worker.at # "idle" => worker.task \in Upgrades
  BY DEF Inv, TypeOK, WorkerType
<1> QED  BY <1>1 DEF Inv, WorkerStands, HelpersKept, Busy, HandedOver

\* The plan of an upgrade that has its result is saved.
LEMMA ClosedPlan ==
  ASSUME Inv, UNCHANGED <<panel, journal, installed, proven, worker>>,
         worker.at # "idle" => daemon'.at \in {"up", "online"},
         NEW t \in Upgrades, Terminal(journal[t]),
         plan' = plan \/ (plan'.task = t /\ plan.task \in {0, t}),
         \A u \in Upgrades :
            \/ helper'[u] = helper[u]
            \/ helper'[u].at = "gone" /\ helper[u].at \in {"decided", "reporting"}
            \/ /\ helper'[u].at = "reporting" /\ helper'[u].task = u
               /\ helper[u].at = "decided"
  PROVE  /\ OneAtATime' /\ WorkerStands' /\ HelpersStand' /\ InstalledStands'
         /\ ResultTellsVersion'
<1>1. OneAtATime' /\ ResultTellsVersion'
  BY RowsUnchanged DEF Inv
<1>2. ~Open(t)
  BY DEF Open, Terminal
<1>3. ASSUME NEW u \in Upgrades PROVE HelperStands(helper[u], u)'
  <2>1. HelperStands(helper[u], u)
    BY DEF Inv, HelpersStand
  <2>2. CASE helper'[u].at \in {"gone", "reporting"} /\ helper'[u] # helper[u]
    BY <2>1, <2>2 DEF HelperStands, Working
  <2>3. CASE helper'[u] = helper[u] /\ helper[u].at \in Active
    <3>1. plan.task = u /\ Open(u)
      BY <2>1, <2>3 DEF HelperStands, Active, Working
    <3>2. plan' = plan
      BY <1>2, <3>1, Numbers
    <3> QED  BY <2>1, <2>3, <3>2 DEF HelperStands, Open
  <2>4. CASE helper'[u] = helper[u] /\ helper[u].at \notin Active
    <3>1. helper[u].at = "decided" => plan'.task = u
      BY <2>1, Numbers DEF HelperStands
    <3> QED  BY <2>1, <2>4, <3>1 DEF HelperStands, Active, Working
  <2> QED  BY <2>2, <2>3, <2>4
<1>4. WorkerStands'
  <2>1. worker.at \in Busy => Open(worker.task) /\ worker.task \in Upgrades \ {t}
    BY <1>2 DEF Inv, WorkerStands, Busy, TypeOK, WorkerType
  <2>2. CASE worker.at = "handing"
    <3>1. plan.task = worker.task /\ plan' = plan
      BY <2>1, <2>2, Numbers DEF Inv, WorkerStands, Busy
    <3>2. helper'[worker.task].at = "gone"
      BY <2>1, <2>2 DEF Inv, WorkerStands, Busy
    <3> QED  BY <2>2, <3>1, <3>2 DEF Inv, WorkerStands, Open
  <2>3. CASE worker.at # "handing"
    BY <2>1, <2>3 DEF Inv, WorkerStands, Busy, Open, HandedOver
  <2> QED  BY <2>2, <2>3
<1>5. ASSUME NEW s \in Upgrades, Open(s)', HandedOver(plan, s)'
      PROVE  PlanStands(helper[s])'
  <2>1. s # t /\ Open(s)
    BY <1>2, <1>5 DEF Open
  <2>2. plan' = plan
    BY <1>5, <2>1 DEF HandedOver
  <2>3. PlanStands(helper[s])
    BY <1>5, <2>1, <2>2 DEF Inv, InstalledStands, HandedOver
  <2>4. helper[s].at \notin {"decided", "reporting"}
    BY <2>1 DEF Inv, HelpersStand, HelperStands, Open, Terminal
  <2>5. helper'[s] = helper[s]
    BY <2>4
  <2> QED  BY <2>2, <2>3, <2>5 DEF PlanStands
<1>6. ASSUME NEW s \in Upgrades, Open(s)', installed' = s
      PROVE  HandedOver(plan, s)'
  <2>1. s # t /\ HandedOver(plan, s)
    BY <1>2, <1>6 DEF Inv, InstalledStands, Open
  <2>2. plan' = plan
    BY <2>1, Numbers DEF HandedOver
  <2> QED  BY <2>1, <2>2 DEF HandedOver
<1>7. /\ installed' # 0 => journal'[installed'].status # "none"
      /\ plan'.task # 0 => journal'[plan'.task].status # "none"
  BY DEF Inv, InstalledStands, Terminal
<1> QED  BY <1>1, <1>3, <1>4, <1>5, <1>6, <1>7 DEF HelpersStand, InstalledStands

\* Steps that leave the daemon's process and its evidence alone
LEMMA QuietService ==
  ASSUME Inv, UNCHANGED <<daemon, wanted, ready, exit, settled, proven, installed>>,
         \A t \in Upgrades : Terminal(journal[t]) => Terminal(journal'[t]),
         daemon.at = "restored" =>
            plan' = plan /\ Open(plan.task)' /\ helper'[plan.task].at = "gone",
         daemon.at = "confirmed" => plan'.task = plan.task,
         \A u \in Upgrades : \/ helper'[u] = helper[u]
                             \/ helper'[u].at \in {"gone", "loading", "decided", "reporting"}
  PROVE  DaemonStands' /\ ProvenStands' /\ EvidenceStands'
<1>1. plan.task # 0 => plan.task \in Upgrades
  BY PlanFields DEF Inv
<1>2. daemon.ack # 0 => daemon.ack \in Upgrades
  BY DEF Inv, TypeOK, DaemonType
<1>3. ASSUME NEW u \in Upgrades, helper'[u].at \in Exchanging
      PROVE  daemon.at = "down" /\ ~wanted
  BY <1>3 DEF Inv, DaemonStands, Exchanging
<1>4. DaemonStands'
  <2>1. daemon.at \in Running \cup {"main"} => daemon.version = installed'
    BY DEF Inv, DaemonStands
  <2>2. daemon.at = "restored" =>
          /\ plan'.task # 0 /\ Open(plan.task)' /\ installed' = plan'.old
          /\ plan'.phase \notin {"completed", "local_healthy", "result_pending_ack"}
          /\ helper'[plan'.task].at = "gone"
    BY DEF Inv, DaemonStands, Open
  <2>3. daemon.at = "confirmed" => plan'.task # 0 /\ Terminal(journal'[plan'.task])
    BY <1>1 DEF Inv, DaemonStands
  <2>4. daemon.ack # 0 => daemon.at \in {"up", "online"} /\ Terminal(journal'[daemon.ack])
    BY <1>2 DEF Inv, DaemonStands
  <2> QED  BY <1>3, <2>1, <2>2, <2>3, <2>4 DEF DaemonStands, Exchanging
<1>5. ProvenStands'
  BY DEF Inv, ProvenStands
<1>6. EvidenceStands'
  BY DEF Inv, EvidenceStands
<1> QED  BY <1>4, <1>5, <1>6

\* While the worker prepares an upgrade, no helper is at work.
LEMMA WorkerPrepares ==
  ASSUME Inv, worker.at \in Busy
  PROVE  /\ worker.task \in Upgrades /\ Open(worker.task)
         /\ daemon.at \in {"up", "online"} /\ daemon.version = installed
         /\ \A u \in Upgrades : /\ helper[u].at \in {"gone", "decided", "reporting"}
                                /\ u # worker.task => ~Open(u)
<1>1. worker.task \in Upgrades /\ Open(worker.task) /\ daemon.at \in {"up", "online"}
  BY DEF Inv, WorkerStands, Busy, TypeOK, WorkerType
<1>2. daemon.version = installed
  BY <1>1 DEF Inv, DaemonStands, Running
<1>3. ASSUME NEW u \in Upgrades PROVE helper[u].at \in {"gone", "decided", "reporting"}
  <2>1. helper[u].at \notin Active
    BY HelperWorks DEF Inv
  <2>2. helper[u].at \in HelperAts
    BY DEF Inv, TypeOK, HelperType, Helpers
  <2> QED  BY <2>1, <2>2 DEF HelperAts, Active
<1>4. \A u \in Upgrades : u # worker.task => ~Open(u)
  BY <1>1, OnlyOne DEF Inv
<1> QED  BY <1>1, <1>2, <1>3, <1>4

-----------------------------------------------------------------------------
(***************************************************************************)
(* The panel and the worker                                                *)
(***************************************************************************)
LEMMA EnqueueKeeps == ASSUME Inv, NEW t \in Upgrades, Enqueue(t) PROVE Inv'
<1>1. UNCHANGED <<journal, plan, installed, daemon, wanted, ready, exit, settled, proven, worker,
                  helper>>
  BY DEF Enqueue, files, service, evidence
<1>2. /\ PanelType' /\ panel.task[t] = "none" /\ panel'.task[t] = "queued"
      /\ \A u \in Upgrades \ {t} : panel'.task[u] = panel.task[u]
  BY DEF Enqueue, Inv, TypeOK, PanelType, PanelTasks
<1>3. TypeOK'
  BY <1>1, <1>2 DEF Inv, TypeOK, FilesType, DaemonType, EvidenceType, WorkerType, HelperType
<1>4. OneAtATime'
  <2>1. \A u \in Upgrades : Settled(u)' <=> Settled(u)
    BY <1>2 DEF Settled
  <2>2. \A u \in Upgrades : u < t => Settled(u)
    BY Numbers, UpgradeAssumption DEF Enqueue, Upgrades
  <2>3. journal[t].status = "none"
    BY <1>2 DEF Inv, OneAtATime
  <2>4. ASSUME NEW u \in Upgrades
        PROVE  /\ panel'.task[u] \in {"none", "queued"} => journal'[u].status = "none"
               /\ Settled(u)' => Terminal(journal'[u])
               /\ panel'.task[u] # "none" => \A v \in Upgrades : v < u => Settled(v)'
    BY <1>1, <1>2, <2>1, <2>2, <2>3 DEF Inv, OneAtATime
  <2> QED  BY <2>4 DEF OneAtATime
<1>5. Grown /\ HelpersKept /\ \A u \in Upgrades : Open(u) => Open(u)'
  BY <1>1 DEF Grown, HelpersKept, Open
<1>6. HelpersStand' /\ InstalledStands'
  BY <1>1, <1>5, QuietFiles DEF Inv, HelpersStand, HelperStands, Active
<1>7. WorkerStands' /\ ResultTellsVersion'
  BY <1>1 DEF Inv, WorkerStands, ResultTellsVersion, Open, HandedOver
<1>8. DaemonStands' /\ ProvenStands' /\ EvidenceStands'
  BY <1>1, QuietService DEF Inv, DaemonStands, Open
<1> QED  BY <1>3, <1>4, <1>6, <1>7, <1>8 DEF Inv

\* A task that is taken is not that of any helper, and nothing else is open.
LEMMA TakeTaskKeeps == ASSUME Inv, NEW t \in Upgrades, TakeTask(t) PROVE Inv'
<1>1. /\ UNCHANGED <<plan, installed, daemon, wanted, ready, exit, settled, proven, helper>>
      /\ daemon.at = "online" /\ panel.task[t] \in {"queued", "accepted"}
  BY DEF TakeTask, service, evidence
<1>2. /\ PanelType' /\ panel'.task[t] = "accepted"
      /\ \A u \in Upgrades \ {t} : panel'.task[u] = panel.task[u]
  BY DEF TakeTask, Inv, TypeOK, PanelType, PanelTasks
<1>3. \A u \in Upgrades : Settled(u)' <=> Settled(u)
  BY <1>1, <1>2 DEF Settled
<1>4. CASE Terminal(journal[t]) \/ HandedOver(plan, t)
  <2>1. UNCHANGED <<journal, worker>>
    BY <1>4 DEF TakeTask
  <2>2. TypeOK'
    BY <1>1, <1>2, <2>1 DEF Inv, TypeOK, FilesType, DaemonType, EvidenceType, WorkerType,
       HelperType
  <2>3. OneAtATime'
    BY <1>1, <1>2, <1>3, <2>1 DEF Inv, OneAtATime
  <2>4. Grown /\ HelpersKept /\ \A u \in Upgrades : Open(u) => Open(u)'
    BY <1>1, <2>1 DEF Grown, HelpersKept, Open
  <2>5. HelpersStand' /\ InstalledStands'
    BY <1>1, <2>4, QuietFiles DEF Inv, HelpersStand, HelperStands, Active
  <2>6. WorkerStands' /\ ResultTellsVersion'
    BY <1>1, <2>1 DEF Inv, WorkerStands, ResultTellsVersion, Open, HandedOver
  <2>7. DaemonStands' /\ ProvenStands' /\ EvidenceStands'
    BY <1>1, <2>1, QuietService
  <2> QED  BY <2>2, <2>3, <2>5, <2>6, <2>7 DEF Inv
<1>5. CASE ~(Terminal(journal[t]) \/ HandedOver(plan, t))
  <2>1. /\ journal' = [journal EXCEPT ![t].status = "running"]
        /\ worker' = [at |-> "checking", task |-> t]
    BY <1>5 DEF TakeTask
  <2>2. PICK row : row = [journal[t] EXCEPT !.status = "running"]
    OBVIOUS
  <2>3. row \in Rows /\ row.status = "running"
    BY <2>2 DEF Inv, TypeOK, FilesType, Rows
  <2>4. journal' = [journal EXCEPT ![t] = row]
    BY <2>1, <2>2
  <2>5. /\ journal' \in [Upgrades -> Rows] /\ Open(t)' /\ ~Terminal(journal'[t])
        /\ \A u \in Upgrades \ {t} : journal'[u] = journal[u]
    BY <2>3, <2>4 DEF Inv, TypeOK, FilesType, Open, Terminal
  <2>6. TypeOK'
    BY <1>1, <1>2, <2>1, <2>5 DEF Inv, TypeOK, FilesType, DaemonType, EvidenceType, WorkerType,
       WorkerAts, HelperType
  <2>7. ~Settled(t)
    BY <1>5 DEF Inv, OneAtATime
  <2>8. \A u \in Upgrades : u < t => Terminal(journal[u])
    BY <1>1 DEF Inv, OneAtATime
  <2>9. \A u \in Upgrades : t < u => journal[u].status = "none"
    BY <2>7 DEF Inv, OneAtATime
  <2>10. \A u \in Upgrades \ {t} : ~Open(u)
    BY <2>8, <2>9, Numbers DEF Open, Terminal
  <2>11. OneAtATime'
    BY <1>1, <1>2, <1>3, <2>5, <2>7 DEF Inv, OneAtATime
  <2>12. \A u \in Upgrades : helper[u].at \notin Active
    BY <1>5, <2>10, HelperWorks DEF Inv
  <2>13. HelpersStand'
    <3>1. ASSUME NEW u \in Upgrades PROVE HelperStands(helper[u], u)'
      <4>1. HelperStands(helper[u], u) /\ helper[u].at \notin Active
        BY <2>12 DEF Inv, HelpersStand
      <4>2. helper[u].at \in {"decided", "reporting"} => Terminal(journal'[u])
        BY <1>5, <2>5, <4>1 DEF HelperStands
      <4> QED  BY <1>1, <4>1, <4>2 DEF HelperStands, Active, Working
    <3> QED  BY <3>1 DEF HelpersStand
  <2>14. WorkerStands'
    BY <1>1, <1>5, <2>1, <2>5 DEF WorkerStands, Open, HandedOver
  <2>15. InstalledStands'
    <3>1. installed # 0 => installed \in Upgrades
      BY Numbers DEF Inv, TypeOK, FilesType
    <3>2. plan.task # 0 => plan.task \in Upgrades
      BY PlanFields DEF Inv
    <3>3. \A u \in Upgrades : journal[u].status # "none" => journal'[u].status # "none"
      BY <2>5 DEF Open
    <3>4. installed # t
      BY <1>5, Numbers DEF Inv, InstalledStands, Open, Terminal
    <3>5. \A u \in Upgrades : Open(u)' => u = t
      BY <2>5, <2>10 DEF Open
    <3> QED  BY <1>1, <1>5, <3>1, <3>2, <3>3, <3>4, <3>5 DEF Inv, InstalledStands, HandedOver
  <2>16. ResultTellsVersion'
    <3> SUFFICES ASSUME NEW u \in Upgrades, journal'[u].status \in {"succeeded", "failed"},
                        \A v \in u + 1 .. LastUpgrade : journal'[v].status = "none"
                 PROVE  FALSE
      BY DEF ResultTellsVersion
    <3>1. u # t
      BY <2>5 DEF Open
    <3>2. u < t
      BY <2>5, <2>9, <3>1, Numbers
    <3>3. t \in u + 1 .. LastUpgrade
      BY <3>2, UpgradeAssumption DEF Upgrades
    <3> QED  BY <2>5, <3>3 DEF Open
  <2>17. DaemonStands' /\ ProvenStands' /\ EvidenceStands'
    BY <1>1, <1>5, <2>5, QuietService
  <2> QED  BY <2>6, <2>11, <2>13, <2>14, <2>15, <2>16, <2>17 DEF Inv
<1> QED  BY <1>4, <1>5

LEMMA VerifyKeeps == ASSUME Inv, Verify \/ HandedOff PROVE Inv'
<1>1. UNCHANGED <<panel, journal, plan, installed, daemon, wanted, ready, exit, settled, proven,
                  helper>>
  BY DEF Verify, HandedOff, files, service, evidence
<1>2. \/ worker.at = "checking" /\ worker'.at = "verified" /\ worker'.task = worker.task
      \/ worker'.at = "idle" /\ worker'.task = 0
  BY DEF Verify, HandedOff, NoWorker, Inv, TypeOK, WorkerType
<1>3. WorkerType'
  BY DEF Verify, HandedOff, NoWorker, Inv, TypeOK, WorkerType, WorkerAts
<1>4. TypeOK'
  BY <1>1, <1>3 DEF Inv, TypeOK, PanelType, FilesType, DaemonType, EvidenceType, HelperType
<1>5. Grown /\ HelpersKept /\ \A u \in Upgrades : Open(u) => Open(u)'
  BY <1>1 DEF Grown, HelpersKept, Open
<1>6. HelpersStand' /\ InstalledStands'
  BY <1>1, <1>5, QuietFiles DEF Inv, HelpersStand, HelperStands, Active
<1>7. OneAtATime' /\ ResultTellsVersion'
  BY <1>1, RowsUnchanged DEF Inv
<1>8. WorkerStands'
  BY <1>1, <1>2 DEF Inv, WorkerStands, Open, HandedOver
<1>9. DaemonStands' /\ ProvenStands' /\ EvidenceStands'
  BY <1>1, QuietService DEF Inv, DaemonStands, Open
<1> QED  BY <1>4, <1>6, <1>7, <1>8, <1>9 DEF Inv

LEMMA RefuseKeeps == ASSUME Inv, Refuse PROVE Inv'
<1>1. /\ UNCHANGED <<panel, plan, installed, daemon, wanted, ready, exit, settled, proven,
                     helper>>
      /\ worker.at \in Busy /\ worker'.at = "idle" /\ worker'.task = 0
  BY DEF Refuse, NoWorker, Busy, service, evidence
<1>2. /\ worker.task \in Upgrades /\ Open(worker.task) /\ daemon.at \in {"up", "online"}
      /\ daemon.version = installed /\ daemon.version \in Versions
      /\ \A u \in Upgrades : helper[u].at \notin Active
  BY <1>1, WorkerPrepares DEF Inv, TypeOK, DaemonType, Active, Working
<1>3. journal' = [journal EXCEPT ![worker.task] = Decided(@, "failed", daemon.version)]
  BY DEF Refuse
<1>4. /\ journal' \in [Upgrades -> Rows] /\ Terminal(journal'[worker.task])
      /\ \A u \in Upgrades \ {worker.task} : journal'[u] = journal[u]
      /\ Terminal(journal[worker.task]) => journal'[worker.task] = journal[worker.task]
      /\ ~Terminal(journal[worker.task]) => journal'[worker.task].version = daemon.version
  BY <1>2, <1>3, RecordedResult DEF Inv
<1>5. ~Terminal(journal[worker.task])
  BY <1>2 DEF Open, Terminal
<1>6. WorkerType'
  BY <1>1 DEF Refuse, NoWorker, WorkerType, WorkerAts
<1>7. TypeOK'
  BY <1>1, <1>4, <1>6 DEF Inv, TypeOK, PanelType, FilesType, DaemonType, EvidenceType, HelperType
<1>8. Grown /\ OneAtATime' /\ ResultTellsVersion'
  BY <1>1, <1>2, <1>4, <1>5, ResultRecorded DEF Inv
<1>9. HelpersStand' /\ InstalledStands'
  BY <1>1, <1>2, <1>8, QuietFiles DEF HelpersKept
<1>10. WorkerStands'
  BY <1>1 DEF WorkerStands
<1>11. DaemonStands' /\ ProvenStands' /\ EvidenceStands'
  BY <1>1, <1>2, <1>8, QuietService DEF Grown
<1> QED  BY <1>7, <1>8, <1>9, <1>10, <1>11 DEF Inv

\* The plan of a new upgrade: the running version is the installed one, and is older.
LEMMA SavePlanKeeps ==
  ASSUME Mishaps \subseteq {"helper_killed"}, Inv, SavePlan
  PROVE  Inv'
<1>1. /\ UNCHANGED <<panel, journal, installed, daemon, wanted, ready, exit, settled, proven,
                     helper>>
      /\ worker.at = "verified" /\ worker.at \in Busy
      /\ worker'.at = "handing" /\ worker'.task = worker.task
  BY DEF SavePlan, Busy, service, evidence, Inv, TypeOK, WorkerType
<1>2. /\ worker.task \in Upgrades /\ Open(worker.task)
      /\ daemon.at \in {"up", "online"} /\ daemon.version = installed
      /\ \A u \in Upgrades : /\ helper[u].at \in {"gone", "decided", "reporting"}
                             /\ u # worker.task => ~Open(u)
  BY <1>1, WorkerPrepares
<1>3. daemon.version \in Versions /\ installed \in Versions
  BY DEF Inv, TypeOK, DaemonType, FilesType
<1>4. plan' = Saved(plan, [task |-> worker.task, old |-> daemon.version, phase |-> "updater_ready"])
  BY DEF SavePlan, PlanOf
<1>5. /\ plan' \in Plans /\ plan'.task = worker.task /\ plan'.old = installed
      /\ plan'.phase = "updater_ready"
  BY <1>2, <1>3, <1>4, SavedPlan DEF Inv, Phases
<1>6. \A u \in Upgrades : helper[u].at \in {"gone", "reporting"}
  BY <1>2 DEF SavePlan, NoLateSave, Mishap
<1>7. helper[worker.task].at = "gone"
  BY <1>2, <1>6 DEF Inv, HelpersStand, HelperStands, Open, Terminal
<1>8. ~HandedOver(plan, worker.task)
  BY <1>1 DEF Inv, WorkerStands
<1>9. WorkerType'
  BY DEF SavePlan, Inv, TypeOK, WorkerType, WorkerAts
<1>10. TypeOK'
  BY <1>1, <1>5, <1>9 DEF Inv, TypeOK, PanelType, FilesType, DaemonType, EvidenceType, HelperType
<1>11. OneAtATime' /\ ResultTellsVersion'
  BY <1>1, RowsUnchanged DEF Inv
<1>12. WorkerStands'
  BY <1>1, <1>2, <1>5, <1>7 DEF WorkerStands, Open
<1>13. HelpersStand'
  <2>1. ASSUME NEW u \in Upgrades PROVE HelperStands(helper[u], u)'
    <3>1. HelperStands(helper[u], u) /\ helper[u].at \in {"gone", "reporting"}
      BY <1>6 DEF Inv, HelpersStand
    <3> QED  BY <1>1, <3>1 DEF HelperStands, Working
  <2> QED  BY <2>1 DEF HelpersStand
<1>14. installed < worker.task
  <2>1. installed # worker.task
    BY <1>2, <1>8 DEF Inv, InstalledStands
  <2>4. /\ worker.task \in Nat /\ 0 < worker.task
        /\ installed # 0 => installed \in Nat /\ installed \in Upgrades
    BY <1>2, <1>3, UpgradeAssumption DEF Upgrades, Versions
  <2>2. CASE installed = 0
    BY <2>2, <2>4
  <2>3. CASE installed # 0
    <3>1. installed \in Upgrades \ {worker.task} /\ journal[installed].status # "none"
      BY <2>1, <2>3, <2>4 DEF Inv, InstalledStands
    <3>2. ~(worker.task < installed)
      BY <1>2, <3>1, OnlyOne DEF Inv
    <3> QED  BY <2>1, <2>3, <2>4, <3>2
  <2> QED  BY <2>2, <2>3
<1>15. InstalledStands'
  <2>1. PlanStands(helper[worker.task])'
    BY <1>1, <1>2, <1>5, <1>7, <1>14 DEF PlanStands
  <2>2. \A u \in Upgrades : Open(u)' => u = worker.task
    BY <1>1, <1>2 DEF Open
  <2>3. installed' # worker.task
    BY <1>1, <1>3, <1>14, Numbers
  <2> QED  BY <1>1, <1>2, <1>5, <2>1, <2>2, <2>3 DEF Inv, InstalledStands, Open, HandedOver
<1>16. DaemonStands' /\ ProvenStands' /\ EvidenceStands'
  BY <1>1, <1>2, QuietService
<1> QED  BY <1>10, <1>11, <1>12, <1>13, <1>15, <1>16 DEF Inv

LEMMA HandOverKeeps == ASSUME Inv, HandOver PROVE Inv'
<1>1. /\ UNCHANGED <<panel, journal, plan, installed, daemon, wanted, ready, exit, settled,
                     proven>>
      /\ worker.at = "handing" /\ worker.at \in Busy
      /\ worker'.at = "handed" /\ worker'.task = worker.task
  BY DEF HandOver, Busy, files, service, evidence, Inv, TypeOK, WorkerType
<1>2. /\ worker.task \in Upgrades /\ Open(worker.task) /\ daemon.at \in {"up", "online"}
      /\ \A u \in Upgrades : helper[u].at \in {"gone", "decided", "reporting"}
  BY <1>1, WorkerPrepares
<1>3. /\ plan.task = worker.task /\ plan.phase = "updater_ready"
      /\ helper[worker.task].at = "gone"
  BY <1>1 DEF Inv, WorkerStands
<1>4. PICK row : row = [NoHelper EXCEPT !.at = "loading"]
  OBVIOUS
<1>5. row \in Helpers /\ row.at = "loading" /\ ~row.back
  BY <1>4, Numbers DEF NoHelper, Helpers, HelperAts, Working
<1>6. helper' = [helper EXCEPT ![worker.task] = row]
  BY <1>4 DEF HandOver
<1>7. HelperType' /\ Others(worker.task) /\ helper'[worker.task] = row
  BY <1>2, <1>5, <1>6, Rewritten DEF Inv
<1>8. WorkerType'
  BY DEF HandOver, Inv, TypeOK, WorkerType, WorkerAts
<1>9. TypeOK'
  BY <1>1, <1>7, <1>8 DEF Inv, TypeOK, PanelType, FilesType, DaemonType, EvidenceType
<1>10. OneAtATime' /\ ResultTellsVersion'
  BY <1>1, RowsUnchanged DEF Inv
<1>11. WorkerStands'
  BY <1>1, <1>2 DEF WorkerStands
<1>12. HelpersStand'
  <2>1. HelperStands(helper[worker.task], worker.task)'
    BY <1>1, <1>2, <1>3, <1>5, <1>7 DEF HelperStands, Working, Open
  <2>2. ASSUME NEW u \in Upgrades \ {worker.task} PROVE HelperStands(helper[u], u)'
    <3>1. HelperStands(helper[u], u) /\ helper'[u] = helper[u]
      BY <1>7 DEF Inv, HelpersStand, Others
    <3> QED  BY <1>1, <1>2, <3>1 DEF HelperStands, Working
  <2> QED  BY <1>1, <2>1, <2>2 DEF HelpersStand
<1>13. InstalledStands'
  <2>1. PlanStands(helper[worker.task])
    BY <1>2, <1>3 DEF Inv, InstalledStands, HandedOver
  <2>2. PlanStands(helper[worker.task])'
    BY <1>1, <1>3, <1>5, <1>7, <2>1 DEF PlanStands
  <2> QED  BY <1>1, <1>3, <2>2 DEF Inv, InstalledStands, Open, HandedOver
<1>14. DaemonStands' /\ ProvenStands' /\ EvidenceStands'
  BY <1>1, <1>2, <1>5, <1>7, QuietService DEF Others
<1> QED  BY <1>9, <1>10, <1>11, <1>12, <1>13, <1>14 DEF Inv

\* A call that fails leaves no helper: the plan of the upgrade is closed, and the old
\* version is still installed.
LEMMA HandOverFailsKeeps ==
  ASSUME Mishaps \subseteq {"helper_killed"}, Inv, HandOverFails
  PROVE  Inv'
<1>1. /\ UNCHANGED <<panel, journal, installed, daemon, wanted, ready, exit, settled, proven,
                     helper>>
      /\ worker.at = "handing" /\ worker.at \in Busy
      /\ worker'.at = "failing" /\ worker'.task = worker.task
  BY DEF HandOverFails, Mishap, Busy, service, evidence, Inv, TypeOK, WorkerType
<1>2. /\ worker.task \in Upgrades /\ Open(worker.task)
      /\ daemon.at \in {"up", "online"} /\ daemon.version = installed
      /\ \A u \in Upgrades : /\ helper[u].at \in {"gone", "decided", "reporting"}
                             /\ u # worker.task => ~Open(u)
  BY <1>1, WorkerPrepares
<1>3. /\ plan.task = worker.task /\ plan.phase = "updater_ready"
  BY <1>1 DEF Inv, WorkerStands
<1>4. daemon.version \in Versions
  BY DEF Inv, TypeOK, DaemonType
<1>5. plan' = Saved(plan, [task |-> worker.task, old |-> daemon.version, phase |-> "completed"])
  BY DEF HandOverFails, PlanOf
<1>6. plan' \in Plans /\ plan'.task = worker.task /\ plan'.phase = "completed"
  BY <1>2, <1>3, <1>4, <1>5, SavedPlan DEF Inv, Phases
<1>7. WorkerType'
  BY DEF HandOverFails, Inv, TypeOK, WorkerType, WorkerAts
<1>8. TypeOK'
  BY <1>1, <1>6, <1>7 DEF Inv, TypeOK, PanelType, FilesType, DaemonType, EvidenceType, HelperType
<1>9. OneAtATime' /\ ResultTellsVersion'
  BY <1>1, RowsUnchanged DEF Inv
<1>10. WorkerStands'
  BY <1>1, <1>2, <1>6 DEF WorkerStands, Open, HandedOver
<1>11. HelpersStand'
  <2>1. ASSUME NEW u \in Upgrades PROVE HelperStands(helper[u], u)'
    <3>1. HelperStands(helper[u], u) /\ helper[u].at \in {"gone", "decided", "reporting"}
      BY <1>2 DEF Inv, HelpersStand
    <3> QED  BY <1>1, <1>3, <1>6, <3>1 DEF HelperStands, Working
  <2> QED  BY <2>1 DEF HelpersStand
<1>12. InstalledStands'
  <2>1. PlanStands(helper[worker.task])
    BY <1>2, <1>3 DEF Inv, InstalledStands, HandedOver
  <2>2. installed # worker.task
    <3>1. installed = plan.old /\ plan.old < worker.task
      BY <1>3, <2>1 DEF PlanStands
    <3>2. worker.task \in Nat
      BY <1>2, Numbers
    <3> QED  BY <3>1, <3>2
  <2>3. \A u \in Upgrades : Open(u)' => u = worker.task
    BY <1>1, <1>2 DEF Open
  <2> QED  BY <1>1, <1>2, <1>6, <2>2, <2>3 DEF Inv, InstalledStands, Open, HandedOver
<1>13. DaemonStands' /\ ProvenStands' /\ EvidenceStands'
  BY <1>1, <1>2, QuietService
<1> QED  BY <1>8, <1>9, <1>10, <1>11, <1>12, <1>13 DEF Inv

-----------------------------------------------------------------------------
(***************************************************************************)
(* The daemon's unit and what happens around it                            *)
(***************************************************************************)
\* Steps that change no file
LEMMA QuietRest ==
  ASSUME Inv, UNCHANGED <<journal, plan, installed>>, panel'.task = panel.task,
         proven \subseteq proven', HelpersKept, worker' = worker \/ worker'.at = "idle",
         worker'.at # "idle" => daemon'.at \in {"up", "online"}
  PROVE  /\ OneAtATime' /\ WorkerStands' /\ HelpersStand' /\ InstalledStands'
         /\ ResultTellsVersion'
<1>1. /\ Grown /\ OneAtATime' /\ ResultTellsVersion'
      /\ \A t \in Upgrades : Open(t) => Open(t)'
  BY RowsUnchanged DEF Inv
<1>2. \A u \in Upgrades : helper[u].at \in Active => Open(u)
  BY HelperWorks DEF Inv
<1>3. HelpersStand' /\ InstalledStands'
  BY <1>1, <1>2, QuietFiles
<1>4. worker'.at \in Busy => Open(worker.task)'
  <2>1. SUFFICES ASSUME worker'.at \in Busy PROVE Open(worker.task)'
    OBVIOUS
  <2>2. worker' = worker /\ worker.at \in Busy
    BY <2>1 DEF Busy
  <2>3. Open(worker.task)
    BY <2>2, WorkerPrepares
  <2> QED  BY <2>2, <2>3 DEF Open
<1>5. WorkerStands'
  BY <1>4, QuietWorker
<1> QED  BY <1>1, <1>3, <1>5

\* The process of the daemon changes while no helper exchanges the binary.
LEMMA MovedDaemon ==
  ASSUME Inv, HelpersKept,
         daemon.at # "down" \/ wanted \/ \A u \in Upgrades : helper'[u].at = "gone",
         daemon'.at \in Running \cup {"main"} => daemon'.version = installed',
         daemon'.at # "restored",
         daemon'.at = "confirmed" => plan'.task # 0 /\ Terminal(journal'[plan'.task]),
         daemon'.ack # 0 => daemon'.at \in {"up", "online"} /\ Terminal(journal'[daemon'.ack])
  PROVE  DaemonStands'
<1>1. \A u \in Upgrades : helper'[u].at \notin Exchanging
  BY DEF Inv, DaemonStands, HelpersKept, Exchanging
<1> QED  BY <1>1 DEF DaemonStands, Exchanging

LEMMA HelperNumbers ==
  ASSUME Inv
  PROVE  /\ ready.pid \in Nat /\ exit.pid \in Nat /\ daemon.pid \in Nat
         /\ daemon.at \in DaemonAts /\ daemon.version \in Versions
         /\ \A u \in Upgrades : helper[u].ready \in Nat
BY DEF Inv, TypeOK, DaemonType, EvidenceType, HelperType, Helpers

\* A process that ends without leaving evidence
LEMMA ProcessEnds ==
  ASSUME Inv, HelpersKept, daemon'.at = "down", daemon'.pid = daemon.pid,
         UNCHANGED <<ready, exit, settled, proven>>
  PROVE  ProvenStands' /\ EvidenceStands'
<1>1. ProvenStands'
  BY DEF Inv, ProvenStands, Running
<1>2. daemon.at \in Running \cup {"main"} => exit.pid # daemon.pid
  BY HelperNumbers DEF Inv, EvidenceStands
<1>3. exit.pid = daemon.pid => exit.kind = "shutdown_failed" \/ settled
  BY <1>2, HelperNumbers DEF Inv, EvidenceStands, DaemonAts
<1>4. ASSUME NEW u \in Upgrades
      PROVE  /\ helper'[u].at \in {"checked", "stopping"} => helper'[u].ready <= ready'.pid
             /\ helper'[u].at = "stopped" => settled'
  BY DEF Inv, EvidenceStands, HelpersKept
<1>5. EvidenceStands'
  BY <1>3, <1>4 DEF Inv, EvidenceStands, Running
<1> QED  BY <1>1, <1>5

LEMMA ProcessGoesOn ==
  ASSUME Inv, HelpersKept, daemon'.pid = daemon.pid, daemon'.version = daemon.version,
         \/ daemon'.at = daemon.at
         \/ daemon.at \in Running /\ daemon'.at \in Running
         \/ daemon.at = "down" /\ daemon'.at = "pre",
         UNCHANGED <<ready, exit, settled, proven>>
  PROVE  ProvenStands' /\ EvidenceStands'
<1>1. ProvenStands'
  BY DEF Inv, ProvenStands, Running
<1>2. ASSUME NEW u \in Upgrades
      PROVE  /\ helper'[u].at \in {"checked", "stopping"} => helper'[u].ready <= ready'.pid
             /\ helper'[u].at = "stopped" => settled'
  BY DEF Inv, EvidenceStands, HelpersKept
<1>3. EvidenceStands'
  BY <1>2 DEF Inv, EvidenceStands, Running
<1> QED  BY <1>1, <1>3

\* The daemon is executed: what it leaves will have a number of its own.
LEMMA Executes ==
  ASSUME Inv, HelpersKept, daemon.at \in {"pre", "restored"}, daemon' = Executed,
         UNCHANGED <<installed, ready, exit, proven>>
  PROVE  /\ DaemonType' /\ daemon'.at = "main" /\ daemon'.version = installed /\ daemon'.ack = 0
         /\ DaemonStands' /\ ProvenStands' /\ EvidenceStands'
<1>1. ready.pid \in Nat /\ installed \in Versions
  BY DEF Inv, TypeOK, EvidenceType, FilesType
<1>2. /\ DaemonType' /\ daemon'.at = "main" /\ daemon'.version = installed /\ daemon'.ack = 0
      /\ daemon'.pid = ready.pid + 1
  BY <1>1 DEF Executed, DaemonType, DaemonAts
<1>3. DaemonStands'
  BY <1>2, MovedDaemon
<1>4. ProvenStands'
  BY <1>2 DEF Inv, ProvenStands, Running
<1>5. ASSUME NEW u \in Upgrades
      PROVE  /\ helper'[u].at \in {"checked", "stopping"} => helper'[u].ready <= ready'.pid
             /\ helper'[u].at # "stopped"
  BY DEF Inv, EvidenceStands, HelpersKept, DaemonStands
<1>6. EvidenceStands'
  BY <1>2, <1>5 DEF Inv, EvidenceStands, Running
<1> QED  BY <1>2, <1>3, <1>4, <1>6

LEMMA UndecidedPlan ==
  ASSUME Inv, Undecided
  PROVE  /\ plan.task \in Upgrades /\ Open(plan.task) /\ plan.phase # "completed"
         /\ PlanStands(helper[plan.task]) /\ helper[plan.task].at = "gone"
         /\ \A u \in Upgrades : helper[u].at \notin Active
<1>1. plan.task \in Upgrades /\ plan.phase # "completed"
  BY PlanFields DEF Undecided, Inv
<1>2. Open(plan.task)
  BY <1>1, Numbers DEF Undecided, Inv, InstalledStands, Terminal, Open
<1>3. helper[plan.task].at = "gone"
  BY DEF Undecided, HelperActive
<1>4. PlanStands(helper[plan.task])
  BY <1>1, <1>2 DEF Inv, InstalledStands, HandedOver
<1>5. \A u \in Upgrades : helper[u].at \notin Active
  BY <1>3, HelperWorks DEF Inv, Active, Working
<1> QED  BY <1>1, <1>2, <1>3, <1>4, <1>5

LEMMA StartUnitKeeps == ASSUME Inv, StartUnit PROVE Inv'
<1>1. /\ UNCHANGED <<panel, journal, plan, installed, wanted, ready, exit, settled, proven,
                     worker, helper>>
      /\ wanted /\ daemon.at = "down"
  BY DEF StartUnit, files, evidence
<1>2. /\ DaemonType' /\ daemon'.at = "pre" /\ daemon'.pid = daemon.pid
      /\ daemon'.version = daemon.version /\ daemon'.ack = daemon.ack
  BY DEF StartUnit, Inv, TypeOK, DaemonType, DaemonAts
<1>3. TypeOK'
  BY <1>1, <1>2 DEF Inv, TypeOK, PanelType, FilesType, EvidenceType, WorkerType, HelperType
<1>4. HelpersKept /\ worker.at = "idle" /\ daemon.ack = 0
  BY <1>1 DEF HelpersKept, Inv, WorkerStands, DaemonStands
<1>5. OneAtATime' /\ WorkerStands' /\ HelpersStand' /\ InstalledStands' /\ ResultTellsVersion'
  BY <1>1, <1>4, QuietRest
<1>6. DaemonStands'
  BY <1>1, <1>2, <1>4, MovedDaemon DEF Running
<1>7. ProvenStands' /\ EvidenceStands'
  BY <1>1, <1>2, <1>4, ProcessGoesOn
<1> QED  BY <1>3, <1>5, <1>6, <1>7 DEF Inv

LEMMA ProceedKeeps == ASSUME Inv, Proceed PROVE Inv'
<1>1. /\ UNCHANGED <<panel, plan, installed, wanted, ready, exit, proven, worker, helper>>
      /\ daemon.at = "pre" /\ daemon' = Executed
  BY DEF Proceed
<1>2. HelpersKept /\ worker.at = "idle"
  BY <1>1 DEF HelpersKept, Inv, WorkerStands
<1>3. DaemonType' /\ DaemonStands' /\ ProvenStands' /\ EvidenceStands'
  BY <1>1, <1>2, Executes
<1>4. CASE UNCHANGED journal
  <2>1. TypeOK'
    BY <1>1, <1>3, <1>4 DEF Inv, TypeOK, PanelType, FilesType, EvidenceType, WorkerType,
       HelperType
  <2>2. OneAtATime' /\ WorkerStands' /\ HelpersStand' /\ InstalledStands' /\ ResultTellsVersion'
    BY <1>1, <1>2, <1>4, QuietRest
  <2> QED  BY <1>3, <2>1, <2>2 DEF Inv
<1>5. CASE /\ Undecided /\ LocallyConfirmed
           /\ journal' = [journal EXCEPT ![plan.task] = Decided(@, "succeeded", plan.task)]
  <2>1. /\ plan.task \in Upgrades /\ Open(plan.task) /\ installed = plan.task
        /\ \A u \in Upgrades : helper[u].at \notin Active
    BY <1>5, UndecidedPlan DEF LocallyConfirmed, PlanStands
  <2>2. plan.task \in Versions /\ ~Terminal(journal[plan.task])
    BY <2>1, Numbers DEF Open, Terminal
  <2>3. /\ journal' \in [Upgrades -> Rows] /\ Terminal(journal'[plan.task])
        /\ \A u \in Upgrades \ {plan.task} : journal'[u] = journal[u]
        /\ journal'[plan.task].version = plan.task
    BY <1>5, <2>1, <2>2, RecordedResult DEF Inv
  <2>4. TypeOK'
    BY <1>1, <1>3, <2>3 DEF Inv, TypeOK, PanelType, FilesType, EvidenceType, WorkerType,
       HelperType
  <2>5. Grown /\ OneAtATime' /\ ResultTellsVersion'
    BY <1>1, <2>1, <2>2, <2>3, ResultRecorded DEF Inv
  <2>6. HelpersStand' /\ InstalledStands'
    BY <1>1, <1>2, <2>1, <2>5, QuietFiles
  <2>7. WorkerStands'
    BY <1>1, <1>2 DEF WorkerStands
  <2> QED  BY <1>3, <2>4, <2>5, <2>6, <2>7 DEF Inv
<1> QED  BY <1>4, <1>5 DEF Proceed

\* The old binary is put back: no later upgrade is open, and the old version's own
\* upgrade has its result.
LEMMA RestoreBackupKeeps == ASSUME Inv, RestoreBackup PROVE Inv'
<1>1. /\ UNCHANGED <<panel, journal, plan, wanted, ready, exit, settled, proven, worker, helper>>
      /\ daemon.at = "pre" /\ Undecided /\ ~LocallyConfirmed /\ installed' = plan.old
  BY DEF RestoreBackup, evidence
<1>2. /\ plan.task \in Upgrades /\ Open(plan.task) /\ plan.phase # "completed"
      /\ PlanStands(helper[plan.task]) /\ helper[plan.task].at = "gone"
      /\ \A u \in Upgrades : helper[u].at \notin Active
  BY <1>1, UndecidedPlan
<1>3. /\ plan.old \in Versions /\ plan.old < plan.task
      /\ plan.task \in Nat /\ plan.old \in {0} \cup Upgrades
  <2>1. plan.old \in Versions /\ plan.old < plan.task
    BY <1>2, PlanFields DEF Inv, PlanStands
  <2> QED  BY <1>2, <2>1, Numbers
<1>4. /\ DaemonType' /\ daemon'.at = "restored" /\ daemon'.pid = daemon.pid
      /\ daemon'.version = daemon.version /\ daemon'.ack = daemon.ack
  BY DEF RestoreBackup, Inv, TypeOK, DaemonType, DaemonAts
<1>5. TypeOK'
  BY <1>1, <1>3, <1>4 DEF Inv, TypeOK, PanelType, FilesType, EvidenceType, WorkerType, HelperType
<1>6. OneAtATime'
  BY <1>1, RowsUnchanged DEF Inv, OneAtATime, Settled
<1>7. ResultTellsVersion'
  BY <1>1, <1>2, OpenHidesResults DEF Inv, ResultTellsVersion
<1>8. WorkerStands'
  BY <1>1 DEF Inv, WorkerStands
<1>9. HelpersStand'
  BY <1>1 DEF Inv, HelpersStand, HelperStands, Open
<1>10. InstalledStands'
  <2>1. plan.old # plan.task
    BY <1>3
  <2>2. plan.old # 0 => Terminal(journal[plan.old])
    <3>1. SUFFICES ASSUME plan.old # 0 PROVE Terminal(journal[plan.old])
      OBVIOUS
    <3>2. plan.old \in Upgrades \ {plan.task}
      BY <1>3, <2>1, <3>1
    <3> QED  BY <1>2, <1>3, <3>2, OnlyOne DEF Inv
  <2>3. \A u \in Upgrades : Open(u) => u = plan.task
    BY <1>2, OnlyOne DEF Inv
  <2>4. PlanStands(helper[plan.task])'
    BY <1>1, <1>2, <1>3 DEF PlanStands, LocallyConfirmed
  <2>5. \A t \in Upgrades : Open(t)' /\ installed' = t => HandedOver(plan, t)'
    BY <1>1, <2>1, <2>3 DEF Open
  <2>6. \A t \in Upgrades : Open(t)' /\ HandedOver(plan, t)' => PlanStands(helper[t])'
    BY <1>1, <2>4 DEF Open, HandedOver
  <2> QED  BY <1>1, <1>2, <2>2, <2>5, <2>6 DEF InstalledStands, Open, Terminal
<1>11. \A u \in Upgrades : helper[u].at \notin Exchanging
  BY <1>2 DEF Active, Working, Exchanging
<1>12. DaemonStands'
  <2>1. daemon.ack = 0
    BY <1>1 DEF Inv, DaemonStands
  <2>2. /\ plan.task # 0 /\ Open(plan.task)' /\ installed' = plan'.old
        /\ plan'.phase \notin {"completed", "local_healthy", "result_pending_ack"}
        /\ helper'[plan.task].at = "gone"
    BY <1>1, <1>2, Numbers DEF Open, LocallyConfirmed
  <2> QED  BY <1>1, <1>4, <1>11, <2>1, <2>2 DEF DaemonStands, Running, Exchanging
<1>13. ProvenStands'
  BY <1>1, <1>4 DEF Inv, ProvenStands, Running
<1>14. EvidenceStands'
  BY <1>1, <1>4 DEF Inv, EvidenceStands, Running
<1> QED  BY <1>5, <1>6, <1>7, <1>8, <1>9, <1>10, <1>12, <1>13, <1>14 DEF Inv

LEMMA SaveRestoredKeeps == ASSUME Inv, SaveRestored PROVE Inv'
<1>1. /\ UNCHANGED <<panel, journal, installed, wanted, ready, exit, proven, worker, helper>>
      /\ daemon.at = "restored" /\ daemon' = Executed
      /\ plan' = Saved(plan, [plan EXCEPT !.phase = "restored_pending_health"])
  BY DEF SaveRestored
<1>2. /\ plan.task # 0 /\ Open(plan.task) /\ installed = plan.old /\ plan.phase # "completed"
      /\ helper[plan.task].at = "gone"
  BY <1>1 DEF Inv, DaemonStands
<1>3. plan.task \in Upgrades
  BY <1>2, PlanFields DEF Inv
<1>4. /\ plan' \in Plans /\ plan'.task = plan.task /\ plan'.old = plan.old
      /\ plan'.phase = "restored_pending_health"
  BY <1>1, <1>2, <1>3, AdvancedPlan DEF Inv, Phases
<1>5. \A u \in Upgrades : helper[u].at \notin Active
  BY <1>2, HelperWorks DEF Inv, Active, Working
<1>6. HelpersKept /\ worker.at = "idle"
  BY <1>1 DEF HelpersKept, Inv, WorkerStands
<1>7. DaemonType' /\ DaemonStands' /\ ProvenStands' /\ EvidenceStands'
  BY <1>1, <1>6, Executes
<1>8. TypeOK'
  BY <1>1, <1>4, <1>7 DEF Inv, TypeOK, PanelType, FilesType, EvidenceType, WorkerType, HelperType
<1>9. OneAtATime' /\ ResultTellsVersion'
  BY <1>1, RowsUnchanged DEF Inv
<1>10. WorkerStands'
  BY <1>1, <1>6 DEF WorkerStands
<1>11. HelpersStand'
  <2>1. ASSUME NEW u \in Upgrades PROVE HelperStands(helper[u], u)'
    <3>1. HelperStands(helper[u], u) /\ helper[u].at \notin Active
      BY <1>5 DEF Inv, HelpersStand
    <3> QED  BY <1>1, <1>4, <3>1 DEF HelperStands, Active, Working
  <2> QED  BY <2>1 DEF HelpersStand
<1>12. InstalledStands'
  <2>1. PlanStands(helper[plan.task])
    BY <1>2, <1>3 DEF Inv, InstalledStands, HandedOver
  <2>2. \A u \in Upgrades : Open(u) => u = plan.task
    BY <1>2, <1>3, OnlyOne DEF Inv
  <2>3. PlanStands(helper[plan.task])'
    BY <1>1, <1>2, <1>4, <2>1 DEF PlanStands
  <2> QED  BY <1>1, <1>2, <1>3, <1>4, <2>2, <2>3 DEF Inv, InstalledStands, Open, HandedOver
<1> QED  BY <1>7, <1>8, <1>9, <1>10, <1>11, <1>12 DEF Inv

LEMMA BecomeReadyKeeps == ASSUME Inv, BecomeReady PROVE Inv'
<1>1. /\ UNCHANGED <<panel, journal, plan, installed, wanted, exit, settled, worker, helper>>
      /\ daemon.at = "main" /\ proven' = proven \cup {daemon.version}
      /\ ready' = [pid |-> daemon.pid, version |-> daemon.version]
  BY DEF BecomeReady, files
<1>2. /\ DaemonType' /\ daemon'.at = "ready" /\ daemon'.pid = daemon.pid
      /\ daemon'.version = daemon.version /\ daemon'.ack = daemon.ack
  BY DEF BecomeReady, Inv, TypeOK, DaemonType, DaemonAts, Running
<1>3. EvidenceType'
  BY <1>1 DEF Inv, TypeOK, EvidenceType, DaemonType
<1>4. TypeOK'
  BY <1>1, <1>2, <1>3 DEF Inv, TypeOK, PanelType, FilesType, WorkerType, HelperType
<1>5. HelpersKept /\ worker.at = "idle" /\ daemon.ack = 0 /\ daemon.version = installed
  BY <1>1 DEF HelpersKept, Inv, WorkerStands, DaemonStands
<1>6. OneAtATime' /\ WorkerStands' /\ HelpersStand' /\ InstalledStands' /\ ResultTellsVersion'
  BY <1>1, <1>5, QuietRest
<1>7. DaemonStands'
  BY <1>1, <1>2, <1>5, MovedDaemon
<1>8. ProvenStands'
  BY <1>1, <1>2 DEF Inv, ProvenStands
<1>9. /\ daemon.pid = ready.pid + 1 /\ exit.pid < ready'.pid /\ ready'.pid = daemon'.pid
      /\ \A u \in Upgrades : helper[u].at \in {"checked", "stopping"} => helper[u].ready <= ready'.pid
  BY <1>1, <1>2, HelperNumbers DEF Inv, EvidenceStands
<1>10. EvidenceStands'
  BY <1>1, <1>2, <1>9, HelperNumbers DEF Inv, EvidenceStands, Running
<1> QED  BY <1>4, <1>6, <1>7, <1>8, <1>10 DEF Inv

LEMMA StartupFailsKeeps == ASSUME Inv, StartupFails PROVE Inv'
<1>1. /\ UNCHANGED <<panel, journal, plan, installed, wanted, ready, exit, settled, proven,
                     helper>>
      /\ daemon.at = "main" /\ (worker' = worker \/ worker' = NoWorker)
  BY DEF StartupFails, files, evidence
<1>2. /\ DaemonType' /\ daemon'.at = "down" /\ daemon'.pid = daemon.pid
      /\ daemon'.version = daemon.version /\ daemon'.ack \in {0, daemon.ack}
  BY DEF StartupFails, Inv, TypeOK, DaemonType, DaemonAts
<1>3. WorkerType' /\ worker'.at = "idle" /\ daemon'.ack = 0
  BY <1>1, <1>2 DEF StartupFails, NoWorker, Inv, TypeOK, WorkerType, WorkerAts, WorkerStands,
     DaemonStands
<1>4. TypeOK'
  BY <1>1, <1>2, <1>3 DEF Inv, TypeOK, PanelType, FilesType, EvidenceType, HelperType
<1>5. HelpersKept
  BY <1>1 DEF HelpersKept
<1>6. OneAtATime' /\ WorkerStands' /\ HelpersStand' /\ InstalledStands' /\ ResultTellsVersion'
  BY <1>1, <1>3, <1>5, QuietRest
<1>7. DaemonStands'
  BY <1>1, <1>2, <1>3, <1>5, MovedDaemon DEF Running
<1>8. ProvenStands' /\ EvidenceStands'
  BY <1>1, <1>2, <1>5, ProcessEnds
<1> QED  BY <1>4, <1>6, <1>7, <1>8 DEF Inv

LEMMA CrashKeeps == ASSUME Inv, Crash PROVE Inv'
<1>1. /\ UNCHANGED <<panel, journal, plan, installed, wanted, ready, exit, settled, proven,
                     helper>>
      /\ daemon.at # "down" /\ (worker' = worker \/ worker' = NoWorker)
  BY DEF Crash, files, evidence
<1>2. /\ DaemonType' /\ daemon'.at = "down" /\ daemon'.pid = daemon.pid
      /\ daemon'.version = daemon.version /\ daemon'.ack \in {0, daemon.ack}
  BY DEF Crash, Inv, TypeOK, DaemonType, DaemonAts
<1>3. WorkerType' /\ worker'.at = "idle" /\ daemon'.ack = 0
  BY <1>1, <1>2 DEF Crash, NoWorker, Inv, TypeOK, WorkerType, WorkerAts, WorkerStands,
     DaemonStands
<1>4. TypeOK'
  BY <1>1, <1>2, <1>3 DEF Inv, TypeOK, PanelType, FilesType, EvidenceType, HelperType
<1>5. HelpersKept
  BY <1>1 DEF HelpersKept
<1>6. OneAtATime' /\ WorkerStands' /\ HelpersStand' /\ InstalledStands' /\ ResultTellsVersion'
  BY <1>1, <1>3, <1>5, QuietRest
<1>7. DaemonStands'
  BY <1>1, <1>2, <1>3, <1>5, MovedDaemon DEF Running
<1>8. ProvenStands' /\ EvidenceStands'
  BY <1>1, <1>2, <1>5, ProcessEnds
<1> QED  BY <1>4, <1>6, <1>7, <1>8 DEF Inv

LEMMA RebootKeeps == ASSUME Inv, Reboot PROVE Inv'
<1>1. /\ UNCHANGED <<panel, journal, plan, installed, ready, exit, settled, proven>>
      /\ worker' = NoWorker /\ helper' = [t \in Upgrades |-> NoHelper]
  BY DEF Reboot, files
<1>2. /\ DaemonType' /\ daemon'.at = "down" /\ daemon'.pid = daemon.pid
      /\ daemon'.version = daemon.version /\ daemon'.ack = 0
  BY DEF Reboot, Inv, TypeOK, DaemonType, DaemonAts
<1>3. WorkerType' /\ worker'.at = "idle"
  BY <1>1 DEF NoWorker, WorkerType, WorkerAts
<1>4. HelperType' /\ \A u \in Upgrades : helper'[u].at = "gone"
  BY <1>1, NoHelperType DEF HelperType
<1>5. TypeOK'
  BY <1>1, <1>2, <1>3, <1>4 DEF Inv, TypeOK, PanelType, FilesType, EvidenceType
<1>6. HelpersKept
  BY <1>4 DEF HelpersKept
<1>7. OneAtATime' /\ WorkerStands' /\ HelpersStand' /\ InstalledStands' /\ ResultTellsVersion'
  BY <1>1, <1>3, <1>6, QuietRest
<1>8. DaemonStands'
  BY <1>2, <1>4, <1>6, MovedDaemon DEF Running
<1>9. ProvenStands' /\ EvidenceStands'
  BY <1>1, <1>2, <1>6, ProcessEnds
<1> QED  BY <1>5, <1>7, <1>8, <1>9 DEF Inv

LEMMA RejectedKeeps == ASSUME Inv, Rejected PROVE Inv'
<1>1. /\ UNCHANGED <<panel, journal, plan, installed, wanted, ready, proven, helper>>
      /\ daemon.at \in Running /\ worker' = NoWorker /\ settled'
      /\ exit' = [pid |-> daemon.pid, version |-> daemon.version, kind |-> "rejected"]
  BY DEF Rejected, files, Running
<1>2. /\ DaemonType' /\ daemon'.at = "down" /\ daemon'.pid = daemon.pid /\ daemon'.ack = 0
  BY DEF Rejected, Inv, TypeOK, DaemonType, DaemonAts
<1>3. WorkerType' /\ worker'.at = "idle"
  BY <1>1 DEF NoWorker, WorkerType, WorkerAts
<1>4. EvidenceType' /\ exit'.pid = daemon.pid /\ exit'.version = daemon.version
  BY <1>1 DEF Inv, TypeOK, EvidenceType, DaemonType
<1>5. TypeOK'
  BY <1>1, <1>2, <1>3, <1>4 DEF Inv, TypeOK, PanelType, FilesType, HelperType
<1>6. HelpersKept /\ daemon.at # "down"
  BY <1>1 DEF HelpersKept, Running
<1>7. OneAtATime' /\ WorkerStands' /\ HelpersStand' /\ InstalledStands' /\ ResultTellsVersion'
  BY <1>1, <1>3, <1>6, QuietRest
<1>8. DaemonStands'
  BY <1>1, <1>2, <1>6, MovedDaemon DEF Running
<1>9. daemon.pid = ready.pid /\ daemon.version \in proven
  BY <1>1 DEF Inv, EvidenceStands, ProvenStands
<1>10. ProvenStands'
  BY <1>1, <1>2, <1>4, <1>9 DEF Inv, ProvenStands, Running
<1>11. EvidenceStands'
  BY <1>1, <1>2, <1>4, <1>9, HelperNumbers DEF Inv, EvidenceStands, Running
<1> QED  BY <1>5, <1>7, <1>8, <1>10, <1>11 DEF Inv

LEMMA SessionKeeps == ASSUME Inv, Connect \/ LoseSession PROVE Inv'
<1>1. /\ UNCHANGED <<journal, plan, installed, wanted, ready, exit, settled, proven, worker,
                     helper>>
      /\ daemon.at \in {"up", "online"}
  BY DEF Connect, LoseSession, files, evidence
<1>2. PanelType' /\ panel'.task = panel.task
  BY DEF Connect, LoseSession, Inv, TypeOK, PanelType, DaemonType
<1>3. /\ DaemonType' /\ daemon'.at \in {"up", "online"} /\ daemon'.pid = daemon.pid
      /\ daemon'.version = daemon.version /\ daemon'.ack = daemon.ack
  BY DEF Connect, LoseSession, Inv, TypeOK, DaemonType, DaemonAts, Running
<1>4. TypeOK'
  BY <1>1, <1>2, <1>3 DEF Inv, TypeOK, FilesType, EvidenceType, WorkerType, HelperType
<1>5. HelpersKept
  BY <1>1 DEF HelpersKept
<1>6. OneAtATime' /\ WorkerStands' /\ HelpersStand' /\ InstalledStands' /\ ResultTellsVersion'
  BY <1>1, <1>2, <1>3, <1>5, QuietRest
<1>7. daemon.version = installed /\ (daemon.ack # 0 => Terminal(journal'[daemon.ack]))
  BY <1>1 DEF Inv, DaemonStands, Running
<1>8. DaemonStands'
  BY <1>1, <1>3, <1>5, <1>7, MovedDaemon
<1>9. ProvenStands' /\ EvidenceStands'
  BY <1>1, <1>3, <1>5, ProcessGoesOn DEF Running
<1> QED  BY <1>4, <1>6, <1>8, <1>9 DEF Inv

LEMMA KillHelperKeeps == ASSUME Inv, NEW u \in Upgrades, KillHelper(u) PROVE Inv'
<1>1. /\ UNCHANGED <<panel, journal, plan, installed, daemon, wanted, ready, exit, settled, proven,
                     worker>>
      /\ helper' = [helper EXCEPT ![u] = NoHelper]
  BY DEF KillHelper, files, service, evidence
<1>2. HelperType' /\ Others(u) /\ helper'[u].at = "gone"
  BY <1>1, NoHelperType, Rewritten DEF Inv
<1>3. TypeOK'
  BY <1>1, <1>2 DEF Inv, TypeOK, PanelType, FilesType, DaemonType, EvidenceType, WorkerType
<1>4. HelpersKept
  BY <1>2 DEF HelpersKept, Others
<1>5. worker.at # "idle" => daemon.at \in {"up", "online"}
  BY DEF Inv, WorkerStands
<1>6. OneAtATime' /\ WorkerStands' /\ HelpersStand' /\ InstalledStands' /\ ResultTellsVersion'
  BY <1>1, <1>4, <1>5, QuietRest
<1>7. daemon.at = "restored" => Open(plan.task)' /\ helper'[plan.task].at = "gone"
  <2>1. SUFFICES ASSUME daemon.at = "restored"
                 PROVE  Open(plan.task)' /\ helper'[plan.task].at = "gone"
    OBVIOUS
  <2>2. plan.task \in Upgrades /\ Open(plan.task) /\ helper[plan.task].at = "gone"
    BY <2>1, PlanFields DEF Inv, DaemonStands
  <2> QED  BY <1>1, <1>4, <2>2 DEF Open, HelpersKept
<1>8. DaemonStands' /\ ProvenStands' /\ EvidenceStands'
  BY <1>1, <1>4, <1>7, QuietService DEF HelpersKept
<1> QED  BY <1>3, <1>6, <1>8 DEF Inv

\* The restored daemon records the result: the old version is installed, and no
\* helper works on the upgrade any more.
LEMMA ConfirmRecoveryKeeps == ASSUME Inv, ConfirmRecovery PROVE Inv'
<1>1. /\ UNCHANGED <<panel, plan, installed, wanted, ready, exit, settled, proven, worker,
                     helper>>
      /\ daemon.at = "ready"
  BY DEF ConfirmRecovery, evidence
<1>2. /\ DaemonType' /\ daemon'.at \in {"up", "confirmed"} /\ daemon'.pid = daemon.pid
      /\ daemon'.version = daemon.version /\ daemon'.ack = daemon.ack
  BY DEF ConfirmRecovery, Inv, TypeOK, DaemonType, DaemonAts, Running
<1>3. HelpersKept /\ worker.at = "idle" /\ daemon.ack = 0 /\ daemon.version = installed
  BY <1>1 DEF HelpersKept, Inv, WorkerStands, DaemonStands, Running
<1>4. ProvenStands' /\ EvidenceStands'
  BY <1>1, <1>2, <1>3, ProcessGoesOn DEF Running
<1>5. CASE UNCHANGED journal /\ daemon'.at = "up"
  <2>1. TypeOK'
    BY <1>1, <1>2, <1>5 DEF Inv, TypeOK, PanelType, FilesType, EvidenceType, WorkerType,
       HelperType
  <2>2. OneAtATime' /\ WorkerStands' /\ HelpersStand' /\ InstalledStands' /\ ResultTellsVersion'
    BY <1>1, <1>3, <1>5, QuietRest
  <2>3. DaemonStands'
    BY <1>1, <1>2, <1>3, <1>5, MovedDaemon
  <2> QED  BY <1>4, <2>1, <2>2, <2>3 DEF Inv
<1>6. CASE /\ plan.phase = "restored_pending_health" /\ daemon.version = plan.old
           /\ journal' = [journal EXCEPT ![plan.task] = Decided(@, "failed", plan.old)]
  <2>1. plan.task \in Upgrades /\ plan.old \in Versions
    BY <1>6, PlanFields DEF Inv
  <2>2. Open(plan.task) \/ Terminal(journal[plan.task])
    BY <2>1, Numbers DEF Inv, InstalledStands, Open, Terminal
  <2>3. /\ journal' \in [Upgrades -> Rows] /\ Terminal(journal'[plan.task])
        /\ \A u \in Upgrades \ {plan.task} : journal'[u] = journal[u]
        /\ Terminal(journal[plan.task]) => journal'[plan.task] = journal[plan.task]
        /\ ~Terminal(journal[plan.task]) => journal'[plan.task].version = installed
    BY <1>3, <1>6, <2>1, RecordedResult DEF Inv
  <2>4. TypeOK'
    BY <1>1, <1>2, <2>3 DEF Inv, TypeOK, PanelType, FilesType, EvidenceType, WorkerType,
       HelperType
  <2>5. /\ Grown /\ OneAtATime' /\ ResultTellsVersion'
        /\ \A u \in Upgrades \ {plan.task} : Open(u) => Open(u)'
    BY <1>1, <2>1, <2>2, <2>3, ResultRecorded DEF Inv, Open, Terminal
  <2>6. ASSUME NEW u \in Upgrades, helper[u].at \in Active PROVE FALSE
    <3>1. u = plan.task /\ Open(u) /\ HandedOver(plan, u) /\ PlanStands(helper[u])
      BY <2>6, HelperWorks, Serving DEF Inv
    <3> QED  BY <1>6, <2>6, <3>1 DEF PlanStands, Active, Working
  <2>7. HelpersStand' /\ InstalledStands'
    BY <1>1, <1>3, <2>5, <2>6, QuietFiles
  <2>8. WorkerStands'
    BY <1>1, <1>3 DEF WorkerStands
  <2>9. DaemonStands'
    <3>1. plan.task # 0
      BY <2>1, Numbers
    <3> QED  BY <1>1, <1>2, <1>3, <2>3, <3>1, MovedDaemon
  <2> QED  BY <1>4, <2>4, <2>5, <2>7, <2>8, <2>9 DEF Inv
<1>7. \/ UNCHANGED journal /\ daemon'.at = "up"
      \/ /\ plan.phase = "restored_pending_health" /\ daemon.version = plan.old
         /\ journal' = [journal EXCEPT ![plan.task] = Decided(@, "failed", plan.old)]
  BY DEF ConfirmRecovery, Inv, TypeOK, DaemonType
<1> QED  BY <1>5, <1>6, <1>7

LEMMA SaveConfirmedKeeps == ASSUME Inv, SaveConfirmed PROVE Inv'
<1>1. /\ UNCHANGED <<panel, journal, installed, wanted, ready, exit, settled, proven, worker,
                     helper>>
      /\ daemon.at = "confirmed"
      /\ plan' = Saved(plan, [plan EXCEPT !.phase = "result_pending_ack"])
  BY DEF SaveConfirmed, evidence
<1>2. /\ DaemonType' /\ daemon'.at = "up" /\ daemon'.pid = daemon.pid
      /\ daemon'.version = daemon.version /\ daemon'.ack = daemon.ack
  BY DEF SaveConfirmed, Inv, TypeOK, DaemonType, DaemonAts, Running
<1>3. HelpersKept /\ worker.at = "idle" /\ daemon.ack = 0 /\ daemon.version = installed
  BY <1>1 DEF HelpersKept, Inv, WorkerStands, DaemonStands, Running
<1>4. plan.task # 0 /\ Terminal(journal[plan.task])
  BY <1>1 DEF Inv, DaemonStands
<1>5. plan.task \in Upgrades
  BY <1>4, PlanFields DEF Inv
<1>6. plan' \in Plans /\ plan'.task = plan.task
  BY <1>1, <1>5, AdvancedPlan DEF Inv, Phases
<1>7. TypeOK'
  BY <1>1, <1>2, <1>6 DEF Inv, TypeOK, PanelType, FilesType, EvidenceType, WorkerType, HelperType
<1>8. OneAtATime' /\ WorkerStands' /\ HelpersStand' /\ InstalledStands' /\ ResultTellsVersion'
  BY <1>1, <1>3, <1>4, <1>5, <1>6, ClosedPlan
<1>9. DaemonStands'
  BY <1>1, <1>2, <1>3, MovedDaemon
<1>10. ProvenStands' /\ EvidenceStands'
  BY <1>1, <1>2, <1>3, ProcessGoesOn DEF Running
<1> QED  BY <1>7, <1>8, <1>9, <1>10 DEF Inv

\* A report that arrives settles the task, which has its result.
LEMMA ReportedRows ==
  ASSUME Inv, UNCHANGED installed, NEW t \in Upgrades, Terminal(journal[t]),
         panel' = [panel EXCEPT !.task[t] = Outcome(t)],
         journal' = [journal EXCEPT ![t].acked = TRUE] \/ journal' = journal
  PROVE  /\ PanelType' /\ journal' \in [Upgrades -> Rows] /\ OneAtATime' /\ ResultTellsVersion'
         /\ Grown /\ \A u \in Upgrades : Open(u) => Open(u)'
<1>1. /\ PanelType' /\ Settled(t)'
      /\ \A u \in Upgrades \ {t} : panel'.task[u] = panel.task[u]
  BY ReportedResult DEF Inv
<1>2. /\ journal' \in [Upgrades -> Rows]
      /\ \A u \in Upgrades : /\ journal'[u].status = journal[u].status
                             /\ journal'[u].version = journal[u].version
  BY AcknowledgedResult DEF Inv
<1>3. Grown /\ ResultTellsVersion' /\ \A u \in Upgrades : Open(u) => Open(u)'
  BY <1>2, RowsUnchanged DEF Inv
<1>4. OneAtATime'
  <2>1. \A u \in Upgrades : Settled(u) => Settled(u)'
    BY <1>1 DEF Settled
  <2>2. ASSUME NEW u \in Upgrades \ {t}
        PROVE  /\ panel'.task[u] \in {"none", "queued"} => journal'[u].status = "none"
               /\ Settled(u)' => Terminal(journal'[u])
               /\ panel'.task[u] # "none" => \A v \in Upgrades : v < u => Settled(v)'
    BY <1>1, <1>2, <2>1 DEF Inv, OneAtATime, Settled, Terminal
  <2>3. /\ panel'.task[t] \notin {"none", "queued"} /\ Terminal(journal'[t])
        /\ panel.task[t] # "none"
    BY <1>1, <1>2 DEF Settled, Terminal, Inv, OneAtATime
  <2>4. \A v \in Upgrades : v < t => Settled(v)'
    BY <2>1, <2>3 DEF Inv, OneAtATime
  <2> QED  BY <2>2, <2>3, <2>4 DEF OneAtATime
<1> QED  BY <1>1, <1>2, <1>3, <1>4

LEMMA DaemonReportsKeeps == ASSUME Inv, NEW t \in Upgrades, DaemonReports(t) PROVE Inv'
<1>1. /\ UNCHANGED <<plan, installed, wanted, ready, exit, settled, proven, worker, helper>>
      /\ daemon.at = "online" /\ daemon.ack = 0 /\ Terminal(journal[t])
      /\ panel' = [panel EXCEPT !.task[t] = Outcome(t)]
      /\ journal' = [journal EXCEPT ![t].acked = TRUE] \/ journal' = journal
  BY DEF DaemonReports, evidence
<1>2. /\ DaemonType' /\ daemon'.at = "online" /\ daemon'.pid = daemon.pid
      /\ daemon'.version = daemon.version /\ daemon'.ack \in {0, t}
  BY DEF DaemonReports, Inv, TypeOK, DaemonType
<1>3. /\ PanelType' /\ journal' \in [Upgrades -> Rows] /\ OneAtATime' /\ ResultTellsVersion'
      /\ Grown /\ \A u \in Upgrades : Open(u) => Open(u)'
  BY <1>1, ReportedRows
<1>4. TypeOK'
  BY <1>1, <1>2, <1>3 DEF Inv, TypeOK, FilesType, EvidenceType, WorkerType, HelperType
<1>5. HelpersKept /\ daemon.version = installed
  BY <1>1 DEF HelpersKept, Inv, DaemonStands, Running
<1>6. \A u \in Upgrades : helper[u].at \in Active => Open(u)
  BY HelperWorks DEF Inv
<1>7. HelpersStand' /\ InstalledStands'
  BY <1>1, <1>3, <1>5, <1>6, QuietFiles
<1>8. worker'.at \in Busy => Open(worker.task)'
  <2>1. SUFFICES ASSUME worker'.at \in Busy PROVE Open(worker.task)'
    OBVIOUS
  <2>2. worker.task \in Upgrades /\ Open(worker.task)
    BY <1>1, <2>1, WorkerPrepares
  <2> QED  BY <1>1, <1>3, <2>2 DEF Open
<1>9. WorkerStands'
  BY <1>1, <1>2, <1>5, <1>8, QuietWorker
<1>10. DaemonStands'
  <2>1. Terminal(journal'[t])
    BY <1>1, <1>3 DEF Grown
  <2> QED  BY <1>1, <1>2, <1>5, <2>1, MovedDaemon
<1>11. ProvenStands' /\ EvidenceStands'
  BY <1>1, <1>2, <1>5, ProcessGoesOn DEF Running
<1> QED  BY <1>3, <1>4, <1>7, <1>9, <1>10, <1>11 DEF Inv

LEMMA AcknowledgePlanKeeps == ASSUME Inv, AcknowledgePlan PROVE Inv'
<1>1. /\ UNCHANGED <<panel, journal, installed, wanted, ready, exit, settled, proven, worker,
                     helper>>
      /\ daemon.ack # 0
      /\ \/ plan' = plan
         \/ /\ plan.task = daemon.ack
            /\ plan' = Saved(plan, [plan EXCEPT !.phase = "completed"])
  BY DEF AcknowledgePlan, evidence
<1>2. /\ DaemonType' /\ daemon'.at = daemon.at /\ daemon'.pid = daemon.pid
      /\ daemon'.version = daemon.version /\ daemon'.ack = 0
  BY DEF AcknowledgePlan, Inv, TypeOK, DaemonType
<1>3. /\ daemon.ack \in Upgrades /\ daemon.at \in {"up", "online"}
      /\ Terminal(journal[daemon.ack])
  BY <1>1 DEF Inv, DaemonStands, TypeOK, DaemonType
<1>4. HelpersKept /\ daemon.version = installed
  BY <1>1, <1>3 DEF HelpersKept, Inv, DaemonStands, Running
<1>5. plan' \in Plans /\ (plan' = plan \/ (plan'.task = daemon.ack /\ plan.task = daemon.ack))
  <2>1. CASE plan' = plan
    BY <2>1 DEF Inv, TypeOK, FilesType
  <2>2. CASE /\ plan.task = daemon.ack
             /\ plan' = Saved(plan, [plan EXCEPT !.phase = "completed"])
    BY <1>3, <2>2, AdvancedPlan DEF Inv, Phases
  <2> QED  BY <1>1, <2>1, <2>2
<1>6. TypeOK'
  BY <1>1, <1>2, <1>5 DEF Inv, TypeOK, PanelType, FilesType, EvidenceType, WorkerType, HelperType
<1>7. OneAtATime' /\ WorkerStands' /\ HelpersStand' /\ InstalledStands' /\ ResultTellsVersion'
  BY <1>1, <1>2, <1>3, <1>5, ClosedPlan
<1>8. DaemonStands'
  BY <1>1, <1>2, <1>3, <1>4, MovedDaemon
<1>9. ProvenStands' /\ EvidenceStands'
  BY <1>1, <1>2, <1>4, ProcessGoesOn
<1> QED  BY <1>6, <1>7, <1>8, <1>9 DEF Inv

-----------------------------------------------------------------------------
(***************************************************************************)
(* The helper's result                                                     *)
(***************************************************************************)
\* The plan's phase tells the helper's result, and that the version installed: the
\* new one after a success, the old one after a failure.
LEMMA RecordKeeps == ASSUME Inv, NEW u \in Upgrades, Record(u) PROVE Inv'
<1>1. /\ UNCHANGED <<panel, plan, installed, daemon, wanted, ready, exit, settled, proven,
                     worker>>
      /\ helper[u].at = "finish" /\ helper[u].at \in Active /\ Move(u, "decided")
  BY DEF Record, At, Active, service, evidence
<1>2. /\ Open(u) /\ plan.task = u /\ plan.phase # "completed" /\ plan.old \in Versions
      /\ helper[u] \in Helpers /\ HelperStands(helper[u], u) /\ PlanStands(helper[u])
      /\ helper[u].task = u /\ helper[u].old = plan.old
  BY <1>1, Serving
<1>3. HelperType' /\ Others(u) /\ SameRow(u) /\ helper'[u].at = "decided"
  BY <1>1, Moved DEF Inv, HelperAts
<1>4. /\ worker.at \notin Busy
      /\ \A v \in Upgrades \ {u} : ~Open(v) /\ helper[v].at \in {"gone", "reporting"}
  BY <1>1, HelperWorks DEF Inv
<1>5. PICK version : version = IF helper[u].result = "succeeded" THEN u ELSE plan.old
  OBVIOUS
<1>6. /\ version \in Versions /\ helper[u].result \in {"succeeded", "failed", "rollback_failed"}
      /\ helper[u].result # "rollback_failed" => version = installed
  BY <1>1, <1>2, <1>5, Numbers DEF HelperStands, PlanStands
<1>7. journal' = [journal EXCEPT ![u] = Decided(@, helper[u].result, version)]
  BY <1>2, <1>5 DEF Record
<1>8. ~Terminal(journal[u])
  BY <1>2 DEF Open, Terminal
<1>9. /\ journal' \in [Upgrades -> Rows] /\ Terminal(journal'[u])
      /\ \A v \in Upgrades \ {u} : journal'[v] = journal[v]
      /\ journal'[u].status = helper[u].result /\ journal'[u].version = version
  BY <1>6, <1>7, <1>8, RecordedResult DEF Inv
<1>10. TypeOK'
  BY <1>1, <1>3, <1>9 DEF Inv, TypeOK, PanelType, FilesType, DaemonType, EvidenceType, WorkerType
<1>11. Grown /\ OneAtATime' /\ ResultTellsVersion'
  BY <1>1, <1>2, <1>6, <1>8, <1>9, ResultRecorded DEF Inv
<1>12. \A v \in Upgrades : ~Open(v)'
  BY <1>4, <1>9 DEF Open, Terminal
<1>13. WorkerStands'
  BY <1>1, <1>4 DEF Inv, WorkerStands, Busy
<1>14. HelpersStand'
  <2>1. HelperStands(helper[u], u)'
    BY <1>1, <1>2, <1>3, <1>9 DEF HelperStands, SameRow, Working
  <2>2. ASSUME NEW v \in Upgrades \ {u} PROVE HelperStands(helper[v], v)'
    <3>1. helper'[v] = helper[v] /\ helper[v].at \in {"gone", "reporting"}
          /\ HelperStands(helper[v], v)
      BY <1>3, <1>4 DEF Others, Inv, HelpersStand
    <3> QED  BY <1>9, <3>1 DEF HelperStands, Working
  <2> QED  BY <2>1, <2>2 DEF HelpersStand
<1>15. InstalledStands'
  <2>1. /\ installed' # 0 => journal'[installed'].status # "none"
        /\ plan'.task # 0 => journal'[plan'.task].status # "none"
    BY <1>1, <1>11, PlanFields, Numbers DEF Inv, InstalledStands, Grown, TypeOK, FilesType
  <2> QED  BY <1>12, <2>1 DEF InstalledStands
<1>16. daemon.at \notin {"restored", "confirmed"}
  BY <1>1, <1>2 DEF Inv, DaemonStands, Open, Terminal
<1>17. DaemonStands' /\ ProvenStands' /\ EvidenceStands'
  BY <1>1, <1>3, <1>11, <1>16, QuietService DEF Grown, Others
<1> QED  BY <1>10, <1>11, <1>13, <1>14, <1>15, <1>17 DEF Inv

\* What the helper saves after it has recorded the result
LEMMA ClosingPlan ==
  ASSUME Inv, NEW u \in Upgrades, UNCHANGED <<panel, journal, installed, daemon, wanted, ready, exit,
                                              settled, proven, worker>>,
         helper[u].at \in {"decided", "reporting"}, HelperType', Others(u),
         helper'[u].at = "gone"
            \/ (helper[u].at = "decided" /\ SameRow(u) /\ helper'[u].at = "reporting"),
         NEW phase \in {"result_pending_ack", "completed"}, Keep(u, phase),
         phase = "completed" \/ helper[u].at = "decided"
  PROVE  Inv'
<1>1. helper[u].task = u /\ helper[u].old \in Versions /\ Terminal(journal[u])
  BY DEF Inv, HelpersStand, HelperStands, TypeOK, HelperType, Helpers
<1>2. plan' = Saved(plan, [task |-> u, old |-> helper[u].old, phase |-> phase])
  BY <1>1 DEF Keep
<1>3. /\ plan' \in Plans
      /\ plan' = plan \/ plan'.task = u
      /\ plan.task \notin {0, u} /\ phase = "completed" => plan' = plan
  BY <1>1, <1>2, SavedPlan DEF Inv, Phases
<1>4. plan' = plan \/ (plan'.task = u /\ plan.task \in {0, u})
  BY <1>3 DEF Inv, HelpersStand, HelperStands
<1>5. TypeOK'
  BY <1>3 DEF Inv, TypeOK, PanelType, FilesType, DaemonType, EvidenceType, WorkerType
<1>6. worker.at # "idle" => daemon'.at \in {"up", "online"}
  BY DEF Inv, WorkerStands
<1>7. OneAtATime' /\ WorkerStands' /\ HelpersStand' /\ InstalledStands' /\ ResultTellsVersion'
  BY <1>1, <1>4, <1>6, ClosedPlan DEF Others, SameRow
<1>8. daemon.at = "restored" => plan' = plan /\ Open(plan.task)' /\ helper'[plan.task].at = "gone"
  <2>1. SUFFICES ASSUME daemon.at = "restored"
                 PROVE  plan' = plan /\ Open(plan.task)' /\ helper'[plan.task].at = "gone"
    OBVIOUS
  <2>2. plan.task # 0 /\ Open(plan.task) /\ helper[plan.task].at = "gone"
    BY <2>1 DEF Inv, DaemonStands
  <2>3. plan.task \in Upgrades /\ plan.task # u
    BY <1>1, <2>2, PlanFields DEF Inv, Open, Terminal
  <2>4. plan' = plan
    BY <1>4, <2>2, <2>3
  <2> QED  BY <2>2, <2>3, <2>4 DEF Open, Others
<1>9. daemon.at = "confirmed" => plan'.task = plan.task
  BY <1>4 DEF Inv, DaemonStands
<1>10. DaemonStands' /\ ProvenStands' /\ EvidenceStands'
  BY <1>8, <1>9, QuietService DEF Others
<1> QED  BY <1>5, <1>7, <1>10 DEF Inv

LEMMA SavePendingKeeps == ASSUME Inv, NEW u \in Upgrades, SavePending(u) PROVE Inv'
<1>1. /\ UNCHANGED <<panel, journal, installed, daemon, wanted, ready, exit, settled, proven,
                     worker>>
      /\ helper[u].at = "decided" /\ Keep(u, "result_pending_ack")
  BY DEF SavePending, At, service, evidence
<1>2. HelperType' /\ Others(u) /\ SameRow(u) /\ helper'[u].at = "reporting"
  BY Moved DEF SavePending, Inv, HelperAts
<1> QED  BY <1>1, <1>2, ClosingPlan

LEMMA CompleteKeeps == ASSUME Inv, NEW u \in Upgrades, Complete(u) PROVE Inv'
<1>1. /\ UNCHANGED <<panel, journal, installed, daemon, wanted, ready, exit, settled, proven,
                     worker>>
      /\ helper[u].at = "reporting" /\ Keep(u, "completed")
  BY DEF Complete, At, service, evidence
<1>2. HelperType' /\ Others(u) /\ helper'[u].at = "gone"
  BY NoHelperType, Rewritten DEF Complete, Inv
<1> QED  BY <1>1, <1>2, ClosingPlan

LEMMA HelperReportsKeeps == ASSUME Inv, NEW u \in Upgrades, HelperReports(u) PROVE Inv'
<1>1. /\ UNCHANGED <<plan, installed, daemon, wanted, ready, exit, settled, proven, worker,
                     helper>>
      /\ helper[u].at = "reporting"
  BY DEF HelperReports, At, service, evidence
<1>2. helper[u].task = u /\ Terminal(journal[u])
  BY <1>1 DEF Inv, HelpersStand, HelperStands
<1>3. /\ panel' = [panel EXCEPT !.task[u] = Outcome(u)]
      /\ journal' = [journal EXCEPT ![u].acked = TRUE] \/ journal' = journal
  BY <1>2 DEF HelperReports
<1>4. /\ PanelType' /\ journal' \in [Upgrades -> Rows] /\ OneAtATime' /\ ResultTellsVersion'
      /\ Grown /\ \A v \in Upgrades : Open(v) => Open(v)'
  BY <1>1, <1>2, <1>3, ReportedRows
<1>5. TypeOK'
  BY <1>1, <1>4 DEF Inv, TypeOK, FilesType, DaemonType, EvidenceType, WorkerType, HelperType
<1>6. HelpersKept /\ (worker.at # "idle" => daemon.at \in {"up", "online"})
  BY <1>1 DEF HelpersKept, Inv, WorkerStands
<1>7. \A v \in Upgrades : helper[v].at \in Active => Open(v)
  BY HelperWorks DEF Inv
<1>8. HelpersStand' /\ InstalledStands'
  BY <1>1, <1>4, <1>6, <1>7, QuietFiles
<1>9. worker'.at \in Busy => Open(worker.task)'
  <2>1. SUFFICES ASSUME worker'.at \in Busy PROVE Open(worker.task)'
    OBVIOUS
  <2>2. worker.task \in Upgrades /\ Open(worker.task)
    BY <1>1, <2>1, WorkerPrepares
  <2> QED  BY <1>1, <1>4, <2>2 DEF Open
<1>10. WorkerStands'
  BY <1>1, <1>6, <1>9, QuietWorker
<1>11. daemon.at = "restored" => Open(plan.task)' /\ helper'[plan.task].at = "gone"
  <2>1. SUFFICES ASSUME daemon.at = "restored"
                 PROVE  Open(plan.task)' /\ helper'[plan.task].at = "gone"
    OBVIOUS
  <2>2. plan.task \in Upgrades /\ Open(plan.task) /\ helper[plan.task].at = "gone"
    BY <2>1, PlanFields DEF Inv, DaemonStands
  <2> QED  BY <1>1, <1>4, <2>2 DEF Open
<1>12. DaemonStands' /\ ProvenStands' /\ EvidenceStands'
  BY <1>1, <1>4, <1>11, QuietService DEF Grown
<1> QED  BY <1>4, <1>5, <1>8, <1>10, <1>12 DEF Inv

-----------------------------------------------------------------------------
(***************************************************************************)
(* The theorems                                                            *)
(***************************************************************************)
LEMMA InitHolds == ASSUME Init PROVE Inv
<1>1. \A u \in Upgrades : helper[u].at = "gone" /\ journal[u].status = "none"
  BY DEF Init, NoHelper
<1>2. TypeOK
  <2>1. PanelType /\ FilesType /\ DaemonType /\ EvidenceType /\ WorkerType
    BY Numbers DEF Init, PanelType, PanelTasks, FilesType, Rows, Plans, DaemonType, DaemonAts,
       Running, EvidenceType, WorkerType, WorkerAts, NoWorker
  <2>2. HelperType
    BY NoHelperType DEF Init, HelperType
  <2> QED  BY <2>1, <2>2 DEF TypeOK
<1>3. OneAtATime
  BY DEF Init, OneAtATime, Settled
<1>4. WorkerStands
  BY DEF Init, WorkerStands, NoWorker
<1>5. HelpersStand
  BY <1>1 DEF HelpersStand, HelperStands, Working
<1>6. InstalledStands
  BY <1>1 DEF Init, InstalledStands, NoPlan, Open
<1>7. DaemonStands
  BY <1>1 DEF Init, DaemonStands
<1>8. ProvenStands /\ EvidenceStands
  BY <1>1 DEF Init, ProvenStands, EvidenceStands
<1>9. ResultTellsVersion
  BY <1>1 DEF ResultTellsVersion
<1> QED  BY <1>2, <1>3, <1>4, <1>5, <1>6, <1>7, <1>8, <1>9 DEF Inv

LEMMA StepHolds ==
  ASSUME Mishaps \subseteq {"helper_killed"}, Inv, [Next]_vars
  PROVE  Inv'
<1>1. CASE Panel
  BY <1>1, EnqueueKeeps, TakeTaskKeeps DEF Panel
<1>2. CASE Worker
  BY <1>2, VerifyKeeps, RefuseKeeps, SavePlanKeeps, HandOverKeeps, HandOverFailsKeeps DEF Worker
<1>3. CASE Unit
  <2>1. CASE StartUnit \/ Proceed \/ RestoreBackup \/ SaveRestored
    BY <2>1, StartUnitKeeps, ProceedKeeps, RestoreBackupKeeps, SaveRestoredKeeps
  <2>2. CASE BecomeReady \/ StartupFails \/ ConfirmRecovery \/ SaveConfirmed
    BY <2>2, BecomeReadyKeeps, StartupFailsKeeps, ConfirmRecoveryKeeps, SaveConfirmedKeeps
  <2>3. CASE Connect \/ AcknowledgePlan \/ \E t \in Upgrades : DaemonReports(t)
    BY <2>3, SessionKeeps, AcknowledgePlanKeeps, DaemonReportsKeeps
  <2> QED  BY <1>3, <2>1, <2>2, <2>3 DEF Unit
<1>4. CASE Environment
  BY <1>4, RejectedKeeps, CrashKeeps, SessionKeeps, RebootKeeps, KillHelperKeeps DEF Environment
<1>5. ASSUME NEW u \in Upgrades, HelperStep(u) PROVE Inv'
  <2>1. CASE Load(u) \/ SaveSwitching(u) \/ StopOld(u) \/ Replace(u)
    BY <2>1, LoadKeeps, SaveSwitchingKeeps, StopOldKeeps, ReplaceKeeps
  <2>2. CASE SaveStarting(u) \/ Start(u) \/ SeenHealthy(u) \/ GiveUp(u)
    BY <2>2, SaveStartingKeeps, StartKeeps, SeenHealthyKeeps, GiveUpKeeps
  <2>3. CASE SaveHealthy(u) \/ SaveRollingBack(u) \/ StopNew(u) \/ PutBack(u)
    BY <2>3, SaveHealthyKeeps, SaveRollingBackKeeps, StopNewKeeps, PutBackKeeps
  <2>4. CASE Record(u) \/ SavePending(u) \/ HelperReports(u) \/ Complete(u)
    BY <2>4, RecordKeeps, SavePendingKeeps, HelperReportsKeeps, CompleteKeeps
  <2> QED  BY <1>5, <2>1, <2>2, <2>3, <2>4 DEF HelperStep
<1>6. CASE UNCHANGED vars
  <2>1. UNCHANGED <<panel, journal, plan, installed, daemon, wanted, ready, exit, settled, proven,
                    worker, helper>>
    BY <1>6 DEF vars
  <2> QED  BY <2>1 DEF Inv, TypeOK, PanelType, FilesType, DaemonType, EvidenceType, WorkerType,
              HelperType, OneAtATime, Settled, WorkerStands, HelpersStand, HelperStands,
              InstalledStands, PlanStands, DaemonStands, ProvenStands, EvidenceStands,
              ResultTellsVersion, Open, HandedOver
<1> QED  BY <1>1, <1>2, <1>3, <1>4, <1>5, <1>6 DEF Next

LEMMA Recoverable == ASSUME Inv PROVE VersionIsKnown
<1> SUFFICES ASSUME NEW t \in Upgrades, Open(t)
             PROVE  /\ installed = t => HandedOver(plan, t)
                    /\ HandedOver(plan, t) /\ LocallyConfirmed => installed = t /\ t \in proven
  BY DEF Inv, VersionIsKnown, UnfinishedIsRecoverable, Open
<1>1. installed = t => HandedOver(plan, t)
  BY DEF Inv, InstalledStands
<1>2. ASSUME HandedOver(plan, t), LocallyConfirmed PROVE installed = t /\ t \in proven
  <2>1. PlanStands(helper[t]) /\ plan.task = t
    BY <1>2 DEF Inv, InstalledStands, HandedOver
  <2> QED  BY <1>2, <2>1 DEF PlanStands, LocallyConfirmed
<1> QED  BY <1>1, <1>2

\* Whatever crashes, restarts, reboots, is killed or fails between two saves of an
\* upgrade: the journal's last result tells which version is installed, an open
\* upgrade that has replaced the binary is still named by the plan, and the plan calls
\* a version healthy only when it is installed and a process of it was ready.
\* (BeginUpgrade, RunUpgrade, rollbackUpgrade, finish, RecoverBeforeStart,
\* ConfirmRecoveryReady; a failing systemd-run has not started the helper, a helper
\* saves its result before the next upgrade's plan, a rollback stops the daemon.)
THEOREM VersionIsAlwaysKnown ==
  ASSUME Mishaps \subseteq {"helper_killed"}
  PROVE  Spec => []VersionIsKnown
<1>1. Init => Inv
  BY InitHolds
<1>2. Inv /\ [Next]_vars => Inv'
  BY StepHolds
<1>3. Inv => VersionIsKnown
  BY Recoverable
<1> QED  BY <1>1, <1>2, <1>3, PTL DEF Spec

\* Only the helper's rename installs a newer version, and only when the last process
\* of the service has saved its final sample (confirmStopped before Replace); what
\* puts a backup back installs an older one.
LEMMA OnlyReplaceInstalls ==
  ASSUME Inv, [Next]_vars, installed' > installed
  PROVE  settled
<1>1. installed \in Nat
  BY Numbers DEF Inv, TypeOK, FilesType
<1>2. ASSUME NEW u \in Upgrades, Replace(u) PROVE settled
  BY <1>2 DEF Replace, At, Inv, EvidenceStands
<1>3. ASSUME NEW u \in Upgrades, PutBack(u) PROVE FALSE
  <2>1. helper[u].at = "restoring" /\ installed' = helper[u].old /\ helper[u].at \in Active
    BY <1>3 DEF PutBack, At, Active, Working
  <2>2. /\ plan.old \in Versions /\ plan.task = u /\ PlanStands(helper[u])
        /\ helper[u].old = plan.old
    BY <2>1, Serving
  <2>3. installed' = plan.old /\ installed \in {plan.old, u} /\ plan.old < u
    BY <2>1, <2>2 DEF PlanStands
  <2>4. plan.old \in Nat /\ u \in Nat
    BY <2>2, Numbers
  <2> QED  BY <2>3, <2>4
<1>4. ASSUME RestoreBackup PROVE FALSE
  <2>1. /\ plan.task \in Upgrades /\ PlanStands(helper[plan.task]) /\ installed' = plan.old
    BY <1>4, UndecidedPlan DEF RestoreBackup
  <2>2. installed \in {plan.old, plan.task} /\ plan.old < plan.task
    BY <2>1 DEF PlanStands
  <2>3. plan.old \in Nat /\ plan.task \in Nat
    <3>1. plan.old \in Versions
      BY PlanFields DEF Inv
    <3> QED  BY <2>1, <3>1, UpgradeAssumption DEF Upgrades, Versions
  <2> QED  BY <2>1, <2>2, <2>3
<1>5. installed' # installed
  BY <1>1
<1>6. \/ RestoreBackup \/ \E u \in Upgrades : Replace(u) \/ PutBack(u)
  <2>1. ~(Panel \/ Worker \/ Environment)
    BY <1>5 DEF Panel, Enqueue, TakeTask, Worker, Verify, Refuse, SavePlan, HandOver, HandedOff,
       HandOverFails, Environment, Rejected, Crash, LoseSession, Reboot, KillHelper, files
  <2>2. Unit => RestoreBackup
    BY <1>5 DEF Unit, StartUnit, Proceed, SaveRestored, BecomeReady, StartupFails,
       ConfirmRecovery, SaveConfirmed, Connect, AcknowledgePlan, DaemonReports, files
  <2>3. ASSUME NEW u \in Upgrades, HelperStep(u) PROVE Replace(u) \/ PutBack(u)
    BY <1>5, <2>3 DEF HelperStep, Load, SaveSwitching, StopOld, SaveStarting, Start, SeenHealthy,
       GiveUp, SaveHealthy, SaveRollingBack, StopNew, Record, SavePending, HelperReports,
       Complete, files
  <2>4. ~UNCHANGED vars
    BY <1>5 DEF vars
  <2> QED  BY <2>1, <2>2, <2>3, <2>4 DEF Next
<1> QED  BY <1>2, <1>3, <1>4, <1>6

\* A newer binary replaces the installed one only when the last process of the
\* service has saved its final traffic sample, whatever crashed, restarted or was
\* rejected between the helper's check and its stop, short of the same mishaps.
THEOREM SettledBeforeEverySwitch ==
  ASSUME Mishaps \subseteq {"helper_killed"}
  PROVE  Spec => SettledBeforeSwitch
<1>1. Init => Inv
  BY InitHolds
<1>2. Inv /\ [Next]_vars => Inv'
  BY StepHolds
<1>3. Inv /\ [Next]_vars => [installed' > installed => settled]_vars
  BY OnlyReplaceInstalls
<1> QED  BY <1>1, <1>2, <1>3, PTL DEF Spec, SettledBeforeSwitch
=============================================================================
