-------------------------- MODULE MaintenancePlan --------------------------
(***************************************************************************)
(* The plan file of a maintenance task and the journal row it belongs to,  *)
(* which the daemon and an independent helper process share.  Both write   *)
(* the plan through save, which is all that keeps one from undoing what    *)
(* the other has done.                                                     *)
(***************************************************************************)
EXTENDS Naturals

\* No plan file.  Tasks are numbered from 1.
NoPlan == [task |-> 0, old |-> 0, phase |-> "none"]

\* save: what the file holds after plan is saved where existing was.
Saved(existing, plan) ==
    IF \/ existing.task = plan.task /\ existing.phase = "completed"
          /\ plan.phase # "updater_ready"
       \/ existing.task \notin {0, plan.task} /\ plan.phase = "completed"
    THEN existing
    ELSE plan

Terminal(row) == row.status \notin {"none", "running"}

\* Active: the task has been handed to a helper.
HandedOver(plan, t) == plan.task = t /\ plan.phase # "completed"

\* ensureIdle: no plan is awaiting completion.
Idle(plan, journal) ==
    plan.task # 0 /\ plan.phase # "completed" => journal[plan.task].acked

\* persist and Transition: the first result of a task is the one that stays.
Decided(row, status, version) ==
    IF Terminal(row) THEN row
    ELSE [row EXCEPT !.status = status, !.version = version]
=============================================================================
