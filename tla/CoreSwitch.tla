------------------------------ MODULE CoreSwitch ------------------------------
(***************************************************************************)
(* How a node changes the configuration of its embedded core: Apply,       *)
(* rollback, Recover and Close of                                          *)
(* services/daemon/internal/adapters/singbox/adapter.go over the one core  *)
(* row of services/daemon/internal/state/core.go.  opMu serializes the     *)
(* operations; what makes them hard is that every store call and every     *)
(* start can fail and that the process can die between any two of them.    *)
(*                                                                         *)
(* Abstractions.  A configuration is its revision, its policy number and   *)
(* the users of its managed inbounds; MergeAuthorization replaces those    *)
(* users and nothing else.  A digest, decoding or build error is one       *)
(* nondeterministic rejection.  pending_revision, pending_policy and       *)
(* pending_config are written but never read, and are left out.  The       *)
(* traffic samples that closing and starting take are in UsageLedger.tla:  *)
(* here they are one more reason for a start to fail.                      *)
(*                                                                         *)
(* Definitions marked "Fault" are plausible mistakes in the definition     *)
(* after them, used to show that the properties can fail.                  *)
(***************************************************************************)
EXTENDS Naturals

CONSTANTS
    Users,      \* users a policy can authorize
    Tasks,      \* apply tasks
    Revisions,  \* configuration revisions
    MaxPolicy,  \* bound: policy revisions
    None        \* no configuration, no instance, no task

ASSUME CoreAssumption ==
    /\ MaxPolicy \in Nat \ {0}
    /\ None \notin Tasks
    /\ None \notin [rev: Revisions, users: SUBSET Users]
    /\ None \notin [rev: Revisions, policy: 1..MaxPolicy, users: SUBSET Users]
    /\ None \notin [task: Tasks, rev: Revisions, policy: 1..MaxPolicy,
                    users: SUBSET Users]

VARIABLES
    floor,     \* Core.policy_floor, durable
    auth,      \* Core.authorization: the users of that policy, durable
    applied,   \* Core.applied_*, durable
    stage,     \* Core.stage, durable
    pending,   \* Core.pending_task, durable
    active,    \* Adapter.active: the instance that serves, or None
    pc,        \* where the operation that holds opMu is
    config,    \* the argument of the Apply in progress
    previous,  \* the applied configuration Apply read at its start
    unswitched \* history: Apply gave up in PrepareCore, nothing started since

row == <<floor, auth, applied, stage, pending>>
vars == <<row, active, pc, config, previous, unswitched>>

Policies == 1..MaxPolicy
Configs == [task: Tasks, rev: Revisions, policy: Policies, users: SUBSET Users]
Applied == [rev: Revisions, policy: Policies, users: SUBSET Users]
Instances == [rev: Revisions, users: SUBSET Users]
\* "down": the process is not running; "idle": opMu is free.
Steps == {"down", "recommitStart", "idle", "validate", "close", "start", "commit",
          "rollback", "restore", "recommit"}

Return == pc' = "idle"

--------------------------------------------------------------------------------
(***************************************************************************)
(* Apply                                                                   *)
(***************************************************************************)

\* Fault: only older policies are refused, not a changed one.
AdmitsSameNumber(r, us) == r >= floor

\* PersistPolicy: never an older policy, and one content per policy.
Admits(r, us) == r > floor \/ (r = floor /\ auth = us)

\* Apply reads the row and persists the authorization the panel sent (revision
\* r for the users us), whatever becomes of the configuration.
ApplyPersists(c, r, us) ==
    /\ pc = "idle"
    /\ Admits(r, us)
    /\ floor' = r
    /\ auth' = us
    /\ config' = c
    /\ previous' = applied
    /\ pc' = "validate"
    /\ UNCHANGED <<applied, stage, pending, active, unswitched>>

\* Fault: a rejected configuration leaves the running instance alone.
NeverRollsBack == FALSE

\* The condition of Apply's local function fail.
MustRollBack == previous # None /\ previous.policy < floor

\* The configuration is for an older policy, or its users are not the ones of
\* the authorization, or it cannot be decoded or built.
Reject ==
    /\ pc = "validate"
    /\ pc' = IF MustRollBack THEN "rollback" ELSE "idle"
    /\ UNCHANGED <<row, active, config, previous, unswitched>>

Acceptable == config.policy = floor /\ config.users = auth

SameAsRunning ==
    /\ active # None /\ previous # None
    /\ previous = [rev |-> config.rev, policy |-> config.policy,
                   users |-> config.users]

AlreadyApplied ==
    /\ pc = "validate" /\ Acceptable /\ SameAsRunning
    /\ Return
    /\ UNCHANGED <<row, active, config, previous, unswitched>>

\* PrepareCore records the switch before anything is stopped.
Prepare ==
    /\ pc = "validate" /\ Acceptable /\ ~SameAsRunning
    /\ stage = "idle" \/ pending = config.task
    /\ stage' = "prepared"
    /\ pending' = config.task
    /\ pc' = "close"
    /\ UNCHANGED <<floor, auth, applied, active, config, previous, unswitched>>

\* PrepareCore fails (another task's switch is recorded, or the database):
\* Apply closes the candidate and returns, without fail or rollback.
PrepareFails ==
    /\ pc = "validate" /\ Acceptable /\ ~SameAsRunning
    /\ Return
    /\ unswitched' = TRUE
    /\ UNCHANGED <<row, active, config, previous>>

\* detach and closeInstance; an error of closing is only logged.
CloseOld ==
    /\ pc = "close"
    /\ active' = None
    /\ pc' = "start"
    /\ UNCHANGED <<row, config, previous, unswitched>>

StartCandidate ==
    /\ pc = "start"
    /\ active' = [rev |-> config.rev, users |-> config.users]
    /\ unswitched' = FALSE
    /\ pc' = "commit"
    /\ UNCHANGED <<row, config, previous>>

StartFails ==
    /\ pc = "start"
    /\ pc' = "rollback"
    /\ UNCHANGED <<row, active, config, previous, unswitched>>

\* CommitCore: the applied configuration and the end of the stage together.
Commit(c) ==
    /\ applied' = c
    /\ stage' = "idle"
    /\ pending' = None

CommitCandidate ==
    /\ pc = "commit"
    /\ Commit([rev |-> config.rev, policy |-> config.policy,
               users |-> config.users])
    /\ Return
    /\ UNCHANGED <<floor, auth, active, config, previous, unswitched>>

\* Fault: a failed CommitCore is only reported.
CommitFailsReturns ==
    /\ pc = "commit"
    /\ Return
    /\ UNCHANGED <<row, active, config, previous, unswitched>>

CommitFails ==
    /\ pc = "commit"
    /\ pc' = "rollback"
    /\ UNCHANGED <<row, active, config, previous, unswitched>>

--------------------------------------------------------------------------------
(***************************************************************************)
(* rollback                                                                *)
(***************************************************************************)

\* Whatever runs is detached and closed first.
RollbackCloses ==
    /\ pc = "rollback"
    /\ active' = None
    /\ pc' = "restore"
    /\ UNCHANGED <<row, config, previous, unswitched>>

\* Nothing was applied before: AbortCore, whose error is ignored.
RollbackToNothing ==
    /\ pc = "restore" /\ previous = None
    /\ \/ stage' = "idle" /\ pending' = None
       \/ UNCHANGED <<stage, pending>>
    /\ Return
    /\ UNCHANGED <<floor, auth, applied, active, config, previous, unswitched>>

\* The previous base with the users of the latest authorization.
Restored == [rev |-> previous.rev, users |-> auth]

RollbackStarts ==
    /\ pc = "restore" /\ previous # None
    /\ active' = Restored
    /\ unswitched' = FALSE
    /\ pc' = "recommit"
    /\ UNCHANGED <<row, config, previous>>

\* Reading the row, merging, building or starting failed: no instance runs and
\* the stage stays as it is.
RollbackFails ==
    /\ pc = "restore" /\ previous # None
    /\ Return
    /\ UNCHANGED <<row, active, config, previous, unswitched>>

\* Fault: off by one, the restored configuration is recorded under a policy
\* number that was never issued.
RecommitUnderNextPolicy ==
    Commit([rev |-> previous.rev, policy |-> floor + 1, users |-> auth])

RecommitRestored ==
    Commit([rev |-> previous.rev, policy |-> floor, users |-> auth])

RollbackCommits ==
    /\ pc = "recommit"
    /\ RecommitRestored \/ UNCHANGED <<applied, stage, pending>>
    /\ Return
    /\ UNCHANGED <<floor, auth, active, config, previous, unswitched>>

--------------------------------------------------------------------------------
(***************************************************************************)
(* The process: Recover, Close and crashes                                 *)
(***************************************************************************)
Clean == applied.policy = floor /\ stage = "idle"

\* Recover without an applied configuration: an interrupted first switch is
\* aborted.  An error of Recover ends the process, which changes nothing.
RecoverNothing ==
    /\ pc = "down" /\ applied = None
    /\ stage' = "idle"
    /\ pending' = None
    /\ Return
    /\ UNCHANGED <<floor, auth, applied, active, config, previous, unswitched>>

\* Fault: the applied configuration is started as it was saved.
RecoveredAsSaved == [rev |-> applied.rev, users |-> applied.users]

\* The saved configuration, merged with the floor unless it is clean.
Recovered ==
    [rev |-> applied.rev, users |-> IF Clean THEN applied.users ELSE auth]

RecoverStarts ==
    /\ pc = "down" /\ applied # None
    /\ active' = Recovered
    /\ unswitched' = FALSE
    /\ pc' = IF Clean THEN "idle" ELSE "recommitStart"
    /\ UNCHANGED <<row, config, previous>>

RecoverCommits ==
    /\ pc = "recommitStart"
    /\ Commit([rev |-> applied.rev, policy |-> floor, users |-> active.users])
    /\ Return
    /\ UNCHANGED <<floor, auth, active, config, previous, unswitched>>

\* The process ends: a crash, a signal with Close, or an error of Recover.
Stop ==
    /\ pc # "down"
    /\ pc' = "down"
    /\ active' = None
    /\ unswitched' = FALSE
    /\ UNCHANGED <<row, config, previous>>

--------------------------------------------------------------------------------
Init ==
    /\ floor = 0 /\ auth = {}
    /\ applied = None /\ stage = "idle" /\ pending = None
    /\ active = None
    /\ pc = "down"
    /\ config = None /\ previous = None
    /\ unswitched = FALSE

Apply ==
    \/ \E c \in Configs, r \in Policies, us \in SUBSET Users :
          ApplyPersists(c, r, us)
    \/ Reject \/ AlreadyApplied \/ Prepare \/ PrepareFails
    \/ CloseOld \/ StartCandidate \/ StartFails \/ CommitCandidate \/ CommitFails

Rollback ==
    \/ RollbackCloses \/ RollbackToNothing \/ RollbackStarts \/ RollbackFails
    \/ RollbackCommits

Recover == RecoverNothing \/ RecoverStarts \/ RecoverCommits

Next == Apply \/ Rollback \/ Recover \/ Stop

Spec == Init /\ [][Next]_vars

--------------------------------------------------------------------------------
\* The ranges of the variables; the row of core.go and the locals of Apply.
TypeOK ==
    /\ floor \in 0..MaxPolicy
    /\ auth \in SUBSET Users
    /\ applied \in Applied \cup {None}
    /\ stage \in {"idle", "prepared"}
    /\ pending \in Tasks \cup {None}
    /\ active \in Instances \cup {None}
    /\ pc \in Steps
    /\ config \in Configs \cup {None}
    /\ previous \in Applied \cup {None}
    /\ unswitched \in BOOLEAN

\* Whichever path starts an instance (Apply, rollback, Recover after a crash at
\* any point), it serves the users of the durable floor (adapter.go: the
\* canonical comparison in Apply, MergeAuthorization in rollback and Recover).
StartsWithFloor ==
    [][active' # active /\ active' # None => active'.users = auth']_vars

\* What is recorded as applied under the floor's number has the floor's users,
\* so Recover may start it unmerged (adapter.go Recover, the Clean test).
AppliedMatchesFloor ==
    applied # None =>
        /\ applied.policy <= floor
        /\ applied.policy = floor => applied.users = auth

\* Between operations the instance that serves is of the revision that Health
\* reports from the row (adapter.go Health), whatever failed in between.
HealthNamesRunning ==
    pc = "idle" /\ active # None => applied # None /\ active.rev = applied.rev

\* Between operations a serving instance admits no user the floor has revoked,
\* unless the last Apply gave up in PrepareCore.
RevokedAreCutOff ==
    pc = "idle" /\ active # None /\ ~unswitched => active.users = auth

\* docs/PRODUCT.md: a failed switch keeps the latest authorization received and
\* cannot reopen revoked credentials; services/daemon/README.md: failed updates
\* merge the previous base with the latest durable authorization floor.
FailedApplyKeepsFloor ==
    pc = "idle" /\ active # None => active.users \subseteq auth
================================================================================
