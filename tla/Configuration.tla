----------------------------- MODULE Configuration -----------------------------
(***************************************************************************)
(* How access reaches the nodes: PolicyStore.refresh and                   *)
(* ConfigurationStore (apps/web/src/server/configuration), the part of     *)
(* MachineStore they enqueue their tasks with, subscription/store.ts and   *)
(* subscription/snapshot.ts, which tell a client the nodes it may use, and *)
(* the steps of the node that fetch and apply a configuration.             *)
(*                                                                         *)
(* Every panel operation is one synchronous transaction; what makes it     *)
(* hard is the order of operations: the authorization of users moves on    *)
(* while previews wait to be published, tasks wait to be accepted, and a   *)
(* configuration that was fetched waits to be applied.                     *)
(*                                                                         *)
(* Abstractions.  issued is the history of policy_state: its length is the *)
(* revision, its last element what the fingerprint stands for.  Version n  *)
(* of a machine's configuration is its nth revision, and the newest one is *)
(* the desired one, so settings, version and desired_revision_id need no   *)
(* variables.  An operation that is refused does nothing; an expired       *)
(* preview, or a request repeated with the same key, is one of those.      *)
(* Apply on the node is one step with the outcomes of CoreSwitch.tla; the  *)
(* delivery of tasks and results is that of TaskDelivery.tla.  A machine   *)
(* is not removed, and its node supports every task.                       *)
(***************************************************************************)
EXTENDS Naturals, Sequences, FiniteSets

CONSTANTS
    Users,
    Machines,
    Settings,       \* what an administrator can enter for a machine
    MaxGeneration,  \* bound: generations of a user's proxy passwords
    MaxPolicy,      \* bound: sets of credentials issued
    MaxPreviews,    \* bound: previews
    MaxEpoch,       \* bound: installations of a machine
    MaxFaults       \* bound: apply tasks that fail at the node, machines bound anew

ASSUME ConfigurationAssumption ==
    /\ {MaxGeneration, MaxPolicy, MaxEpoch} \subseteq Nat \ {0}
    /\ {MaxPreviews, MaxFaults} \subseteq Nat

VARIABLES
    accounts,   \* users, proxy_credentials; blocked: the month's usage reached the limit
    issued,     \* policy_state with its history
    past,       \* policy_state.period is a month that is over
    previews,   \* config_previews
    revisions,  \* config_revisions of each machine, by version
    desired,    \* machine_configs.desired_policy_revision
    known,      \* machine_user_history
    machines,   \* machines: binding epoch, enrolled, uninstalled
    tasks,      \* the apply tasks of each machine, oldest first
    reports,    \* machines.status_json: the last status of the node
    nodes,      \* the node bound to each machine
    faults      \* apply tasks that failed for a reason of the node, machines bound anew

vars == <<accounts, issued, past, previews, revisions, desired, known,
          machines, tasks, reports, nodes, faults>>
policyRow == <<issued, past>>
drafts == <<previews, revisions, desired, known>>
panel == <<accounts, policyRow, drafts, machines>>

Credentials == Users \X (1..MaxGeneration)
NoReport == [revision |-> 0, policy |-> 0, healthy |-> FALSE, open |-> {}]
Idle == [stage |-> "idle", task |-> 0, policy |-> 0, granted |-> {}]
NoNode == [revision |-> 0, policy |-> 0, running |-> FALSE, users |-> {},
           work |-> Idle]

Revision == Len(issued)
Version(m) == Len(revisions[m])
Latest(seq) == seq[Len(seq)]
Open(node) == IF node.running THEN node.users ELSE {}
Serves(m) == machines[m].enrolled /\ ~machines[m].uninstalled

--------------------------------------------------------------------------------
(***************************************************************************)
(* Who is authorized                                                       *)
(***************************************************************************)
\* Active, and userQuota says not blocked.
Granted(a) ==
    {<<u, a[u].generation>> : u \in {v \in Users : a[v].active /\ ~a[v].blocked}}

\* Fault: the fingerprint covers the users and not their generations.
SameUsers(granted, last) == {c[1] : c \in granted} = {c[1] : c \in last}

SameFingerprint(granted, last) == granted = last

\* PolicyStore.refresh with the accounts a
Refreshed(a) ==
    IF SameFingerprint(Granted(a), Latest(issued)) THEN issued
    ELSE Append(issued, Granted(a))

Refresh(a) ==
    /\ issued' = Refreshed(a)
    /\ Len(issued') <= MaxPolicy
    /\ past' = FALSE

--------------------------------------------------------------------------------
(***************************************************************************)
(* Revisions and their tasks                                               *)
(***************************************************************************)
\* Fault: the key of an automatic task does not name the installation.
KeyOfPolicy(m, policy) == [by |-> "policy", of |-> 0, policy |-> policy]

PolicyKey(m, policy) == [by |-> "policy", of |-> machines[m].epoch, policy |-> policy]
PublishKey(p) == [by |-> "publish", of |-> p, policy |-> 0]

KeyIsFree(m, key) == \A t \in 1..Len(tasks[m]) : tasks[m][t].key # key

\* Fault: the task names the version after the one that was written.
EnqueueNext(m, version, key) ==
    Append(tasks[m], [epoch |-> machines[m].epoch, version |-> version + 1,
                      key |-> key, state |-> "queued"])

\* enqueueTask for an apply task: a task nobody has accepted is superseded.
Enqueue(m, version, key) ==
    Append([t \in 1..Len(tasks[m]) |->
                IF tasks[m][t].state = "queued"
                THEN [tasks[m][t] EXCEPT !.state = "superseded"] ELSE tasks[m][t]],
           [epoch |-> machines[m].epoch, version |-> version, key |-> key,
            state |-> "queued"])

\* rememberUsers
Remembers(m, granted) == known[m] \cup {c[1] : c \in granted}

\* The machines reconcile writes a revision for.  An existing task with the
\* same key has another payload: the transaction of that machine fails.
Behind(log) ==
    {m \in Machines : /\ Serves(m) /\ Version(m) > 0
                      /\ desired[m] < Len(log)
                      /\ KeyIsFree(m, PolicyKey(m, Len(log)))}

\* ConfigurationStore.reconcile
Reconcile(a) ==
    /\ Refresh(a)
    /\ LET policy == Len(issued')
           granted == Granted(a)
           due == Behind(issued')
       IN  /\ revisions' = [m \in Machines |->
                  IF m \in due
                  THEN Append(revisions[m],
                              [settings |-> Latest(revisions[m]).settings,
                               policy |-> policy, granted |-> granted,
                               seen |-> Version(m)])
                  ELSE revisions[m]]
           /\ desired' = [m \in Machines |-> IF m \in due THEN policy ELSE desired[m]]
           /\ known' = [m \in Machines |->
                  IF m \in due THEN Remembers(m, granted) ELSE known[m]]
           /\ tasks' = [m \in Machines |->
                  IF m \in due
                  THEN Enqueue(m, Version(m) + 1, PolicyKey(m, policy))
                  ELSE tasks[m]]

--------------------------------------------------------------------------------
(***************************************************************************)
(* Accounts                                                                *)
(***************************************************************************)
\* updateUser, or the end of an activation: refresh in the same transaction.  A
\* new limit can be above or below what was used this month.
EditAccount(u) ==
    /\ \E field \in {"active", "blocked"} :
           accounts' = [accounts EXCEPT ![u][field] = ~@]
    /\ Refresh(accounts')
    /\ UNCHANGED <<drafts, machines, tasks, reports, nodes, faults>>

\* reportUsage: the batch that uses up the month's quota, then reconcile
Spend(u) ==
    /\ ~accounts[u].blocked
    /\ \E m \in Machines : Serves(m) /\ u \in known[m]
    /\ accounts' = [accounts EXCEPT ![u].blocked = TRUE]
    /\ Reconcile(accounts')
    /\ UNCHANGED <<previews, machines, reports, nodes, faults>>

\* The usage of the new month is zero; nothing in the panel is told.  (When nobody
\* is blocked, the month changes nothing here.)
NewMonth ==
    /\ \E u \in Users : accounts[u].blocked
    /\ past' = TRUE
    /\ accounts' = [u \in Users |-> [accounts[u] EXCEPT !.blocked = FALSE]]
    /\ Len(Refreshed(accounts')) <= MaxPolicy
    /\ UNCHANGED <<issued, drafts, machines, tasks, reports, nodes, faults>>

\* SubscriptionStore.resetProxyCredentials
ResetProxyCredentials(u) ==
    /\ accounts[u].generation < MaxGeneration
    /\ accounts' = [accounts EXCEPT ![u].generation = @ + 1]
    /\ Reconcile(accounts')
    /\ UNCHANGED <<previews, machines, reports, nodes, faults>>

\* The timer of startProxyMaintenance; a day later a preview is deleted, which
\* only turns one refusal of publish into another.
Tick ==
    /\ Reconcile(accounts)
    /\ UNCHANGED <<accounts, previews, machines, reports, nodes, faults>>

--------------------------------------------------------------------------------
(***************************************************************************)
(* The administrator                                                       *)
(***************************************************************************)
\* ConfigurationStore.preview; the version is the one on the screen
Preview(m, settings) ==
    /\ Len(previews) < MaxPreviews
    /\ ~machines[m].uninstalled
    /\ Refresh(accounts)
    /\ previews' = Append(previews,
           [machine |-> m, settings |-> settings, expected |-> Version(m),
            policy |-> Len(issued'), granted |-> Granted(accounts),
            published |-> FALSE])
    /\ UNCHANGED <<accounts, revisions, desired, known, machines, tasks,
                   reports, nodes, faults>>

\* Fault: only the version the client sends is compared, not the preview's.
AnyVersion(p) == TRUE

SameVersion(p) == previews[p].expected = Version(previews[p].machine)

\* ConfigurationStore.publish
Publish(p) ==
    LET preview == previews[p]
        m == preview.machine
    IN  /\ ~preview.published
        /\ Serves(m)
        /\ SameVersion(p)
        /\ Refresh(accounts)
        /\ preview.policy = Len(issued')
        /\ revisions' = [revisions EXCEPT ![m] = Append(@,
               [settings |-> preview.settings, policy |-> preview.policy,
                granted |-> preview.granted, seen |-> preview.expected])]
        /\ desired' = [desired EXCEPT ![m] = preview.policy]
        /\ previews' = [previews EXCEPT ![p].published = TRUE]
        /\ known' = [known EXCEPT ![m] = Remembers(m, Granted(accounts))]
        /\ tasks' = [tasks EXCEPT ![m] = Enqueue(m, Version(m) + 1, PublishKey(p))]
        /\ UNCHANGED <<accounts, machines, reports, nodes, faults>>

\* Canceling what nobody has accepted
Canceled(m) ==
    [t \in 1..Len(tasks[m]) |->
         IF tasks[m][t].state = "queued"
         THEN [tasks[m][t] EXCEPT !.state = "canceled"] ELSE tasks[m][t]]

\* rebindMachine: MachineStore.rebind and markForRebind in one transaction.  The
\* node that was bound may live on; no request of it is answered any more.
Rebind(m) ==
    /\ machines[m].epoch < MaxEpoch /\ faults < MaxFaults
    /\ \A t \in 1..Len(tasks[m]) : tasks[m][t].state # "accepted"
    /\ machines' = [machines EXCEPT ![m] =
           [epoch |-> @.epoch + 1, enrolled |-> FALSE, uninstalled |-> FALSE]]
    /\ desired' = [desired EXCEPT ![m] = 0]
    /\ tasks' = [tasks EXCEPT ![m] = Canceled(m)]
    /\ reports' = [reports EXCEPT ![m] = NoReport]
    /\ nodes' = [nodes EXCEPT ![m] = NoNode]
    /\ faults' = faults + 1
    /\ UNCHANGED <<accounts, policyRow, previews, revisions, known>>

--------------------------------------------------------------------------------
(***************************************************************************)
(* The node                                                                *)
(***************************************************************************)
\* bind: the first WatchTasks of a new installation
Enroll(m) ==
    /\ ~machines[m].enrolled
    /\ machines' = [machines EXCEPT ![m].enrolled = TRUE,
                                    ![m].epoch = IF @ = 0 THEN 1 ELSE @]
    /\ UNCHANGED <<accounts, policyRow, drafts, tasks, reports, nodes, faults>>

\* The result of an uninstall task arrives.
Uninstall(m) ==
    /\ Serves(m)
    /\ nodes[m].work = Idle
    /\ machines' = [machines EXCEPT ![m].uninstalled = TRUE]
    /\ tasks' = [tasks EXCEPT ![m] = Canceled(m)]
    /\ nodes' = [nodes EXCEPT ![m] = NoNode]
    /\ UNCHANGED <<accounts, policyRow, drafts, reports, faults>>

\* pending and accept: the one apply task that is queued
AcceptTask(m) ==
    /\ Serves(m)
    /\ nodes[m].work = Idle
    /\ \E t \in 1..Len(tasks[m]) :
           /\ tasks[m][t].state = "queued"
           /\ tasks' = [tasks EXCEPT ![m][t].state = "accepted"]
           /\ nodes' = [nodes EXCEPT ![m].work = [Idle EXCEPT !.stage = "accepted",
                                                              !.task = t]]
    /\ UNCHANGED <<panel, reports, faults>>

\* getConfig: the revision of the task and the authorization of this moment
GetConfig(m) ==
    /\ nodes[m].work.stage = "accepted"
    /\ Refresh(accounts)
    /\ nodes' = [nodes EXCEPT ![m].work.stage = "fetched",
                              ![m].work.policy = Len(issued'),
                              ![m].work.granted = Granted(accounts)]
    /\ UNCHANGED <<accounts, drafts, machines, tasks, reports, faults>>

\* The call fails, or the task ends before it: nothing at the node changes.
GetConfigFails(m) ==
    /\ nodes[m].work.stage = "accepted"
    /\ faults < MaxFaults
    /\ faults' = faults + 1
    /\ nodes' = [nodes EXCEPT ![m].work.stage = "failed"]
    /\ UNCHANGED <<panel, tasks, reports>>

\* What the accepted task names
Target(m) == revisions[m][tasks[m][nodes[m].work.task].version]

\* Fault: a configuration of an older policy is applied all the same.
AnyPolicy(m) == TRUE

NewestPolicy(m) == Target(m).policy = nodes[m].work.policy

ApplyConfig(m) ==
    /\ nodes[m].work.stage = "fetched"
    /\ NewestPolicy(m)
    /\ nodes' = [nodes EXCEPT
           ![m] = [revision |-> tasks[m][@.work.task].version,
                   policy |-> Target(m).policy, running |-> TRUE,
                   users |-> Target(m).granted,
                   work |-> [@.work EXCEPT !.stage = "succeeded"]]]
    /\ UNCHANGED <<panel, tasks, reports, faults>>

\* Apply gives up after PersistPolicy and restores what was applied before,
\* with the users of the new authorization.
RolledBack(m, end) ==
    LET node == nodes[m]
        ended == [node EXCEPT !.work.stage = end]
    IN  nodes' = [nodes EXCEPT
            ![m] = IF node.revision = 0 \/ node.policy >= node.work.policy THEN ended
                   ELSE [ended EXCEPT !.policy = node.work.policy, !.running = TRUE,
                                      !.users = node.work.granted]]

\* ErrStalePolicy: the authorization is newer than the revision.
ApplyStale(m) ==
    /\ nodes[m].work.stage = "fetched"
    /\ ~NewestPolicy(m)
    /\ RolledBack(m, "stale")
    /\ UNCHANGED <<panel, tasks, reports, faults>>

\* The core does not start: the old one is restored, nothing runs any more, or
\* (PrepareCore fails) the old one goes on.
ApplyFails(m) ==
    /\ nodes[m].work.stage = "fetched"
    /\ faults < MaxFaults
    /\ faults' = faults + 1
    /\ \/ RolledBack(m, "failed")
       \/ \E up \in {FALSE, nodes[m].running} :
              nodes' = [nodes EXCEPT ![m].running = up, ![m].work.stage = "failed"]
    /\ UNCHANGED <<panel, tasks, reports>>

\* reportTask with the result
ReportTask(m) ==
    /\ nodes[m].work.stage \in {"succeeded", "stale", "failed"}
    /\ tasks' = [tasks EXCEPT ![m][nodes[m].work.task].state = nodes[m].work.stage]
    /\ nodes' = [nodes EXCEPT ![m].work = Idle]
    /\ UNCHANGED <<panel, reports, faults>>

\* reportStatus; what the node serves is history
ReportStatus(m) ==
    /\ Serves(m)
    /\ LET status == [revision |-> nodes[m].revision, policy |-> nodes[m].policy,
                      healthy |-> nodes[m].running, open |-> Open(nodes[m])]
       IN  /\ reports[m] # status
           /\ reports' = [reports EXCEPT ![m] = status]
    /\ UNCHANGED <<panel, tasks, nodes, faults>>

--------------------------------------------------------------------------------
(***************************************************************************)
(* What a client is told                                                   *)
(***************************************************************************)
\* Fault: the newest revision counts, not the newest policy.
DesiredIsCurrent(m) == reports[m].policy >= desired[m]

AuthorizationCurrent(m) ==
    reports[m].policy >= desired[m] /\ reports[m].policy >= Revision

\* subscriptionSnapshot: the nodes whose address goes into a client's
\* configuration, with the present passwords of the user
Available(m) ==
    /\ Version(m) > 0 /\ ~machines[m].uninstalled
    /\ reports[m].revision > 0 /\ reports[m].healthy
    /\ AuthorizationCurrent(m)

--------------------------------------------------------------------------------
Init ==
    /\ accounts = [u \in Users |-> [active |-> FALSE, blocked |-> FALSE,
                                    generation |-> 1]]
    /\ issued = <<{}>>
    /\ past = FALSE
    /\ previews = <<>>
    /\ revisions = [m \in Machines |-> <<>>]
    /\ desired = [m \in Machines |-> 0]
    /\ known = [m \in Machines |-> {}]
    /\ machines = [m \in Machines |-> [epoch |-> 0, enrolled |-> FALSE,
                                       uninstalled |-> FALSE]]
    /\ tasks = [m \in Machines |-> <<>>]
    /\ reports = [m \in Machines |-> NoReport]
    /\ nodes = [m \in Machines |-> NoNode]
    /\ faults = 0

Access == \E u \in Users : EditAccount(u) \/ Spend(u) \/ ResetProxyCredentials(u)

Administer ==
    \/ \E m \in Machines : Rebind(m) \/ \E s \in Settings : Preview(m, s)
    \/ \E p \in 1..Len(previews) : Publish(p)

Apply(m) == ApplyConfig(m) \/ ApplyStale(m) \/ ApplyFails(m)

\* The one task a node works on
Work(m) ==
    AcceptTask(m) \/ GetConfig(m) \/ GetConfigFails(m) \/ Apply(m) \/ ReportTask(m)

Node(m) == Enroll(m) \/ Uninstall(m) \/ ReportStatus(m) \/ Work(m)

Next == Access \/ NewMonth \/ Tick \/ Administer \/ \E m \in Machines : Node(m)

\* The timer fires; a node that is bound works on what it is given.
Fairness == WF_vars(Tick) /\ \A m \in Machines : WF_vars(Work(m))

Spec == Init /\ [][Next]_vars
FairSpec == Spec /\ Fairness

--------------------------------------------------------------------------------
(***************************************************************************)
(* Properties                                                              *)
(***************************************************************************)
Revisions == [settings: Settings, policy: Nat, granted: SUBSET Credentials, seen: Nat]
Keys == [by: {"policy", "publish"}, of: Nat, policy: Nat]
Stages == {"idle", "accepted", "fetched", "succeeded", "stale", "failed"}

TypeOK ==
    /\ accounts \in [Users -> [active: BOOLEAN, blocked: BOOLEAN,
                               generation: 1..MaxGeneration]]
    /\ past \in BOOLEAN
    /\ issued \in Seq(SUBSET Credentials) /\ Len(issued) \in 1..MaxPolicy
    /\ previews \in Seq([machine: Machines, settings: Settings, expected: Nat,
                         policy: 1..MaxPolicy, granted: SUBSET Credentials,
                         published: BOOLEAN])
    /\ revisions \in [Machines -> Seq(Revisions)]
    /\ desired \in [Machines -> 0..MaxPolicy]
    /\ known \in [Machines -> SUBSET Users]
    /\ machines \in [Machines -> [epoch: 0..MaxEpoch, enrolled: BOOLEAN,
                                  uninstalled: BOOLEAN]]
    /\ \A m \in Machines : \A t \in 1..Len(tasks[m]) :
           tasks[m][t] \in [epoch: 1..MaxEpoch, version: 1..Version(m), key: Keys,
                            state: {"queued", "accepted", "succeeded", "stale",
                                    "failed", "superseded", "canceled"}]
    /\ reports \in [Machines -> [revision: Nat, policy: 0..MaxPolicy,
                                 healthy: BOOLEAN, open: SUBSET Credentials]]
    /\ nodes \in [Machines -> [revision: Nat, policy: 0..MaxPolicy,
                               running: BOOLEAN, users: SUBSET Credentials,
                               work: [stage: Stages, task: Nat,
                                      policy: 0..MaxPolicy,
                                      granted: SUBSET Credentials]]]
    /\ faults \in 0..MaxFaults

\* A policy revision names one set of credentials, wherever it is written:
\* in the revisions, in the previews, at the node that fetched it and at the
\* node that serves it.  The node refuses another content for a number it has
\* (PersistPolicy), so two sets with one number would lock it out.
PolicyNamesCredentials ==
    /\ \A m \in Machines :
           /\ \A n \in 1..Version(m) :
                  revisions[m][n].granted = issued[revisions[m][n].policy]
           /\ nodes[m].work.policy > 0 =>
                  nodes[m].work.granted = issued[nodes[m].work.policy]
           /\ nodes[m].policy > 0 => nodes[m].users = issued[nodes[m].policy]
    /\ \A p \in 1..Len(previews) : previews[p].granted = issued[previews[p].policy]

\* A revision replaces the version its administrator's screen had: an automatic
\* revision between the preview and its publication, or a colleague's, is never
\* overwritten by a preview that was made before it.
NoUnseenSettings ==
    \A m \in Machines : \A n \in 1..Version(m) : revisions[m][n].seen = n - 1

\* A node that is offered to a client lets the client in: the status it last
\* sent was sent while it served the user's present passwords.  In the first
\* seconds of a month the panel has not yet refreshed its policy.
AvailableMeansServed ==
    \A m \in Machines, u \in Users :
        Available(m) /\ ~past /\ accounts[u].active /\ ~accounts[u].blocked
            => <<u, accounts[u].generation>> \in reports[m].open

\* reportUsage takes traffic of a user only from a machine the user has been
\* authorized on: whoever a node lets in is remembered for that machine.  NOT so:
\* a rollback serves the newest authorization, and when that is replaced before
\* the timer writes a revision of it, its new users were never remembered here.
\* Their batch is refused for good, and every later batch waits behind it.
ServedUsersAreRemembered ==
    \A m \in Machines, u \in Users :
        (\E c \in Open(nodes[m]) : c[1] = u) ~> (u \in known[m])

HasNewest(m) ==
    /\ Latest(issued) = Granted(accounts)
    /\ nodes[m].revision = Version(m) /\ nodes[m].policy = Revision
    /\ Open(nodes[m]) = Latest(issued)

LatestFailed(m) ==
    /\ Latest(tasks[m]).state = "failed"
    /\ Latest(tasks[m]).epoch = machines[m].epoch

\* A node that works ends up with the newest configuration and exactly the users
\* who are authorized, also after it has been replaced.  Only a fault of the node
\* or of its calls can end this (reconcile does not repeat a task that failed):
\* then the newest task shows as failed, which an authorization that moved on
\* while the task was carried out must never be the reason for.
NodesCatchUp ==
    \A m \in Machines :
        []<>(Serves(m) /\ Version(m) > 0 => HasNewest(m) \/ LatestFailed(m))

Feed == INSTANCE AuthorizationFeed WITH
            served <- [m \in Machines |-> nodes[m].policy],
            open <- [m \in Machines |-> Open(nodes[m])]

\* Seen from outside this is AuthorizationFeed: a node serves one of the sets of
\* credentials the panel issued, and never returns to an older one.
FeedsAuthorization == Feed!Spec
================================================================================
