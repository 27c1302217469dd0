-------------------------- MODULE ConfigurationProofs --------------------------
(***************************************************************************)
(* Configuration.tla for every number of users, machines, settings and     *)
(* policies: what a policy revision names, what a publication replaces,    *)
(* what a client is told, and that the whole implements                    *)
(* AuthorizationFeed.tla.                                                  *)
(*                                                                         *)
(* The log of policies only grows (Grows), so whatever has named a policy, *)
(* a revision, a preview, a fetched configuration, a node or the status it *)
(* sent, names the same credentials for good.  That a node never returns   *)
(* to an older policy rests on the order at the node: what it fetches is   *)
(* never older than what it serves, and it fetches for one task at a time. *)
(***************************************************************************)
EXTENDS Configuration, TLAPS

AccountRows == [active: BOOLEAN, blocked: BOOLEAN, generation: 1..MaxGeneration]
PreviewRows == [machine: Machines, settings: Settings, expected: Nat,
                policy: 1..MaxPolicy, granted: SUBSET Credentials, published: BOOLEAN]
TaskRows == [epoch: 1..MaxEpoch, version: Nat \ {0}, key: Keys,
             state: {"queued", "accepted", "succeeded", "stale",
                     "failed", "superseded", "canceled"}]
WorkRows == [stage: Stages, task: Nat, policy: 0..MaxPolicy, granted: SUBSET Credentials]
NodeRows == [revision: Nat, policy: 0..MaxPolicy, running: BOOLEAN,
             users: SUBSET Credentials, work: WorkRows]
ReportRows == [revision: Nat, policy: 0..MaxPolicy, healthy: BOOLEAN,
               open: SUBSET Credentials]

Tables ==
    /\ accounts \in [Users -> AccountRows]
    /\ past \in BOOLEAN
    /\ issued \in Seq(SUBSET Credentials) /\ Len(issued) \in 1..MaxPolicy
    /\ previews \in Seq(PreviewRows)
    /\ revisions \in [Machines -> Seq(Revisions)]
    /\ desired \in [Machines -> 0..MaxPolicy]
    /\ known \in [Machines -> SUBSET Users]
    /\ machines \in [Machines -> [epoch: 0..MaxEpoch, enrolled: BOOLEAN,
                                  uninstalled: BOOLEAN]]
    /\ tasks \in [Machines -> Seq(TaskRows)]
    /\ reports \in [Machines -> ReportRows]
    /\ nodes \in [Machines -> NodeRows]
    /\ faults \in 0..MaxFaults

\* The policy a revision is of, what it contains and what it replaced
RevisionsStand ==
    \A m \in Machines : \A n \in 1..Version(m) :
        /\ revisions[m][n].policy \in 1..Revision
        /\ revisions[m][n].granted = issued[revisions[m][n].policy]
        /\ revisions[m][n].seen = n - 1

PreviewsStand ==
    \A p \in 1..Len(previews) :
        /\ previews[p].policy \in 1..Revision
        /\ previews[p].granted = issued[previews[p].policy]

TasksStand ==
    \A m \in Machines :
        /\ machines[m].enrolled => machines[m].epoch # 0
        /\ \A t \in 1..Len(tasks[m]) : tasks[m][t].version \in 1..Version(m)

\* What a node serves and what it has fetched; it fetches nothing older.
NodeStands(m) ==
    /\ nodes[m].policy <= Revision
    /\ nodes[m].policy > 0 => nodes[m].users = issued[nodes[m].policy]
    /\ nodes[m].policy = 0 => ~nodes[m].running
    /\ nodes[m].work.policy <= Revision
    /\ nodes[m].work.policy > 0 => nodes[m].work.granted = issued[nodes[m].work.policy]
    /\ nodes[m].work.stage # "idle" => nodes[m].work.task \in 1..Len(tasks[m])
    /\ nodes[m].work.stage = "fetched" =>
           nodes[m].work.policy > 0 /\ nodes[m].policy <= nodes[m].work.policy

ReportStands(m) ==
    /\ reports[m].policy <= Revision
    /\ reports[m].healthy => reports[m].policy > 0
    /\ reports[m].healthy => reports[m].open = issued[reports[m].policy]

\* Until a new month begins, the newest policy is who is authorized.
PolicyIsCurrent == ~past => Latest(issued) = Granted(accounts)

Inv ==
    /\ Tables /\ RevisionsStand /\ PreviewsStand /\ TasksStand /\ PolicyIsCurrent
    /\ \A m \in Machines : NodeStands(m) /\ ReportStands(m)

--------------------------------------------------------------------------------
(***************************************************************************)
(* The log of policies                                                     *)
(***************************************************************************)
Grows ==
    /\ issued' \in Seq(SUBSET Credentials) /\ Len(issued') \in 1..MaxPolicy
    /\ Len(issued') >= Len(issued)
    /\ \A p \in 1..Len(issued) : issued'[p] = issued[p]

LEMMA GrantedIsCredentials ==
  ASSUME NEW a \in [Users -> AccountRows]
  PROVE  Granted(a) \in SUBSET Credentials
BY DEF Granted, Credentials, AccountRows

\* refresh adds at most one policy, and the last one is who is authorized.
LEMMA RefreshGrows ==
  ASSUME Tables, NEW a \in [Users -> AccountRows], Refresh(a)
  PROVE  /\ Grows /\ past' = FALSE
         /\ issued'[Len(issued')] = Granted(a)
         /\ issued' = issued \/ issued' = Append(issued, Granted(a))
<1>1. Granted(a) \in SUBSET Credentials
  BY GrantedIsCredentials
<1>2. CASE SameFingerprint(Granted(a), Latest(issued))
  BY <1>2 DEF Tables, Refresh, Refreshed, Grows, SameFingerprint, Latest
<1>3. CASE ~SameFingerprint(Granted(a), Latest(issued))
  <2>1. issued' = Append(issued, Granted(a)) /\ Len(issued') <= MaxPolicy /\ past' = FALSE
    BY <1>3 DEF Refresh, Refreshed
  <2> QED  BY <1>1, <2>1 DEF Tables, Grows
<1> QED  BY <1>2, <1>3

LEMMA RevisionsKept ==
  ASSUME Inv, Grows, revisions' = revisions
  PROVE  RevisionsStand'
<1> SUFFICES ASSUME NEW m \in Machines, NEW n \in 1..Len(revisions[m])
             PROVE  /\ revisions[m][n].policy \in 1..Len(issued')
                    /\ revisions[m][n].granted = issued'[revisions[m][n].policy]
                    /\ revisions[m][n].seen = n - 1
  BY DEF RevisionsStand, Version, Revision
<1>1. /\ revisions[m][n].policy \in 1..Len(issued)
      /\ revisions[m][n].granted = issued[revisions[m][n].policy]
      /\ revisions[m][n].seen = n - 1
  BY DEF Inv, RevisionsStand, Version, Revision
<1> QED  BY <1>1 DEF Grows, Inv, Tables

LEMMA PreviewsKept ==
  ASSUME Inv, Grows, previews' = previews
  PROVE  PreviewsStand'
BY DEF Inv, Tables, PreviewsStand, Grows, Revision

LEMMA NodeKept ==
  ASSUME Inv, Grows, NEW m \in Machines, nodes'[m] = nodes[m],
         Len(tasks'[m]) >= Len(tasks[m]), Len(tasks'[m]) \in Nat
  PROVE  NodeStands(m)'
<1>1. /\ nodes[m].policy \in Nat /\ nodes[m].work.policy \in Nat /\ nodes[m].work.task \in Nat
      /\ Len(tasks[m]) \in Nat /\ Len(issued) \in Nat /\ Len(issued') \in Nat
  BY DEF Inv, Tables, NodeRows, WorkRows, Grows
<1>2. NodeStands(m)
  BY DEF Inv
<1>3. \A p \in 1..Len(issued) : issued'[p] = issued[p]
  BY DEF Grows
<1>4. 1..Len(tasks[m]) \subseteq 1..Len(tasks'[m]) /\ Len(issued) <= Len(issued')
  BY <1>1 DEF Grows
<1> QED  BY <1>1, <1>2, <1>3, <1>4 DEF NodeStands, Revision

LEMMA ReportKept ==
  ASSUME Inv, Grows, NEW m \in Machines, reports'[m] = reports[m]
  PROVE  ReportStands(m)'
<1>1. reports[m].policy \in Nat /\ Len(issued) \in Nat /\ Len(issued') \in Nat
  BY DEF Inv, Tables, ReportRows, Grows
<1> QED  BY <1>1 DEF Inv, ReportStands, Grows, Revision

LEMMA NodesKept ==
  ASSUME Inv, Grows, nodes' = nodes, reports' = reports, tasks' = tasks
  PROVE  \A m \in Machines : NodeStands(m)' /\ ReportStands(m)'
<1>1. \A m \in Machines : Len(tasks[m]) \in Nat
  BY DEF Inv, Tables
<1> QED  BY <1>1, NodeKept, ReportKept

LEMMA TasksKept ==
  ASSUME Inv, revisions' = revisions, tasks' = tasks, machines' = machines
  PROVE  TasksStand'
BY DEF Inv, TasksStand, Version

LEMMA PolicyKept ==
  ASSUME Inv, UNCHANGED <<accounts, issued, past>>
  PROVE  PolicyIsCurrent' /\ Grows
BY DEF Inv, Tables, PolicyIsCurrent, Grows

--------------------------------------------------------------------------------
(***************************************************************************)
(* New revisions and their tasks                                           *)
(***************************************************************************)
LEMMA RevisionAdded ==
  ASSUME Inv, Grows, NEW m \in Machines, NEW rev \in Revisions,
         rev.policy = Len(issued'), rev.granted = issued'[Len(issued')],
         rev.seen = Version(m), NEW log, log = Append(revisions[m], rev)
  PROVE  /\ log \in Seq(Revisions) /\ Len(log) = Version(m) + 1
         /\ \A n \in 1..Len(log) :
              /\ log[n].policy \in 1..Len(issued')
              /\ log[n].granted = issued'[log[n].policy]
              /\ log[n].seen = n - 1
<1>1. revisions[m] \in Seq(Revisions) /\ Len(revisions[m]) \in Nat
  BY DEF Inv, Tables
<1>2. log \in Seq(Revisions) /\ Len(log) = Len(revisions[m]) + 1 /\ log[Len(log)] = rev
      /\ \A n \in 1..Len(revisions[m]) : log[n] = revisions[m][n]
  BY <1>1
<1>3. ASSUME NEW n \in 1..Len(log)
      PROVE  /\ log[n].policy \in 1..Len(issued')
             /\ log[n].granted = issued'[log[n].policy]
             /\ log[n].seen = n - 1
  <2>1. CASE n = Len(log)
    BY <1>1, <1>2, <2>1 DEF Grows, Version
  <2>2. CASE n # Len(log)
    <3>1. n \in 1..Len(revisions[m]) /\ log[n] = revisions[m][n]
      BY <1>1, <1>2, <2>2
    <3>2. /\ revisions[m][n].policy \in 1..Len(issued)
          /\ revisions[m][n].granted = issued[revisions[m][n].policy]
          /\ revisions[m][n].seen = n - 1
      BY <3>1 DEF Inv, RevisionsStand, Version, Revision
    <3>3. Len(issued) \in Nat /\ Len(issued') \in Nat
      BY DEF Inv, Tables, Grows
    <3> QED  BY <3>1, <3>2, <3>3 DEF Grows
  <2> QED  BY <2>1, <2>2
<1> QED  BY <1>1, <1>2, <1>3 DEF Version

LEMMA FunctionIsSeq ==
  ASSUME NEW S, NEW n \in Nat, NEW f \in [1..n -> S]
  PROVE  f \in Seq(S) /\ Len(f) = n
<1>1. f = [i \in 1..n |-> f[i]]
  OBVIOUS
<1>2. \A i \in 1..n : f[i] \in S
  OBVIOUS
<1>3. [i \in 1..n |-> f[i]] \in Seq(S) /\ Len([i \in 1..n |-> f[i]]) = n
  BY <1>2
<1> QED  BY <1>1, <1>3

LEMMA Enqueued ==
  ASSUME Inv, NEW m \in Machines, machines[m].enrolled,
         NEW version \in Nat \ {0}, NEW key \in Keys,
         NEW queue, queue = Enqueue(m, version, key)
  PROVE  /\ queue \in Seq(TaskRows) /\ Len(queue) = Len(tasks[m]) + 1
         /\ \A t \in 1..Len(queue) :
              \/ t \in 1..Len(tasks[m]) /\ queue[t].version = tasks[m][t].version
              \/ queue[t].version = version
<1> DEFINE old == [t \in 1..Len(tasks[m]) |->
                      IF tasks[m][t].state = "queued"
                      THEN [tasks[m][t] EXCEPT !.state = "superseded"] ELSE tasks[m][t]]
           task == [epoch |-> machines[m].epoch, version |-> version, key |-> key,
                    state |-> "queued"]
<1>1. tasks[m] \in Seq(TaskRows) /\ Len(tasks[m]) \in Nat
  BY DEF Inv, Tables
<1>2. machines[m].epoch \in 1..MaxEpoch
  BY ConfigurationAssumption DEF Inv, Tables, TasksStand
<1>3. task \in TaskRows
  BY <1>2 DEF TaskRows
<1>4. ASSUME NEW t \in 1..Len(tasks[m])
      PROVE  old[t] \in TaskRows /\ old[t].version = tasks[m][t].version
  <2>1. tasks[m][t] \in TaskRows
    BY <1>1
  <2>2. old[t] = tasks[m][t] \/ old[t] = [tasks[m][t] EXCEPT !.state = "superseded"]
    OBVIOUS
  <2> HIDE DEF old
  <2> QED  BY <2>1, <2>2 DEF TaskRows
<1>5. old \in Seq(TaskRows) /\ Len(old) = Len(tasks[m])
  <2>1. old \in [1..Len(tasks[m]) -> TaskRows]
    BY <1>4
  <2> HIDE DEF old
  <2> QED  BY <1>1, <2>1, FunctionIsSeq
<1>6. queue = Append(old, task)
  BY DEF Enqueue
<1> HIDE DEF old, task
<1>7. task.version = version
  BY DEF task
<1>8. /\ queue \in Seq(TaskRows) /\ Len(queue) = Len(old) + 1
      /\ queue[Len(queue)] = task /\ \A t \in 1..Len(old) : queue[t] = old[t]
  BY <1>3, <1>5, <1>6
<1> QED  BY <1>1, <1>4, <1>5, <1>7, <1>8

LEMMA QueueCanceled ==
  ASSUME Inv, NEW m \in Machines
  PROVE  /\ Canceled(m) \in Seq(TaskRows) /\ Len(Canceled(m)) = Len(tasks[m])
         /\ \A t \in 1..Len(tasks[m]) : Canceled(m)[t].version = tasks[m][t].version
<1>1. tasks[m] \in Seq(TaskRows) /\ Len(tasks[m]) \in Nat
  BY DEF Inv, Tables
<1>2. ASSUME NEW t \in 1..Len(tasks[m])
      PROVE  Canceled(m)[t] \in TaskRows /\ Canceled(m)[t].version = tasks[m][t].version
  <2>1. tasks[m][t] \in TaskRows
    BY <1>1
  <2>2. \/ Canceled(m)[t] = tasks[m][t]
        \/ Canceled(m)[t] = [tasks[m][t] EXCEPT !.state = "canceled"]
    BY DEF Canceled
  <2> QED  BY <2>1, <2>2 DEF TaskRows
<1>3. Canceled(m) \in [1..Len(tasks[m]) -> TaskRows]
  BY <1>2 DEF Canceled
<1> QED  BY <1>1, <1>2, <1>3, FunctionIsSeq

--------------------------------------------------------------------------------
(***************************************************************************)
(* The steps                                                               *)
(***************************************************************************)
LEMMA InitHolds == Init => Inv
<1> SUFFICES ASSUME Init PROVE Inv
  OBVIOUS
<1>1. Tables
  <2>1. accounts \in [Users -> AccountRows]
    BY ConfigurationAssumption DEF Init, AccountRows
  <2>2. issued \in Seq(SUBSET Credentials) /\ Len(issued) \in 1..MaxPolicy
    BY ConfigurationAssumption DEF Init
  <2>3. machines \in [Machines -> [epoch: 0..MaxEpoch, enrolled: BOOLEAN, uninstalled: BOOLEAN]]
    BY ConfigurationAssumption DEF Init
  <2>4. NoReport \in ReportRows
    BY ConfigurationAssumption DEF NoReport, ReportRows
  <2>5. Idle \in WorkRows
    BY ConfigurationAssumption DEF Idle, WorkRows, Stages
  <2>6. NoNode \in NodeRows
    BY <2>5, ConfigurationAssumption DEF NoNode, NodeRows
  <2>7. previews \in Seq(PreviewRows)
    BY DEF Init
  <2>12. past \in BOOLEAN
    BY DEF Init
  <2>11. faults \in 0..MaxFaults
    BY ConfigurationAssumption DEF Init
  <2>8. /\ revisions \in [Machines -> Seq(Revisions)]
        /\ tasks \in [Machines -> Seq(TaskRows)]
    BY DEF Init
  <2>9. /\ desired \in [Machines -> 0..MaxPolicy]
        /\ known \in [Machines -> SUBSET Users]
    BY ConfigurationAssumption DEF Init
  <2>10. reports \in [Machines -> ReportRows] /\ nodes \in [Machines -> NodeRows]
    BY <2>4, <2>6 DEF Init
  <2> QED
    BY <2>1, <2>2, <2>3, <2>7, <2>8, <2>9, <2>10, <2>11, <2>12 DEF Tables
<1>2. RevisionsStand /\ PreviewsStand /\ TasksStand
  BY DEF Init, RevisionsStand, PreviewsStand, TasksStand, Version
<1>3. PolicyIsCurrent
  BY DEF Init, PolicyIsCurrent, Latest, Granted
<1>4. \A m \in Machines : NodeStands(m) /\ ReportStands(m)
  BY DEF Init, NodeStands, ReportStands, Revision, NoNode, Idle, NoReport
<1> QED  BY <1>1, <1>2, <1>3, <1>4 DEF Inv

LEMMA ReconcileKeeps ==
  ASSUME Inv, accounts' \in [Users -> AccountRows], Reconcile(accounts'),
         UNCHANGED <<previews, machines, reports, nodes, faults>>
  PROVE  Inv' /\ Grows
<1> DEFINE policy == Len(issued')
           granted == Granted(accounts')
           due == Behind(issued')
           rev(m) == [settings |-> Latest(revisions[m]).settings, policy |-> policy,
                      granted |-> granted, seen |-> Version(m)]
<1>1. /\ Grows /\ past' = FALSE /\ issued'[Len(issued')] = granted
  BY RefreshGrows DEF Reconcile, Inv
<1>2. granted \in SUBSET Credentials
  BY GrantedIsCredentials
<1>3. PolicyIsCurrent'
  BY <1>1 DEF PolicyIsCurrent, Latest, Granted
<1>4. \A m \in Machines :
        /\ revisions'[m] = IF m \in due THEN Append(revisions[m], rev(m)) ELSE revisions[m]
        /\ desired'[m] = IF m \in due THEN policy ELSE desired[m]
        /\ known'[m] = IF m \in due THEN Remembers(m, granted) ELSE known[m]
        /\ tasks'[m] = IF m \in due THEN Enqueue(m, Version(m) + 1, PolicyKey(m, policy))
                       ELSE tasks[m]
  BY DEF Reconcile
<1>5. /\ revisions' = [m \in Machines |-> revisions'[m]]
      /\ desired' = [m \in Machines |-> desired'[m]]
      /\ known' = [m \in Machines |-> known'[m]]
      /\ tasks' = [m \in Machines |-> tasks'[m]]
  BY DEF Reconcile
<1>6. \A m \in due : machines[m].enrolled /\ Version(m) > 0 /\ Version(m) \in Nat
  BY DEF Behind, Serves, Version, Inv, Tables
<1> HIDE DEF due, granted, policy
<1>7. ASSUME NEW m \in Machines
      PROVE  /\ revisions'[m] \in Seq(Revisions) /\ Len(revisions'[m]) >= Version(m)
             /\ \A n \in 1..Len(revisions'[m]) :
                  /\ revisions'[m][n].policy \in 1..Len(issued')
                  /\ revisions'[m][n].granted = issued'[revisions'[m][n].policy]
                  /\ revisions'[m][n].seen = n - 1
             /\ m \in due => Len(revisions'[m]) = Version(m) + 1
  <2>1. CASE m \in due
    <3>1. revisions[m] \in Seq(Revisions) /\ Len(revisions[m]) > 0
      BY <1>6, <2>1 DEF Inv, Tables, Version
    <3>2. Latest(revisions[m]) \in Revisions
      BY <3>1 DEF Latest
    <3>3. rev(m) \in Revisions
      BY <1>1, <1>2, <1>6, <2>1, <3>2 DEF Revisions, Grows, policy
    <3>4. revisions'[m] = Append(revisions[m], rev(m))
      BY <1>4, <2>1
    <3>5. rev(m).policy = Len(issued') /\ rev(m).granted = issued'[Len(issued')]
          /\ rev(m).seen = Version(m)
      BY <1>1 DEF policy
    <3>6. Version(m) \in Nat
      BY <1>6, <2>1
    <3> HIDE DEF rev
    <3>7. /\ revisions'[m] \in Seq(Revisions) /\ Len(revisions'[m]) = Version(m) + 1
          /\ \A n \in 1..Len(revisions'[m]) :
               /\ revisions'[m][n].policy \in 1..Len(issued')
               /\ revisions'[m][n].granted = issued'[revisions'[m][n].policy]
               /\ revisions'[m][n].seen = n - 1
      BY <1>1, <3>3, <3>4, <3>5, RevisionAdded
    <3> QED  BY <3>6, <3>7
  <2>2. CASE m \notin due
    <3>1. revisions'[m] = revisions[m] /\ revisions[m] \in Seq(Revisions)
      BY <1>4, <2>2 DEF Inv, Tables
    <3>2. ASSUME NEW n \in 1..Len(revisions[m])
          PROVE  /\ revisions[m][n].policy \in 1..Len(issued')
                 /\ revisions[m][n].granted = issued'[revisions[m][n].policy]
                 /\ revisions[m][n].seen = n - 1
      <4>1. /\ revisions[m][n].policy \in 1..Len(issued)
            /\ revisions[m][n].granted = issued[revisions[m][n].policy]
            /\ revisions[m][n].seen = n - 1
        BY DEF Inv, RevisionsStand, Version, Revision
      <4> QED  BY <4>1, <1>1 DEF Grows, Inv, Tables
    <3> QED  BY <2>2, <3>1, <3>2 DEF Version
  <2> QED  BY <2>1, <2>2
<1>8. ASSUME NEW m \in Machines
      PROVE  /\ tasks'[m] \in Seq(TaskRows) /\ Len(tasks'[m]) >= Len(tasks[m])
             /\ Len(tasks'[m]) \in Nat
             /\ \A t \in 1..Len(tasks'[m]) : tasks'[m][t].version \in 1..Len(revisions'[m])
  <2>1. /\ Len(tasks[m]) \in Nat /\ Version(m) \in Nat /\ Len(revisions'[m]) \in Nat
        /\ tasks[m] \in Seq(TaskRows)
        /\ \A t \in 1..Len(tasks[m]) : tasks[m][t].version \in 1..Version(m)
    BY <1>7 DEF Inv, Tables, Version, TasksStand
  <2>2. CASE m \in due
    <3>1. PolicyKey(m, policy) \in Keys
      BY <1>1 DEF Inv, Tables, PolicyKey, Keys, policy, Grows
    <3>2. /\ machines[m].enrolled /\ Version(m) + 1 \in Nat \ {0}
          /\ Len(revisions'[m]) = Version(m) + 1
      BY <1>6, <1>7, <2>1, <2>2
    <3> HIDE DEF rev
    <3>5. tasks'[m] = Enqueue(m, Version(m) + 1, PolicyKey(m, policy))
      BY <1>4, <2>2
    <3>3. /\ tasks'[m] \in Seq(TaskRows) /\ Len(tasks'[m]) = Len(tasks[m]) + 1
          /\ \A t \in 1..Len(tasks'[m]) :
               \/ t \in 1..Len(tasks[m]) /\ tasks'[m][t].version = tasks[m][t].version
               \/ tasks'[m][t].version = Version(m) + 1
      BY <3>1, <3>2, <3>5, Enqueued
    <3>4. ASSUME NEW t \in 1..Len(tasks'[m])
          PROVE  tasks'[m][t].version \in 1..(Version(m) + 1)
      <4>1. CASE t \in 1..Len(tasks[m]) /\ tasks'[m][t].version = tasks[m][t].version
        BY <2>1, <4>1
      <4>2. CASE tasks'[m][t].version = Version(m) + 1
        BY <2>1, <4>2
      <4> QED  BY <3>3, <4>1, <4>2
    <3> QED  BY <2>1, <3>2, <3>3, <3>4
  <2>3. CASE m \notin due
    <3>1. tasks'[m] = tasks[m] /\ Len(revisions'[m]) >= Version(m)
      BY <1>4, <1>7, <2>3
    <3>2. \A t \in 1..Len(tasks[m]) : tasks[m][t].version \in 1..Len(revisions'[m])
      BY <2>1, <3>1
    <3> QED  BY <2>1, <3>1, <3>2
  <2> QED  BY <2>2, <2>3
<1>9. Tables'
  <2>1. \A m \in Machines : desired'[m] \in 0..MaxPolicy /\ known'[m] \in SUBSET Users
    <3>1. \A c \in granted : c[1] \in Users
      BY <1>2 DEF Credentials
    <3>2. policy \in 0..MaxPolicy
      BY <1>1 DEF Grows, policy
    <3> HIDE DEF rev
    <3>3. ASSUME NEW m \in Machines
          PROVE  desired'[m] \in 0..MaxPolicy /\ known'[m] \in SUBSET Users
      <4>1. desired[m] \in 0..MaxPolicy /\ known[m] \in SUBSET Users
        BY DEF Inv, Tables
      <4>2. /\ desired'[m] = policy \/ desired'[m] = desired[m]
            /\ known'[m] = Remembers(m, granted) \/ known'[m] = known[m]
        BY <1>4
      <4> QED  BY <3>1, <3>2, <4>1, <4>2 DEF Remembers
    <3> QED  BY <3>3
  <2> QED  BY <1>1, <1>5, <1>7, <1>8, <2>1 DEF Inv, Tables, Grows
<1>10. RevisionsStand' /\ TasksStand'
  BY <1>7, <1>8 DEF RevisionsStand, TasksStand, Version, Revision, Inv
<1>11. PreviewsStand'
  BY <1>1, PreviewsKept
<1>12. \A m \in Machines : NodeStands(m)' /\ ReportStands(m)'
  BY <1>1, <1>8, NodeKept, ReportKept
<1> QED  BY <1>1, <1>3, <1>9, <1>10, <1>11, <1>12 DEF Inv

\* A step that changes accounts and, at most, adds a policy
LEMMA RefreshKeeps ==
  ASSUME Inv, accounts' \in [Users -> AccountRows], Refresh(accounts'),
         UNCHANGED <<drafts, machines, tasks, reports, nodes, faults>>
  PROVE  Inv'
<1>1. Grows /\ past' = FALSE /\ issued'[Len(issued')] = Granted(accounts')
  BY RefreshGrows DEF Inv
<1>2. PolicyIsCurrent'
  BY <1>1 DEF PolicyIsCurrent, Latest, Granted
<1>3. Tables'
  BY <1>1 DEF Inv, Tables, Grows, drafts
<1>4. RevisionsStand' /\ PreviewsStand' /\ TasksStand'
  BY <1>1, RevisionsKept, PreviewsKept, TasksKept DEF drafts
<1>5. \A m \in Machines : NodeStands(m)' /\ ReportStands(m)'
  BY <1>1, NodesKept
<1> QED  BY <1>2, <1>3, <1>4, <1>5 DEF Inv

LEMMA EditAccountKeeps ==
  ASSUME Inv, NEW u \in Users, EditAccount(u)
  PROVE  Inv'
<1>1. PICK field \in {"active", "blocked"} :
        accounts' = [accounts EXCEPT ![u][field] = ~@]
  BY DEF EditAccount
<1>2. accounts[u] \in AccountRows
  BY DEF Inv, Tables
<1>3. accounts'[u] \in AccountRows
  <2>1. CASE field = "active"
    <3>1. accounts'[u] = [accounts[u] EXCEPT !.active = ~accounts[u].active]
      BY <1>1, <2>1 DEF Inv, Tables
    <3> QED  BY <1>2, <3>1 DEF AccountRows
  <2>2. CASE field = "blocked"
    <3>1. accounts'[u] = [accounts[u] EXCEPT !.blocked = ~accounts[u].blocked]
      BY <1>1, <2>2 DEF Inv, Tables
    <3> QED  BY <1>2, <3>1 DEF AccountRows
  <2> QED  BY <2>1, <2>2
<1>4. accounts' \in [Users -> AccountRows]
  BY <1>1, <1>3 DEF Inv, Tables
<1> QED  BY <1>4, RefreshKeeps DEF EditAccount

LEMMA AccessKeeps ==
  ASSUME Inv, NEW u \in Users, Spend(u) \/ ResetProxyCredentials(u)
  PROVE  Inv' /\ Grows
<1>1. accounts[u] \in AccountRows
  BY DEF Inv, Tables
<1>2. CASE Spend(u)
  <2>1. accounts'[u] = [accounts[u] EXCEPT !.blocked = TRUE]
    BY <1>2 DEF Spend, Inv, Tables
  <2>2. accounts'[u] \in AccountRows
    BY <1>1, <2>1 DEF AccountRows
  <2>3. accounts' \in [Users -> AccountRows]
    BY <1>2, <2>2 DEF Spend, Inv, Tables
  <2> QED  BY <1>2, <2>3, ReconcileKeeps DEF Spend
<1>3. CASE ResetProxyCredentials(u)
  <2>1. accounts'[u] = [accounts[u] EXCEPT !.generation = accounts[u].generation + 1]
    BY <1>3 DEF ResetProxyCredentials, Inv, Tables
  <2>2. accounts'[u] \in AccountRows
    BY <1>1, <1>3, <2>1, ConfigurationAssumption DEF AccountRows, ResetProxyCredentials
  <2>3. accounts' \in [Users -> AccountRows]
    BY <1>3, <2>2 DEF ResetProxyCredentials, Inv, Tables
  <2> QED  BY <1>3, <2>3, ReconcileKeeps DEF ResetProxyCredentials
<1> QED  BY <1>2, <1>3

LEMMA NewMonthKeeps ==
  ASSUME Inv, NewMonth
  PROVE  Inv'
<1>1. accounts' \in [Users -> AccountRows]
  <2>1. ASSUME NEW u \in Users PROVE [accounts[u] EXCEPT !.blocked = FALSE] \in AccountRows
    <3>1. accounts[u] \in AccountRows
      BY DEF Inv, Tables
    <3> QED  BY <3>1 DEF AccountRows
  <2> QED  BY <2>1 DEF NewMonth
<1>2. Tables' /\ Grows
  BY <1>1 DEF NewMonth, drafts, Inv, Tables, Grows
<1>3. PolicyIsCurrent'
  BY DEF NewMonth, PolicyIsCurrent
<1>4. RevisionsStand' /\ PreviewsStand' /\ TasksStand'
  BY <1>2, RevisionsKept, PreviewsKept, TasksKept DEF NewMonth, drafts
<1>5. \A m \in Machines : NodeStands(m)' /\ ReportStands(m)'
  BY <1>2, NodesKept DEF NewMonth
<1> QED  BY <1>2, <1>3, <1>4, <1>5 DEF Inv

LEMMA PreviewKeeps ==
  ASSUME Inv, NEW m \in Machines, NEW settings \in Settings, Preview(m, settings)
  PROVE  Inv'
<1> DEFINE row == [machine |-> m, settings |-> settings, expected |-> Version(m),
                   policy |-> Len(issued'), granted |-> Granted(accounts),
                   published |-> FALSE]
<1>1. /\ Grows /\ past' = FALSE /\ issued'[Len(issued')] = Granted(accounts)
      /\ accounts' = accounts
  BY RefreshGrows DEF Inv, Tables, Preview
<1>2. PolicyIsCurrent'
  BY <1>1 DEF PolicyIsCurrent, Latest
<1>3. row \in PreviewRows
  <2>1. Granted(accounts) \in SUBSET Credentials
    BY GrantedIsCredentials DEF Inv, Tables
  <2>2. Version(m) \in Nat
    BY DEF Inv, Tables, Version
  <2> QED  BY <1>1, <2>1, <2>2 DEF PreviewRows, Grows
<1>4. row.policy = Len(issued') /\ row.granted = issued'[Len(issued')]
  BY <1>1
<1>5. previews' = Append(previews, row) /\ previews \in Seq(PreviewRows)
  BY DEF Preview, Inv, Tables
<1> HIDE DEF row
<1>6. /\ previews' \in Seq(PreviewRows) /\ Len(previews') = Len(previews) + 1
      /\ previews'[Len(previews')] = row
      /\ \A p \in 1..Len(previews) : previews'[p] = previews[p]
  BY <1>3, <1>5
<1>7. PreviewsStand'
  <2>1. ASSUME NEW p \in 1..Len(previews')
        PROVE  /\ previews'[p].policy \in 1..Len(issued')
               /\ previews'[p].granted = issued'[previews'[p].policy]
    <3>1. CASE p = Len(previews')
      BY <1>1, <1>4, <1>6, <3>1 DEF Grows
    <3>2. CASE p # Len(previews')
      <4>1. p \in 1..Len(previews) /\ previews'[p] = previews[p]
        BY <1>5, <1>6, <3>2
      <4>2. /\ previews[p].policy \in 1..Len(issued)
            /\ previews[p].granted = issued[previews[p].policy]
        BY <4>1 DEF Inv, PreviewsStand, Revision
      <4>3. Len(issued) \in Nat
        BY DEF Inv, Tables
      <4> QED  BY <1>1, <4>1, <4>2, <4>3 DEF Grows
    <3> QED  BY <3>1, <3>2
  <2> QED  BY <2>1 DEF PreviewsStand, Revision
<1>8. Tables'
  BY <1>1, <1>6 DEF Preview, Inv, Tables, Grows
<1>9. RevisionsStand' /\ TasksStand'
  BY <1>1, RevisionsKept, TasksKept DEF Preview
<1>10. \A n \in Machines : NodeStands(n)' /\ ReportStands(n)'
  BY <1>1, NodesKept DEF Preview
<1> QED  BY <1>2, <1>7, <1>8, <1>9, <1>10 DEF Inv

LEMMA PublishKeeps ==
  ASSUME Inv, NEW p \in 1..Len(previews), Publish(p)
  PROVE  Inv'
<1> DEFINE preview == previews[p]
           m == preview.machine
           rev == [settings |-> preview.settings, policy |-> preview.policy,
                   granted |-> preview.granted, seen |-> preview.expected]
<1>1. /\ Grows /\ past' = FALSE /\ issued'[Len(issued')] = Granted(accounts)
      /\ accounts' = accounts
  BY RefreshGrows DEF Inv, Tables, Publish
<1>2. PolicyIsCurrent'
  BY <1>1 DEF PolicyIsCurrent, Latest
<1>3. previews \in Seq(PreviewRows) /\ preview \in PreviewRows /\ m \in Machines
  <2>1. previews \in Seq(PreviewRows)
    BY DEF Inv, Tables
  <2>2. preview \in PreviewRows
    BY <2>1
  <2> QED  BY <2>1, <2>2 DEF PreviewRows
<1>4. /\ preview.policy = Len(issued') /\ preview.expected = Version(m)
      /\ machines[m].enrolled
  BY DEF Publish, SameVersion, Serves
<1>5. preview.granted = issued'[Len(issued')]
  BY <1>1, <1>4 DEF Inv, PreviewsStand, Revision, Grows
<1>6. rev \in Revisions /\ Version(m) \in Nat
  <2>1. /\ preview.settings \in Settings /\ preview.policy \in Nat
        /\ preview.granted \in SUBSET Credentials /\ preview.expected \in Nat
    BY <1>3, ConfigurationAssumption DEF PreviewRows
  <2>2. Version(m) \in Nat
    BY <1>3 DEF Inv, Tables, Version
  <2> QED  BY <2>1, <2>2 DEF Revisions
<1>7. /\ rev.policy = Len(issued') /\ rev.granted = issued'[Len(issued')]
      /\ rev.seen = Version(m)
  BY <1>4, <1>5
<1>8. /\ revisions' = [revisions EXCEPT ![m] = Append(revisions[m], rev)]
      /\ desired' = [desired EXCEPT ![m] = preview.policy]
      /\ previews' = [previews EXCEPT ![p].published = TRUE]
      /\ known' = [known EXCEPT ![m] = Remembers(m, Granted(accounts))]
      /\ tasks' = [tasks EXCEPT ![m] = Enqueue(m, Version(m) + 1, PublishKey(p))]
      /\ UNCHANGED <<machines, reports, nodes, faults>>
  BY DEF Publish
<1> HIDE DEF rev, m
<1>9. /\ revisions'[m] \in Seq(Revisions) /\ Len(revisions'[m]) = Version(m) + 1
      /\ \A n \in 1..Len(revisions'[m]) :
           /\ revisions'[m][n].policy \in 1..Len(issued')
           /\ revisions'[m][n].granted = issued'[revisions'[m][n].policy]
           /\ revisions'[m][n].seen = n - 1
  <2>1. revisions'[m] = Append(revisions[m], rev)
    BY <1>3, <1>8 DEF Inv, Tables
  <2> QED  BY <1>1, <1>3, <1>6, <1>7, <2>1, RevisionAdded
<1>10. /\ tasks'[m] \in Seq(TaskRows) /\ Len(tasks'[m]) = Len(tasks[m]) + 1
       /\ \A t \in 1..Len(tasks'[m]) :
            \/ t \in 1..Len(tasks[m]) /\ tasks'[m][t].version = tasks[m][t].version
            \/ tasks'[m][t].version = Version(m) + 1
  <2>1. tasks'[m] = Enqueue(m, Version(m) + 1, PublishKey(p))
    BY <1>3, <1>8 DEF Inv, Tables
  <2>2. PublishKey(p) \in Keys
    BY DEF PublishKey, Keys
  <2>3. Version(m) + 1 \in Nat \ {0}
    BY <1>3, <1>6
  <2> QED  BY <1>3, <1>4, <2>1, <2>2, <2>3, Enqueued
<1>11. \A o \in Machines \ {m} : revisions'[o] = revisions[o] /\ tasks'[o] = tasks[o]
  BY <1>3, <1>8 DEF Inv, Tables
<1>12. /\ previews' \in Seq(PreviewRows) /\ Len(previews') = Len(previews)
       /\ \A q \in 1..Len(previews) : /\ previews'[q].policy = previews[q].policy
                                      /\ previews'[q].granted = previews[q].granted
  <2> DEFINE row == [preview EXCEPT !.published = TRUE]
  <2>1. /\ row \in PreviewRows /\ row.policy = preview.policy
        /\ row.granted = preview.granted
    BY <1>3 DEF PreviewRows
  <2>2. previews' = [previews EXCEPT ![p] = row]
    BY <1>8
  <2> HIDE DEF row
  <2> QED  BY <1>3, <2>1, <2>2
<1>13. PreviewsStand'
  <2>1. ASSUME NEW q \in 1..Len(previews)
        PROVE  /\ previews'[q].policy \in 1..Len(issued')
               /\ previews'[q].granted = issued'[previews'[q].policy]
    <3>1. /\ previews[q].policy \in 1..Len(issued)
          /\ previews[q].granted = issued[previews[q].policy]
      BY DEF Inv, PreviewsStand, Revision
    <3> QED  BY <1>1, <1>12, <3>1 DEF Grows, Inv, Tables
  <2> QED  BY <1>12, <2>1 DEF PreviewsStand, Revision
<1>14. RevisionsStand'
  <2>1. ASSUME NEW o \in Machines, o # m, NEW n \in 1..Len(revisions[o])
        PROVE  /\ revisions[o][n].policy \in 1..Len(issued')
               /\ revisions[o][n].granted = issued'[revisions[o][n].policy]
               /\ revisions[o][n].seen = n - 1
    <3>1. /\ revisions[o][n].policy \in 1..Len(issued)
          /\ revisions[o][n].granted = issued[revisions[o][n].policy]
          /\ revisions[o][n].seen = n - 1
      BY DEF Inv, RevisionsStand, Version, Revision
    <3> QED  BY <1>1, <3>1 DEF Grows, Inv, Tables
  <2>2. ASSUME NEW o \in Machines, NEW n \in 1..Len(revisions'[o])
        PROVE  /\ revisions'[o][n].policy \in 1..Len(issued')
               /\ revisions'[o][n].granted = issued'[revisions'[o][n].policy]
               /\ revisions'[o][n].seen = n - 1
    <3>1. CASE o = m
      BY <1>9, <3>1
    <3>2. CASE o # m
      BY <1>11, <2>1, <3>2
    <3> QED  BY <3>1, <3>2
  <2> QED  BY <2>2 DEF RevisionsStand, Version, Revision
<1>15. TasksStand'
  <2>1. ASSUME NEW o \in Machines, NEW t \in 1..Len(tasks'[o])
        PROVE  tasks'[o][t].version \in 1..Len(revisions'[o])
    <3>1. CASE o # m
      BY <1>11, <3>1 DEF Inv, TasksStand, Version
    <3>2. CASE o = m /\ t \in 1..Len(tasks[m]) /\ tasks'[m][t].version = tasks[m][t].version
      <4>1. tasks[m][t].version \in 1..Version(m)
        BY <1>3, <3>2 DEF Inv, TasksStand
      <4> QED  BY <1>6, <1>9, <3>2, <4>1
    <3>3. CASE o = m /\ tasks'[m][t].version = Version(m) + 1
      BY <1>6, <1>9, <3>3
    <3> QED  BY <1>10, <3>1, <3>2, <3>3
  <2> QED  BY <1>8, <2>1 DEF TasksStand, Version, Inv
<1>16. Tables'
  <2>1. /\ revisions' \in [Machines -> Seq(Revisions)]
        /\ tasks' \in [Machines -> Seq(TaskRows)]
    BY <1>3, <1>8, <1>9, <1>10, <1>11 DEF Inv, Tables
  <2>2. desired' \in [Machines -> 0..MaxPolicy]
    <3>1. preview.policy \in 0..MaxPolicy
      BY <1>1, <1>4 DEF Grows
    <3> HIDE DEF preview
    <3> QED  BY <1>8, <3>1 DEF Inv, Tables
  <2>3. known' \in [Machines -> SUBSET Users]
    <3>1. Granted(accounts) \in SUBSET Credentials
      BY GrantedIsCredentials DEF Inv, Tables
    <3>2. Remembers(m, Granted(accounts)) \in SUBSET Users
      BY <1>3, <3>1 DEF Remembers, Credentials, Inv, Tables
    <3> QED  BY <1>8, <3>2 DEF Inv, Tables
  <2> QED  BY <1>1, <1>8, <1>12, <2>1, <2>2, <2>3 DEF Inv, Tables, Grows
<1>17. \A o \in Machines : NodeStands(o)' /\ ReportStands(o)'
  <2>1. ASSUME NEW o \in Machines
        PROVE  Len(tasks'[o]) >= Len(tasks[o]) /\ Len(tasks'[o]) \in Nat
    <3>1. Len(tasks[o]) \in Nat
      BY DEF Inv, Tables
    <3> QED  BY <1>10, <1>11, <3>1
  <2> QED  BY <1>1, <1>8, <2>1, NodeKept, ReportKept
<1> QED  BY <1>2, <1>13, <1>14, <1>15, <1>16, <1>17 DEF Inv

--------------------------------------------------------------------------------
(***************************************************************************)
(* The steps of a node                                                     *)
(***************************************************************************)
LEMMA NodeOnly ==
  ASSUME Inv, Grows, PolicyIsCurrent', past' \in BOOLEAN,
         UNCHANGED <<accounts, drafts, machines, reports>>, faults' \in 0..MaxFaults,
         tasks' \in [Machines -> Seq(TaskRows)],
         \A o \in Machines :
            /\ Len(tasks'[o]) = Len(tasks[o])
            /\ \A t \in 1..Len(tasks[o]) : tasks'[o][t].version = tasks[o][t].version,
         NEW m \in Machines, nodes' \in [Machines -> NodeRows], NodeStands(m)',
         \A o \in Machines \ {m} : nodes'[o] = nodes[o]
  PROVE  Inv'
<1>1. Tables'
  BY DEF Inv, Tables, Grows, drafts
<1>2. RevisionsStand' /\ PreviewsStand'
  BY RevisionsKept, PreviewsKept DEF drafts
<1>3. TasksStand'
  BY DEF Inv, TasksStand, drafts, Version
<1>4. \A o \in Machines : Len(tasks'[o]) >= Len(tasks[o]) /\ Len(tasks'[o]) \in Nat
  BY DEF Inv, Tables
<1>5. \A o \in Machines : NodeStands(o)' /\ ReportStands(o)'
  BY <1>4, NodeKept, ReportKept
<1> QED  BY <1>1, <1>2, <1>3, <1>5 DEF Inv

\* Only the node and the state of its tasks change.
LEMMA WorkOnly ==
  ASSUME Inv, UNCHANGED <<panel, tasks, reports>>, faults' \in 0..MaxFaults,
         NEW m \in Machines, nodes' \in [Machines -> NodeRows], NodeStands(m)',
         \A o \in Machines \ {m} : nodes'[o] = nodes[o]
  PROVE  Inv'
<1>1. UNCHANGED <<accounts, issued, past, drafts, machines>>
  BY DEF panel, policyRow
<1>2. Grows /\ PolicyIsCurrent' /\ past' \in BOOLEAN
  BY <1>1, PolicyKept DEF Inv, Tables
<1>3. tasks' \in [Machines -> Seq(TaskRows)]
  BY DEF Inv, Tables
<1> QED  BY <1>1, <1>2, <1>3, NodeOnly

LEMMA AcceptTaskKeeps ==
  ASSUME Inv, NEW m \in Machines, AcceptTask(m)
  PROVE  Inv'
<1>1. PICK t \in 1..Len(tasks[m]) :
        /\ tasks' = [tasks EXCEPT ![m][t].state = "accepted"]
        /\ nodes' = [nodes EXCEPT ![m].work = [Idle EXCEPT !.stage = "accepted", !.task = t]]
  BY DEF AcceptTask
<1> DEFINE work == [Idle EXCEPT !.stage = "accepted", !.task = t]
<1>2. tasks[m] \in Seq(TaskRows) /\ nodes[m] \in NodeRows /\ t \in Nat
  BY DEF Inv, Tables
<1>3. /\ work \in WorkRows /\ work.stage = "accepted" /\ work.task = t
      /\ work.policy = 0
  <2>1. Idle \in WorkRows /\ Idle.policy = 0
    BY ConfigurationAssumption DEF Idle, WorkRows, Stages
  <2> QED  BY <1>2, <2>1 DEF WorkRows, Stages
<1>4. nodes' = [nodes EXCEPT ![m] = [nodes[m] EXCEPT !.work = work]]
  BY <1>1
<1>5. /\ nodes' \in [Machines -> NodeRows] /\ nodes'[m] = [nodes[m] EXCEPT !.work = work]
      /\ \A o \in Machines \ {m} : nodes'[o] = nodes[o]
  <2>1. [nodes[m] EXCEPT !.work = work] \in NodeRows
    BY <1>2, <1>3 DEF NodeRows
  <2> HIDE DEF work
  <2> QED  BY <1>4, <2>1 DEF Inv, Tables
<1> HIDE DEF work
<1>6. tasks' = [tasks EXCEPT
         ![m] = [tasks[m] EXCEPT ![t] = [tasks[m][t] EXCEPT !.state = "accepted"]]]
  BY <1>1
<1>7. /\ [tasks[m][t] EXCEPT !.state = "accepted"] \in TaskRows
      /\ [tasks[m][t] EXCEPT !.state = "accepted"].version = tasks[m][t].version
  <2>1. tasks[m][t] \in TaskRows
    BY <1>2
  <2> QED  BY <2>1 DEF TaskRows
<1>8. /\ tasks' \in [Machines -> Seq(TaskRows)]
      /\ \A o \in Machines :
            /\ Len(tasks'[o]) = Len(tasks[o])
            /\ \A i \in 1..Len(tasks[o]) : tasks'[o][i].version = tasks[o][i].version
  BY <1>2, <1>6, <1>7 DEF Inv, Tables
<1>9. NodeStands(m)'
  <2>1. /\ nodes'[m].policy = nodes[m].policy /\ nodes'[m].running = nodes[m].running
        /\ nodes'[m].users = nodes[m].users /\ nodes'[m].work = work
    BY <1>2, <1>5 DEF NodeRows
  <2> QED
    BY <1>2, <1>3, <1>8, <2>1 DEF Inv, Tables, NodeStands, Revision, AcceptTask, panel, policyRow
<1>10. Grows /\ PolicyIsCurrent' /\ past' \in BOOLEAN
  BY PolicyKept DEF AcceptTask, panel, policyRow, Inv, Tables
<1> QED
  BY <1>5, <1>8, <1>9, <1>10, NodeOnly DEF AcceptTask, panel, Inv, Tables

LEMMA ReportTaskKeeps ==
  ASSUME Inv, NEW m \in Machines, ReportTask(m)
  PROVE  Inv'
<1> DEFINE t == nodes[m].work.task
           stage == nodes[m].work.stage
<1>1. /\ tasks[m] \in Seq(TaskRows) /\ nodes[m] \in NodeRows
      /\ t \in 1..Len(tasks[m]) /\ stage \in {"succeeded", "stale", "failed"}
  BY DEF Inv, Tables, NodeStands, ReportTask
<1>2. Idle \in WorkRows
  BY ConfigurationAssumption DEF Idle, WorkRows, Stages
<1>3. /\ nodes' \in [Machines -> NodeRows] /\ nodes'[m] = [nodes[m] EXCEPT !.work = Idle]
      /\ \A o \in Machines \ {m} : nodes'[o] = nodes[o]
  <2>1. [nodes[m] EXCEPT !.work = Idle] \in NodeRows
    BY <1>1, <1>2 DEF NodeRows
  <2>2. nodes' = [nodes EXCEPT ![m] = [nodes[m] EXCEPT !.work = Idle]]
    BY DEF ReportTask
  <2> QED  BY <2>1, <2>2 DEF Inv, Tables
<1>4. tasks' = [tasks EXCEPT ![m] = [tasks[m] EXCEPT ![t] = [tasks[m][t] EXCEPT !.state = stage]]]
  BY DEF ReportTask
<1>5. /\ [tasks[m][t] EXCEPT !.state = stage] \in TaskRows
      /\ [tasks[m][t] EXCEPT !.state = stage].version = tasks[m][t].version
  <2>1. tasks[m][t] \in TaskRows
    BY <1>1
  <2> QED  BY <1>1, <2>1 DEF TaskRows
<1> HIDE DEF t, stage
<1>6. /\ tasks' \in [Machines -> Seq(TaskRows)]
      /\ \A o \in Machines :
            /\ Len(tasks'[o]) = Len(tasks[o])
            /\ \A i \in 1..Len(tasks[o]) : tasks'[o][i].version = tasks[o][i].version
  BY <1>1, <1>4, <1>5 DEF Inv, Tables
<1>7. NodeStands(m)'
  <2>1. /\ nodes'[m].policy = nodes[m].policy /\ nodes'[m].running = nodes[m].running
        /\ nodes'[m].users = nodes[m].users /\ nodes'[m].work = Idle
    BY <1>1, <1>3 DEF NodeRows
  <2> QED
    BY <2>1 DEF Inv, Tables, NodeStands, Revision, ReportTask, panel, policyRow, Idle
<1>8. Grows /\ PolicyIsCurrent' /\ past' \in BOOLEAN
  BY PolicyKept DEF ReportTask, panel, policyRow, Inv, Tables
<1> QED
  BY <1>3, <1>6, <1>7, <1>8, NodeOnly DEF ReportTask, panel, Inv, Tables

LEMMA GetConfigKeeps ==
  ASSUME Inv, NEW m \in Machines, GetConfig(m)
  PROVE  Inv' /\ Grows
<1> DEFINE work == [nodes[m].work EXCEPT !.stage = "fetched", !.policy = Len(issued'),
                                         !.granted = Granted(accounts)]
<1>1. /\ Grows /\ past' = FALSE /\ issued'[Len(issued')] = Granted(accounts)
      /\ accounts' = accounts
  BY RefreshGrows DEF Inv, Tables, GetConfig
<1>2. PolicyIsCurrent'
  BY <1>1 DEF PolicyIsCurrent, Latest
<1>3. /\ nodes[m] \in NodeRows /\ nodes[m].work \in WorkRows
      /\ Granted(accounts) \in SUBSET Credentials
  BY GrantedIsCredentials DEF Inv, Tables, NodeRows
<1>4. /\ work \in WorkRows /\ work.stage = "fetched" /\ work.policy = Len(issued')
      /\ work.granted = Granted(accounts) /\ work.task = nodes[m].work.task
  <2>1. Len(issued') \in 0..MaxPolicy /\ "fetched" \in Stages
    BY <1>1 DEF Stages, Grows
  <2> QED  BY <1>3, <2>1 DEF WorkRows
<1>5. /\ nodes' \in [Machines -> NodeRows] /\ nodes'[m] = [nodes[m] EXCEPT !.work = work]
      /\ \A o \in Machines \ {m} : nodes'[o] = nodes[o]
  <2>1. nodes' = [nodes EXCEPT ![m] = [nodes[m] EXCEPT !.work = work]]
    BY <1>3 DEF GetConfig, NodeRows, WorkRows, Inv, Tables
  <2> HIDE DEF work
  <2>2. [nodes[m] EXCEPT !.work = work] \in NodeRows
    BY <1>3, <1>4 DEF NodeRows
  <2> QED  BY <2>1, <2>2 DEF Inv, Tables
<1> HIDE DEF work
<1>6. NodeStands(m)'
  <2>1. /\ nodes'[m].policy = nodes[m].policy /\ nodes'[m].running = nodes[m].running
        /\ nodes'[m].users = nodes[m].users /\ nodes'[m].work = work
    BY <1>3, <1>5 DEF NodeRows
  <2>2. nodes[m].work.task \in 1..Len(tasks[m]) /\ tasks' = tasks
    BY DEF Inv, NodeStands, GetConfig
  <2>3. nodes[m].policy \in Nat /\ Len(issued) \in Nat /\ Len(issued') \in Nat \ {0}
    BY <1>1, <1>3, ConfigurationAssumption DEF NodeRows, Inv, Tables, Grows
  <2> QED  BY <1>1, <1>4, <2>1, <2>2, <2>3 DEF Inv, NodeStands, Revision, Grows
<1> QED
  BY <1>1, <1>2, <1>5, <1>6, NodeOnly DEF GetConfig, Inv, Tables

LEMMA TargetStands ==
  ASSUME Inv, NEW m \in Machines, nodes[m].work.stage # "idle"
  PROVE  /\ tasks[m][nodes[m].work.task].version \in Nat
         /\ Target(m).policy \in 1..Revision /\ Target(m).granted = issued[Target(m).policy]
         /\ Target(m).granted \in SUBSET Credentials
<1> DEFINE n == tasks[m][nodes[m].work.task].version
<1>1. n \in 1..Version(m)
  BY DEF Inv, NodeStands, TasksStand
<1>2. revisions[m] \in Seq(Revisions) /\ Version(m) = Len(revisions[m])
  BY DEF Inv, Tables, Version
<1>3. revisions[m][n] \in Revisions
  BY <1>1, <1>2
<1>4. Target(m) = revisions[m][n]
  BY DEF Target
<1> HIDE DEF n
<1>5. /\ revisions[m][n].policy \in 1..Revision
      /\ revisions[m][n].granted = issued[revisions[m][n].policy]
  BY <1>1 DEF Inv, RevisionsStand
<1>6. revisions[m][n].granted \in SUBSET Credentials
  BY <1>3 DEF Revisions
<1>7. n \in Nat
  BY <1>1, <1>2
<1>8. /\ Target(m).policy \in 1..Revision /\ Target(m).granted = issued[Target(m).policy]
      /\ Target(m).granted \in SUBSET Credentials
  BY <1>4, <1>5, <1>6
<1> QED  BY <1>7, <1>8 DEF n

LEMMA ApplyConfigKeeps ==
  ASSUME Inv, NEW m \in Machines, ApplyConfig(m)
  PROVE  Inv'
<1> DEFINE work == [nodes[m].work EXCEPT !.stage = "succeeded"]
           row == [revision |-> tasks[m][nodes[m].work.task].version,
                   policy |-> Target(m).policy, running |-> TRUE,
                   users |-> Target(m).granted, work |-> work]
<1>1. nodes[m] \in NodeRows /\ nodes[m].work \in WorkRows
  BY DEF Inv, Tables, NodeRows
<1>2. /\ work \in WorkRows /\ work.stage = "succeeded" /\ work.policy = nodes[m].work.policy
      /\ work.granted = nodes[m].work.granted /\ work.task = nodes[m].work.task
  BY <1>1 DEF WorkRows, Stages
<1>3. /\ Target(m).policy \in 1..Revision /\ Target(m).granted = issued[Target(m).policy]
      /\ Target(m).policy \in 0..MaxPolicy /\ Revision \in Nat
  <2>1. Target(m).policy \in 1..Revision /\ Target(m).granted = issued[Target(m).policy]
    BY TargetStands DEF ApplyConfig
  <2>2. Revision \in 1..MaxPolicy
    BY DEF Revision, Inv, Tables
  <2> QED  BY <2>1, <2>2, ConfigurationAssumption
<1> HIDE DEF work
<1>4. row \in NodeRows
  BY <1>2, <1>3, TargetStands DEF NodeRows, ApplyConfig
<1>5. nodes' = [nodes EXCEPT ![m] = row]
  BY DEF ApplyConfig, work
<1>6. /\ row.policy = Target(m).policy /\ row.running = TRUE
      /\ row.users = Target(m).granted /\ row.work = work
  OBVIOUS
<1> HIDE DEF row
<1>7. /\ nodes' \in [Machines -> NodeRows] /\ nodes'[m] = row
      /\ \A o \in Machines \ {m} : nodes'[o] = nodes[o]
  BY <1>4, <1>5 DEF Inv, Tables
<1>8. NodeStands(m)'
  <2>1. UNCHANGED <<issued, tasks>> /\ nodes[m].work.stage = "fetched" /\ NodeStands(m)
    BY DEF ApplyConfig, panel, policyRow, Inv
  <2>2. Revision' = Revision
    BY <2>1 DEF Revision
  <2>3. /\ nodes'[m].policy <= Revision' /\ nodes'[m].work.policy <= Revision'
        /\ nodes'[m].users = issued'[nodes'[m].policy]
        /\ nodes'[m].work.policy > 0 => nodes'[m].work.granted = issued'[nodes'[m].work.policy]
    BY <1>2, <1>3, <1>6, <1>7, <2>1, <2>2 DEF NodeStands
  <2>4. nodes'[m].policy # 0 /\ nodes'[m].work.stage = "succeeded"
    BY <1>2, <1>3, <1>6, <1>7
  <2>5. nodes'[m].work.task \in 1..Len(tasks'[m])
    BY <1>2, <1>6, <1>7, <2>1 DEF NodeStands
  <2> QED  BY <2>3, <2>4, <2>5 DEF NodeStands
<1> QED  BY <1>7, <1>8, WorkOnly DEF ApplyConfig, Inv, Tables

LEMMA RolledBackStands ==
  ASSUME Inv, NEW m \in Machines, nodes[m].work.stage = "fetched",
         NEW end \in Stages \ {"idle", "fetched"}, RolledBack(m, end),
         UNCHANGED <<panel, tasks>>
  PROVE  /\ nodes' \in [Machines -> NodeRows] /\ NodeStands(m)'
         /\ \A o \in Machines \ {m} : nodes'[o] = nodes[o]
         /\ \/ nodes'[m].policy = nodes[m].policy /\ Open(nodes[m])' = Open(nodes[m])
            \/ /\ nodes'[m].policy = nodes[m].work.policy
               /\ Open(nodes[m])' = issued[nodes[m].work.policy]
<1> DEFINE node == nodes[m]
           work == [node.work EXCEPT !.stage = end]
           ended == [node EXCEPT !.work = work]
           back == [ended EXCEPT !.policy = node.work.policy, !.running = TRUE,
                                 !.users = node.work.granted]
<1>1. node \in NodeRows /\ node.work \in WorkRows
  BY DEF Inv, Tables, NodeRows
<1>2. /\ work \in WorkRows /\ work.stage = end /\ work.policy = node.work.policy
      /\ work.granted = node.work.granted /\ work.task = node.work.task
  BY <1>1 DEF WorkRows
<1>3. /\ ended \in NodeRows /\ ended.policy = node.policy /\ ended.running = node.running
      /\ ended.users = node.users /\ ended.work = work
  <2> HIDE DEF work
  <2> QED  BY <1>1, <1>2 DEF NodeRows
<1>4. /\ back \in NodeRows /\ back.policy = node.work.policy /\ back.running = TRUE
      /\ back.users = node.work.granted /\ back.work = work
  <2>1. node.work.policy \in 0..MaxPolicy /\ node.work.granted \in SUBSET Credentials
    BY <1>1 DEF WorkRows
  <2> HIDE DEF ended, work
  <2> QED  BY <1>3, <2>1 DEF NodeRows
<1>5. nodes' = [nodes EXCEPT ![m] = ended] \/ nodes' = [nodes EXCEPT ![m] = back]
  BY <1>1 DEF RolledBack, Inv, Tables
<1> HIDE DEF ended, work, back
<1>6. /\ nodes' \in [Machines -> NodeRows] /\ (nodes'[m] = ended \/ nodes'[m] = back)
      /\ \A o \in Machines \ {m} : nodes'[o] = nodes[o]
  BY <1>3, <1>4, <1>5 DEF Inv, Tables
<1>7. issued' = issued /\ tasks' = tasks
  BY DEF panel, policyRow
<1>8. node.work.policy > 0 /\ node.work.granted = issued[node.work.policy]
  BY DEF Inv, NodeStands
<1>9. CASE nodes'[m] = ended
  <2>1. NodeStands(m)'
    BY <1>2, <1>3, <1>7, <1>9 DEF Inv, NodeStands, Revision
  <2> QED  BY <1>3, <1>6, <1>9, <2>1 DEF Open
<1>10. CASE nodes'[m] = back
  <2>1. NodeStands(m)'
    BY <1>2, <1>4, <1>7, <1>8, <1>10 DEF Inv, NodeStands, Revision
  <2> QED  BY <1>4, <1>6, <1>8, <1>10, <2>1 DEF Open
<1> QED  BY <1>6, <1>9, <1>10

LEMMA NodeFaultsKeep ==
  ASSUME Inv, NEW m \in Machines, GetConfigFails(m) \/ ApplyStale(m) \/ ApplyFails(m)
  PROVE  /\ Inv'
         /\ \A o \in Machines \ {m} : nodes'[o] = nodes[o]
         /\ \/ nodes'[m].policy = nodes[m].policy /\ Open(nodes[m])' \in {Open(nodes[m]), {}}
            \/ /\ nodes'[m].policy = nodes[m].work.policy
               /\ nodes[m].work.stage = "fetched"
               /\ Open(nodes[m])' = issued[nodes[m].work.policy]
<1>1. /\ nodes[m] \in NodeRows /\ nodes[m].work \in WorkRows
      /\ UNCHANGED <<panel, tasks, reports>> /\ faults' \in 0..MaxFaults
  <2>1. nodes[m] \in NodeRows /\ nodes[m].work \in WorkRows /\ faults \in 0..MaxFaults
    BY DEF Inv, Tables, NodeRows
  <2>2. /\ UNCHANGED <<panel, tasks, reports>>
        /\ faults' = faults \/ (faults < MaxFaults /\ faults' = faults + 1)
    <3>1. CASE GetConfigFails(m)
      BY <3>1 DEF GetConfigFails
    <3>2. CASE ApplyStale(m)
      BY <3>2 DEF ApplyStale
    <3>3. CASE ApplyFails(m)
      BY <3>3 DEF ApplyFails
    <3> QED  BY <3>1, <3>2, <3>3
  <2> QED  BY <2>1, <2>2, ConfigurationAssumption
<1>2. CASE \E end \in Stages \ {"idle", "fetched"} :
              nodes[m].work.stage = "fetched" /\ RolledBack(m, end)
  BY <1>1, <1>2, RolledBackStands, WorkOnly
<1>3. ASSUME NEW up \in {FALSE, nodes[m].running}, nodes[m].work.stage # "idle",
             nodes' = [nodes EXCEPT ![m].running = up, ![m].work.stage = "failed"]
      PROVE  /\ Inv'
             /\ \A o \in Machines \ {m} : nodes'[o] = nodes[o]
             /\ nodes'[m].policy = nodes[m].policy
             /\ Open(nodes[m])' \in {Open(nodes[m]), {}}
  <2> DEFINE work == [nodes[m].work EXCEPT !.stage = "failed"]
             row == [nodes[m] EXCEPT !.running = up, !.work = work]
  <2>1. /\ work \in WorkRows /\ work.stage = "failed" /\ work.policy = nodes[m].work.policy
        /\ work.granted = nodes[m].work.granted /\ work.task = nodes[m].work.task
    BY <1>1 DEF WorkRows, Stages
  <2>2. nodes' = [nodes EXCEPT ![m] = row]
    BY <1>1, <1>3 DEF NodeRows, Inv, Tables
  <2> HIDE DEF work
  <2>3. /\ row \in NodeRows /\ row.policy = nodes[m].policy /\ row.running = up
        /\ row.users = nodes[m].users /\ row.work = work
    BY <1>1, <1>3, <2>1 DEF NodeRows
  <2> HIDE DEF row
  <2>4. /\ nodes' \in [Machines -> NodeRows] /\ nodes'[m] = row
        /\ \A o \in Machines \ {m} : nodes'[o] = nodes[o]
    BY <2>2, <2>3 DEF Inv, Tables
  <2>5. NodeStands(m)'
    <3>1. NodeStands(m) /\ issued' = issued /\ tasks' = tasks
      BY <1>1 DEF Inv, panel, policyRow
    <3> QED  BY <1>3, <2>1, <2>3, <2>4, <3>1 DEF NodeStands, Revision
  <2>6. Inv'
    BY <1>1, <2>4, <2>5, WorkOnly
  <2> QED  BY <2>3, <2>4, <2>6 DEF Open
<1>4. CASE GetConfigFails(m)
  <2>1. nodes' = [nodes EXCEPT ![m].work.stage = "failed"] /\ nodes[m].work.stage # "idle"
    BY <1>4 DEF GetConfigFails
  <2>2. nodes' = [nodes EXCEPT ![m].running = nodes[m].running, ![m].work.stage = "failed"]
    BY <1>1, <2>1 DEF Inv, Tables, NodeRows
  <2> QED  BY <1>3, <2>1, <2>2
<1>5. CASE ApplyStale(m)
  BY <1>2, <1>5 DEF ApplyStale, Stages
<1>6. CASE ApplyFails(m)
  <2>1. CASE RolledBack(m, "failed")
    BY <1>2, <1>6, <2>1 DEF ApplyFails, Stages
  <2>2. CASE \E up \in {FALSE, nodes[m].running} :
               nodes' = [nodes EXCEPT ![m].running = up, ![m].work.stage = "failed"]
    BY <1>3, <1>6, <2>2 DEF ApplyFails
  <2> QED  BY <1>6, <2>1, <2>2 DEF ApplyFails
<1> QED  BY <1>4, <1>5, <1>6

LEMMA NodeReplaced ==
  ASSUME Inv, NEW m \in Machines, Rebind(m) \/ Uninstall(m)
  PROVE  /\ Inv' /\ nodes'[m] = NoNode
         /\ \A o \in Machines \ {m} : nodes'[o] = nodes[o]
<1> DEFINE machineRows == [epoch: 0..MaxEpoch, enrolled: BOOLEAN, uninstalled: BOOLEAN]
<1>1. machines \in [Machines -> machineRows]
  BY DEF Inv, Tables
<1>2. /\ NoNode \in NodeRows /\ NoReport \in ReportRows
  <2>1. Idle \in WorkRows
    BY ConfigurationAssumption DEF Idle, WorkRows, Stages
  <2> QED  BY <2>1, ConfigurationAssumption DEF NoNode, NodeRows, NoReport, ReportRows
<1>3. /\ tasks' = [tasks EXCEPT ![m] = Canceled(m)]
      /\ nodes' = [nodes EXCEPT ![m] = NoNode]
      /\ reports' = reports \/ reports' = [reports EXCEPT ![m] = NoReport]
      /\ desired' = desired \/ desired' = [desired EXCEPT ![m] = 0]
      /\ UNCHANGED <<accounts, issued, past, previews, revisions, known>>
      /\ faults' = faults \/ (faults < MaxFaults /\ faults' = faults + 1)
  BY DEF Rebind, Uninstall, policyRow, drafts
<1>4. /\ machines' \in [Machines -> machineRows]
      /\ \A o \in Machines : machines'[o].enrolled => machines'[o].epoch # 0
  <2>1. CASE Rebind(m)
    <3> DEFINE row == [epoch |-> machines[m].epoch + 1, enrolled |-> FALSE, uninstalled |-> FALSE]
    <3>1. machines' = [machines EXCEPT ![m] = row]
      BY <2>1 DEF Rebind
    <3>2. row \in machineRows
      BY <1>1, <2>1, ConfigurationAssumption DEF Rebind
    <3>3. ~row.enrolled
      OBVIOUS
    <3> HIDE DEF row
    <3> QED  BY <1>1, <3>1, <3>2, <3>3 DEF Inv, TasksStand
  <2>2. CASE Uninstall(m)
    <3> DEFINE row == [machines[m] EXCEPT !.uninstalled = TRUE]
    <3>1. machines' = [machines EXCEPT ![m] = row]
      BY <2>2 DEF Uninstall
    <3>2. /\ row \in machineRows
          /\ row.enrolled = machines[m].enrolled /\ row.epoch = machines[m].epoch
      BY <1>1
    <3> HIDE DEF row
    <3> QED  BY <1>1, <3>1, <3>2 DEF Inv, TasksStand
  <2> QED  BY <2>1, <2>2
<1>5. /\ tasks' \in [Machines -> Seq(TaskRows)]
      /\ \A o \in Machines :
            /\ Len(tasks'[o]) = Len(tasks[o])
            /\ \A t \in 1..Len(tasks[o]) : tasks'[o][t].version = tasks[o][t].version
  BY <1>3, QueueCanceled DEF Inv, Tables
<1>6. /\ nodes' \in [Machines -> NodeRows] /\ nodes'[m] = NoNode
      /\ \A o \in Machines \ {m} : nodes'[o] = nodes[o]
  BY <1>2, <1>3 DEF Inv, Tables
<1>7. /\ reports' \in [Machines -> ReportRows]
      /\ \A o \in Machines : reports'[o] = reports[o] \/ reports'[o] = NoReport
  BY <1>2, <1>3 DEF Inv, Tables
<1>8. desired' \in [Machines -> 0..MaxPolicy]
  <2>1. 0 \in 0..MaxPolicy /\ desired \in [Machines -> 0..MaxPolicy]
    BY ConfigurationAssumption DEF Inv, Tables
  <2>2. CASE desired' = desired
    BY <2>1, <2>2
  <2>3. CASE desired' = [desired EXCEPT ![m] = 0]
    BY <2>1, <2>3
  <2> QED  BY <1>3, <2>2, <2>3
<1>9. Tables'
  <2>1. faults' \in 0..MaxFaults
    BY <1>3, ConfigurationAssumption DEF Inv, Tables
  <2> QED  BY <1>3, <1>4, <1>5, <1>6, <1>7, <1>8, <2>1 DEF Inv, Tables
<1>10. Grows /\ PolicyIsCurrent'
  BY <1>3, PolicyKept
<1>11. RevisionsStand' /\ PreviewsStand'
  BY <1>3, <1>10, RevisionsKept, PreviewsKept
<1>12. TasksStand'
  BY <1>3, <1>4, <1>5 DEF Inv, TasksStand, Version
<1>13. ASSUME NEW o \in Machines
       PROVE  NodeStands(o)' /\ ReportStands(o)'
  <2>1. Len(tasks'[o]) >= Len(tasks[o]) /\ Len(tasks'[o]) \in Nat
    BY <1>5 DEF Inv, Tables
  <2>2. ReportStands(o)'
    <3>1. CASE reports'[o] = reports[o]
      BY <1>10, <3>1, ReportKept
    <3>2. CASE reports'[o] = NoReport
      BY <1>3, <3>2 DEF ReportStands, NoReport, Revision, Inv, Tables
    <3> QED  BY <1>7, <3>1, <3>2
  <2>3. CASE o # m
    <3>1. NodeStands(o)'
      BY <1>6, <1>10, <2>1, <2>3, NodeKept
    <3> QED  BY <2>2, <3>1
  <2>4. NodeStands(m)'
    BY <1>3, <1>6 DEF NodeStands, NoNode, Idle, Revision, Inv, Tables
  <2> QED  BY <2>2, <2>3, <2>4
<1> QED  BY <1>6, <1>9, <1>10, <1>11, <1>12, <1>13 DEF Inv

LEMMA EnrollKeeps ==
  ASSUME Inv, NEW m \in Machines, Enroll(m)
  PROVE  Inv'
<1> DEFINE machineRows == [epoch: 0..MaxEpoch, enrolled: BOOLEAN, uninstalled: BOOLEAN]
           epoch == IF machines[m].epoch = 0 THEN 1 ELSE machines[m].epoch
           row == [machines[m] EXCEPT !.enrolled = TRUE, !.epoch = epoch]
<1>1. machines \in [Machines -> machineRows] /\ machines[m] \in machineRows
  BY DEF Inv, Tables
<1>2. machines' = [machines EXCEPT ![m] = row]
  BY <1>1 DEF Enroll
<1>3. epoch \in 0..MaxEpoch /\ epoch # 0
  BY <1>1, ConfigurationAssumption
<1> HIDE DEF epoch
<1>4. row \in machineRows /\ row.epoch # 0
  BY <1>1, <1>3
<1> HIDE DEF row
<1>5. /\ machines' \in [Machines -> machineRows]
      /\ \A o \in Machines : machines'[o].enrolled => machines'[o].epoch # 0
  BY <1>1, <1>2, <1>4 DEF Inv, TasksStand
<1>6. UNCHANGED <<accounts, issued, past, previews, revisions, desired, known, tasks, reports,
                  nodes, faults>>
  BY DEF Enroll, policyRow, drafts
<1>7. Tables' /\ TasksStand'
  BY <1>5, <1>6 DEF Inv, Tables, TasksStand, Version
<1>8. Grows /\ PolicyIsCurrent' /\ RevisionsStand' /\ PreviewsStand'
  BY <1>6, PolicyKept, RevisionsKept, PreviewsKept
<1>9. \A o \in Machines : NodeStands(o)' /\ ReportStands(o)'
  BY <1>6, <1>8, NodesKept
<1> QED  BY <1>7, <1>8, <1>9 DEF Inv

LEMMA ReportStatusKeeps ==
  ASSUME Inv, NEW m \in Machines, ReportStatus(m)
  PROVE  Inv'
<1> DEFINE status == [revision |-> nodes[m].revision, policy |-> nodes[m].policy,
                      healthy |-> nodes[m].running, open |-> Open(nodes[m])]
<1>1. nodes[m] \in NodeRows
  BY DEF Inv, Tables
<1>2. status \in ReportRows
  BY <1>1 DEF NodeRows, ReportRows, Open
<1>3. /\ status.policy = nodes[m].policy /\ status.healthy = nodes[m].running
      /\ status.open = Open(nodes[m])
  OBVIOUS
<1>4. reports' = [reports EXCEPT ![m] = status]
  BY DEF ReportStatus
<1> HIDE DEF status
<1>5. /\ reports' \in [Machines -> ReportRows] /\ reports'[m] = status
      /\ \A o \in Machines \ {m} : reports'[o] = reports[o]
  BY <1>2, <1>4 DEF Inv, Tables
<1>6. UNCHANGED <<accounts, issued, past, drafts, machines, tasks, nodes, faults>>
  BY DEF ReportStatus, panel, policyRow
<1>7. Tables'
  BY <1>5, <1>6 DEF Inv, Tables, drafts
<1>8. Grows /\ PolicyIsCurrent' /\ RevisionsStand' /\ PreviewsStand' /\ TasksStand'
  BY <1>6, PolicyKept, RevisionsKept, PreviewsKept, TasksKept DEF drafts
<1>9. ReportStands(m)'
  <2>1. /\ nodes[m].policy \in Nat /\ nodes[m].policy <= Revision
        /\ nodes[m].policy > 0 => nodes[m].users = issued[nodes[m].policy]
        /\ nodes[m].policy = 0 => ~nodes[m].running
    BY <1>1 DEF Inv, NodeStands, NodeRows
  <2> QED  BY <1>3, <1>5, <1>6, <2>1 DEF ReportStands, Revision, Open
<1>10. \A o \in Machines : Len(tasks[o]) \in Nat
  BY DEF Inv, Tables
<1>11. \A o \in Machines : NodeStands(o)' /\ ReportStands(o)'
  BY <1>5, <1>6, <1>8, <1>9, <1>10, NodeKept, ReportKept
<1> QED  BY <1>7, <1>8, <1>11 DEF Inv

LEMMA StutterKeeps ==
  ASSUME Inv, UNCHANGED vars
  PROVE  Inv'
<1>1. UNCHANGED <<accounts, issued, past, previews, revisions, desired, known, machines, tasks,
                  reports, nodes, faults>>
  BY DEF vars
<1>2. Tables' /\ TasksStand'
  BY <1>1 DEF Inv, Tables, TasksStand, Version
<1>3. Grows /\ PolicyIsCurrent' /\ RevisionsStand' /\ PreviewsStand'
  BY <1>1, PolicyKept, RevisionsKept, PreviewsKept
<1>4. \A o \in Machines : NodeStands(o)' /\ ReportStands(o)'
  BY <1>1, <1>3, NodesKept
<1> QED  BY <1>2, <1>3, <1>4 DEF Inv

LEMMA NextHolds == Inv /\ [Next]_vars => Inv'
<1> SUFFICES ASSUME Inv, [Next]_vars PROVE Inv'
  OBVIOUS
<1>1. CASE Access
  BY <1>1, EditAccountKeeps, AccessKeeps DEF Access
<1>2. CASE NewMonth
  BY <1>2, NewMonthKeeps
<1>3. CASE Tick
  <2>1. accounts' = accounts /\ accounts' \in [Users -> AccountRows]
    BY <1>3 DEF Tick, Inv, Tables
  <2> QED  BY <1>3, <2>1, ReconcileKeeps DEF Tick
<1>4. CASE Administer
  BY <1>4, NodeReplaced, PreviewKeeps, PublishKeeps DEF Administer
<1>5. CASE \E m \in Machines : Node(m)
  BY <1>5, EnrollKeeps, NodeReplaced, ReportStatusKeeps, AcceptTaskKeeps, GetConfigKeeps,
     NodeFaultsKeep, ApplyConfigKeeps, ReportTaskKeeps DEF Node, Work, Apply
<1>6. CASE UNCHANGED vars
  BY <1>6, StutterKeeps
<1> QED  BY <1>1, <1>2, <1>3, <1>4, <1>5, <1>6 DEF Next

LEMMA InvAlways == Spec => []Inv
BY InitHolds, NextHolds, PTL DEF Spec

--------------------------------------------------------------------------------
(***************************************************************************)
(* What follows                                                            *)
(***************************************************************************)
\* The tables of the panel and the state of every node keep their types; a task
\* names a version its machine has, and an installation that was bound.
THEOREM TypeCorrect == Spec => []TypeOK
<1>1. Inv => TypeOK
  <2> SUFFICES ASSUME Inv PROVE TypeOK
    OBVIOUS
  <2>1. \A m \in Machines : \A t \in 1..Len(tasks[m]) :
          tasks[m][t] \in [epoch: 1..MaxEpoch, version: 1..Version(m), key: Keys,
                           state: {"queued", "accepted", "succeeded", "stale",
                                   "failed", "superseded", "canceled"}]
    <3> SUFFICES ASSUME NEW m \in Machines, NEW t \in 1..Len(tasks[m])
                 PROVE  tasks[m][t] \in [epoch: 1..MaxEpoch, version: 1..Version(m), key: Keys,
                           state: {"queued", "accepted", "succeeded", "stale",
                                   "failed", "superseded", "canceled"}]
      OBVIOUS
    <3>1. tasks[m][t] \in TaskRows
      BY DEF Inv, Tables
    <3>2. tasks[m][t].version \in 1..Version(m)
      BY DEF Inv, TasksStand
    <3> QED  BY <3>1, <3>2 DEF TaskRows
  <2> QED
    BY <2>1 DEF Inv, Tables, TypeOK, AccountRows, PreviewRows, ReportRows, NodeRows, WorkRows
<1> QED  BY <1>1, InvAlways, PTL

\* Whoever has named a policy, a revision, a preview, a node that fetched it or
\* one that serves it, names the same credentials, however far the log has grown.
THEOREM PolicyAlwaysNamesCredentials == Spec => []PolicyNamesCredentials
<1>1. Inv => PolicyNamesCredentials
  BY DEF Inv, PolicyNamesCredentials, RevisionsStand, PreviewsStand, NodeStands
<1> QED  BY <1>1, InvAlways, PTL

\* publish and reconcile write the revision after the one that was looked at.
THEOREM NoSettingsUnseen == Spec => []NoUnseenSettings
<1>1. Inv => NoUnseenSettings
  BY DEF Inv, NoUnseenSettings, RevisionsStand
<1> QED  BY <1>1, InvAlways, PTL

\* A node that subscriptionSnapshot offers let the user in with the present
\* passwords when it sent the status the offer rests on.
THEOREM AvailableIsServed == Spec => []AvailableMeansServed
<1>1. Inv => AvailableMeansServed
  <2> SUFFICES ASSUME Inv, NEW m \in Machines, NEW u \in Users,
                      Available(m), ~past, accounts[u].active, ~accounts[u].blocked
               PROVE  <<u, accounts[u].generation>> \in reports[m].open
    BY DEF AvailableMeansServed
  <2>1. reports[m].policy \in Nat /\ Len(issued) \in Nat
    BY DEF Inv, Tables, ReportRows
  <2>2. /\ reports[m].policy = Len(issued)
        /\ reports[m].open = issued[reports[m].policy]
    BY <2>1 DEF Available, AuthorizationCurrent, Inv, ReportStands, Revision
  <2>3. issued[Len(issued)] = Granted(accounts)
    BY DEF Inv, PolicyIsCurrent, Latest
  <2>4. <<u, accounts[u].generation>> \in Granted(accounts)
    BY DEF Granted
  <2> QED  BY <2>2, <2>3, <2>4
<1> QED  BY <1>1, InvAlways, PTL

--------------------------------------------------------------------------------
(***************************************************************************)
(* Configuration implements AuthorizationFeed                              *)
(***************************************************************************)
\* A step of the panel issues a set or none; no node serves another.
LEMMA FeedIssues ==
  ASSUME NEW granted \in SUBSET Credentials,
         issued' = issued \/ issued' = Append(issued, granted),
         nodes' = nodes \/ \A m \in Machines :
            nodes'[m].policy = nodes[m].policy /\ Open(nodes'[m]) = Open(nodes[m])
  PROVE  [Feed!Next]_(Feed!vars)
<1>1. /\ [m \in Machines |-> nodes'[m].policy] = [m \in Machines |-> nodes[m].policy]
      /\ [m \in Machines |-> Open(nodes'[m])] = [m \in Machines |-> Open(nodes[m])]
  OBVIOUS
<1>2. CASE issued' = issued
  BY <1>1, <1>2 DEF Feed!vars, Open
<1>3. CASE issued' = Append(issued, granted)
  BY <1>1, <1>3 DEF Feed!Next, Feed!Issue, Open
<1> QED  BY <1>2, <1>3

\* A step of one node
LEMMA FeedMoves ==
  ASSUME issued' = issued, NEW m \in Machines,
         \A o \in Machines \ {m} : nodes'[o] = nodes[o],
         \/ /\ nodes'[m].policy = nodes[m].policy
            /\ Open(nodes'[m]) = Open(nodes[m]) \/ Open(nodes'[m]) = {}
         \/ /\ nodes'[m].policy \in nodes[m].policy .. Len(issued)
            /\ nodes'[m].policy > 0 /\ Open(nodes'[m]) = issued[nodes'[m].policy]
         \/ nodes'[m] = NoNode
  PROVE  [Feed!Next]_(Feed!vars)
<1> DEFINE served == [o \in Machines |-> nodes[o].policy]
           open == [o \in Machines |-> Open(nodes[o])]
<1>1. /\ [o \in Machines |-> nodes'[o].policy] = [served EXCEPT ![m] = nodes'[m].policy]
      /\ [o \in Machines |-> Open(nodes'[o])] = [open EXCEPT ![m] = Open(nodes'[m])]
  OBVIOUS
<1>2. served[m] = nodes[m].policy /\ open[m] = Open(nodes[m])
  OBVIOUS
<1>3. CASE nodes'[m].policy = nodes[m].policy /\ Open(nodes'[m]) = Open(nodes[m])
  <2>1. /\ [o \in Machines |-> nodes'[o].policy] = served
        /\ [o \in Machines |-> Open(nodes'[o])] = open
    BY <1>3
  <2> QED  BY <2>1 DEF Feed!vars, Open
<1>4. CASE nodes'[m].policy = nodes[m].policy /\ Open(nodes'[m]) = {}
  <2>1. /\ [o \in Machines |-> nodes'[o].policy] = served
        /\ [o \in Machines |-> Open(nodes'[o])] = [open EXCEPT ![m] = {}]
    BY <1>1, <1>4
  <2>2. Feed!Stop(m)
    BY <2>1 DEF Feed!Stop, Open
  <2> QED  BY <2>2 DEF Feed!Next
<1>5. CASE /\ nodes'[m].policy \in nodes[m].policy .. Len(issued)
           /\ nodes'[m].policy > 0 /\ Open(nodes'[m]) = issued[nodes'[m].policy]
  <2>1. Feed!Serve(m)
    BY <1>1, <1>5 DEF Feed!Serve, Open
  <2> QED  BY <2>1 DEF Feed!Next
<1>6. CASE nodes'[m] = NoNode
  <2>1. nodes'[m].policy = 0 /\ Open(nodes'[m]) = {}
    BY <1>6 DEF NoNode, Open
  <2>2. Feed!Replace(m)
    BY <1>1, <2>1 DEF Feed!Replace, Open
  <2> QED  BY <2>2 DEF Feed!Next
<1> QED  BY <1>3, <1>4, <1>5, <1>6

LEMMA FeedStarts == Init => Feed!Init
<1> SUFFICES ASSUME Init PROVE Feed!Init
  OBVIOUS
<1>1. issued \in Seq(SUBSET Credentials) /\ Len(issued) = 1
  BY DEF Init
<1>2. /\ [m \in Machines |-> nodes[m].policy] = [m \in Machines |-> 0]
      /\ [m \in Machines |-> Open(nodes[m])] = [m \in Machines |-> {}]
  BY DEF Init, NoNode, Open
<1> QED  BY <1>1, <1>2 DEF Feed!Init, Open

LEMMA FeedSteps == Inv /\ [Next]_vars => [Feed!Next]_(Feed!vars)
<1> SUFFICES ASSUME Inv, [Next]_vars PROVE [Feed!Next]_(Feed!vars)
  OBVIOUS
\* What refreshes the policy and leaves the nodes alone
<1>1. ASSUME NEW a \in [Users -> AccountRows], Refresh(a), nodes' = nodes
      PROVE  [Feed!Next]_(Feed!vars)
  BY <1>1, RefreshGrows, GrantedIsCredentials, FeedIssues DEF Inv
<1>2. ASSUME issued' = issued, nodes' = nodes PROVE [Feed!Next]_(Feed!vars)
  BY <1>2, FeedIssues
<1>3. accounts \in [Users -> AccountRows] /\ accounts' \in [Users -> AccountRows]
  BY NextHolds DEF Inv, Tables
<1>4. CASE Access
  <2>1. Refresh(accounts') /\ nodes' = nodes
    BY <1>4 DEF Access, EditAccount, Spend, ResetProxyCredentials, Reconcile
  <2> QED  BY <1>1, <1>3, <2>1
<1>5. CASE NewMonth
  BY <1>2, <1>5 DEF NewMonth
<1>6. CASE Tick
  <2>1. Refresh(accounts) /\ nodes' = nodes
    BY <1>6 DEF Tick, Reconcile
  <2> QED  BY <1>1, <1>3, <2>1
<1>7. CASE Administer
  <2>1. ASSUME NEW m \in Machines, Rebind(m) PROVE [Feed!Next]_(Feed!vars)
    <3>1. issued' = issued
      BY <2>1 DEF Rebind, policyRow
    <3> QED  BY <2>1, <3>1, NodeReplaced, FeedMoves
  <2>2. ASSUME NEW m \in Machines, NEW s \in Settings, Preview(m, s)
        PROVE  [Feed!Next]_(Feed!vars)
    <3>1. Refresh(accounts) /\ nodes' = nodes
      BY <2>2 DEF Preview
    <3> QED  BY <1>1, <1>3, <3>1
  <2>3. ASSUME NEW p \in 1..Len(previews), Publish(p) PROVE [Feed!Next]_(Feed!vars)
    <3>1. Refresh(accounts) /\ nodes' = nodes
      BY <2>3 DEF Publish
    <3> QED  BY <1>1, <1>3, <3>1
  <2> QED  BY <1>7, <2>1, <2>2, <2>3 DEF Administer
<1>8. ASSUME NEW m \in Machines, Node(m) PROVE [Feed!Next]_(Feed!vars)
  <2>1. nodes[m] \in NodeRows /\ nodes \in [Machines -> NodeRows]
    BY DEF Inv, Tables
  <2>2. CASE Enroll(m) \/ ReportStatus(m)
    BY <1>2, <2>2 DEF Enroll, ReportStatus, policyRow, panel
  <2>3. CASE Uninstall(m)
    <3>1. issued' = issued
      BY <2>3 DEF Uninstall, policyRow
    <3> QED  BY <2>3, <3>1, NodeReplaced, FeedMoves
  <2>4. CASE AcceptTask(m) \/ ReportTask(m)
    <3>1. PICK work : nodes' = [nodes EXCEPT ![m] = [nodes[m] EXCEPT !.work = work]]
      BY <2>4 DEF AcceptTask, ReportTask
    <3>2. /\ nodes'[m].policy = nodes[m].policy /\ Open(nodes'[m]) = Open(nodes[m])
          /\ \A o \in Machines \ {m} : nodes'[o] = nodes[o]
      BY <2>1, <3>1 DEF NodeRows, Open
    <3>3. issued' = issued
      BY <2>4 DEF AcceptTask, ReportTask, panel, policyRow
    <3> QED  BY <3>2, <3>3, FeedMoves
  <2>5. CASE GetConfig(m)
    <3> DEFINE work == [nodes[m].work EXCEPT !.stage = "fetched", !.policy = Len(issued'),
                                             !.granted = Granted(accounts)]
    <3>1. nodes' = [nodes EXCEPT ![m] = [nodes[m] EXCEPT !.work = work]]
      BY <2>1, <2>5 DEF GetConfig, NodeRows, WorkRows
    <3> HIDE DEF work
    <3>2. \A o \in Machines :
             nodes'[o].policy = nodes[o].policy /\ Open(nodes'[o]) = Open(nodes[o])
      BY <2>1, <3>1 DEF NodeRows, Open
    <3>3. issued' = issued \/ issued' = Append(issued, Granted(accounts))
      BY <1>3, <2>5, RefreshGrows DEF GetConfig, Inv
    <3> QED  BY <1>3, <3>2, <3>3, GrantedIsCredentials, FeedIssues
  <2>6. CASE GetConfigFails(m) \/ ApplyStale(m) \/ ApplyFails(m)
    <3>1. issued' = issued
      BY <2>6 DEF GetConfigFails, ApplyStale, ApplyFails, panel, policyRow
    <3>2. Open(nodes[m])' = Open(nodes'[m])
      BY DEF Open
    <3>3. nodes[m].work.stage = "fetched" =>
            nodes[m].work.policy \in nodes[m].policy .. Len(issued) /\ nodes[m].work.policy > 0
      BY <2>1 DEF Inv, Tables, NodeStands, NodeRows, WorkRows, Revision
    <3> QED  BY <2>6, <3>1, <3>2, <3>3, NodeFaultsKeep, FeedMoves
  \* The policy applied is the one fetched, and nothing older than what is served
  \* is ever fetched.
  <2>7. CASE ApplyConfig(m)
    <3>1. /\ issued' = issued /\ nodes[m].work.stage = "fetched"
          /\ Target(m).policy = nodes[m].work.policy
      BY <2>7 DEF ApplyConfig, NewestPolicy, panel, policyRow
    <3>2. /\ nodes'[m].policy = Target(m).policy /\ nodes'[m].running = TRUE
          /\ nodes'[m].users = Target(m).granted
          /\ \A o \in Machines \ {m} : nodes'[o] = nodes[o]
      BY <2>1, <2>7 DEF ApplyConfig
    <3>3. Target(m).granted = issued[Target(m).policy]
      BY <3>1, TargetStands
    <3>4. /\ Target(m).policy \in nodes[m].policy .. Len(issued)
          /\ Target(m).policy > 0
      BY <2>1, <3>1 DEF Inv, Tables, NodeStands, NodeRows, WorkRows, Revision
    <3> QED  BY <3>1, <3>2, <3>3, <3>4, FeedMoves DEF Open
  <2> QED
    BY <1>8, <2>2, <2>3, <2>4, <2>5, <2>6, <2>7 DEF Node, Work, Apply
<1>9. CASE UNCHANGED vars
  BY <1>2, <1>9 DEF vars
<1> QED  BY <1>4, <1>5, <1>6, <1>7, <1>8, <1>9 DEF Next

\* The panel and its nodes, with every failure the model has, do what
\* AuthorizationFeed promises.
THEOREM ImplementsFeed == Spec => FeedsAuthorization
<1>1. Inv /\ [Next]_vars => [Feed!Next]_(Feed!vars)
  BY FeedSteps
<1> QED  BY FeedStarts, <1>1, InvAlways, PTL DEF Spec, FeedsAuthorization, Feed!Spec
================================================================================
