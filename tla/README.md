# Bifurcation: TLA+ models of the panel, the node daemon and what passes between them

Bifurcation is a panel (one Next.js process over one SQLite database, synchronous
handlers) and one daemon per node (Go, an embedded sing-box core, its own SQLite
database). The panel decides who may use which node and with which configuration;
the daemon pulls tasks, switches its core, counts traffic per user and reports. Between
them is a network that loses, delays and repeats calls, and either side can stop at any
point and come back, the panel even with an older database.

This directory models the parts where those facts meet:

- on the way of the traffic: accounting from the tracker to the ledger (`UsageLedger`);
- on the way of access: who may use a node, from the account to the node that serves and
  the subscription that offers it (`Configuration`, against the abstract
  `AuthorizationFeed`), the switch of the core's configuration (`CoreSwitch`), the links
  and drafts of subscriptions (`Subscriptions`), accounts and credentials (`Identity`);
- on the way of work: the delivery of tasks (`TaskDelivery`), upgrade and removal of a
  node's program by a helper process (`Upgrade`, `Uninstall`, both over
  `MaintenancePlan`), and the screens on which all of it is ordered (`PanelScreens`, with
  the promise of `ConfirmedForms`).

Each is model-checked with TLC on small instances. The proof modules
`UsageLedgerProofs`, `CoreSwitchProofs`, `TaskDeliveryProofs`, `ConfigurationProofs`,
`IdentityProofs`, `WebInterfaceProofs`, `UpgradeProofs` and `UninstallProofs` prove their
safety properties, and a refinement, for every value of the constants with TLAPS.

Paths below are relative to the repository's root; `server/` is
`apps/web/src/server/`, `daemon/` is `services/daemon/`.

## 1. Inventory

### Panel

| Component | State | Operations | What is hard, what makes it correct |
|---|---|---|---|
| Machines and tasks: `server/modules/machines/store.ts`, `server/rpc/machine-service.ts` | machine row (token, installation, binding and session epochs, desired and observed figures), task rows (state, report number, digest) | create, rebind, reset token, remove, enqueue; bind, accept, reportStatus, reportTask | late requests of an old session or installation; supersession racing acceptance. One task in progress per machine, a result only from the node that journalled it. *TaskDelivery; keys, supersession and reports also Configuration, PanelScreens* |
| Task hub: `server/rpc/task-hub.ts` | one subscription per machine, a dirty flag, abort signals | open, release, close, wake, shutdown | a wake-up between the scan and the wait; a stream replaced by a newer one. No announcement is lost for good. *TaskDelivery, as a wake-up at any time* |
| Configuration and policy: `server/configuration/*` | configuration versions and previews, policy revisions, desired revision per machine | preview, publish, refresh, reconcile, getConfig, markForRebind | a desired revision that is stale when the task reads it; policy numbers must grow with content. *Configuration* |
| Usage ingestion: `server/usage/store.ts`, `time.ts` | stream rows (committed sequence, last payload hash), minute, day and month buckets | reportUsage, roll-up, prune, query | replay, holes, restored database. Every batch counted exactly once. A complete answer is exact. *UsageLedger; buckets and queries UsageBuckets* |
| Releases: `server/releases/store.ts` | none of its own: the published daemon artifact and the task rows | get, enqueue (upgrade), uninstall | an upgrade already in progress, an artifact that changed after it was confirmed; an uninstalled machine takes nothing more. *PanelScreens, Upgrade, Uninstall* |
| Identity: `server/identity/*`, `server/users/service.ts` | users, passkeys, sessions, onboarding and re-authentication records | set-up, register, authenticate, invite, change role, remove | conditions checked before an `await` and used after it; last administrator, user limit, set-up only once. *Identity* |
| Subscriptions: `server/subscription/*` | profiles with a version, previews, tokens, proxy credentials | create, save, preview, publish, update, resetToken, resetProxyCredentials, render | a preview published after the draft has changed; a token or credential that was replaced. *Subscriptions; credentials and offered nodes Configuration* |
| Backup: `server/backup/service.ts` | snapshot files | back up, verify, restore offline | what a restored database means to nodes that have moved on. *UsageLedger, its effect on a stream* |
| Runtime: `server/runtime/lifecycle.ts` | timers | start and stop of maintenance and of open streams | order of shutdown. *clean-up of sessions Identity, maintenance timer Configuration* |
| Panel RPC surface: `server/rpc/panel` | none of its own | which store call a request makes, who may make it (tiers), how a refusal comes back | a call that needs a recent sign-in is refused and sent again. *with the store it calls* |
| Web interface: `apps/web/src/features` | what each screen has loaded, its open form with a copy of a row, request keys | poll, open a form, send, follow a task | a form over a stale copy, a call without an answer that is sent again, several tabs. *PanelScreens, Subscriptions; who signs in Identity* |

### Node

| Component | State | Operations | What is hard, what makes it correct |
|---|---|---|---|
| Panel client: `daemon/internal/panelclient` | session, job queue, set of queued tasks, one-place failure channel | Run, session, report, flushResults, flushUsage, queueTask, taskWorker, execute | two threads that report the same result, an error that arrives in the next session, back-off. *TaskDelivery* |
| Task journal and identity: `daemon/internal/state/tasks.go`, `daemon/internal/identity` | task rows (state, sequence, acknowledged), `identity.json` | Accept, Transition, PendingResults, AcknowledgeTask, SaveBinding | a crash between operation, journal and report. Executed at most once after its result is known, result kept until the panel has it. *TaskDelivery* |
| Core switch: `daemon/internal/adapters/singbox/adapter.go`, `policy.go`, `daemon/internal/state/core.go` | the core row (policy floor, authorization, applied and pending configuration, stage), the running instance | Apply, rollback, Recover, Close, Health | each store call and each start can fail, a crash in between. A revoked user is not served again. *CoreSwitch* |
| Instance life and tracker: `adapter.go`, `tracker.go` | counters per user of the running instance, pending final samples | start, detach, Drain, closeInstance, retryFinal | traffic while draining, drain deadline, a final sample that cannot be saved. *UsageLedger, the tracker by its outcome* |
| Usage outbox: `daemon/internal/state/usage.go` | cursors, numbered batches, the stream row | RecordSample, NextBatch, AcknowledgeUsage, RequireUsageRecovery | counters that restart at zero, a full outbox. Every byte in a batch once, or marked as missing. *UsageLedger* |
| Maintenance: `daemon/internal/updater` | plan and result files, the staged binary | prepare, upgrade, ready, report, uninstall | a second process that outlives the daemon, files as the protocol between them. *MaintenancePlan, Upgrade, Uninstall* |
| Process: `daemon/cmd/bifurcation-daemon/main.go`, `deploy/install.sh` | `exit.json`, the systemd unit | start, stop, enrol | which ends are restarted and which are final. *Upgrade, Uninstall, TaskDelivery* |

### How they interact

- The daemon opens `WatchTasks` (a server stream; it gets a session epoch), and calls
  `ReportStatus`, `AcceptTask`, `ReportTask`, `GetConfig` and `ReportUsage`. The panel
  never calls the daemon. Every call carries the token, the installation and the binding.
- Inside the panel, store calls and handlers share one database and run to completion;
  the hub wakes the stream's loop, which also scans the database every 5 seconds.
- Inside the daemon, the session loop and the task worker share a job queue and an error
  channel; `Apply` and `Recover` hold `opMu`; the sampler and the core's life cycle meet
  in `pendingFinal` and in the cursors.
- The maintenance helper shares the journal, a plan file and the evidence of readiness and
  exit with the daemon, and both report to the panel.
- A browser tab keeps copies of rows and sends versions, digests or request keys with what
  was confirmed on them; `await` is the only place where two handlers of the panel mix.

The hazards that follow from this, each at its line and with the properties that cover
it, are listed in `PROJECT.json`; one that no property covers has a note that says why.

## 2. Plan

In order of what a mistake would cost:

1. **UsageLedger**: accounting from the tracker to the panel's ledger. *Done, proved.*
2. **CoreSwitch**: configuration switch under failures and crashes. *Done, proved.*
3. **TaskDelivery**: tasks, sessions, results. *Done, proved.*
4. **Configuration** with **AuthorizationFeed**: policy refresh, publish, reconcile,
   getConfig, the node's apply, rebind, and what a client is offered. *Done, proved, with the
   refinement.*
5. **Identity**: checks before an `await` repeated in the transaction. *Done, proved.*
6. **Subscriptions**: rows, links, previews and the pages over them. *Done, proved.*
7. **PanelScreens** with **ConfirmedForms**: the other screens and the handlers behind them.
   *Done, proved.*
8. **MaintenancePlan**, **Upgrade**, **Uninstall**: the helper process, its plan, the
   recovery before a start and the panel's side of the two tasks. *Done, proved.*
9. **UsageBuckets**: the division of reported bytes over minutes, days and months, roll-up,
   cleaning and the totals of a query, composed with UsageLedger. *Done, model-checked.*

Still worth doing, in this order:

- The task hub's dirty flag and replaced subscriptions, as a refinement of the action
  `Announce` of TaskDelivery; registration and lifetime counting in the tracker, as a
  refinement of `Traffic`, `Detach` and `CloseRecorded` of UsageLedger.

## 3. Modules

Every module has one action per operation or per step between two points where the
process can stop or another actor can come in. Definitions whose comment begins with
"Fault" are not part of the model: each is a plausible mistake in the definition that
follows it, and the entry under `mutants` in `PROJECT.json` names the property that TLC
finds violated when it takes that definition's place.

### UsageLedger

| Model | Code |
|---|---|
| `phase`, `runtime`, `startedAt`, `members`, `counter` | the adapter's current instance and its tracker |
| `pendingFinal` | `Adapter.pendingFinal` |
| `cursor`, `nextSeq`, `committedSeq`, `outbox`, `recovery` | the Cursor, Stream and Batch rows |
| `calls`, `answer` | `ReportUsage` requests and responses on the network |
| `streamSeq`, `lastBatch`, `ledger` | `usage_streams` and `usage_buckets` of the panel |
| `backup`, `restores` | a snapshot, and how often it was brought back |
| `account`, `used`, `lost`, `lostIn` | history: totals after each batch, bytes transferred, bytes lost and with which runtime |

| Action | Code |
|---|---|
| `Tick`, `Traffic` | the wall clock; a connection moves bytes |
| `StartInstance`, `StartFails` | start: retryFinal first, then the zero baseline, then listening; or the baseline is refused |
| `Collect`, `RetryFinal` | collect, retryFinal, both through `RecordSample` |
| `Detach`, `CloseRecorded`, `CloseDeferred`, `DrainTimesOut` | detach, closeInstance and the three ends of Drain |
| `Crash` | the process stops; memory is lost |
| `Send`, `Timeout`, `Lose`, `ReportUsage`, `Acknowledge` | flushUsage and the panel's reportUsage |
| `Backup`, `Restore` | the panel's snapshot and its offline restore |

`RecordSample` is the whole transaction: the regression checks, the delta of every user,
the gap of a vanished runtime, the division into batches (any division batchDeltas may
choose, by number or by size), the refusal of a full outbox, and the cursors. `collect` and
`retryFinal` do not exclude each other between recording a final sample and dropping it,
so `RetryFinal` may record one sample twice.

### UsageBuckets, MCUsageLedger

UsageLedger keeps the panel's ledger as a total per user. UsageBuckets has what the panel
does with a delta below that: `IntervalAccepted` (the bounds of `reportUsage`), `SplitBytes`,
`RollupMinutes` and `Divided` (a day is the sum of its minutes, so that it is rounded once),
`AddDelta`, `CleanMinutes`, and the totals of `Query` with the period it compares itself to.
They are functions of a table and have no state of their own. Months differ in length; a
table is one user's on one machine, which no step mixes with another.

MCUsageLedger joins the two. `QueriesAreExact` takes the bytes the ledger has of a user and
asks whether a report of so many bytes, whatever its interval, next to another report, after
a cleaning, is answered as it was reported: a complete answer has no gap in it and
neither loses nor invents a byte, answers of different grains for one range agree, and the
earlier period of a comparison is as exact. The cases are evaluated once per number of bytes.

### CoreSwitch

`floor`, `auth`, `applied`, `stage` and `pending` are the core row; `active` is the
instance that serves; `pc`, `config` and `previous` are where the holder of `opMu` is and
its locals. `Apply` is cut where the code calls the store or starts or stops an instance:
`ApplyPersists` (PersistPolicy), `Reject` (the local function `fail`), `AlreadyApplied`,
`Prepare` or `PrepareFails`, `CloseOld`, `StartCandidate` or `StartFails`,
`CommitCandidate` or `CommitFails`; then `Rollback*`, `Recover*` and `Stop`, which can
happen at every point. A configuration is its revision, its policy number and its users.

### TaskDelivery

`machine` and `tasks` are rows of the panel, `stream` its side of `WatchTasks`; `node` and
`journal` are the node's files and database; `session`, `worker`, `jobs`, `queued`,
`failure` are the daemon's two threads and what they share; `call` and `late` are requests
whose caller waits and requests whose caller has given up. `Handle` is the panel's handler
of a request, with its authentication, as a function from the rows to new rows and a
reply, so that `Deliver` and `DeliverLate` run the same code. A task the worker takes goes
through `TakeJob`, `JournalTask`, `Begin` or `Resend`, `Progressed`, `Perform` and
`ResultReported`; the session loop through `Connect`, `Greet`, `BeginReport`,
`FlushResult`, `ResultFlushed`, `Flushed`, then `Notice` of task events until a failure,
an eviction or a disconnect ends it. `Run`'s growing pause is the condition of `Connect`
under `LongBackoff`.

### Configuration and AuthorizationFeed

| Model | Code |
|---|---|
| `accounts` | users with their status and the generation of their proxy credentials; blocked when the month's usage reached the limit |
| `issued`, `past` | `policy_state` with its history, and whether its month is over |
| `previews`, `revisions`, `desired`, `known` | `config_previews`, `config_revisions`, `machine_configs.desired_policy_revision`, `machine_user_history` |
| `machines`, `tasks` | binding epoch, enrolment and removal; the apply tasks of a machine |
| `nodes`, `reports` | what each node serves and is working on; the status it sent last |

| Action | Code |
|---|---|
| `EditAccount`, `Spend`, `ResetProxyCredentials` | everything that changes who is authorized, with `PolicyStore.refresh` and, where the code calls it, `reconcile` in the same transaction |
| `NewMonth`, `Tick` | the month changes; the maintenance timer of `runtime/lifecycle.ts` |
| `Preview`, `Publish`, `Rebind`, `Enroll`, `Uninstall` | ConfigurationStore and the part of MachineStore it works with |
| `AcceptTask`, `GetConfig`, `GetConfigFails`, `ApplyConfig`, `ApplyStale`, `ApplyFails`, `ReportTask`, `ReportStatus` | the node, from the task to the result and its status |

`Apply` on the node is one step with the outcomes CoreSwitch has for it: the new
configuration, a rollback that keeps the old configuration with the new users, or a
failure. `Available` is `subscriptionSnapshot`: the nodes a client is told to use.

`AuthorizationFeed` is the promise without the mechanism: sets of credentials are issued
one after the other, and a node serves one of them whole and never an older one than it has
served. `Configuration` implements it with `served` the policy number of each node and
`open` the users its core lets in; the property `FeedsAuthorization` is that refinement.

### Identity

Rows are `users`, `passwords`, `passkeys`, `sessions` and `flows` (activation, recovery,
re-authentication and registration). A handler that hashes a password, checks one or
verifies a passkey has an `await` in its middle. `Reads` is the set of everything such a
handler can have read at this moment, by one operator per form (`SetupReads`, `LoginReads`,
`ReauthReads`, `ChangePasswordReads`, `VerifyReads`, `RegisterReads`, `OnboardingReads`,
`EditorReads`), and each has its transaction (`SetupCommit`, `LoginCommit`, ...). In
`Waits` a handler with a long await joins `requests`, and `Resumes` ends it after any other
steps; `Next` also lets a handler go on at once. The other actions are operations without
an await (`Logout`, `SessionOptions`, `DeletePasskey`, `CreateUser`, `CreateUserFlow`, ...),
the two subcommands of the admin script, and expiry. `by`, `since`, `origin` and
`recoveries` are history: by which credential a session was made, after how many
recoveries, and how an account came to be.

### Subscriptions

`profiles`, `token`, `links` and `previews` are the rows of one user, with the default
subscription's link in two tables; `pages` are browser pages with the list and its dialogs or
the editor. `Call` is a page's call that is carried out and answered in one step, or refused,
or given up: then it is in `stray` and `CarryOutLate` may carry it out later. `Perform` is the
store: `Save`, `Preview`, `Publish`, `Read`, `PauseOrResume`, `Delete`, `Rotate`, `Create`,
each with the guards of the code in `Allowed` and `Conflicts`. `ResetToken` is done by the
user's old link page in two transactions, and `ResetInterrupted` is the end of the process
between them. `SnapshotChanges` is everything that changes the nodes a client may use.

### PanelScreens and ConfirmedForms

`ConfirmedForms` is what the screens promise whoever confirms a form, over the tasks of the
machine and the history of what was done (`DoneOnceAsConfirmed`); `PanelScreens` is how they
keep it.

`rows` and `tasks` are what the screens show and change, `screens` each tab with the copy it
has loaded (`shown`), its open form, the row the form is about (`row`) and its request key
(`id`). `Offers` says which form a button opens for what is shown, `Sends` when a form can be
sent, `Request` what it sends, `Perform` what the handler does, `Answered` and `Conflicts`
what the screen does with the answer; `GivenUp` and `ArriveLate` are the call without an
answer. `Poll` and `Reload` bring the copies up to date under an open form.
`NodeAccepts`, `NodeReports`, `NodeEnrolls`, `NewRelease`, `Reconcile` and `Activate` change
the rows from elsewhere, with the rules of TaskDelivery, Configuration and Identity.
`effects` is history: which form did what to which version of its row.

### MaintenancePlan, Upgrade, Uninstall

`MaintenancePlan` is the plan file with the rules of `save`, and the row of a task with the
rule that its first result stays. Three processes use them: the daemon's task worker, the
helper in a unit of its own, and, before each start of the daemon, the recovery binary.

| Model | Code |
|---|---|
| `plan`, `journal`, `installed`, `unit`, `data` | what survives a crash: `upgrade.json` or `uninstall.json`, the task rows, the installed binary, the unit file, identity and database |
| `ready`, `exit` | `ready.json` and `exit.json`, by which a helper recognises the process it has stopped |
| `daemon`, `wanted` | the unit's process and whether systemd is to keep it running |
| `worker`, `helper`, `rescue` | where the worker and the helpers are; whether the helper's unit is enabled (Uninstall) |
| `traffic`, `outbox` | bytes that are not in a batch yet, batches the panel does not have (Uninstall) |
| `panel` | the two tasks as the panel has them and announces them |
| `settled`, `proven`, `defective`, `faults` | history and environment: the last process saved its final sample, versions that have been ready, versions that never are, what has failed |

Every action is the code between two changes of what survives: `SaveSwitching`, `StopOld`,
`Replace`, `SaveStarting`, `Start`, `SeenHealthy`, `SaveHealthy`, `Record`, `SavePending`,
`HelperReports`, `Complete` are RunUpgrade in this order, with `SaveRollingBack`, `StopNew`,
`PutBack`, `GiveUp` for the way back; `StartUnit`, `Proceed`, `RestoreBackup`, `SaveRestored`,
`ConfirmRecovery`, `SaveConfirmed` are RecoverBeforeStart and ConfirmRecoveryReady; in
Uninstall `SaveStopping`, `CheckProcess`, `Halt`, `SaveDraining`, `Drain`, `SaveRemoving`,
`RemoveService`, `Record`, `SavePending`, `HelperReports`, `Acknowledged`, `Cleanup` are
RunUninstall and cleanupUninstall. Around them the daemon's process becomes ready, connects,
takes the task, reports and acknowledges, and crashes, rejections, lost sessions, lost
replies, failing commands and reboots come in anywhere.

Some faults are *mishaps*: the code has no answer to them, and section 6 says what then
happens. They are named by the constant `Mishaps`, so that the runs say which ones they
include, and another choice of the constant reproduces each observation. `SavePlan` of
Upgrade is the mishap `late_save` when it happens without `NoLateSave`: a helper stands
between recording and saving its result, and will replace the plan saved now. `HandOverFails`
of Uninstall has all ends of BeginUninstall after its plan: the unit file is not written and
the plan stays (the worker is `unwritten`), a command fails and the plan is completed
(`failing`), or the start is cut off after it took effect (`started`, then `failing`). The
last, and the others when a helper can be at work all the same, are `handoff_misleads`.
A stop that fails leaves the daemon running (`StopOld`, `Halt`, and as a mishap `StopNew`,
which does not look at the outcome). In Uninstall, processes that leave no evidence of
readiness share one number, and after a reboot systemd knows of no earlier process.

### MCIdentity, MCSubscriptions, MCPanelScreens

These give TLC the symmetry of users, pages and tabs. No property or action tells two
members of these sets apart, and the properties of these runs are invariants and action
properties, so that the symmetry is sound.

## 4. Runs

| Run | Instance | States | What it shows |
|---|---|---|---|
| usage_ledger | 2 users, batches of 1 delta, room for 2 batches, 1 byte per user, 2 runtimes, clock to 3, 1 restore, with fairness; for the buckets minutes of 2 ticks, days of 6, months of 1 and 2 days, 12 ticks' retention, 2 reports and 1 cleaning | about 305,000 | nothing is counted twice (`ExactlyOnce`, `BytesConserved`), nothing is dropped before the panel has it (`RetainedUntilCommitted`), what a crash takes is marked (`LossIsMarked`), a new runtime does not overtake an unsaved final sample (`FinalBeforeBaseline`), a restored panel does not move over a hole (`HoleIsNeverSkipped`), the outbox empties or the stream asks for recovery (`BatchesDrain`), the panel's complete answers show what the ledger holds (`QueriesAreExact`) |
| core_switch | 2 users, 2 tasks, 2 revisions, 2 policies | about 80,000 | what starts serves the users of the durable floor, whatever failed before; between operations what serves is what Health reports |
| core_revocation | 1 user; a violation is expected | | finding 1 below |
| task_delivery | 2 tasks, 3 sessions, 2 tokens, 2 faults | about 1,541,000 | results are journalled before they are shown and acknowledged only when the panel has them (`ResultsAgree`); the panel holds a task while the node works on it; no task with a result is executed again; no order of events makes the daemon stop over a disagreement with the panel |
| task_settles | 2 tasks, 8 sessions, 1 token, 1 fault, with fairness | about 66,000 | every task of an enrolled machine is settled |
| configuration | 1 user, 1 machine, 1 setting, 2 generations of passwords, 3 policies, 2 previews, 2 installations, 1 failing task or replaced node, with fairness | about 791,000 | one set of credentials per policy number everywhere, no revision over one its author had not seen, no client sent to a node that does not let it in, `AuthorizationFeed` is implemented, and a node ends up with the newest configuration |
| usage_unattributed | 1 user, 1 generation; a violation is expected | | finding 2 below |
| identity | 2 users, 2 sessions, 2 passkeys, 2 flows, versions to 3, 2 passwords, 1 recovery, 1 challenge, 1 slow handler | about 1,196,000 | no session outlives the credential or the recovery it rests on, a removed passkey opens nothing, one first account, always an administrator, no edit of an account that was not seen |
| subscriptions | 2 pages, 1 node, drafts with and without it, limit 3, 3 writes, 1 preview, 1 form, 1 lost call | about 601,000 | a revoked link never answers again; a subscription changes and is published only as its page showed it; a form makes one row |
| screens | 2 tabs from 4 sets of pages, versions to 3, 2 forms, 1 lost call | about 2,793,000 | what was confirmed is done once, to the row that was shown |
| upgrade | 2 upgrades, each defective or not, 2 faults, a killed helper among them, with fairness | about 992,000 | the recorded result or the plan tells which version is installed; the binary is switched only when the last process's traffic is saved; without the killed helper, the node is back with its results at the panel |
| uninstall | 2 uninstalls, 3 faults, mishaps `helper_killed`, `handoff_ends` and `given_up` among them, with fairness | about 188,000 | no traffic is left by a removal that is recorded; nothing is removed that is needed until the panel knows; an uninstall gets its result unless a mishap happened or another was ordered |

### Why these bounds

- *usage*: one byte per user and batches of one delta already give two batches per sample,
  in both orders; two of them fill the outbox, so a refused sample happens. Two runtimes
  and a clock of three give a crash, a drain that times out and a start with a pending
  final sample in one behaviour. One restore may bring back any earlier state of the panel.
  On this calendar a remainder of the minutes may go to another
  day than a remainder of the days would, an interval crosses a month, and minutes expire.
- *core*: two policies give an authorization that is newer than the applied configuration,
  two revisions a rollback to another base, two tasks a stage left by the other one; there
  is no bound on failures and stops, so the run covers every sequence of them.
- *tasks*: two tasks give supersession and a second task behind one in progress; two
  faults give a late request of a session that was replaced and a crash after it; two
  tokens give a rebind to a new installation or a reset token. Larger instances (four
  sessions; both kinds of task) were checked as well, without a difference: the two
  kinds differ only in supersession.
- *configuration*: with three policies the user is let in, shut out by the usage of a month
  (which takes a machine the user is already known on) and let in with other passwords, and
  the configuration that is fetched and the revision its task is for have different ones.
  Two previews and reconcile compete for the next version; two installations give a replaced
  node, and `MaxFaults` a task that failed or that replacement. Machines share only the
  policy log, so one is enough for every property. With two of these (2,426,000 states), and
  with two policies, three previews and two faults, the run was checked as well and takes a
  few minutes more; its safety properties and the refinement are proved for every bound.
- *identity*: two accounts give the last administrator and two edits no version ties
  together, two passkeys and sessions one that stays and one that is removed, and one slow
  handler meets every operation during its await: two slow handlers interfere through
  the rows only, where the other one is an operation of its own.
- *subscriptions, screens*: two pages over one row, one call that is late and sent again.
  Three writes are a change, the change that overtakes it and the late one; four (3,797,000
  states) were checked as well.
  Three versions let a form, the row and the late call be of different versions. The sets
  of start pages of `screens` are the pairs that work on common rows.
- *upgrade, uninstall*: two tasks, since a helper or a plan of the first one can meet the
  second. Two faults are an interruption and another one during its recovery. Uninstall
  has three because it takes two reboots to bring back a process the helper has
  already stopped.

Deadlock is checked in core_switch. In the others the bounds on clock, sessions, versions,
tasks and faults end every behaviour, or everything has settled, so it is switched off; the
liveness properties say what must happen before that.

### Fairness

- usage_ledger: weak fairness of `Send` (the session loop flushes on every status interval
  and again after a failure), strong fairness of handling a live call and of receiving its
  answer (calls may time out again and again, but not for ever). No fairness for anything
  the users, the clock or failures do.
- task_settles: weak fairness of the panel's scan and of handling a call, of the restart
  (`Restart=on-failure` in the unit), of the session loop and of the worker. No fairness
  for faults, the administrator or the operator; a node whose token was reset waits for its
  operator, so the run has one token.
- `LongBackoff = TRUE` in task_settles: an error of the worker stays in the failure channel
  and ends whichever session is open when it is read. If every new session began before the
  worker's old call had ended, each could be ended by the error of the one before it; the
  pause of `Run` grows to 30–45 seconds, longer than the 15 seconds a call may take, and
  that is what breaks the circle. task_delivery is without this restriction.
- configuration: weak fairness of `Tick`, the maintenance timer, and of `Work(m)`, the
  node's task loop. None for accounts, administrators, enrolment, status or faults.
- upgrade, uninstall: weak fairness of the announced task, of the worker, of each helper's
  steps, of the unit's process, of reports, and in uninstall of the helper's restart. The
  units say so: the daemon has `Restart=on-failure` with `RestartSec=5`
  (`deploy/install.sh:113-114`), the uninstall helper the same with 10 seconds and is enabled
  at boot (`daemon/internal/updater/uninstall.go:41-58`). The upgrade's helper has no such
  restart, and the model gives it none. No fairness for orders or faults.

## 5. Proofs

Each component has an inductive invariant (`Inv`; `ScreensInv` for PanelScreens), proved with
one lemma per action, and every theorem is taken from it. `PROJECT.json` lists the theorems with the properties they are of.

**UsageLedgerProofs**, from `UsageAssumption` (the bounds are naturals, a batch holds at
least one delta; `Users` is any set). Theorems:
`TypeCorrect` (which no run repeats), `LedgerIsExactlyOnce`, `BytesAreConserved`,
`RetainedUntilCommittedHolds`, `FinalComesBeforeBaseline`, `HoleStaysUnskipped` and
`LossesAreMarked`. `ExactlyOnce` is not inductive: a call in flight may carry
anything. `Inv` adds that every retained batch and every batch in a call is the difference
of two consecutive totals of `account` (`BatchesMatchAccount`), that the panel and its
snapshot stand at a total of `account` (`SnapshotsMatchAccount`), that what was answered
was committed (`AcksAreCommitted`), that the numbers of both sides are ordered
(`StreamNumbers`), and that no cursor is ahead of the tracker or of a pending sample of its
runtime (`CursorsBehind`), without which a delta could be negative and `BytesConserved`
would not survive a sample. `HoleIsNeverSkipped`, a property of steps, needs `HoleIsClosed`:
once a restored panel is behind what the daemon has deleted, every batch that can still
arrive, old calls included, is beyond the hole. `LossIsMarked` has an invariant of its own,
`LossInv`, because a loss is marked only by a later sample: `TailsAreDirty` says which
cursors that sample will find ahead of what was recorded, `LossIsPast` that the runtime
whose bytes are lost is older than every runtime a cursor will be compared with.

**CoreSwitchProofs**, from `CoreAssumption` (`None` is none of the values it stands beside).
Theorems: `TypeCorrect`, `AppliedAlwaysMatchesFloor`, `HealthAlwaysNamesRunning`,
`RevokedAlwaysCutOff`, `EveryStartUsesFloor`. The properties speak of the time between
operations; `Locals` says what an operation knows at each of its steps (what it read is
still what is recorded, the candidate has the floor's users, nothing runs between closing
and starting) and `Serving` carries the two promises over the step at which Apply has
persisted a policy and not yet acted on it.

**TaskDeliveryProofs**, from `DeliveryAssumption` (the bounds are naturals, a machine is
created with a token, the kinds are two of the daemon's). Theorems: `TypeCorrect`,
`ResultsAlwaysAgree`, `TaskIsHeld`, `ExecutedOnce`, `NeverInConflict`. The last is about
disagreements: a daemon that cannot write its first binding also records a protocol conflict
(`client.go:229-231`), which the model keeps apart as `binding_unsaved`. A request is handled
long after it was sent, by a panel that may have been rebound in between. `RequestStands`
says what every request on its way, the late ones included, still tells the truth about:
under the newest token it names the node's present installation and binding, and a report
says what the journal says now or is an older progress report. `NodeStands` ties the two
sides' tokens, installations and bindings, `RowsStand` allows one task in progress and none
with an older binding, `ReceiptsStand` an acknowledgement only of what was executed;
`SessionStands` and `WorkerStands` say what each thread waits for and what an answer may
make it believe. That journal and finished rows only move forward (`ResultsStay`) is proved
once for every step and carries the answers on their way.

**IdentityProofs**, from `IdentityAssumption` (the bounds are naturals; `Users` is any set).
Theorems: `TypeCorrect`, `CredentialsStayCurrent`, `OneFirstAccount`, `PasskeyIsThere`,
`AdministratorAlwaysRemains`, `EditsAlwaysSeeTheAccount`. Inductive is
what a waiting handler may rely on when it resumes: `RequestStands` says of each form what
it has read and how far the rows can have moved since (an account of the version it read is
the account it read; a password hash that is still there is of an account with a password),
`FlowStands` that a flow begun by a session is about its account, `AccountsStand` that an
account has a password from its activation on. That rows move forward only, `Moves` (a
version never falls, a session that ended does not come back, a passkey stays with its account), is proved once for
every step and carries `RequestStands` over the steps of others.

**ConfigurationProofs**, from `ConfigurationAssumption` (the bounds are naturals, those on
generations, policies and installations positive). Theorems: `TypeCorrect`,
`PolicyAlwaysNamesCredentials`, `NoSettingsUnseen`, `AvailableIsServed`, and
`ImplementsFeed`, the refinement `Spec => FeedsAuthorization`. The log of policies only
grows (`Grows`), so that what is written with a policy number stays true: `RevisionsStand`,
`PreviewsStand`, `NodeStands` and `ReportStands` say so of each place it is written.
`PolicyIsCurrent` says that until a new month begins the newest policy is exactly who is
authorized; with `ReportStands` it gives `AvailableMeansServed`. A node never fetches an
older policy than it serves (`NodeStands`), from which each of its steps is a step
of `AuthorizationFeed` or leaves its variables alone.

**WebInterfaceProofs**, first part: Subscriptions, from `SubscriptionsAssumption` (the bounds are naturals, drafts are
sets of nodes; `Pages` and `Nodes` are any sets). Theorems: `DeadForGood`, `CallsSawTheirRow`
and `SeenBeforeAnyChange`. A call is let in by the version it carries, so the version has to
stand for the row: `SeenStands` says that while the version is the one a page has seen, the
draft and the rest are too, and `PagesStand` and `StraysStand` say it of every open page and
of every call on its way, however late. `LinksStand` says that no two rows share a link and
that the link of old clients belongs to the default subscription or to no row: without it a
revoked link could be another row's.

**WebInterfaceProofs**, second part: PanelScreens (there `Web`), from no assumption, for any
tabs, start pages and bounds. Theorem: `DoneOnce`, that is `DoneOnceAsConfirmed`. Both parts
are about pages that send again what may have been done, and share the module for that.
`DoneOnceAsConfirmed` speaks of what was done; inductive is what can still be asked for.
`Pending` says that a form's change is on an open screen or in a call on its way, however
late. `OneErrand` says that what is pending of one form is one operation on one row, which
needs the numbers of forms to be fresh (`NumbersStand`); `DoneIsSpent`, that once a form was
carried out, whatever is still pending of it will be refused (`Spent`): the version it names
has been passed, its request key or its user name is known, its passkey or its machine is
gone. `SpentStays` is why that is for good: versions, keys, names and the removal only grow,
and no passkey gets an old number. Then a call that is let in is not spent, so its form has
done nothing yet, and it names the version that the row still has. Each step of a screen asks
for no more than before or gives its form a fresh number (`OneScreen`), and each step of the
panel undoes nothing (`Grows`); `StepKeeps` puts the two together.

**UpgradeProofs**, from `UpgradeAssumption` (at least one upgrade, any number of faults) and
`Mishaps \subseteq {"helper_killed"}` (a helper may be killed at any step). Theorems: `VersionIsAlwaysKnown` and
`SettledBeforeEverySwitch`. The plan is overwritten by whoever saves last, so what it says has
to be tied to who can still save. `OneAtATime` says that one upgrade is open and all earlier
ones have their result; `HelpersStand`, that until that result is recorded the plan is that of the
helper at work and its phase tells how far it got; `PlanStands`, which version is installed
at each phase, and that a version the plan calls healthy was ready; `InstalledStands`, that
an open upgrade whose version is installed is named by the plan. Since the recovery before a
start and the restored daemon save the plan too, `DaemonStands` says when either may be
at work: only without a helper; and that the daemon is down while a helper exchanges the binary.
`SettledBeforeSwitch` needs `EvidenceStands`: how the numbers of the processes order their
evidence, so that an exit record of the number that was checked is that of the last
process. Both theorems exclude three mishaps, which section 6 describes: `handoff_misleads`, a
call that failed although it had started the helper, and `late_save`, a helper's save over
the plan of the next upgrade, with each of which TLC finds both properties violated; and
`rollback_misses`, a rollback that does not stop the daemon, with which it finds
`VersionIsKnown` violated and `SettledBeforeSwitch` not.

**UninstallProofs**, from `UninstallAssumption` (at least one uninstall, any number of
faults, any of the mishaps except one per theorem). Theorems: `NothingIsLeftBehind` and
`KeptUntilThePanelKnows`. `Base` holds whatever goes wrong: who works on which task
(`TasksAreTaken`, `ResultsStand`), that a stopped daemon stays down and a removed one is
drained (`StoppedIsDown`, `RemovedIsDown`), and how the numbers of the processes order the
evidence they leave (`Numbered`). `NothingLeftBehind` then needs `EvidenceIsSettled`, what
the exit record of a process that was ready is worth; it excludes `lost_at_start`, the power
loss after the start of a process that never becomes ready, at which the evidence of the one
before it is taken for its own. `KeptUntilKnown` needs `Known`: tasks are taken one at a time
(`OneAtATime`), a task has either the worker or the helper (`HandedToOne`), and the helper's
unit goes only when the panel knows (`RescueStays`); and `WorkerAlone`, that behind a worker
whose handover failed before the unit file was written there is no helper and none that a
boot would start. It excludes `handoff_misleads`, the handover that fails although a helper
has the plan or was started for it. TLC finds the counterexample when either is allowed
(section 6).

Only model-checked: `QueriesAreExact`, and the liveness properties `BatchesDrain`,
`EveryTaskSettles`, `NodesCatchUp`, `UpgradesSettle` and `UninstallsSettle`.
`QueriesAreExact` is about totals over recursive operators and would be an induction over
data; that, liveness under fairness and ENABLED are outside what the provers do.

## 6. Where code and documents differ

Two disagreements are kept as runs that end in a violation:

1. **An Apply that fails in PrepareCore keeps serving revoked users** (core_revocation).
   The new authorization is durable by then, but this early return does not go through
   `fail` and so not through rollback
   (`daemon/internal/adapters/singbox/adapter.go:344`), unlike every other failure after
   `PersistPolicy`. `docs/PRODUCT.md:27` and `daemon/README.md:45-46` promise that a failed
   update runs with the latest authorization. The old instance goes on until an Apply gets
   further than this one, or the daemon is restarted. `RevokedAreCutOff` states what holds
   apart from that path.
2. **Users can be served whom the panel does not remember** (usage_unattributed).
   `reportUsage` refuses a batch with a user who is not in `machine_user_history`
   (`server/usage/store.ts:110`), the historical attribution of users to machines
   (`docs/DATA-AND-PROTOCOL.md:23`). That table is written with a revision only, but
   `getConfig` hands out the authorization of the moment (`configuration/store.ts:113`), and
   a rollback at the node serves it under the old revision (`adapter.go:300-307, 365-405`). A
   user who is disabled again before the timer reconciles has been served and is never
   remembered; the batch with the user's traffic is refused each time it is sent, and all later
   ones wait behind it.

### Mishaps: faults without an answer in the code

The runs of Upgrade and Uninstall leave these out, or a property makes an exception for
them. With the mishaps given here, one task (two where another one is spoken of) and up to
three faults, TLC shows each in a few seconds.

- **The handover of an upgrade is cut off after it happened**: `Mishaps =
  {"handoff_misleads"}`, `VersionIsKnown`. `systemd-run` runs under the task's context
  (`prepare.go:93-104`); if that is cancelled when systemd has started the unit, the daemon
  completes the plan and records UPDATE_PREFLIGHT_FAILED, and the helper, if it had loaded the plan,
  still installs the new version: its saves of the completed plan are ignored
  (`types.go:115`), and the row keeps its first result. With two upgrades it goes on beside
  the helper of the next one, and `SettledBeforeSwitch` fails as well: one of them installs
  while the other has started the daemon.
- **A helper's save comes after the next upgrade's**: `{"late_save"}`, two upgrades,
  `VersionIsKnown` and `SettledBeforeSwitch`. Once a helper has recorded its result
  (`report.go`, `finish`), the daemon may report and acknowledge it and begin a next upgrade;
  the helper then saves `result_pending_ack` over the plan of that one, because `save` refuses
  a foreign plan for phase `completed` only (`types.go:115-120`). The new helper may
  already be exchanging the binary: for that time no plan names the upgrade, and a crash then
  starts the new version without a way back. Nothing but the little time between the two
  steps (`Record`, `SavePending`) prevents it.
- **A rollback does not stop the daemon**: `{"rollback_misses"}`, two upgrades,
  `VersionIsKnown`. `rollbackUpgrade` ignores the outcome of its `systemctl stop`
  (`upgrade.go:111`). If it fails, the old binary is put back under the running new version,
  `systemctl start` changes nothing and waitLocal times out; after ROLLBACK_FAILED, which
  tells this much, the next upgrade is refused, and its row names the running version as the
  present one, not the installed one, until the daemon is restarted.
- **An upgrade's helper is killed by itself** after it stopped the daemon: `{"helper_killed"}`,
  `UpgradesSettle` without its first disjunct. The transient unit has no `Restart`
  (`prepare.go:93`), the daemon was stopped on purpose, and the recovery runs before a start
  only; `docs/DATA-AND-PROTOCOL.md:82` counts on the recovery for this case. The node stays down
  until somebody starts it or the machine boots.
- **The daemon ends between an uninstall's plan and its helper**: `{"handoff_ends"}`,
  `UninstallsSettle` without the mishap. The plan makes `Active` true (`types.go:128`), so
  the task that is announced again is left to a helper that was never enabled
  (`uninstall.go:38, 49-58`). The same holds when the unit file could not be written and the
  daemon ends before it has recorded that. `docs/OPERATIONS.md:115` speaks of a persistent
  helper.
- **The handover of an uninstall fails although a helper has the plan**: `Mishaps =
  {"handoff_misleads"}`, `KeptUntilKnown`. One uninstall is enough: the `systemctl start` runs
  under the task's context (`uninstall.go:52-57`) and may be cut off when it has taken effect.
  Or the unit of an earlier uninstall is still enabled, so that a boot starts a
  helper for the new plan, whose unit file cannot be written (`uninstall.go:49-51`, the plan
  stays) or one of whose commands fails. The daemon reports a failure, and the helper removes
  the node, taking the acknowledged failure for its own acknowledged success (`report.go:50`).
- **A recorded failure is sent once**: `{"given_up"}`, `UninstallsSettle` without the mishap.
  A helper that is started again after it recorded a failure saves phase `failed`, sends the
  result once, ignores whether that worked and exits with success (`uninstall.go:135-140`).
  If the daemon is not there to report it, the panel shows a running uninstall until the next boot.
- **A second uninstall during the first one's last steps**: no mishap needed, 2 uninstalls,
  `UninstallsSettle` without its last disjunct. The daemon reports and acknowledges the
  failure of the first, a second is ordered and its plan saved; the first helper, which
  waits for that acknowledgement, then saves its own plan with phase `failed` over it, which `save`
  refuses for `completed` only (`types.go:115-118`, `uninstall.go:52, 230`).
- **Evidence of an older process**: `{"lost_at_start"}`, `NothingLeftBehind`. The repeated
  check of `uninstall.go:142` compares `ready.json` with `exit.json` and the unit's
  ExecMainPID if it is not 0 (`ready.go:140-151, 175`). A process that a boot started and
  another boot ended before `MarkReady` leaves nothing that differs, though it has served
  clients.

### Other observations

- `daemon/README.md:56-57` says that a crash leaves an unknown-tail gap "on the next
  runtime". `RecordSample` writes the gap while it walks the counters of the new runtime
  (`daemon/internal/state/usage.go:62`), so a user who is not authorized there gets the gap only
  when authorized again. `LossIsMarked` states that.
- A final sample that is observed in the millisecond of the previous one, or after the clock
  was set back, is refused each time (`daemon/internal/state/usage.go:91-101`), and
  `pendingFinal` then blocks every start. The model's clock does not run backwards and a
  refused final sample just waits.
- The configuration editor adopts the newer version after VERSION_CONFLICT without loading
  the colleague's settings (`machine-configuration.tsx:352-377`), against the comment at
  144-145; the next preview can overwrite them. For the panel it is then an edit of a version
  that was seen, which is all that `NoUnseenSettings` speaks of.
- `BatchesDrain` takes every refusal of a batch for a call that was lost and will succeed
  later. What the panel refuses each time it is sent is outside it: an unknown user
  (`server/usage/store.ts:110`, finding 2), an interval or a number beyond the panel's bounds
  (`store.ts:111-125`). The model's batches are of known users and within those bounds.
- The executor checks that a result it sends again is of the present binding
  (`executor.go:312-314`). It always is: the identity keeps its first binding, and a new
  installation starts with an empty journal. The model has no branch for it.
- A `GetConfig` that fails ends the apply task as failed, and `reconcile` does not repeat it
  (`configuration/store.ts:128`): the node stays behind until the next change. `NodesCatchUp`
  has the exception `LatestFailed` for it.
- `SubscriptionStore.resetToken` is two transactions (`subscription/store.ts:46-47`);
  `RevokedLinksAreDead` holds for operations that were completed: after `ResetInterrupted` no
  link counts as revoked that was not before, so the property says nothing of the old default link
  that goes on answering when the process ends in between. After the default subscription was
  deleted, the page of old links still shows a link that is dead.
- `publish` of a subscription that was published answers with the present row, without a version
  check. After a lost reply to a save, the editor says that the server's draft was not
  overwritten although it was.
- Only passkey registration, passkey removal and the password change need a recent sign-in; the
  other dialogs' re-authentication is never reached. `remove` and the token reset carry no
  version; `createMachine`, `createApiKey` and `createUserFlow` carry no request key.
- The server's `uninstall` does not look at other tasks, only the screen does. The API lets an
  administrator disable an account that was never activated; an open recovery link of a
  disabled account works again when the account is enabled before the link expires.
- An uninstall that fails after it stopped the daemon leaves it stopped until the next boot
  (`uninstall.go:158`). A clean-up that is interrupted after its own unit is removed leaves
  files behind (`uninstall.go:262-293`).
- `helperActive` takes a failed systemctl for "not active" (`types.go:217-219`). A recovery
  that happens upon this while a helper works puts the old binary back beside it. The models
  leave it out: in them the question is always answered.

## 7. Not modelled, and why

- Upload and download separately: they are counted and divided alike. The daemon's division of
  a long delta over days. Of queries, the limits of a range, the groups, the displayed peak, and
  the health overlay of the current window, which only marks more answers incomplete.
- The inside of the tracker (registration, lifetime counting): UsageLedger has its outcome,
  including traffic that is still settled while draining.
- The task hub's dirty flag: in TaskDelivery a scan may happen at any time.
- A panel restored from a backup is modelled for the usage stream only. One that has
  forgotten a task answers its result with NotFound, which ends every session at its first report
  (`daemon/internal/panelclient/executor.go:312`).
- Screens that only show data: overview, usage, task history, diagnostics, navigation; the
  generated protobuf code and the mappers between messages and rows.
- Parsing, merging and building of configurations and subscription templates: their effect on
  revision, policy number, users and nodes. `pending_revision`, `pending_policy` and
  `pending_config` are written and never read.
- Passwords, signatures, tokens and digests are assumed to be what they are for.
- sing-box, SQLite, Connect RPC, systemd, browsers: external; modelled by how this code uses
  them.
- File copying, hashing and fsync of backups, releases and maintenance, sequence numbers of
  maintenance reports, schema migration, log buffers, text rendering: input, output and
  presentation, without a protocol of their own.
