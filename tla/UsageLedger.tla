------------------------------ MODULE UsageLedger ------------------------------
(***************************************************************************)
(* Traffic accounting of one node, end to end: the tracker of the running  *)
(* core instance, the samples the daemon takes of it, the cursor rows and  *)
(* the numbered outbox that one SQLite transaction advances together, the  *)
(* ReportUsage calls over an unreliable network, and the panel's ledger    *)
(* with its per-stream high-water mark.                                    *)
(*                                                                         *)
(* Daemon: services/daemon/internal/state/usage.go (RecordSample,          *)
(* NextBatch, AcknowledgeUsage), internal/panelclient/usage.go (collect,   *)
(* flushUsage), internal/adapters/singbox/adapter.go (start,               *)
(* closeInstance, retryFinal).  Panel: apps/web/src/server/usage/store.ts  *)
(* (reportUsage) and the offline restore of an older database snapshot.    *)
(*                                                                         *)
(* Abstractions.  Upload and download are one byte count.  The three       *)
(* projections of a delta (minute, day, month) are one total per user: the *)
(* code derives day and month from the minute split.  A gap (a delta with  *)
(* `incomplete` set) is named by its user and the runtime whose tail is    *)
(* unknown.  A batch costs one unit of the outbox budget.  A cursor row    *)
(* that does not exist is NoCursor: RecordSample treats a missing row and  *)
(* a closed row of another runtime with observed_at 0 alike.               *)
(*                                                                         *)
(* Definitions marked "Fault" are not part of the model: each is a         *)
(* plausible mistake in the definition after it, and TLC must find a       *)
(* property violated when it takes that definition's place.                *)
(***************************************************************************)
EXTENDS Integers, Sequences, FiniteSets

CONSTANTS
    Users,         \* the users that can be authorized on this node
    BatchLimit,    \* deltas per batch (256 in batchDeltas)
    OutboxBudget,  \* retained batches (64 MiB in RecordSample)
    MaxBytes,      \* bound: bytes each user transfers in a behaviour
    MaxRuntime,    \* bound: core instances started in a behaviour
    MaxClock,      \* bound: the wall clock, in samples' timestamps
    MaxRestore     \* bound: panel restores from a backup

ASSUME UsageAssumption ==
    /\ BatchLimit \in Nat \ {0}
    /\ OutboxBudget \in Nat
    /\ MaxBytes \in Nat
    /\ MaxRuntime \in Nat
    /\ MaxClock \in Nat \ {0}
    /\ MaxRestore \in Nat

VARIABLES
    clock,         \* the node's wall clock
    phase,         \* the current core instance, one of Phases
    runtime,       \* its runtime ID; IDs are never reused
    startedAt,     \* when it was started
    members,       \* the users its tracker was built for
    counter,       \* its tracker: bytes per user of that instance
    pendingFinal,  \* Adapter.pendingFinal: final samples not persisted yet
    cursor,        \* the Cursor rows, per user
    nextSeq,       \* Stream.next_seq
    committedSeq,  \* Stream.committed_seq
    outbox,        \* the Batch rows, by sequence number
    recovery,      \* Stream.recovery_issue is set
    calls,         \* ReportUsage requests in flight; live: the daemon waits
    answer,        \* the response on its way to the waiting daemon
    streamSeq,     \* panel: usage_streams.committed_sequence
    lastBatch,     \* panel: usage_streams.last_payload_hash
    ledger,        \* panel: bytes and gaps in usage_buckets
    backup,        \* the panel snapshot a restore would bring back
    restores,      \* number of restores so far
    account,       \* history: account[n+1] is the total of batches 1..n
    used,          \* history: bytes per user the trackers counted
    lost,          \* history: bytes per user that no sample will ever cover
    lostIn         \* history: <<user, runtime>> of those bytes

tracker == <<runtime, startedAt, members, counter>>
instance == <<phase, tracker, pendingFinal>>
stream == <<cursor, nextSeq, committedSeq, outbox, recovery>>
wire == <<calls, answer>>
panel == <<streamSeq, lastBatch, ledger, backup, restores>>
losses == <<lost, lostIn>>
vars == <<clock, instance, stream, wire, panel, account, used, losses>>

\* "unstarted": built, but closed before it ever listened.
Phases == {"none", "active", "draining", "unstarted"}
Runtimes == 0..MaxRuntime
Clocks == 0..MaxClock
Gaps == Users \X Runtimes
Totals == [bytes: [Users -> Nat], gaps: SUBSET Gaps]
Samples == [runtime: Runtimes, startedAt: Clocks, at: Clocks, final: BOOLEAN,
            members: SUBSET Users, value: [Users -> Nat]]
Cursors == [runtime: Runtimes, value: Nat, at: Clocks, closed: BOOLEAN]
NoCursor == [runtime |-> 0, value |-> 0, at |-> 0, closed |-> TRUE]
NoBytes == [u \in Users |-> 0]
NoBatch == [bytes |-> NoBytes, gaps |-> {}]
NoAnswer == [seq |-> 0, committed |-> 0]

--------------------------------------------------------------------------------
(***************************************************************************)
(* RecordSample                                                            *)
(***************************************************************************)
Sample(final) ==
    [runtime |-> runtime, startedAt |-> startedAt, at |-> clock,
     final |-> final, members |-> members, value |-> counter]

\* A late non-final sample of a runtime whose final sample is in.
Late(s, u) == cursor[u].closed /\ cursor[u].runtime = s.runtime /\ ~s.final

\* The conditions under which RecordSample returns ErrCounterRegression.
Regressed(s, u) ==
    LET c == cursor[u]
        v == s.value[u]
    IN  \/ s.startedAt > s.at
        \/ /\ Late(s, u)
           /\ s.at > c.at \/ v > c.value
        \/ /\ ~Late(s, u)
           /\ \/ s.at < c.at
              \/ /\ c.runtime = s.runtime
                 /\ v < c.value \/ (s.at = c.at /\ v # c.value)
              \/ /\ c.runtime # s.runtime
                 /\ v > 0 /\ s.startedAt >= s.at

\* The bytes the sample adds to what the cursor already stands for.
Fresh(s, u) ==
    IF Late(s, u) THEN 0
    ELSE IF cursor[u].runtime = s.runtime
         THEN s.value[u] - cursor[u].value
         ELSE s.value[u]

\* Fault: a vanished runtime is noticed only when the new one has moved bytes.
DirtyTailWithBytes(s, u) ==
    /\ cursor[u].runtime # s.runtime
    /\ ~cursor[u].closed
    /\ s.value[u] > 0

\* The runtime of the cursor vanished without a final sample: its tail is
\* recorded as a gap, or as the incomplete flag of the first delta.
DirtyTail(s, u) ==
    /\ cursor[u].runtime # s.runtime
    /\ ~cursor[u].closed
    /\ s.startedAt > cursor[u].at \/ s.value[u] > 0

Changed(s) == {u \in s.members : Fresh(s, u) > 0 \/ DirtyTail(s, u)}

\* batchDeltas: the ways to lay the deltas of a sample out over k batches.  A
\* batch is closed when it is full or when its projections cost too much, so it
\* may also hold fewer deltas than the limit, but never none.
Chunks(s, k) ==
    {p \in [Changed(s) -> 1..k] :
        \A i \in 1..k :
            Cardinality({u \in Changed(s) : p[u] = i}) \in 1..BatchLimit}

BatchOf(s, p, i) ==
    [bytes |-> [u \in Users |->
                  IF u \in Changed(s) /\ p[u] = i THEN Fresh(s, u) ELSE 0],
     gaps |-> {<<u, cursor[u].runtime>> :
                 u \in {w \in Changed(s) : p[w] = i /\ DirtyTail(s, w)}}]

\* The running total after the first i batches of the sample.
TotalAfter(s, p, i) ==
    LET before == account[nextSeq]
    IN  [bytes |-> [u \in Users |->
                      IF u \in Changed(s) /\ p[u] <= i
                      THEN before.bytes[u] + Fresh(s, u)
                      ELSE before.bytes[u]],
         gaps |-> before.gaps \cup
                    {<<u, cursor[u].runtime>> :
                       u \in {w \in Changed(s) : p[w] <= i /\ DirtyTail(s, w)}}]

CursorAfter(s, u) ==
    IF u \notin s.members \/ Late(s, u) THEN cursor[u]
    ELSE [runtime |-> s.runtime, value |-> s.value[u], at |-> s.at,
          closed |-> s.final]

\* One transaction: cursors, batches and the stream row together.  Without
\* room for its batches in the outbox the sample is refused.
RecordSample(s) ==
    /\ \A u \in s.members : ~Regressed(s, u)
    /\ \E k \in 0..Cardinality(Changed(s)) : \E p \in Chunks(s, k) :
         /\ Cardinality(DOMAIN outbox) + k <= OutboxBudget
         /\ nextSeq' = nextSeq + k
         /\ outbox' = [n \in DOMAIN outbox \cup (nextSeq..(nextSeq + k - 1)) |->
                         IF n < nextSeq THEN outbox[n]
                         ELSE BatchOf(s, p, n - nextSeq + 1)]
         /\ account' = [n \in 1..(nextSeq + k) |->
                         IF n <= nextSeq THEN account[n]
                         ELSE TotalAfter(s, p, n - nextSeq)]
    /\ cursor' = [u \in Users |-> CursorAfter(s, u)]
    /\ UNCHANGED <<committedSeq, recovery>>

--------------------------------------------------------------------------------
(***************************************************************************)
(* The core instance and its samples                                       *)
(***************************************************************************)
Tick ==
    /\ clock < MaxClock
    /\ clock' = clock + 1
    /\ UNCHANGED <<instance, stream, wire, panel, account, used, losses>>

\* A connection of u moves bytes; a draining instance still settles reads
\* that had started before its sockets were closed.
Traffic(u) ==
    /\ phase \in {"active", "draining"}
    /\ u \in members
    /\ used[u] < MaxBytes
    /\ counter' = [counter EXCEPT ![u] = @ + 1]
    /\ used' = [used EXCEPT ![u] = @ + 1]
    /\ UNCHANGED <<clock, phase, runtime, startedAt, members, pendingFinal,
                   stream, wire, panel, account, losses>>

\* Fault: start does not wait for the final samples of earlier instances.
MayStartAtOnce == phase = "none" /\ runtime < MaxRuntime

\* The guard of start: no instance is in service (Apply and rollback detached
\* and closed it) and retryFinal has emptied pendingFinal.
MayStart == phase = "none" /\ pendingFinal = <<>> /\ runtime < MaxRuntime

\* start: retryFinal must have emptied pendingFinal, then the zero baseline of
\* the new runtime is persisted before the instance listens.  A box.Start error
\* after the baseline is the same as a start followed at once by Detach.
StartInstance(us) ==
    /\ MayStart
    /\ runtime' = runtime + 1
    /\ startedAt' = clock
    /\ members' = us
    /\ counter' = NoBytes
    /\ RecordSample([runtime |-> runtime + 1, startedAt |-> clock, at |-> clock,
                     final |-> FALSE, members |-> us, value |-> NoBytes])
    /\ phase' = "active"
    /\ UNCHANGED <<clock, pendingFinal, wire, panel, used, losses>>

\* start when the baseline cannot be persisted: the caller closes the instance
\* it just built, whose tracker holds only zeros.
StartFails(us) ==
    /\ MayStart
    /\ runtime' = runtime + 1
    /\ startedAt' = clock
    /\ members' = us
    /\ counter' = NoBytes
    /\ phase' = "unstarted"
    /\ UNCHANGED <<clock, pendingFinal, stream, wire, panel, account, used,
                   losses>>

\* collect of the active instance.  A refused sample changes nothing.
Collect ==
    /\ phase = "active" /\ pendingFinal = <<>>
    /\ RecordSample(Sample(FALSE))
    /\ UNCHANGED <<clock, instance, wire, panel, used, losses>>

\* collect or retryFinal: the oldest pending final sample goes first, and is
\* dropped from memory only once it is persisted.  The two do not exclude each
\* other between the record and AcknowledgeFinalSample, so the same sample may
\* be recorded again before it is dropped.
RetryFinal ==
    /\ pendingFinal # <<>>
    /\ RecordSample(Head(pendingFinal))
    /\ pendingFinal' \in {pendingFinal, Tail(pendingFinal)}
    /\ UNCHANGED <<clock, phase, tracker, wire, panel, used, losses>>

\* Apply, rollback and Close take the instance out of service first.
Detach ==
    /\ phase = "active"
    /\ phase' = "draining"
    /\ UNCHANGED <<clock, tracker, pendingFinal, stream, wire, panel, account,
                   used, losses>>

\* closeInstance after a successful Drain: the final sample is persisted with
\* the closed marker, or kept in pendingFinal when persisting fails.
CloseRecorded ==
    /\ phase \in {"draining", "unstarted"}
    /\ RecordSample(Sample(TRUE))
    /\ phase' = "none"
    /\ UNCHANGED <<clock, tracker, pendingFinal, wire, panel, used, losses>>

\* Fault: a final sample that could not be persisted is only logged.
KeepNothing == pendingFinal

KeepFinal ==
    IF members = {} THEN pendingFinal ELSE Append(pendingFinal, Sample(TRUE))

CloseDeferred ==
    /\ phase \in {"draining", "unstarted"}
    /\ pendingFinal' = KeepFinal
    /\ phase' = "none"
    /\ UNCHANGED <<clock, tracker, stream, wire, panel, account, used, losses>>

\* What the cursor does not cover of a sample (of the live tracker, or of a
\* final sample that waits in memory).
Uncovered(s, u) ==
    IF u \notin s.members THEN 0
    ELSE IF cursor[u].runtime = s.runtime
         THEN s.value[u] - cursor[u].value
         ELSE s.value[u]
LiveTail(u) == IF phase = "none" THEN 0 ELSE Uncovered(Sample(TRUE), u)
PendingTail(u) ==
    IF pendingFinal = <<>> THEN 0 ELSE Uncovered(Head(pendingFinal), u)

\* Drain ran into its deadline: no final sample is taken.  That took time.
DrainTimesOut ==
    /\ phase = "draining"
    /\ clock < MaxClock
    /\ clock' = clock + 1
    /\ lost' = [u \in Users |-> lost[u] + LiveTail(u)]
    /\ lostIn' = lostIn
         \cup {<<u, runtime>> : u \in {w \in Users : LiveTail(w) > 0}}
    /\ phase' = "none"
    /\ UNCHANGED <<tracker, pendingFinal, stream, wire, panel, account, used>>

\* The process dies and is started again: memory is gone, SQLite is not.
Crash ==
    /\ clock < MaxClock
    /\ clock' = clock + 1
    /\ phase' = "none"
    /\ pendingFinal' = <<>>
    /\ lost' = [u \in Users |-> lost[u] + LiveTail(u) + PendingTail(u)]
    /\ lostIn' = lostIn
         \cup {<<u, runtime>> : u \in {w \in Users : LiveTail(w) > 0}}
         \cup {<<u, Head(pendingFinal).runtime>> :
                  u \in {w \in Users : PendingTail(w) > 0}}
    /\ calls' = {[c EXCEPT !.live = FALSE] : c \in calls}
    /\ answer' = NoAnswer
    /\ UNCHANGED <<tracker, stream, panel, account, used>>

--------------------------------------------------------------------------------
(***************************************************************************)
(* flushUsage and ReportUsage                                              *)
(***************************************************************************)
NextBatch == CHOOSE n \in DOMAIN outbox : \A m \in DOMAIN outbox : n <= m

Send ==
    /\ ~recovery
    /\ DOMAIN outbox # {}
    /\ answer = NoAnswer
    /\ \A c \in calls : ~c.live
    /\ calls' = calls \cup {[seq |-> NextBatch, batch |-> outbox[NextBatch],
                             live |-> TRUE]}
    /\ UNCHANGED <<clock, instance, stream, answer, panel, account, used,
                   losses>>

\* The daemon gives up on a call; the panel may still receive it later.
Timeout ==
    /\ \/ \E c \in calls : c.live
       \/ answer # NoAnswer
    /\ calls' = {[c EXCEPT !.live = FALSE] : c \in calls}
    /\ answer' = NoAnswer
    /\ UNCHANGED <<clock, instance, stream, panel, account, used, losses>>

\* A request never reaches the panel, or the panel answers with an error.
Lose(c) ==
    /\ calls' = calls \ {c}
    /\ UNCHANGED <<clock, instance, stream, answer, panel, account, used,
                   losses>>

AddBatch(total, b) ==
    [bytes |-> [u \in Users |-> total.bytes[u] + b.bytes[u]],
     gaps |-> total.gaps \cup b.gaps]

\* Fault: a replay of the high-water batch is added again.
AcceptsReplay(c) == c.seq \in {streamSeq, streamSeq + 1}

\* Fault: any newer sequence number is accepted.
AcceptsAnyNewer(c) == c.seq > streamSeq

Accepts(c) == c.seq = streamSeq + 1

\* reportUsage, one transaction.  A replay of the high-water batch whose
\* payload differs is an error and leaves everything alone.
ReportUsage(c) ==
    LET next == Accepts(c)
        conflict == c.seq = streamSeq /\ c.batch # lastBatch
        committed == IF next THEN c.seq ELSE streamSeq
    IN  /\ calls' = calls \ {c}
        /\ streamSeq' = committed
        /\ ledger' = IF next THEN AddBatch(ledger, c.batch) ELSE ledger
        /\ lastBatch' = IF next THEN c.batch ELSE lastBatch
        /\ answer' = IF c.live /\ ~conflict
                     THEN [seq |-> c.seq, committed |-> committed] ELSE answer
        /\ UNCHANGED <<clock, instance, stream, backup, restores, account, used,
                       losses>>

\* Fault: off by one, the newest batch can never be acknowledged.
InRangeShort(n) == n >= committedSeq /\ n < nextSeq - 1

InRange(n) == n >= committedSeq /\ n < nextSeq

\* Fault: off by one, the batch after the acknowledged one is deleted too.
RetainedShort(n) == {m \in DOMAIN outbox : m > n + 1}

Retained(n) == {m \in DOMAIN outbox : m > n}

\* The response arrives: the panel is behind the retained batches, or the
\* acknowledged batches leave the outbox (AcknowledgeUsage).
Acknowledge ==
    /\ answer # NoAnswer
    /\ answer' = NoAnswer
    /\ IF answer.committed < answer.seq
       THEN /\ recovery' = TRUE
            /\ UNCHANGED <<committedSeq, outbox>>
       ELSE /\ UNCHANGED recovery
            /\ IF InRange(answer.committed)
               THEN /\ committedSeq' = answer.committed
                    /\ outbox' = [n \in Retained(answer.committed) |-> outbox[n]]
               ELSE UNCHANGED <<committedSeq, outbox>>
    /\ UNCHANGED <<clock, instance, cursor, nextSeq, calls, panel, account,
                   used, losses>>

--------------------------------------------------------------------------------
(***************************************************************************)
(* Backup and offline restore of the panel database                        *)
(***************************************************************************)
Backup ==
    /\ restores < MaxRestore
    /\ backup' = [seq |-> streamSeq, last |-> lastBatch, ledger |-> ledger]
    /\ UNCHANGED <<clock, instance, stream, wire, streamSeq, lastBatch, ledger,
                   restores, account, used, losses>>

\* The panel is stopped for a restore: the requests it was serving are gone.
Restore ==
    /\ restores < MaxRestore
    /\ restores' = restores + 1
    /\ streamSeq' = backup.seq
    /\ lastBatch' = backup.last
    /\ ledger' = backup.ledger
    /\ calls' = {}
    /\ UNCHANGED <<clock, instance, stream, answer, backup, account, used,
                   losses>>

--------------------------------------------------------------------------------
Init ==
    /\ clock = 1
    /\ phase = "none" /\ runtime = 0 /\ startedAt = 0 /\ pendingFinal = <<>>
    /\ members = {} /\ counter = NoBytes
    /\ cursor = [u \in Users |-> NoCursor]
    /\ nextSeq = 1 /\ committedSeq = 0 /\ recovery = FALSE
    /\ outbox = [n \in {} |-> NoBatch]
    /\ calls = {} /\ answer = NoAnswer
    /\ streamSeq = 0 /\ lastBatch = NoBatch /\ ledger = NoBatch
    /\ backup = [seq |-> 0, last |-> NoBatch, ledger |-> NoBatch]
    /\ restores = 0
    /\ account = <<NoBatch>>
    /\ used = NoBytes
    /\ lost = NoBytes
    /\ lostIn = {}

Next ==
    \/ Tick
    \/ \E u \in Users : Traffic(u)
    \/ \E us \in SUBSET Users : StartInstance(us) \/ StartFails(us)
    \/ Collect \/ RetryFinal \/ Detach
    \/ CloseRecorded \/ CloseDeferred \/ DrainTimesOut \/ Crash
    \/ Send \/ Timeout \/ Acknowledge
    \/ \E c \in calls : Lose(c) \/ ReportUsage(c)
    \/ Backup \/ Restore

Spec == Init /\ [][Next]_vars

(***************************************************************************)
(* The session loop flushes on every status interval and retries a failed  *)
(* call at the next one, so sending is weakly fair; a network that drops   *)
(* or delays calls now and then, but not for ever, makes handling a live   *)
(* call and receiving its answer strongly fair.                            *)
(***************************************************************************)
FairSpec ==
    /\ Spec
    /\ WF_vars(Send)
    /\ SF_vars(\E c \in calls : c.live /\ ReportUsage(c))
    /\ SF_vars(Acknowledge)

--------------------------------------------------------------------------------
InstanceType ==
    /\ clock \in Clocks
    /\ phase \in Phases
    /\ runtime \in Runtimes
    /\ startedAt \in Clocks
    /\ members \in SUBSET Users
    /\ counter \in [Users -> Nat]
    /\ pendingFinal \in Seq(Samples)
StreamType ==
    /\ cursor \in [Users -> Cursors]
    /\ nextSeq \in Nat \ {0}
    /\ committedSeq \in Nat
    /\ recovery \in BOOLEAN
    /\ outbox \in [DOMAIN outbox -> Totals] /\ DOMAIN outbox \subseteq Nat
    /\ account \in Seq(Totals)
WireType ==
    /\ calls \subseteq [seq: Nat, batch: Totals, live: BOOLEAN]
    /\ answer \in [seq: Nat, committed: Nat]
PanelType ==
    /\ streamSeq \in Nat
    /\ lastBatch \in Totals
    /\ ledger \in Totals
    /\ backup \in [seq: Nat, last: Totals, ledger: Totals]
    /\ restores \in 0..MaxRestore
LossType ==
    /\ used \in [Users -> Nat]
    /\ lost \in [Users -> Nat]
    /\ lostIn \subseteq Gaps

\* Every variable stays in its range: in particular no delta, total or loss is
\* ever negative and no number of a batch or cursor leaves its bounds
\* (usage.go, the checks at the head of RecordSample).
TypeOK == InstanceType /\ StreamType /\ WireType /\ PanelType /\ LossType

(***************************************************************************)
(* What is promised                                                        *)
(***************************************************************************)

\* The panel's ledger holds every batch up to its high-water mark exactly once
\* and nothing else, whatever was lost, delayed, repeated or restored
\* (store.ts reportUsage: the stream row moves in the ledger's transaction).
ExactlyOnce ==
    /\ streamSeq < nextSeq
    /\ ledger = account[streamSeq + 1]

\* Every byte a tracker counted is in a numbered batch, or still in the memory
\* of the instance or of a pending final sample, or was lost with the process;
\* none is counted twice (usage.go RecordSample: cursors and batches commit
\* together; adapter.go closeInstance, retryFinal).
BytesConserved ==
    \A u \in Users :
        used[u] = account[nextSeq].bytes[u]
                    + LiveTail(u) + PendingTail(u) + lost[u]

\* Bytes that vanished with a runtime are flagged: either that runtime is still
\* the dirty one of the user's cursor, or a gap for its tail is in a batch
\* (usage.go RecordSample, the branch of a different runtime).
LossIsMarked ==
    \A g \in lostIn :
        \/ cursor[g[1]].runtime = g[2] /\ ~cursor[g[1]].closed
        \/ g \in account[nextSeq].gaps

\* The outbox retains exactly the unacknowledged batches, and unless the panel
\* went back to an older snapshot nothing is deleted before it is committed
\* there (usage.go AcknowledgeUsage).
RetainedUntilCommitted ==
    /\ DOMAIN outbox = (committedSeq + 1)..(nextSeq - 1)
    /\ restores = 0 => committedSeq <= streamSeq

\* A final sample is still unsaved in at most one runtime, and no newer runtime
\* has written its baseline over that runtime's cursors (adapter.go start runs
\* retryFinal first).
FinalBeforeBaseline ==
    /\ Len(pendingFinal) <= 1
    /\ \A i \in DOMAIN pendingFinal : \A u \in pendingFinal[i].members :
           cursor[u].runtime <= pendingFinal[i].runtime

\* A panel whose high-water mark fell behind what the daemon has deleted does
\* not move over the hole: it waits for recovery (store.ts reportUsage accepts
\* only committed + 1; client usage.go RequireUsageRecovery).
HoleIsNeverSkipped ==
    [][streamSeq < committedSeq => streamSeq' <= streamSeq]_vars

\* The outbox is empty again and again, or the stream is declared in need of
\* recovery: traffic is bounded here, so that every retained batch is in the end
\* committed and acknowledged (usage.go flushUsage).
BatchesDrain == []<>(DOMAIN outbox = {} \/ recovery)
================================================================================
