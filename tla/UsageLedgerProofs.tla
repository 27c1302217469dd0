--------------------------- MODULE UsageLedgerProofs ---------------------------
(***************************************************************************)
(* What UsageLedger.tla promises for every set of users and every bound:   *)
(* its types, that the panel's ledger is exactly the batches up to its     *)
(* high-water mark, and that no byte is counted twice or dropped.          *)
(*                                                                         *)
(* ExactlyOnce is not inductive: a step of ReportUsage adds whatever a     *)
(* request carries.  BatchesMatchAccount says where that content comes     *)
(* from: each retained batch, and the batch of each request, however old,  *)
(* is the difference of two consecutive totals of the account, and neither *)
(* the account up to a number nor the batch of that number ever changes.   *)
(* TypeOK and BytesConserved need CursorsBehind: no cursor is ahead of the *)
(* tracker it was read from, so the differences are never negative.        *)
(*                                                                         *)
(* HoleIsNeverSkipped needs HoleIsClosed: once the panel is behind what    *)
(* the daemon has deleted, whatever is still on the network is beyond the  *)
(* hole.  LossIsMarked needs to know when a cursor is dirty (TailsAreDirty)*)
(* and that a lost runtime is older than everything the cursors will be    *)
(* compared with (LossIsPast): then the next sample makes the gap.         *)
(***************************************************************************)
EXTENDS UsageLedger, TLAPS

\* Every batch on the way is the step between two totals of the account.
BatchesMatchAccount ==
    /\ \A n \in DOMAIN outbox : AddBatch(account[n], outbox[n]) = account[n + 1]
    /\ \A c \in calls : /\ c.seq \in 1..(nextSeq - 1)
                        /\ AddBatch(account[c.seq], c.batch) = account[c.seq + 1]

\* The numbers of the stream: what is retained, committed and snapshotted.
StreamNumbers ==
    /\ Len(account) = nextSeq
    /\ committedSeq < nextSeq
    /\ DOMAIN outbox = (committedSeq + 1)..(nextSeq - 1)
    /\ streamSeq < nextSeq
    /\ backup.seq < nextSeq

SnapshotsMatchAccount ==
    /\ ledger = account[streamSeq + 1]
    /\ backup.ledger = account[backup.seq + 1]

\* As long as the panel was not restored, what it acknowledges it has.
AcksAreCommitted ==
    restores = 0 => committedSeq <= streamSeq /\ answer.committed <= streamSeq

\* A cursor never stands for more than the tracker or the pending final sample
\* of its runtime holds, and a final sample is pending only between instances.
CursorsBehind ==
    /\ phase # "none" => pendingFinal = <<>>
    /\ Len(pendingFinal) <= 1
    /\ \A u \in Users : cursor[u].runtime <= runtime
    /\ phase # "none" =>
         \A u \in members :
             cursor[u].runtime = runtime => cursor[u].value <= counter[u]
    /\ pendingFinal # <<>> =>
         /\ Head(pendingFinal).runtime = runtime
         /\ \A u \in Head(pendingFinal).members :
                cursor[u].runtime = Head(pendingFinal).runtime
                    => cursor[u].value <= Head(pendingFinal).value[u]

Inv ==
    /\ TypeOK
    /\ CursorsBehind
    /\ StreamNumbers
    /\ BatchesMatchAccount
    /\ SnapshotsMatchAccount
    /\ AcksAreCommitted
    /\ BytesConserved

--------------------------------------------------------------------------------
(***************************************************************************)
(* RecordSample                                                            *)
(***************************************************************************)

\* A sample that RecordSample does not refuse adds no negative amount.
LEMMA FreshIsNat ==
    ASSUME TypeOK, NEW s \in Samples, NEW u \in s.members, ~Regressed(s, u)
    PROVE  Fresh(s, u) \in Nat
BY DEF TypeOK, StreamType, Fresh, Regressed, Late, Samples, Cursors

\* The batches a sample is laid out over are the steps between its totals,
\* and together they hold all it adds (batchDeltas loses nothing).
LEMMA BatchesOfSample ==
    ASSUME TypeOK, Len(account) = nextSeq, NEW s \in Samples,
           \A u \in s.members : ~Regressed(s, u),
           NEW k \in Nat, NEW p \in [Changed(s) -> 1..k]
    PROVE  /\ \A i \in 1..k : BatchOf(s, p, i) \in Totals
           /\ \A i \in 0..k : TotalAfter(s, p, i) \in Totals
           /\ TotalAfter(s, p, 0) = account[nextSeq]
           /\ \A i \in 1..k :
                AddBatch(TotalAfter(s, p, i - 1), BatchOf(s, p, i))
                    = TotalAfter(s, p, i)
           /\ \A u \in Users :
                TotalAfter(s, p, k).bytes[u] =
                    account[nextSeq].bytes[u]
                        + IF u \in s.members THEN Fresh(s, u) ELSE 0
<1>1. account[nextSeq] \in Totals
  BY DEF TypeOK, StreamType
<1>2. \A u \in s.members : Fresh(s, u) \in Nat
  BY FreshIsNat
<1>3. Changed(s) \subseteq s.members /\ s.members \subseteq Users
  BY DEF Changed, Samples
<1>4. \A u \in Users : cursor[u].runtime \in Runtimes
  BY DEF TypeOK, StreamType, Cursors
<1>5. \A u \in Changed(s) : p[u] \in 1..k
  OBVIOUS
<1>6. \A i \in 1..k : BatchOf(s, p, i) \in Totals
  <2> TAKE i \in 1..k
  <2>1. BatchOf(s, p, i).bytes \in [Users -> Nat]
    BY <1>2, <1>3 DEF BatchOf
  <2>2. BatchOf(s, p, i).gaps \subseteq Gaps
    BY <1>3, <1>4 DEF BatchOf, Gaps
  <2> QED  BY <2>1, <2>2 DEF BatchOf, Totals
<1>7. \A i \in 0..k : TotalAfter(s, p, i) \in Totals
  <2> TAKE i \in 0..k
  <2>1. TotalAfter(s, p, i).bytes \in [Users -> Nat]
    BY <1>1, <1>2, <1>3 DEF TotalAfter, Totals
  <2>2. TotalAfter(s, p, i).gaps \subseteq Gaps
    BY <1>1, <1>3, <1>4 DEF TotalAfter, Gaps, Totals
  <2> QED  BY <2>1, <2>2 DEF TotalAfter, Totals
<1>8. TotalAfter(s, p, 0) = account[nextSeq]
  <2>1. TotalAfter(s, p, 0).bytes = account[nextSeq].bytes
    BY <1>1, <1>5 DEF TotalAfter, Totals
  <2>2. TotalAfter(s, p, 0).gaps = account[nextSeq].gaps
    BY <1>1, <1>5 DEF TotalAfter, Totals
  <2> QED  BY <2>1, <2>2, <1>1 DEF TotalAfter, Totals
<1>9. ASSUME NEW i \in 1..k
      PROVE  AddBatch(TotalAfter(s, p, i - 1), BatchOf(s, p, i))
                 = TotalAfter(s, p, i)
  <2>1. \A u \in Users :
          TotalAfter(s, p, i - 1).bytes[u] + BatchOf(s, p, i).bytes[u]
              = TotalAfter(s, p, i).bytes[u]
    BY <1>1, <1>2, <1>3, <1>5 DEF TotalAfter, BatchOf, Totals
  <2>2. TotalAfter(s, p, i - 1).gaps \cup BatchOf(s, p, i).gaps
          = TotalAfter(s, p, i).gaps
    BY <1>5 DEF TotalAfter, BatchOf
  <2>3. TotalAfter(s, p, i).bytes
          = [u \in Users |-> TotalAfter(s, p, i - 1).bytes[u]
                               + BatchOf(s, p, i).bytes[u]]
    BY <2>1 DEF TotalAfter
  <2> QED  BY <2>2, <2>3 DEF AddBatch, TotalAfter
<1>10. ASSUME NEW u \in Users
       PROVE  TotalAfter(s, p, k).bytes[u] =
                account[nextSeq].bytes[u]
                    + IF u \in s.members THEN Fresh(s, u) ELSE 0
  <2>1. u \in s.members /\ u \notin Changed(s) => Fresh(s, u) = 0
    BY <1>2 DEF Changed
  <2> QED  BY <1>1, <1>2, <1>3, <1>5, <2>1 DEF TotalAfter, Totals
<1> QED  BY <1>6, <1>7, <1>8, <1>9, <1>10

\* What a recorded sample does to the stream, for any sample.
LEMMA RecordSampleStep ==
    ASSUME TypeOK, StreamNumbers, BatchesMatchAccount,
           NEW s \in Samples, RecordSample(s)
    PROVE  /\ cursor' \in [Users -> Cursors]
           /\ nextSeq' \in Nat \ {0} /\ nextSeq <= nextSeq'
           /\ outbox' \in [DOMAIN outbox' -> Totals]
           /\ DOMAIN outbox' = (committedSeq + 1)..(nextSeq' - 1)
           /\ account' \in Seq(Totals) /\ Len(account') = nextSeq'
           /\ \A n \in 1..nextSeq : account'[n] = account[n]
           /\ \A n \in DOMAIN outbox' :
                AddBatch(account'[n], outbox'[n]) = account'[n + 1]
           /\ \A u \in Users :
                account'[nextSeq'].bytes[u] =
                    account[nextSeq].bytes[u]
                        + IF u \in s.members THEN Fresh(s, u) ELSE 0
<1>1. \A u \in s.members : ~Regressed(s, u)
  BY DEF RecordSample
<1>2. cursor' \in [Users -> Cursors]
  <2>1. \A u \in Users : CursorAfter(s, u) \in Cursors
    BY DEF CursorAfter, TypeOK, StreamType, Cursors, Samples
  <2> QED  BY <2>1 DEF RecordSample
<1>3. PICK k \in 0..Cardinality(Changed(s)) : \E p \in Chunks(s, k) :
         /\ nextSeq' = nextSeq + k
         /\ outbox' = [n \in DOMAIN outbox \cup (nextSeq..(nextSeq + k - 1)) |->
                         IF n < nextSeq THEN outbox[n]
                         ELSE BatchOf(s, p, n - nextSeq + 1)]
         /\ account' = [n \in 1..(nextSeq + k) |->
                         IF n <= nextSeq THEN account[n]
                         ELSE TotalAfter(s, p, n - nextSeq)]
  BY Zenon DEF RecordSample
<1>4. PICK p \in Chunks(s, k) :
         /\ nextSeq' = nextSeq + k
         /\ outbox' = [n \in DOMAIN outbox \cup (nextSeq..(nextSeq + k - 1)) |->
                         IF n < nextSeq THEN outbox[n]
                         ELSE BatchOf(s, p, n - nextSeq + 1)]
         /\ account' = [n \in 1..(nextSeq + k) |->
                         IF n <= nextSeq THEN account[n]
                         ELSE TotalAfter(s, p, n - nextSeq)]
  BY <1>3, Zenon
<1>5. k \in Nat /\ p \in [Changed(s) -> 1..k]
  BY <1>4 DEF Chunks
<1>6. /\ nextSeq \in Nat \ {0} /\ committedSeq \in Nat
      /\ account \in Seq(Totals) /\ Len(account) = nextSeq
      /\ \A n \in DOMAIN outbox : outbox[n] \in Totals
      /\ DOMAIN outbox = (committedSeq + 1)..(nextSeq - 1)
      /\ committedSeq < nextSeq
  BY DEF TypeOK, StreamType, StreamNumbers
<1>7. /\ \A i \in 1..k : BatchOf(s, p, i) \in Totals
      /\ \A i \in 0..k : TotalAfter(s, p, i) \in Totals
      /\ TotalAfter(s, p, 0) = account[nextSeq]
      /\ \A i \in 1..k :
           AddBatch(TotalAfter(s, p, i - 1), BatchOf(s, p, i))
               = TotalAfter(s, p, i)
      /\ \A u \in Users :
           TotalAfter(s, p, k).bytes[u] =
               account[nextSeq].bytes[u]
                   + IF u \in s.members THEN Fresh(s, u) ELSE 0
  BY <1>1, <1>5, <1>6, BatchesOfSample
<1>8. nextSeq' \in Nat \ {0} /\ nextSeq <= nextSeq'
  BY <1>4, <1>5, <1>6
<1>9. DOMAIN outbox' = (committedSeq + 1)..(nextSeq' - 1)
  BY <1>4, <1>5, <1>6
<1>10. \A n \in DOMAIN outbox' : outbox'[n] \in Totals
  BY <1>4, <1>5, <1>6, <1>7, <1>9
<1>11. outbox' \in [DOMAIN outbox' -> Totals]
  BY <1>4, <1>10
<1>12. /\ account' \in Seq(Totals) /\ Len(account') = nextSeq'
       /\ \A n \in 1..nextSeq : account'[n] = account[n]
  <2>1. \A n \in 1..(nextSeq + k) : account'[n] \in Totals
    BY <1>4, <1>5, <1>6, <1>7
  <2>2. account' \in [1..(nextSeq + k) -> Totals]
    BY <1>4, <2>1
  <2>3. nextSeq + k \in Nat
    BY <1>5, <1>6
  <2>4. account' \in Seq(Totals)
    BY <2>2, <2>3
  <2>5. Len(account') = nextSeq + k
    BY <2>2, <2>3, <2>4
  <2>6. \A n \in 1..nextSeq : account'[n] = account[n]
    BY <1>4, <1>5, <1>6
  <2> QED  BY <1>4, <2>4, <2>5, <2>6
<1>13. \A n \in (nextSeq)..(nextSeq + k) :
          account'[n] = TotalAfter(s, p, n - nextSeq)
  BY <1>4, <1>5, <1>6, <1>7
<1>14. ASSUME NEW n \in DOMAIN outbox'
       PROVE  AddBatch(account'[n], outbox'[n]) = account'[n + 1]
  <2>1. CASE n < nextSeq
    <3>1. n \in DOMAIN outbox /\ outbox'[n] = outbox[n]
      BY <2>1, <1>4, <1>5, <1>6
    <3>2. account'[n] = account[n] /\ account'[n + 1] = account[n + 1]
      BY <2>1, <1>6, <1>12, <3>1
    <3> QED  BY <3>1, <3>2 DEF BatchesMatchAccount
  <2>2. CASE n >= nextSeq
    <3>0. n \in nextSeq..(nextSeq + k - 1)
      BY <2>2, <1>4, <1>5, <1>6, <1>9
    <3> DEFINE i == n - nextSeq + 1
    <3>1. i \in 1..k /\ i - 1 = n - nextSeq /\ (n + 1) - nextSeq = i
      BY <3>0, <1>5, <1>6
    <3>2. outbox'[n] = BatchOf(s, p, i)
      BY <3>0, <1>4, <1>5, <1>6
    <3>3. account'[n] = TotalAfter(s, p, i - 1)
      BY <3>0, <3>1, <1>13, <1>5, <1>6
    <3>4. account'[n + 1] = TotalAfter(s, p, i)
      BY <3>0, <3>1, <1>13, <1>5, <1>6
    <3> HIDE DEF i
    <3> QED  BY <3>1, <3>2, <3>3, <3>4, <1>7
  <2> QED  BY <2>1, <2>2, <1>6, <1>9
<1>15. account'[nextSeq'] = TotalAfter(s, p, k)
  <2>1. nextSeq + k \in nextSeq..(nextSeq + k) /\ (nextSeq + k) - nextSeq = k
    BY <1>5, <1>6
  <2> QED  BY <2>1, <1>4, <1>13
<1> QED
  BY <1>2, <1>7, <1>8, <1>9, <1>11, <1>12, <1>14, <1>15

\* A recorded sample of a runtime whose cursors are not ahead of it leaves
\* nothing of it uncovered, and counts just what was uncovered before.
LEMMA RecordSampleCovers ==
    ASSUME TypeOK, NEW s \in Samples, RecordSample(s),
           \A u \in s.members : cursor[u].runtime = s.runtime
                                    => cursor[u].value <= s.value[u]
    PROVE  \A u \in Users :
             /\ u \in s.members => /\ cursor'[u].runtime = s.runtime
                                   /\ cursor'[u].value = s.value[u]
                                   /\ Fresh(s, u) = Uncovered(s, u)
             /\ u \notin s.members => /\ cursor'[u] = cursor[u]
                                      /\ Uncovered(s, u) = 0
<1> TAKE u \in Users
<1>1. cursor'[u] = CursorAfter(s, u)
  BY DEF RecordSample
<1>2. u \in s.members => ~Regressed(s, u)
  BY DEF RecordSample
<1>3. cursor[u].value \in Nat /\ s.value[u] \in Nat
  BY DEF TypeOK, StreamType, Cursors, Samples
<1>4. CASE u \notin s.members
  BY <1>1, <1>4 DEF CursorAfter, Uncovered
<1>5. CASE u \in s.members /\ Late(s, u)
  <2>1. cursor[u].runtime = s.runtime /\ cursor'[u] = cursor[u]
    BY <1>1, <1>5 DEF Late, CursorAfter
  <2>2. cursor[u].value = s.value[u]
    BY <1>2, <1>3, <1>5, <2>1 DEF Regressed
  <2> QED  BY <1>3, <1>5, <2>1, <2>2 DEF Fresh, Uncovered
<1>6. CASE u \in s.members /\ ~Late(s, u)
  BY <1>1, <1>6 DEF CursorAfter, Fresh, Uncovered
<1> QED  BY <1>4, <1>5, <1>6

\* The stream, its requests and the panel after a recorded sample.
LEMMA RecordSampleKeepsStream ==
    ASSUME TypeOK, StreamNumbers, BatchesMatchAccount, SnapshotsMatchAccount,
           AcksAreCommitted,
           NEW s \in Samples, RecordSample(s), UNCHANGED <<wire, panel>>
    PROVE  /\ StreamNumbers' /\ BatchesMatchAccount' /\ SnapshotsMatchAccount'
           /\ AcksAreCommitted'
<1> USE DEF wire, panel
<1>1. /\ nextSeq' \in Nat \ {0} /\ nextSeq <= nextSeq'
      /\ DOMAIN outbox' = (committedSeq + 1)..(nextSeq' - 1)
      /\ Len(account') = nextSeq'
      /\ \A n \in 1..nextSeq : account'[n] = account[n]
      /\ \A n \in DOMAIN outbox' :
           AddBatch(account'[n], outbox'[n]) = account'[n + 1]
  BY RecordSampleStep
<1>2. committedSeq' = committedSeq
  BY DEF RecordSample
<1>3. /\ nextSeq \in Nat \ {0} /\ committedSeq \in Nat /\ streamSeq \in Nat
      /\ backup.seq \in Nat
  BY DEF TypeOK, StreamType, PanelType
<1>4. StreamNumbers'
  BY <1>1, <1>2, <1>3 DEF StreamNumbers
<1>5. BatchesMatchAccount'
  <2>1. ASSUME NEW c \in calls
        PROVE  /\ c.seq \in 1..(nextSeq' - 1)
               /\ AddBatch(account'[c.seq], c.batch) = account'[c.seq + 1]
    <3>1. /\ c.seq \in 1..(nextSeq - 1)
          /\ AddBatch(account[c.seq], c.batch) = account[c.seq + 1]
      BY DEF BatchesMatchAccount
    <3>2. c.seq \in 1..nextSeq /\ c.seq + 1 \in 1..nextSeq
      BY <3>1, <1>3
    <3>3. c.seq \in 1..(nextSeq' - 1)
      BY <3>1, <1>1, <1>3
    <3>4. account'[c.seq] = account[c.seq]
      BY <3>2, <1>1
    <3>5. account'[c.seq + 1] = account[c.seq + 1]
      BY <3>2, <1>1
    <3>6. AddBatch(account'[c.seq], c.batch) = AddBatch(account[c.seq], c.batch)
      BY <3>4
    <3> QED  BY <3>1, <3>3, <3>5, <3>6
  <2> QED  BY <2>1, <1>1, Zenon DEF BatchesMatchAccount
<1>6. SnapshotsMatchAccount'
  <2>1. streamSeq + 1 \in 1..nextSeq /\ backup.seq + 1 \in 1..nextSeq
    BY <1>3 DEF StreamNumbers
  <2> QED  BY <2>1, <1>1 DEF SnapshotsMatchAccount
<1>7. AcksAreCommitted'
  BY <1>2 DEF AcksAreCommitted
<1> QED  BY <1>4, <1>5, <1>6, <1>7

\* What stands in numbered batches after a recorded sample.
LEMMA RecordSampleBytes ==
    ASSUME TypeOK, StreamNumbers, BatchesMatchAccount,
           NEW s \in Samples, RecordSample(s),
           \A u \in s.members : cursor[u].runtime = s.runtime
                                    => cursor[u].value <= s.value[u]
    PROVE  \A u \in Users :
             account'[nextSeq'].bytes[u] =
                 account[nextSeq].bytes[u] + Uncovered(s, u)
<1> TAKE u \in Users
<1>1. account'[nextSeq'].bytes[u] =
        account[nextSeq].bytes[u] + IF u \in s.members THEN Fresh(s, u) ELSE 0
  BY RecordSampleStep
<1>2. /\ u \in s.members => Fresh(s, u) = Uncovered(s, u)
      /\ u \notin s.members => Uncovered(s, u) = 0
  BY RecordSampleCovers
<1> QED  BY <1>1, <1>2

--------------------------------------------------------------------------------
(***************************************************************************)
(* The invariant is inductive                                              *)
(***************************************************************************)

\* Facts about the types that most steps use.
LEMMA SampleType == ASSUME TypeOK, NEW f \in BOOLEAN PROVE Sample(f) \in Samples
BY DEF TypeOK, InstanceType, Sample, Samples

\* A sequence that is not empty has a first element.
LEMMA NonEmptySeq ==
    ASSUME NEW S, NEW q \in Seq(S), q # <<>>
    PROVE  Len(q) \in Nat \ {0}
<1>1. Len(q) \in Nat /\ q = [i \in 1..Len(q) |-> q[i]]
  OBVIOUS
<1> QED  BY <1>1

\* The sequence that KeepFinal builds.
LEMMA SingletonSeq == ASSUME NEW S, NEW x \in S PROVE <<x>> \in Seq(S)
OBVIOUS

\* What a tracker or a pending sample holds beyond its cursor is not negative.
LEMMA TailsAreNat ==
    ASSUME TypeOK, CursorsBehind, NEW u \in Users
    PROVE  LiveTail(u) \in Nat /\ PendingTail(u) \in Nat
<1>1. LiveTail(u) \in Nat
  BY DEF LiveTail, Uncovered, Sample, TypeOK, InstanceType, StreamType, Cursors,
         CursorsBehind
<1>2. CASE pendingFinal = <<>>
  BY <1>1, <1>2 DEF PendingTail
<1>3. CASE pendingFinal # <<>>
  <2>1. Head(pendingFinal) \in Samples
    BY <1>3 DEF TypeOK, InstanceType
  <2>2. PendingTail(u) \in Nat
    BY <1>3, <2>1 DEF PendingTail, Uncovered, TypeOK, StreamType, Cursors, CursorsBehind,
                      Samples
  <2> QED  BY <1>1, <2>2
<1> QED  BY <1>2, <1>3

\* The counts that BytesConserved adds up are numbers.
LEMMA CountsAreNat ==
    ASSUME TypeOK, StreamNumbers, NEW u \in Users
    PROVE  account[nextSeq].bytes[u] \in Nat /\ lost[u] \in Nat /\ used[u] \in Nat
<1>1. account[nextSeq] \in Totals
  BY DEF TypeOK, StreamType, StreamNumbers
<1>2. account[nextSeq].bytes \in [Users -> Nat]
  BY <1>1 DEF Totals
<1> QED  BY <1>2 DEF TypeOK, LossType

\* A new installation and an empty panel satisfy the invariant.
LEMMA InitInv == Init => Inv
<1> SUFFICES ASSUME Init PROVE Inv
  OBVIOUS
<1> USE UsageAssumption
<1>1. NoBatch \in Totals
  BY DEF NoBatch, NoBytes, Totals, Gaps
<1>2. TypeOK
  <2>1. cursor \in [Users -> Cursors]
    BY DEF Init, NoCursor, Cursors, Runtimes, Clocks
  <2>2. account \in Seq(Totals)
    BY <1>1 DEF Init
  <2>3. outbox \in [DOMAIN outbox -> Totals] /\ DOMAIN outbox \subseteq Nat
    BY DEF Init
  <2>4. backup \in [seq: Nat, last: Totals, ledger: Totals]
    BY <1>1 DEF Init
  <2>5. pendingFinal \in Seq(Samples)
    BY DEF Init
  <2>6. clock \in Clocks /\ startedAt \in Clocks /\ runtime \in Runtimes
    BY DEF Init, Clocks, Runtimes
  <2>7. /\ counter \in [Users -> Nat] /\ used \in [Users -> Nat]
        /\ lost \in [Users -> Nat]
    BY DEF Init, NoBytes
  <2>8. /\ phase \in Phases /\ members \in SUBSET Users /\ lostIn \subseteq Gaps
        /\ recovery \in BOOLEAN
        /\ calls \subseteq [seq: Nat, batch: Totals, live: BOOLEAN]
    BY DEF Init, Phases
  <2>9. /\ nextSeq \in Nat \ {0} /\ committedSeq \in Nat /\ streamSeq \in Nat
        /\ restores \in 0..MaxRestore /\ answer \in [seq: Nat, committed: Nat]
        /\ lastBatch \in Totals /\ ledger \in Totals
    BY <1>1 DEF Init, NoAnswer
  <2> QED
    BY <2>1, <2>2, <2>3, <2>4, <2>5, <2>6, <2>7, <2>8, <2>9
       DEF TypeOK, InstanceType, StreamType, WireType, PanelType, LossType
<1>3. CursorsBehind
  BY DEF Init, CursorsBehind, NoCursor
<1>4. /\ StreamNumbers /\ BatchesMatchAccount /\ SnapshotsMatchAccount
      /\ AcksAreCommitted
  BY DEF Init, StreamNumbers, BatchesMatchAccount, SnapshotsMatchAccount,
         AcksAreCommitted, NoAnswer
<1>5. BytesConserved
  BY DEF Init, BytesConserved, LiveTail, PendingTail, NoBatch, NoBytes
<1> QED  BY <1>2, <1>3, <1>4, <1>5 DEF Inv

\* Steps that leave the trackers, the cursors and the batches alone.
LEMMA CountsFrame ==
    ASSUME CursorsBehind, BytesConserved,
           UNCHANGED <<instance, cursor, nextSeq, account, used, losses>>
    PROVE  CursorsBehind' /\ BytesConserved'
<1> USE DEF instance, tracker, losses
<1>1. CursorsBehind'
  BY DEF CursorsBehind
<1>2. \A u \in Users : LiveTail(u)' = LiveTail(u)
  BY DEF LiveTail, Uncovered, Sample
<1>3. \A u \in Users : PendingTail(u)' = PendingTail(u)
  BY DEF PendingTail, Uncovered
<1> QED  BY <1>1, <1>2, <1>3 DEF BytesConserved

\* Steps that at most forget who waits for a request.
LEMMA StreamFrame ==
    ASSUME StreamNumbers, BatchesMatchAccount, SnapshotsMatchAccount,
           AcksAreCommitted, PanelType,
           UNCHANGED <<nextSeq, committedSeq, outbox, streamSeq, ledger, backup,
                       restores, account>>,
           answer' \in {answer, NoAnswer},
           \A c \in calls' : \E d \in calls : c.seq = d.seq /\ c.batch = d.batch
    PROVE  /\ StreamNumbers' /\ BatchesMatchAccount' /\ SnapshotsMatchAccount'
           /\ AcksAreCommitted'
<1>1. StreamNumbers' /\ SnapshotsMatchAccount'
  BY DEF StreamNumbers, SnapshotsMatchAccount
<1>2. BatchesMatchAccount'
  BY Zenon DEF BatchesMatchAccount
<1>3. AcksAreCommitted'
  BY DEF AcksAreCommitted, NoAnswer, PanelType
<1> QED  BY <1>1, <1>2, <1>3

--------------------------------------------------------------------------------
(***************************************************************************)
(* The steps of the core instance                                          *)
(***************************************************************************)

\* Time passes: only the upper bounds on times move.
LEMMA TickInv == ASSUME Inv, Tick PROVE Inv'
<1>1. /\ TypeOK /\ CursorsBehind /\ StreamNumbers /\ BatchesMatchAccount
      /\ SnapshotsMatchAccount /\ AcksAreCommitted /\ BytesConserved
  BY DEF Inv
<1>2. InstanceType'
  BY <1>1, UsageAssumption DEF Tick, TypeOK, InstanceType, Clocks, instance, tracker
<1>3. StreamType' /\ WireType' /\ PanelType' /\ LossType'
  BY <1>1 DEF Tick, TypeOK, StreamType, WireType, PanelType, LossType, stream, wire,
              panel, losses
<1>4. CursorsBehind' /\ BytesConserved'
  BY <1>1, CountsFrame DEF Tick, stream
<1>5. /\ StreamNumbers' /\ BatchesMatchAccount' /\ SnapshotsMatchAccount'
      /\ AcksAreCommitted'
  BY <1>1, StreamFrame DEF TypeOK, Tick, stream, wire, panel
<1> QED  BY <1>2, <1>3, <1>4, <1>5 DEF Inv, TypeOK

\* One byte more in the tracker, one more used.
LEMMA TrafficInv == ASSUME Inv, NEW u \in Users, Traffic(u) PROVE Inv'
<1>1. /\ TypeOK /\ CursorsBehind /\ StreamNumbers /\ BatchesMatchAccount
      /\ SnapshotsMatchAccount /\ AcksAreCommitted /\ BytesConserved
  BY DEF Inv
<1>2. /\ phase # "none" /\ u \in members
      /\ counter' = [counter EXCEPT ![u] = @ + 1]
      /\ used' = [used EXCEPT ![u] = @ + 1]
      /\ UNCHANGED <<clock, phase, runtime, startedAt, members, pendingFinal,
                     cursor, nextSeq, account, lost, lostIn>>
  BY DEF Traffic, stream, losses
<1>3. pendingFinal = <<>>
  BY <1>1, <1>2 DEF CursorsBehind
<1>4. counter \in [Users -> Nat] /\ cursor \in [Users -> Cursors]
  BY <1>1 DEF TypeOK, InstanceType, StreamType
<1>5. InstanceType' /\ LossType'
  BY <1>1, <1>2 DEF TypeOK, InstanceType, LossType
<1>6. StreamType' /\ WireType' /\ PanelType'
  BY <1>1 DEF Traffic, TypeOK, StreamType, WireType, PanelType, stream, wire, panel
<1>7. CursorsBehind'
  <2>1. ASSUME NEW w \in members, cursor[w].runtime = runtime
        PROVE  cursor[w].value <= counter'[w]
    <3>1. cursor[w].value <= counter[w]
      BY <1>1, <1>2, <2>1 DEF CursorsBehind
    <3>2. w \in Users /\ cursor[w].value \in Nat /\ counter[w] \in Nat
      BY <1>1, <1>4 DEF TypeOK, InstanceType, Cursors
    <3> QED  BY <1>2, <1>4, <3>1, <3>2
  <2> QED  BY <1>1, <1>2, <1>3, <2>1 DEF CursorsBehind
<1>8. BytesConserved'
  <2> SUFFICES ASSUME NEW w \in Users
               PROVE  (used[w] = account[nextSeq].bytes[w]
                         + LiveTail(w) + PendingTail(w) + lost[w])'
    BY DEF BytesConserved
  <2>1. PendingTail(w)' = 0 /\ PendingTail(w) = 0
    BY <1>2, <1>3 DEF PendingTail
  <2>2. LiveTail(w)' = IF w = u THEN LiveTail(w) + 1 ELSE LiveTail(w)
    BY <1>2, <1>4 DEF LiveTail, Uncovered, Sample, Cursors
  <2>3. used'[w] = IF w = u THEN used[w] + 1 ELSE used[w]
    BY <1>1, <1>2 DEF TypeOK, LossType
  <2>4. LiveTail(w) \in Nat
    BY <1>1, TailsAreNat
  <2>5. account[nextSeq].bytes[w] \in Nat /\ lost[w] \in Nat /\ used[w] \in Nat
    BY <1>1, CountsAreNat
  <2>6. used[w] = account[nextSeq].bytes[w]
                    + LiveTail(w) + PendingTail(w) + lost[w]
    BY <1>1 DEF BytesConserved
  <2> QED  BY <2>1, <2>2, <2>3, <2>4, <2>5, <2>6, <1>2
<1>9. /\ StreamNumbers' /\ BatchesMatchAccount' /\ SnapshotsMatchAccount'
      /\ AcksAreCommitted'
  BY <1>1, StreamFrame DEF TypeOK, Traffic, stream, wire, panel
<1> QED  BY <1>5, <1>6, <1>7, <1>8, <1>9 DEF Inv, TypeOK

\* A tracker of zeros that was never sampled adds no tail.
LEMMA StartFailsInv == ASSUME Inv, NEW us \in SUBSET Users, StartFails(us) PROVE Inv'
<1>1. /\ TypeOK /\ CursorsBehind /\ StreamNumbers /\ BatchesMatchAccount
      /\ SnapshotsMatchAccount /\ AcksAreCommitted /\ BytesConserved
  BY DEF Inv
<1>2. /\ phase = "none" /\ pendingFinal = <<>> /\ runtime < MaxRuntime
      /\ phase' = "unstarted" /\ pendingFinal' = pendingFinal
      /\ runtime' = runtime + 1 /\ startedAt' = clock /\ members' = us
      /\ counter' = NoBytes /\ clock' = clock
      /\ UNCHANGED <<cursor, nextSeq, account, used, lost>>
  BY DEF StartFails, MayStart, stream, losses
<1>3. runtime \in Nat /\ \A u \in Users : cursor[u].runtime \in Nat
  BY <1>1, UsageAssumption DEF TypeOK, InstanceType, StreamType, Cursors, Runtimes
<1>4. InstanceType'
  BY <1>1, <1>2, UsageAssumption DEF TypeOK, InstanceType, Phases, Runtimes, NoBytes
<1>5. StreamType' /\ WireType' /\ PanelType' /\ LossType'
  BY <1>1 DEF StartFails, TypeOK, StreamType, WireType, PanelType, LossType, stream,
              wire, panel, losses
<1>6. \A u \in Users : cursor[u].runtime < runtime'
  BY <1>1, <1>2, <1>3 DEF CursorsBehind
<1>7. us \subseteq Users
  OBVIOUS
<1>8. CursorsBehind'
  BY <1>2, <1>3, <1>6, <1>7 DEF CursorsBehind
<1>9. BytesConserved'
  <2> SUFFICES ASSUME NEW w \in Users
               PROVE  (used[w] = account[nextSeq].bytes[w]
                         + LiveTail(w) + PendingTail(w) + lost[w])'
    BY DEF BytesConserved
  <2>1. LiveTail(w) = 0 /\ PendingTail(w) = 0 /\ PendingTail(w)' = 0
    BY <1>2 DEF LiveTail, PendingTail
  <2>2. LiveTail(w)' = 0
    BY <1>2, <1>3, <1>6 DEF LiveTail, Uncovered, Sample, NoBytes
  <2> QED  BY <1>1, <1>2, <2>1, <2>2 DEF BytesConserved
<1>10. /\ StreamNumbers' /\ BatchesMatchAccount' /\ SnapshotsMatchAccount'
      /\ AcksAreCommitted'
  BY <1>1, StreamFrame DEF TypeOK, StartFails, stream, wire, panel
<1> QED  BY <1>4, <1>5, <1>8, <1>9, <1>10 DEF Inv, TypeOK

\* A detached instance keeps its tracker.
LEMMA DetachInv == ASSUME Inv, Detach PROVE Inv'
<1>1. /\ TypeOK /\ CursorsBehind /\ StreamNumbers /\ BatchesMatchAccount
      /\ SnapshotsMatchAccount /\ AcksAreCommitted /\ BytesConserved
  BY DEF Inv
<1>2. /\ phase = "active" /\ phase' = "draining"
      /\ UNCHANGED <<clock, runtime, startedAt, members, counter, pendingFinal,
                     cursor, nextSeq, account, used, lost>>
  BY DEF Detach, tracker, stream, losses
<1>3. InstanceType'
  BY <1>1, <1>2 DEF TypeOK, InstanceType, Phases
<1>4. StreamType' /\ WireType' /\ PanelType' /\ LossType'
  BY <1>1 DEF Detach, TypeOK, StreamType, WireType, PanelType, LossType, stream,
              wire, panel, losses
<1>5. CursorsBehind'
  BY <1>1, <1>2 DEF CursorsBehind
<1>6. BytesConserved'
  <2> SUFFICES ASSUME NEW w \in Users
               PROVE  (used[w] = account[nextSeq].bytes[w]
                         + LiveTail(w) + PendingTail(w) + lost[w])'
    BY DEF BytesConserved
  <2>1. LiveTail(w)' = LiveTail(w)
    BY <1>2 DEF LiveTail, Uncovered, Sample
  <2>2. PendingTail(w)' = PendingTail(w)
    BY <1>2 DEF PendingTail, Uncovered
  <2> QED  BY <1>1, <1>2, <2>1, <2>2 DEF BytesConserved
<1>7. /\ StreamNumbers' /\ BatchesMatchAccount' /\ SnapshotsMatchAccount'
      /\ AcksAreCommitted'
  BY <1>1, StreamFrame DEF TypeOK, Detach, stream, wire, panel
<1> QED  BY <1>3, <1>4, <1>5, <1>6, <1>7 DEF Inv, TypeOK

\* The tail moves from the tracker to the pending final sample.
LEMMA CloseDeferredInv == ASSUME Inv, CloseDeferred PROVE Inv'
<1>1. /\ TypeOK /\ CursorsBehind /\ StreamNumbers /\ BatchesMatchAccount
      /\ SnapshotsMatchAccount /\ AcksAreCommitted /\ BytesConserved
  BY DEF Inv
<1>2. /\ phase # "none" /\ phase' = "none" /\ pendingFinal' = KeepFinal
      /\ UNCHANGED <<clock, runtime, startedAt, members, counter, cursor, nextSeq,
                     account, used, lost>>
  BY DEF CloseDeferred, tracker, stream, losses
<1>3. pendingFinal = <<>> /\ Sample(TRUE) \in Samples
  BY <1>1, <1>2, SampleType DEF CursorsBehind
<1>4. \/ members = {} /\ pendingFinal' = <<>>
      \/ pendingFinal' = <<Sample(TRUE)>>
  <2>1. Append(<<>>, Sample(TRUE)) = <<Sample(TRUE)>>
    OBVIOUS
  <2> QED  BY <1>2, <1>3, <2>1, Zenon DEF KeepFinal
<1>5. InstanceType'
  <2>1. pendingFinal' \in Seq(Samples)
    <3>1. <<Sample(TRUE)>> \in Seq(Samples)
      BY <1>3, SingletonSeq
    <3>2. <<>> \in Seq(Samples)
      OBVIOUS
    <3> QED  BY <1>4, <3>1, <3>2, Zenon
  <2> QED  BY <1>1, <1>2, <2>1 DEF TypeOK, InstanceType, Phases
<1>6. StreamType' /\ WireType' /\ PanelType' /\ LossType'
  BY <1>1 DEF CloseDeferred, TypeOK, StreamType, WireType, PanelType, LossType,
              stream, wire, panel, losses
<1>7. /\ runtime \in Nat
      /\ \A u \in members : cursor[u].runtime = runtime => cursor[u].value <= counter[u]
      /\ \A u \in Users : cursor[u].runtime <= runtime
  BY <1>1, <1>2, UsageAssumption DEF CursorsBehind, TypeOK, InstanceType, Runtimes
<1>8. CursorsBehind'
  <2>1. CASE pendingFinal' = <<>>
    BY <1>2, <1>7, <2>1 DEF CursorsBehind
  <2>2. CASE pendingFinal' = <<Sample(TRUE)>>
    <3>1. /\ Len(pendingFinal') = 1 /\ Head(pendingFinal') = Sample(TRUE)
          /\ pendingFinal' # <<>>
      BY <2>2
    <3> QED  BY <1>2, <1>7, <3>1 DEF CursorsBehind, Sample
  <2> QED  BY <1>4, <2>1, <2>2
<1>9. BytesConserved'
  <2> SUFFICES ASSUME NEW w \in Users
               PROVE  (used[w] = account[nextSeq].bytes[w]
                         + LiveTail(w) + PendingTail(w) + lost[w])'
    BY DEF BytesConserved
  <2>1. LiveTail(w)' = 0 /\ PendingTail(w) = 0
    BY <1>2, <1>3 DEF LiveTail, PendingTail
  <2>2. PendingTail(w)' = LiveTail(w)
    <3>1. LiveTail(w) = Uncovered(Sample(TRUE), w)
      BY <1>2 DEF LiveTail
    <3>2. CASE members = {} /\ pendingFinal' = <<>>
      BY <3>1, <3>2 DEF PendingTail, Uncovered, Sample
    <3>3. CASE pendingFinal' = <<Sample(TRUE)>>
      <4>1. Head(pendingFinal') = Sample(TRUE) /\ pendingFinal' # <<>>
        BY <3>3
      <4> QED  BY <1>2, <3>1, <4>1 DEF PendingTail, Uncovered
    <3> QED  BY <1>4, <3>2, <3>3
  <2>3. LiveTail(w) \in Nat
    BY <1>1, TailsAreNat
  <2>4. account[nextSeq].bytes[w] \in Nat /\ lost[w] \in Nat /\ used[w] \in Nat
    BY <1>1, CountsAreNat
  <2>5. used[w] = account[nextSeq].bytes[w]
                    + LiveTail(w) + PendingTail(w) + lost[w]
    BY <1>1 DEF BytesConserved
  <2> QED  BY <1>2, <2>1, <2>2, <2>3, <2>4, <2>5
<1>10. /\ StreamNumbers' /\ BatchesMatchAccount' /\ SnapshotsMatchAccount'
      /\ AcksAreCommitted'
  BY <1>1, StreamFrame DEF TypeOK, CloseDeferred, stream, wire, panel
<1> QED  BY <1>5, <1>6, <1>8, <1>9, <1>10 DEF Inv, TypeOK

\* The tail moves from the tracker to what is lost.
LEMMA DrainTimesOutInv == ASSUME Inv, DrainTimesOut PROVE Inv'
<1>1. /\ TypeOK /\ CursorsBehind /\ StreamNumbers /\ BatchesMatchAccount
      /\ SnapshotsMatchAccount /\ AcksAreCommitted /\ BytesConserved
  BY DEF Inv
<1>2. /\ phase # "none" /\ phase' = "none"
      /\ clock < MaxClock /\ clock' = clock + 1
      /\ lost' = [u \in Users |-> lost[u] + LiveTail(u)]
      /\ lostIn' = lostIn
           \cup {<<u, runtime>> : u \in {w \in Users : LiveTail(w) > 0}}
      /\ UNCHANGED <<runtime, startedAt, members, counter, pendingFinal, cursor,
                     nextSeq, account, used>>
  BY DEF DrainTimesOut, tracker, stream
<1>3. InstanceType'
  BY <1>1, <1>2, UsageAssumption DEF TypeOK, InstanceType, Phases, Clocks
<1>4. \A u \in Users : LiveTail(u) \in Nat
  BY <1>1, TailsAreNat
<1>5. LossType'
  <2>1. lost' \in [Users -> Nat]
    BY <1>1, <1>2, <1>4 DEF TypeOK, LossType
  <2>2. lostIn' \subseteq Gaps
    BY <1>1, <1>2 DEF TypeOK, LossType, InstanceType, Gaps
  <2> QED  BY <1>1, <1>2, <2>1, <2>2 DEF TypeOK, LossType
<1>6. StreamType' /\ WireType' /\ PanelType'
  BY <1>1 DEF DrainTimesOut, TypeOK, StreamType, WireType, PanelType, stream, wire,
              panel
<1>7. pendingFinal = <<>>
  BY <1>1, <1>2 DEF CursorsBehind
<1>8. CursorsBehind'
  BY <1>1, <1>2, <1>7 DEF CursorsBehind
<1>9. BytesConserved'
  <2> SUFFICES ASSUME NEW w \in Users
               PROVE  (used[w] = account[nextSeq].bytes[w]
                         + LiveTail(w) + PendingTail(w) + lost[w])'
    BY DEF BytesConserved
  <2>1. LiveTail(w)' = 0 /\ PendingTail(w) = 0 /\ PendingTail(w)' = 0
    BY <1>2, <1>7 DEF LiveTail, PendingTail
  <2>2. lost'[w] = lost[w] + LiveTail(w)
    BY <1>2
  <2>3. account[nextSeq].bytes[w] \in Nat /\ lost[w] \in Nat /\ used[w] \in Nat
    BY <1>1, CountsAreNat
  <2>4. used[w] = account[nextSeq].bytes[w]
                    + LiveTail(w) + PendingTail(w) + lost[w]
    BY <1>1 DEF BytesConserved
  <2> QED  BY <1>2, <1>4, <2>1, <2>2, <2>3, <2>4
<1>10. /\ StreamNumbers' /\ BatchesMatchAccount' /\ SnapshotsMatchAccount'
      /\ AcksAreCommitted'
  BY <1>1, StreamFrame DEF TypeOK, DrainTimesOut, stream, wire, panel
<1> QED  BY <1>3, <1>5, <1>6, <1>8, <1>9, <1>10 DEF Inv, TypeOK

\* Forgetting who waits changes neither the types nor the content of requests.
LEMMA OrphanedCalls ==
    ASSUME WireType, calls' = {[c EXCEPT !.live = FALSE] : c \in calls}
    PROVE  /\ calls' \subseteq [seq: Nat, batch: Totals, live: BOOLEAN]
           /\ \A c \in calls' : \E d \in calls : c.seq = d.seq /\ c.batch = d.batch
BY DEF WireType

\* Both tails move to what is lost; the requests become orphans.
LEMMA CrashInv == ASSUME Inv, Crash PROVE Inv'
<1>1. /\ TypeOK /\ CursorsBehind /\ StreamNumbers /\ BatchesMatchAccount
      /\ SnapshotsMatchAccount /\ AcksAreCommitted /\ BytesConserved
  BY DEF Inv
<1>2. /\ phase' = "none" /\ pendingFinal' = <<>>
      /\ clock < MaxClock /\ clock' = clock + 1
      /\ lost' = [u \in Users |-> lost[u] + LiveTail(u) + PendingTail(u)]
      /\ lostIn' = lostIn
           \cup {<<u, runtime>> : u \in {w \in Users : LiveTail(w) > 0}}
           \cup {<<u, Head(pendingFinal).runtime>> :
                    u \in {w \in Users : PendingTail(w) > 0}}
      /\ calls' = {[c EXCEPT !.live = FALSE] : c \in calls}
      /\ answer' = NoAnswer
      /\ UNCHANGED <<runtime, startedAt, members, counter, cursor, nextSeq,
                     account, used>>
  BY DEF Crash, tracker, stream
<1>3. InstanceType'
  <2>1. pendingFinal' \in Seq(Samples)
    BY <1>2
  <2> QED  BY <1>1, <1>2, <2>1, UsageAssumption
           DEF TypeOK, InstanceType, Phases, Clocks
<1>4. \A u \in Users : LiveTail(u) \in Nat /\ PendingTail(u) \in Nat
  BY <1>1, TailsAreNat
<1>5. LossType'
  <2>1. lost' \in [Users -> Nat]
    BY <1>1, <1>2, <1>4 DEF TypeOK, LossType
  <2>2. ASSUME NEW u \in Users, PendingTail(u) > 0
        PROVE  Head(pendingFinal).runtime \in Runtimes
    <3>1. pendingFinal # <<>>
      BY <2>2 DEF PendingTail
    <3>2. Head(pendingFinal) \in Samples
      BY <1>1, <3>1 DEF TypeOK, InstanceType
    <3> QED  BY <3>2 DEF Samples
  <2>3. lostIn' \subseteq Gaps
    BY <1>1, <1>2, <2>2 DEF TypeOK, LossType, InstanceType, Gaps
  <2> QED  BY <1>1, <1>2, <2>1, <2>3 DEF TypeOK, LossType
<1>6. StreamType' /\ WireType' /\ PanelType'
  <2>1. WireType'
    BY <1>1, <1>2, OrphanedCalls DEF TypeOK, WireType, NoAnswer
  <2> QED  BY <1>1, <2>1 DEF Crash, TypeOK, StreamType, PanelType, stream, panel
<1>7. CursorsBehind'
  BY <1>1, <1>2 DEF CursorsBehind
<1>8. BytesConserved'
  <2> SUFFICES ASSUME NEW w \in Users
               PROVE  (used[w] = account[nextSeq].bytes[w]
                         + LiveTail(w) + PendingTail(w) + lost[w])'
    BY DEF BytesConserved
  <2>1. LiveTail(w)' = 0 /\ PendingTail(w)' = 0
    BY <1>2 DEF LiveTail, PendingTail
  <2>2. lost'[w] = lost[w] + LiveTail(w) + PendingTail(w)
    BY <1>2
  <2>3. account[nextSeq].bytes[w] \in Nat /\ lost[w] \in Nat /\ used[w] \in Nat
    BY <1>1, CountsAreNat
  <2>4. used[w] = account[nextSeq].bytes[w]
                    + LiveTail(w) + PendingTail(w) + lost[w]
    BY <1>1 DEF BytesConserved
  <2> QED  BY <1>2, <1>4, <2>1, <2>2, <2>3, <2>4
<1>9. /\ StreamNumbers' /\ BatchesMatchAccount' /\ SnapshotsMatchAccount'
      /\ AcksAreCommitted'
  <2>1. \A c \in calls' : \E d \in calls : c.seq = d.seq /\ c.batch = d.batch
    BY <1>1, <1>2, OrphanedCalls DEF TypeOK
  <2> QED  BY <1>1, <2>1, StreamFrame DEF Crash, TypeOK, stream, panel
<1> QED  BY <1>3, <1>5, <1>6, <1>7, <1>8, <1>9 DEF Inv, TypeOK

\* What every step that records a sample has in common.
LEMMA RecordInv ==
    ASSUME Inv, NEW s \in Samples, RecordSample(s),
           \A u \in s.members : cursor[u].runtime = s.runtime
                                    => cursor[u].value <= s.value[u],
           UNCHANGED <<wire, panel, used, losses>>
    PROVE  /\ StreamType' /\ WireType' /\ PanelType' /\ LossType'
           /\ StreamNumbers' /\ BatchesMatchAccount' /\ SnapshotsMatchAccount'
           /\ AcksAreCommitted'
           /\ \A u \in Users :
                /\ account'[nextSeq'].bytes[u] =
                      account[nextSeq].bytes[u] + Uncovered(s, u)
                /\ u \in s.members => /\ cursor'[u].runtime = s.runtime
                                      /\ cursor'[u].value = s.value[u]
                /\ u \notin s.members => /\ cursor'[u] = cursor[u]
                                         /\ Uncovered(s, u) = 0
<1>1. /\ TypeOK /\ CursorsBehind /\ StreamNumbers /\ BatchesMatchAccount
      /\ SnapshotsMatchAccount /\ AcksAreCommitted /\ BytesConserved
  BY DEF Inv
<1>2. StreamType'
  <2>1. /\ cursor' \in [Users -> Cursors] /\ nextSeq' \in Nat \ {0}
        /\ outbox' \in [DOMAIN outbox' -> Totals]
        /\ DOMAIN outbox' = (committedSeq + 1)..(nextSeq' - 1)
        /\ account' \in Seq(Totals)
    BY <1>1, RecordSampleStep
  <2>2. /\ committedSeq' = committedSeq /\ recovery' = recovery
        /\ committedSeq \in Nat /\ recovery \in BOOLEAN
    BY <1>1 DEF RecordSample, TypeOK, StreamType
  <2>3. DOMAIN outbox' \subseteq Nat
    BY <2>1, <2>2
  <2> QED  BY <2>1, <2>2, <2>3 DEF StreamType
<1>3. WireType' /\ PanelType' /\ LossType'
  BY <1>1 DEF TypeOK, WireType, PanelType, LossType, wire, panel, losses
<1>4. /\ StreamNumbers' /\ BatchesMatchAccount' /\ SnapshotsMatchAccount'
      /\ AcksAreCommitted'
  BY <1>1, RecordSampleKeepsStream
<1>5. \A u \in Users :
        account'[nextSeq'].bytes[u] = account[nextSeq].bytes[u] + Uncovered(s, u)
  BY <1>1, RecordSampleBytes
<1>6. \A u \in Users :
        /\ u \in s.members => /\ cursor'[u].runtime = s.runtime
                              /\ cursor'[u].value = s.value[u]
        /\ u \notin s.members => /\ cursor'[u] = cursor[u]
                                 /\ Uncovered(s, u) = 0
  BY <1>1, RecordSampleCovers
<1> QED  BY <1>2, <1>3, <1>4, <1>5, <1>6

\* The baseline of a new runtime adds nothing, and no cursor is ahead of it.
LEMMA StartInstanceInv ==
    ASSUME Inv, NEW us \in SUBSET Users, StartInstance(us) PROVE Inv'
<1>1. /\ TypeOK /\ CursorsBehind /\ StreamNumbers /\ BatchesMatchAccount
      /\ SnapshotsMatchAccount /\ AcksAreCommitted /\ BytesConserved
  BY DEF Inv
<1> DEFINE s == [runtime |-> runtime + 1, startedAt |-> clock, at |-> clock,
                 final |-> FALSE, members |-> us, value |-> NoBytes]
<1>2. /\ phase = "none" /\ pendingFinal = <<>> /\ runtime < MaxRuntime
      /\ phase' = "active" /\ pendingFinal' = pendingFinal
      /\ runtime' = runtime + 1 /\ startedAt' = clock /\ members' = us
      /\ counter' = NoBytes /\ clock' = clock
      /\ RecordSample(s) /\ UNCHANGED <<wire, panel, used, losses>>
  BY DEF StartInstance, MayStart
<1>3. runtime \in Nat /\ \A u \in Users : cursor[u].runtime \in Nat
  BY <1>1, UsageAssumption DEF TypeOK, InstanceType, StreamType, Cursors, Runtimes
<1>4. InstanceType'
  BY <1>1, <1>2, UsageAssumption DEF TypeOK, InstanceType, Phases, Runtimes, NoBytes
<1>5. s \in Samples
  BY <1>1, <1>2, <1>3, UsageAssumption
     DEF TypeOK, InstanceType, Samples, Runtimes, NoBytes
<1>6. /\ s.members = us /\ s.runtime = runtime + 1 /\ s.value = NoBytes
      /\ us \subseteq Users
  OBVIOUS
<1>7. \A u \in Users : cursor[u].runtime < s.runtime
  BY <1>1, <1>3, <1>6 DEF CursorsBehind
<1>8. \A u \in Users : Uncovered(s, u) = 0
  BY <1>3, <1>6, <1>7 DEF Uncovered, NoBytes
<1> HIDE DEF s
<1>9. /\ StreamType' /\ WireType' /\ PanelType' /\ LossType'
      /\ StreamNumbers' /\ BatchesMatchAccount' /\ SnapshotsMatchAccount'
      /\ AcksAreCommitted'
      /\ \A u \in Users :
           /\ account'[nextSeq'].bytes[u] =
                 account[nextSeq].bytes[u] + Uncovered(s, u)
           /\ u \in us => /\ cursor'[u].runtime = s.runtime
                          /\ cursor'[u].value = NoBytes[u]
           /\ u \notin us => cursor'[u] = cursor[u]
  <2>1. \A u \in s.members : cursor[u].runtime = s.runtime
                                => cursor[u].value <= s.value[u]
    BY <1>3, <1>6, <1>7
  <2> QED  BY <1>2, <1>5, <1>6, <2>1, RecordInv
<1>10. CursorsBehind'
  <2>1. \A u \in Users : cursor'[u].runtime <= runtime'
    BY <1>2, <1>3, <1>6, <1>7, <1>9
  <2>2. \A u \in us : cursor'[u].value <= counter'[u]
    BY <1>2, <1>6, <1>9 DEF NoBytes
  <2> QED  BY <1>2, <2>1, <2>2 DEF CursorsBehind
<1>11. BytesConserved'
  <2> SUFFICES ASSUME NEW w \in Users
               PROVE  (used[w] = account[nextSeq].bytes[w]
                         + LiveTail(w) + PendingTail(w) + lost[w])'
    BY DEF BytesConserved
  <2>1. LiveTail(w) = 0 /\ PendingTail(w) = 0 /\ PendingTail(w)' = 0
    BY <1>2 DEF LiveTail, PendingTail
  <2>2. LiveTail(w)' = 0
    BY <1>2, <1>6, <1>9 DEF LiveTail, Uncovered, Sample, NoBytes
  <2>3. used'[w] = used[w] /\ lost'[w] = lost[w]
    BY <1>2 DEF losses
  <2>4. account[nextSeq].bytes[w] \in Nat /\ lost[w] \in Nat
    BY <1>1, CountsAreNat
  <2>5. account'[nextSeq'].bytes[w] = account[nextSeq].bytes[w]
    BY <1>8, <1>9, <2>4
  <2> QED  BY <1>1, <2>1, <2>2, <2>3, <2>4, <2>5 DEF BytesConserved
<1> QED  BY <1>4, <1>9, <1>10, <1>11 DEF Inv, TypeOK

\* What the tracker holds beyond the cursors moves to the account.
LEMMA CollectInv == ASSUME Inv, Collect PROVE Inv'
<1>1. /\ TypeOK /\ CursorsBehind /\ StreamNumbers /\ BatchesMatchAccount
      /\ SnapshotsMatchAccount /\ AcksAreCommitted /\ BytesConserved
  BY DEF Inv
<1>2. /\ phase = "active" /\ RecordSample(Sample(FALSE))
      /\ UNCHANGED <<clock, phase, runtime, startedAt, members, counter,
                     pendingFinal>>
      /\ UNCHANGED <<wire, panel, used, losses>>
  BY DEF Collect, instance, tracker
<1> DEFINE s == Sample(FALSE)
<1>3. /\ s \in Samples /\ s.members = members /\ s.runtime = runtime
      /\ s.value = counter /\ members \subseteq Users
  BY <1>1, SampleType DEF Sample, TypeOK, InstanceType
<1>4. \A u \in members : cursor[u].runtime = runtime => cursor[u].value <= counter[u]
  BY <1>1, <1>2 DEF CursorsBehind
<1>5. \A u \in Users : Uncovered(s, u) = LiveTail(u)
  BY <1>2 DEF LiveTail, Uncovered, Sample
<1> HIDE DEF s
<1>6. /\ StreamType' /\ WireType' /\ PanelType' /\ LossType'
      /\ StreamNumbers' /\ BatchesMatchAccount' /\ SnapshotsMatchAccount'
      /\ AcksAreCommitted'
      /\ \A u \in Users :
           /\ account'[nextSeq'].bytes[u] =
                 account[nextSeq].bytes[u] + Uncovered(s, u)
           /\ u \in members => /\ cursor'[u].runtime = runtime
                               /\ cursor'[u].value = counter[u]
           /\ u \notin members => cursor'[u] = cursor[u]
  BY <1>2, <1>3, <1>4, RecordInv DEF s
<1>7. InstanceType'
  BY <1>1, <1>2 DEF TypeOK, InstanceType
<1>8. CursorsBehind'
  <2>1. pendingFinal = <<>> /\ runtime \in Nat /\ counter \in [Users -> Nat]
    BY <1>1, <1>2, UsageAssumption DEF CursorsBehind, TypeOK, InstanceType, Runtimes
  <2>2. \A u \in Users : cursor'[u].runtime <= runtime
    BY <1>1, <1>6, <2>1 DEF CursorsBehind
  <2>3. \A u \in members : cursor'[u].value <= counter[u]
    BY <1>3, <1>6, <2>1
  <2> QED  BY <1>2, <2>1, <2>2, <2>3 DEF CursorsBehind
<1>9. BytesConserved'
  <2> SUFFICES ASSUME NEW w \in Users
               PROVE  (used[w] = account[nextSeq].bytes[w]
                         + LiveTail(w) + PendingTail(w) + lost[w])'
    BY DEF BytesConserved
  <2>1. PendingTail(w) = 0 /\ PendingTail(w)' = 0
    BY <1>1, <1>2 DEF PendingTail, CursorsBehind
  <2>2. LiveTail(w)' = 0
    <3>1. counter[w] \in Nat
      BY <1>1 DEF TypeOK, InstanceType
    <3> QED  BY <1>2, <1>6, <3>1 DEF LiveTail, Uncovered, Sample
  <2>3. used'[w] = used[w] /\ lost'[w] = lost[w]
    BY <1>2 DEF losses
  <2>4. account[nextSeq].bytes[w] \in Nat /\ lost[w] \in Nat
    BY <1>1, CountsAreNat
  <2>5. account'[nextSeq'].bytes[w] = account[nextSeq].bytes[w] + LiveTail(w)
    BY <1>5, <1>6
  <2>6. LiveTail(w) \in Nat
    BY <1>1, TailsAreNat
  <2>7. used[w] = account[nextSeq].bytes[w]
                    + LiveTail(w) + PendingTail(w) + lost[w]
    BY <1>1 DEF BytesConserved
  <2> QED  BY <2>1, <2>2, <2>3, <2>4, <2>5, <2>6, <2>7
<1> QED  BY <1>6, <1>7, <1>8, <1>9 DEF Inv, TypeOK

\* The tail moves from the tracker to the account.
LEMMA CloseRecordedInv == ASSUME Inv, CloseRecorded PROVE Inv'
<1>1. /\ TypeOK /\ CursorsBehind /\ StreamNumbers /\ BatchesMatchAccount
      /\ SnapshotsMatchAccount /\ AcksAreCommitted /\ BytesConserved
  BY DEF Inv
<1>2. /\ phase # "none" /\ phase' = "none" /\ RecordSample(Sample(TRUE))
      /\ UNCHANGED <<clock, runtime, startedAt, members, counter, pendingFinal>>
      /\ UNCHANGED <<wire, panel, used, losses>>
  BY DEF CloseRecorded, tracker
<1> DEFINE s == Sample(TRUE)
<1>3. /\ s \in Samples /\ s.members = members /\ s.runtime = runtime
      /\ s.value = counter /\ members \subseteq Users
  BY <1>1, SampleType DEF Sample, TypeOK, InstanceType
<1>4. \A u \in members : cursor[u].runtime = runtime => cursor[u].value <= counter[u]
  BY <1>1, <1>2 DEF CursorsBehind
<1>5. \A u \in Users : Uncovered(s, u) = LiveTail(u)
  BY <1>2 DEF LiveTail
<1> HIDE DEF s
<1>6. /\ StreamType' /\ WireType' /\ PanelType' /\ LossType'
      /\ StreamNumbers' /\ BatchesMatchAccount' /\ SnapshotsMatchAccount'
      /\ AcksAreCommitted'
      /\ \A u \in Users :
           /\ account'[nextSeq'].bytes[u] =
                 account[nextSeq].bytes[u] + Uncovered(s, u)
           /\ u \in members => cursor'[u].runtime = runtime
           /\ u \notin members => cursor'[u] = cursor[u]
  BY <1>2, <1>3, <1>4, RecordInv DEF s
<1>7. InstanceType'
  BY <1>1, <1>2 DEF TypeOK, InstanceType, Phases
<1>8. pendingFinal = <<>> /\ runtime \in Nat
  BY <1>1, <1>2, UsageAssumption DEF CursorsBehind, TypeOK, InstanceType, Runtimes
<1>9. CursorsBehind'
  <2>1. \A u \in Users : cursor'[u].runtime <= runtime
    BY <1>1, <1>6, <1>8 DEF CursorsBehind
  <2> QED  BY <1>2, <1>8, <2>1 DEF CursorsBehind
<1>10. BytesConserved'
  <2> SUFFICES ASSUME NEW w \in Users
               PROVE  (used[w] = account[nextSeq].bytes[w]
                         + LiveTail(w) + PendingTail(w) + lost[w])'
    BY DEF BytesConserved
  <2>1. PendingTail(w) = 0 /\ PendingTail(w)' = 0 /\ LiveTail(w)' = 0
    BY <1>2, <1>8 DEF PendingTail, LiveTail
  <2>2. used'[w] = used[w] /\ lost'[w] = lost[w]
    BY <1>2 DEF losses
  <2>3. account[nextSeq].bytes[w] \in Nat /\ lost[w] \in Nat
    BY <1>1, CountsAreNat
  <2>4. account'[nextSeq'].bytes[w] = account[nextSeq].bytes[w] + LiveTail(w)
    BY <1>5, <1>6
  <2>5. LiveTail(w) \in Nat
    BY <1>1, TailsAreNat
  <2>6. used[w] = account[nextSeq].bytes[w]
                    + LiveTail(w) + PendingTail(w) + lost[w]
    BY <1>1 DEF BytesConserved
  <2> QED  BY <2>1, <2>2, <2>3, <2>4, <2>5, <2>6
<1> QED  BY <1>6, <1>7, <1>9, <1>10 DEF Inv, TypeOK

\* The tail of the pending sample moves to the account; a second record of
\* the same sample moves nothing.
LEMMA RetryFinalInv == ASSUME Inv, RetryFinal PROVE Inv'
<1>1. /\ TypeOK /\ CursorsBehind /\ StreamNumbers /\ BatchesMatchAccount
      /\ SnapshotsMatchAccount /\ AcksAreCommitted /\ BytesConserved
  BY DEF Inv
<1>2. /\ pendingFinal # <<>> /\ RecordSample(Head(pendingFinal))
      /\ pendingFinal' \in {pendingFinal, Tail(pendingFinal)}
      /\ UNCHANGED <<clock, phase, runtime, startedAt, members, counter>>
      /\ UNCHANGED <<wire, panel, used, losses>>
  BY DEF RetryFinal, tracker
<1> DEFINE s == Head(pendingFinal)
<1>3. /\ s \in Samples /\ s.members \subseteq Users /\ s.runtime \in Nat
      /\ runtime \in Nat
  <2>1. s \in Samples
    BY <1>1, <1>2 DEF TypeOK, InstanceType
  <2> QED  BY <1>1, <2>1, UsageAssumption DEF Samples, TypeOK, InstanceType, Runtimes
<1>4. /\ s.runtime = runtime
      /\ \A u \in s.members : cursor[u].runtime = s.runtime
                                 => cursor[u].value <= s.value[u]
  BY <1>1, <1>2 DEF CursorsBehind
<1>5. phase = "none"
  BY <1>1, <1>2 DEF CursorsBehind
<1>6. pendingFinal' = <<>> \/ pendingFinal' = pendingFinal
  <2>1. pendingFinal \in Seq(Samples) /\ Len(pendingFinal) <= 1
    BY <1>1 DEF TypeOK, InstanceType, CursorsBehind
  <2>2. Len(pendingFinal) \in Nat \ {0}
    BY <1>2, <2>1, NonEmptySeq
  <2>3. Tail(pendingFinal) = <<>>
    BY <2>1, <2>2
  <2> QED  BY <1>2, <2>3
<1>7. \A u \in Users : Uncovered(s, u) = PendingTail(u)
  BY <1>2 DEF PendingTail
<1> HIDE DEF s
<1>8. /\ StreamType' /\ WireType' /\ PanelType' /\ LossType'
      /\ StreamNumbers' /\ BatchesMatchAccount' /\ SnapshotsMatchAccount'
      /\ AcksAreCommitted'
      /\ \A u \in Users :
           /\ account'[nextSeq'].bytes[u] =
                 account[nextSeq].bytes[u] + Uncovered(s, u)
           /\ u \in s.members => /\ cursor'[u].runtime = s.runtime
                                 /\ cursor'[u].value = s.value[u]
           /\ u \notin s.members => cursor'[u] = cursor[u]
  BY <1>2, <1>3, <1>4, RecordInv DEF s
<1>9. InstanceType'
  <2>1. pendingFinal' \in Seq(Samples)
    <3>1. pendingFinal \in Seq(Samples)
      BY <1>1 DEF TypeOK, InstanceType
    <3>2. <<>> \in Seq(Samples)
      OBVIOUS
    <3> QED  BY <1>6, <3>1, <3>2
  <2> QED  BY <1>1, <1>2, <2>1 DEF TypeOK, InstanceType
<1>10. CursorsBehind'
  <2>1. \A u \in Users : cursor'[u].runtime <= runtime
    BY <1>1, <1>3, <1>4, <1>8 DEF CursorsBehind
  <2>2. Len(pendingFinal') <= 1
    BY <1>1, <1>6 DEF CursorsBehind
  <2>3. pendingFinal' # <<>> =>
          /\ Head(pendingFinal').runtime = runtime
          /\ \A u \in Head(pendingFinal').members :
                 cursor'[u].value <= Head(pendingFinal').value[u]
    <3> SUFFICES ASSUME pendingFinal' = pendingFinal
                 PROVE  s.runtime = runtime
                        /\ \A u \in s.members : cursor'[u].value <= s.value[u]
      BY <1>6 DEF s
    <3>1. \A u \in s.members : s.value[u] \in Nat
      BY <1>3 DEF Samples
    <3> QED  BY <1>3, <1>4, <1>8, <3>1
  <2> QED  BY <1>2, <1>5, <2>1, <2>2, <2>3 DEF CursorsBehind
<1>11. BytesConserved'
  <2> SUFFICES ASSUME NEW w \in Users
               PROVE  (used[w] = account[nextSeq].bytes[w]
                         + LiveTail(w) + PendingTail(w) + lost[w])'
    BY DEF BytesConserved
  <2>1. PendingTail(w)' = 0 /\ LiveTail(w)' = 0 /\ LiveTail(w) = 0
    <3>1. LiveTail(w)' = 0 /\ LiveTail(w) = 0
      BY <1>2, <1>5 DEF LiveTail
    <3>2. CASE pendingFinal' = <<>>
      BY <3>1, <3>2 DEF PendingTail
    <3>3. CASE pendingFinal' = pendingFinal
      <4>1. w \in s.members => s.value[w] \in Nat
        BY <1>3 DEF Samples
      <4>2. PendingTail(w)' = IF w \notin s.members THEN 0
                              ELSE IF cursor'[w].runtime = s.runtime
                              THEN s.value[w] - cursor'[w].value
                              ELSE s.value[w]
        BY <1>2, <3>3 DEF PendingTail, Uncovered, s
      <4> QED  BY <1>8, <3>1, <4>1, <4>2
    <3> QED  BY <1>6, <3>2, <3>3
  <2>2. used'[w] = used[w] /\ lost'[w] = lost[w]
    BY <1>2 DEF losses
  <2>3. account[nextSeq].bytes[w] \in Nat /\ lost[w] \in Nat
    BY <1>1, CountsAreNat
  <2>4. account'[nextSeq'].bytes[w] = account[nextSeq].bytes[w] + PendingTail(w)
    BY <1>7, <1>8
  <2>5. PendingTail(w) \in Nat
    BY <1>1, TailsAreNat
  <2>6. used[w] = account[nextSeq].bytes[w]
                    + LiveTail(w) + PendingTail(w) + lost[w]
    BY <1>1 DEF BytesConserved
  <2> QED  BY <2>1, <2>2, <2>3, <2>4, <2>5, <2>6
<1> QED  BY <1>8, <1>9, <1>10, <1>11 DEF Inv, TypeOK

--------------------------------------------------------------------------------
(***************************************************************************)
(* The steps of the wire and of the panel                                  *)
(***************************************************************************)

\* A request carries a batch of the outbox.
LEMMA SendInv == ASSUME Inv, Send PROVE Inv'
<1>1. /\ TypeOK /\ CursorsBehind /\ StreamNumbers /\ BatchesMatchAccount
      /\ SnapshotsMatchAccount /\ AcksAreCommitted /\ BytesConserved
  BY DEF Inv
<1>2. CursorsBehind' /\ BytesConserved'
  BY <1>1, CountsFrame DEF Send, stream
<1>3. InstanceType' /\ LossType'
  BY <1>1 DEF Send, TypeOK, InstanceType, LossType, instance, tracker, losses
<1>4. NextBatch \in DOMAIN outbox
  <2>1. DOMAIN outbox = (committedSeq + 1)..(nextSeq - 1) /\ DOMAIN outbox # {}
    BY <1>1 DEF StreamNumbers, Send
  <2>2. committedSeq \in Nat /\ nextSeq \in Nat
    BY <1>1 DEF TypeOK, StreamType
  <2>3. /\ committedSeq + 1 \in DOMAIN outbox
        /\ \A m \in DOMAIN outbox : committedSeq + 1 <= m
    BY <2>1, <2>2
  <2> QED  BY <2>3 DEF NextBatch
<1> DEFINE n == NextBatch
           c == [seq |-> n, batch |-> outbox[n], live |-> TRUE]
<1>5. /\ calls' = calls \cup {c}
      /\ UNCHANGED <<cursor, nextSeq, committedSeq, outbox, recovery, answer,
                     streamSeq, lastBatch, ledger, backup, restores, account>>
  BY DEF Send, stream, panel
<1>6. n \in Nat /\ n \in 1..(nextSeq - 1) /\ outbox[n] \in Totals
  BY <1>1, <1>4 DEF TypeOK, StreamType, StreamNumbers
<1>7. AddBatch(account[n], outbox[n]) = account[n + 1]
  BY <1>1, <1>4 DEF BatchesMatchAccount
<1>8. c \in [seq: Nat, batch: Totals, live: BOOLEAN]
  BY <1>6
<1>9. c.seq = n /\ c.batch = outbox[n]
  OBVIOUS
<1> HIDE DEF n, c
<1>10. StreamType' /\ WireType' /\ PanelType'
  BY <1>1, <1>5, <1>8 DEF TypeOK, StreamType, WireType, PanelType
<1>11. BatchesMatchAccount'
  BY <1>1, <1>5, <1>6, <1>7, <1>9, Zenon DEF BatchesMatchAccount
<1>12. StreamNumbers' /\ SnapshotsMatchAccount' /\ AcksAreCommitted'
  BY <1>1, <1>5 DEF StreamNumbers, SnapshotsMatchAccount, AcksAreCommitted
<1> QED  BY <1>2, <1>3, <1>10, <1>11, <1>12 DEF Inv, TypeOK

\* A request that was given up still carries its batch.
LEMMA TimeoutInv == ASSUME Inv, Timeout PROVE Inv'
<1>1. /\ TypeOK /\ CursorsBehind /\ StreamNumbers /\ BatchesMatchAccount
      /\ SnapshotsMatchAccount /\ AcksAreCommitted /\ BytesConserved
  BY DEF Inv
<1>2. CursorsBehind' /\ BytesConserved'
  BY <1>1, CountsFrame DEF Timeout, stream
<1>3. InstanceType' /\ LossType'
  BY <1>1 DEF Timeout, TypeOK, InstanceType, LossType, instance, tracker, losses
<1>4. StreamType' /\ PanelType'
  BY <1>1 DEF Timeout, TypeOK, StreamType, PanelType, stream, panel
<1>5. WireType'
  BY <1>1, OrphanedCalls DEF Timeout, TypeOK, WireType, NoAnswer
<1>6. /\ StreamNumbers' /\ BatchesMatchAccount' /\ SnapshotsMatchAccount'
      /\ AcksAreCommitted'
  <2>1. \A c \in calls' : \E d \in calls : c.seq = d.seq /\ c.batch = d.batch
    BY <1>1, OrphanedCalls DEF TypeOK, Timeout
  <2> QED  BY <1>1, <2>1, StreamFrame DEF Timeout, TypeOK, stream, panel
<1> QED  BY <1>2, <1>3, <1>4, <1>5, <1>6 DEF Inv, TypeOK

\* A request less.
LEMMA LoseInv == ASSUME Inv, NEW c \in calls, Lose(c) PROVE Inv'
<1>1. /\ TypeOK /\ CursorsBehind /\ StreamNumbers /\ BatchesMatchAccount
      /\ SnapshotsMatchAccount /\ AcksAreCommitted /\ BytesConserved
  BY DEF Inv
<1>2. CursorsBehind' /\ BytesConserved'
  BY <1>1, CountsFrame DEF Lose, stream
<1>3. InstanceType' /\ LossType'
  BY <1>1 DEF Lose, TypeOK, InstanceType, LossType, instance, tracker, losses
<1>4. StreamType' /\ PanelType' /\ WireType'
  BY <1>1 DEF Lose, TypeOK, StreamType, PanelType, WireType, stream, panel
<1>5. /\ StreamNumbers' /\ BatchesMatchAccount' /\ SnapshotsMatchAccount'
      /\ AcksAreCommitted'
  <2>1. \A d \in calls' : d \in calls
    BY DEF Lose
  <2> QED  BY <1>1, <2>1, StreamFrame DEF Lose, TypeOK, stream, panel
<1> QED  BY <1>2, <1>3, <1>4, <1>5 DEF Inv, TypeOK

\* The ledger moves along the account by one batch, or stays.
LEMMA ReportUsageInv == ASSUME Inv, NEW c \in calls, ReportUsage(c) PROVE Inv'
<1>1. /\ TypeOK /\ CursorsBehind /\ StreamNumbers /\ BatchesMatchAccount
      /\ SnapshotsMatchAccount /\ AcksAreCommitted /\ BytesConserved
  BY DEF Inv
<1>2. CursorsBehind' /\ BytesConserved'
  BY <1>1, CountsFrame DEF ReportUsage, stream
<1>3. InstanceType' /\ LossType'
  BY <1>1 DEF ReportUsage, TypeOK, InstanceType, LossType, instance, tracker, losses
<1>4. /\ calls' = calls \ {c}
      /\ UNCHANGED <<cursor, nextSeq, committedSeq, outbox, recovery, backup,
                     restores, account>>
  BY DEF ReportUsage, stream
<1>5. /\ c \in [seq: Nat, batch: Totals, live: BOOLEAN]
      /\ c.seq \in 1..(nextSeq - 1)
      /\ AddBatch(account[c.seq], c.batch) = account[c.seq + 1]
  BY <1>1 DEF TypeOK, WireType, BatchesMatchAccount
<1>6. /\ streamSeq' \in Nat /\ lastBatch' \in Totals /\ ledger' \in Totals
      /\ streamSeq' < nextSeq /\ ledger' = account[streamSeq' + 1]
      /\ streamSeq <= streamSeq'
      /\ answer' = answer \/ answer' = [seq |-> c.seq, committed |-> streamSeq']
  <2>1. CASE Accepts(c)
    <3>1. /\ streamSeq' = c.seq /\ ledger' = AddBatch(ledger, c.batch)
          /\ lastBatch' = c.batch
          /\ answer' = answer \/ answer' = [seq |-> c.seq, committed |-> streamSeq']
      BY <2>1 DEF ReportUsage
    <3>2. c.seq = streamSeq + 1 /\ streamSeq \in Nat
      BY <1>1, <2>1 DEF Accepts, TypeOK, PanelType
    <3>3. ledger' = account[c.seq + 1]
      BY <1>1, <1>5, <3>1, <3>2 DEF SnapshotsMatchAccount
    <3>4. account[c.seq + 1] \in Totals
      BY <1>1, <1>5 DEF TypeOK, StreamType, StreamNumbers
    <3>5. nextSeq \in Nat
      BY <1>1 DEF TypeOK, StreamType
    <3> QED  BY <1>5, <3>1, <3>2, <3>3, <3>4, <3>5
  <2>2. CASE ~Accepts(c)
    <3>1. /\ streamSeq' = streamSeq /\ ledger' = ledger /\ lastBatch' = lastBatch
          /\ answer' = answer \/ answer' = [seq |-> c.seq, committed |-> streamSeq']
      BY <2>2 DEF ReportUsage
    <3> QED  BY <1>1, <3>1 DEF TypeOK, PanelType, StreamNumbers, SnapshotsMatchAccount
  <2> QED  BY <2>1, <2>2
<1>7. StreamType' /\ WireType' /\ PanelType'
  <2>1. answer' \in [seq: Nat, committed: Nat]
    BY <1>1, <1>5, <1>6 DEF TypeOK, WireType
  <2> QED  BY <1>1, <1>4, <1>6, <2>1 DEF TypeOK, StreamType, WireType, PanelType
<1>8. StreamNumbers' /\ SnapshotsMatchAccount'
  BY <1>1, <1>4, <1>6 DEF StreamNumbers, SnapshotsMatchAccount
<1>9. BatchesMatchAccount'
  BY <1>1, <1>4, Zenon DEF BatchesMatchAccount
<1>10. AcksAreCommitted'
  BY <1>1, <1>4, <1>6 DEF AcksAreCommitted, TypeOK, StreamType, PanelType, WireType
<1> QED  BY <1>2, <1>3, <1>7, <1>8, <1>9, <1>10 DEF Inv, TypeOK

\* The outbox loses the batches up to what the panel has.
LEMMA AcknowledgeInv == ASSUME Inv, Acknowledge PROVE Inv'
<1>1. /\ TypeOK /\ CursorsBehind /\ StreamNumbers /\ BatchesMatchAccount
      /\ SnapshotsMatchAccount /\ AcksAreCommitted /\ BytesConserved
  BY DEF Inv
<1>2. CursorsBehind' /\ BytesConserved'
  BY <1>1, CountsFrame DEF Acknowledge
<1>3. InstanceType' /\ LossType'
  BY <1>1 DEF Acknowledge, TypeOK, InstanceType, LossType, instance, tracker, losses
<1>4. /\ answer' = NoAnswer /\ recovery' \in BOOLEAN
      /\ UNCHANGED <<cursor, nextSeq, calls, streamSeq, lastBatch, ledger, backup,
                     restores, account>>
  BY <1>1 DEF Acknowledge, TypeOK, StreamType, panel
<1>5. /\ nextSeq \in Nat \ {0} /\ committedSeq \in Nat /\ answer.committed \in Nat
      /\ DOMAIN outbox = (committedSeq + 1)..(nextSeq - 1)
      /\ committedSeq < nextSeq
      /\ \A n \in DOMAIN outbox : outbox[n] \in Totals
  BY <1>1 DEF TypeOK, StreamType, WireType, StreamNumbers
<1>6. /\ committedSeq' \in Nat /\ committedSeq' < nextSeq
      /\ DOMAIN outbox' = (committedSeq' + 1)..(nextSeq - 1)
      /\ outbox' \in [DOMAIN outbox' -> Totals]
      /\ \A n \in DOMAIN outbox' : n \in DOMAIN outbox /\ outbox'[n] = outbox[n]
      /\ committedSeq' = committedSeq \/ committedSeq' = answer.committed
  <2>1. CASE UNCHANGED <<committedSeq, outbox>>
    BY <1>1, <1>5, <2>1 DEF TypeOK, StreamType
  <2>2. CASE /\ InRange(answer.committed)
             /\ committedSeq' = answer.committed
             /\ outbox' = [n \in Retained(answer.committed) |-> outbox[n]]
    BY <1>5, <2>2 DEF InRange, Retained
  <2> QED  BY <2>1, <2>2 DEF Acknowledge
<1>7. StreamType' /\ WireType' /\ PanelType'
  <2>1. DOMAIN outbox' \subseteq Nat
    BY <1>5, <1>6
  <2> QED  BY <1>1, <1>4, <1>6, <2>1
           DEF TypeOK, StreamType, WireType, PanelType, NoAnswer
<1>8. StreamNumbers' /\ SnapshotsMatchAccount'
  BY <1>1, <1>4, <1>6 DEF StreamNumbers, SnapshotsMatchAccount
<1>9. BatchesMatchAccount'
  BY <1>1, <1>4, <1>6 DEF BatchesMatchAccount
<1>10. AcksAreCommitted'
  BY <1>1, <1>4, <1>6 DEF AcksAreCommitted, NoAnswer, TypeOK, PanelType
<1> QED  BY <1>2, <1>3, <1>7, <1>8, <1>9, <1>10 DEF Inv, TypeOK

\* The snapshot is the ledger of now.
LEMMA BackupInv == ASSUME Inv, Backup PROVE Inv'
<1>1. /\ TypeOK /\ CursorsBehind /\ StreamNumbers /\ BatchesMatchAccount
      /\ SnapshotsMatchAccount /\ AcksAreCommitted /\ BytesConserved
  BY DEF Inv
<1>2. CursorsBehind' /\ BytesConserved'
  BY <1>1, CountsFrame DEF Backup, stream
<1>3. InstanceType' /\ LossType'
  BY <1>1 DEF Backup, TypeOK, InstanceType, LossType, instance, tracker, losses
<1>4. /\ backup' = [seq |-> streamSeq, last |-> lastBatch, ledger |-> ledger]
      /\ UNCHANGED <<cursor, nextSeq, committedSeq, outbox, recovery, calls, answer,
                     streamSeq, lastBatch, ledger, restores, account>>
  BY DEF Backup, stream, wire
<1>5. StreamType' /\ WireType' /\ PanelType'
  BY <1>1, <1>4 DEF TypeOK, StreamType, WireType, PanelType
<1>6. StreamNumbers' /\ SnapshotsMatchAccount' /\ AcksAreCommitted'
  BY <1>1, <1>4 DEF StreamNumbers, SnapshotsMatchAccount, AcksAreCommitted
<1>7. BatchesMatchAccount'
  BY <1>1, <1>4, Zenon DEF BatchesMatchAccount
<1> QED  BY <1>2, <1>3, <1>5, <1>6, <1>7 DEF Inv, TypeOK

\* The ledger goes back to an older total of the account.
LEMMA RestoreInv == ASSUME Inv, Restore PROVE Inv'
<1>1. /\ TypeOK /\ CursorsBehind /\ StreamNumbers /\ BatchesMatchAccount
      /\ SnapshotsMatchAccount /\ AcksAreCommitted /\ BytesConserved
  BY DEF Inv
<1>2. CursorsBehind' /\ BytesConserved'
  BY <1>1, CountsFrame DEF Restore, stream
<1>3. InstanceType' /\ LossType'
  BY <1>1 DEF Restore, TypeOK, InstanceType, LossType, instance, tracker, losses
<1>4. /\ restores < MaxRestore /\ restores' = restores + 1
      /\ streamSeq' = backup.seq /\ lastBatch' = backup.last
      /\ ledger' = backup.ledger /\ calls' = {}
      /\ UNCHANGED <<cursor, nextSeq, committedSeq, outbox, recovery, answer,
                     backup, account>>
  BY DEF Restore, stream
<1>5. StreamType' /\ WireType'
  BY <1>1, <1>4 DEF TypeOK, StreamType, WireType
<1>6. PanelType'
  BY <1>1, <1>4, UsageAssumption DEF TypeOK, PanelType
<1>7. restores' # 0
  BY <1>1, <1>4, UsageAssumption DEF TypeOK, PanelType
<1>8. StreamNumbers' /\ SnapshotsMatchAccount' /\ AcksAreCommitted'
  BY <1>1, <1>4, <1>7 DEF StreamNumbers, SnapshotsMatchAccount, AcksAreCommitted
<1>9. BatchesMatchAccount'
  BY <1>1, <1>4, Zenon DEF BatchesMatchAccount
<1> QED  BY <1>2, <1>3, <1>5, <1>6, <1>8, <1>9 DEF Inv, TypeOK

\* Nothing changes.
LEMMA StutterInv == ASSUME Inv, UNCHANGED vars PROVE Inv'
<1>1. /\ TypeOK /\ CursorsBehind /\ StreamNumbers /\ BatchesMatchAccount
      /\ SnapshotsMatchAccount /\ AcksAreCommitted /\ BytesConserved
  BY DEF Inv
<1>2. UNCHANGED <<clock, instance, stream, wire, panel, account, used, losses>>
  BY DEF vars
<1>3. CursorsBehind' /\ BytesConserved'
  BY <1>1, <1>2, CountsFrame DEF stream
<1>4. TypeOK'
  BY <1>1, <1>2 DEF TypeOK, InstanceType, StreamType, WireType, PanelType, LossType,
                    instance, tracker, stream, wire, panel, losses
<1>5. /\ StreamNumbers' /\ BatchesMatchAccount' /\ SnapshotsMatchAccount'
      /\ AcksAreCommitted'
  BY <1>1, <1>2, StreamFrame DEF TypeOK, stream, wire, panel
<1> QED  BY <1>3, <1>4, <1>5 DEF Inv

--------------------------------------------------------------------------------
\* Every step keeps the invariant.
LEMMA StepInv == Inv /\ [Next]_vars => Inv'
<1> SUFFICES ASSUME Inv, [Next]_vars PROVE Inv'
  OBVIOUS
<1>1. CASE Tick
  BY <1>1, TickInv
<1>2. CASE \E u \in Users : Traffic(u)
  BY <1>2, TrafficInv
<1>3. CASE \E us \in SUBSET Users : StartInstance(us) \/ StartFails(us)
  BY <1>3, StartInstanceInv, StartFailsInv
<1>4. CASE Collect \/ RetryFinal \/ Detach
  BY <1>4, CollectInv, RetryFinalInv, DetachInv
<1>5. CASE CloseRecorded \/ CloseDeferred \/ DrainTimesOut \/ Crash
  BY <1>5, CloseRecordedInv, CloseDeferredInv, DrainTimesOutInv, CrashInv
<1>6. CASE Send \/ Timeout \/ Acknowledge
  BY <1>6, SendInv, TimeoutInv, AcknowledgeInv
<1>7. CASE \E c \in calls : Lose(c) \/ ReportUsage(c)
  BY <1>7, LoseInv, ReportUsageInv
<1>8. CASE Backup \/ Restore
  BY <1>8, BackupInv, RestoreInv
<1>9. CASE UNCHANGED vars
  BY <1>9, StutterInv
<1> QED
  BY <1>1, <1>2, <1>3, <1>4, <1>5, <1>6, <1>7, <1>8, <1>9, Zenon DEF Next

\* The invariant holds throughout.
LEMMA SpecInv == Spec => []Inv
BY InitInv, StepInv, PTL DEF Spec

\* The types of every variable hold in every reachable state: no recorded delta,
\* total or loss is negative (usage.go RecordSample, ErrCounterRegression).
THEOREM TypeCorrect == Spec => []TypeOK
<1>1. Inv => TypeOK
  BY DEF Inv
<1> QED  BY <1>1, SpecInv, PTL

\* The panel's ledger is the batches up to its high-water mark, each once,
\* under any loss, delay, repetition and restore (store.ts reportUsage).
THEOREM LedgerIsExactlyOnce == Spec => []ExactlyOnce
<1>1. Inv => ExactlyOnce
  BY DEF Inv, ExactlyOnce, StreamNumbers, SnapshotsMatchAccount
<1> QED  BY <1>1, SpecInv, PTL

\* No byte a tracker counted is dropped or counted twice between the tracker and
\* the numbered batches, over restarts and deferred final samples (usage.go
\* RecordSample, adapter.go closeInstance and retryFinal).
THEOREM BytesAreConserved == Spec => []BytesConserved
<1>1. Inv => BytesConserved
  BY DEF Inv
<1> QED  BY <1>1, SpecInv, PTL

\* Exactly the unacknowledged batches are retained, and without a panel restore
\* nothing is deleted before the panel has committed it (AcknowledgeUsage).
THEOREM RetainedUntilCommittedHolds == Spec => []RetainedUntilCommitted
<1>1. Inv => RetainedUntilCommitted
  BY DEF Inv, RetainedUntilCommitted, StreamNumbers, AcksAreCommitted
<1> QED  BY <1>1, SpecInv, PTL

\* A pending final sample is never overtaken by the baseline of a newer runtime
\* (adapter.go start calls retryFinal first).
THEOREM FinalComesBeforeBaseline == Spec => []FinalBeforeBaseline
<1>1. ASSUME Inv PROVE FinalBeforeBaseline
  <2>1. CursorsBehind /\ TypeOK
    BY <1>1 DEF Inv
  <2>2. pendingFinal \in Seq(Samples) /\ Len(pendingFinal) <= 1
    BY <2>1 DEF CursorsBehind, TypeOK, InstanceType
  <2>3. ASSUME NEW i \in DOMAIN pendingFinal, NEW u \in pendingFinal[i].members
        PROVE  cursor[u].runtime <= pendingFinal[i].runtime
    <3>1. i = 1 /\ pendingFinal # <<>>
      BY <2>2
    <3>2. pendingFinal[i] = Head(pendingFinal) /\ pendingFinal[i] \in Samples
      BY <2>2, <3>1
    <3>3. u \in Users
      BY <3>2 DEF Samples
    <3> QED  BY <2>1, <3>1, <3>2, <3>3 DEF CursorsBehind
  <2> QED  BY <2>2, <2>3 DEF FinalBeforeBaseline
<1> QED  BY <1>1, SpecInv, PTL

--------------------------------------------------------------------------------
(***************************************************************************)
(* The hole of a restored panel                                            *)
(***************************************************************************)
\* Behind the hole, no request carries a batch that would close it: a restore
\* ends the requests there are, and what is sent after it is still retained.  A
\* further restore goes further back.
HoleIsClosed ==
    /\ streamSeq < committedSeq => \A c \in calls : c.seq > committedSeq
    /\ answer.committed > streamSeq => calls = {}
    /\ backup.seq <= streamSeq

\* The numbers that are compared
LEMMA Numbers ==
    ASSUME TypeOK
    PROVE  /\ streamSeq \in Nat /\ committedSeq \in Nat /\ nextSeq \in Nat
           /\ answer.seq \in Nat /\ answer.committed \in Nat /\ backup.seq \in Nat
           /\ \A c \in calls : c.seq \in Nat
BY DEF TypeOK, StreamType, PanelType, WireType

\* A step of the node keeps the numbers and the requests.
LEMMA HoleFrame ==
    ASSUME HoleIsClosed, UNCHANGED <<streamSeq, committedSeq, calls, answer, backup>>
    PROVE  HoleIsClosed'
BY DEF HoleIsClosed

LEMMA SendHole == ASSUME Inv, HoleIsClosed, Send PROVE HoleIsClosed'
<1>1. Inv' /\ TypeOK
  BY SendInv DEF Inv
<1>2. /\ UNCHANGED <<streamSeq, committedSeq, answer, backup>> /\ answer = NoAnswer
      /\ DOMAIN outbox # {}
      /\ calls' = calls \cup {[seq |-> NextBatch, batch |-> outbox[NextBatch],
                               live |-> TRUE]}
  BY DEF Send, stream, panel
<1>3. committedSeq \in Nat /\ nextSeq \in Nat /\ streamSeq \in Nat
  BY <1>1, Numbers
<1>4. DOMAIN outbox = (committedSeq + 1)..(nextSeq - 1)
  BY DEF Inv, StreamNumbers
<1>5. NextBatch \in DOMAIN outbox
  <2>1. committedSeq + 1 \in DOMAIN outbox
        /\ \A m \in DOMAIN outbox : committedSeq + 1 <= m
    BY <1>2, <1>3, <1>4
  <2> QED  BY <2>1 DEF NextBatch
<1>6. NextBatch > committedSeq
  BY <1>3, <1>4, <1>5
<1>7. answer.committed = 0
  BY <1>2 DEF NoAnswer
<1> QED  BY <1>2, <1>3, <1>6, <1>7 DEF HoleIsClosed

LEMMA WireHole ==
    ASSUME Inv, HoleIsClosed,
           Timeout \/ Crash \/ (\E c \in calls : Lose(c))
    PROVE  HoleIsClosed'
<1>1. /\ UNCHANGED <<streamSeq, committedSeq, backup>>
      /\ answer' = answer \/ answer' = NoAnswer
      /\ calls = {} => calls' = {}
      /\ \A c \in calls' : \E d \in calls : c.seq = d.seq
  <2>1. CASE Timeout \/ Crash
    <3>1. \A c \in calls : [c EXCEPT !.live = FALSE].seq = c.seq
      BY DEF Inv, TypeOK, WireType
    <3> QED  BY <2>1, <3>1 DEF Timeout, Crash, stream, panel
  <2>2. CASE \E c \in calls : Lose(c)
    BY <2>2 DEF Lose, stream, panel
  <2> QED  BY <2>1, <2>2
<1>2. streamSeq \in Nat /\ committedSeq \in Nat
  BY Numbers DEF Inv
<1>3. NoAnswer.committed = 0
  BY DEF NoAnswer
<1> QED  BY <1>1, <1>2, <1>3 DEF HoleIsClosed

LEMMA ReportUsageHole ==
    ASSUME Inv, HoleIsClosed, NEW c \in calls, ReportUsage(c)
    PROVE  /\ HoleIsClosed'
           /\ streamSeq < committedSeq => streamSeq' <= streamSeq
<1>1. /\ streamSeq' = IF c.seq = streamSeq + 1 THEN c.seq ELSE streamSeq
      /\ calls' \subseteq calls /\ committedSeq' = committedSeq /\ backup' = backup
      /\ answer' = answer \/ answer'.committed = streamSeq'
  BY DEF ReportUsage, Accepts, stream
<1>2. /\ streamSeq \in Nat /\ committedSeq \in Nat /\ answer.committed \in Nat
      /\ c.seq \in Nat /\ backup.seq \in Nat
  BY Numbers DEF Inv
<1>3. streamSeq <= streamSeq' /\ streamSeq' \in Nat
  BY <1>1, <1>2
<1>4. answer.committed <= streamSeq
  BY <1>2 DEF HoleIsClosed
<1>5. streamSeq < committedSeq => streamSeq' = streamSeq
  BY <1>1, <1>2 DEF HoleIsClosed
<1>6. \A d \in calls' : streamSeq' < committedSeq' => d.seq > committedSeq'
  BY <1>1, <1>2, <1>3, <1>5 DEF HoleIsClosed
<1>7. ~(answer'.committed > streamSeq') /\ backup'.seq <= streamSeq'
  BY <1>1, <1>2, <1>3, <1>4 DEF HoleIsClosed
<1> QED  BY <1>2, <1>5, <1>6, <1>7 DEF HoleIsClosed

LEMMA AcknowledgeHole == ASSUME Inv, HoleIsClosed, Acknowledge PROVE HoleIsClosed'
<1>1. /\ UNCHANGED <<streamSeq, calls, backup>> /\ answer' = NoAnswer
      /\ \/ committedSeq' = committedSeq
         \/ committedSeq' = answer.committed /\ answer.committed >= committedSeq
  BY DEF Acknowledge, InRange, panel
<1>2. streamSeq \in Nat /\ committedSeq \in Nat /\ answer.committed \in Nat
  BY Numbers DEF Inv
<1>3. answer'.committed = 0
  BY <1>1 DEF NoAnswer
<1> QED  BY <1>1, <1>2, <1>3 DEF HoleIsClosed

LEMMA BackupHole == ASSUME Inv, HoleIsClosed, Backup PROVE HoleIsClosed'
BY Numbers DEF Backup, HoleIsClosed, Inv, stream, wire

LEMMA RestoreHole == ASSUME Inv, Restore PROVE HoleIsClosed'
BY Numbers DEF Restore, HoleIsClosed, Inv

LEMMA StepHole ==
    ASSUME Inv, HoleIsClosed, [Next]_vars
    PROVE  HoleIsClosed' /\ (streamSeq < committedSeq => streamSeq' <= streamSeq)
<1>1. streamSeq \in Nat /\ committedSeq \in Nat /\ backup.seq \in Nat
  BY Numbers DEF Inv
<1>2. CASE UNCHANGED <<streamSeq, committedSeq, calls, answer, backup>>
  BY <1>1, <1>2, HoleFrame
<1>3. CASE Send
  BY <1>1, <1>3, SendHole DEF Send, panel
<1>4. CASE Timeout \/ Crash \/ \E c \in calls : Lose(c)
  BY <1>1, <1>4, WireHole DEF Timeout, Crash, Lose, panel
<1>5. CASE \E c \in calls : ReportUsage(c)
  BY <1>5, ReportUsageHole
<1>6. CASE Acknowledge
  <2>1. UNCHANGED panel
    BY <1>6 DEF Acknowledge
  <2>2. streamSeq' = streamSeq
    BY <2>1 DEF panel
  <2> QED  BY <1>1, <1>6, <2>2, AcknowledgeHole
<1>7. CASE Restore
  <2>1. streamSeq' = backup.seq
    BY <1>7 DEF Restore
  <2> QED  BY <1>1, <1>7, <2>1, RestoreHole DEF HoleIsClosed
<1>8. CASE \/ Tick \/ (\E u \in Users : Traffic(u))
           \/ (\E us \in SUBSET Users : StartInstance(us) \/ StartFails(us))
           \/ Collect \/ RetryFinal \/ Detach
           \/ CloseRecorded \/ CloseDeferred \/ DrainTimesOut
           \/ UNCHANGED vars
  <2>1. UNCHANGED <<streamSeq, committedSeq, calls, answer, backup>>
    BY <1>8, Zenon
    DEF Tick, Traffic, StartInstance, StartFails, Collect, RetryFinal, Detach, CloseRecorded,
        CloseDeferred, DrainTimesOut, RecordSample, vars, stream, wire, panel
  <2> QED  BY <1>2, <2>1
<1>9. CASE Backup
  BY <1>1, <1>9, BackupHole DEF Backup
<1> QED  BY <1>3, <1>4, <1>5, <1>6, <1>7, <1>8, <1>9, Zenon DEF Next

\* A panel that was restored behind what the daemon has deleted stays behind the
\* hole until it is recovered: it never moves over it (store.ts reportUsage).
THEOREM HoleStaysUnskipped == Spec => HoleIsNeverSkipped
<1>1. Init => HoleIsClosed
  BY DEF Init, HoleIsClosed, NoAnswer
<1>2. Inv /\ HoleIsClosed /\ [Next]_vars => HoleIsClosed'
  BY StepHole
<1>3. Inv /\ HoleIsClosed /\ [Next]_vars
          => [streamSeq < committedSeq => streamSeq' <= streamSeq]_vars
  BY StepHole
<1> QED  BY <1>1, <1>2, <1>3, SpecInv, PTL DEF Spec, HoleIsNeverSkipped

--------------------------------------------------------------------------------
(***************************************************************************)
(* The losses                                                              *)
(***************************************************************************)
\* The cursor of the user stands in this runtime and waits for its final sample.
Dirty(u, r) == cursor[u].runtime = r /\ ~cursor[u].closed

\* What could still be lost is of a runtime whose cursors are dirty.
TailsAreDirty ==
    /\ phase \in {"active", "draining"} => \A u \in members : Dirty(u, runtime)
    /\ phase = "unstarted" => \A u \in Users : counter[u] = 0
    /\ \A u \in Users : PendingTail(u) > 0 => Dirty(u, Head(pendingFinal).runtime)

\* A loss is of an earlier runtime than every sample that is still to come, and
\* its cursor was read before that runtime was started.
LossIsPast ==
    /\ \A u \in Users : cursor[u].at <= clock
    /\ pendingFinal # <<>> => Head(pendingFinal).at <= clock
    /\ phase # "none" => startedAt <= clock
    /\ \A g \in lostIn :
          /\ g[2] <= runtime
          /\ phase # "none" \/ pendingFinal # <<>> => g[2] < runtime
          /\ Dirty(g[1], g[2]) =>
                /\ cursor[g[1]].at < clock
                /\ phase # "none" => cursor[g[1]].at < startedAt
                /\ pendingFinal # <<>> => cursor[g[1]].at < Head(pendingFinal).startedAt

LossInv == TailsAreDirty /\ LossIsPast /\ LossIsMarked

\* The gaps of the account after a recorded sample: those before it, and one for
\* every dirty tail the sample has found.
LEMMA RecordSampleGaps ==
    ASSUME TypeOK, StreamNumbers, NEW s \in Samples, RecordSample(s)
    PROVE  /\ account[nextSeq].gaps \subseteq account'[nextSeq'].gaps
           /\ \A u \in s.members :
                DirtyTail(s, u) => <<u, cursor[u].runtime>> \in account'[nextSeq'].gaps
<1>1. PICK k \in 0..Cardinality(Changed(s)) : \E p \in Chunks(s, k) :
         /\ nextSeq' = nextSeq + k
         /\ account' = [n \in 1..(nextSeq + k) |->
                         IF n <= nextSeq THEN account[n]
                         ELSE TotalAfter(s, p, n - nextSeq)]
  BY Zenon DEF RecordSample
<1>2. PICK p \in Chunks(s, k) :
         /\ nextSeq' = nextSeq + k
         /\ account' = [n \in 1..(nextSeq + k) |->
                         IF n <= nextSeq THEN account[n]
                         ELSE TotalAfter(s, p, n - nextSeq)]
  BY <1>1, Zenon
<1>3. k \in Nat /\ p \in [Changed(s) -> 1..k] /\ nextSeq \in Nat \ {0}
  BY <1>2 DEF Chunks, TypeOK, StreamType
<1>4. Changed(s) \subseteq s.members /\ \A u \in Changed(s) : p[u] <= k /\ p[u] >= 1
  BY <1>3 DEF Changed
<1>5. CASE k = 0
  <2>1. Changed(s) = {}
    BY <1>4, <1>5, <1>3
  <2>2. account'[nextSeq'] = account[nextSeq]
    BY <1>2, <1>3, <1>5
  <2> QED  BY <2>1, <2>2 DEF Changed
<1>6. CASE k # 0
  <2>1. account'[nextSeq'] = TotalAfter(s, p, k)
    <3>1. nextSeq + k \in 1..(nextSeq + k) /\ ~(nextSeq + k <= nextSeq)
          /\ (nextSeq + k) - nextSeq = k
      BY <1>3, <1>6
    <3> QED  BY <1>2, <3>1
  <2>2. TotalAfter(s, p, k).gaps =
          account[nextSeq].gaps \cup
            {<<u, cursor[u].runtime>> :
               u \in {w \in Changed(s) : p[w] <= k /\ DirtyTail(s, w)}}
    BY DEF TotalAfter
  <2>3. \A u \in s.members : DirtyTail(s, u) => u \in Changed(s)
    BY DEF Changed
  <2>4. \A u \in s.members : DirtyTail(s, u) =>
          u \in {w \in Changed(s) : p[w] <= k /\ DirtyTail(s, w)}
    BY <1>4, <2>3
  <2> QED  BY <2>1, <2>2, <2>4
<1> QED  BY <1>5, <1>6

\* A sample of a later runtime marks the dirty tails it finds, and a cursor that
\* is still dirty after it is one it has not touched.
LEMMA RecordMarks ==
    ASSUME Inv, LossIsMarked, NEW s \in Samples, RecordSample(s), UNCHANGED lostIn,
           \A g \in lostIn :
              /\ g[2] # s.runtime
              /\ Dirty(g[1], g[2]) => cursor[g[1]].at < s.startedAt
    PROVE  /\ LossIsMarked'
           /\ \A g \in lostIn : Dirty(g[1], g[2])' =>
                 Dirty(g[1], g[2]) /\ cursor'[g[1]] = cursor[g[1]]
<1>1. TypeOK /\ StreamNumbers
  BY DEF Inv
<1>2. /\ account[nextSeq].gaps \subseteq account'[nextSeq'].gaps
      /\ \A u \in s.members :
           DirtyTail(s, u) => <<u, cursor[u].runtime>> \in account'[nextSeq'].gaps
  BY <1>1, RecordSampleGaps
<1>3. ASSUME NEW g \in lostIn
      PROVE  /\ Dirty(g[1], g[2])' \/ g \in account'[nextSeq'].gaps
             /\ Dirty(g[1], g[2])' => Dirty(g[1], g[2]) /\ cursor'[g[1]] = cursor[g[1]]
  <2>1. PICK u \in Users, r \in Runtimes : g = <<u, r>>
    BY <1>1 DEF TypeOK, LossType, Gaps
  <2>2. g[1] = u /\ g[2] = r
    BY <2>1
  <2>3. cursor'[u] = CursorAfter(s, u)
    BY DEF RecordSample
  <2>4. r # s.runtime /\ (Dirty(u, r) => cursor[u].at < s.startedAt)
    BY <2>2
  <2>5. cursor[u] \in Cursors /\ s.startedAt \in Clocks
    BY <1>1 DEF TypeOK, StreamType, Samples
  <2>6. Dirty(u, r)' => Dirty(u, r) /\ cursor'[u] = cursor[u]
    BY <2>3, <2>4 DEF Dirty, CursorAfter, Late
  <2>7. Dirty(u, r) => Dirty(u, r)' \/ g \in account'[nextSeq'].gaps
    <3> SUFFICES ASSUME Dirty(u, r) PROVE Dirty(u, r)' \/ g \in account'[nextSeq'].gaps
      OBVIOUS
    <3>1. CASE u \notin s.members
      BY <2>3, <3>1 DEF Dirty, CursorAfter
    <3>2. CASE u \in s.members
      <4>1. s.startedAt > cursor[u].at
        BY <2>4, <2>5 DEF Cursors, Clocks
      <4>2. DirtyTail(s, u)
        BY <2>4, <4>1 DEF DirtyTail, Dirty
      <4> QED  BY <1>2, <2>1, <3>2, <4>2 DEF Dirty
    <3> QED  BY <3>1, <3>2
  <2>8. g \in account[nextSeq].gaps \/ Dirty(u, r)
    BY <2>2 DEF LossIsMarked, Dirty
  <2> QED  BY <1>2, <2>2, <2>6, <2>7, <2>8 DEF Dirty
<1> QED  BY <1>3 DEF LossIsMarked, Dirty

\* Numbers and members that the steps compare
LEMMA LossNumbers ==
    ASSUME TypeOK
    PROVE  /\ clock \in Int /\ startedAt \in Int /\ runtime \in Int
           /\ \A u \in Users : /\ cursor[u] \in Cursors /\ counter[u] \in Int
                               /\ cursor[u].at \in Int /\ cursor[u].runtime \in Int
                               /\ cursor[u].value \in Nat
           /\ members \subseteq Users
           /\ \A g \in lostIn : g[1] \in Users /\ g[2] \in Int
<1>1. \A u \in Users : cursor[u] \in Cursors
  BY DEF TypeOK, StreamType
<1>2. \A g \in lostIn : g[1] \in Users /\ g[2] \in Int
  BY DEF TypeOK, LossType, Gaps, Runtimes
<1> QED  BY <1>1, <1>2 DEF TypeOK, InstanceType, Clocks, Runtimes, Cursors

\* A final sample is waiting in one place at most.
LEMMA PendingHead ==
    ASSUME Inv
    PROVE  /\ phase # "none" => pendingFinal = <<>>
           /\ pendingFinal # <<>> => /\ Head(pendingFinal) \in Samples
                                     /\ Head(pendingFinal).runtime = runtime
                                     /\ Tail(pendingFinal) = <<>>
<1>1. pendingFinal \in Seq(Samples) /\ Len(pendingFinal) <= 1
  BY DEF Inv, TypeOK, InstanceType, CursorsBehind
<1>2. CASE pendingFinal # <<>>
  <2>1. Len(pendingFinal) = 1
    <3>1. Len(pendingFinal) \in Nat \ {0}
      BY <1>1, <1>2, NonEmptySeq, Zenon
    <3>2. PICK n : n = Len(pendingFinal)
      OBVIOUS
    <3>3. n \in Nat \ {0} /\ n <= 1
      BY <1>1, <3>1, <3>2, Zenon
    <3>4. n = 1
      BY <3>3
    <3> QED  BY <3>2, <3>4
  <2>2. Head(pendingFinal) \in Samples /\ Tail(pendingFinal) \in Seq(Samples)
        /\ Len(Tail(pendingFinal)) = 0
    BY <1>1, <1>2, <2>1
  <2>3. Tail(pendingFinal) = <<>>
    <3>1. PICK rest : rest = Tail(pendingFinal)
      OBVIOUS
    <3>2. rest \in Seq(Samples) /\ Len(rest) = 0
      BY <2>2, <3>1
    <3>3. rest = <<>>
      BY <3>2, NonEmptySeq, 0 \notin Nat \ {0}
    <3> QED  BY <3>1, <3>3
  <2> QED  BY <1>2, <2>2, <2>3 DEF Inv, CursorsBehind
<1> QED  BY <1>2 DEF Inv, CursorsBehind

\* Steps that leave the instance, the cursors and the account alone.
LEMMA LossFrame ==
    ASSUME LossInv, UNCHANGED <<clock, instance, cursor, nextSeq, account, losses>>
    PROVE  LossInv'
BY DEF LossInv, TailsAreDirty, LossIsPast, LossIsMarked, Dirty, PendingTail, Uncovered,
       instance, tracker, losses

\* What a recorded sample leaves of the cursors, besides what RecordMarks says.
LEMMA RecordCursors ==
    ASSUME Inv, LossInv, NEW s \in Samples, RecordSample(s), s.at <= clock
    PROVE  /\ \A u \in Users : cursor'[u].at <= clock
           /\ ~s.final => \A u \in s.members :
                ~Late(s, u) => cursor'[u].runtime = s.runtime /\ ~cursor'[u].closed
<1>1. \A u \in Users : cursor'[u] = CursorAfter(s, u)
  BY DEF RecordSample
<1>2. \A u \in Users : cursor[u].at <= clock
  BY DEF LossInv, LossIsPast
<1>3. s.members \subseteq Users
  BY DEF Samples
<1>4. \A u \in Users : cursor'[u].at <= clock
  <2>1. \A u \in Users : CursorAfter(s, u) = cursor[u] \/ CursorAfter(s, u).at = s.at
    BY DEF CursorAfter
  <2> QED  BY <1>1, <1>2, <2>1
<1>5. ASSUME ~s.final, NEW u \in s.members, ~Late(s, u)
      PROVE  cursor'[u].runtime = s.runtime /\ ~cursor'[u].closed
  <2>1. cursor'[u] = [runtime |-> s.runtime, value |-> s.value[u], at |-> s.at,
                      closed |-> s.final]
    BY <1>1, <1>3, <1>5 DEF CursorAfter
  <2> QED  BY <1>5, <2>1
<1> QED  BY <1>4, <1>5

LEMMA TickLoss == ASSUME Inv, LossInv, Tick PROVE LossInv'
<1>1. /\ clock \in Int /\ startedAt \in Int
      /\ \A u \in Users : cursor[u].at \in Int
      /\ \A g \in lostIn : g[1] \in Users
  BY LossNumbers DEF Inv
<1>2. /\ clock' = clock + 1
      /\ UNCHANGED <<phase, runtime, startedAt, members, counter, pendingFinal, cursor,
                     nextSeq, account, lostIn>>
  BY DEF Tick, instance, tracker, stream, losses
<1>3. pendingFinal # <<>> => Head(pendingFinal).at \in Int
  <2>1. pendingFinal # <<>> => Head(pendingFinal) \in Samples
    BY PendingHead
  <2> QED  BY <2>1 DEF Samples, Clocks
<1>4. LossIsPast'
  BY <1>1, <1>2, <1>3 DEF LossInv, LossIsPast, Dirty
<1>5. TailsAreDirty' /\ LossIsMarked'
  BY <1>2 DEF LossInv, TailsAreDirty, LossIsMarked, Dirty, PendingTail, Uncovered
<1> QED  BY <1>4, <1>5 DEF LossInv

LEMMA TrafficLoss == ASSUME Inv, LossInv, NEW u \in Users, Traffic(u) PROVE LossInv'
<1>1. /\ phase \in {"active", "draining"} /\ pendingFinal = <<>>
      /\ UNCHANGED <<clock, phase, runtime, startedAt, members, pendingFinal, cursor,
                     nextSeq, account, lostIn>>
  BY PendingHead DEF Traffic, stream, losses
<1>2. LossIsPast' /\ LossIsMarked'
  BY <1>1 DEF LossInv, LossIsPast, LossIsMarked, Dirty
<1>3. TailsAreDirty'
  BY <1>1 DEF LossInv, TailsAreDirty, Dirty, PendingTail
<1> QED  BY <1>2, <1>3 DEF LossInv

\* The baseline of a new runtime finds every tail that was lost before it.
LEMMA StartInstanceLoss ==
    ASSUME Inv, LossInv, NEW us \in SUBSET Users, StartInstance(us) PROVE LossInv'
<1>1. PICK s : s = [runtime |-> runtime + 1, startedAt |-> clock, at |-> clock,
                    final |-> FALSE, members |-> us, value |-> NoBytes]
  OBVIOUS
<1>2. /\ phase = "none" /\ pendingFinal = <<>> /\ runtime < MaxRuntime
      /\ phase' = "active" /\ pendingFinal' = pendingFinal
      /\ runtime' = runtime + 1 /\ startedAt' = clock /\ members' = us
      /\ clock' = clock /\ lostIn' = lostIn /\ RecordSample(s)
  BY <1>1 DEF StartInstance, MayStart, losses
<1>3. /\ clock \in Int /\ runtime \in Int
      /\ \A u \in Users : cursor[u].at \in Int /\ cursor[u].runtime \in Int
                          /\ cursor[u].runtime <= runtime
      /\ \A g \in lostIn : g[1] \in Users /\ g[2] \in Int
  BY LossNumbers DEF Inv, CursorsBehind
<1>4. s \in Samples
  BY <1>1, <1>2, <1>3, UsageAssumption
     DEF Inv, TypeOK, InstanceType, Samples, Runtimes, NoBytes
<1>5. s.runtime = runtime + 1 /\ s.startedAt = clock /\ s.at = clock /\ ~s.final
      /\ s.members = us
  BY <1>1
<1>6. \A g \in lostIn : g[2] # s.runtime /\ (Dirty(g[1], g[2]) => cursor[g[1]].at < s.startedAt)
  BY <1>3, <1>5 DEF LossInv, LossIsPast
<1>7. /\ LossIsMarked'
      /\ \A g \in lostIn : Dirty(g[1], g[2])' =>
            Dirty(g[1], g[2]) /\ cursor'[g[1]] = cursor[g[1]]
  BY <1>2, <1>4, <1>6, RecordMarks DEF LossInv
<1>8. /\ \A u \in Users : cursor'[u].at <= clock
      /\ \A u \in us : ~Late(s, u) => cursor'[u].runtime = s.runtime /\ ~cursor'[u].closed
  BY <1>2, <1>3, <1>4, <1>5, RecordCursors
<1>9. TailsAreDirty'
  <2>1. \A u \in us : ~Late(s, u)
    BY <1>3, <1>5 DEF Late
  <2>2. \A u \in us : Dirty(u, runtime)'
    BY <1>2, <1>5, <1>8, <2>1 DEF Dirty
  <2> QED  BY <1>2, <2>2 DEF TailsAreDirty, PendingTail, Dirty
<1>10. LossIsPast'
  <2>1. \A g \in lostIn : /\ g[2] < runtime'
                          /\ Dirty(g[1], g[2])' => cursor'[g[1]].at < clock
    BY <1>2, <1>3, <1>7 DEF LossInv, LossIsPast
  <2> QED  BY <1>2, <1>3, <1>8, <2>1 DEF LossIsPast, Dirty
<1> QED  BY <1>7, <1>9, <1>10 DEF LossInv

LEMMA StartFailsLoss ==
    ASSUME Inv, LossInv, NEW us \in SUBSET Users, StartFails(us) PROVE LossInv'
<1>1. /\ phase = "none" /\ pendingFinal = <<>>
      /\ phase' = "unstarted" /\ counter' = NoBytes
      /\ runtime' = runtime + 1 /\ startedAt' = clock
      /\ UNCHANGED <<clock, pendingFinal, cursor, nextSeq, account, lostIn>>
  BY DEF StartFails, MayStart, stream, losses
<1>2. /\ clock \in Int /\ runtime \in Int
      /\ \A g \in lostIn : g[1] \in Users /\ g[2] \in Int
  BY LossNumbers DEF Inv
<1>3. LossIsPast'
  BY <1>1, <1>2 DEF LossInv, LossIsPast, Dirty
<1>4. TailsAreDirty' /\ LossIsMarked'
  BY <1>1 DEF LossInv, TailsAreDirty, LossIsMarked, Dirty, PendingTail, NoBytes
<1> QED  BY <1>3, <1>4 DEF LossInv

LEMMA CollectLoss == ASSUME Inv, LossInv, Collect PROVE LossInv'
<1>1. PICK s : s = Sample(FALSE)
  OBVIOUS
<1>2. /\ phase = "active" /\ pendingFinal = <<>> /\ RecordSample(s)
      /\ UNCHANGED <<clock, phase, runtime, startedAt, members, counter, pendingFinal, lostIn>>
  BY <1>1 DEF Collect, instance, tracker, losses
<1>3. s \in Samples
  BY <1>1, SampleType DEF Inv
<1>4. /\ s.runtime = runtime /\ s.startedAt = startedAt /\ s.at = clock /\ ~s.final
      /\ s.members = members
  BY <1>1 DEF Sample
<1>5. /\ clock \in Int /\ runtime \in Int
      /\ \A g \in lostIn : g[1] \in Users /\ g[2] \in Int
  BY LossNumbers DEF Inv
<1>6. \A g \in lostIn : /\ g[2] < runtime
                        /\ Dirty(g[1], g[2]) => /\ cursor[g[1]].at < clock
                                                /\ cursor[g[1]].at < startedAt
  BY <1>2 DEF LossInv, LossIsPast
<1>7. /\ LossIsMarked'
      /\ \A g \in lostIn : Dirty(g[1], g[2])' =>
            Dirty(g[1], g[2]) /\ cursor'[g[1]] = cursor[g[1]]
  <2>1. \A g \in lostIn :
          g[2] # s.runtime /\ (Dirty(g[1], g[2]) => cursor[g[1]].at < s.startedAt)
    BY <1>4, <1>5, <1>6
  <2> QED  BY <1>2, <1>3, <2>1, RecordMarks DEF LossInv
<1>8. /\ \A u \in Users : cursor'[u].at <= clock
      /\ \A u \in members : ~Late(s, u) => cursor'[u].runtime = runtime /\ ~cursor'[u].closed
  BY <1>2, <1>3, <1>4, <1>5, RecordCursors
<1>9. TailsAreDirty'
  <2>1. \A u \in members : ~Late(s, u)
    BY <1>2 DEF LossInv, TailsAreDirty, Dirty, Late
  <2> QED  BY <1>2, <1>8, <2>1 DEF TailsAreDirty, PendingTail, Dirty
<1>10. LossIsPast'
  <2>1. startedAt <= clock
    BY <1>2 DEF LossInv, LossIsPast
  <2> QED  BY <1>2, <1>5, <1>6, <1>7, <1>8, <2>1 DEF LossIsPast, Dirty
<1> QED  BY <1>7, <1>9, <1>10 DEF LossInv

LEMMA CloseRecordedLoss == ASSUME Inv, LossInv, CloseRecorded PROVE LossInv'
<1>1. PICK s : s = Sample(TRUE)
  OBVIOUS
<1>2. /\ phase # "none" /\ pendingFinal = <<>> /\ RecordSample(s) /\ phase' = "none"
      /\ UNCHANGED <<clock, runtime, startedAt, members, counter, pendingFinal, lostIn>>
  BY <1>1, PendingHead DEF CloseRecorded, tracker, losses
<1>3. s \in Samples
  BY <1>1, SampleType DEF Inv
<1>4. s.runtime = runtime /\ s.startedAt = startedAt /\ s.at = clock
  BY <1>1 DEF Sample
<1>5. /\ clock \in Int /\ runtime \in Int
      /\ \A g \in lostIn : g[1] \in Users /\ g[2] \in Int
  BY LossNumbers DEF Inv
<1>6. \A g \in lostIn : /\ g[2] < runtime
                        /\ Dirty(g[1], g[2]) => /\ cursor[g[1]].at < clock
                                                /\ cursor[g[1]].at < startedAt
  BY <1>2 DEF LossInv, LossIsPast
<1>7. /\ LossIsMarked'
      /\ \A g \in lostIn : Dirty(g[1], g[2])' =>
            Dirty(g[1], g[2]) /\ cursor'[g[1]] = cursor[g[1]]
  <2>1. \A g \in lostIn :
          g[2] # s.runtime /\ (Dirty(g[1], g[2]) => cursor[g[1]].at < s.startedAt)
    BY <1>4, <1>5, <1>6
  <2> QED  BY <1>2, <1>3, <2>1, RecordMarks DEF LossInv
<1>8. \A u \in Users : cursor'[u].at <= clock
  BY <1>2, <1>3, <1>4, <1>5, RecordCursors
<1>9. TailsAreDirty'
  BY <1>2 DEF TailsAreDirty, PendingTail
<1>10. LossIsPast'
  BY <1>2, <1>5, <1>6, <1>7, <1>8 DEF LossIsPast, Dirty
<1> QED  BY <1>7, <1>9, <1>10 DEF LossInv

\* Once recorded, a final sample that is kept for a moment has nothing to lose.
LEMMA RetryFinalLoss == ASSUME Inv, LossInv, RetryFinal PROVE LossInv'
<1>1. PICK s : s = Head(pendingFinal)
  OBVIOUS
<1>2. /\ pendingFinal # <<>> /\ phase = "none" /\ RecordSample(s) /\ s \in Samples
      /\ s.runtime = runtime
      /\ pendingFinal' = pendingFinal \/ pendingFinal' = <<>>
      /\ UNCHANGED <<clock, phase, runtime, startedAt, lostIn>>
  <2>1. /\ pendingFinal # <<>> /\ RecordSample(s)
        /\ pendingFinal' = pendingFinal \/ pendingFinal' = Tail(pendingFinal)
        /\ UNCHANGED <<clock, phase, runtime, startedAt, lostIn>>
    BY <1>1 DEF RetryFinal, tracker, losses
  <2> QED  BY <1>1, <2>1, PendingHead
<1>3. s.at <= clock
  BY <1>1, <1>2 DEF LossInv, LossIsPast
<1>4. /\ clock \in Int /\ runtime \in Int
      /\ \A g \in lostIn : g[1] \in Users /\ g[2] \in Int
  BY LossNumbers DEF Inv
<1>5. \A g \in lostIn : /\ g[2] < runtime
                        /\ Dirty(g[1], g[2]) => /\ cursor[g[1]].at < clock
                                                /\ cursor[g[1]].at < s.startedAt
  BY <1>1, <1>2 DEF LossInv, LossIsPast
<1>6. /\ LossIsMarked'
      /\ \A g \in lostIn : Dirty(g[1], g[2])' =>
            Dirty(g[1], g[2]) /\ cursor'[g[1]] = cursor[g[1]]
  <2>1. \A g \in lostIn :
          g[2] # s.runtime /\ (Dirty(g[1], g[2]) => cursor[g[1]].at < s.startedAt)
    BY <1>2, <1>4, <1>5
  <2> QED  BY <1>2, <2>1, RecordMarks DEF LossInv
<1>7. \A u \in Users : cursor'[u].at <= clock
  BY <1>2, <1>3, RecordCursors
<1>8. \A u \in Users : PendingTail(u)' = 0
  <2>1. CASE pendingFinal' = <<>>
    BY <2>1 DEF PendingTail
  <2>2. CASE pendingFinal' = pendingFinal
    <3>1. \A u \in s.members : cursor[u].runtime = s.runtime => cursor[u].value <= s.value[u]
      BY <1>1, <1>2 DEF Inv, CursorsBehind
    <3>2. \A u \in Users : u \in s.members => /\ cursor'[u].runtime = s.runtime
                                              /\ cursor'[u].value = s.value[u]
      BY <1>2, <3>1, RecordSampleCovers DEF Inv
    <3>3. \A u \in Users : s.value[u] \in Nat
      BY <1>2 DEF Samples
    <3> QED  BY <1>1, <1>2, <2>2, <3>2, <3>3 DEF PendingTail, Uncovered
  <2> QED  BY <1>2, <2>1, <2>2
<1>9. TailsAreDirty'
  BY <1>2, <1>8 DEF TailsAreDirty
<1>10. LossIsPast'
  <2>1. pendingFinal' # <<>> => Head(pendingFinal)' = s
    BY <1>1, <1>2
  <2> QED  BY <1>2, <1>3, <1>4, <1>5, <1>6, <1>7, <2>1 DEF LossIsPast, Dirty
<1> QED  BY <1>6, <1>9, <1>10 DEF LossInv

\* A final sample that waits in memory waits on a dirty cursor.
LEMMA CloseDeferredLoss == ASSUME Inv, LossInv, CloseDeferred PROVE LossInv'
<1>1. PICK s : s = Sample(TRUE)
  OBVIOUS
<1>2. /\ phase \in {"draining", "unstarted"} /\ pendingFinal = <<>> /\ phase' = "none"
      /\ pendingFinal' = <<>> \/ pendingFinal' = <<s>>
      /\ UNCHANGED <<clock, runtime, startedAt, members, counter, cursor, nextSeq, account,
                     lostIn>>
  <2>1. /\ pendingFinal = <<>> /\ phase \in {"draining", "unstarted"} /\ phase' = "none"
        /\ pendingFinal' = KeepFinal
    BY PendingHead DEF CloseDeferred
  <2>2. UNCHANGED <<clock, tracker, stream, account, losses>>
    BY DEF CloseDeferred
  <2>3. pendingFinal' = <<>> \/ pendingFinal' = <<s>>
    <3>1. pendingFinal' = <<>> \/ pendingFinal' = Append(<<>>, s)
      BY <1>1, <2>1 DEF KeepFinal
    <3> QED  BY <3>1
  <2> QED  BY <2>1, <2>2, <2>3 DEF tracker, stream, losses
<1>3. pendingFinal' # <<>> => Head(pendingFinal') = s
  BY <1>2
<1>4. /\ s.runtime = runtime /\ s.startedAt = startedAt /\ s.at = clock
      /\ s.members = members /\ s.value = counter
  BY <1>1 DEF Sample
<1>5. \A u \in Users : /\ cursor[u].value \in Nat /\ counter[u] \in Int
  BY LossNumbers DEF Inv
<1>6. clock \in Int
  BY LossNumbers DEF Inv
<1>7. TailsAreDirty'
  <2>1. ASSUME NEW u \in Users, PendingTail(u)' > 0
        PROVE  pendingFinal' # <<>> /\ Dirty(u, runtime)
    <3>1. pendingFinal' # <<>> /\ u \in members
      BY <1>3, <1>4, <2>1 DEF PendingTail, Uncovered
    <3>2. counter[u] # 0
      BY <1>2, <1>3, <1>4, <1>5, <2>1, <3>1 DEF PendingTail, Uncovered
    <3> QED  BY <1>2, <3>1, <3>2 DEF LossInv, TailsAreDirty
  <2>2. ASSUME NEW u \in Users, PendingTail(u)' > 0
        PROVE  Dirty(u, Head(pendingFinal).runtime)'
    BY <1>2, <1>3, <1>4, <2>1, <2>2 DEF Dirty
  <2> QED  BY <1>2, <2>2 DEF TailsAreDirty, Dirty
<1>8. LossIsPast'
  <2>1. \A g \in lostIn : /\ g[2] <= runtime /\ g[2] < runtime
                          /\ Dirty(g[1], g[2]) => /\ cursor[g[1]].at < clock
                                                  /\ cursor[g[1]].at < startedAt
    BY <1>2 DEF LossInv, LossIsPast
  <2>2. \A u \in Users : cursor[u].at <= clock
    BY DEF LossInv, LossIsPast
  <2> QED  BY <1>2, <1>3, <1>4, <1>6, <2>1, <2>2 DEF LossIsPast, Dirty
<1>9. LossIsMarked'
  BY <1>2 DEF LossInv, LossIsMarked
<1> QED  BY <1>7, <1>8, <1>9 DEF LossInv

\* What the tracker still holds is of a dirty cursor.
LEMMA LiveTailIsDirty ==
    ASSUME Inv, LossInv, NEW u \in Users, LiveTail(u) > 0
    PROVE  phase # "none" /\ Dirty(u, runtime)
<1>1. phase # "none" /\ u \in members
  BY DEF LiveTail, Uncovered, Sample
<1>2. cursor[u].value \in Nat /\ counter[u] \in Int
  BY LossNumbers DEF Inv
<1>3. counter[u] # 0
  BY <1>1, <1>2 DEF LiveTail, Uncovered, Sample
<1>4. phase \in {"active", "draining", "unstarted"}
  BY <1>1 DEF Inv, TypeOK, InstanceType, Phases
<1> QED  BY <1>1, <1>3, <1>4 DEF LossInv, TailsAreDirty

\* A loss is of the runtime that has just ended, on a cursor it left dirty; the
\* clock moves on before another runtime is started.
LEMMA LossStands ==
    ASSUME Inv, LossInv, phase' = "none", pendingFinal' = <<>>, clock' = clock + 1,
           UNCHANGED <<runtime, cursor, nextSeq, account>>,
           \A g \in lostIn' :
              \/ g \in lostIn
              \/ g[1] \in Users /\ g[2] = runtime /\ Dirty(g[1], g[2])
    PROVE  LossInv'
<1>1. /\ clock \in Int /\ runtime \in Int
      /\ \A u \in Users : cursor[u].at \in Int
      /\ \A g \in lostIn : g[1] \in Users /\ g[2] \in Int
  BY LossNumbers DEF Inv
<1>2. /\ \A u \in Users : cursor[u].at <= clock
      /\ \A g \in lostIn : g[2] <= runtime
  BY DEF LossInv, LossIsPast
<1>3. LossIsPast'
  <2>1. \A g \in lostIn' : g[1] \in Users /\ g[2] <= runtime
    BY <1>1, <1>2
  <2> QED  BY <1>1, <1>2, <2>1 DEF LossIsPast
<1>4. TailsAreDirty'
  BY DEF TailsAreDirty, PendingTail
<1>5. LossIsMarked'
  BY DEF LossInv, LossIsMarked, Dirty
<1> QED  BY <1>3, <1>4, <1>5 DEF LossInv

LEMMA DrainTimesOutLoss == ASSUME Inv, LossInv, DrainTimesOut PROVE LossInv'
<1>1. /\ pendingFinal = <<>> /\ pendingFinal' = pendingFinal
      /\ phase' = "none" /\ clock' = clock + 1
      /\ UNCHANGED <<runtime, cursor, nextSeq, account>>
      /\ lostIn' = lostIn \cup {<<u, runtime>> : u \in {w \in Users : LiveTail(w) > 0}}
  BY PendingHead DEF DrainTimesOut, tracker, stream
<1>2. \A g \in lostIn' : \/ g \in lostIn
                         \/ g[1] \in Users /\ g[2] = runtime /\ Dirty(g[1], g[2])
  BY <1>1, LiveTailIsDirty
<1> QED  BY <1>1, <1>2, LossStands

LEMMA CrashLoss == ASSUME Inv, LossInv, Crash PROVE LossInv'
<1>1. /\ pendingFinal' = <<>> /\ phase' = "none" /\ clock' = clock + 1
      /\ UNCHANGED <<runtime, cursor, nextSeq, account>>
      /\ lostIn' = lostIn
           \cup {<<u, runtime>> : u \in {w \in Users : LiveTail(w) > 0}}
           \cup {<<u, Head(pendingFinal).runtime>> :
                    u \in {w \in Users : PendingTail(w) > 0}}
  BY DEF Crash, tracker, stream
<1>2. \A u \in Users : PendingTail(u) > 0 =>
          Head(pendingFinal).runtime = runtime /\ Dirty(u, runtime)
  <2>1. \A u \in Users : PendingTail(u) > 0 => pendingFinal # <<>>
    BY DEF PendingTail
  <2> QED  BY <2>1, PendingHead DEF LossInv, TailsAreDirty
<1>3. \A g \in lostIn' : \/ g \in lostIn
                         \/ g[1] \in Users /\ g[2] = runtime /\ Dirty(g[1], g[2])
  BY <1>1, <1>2, LiveTailIsDirty
<1> QED  BY <1>1, <1>3, LossStands

LEMMA DetachLoss == ASSUME Inv, LossInv, Detach PROVE LossInv'
<1>1. /\ phase = "active" /\ phase' = "draining"
      /\ UNCHANGED <<clock, runtime, startedAt, members, counter, pendingFinal, cursor, nextSeq,
                     account, lostIn>>
  BY DEF Detach, tracker, stream, losses
<1>2. LossIsPast'
  BY <1>1 DEF LossInv, LossIsPast, Dirty
<1>3. TailsAreDirty' /\ LossIsMarked'
  BY <1>1 DEF LossInv, TailsAreDirty, LossIsMarked, Dirty, PendingTail, Uncovered
<1> QED  BY <1>2, <1>3 DEF LossInv

LEMMA StepLoss == ASSUME Inv, LossInv, [Next]_vars PROVE LossInv'
<1>1. CASE Tick
  BY <1>1, TickLoss
<1>2. CASE \E u \in Users : Traffic(u)
  BY <1>2, TrafficLoss
<1>3. CASE \E us \in SUBSET Users : StartInstance(us) \/ StartFails(us)
  BY <1>3, StartInstanceLoss, StartFailsLoss
<1>4. CASE Collect \/ RetryFinal \/ Detach
  BY <1>4, CollectLoss, RetryFinalLoss, DetachLoss
<1>5. CASE CloseRecorded \/ CloseDeferred \/ DrainTimesOut \/ Crash
  BY <1>5, CloseRecordedLoss, CloseDeferredLoss, DrainTimesOutLoss, CrashLoss
<1>6. CASE \/ Send \/ Timeout \/ Acknowledge
           \/ (\E c \in calls : Lose(c) \/ ReportUsage(c))
           \/ Backup \/ Restore \/ UNCHANGED vars
  <2>1. UNCHANGED <<clock, instance, cursor, nextSeq, account, losses>>
    BY <1>6, Zenon
    DEF Send, Timeout, Acknowledge, Lose, ReportUsage, Backup, Restore, vars, stream
  <2> QED  BY <2>1, LossFrame
<1> QED  BY <1>1, <1>2, <1>3, <1>4, <1>5, <1>6, Zenon DEF Next

\* Bytes that vanished with their runtime are never unnoticed: that runtime is
\* still the dirty one of the user's cursor, or its gap is in a batch, however
\* many runtimes were started, failed to start or were lost since (usage.go
\* RecordSample, the branch of a different runtime).
THEOREM LossesAreMarked == Spec => []LossIsMarked
<1>1. Init => LossInv
  <2> SUFFICES ASSUME Init PROVE LossInv
    OBVIOUS
  <2>1. LossIsPast
    BY DEF Init, LossIsPast, NoCursor
  <2>2. TailsAreDirty /\ LossIsMarked
    BY DEF Init, TailsAreDirty, LossIsMarked, PendingTail
  <2> QED  BY <2>1, <2>2 DEF LossInv
<1>2. Inv /\ LossInv /\ [Next]_vars => LossInv'
  BY StepLoss
<1>3. LossInv => LossIsMarked
  BY DEF LossInv
<1> QED  BY <1>1, <1>2, <1>3, SpecInv, PTL DEF Spec
================================================================================
