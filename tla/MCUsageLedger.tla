---------------------------- MODULE MCUsageLedger ---------------------------
(***************************************************************************)
(* The ledger's state machine together with the buckets its bytes are kept *)
(* in, which are examined over short histories of reports and cleanings on *)
(* a calendar of a few days.                                               *)
(***************************************************************************)
EXTENDS UsageLedger, UsageBuckets

MCDayStarts == {-12, -6, 0, 6, 12, 18, 24}
MCMonthStarts == {-12, 0, 12, 18, 24}

(* Plain deltas, and one without bytes may be a gap.  A delta the daemon   *)
(* only estimates promises less than a plain one.                          *)
Deltas(bytes) ==
    {[start |-> s, end |-> s + n, bytes |-> bytes, estimated |-> gap, incomplete |-> gap] :
        s \in {1, 3, 10}, n \in {1, 6}, gap \in {FALSE, bytes = 0}}

(* Of other sizes than the first, so that a set holds them both.           *)
SecondDeltas == {[start |-> s, end |-> s + n, bytes |-> 4, estimated |-> FALSE, incomplete |-> FALSE] :
                    s \in {3, 10}, n \in {6}}

(* Two deltas reported one after the other, a cleaning, then the question. *)
Times == {t \in {9, 16} \X {12, 16} \X {12, 18} : t[1] <= t[2] /\ t[2] <= t[3]}

Ranges == {r \in {0, 6, 12} \X {4, 6, 12, 18} : r[1] < r[2]}

Overlapping(ds, from, to) == {d \in ds : d.start < to /\ d.end > from}
Inside(ds, from, to) == {d \in ds : from <= d.start /\ d.end <= to}
Bytes(ds) == MapThenSumSet(LAMBDA d : d.bytes, ds)

(* What a sum over [from, to) owes to the accepted deltas ds: there is no  *)
(* gap in it, it is no more than touches the range and no less than lies   *)
(* in it, and exactly that when it is not marked as estimated.             *)
Exact(sum, ds, from, to) ==
    /\ \A d \in Overlapping(ds, from, to) : ~d.incomplete
    /\ Bytes(Inside(ds, from, to)) <= sum.bytes
    /\ sum.bytes <= Bytes(Overlapping(ds, from, to))
    /\ ~sum.estimated => sum.bytes = Bytes(Overlapping(ds, from, to))

(* A user's bytes are answered exactly when every query over a table that  *)
(* holds them, whatever their interval, agrees with the reports behind it  *)
(* and with the answers of other grains over the same range, and compares  *)
(* with an earlier period only when that is as exact.                      *)
AnsweredExactly(bytes) ==
    \A d \in Deltas(bytes), e \in SecondDeltas, t \in Times :
        LET ds == {x \in {d} : IntervalAccepted(x, t[1])} \cup {x \in {e} : IntervalAccepted(x, t[2])}
            table == CleanMinutes(AddDelta(AddDelta(<<>>, d, t[1]), e, t[2]), t[3])
            answers == {Query(table, g, r[1], r[2], t[3]) : g \in Grains, r \in Ranges}
        IN  /\ \A a \in answers :
                /\ ~a.current.incomplete => Exact(a.current, ds, a.start, a.end)
                /\ a.compared => Exact(a.previous, ds, a.previousStart, a.start)
            /\ \A a, b \in answers :
                (/\ a.start = b.start /\ a.end = b.end
                 /\ ~a.current.incomplete /\ ~b.current.incomplete)
                    => a.current.bytes = b.current.bytes

(* Evaluated once for each number of bytes a user can reach.               *)
Answered == {b \in 0..(MaxBytes * MaxRuntime) : AnsweredExactly(b)}

(* Whatever the ledger has accounted to a user, in any order of samples,   *)
(* crashes, losses and restores, the panel's complete answers show as it   *)
(* was reported: no rounding, roll-up, refused or cleaned bucket makes a   *)
(* byte appear or vanish (UsageStore.reportUsage, query, cleanMinutes).    *)
QueriesAreExact == \A u \in Users : ledger.bytes[u] \in Answered
=============================================================================
