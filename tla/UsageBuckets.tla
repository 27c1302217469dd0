---------------------------- MODULE UsageBuckets ----------------------------
(***************************************************************************)
(* How the panel divides reported usage over minute, day and month buckets *)
(* and answers queries from them (server/usage/time.ts, store.ts).         *)
(*                                                                         *)
(* Time is counted in ticks.  A table maps <<grain, start>> to a bucket:   *)
(* one user on one machine, since every key of the code's table carries    *)
(* both and no step mixes two.  Upload and download are divided alike, so  *)
(* one number stands for the two.  The bounds of accepted ranges (7, 366,  *)
(* 3660 days) and the health overlay of the current window, which can only *)
(* mark an answer incomplete, are left out.                                *)
(***************************************************************************)
EXTENDS Integers, Functions, FiniteSetsExt

CONSTANTS
    Minute, Day,   \* their length in ticks
    DayStarts,     \* the days of the calendar, in ticks
    MonthStarts,   \* those that begin a month: months differ in length
    Retention,     \* how long minute buckets are kept: 30 days
    Slack,         \* how far ahead of the panel's clock an interval may end
    CleanLimit     \* the most minute buckets one cleaning removes: 1000

ASSUME CalendarAssumption ==
    /\ Minute \in Nat \ {0} /\ Day \in Nat \ {0} /\ Day % Minute = 0
    /\ \A d \in DayStarts : d % Day = 0
    /\ MonthStarts \subseteq DayStarts

Grains == {"minute", "day", "month"}

Starts(grain) ==
    CASE grain = "month"  -> MonthStarts
      [] grain = "day"    -> DayStarts
      [] grain = "minute" -> {d + Minute * i : d \in DayStarts, i \in 0..(Day \div Minute - 1)}

BucketStart(t, grain) == Max({b \in Starts(grain) : b <= t})

NextBucket(start, grain) == Min({b \in Starts(grain) : b > start})

(* The bytes of an interval, by the start of the bucket each part falls    *)
(* in: the proportional part rounded down, and what is left over one byte  *)
(* each to the earliest buckets.                                           *)
SplitBytes(d, grain) ==
    LET touched == {b \in Starts(grain) : b < d.end /\ b >= BucketStart(d.start, grain)}
        overlap(b) == Min({d.end, NextBucket(b, grain)}) - Max({d.start, b})
        part(b) == (d.bytes * overlap(b)) \div (d.end - d.start)
        remainder == d.bytes - MapThenSumSet(part, touched)
    IN  [b \in touched |->
            part(b) + IF Cardinality({c \in touched : c < b}) < remainder THEN 1 ELSE 0]

RollupMinutes(minutes, grain) ==
    [b \in {BucketStart(m, grain) : m \in DOMAIN minutes} |->
        MapThenSumSet(LAMBDA m : minutes[m],
                      {m \in DOMAIN minutes : BucketStart(m, grain) = b})]

(* Fault: every grain rounds the parts of its own division.                *)
DividedPerGrain(d, grain) == SplitBytes(d, grain)

(* Days and months add up the division into minutes.                       *)
Divided(d, grain) == RollupMinutes(SplitBytes(d, "minute"), grain)

IntervalAccepted(d, now) ==
    /\ 0 <= d.start /\ d.start < d.end
    /\ d.end <= now + Slack
    /\ d.end - d.start <= Day

Expired(now) == {b \in Starts("minute") : b < now - Retention}

EmptyBucket == [bytes |-> 0, estimated |-> FALSE, incomplete |-> FALSE]

(* What one delta adds to the table; a refused one adds nothing, and no    *)
(* minute past the retention is written.                                   *)
AddDelta(table, d, now) ==
    LET divided == [g \in Grains |-> Divided(d, g)]
        written == {k \in UNION {{g} \X DOMAIN divided[g] : g \in Grains} :
                        k[1] = "minute" => k[2] \notin Expired(now)}
        old(k) == IF k \in DOMAIN table THEN table[k] ELSE EmptyBucket
        added(k) == [bytes      |-> old(k).bytes + divided[k[1]][k[2]],
                     estimated  |-> \/ old(k).estimated \/ d.estimated
                                    \/ Cardinality(DOMAIN divided[k[1]]) > 1,
                     incomplete |-> old(k).incomplete \/ d.incomplete]
    IN  IF IntervalAccepted(d, now)
        THEN [k \in DOMAIN table \cup written |->
                IF k \in written THEN added(k) ELSE table[k]]
        ELSE table

(* Cleaning removes the oldest expired minutes, up to its limit.           *)
CleanMinutes(table, now) ==
    LET expired == {k \in DOMAIN table : k[1] = "minute" /\ k[2] \in Expired(now)}
        older(k) == {j \in expired : j[2] < k[2]}
    IN  Restrict(table, DOMAIN table \ {k \in expired : Cardinality(older(k)) < CleanLimit})

(* The buckets of a grain that begin in [from, to).                        *)
Selected(table, grain, from, to) ==
    {k \in DOMAIN table : k[1] = grain /\ from <= k[2] /\ k[2] < to}

SumPeriod(table, grain, from, to, now) ==
    LET rows == Selected(table, grain, from, to)
    IN  [bytes      |-> MapThenSumSet(LAMBDA k : table[k].bytes, rows),
         estimated  |-> \E k \in rows : table[k].estimated,
         incomplete |-> \/ rows = {} \/ \E k \in rows : table[k].incomplete
                        \/ grain = "minute" /\ from < now - Retention]

(* A query widens its range to whole buckets; the period before it is a    *)
(* month's predecessor when the range is one month, else as long a range,  *)
(* and is compared only when both are complete and the range is over.      *)
Query(table, grain, from, to, now) ==
    LET start == BucketStart(from, grain)
        end == IF BucketStart(to, grain) = to THEN to ELSE NextBucket(to, grain)
        naturalMonth == start \in MonthStarts /\ end = NextBucket(start, "month")
        previousStart == IF naturalMonth THEN BucketStart(start - 1, "month")
                                         ELSE start - (end - start)
        previousGrain == IF naturalMonth THEN "month"
                         ELSE IF grain = "month" THEN "day" ELSE grain
        current == SumPeriod(table, grain, start, end, now)
        previous == SumPeriod(table, previousGrain, previousStart, start, now)
    IN  [start |-> start, end |-> end, current |-> current,
         previousStart |-> previousStart, previous |-> previous,
         compared |-> /\ end <= now /\ ~current.incomplete /\ ~previous.incomplete
                      /\ previous.bytes > 0]
=============================================================================
