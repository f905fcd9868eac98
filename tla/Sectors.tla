------------------------------- MODULE Sectors -------------------------------
(***************************************************************************)
(* The micro sectors of the own car: MicroSectorTracker of                 *)
(* src/micro_sector.rs.  The track has as many buckets as anchors; the     *)
(* time between two anchors is written to the bucket that is entered, and  *)
(* the end of a lap compares the lap with the best time of each bucket and *)
(* reports the stretches that were gained and lost.                        *)
(*                                                                         *)
(* Times are in milliseconds; the two thresholds are those of the code.    *)
(***************************************************************************)
EXTENDS Integers, FiniteSets, Sequences

CONSTANTS
    Anchors,             \* number of buckets
    SegmentTimes,        \* the times a segment may take
    MinBucket,           \* MIN_BUCKET_DELTA_S
    MinStreak            \* MIN_STREAK_DELTA_S

ASSUME SectorsAssumption ==
    /\ Anchors \in Nat \ {0} /\ SegmentTimes \subseteq Nat
    /\ MinBucket \in Nat \ {0} /\ MinStreak \in Nat

VARIABLES
    best,                \* best_seg
    current,             \* current_lap_times
    lastBucket,          \* last_anchor_bucket
    cleanBefore,         \* clean_laps_completed is above zero
    saidSectors,         \* MICRO_SECTOR_GAIN and _LOSS of the lap that just ended
    compared             \* for the properties: the lap and the best it was held against

sectorVars == <<best, current, lastBucket, cleanBefore, saidSectors, compared>>

Track == 0..(Anchors - 1)
NoTime == -1
NoBucket == -1
Unmeasured == [b \in Track |-> NoTime]
NotCompared == [lap |-> Unmeasured, best |-> Unmeasured]

InitSectors ==
    /\ best = Unmeasured
    /\ current = Unmeasured
    /\ lastBucket = NoBucket
    /\ cleanBefore = FALSE
    /\ saidSectors = <<>>
    /\ compared = NotCompared
-----------------------------------------------------------------------------
\* on_anchor_crossing: the first anchor of a lap starts the clock.
Cross(b, time) ==
    /\ current' = IF lastBucket # NoBucket /\ b # lastBucket
                  THEN [current EXCEPT ![b] = time]
                  ELSE current
    /\ lastBucket' = b
    /\ saidSectors' = <<>>
    /\ compared' = NotCompared
    /\ UNCHANGED <<best, cleanBefore>>

(* One pass over the buckets.  A streak is open or not; a bucket without a comparison, *)
(* with equal times or with too small a difference closes it, and so does a bucket of  *)
(* the other kind; a streak that is closed is reported if it adds up.                  *)
Measured(b) == current[b] # NoTime /\ best[b] # NoTime
Delta(b) == IF Measured(b) THEN current[b] - best[b] ELSE 0
KindOfBucket(b) ==
    CASE Delta(b) <= -MinBucket -> "gain"
      [] Delta(b) >= MinBucket -> "loss"
      [] OTHER -> "none"
Amount(b) == IF Delta(b) < 0 THEN -Delta(b) ELSE Delta(b)

Closed == [kind |-> "none", from |-> NoBucket, to |-> NoBucket, sum |-> 0]
Opened(b) == [kind |-> KindOfBucket(b), from |-> b, to |-> b, sum |-> Amount(b)]
StreakLonger(streak, b) == [streak EXCEPT !.to = b, !.sum = @ + Amount(b)]
ReportedAnyway(streak, told) == IF streak.kind = "none" THEN told ELSE Append(told, streak)
Reported(streak, told) ==
    IF streak.kind # "none" /\ streak.sum >= MinStreak THEN Append(told, streak) ELSE told

Pass(b, done) ==
    IF KindOfBucket(b) # "none" /\ done.streak.kind = KindOfBucket(b)
    THEN [done EXCEPT !.streak = StreakLonger(@, b)]
    ELSE [streak |-> IF KindOfBucket(b) = "none" THEN Closed ELSE Opened(b),
          told |-> Reported(done.streak, done.told)]
Passes[n \in 0..Anchors] ==
    IF n = 0 THEN [streak |-> Closed, told |-> <<>>] ELSE Pass(n - 1, Passes[n - 1])
Compared == Reported(Passes[Anchors].streak, Passes[Anchors].told)

\* on_lap_end: only a clean lap is compared, and only a clean lap can be a best.
Betters(b, clean) == clean /\ current[b] # NoTime /\ (best[b] = NoTime \/ current[b] < best[b])
EndLap(clean) ==
    /\ saidSectors' = IF clean /\ cleanBefore THEN Compared ELSE <<>>
    /\ compared' = IF clean /\ cleanBefore THEN [lap |-> current, best |-> best] ELSE NotCompared
    /\ best' = [b \in Track |-> IF Betters(b, clean) THEN current[b] ELSE best[b]]
    /\ cleanBefore' = (cleanBefore \/ clean)
    /\ current' = Unmeasured
    /\ lastBucket' = NoBucket

SectorStep ==
    \/ \E b \in Track, time \in SegmentTimes : Cross(b, time)
    \/ \E clean \in BOOLEAN : EndLap(clean)

SectorsSpec == InitSectors /\ [][SectorStep]_sectorVars
-----------------------------------------------------------------------------
\* The reference: the longest runs of buckets that all gained, or all lost, enough.
GainsIn(c, b) == c.lap[b] # NoTime /\ c.best[b] # NoTime /\ c.best[b] - c.lap[b] >= MinBucket
LosesIn(c, b) == c.lap[b] # NoTime /\ c.best[b] # NoTime /\ c.lap[b] - c.best[b] >= MinBucket
RunsOf(P(_)) ==
    {r \in Track \X Track :
        /\ r[1] <= r[2]
        /\ \A b \in r[1]..r[2] : P(b)
        /\ r[1] - 1 \in Track => ~P(r[1] - 1)
        /\ r[2] + 1 \in Track => ~P(r[2] + 1)}
Total(c, r) ==
    LET Sums[b \in (r[1] - 1)..r[2]] ==
            IF b < r[1] THEN 0 ELSE Sums[b - 1] + c.lap[b] - c.best[b]
    IN  Sums[r[2]]
Worth(c, runs) ==
    {r \in runs : Total(c, r) >= MinStreak \/ Total(c, r) <= -MinStreak}

(* After a clean lap exactly the runs that add up to enough are reported, each once    *)
(* and from the start of the track to its end; gaps in the measurement and equal times *)
(* never join two runs, and nothing is carried over from the run before.               *)
RunsReported ==
    LET Said(kind) == {<<saidSectors[i].from, saidSectors[i].to>> :
                          i \in {i \in DOMAIN saidSectors : saidSectors[i].kind = kind}}
        Gained(b) == GainsIn(compared, b)
        Lost(b) == LosesIn(compared, b)
    IN  /\ Said("gain") = Worth(compared, RunsOf(Gained))
        /\ Said("loss") = Worth(compared, RunsOf(Lost))
        /\ \A i, j \in DOMAIN saidSectors :
              i < j => saidSectors[i].to < saidSectors[j].from
=============================================================================
