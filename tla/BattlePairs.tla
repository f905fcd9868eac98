---------------------------- MODULE BattlePairs -----------------------------
(***************************************************************************)
(* BattlePairTracker (src/battle_pairs.rs) and what the engine says of it: *)
(* every pair of cars near the publisher, frame by frame, from candidate   *)
(* to engaged fight to broken fight.                                       *)
(*                                                                         *)
(* A frame is handled pair by pair, in the order the hash maps happen to   *)
(* have.  A pair is a value of its own: which cars it consists of, who is  *)
(* ahead, and how the gap follows from the telemetry is the data of        *)
(* observe_pairs, and its result is the input here.  The closing rate, a   *)
(* statistic over ten seconds of gaps, is an input too.  One engine is     *)
(* modelled: a new sub-session gets a new one.                             *)
(***************************************************************************)
EXTENDS Integers, FiniteSets

CONSTANTS
    Pairs,               \* pairs of cars
    OwnPairs,            \* the pairs the publisher's car is in
    PairGaps,            \* the gaps observe_pairs may report
    EngageGap,           \* PAIR_ENGAGE_GAP_S
    BreakGap,            \* PAIR_BREAK_GAP_S
    EngageFrames,        \* PAIR_ENGAGE_MIN_FRAMES
    BreakFrames,         \* PAIR_BREAK_MIN_FRAMES
    ClosingDrop,         \* PAIR_CLOSING_MIN_GAP_DROP_S
    ClosingInterval,     \* PAIR_CLOSING_MIN_INTERVAL_S
    MaxFights,           \* bound: fights
    MaxClock             \* bound: the session clock

ASSUME PairsAssumption == OwnPairs \subseteq Pairs
ASSUME PairGapsAssumption ==
    /\ PairGaps \subseteq Nat
    /\ EngageGap \in Nat /\ BreakGap \in Nat /\ EngageGap <= BreakGap
    /\ ClosingDrop \in Nat \ {0}
ASSUME PairFramesAssumption ==
    /\ EngageFrames \in Nat \ {0} /\ BreakFrames \in Nat \ {0}
    /\ ClosingInterval \in Nat
ASSUME BoundsAssumption == MaxFights \in Nat /\ MaxClock \in Nat

VARIABLES
    clock,               \* session_time of the frame
    seen,                \* observe_pairs: the gap of each pair, or OutOfSight
    loop,                \* which loop of update is running
    todo,                \* the pairs it has not come to
    battles,             \* the battles map, NoBattle where it has no entry
    candidates,          \* the candidates map, 0 where it has no entry
    minted,              \* the minted counter
    event,               \* the event of this step, as the engine passes it on
    inARow               \* for the properties: how many frames each pair has been
                         \* close, or away, in a row

observed == <<clock, seen, inARow>>
pairVars == <<observed, loop, todo, battles, candidates, minted, event>>

\* What is published: the fights of the pairs the publisher is not in.
Say == INSTANCE Fights WITH Pairs <- Pairs \ OwnPairs, newest <- minted,
                            open <- [p \in Pairs \ OwnPairs |-> battles[p].id]

OutOfSight == -1
NoBattle == [id |-> 0, far |-> 0, lastClosing |-> 0, gapAtLastClosing |-> 0]
Fighting(p) == battles[p].id # 0

Close(g) == g # OutOfSight /\ g < EngageGap
FarAway(g) == g = OutOfSight \/ g > BreakGap
-----------------------------------------------------------------------------
InitPairs ==
    /\ clock = 0
    /\ seen = [p \in Pairs |-> OutOfSight]
    /\ loop = "frame"
    /\ todo = {}
    /\ battles = [p \in Pairs |-> NoBattle]
    /\ candidates = [p \in Pairs |-> 0]
    /\ minted = 0
    /\ event = Say!Silence
    /\ inARow = [p \in Pairs |-> [close |-> 0, away |-> 0]]

\* What the engine does with a transition: the pairs the publisher is in are left to
\* the threats of the engine itself.
Emit(phase, p, id) ==
    event' = IF p \in OwnPairs THEN Say!Silence ELSE Say!Say(phase, p, id)

OneMore(n, max) == IF n < max THEN n + 1 ELSE max

\* The next frame: the session clock goes on, stays (frames are finer) or starts again.
PairFrame ==
    /\ loop = "frame"
    /\ clock' \in {clock, clock + 1, 0} \cap 0..MaxClock
    /\ seen' \in [Pairs -> PairGaps \cup {OutOfSight}]
    /\ inARow' = [p \in Pairs |->
          [close |-> IF Close(seen'[p]) THEN OneMore(inARow[p].close, EngageFrames) ELSE 0,
           away |-> IF FarAway(seen'[p]) THEN OneMore(inARow[p].away, BreakFrames) ELSE 0]]
    /\ todo' = {p \in Pairs : Fighting(p)}
    /\ loop' = "battles"
    /\ event' = Say!Silence
    /\ UNCHANGED <<battles, candidates, minted>>

\* First loop: refresh a battle, then BROKEN, CLOSING or nothing.
FarOfSeenOnly(p) ==
    IF seen[p] = OutOfSight THEN battles[p].far
    ELSE IF seen[p] > BreakGap THEN battles[p].far + 1 ELSE 0
Far(p) == IF FarAway(seen[p]) THEN battles[p].far + 1 ELSE 0

Break(p) ==
    /\ Far(p) >= BreakFrames
    /\ battles' = [battles EXCEPT ![p] = NoBattle]
    /\ Emit("BROKEN", p, battles[p].id)

\* Whether it is said then depends on the closing rate.
MayClose(p) ==
    /\ seen[p] # OutOfSight
    /\ seen[p] <= battles[p].gapAtLastClosing - ClosingDrop
    /\ clock - battles[p].lastClosing >= ClosingInterval

ClosesIn(p) ==
    /\ Far(p) < BreakFrames
    /\ MayClose(p)
    /\ battles' = [battles EXCEPT ![p] = [@ EXCEPT !.far = Far(p), !.lastClosing = clock,
                                                   !.gapAtLastClosing = seen[p]]]
    /\ Emit("CLOSING", p, battles[p].id)

GoesOn(p) ==
    /\ Far(p) < BreakFrames
    /\ battles' = [battles EXCEPT ![p].far = Far(p)]
    /\ event' = Say!Silence

Refresh(p) ==
    /\ loop = "battles"
    /\ p \in todo
    /\ Break(p) \/ ClosesIn(p) \/ GoesOn(p)
    /\ todo' = todo \ {p}
    /\ UNCHANGED <<observed, loop, candidates, minted>>

\* Between the loops: only pairs that are still close stay candidates.
KeptWhenSeen(p) == seen[p] # OutOfSight
StillClose(p) == Close(seen[p])
PruneCandidates ==
    /\ loop = "battles"
    /\ todo = {}
    /\ candidates' = [p \in Pairs |-> IF StillClose(p) THEN candidates[p] ELSE 0]
    /\ todo' = {p \in Pairs : ~Fighting(p) /\ Close(seen[p])}
    /\ loop' = "pairs"
    /\ event' = Say!Silence
    /\ UNCHANGED <<observed, battles, minted>>

\* Second loop: a close pair that is not in a battle.
Count(p) ==
    /\ candidates[p] + 1 < EngageFrames
    /\ candidates' = [candidates EXCEPT ![p] = @ + 1]
    /\ event' = Say!Silence
    /\ UNCHANGED <<battles, minted>>

IdOfLast == minted
NextId == minted + 1
CandidatesWithout(p) == [candidates EXCEPT ![p] = 0]
Engage(p) ==
    /\ candidates[p] + 1 >= EngageFrames
    /\ minted < MaxFights
    /\ minted' = minted + 1
    /\ battles' = [battles EXCEPT ![p] =
          [id |-> NextId, far |-> 0, lastClosing |-> clock, gapAtLastClosing |-> seen[p]]]
    /\ candidates' = CandidatesWithout(p)
    /\ Emit("ENGAGED", p, NextId)

\* The bound on fights: the behaviour is not followed further than this.
Beyond(p) ==
    /\ candidates[p] + 1 >= EngageFrames
    /\ minted >= MaxFights
    /\ event' = Say!Silence
    /\ UNCHANGED <<battles, candidates, minted>>

Consider(p) ==
    /\ loop = "pairs"
    /\ p \in todo
    /\ Count(p) \/ Engage(p) \/ Beyond(p)
    /\ todo' = todo \ {p}
    /\ UNCHANGED <<observed, loop>>

FrameDone ==
    /\ loop = "pairs"
    /\ todo = {}
    /\ loop' = "frame"
    /\ event' = Say!Silence
    /\ UNCHANGED <<observed, todo, battles, candidates, minted>>

Update ==
    \/ PruneCandidates \/ FrameDone
    \/ \E p \in Pairs : Refresh(p) \/ Consider(p)

PairStep == PairFrame \/ Update

PairsSpec == InitPairs /\ [][PairStep]_pairVars
-----------------------------------------------------------------------------
Battle == [id : 1..MaxFights, far : 0..BreakFrames - 1, lastClosing : 0..MaxClock,
           gapAtLastClosing : PairGaps]

(* The counters stay below their thresholds, and a pair is a candidate or in a battle, *)
(* never both: the two maps of BattlePairTracker share no key.                         *)
PairsTypeOK ==
    /\ clock \in 0..MaxClock
    /\ seen \in [Pairs -> PairGaps \cup {OutOfSight}]
    /\ loop \in {"frame", "battles", "pairs"}
    /\ todo \subseteq Pairs
    /\ battles \in [Pairs -> Battle \cup {NoBattle}]
    /\ candidates \in [Pairs -> 0..EngageFrames - 1]
    /\ minted \in 0..MaxFights
    /\ \A p \in Pairs : Fighting(p) => candidates[p] = 0

(* What the engine passes on is a correct account of fights: each opens with an id    *)
(* never used before, is updated and closed under that id, and a pair has one at a    *)
(* time; a fight the publisher is in uses up an id and is not told twice.             *)
TellsOfFights == Say!FightsSpec

(* A fight begins only after EngageFrames frames in a row, up to this one, had the    *)
(* pair close, and ends only after BreakFrames in a row had it far apart or out of    *)
(* sight: what a pair did before it was lost, or in an earlier fight, counts nothing. *)
FramesOfEvidence ==
    [][\A p \in Pairs :
          /\ ~Fighting(p) /\ Fighting(p)' => inARow[p].close >= EngageFrames
          /\ Fighting(p) /\ ~Fighting(p)' => inARow[p].away >= BreakFrames]_pairVars

(* No decision is late: when a frame is done, a pair that was close for EngageFrames  *)
(* in a row is in a fight, and one away for BreakFrames in a row is not.              *)
DecidedInTime ==
    loop = "frame" =>
        \A p \in Pairs :
            /\ inARow[p].close >= EngageFrames => Fighting(p) \/ minted = MaxFights
            /\ inARow[p].away >= BreakFrames => ~Fighting(p)
=============================================================================
