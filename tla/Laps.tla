-------------------------------- MODULE Laps --------------------------------
(***************************************************************************)
(* The lap bookkeeping of NarrativeEngine::process_frame (src/engine.rs):  *)
(* pit edges, dirty and pit laps, positions at the end of a lap,           *)
(* LAP_COMPLETED and OVERTAKE.                                             *)
(*                                                                         *)
(* Everything is kept under the lap number and for as long as the engine   *)
(* lives.  The engine outlives a session: when the next session of the     *)
(* same sub-session starts, or the session is restarted, the lap number    *)
(* goes back and the laps of the earlier one are still there.  A frame in  *)
(* which the car has no position, or is on lap 0, is only looked at for    *)
(* the pit edges.  Lap times, gaps and who was overtaken are data.         *)
(***************************************************************************)
EXTENDS Integers, FiniteSets

CONSTANTS
    MaxLap,              \* bound: the lap number
    Positions,           \* the race positions of the car
    PitFrames,           \* PIT_LAP_FRAME_THRESH
    MaxRestarts          \* bound: sessions after the first one

ASSUME LapsAssumption ==
    MaxLap \in Nat /\ MaxRestarts \in Nat /\ PitFrames \in Nat \ {0}
ASSUME PositionsAssumption == Positions \subseteq Nat \ {0}

VARIABLES
    prevLap, prevOnPit, prevPosition,
    pitFrames,           \* lap_pit_frames, up to the threshold
    pitLaps, dirtyLaps,
    endPosition,         \* lap_end_positions
    saidLap,             \* what this frame made the engine say
    restarts,
    pitTold,             \* for the properties: on pit road, by what was said
    pitSpell,            \* for the properties: the classified frames this lap had on
                         \* pit road, up to the threshold
    disturbed            \* for the properties: a classified frame of this lap was
                         \* under yellow or on pit road

lapEngine == <<prevLap, prevOnPit, prevPosition, pitFrames, pitLaps, dirtyLaps, endPosition>>
lapTold == <<pitTold, pitSpell, disturbed>>
lapVars == <<lapEngine, saidLap, restarts, lapTold>>

Laps == 0..MaxLap
Unset == -1
Nothing == [pit |-> "none", completed |-> Unset, clean |-> FALSE, overtake |-> FALSE]

InitLaps ==
    /\ prevLap = Unset
    /\ prevOnPit = FALSE
    /\ prevPosition = Unset
    /\ pitFrames = [l \in Laps |-> 0]
    /\ pitLaps = {}
    /\ dirtyLaps = {}
    /\ endPosition = [l \in Laps |-> Unset]
    /\ saidLap = Nothing
    /\ restarts = 0
    /\ pitTold = FALSE
    /\ pitSpell = 0
    /\ disturbed = FALSE
-----------------------------------------------------------------------------
LapFrames == [lap : Laps, pos : Positions \cup {0}, onPit : BOOLEAN, yellow : BOOLEAN]
ClassifiedLap(f) == f.pos # 0 /\ f.lap >= 1

PitEdgeClassified(f) ==
    CASE ClassifiedLap(f) /\ f.onPit /\ ~prevOnPit -> "entry"
      [] ClassifiedLap(f) /\ ~f.onPit /\ prevOnPit -> "exit"
      [] OTHER -> "none"
PitEdge(f) ==
    CASE f.onPit /\ ~prevOnPit -> "entry"
      [] ~f.onPit /\ prevOnPit -> "exit"
      [] OTHER -> "none"

\* The counters of the frame's own lap: it is dirty when a frame of it is, and the
\* frames on pit road are counted.
Longer(n) == IF n < PitFrames THEN n + 1 ELSE PitFrames
DirtyLaps(f) == IF f.yellow \/ f.onPit THEN dirtyLaps \cup {f.lap} ELSE dirtyLaps
PitFramesAfter(f) ==
    IF f.onPit THEN [pitFrames EXCEPT ![f.lap] = Longer(@)] ELSE pitFrames

\* The lap that is done is the one of the frame before, wherever that frame was.
Crosses(f) == prevLap # Unset /\ f.lap # prevLap
PitLapsAfter(f) ==
    IF Crosses(f) /\ PitFramesAfter(f)[prevLap] >= PitFrames
    THEN pitLaps \cup {prevLap}
    ELSE pitLaps
EndPosition(f) == IF prevPosition = Unset THEN f.pos ELSE prevPosition
EndPositionsAfter(f) ==
    IF Crosses(f) THEN [endPosition EXCEPT ![prevLap] = EndPosition(f)] ELSE endPosition

\* OVERTAKE, OVERTAKE_FOR_LEAD: a better position than at the end of the lap before, on
\* a lap that is not a pit lap.
Gains(f) ==
    /\ prevLap - 1 \in Laps
    /\ EndPositionsAfter(f)[prevLap - 1] # Unset
    /\ EndPosition(f) < EndPositionsAfter(f)[prevLap - 1]
GainsAnyLap(f) == Crosses(f) /\ Gains(f)
Overtakes(f) == Crosses(f) /\ Gains(f) /\ prevLap \notin PitLapsAfter(f)

\* What the end of the lap hands to the estimators.
CleanLap(f) == prevLap \notin PitLapsAfter(f) /\ prevLap \notin DirtyLaps(f)

Classify(f) ==
    /\ ClassifiedLap(f)
    /\ dirtyLaps' = DirtyLaps(f)
    /\ pitFrames' = PitFramesAfter(f)
    /\ pitLaps' = PitLapsAfter(f)
    /\ endPosition' = EndPositionsAfter(f)
    /\ prevPosition' = f.pos
    /\ saidLap' = [pit |-> PitEdge(f),
                   completed |-> IF Crosses(f) THEN prevLap ELSE Unset,
                   clean |-> Crosses(f) /\ CleanLap(f),
                   overtake |-> Overtakes(f)]

LookAtPit(f) ==
    /\ ~ClassifiedLap(f)
    /\ saidLap' = [Nothing EXCEPT !.pit = PitEdge(f)]
    /\ UNCHANGED <<dirtyLaps, pitFrames, pitLaps, endPosition, prevPosition>>

\* The lap number goes on by one or more, or back at the start of another session.
NextLap(f) ==
    \/ f.lap >= prevLap /\ UNCHANGED restarts
    \/ f.lap < prevLap /\ restarts < MaxRestarts /\ restarts' = restarts + 1

ProcessFrame(f) ==
    /\ NextLap(f)
    /\ Classify(f) \/ LookAtPit(f)
    /\ prevLap' = f.lap
    /\ prevOnPit' = f.onPit
    /\ pitTold' = CASE saidLap'.pit = "entry" -> TRUE
                    [] saidLap'.pit = "exit" -> FALSE
                    [] OTHER -> pitTold
    /\ LET spell == IF f.lap = prevLap THEN pitSpell ELSE 0
           before == IF f.lap = prevLap THEN disturbed ELSE FALSE
       IN  /\ pitSpell' = IF ClassifiedLap(f) /\ f.onPit THEN Longer(spell) ELSE spell
           /\ disturbed' = (before \/ (ClassifiedLap(f) /\ (f.onPit \/ f.yellow)))

LapStep == \E f \in LapFrames : ProcessFrame(f)

LapsSpec == InitLaps /\ [][LapStep]_lapVars
-----------------------------------------------------------------------------
(* The types; a pit lap is a dirty lap, and a lap without a frame on pit road is no *)
(* pit lap, whatever session it was driven in.                                      *)
LapsTypeOK ==
    /\ prevLap \in Laps \cup {Unset}
    /\ prevOnPit \in BOOLEAN
    /\ prevPosition \in Positions \cup {Unset}
    /\ pitFrames \in [Laps -> 0..PitFrames]
    /\ pitLaps \subseteq dirtyLaps
    /\ dirtyLaps \subseteq Laps
    /\ \A l \in pitLaps : pitFrames[l] = PitFrames
    /\ endPosition \in [Laps -> Positions \cup {Unset}]
    /\ saidLap \in [pit : {"none", "entry", "exit"}, completed : Laps \cup {Unset},
                    clean : BOOLEAN, overtake : BOOLEAN]
    /\ restarts \in 0..MaxRestarts

(* PIT_ENTRY and PIT_EXIT tell where the car is in every frame, also while it has no   *)
(* position in its pit stall, before the first lap and across a restart.               *)
PitRoadTold == pitTold = prevOnPit

(* A lap reported complete is the one the car was on until this frame; if it counts as *)
(* clean then none of its frames was under yellow or on pit road; and no place gained  *)
(* in a lap through the pits is an OVERTAKE.                                           *)
LapAsDriven ==
    [][/\ saidLap'.completed \in {Unset, prevLap}
       /\ saidLap'.clean => ~disturbed
       /\ saidLap'.overtake => pitSpell < PitFrames]_lapVars
=============================================================================
