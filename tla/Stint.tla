-------------------------------- MODULE Stint --------------------------------
(***************************************************************************)
(* The estimators of the publisher's own car, as the engine calls them     *)
(* when a lap is done: TireDegradation::on_lap_crossing                    *)
(* (src/tire_degradation.rs), FuelProjection::on_lap_crossing              *)
(* (src/fuel_projection.rs) and MicroSectorTracker::on_lap_end             *)
(* (src/micro_sector.rs).                                                  *)
(*                                                                         *)
(* The lap is a clean, a dirty or a pit lap, as the lap bookkeeping found  *)
(* (module Laps: a pit lap is also dirty).  Temperatures, litres and       *)
(* sector times are data: of a tyre temperature the model keeps whether    *)
(* they are received, of a fuel delta whether it is above zero.            *)
(***************************************************************************)
EXTENDS Integers, SequencesExt

CONSTANTS
    TireMin, TireMax,    \* laps the tyre slope needs, and keeps
    FuelWindow           \* fuel deltas that are averaged

ASSUME StintAssumption ==
    /\ TireMin \in Nat \ {0, 1} /\ TireMax \in Nat /\ TireMin <= TireMax
    /\ FuelWindow \in Nat \ {0}

VARIABLES
    tires,               \* length of lap_emas
    wasPitLap, warm,     \* TireDegradation: was_pit_lap; temperatures are received at all
    deltas,              \* clean_deltas, oldest first: whether fuel was used
    lastClean, inPit,    \* FuelProjection: last_clean_fuel is known; in_pit
    cleanLaps,           \* clean_laps_completed is above zero
    saidStint,           \* what this lap made the estimators say
    since, cleanSince    \* for the properties: laps, and clean laps, that were done
                         \* since the last pit lap, up to Enough

stint == <<tires, wasPitLap, warm, deltas, lastClean, inPit, cleanLaps>>
stintVars == <<stint, saidStint, since, cleanSince>>

LapKinds == {"clean", "dirty", "pit"}
Silence == [tire |-> FALSE, fuel |-> "none", sector |-> FALSE]
Enough == 1 + (IF TireMax > FuelWindow THEN TireMax ELSE FuelWindow)
AtMost(n, m) == IF n < m THEN n ELSE m

InitStint ==
    /\ tires = 0
    /\ wasPitLap = FALSE
    /\ warm \in BOOLEAN
    /\ deltas = <<>>
    /\ lastClean = FALSE
    /\ inPit = FALSE
    /\ cleanLaps = FALSE
    /\ saidStint = Silence
    /\ since = 0
    /\ cleanSince = 0
-----------------------------------------------------------------------------
\* The inputs of a lap: its kind, and whether the tank holds less than at the end of
\* the last clean lap.
LapInputs == [kind : LapKinds, burned : BOOLEAN]

\* The window of lap temperatures: emptied by a pit lap and once more after it.
TiresAfter(k) ==
    IF k = "pit" THEN 0
    ELSE IF wasPitLap THEN 1
    ELSE AtMost(tires + 1, TireMax)

TireLap(i) ==
    /\ tires' = TiresAfter(i.kind)
    /\ wasPitLap' = (i.kind = "pit")
    /\ UNCHANGED warm

\* TIRE_DEGRADATION: has_valid_data asks for a temperature.
TireReport(i) == i.kind # "pit" /\ TiresAfter(i.kind) >= TireMin /\ warm

\* The fuel window: a delta is taken from one clean lap to the next one, however many
\* dirty laps lie between them, and never across a pit lap.
FuelKnown == lastClean /\ ~inPit
WithDelta(kept, burned) ==
    LET longer == Append(kept, burned)
    IN  IF Len(longer) > FuelWindow THEN Tail(longer) ELSE longer
DeltasAcrossStops(i) ==
    IF i.kind = "clean" /\ lastClean THEN WithDelta(deltas, i.burned) ELSE deltas
DeltasAfter(i) ==
    LET kept == IF i.kind = "pit" \/ inPit THEN <<>> ELSE deltas
    IN  IF i.kind = "clean" /\ FuelKnown THEN WithDelta(kept, i.burned) ELSE kept

FuelLap(i) ==
    /\ deltas' = DeltasAfter(i)
    /\ lastClean' = CASE i.kind = "pit" -> FALSE
                      [] i.kind = "clean" -> TRUE
                      [] OTHER -> FuelKnown
    /\ inPit' = (i.kind = "pit")

\* FUEL_PROJECTION: has_valid_data asks for a delta above zero.
FuelReport(i) ==
    IF i.kind = "pit" \/ ~\E d \in ToSet(DeltasAfter(i)) : d THEN "none"
    ELSE IF Len(DeltasAfter(i)) < FuelWindow THEN "provisional"
    ELSE "final"

\* MICRO_SECTOR_GAIN / LOSS: a clean lap is compared with the best of those before.
SectorReport(i) == i.kind = "clean" /\ cleanLaps

LapOfStint(i) ==
    /\ TireLap(i)
    /\ FuelLap(i)
    /\ cleanLaps' = (cleanLaps \/ i.kind = "clean")
    /\ saidStint' = [tire |-> TireReport(i), fuel |-> FuelReport(i), sector |-> SectorReport(i)]
    /\ since' = IF i.kind = "pit" THEN 0 ELSE AtMost(since + 1, Enough)
    /\ cleanSince' = CASE i.kind = "pit" -> 0
                       [] i.kind = "clean" -> AtMost(cleanSince + 1, Enough)
                       [] OTHER -> cleanSince
-----------------------------------------------------------------------------
(* What is said of the tyres and of the fuel rests on laps of the present stint alone: *)
(* enough of them for a slope, and one clean lap more than the deltas that are         *)
(* averaged.                                                                           *)
StintEvidence ==
    /\ saidStint.tire => since >= TireMin
    /\ saidStint.fuel = "provisional" => cleanSince >= 2
    /\ saidStint.fuel = "final" => cleanSince > FuelWindow
=============================================================================
