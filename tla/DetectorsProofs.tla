--------------------------- MODULE DetectorsProofs ---------------------------
(***************************************************************************)
(* Proofs about modules LapEnd, Incidents and Sectors: for any rivals,     *)
(* slopes and thresholds, any lengths of the windows, any set of speeds,   *)
(* any expiry, and any number of buckets and set of segment times.         *)
(***************************************************************************)
EXTENDS LapEnd, Incidents, Sectors, FiniteSetTheorems, WellFoundedInduction, TLAPS
-----------------------------------------------------------------------------
(* LapEnd: what is said of tyres and fuel rests on laps of this stint, and alerts are  *)
(* paired.                                                                             *)

\* The windows are never longer than the laps of the stint allow.
StintInv ==
    /\ tires \in Nat /\ since \in 0..Enough /\ tires <= since
    /\ deltas \in Seq(BOOLEAN)
    /\ {lastClean, inPit} \subseteq BOOLEAN
    /\ cleanSince \in 0..Enough
    /\ FuelKnown => cleanSince >= 1
    /\ Len(deltas) > 0 => cleanSince > Len(deltas)
    /\ StintEvidence

AlertInv ==
    /\ alert \in BOOLEAN /\ alertTold \in BOOLEAN
    /\ alertTold <=> alert
    /\ since = 0 => ~alert
-----------------------------------------------------------------------------
LEMMA EnoughBounds ==
    /\ Enough \in Nat /\ Enough > TireMax /\ Enough > FuelWindow
    /\ TireMin \in Nat /\ TireMin >= 2 /\ TireMax \in Nat
    /\ FuelWindow \in Nat /\ FuelWindow >= 1
BY StintAssumption DEF Enough

LEMMA TireStep ==
    ASSUME StintInv, NEW i \in LapInputs, LapOfStint(i)
    PROVE  /\ tires' \in Nat /\ since' \in 0..Enough /\ tires' <= since'
           /\ saidStint'.tire => since' >= TireMin
<1>1. /\ tires' = TiresAfter(i.kind)
      /\ since' = (IF i.kind = "pit" THEN 0 ELSE AtMost(since + 1, Enough))
      /\ saidStint'.tire = TireReport(i)
    BY DEF LapOfStint, TireLap
<1>2. tires' \in Nat /\ since' \in 0..Enough /\ tires' <= since'
    BY <1>1, EnoughBounds DEF StintInv, TiresAfter, AtMost
<1>3. ASSUME TireReport(i) PROVE since' >= TireMin
    <2>1. tires' >= TireMin
        BY <1>1, <1>3 DEF TireReport
    <2> QED BY <1>2, <2>1, EnoughBounds
<1> QED BY <1>1, <1>2, <1>3

(* A delta more in the window, which keeps its length. *)
LEMMA WindowGrowsByOne ==
    ASSUME NEW kept \in Seq(BOOLEAN), NEW burned \in BOOLEAN
    PROVE  /\ WithDelta(kept, burned) \in Seq(BOOLEAN)
           /\ Len(WithDelta(kept, burned)) \in Nat
           /\ Len(WithDelta(kept, burned)) <= Len(kept) + 1
           /\ Len(kept) <= FuelWindow => Len(WithDelta(kept, burned)) <= FuelWindow
<1>1. /\ Append(kept, burned) \in Seq(BOOLEAN)
      /\ Len(Append(kept, burned)) = Len(kept) + 1
      /\ Append(kept, burned) # <<>>
    OBVIOUS
<1>2. /\ Tail(Append(kept, burned)) \in Seq(BOOLEAN)
      /\ Len(Tail(Append(kept, burned))) = Len(kept)
    BY <1>1
<1>3. Len(kept) \in Nat /\ FuelWindow \in Nat
    BY EnoughBounds
<1>4. CASE Len(kept) + 1 > FuelWindow
    <2>1. WithDelta(kept, burned) = Tail(Append(kept, burned))
        BY <1>1, <1>4 DEF WithDelta
    <2> QED BY <1>2, <1>3, <2>1
<1>5. CASE ~(Len(kept) + 1 > FuelWindow)
    <2>1. WithDelta(kept, burned) = Append(kept, burned)
        BY <1>1, <1>5 DEF WithDelta
    <2> QED BY <1>1, <1>3, <1>5, <2>1
<1> QED BY <1>4, <1>5

LEMMA FuelStep ==
    ASSUME StintInv, Len(deltas) <= FuelWindow, NEW i \in LapInputs, LapOfStint(i)
    PROVE  /\ deltas' \in Seq(BOOLEAN) /\ Len(deltas') <= FuelWindow
           /\ {lastClean', inPit'} \subseteq BOOLEAN
           /\ cleanSince' \in 0..Enough
           /\ FuelKnown' => cleanSince' >= 1
           /\ Len(deltas') > 0 => cleanSince' > Len(deltas')
           /\ saidStint'.fuel = "provisional" => cleanSince' >= 2
           /\ saidStint'.fuel = "final" => cleanSince' > FuelWindow
<1> DEFINE kept == IF i.kind = "pit" \/ inPit THEN <<>> ELSE deltas
<1>1. /\ deltas' = DeltasAfter(i)
      /\ inPit' = (i.kind = "pit")
      /\ saidStint'.fuel = FuelReport(i)
      /\ i.kind \in LapKinds /\ i.burned \in BOOLEAN
    BY DEF LapOfStint, FuelLap, LapInputs
<1>2. /\ i.kind = "pit" => lastClean' = FALSE /\ cleanSince' = 0
      /\ i.kind = "clean" => lastClean' = TRUE /\ cleanSince' = AtMost(cleanSince + 1, Enough)
      /\ i.kind = "dirty" => lastClean' = FuelKnown /\ cleanSince' = cleanSince
    BY DEF LapOfStint, FuelLap
<1>3. /\ kept \in Seq(BOOLEAN) /\ Len(kept) \in Nat /\ Len(kept) <= FuelWindow
      /\ Len(kept) > 0 => kept = deltas /\ cleanSince > Len(kept) /\ i.kind # "pit"
    <2>1. <<>> \in Seq(BOOLEAN) /\ Len(<<>>) = 0 /\ FuelWindow \in Nat
        BY EnoughBounds
    <2>2. deltas \in Seq(BOOLEAN) /\ Len(deltas) \in Nat
          /\ (Len(deltas) > 0 => cleanSince > Len(deltas))
        BY DEF StintInv
    <2>3. CASE i.kind = "pit" \/ inPit
        <3>1. kept = <<>>
            BY <2>3
        <3> HIDE DEF kept
        <3> QED BY <2>1, <3>1
    <2>4. CASE ~(i.kind = "pit" \/ inPit)
        <3>1. kept = deltas
            BY <2>4
        <3> HIDE DEF kept
        <3> QED BY <2>2, <2>4, <3>1
    <2> QED BY <2>3, <2>4
<1>4. DeltasAfter(i) = IF i.kind = "clean" /\ FuelKnown THEN WithDelta(kept, i.burned) ELSE kept
    BY DEF DeltasAfter
<1> HIDE DEF kept
<1>5. cleanSince \in 0..Enough /\ FuelKnown \in BOOLEAN /\ (FuelKnown => cleanSince >= 1)
    BY DEF StintInv, FuelKnown
<1>6. cleanSince' \in 0..Enough
    BY <1>1, <1>2, <1>5, EnoughBounds DEF LapKinds, AtMost
<1>7. {lastClean', inPit'} \subseteq BOOLEAN
    BY <1>1, <1>2, <1>5 DEF LapKinds
<1>8. /\ deltas' \in Seq(BOOLEAN) /\ Len(deltas') \in Nat /\ Len(deltas') <= FuelWindow
      /\ Len(deltas') > 0 => cleanSince' > Len(deltas')
    <2>1. CASE i.kind = "clean" /\ FuelKnown
        <3>1. /\ WithDelta(kept, i.burned) \in Seq(BOOLEAN)
              /\ Len(WithDelta(kept, i.burned)) \in Nat
              /\ Len(WithDelta(kept, i.burned)) <= Len(kept) + 1
              /\ Len(WithDelta(kept, i.burned)) <= FuelWindow
            BY <1>1, <1>3, WindowGrowsByOne
        <3>2. cleanSince' = AtMost(cleanSince + 1, Enough) /\ cleanSince >= 1
            BY <1>2, <1>5, <2>1
        <3>3. deltas' = WithDelta(kept, i.burned)
            BY <1>1, <1>4, <2>1
        <3> QED BY <1>3, <1>5, <3>1, <3>2, <3>3, EnoughBounds DEF AtMost
    <2>2. CASE ~(i.kind = "clean" /\ FuelKnown)
        <3>1. deltas' = kept
            BY <1>1, <1>4, <2>2
        <3>2. i.kind # "pit" => cleanSince' >= cleanSince
            BY <1>1, <1>2, <1>5, EnoughBounds DEF LapKinds, AtMost
        <3> QED BY <1>3, <1>5, <1>6, <3>1, <3>2
    <2> QED BY <2>1, <2>2
<1>9. FuelKnown' => cleanSince' >= 1
    <2>1. CASE i.kind = "pit"
        BY <1>2, <2>1 DEF FuelKnown
    <2>2. CASE i.kind = "clean"
        BY <1>2, <1>5, <2>2, EnoughBounds DEF AtMost
    <2>3. CASE i.kind = "dirty"
        BY <1>2, <1>5, <2>3 DEF FuelKnown
    <2> QED BY <1>1, <2>1, <2>2, <2>3 DEF LapKinds
<1>10. saidStint'.fuel \in {"provisional", "final"} => Len(deltas') > 0
    <2>1. ToSet(<<>>) = {}
        BY DEF ToSet
    <2>2. ASSUME saidStint'.fuel \in {"provisional", "final"} PROVE deltas' # <<>>
        BY <1>1, <2>1, <2>2 DEF FuelReport
    <2> QED BY <1>8, <2>2
<1>11. saidStint'.fuel = "final" => Len(deltas') >= FuelWindow
    BY <1>1, <1>8, EnoughBounds DEF FuelReport
<1> QED BY <1>1, <1>6, <1>7, <1>8, <1>9, <1>10, <1>11, EnoughBounds
-----------------------------------------------------------------------------
LEMMA OpponentIsNotIdle ==
    ASSUME NEW d, NEW rival, rival.car # NoRival
    PROVE  StateFor(d, rival) # "idle"
BY DEF StateFor
-----------------------------------------------------------------------------
\* One step of AlertsPaired.
Paired ==
    /\ saidRivals'.alert = "raised" => ~alertTold /\ engineState'["behind"] # "idle"
    /\ saidRivals'.alert = "resolved" => alertTold
    /\ since' = 0 => ~alertTold'

LEMMA AlertStep ==
    ASSUME AlertInv, NEW ahead, NEW behind, NEW level, NEW pit \in BOOLEAN,
           LapOfRivals(ahead, behind, level, pit), since' = 0 <=> pit
    PROVE  AlertInv' /\ Paired
<1> DEFINE rival == Seen(behind, pit)
           danger == LevelOf(rival, level)
           say == AlertSaid(danger, pit)
<1>1. /\ engineState'["behind"] = StateFor("behind", rival)
      /\ alert' = AlertAfter(danger, pit)
      /\ saidRivals'.alert = say
      /\ say = "raised" => alertTold' = TRUE
      /\ say = "resolved" => alertTold' = FALSE
      /\ say = "none" => alertTold' = alertTold
    BY DEF LapOfRivals, Directions
<1>2. alert \in BOOLEAN /\ alertTold \in BOOLEAN /\ (alertTold <=> alert)
    BY DEF AlertInv
<1>3. say \in {"none", "raised", "resolved"}
    BY DEF AlertSaid
<1>4. /\ say = "raised" => ~alert /\ ~pit /\ danger = "critical"
      /\ say = "resolved" => alert
      /\ pit /\ alert => say = "resolved"
    BY <1>2 DEF AlertSaid
<1>5. /\ say = "raised" => alert' = TRUE
      /\ say = "resolved" => alert' = FALSE
      /\ say = "none" => alert' = alert
    BY <1>1 DEF AlertAfter
<1>6. say = "raised" => rival.car # NoRival
    BY <1>4 DEF LevelOf
<1>7. say = "raised" => engineState'["behind"] # "idle"
    BY <1>1, <1>6, OpponentIsNotIdle
<1> HIDE DEF say
<1>8. AlertInv'
    <2>1. CASE say = "raised"
        BY <1>1, <1>4, <1>5, <2>1 DEF AlertInv
    <2>2. CASE say = "resolved"
        BY <1>1, <1>5, <2>2 DEF AlertInv
    <2>3. CASE say = "none"
        <3>1. alert' = alert /\ alertTold' = alertTold /\ (pit => ~alert)
            BY <1>1, <1>4, <1>5, <2>3
        <3> QED BY <1>2, <3>1 DEF AlertInv
    <2> QED BY <1>3, <2>1, <2>2, <2>3
<1> QED BY <1>1, <1>2, <1>3, <1>4, <1>7, <1>8 DEF Paired, AlertInv
-----------------------------------------------------------------------------
LapEndInv == StintInv /\ Len(deltas) <= FuelWindow /\ AlertInv

LEMMA InitLapEndInv == InitLapEnd => LapEndInv
<1> SUFFICES ASSUME InitLapEnd PROVE LapEndInv
    OBVIOUS
<1>1. StintInv /\ Len(deltas) <= FuelWindow
    <2>1. /\ tires = 0 /\ since = 0 /\ cleanSince = 0 /\ deltas = <<>>
          /\ lastClean = FALSE /\ inPit = FALSE
          /\ saidStint.tire = FALSE /\ saidStint.fuel = "none"
        BY DEF InitLapEnd, InitStint, Silence
    <2>2. StintEvidence
        BY <2>1 DEF StintEvidence
    <2>3. /\ deltas \in Seq(BOOLEAN) /\ Len(deltas) = 0
          /\ tires \in Nat /\ since \in 0..Enough /\ cleanSince \in 0..Enough
          /\ FuelWindow >= 0
        BY <2>1, EnoughBounds
    <2>4. {lastClean, inPit} \subseteq BOOLEAN /\ ~FuelKnown
        BY <2>1 DEF FuelKnown
    <2>5. StintInv
        BY <2>1, <2>2, <2>3, <2>4 DEF StintInv
    <2> QED BY <2>3, <2>5
<1>2. AlertInv
    BY DEF InitLapEnd, InitStint, InitRivals, AlertInv
<1> QED BY <1>1, <1>2 DEF LapEndInv

LEMMA StepLapEndInv ==
    ASSUME LapEndInv, LapEndStep
    PROVE  LapEndInv' /\ Paired
<1>1. ASSUME NEW i \in LapInputs, NEW ahead \in Opponents \cup {NoOpponent},
             NEW behind \in Opponents \cup {NoOpponent}, NEW level \in Levels,
             LapDone(i, ahead, behind, level)
      PROVE  LapEndInv' /\ Paired
    <2> DEFINE pit == i.kind = "pit"
    <2>1. LapOfStint(i) /\ LapOfRivals(ahead, behind, level, pit)
        BY <1>1 DEF LapDone
    <2>2. StintInv' /\ (Len(deltas) <= FuelWindow)'
        BY <2>1, TireStep, FuelStep DEF LapEndInv, StintInv, StintEvidence
    <2>3. since' = 0 <=> pit
        BY <2>1, EnoughBounds DEF LapOfStint, AtMost, LapEndInv, StintInv
    <2>4. AlertInv' /\ Paired
        BY <2>1, <2>3, AlertStep DEF LapEndInv
    <2> QED BY <2>2, <2>4 DEF LapEndInv
<1> QED BY <1>1 DEF LapEndStep

LEMMA LapEndInvariant == LapEndSpec => []LapEndInv
<1>1. LapEndInv /\ [LapEndStep]_lapEndVars => LapEndInv'
    <2>1. ASSUME LapEndInv, UNCHANGED lapEndVars PROVE LapEndInv'
        <3>1. UNCHANGED <<stint, saidStint, since, cleanSince>> /\ UNCHANGED rivalVars
            BY <2>1 DEF lapEndVars, stintVars
        <3>2. StintInv' /\ (Len(deltas) <= FuelWindow)'
            BY <2>1, <3>1 DEF stint, LapEndInv, StintInv, FuelKnown, StintEvidence
        <3>3. AlertInv'
            BY <2>1, <3>1 DEF rivalVars, LapEndInv, AlertInv
        <3> QED BY <3>2, <3>3 DEF LapEndInv
    <2> QED BY <2>1, StepLapEndInv
<1> QED BY <1>1, InitLapEndInv, PTL DEF LapEndSpec

(* What is said of the tyres and of the fuel rests on enough laps of the present stint, *)
(* whatever the windows are and however clean, dirty and pit laps follow one another.   *)
THEOREM SaidOfThisStint == LapEndSpec => []StintEvidence
<1>1. LapEndInv => StintEvidence
    BY DEF LapEndInv, StintInv
<1> QED BY <1>1, LapEndInvariant, PTL

(* Vulnerability alerts and their resolutions alternate; none is raised without a       *)
(* rival behind and none outlives a pit lap.                                           *)
THEOREM AlertsArePaired == LapEndSpec => AlertsPaired
<1>1. LapEndInv /\ [LapEndStep]_lapEndVars => [Paired]_lapEndVars
    BY StepLapEndInv
<1> QED BY <1>1, LapEndInvariant, PTL DEF LapEndSpec, AlertsPaired, Paired
-----------------------------------------------------------------------------
(* Incidents.  While the registry has the car, the state the detector compares with is *)
(* the one the registry holds, and smoothing takes a tenth of its speed at most; what  *)
(* the detector last saw of a car on the road that drives is that it drove.            *)

CarStates == [surface : Surfaces, pit : BOOLEAN, speed : Nat]

CarInv ==
    /\ car \in CarStates \cup {Gone}
    /\ car # Gone => snapshot = car

LEMMA GoneIsNoState == Gone \notin CarStates
<1>1. Gone.speed = -1
    BY DEF Gone
<1>2. \A c \in CarStates : c.speed \in Nat
    BY DEF CarStates
<1> QED BY <1>1, <1>2

(* What smoothing leaves of a speed is a tenth less at most. *)
LEMMA SmoothingKeepsNineTenths ==
    ASSUME NEW v \in Nat, NEW raw \in Nat
    PROVE  /\ (raw + 9 * v) \div 10 \in Nat
           /\ 10 * ((raw + 9 * v) \div 10) >= 9 * v - 9
OBVIOUS

(* The speed of a car that stays in the registry, when it is in the world before and  *)
(* after: it does not collapse.                                                       *)
LEMMA NoCollapse ==
    ASSUME NEW f \in CarFrames, car \in CarStates
    PROVE  /\ Speed(f) \in Nat
           /\ Visible(f) => ~(car.speed - Speed(f) >= DropLimit
                              /\ 10 * Speed(f) <= 8 * car.speed)
<1>1. car.speed \in Nat /\ car # Gone
    BY GoneIsNoState DEF CarStates
<1>2. f.raw \in Speeds \cup {Jump} /\ f.tick \in BOOLEAN
    BY DEF CarFrames
<1>3. DropLimit \in Nat /\ DropLimit >= 2
    BY IncidentsAssumption
<1>4. CASE KeepsSpeed(f)
    BY <1>1, <1>3, <1>4 DEF Speed
<1>5. CASE ~KeepsSpeed(f) /\ Visible(f)
    <2>1. f.raw \in Nat
        BY <1>2, <1>5, IncidentsAssumption DEF KeepsSpeed
    <2>2. Speed(f) = Smoothed(f.raw)
        BY <1>1, <1>5 DEF Speed
    <2>3. CASE car.speed = 0
        BY <1>3, <2>1, <2>2, <2>3 DEF Smoothed
    <2>4. CASE car.speed # 0
        <3> DEFINE after == (f.raw + 9 * car.speed) \div 10
        <3>1. Speed(f) = after
            BY <2>2, <2>4 DEF Smoothed
        <3>2. after \in Nat /\ 10 * after >= 9 * car.speed - 9
            BY <1>1, <2>1, SmoothingKeepsNineTenths
        <3> HIDE DEF after
        <3>3. ~(car.speed - after >= DropLimit /\ 10 * after <= 8 * car.speed)
            BY <1>1, <1>3, <3>2
        <3> QED BY <3>1, <3>2, <3>3
    <2> QED BY <2>3, <2>4
<1>6. CASE ~KeepsSpeed(f) /\ ~Visible(f)
    BY <1>1, <1>6 DEF Speed
<1> QED BY <1>4, <1>5, <1>6

LEMMA OnlySevereSaysSpeedDrop ==
    ASSUME NEW new, NEW points, "speed_drop" \in AlertOf(new) \cup PointsOf(new, points)
    PROVE  Severe(snapshot, new)
<1>1. "speed_drop" \notin PointsOf(new, points)
    BY DEF PointsOf
<1>2. "speed_drop" \in Reasons(snapshot, new)
    BY <1>1 DEF AlertOf
<1> QED BY <1>2 DEF Reasons

(* A step that says "speed_drop" finds the car back in the registry after it was      *)
(* dropped from it.                                                                   *)
Returns == "speed_drop" \in said' => car = Gone

LEMMA PlacedStep ==
    ASSUME CarInv, NEW f \in CarFrames, NEW points, Placed(f, points)
    PROVE  CarInv' /\ Returns
<1> DEFINE new == [surface |-> f.surface, pit |-> f.pit, speed |-> Speed(f)]
<1>1. /\ car' = new /\ snapshot' = new
      /\ said' = AlertOf(new) \cup PointsOf(new, points)
    BY DEF Placed, Detect
<1>2. Speed(f) \in Nat
    <2>1. CASE car = Gone
        BY <2>1 DEF Speed
    <2>2. CASE car \in CarStates
        BY <2>2, NoCollapse
    <2> QED BY <2>1, <2>2 DEF CarInv
<1>3. new \in CarStates
    BY <1>2 DEF CarStates, CarFrames
<1>4. ASSUME "speed_drop" \in said', car # Gone
      PROVE  FALSE
    <2>1. snapshot = car /\ car \in CarStates
        BY <1>4 DEF CarInv
    <2>2. Severe(car, new)
        BY <1>1, <1>4, <2>1, OnlySevereSaysSpeedDrop
    <2>3. Visible(f)
        BY <2>2 DEF Severe, InWorld, Visible
    <2>4. car.speed - Speed(f) >= DropLimit /\ 10 * Speed(f) <= 8 * car.speed
        BY <2>2 DEF Severe
    <2> QED BY <2>1, <2>3, <2>4, NoCollapse
<1> QED BY <1>1, <1>3, <1>4 DEF CarInv, Returns

LEMMA UnplacedStep ==
    ASSUME CarInv, NEW points, Unplaced(points)
    PROVE  CarInv' /\ Returns
<1>1. /\ car' = car /\ snapshot' = car /\ car # Gone
      /\ said' = AlertOf(car) \cup PointsOf(car, points)
    BY DEF Unplaced, Detect
<1>2. snapshot = car /\ car.speed \in Nat
    BY <1>1 DEF CarInv, CarStates
<1>3. "speed_drop" \notin said'
    <2>1. ~Severe(snapshot, car)
        BY <1>2, IncidentsAssumption DEF Severe
    <2> QED BY <1>1, <2>1, OnlySevereSaysSpeedDrop
<1> QED BY <1>1, <1>3 DEF CarInv, Returns

LEMMA StepCarInv ==
    ASSUME CarInv, IncidentStep
    PROVE  CarInv' /\ Returns
<1>1. CASE \E f \in CarFrames, points \in BOOLEAN : Placed(f, points)
    BY <1>1, PlacedStep
<1>2. CASE \E points \in BOOLEAN : Unplaced(points)
    BY <1>2, UnplacedStep
<1>3. CASE Dropped
    BY <1>3 DEF Dropped, CarInv, Returns
<1>4. CASE Absent
    BY <1>4 DEF Absent, CarInv, Returns
<1> QED BY <1>1, <1>2, <1>3, <1>4 DEF IncidentStep

LEMMA CarInvariant == IncidentsSpec => []CarInv
<1>1. InitIncidents => CarInv
    BY DEF InitIncidents, CarInv
<1>2. CarInv /\ [IncidentStep]_incidentVars => CarInv'
    <2>1. ASSUME CarInv, UNCHANGED incidentVars PROVE CarInv'
        BY <2>1 DEF incidentVars, CarInv
    <2> QED BY <2>1, StepCarInv
<1> QED BY <1>1, <1>2, PTL DEF IncidentsSpec

(* BasicIncidentDetector::update gives "speed_drop" as a reason only for a car that    *)
(* was dropped from the registry and comes back: one that stays in it never loses a    *)
(* fifth of its smoothed speed from one frame to the next, whatever it really does.    *)
THEOREM DropsAreReturns == IncidentsSpec => [][Returns]_incidentVars
<1>1. CarInv /\ [IncidentStep]_incidentVars => [Returns]_incidentVars
    BY StepCarInv
<1> QED BY <1>1, CarInvariant, PTL DEF IncidentsSpec

\* What the detector remembers of a car on the road that drives, the history has too.
DroveInv ==
    /\ snapshot # Gone /\ OnTheRoad(snapshot) /\ Drives(snapshot) => drove
    /\ AlertsOfDrivers

LEMMA DetectedDrove ==
    ASSUME DroveInv, NEW new, NEW points, Detect(new, points)
    PROVE  DroveInv'
<1>1. /\ snapshot' = new
      /\ drove' = (OnTheRoad(new) /\ (drove \/ Drives(new)))
      /\ said' = AlertOf(new) \cup PointsOf(new, points)
    BY DEF Detect
<1>2. ASSUME AlertOf(new) # {} PROVE drove'
    <2>1. Reasons(snapshot, new) # {}
        BY <1>2 DEF AlertOf
    <2>2. /\ snapshot # Gone /\ OffPits(snapshot, new)
          /\ Severe(snapshot, new) \/ WentOff(snapshot, new)
        BY <2>1 DEF Reasons
    <2>3. InWorld(snapshot, new) /\ Drives(snapshot)
        BY <2>2 DEF Severe, WentOff
    <2> QED BY <1>1, <2>2, <2>3 DEF DroveInv, InWorld, OffPits, OnTheRoad
<1>3. ASSUME PointsOf(new, points) # {} PROVE drove'
    <2> DEFINE old == IF snapshot = Gone THEN new ELSE snapshot
    <2>1. InWorld(old, new) /\ OffPits(old, new) /\ (Drives(old) \/ Drives(new))
        BY <1>3 DEF PointsOf
    <2> QED BY <1>1, <2>1 DEF DroveInv, InWorld, OffPits, OnTheRoad
<1> QED BY <1>1, <1>2, <1>3 DEF DroveInv, AlertsOfDrivers

(* Whatever BasicIncidentDetector::update alerts of, on surfaces, speeds or points     *)
(* alone, is a car that has been driving since it was last on pit road or out of the   *)
(* world, also when it was dropped from the registry in between.                       *)
THEOREM AlertsAreOfDrivers == IncidentsSpec => []AlertsOfDrivers
<1>1. InitIncidents => DroveInv
    BY DEF InitIncidents, DroveInv, AlertsOfDrivers
<1>2. DroveInv /\ [IncidentStep]_incidentVars => DroveInv'
    <2> SUFFICES ASSUME DroveInv, [IncidentStep]_incidentVars PROVE DroveInv'
        OBVIOUS
    <2>1. CASE \E f \in CarFrames, points \in BOOLEAN : Placed(f, points)
        BY <2>1, DetectedDrove DEF Placed
    <2>2. CASE \E points \in BOOLEAN : Unplaced(points)
        BY <2>2, DetectedDrove DEF Unplaced
    <2>3. CASE Dropped
        BY <2>3 DEF Dropped, DroveInv, AlertsOfDrivers
    <2>4. CASE Absent
        BY <2>4 DEF Absent, DroveInv, AlertsOfDrivers
    <2>5. CASE UNCHANGED incidentVars
        BY <2>5 DEF incidentVars, DroveInv, AlertsOfDrivers
    <2> QED BY <2>1, <2>2, <2>3, <2>4, <2>5 DEF IncidentStep
<1>3. DroveInv => AlertsOfDrivers
    BY DEF DroveInv
<1> QED BY <1>1, <1>2, <1>3, PTL DEF IncidentsSpec
-----------------------------------------------------------------------------
(* Sectors: what is reported after a lap is what the reference asks for.               *)

\* A set of numbers that is not empty has a least one.
LEMMA Least ==
    ASSUME NEW I \in SUBSET Nat, I # {}
    PROVE  \E i \in I : \A j \in I : i <= j
<1> DEFINE T == {0..i : i \in I}
<1>1. IsWellFoundedOn(StrictSubsetOrdering(Nat), FiniteSubsetsOf(Nat))
  BY FS_StrictSubsetOrderingWellFounded
<1>2. T \subseteq FiniteSubsetsOf(Nat) /\ T # {}
  <2>1. \A i \in I : 0..i \in SUBSET Nat /\ IsFiniteSet(0..i)
    BY FS_Interval
  <2> QED
    BY <2>1 DEF FiniteSubsetsOf
<1>3. PICK x \in T : \A y \in T : ~(<<y, x>> \in StrictSubsetOrdering(Nat))
  <2> HIDE DEF T
  <2> QED
    BY <1>1, <1>2, WFMin
<1>4. PICK i \in I : x = 0..i
  OBVIOUS
<1>5. ASSUME NEW j \in I, j < i
      PROVE  FALSE
  <2>1. 0..j \in T /\ 0..j \in SUBSET Nat /\ 0..i \in SUBSET Nat
    OBVIOUS
  <2>2. 0..j \subseteq 0..i /\ i \in 0..i /\ i \notin 0..j
    BY <1>5
  <2>3. <<0..j, 0..i>> \in StrictSubsetOrdering(Nat)
    BY <2>1, <2>2 DEF StrictSubsetOrdering
  <2> QED
    BY <1>3, <1>4, <2>1, <2>3
<1> QED
  BY <1>5

\* Induction: a set that has its first number and with each number the next has all.
LEMMA AllFrom ==
    ASSUME NEW m \in Nat, NEW n \in Nat, NEW G, m \in G,
           \A i \in m..(n - 1) : i \in G => i + 1 \in G
    PROVE  m..n \subseteq G
<1> DEFINE I == (m..n) \ G
<1> SUFFICES ASSUME I # {} PROVE FALSE
  OBVIOUS
<1>1. I \in SUBSET Nat
  OBVIOUS
<1>2. PICK i \in I : \A j \in I : i <= j
  <2> HIDE DEF I
  <2> QED
    BY <1>1, Least
<1>3. i # m /\ i \in m..n /\ i \notin G
  OBVIOUS
<1>4. i - 1 \in m..(n - 1) /\ i - 1 \notin I
  BY <1>2, <1>3
<1>5. i - 1 \in G
  BY <1>4
<1> QED
  BY <1>3, <1>4, <1>5

(* Total and Passes are recursive functions, that is, chosen among those that satisfy *)
(* their equation: one is built bucket by bucket, and what is chosen agrees with it.   *)
Recurs(f, c, a, b) ==
    f = [x \in (a - 1)..b |-> IF x < a THEN 0 ELSE f[x - 1] + c.lap[x] - c.best[x]]
IsSums(f, c, a, b) == f \in [(a - 1)..b -> Int] /\ Recurs(f, c, a, b)

LEMMA ChoiceRecurs ==
    ASSUME NEW c, NEW a, NEW b, NEW g, Recurs(g, c, a, b), NEW t,
           t = CHOOSE f : f = [x \in (a - 1)..b |->
                                  IF x < a THEN 0 ELSE f[x - 1] + c.lap[x] - c.best[x]]
    PROVE  Recurs(t, c, a, b)
BY DEF Recurs

LEMMA TotalIsChoice ==
    ASSUME NEW c, NEW a, NEW b, NEW t,
           t = CHOOSE f : f = [x \in (a - 1)..b |->
                                  IF x < a THEN 0 ELSE f[x - 1] + c.lap[x] - c.best[x]]
    PROVE  Total(c, <<a, b>>) = t[b]
BY DEF Total

LEMMA PassesIsChoice ==
    ASSUME NEW p,
           p = CHOOSE f : f = [n \in 0..Anchors |->
                                  IF n = 0 THEN [streak |-> Closed, told |-> <<>>]
                                  ELSE Pass(n - 1, f[n - 1])]
    PROVE  Passes = p
BY DEF Passes

PassedTo(f, m) ==
    f = [n \in 0..m |-> IF n = 0 THEN [streak |-> Closed, told |-> <<>>] ELSE Pass(n - 1, f[n - 1])]

LEMMA ChoicePasses ==
    ASSUME NEW g, PassedTo(g, Anchors), NEW t,
           t = CHOOSE f : f = [n \in 0..Anchors |->
                                  IF n = 0 THEN [streak |-> Closed, told |-> <<>>]
                                  ELSE Pass(n - 1, f[n - 1])]
    PROVE  PassedTo(t, Anchors)
BY DEF PassedTo

-----------------------------------------------------------------------------
Times == [lap : [Track -> Int], best : [Track -> Int]]

LEMMA TrackIs == Track = 0..(Anchors - 1) /\ Anchors \in Nat /\ Anchors > 0
BY SectorsAssumption DEF Track

\* The sums can be built, one bucket after the other.
LEMMA SumsExist ==
    ASSUME NEW c \in Times, NEW a \in Track, NEW b \in Track, a <= b
    PROVE  \E f : IsSums(f, c, a, b)
<1> DEFINE G == {n \in a..b : \E f : IsSums(f, c, a, n)}
           d(x) == c.lap[x] - c.best[x]
<1>1. a \in Nat /\ b \in Nat /\ a..b \subseteq Track
      /\ \A x \in Track : c.lap[x] \in Int /\ c.best[x] \in Int
  BY TrackIs DEF Times
<1>2. a \in G
  <2> DEFINE f == [x \in (a - 1)..a |-> IF x < a THEN 0 ELSE d(a)]
  <2>1. \A x \in (a - 1)..a : ~(x < a) => x = a /\ f[x - 1] = 0
    BY <1>1
  <2>2. f \in [(a - 1)..a -> Int]
    BY <1>1
  <2>3. \A x \in (a - 1)..a : f[x] = IF x < a THEN 0 ELSE f[x - 1] + c.lap[x] - c.best[x]
    BY <1>1, <2>1
  <2>4. f = [x \in (a - 1)..a |-> f[x]]
    OBVIOUS
  <2> HIDE DEF f
  <2>5. IsSums(f, c, a, a)
    BY <2>2, <2>3, <2>4 DEF IsSums, Recurs
  <2> QED
    BY <1>1, <2>5
<1>3. ASSUME NEW i \in a..(b - 1), i \in G
      PROVE  i + 1 \in G
  <2>1. PICK f : IsSums(f, c, a, i)
    BY <1>3
  <2> DEFINE g == [x \in (a - 1)..(i + 1) |-> IF x <= i THEN f[x] ELSE f[i] + d(i + 1)]
  <2>2. /\ f \in [(a - 1)..i -> Int]
        /\ \A x \in (a - 1)..i : f[x] = IF x < a THEN 0 ELSE f[x - 1] + c.lap[x] - c.best[x]
    BY <2>1 DEF IsSums, Recurs
  <2>3. i \in Nat /\ i + 1 \in Track /\ i \in (a - 1)..i /\ f[i] \in Int /\ d(i + 1) \in Int
    BY <1>1, <2>2, TrackIs
  <2>4. g \in [(a - 1)..(i + 1) -> Int]
    <3>1. \A x \in (a - 1)..(i + 1) : x <= i => x \in (a - 1)..i
      BY <1>1, <2>3
    <3> HIDE DEF d
    <3> QED
      BY <2>2, <2>3, <3>1
  <2>5. ASSUME NEW x \in (a - 1)..(i + 1)
        PROVE  g[x] = IF x < a THEN 0 ELSE g[x - 1] + c.lap[x] - c.best[x]
    <3>1. CASE x <= i
      <4>1. x \in (a - 1)..i /\ g[x] = f[x]
        BY <1>1, <2>3, <3>1
      <4>2. ~(x < a) => x - 1 \in (a - 1)..(i + 1) /\ g[x - 1] = f[x - 1]
        BY <1>1, <2>3, <3>1
      <4> QED
        BY <2>2, <4>1, <4>2
    <3>2. CASE x = i + 1
      <4>1. g[x] = f[i] + d(i + 1) /\ ~(x < a)
        BY <1>1, <2>3, <3>2
      <4>2. g[x - 1] = f[i]
        BY <1>1, <2>3, <3>2
      <4> QED
        BY <1>1, <2>3, <3>2, <4>1, <4>2
    <3> QED
      BY <1>1, <2>3, <3>1, <3>2
  <2>6. g = [x \in (a - 1)..(i + 1) |-> g[x]]
    OBVIOUS
  <2> HIDE DEF g
  <2>7. IsSums(g, c, a, i + 1)
    BY <2>4, <2>5, <2>6 DEF IsSums, Recurs
  <2> QED
    BY <1>1, <2>3, <2>7
<1>4. b \in a..b
  BY <1>1
<1> HIDE DEF G
<1>5. b \in G
  BY <1>1, <1>2, <1>3, <1>4, AllFrom
<1> QED
  BY <1>5 DEF G

\* What satisfies the equation is settled up to any bucket, however long the run.
LEMMA SumsAgree ==
    ASSUME NEW c \in Times, NEW a \in Track, NEW b \in Track, NEW n \in Track, a <= b, b <= n,
           NEW f, NEW g, Recurs(f, c, a, b), Recurs(g, c, a, n)
    PROVE  f[b] = g[b]
<1> DEFINE G == {x \in (a - 1)..b : f[x] = g[x]}
           H == {x \in Nat : x - 1 \in G}
<1>1. a \in Nat /\ b \in Nat /\ n \in Nat
  BY TrackIs
<1>2. /\ \A x \in (a - 1)..b : f[x] = IF x < a THEN 0 ELSE f[x - 1] + c.lap[x] - c.best[x]
      /\ \A x \in (a - 1)..n : g[x] = IF x < a THEN 0 ELSE g[x - 1] + c.lap[x] - c.best[x]
  BY DEF Recurs
<1>3. a \in H
  BY <1>1, <1>2
<1>4. ASSUME NEW i \in a..b, i \in H
      PROVE  i + 1 \in H
  <2>1. i - 1 \in (a - 1)..b /\ f[i - 1] = g[i - 1]
    BY <1>4
  <2>2. i \in (a - 1)..b /\ i \in (a - 1)..n /\ ~(i < a) /\ i \in Nat
    BY <1>1
  <2>3. f[i] = g[i]
    BY <1>2, <2>1, <2>2
  <2> QED
    BY <2>2, <2>3
<1>5. b + 1 \in H
  <2>1. a \in Nat /\ b + 1 \in Nat /\ \A i \in a..((b + 1) - 1) : i \in H => i + 1 \in H
    BY <1>1, <1>4
  <2>2. b + 1 \in a..(b + 1)
    BY <1>1
  <2> HIDE DEF H
  <2> QED
    BY <1>3, <2>1, <2>2, AllFrom
<1> QED
  BY <1>1, <1>5

\* So Total is the last of the sums.
LEMMA TotalIsSum ==
    ASSUME NEW c \in Times, NEW a \in Track, NEW b \in Track, a <= b
    PROVE  \E f : IsSums(f, c, a, b) /\ Total(c, <<a, b>>) = f[b]
<1>1. PICK g : IsSums(g, c, a, b)
  BY SumsExist
<1>2. PICK t : t = CHOOSE f : f = [x \in (a - 1)..b |->
                                  IF x < a THEN 0 ELSE f[x - 1] + c.lap[x] - c.best[x]]
  OBVIOUS
<1>3. Total(c, <<a, b>>) = t[b]
  BY <1>2, TotalIsChoice
<1>4. Recurs(t, c, a, b)
  <2>1. Recurs(g, c, a, b)
    BY <1>1 DEF IsSums
  <2> QED
    BY <1>2, <2>1, ChoiceRecurs
<1>5. b <= b /\ Recurs(g, c, a, b)
  BY <1>1, TrackIs DEF IsSums
<1>6. t[b] = g[b]
  BY <1>4, <1>5, SumsAgree
<1> QED
  BY <1>1, <1>3, <1>6

\* Total adds up the differences of the buckets of a run, one after the other.
LEMMA TotalAddsUp ==
    ASSUME NEW c \in Times, NEW a \in Track, NEW b \in Track, a <= b
    PROVE  /\ Total(c, <<a, b>>) \in Int
           /\ a = b => Total(c, <<a, b>>) = c.lap[b] - c.best[b]
           /\ a < b => Total(c, <<a, b>>) = Total(c, <<a, b - 1>>) + c.lap[b] - c.best[b]
<1>1. a \in Nat /\ b \in Nat /\ c.lap[b] \in Int /\ c.best[b] \in Int
  BY TrackIs DEF Times
<1>2. PICK f : IsSums(f, c, a, b) /\ Total(c, <<a, b>>) = f[b]
  BY TotalIsSum
<1>3. /\ f \in [(a - 1)..b -> Int]
      /\ \A x \in (a - 1)..b : f[x] = IF x < a THEN 0 ELSE f[x - 1] + c.lap[x] - c.best[x]
  BY <1>2 DEF IsSums, Recurs
<1>4. b \in (a - 1)..b /\ b - 1 \in (a - 1)..b /\ ~(b < a)
  BY <1>1
<1>5. f[b] \in Int /\ f[b] = f[b - 1] + c.lap[b] - c.best[b]
  BY <1>3, <1>4
<1>6. a = b => f[b - 1] = 0
  BY <1>1, <1>3, <1>4
<1>7. ASSUME a < b
      PROVE  Total(c, <<a, b - 1>>) = f[b - 1]
  <2>1. b - 1 \in Track /\ a <= b - 1 /\ b - 1 <= b
    BY <1>1, <1>7, TrackIs
  <2>2. PICK g : IsSums(g, c, a, b - 1) /\ Total(c, <<a, b - 1>>) = g[b - 1]
    BY <2>1, TotalIsSum
  <2>3. Recurs(g, c, a, b - 1) /\ Recurs(f, c, a, b)
    BY <1>2, <2>2 DEF IsSums
  <2>4. g[b - 1] = f[b - 1]
    BY <2>1, <2>3, SumsAgree
  <2> QED
    BY <2>2, <2>4
<1>8. a = b => Total(c, <<a, b>>) = 0 + c.lap[b] - c.best[b]
  BY <1>2, <1>5, <1>6
<1> QED
  BY <1>1, <1>2, <1>5, <1>7, <1>8

\* The passes can be built as well.
LEMMA PassesExist == \E f : PassedTo(f, Anchors)
<1> DEFINE G == {m \in 0..Anchors : \E f : PassedTo(f, m)}
           z == [streak |-> Closed, told |-> <<>>]
<1>1. 0 \in G
  <2> DEFINE f == [n \in 0..0 |-> z]
  <2>1. \A n \in 0..0 : n = 0 /\ f[n] = z
    OBVIOUS
  <2>2. f = [n \in 0..0 |-> IF n = 0 THEN z ELSE Pass(n - 1, f[n - 1])]
    BY <2>1
  <2> HIDE DEF f
  <2>3. PassedTo(f, 0)
    BY <2>2 DEF PassedTo
  <2> QED
    BY <2>3, TrackIs
<1>2. ASSUME NEW m \in 0..(Anchors - 1), m \in G
      PROVE  m + 1 \in G
  <2>1. PICK f : PassedTo(f, m)
    BY <1>2
  <2> HIDE DEF z
  <2> DEFINE g == [n \in 0..(m + 1) |-> IF n <= m THEN f[n] ELSE Pass(m, f[m])]
  <2>2. \A n \in 0..m : f[n] = IF n = 0 THEN z ELSE Pass(n - 1, f[n - 1])
    BY <2>1 DEF PassedTo, z
  <2>3. ASSUME NEW n \in 0..(m + 1)
        PROVE  g[n] = IF n = 0 THEN z ELSE Pass(n - 1, g[n - 1])
    <3>1. CASE n = 0
      BY <2>2, <3>1
    <3>2. CASE n # 0
      <4>1. n - 1 \in 0..m /\ n - 1 \in 0..(m + 1) /\ g[n - 1] = f[n - 1]
        BY <3>2
      <4>2. n <= m => g[n] = Pass(n - 1, f[n - 1])
        BY <2>2, <3>2
      <4>3. ~(n <= m) => n = m + 1 /\ g[n] = Pass(n - 1, f[n - 1])
        OBVIOUS
      <4> HIDE DEF g
      <4> QED
        BY <3>2, <4>1, <4>2, <4>3
    <3> QED
      BY <3>1, <3>2
  <2>4. g = [n \in 0..(m + 1) |-> g[n]]
    OBVIOUS
  <2> HIDE DEF g
  <2>5. g = [n \in 0..(m + 1) |-> IF n = 0 THEN z ELSE Pass(n - 1, g[n - 1])]
    BY <2>3, <2>4
  <2>6. PassedTo(g, m + 1)
    BY <2>5 DEF PassedTo, z
  <2>7. m + 1 \in 0..Anchors
    BY TrackIs
  <2> QED
    BY <2>6, <2>7
<1>3. 0 \in Nat /\ Anchors \in Nat /\ Anchors \in 0..Anchors
  BY TrackIs
<1> HIDE DEF G
<1>4. Anchors \in G
  BY <1>1, <1>2, <1>3, AllFrom
<1> QED
  BY <1>4 DEF G

\* The passes start with nothing open and nothing told, and go on bucket by bucket.
LEMMA PassesGoOn ==
    /\ Passes[0] = [streak |-> Closed, told |-> <<>>]
    /\ \A n \in Track : Passes[n + 1] = Pass(n, Passes[n])
<1>1. PICK g : PassedTo(g, Anchors)
  BY PassesExist
<1>2. PICK t : t = CHOOSE f : f = [n \in 0..Anchors |->
                                     IF n = 0 THEN [streak |-> Closed, told |-> <<>>]
                                     ELSE Pass(n - 1, f[n - 1])]
  OBVIOUS
<1>3. Passes = t
  BY <1>2, PassesIsChoice
<1>4. PassedTo(t, Anchors)
  BY <1>1, <1>2, ChoicePasses
<1>5. PassedTo(Passes, Anchors)
  BY <1>3, <1>4
<1>6. \A n \in 0..Anchors :
         Passes[n] = IF n = 0 THEN [streak |-> Closed, told |-> <<>>] ELSE Pass(n - 1, Passes[n - 1])
  BY <1>5 DEF PassedTo
<1>7. \A n \in Track : n + 1 \in 0..Anchors /\ n + 1 # 0 /\ (n + 1) - 1 = n
  BY TrackIs
<1>8. 0 \in 0..Anchors
  BY TrackIs
<1> QED
  BY <1>6, <1>7, <1>8
-----------------------------------------------------------------------------
(* The invariant of the passes over the buckets. *)
Sides == {"gain", "loss"}
This == [lap |-> current, best |-> best]
TrackTimes == [Track -> Nat \cup {NoTime}]
RunSum(k, a, b) == IF k = "gain" THEN -Total(This, <<a, b>>) ELSE Total(This, <<a, b>>)

Alike(k, a, b) ==
    /\ a \in Track /\ b \in Track /\ a <= b
    /\ \A x \in a..b : KindOfBucket(x) = k
    /\ a - 1 \in Track => KindOfBucket(a - 1) # k
Longest(k, a, b) == Alike(k, a, b) /\ (b + 1 \in Track => KindOfBucket(b + 1) # k)
Telling(k, a, b) == Longest(k, a, b) /\ RunSum(k, a, b) >= MinStreak

(* The open run ends at the bucket before n and is as long as it can be; what was told *)
(* is every longest run that ends before bucket m and adds up to enough, in order.     *)
Streak == [kind : Sides \cup {"none"}, from : Int, to : Int, sum : Int]
OpenIs(n, s) ==
    /\ s \in Streak
    /\ s.kind = "none" => n = 0 \/ KindOfBucket(n - 1) = "none"
    /\ s.kind # "none" =>
          /\ Alike(s.kind, s.from, n - 1) /\ s.to = n - 1
          /\ s.sum = RunSum(s.kind, s.from, n - 1) /\ s.sum > 0
ToldIs(m, told) ==
    /\ told \in Seq(Streak)
    /\ \A i \in DOMAIN told :
          told[i].kind \in Sides /\ Telling(told[i].kind, told[i].from, told[i].to) /\ told[i].to < m
    /\ \A i, j \in DOMAIN told : i < j => told[i].to < told[j].from
    /\ \A k \in Sides, a \in Track, b \in Track :
          Telling(k, a, b) /\ b < m =>
             \E i \in DOMAIN told : told[i].kind = k /\ told[i].from = a /\ told[i].to = b
Limit(n, s) == IF s.kind = "none" THEN n ELSE s.from

\* A bucket counts as gained or lost just as the reference says.
LEMMA KindIs ==
    ASSUME current \in TrackTimes, best \in TrackTimes, NEW b \in Track
    PROVE  /\ KindOfBucket(b) \in Sides \cup {"none"}
           /\ KindOfBucket(b) = "gain" <=> GainsIn(This, b)
           /\ KindOfBucket(b) = "loss" <=> LosesIn(This, b)
           /\ KindOfBucket(b) = "gain" => Amount(b) = best[b] - current[b] /\ Amount(b) > 0
           /\ KindOfBucket(b) = "loss" => Amount(b) = current[b] - best[b] /\ Amount(b) > 0
<1>1. current[b] \in Int /\ best[b] \in Int /\ MinBucket \in Nat /\ MinBucket > 0
  BY SectorsAssumption DEF TrackTimes, NoTime
<1>2. This.lap[b] = current[b] /\ This.best[b] = best[b]
  BY DEF This
<1> QED
  BY <1>1, <1>2 DEF KindOfBucket, Delta, Measured, Amount, GainsIn, LosesIn, Sides, NoTime

\* A run that is a bucket longer adds up to that much more.
LEMMA SumIs ==
    ASSUME current \in TrackTimes, best \in TrackTimes,
           NEW k \in Sides, NEW a \in Track, NEW b \in Track, a <= b
    PROVE  /\ RunSum(k, a, b) \in Int
           /\ KindOfBucket(b) = k /\ a = b => RunSum(k, a, b) = Amount(b)
           /\ KindOfBucket(b) = k /\ a < b => RunSum(k, a, b) = RunSum(k, a, b - 1) + Amount(b)
<1>1. This \in Times /\ This.lap[b] = current[b] /\ This.best[b] = best[b]
      /\ current[b] \in Int /\ best[b] \in Int
  BY DEF This, Times, TrackTimes, NoTime
<1>2. /\ Total(This, <<a, b>>) \in Int
      /\ a = b => Total(This, <<a, b>>) = current[b] - best[b]
      /\ a < b => Total(This, <<a, b>>) = Total(This, <<a, b - 1>>) + current[b] - best[b]
  BY <1>1, TotalAddsUp
<1>3. a < b => Total(This, <<a, b - 1>>) \in Int
  <2> SUFFICES ASSUME a < b PROVE Total(This, <<a, b - 1>>) \in Int
    OBVIOUS
  <2>1. b - 1 \in Track /\ a <= b - 1
    BY TrackIs
  <2> QED
    BY <1>1, <2>1, TotalAddsUp
<1>4. CASE k = "gain"
  <2>1. KindOfBucket(b) = k => Amount(b) = best[b] - current[b]
    BY <1>4, KindIs
  <2> QED
    BY <1>1, <1>2, <1>3, <1>4, <2>1 DEF RunSum
<1>5. CASE k = "loss"
  <2>1. KindOfBucket(b) = k => Amount(b) = current[b] - best[b]
    BY <1>5, KindIs
  <2> QED
    BY <1>1, <1>2, <1>3, <1>5, <2>1 DEF RunSum
<1> QED
  BY <1>4, <1>5 DEF Sides

\* A bucket of the kind of the open run makes it longer ...
LEMMA OpenGrows ==
    ASSUME current \in TrackTimes, best \in TrackTimes, NEW n \in Track, NEW s, OpenIs(n, s),
           KindOfBucket(n) # "none", s.kind = KindOfBucket(n)
    PROVE  OpenIs(n + 1, StreakLonger(s, n)) /\ Limit(n + 1, StreakLonger(s, n)) = Limit(n, s)
<1>1. n \in Nat /\ (n + 1) - 1 = n
  BY TrackIs
<1>2. /\ s \in Streak /\ Alike(s.kind, s.from, n - 1)
      /\ s.sum = RunSum(s.kind, s.from, n - 1) /\ s.sum > 0
  BY DEF OpenIs
<1>3. KindOfBucket(n) \in Sides /\ Amount(n) \in Int /\ Amount(n) > 0
  BY KindIs DEF Sides, TrackTimes, NoTime
<1>4. /\ StreakLonger(s, n).kind = s.kind /\ StreakLonger(s, n).from = s.from /\ StreakLonger(s, n).to = n
      /\ StreakLonger(s, n).sum = s.sum + Amount(n) /\ StreakLonger(s, n) \in Streak
  <2> HIDE DEF TrackTimes
  <2>1. s.sum + Amount(n) \in Int /\ n \in Int
    BY <1>1, <1>2, <1>3 DEF Streak
  <2>2. PICK z \in Int : z = s.sum + Amount(n)
    BY <2>1
  <2>3. StreakLonger(s, n) = [s EXCEPT !.to = n, !.sum = z]
    BY <2>2 DEF StreakLonger
  <2> HIDE DEF Sides
  <2>4. s \in Streak
    BY <1>2
  <2>5. [s EXCEPT !.to = n, !.sum = z] \in Streak
    BY <2>1, <2>4 DEF Streak
  <2>6. /\ [s EXCEPT !.to = n, !.sum = z].kind = s.kind
        /\ [s EXCEPT !.to = n, !.sum = z].from = s.from
        /\ [s EXCEPT !.to = n, !.sum = z].to = n
        /\ [s EXCEPT !.to = n, !.sum = z].sum = z
    BY <2>1, <2>4 DEF Streak
  <2> QED
    BY <2>2, <2>3, <2>5, <2>6
<1>5. s.from \in Track /\ s.from < n /\ s.from <= n
  BY <1>1, <1>2, TrackIs DEF Alike
<1>6. Alike(s.kind, s.from, n)
  BY <1>1, <1>2, <1>5, TrackIs DEF Alike
<1>7. RunSum(s.kind, s.from, n) = s.sum + Amount(n)
  BY <1>2, <1>3, <1>5, SumIs
<1>8. s.sum \in Int
  BY <1>2 DEF Streak
<1> HIDE DEF TrackTimes
<1>9. s.sum + Amount(n) > 0
  BY <1>2, <1>3, <1>8
<1> QED
  BY <1>1, <1>4, <1>6, <1>7, <1>9 DEF OpenIs, Limit

\* ... and any other closes it, and opens one of its own or none.
LEMMA OpenStarts ==
    ASSUME current \in TrackTimes, best \in TrackTimes, NEW n \in Track, NEW s, OpenIs(n, s),
           ~(KindOfBucket(n) # "none" /\ s.kind = KindOfBucket(n))
    PROVE  OpenIs(n + 1, IF KindOfBucket(n) = "none" THEN Closed ELSE Opened(n))
<1>1. n \in Nat /\ (n + 1) - 1 = n /\ n <= n
  BY TrackIs
<1>2. CASE KindOfBucket(n) = "none"
  BY <1>1, <1>2 DEF OpenIs, Closed, Streak, NoBucket
<1>3. CASE KindOfBucket(n) # "none"
  <2>1. KindOfBucket(n) \in Sides /\ Amount(n) \in Int /\ Amount(n) > 0
    BY <1>3, KindIs DEF Sides, TrackTimes, NoTime
  <2>2. RunSum(KindOfBucket(n), n, n) = Amount(n)
    BY <1>1, <2>1, SumIs
  <2>3. n - 1 \in Track => KindOfBucket(n - 1) # KindOfBucket(n)
    <3> SUFFICES ASSUME n - 1 \in Track PROVE KindOfBucket(n - 1) # KindOfBucket(n)
      OBVIOUS
    <3>1. n # 0
      BY TrackIs
    <3>2. CASE s.kind = "none"
      BY <1>3, <3>1, <3>2 DEF OpenIs
    <3>3. CASE s.kind # "none"
      <4>1. KindOfBucket(n - 1) = s.kind
        BY <3>3, TrackIs DEF OpenIs, Alike
      <4> QED
        BY <1>3, <4>1
    <3> QED
      BY <3>2, <3>3
  <2>4. Alike(KindOfBucket(n), n, n)
    BY <1>1, <2>3 DEF Alike
  <2>5. /\ Opened(n).kind = KindOfBucket(n) /\ Opened(n).from = n /\ Opened(n).to = n
        /\ Opened(n).sum = Amount(n) /\ Opened(n) \in Streak
    BY <1>1, <2>1 DEF Opened, Streak
  <2> QED
    BY <1>1, <1>3, <2>1, <2>2, <2>4, <2>5 DEF OpenIs
<1> QED
  BY <1>2, <1>3

\* Two longest runs that share a bucket are one run: here, the open one and another.
LEMMA OpenIsTheRun ==
    ASSUME NEW n \in 0..Anchors, NEW s, OpenIs(n, s), s.kind # "none",
           NEW k, NEW a, NEW b, Longest(k, a, b), s.from <= b, b < n
    PROVE  k = s.kind /\ a = s.from /\ b = n - 1
<1>1. Alike(s.kind, s.from, n - 1)
  BY DEF OpenIs
<1>2. n \in Nat /\ a \in Nat /\ b \in Nat /\ s.from \in Nat
      /\ a \in Track /\ b \in Track /\ s.from \in Track
  BY <1>1, TrackIs DEF Longest, Alike
<1>3. b \in a..b /\ b \in s.from..(n - 1)
  BY <1>2 DEF Longest, Alike
<1>4. k = s.kind
  BY <1>1, <1>3 DEF Longest, Alike
<1>5. b = n - 1
  <2> SUFFICES ASSUME b # n - 1 PROVE FALSE
    OBVIOUS
  <2>1. b + 1 \in s.from..(n - 1) /\ b + 1 \in Track
    BY <1>2, TrackIs
  <2> QED
    BY <1>1, <1>4, <2>1 DEF Longest, Alike
<1>6. ~(a < s.from)
  <2> SUFFICES ASSUME a < s.from PROVE FALSE
    OBVIOUS
  <2>1. s.from - 1 \in a..b /\ s.from - 1 \in Track
    BY <1>2, TrackIs
  <2> QED
    BY <1>1, <1>4, <2>1 DEF Longest, Alike
<1>7. ~(s.from < a)
  <2> SUFFICES ASSUME s.from < a PROVE FALSE
    OBVIOUS
  <2>1. a <= b
    BY DEF Longest, Alike
  <2>2. a - 1 \in s.from..(n - 1) /\ a - 1 \in Track
    BY <1>2, <2>1, TrackIs
  <2> QED
    BY <1>1, <1>4, <2>2 DEF Longest, Alike
<1> QED
  BY <1>2, <1>4, <1>5, <1>6, <1>7

(* What is closed is told if it adds up to enough, and then everything up to here has *)
(* been told; of two runs in a row nothing is counted twice.                           *)
LEMMA ToldAdds ==
    ASSUME NEW n \in 0..Anchors, NEW s, NEW told, OpenIs(n, s), ToldIs(Limit(n, s), told),
           s.kind # "none" => (n \in Track => KindOfBucket(n) # s.kind)
    PROVE  ToldIs(n, Reported(s, told))
<1>1. CASE s.kind = "none"
  BY <1>1 DEF Reported, Limit
<1>2. CASE s.kind # "none"
  <2>1. /\ s \in Streak /\ Alike(s.kind, s.from, n - 1) /\ s.to = n - 1
        /\ s.sum = RunSum(s.kind, s.from, n - 1)
    BY <1>2 DEF OpenIs
  <2>2. n \in Nat /\ s.from \in Nat /\ s.from <= n - 1 /\ (n - 1) + 1 = n /\ s.kind \in Sides
    BY <1>2, <2>1, TrackIs DEF Alike, Streak
  <2>3. Longest(s.kind, s.from, n - 1)
    BY <1>2, <2>1, <2>2 DEF Longest
  <2>4. ToldIs(s.from, told)
    BY <1>2 DEF Limit
  <2>5. /\ told \in Seq(Streak)
        /\ \A i \in DOMAIN told :
              told[i].kind \in Sides /\ Telling(told[i].kind, told[i].from, told[i].to)
              /\ told[i].to < s.from
        /\ \A i, j \in DOMAIN told : i < j => told[i].to < told[j].from
        /\ \A k \in Sides, a \in Track, b \in Track :
              Telling(k, a, b) /\ b < s.from =>
                 \E i \in DOMAIN told : told[i].kind = k /\ told[i].from = a /\ told[i].to = b
    BY <2>4 DEF ToldIs
  <2>6. \A i \in DOMAIN told : told[i].to \in Int /\ told[i].to < n
    <3>1. \A i \in DOMAIN told : told[i] \in Streak
      BY <2>5
    <3> QED
      BY <2>2, <2>5, <3>1 DEF Streak
  <2>7. ASSUME NEW k \in Sides, NEW a \in Track, NEW b \in Track, Telling(k, a, b), b < n
        PROVE  \/ \E i \in DOMAIN told : told[i].kind = k /\ told[i].from = a /\ told[i].to = b
               \/ k = s.kind /\ a = s.from /\ b = n - 1 /\ s.sum >= MinStreak
    <3>1. CASE b < s.from
      BY <2>5, <2>7, <3>1
    <3>2. CASE s.from <= b
      <4>1. k = s.kind /\ a = s.from /\ b = n - 1
        BY <1>2, <2>7, <3>2, OpenIsTheRun DEF Telling
      <4> QED
        BY <2>1, <2>7, <4>1 DEF Telling
    <3> QED
      BY <2>2, <3>1, <3>2, TrackIs
  <2>8. CASE s.sum >= MinStreak
    <3> DEFINE more == Append(told, s)
    <3>1. Reported(s, told) = more
      BY <1>2, <2>8 DEF Reported
    <3>2. /\ more \in Seq(Streak) /\ DOMAIN more = 1..(Len(told) + 1)
          /\ DOMAIN told = 1..Len(told) /\ Len(told) \in Nat
          /\ more[Len(told) + 1] = s
          /\ \A i \in DOMAIN told : i \in DOMAIN more /\ more[i] = told[i]
      BY <2>1, <2>5
    <3>3. \A i \in DOMAIN more : i \in DOMAIN told \/ i = Len(told) + 1
      BY <3>2
    <3> HIDE DEF more
    <3>4. Telling(s.kind, s.from, s.to) /\ s.to < n
      BY <2>1, <2>2, <2>3, <2>8 DEF Telling
    <3>5. \A i \in DOMAIN more :
             more[i].kind \in Sides /\ Telling(more[i].kind, more[i].from, more[i].to)
             /\ more[i].to < n
      BY <2>2, <2>5, <2>6, <3>2, <3>3, <3>4
    <3>6. ASSUME NEW i \in DOMAIN more, NEW j \in DOMAIN more, i < j
          PROVE  more[i].to < more[j].from
      <4>1. i \in DOMAIN told
        BY <3>2, <3>6
      <4>2. CASE j \in DOMAIN told
        BY <2>5, <3>2, <3>6, <4>1, <4>2
      <4>3. CASE j = Len(told) + 1
        BY <2>5, <3>2, <4>1, <4>3
      <4> QED
        BY <3>3, <4>2, <4>3
    <3>7. ASSUME NEW k \in Sides, NEW a \in Track, NEW b \in Track, Telling(k, a, b), b < n
          PROVE  \E i \in DOMAIN more : more[i].kind = k /\ more[i].from = a /\ more[i].to = b
      <4>1. CASE \E i \in DOMAIN told : told[i].kind = k /\ told[i].from = a /\ told[i].to = b
        BY <3>2, <4>1
      <4>2. CASE k = s.kind /\ a = s.from /\ b = n - 1
        <5>1. Len(told) + 1 \in DOMAIN more
          BY <3>2
        <5> QED
          BY <2>1, <3>2, <4>2, <5>1
      <4> QED
        BY <2>7, <3>7, <4>1, <4>2
    <3> QED
      BY <3>1, <3>2, <3>5, <3>6, <3>7 DEF ToldIs
  <2>9. CASE ~(s.sum >= MinStreak)
    <3>1. Reported(s, told) = told
      BY <1>2, <2>9 DEF Reported
    <3>2. \A k \in Sides, a \in Track, b \in Track :
             Telling(k, a, b) /\ b < n =>
                \E i \in DOMAIN told : told[i].kind = k /\ told[i].from = a /\ told[i].to = b
      BY <2>7, <2>9
    <3> QED
      BY <2>5, <2>6, <3>1, <3>2 DEF ToldIs
  <2> QED
    BY <2>8, <2>9
<1> QED
  BY <1>1, <1>2

\* A bucket of no kind is in no run.
LEMMA ToldMore ==
    ASSUME NEW n \in Track, KindOfBucket(n) = "none", NEW told, ToldIs(n, told)
    PROVE  ToldIs(n + 1, told)
<1>1. n \in Nat
  BY TrackIs
<1>2. ASSUME NEW k \in Sides, NEW a \in Track, NEW b \in Track, Telling(k, a, b), b < n + 1
      PROVE  b < n
  <2>1. b \in a..b /\ b \in Nat
    BY <1>2, TrackIs DEF Telling, Longest, Alike
  <2>2. KindOfBucket(b) = k
    BY <1>2, <2>1 DEF Telling, Longest, Alike
  <2>3. b # n
    BY <2>2 DEF Sides
  <2> QED
    BY <1>1, <1>2, <2>1, <2>3
<1>3. \A i \in DOMAIN told : told[i].to \in Int
  <2>1. told \in Seq(Streak)
    BY DEF ToldIs
  <2>2. \A i \in DOMAIN told : told[i] \in Streak
    BY <2>1
  <2> QED
    BY <2>2 DEF Streak
<1>4. \A i \in DOMAIN told : told[i].to < n + 1
  BY <1>1, <1>3 DEF ToldIs
<1> QED
  BY <1>2, <1>4 DEF ToldIs

PassIs(n, p) == OpenIs(n, p.streak) /\ ToldIs(Limit(n, p.streak), p.told)

\* One pass keeps the two in step.
LEMMA PassGoesOn ==
    ASSUME current \in TrackTimes, best \in TrackTimes, NEW n \in Track, NEW p, PassIs(n, p),
           p = [streak |-> p.streak, told |-> p.told]
    PROVE  PassIs(n + 1, Pass(n, p))
           /\ Pass(n, p) = [streak |-> Pass(n, p).streak, told |-> Pass(n, p).told]
<1>1. OpenIs(n, p.streak) /\ ToldIs(Limit(n, p.streak), p.told)
  BY DEF PassIs
<1>2. CASE KindOfBucket(n) # "none" /\ p.streak.kind = KindOfBucket(n)
  <2>1. Pass(n, p) = [streak |-> StreakLonger(p.streak, n), told |-> p.told]
    BY <1>2 DEF Pass
  <2>2. /\ OpenIs(n + 1, StreakLonger(p.streak, n))
        /\ Limit(n + 1, StreakLonger(p.streak, n)) = Limit(n, p.streak)
    BY <1>1, <1>2, OpenGrows
  <2> QED
    BY <1>1, <2>1, <2>2 DEF PassIs
<1>3. CASE ~(KindOfBucket(n) # "none" /\ p.streak.kind = KindOfBucket(n))
  <2> DEFINE next == IF KindOfBucket(n) = "none" THEN Closed ELSE Opened(n)
             told == Reported(p.streak, p.told)
  <2>1. Pass(n, p) = [streak |-> next, told |-> told]
    BY <1>3 DEF Pass
  <2>2. OpenIs(n + 1, next)
    BY <1>1, <1>3, OpenStarts
  <2>3. n \in 0..Anchors
    BY TrackIs
  <2>4. ToldIs(n, told)
    BY <1>1, <1>3, <2>3, ToldAdds
  <2>5. ToldIs(Limit(n + 1, next), told)
    <3>1. CASE KindOfBucket(n) = "none"
      <4>1. ToldIs(n + 1, told)
        BY <2>4, <3>1, ToldMore
      <4> QED
        BY <3>1, <4>1 DEF Limit, Closed
    <3>2. CASE KindOfBucket(n) # "none"
      BY <2>4, <3>2 DEF Limit, Opened
    <3> QED
      BY <3>1, <3>2
  <2> HIDE DEF next, told
  <2> QED
    BY <2>1, <2>2, <2>5 DEF PassIs
<1> QED
  BY <1>2, <1>3

\* What the last pass leaves, and the open run with it, is all there is to tell.
LEMMA ComparedTells ==
    ASSUME current \in TrackTimes, best \in TrackTimes
    PROVE  ToldIs(Anchors, Compared)
<1> DEFINE G == {n \in 0..Anchors :
                    PassIs(n, Passes[n])
                    /\ Passes[n] = [streak |-> Passes[n].streak, told |-> Passes[n].told]}
<1>1. 0 \in G
  <2>1. Passes[0].streak = Closed /\ Passes[0].told = <<>>
    BY PassesGoOn
  <2>2. OpenIs(0, Closed) /\ Limit(0, Closed) = 0
    BY DEF OpenIs, Closed, Streak, NoBucket, Limit
  <2>3. ToldIs(0, <<>>)
    <3>1. \A b \in Track : ~(b < 0)
      BY TrackIs
    <3> QED
      BY <3>1 DEF ToldIs
  <2>4. PassIs(0, Passes[0])
    BY <2>1, <2>2, <2>3 DEF PassIs
  <2> QED
    BY <2>4, PassesGoOn, TrackIs
<1>2. ASSUME NEW n \in 0..(Anchors - 1), n \in G
      PROVE  n + 1 \in G
  <2>1. n \in Track /\ n + 1 \in 0..Anchors
    BY TrackIs
  <2>2. PassIs(n, Passes[n]) /\ Passes[n] = [streak |-> Passes[n].streak, told |-> Passes[n].told]
    BY <1>2
  <2>3. Passes[n + 1] = Pass(n, Passes[n])
    BY <2>1, PassesGoOn
  <2>4. /\ PassIs(n + 1, Pass(n, Passes[n]))
        /\ Pass(n, Passes[n]) = [streak |-> Pass(n, Passes[n]).streak, told |-> Pass(n, Passes[n]).told]
    BY <2>1, <2>2, PassGoesOn
  <2> QED
    BY <2>1, <2>3, <2>4
<1> HIDE DEF G
<1>3. 0 \in Nat /\ Anchors \in Nat /\ Anchors \in 0..Anchors /\ Anchors \notin Track
  BY TrackIs
<1>4. Anchors \in G
  BY <1>1, <1>2, <1>3, AllFrom
<1>5. PassIs(Anchors, Passes[Anchors])
  BY <1>4 DEF G
<1> QED
  BY <1>3, <1>5, ToldAdds DEF PassIs, Compared

\* A run adds up to something: its buckets all have the same sign.
LEMMA RunsAddUp ==
    ASSUME current \in TrackTimes, best \in TrackTimes,
           NEW k \in Sides, NEW a, NEW b, Alike(k, a, b)
    PROVE  RunSum(k, a, b) \in Int /\ RunSum(k, a, b) > 0
<1> DEFINE G == {x \in a..b : RunSum(k, a, x) \in Int /\ RunSum(k, a, x) > 0}
<1>1. a \in Nat /\ b \in Nat /\ a <= b /\ a..b \subseteq Track /\ a \in a..b /\ b \in a..b
  BY TrackIs DEF Alike
<1>2. \A x \in a..b : KindOfBucket(x) = k /\ x \in Track /\ a \in Track /\ a <= x
  BY <1>1 DEF Alike
<1>3. \A x \in a..b : Amount(x) \in Int /\ Amount(x) > 0
  <2> SUFFICES ASSUME NEW x \in a..b PROVE Amount(x) \in Int /\ Amount(x) > 0
    OBVIOUS
  <2> QED
    BY <1>2, KindIs DEF Sides, TrackTimes, NoTime
<1> HIDE DEF TrackTimes
<1>4. a \in G
  <2>1. RunSum(k, a, a) = Amount(a)
    BY <1>1, <1>2, SumIs
  <2> QED
    BY <1>1, <1>3, <2>1
<1>5. ASSUME NEW i \in a..(b - 1), i \in G
      PROVE  i + 1 \in G
  <2>1. i + 1 \in a..b /\ a < i + 1 /\ (i + 1) - 1 = i
    BY <1>1
  <2>2. RunSum(k, a, i + 1) = RunSum(k, a, i) + Amount(i + 1)
    BY <1>2, <2>1, SumIs
  <2>3. Amount(i + 1) \in Int /\ Amount(i + 1) > 0
    BY <1>3, <2>1
  <2> QED
    BY <1>5, <2>1, <2>2, <2>3
<1> HIDE DEF G
<1>6. b \in G
  BY <1>1, <1>4, <1>5, AllFrom
<1> QED
  BY <1>6 DEF G

(* The reference, with its two kinds of runs written out. *)
GainRuns(c) ==
    {r \in Track \X Track :
        /\ r[1] <= r[2]
        /\ \A b \in r[1]..r[2] : GainsIn(c, b)
        /\ r[1] - 1 \in Track => ~GainsIn(c, r[1] - 1)
        /\ r[2] + 1 \in Track => ~GainsIn(c, r[2] + 1)}
LossRuns(c) ==
    {r \in Track \X Track :
        /\ r[1] <= r[2]
        /\ \A b \in r[1]..r[2] : LosesIn(c, b)
        /\ r[1] - 1 \in Track => ~LosesIn(c, r[1] - 1)
        /\ r[2] + 1 \in Track => ~LosesIn(c, r[2] + 1)}
SaidAs(reported, kind) ==
    {<<reported[i].from, reported[i].to>> :
        i \in {i \in DOMAIN reported : reported[i].kind = kind}}
RunsFor(reported, c) ==
    /\ SaidAs(reported, "gain") = Worth(c, GainRuns(c))
    /\ SaidAs(reported, "loss") = Worth(c, LossRuns(c))
    /\ \A i, j \in DOMAIN reported : i < j => reported[i].to < reported[j].from

LEMMA RunsAre == RunsReported <=> RunsFor(saidSectors, compared)
BY DEF RunsReported, RunsFor, SaidAs, RunsOf, GainRuns, LossRuns

\* Where nothing is compared there is no run, and nothing is said.
LEMMA NothingToSay == RunsFor(<<>>, NotCompared)
<1>1. \A b \in Track : ~GainsIn(NotCompared, b) /\ ~LosesIn(NotCompared, b)
  BY DEF GainsIn, LosesIn, NotCompared, Unmeasured
<1>2. \A r \in Track \X Track : r[1] <= r[2] => r[1] \in r[1]..r[2] /\ r[1] \in Track
  BY TrackIs
<1>3. GainRuns(NotCompared) = {} /\ LossRuns(NotCompared) = {}
  BY <1>1, <1>2 DEF GainRuns, LossRuns
<1>4. SaidAs(<<>>, "gain") = {} /\ SaidAs(<<>>, "loss") = {}
  BY DEF SaidAs
<1>5. \A i, j \in DOMAIN <<>> : i < j => <<>>[i].to < <<>>[j].from
  OBVIOUS
<1> QED
  BY <1>3, <1>4, <1>5 DEF RunsFor, Worth

\* The runs worth telling are those of the reference.
LEMMA TellingIsWorth ==
    ASSUME current \in TrackTimes, best \in TrackTimes, NEW a \in Track, NEW b \in Track
    PROVE  /\ <<a, b>> \in Worth(This, GainRuns(This)) <=> Telling("gain", a, b)
           /\ <<a, b>> \in Worth(This, LossRuns(This)) <=> Telling("loss", a, b)
<1>1. a <= b => a..b \subseteq Track
  BY TrackIs
<1>2. \A x \in Track :
         (KindOfBucket(x) = "gain" <=> GainsIn(This, x)) /\ (KindOfBucket(x) = "loss" <=> LosesIn(This, x))
  BY KindIs
<1> HIDE DEF TrackTimes
<1>3. <<a, b>> \in GainRuns(This) <=> Longest("gain", a, b)
  BY <1>1, <1>2 DEF GainRuns, Longest, Alike
<1>4. <<a, b>> \in LossRuns(This) <=> Longest("loss", a, b)
  BY <1>1, <1>2 DEF LossRuns, Longest, Alike
<1>5. MinStreak \in Nat
  BY SectorsAssumption
<1>6. Longest("gain", a, b) =>
         Total(This, <<a, b>>) \in Int /\ Total(This, <<a, b>>) < 0
  <2> SUFFICES ASSUME Longest("gain", a, b)
               PROVE  Total(This, <<a, b>>) \in Int /\ Total(This, <<a, b>>) < 0
    OBVIOUS
  <2>1. Alike("gain", a, b) /\ "gain" \in Sides
    BY DEF Longest, Sides
  <2>2. RunSum("gain", a, b) \in Int /\ RunSum("gain", a, b) > 0
    BY <2>1, RunsAddUp
  <2>3. This \in Times
    BY DEF This, Times, TrackTimes, NoTime
  <2>4. Total(This, <<a, b>>) \in Int
    BY <2>1, <2>3, TotalAddsUp DEF Alike
  <2> QED
    BY <2>2, <2>4 DEF RunSum
<1>7. Longest("loss", a, b) =>
         Total(This, <<a, b>>) \in Int /\ Total(This, <<a, b>>) > 0
  <2> SUFFICES ASSUME Longest("loss", a, b)
               PROVE  Total(This, <<a, b>>) \in Int /\ Total(This, <<a, b>>) > 0
    OBVIOUS
  <2>1. Alike("loss", a, b) /\ "loss" \in Sides
    BY DEF Longest, Sides
  <2>2. RunSum("loss", a, b) \in Int /\ RunSum("loss", a, b) > 0
    BY <2>1, RunsAddUp
  <2> QED
    BY <2>2 DEF RunSum
<1>8. RunSum("gain", a, b) = -Total(This, <<a, b>>) /\ RunSum("loss", a, b) = Total(This, <<a, b>>)
  BY DEF RunSum
<1>9. <<a, b>> \in Worth(This, GainRuns(This)) <=> Telling("gain", a, b)
  <2>1. <<a, b>> \in Worth(This, GainRuns(This)) <=>
           /\ Longest("gain", a, b)
           /\ Total(This, <<a, b>>) >= MinStreak \/ Total(This, <<a, b>>) <= -MinStreak
    BY <1>3 DEF Worth
  <2>2. CASE Longest("gain", a, b)
    BY <1>5, <1>6, <1>8, <2>1, <2>2 DEF Telling
  <2>3. CASE ~Longest("gain", a, b)
    BY <2>1, <2>3 DEF Telling
  <2> QED
    BY <2>2, <2>3
<1>10. <<a, b>> \in Worth(This, LossRuns(This)) <=> Telling("loss", a, b)
  <2>1. <<a, b>> \in Worth(This, LossRuns(This)) <=>
           /\ Longest("loss", a, b)
           /\ Total(This, <<a, b>>) >= MinStreak \/ Total(This, <<a, b>>) <= -MinStreak
    BY <1>4 DEF Worth
  <2>2. CASE Longest("loss", a, b)
    BY <1>5, <1>7, <1>8, <2>1, <2>2 DEF Telling
  <2>3. CASE ~Longest("loss", a, b)
    BY <2>1, <2>3 DEF Telling
  <2> QED
    BY <2>2, <2>3
<1> QED
  BY <1>9, <1>10

\* So what has been told at the end of the track is what the reference asks for.
LEMMA ToldAreTheRuns ==
    ASSUME current \in TrackTimes, best \in TrackTimes, NEW told, ToldIs(Anchors, told)
    PROVE  RunsFor(told, This)
<1>1. /\ told \in Seq(Streak)
      /\ \A i \in DOMAIN told :
            told[i].kind \in Sides /\ Telling(told[i].kind, told[i].from, told[i].to)
      /\ \A i, j \in DOMAIN told : i < j => told[i].to < told[j].from
      /\ \A k \in Sides, a \in Track, b \in Track :
            Telling(k, a, b) /\ b < Anchors =>
               \E i \in DOMAIN told : told[i].kind = k /\ told[i].from = a /\ told[i].to = b
  BY DEF ToldIs
<1> HIDE DEF TrackTimes
<1>2. \A i \in DOMAIN told : told[i].from \in Track /\ told[i].to \in Track
  BY <1>1 DEF Telling, Longest, Alike
<1>3. ASSUME NEW k \in Sides, NEW W, W \subseteq Track \X Track,
             \A a, b \in Track : <<a, b>> \in W <=> Telling(k, a, b)
      PROVE  SaidAs(told, k) = W
  <2>1. ASSUME NEW r \in SaidAs(told, k)
        PROVE  r \in W
    <3>1. PICK i \in DOMAIN told : told[i].kind = k /\ r = <<told[i].from, told[i].to>>
      BY DEF SaidAs
    <3>2. Telling(k, told[i].from, told[i].to)
      BY <1>1, <3>1
    <3> QED
      BY <1>2, <1>3, <3>1, <3>2
  <2>2. ASSUME NEW r \in W
        PROVE  r \in SaidAs(told, k)
    <3>1. PICK a \in Track : \E b \in Track : r = <<a, b>>
      BY <1>3
    <3>2. PICK b \in Track : r = <<a, b>>
      BY <3>1
    <3>3. Telling(k, a, b) /\ b < Anchors
      BY <1>3, <3>2, TrackIs
    <3>4. PICK i \in DOMAIN told : told[i].kind = k /\ told[i].from = a /\ told[i].to = b
      BY <1>1, <3>3
    <3> QED
      BY <3>2, <3>4 DEF SaidAs
  <2> QED
    BY <2>1, <2>2
<1>4. /\ Worth(This, GainRuns(This)) \subseteq Track \X Track
      /\ Worth(This, LossRuns(This)) \subseteq Track \X Track
  BY DEF Worth, GainRuns, LossRuns
<1>5. "gain" \in Sides /\ "loss" \in Sides
  BY DEF Sides
<1>6. SaidAs(told, "gain") = Worth(This, GainRuns(This))
  <2>1. \A a, b \in Track : <<a, b>> \in Worth(This, GainRuns(This)) <=> Telling("gain", a, b)
    BY TellingIsWorth
  <2> QED
    BY <1>3, <1>4, <1>5, <2>1
<1>7. SaidAs(told, "loss") = Worth(This, LossRuns(This))
  <2>1. \A a, b \in Track : <<a, b>> \in Worth(This, LossRuns(This)) <=> Telling("loss", a, b)
    BY TellingIsWorth
  <2> QED
    BY <1>3, <1>4, <1>5, <2>1
<1> QED
  BY <1>1, <1>6, <1>7 DEF RunsFor

SectorInv == current \in TrackTimes /\ best \in TrackTimes /\ RunsReported

LEMMA InitSectorInv == InitSectors => SectorInv
<1> SUFFICES ASSUME InitSectors PROVE SectorInv
  OBVIOUS
<1>1. current \in TrackTimes /\ best \in TrackTimes
  BY DEF InitSectors, TrackTimes, Unmeasured
<1>2. RunsFor(saidSectors, compared)
  BY NothingToSay DEF InitSectors
<1> QED
  BY <1>1, <1>2, RunsAre DEF SectorInv

LEMMA StepSectorInv == SectorInv /\ [SectorStep]_sectorVars => SectorInv'
<1> SUFFICES ASSUME SectorInv, [SectorStep]_sectorVars PROVE SectorInv'
  OBVIOUS
<1>1. current \in TrackTimes /\ best \in TrackTimes /\ RunsReported
  BY DEF SectorInv
<1>2. RunsReported' <=> RunsFor(saidSectors', compared')
  BY DEF RunsReported, RunsFor, SaidAs, RunsOf, GainRuns, LossRuns
<1>3. ASSUME NEW b \in Track, NEW time \in SegmentTimes, Cross(b, time)
      PROVE  SectorInv'
  <2>1. current' \in TrackTimes /\ best' \in TrackTimes
    BY <1>1, <1>3, SectorsAssumption DEF Cross, TrackTimes
  <2>2. RunsFor(saidSectors', compared')
    BY <1>3, NothingToSay DEF Cross
  <2> QED
    BY <1>2, <2>1, <2>2 DEF SectorInv
<1>4. ASSUME NEW clean \in BOOLEAN, EndLap(clean)
      PROVE  SectorInv'
  <2>1. current' \in TrackTimes /\ best' \in TrackTimes
    BY <1>1, <1>4 DEF EndLap, TrackTimes, Unmeasured
  <2>2. CASE clean /\ cleanBefore
    <3>1. saidSectors' = Compared /\ compared' = This
      BY <1>4, <2>2 DEF EndLap, This
    <3>2. RunsFor(Compared, This)
      BY <1>1, ComparedTells, ToldAreTheRuns
    <3> QED
      BY <1>2, <2>1, <3>1, <3>2 DEF SectorInv
  <2>3. CASE ~(clean /\ cleanBefore)
    <3>1. saidSectors' = <<>> /\ compared' = NotCompared
      BY <1>4, <2>3 DEF EndLap
    <3> QED
      BY <1>2, <2>1, <3>1, NothingToSay DEF SectorInv
  <2> QED
    BY <2>2, <2>3
<1>5. CASE UNCHANGED sectorVars
  <2>1. /\ current' = current /\ best' = best
        /\ saidSectors' = saidSectors /\ compared' = compared
    BY <1>5 DEF sectorVars
  <2>2. RunsFor(saidSectors, compared)
    BY <1>1, RunsAre
  <2> QED
    BY <1>1, <1>2, <2>1, <2>2 DEF SectorInv
<1> QED
  BY <1>3, <1>4, <1>5 DEF SectorStep
-----------------------------------------------------------------------------
(* The runs of buckets that are reported after a clean lap are exactly the longest     *)
(* stretches that all gained, or all lost, and add up to enough, each once and in the  *)
(* order of the track: however many buckets there are, whatever they took, whatever    *)
(* was not measured, and for any two thresholds.                                       *)
THEOREM RunsAreReported == SectorsSpec => []RunsReported
<1>1. SectorInv => RunsReported
    BY DEF SectorInv
<1> QED BY InitSectorInv, StepSectorInv, <1>1, PTL DEF SectorsSpec
=============================================================================
