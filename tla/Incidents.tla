------------------------------ MODULE Incidents ------------------------------
(***************************************************************************)
(* The registry of cars and the incident detector that reads it, as        *)
(* process_frame calls them in every frame (src/engine.rs:266-280):        *)
(* CarRegistry::update_from_frame (src/car_registry.rs), then              *)
(* BasicIncidentDetector::update (src/basic_incident.rs).                  *)
(*                                                                         *)
(* One car is followed, the publisher's own: every other car takes the     *)
(* same steps, apart from the incident points.  The registry smooths the   *)
(* speed of a car and drops a car that had no position for a minute; the   *)
(* detector keeps what it last saw of a car for ever.  A speed is in m/s,  *)
(* rounded down; its progress on the track in a frame is an input.         *)
(***************************************************************************)
EXTENDS Integers, FiniteSets

CONSTANTS
    Speeds,              \* what the progress of one frame amounts to
    Jump,                \* a jump faster than MAX_PLAUSIBLE_SPEED_MPS
    Expiry,              \* frames without a position before a car is dropped, 60 s
    DropLimit, MovingLimit       \* SPEED_DROP_THRESHOLD_MPS; MIN_PREV_SPEED_MPS

ASSUME IncidentsAssumption ==
    /\ Speeds \subseteq Nat /\ Jump \notin Speeds
    /\ Expiry \in Nat \ {0}
    /\ DropLimit \in Nat \ {0, 1} /\ MovingLimit \in Nat \ {0}

VARIABLES
    car,                 \* the slot of the registry, or Gone
    unseen,              \* frames since the car had a position
    snapshot,            \* last_snapshot of the car, or Gone
    alerted,             \* the car is in active_alerts
    counted,             \* last_player_incident_count is known
    said,                \* INCIDENT_ALERT: its reasons, and one for points alone
    measured,            \* for the properties: the speed of the car in the last frame as
                         \* its progress has it, NotMeasured if that says nothing
    drove                \* for the properties: the car has been driving since it was last
                         \* on pit road or out of the world

incidentVars == <<car, unseen, snapshot, alerted, counted, said, measured, drove>>

OutOfWorld == -1
OffTrack == 0
OnTrack == 1
Surfaces == {OutOfWorld, OffTrack, OnTrack}
NotMeasured == -1
Gone == [surface |-> OutOfWorld, pit |-> FALSE, speed |-> -1]

InitIncidents ==
    /\ car = Gone
    /\ unseen = 0
    /\ snapshot = Gone
    /\ alerted = FALSE
    /\ counted = FALSE
    /\ said = {}
    /\ measured = NotMeasured
    /\ drove = FALSE
-----------------------------------------------------------------------------
(* A frame has the car with a position or without one; "tick" is false when the session *)
(* tick did not advance.                                                                 *)
CarFrames == [surface : Surfaces, pit : BOOLEAN, raw : Speeds \cup {Jump}, tick : BOOLEAN]

Visible(f) == f.surface # OutOfWorld /\ car.surface # OutOfWorld

\* The speed: a tenth of the new one and nine of the old one; none for a car that is new
\* or that is out of the world before or after.
KeepsSpeed(f) == ~f.tick \/ (Visible(f) /\ f.raw = Jump)
Smoothed(raw) == IF car.speed = 0 THEN raw ELSE (raw + 9 * car.speed) \div 10
Speed(f) ==
    IF car = Gone THEN 0
    ELSE IF KeepsSpeed(f) THEN car.speed
    ELSE IF Visible(f) THEN Smoothed(f.raw) ELSE 0

(* The incident of one car: its state against that of the last time it was looked at, *)
(* which is long ago when it was dropped from the registry in between.                *)
InWorld(old, new) == old.surface # OutOfWorld /\ new.surface # OutOfWorld
OffPitsNow(old, new) == ~new.pit
OffPits(old, new) == ~old.pit /\ ~new.pit
Drives(c) == c.speed >= MovingLimit
Severe(old, new) ==
    /\ InWorld(old, new) /\ Drives(old)
    /\ old.speed - new.speed >= DropLimit
    /\ 10 * new.speed <= 8 * old.speed
WentOff(old, new) ==
    /\ InWorld(old, new) /\ Drives(old)
    /\ old.surface = OnTrack /\ new.surface = OffTrack
    /\ 10 * (old.speed - new.speed) >= old.speed
Reasons(old, new) ==
    IF old = Gone \/ ~OffPits(old, new) THEN {}
    ELSE (IF Severe(old, new) THEN {"speed_drop"} ELSE {})
         \cup (IF WentOff(old, new) THEN {"surface_drop"} ELSE {})

\* An alert is said at the edge of the condition, and not again while it lasts.
AlertOf(new) == IF alerted THEN {} ELSE Reasons(snapshot, new)

\* Points alone are told when the car is not alerted of in this frame, and drives.
PointsOf(new, points) ==
    LET old == IF snapshot = Gone THEN new ELSE snapshot
    IN  IF /\ points /\ counted
           /\ AlertOf(new) = {}
           /\ InWorld(old, new) /\ OffPits(old, new)
           /\ Drives(old) \/ Drives(new)
        THEN {"incident_count_increase"} ELSE {}

OnTheRoad(c) == c.surface # OutOfWorld /\ ~c.pit

\* BasicIncidentDetector::update over a registry that has the car in the state new.
Detect(new, points) ==
    /\ snapshot' = new
    /\ alerted' = IF snapshot = Gone THEN alerted ELSE Reasons(snapshot, new) # {}
    /\ counted' = TRUE
    /\ said' = AlertOf(new) \cup PointsOf(new, points)
    /\ drove' = (OnTheRoad(new) /\ (drove \/ Drives(new)))

\* process_frame, the car has a position.
Measures(f) == car # Gone /\ Visible(f) /\ f.raw # Jump
Placed(f, points) ==
    LET new == [surface |-> f.surface, pit |-> f.pit, speed |-> Speed(f)]
    IN  /\ car' = new
        /\ unseen' = 0
        /\ measured' = IF ~f.tick THEN measured ELSE IF Measures(f) THEN f.raw ELSE NotMeasured
        /\ Detect(new, points)

\* The car has no position: it stays as it was last seen, for a minute.
Unplaced(points) ==
    /\ car # Gone /\ unseen < Expiry
    /\ unseen' = unseen + 1
    /\ measured' = NotMeasured
    /\ Detect(car, points)
    /\ UNCHANGED car

Dropped ==
    /\ car # Gone /\ unseen = Expiry
    /\ car' = Gone
    /\ unseen' = 0
    /\ counted' = TRUE
    /\ said' = {}
    /\ measured' = NotMeasured
    /\ UNCHANGED <<snapshot, alerted, drove>>

Absent ==
    /\ car = Gone
    /\ counted' = TRUE
    /\ said' = {}
    /\ UNCHANGED <<car, unseen, snapshot, alerted, measured, drove>>

IncidentStep ==
    \/ \E f \in CarFrames, points \in BOOLEAN : Placed(f, points)
    \/ \E points \in BOOLEAN : Unplaced(points)
    \/ Dropped
    \/ Absent

IncidentsSpec == InitIncidents /\ [][IncidentStep]_incidentVars
-----------------------------------------------------------------------------
(* Nobody is alerted of for leaving its stall or for being put back on the track: a car *)
(* that is alerted of, in whatever frames it was seen, has been driving since it was    *)
(* last on pit road or out of the world.                                                *)
AlertsOfDrivers == said # {} => drove

(* docs/race-events-emission-report.md:551, an alert is of a "severe speed drop (`drop *)
(* >= 8.0 m/s` and speed ratio <= 0.80)": when the speed of a car that drives on the   *)
(* track drops so from one frame to the next, it is alerted of, unless it is already.  *)
SpeedDrops ==
    /\ ~alerted
    /\ {measured, measured'} \subseteq Speeds
    /\ OnTheRoad(car) /\ OnTheRoad(car')
    /\ measured >= MovingLimit
    /\ measured - measured' >= DropLimit /\ 10 * measured' <= 8 * measured
=============================================================================
