------------------------------- MODULE Rivals --------------------------------
(***************************************************************************)
(* What the end of a lap tells of the rivals ahead and behind: the trend   *)
(* classification (classify of src/battle_state.rs, src/engine.rs:645-692, *)
(* 694-744) and the vulnerability alert (src/vulnerability.rs).            *)
(*                                                                         *)
(* The regression over the gaps at the anchors is an input: for each       *)
(* direction the rival with the steepest median slope, if any car has      *)
(* enough readings, with its slope in hundredths of a second per lap and   *)
(* the number of buckets it rests on.  Of the vulnerability the model      *)
(* keeps on which side of the two thresholds it is.  The history of each   *)
(* opponent (src/car_registry.rs) only gives numbers of the payload.       *)
(***************************************************************************)
EXTENDS Integers

CONSTANTS
    Rivals,              \* the opponents' car numbers
    NoRival, NoSlope,    \* nobody near; no slope seen yet
    Slopes,              \* median slopes, hundredths of a second per lap
    Buckets,             \* numbers of buckets with a slope, MIN_PUSH_READINGS or more
    PushSlope, AttackSlope,      \* PUSH_SLOPE_THRESHOLD, ATTACK_SLOPE_THRESHOLD
    PushReadings, AttackReadings

ASSUME RivalsAssumption ==
    /\ NoRival \notin Rivals /\ NoSlope \notin Slopes
    /\ Slopes \subseteq Int /\ Buckets \subseteq Nat
    /\ \A n \in Buckets : n >= PushReadings

VARIABLES
    engineState,         \* per direction: engine_state, defensive_state
    prevSlope,           \* per direction: prev_slope, prev_slope_beh
    alert,               \* alert_active
    saidRivals,
    alertTold            \* for the properties: an alert was said and not resolved

rivalVars == <<engineState, prevSlope, alert, saidRivals, alertTold>>

Directions == {"ahead", "behind"}
BattleStates == {"idle", "tracking", "push", "attack"}
NoOpponent == [car |-> NoRival, slope |-> NoSlope, n |-> 0]
Opponents == [car : Rivals, slope : Slopes, n : Buckets]
Quiet == [closing |-> {}, alert |-> "none"]

InitRivals ==
    /\ engineState = [d \in Directions |-> "idle"]
    /\ prevSlope = [d \in Directions |-> NoSlope]
    /\ alert = FALSE
    /\ saidRivals = Quiet
    /\ alertTold = FALSE
-----------------------------------------------------------------------------
\* classify: a pit lap has no rival, whatever the readings are.
Seen(rival, pit) == IF pit THEN NoOpponent ELSE rival
Accelerates(d, rival) == prevSlope[d] # NoSlope /\ rival.slope < prevSlope[d]
Attacks(d, rival) ==
    /\ rival.slope <= AttackSlope
    /\ rival.n >= AttackReadings
    /\ Accelerates(d, rival)
Pushes(rival) == rival.slope <= PushSlope /\ rival.n >= PushReadings
StateFor(d, rival) ==
    IF rival.car = NoRival THEN "idle"
    ELSE IF Attacks(d, rival) THEN "attack"
    ELSE IF Pushes(rival) THEN "push" ELSE "tracking"

\* BATTLE_CLOSING is said of a change only, for either direction.
SaysClosing(d, state) == state # engineState[d] /\ state \in {"push", "attack"}

\* VulnerabilityDetector::tick: without a rival behind, fuel alone stays below both
\* thresholds.
Levels == {"calm", "between", "critical"}
LevelOf(rival, level) == IF rival.car = NoRival THEN "calm" ELSE level
AlertSaid(level, pit) ==
    CASE alert /\ (pit \/ level = "calm") -> "resolved"
      [] ~alert /\ ~pit /\ level = "critical" -> "raised"
      [] OTHER -> "none"
AlertLeftByPit(level, pit) ==
    CASE AlertSaid(level, pit) = "raised" -> TRUE
      [] AlertSaid(level, pit) = "resolved" -> pit
      [] OTHER -> alert
AlertAfter(level, pit) ==
    CASE AlertSaid(level, pit) = "raised" -> TRUE
      [] AlertSaid(level, pit) = "resolved" -> FALSE
      [] OTHER -> alert

(* The forward direction is classified first, then the defensive one; the alert comes *)
(* last and names the rival behind.                                                   *)
LapOfRivals(ahead, behind, level, pit) ==
    LET rival == [d \in Directions |->
                       Seen(IF d = "ahead" THEN ahead ELSE behind, pit)]
        state == [d \in Directions |-> StateFor(d, rival[d])]
        danger == LevelOf(rival["behind"], level)
    IN  /\ engineState' = state
        /\ prevSlope' = [d \in Directions |->
                            IF rival[d].car = NoRival THEN prevSlope[d] ELSE rival[d].slope]
        /\ alert' = AlertAfter(danger, pit)
        /\ saidRivals' = [closing |-> {d \in Directions : SaysClosing(d, state[d])},
                          alert |-> AlertSaid(danger, pit)]
        /\ alertTold' = CASE saidRivals'.alert = "raised" -> TRUE
                          [] saidRivals'.alert = "resolved" -> FALSE
                          [] OTHER -> alertTold
=============================================================================
