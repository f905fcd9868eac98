------------------------------- MODULE LapEnd --------------------------------
(***************************************************************************)
(* The end of a lap in NarrativeEngine::process_frame                      *)
(* (src/engine.rs:591-829): the classification of the rivals, then the     *)
(* estimators of the own car, then the vulnerability alert, all told the   *)
(* same about the lap that is done.  The detectors over the whole field,   *)
(* called in between, are not modelled.                                    *)
(***************************************************************************)
EXTENDS Stint, Rivals

lapEndVars == <<stintVars, rivalVars>>

InitLapEnd == InitStint /\ InitRivals

\* classify, on_lap_end, on_lap_crossing twice, tick.
LapDone(i, ahead, behind, level) ==
    /\ LapOfStint(i)
    /\ LapOfRivals(ahead, behind, level, i.kind = "pit")

LapEndStep ==
    \E i \in LapInputs, ahead, behind \in Opponents \cup {NoOpponent}, level \in Levels :
        LapDone(i, ahead, behind, level)

LapEndSpec == InitLapEnd /\ [][LapEndStep]_lapEndVars
-----------------------------------------------------------------------------
(* Alerts and resolutions alternate and name nothing twice, an alert is only raised on  *)
(* a lap that has a rival behind, and none survives a pit lap.                         *)
AlertsPaired ==
    [][/\ saidRivals'.alert = "raised" => ~alertTold /\ engineState'["behind"] # "idle"
       /\ saidRivals'.alert = "resolved" => alertTold
       /\ since' = 0 => ~alertTold']_lapEndVars
=============================================================================
