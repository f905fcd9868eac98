-------------------------------- MODULE Engine --------------------------------
(***************************************************************************)
(* What NarrativeEngine::process_frame (src/engine.rs) and the pipeline    *)
(* feed with every frame: the events of the session, the two threats, the  *)
(* pairs of cars, the lap bookkeeping, the end of a lap, the incident      *)
(* detector and the micro sectors.  These parts share no state and read    *)
(* nothing of each other, so a behaviour follows one of them, chosen at    *)
(* the start, over all of its frames; the others stay as they begin.       *)
(***************************************************************************)
EXTENDS SessionEvents, Threats, BattlePairs, Laps, LapEnd, Incidents, Sectors

VARIABLE followed

parts == <<sessionVars, threatVars, pairVars, lapVars, lapEndVars, incidentVars, sectorVars>>

Init ==
    /\ InitSessions
    /\ InitThreats
    /\ InitPairs
    /\ InitLaps
    /\ InitLapEnd
    /\ InitIncidents
    /\ InitSectors
    /\ followed \in {"session", "threats", "pairs", "laps", "lap end", "incidents", "sectors"}
    /\ warm => followed = "lap end"

FollowSession ==
    /\ followed = "session"
    /\ SessionStep
    /\ UNCHANGED <<threatVars, pairVars, lapVars, lapEndVars, incidentVars, sectorVars>>

FollowThreats ==
    /\ followed = "threats"
    /\ ThreatStep
    /\ UNCHANGED <<sessionVars, pairVars, lapVars, lapEndVars, incidentVars, sectorVars>>

FollowPairs ==
    /\ followed = "pairs"
    /\ PairStep
    /\ UNCHANGED <<sessionVars, threatVars, lapVars, lapEndVars, incidentVars, sectorVars>>

FollowLaps ==
    /\ followed = "laps"
    /\ LapStep
    /\ UNCHANGED <<sessionVars, threatVars, pairVars, lapEndVars, incidentVars, sectorVars>>

FollowLapEnd ==
    /\ followed = "lap end"
    /\ LapEndStep
    /\ UNCHANGED <<sessionVars, threatVars, pairVars, lapVars, incidentVars, sectorVars>>

FollowIncidents ==
    /\ followed = "incidents"
    /\ IncidentStep
    /\ UNCHANGED <<sessionVars, threatVars, pairVars, lapVars, lapEndVars, sectorVars>>

FollowSectors ==
    /\ followed = "sectors"
    /\ SectorStep
    /\ UNCHANGED <<sessionVars, threatVars, pairVars, lapVars, lapEndVars, incidentVars>>

Next ==
    /\ \/ FollowSession \/ FollowThreats \/ FollowPairs \/ FollowLaps
       \/ FollowLapEnd \/ FollowIncidents \/ FollowSectors
    /\ UNCHANGED followed

Spec == Init /\ [][Next]_<<parts, followed>>
=============================================================================
