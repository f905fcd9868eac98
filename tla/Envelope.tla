------------------------------- MODULE Envelope -------------------------------
(***************************************************************************)
(* The envelope that src/publisher_event.rs puts around an event of        *)
(* src/race_event.rs: its scope, the car it is about, the roles of the     *)
(* cars in it, and who they are according to the roster at that moment.    *)
(*                                                                         *)
(* An event is its kind and the cars its fields hold, in the order of the  *)
(* fields: at most two.  Kinds that are treated alike share a name.  Of    *)
(* the rest of the payload only references to cars are kept.               *)
(***************************************************************************)
EXTENDS SessionInfo

CONSTANTS
    Cars,                \* the cars in the field
    Player               \* the one the rig is in

ASSUME PlayerAssumption == Player \in Cars

\* The kinds of RaceEventKind, by how they are treated.
SessionKinds == {
    "session"            \* green, checkered, full course yellow, reset, state
}
RigKinds == {
    "rig"                \* hello, goodbye, heartbeat, connected, disconnected, control
}
CarKinds == {
    "battle",            \* BattleEngaged, -Broken, -Closing: the opponent
    "horizon",           \* HorizonClosing, -Resolved: attacker, defender
    "vulnerability",     \* VulnerabilityAlert, -Resolved: attacker, defender
    "traffic",           \* TrafficIntercept, TrafficCompressionZone
    "overtake",          \* Overtake, OvertakeForLead: the car, the overtaken one
    "alert",             \* IncidentAlert: the car
    "cluster",           \* IncidentCluster: the first two of its cars
    "resolved",          \* IncidentClusterResolved
    "yellow",            \* FlagYellowLocal: what caused it
    "driver",            \* FocusMeRequested
    "material",          \* DriverMaterial: the cars ahead and behind
    "own"                \* laps, pit, tyres, fuel, micro-sectors, in and out of the car
}
Scope(kind) ==
    CASE kind \in SessionKinds -> "SESSION_SCOPED"
      [] kind \in RigKinds -> "RIG_SCOPED"
      [] kind \in CarKinds -> "CAR_SCOPED"

NoCar == "none"
Slots == Cars \cup {NoCar}

\* RaceEvent: the cars that the fields of an event may hold.  BattleEvents, FlagEvents,
\* OwnEvents and FieldEvents come from process_frame, DriverEvents from a request and
\* from the cadence timer.
Pairs == {p \in Cars \X Cars : p[1] # p[2]}
Alone(kinds, cars) == [kind : kinds, a : cars, b : {NoCar}]
Together(kinds, pairs) == {[kind |-> k, a |-> p[1], b |-> p[2]] : k \in kinds, p \in pairs}
BattleEvents == Alone({"battle"}, Cars \ {Player}) \cup Together({"horizon"}, Pairs)
FlagEvents == Alone({"session"}, {NoCar}) \cup Alone({"yellow"}, Slots)
OwnEvents == Alone({"own"}, {NoCar}) \cup Together({"overtake"}, {Player} \X (Slots \ {Player}))
FieldEvents ==
    Alone({"alert"}, Cars)
    \cup Alone({"resolved"}, {NoCar})
    \cup Together({"traffic"}, Pairs)
    \cup Together({"vulnerability"}, (Cars \ {Player}) \X {Player})
    \cup Together({"cluster"}, Pairs \cup (Cars \X {NoCar}))
EngineEvents == BattleEvents \cup FlagEvents \cup OwnEvents \cup FieldEvents
DriverEvents == Alone({"driver"}, {NoCar}) \cup Together({"material"}, Slots \X Slots)
SessionEvent == [kind |-> "session", a |-> NoCar, b |-> NoCar]
RigEvent == [kind |-> "rig", a |-> NoCar, b |-> NoCar]

(* Who is in front: with a position of 0, which is none, and with equal positions the *)
(* player counts as the leader.                                                       *)
OpponentLeads(position, opponent) ==
    /\ position[opponent] > 0
    /\ position[Player] > 0
    /\ position[opponent] < position[Player]
LeaderFollower(position, opponent) ==
    IF OpponentLeads(position, opponent)
    THEN [leader |-> opponent, follower |-> Player]
    ELSE [leader |-> Player, follower |-> opponent]

\* event_roles.
Duel(attacker, defender) ==
    [role |-> "ATTACKER", subject |-> attacker, attacker |-> attacker, defender |-> defender]
Defence(defender, attacker) ==
    [role |-> "DEFENDER", subject |-> defender, attacker |-> attacker, defender |-> defender]
Solo(car, role) == [role |-> role, subject |-> car, attacker |-> NoCar, defender |-> NoCar]
Roles(event, position) ==
    CASE event.kind = "battle" ->
           LET pair == LeaderFollower(position, event.a) IN Duel(pair.follower, pair.leader)
      [] event.kind \in {"horizon", "traffic", "overtake"} -> Duel(event.a, event.b)
      [] event.kind = "vulnerability" -> Defence(event.b, event.a)
      [] event.kind = "alert" -> Solo(event.a, "INCIDENT")
      [] event.kind = "cluster" ->
           Solo(IF event.a # NoCar THEN event.a ELSE event.b, "INCIDENT")
      [] event.kind = "resolved" -> Solo(NoCar, "INCIDENT")
      [] event.kind = "yellow" -> Solo(event.a, "TRIGGER")
      [] event.kind = "session" -> Solo(NoCar, "SESSION")
      [] event.kind = "rig" -> Solo(Player, "RIG")
      [] OTHER -> Solo(Player, "DRIVER")

\* primary_car_idx: the opponent, or the car of the incident; all others are kept under
\* the car of the rig.
PrimaryCar(event) == IF event.kind \in {"battle", "alert"} THEN event.a ELSE Player

\* resolve_car: a car the roster does not know is a stub with an empty name.
Unnamed == -1
NoRef == [car |-> NoCar, name |-> Unnamed]
Resolved(car, roster) ==
    [car |-> car, name |-> IF Names(roster, car) THEN roster.of ELSE Unnamed]
Reference(car, roster) == IF car = NoCar THEN NoRef ELSE Resolved(car, roster)

\* enrich_payload: the cars that the payload spells out, apart from the roles; and
\* insert_identity: the rig and the two sides.
Sides(event) == IF event.kind = "battle" THEN {event.a, Player} ELSE {}
Involved(event) ==
    IF event.kind \in {"horizon", "traffic", "overtake", "cluster", "yellow", "material"}
    THEN {event.a, event.b} \ {NoCar}
    ELSE {}
Identified(roles) == {Player, roles.attacker, roles.defender} \ {NoCar}

\* build_event: everybody in it is looked up in the same roster.
Built(event, position, roster, context) ==
    LET roles == Roles(event, position)
        everybody == Sides(event) \cup Involved(event) \cup Identified(roles)
    IN  [kind |-> event.kind,
         id |-> context.id, type |-> context.type,
         car |-> IF Scope(event.kind) = "CAR_SCOPED"
                 THEN Resolved(PrimaryCar(event), roster)
                 ELSE NoRef,
         role |-> roles.role,
         subject |-> Reference(roles.subject, roster),
         others |-> {Resolved(c, roster) : c \in everybody}]

\* The check of the pipeline: the server takes no car-scoped event without a name.
Postable(envelope) ==
    Scope(envelope.kind) = "CAR_SCOPED" => envelope.car.name # Unnamed
=============================================================================
