-------------------------------- MODULE Labels --------------------------------
(***************************************************************************)
(* What is written on the events: the pipeline of src/bin/publisher.rs     *)
(* once more, this time for who and what its events name.                  *)
(*                                                                         *)
(* Names, ids and session types come out of SessionInfo, which iRacing     *)
(* replaces at its own time; the frames come from another part of the      *)
(* shared memory.  Between two reads the pipeline labels its events with   *)
(* what it kept: the id, the roster and the metadata of the last text that *)
(* could be read.  Module Publisher has the order of the events and what   *)
(* is flushed when; here an event is only looked at when it is enqueued.   *)
(***************************************************************************)
EXTENDS Envelope

CONSTANTS
    Weekend,             \* the types of the sessions of a sub-session, by SessionNum
    AiSessions,          \* the sub-sessions against an AI roster
    Named,               \* the sets of cars that a text may name
    Reported,            \* bound: the kinds of events that the engine reports
    HeldCap,             \* cap of pending_events
    MaxSubSessions,      \* bound: sub-sessions iRacing goes through
    MaxUpdates,          \* bound: SessionInfo updates
    MaxDay               \* bound: midnights in UTC

SubSessions == 1..MaxSubSessions
Nums == 0..(Len(Weekend) - 1)

ASSUME LabelsAssumption ==
    /\ MaxSubSessions \in 1..(FirstSynthetic - 1)
    /\ MaxUpdates \in Nat /\ MaxDay \in Nat
    /\ HeldCap \in Nat
    /\ Weekend \in Seq(STRING \ {NoType}) /\ Weekend # <<>>
    /\ AiSessions \subseteq SubSessions /\ Named \subseteq SUBSET Cars

VARIABLES
    sim,                 \* iRacing: the sub-session, its SessionNum, the update, the day
    text,                \* what SessionInfo says
    pc,                  \* where the pipeline is in the frame
    frame,               \* the frame in hand: SessionNum and update
    subSession,          \* sub_session_id
    lastNum,             \* last_session_num
    roster,              \* roster_cache
    meta,                \* session_type of current_session_meta
    held,                \* pending_events
    out,                 \* the envelopes that this step enqueued
    informed             \* for the properties: the last read that was due succeeded,
                         \* and found a complete text

iRacing == <<sim, text>>
kept == <<subSession, lastNum, roster, meta, informed>>
vars == <<iRacing, pc, frame, kept, held, out>>

NoNum == -1
NoFrame == [num |-> NoNum, tick |-> NoTick]

\* What a text of sub-session s may be: with its id after a placeholder or only with
\* that, as always against an AI roster; complete, cut short or malformed.  Of a text
\* that a parser does not take, what that parser looks for does not matter.
Texts(s) ==
    LET ids == IF s \in AiSessions THEN {<<0>>} ELSE {<<0>>, <<0, s>>}
    IN  {t \in [ids : ids, ai : {s \in AiSessions}, track : {s},
                read : SUBSET {"drivers", "sessions"}, named : Named \cup {{}},
                types : {Weekend, <<Weekend[1]>>}] :
            /\ IF "drivers" \in t.read THEN t.named \in Named ELSE t.named = {}
            /\ "sessions" \notin t.read => t.types = Weekend}
Complete(t) == "sessions" \in t.read /\ t.types = Weekend

\* The ids that a text of sub-session s may be given.
IdsOf(s) ==
    IF s \in AiSessions THEN {SyntheticId(s, day) : day \in 0..MaxDay} ELSE {s}

Init ==
    /\ sim = [session |-> 1, num |-> 0, tick |-> 0, day |-> 0]
    /\ text \in Texts(1)
    /\ pc = "wait"
    /\ frame = NoFrame
    /\ subSession = NoId
    /\ lastNum = NoNum
    /\ roster = NewRoster
    /\ meta = NoType
    /\ held = <<>>
    /\ out = {}
    /\ informed = FALSE
-----------------------------------------------------------------------------
\* iRacing goes on between two frames, and between a frame and the read after it.
Between == pc \in {"wait", "frame"}
pipeline == <<pc, frame, kept, held>>

NewText(s) ==
    /\ sim.tick < MaxUpdates
    /\ text' \in Texts(s)

SimPublishes ==
    /\ Between
    /\ NewText(sim.session)
    /\ sim' = [sim EXCEPT !.tick = @ + 1]
    /\ out' = {}
    /\ UNCHANGED pipeline

SimNextSession ==
    /\ Between
    /\ sim.num + 1 \in Nums
    /\ sim' = [sim EXCEPT !.num = @ + 1]
    /\ out' = {}
    /\ UNCHANGED <<text, pipeline>>

SimNextSubSession ==
    /\ Between
    /\ sim.session < MaxSubSessions
    /\ NewText(sim.session + 1)
    /\ sim' = [sim EXCEPT !.session = @ + 1, !.num = 0, !.tick = @ + 1]
    /\ out' = {}
    /\ UNCHANGED pipeline

\* Midnight matters to an AI session alone: no other id has the day in it.
Midnight ==
    /\ Between
    /\ sim.session \in AiSessions
    /\ sim.day < MaxDay
    /\ sim' = [sim EXCEPT !.day = @ + 1]
    /\ out' = {}
    /\ UNCHANGED <<text, pipeline>>
-----------------------------------------------------------------------------
Positions == [Cars -> 0..2]
Context(id, type) == [id |-> id, type |-> type]
\* A frame tells who is in front, by the race positions; 0 is none.  The events that do
\* not ask are built for any frame.
Level == [c \in Cars |-> 0]
BuiltNow(event) == Built(event, Level, roster, Context(subSession, meta))

TakeFrame ==
    /\ pc = "wait"
    /\ frame' = [num |-> sim.num, tick |-> sim.tick]
    /\ pc' = "frame"
    /\ out' = {}
    /\ UNCHANGED <<iRacing, kept, held>>

\* Whether the session clock of the frame is behind the last one, which is kept from the
\* adoption of an id on.
Restarts == IF subSession > 0 THEN BOOLEAN ELSE {FALSE}
MustReadOnUpdate(restarted) == restarted \/ NeedsUpdate(roster, frame.tick)
MustRead(restarted) ==
    lastNum # frame.num \/ restarted \/ NeedsUpdate(roster, frame.tick)
MayBeDue == {MustRead(restarted) : restarted \in Restarts}

NoRead ==
    /\ pc = "frame"
    /\ FALSE \in MayBeDue
    /\ pc' = "events"
    /\ out' = {}
    /\ UNCHANGED <<iRacing, frame, kept, held>>

ReadFails ==
    /\ pc = "frame"
    /\ TRUE \in MayBeDue
    /\ pc' = "events"
    /\ informed' = FALSE
    /\ out' = {}
    /\ UNCHANGED <<iRacing, frame, subSession, lastNum, roster, meta, held>>

\* Another id: GOODBYE and SESSION_RESET when one was known, built without roster and
\* metadata; nothing that was held is kept.
Adopts(id) == id # NoId /\ id # subSession
Farewell(id) ==
    IF Adopts(id) /\ subSession > 0
    THEN {Built(e, Level, NewRoster, Context(id, NoType)) :
            e \in {RigEvent, SessionEvent}}
    ELSE {}
RosterKept(id) == roster
RosterToUpdate(id) == IF Adopts(id) THEN NewRoster ELSE roster
HeldToRelease(id) == IF Adopts(id) THEN <<>> ELSE held

\* A held event goes out once its car has a name, with the name in its car; the subject
\* and the payload are as they were built.
Relabelled(h, known) == [h EXCEPT !.car = Resolved(h.car.car, known)]
Waits(h, id, known) == id = NoId \/ ~Names(known, h.car.car)
Waiting(id, known) ==
    {i \in DOMAIN HeldToRelease(id) : Waits(HeldToRelease(id)[i], id, known)}
ReleasedOnResolution(id, known) ==
    {Relabelled(HeldToRelease(id)[i], known) :
        i \in {i \in DOMAIN HeldToRelease(id) : id > 0}}
Released(id, known) ==
    {Relabelled(HeldToRelease(id)[i], known) :
        i \in DOMAIN HeldToRelease(id) \ Waiting(id, known)}

\* IRACING_CONNECTED and HELLO, with the new roster and metadata.
Opening(id, known, type) ==
    IF Adopts(id)
    THEN {Built(RigEvent, Level, known, Context(id, type))}
    ELSE {}

\* SessionInfo is read: what it says replaces id, roster and metadata, in this order.
Refresh ==
    /\ pc = "frame"
    /\ TRUE \in MayBeDue
    /\ LET found == SubSessionId(text, sim.day)
           id == IF found = NoId THEN subSession ELSE found
           known == Updated(RosterToUpdate(id), frame.tick, text)
           type == SessionType(text, frame.num)
       IN  /\ subSession' = id
           /\ roster' = known
           /\ meta' = type
           /\ held' \in Picked(HeldToRelease(id), Waiting(id, known))
           /\ out' = Farewell(id) \cup Released(id, known) \cup Opening(id, known, type)
    /\ lastNum' = frame.num
    /\ informed' = Complete(text)
    /\ pc' = "events"
    /\ UNCHANGED <<iRacing, frame>>

\* The session clock restarted or the session changed its state: told with what is known.
SessionEvents ==
    /\ pc = "events"
    /\ subSession > 0
    /\ out' = {BuiltNow(SessionEvent)}
    /\ UNCHANGED <<iRacing, pipeline>>

\* One event of process_frame: enqueued, or held while its car has no name.
EngineEvent ==
    /\ pc = "events"
    /\ \E event \in {e \in EngineEvents : e.kind \in Reported} :
       \E position \in IF event.kind = "battle" THEN Positions ELSE {Level} :
        LET envelope == Built(event, position, roster, Context(subSession, meta))
        IN  IF Postable(envelope)
            THEN out' = {envelope} /\ UNCHANGED held
            ELSE /\ out' = {}
                 /\ held' = IF Len(held) < HeldCap THEN Append(held, envelope) ELSE held
    /\ UNCHANGED <<iRacing, pc, frame, kept>>

\* The heartbeat; a request, once the roster names the driver; driver material, which is
\* dropped when it does not.
Timers ==
    /\ pc = "events"
    /\ subSession > 0
    /\ \/ out' = {BuiltNow(RigEvent)}
       \/ Names(roster, Player) /\ \E event \in DriverEvents : out' = {BuiltNow(event)}
    /\ UNCHANGED <<iRacing, pipeline>>

FrameDone ==
    /\ pc = "events"
    /\ pc' = "wait"
    /\ frame' = NoFrame
    /\ out' = {}
    /\ UNCHANGED <<iRacing, kept, held>>

\* iRacing went away and is back: nothing is kept.
Reattach ==
    /\ pc = "wait"
    /\ sim.tick < MaxUpdates
    /\ sim' = [sim EXCEPT !.tick = @ + 1]
    /\ subSession' = NoId
    /\ lastNum' = NoNum
    /\ roster' = NewRoster
    /\ meta' = NoType
    /\ held' = <<>>
    /\ informed' = FALSE
    /\ out' = IF subSession > 0 THEN {BuiltNow(RigEvent)} ELSE {}
    /\ UNCHANGED <<text, pc, frame>>

Pipeline ==
    \/ TakeFrame \/ NoRead \/ ReadFails \/ Refresh
    \/ SessionEvents \/ EngineEvent \/ Timers \/ FrameDone \/ Reattach

Next == SimPublishes \/ SimNextSession \/ SimNextSubSession \/ Midnight \/ Pipeline

Spec == Init /\ [][Next]_vars
-----------------------------------------------------------------------------
(* Nobody is given the name of a driver of a sub-session that is over: whoever is named *)
(* on an event, as its car, its subject or elsewhere, held or not, is named by the      *)
(* SessionInfo of the sub-session whose id the event goes out under, or of a later one. *)
(* (A later one: until its text has its id, its events go out under the departed id.)   *)
References(envelope) == {envelope.car, envelope.subject} \cup envelope.others
NotBefore(name, id) == \A s \in SubSessions : id \in IdsOf(s) => name = Unnamed \/ name >= s
NamesNotOlder ==
    \A envelope \in out : \A ref \in References(envelope) : NotBefore(ref.name, envelope.id)

(* The type that the events of a frame give for the session is the one of the session *)
(* number beside it, unless the last read that was due failed or found a text that was *)
(* not complete.                                                                       *)
TypeOfItsNumber ==
    pc = "events" /\ informed => meta = Weekend[frame.num + 1]

(* No car-scoped event is enqueued whose car has no driver name, "server rejects       *)
(* car-scoped events with an empty driverName", and none waits that could go.          *)
NamedWhenPosted ==
    /\ \A envelope \in out : Postable(envelope)
    /\ pc = "events" /\ subSession > 0 =>
        \A i \in DOMAIN held : ~Names(roster, held[i].car.car)

(* docs/publisher-event-contract.md:65, "The car an event is about is always named":   *)
(* an event with a subject says who its driver is.                                     *)
SubjectNamed ==
    \A envelope \in out :
        envelope.subject # NoRef /\ Scope(envelope.kind) = "CAR_SCOPED" =>
            envelope.subject.name # Unnamed

(* session_info.rs:418, the synthetic id of an AI session "stays constant for the      *)
(* lifetime of a single session": while iRacing stays in one, a known id is kept.      *)
AiSessionKept ==
    [][sim'.session = sim.session /\ sim.session \in AiSessions
       /\ subSession >= FirstSynthetic /\ subSession' # NoId
       => subSession' = subSession]_vars
=============================================================================
