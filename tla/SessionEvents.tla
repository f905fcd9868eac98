--------------------------- MODULE SessionEvents ---------------------------
(***************************************************************************)
(* What the consumer is told of the session itself, frame by frame: the    *)
(* SESSION_STATE events of SessionLifecycleTracker                         *)
(* (src/session_lifecycle.rs) and the green, checkered, yellow and in-car  *)
(* events at the head of NarrativeEngine::process_frame (src/engine.rs).   *)
(*                                                                         *)
(* Both see the same frames.  The tracker is fed only while the            *)
(* sub-session is known, and with a session type that may be the one of    *)
(* an earlier session until SessionInfo can be read again.  Both are       *)
(* replaced when another sub-session is adopted or iRacing starts again,   *)
(* and at no other time: the sessions of a weekend (practice, qualifying,  *)
(* race) share one sub-session.                                            *)
(***************************************************************************)
EXTENDS Integers, FiniteSets

CONSTANTS
    MaxNum,              \* bound: highest SessionNum of a sub-session
    KindOf,              \* the kind of session each SessionNum is
    States,              \* the SessionState values a frame may show
    FlagSets,            \* the sets of session flags a frame may show
    MaxSubSessions       \* bound: sub-sessions, and attaches to one

Invalid == 0
GetInCar == 1
Warmup == 2
ParadeLaps == 3
Racing == 4
Checkered == 5
CoolDown == 6
Kinds == {"practice", "qualifying", "race", "unknown"}
Flags == {"checkered", "yellow_wave", "caution"}

ASSUME SessionsAssumption ==
    MaxNum \in Nat /\ KindOf \in [0..MaxNum -> Kinds] /\ MaxSubSessions \in Nat \ {0}
ASSUME FramesAssumption ==
    States \subseteq Invalid..CoolDown /\ FlagSets \subseteq SUBSET Flags

VARIABLES
    frame,               \* the frame just handled, NoFrame before the first
    resolved,            \* sub_session_id > 0
    sessionType,         \* session_type of current_session_meta
    tracker,             \* SessionLifecycleTracker
    engine,              \* the flags of NarrativeEngine
    events,              \* what this frame made them say
    subSessions,         \* engines so far
    told,                \* for the properties: the picture the consumer has
    warned,              \* for the properties: told of this session's end
    flown                \* for the properties: the sessions of this engine that were
                         \* flagged off, and those RACE_CHECKERED was said in

history == <<told, warned, flown>>
sessionVars == <<frame, resolved, sessionType, tracker, engine, events, subSessions, history>>

None == "none"
NoNum == -1
Frames == [num : 0..MaxNum, state : States, flags : FlagSets, ending : BOOLEAN]
NoFrame == [num |-> NoNum, state |-> Invalid, flags |-> {}, ending |-> FALSE]

\* SessionKind::from_session_type and SessionPhase::derive.
Kind(type) == IF type = None THEN "unknown" ELSE type
Phase(kind, state) ==
    CASE state = Invalid -> "PENDING"
      [] state = CoolDown -> "COOL_DOWN"
      [] kind = "race" /\ state \in {GetInCar, Warmup} -> "RACE_GRIDDING"
      [] kind \in {"race", "unknown"} /\ state = ParadeLaps -> "RACE_FORMATION"
      [] kind \in {"race", "unknown"} /\ state = Racing -> "RACE_GREEN"
      [] kind \in {"race", "unknown"} /\ state = Checkered -> "RACE_CHECKERED"
      [] kind = "qualifying" /\ state \in {Racing, ParadeLaps} -> "QUALIFYING_HOTLAPS"
      [] kind = "qualifying" /\ state = Checkered -> "QUALIFYING_CLOSED"
      [] kind = "practice" /\ state \in {Racing, ParadeLaps} -> "PRACTICE_OPEN"
      [] kind = "practice" /\ state = Checkered -> "COOL_DOWN"
      [] OTHER -> "PENDING"

Observed(f, type) ==
    [num |-> f.num, state |-> f.state, type |-> type, phase |-> Phase(Kind(type), f.state)]
Unobserved == [num |-> NoNum, state |-> Invalid, type |-> None, phase |-> "PENDING"]

NewTracker == [last |-> Unobserved, announcedFor |-> NoNum]
NewEngine == [prevState |-> Invalid, prevFlags |-> {}, sampled |-> FALSE,
              checkeredEmitted |-> FALSE, prevInCar |-> FALSE]
NewFlown == [shown |-> {}, told |-> {}]
NoEvents == [state |-> "none", green |-> "none", checkered |-> "none",
             car |-> "none", yellow |-> "none"]

InitSessions ==
    /\ frame = NoFrame
    /\ resolved = FALSE
    /\ sessionType = None
    /\ tracker = NewTracker
    /\ engine = NewEngine
    /\ events = NoEvents
    /\ subSessions = 1
    /\ told = Unobserved
    /\ warned = FALSE
    /\ flown = NewFlown
-----------------------------------------------------------------------------
(* SessionLifecycleTracker::update: at most one event a frame, for the first *)
(* of the reasons that applies.                                              *)

TypeIgnored(prev, now) == "none"
TypeChanged(prev, now) == IF prev.type # now.type THEN "SESSION_TYPE_RESOLVED" ELSE "none"
Reason(prev, now) ==
    IF prev = Unobserved THEN "CONNECT_SNAPSHOT"
    ELSE IF prev.num # now.num THEN "SESSION_NUM_CHANGED"
    ELSE IF prev.state # now.state THEN "SESSION_STATE_CHANGED"
    ELSE TypeChanged(prev, now)

Imminent(f) == f.ending \/ f.state \in {Checkered, CoolDown}

\* The end is announced for a session when an event says so, whatever the event is for.
AnnouncedBefore(trk, change) ==
    IF change = "SESSION_NUM_CHANGED" THEN NoNum ELSE trk.announcedFor
Announces(reason, f) == reason = "SESSION_ENDING"
SaysImminent(reason, f) == reason # "none" /\ Imminent(f)

Change(trk, f, type) == Reason(trk.last, Observed(f, type))
StateReason(trk, f, type) ==
    IF /\ Change(trk, f, type) = "none"
       /\ f.ending
       /\ AnnouncedBefore(trk, Change(trk, f, type)) # f.num
    THEN "SESSION_ENDING"
    ELSE Change(trk, f, type)
Tracked(trk, f, type) ==
    [last |-> Observed(f, type),
     announcedFor |-> IF SaysImminent(StateReason(trk, f, type), f)
                      THEN f.num
                      ELSE AnnouncedBefore(trk, Change(trk, f, type))]
-----------------------------------------------------------------------------
(* The head of process_frame: edges of the session state and of the flags.  A *)
(* value read from the first frame of an engine is reported as synthetic.     *)

Origin(eng) == IF eng.sampled THEN "transition" ELSE "synthetic"

CheckeredNow(eng, f) ==
    \/ f.state = Checkered
    \/ "checkered" \in f.flags
    \/ f.state = CoolDown /\ eng.prevState = Racing

Rises(eng, f, flag) == flag \in f.flags /\ flag \notin eng.prevFlags

Green(eng, f) ==
    IF f.state = Racing /\ eng.prevState # Racing THEN Origin(eng) ELSE "none"
RaceCheckered(eng, f) ==
    IF CheckeredNow(eng, f) /\ ~eng.checkeredEmitted THEN Origin(eng) ELSE "none"
InCar(f) == f.state # Invalid
CarEdge(eng, f) ==
    CASE InCar(f) /\ ~eng.prevInCar -> "entered"
      [] ~InCar(f) /\ eng.prevInCar -> "exited"
      [] OTHER -> "none"
Yellow(eng, f) ==
    IF Rises(eng, f, "caution") THEN "full_course"
    ELSE IF Rises(eng, f, "yellow_wave") THEN "local" ELSE "none"

Processed(eng, f) ==
    [prevState |-> f.state, prevFlags |-> f.flags, sampled |-> TRUE,
     checkeredEmitted |-> eng.checkeredEmitted \/ CheckeredNow(eng, f),
     prevInCar |-> InCar(f)]
-----------------------------------------------------------------------------
(* One frame of the pipeline, with the tracker, the engine, the type and the *)
(* resolution that the SessionInfo of this frame leaves in place.            *)

EngineEvents(eng, f, reason) ==
    [state |-> reason, green |-> Green(eng, f), checkered |-> RaceCheckered(eng, f),
     car |-> CarEdge(eng, f), yellow |-> Yellow(eng, f)]

\* The session, which was running in the frame before, is flagged off.
FlaggedOff(f) == frame.num = f.num /\ frame.state = Racing /\ f.state = Checkered

Handle(f, trk, eng, type, known) ==
    LET reason == IF known THEN StateReason(trk, f, type) ELSE "none"
        sameSession == trk.last.num = f.num
        before == IF eng = NewEngine THEN NewFlown ELSE flown
        checkered == RaceCheckered(eng, f) # "none"
    IN  /\ frame' = f
        /\ resolved' = known
        /\ sessionType' = type
        /\ tracker' = IF known THEN Tracked(trk, f, type) ELSE trk
        /\ engine' = Processed(eng, f)
        /\ events' = EngineEvents(eng, f, reason)
        /\ told' = IF reason # "none" THEN Observed(f, type) ELSE told
        /\ warned' = \/ reason # "none" /\ Imminent(f)
                     \/ warned /\ sameSession
        /\ flown' = [shown |-> before.shown \cup (IF FlaggedOff(f) THEN {f.num} ELSE {}),
                     told |-> before.told \cup (IF checkered THEN {f.num} ELSE {})]

\* SessionInfo is not read for this frame, or could not be read.
PlainFrame ==
    /\ \E f \in Frames : f.num >= frame.num /\ Handle(f, tracker, engine, sessionType, resolved)
    /\ UNCHANGED subSessions

\* SessionInfo is read and brings no other id; the type of the session may be missing.
InfoFrame ==
    /\ \E f \in Frames : \E type \in {None, KindOf[f.num]} :
        f.num >= frame.num /\ Handle(f, tracker, engine, type, resolved)
    /\ UNCHANGED subSessions

\* SessionInfo brings an id that is not the one known: the first, or the next one.
AdoptFrame ==
    /\ subSessions + (IF resolved THEN 1 ELSE 0) <= MaxSubSessions
    /\ subSessions' = subSessions + (IF resolved THEN 1 ELSE 0)
    /\ \E f \in Frames : \E type \in {None, KindOf[f.num]} :
        Handle(f, NewTracker, NewEngine, type, TRUE)

\* iRacing went away and is back.
Reattach ==
    /\ subSessions < MaxSubSessions
    /\ subSessions' = subSessions + 1
    /\ frame' = NoFrame
    /\ resolved' = FALSE
    /\ sessionType' = None
    /\ tracker' = NewTracker
    /\ engine' = NewEngine
    /\ events' = NoEvents
    /\ told' = Unobserved
    /\ warned' = FALSE
    /\ flown' = NewFlown

SessionStep == PlainFrame \/ InfoFrame \/ AdoptFrame \/ Reattach

SessionsSpec == InitSessions /\ [][SessionStep]_sessionVars
-----------------------------------------------------------------------------
(* The consumer's picture of the session is never behind the frame: whatever changed, *)
(* in whatever combination, alone or with the session's end, the SESSION_STATE last   *)
(* said has the number, state, type and phase the publisher itself goes by.           *)
PictureCurrent ==
    resolved => told = Observed(frame, sessionType)

(* In the final minute of a session the consumer has been told once, and SESSION_ENDING *)
(* is never said to a consumer that an earlier event of the session already told.       *)
EndingToldOnce ==
    /\ [](resolved /\ frame.ending => warned)
    /\ [][events'.state = "SESSION_ENDING" => ~(warned /\ tracker.last.num = frame'.num)]_sessionVars

(* src/engine.rs:323, the checkered flag fires "on whichever arrives first, once per  *)
(* session": RACE_CHECKERED has been said in each session that was flagged off.       *)
CheckeredInEach == flown.shown \subseteq flown.told
=============================================================================
