----------------------------- MODULE Publisher -----------------------------
(***************************************************************************)
(* The pipeline thread of the publisher binary (src/bin/publisher.rs): it  *)
(* attaches to iRacing, follows the sub-session that iRacing is in, builds *)
(* the lifecycle, session, car and control events of each frame, holds     *)
(* back those whose driver is not known yet, and drives the transport.     *)
(*                                                                         *)
(* Around it: iRacing (external), whose frames and whose SessionInfo are   *)
(* read at different moments and move on independently; the controls       *)
(* thread, which hands over requests through a channel; and Ctrl-C.        *)
(*                                                                         *)
(* A sub-session is the number of its turn, 0 the unresolved id.  The      *)
(* transport is taken at its interface: a flush drains a number of whole   *)
(* batches of the queue, all of them unless the last one it drained failed *)
(* (module Transport).                                                     *)
(***************************************************************************)
EXTENDS Orders

CONSTANTS
    Cars, Player,        \* the cars in the field, and the one this rig drives
    BatchLimit,          \* BATCH_LIMIT
    HeldCap,             \* cap of pending_events
    RequestCap,          \* cap of pending_requests
    MaxSessions,         \* bound: sub-sessions iRacing goes through
    MaxNum,              \* bound: highest SessionNum inside one sub-session
    MaxUpdates,          \* bound: SessionInfo updates
    MaxStarts,           \* bound: starts of iRacing
    MaxRestarts,         \* bound: session clock restarts
    MaxRequests,         \* bound: accepted driver requests
    MaxSignals           \* bound: events that no rule of this module demands

ASSUME PlayerAssumption == Player \in Cars
ASSUME CapsAssumption ==
    BatchLimit \in Nat \ {0} /\ HeldCap \in Nat /\ RequestCap \in Nat \ {0}
ASSUME BoundsAssumption ==
    /\ MaxSessions \in Nat \ {0} /\ MaxStarts \in Nat \ {0}
    /\ MaxNum \in Nat /\ MaxUpdates \in Nat /\ MaxRestarts \in Nat
    /\ MaxRequests \in Nat /\ MaxSignals \in Nat

VARIABLES
    sim,                 \* iRacing: what its shared memory shows
    running,             \* the flag that Ctrl-C clears
    channel,             \* control requests sent and not yet received
    pressed,             \* how many control requests were sent
    pc,                  \* where the pipeline thread is
    attach,              \* how many times it attached to iRacing
    frame,               \* the frame in hand
    info,                \* what the SessionInfo read for this frame says
    subSession,          \* sub_session_id
    lastNum,             \* last_session_num
    lastClock,           \* last_session_clock
    roster,              \* roster_cache: its tick and the cars it can name
    fresh,               \* lifecycle.is_fresh()
    announced,           \* session number of the last sample of session_lifecycle
    emitConnected,       \* emit_iracing_connected
    hasFrame,            \* last_frame.is_some()
    held,                \* pending_events
    requests,            \* pending_requests
    signals,             \* how many such events were built
    log,                 \* every event enqueued, in order
    sent                 \* the envelope subSessionId of each drained event of log

world == <<sim, running, channel, pressed>>
identity == <<subSession, lastNum, lastClock, roster>>
lifecycle == <<fresh, announced, emitConnected, hasFrame>>
output == <<signals, log, sent>>
vars == <<world, pc, attach, frame, info, identity, lifecycle, held, requests, output>>

None == -1
NoClock == [session |-> None, num |-> None, time |-> None]
NoFrame == [session |-> 1, num |-> 0, time |-> 0, tick |-> 0]
NoInfo == [session |-> 0, named |-> {}]
NoRoster == [tick |-> None, named |-> {}]

\* An event as far as the properties go: stamp is its subSessionId (0 when built
\* without one), attach the attach it was built in.  A "report" says something about
\* the race: session state, race control, cars, heartbeat, driver material.
Event(kind) == [kind |-> kind, stamp |-> subSession, attach |-> attach, request |-> 0]
Under(session, kind) == [Event(kind) EXCEPT !.stamp = session]
Request(r) == [Event("request") EXCEPT !.request = r]
-----------------------------------------------------------------------------
Init ==
    /\ sim = [up |-> FALSE, starts |-> 0, session |-> 1, num |-> 0, time |-> 0,
              restarts |-> 0, tick |-> 0, published |-> 0, named |-> {}]
    /\ running = TRUE
    /\ channel = <<>>
    /\ pressed = 0
    /\ pc = "connect"
    /\ attach = 0
    /\ frame = NoFrame
    /\ info = NoInfo
    /\ subSession = 0
    /\ lastNum = None
    /\ lastClock = NoClock
    /\ roster = NoRoster
    /\ fresh = TRUE
    /\ announced = None
    /\ emitConnected = TRUE
    /\ hasFrame = FALSE
    /\ held = <<>>
    /\ requests = <<>>
    /\ signals = 0
    /\ log = <<>>
    /\ sent = <<>>
-----------------------------------------------------------------------------
(* iRacing, the controls thread and Ctrl-C.  The time of a session is 0 while  *)
(* it is within SESSION_CLOCK_ROLLBACK_S of its start, and 1 later.  They move *)
(* where the pipeline is about to look at them: what happens earlier than that *)
(* is not seen earlier.                                                        *)

AtFrame == running /\ pc \in {"connect", "loop"}
AtRead == AtFrame \/ (running /\ pc = "frame")
AtControls == AtFrame \/ (running /\ pc = "controls")

pipeline == <<pc, attach, frame, info, identity, lifecycle, held, requests, output>>

SimStart ==
    /\ AtRead
    /\ ~sim.up
    /\ sim.starts < MaxStarts
    /\ \E s \in sim.session..MaxSessions :
        sim' = [sim EXCEPT !.up = TRUE, !.starts = @ + 1, !.session = s]
    /\ UNCHANGED <<running, channel, pressed, pipeline>>

SimStop ==
    /\ AtRead
    /\ sim.up
    /\ sim' = [sim EXCEPT !.up = FALSE, !.num = 0, !.time = 0, !.published = 0, !.named = {}]
    /\ UNCHANGED <<running, channel, pressed, pipeline>>

\* iRacing moves to the next sub-session: its frames show it before SessionInfo does.
SimAdvance ==
    /\ AtRead
    /\ sim.up
    /\ sim.session < MaxSessions
    /\ sim' = [sim EXCEPT !.session = @ + 1, !.num = 0, !.time = 0]
    /\ UNCHANGED <<running, channel, pressed, pipeline>>

SimClock ==
    /\ AtFrame
    /\ sim.up
    /\ \/ sim.num < MaxNum /\ sim' = [sim EXCEPT !.num = @ + 1, !.time = 0]
       \/ sim' = [sim EXCEPT !.time = 1]
       \/ /\ sim.time = 1
          /\ sim.restarts < MaxRestarts
          /\ sim' = [sim EXCEPT !.time = 0, !.restarts = @ + 1]
    /\ UNCHANGED <<running, channel, pressed, pipeline>>

\* A new SessionInfo: with the id of the live sub-session or still the placeholder 0,
\* and naming some of the drivers.
SimPublishes ==
    /\ AtRead
    /\ sim.up
    /\ sim.tick < MaxUpdates
    /\ \E p \in {0, sim.session}, n \in SUBSET Cars :
        sim' = [sim EXCEPT !.tick = @ + 1, !.published = p, !.named = n]
    /\ UNCHANGED <<running, channel, pressed, pipeline>>

Press ==
    /\ AtControls
    /\ pressed < MaxRequests
    /\ pressed' = pressed + 1
    /\ channel' = Append(channel, pressed')
    /\ UNCHANGED <<sim, running, pipeline>>

CtrlC == AtFrame /\ running' = FALSE /\ UNCHANGED <<sim, channel, pressed, pipeline>>

World == SimStart \/ SimStop \/ SimAdvance \/ SimClock \/ SimPublishes \/ Press \/ CtrlC
-----------------------------------------------------------------------------
\* transport.enqueue of the events es, one after the other.
Enqueued(es) == log \o es

\* transport.flush(.., env) with l enqueued: whole batches leave the queue, and fewer
\* than all of them when the last one to leave could not be posted.
Backlog(l) == Len(l) - Len(sent)
Flushed(l, env) ==
    IF Backlog(l) = 0
    THEN {sent}
    ELSE {sent \o [i \in 1..n |-> env] :
            n \in {m \in 1..Backlog(l) : m % BatchLimit = 0 \/ m = Backlog(l)}}

\* connect_loop: the first attach finds the initial state, a later one resets what
\* belongs to the session; the queue, held requests and last_frame stay.
Connect ==
    /\ pc = "connect"
    /\ running
    /\ sim.up
    /\ attach' = attach + 1
    /\ pc' = IF attach = 0 THEN "first" ELSE "loop"
    /\ subSession' = 0
    /\ lastNum' = None
    /\ lastClock' = NoClock
    /\ roster' = NoRoster
    /\ fresh' = TRUE
    /\ announced' = None
    /\ emitConnected' = TRUE
    /\ held' = <<>>
    /\ UNCHANGED <<world, frame, info, hasFrame, requests, output>>

NotConnected ==
    /\ pc = "connect"
    /\ ~running
    /\ pc' = IF attach = 0 THEN "exited" ELSE "closing"
    /\ UNCHANGED <<world, attach, frame, info, identity, lifecycle, held, requests, output>>

FirstFrame ==
    /\ pc = "first"
    /\ hasFrame' \in BOOLEAN
    /\ pc' = "loop"
    /\ UNCHANGED <<world, attach, frame, info, identity, fresh, announced,
                   emitConnected, held, requests, output>>

Leave ==
    /\ pc = "loop"
    /\ ~running
    /\ pc' = "closing"
    /\ UNCHANGED <<world, attach, frame, info, identity, lifecycle, held, requests, output>>

\* iRacing is gone: IRACING_DISCONNECTED when a session was known, flushed at once.
Detach ==
    /\ pc = "loop"
    /\ running
    /\ ~sim.up
    /\ pc' = "connect"
    /\ IF subSession > 0 /\ hasFrame
       THEN /\ log' = Append(log, Event("disconnected"))
            /\ sent' \in Flushed(log', subSession)
       ELSE UNCHANGED <<log, sent>>
    /\ UNCHANGED <<world, attach, frame, info, identity, lifecycle, held, requests, signals>>

ReadFrame ==
    /\ pc = "loop"
    /\ running
    /\ sim.up
    /\ frame' = [session |-> sim.session, num |-> sim.num, time |-> sim.time,
                 tick |-> sim.tick]
    /\ pc' = "frame"
    /\ UNCHANGED <<world, attach, info, identity, lifecycle, held, requests, output>>
-----------------------------------------------------------------------------
\* The clock went back inside what still looks like the same sub-session.
RolledBack ==
    /\ lastClock.session = subSession
    /\ lastClock.num = frame.num
    /\ frame.time < lastClock.time

MustReadSameUpdate == lastNum # frame.num \/ RolledBack
MustRead ==
    \/ lastNum # frame.num
    \/ RolledBack
    \/ roster.tick # frame.tick

SkipInfo ==
    /\ pc = "frame"
    /\ ~MustRead
    /\ pc' = "clock"
    /\ UNCHANGED <<world, attach, frame, info, identity, lifecycle, held, requests, output>>

\* read_session_info returned None: the frame goes on with what is known.
InfoUnavailable ==
    /\ pc = "frame"
    /\ MustRead
    /\ pc' = "clock"
    /\ UNCHANGED <<world, attach, frame, info, identity, lifecycle, held, requests, output>>

\* What SessionInfo says now, which may be newer than the frame.
ReadInfo ==
    /\ pc = "frame"
    /\ MustRead
    /\ info' = [session |-> sim.published, named |-> sim.named]
    /\ pc' = "adopt"
    /\ UNCHANGED <<world, attach, frame, identity, lifecycle, held, requests, output>>

\* The sub-session transition: GOODBYE under the new id and a flush when an old one
\* is left, everything session-scoped reset, then SESSION_RESET.
HeldAcrossSessions == held
HeldAfterAdopting == <<>>
DepartedEnvelope == subSession
TransitionEnvelope == info.session
DepartingRolledBack == subSession > 0 /\ RolledBack
Departing == subSession > 0
Adopt ==
    /\ pc = "adopt"
    /\ info.session \notin {0, subSession}
    /\ IF Departing
       THEN LET goodbye == Append(log, Under(info.session, "goodbye"))
                reset == Under(info.session, "session_reset")
            IN  /\ sent' \in Flushed(goodbye, TransitionEnvelope)
                /\ log' = Append(goodbye, reset)
       ELSE UNCHANGED <<log, sent>>
    /\ fresh' = TRUE
    /\ announced' = None
    /\ held' = HeldAfterAdopting
    /\ roster' = NoRoster
    /\ subSession' = info.session
    /\ pc' = "roster"
    /\ UNCHANGED <<world, attach, frame, info, lastNum, lastClock, emitConnected,
                   hasFrame, requests, signals>>

\* No id in the SessionInfo, or the one already known.
KeepSession ==
    /\ pc = "adopt"
    /\ info.session \in {0, subSession}
    /\ pc' = "roster"
    /\ UNCHANGED <<world, attach, frame, info, identity, lifecycle, held, requests, output>>

\* roster_cache.update, which keeps the old roster when the YAML does not parse; then
\* the held events of cars it can now name are enqueued, the others held again.
UpdateRoster ==
    /\ pc = "roster"
    /\ \/ roster' = [tick |-> frame.tick, named |-> info.named]
       \/ UNCHANGED roster
    /\ LET named == {i \in DOMAIN held : held[i].car \in roster'.named}
       IN  IF subSession > 0
           THEN /\ \E released \in Picked(held, named) :
                       log' = Enqueued([i \in DOMAIN released |-> released[i].event])
                /\ held' \in Picked(held, DOMAIN held \ named)
           ELSE UNCHANGED <<log, held>>
    /\ pc' = "hello"
    /\ UNCHANGED <<world, attach, frame, info, subSession, lastNum, lastClock,
                   lifecycle, requests, signals, sent>>

\* HELLO once per resolved session, after IRACING_CONNECTED once per attach.
HelloDueOnAttach == emitConnected /\ subSession > 0
HelloDue == fresh /\ subSession > 0
Opening == IF emitConnected THEN <<Event("connected"), Event("hello")>> ELSE <<Event("hello")>>
ConnectedAgain == emitConnected
ConnectedAfterHello == FALSE
Hello ==
    /\ pc = "hello"
    /\ IF HelloDue
       THEN /\ log' = Enqueued(Opening)
            /\ fresh' = FALSE
            /\ emitConnected' = ConnectedAfterHello
       ELSE UNCHANGED <<log, fresh, emitConnected>>
    /\ lastNum' = frame.num
    /\ info' = NoInfo
    /\ pc' = "clock"
    /\ UNCHANGED <<world, attach, frame, subSession, lastClock, roster,
                   announced, hasFrame, held, requests, signals, sent>>
-----------------------------------------------------------------------------
\* SESSION_RESET when the clock restarted under the id that is known by now; the
\* frame's clock is remembered once there is one.
CheckClock ==
    /\ pc = "clock"
    /\ log' = IF RolledBack THEN Append(log, Event("clock_reset")) ELSE log
    /\ lastClock' = IF subSession > 0
                    THEN [session |-> subSession, num |-> frame.num, time |-> frame.time]
                    ELSE NoClock
    /\ pc' = "state"
    /\ UNCHANGED <<world, attach, frame, info, subSession, lastNum, roster, lifecycle,
                   held, requests, signals, sent>>

\* session_lifecycle.update: a snapshot for a new tracker, then whenever the session
\* number, its state or its type changed or its end is near.
ReportState ==
    /\ pc = "state"
    /\ subSession > 0
    /\ IF announced = frame.num
       THEN signals < MaxSignals /\ signals' = signals + 1
       ELSE UNCHANGED signals
    /\ log' = Append(log, Event("report"))
    /\ announced' = frame.num
    /\ pc' = "engine"
    /\ UNCHANGED <<world, attach, frame, info, identity, fresh, emitConnected,
                   hasFrame, held, requests, sent>>

NoStateChange ==
    /\ pc = "state"
    /\ subSession = 0 \/ announced = frame.num
    /\ pc' = "engine"
    /\ UNCHANGED <<world, attach, frame, info, identity, lifecycle, held, requests, output>>

\* One event of engine.process_frame.  A session-wide one, and one about a car that the
\* roster names, is enqueued; one about another car is held, and lost at the cap.
HeldRoom == Len(held) < HeldCap
EngineEvent ==
    /\ pc = "engine"
    /\ signals < MaxSignals
    /\ signals' = signals + 1
    /\ \/ /\ log' = Append(log, Event("report"))
          /\ UNCHANGED held
       \/ \E c \in Cars \ roster.named :
            /\ held' = IF HeldRoom
                       THEN Append(held, [car |-> c, event |-> Event("report")])
                       ELSE held
            /\ UNCHANGED log
    /\ UNCHANGED <<world, pc, attach, frame, info, identity, lifecycle, requests, sent>>

\* Without an id the frame ends here: no controls, no heartbeat, no tick.
EngineDone ==
    /\ pc = "engine"
    /\ IF subSession = 0
       THEN pc' = "loop" /\ frame' = NoFrame
       ELSE pc' = "controls" /\ UNCHANGED frame
    /\ UNCHANGED <<world, attach, info, identity, lifecycle, held, requests, output>>

\* The waiting requests, received ones last and none beyond the cap; all of them are
\* published and flushed as soon as the roster names the driver.
Waiting ==
    LET all == requests \o channel
    IN  IF Len(all) <= RequestCap THEN all ELSE SubSeq(all, 1, RequestCap)
RequestsKept == Waiting
RequestsAfterPublishing == <<>>
Controls ==
    /\ pc = "controls"
    /\ channel' = <<>>
    /\ IF Waiting # <<>> /\ Player \in roster.named
       THEN /\ log' = Enqueued([i \in DOMAIN Waiting |-> Request(Waiting[i])])
            /\ requests' = RequestsAfterPublishing
            /\ sent' \in Flushed(log', subSession)
       ELSE /\ requests' = Waiting
            /\ UNCHANGED <<log, sent>>
    /\ pc' = "periodic"
    /\ UNCHANGED <<sim, running, pressed, attach, frame, info, identity, lifecycle,
                   held, signals>>

\* The wall-clock events: a heartbeat, then driver material about a named driver.
Periodic ==
    /\ pc = "periodic"
    /\ \E n \in 0..(IF Player \in roster.named THEN 2 ELSE 1) :
        /\ signals + n <= MaxSignals
        /\ signals' = signals + n
        /\ log' = Enqueued([i \in 1..n |-> Event("report")])
    /\ pc' = "tick"
    /\ UNCHANGED <<world, attach, frame, info, identity, lifecycle, held, requests, sent>>

\* tick_result, when a flush is due and when it is not; then last_frame = frame.
Tick ==
    /\ pc = "tick"
    /\ \/ sent' \in Flushed(log, subSession)
       \/ Backlog(log) < BatchLimit /\ UNCHANGED sent
    /\ hasFrame' = TRUE
    /\ frame' = NoFrame
    /\ pc' = "loop"
    /\ UNCHANGED <<world, attach, info, identity, fresh, announced,
                   emitConnected, held, requests, signals, log>>

\* The clean shutdown: GOODBYE when any frame was seen, and one last flush.
Close ==
    /\ pc = "closing"
    /\ IF hasFrame
       THEN log' = Append(log, Event("goodbye"))
       ELSE UNCHANGED log
    /\ sent' \in Flushed(log', subSession)
    /\ pc' = "exited"
    /\ UNCHANGED <<world, attach, frame, info, identity, lifecycle, held, requests, signals>>
-----------------------------------------------------------------------------
Step ==
    \/ Connect \/ NotConnected \/ FirstFrame \/ Leave \/ Detach \/ ReadFrame
    \/ SkipInfo \/ InfoUnavailable \/ ReadInfo \/ Adopt \/ KeepSession
    \/ UpdateRoster \/ Hello \/ CheckClock \/ ReportState \/ NoStateChange
    \/ EngineEvent \/ EngineDone \/ Controls \/ Periodic \/ Tick \/ Close

Exited == pc = "exited" /\ UNCHANGED vars

Next == World \/ Step \/ Exited

\* The thread keeps going round its loop while iRacing sends frames, and a SessionInfo
\* read that is tried again and again succeeds at some point.
Fairness == WF_vars(Step) /\ SF_vars(ReadInfo)

Spec == Init /\ [][Next]_vars /\ Fairness
-----------------------------------------------------------------------------
\* Every sub-session is opened before anything else is said under its id: in the order
\* of the log, an event that carries an id comes after a HELLO of the same attach with
\* that id, the transition GOODBYE, SESSION_RESET and IRACING_CONNECTED aside.
Openers == {"connected", "hello", "goodbye", "session_reset"}
HelloFirst ==
    \A i \in DOMAIN log :
        log[i].stamp > 0 /\ log[i].kind \notin Openers =>
            \E j \in 1..(i - 1) :
                /\ log[j].kind = "hello"
                /\ log[j].stamp = log[i].stamp
                /\ log[j].attach = log[i].attach

\* IRACING_CONNECTED is said once per attach, directly before its first HELLO, and
\* IRACING_DISCONNECTED only of an attach that said it was connected.
ConnectedOncePerAttach ==
    \A i \in DOMAIN log :
        /\ log[i].kind = "connected" =>
            \A j \in 1..(i - 1) :
                /\ log[j].attach = log[i].attach
                => log[j].kind \notin {"connected", "hello"}
        /\ log[i].kind \in {"hello", "disconnected"} =>
            \E j \in 1..(i - 1) :
                log[j].kind = "connected" /\ log[j].attach = log[i].attach

\* Inside one attach the consumer is told of every change of sub-session: a HELLO that
\* is not the first of its attach comes directly after the transition GOODBYE and the
\* SESSION_RESET, both under the new id.
TransitionAnnounced ==
    \A i, j \in DOMAIN log :
        /\ i < j
        /\ log[i].kind = "hello" /\ log[j].kind = "hello"
        /\ log[i].attach = log[j].attach
        =>  /\ log[j - 2].kind = "goodbye" /\ log[j - 1].kind = "session_reset"
            /\ log[j - 2].stamp = log[j].stamp /\ log[j - 1].stamp = log[j].stamp

\* Nothing of a departed sub-session is enqueued once the next one is adopted, held
\* events included: the ids of an attach never go back in the order of the log.
StampsNeverGoBack ==
    \A i, j \in DOMAIN log :
        i < j /\ log[i].attach = log[j].attach => log[i].stamp <= log[j].stamp

\* No envelope is posted under an id that an event in it has superseded, except the
\* unresolved one of a shutdown.
EnvelopeNotOlder ==
    \A i \in DOMAIN sent : sent[i] = 0 \/ log[i].stamp <= sent[i]

\* A driver request is published at most once and requests are published in the order
\* they were pressed, however long they waited for the driver's name, across a
\* transition or a reconnect; one that waits is not published yet.
RequestsOnceInOrder ==
    LET waiting == requests \o channel
    IN  /\ \A i, j \in DOMAIN waiting : i < j => waiting[i] < waiting[j]
        /\ \A i \in DOMAIN log : log[i].kind = "request" =>
              /\ \A j \in 1..(i - 1) :
                    log[j].kind = "request" => log[j].request < log[i].request
              /\ \A k \in DOMAIN waiting : log[i].request < waiting[k]

\* Once SessionInfo carries the id of a sub-session the publisher adopts it and says
\* HELLO, whatever reads failed and whatever was read before, unless iRacing moves on
\* or goes away or the publisher is stopped.
PublishedIdAdopted ==
    \A s \in 1..MaxSessions :
        (sim.up /\ sim.published = s) ~>
            \/ subSession = s /\ ~fresh
            \/ ~sim.up \/ sim.published # s \/ ~running
=============================================================================
