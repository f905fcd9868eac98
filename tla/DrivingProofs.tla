---------------------------- MODULE DrivingProofs ----------------------------
(***************************************************************************)
(* Proofs about modules SessionEvents, Threats and Laps, and about the     *)
(* composition Engine: for any sessions, states and flags, any cars and    *)
(* gaps, any laps and positions, and every threshold.                      *)
(***************************************************************************)
EXTENDS Engine, TLAPS
-----------------------------------------------------------------------------
(* SessionEvents.  PictureInv compares the tracker with the consumer: once the         *)
(* sub-session is known the tracker's last observation, the consumer's picture and the *)
(* frame are one and the same, and the tracker takes the session's end for announced   *)
(* exactly when the consumer was warned.                                               *)

PictureInv ==
    /\ resolved \in BOOLEAN
    /\ resolved => /\ tracker.last = Observed(frame, sessionType)
                   /\ told = Observed(frame, sessionType)
                   /\ frame \in Frames
                   /\ frame.ending => warned
    /\ ~resolved => tracker = NewTracker
    /\ warned \in BOOLEAN
    /\ resolved => (warned <=> tracker.announcedFor = tracker.last.num)

(* A tracker is the present one or a new one. *)
Present(trk, known) ==
    \/ trk = tracker /\ known = resolved
    \/ trk = NewTracker /\ known = TRUE
-----------------------------------------------------------------------------
(* Two observations without a reason between them are equal: number, state and type   *)
(* are compared, and the phase follows from the last two.                             *)
LEMMA NoReasonNoChange ==
    ASSUME NEW f, NEW type, NEW g, NEW was, Observed(g, was) # Unobserved,
           Reason(Observed(g, was), Observed(f, type)) = "none"
    PROVE  Observed(g, was) = Observed(f, type)
<1> DEFINE prev == Observed(g, was)
           now == Observed(f, type)
<1>1. /\ prev.num = g.num /\ prev.state = g.state /\ prev.type = was
      /\ now.num = f.num /\ now.state = f.state /\ now.type = type
    BY DEF Observed
<1>2. prev.num = now.num
    BY DEF Reason
<1>3. prev.state = now.state
    BY <1>2 DEF Reason
<1>4. TypeChanged(prev, now) = "none"
    BY <1>2, <1>3 DEF Reason
<1>5. prev.type = now.type
    BY <1>4 DEF TypeChanged
<1> QED BY <1>1, <1>2, <1>3, <1>5 DEF Observed

LEMMA NumChange ==
    ASSUME NEW prev, NEW now
    PROVE  /\ Reason(prev, now) = "SESSION_NUM_CHANGED" => prev.num # now.num
           /\ prev # Unobserved /\ Reason(prev, now) # "SESSION_NUM_CHANGED" => prev.num = now.num
           /\ prev = Unobserved => Reason(prev, now) = "CONNECT_SNAPSHOT"
           /\ Reason(prev, now) # "SESSION_ENDING"
<1>1. TypeChanged(prev, now) \in {"none", "SESSION_TYPE_RESOLVED"}
    BY DEF TypeChanged
<1>2. CASE prev = Unobserved
    BY <1>2 DEF Reason
<1>3. CASE prev # Unobserved /\ prev.num # now.num
    BY <1>3 DEF Reason
<1>4. CASE prev # Unobserved /\ prev.num = now.num /\ prev.state # now.state
    BY <1>4 DEF Reason
<1>5. CASE prev # Unobserved /\ prev.num = now.num /\ prev.state = now.state
    <2>1. Reason(prev, now) = TypeChanged(prev, now)
        BY <1>5 DEF Reason
    <2> QED BY <1>1, <1>5, <2>1
<1> QED BY <1>2, <1>3, <1>4, <1>5

(* An observation of a frame is not the one a new tracker starts from. *)
LEMMA FramesAreObserved ==
    ASSUME NEW f \in Frames, NEW type
    PROVE  /\ Observed(f, type) # Unobserved
           /\ Observed(f, type).num = f.num
           /\ f.num # NoNum
           /\ f.ending \in BOOLEAN
<1>1. f.num \in 0..MaxNum /\ f.ending \in BOOLEAN
    BY DEF Frames
<1>2. f.num # NoNum
    BY <1>1, SessionsAssumption DEF NoNum
<1> QED BY <1>1, <1>2 DEF Observed, Unobserved

(* A frame that is fed to the tracker: what the tracker takes for announced is what   *)
(* the consumer was told.                                                             *)
LEMMA AnnouncedIsWarned ==
    ASSUME PictureInv, NEW f \in Frames, NEW type, NEW trk, Present(trk, TRUE)
    PROVE  AnnouncedBefore(trk, Change(trk, f, type)) = f.num
             <=> warned /\ trk.last.num = f.num
<1> DEFINE now == Observed(f, type)
           change == Change(trk, f, type)
<1>1. f.num # NoNum /\ now.num = f.num
    BY FramesAreObserved
<1>2. change = Reason(trk.last, now)
    BY DEF Change
<1>3. CASE trk = NewTracker
    <2>1. trk.last = Unobserved /\ trk.announcedFor = NoNum /\ trk.last.num = NoNum
        BY <1>3 DEF NewTracker, Unobserved
    <2> QED BY <1>1, <1>2, <2>1 DEF AnnouncedBefore
<1>4. CASE trk = tracker /\ resolved
    <2>1. trk.last = Observed(frame, sessionType) /\ frame \in Frames
          /\ (warned <=> trk.announcedFor = trk.last.num)
        BY <1>4 DEF PictureInv
    <2>2. trk.last # Unobserved
        BY <2>1, FramesAreObserved
    <2>3. CASE change = "SESSION_NUM_CHANGED"
        <3>0. Reason(trk.last, now) = "SESSION_NUM_CHANGED"
            BY <1>2, <2>3
        <3>1. trk.last.num # now.num
            BY <3>0, NumChange
        <3> QED BY <1>1, <2>3, <3>1 DEF AnnouncedBefore
    <2>4. CASE change # "SESSION_NUM_CHANGED"
        <3>1. trk.last.num = f.num
            BY <1>1, <1>2, <2>2, <2>4, NumChange
        <3> QED BY <2>1, <2>4, <3>1 DEF AnnouncedBefore
    <2> QED BY <2>3, <2>4
<1> QED BY <1>3, <1>4 DEF Present

LEMMA HandlePicture ==
    ASSUME PictureInv, NEW f \in Frames, NEW type, NEW trk, NEW eng, NEW known,
           Present(trk, known), Handle(f, trk, eng, type, known)
    PROVE  /\ PictureInv'
           /\ events'.state = "SESSION_ENDING" => ~(warned /\ trk.last.num = frame'.num)
<1> DEFINE reason == IF known THEN StateReason(trk, f, type) ELSE "none"
           change == Change(trk, f, type)
<1>1. /\ frame' = f /\ resolved' = known /\ sessionType' = type
      /\ tracker' = (IF known THEN Tracked(trk, f, type) ELSE trk)
      /\ told' = (IF reason # "none" THEN Observed(f, type) ELSE told)
      /\ warned' = ((reason # "none" /\ Imminent(f)) \/ (warned /\ trk.last.num = f.num))
      /\ events' = EngineEvents(eng, f, reason)
    BY DEF Handle
<1>2. events'.state = reason
    BY <1>1 DEF EngineEvents
<1>3. f.num # NoNum /\ f.ending \in BOOLEAN /\ Observed(f, type).num = f.num
    BY FramesAreObserved
<1>4. CASE ~known
    <2>1. trk = tracker /\ ~resolved /\ known = resolved
        BY <1>4 DEF Present
    <2>2. trk = NewTracker /\ trk.last.num = NoNum
        BY <2>1 DEF PictureInv, NewTracker, Unobserved
    <2>3. warned' = FALSE
        BY <1>1, <1>3, <1>4, <2>2
    <2> QED BY <1>1, <1>2, <1>4, <2>1, <2>2, <2>3 DEF PictureInv
<1>5. CASE known
    <2>0. Present(trk, TRUE) /\ known = TRUE
        BY <1>5 DEF Present, PictureInv
    <2>1. /\ tracker'.last = Observed(f, type)
          /\ tracker'.announcedFor = IF reason # "none" /\ Imminent(f) THEN f.num
                                     ELSE AnnouncedBefore(trk, change)
        BY <1>1, <1>5 DEF Tracked, SaysImminent
    <2>2. AnnouncedBefore(trk, change) = f.num <=> warned /\ trk.last.num = f.num
        BY <2>0, AnnouncedIsWarned
    <2>3. reason = IF change = "none" /\ f.ending /\ AnnouncedBefore(trk, change) # f.num
                   THEN "SESSION_ENDING" ELSE change
        BY <1>5 DEF StateReason
    <2>4. change = Reason(trk.last, Observed(f, type)) /\ change # "SESSION_ENDING"
        BY NumChange DEF Change
    <2>5. told' = Observed(f, type)
        <3>1. CASE reason # "none"
            BY <1>1, <3>1
        <3>2. CASE reason = "none"
            <4>1. change = "none"
                BY <2>3, <3>2
            <4>2. trk.last # Unobserved
                BY <2>4, <4>1, NumChange
            <4>3. trk = tracker /\ resolved
                BY <2>0, <4>2 DEF Present, NewTracker
            <4>4. trk.last = Observed(frame, sessionType) /\ told = trk.last
                BY <4>3 DEF PictureInv
            <4>5. /\ Observed(frame, sessionType) # Unobserved
                  /\ Reason(Observed(frame, sessionType), Observed(f, type)) = "none"
                BY <2>4, <4>1, <4>2, <4>4
            <4>6. Observed(frame, sessionType) = Observed(f, type)
                BY <4>5, NoReasonNoChange
            <4> QED BY <1>1, <3>2, <4>4, <4>6
        <3> QED BY <3>1, <3>2
    <2>6. f.ending => warned'
        <3>1. CASE reason # "none"
            BY <1>1, <3>1 DEF Imminent
        <3>2. CASE reason = "none"
            BY <1>1, <2>2, <2>3, <3>2
        <3> QED BY <3>1, <3>2
    <2>7. warned' <=> tracker'.announcedFor = tracker'.last.num
        BY <1>1, <1>3, <2>1, <2>2
    <2>8. warned' \in BOOLEAN
        BY <1>1 DEF PictureInv
    <2>9. PictureInv'
        BY <1>1, <2>0, <2>1, <2>5, <2>6, <2>7, <2>8 DEF PictureInv
    <2>10. events'.state = "SESSION_ENDING" => ~(warned /\ trk.last.num = f.num)
        BY <1>2, <2>2, <2>3, <2>4
    <2> QED BY <1>1, <2>9, <2>10
<1>6. known \in BOOLEAN
    BY DEF Present, PictureInv
<1> QED BY <1>4, <1>5, <1>6
-----------------------------------------------------------------------------
LEMMA InitSessionsInv == InitSessions => PictureInv
BY DEF InitSessions, PictureInv

LEMMA SessionStepInv ==
    ASSUME PictureInv, SessionStep
    PROVE  /\ PictureInv'
           /\ events'.state = "SESSION_ENDING" => ~(warned /\ tracker.last.num = frame'.num)
<1>1. CASE PlainFrame
    <2>1. PICK f \in Frames : Handle(f, tracker, engine, sessionType, resolved)
        BY <1>1 DEF PlainFrame
    <2>2. Present(tracker, resolved)
        BY DEF Present
    <2> QED BY <2>1, <2>2, HandlePicture
<1>2. CASE InfoFrame
    <2>1. PICK f \in Frames : \E type \in {None, KindOf[f.num]} :
              Handle(f, tracker, engine, type, resolved)
        BY <1>2 DEF InfoFrame
    <2>2. PICK type : Handle(f, tracker, engine, type, resolved)
        BY <2>1
    <2>3. Present(tracker, resolved)
        BY DEF Present
    <2> QED BY <2>2, <2>3, HandlePicture
<1>3. CASE AdoptFrame
    <2>1. PICK f \in Frames : \E type \in {None, KindOf[f.num]} :
              Handle(f, NewTracker, NewEngine, type, TRUE)
        BY <1>3 DEF AdoptFrame
    <2>2. PICK type : Handle(f, NewTracker, NewEngine, type, TRUE)
        BY <2>1
    <2>3. Present(NewTracker, TRUE)
        BY DEF Present
    <2>4. PictureInv'
        BY <2>2, <2>3, HandlePicture
    <2>5. events'.state # "SESSION_ENDING"
        <3>1. events'.state = StateReason(NewTracker, f, type)
            BY <2>2 DEF Handle, EngineEvents
        <3>2. Change(NewTracker, f, type) = "CONNECT_SNAPSHOT"
            BY NumChange DEF Change, NewTracker
        <3> QED BY <3>1, <3>2 DEF StateReason
    <2> QED BY <2>4, <2>5
<1>4. CASE Reattach
    <2>1. PictureInv'
        BY <1>4 DEF Reattach, PictureInv
    <2> QED BY <1>4, <2>1 DEF Reattach, NoEvents
<1> QED BY <1>1, <1>2, <1>3, <1>4 DEF SessionStep

LEMMA SessionInvariant == SessionsSpec => []PictureInv
<1>1. PictureInv /\ [SessionStep]_sessionVars => PictureInv'
    <2>1. ASSUME PictureInv, UNCHANGED sessionVars
          PROVE  PictureInv'
        BY <2>1 DEF PictureInv, sessionVars, history
    <2> QED BY <2>1, SessionStepInv
<1> QED BY <1>1, InitSessionsInv, PTL DEF SessionsSpec

(* The SESSION_STATE last said has the number, state, type and phase the publisher     *)
(* itself goes by, whatever changed in whatever combination.                           *)
THEOREM PictureStaysCurrent == SessionsSpec => []PictureCurrent
<1>1. PictureInv => PictureCurrent
    BY DEF PictureInv, PictureCurrent
<1> QED BY <1>1, SessionInvariant, PTL

(* In the last minute of a session the consumer has been told of its end, and is not   *)
(* told by SESSION_ENDING what an earlier event already said.                          *)
THEOREM EndingIsToldOnce == SessionsSpec => EndingToldOnce
<1> DEFINE Warns == resolved /\ frame.ending => warned
           Fresh == events'.state = "SESSION_ENDING" => ~(warned /\ tracker.last.num = frame'.num)
<1>1. PictureInv => Warns
    BY DEF PictureInv
<1>2. PictureInv /\ [SessionStep]_sessionVars => [Fresh]_sessionVars
    BY SessionStepInv
<1> QED BY <1>1, <1>2, SessionInvariant, PTL DEF SessionsSpec, EndingToldOnce
-----------------------------------------------------------------------------
(* Threats.  What a side keeps in the engine is compared with what was said about it:  *)
(* Kept says that the engaged cars of a side are exactly those that were announced and *)
(* not broken, that the start time of the tracked car is the time it was announced at, *)
(* and that none of these was announced after the last engagement of the side, which   *)
(* the side remembers for as long as the engine lives, broken or not.                  *)

Times == 0..MaxTime \cup {Never}
Threat == [close : 0..MinFrames, last : Times, tracking : Cars \cup {NoCar},
           start : Times, engaged : SUBSET Cars]

Kept(th, op) ==
    /\ th \in Threat
    /\ op \in [Cars -> Times]
    /\ th.tracking # NoCar => th.tracking \in th.engaged /\ op[th.tracking] = th.start
    /\ th.tracking = NoCar <=> th.start = Never
    /\ \A c \in Cars : (op[c] # Never <=> c \in th.engaged) /\ op[c] <= th.last

ThreatInv ==
    /\ t \in 0..MaxTime
    /\ threat \in [Sides -> Threat]
    /\ open \in [Sides -> [Cars -> Times]]
    /\ spoke \in [Sides -> Times]
    /\ \A d \in Sides : Kept(threat[d], open[d]) /\ spoke[d] = threat[d].last

\* What the listener keeps of one side after the events of a frame.
Heard(d, op, says, now) ==
    [c \in Cars |-> IF Says(says, "ENGAGED", d, c) THEN now
                    ELSE IF Says(says, "BROKEN", d, c) THEN Never ELSE op[c]]

LEMMA NeverIsBefore == Never \in Int /\ \A now \in Times : now \in Int /\ Never <= now
BY ThresholdsAssumption DEF Never, Times

LEMMA CountsUp ==
    ASSUME NEW n \in 0..MinFrames
    PROVE  CloseLonger(n) \in 0..MinFrames
BY ThresholdsAssumption DEF CloseLonger

(* The type of a side after a frame. *)
LEMMA SideType ==
    ASSUME NEW th \in Threat, NEW c \in Cars \cup {NoCar}, NEW sight, NEW now \in 0..MaxTime
    PROVE  SideAfter(th, c, sight, now) \in Threat
<1>1. now \in Times /\ Never \in Times
    BY DEF Times
<1>2. CloseLonger(th.close) \in 0..MinFrames /\ 0 \in 0..MinFrames
    BY CountsUp, ThresholdsAssumption DEF Threat
<1>3. CASE CloseBy(c, sight)
    <2>1. Approach(th, c, now) \in Threat
        BY <1>1, <1>2, <1>3 DEF Approach, StartOfNew, Threat, CloseBy
    <2> QED BY <1>3, <2>1 DEF SideAfter
<1>4. CASE ~CloseBy(c, sight)
    <2>1. GiveUp(th, c) \in Threat
        BY <1>1, <1>2 DEF GiveUp, NotTracked, Threat
    <2> QED BY <1>4, <2>1 DEF SideAfter
<1> QED BY <1>3, <1>4

(* An engagement is announced when the nearest car of the side engages ... *)
LEMMA KeptByEngaging ==
    ASSUME NEW d \in Sides, NEW th, NEW op, Kept(th, op), NEW c \in Cars \cup {NoCar},
           NEW sight, NEW now \in 0..MaxTime, CloseBy(c, sight), Engages(th, c, now)
    PROVE  Kept(SideAfter(th, c, sight, now),
                Heard(d, op, SideSays(d, th, c, sight, now), now))
<1> DEFINE says == SideSays(d, th, c, sight, now)
           after == SideAfter(th, c, sight, now)
           hears == Heard(d, op, says, now)
<1>1. c \in Cars /\ c # NoCar
    BY DEF CloseBy
<1>2. says = {[kind |-> "ENGAGED", side |-> d, car |-> c, start |-> now]}
    BY DEF SideSays
<1>3. after = [close |-> CloseLonger(th.close), last |-> now, tracking |-> c,
               start |-> now, engaged |-> th.engaged \cup {c}]
    BY DEF SideAfter, Approach, StartOfNew
<1>4. \A x \in Cars : hears[x] = IF x = c THEN now ELSE op[x]
    BY <1>2 DEF Heard, Says
<1>5. now \in Times /\ now # Never
    BY ThresholdsAssumption DEF Times, Never
<1>6. hears \in [Cars -> Times]
    BY <1>5, <1>2 DEF Heard, Kept, Says, Times
<1>7. th.last <= now
    <2>1. th.last \in Int
        BY NeverIsBefore DEF Kept, Threat
    <2> QED BY <2>1, ThresholdsAssumption DEF Engages
<1>8. \A x \in Cars : (hears[x] # Never <=> x \in after.engaged) /\ hears[x] <= after.last
    <2> TAKE x \in Cars
    <2>1. op[x] <= th.last /\ (op[x] # Never <=> x \in th.engaged)
        BY DEF Kept
    <2>2. op[x] \in Int /\ th.last \in Int
        BY NeverIsBefore DEF Kept, Threat
    <2> QED BY <1>3, <1>4, <1>5, <1>7, <2>1, <2>2
<1>9. after \in Threat
    BY SideType DEF Kept
<1> QED BY <1>1, <1>3, <1>4, <1>5, <1>6, <1>8, <1>9 DEF Kept

(* ... and broken when the tracked car, no longer the nearest, is given up. *)
LEMMA KeptByGivingUp ==
    ASSUME NEW d \in Sides, NEW th, NEW op, Kept(th, op), NEW c \in Cars \cup {NoCar},
           NEW sight, NEW now \in 0..MaxTime, ~CloseBy(c, sight), Lost(th, c)
    PROVE  Kept(SideAfter(th, c, sight, now),
                Heard(d, op, SideSays(d, th, c, sight, now), now))
<1> DEFINE says == SideSays(d, th, c, sight, now)
           after == SideAfter(th, c, sight, now)
           hears == Heard(d, op, says, now)
<1>1. th \in Threat
    BY DEF Kept
<1>2. /\ after.tracking = NoCar
      /\ after.start = Never
      /\ after.last = th.last
      /\ after.engaged = th.engaged \ {th.tracking}
    BY <1>1 DEF SideAfter, GiveUp, NotTracked, Threat
<1>3. says = IF th.tracking \in th.engaged
             THEN {[kind |-> "BROKEN", side |-> d, car |-> th.tracking, start |-> th.start]}
             ELSE {}
    BY DEF SideSays
<1>4. \A x \in Cars : hears[x] = IF x = th.tracking /\ x \in th.engaged THEN Never ELSE op[x]
    <2>1. CASE th.tracking \in th.engaged
        <3>1. says = {[kind |-> "BROKEN", side |-> d, car |-> th.tracking, start |-> th.start]}
            BY <1>3, <2>1
        <3>2. \A x : /\ ~Says(says, "ENGAGED", d, x)
                     /\ Says(says, "BROKEN", d, x) <=> x = th.tracking
            BY <3>1 DEF Says
        <3> QED BY <2>1, <3>2 DEF Heard
    <2>2. CASE th.tracking \notin th.engaged
        <3>1. says = {}
            BY <1>3, <2>2
        <3>2. \A x : ~Says(says, "ENGAGED", d, x) /\ ~Says(says, "BROKEN", d, x)
            BY <3>1 DEF Says
        <3> QED BY <2>2, <3>2 DEF Heard
    <2> QED BY <2>1, <2>2
<1>5. hears \in [Cars -> Times]
    BY <1>3 DEF Heard, Kept, Says, Times
<1>6. \A x \in Cars : (hears[x] # Never <=> x \in after.engaged) /\ hears[x] <= after.last
    <2> TAKE x \in Cars
    <2>1. op[x] <= th.last /\ (op[x] # Never <=> x \in th.engaged)
        BY DEF Kept
    <2>2. Never <= th.last
        BY <1>1, NeverIsBefore DEF Threat
    <2>3. CASE x = th.tracking /\ x \in th.engaged
        BY <1>2, <1>4, <2>2, <2>3
    <2>4. CASE ~(x = th.tracking /\ x \in th.engaged)
        <3>1. hears[x] = op[x]
            BY <1>4, <2>4
        <3>2. x \in after.engaged <=> x \in th.engaged
            BY <1>2, <2>4
        <3> QED BY <1>2, <2>1, <3>1, <3>2
    <2> QED BY <2>3, <2>4
<1>7. after \in Threat
    BY <1>1, SideType
<1> QED BY <1>2, <1>5, <1>6, <1>7 DEF Kept

(* Otherwise only the count of close frames changes, and nothing is says. *)
LEMMA KeptByWaiting ==
    ASSUME NEW d \in Sides, NEW th, NEW op, Kept(th, op), NEW c \in Cars \cup {NoCar},
           NEW sight, NEW now \in 0..MaxTime,
           IF CloseBy(c, sight) THEN ~Engages(th, c, now) ELSE ~Lost(th, c)
    PROVE  Kept(SideAfter(th, c, sight, now),
                Heard(d, op, SideSays(d, th, c, sight, now), now))
<1> DEFINE says == SideSays(d, th, c, sight, now)
           after == SideAfter(th, c, sight, now)
           hears == Heard(d, op, says, now)
<1>1. th \in Threat
    BY DEF Kept
<1>2. says = {}
    BY DEF SideSays
<1>3. hears = op
    BY <1>2 DEF Heard, Says, Kept
<1>4. /\ after.tracking = th.tracking
      /\ after.start = th.start
      /\ after.last = th.last
      /\ after.engaged = th.engaged
    BY <1>1 DEF SideAfter, Approach, GiveUp, Threat
<1>5. after \in Threat
    BY <1>1, SideType
<1> QED BY <1>3, <1>4, <1>5 DEF Kept

LEMMA SideKept ==
    ASSUME NEW d \in Sides, NEW th, NEW op, Kept(th, op), NEW c \in Cars \cup {NoCar},
           NEW sight, NEW now \in 0..MaxTime
    PROVE  Kept(SideAfter(th, c, sight, now),
                Heard(d, op, SideSays(d, th, c, sight, now), now))
<1>1. CASE CloseBy(c, sight) /\ Engages(th, c, now)
    BY <1>1, KeptByEngaging
<1>2. CASE ~CloseBy(c, sight) /\ Lost(th, c)
    BY <1>2, KeptByGivingUp
<1>3. CASE IF CloseBy(c, sight) THEN ~Engages(th, c, now) ELSE ~Lost(th, c)
    BY <1>3, KeptByWaiting
<1> QED BY <1>1, <1>2, <1>3

(* The events of a frame that name a side are the ones of that side. *)
LEMMA SaidOfSide ==
    ASSUME NEW sight, NEW nearest, NEW now, NEW d \in Sides,
           NEW e \in UNION {SideSays(s, threat[s], nearest[s], sight, now) : s \in Sides},
           e.side = d
    PROVE  e \in SideSays(d, threat[d], nearest[d], sight, now)
<1> PICK s \in Sides : e \in SideSays(s, threat[s], nearest[s], sight, now)
    OBVIOUS
<1>1. e.side = s
    BY DEF SideSays
<1> QED BY <1>1

LEMMA FrameHeard ==
    ASSUME NEW now \in 0..MaxTime, NEW sight \in [Cars -> Sight],
           NEW nearest \in [Sides -> Cars \cup {NoCar}], Classified(now, sight, nearest),
           NEW d \in Sides
    PROVE  open'[d] = Heard(d, open[d], SideSays(d, threat[d], nearest[d], sight, now), now)
<1> DEFINE mine == SideSays(d, threat[d], nearest[d], sight, now)
<1>1. saidThreats' = UNION {SideSays(s, threat[s], nearest[s], sight, now) : s \in Sides}
    BY DEF Classified
<1>2. mine \subseteq saidThreats'
    BY <1>1
<1>3. ASSUME NEW kind, NEW c
      PROVE  Says(saidThreats', kind, d, c) <=> Says(mine, kind, d, c)
    <2>1. Says(mine, kind, d, c) => Says(saidThreats', kind, d, c)
        BY <1>2 DEF Says
    <2>2. ASSUME Says(saidThreats', kind, d, c)
          PROVE  Says(mine, kind, d, c)
        <3>1. PICK e \in saidThreats' : e.kind = kind /\ e.side = d /\ e.car = c
            BY <2>2 DEF Says
        <3>2. e \in mine
            BY <1>1, <3>1, SaidOfSide
        <3> QED BY <3>1, <3>2 DEF Says
    <2> QED BY <2>1, <2>2
<1>4. open'[d] = [c \in Cars |->
                    IF Says(saidThreats', "ENGAGED", d, c) THEN now
                    ELSE IF Says(saidThreats', "BROKEN", d, c) THEN Never ELSE open[d][c]]
    BY DEF Classified
<1> QED BY <1>3, <1>4 DEF Heard
(* The side remembers the time of its last engagement. *)
LEMMA SpokeIsLast ==
    ASSUME NEW now \in 0..MaxTime, NEW sight \in [Cars -> Sight],
           NEW nearest \in [Sides -> Cars \cup {NoCar}], Classified(now, sight, nearest),
           NEW d \in Sides, threat[d] \in Threat, spoke[d] = threat[d].last
    PROVE  spoke'[d] = SideAfter(threat[d], nearest[d], sight, now).last
<1> DEFINE th == threat[d]
           c == nearest[d]
           mine == SideSays(d, th, c, sight, now)
<1>1. saidThreats' = UNION {SideSays(s, threat[s], nearest[s], sight, now) : s \in Sides}
      /\ spoke'[d] = IF Engaging(saidThreats', d) THEN now ELSE spoke[d]
    BY DEF Classified
<1>2. Engaging(saidThreats', d) <=> \E e \in mine : e.kind = "ENGAGED"
    <2>1. ASSUME NEW e \in saidThreats', e.side = d
          PROVE  e \in mine
        BY <1>1, <2>1, SaidOfSide
    <2>2. \A e \in mine : e \in saidThreats' /\ e.side = d
        BY <1>1 DEF SideSays
    <2> QED BY <2>1, <2>2 DEF Engaging
<1>3. CASE CloseBy(c, sight) /\ Engages(th, c, now)
    BY <1>1, <1>2, <1>3 DEF SideSays, SideAfter, Approach
<1>4. CASE CloseBy(c, sight) /\ ~Engages(th, c, now)
    BY <1>1, <1>2, <1>4 DEF SideSays, SideAfter, Approach, Threat
<1>5. CASE ~CloseBy(c, sight)
    <2>1. \A e \in mine : e.kind # "ENGAGED"
        BY <1>5 DEF SideSays
    <2>2. SideAfter(th, c, sight, now).last = th.last
        BY <1>5 DEF SideAfter, GiveUp, Threat
    <2> QED BY <1>1, <1>2, <2>1, <2>2
<1> QED BY <1>3, <1>4, <1>5
-----------------------------------------------------------------------------
LEMMA InitThreatInv == InitThreats => ThreatInv
<1> SUFFICES ASSUME InitThreats PROVE ThreatInv
    OBVIOUS
<1>1. NoThreat \in Threat /\ Never \in Times
    BY ThresholdsAssumption DEF NoThreat, Threat, Times
<1>2. [c \in Cars |-> Never] \in [Cars -> Times]
    BY <1>1
<1>3. Kept(NoThreat, [c \in Cars |-> Never])
    BY <1>1, <1>2, NeverIsBefore DEF Kept, NoThreat
<1>4. NoThreat.last = Never
    BY DEF NoThreat
<1> QED BY <1>1, <1>2, <1>3, <1>4, ThresholdsAssumption DEF InitThreats, ThreatInv

LEMMA StepThreatInv ==
    ASSUME ThreatInv, [ThreatStep]_threatVars
    PROVE  ThreatInv'
<1>1. CASE UnclassifiedFrame
    <2> PICK now \in 0..MaxTime : Unclassified(now)
        BY <1>1 DEF UnclassifiedFrame
    <2> QED BY DEF Unclassified, ThreatInv, heard
<1>2. CASE ClassifiedFrame
    <2> PICK now \in 0..MaxTime, sight \in [Cars -> Sight],
             nearest \in [Sides -> Cars \cup {NoCar}] : Classified(now, sight, nearest)
        BY <1>2 DEF ClassifiedFrame
    <2>1. t' \in 0..MaxTime
        BY DEF Classified
    <2>2. ASSUME NEW d \in Sides
          PROVE  Kept(threat'[d], open'[d]) /\ spoke'[d] = threat'[d].last
        <3>1. threat'[d] = SideAfter(threat[d], nearest[d], sight, now)
            BY DEF Classified
        <3>2. /\ Kept(threat[d], open[d]) /\ nearest[d] \in Cars \cup {NoCar}
              /\ threat[d] \in Threat /\ spoke[d] = threat[d].last
            BY DEF ThreatInv
        <3>3. open'[d] = Heard(d, open[d], SideSays(d, threat[d], nearest[d], sight, now), now)
            BY FrameHeard
        <3>4. spoke'[d] = SideAfter(threat[d], nearest[d], sight, now).last
            BY <3>2, SpokeIsLast
        <3> QED BY <3>1, <3>2, <3>3, <3>4, SideKept
    <2>3. threat' \in [Sides -> Threat]
        BY <2>2 DEF Classified, Kept
    <2>4. open' \in [Sides -> [Cars -> Times]]
        BY <2>2 DEF Classified, Kept
    <2>5. spoke' \in [Sides -> Times]
        BY DEF Classified, Times, ThreatInv
    <2> QED BY <2>1, <2>2, <2>3, <2>4, <2>5 DEF ThreatInv
<1>3. CASE UNCHANGED threatVars
    BY <1>3 DEF threatVars, heard, ThreatInv
<1> QED BY <1>1, <1>2, <1>3 DEF ThreatStep

(* What one frame says, compared with what was said before. *)
LEMMA FrameSaysAsKept ==
    ASSUME ThreatInv, ThreatStep
    PROVE  \A e \in saidThreats' :
             /\ e.kind = "BROKEN" =>
                  open[e.side][e.car] # Never /\ e.start = open[e.side][e.car]
             /\ e.kind = "ENGAGED" => t' - spoke[e.side] > Cooldown
<1>1. CASE UnclassifiedFrame
    BY <1>1 DEF UnclassifiedFrame, Unclassified
<1>2. CASE ClassifiedFrame
    <2> PICK now \in 0..MaxTime, sight \in [Cars -> Sight],
             nearest \in [Sides -> Cars \cup {NoCar}] : Classified(now, sight, nearest)
        BY <1>2 DEF ClassifiedFrame
    <2> TAKE e \in saidThreats'
    <2>1. PICK d \in Sides : e \in SideSays(d, threat[d], nearest[d], sight, now)
        BY DEF Classified
    <2> DEFINE th == threat[d]
    <2>2. Kept(th, open[d]) /\ t' = now
        BY DEF ThreatInv, Classified
    <2>3. CASE /\ CloseBy(nearest[d], sight) /\ Engages(th, nearest[d], now)
               /\ e = [kind |-> "ENGAGED", side |-> d, car |-> nearest[d], start |-> now]
        <3>1. e.kind = "ENGAGED" /\ e.side = d
            BY <2>3
        <3>2. spoke[d] = th.last
            BY DEF ThreatInv
        <3>3. now - th.last > Cooldown
            BY <2>3 DEF Engages
        <3> QED BY <2>2, <3>1, <3>2, <3>3
    <2>4. CASE /\ Lost(th, nearest[d]) /\ th.tracking \in th.engaged
               /\ e = [kind |-> "BROKEN", side |-> d, car |-> th.tracking, start |-> th.start]
        <3>1. e.kind = "BROKEN" /\ e.side = d /\ e.car = th.tracking /\ e.start = th.start
            BY <2>4
        <3>2. th.tracking \in Cars /\ th.tracking # NoCar
            BY <2>2, <2>4, CarsAssumption DEF Kept, Threat, NoCar
        <3>3. open[d][th.tracking] # Never /\ open[d][th.tracking] = th.start
            BY <2>2, <2>4, <3>2 DEF Kept
        <3> QED BY <3>1, <3>3
    <2> QED BY <2>1, <2>3, <2>4 DEF SideSays
<1> QED BY <1>1, <1>2 DEF ThreatStep

(* BATTLE_BROKEN of NarrativeEngine::process_frame closes an engagement that was       *)
(* announced on that side and is still open, and names the time it was announced at.   *)
THEOREM BrokenNamesItsEngagement == ThreatsSpec => BrokenAsEngaged
<1> DEFINE Says1 == \A e \in saidThreats' : e.kind = "BROKEN" =>
                       open[e.side][e.car] # Never /\ e.start = open[e.side][e.car]
<1>1. ThreatInv /\ [ThreatStep]_threatVars => ThreatInv'
    BY StepThreatInv
<1>2. ThreatInv /\ [ThreatStep]_threatVars => [Says1]_threatVars
    BY FrameSaysAsKept
<1> QED BY InitThreatInv, <1>1, <1>2, PTL DEF ThreatsSpec, BrokenAsEngaged

(* Two engagements of one side are more than the cooldown of 30 s apart on the session *)
(* clock, whichever cars come and go and whether or not the first was broken meanwhile; *)
(* a clock that starts again leaves the side quiet until it has passed that time again. *)
THEOREM SidesStayQuiet == ThreatsSpec => QuietAfterEngaging
<1> DEFINE Says2 == \A e \in saidThreats' : e.kind = "ENGAGED" =>
             spoke[e.side] = Never \/ t' - spoke[e.side] > Cooldown
<1>1. ThreatInv /\ [ThreatStep]_threatVars => ThreatInv'
    BY StepThreatInv
<1>2. ThreatInv /\ [ThreatStep]_threatVars => [Says2]_threatVars
    BY FrameSaysAsKept
<1> QED BY InitThreatInv, <1>1, <1>2, PTL DEF ThreatsSpec, QuietAfterEngaging
-----------------------------------------------------------------------------
(* Laps.  What is told at the end of a lap speaks of that lap alone; what the engine   *)
(* keeps lives under the number of the lap, and longer than the session.  LapInv       *)
(* relates the two: whatever disturbed the present lap is on record under its number,  *)
(* where an earlier session may have left more.                                        *)

\* What is recorded under the number of the present lap covers what happened on it.
Recorded ==
    /\ disturbed => prevLap \in dirtyLaps
    /\ pitSpell \in 0..PitFrames
    /\ pitSpell > 0 => prevLap \in Laps
    /\ prevLap \in Laps => pitSpell <= pitFrames[prevLap]

LapInv == LapsTypeOK /\ PitRoadTold /\ Recorded

(* The types of what a frame leaves in the two counters. *)
LEMMA LongerType ==
    ASSUME NEW n \in 0..PitFrames
    PROVE  Longer(n) \in 0..PitFrames /\ Longer(n) >= n
BY LapsAssumption DEF Longer

LEMMA InitLapInv == InitLaps => LapInv
<1> SUFFICES ASSUME InitLaps PROVE LapInv
    OBVIOUS
<1>1. LapsTypeOK
    <2>1. saidLap \in [pit : {"none", "entry", "exit"}, completed : Laps \cup {Unset},
                       clean : BOOLEAN, overtake : BOOLEAN]
        BY DEF InitLaps, Nothing
    <2>2. pitFrames \in [Laps -> 0..PitFrames] /\ restarts \in 0..MaxRestarts
        BY LapsAssumption DEF InitLaps
    <2> QED BY <2>1, <2>2 DEF InitLaps, LapsTypeOK
<1>2. PitRoadTold
    BY DEF InitLaps, PitRoadTold
<1>3. Recorded
    BY LapsAssumption DEF InitLaps, Recorded, Laps, Unset
<1> QED BY <1>1, <1>2, <1>3 DEF LapInv

(* A frame keeps the types.  A lap that is recorded as a pit lap has frames on pit   *)
(* road, each of which made it dirty: that is why pit laps are dirty laps.           *)
DirtyWhenCounted == \A l \in Laps : pitFrames[l] > 0 => l \in dirtyLaps
LEMMA InitDirty == InitLaps => DirtyWhenCounted
BY DEF InitLaps, DirtyWhenCounted, Laps

LEMMA FrameDirty ==
    ASSUME LapsTypeOK, DirtyWhenCounted, NEW f \in LapFrames, ProcessFrame(f)
    PROVE  DirtyWhenCounted'
<1>1. CASE LookAtPit(f)
    BY <1>1 DEF LookAtPit, DirtyWhenCounted
<1>2. CASE Classify(f)
    <2> SUFFICES ASSUME NEW l \in Laps, pitFrames'[l] > 0
                 PROVE  l \in dirtyLaps'
        BY DEF DirtyWhenCounted
    <2>1. f.lap \in Laps /\ f.onPit \in BOOLEAN
        BY DEF LapFrames
    <2>2. dirtyLaps' = DirtyLaps(f) /\ pitFrames' = PitFramesAfter(f)
        BY <1>2 DEF Classify
    <2>3. CASE f.onPit /\ l = f.lap
        BY <2>2, <2>3 DEF DirtyLaps
    <2>4. CASE ~(f.onPit /\ l = f.lap)
        <3>1. pitFrames'[l] = pitFrames[l]
            BY <2>1, <2>2, <2>4 DEF PitFramesAfter, LapsTypeOK
        <3> QED BY <2>2, <3>1 DEF DirtyWhenCounted, DirtyLaps
    <2> QED BY <2>3, <2>4
<1> QED BY <1>1, <1>2 DEF ProcessFrame

LEMMA FrameTypes ==
    ASSUME LapsTypeOK, DirtyWhenCounted, NEW f \in LapFrames, ProcessFrame(f)
    PROVE  LapsTypeOK'
<1>1. f.lap \in Laps /\ f.onPit \in BOOLEAN /\ f.yellow \in BOOLEAN
      /\ f.pos \in Positions \cup {0}
    BY DEF LapFrames
<1>2. PitEdge(f) \in {"none", "entry", "exit"}
    BY DEF PitEdge
<1>3. prevLap' \in Laps \cup {Unset} /\ prevOnPit' \in BOOLEAN
    BY <1>1 DEF ProcessFrame
<1>4. restarts' \in 0..MaxRestarts
    BY LapsAssumption DEF ProcessFrame, NextLap, LapsTypeOK
<1>5. CASE LookAtPit(f)
    <2>1. saidLap' \in [pit : {"none", "entry", "exit"}, completed : Laps \cup {Unset},
                        clean : BOOLEAN, overtake : BOOLEAN]
        BY <1>2, <1>5 DEF LookAtPit, Nothing
    <2> QED BY <1>3, <1>4, <1>5, <2>1 DEF LookAtPit, LapsTypeOK
<1>6. CASE Classify(f)
    <2>1. f.pos \in Positions
        BY <1>1, <1>6 DEF Classify, ClassifiedLap
    <2>2. pitFrames' \in [Laps -> 0..PitFrames]
        BY <1>1, <1>6, LongerType DEF Classify, PitFramesAfter, LapsTypeOK
    <2>3. dirtyLaps' \subseteq Laps
        BY <1>1, <1>6 DEF Classify, DirtyLaps, LapsTypeOK
    <2>4. \A l \in pitLaps' : pitFrames'[l] = PitFrames
        <3> SUFFICES ASSUME NEW l \in pitLaps'
                     PROVE  pitFrames'[l] = PitFrames
            OBVIOUS
        <3>1. CASE l \in pitLaps
            <4>1. l \in Laps /\ pitFrames[l] = PitFrames
                BY <3>1 DEF LapsTypeOK
            <4> QED BY <1>1, <1>6, <4>1, LapsAssumption
                    DEF Classify, PitFramesAfter, Longer, LapsTypeOK
        <3>2. CASE l \notin pitLaps
            <4>1. l = prevLap /\ Crosses(f) /\ PitFramesAfter(f)[prevLap] >= PitFrames
                BY <1>6, <3>2 DEF Classify, PitLapsAfter
            <4>2. l \in Laps
                BY <4>1 DEF Crosses, LapsTypeOK
            <4> QED BY <1>6, <2>2, <4>1, <4>2, LapsAssumption DEF Classify
        <3> QED BY <3>1, <3>2
    <2>5. pitLaps' \subseteq dirtyLaps'
        <3> SUFFICES ASSUME NEW l \in pitLaps'
                     PROVE  l \in dirtyLaps'
            OBVIOUS
        <3>1. l \in Laps
            BY <1>6 DEF Classify, PitLapsAfter, Crosses, LapsTypeOK
        <3>2. pitFrames'[l] > 0
            BY <2>4, LapsAssumption
        <3> QED BY <3>1, <3>2, FrameDirty DEF DirtyWhenCounted
    <2>6. EndPosition(f) \in Positions
        BY <2>1 DEF EndPosition, LapsTypeOK
    <2>7. endPosition' \in [Laps -> Positions \cup {Unset}]
        BY <1>6, <2>6 DEF Classify, EndPositionsAfter, LapsTypeOK
    <2>8. prevPosition' \in Positions \cup {Unset}
        BY <1>6, <2>1 DEF Classify
    <2>9. saidLap' \in [pit : {"none", "entry", "exit"}, completed : Laps \cup {Unset},
                        clean : BOOLEAN, overtake : BOOLEAN]
        BY <1>2, <1>6 DEF Classify, Crosses, Gains, CleanLap, Overtakes, LapsTypeOK
    <2> QED BY <1>3, <1>4, <2>2, <2>3, <2>4, <2>5, <2>7, <2>8, <2>9 DEF LapsTypeOK
<1> QED BY <1>5, <1>6 DEF ProcessFrame

(* A frame keeps the account of pit road. *)
LEMMA FramePit ==
    ASSUME LapsTypeOK, PitRoadTold, NEW f \in LapFrames, ProcessFrame(f)
    PROVE  PitRoadTold'
<1>1. saidLap'.pit = PitEdge(f)
    <2>1. CASE Classify(f)
        BY <2>1 DEF Classify
    <2>2. CASE LookAtPit(f)
        BY <2>2 DEF LookAtPit, Nothing
    <2> QED BY <2>1, <2>2 DEF ProcessFrame
<1>2. f.onPit \in BOOLEAN /\ prevOnPit \in BOOLEAN /\ pitTold = prevOnPit
    BY DEF LapFrames, LapsTypeOK, PitRoadTold
<1>3. prevOnPit' = f.onPit
      /\ pitTold' = CASE saidLap'.pit = "entry" -> TRUE
                      [] saidLap'.pit = "exit" -> FALSE
                      [] OTHER -> pitTold
    BY DEF ProcessFrame
<1> QED BY <1>1, <1>2, <1>3 DEF PitEdge, PitRoadTold

(* A frame records what it saw under the number of its lap. *)
LEMMA FrameRecorded ==
    ASSUME LapsTypeOK, Recorded, NEW f \in LapFrames, ProcessFrame(f)
    PROVE  Recorded'
<1> DEFINE spell == IF f.lap = prevLap THEN pitSpell ELSE 0
           before == IF f.lap = prevLap THEN disturbed ELSE FALSE
<1>1. f.lap \in Laps /\ prevLap' = f.lap
    BY DEF LapFrames, ProcessFrame
<1>2. /\ pitSpell' = IF ClassifiedLap(f) /\ f.onPit THEN Longer(spell) ELSE spell
      /\ disturbed' = (before \/ (ClassifiedLap(f) /\ (f.onPit \/ f.yellow)))
    BY DEF ProcessFrame
<1>3. pitFrames[f.lap] \in 0..PitFrames
    BY <1>1 DEF LapsTypeOK
<1>4. spell \in 0..PitFrames /\ spell <= pitFrames[f.lap]
    BY <1>1, <1>3, LapsAssumption DEF Recorded
<1>5. before => f.lap \in dirtyLaps
    BY DEF Recorded
<1>6. CASE LookAtPit(f)
    BY <1>1, <1>2, <1>4, <1>5, <1>6 DEF LookAtPit, Recorded
<1>7. CASE Classify(f)
    <2>1. dirtyLaps' = DirtyLaps(f) /\ pitFrames' = PitFramesAfter(f) /\ ClassifiedLap(f)
        BY <1>7 DEF Classify
    <2>2. disturbed' => f.lap \in dirtyLaps'
        BY <1>2, <1>5, <2>1 DEF DirtyLaps
    <2>3. pitFrames'[f.lap] = IF f.onPit THEN Longer(pitFrames[f.lap]) ELSE pitFrames[f.lap]
        BY <1>1, <2>1 DEF PitFramesAfter, LapsTypeOK
    <2>4. pitSpell' = IF f.onPit THEN Longer(spell) ELSE spell
        BY <1>2, <2>1
    <2>5. pitSpell' \in 0..PitFrames /\ pitSpell' <= pitFrames'[f.lap]
        BY <1>3, <1>4, <2>3, <2>4, LapsAssumption DEF Longer
    <2> QED BY <1>1, <2>2, <2>5 DEF Recorded
<1> QED BY <1>6, <1>7 DEF ProcessFrame

LEMMA StepLapInv ==
    ASSUME LapInv, DirtyWhenCounted, [LapStep]_lapVars
    PROVE  LapInv' /\ DirtyWhenCounted'
<1>1. CASE LapStep
    <2> PICK f \in LapFrames : ProcessFrame(f)
        BY <1>1 DEF LapStep
    <2> QED BY FrameTypes, FrameDirty, FramePit, FrameRecorded DEF LapInv
<1>2. CASE UNCHANGED lapVars
    BY <1>2 DEF LapInv, DirtyWhenCounted, LapsTypeOK, PitRoadTold, Recorded,
                lapVars, lapEngine, lapTold
<1> QED BY <1>1, <1>2

(* LapsTypeOK is an invariant: among the types, pit laps are dirty laps, whatever    *)
(* session of the weekend they were driven in.                                       *)
THEOREM LapTypes == LapsSpec => []LapsTypeOK
<1> DEFINE Both == LapInv /\ DirtyWhenCounted
<1>1. InitLaps => Both
    BY InitLapInv, InitDirty
<1>2. Both /\ [LapStep]_lapVars => Both'
    BY StepLapInv
<1>3. Both => LapsTypeOK
    BY DEF LapInv
<1> QED BY <1>1, <1>2, <1>3, PTL DEF LapsSpec

(* PIT_ENTRY and PIT_EXIT of NarrativeEngine::process_frame tell where the car is,   *)
(* in classified frames and in all others.                                           *)
THEOREM PitRoadAlwaysTold == LapsSpec => []PitRoadTold
<1> DEFINE Both == LapInv /\ DirtyWhenCounted
<1>1. InitLaps => Both
    BY InitLapInv, InitDirty
<1>2. Both /\ [LapStep]_lapVars => Both'
    BY StepLapInv
<1>3. Both => PitRoadTold
    BY DEF LapInv
<1> QED BY <1>1, <1>2, <1>3, PTL DEF LapsSpec

(* What one frame says of the lap that ended is true of that lap. *)
LEMMA FrameTellsOfLap ==
    ASSUME LapInv, NEW f \in LapFrames, ProcessFrame(f)
    PROVE  /\ saidLap'.completed \in {Unset, prevLap}
           /\ saidLap'.clean => ~disturbed
           /\ saidLap'.overtake => pitSpell < PitFrames
<1>1. CASE LookAtPit(f)
    BY <1>1 DEF LookAtPit, Nothing
<1>2. CASE Classify(f)
    <2>1. /\ saidLap'.completed = (IF Crosses(f) THEN prevLap ELSE Unset)
          /\ saidLap'.clean = (Crosses(f) /\ CleanLap(f))
          /\ saidLap'.overtake = Overtakes(f)
        BY <1>2 DEF Classify
    <2>2. ASSUME Crosses(f), CleanLap(f)
          PROVE  ~disturbed
        BY <2>2 DEF CleanLap, DirtyLaps, LapInv, Recorded
    <2>3. ASSUME Overtakes(f)
          PROVE  pitSpell < PitFrames
        <3>1. prevLap \in Laps /\ f.lap # prevLap /\ f.lap \in Laps
            BY <2>3 DEF Overtakes, Crosses, LapInv, LapsTypeOK, LapFrames
        <3>2. PitFramesAfter(f)[prevLap] = pitFrames[prevLap]
            BY <3>1 DEF PitFramesAfter, LapInv, LapsTypeOK
        <3>3. pitFrames[prevLap] \in 0..PitFrames /\ ~(pitFrames[prevLap] >= PitFrames)
            BY <2>3, <3>1, <3>2 DEF Overtakes, PitLapsAfter, LapInv, LapsTypeOK
        <3> QED BY <3>1, <3>3, LapsAssumption DEF LapInv, Recorded
    <2> QED BY <2>1, <2>2, <2>3
<1> QED BY <1>1, <1>2 DEF ProcessFrame

(* LAP_COMPLETED names the lap that ended, a lap that counts as clean was not         *)
(* disturbed, and no place gained through the pits is an OVERTAKE.                    *)
THEOREM LapsAsDriven == LapsSpec => LapAsDriven
<1> DEFINE Both == LapInv /\ DirtyWhenCounted
           Tells == /\ saidLap'.completed \in {Unset, prevLap}
                    /\ saidLap'.clean => ~disturbed
                    /\ saidLap'.overtake => pitSpell < PitFrames
<1>1. InitLaps => Both
    BY InitLapInv, InitDirty
<1>2. Both /\ [LapStep]_lapVars => Both'
    BY StepLapInv
<1>3. Both /\ [LapStep]_lapVars => [Tells]_lapVars
    BY FrameTellsOfLap DEF LapStep
<1> QED BY <1>1, <1>2, <1>3, PTL DEF LapsSpec, LapAsDriven
-----------------------------------------------------------------------------
(* The composition: each of its behaviours is a behaviour of the part that is followed *)
(* and lets the others stand still, so that what is proved of the parts holds of       *)
(* process_frame as a whole.                                                           *)
THEOREM EachPartIsFollowed ==
    Spec => /\ SessionsSpec /\ ThreatsSpec /\ PairsSpec /\ LapsSpec
            /\ LapEndSpec /\ IncidentsSpec /\ SectorsSpec
<1>1. Init => /\ InitSessions /\ InitThreats /\ InitPairs /\ InitLaps
              /\ InitLapEnd /\ InitIncidents /\ InitSectors
    BY DEF Init
<1>2. [Next]_<<parts, followed>>
            => /\ [SessionStep]_sessionVars
               /\ [ThreatStep]_threatVars
               /\ [PairStep]_pairVars
               /\ [LapStep]_lapVars
               /\ [LapEndStep]_lapEndVars
               /\ [IncidentStep]_incidentVars
               /\ [SectorStep]_sectorVars
    BY DEF Next, parts, FollowSession, FollowThreats, FollowPairs, FollowLaps,
           FollowLapEnd, FollowIncidents, FollowSectors
<1> QED BY <1>1, <1>2, PTL DEF Spec, SessionsSpec, ThreatsSpec, PairsSpec, LapsSpec,
                              LapEndSpec, IncidentsSpec, SectorsSpec
=============================================================================
