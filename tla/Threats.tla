------------------------------ MODULE Threats ------------------------------
(***************************************************************************)
(* The publisher's own fights: the two threats of process_frame            *)
(* (src/engine.rs), the nearest car ahead and the nearest car behind.      *)
(*                                                                         *)
(* Gaps are data: which car is where, and how far, is the input of a       *)
(* frame.  The threats are looked at only in a frame that has the          *)
(* publisher classified and on a lap; the session clock goes on, or starts *)
(* again, in all of them.                                                  *)
(***************************************************************************)
EXTENDS Integers, FiniteSets

CONSTANTS
    Cars,                \* the other cars
    Gaps,                \* the gaps find_cars_ahead and _behind may report
    CloseGap,            \* CLOSE_APPROACH_THRESH_S
    MinFrames,           \* CLOSE_APPROACH_MIN_FRAMES
    Cooldown,            \* the 30 s between two engagements of one side
    MaxTime              \* bound: the session clock

ASSUME CarsAssumption == "none" \notin Cars
ASSUME GapsAssumption == Gaps \subseteq Nat /\ CloseGap \in Nat
ASSUME ThresholdsAssumption ==
    MinFrames \in Nat \ {0} /\ Cooldown \in Nat /\ MaxTime \in Nat

VARIABLES
    t,                   \* session_time
    threat,              \* the engine's state of each side
    saidThreats,         \* the battle events of this frame
    open,                \* for the properties: since when each car counts as engaged
                         \* on each side, by what was said
    spoke                \* for the properties: when each side last said ENGAGED

heard == <<open, spoke>>
threatVars == <<t, threat, saidThreats, heard>>

Sides == {"ahead", "behind"}
NoCar == "none"
Never == -(Cooldown + 1)
Unseen == -1
Sight == [gap : Gaps, side : Sides] \cup {[gap |-> Unseen, side |-> "ahead"]}
InSight(sight, c) == sight[c].gap # Unseen

NoThreat == [close |-> 0, last |-> Never, tracking |-> NoCar, start |-> Never,
             engaged |-> {}]

InitThreats ==
    /\ t = 0
    /\ threat = [d \in Sides |-> NoThreat]
    /\ saidThreats = {}
    /\ open = [d \in Sides |-> [c \in Cars |-> Never]]
    /\ spoke = [d \in Sides |-> Never]
-----------------------------------------------------------------------------
\* find_cars_ahead, find_cars_behind: the nearest car of a side.
On(sight, d) == {c \in Cars : InSight(sight, c) /\ sight[c].side = d}
IsNearest(c, sight, d) ==
    /\ c \in On(sight, d)
    /\ \A other \in On(sight, d) : sight[c].gap <= sight[other].gap
CloseBy(c, sight) == c # NoCar /\ sight[c].gap < CloseGap

(* One side of one frame, with c the nearest car of that side or NoCar.  A close car *)
(* is counted, and engaged after enough frames unless it is the one tracked or the   *)
(* side engaged a car less than Cooldown ago.                                        *)
CloseLonger(n) == IF n < MinFrames THEN n + 1 ELSE MinFrames
EngagesAnew(th, c, now) == th.close + 1 >= MinFrames /\ c # th.tracking
Engages(th, c, now) ==
    /\ th.close + 1 >= MinFrames
    /\ now - th.last > Cooldown
    /\ c # th.tracking
StartOfFirst(th, now) == IF th.tracking = NoCar THEN now ELSE th.start
StartOfNew(th, now) == now
Approach(th, c, now) ==
    IF Engages(th, c, now)
    THEN [close |-> CloseLonger(th.close), last |-> now, tracking |-> c,
          start |-> StartOfNew(th, now), engaged |-> th.engaged \cup {c}]
    ELSE [th EXCEPT !.close = CloseLonger(@)]

\* No close car: the tracked car is given up when it is not the nearest any more, and
\* its engagement, if it has one, is broken.
Lost(th, c) == c # th.tracking
NotTracked(th) == NoCar
GiveUp(th, c) ==
    IF Lost(th, c)
    THEN [th EXCEPT !.close = 0, !.tracking = NotTracked(th), !.start = Never,
                    !.engaged = @ \ {th.tracking}]
    ELSE [th EXCEPT !.close = 0]

SideAfter(th, c, sight, now) ==
    IF CloseBy(c, sight) THEN Approach(th, c, now) ELSE GiveUp(th, c)

SideSays(d, th, c, sight, now) ==
    IF CloseBy(c, sight)
    THEN IF Engages(th, c, now)
         THEN {[kind |-> "ENGAGED", side |-> d, car |-> c, start |-> now]}
         ELSE {}
    ELSE IF Lost(th, c) /\ th.tracking \in th.engaged
         THEN {[kind |-> "BROKEN", side |-> d, car |-> th.tracking, start |-> th.start]}
         ELSE {}
-----------------------------------------------------------------------------
\* The clock goes on, stays, or starts again.
Clock(now) == now \in {t, t + 1, 0} /\ now <= MaxTime

\* pos == 0 || lap < 1: the threats are not looked at.
Unclassified(now) ==
    /\ Clock(now)
    /\ t' = now
    /\ saidThreats' = {}
    /\ UNCHANGED <<threat, heard>>

Says(events, kind, d, c) == \E e \in events : e.kind = kind /\ e.side = d /\ e.car = c
Engaging(events, d) == \E e \in events : e.kind = "ENGAGED" /\ e.side = d

Classified(now, sight, nearest) ==
    /\ Clock(now)
    /\ \A d \in Sides :
        IF On(sight, d) = {}
        THEN nearest[d] = NoCar
        ELSE nearest[d] # NoCar /\ IsNearest(nearest[d], sight, d)
    /\ t' = now
    /\ threat' = [d \in Sides |-> SideAfter(threat[d], nearest[d], sight, now)]
    /\ saidThreats' = UNION {SideSays(d, threat[d], nearest[d], sight, now) : d \in Sides}
    /\ open' = [d \in Sides |-> [c \in Cars |->
                    IF Says(saidThreats', "ENGAGED", d, c) THEN now
                    ELSE IF Says(saidThreats', "BROKEN", d, c) THEN Never ELSE open[d][c]]]
    /\ spoke' = [d \in Sides |-> IF Engaging(saidThreats', d) THEN now ELSE spoke[d]]

UnclassifiedFrame == \E now \in 0..MaxTime : Unclassified(now)
ClassifiedFrame ==
    \E now \in 0..MaxTime, sight \in [Cars -> Sight], nearest \in [Sides -> Cars \cup {NoCar}] :
        Classified(now, sight, nearest)

ThreatStep == UnclassifiedFrame \/ ClassifiedFrame

ThreatsSpec == InitThreats /\ [][ThreatStep]_threatVars
-----------------------------------------------------------------------------
(* BATTLE_BROKEN closes an engagement that was announced on the same side and is not *)
(* closed yet, and names the time that engagement was announced at: not the time of  *)
(* an earlier one, of another car's, or of the same car's on the other side.         *)
BrokenAsEngaged ==
    [][\A e \in saidThreats' : e.kind = "BROKEN" =>
          open[e.side][e.car] # Never /\ e.start = open[e.side][e.car]]_threatVars

(* A side that said ENGAGED says no other before the clock is more than Cooldown past *)
(* the time it had then: whatever cars come and go, and whether or not the engagement *)
(* was broken meanwhile.  When the session clock starts again the side is quiet until *)
(* the clock has passed that time again.                                              *)
QuietAfterEngaging ==
    [][\A e \in saidThreats' : e.kind = "ENGAGED" =>
          spoke[e.side] = Never \/ t' - spoke[e.side] > Cooldown]_threatVars
=============================================================================
