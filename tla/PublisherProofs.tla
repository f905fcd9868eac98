-------------------------- MODULE PublisherProofs --------------------------
(***************************************************************************)
(* What TLAPS proves of Publisher for every field of cars, every cap and   *)
(* every bound: the order of what is enqueued, and the id of what is       *)
(* posted.                                                                 *)
(*                                                                         *)
(* All properties are about the log, and the log only grows: the first     *)
(* lemmas say what a step may add to it (LogGrows), whatever the step is.  *)
(* The invariant then relates the log to what the pipeline keeps: ids only *)
(* go up from what was logged to what is adopted, read, published and live *)
(* (Ids), what is held belongs to the present sub-session (HeldInv), and   *)
(* fresh and emitConnected say truly what this attach has announced        *)
(* (FreshInv).                                                             *)
(***************************************************************************)
EXTENDS Publisher, SequenceTheorems, FiniteSetTheorems, TLAPS

Kinds == {"connected", "hello", "goodbye", "session_reset", "disconnected", "clock_reset",
          "report", "request"}
Entries == [kind : Kinds, stamp : Nat, attach : Nat, request : Nat]
HeldEvents == [car : Cars, event : Entries]

\* Of what iRacing shows, the ids.
SimTypes ==
    /\ {"session", "published"} \subseteq DOMAIN sim
    /\ sim.session \in Nat /\ sim.published \in Nat

Types ==
    /\ SimTypes
    /\ channel \in Seq(Nat)
    /\ pressed \in Nat
    /\ attach \in Nat
    /\ info.session \in Nat
    /\ subSession \in Nat
    /\ fresh \in BOOLEAN
    /\ emitConnected \in BOOLEAN
    /\ held \in Seq(HeldEvents)
    /\ requests \in Seq(Nat)
    /\ log \in Seq(Entries)
    /\ sent \in Seq(Nat)

\* An id that is known is no older than the one in use and than all that was logged.
Bounds(x) == subSession <= x /\ \A i \in 1..Len(log) : log[i].stamp <= x
Ids ==
    /\ info.session <= sim.session
    /\ sim.published <= sim.session
    /\ sim.published > 0 => info.session <= sim.published
    /\ Bounds(sim.session)
    /\ sim.published > 0 => Bounds(sim.published)
    /\ info.session > 0 => Bounds(info.session)
    /\ subSession > 0 => Bounds(subSession)

\* What is held was built under the present id, in this attach.
HeldInv == \A i \in 1..Len(held) : held[i].event = Event("report")

LogInv ==
    \A i \in 1..Len(log) :
        /\ log[i].attach <= attach
        /\ log[i].attach = attach => log[i].stamp <= subSession

\* What this attach has announced.
SaidHere(kind) == \E i \in 1..Len(log) : log[i].kind = kind /\ log[i].attach = attach
GreetedHere ==
    \E i \in 1..Len(log) :
        log[i].kind = "hello" /\ log[i].stamp = subSession /\ log[i].attach = attach
FreshInv ==
    /\ subSession > 0 /\ fresh => pc \in {"roster", "hello"} /\ held = <<>>
    /\ subSession > 0 /\ ~fresh => ~emitConnected /\ GreetedHere
    /\ subSession = 0 => fresh /\ ~SaidHere("hello")
    /\ emitConnected => ~SaidHere("connected") /\ ~SaidHere("hello")
    /\ ~emitConnected => SaidHere("connected")
    /\ fresh /\ SaidHere("hello") =>
         /\ Len(log) >= 2
         /\ log[Len(log) - 1] = Event("goodbye")
         /\ log[Len(log)] = Event("session_reset")

SentInv == Len(sent) <= Len(log)

\* No request has a number that was not pressed yet.
Line == requests \o channel
RequestInv ==
    /\ \A k \in 1..Len(Line) : Line[k] <= pressed
    /\ \A i \in 1..Len(log) : log[i].kind = "request" => log[i].request <= pressed

\* TransitionAnnounced, with the two events before the second HELLO surely there.
AnnouncedInv ==
    \A i, j \in 1..Len(log) :
        /\ i < j
        /\ log[i].kind = "hello" /\ log[j].kind = "hello"
        /\ log[i].attach = log[j].attach
        =>  /\ j > 2
            /\ log[j - 2].kind = "goodbye" /\ log[j - 1].kind = "session_reset"
            /\ log[j - 2].stamp = log[j].stamp /\ log[j - 1].stamp = log[j].stamp
-----------------------------------------------------------------------------
\* Picked elements are elements, at the positions asked for.
LEMMA PickedElements ==
    ASSUME NEW S, NEW s \in Seq(S), NEW I \in SUBSET (1..Len(s)), NEW r \in Picked(s, I)
    PROVE  /\ r \in Seq(S)
           /\ Len(r) = Cardinality(I)
           /\ \A k \in 1..Len(r) : \E i \in I : r[k] = s[i]
<1>1. Len(s) \in Nat /\ \A i \in 1..Len(s) : s[i] \in S
  BY LenProperties, ElementOfSeq
<1>2. Cardinality(I) \in Nat
  <2>1. IsFiniteSet(1..Len(s)) /\ I \subseteq 1..Len(s)
    BY <1>1, FS_Interval
  <2> QED
    BY <2>1, FS_Subset, FS_CardinalityType
<1>3. PICK f \in [1..Cardinality(I) -> I] : r = [k \in DOMAIN f |-> s[f[k]]]
  BY DEF Picked, InOrder
<1>4. r = [k \in 1..Cardinality(I) |-> s[f[k]]] /\ \A k \in 1..Cardinality(I) : f[k] \in I
  BY <1>3
<1>5. \A k \in 1..Cardinality(I) : s[f[k]] \in S
  BY <1>1, <1>4
<1>6. r \in [1..Cardinality(I) -> S]
  BY <1>4, <1>5
<1>7. r \in Seq(S) /\ Len(r) = Cardinality(I)
  BY <1>2, <1>6, LenProperties
<1> QED
  BY <1>4, <1>7

\* What enqueueing does to the positions of the log.
LEMMA Behind ==
    ASSUME NEW S, NEW s \in Seq(S), NEW es \in Seq(S)
    PROVE  /\ s \o es \in Seq(S)
           /\ Len(s) \in Nat /\ Len(es) \in Nat
           /\ Len(s \o es) = Len(s) + Len(es)
           /\ \A i \in 1..Len(s) : (s \o es)[i] = s[i]
           /\ \A i \in (Len(s) + 1)..Len(s \o es) :
                 i - Len(s) \in 1..Len(es) /\ (s \o es)[i] = es[i - Len(s)]
<1>1. Len(s) \in Nat /\ Len(es) \in Nat
  BY LenProperties
<1>2. /\ s \o es \in Seq(S)
      /\ Len(s \o es) = Len(s) + Len(es)
      /\ \A i \in 1..(Len(s) + Len(es)) :
            (s \o es)[i] = IF i <= Len(s) THEN s[i] ELSE es[i - Len(s)]
  BY ConcatProperties
<1> QED
  BY <1>1, <1>2

LEMMA OneBehind ==
    ASSUME NEW S, NEW s \in Seq(S), NEW e \in S
    PROVE  /\ Append(s, e) \in Seq(S)
           /\ Len(s) \in Nat
           /\ Len(Append(s, e)) = Len(s) + 1
           /\ \A i \in 1..Len(s) : Append(s, e)[i] = s[i]
           /\ Append(s, e)[Len(s) + 1] = e
BY AppendProperties, LenProperties

LEMMA EventsAreEntries ==
    ASSUME Types, NEW kind \in Kinds
    PROVE  /\ Event(kind) \in Entries
           /\ Event(kind).kind = kind
           /\ Event(kind).stamp = subSession
           /\ Event(kind).attach = attach
<1>1. subSession \in Nat /\ attach \in Nat
  BY DEF Types
<1> QED
  BY <1>1 DEF Event, Entries

LEMMA UnderIsEntry ==
    ASSUME Types, NEW kind \in Kinds, NEW x \in Nat
    PROVE  /\ Under(x, kind) \in Entries
           /\ Under(x, kind).kind = kind
           /\ Under(x, kind).stamp = x
           /\ Under(x, kind).attach = attach
<1>1. subSession \in Nat /\ attach \in Nat
  BY DEF Types
<1>2. Under(x, kind) = [kind |-> kind, stamp |-> x, attach |-> attach, request |-> 0]
  BY DEF Event, Under
<1> QED
  BY <1>1, <1>2 DEF Entries

LEMMA RequestIsEntry ==
    ASSUME Types, NEW r \in Nat
    PROVE  /\ Request(r) \in Entries
           /\ Request(r).kind = "request"
           /\ Request(r).stamp = subSession
           /\ Request(r).attach = attach
           /\ Request(r).request = r
<1>1. subSession \in Nat /\ attach \in Nat
  BY DEF Types
<1>2. Request(r) = [kind |-> "request", stamp |-> subSession, attach |-> attach, request |-> r]
  BY DEF Event, Request
<1> QED
  BY <1>1, <1>2 DEF Entries, Kinds
-----------------------------------------------------------------------------
\* What a step may add to the log: events of this attach under the id that is known
\* after the step; anything but an opener only once the id was greeted.
New == (Len(log) + 1)..Len(log')
Allowed(e) ==
    /\ e.stamp = subSession'
    /\ e.attach = attach
    /\ attach' = attach
    /\ e.kind \notin Openers =>
         /\ subSession' = subSession
         /\ fresh' = fresh
         /\ subSession > 0 => ~fresh
    /\ e.kind \in {"hello", "connected"} => Hello /\ HelloDue
    /\ e.kind = "disconnected" => subSession > 0
    /\ e.kind = "request" => Controls
LogGrows ==
    /\ log' \in Seq(Entries)
    /\ Len(log) \in Nat /\ Len(log') \in Nat
    /\ Len(log) <= Len(log')
    /\ \A i \in 1..Len(log) : log'[i] = log[i]
    /\ \A i \in New : Allowed(log'[i])

LEMMA LogUnchanged == Types /\ log' = log => LogGrows
BY LenProperties DEF Types, LogGrows, New

LEMMA LogBehind ==
    ASSUME Types, NEW es \in Seq(Entries), log' = log \o es,
           \A k \in 1..Len(es) : Allowed(es[k])
    PROVE  LogGrows
<1>1. log \in Seq(Entries)
  BY DEF Types
<1>2. /\ log' \in Seq(Entries)
      /\ Len(log) \in Nat /\ Len(es) \in Nat
      /\ Len(log') = Len(log) + Len(es)
      /\ \A i \in 1..Len(log) : log'[i] = log[i]
      /\ \A i \in New : i - Len(log) \in 1..Len(es) /\ log'[i] = es[i - Len(log)]
  BY <1>1, Behind DEF New
<1>3. \A i \in New : Allowed(log'[i])
  <2> TAKE i \in New
  <2>1. i - Len(log) \in 1..Len(es) /\ log'[i] = es[i - Len(log)]
    BY <1>2
  <2>2. Allowed(es[i - Len(log)])
    BY <2>1
  <2> QED
    BY <2>1, <2>2
<1>4. Len(log') \in Nat /\ Len(log) <= Len(log')
  BY <1>2
<1> QED
  BY <1>2, <1>3, <1>4 DEF LogGrows

LEMMA LogOneBehind ==
    ASSUME Types, NEW e \in Entries, log' = Append(log, e), Allowed(e)
    PROVE  LogGrows
<1>1. log \in Seq(Entries)
  BY DEF Types
<1>2. /\ log' \in Seq(Entries)
      /\ Len(log) \in Nat /\ Len(log') = Len(log) + 1
      /\ \A i \in 1..Len(log) : log'[i] = log[i]
      /\ log'[Len(log) + 1] = e
  BY <1>1, OneBehind
<1>3. \A i \in New : i = Len(log) + 1
  BY <1>2 DEF New
<1> QED
  BY <1>2, <1>3 DEF LogGrows

\* Past the greeting, whatever the id, an event of that id may be logged.
LEMMA ReportAllowed ==
    ASSUME Types, FreshInv, pc \notin {"roster", "hello"},
           NEW kind \in Kinds, kind \notin {"hello", "connected", "disconnected", "request"},
           UNCHANGED <<attach, subSession, fresh>>
    PROVE  Event(kind) \in Entries /\ Allowed(Event(kind))
BY EventsAreEntries DEF Allowed, FreshInv

LEMMA AdoptLogs ==
    ASSUME Types, Adopt, Departing
    PROVE  /\ LogGrows
           /\ Len(log') = Len(log) + 2
           /\ log'[Len(log) + 1] = Event("goodbye")'
           /\ log'[Len(log) + 2] = Event("session_reset")'
<1>1. info.session \in Nat /\ log \in Seq(Entries)
  BY DEF Types
<1> DEFINE g == Under(info.session, "goodbye")
           r == Under(info.session, "session_reset")
<1>2. /\ log' = Append(Append(log, g), r)
      /\ subSession' = info.session /\ attach' = attach
  BY DEF Adopt
<1>3. g \in Entries /\ r \in Entries
  BY <1>1, UnderIsEntry DEF Kinds
<1>4. g = Event("goodbye")' /\ r = Event("session_reset")'
  <2>1. g = [kind |-> "goodbye", stamp |-> info.session, attach |-> attach, request |-> 0]
    BY DEF Event, Under
  <2>2. r = [kind |-> "session_reset", stamp |-> info.session, attach |-> attach, request |-> 0]
    BY DEF Event, Under
  <2> QED
    BY <1>2, <2>1, <2>2 DEF Event
<1>5. Allowed(g) /\ Allowed(r)
  <2>1. /\ g.kind = "goodbye" /\ g.stamp = info.session /\ g.attach = attach
        /\ r.kind = "session_reset" /\ r.stamp = info.session /\ r.attach = attach
    BY <1>1, UnderIsEntry DEF Kinds
  <2> QED
    BY <1>2, <2>1 DEF Allowed, Openers
<1> HIDE DEF g, r
<1>6. /\ Append(log, g) \in Seq(Entries)
      /\ Len(log) \in Nat
      /\ Len(Append(log, g)) = Len(log) + 1
      /\ \A i \in 1..Len(log) : Append(log, g)[i] = log[i]
      /\ Append(log, g)[Len(log) + 1] = g
  BY <1>1, <1>3, OneBehind
<1>7. /\ log' \in Seq(Entries)
      /\ Len(log') = Len(log) + 2
      /\ \A i \in 1..(Len(log) + 1) : log'[i] = Append(log, g)[i]
      /\ log'[Len(log) + 2] = r
  <2>1. /\ log' \in Seq(Entries)
        /\ Len(log') = Len(Append(log, g)) + 1
        /\ \A i \in 1..Len(Append(log, g)) : log'[i] = Append(log, g)[i]
        /\ log'[Len(Append(log, g)) + 1] = r
    BY <1>2, <1>3, <1>6, OneBehind
  <2> QED
    BY <2>1, <1>6
<1>8. \A i \in 1..Len(log) : log'[i] = log[i]
  BY <1>6, <1>7
<1>9. log'[Len(log) + 1] = g
  BY <1>6, <1>7
<1>10. \A i \in New : log'[i] = g \/ log'[i] = r
  BY <1>6, <1>7, <1>9 DEF New
<1> QED
  BY <1>4, <1>5, <1>6, <1>7, <1>8, <1>9, <1>10 DEF LogGrows

LEMMA HelloLogs ==
    ASSUME Types, Hello, HelloDue
    PROVE  /\ LogGrows
           /\ emitConnected =>
                /\ Len(log') = Len(log) + 2
                /\ log'[Len(log) + 1] = Event("connected")
                /\ log'[Len(log) + 2] = Event("hello")
           /\ ~emitConnected =>
                Len(log') = Len(log) + 1 /\ log'[Len(log) + 1] = Event("hello")
<1> DEFINE c == Event("connected")
           h == Event("hello")
<1>1. /\ log' = log \o Opening
      /\ attach' = attach /\ subSession' = subSession
  BY DEF Hello, Enqueued
<1>2. Opening = IF emitConnected THEN <<c, h>> ELSE <<h>>
  BY DEF Opening
<1>3. c \in Entries /\ h \in Entries /\ Allowed(c) /\ Allowed(h)
  <2>1. /\ c \in Entries /\ c.kind = "connected" /\ c.stamp = subSession /\ c.attach = attach
        /\ h \in Entries /\ h.kind = "hello" /\ h.stamp = subSession /\ h.attach = attach
    BY EventsAreEntries DEF Kinds
  <2> QED
    BY <1>1, <2>1 DEF Allowed, Openers
<1> HIDE DEF c, h
<1>4. /\ Opening \in Seq(Entries)
      /\ \A k \in 1..Len(Opening) : Opening[k] \in {c, h}
      /\ Len(Opening) = IF emitConnected THEN 2 ELSE 1
  BY <1>2, <1>3
<1>5. LogGrows
  <2>1. \A k \in 1..Len(Opening) : Allowed(Opening[k])
    BY <1>3, <1>4
  <2> QED
    BY <1>1, <1>4, <2>1, LogBehind
<1>6. /\ Len(log) \in Nat /\ Len(log') = Len(log) + Len(Opening)
      /\ \A i \in (Len(log) + 1)..Len(log') : log'[i] = Opening[i - Len(log)]
  <2>1. log \in Seq(Entries)
    BY DEF Types
  <2> QED
    BY <1>1, <1>4, <2>1, Behind
<1>7. CASE emitConnected
  <2>1. Opening[1] = c /\ Opening[2] = h /\ Len(log') = Len(log) + 2
    BY <1>2, <1>4, <1>6, <1>7
  <2> QED
    BY <1>5, <1>6, <1>7, <2>1 DEF c, h
<1>8. CASE ~emitConnected
  <2>1. Opening[1] = h /\ Len(log') = Len(log) + 1
    BY <1>2, <1>4, <1>6, <1>8
  <2> QED
    BY <1>5, <1>6, <1>8, <2>1 DEF h
<1> QED
  BY <1>7, <1>8

LEMMA FunctionIsSeq ==
    ASSUME NEW S, NEW n \in Nat, NEW f \in [1..n -> S]
    PROVE  f \in Seq(S) /\ Len(f) = n
<1>1. f \in Seq(S)
  OBVIOUS
<1> QED
  BY <1>1, LenProperties

LEMMA WaitingProperties ==
    ASSUME Types
    PROVE  /\ Waiting \in Seq(Nat)
           /\ Len(Waiting) <= Len(requests \o channel)
           /\ \A i \in 1..Len(Waiting) : Waiting[i] = (requests \o channel)[i]
           /\ requests \o channel \in Seq(Nat)
<1> DEFINE all == requests \o channel
<1>1. all \in Seq(Nat)
  BY ConcatProperties DEF Types
<1>2. Waiting = IF Len(all) <= RequestCap THEN all ELSE SubSeq(all, 1, RequestCap)
  BY DEF Waiting
<1> HIDE DEF all
<1>3. Len(all) \in Nat /\ RequestCap \in Nat /\ \A i \in 1..Len(all) : all[i] \in Nat
  BY <1>1, LenProperties, ElementOfSeq, CapsAssumption
<1>4. CASE Len(all) <= RequestCap
  BY <1>1, <1>2, <1>3, <1>4 DEF all
<1>5. CASE ~(Len(all) <= RequestCap)
  <2>1. \A i \in 1..RequestCap : all[i] \in Nat
    BY <1>3, <1>5
  <2>2. /\ SubSeq(all, 1, RequestCap) \in Seq(Nat)
        /\ Len(SubSeq(all, 1, RequestCap)) = IF 1 <= RequestCap THEN RequestCap - 1 + 1 ELSE 0
        /\ \A i \in 1..(RequestCap - 1 + 1) : SubSeq(all, 1, RequestCap)[i] = all[1 + i - 1]
    BY <1>3, <2>1, SubSeqProperties
  <2>3. Len(SubSeq(all, 1, RequestCap)) = RequestCap
    BY <2>2, <1>3
  <2>4. \A i \in 1..RequestCap : SubSeq(all, 1, RequestCap)[i] = all[i]
    BY <2>2, <1>3
  <2> QED
    BY <1>1, <1>2, <1>3, <1>5, <2>2, <2>3, <2>4 DEF all
<1> QED
  BY <1>4, <1>5

\* Of the held events those come out that the roster can name, all of this sub-session.
LEMMA UpdateRosterLogs ==
    ASSUME Types, FreshInv, HeldInv, UpdateRoster
    PROVE  /\ LogGrows
           /\ held' \in Seq(HeldEvents)
           /\ \A k \in 1..Len(held') : held'[k].event = Event("report")
           /\ held = <<>> => held' = <<>> /\ Len(log') = Len(log)
<1> DEFINE named == {i \in DOMAIN held : held[i].car \in roster'.named}
<1>1. held \in Seq(HeldEvents) /\ DOMAIN held = 1..Len(held) /\ Len(held) \in Nat
  BY LenProperties DEF Types
<1>2. named \in SUBSET (1..Len(held)) /\ DOMAIN held \ named \in SUBSET (1..Len(held))
  BY <1>1
<1>3. CASE subSession > 0
  <2>1. held' \in Picked(held, DOMAIN held \ named)
    BY <1>3 DEF UpdateRoster
  <2>2. PICK released \in Picked(held, named) :
           log' = log \o [i \in DOMAIN released |-> released[i].event]
    BY <1>3 DEF UpdateRoster, Enqueued
  <2> HIDE DEF named
  <2>3. /\ released \in Seq(HeldEvents)
        /\ Len(released) = Cardinality(named)
        /\ \A k \in 1..Len(released) : \E i \in named : released[k] = held[i]
    BY <1>1, <1>2, PickedElements
  <2>4. /\ held' \in Seq(HeldEvents)
        /\ Len(held') = Cardinality(DOMAIN held \ named)
        /\ \A k \in 1..Len(held') : \E i \in DOMAIN held \ named : held'[k] = held[i]
    BY <1>1, <1>2, <2>1, PickedElements
  <2>5. \A k \in 1..Len(held') : held'[k].event = Event("report")
    BY <1>1, <2>4 DEF HeldInv
  <2>6. \A k \in 1..Len(released) : released[k].event = Event("report")
    BY <1>1, <1>2, <2>3 DEF HeldInv
  <2> DEFINE es == [i \in DOMAIN released |-> released[i].event]
  <2>7. Len(released) \in Nat /\ DOMAIN released = 1..Len(released)
    BY <2>3, LenProperties
  <2>8. Event("report") \in Entries
    BY EventsAreEntries DEF Kinds
  <2>9. es \in [1..Len(released) -> Entries] /\ \A k \in 1..Len(released) : es[k] = Event("report")
    BY <2>6, <2>7, <2>8
  <2>10. es \in Seq(Entries) /\ Len(es) = Len(released)
    BY <2>7, <2>9, FunctionIsSeq
  <2>11. ASSUME NEW k \in 1..Len(released) PROVE Allowed(Event("report"))
    <3>1. ~fresh
      <4>1. PICK i \in named : released[k] = held[i]
        BY <2>3
      <4>2. held # <<>>
        BY <1>1, <1>2, <4>1, EmptySeq
      <4> QED
        BY <4>2, <1>3 DEF FreshInv, Types
    <3>2. UNCHANGED <<attach, subSession, fresh>>
      BY DEF UpdateRoster, lifecycle
    <3>3. Event("report").kind = "report" /\ Event("report").stamp = subSession
          /\ Event("report").attach = attach
      BY EventsAreEntries DEF Kinds
    <3> QED
      BY <3>1, <3>2, <3>3 DEF Allowed
  <2>12. \A k \in 1..Len(es) : Allowed(es[k])
    BY <2>9, <2>10, <2>11
  <2>13. log' = log \o es
    BY <2>2
  <2> HIDE DEF es
  <2>14. LogGrows
    BY <2>10, <2>12, <2>13, LogBehind
  <2>15. ASSUME held = <<>> PROVE held' = <<>> /\ Len(log') = Len(log)
    <3>1. named = {} /\ DOMAIN held \ named = {}
      BY <1>1, <1>2, <2>15, EmptySeq
    <3>2. Len(released) = 0 /\ Len(held') = 0
      BY <2>3, <2>4, <3>1, FS_EmptySet
    <3>3. log \in Seq(Entries)
      BY DEF Types
    <3>4. Len(log \o es) = Len(log) + Len(es) /\ Len(log) \in Nat
      BY <2>10, <3>3, Behind
    <3> QED
      BY <2>4, <2>10, <2>13, <3>2, <3>4, EmptySeq
  <2> QED
    BY <2>4, <2>5, <2>14, <2>15
<1>4. CASE ~(subSession > 0)
  <2>1. UNCHANGED <<log, held>>
    BY <1>4 DEF UpdateRoster
  <2> QED
    BY <1>1, <2>1, LogUnchanged DEF HeldInv
<1> QED
  BY <1>3, <1>4

LEMMA ControlsLogs ==
    ASSUME Types, FreshInv, Controls, Waiting # <<>>, Player \in roster.named
    PROVE  /\ LogGrows
           /\ Len(log') = Len(log) + Len(Waiting)
           /\ \A i \in New : log'[i].kind = "request" /\ log'[i].request = Waiting[i - Len(log)]
<1> DEFINE es == [i \in DOMAIN Waiting |-> Request(Waiting[i])]
<1>1. Waiting \in Seq(Nat)
  BY WaitingProperties
<1>2. Len(Waiting) \in Nat /\ DOMAIN Waiting = 1..Len(Waiting)
  BY <1>1, LenProperties
<1>3. \A i \in 1..Len(Waiting) :
         /\ Request(Waiting[i]) \in Entries
         /\ Request(Waiting[i]).kind = "request"
         /\ Request(Waiting[i]).stamp = subSession
         /\ Request(Waiting[i]).attach = attach
         /\ Request(Waiting[i]).request = Waiting[i]
  BY <1>1, ElementOfSeq, RequestIsEntry
<1>4. es \in [1..Len(Waiting) -> Entries]
      /\ \A i \in 1..Len(Waiting) : es[i] = Request(Waiting[i])
  BY <1>2, <1>3
<1>5. es \in Seq(Entries) /\ Len(es) = Len(Waiting)
  BY <1>2, <1>4, FunctionIsSeq
<1>6. /\ log' = log \o es
      /\ pc = "controls"
      /\ UNCHANGED <<attach, subSession, fresh>>
  BY DEF Controls, Enqueued, identity, lifecycle
<1>7. \A i \in 1..Len(Waiting) : Allowed(Request(Waiting[i]))
  <2> TAKE i \in 1..Len(Waiting)
  <2>1. /\ Request(Waiting[i]).kind = "request"
        /\ Request(Waiting[i]).stamp = subSession
        /\ Request(Waiting[i]).attach = attach
    BY <1>3
  <2>2. subSession > 0 => ~fresh
    BY <1>6 DEF FreshInv
  <2> QED
    BY <1>6, <2>1, <2>2 DEF Allowed
<1>8. \A i \in 1..Len(es) : Allowed(es[i])
  BY <1>4, <1>5, <1>7
<1> HIDE DEF es
<1>9. LogGrows
  BY <1>5, <1>6, <1>8, LogBehind
<1>10. /\ Len(log') = Len(log) + Len(es)
       /\ \A i \in New : i - Len(log) \in 1..Len(es) /\ log'[i] = es[i - Len(log)]
  <2>1. log \in Seq(Entries)
    BY DEF Types
  <2>2. /\ Len(log \o es) = Len(log) + Len(es)
        /\ \A i \in (Len(log) + 1)..Len(log \o es) :
              i - Len(log) \in 1..Len(es) /\ (log \o es)[i] = es[i - Len(log)]
    BY <1>5, <2>1, Behind
  <2> QED
    BY <1>6, <2>2 DEF New
<1>11. \A i \in New : log'[i].kind = "request" /\ log'[i].request = Waiting[i - Len(log)]
  <2> TAKE i \in New
  <2>1. i - Len(log) \in 1..Len(Waiting) /\ log'[i] = Request(Waiting[i - Len(log)])
    BY <1>4, <1>5, <1>10
  <2> QED
    BY <1>3, <2>1
<1> QED
  BY <1>5, <1>9, <1>10, <1>11

LEMMA PeriodicLogs == Types /\ FreshInv /\ Periodic => LogGrows
<1> SUFFICES ASSUME Types, FreshInv, Periodic PROVE LogGrows
  OBVIOUS
<1>1. PICK n \in 0..(IF Player \in roster.named THEN 2 ELSE 1) :
         log' = log \o [i \in 1..n |-> Event("report")]
  BY DEF Periodic, Enqueued
<1> DEFINE es == [i \in 1..n |-> Event("report")]
<1>2. /\ pc = "periodic"
      /\ UNCHANGED <<attach, subSession, fresh>>
  BY DEF Periodic, identity, lifecycle
<1>3. Event("report") \in Entries /\ Allowed(Event("report"))
  BY <1>2, ReportAllowed DEF Kinds
<1>4. n \in Nat /\ es \in [1..n -> Entries] /\ \A i \in 1..n : es[i] = Event("report")
  BY <1>3
<1>5. es \in Seq(Entries) /\ Len(es) = n
  BY <1>4, FunctionIsSeq
<1>6. \A i \in 1..Len(es) : Allowed(es[i])
  BY <1>3, <1>4, <1>5
<1>7. log' = log \o es
  BY <1>1
<1> HIDE DEF es
<1> QED
  BY <1>5, <1>6, <1>7, LogBehind

LEMMA LogStep == Types /\ FreshInv /\ HeldInv /\ [Next]_vars => LogGrows
<1> SUFFICES ASSUME Types, FreshInv, HeldInv, [Next]_vars PROVE LogGrows
  OBVIOUS
<1>1. CASE World
  BY <1>1, LogUnchanged DEF World, SimStart, SimStop, SimAdvance, SimClock, SimPublishes,
                            Press, CtrlC, pipeline, output
<1>2. CASE Connect \/ NotConnected \/ FirstFrame \/ Leave \/ ReadFrame \/ SkipInfo
           \/ InfoUnavailable \/ ReadInfo \/ KeepSession \/ NoStateChange \/ EngineDone
           \/ Tick \/ Exited \/ UNCHANGED vars
  BY <1>2, LogUnchanged DEF Connect, NotConnected, FirstFrame, Leave, ReadFrame, SkipInfo,
       InfoUnavailable, ReadInfo, KeepSession, NoStateChange, EngineDone, Tick, Exited,
       output, vars
<1>3. CASE Detach
  <2>1. CASE subSession > 0 /\ hasFrame
    <3>1. log' = Append(log, Event("disconnected")) /\ pc = "loop"
          /\ UNCHANGED <<attach, subSession, fresh>>
      BY <1>3, <2>1 DEF Detach, identity, lifecycle
    <3>2. /\ Event("disconnected") \in Entries
          /\ Event("disconnected").kind = "disconnected"
          /\ Event("disconnected").stamp = subSession
          /\ Event("disconnected").attach = attach
      BY EventsAreEntries DEF Kinds
    <3>3. Allowed(Event("disconnected"))
      BY <2>1, <3>1, <3>2 DEF Allowed, FreshInv
    <3> QED
      BY <3>1, <3>2, <3>3, LogOneBehind
  <2>2. CASE ~(subSession > 0 /\ hasFrame)
    BY <1>3, <2>2, LogUnchanged DEF Detach
  <2> QED
    BY <2>1, <2>2
<1>4. CASE Adopt
  <2>1. CASE Departing
    BY <1>4, <2>1, AdoptLogs
  <2>2. CASE ~Departing
    BY <1>4, <2>2, LogUnchanged DEF Adopt
  <2> QED
    BY <2>1, <2>2
<1>5. CASE UpdateRoster
  BY <1>5, UpdateRosterLogs
<1>6. CASE Hello
  <2>1. CASE HelloDue
    BY <1>6, <2>1, HelloLogs
  <2>2. CASE ~HelloDue
    BY <1>6, <2>2, LogUnchanged DEF Hello
  <2> QED
    BY <2>1, <2>2
<1>7. CASE CheckClock
  <2>1. pc = "clock" /\ UNCHANGED <<attach, subSession, fresh>>
    BY <1>7 DEF CheckClock, lifecycle
  <2>2. log' = Append(log, Event("clock_reset")) \/ log' = log
    BY <1>7 DEF CheckClock
  <2>3. Event("clock_reset") \in Entries /\ Allowed(Event("clock_reset"))
    BY <2>1, ReportAllowed DEF Kinds
  <2> QED
    BY <2>2, <2>3, LogOneBehind, LogUnchanged
<1>8. CASE ReportState \/ EngineEvent
  <2>1. pc \in {"state", "engine"} /\ UNCHANGED <<attach, subSession, fresh>>
    BY <1>8 DEF ReportState, EngineEvent, identity, lifecycle
  <2>2. log' = Append(log, Event("report")) \/ log' = log
    BY <1>8 DEF ReportState, EngineEvent
  <2>3. Event("report") \in Entries /\ Allowed(Event("report"))
    BY <2>1, ReportAllowed DEF Kinds
  <2> QED
    BY <2>2, <2>3, LogOneBehind, LogUnchanged
<1>9. CASE Controls
  <2>1. CASE Waiting # <<>> /\ Player \in roster.named
    BY <1>9, <2>1, ControlsLogs
  <2>2. CASE ~(Waiting # <<>> /\ Player \in roster.named)
    BY <1>9, <2>2, LogUnchanged DEF Controls
  <2> QED
    BY <2>1, <2>2
<1>10. CASE Periodic
  BY <1>10, PeriodicLogs
<1>11. CASE Close
  <2>1. /\ log' = Append(log, Event("goodbye")) \/ log' = log
        /\ UNCHANGED <<attach, subSession, fresh>>
    BY <1>11 DEF Close, identity, lifecycle
  <2>2. Event("goodbye") \in Entries /\ Event("goodbye").kind = "goodbye"
        /\ Event("goodbye").stamp = subSession /\ Event("goodbye").attach = attach
    BY EventsAreEntries DEF Kinds
  <2>3. Allowed(Event("goodbye"))
    BY <2>1, <2>2 DEF Allowed, Openers
  <2> QED
    BY <2>1, <2>2, <2>3, LogOneBehind, LogUnchanged
<1> QED
  BY <1>1, <1>2, <1>3, <1>4, <1>5, <1>6, <1>7, <1>8, <1>9, <1>10, <1>11 DEF Next, Step
-----------------------------------------------------------------------------
\* A flush puts the one envelope on everything that leaves the queue.
LEMMA FlushedProperties ==
    ASSUME NEW l, Len(l) \in Nat, sent \in Seq(Nat), Len(sent) <= Len(l),
           NEW env \in Nat, NEW s \in Flushed(l, env)
    PROVE  /\ s \in Seq(Nat)
           /\ Len(s) \in Nat /\ Len(s) <= Len(l)
           /\ \A i \in 1..Len(s) : (i \in 1..Len(sent) /\ s[i] = sent[i]) \/ s[i] = env
<1>1. Len(sent) \in Nat
  BY LenProperties
<1>2. CASE s = sent
  BY <1>1, <1>2
<1>3. CASE \E n \in 1..Backlog(l) : s = sent \o [i \in 1..n |-> env]
  <2>1. PICK n \in 1..Backlog(l) : s = sent \o [i \in 1..n |-> env]
    BY <1>3
  <2>2. n \in Nat /\ Len(sent) + n <= Len(l)
    BY <1>1 DEF Backlog
  <2> DEFINE es == [i \in 1..n |-> env]
  <2>3. es \in [1..n -> Nat] /\ \A i \in 1..n : es[i] = env
    OBVIOUS
  <2>4. es \in Seq(Nat) /\ Len(es) = n
    BY <2>2, <2>3, FunctionIsSeq
  <2> HIDE DEF es
  <2>5. s = sent \o es
    BY <2>1 DEF es
  <2>6. /\ s \in Seq(Nat)
        /\ Len(s) = Len(sent) + n
        /\ \A i \in 1..Len(sent) : s[i] = sent[i]
        /\ \A i \in (Len(sent) + 1)..Len(s) : i - Len(sent) \in 1..n /\ s[i] = es[i - Len(sent)]
    BY <2>4, <2>5, Behind
  <2>7. \A i \in (Len(sent) + 1)..Len(s) : s[i] = env
    BY <2>3, <2>6
  <2> QED
    BY <1>1, <2>2, <2>6, <2>7
<1>4. s = sent \/ \E n \in 1..Backlog(l) : s = sent \o [i \in 1..n |-> env]
  BY DEF Flushed
<1> QED
  BY <1>2, <1>3, <1>4

\* Whatever leaves the queue in a step leaves it under the id known after the step.
LEMMA SentStep ==
    ASSUME Types, FreshInv, HeldInv, SentInv, [Next]_vars
    PROVE  /\ sent' \in Seq(Nat)
           /\ SentInv'
           /\ \A i \in 1..Len(sent') :
                 (i \in 1..Len(sent) /\ sent'[i] = sent[i]) \/ sent'[i] = subSession'
<1>1. LogGrows
  BY LogStep
<1>2. sent \in Seq(Nat) /\ Len(sent) \in Nat /\ Len(sent) <= Len(log) /\ subSession \in Nat
      /\ info.session \in Nat
  BY LenProperties DEF Types, SentInv
<1>3. Len(log) \in Nat /\ Len(log') \in Nat /\ Len(log) <= Len(log')
  BY <1>1 DEF LogGrows
<1>4. CASE sent' = sent
  BY <1>2, <1>3, <1>4 DEF SentInv
<1>5. ASSUME sent' \in Flushed(log', subSession), subSession' = subSession
      PROVE  /\ sent' \in Seq(Nat)
             /\ Len(sent') <= Len(log')
             /\ \A i \in 1..Len(sent') :
                   (i \in 1..Len(sent) /\ sent'[i] = sent[i]) \/ sent'[i] = subSession
  <2>1. Len(sent) <= Len(log')
    BY <1>2, <1>3
  <2> QED
    BY <1>2, <1>3, <1>5, <2>1, FlushedProperties
<1>6. CASE World
  BY <1>4, <1>6 DEF World, SimStart, SimStop, SimAdvance, SimClock, SimPublishes,
                    Press, CtrlC, pipeline, output
<1>7. CASE Connect \/ NotConnected \/ FirstFrame \/ Leave \/ ReadFrame \/ SkipInfo
           \/ InfoUnavailable \/ ReadInfo \/ KeepSession \/ NoStateChange \/ EngineDone
           \/ UpdateRoster \/ Hello \/ CheckClock \/ ReportState \/ EngineEvent \/ Periodic
           \/ Exited \/ UNCHANGED vars
  BY <1>4, <1>7 DEF Connect, NotConnected, FirstFrame, Leave, ReadFrame, SkipInfo,
       InfoUnavailable, ReadInfo, KeepSession, NoStateChange, EngineDone, UpdateRoster, Hello,
       CheckClock, ReportState, EngineEvent, Periodic, Exited, output, vars
<1>8. CASE Detach \/ Controls \/ Close
  <2>1. subSession' = subSession /\ (sent' = sent \/ sent' \in Flushed(log', subSession))
    BY <1>8 DEF Detach, Controls, Close, identity
  <2> QED
    BY <1>4, <1>5, <2>1 DEF SentInv
<1>9. CASE Tick
  <2>1. subSession' = subSession /\ log' = log
        /\ (sent' = sent \/ sent' \in Flushed(log, subSession))
    BY <1>9 DEF Tick, identity
  <2> QED
    BY <1>4, <1>5, <2>1 DEF SentInv
<1>10. CASE Adopt
  <2>1. CASE Departing
    <3> DEFINE goodbye == Append(log, Under(info.session, "goodbye"))
    <3>1. sent' \in Flushed(goodbye, info.session) /\ subSession' = info.session
      BY <1>10, <2>1 DEF Adopt, TransitionEnvelope
    <3>2. Len(goodbye) = Len(log) + 1
      <4>1. log \in Seq(Entries) /\ Under(info.session, "goodbye") \in Entries
        BY <1>2, UnderIsEntry DEF Types, Kinds
      <4> QED
        BY <4>1, OneBehind
    <3>3. Len(log') = Len(log) + 2
      BY <1>10, <2>1, AdoptLogs
    <3> HIDE DEF goodbye
    <3>4. Len(goodbye) \in Nat /\ Len(sent) <= Len(goodbye)
      BY <1>2, <1>3, <3>2
    <3>5. /\ sent' \in Seq(Nat)
          /\ Len(sent') \in Nat /\ Len(sent') <= Len(goodbye)
          /\ \A i \in 1..Len(sent') :
                (i \in 1..Len(sent) /\ sent'[i] = sent[i]) \/ sent'[i] = info.session
      BY <1>2, <3>1, <3>4, FlushedProperties
    <3>6. Len(sent') <= Len(log')
      BY <1>3, <3>2, <3>3, <3>5
    <3> QED
      BY <3>1, <3>5, <3>6 DEF SentInv
  <2>2. CASE ~Departing
    BY <1>4, <1>10, <2>2 DEF Adopt
  <2> QED
    BY <2>1, <2>2
<1> QED
  BY <1>6, <1>7, <1>8, <1>9, <1>10 DEF Next, Step

\* The steps that change which attach, id or announcement it is.
Same == UNCHANGED <<attach, subSession, fresh, emitConnected>>
LEMMA Turns ==
    [Next]_vars => Same \/ Connect \/ Adopt \/ Hello
BY DEF Next, Step, World, SimStart, SimStop, SimAdvance, SimClock, SimPublishes, Press,
       CtrlC, pipeline, NotConnected, FirstFrame, Leave, Detach, ReadFrame, SkipInfo,
       InfoUnavailable, ReadInfo, KeepSession, UpdateRoster, CheckClock, ReportState,
       NoStateChange, EngineEvent, EngineDone, Controls, Periodic, Tick, Close, Exited,
       vars, identity, lifecycle, Same

\* iRacing goes on: its ids only go up, and SessionInfo has the present one or none.
LEMMA SimStep ==
    ASSUME Types, [Next]_vars
    PROVE  /\ SimTypes'
           /\ sim.session <= sim'.session
           /\ sim'.published \in {0, sim.published, sim.session}
<1> USE DEF SimTypes
<1>1. SimTypes
  BY DEF Types
<1>2. CASE sim' = sim
  BY <1>1, <1>2
<1>3. CASE SimStart
  <2>1. PICK s \in sim.session..MaxSessions :
           sim' = [sim EXCEPT !.up = TRUE, !.starts = @ + 1, !.session = s]
    BY <1>3 DEF SimStart
  <2>2. s \in Nat /\ sim.session <= s
    BY <1>1, <2>1, BoundsAssumption
  <2> QED
    BY <1>1, <2>1, <2>2
<1>4. CASE SimStop
  BY <1>1, <1>4 DEF SimStop
<1>5. CASE SimAdvance
  BY <1>1, <1>5 DEF SimAdvance
<1>6. CASE SimClock
  <2>1. \/ sim' = [sim EXCEPT !.num = @ + 1, !.time = 0]
        \/ sim' = [sim EXCEPT !.time = 1]
        \/ sim' = [sim EXCEPT !.time = 0, !.restarts = @ + 1]
    BY <1>6 DEF SimClock
  <2>2. CASE sim' = [sim EXCEPT !.num = @ + 1, !.time = 0]
    BY <1>1, <2>2
  <2>3. CASE sim' = [sim EXCEPT !.time = 1]
    BY <1>1, <2>3
  <2>4. CASE sim' = [sim EXCEPT !.time = 0, !.restarts = @ + 1]
    BY <1>1, <2>4
  <2> QED
    BY <2>1, <2>2, <2>3, <2>4
<1>7. CASE SimPublishes
  <2>1. PICK p \in {0, sim.session}, n \in SUBSET Cars :
           sim' = [sim EXCEPT !.tick = @ + 1, !.published = p, !.named = n]
    BY <1>7 DEF SimPublishes
  <2> QED
    BY <1>1, <2>1
<1>8. SimStart \/ SimStop \/ SimAdvance \/ SimClock \/ SimPublishes \/ sim' = sim
  BY DEF Next, Step, World, Press, CtrlC, Connect, NotConnected, FirstFrame, Leave, Detach,
         ReadFrame, SkipInfo, InfoUnavailable, ReadInfo, Adopt, KeepSession, UpdateRoster,
         Hello, CheckClock, ReportState, NoStateChange, EngineEvent, EngineDone, Controls,
         Periodic, Tick, Close, Exited, vars, world
<1> QED
  BY <1>2, <1>3, <1>4, <1>5, <1>6, <1>7, <1>8

\* What the pipeline reads and keeps of it.
LEMMA KnownStep ==
    ASSUME Types, [Next]_vars
    PROVE  /\ subSession' \in Nat /\ attach' \in Nat
           /\ fresh' \in BOOLEAN /\ emitConnected' \in BOOLEAN
           /\ info'.session \in Nat
           /\ info'.session \in {0, info.session, sim.published}
<1>1. /\ sim.published \in Nat
      /\ info.session \in Nat
      /\ attach \in Nat /\ subSession \in Nat /\ fresh \in BOOLEAN /\ emitConnected \in BOOLEAN
  BY DEF Types, SimTypes
<1>2. attach' \in Nat /\ subSession' \in Nat /\ fresh' \in BOOLEAN /\ emitConnected' \in BOOLEAN
  <2>1. CASE Same
    BY <1>1, <2>1 DEF Same
  <2>2. CASE Connect
    BY <1>1, <2>2 DEF Connect
  <2>3. CASE Adopt
    BY <1>1, <2>3 DEF Adopt
  <2>4. CASE Hello
    <3>1. attach' = attach /\ subSession' = subSession
      BY <2>4 DEF Hello
    <3>2. fresh' \in {fresh, FALSE} /\ emitConnected' \in {emitConnected, FALSE}
      BY <2>4 DEF Hello, ConnectedAfterHello
    <3> QED
      BY <1>1, <3>1, <3>2
  <2> QED
    BY <2>1, <2>2, <2>3, <2>4, Turns
<1>3. CASE info' = info
  BY <1>1, <1>2, <1>3
<1>4. CASE ReadInfo
  <2>1. info' = [session |-> sim.published, named |-> sim.named] /\ sim' = sim
    BY <1>4 DEF ReadInfo, world
  <2> QED
    BY <1>1, <1>2, <2>1
<1>5. CASE info' = NoInfo
  BY <1>2, <1>5 DEF NoInfo
<1>6. info' = info \/ ReadInfo \/ info' = NoInfo
  BY DEF Next, Step, World, SimStart, SimStop, SimAdvance, SimClock, SimPublishes, Press,
         CtrlC, pipeline, Connect, NotConnected, FirstFrame, Leave, Detach,
         ReadFrame, SkipInfo, InfoUnavailable, Adopt, KeepSession, UpdateRoster,
         Hello, CheckClock, ReportState, NoStateChange, EngineEvent, EngineDone, Controls,
         Periodic, Tick, Close, Exited, vars
<1> QED
  BY <1>3, <1>4, <1>5, <1>6

\* The requests that wait: Press puts one behind, Controls publishes or keeps them.
LEMMA RequestsMove ==
    ASSUME Types, [Next]_vars
    PROVE  \/ UNCHANGED <<channel, requests, pressed>> /\ ~Controls
           \/ /\ channel' = Append(channel, pressed + 1) /\ pressed' = pressed + 1
              /\ requests' = requests /\ log' = log
           \/ /\ Controls /\ channel' = <<>> /\ pressed' = pressed
              /\ requests' = Waiting /\ log' = log
           \/ /\ Controls /\ channel' = <<>> /\ pressed' = pressed /\ requests' = <<>>
              /\ Waiting # <<>> /\ Player \in roster.named
<1>1. CASE Press
  BY <1>1 DEF Press, pipeline, output
<1>2. CASE Controls
  BY <1>2 DEF Controls, RequestsAfterPublishing
<1>3. CASE ~Press /\ ~Controls
  BY <1>3 DEF Next, Step, World, SimStart, SimStop, SimAdvance, SimClock, SimPublishes, CtrlC,
         pipeline, Connect, NotConnected, FirstFrame, Leave, Detach, ReadFrame, SkipInfo,
         InfoUnavailable, ReadInfo, Adopt, KeepSession, UpdateRoster, Hello, CheckClock,
         ReportState, NoStateChange, EngineEvent, EngineDone, Periodic, Tick, Close,
         Exited, vars, world
<1> QED
  BY <1>1, <1>2, <1>3

\* What is held: of this sub-session and attach, and gone with them.
LEMMA HeldStep ==
    ASSUME Types, FreshInv, HeldInv, [Next]_vars
    PROVE  held' \in Seq(HeldEvents) /\ HeldInv'
<1>1. held \in Seq(HeldEvents) /\ Len(held) \in Nat
  BY LenProperties DEF Types
<1>2. CASE held' = <<>>
  BY <1>2, EmptySeq DEF HeldInv
<1>3. CASE held' = held /\ UNCHANGED <<attach, subSession>>
  BY <1>1, <1>3 DEF HeldInv, Event
<1>4. CASE UpdateRoster
  <2>1. UNCHANGED <<attach, subSession>>
    BY <1>4 DEF UpdateRoster
  <2>2. held' \in Seq(HeldEvents) /\ \A k \in 1..Len(held') : held'[k].event = Event("report")
    BY <1>4, UpdateRosterLogs
  <2> QED
    BY <2>1, <2>2 DEF HeldInv, Event
<1>5. CASE EngineEvent
  <2>1. UNCHANGED <<attach, subSession>>
    BY <1>5 DEF EngineEvent, identity
  <2>2. CASE held' = held
    BY <1>3, <2>1, <2>2
  <2>3. CASE \E c \in Cars : held' = Append(held, [car |-> c, event |-> Event("report")])
    <3>1. PICK c \in Cars : held' = Append(held, [car |-> c, event |-> Event("report")])
      BY <2>3
    <3> DEFINE h == [car |-> c, event |-> Event("report")]
    <3>2. Event("report") \in Entries
      BY EventsAreEntries DEF Kinds
    <3>3. h \in HeldEvents /\ h.event = Event("report")
      BY <3>2 DEF HeldEvents
    <3> HIDE DEF h
    <3>4. /\ held' \in Seq(HeldEvents)
          /\ Len(held') = Len(held) + 1
          /\ \A k \in 1..Len(held) : held'[k] = held[k]
          /\ held'[Len(held) + 1] = h
      BY <1>1, <3>1, <3>3, OneBehind DEF h
    <3>5. ASSUME NEW k \in 1..Len(held') PROVE held'[k].event = Event("report")
      <4>1. k = Len(held) + 1 \/ k \in 1..Len(held)
        BY <1>1, <3>4
      <4> QED
        BY <3>3, <3>4, <4>1 DEF HeldInv
    <3> QED
      BY <2>1, <3>4, <3>5 DEF HeldInv, Event
  <2>4. held' = held \/ \E c \in Cars : held' = Append(held, [car |-> c, event |-> Event("report")])
    BY <1>5 DEF EngineEvent
  <2> QED
    BY <2>2, <2>3, <2>4
<1>6. CASE Connect \/ Adopt
  BY <1>2, <1>6 DEF Connect, Adopt, HeldAfterAdopting
<1>7. CASE ~UpdateRoster /\ ~EngineEvent /\ ~Connect /\ ~Adopt
  BY <1>3, <1>7 DEF Next, Step, World, SimStart, SimStop, SimAdvance, SimClock, SimPublishes,
       Press, CtrlC, pipeline, NotConnected, FirstFrame, Leave, Detach, ReadFrame, SkipInfo,
       InfoUnavailable, ReadInfo, KeepSession, Hello, CheckClock, ReportState,
       NoStateChange, EngineDone, Controls, Periodic, Tick, Close, Exited,
       vars, identity, lifecycle
<1> QED
  BY <1>4, <1>5, <1>6, <1>7

LEMMA TypesStep == Types /\ FreshInv /\ HeldInv /\ SentInv /\ [Next]_vars => Types'
<1> SUFFICES ASSUME Types, FreshInv, HeldInv, SentInv, [Next]_vars PROVE Types'
  OBVIOUS
<1>1. channel' \in Seq(Nat) /\ requests' \in Seq(Nat) /\ pressed' \in Nat
  <2>1. channel \in Seq(Nat) /\ requests \in Seq(Nat) /\ pressed \in Nat /\ pressed + 1 \in Nat
    BY DEF Types
  <2>2. Append(channel, pressed + 1) \in Seq(Nat) /\ Waiting \in Seq(Nat) /\ <<>> \in Seq(Nat)
    BY <2>1, AppendProperties, WaitingProperties, EmptySeq
  <2> QED
    BY <2>1, <2>2, RequestsMove
<1>2. log' \in Seq(Entries)
  BY LogStep DEF LogGrows
<1> QED
  BY <1>1, <1>2, SimStep, KnownStep, HeldStep, SentStep DEF Types
-----------------------------------------------------------------------------
\* Ids only go up from the log to what is adopted, read, published and live.
LEMMA AdoptsKnown ==
    [Next]_vars => \/ subSession' = subSession /\ attach' = attach
                   \/ subSession' = 0 /\ attach' = attach + 1 /\ log' = log
                   \/ /\ subSession' = info.session /\ info.session # 0
                      /\ attach' = attach /\ info' = info /\ sim' = sim
BY Turns DEF Same, Connect, Adopt, Hello, output, world

LEMMA IdsStep ==
    ASSUME Types, FreshInv, HeldInv, Ids, [Next]_vars
    PROVE  Ids'
<1>1. LogGrows
  BY LogStep
<1>2. /\ sim.session \in Nat /\ sim.published \in Nat /\ info.session \in Nat /\ subSession \in Nat
      /\ sim'.session \in Nat /\ sim'.published \in Nat /\ info'.session \in Nat
      /\ subSession' \in Nat
  BY SimStep, KnownStep DEF Types, SimTypes
<1>3. /\ sim.session <= sim'.session
      /\ sim'.published \in {0, sim.published, sim.session}
      /\ info'.session \in {0, info.session, sim.published}
  BY SimStep, KnownStep
<1>4. /\ info.session <= sim.session
      /\ sim.published <= sim.session
      /\ sim.published > 0 => info.session <= sim.published
  BY DEF Ids
<1>5. ASSUME NEW x \in Nat, NEW y \in Nat, x <= y, Bounds(x), subSession' <= y
      PROVE  Bounds(y)'
  <2>1. ASSUME NEW i \in 1..Len(log') PROVE log'[i].stamp <= y
    <3>1. Len(log) \in Nat /\ (i \in 1..Len(log) \/ i \in New)
      BY <1>1 DEF LogGrows, New
    <3>2. CASE i \in 1..Len(log)
      <4>1. log'[i] = log[i] /\ log[i].stamp <= x
        BY <1>1, <1>5, <3>2 DEF LogGrows, Bounds
      <4>2. log[i] \in Entries
        BY <3>2, ElementOfSeq DEF Types
      <4> QED
        BY <1>5, <4>1, <4>2 DEF Entries
    <3>3. CASE i \in New
      BY <1>1, <1>5, <3>3 DEF LogGrows, Allowed
    <3> QED
      BY <3>1, <3>2, <3>3
  <2> QED
    BY <1>5, <2>1 DEF Bounds
<1>6. subSession <= sim.session /\ (sim.published > 0 => subSession <= sim.published)
      /\ (info.session > 0 => subSession <= info.session)
  BY DEF Ids, Bounds
<1>7. subSession' \in {subSession, 0} \/ (subSession' = info.session /\ info.session # 0
                                          /\ info' = info /\ sim' = sim)
  BY AdoptsKnown
<1>8. subSession' <= sim.session
  BY <1>2, <1>4, <1>6, <1>7
<1>9. /\ info'.session <= sim'.session /\ sim'.published <= sim'.session
      /\ sim'.published > 0 => info'.session <= sim'.published
  BY <1>2, <1>3, <1>4
<1>10. Bounds(sim.session)'
  <2>1. Bounds(sim.session)
    BY DEF Ids
  <2>2. subSession' <= sim'.session
    BY <1>2, <1>3, <1>8
  <2>3. ASSUME NEW y \in Nat, y = sim'.session PROVE Bounds(y)'
    BY <1>2, <1>3, <1>5, <2>1, <2>2, <2>3
  <2> QED
    BY <1>2, <2>3 DEF Bounds
<1>11. ASSUME sim'.published > 0 PROVE Bounds(sim.published)'
  <2>1. CASE sim'.published = sim.published
    <3>1. Bounds(sim.published) /\ subSession' <= sim.published
      BY <1>2, <1>4, <1>6, <1>7, <1>11, <2>1 DEF Ids
    <3>2. ASSUME NEW y \in Nat, y = sim'.published PROVE Bounds(y)'
      BY <1>2, <1>5, <2>1, <3>1, <3>2
    <3> QED
      BY <1>2, <3>2 DEF Bounds
  <2>2. CASE sim'.published = sim.session
    <3>1. Bounds(sim.session) /\ subSession' <= sim.session
      BY <1>8 DEF Ids
    <3>2. ASSUME NEW y \in Nat, y = sim'.published PROVE Bounds(y)'
      BY <1>2, <1>5, <2>2, <3>1, <3>2
    <3> QED
      BY <1>2, <3>2 DEF Bounds
  <2> QED
    BY <1>2, <1>3, <1>11, <2>1, <2>2
<1>12. ASSUME info'.session > 0 PROVE Bounds(info.session)'
  <2>1. CASE info'.session = info.session
    <3>1. Bounds(info.session) /\ subSession' <= info.session
      BY <1>2, <1>6, <1>7, <1>12, <2>1 DEF Ids
    <3>2. ASSUME NEW y \in Nat, y = info'.session PROVE Bounds(y)'
      BY <1>2, <1>5, <2>1, <3>1, <3>2
    <3> QED
      BY <1>2, <3>2 DEF Bounds
  <2>2. CASE info'.session = sim.published /\ info'.session # info.session
    <3>1. Bounds(sim.published) /\ subSession' <= sim.published
      BY <1>2, <1>6, <1>7, <1>12, <2>2 DEF Ids
    <3>2. ASSUME NEW y \in Nat, y = info'.session PROVE Bounds(y)'
      BY <1>2, <1>5, <2>2, <3>1, <3>2
    <3> QED
      BY <1>2, <3>2 DEF Bounds
  <2> QED
    BY <1>2, <1>3, <1>12, <2>1, <2>2
<1>13. ASSUME subSession' > 0 PROVE Bounds(subSession)'
  <2>1. CASE subSession' = subSession
    <3>1. Bounds(subSession)
      BY <1>13, <2>1 DEF Ids
    <3>2. ASSUME NEW y \in Nat, y = subSession' PROVE Bounds(y)'
      BY <1>2, <1>5, <2>1, <3>1, <3>2
    <3> QED
      BY <1>2, <3>2 DEF Bounds
  <2>2. CASE subSession' = info.session /\ info.session # 0
    <3>1. Bounds(info.session)
      BY <1>2, <2>2 DEF Ids
    <3>2. ASSUME NEW y \in Nat, y = subSession' PROVE Bounds(y)'
      BY <1>2, <1>5, <2>2, <3>1, <3>2
    <3> QED
      BY <1>2, <3>2 DEF Bounds
  <2> QED
    BY <1>2, <1>7, <1>13, <2>1, <2>2
<1> QED
  BY <1>9, <1>10, <1>11, <1>12, <1>13 DEF Ids

LEMMA LogInvStep ==
    ASSUME Types, FreshInv, HeldInv, Ids, LogInv, [Next]_vars
    PROVE  LogInv' /\ attach <= attach' /\ (attach' = attach => subSession <= subSession')
<1>1. LogGrows
  BY LogStep
<1>2. /\ attach \in Nat /\ attach' \in Nat /\ subSession \in Nat /\ subSession' \in Nat
      /\ info.session \in Nat
  BY KnownStep DEF Types
<1>3. info.session > 0 => subSession <= info.session
  BY DEF Ids, Bounds
<1>4. /\ attach <= attach'
      /\ attach' = attach => subSession <= subSession'
  BY <1>2, <1>3, AdoptsKnown
<1>5. ASSUME NEW i \in 1..Len(log')
      PROVE  log'[i].attach <= attach' /\ (log'[i].attach = attach' => log'[i].stamp <= subSession')
  <2>1. Len(log) \in Nat /\ (i \in 1..Len(log) \/ i \in New)
    BY <1>1 DEF LogGrows, New
  <2>2. CASE i \in 1..Len(log)
    <3>1. /\ log'[i] = log[i] /\ log[i].attach <= attach
          /\ log[i].attach = attach => log[i].stamp <= subSession
      BY <1>1, <2>2 DEF LogGrows, LogInv
    <3>2. log[i].attach \in Nat /\ log[i].stamp \in Nat
      <4>1. log[i] \in Entries
        BY <2>2, ElementOfSeq DEF Types
      <4> QED
        BY <4>1 DEF Entries
    <3> QED
      BY <1>2, <1>4, <3>1, <3>2
  <2>3. CASE i \in New
    BY <1>1, <1>2, <2>3 DEF LogGrows, Allowed
  <2> QED
    BY <2>1, <2>2, <2>3
<1> QED
  BY <1>4, <1>5 DEF LogInv

\* HELLO and IRACING_CONNECTED are only logged where Hello does it.
LEMMA SaidBefore ==
    ASSUME Types, LogGrows, attach' = attach, ~(Hello /\ HelloDue),
           NEW kind \in {"hello", "connected"}
    PROVE  SaidHere(kind)' <=> SaidHere(kind)
<1>1. ASSUME SaidHere(kind) PROVE SaidHere(kind)'
  <2>1. PICK i \in 1..Len(log) : log[i].kind = kind /\ log[i].attach = attach
    BY <1>1 DEF SaidHere
  <2>2. i \in 1..Len(log') /\ log'[i] = log[i]
    BY <2>1 DEF LogGrows
  <2> QED
    BY <2>1, <2>2 DEF SaidHere
<1>2. ASSUME SaidHere(kind)' PROVE SaidHere(kind)
  <2>1. PICK i \in 1..Len(log') : log'[i].kind = kind /\ log'[i].attach = attach
    BY <1>2 DEF SaidHere
  <2>2. Len(log) \in Nat /\ Len(log') \in Nat /\ (i \in 1..Len(log) \/ i \in New)
    BY DEF LogGrows, New
  <2>3. i \notin New
    BY <2>1 DEF LogGrows, Allowed
  <2>4. i \in 1..Len(log) /\ log'[i] = log[i]
    BY <2>2, <2>3 DEF LogGrows
  <2> QED
    BY <2>1, <2>4 DEF SaidHere
<1> QED
  BY <1>1, <1>2

LEMMA StillGreeted ==
    ASSUME Types, LogGrows, UNCHANGED <<attach, subSession>>, GreetedHere
    PROVE  GreetedHere'
<1>1. PICK i \in 1..Len(log) :
         log[i].kind = "hello" /\ log[i].stamp = subSession /\ log[i].attach = attach
  BY DEF GreetedHere
<1>2. i \in 1..Len(log') /\ log'[i] = log[i]
  BY <1>1 DEF LogGrows
<1> QED
  BY <1>1, <1>2 DEF GreetedHere

\* In between turns: only UpdateRoster and iRacing move while the HELLO is due.
LEMMA FreshSame ==
    ASSUME Types, FreshInv, HeldInv, [Next]_vars, Same
    PROVE  subSession > 0 /\ fresh =>
             pc' \in {"roster", "hello"} /\ held' = <<>> /\ Len(log') = Len(log)
<1> SUFFICES ASSUME subSession > 0, fresh
             PROVE  pc' \in {"roster", "hello"} /\ held' = <<>> /\ Len(log') = Len(log)
  OBVIOUS
<1>1. pc \in {"roster", "hello"} /\ held = <<>>
  BY DEF FreshInv
<1>2. CASE UpdateRoster
  BY <1>1, <1>2, UpdateRosterLogs DEF UpdateRoster
<1>3. CASE World \/ UNCHANGED vars
  BY <1>1, <1>3 DEF World, SimStart, SimStop, SimAdvance, SimClock, SimPublishes, Press,
                    CtrlC, pipeline, output, vars
<1>4. CASE Hello
  BY <1>4 DEF Hello, HelloDue, Same
<1>5. World \/ UNCHANGED vars \/ UpdateRoster \/ Hello
  BY <1>1 DEF Next, Step, Connect, NotConnected, FirstFrame, Leave, Detach, ReadFrame,
       SkipInfo, InfoUnavailable, ReadInfo, Adopt, KeepSession, CheckClock, ReportState,
       NoStateChange, EngineEvent, EngineDone, Controls, Periodic, Tick, Close, Exited
<1> QED
  BY <1>2, <1>3, <1>4, <1>5

LEMMA FreshStep ==
    ASSUME Types, FreshInv, HeldInv, LogInv, Ids, [Next]_vars
    PROVE  FreshInv'
<1>1. LogGrows
  BY LogStep
<1>2. /\ attach \in Nat /\ subSession \in Nat /\ info.session \in Nat /\ fresh \in BOOLEAN
      /\ emitConnected \in BOOLEAN
  BY DEF Types
<1>3. Len(log) \in Nat /\ Len(log') \in Nat
  BY <1>1 DEF LogGrows
<1>4. CASE Connect
  <2>1. /\ attach' = attach + 1 /\ subSession' = 0 /\ fresh' = TRUE /\ emitConnected' = TRUE
        /\ log' = log
    BY <1>4 DEF Connect, output
  <2>2. ASSUME NEW i \in 1..Len(log) PROVE log[i].attach # attach'
    <3>1. log[i].attach <= attach /\ log[i] \in Entries
      BY ElementOfSeq DEF LogInv, Types
    <3> QED
      BY <1>2, <2>1, <3>1 DEF Entries
  <2>3. ~SaidHere("hello")' /\ ~SaidHere("connected")'
    BY <2>1, <2>2 DEF SaidHere
  <2> QED
    BY <2>1, <2>3 DEF FreshInv
<1>5. CASE Adopt
  <2>1. /\ subSession' = info.session /\ info.session # 0 /\ fresh' = TRUE
        /\ attach' = attach /\ emitConnected' = emitConnected
        /\ held' = <<>> /\ pc' = "roster"
    BY <1>5 DEF Adopt, HeldAfterAdopting
  <2>2. \A kind \in {"hello", "connected"} : SaidHere(kind)' <=> SaidHere(kind)
    <3>1. ~Hello
      BY <1>5 DEF Adopt, Hello
    <3> QED
      BY <1>1, <2>1, <3>1, SaidBefore
  <2>3. ASSUME SaidHere("hello")'
        PROVE  /\ Len(log') >= 2
               /\ log'[Len(log') - 1] = Event("goodbye")'
               /\ log'[Len(log')] = Event("session_reset")'
    <3>1. SaidHere("hello")
      BY <2>2, <2>3
    <3>2. Departing
      BY <1>2, <3>1 DEF FreshInv, Departing
    <3>3. /\ Len(log') = Len(log) + 2
          /\ log'[Len(log) + 1] = Event("goodbye")'
          /\ log'[Len(log) + 2] = Event("session_reset")'
      BY <1>5, <3>2, AdoptLogs
    <3>4. Len(log') - 1 = Len(log) + 1 /\ Len(log') >= 2
      BY <1>3, <3>3
    <3> QED
      BY <3>3, <3>4
  <2> QED
    BY <1>2, <2>1, <2>2, <2>3 DEF FreshInv
<1>6. CASE Hello /\ HelloDue
  <2>1. /\ fresh' = FALSE /\ emitConnected' = FALSE
        /\ attach' = attach /\ subSession' = subSession /\ subSession > 0
    BY <1>6 DEF Hello, HelloDue, ConnectedAfterHello
  <2>2. /\ emitConnected =>
             /\ Len(log') = Len(log) + 2
             /\ log'[Len(log) + 1] = Event("connected")
             /\ log'[Len(log) + 2] = Event("hello")
        /\ ~emitConnected =>
             Len(log') = Len(log) + 1 /\ log'[Len(log) + 1] = Event("hello")
    BY <1>6, HelloLogs
  <2>3. /\ Event("hello").kind = "hello" /\ Event("hello").stamp = subSession
        /\ Event("hello").attach = attach
        /\ Event("connected").kind = "connected" /\ Event("connected").attach = attach
    BY EventsAreEntries DEF Kinds
  <2>4. GreetedHere'
    <3>1. CASE emitConnected
      <4>1. Len(log) + 2 \in 1..Len(log') /\ log'[Len(log) + 2] = Event("hello")
        BY <1>3, <2>2, <3>1
      <4> QED
        BY <2>1, <2>3, <4>1 DEF GreetedHere
    <3>2. CASE ~emitConnected
      <4>1. Len(log) + 1 \in 1..Len(log') /\ log'[Len(log) + 1] = Event("hello")
        BY <1>3, <2>2, <3>2
      <4> QED
        BY <2>1, <2>3, <4>1 DEF GreetedHere
    <3> QED
      BY <3>1, <3>2
  <2>5. SaidHere("connected")'
    <3>1. CASE emitConnected
      <4>1. Len(log) + 1 \in 1..Len(log') /\ log'[Len(log) + 1] = Event("connected")
        BY <1>3, <2>2, <3>1
      <4> QED
        BY <2>1, <2>3, <4>1 DEF SaidHere
    <3>2. CASE ~emitConnected
      <4>1. PICK i \in 1..Len(log) : log[i].kind = "connected" /\ log[i].attach = attach
        BY <3>2 DEF FreshInv, SaidHere
      <4>2. i \in 1..Len(log') /\ log'[i] = log[i]
        BY <1>1, <4>1 DEF LogGrows
      <4> QED
        BY <2>1, <4>1, <4>2 DEF SaidHere
    <3> QED
      BY <3>1, <3>2
  <2> QED
    BY <1>2, <2>1, <2>4, <2>5 DEF FreshInv
<1>7. CASE Same /\ ~(Hello /\ HelloDue)
  <2>1. /\ attach' = attach /\ subSession' = subSession /\ fresh' = fresh
        /\ emitConnected' = emitConnected
    BY <1>7 DEF Same
  <2>2. \A kind \in {"hello", "connected"} : SaidHere(kind)' <=> SaidHere(kind)
    BY <1>1, <1>7, <2>1, SaidBefore
  <2>3. GreetedHere => GreetedHere'
    BY <1>1, <2>1, StillGreeted
  <2>4. subSession > 0 /\ fresh =>
             pc' \in {"roster", "hello"} /\ held' = <<>> /\ Len(log') = Len(log)
    BY <1>7, FreshSame
  <2>5. ASSUME fresh, SaidHere("hello")
        PROVE  /\ Len(log') >= 2
               /\ log'[Len(log') - 1] = Event("goodbye")'
               /\ log'[Len(log')] = Event("session_reset")'
    <3>1. subSession > 0 /\ Len(log') = Len(log)
      BY <1>2, <2>4, <2>5 DEF FreshInv
    <3>2. /\ Len(log) >= 2
          /\ log[Len(log) - 1] = Event("goodbye")
          /\ log[Len(log)] = Event("session_reset")
      BY <2>5 DEF FreshInv
    <3>3. /\ Len(log) - 1 \in 1..Len(log) /\ Len(log) \in 1..Len(log)
      BY <1>3, <3>2
    <3>4. log'[Len(log) - 1] = log[Len(log) - 1] /\ log'[Len(log)] = log[Len(log)]
      BY <1>1, <3>3 DEF LogGrows
    <3> QED
      BY <2>1, <3>1, <3>2, <3>4 DEF Event
  <2> QED
    BY <2>1, <2>2, <2>3, <2>4, <2>5 DEF FreshInv
<1>8. CASE Hello /\ ~HelloDue
  BY <1>7, <1>8 DEF Hello, Same
<1> QED
  BY <1>4, <1>5, <1>6, <1>7, <1>8, Turns
-----------------------------------------------------------------------------
\* Where an event of the log after a step comes from.
LEMMA OldOrNew ==
    ASSUME LogGrows, NEW i \in DOMAIN log'
    PROVE  /\ i \in Nat
           /\ DOMAIN log' = 1..Len(log')
           /\ \/ i \in 1..Len(log) /\ log'[i] = log[i]
              \/ i \in New /\ i > Len(log) /\ Allowed(log'[i])
<1>1. /\ DOMAIN log' = 1..Len(log') /\ Len(log) \in Nat /\ Len(log') \in Nat
  BY LenProperties DEF LogGrows
<1>2. i \in Nat /\ (i \in 1..Len(log) \/ (i \in New /\ i > Len(log)))
  BY <1>1 DEF New
<1> QED
  BY <1>1, <1>2 DEF LogGrows

LEMMA HelloFirstStep ==
    ASSUME Types, FreshInv, HeldInv, HelloFirst, [Next]_vars
    PROVE  HelloFirst'
<1>1. LogGrows
  BY LogStep
<1>2. DOMAIN log = 1..Len(log) /\ Len(log) \in Nat
  BY LenProperties DEF Types
<1> SUFFICES ASSUME NEW i \in DOMAIN log', log'[i].stamp > 0, log'[i].kind \notin Openers
             PROVE  \E j \in 1..(i - 1) : /\ log'[j].kind = "hello"
                                          /\ log'[j].stamp = log'[i].stamp
                                          /\ log'[j].attach = log'[i].attach
  BY DEF HelloFirst
<1>3. i \in Nat
  BY <1>1, OldOrNew
<1>4. CASE i \in 1..Len(log) /\ log'[i] = log[i]
  <2>1. PICK j \in 1..(i - 1) : /\ log[j].kind = "hello"
                                /\ log[j].stamp = log[i].stamp
                                /\ log[j].attach = log[i].attach
    BY <1>2, <1>4 DEF HelloFirst
  <2>2. j \in 1..Len(log) /\ log'[j] = log[j]
    BY <1>1, <1>2, <1>3, <1>4, <2>1 DEF LogGrows
  <2> QED
    BY <1>4, <2>1, <2>2
<1>5. CASE i \in New /\ i > Len(log) /\ Allowed(log'[i])
  <2>1. /\ log'[i].stamp = subSession /\ log'[i].attach = attach /\ subSession > 0 /\ ~fresh
    BY <1>5 DEF Allowed
  <2>2. PICK j \in 1..Len(log) :
           log[j].kind = "hello" /\ log[j].stamp = subSession /\ log[j].attach = attach
    BY <2>1 DEF FreshInv, GreetedHere
  <2>3. j \in 1..(i - 1) /\ log'[j] = log[j]
    BY <1>1, <1>2, <1>3, <1>5 DEF LogGrows
  <2> QED
    BY <2>1, <2>2, <2>3
<1> QED
  BY <1>1, <1>4, <1>5, OldOrNew

LEMMA ConnectedStep ==
    ASSUME Types, FreshInv, HeldInv, ConnectedOncePerAttach, [Next]_vars
    PROVE  ConnectedOncePerAttach'
<1>1. LogGrows
  BY LogStep
<1>2. DOMAIN log = 1..Len(log) /\ Len(log) \in Nat /\ DOMAIN log' = 1..Len(log')
      /\ Len(log') \in Nat
  BY <1>1, LenProperties DEF Types, LogGrows
<1>3. ASSUME NEW i \in DOMAIN log', log'[i].kind = "connected", NEW j \in 1..(i - 1),
             log'[j].attach = log'[i].attach
      PROVE  log'[j].kind \notin {"connected", "hello"}
  <2>1. i \in Nat /\ j \in DOMAIN log' /\ j \in Nat /\ j < i
    BY <1>2
  <2>2. CASE i \in 1..Len(log) /\ log'[i] = log[i]
    <3>1. j \in 1..Len(log) /\ log'[j] = log[j]
      BY <1>1, <1>2, <2>1, <2>2 DEF LogGrows
    <3> QED
      BY <1>2, <1>3, <2>2, <3>1 DEF ConnectedOncePerAttach
  <2>3. CASE i \in New /\ i > Len(log) /\ Allowed(log'[i])
    <3>1. Hello /\ HelloDue /\ log'[i].attach = attach
      BY <1>3, <2>3 DEF Allowed
    <3>2. Event("hello").kind = "hello"
      BY EventsAreEntries DEF Kinds
    <3>3. emitConnected
      <4> SUFFICES ASSUME ~emitConnected PROVE FALSE
        OBVIOUS
      <4>1. Len(log') = Len(log) + 1 /\ log'[Len(log) + 1] = Event("hello")
        BY <3>1, HelloLogs
      <4>2. i = Len(log) + 1
        BY <1>2, <2>1, <2>3, <4>1
      <4> QED
        BY <1>3, <3>2, <4>1, <4>2
    <3>4. /\ Len(log') = Len(log) + 2 /\ log'[Len(log) + 2] = Event("hello")
      BY <3>1, <3>3, HelloLogs
    <3>5. i = Len(log) + 1
      <4>1. i # Len(log) + 2
        BY <1>3, <3>2, <3>4
      <4> QED
        BY <1>2, <2>1, <2>3, <3>4, <4>1
    <3>6. j \in 1..Len(log) /\ log'[j] = log[j]
      BY <1>1, <1>2, <2>1, <3>5 DEF LogGrows
    <3> QED
      BY <1>3, <3>1, <3>3, <3>6 DEF FreshInv, SaidHere
  <2> QED
    BY <1>1, <2>2, <2>3, OldOrNew
<1>4. ASSUME NEW i \in DOMAIN log', log'[i].kind \in {"hello", "disconnected"}
      PROVE  \E j \in 1..(i - 1) : log'[j].kind = "connected" /\ log'[j].attach = log'[i].attach
  <2>1. i \in Nat
    BY <1>2
  <2>2. CASE i \in 1..Len(log) /\ log'[i] = log[i]
    <3>1. PICK j \in 1..(i - 1) : log[j].kind = "connected" /\ log[j].attach = log[i].attach
      BY <1>2, <1>4, <2>2 DEF ConnectedOncePerAttach
    <3>2. j \in 1..Len(log) /\ log'[j] = log[j]
      BY <1>1, <1>2, <2>1, <2>2, <3>1 DEF LogGrows
    <3> QED
      BY <2>2, <3>1, <3>2
  <2>3. CASE i \in New /\ i > Len(log) /\ Allowed(log'[i])
    <3>1. log'[i].attach = attach
      BY <2>3 DEF Allowed
    <3>2. CASE ~emitConnected
      <4>1. PICK j \in 1..Len(log) : log[j].kind = "connected" /\ log[j].attach = attach
        BY <3>2 DEF FreshInv, SaidHere
      <4>2. j \in 1..(i - 1) /\ log'[j] = log[j]
        BY <1>1, <1>2, <2>1, <2>3, <4>1 DEF LogGrows
      <4> QED
        BY <3>1, <4>1, <4>2
    <3>3. CASE emitConnected
      <4>1. log'[i].kind = "hello" /\ Hello /\ HelloDue
        <5>1. ASSUME log'[i].kind = "disconnected" PROVE FALSE
          BY <2>3, <3>3, <5>1 DEF Allowed, Openers, FreshInv
        <5> QED
          BY <1>4, <2>3, <5>1 DEF Allowed
      <4>2. /\ Len(log') = Len(log) + 2 /\ log'[Len(log) + 1] = Event("connected")
        BY <3>3, <4>1, HelloLogs
      <4>3. Event("connected").kind = "connected" /\ Event("connected").attach = attach
        BY EventsAreEntries DEF Kinds
      <4>4. i # Len(log) + 1
        BY <4>1, <4>2, <4>3
      <4>5. Len(log) + 1 \in 1..(i - 1)
        BY <1>2, <2>1, <2>3, <4>4
      <4> QED
        BY <3>1, <4>2, <4>3, <4>5
    <3> QED
      BY <3>2, <3>3
  <2> QED
    BY <1>1, <2>2, <2>3, OldOrNew
<1> QED
  BY <1>3, <1>4 DEF ConnectedOncePerAttach

LEMMA AnnouncedStep ==
    ASSUME Types, FreshInv, HeldInv, AnnouncedInv, [Next]_vars
    PROVE  AnnouncedInv'
<1>1. LogGrows
  BY LogStep
<1>2. Len(log) \in Nat /\ Len(log') \in Nat /\ DOMAIN log' = 1..Len(log')
  BY <1>1, LenProperties DEF LogGrows
<1> SUFFICES ASSUME NEW i \in 1..Len(log'), NEW j \in 1..Len(log'), i < j,
                    log'[i].kind = "hello", log'[j].kind = "hello",
                    log'[i].attach = log'[j].attach
             PROVE  /\ j > 2
                    /\ log'[j - 2].kind = "goodbye" /\ log'[j - 1].kind = "session_reset"
                    /\ log'[j - 2].stamp = log'[j].stamp /\ log'[j - 1].stamp = log'[j].stamp
  BY DEF AnnouncedInv
<1>3. CASE j \in 1..Len(log) /\ log'[j] = log[j]
  <2>1. i \in 1..Len(log) /\ log'[i] = log[i]
    BY <1>1, <1>2, <1>3 DEF LogGrows
  <2>2. /\ j > 2
        /\ log[j - 2].kind = "goodbye" /\ log[j - 1].kind = "session_reset"
        /\ log[j - 2].stamp = log[j].stamp /\ log[j - 1].stamp = log[j].stamp
    BY <1>3, <2>1 DEF AnnouncedInv
  <2>3. j - 2 \in 1..Len(log) /\ j - 1 \in 1..Len(log)
    BY <1>2, <1>3, <2>2
  <2>4. log'[j - 2] = log[j - 2] /\ log'[j - 1] = log[j - 1]
    BY <1>1, <2>3 DEF LogGrows
  <2> QED
    BY <1>3, <2>2, <2>4
<1>4. CASE j \in New /\ j > Len(log) /\ Allowed(log'[j])
  <2>1. Hello /\ HelloDue /\ log'[j].attach = attach /\ log'[j].stamp = subSession'
    BY <1>4 DEF Allowed
  <2>2. Event("connected").kind = "connected"
    BY EventsAreEntries DEF Kinds
  <2>3. i \in 1..Len(log)
    <3>1. CASE emitConnected
      <4>1. Len(log') = Len(log) + 2 /\ log'[Len(log) + 1] = Event("connected")
        BY <2>1, <3>1, HelloLogs
      <4>2. i # Len(log) + 1
        BY <2>2, <4>1
      <4> QED
        BY <1>2, <4>1, <4>2
    <3>2. CASE ~emitConnected
      <4>1. Len(log') = Len(log) + 1
        BY <2>1, <3>2, HelloLogs
      <4> QED
        BY <1>2, <4>1
    <3> QED
      BY <3>1, <3>2
  <2>4. log'[i] = log[i]
    BY <1>1, <2>3 DEF LogGrows
  <2>5. SaidHere("hello")
    BY <2>1, <2>3, <2>4 DEF SaidHere
  <2>6. /\ ~emitConnected /\ fresh
        /\ Len(log) >= 2
        /\ log[Len(log) - 1] = Event("goodbye")
        /\ log[Len(log)] = Event("session_reset")
    BY <2>1, <2>5 DEF FreshInv, HelloDue
  <2>7. j = Len(log) + 1
    <3>1. Len(log') = Len(log) + 1
      BY <2>1, <2>6, HelloLogs
    <3> QED
      BY <1>2, <1>4, <3>1
  <2>8. Len(log) - 1 \in 1..Len(log) /\ Len(log) \in 1..Len(log)
        /\ j - 2 = Len(log) - 1 /\ j - 1 = Len(log) /\ j > 2
    BY <1>2, <2>6, <2>7
  <2>9. log'[j - 2] = Event("goodbye") /\ log'[j - 1] = Event("session_reset")
    BY <1>1, <2>6, <2>8 DEF LogGrows
  <2>10. /\ Event("goodbye").kind = "goodbye" /\ Event("goodbye").stamp = subSession
         /\ Event("session_reset").kind = "session_reset"
         /\ Event("session_reset").stamp = subSession
    BY EventsAreEntries DEF Kinds
  <2>11. subSession' = subSession
    BY <2>1 DEF Hello
  <2> QED
    BY <2>1, <2>8, <2>9, <2>10, <2>11
<1> QED
  BY <1>1, <1>2, <1>3, <1>4, OldOrNew

LEMMA StampsStep ==
    ASSUME Types, FreshInv, HeldInv, Ids, LogInv, StampsNeverGoBack, [Next]_vars
    PROVE  StampsNeverGoBack'
<1>1. LogGrows
  BY LogStep
<1>2. /\ Len(log) \in Nat /\ Len(log') \in Nat
      /\ DOMAIN log' = 1..Len(log') /\ DOMAIN log = 1..Len(log)
      /\ subSession \in Nat /\ subSession' \in Nat
  BY <1>1, KnownStep, LenProperties DEF LogGrows, Types
<1> SUFFICES ASSUME NEW i \in DOMAIN log', NEW j \in DOMAIN log', i < j,
                    log'[i].attach = log'[j].attach
             PROVE  log'[i].stamp <= log'[j].stamp
  BY DEF StampsNeverGoBack
<1>3. CASE j \in 1..Len(log) /\ log'[j] = log[j]
  <2>1. i \in 1..Len(log) /\ log'[i] = log[i]
    BY <1>1, <1>2, <1>3 DEF LogGrows
  <2> QED
    BY <1>2, <1>3, <2>1 DEF StampsNeverGoBack
<1>4. CASE j \in New /\ j > Len(log) /\ Allowed(log'[j])
  <2>1. log'[j].stamp = subSession' /\ log'[j].attach = attach /\ attach' = attach
    BY <1>4 DEF Allowed
  <2>2. CASE i \in 1..Len(log) /\ log'[i] = log[i]
    <3>1. log[i].stamp <= subSession /\ subSession <= subSession'
      BY <2>1, <2>2, LogInvStep DEF LogInv
    <3>2. log[i].stamp \in Nat
      <4>1. log[i] \in Entries
        BY <2>2, ElementOfSeq DEF Types
      <4> QED
        BY <4>1 DEF Entries
    <3> QED
      BY <1>2, <2>1, <2>2, <3>1, <3>2
  <2>3. CASE i \in New /\ i > Len(log) /\ Allowed(log'[i])
    BY <1>2, <2>1, <2>3 DEF Allowed
  <2> QED
    BY <1>1, <2>2, <2>3, OldOrNew
<1> QED
  BY <1>1, <1>3, <1>4, OldOrNew

LEMMA EnvelopeStep ==
    ASSUME Types, FreshInv, HeldInv, SentInv, Ids, EnvelopeNotOlder, [Next]_vars
    PROVE  EnvelopeNotOlder'
<1>1. LogGrows
  BY LogStep
<1>2. /\ sent' \in Seq(Nat)
      /\ Len(sent') <= Len(log')
      /\ \A i \in 1..Len(sent') :
            (i \in 1..Len(sent) /\ sent'[i] = sent[i]) \/ sent'[i] = subSession'
  BY SentStep DEF SentInv
<1>3. /\ DOMAIN sent' = 1..Len(sent') /\ DOMAIN sent = 1..Len(sent)
      /\ Len(sent') \in Nat /\ Len(sent) \in Nat /\ Len(sent) <= Len(log)
      /\ Len(log) \in Nat /\ Len(log') \in Nat /\ subSession' \in Nat
  BY <1>1, <1>2, KnownStep, LenProperties DEF LogGrows, Types, SentInv
<1> SUFFICES ASSUME NEW i \in DOMAIN sent' PROVE sent'[i] = 0 \/ log'[i].stamp <= sent'[i]
  BY DEF EnvelopeNotOlder
<1>4. CASE i \in 1..Len(sent) /\ sent'[i] = sent[i]
  <2>1. log'[i] = log[i]
    BY <1>1, <1>3, <1>4 DEF LogGrows
  <2> QED
    BY <1>3, <1>4, <2>1 DEF EnvelopeNotOlder
<1>5. CASE sent'[i] = subSession'
  <2>1. i \in 1..Len(log')
    BY <1>2, <1>3
  <2>2. subSession' > 0 => log'[i].stamp <= subSession'
    BY <2>1, IdsStep DEF Ids, Bounds
  <2> QED
    BY <1>3, <1>5, <2>2
<1> QED
  BY <1>2, <1>3, <1>4, <1>5

\* How the line of waiting requests moves.
LEMMA LineStep ==
    ASSUME Types, [Next]_vars
    PROVE  /\ Line \in Seq(Nat) /\ Len(Line) \in Nat /\ DOMAIN Line = 1..Len(Line)
           /\ \/ /\ Line' = Line /\ pressed' = pressed /\ ~Controls
              \/ /\ Line' = Append(Line, pressed + 1) /\ pressed' = pressed + 1
                 /\ log' = log
              \/ /\ Line' \in Seq(Nat) /\ Len(Line') <= Len(Line) /\ pressed' = pressed
                 /\ \A k \in 1..Len(Line') : Line'[k] = Line[k]
                 /\ log' = log
              \/ /\ Line' = <<>> /\ pressed' = pressed
                 /\ Controls /\ Waiting # <<>> /\ Player \in roster.named
<1>1. requests \in Seq(Nat) /\ channel \in Seq(Nat) /\ pressed \in Nat /\ pressed + 1 \in Nat
  BY DEF Types
<1>2. Line \in Seq(Nat) /\ Len(Line) \in Nat /\ DOMAIN Line = 1..Len(Line)
  BY <1>1, ConcatProperties, LenProperties DEF Line
<1>3. CASE UNCHANGED <<channel, requests, pressed>> /\ ~Controls
  BY <1>2, <1>3 DEF Line
<1>4. CASE /\ channel' = Append(channel, pressed + 1) /\ pressed' = pressed + 1
           /\ requests' = requests /\ log' = log
  <2>1. requests \o Append(channel, pressed + 1) = Append(requests \o channel, pressed + 1)
    <3> DEFINE e == pressed + 1
    <3>1. e \in Nat
      BY <1>1
    <3> HIDE DEF e
    <3>2. /\ Append(channel, e) \in Seq(Nat) /\ Len(Append(channel, e)) = Len(channel) + 1
          /\ \A i \in 1..Len(channel) : Append(channel, e)[i] = channel[i]
          /\ Append(channel, e)[Len(channel) + 1] = e
      BY <1>1, <3>1, AppendProperties
    <3>3. /\ requests \o channel \in Seq(Nat)
          /\ Len(requests \o channel) = Len(requests) + Len(channel)
          /\ \A i \in 1..Len(requests) + Len(channel) :
                (requests \o channel)[i] =
                    IF i <= Len(requests) THEN requests[i] ELSE channel[i - Len(requests)]
      BY <1>1, ConcatProperties
    <3>4. /\ requests \o Append(channel, e) \in Seq(Nat)
          /\ Len(requests \o Append(channel, e)) = Len(requests) + (Len(channel) + 1)
          /\ \A i \in 1..Len(requests) + (Len(channel) + 1) :
                (requests \o Append(channel, e))[i] =
                    IF i <= Len(requests) THEN requests[i]
                                          ELSE Append(channel, e)[i - Len(requests)]
      BY <1>1, <3>2, ConcatProperties
    <3>5. /\ Append(requests \o channel, e) \in Seq(Nat)
          /\ Len(Append(requests \o channel, e)) = Len(requests \o channel) + 1
          /\ \A i \in 1..Len(requests \o channel) :
                Append(requests \o channel, e)[i] = (requests \o channel)[i]
          /\ Append(requests \o channel, e)[Len(requests \o channel) + 1] = e
      BY <3>1, <3>3, AppendProperties
    <3>6. Len(requests) \in Nat /\ Len(channel) \in Nat
      BY <1>1, LenProperties
    <3> DEFINE a == requests \o Append(channel, e)
               b == Append(requests \o channel, e)
    <3>7. Len(a) = Len(b) /\ Len(a) = Len(requests) + Len(channel) + 1
      BY <3>3, <3>4, <3>5, <3>6
    <3>8. ASSUME NEW i \in 1..Len(a) PROVE a[i] = b[i]
      <4>1. CASE i <= Len(requests)
        BY <3>3, <3>4, <3>5, <3>6, <3>7, <4>1
      <4>2. CASE i > Len(requests) /\ i <= Len(requests) + Len(channel)
        <5>1. i - Len(requests) \in 1..Len(channel)
          BY <3>6, <3>7, <4>2
        <5>2. a[i] = Append(channel, e)[i - Len(requests)]
          BY <3>4, <3>6, <3>7, <4>2
        <5>3. b[i] = channel[i - Len(requests)]
          BY <3>3, <3>5, <3>6, <3>7, <4>2
        <5> QED
          BY <3>2, <5>1, <5>2, <5>3
      <4>3. CASE i = Len(requests) + Len(channel) + 1
        <5>1. i - Len(requests) = Len(channel) + 1 /\ ~(i <= Len(requests))
          BY <3>6, <4>3
        <5>2. a[i] = Append(channel, e)[i - Len(requests)]
          BY <3>4, <3>6, <3>7, <5>1
        <5>3. b[i] = e
          BY <3>3, <3>5, <3>6, <4>3
        <5> QED
          BY <3>2, <5>1, <5>2, <5>3
      <4> QED
        BY <3>6, <3>7, <4>1, <4>2, <4>3
    <3>9. a \in Seq(Nat) /\ b \in Seq(Nat)
      BY <3>4, <3>5
    <3> HIDE DEF a, b
    <3>10. a = b
      <4>1. a \in [1..Len(a) -> Nat] /\ b \in [1..Len(b) -> Nat]
        BY <3>9, LenProperties
      <4> QED
        BY <3>7, <3>8, <4>1
    <3> QED
      BY <3>10 DEF a, b, e
  <2> QED
    BY <1>2, <1>4, <2>1 DEF Line
<1>5. CASE /\ Controls /\ channel' = <<>> /\ pressed' = pressed
           /\ requests' = Waiting /\ log' = log
  <2>1. Waiting \in Seq(Nat) /\ Len(Waiting) <= Len(Line)
        /\ \A i \in 1..Len(Waiting) : Waiting[i] = Line[i]
    BY WaitingProperties DEF Line
  <2>2. Waiting \o <<>> = Waiting
    BY <2>1, ConcatEmptySeq
  <2> QED
    BY <1>2, <1>5, <2>1, <2>2 DEF Line
<1>6. CASE /\ Controls /\ channel' = <<>> /\ pressed' = pressed /\ requests' = <<>>
           /\ Waiting # <<>> /\ Player \in roster.named
  <2>1. <<>> \o <<>> = <<>>
    BY EmptySeq, ConcatEmptySeq
  <2> QED
    BY <1>2, <1>6, <2>1 DEF Line
<1> QED
  BY <1>3, <1>4, <1>5, <1>6, RequestsMove

LEMMA RequestsStep ==
    ASSUME Types, FreshInv, HeldInv, RequestInv, RequestsOnceInOrder, [Next]_vars
    PROVE  RequestInv' /\ RequestsOnceInOrder'
<1> USE DEF RequestsOnceInOrder
<1>1. LogGrows
  BY LogStep
<1>2. /\ Line \in Seq(Nat) /\ Len(Line) \in Nat /\ DOMAIN Line = 1..Len(Line)
      /\ DOMAIN log' = 1..Len(log') /\ DOMAIN log = 1..Len(log)
      /\ Len(log) \in Nat /\ Len(log') \in Nat /\ pressed \in Nat
  BY <1>1, LineStep, LenProperties DEF LogGrows, Types
<1>3. /\ \A i, j \in 1..Len(Line) : i < j => Line[i] < Line[j]
      /\ \A i \in 1..Len(log) : log[i].kind = "request" =>
           /\ \A j \in 1..(i - 1) :
                 log[j].kind = "request" => log[j].request < log[i].request
           /\ \A k \in 1..Len(Line) : log[i].request < Line[k]
  BY <1>2 DEF Line
<1>4. /\ \A i \in 1..Len(Line) : Line[i] \in Nat
      /\ \A i \in 1..Len(log) : log[i].request \in Nat
  <2>1. \A i \in 1..Len(log) : log[i] \in Entries
    BY ElementOfSeq DEF Types
  <2> QED
    BY <1>2, <2>1, ElementOfSeq DEF Entries
<1>5. ASSUME DOMAIN Line' = 1..Len(Line'),
             \A k \in 1..Len(Line') : Line'[k] <= pressed',
             \A i \in 1..Len(log') : log'[i].kind = "request" => log'[i].request <= pressed',
             \A i, j \in 1..Len(Line') : i < j => Line'[i] < Line'[j],
             \A i \in 1..Len(log') : log'[i].kind = "request" =>
               /\ \A j \in 1..(i - 1) :
                     log'[j].kind = "request" => log'[j].request < log'[i].request
               /\ \A k \in 1..Len(Line') : log'[i].request < Line'[k]
      PROVE  RequestInv' /\ RequestsOnceInOrder'
  BY <1>2, <1>5 DEF Line, RequestInv
<1>6. CASE Line' = Line /\ pressed' = pressed /\ ~Controls
  <2>1. ASSUME NEW i \in 1..Len(log'), log'[i].kind = "request"
        PROVE  i \in 1..Len(log) /\ log'[i] = log[i]
    BY <1>1, <1>2, <1>6, <2>1, OldOrNew DEF Allowed
  <2>2. \A i \in 1..Len(log') : log'[i].kind = "request" => log'[i].request <= pressed'
    BY <1>6, <2>1 DEF RequestInv
  <2>3. ASSUME NEW i \in 1..Len(log'), log'[i].kind = "request"
        PROVE  /\ \A j \in 1..(i - 1) :
                     log'[j].kind = "request" => log'[j].request < log'[i].request
               /\ \A k \in 1..Len(Line') : log'[i].request < Line'[k]
    <3>1. i \in 1..Len(log) /\ log'[i] = log[i]
      BY <2>1, <2>3
    <3>2. \A j \in 1..(i - 1) : j \in 1..Len(log) /\ log'[j] = log[j]
      BY <1>1, <1>2, <3>1 DEF LogGrows
    <3> QED
      BY <1>3, <1>6, <2>3, <3>1, <3>2
  <2> QED
    BY <1>2, <1>3, <1>5, <1>6, <2>2, <2>3 DEF RequestInv
<1>7. CASE Line' = Append(Line, pressed + 1) /\ pressed' = pressed + 1 /\ log' = log
  <2>1. /\ Line' \in Seq(Nat) /\ Len(Line') = Len(Line) + 1
        /\ \A k \in 1..Len(Line) : Line'[k] = Line[k]
        /\ Line'[Len(Line) + 1] = pressed + 1
    BY <1>2, <1>7, AppendProperties
  <2>2. DOMAIN Line' = 1..Len(Line')
    BY <2>1, LenProperties
  <2>3. \A k \in 1..Len(Line') : k \in 1..Len(Line) \/ k = Len(Line) + 1
    BY <1>2, <2>1
  <2>4. \A k \in 1..Len(Line) : Line[k] <= pressed
    BY DEF RequestInv
  <2>5. \A k \in 1..Len(Line') : Line'[k] <= pressed'
    BY <1>2, <1>4, <1>7, <2>1, <2>3, <2>4
  <2>6. \A i \in 1..Len(log') : log'[i].kind = "request" => log'[i].request <= pressed'
    BY <1>2, <1>4, <1>7 DEF RequestInv
  <2>7. \A i, j \in 1..Len(Line') : i < j => Line'[i] < Line'[j]
    <3> TAKE i, j \in 1..Len(Line')
    <3> HAVE i < j
    <3>1. i \in 1..Len(Line) /\ Line'[i] = Line[i]
      BY <1>2, <2>1
    <3>2. CASE j \in 1..Len(Line)
      BY <1>3, <2>1, <3>1, <3>2
    <3>3. CASE j = Len(Line) + 1
      BY <1>2, <1>4, <2>1, <2>4, <3>1, <3>3
    <3> QED
      BY <2>3, <3>2, <3>3
  <2>8. \A i \in 1..Len(log') : log'[i].kind = "request" =>
               /\ \A j \in 1..(i - 1) :
                     log'[j].kind = "request" => log'[j].request < log'[i].request
               /\ \A k \in 1..Len(Line') : log'[i].request < Line'[k]
    <3> TAKE i \in 1..Len(log')
    <3> HAVE log'[i].kind = "request"
    <3>1. i \in 1..Len(log) /\ log'[i] = log[i] /\ log[i].request <= pressed
      BY <1>7 DEF RequestInv
    <3>2. \A k \in 1..Len(Line') : log'[i].request < Line'[k]
      BY <1>2, <1>3, <1>4, <2>1, <2>3, <3>1
    <3> QED
      BY <1>3, <1>7, <3>2
  <2> QED
    BY <1>5, <2>2, <2>5, <2>6, <2>7, <2>8
<1>8. CASE /\ Line' \in Seq(Nat) /\ Len(Line') <= Len(Line) /\ pressed' = pressed
           /\ \A k \in 1..Len(Line') : Line'[k] = Line[k]
           /\ log' = log
  <2>1. DOMAIN Line' = 1..Len(Line') /\ Len(Line') \in Nat
    BY <1>8, LenProperties
  <2>2. \A k \in 1..Len(Line') : k \in 1..Len(Line)
    BY <1>2, <1>8, <2>1
  <2> QED
    BY <1>3, <1>5, <1>8, <2>1, <2>2 DEF RequestInv
<1>9. CASE /\ Line' = <<>> /\ pressed' = pressed
           /\ Controls /\ Waiting # <<>> /\ Player \in roster.named
  <2>1. Len(Line') = 0 /\ DOMAIN Line' = 1..Len(Line') /\ 1..Len(Line') = {}
    BY <1>9
  <2>2. /\ Len(log') = Len(log) + Len(Waiting)
        /\ \A i \in New : log'[i].kind = "request" /\ log'[i].request = Waiting[i - Len(log)]
    BY <1>9, ControlsLogs
  <2>3. /\ Waiting \in Seq(Nat) /\ Len(Waiting) <= Len(Line)
        /\ \A i \in 1..Len(Waiting) : Waiting[i] = Line[i]
    BY WaitingProperties DEF Line
  <2>4. Len(Waiting) \in Nat
    BY <2>3, LenProperties
  <2>5. ASSUME NEW i \in New
        PROVE  /\ i - Len(log) \in 1..Len(Line) /\ i > Len(log)
               /\ log'[i].request = Line[i - Len(log)]
    <3>1. i - Len(log) \in 1..Len(Waiting) /\ i - Len(log) \in 1..Len(Line) /\ i > Len(log)
      BY <1>2, <2>2, <2>3, <2>4 DEF New
    <3> QED
      BY <2>2, <2>3, <3>1
  <2>6. \A i \in 1..Len(log') : (i \in 1..Len(log) /\ log'[i] = log[i]) \/ i \in New
    BY <1>1, <1>2, OldOrNew
  <2>7. \A i \in 1..Len(log') : log'[i].kind = "request" => log'[i].request <= pressed'
    BY <1>9, <2>5, <2>6 DEF RequestInv
  <2>8. ASSUME NEW i \in 1..Len(log'), log'[i].kind = "request",
               NEW j \in 1..(i - 1), log'[j].kind = "request"
        PROVE  log'[j].request < log'[i].request
    <3>1. j \in 1..Len(log') /\ j < i
      BY <1>2
    <3>2. CASE i \in 1..Len(log) /\ log'[i] = log[i]
      <4>1. j \in 1..Len(log) /\ log'[j] = log[j]
        BY <1>1, <1>2, <3>1, <3>2 DEF LogGrows
      <4> QED
        BY <1>3, <2>8, <3>2, <4>1
    <3>3. CASE i \in New
      <4>1. CASE j \in 1..Len(log) /\ log'[j] = log[j]
        BY <1>3, <2>5, <2>8, <3>3, <4>1
      <4>2. CASE j \in New
        <5>1. j - Len(log) < i - Len(log)
          BY <1>2, <3>1, <4>2 DEF New
        <5> QED
          BY <1>3, <2>5, <3>3, <4>2, <5>1
      <4> QED
        BY <2>6, <3>1, <4>1, <4>2
    <3> QED
      BY <2>6, <3>2, <3>3
  <2> QED
    BY <1>5, <2>1, <2>7, <2>8
<1> QED
  BY <1>6, <1>7, <1>8, <1>9, LineStep
-----------------------------------------------------------------------------
IInv == Types /\ Ids /\ HeldInv /\ LogInv /\ FreshInv /\ SentInv /\ RequestInv
        /\ HelloFirst /\ ConnectedOncePerAttach /\ AnnouncedInv /\ StampsNeverGoBack
        /\ EnvelopeNotOlder /\ RequestsOnceInOrder

LEMMA InitIInv == Init => IInv
<1> SUFFICES ASSUME Init PROVE IInv
  OBVIOUS
<1>1. /\ log = <<>> /\ sent = <<>> /\ held = <<>> /\ requests = <<>> /\ channel = <<>>
      /\ Line = <<>> /\ DOMAIN log = {} /\ DOMAIN sent = {} /\ Len(log) = 0 /\ Len(held) = 0
      /\ Len(sent) = 0 /\ Len(Line) = 0 /\ DOMAIN Line = {}
  <2>1. <<>> \o <<>> = <<>>
    BY EmptySeq, ConcatEmptySeq
  <2> QED
    BY <2>1 DEF Init, Line
<1>2. SimTypes /\ sim.session = 1 /\ sim.published = 0
  BY DEF Init, SimTypes
<1>3. info.session = 0
  BY DEF Init, NoInfo
<1>4. Types
  BY <1>1, <1>2, <1>3, EmptySeq DEF Init, Types
<1>5. Ids
  BY <1>1, <1>2, <1>3 DEF Init, Ids, Bounds
<1>6. HeldInv /\ LogInv /\ SentInv /\ RequestInv /\ AnnouncedInv
  BY <1>1 DEF Init, HeldInv, LogInv, SentInv, RequestInv, AnnouncedInv
<1>7. FreshInv
  BY <1>1 DEF Init, FreshInv, SaidHere
<1>8. HelloFirst /\ ConnectedOncePerAttach /\ StampsNeverGoBack /\ EnvelopeNotOlder
  BY <1>1 DEF HelloFirst, ConnectedOncePerAttach, StampsNeverGoBack, EnvelopeNotOlder
<1>9. RequestsOnceInOrder
  BY <1>1 DEF RequestsOnceInOrder, Line
<1> QED
  BY <1>4, <1>5, <1>6, <1>7, <1>8, <1>9 DEF IInv

LEMMA StepIInv == IInv /\ [Next]_vars => IInv'
BY TypesStep, IdsStep, HeldStep, LogInvStep, FreshStep, SentStep, RequestsStep,
   HelloFirstStep, ConnectedStep, AnnouncedStep, StampsStep, EnvelopeStep
DEF IInv

LEMMA Invariance == Spec => []IInv
BY InitIInv, StepIInv, PTL DEF Spec

\* Nothing is said under an id that its HELLO has not opened (the HELLO block and every
\* enqueue of the pipeline loop), held events and a shutdown included.
THEOREM HelloComesFirst == Spec => []HelloFirst
<1>1. IInv => HelloFirst
  BY DEF IInv
<1> QED
  BY <1>1, Invariance, PTL

\* IRACING_CONNECTED once per attach and before its first HELLO (emit_iracing_connected).
THEOREM ConnectedOnce == Spec => []ConnectedOncePerAttach
<1>1. IInv => ConnectedOncePerAttach
  BY DEF IInv
<1> QED
  BY <1>1, Invariance, PTL

\* Every further HELLO of an attach follows its GOODBYE and SESSION_RESET directly.
THEOREM TransitionsAnnounced == Spec => []TransitionAnnounced
<1>1. IInv => TransitionAnnounced
  <2>1. Types => DOMAIN log = 1..Len(log)
    BY LenProperties DEF Types
  <2> QED
    BY <2>1 DEF IInv, AnnouncedInv, TransitionAnnounced
<1> QED
  BY <1>1, Invariance, PTL

\* The ids of an attach never go back in the order of the log: nothing of a departed
\* sub-session, held events included, is enqueued once the next one is adopted.
THEOREM IdsGoForward == Spec => []StampsNeverGoBack
<1>1. IInv => StampsNeverGoBack
  BY DEF IInv
<1> QED
  BY <1>1, Invariance, PTL

\* No envelope is older than an event in it (the id that tick and flush post with, for
\* what earlier flushes left in the queue too).
THEOREM EnvelopesKeepUp == Spec => []EnvelopeNotOlder
<1>1. IInv => EnvelopeNotOlder
  BY DEF IInv
<1> QED
  BY <1>1, Invariance, PTL

\* Driver requests are published once and in the order they were pressed.
THEOREM RequestsOnce == Spec => []RequestsOnceInOrder
<1>1. IInv => RequestsOnceInOrder
  BY DEF IInv
<1> QED
  BY <1>1, Invariance, PTL
=============================================================================
