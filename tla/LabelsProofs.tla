---------------------------- MODULE LabelsProofs ----------------------------
(***************************************************************************)
(* What TLAPS proves of Labels for every field of cars, every weekend, and *)
(* every bound: the names and the session type on what is enqueued.        *)
(*                                                                         *)
(* The id is one of a sub-session that iRacing has reached (IdInv); the    *)
(* roster names nobody of an earlier one than that, and what is held was   *)
(* built under the present id with such names (NamesInv, HeldInv); the     *)
(* metadata are those of the session number that was looked up last        *)
(* (InformedInv).                                                          *)
(***************************************************************************)
EXTENDS Labels, SequenceTheorems, FiniteSetTheorems, WellFoundedInduction, TLAPS

IsSeq(s) == s \in Seq({s[i] : i \in DOMAIN s})

Types ==
    /\ {"session", "num", "day"} \subseteq DOMAIN sim
    /\ sim.session \in SubSessions /\ sim.num \in Nums /\ sim.day \in 0..MaxDay
    /\ text \in Texts(sim.session)
    /\ pc = "frame" => frame.num \in Nums
    /\ subSession \in Nat
    /\ IsSeq(held)

\* Which sub-session the id may be one of.
IdInv == \A s \in SubSessions : subSession \in IdsOf(s) => s <= sim.session

\* Whose names a roster has that may be used under an id.
Current(r, id) == r.of \in Nat /\ (r.named # {} => NotBefore(r.of, id))
NamesInv == Current(roster, subSession)

\* An event that names nobody of an earlier sub-session than its own.
Parts == {"id", "car", "subject", "others"}
Fits(e, id) ==
    /\ Parts \subseteq DOMAIN e
    /\ e.id = id
    /\ \A ref \in References(e) : NotBefore(ref.name, id)
HeldInv ==
    \A i \in DOMAIN held :
        /\ Fits(held[i], subSession)
        /\ subSession > 0 => ~Names(roster, held[i].car.car)

\* What the last read that was due has found is what the frame asks for.
InformedInv ==
    /\ informed => lastNum \in Nums /\ meta = Weekend[lastNum + 1]
    /\ pc = "events" /\ informed => frame.num = lastNum
-----------------------------------------------------------------------------
\* Picked elements are elements, in a sequence.
LEMMA PickedElements ==
    ASSUME NEW S, NEW s \in Seq(S), NEW I \in SUBSET (1..Len(s)), NEW r \in Picked(s, I)
    PROVE  r \in Seq(S) /\ \A k \in DOMAIN r : \E i \in I : r[k] = s[i]
<1>1. Len(s) \in Nat /\ \A i \in 1..Len(s) : s[i] \in S
  BY LenProperties, ElementOfSeq
<1>2. Cardinality(I) \in Nat
  <2>1. IsFiniteSet(1..Len(s)) /\ I \subseteq 1..Len(s)
    BY <1>1, FS_Interval
  <2> QED
    BY <2>1, FS_Subset, FS_CardinalityType
<1>3. PICK f \in [1..Cardinality(I) -> I] : r = [k \in DOMAIN f |-> s[f[k]]]
  BY DEF Picked, InOrder
<1>4. r = [k \in 1..Cardinality(I) |-> s[f[k]]] /\ \A k \in 1..Cardinality(I) : f[k] \in I
  BY <1>3
<1>5. r \in [1..Cardinality(I) -> S]
  BY <1>1, <1>4
<1>6. r \in Seq(S) /\ DOMAIN r = 1..Cardinality(I)
  BY <1>2, <1>5
<1> QED
  BY <1>4, <1>6

LEMMA OneBehind ==
    ASSUME NEW S, NEW s \in Seq(S), NEW e \in S
    PROVE  /\ Append(s, e) \in Seq(S)
           /\ Len(s) \in Nat
           /\ Len(Append(s, e)) = Len(s) + 1
           /\ \A i \in 1..Len(s) : Append(s, e)[i] = s[i]
           /\ Append(s, e)[Len(s) + 1] = e
BY AppendProperties, LenProperties

\* The least of some positions.
LEMMA Least ==
    ASSUME NEW I \in SUBSET Nat, I # {}
    PROVE  \E i \in I : \A j \in I : i <= j
<1> DEFINE T == {0..i : i \in I}
<1>1. IsWellFoundedOn(StrictSubsetOrdering(Nat), FiniteSubsetsOf(Nat))
  BY FS_StrictSubsetOrderingWellFounded
<1>2. T \subseteq FiniteSubsetsOf(Nat) /\ T # {}
  <2>1. \A i \in I : 0..i \in SUBSET Nat /\ IsFiniteSet(0..i)
    BY FS_Interval
  <2> QED
    BY <2>1 DEF FiniteSubsetsOf
<1>3. PICK x \in T : \A y \in T : ~(<<y, x>> \in StrictSubsetOrdering(Nat))
  <2> HIDE DEF T
  <2> QED
    BY <1>1, <1>2, WFMin
<1>4. PICK i \in I : x = 0..i
  OBVIOUS
<1>5. ASSUME NEW j \in I, j < i
      PROVE  FALSE
  <2>1. 0..j \in T /\ 0..j \in SUBSET Nat /\ 0..i \in SUBSET Nat
    OBVIOUS
  <2>2. 0..j \subseteq 0..i /\ i \in 0..i /\ i \notin 0..j
    BY <1>5
  <2>3. <<0..j, 0..i>> \in StrictSubsetOrdering(Nat)
    BY <2>1, <2>2 DEF StrictSubsetOrdering
  <2> QED
    BY <1>3, <1>4, <2>1, <2>3
<1> QED
  BY <1>5

LEMMA FirstIsOne ==
    ASSUME NEW s, NEW I \in SUBSET Nat, I # {}
    PROVE  \E i \in I : FirstAt(s, I) = s[i]
<1>1. \E i \in I : \A j \in I : i <= j
  BY Least
<1> QED
  BY <1>1 DEF FirstAt

\* A sequence of anything is a sequence of what is in it.
LEMMA OwnSeq ==
    ASSUME NEW S, NEW s \in Seq(S)
    PROVE  IsSeq(s) /\ Len(s) \in Nat /\ DOMAIN s = 1..Len(s)
<1>1. Len(s) \in Nat /\ DOMAIN s = 1..Len(s) /\ s \in [1..Len(s) -> S]
  BY LenProperties
<1> DEFINE R == {s[i] : i \in DOMAIN s}
<1>2. s \in [1..Len(s) -> R]
  BY <1>1
<1>3. s \in Seq(R)
  BY <1>1, <1>2
<1> QED
  BY <1>1, <1>3 DEF IsSeq

LEMMA SeqOfOwn ==
    ASSUME NEW s, IsSeq(s)
    PROVE  Len(s) \in Nat /\ DOMAIN s = 1..Len(s)
BY LenProperties DEF IsSeq

LEMMA AppendOwn ==
    ASSUME NEW s, IsSeq(s), NEW e
    PROVE  /\ IsSeq(Append(s, e))
           /\ \A i \in DOMAIN Append(s, e) :
                (i \in DOMAIN s /\ Append(s, e)[i] = s[i]) \/ Append(s, e)[i] = e
<1> DEFINE S == {s[i] : i \in DOMAIN s} \cup {e}
<1>1. Len(s) \in Nat /\ DOMAIN s = 1..Len(s) /\ s \in [1..Len(s) -> S]
  BY LenProperties DEF IsSeq
<1>2. s \in Seq(S) /\ e \in S
  BY <1>1
<1>3. /\ Append(s, e) \in Seq(S)
      /\ Len(Append(s, e)) = Len(s) + 1
      /\ \A i \in 1..Len(s) : Append(s, e)[i] = s[i]
      /\ Append(s, e)[Len(s) + 1] = e
  <2> HIDE DEF S
  <2> QED
    BY <1>2, OneBehind
<1>4. IsSeq(Append(s, e)) /\ DOMAIN Append(s, e) = 1..(Len(s) + 1)
  <2> HIDE DEF S
  <2> QED
    BY <1>3, OwnSeq
<1> QED
  BY <1>1, <1>3, <1>4

LEMMA PickedOwn ==
    ASSUME NEW s, IsSeq(s), NEW I \in SUBSET DOMAIN s, NEW r \in Picked(s, I)
    PROVE  IsSeq(r) /\ \A k \in DOMAIN r : \E i \in I : r[k] = s[i]
<1> DEFINE S == {s[i] : i \in DOMAIN s}
<1>1. s \in Seq(S) /\ DOMAIN s = 1..Len(s)
  BY SeqOfOwn DEF IsSeq
<1>2. r \in Seq(S) /\ \A k \in DOMAIN r : \E i \in I : r[k] = s[i]
  <2> HIDE DEF S
  <2> QED
    BY <1>1, PickedElements
<1> QED
  <2> HIDE DEF S
  <2> QED
    BY <1>2, OwnSeq
-----------------------------------------------------------------------------
LEMMA WeekendIsTypes ==
    /\ Len(Weekend) \in Nat \ {0} /\ DOMAIN Weekend = 1..Len(Weekend)
    /\ \A num \in Nums : num + 1 \in DOMAIN Weekend /\ Weekend[num + 1] # NoType
    /\ 0 \in Nums
<1>1. Weekend \in Seq(STRING \ {NoType}) /\ Weekend # <<>>
  BY LabelsAssumption
<1>2. Len(Weekend) \in Nat /\ DOMAIN Weekend = 1..Len(Weekend)
  BY <1>1, LenProperties
<1>3. Len(Weekend) # 0
  BY <1>1, EmptySeq
<1>4. \A i \in 1..Len(Weekend) : Weekend[i] \in STRING \ {NoType}
  BY <1>1, ElementOfSeq
<1>5. \A num \in Nums : num + 1 \in 1..Len(Weekend)
  BY <1>2 DEF Nums
<1> QED
  BY <1>2, <1>3, <1>4, <1>5 DEF Nums

\* No two sub-sessions share an id.
LEMMA IdsDiffer ==
    ASSUME NEW s \in SubSessions, NEW t \in SubSessions, NEW id \in IdsOf(s), id \in IdsOf(t)
    PROVE  s = t
<1>1. s \in 1..(FirstSynthetic - 1) /\ t \in 1..(FirstSynthetic - 1)
  BY LabelsAssumption DEF SubSessions, FirstSynthetic
<1>2. MaxDay \in Nat
  BY LabelsAssumption
<1>3. CASE s \in AiSessions /\ t \in AiSessions
  <2>1. PICK d \in 0..MaxDay : id = SyntheticId(s, d)
    BY <1>3 DEF IdsOf
  <2>2. PICK e \in 0..MaxDay : id = SyntheticId(t, e)
    BY <1>3 DEF IdsOf
  <2> QED
    BY <1>1, <1>2, <2>1, <2>2 DEF SyntheticId, FirstSynthetic
<1>4. ASSUME NEW u \in {s, t}, u \in AiSessions
      PROVE  id >= FirstSynthetic
  <2>1. PICK d \in 0..MaxDay : id = SyntheticId(u, d)
    BY <1>4 DEF IdsOf
  <2> QED
    BY <1>1, <1>2, <2>1 DEF SyntheticId, FirstSynthetic
<1>5. ASSUME NEW u \in {s, t}, u \notin AiSessions
      PROVE  id = u /\ ~(id >= FirstSynthetic)
  BY <1>1, <1>5 DEF IdsOf, FirstSynthetic
<1> QED
  BY <1>3, <1>4, <1>5

\* An id that a text gives is one of its sub-session, and a number.
LEMMA IdOfText ==
    ASSUME Types
    PROVE  SubSessionId(text, sim.day) \in {NoId} \cup (IdsOf(sim.session) \cap Nat)
<1> DEFINE s == sim.session
<1>1. /\ text.ids \in (IF s \in AiSessions THEN {<<0>>} ELSE {<<0>>, <<0, s>>})
      /\ text.track = s /\ text.ai = (s \in AiSessions)
      /\ s \in Nat /\ sim.day \in 0..MaxDay /\ MaxDay \in Nat
  BY LabelsAssumption DEF Types, Texts, SubSessions
<1> DEFINE resolved == {i \in DOMAIN text.ids : IsId(text.ids[i])}
<1>2. ParsedId(text) = NoId \/ (ParsedId(text) = s /\ s \notin AiSessions)
  <2>1. CASE resolved = {}
    BY <2>1 DEF ParsedId
  <2>2. CASE resolved # {}
    <3>1. resolved \in SUBSET Nat /\ \A i \in resolved : text.ids[i] \in {0, s} \ {0}
      BY <1>1 DEF IsId
    <3>2. ParsedId(text) = FirstAt(text.ids, resolved)
      BY <2>2 DEF ParsedId
    <3>3. \E i \in resolved : FirstAt(text.ids, resolved) = text.ids[i]
      <4> HIDE DEF resolved
      <4> QED
        BY <2>2, <3>1, FirstIsOne
    <3>4. s \notin AiSessions
      BY <1>1, <2>2 DEF IsId
    <3> QED
      BY <3>1, <3>2, <3>3, <3>4
  <2> QED
    BY <2>1, <2>2
<1>3. SyntheticId(text.track, sim.day) \in Nat
  BY <1>1 DEF SyntheticId, FirstSynthetic
<1>4. s \in AiSessions => SyntheticId(text.track, sim.day) \in IdsOf(s)
  BY <1>1 DEF IdsOf
<1>5. s \notin AiSessions => s \in IdsOf(s)
  BY DEF IdsOf
<1> QED
  BY <1>1, <1>2, <1>3, <1>4, <1>5 DEF SubSessionId

\* Names of the sub-session that iRacing is in can be used under any id it has reached.
LEMMA NamesOfToday ==
    ASSUME NEW id, NEW t \in SubSessions,
           \A s \in SubSessions : id \in IdsOf(s) => s <= t
    PROVE  NotBefore(t, id)
BY LabelsAssumption DEF NotBefore, SubSessions

\* The type of a complete text is the one of the session that was asked for.
LEMMA TypeOfComplete ==
    ASSUME Complete(text), NEW num \in Nums
    PROVE  SessionType(text, num) = Weekend[num + 1]
<1>1. "sessions" \in text.read /\ text.types = Weekend
  BY DEF Complete
<1>2. Weekend # <<>> /\ num + 1 \in DOMAIN Weekend /\ Weekend[num + 1] # NoType
  BY WeekendIsTypes, LabelsAssumption
<1>3. ListedType(text, num) = Weekend[num + 1]
  BY <1>1, <1>2 DEF ListedType
<1> QED
  BY <1>1, <1>2, <1>3 DEF SessionType
-----------------------------------------------------------------------------
\* A car is named by a roster of its day, if at all.
LEMMA ResolvedNames ==
    ASSUME NEW r, NEW id, Current(r, id), NEW c
    PROVE  NotBefore(Resolved(c, r).name, id) /\ NotBefore(Unnamed, id)
<1>1. NotBefore(Unnamed, id)
  BY DEF NotBefore
<1>2. CASE c \in r.named
  BY <1>1, <1>2 DEF Resolved, Names, Current
<1>3. CASE c \notin r.named
  BY <1>1, <1>3 DEF Resolved, Names
<1> QED
  BY <1>1, <1>2, <1>3

\* An envelope names whom its roster names.
LEMMA BuiltFits ==
    ASSUME NEW event, NEW position, NEW r, NEW id, NEW type, Current(r, id)
    PROVE  Fits(Built(event, position, r, Context(id, type)), id)
<1> DEFINE e == Built(event, position, r, Context(id, type))
<1>1. \A c : NotBefore(Resolved(c, r).name, id) /\ NotBefore(Unnamed, id)
  BY ResolvedNames
<1>2. NoRef.name = Unnamed
  BY DEF NoRef
<1>3. \A c : NotBefore(Reference(c, r).name, id)
  BY <1>1, <1>2 DEF Reference
<1>4. e.id = id /\ Parts \subseteq DOMAIN e
  BY DEF Built, Context, Parts
<1>5. NotBefore(e.car.name, id)
  BY <1>1, <1>2 DEF Built
<1>6. NotBefore(e.subject.name, id)
  BY <1>3 DEF Built
<1>7. \A ref \in e.others : NotBefore(ref.name, id)
  BY <1>1 DEF Built
<1> HIDE DEF e
<1>8. \A ref \in References(e) : NotBefore(ref.name, id)
  BY <1>5, <1>6, <1>7 DEF References
<1>9. Fits(e, id)
  BY <1>4, <1>8 DEF Fits
<1> QED
  BY <1>9 DEF e

LEMMA NewRosterHasNobody ==
    /\ NewRoster.of = 0 /\ NewRoster.named = {}
    /\ \A id : Current(NewRoster, id)
    /\ NoId = 0 /\ Unnamed \notin Nat
BY DEF NewRoster, NoTrack, NoId, Unnamed, Current

\* What may be enqueued with or without names, and what has one.
LEMMA BuiltPostable ==
    ASSUME NEW event, NEW position, NEW r, NEW context,
           \/ event.kind \in {"session", "rig"}
           \/ event.kind \in {"driver", "material"} /\ Names(r, Player) /\ r.of \in Nat
    PROVE  Postable(Built(event, position, r, context))
<1> DEFINE e == Built(event, position, r, context)
<1>1. e.kind = event.kind
  BY DEF Built
<1>2. CASE event.kind \in {"session", "rig"}
  <2>1. Scope(event.kind) # "CAR_SCOPED"
    BY <1>2 DEF Scope, SessionKinds, RigKinds, CarKinds
  <2> QED
    BY <1>1, <2>1 DEF Postable
<1>3. CASE event.kind \in {"driver", "material"} /\ Names(r, Player) /\ r.of \in Nat
  <2>1. Scope(event.kind) = "CAR_SCOPED"
    BY <1>3 DEF Scope, SessionKinds, RigKinds, CarKinds
  <2>2. PrimaryCar(event) = Player
    BY <1>3 DEF PrimaryCar
  <2>3. e.car = Resolved(Player, r)
    BY <2>1, <2>2 DEF Built
  <2>4. e.car.name = r.of
    BY <1>3, <2>3 DEF Resolved
  <2> QED
    BY <1>3, <2>4, NewRosterHasNobody DEF Postable
<1> QED
  BY <1>2, <1>3

\* What is held back is about a car that the roster does not name.
LEMMA NotPostable ==
    ASSUME NEW event, NEW position, NEW r, NEW context, r.of \in Nat,
           ~Postable(Built(event, position, r, context))
    PROVE  ~Names(r, Built(event, position, r, context).car.car)
<1> DEFINE e == Built(event, position, r, context)
<1>1. Scope(event.kind) = "CAR_SCOPED" /\ e.car.name = Unnamed
  BY DEF Postable, Built
<1>2. e.car = Resolved(PrimaryCar(event), r)
  BY <1>1 DEF Built
<1>3. e.car.car = PrimaryCar(event)
  BY <1>2 DEF Resolved
<1>4. CASE Names(r, PrimaryCar(event))
  <2>1. e.car.name = r.of
    BY <1>2, <1>4 DEF Resolved
  <2> QED
    BY <1>1, <2>1, NewRosterHasNobody
<1> QED
  BY <1>3, <1>4

\* A held event keeps what it was built with, but for the name of its car.
LEMMA RelabelledFits ==
    ASSUME NEW h, NEW known, NEW id, Fits(h, id), Current(known, id)
    PROVE  Fits(Relabelled(h, known), id)
<1> DEFINE e == Relabelled(h, known)
<1>1. Parts \subseteq DOMAIN h /\ h.id = id
      /\ \A ref \in References(h) : NotBefore(ref.name, id)
  BY DEF Fits
<1>2. e = [h EXCEPT !.car = Resolved(h.car.car, known)]
  BY DEF Relabelled
<1>3. /\ Parts \subseteq DOMAIN e
      /\ e.id = h.id /\ e.subject = h.subject /\ e.others = h.others
      /\ e.car = Resolved(h.car.car, known)
  BY <1>1, <1>2 DEF Parts
<1>4. NotBefore(e.car.name, id)
  BY <1>3, ResolvedNames
<1> HIDE DEF e
<1>5. \A ref \in References(e) : NotBefore(ref.name, id)
  BY <1>1, <1>3, <1>4 DEF References
<1>6. Fits(e, id)
  BY <1>1, <1>3, <1>5 DEF Fits
<1> QED
  BY <1>6 DEF e

LEMMA RelabelledPostable ==
    ASSUME NEW h, NEW known, "car" \in DOMAIN h, Names(known, h.car.car), known.of \in Nat
    PROVE  Postable(Relabelled(h, known))
<1>1. Relabelled(h, known).car = Resolved(h.car.car, known)
  BY DEF Relabelled
<1>2. Relabelled(h, known).car.name = known.of
  BY <1>1 DEF Resolved
<1> QED
  BY <1>2, NewRosterHasNobody DEF Postable
-----------------------------------------------------------------------------
\* What is enqueued names nobody of another sub-session, and goes out with a name.
OutInv == \A e \in out : Fits(e, e.id) /\ Postable(e)

IInv == Types /\ IdInv /\ NamesInv /\ HeldInv /\ InformedInv /\ OutInv

LEMMA NoIdOfAny ==
    ASSUME NEW s \in SubSessions
    PROVE  NoId \notin IdsOf(s)
BY LabelsAssumption DEF IdsOf, SubSessions, SyntheticId, FirstSynthetic, NoId

LEMMA RosterIsOfNat == ASSUME Types, NamesInv PROVE roster.of \in Nat
BY DEF NamesInv, Current

LEMMA IInvInit == Init => IInv
<1> SUFFICES ASSUME Init
             PROVE  IInv
  OBVIOUS
<1>1. Types
  <2>1. /\ {"session", "num", "day"} \subseteq DOMAIN sim
        /\ sim.session = 1 /\ sim.num = 0 /\ sim.day = 0
    BY DEF Init
  <2>2. 1 \in SubSessions /\ 0 \in Nums
    BY LabelsAssumption, WeekendIsTypes DEF SubSessions
  <2>3. IsSeq(held)
    <3>1. held = <<>> /\ <<>> \in Seq({})
      BY DEF Init
    <3> QED
      BY <3>1, OwnSeq
  <2>4. text \in Texts(1) /\ pc = "wait" /\ subSession = NoId
    BY DEF Init
  <2> QED
    BY <2>1, <2>2, <2>3, <2>4, NewRosterHasNobody, LabelsAssumption DEF Types
<1>2. IdInv
  BY NoIdOfAny DEF Init, IdInv
<1>3. NamesInv
  BY NewRosterHasNobody DEF Init, NamesInv
<1>4. HeldInv /\ OutInv /\ InformedInv
  BY DEF Init, HeldInv, OutInv, InformedInv
<1> QED
  BY <1>1, <1>2, <1>3, <1>4 DEF IInv

LEMMA MemoryKept ==
    ASSUME IInv, UNCHANGED <<pc, frame, kept, held>>
    PROVE  NamesInv' /\ HeldInv' /\ InformedInv'
BY DEF IInv, NamesInv, HeldInv, InformedInv, kept

\* Steps of iRacing leave the pipeline alone, and the steps that enqueue without a read
\* of the text leave the roster alone.
LEMMA OfTheSim ==
    ASSUME IInv, SimPublishes \/ SimNextSession \/ SimNextSubSession \/ Midnight
    PROVE  IInv'
<1>2. UNCHANGED <<pc, frame, kept, held, subSession>> /\ out' = {}
  BY DEF SimPublishes, SimNextSession, SimNextSubSession, Midnight, pipeline, kept
<1>3. /\ {"session", "num", "day"} \subseteq DOMAIN sim
      /\ sim.session \in SubSessions /\ sim.num \in Nums /\ sim.day \in 0..MaxDay
      /\ text \in Texts(sim.session)
      /\ sim.session \in Nat /\ MaxDay \in Nat
  BY LabelsAssumption DEF IInv, Types, SubSessions
<1>4. /\ {"session", "num", "day"} \subseteq DOMAIN sim'
      /\ sim'.session \in SubSessions /\ sim'.num \in Nums /\ sim'.day \in 0..MaxDay
      /\ text' \in Texts(sim'.session)
      /\ sim'.session \in Nat /\ sim'.session >= sim.session
  <2>1. CASE SimPublishes
    <3>1. sim' = [sim EXCEPT !.tick = @ + 1] /\ text' \in Texts(sim.session)
      BY <2>1 DEF SimPublishes, NewText
    <3> QED
      BY <1>3, <3>1
  <2>2. CASE SimNextSession
    <3>1. sim' = [sim EXCEPT !.num = @ + 1] /\ text' = text /\ sim.num + 1 \in Nums
      BY <2>2 DEF SimNextSession
    <3> QED
      BY <1>3, <3>1
  <2>3. CASE SimNextSubSession
    <3>1. /\ sim' = [sim EXCEPT !.session = @ + 1, !.num = 0, !.tick = @ + 1]
          /\ text' \in Texts(sim.session + 1)
          /\ sim.session < MaxSubSessions
      BY <2>3 DEF SimNextSubSession, NewText
    <3>2. sim.session + 1 \in SubSessions /\ 0 \in Nums
      BY <1>3, <3>1, LabelsAssumption, WeekendIsTypes DEF SubSessions
    <3> QED
      BY <1>3, <3>1, <3>2
  <2>4. CASE Midnight
    <3>1. sim' = [sim EXCEPT !.day = @ + 1] /\ text' = text /\ sim.day < MaxDay
      BY <2>4 DEF Midnight
    <3> QED
      BY <1>3, <3>1
  <2> QED
    BY <2>1, <2>2, <2>3, <2>4
<1>5. Types'
  BY <1>2, <1>4 DEF IInv, Types
<1>6. NamesInv' /\ HeldInv' /\ InformedInv'
  BY <1>2, MemoryKept
<1>7. IdInv'
  <2>1. ASSUME NEW s \in SubSessions, subSession' \in IdsOf(s)
        PROVE  s <= sim'.session
    <3>1. s <= sim.session /\ s \in Nat
      BY <1>2, <2>1, LabelsAssumption DEF IInv, IdInv, SubSessions
    <3> QED
      BY <1>3, <1>4, <3>1
  <2> QED
    BY <2>1 DEF IdInv
<1> QED
  BY <1>2, <1>5, <1>6, <1>7 DEF IInv, OutInv

LEMMA OfTheFrame ==
    ASSUME IInv, TakeFrame \/ NoRead \/ ReadFails \/ FrameDone
    PROVE  IInv'
<1>1. /\ out' = {}
      /\ UNCHANGED <<sim, text, subSession, roster, held, lastNum, meta>>
  BY DEF TakeFrame, NoRead, ReadFails, FrameDone, iRacing, kept
<1>2. Types'
  <2>1. CASE TakeFrame
    <3>1. frame' = [num |-> sim.num, tick |-> sim.tick]
      BY <2>1 DEF TakeFrame
    <3> QED
      BY <1>1, <3>1 DEF IInv, Types
  <2>2. CASE NoRead \/ ReadFails \/ FrameDone
    <3>1. pc' # "frame"
      BY <2>2 DEF NoRead, ReadFails, FrameDone
    <3> QED
      BY <1>1, <3>1 DEF IInv, Types
  <2> QED
    BY <2>1, <2>2
<1>3. IdInv' /\ NamesInv' /\ HeldInv'
  BY <1>1 DEF IInv, IdInv, NamesInv, HeldInv
<1>4. InformedInv'
  <2>1. CASE TakeFrame \/ FrameDone
    BY <1>1, <2>1 DEF TakeFrame, FrameDone, IInv, InformedInv, kept
  <2>2. CASE NoRead
    <3>1. lastNum = frame.num
      BY <2>2 DEF NoRead, MayBeDue, MustRead
    <3> QED
      BY <1>1, <2>2, <3>1 DEF NoRead, IInv, InformedInv, kept
  <2>3. CASE ReadFails
    BY <1>1, <2>3 DEF ReadFails, InformedInv
  <2> QED
    BY <2>1, <2>2, <2>3
<1> QED
  BY <1>1, <1>2, <1>3, <1>4 DEF IInv, OutInv

LEMMA BuiltNowFits ==
    ASSUME IInv, NEW event
    PROVE  LET e == BuiltNow(event) IN Fits(e, e.id)
<1>1. Current(roster, subSession)
  BY DEF IInv, NamesInv
<1>2. Fits(BuiltNow(event), subSession)
  BY <1>1, BuiltFits DEF BuiltNow
<1> QED
  BY <1>2 DEF Fits

LEMMA OfTheEvents ==
    ASSUME IInv, SessionEvents \/ Timers
    PROVE  IInv'
<1>1. UNCHANGED <<sim, text, pc, frame, kept, held>>
  BY DEF SessionEvents, Timers, iRacing, pipeline
<1>2. Types' /\ IdInv'
  BY <1>1 DEF IInv, Types, IdInv, kept
<1>3. NamesInv' /\ HeldInv' /\ InformedInv'
  BY <1>1, MemoryKept
<1>4. ASSUME NEW e \in out'
      PROVE  Fits(e, e.id) /\ Postable(e)
  <2>1. CASE SessionEvents
    <3>1. e = BuiltNow(SessionEvent)
      BY <1>4, <2>1 DEF SessionEvents
    <3>2. Postable(e)
      BY <3>1, BuiltPostable DEF BuiltNow, SessionEvent
    <3> QED
      BY <3>1, <3>2, BuiltNowFits
  <2>2. CASE Timers
    <3>1. \/ e = BuiltNow(RigEvent)
          \/ Names(roster, Player) /\ \E event \in DriverEvents : e = BuiltNow(event)
      BY <1>4, <2>2 DEF Timers
    <3>2. CASE e = BuiltNow(RigEvent)
      <4>1. Postable(e)
        BY <3>2, BuiltPostable DEF BuiltNow, RigEvent
      <4> QED
        BY <3>2, <4>1, BuiltNowFits
    <3>3. CASE Names(roster, Player) /\ \E event \in DriverEvents : e = BuiltNow(event)
      <4>1. PICK event \in DriverEvents : e = BuiltNow(event)
        BY <3>3
      <4>2. event.kind \in {"driver", "material"}
        BY DEF DriverEvents, Alone, Together
      <4>3. roster.of \in Nat
        BY RosterIsOfNat DEF IInv
      <4>4. Postable(e)
        BY <3>3, <4>1, <4>2, <4>3, BuiltPostable DEF BuiltNow
      <4> QED
        BY <4>1, <4>4, BuiltNowFits
    <3> QED
      BY <3>1, <3>2, <3>3
  <2> QED
    BY <2>1, <2>2
<1> QED
  BY <1>2, <1>3, <1>4 DEF IInv, OutInv

LEMMA OfTheEngine ==
    ASSUME IInv, EngineEvent
    PROVE  IInv'
<1>1. PICK event \in EngineEvents, position \in Positions \cup {Level} :
        LET e == Built(event, position, roster, Context(subSession, meta))
        IN  \/ Postable(e) /\ out' = {e} /\ UNCHANGED held
            \/ ~Postable(e) /\ out' = {} /\ held' \in {held, Append(held, e)}
  BY DEF EngineEvent
<1> DEFINE e == Built(event, position, roster, Context(subSession, meta))
<1>2. UNCHANGED <<sim, text, pc, frame, subSession, lastNum, roster, meta, informed>>
  BY DEF EngineEvent, iRacing, kept
<1>3. Fits(e, subSession) /\ roster.of \in Nat
  BY BuiltFits, RosterIsOfNat DEF IInv, NamesInv
<1>4. e.id = subSession
  BY <1>3 DEF Fits
<1>5. ~Postable(e) => ~Names(roster, e.car.car)
  BY <1>3, NotPostable
<1>6. \/ Postable(e) /\ out' = {e} /\ UNCHANGED held
      \/ ~Postable(e) /\ out' = {} /\ held' \in {held, Append(held, e)}
  BY <1>1
<1> HIDE DEF e
<1>7. IsSeq(held) /\ HeldInv
  BY DEF IInv, Types
<1>8. /\ IsSeq(held')
      /\ \A i \in DOMAIN held' :
           \/ i \in DOMAIN held /\ held'[i] = held[i]
           \/ held'[i] = e /\ ~Postable(e)
  BY <1>6, <1>7, AppendOwn
<1>9. HeldInv'
  BY <1>2, <1>3, <1>5, <1>7, <1>8 DEF HeldInv
<1>10. Types'
  BY <1>2, <1>8 DEF IInv, Types
<1>11. IdInv' /\ NamesInv' /\ InformedInv'
  BY <1>2 DEF IInv, IdInv, NamesInv, InformedInv
<1>12. OutInv'
  BY <1>3, <1>4, <1>6 DEF OutInv
<1> QED
  BY <1>9, <1>10, <1>11, <1>12 DEF IInv

LEMMA OfTheReattach ==
    ASSUME IInv, Reattach
    PROVE  IInv'
<1>1. /\ sim' = [sim EXCEPT !.tick = @ + 1] /\ text' = text
      /\ pc = "wait" /\ pc' = pc /\ subSession' = NoId /\ roster' = NewRoster
      /\ held' = <<>> /\ informed' = FALSE
  BY DEF Reattach
<1>2. IsSeq(held')
  <2>1. <<>> \in Seq({})
    OBVIOUS
  <2> QED
    BY <1>1, <2>1, OwnSeq
<1>3. Types'
  BY <1>1, <1>2, NewRosterHasNobody DEF IInv, Types
<1>4. IdInv' /\ NamesInv' /\ HeldInv' /\ InformedInv'
  BY <1>1, NewRosterHasNobody, NoIdOfAny DEF IdInv, NamesInv, HeldInv, InformedInv
<1>5. ASSUME NEW e \in out'
      PROVE  Fits(e, e.id) /\ Postable(e)
  <2>1. e = BuiltNow(RigEvent)
    BY <1>5 DEF Reattach
  <2>2. Postable(e)
    BY <2>1, BuiltPostable DEF BuiltNow, RigEvent
  <2> QED
    BY <2>1, <2>2, BuiltNowFits
<1> QED
  BY <1>3, <1>4, <1>5 DEF IInv, OutInv

\* What Refresh makes of the text, under names of its own.
LEMMA OfTheRefresh ==
    ASSUME IInv, Refresh
    PROVE  IInv'
<1> DEFINE found == SubSessionId(text, sim.day)
           id == IF found = NoId THEN subSession ELSE found
           known == Updated(RosterToUpdate(id), frame.tick, text)
           type == SessionType(text, frame.num)
           before == HeldToRelease(id)
           waiting == Waiting(id, known)
<1>1. /\ pc = "frame" /\ pc' = "events"
      /\ subSession' = id /\ roster' = known /\ meta' = type
      /\ held' \in Picked(before, waiting)
      /\ out' = Farewell(id) \cup Released(id, known) \cup Opening(id, known, type)
      /\ lastNum' = frame.num /\ informed' = Complete(text)
      /\ UNCHANGED <<sim, text, frame>>
  BY DEF Refresh, iRacing
<1>2. /\ found \in Nat /\ subSession \in Nat /\ NoId \in Nat
      /\ found = NoId \/ found \in IdsOf(sim.session)
      /\ sim.session \in SubSessions /\ text \in Texts(sim.session)
  BY IdOfText, NewRosterHasNobody DEF IInv, Types
<1>3. id \in Nat /\ (found = NoId \/ found = id)
  BY <1>2
<1>4. ~Adopts(id) => id = subSession
  BY <1>2, <1>3 DEF Adopts
<1>5. \A s \in SubSessions : id \in IdsOf(s) => s <= sim.session
  <2>1. CASE found = NoId
    BY <2>1 DEF IInv, IdInv
  <2>2. CASE found # NoId
    <3>1. id \in IdsOf(sim.session) /\ sim.session \in Nat
      BY <1>2, <2>2, LabelsAssumption DEF SubSessions
    <3>2. \A s \in SubSessions : id \in IdsOf(s) => s = sim.session
      <4> HIDE DEF id
      <4> QED
        BY <1>2, <3>1, IdsDiffer
    <3> QED
      BY <3>1, <3>2
  <2> QED
    BY <2>1, <2>2
<1>6. Current(known, id) /\ known.of \in Nat
  <2>1. Current(RosterToUpdate(id), id)
    BY <1>4, NewRosterHasNobody DEF RosterToUpdate, IInv, NamesInv
  <2>2. text.track = sim.session /\ sim.session \in Nat
    BY <1>2, LabelsAssumption DEF Texts, SubSessions
  <2>3. NotBefore(sim.session, id)
    <3> HIDE DEF id
    <3> QED
      BY <1>2, <1>5, NamesOfToday
  <2>4. CASE "drivers" \in text.read
    <3>1. known.of = sim.session
      BY <2>2, <2>4 DEF Updated
    <3> HIDE DEF known, id
    <3> QED
      BY <2>2, <2>3, <3>1 DEF Current
  <2>5. CASE "drivers" \notin text.read
    <3>1. known = RosterToUpdate(id)
      BY <2>5 DEF Updated
    <3> HIDE DEF known, id
    <3> QED
      BY <2>1, <3>1 DEF Current
  <2> QED
    BY <2>4, <2>5
<1>7. /\ IsSeq(before)
      /\ \A i \in DOMAIN before : Fits(before[i], id)
  <2>1. CASE Adopts(id)
    <3>1. before = <<>> /\ <<>> \in Seq({}) /\ DOMAIN <<>> = {}
      BY <2>1 DEF HeldToRelease
    <3>2. IsSeq(<<>>)
      BY <3>1, OwnSeq
    <3> HIDE DEF before, id
    <3> QED
      BY <3>1, <3>2
  <2>2. CASE ~Adopts(id)
    BY <1>4, <2>2 DEF HeldToRelease, IInv, Types, HeldInv
  <2> QED
    BY <2>1, <2>2
<1>8. /\ waiting \in SUBSET DOMAIN before
      /\ \A i \in waiting : id = NoId \/ ~Names(known, before[i].car.car)
      /\ \A i \in DOMAIN before \ waiting : id # NoId /\ Names(known, before[i].car.car)
  BY DEF Waiting, Waits
<1>9. Released(id, known) = {Relabelled(before[i], known) : i \in DOMAIN before \ waiting}
  BY DEF Released
<1>10. \A e \in Farewell(id) : Fits(e, id) /\ Postable(e)
  <2>1. ASSUME NEW event \in {RigEvent, SessionEvent}
        PROVE  LET e == Built(event, Level, NewRoster, Context(id, NoType))
               IN  Fits(e, id) /\ Postable(e)
    <3>1. event.kind \in {"session", "rig"}
      BY <2>1 DEF RigEvent, SessionEvent
    <3> QED
      BY <3>1, BuiltFits, BuiltPostable, NewRosterHasNobody
  <2> QED
    BY <2>1 DEF Farewell
<1>11. \A e \in Opening(id, known, type) : Fits(e, id) /\ Postable(e)
  <2>1. RigEvent.kind \in {"session", "rig"}
    BY DEF RigEvent
  <2> HIDE DEF known, id, type
  <2> QED
    BY <1>6, <2>1, BuiltFits, BuiltPostable DEF Opening
<1> HIDE DEF found, id, known, type, before, waiting
<1>12. \A e \in Released(id, known) : Fits(e, id) /\ Postable(e)
  <2>1. ASSUME NEW i \in DOMAIN before \ waiting
        PROVE  Fits(Relabelled(before[i], known), id) /\ Postable(Relabelled(before[i], known))
    <3>1. Fits(before[i], id) /\ "car" \in DOMAIN before[i]
      BY <1>7, <2>1 DEF Fits, Parts
    <3> QED
      BY <1>6, <1>8, <2>1, <3>1, RelabelledFits, RelabelledPostable
  <2> QED
    BY <1>9, <2>1
<1>13. OutInv'
  <2>1. \A e \in out' : Fits(e, id) /\ Postable(e)
    BY <1>1, <1>10, <1>11, <1>12
  <2>2. \A e \in out' : Fits(e, e.id) /\ Postable(e)
    BY <2>1 DEF Fits
  <2> QED
    BY <2>2 DEF OutInv
<1>14. /\ IsSeq(held')
       /\ \A k \in DOMAIN held' : \E i \in waiting : held'[k] = before[i]
  BY <1>1, <1>7, <1>8, PickedOwn
<1>15. HeldInv'
  <2>1. ASSUME NEW k \in DOMAIN held'
        PROVE  Fits(held'[k], id) /\ (id > 0 => ~Names(known, held'[k].car.car))
    <3>1. PICK i \in waiting : held'[k] = before[i]
      BY <1>14, <2>1
    <3>2. Fits(held'[k], id)
      BY <1>7, <1>8, <3>1
    <3>3. id > 0 => id # NoId
      BY <1>3, NewRosterHasNobody
    <3> QED
      BY <1>8, <3>1, <3>2, <3>3
  <2> QED
    BY <1>1, <2>1 DEF HeldInv
<1>16. Types'
  BY <1>1, <1>3, <1>14 DEF IInv, Types
<1>17. IdInv' /\ NamesInv'
  BY <1>1, <1>5, <1>6 DEF IdInv, NamesInv
<1>18. InformedInv'
  <2>1. frame.num \in Nums
    BY <1>1 DEF IInv, Types
  <2>2. Complete(text) => type = Weekend[frame.num + 1]
    BY <2>1, TypeOfComplete DEF type
  <2> QED
    BY <1>1, <2>1, <2>2 DEF InformedInv
<1> QED
  BY <1>13, <1>15, <1>16, <1>17, <1>18 DEF IInv
-----------------------------------------------------------------------------
LEMMA IInvNext == IInv /\ [Next]_vars => IInv'
<1> SUFFICES ASSUME IInv, [Next]_vars
             PROVE  IInv'
  OBVIOUS
<1>1. CASE SimPublishes \/ SimNextSession \/ SimNextSubSession \/ Midnight
  BY <1>1, OfTheSim
<1>2. CASE TakeFrame \/ NoRead \/ ReadFails \/ FrameDone
  BY <1>2, OfTheFrame
<1>3. CASE Refresh
  BY <1>3, OfTheRefresh
<1>4. CASE SessionEvents \/ Timers
  BY <1>4, OfTheEvents
<1>5. CASE EngineEvent
  BY <1>5, OfTheEngine
<1>6. CASE Reattach
  BY <1>6, OfTheReattach
<1>7. CASE UNCHANGED vars
  <2>1. UNCHANGED <<sim, text, pc, frame, subSession, lastNum, roster, meta, informed, held, out>>
    BY <1>7 DEF vars, iRacing, kept
  <2> QED
    BY <2>1 DEF IInv, Types, IdInv, NamesInv, HeldInv, InformedInv, OutInv
<1> QED
  BY <1>1, <1>2, <1>3, <1>4, <1>5, <1>6, <1>7 DEF Next, Pipeline

LEMMA IInvAlways == Spec => []IInv
BY IInvInit, IInvNext, PTL DEF Spec

(* For every field of cars, weekend and text: nobody on an envelope has the name of a  *)
(* driver of an earlier sub-session than the one whose id it goes out under; held      *)
(* events, those of a change of the id and those that texts without an id name         *)
(* included.                                                                           *)
THEOREM NamesOfNoEarlierSession == Spec => []NamesNotOlder
<1>1. IInv => NamesNotOlder
  BY DEF IInv, OutInv, Fits, NamesNotOlder
<1> QED
  BY <1>1, IInvAlways, PTL

(* The session type on the events of a frame is the one of the session number beside *)
(* it, as long as the reads that were due succeeded with a complete text.            *)
THEOREM TypeGivenFits == Spec => []TypeOfItsNumber
<1>1. IInv => TypeOfItsNumber
  BY DEF IInv, InformedInv, TypeOfItsNumber
<1> QED
  BY <1>1, IInvAlways, PTL

(* Every car-scoped envelope names the driver of its car, and no held event waits for *)
(* a name that the roster has: what is held goes out with the read that names it.     *)
THEOREM NamedWhenSent == Spec => []NamedWhenPosted
<1>1. IInv => NamedWhenPosted
  BY DEF IInv, OutInv, HeldInv, NamedWhenPosted
<1> QED
  BY <1>1, IInvAlways, PTL
=============================================================================
