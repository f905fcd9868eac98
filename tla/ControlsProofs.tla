--------------------------- MODULE ControlsProofs ---------------------------
(***************************************************************************)
(* What TLAPS proves of Controls for every rig, every file, every window   *)
(* and every bound.                                                        *)
(*                                                                         *)
(* FileAgrees is inductive as it stands.  RequestAsBound needs that the    *)
(* copy is the configuration while the press is newer than the last change *)
(* of it (CopyInv, from HoldsInv).  Paced needs that what was requested is *)
(* not later than what the dispatcher keeps of its action and its button   *)
(* (PaceInv).  OneUsePerHold needs the journey of a hold from the rig      *)
(* through the queue and the tracker (QueueInv, SeenInv, InHandInv).       *)
(***************************************************************************)
EXTENDS Controls, SequenceTheorems, FiniteSetTheorems, FunctionTheorems,
        WellFoundedInduction, TLAPS

Holds == Nat \ {0}
Presses == [button : Buttons, hold : Holds]
Reports == [device : Devices, down : {down \in SUBSET Presses : IsFiniteSet(down)}]
Requests == [action : Actions, button : Buttons, hold : Holds, requestedAt : Nat]
Places == {"starting", "peek", "press", "dispatch", "send", "stopped"}

\* The types of what the input thread works on, and of what it works with.
RigTypes ==
    /\ now \in Nat
    /\ held \in [Buttons -> Nat]
    /\ holds \in Nat
    /\ reports \in Seq(Reports)
    /\ presses \in Seq(Presses)
    /\ tracker \in [Devices -> SUBSET Nat]
    /\ pc \in Places
StateTypes ==
    /\ file \in Configurations \cup {Broken}
    /\ config \in Configurations
    /\ copy \in Configurations
    /\ learning \in Actions \cup {NoAction}
    /\ at \in Nat
    /\ lastPress \in [Buttons -> Nat \cup {Never}]
    /\ lastAccept \in [Actions -> Nat \cup {Never}]
    /\ requests \in Seq(Requests)
    /\ pc = "send" => accepted \in Requests
    /\ pc \in {"dispatch", "send"} => presses # <<>>

\* Nothing is in hand and nothing was done before the input thread listens.
StartInv ==
    pc = "starting" =>
        presses = <<>> /\ requests = <<>> /\ captured = {} /\ reports = <<>>

\* No hold is in hand that the rig has not counted.
HoldsInv ==
    /\ \A b \in Buttons : held[b] <= holds
    /\ \A i \in 1..Len(reports) : \A p \in reports[i].down : p.hold <= holds
    /\ \A i \in 1..Len(presses) : presses[i].hold <= holds

\* The copy is still good for a press that is newer than every change.
CopyInv == pc = "dispatch" /\ presses[1].hold > changed => copy = config

\* What the dispatcher keeps is not older than what was requested, and what is to be sent
\* is a cooldown and a debounce after it.
PaceInv ==
    /\ \A i \in 1..Len(requests) :
        /\ requests[i].requestedAt <= lastAccept[requests[i].action]
        /\ requests[i].requestedAt <= lastPress[requests[i].button]
    /\ pc = "send" =>
        /\ accepted.requestedAt <= lastAccept[accepted.action]
        /\ accepted.requestedAt <= lastPress[accepted.button]
        /\ \A i \in 1..Len(requests) :
            /\ requests[i].action = accepted.action =>
                  accepted.requestedAt - requests[i].requestedAt >= Cooldown(accepted.action)
            /\ requests[i].button = accepted.button =>
                  accepted.requestedAt - requests[i].requestedAt >= Debounce
-----------------------------------------------------------------------------
\* The numbers that a report shows, and the holds it shows.
Shown(r) == {p.button[2] : p \in r.down}

\* The queue of a device is the story of its buttons: a hold belongs to one button; a
\* button that is in two reports with one hold is in all those between, and in all the
\* later ones when it is still down.
QueueInv ==
    /\ \A i \in 1..Len(reports) : \A p \in reports[i].down :
        p.button[1] = reports[i].device
    /\ \A i, j \in 1..Len(reports) :
        \A p \in reports[i].down, q \in reports[j].down :
            p.hold = q.hold =>
                /\ p.button = q.button
                /\ \A k \in i..j : reports[k].device = p.button[1] =>
                      p.button[2] \in Shown(reports[k])
    /\ \A b \in Buttons : \A i \in 1..Len(reports) : \A p \in reports[i].down :
        p.hold = held[b] =>
            /\ p.button = b
            /\ \A k \in i..Len(reports) : reports[k].device = b[1] =>
                  b[2] \in Shown(reports[k])
    /\ \A b, c \in Buttons : held[b] = held[c] /\ held[b] # 0 => b = c

\* The holds that have left the queue for good.
Seen ==
    captured \cup {requests[i].hold : i \in 1..Len(requests)}
             \cup {presses[i].hold : i \in 1..Len(presses)}

\* A hold that was seen is no news: its button is in the last report that was read, and
\* in every queued one until it is let go.
SeenInv ==
    /\ \A h \in Seen : h \in Nat /\ h <= holds
    /\ \A i \in 1..Len(reports) : \A p \in reports[i].down :
        p.hold \in Seen =>
            /\ p.button[2] \in tracker[p.button[1]]
            /\ \A k \in 1..i : reports[k].device = p.button[1] =>
                  p.button[2] \in Shown(reports[k])
    /\ \A b \in Buttons :
        held[b] # 0 /\ held[b] \in Seen =>
            /\ b[2] \in tracker[b[1]]
            /\ \A k \in 1..Len(reports) : reports[k].device = b[1] =>
                  b[2] \in Shown(reports[k])

\* What is in hand was not used, and what is to be sent is the first of it.
InHandInv ==
    /\ \A i, j \in 1..Len(presses) : presses[i].hold = presses[j].hold => i = j
    /\ \A i \in 1..Len(presses) :
        /\ presses[i].hold \notin captured
        /\ \A j \in 1..Len(requests) : requests[j].hold # presses[i].hold
    /\ pc = "send" => accepted.hold = presses[1].hold
    /\ pc \in {"starting", "peek", "stopped"} => presses = <<>>
-----------------------------------------------------------------------------
\* Picked elements are elements, in a sequence.
LEMMA PickedElements ==
    ASSUME NEW S, NEW s \in Seq(S), NEW I \in SUBSET (1..Len(s)), NEW r \in Picked(s, I)
    PROVE  r \in Seq(S)
<1>1. Len(s) \in Nat /\ \A i \in 1..Len(s) : s[i] \in S
  BY LenProperties, ElementOfSeq
<1>2. Cardinality(I) \in Nat
  <2>1. IsFiniteSet(1..Len(s)) /\ I \subseteq 1..Len(s)
    BY <1>1, FS_Interval
  <2> QED
    BY <2>1, FS_Subset, FS_CardinalityType
<1>3. PICK f \in [1..Cardinality(I) -> I] : r = [k \in DOMAIN f |-> s[f[k]]]
  BY DEF Picked, InOrder
<1>4. r = [k \in 1..Cardinality(I) |-> s[f[k]]] /\ \A k \in 1..Cardinality(I) : f[k] \in I
  BY <1>3
<1>5. r \in [1..Cardinality(I) -> S]
  BY <1>1, <1>4
<1> QED
  BY <1>2, <1>5, LenProperties

LEMMA OneBehind ==
    ASSUME NEW S, NEW s \in Seq(S), NEW e \in S
    PROVE  /\ Append(s, e) \in Seq(S)
           /\ Len(s) \in Nat
           /\ Len(Append(s, e)) = Len(s) + 1
           /\ \A i \in 1..Len(s) : Append(s, e)[i] = s[i]
           /\ Append(s, e)[Len(s) + 1] = e
BY AppendProperties, LenProperties

LEMMA OneTaken ==
    ASSUME NEW S, NEW s \in Seq(S), s # <<>>
    PROVE  /\ Len(s) \in Nat \ {0}
           /\ Head(s) = s[1] /\ s[1] \in S
           /\ Tail(s) \in Seq(S)
           /\ Len(Tail(s)) = Len(s) - 1
           /\ \A i \in 1..Len(Tail(s)) : Tail(s)[i] = s[i + 1]
<1>1. Len(s) \in Nat \ {0}
  BY EmptySeq, LenProperties
<1>2. s[1] \in S
  BY <1>1, ElementOfSeq
<1>3. Head(s) = s[1]
  BY <1>1
<1> QED
  BY <1>1, <1>2, <1>3, HeadTailProperties

\* What is down on a device is a finite set of presses of it.
LEMMA DownIsPresses ==
    ASSUME NEW d, NEW hs \in [Buttons -> Nat]
    PROVE  /\ Down(d, hs) \in SUBSET Presses
           /\ IsFiniteSet(Down(d, hs))
           /\ \A p \in Down(d, hs) :
                p.button \in Buttons /\ p.button[1] = d /\ p.hold = hs[p.button] /\ p.hold # 0
           /\ \A b \in Buttons : b[1] = d /\ hs[b] # 0 =>
                [button |-> b, hold |-> hs[b]] \in Down(d, hs)
<1> DEFINE On == {b \in Buttons : b[1] = d /\ hs[b] # 0}
           PressOf(b) == [button |-> b, hold |-> hs[b]]
<1>1. Down(d, hs) = {PressOf(b) : b \in On}
  BY DEF Down
<1>2. On \subseteq Buttons
  OBVIOUS
<1>3. IsFiniteSet(On)
  BY <1>2, RigAssumption, FS_Subset
<1>4. IsFiniteSet({PressOf(b) : b \in On})
  <2> DEFINE image == {PressOf(b) : b \in On}
             f == [b \in On |-> PressOf(b)]
  <2>1. f \in [On -> image] /\ \A p \in image : \E b \in On : f[b] = p
    OBVIOUS
  <2> HIDE DEF PressOf, On, f, image
  <2>2. f \in Surjection(On, image)
    BY <2>1, Fun_IsSurj
  <2>3. IsFiniteSet(image)
    BY <1>3, <2>2, FS_Surjection
  <2> QED
    BY <2>3 DEF image
<1>5. \A b \in On : PressOf(b) \in Presses
  BY DEF Presses, Holds
<1> QED
  BY <1>1, <1>4, <1>5

\* What a report of the rig does to the queue.
LEMMA Queued ==
    ASSUME RigTypes, NEW d \in Devices, NEW down \in SUBSET Presses, IsFiniteSet(down),
           Report(d, down)
    PROVE  /\ reports' \in Seq(Reports)
           /\ \/ reports' = reports
              \/ /\ pc # "starting"
                 /\ Len(reports) \in Nat
                 /\ Len(reports') = Len(reports) + 1
                 /\ \A i \in 1..Len(reports) : reports'[i] = reports[i]
                 /\ reports'[Len(reports')] = [device |-> d, down |-> down]
<1> DEFINE r == [device |-> d, down |-> down]
<1>1. r \in Reports
  BY DEF Reports
<1>2. CASE pc = "starting"
  BY <1>2 DEF Report, RigTypes
<1>3. CASE pc # "starting"
  <2>1. reports' = Append(reports, r)
    BY <1>3 DEF Report
  <2>2. reports \in Seq(Reports)
    BY DEF RigTypes
  <2> HIDE DEF r
  <2>3. /\ reports' \in Seq(Reports)
        /\ Len(reports) \in Nat
        /\ Len(reports') = Len(reports) + 1
        /\ \A i \in 1..Len(reports) : reports'[i] = reports[i]
        /\ reports'[Len(reports) + 1] = r
    BY <1>1, <2>1, <2>2, OneBehind
  <2> QED
    BY <1>3, <2>3 DEF r
<1> QED
  BY <1>2, <1>3

\* The presses of a report, in the order of their numbers.
LEMMA Sorted ==
    ASSUME NEW new \in SUBSET Presses, IsFiniteSet(new), NEW s \in ByNumber(new)
    PROVE  /\ s \in Seq(Presses)
           /\ Len(s) \in Nat
           /\ \A i \in 1..Len(s) : s[i] \in new
           /\ \A i, j \in 1..Len(s) : s[i] = s[j] => i = j
<1>1. Cardinality(new) \in Nat
  BY FS_CardinalityType
<1>2. s \in [1..Cardinality(new) -> new]
  BY DEF ByNumber
<1>3. s \in Seq(Presses) /\ Len(s) = Cardinality(new)
  <2>1. s \in [1..Cardinality(new) -> Presses]
    BY <1>2
  <2> QED
    BY <1>1, <2>1, LenProperties
<1>4. \A i \in 1..Len(s) : s[i] \in new
  BY <1>2, <1>3
<1>5. ASSUME NEW i \in 1..Len(s), NEW j \in 1..Len(s), s[i] = s[j]
      PROVE  i = j
  <2>1. \A k, l \in 1..Len(s) : k < l => s[k].button[2] < s[l].button[2]
    BY <1>2, <1>3 DEF ByNumber
  <2>2. s[i].button[2] \in Nat
    BY <1>4, RigAssumption DEF Presses
  <2> QED
    BY <1>1, <1>3, <1>5, <2>1, <2>2
<1> QED
  BY <1>1, <1>3, <1>4, <1>5
-----------------------------------------------------------------------------
LEMMA DefaultIsConfiguration == Default \in Configurations
<1>1. <<>> \in Seq(Bindings)
  OBVIOUS
<1> QED
  BY <1>1 DEF Default, Configurations

LEMMA LoadedIsConfiguration ==
    ASSUME NEW f \in Configurations \cup {Broken}
    PROVE  Loaded(f) \in Configurations
BY DefaultIsConfiguration DEF Loaded

\* Bindings are only ever cleared and learned.
LEMMA ClearedIsConfiguration ==
    ASSUME NEW c \in Configurations, NEW a, NEW cleared \in Cleared(c, a)
    PROVE  cleared \in Configurations
<1>1. c.bindings \in Seq(Bindings) /\ Len(c.bindings) \in Nat
  BY LenProperties DEF Configurations
<1>2. Others(c, a) \in SUBSET (1..Len(c.bindings))
  BY <1>1, LenProperties DEF Others
<1>3. PICK kept \in Picked(c.bindings, Others(c, a)) : cleared = [c EXCEPT !.bindings = kept]
  BY DEF Cleared
<1>4. kept \in Seq(Bindings)
  BY <1>1, <1>2, PickedElements
<1> QED
  BY <1>3, <1>4 DEF Configurations

LEMMA SetIsConfiguration ==
    ASSUME NEW c \in Configurations, NEW binding \in Bindings,
           NEW set \in SetBinding(c, binding)
    PROVE  set \in Configurations
<1>1. PICK kept \in Cleared(c, binding.action) :
        set = [kept EXCEPT !.bindings = Append(@, binding)]
  BY DEF SetBinding
<1>2. kept \in Configurations
  BY ClearedIsConfiguration
<1>3. Append(kept.bindings, binding) \in Seq(Bindings)
  BY <1>2, AppendProperties DEF Configurations
<1> QED
  BY <1>1, <1>2, <1>3 DEF Configurations

LEMMA LearnedIsBinding ==
    ASSUME learning \in Actions, NEW b \in Buttons
    PROVE  Learned(b) \in Bindings
BY DEF Learned, Bindings, Devices, Numbers

\* The least of some positions.
LEMMA Least ==
    ASSUME NEW I \in SUBSET Nat, I # {}
    PROVE  \E i \in I : \A j \in I : i <= j
<1> DEFINE T == {0..i : i \in I}
<1>1. IsWellFoundedOn(StrictSubsetOrdering(Nat), FiniteSubsetsOf(Nat))
  BY FS_StrictSubsetOrderingWellFounded
<1>2. T \subseteq FiniteSubsetsOf(Nat) /\ T # {}
  <2>1. \A i \in I : 0..i \in SUBSET Nat /\ IsFiniteSet(0..i)
    BY FS_Interval
  <2> QED
    BY <2>1 DEF FiniteSubsetsOf
<1>3. PICK x \in T : \A y \in T : ~(<<y, x>> \in StrictSubsetOrdering(Nat))
  <2> HIDE DEF T
  <2> QED
    BY <1>1, <1>2, WFMin
<1>4. PICK i \in I : x = 0..i
  OBVIOUS
<1>5. ASSUME NEW j \in I, j < i
      PROVE  FALSE
  <2>1. 0..j \in T /\ 0..j \in SUBSET Nat /\ 0..i \in SUBSET Nat
    OBVIOUS
  <2>2. 0..j \subseteq 0..i /\ i \in 0..i /\ i \notin 0..j
    BY <1>5
  <2>3. <<0..j, 0..i>> \in StrictSubsetOrdering(Nat)
    BY <2>1, <2>2 DEF StrictSubsetOrdering
  <2> QED
    BY <1>3, <1>4, <2>1, <2>3
<1> QED
  BY <1>5

LEMMA ActionForIsAction ==
    ASSUME NEW c \in Configurations, NEW b \in Buttons
    PROVE  ActionFor(c, b) \in Actions \cup {NoAction}
<1>1. CASE Fitting(c, b) = {}
  BY <1>1 DEF ActionFor
<1>2. CASE Fitting(c, b) # {}
  <2>1. c.bindings \in Seq(Bindings)
    BY DEF Configurations
  <2>2. Len(c.bindings) \in Nat /\ Fitting(c, b) \in SUBSET (1..Len(c.bindings))
    BY <2>1, LenProperties DEF Fitting
  <2>3. \E i \in Fitting(c, b) : \A j \in Fitting(c, b) : i <= j
    <3>1. Fitting(c, b) \in SUBSET Nat
      BY <2>2
    <3> QED
      BY <1>2, <3>1, Least
  <2> DEFINE first == CHOOSE i \in Fitting(c, b) : \A j \in Fitting(c, b) : i <= j
  <2>4. first \in Fitting(c, b)
    BY <2>3
  <2>5. c.bindings[first] \in Bindings
    <3> HIDE DEF first
    <3> QED
      BY <2>1, <2>2, <2>4, ElementOfSeq
  <2>6. ActionFor(c, b) = c.bindings[first].action
    BY <1>2 DEF ActionFor, FirstAt
  <2> QED
    BY <2>5, <2>6 DEF Bindings
<1> QED
  BY <1>1, <1>2
-----------------------------------------------------------------------------
LEMMA TypesInit == Init => RigTypes /\ StateTypes /\ StartInv
<1> SUFFICES ASSUME Init
             PROVE  RigTypes /\ StateTypes /\ StartInv
  OBVIOUS
<1>1. file \in Configurations \cup {Broken}
  BY FilesAssumption DEF Init
<1>2. config \in Configurations
  BY <1>1, LoadedIsConfiguration DEF Init
<1>3. copy \in Configurations
  BY DefaultIsConfiguration DEF Init
<1>4. RigTypes
  BY DEF Init, RigTypes, Places
<1>5. StateTypes
  BY <1>1, <1>2, <1>3 DEF Init, StateTypes
<1>6. StartInv
  BY DEF Init, StartInv
<1> QED
  BY <1>4, <1>5, <1>6

LEMMA BootTypes ==
    ASSUME NEW f \in Configurations \cup {Broken}, Boot(f)
    PROVE  RigTypes' /\ StateTypes' /\ StartInv'
<1>1. config' \in Configurations
  BY LoadedIsConfiguration DEF Boot
<1>2. copy' \in Configurations
  BY DefaultIsConfiguration DEF Boot
<1>3. RigTypes'
  BY DEF Boot, RigTypes, Places
<1>4. StateTypes'
  BY <1>1, <1>2 DEF Boot, StateTypes
<1>5. StartInv'
  BY DEF Boot, StartInv
<1> QED
  BY <1>3, <1>4, <1>5

LEMMA RestartBoots ==
    ASSUME StateTypes, Restart
    PROVE  \E f \in Configurations \cup {Broken} : Boot(f)
<1>1. Torn \subseteq Configurations \cup {Broken}
  BY DefaultIsConfiguration DEF Torn
<1>2. PICK f \in {file} \cup (IF Saving THEN Torn ELSE {}) : Boot(f)
  BY DEF Restart
<1> QED
  BY <1>1, <1>2 DEF StateTypes

\* What a step of the rig and a step of the window leave to the input thread.
Untouched == UNCHANGED <<running, config, learning, lastError, input, captured, changed>>
RigStep ==
    \/ now' \in Nat /\ UNCHANGED <<held, holds, reports>>
    \/ \E b \in Buttons :
        /\ held' = [held EXCEPT ![b] = holds']
        /\ held[b] = 0
        /\ holds' = holds + 1
        /\ Report(b[1], Down(b[1], held'))
        /\ now' = now
    \/ \E b \in Buttons :
        /\ held' = [held EXCEPT ![b] = 0]
        /\ holds' = holds
        /\ Report(b[1], Down(b[1], held'))
        /\ now' = now
    \/ \E d \in Devices : \E down \in Lists(d) : Report(d, down) /\ UNCHANGED rig

LEMMA RigSteps ==
    ASSUME RigTypes, Rig
    PROVE  RigStep /\ Untouched /\ UNCHANGED <<file, starts>> /\ pc # "stopped"
<1>1. CASE TimePasses
  BY <1>1 DEF TimePasses, RigTypes, RigStep, Untouched, state, Rig
<1>2. CASE \E b \in Buttons : PressDown(b) \/ LetGo(b)
  BY <1>2 DEF PressDown, LetGo, RigStep, Untouched, state, Rig
<1>3. CASE \E d \in Devices : Repeat(d)
  BY <1>3 DEF Repeat, RigStep, Untouched, state, Rig
<1> QED
  BY <1>1, <1>2, <1>3 DEF Rig

\* The queue gets one report or none.
Newest == reports'[Len(reports')]
Arrival ==
    /\ pc = "starting" => reports' = reports
    /\ reports' # reports =>
         /\ Len(reports) \in Nat
         /\ Len(reports') = Len(reports) + 1
         /\ \A i \in 1..Len(reports) : reports'[i] = reports[i]
         /\ Newest.device \in Devices
         /\ \/ Newest.down = Down(Newest.device, held')
            \/ (ButtonlessReports /\ Newest.down = {})

LEMMA RigStepTypes ==
    ASSUME RigTypes, RigStep, UNCHANGED input
    PROVE  /\ RigTypes'
           /\ holds <= holds'
           /\ Arrival
<1>1. CASE now' \in Nat /\ UNCHANGED <<held, holds, reports>>
  BY <1>1 DEF RigTypes, input, Arrival
<1>2. ASSUME NEW d \in Devices, NEW down \in SUBSET Presses, IsFiniteSet(down),
             Report(d, down), now' \in Nat, held' \in [Buttons -> Nat], holds' \in Nat,
             holds <= holds',
             down = Down(d, held') \/ (ButtonlessReports /\ down = {})
      PROVE  /\ RigTypes'
             /\ Arrival
  <2>1. /\ reports' \in Seq(Reports)
        /\ \/ reports' = reports
           \/ /\ pc # "starting"
              /\ Len(reports) \in Nat
              /\ Len(reports') = Len(reports) + 1
              /\ \A i \in 1..Len(reports) : reports'[i] = reports[i]
              /\ reports'[Len(reports')] = [device |-> d, down |-> down]
    BY <1>2, Queued
  <2>2. RigTypes'
    BY <1>2, <2>1 DEF RigTypes, input
  <2>3. pc = "starting" => reports' = reports
    BY <2>1
  <2>4. ASSUME reports' # reports
        PROVE  /\ Len(reports) \in Nat
               /\ Len(reports') = Len(reports) + 1
               /\ \A i \in 1..Len(reports) : reports'[i] = reports[i]
               /\ reports'[Len(reports')] = [device |-> d, down |-> down]
    BY <2>1, <2>4
  <2>5. ASSUME reports' # reports
        PROVE  Newest.device = d /\ Newest.down = down
    BY <2>4, <2>5 DEF Newest
  <2>6. down = Down(d, held') \/ (ButtonlessReports /\ down = {})
    BY <1>2
  <2>7. ASSUME reports' # reports
        PROVE  \/ Newest.down = Down(Newest.device, held')
               \/ (ButtonlessReports /\ Newest.down = {})
    BY <2>5, <2>6, <2>7
  <2>8. ASSUME reports' # reports
        PROVE  Newest.device \in Devices
    BY <2>5, <2>8
  <2> QED
    BY <2>2, <2>3, <2>4, <2>7, <2>8 DEF Arrival
<1>3. ASSUME NEW b \in Buttons, held' \in [Buttons -> Nat]
      PROVE  /\ b[1] \in Devices
             /\ Down(b[1], held') \in SUBSET Presses
             /\ IsFiniteSet(Down(b[1], held'))
  BY <1>3, DownIsPresses DEF Devices
<1>4. CASE \E b \in Buttons : /\ held' = [held EXCEPT ![b] = holds']
                              /\ holds' = holds + 1
                              /\ Report(b[1], Down(b[1], held'))
                              /\ now' = now
  <2>1. PICK b \in Buttons : /\ held' = [held EXCEPT ![b] = holds']
                             /\ holds' = holds + 1
                             /\ Report(b[1], Down(b[1], held'))
                             /\ now' = now
    BY <1>4
  <2>2. /\ held' \in [Buttons -> Nat] /\ holds' \in Nat /\ now' \in Nat
        /\ holds <= holds'
    BY <2>1 DEF RigTypes
  <2>3. /\ b[1] \in Devices
        /\ Down(b[1], held') \in SUBSET Presses
        /\ IsFiniteSet(Down(b[1], held'))
    BY <1>3, <2>2
  <2>4. Report(b[1], Down(b[1], held'))
    BY <2>1
  <2>5. RigTypes' /\ Arrival
    BY <1>2, <2>2, <2>3, <2>4
  <2> QED
    BY <2>2, <2>5
<1>5. CASE \E b \in Buttons : /\ held' = [held EXCEPT ![b] = 0]
                              /\ holds' = holds
                              /\ Report(b[1], Down(b[1], held'))
                              /\ now' = now
  <2>1. PICK b \in Buttons : /\ held' = [held EXCEPT ![b] = 0]
                             /\ holds' = holds
                             /\ Report(b[1], Down(b[1], held'))
                             /\ now' = now
    BY <1>5
  <2>2. /\ held' \in [Buttons -> Nat] /\ holds' \in Nat /\ now' \in Nat
        /\ holds <= holds'
    BY <2>1 DEF RigTypes
  <2>3. /\ b[1] \in Devices
        /\ Down(b[1], held') \in SUBSET Presses
        /\ IsFiniteSet(Down(b[1], held'))
    BY <1>3, <2>2
  <2>4. Report(b[1], Down(b[1], held'))
    BY <2>1
  <2>5. RigTypes' /\ Arrival
    BY <1>2, <2>2, <2>3, <2>4
  <2> QED
    BY <2>2, <2>5
<1>6. CASE \E d \in Devices : \E down \in Lists(d) : Report(d, down) /\ UNCHANGED rig
  <2>0. PICK d \in Devices : \E down \in Lists(d) : Report(d, down) /\ UNCHANGED rig
    BY <1>6
  <2>1. PICK down \in Lists(d) : Report(d, down) /\ UNCHANGED rig
    BY <2>0
  <2>2. /\ held' = held /\ holds' = holds /\ now' = now
    BY <2>1 DEF rig
  <2>3. /\ held' \in [Buttons -> Nat] /\ holds' \in Nat /\ now' \in Nat
        /\ holds <= holds'
    BY <2>2 DEF RigTypes
  <2>4. down = Down(d, held') \/ (ButtonlessReports /\ down = {})
    BY <2>1, <2>2 DEF Lists
  <2>5. down \in SUBSET Presses /\ IsFiniteSet(down)
    <3>1. Down(d, held') \in SUBSET Presses /\ IsFiniteSet(Down(d, held'))
      BY <2>3, DownIsPresses
    <3>2. {} \in SUBSET Presses /\ IsFiniteSet({})
      BY FS_EmptySet
    <3>3. down = Down(d, held') \/ down = {}
      BY <2>4
    <3> QED
      BY <3>1, <3>2, <3>3
  <2>6. Report(d, down)
    BY <2>1
  <2>7. RigTypes' /\ Arrival
    BY <1>2, <2>3, <2>4, <2>5, <2>6
  <2> QED
    BY <2>3, <2>7
<1>7. holds <= holds'
  BY <1>1, <1>4, <1>5, <1>6 DEF RigStep, RigTypes, rig
<1> QED
  BY <1>1, <1>4, <1>5, <1>6, <1>7 DEF RigStep
\* What is kept of a file and of a configuration.
LEMMA PersistTypes ==
    ASSUME StateTypes, NEW c \in Configurations, Persist(c)
    PROVE  config' \in Configurations /\ file' \in Configurations \cup {Broken}
BY DefaultIsConfiguration DEF StateTypes, Persist, Torn

\* The action of a press is bound or none is.
LEMMA ActionIsAction ==
    ASSUME RigTypes, StateTypes, pc = "dispatch"
    PROVE  Button \in Buttons /\ presses[1].hold \in Holds
           /\ Action \in Actions \cup {NoAction}
<1>1. presses[1] \in Presses
  BY OneTaken DEF RigTypes, StateTypes
<1>2. Button \in Buttons /\ presses[1].hold \in Holds
  BY <1>1 DEF Button, Presses
<1>3. copy \in Configurations
  BY DEF StateTypes
<1>4. ActionFor(copy, Button) \in Actions \cup {NoAction}
  BY <1>2, <1>3, ActionForIsAction
<1> QED
  BY <1>2, <1>4 DEF Action

LEMMA AcceptedIsRequest ==
    ASSUME RigTypes, StateTypes, Accept
    PROVE  /\ accepted' \in Requests
           /\ accepted'.action = Action
           /\ accepted'.button = Button
           /\ accepted'.hold = presses[1].hold
           /\ accepted'.requestedAt = at
           /\ Action \in Actions /\ Button \in Buttons /\ at \in Nat
<1>1. Button \in Buttons /\ presses[1].hold \in Holds /\ Action \in Actions
  BY ActionIsAction DEF Accept
<1>2. at \in Nat
  BY DEF StateTypes
<1> QED
  BY <1>1, <1>2 DEF Accept, Requests

\* The presses of the report that is read.
LEMMA ReadPresses ==
    ASSUME RigTypes, ReadReport
    PROVE  /\ reports \in Seq(Reports) /\ reports # <<>>
           /\ Len(reports) \in Nat \ {0}
           /\ reports' = Tail(reports) /\ reports' \in Seq(Reports)
           /\ Len(reports') = Len(reports) - 1
           /\ \A i \in 1..Len(reports') : reports'[i] = reports[i + 1]
           /\ reports[1] \in Reports
           /\ presses' \in Seq(Presses)
           /\ \A i \in 1..Len(presses') :
                /\ presses'[i] \in reports[1].down
                /\ presses'[i].button[2] \notin tracker[reports[1].device]
           /\ \A i, j \in 1..Len(presses') : presses'[i] = presses'[j] => i = j
           /\ tracker' = [tracker EXCEPT ![reports[1].device] = Shown(reports[1])]
<1>1. reports \in Seq(Reports) /\ reports # <<>>
  BY DEF RigTypes, ReadReport
<1>2. /\ Len(reports) \in Nat \ {0}
      /\ Head(reports) = reports[1] /\ reports[1] \in Reports
      /\ Tail(reports) \in Seq(Reports)
      /\ Len(Tail(reports)) = Len(reports) - 1
      /\ \A i \in 1..Len(Tail(reports)) : Tail(reports)[i] = reports[i + 1]
  BY <1>1, OneTaken
<1> DEFINE r == reports[1]
           new == NewlyDown(r.device, r.down)
<1>3. r.down \in SUBSET Presses /\ IsFiniteSet(r.down)
  BY <1>2 DEF Reports
<1>4. new \subseteq r.down /\ \A p \in new : p.button[2] \notin tracker[r.device]
  BY DEF NewlyDown
<1>5. new \in SUBSET Presses /\ IsFiniteSet(new)
  <2>1. new \in SUBSET Presses
    BY <1>3, <1>4
  <2>2. IsFiniteSet(new)
    BY <1>3, <1>4, FS_Subset
  <2> QED
    BY <2>1, <2>2
<1>6. presses' \in ByNumber(new) /\ reports' = Tail(reports)
  BY <1>2 DEF ReadReport
<1>7. /\ presses' \in Seq(Presses)
      /\ \A i \in 1..Len(presses') : presses'[i] \in new
      /\ \A i, j \in 1..Len(presses') : presses'[i] = presses'[j] => i = j
  <2> HIDE DEF new
  <2> QED
    BY <1>5, <1>6, Sorted
<1>8. tracker' = [tracker EXCEPT ![r.device] = Shown(r)]
  BY <1>2 DEF ReadReport, Shown
<1>9. \A i \in 1..Len(presses') : presses'[i] \in r.down /\ presses'[i].button[2] \notin tracker[r.device]
  BY <1>4, <1>7
<1> HIDE DEF new
<1> QED
  BY <1>1, <1>2, <1>6, <1>7, <1>8, <1>9

LEMMA ShownIsNumbers ==
    ASSUME NEW r \in Reports
    PROVE  Shown(r) \in SUBSET Nat /\ r.device \in Devices
BY RigAssumption DEF Shown, Reports, Presses
-----------------------------------------------------------------------------
\* The steps: of the rig, of the window, of the input thread, and a new start.
Rest ==
    \/ \E a \in Actions : Bind(a)
    \/ Cancel \/ Close \/ Listen \/ ListenFails \/ ReportDone \/ Stopped \/ UNCHANGED vars

LEMMA RestTypes ==
    ASSUME RigTypes, StateTypes, StartInv, Rest
    PROVE  /\ RigTypes' /\ StateTypes' /\ StartInv'
           /\ UNCHANGED <<now, held, holds, reports, presses, tracker, file, config, copy, at,
                          lastPress, lastAccept, requests, accepted, captured, changed>>
           /\ pc' \in {"dispatch", "send", "starting"} => pc' = pc
           /\ pc' \in {"peek", "stopped"} =>
                pc \in {"starting", "peek", "stopped"} \/ presses = <<>>
<1>1. CASE \E a \in Actions : Bind(a)
  BY <1>1 DEF Bind, RigTypes, StateTypes, StartInv, rig, input, dispatcher
<1>2. CASE Cancel
  BY <1>2 DEF Cancel, RigTypes, StateTypes, StartInv, rig, input, dispatcher
<1>3. CASE Close
  BY <1>3 DEF Close, RigTypes, StateTypes, StartInv, rig, input, dispatcher
<1>4. CASE Listen
  BY <1>4 DEF Listen, RigTypes, StateTypes, StartInv, rig, state, dispatcher, Places
<1>5. CASE ListenFails
  BY <1>5 DEF ListenFails, RigTypes, StateTypes, StartInv, rig, dispatcher, Places
<1>6. CASE ReportDone
  BY <1>6 DEF ReportDone, RigTypes, StateTypes, StartInv, rig, state, dispatcher, Places
<1>7. CASE Stopped \/ UNCHANGED vars
  BY <1>7 DEF Stopped, vars, RigTypes, StateTypes, StartInv, rig, state, input, dispatcher
<1> QED
  BY <1>1, <1>2, <1>3, <1>4, <1>5, <1>6, <1>7 DEF Rest

\* The configuration is saved: by the window, or with a press that is learned.
LEMMA ClearTypes ==
    ASSUME RigTypes, StateTypes, StartInv, NEW a \in Actions, Clear(a)
    PROVE  /\ RigTypes' /\ StateTypes' /\ StartInv'
           /\ UNCHANGED <<now, held, holds, reports, presses, tracker, copy, at, pc,
                          lastPress, lastAccept, requests, accepted, captured>>
           /\ changed' = holds
<1>1. PICK c \in Cleared(config, a) : Persist(c)
  BY DEF Clear
<1>2. config \in Configurations
  BY DEF StateTypes
<1>3. c \in Configurations
  BY <1>2, ClearedIsConfiguration
<1>4. config' \in Configurations /\ file' \in Configurations \cup {Broken}
  BY <1>1, <1>3, PersistTypes
<1>5. /\ UNCHANGED <<now, held, holds, reports, presses, tracker, copy, at, pc, learning,
                     lastPress, lastAccept, requests, accepted, captured>>
      /\ changed' = holds
  BY <1>1 DEF Clear, Persist, rig, input, dispatcher
<1> QED
  BY <1>4, <1>5 DEF RigTypes, StateTypes, StartInv

LEMMA TakenPress ==
    ASSUME RigTypes, presses # <<>>, presses' = Tail(presses)
    PROVE  /\ presses' \in Seq(Presses)
           /\ Len(presses) \in Nat \ {0}
           /\ Len(presses') = Len(presses) - 1
           /\ \A i \in 1..Len(presses') : presses'[i] = presses[i + 1]
           /\ presses[1] \in Presses
BY OneTaken DEF RigTypes

LEMMA CaptureTypes ==
    ASSUME RigTypes, StateTypes, StartInv, Capture
    PROVE  /\ RigTypes' /\ StateTypes' /\ StartInv'
           /\ UNCHANGED <<now, held, holds, reports, tracker, copy, at, pc,
                          lastPress, lastAccept, requests, accepted>>
           /\ presses # <<>> /\ presses' = Tail(presses)
           /\ captured' = captured \cup {presses[1].hold}
           /\ changed' = holds
           /\ pc = "press"
<1>1. PICK c \in SetBinding(config, Learned(presses[1].button)) : Persist(c)
  BY DEF Capture
<1>2. presses # <<>> /\ presses' = Tail(presses)
  BY DEF Capture
<1>3. presses[1].button \in Buttons /\ presses' \in Seq(Presses)
  BY <1>2, TakenPress DEF Presses
<1>4. learning \in Actions /\ config \in Configurations
  BY DEF Capture, StateTypes
<1>5. Learned(presses[1].button) \in Bindings
  BY <1>3, <1>4, LearnedIsBinding
<1>6. c \in Configurations
  BY <1>4, <1>5, SetIsConfiguration
<1>7. config' \in Configurations /\ file' \in Configurations \cup {Broken}
  BY <1>1, <1>6, PersistTypes
<1>8. /\ UNCHANGED <<now, held, holds, reports, tracker, copy, at, pc,
                     lastPress, lastAccept, requests, accepted>>
      /\ learning' = NoAction
      /\ captured' = captured \cup {presses[1].hold}
      /\ changed' = holds
      /\ pc = "press"
  BY <1>1 DEF Capture, Persist, rig, dispatcher
<1> QED
  BY <1>2, <1>3, <1>7, <1>8 DEF RigTypes, StateTypes, StartInv

\* A press is done with: nothing came of it, or a request was sent.
LEMMA PressDoneTypes ==
    ASSUME RigTypes, StateTypes, Ignore \/ TooSoon
    PROVE  /\ RigTypes' /\ StateTypes' /\ StartInv'
           /\ pc' = "press"
           /\ presses # <<>> /\ presses' = Tail(presses)
           /\ UNCHANGED <<now, held, holds, reports, tracker, config, changed,
                          lastAccept, requests, accepted, captured>>
           /\ \/ UNCHANGED lastPress
              \/ ~Debounced /\ lastPress' = [lastPress EXCEPT ![Button] = at]
<1>1. presses # <<>>
  BY DEF Ignore, TooSoon, StateTypes
<1>2. /\ presses' = Tail(presses) /\ copy' = Default /\ at' = 0 /\ pc' = "press"
      /\ UNCHANGED <<now, held, holds, reports, tracker, file, config, learning, changed,
                     lastAccept, requests, accepted, captured>>
  BY DEF Ignore, TooSoon, PressDone, rig, state
<1>3. \/ UNCHANGED lastPress
      \/ ~Debounced /\ lastPress' = [lastPress EXCEPT ![Button] = at]
  BY DEF Ignore, TooSoon
<1>4. presses' \in Seq(Presses)
  BY <1>1, <1>2, TakenPress
<1>5. lastPress' \in [Buttons -> Nat \cup {Never}]
  <2>1. at \in Nat /\ lastPress \in [Buttons -> Nat \cup {Never}]
    BY DEF StateTypes
  <2> QED
    BY <1>3, <2>1
<1>6. RigTypes'
  BY <1>2, <1>4 DEF RigTypes, Places
<1>7. StateTypes'
  BY <1>2, <1>5, DefaultIsConfiguration DEF StateTypes
<1>8. StartInv'
  BY <1>2 DEF StartInv
<1> QED
  BY <1>1, <1>2, <1>3, <1>6, <1>7, <1>8

LEMMA SendTypes ==
    ASSUME RigTypes, StateTypes, Send
    PROVE  /\ RigTypes' /\ StateTypes' /\ StartInv'
           /\ pc = "send" /\ pc' = "press"
           /\ presses # <<>> /\ presses' = Tail(presses)
           /\ accepted \in Requests
           /\ requests' = Append(requests, accepted)
           /\ UNCHANGED <<now, held, holds, reports, tracker, config, changed,
                          lastPress, lastAccept, captured>>
<1>1. presses # <<>> /\ accepted \in Requests
  BY DEF Send, StateTypes
<1>2. /\ presses' = Tail(presses) /\ copy' = Default /\ at' = 0 /\ pc = "send" /\ pc' = "press"
      /\ requests' = Append(requests, accepted)
      /\ UNCHANGED <<now, held, holds, reports, tracker, file, config, learning, changed,
                     lastPress, lastAccept, captured>>
  BY DEF Send, PressDone, rig, state
<1>3. presses' \in Seq(Presses)
  BY <1>1, <1>2, TakenPress
<1>4. requests' \in Seq(Requests)
  BY <1>1, <1>2, OneBehind DEF StateTypes
<1>5. RigTypes'
  BY <1>2, <1>3 DEF RigTypes, Places
<1>6. StateTypes'
  BY <1>2, <1>4, DefaultIsConfiguration DEF StateTypes
<1>7. StartInv'
  BY <1>2 DEF StartInv
<1> QED
  BY <1>1, <1>2, <1>5, <1>6, <1>7

LEMMA ReadTypes ==
    ASSUME RigTypes, StateTypes, ReadReport
    PROVE  /\ RigTypes' /\ StateTypes' /\ StartInv'
           /\ pc = "peek" /\ pc' = "press"
           /\ UNCHANGED <<now, held, holds, config, copy, changed, lastPress, lastAccept,
                          requests, accepted, captured>>
<1>1. /\ pc = "peek" /\ pc' = "press"
      /\ UNCHANGED <<now, held, holds, file, config, copy, learning, at, lastPress,
                     lastAccept, accepted, requests, captured, changed>>
  BY DEF ReadReport, rig, state, dispatcher
<1>2. /\ reports' \in Seq(Reports) /\ reports[1] \in Reports
      /\ presses' \in Seq(Presses)
      /\ tracker' = [tracker EXCEPT ![reports[1].device] = Shown(reports[1])]
  BY ReadPresses
<1>3. tracker' \in [Devices -> SUBSET Nat]
  BY <1>2, ShownIsNumbers DEF RigTypes
<1>4. RigTypes'
  BY <1>1, <1>2, <1>3 DEF RigTypes, Places
<1>5. StateTypes'
  BY <1>1 DEF StateTypes
<1>6. StartInv'
  BY <1>1 DEF StartInv
<1> QED
  BY <1>1, <1>4, <1>5, <1>6

\* Reports are given up, one or all.
LEMMA DroppedTypes ==
    ASSUME RigTypes, StateTypes, StopListening \/ ReportLost \/ SendFails
    PROVE  /\ RigTypes' /\ StateTypes' /\ StartInv'
           /\ UNCHANGED <<now, held, holds, tracker, config, changed, lastPress, lastAccept,
                          requests, captured>>
           /\ pc' \in {"peek", "stopped"}
           /\ presses' = <<>> \/ (pc = "peek" /\ UNCHANGED presses)
           /\ \/ reports' = <<>>
              \/ /\ reports # <<>> /\ reports' = Tail(reports)
                 /\ Len(reports) \in Nat
                 /\ Len(reports') = Len(reports) - 1
                 /\ \A i \in 1..Len(reports') : reports'[i] = reports[i + 1]
<1>1. CASE StopListening
  <2>1. /\ pc = "peek" /\ pc' = "stopped" /\ reports' = <<>>
        /\ UNCHANGED <<now, held, holds, tracker, config, changed, lastPress, lastAccept,
                       requests, captured, file, learning, presses, copy, at, accepted>>
    BY <1>1 DEF StopListening, rig, state, dispatcher
  <2>2. RigTypes'
    BY <2>1 DEF RigTypes, Places
  <2>3. StateTypes' /\ StartInv'
    BY <2>1 DEF StateTypes, StartInv
  <2> QED
    BY <2>1, <2>2, <2>3
<1>2. CASE ReportLost
  <2>1. /\ pc = "peek" /\ reports # <<>> /\ reports' = Tail(reports)
        /\ UNCHANGED <<now, held, holds, tracker, config, changed, lastPress, lastAccept, pc,
                       requests, captured, file, learning, presses, copy, at, accepted>>
    BY <1>2 DEF ReportLost, rig, state, input, dispatcher
  <2>2. /\ Len(reports) \in Nat
        /\ reports' \in Seq(Reports)
        /\ Len(reports') = Len(reports) - 1
        /\ \A i \in 1..Len(reports') : reports'[i] = reports[i + 1]
    BY <2>1, OneTaken DEF RigTypes
  <2>3. RigTypes'
    BY <2>1, <2>2 DEF RigTypes
  <2>4. StateTypes' /\ StartInv'
    BY <2>1 DEF StateTypes, StartInv
  <2> QED
    BY <2>1, <2>2, <2>3, <2>4
<1>3. CASE SendFails
  <2>1. /\ pc' = "stopped" /\ reports' = <<>> /\ presses' = <<>> /\ copy' = Default /\ at' = 0
        /\ UNCHANGED <<now, held, holds, tracker, config, changed, lastPress, lastAccept,
                       requests, captured, file, learning>>
    BY <1>3 DEF SendFails, rig, state
  <2>2. RigTypes'
    BY <2>1 DEF RigTypes, Places
  <2>3. StateTypes' /\ StartInv'
    BY <2>1, DefaultIsConfiguration DEF StateTypes, StartInv
  <2> QED
    BY <2>1, <2>2, <2>3
<1> QED
  BY <1>1, <1>2, <1>3

\* The copy is taken; a press is accepted.
LEMMA DispatchTypes ==
    ASSUME RigTypes, StateTypes, CopyConfig \/ Accept
    PROVE  /\ RigTypes' /\ StateTypes' /\ StartInv'
           /\ UNCHANGED <<now, held, holds, reports, presses, tracker, config, changed,
                          requests, captured>>
           /\ CopyConfig => copy' = config /\ UNCHANGED <<lastPress, lastAccept, accepted>>
           /\ CopyConfig => pc' = "dispatch"
           /\ Accept => pc' = "send"
<1>1. CASE CopyConfig
  <2>1. /\ pc' = "dispatch" /\ presses # <<>> /\ copy' = config /\ at' = now
        /\ UNCHANGED <<now, held, holds, reports, presses, tracker, file, config, changed,
                       learning, requests, captured, lastPress, lastAccept, accepted>>
    BY <1>1 DEF CopyConfig, Copied, rig, state
  <2>2. RigTypes'
    BY <2>1 DEF RigTypes, Places
  <2>3. StateTypes'
    BY <2>1 DEF StateTypes, RigTypes
  <2>4. StartInv'
    BY <2>1 DEF StartInv
  <2>5. ~Accept
    BY <1>1 DEF CopyConfig, Accept
  <2> QED
    BY <2>1, <2>2, <2>3, <2>4, <2>5
<1>2. CASE Accept
  <2>1. /\ pc' = "send" /\ presses # <<>>
        /\ lastPress' = [lastPress EXCEPT ![Button] = at]
        /\ lastAccept' = [lastAccept EXCEPT ![Action] = at]
        /\ UNCHANGED <<now, held, holds, reports, presses, tracker, file, config, changed,
                       learning, requests, captured, copy, at>>
    BY <1>2 DEF Accept, rig, state, StateTypes
  <2>2. accepted' \in Requests /\ Action \in Actions /\ Button \in Buttons /\ at \in Nat
    BY <1>2, AcceptedIsRequest
  <2>3. RigTypes'
    BY <2>1 DEF RigTypes, Places
  <2>4. StateTypes'
    BY <2>1, <2>2 DEF StateTypes
  <2>5. StartInv'
    BY <2>1 DEF StartInv
  <2>6. ~CopyConfig
    BY <1>2 DEF CopyConfig, Accept
  <2> QED
    BY <2>1, <2>3, <2>4, <2>5, <2>6
<1> QED
  BY <1>1, <1>2

\* Every step is one of these.
LEMMA Steps ==
    ASSUME [Next]_vars
    PROVE  \/ Rest \/ Rig \/ Restart \/ (\E a \in Actions : Clear(a))
           \/ Capture \/ (Ignore \/ TooSoon) \/ Send \/ ReadReport
           \/ (StopListening \/ ReportLost \/ SendFails) \/ (CopyConfig \/ Accept)
BY DEF Next, Watch, Window, Rest
-----------------------------------------------------------------------------
\* What may be assumed before any step.
Good == RigTypes /\ StateTypes /\ StartInv

LEMMA TypesStep ==
    ASSUME Good, [Next]_vars
    PROVE  Good'
<1> USE DEF Good
<1>1. CASE Rest
  BY <1>1, RestTypes
<1>2. CASE Rig
  <2>1. RigStep /\ Untouched /\ UNCHANGED file
    BY <1>2, RigSteps
  <2>2. RigTypes' /\ Arrival
    BY <2>1, RigStepTypes DEF Untouched
  <2> QED
    BY <2>1, <2>2 DEF Untouched, StateTypes, StartInv, Arrival, input, dispatcher
<1>3. CASE Restart
  BY <1>3, RestartBoots, BootTypes
<1>4. CASE \E a \in Actions : Clear(a)
  BY <1>4, ClearTypes
<1>5. CASE Capture
  BY <1>5, CaptureTypes
<1>6. CASE Ignore \/ TooSoon
  BY <1>6, PressDoneTypes
<1>7. CASE Send
  BY <1>7, SendTypes
<1>8. CASE ReadReport
  BY <1>8, ReadTypes
<1>9. CASE StopListening \/ ReportLost \/ SendFails
  BY <1>9, DroppedTypes
<1>10. CASE CopyConfig \/ Accept
  BY <1>10, DispatchTypes
<1> QED
  BY <1>1, <1>2, <1>3, <1>4, <1>5, <1>6, <1>7, <1>8, <1>9, <1>10, Steps

\* What is left after one is taken is of the same kind, and so is what is queued.
LEMMA HoldsStep ==
    ASSUME Good, HoldsInv, [Next]_vars
    PROVE  HoldsInv'
<1> USE DEF Good
<1>1. CASE Rest
  BY <1>1, RestTypes DEF HoldsInv
<1>2. CASE Rig
  <2>1. RigStep /\ Untouched
    BY <1>2, RigSteps
  <2>2. RigTypes' /\ Arrival /\ holds <= holds'
    BY <2>1, RigStepTypes DEF Untouched
  <2>3. /\ held \in [Buttons -> Nat] /\ holds \in Nat
        /\ held' \in [Buttons -> Nat] /\ holds' \in Nat
    BY <2>2 DEF RigTypes
  <2>4. \A b \in Buttons : held'[b] <= holds'
    <3>1. \A b \in Buttons : held[b] <= holds
      BY DEF HoldsInv
    <3> QED
      BY <2>1, <2>2, <2>3, <3>1 DEF RigStep, rig
  <2>5. ASSUME NEW i \in 1..Len(reports'), NEW p \in reports'[i].down
        PROVE  p.hold <= holds'
    <3>1. reports' \in Seq(Reports)
      BY <2>2 DEF RigTypes
    <3>2. p \in Presses
      <4>1. reports'[i] \in Reports
        BY <3>1, ElementOfSeq
      <4> QED
        BY <4>1 DEF Reports
    <3>3. ASSUME i \in 1..Len(reports), reports'[i] = reports[i]
          PROVE  p.hold <= holds'
      <4>1. p.hold <= holds
        BY <3>3 DEF HoldsInv
      <4> QED
        BY <2>2, <2>3, <3>2, <4>1 DEF Presses, Holds
    <3>4. CASE reports' = reports
      BY <3>3, <3>4
    <3>5. CASE reports' # reports /\ i <= Len(reports)
      BY <2>2, <3>3, <3>5 DEF Arrival
    <3>6. CASE reports' # reports /\ ~(i <= Len(reports))
      <4>1. reports'[i] = Newest
        BY <2>2, <3>6 DEF Arrival, Newest
      <4>2. p \in Down(Newest.device, held')
        BY <2>2, <3>6, <4>1 DEF Arrival
      <4>3. p.button \in Buttons /\ p.hold = held'[p.button]
        BY <2>3, <4>2, DownIsPresses
      <4> QED
        BY <2>4, <4>3
    <3> QED
      BY <3>4, <3>5, <3>6
  <2>6. presses' = presses
    BY <2>1 DEF Untouched, input
  <2>7. \A i \in 1..Len(presses') : presses'[i].hold <= holds'
    <3>1. presses \in Seq(Presses)
      BY DEF RigTypes
    <3>2. \A i \in 1..Len(presses) : presses[i].hold \in Nat /\ presses[i].hold <= holds
      <4>1. \A i \in 1..Len(presses) : presses[i] \in Presses
        BY <3>1, ElementOfSeq
      <4> QED
        BY <4>1 DEF HoldsInv, Presses, Holds
    <3> QED
      BY <2>2, <2>3, <2>6, <3>2
  <2> QED
    BY <2>4, <2>5, <2>7 DEF HoldsInv
<1>3. CASE Restart
  <2>1. PICK f \in Configurations \cup {Broken} : Boot(f)
    BY <1>3, RestartBoots
  <2> QED
    BY <2>1 DEF Boot, HoldsInv
<1>4. CASE \E a \in Actions : Clear(a)
  BY <1>4, ClearTypes DEF HoldsInv
<1>5. ASSUME presses # <<>>, presses' = Tail(presses), UNCHANGED <<held, holds, reports>>
      PROVE  HoldsInv'
  <2>1. /\ Len(presses) \in Nat \ {0}
        /\ Len(presses') = Len(presses) - 1
        /\ \A i \in 1..Len(presses') : presses'[i] = presses[i + 1]
    BY <1>5, TakenPress
  <2>2. ASSUME NEW i \in 1..Len(presses')
        PROVE  presses'[i].hold <= holds
    BY <2>1 DEF HoldsInv
  <2> QED
    BY <1>5, <2>2 DEF HoldsInv
<1>6. CASE Capture \/ (Ignore \/ TooSoon) \/ Send
  BY <1>5, <1>6, CaptureTypes, PressDoneTypes, SendTypes
<1>7. CASE ReadReport
  <2>1. UNCHANGED <<held, holds>>
    BY <1>7, ReadTypes
  <2>2. ASSUME NEW i \in 1..Len(presses')
        PROVE  presses'[i].hold <= holds
    <3>1. presses'[i] \in reports[1].down /\ Len(reports) \in Nat \ {0}
      BY <1>7, ReadPresses
    <3>2. 1 \in 1..Len(reports)
      BY <3>1
    <3> QED
      BY <3>1, <3>2 DEF HoldsInv
  <2>3. ASSUME NEW i \in 1..Len(reports'), NEW p \in reports'[i].down
        PROVE  p.hold <= holds
    <3>1. i + 1 \in 1..Len(reports) /\ reports'[i] = reports[i + 1]
      BY <1>7, ReadPresses
    <3> QED
      BY <3>1 DEF HoldsInv
  <2> QED
    BY <2>1, <2>2, <2>3 DEF HoldsInv
<1>8. CASE StopListening \/ ReportLost \/ SendFails
  <2>1. /\ UNCHANGED <<held, holds>>
        /\ presses' = <<>> \/ UNCHANGED presses
        /\ \/ reports' = <<>>
           \/ /\ Len(reports) \in Nat
              /\ Len(reports') = Len(reports) - 1
              /\ \A i \in 1..Len(reports') : reports'[i] = reports[i + 1]
    BY <1>8, DroppedTypes
  <2>2. ASSUME NEW i \in 1..Len(reports'), NEW p \in reports'[i].down
        PROVE  p.hold <= holds
    <3>1. reports' # <<>>
      OBVIOUS
    <3>2. i + 1 \in 1..Len(reports) /\ reports'[i] = reports[i + 1]
      BY <2>1, <3>1
    <3> QED
      BY <3>2 DEF HoldsInv
  <2>3. \A i \in 1..Len(presses') : presses'[i].hold <= holds
    BY <2>1 DEF HoldsInv
  <2> QED
    BY <2>1, <2>2, <2>3 DEF HoldsInv
<1>9. CASE CopyConfig \/ Accept
  BY <1>9, DispatchTypes DEF HoldsInv
<1> QED
  BY <1>1, <1>2, <1>3, <1>4, <1>6, <1>7, <1>8, <1>9, Steps
-----------------------------------------------------------------------------
LEMMA CopyStep ==
    ASSUME Good, HoldsInv, CopyInv, [Next]_vars
    PROVE  CopyInv'
<1> USE DEF Good
<1>1. CASE Rest
  BY <1>1, RestTypes DEF CopyInv
<1>2. CASE Rig
  BY <1>2, RigSteps DEF CopyInv, Untouched, input
<1>3. CASE Restart
  BY <1>3, RestartBoots DEF Boot, CopyInv
<1>4. CASE \E a \in Actions : Clear(a)
  <2>1. changed' = holds /\ UNCHANGED <<pc, presses>>
    BY <1>4, ClearTypes
  <2>2. ASSUME pc = "dispatch"
        PROVE  presses[1].hold <= holds /\ presses[1].hold \in Nat /\ holds \in Nat
    <3>1. Len(presses) \in Nat \ {0} /\ presses[1] \in Presses
      BY <2>2, OneTaken DEF RigTypes, StateTypes
    <3> QED
      BY <3>1 DEF HoldsInv, RigTypes, Presses, Holds
  <2> QED
    BY <2>1, <2>2 DEF CopyInv
<1>5. CASE Capture \/ (Ignore \/ TooSoon) \/ Send \/ ReadReport
  <2>1. pc' = "press"
    BY <1>5, CaptureTypes, PressDoneTypes, SendTypes, ReadTypes
  <2> QED
    BY <2>1 DEF CopyInv
<1>6. CASE StopListening \/ ReportLost \/ SendFails
  BY <1>6, DroppedTypes DEF CopyInv
<1>7. CASE CopyConfig \/ Accept
  BY <1>7, DispatchTypes DEF CopyInv
<1> QED
  BY <1>1, <1>2, <1>3, <1>4, <1>5, <1>6, <1>7, Steps

\* A request is built by Accept alone.
LEMMA AcceptedByAccept ==
    ASSUME Good, [Next]_vars
    PROVE  Accept \/ accepted' \in {accepted, NoRequest}
<1> USE DEF Good
<1>1. CASE Rest
  BY <1>1, RestTypes
<1>2. CASE Rig
  BY <1>2, RigSteps DEF Untouched, input
<1>3. CASE Restart
  BY <1>3, RestartBoots DEF Boot
<1>4. CASE \E a \in Actions : Clear(a)
  BY <1>4, ClearTypes
<1>5. CASE Capture \/ (Ignore \/ TooSoon) \/ ReadReport
  BY <1>5, CaptureTypes, PressDoneTypes, ReadTypes
<1>6. CASE Send \/ (StopListening \/ ReportLost \/ SendFails)
  BY <1>6 DEF Send, StopListening, ReportLost, SendFails, input
<1>7. CASE CopyConfig \/ Accept
  BY <1>7, DispatchTypes
<1> QED
  BY <1>1, <1>2, <1>3, <1>4, <1>5, <1>6, <1>7, Steps

LEMMA AsBoundStep ==
    ASSUME Good, CopyInv, [Next]_vars,
           accepted' \notin {accepted, NoRequest}, accepted'.hold > changed
    PROVE  config.enabled /\ accepted'.action = ActionFor(config, accepted'.button)
<1>1. Accept
  BY AcceptedByAccept
<1>2. /\ accepted'.action = Action
      /\ accepted'.button = Button
      /\ accepted'.hold = presses[1].hold
      /\ Action \in Actions
  BY <1>1, AcceptedIsRequest DEF Good
<1>3. copy = config
  BY <1>1, <1>2 DEF CopyInv, Accept
<1>4. Action # NoAction
  BY <1>1 DEF Accept
<1>5. copy.enabled /\ Action = ActionFor(copy, Button)
  BY <1>4 DEF Action
<1> QED
  BY <1>2, <1>3, <1>5

LEMMA FileAgreesStep ==
    ASSUME FileAgrees, [Next]_vars
    PROVE  FileAgrees'
<1>1. CASE Rest
  BY <1>1 DEF Rest, Bind, Cancel, Close, Listen, ListenFails, ReportDone, Stopped, vars, state,
              FileAgrees
<1>2. CASE Rig
  BY <1>2 DEF Rig, TimePasses, PressDown, LetGo, Repeat, state, FileAgrees
<1>3. CASE Restart
  <2>1. PICK f \in {file} \cup (IF Saving THEN Torn ELSE {}) : Boot(f)
    BY <1>3 DEF Restart
  <2> QED
    BY <2>1 DEF Boot, Loaded, FileAgrees
<1>4. ASSUME NEW c, Persist(c)
      PROVE  FileAgrees'
  BY <1>4 DEF Persist, ErrorAfter, FileAgrees
<1>5. CASE (\E a \in Actions : Clear(a)) \/ Capture
  BY <1>4, <1>5 DEF Clear, Capture
<1>6. CASE (Ignore \/ TooSoon) \/ Send \/ ReadReport
  BY <1>6 DEF Ignore, TooSoon, Send, ReadReport, state, FileAgrees
<1>7. CASE StopListening \/ ReportLost \/ SendFails
  BY <1>7 DEF StopListening, ReportLost, SendFails, state, FileAgrees
<1>8. CASE CopyConfig \/ Accept
  BY <1>8 DEF CopyConfig, Accept, state, FileAgrees
<1> QED
  BY <1>1, <1>2, <1>3, <1>5, <1>6, <1>7, <1>8, Steps
-----------------------------------------------------------------------------
\* What the windows say about the times of a press that is not within them.
LEMMA NotWithin ==
    ASSUME at \in Nat, NEW last \in Nat \cup {Never}, NEW window \in Nat, ~Within(last, window)
    PROVE  last # Never => last <= at /\ at - last >= window
BY DEF Within, Never

LEMMA CooldownIsNat == \A a : Cooldown(a) \in Nat
BY TimesAssumption DEF Cooldown

LEMMA AfterTheWindows ==
    ASSUME Good, pc = "dispatch", ~Debounced, Button \in Buttons, NEW r \in Requests,
           r.requestedAt <= lastPress[r.button], r.button = Button
    PROVE  lastPress[Button] <= at /\ at - r.requestedAt >= Debounce
<1>1. at \in Nat /\ lastPress[Button] \in Nat \cup {Never} /\ r.requestedAt \in Nat
  BY DEF Good, StateTypes, Requests
<1>2. lastPress[Button] # Never
  BY <1>1 DEF Never
<1>3. lastPress[Button] <= at /\ at - lastPress[Button] >= Debounce
  BY <1>1, <1>2, NotWithin, TimesAssumption DEF Debounced
<1> QED
  BY <1>1, <1>2, <1>3, TimesAssumption

LEMMA AfterTheCooldown ==
    ASSUME Good, pc = "dispatch", ~Cooling, Action \in Actions, NEW r \in Requests,
           r.requestedAt <= lastAccept[r.action], r.action = Action
    PROVE  lastAccept[Action] <= at /\ at - r.requestedAt >= Cooldown(Action)
<1>1. at \in Nat /\ lastAccept[Action] \in Nat \cup {Never} /\ r.requestedAt \in Nat
  BY DEF Good, StateTypes, Requests
<1>2. lastAccept[Action] # Never
  BY <1>1 DEF Never
<1>3. lastAccept[Action] <= at /\ at - lastAccept[Action] >= Cooldown(Action)
  BY <1>1, <1>2, NotWithin, CooldownIsNat DEF Cooling
<1> QED
  BY <1>1, <1>2, <1>3, CooldownIsNat

LEMMA PaceKept ==
    ASSUME PaceInv, Paced, UNCHANGED <<requests, lastAccept, lastPress>>,
           pc' = "send" => pc = "send" /\ accepted' = accepted
    PROVE  PaceInv' /\ Paced'
BY DEF PaceInv, Paced

LEMMA PaceStep ==
    ASSUME Good, PaceInv, Paced, [Next]_vars
    PROVE  PaceInv' /\ Paced'
<1> USE DEF Good
<1>0. /\ requests \in Seq(Requests) /\ Len(requests) \in Nat
      /\ DOMAIN requests = 1..Len(requests)
      /\ \A i \in 1..Len(requests) : requests[i] \in Requests
  BY LenProperties, ElementOfSeq DEF StateTypes
<1>1. CASE Rest
  BY <1>1, RestTypes, PaceKept
<1>2. CASE Rig
  <2>1. UNCHANGED <<requests, lastAccept, lastPress, pc, accepted>>
    BY <1>2, RigSteps DEF Untouched, input, dispatcher
  <2> QED
    BY <2>1, PaceKept
<1>3. CASE Restart
  <2>1. requests' = <<>> /\ pc' = "starting"
    BY <1>3, RestartBoots DEF Boot
  <2> QED
    BY <2>1 DEF PaceInv, Paced
<1>4. CASE \E a \in Actions : Clear(a)
  BY <1>4, ClearTypes, PaceKept
<1>5. CASE Capture \/ ReadReport
  BY <1>5, CaptureTypes, ReadTypes, PaceKept
<1>6. CASE StopListening \/ ReportLost \/ SendFails
  BY <1>6, DroppedTypes, PaceKept
<1>7. CASE CopyConfig
  BY <1>7, DispatchTypes, PaceKept
<1>8. CASE Ignore \/ TooSoon
  <2>1. /\ pc' = "press" /\ UNCHANGED <<requests, lastAccept>>
        /\ \/ UNCHANGED lastPress
           \/ ~Debounced /\ lastPress' = [lastPress EXCEPT ![Button] = at]
    BY <1>8, PressDoneTypes
  <2>2. CASE UNCHANGED lastPress
    BY <2>1, <2>2, PaceKept
  <2>3. CASE ~Debounced /\ lastPress' = [lastPress EXCEPT ![Button] = at]
    <3>1. pc = "dispatch" /\ Button \in Buttons
      BY <1>8, ActionIsAction DEF Ignore, TooSoon
    <3>2. ASSUME NEW i \in 1..Len(requests)
          PROVE  requests[i].requestedAt <= lastPress'[requests[i].button]
      <4>1. /\ requests[i] \in Requests
            /\ requests[i].requestedAt <= lastPress[requests[i].button]
        BY <1>0 DEF PaceInv
      <4>2. CASE requests[i].button = Button
        <5>1. at - requests[i].requestedAt >= Debounce
          BY <2>3, <3>1, <4>1, <4>2, AfterTheWindows
        <5>2. at \in Nat /\ requests[i].requestedAt \in Nat /\ lastPress'[Button] = at
          BY <2>3, <3>1, <4>1 DEF StateTypes, Requests
        <5> QED
          BY <4>2, <5>1, <5>2, TimesAssumption
      <4>3. CASE requests[i].button # Button
        <5>1. lastPress'[requests[i].button] = lastPress[requests[i].button]
          BY <2>3, <4>1, <4>3 DEF StateTypes, Requests
        <5> QED
          BY <4>1, <5>1
      <4> QED
        BY <4>2, <4>3
    <3> QED
      BY <2>1, <3>2 DEF PaceInv, Paced
  <2> QED
    BY <2>1, <2>2, <2>3
<1>9. CASE Accept
  <2>1. /\ pc = "dispatch" /\ ~Debounced /\ ~Cooling
        /\ lastPress' = [lastPress EXCEPT ![Button] = at]
        /\ lastAccept' = [lastAccept EXCEPT ![Action] = at]
        /\ requests' = requests
    BY <1>9 DEF Accept
  <2>2. /\ accepted'.action = Action /\ accepted'.button = Button
        /\ accepted'.requestedAt = at
        /\ Action \in Actions /\ Button \in Buttons /\ at \in Nat
    BY <1>9, AcceptedIsRequest
  <2>3. lastPress'[Button] = at /\ lastAccept'[Action] = at
    BY <2>1, <2>2 DEF StateTypes
  <2>4. ASSUME NEW i \in 1..Len(requests)
        PROVE  /\ requests[i].requestedAt <= lastPress'[requests[i].button]
               /\ requests[i].requestedAt <= lastAccept'[requests[i].action]
               /\ requests[i].button = Button => at - requests[i].requestedAt >= Debounce
               /\ requests[i].action = Action =>
                     at - requests[i].requestedAt >= Cooldown(Action)
    <3>1. /\ requests[i] \in Requests
          /\ requests[i].requestedAt <= lastPress[requests[i].button]
          /\ requests[i].requestedAt <= lastAccept[requests[i].action]
      BY <1>0 DEF PaceInv
    <3>2. /\ requests[i].requestedAt \in Nat
          /\ requests[i].button \in Buttons /\ requests[i].action \in Actions
      BY <3>1 DEF Requests
    <3>3. ASSUME requests[i].button = Button
          PROVE  /\ at - requests[i].requestedAt >= Debounce
                 /\ requests[i].requestedAt <= lastPress'[requests[i].button]
      <4>1. at - requests[i].requestedAt >= Debounce
        BY <2>1, <2>2, <3>1, <3>3, AfterTheWindows
      <4>2. requests[i].requestedAt <= lastPress'[requests[i].button]
        BY <2>2, <2>3, <3>2, <3>3, <4>1, TimesAssumption
      <4> QED
        BY <4>1, <4>2
    <3>4. ASSUME requests[i].button # Button
          PROVE  requests[i].requestedAt <= lastPress'[requests[i].button]
      BY <2>1, <3>1, <3>2, <3>4 DEF StateTypes
    <3>5. ASSUME requests[i].action = Action
          PROVE  /\ at - requests[i].requestedAt >= Cooldown(Action)
                 /\ requests[i].requestedAt <= lastAccept'[requests[i].action]
      <4>1. at - requests[i].requestedAt >= Cooldown(Action)
        BY <2>1, <2>2, <3>1, <3>5, AfterTheCooldown
      <4>2. Cooldown(Action) \in Nat
        BY CooldownIsNat
      <4>3. requests[i].requestedAt <= lastAccept'[requests[i].action]
        BY <2>2, <2>3, <3>2, <3>5, <4>1, <4>2
      <4> QED
        BY <4>1, <4>3
    <3>6. ASSUME requests[i].action # Action
          PROVE  requests[i].requestedAt <= lastAccept'[requests[i].action]
      BY <2>1, <3>1, <3>2, <3>6 DEF StateTypes
    <3> QED
      BY <3>3, <3>4, <3>5, <3>6
  <2>5. PaceInv'
    <3>1. at <= at
      BY <2>2
    <3> QED
      BY <2>1, <2>2, <2>3, <2>4, <3>1 DEF PaceInv
  <2>6. Paced'
    BY <2>1 DEF Paced
  <2> QED
    BY <2>5, <2>6
<1>10. CASE Send
  <2>1. /\ accepted \in Requests /\ pc = "send" /\ pc' = "press"
        /\ requests' = Append(requests, accepted)
        /\ UNCHANGED <<lastPress, lastAccept>>
    BY <1>10, SendTypes
  <2>2. /\ Len(requests') = Len(requests) + 1
        /\ \A i \in 1..Len(requests) : requests'[i] = requests[i]
        /\ requests'[Len(requests) + 1] = accepted
        /\ DOMAIN requests' = 1..Len(requests')
    BY <1>0, <2>1, OneBehind, LenProperties
  <2>3. \A i \in 1..Len(requests') : i \in 1..Len(requests) \/ i = Len(requests) + 1
    BY <1>0, <2>2
  <2>4. PaceInv'
    BY <2>1, <2>2, <2>3 DEF PaceInv
  <2>5. ASSUME NEW i \in DOMAIN requests', NEW j \in DOMAIN requests', i < j
        PROVE  /\ requests'[i].action = requests'[j].action =>
                    requests'[j].requestedAt - requests'[i].requestedAt
                        >= Cooldown(requests'[i].action)
               /\ requests'[i].button = requests'[j].button =>
                    requests'[j].requestedAt - requests'[i].requestedAt >= Debounce
    <3>1. i \in 1..Len(requests)
      BY <1>0, <2>2, <2>3, <2>5
    <3>2. CASE j \in 1..Len(requests)
      BY <1>0, <2>2, <2>5, <3>1, <3>2 DEF Paced
    <3>3. CASE j = Len(requests) + 1
      BY <2>1, <2>2, <3>1, <3>3 DEF PaceInv
    <3> QED
      BY <2>2, <2>3, <3>2, <3>3
  <2>6. Paced'
    BY <2>5 DEF Paced
  <2> QED
    BY <2>4, <2>6
<1> QED
  BY <1>1, <1>2, <1>3, <1>4, <1>5, <1>6, <1>7, <1>8, <1>9, <1>10, Steps
-----------------------------------------------------------------------------
\* Which reports are in the queue after a step of the rig.
LEMMA ArrivedReports ==
    ASSUME RigTypes, RigTypes', Arrival, ~ButtonlessReports, NEW i \in 1..Len(reports')
    PROVE  /\ Len(reports) \in Nat /\ Len(reports') \in Nat
           /\ reports'[i] \in Reports
           /\ \/ i \in 1..Len(reports) /\ reports'[i] = reports[i]
              \/ /\ i = Len(reports') /\ i > Len(reports)
                 /\ reports'[i].down = Down(reports'[i].device, held')
<1>1. /\ Len(reports) \in Nat /\ Len(reports') \in Nat
      /\ reports'[i] \in Reports
  BY LenProperties, ElementOfSeq DEF RigTypes
<1>2. CASE reports' = reports
  BY <1>1, <1>2
<1>3. CASE reports' # reports
  <2>1. /\ Len(reports') = Len(reports) + 1
        /\ \A j \in 1..Len(reports) : reports'[j] = reports[j]
        /\ Newest.down = Down(Newest.device, held')
    BY <1>3 DEF Arrival
  <2>2. CASE i <= Len(reports)
    BY <1>1, <2>1, <2>2
  <2>3. CASE ~(i <= Len(reports))
    <3>1. i = Len(reports') /\ i > Len(reports)
      BY <1>1, <2>1, <2>3
    <3> QED
      BY <1>1, <2>1, <3>1 DEF Newest
  <2> QED
    BY <2>2, <2>3
<1> QED
  BY <1>2, <1>3

\* A button that is down after a step of the rig was down before, or its hold is new.
LEMMA HeldMoves ==
    ASSUME RigTypes, HoldsInv, QueueInv, RigStep
    PROVE  /\ \A b \in Buttons : held'[b] # 0 => held'[b] = held[b] \/ held'[b] > holds
           /\ \A b, c \in Buttons : held'[b] = held'[c] /\ held'[b] # 0 => b = c
<1>1. held \in [Buttons -> Nat] /\ holds \in Nat
  BY DEF RigTypes
<1>2. \A b \in Buttons : held[b] <= holds
  BY DEF HoldsInv
<1>3. \A b, c \in Buttons : held[b] = held[c] /\ held[b] # 0 => b = c
  BY DEF QueueInv
<1>4. CASE UNCHANGED held
  BY <1>3, <1>4
<1>5. ASSUME NEW b \in Buttons, held' = [held EXCEPT ![b] = holds'], holds' = holds + 1
      PROVE  /\ \A c \in Buttons : held'[c] # 0 => held'[c] = held[c] \/ held'[c] > holds
             /\ \A c, d \in Buttons : held'[c] = held'[d] /\ held'[c] # 0 => c = d
  BY <1>1, <1>2, <1>3, <1>5
<1>6. ASSUME NEW b \in Buttons, held' = [held EXCEPT ![b] = 0]
      PROVE  /\ \A c \in Buttons : held'[c] # 0 => held'[c] = held[c] \/ held'[c] > holds
             /\ \A c, d \in Buttons : held'[c] = held'[d] /\ held'[c] # 0 => c = d
  BY <1>1, <1>3, <1>6
<1> QED
  BY <1>4, <1>5, <1>6 DEF RigStep, rig

\* A button that is down is in the report of its device.
LEMMA DownIsShown ==
    ASSUME NEW hs \in [Buttons -> Nat], NEW b \in Buttons, hs[b] # 0,
           NEW r, r.down = Down(r.device, hs), r.device = b[1]
    PROVE  b[2] \in Shown(r)
<1>1. [button |-> b, hold |-> hs[b]] \in r.down
  BY DownIsPresses
<1> QED
  BY <1>1 DEF Shown

LEMMA PressIsShown ==
    ASSUME NEW r \in Reports, NEW p \in r.down
    PROVE  p.button[2] \in Shown(r) /\ p \in Presses
BY DEF Shown, Reports

LEMMA QueueRig ==
    ASSUME Good, HoldsInv, QueueInv, RigStep, RigTypes', Arrival, ~ButtonlessReports
    PROVE  QueueInv'
<1>1. /\ held \in [Buttons -> Nat] /\ holds \in Nat /\ held' \in [Buttons -> Nat]
  BY DEF Good, RigTypes
<1>2. /\ \A b \in Buttons : held'[b] # 0 => held'[b] = held[b] \/ held'[b] > holds
      /\ \A b, c \in Buttons : held'[b] = held'[c] /\ held'[b] # 0 => b = c
  BY HeldMoves DEF Good
<1> DEFINE Old(i) == i \in 1..Len(reports) /\ reports'[i] = reports[i]
           Fresh(i) == /\ i = Len(reports') /\ i > Len(reports)
                       /\ reports'[i].down = Down(reports'[i].device, held')
<1>3. \A i \in 1..Len(reports') :
        /\ Len(reports) \in Nat /\ Len(reports') \in Nat
        /\ reports'[i] \in Reports
        /\ Old(i) \/ Fresh(i)
  BY ArrivedReports DEF Good
<1>4. ASSUME NEW i \in 1..Len(reports'), Fresh(i), NEW p \in reports'[i].down
      PROVE  /\ p.button \in Buttons /\ p.button[1] = reports'[i].device
             /\ p.hold = held'[p.button] /\ p.hold # 0
             /\ p.button[2] \in Shown(reports'[i])
  <2>1. p \in Down(reports'[i].device, held')
    BY <1>4
  <2> QED
    BY <1>1, <1>3, <2>1, DownIsPresses, PressIsShown
<1>5. ASSUME NEW i \in 1..Len(reports'), Old(i), NEW p \in reports'[i].down
      PROVE  /\ p \in reports[i].down /\ p \in Presses
             /\ p.hold \in Nat /\ p.hold # 0 /\ p.hold <= holds
  <2>1. p \in Presses /\ p.hold <= holds
    BY <1>3, <1>5, PressIsShown DEF HoldsInv
  <2> QED
    BY <1>5, <2>1 DEF Presses, Holds
\* A button down with a hold that an old report has is the button of that report.
<1>6. ASSUME NEW i \in 1..Len(reports'), Old(i), NEW p \in reports'[i].down,
             NEW b \in Buttons, p.hold = held'[b]
      PROVE  /\ p.button = b /\ held[b] = held'[b]
             /\ \A k \in i..Len(reports') :
                  reports'[k].device = b[1] => b[2] \in Shown(reports'[k])
  <2>1. held'[b] = held[b] /\ held'[b] # 0
    BY <1>1, <1>2, <1>5, <1>6
  <2>2. /\ p.button = b
        /\ \A k \in i..Len(reports) : reports[k].device = b[1] => b[2] \in Shown(reports[k])
    BY <1>5, <1>6, <2>1 DEF QueueInv
  <2>3. ASSUME NEW k \in i..Len(reports'), reports'[k].device = b[1]
        PROVE  b[2] \in Shown(reports'[k])
    <3>1. k \in 1..Len(reports') /\ i \in Nat /\ k >= i
      BY <1>3
    <3>2. CASE Old(k)
      BY <2>2, <2>3, <3>1, <3>2
    <3>3. CASE Fresh(k)
      BY <1>1, <2>1, <2>3, <3>3, DownIsShown
    <3> QED
      BY <1>3, <3>1, <3>2, <3>3
  <2> QED
    BY <2>1, <2>2, <2>3
<1>7. ASSUME NEW i \in 1..Len(reports'), NEW p \in reports'[i].down
      PROVE  p.button[1] = reports'[i].device
  <2>1. CASE Old(i)
    BY <1>5, <2>1 DEF QueueInv
  <2>2. CASE Fresh(i)
    BY <1>4, <2>2
  <2> QED
    BY <1>3, <2>1, <2>2
<1>8. ASSUME NEW b \in Buttons, NEW i \in 1..Len(reports'), NEW p \in reports'[i].down,
             p.hold = held'[b]
      PROVE  /\ p.button = b
             /\ \A k \in i..Len(reports') :
                  reports'[k].device = b[1] => b[2] \in Shown(reports'[k])
  <2>1. CASE Old(i)
    BY <1>6, <1>8, <2>1
  <2>2. CASE Fresh(i)
    <3>1. /\ p.button \in Buttons /\ p.hold = held'[p.button] /\ p.hold # 0
          /\ p.button[2] \in Shown(reports'[i])
      BY <1>4, <2>2
    <3>2. p.button = b
      BY <1>2, <1>8, <3>1
    <3>3. \A k \in i..Len(reports') : k = i
      BY <1>3, <2>2
    <3> QED
      BY <3>1, <3>2, <3>3
  <2> QED
    BY <1>3, <2>1, <2>2
<1>9. ASSUME NEW i \in 1..Len(reports'), NEW j \in 1..Len(reports'),
             NEW p \in reports'[i].down, NEW q \in reports'[j].down, p.hold = q.hold
      PROVE  /\ p.button = q.button
             /\ \A k \in i..j : reports'[k].device = p.button[1] =>
                   p.button[2] \in Shown(reports'[k])
  <2>1. CASE Old(i) /\ Old(j)
    <3>1. \A k \in i..j : k \in 1..Len(reports) /\ k \in 1..Len(reports')
      BY <1>3, <2>1
    <3>2. \A k \in i..j : reports'[k] = reports[k]
      BY <1>3, <3>1
    <3>3. p \in reports[i].down /\ q \in reports[j].down
      BY <1>5, <2>1
    <3>4. /\ p.button = q.button
          /\ \A k \in i..j : reports[k].device = p.button[1] =>
                p.button[2] \in Shown(reports[k])
      BY <1>9, <2>1, <3>3 DEF QueueInv
    <3> QED
      BY <3>2, <3>4
  <2>2. CASE Fresh(j)
    <3>1. /\ q.button \in Buttons /\ q.hold = held'[q.button] /\ q.hold # 0
      BY <1>4, <2>2
    <3>2. /\ p.button = q.button
          /\ \A k \in i..Len(reports') : reports'[k].device = q.button[1] =>
                q.button[2] \in Shown(reports'[k])
      BY <1>8, <1>9, <3>1
    <3> QED
      BY <2>2, <3>2
  <2>3. CASE Fresh(i) /\ Old(j)
    <3>1. /\ p.button \in Buttons /\ p.hold = held'[p.button]
      BY <1>4, <2>3
    <3>2. q.button = p.button
      BY <1>8, <1>9, <3>1
    <3>3. i..j = {}
      BY <1>3, <2>3
    <3> QED
      BY <3>2, <3>3
  <2> QED
    BY <1>3, <2>1, <2>2, <2>3
<1> HIDE DEF Old, Fresh
<1> QED
  BY <1>2, <1>7, <1>8, <1>9 DEF QueueInv

LEMMA QueueTail ==
    ASSUME QueueInv, UNCHANGED held, Len(reports) \in Nat, Len(reports') = Len(reports) - 1,
           \A i \in 1..Len(reports') : reports'[i] = reports[i + 1]
    PROVE  QueueInv'
<1>1. \A i \in 1..Len(reports') :
        i + 1 \in 1..Len(reports) /\ reports'[i] = reports[i + 1]
  OBVIOUS
<1>2. \A i \in 1..Len(reports') : \A p \in reports'[i].down :
        p.button[1] = reports'[i].device
  BY <1>1 DEF QueueInv
<1>3. ASSUME NEW i \in 1..Len(reports'), NEW j \in 1..Len(reports'),
             NEW p \in reports'[i].down, NEW q \in reports'[j].down, p.hold = q.hold
      PROVE  /\ p.button = q.button
             /\ \A k \in i..j : reports'[k].device = p.button[1] =>
                   p.button[2] \in Shown(reports'[k])
  <2>1. /\ p \in reports[i + 1].down /\ q \in reports[j + 1].down
        /\ i + 1 \in 1..Len(reports) /\ j + 1 \in 1..Len(reports)
    BY <1>1
  <2>2. /\ p.button = q.button
        /\ \A k \in (i + 1)..(j + 1) : reports[k].device = p.button[1] =>
              p.button[2] \in Shown(reports[k])
    BY <1>3, <2>1 DEF QueueInv
  <2>3. \A k \in i..j : k + 1 \in (i + 1)..(j + 1) /\ reports'[k] = reports[k + 1]
    BY <1>1
  <2> QED
    BY <2>2, <2>3
<1>4. ASSUME NEW b \in Buttons, NEW i \in 1..Len(reports'), NEW p \in reports'[i].down,
             p.hold = held[b]
      PROVE  /\ p.button = b
             /\ \A k \in i..Len(reports') : reports'[k].device = b[1] =>
                   b[2] \in Shown(reports'[k])
  <2>1. p \in reports[i + 1].down /\ i + 1 \in 1..Len(reports)
    BY <1>1
  <2>2. /\ p.button = b
        /\ \A k \in (i + 1)..Len(reports) : reports[k].device = b[1] =>
              b[2] \in Shown(reports[k])
    BY <1>4, <2>1 DEF QueueInv
  <2>3. \A k \in i..Len(reports') :
          k + 1 \in (i + 1)..Len(reports) /\ reports'[k] = reports[k + 1]
    BY <1>1
  <2> QED
    BY <2>2, <2>3
<1> QED
  BY <1>2, <1>3, <1>4 DEF QueueInv

LEMMA QueueStep ==
    ASSUME Good, HoldsInv, QueueInv, ~ButtonlessReports, [Next]_vars
    PROVE  QueueInv'
<1> USE DEF Good
<1>1. CASE Rest \/ (\E a \in Actions : Clear(a)) \/ Capture \/ (Ignore \/ TooSoon) \/ Send
           \/ (CopyConfig \/ Accept)
  <2>1. UNCHANGED <<held, reports>>
    BY <1>1, RestTypes, ClearTypes, CaptureTypes, PressDoneTypes, SendTypes, DispatchTypes
  <2> QED
    BY <2>1 DEF QueueInv
<1>2. CASE Rig
  <2>1. RigStep /\ Untouched
    BY <1>2, RigSteps
  <2>2. RigTypes' /\ Arrival
    BY <2>1, RigStepTypes DEF Untouched
  <2> QED
    BY <2>1, <2>2, QueueRig
<1>3. CASE Restart
  <2>1. reports' = <<>> /\ held' = [b \in Buttons |-> 0]
    BY <1>3, RestartBoots DEF Boot
  <2>2. \A b \in Buttons : held'[b] = 0
    BY <2>1
  <2> QED
    BY <2>1, <2>2 DEF QueueInv
<1>4. CASE ReadReport
  <2>1. UNCHANGED held
    BY <1>4, ReadTypes
  <2>2. /\ Len(reports) \in Nat /\ Len(reports') = Len(reports) - 1
        /\ \A i \in 1..Len(reports') : reports'[i] = reports[i + 1]
    BY <1>4, ReadPresses
  <2> QED
    BY <2>1, <2>2, QueueTail
<1>5. CASE StopListening \/ ReportLost \/ SendFails
  <2>1. /\ UNCHANGED held
        /\ \/ reports' = <<>>
           \/ /\ Len(reports) \in Nat /\ Len(reports') = Len(reports) - 1
              /\ \A i \in 1..Len(reports') : reports'[i] = reports[i + 1]
    BY <1>5, DroppedTypes
  <2>2. CASE reports' = <<>>
    BY <2>1, <2>2 DEF QueueInv
  <2> QED
    BY <2>1, <2>2, QueueTail
<1> QED
  BY <1>1, <1>2, <1>3, <1>4, <1>5, Steps
-----------------------------------------------------------------------------
\* Nothing is seen that was not, and nothing else moves.
LEMMA SeenKept ==
    ASSUME SeenInv, UNCHANGED <<held, holds, reports, tracker>>, Seen' \subseteq Seen
    PROVE  SeenInv'
BY DEF SeenInv

LEMMA SeenTypes ==
    ASSUME Good
    PROVE  /\ \A i \in 1..Len(requests) : requests[i].hold \in Seen
           /\ \A i \in 1..Len(presses) : presses[i].hold \in Seen
           /\ captured \subseteq Seen
BY DEF Seen

LEMMA SeenRig ==
    ASSUME Good, HoldsInv, QueueInv, SeenInv, RigStep, RigTypes', Arrival, holds <= holds',
           UNCHANGED <<tracker, captured, requests, presses>>, ~ButtonlessReports
    PROVE  SeenInv'
<1>1. Seen' = Seen
  BY DEF Seen
<1>2. /\ held \in [Buttons -> Nat] /\ holds \in Nat /\ held' \in [Buttons -> Nat]
      /\ holds' \in Nat
  BY DEF Good, RigTypes
<1>3. \A b \in Buttons : held'[b] # 0 => held'[b] = held[b] \/ held'[b] > holds
  BY HeldMoves DEF Good
<1> DEFINE Old(i) == i \in 1..Len(reports) /\ reports'[i] = reports[i]
           Fresh(i) == /\ i = Len(reports') /\ i > Len(reports)
                       /\ reports'[i].down = Down(reports'[i].device, held')
<1>4. \A i \in 1..Len(reports') :
        /\ Len(reports) \in Nat /\ Len(reports') \in Nat
        /\ reports'[i] \in Reports
        /\ Old(i) \/ Fresh(i)
  BY ArrivedReports DEF Good
<1>5. \A h \in Seen : h \in Nat /\ h <= holds'
  BY <1>2 DEF SeenInv
<1>6. ASSUME NEW b \in Buttons, held'[b] # 0, held'[b] \in Seen
      PROVE  /\ b[2] \in tracker[b[1]]
             /\ \A k \in 1..Len(reports') : reports'[k].device = b[1] =>
                   b[2] \in Shown(reports'[k])
  <2>1. held[b] = held'[b]
    BY <1>2, <1>3, <1>6 DEF SeenInv
  <2>2. /\ b[2] \in tracker[b[1]]
        /\ \A k \in 1..Len(reports) : reports[k].device = b[1] => b[2] \in Shown(reports[k])
    BY <1>6, <2>1 DEF SeenInv
  <2>3. ASSUME NEW k \in 1..Len(reports'), reports'[k].device = b[1]
        PROVE  b[2] \in Shown(reports'[k])
    <3>1. CASE Old(k)
      BY <2>2, <2>3, <3>1
    <3>2. CASE Fresh(k)
      BY <1>2, <1>6, <2>3, <3>2, DownIsShown
    <3> QED
      BY <1>4, <3>1, <3>2
  <2> QED
    BY <2>2, <2>3
<1>7. ASSUME NEW i \in 1..Len(reports'), NEW p \in reports'[i].down, p.hold \in Seen
      PROVE  /\ p.button[2] \in tracker[p.button[1]]
             /\ \A k \in 1..i : reports'[k].device = p.button[1] =>
                   p.button[2] \in Shown(reports'[k])
  <2>1. CASE Old(i)
    <3>1. p \in reports[i].down
      BY <2>1
    <3>2. /\ p.button[2] \in tracker[p.button[1]]
          /\ \A k \in 1..i : reports[k].device = p.button[1] =>
                p.button[2] \in Shown(reports[k])
      BY <1>7, <2>1, <3>1 DEF SeenInv
    <3>3. \A k \in 1..i : reports'[k] = reports[k]
      BY <1>4, <2>1
    <3> QED
      BY <3>2, <3>3
  <2>2. CASE Fresh(i)
    <3>1. p \in Down(reports'[i].device, held')
      BY <2>2
    <3>2. p.button \in Buttons /\ p.hold = held'[p.button] /\ p.hold # 0
      BY <1>2, <3>1, DownIsPresses
    <3>3. \A k \in 1..i : k \in 1..Len(reports')
      BY <1>4
    <3> QED
      BY <1>6, <1>7, <3>2, <3>3
  <2> QED
    BY <1>4, <2>1, <2>2
<1> HIDE DEF Old, Fresh
<1> QED
  BY <1>1, <1>5, <1>6, <1>7 DEF SeenInv

\* One report is taken from the queue; what it shows of what is newly seen was in it.
LEMMA SeenRead ==
    ASSUME Good, HoldsInv, QueueInv, SeenInv, InHandInv, ReadReport
    PROVE  SeenInv'
<1> USE DEF Good
<1> DEFINE r == reports[1]
           fresh == {presses'[m].hold : m \in 1..Len(presses')}
<1>1. /\ Len(reports) \in Nat \ {0}
      /\ Len(reports') = Len(reports) - 1
      /\ \A i \in 1..Len(reports') : reports'[i] = reports[i + 1]
      /\ r \in Reports
      /\ \A m \in 1..Len(presses') : presses'[m] \in r.down
      /\ tracker' = [tracker EXCEPT ![r.device] = Shown(r)]
  BY ReadPresses
<1>2. \A i \in 1..Len(reports') :
        i + 1 \in 1..Len(reports) /\ reports'[i] = reports[i + 1]
  BY <1>1
<1>3. 1 \in 1..Len(reports)
  BY <1>1
<1>4. UNCHANGED <<held, holds, captured, requests>> /\ pc = "peek"
  BY ReadTypes
<1>5. Seen' \subseteq Seen \cup fresh
  BY <1>4 DEF Seen
<1>6. /\ tracker' \in [Devices -> SUBSET Nat]
      /\ r.device \in Devices
      /\ tracker'[r.device] = Shown(r)
      /\ \A d \in Devices : d # r.device => tracker'[d] = tracker[d]
  BY <1>1, ShownIsNumbers DEF RigTypes
<1>7. ASSUME NEW h \in Seen'
      PROVE  h \in Nat /\ h <= holds
  <2>1. CASE h \in Seen
    BY <2>1 DEF SeenInv
  <2>2. CASE h \in fresh
    <3>1. PICK m \in 1..Len(presses') : h = presses'[m].hold
      BY <2>2
    <3>2. presses'[m] \in r.down
      BY <1>1
    <3>3. presses'[m] \in Presses
      BY <1>1, <3>2, PressIsShown
    <3> QED
      BY <1>3, <3>1, <3>2, <3>3 DEF HoldsInv, Presses, Holds
  <2> QED
    BY <1>5, <2>1, <2>2
<1>8. ASSUME NEW i \in 1..Len(reports'), NEW p \in reports'[i].down, p.hold \in Seen'
      PROVE  /\ p.button[2] \in tracker'[p.button[1]]
             /\ \A k \in 1..i : reports'[k].device = p.button[1] =>
                   p.button[2] \in Shown(reports'[k])
  <2>1. p \in reports[i + 1].down /\ i + 1 \in 1..Len(reports)
    BY <1>2
  <2>2. /\ p.hold \in Seen => p.button[2] \in tracker[p.button[1]]
        /\ \A k \in 1..(i + 1) : reports[k].device = p.button[1] =>
              p.button[2] \in Shown(reports[k])
    <3>1. CASE p.hold \in Seen
      BY <2>1, <3>1 DEF SeenInv
    <3>2. CASE p.hold \in fresh /\ p.hold \notin Seen
      <4>1. PICK m \in 1..Len(presses') : p.hold = presses'[m].hold
        BY <3>2
      <4>2. presses'[m] \in reports[1].down
        BY <1>1
      <4>3. /\ presses'[m].button = p.button
            /\ \A k \in 1..(i + 1) : reports[k].device = presses'[m].button[1] =>
                  presses'[m].button[2] \in Shown(reports[k])
        BY <1>3, <2>1, <4>1, <4>2 DEF QueueInv
      <4> QED
        BY <3>2, <4>3
    <3> QED
      BY <1>5, <1>8, <3>1, <3>2
  <2>3. p.button[1] \in Devices
    <3>1. p.button[1] = reports[i + 1].device /\ reports[i + 1] \in Reports
      BY <2>1, ElementOfSeq DEF QueueInv, RigTypes
    <3> QED
      BY <3>1 DEF Reports
  <2>4. p.button[2] \in tracker'[p.button[1]]
    <3>1. CASE p.button[1] = r.device
      <4>1. 1 \in 1..(i + 1)
        BY <2>1
      <4> QED
        BY <1>6, <2>2, <3>1, <4>1
    <3>2. CASE p.button[1] # r.device
      <4>1. p.hold \in Seen
        <5>1. ASSUME p.hold \in fresh
              PROVE  FALSE
          <6>1. PICK m \in 1..Len(presses') : p.hold = presses'[m].hold
            BY <5>1
          <6>2. presses'[m] \in reports[1].down
            BY <1>1
          <6>3. presses'[m].button = p.button /\ presses'[m].button[1] = r.device
            BY <1>3, <2>1, <6>1, <6>2 DEF QueueInv
          <6> QED
            BY <3>2, <6>3
        <5> QED
          BY <1>5, <1>8, <5>1
      <4> QED
        BY <1>6, <2>2, <2>3, <3>2, <4>1
    <3> QED
      BY <3>1, <3>2
  <2>5. \A k \in 1..i : k + 1 \in 1..(i + 1) /\ reports'[k] = reports[k + 1]
    BY <1>2
  <2> QED
    BY <2>2, <2>4, <2>5
<1>9. ASSUME NEW b \in Buttons, held[b] # 0, held[b] \in Seen'
      PROVE  /\ b[2] \in tracker'[b[1]]
             /\ \A k \in 1..Len(reports') : reports'[k].device = b[1] =>
                   b[2] \in Shown(reports'[k])
  <2>1. /\ b[2] \in tracker[b[1]] \/ b[1] = r.device
        /\ \A k \in 1..Len(reports) : reports[k].device = b[1] => b[2] \in Shown(reports[k])
    <3>1. CASE held[b] \in Seen
      BY <1>9, <3>1 DEF SeenInv
    <3>2. CASE held[b] \in fresh
      <4>1. PICK m \in 1..Len(presses') : held[b] = presses'[m].hold
        BY <3>2
      <4>2. presses'[m] \in reports[1].down
        BY <1>1
      <4>3. /\ presses'[m].button = b /\ presses'[m].button[1] = r.device
            /\ \A k \in 1..Len(reports) : reports[k].device = b[1] =>
                  b[2] \in Shown(reports[k])
        BY <1>3, <4>1, <4>2 DEF QueueInv
      <4> QED
        BY <4>3
    <3> QED
      BY <1>5, <1>9, <3>1, <3>2
  <2>2. b[1] \in Devices
    BY DEF Devices
  <2>3. b[2] \in tracker'[b[1]]
    <3>1. CASE b[1] = r.device
      BY <1>3, <1>6, <2>1, <3>1
    <3>2. CASE b[1] # r.device
      BY <1>6, <2>1, <2>2, <3>2
    <3> QED
      BY <3>1, <3>2
  <2> QED
    BY <1>2, <2>1, <2>3
<1>10. \A h \in Seen' : h \in Nat /\ h <= holds
  BY <1>7
<1>11. UNCHANGED <<held, holds>>
  BY <1>4
<1> HIDE DEF r, fresh
<1> QED
  BY <1>8, <1>9, <1>10, <1>11 DEF SeenInv

LEMMA SeenTail ==
    ASSUME SeenInv, UNCHANGED <<held, holds, tracker, captured, requests>>,
           presses' = <<>> \/ UNCHANGED presses,
           \/ reports' = <<>>
           \/ /\ Len(reports) \in Nat /\ Len(reports') = Len(reports) - 1
              /\ \A i \in 1..Len(reports') : reports'[i] = reports[i + 1]
    PROVE  SeenInv'
<1>1. Seen' \subseteq Seen
  BY DEF Seen
<1>2. \A i \in 1..Len(reports') :
        /\ Len(reports) \in Nat /\ i + 1 \in 1..Len(reports)
        /\ reports'[i] = reports[i + 1]
  <2>1. CASE reports' = <<>>
    BY <2>1
  <2> QED
    BY <2>1
<1>3. ASSUME NEW i \in 1..Len(reports'), NEW p \in reports'[i].down, p.hold \in Seen'
      PROVE  /\ p.button[2] \in tracker[p.button[1]]
             /\ \A k \in 1..i : reports'[k].device = p.button[1] =>
                   p.button[2] \in Shown(reports'[k])
  <2>1. p \in reports[i + 1].down /\ i + 1 \in 1..Len(reports)
    BY <1>2
  <2>2. /\ p.button[2] \in tracker[p.button[1]]
        /\ \A k \in 1..(i + 1) : reports[k].device = p.button[1] =>
              p.button[2] \in Shown(reports[k])
    BY <1>1, <1>3, <2>1 DEF SeenInv
  <2>3. \A k \in 1..i : k + 1 \in 1..(i + 1) /\ reports'[k] = reports[k + 1]
    BY <1>2
  <2> QED
    BY <2>2, <2>3
<1>4. ASSUME NEW b \in Buttons, held[b] # 0, held[b] \in Seen'
      PROVE  /\ b[2] \in tracker[b[1]]
             /\ \A k \in 1..Len(reports') : reports'[k].device = b[1] =>
                   b[2] \in Shown(reports'[k])
  BY <1>1, <1>2, <1>4 DEF SeenInv
<1>5. \A h \in Seen' : h \in Nat /\ h <= holds
  BY <1>1 DEF SeenInv
<1> QED
  BY <1>3, <1>4, <1>5 DEF SeenInv

LEMMA SeenStep ==
    ASSUME Good, HoldsInv, QueueInv, SeenInv, InHandInv, ~ButtonlessReports, [Next]_vars
    PROVE  SeenInv'
<1> USE DEF Good
<1>1. CASE Rest \/ (\E a \in Actions : Clear(a)) \/ (CopyConfig \/ Accept)
  <2>1. UNCHANGED <<held, holds, reports, tracker, captured, requests, presses>>
    BY <1>1, RestTypes, ClearTypes, DispatchTypes
  <2>2. Seen' \subseteq Seen
    BY <2>1 DEF Seen
  <2> QED
    BY <2>1, <2>2, SeenKept
<1>2. CASE Rig
  <2>1. RigStep /\ Untouched
    BY <1>2, RigSteps
  <2>2. RigTypes' /\ Arrival /\ holds <= holds'
    BY <2>1, RigStepTypes DEF Untouched
  <2>3. UNCHANGED <<tracker, captured, requests, presses>>
    BY <2>1 DEF Untouched, input
  <2> QED
    BY <2>1, <2>2, <2>3, SeenRig
<1>3. CASE Restart
  <2>1. /\ reports' = <<>> /\ requests' = <<>> /\ presses' = <<>> /\ captured' = {}
        /\ held' = [b \in Buttons |-> 0]
    BY <1>3, RestartBoots DEF Boot
  <2>2. Seen' = {} /\ \A b \in Buttons : held'[b] = 0
    BY <2>1 DEF Seen
  <2> QED
    BY <2>1, <2>2 DEF SeenInv
<1>4. CASE Capture
  <2>1. /\ UNCHANGED <<held, holds, reports, tracker, requests>>
        /\ presses # <<>> /\ presses' = Tail(presses)
        /\ captured' = captured \cup {presses[1].hold}
    BY <1>4, CaptureTypes
  <2>2. /\ Len(presses) \in Nat \ {0} /\ Len(presses') = Len(presses) - 1
        /\ \A i \in 1..Len(presses') : presses'[i] = presses[i + 1]
    BY <2>1, TakenPress
  <2>3. \A i \in 1..Len(presses') : i + 1 \in 1..Len(presses) /\ presses'[i] = presses[i + 1]
    BY <2>2
  <2>4. 1 \in 1..Len(presses)
    BY <2>2
  <2>5. Seen' \subseteq Seen
    BY <2>1, <2>3, <2>4 DEF Seen
  <2> QED
    BY <2>1, <2>5, SeenKept
<1>5. CASE Ignore \/ TooSoon
  <2>1. /\ UNCHANGED <<held, holds, reports, tracker, requests, captured>>
        /\ presses # <<>> /\ presses' = Tail(presses)
    BY <1>5, PressDoneTypes
  <2>2. /\ Len(presses) \in Nat \ {0} /\ Len(presses') = Len(presses) - 1
        /\ \A i \in 1..Len(presses') : presses'[i] = presses[i + 1]
    BY <2>1, TakenPress
  <2>3. \A i \in 1..Len(presses') : i + 1 \in 1..Len(presses) /\ presses'[i] = presses[i + 1]
    BY <2>2
  <2>4. Seen' \subseteq Seen
    BY <2>1, <2>3 DEF Seen
  <2> QED
    BY <2>1, <2>4, SeenKept
<1>6. CASE Send
  <2>1. /\ UNCHANGED <<held, holds, reports, tracker, captured>>
        /\ presses # <<>> /\ presses' = Tail(presses)
        /\ accepted \in Requests /\ requests' = Append(requests, accepted)
        /\ accepted.hold = presses[1].hold
    BY <1>6, SendTypes DEF InHandInv
  <2>2. /\ Len(presses) \in Nat \ {0} /\ Len(presses') = Len(presses) - 1
        /\ \A i \in 1..Len(presses') : presses'[i] = presses[i + 1]
    BY <2>1, TakenPress
  <2>3. \A i \in 1..Len(presses') : i + 1 \in 1..Len(presses) /\ presses'[i] = presses[i + 1]
    BY <2>2
  <2>4. 1 \in 1..Len(presses)
    BY <2>2
  <2>5. \A i \in 1..Len(requests') :
          \/ i \in 1..Len(requests) /\ requests'[i] = requests[i]
          \/ requests'[i] = accepted
    BY <2>1, OneBehind DEF StateTypes
  <2>6. Seen' \subseteq Seen
    BY <2>1, <2>3, <2>4, <2>5 DEF Seen
  <2> QED
    BY <2>1, <2>6, SeenKept
<1>7. CASE ReadReport
  BY <1>7, SeenRead
<1>8. CASE StopListening \/ ReportLost \/ SendFails
  <2>1. /\ UNCHANGED <<held, holds, tracker, captured, requests>>
        /\ presses' = <<>> \/ UNCHANGED presses
        /\ \/ reports' = <<>>
           \/ /\ Len(reports) \in Nat /\ Len(reports') = Len(reports) - 1
              /\ \A i \in 1..Len(reports') : reports'[i] = reports[i + 1]
    BY <1>8, DroppedTypes
  <2> QED
    BY <2>1, SeenTail
<1> QED
  BY <1>1, <1>2, <1>3, <1>4, <1>5, <1>6, <1>7, <1>8, Steps
-----------------------------------------------------------------------------
\* A step that takes nothing from the hand and puts nothing in.
LEMMA InHandKept ==
    ASSUME InHandInv, UNCHANGED <<presses, captured, requests>>,
           pc' = "send" => pc = "send" /\ accepted' = accepted,
           pc' \in {"starting", "peek", "stopped"} =>
              pc \in {"starting", "peek", "stopped"} \/ presses = <<>>
    PROVE  InHandInv'
BY DEF InHandInv

LEMMA InHandTaken ==
    ASSUME RigTypes, InHandInv, presses # <<>>, presses' = Tail(presses), pc' = "press",
           \A h \in captured' : h \in captured \/ h = presses[1].hold,
           \A i \in 1..Len(requests') :
              \/ i \in 1..Len(requests) /\ requests'[i] = requests[i]
              \/ requests'[i].hold = presses[1].hold
    PROVE  InHandInv'
<1>1. /\ Len(presses) \in Nat \ {0} /\ Len(presses') = Len(presses) - 1
      /\ \A i \in 1..Len(presses') : presses'[i] = presses[i + 1]
  BY TakenPress
<1>2. /\ 1 \in 1..Len(presses)
      /\ \A i \in 1..Len(presses') : /\ i + 1 \in 1..Len(presses) /\ i + 1 # 1
                                     /\ presses'[i] = presses[i + 1]
  BY <1>1
<1>3. \A i, j \in 1..Len(presses') : presses'[i].hold = presses'[j].hold => i = j
  <2>1. ASSUME NEW i \in 1..Len(presses'), NEW j \in 1..Len(presses'),
               presses'[i].hold = presses'[j].hold
        PROVE  i = j
    <3>1. i + 1 = j + 1
      BY <1>2, <2>1 DEF InHandInv
    <3> QED
      BY <3>1
  <2> QED
    BY <2>1
<1>4. ASSUME NEW i \in 1..Len(presses')
      PROVE  /\ presses'[i].hold # presses[1].hold
             /\ presses'[i].hold \notin captured
             /\ \A j \in 1..Len(requests) : requests[j].hold # presses'[i].hold
  BY <1>2 DEF InHandInv
<1>5. \A i \in 1..Len(presses') :
        /\ presses'[i].hold \notin captured'
        /\ \A j \in 1..Len(requests') : requests'[j].hold # presses'[i].hold
  BY <1>4
<1> QED
  BY <1>3, <1>5 DEF InHandInv

LEMMA InHandRead ==
    ASSUME Good, QueueInv, SeenInv, ReadReport
    PROVE  InHandInv'
<1> USE DEF Good
<1>1. /\ pc' = "press" /\ UNCHANGED <<captured, requests>>
  BY ReadTypes
<1>2. /\ Len(reports) \in Nat \ {0}
      /\ reports[1] \in Reports
      /\ \A i \in 1..Len(presses') :
           /\ presses'[i] \in reports[1].down
           /\ presses'[i].button[2] \notin tracker[reports[1].device]
      /\ \A i, j \in 1..Len(presses') : presses'[i] = presses'[j] => i = j
  BY ReadPresses
<1>3. 1 \in 1..Len(reports)
  BY <1>2
<1>4. ASSUME NEW i \in 1..Len(presses')
      PROVE  presses'[i] \in Presses /\ presses'[i].hold \notin Seen
  <2>1. presses'[i].button[1] = reports[1].device
    BY <1>2, <1>3 DEF QueueInv
  <2> QED
    BY <1>2, <1>3, <2>1, PressIsShown DEF SeenInv
<1>5. ASSUME NEW i \in 1..Len(presses'), NEW j \in 1..Len(presses'),
             presses'[i].hold = presses'[j].hold
      PROVE  i = j
  <2>1. presses'[i].button = presses'[j].button
    BY <1>2, <1>3, <1>5 DEF QueueInv
  <2>2. presses'[i] = presses'[j]
    BY <1>4, <1>5, <2>1 DEF Presses
  <2> QED
    BY <1>2, <2>2
<1>6. \A i \in 1..Len(presses') :
        /\ presses'[i].hold \notin captured
        /\ \A j \in 1..Len(requests) : requests[j].hold # presses'[i].hold
  BY <1>4, SeenTypes
<1> QED
  BY <1>1, <1>5, <1>6 DEF InHandInv

LEMMA InHandStep ==
    ASSUME Good, QueueInv, SeenInv, InHandInv, [Next]_vars
    PROVE  InHandInv'
<1> USE DEF Good
<1>1. CASE Rest
  BY <1>1, RestTypes, InHandKept
<1>2. CASE Rig
  <2>1. UNCHANGED <<presses, captured, requests, pc, accepted>>
    BY <1>2, RigSteps DEF Untouched, input
  <2> QED
    BY <2>1, InHandKept
<1>3. CASE Restart
  <2>1. presses' = <<>> /\ captured' = {} /\ requests' = <<>> /\ pc' = "starting"
    BY <1>3, RestartBoots DEF Boot
  <2> QED
    BY <2>1 DEF InHandInv
<1>4. CASE \E a \in Actions : Clear(a)
  BY <1>4, ClearTypes, InHandKept
<1>5. CASE Capture
  <2>1. /\ requests' = requests /\ presses # <<>> /\ presses' = Tail(presses)
        /\ captured' = captured \cup {presses[1].hold} /\ pc' = "press"
    BY <1>5, CaptureTypes
  <2> QED
    BY <2>1, InHandTaken
<1>6. CASE Ignore \/ TooSoon
  <2>1. /\ requests' = requests /\ captured' = captured /\ pc' = "press"
        /\ presses # <<>> /\ presses' = Tail(presses)
    BY <1>6, PressDoneTypes
  <2> QED
    BY <2>1, InHandTaken
<1>7. CASE Send
  <2>1. /\ pc = "send" /\ pc' = "press" /\ captured' = captured
        /\ presses # <<>> /\ presses' = Tail(presses)
        /\ accepted \in Requests /\ requests' = Append(requests, accepted)
    BY <1>7, SendTypes
  <2>2. accepted.hold = presses[1].hold
    BY <2>1 DEF InHandInv
  <2>3. \A i \in 1..Len(requests') :
          \/ i \in 1..Len(requests) /\ requests'[i] = requests[i]
          \/ requests'[i].hold = presses[1].hold
    BY <2>1, <2>2, OneBehind DEF StateTypes
  <2> QED
    BY <2>1, <2>3, InHandTaken
<1>8. CASE ReadReport
  BY <1>8, InHandRead
<1>9. CASE StopListening \/ ReportLost \/ SendFails
  <2>1. /\ UNCHANGED <<captured, requests>> /\ pc' # "send"
        /\ presses' = <<>> \/ (pc = "peek" /\ UNCHANGED presses)
    BY <1>9, DroppedTypes
  <2> QED
    BY <2>1 DEF InHandInv
<1>10. CASE CopyConfig
  BY <1>10, DispatchTypes, InHandKept
<1>11. CASE Accept
  <2>1. UNCHANGED <<presses, captured, requests>> /\ pc' = "send"
    BY <1>11, DispatchTypes
  <2>2. accepted'.hold = presses[1].hold
    BY <1>11, AcceptedIsRequest
  <2> QED
    BY <2>1, <2>2 DEF InHandInv
<1> QED
  BY <1>1, <1>2, <1>3, <1>4, <1>5, <1>6, <1>7, <1>8, <1>9, <1>10, <1>11, Steps

LEMMA OneUseStep ==
    ASSUME Good, InHandInv, OneUsePerHold, [Next]_vars
    PROVE  OneUsePerHold'
<1> USE DEF Good
<1>0. requests \in Seq(Requests) /\ Len(requests) \in Nat /\ DOMAIN requests = 1..Len(requests)
  BY LenProperties DEF StateTypes
<1>1. CASE UNCHANGED <<captured, requests>>
  BY <1>1 DEF OneUsePerHold
<1>2. CASE Rig
  BY <1>1, <1>2, RigSteps DEF Untouched, input
<1>3. CASE Restart
  <2>1. requests' = <<>>
    BY <1>3, RestartBoots DEF Boot
  <2> QED
    BY <2>1 DEF OneUsePerHold
<1>4. CASE Capture
  <2>1. /\ requests' = requests /\ presses # <<>>
        /\ captured' = captured \cup {presses[1].hold}
    BY <1>4, CaptureTypes
  <2>2. Len(presses) \in Nat \ {0}
    BY <2>1, OneTaken DEF RigTypes
  <2>3. \A i \in 1..Len(requests) : requests[i].hold # presses[1].hold
    BY <2>2 DEF InHandInv
  <2> QED
    BY <1>0, <2>1, <2>3 DEF OneUsePerHold
<1>5. CASE Send
  <2>1. /\ pc = "send" /\ captured' = captured /\ presses # <<>>
        /\ accepted \in Requests /\ requests' = Append(requests, accepted)
    BY <1>5, SendTypes
  <2>2. Len(presses) \in Nat \ {0}
    BY <2>1, OneTaken DEF RigTypes
  <2>3. /\ accepted.hold \notin captured
        /\ \A i \in 1..Len(requests) : requests[i].hold # accepted.hold
    BY <2>1, <2>2 DEF InHandInv
  <2>4. /\ Len(requests') = Len(requests) + 1
        /\ \A i \in 1..Len(requests) : requests'[i] = requests[i]
        /\ requests'[Len(requests) + 1] = accepted
        /\ DOMAIN requests' = 1..Len(requests')
    BY <1>0, <2>1, OneBehind, LenProperties
  <2>5. \A i \in DOMAIN requests' : i \in 1..Len(requests) \/ i = Len(requests) + 1
    BY <1>0, <2>4
  <2>6. ASSUME NEW i \in DOMAIN requests'
        PROVE  requests'[i].hold \notin captured'
    BY <1>0, <2>1, <2>3, <2>4, <2>5 DEF OneUsePerHold
  <2>7. ASSUME NEW i \in DOMAIN requests', NEW j \in DOMAIN requests',
               requests'[i].hold = requests'[j].hold
        PROVE  i = j
    <3>1. CASE i \in 1..Len(requests) /\ j \in 1..Len(requests)
      BY <1>0, <2>4, <2>7, <3>1 DEF OneUsePerHold
    <3>2. CASE i = Len(requests) + 1 /\ j \in 1..Len(requests)
      BY <2>3, <2>4, <2>7, <3>2
    <3>3. CASE i \in 1..Len(requests) /\ j = Len(requests) + 1
      BY <2>3, <2>4, <2>7, <3>3
    <3> QED
      BY <2>5, <3>1, <3>2, <3>3
  <2> QED
    BY <2>6, <2>7 DEF OneUsePerHold
<1>6. CASE Rest \/ (\E a \in Actions : Clear(a)) \/ (Ignore \/ TooSoon) \/ ReadReport
           \/ (StopListening \/ ReportLost \/ SendFails) \/ (CopyConfig \/ Accept)
  BY <1>1, <1>6, RestTypes, ClearTypes, PressDoneTypes, ReadTypes, DroppedTypes, DispatchTypes
<1> QED
  BY <1>2, <1>3, <1>4, <1>5, <1>6, Steps
-----------------------------------------------------------------------------
LEMMA GoodInit == Init => Good /\ HoldsInv /\ CopyInv /\ PaceInv /\ Paced /\ FileAgrees
<1> SUFFICES ASSUME Init
             PROVE  Good /\ HoldsInv /\ CopyInv /\ PaceInv /\ Paced /\ FileAgrees
  OBVIOUS
<1>1. Good
  BY TypesInit DEF Good
<1>2. HoldsInv /\ CopyInv /\ PaceInv /\ Paced
  BY DEF Init, HoldsInv, CopyInv, PaceInv, Paced
<1>3. FileAgrees
  BY DEF Init, Loaded, FileAgrees
<1> QED
  BY <1>1, <1>2, <1>3

LEMMA HoldInit == Init => QueueInv /\ SeenInv /\ InHandInv /\ OneUsePerHold
<1> SUFFICES ASSUME Init
             PROVE  QueueInv /\ SeenInv /\ InHandInv /\ OneUsePerHold
  OBVIOUS
<1>1. \A b \in Buttons : held[b] = 0
  BY DEF Init
<1>2. Seen = {}
  BY DEF Init, Seen
<1>3. QueueInv
  BY <1>1 DEF Init, QueueInv
<1>4. SeenInv
  BY <1>1, <1>2 DEF Init, SeenInv
<1>5. InHandInv /\ OneUsePerHold
  BY DEF Init, InHandInv, OneUsePerHold
<1> QED
  BY <1>3, <1>4, <1>5

(* What the next start loads is what the window shows, unless it shows an error:      *)
(* persist and load_controls agree over every failed or torn save and every restart.  *)
THEOREM FileAgreesAlways == Spec => []FileAgrees
<1>1. Init => FileAgrees
  BY GoodInit
<1>2. FileAgrees /\ [Next]_vars => FileAgrees'
  BY FileAgreesStep
<1> QED
  BY <1>1, <1>2, PTL DEF Spec

(* on_button_down keeps every request a cooldown after the last of its action and a   *)
(* debounce after the last of its button, whatever is bound and cleared in between.   *)
THEOREM RequestsPaced == Spec => []Paced
<1>1. Init => Good /\ PaceInv /\ Paced
  BY GoodInit
<1>2. (Good /\ PaceInv /\ Paced) /\ [Next]_vars => (Good /\ PaceInv /\ Paced)'
  BY TypesStep, PaceStep
<1> QED
  BY <1>1, <1>2, PTL DEF Spec

(* A press that is newer than the last change of the bindings is answered by the ones *)
(* there are, though watch evaluates it on a copy taken under the mutex before.       *)
THEOREM AnsweredAsBound == Spec => RequestAsBound
<1> DEFINE IInv == Good /\ HoldsInv /\ CopyInv
           AsBound == accepted' \notin {accepted, NoRequest} /\ accepted'.hold > changed =>
                        /\ config.enabled
                        /\ accepted'.action = ActionFor(config, accepted'.button)
<1>1. Init => IInv
  BY GoodInit
<1>2. IInv /\ [Next]_vars => IInv'
  BY TypesStep, HoldsStep, CopyStep
<1>3. IInv /\ [Next]_vars => [AsBound]_vars
  BY AsBoundStep
<1> QED
  BY <1>1, <1>2, <1>3, PTL DEF Spec, RequestAsBound

(* One hold of a button is used once, for a binding or for a request, as long as every *)
(* report of a device lists its buttons: PressTracker lets only transitions through,   *)
(* and a press that learn mode took goes no further.                                   *)
THEOREM HoldsUsedOnce ==
    ASSUME ~ButtonlessReports
    PROVE  Spec => []OneUsePerHold
<1> DEFINE IInv == /\ Good /\ HoldsInv /\ QueueInv /\ SeenInv /\ InHandInv
                   /\ OneUsePerHold
<1>1. Init => IInv
  BY GoodInit, HoldInit
<1>2. IInv /\ [Next]_vars => IInv'
  BY TypesStep, HoldsStep, QueueStep, SeenStep, InHandStep, OneUseStep
<1> QED
  BY <1>1, <1>2, PTL DEF Spec
=============================================================================
