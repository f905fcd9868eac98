------------------------- MODULE BattlePairsProofs --------------------------
(***************************************************************************)
(* Theorems about BattlePairs, for every set of pairs, gaps and            *)
(* thresholds.                                                             *)
(***************************************************************************)
EXTENDS BattlePairs, TLAPS

(* The pairs still to come are the ones the loop was started for.                     *)
TodoInv ==
    /\ loop = "frame" => todo = {}
    /\ loop = "battles" => \A p \in todo : Fighting(p)
    /\ loop = "pairs" => \A p \in todo : ~Fighting(p) /\ Close(seen[p])

StreakInv ==
    /\ inARow \in [Pairs -> [close : 0..EngageFrames, away : 0..BreakFrames]]
    /\ \A p \in Pairs : /\ ~Close(seen[p]) => inARow[p].close = 0
                        /\ ~FarAway(seen[p]) => inARow[p].away = 0

(* far_frames counts the frames the pair has been away, once this frame is counted.   *)
FarOf(p) == IF loop = "battles" /\ p \in todo THEN Far(p) ELSE battles[p].far
FarInv == \A p \in Pairs : Fighting(p) => FarOf(p) = inARow[p].away

(* The candidate counter counts the frames the pair has been close; it stands still   *)
(* only where the bound on fights is reached.                                         *)
Counted(p) == loop = "frame" \/ (loop = "pairs" /\ p \notin todo)
CountOf(p) == IF Counted(p) THEN candidates[p]
              ELSE IF Close(seen[p]) THEN candidates[p] + 1 ELSE 0
CandidateInv ==
    \A p \in Pairs : ~Fighting(p) =>
        /\ CountOf(p) <= inARow[p].close
        /\ CountOf(p) = inARow[p].close \/ minted = MaxFights

IInv == PairsTypeOK /\ TodoInv /\ StreakInv /\ FarInv /\ CandidateInv
-----------------------------------------------------------------------------
USE PairsAssumption, PairGapsAssumption, PairFramesAssumption, BoundsAssumption

(* A gap is not both close and away: the break gap is no smaller than the engage gap. *)
LEMMA CloseOrAway ==
    ASSUME NEW g \in PairGaps \cup {OutOfSight}
    PROVE  ~(Close(g) /\ FarAway(g))
BY DEF Close, FarAway, OutOfSight

(* A pair is in a battle exactly when it has an entry with the fields of a battle.    *)
LEMMA BattleOrNone ==
    ASSUME PairsTypeOK, NEW p \in Pairs
    PROVE  /\ Fighting(p) => battles[p] \in Battle
           /\ ~Fighting(p) => battles[p] = NoBattle
           /\ battles[p].id \in Nat /\ (Fighting(p) <=> battles[p] # NoBattle)
           /\ candidates[p] \in Nat /\ candidates[p] < EngageFrames
BY DEF PairsTypeOK, Fighting, Battle, NoBattle

LEMMA LongerCounts ==
    ASSUME NEW max \in Nat, NEW n \in 0..max
    PROVE  OneMore(n, max) \in 0..max /\ (n < max => OneMore(n, max) = n + 1)
BY DEF OneMore

LEMMA Initially == InitPairs => IInv
<1> SUFFICES ASSUME InitPairs PROVE IInv
    OBVIOUS
<1>1. PairsTypeOK
    BY DEF InitPairs, PairsTypeOK, NoBattle, Fighting
<1>2. TodoInv /\ StreakInv
    BY DEF InitPairs, TodoInv, StreakInv
<1>3. FarInv /\ CandidateInv
    BY DEF InitPairs, FarInv, CandidateInv, CountOf, Counted, Fighting, NoBattle
<1> QED BY <1>1, <1>2, <1>3 DEF IInv

(* A new frame: every counter is one behind, for each pair in the loop that comes.    *)
LEMMA FrameKeeps == IInv /\ PairFrame => IInv'
<1> SUFFICES ASSUME IInv, PairFrame PROVE IInv'
    OBVIOUS
<1> USE DEF IInv
<1>1. PairsTypeOK'
    BY DEF PairsTypeOK, PairFrame, Fighting, Battle, NoBattle
<1>2. TodoInv'
    BY DEF TodoInv, PairFrame, Fighting
<1>3. /\ loop = "frame" /\ loop' = "battles" /\ todo' = {p \in Pairs : Fighting(p)}
      /\ seen' \in [Pairs -> PairGaps \cup {OutOfSight}]
      /\ UNCHANGED <<battles, candidates, minted>>
    BY DEF PairFrame
<1>4. ASSUME NEW p \in Pairs
      PROVE  /\ inARow'[p].close =
                  IF Close(seen'[p]) THEN OneMore(inARow[p].close, EngageFrames) ELSE 0
             /\ inARow'[p].away =
                  IF FarAway(seen'[p]) THEN OneMore(inARow[p].away, BreakFrames) ELSE 0
             /\ inARow[p].close \in 0..EngageFrames /\ inARow[p].away \in 0..BreakFrames
             /\ (Fighting(p) <=> Fighting(p)') /\ seen'[p] \in PairGaps \cup {OutOfSight}
    BY <1>3 DEF PairFrame, StreakInv, Fighting
<1>5. StreakInv'
    <2>1. inARow' \in [Pairs -> [close : 0..EngageFrames, away : 0..BreakFrames]]
        <3>1. ASSUME NEW p \in Pairs
              PROVE  /\ OneMore(inARow[p].close, EngageFrames) \in 0..EngageFrames
                     /\ OneMore(inARow[p].away, BreakFrames) \in 0..BreakFrames
            BY <1>4, LongerCounts
        <3> QED BY <3>1 DEF PairFrame
    <2>2. ASSUME NEW p \in Pairs
          PROVE  /\ ~Close(seen'[p]) => inARow'[p].close = 0
                 /\ ~FarAway(seen'[p]) => inARow'[p].away = 0
        BY <1>4
    <2> QED BY <2>1, <2>2 DEF StreakInv
<1>6. FarInv'
    <2> SUFFICES ASSUME NEW p \in Pairs, Fighting(p)' PROVE FarOf(p)' = inARow'[p].away
        BY DEF FarInv
    <2>1. Fighting(p) /\ battles[p].far = inARow[p].away
        BY <1>3, <1>4 DEF FarInv, FarOf
    <2>2. battles[p].far \in 0..BreakFrames - 1
        BY <2>1, BattleOrNone DEF Battle
    <2>3. FarOf(p)' = Far(p)'
        BY <1>3, <2>1 DEF FarOf
    <2>4. Far(p)' = IF FarAway(seen'[p]) THEN battles[p].far + 1 ELSE 0
        BY <1>3 DEF Far
    <2>5. inARow'[p].away = IF FarAway(seen'[p]) THEN inARow[p].away + 1 ELSE 0
        BY <1>4, <2>1, <2>2, LongerCounts
    <2> QED BY <2>1, <2>3, <2>4, <2>5
<1>7. CandidateInv'
    <2> SUFFICES ASSUME NEW p \in Pairs, ~Fighting(p)'
                 PROVE  /\ CountOf(p)' <= inARow'[p].close
                        /\ CountOf(p)' = inARow'[p].close \/ minted' = MaxFights
        BY DEF CandidateInv
    <2>1. /\ candidates[p] <= inARow[p].close
          /\ candidates[p] = inARow[p].close \/ minted = MaxFights
          /\ candidates[p] \in Nat /\ candidates[p] < EngageFrames
        BY <1>3, <1>4, BattleOrNone DEF CandidateInv, CountOf, Counted
    <2>2. CountOf(p)' = IF Close(seen'[p]) THEN candidates[p] + 1 ELSE 0
        BY <1>3 DEF CountOf, Counted
    <2>3. inARow'[p].close = IF Close(seen'[p]) THEN OneMore(inARow[p].close, EngageFrames) ELSE 0
        BY <1>4
    <2>7. IF inARow[p].close < EngageFrames
          THEN OneMore(inARow[p].close, EngageFrames) = inARow[p].close + 1
          ELSE OneMore(inARow[p].close, EngageFrames) = EngageFrames
        BY <1>4 DEF OneMore
    <2>4. inARow[p].close \in 0..EngageFrames /\ minted' = minted
        BY <1>3, <1>4
    <2>5. CASE Close(seen'[p])
        BY <2>1, <2>2, <2>3, <2>4, <2>5, <2>7
    <2>6. CASE ~Close(seen'[p])
        BY <2>2, <2>3, <2>6
    <2> QED BY <2>5, <2>6
<1> QED BY <1>1, <1>2, <1>5, <1>6, <1>7

(* One pair of the first loop: its battle is refreshed, and what is noted of the      *)
(* other pairs stays as it is.                                                        *)
LEMMA RefreshKeeps ==
    ASSUME IInv, NEW q \in Pairs, Refresh(q)
    PROVE  IInv'
<1> USE DEF IInv
<1>1. /\ loop = "battles" /\ loop' = loop /\ q \in todo /\ todo' = todo \ {q}
      /\ UNCHANGED <<clock, seen, inARow, candidates, minted>>
    BY DEF Refresh, observed
<1>2. Fighting(q) /\ battles[q] \in Battle
    BY <1>1, BattleOrNone DEF TodoInv
<1>3. Far(q) \in Nat /\ Far(q) = inARow[q].away
    BY <1>1, <1>2 DEF FarInv, FarOf, Far, Battle
<1>4. /\ battles' \in [Pairs -> Battle \cup {NoBattle}]
      /\ \A p \in Pairs \ {q} : battles'[p] = battles[p]
      /\ battles'[q] = NoBattle => FarAway(seen[q])
      /\ battles'[q] # NoBattle => battles'[q] \in Battle /\ battles'[q].far = Far(q)
    <2>1. CASE Break(q)
        <3>1. FarAway(seen[q])
            BY <2>1 DEF Break, Far
        <3> QED BY <2>1, <3>1 DEF Break, PairsTypeOK
    <2>2. CASE ClosesIn(q)
        <3>1. seen[q] \in PairGaps
            BY <2>2 DEF ClosesIn, MayClose, PairsTypeOK
        <3>2. [battles[q] EXCEPT !.far = Far(q), !.lastClosing = clock, !.gapAtLastClosing = seen[q]]
                 \in Battle
            <4>1. Far(q) \in 0..BreakFrames - 1 /\ clock \in 0..MaxClock
                BY <1>3, <2>2 DEF ClosesIn, PairsTypeOK
            <4> QED BY <1>2, <3>1, <4>1 DEF Battle
        <3> QED BY <1>2, <2>2, <3>2 DEF ClosesIn, PairsTypeOK, Battle, NoBattle
    <2>3. CASE GoesOn(q)
        <3>1. [battles[q] EXCEPT !.far = Far(q)] \in Battle
            BY <1>2, <1>3, <2>3 DEF GoesOn, Battle
        <3> QED BY <1>2, <2>3, <3>1 DEF GoesOn, PairsTypeOK, Battle, NoBattle
    <2> QED BY <2>1, <2>2, <2>3 DEF Refresh
<1>5. \A p \in Pairs \ {q} : Fighting(p)' <=> Fighting(p)
    BY <1>4 DEF Fighting
<1>6. ~Fighting(q)' => FarAway(seen[q])
    BY <1>4 DEF Fighting, Battle
<1>7. candidates[q] = 0
    BY <1>2 DEF PairsTypeOK
<1>8. PairsTypeOK'
    BY <1>1, <1>4, <1>5, <1>7 DEF PairsTypeOK
<1>9. TodoInv'
    BY <1>1, <1>5 DEF TodoInv, PairsTypeOK
<1>10. StreakInv'
    BY <1>1 DEF StreakInv
<1>11. FarInv'
    <2> SUFFICES ASSUME NEW p \in Pairs, Fighting(p)' PROVE FarOf(p)' = inARow[p].away
        BY <1>1 DEF FarInv
    <2>1. CASE p = q
        <3>1. battles'[q] # NoBattle
            BY <2>1 DEF Fighting, NoBattle
        <3>2. FarOf(q)' = battles'[q].far
            BY <1>1 DEF FarOf
        <3> QED BY <1>3, <1>4, <2>1, <3>1, <3>2
    <2>2. CASE p # q
        BY <1>1, <1>4, <1>5, <2>2 DEF FarInv, FarOf, Far
    <2> QED BY <2>1, <2>2
<1>12. CandidateInv'
    <2> SUFFICES ASSUME NEW p \in Pairs, ~Fighting(p)'
                 PROVE  /\ CountOf(p)' <= inARow[p].close
                        /\ CountOf(p)' = inARow[p].close \/ minted = MaxFights
        BY <1>1 DEF CandidateInv
    <2>1. CountOf(p)' = IF Close(seen[p]) THEN candidates[p] + 1 ELSE 0
        BY <1>1 DEF CountOf, Counted
    <2>2. CountOf(p) = IF Close(seen[p]) THEN candidates[p] + 1 ELSE 0
        BY <1>1 DEF CountOf, Counted
    <2>3. CASE p = q
        <3>1. ~Close(seen[q])
            BY <1>6, <2>3, CloseOrAway DEF PairsTypeOK
        <3> QED BY <2>1, <2>3, <3>1 DEF StreakInv
    <2>4. CASE p # q
        BY <1>5, <2>1, <2>2, <2>4 DEF CandidateInv
    <2> QED BY <2>3, <2>4
<1> QED BY <1>8, <1>9, <1>10, <1>11, <1>12

(* Between the loops nothing is counted; pairs that are not close stop being          *)
(* candidates, as their count says.                                                   *)
LEMMA PruneKeeps == IInv /\ PruneCandidates => IInv'
<1> SUFFICES ASSUME IInv, PruneCandidates PROVE IInv'
    OBVIOUS
<1> USE DEF IInv
<1>1. /\ loop = "battles" /\ loop' = "pairs" /\ todo = {}
      /\ todo' = {p \in Pairs : ~Fighting(p) /\ Close(seen[p])}
      /\ candidates' = [p \in Pairs |-> IF Close(seen[p]) THEN candidates[p] ELSE 0]
      /\ UNCHANGED <<clock, seen, inARow, battles, minted>>
    BY DEF PruneCandidates, StillClose, observed
<1>2. \A p \in Pairs : Fighting(p)' <=> Fighting(p)
    BY <1>1 DEF Fighting
<1>3. PairsTypeOK'
    <2>1. candidates' \in [Pairs -> 0..EngageFrames - 1]
        BY <1>1 DEF PairsTypeOK
    <2>2. \A p \in Pairs : Fighting(p)' => candidates'[p] = 0
        BY <1>1, <1>2 DEF PairsTypeOK
    <2> QED BY <1>1, <2>1, <2>2 DEF PairsTypeOK
<1>4. TodoInv'
    BY <1>1, <1>2 DEF TodoInv
<1>5. StreakInv' /\ FarInv'
    BY <1>1, <1>2 DEF StreakInv, FarInv, FarOf
<1>6. CandidateInv'
    <2> SUFFICES ASSUME NEW p \in Pairs, ~Fighting(p)
                 PROVE  CountOf(p)' = CountOf(p)
        BY <1>1, <1>2 DEF CandidateInv
    <2>1. CASE Close(seen[p])
        BY <1>1, <2>1 DEF CountOf, Counted
    <2>2. CASE ~Close(seen[p])
        BY <1>1, <2>2 DEF CountOf, Counted
    <2> QED BY <2>1, <2>2
<1> QED BY <1>3, <1>4, <1>5, <1>6

(* A close pair that is in no battle: its counter goes up by one, or it engages.      *)
LEMMA ConsiderKeeps ==
    ASSUME IInv, NEW q \in Pairs, Consider(q)
    PROVE  IInv'
<1> USE DEF IInv
<1>1. /\ loop = "pairs" /\ loop' = loop /\ q \in todo /\ todo' = todo \ {q}
      /\ UNCHANGED <<clock, seen, inARow>>
      /\ ~Fighting(q) /\ Close(seen[q])
    BY DEF Consider, observed, TodoInv
<1>2. /\ candidates[q] \in 0..EngageFrames - 1 /\ minted \in 0..MaxFights
      /\ candidates[q] + 1 <= inARow[q].close
      /\ candidates[q] + 1 = inARow[q].close \/ minted = MaxFights
      /\ inARow[q].close \in 0..EngageFrames /\ inARow[q].away = 0
      /\ seen[q] \in PairGaps
    <2>1. CountOf(q) = candidates[q] + 1
        BY <1>1 DEF CountOf, Counted
    <2>2. ~FarAway(seen[q]) /\ seen[q] \in PairGaps
        BY <1>1, CloseOrAway DEF PairsTypeOK, Close
    <2> QED BY <1>1, <2>1, <2>2 DEF CandidateInv, StreakInv, PairsTypeOK
<1>3. /\ minted' \in 0..MaxFights
      /\ minted = MaxFights => minted' = MaxFights
      /\ battles' \in [Pairs -> Battle \cup {NoBattle}]
      /\ candidates' \in [Pairs -> 0..EngageFrames - 1]
      /\ \A p \in Pairs \ {q} : battles'[p] = battles[p] /\ candidates'[p] = candidates[p]
      /\ \/ ~Fighting(q)' /\ candidates'[q] <= inARow[q].close
            /\ (candidates'[q] = inARow[q].close \/ minted' = MaxFights)
         \/ Fighting(q)' /\ candidates'[q] = 0 /\ battles'[q].far = 0
    <2>1. CASE Count(q)
        BY <1>1, <1>2, <2>1 DEF Count, PairsTypeOK, Fighting
    <2>2. CASE Engage(q)
        <3> DEFINE new == [id |-> NextId, far |-> 0, lastClosing |-> clock,
                           gapAtLastClosing |-> seen[q]]
        <3>1. /\ minted < MaxFights /\ minted' = minted + 1
              /\ battles' = [battles EXCEPT ![q] = new]
              /\ candidates' = [candidates EXCEPT ![q] = 0]
            BY <2>2 DEF Engage, CandidatesWithout
        <3>2. new \in Battle
            BY <1>2, <3>1 DEF Battle, NextId, PairsTypeOK
        <3>3. new.id # 0 /\ new.far = 0
            BY <1>2 DEF NextId
        <3> HIDE DEF new
        <3>4. battles'[q] = new /\ candidates'[q] = 0
            BY <3>1 DEF PairsTypeOK
        <3>5. Fighting(q)' /\ battles'[q].far = 0
            BY <3>3, <3>4 DEF Fighting
        <3> QED BY <1>2, <3>1, <3>2, <3>4, <3>5 DEF PairsTypeOK
    <2>3. CASE Beyond(q)
        BY <1>1, <1>2, <2>3 DEF Beyond, PairsTypeOK, Fighting
    <2> QED BY <2>1, <2>2, <2>3, <1>1 DEF Consider
<1>4. \A p \in Pairs \ {q} : Fighting(p)' <=> Fighting(p)
    BY <1>3 DEF Fighting
<1>5. PairsTypeOK'
    <2>1. \A p \in Pairs : Fighting(p)' => candidates'[p] = 0
        BY <1>3, <1>4 DEF PairsTypeOK
    <2> QED BY <1>1, <1>3, <2>1 DEF PairsTypeOK
<1>6. TodoInv'
    BY <1>1, <1>4 DEF TodoInv, PairsTypeOK
<1>7. StreakInv'
    BY <1>1 DEF StreakInv
<1>8. FarInv'
    BY <1>1, <1>2, <1>3, <1>4 DEF FarInv, FarOf
<1>9. CandidateInv'
    <2> SUFFICES ASSUME NEW p \in Pairs, ~Fighting(p)'
                 PROVE  /\ CountOf(p)' <= inARow[p].close
                        /\ CountOf(p)' = inARow[p].close \/ minted' = MaxFights
        BY <1>1 DEF CandidateInv
    <2>1. CASE p = q
        <3>1. CountOf(p)' = candidates'[q]
            BY <1>1, <2>1 DEF CountOf, Counted
        <3> QED BY <1>3, <2>1, <3>1
    <2>2. CASE p # q
        <3>1. CountOf(p)' = CountOf(p)
            BY <1>1, <1>3, <2>2 DEF CountOf, Counted
        <3> QED BY <1>3, <1>4, <2>2, <3>1 DEF CandidateInv
    <2> QED BY <2>1, <2>2
<1> QED BY <1>5, <1>6, <1>7, <1>8, <1>9

(* The end of a frame: all has been counted.                                          *)
LEMMA FrameDoneKeeps == IInv /\ FrameDone => IInv'
<1> SUFFICES ASSUME IInv, FrameDone PROVE IInv'
    OBVIOUS
<1> USE DEF IInv
<1>1. /\ loop = "pairs" /\ loop' = "frame" /\ todo = {}
      /\ UNCHANGED <<clock, seen, inARow, todo, battles, candidates, minted>>
    BY DEF FrameDone, observed
<1>2. \A p \in Pairs : Fighting(p)' <=> Fighting(p)
    BY <1>1 DEF Fighting
<1>3. PairsTypeOK' /\ TodoInv' /\ StreakInv'
    BY <1>1, <1>2 DEF PairsTypeOK, TodoInv, StreakInv
<1>4. FarInv' /\ CandidateInv'
    BY <1>1, <1>2 DEF FarInv, FarOf, CandidateInv, CountOf, Counted
<1> QED BY <1>3, <1>4

LEMMA StutterKeeps == IInv /\ UNCHANGED pairVars => IInv'
BY DEF IInv, PairsTypeOK, TodoInv, StreakInv, FarInv, FarOf, Far, CandidateInv, CountOf, Counted,
       Fighting, pairVars, observed

LEMMA StepKeeps == IInv /\ [PairStep]_pairVars => IInv'
BY FrameKeeps, RefreshKeeps, PruneKeeps, ConsiderKeeps, FrameDoneKeeps, StutterKeeps
   DEF PairStep, Update

LEMMA Invariance == PairsSpec => []IInv
BY Initially, StepKeeps, PTL DEF PairsSpec
-----------------------------------------------------------------------------
(* The counters stay below their thresholds and the two maps of the tracker share no  *)
(* key, whatever the pairs, gaps and thresholds are.                                  *)
THEOREM TypeCorrect == PairsSpec => []PairsTypeOK
<1>1. IInv => PairsTypeOK
    BY DEF IInv
<1> QED BY Invariance, <1>1, PTL

(* At the end of each frame the tracker has decided: whoever was close for long       *)
(* enough is in a fight, whoever was away for long enough is not.                     *)
THEOREM DecisionsInTime == PairsSpec => []DecidedInTime
<1>1. IInv => DecidedInTime
    <2> SUFFICES ASSUME IInv, loop = "frame", NEW p \in Pairs
                 PROVE  /\ inARow[p].close >= EngageFrames => Fighting(p) \/ minted = MaxFights
                        /\ inARow[p].away >= BreakFrames => ~Fighting(p)
        BY DEF DecidedInTime
    <2> USE DEF IInv
    <2>1. ~Fighting(p) => /\ candidates[p] = inARow[p].close \/ minted = MaxFights
                          /\ candidates[p] \in 0..EngageFrames - 1
        BY DEF CandidateInv, CountOf, Counted, PairsTypeOK
    <2>2. Fighting(p) => battles[p].far = inARow[p].away /\ battles[p].far \in 0..BreakFrames - 1
        BY BattleOrNone DEF FarInv, FarOf, Battle
    <2> QED BY <2>1, <2>2
<1> QED BY Invariance, <1>1, PTL

(* No fight without its frames of evidence: the tracker neither engages a pair that   *)
(* was close only now and then, nor breaks a fight over one bad frame.                *)
THEOREM EvidenceForEach == PairsSpec => FramesOfEvidence
<1> DEFINE Evidence ==
        \A p \in Pairs :
            /\ ~Fighting(p) /\ Fighting(p)' => inARow[p].close >= EngageFrames
            /\ Fighting(p) /\ ~Fighting(p)' => inARow[p].away >= BreakFrames
<1>1. ASSUME IInv, PairStep PROVE Evidence
    <2> SUFFICES ASSUME NEW p \in Pairs, Fighting(p)' <=> ~Fighting(p)
                 PROVE  /\ Fighting(p)' => inARow[p].close >= EngageFrames
                        /\ ~Fighting(p)' => inARow[p].away >= BreakFrames
        OBVIOUS
    <2> USE <1>1 DEF IInv
    <2>1. battles'[p] # battles[p]
        BY DEF Fighting
    <2>2. PICK q \in Pairs : Refresh(q) \/ Consider(q)
        BY <2>1 DEF PairStep, Update, PairFrame, PruneCandidates, FrameDone
    <2>3. CASE Refresh(q)
        <3>1. p = q
            BY <2>1, <2>3 DEF Refresh, Break, ClosesIn, GoesOn, PairsTypeOK
        <3>2. Fighting(q) /\ Far(q) = inARow[q].away /\ inARow[q].away \in 0..BreakFrames
            BY <2>3 DEF Refresh, TodoInv, FarInv, FarOf, StreakInv
        <3>3. CASE Break(q)
            BY <3>1, <3>2, <3>3 DEF Break
        <3>4. CASE ClosesIn(q) \/ GoesOn(q)
            <4>1. battles[q] \in Battle
                BY <3>2, BattleOrNone
            <4>2. battles'[q].id = battles[q].id
                BY <3>4, <4>1 DEF ClosesIn, GoesOn, PairsTypeOK, Battle
            <4> QED BY <3>1, <4>2 DEF Fighting
        <3> QED BY <2>3, <3>3, <3>4 DEF Refresh
    <2>4. CASE Consider(q)
        <3>1. p = q
            BY <2>1, <2>4 DEF Consider, Count, Engage, Beyond, PairsTypeOK
        <3>2. ~Fighting(q) /\ CountOf(q) <= inARow[q].close /\ CountOf(q) = candidates[q] + 1
            BY <2>4 DEF Consider, TodoInv, CandidateInv, CountOf, Counted
        <3>3. candidates[q] \in Nat /\ inARow[q].close \in Nat
            BY BattleOrNone DEF StreakInv
        <3>4. candidates[q] + 1 >= EngageFrames
            BY <2>1, <2>4, <3>1 DEF Consider, Count, Engage, Beyond
        <3> QED BY <3>1, <3>2, <3>3, <3>4
    <2> QED BY <2>2, <2>3, <2>4
<1>2. UNCHANGED pairVars => Evidence
    BY DEF pairVars, Fighting
<1>3. ASSUME IInv, [PairStep]_pairVars PROVE [Evidence]_pairVars
    BY <1>1, <1>3
<1> QED BY Invariance, <1>3, PTL DEF PairsSpec, FramesOfEvidence
-----------------------------------------------------------------------------
\* What the consumer is told of, as the abstract specification names it.
published == Pairs \ OwnPairs
openFights == [p \in published |-> battles[p].id]

LEMMA InitFights == InitPairs => Say!Init
BY DEF InitPairs, Say!Init, NoBattle, Say!NoFight, Say!Silence

(* Publishing one transition is the abstract step of that name, or a silent one when  *)
(* the publisher is in the pair.                                                      *)
LEMMA StepFights == IInv /\ [PairStep]_pairVars => [Say!Next]_(Say!vars)
<1> SUFFICES ASSUME IInv, [PairStep]_pairVars PROVE [Say!Next]_(Say!vars)
    OBVIOUS
<1> USE DEF IInv
<1>0. minted \in Nat
    BY DEF PairsTypeOK
<1>1. ASSUME event' = Say!Silence, minted' \in {minted, minted + 1}, openFights' = openFights
      PROVE  Say!Quiet
    BY <1>1 DEF Say!Quiet, openFights, published
<1>2. ASSUME NEW q \in Pairs, Refresh(q) PROVE Say!Next
    <2>1. minted' = minted /\ Fighting(q)
        BY <1>2 DEF Refresh, TodoInv
    <2>2. battles[q] \in Battle
        BY <2>1, BattleOrNone
    <2>3. CASE Break(q)
        <3>1. battles' = [battles EXCEPT ![q] = NoBattle]
            BY <2>3 DEF Break
        <3>2. CASE q \in OwnPairs
            <4>1. event' = Say!Silence
                BY <2>3, <3>2 DEF Break, Emit
            <4>2. openFights' = openFights
                BY <3>1, <3>2 DEF openFights, published
            <4> QED BY <1>1, <2>1, <4>1, <4>2 DEF Say!Next
        <3>3. CASE q \notin OwnPairs
            <4>1. event' = Say!Say("BROKEN", q, openFights[q])
                BY <2>3, <3>3 DEF Break, Emit, openFights, published
            <4>2. openFights' = [openFights EXCEPT ![q] = Say!NoFight]
                BY <3>1, <3>3 DEF openFights, published, NoBattle, Say!NoFight, PairsTypeOK
            <4>3. openFights[q] # Say!NoFight
                BY <2>1, <3>3 DEF openFights, published, Fighting, Say!NoFight
            <4>4. Say!Break(q)
                BY <2>1, <3>3, <4>1, <4>2, <4>3 DEF Say!Break, openFights, published
            <4> QED BY <3>3, <4>4 DEF Say!Next, published
        <3> QED BY <3>2, <3>3
    <2>4. CASE ClosesIn(q) \/ GoesOn(q)
        <3>1. openFights' = openFights
            <4>1. battles'[q].id = battles[q].id
                BY <2>2, <2>4 DEF ClosesIn, GoesOn, PairsTypeOK, Battle
            <4>2. \A p \in Pairs \ {q} : battles'[p] = battles[p]
                BY <2>4 DEF ClosesIn, GoesOn, PairsTypeOK
            <4> QED BY <4>1, <4>2 DEF openFights, published
        <3>2. CASE event' = Say!Silence
            BY <1>1, <2>1, <3>1, <3>2 DEF Say!Next
        <3>3. CASE event' # Say!Silence
            <4>1. q \notin OwnPairs /\ event' = Say!Say("CLOSING", q, battles[q].id)
                BY <2>4, <3>3 DEF ClosesIn, GoesOn, Emit
            <4>2. Say!Close(q)
                BY <2>1, <3>1, <4>1 DEF Say!Close, openFights, published, Fighting, Say!NoFight
            <4> QED BY <4>1, <4>2 DEF Say!Next
        <3> QED BY <3>2, <3>3
    <2> QED BY <1>2, <2>3, <2>4 DEF Refresh
<1>3. ASSUME NEW q \in Pairs, Consider(q) PROVE Say!Next
    <2>1. CASE Count(q) \/ Beyond(q)
        BY <1>1, <2>1 DEF Count, Beyond, openFights, Say!Next
    <2>2. CASE Engage(q)
        <3>1. /\ minted' = minted + 1
              /\ battles' = [battles EXCEPT ![q] =
                    [id |-> minted + 1, far |-> 0, lastClosing |-> clock, gapAtLastClosing |-> seen[q]]]
              /\ Emit("ENGAGED", q, minted + 1)
            BY <2>2 DEF Engage, NextId
        <3>2. CASE q \in OwnPairs
            <4>1. openFights' = openFights
                BY <3>1, <3>2 DEF openFights, published
            <4> QED BY <1>1, <3>1, <3>2, <4>1 DEF Emit, Say!Next
        <3>3. CASE q \notin OwnPairs
            <4>1. event' = Say!Say("ENGAGED", q, minted')
                BY <3>1, <3>3 DEF Emit
            <4>2. openFights' = [openFights EXCEPT ![q] = minted']
                BY <3>1, <3>3 DEF openFights, published, PairsTypeOK
            <4>3. openFights[q] = Say!NoFight
                BY <1>3, <3>3 DEF Consider, TodoInv, Fighting, openFights, published, Say!NoFight
            <4>4. Say!Engage(q)
                BY <3>1, <4>1, <4>2, <4>3 DEF Say!Engage, openFights, published
            <4> QED BY <3>3, <4>4 DEF Say!Next
        <3> QED BY <3>2, <3>3
    <2> QED BY <1>3, <2>1, <2>2 DEF Consider
<1>4. CASE PairFrame \/ PruneCandidates \/ FrameDone
    BY <1>1, <1>4 DEF PairFrame, PruneCandidates, FrameDone, openFights, Say!Next
<1>5. CASE UNCHANGED pairVars
    BY <1>5 DEF pairVars, observed, Say!vars
<1> QED BY <1>2, <1>3, <1>4, <1>5 DEF PairStep, Update

(* Whatever pairs come and go, and however the frames interleave them, a consumer     *)
(* sees fights: one at a time per pair, each under an id of its own, opened once and  *)
(* closed once.                                                                       *)
THEOREM PairsTellOfFights == PairsSpec => TellsOfFights
BY InitFights, StepFights, Invariance, PTL DEF PairsSpec, TellsOfFights, Say!FightsSpec
=============================================================================
