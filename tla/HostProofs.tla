---------------------------- MODULE HostProofs -----------------------------
(***************************************************************************)
(* Proofs about the publisher as a process (Host) and its reader (Reader), *)
(* for any number of buffers, whatever iRacing publishes, however often it *)
(* starts and however many writes fail.                                    *)
(*                                                                         *)
(* A frame is of one tick as long as iRacing completes at most NumBuf - 2  *)
(* ticks while it is copied: each buffer holds the newest tick of its      *)
(* residue and is whole unless it is the next one to be written, and the   *)
(* buffer that is copied is not that one until NumBuf - 1 ticks have been  *)
(* completed after it.  That a frame is decoded with the index of its own  *)
(* start needs no such bound: the thread is not connected to an iRacing    *)
(* that is not up and has been noticed to be gone.                         *)
(*                                                                         *)
(* status.json is whole because the file under the final name is never the *)
(* one under the temporary name, the only one that is written.             *)
(***************************************************************************)
EXTENDS Host, TLAPS

Cells == [start : Nat, tick : Nat]
Groups == {"core", "metadata", "budget", "driving"}
SimStates == [up : BOOLEAN, starts : Nat, published : SUBSET Groups, tick : Nat,
              writing : 0..2]

\* The buffer that a tick is written to.
SlotOf(tick) == tick % NumBuf

Types ==
    /\ sim \in SimStates
    /\ buffers \in [Slots -> [tick : Nat, early : Cells, late : Cells]]
    /\ picked \in [slot : Slots, tick : Nat, early : Cells]
    /\ noticed \in BOOLEAN

\* A thread that is connected is connected to the present start of iRacing, which does
\* not start again before the thread has let go.
Detached == pc \in {"connect", "stopped"}
Attached ==
    /\ sim.up => sim.starts > 0
    /\ ~Detached => sim.starts > 0 /\ index.start = sim.starts
    /\ ~sim.up /\ noticed => Detached

\* The buffers, and the copy, are of the present start.
OfThisStart ==
    /\ sim.starts > 0 => \A s \in Slots : buffers[s].early.start = sim.starts
    /\ pc = "late" => picked.early.start = sim.starts

Base == Types /\ Attached /\ OfThisStart /\ IndexCurrent

OneTick(s) ==
    /\ buffers[s].early = buffers[s].late
    /\ buffers[s].early.tick = buffers[s].tick

\* Each buffer has the newest tick of its turn, and only the next one is being written.
Newest(s) ==
    /\ SlotOf(buffers[s].tick) = s
    /\ buffers[s].tick <= sim.tick
    /\ sim.tick < buffers[s].tick + NumBuf
BuffersInv ==
    sim.starts > 0 => \A s \in Slots : Newest(s) /\ (s # Turn => OneTick(s))

WritingInv ==
    /\ ~sim.up => sim.writing = 0
    /\ sim.writing >= 1 => buffers[Turn].early = Cell(sim.starts, sim.tick + 1)
    /\ sim.writing = 2 => buffers[Turn].late = Cell(sim.starts, sim.tick + 1)

\* What is being copied keeps its tick.
CopyInv ==
    /\ Copying => /\ buffers[picked.slot].tick = picked.tick
                  /\ picked.tick <= sim.tick
                  /\ sim.tick <= picked.tick + MaxLag
    /\ pc = "late" => picked.early = buffers[picked.slot].early

Rest == BuffersInv /\ WritingInv /\ CopyInv /\ FrameWhole
IInv == Base /\ Rest
-----------------------------------------------------------------------------
LEMMA DivisionTheorem ==
    ASSUME NEW x \in Int, NEW n \in Int, n > 0
    PROVE  x % n \in 0..n-1 /\ x \div n \in Int /\ x = n * (x \div n) + (x % n)
<1>1. x % n \in 0..n-1
    OBVIOUS
<1>2. x \div n \in Int
    OBVIOUS
<1>3. x = n * (x \div n) + (x % n)
    BY Z3T(30)
<1> QED BY <1>1, <1>2, <1>3

LEMMA RemainderIsUnique ==
    ASSUME NEW n \in Int, n > 0, NEW q \in Int, NEW r \in 0..n-1
    PROVE  (n * q + r) % n = r
OBVIOUS

(* Two ticks that are less than NumBuf apart have different turns. *)
LEMMA NearTicksDiffer ==
    ASSUME NEW x \in Int, NEW y \in Int, x < y, y < x + NumBuf
    PROVE  SlotOf(x) # SlotOf(y)
<1> DEFINE n == NumBuf
<1>0. n \in Int /\ n > 0
    BY BuffersAssumption
<1> HIDE DEF n
<1> DEFINE p == x \div n
           q == y \div n
<1>1. /\ p \in Int /\ x = n * p + (x % n) /\ x % n \in 0..n-1
      /\ q \in Int /\ y = n * q + (y % n) /\ y % n \in 0..n-1
    BY <1>0, DivisionTheorem
<1> HIDE DEF p, q
<1>2. SUFFICES ASSUME x % n = y % n PROVE FALSE
    BY DEF SlotOf, n
<1>3. n * q - n * p > 0 /\ n * q - n * p < n
    BY <1>0, <1>1, <1>2 DEF n
<1>4. n * q - n * p = n * (q - p)
    BY <1>0, <1>1
<1>5. CASE q - p >= 1
    <2>1. n * (q - p) >= n
        BY <1>0, <1>1, <1>5
    <2> QED BY <1>0, <1>1, <1>3, <1>4, <2>1
<1>6. CASE q - p <= 0
    <2>1. n * (q - p) <= 0
        BY <1>0, <1>1, <1>6
    <2> QED BY <1>0, <1>1, <1>3, <1>4, <2>1
<1> QED BY <1>1, <1>5, <1>6

LEMMA NextTurn ==
    ASSUME NEW x \in Int
    PROVE  SlotOf(x + NumBuf) = SlotOf(x)
<1> DEFINE n == NumBuf
<1>0. n \in Int /\ n > 0
    BY BuffersAssumption
<1> HIDE DEF n
<1> DEFINE q == x \div n
           r == x % n
<1>1. q \in Int /\ r \in 0..n-1 /\ x = n * q + r
    BY <1>0, DivisionTheorem
<1> HIDE DEF q, r
<1>2. n * (q + 1) = n * q + n
    BY <1>0, <1>1
<1>3. x + n = n * (q + 1) + r
    BY <1>0, <1>1, <1>2
<1>4. (n * (q + 1) + r) % n = r
    BY <1>0, <1>1, RemainderIsUnique
<1> QED BY <1>3, <1>4 DEF r, n, SlotOf

(* Every turn comes once in NumBuf ticks. *)
LEMMA EveryTurnComes ==
    ASSUME NEW x \in Nat, NEW s \in Slots
    PROVE  \E t \in x+1..x+NumBuf : SlotOf(t) = s
<1> DEFINE n == NumBuf
<1>0. n \in Int /\ n > 0 /\ s \in 0..n-1
    BY BuffersAssumption DEF Slots
<1> HIDE DEF n
<1> DEFINE q == x \div n
           r == x % n
<1>1. q \in Int /\ r \in 0..n-1 /\ x = n * q + r
    BY <1>0, DivisionTheorem
<1> HIDE DEF q, r
<1>2. CASE s > r
    <2>1. n * q + s \in x+1..x+n
        BY <1>0, <1>1, <1>2
    <2>2. (n * q + s) % n = s
        BY <1>0, <1>1, RemainderIsUnique
    <2> QED BY <2>1, <2>2 DEF n, SlotOf
<1>3. CASE s <= r
    <2>1. n * (q + 1) = n * q + n
        BY <1>0, <1>1
    <2>2. n * (q + 1) + s \in x+1..x+n
        BY <1>0, <1>1, <1>3, <2>1
    <2>3. (n * (q + 1) + s) % n = s
        BY <1>0, <1>1, RemainderIsUnique
    <2> QED BY <2>2, <2>3 DEF n, SlotOf
<1> QED BY <1>0, <1>1, <1>2, <1>3
LEMMA SlotOfIsSlot == ASSUME NEW x \in Int PROVE SlotOf(x) \in Slots
<1>1. NumBuf \in Int /\ NumBuf > 0
    BY BuffersAssumption
<1>2. x % NumBuf \in 0..NumBuf-1
    BY <1>1, DivisionTheorem
<1> QED BY <1>2 DEF SlotOf, Slots

-----------------------------------------------------------------------------
LEMMA Buffers ==
    /\ NumBuf \in Nat /\ NumBuf \in Int /\ NumBuf > 0 /\ MaxLag \in Nat
    /\ Slots = 0..NumBuf-1
BY BuffersAssumption DEF Slots

LEMMA TurnIsSlot == ASSUME Types PROVE Turn \in Slots
<1>1. sim.tick + 1 \in Int
    BY DEF Types, SimStates
<1> QED BY <1>1, SlotOfIsSlot DEF Turn, SlotOf

(* What a start of iRacing leaves in the buffers. *)
LEMMA Started ==
    ASSUME Types, SimStarts
    PROVE  /\ sim'.up = TRUE /\ sim'.starts = sim.starts + 1
           /\ sim'.tick = sim.tick + NumBuf /\ sim'.writing = sim.writing
           /\ sim' \in SimStates
           /\ \A s \in Slots :
                \E t \in sim.tick+1..sim.tick+NumBuf :
                    SlotOf(t) = s /\ buffers'[s] = Held(sim.starts + 1, t)
           /\ buffers' \in [Slots -> [tick : Nat, early : Cells, late : Cells]]
<1> DEFINE start == sim.starts + 1
           ticks == sim.tick+1..sim.tick+NumBuf
           last(s) == CHOOSE t \in ticks : t % NumBuf = s
<1>1. PICK groups \in Published : sim' = [sim EXCEPT !.up = TRUE, !.starts = @ + 1,
                                          !.published = groups, !.tick = @ + NumBuf]
    BY DEF SimStarts
<1>2. buffers' = [s \in Slots |-> Held(start, last(s))]
    BY DEF SimStarts
<1>3. sim \in SimStates /\ sim.tick \in Nat /\ sim.starts \in Nat
    BY DEF Types, SimStates
<1>4. /\ sim'.up = TRUE /\ sim'.starts = start
      /\ sim'.tick = sim.tick + NumBuf /\ sim'.writing = sim.writing
      /\ sim' \in SimStates
    <2>1. sim' = [up |-> TRUE, starts |-> start, published |-> groups,
                  tick |-> sim.tick + NumBuf, writing |-> sim.writing]
        BY <1>1, <1>3 DEF SimStates
    <2>2. /\ start \in Nat /\ groups \in SUBSET Groups /\ sim.tick + NumBuf \in Nat
          /\ sim.writing \in 0..2
        BY <1>3, Buffers, PublishedAssumption DEF Groups, SimStates
    <2> QED BY <2>1, <2>2 DEF SimStates
<1>5. \A s \in Slots : last(s) \in ticks /\ SlotOf(last(s)) = s
    <2>1. \A s \in Slots : \E t \in ticks : t % NumBuf = s
        BY <1>3, EveryTurnComes DEF SlotOf
    <2> QED BY <2>1 DEF SlotOf
<1> HIDE DEF last
<1>6. ASSUME NEW s \in Slots
      PROVE  Held(start, last(s)) \in [tick : Nat, early : Cells, late : Cells]
    <2>1. last(s) \in Nat /\ start \in Nat
        BY <1>3, <1>5, Buffers
    <2>2. Cell(start, last(s)) \in Cells
        BY <2>1 DEF Cell, Cells
    <2> QED BY <2>1, <2>2 DEF Held
<1>7. \A s \in Slots : buffers'[s] = Held(start, last(s))
    BY <1>2
<1> QED BY <1>2, <1>4, <1>5, <1>6, <1>7

(* What the writing of a tick leaves in the buffers. *)
LEMMA Written ==
    ASSUME Types, WriteEarly \/ WriteLate
    PROVE  /\ sim'.up = sim.up /\ sim'.tick = sim.tick /\ sim'.starts = sim.starts
           /\ sim' \in SimStates
           /\ \A s \in Slots : buffers'[s].tick = buffers[s].tick
           /\ \A s \in Slots : s # Turn => buffers'[s] = buffers[s]
           /\ buffers'[Turn].early \in {buffers[Turn].early, Cell(sim.starts, sim.tick + 1)}
           /\ buffers' \in [Slots -> [tick : Nat, early : Cells, late : Cells]]
<1>1. Turn \in Slots /\ sim.starts \in Nat /\ sim.tick \in Nat
    BY TurnIsSlot DEF Types, SimStates
<1>2. Cell(sim.starts, sim.tick + 1) \in Cells
    BY <1>1 DEF Cell, Cells
<1>3. /\ sim'.up = sim.up /\ sim'.tick = sim.tick /\ sim'.starts = sim.starts
      /\ sim' \in SimStates
    BY DEF WriteEarly, WriteLate, Types, SimStates
<1>4. CASE WriteEarly
    <2>1. buffers' = [buffers EXCEPT ![Turn].early = Cell(sim.starts, sim.tick + 1)]
        BY <1>4 DEF WriteEarly
    <2> QED BY <1>1, <1>2, <1>3, <2>1 DEF Types
<1>5. CASE WriteLate
    <2>1. buffers' = [buffers EXCEPT ![Turn].late = Cell(sim.starts, sim.tick + 1)]
        BY <1>5 DEF WriteLate
    <2> QED BY <1>1, <1>2, <1>3, <2>1 DEF Types
<1> QED BY <1>4, <1>5

LEMMA Announced ==
    ASSUME Types, Announce
    PROVE  /\ sim'.up = sim.up /\ sim'.tick = sim.tick + 1 /\ sim'.starts = sim.starts
           /\ sim'.writing = 0 /\ sim' \in SimStates
           /\ buffers'[Turn].tick = sim.tick + 1
           /\ \A s \in Slots : /\ buffers'[s].early = buffers[s].early
                               /\ buffers'[s].late = buffers[s].late
                               /\ s # Turn => buffers'[s] = buffers[s]
           /\ buffers' \in [Slots -> [tick : Nat, early : Cells, late : Cells]]
<1>1. Turn \in Slots /\ sim.tick \in Nat
    BY TurnIsSlot DEF Types, SimStates
<1>2. /\ sim'.up = sim.up /\ sim'.tick = sim.tick + 1 /\ sim'.starts = sim.starts
      /\ sim'.writing = 0
    BY DEF Announce, Types, SimStates
<1>3. sim' \in SimStates
    <2>1. sim' = [up |-> sim.up, starts |-> sim.starts, published |-> sim.published,
                  tick |-> sim.tick + 1, writing |-> 0]
        BY DEF Announce, Types, SimStates
    <2>2. sim.tick + 1 \in Nat
        BY <1>1
    <2> QED BY <2>1, <2>2 DEF Types, SimStates
<1>4. buffers' = [buffers EXCEPT ![Turn].tick = sim.tick + 1]
    BY DEF Announce
<1> QED BY <1>1, <1>2, <1>3, <1>4 DEF Types

LEMMA Ended ==
    ASSUME Types, SimEnds
    PROVE  /\ sim'.up = FALSE /\ sim'.writing = 0 /\ sim'.tick = sim.tick
           /\ sim'.starts = sim.starts /\ sim' \in SimStates
<1>1. sim' = [sim EXCEPT !.up = FALSE, !.writing = 0]
    BY DEF SimEnds
<1>2. sim' = [up |-> FALSE, starts |-> sim.starts, published |-> sim.published,
              tick |-> sim.tick, writing |-> 0]
    BY <1>1 DEF Types, SimStates
<1> QED BY <1>2 DEF Types, SimStates
-----------------------------------------------------------------------------
Waiting == Connect \/ Stop \/ Dropped \/ Look \/ Woken \/ TimedOut \/ CtrlC

\* Steps that leave iRacing and its buffers alone.
Kept == Waiting \/ ReadHeader \/ CopyEarly \/ CopyLate
LEMMA MemoryIsKept == Kept => UNCHANGED <<sim, buffers>>
BY DEF Kept, Waiting, Connect, Stop, Dropped, Look, Woken, TimedOut, CtrlC, ReadHeader,
       CopyEarly, CopyLate

LEMMA NextIsOf ==
    Next <=> SimStarts \/ SimEnds \/ WriteEarly \/ WriteLate \/ Announce \/ Kept
BY DEF Next, Sim, Read, Kept, Waiting

LEMMA TypesNext ==
    ASSUME Types, Next
    PROVE  Types'
<1>1. noticed' \in BOOLEAN
    BY NextIsOf DEF Types, SimStarts, SimEnds, WriteEarly, WriteLate, Announce, Kept, Waiting,
        Connect, Stop, Dropped, Look, Woken, TimedOut, CtrlC, ReadHeader, CopyEarly, CopyLate
<1>2. sim' \in SimStates /\ buffers' \in [Slots -> [tick : Nat, early : Cells, late : Cells]]
    <2>1. CASE SimStarts
        BY <2>1, Started
    <2>2. CASE SimEnds
        BY <2>2, Ended DEF SimEnds, Types
    <2>3. CASE WriteEarly \/ WriteLate
        BY <2>3, Written
    <2>4. CASE Announce
        BY <2>4, Announced
    <2>5. CASE Kept
        BY <2>5, MemoryIsKept DEF Types
    <2> QED BY <2>1, <2>2, <2>3, <2>4, <2>5, NextIsOf
<1>3. picked' \in [slot : Slots, tick : Nat, early : Cells]
    <2>1. CASE ReadHeader
        <3>1. PICK s \in Slots :
                picked' = [slot |-> s, tick |-> buffers[s].tick, early |-> Cell(0, 0)]
            BY <2>1 DEF ReadHeader
        <3>2. buffers[s].tick \in Nat /\ Cell(0, 0) \in Cells
            BY DEF Types, Cell, Cells
        <3> QED BY <3>1, <3>2
    <2>2. CASE CopyEarly
        <3>1. picked' = [picked EXCEPT !.early = buffers[picked.slot].early]
            BY <2>2 DEF CopyEarly
        <3> QED BY <3>1 DEF Types
    <2>3. CASE CopyLate
        <3>1. 0 \in Slots /\ Cell(0, 0) \in Cells
            BY Buffers DEF Cell, Cells
        <3> QED BY <2>3, <3>1 DEF CopyLate, NothingPicked
    <2>4. CASE SimStarts \/ SimEnds \/ WriteEarly \/ WriteLate \/ Announce \/ Waiting
        BY <2>4 DEF Types, SimStarts, SimEnds, WriteEarly, WriteLate, Announce, Waiting,
            Connect, Stop, Dropped, Look, Woken, TimedOut, CtrlC, readerVars
    <2> QED BY <2>1, <2>2, <2>3, <2>4, NextIsOf DEF Kept
<1> QED BY <1>1, <1>2, <1>3 DEF Types

(* Who is attached to what: no bound on the ticks that pass during a copy is needed. *)
LEMMA AttachedNext ==
    ASSUME Types, Attached, Next
    PROVE  Attached'
<1>1. CASE SimStarts
    <2>1. Detached /\ UNCHANGED <<pc, noticed, index>>
        BY <1>1 DEF SimStarts, Attached, readerVars
    <2>2. sim'.up = TRUE /\ sim'.starts = sim.starts + 1 /\ sim.starts \in Nat
        BY <1>1, Started DEF Types, SimStates
    <2> QED BY <2>1, <2>2 DEF Attached, Detached
<1>2. CASE SimEnds
    <2>1. noticed' = FALSE /\ UNCHANGED <<pc, index>> /\ sim'.up = FALSE /\ sim'.starts = sim.starts
        BY <1>2, Ended DEF SimEnds, readerVars
    <2> QED BY <2>1 DEF Attached, Detached
<1>3. CASE WriteEarly \/ WriteLate \/ Announce
    <2>1. sim'.up = sim.up /\ sim'.starts = sim.starts /\ UNCHANGED <<pc, index, noticed>>
        BY <1>3, Written, Announced DEF WriteEarly, WriteLate, Announce, readerVars
    <2> QED BY <2>1 DEF Attached, Detached
<1>4. CASE Kept
    <2>1. UNCHANGED sim
        BY <1>4, MemoryIsKept
    <2>2. CASE Connect
        BY <2>1, <2>2 DEF Connect, StillConnected, Attached, Detached
    <2>3. CASE Stop \/ Dropped
        BY <2>1, <2>3 DEF Stop, Dropped, Attached, Detached
    <2>4. CASE Look
        BY <2>1, <2>4 DEF Look, StillConnected, Attached, Detached
    <2>5. CASE Woken \/ TimedOut \/ ReadHeader \/ CopyEarly \/ CopyLate
        BY <2>1, <2>5 DEF Woken, TimedOut, ReadHeader, CopyEarly, CopyLate, Attached, Detached
    <2>6. CASE CtrlC
        BY <2>1, <2>6 DEF CtrlC, readerVars, Attached, Detached
    <2> QED BY <1>4, <2>2, <2>3, <2>4, <2>5, <2>6 DEF Kept, Waiting
<1> QED BY <1>1, <1>2, <1>3, <1>4, NextIsOf

LEMMA OfThisStartNext ==
    ASSUME Base, Next
    PROVE  OfThisStart' /\ IndexCurrent'
<1>1. Types /\ Attached /\ OfThisStart /\ IndexCurrent
    BY DEF Base
<1>2. CASE SimStarts
    <2>1. Detached /\ UNCHANGED <<pc, frame>> /\ sim'.starts = sim.starts + 1
        BY <1>1, <1>2, Started DEF SimStarts, Attached, readerVars
    <2>2. \A s \in Slots : buffers'[s].early.start = sim.starts + 1
        BY <1>1, <1>2, Started DEF Held, Cell
    <2> QED BY <1>1, <2>1, <2>2 DEF OfThisStart, Detached, IndexCurrent
<1>3. CASE SimEnds
    <2>1. UNCHANGED <<pc, buffers, picked, frame>> /\ sim'.starts = sim.starts
        BY <1>1, <1>3, Ended DEF SimEnds, readerVars
    <2> QED BY <1>1, <2>1 DEF OfThisStart, IndexCurrent
<1>4. CASE WriteEarly \/ WriteLate \/ Announce
    <2>1. UNCHANGED <<pc, picked, frame>> /\ sim'.starts = sim.starts
        BY <1>1, <1>4, Written, Announced DEF WriteEarly, WriteLate, Announce, readerVars
    <2>2. ASSUME NEW s \in Slots
          PROVE  buffers'[s].early \in {buffers[s].early, Cell(sim.starts, sim.tick + 1)}
        BY <1>1, <1>4, Written, Announced
    <2>3. Cell(sim.starts, sim.tick + 1).start = sim.starts
        BY DEF Cell
    <2> QED BY <1>1, <2>1, <2>2, <2>3 DEF OfThisStart, IndexCurrent
<1>5. CASE Kept
    <2>1. UNCHANGED <<sim, buffers>>
        BY <1>5, MemoryIsKept
    <2>2. CASE Waiting
        <3>1. UNCHANGED <<picked, frame>> /\ (pc' = "late" => pc = "late")
            BY <2>2 DEF Waiting, Connect, Stop, Dropped, Look, Woken, TimedOut, CtrlC, readerVars
        <3> QED BY <1>1, <2>1, <3>1 DEF OfThisStart, IndexCurrent
    <2>3. CASE ReadHeader
        BY <1>1, <2>1, <2>3 DEF ReadHeader, OfThisStart, IndexCurrent
    <2>4. CASE CopyEarly
        <3>1. pc = "early" /\ UNCHANGED frame
              /\ picked' = [picked EXCEPT !.early = buffers[picked.slot].early]
            BY <2>4 DEF CopyEarly
        <3>2. picked'.early = buffers[picked.slot].early /\ picked.slot \in Slots
            BY <1>1, <3>1 DEF Types
        <3>3. picked'.early.start = sim.starts
            BY <1>1, <3>1, <3>2 DEF OfThisStart, Attached, Detached
        <3> QED BY <1>1, <2>1, <3>1, <3>3 DEF OfThisStart, IndexCurrent
    <2>5. CASE CopyLate
        <3>1. /\ pc = "late" /\ pc' = "loop"
              /\ frame'.early = picked.early /\ frame'.index = index
            BY <2>5 DEF CopyLate
        <3>2. frame'.early.start = frame'.index.start
            BY <1>1, <3>1 DEF OfThisStart, Attached, Detached
        <3> QED BY <1>1, <2>1, <3>1, <3>2 DEF OfThisStart, IndexCurrent
    <2> QED BY <1>5, <2>2, <2>3, <2>4, <2>5 DEF Kept
<1> QED BY <1>2, <1>3, <1>4, <1>5, NextIsOf

LEMMA BaseInit == Init => Base
<1> SUFFICES ASSUME Init PROVE Base
    OBVIOUS
<1>1. Types
    BY Buffers DEF Init, Types, SimStates, Groups, Held, Cell, Cells, NothingPicked
<1>2. Attached /\ OfThisStart /\ IndexCurrent
    BY DEF Init, Attached, Detached, OfThisStart, IndexCurrent, NoFrame, Cell
<1> QED BY <1>1, <1>2 DEF Base

LEMMA BaseNext == Base /\ [Next]_vars => Base'
<1>1. ASSUME Base, Next PROVE Base'
    BY <1>1, TypesNext, AttachedNext, OfThisStartNext DEF Base
<1>2. ASSUME Base, UNCHANGED vars PROVE Base'
    BY <1>2 DEF vars, readerVars, Base, Types, Attached, Detached, OfThisStart, IndexCurrent
<1> QED BY <1>1, <1>2
-----------------------------------------------------------------------------
(* The buffer that is copied is whole: it is not the next one to be written. *)
LEMMA CopiedIsWhole ==
    ASSUME IInv, Copying, MaxLag + 2 <= NumBuf
    PROVE  picked.slot \in Slots /\ picked.slot # Turn /\ OneTick(picked.slot)
<1>1. Types /\ Attached /\ BuffersInv /\ CopyInv
    BY DEF IInv, Base, Rest
<1>2. /\ buffers[picked.slot].tick = picked.tick /\ picked.slot \in Slots
      /\ picked.tick \in Nat /\ sim.tick \in Nat
      /\ picked.tick <= sim.tick /\ sim.tick <= picked.tick + MaxLag
      /\ sim.starts > 0
    BY <1>1 DEF CopyInv, Attached, Detached, Types, SimStates, Copying
<1>3. SlotOf(picked.tick) = picked.slot
    BY <1>1, <1>2 DEF BuffersInv, Newest
<1>4. picked.tick < sim.tick + 1 /\ sim.tick + 1 < picked.tick + NumBuf
    BY <1>2, Buffers
<1>5. SlotOf(picked.tick) # SlotOf(sim.tick + 1)
    BY <1>2, <1>4, NearTicksDiffer
<1>6. picked.slot # Turn
    BY <1>3, <1>5 DEF Turn, SlotOf
<1> QED BY <1>1, <1>2, <1>6 DEF BuffersInv

LEMMA LatestIsNewest ==
    ASSUME Types, BuffersInv, sim.starts > 0, NEW s \in Slots, LatestBuf(s)
    PROVE  buffers[s].tick = sim.tick
<1> DEFINE last == SlotOf(sim.tick)
<1>1. sim.tick \in Nat /\ \A o \in Slots : buffers[o].tick \in Nat
    BY DEF Types, SimStates
<1>2. last \in Slots
    BY <1>1, SlotOfIsSlot
<1>3. Newest(last) /\ Newest(s)
    BY <1>2 DEF BuffersInv
<1>4. buffers[last].tick = sim.tick
    <2>1. SUFFICES ASSUME buffers[last].tick < sim.tick PROVE FALSE
        BY <1>1, <1>2, <1>3 DEF Newest
    <2>2. SlotOf(buffers[last].tick) # SlotOf(sim.tick)
        BY <1>1, <1>2, <1>3, <2>1, NearTicksDiffer DEF Newest
    <2> QED BY <1>3, <2>2 DEF Newest
<1>5. buffers[last].tick <= buffers[s].tick
    BY <1>1, <1>2 DEF LatestBuf
<1> QED BY <1>1, <1>3, <1>4, <1>5 DEF Newest
-----------------------------------------------------------------------------
LEMMA StartStep ==
    ASSUME IInv, SimStarts
    PROVE  Rest'
<1>1. Types /\ Attached /\ WritingInv /\ CopyInv /\ FrameWhole
    BY DEF IInv, Base, Rest
<1>2. Detached /\ ~sim.up /\ UNCHANGED <<pc, picked, frame>>
    BY <1>1 DEF SimStarts, Attached, readerVars
<1>3. /\ sim'.up = TRUE /\ sim'.starts = sim.starts + 1 /\ sim'.writing = 0
      /\ sim'.tick = sim.tick + NumBuf /\ sim.tick \in Nat /\ sim.starts \in Nat
    BY <1>1, <1>2, Started DEF WritingInv, Types, SimStates
<1>4. ASSUME NEW s \in Slots
      PROVE  Newest(s)' /\ OneTick(s)'
    <2>1. PICK t \in sim.tick+1..sim.tick+NumBuf :
            SlotOf(t) = s /\ buffers'[s] = Held(sim.starts + 1, t)
        BY <1>1, Started
    <2>2. /\ buffers'[s].tick = t /\ buffers'[s].early = Cell(sim.starts + 1, t)
          /\ buffers'[s].late = Cell(sim.starts + 1, t)
        BY <2>1 DEF Held
    <2>3. t <= sim'.tick /\ sim'.tick < t + NumBuf
        BY <1>3, <2>1, Buffers
    <2> QED BY <2>1, <2>2, <2>3 DEF Newest, OneTick, Cell
<1>5. BuffersInv' /\ WritingInv'
    BY <1>3, <1>4 DEF BuffersInv, WritingInv
<1>6. CopyInv' /\ FrameWhole'
    BY <1>1, <1>2 DEF Detached, CopyInv, Copying, FrameWhole
<1> QED BY <1>5, <1>6 DEF Rest

LEMMA EndStep ==
    ASSUME IInv, SimEnds
    PROVE  Rest'
<1>1. Types /\ BuffersInv /\ WritingInv /\ CopyInv /\ FrameWhole
    BY DEF IInv, Base, Rest
<1>2. UNCHANGED <<buffers, pc, picked, frame>>
    BY DEF SimEnds, readerVars
<1>3. /\ sim'.up = FALSE /\ sim'.writing = 0 /\ sim'.tick = sim.tick
      /\ sim'.starts = sim.starts
    BY <1>1, Ended
<1>4. Turn' = Turn
    BY <1>3 DEF Turn
<1>5. WritingInv'
    BY <1>3 DEF WritingInv
<1>6. BuffersInv'
    BY <1>1, <1>2, <1>3, <1>4 DEF BuffersInv, Newest, OneTick
<1>7. CopyInv' /\ FrameWhole'
    BY <1>1, <1>2, <1>3 DEF CopyInv, Copying, FrameWhole
<1> QED BY <1>5, <1>6, <1>7 DEF Rest

(* A half of a tick is written into the next buffer, which nobody copies. *)
LEMMA WriteStep ==
    ASSUME IInv, MaxLag + 2 <= NumBuf, WriteEarly \/ WriteLate
    PROVE  Rest'
<1> DEFINE new == Cell(sim.starts, sim.tick + 1)
<1>1. Types /\ BuffersInv /\ WritingInv /\ CopyInv /\ FrameWhole
    BY DEF IInv, Base, Rest
<1>2. UNCHANGED <<pc, picked, frame>> /\ sim.up
    BY DEF WriteEarly, WriteLate, readerVars
<1>3. Turn \in Slots
    BY <1>1, TurnIsSlot
<1>4. /\ sim'.up = sim.up /\ sim'.tick = sim.tick /\ sim'.starts = sim.starts
      /\ \A s \in Slots : buffers'[s].tick = buffers[s].tick
      /\ \A s \in Slots : s # Turn => buffers'[s] = buffers[s]
    BY <1>1, Written
<1>5. Turn' = Turn
    BY <1>4 DEF Turn
<1>6. WritingInv'
    <2>1. CASE WriteEarly
        <3>1. sim'.writing = 1 /\ buffers'[Turn].early = new
            BY <1>1, <1>3, <2>1 DEF WriteEarly, Types, SimStates
        <3> QED BY <1>2, <1>4, <1>5, <3>1 DEF WritingInv
    <2>2. CASE WriteLate
        <3>1. /\ sim'.writing = 2 /\ sim.writing = 1 /\ buffers'[Turn].late = new
              /\ buffers'[Turn].early = buffers[Turn].early
            BY <1>1, <1>3, <2>2 DEF WriteLate, Types, SimStates
        <3> QED BY <1>1, <1>2, <1>4, <1>5, <3>1 DEF WritingInv
    <2> QED BY <2>1, <2>2
<1>7. BuffersInv'
    BY <1>1, <1>4, <1>5 DEF BuffersInv, Newest, OneTick
<1>8. Copying => picked.slot # Turn /\ picked.slot \in Slots
    BY CopiedIsWhole
<1>9. CopyInv' /\ FrameWhole'
    BY <1>1, <1>2, <1>4, <1>8 DEF CopyInv, Copying, FrameWhole
<1> QED BY <1>6, <1>7, <1>9 DEF Rest

LEMMA AnnounceStep ==
    ASSUME IInv, MaxLag + 2 <= NumBuf, Announce
    PROVE  Rest'
<1> DEFINE new == Cell(sim.starts, sim.tick + 1)
<1>1. Types /\ Attached /\ BuffersInv /\ WritingInv /\ CopyInv /\ FrameWhole
    BY DEF IInv, Base, Rest
<1>2. /\ sim.up /\ sim.writing = 2 /\ sim.starts > 0
      /\ UNCHANGED <<pc, picked, frame>>
      /\ Copying => sim.tick < picked.tick + MaxLag
    BY <1>1 DEF Announce, readerVars, Attached
<1>3. Turn \in Slots /\ sim.tick \in Nat /\ picked.tick \in Nat
    BY <1>1, TurnIsSlot DEF Types, SimStates
<1>4. /\ sim'.up = sim.up /\ sim'.tick = sim.tick + 1 /\ sim'.starts = sim.starts
      /\ sim'.writing = 0 /\ buffers'[Turn].tick = sim.tick + 1
      /\ \A s \in Slots : s # Turn => buffers'[s] = buffers[s]
    BY <1>1, Announced
<1>5. buffers'[Turn].early = new /\ buffers'[Turn].late = new
    BY <1>1, <1>2, <1>3, Announced DEF WritingInv
<1>6. ASSUME NEW s \in Slots PROVE Newest(s)'
    <2>1. CASE s = Turn
        BY <1>3, <1>4, <2>1, Buffers DEF Newest, Turn, SlotOf
    <2>2. CASE s # Turn
        <3>1. Newest(s) /\ buffers[s].tick \in Nat /\ buffers'[s] = buffers[s]
            BY <1>1, <1>2, <1>4, <2>2 DEF BuffersInv, Types
        <3>2. buffers[s].tick + NumBuf # sim.tick + 1
            <4>1. SlotOf(buffers[s].tick + NumBuf) = s
                BY <3>1, NextTurn DEF Newest
            <4>2. SlotOf(sim.tick + 1) # s
                BY <2>2 DEF Turn, SlotOf
            <4> QED BY <4>1, <4>2
        <3>3. /\ SlotOf(buffers[s].tick) = s
              /\ buffers[s].tick <= sim.tick + 1
              /\ sim.tick + 1 < buffers[s].tick + NumBuf
            BY <1>3, <3>1, <3>2, Buffers DEF Newest
        <3> QED BY <1>4, <3>1, <3>3 DEF Newest
    <2> QED BY <2>1, <2>2
<1>7. ASSUME NEW s \in Slots PROVE OneTick(s)'
    <2>1. CASE s = Turn
        BY <1>4, <1>5, <2>1 DEF OneTick, Cell
    <2>2. CASE s # Turn
        BY <1>1, <1>2, <1>4, <2>2 DEF BuffersInv, OneTick
    <2> QED BY <2>1, <2>2
<1>8. WritingInv' /\ BuffersInv'
    BY <1>2, <1>4, <1>6, <1>7 DEF WritingInv, BuffersInv
<1>9. Copying => picked.slot # Turn /\ picked.slot \in Slots
    BY CopiedIsWhole
<1>10. Copying' = Copying /\ FrameWhole'
    BY <1>1, <1>2 DEF Copying, FrameWhole
<1>11. Copying => /\ buffers'[picked.slot] = buffers[picked.slot]
                  /\ picked.tick <= sim.tick + 1
                  /\ sim.tick + 1 <= picked.tick + MaxLag
    BY <1>1, <1>2, <1>3, <1>4, <1>9, Buffers DEF CopyInv
<1>12. CopyInv'
    BY <1>1, <1>2, <1>4, <1>10, <1>11 DEF CopyInv, Copying
<1> QED BY <1>8, <1>10, <1>12 DEF Rest
-----------------------------------------------------------------------------
\* Steps of the pipeline thread leave the memory as it is.
LEMMA MemoryStays ==
    ASSUME Rest, UNCHANGED <<sim, buffers>>
    PROVE  BuffersInv' /\ WritingInv'
<1>1. Turn' = Turn
    BY DEF Turn
<1> QED BY <1>1 DEF Rest, BuffersInv, Newest, OneTick, WritingInv

LEMMA WaitingStep ==
    ASSUME IInv, Waiting
    PROVE  Rest'
<1>1. UNCHANGED <<sim, buffers>>
    BY MemoryIsKept DEF Kept
<1>2. UNCHANGED <<picked, frame>> /\ (Copying' => Copying /\ pc' = pc)
    BY DEF Waiting, Connect, Stop, Dropped, Look, Woken, TimedOut, CtrlC, readerVars, Copying
<1>3. BuffersInv' /\ WritingInv'
    BY <1>1, MemoryStays DEF IInv
<1>4. CopyInv' /\ FrameWhole'
    BY <1>1, <1>2 DEF IInv, Rest, CopyInv, Copying, FrameWhole
<1> QED BY <1>3, <1>4 DEF Rest

LEMMA HeaderStep ==
    ASSUME IInv, ReadHeader
    PROVE  Rest'
<1>1. PICK s \in Slots : LatestBuf(s)
          /\ picked' = [slot |-> s, tick |-> buffers[s].tick, early |-> Cell(0, 0)]
    BY DEF ReadHeader
<1>2. pc = "read" /\ pc' = "early" /\ UNCHANGED <<sim, buffers, frame>>
    BY DEF ReadHeader
<1>3. Types /\ Attached /\ BuffersInv /\ FrameWhole
    BY DEF IInv, Base, Rest
<1>4. sim.starts > 0
    BY <1>2, <1>3 DEF Attached, Detached
<1>5. buffers[s].tick = sim.tick /\ sim.tick \in Nat
    BY <1>1, <1>3, <1>4, LatestIsNewest DEF Types, SimStates
<1>6. BuffersInv' /\ WritingInv'
    BY <1>2, MemoryStays DEF IInv
<1>7. CopyInv' /\ FrameWhole'
    BY <1>1, <1>2, <1>3, <1>5, Buffers DEF CopyInv, Copying, FrameWhole
<1> QED BY <1>6, <1>7 DEF Rest

LEMMA CopyStep ==
    ASSUME IInv, MaxLag + 2 <= NumBuf, CopyEarly \/ CopyLate
    PROVE  Rest'
<1>1. Copying /\ UNCHANGED <<sim, buffers>>
    BY DEF CopyEarly, CopyLate, Copying
<1>2. BuffersInv' /\ WritingInv'
    BY <1>1, MemoryStays DEF IInv
<1>3. Types /\ CopyInv /\ FrameWhole /\ OneTick(picked.slot)
    BY <1>1, CopiedIsWhole DEF IInv, Base, Rest
<1>4. CASE CopyEarly
    <2>1. /\ pc = "early" /\ pc' = "late" /\ frame' = frame
          /\ picked' = [picked EXCEPT !.early = buffers[picked.slot].early]
        BY <1>4 DEF CopyEarly
    <2>2. /\ picked'.slot = picked.slot /\ picked'.tick = picked.tick
          /\ picked'.early = buffers[picked.slot].early
        BY <1>3, <2>1 DEF Types
    <2>3. CopyInv' /\ FrameWhole'
        BY <1>1, <1>3, <2>1, <2>2 DEF CopyInv, Copying, FrameWhole
    <2> QED BY <1>2, <2>3 DEF Rest
<1>5. CASE CopyLate
    <2>1. /\ pc = "late" /\ pc' = "loop"
          /\ frame' = [tick |-> picked.tick, early |-> picked.early,
                       late |-> buffers[picked.slot].late, index |-> index]
        BY <1>5 DEF CopyLate
    <2>2. /\ picked.early = buffers[picked.slot].early
          /\ buffers[picked.slot].tick = picked.tick
        BY <1>1, <1>3, <2>1 DEF CopyInv
    <2>3. FrameWhole'
        BY <1>3, <2>1, <2>2 DEF FrameWhole, OneTick
    <2>4. CopyInv'
        BY <2>1 DEF CopyInv, Copying
    <2> QED BY <1>2, <2>3, <2>4 DEF Rest
<1> QED BY <1>4, <1>5

LEMMA InitIInv == Init => IInv
<1> SUFFICES ASSUME Init PROVE IInv
    OBVIOUS
<1>1. /\ sim.starts = 0 /\ sim.writing = 0
      /\ pc = "connect" /\ frame.early = frame.late /\ frame.early.tick = frame.tick
    BY DEF Init, NoFrame, Cell
<1>2. Rest
    BY <1>1 DEF Rest, BuffersInv, WritingInv, CopyInv, Copying, FrameWhole
<1> QED BY <1>2, BaseInit DEF IInv

LEMMA IInvNext ==
    ASSUME MaxLag + 2 <= NumBuf
    PROVE  IInv /\ [Next]_vars => IInv'
<1> SUFFICES ASSUME IInv, [Next]_vars PROVE IInv'
    OBVIOUS
<1>1. Base'
    BY BaseNext DEF IInv
<1>2. ASSUME Next PROVE Rest'
    <2>1. CASE SimStarts
        BY <2>1, StartStep
    <2>2. CASE SimEnds
        BY <2>2, EndStep
    <2>3. CASE WriteEarly \/ WriteLate
        BY <2>3, WriteStep
    <2>4. CASE Announce
        BY <2>4, AnnounceStep
    <2>5. CASE Waiting
        BY <2>5, WaitingStep
    <2>6. CASE ReadHeader
        BY <2>6, HeaderStep
    <2>7. CASE CopyEarly \/ CopyLate
        BY <2>7, CopyStep
    <2> QED BY <1>2, <2>1, <2>2, <2>3, <2>4, <2>5, <2>6, <2>7, NextIsOf DEF Kept
<1>3. CASE UNCHANGED vars
    <2>1. UNCHANGED <<sim, buffers, pc, picked, frame>>
        BY <1>3 DEF vars, readerVars
    <2>2. BuffersInv' /\ WritingInv'
        BY <2>1, MemoryStays DEF IInv
    <2>3. CopyInv' /\ FrameWhole'
        BY <2>1 DEF IInv, Rest, CopyInv, Copying, FrameWhole
    <2> QED BY <1>1, <2>2, <2>3 DEF IInv, Rest
<1> QED BY <1>1, <1>2, <1>3 DEF IInv
-----------------------------------------------------------------------------
(* The publisher as a process reads as the reader alone does: what its threads do with *)
(* the status file, and when they end, adds no step to the reader.                     *)
THEOREM HostReads == SpecHost => Init /\ [][Next]_vars
<1>1. InitHost => Init
    BY DEF InitHost
<1>2. [NextHost]_hostVars => [Next]_vars
    BY DEF NextHost, Pipeline, Thread, Main, Failing, hostVars
<1> QED BY <1>1, <1>2, PTL DEF SpecHost

(* A frame is of one tick, the one its header promised, however many buffers there are, *)
(* as long as iRacing completes at most NumBuf - 2 ticks while the frame is copied.     *)
THEOREM FramesAreWhole ==
    ASSUME MaxLag + 2 <= NumBuf
    PROVE  SpecHost => []FrameWhole
<1>1. IInv => FrameWhole
    BY DEF IInv, Rest
<1> QED BY <1>1, InitIInv, IInvNext, HostReads, PTL

(* A frame is decoded with the variable index of the start of iRacing that wrote it,    *)
(* whatever iRacing publishes, however often it starts and however far it gets during a *)
(* copy: a torn frame, too, is of one start.                                            *)
THEOREM IndexIsCurrent == SpecHost => []IndexCurrent
<1>1. Base => IndexCurrent
    BY DEF Base
<1> QED BY <1>1, BaseInit, BaseNext, HostReads, PTL
-----------------------------------------------------------------------------
\* While the pipeline runs, only the status thread writes, to what has the temporary
\* name; what has the final name has another file, and the text of a running publisher.
Running == Whole \ {"stopped"}
OnDisk(f) == f \in Files /\ content[f] \in Running
StatusTypes ==
    /\ text = [w \in Writers |-> text[w]]
    /\ open = [w \in Writers |-> open[w]]
    /\ content = [f \in Files |-> content[f]]
    /\ name \in [{"tmp", "path"} -> Files \cup {None}]
Filing ==
    /\ open["main"] = None
    /\ at["thread"] # "write" => open["thread"] = None
    /\ at["thread"] \in {"create", "write"} => text["thread"] \in Running
    /\ at["thread"] = "write" =>
        open["thread"] = name["tmp"] /\ name["tmp"] \in Files /\ content[name["tmp"]] = "empty"
    /\ at["thread"] = "rename" => OnDisk(name["tmp"])
    /\ name["path"] # None => name["path"] # name["tmp"] /\ OnDisk(name["path"])
FilesInv ==
    /\ at = [w \in Writers |-> at[w]]
    /\ at["main"] = "join" => StatusTypes /\ Filing

LEMMA FilesInit == InitHost => FilesInv
BY DEF InitHost, FilesInv, StatusTypes, Filing, Writers, Files, None

\* A new file is not the one under the final name.
LEMMA NewFile ==
    ASSUME StatusTypes, Filing, at["thread"] # "write", name["tmp"] = None
    PROVE  (CHOOSE f \in Unused : TRUE) \in Unused /\ Unused \subseteq Files \ {name["path"]}
<1>1. open["thread"] = None /\ open["main"] = None
    BY DEF Filing
<1>2. name["path"] # 1 \/ name["path"] # 2
    OBVIOUS
<1>3. 1 \in Unused \/ 2 \in Unused
    BY <1>1, <1>2 DEF Unused, Files, Writers, None
<1> QED BY <1>3 DEF Unused

(* A step of the status thread while the main thread waits. *)
LEMMA ThreadStep ==
    ASSUME FilesInv, at["main"] = "join",
           ThreadSnapshot \/ ThreadEnds \/ Step("thread") \/ Fail("thread")
    PROVE  at' = [w \in Writers |-> at'[w]] /\ at'["main"] = "join" /\ StatusTypes' /\ Filing'
<1>1. StatusTypes /\ Filing /\ at = [w \in Writers |-> at[w]]
    BY DEF FilesInv
<1>2. "thread" \in Writers /\ "main" \in Writers /\ None \notin Files
    BY DEF Writers, None, Files
<1>3. /\ at["thread"] \in {"idle", "create", "write", "rename"}
      /\ \E to : at' = [at EXCEPT !["thread"] = to]
    BY DEF ThreadSnapshot, ThreadEnds, Step, Create, Write, Rename, Fail, Snapshot
<1>4. at' = [w \in Writers |-> at'[w]] /\ at'["main"] = "join"
    BY <1>1, <1>2, <1>3
<1>5. CASE ThreadSnapshot
    <2>1. /\ text' = [text EXCEPT !["thread"] = State(FALSE)]
          /\ at' = [at EXCEPT !["thread"] = "create"] /\ at["thread"] = "idle"
          /\ UNCHANGED <<open, name, content>>
        BY <1>5 DEF ThreadSnapshot, Snapshot
    <2>2. State(FALSE) \in Running
        BY DEF State, Running, Whole
    <2>3. text'["thread"] \in Running /\ at'["thread"] = "create"
        BY <1>1, <1>2, <2>1, <2>2 DEF StatusTypes
    <2>4. StatusTypes'
        BY <1>1, <2>1 DEF StatusTypes
    <2>5. Filing'
        BY <1>1, <2>1, <2>3 DEF Filing, OnDisk
    <2> QED BY <1>4, <2>4, <2>5
<1>6. CASE ThreadEnds
    <2>1. /\ at' = [at EXCEPT !["thread"] = "ended"] /\ at["thread"] = "idle"
          /\ UNCHANGED <<text, open, name, content>>
        BY <1>6 DEF ThreadEnds
    <2>2. at'["thread"] = "ended"
        BY <1>1, <1>2, <2>1
    <2> QED BY <1>1, <1>4, <2>1, <2>2 DEF StatusTypes, Filing, OnDisk
<1>7. CASE Create("thread")
    <2> DEFINE file == IF name["tmp"] = None THEN CHOOSE f \in Unused : TRUE ELSE name["tmp"]
    <2>1. /\ open' = [open EXCEPT !["thread"] = file]
          /\ name' = [name EXCEPT !["tmp"] = file]
          /\ content' = [content EXCEPT ![file] = "empty"]
          /\ at' = [at EXCEPT !["thread"] = "write"] /\ at["thread"] = "create"
          /\ text' = text
        BY <1>7 DEF Create, WrittenTo
    <2>2. file \in Files /\ file # name["path"]
        <3>1. CASE name["tmp"] = None
            BY <1>1, <2>1, <3>1, NewFile
        <3>2. CASE name["tmp"] # None
            BY <1>1, <1>2, <3>2 DEF StatusTypes, Filing
        <3> QED BY <3>1, <3>2
    <2> HIDE DEF file
    <2>3. /\ open'["thread"] = file /\ open'["main"] = None /\ name'["tmp"] = file
          /\ name'["path"] = name["path"] /\ content'[file] = "empty"
          /\ at'["thread"] = "write"
          /\ \A f \in Files : f # file => content'[f] = content[f]
        BY <1>1, <1>2, <2>1, <2>2 DEF StatusTypes, Filing
    <2>4. StatusTypes'
        BY <1>1, <2>1, <2>2 DEF StatusTypes
    <2>5. Filing'
        BY <1>1, <2>1, <2>2, <2>3 DEF Filing, OnDisk
    <2> QED BY <1>4, <2>4, <2>5
<1>8. CASE Write("thread")
    <2>1. /\ at["thread"] = "write" /\ at' = [at EXCEPT !["thread"] = "rename"]
          /\ open' = [open EXCEPT !["thread"] = None]
          /\ text' = [text EXCEPT !["thread"] = "none"]
          /\ name' = name
        BY <1>8 DEF Write
    <2>2. open["thread"] = name["tmp"] /\ name["tmp"] \in Files /\ content[name["tmp"]] = "empty"
        BY <1>1, <2>1 DEF Filing
    <2>3. content' = [content EXCEPT ![name["tmp"]] = text["thread"]]
        BY <1>8, <2>2 DEF Write
    <2>4. /\ open'["thread"] = None /\ open'["main"] = None
          /\ at'["thread"] = "rename"
          /\ content'[name["tmp"]] = text["thread"] /\ text["thread"] \in Running
          /\ \A f \in Files : f # name["tmp"] => content'[f] = content[f]
        BY <1>1, <1>2, <2>1, <2>2, <2>3 DEF StatusTypes, Filing
    <2>5. StatusTypes'
        BY <1>1, <2>1, <2>3 DEF StatusTypes
    <2>6. Filing'
        BY <1>1, <2>1, <2>2, <2>4 DEF Filing, OnDisk
    <2> QED BY <1>4, <2>5, <2>6
<1>9. CASE Rename("thread")
    <2>1. /\ at["thread"] = "rename" /\ at' = [at EXCEPT !["thread"] = "idle"]
          /\ UNCHANGED <<text, open, content>>
        BY <1>9 DEF Rename, AfterWrite
    <2>2. OnDisk(name["tmp"])
        BY <1>1, <2>1 DEF Filing
    <2>3. name' = [tmp |-> None, path |-> name["tmp"]]
        BY <1>2, <1>9, <2>2 DEF Rename, OnDisk
    <2>4. name'["tmp"] = None /\ name'["path"] = name["tmp"] /\ at'["thread"] = "idle"
        BY <1>1, <1>2, <2>1, <2>3
    <2>5. StatusTypes'
        BY <1>1, <2>1, <2>2, <2>3 DEF StatusTypes, OnDisk
    <2>6. Filing'
        BY <1>1, <1>2, <2>1, <2>2, <2>4 DEF Filing, OnDisk
    <2> QED BY <1>4, <2>5, <2>6
<1>10. CASE Fail("thread")
    <2>1. /\ content' = IF at["thread"] = "write"
                        THEN [content EXCEPT ![open["thread"]] = "mixed"] ELSE content
          /\ open' = [open EXCEPT !["thread"] = None]
          /\ text' = [text EXCEPT !["thread"] = "none"]
          /\ at' = [at EXCEPT !["thread"] = "idle"]
          /\ name' = name
        BY <1>10 DEF Fail, AfterFailure
    <2>2. /\ open'["thread"] = None /\ open'["main"] = None /\ at'["thread"] = "idle"
        BY <1>1, <1>2, <2>1 DEF StatusTypes, Filing
    <2>3. \A f \in Files : f # name["tmp"] => content'[f] = content[f]
        BY <1>1, <2>1 DEF StatusTypes, Filing
    <2>4. StatusTypes'
        BY <1>1, <2>1 DEF StatusTypes
    <2>5. Filing'
        BY <1>1, <2>1, <2>2, <2>3 DEF Filing, OnDisk
    <2> QED BY <1>4, <2>4, <2>5
<1> QED BY <1>5, <1>6, <1>7, <1>8, <1>9, <1>10 DEF Step

(* The main thread writes when it no longer waits. *)
LEMMA MainStep ==
    ASSUME FilesInv, MainSnapshot \/ Step("main") \/ Fail("main")
    PROVE  at' = [w \in Writers |-> at'[w]] /\ at'["main"] # "join"
<1>1. at = [w \in Writers |-> at[w]] /\ "main" \in Writers
    BY DEF FilesInv, Writers
<1>2. \E to \in {"create", "write", "rename", "exit"} : at' = [at EXCEPT !["main"] = to]
    BY DEF MainSnapshot, Step, Create, Write, Rename, Fail, Snapshot, AfterWrite, AfterFailure
<1> QED BY <1>1, <1>2

LEMMA LaterStep ==
    ASSUME FilesInv, at["main"] # "join",
           ThreadSnapshot \/ ThreadEnds \/ Step("thread") \/ Fail("thread")
    PROVE  at' = [w \in Writers |-> at'[w]] /\ at'["main"] # "join"
<1>1. at = [w \in Writers |-> at[w]] /\ "main" \in Writers
    BY DEF FilesInv, Writers
<1>2. \E to : at' = [at EXCEPT !["thread"] = to]
    BY DEF ThreadSnapshot, ThreadEnds, Step, Create, Write, Rename, Fail, Snapshot
<1> QED BY <1>1, <1>2

LEMMA FilesNext == FilesInv /\ [NextHost]_hostVars => FilesInv'
<1> SUFFICES ASSUME FilesInv, [NextHost]_hostVars PROVE FilesInv'
    OBVIOUS
<1>1. CASE UNCHANGED statusVars
    BY <1>1 DEF statusVars, FilesInv, StatusTypes, Filing, OnDisk
<1>2. CASE ThreadSnapshot \/ ThreadEnds \/ Step("thread") \/ Fail("thread")
    BY <1>2, ThreadStep, LaterStep DEF FilesInv
<1>3. CASE MainSnapshot \/ Step("main") \/ Fail("main")
    BY <1>3, MainStep DEF FilesInv
<1> QED BY <1>1, <1>2, <1>3 DEF NextHost, Pipeline, Thread, Main, Failing, hostVars, Writers

(* Whoever reads status.json while the pipeline runs finds no file, or a whole status of *)
(* a running publisher: whatever step of a write fails, however often, and wherever the  *)
(* thread is when it is read (write_status_atomic, spawn_status_writer).                 *)
THEOREM FileIsWhole == SpecHost => []FileWhole
<1>1. FilesInv => FileWhole
    BY DEF FilesInv, Filing, OnDisk, Running, FileWhole
<1> QED BY <1>1, FilesInit, FilesNext, PTL DEF SpecHost
=============================================================================
