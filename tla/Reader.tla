------------------------------- MODULE Reader -------------------------------
(***************************************************************************)
(* The shared-memory reader (src/irsdk) in the loop of the pipeline thread *)
(* (src/bin/publisher.rs): it connects to iRacing, indexes the variables   *)
(* that are published, waits for the frame event, picks the newest of the  *)
(* telemetry buffers and copies it, all while iRacing (external) goes on   *)
(* writing the other buffers, ends, and starts again with another layout.  *)
(*                                                                         *)
(* A variable is known by its group: those build_frame cannot do without   *)
(* ("core"), those try_connect lets be absent ("metadata"), the session    *)
(* budgets, and those of the driver's own car ("driving").                 *)
(***************************************************************************)
EXTENDS Integers, FiniteSets

CONSTANTS
    NumBuf,      \* telemetry buffers
    Published,   \* the sets of groups that iRacing may publish
    MaxLag,      \* ticks iRacing completes while a frame is being copied
    MaxTick,     \* bound: ticks after those that fill the buffers
    MaxStarts    \* bound: starts of iRacing

ASSUME BuffersAssumption == NumBuf \in Nat \ {0} /\ MaxLag \in Nat
ASSUME PublishedAssumption == Published \subseteq SUBSET {"core", "metadata", "budget", "driving"}
ASSUME BoundsAssumption == MaxTick \in Nat /\ MaxStarts \in Nat

VARIABLES
    sim,         \* iRacing: up, its starts, what it publishes, its tick, the write under way
    noticed,     \* the publisher has looked at the status field since iRacing went
    buffers,     \* tick count and contents of each buffer
    signal,      \* the data-valid event
    running,     \* the flag that Ctrl-C clears
    pc,          \* where the pipeline thread is
    index,       \* var_index of the open reader: its groups and the layout they are of
    picked,      \* the buffer being copied, and what was copied of it so far
    frame        \* the last frame built

readerVars == <<pc, index, picked, frame>>
vars == <<sim, noticed, buffers, signal, running, readerVars>>


\* REQUIRED_VARS; the part of it that try_connect does not insist on.
Wanted == {"core", "metadata", "budget"}
Optional == {"metadata"}
Needed == Wanted \ Optional

Slots == 0..NumBuf-1
Cell(start, tick) == [start |-> start, tick |-> tick]
Held(start, tick) ==
    [tick |-> tick, early |-> Cell(start, tick), late |-> Cell(start, tick)]
NoIndex == [start |-> 0, groups |-> {}]
NothingPicked == [slot |-> 0, tick |-> 0, early |-> Cell(0, 0)]
NoFrame == [tick |-> 0, early |-> Cell(0, 0), late |-> Cell(0, 0), index |-> NoIndex]
-----------------------------------------------------------------------------
Init ==
    /\ sim = [up |-> FALSE, starts |-> 0, published |-> {}, tick |-> 0, writing |-> 0]
    /\ noticed = TRUE
    /\ buffers = [s \in Slots |-> Held(0, 0)]
    /\ signal = FALSE
    /\ running = TRUE
    /\ pc = "connect"
    /\ index = NoIndex
    /\ picked = NothingPicked
    /\ frame = NoFrame
-----------------------------------------------------------------------------
(* iRacing.  It takes long enough to start that the publisher, which looks at  *)
(* the status field at least once a second, has seen it go, and it shows the   *)
(* status bit once every buffer has been written.                              *)

SimStarts ==
    /\ ~sim.up /\ noticed /\ sim.starts < MaxStarts
    /\ \E groups \in Published :
        sim' = [sim EXCEPT !.up = TRUE, !.starts = @ + 1, !.published = groups,
                           !.tick = @ + NumBuf]
    /\ buffers' = [s \in Slots |->
        LET last == CHOOSE t \in sim.tick+1..sim.tick+NumBuf : t % NumBuf = s
        IN  Held(sim.starts + 1, last)]
    /\ UNCHANGED <<noticed, signal, running, readerVars>>

SimEnds ==
    /\ sim.up
    /\ sim' = [sim EXCEPT !.up = FALSE, !.writing = 0]
    /\ noticed' = FALSE
    /\ UNCHANGED <<buffers, signal, running, readerVars>>

Turn == (sim.tick + 1) % NumBuf
LastTick == MaxTick + NumBuf * sim.starts
Copying == pc \in {"early", "late"}

\* A tick is written in two halves, then counted and announced.
WriteEarly ==
    /\ sim.up /\ sim.writing = 0 /\ sim.tick < LastTick
    /\ sim' = [sim EXCEPT !.writing = 1]
    /\ buffers' = [buffers EXCEPT ![Turn].early = Cell(sim.starts, sim.tick + 1)]
    /\ UNCHANGED <<noticed, signal, running, readerVars>>

WriteLate ==
    /\ sim.up /\ sim.writing = 1
    /\ sim' = [sim EXCEPT !.writing = 2]
    /\ buffers' = [buffers EXCEPT ![Turn].late = Cell(sim.starts, sim.tick + 1)]
    /\ UNCHANGED <<noticed, signal, running, readerVars>>

Announce ==
    /\ sim.up /\ sim.writing = 2
    /\ Copying => sim.tick < picked.tick + MaxLag
    /\ sim' = [sim EXCEPT !.writing = 0, !.tick = @ + 1]
    /\ buffers' = [buffers EXCEPT ![Turn].tick = sim.tick + 1]
    /\ signal' = TRUE
    /\ UNCHANGED <<noticed, running, readerVars>>

CtrlC ==
    /\ running
    /\ running' = FALSE
    /\ UNCHANGED <<sim, noticed, buffers, signal, readerVars>>
-----------------------------------------------------------------------------
(* SharedMemReader and the loop around it.                                     *)

NeverLetsGo == sim.up \/ pc = "loop"
StillConnected == sim.up

\* try_connect: without the mapping, the status bit or a needed variable it fails, and
\* connect_loop tries again a second later.  build_var_index keeps the wanted names.
\* Only the first connection reads a frame before it waits for one.
Indexed == Wanted \cap sim.published
Connect ==
    /\ pc = "connect" /\ running
    /\ StillConnected
    /\ Needed \subseteq Indexed
    /\ index' = [start |-> sim.starts, groups |-> Indexed]
    /\ pc' = IF frame = NoFrame THEN "read" ELSE "loop"
    /\ UNCHANGED <<sim, noticed, buffers, signal, running, picked, frame>>

\* connect_loop and the main loop end when the flag is cleared.
Stop ==
    /\ pc \in {"connect", "loop"} /\ ~running
    /\ pc' = "stopped"
    /\ UNCHANGED <<sim, noticed, buffers, signal, running, index, picked, frame>>

\* The head of the main loop: a status field without the bit drops the reader.
Dropped ==
    /\ pc = "loop" /\ running
    /\ ~StillConnected
    /\ pc' = "connect"
    /\ index' = NoIndex
    /\ noticed' = TRUE
    /\ UNCHANGED <<sim, buffers, signal, running, picked, frame>>

Look ==
    /\ pc = "loop" /\ running
    /\ StillConnected
    /\ pc' = "wait"
    /\ noticed' = TRUE
    /\ UNCHANGED <<sim, buffers, signal, running, index, picked, frame>>

\* wait_for_frame
Woken ==
    /\ pc = "wait" /\ signal
    /\ signal' = FALSE
    /\ pc' = "read"
    /\ UNCHANGED <<sim, noticed, buffers, running, index, picked, frame>>

WaitEndsNever == FALSE
WaitEnds == ~signal
TimedOut ==
    /\ pc = "wait" /\ WaitEnds
    /\ pc' = "loop"
    /\ UNCHANGED <<sim, noticed, buffers, signal, running, index, picked, frame>>

\* latest_buf: the highest tick count, and of equal ones the last.
FirstBuf(s) == \A o \in Slots : s <= o
LatestBuf(s) ==
    \A o \in Slots : \/ buffers[o].tick < buffers[s].tick
                     \/ buffers[o].tick = buffers[s].tick /\ o <= s

\* read_frame: the buffer is chosen by the header, then build_frame reads it.
ReadHeader ==
    /\ pc = "read"
    /\ \E s \in Slots :
        /\ LatestBuf(s)
        /\ picked' = [slot |-> s, tick |-> buffers[s].tick, early |-> Cell(0, 0)]
    /\ pc' = "early"
    /\ UNCHANGED <<sim, noticed, buffers, signal, running, index, frame>>

CopyEarly ==
    /\ pc = "early"
    /\ picked' = [picked EXCEPT !.early = buffers[picked.slot].early]
    /\ pc' = "late"
    /\ UNCHANGED <<sim, noticed, buffers, signal, running, index, frame>>

\* The frame shows the groups that are indexed, at the places they were indexed at.
CopyLate ==
    /\ pc = "late"
    /\ frame' = [tick |-> picked.tick, early |-> picked.early,
                 late |-> buffers[picked.slot].late, index |-> index]
    /\ picked' = NothingPicked
    /\ pc' = "loop"
    /\ UNCHANGED <<sim, noticed, buffers, signal, running, index>>
-----------------------------------------------------------------------------
Sim == SimStarts \/ SimEnds \/ WriteEarly \/ WriteLate \/ Announce \/ CtrlC
Read ==
    \/ Connect \/ Stop \/ Dropped \/ Look \/ Woken \/ TimedOut
    \/ ReadHeader \/ CopyEarly \/ CopyLate
Next == Sim \/ Read

\* The pipeline thread runs: no wait of it lasts longer than a second.
Spec == Init /\ [][Next]_vars /\ WF_vars(Read)
-----------------------------------------------------------------------------
\* A frame is of one tick, the one its header promised, although the buffer it comes
\* from is not locked: what iRacing writes meanwhile is in other buffers, as long as
\* it completes no more than NumBuf - 2 ticks (latest_buf, read_frame, build_frame).
FrameWhole == frame.early = frame.late /\ frame.early.tick = frame.tick

\* A frame is decoded with the variable index of the start of iRacing that wrote it:
\* the index is built once per connection, and a new layout needs a new one.
IndexCurrent == frame.early.start \in {0, frame.index.start}

\* The reader follows iRacing: it lets go of one that ended, connects to one that
\* publishes what is needed, and reads the newest tick although no other follows.
Follows ==
    /\ ~sim.up ~> (pc \in {"connect", "stopped"} \/ sim.up)
    /\ (sim.up /\ Needed \subseteq sim.published)
            ~> (pc # "connect" \/ ~sim.up \/ ~running)
    /\ (signal /\ sim.up /\ pc # "connect" /\ sim.tick = LastTick)
            ~> (frame.tick = sim.tick \/ ~sim.up \/ ~running)

\* What reader.rs:70 says of REQUIRED_VARS, "All iRacing variable names the engine
\* needs": a frame carries the fuel, pedals, speed and tires that build_frame reads,
\* when iRacing publishes them.
FrameShowsDriving ==
    (frame.index.start > 0 /\ "driving" \in sim.published) => "driving" \in frame.index.groups
=============================================================================
