-------------------------------- MODULE Host --------------------------------
(***************************************************************************)
(* The headless publisher as a process: the pipeline thread with its       *)
(* reader (module Reader), the thread that mirrors the shared status into  *)
(* status.json, and the main thread, which waits for the pipeline and then *)
(* writes the file a last time.  Both writers go through the same          *)
(* temporary file (write_status_atomic, src/headless.rs); what other tools *)
(* read is the file under its final name.                                  *)
(*                                                                         *)
(* A name refers to a file on disk, which a writer keeps open across a     *)
(* rename; the text of a status is its state.                              *)
(***************************************************************************)
EXTENDS Reader

CONSTANTS MaxFailures    \* bound: writes that fail
ASSUME FailuresAssumption == MaxFailures \in Nat

VARIABLES
    at,          \* where each writer is in write_status_atomic
    text,        \* the snapshot each writer took
    open,        \* the file each writer has open
    name,        \* the file that each name refers to, None if there is none
    content,     \* of each file
    failures     \* how many writes failed

statusVars == <<at, text, open, name, content, failures>>
hostVars == <<vars, statusVars>>

Writers == {"thread", "main"}
None == 0
Files == 1..4
Whole == {"connected", "waiting_for_iracing", "stopped"}

InitHost ==
    /\ Init
    /\ at = [thread |-> "idle", main |-> "join"]
    /\ text = [w \in Writers |-> "none"]
    /\ open = [w \in Writers |-> None]
    /\ name = [tmp |-> None, path |-> None]
    /\ content = [f \in Files |-> "empty"]
    /\ failures = 0
-----------------------------------------------------------------------------
\* iracing_connected: set after the first frame and by a reconnect, cleared with the reader.
Connected == index # NoIndex /\ frame # NoFrame

\* to_status_file
State(stopped) ==
    IF stopped THEN "stopped" ELSE IF Connected THEN "connected" ELSE "waiting_for_iracing"

\* The process ends with the main thread.
Alive == at["main"] # "exit"

Snapshot(w, stopped) ==
    /\ text' = [text EXCEPT ![w] = State(stopped)]
    /\ at' = [at EXCEPT ![w] = "create"]
    /\ UNCHANGED <<open, name, content, failures>>

\* The loop of the status thread; the last write of the main thread.
ThreadSnapshot == at["thread"] = "idle" /\ running /\ Snapshot("thread", FALSE)
ThreadEnds ==
    /\ at["thread"] = "idle" /\ ~running
    /\ at' = [at EXCEPT !["thread"] = "ended"]
    /\ UNCHANGED <<text, open, name, content, failures>>
MainSnapshot == at["main"] = "join" /\ pc = "stopped" /\ Snapshot("main", TRUE)

Unused == {f \in Files : f \notin {open[w] : w \in Writers} \cup {name["tmp"], name["path"]}}

\* File::create: the file of that name, emptied, or a new one.
InPlace == "path"
WrittenTo == "tmp"
Create(w) ==
    /\ at[w] = "create"
    /\ LET named == name[WrittenTo]
           file == IF named = None THEN CHOOSE f \in Unused : TRUE ELSE named
       IN  /\ open' = [open EXCEPT ![w] = file]
           /\ name' = [name EXCEPT ![WrittenTo] = file]
           /\ content' = [content EXCEPT ![file] = "empty"]
    /\ at' = [at EXCEPT ![w] = "write"]
    /\ UNCHANGED <<text, failures>>

\* write_all, sync_all and the close: over another writer's text of another length, the
\* rest of that text stays.
Write(w) ==
    /\ at[w] = "write"
    /\ \E c \in {text[w]} \cup (IF content[open[w]] \in {"empty", text[w]} THEN {} ELSE {"mixed"}) :
        content' = [content EXCEPT ![open[w]] = c]
    /\ open' = [open EXCEPT ![w] = None]
    /\ at' = [at EXCEPT ![w] = "rename"]
    /\ text' = [text EXCEPT ![w] = "none"]
    /\ UNCHANGED <<name, failures>>

AfterWrite(w) == IF w = "main" THEN "exit" ELSE "idle"

\* fs::rename: there may be nothing left to rename.
Rename(w) ==
    /\ at[w] = "rename"
    /\ name' = IF name["tmp"] = None THEN name ELSE [tmp |-> None, path |-> name["tmp"]]
    /\ at' = [at EXCEPT ![w] = AfterWrite(w)]
    /\ UNCHANGED <<text, open, content, failures>>

\* A step of write_status_atomic fails; a write may have left a part of the text.  The
\* thread warns once and goes on.
AfterFailureEnded(w) == IF w = "main" THEN "exit" ELSE "ended"
AfterFailure(w) == IF w = "main" THEN "exit" ELSE "idle"
Fail(w) ==
    /\ at[w] \in {"create", "write", "rename"}
    /\ failures < MaxFailures
    /\ failures' = failures + 1
    /\ content' = IF at[w] = "write" THEN [content EXCEPT ![open[w]] = "mixed"] ELSE content
    /\ open' = [open EXCEPT ![w] = None]
    /\ text' = [text EXCEPT ![w] = "none"]
    /\ at' = [at EXCEPT ![w] = AfterFailure(w)]
    /\ UNCHANGED name
-----------------------------------------------------------------------------
Step(w) == Create(w) \/ Write(w) \/ Rename(w)
Thread == Alive /\ (ThreadSnapshot \/ ThreadEnds \/ Step("thread")) /\ UNCHANGED vars
Main == (MainSnapshot \/ Step("main")) /\ UNCHANGED vars
Failing == Alive /\ (\E w \in Writers : Fail(w)) /\ UNCHANGED vars
\* What iRacing does after the pipeline has ended is seen by nobody.
Pipeline == pc # "stopped" /\ Next /\ UNCHANGED statusVars

NextHost == Pipeline \/ Thread \/ Main \/ Failing

\* The status thread and the main thread run; the writes do not fail for ever.
SpecHost ==
    /\ InitHost /\ [][NextHost]_hostVars
    /\ WF_hostVars(Read /\ UNCHANGED statusVars)
    /\ WF_hostVars(Thread) /\ WF_hostVars(Main)
-----------------------------------------------------------------------------
\* While the pipeline runs, whoever reads status.json reads a whole status of a running
\* publisher, whatever failed (write_status_atomic: temporary file, then rename).
FileWhole ==
    (at["main"] = "join" /\ name["path"] # None)
        => content[name["path"]] \in Whole \ {"stopped"}

\* The file follows the connection: once attached for long enough, or detached, it says
\* so, also after writes that failed; and a publisher told to stop exits.
Says(state) == name["path"] # None /\ content[name["path"]] = state
StatusTold ==
    /\ (running /\ Connected) ~> (~running \/ ~Connected \/ Says("connected"))
    /\ (running /\ ~Connected) ~> (~running \/ Connected \/ Says("waiting_for_iracing"))
    /\ ~running ~> at["main"] = "exit"
=============================================================================
