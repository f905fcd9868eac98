------------------------------ MODULE Controls ------------------------------
(***************************************************************************)
(* Driver controls (src/controls.rs, src/controls_input.rs and the         *)
(* controls block of src/bin/publisher_ui.rs): the input thread that turns *)
(* HID reports into requests, the window that binds and clears buttons,    *)
(* and controls.toml.                                                      *)
(*                                                                         *)
(* ControlsState is behind a mutex: a click of the window is one action,   *)
(* and the input thread has one action per critical section.  It evaluates *)
(* a press on a copy of the configuration, after the unlock.               *)
(*                                                                         *)
(* A button is a pair <<device, number>>, where the device is what         *)
(* device_identity keeps of the path: VID and PID.  A hold is the number   *)
(* of one stretch of time a button is down; reports carry it only for the  *)
(* properties to tell one press from the next.                             *)
(***************************************************************************)
EXTENDS Orders

CONSTANTS
    Buttons,             \* the buttons of the rig, pairs <<device, number>>
    InitialFiles,        \* what controls.toml may hold before the first start
    Debounce,            \* debounce_ms
    FocusCooldown,       \* focus_cooldown_ms
    ToggleCooldown,      \* toggle_cooldown_ms
    ButtonlessReports,   \* devices also send reports without readable buttons
    MaxHolds,            \* bound: presses of buttons in each start
    MaxReports,          \* bound: WM_INPUT messages waiting
    MaxTime              \* bound: the clock

VARIABLES
    now,                 \* the monotonic clock, since the start of the program
    held,                \* the rig: the hold of each button, 0 when it is up
    holds,               \* the rig: how many holds there have been
    reports,             \* WM_INPUT messages not yet read
    file,                \* controls.toml: a configuration, or Broken
    starts,              \* starts of the program so far
    running,             \* the running flag
    config,              \* ControlsState.config
    learning,            \* ControlsState.learning, or NoAction
    lastError,           \* ControlsState.last_error is Some
    pc,                  \* where the input thread is
    tracker,             \* PressTracker: numbers down in the last report per device
    presses,             \* the presses of the message being handled
    copy,                \* the clone of the configuration
    at,                  \* now_ms of the press being handled
    lastPress,           \* ControlDispatcher.last_press_ms
    lastAccept,          \* ControlDispatcher.last_accept_ms
    accepted,            \* the request built and not yet sent
    requests,            \* the requests sent to the pipeline, in order
    captured,            \* for the properties: the holds captured by learn mode
    changed              \* for the properties: the last hold before config changed

rig == <<now, held, holds>>
state == <<running, config, learning, lastError>>
dispatcher == <<at, lastPress, lastAccept>>
input == <<pc, tracker, presses, copy, dispatcher, accepted, requests>>
vars == <<rig, reports, file, starts, state, input, captured, changed>>

Actions == {"focus_me", "broadcast_toggle"}
NoAction == "none"
Never == -1
Broken == [unparsable |-> TRUE]
Devices == {b[1] : b \in Buttons}
Numbers == {b[2] : b \in Buttons}
MaxStarts == Len(MaxHolds)
Bindings == [action : Actions, devices : SUBSET Devices, number : Numbers]
Configurations == [enabled : BOOLEAN, bindings : Seq(Bindings)]
Default == [enabled |-> TRUE, bindings |-> <<>>]
NoRequest == [action |-> NoAction]

ASSUME TimesAssumption ==
    /\ Debounce \in Nat /\ FocusCooldown \in Nat /\ ToggleCooldown \in Nat
    /\ MaxTime \in Nat
ASSUME BoundsAssumption ==
    MaxHolds \in Seq(Nat) /\ MaxHolds # <<>> /\ MaxReports \in Nat
ASSUME RigAssumption ==
    IsFiniteSet(Buttons) /\ \A b \in Buttons : b = <<b[1], b[2]>> /\ b[2] \in Nat
ASSUME FilesAssumption == InitialFiles \subseteq Configurations \cup {Broken}
ASSUME ButtonlessAssumption == ButtonlessReports \in BOOLEAN

Cooldown(a) == IF a = "focus_me" THEN FocusCooldown ELSE ToggleCooldown
-----------------------------------------------------------------------------
\* A binding names a device by a part of its identity, so it may fit several.
Matches(binding, b) == b[2] = binding.number /\ b[1] \in binding.devices

\* action_for: the first binding that fits.
Fitting(c, b) == {i \in DOMAIN c.bindings : Matches(c.bindings[i], b)}
ActionFor(c, b) ==
    IF Fitting(c, b) = {} THEN NoAction
    ELSE FirstAt(c.bindings, Fitting(c, b)).action

Bound(c, a) == \E i \in DOMAIN c.bindings : c.bindings[i].action = a
\* The one configuration that is left without the bindings of a, and with another one.
Others(c, a) == {i \in DOMAIN c.bindings : c.bindings[i].action # a}
Cleared(c, a) == {[c EXCEPT !.bindings = kept] : kept \in Picked(c.bindings, Others(c, a))}
Learned(b) == [action |-> learning, devices |-> {b[1]}, number |-> b[2]]
SetBinding(c, binding) ==
    {[kept EXCEPT !.bindings = Append(@, binding)] : kept \in Cleared(c, binding.action)}

\* load_controls (the windows and cooldowns of the file are the constants): no file and
\* an empty file are the defaults without an error.
Loaded(f) == IF f = Broken THEN Default ELSE f

\* fs::write truncates and then writes: stopped in between, it leaves nothing or a text
\* that does not parse.
Torn == {Broken, Default}

ErrorKept(ok) == lastError
ErrorAfter(ok) == ~ok

\* persist, under the mutex: saves, or fails with the old file or a torn one.
Persist(c) ==
    /\ config' = c
    /\ \/ file' = c /\ lastError' = ErrorAfter(TRUE)
       \/ file' \in {file} \cup Torn /\ lastError' = ErrorAfter(FALSE)
    /\ changed' = holds
-----------------------------------------------------------------------------
\* A start of the program with what controls.toml holds by then.  A button that is
\* down all the while is one pressed before the input thread listens.
Boot(f) ==
    /\ now' = 0
    /\ held' = [b \in Buttons |-> 0]
    /\ holds' = 0
    /\ file' = f
    /\ running' = TRUE
    /\ config' = Loaded(f)
    /\ learning' = NoAction
    /\ lastError' = (f = Broken)
    /\ pc' = "starting"
    /\ tracker' = [d \in Devices |-> {}]
    /\ presses' = <<>>
    /\ copy' = Default
    /\ at' = 0
    /\ lastPress' = [b \in Buttons |-> Never]
    /\ lastAccept' = [a \in Actions |-> Never]
    /\ accepted' = NoRequest
    /\ requests' = <<>>
    /\ reports' = <<>>
    /\ captured' = {}
    /\ changed' = 0

Init ==
    /\ now = 0
    /\ held = [b \in Buttons |-> 0]
    /\ holds = 0
    /\ file \in InitialFiles
    /\ starts = 1
    /\ running = TRUE
    /\ config = Loaded(file)
    /\ learning = NoAction
    /\ lastError = (file = Broken)
    /\ pc = "starting"
    /\ tracker = [d \in Devices |-> {}]
    /\ presses = <<>>
    /\ copy = Default
    /\ at = 0
    /\ lastPress = [b \in Buttons |-> Never]
    /\ lastAccept = [a \in Actions |-> Never]
    /\ accepted = NoRequest
    /\ requests = <<>>
    /\ reports = <<>>
    /\ captured = {}
    /\ changed = 0

\* A save may be under way right now.
Saving ==
    \/ \E a \in Actions : Bound(config, a)
    \/ pc = "press" /\ presses # <<>> /\ learning # NoAction

\* The process ends, in the middle of a save or not, and is started again.  Only the
\* file survives and no save waits for the clock or a request: a restart before either
\* stands for one after (a bound).
Restart ==
    /\ starts < MaxStarts
    /\ now = 0 /\ requests = <<>>
    /\ starts' = starts + 1
    /\ \E f \in {file} \cup (IF Saving THEN Torn ELSE {}) : Boot(f)

\* The window is closed, or Ctrl-C.  The input thread only notices at its loop head and
\* when it sends.
Close ==
    /\ running
    /\ pc \in {"peek", "send"}
    /\ running' = FALSE
    /\ UNCHANGED <<rig, reports, file, starts, config, learning, lastError, input,
                   captured, changed>>

\* The clock is read for each press; that it moves between two turns of the loop only
\* loses nothing, for nothing else looks at it.
TimePasses ==
    /\ pc = "peek"
    /\ now < MaxTime
    /\ now' = now + 1
    /\ UNCHANGED <<held, holds, reports, file, starts, state, input, captured, changed>>
-----------------------------------------------------------------------------
\* The rig and Windows (external).  A report has all buttons of its device; it is
\* queued for the window of the input thread once that has registered.
Down(d, hs) == {[button |-> b, hold |-> hs[b]] : b \in {b \in Buttons : b[1] = d /\ hs[b] # 0}}

Report(d, down) ==
    IF pc = "starting" THEN UNCHANGED reports
    ELSE /\ Len(reports) < MaxReports
         /\ reports' = Append(reports, [device |-> d, down |-> down])

PressDown(b) ==
    /\ held[b] = 0
    /\ holds < MaxHolds[starts]
    /\ holds' = holds + 1
    /\ held' = [held EXCEPT ![b] = holds']
    /\ Report(b[1], Down(b[1], held'))
    /\ UNCHANGED <<now, file, starts, state, input, captured, changed>>

LetGo(b) ==
    /\ held[b] # 0
    /\ held' = [held EXCEPT ![b] = 0]
    /\ Report(b[1], Down(b[1], held'))
    /\ UNCHANGED <<now, holds, file, starts, state, input, captured, changed>>

\* An axis moved: the same buttons again.  Or a report of another kind, or of another
\* collection with the same VID and PID, in which pressed_buttons finds none.
Lists(d) == {Down(d, held)} \cup (IF ButtonlessReports THEN {{}} ELSE {})
Repeat(d) ==
    /\ pc = "peek"
    /\ Down(d, held) # {}
    /\ \E down \in Lists(d) : Report(d, down)
    /\ UNCHANGED <<rig, file, starts, state, input, captured, changed>>
-----------------------------------------------------------------------------
\* The window: controls_block, one click.
Bind(a) ==
    /\ running
    /\ learning # a
    /\ learning' = a
    /\ UNCHANGED <<rig, reports, file, starts, running, config, lastError, input,
                   captured, changed>>

Cancel ==
    /\ running
    /\ learning # NoAction
    /\ learning' = NoAction
    /\ UNCHANGED <<rig, reports, file, starts, running, config, lastError, input,
                   captured, changed>>

\* Clear is only offered for a bound action that is not being learned.
Clear(a) ==
    /\ running
    /\ learning # a
    /\ Bound(config, a)
    /\ \E c \in Cleared(config, a) : Persist(c)
    /\ UNCHANGED <<rig, reports, starts, running, learning, input, captured>>
-----------------------------------------------------------------------------
\* The input thread: watch.
Listen ==
    /\ pc = "starting"
    /\ pc' = "peek"
    /\ UNCHANGED <<rig, reports, file, starts, state, tracker, presses, copy,
                   dispatcher, accepted, requests, captured, changed>>

ListenFails ==
    /\ pc = "starting"
    /\ pc' = "stopped"
    /\ lastError' = TRUE
    /\ UNCHANGED <<rig, reports, file, starts, running, config, learning, tracker,
                   presses, copy, dispatcher, accepted, requests, captured, changed>>

StopListening ==
    /\ pc = "peek"
    /\ ~running
    /\ pc' = "stopped"
    /\ reports' = <<>>
    /\ UNCHANGED <<rig, file, starts, state, tracker, presses, copy, dispatcher,
                   accepted, requests, captured, changed>>

\* read_presses with PressTracker.update: what is down now and was not in the last
\* report of the device, by number.
AllDown(d, down) == down
NewlyDown(d, down) == {p \in down : p.button[2] \notin tracker[d]}
ByNumber(new) ==
    {s \in [1..Cardinality(new) -> new] :
        \A i, j \in DOMAIN s : i < j => s[i].button[2] < s[j].button[2]}
ReadReport ==
    /\ pc = "peek"
    /\ running
    /\ reports # <<>>
    /\ LET r == Head(reports) IN
       /\ presses' \in ByNumber(NewlyDown(r.device, r.down))
       /\ tracker' = [tracker EXCEPT ![r.device] = {p.button[2] : p \in r.down}]
    /\ reports' = Tail(reports)
    /\ pc' = "press"
    /\ UNCHANGED <<rig, file, starts, state, copy, dispatcher, accepted, requests,
                   captured, changed>>

\* read_presses cannot read the message or knows nothing of the device: the tracker
\* keeps what the last report said.
ReportLost ==
    /\ pc = "peek"
    /\ running
    /\ reports # <<>>
    /\ reports' = Tail(reports)
    /\ UNCHANGED <<rig, file, starts, state, input, captured, changed>>

ReportDone ==
    /\ pc = "press"
    /\ presses = <<>>
    /\ pc' = "peek"
    /\ UNCHANGED <<rig, reports, file, starts, state, tracker, presses, copy,
                   dispatcher, accepted, requests, captured, changed>>

\* Learn mode: apply_capture, and the press goes no further.
Capture ==
    /\ pc = "press"
    /\ presses # <<>>
    /\ learning # NoAction
    /\ \E c \in SetBinding(config, Learned(presses[1].button)) : Persist(c)
    /\ learning' = NoAction
    /\ presses' = Tail(presses)
    /\ captured' = captured \cup {presses[1].hold}
    /\ UNCHANGED <<rig, reports, starts, running, pc, tracker, copy, dispatcher,
                   accepted, requests>>

\* now_ms, the lock, state.config.clone() and the unlock.
CopiedFromFile == Loaded(file)
Copied == config
CopyConfig ==
    /\ pc = "press"
    /\ presses # <<>>
    /\ learning = NoAction
    /\ copy' = Copied
    /\ at' = now
    /\ pc' = "dispatch"
    /\ UNCHANGED <<rig, reports, file, starts, state, tracker, presses, lastPress,
                   lastAccept, accepted, requests, captured, changed>>

\* on_button_down.
Button == presses[1].button
Action == IF copy.enabled THEN ActionFor(copy, Button) ELSE NoAction
Within(last, window) == last # Never /\ at - last < window
Debounced == Within(lastPress[Button], Debounce)
CoolingOfPress == Within(lastPress[Button], Cooldown(Action))
Cooling == Within(lastAccept[Action], Cooldown(Action))

\* The next turn of the loop over the presses; the locals of this one are gone.
PressDone ==
    /\ presses' = Tail(presses)
    /\ copy' = Default
    /\ at' = 0
    /\ pc' = "press"

Ignore ==
    /\ pc = "dispatch"
    /\ Action = NoAction \/ Debounced
    /\ PressDone
    /\ UNCHANGED <<rig, reports, file, starts, state, tracker, lastPress, lastAccept,
                   accepted, requests, captured, changed>>

TooSoon ==
    /\ pc = "dispatch"
    /\ Action # NoAction /\ ~Debounced /\ Cooling
    /\ lastPress' = [lastPress EXCEPT ![Button] = at]
    /\ PressDone
    /\ UNCHANGED <<rig, reports, file, starts, state, tracker, lastAccept, accepted,
                   requests, captured, changed>>

Accept ==
    /\ pc = "dispatch"
    /\ Action # NoAction /\ ~Debounced /\ ~Cooling
    /\ lastPress' = [lastPress EXCEPT ![Button] = at]
    /\ lastAccept' = [lastAccept EXCEPT ![Action] = at]
    /\ accepted' = [action |-> Action, button |-> Button, hold |-> presses[1].hold,
                    requestedAt |-> at]
    /\ pc' = "send"
    /\ UNCHANGED <<rig, reports, file, starts, state, tracker, presses, copy, at,
                   requests, captured, changed>>

Send ==
    /\ pc = "send"
    /\ requests' = Append(requests, accepted)
    /\ accepted' = NoRequest
    /\ PressDone
    /\ UNCHANGED <<rig, reports, file, starts, state, tracker, lastPress, lastAccept,
                   captured, changed>>

\* The pipeline has dropped its end of the channel, which it does after a Close.
SendFails ==
    /\ pc = "send"
    /\ ~running
    /\ accepted' = NoRequest
    /\ presses' = <<>>
    /\ copy' = Default
    /\ at' = 0
    /\ reports' = <<>>
    /\ pc' = "stopped"
    /\ UNCHANGED <<rig, file, starts, state, tracker, lastPress, lastAccept, requests,
                   captured, changed>>

Watch ==
    \/ Listen \/ ListenFails \/ StopListening \/ ReadReport \/ ReportLost
    \/ ReportDone \/ Capture \/ CopyConfig \/ Ignore \/ TooSoon \/ Accept \/ Send \/ SendFails

\* Nobody looks at the rig any more when the input thread has stopped.
Rig ==
    /\ pc # "stopped"
    /\ \/ TimePasses
       \/ \E b \in Buttons : PressDown(b) \/ LetGo(b)
       \/ \E d \in Devices : Repeat(d)

Window == Cancel \/ Close \/ \E a \in Actions : Bind(a) \/ Clear(a)

Stopped == pc = "stopped" /\ UNCHANGED vars

Next == Watch \/ Rig \/ Window \/ Restart \/ Stopped

Spec == Init /\ [][Next]_vars
-----------------------------------------------------------------------------
\* Requests are paced however buttons are bound, cleared and rebound in between: two
\* of one action are a cooldown apart, two of one button a debounce.
Paced ==
    \A i, j \in DOMAIN requests : i < j =>
        /\ requests[i].action = requests[j].action =>
              requests[j].requestedAt - requests[i].requestedAt >= Cooldown(requests[i].action)
        /\ requests[i].button = requests[j].button =>
              requests[j].requestedAt - requests[i].requestedAt >= Debounce

\* A press is answered by the bindings there are: unless they were changed after the
\* driver pressed the button, the request is for the action it is bound to now, though
\* the input thread looks at a copy and the window may have had the mutex since.
RequestAsBound ==
    [][accepted' \notin {accepted, NoRequest} /\ accepted'.hold > changed =>
          /\ config.enabled
          /\ accepted'.action = ActionFor(config, accepted'.button)]_vars

\* What the next start will load is what the window shows, unless the window shows
\* an error: over failed and torn saves and whatever was done after them.
FileAgrees == ~lastError => file = config

\* "Only key-down transitions produce requests" (controls.rs:237): one hold of a
\* button is used once, for a binding or for a request, however long it lasts and
\* whatever is bound meanwhile.
OneUsePerHold ==
    \A i \in DOMAIN requests :
        /\ requests[i].hold \notin captured
        /\ \A j \in DOMAIN requests : requests[i].hold = requests[j].hold => i = j

=============================================================================
