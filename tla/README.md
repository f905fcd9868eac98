# Verification of director-narrative-core

TLA+ models of the publisher that runs on a driver's rig, the TLC runs that check them and the
TLAPS proofs about them. Paths are relative to the repository.

## The system

The publisher attaches to iRacing's shared memory, turns 60 frames a second into narrative
events and posts them in batches to Race Control. It is one process with up to five threads:

| thread | code | owns | talks to |
| --- | --- | --- | --- |
| pipeline | `src/bin/publisher.rs` `pipeline_main` | reader, session identity, engine, roster, held events, pending requests, transport | shared memory (polls), controls channel (drains), `PublisherStatus` (mutex), Race Control (blocking POST) |
| controls | `src/controls_input.rs` `watch` | press tracker, dispatcher | `ControlsState` (mutex, shared with the window), channel to the pipeline |
| window | `src/bin/publisher_ui.rs` | nothing | both mutexes, `running` |
| status writer | `src/bin/publisher.rs` 221-241 | nothing | `PublisherStatus`, `status.json` |
| main | `src/bin/publisher.rs` `run` | `running` | joins the pipeline, final `status.json` |

Components, the state each keeps, what is hard about it, and what makes it correct:

| component | state | hard | correct when |
| --- | --- | --- | --- |
| Transport (`transport.rs`) | queue, `last_flush`, cached token | a batch is out of the queue when it fails; answers get lost; a token ages during sleeps | each event is in one place; order is kept; retries are bounded; events settle |
| Publisher pipeline (`bin/publisher.rs`) | ids, roster cache, fresh flag, held events, pending requests | frames, SessionInfo and the live session advance separately; reads fail; iRacing goes and comes back | each attach and sub-session is announced before anything is said under it, and nothing stale follows |
| Labels (`session_info.rs`, `publisher_event.rs`) | id, roster, session type, names on held events | three sources read at three times | nobody is named by a sub-session that is over; the type is that of the session number beside it |
| Driver controls (`controls.rs`, `controls_input.rs`) | bindings, learn mode, press edges, debounce, cooldown, `controls.toml` | two threads around one mutex; a dispatcher on a copy; saves that tear | one request per press and cooldown; file and window agree |
| Battle tracking (`battle_pairs.rs`) | battles and candidates per pair | pairs vanish and return, asymmetric thresholds | fights open and close once, on enough frames and no later |
| Player engagement (`engine.rs` 387-577) | frame counters, tracked car, engaged cars of two sides | the nearest car changes while counters and cooldown run on | BROKEN closes the ENGAGED it names; sides keep their cooldown |
| Session events (`session_lifecycle.rs`, `engine.rs` 296-383) | last observation, announced end, once-only flags | several changes in one frame and one event at most; several sessions in a sub-session | the consumer's picture is current and its end told once; each session is flagged off |
| Lap bookkeeping (`engine.rs` 404-453, 591-644) | dirty and pit laps, pit frames, positions, by lap number | lap numbers come back in the next session | what is said of a lap is what was driven |
| End of a lap (`tire_degradation.rs`, `fuel_projection.rs`, `battle_state.rs`, `car_registry.rs`, `vulnerability.rs`, `micro_sector.rs`) | windows of laps, trend of the rivals, alert flag, best segments | pit stops show as laps of several kinds | reports rest on this stint, alerts pair up, streaks are runs |
| Incidents (`basic_incident.rs`, `car_registry.rs`) | registry slot, last snapshot, alerted flags | the registry forgets a car, the detector does not; what is compared is smoothed | alerts are of cars that drove, and of what they did |
| Shared-memory reader (`irsdk/`) | connection, variable index | buffers are read without a lock; iRacing ends and starts under an open reader | a frame is of one tick and of the present layout |
| Status file (`headless.rs`) | `status.json`, its temporary file | two writers, failing writes | the file is whole and follows the connection |

Configuration, TLS pinning, the replay tool and the drawing keep no state worth a model.
`PROJECT.json` lists every component with its files, and every hazard at its line.

## Modules

Names follow the code. The modules fall into groups; within a group one extends the other,
between groups the code passes values that are inputs of the models.

### From the queue to Race Control

`EventStream` says what a batching publisher promises: events are submitted, leave the queue in
order as one batch at a time, may be received several times while in flight, and are confirmed
only when the last thing received is that batch, or dropped.

`Transport` is `PublisherTransport` in full. `Enqueue`, `Tick`, `FlushNow` and `Shutdown` are
the calls the pipeline makes; `TakeBatch` and `FlushDone` are the loop of `flush`; `UseToken`,
`FetchToken`, `FetchTokenFails`, `PrintBatch` the start of an attempt; `ServerAccepts` and
`ServerRefuses` are the destination (external), which may take a batch whose answer is then
lost; `Posted`, `Reauthorize`, `Retry`, `Exhausted` are the arms of the `match`. Events are the
numbers of their `enqueue` calls; token life is counted in units of the refresh buffer, which
`get_or_refresh_token` subtracts twice. At `Init` the token may already be there (warm-up).

### The pipeline

`Publisher` is `pipeline_main`. The variable `pc` walks through one turn of the main loop in
the order of the code: `loop` (running, connected, read frame), `frame` (is a SessionInfo read
due, and does it succeed), `adopt` (sub-session transition), `roster` (cache update, held
events), `hello`, `clock` (restart check), `state` (SESSION_STATE), `engine`, `controls`,
`periodic` (heartbeat, driver material), `tick`. A sub-session is the number of its turn; the
time of a session is 0 near its start and 1 later, which is all a rollback needs. `log` is every
event enqueued, with the id it was stamped with and the attach it was built in; `sent` is the
envelope id each drained event was posted under. A flush drains whole batches, and fewer than
all when the last one it took failed: this is what `Transport` says of `flush`. iRacing is
external: its live session, its SessionInfo and its driver names move separately. These moves
are allowed where the pipeline is about to look (connect, loop, before the SessionInfo read,
before the controls): moves at other places are seen no earlier, so nothing is lost.
The requests of the controls thread arrive on `channel`; `--simulate` is a press before the
first attach.

`SessionInfo` has what is made of a SessionInfo text: the id (first of the keys that is not the
placeholder, or the hash of track and day of an AI roster), the roster, the session type. A text
is a record; `read` says which of the two parsers takes it, the one of the drivers and the one of
the sessions, for each fails without the keys it asks for. A name is the track of the text that
gave it, and so tells the sub-session. `Envelope` is the match over all event
kinds in `publisher_event.rs`: scope, car, subject, roles and the cars inside the payload, each
with the name the roster gives it at that moment. Kinds that are treated alike share a name.
`Labels` is the pipeline once more over these two: the frame, the read that is due or not and
that succeeds or not (a clock that runs backwards makes it due too: `Restarts`), adoption, roster
update, release of the held events, then the events of the frame (`SessionEvents`,
`EngineEvent`) and the timers. iRacing changes its session number in the frames at once and in
the text later, a text may be read half written, and may have the roster of its sub-session
before its id. `MCLabels` gives
the weekend and the texts. `Publisher` has the order of events and the flushes, `Labels` their
labels: the engine's events are a choice in both.

### The driver's buttons

`Controls` is the input thread and the window around the mutex of `ControlsState`, with
`controls.toml`. The thread takes a report (`Listen`, `ReadReport`, or `ReportLost` for the
early returns of `read_presses`), works out which buttons are newly down, hands each to learn
mode or, after the mutex is released, evaluates it on its copy of the bindings (debounce per
button, cooldown per action) and sends a request. The window binds, cancels and clears in
between. A save may fail, and `fs::write` may be cut short and leave an empty file; the process
may end and start again from whatever the file holds. The clock moves only where the thread
waits for a report, and the window may close only where the thread looks at `running`: elsewhere
neither is seen sooner. Debounce and cooldowns are constants, since no code changes them after
loading. What the window only displays (last captured, last request, device counts) is left out.
`ButtonlessReports` says whether the device also sends reports whose buttons cannot be read, which
the code takes for a release; the run assumes it does not (see "Observed"). `MCControls` gives the buttons and tunables.

### The engine, frame by frame

`Fights` says what a consumer of battle events may rely on: fresh ids, one fight per pair, opened
and closed once. `BattlePairs` is `BattlePairTracker::update` and the filter the engine puts
behind it. `PairFrame` brings the result of `observe_pairs`: any gap for any pair, or none.
`Refresh` is one turn of the loop over battles (`Break`, `ClosesIn`, `GoesOn`),
`PruneCandidates` the `retain` between the loops, `Consider` one turn of the loop over
observed pairs (`Count`, `Engage`), in the order the hash maps happen to have. The closing rate
is an input: where `MayClose` holds, CLOSING is said or not. Which car is ahead is data: a pair
keeps its key and its id when the cars swap. The publisher's car is taken to stay the same car
while an engine lives. One engine is modelled; the pipeline makes a new one for a new sub-session
and open fights then end without BROKEN, which SESSION_RESET tells the consumer. `inARow` is not
in the code: it counts for the properties how long a pair has been close or away.

`SessionEvents` is `SessionLifecycleTracker` with the green, checkered, yellow and in-car events
of `process_frame`. `PlainFrame` shows any state, flags and time left; `InfoFrame` comes with a
SessionInfo, `AdoptFrame` with a new sub-session, `Reattach` after iRacing went. `told`,
`warned` and `flown` (the sessions that were flagged off, and those RACE_CHECKERED was said in)
are the consumer's and are not in the code.

`Threats` is the player's two engagements. A frame puts the other cars ahead, behind or out of
sight at some gap and names the nearest of each side; the clock goes on or starts again.
`SideAfter` is what `process_frame` does to the fields of one side, `SideSays` what it says.
`open` is the time of the announcement that is not closed yet, per side and car; `spoke` the
time each side last said ENGAGED, closed meanwhile or not.

`Laps` is the bookkeeping by lap number: `Classify` a frame with a position on a lap,
`LookAtPit` any other. `disturbed`, `pitSpell` and `pitTold` record what was driven and told.

`Stint` has the estimators of the own car, `Rivals` the classification of the cars around it
and the vulnerability alert, `LapEnd` both together in the order of `process_frame`, with the
same lap kind for both. The slopes, temperatures and fuel deltas that the regressions give are
inputs; which window they rest on is the model.

`Incidents` follows one car through `CarRegistry::update_from_frame` and
`BasicIncidentDetector::update`: `Placed`, `Unplaced`, `Dropped` after a minute, `Absent`. For
the properties, `measured` is the speed of the last frame before it is smoothed, and `drove`
says that the car has been driving since it was last on pit road or out of the world. `Sectors`
is `MicroSectorTracker` with times in milliseconds; `Passes` is the loop over the buckets,
written as a recursive function, and `RunsOf` is the reference definition it is compared with.

These seven read nothing of each other, so `Engine` composes them by a choice at the start
(`followed`): a behaviour follows one of them. This is no loss, because no property relates two
of them, and it makes one run of the sum of the state spaces instead of their product.
`MCEngine` gives the weekend and the flags.

### The process and its surroundings

`Reader` is the reader in the pipeline's loop, against iRacing, which writes its buffers in turn
without asking. A tick is written in two halves, and read in two halves: a frame is whole when
both are of the tick in the header. `Connect` indexes the wanted variables, by group;
`Look`/`Dropped` is the look at the status bit at the head of the loop, `Woken`/`TimedOut` the
wait of `wait_for_frame`, `ReadHeader`, `CopyEarly`, `CopyLate` one `read_frame`. Assumed of
iRacing, since the code relies on it and cannot enforce it: it completes at most `MaxLag` ticks
while a frame is copied, it sets the status bit once its buffers are filled, and it takes longer
to restart than the publisher takes to look at the bit (a second at most). `Host` adds the two
writers of `status.json`: `Create`, `Write`, `Rename` are the steps of `write_status_atomic`,
each of which may fail; a name refers to a file, which a writer keeps open across a rename.

### Shared and proof modules

`Orders` has what `Iterator::find`, `Vec::retain` and a sort leave of a sequence, in a form that
can be reasoned about: `Picked` is the set of the one sequence of the elements at some positions.
`Publisher`, `Controls` and `SessionInfo` extend it.

`TransportProofs`, `PublisherProofs`, `LabelsProofs`, `ControlsProofs` and `BattlePairsProofs`
hold the theorems about the module of their name; `DrivingProofs` those about `SessionEvents`,
`Threats`, `Laps` and the composition in `Engine`, `DetectorsProofs` those about `LapEnd`, `Incidents` and `Sectors`, and
`HostProofs` those about `Reader` and `Host`.

## Runs

| run | bounds | shows |
| --- | --- | --- |
| `transport` | 4 events, batches of 2, 2 retries, token lives 1 and 3, three destinations | accounting, order, receipt bound, live tokens, settling, refinement of `EventStream` |
| `sessions` | 1 attach, 2 sub-sessions, 1 clock restart, 2 reports, 2 SessionInfo updates | HELLO first, transitions announced, ids never go back, envelopes not older than their events |
| `reconnect` | 2 starts of iRacing, 2 sub-sessions, 2 updates, 2 requests with room for 1 | connection events pair up, requests once and in order, a published id is adopted and greeted (liveness) |
| `controls` | 2 buttons, 3 presses and 1 after a restart, cooldowns 2 and 1, debounce 1, times 0 to 2 | requests paced and as bound, one use per hold, file and window agree or an error is shown |
| `engine`: session | practice and race, 4 session states, 2 sets of flags, 2 engines | the consumer's picture is current, the end told once |
| `engine`: threats | 2 cars, 2 gaps, 2 frames to engage, cooldown 1, times 0 to 2 | battles broken as engaged, sides quiet for the cooldown |
| `engine`: pairs | 1 pair of others, 1 with the publisher, gaps 0, 1, 2, 4, 2 frames to engage, 3 to break, 2 fights | an implementation of `Fights`, evidence for every decision, no decision late |
| `engine`: laps | laps 0 to 2, 2 positions, 1 restart | pit road told, laps as driven |
| `engine`: end of a lap | windows of 2 laps, 1 rival, 2 slopes, 3 levels | reports of this stint, alerts paired |
| `engine`: incidents | speeds 0, 30, 80 m/s and a jump, dropped after 2 frames | alerts are of cars that drove |
| `engine`: sectors | 3 buckets, 4 segment times | streaks equal to the runs of the lap |
| `host` | 2 buffers, 2 starts with 2 ticks each, 2 layouts, 1 failing write | frames whole and of the right layout, status file whole, reader and file follow iRacing, the process ends (liveness) |
| `labels` | 2 cars, practice and race, 2 sub-sessions (the first against AI), 2 updates, 1 midnight, room for 1 held event | nobody named by an earlier sub-session, types of the right session, named when posted |
| `find_unread_vars` | 3 buffers, 1 tick of lag | violated: fuel, pedals, speed and tyres never reach a frame |
| `find_subject` | as `labels`, no midnight | violated: an event is enqueued with a subject that has no name |
| `find_midnight` | 1 AI session, 1 midnight | violated: the id of a running AI session changes |
| `find_checkered` | as `engine` | violated: the second session of an engine is flagged off without RACE_CHECKERED |
| `find_speed_drop` | as `engine`: incidents | violated: a car stops from speed and nothing is said |

Why the bounds are enough. Transport: with 4 events and batches of 2 a flush has a full first
batch, a failing batch with events behind it and a later flush that takes what was left; two
retries give the first, a middle and the last attempt; life 1 is a token that is always
refreshed, life 3 one that ages from usable to refreshed. Publisher: two sub-sessions and two
attaches are what the properties relate; room for one held event and one request makes both
caps bite; batches of two let a flush leave events behind for the next envelope. Controls: three
presses allow a capture, a request and a suppressed press of each kind; different cooldowns tell
the actions apart; one restart is a start from whatever a save left. Battles: pairs share only
the id counter, so two of them show everything two can do to each other, and one of each kind
tests the filter; gaps 0 and 1 engage, 2 does neither, 4 breaks, and 1 to 0 is a closing step.
The bound on fights (`Beyond`) lets a pair stay a candidate once two fights were opened;
`DecidedInTime` excepts it. Session, threats and laps: the properties of a session relate it to the one before,
those of a side two cars, those of a lap the lap of the same number in an earlier session; a
cooldown of 1 in a clock of 2 passes and does not pass, and a restart of the clock goes back
to 0 from any time. Detectors: the windows of 2 fill and shift; 80 m/s smoothed takes many frames
to fall and a jump is ignored; with 3 buckets a run may be at
the start, at the end, all of the lap, or one of two, the times give differences below and above
both thresholds in both directions and sums on either side of 20 ms. Host: with 2 buffers and no lag the
buffer being written is always the one next to the newest, the tightest case the theorem
`FramesAreWhole` allows, which covers every other; two starts give the second a layout other than
the first. Labels: one held event makes the cap bite; one car gets its name late and one is
the publisher's; the read after a change of session may find the old text, a torn one or none; the
second sub-session has texts without its id, which leave the departed one in place.

Fairness. `Transport`: the pipeline thread keeps turning and ticks every frame (`Tick`), a
flush proceeds (`Flush`), time passes (`Elapse`). That a request is answered or fails is an
assumption on the network: the HTTP agent has no read timeout. `Publisher`: the thread keeps
turning (weak, `Step`) and a SessionInfo read that is tried for ever succeeds at some point
(strong, `ReadInfo`). `Reader`: the pipeline thread runs (weak, `Read`), its waits end after at
most a second. `Host`: that, and the status thread and the main thread run (weak); failing
writes are bounded in number, so one succeeds in the end. Nothing is assumed of iRacing, the
destination, the driver or Ctrl-C. The other modules are checked for safety only and state no
fairness: they are called with every frame and answer in it, and `DecidedInTime` says by the
frame what an "eventually" would say weaker.

`CHECK_DEADLOCK` is off in `host` and `find_unread_vars` only: there the process ends, and
iRacing has no ticks left. Elsewhere a process that has exited stutters.

## Findings

* `find_unread_vars`: `REQUIRED_VARS` (`src/irsdk/reader.rs:71`) lacks FuelLevel, Throttle,
  Brake, Speed and the tyre temperatures, which `build_frame` looks up in the index that was
  built from it: they are 0.0 in every frame.
* `find_subject`: an event is enqueued when the driver of its car has a name
  (`src/bin/publisher.rs:801-804`). Its subject may be another car: when the opponent of a battle
  leads, the subject is the publisher's own, and lacks its name in the trace, where
  `docs/publisher-event-contract.md:65` says that the car an event is about is always named. The
  release of held events (622-629) completes `car` only, and so has the same effect.
* `find_midnight`: the synthetic id of an AI session is computed again at each refresh, with the
  day in it (`src/session_info.rs:437`).
* `find_checkered`: `checkered_emitted` (`src/engine.rs:328`) lives as long as the engine, which
  serves all sessions of a sub-session: a race after a practice that was flagged off has no
  RACE_CHECKERED. The comment at 323, `docs/publisher-event-contract.md:132` and
  `docs/race-events-emission-report.md:251` say once per session.
* `find_speed_drop`: the detector compares smoothed speeds (`src/basic_incident.rs:84`), of which a
  frame replaces a tenth (`src/car_registry.rs:120-126`), so a collapse of a fifth is out of its
  reach while the registry has the car (theorem `DropsAreReturns`).
  `docs/race-events-emission-report.md:551` and the comment at 97 speak of severe speed drops; the
  test at 220-245 sets the smoothed speed by hand.

## Observed

Read in the code while modelling; the models have these steps, and the properties are stated so
that they do not claim the contrary.

* Transport: the flush at shutdown returns at the first failing batch and leaves the rest in the
  queue (`src/transport.rs:291`; line 275 says it drains).
* Pipeline: the SESSION_RESET of a restarted clock goes out under the id that is known, also when
  it is about to be replaced (`src/bin/publisher.rs:728`,
  `docs/publisher-event-contract.md:236-240`); GOODBYE at shutdown may be posted under id 0 (992,
  against the comment at 826-827); adopting an id drops the held events although the
  comment at 615-618 lets them wait for a roster; held events overtake each other's sequence
  numbers (`docs/publisher-event-contract.md:20`); a HELLO may lack the driver name (408).
* Identity: the synthetic id is positive (`src/session_info.rs:449-450`), 420 and
  `src/bin/publisher.rs:518` call it negative; two AI sessions on one track and UTC day share it.
  While a text has the next sub-session's roster and not its id, the roster is replaced and the
  id kept (`src/bin/publisher.rs:529-613`): events then go out under the departed id with names of
  the next sub-session, against `docs/publisher-event-contract.md:234-240`. `NamesNotOlder` is
  therefore stated for earlier sub-sessions only.
* Controls: a report without readable buttons counts as a release, so that a held button is a
  new press (`src/controls_input.rs:356`, `src/controls.rs:237-239`). `ButtonlessReports = TRUE`
  makes `OneUsePerHold` fail.
* Status file: after the pipeline has ended both writers may have the temporary file open
  (`src/bin/publisher.rs:259-266`); `FileWhole` is stated for the time before.
* Reader: the comment at `src/irsdk/reader.rs:88` calls the session budgets optional;
  `try_connect` insists on them (`src/irsdk/mod.rs:135`).
* Engine: pit laps and dirty laps survive from one session to the next, which can only make
  a clean lap dirty; the number of skirmishes with an opponent stays at one, since its state never
  is idle again once it was counted (`src/car_registry.rs:201`, where
  `docs/race-events-emission-report.md:124` and 174 show two; the history is not modelled);
  BATTLE_BROKEN is not said when a gap merely widens (`docs/data-models.md:271`), and two may name
  one battle (`docs/publisher-event-contract.md:189`), one from the pair tracker and one from the
  player's own threat.

## Proofs

`TransportProofs` proves, for every number of events, batch limit, retry count, refresh buffer
and set of token lives:

* `TypeCorrect`: `TypeOK` is invariant, with the bounds on the batch and on the attempts.
* `EventsAccounted`: `Accounting` and `AckedWasReceived`.
* `ReceiptsOrdered`: `OrderedReceipt`.
* `TransportImplementsStream`: every behaviour is one of `EventStream`.

* `ReceiptsBounded`: `ReceiptBound`.
* `TokensAlive`: `TokenAlive`.

Only `TokenAlive` is inductive (given the types). `IInv` adds: what was settled, the batch and the
queue are, in this order, the numbers 1 to `enqueued` (`Contiguous`), so taking a prefix keeps
everything apart; the batch is not empty exactly while it is posted (`BatchInv`); what was
received is settled or is the batch, and an "ok" answer means the batch was received last
(`ReceivedInv`). `ReceiptInv` bounds the receipts of each event by the attempts that are over
and the one under way. TLC checked these before they were proved. The step is split by what an
action touches: control only, the queue, the batch, the receipts. The assumptions are the named
ones of `Transport`.

`PublisherProofs` proves the safety properties of `sessions` and `reconnect`, for every field of
cars, cap and bound, every order of the frames, of SessionInfo and of the live session, and every
failing flush: `HelloComesFirst`, `ConnectedOnce`, `TransitionsAnnounced`, `IdsGoForward`,
`EnvelopesKeepUp`, `RequestsOnce`. The log only grows, so what holds of it before a step holds of
it after, and only what a step adds is looked at (`LogGrows`). The invariant then relates the log
to what the code keeps. `Ids`: ids only go up from what was logged to what is adopted, read,
published and live. `HeldInv`: what is held was built under the present id and in this attach.
`FreshInv`: `fresh` and `emit_iracing_connected` say truly what this attach has announced, and
when a second HELLO is due, the last two entries are its GOODBYE and SESSION_RESET; this is what
the second conjunct of `TransitionAnnounced` needs. `RequestInv`: no request has a number that
was not pressed yet. What is published of the requests that wait is any selection of them, in
their order (`Orders`).

`LabelsProofs` proves `NamesOfNoEarlierSession`, `TypeGivenFits` and `NamedWhenSent` for every
field of cars, weekend, set of AI sub-sessions, day and text. `IdInv`: the id is of a sub-session
that iRacing has reached, which needs that no two of them share an id (`IdsDiffer`) and that a
text only has its own (`IdOfText`); `NamesInv`: the roster names nobody of an earlier one than
that; `HeldInv`: what is held was built under the present id with such names, and its car is one
the roster does not name; `InformedInv`: the type is that of the number that was looked up last,
and the frame asks for no other; `OutInv`: what is enqueued names nobody else. That ids
and types are found at all by the first position with a property needs the least of a set of
numbers (`Least`), which `WellFoundedInduction` gives through the finite subsets of `Nat`.

`ControlsProofs` proves all that its run checks, for every rig, every file at the start, every
clock, debounce and cooldown: `FileAgreesAlways`, `RequestsPaced`, `AnsweredAsBound`,
`HoldsUsedOnce`. `FileAgrees` is inductive as it stands. `Paced` needs `PaceInv`: what was
requested is no later than what the dispatcher keeps of its action and its button, and what is
to be sent is a cooldown and a debounce later. `RequestAsBound` needs `CopyInv`: while a press in
hand is newer than the last change, the copy is the configuration. `OneUsePerHold` needs the
journey of a hold from the rig to its use: a queue in which a button that shows one hold twice
shows it in between (`QueueInv`), a tracker that has every button whose hold was seen (`SeenInv`),
and no hold twice in hand (`InHandInv`). The theorem assumes `~ButtonlessReports`, as the run does:
without it the property fails (see "Observed").

`BattlePairsProofs` proves all that its run checks, for every set of pairs and gaps, every pair
of thresholds and every bound: `TypeCorrect`, `DecisionsInTime`, `EvidenceForEach`,
`PairsTellOfFights` (the tracker implements `Fights`). The invariant that carries all four says
that the counters of the code equal the history `inARow`: `FarInv` for pairs in a battle (through
`Far(p)` while the first loop has not come to the pair), `CandidateInv` for the others (one
behind until the second loop has counted the pair, and only a lower bound once the limit on
fights was met). `TodoInv` says which pairs a loop still has to visit. With the counters below
their thresholds (`TypeOK`) at the end of a frame, the two equalities give both directions of
"decided exactly when due". The assumptions are `EngageGap <= BreakGap` and positive thresholds;
the first is needed, or a pair would be close and away at once. No arithmetic of the frames
themselves enters, so the result holds for the 30-frame and 2.5-second values of the code.

`DrivingProofs` proves, of `SessionEvents`, `PictureStaysCurrent` and `EndingIsToldOnce` for any sessions, kinds, states and flags. `PictureInv` says that once the sub-session is known
the tracker's last observation, the consumer's picture and the frame are one, and that the
tracker takes the end for announced exactly when the consumer was warned; without the second
part the two halves of `EndingToldOnce` do not follow.

Of `Threats` it proves `BrokenNamesItsEngagement` and `SidesStayQuiet` for any cars, gaps,
thresholds and cooldown. `Kept` says of each side that its engaged cars are those announced and
not broken, that the tracked car's start is the time of its announcement, and that the
time the cooldown counts from is the one the side last spoke at. What a frame says of one side is
independent of the other, so the step is proved for one side.

Of `Laps` it proves `LapTypes`, `PitRoadAlwaysTold` and `LapsAsDriven`. `Recorded` is the
strengthening: what disturbed the present lap is on record under its number, where an earlier
session may have left more, never less. `EachPartIsFollowed` says that the composition that TLC
checks is, part by part, a behaviour of the seven specifications, so their theorems hold in it.

`DetectorsProofs` proves, of `LapEnd`, `SaidOfThisStint` and `AlertsArePaired`. `StintInv` bounds each window by
the laps since the stop, `AlertInv` says that the flag is what was told and is down after a pit
lap.

Of `Incidents` it proves `DropsAreReturns` and `AlertsAreOfDrivers`. While the registry has the car, the detector's
snapshot is what the registry holds; smoothing keeps nine tenths of a speed but for
rounding, and a collapse is a loss of a fifth and of at least `DropLimit`. `DropLimit` is at least
2 because a speed is rounded down to a whole m/s; the code has 8. The second theorem needs
`DroveInv`: a car whose snapshot is kept as driving was seen driving, also over an expiry.

Of `Sectors` it proves `RunsAreReported`, for any number of buckets, segment times and thresholds.
The module compares two recursions: the pass of the code, which carries an open streak and its
sum, and the reference, which picks the longest runs and adds each up. A recursive function of
TLA+ is chosen among those that satisfy its equation, so the lemmas first build such a function
bucket by bucket and show that the equation leaves no choice (`TotalAddsUp`, `PassesGoOn`);
induction over the buckets is again by the least of a set of numbers. `PassIs` is the invariant
of the pass: the open streak is as long as it can be to the left, ends at the bucket before and
has the sum of the reference (`OpenIs`), and every longest run that ends before it and adds up
to enough is told, once and in order (`ToldIs`). The step of the module is then one
application of it: what `EndLap` compares is what `Compared` tells.

`HostProofs` proves, for any number of buffers, starts and layouts, that the process adds no step
to the reader (`HostReads`) and, of the process, three invariants.

* `FramesAreWhole`, under `MaxLag + 2 <= NumBuf`: each buffer has the newest tick of its turn and
  is of one tick unless its turn is next (`Newest`, `OneTick`), and the buffer that is copied keeps
  its tick until `NumBuf - 1` more are complete (`CopyInv`). The condition is what the unchecked
  copy of `read_frame` rests on.
* `IndexIsCurrent`, without that condition: an index is of the present start while the thread is
  connected, and iRacing does not start again before the thread has let go (`Attached`); all
  buffers are of the present start, also while one is being written (`OfThisStart`). So a frame
  may be torn where the condition fails, but its bytes are never decoded with another layout.
* `FileIsWhole`: while the pipeline runs only the status thread writes, and what it writes has the
  temporary name; the final name never refers to the same file (`Filing`). A failed write leaves
  its file under the temporary name, which the next `Create` empties.

All assumptions are the named ones of the modules, the condition of `FramesAreWhole` and
`~ButtonlessReports` in `HoldsUsedOnce`.

Every safety property that a passing run checks is a theorem. Out of the prover's reach, and only
model-checked: `EventSettles`, `PublishedIdAdopted`, `Follows` and `StatusTold` (liveness under
fairness). The properties of the violated runs are false.

## Plan

1. The field detectors of `process_frame` (traffic intercepts, compression zones, horizon): once
   their statistics are inputs, their deduplication by pair and lap is control.
2. Log rotation of `headless.rs`, and the interval arithmetic of `lifecycle.rs` against the
   periodic events of `Publisher`.
3. An abstract request channel that `Controls` and `Publisher` both refine, so that a press is
   followed from button to envelope.
4. Theorems: what the composition of the reader, the pipeline and the transport preserves, once 3
   is there.

## Not modelled

The numbers of event payloads, among them the history of each opponent, the event key and the catalogue (data and formatting); the
regressions, anchors, lift and coast, braking and lap-time estimates (floating-point statistics:
their results are inputs where a modelled part uses them); the incident clusters, whose
baselines depend on the iteration order of a hash map within one update (a cluster all of whose
cars recover in one frame is never resolved, `src/incident_cluster.rs:73`); traffic intercepts,
compression zones and horizon; configuration parsing; TLS pinning; log rotation; drawing;
replay. A `controls.toml` whose write was cut off is read as the defaults or not at all
(`Torn`); one that is still valid TOML, with a prefix of the bindings, is not distinguished. The
speeds and surfaces of `Incidents` are whole numbers, which rounds where the code has fractions.
