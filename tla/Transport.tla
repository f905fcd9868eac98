----------------------------- MODULE Transport -----------------------------
(***************************************************************************)
(* PublisherTransport (src/transport.rs): the in-memory event queue, the   *)
(* flush loop, the attempts of one batch with the cached Entra token, and  *)
(* the destination at the other end of the POST.                           *)
(*                                                                         *)
(* The object is owned by the pipeline thread and fully synchronous: while *)
(* a flush is under way nothing else of the program touches it, so the     *)
(* concurrency is with the destination (which may receive a batch whose    *)
(* answer is lost), with the token issuer and with the clock.              *)
(*                                                                         *)
(* An event is the number of the enqueue call that brought it.  Durations  *)
(* are counted in units of TOKEN_REFRESH_BUFFER_S.                         *)
(***************************************************************************)
EXTENDS Integers, Sequences, FiniteSets

CONSTANTS
    Modes,               \* the destinations configured: subset of AllModes
    BatchLimit,          \* BATCH_LIMIT
    Retries,             \* retry_delays.len()
    RefreshBuffer,       \* TOKEN_REFRESH_BUFFER_S
    Lifetimes,           \* the expires_in values the issuer may grant
    MaxEvents            \* bound: enqueue calls per behaviour

AllModes == {"entra", "static", "dry_run"}

ASSUME ModesAssumption == Modes \subseteq AllModes
ASSUME BatchLimitAssumption == BatchLimit \in Nat \ {0}
ASSUME RetriesAssumption == Retries \in Nat
ASSUME TokenAssumption == RefreshBuffer \in Nat \ {0} /\ Lifetimes \subseteq Nat \ {0}
ASSUME MaxEventsAssumption == MaxEvents \in Nat

VARIABLES
    mode,                \* the credential / dry_run configuration, fixed at start
    pc,                  \* where the pipeline thread is inside the transport
    closing,             \* the flush under way is the one of the shutdown
    queue,               \* the queue field
    intervalElapsed,     \* last_flush.elapsed() >= batch_interval_ms
    batch,               \* the batch drained by flush and owned by post_batch
    attempt,             \* the attempt counter of the retry loop
    forced,              \* the attempt is the one after a 401 and a forced refresh
    token,               \* remaining life of cached_token at the issuer, or NoToken
    answer,              \* result of the last POST of this batch
    enqueued,            \* how many events have been enqueued
    received,            \* the batches the destination took, in order
    acked,               \* events of batches for which post_batch returned Ok
    failed               \* events of batches for which it returned Err

vars == <<mode, pc, closing, queue, intervalElapsed, batch, attempt, forced,
          token, answer, enqueued, received, acked, failed>>

flushVars == <<mode, closing, enqueued>>
postVars == <<mode, closing, queue, intervalElapsed, batch, enqueued>>

NoToken == -1
Answers == {"none", "ok", "unauthorized", "rejected", "failed", "network"}
Locations == {"run", "drain", "token", "post", "answer", "exited"}

EventsIn(s) == {s[i] : i \in DOMAIN s}
-----------------------------------------------------------------------------
\* At start warmup_auth has asked for a token, and has got one or failed.
Init ==
    /\ mode \in Modes
    /\ pc = "run"
    /\ closing = FALSE
    /\ queue = <<>>
    /\ intervalElapsed = FALSE
    /\ batch = <<>>
    /\ attempt = 0
    /\ forced = FALSE
    /\ token \in IF mode = "entra" THEN {NoToken} \cup Lifetimes ELSE {NoToken}
    /\ answer = "none"
    /\ enqueued = 0
    /\ received = <<>>
    /\ acked = {}
    /\ failed = {}

\* enqueue: an unbounded push.
Enqueue ==
    /\ pc = "run"
    /\ enqueued < MaxEvents
    /\ enqueued' = enqueued + 1
    /\ queue' = Append(queue, enqueued')
    /\ UNCHANGED <<mode, pc, closing, intervalElapsed, batch, attempt, forced,
                   token, answer, received, acked, failed>>

\* A flush call that finds the queue empty returns Ok(false) and changes nothing,
\* last_flush included; one that does not enters the drain loop.
StartFlush ==
    /\ pc = "run"
    /\ queue # <<>>
    /\ pc' = "drain"
    /\ UNCHANGED <<mode, queue, intervalElapsed, batch, attempt, forced, token,
                   answer, enqueued, received, acked, failed>>

\* tick and tick_result, once per frame.
TickDueOnlyWhenFull == Len(queue) >= BatchLimit
TickDue == intervalElapsed \/ Len(queue) >= BatchLimit
Tick == TickDue /\ StartFlush /\ UNCHANGED closing

\* The pipeline's explicit flushes: session change, iRacing gone, driver request.
FlushNow == StartFlush /\ UNCHANGED closing

\* The flush of the shutdown, after which the process exits whatever it returned.
Shutdown ==
    \/ /\ StartFlush
       /\ closing' = TRUE
    \/ /\ pc = "run"
       /\ queue = <<>>
       /\ pc' = "exited"
       /\ closing' = TRUE
       /\ UNCHANGED <<mode, queue, intervalElapsed, batch, attempt, forced, token,
                      answer, enqueued, received, acked, failed>>

Returned == IF closing THEN "exited" ELSE "run"

\* The batch leaves the queue before it is posted.
BatchSize == IF Len(queue) < BatchLimit THEN Len(queue) ELSE BatchLimit
RestKeepingLast == SubSeq(queue, BatchSize, Len(queue))
Rest == SubSeq(queue, BatchSize + 1, Len(queue))
TakeBatch ==
    /\ pc = "drain"
    /\ queue # <<>>
    /\ batch' = SubSeq(queue, 1, BatchSize)
    /\ queue' = Rest
    /\ pc' = "token"
    /\ attempt' = 0
    /\ forced' = FALSE
    /\ answer' = "none"
    /\ UNCHANGED <<flushVars, intervalElapsed, token, received, acked, failed>>

\* The loop ends with the queue empty: last_flush = now.
FlushDone ==
    /\ pc = "drain"
    /\ queue = <<>>
    /\ intervalElapsed' = FALSE
    /\ pc' = Returned
    /\ UNCHANGED <<flushVars, queue, batch, attempt, forced, token, answer,
                   received, acked, failed>>
-----------------------------------------------------------------------------
\* post_batch returns Err: the batch is a local of flush, so it is gone, and the
\* `?` leaves flush with the rest of the queue in place and last_flush unchanged.
RequeueAtBack == queue \o batch
QueueAfterFailure == queue
GiveUp ==
    /\ queue' = QueueAfterFailure
    /\ failed' = failed \cup EventsIn(batch)
    /\ batch' = <<>>
    /\ attempt' = 0
    /\ forced' = FALSE
    /\ answer' = "none"
    /\ pc' = Returned
    /\ UNCHANGED <<flushVars, intervalElapsed, received, acked>>

\* get_or_refresh_token: expires_at is stored one buffer before the real expiry and
\* compared with now plus one buffer.
NeedsRefreshNever == token = NoToken
NeedsRefresh ==
    \/ forced
    \/ token = NoToken
    \/ token - RefreshBuffer <= RefreshBuffer

UseToken ==
    /\ pc = "token"
    /\ mode = "static" \/ (mode = "entra" /\ ~NeedsRefresh)
    /\ pc' = "post"
    /\ UNCHANGED <<postVars, attempt, forced, token, answer, received, acked, failed>>

FetchToken ==
    /\ pc = "token"
    /\ mode = "entra"
    /\ NeedsRefresh
    /\ token' \in Lifetimes
    /\ pc' = "post"
    /\ UNCHANGED <<postVars, attempt, forced, answer, received, acked, failed>>

\* A failed fetch ends post_batch, and is not retried.
FetchTokenFails ==
    /\ pc = "token"
    /\ mode = "entra"
    /\ NeedsRefresh
    /\ GiveUp
    /\ UNCHANGED token

\* Dry run: the batch goes to stdout instead.
PrintBatch ==
    /\ pc = "token"
    /\ mode = "dry_run"
    /\ received' = Append(received, batch)
    /\ answer' = "ok"
    /\ pc' = "answer"
    /\ UNCHANGED <<postVars, attempt, forced, token, acked, failed>>

\* The destination (external) takes the batch; the answer may still be a 5xx of
\* something in between, or be lost on its way back.
ServerAccepts ==
    /\ pc = "post"
    /\ mode = "entra" => token > 0
    /\ received' = Append(received, batch)
    /\ answer' \in {"ok", "failed", "network"}
    /\ pc' = "answer"
    /\ UNCHANGED <<postVars, attempt, forced, token, acked, failed>>

\* It does not take it: 401, another 4xx, 5xx, or it was never reached.
ServerRefuses ==
    /\ pc = "post"
    /\ answer' \in {"unauthorized", "rejected", "failed", "network"}
    /\ pc' = "answer"
    /\ UNCHANGED <<postVars, attempt, forced, token, received, acked, failed>>
-----------------------------------------------------------------------------
\* Ok(resp): post_batch returns and flush goes round its loop.
Succeeded == answer = "ok"
Posted ==
    /\ pc = "answer"
    /\ Succeeded
    /\ acked' = acked \cup EventsIn(batch)
    /\ batch' = <<>>
    /\ attempt' = 0
    /\ forced' = FALSE
    /\ answer' = "none"
    /\ pc' = "drain"
    /\ UNCHANGED <<flushVars, queue, intervalElapsed, token, received, failed>>

\* 401 on the first attempt: drop the cached token and post once more with a new one.
Reauthorize ==
    /\ pc = "answer"
    /\ answer = "unauthorized"
    /\ mode = "entra"
    /\ attempt = 0
    /\ ~forced
    /\ token' = NoToken
    /\ forced' = TRUE
    /\ pc' = "token"
    /\ UNCHANGED <<postVars, attempt, answer, received, acked, failed>>

\* Any other answer moves the loop on while attempts are left.
MayRetryOnceMore == ~forced /\ answer # "unauthorized" /\ attempt <= Retries
MayRetry == ~forced /\ answer # "unauthorized" /\ attempt < Retries
Retry ==
    /\ pc = "answer"
    /\ answer \notin {"none", "ok"}
    /\ MayRetry
    /\ attempt' = attempt + 1
    /\ pc' = "token"
    /\ UNCHANGED <<postVars, forced, token, answer, received, acked, failed>>

\* 401 with a static token or not on the first attempt, anything but success after
\* a forced refresh, or the last attempt failed.
Exhausted ==
    /\ pc = "answer"
    /\ answer \notin {"none", "ok"}
    /\ \/ forced
       \/ (answer = "unauthorized" /\ (mode = "static" \/ attempt > 0))
       \/ (answer # "unauthorized" /\ attempt >= Retries)
    /\ GiveUp
    /\ UNCHANGED token

\* Time passes between frames and in the sleep that starts an attempt; one network
\* call is assumed to take less than the refresh buffer.
Elapse ==
    /\ pc = "run" \/ (pc = "token" /\ ~forced)
    /\ intervalElapsed' = TRUE
    /\ token' = IF token > 0 THEN token - 1 ELSE token
    /\ UNCHANGED <<mode, pc, closing, queue, batch, attempt, forced, answer,
                   enqueued, received, acked, failed>>

Exited == pc = "exited" /\ UNCHANGED vars

PostBatch ==
    \/ UseToken \/ FetchToken \/ FetchTokenFails \/ PrintBatch
    \/ ServerAccepts \/ ServerRefuses
    \/ Posted \/ Reauthorize \/ Retry \/ Exhausted

Flush == TakeBatch \/ FlushDone \/ PostBatch

Next == Enqueue \/ Tick \/ FlushNow \/ Shutdown \/ Flush \/ Elapse \/ Exited

\* The thread keeps running: every frame ticks the transport, and a flush goes on
\* step by step.  That a POST or a token request comes back at all is an assumption
\* about the network: the agent is built with no read timeout.
Fairness == WF_vars(Tick) /\ WF_vars(Flush) /\ WF_vars(Elapse)

Spec == Init /\ [][Next]_vars /\ Fairness
-----------------------------------------------------------------------------
TypeOK ==
    /\ mode \in Modes
    /\ pc \in Locations
    /\ closing \in BOOLEAN
    /\ queue \in Seq(1..enqueued)
    /\ intervalElapsed \in BOOLEAN
    /\ batch \in Seq(1..enqueued)
    /\ Len(batch) <= BatchLimit
    /\ attempt \in 0..Retries
    /\ forced \in BOOLEAN
    /\ token \in Nat \cup {NoToken}
    /\ answer \in Answers
    /\ enqueued \in 0..MaxEvents
    /\ received \in Seq(Seq(1..enqueued))
    /\ acked \subseteq 1..enqueued
    /\ failed \subseteq 1..enqueued

\* No event is lost track of and none is settled twice: an event that was enqueued
\* is in the queue, in the batch being posted, in a batch reported posted or in one
\* given up, and in exactly one of these (flush drains the batch before it posts it,
\* and returns early on an error).
Accounting ==
    /\ EventsIn(queue) \cup EventsIn(batch) \cup acked \cup failed = 1..enqueued
    /\ EventsIn(queue) \cap (EventsIn(batch) \cup acked \cup failed) = {}
    /\ EventsIn(batch) \cap (acked \cup failed) = {}
    /\ acked \cap failed = {}

\* A batch reported posted was taken by the destination: Ok is never returned for
\* events that only retries, refreshes and lost answers happened to.
AckedWasReceived ==
    acked \subseteq UNION {EventsIn(received[k]) : k \in DOMAIN received}

\* Whatever was retried, dropped or received twice, the destination never sees an
\* event after a later one: of two receipts either both are of the same batch or all
\* events of the first were enqueued before those of the second.
OrderedReceipt ==
    \A i, j \in DOMAIN received :
        i < j => \/ received[i] = received[j]
                 \/ \A d \in EventsIn(received[i]), e \in EventsIn(received[j]) : d < e

\* An event reaches the destination at most once per attempt of the retry loop; the
\* extra POST after a 401 adds none, because the 401 itself was a refusal.
Receipts(e) == {k \in DOMAIN received : e \in EventsIn(received[k])}
ReceiptBound == \A e \in 1..enqueued : Cardinality(Receipts(e)) <= Retries + 1

\* A POST never carries a cached Entra token the issuer has already expired, however
\* long the retry sleeps and the pauses between flushes were.
TokenAlive == pc = "post" /\ mode = "entra" => token > 0

\* Every event that is queued is posted or given up, even when the queue never
\* reaches the batch limit and earlier batches fail, unless the process exits.
EventSettles ==
    \A e \in 1..MaxEvents :
        e \in EventsIn(queue) ~> (e \in acked \cup failed \/ pc = "exited")

\* The transport is an EventStream.
Stream == INSTANCE EventStream WITH
    submitted <- enqueued, pending <- queue, inFlight <- batch,
    confirmed <- acked, dropped <- failed
StreamSpec == Stream!StreamSpec
=============================================================================
