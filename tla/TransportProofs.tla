-------------------------- MODULE TransportProofs --------------------------
(***************************************************************************)
(* What TLAPS proves of Transport for every value of its constants: types, *)
(* the accounting of events, the order and the number of receipts, live    *)
(* tokens, and that the transport implements EventStream.                  *)
(*                                                                         *)
(* The argument is one inductive invariant: events are numbered in enqueue *)
(* order and leave the queue at its head only, so at any time the settled  *)
(* events are 1..Settled, the batch continues after them and the queue     *)
(* after the batch.  Accounting alone is not inductive (it does not say    *)
(* which events the head of the queue holds), nor is OrderedReceipt (it    *)
(* does not say that what is still to be posted is newer than what was     *)
(* received).                                                              *)
(***************************************************************************)
EXTENDS Transport, SequenceTheorems, FiniteSetTheorems, TLAPS

Settled == enqueued - Len(queue) - Len(batch)

\* Queue and batch hold the events after the settled ones, in enqueue order.
Contiguous ==
    /\ Settled >= 0
    /\ \A i \in 1..Len(batch) : batch[i] = Settled + i
    /\ \A i \in 1..Len(queue) : queue[i] = Settled + Len(batch) + i

SettledInv ==
    /\ acked \cup failed = 1..Settled
    /\ acked \cap failed = {}

\* There is a batch exactly while post_batch runs.
Posting == {"token", "post", "answer"}
BatchInv ==
    /\ pc \in Posting <=> batch # <<>>
    /\ pc = "answer" /\ answer = "ok" =>
         received # <<>> /\ received[Len(received)] = batch

\* What was received is the batch in flight or older than it.
ReceivedInv ==
    \A k \in DOMAIN received :
        received[k] = batch \/ \A e \in EventsIn(received[k]) : e <= Settled

IInv == TypeOK /\ Contiguous /\ SettledInv /\ BatchInv /\ ReceivedInv
        /\ AckedWasReceived /\ OrderedReceipt
-----------------------------------------------------------------------------
\* Elements of a sequence are those at its positions.
LEMMA EventsInSeq ==
    ASSUME NEW S, NEW s \in Seq(S)
    PROVE  EventsIn(s) = {s[i] : i \in 1..Len(s)} /\ EventsIn(s) \subseteq S
BY LenProperties, ElementOfSeq DEF EventsIn

\* What drain(..n) does: the batch and the rest have the positions of the queue.
LEMMA DrainProperties ==
    ASSUME NEW S, NEW q \in Seq(S), NEW n \in 0..Len(q)
    PROVE  /\ SubSeq(q, 1, n) \in Seq(S)
           /\ Len(SubSeq(q, 1, n)) = n
           /\ \A i \in 1..n : SubSeq(q, 1, n)[i] = q[i]
           /\ SubSeq(q, n + 1, Len(q)) \in Seq(S)
           /\ Len(SubSeq(q, n + 1, Len(q))) = Len(q) - n
           /\ \A i \in 1..(Len(q) - n) : SubSeq(q, n + 1, Len(q))[i] = q[n + i]
<1>1. Len(q) \in Nat /\ \A i \in 1..Len(q) : q[i] \in S
  BY LenProperties, ElementOfSeq
<1>2. \A i \in 1..n : q[i] \in S
  BY <1>1
<1>3. \A i \in (n + 1)..Len(q) : q[i] \in S
  BY <1>1
<1>4. /\ SubSeq(q, 1, n) \in Seq(S)
      /\ Len(SubSeq(q, 1, n)) = IF 1 <= n THEN n - 1 + 1 ELSE 0
      /\ \A i \in 1..(n - 1 + 1) : SubSeq(q, 1, n)[i] = q[1 + i - 1]
  BY <1>1, <1>2, SubSeqProperties
<1>5. /\ SubSeq(q, n + 1, Len(q)) \in Seq(S)
      /\ Len(SubSeq(q, n + 1, Len(q))) = IF n + 1 <= Len(q) THEN Len(q) - (n + 1) + 1 ELSE 0
      /\ \A i \in 1..(Len(q) - (n + 1) + 1) : SubSeq(q, n + 1, Len(q))[i] = q[(n + 1) + i - 1]
  BY <1>1, <1>3, SubSeqProperties
<1>6. QED
  BY <1>1, <1>4, <1>5

LEMMA InitIInv == Init => IInv
<1> SUFFICES ASSUME Init PROVE IInv
  OBVIOUS
<1>1. /\ queue \in Seq(1..enqueued)
      /\ batch \in Seq(1..enqueued)
      /\ received \in Seq(Seq(1..enqueued))
      /\ Len(batch) = 0
  BY EmptySeq DEF Init
<1>0. token \in Nat \cup {NoToken}
  BY TokenAssumption DEF Init, NoToken
<1>2. mode \in Modes /\ pc \in Locations /\ token \in Nat \cup {NoToken} /\ answer \in Answers
  BY <1>0 DEF Init, Locations, Answers
<1>3. closing \in BOOLEAN /\ intervalElapsed \in BOOLEAN /\ forced \in BOOLEAN
  BY DEF Init
<1>4. Len(batch) <= BatchLimit /\ attempt \in 0..Retries /\ enqueued \in 0..MaxEvents
  BY <1>1, BatchLimitAssumption, RetriesAssumption, MaxEventsAssumption DEF Init
<1>5. acked \subseteq 1..enqueued /\ failed \subseteq 1..enqueued
  BY DEF Init
<1>6. TypeOK
  BY <1>1, <1>2, <1>3, <1>4, <1>5 DEF TypeOK
<1>7. Contiguous /\ SettledInv
  BY DEF Init, Contiguous, SettledInv, Settled
<1>8. BatchInv /\ ReceivedInv /\ AckedWasReceived /\ OrderedReceipt
  BY DEF Init, BatchInv, ReceivedInv, AckedWasReceived, OrderedReceipt, Posting
<1> QED
  BY <1>6, <1>7, <1>8 DEF IInv

\* The control variables keep their types in every step.
ControlTypeOK ==
    /\ mode \in Modes
    /\ pc \in Locations
    /\ closing \in BOOLEAN
    /\ intervalElapsed \in BOOLEAN
    /\ attempt \in 0..Retries
    /\ forced \in BOOLEAN
    /\ token \in Nat \cup {NoToken}
    /\ answer \in Answers

LEMMA ControlTypes == ControlTypeOK /\ [Next]_vars => ControlTypeOK'
<1> SUFFICES ASSUME ControlTypeOK, [Next]_vars PROVE ControlTypeOK'
  OBVIOUS
<1> USE DEF ControlTypeOK
<1>1. CASE Enqueue
  BY <1>1 DEF Enqueue
<1>2. CASE Tick \/ FlushNow \/ Shutdown
  BY <1>2 DEF Tick, FlushNow, Shutdown, StartFlush, Locations
<1>3. CASE TakeBatch
  <2>1. attempt' \in 0..Retries
    BY <1>3, RetriesAssumption DEF TakeBatch
  <2> QED
    BY <1>3, <2>1 DEF TakeBatch, flushVars, Locations, Answers
<1>4. CASE FlushDone
  BY <1>4 DEF FlushDone, flushVars, Returned, Locations
<1>5. CASE UseToken
  BY <1>5 DEF UseToken, postVars, Locations
<1>6. CASE FetchToken
  BY <1>6, TokenAssumption DEF FetchToken, postVars, Locations
<1>7. CASE FetchTokenFails \/ Exhausted
  <2>1. GiveUp /\ token' = token
    BY <1>7 DEF FetchTokenFails, Exhausted
  <2>2. attempt' \in 0..Retries
    BY <2>1, RetriesAssumption DEF GiveUp
  <2> QED
    BY <2>1, <2>2 DEF GiveUp, Returned, flushVars, Locations, Answers
<1>8. CASE PrintBatch \/ ServerAccepts \/ ServerRefuses
  BY <1>8 DEF PrintBatch, ServerAccepts, ServerRefuses, postVars, Locations, Answers
<1>9. CASE Posted
  <2>1. attempt' \in 0..Retries
    BY <1>9, RetriesAssumption DEF Posted
  <2> QED
    BY <1>9, <2>1 DEF Posted, flushVars, Locations, Answers
<1>10. CASE Reauthorize
  BY <1>10 DEF Reauthorize, postVars, Locations
<1>11. CASE Retry
  <2>1. attempt' \in 0..Retries
    BY <1>11, RetriesAssumption DEF Retry, MayRetry
  <2> QED
    BY <1>11, <2>1 DEF Retry, postVars, Locations
<1>12. CASE Elapse
  <2>1. token' \in Nat \cup {NoToken}
    BY <1>12 DEF Elapse, NoToken
  <2> QED
    BY <1>12, <2>1 DEF Elapse
<1>13. CASE Exited \/ UNCHANGED vars
  BY <1>13 DEF Exited, vars
<1> QED
  BY <1>1, <1>2, <1>3, <1>4, <1>5, <1>6, <1>7, <1>8, <1>9, <1>10, <1>11, <1>12, <1>13
  DEF Next, Flush, PostBatch

\* Types of the data, and all of IInv that is about the data: what a step that
\* moves no event preserves at once.
DataTypeOK ==
    /\ queue \in Seq(1..enqueued)
    /\ batch \in Seq(1..enqueued)
    /\ Len(batch) <= BatchLimit
    /\ enqueued \in 0..MaxEvents
    /\ received \in Seq(Seq(1..enqueued))
    /\ acked \subseteq 1..enqueued
    /\ failed \subseteq 1..enqueued

DataInv == DataTypeOK /\ Contiguous /\ SettledInv /\ ReceivedInv
           /\ AckedWasReceived /\ OrderedReceipt

data == <<queue, batch, enqueued, received, acked, failed>>

LEMMA IInvParts == IInv <=> ControlTypeOK /\ BatchInv /\ DataInv
BY DEF IInv, TypeOK, ControlTypeOK, DataTypeOK, DataInv

LEMMA DataUnchanged == DataInv /\ UNCHANGED data => DataInv'
BY DEF DataInv, data, DataTypeOK, Contiguous, SettledInv, ReceivedInv,
       AckedWasReceived, OrderedReceipt, Settled, EventsIn

\* A new event goes behind the queue: nothing else is renumbered.
LEMMA EnqueueData == DataInv /\ BatchInv /\ Enqueue => DataInv' /\ BatchInv'
<1> SUFFICES ASSUME DataInv, BatchInv, Enqueue PROVE DataInv' /\ BatchInv'
  OBVIOUS
<1>1. enqueued \in Nat /\ enqueued' = enqueued + 1 /\ enqueued' \in 0..MaxEvents
  BY MaxEventsAssumption DEF Enqueue, DataInv, DataTypeOK
<1>2. 1..enqueued \subseteq 1..enqueued'
  BY <1>1
<1>3. /\ batch' = batch /\ received' = received /\ acked' = acked /\ failed' = failed
      /\ pc' = pc /\ answer' = answer
  BY DEF Enqueue
<1>4. queue \in Seq(1..enqueued') /\ batch \in Seq(1..enqueued')
  BY <1>2, SeqMonotonic DEF DataInv, DataTypeOK
<1>5. received \in Seq(Seq(1..enqueued'))
  <2>1. Seq(1..enqueued) \subseteq Seq(1..enqueued')
    BY <1>2, SeqMonotonic
  <2> QED
    BY <2>1, SeqMonotonic DEF DataInv, DataTypeOK
<1>6. /\ queue' \in Seq(1..enqueued')
      /\ Len(queue') = Len(queue) + 1
      /\ \A i \in 1..Len(queue) : queue'[i] = queue[i]
      /\ queue'[Len(queue) + 1] = enqueued + 1
  BY <1>1, <1>4, AppendProperties DEF Enqueue
<1>7. Len(queue) \in Nat /\ Len(batch) \in Nat
  BY <1>4, LenProperties
<1>8. Settled' = Settled
  BY <1>1, <1>3, <1>6, <1>7 DEF Settled
<1>9. DataTypeOK'
  BY <1>1, <1>2, <1>3, <1>4, <1>5, <1>6 DEF DataInv, DataTypeOK
<1>10. Contiguous'
  <2>1. Settled \in Nat /\ Settled + Len(batch) + Len(queue) = enqueued
    BY <1>1, <1>7 DEF DataInv, Contiguous, Settled
  <2>2. Len(batch') = Len(batch) /\ \A i \in 1..Len(batch') : batch'[i] = Settled' + i
    BY <1>3, <1>8 DEF DataInv, Contiguous
  <2>3. ASSUME NEW i \in 1..Len(queue')
        PROVE  queue'[i] = Settled' + Len(batch') + i
    <3>1. CASE i = Len(queue) + 1
      BY <3>1, <2>1, <1>3, <1>6, <1>8
    <3>2. CASE i \in 1..Len(queue)
      BY <3>2, <1>3, <1>6, <1>8 DEF DataInv, Contiguous
    <3> QED
      BY <3>1, <3>2, <1>6, <1>7
  <2> QED
    BY <2>1, <2>2, <2>3, <1>8 DEF Contiguous
<1>11. SettledInv' /\ ReceivedInv' /\ AckedWasReceived' /\ OrderedReceipt' /\ BatchInv'
  BY <1>3, <1>8 DEF DataInv, SettledInv, ReceivedInv, AckedWasReceived, OrderedReceipt,
                    BatchInv, EventsIn
<1> QED
  BY <1>9, <1>10, <1>11 DEF DataInv

\* drain(..n): the batch continues the settled events, the rest continues the batch.
LEMMA TakeBatchData == DataInv /\ BatchInv /\ TakeBatch => DataInv' /\ BatchInv'
<1> SUFFICES ASSUME DataInv, BatchInv, TakeBatch PROVE DataInv' /\ BatchInv'
  OBVIOUS
<1>1. /\ enqueued \in Nat /\ enqueued' = enqueued
      /\ received' = received /\ acked' = acked /\ failed' = failed
  BY MaxEventsAssumption DEF TakeBatch, flushVars, DataInv, DataTypeOK
<1>2. batch = <<>> /\ Len(batch) = 0
  BY DEF TakeBatch, BatchInv, Posting
<1>3. queue \in Seq(1..enqueued) /\ Len(queue) \in Nat /\ Len(queue) # 0
  BY EmptySeq, LenProperties DEF TakeBatch, DataInv, DataTypeOK
<1>4. BatchSize \in 1..Len(queue) /\ BatchSize <= BatchLimit
  BY <1>3, BatchLimitAssumption DEF BatchSize
<1>5. /\ batch' = SubSeq(queue, 1, BatchSize)
      /\ queue' = SubSeq(queue, BatchSize + 1, Len(queue))
  BY DEF TakeBatch, Rest
<1>6. BatchSize \in 0..Len(queue)
  BY <1>3, <1>4
<1>7. /\ batch' \in Seq(1..enqueued)
      /\ Len(batch') = BatchSize
      /\ \A i \in 1..BatchSize : batch'[i] = queue[i]
      /\ queue' \in Seq(1..enqueued)
      /\ Len(queue') = Len(queue) - BatchSize
      /\ \A i \in 1..(Len(queue) - BatchSize) : queue'[i] = queue[BatchSize + i]
  BY <1>3, <1>5, <1>6, DrainProperties
<1>8. Settled' = Settled
  BY <1>1, <1>2, <1>3, <1>4, <1>7 DEF Settled
<1>9. DataTypeOK'
  BY <1>1, <1>4, <1>7 DEF DataInv, DataTypeOK
<1>10. Contiguous'
  <2>1. Settled \in Nat /\ \A i \in 1..Len(queue) : queue[i] = Settled + i
    BY <1>1, <1>2, <1>3 DEF DataInv, Contiguous, Settled
  <2>2. ASSUME NEW i \in 1..Len(batch')
        PROVE  batch'[i] = Settled' + i
    <3>1. i \in 1..BatchSize /\ batch'[i] = queue[i]
      BY <1>7
    <3>2. i \in 1..Len(queue)
      BY <3>1, <1>3, <1>4
    <3> QED
      BY <3>1, <3>2, <2>1, <1>8
  <2>3. ASSUME NEW i \in 1..Len(queue')
        PROVE  queue'[i] = Settled' + Len(batch') + i
    <3>1. BatchSize + i \in 1..Len(queue)
      BY <1>3, <1>4, <1>7
    <3>2. queue'[i] = Settled + (BatchSize + i)
      BY <3>1, <2>1, <1>7
    <3> QED
      BY <3>2, <2>1, <1>4, <1>7, <1>8
  <2> QED
    BY <2>1, <2>2, <2>3, <1>8 DEF Contiguous
<1>11. ReceivedInv'
  <2>1. ASSUME NEW k \in DOMAIN received PROVE \A e \in EventsIn(received[k]) : e <= Settled
    BY <2>1, <1>2 DEF DataInv, ReceivedInv, EventsIn
  <2> QED
    BY <2>1, <1>1, <1>8 DEF ReceivedInv, EventsIn
<1>12. SettledInv' /\ AckedWasReceived' /\ OrderedReceipt'
  BY <1>1, <1>8 DEF DataInv, SettledInv, AckedWasReceived, OrderedReceipt, EventsIn
<1>13. BatchInv'
  <2>1. batch' # <<>>
    BY <1>4, <1>7, EmptySeq
  <2> QED
    BY <2>1 DEF TakeBatch, BatchInv, Posting
<1> QED
  BY <1>9, <1>10, <1>11, <1>12, <1>13 DEF DataInv

\* The events of the batch are the ones right after the settled ones.
LEMMA BatchEvents ==
    ASSUME DataInv
    PROVE  /\ enqueued \in Nat
           /\ Len(batch) \in Nat
           /\ Len(queue) \in Nat
           /\ Settled \in Nat
           /\ Settled + Len(batch) + Len(queue) = enqueued
           /\ EventsIn(batch) = (Settled + 1)..(Settled + Len(batch))
<1>1. enqueued \in Nat /\ batch \in Seq(1..enqueued) /\ queue \in Seq(1..enqueued)
  BY MaxEventsAssumption DEF DataInv, DataTypeOK
<1>2. Len(batch) \in Nat /\ Len(queue) \in Nat
  BY <1>1, LenProperties
<1>3. Settled \in Nat /\ Settled + Len(batch) + Len(queue) = enqueued
  BY <1>1, <1>2 DEF DataInv, Contiguous, Settled
<1>4. EventsIn(batch) = {batch[i] : i \in 1..Len(batch)}
  BY <1>1, EventsInSeq
<1>5. \A i \in 1..Len(batch) : batch[i] = Settled + i
  BY DEF DataInv, Contiguous
<1>6. ASSUME NEW e \in (Settled + 1)..(Settled + Len(batch))
      PROVE  e \in EventsIn(batch)
  <2>1. e - Settled \in 1..Len(batch) /\ batch[e - Settled] = e
    BY <1>2, <1>3, <1>5
  <2> QED
    BY <2>1, <1>4
<1>7. EventsIn(batch) \subseteq (Settled + 1)..(Settled + Len(batch))
  BY <1>2, <1>3, <1>4, <1>5
<1> QED
  BY <1>1, <1>2, <1>3, <1>6, <1>7

\* The batch is settled, one way or the other: reported posted when it is the last
\* thing received, or given up.
LEMMA SettleData ==
    ASSUME DataInv,
           batch' = <<>>, queue' = queue, enqueued' = enqueued, received' = received,
           \/ /\ acked' = acked \cup EventsIn(batch) /\ failed' = failed
              /\ received # <<>> /\ received[Len(received)] = batch
           \/ acked' = acked /\ failed' = failed \cup EventsIn(batch)
    PROVE  DataInv'
<1>1. /\ enqueued \in Nat /\ Len(batch) \in Nat /\ Len(queue) \in Nat
      /\ Settled \in Nat
      /\ Settled + Len(batch) + Len(queue) = enqueued
      /\ EventsIn(batch) = (Settled + 1)..(Settled + Len(batch))
  BY BatchEvents
<1>2. batch' \in Seq(1..enqueued) /\ Len(batch') = 0
  BY EmptySeq
<1>3. Settled' = Settled + Len(batch)
  BY <1>1, <1>2 DEF Settled
<1>4. EventsIn(batch) \subseteq 1..enqueued
  BY <1>1
<1>5. DataTypeOK'
  <2>1. Len(batch') <= BatchLimit
    BY <1>2, BatchLimitAssumption
  <2>2. acked' \subseteq 1..enqueued /\ failed' \subseteq 1..enqueued
    BY <1>4 DEF DataInv, DataTypeOK
  <2> QED
    BY <2>1, <2>2, <1>2 DEF DataInv, DataTypeOK
<1>6. Contiguous'
  BY <1>1, <1>2, <1>3 DEF DataInv, Contiguous
<1>7. SettledInv'
  <2>1. 1..Settled' = 1..Settled \cup EventsIn(batch) /\ 1..Settled \cap EventsIn(batch) = {}
    BY <1>1, <1>3
  <2> QED
    BY <2>1 DEF DataInv, SettledInv
<1>8. ReceivedInv'
  <2> SUFFICES ASSUME NEW k \in DOMAIN received
               PROVE  \A e \in EventsIn(received[k]) : e <= Settled'
    BY DEF ReceivedInv, EventsIn
  <2>1. CASE received[k] = batch
    BY <2>1, <1>1, <1>3
  <2>2. CASE \A e \in EventsIn(received[k]) : e <= Settled
    <3>1. EventsIn(received[k]) \subseteq 1..enqueued
      <4>1. received \in Seq(Seq(1..enqueued)) /\ k \in 1..Len(received)
        BY LenProperties DEF DataInv, DataTypeOK
      <4>2. received[k] \in Seq(1..enqueued)
        BY <4>1, ElementOfSeq
      <4> QED
        BY <4>2, EventsInSeq
    <3> QED
      BY <3>1, <2>2, <1>1, <1>3
  <2> QED
    BY <2>1, <2>2 DEF DataInv, ReceivedInv
<1>9. AckedWasReceived'
  <2>1. CASE acked' = acked
    BY <2>1 DEF DataInv, AckedWasReceived, EventsIn
  <2>2. CASE acked' = acked \cup EventsIn(batch) /\ received # <<>> /\ received[Len(received)] = batch
    <3>1. received \in Seq(Seq(1..enqueued))
      BY DEF DataInv, DataTypeOK
    <3>2. Len(received) \in DOMAIN received
      BY <3>1, <2>2, EmptySeq, LenProperties
    <3> QED
      BY <3>2, <2>2 DEF DataInv, AckedWasReceived, EventsIn
  <2> QED
    BY <2>1, <2>2
<1>10. OrderedReceipt'
  BY DEF DataInv, OrderedReceipt, EventsIn
<1> QED
  BY <1>5, <1>6, <1>7, <1>8, <1>9, <1>10 DEF DataInv

\* The destination gets the batch in flight, again or for the first time.
LEMMA ReceiveData ==
    ASSUME DataInv, batch # <<>>,
           received' = Append(received, batch),
           UNCHANGED <<queue, batch, enqueued, acked, failed>>
    PROVE  DataInv' /\ received' # <<>> /\ received'[Len(received')] = batch
<1>1. /\ enqueued \in Nat /\ Len(batch) \in Nat /\ Len(queue) \in Nat
      /\ Settled \in Nat
      /\ EventsIn(batch) = (Settled + 1)..(Settled + Len(batch))
  BY BatchEvents
<1>2. received \in Seq(Seq(1..enqueued)) /\ batch \in Seq(1..enqueued)
  BY DEF DataInv, DataTypeOK
<1>3. Len(received) \in Nat /\ DOMAIN received = 1..Len(received)
  BY <1>2, LenProperties
<1>4. /\ received' \in Seq(Seq(1..enqueued))
      /\ received' # <<>>
      /\ Len(received') = Len(received) + 1
      /\ \A k \in 1..Len(received) : received'[k] = received[k]
      /\ received'[Len(received) + 1] = batch
  BY <1>2, AppendProperties
<1>5. DOMAIN received' = 1..(Len(received) + 1)
  BY <1>4, LenProperties
<1>6. Settled' = Settled
  BY DEF Settled
<1>7. DataTypeOK' /\ Contiguous' /\ SettledInv'
  BY <1>4, <1>6 DEF DataInv, DataTypeOK, Contiguous, SettledInv
<1>8. ReceivedInv'
  <2> SUFFICES ASSUME NEW k \in 1..(Len(received) + 1)
               PROVE  received'[k] = batch \/ \A e \in EventsIn(received'[k]) : e <= Settled
    BY <1>5, <1>6 DEF ReceivedInv, EventsIn
  <2>1. CASE k = Len(received) + 1
    BY <2>1, <1>4
  <2>2. CASE k \in 1..Len(received)
    BY <2>2, <1>3, <1>4 DEF DataInv, ReceivedInv, EventsIn
  <2> QED
    BY <2>1, <2>2, <1>3
<1>9. AckedWasReceived'
  <2> SUFFICES ASSUME NEW e \in acked
               PROVE  \E k \in DOMAIN received' : e \in EventsIn(received'[k])
    BY DEF AckedWasReceived, EventsIn
  <2>1. PICK k \in 1..Len(received) : e \in EventsIn(received[k])
    BY <1>3 DEF DataInv, AckedWasReceived
  <2>2. k \in DOMAIN received' /\ received'[k] = received[k]
    BY <1>3, <1>4, <1>5
  <2> QED
    BY <2>1, <2>2
<1>10. OrderedReceipt'
  <2> SUFFICES ASSUME NEW i \in 1..(Len(received) + 1), NEW j \in 1..(Len(received) + 1), i < j
               PROVE  \/ received'[i] = received'[j]
                      \/ \A d \in EventsIn(received'[i]), e \in EventsIn(received'[j]) : d < e
    BY <1>5 DEF OrderedReceipt, EventsIn
  <2>1. i \in 1..Len(received) /\ received'[i] = received[i]
    BY <1>3, <1>4
  <2>2. CASE j \in 1..Len(received)
    <3>1. received'[j] = received[j] /\ i \in DOMAIN received /\ j \in DOMAIN received
      BY <2>1, <2>2, <1>3, <1>4
    <3> QED
      BY <3>1, <2>1 DEF DataInv, OrderedReceipt
  <2>3. CASE j = Len(received) + 1
    <3>1. received'[j] = batch
      BY <2>3, <1>4
    <3>2. CASE \A d \in EventsIn(received[i]) : d <= Settled
      <4>1. EventsIn(received[i]) \subseteq 1..enqueued
        <5>1. received[i] \in Seq(1..enqueued)
          BY <2>1, <1>2, ElementOfSeq
        <5> QED
          BY <5>1, EventsInSeq
      <4>2. \A d \in EventsIn(received[i]), e \in EventsIn(batch) : d < e
        BY <4>1, <3>2, <1>1
      <4> QED
        BY <4>2, <3>1, <2>1
    <3>3. CASE received[i] = batch
      BY <3>1, <3>3, <2>1
    <3>4. received[i] = batch \/ \A d \in EventsIn(received[i]) : d <= Settled
      BY <2>1, <1>3 DEF DataInv, ReceivedInv
    <3> QED
      BY <3>2, <3>3, <3>4
  <2>4. j \in 1..Len(received) \/ j = Len(received) + 1
    BY <1>3
  <2> QED
    BY <2>2, <2>3, <2>4
<1> QED
  BY <1>4, <1>7, <1>8, <1>9, <1>10 DEF DataInv

-----------------------------------------------------------------------------
\* A step that moves no event: only BatchInv has something to check.
LEMMA ControlStep ==
    ASSUME DataInv, BatchInv, UNCHANGED data,
           pc \in Posting <=> pc' \in Posting,
           pc' = "answer" /\ answer' = "ok" => pc = "answer" /\ answer = "ok"
    PROVE  DataInv' /\ BatchInv'
<1>1. DataInv'
  BY DataUnchanged
<1>2. BatchInv'
  BY DEF BatchInv, data
<1> QED
  BY <1>1, <1>2

LEMMA GiveUpStep == DataInv /\ BatchInv /\ GiveUp => DataInv' /\ BatchInv'
<1> SUFFICES ASSUME DataInv, BatchInv, GiveUp PROVE DataInv' /\ BatchInv'
  OBVIOUS
<1>1. DataInv'
  BY SettleData DEF GiveUp, QueueAfterFailure, flushVars
<1>2. BatchInv'
  BY DEF GiveUp, BatchInv, Posting, Returned
<1> QED
  BY <1>1, <1>2

LEMMA ReceiveStep ==
    DataInv /\ BatchInv /\ (PrintBatch \/ ServerAccepts) => DataInv' /\ BatchInv'
<1> SUFFICES ASSUME DataInv, BatchInv, PrintBatch \/ ServerAccepts PROVE DataInv' /\ BatchInv'
  OBVIOUS
<1>1. batch # <<>> /\ pc' = "answer"
  BY DEF PrintBatch, ServerAccepts, BatchInv, Posting
<1>2. received' = Append(received, batch) /\ UNCHANGED <<queue, batch, enqueued, acked, failed>>
  BY DEF PrintBatch, ServerAccepts, postVars
<1>3. DataInv' /\ received' # <<>> /\ received'[Len(received')] = batch
  BY <1>1, <1>2, ReceiveData
<1>4. BatchInv'
  BY <1>1, <1>2, <1>3 DEF BatchInv, Posting
<1> QED
  BY <1>3, <1>4

LEMMA PostedStep == DataInv /\ BatchInv /\ Posted => DataInv' /\ BatchInv'
<1> SUFFICES ASSUME DataInv, BatchInv, Posted PROVE DataInv' /\ BatchInv'
  OBVIOUS
<1>1. received # <<>> /\ received[Len(received)] = batch
  BY DEF Posted, Succeeded, BatchInv
<1>2. DataInv'
  BY <1>1, SettleData DEF Posted, flushVars
<1>3. BatchInv'
  BY DEF Posted, BatchInv, Posting
<1> QED
  BY <1>2, <1>3

LEMMA StepIInv == IInv /\ [Next]_vars => IInv'
<1> SUFFICES ASSUME ControlTypeOK, BatchInv, DataInv, [Next]_vars
             PROVE  BatchInv' /\ DataInv'
  BY ControlTypes, IInvParts DEF IInv, TypeOK, ControlTypeOK, BatchInv, DataInv, DataTypeOK
<1>1. CASE Enqueue
  BY <1>1, EnqueueData
<1>2. CASE Tick \/ FlushNow \/ Shutdown
  BY <1>2, ControlStep DEF Tick, FlushNow, Shutdown, StartFlush, data, Posting
<1>3. CASE TakeBatch
  BY <1>3, TakeBatchData
<1>4. CASE FlushDone
  BY <1>4, ControlStep DEF FlushDone, flushVars, Returned, data, Posting
<1>5. CASE UseToken \/ FetchToken
  BY <1>5, ControlStep DEF UseToken, FetchToken, postVars, data, Posting
<1>6. CASE FetchTokenFails \/ Exhausted
  BY <1>6, GiveUpStep DEF FetchTokenFails, Exhausted
<1>7. CASE PrintBatch \/ ServerAccepts
  BY <1>7, ReceiveStep
<1>8. CASE ServerRefuses
  BY <1>8, ControlStep DEF ServerRefuses, postVars, data, Posting
<1>9. CASE Posted
  BY <1>9, PostedStep
<1>10. CASE Reauthorize \/ Retry
  BY <1>10, ControlStep DEF Reauthorize, Retry, postVars, data, Posting
<1>11. CASE Elapse
  BY <1>11, ControlStep DEF Elapse, data
<1>12. CASE Exited \/ UNCHANGED vars
  BY <1>12, ControlStep DEF Exited, vars, data
<1> QED
  BY <1>1, <1>2, <1>3, <1>4, <1>5, <1>6, <1>7, <1>8, <1>9, <1>10, <1>11, <1>12
  DEF Next, Flush, PostBatch

LEMMA Invariance == Spec => []IInv
<1> QED
  BY InitIInv, StepIInv, PTL DEF Spec

\* The types of TypeOK hold for every queue, batch limit, retry count and token life.
THEOREM TypeCorrect == Spec => []TypeOK
<1>1. IInv => TypeOK
  BY DEF IInv
<1> QED
  BY <1>1, Invariance, PTL

\* Every enqueued event is in exactly one place, and what Ok was returned for was
\* received (PublisherTransport::flush and post_batch).
THEOREM EventsAccounted == Spec => [](Accounting /\ AckedWasReceived)
<1>1. IInv => Accounting /\ AckedWasReceived
  <2> SUFFICES ASSUME IInv PROVE Accounting /\ AckedWasReceived
    OBVIOUS
  <2>1. DataInv
    BY IInvParts
  <2>2. /\ enqueued \in Nat /\ Len(batch) \in Nat /\ Len(queue) \in Nat
        /\ Settled \in Nat
        /\ Settled + Len(batch) + Len(queue) = enqueued
        /\ EventsIn(batch) = (Settled + 1)..(Settled + Len(batch))
    BY <2>1, BatchEvents
  <2>3. EventsIn(queue) = (Settled + Len(batch) + 1)..enqueued
    <3>1. EventsIn(queue) = {queue[i] : i \in 1..Len(queue)}
      BY <2>1, EventsInSeq DEF DataInv, DataTypeOK
    <3>2. \A i \in 1..Len(queue) : queue[i] = Settled + Len(batch) + i
      BY <2>1 DEF DataInv, Contiguous
    <3>3. ASSUME NEW e \in (Settled + Len(batch) + 1)..enqueued
          PROVE  e \in EventsIn(queue)
      <4>1. /\ e - Settled - Len(batch) \in 1..Len(queue)
            /\ queue[e - Settled - Len(batch)] = e
        BY <2>2, <3>2
      <4> QED
        BY <4>1, <3>1
    <3>4. EventsIn(queue) \subseteq (Settled + Len(batch) + 1)..enqueued
      BY <2>2, <3>1, <3>2
    <3> QED
      BY <3>3, <3>4
  <2>4. acked \cup failed = 1..Settled /\ acked \cap failed = {}
    BY DEF IInv, SettledInv
  <2>5. Accounting
    BY <2>2, <2>3, <2>4 DEF Accounting
  <2> QED
    BY <2>5 DEF IInv
<1> QED
  BY <1>1, Invariance, PTL

\* The destination never receives an event after a later one, whatever is retried,
\* dropped or received twice.
THEOREM ReceiptsOrdered == Spec => []OrderedReceipt
<1>1. IInv => OrderedReceipt
  BY DEF IInv
<1> QED
  BY <1>1, Invariance, PTL

-----------------------------------------------------------------------------
\* The count behind ReceiptBound: the batch in flight was received at most once per
\* attempt that is over, the current one included once its answer is there.
AttemptsOver == IF pc = "answer" /\ answer # "unauthorized" THEN attempt + 1 ELSE attempt
ReceiptInv ==
    /\ \A e \in Nat : Cardinality(Receipts(e)) <= Retries + 1
    /\ batch # <<>> => \A e \in EventsIn(batch) : Cardinality(Receipts(e)) <= AttemptsOver

\* How the receipts of an event grow when the destination takes the batch.
LEMMA ReceiptsGrow ==
    ASSUME DataInv, received' = Append(received, batch), NEW e
    PROVE  /\ IsFiniteSet(Receipts(e)) /\ Cardinality(Receipts(e)) \in Nat
           /\ e \notin EventsIn(batch) => Receipts(e)' = Receipts(e)
           /\ Cardinality(Receipts(e)') <= Cardinality(Receipts(e)) + 1
<1>1. received \in Seq(Seq(1..enqueued)) /\ batch \in Seq(1..enqueued)
  BY DEF DataInv, DataTypeOK
<1>2. Len(received) \in Nat /\ DOMAIN received = 1..Len(received)
  BY <1>1, LenProperties
<1>3. /\ received' \in Seq(Seq(1..enqueued))
      /\ Len(received') = Len(received) + 1
      /\ \A k \in 1..Len(received) : received'[k] = received[k]
      /\ received'[Len(received) + 1] = batch
  BY <1>1, AppendProperties
<1>4. DOMAIN received' = 1..(Len(received) + 1)
  BY <1>3, LenProperties
<1>5. IsFiniteSet(1..Len(received))
  BY <1>2, FS_Interval
<1>6. IsFiniteSet(Receipts(e)) /\ Cardinality(Receipts(e)) \in Nat
  BY <1>2, <1>5, FS_Subset, FS_CardinalityType DEF Receipts
<1>7. Receipts(e)' = IF e \in EventsIn(batch) THEN Receipts(e) \cup {Len(received) + 1}
                                              ELSE Receipts(e)
  BY <1>2, <1>3, <1>4 DEF Receipts, EventsIn
<1>8. Cardinality(Receipts(e) \cup {Len(received) + 1}) \in
          {Cardinality(Receipts(e)), Cardinality(Receipts(e)) + 1}
  <2>1. \A x : Cardinality(Receipts(e) \cup {x}) =
             IF x \in Receipts(e) THEN Cardinality(Receipts(e)) ELSE Cardinality(Receipts(e)) + 1
    BY <1>6, FS_AddElement, Zenon
  <2> QED
    BY <2>1
<1> QED
  BY <1>6, <1>7, <1>8

\* What has not left the queue was never received.
LEMMA QueuedUnreceived ==
    ASSUME DataInv, batch = <<>>, NEW e \in Nat, e > Settled
    PROVE  Cardinality(Receipts(e)) = 0
<1>1. ASSUME NEW k \in DOMAIN received PROVE e \notin EventsIn(received[k])
  <2>1. CASE received[k] = batch
    BY <2>1 DEF EventsIn
  <2>2. CASE \A d \in EventsIn(received[k]) : d <= Settled
    <3>1. Settled \in Nat
      BY BatchEvents
    <3> QED
      BY <2>2, <3>1
  <2> QED
    BY <2>1, <2>2 DEF DataInv, ReceivedInv
<1>2. Receipts(e) = {}
  BY <1>1 DEF Receipts
<1> QED
  BY <1>2, FS_EmptySet

LEMMA ReceiptStep == IInv /\ ReceiptInv /\ [Next]_vars => ReceiptInv'
<1> SUFFICES ASSUME IInv, ReceiptInv, [Next]_vars PROVE ReceiptInv'
  OBVIOUS
<1>1. ControlTypeOK /\ BatchInv /\ DataInv
  BY IInvParts
<1>2. attempt \in Nat /\ attempt <= Retries /\ Retries \in Nat
  BY <1>1, RetriesAssumption DEF ControlTypeOK
<1>3. ASSUME received' = received, batch' = batch, AttemptsOver' >= AttemptsOver,
             AttemptsOver' \in Nat
      PROVE  ReceiptInv'
  <2>1. \A e : Receipts(e)' = Receipts(e)
    BY <1>3 DEF Receipts, EventsIn
  <2>2. \A e : e \in EventsIn(batch)' <=> e \in EventsIn(batch)
    BY <1>3 DEF EventsIn
  <2>3. AttemptsOver \in Nat
    BY <1>2 DEF AttemptsOver
  <2>4. \A e : Cardinality(Receipts(e)) \in Nat
    <3> TAKE e
    <3>1. received \in Seq(Seq(1..enqueued))
      BY <1>1 DEF DataInv, DataTypeOK
    <3>2. IsFiniteSet(DOMAIN received)
      BY <3>1, LenProperties, FS_Interval
    <3> QED
      BY <3>2, FS_Subset, FS_CardinalityType DEF Receipts
  <2>5. batch' # <<>> => \A e \in EventsIn(batch)' : Cardinality(Receipts(e)') <= AttemptsOver'
    <3> SUFFICES ASSUME batch # <<>>, NEW e \in EventsIn(batch)
                 PROVE  Cardinality(Receipts(e)) <= AttemptsOver'
      BY <2>1, <2>2, <1>3
    <3>1. Cardinality(Receipts(e)) <= AttemptsOver
      BY DEF ReceiptInv
    <3> QED
      BY <3>1, <2>3, <2>4, <1>3
  <2>6. \A e \in Nat : Cardinality(Receipts(e)') <= Retries + 1
    BY <2>1 DEF ReceiptInv
  <2> QED
    BY <2>5, <2>6 DEF ReceiptInv
<1>4. ASSUME received' = received, batch' = <<>> PROVE ReceiptInv'
  <2>1. \A e : Receipts(e)' = Receipts(e)
    BY <1>4 DEF Receipts, EventsIn
  <2> QED
    BY <2>1, <1>4 DEF ReceiptInv
<1>5. CASE Enqueue
  BY <1>2, <1>3, <1>5 DEF Enqueue, AttemptsOver
<1>6. CASE Tick \/ FlushNow \/ Shutdown
  <2>1. batch = <<>>
    BY <1>1, <1>6 DEF Tick, FlushNow, Shutdown, StartFlush, BatchInv, Posting
  <2> QED
    BY <1>4, <1>6, <2>1 DEF Tick, FlushNow, Shutdown, StartFlush
<1>7. CASE TakeBatch
  <2>1. batch = <<>>
    BY <1>1, <1>7 DEF TakeBatch, BatchInv, Posting
  <2>2. received' = received /\ attempt' = 0 /\ pc' = "token"
    BY <1>7 DEF TakeBatch
  <2>3. \A e : Receipts(e)' = Receipts(e)
    BY <2>2 DEF Receipts, EventsIn
  <2>4. Settled \in Nat /\ Settled' = Settled
    <3>1. /\ queue \in Seq(1..enqueued) /\ Len(queue) \in Nat
          /\ BatchSize \in 0..Len(queue) /\ enqueued \in Nat
      <4>1. queue \in Seq(1..enqueued) /\ enqueued \in Nat
        BY <1>1, MaxEventsAssumption DEF DataInv, DataTypeOK
      <4>2. Len(queue) \in Nat
        BY <4>1, LenProperties
      <4> QED
        BY <4>1, <4>2, BatchLimitAssumption DEF BatchSize
    <3>2. Len(batch') = BatchSize /\ Len(queue') = Len(queue) - BatchSize
      BY <3>1, <1>7, DrainProperties DEF TakeBatch, Rest
    <3>3. Len(batch) = 0 /\ enqueued' = enqueued
      BY <2>1, <1>7 DEF TakeBatch, flushVars
    <3> QED
      BY <3>1, <3>2, <3>3, <1>1, BatchEvents DEF Settled
  <2>5. DataInv' /\ BatchInv'
    BY <1>1, <1>7, TakeBatchData
  <2>6. \A e \in EventsIn(batch)' : e \in Nat /\ e > Settled
    <3>1. /\ Settled' \in Nat
          /\ batch' \in Seq(1..enqueued')
          /\ \A i \in 1..Len(batch') : batch'[i] = Settled' + i
      BY <2>4, <2>5 DEF DataInv, DataTypeOK, Contiguous
    <3>2. Len(batch') \in Nat /\ DOMAIN batch' = 1..Len(batch')
      BY <3>1, LenProperties
    <3> QED
      BY <3>1, <3>2, <2>4 DEF EventsIn
  <2>7. \A e \in EventsIn(batch)' : Cardinality(Receipts(e)') <= AttemptsOver'
    <3> SUFFICES ASSUME NEW e \in EventsIn(batch)'
                 PROVE  Cardinality(Receipts(e)) <= 0
      BY <2>2, <2>3 DEF AttemptsOver
    <3> QED
      BY <2>1, <2>6, <1>1, QueuedUnreceived
  <2> QED
    BY <2>3, <2>7 DEF ReceiptInv
<1>8. CASE FlushDone
  <2>1. batch = <<>>
    BY <1>1, <1>8 DEF FlushDone, BatchInv, Posting
  <2> QED
    BY <1>4, <1>8, <2>1 DEF FlushDone
<1>9. CASE UseToken \/ FetchToken
  BY <1>2, <1>3, <1>9 DEF UseToken, FetchToken, postVars, AttemptsOver
<1>10. CASE FetchTokenFails \/ Exhausted
  BY <1>4, <1>10 DEF FetchTokenFails, Exhausted, GiveUp
<1>11. CASE PrintBatch \/ ServerAccepts
  <2>1. /\ received' = Append(received, batch) /\ batch' = batch /\ attempt' = attempt
        /\ pc' = "answer" /\ answer' # "unauthorized" /\ batch # <<>> /\ pc # "answer"
    BY <1>1, <1>11 DEF PrintBatch, ServerAccepts, postVars, BatchInv, Posting
  <2>2. AttemptsOver = attempt /\ AttemptsOver' = attempt + 1
    BY <2>1 DEF AttemptsOver
  <2>3. \A e : e \in EventsIn(batch)' <=> e \in EventsIn(batch)
    BY <2>1 DEF EventsIn
  <2>4. ASSUME NEW e \in EventsIn(batch) PROVE Cardinality(Receipts(e)') <= attempt + 1
    <3>1. Cardinality(Receipts(e)) <= attempt
      BY <2>1, <2>2 DEF ReceiptInv
    <3>2. /\ Cardinality(Receipts(e)) \in Nat
          /\ Cardinality(Receipts(e)') <= Cardinality(Receipts(e)) + 1
      BY <1>1, <2>1, ReceiptsGrow
    <3>3. received' \in Seq(Seq(1..enqueued))
      BY <1>1, <2>1, AppendProperties DEF DataInv, DataTypeOK
    <3>4. IsFiniteSet(DOMAIN received')
      BY <3>3, LenProperties, FS_Interval
    <3>5. Cardinality(Receipts(e)') \in Nat
      BY <3>4, FS_Subset, FS_CardinalityType DEF Receipts
    <3> QED
      BY <3>1, <3>2, <3>5, <1>2
  <2>5. ASSUME NEW e \in Nat PROVE Cardinality(Receipts(e)') <= Retries + 1
    <3>1. CASE e \in EventsIn(batch)
      <4>1. Cardinality(Receipts(e)') <= attempt + 1
        BY <3>1, <2>4
      <4>2. received' \in Seq(Seq(1..enqueued))
        BY <1>1, <2>1, AppendProperties DEF DataInv, DataTypeOK
      <4>3. IsFiniteSet(DOMAIN received')
        BY <4>2, LenProperties, FS_Interval
      <4>4. Cardinality(Receipts(e)') \in Nat
        BY <4>3, FS_Subset, FS_CardinalityType DEF Receipts
      <4> QED
        BY <4>1, <4>4, <1>2
    <3>2. CASE e \notin EventsIn(batch)
      BY <3>2, <1>1, <2>1, ReceiptsGrow DEF ReceiptInv
    <3> QED
      BY <3>1, <3>2
  <2> QED
    BY <2>2, <2>3, <2>4, <2>5 DEF ReceiptInv
<1>12. CASE ServerRefuses
  <2>1. AttemptsOver = attempt /\ AttemptsOver' >= attempt /\ AttemptsOver' \in Nat
    BY <1>2, <1>12 DEF ServerRefuses, AttemptsOver
  <2> QED
    BY <1>3, <1>12, <2>1 DEF ServerRefuses, postVars
<1>13. CASE Posted
  BY <1>4, <1>13 DEF Posted
<1>14. CASE Reauthorize \/ Retry
  <2>1. AttemptsOver' = AttemptsOver /\ AttemptsOver \in Nat
    <3>1. CASE Reauthorize
      BY <1>2, <3>1 DEF Reauthorize, postVars, AttemptsOver
    <3>2. CASE Retry
      BY <1>2, <3>2 DEF Retry, MayRetry, postVars, AttemptsOver
    <3> QED
      BY <1>14, <3>1, <3>2
  <2> QED
    BY <1>3, <1>14, <2>1 DEF Reauthorize, Retry, postVars
<1>15. CASE Elapse \/ Exited \/ UNCHANGED vars
  BY <1>2, <1>3, <1>15 DEF Elapse, Exited, vars, AttemptsOver
<1> QED
  BY <1>5, <1>6, <1>7, <1>8, <1>9, <1>10, <1>11, <1>12, <1>13, <1>14, <1>15
  DEF Next, Flush, PostBatch

\* An event reaches the destination at most once per attempt of the retry loop of
\* post_batch, the extra POST after a 401 included.
THEOREM ReceiptsBounded == Spec => []ReceiptBound
<1>1. Init => ReceiptInv
  <2> SUFFICES ASSUME Init PROVE ReceiptInv
    OBVIOUS
  <2>1. \A e : Receipts(e) = {}
    BY DEF Init, Receipts
  <2> QED
    BY <2>1, FS_EmptySet, RetriesAssumption DEF Init, ReceiptInv
<1>2. IInv /\ ReceiptInv => ReceiptBound
  <2>1. IInv => 1..enqueued \subseteq Nat
    BY MaxEventsAssumption DEF IInv, TypeOK
  <2> QED
    BY <2>1 DEF ReceiptInv, ReceiptBound
<1> QED
  BY <1>1, <1>2, ReceiptStep, Invariance, PTL DEF Spec

\* No POST of post_batch carries an Entra token that its issuer has already expired.
THEOREM TokensAlive == Spec => []TokenAlive
<1>1. Init => TokenAlive
  BY DEF Init, TokenAlive
<1>2. IInv /\ TokenAlive /\ [Next]_vars => TokenAlive'
  <2> SUFFICES ASSUME IInv, TokenAlive, [Next]_vars PROVE TokenAlive'
    OBVIOUS
  <2>1. token \in Nat \cup {NoToken} /\ RefreshBuffer \in Nat
    BY TokenAssumption DEF IInv, TypeOK
  <2>2. CASE UseToken
    BY <2>1, <2>2 DEF UseToken, postVars, NeedsRefresh, NoToken, TokenAlive
  <2>3. CASE FetchToken
    BY <2>3, TokenAssumption DEF FetchToken, postVars, TokenAlive
  <2>4. CASE Elapse \/ Exited \/ UNCHANGED vars
    BY <2>4 DEF Elapse, Exited, vars, TokenAlive
  <2>5. CASE Enqueue \/ Tick \/ FlushNow \/ Shutdown
    BY <2>5 DEF Enqueue, Tick, FlushNow, Shutdown, StartFlush, TokenAlive
  <2>6. CASE TakeBatch \/ FlushDone \/ FetchTokenFails \/ PrintBatch \/ ServerAccepts
             \/ ServerRefuses \/ Posted \/ Reauthorize \/ Retry \/ Exhausted
    BY <2>6 DEF TakeBatch, FlushDone, Returned, FetchTokenFails, GiveUp, PrintBatch,
                ServerAccepts, ServerRefuses, Posted, Reauthorize, Retry, Exhausted, TokenAlive
  <2> QED
    BY <2>2, <2>3, <2>4, <2>5, <2>6 DEF Next, Flush, PostBatch
<1> QED
  BY <1>1, <1>2, Invariance, PTL DEF Spec

\* The transport implements EventStream: its initial state maps to the initial state
\* and each of its steps to one step of the stream or to none.
THEOREM TransportImplementsStream == Spec => StreamSpec
<1> USE DEF Stream!StreamInit, Stream!StreamNext, Stream!streamVars
<1>1. Init => Stream!StreamInit
  BY DEF Init
<1>2. IInv /\ [Next]_vars => [Stream!StreamNext]_(Stream!streamVars)
  <2> SUFFICES ASSUME IInv, [Next]_vars PROVE [Stream!StreamNext]_(Stream!streamVars)
    OBVIOUS
  <2>1. CASE Enqueue
    BY <2>1 DEF Enqueue, Stream!Submit
  <2>2. CASE TakeBatch
    <3>1. queue \in Seq(1..enqueued) /\ batch = <<>>
      BY <2>2 DEF TakeBatch, IInv, TypeOK, BatchInv, Posting
    <3>2. Len(queue) \in Nat /\ Len(queue) # 0
      BY <3>1, <2>2, EmptySeq, LenProperties DEF TakeBatch
    <3>3. BatchSize \in 1..Len(queue) /\ BatchSize <= BatchLimit
      BY <3>2, BatchLimitAssumption DEF BatchSize
    <3>4. Stream!Take
      BY <2>2, <3>1, <3>3 DEF TakeBatch, Rest, flushVars, Stream!Take
    <3> QED
      BY <3>4
  <2>3. CASE PrintBatch \/ ServerAccepts
    BY <2>3 DEF PrintBatch, ServerAccepts, postVars, IInv, BatchInv, Posting, Stream!Receive
  <2>4. CASE Posted
    <3>1. batch # <<>> /\ received # <<>> /\ received[Len(received)] = batch
      BY <2>4 DEF Posted, Succeeded, IInv, BatchInv, Posting
    <3>2. Stream!EventsOf(batch) = EventsIn(batch)
      BY DEF Stream!EventsOf, EventsIn
    <3> QED
      BY <2>4, <3>1, <3>2 DEF Posted, flushVars, Stream!Confirm
  <2>5. CASE FetchTokenFails \/ Exhausted
    <3>1. batch # <<>>
      BY <2>5 DEF FetchTokenFails, Exhausted, IInv, BatchInv, Posting
    <3>2. Stream!EventsOf(batch) = EventsIn(batch)
      BY DEF Stream!EventsOf, EventsIn
    <3>3. GiveUp
      BY <2>5 DEF FetchTokenFails, Exhausted
    <3> QED
      BY <3>1, <3>2, <3>3 DEF GiveUp, QueueAfterFailure, flushVars, Stream!Drop
  <2>6. CASE Tick \/ FlushNow \/ Shutdown
    BY <2>6 DEF Tick, FlushNow, Shutdown, StartFlush
  <2>7. CASE FlushDone \/ UseToken \/ FetchToken \/ ServerRefuses \/ Reauthorize \/ Retry
    BY <2>7 DEF FlushDone, UseToken, FetchToken, ServerRefuses, Reauthorize, Retry,
                flushVars, postVars
  <2>8. CASE Elapse \/ Exited \/ UNCHANGED vars
    BY <2>8 DEF Elapse, Exited, vars
  <2> QED
    BY <2>1, <2>2, <2>3, <2>4, <2>5, <2>6, <2>7, <2>8 DEF Next, Flush, PostBatch
<1> QED
  BY <1>1, <1>2, Invariance, PTL DEF Spec, StreamSpec, Stream!StreamSpec
=============================================================================
