---------------------------- MODULE EventStream ----------------------------
(***************************************************************************)
(* What PublisherTransport promises to its destination, seen from outside: *)
(* events are taken from the head of a queue in bounded batches, a batch   *)
(* may reach the destination several times but only while it is in flight, *)
(* and every batch that leaves the queue is settled whole: confirmed after *)
(* at least one receipt, or dropped (dropped does not mean "not received": *)
(* the answer may have been lost).  Nothing comes back to the queue.       *)
(*                                                                         *)
(* How a batch is attempted, authenticated and retried is Transport's      *)
(* business; Transport implements this module.                             *)
(***************************************************************************)
EXTENDS Naturals, Sequences

CONSTANT BatchLimit      \* the most events one request body carries

VARIABLES
    submitted,           \* how many events have been submitted; event n is the nth
    pending,             \* submitted, not taken yet
    inFlight,            \* the batch being published, <<>> when there is none
    received,            \* the batches the destination has received, in order
    confirmed,           \* events of batches reported as published
    dropped              \* events of batches given up

streamVars == <<submitted, pending, inFlight, received, confirmed, dropped>>

EventsOf(s) == {s[i] : i \in DOMAIN s}

StreamInit ==
    /\ submitted = 0
    /\ pending = <<>>
    /\ inFlight = <<>>
    /\ received = <<>>
    /\ confirmed = {}
    /\ dropped = {}

\* The program hands over its next event.
Submit ==
    /\ submitted' = submitted + 1
    /\ pending' = Append(pending, submitted + 1)
    /\ UNCHANGED <<inFlight, received, confirmed, dropped>>

\* A prefix of the queue becomes the batch in flight; there is one at a time.
Take ==
    /\ inFlight = <<>>
    /\ \E n \in 1..Len(pending) :
         /\ n <= BatchLimit
         /\ inFlight' = SubSeq(pending, 1, n)
         /\ pending' = SubSeq(pending, n + 1, Len(pending))
    /\ UNCHANGED <<submitted, received, confirmed, dropped>>

\* The destination receives the batch in flight, perhaps not for the first time.
Receive ==
    /\ inFlight # <<>>
    /\ received' = Append(received, inFlight)
    /\ UNCHANGED <<submitted, pending, inFlight, confirmed, dropped>>

\* The batch is reported published: the latest thing received is this batch.
Confirm ==
    /\ inFlight # <<>>
    /\ received # <<>>
    /\ received[Len(received)] = inFlight
    /\ confirmed' = confirmed \cup EventsOf(inFlight)
    /\ inFlight' = <<>>
    /\ UNCHANGED <<submitted, pending, received, dropped>>

\* The batch is given up, and with it every event in it.
Drop ==
    /\ inFlight # <<>>
    /\ dropped' = dropped \cup EventsOf(inFlight)
    /\ inFlight' = <<>>
    /\ UNCHANGED <<submitted, pending, received, confirmed>>

StreamNext == Submit \/ Take \/ Receive \/ Confirm \/ Drop

StreamSpec == StreamInit /\ [][StreamNext]_streamVars
=============================================================================
