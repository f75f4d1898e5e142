---------------------------- MODULE JitterStream ----------------------------
(***************************************************************************)
(* The jitter buffer fed by a stream: UDPSocket::sendWave (or the          *)
(* microphone thread) numbers its packets 1, 2, 3, ..., the network loses  *)
(* some and, if MaxLate > 0, delivers some late or twice, and a new song   *)
(* or recording starts again from 1.                                       *)
(***************************************************************************)
EXTENDS JitterBuffer

CONSTANTS MaxLate,      \* how many packets ago a late or repeated one was sent
          MaxAhead,     \* how far the sender may be ahead of the reader
          MaxRestarts   \* bound on new songs

ASSUME StreamAssumption == MaxLate \in Nat /\ MaxAhead \in Nat /\ MaxRestarts \in Nat

VARIABLES next,         \* the index of the next packet to be sent
          restarts,     \* how often the sender started again
          rejected      \* history: rejections since the last accepted packet

streamVars == <<next, restarts, rejected>>
allVars    == <<vars, streamVars>>

StreamInit == Init /\ next = 1 /\ restarts = 0 /\ rejected = 0

\* The sender is no further ahead than the reader lets it be by keeping up:
\* beyond that it only comes while the buffer has nothing to play, or after it
\* has started again.
Paced == Distance(lastIndex, next) <= MaxAhead
Idle  == data = <<>> /\ \A t \in Putters : pc[t] = "idle"

Deliver(t) ==
    /\ Paced \/ Idle \/ restarts > 0
    /\ PutCall(t, next)
    /\ next' = Wrap(next + 1)
    /\ UNCHANGED <<restarts, rejected>>

\* A burst of losses ends before the sender is out of the reader's reach.
Lose ==
    /\ Distance(lastIndex, next) < MaxAhead
    /\ next' = Wrap(next + 1)
    /\ UNCHANGED <<vars, restarts, rejected>>

DeliverLate(t) ==
    /\ \E late \in 1..MaxLate : PutCall(t, Wrap(next - late))
    /\ UNCHANGED streamVars

Restart ==
    /\ restarts < MaxRestarts
    /\ next' = 1
    /\ restarts' = restarts + 1
    /\ UNCHANGED <<vars, rejected>>

PutStep(t) ==
    /\ Put(t)
    /\ rejected' = CASE PutInsert(t) -> 0
                     [] PutReject(t) -> IF rejected > StrikeLimit THEN rejected ELSE rejected + 1
                     [] OTHER -> rejected
    /\ UNCHANGED <<next, restarts>>

StreamNext ==
    \/ \E t \in Putters : Deliver(t) \/ DeliverLate(t) \/ PutStep(t)
    \/ Lose \/ Restart
    \/ (\E t \in Getters : GetCall(t) \/ Get(t)) /\ UNCHANGED streamVars
    \/ DelayedSet /\ UNCHANGED streamVars

StreamSpec == StreamInit /\ [][StreamNext]_allVars

(***************************************************************************)
(* The sender goes on sending and not all packets are lost, both threads   *)
(* keep running (a waiter of a semaphore or a mutex is served in turn),    *)
(* and the sleep before SetEvent ends.                                     *)
(***************************************************************************)
FairStreamSpec ==
    /\ StreamSpec
    /\ \A t \in Putters : SF_allVars(Deliver(t)) /\ SF_allVars(PutStep(t))
    /\ \A t \in Getters : SF_allVars((GetCall(t) \/ Get(t)) /\ UNCHANGED streamVars)
    /\ WF_allVars(DelayedSet /\ UNCHANGED streamVars)

-----------------------------------------------------------------------------
Elements == {data[i] : i \in 1..Len(data)}

\* Everything in the buffer is still to come, "to ignore packets that arrive too
\* late" (JitterBuffer.h): a late element would never be the next index, and
\* would stay in the buffer and be played as padding for ever.
ElementsAreAhead == \A i \in Elements : Distance(lastIndex, i) \in 1..Capacity

\* A packet on its way from the network into the heap.
Coming(t) == pc[t] \in {"putSlot", "putLock", "putCheck", "putInsert"}

Player == INSTANCE Playout WITH
    First <- -MaxInt - 1, Last <- MaxInt, Listeners <- Getters,
    coming <- {index[t] : t \in {u \in Putters : Coming(u)}},
    here <- Elements, due <- lastIndex, heard <- [g \in Getters |-> index[g]]

\* get "copies the next element" (JitterBuffer.cpp:107), and pads only when the packet that
\* is due has not arrived: the buffer, with its semaphores, heap, relative zero and window,
\* does what is asked of a player that has none of them.
IsPlayout == Player!Spec

\* A put returns 1 exactly when it inserted its element ("1 upon success, 0 upon
\* rejection"), whatever the getter does in the meantime.
Inserted(t) == rejected = 0
PutReportsAcceptance ==
    [][ \A t \in Putters : PutReturn(t) => (result'[t] = 1 <=> Inserted(t)) ]_allVars

\* The buffer moves to the index of a rejected packet exactly when more than
\* StrikeLimit packets were rejected in a row before it: strikes is the "number
\* of consecutive puts calls that were rejected".  An accepted packet in between
\* starts the count again, so that a few stray packets of an old song do not
\* throw the reader back, and a new song is followed after the limit.
JumpNeedsStrikes ==
    [][ \A t \in Putters : PutReject(t) => (lastIndex' # lastIndex <=> rejected > StrikeLimit) ]_allVars

\* Every packet that was accepted is consumed.
AcceptedIsConsumed == \A i \in Ints : i \in Elements ~> i \notin Elements
=============================================================================
