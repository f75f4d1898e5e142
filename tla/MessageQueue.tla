---------------------------- MODULE MessageQueue ----------------------------
(***************************************************************************)
(* Buffer/MessageQueue: a queue of copied messages shared by threads.  Two *)
(* counting semaphores and a mutex guard a vector, and a manual-reset      *)
(* event, hasMessage, tells waiting threads that there is work.  Each      *)
(* synchronisation call is a step of its own, because the semaphores and   *)
(* the event are used outside the mutex and other threads run in between.  *)
(***************************************************************************)
EXTENDS Integers, Sequences, FiniteSets

CONSTANTS Producers,  \* threads that call enqueue
          Consumers,  \* threads that call dequeue
          Pollers,    \* the consumers that wait for hasMessage before they dequeue
          Clearers,   \* threads that call clear
          Messages,   \* what can be enqueued
          Garbage,    \* what a read of unset or freed memory yields
          Capacity,   \* initial count of canEnqueue, maximum of both semaphores
          NoThread    \* the owner of a free mutex

Threads == Producers \cup Consumers \cup Clearers

ASSUME CapacityAssumption == Capacity \in Nat \ {0}
ASSUME ThreadAssumption ==
    /\ IsFiniteSet(Threads)
    /\ NoThread \notin Threads
    /\ Pollers \subseteq Consumers
    /\ Producers \cap Consumers = {}  \* no thread of the program takes what it put
ASSUME MessageAssumption == Garbage \notin Messages

VARIABLES messages,    \* the vector, oldest first: its back is the head here
          canEnqueue,  \* semaphore: free slots
          canDequeue,  \* semaphore: messages that may be taken
          hasMessage,  \* manual-reset event
          access,      \* the mutex: its owner, or NoThread
          pc,          \* the call each thread is in the middle of
          node         \* the node each thread is enqueueing, or has dequeued

vars == <<messages, canEnqueue, canDequeue, hasMessage, access, pc, node>>

Init ==
    /\ messages = <<>>
    /\ canEnqueue = Capacity
    /\ canDequeue = 0
    /\ hasMessage = FALSE
    /\ access = NoThread
    /\ pc = [t \in Threads |-> "idle"]
    /\ node = [t \in Threads |-> Garbage]

-----------------------------------------------------------------------------
\* The synchronisation objects.  ReleaseSemaphore fails, and changes nothing,
\* when the count is already at its maximum.
Released(count) == IF count < Capacity THEN count + 1 ELSE count

Goto(t, from, to) ==
    /\ pc[t] = from
    /\ pc' = [pc EXCEPT ![t] = to]

Lock(t, from, to) ==
    /\ Goto(t, from, to)
    /\ access = NoThread
    /\ access' = t
    /\ UNCHANGED <<messages, canEnqueue, canDequeue, hasMessage, node>>

Unlock(t, from, to) ==
    /\ Goto(t, from, to)
    /\ access' = NoThread
    /\ UNCHANGED <<messages, canEnqueue, canDequeue, hasMessage, node>>

TakeSlot(t, from, to) ==
    /\ Goto(t, from, to)
    /\ canEnqueue > 0
    /\ canEnqueue' = canEnqueue - 1
    /\ UNCHANGED <<messages, canDequeue, hasMessage, access, node>>

TakeToken(t, from, to) ==
    /\ Goto(t, from, to)
    /\ canDequeue > 0
    /\ canDequeue' = canDequeue - 1
    /\ UNCHANGED <<messages, canEnqueue, hasMessage, access, node>>

FreeSlot(t, from, to) ==
    /\ Goto(t, from, to)
    /\ canEnqueue' = Released(canEnqueue)
    /\ UNCHANGED <<messages, canDequeue, hasMessage, access, node>>

\* pop_back: removing from an empty vector is undefined and leaves it empty.
Popped == IF messages = <<>> THEN <<>> ELSE Tail(messages)
Oldest == IF messages = <<>> THEN Garbage ELSE Head(messages)

-----------------------------------------------------------------------------
\* enqueue(type, src, len)
EnqueueCall(t) ==
    /\ Goto(t, "idle", "enqSlot")
    /\ \E m \in Messages : node' = [node EXCEPT ![t] = m]
    /\ UNCHANGED <<messages, canEnqueue, canDequeue, hasMessage, access>>

\* Mutant: a wait that is not waited for.
EnqueueSlotUnwaited(t) ==
    /\ Goto(t, "enqSlot", "enqLock")
    /\ canEnqueue' = canEnqueue - 1
    /\ UNCHANGED <<messages, canDequeue, hasMessage, access, node>>

\* Mutant: the event is set before the message is in the queue.
EnqueueSlotSets(t) ==
    /\ Goto(t, "enqSlot", "enqLock")
    /\ canEnqueue > 0
    /\ canEnqueue' = canEnqueue - 1
    /\ hasMessage' = TRUE
    /\ UNCHANGED <<messages, canDequeue, access, node>>

EnqueueSlot(t) == TakeSlot(t, "enqSlot", "enqLock")
EnqueueLock(t) == Lock(t, "enqLock", "enqInsert")

\* Mutant: the message goes to the end it is taken from.
EnqueueInsertBack(t) ==
    /\ Goto(t, "enqInsert", "enqSet")
    /\ messages' = <<node[t]>> \o messages
    /\ UNCHANGED <<canEnqueue, canDequeue, hasMessage, access, node>>

EnqueueInsert(t) ==
    /\ Goto(t, "enqInsert", "enqSet")
    /\ messages' = Append(messages, node[t])
    /\ UNCHANGED <<canEnqueue, canDequeue, hasMessage, access, node>>

EnqueueSet(t) ==
    /\ Goto(t, "enqSet", "enqUnlock")
    /\ hasMessage' = TRUE
    /\ UNCHANGED <<messages, canEnqueue, canDequeue, access, node>>

EnqueueUnlock(t) == Unlock(t, "enqUnlock", "enqPost")

EnqueuePost(t) ==
    /\ Goto(t, "enqPost", "idle")
    /\ canDequeue' = Released(canDequeue)
    /\ UNCHANGED <<messages, canEnqueue, hasMessage, access, node>>

Enqueue(t) ==
    \/ EnqueueSlot(t) \/ EnqueueLock(t) \/ EnqueueInsert(t)
    \/ EnqueueSet(t) \/ EnqueueUnlock(t) \/ EnqueuePost(t)

-----------------------------------------------------------------------------
\* dequeue(type, dest, len)
DequeueCall(t) ==
    /\ t \in Pollers => hasMessage
    /\ Goto(t, "idle", "deqToken")
    /\ UNCHANGED <<messages, canEnqueue, canDequeue, hasMessage, access, node>>

DequeueToken(t) == TakeToken(t, "deqToken", "deqLock")
DequeueLock(t)  == Lock(t, "deqLock", "deqPop")

DequeuePop(t) ==
    /\ Goto(t, "deqPop", "deqReset")
    /\ node' = [node EXCEPT ![t] = Oldest]
    /\ messages' = Popped
    /\ UNCHANGED <<canEnqueue, canDequeue, hasMessage, access>>

\* Mutants: the event is reset whatever is left, or never.
DequeueResetAlways(t) ==
    /\ Goto(t, "deqReset", "deqUnlock")
    /\ hasMessage' = FALSE
    /\ UNCHANGED <<messages, canEnqueue, canDequeue, access, node>>

DequeueResetNever(t) ==
    /\ Goto(t, "deqReset", "deqUnlock")
    /\ UNCHANGED <<messages, canEnqueue, canDequeue, hasMessage, access, node>>

DequeueReset(t) ==
    /\ Goto(t, "deqReset", "deqUnlock")
    /\ hasMessage' = (hasMessage /\ messages # <<>>)
    /\ UNCHANGED <<messages, canEnqueue, canDequeue, access, node>>

DequeueUnlock(t) == Unlock(t, "deqUnlock", "deqPost")
DequeuePost(t)   == FreeSlot(t, "deqPost", "idle")

Dequeue(t) ==
    \/ DequeueToken(t) \/ DequeueLock(t) \/ DequeuePop(t)
    \/ DequeueReset(t) \/ DequeueUnlock(t) \/ DequeuePost(t)

-----------------------------------------------------------------------------
\* clear(): pops while a token can be taken within 10 ms, holding the mutex
\* throughout, and leaves hasMessage as it is.
ClearCall(t) ==
    /\ Goto(t, "idle", "clrLock")
    /\ UNCHANGED <<messages, canEnqueue, canDequeue, hasMessage, access, node>>

ClearLock(t)  == Lock(t, "clrLock", "clrWait")
\* Mutant: clears for as long as there are messages, whoever claimed them.
ClearTokenUncounted(t) ==
    /\ Goto(t, "clrWait", "clrPop")
    /\ messages # <<>>
    /\ UNCHANGED <<messages, canEnqueue, canDequeue, hasMessage, access, node>>

ClearToken(t) == TakeToken(t, "clrWait", "clrPop")

ClearPop(t) ==
    /\ Goto(t, "clrPop", "clrPost")
    /\ messages' = Popped
    /\ UNCHANGED <<canEnqueue, canDequeue, hasMessage, access, node>>

\* Mutants: the slot is not given back, or the wrong semaphore is released.
ClearPostNothing(t) ==
    /\ Goto(t, "clrPost", "clrWait")
    /\ UNCHANGED <<messages, canEnqueue, canDequeue, hasMessage, access, node>>

ClearPostSwapped(t) ==
    /\ Goto(t, "clrPost", "clrWait")
    /\ canDequeue' = Released(canDequeue)
    /\ UNCHANGED <<messages, canEnqueue, hasMessage, access, node>>

ClearPost(t) == FreeSlot(t, "clrPost", "clrWait")

\* Mutant: a timeout is taken for a reason to try again.
ClearTimeoutRetries(t) ==
    /\ canDequeue = 0
    /\ pc[t] = "clrWait"
    /\ UNCHANGED vars

ClearTimeout(t) ==
    /\ canDequeue = 0
    /\ Goto(t, "clrWait", "clrUnlock")
    /\ UNCHANGED <<messages, canEnqueue, canDequeue, hasMessage, access, node>>

ClearUnlock(t) == Unlock(t, "clrUnlock", "idle")

Clear(t) ==
    \/ ClearLock(t) \/ ClearToken(t) \/ ClearPop(t)
    \/ ClearPost(t) \/ ClearTimeout(t) \/ ClearUnlock(t)

-----------------------------------------------------------------------------
Next ==
    \/ \E t \in Producers : EnqueueCall(t) \/ Enqueue(t)
    \/ \E t \in Consumers : DequeueCall(t) \/ Dequeue(t)
    \/ \E t \in Clearers  : ClearCall(t) \/ Clear(t)

Spec == Init /\ [][Next]_vars

(***************************************************************************)
(* Threads run and waits are served: a thread that is inside a call keeps  *)
(* running, a waiter is not overtaken for ever (Windows queues the waiters *)
(* of an object), and the consumers loop.  Nothing makes a producer call.  *)
(***************************************************************************)
Fairness ==
    /\ \A t \in Producers : SF_vars(Enqueue(t))
    /\ \A t \in Consumers : SF_vars(DequeueCall(t)) /\ SF_vars(Dequeue(t))
    /\ \A t \in Clearers  : SF_vars(Clear(t))

FairSpec == Spec /\ Fairness

-----------------------------------------------------------------------------
\* Where the threads are, by what they owe to the semaphores.
At(labels) == {t \in Threads : pc[t] \in labels}

Reserved == At({"enqLock", "enqInsert"})                          \* slot taken, not filled
Posting  == At({"enqSet", "enqUnlock", "enqPost"})                \* inserted, token not posted
Claimed  == At({"deqLock", "deqPop", "clrPop"})                   \* token taken, not popped
Freeing  == At({"deqReset", "deqUnlock", "deqPost", "clrPost"})   \* popped, slot not freed
Locking  == {"enqInsert", "enqSet", "enqUnlock", "deqPop", "deqReset", "deqUnlock",
             "clrWait", "clrPop", "clrPost", "clrUnlock"}
Labels   == Locking \cup {"idle", "enqSlot", "enqLock", "enqPost",
                          "deqToken", "deqLock", "deqPost", "clrLock"}

\* Every variable has its type; the counts never leave 0..Capacity.
TypeOK ==
    /\ messages \in Seq(Messages)
    /\ canEnqueue \in 0..Capacity
    /\ canDequeue \in 0..Capacity
    /\ hasMessage \in BOOLEAN
    /\ access \in Threads \cup {NoThread}
    /\ pc \in [Threads -> Labels]
    /\ node \in [Threads -> Messages \cup {Garbage}]

\* The mutex is held by exactly the thread that is between a lock and its
\* unlock, so no two threads are ever inside the vector.
MutualExclusion == \A t \in Threads : (access = t) <=> (pc[t] \in Locking)

\* No token is lost or made up, whatever the interleaving of enqueue, dequeue
\* and clear: the messages in the vector are those that may be taken, plus
\* those whose enqueue has not posted its token yet, plus those a thread has
\* already claimed.
TokensMatchMessages ==
    Len(messages) = canDequeue + Cardinality(Posting) + Cardinality(Claimed)

\* Slots are conserved: free, reserved by an enqueue, filled, or popped by a
\* thread that has not yet given the slot back.
SlotsConserved ==
    canEnqueue + Cardinality(Reserved) + Len(messages) + Cardinality(Freeing) = Capacity

\* A thread about to remove a message always finds one: pop_back and *--end()
\* are never called on an empty vector, although the count and the vector are
\* changed at different moments.
NeverPopsEmpty == \A t \in Threads : pc[t] \in {"deqPop", "clrPop"} => messages # <<>>

\* No wakeup is lost: if messages are waiting and hasMessage is not set, the
\* thread that is about to set it is inside the mutex.  A poller that goes back
\* to sleep on the event therefore never sleeps on a message.
NoLostWakeup ==
    (messages # <<>> /\ ~hasMessage) => \E t \in Threads : pc[t] = "enqSet"

\* MessageQueue.h: hasMessage "is set when the queue is not empty; it is unset
\* otherwise".  The two may differ only while a thread is inside the mutex.
HasMessageIsNotEmpty == access = NoThread => (hasMessage <=> messages # <<>>)

\* A poller that saw hasMessage and went into dequeue does not sleep there on an
\* empty queue: this is what threads that must also watch a stop event rely on.
\* It needs the poller to be the only consumer, and nobody to call clear.
WokenPollerFindsMessage ==
    \A t \in Pollers : pc[t] = "deqToken" => messages # <<>>

\* The queue is a bounded first-in first-out channel (BoundedFifo): a message
\* enters when it is inserted and leaves when it is popped.
Fifo == INSTANCE BoundedFifo WITH
            queue <- messages, NoMessage <- Garbage,
            taken <- [c \in Consumers |-> node[c]]
IsBoundedFifo == Fifo!Spec

\* clear() comes to an end although it goes on for as long as tokens arrive.
ClearReturns == \A t \in Clearers : pc[t] = "clrLock" ~> pc[t] = "idle"
=============================================================================
