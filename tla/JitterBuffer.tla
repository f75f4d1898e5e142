---------------------------- MODULE JitterBuffer ----------------------------
(***************************************************************************)
(* Buffer/JitterBuffer: packets are put in by index and taken out in index *)
(* order, a packet that has not come being padded with the next one that   *)
(* has.  notFull and notEmpty count slots and elements, access guards the  *)
(* heap, and canGet is set some time after the first element arrives by a  *)
(* thread of its own (SynchronizationHelper::delayedSetEvent).  Any index  *)
(* may be put here: what the network does is the business of JitterStream. *)
(***************************************************************************)
EXTENDS Heap

CONSTANTS Putters,      \* threads that call put
          Getters,      \* threads that wait for canGet and then call get
          Capacity,     \* elements the buffer holds; also the receive window
          StrikeLimit,  \* 100 in the code
          StrayStrikes, \* values the uninitialised counter may start with
          NoThread      \* the owner of a free mutex

Threads == Putters \cup Getters

ASSUME CapacityAssumption == Capacity \in Nat \ {0} /\ Capacity <= MaxInt
ASSUME ThreadAssumption == IsFiniteSet(Threads) /\ NoThread \notin Threads
ASSUME StrikeAssumption == StrikeLimit \in Nat /\ StrayStrikes \subseteq Int

VARIABLES lastIndex,     \* the last index handed out
          strikes,       \* puts rejected in a row, as the code counts them
          notFull,       \* semaphore: free slots
          notEmpty,      \* semaphore: elements that may be taken
          canGet,        \* manual-reset event
          delayed,       \* the number of threads sleeping before SetEvent(canGet)
          access,        \* the mutex: its owner, or NoThread
          pc,            \* the call each thread is in the middle of
          index,         \* the index each thread is putting, or got
          result         \* what each thread's last call returned

shared == <<data, relativeZero, lastIndex, strikes, canGet, delayed>>
counts == <<notFull, notEmpty>>
vars   == <<shared, counts, access, pc, index, result>>

Init ==
    /\ data = <<>> /\ relativeZero = 0 /\ lastIndex = 0
    /\ strikes \in StrayStrikes
    /\ notFull = Capacity /\ notEmpty = 0
    /\ canGet = FALSE /\ delayed = 0
    /\ access = NoThread
    /\ pc = [t \in Threads |-> "idle"]
    /\ index = [t \in Threads |-> 0]
    /\ result = [t \in Threads |-> 1]

-----------------------------------------------------------------------------
Goto(t, from, to) ==
    /\ pc[t] = from
    /\ pc' = [pc EXCEPT ![t] = to]

Lock(t, from, to) ==
    /\ Goto(t, from, to)
    /\ access = NoThread
    /\ access' = t
    /\ UNCHANGED <<shared, counts, index, result>>

Released(count) == IF count < Capacity THEN count + 1 ELSE count

\* Both ends of the window are in it; when its upper end has wrapped around it
\* is what lies above the lower end or below the upper one.
IsIndexInReceiveWindow(i) ==
    LET windowHi == Wrap(lastIndex + Capacity)
        windowLo == lastIndex
    IN  IF windowHi > windowLo
        THEN windowLo <= i /\ i <= windowHi
        ELSE windowLo <= i \/ i <= windowHi

-----------------------------------------------------------------------------
\* put(index, src)
PutCall(t, i) ==
    /\ Goto(t, "idle", "putSlot")
    /\ index' = [index EXCEPT ![t] = i]
    /\ UNCHANGED <<shared, counts, access, result>>

\* Mutant: a wait that is not waited for.
PutSlotUnwaited(t) ==
    /\ Goto(t, "putSlot", "putLock")
    /\ notFull' = notFull - 1
    /\ UNCHANGED <<shared, notEmpty, access, index, result>>

PutSlot(t) ==
    /\ Goto(t, "putSlot", "putLock")
    /\ notFull > 0
    /\ notFull' = notFull - 1
    /\ UNCHANGED <<shared, notEmpty, access, index, result>>

PutLock(t) == Lock(t, "putLock", "putCheck")

\* Accepted: the first element of an empty buffer starts the delay.
PutAccept(t) ==
    /\ Goto(t, "putCheck", "putInsert")
    /\ IsIndexInReceiveWindow(index[t])
    /\ delayed' = IF data = <<>> THEN delayed + 1 ELSE delayed
    /\ UNCHANGED <<data, relativeZero, lastIndex, strikes, canGet, counts, access, index, result>>

\* Mutant: the strikes are not reset.
PutInsertKeepsStrikes(t) ==
    /\ Goto(t, "putInsert", "putUnlock")
    /\ data' = Insert(data, index[t], relativeZero)
    /\ notEmpty' = Released(notEmpty)
    /\ UNCHANGED <<relativeZero, lastIndex, strikes, canGet, delayed, notFull, access, index, result>>

PutInsert(t) ==
    /\ Goto(t, "putInsert", "putUnlock")
    /\ data' = Insert(data, index[t], relativeZero)
    /\ notEmpty' = Released(notEmpty)
    /\ strikes' = 0
    /\ UNCHANGED <<relativeZero, lastIndex, canGet, delayed, notFull, access, index, result>>

\* Mutant: the slot of a rejected element is not given back.
PutRejectKeepsSlot(t) ==
    /\ Goto(t, "putCheck", "putUnlock")
    /\ ~IsIndexInReceiveWindow(index[t])
    /\ lastIndex' = IF strikes > StrikeLimit THEN index[t] ELSE lastIndex
    /\ strikes' = IF strikes > StrikeLimit THEN strikes ELSE strikes + 1
    /\ UNCHANGED <<data, relativeZero, canGet, delayed, counts, access, index, result>>

\* Rejected: after too many strikes the buffer moves to the index.  The count
\* stops above the limit here: the code only ever compares it with the limit.
PutReject(t) ==
    /\ Goto(t, "putCheck", "putUnlock")
    /\ ~IsIndexInReceiveWindow(index[t])
    /\ lastIndex' = IF strikes > StrikeLimit THEN index[t] ELSE lastIndex
    /\ strikes' = IF strikes > StrikeLimit THEN strikes ELSE strikes + 1
    /\ notFull' = Released(notFull)
    /\ UNCHANGED <<data, relativeZero, canGet, delayed, notEmpty, access, index, result>>

PutUnlock(t) ==
    /\ Goto(t, "putUnlock", "putReturn")
    /\ access' = NoThread
    /\ UNCHANGED <<shared, counts, index, result>>

\* The result is computed after the mutex is released.
PutReturn(t) ==
    /\ Goto(t, "putReturn", "idle")
    /\ result' = [result EXCEPT ![t] = IF index[t] > lastIndex THEN 1 ELSE 0]
    /\ UNCHANGED <<shared, counts, access, index>>

Put(t) ==
    \/ PutSlot(t) \/ PutLock(t) \/ PutAccept(t) \/ PutInsert(t)
    \/ PutReject(t) \/ PutUnlock(t) \/ PutReturn(t)

-----------------------------------------------------------------------------
\* get(dest), called by the threads of VoiceBufferer and MusicBufferer after
\* they have waited for canGet
GetCall(t) ==
    /\ canGet
    /\ Goto(t, "idle", "getToken")
    /\ UNCHANGED <<shared, counts, access, index, result>>

GetToken(t) ==
    /\ Goto(t, "getToken", "getLock")
    /\ notEmpty > 0
    /\ notEmpty' = notEmpty - 1
    /\ UNCHANGED <<shared, notFull, access, index, result>>

GetLock(t) == Lock(t, "getLock", "getWait")

\* Waits for the delay with the mutex held.
GetWait(t) ==
    /\ canGet
    /\ Goto(t, "getWait", "getTake")
    /\ UNCHANGED <<shared, counts, access, index, result>>

\* Mutants: padding keeps the token, or does not move on to the next index.
GetTakeKeepsToken(t) ==
    /\ Goto(t, "getTake", "getReset")
    /\ index' = [index EXCEPT ![t] = data[1]]
    /\ relativeZero' = lastIndex
    /\ lastIndex' = Wrap(lastIndex + 1)
    /\ IF lastIndex' = data[1]
       THEN /\ data' = Remove(data, relativeZero')
            /\ notFull' = Released(notFull)
       ELSE UNCHANGED <<data, notFull>>
    /\ UNCHANGED <<strikes, canGet, delayed, notEmpty, access, result>>

GetTakeWaits(t) ==
    /\ Goto(t, "getTake", "getReset")
    /\ index' = [index EXCEPT ![t] = data[1]]
    /\ relativeZero' = lastIndex
    /\ IF Wrap(lastIndex + 1) = data[1]
       THEN /\ data' = Remove(data, relativeZero')
            /\ lastIndex' = data[1]
            /\ notFull' = Released(notFull)
            /\ UNCHANGED notEmpty
       ELSE /\ notEmpty' = Released(notEmpty)
            /\ UNCHANGED <<data, lastIndex, notFull>>
    /\ UNCHANGED <<strikes, canGet, delayed, access, result>>

\* Mutant: the index is incremented after the comparison.
GetTakeIncrementsLate(t) ==
    /\ Goto(t, "getTake", "getReset")
    /\ index' = [index EXCEPT ![t] = data[1]]
    /\ relativeZero' = lastIndex
    /\ lastIndex' = Wrap(lastIndex + 1)
    /\ IF lastIndex = data[1]
       THEN /\ data' = Remove(data, relativeZero')
            /\ notFull' = Released(notFull)
            /\ UNCHANGED notEmpty
       ELSE /\ notEmpty' = Released(notEmpty)
            /\ UNCHANGED <<data, notFull>>
    /\ UNCHANGED <<strikes, canGet, delayed, access, result>>

\* The root is handed out; it is removed when it is the next index, and only
\* pads for the next index otherwise.
GetTake(t) ==
    /\ Goto(t, "getTake", "getReset")
    /\ index' = [index EXCEPT ![t] = data[1]]
    /\ relativeZero' = lastIndex
    /\ lastIndex' = Wrap(lastIndex + 1)
    /\ IF lastIndex' = data[1]
       THEN /\ data' = Remove(data, relativeZero')
            /\ notFull' = Released(notFull)
            /\ UNCHANGED notEmpty
       ELSE /\ notEmpty' = Released(notEmpty)
            /\ UNCHANGED <<data, notFull>>
    /\ UNCHANGED <<strikes, canGet, delayed, access, result>>

\* Mutant: the event stays set when the buffer runs out.
GetResetNever(t) ==
    /\ Goto(t, "getReset", "getUnlock")
    /\ UNCHANGED <<shared, counts, access, index, result>>

GetReset(t) ==
    /\ Goto(t, "getReset", "getUnlock")
    /\ canGet' = (canGet /\ data # <<>>)
    /\ UNCHANGED <<data, relativeZero, lastIndex, strikes, delayed, counts, access, index, result>>

GetUnlock(t) ==
    /\ Goto(t, "getUnlock", "idle")
    /\ access' = NoThread
    /\ result' = [result EXCEPT ![t] = 1]
    /\ UNCHANGED <<shared, counts, index>>

Get(t) ==
    GetToken(t) \/ GetLock(t) \/ GetWait(t) \/ GetTake(t) \/ GetReset(t) \/ GetUnlock(t)

-----------------------------------------------------------------------------
\* delayedSetEventRoutine: the sleep is over.
DelayedSet ==
    /\ delayed > 0
    /\ delayed' = delayed - 1
    /\ canGet' = TRUE
    /\ UNCHANGED <<data, relativeZero, lastIndex, strikes, counts, access, pc, index, result>>

Next ==
    \/ \E t \in Putters : (\E i \in Ints : PutCall(t, i)) \/ Put(t)
    \/ \E t \in Getters : GetCall(t) \/ Get(t)
    \/ DelayedSet

Spec == Init /\ [][Next]_vars

-----------------------------------------------------------------------------
At(labels) == {t \in Threads : pc[t] \in labels}

Filling  == At({"putLock", "putCheck", "putInsert"})   \* slot taken, nothing inserted
Claiming == At({"getLock", "getWait", "getTake"})      \* token taken, nothing removed
Locking  == {"putCheck", "putInsert", "putUnlock", "getWait", "getTake", "getReset", "getUnlock"}
Labels   == Locking \cup {"idle", "putSlot", "putLock", "putReturn", "getToken", "getLock"}

\* Every variable has its type.
TypeOK ==
    /\ data \in Seq(Ints)
    /\ relativeZero \in Ints /\ lastIndex \in Ints /\ strikes \in Int
    /\ notFull \in 0..Capacity /\ notEmpty \in 0..Capacity
    /\ canGet \in BOOLEAN /\ delayed \in Nat
    /\ access \in Threads \cup {NoThread}
    /\ pc \in [Threads -> Labels]
    /\ index \in [Threads -> Ints]
    /\ result \in [Threads -> {0, 1}]

MutualExclusion == \A t \in Threads : (access = t) <=> (pc[t] \in Locking)

\* A getter that only padded gives its token back, one that removed gives a
\* slot back, a rejected put gives its slot back: elements and slots add up, so
\* a getter never looks at the root of an empty heap.
ElementsAreCounted ==
    /\ Len(data) = notEmpty + Cardinality(Claiming)
    /\ notFull + Cardinality(Filling) + Len(data) = Capacity

\* The delay of the header comment: "when the buffer is initially empty, and a
\* new element is put into the buffer, any call to get will block for delay
\* milliseconds".  A buffer with elements is open for getting or has exactly one
\* timer running, never both; an empty one has neither.  A getter that sleeps
\* on canGet with the mutex in its hand is therefore always woken.
OpenOrDelayed ==
    LET Inserting == \E t \in Threads : pc[t] = "putInsert"
        Resetting == \E t \in Threads : pc[t] = "getReset"
    IN  IF data # <<>> \/ Inserting
        THEN delayed = (IF canGet THEN 0 ELSE 1)
        ELSE delayed = 0 /\ (canGet => Resetting)
=============================================================================
