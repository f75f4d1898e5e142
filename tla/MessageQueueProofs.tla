------------------------- MODULE MessageQueueProofs -------------------------
(***************************************************************************)
(* MessageQueue is safe for any number of threads, any capacity and any    *)
(* messages: its tokens and slots are conserved, so a thread about to pop  *)
(* finds a message and a thread about to insert finds room, and the queue  *)
(* implements the bounded FIFO channel.                                    *)
(***************************************************************************)
EXTENDS MessageQueue, FiniteSetTheorems, TLAPS

ReservedLabels == {"enqLock", "enqInsert"}
PostingLabels  == {"enqSet", "enqUnlock", "enqPost"}
ClaimedLabels  == {"deqLock", "deqPop", "clrPop"}
FreeingLabels  == {"deqReset", "deqUnlock", "deqPost", "clrPost"}

Those(f, S) == {u \in Threads : f[u] \in S}
Bit(label, labels) == IF label \in labels THEN 1 ELSE 0

\* An enqueueing thread holds a message, not unset memory.
EnqueuesMessages ==
    \A t \in Threads : pc[t] \in {"enqSlot", "enqLock", "enqInsert"} => node[t] \in Messages

\* The inductive invariant: none of the parts is inductive alone.  The counts
\* stay in range because tokens and slots are conserved, and the conservation
\* needs the labels and the mutex.
IInv ==
    /\ TypeOK
    /\ MutualExclusion
    /\ EnqueuesMessages
    /\ TokensMatchMessages
    /\ SlotsConserved

\* A step changes the number of threads in a group by n.
Moved(group, n) ==
    /\ Cardinality(group) \in Nat
    /\ Cardinality(group)' \in Nat
    /\ Cardinality(group)' = Cardinality(group) + n

\* A sequence is empty exactly when its length is 0.
LEMMA EmptyLength == ASSUME NEW S, NEW s \in Seq(S) PROVE s = <<>> <=> Len(s) = 0
OBVIOUS

\* A bit is an integer, so sums of bits are arithmetic.
LEMMA BitInteger == \A label, labels : Bit(label, labels) \in Int
BY DEF Bit

-----------------------------------------------------------------------------
\* Moving one thread from a label to another changes the number of threads at
\* a set of labels by what the two labels say.
LEMMA MoveCount ==
    ASSUME NEW f \in [Threads -> Labels], NEW t \in Threads, NEW to, NEW S
    PROVE  /\ Cardinality(Those(f, S)) \in Nat
           /\ Cardinality(Those([f EXCEPT ![t] = to], S)) \in Nat
           /\ Cardinality(Those([f EXCEPT ![t] = to], S))
                = Cardinality(Those(f, S)) + Bit(to, S) - Bit(f[t], S)
<1> DEFINE A == Those(f, S)
           B == Those([f EXCEPT ![t] = to], S)
<1>1. IsFiniteSet(A) /\ IsFiniteSet(B) /\ Cardinality(A) \in Nat /\ Cardinality(B) \in Nat
  <2>1. A \subseteq Threads /\ B \subseteq Threads
    BY DEF Those
  <2>2. QED
    BY <2>1, ThreadAssumption, FS_Subset, FS_CardinalityType
<1>2. CASE to \in S /\ f[t] \in S
  <2>1. A = B
    BY <1>2 DEF Those
  <2>2. QED
    BY <1>1, <1>2, <2>1 DEF Bit
<1>3. CASE to \in S /\ f[t] \notin S
  <2>1. B = A \cup {t} /\ t \notin A
    BY <1>3 DEF Those
  <2>2. Cardinality(B) = Cardinality(A) + 1
    BY <1>1, <2>1, FS_AddElement
  <2>3. QED
    BY <1>1, <1>3, <2>2 DEF Bit
<1>4. CASE to \notin S /\ f[t] \in S
  <2>1. B = A \ {t} /\ t \in A
    BY <1>4 DEF Those
  <2>2. Cardinality(B) = Cardinality(A) - 1
    BY <1>1, <2>1, FS_RemoveElement
  <2>3. QED
    BY <1>1, <1>4, <2>2 DEF Bit
<1>5. CASE to \notin S /\ f[t] \notin S
  <2>1. A = B
    BY <1>5 DEF Those
  <2>2. QED
    BY <1>1, <1>5, <2>1 DEF Bit
<1>6. QED
  BY <1>1, <1>2, <1>3, <1>4, <1>5

\* The same for the four groups that the invariant counts.
LEMMA GroupCounts ==
    ASSUME pc \in [Threads -> Labels], NEW t \in Threads, NEW from, NEW to, Goto(t, from, to)
    PROVE  /\ Moved(Reserved, Bit(to, ReservedLabels) - Bit(from, ReservedLabels))
           /\ Moved(Posting, Bit(to, PostingLabels) - Bit(from, PostingLabels))
           /\ Moved(Claimed, Bit(to, ClaimedLabels) - Bit(from, ClaimedLabels))
           /\ Moved(Freeing, Bit(to, FreeingLabels) - Bit(from, FreeingLabels))
<1>1. pc[t] = from /\ pc' = [pc EXCEPT ![t] = to]
  BY DEF Goto
<1>2. \A S : /\ Cardinality(Those(pc, S)) \in Nat
             /\ Cardinality(Those(pc', S)) \in Nat
             /\ Cardinality(Those(pc', S)) = Cardinality(Those(pc, S)) + Bit(to, S) - Bit(from, S)
  BY <1>1, MoveCount
<1>3. /\ Reserved = Those(pc, ReservedLabels) /\ Reserved' = Those(pc', ReservedLabels)
      /\ Posting = Those(pc, PostingLabels) /\ Posting' = Those(pc', PostingLabels)
      /\ Claimed = Those(pc, ClaimedLabels) /\ Claimed' = Those(pc', ClaimedLabels)
      /\ Freeing = Those(pc, FreeingLabels) /\ Freeing' = Those(pc', FreeingLabels)
  BY DEF Reserved, Posting, Claimed, Freeing, At, Those, ReservedLabels, PostingLabels, ClaimedLabels, FreeingLabels
<1>4. QED
  BY <1>2, <1>3, BitInteger DEF Moved

-----------------------------------------------------------------------------
\* A group with a member counts at least 1.
LEMMA MemberCounts ==
    ASSUME NEW S, NEW t \in Threads, pc[t] \in S
    PROVE  Cardinality(At(S)) \in Nat \ {0}
<1>1. IsFiniteSet(At(S))
  BY ThreadAssumption, FS_Subset DEF At
<1>2. t \in At(S)
  BY DEF At
<1>3. QED
  BY <1>1, <1>2, FS_CardinalityType, FS_EmptySet

\* The four group counts of the invariant are natural numbers.
LEMMA CountsAreNat ==
    /\ Cardinality(Reserved) \in Nat /\ Cardinality(Posting) \in Nat
    /\ Cardinality(Claimed) \in Nat /\ Cardinality(Freeing) \in Nat
<1>1. \A S : IsFiniteSet(At(S))
  BY ThreadAssumption, FS_Subset DEF At
<1>2. QED
  BY <1>1, FS_CardinalityType DEF Reserved, Posting, Claimed, Freeing

\* What the counts leave to a thread that is part of one of them.
LEMMA Margins ==
    ASSUME IInv, NEW t \in Threads
    PROVE  /\ pc[t] \in ReservedLabels => Len(messages) < Capacity
           /\ pc[t] \in PostingLabels => canDequeue < Capacity
           /\ pc[t] \in ClaimedLabels => messages # <<>>
           /\ pc[t] \in FreeingLabels => canEnqueue < Capacity
<1>1. Len(messages) \in Nat /\ canEnqueue \in Nat /\ canDequeue \in Nat /\ Capacity \in Nat
  BY CapacityAssumption DEF IInv, TypeOK
<1>2. /\ Len(messages) = canDequeue + Cardinality(Posting) + Cardinality(Claimed)
      /\ canEnqueue + Cardinality(Reserved) + Len(messages) + Cardinality(Freeing) = Capacity
  BY DEF IInv, TokensMatchMessages, SlotsConserved
<1>3. ASSUME pc[t] \in ReservedLabels PROVE Len(messages) < Capacity
  <2>1. Cardinality(Reserved) \in Nat \ {0}
    BY <1>3, MemberCounts DEF Reserved, ReservedLabels
  <2>2. QED
    BY <1>1, <1>2, <2>1, CountsAreNat
<1>4. ASSUME pc[t] \in PostingLabels PROVE canDequeue < Capacity
  <2>1. Cardinality(Posting) \in Nat \ {0}
    BY <1>4, MemberCounts DEF Posting, PostingLabels
  <2>2. QED
    BY <1>1, <1>2, <2>1, CountsAreNat
<1>5. ASSUME pc[t] \in ClaimedLabels PROVE messages # <<>>
  <2>1. Cardinality(Claimed) \in Nat \ {0}
    BY <1>5, MemberCounts DEF Claimed, ClaimedLabels
  <2>2. Len(messages) # 0
    BY <1>1, <1>2, <2>1, CountsAreNat
  <2>3. QED
    BY <2>2, EmptyLength DEF IInv, TypeOK
<1>6. ASSUME pc[t] \in FreeingLabels PROVE canEnqueue < Capacity
  <2>1. Cardinality(Freeing) \in Nat \ {0}
    BY <1>6, MemberCounts DEF Freeing, FreeingLabels
  <2>2. QED
    BY <1>1, <1>2, <2>1, CountsAreNat
<1>7. QED
  BY <1>3, <1>4, <1>5, <1>6

-----------------------------------------------------------------------------
\* What a step of a thread from one label to another must do to keep the
\* invariant, when it changes the length of the vector and the two semaphores
\* by l, e and d.
Balanced(from, to, l, e, d) ==
    /\ l = d + (Bit(to, PostingLabels) - Bit(from, PostingLabels)) + (Bit(to, ClaimedLabels) - Bit(from, ClaimedLabels))
    /\ 0 = e + (Bit(to, ReservedLabels) - Bit(from, ReservedLabels)) + l + (Bit(to, FreeingLabels) - Bit(from, FreeingLabels))

Counted(l, e, d) ==
    /\ messages' \in Seq(Messages) /\ Len(messages') = Len(messages) + l
    /\ canEnqueue' = canEnqueue + e /\ canEnqueue' >= 0
    /\ canDequeue' = canDequeue + d /\ canDequeue' >= 0

KeepsMutex(t, from, to) ==
    \/ from \notin Locking /\ to \in Locking /\ access = NoThread /\ access' = t
    \/ from \in Locking /\ to \notin Locking /\ access' = NoThread
    \/ (from \in Locking <=> to \in Locking) /\ access' = access

KeepsNodes(t, to) ==
    /\ hasMessage' \in BOOLEAN
    /\ node' \in [Threads -> Messages \cup {Garbage}]
    /\ \A u \in Threads \ {t} : node'[u] = node[u]
    /\ to \in {"enqSlot", "enqLock", "enqInsert"} => node'[t] \in Messages

\* What the conserved sums say after a step follows from how the step moves one
\* thread between the groups and what it adds to the two semaphores.
LEMMA StepKeepsIInv ==
    ASSUME IInv, NEW t \in Threads, NEW from \in Labels, NEW to \in Labels,
           Goto(t, from, to), KeepsMutex(t, from, to), KeepsNodes(t, to),
           NEW l \in Int, NEW e \in Int, NEW d \in Int, Counted(l, e, d), Balanced(from, to, l, e, d)
    PROVE  IInv'
<1> DEFINE r == Bit(to, ReservedLabels) - Bit(from, ReservedLabels)
           p == Bit(to, PostingLabels) - Bit(from, PostingLabels)
           c == Bit(to, ClaimedLabels) - Bit(from, ClaimedLabels)
           f == Bit(to, FreeingLabels) - Bit(from, FreeingLabels)
<1>1. r \in Int /\ p \in Int /\ c \in Int /\ f \in Int
  BY BitInteger
<1>2. l = d + p + c /\ 0 = e + r + l + f
  BY DEF Balanced
<1>3. Moved(Reserved, r) /\ Moved(Posting, p) /\ Moved(Claimed, c) /\ Moved(Freeing, f)
  BY GroupCounts DEF IInv, TypeOK
<1> HIDE DEF r, p, c, f
<1>4. /\ Len(messages) \in Nat /\ canEnqueue \in Nat /\ canDequeue \in Nat /\ Capacity \in Nat
      /\ Len(messages') \in Nat /\ canEnqueue' \in Nat /\ canDequeue' \in Nat
  BY CapacityAssumption DEF IInv, TypeOK, Counted
<1>5. TokensMatchMessages'
  <2>1. /\ Cardinality(Posting)' \in Nat /\ Cardinality(Posting)' = Cardinality(Posting) + p
        /\ Cardinality(Claimed)' \in Nat /\ Cardinality(Claimed)' = Cardinality(Claimed) + c
    BY <1>3 DEF Moved
  <2>2. Len(messages') = Len(messages) + l /\ canDequeue' = canDequeue + d
    BY DEF Counted
  <2>3. Len(messages) = canDequeue + Cardinality(Posting) + Cardinality(Claimed)
    BY DEF IInv, TokensMatchMessages
  <2>4. QED
    BY <1>1, <1>2, <1>4, <2>1, <2>2, <2>3, CountsAreNat DEF TokensMatchMessages
<1>6. SlotsConserved'
  <2>1. /\ Cardinality(Reserved)' \in Nat /\ Cardinality(Reserved)' = Cardinality(Reserved) + r
        /\ Cardinality(Freeing)' \in Nat /\ Cardinality(Freeing)' = Cardinality(Freeing) + f
    BY <1>3 DEF Moved
  <2>2. Len(messages') = Len(messages) + l /\ canEnqueue' = canEnqueue + e
    BY DEF Counted
  <2>3. canEnqueue + Cardinality(Reserved) + Len(messages) + Cardinality(Freeing) = Capacity
    BY DEF IInv, SlotsConserved
  <2>4. canEnqueue' + Cardinality(Reserved)' = canEnqueue + Cardinality(Reserved) + (e + r)
    BY <1>1, <1>4, <2>1, <2>2, CountsAreNat
  <2>5. Len(messages') + Cardinality(Freeing)' = Len(messages) + Cardinality(Freeing) + (l + f)
    BY <1>1, <1>4, <2>1, <2>2, CountsAreNat
  <2>6. (canEnqueue' + Cardinality(Reserved)') + (Len(messages') + Cardinality(Freeing)') = Capacity
    BY <1>1, <1>2, <1>4, <2>3, <2>4, <2>5, CountsAreNat
  <2>7. QED
    BY <1>4, <2>1, <2>6 DEF SlotsConserved
<1>7. TypeOK'
  <2>1. canEnqueue' \in 0..Capacity /\ canDequeue' \in 0..Capacity
    <3>1. /\ Cardinality(Reserved)' \in Nat /\ Cardinality(Posting)' \in Nat
          /\ Cardinality(Claimed)' \in Nat /\ Cardinality(Freeing)' \in Nat
      BY <1>3 DEF Moved
    <3>2. canDequeue' <= Len(messages')
      BY <1>4, <1>5, <3>1 DEF TokensMatchMessages
    <3>3. canEnqueue' + Len(messages') <= Capacity
      BY <1>4, <1>6, <3>1 DEF SlotsConserved
    <3>4. QED
      BY <1>4, <3>2, <3>3
  <2>2. messages' \in Seq(Messages) /\ hasMessage' \in BOOLEAN /\ node' \in [Threads -> Messages \cup {Garbage}]
    BY DEF Counted, KeepsNodes
  <2>3. access' \in Threads \cup {NoThread} /\ pc' \in [Threads -> Labels]
    BY DEF IInv, TypeOK, KeepsMutex, Goto
  <2>4. QED
    BY <2>1, <2>2, <2>3 DEF TypeOK
<1>8. MutualExclusion'
  BY ThreadAssumption DEF IInv, TypeOK, MutualExclusion, KeepsMutex, Goto
<1>9. EnqueuesMessages'
  BY DEF IInv, TypeOK, EnqueuesMessages, KeepsNodes, Goto
<1>10. QED
  BY <1>5, <1>6, <1>7, <1>8, <1>9 DEF IInv

\* A step inside enqueue keeps the invariant.
LEMMA EnqueueKeepsIInv ==
    ASSUME IInv, NEW t \in Threads, Enqueue(t)
    PROVE  IInv'
<1>1. CASE EnqueueSlot(t)
  <2>1. Goto(t, "enqSlot", "enqLock") /\ KeepsMutex(t, "enqSlot", "enqLock") /\ KeepsNodes(t, "enqLock")
    BY <1>1 DEF EnqueueSlot, TakeSlot, IInv, TypeOK, EnqueuesMessages, Goto, KeepsMutex, KeepsNodes, Locking
  <2>2. Counted(0, -1, 0)
    BY <1>1, <2>1 DEF EnqueueSlot, TakeSlot, IInv, TypeOK, EnqueuesMessages, Goto, Counted
  <2>3. Balanced("enqSlot", "enqLock", 0, -1, 0)
    BY DEF Balanced, Bit, ReservedLabels, PostingLabels, ClaimedLabels, FreeingLabels
  <2>4. QED
    BY <2>1, <2>2, <2>3, StepKeepsIInv DEF Labels, Locking
<1>2. CASE EnqueueLock(t)
  <2>1. Goto(t, "enqLock", "enqInsert") /\ KeepsMutex(t, "enqLock", "enqInsert") /\ KeepsNodes(t, "enqInsert")
    BY <1>2 DEF EnqueueLock, Lock, IInv, TypeOK, EnqueuesMessages, Goto, KeepsMutex, KeepsNodes, Locking
  <2>2. Counted(0, 0, 0)
    BY <1>2, <2>1 DEF EnqueueLock, Lock, IInv, TypeOK, EnqueuesMessages, Goto, Counted
  <2>3. Balanced("enqLock", "enqInsert", 0, 0, 0)
    BY DEF Balanced, Bit, ReservedLabels, PostingLabels, ClaimedLabels, FreeingLabels
  <2>4. QED
    BY <2>1, <2>2, <2>3, StepKeepsIInv DEF Labels, Locking
<1>3. CASE EnqueueInsert(t)
  <2>1. Goto(t, "enqInsert", "enqSet") /\ KeepsMutex(t, "enqInsert", "enqSet") /\ KeepsNodes(t, "enqSet")
    BY <1>3 DEF EnqueueInsert, IInv, TypeOK, EnqueuesMessages, Goto, KeepsMutex, KeepsNodes, Locking
  <2>2. Counted(1, 0, 0)
    BY <1>3, <2>1 DEF EnqueueInsert, IInv, TypeOK, EnqueuesMessages, Goto, Counted
  <2>3. Balanced("enqInsert", "enqSet", 1, 0, 0)
    BY DEF Balanced, Bit, ReservedLabels, PostingLabels, ClaimedLabels, FreeingLabels
  <2>4. QED
    BY <2>1, <2>2, <2>3, StepKeepsIInv DEF Labels, Locking
<1>4. CASE EnqueueSet(t)
  <2>1. Goto(t, "enqSet", "enqUnlock") /\ KeepsMutex(t, "enqSet", "enqUnlock") /\ KeepsNodes(t, "enqUnlock")
    BY <1>4 DEF EnqueueSet, IInv, TypeOK, EnqueuesMessages, Goto, KeepsMutex, KeepsNodes, Locking
  <2>2. Counted(0, 0, 0)
    BY <1>4, <2>1 DEF EnqueueSet, IInv, TypeOK, EnqueuesMessages, Goto, Counted
  <2>3. Balanced("enqSet", "enqUnlock", 0, 0, 0)
    BY DEF Balanced, Bit, ReservedLabels, PostingLabels, ClaimedLabels, FreeingLabels
  <2>4. QED
    BY <2>1, <2>2, <2>3, StepKeepsIInv DEF Labels, Locking
<1>5. CASE EnqueueUnlock(t)
  <2>1. Goto(t, "enqUnlock", "enqPost") /\ KeepsMutex(t, "enqUnlock", "enqPost") /\ KeepsNodes(t, "enqPost")
    BY <1>5 DEF EnqueueUnlock, Unlock, IInv, TypeOK, EnqueuesMessages, Goto, KeepsMutex, KeepsNodes, Locking
  <2>2. Counted(0, 0, 0)
    BY <1>5, <2>1 DEF EnqueueUnlock, Unlock, IInv, TypeOK, EnqueuesMessages, Goto, Counted
  <2>3. Balanced("enqUnlock", "enqPost", 0, 0, 0)
    BY DEF Balanced, Bit, ReservedLabels, PostingLabels, ClaimedLabels, FreeingLabels
  <2>4. QED
    BY <2>1, <2>2, <2>3, StepKeepsIInv DEF Labels, Locking
<1>6. CASE EnqueuePost(t)
  <2>1. Goto(t, "enqPost", "idle") /\ KeepsMutex(t, "enqPost", "idle") /\ KeepsNodes(t, "idle")
    BY <1>6 DEF EnqueuePost, Released, IInv, TypeOK, EnqueuesMessages, Goto, KeepsMutex, KeepsNodes, Locking
  <2>2. Counted(0, 0, 1)
    BY <1>6, <2>1, Margins DEF EnqueuePost, Released, IInv, TypeOK, EnqueuesMessages, Goto, Counted, PostingLabels, ClaimedLabels, FreeingLabels
  <2>3. Balanced("enqPost", "idle", 0, 0, 1)
    BY DEF Balanced, Bit, ReservedLabels, PostingLabels, ClaimedLabels, FreeingLabels
  <2>4. QED
    BY <2>1, <2>2, <2>3, StepKeepsIInv DEF Labels, Locking
<1>7. QED
  BY <1>1, <1>2, <1>3, <1>4, <1>5, <1>6 DEF Enqueue

\* So does a step inside dequeue.
LEMMA DequeueKeepsIInv ==
    ASSUME IInv, NEW t \in Threads, Dequeue(t)
    PROVE  IInv'
<1>1. CASE DequeueToken(t)
  <2>1. Goto(t, "deqToken", "deqLock") /\ KeepsMutex(t, "deqToken", "deqLock") /\ KeepsNodes(t, "deqLock")
    BY <1>1 DEF DequeueToken, TakeToken, IInv, TypeOK, EnqueuesMessages, Goto, KeepsMutex, KeepsNodes, Locking
  <2>2. Counted(0, 0, -1)
    BY <1>1, <2>1 DEF DequeueToken, TakeToken, IInv, TypeOK, EnqueuesMessages, Goto, Counted
  <2>3. Balanced("deqToken", "deqLock", 0, 0, -1)
    BY DEF Balanced, Bit, ReservedLabels, PostingLabels, ClaimedLabels, FreeingLabels
  <2>4. QED
    BY <2>1, <2>2, <2>3, StepKeepsIInv DEF Labels, Locking
<1>2. CASE DequeueLock(t)
  <2>1. Goto(t, "deqLock", "deqPop") /\ KeepsMutex(t, "deqLock", "deqPop") /\ KeepsNodes(t, "deqPop")
    BY <1>2 DEF DequeueLock, Lock, IInv, TypeOK, EnqueuesMessages, Goto, KeepsMutex, KeepsNodes, Locking
  <2>2. Counted(0, 0, 0)
    BY <1>2, <2>1 DEF DequeueLock, Lock, IInv, TypeOK, EnqueuesMessages, Goto, Counted
  <2>3. Balanced("deqLock", "deqPop", 0, 0, 0)
    BY DEF Balanced, Bit, ReservedLabels, PostingLabels, ClaimedLabels, FreeingLabels
  <2>4. QED
    BY <2>1, <2>2, <2>3, StepKeepsIInv DEF Labels, Locking
<1>3. CASE DequeuePop(t)
  <2>1. Goto(t, "deqPop", "deqReset") /\ KeepsMutex(t, "deqPop", "deqReset") /\ KeepsNodes(t, "deqReset")
    BY <1>3 DEF DequeuePop, Popped, Oldest, IInv, TypeOK, EnqueuesMessages, Goto, KeepsMutex, KeepsNodes, Locking
  <2>2. Counted(-1, 0, 0)
    BY <1>3, <2>1, Margins DEF DequeuePop, Popped, Oldest, IInv, TypeOK, EnqueuesMessages, Goto, Counted, PostingLabels, ClaimedLabels, FreeingLabels
  <2>3. Balanced("deqPop", "deqReset", -1, 0, 0)
    BY DEF Balanced, Bit, ReservedLabels, PostingLabels, ClaimedLabels, FreeingLabels
  <2>4. QED
    BY <2>1, <2>2, <2>3, StepKeepsIInv DEF Labels, Locking
<1>4. CASE DequeueReset(t)
  <2>1. Goto(t, "deqReset", "deqUnlock") /\ KeepsMutex(t, "deqReset", "deqUnlock") /\ KeepsNodes(t, "deqUnlock")
    BY <1>4 DEF DequeueReset, IInv, TypeOK, EnqueuesMessages, Goto, KeepsMutex, KeepsNodes, Locking
  <2>2. Counted(0, 0, 0)
    BY <1>4, <2>1 DEF DequeueReset, IInv, TypeOK, EnqueuesMessages, Goto, Counted
  <2>3. Balanced("deqReset", "deqUnlock", 0, 0, 0)
    BY DEF Balanced, Bit, ReservedLabels, PostingLabels, ClaimedLabels, FreeingLabels
  <2>4. QED
    BY <2>1, <2>2, <2>3, StepKeepsIInv DEF Labels, Locking
<1>5. CASE DequeueUnlock(t)
  <2>1. Goto(t, "deqUnlock", "deqPost") /\ KeepsMutex(t, "deqUnlock", "deqPost") /\ KeepsNodes(t, "deqPost")
    BY <1>5 DEF DequeueUnlock, Unlock, IInv, TypeOK, EnqueuesMessages, Goto, KeepsMutex, KeepsNodes, Locking
  <2>2. Counted(0, 0, 0)
    BY <1>5, <2>1 DEF DequeueUnlock, Unlock, IInv, TypeOK, EnqueuesMessages, Goto, Counted
  <2>3. Balanced("deqUnlock", "deqPost", 0, 0, 0)
    BY DEF Balanced, Bit, ReservedLabels, PostingLabels, ClaimedLabels, FreeingLabels
  <2>4. QED
    BY <2>1, <2>2, <2>3, StepKeepsIInv DEF Labels, Locking
<1>6. CASE DequeuePost(t)
  <2>1. Goto(t, "deqPost", "idle") /\ KeepsMutex(t, "deqPost", "idle") /\ KeepsNodes(t, "idle")
    BY <1>6 DEF DequeuePost, FreeSlot, Released, IInv, TypeOK, EnqueuesMessages, Goto, KeepsMutex, KeepsNodes, Locking
  <2>2. Counted(0, 1, 0)
    BY <1>6, <2>1, Margins DEF DequeuePost, FreeSlot, Released, IInv, TypeOK, EnqueuesMessages, Goto, Counted, PostingLabels, ClaimedLabels, FreeingLabels
  <2>3. Balanced("deqPost", "idle", 0, 1, 0)
    BY DEF Balanced, Bit, ReservedLabels, PostingLabels, ClaimedLabels, FreeingLabels
  <2>4. QED
    BY <2>1, <2>2, <2>3, StepKeepsIInv DEF Labels, Locking
<1>7. QED
  BY <1>1, <1>2, <1>3, <1>4, <1>5, <1>6 DEF Dequeue

\* So does a step inside clear.
LEMMA ClearKeepsIInv ==
    ASSUME IInv, NEW t \in Threads, Clear(t)
    PROVE  IInv'
<1>1. CASE ClearLock(t)
  <2>1. Goto(t, "clrLock", "clrWait") /\ KeepsMutex(t, "clrLock", "clrWait") /\ KeepsNodes(t, "clrWait")
    BY <1>1 DEF ClearLock, Lock, IInv, TypeOK, EnqueuesMessages, Goto, KeepsMutex, KeepsNodes, Locking
  <2>2. Counted(0, 0, 0)
    BY <1>1, <2>1 DEF ClearLock, Lock, IInv, TypeOK, EnqueuesMessages, Goto, Counted
  <2>3. Balanced("clrLock", "clrWait", 0, 0, 0)
    BY DEF Balanced, Bit, ReservedLabels, PostingLabels, ClaimedLabels, FreeingLabels
  <2>4. QED
    BY <2>1, <2>2, <2>3, StepKeepsIInv DEF Labels, Locking
<1>2. CASE ClearToken(t)
  <2>1. Goto(t, "clrWait", "clrPop") /\ KeepsMutex(t, "clrWait", "clrPop") /\ KeepsNodes(t, "clrPop")
    BY <1>2 DEF ClearToken, TakeToken, IInv, TypeOK, EnqueuesMessages, Goto, KeepsMutex, KeepsNodes, Locking
  <2>2. Counted(0, 0, -1)
    BY <1>2, <2>1 DEF ClearToken, TakeToken, IInv, TypeOK, EnqueuesMessages, Goto, Counted
  <2>3. Balanced("clrWait", "clrPop", 0, 0, -1)
    BY DEF Balanced, Bit, ReservedLabels, PostingLabels, ClaimedLabels, FreeingLabels
  <2>4. QED
    BY <2>1, <2>2, <2>3, StepKeepsIInv DEF Labels, Locking
<1>3. CASE ClearPop(t)
  <2>1. Goto(t, "clrPop", "clrPost") /\ KeepsMutex(t, "clrPop", "clrPost") /\ KeepsNodes(t, "clrPost")
    BY <1>3 DEF ClearPop, Popped, IInv, TypeOK, EnqueuesMessages, Goto, KeepsMutex, KeepsNodes, Locking
  <2>2. Counted(-1, 0, 0)
    BY <1>3, <2>1, Margins DEF ClearPop, Popped, IInv, TypeOK, EnqueuesMessages, Goto, Counted, PostingLabels, ClaimedLabels, FreeingLabels
  <2>3. Balanced("clrPop", "clrPost", -1, 0, 0)
    BY DEF Balanced, Bit, ReservedLabels, PostingLabels, ClaimedLabels, FreeingLabels
  <2>4. QED
    BY <2>1, <2>2, <2>3, StepKeepsIInv DEF Labels, Locking
<1>4. CASE ClearPost(t)
  <2>1. Goto(t, "clrPost", "clrWait") /\ KeepsMutex(t, "clrPost", "clrWait") /\ KeepsNodes(t, "clrWait")
    BY <1>4 DEF ClearPost, FreeSlot, Released, IInv, TypeOK, EnqueuesMessages, Goto, KeepsMutex, KeepsNodes, Locking
  <2>2. Counted(0, 1, 0)
    BY <1>4, <2>1, Margins DEF ClearPost, FreeSlot, Released, IInv, TypeOK, EnqueuesMessages, Goto, Counted, PostingLabels, ClaimedLabels, FreeingLabels
  <2>3. Balanced("clrPost", "clrWait", 0, 1, 0)
    BY DEF Balanced, Bit, ReservedLabels, PostingLabels, ClaimedLabels, FreeingLabels
  <2>4. QED
    BY <2>1, <2>2, <2>3, StepKeepsIInv DEF Labels, Locking
<1>5. CASE ClearTimeout(t)
  <2>1. Goto(t, "clrWait", "clrUnlock") /\ KeepsMutex(t, "clrWait", "clrUnlock") /\ KeepsNodes(t, "clrUnlock")
    BY <1>5 DEF ClearTimeout, IInv, TypeOK, EnqueuesMessages, Goto, KeepsMutex, KeepsNodes, Locking
  <2>2. Counted(0, 0, 0)
    BY <1>5, <2>1 DEF ClearTimeout, IInv, TypeOK, EnqueuesMessages, Goto, Counted
  <2>3. Balanced("clrWait", "clrUnlock", 0, 0, 0)
    BY DEF Balanced, Bit, ReservedLabels, PostingLabels, ClaimedLabels, FreeingLabels
  <2>4. QED
    BY <2>1, <2>2, <2>3, StepKeepsIInv DEF Labels, Locking
<1>6. CASE ClearUnlock(t)
  <2>1. Goto(t, "clrUnlock", "idle") /\ KeepsMutex(t, "clrUnlock", "idle") /\ KeepsNodes(t, "idle")
    BY <1>6 DEF ClearUnlock, Unlock, IInv, TypeOK, EnqueuesMessages, Goto, KeepsMutex, KeepsNodes, Locking
  <2>2. Counted(0, 0, 0)
    BY <1>6, <2>1 DEF ClearUnlock, Unlock, IInv, TypeOK, EnqueuesMessages, Goto, Counted
  <2>3. Balanced("clrUnlock", "idle", 0, 0, 0)
    BY DEF Balanced, Bit, ReservedLabels, PostingLabels, ClaimedLabels, FreeingLabels
  <2>4. QED
    BY <2>1, <2>2, <2>3, StepKeepsIInv DEF Labels, Locking
<1>7. QED
  BY <1>1, <1>2, <1>3, <1>4, <1>5, <1>6 DEF Clear

\* So does the start of a call.
LEMMA CallKeepsIInv ==
    ASSUME IInv, NEW t \in Threads, EnqueueCall(t) \/ DequeueCall(t) \/ ClearCall(t)
    PROVE  IInv'
<1>1. CASE EnqueueCall(t)
  <2>1. Goto(t, "idle", "enqSlot") /\ KeepsMutex(t, "idle", "enqSlot") /\ KeepsNodes(t, "enqSlot")
    BY <1>1 DEF EnqueueCall, IInv, TypeOK, EnqueuesMessages, Goto, KeepsMutex, KeepsNodes, Locking
  <2>2. Counted(0, 0, 0)
    BY <1>1, <2>1 DEF EnqueueCall, IInv, TypeOK, EnqueuesMessages, Goto, Counted
  <2>3. Balanced("idle", "enqSlot", 0, 0, 0)
    BY DEF Balanced, Bit, ReservedLabels, PostingLabels, ClaimedLabels, FreeingLabels
  <2>4. QED
    BY <2>1, <2>2, <2>3, StepKeepsIInv DEF Labels, Locking
<1>2. CASE DequeueCall(t)
  <2>1. Goto(t, "idle", "deqToken") /\ KeepsMutex(t, "idle", "deqToken") /\ KeepsNodes(t, "deqToken")
    BY <1>2 DEF DequeueCall, IInv, TypeOK, EnqueuesMessages, Goto, KeepsMutex, KeepsNodes, Locking
  <2>2. Counted(0, 0, 0)
    BY <1>2, <2>1 DEF DequeueCall, IInv, TypeOK, EnqueuesMessages, Goto, Counted
  <2>3. Balanced("idle", "deqToken", 0, 0, 0)
    BY DEF Balanced, Bit, ReservedLabels, PostingLabels, ClaimedLabels, FreeingLabels
  <2>4. QED
    BY <2>1, <2>2, <2>3, StepKeepsIInv DEF Labels, Locking
<1>3. CASE ClearCall(t)
  <2>1. Goto(t, "idle", "clrLock") /\ KeepsMutex(t, "idle", "clrLock") /\ KeepsNodes(t, "clrLock")
    BY <1>3 DEF ClearCall, IInv, TypeOK, EnqueuesMessages, Goto, KeepsMutex, KeepsNodes, Locking
  <2>2. Counted(0, 0, 0)
    BY <1>3, <2>1 DEF ClearCall, IInv, TypeOK, EnqueuesMessages, Goto, Counted
  <2>3. Balanced("idle", "clrLock", 0, 0, 0)
    BY DEF Balanced, Bit, ReservedLabels, PostingLabels, ClaimedLabels, FreeingLabels
  <2>4. QED
    BY <2>1, <2>2, <2>3, StepKeepsIInv DEF Labels, Locking
<1>4. QED
  BY <1>1, <1>2, <1>3

-----------------------------------------------------------------------------
\* The freshly constructed queue satisfies the inductive invariant.
LEMMA InitIInv == Init => IInv
<1> SUFFICES ASSUME Init PROVE IInv
  OBVIOUS
<1>1. Reserved = {} /\ Posting = {} /\ Claimed = {} /\ Freeing = {}
  BY DEF Init, Reserved, Posting, Claimed, Freeing, At
<1>2. Cardinality({}) = 0
  BY FS_EmptySet
<1>3. TypeOK
  <2>1. canEnqueue \in 0..Capacity /\ canDequeue \in 0..Capacity
    BY CapacityAssumption DEF Init
  <2>2. messages \in Seq(Messages)
    BY DEF Init
  <2>3. hasMessage \in BOOLEAN /\ access \in Threads \cup {NoThread}
    BY DEF Init
  <2>4. pc \in [Threads -> Labels] /\ node \in [Threads -> Messages \cup {Garbage}]
    BY DEF Init, Labels
  <2>5. QED
    BY <2>1, <2>2, <2>3, <2>4 DEF TypeOK
<1>4. MutualExclusion
  BY ThreadAssumption DEF Init, MutualExclusion, Locking
<1>5. EnqueuesMessages
  BY DEF Init, EnqueuesMessages
<1>6. TokensMatchMessages
  BY <1>1, <1>2 DEF Init, TokensMatchMessages
<1>7. SlotsConserved
  BY <1>1, <1>2, CapacityAssumption DEF Init, SlotsConserved
<1>8. QED
  BY <1>3, <1>4, <1>5, <1>6, <1>7 DEF IInv

\* Every step of every thread, and a stutter, keeps the inductive invariant.
LEMMA NextIInv == IInv /\ [Next]_vars => IInv'
<1> SUFFICES ASSUME IInv, [Next]_vars PROVE IInv'
  OBVIOUS
<1>1. CASE UNCHANGED vars
  BY <1>1 DEF vars, IInv, TypeOK, MutualExclusion, EnqueuesMessages, TokensMatchMessages,
              SlotsConserved, Reserved, Posting, Claimed, Freeing, At
<1>2. CASE \E t \in Producers : EnqueueCall(t) \/ Enqueue(t)
  BY <1>2, EnqueueKeepsIInv, CallKeepsIInv DEF Threads
<1>3. CASE \E t \in Consumers : DequeueCall(t) \/ Dequeue(t)
  BY <1>3, DequeueKeepsIInv, CallKeepsIInv DEF Threads
<1>4. CASE \E t \in Clearers : ClearCall(t) \/ Clear(t)
  BY <1>4, ClearKeepsIInv, CallKeepsIInv DEF Threads
<1>5. QED
  BY <1>1, <1>2, <1>3, <1>4 DEF Next

\* So it holds in every state the threads can reach.
LEMMA Invariance == Spec => []IInv
BY InitIInv, NextIInv, PTL DEF Spec

\* The types hold for any threads, messages and capacity; in particular both
\* semaphores stay within 0..Capacity, so no ReleaseSemaphore call fails.
THEOREM TypeCorrect == Spec => []TypeOK
<1>1. IInv => TypeOK
  BY DEF IInv
<1>2. QED
  BY <1>1, Invariance, PTL

\* Tokens are conserved in every run of every instance.
THEOREM Conservation == Spec => []TokensMatchMessages
<1>1. IInv => TokensMatchMessages
  BY DEF IInv
<1>2. QED
  BY <1>1, Invariance, PTL

\* And so are slots.
THEOREM SlotsAreConserved == Spec => []SlotsConserved
<1>1. IInv => SlotsConserved
  BY DEF IInv
<1>2. QED
  BY <1>1, Invariance, PTL

-----------------------------------------------------------------------------
\* A thread that holds a token of canDequeue finds a message in the vector.
LEMMA ClaimFindsMessage == IInv => NeverPopsEmpty
BY Margins DEF NeverPopsEmpty, ClaimedLabels

\* No thread ever removes from an empty vector, for any number of enqueueing,
\* dequeueing and clearing threads.
THEOREM PopsAreSafe == Spec => []NeverPopsEmpty
BY ClaimFindsMessage, Invariance, PTL


-----------------------------------------------------------------------------
\* No step loses a wakeup: whatever resets hasMessage does so on an empty vector.
LEMMA NextNoLostWakeup == IInv /\ NoLostWakeup /\ [Next]_vars => NoLostWakeup'
<1> SUFFICES ASSUME IInv, NoLostWakeup, [Next]_vars, messages' # <<>>, ~hasMessage'
             PROVE  \E u \in Threads : pc'[u] = "enqSet"
  BY DEF NoLostWakeup
<1> USE DEF IInv, TypeOK, NoLostWakeup
<1>1. CASE UNCHANGED vars
  BY <1>1 DEF vars
<1>2. ASSUME NEW t \in Producers, EnqueueCall(t) \/ Enqueue(t)
      PROVE  \E u \in Threads : pc'[u] = "enqSet"
  <2>1. CASE EnqueueInsert(t)
    BY <2>1 DEF EnqueueInsert, Goto, Threads
  <2>2. CASE EnqueueSet(t)
    BY <2>2 DEF EnqueueSet
  <2>3. CASE EnqueueCall(t) \/ EnqueueSlot(t) \/ EnqueueLock(t) \/ EnqueueUnlock(t) \/ EnqueuePost(t)
    BY <2>3 DEF EnqueueCall, EnqueueSlot, EnqueueLock, EnqueueUnlock, EnqueuePost, TakeSlot, Lock, Unlock, Goto, Threads
  <2>4. QED
    BY <1>2, <2>1, <2>2, <2>3 DEF Enqueue
<1>3. ASSUME NEW t \in Consumers, DequeueCall(t) \/ Dequeue(t)
      PROVE  \E u \in Threads : pc'[u] = "enqSet"
  <2>1. CASE DequeuePop(t)
    BY <2>1 DEF DequeuePop, Popped, Goto, Threads
  <2>2. CASE DequeueReset(t)
    BY <2>2 DEF DequeueReset, Goto, Threads
  <2>3. CASE DequeueCall(t) \/ DequeueToken(t) \/ DequeueLock(t) \/ DequeueUnlock(t) \/ DequeuePost(t)
    BY <2>3 DEF DequeueCall, DequeueToken, DequeueLock, DequeueUnlock, DequeuePost, TakeToken, Lock, Unlock, FreeSlot, Goto, Threads
  <2>4. QED
    BY <1>3, <2>1, <2>2, <2>3 DEF Dequeue
<1>4. ASSUME NEW t \in Clearers, ClearCall(t) \/ Clear(t)
      PROVE  \E u \in Threads : pc'[u] = "enqSet"
  <2>1. CASE ClearPop(t)
    BY <2>1 DEF ClearPop, Popped, Goto, Threads
  <2>2. CASE ClearCall(t) \/ ClearLock(t) \/ ClearToken(t) \/ ClearPost(t) \/ ClearTimeout(t) \/ ClearUnlock(t)
    BY <2>2 DEF ClearCall, ClearLock, ClearToken, ClearPost, ClearTimeout, ClearUnlock, TakeToken, Lock, Unlock, FreeSlot, Goto, Threads
  <2>3. QED
    BY <1>4, <2>1, <2>2 DEF Clear
<1>5. QED
  BY <1>1, <1>2, <1>3, <1>4 DEF Next

\* A message in the queue is never without its event, except at the instant
\* between its insertion and SetEvent inside the mutex.
THEOREM WakeupsAreKept == Spec => []NoLostWakeup
<1>1. Init => NoLostWakeup
  BY DEF Init, NoLostWakeup
<1>2. QED
  BY <1>1, NextNoLostWakeup, Invariance, PTL DEF Spec

-----------------------------------------------------------------------------
\* The queue implements the bounded FIFO channel: an insertion is a Put, a pop
\* by dequeue is a Take, a pop by clear is a Discard, all the rest stutters.
LEMMA StepImplements == IInv /\ [Next]_vars => [Fifo!Next]_Fifo!vars
<1> SUFFICES ASSUME IInv, [Next]_vars PROVE [Fifo!Next]_Fifo!vars
  OBVIOUS
<1> DEFINE taken == [c \in Consumers |-> node[c]]
<1>1. CASE UNCHANGED vars
  BY <1>1 DEF vars, Fifo!vars
<1>2. ASSUME NEW t \in Producers, EnqueueCall(t) \/ Enqueue(t)
      PROVE  [Fifo!Next]_Fifo!vars
  <2>1. t \in Threads /\ t \notin Consumers
    BY ThreadAssumption DEF Threads
  <2>2. CASE EnqueueInsert(t)
    <3>1. node[t] \in Messages /\ Len(messages) < Capacity
      BY <2>1, <2>2, Margins DEF IInv, EnqueuesMessages, EnqueueInsert, Goto, ReservedLabels
    <3>2. Fifo!Put(node[t])
      BY <2>2, <3>1 DEF EnqueueInsert, Fifo!Put
    <3>3. QED
      BY <3>1, <3>2 DEF Fifo!Next
  <2>3. CASE EnqueueCall(t)
    <3>1. taken' = taken /\ messages' = messages
      BY <2>1, <2>3 DEF EnqueueCall, IInv, TypeOK
    <3>2. QED
      BY <3>1 DEF Fifo!vars
  <2>4. CASE EnqueueSlot(t) \/ EnqueueLock(t) \/ EnqueueSet(t) \/ EnqueueUnlock(t) \/ EnqueuePost(t)
    <3>1. node' = node /\ messages' = messages
      BY <2>4 DEF EnqueueSlot, EnqueueLock, EnqueueSet, EnqueueUnlock, EnqueuePost, TakeSlot, Lock, Unlock
    <3>2. QED
      BY <3>1 DEF Fifo!vars
  <2>5. QED
    BY <1>2, <2>2, <2>3, <2>4 DEF Enqueue
<1>3. ASSUME NEW t \in Consumers, DequeueCall(t) \/ Dequeue(t)
      PROVE  [Fifo!Next]_Fifo!vars
  <2>1. t \in Threads
    BY DEF Threads
  <2>2. CASE DequeuePop(t)
    <3>1. messages # <<>>
      BY <2>1, <2>2, Margins DEF DequeuePop, Goto, ClaimedLabels
    <3>2. messages' = Tail(messages) /\ node' = [node EXCEPT ![t] = Head(messages)]
      BY <2>2, <3>1 DEF DequeuePop, Popped, Oldest
    <3>3. taken' = [taken EXCEPT ![t] = Head(messages)]
      BY <2>1, <3>2 DEF IInv, TypeOK, Threads
    <3>4. Fifo!Take(t)
      BY <3>1, <3>2, <3>3 DEF Fifo!Take
    <3>5. QED
      BY <3>4 DEF Fifo!Next
  <2>3. CASE DequeueCall(t) \/ DequeueToken(t) \/ DequeueLock(t) \/ DequeueReset(t) \/ DequeueUnlock(t) \/ DequeuePost(t)
    <3>1. node' = node /\ messages' = messages
      BY <2>3 DEF DequeueCall, DequeueToken, DequeueLock, DequeueReset, DequeueUnlock, DequeuePost, TakeToken, Lock, Unlock, FreeSlot
    <3>2. QED
      BY <3>1 DEF Fifo!vars
  <2>4. QED
    BY <1>3, <2>2, <2>3 DEF Dequeue
<1>4. ASSUME NEW t \in Clearers, ClearCall(t) \/ Clear(t)
      PROVE  [Fifo!Next]_Fifo!vars
  <2>1. t \in Threads
    BY DEF Threads
  <2>2. CASE ClearPop(t)
    <3>1. messages # <<>>
      BY <2>1, <2>2, Margins DEF ClearPop, Goto, ClaimedLabels
    <3>2. Fifo!Discard
      BY <2>2, <3>1 DEF ClearPop, Popped, Fifo!Discard
    <3>3. QED
      BY <3>2 DEF Fifo!Next
  <2>3. CASE ClearCall(t) \/ ClearLock(t) \/ ClearToken(t) \/ ClearPost(t) \/ ClearTimeout(t) \/ ClearUnlock(t)
    <3>1. node' = node /\ messages' = messages
      BY <2>3 DEF ClearCall, ClearLock, ClearToken, ClearPost, ClearTimeout, ClearUnlock, TakeToken, Lock, Unlock, FreeSlot
    <3>2. QED
      BY <3>1 DEF Fifo!vars
  <2>4. QED
    BY <1>4, <2>2, <2>3 DEF Clear
<1>5. QED
  BY <1>1, <1>2, <1>3, <1>4 DEF Next

\* Whatever the threads do, the MessageQueue is a bounded FIFO channel.
THEOREM ImplementsBoundedFifo == Spec => IsBoundedFifo
<1>1. Init => Fifo!Init
  BY DEF Init, Fifo!Init, Threads
<1>2. QED
  BY <1>1, StepImplements, Invariance, PTL DEF Spec, IsBoundedFifo, Fifo!Spec
-----------------------------------------------------------------------------
\* Where one thread alone takes messages, waits for hasMessage before it does, and
\* nobody clears, the event says the truth to whoever waits for it.
OneTakes ==
    /\ Clearers = {} /\ Pollers = Consumers
    /\ \A t, u \in Consumers : t = u

\* What makes that inductive: the event may be set on an empty vector only between
\* the pop of the one consumer and its reset.
EventFollows ==
    /\ hasMessage => messages # <<>> \/ \E t \in Consumers : pc[t] = "deqReset"
    /\ WokenPollerFindsMessage

\* A thread that has inserted and not yet posted still finds a message in the vector.
LEMMA PostingFindsMessage ==
    ASSUME IInv, NEW t \in Threads, pc[t] \in PostingLabels PROVE messages # <<>>
<1>1. Cardinality(Posting) \in Nat \ {0}
  BY MemberCounts DEF Posting, PostingLabels
<1>2. canDequeue \in Nat /\ Len(messages) = canDequeue + Cardinality(Posting) + Cardinality(Claimed)
  BY CapacityAssumption DEF IInv, TypeOK, TokensMatchMessages
<1>3. Len(messages) # 0
  BY <1>1, <1>2, CountsAreNat
<1>4. QED
  BY <1>3, EmptyLength DEF IInv, TypeOK

\* No step of any thread spoils the event for the one that takes.
LEMMA NextEventFollows ==
    OneTakes /\ IInv /\ EventFollows /\ [Next]_vars => EventFollows'
<1> SUFFICES ASSUME OneTakes, IInv, EventFollows, [Next]_vars PROVE EventFollows'
  OBVIOUS
<1> USE DEF IInv, TypeOK, EventFollows, WokenPollerFindsMessage, OneTakes
<1>1. CASE UNCHANGED vars
  BY <1>1 DEF vars
<1>2. ASSUME NEW t \in Producers, EnqueueCall(t) \/ Enqueue(t)
      PROVE  EventFollows'
  <2>1. t \in Threads /\ t \notin Consumers /\ Consumers \subseteq Threads
    BY ThreadAssumption DEF Threads
  <2>2. CASE EnqueueInsert(t)
    <3>1. messages' # <<>>
      BY <2>1, <2>2 DEF EnqueueInsert
    <3>2. QED
      BY <3>1
  <2>3. CASE EnqueueSet(t)
    <3>1. messages # <<>>
      BY <2>1, <2>3, PostingFindsMessage DEF EnqueueSet, Goto, PostingLabels
    <3>2. QED
      BY <2>3, <3>1 DEF EnqueueSet
  <2>4. CASE EnqueueCall(t) \/ EnqueueSlot(t) \/ EnqueueLock(t) \/ EnqueueUnlock(t) \/ EnqueuePost(t)
    BY <2>1, <2>4 DEF EnqueueCall, EnqueueSlot, EnqueueLock, EnqueueUnlock, EnqueuePost, TakeSlot, Lock, Unlock, Goto
  <2>5. QED
    BY <1>2, <2>2, <2>3, <2>4 DEF Enqueue
<1>3. ASSUME NEW t \in Consumers, DequeueCall(t) \/ Dequeue(t)
      PROVE  EventFollows'
  <2>1. t \in Threads /\ Consumers = {t} /\ Pollers = {t}
    BY DEF Threads
  <2>2. CASE DequeueCall(t)
    BY <2>1, <2>2 DEF DequeueCall, Goto
  <2>3. CASE DequeuePop(t)
    BY <2>1, <2>3 DEF DequeuePop, Goto
  <2>4. CASE DequeueReset(t)
    BY <2>1, <2>4 DEF DequeueReset, Goto
  <2>5. CASE DequeueToken(t) \/ DequeueLock(t) \/ DequeueUnlock(t) \/ DequeuePost(t)
    BY <2>1, <2>5 DEF DequeueToken, DequeueLock, DequeueUnlock, DequeuePost, TakeToken, Lock, Unlock, FreeSlot, Goto
  <2>6. QED
    BY <1>3, <2>2, <2>3, <2>4, <2>5 DEF Dequeue
<1>4. QED
  BY <1>1, <1>2, <1>3 DEF Next

\* A poller that is the only one to take never sleeps in dequeue, and hasMessage is
\* what MessageQueue.h says it is, whoever enqueues: for any number of producers.
THEOREM PollersFindMessages ==
    ASSUME OneTakes PROVE Spec => [](WokenPollerFindsMessage /\ HasMessageIsNotEmpty)
<1>1. Init => EventFollows
  BY ThreadAssumption DEF Init, EventFollows, WokenPollerFindsMessage, Threads
<1>2. Init => NoLostWakeup
  BY DEF Init, NoLostWakeup
<1>3. ASSUME OneTakes, IInv, NoLostWakeup, EventFollows PROVE HasMessageIsNotEmpty
  <2>1. SUFFICES ASSUME access = NoThread PROVE hasMessage <=> messages # <<>>
    BY DEF HasMessageIsNotEmpty
  <2>2. \A t \in Threads : pc[t] \notin Locking
    BY <1>3, <2>1, ThreadAssumption DEF IInv, MutualExclusion
  <2>3. \A t \in Threads : pc[t] # "enqSet" /\ pc[t] # "deqReset"
    BY <2>2 DEF Locking
  <2>4. hasMessage \in BOOLEAN /\ Consumers \subseteq Threads
    BY <1>3 DEF IInv, TypeOK, Threads
  <2>5. QED
    BY <1>3, <2>3, <2>4 DEF NoLostWakeup, EventFollows
<1>4. EventFollows => WokenPollerFindsMessage
  BY DEF EventFollows
<1>5. OneTakes
  OBVIOUS
<1>6. QED
  BY <1>1, <1>2, <1>3, <1>4, <1>5, NextEventFollows, NextNoLostWakeup, Invariance, PTL DEF Spec
=============================================================================
