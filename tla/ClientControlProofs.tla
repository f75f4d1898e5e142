------------------------ MODULE ClientControlProofs ------------------------
(***************************************************************************)
(* The client's control thread and its two queues.  Each queue is used the *)
(* way MessageQueue allows, so what MessageQueueProofs shows of a queue    *)
(* holds of both, whatever the threads of client and server do between.    *)
(***************************************************************************)
EXTENDS ClientControl, FiniteSetTheorems, TLAPS

MsgqProofs == INSTANCE MessageQueueProofs WITH
            Producers <- {Ui}, Consumers <- {Control}, Pollers <- {Control}, Clearers <- {},
            Messages <- FromClient, Garbage <- NoMessage
SockqProofs == INSTANCE MessageQueueProofs WITH
            Producers <- {Receiver}, Consumers <- {Control}, Pollers <- {Control}, Clearers <- {},
            Messages <- FromServer \cup {Garbage}, Garbage <- NoMessage, Capacity <- SockCapacity,
            messages <- sMessages, canEnqueue <- sCanEnqueue, canDequeue <- sCanDequeue,
            hasMessage <- sHasMessage, access <- sAccess, pc <- sPc, node <- sNode

-----------------------------------------------------------------------------
\* The queue of requests is used as a MessageQueue: a step of the client or of the
\* server is a step of the queue, or leaves it as it is.
LEMMA RequestStep == [Next]_vars => [Msgq!Next]_Msgq!vars
<1> SUFFICES ASSUME [Next]_vars PROVE [Msgq!Next]_Msgq!vars
  OBVIOUS
<1> USE DEF msgqVars, Msgq!vars
<1>1. CASE UNCHANGED vars
  BY <1>1 DEF vars
<1>2. CASE connect \/ onClose \/ UiSends \/ Connected \/ _handleMsgqMsg \/ ControlSends
           \/ _handleSockMsgqMsg \/ WindowAnswers \/ PlayerReturns \/ Receive
  BY <1>2 DEF connect, onClose, UiSends, Connected, _handleMsgqMsg, ControlSends,
              _handleSockMsgqMsg, WindowAnswers, PlayerReturns, Receive
<1>3. CASE ServerSends \/ ServerSendsOn \/ ServerCloses
  BY <1>3 DEF ServerSends, ServerSendsOn, ServerCloses
<1>4. CASE onClick \/ UiEnqueues
  BY <1>4 DEF onClick, UiEnqueues, Msgq!Next
<1>5. CASE Wait \/ Dequeues
  BY <1>5 DEF Wait, Dequeues, Msgq!Next
<1>6. CASE Running /\ Sockq!Enqueue(Receiver)
           /\ UNCHANGED <<msgqVars, downVars, upVars, link, server, socket, control, user, effects>>
  BY <1>6
<1>7. QED
  BY <1>1, <1>2, <1>3, <1>4, <1>5, <1>6 DEF Next, UiThread, ControlThread, ReceiverThread

\* And so is the queue of what the server sends.
LEMMA MessageStep == [Next]_vars => [Sockq!Next]_Sockq!vars
<1> SUFFICES ASSUME [Next]_vars PROVE [Sockq!Next]_Sockq!vars
  OBVIOUS
<1> USE DEF sockVars, Sockq!vars
<1>1. CASE UNCHANGED vars
  BY <1>1 DEF vars
<1>2. CASE connect \/ onClick \/ onClose \/ UiEnqueues \/ UiSends \/ Connected \/ _handleMsgqMsg
           \/ ControlSends \/ _handleSockMsgqMsg \/ WindowAnswers \/ PlayerReturns
  BY <1>2 DEF connect, onClick, onClose, UiEnqueues, UiSends, Connected, _handleMsgqMsg,
              ControlSends, _handleSockMsgqMsg, WindowAnswers, PlayerReturns
<1>3. CASE ServerSends \/ ServerSendsOn \/ ServerCloses
  BY <1>3 DEF ServerSends, ServerSendsOn, ServerCloses
<1>4. CASE Receive
  BY <1>4 DEF Receive, Sockq!Next
<1>5. CASE Wait \/ Dequeues
  BY <1>5 DEF Wait, Dequeues, Sockq!Next
<1>6. CASE Running /\ Sockq!Enqueue(Receiver)
           /\ UNCHANGED <<msgqVars, downVars, upVars, link, server, socket, control, user, effects>>
  BY <1>6 DEF Sockq!Next
<1>7. QED
  BY <1>1, <1>2, <1>3, <1>4, <1>5, <1>6 DEF Next, UiThread, ControlThread, ReceiverThread

\* So the client implements two message queues at once.
THEOREM ClientImplementsQueues == Spec => Msgq!Spec /\ Sockq!Spec
<1>1. Init => Msgq!Init /\ Sockq!Init
  BY DEF Init
<1>2. QED
  BY <1>1, RequestStep, MessageStep, PTL DEF Spec, Msgq!Spec, Sockq!Spec

-----------------------------------------------------------------------------
\* The three threads are a finite set.
LEMMA FewThreads == \A t : IsFiniteSet({t} \cup {Control} \cup {})
<1>1. TAKE t
<1>2. IsFiniteSet({t}) /\ IsFiniteSet({Control}) /\ IsFiniteSet({})
  BY FS_Singleton, FS_EmptySet
<1>3. QED
  BY <1>2, FS_Union

\* The requests are a queue in the sense of its proofs: one thread takes, nobody clears.
LEMMA RequestsAreAQueue ==
    /\ MsgqProofs!OneTakes /\ MsgqProofs!CapacityAssumption
    /\ MsgqProofs!ThreadAssumption /\ MsgqProofs!MessageAssumption
<1>1. MsgqProofs!OneTakes
  BY DEF MsgqProofs!OneTakes
<1>2. MsgqProofs!CapacityAssumption
  BY CapacityAssumption DEF MsgqProofs!CapacityAssumption
<1>3. MsgqProofs!ThreadAssumption
  BY ThreadAssumption, FewThreads
     DEF MsgqProofs!ThreadAssumption, MsgqProofs!Threads, MsgqProofs!IsFiniteSet, IsFiniteSet
<1>4. MsgqProofs!MessageAssumption
  BY MessageAssumption DEF MsgqProofs!MessageAssumption
<1>5. QED
  BY <1>1, <1>2, <1>3, <1>4

\* The messages of the server are a queue in the sense of its proofs: one thread takes, nobody clears.
LEMMA MessagesAreAQueue ==
    /\ SockqProofs!OneTakes /\ SockqProofs!CapacityAssumption
    /\ SockqProofs!ThreadAssumption /\ SockqProofs!MessageAssumption
<1>1. SockqProofs!OneTakes
  BY DEF SockqProofs!OneTakes
<1>2. SockqProofs!CapacityAssumption
  BY CapacityAssumption DEF SockqProofs!CapacityAssumption
<1>3. SockqProofs!ThreadAssumption
  BY ThreadAssumption, FewThreads
     DEF SockqProofs!ThreadAssumption, SockqProofs!Threads, SockqProofs!IsFiniteSet, IsFiniteSet
<1>4. SockqProofs!MessageAssumption
  BY MessageAssumption DEF SockqProofs!MessageAssumption
<1>5. QED
  BY <1>1, <1>2, <1>3, <1>4

\* The queue that its proofs are about is the one of the requests.
LEMMA MsgqIsProved == Msgq!Spec => MsgqProofs!Spec
<1>1. Msgq!Init => MsgqProofs!Init
  BY DEF Msgq!Init, MsgqProofs!Init, Msgq!Threads, MsgqProofs!Threads
<1>2. \A t : (Msgq!EnqueueCall(t) => MsgqProofs!EnqueueCall(t)) /\ (Msgq!DequeueCall(t) => MsgqProofs!DequeueCall(t))
  BY DEF Msgq!EnqueueCall, MsgqProofs!EnqueueCall, Msgq!DequeueCall, MsgqProofs!DequeueCall,
         Msgq!Goto, MsgqProofs!Goto
<1>3. \A t : Msgq!Enqueue(t) => MsgqProofs!Enqueue(t)
  BY DEF Msgq!Enqueue, MsgqProofs!Enqueue, Msgq!EnqueueSlot, MsgqProofs!EnqueueSlot,
         Msgq!EnqueueLock, MsgqProofs!EnqueueLock, Msgq!EnqueueInsert, MsgqProofs!EnqueueInsert,
         Msgq!EnqueueSet, MsgqProofs!EnqueueSet, Msgq!EnqueueUnlock, MsgqProofs!EnqueueUnlock,
         Msgq!EnqueuePost, MsgqProofs!EnqueuePost, Msgq!TakeSlot, MsgqProofs!TakeSlot, Msgq!Lock,
         MsgqProofs!Lock, Msgq!Unlock, MsgqProofs!Unlock, Msgq!Goto, MsgqProofs!Goto, Msgq!Released,
         MsgqProofs!Released
<1>4. \A t : Msgq!Dequeue(t) => MsgqProofs!Dequeue(t)
  BY DEF Msgq!Dequeue, MsgqProofs!Dequeue, Msgq!DequeueToken, MsgqProofs!DequeueToken,
         Msgq!DequeueLock, MsgqProofs!DequeueLock, Msgq!DequeuePop, MsgqProofs!DequeuePop,
         Msgq!DequeueReset, MsgqProofs!DequeueReset, Msgq!DequeueUnlock, MsgqProofs!DequeueUnlock,
         Msgq!DequeuePost, MsgqProofs!DequeuePost, Msgq!TakeToken, MsgqProofs!TakeToken, Msgq!Lock,
         MsgqProofs!Lock, Msgq!Unlock, MsgqProofs!Unlock, Msgq!FreeSlot, MsgqProofs!FreeSlot,
         Msgq!Goto, MsgqProofs!Goto, Msgq!Released, MsgqProofs!Released, Msgq!Popped,
         MsgqProofs!Popped, Msgq!Oldest, MsgqProofs!Oldest
<1>5. Msgq!Next => MsgqProofs!Next
  BY <1>2, <1>3, <1>4 DEF Msgq!Next, MsgqProofs!Next
<1>6. UNCHANGED Msgq!vars => UNCHANGED MsgqProofs!vars
  BY DEF Msgq!vars, MsgqProofs!vars
<1>7. [Msgq!Next]_Msgq!vars => [MsgqProofs!Next]_MsgqProofs!vars
  BY <1>5, <1>6
<1>8. QED
  BY <1>1, <1>7, PTL DEF Msgq!Spec, MsgqProofs!Spec

\* So its poller finds a message, and its event says the truth.
LEMMA MsgqFindsMessage == Msgq!Spec => [](Msgq!WokenPollerFindsMessage /\ Msgq!HasMessageIsNotEmpty)
<1>1. MsgqProofs!Spec => [](MsgqProofs!WokenPollerFindsMessage /\ MsgqProofs!HasMessageIsNotEmpty)
  BY RequestsAreAQueue, MsgqProofs!PollersFindMessages
<1>2. /\ MsgqProofs!WokenPollerFindsMessage => Msgq!WokenPollerFindsMessage
      /\ MsgqProofs!HasMessageIsNotEmpty => Msgq!HasMessageIsNotEmpty
  BY DEF Msgq!WokenPollerFindsMessage, MsgqProofs!WokenPollerFindsMessage,
         Msgq!HasMessageIsNotEmpty, MsgqProofs!HasMessageIsNotEmpty
<1>3. QED
  BY <1>1, <1>2, MsgqIsProved, PTL

\* The queue that its proofs are about is the one of the messages of the server.
LEMMA SockqIsProved == Sockq!Spec => SockqProofs!Spec
<1>1. Sockq!Init => SockqProofs!Init
  BY DEF Sockq!Init, SockqProofs!Init, Sockq!Threads, SockqProofs!Threads
<1>2. \A t : (Sockq!EnqueueCall(t) => SockqProofs!EnqueueCall(t)) /\ (Sockq!DequeueCall(t) => SockqProofs!DequeueCall(t))
  BY DEF Sockq!EnqueueCall, SockqProofs!EnqueueCall, Sockq!DequeueCall, SockqProofs!DequeueCall,
         Sockq!Goto, SockqProofs!Goto
<1>3. \A t : Sockq!Enqueue(t) => SockqProofs!Enqueue(t)
  BY DEF Sockq!Enqueue, SockqProofs!Enqueue, Sockq!EnqueueSlot, SockqProofs!EnqueueSlot,
         Sockq!EnqueueLock, SockqProofs!EnqueueLock, Sockq!EnqueueInsert, SockqProofs!EnqueueInsert,
         Sockq!EnqueueSet, SockqProofs!EnqueueSet, Sockq!EnqueueUnlock, SockqProofs!EnqueueUnlock,
         Sockq!EnqueuePost, SockqProofs!EnqueuePost, Sockq!TakeSlot, SockqProofs!TakeSlot,
         Sockq!Lock, SockqProofs!Lock, Sockq!Unlock, SockqProofs!Unlock, Sockq!Goto,
         SockqProofs!Goto, Sockq!Released, SockqProofs!Released
<1>4. \A t : Sockq!Dequeue(t) => SockqProofs!Dequeue(t)
  BY DEF Sockq!Dequeue, SockqProofs!Dequeue, Sockq!DequeueToken, SockqProofs!DequeueToken,
         Sockq!DequeueLock, SockqProofs!DequeueLock, Sockq!DequeuePop, SockqProofs!DequeuePop,
         Sockq!DequeueReset, SockqProofs!DequeueReset, Sockq!DequeueUnlock,
         SockqProofs!DequeueUnlock, Sockq!DequeuePost, SockqProofs!DequeuePost, Sockq!TakeToken,
         SockqProofs!TakeToken, Sockq!Lock, SockqProofs!Lock, Sockq!Unlock, SockqProofs!Unlock,
         Sockq!FreeSlot, SockqProofs!FreeSlot, Sockq!Goto, SockqProofs!Goto, Sockq!Released,
         SockqProofs!Released, Sockq!Popped, SockqProofs!Popped, Sockq!Oldest, SockqProofs!Oldest
<1>5. Sockq!Next => SockqProofs!Next
  BY <1>2, <1>3, <1>4 DEF Sockq!Next, SockqProofs!Next
<1>6. UNCHANGED Sockq!vars => UNCHANGED SockqProofs!vars
  BY DEF Sockq!vars, SockqProofs!vars
<1>7. [Sockq!Next]_Sockq!vars => [SockqProofs!Next]_SockqProofs!vars
  BY <1>5, <1>6
<1>8. QED
  BY <1>1, <1>7, PTL DEF Sockq!Spec, SockqProofs!Spec

\* So its poller finds a message, and its event says the truth.
LEMMA SockqFindsMessage == Sockq!Spec => [](Sockq!WokenPollerFindsMessage /\ Sockq!HasMessageIsNotEmpty)
<1>1. SockqProofs!Spec => [](SockqProofs!WokenPollerFindsMessage /\ SockqProofs!HasMessageIsNotEmpty)
  BY MessagesAreAQueue, SockqProofs!PollersFindMessages
<1>2. /\ SockqProofs!WokenPollerFindsMessage => Sockq!WokenPollerFindsMessage
      /\ SockqProofs!HasMessageIsNotEmpty => Sockq!HasMessageIsNotEmpty
  BY DEF Sockq!WokenPollerFindsMessage, SockqProofs!WokenPollerFindsMessage,
         Sockq!HasMessageIsNotEmpty, SockqProofs!HasMessageIsNotEmpty
<1>3. QED
  BY <1>1, <1>2, SockqIsProved, PTL

\* The control thread never sleeps in a queue while the other, or the window, waits
\* for it, for queues of any capacity, any number of songs, announcements and
\* clicks, whether reads are whole or not.
THEOREM ControlNeverSleepsInAQueue == Spec => []ControlFindsMessage
BY ClientImplementsQueues, MsgqFindsMessage, SockqFindsMessage, PTL DEF ControlFindsMessage

\* Its variables have their types, and nobody takes from it when it is empty.
LEMMA MsgqIsSafe == Msgq!Spec => [](Msgq!TypeOK /\ Msgq!NeverPopsEmpty)
<1>1. MsgqProofs!Spec => []MsgqProofs!TypeOK
  BY RequestsAreAQueue, MsgqProofs!TypeCorrect
<1>2. MsgqProofs!Spec => []MsgqProofs!NeverPopsEmpty
  BY RequestsAreAQueue, MsgqProofs!PopsAreSafe
<1>3. MsgqProofs!TypeOK => Msgq!TypeOK
  BY DEF Msgq!TypeOK, MsgqProofs!TypeOK, Msgq!Threads, MsgqProofs!Threads,
         Msgq!Labels, MsgqProofs!Labels, Msgq!Locking, MsgqProofs!Locking
<1>4. MsgqProofs!NeverPopsEmpty => Msgq!NeverPopsEmpty
  BY DEF Msgq!NeverPopsEmpty, MsgqProofs!NeverPopsEmpty, Msgq!Threads, MsgqProofs!Threads
<1>5. QED
  BY <1>1, <1>2, <1>3, <1>4, MsgqIsProved, PTL

\* Its variables have their types, and nobody takes from it when it is empty.
LEMMA SockqIsSafe == Sockq!Spec => [](Sockq!TypeOK /\ Sockq!NeverPopsEmpty)
<1>1. SockqProofs!Spec => []SockqProofs!TypeOK
  BY MessagesAreAQueue, SockqProofs!TypeCorrect
<1>2. SockqProofs!Spec => []SockqProofs!NeverPopsEmpty
  BY MessagesAreAQueue, SockqProofs!PopsAreSafe
<1>3. SockqProofs!TypeOK => Sockq!TypeOK
  BY DEF Sockq!TypeOK, SockqProofs!TypeOK, Sockq!Threads, SockqProofs!Threads,
         Sockq!Labels, SockqProofs!Labels, Sockq!Locking, SockqProofs!Locking
<1>4. SockqProofs!NeverPopsEmpty => Sockq!NeverPopsEmpty
  BY DEF Sockq!NeverPopsEmpty, SockqProofs!NeverPopsEmpty, Sockq!Threads, SockqProofs!Threads
<1>5. QED
  BY <1>1, <1>2, <1>3, <1>4, SockqIsProved, PTL

-----------------------------------------------------------------------------
\* The order of messages.  Going back from the control thread, each stage between it
\* and the server has the messages after those of the stages before it.
Held     == IF control = "message" /\ sPc[Control] \in {"idle", "deqReset", "deqUnlock", "deqPost"} THEN 1 ELSE 0
Entering == IF sPc[Receiver] \in {"enqSlot", "enqLock", "enqInsert"} THEN 1 ELSE 0
Read     == IF receiving = "enqueue" THEN 1 ELSE 0

Taken    == Len(handled) + Held
Inserted == Taken + Len(sMessages)
Enqueued == Inserted + Entering
Got      == Enqueued + Read

Lengths  == [m \in FromServer |-> IF m.type = "NEW_SONG" THEN 2 ELSE 1]
Units    == [message : FromServer, at : Nat]

StagesInv ==
    /\ Got <= Len(sent)
    /\ \A i \in 1..Len(handled) : handled[i] = sent[i]
    /\ Held = 1 => sNode[Control] = sent[Taken]
    /\ \A i \in 1..Len(sMessages) : sMessages[i] = sent[Taken + i]
    /\ Entering = 1 => sNode[Receiver] = sent[Enqueued]
    /\ Read = 1 => delivered = sent[Got]
    /\ receiving = "body" => /\ Got < Len(sent)
                             /\ header = [type |-> sent[Got + 1], length |-> Lengths[sent[Got + 1]]]

\* A position in the stream of bytes: the message, and the unit of it.
Pos(n, k) == [of |-> n, at |-> k]
Following(p) == IF p.at < Lengths[sent[p.of]] THEN Pos(p.of, p.at + 1) ELSE Pos(p.of + 1, 0)

ReaderAt == IF receiving = "body" THEN Following(Pos(Got + 1, 0)) ELSE Pos(Got + 1, 0)
Unsent   == IF mutex = NoSender THEN 0 ELSE Len(sending[mutex])
WriterAt == IF Unsent = 0 THEN Pos(Len(sent) + 1, 0)
            ELSE Pos(Len(sent), Lengths[sent[Len(sent)]] + 1 - Unsent)

\* Only the owner of the mutex has something to send: the end of the last message.
SenderInv ==
    /\ \A t \in {Playlister, Multicaster} : sending[t] # <<>> => mutex = t
    /\ mutex # NoSender =>
          /\ sent # <<>>
          /\ Unsent <= Lengths[sent[Len(sent)]] + 1
          /\ \A i \in 1..Unsent :
                sending[mutex][i] = Down!Unit(sent[Len(sent)], Lengths[sent[Len(sent)]] - Unsent + i)

\* What is on the wire leads from the reader to the writer, unit by unit.
IsPath(path) ==
    /\ path \in [1..Len(wire) + 1 -> [of : Nat, at : Nat]]
    /\ path[1] = ReaderAt /\ path[Len(wire) + 1] = WriterAt
    /\ \A i \in 1..Len(wire) :
          /\ path[i].of \in 1..Len(sent)
          /\ wire[i] = Down!Unit(sent[path[i].of], path[i].at)
          /\ path[i + 1] = Following(path[i])

StreamTyped ==
    /\ sent \in Seq(FromServer)
    /\ handled \in Seq(FromServer \cup {Garbage, NoMessage})
    /\ wire \in Seq(Units) /\ buffer \in Seq(Units)
    /\ sending \in [{Playlister, Multicaster} -> Seq(Units)]
    /\ mutex \in {Playlister, Multicaster, NoSender}
    /\ receiving \in {"header", "body", "enqueue"}

DownInv == ~closed => StreamTyped /\ StagesInv /\ SenderInv /\ \E path : IsPath(path)

\* The control thread is inside one queue at most, the one it was woken by.
ControlInv ==
    /\ listed \in Nat
    /\ window = "connect" => control = "none"
    /\ pc[Control] # "idle" => control = "request"
    /\ sPc[Control] # "idle" => control = "message"

\* The order of requests: each is numbered above those that are ahead of it.
Asking     == pc[Ui] \in {"enqSlot", "enqLock", "enqInsert"}
Requesting == control = "request" /\ pc[Control] \in {"idle", "deqReset", "deqUnlock", "deqPost"}

UpInv ==
    /\ clicks \in Nat
    /\ upSent \in Seq(Nat \cup {Disconnect})
    /\ Asking => node[Ui] = clicks /\ clicks > 0
    /\ \A i \in 1..Len(messages) :
          /\ messages[i] \in 1..clicks
          /\ Asking => messages[i] < clicks
          /\ \A j \in 1..(i - 1) : messages[j] < messages[i]
    /\ Requesting =>
          /\ node[Control] \in 1..clicks
          /\ Asking => node[Control] < clicks
          /\ \A i \in 1..Len(messages) : node[Control] < messages[i]
    /\ \A i \in 1..Len(upSent) : upSent[i] # Disconnect =>
          /\ upSent[i] <= clicks
          /\ Asking => upSent[i] < clicks
          /\ Requesting => upSent[i] < node[Control]
          /\ \A j \in 1..Len(messages) : upSent[i] < messages[j]
    /\ InOrder(upSent)

\* What the queues guarantee to the stages around them.
QueuesSafe == Msgq!TypeOK /\ Msgq!NeverPopsEmpty /\ Sockq!TypeOK /\ Sockq!NeverPopsEmpty

\* Both queues of a client are safe: what MessageQueueProofs proves of each instance.
LEMMA QueuesAreSafe == Spec => []QueuesSafe
BY ClientImplementsQueues, MsgqIsSafe, SockqIsSafe, PTL DEF QueuesSafe

\* No step takes the control thread to a handler for which no message waits.
LEMMA NextControlInv == QueuesSafe /\ ControlInv /\ [Next]_vars => ControlInv'
<1> SUFFICES ASSUME QueuesSafe, ControlInv, [Next]_vars PROVE ControlInv'
  OBVIOUS
<1> USE DEF ControlInv
<1>1. /\ pc \in [{Ui, Control} -> Msgq!Labels]
      /\ sPc \in [{Receiver, Control} -> Sockq!Labels]
  BY DEF QueuesSafe, Msgq!TypeOK, Sockq!TypeOK, Msgq!Threads, Sockq!Threads
<1>2. CASE UNCHANGED vars
  BY <1>2 DEF vars, msgqVars, sockVars, user, server
<1>3. CASE connect \/ onClose \/ UiSends \/ Connected \/ ControlSends \/ WindowAnswers \/ PlayerReturns \/ _handleMsgqMsg
  BY <1>3 DEF connect, onClose, UiSends, Connected, ControlSends, WindowAnswers, PlayerReturns, _handleMsgqMsg,
              msgqVars, sockVars, user, server, Running
<1>4. CASE ServerSends \/ ServerSendsOn \/ ServerCloses
  BY <1>4 DEF ServerSends, ServerSendsOn, ServerCloses, msgqVars, sockVars, user, server
<1>5. CASE _handleSockMsgqMsg
  BY <1>5 DEF _handleSockMsgqMsg, msgqVars, sockVars, user, server
<1>6. CASE onClick
  BY <1>1, <1>6, ThreadAssumption DEF onClick, Msgq!EnqueueCall, Msgq!Goto, sockVars, server
<1>7. CASE UiEnqueues
  <2>1. pc'[Control] = pc[Control]
    BY <1>1, <1>7, ThreadAssumption
       DEF UiEnqueues, Msgq!Enqueue, Msgq!EnqueueSlot, Msgq!EnqueueLock, Msgq!EnqueueInsert, Msgq!EnqueueSet,
           Msgq!EnqueueUnlock, Msgq!EnqueuePost, Msgq!TakeSlot, Msgq!Lock, Msgq!Unlock, Msgq!Goto
  <2>2. QED
    BY <1>7, <2>1 DEF UiEnqueues, sockVars, user, server
<1>8. CASE Wait
  BY <1>1, <1>8 DEF Wait, Running, Msgq!DequeueCall, Sockq!DequeueCall, Msgq!Goto, Sockq!Goto, msgqVars, sockVars, user, server
<1>9. CASE Dequeues
  <2>1. CASE Msgq!Dequeue(Control) /\ UNCHANGED sockVars
    <3>1. pc[Control] # "idle"
      BY <2>1 DEF Msgq!Dequeue, Msgq!DequeueToken, Msgq!DequeueLock, Msgq!DequeuePop, Msgq!DequeueReset,
                  Msgq!DequeueUnlock, Msgq!DequeuePost, Msgq!TakeToken, Msgq!Lock, Msgq!Unlock, Msgq!FreeSlot, Msgq!Goto
    <3>2. QED
      BY <1>9, <2>1, <3>1 DEF Dequeues, sockVars, user, server
  <2>2. CASE Sockq!Dequeue(Control) /\ UNCHANGED msgqVars
    <3>1. sPc[Control] # "idle"
      BY <2>2 DEF Sockq!Dequeue, Sockq!DequeueToken, Sockq!DequeueLock, Sockq!DequeuePop, Sockq!DequeueReset,
                  Sockq!DequeueUnlock, Sockq!DequeuePost, Sockq!TakeToken, Sockq!Lock, Sockq!Unlock, Sockq!FreeSlot, Sockq!Goto
    <3>2. QED
      BY <1>9, <2>2, <3>1 DEF Dequeues, msgqVars, user, server
  <2>3. QED
    BY <1>9, <2>1, <2>2 DEF Dequeues
<1>10. CASE Receive
  BY <1>1, <1>10, ThreadAssumption DEF Receive, Sockq!EnqueueCall, Sockq!Goto, msgqVars, sockVars, user, server
<1>11. CASE /\ Running /\ Sockq!Enqueue(Receiver)
            /\ UNCHANGED <<msgqVars, downVars, upVars, link, server, socket, control, user, effects>>
  <2>1. sPc'[Control] = sPc[Control]
    BY <1>1, <1>11, ThreadAssumption
       DEF Sockq!Enqueue, Sockq!EnqueueSlot, Sockq!EnqueueLock, Sockq!EnqueueInsert, Sockq!EnqueueSet,
           Sockq!EnqueueUnlock, Sockq!EnqueuePost, Sockq!TakeSlot, Sockq!Lock, Sockq!Unlock, Sockq!Goto
  <2>2. QED
    BY <1>11, <2>1 DEF msgqVars, user, server
<1>12. QED
  BY <1>2, <1>3, <1>4, <1>5, <1>6, <1>7, <1>8, <1>9, <1>10, <1>11
     DEF Next, UiThread, ControlThread, ReceiverThread

\* Each stage holds at most one message, and the counts add up.
LEMMA StageCounts ==
    ASSUME StreamTyped, Sockq!TypeOK
    PROVE  /\ Len(handled) \in Nat /\ Len(sMessages) \in Nat /\ Len(sent) \in Nat
           /\ Held \in {0, 1} /\ Entering \in {0, 1} /\ Read \in {0, 1}
           /\ Taken \in Nat /\ Inserted \in Nat /\ Enqueued \in Nat /\ Got \in Nat
<1>1. Len(handled) \in Nat /\ Len(sMessages) \in Nat /\ Len(sent) \in Nat
  BY DEF StreamTyped, Sockq!TypeOK
<1>2. Held \in {0, 1} /\ Entering \in {0, 1} /\ Read \in {0, 1}
  BY DEF Held, Entering, Read
<1>3. QED
  BY <1>1, <1>2 DEF Taken, Inserted, Enqueued, Got

\* A step that moves no message from a stage to another.
LEMMA NothingMoves ==
    ASSUME StagesInv, Held' = Held, Entering' = Entering,
           UNCHANGED <<sent, handled, sMessages, sNode, delivered, receiving, header>>
    PROVE  StagesInv' /\ Got' = Got
<1>1. Read' = Read
  BY DEF Read
<1>2. Taken' = Taken /\ Inserted' = Inserted /\ Enqueued' = Enqueued /\ Got' = Got
  BY <1>1 DEF Taken, Inserted, Enqueued, Got
<1>3. QED
  BY <1>1, <1>2 DEF StagesInv

\* The receiver's message goes to the queue's enqueue, from there into the queue.
LEMMA MessageEnters ==
    ASSUME StagesInv, StreamTyped, Sockq!TypeOK, sPc[Receiver] = "idle",
           Sockq!EnqueueCall(Receiver), sNode'[Receiver] = delivered, Down!ReadNext,
           UNCHANGED <<control, handled>>
    PROVE  StagesInv' /\ Got' = Got
<1>1. /\ sPc \in [{Receiver, Control} -> Sockq!Labels]
      /\ sPc' = [sPc EXCEPT ![Receiver] = "enqSlot"]
      /\ sNode \in [{Receiver, Control} -> FromServer \cup {Garbage} \cup {NoMessage}]
      /\ \E m : sNode' = [sNode EXCEPT ![Receiver] = m]
      /\ UNCHANGED sMessages
  BY DEF Sockq!TypeOK, Sockq!Threads, Sockq!EnqueueCall, Sockq!Goto
<1>2. sPc'[Control] = sPc[Control] /\ sNode'[Control] = sNode[Control] /\ sPc'[Receiver] = "enqSlot"
  BY <1>1, ThreadAssumption
<1>3. receiving = "enqueue" /\ receiving' = "header" /\ UNCHANGED <<sent, delivered>>
  BY DEF Down!ReadNext, Down!sendVars
<1>4. Held' = Held /\ Entering = 0 /\ Entering' = 1 /\ Read = 1 /\ Read' = 0
  BY <1>2, <1>3 DEF Held, Entering, Read
<1>5. Taken' = Taken /\ Inserted' = Inserted /\ Enqueued' = Got /\ Got' = Got
  BY <1>1, <1>4, StageCounts DEF Taken, Inserted, Enqueued, Got
<1>6. QED
  BY <1>1, <1>2, <1>3, <1>4, <1>5 DEF StagesInv

\* What enqueue puts into the queue was in the receiver's hand: the order along the way stays as it was.
LEMMA MessageIsInserted ==
    ASSUME StagesInv, StreamTyped, Sockq!TypeOK, Sockq!EnqueueInsert(Receiver),
           UNCHANGED <<control, handled, sent, delivered, receiving, header>>
    PROVE  StagesInv' /\ Got' = Got
<1>1. /\ sPc \in [{Receiver, Control} -> Sockq!Labels]
      /\ sPc[Receiver] = "enqInsert" /\ sPc' = [sPc EXCEPT ![Receiver] = "enqSet"]
      /\ sMessages' = Append(sMessages, sNode[Receiver]) /\ UNCHANGED sNode
  BY DEF Sockq!TypeOK, Sockq!Threads, Sockq!EnqueueInsert, Sockq!Goto
<1>2. sPc'[Control] = sPc[Control] /\ sPc'[Receiver] = "enqSet"
  BY <1>1, ThreadAssumption
<1>3. Held' = Held /\ Entering = 1 /\ Entering' = 0 /\ Read' = Read
  BY <1>1, <1>2 DEF Held, Entering, Read
<1>4. sMessages \in Seq(FromServer \cup {Garbage})
  BY DEF Sockq!TypeOK
<1>5. Len(sMessages') = Len(sMessages) + 1
  BY <1>1, <1>4
<1>6. Taken' = Taken /\ Inserted' = Enqueued /\ Enqueued' = Enqueued /\ Got' = Got
  BY <1>3, <1>5, StageCounts DEF Taken, Inserted, Enqueued, Got
<1>7. \A i \in 1..Len(sMessages') : sMessages'[i] = sent[Taken + i]
  <2>1. TAKE i \in 1..Len(sMessages')
  <2>2. CASE i \in 1..Len(sMessages)
    BY <1>1, <1>4, <2>2 DEF StagesInv
  <2>3. CASE i = Len(sMessages) + 1
    <3>1. sMessages'[i] = sNode[Receiver]
      BY <1>1, <1>4, <2>3
    <3>2. Enqueued = Taken + i
      BY <1>3, <2>3, StageCounts DEF Inserted, Enqueued
    <3>3. QED
      BY <1>3, <3>1, <3>2 DEF StagesInv
  <2>4. QED
    BY <1>4, <1>5, <2>2, <2>3
<1>8. QED
  BY <1>1, <1>3, <1>6, <1>7 DEF StagesInv

\* The control thread takes the oldest message, and acts on it.
LEMMA MessageIsTaken ==
    ASSUME StagesInv, StreamTyped, Sockq!TypeOK, Sockq!NeverPopsEmpty, ControlInv, Sockq!DequeuePop(Control),
           UNCHANGED <<control, handled, sent, delivered, receiving, header>>
    PROVE  StagesInv' /\ Got' = Got
<1>1. /\ sPc \in [{Receiver, Control} -> Sockq!Labels]
      /\ sNode \in [{Receiver, Control} -> FromServer \cup {Garbage} \cup {NoMessage}]
      /\ sMessages \in Seq(FromServer \cup {Garbage})
      /\ sPc[Control] = "deqPop" /\ sPc' = [sPc EXCEPT ![Control] = "deqReset"]
  BY DEF Sockq!TypeOK, Sockq!Threads, Sockq!DequeuePop, Sockq!Goto
<1>2. sMessages # <<>> /\ control = "message"
  BY <1>1 DEF Sockq!NeverPopsEmpty, Sockq!Threads, ControlInv
<1>3. sMessages' = Tail(sMessages) /\ sNode' = [sNode EXCEPT ![Control] = Head(sMessages)]
  BY <1>2 DEF Sockq!DequeuePop, Sockq!Popped, Sockq!Oldest
<1>4. /\ sPc'[Receiver] = sPc[Receiver] /\ sPc'[Control] = "deqReset"
      /\ sNode'[Receiver] = sNode[Receiver] /\ sNode'[Control] = Head(sMessages)
  BY <1>1, <1>3, ThreadAssumption
<1>5. Held = 0 /\ Held' = 1 /\ Entering' = Entering /\ Read' = Read
  BY <1>1, <1>2, <1>4 DEF Held, Entering, Read
<1>6. /\ Len(sMessages) \in Nat \ {0} /\ Len(sMessages') = Len(sMessages) - 1
      /\ Head(sMessages) = sMessages[1]
      /\ \A i \in 1..Len(sMessages') : sMessages'[i] = sMessages[i + 1]
  BY <1>1, <1>2, <1>3
<1>7. Taken' = Taken + 1 /\ Inserted' = Inserted /\ Enqueued' = Enqueued /\ Got' = Got
  BY <1>5, <1>6, StageCounts DEF Taken, Inserted, Enqueued, Got
<1>8. sNode'[Control] = sent[Taken']
  BY <1>4, <1>6, <1>7, StageCounts DEF StagesInv
<1>9. \A i \in 1..Len(sMessages') : sMessages'[i] = sent[Taken' + i]
  <2>1. TAKE i \in 1..Len(sMessages')
  <2>2. i + 1 \in 1..Len(sMessages) /\ Taken' + i = Taken + (i + 1)
    BY <1>6, <1>7, StageCounts
  <2>3. QED
    BY <1>6, <2>2 DEF StagesInv
<1>10. QED
  BY <1>4, <1>5, <1>7, <1>8, <1>9 DEF StagesInv

\* What the control thread handles is what it had taken out of the queue.
LEMMA MessageIsHandled ==
    ASSUME StagesInv, StreamTyped, Sockq!TypeOK, control = "message", sPc[Control] = "idle", control' # "message",
           handled' = Append(handled, sNode[Control]),
           UNCHANGED <<sockVars, sent, delivered, receiving, header>>
    PROVE  StagesInv' /\ Got' = Got
<1>1. UNCHANGED <<sMessages, sPc, sNode>>
  BY DEF sockVars
<1>2. Held = 1 /\ Held' = 0 /\ Entering' = Entering /\ Read' = Read
  BY <1>1 DEF Held, Entering, Read
<1>3. Len(handled') = Len(handled) + 1
  BY DEF StreamTyped
<1>4. Taken' = Taken /\ Inserted' = Inserted /\ Enqueued' = Enqueued /\ Got' = Got
  BY <1>1, <1>2, <1>3, StageCounts DEF Taken, Inserted, Enqueued, Got
<1>5. \A i \in 1..Len(handled') : handled'[i] = sent[i]
  <2>1. TAKE i \in 1..Len(handled')
  <2>2. CASE i \in 1..Len(handled)
    BY <2>2 DEF StagesInv, StreamTyped
  <2>3. CASE i = Len(handled) + 1
    <3>1. handled'[i] = sNode[Control] /\ Taken = i
      BY <1>2, <2>3, StageCounts DEF StreamTyped, Taken
    <3>2. QED
      BY <1>2, <3>1 DEF StagesInv
  <2>4. QED
    BY <1>3, <2>2, <2>3, StageCounts
<1>6. QED
  BY <1>1, <1>2, <1>4, <1>5 DEF StagesInv

-----------------------------------------------------------------------------
\* The stream.  A step of another stage leaves it as it is.
LEMMA StreamIsLeft ==
    ASSUME StreamTyped, SenderInv, NEW path, IsPath(path), Got' = Got,
           handled' \in Seq(FromServer \cup {Garbage, NoMessage}),
           UNCHANGED <<sent, wire, buffer, sending, mutex>>,
           receiving' \in {"header", "body", "enqueue"}, receiving' = "body" <=> receiving = "body"
    PROVE  StreamTyped' /\ SenderInv' /\ IsPath(path)'
<1>1. StreamTyped'
  BY DEF StreamTyped
<1>2. Unsent' = Unsent
  BY DEF Unsent
<1>3. SenderInv'
  BY <1>2 DEF SenderInv
<1>4. ReaderAt' = ReaderAt /\ WriterAt' = WriterAt
  BY <1>2 DEF ReaderAt, WriterAt, Following
<1>5. IsPath(path)'
  BY <1>4 DEF IsPath, Following
<1>6. QED
  BY <1>1, <1>3, <1>5

\* A message is sent as one unit or two and a header.
LEMMA MessageLength == \A m \in FromServer : Lengths[m] \in {1, 2}
BY DEF Lengths

\* Sending begins with the whole frame of a new message, behind all others.
LEMMA SendingBegins ==
    ASSUME StreamTyped, SenderInv, StagesInv, Sockq!TypeOK, NEW path, IsPath(path),
           NEW t \in {Playlister, Multicaster}, NEW m \in FromServer, Down!SendLock(t, m),
           UNCHANGED <<handled, sockVars, control>>
    PROVE  StreamTyped' /\ SenderInv' /\ IsPath(path)' /\ StagesInv'
<1>1. /\ mutex = NoSender /\ mutex' = t /\ sent' = Append(sent, m)
      /\ sending' = [sending EXCEPT ![t] = Down!Frame(m)]
      /\ UNCHANGED <<wire, receiving, header, buffer, delivered, handled, sMessages, sPc, sNode, control>>
  BY DEF Down!SendLock, Down!receiveVars, sockVars
<1>2. /\ Down!Frame(m) \in Seq(Units) /\ Len(Down!Frame(m)) = Lengths[m] + 1
      /\ \A i \in 1..Lengths[m] + 1 : Down!Frame(m)[i] = Down!Unit(m, i - 1)
  <2>1. Down!Frame(m) = [i \in 1..Lengths[m] + 1 |-> Down!Unit(m, i - 1)]
    BY DEF Down!Frame, Lengths
  <2>2. Lengths[m] + 1 \in Nat /\ \A i \in 1..Lengths[m] + 1 : Down!Unit(m, i - 1) \in Units
    BY MessageLength DEF Down!Unit, Units
  <2>3. QED
    BY <2>1, <2>2
<1>3. t # NoSender
  BY ThreadAssumption
<1>4. /\ Len(sent) \in Nat /\ Len(sent') = Len(sent) + 1 /\ sent'[Len(sent')] = m
      /\ \A i \in 1..Len(sent) : sent'[i] = sent[i]
  BY <1>1 DEF StreamTyped
<1>5. StreamTyped'
  BY <1>1, <1>2 DEF StreamTyped
<1>6. sending'[t] = Down!Frame(m) /\ \A u \in {Playlister, Multicaster} \ {t} : sending'[u] = <<>>
  BY <1>1, ThreadAssumption DEF StreamTyped, SenderInv
<1>7. Unsent' = Lengths[m] + 1 /\ Unsent = 0
  BY <1>1, <1>2, <1>3, <1>6 DEF Unsent
<1>8. SenderInv'
  <2>1. \A u \in {Playlister, Multicaster} : sending'[u] # <<>> => mutex' = u
    BY <1>1, <1>6
  <2>2. Unsent' = Lengths[sent'[Len(sent')]] + 1 /\ sent' # <<>>
    BY <1>1, <1>4, <1>7 DEF StreamTyped
  <2>3. \A i \in 1..Unsent' :
           sending'[mutex'][i] = Down!Unit(sent'[Len(sent')], Lengths[sent'[Len(sent')]] - Unsent' + i)
    <3>1. TAKE i \in 1..Unsent'
    <3>2. Lengths[m] - Unsent' + i = i - 1
      BY <1>7, MessageLength
    <3>3. QED
      BY <1>1, <1>2, <1>4, <1>6, <1>7, <3>2
  <2>4. Unsent' <= Lengths[sent'[Len(sent')]] + 1
    BY <1>4, <1>7, MessageLength
  <2>5. QED
    BY <2>1, <2>2, <2>3, <2>4 DEF SenderInv
<1>9. Taken' = Taken /\ Got' = Got /\ Enqueued' = Enqueued /\ Held' = Held /\ Entering' = Entering /\ Read' = Read
  BY <1>1 DEF Taken, Inserted, Enqueued, Got, Held, Entering, Read
<1>10. Got <= Len(sent) /\ (receiving = "body" => Got + 1 \in 1..Len(sent))
  BY <1>4, StageCounts DEF StagesInv
<1>11. StagesInv'
  <2>1. Got <= Len(sent')
    BY <1>4, <1>10, StageCounts
  <2>2. \A i \in 1..Len(handled) : handled[i] = sent'[i]
    <3>1. Len(handled) <= Len(sent)
      BY <1>10, StageCounts DEF Taken, Inserted, Enqueued, Got
    <3>2. QED
      BY <1>4, <3>1, StageCounts DEF StagesInv
  <2>3. Held = 1 => sNode[Control] = sent'[Taken]
    <3>1. Held = 1 => Taken \in 1..Len(sent)
      BY <1>4, <1>10, StageCounts DEF Taken, Inserted, Enqueued, Got
    <3>2. QED
      BY <1>4, <3>1 DEF StagesInv
  <2>4. \A i \in 1..Len(sMessages) : sMessages[i] = sent'[Taken + i]
    <3>1. TAKE i \in 1..Len(sMessages)
    <3>2. Taken + i \in 1..Len(sent)
      BY <1>4, <1>10, StageCounts DEF Taken, Inserted, Enqueued, Got
    <3>3. QED
      BY <1>4, <3>2 DEF StagesInv
  <2>5. Entering = 1 => sNode[Receiver] = sent'[Enqueued]
    <3>1. Entering = 1 => Enqueued \in 1..Len(sent)
      BY <1>4, <1>10, StageCounts DEF Taken, Inserted, Enqueued, Got
    <3>2. QED
      BY <1>4, <3>1 DEF StagesInv
  <2>6. Read = 1 => delivered = sent'[Got]
    <3>1. Read = 1 => Got \in 1..Len(sent)
      BY <1>4, <1>10, StageCounts DEF Taken, Inserted, Enqueued, Got
    <3>2. QED
      BY <1>4, <3>1 DEF StagesInv
  <2>7. receiving = "body" => /\ Got < Len(sent')
                              /\ header = [type |-> sent'[Got + 1], length |-> Lengths[sent'[Got + 1]]]
    BY <1>4, <1>10, StageCounts DEF StagesInv
  <2>8. QED
    BY <1>1, <1>9, <2>1, <2>2, <2>3, <2>4, <2>5, <2>6, <2>7 DEF StagesInv
<1>12. \A p \in [of : 1..Len(sent), at : Nat] : Following(p)' = Following(p)
  BY <1>4 DEF Following
<1>13. ReaderAt' = ReaderAt
  <2>1. CASE receiving = "body"
    <3>1. Pos(Got + 1, 0) \in [of : 1..Len(sent), at : Nat]
      BY <1>10, <2>1 DEF Pos
    <3>2. Following(Pos(Got + 1, 0))' = Following(Pos(Got + 1, 0))
      BY <1>4, <1>9, <1>10, <2>1 DEF Following, Pos
    <3>3. QED
      BY <1>1, <2>1, <3>2 DEF ReaderAt
  <2>2. CASE receiving # "body"
    BY <1>1, <1>9, <2>2 DEF ReaderAt, Pos
  <2>3. QED
    BY <2>1, <2>2
<1>14. WriterAt' = WriterAt
  <2>1. WriterAt = Pos(Len(sent) + 1, 0)
    BY <1>7 DEF WriterAt
  <2>2. Unsent' # 0 /\ Lengths[sent'[Len(sent')]] + 1 - Unsent' = 0
    BY <1>4, <1>7, MessageLength
  <2>3. WriterAt' = Pos(Len(sent'), 0)
    BY <2>2 DEF WriterAt
  <2>4. QED
    BY <1>4, <2>1, <2>3
<1>15. IsPath(path)'
  <2>1. \A i \in 1..Len(wire) : path[i] \in [of : Nat, at : Nat]
    BY DEF IsPath, StreamTyped
  <2>2. ASSUME NEW i \in 1..Len(wire)
        PROVE  /\ path[i].of \in 1..Len(sent')
               /\ wire'[i] = Down!Unit(sent'[path[i].of], path[i].at)
               /\ path[i + 1] = Following(path[i])'
    <3>1. path[i].of \in 1..Len(sent) /\ path[i] \in [of : 1..Len(sent), at : Nat]
      BY <2>1 DEF IsPath
    <3>2. QED
      BY <1>1, <1>4, <1>12, <3>1 DEF IsPath, Following
  <2>3. QED
    BY <1>1, <1>13, <1>14, <2>2 DEF IsPath
<1>16. QED
  BY <1>5, <1>8, <1>11, <1>15

\* One more unit goes on the wire, at the place where the writer is.
LEMMA SendingGoesOn ==
    ASSUME StreamTyped, SenderInv, NEW path, IsPath(path), Got' = Got,
           NEW t \in {Playlister, Multicaster}, Down!SendPart(t), UNCHANGED handled
    PROVE  StreamTyped' /\ SenderInv' /\ \E q : IsPath(q)'
<1>1. /\ sending[t] # <<>> /\ wire' = Append(wire, Head(sending[t]))
      /\ sending' = [sending EXCEPT ![t] = Tail(sending[t])]
      /\ UNCHANGED <<mutex, sent, receiving, header, buffer, delivered>>
  BY DEF Down!SendPart, Down!receiveVars
<1>2. mutex = t /\ t # NoSender
  BY <1>1, ThreadAssumption DEF SenderInv
<1>3. /\ sending[t] \in Seq(Units) /\ Len(sending[t]) \in Nat \ {0} /\ Len(wire) \in Nat
      /\ Head(sending[t]) = sending[t][1] /\ Len(Tail(sending[t])) = Len(sending[t]) - 1
      /\ \A i \in 1..Len(sending[t]) - 1 : Tail(sending[t])[i] = sending[t][i + 1]
  BY <1>1 DEF StreamTyped
<1>4. sending'[t] = Tail(sending[t]) /\ \A u \in {Playlister, Multicaster} \ {t} : sending'[u] = sending[u]
  BY <1>1 DEF StreamTyped
<1>5. Unsent = Len(sending[t]) /\ Unsent' = Unsent - 1
  BY <1>1, <1>2, <1>3, <1>4 DEF Unsent
<1> DEFINE m == sent[Len(sent)]
           n == Len(wire) + 1
<1>6. sent # <<>> /\ m \in FromServer /\ Len(sent) \in Nat \ {0} /\ Lengths[m] \in {1, 2}
  <2>1. sent # <<>> /\ Len(sent) \in Nat \ {0} /\ m \in FromServer
    BY <1>2 DEF SenderInv, StreamTyped
  <2>2. QED
    BY <2>1, MessageLength
<1>7. StreamTyped'
  <2>1. Head(sending[t]) \in Units /\ Tail(sending[t]) \in Seq(Units)
    BY <1>1, <1>3
  <2>2. QED
    BY <1>1, <2>1 DEF StreamTyped
<1>8. Unsent \in 1..Lengths[m] + 1
  BY <1>2, <1>3, <1>5, <1>6 DEF SenderInv
<1>9. SenderInv'
  <2>1. \A u \in {Playlister, Multicaster} : sending'[u] # <<>> => mutex' = u
    BY <1>1, <1>2, <1>4 DEF SenderInv
  <2>2. ASSUME NEW i \in 1..Unsent'
        PROVE  sending'[t][i] = Down!Unit(m, Lengths[m] - Unsent' + i)
    <3>1. sending'[t][i] = sending[t][i + 1] /\ i + 1 \in 1..Unsent
      BY <1>3, <1>4, <1>5, <1>8
    <3>2. sending[t][i + 1] = Down!Unit(m, Lengths[m] - Unsent + (i + 1))
      BY <1>2, <3>1 DEF SenderInv
    <3>3. Lengths[m] - Unsent + (i + 1) = Lengths[m] - Unsent' + i
      BY <1>5, <1>6, <1>8
    <3>4. QED
      BY <3>1, <3>2, <3>3
  <2>3. Unsent' <= Lengths[m] + 1
    BY <1>5, <1>6, <1>8
  <2>4. QED
    BY <1>1, <1>2, <1>6, <2>1, <2>2, <2>3 DEF SenderInv
<1>10. WriterAt = Pos(Len(sent), Lengths[m] + 1 - Unsent)
  BY <1>8, <1>6 DEF WriterAt
<1>11. WriterAt' = Following(WriterAt)
  <2>1. CASE Unsent = 1
    <3>1. WriterAt' = Pos(Len(sent) + 1, 0)
      BY <1>1, <1>5, <2>1 DEF WriterAt
    <3>2. WriterAt = Pos(Len(sent), Lengths[m])
      BY <1>6, <1>10, <2>1
    <3>3. QED
      BY <1>6, <3>1, <3>2 DEF Following, Pos
  <2>2. CASE Unsent # 1
    <3>1. WriterAt' = Pos(Len(sent), Lengths[m] + 1 - Unsent')
      BY <1>1, <1>5, <1>6, <1>8, <2>2 DEF WriterAt
    <3>2. Lengths[m] + 1 - Unsent' = (Lengths[m] + 1 - Unsent) + 1 /\ Lengths[m] + 1 - Unsent < Lengths[m]
      <4> HIDE DEF m
      <4>1. Lengths[m] \in Int /\ Unsent \in Int /\ Unsent > 1
        BY <1>6, <1>8, <2>2
      <4>2. QED
        BY <1>5, <4>1
    <3>3. QED
      BY <1>10, <3>1, <3>2 DEF Following, Pos
  <2>3. QED
    BY <2>1, <2>2
<1>12. sending[t][1] = Down!Unit(m, Lengths[m] + 1 - Unsent)
  <2>1. 1 \in 1..Unsent /\ Lengths[m] - Unsent + 1 = Lengths[m] + 1 - Unsent
    BY <1>6, <1>8
  <2>2. QED
    BY <1>2, <2>1 DEF SenderInv
<1> PICK q : q = [i \in 1..n + 1 |-> IF i = n + 1 THEN Following(WriterAt) ELSE path[i]]
  OBVIOUS
<1>13. Len(wire') = n /\ wire'[n] = sending[t][1] /\ \A i \in 1..Len(wire) : wire'[i] = wire[i]
  BY <1>1, <1>3, <1>7 DEF StreamTyped
<1>14. WriterAt \in [of : Nat, at : Nat] /\ Following(WriterAt) \in [of : Nat, at : Nat]
  BY <1>6, <1>8, <1>10 DEF Following, Pos
<1>15. q \in [1..n + 1 -> [of : Nat, at : Nat]]
  BY <1>3, <1>14 DEF IsPath
<1>16. ReaderAt' = ReaderAt
  BY <1>1 DEF ReaderAt, Following
<1>17. q[1] = ReaderAt' /\ q[n + 1] = WriterAt' /\ path[n] = WriterAt
  BY <1>3, <1>11, <1>16 DEF IsPath
<1>18. ASSUME NEW i \in 1..n
       PROVE  /\ q[i].of \in 1..Len(sent')
              /\ wire'[i] = Down!Unit(sent'[q[i].of], q[i].at)
              /\ q[i + 1] = Following(q[i])'
  <2>1. Following(q[i])' = Following(q[i]) /\ q[i] = path[i]
    BY <1>1, <1>3 DEF Following
  <2>2. CASE i = n
    <3>1. q[i] = WriterAt /\ q[i + 1] = Following(WriterAt)
      BY <1>3, <1>17, <2>1, <2>2
    <3>2. WriterAt.of = Len(sent) /\ WriterAt.at = Lengths[m] + 1 - Unsent
      BY <1>10 DEF Pos
    <3>3. QED
      BY <1>1, <1>6, <1>12, <1>13, <2>1, <2>2, <3>1, <3>2
  <2>3. CASE i \in 1..Len(wire)
    <3>1. q[i + 1] = path[i + 1]
      BY <1>3, <2>3
    <3>2. QED
      BY <1>1, <1>13, <2>1, <2>3, <3>1 DEF IsPath
  <2>4. QED
    BY <1>3, <2>2, <2>3
<1>19. IsPath(q)'
  BY <1>13, <1>15, <1>17, <1>18 DEF IsPath
<1>20. QED
  BY <1>7, <1>9, <1>19

\* A sequence that agrees with the front of another is a prefix of it.
LEMMA AgreeingIsPrefix ==
    ASSUME NEW S, NEW T, NEW s \in Seq(S), NEW t \in Seq(T), Len(s) <= Len(t), \A i \in 1..Len(s) : s[i] = t[i]
    PROVE  IsPrefix(s, t)
<1>1. SubSeq(s, 1, Len(s)) = [i \in 1..Len(s) |-> s[i]]
  OBVIOUS
<1>2. SubSeq(t, 1, Len(s)) = [i \in 1..Len(s) |-> t[i]]
  OBVIOUS
<1>3. SubSeq(s, 1, Len(s)) = SubSeq(t, 1, Len(s))
  BY <1>1, <1>2
<1>4. QED
  BY <1>3 DEF IsPrefix

\* Reading k units of the wire leaves the rest, and the k units in front of the buffer.
LEMMA UnitsAreRead ==
    ASSUME wire \in Seq(Units), buffer \in Seq(Units), NEW k \in 0..Len(wire), Down!Receive(k)
    PROVE  /\ wire' \in Seq(Units) /\ Len(wire') = Len(wire) - k
           /\ \A i \in 1..Len(wire') : wire'[i] = wire[i + k]
           /\ buffer' \in Seq(Units) /\ Len(buffer') >= k
           /\ \A i \in 1..k : buffer'[i] = wire[i]
<1>1. /\ wire' = SubSeq(wire, k + 1, Len(wire))
      /\ buffer' = SubSeq(wire, 1, k) \o SubSeq(buffer, k + 1, Len(buffer))
  BY DEF Down!Receive
<1>2. /\ SubSeq(wire, k + 1, Len(wire)) \in Seq(Units)
      /\ Len(SubSeq(wire, k + 1, Len(wire))) = Len(wire) - k
      /\ \A i \in 1..Len(wire) - k : SubSeq(wire, k + 1, Len(wire))[i] = wire[i + k]
  OBVIOUS
<1>3. /\ SubSeq(wire, 1, k) \in Seq(Units) /\ Len(SubSeq(wire, 1, k)) = k
      /\ \A i \in 1..k : SubSeq(wire, 1, k)[i] = wire[i]
  OBVIOUS
<1>4. SubSeq(buffer, k + 1, Len(buffer)) \in Seq(Units)
  OBVIOUS
<1>5. \A s, t \in Seq(Units) : /\ s \o t \in Seq(Units) /\ Len(s \o t) >= Len(s)
                               /\ \A i \in 1..Len(s) : (s \o t)[i] = s[i]
  OBVIOUS
<1>6. wire' \in Seq(Units) /\ Len(wire') = Len(wire) - k /\ \A i \in 1..Len(wire') : wire'[i] = wire[i + k]
  BY <1>1, <1>2
<1>7. PICK s, t : s = SubSeq(wire, 1, k) /\ t = SubSeq(buffer, k + 1, Len(buffer))
  OBVIOUS
<1>8. s \in Seq(Units) /\ t \in Seq(Units) /\ Len(s) = k /\ \A i \in 1..k : s[i] = wire[i]
  BY <1>3, <1>4, <1>7
<1>9. buffer' = s \o t
  BY <1>1, <1>7
<1>10. buffer' \in Seq(Units) /\ Len(buffer') >= Len(s) /\ \A i \in 1..Len(s) : buffer'[i] = s[i]
  BY <1>5, <1>8, <1>9
<1>11. QED
  BY <1>6, <1>8, <1>10

\* A read of k units moves the reader's end of the path to where k steps lead.
LEMMA PathIsRead ==
    ASSUME StreamTyped, SenderInv, NEW path, IsPath(path), NEW k \in 0..Len(wire), Down!Receive(k),
           path[k + 1] = ReaderAt', UNCHANGED handled, receiving' \in {"header", "body", "enqueue"}
    PROVE  StreamTyped' /\ SenderInv' /\ \E q : IsPath(q)'
<1>1. UNCHANGED <<mutex, sending, sent>>
  BY DEF Down!Receive, Down!sendVars
<1>2. wire \in Seq(Units) /\ buffer \in Seq(Units) /\ Len(wire) \in Nat
  BY DEF StreamTyped
<1>3. /\ wire' \in Seq(Units) /\ Len(wire') = Len(wire) - k
      /\ \A i \in 1..Len(wire') : wire'[i] = wire[i + k]
      /\ buffer' \in Seq(Units)
  BY <1>2, UnitsAreRead
<1>4. StreamTyped'
  BY <1>1, <1>3 DEF StreamTyped
<1>5. Unsent' = Unsent
  BY <1>1 DEF Unsent
<1>6. SenderInv'
  BY <1>1, <1>5 DEF SenderInv
<1>7. WriterAt' = WriterAt
  BY <1>1, <1>5 DEF WriterAt
<1> PICK q : q = [i \in 1..Len(wire) - k + 1 |-> path[i + k]]
  OBVIOUS
<1>8. q \in [1..Len(wire') + 1 -> [of : Nat, at : Nat]]
  <2>1. \A i \in 1..Len(wire) - k + 1 : i + k \in 1..Len(wire) + 1
    BY <1>2
  <2>2. QED
    BY <1>3, <2>1 DEF IsPath
<1>9. q[1] = ReaderAt' /\ q[Len(wire') + 1] = WriterAt'
  <2>1. /\ 1 \in 1..Len(wire) - k + 1 /\ 1 + k = k + 1
        /\ Len(wire') + 1 \in 1..Len(wire) - k + 1 /\ Len(wire') + 1 + k = Len(wire) + 1
    BY <1>2, <1>3
  <2>2. q[1] = path[k + 1] /\ q[Len(wire') + 1] = path[Len(wire) + 1]
    BY <2>1
  <2>3. QED
    BY <1>7, <2>2 DEF IsPath
<1>10. ASSUME NEW i \in 1..Len(wire')
       PROVE  /\ q[i].of \in 1..Len(sent')
              /\ wire'[i] = Down!Unit(sent'[q[i].of], q[i].at)
              /\ q[i + 1] = Following(q[i])'
  <2>1. i + k \in 1..Len(wire) /\ q[i] = path[i + k] /\ q[i + 1] = path[(i + k) + 1] /\ wire'[i] = wire[i + k]
    BY <1>2, <1>3
  <2>2. Following(q[i])' = Following(q[i])
    BY <1>1 DEF Following
  <2>3. QED
    BY <1>1, <2>1, <2>2 DEF IsPath
<1>11. IsPath(q)'
  BY <1>8, <1>9, <1>10 DEF IsPath
<1>12. QED
  BY <1>4, <1>6, <1>11

\* While the connection is open and reads are whole, a read gives what it asked for.
LEMMA ReadsAreWhole ==
    ASSUME ShortReads = FALSE, ~closed, NEW n \in Nat, NEW k \in Down!Sizes(n)
    PROVE  k = n /\ k <= Len(wire)
BY DEF Down!Sizes

\* The header of the next message is read, and it is one.
LEMMA HeaderIsRead ==
    ASSUME ShortReads = FALSE, ~closed, StreamTyped, SenderInv, StagesInv, Sockq!TypeOK,
           NEW path, IsPath(path), Down!ReadHeader, UNCHANGED <<handled, sockVars, control>>
    PROVE  StreamTyped' /\ SenderInv' /\ StagesInv' /\ \E q : IsPath(q)'
<1>1. PICK k \in Down!Sizes(1) : Down!Receive(k)
  BY DEF Down!ReadHeader
<1>2. k = 1 /\ k <= Len(wire)
  BY ReadsAreWhole
<1>3. Len(wire) \in Nat \ {0} /\ k \in 0..Len(wire) /\ 1 \in 1..Len(wire)
  BY <1>2 DEF StreamTyped
<1>4. receiving = "header" /\ receiving' = "body" /\ delivered' = delivered
  BY DEF Down!ReadHeader
<1>5. /\ UNCHANGED <<mutex, sending, sent, handled, sMessages, sPc, sNode, control>>
      /\ Held' = Held /\ Entering' = Entering /\ Read = 0 /\ Read' = 0
  BY <1>1, <1>4 DEF Down!Receive, Down!sendVars, sockVars, Held, Entering, Read
<1>6. Taken' = Taken /\ Enqueued' = Enqueued /\ Got' = Got
  BY <1>5 DEF Taken, Inserted, Enqueued, Got
<1>7. path[1] = Pos(Got + 1, 0)
  BY <1>4 DEF IsPath, ReaderAt
<1>8. Got + 1 \in 1..Len(sent) /\ wire[1] = Down!Unit(sent[Got + 1], 0) /\ path[2] = Following(path[1])
  BY <1>3, <1>7 DEF IsPath, Pos
<1>9. buffer' # <<>> /\ buffer'[1] = wire[1]
  <2>1. wire \in Seq(Units) /\ buffer \in Seq(Units)
    BY DEF StreamTyped
  <2>2. buffer' \in Seq(Units) /\ Len(buffer') >= k /\ \A i \in 1..k : buffer'[i] = wire[i]
    BY <1>1, <1>3, <2>1, UnitsAreRead
  <2>3. QED
    BY <1>2, <2>2
<1>10. header' = [type |-> sent[Got + 1], length |-> Lengths[sent[Got + 1]]]
  <2>1. buffer'[1].at = 0 /\ buffer'[1].message = sent[Got + 1]
    BY <1>8, <1>9 DEF Down!Unit
  <2>2. QED
    BY <1>9, <2>1 DEF Down!ReadHeader, Lengths
<1>11. StagesInv'
  <2>1. Got < Len(sent)
    BY <1>8, StageCounts
  <2>2. QED
    BY <1>4, <1>5, <1>6, <1>10, <2>1 DEF StagesInv
<1>12. path[k + 1] = ReaderAt'
  <2>1. ReaderAt' = Following(Pos(Got + 1, 0))'
    BY <1>4, <1>6 DEF ReaderAt, Pos, Following
  <2>2. Following(Pos(Got + 1, 0))' = Following(Pos(Got + 1, 0))
    BY <1>5, <1>6 DEF Following, Pos
  <2>3. QED
    BY <1>2, <1>7, <1>8, <2>1, <2>2
<1>13. QED
  BY <1>1, <1>3, <1>4, <1>5, <1>11, <1>12, PathIsRead

\* Its body is read to the end, and no further.
LEMMA BodyIsRead ==
    ASSUME ShortReads = FALSE, ~closed, StreamTyped, SenderInv, StagesInv, Sockq!TypeOK,
           NEW path, IsPath(path), Down!ReadBody, UNCHANGED <<handled, sockVars, control>>
    PROVE  StreamTyped' /\ SenderInv' /\ StagesInv' /\ \E q : IsPath(q)'
<1>1. receiving = "body" /\ receiving' = "enqueue"
  BY DEF Down!ReadBody
<1>2. Got < Len(sent) /\ header = [type |-> sent[Got + 1], length |-> Lengths[sent[Got + 1]]]
  BY <1>1 DEF StagesInv
<1> PICK m : m = sent[Got + 1]
  OBVIOUS
<1>3. Got \in Nat /\ Got + 1 \in 1..Len(sent) /\ m \in FromServer /\ Lengths[m] \in {1, 2}
  <2>1. Got \in Nat /\ Got + 1 \in 1..Len(sent)
    BY <1>2, StageCounts
  <2>2. m \in FromServer
    BY <2>1 DEF StreamTyped
  <2>3. QED
    BY <2>1, <2>2, MessageLength
<1>4. header.type = m /\ header.length = Lengths[m]
  BY <1>2
<1>5. PICK k \in Down!Sizes(header.length) : Down!Receive(k)
  BY DEF Down!ReadBody
<1>6. k = Lengths[m] /\ k <= Len(wire)
  BY <1>3, <1>4, ReadsAreWhole
<1>7. Len(wire) \in Nat /\ k \in 0..Len(wire) /\ k \in {1, 2} /\ 1..k \subseteq 1..Len(wire)
  BY <1>3, <1>6 DEF StreamTyped
<1>8. /\ UNCHANGED <<mutex, sending, sent, handled, sMessages, sPc, sNode, control>>
      /\ Held' = Held /\ Entering' = Entering /\ Read = 0 /\ Read' = 1
  BY <1>1, <1>5 DEF Down!Receive, Down!sendVars, sockVars, Held, Entering, Read
<1>9. Taken' = Taken /\ Enqueued' = Enqueued /\ Got' = Got + 1
  BY <1>8, StageCounts DEF Taken, Inserted, Enqueued, Got
<1>10. /\ \A i \in 1..k : wire[i] = Down!Unit(m, i)
       /\ path[k + 1] = Pos(Got + 2, 0)
  <2>1. path[1] = Pos(Got + 1, 1)
    BY <1>1, <1>3 DEF IsPath, ReaderAt, Following, Pos
  <2>2. wire[1] = Down!Unit(m, 1) /\ path[2] = Following(path[1])
    BY <1>7, <2>1 DEF IsPath, Pos
  <2> DEFINE g == Got + 1
  <2>3. \A i \in Nat : Following(Pos(g, i)) = IF i < Lengths[m] THEN Pos(g, i + 1) ELSE Pos(g + 1, 0)
    BY DEF Following, Pos
  <2>4. g + 1 = Got + 2
    BY <1>3
  <2>5. CASE k = 1
    <3>1. path[2] = Pos(Got + 2, 0)
      BY <1>6, <2>1, <2>2, <2>3, <2>4, <2>5
    <3>2. QED
      BY <2>2, <2>5, <3>1
  <2>6. CASE k = 2
    <3>1. path[2] = Pos(Got + 1, 2)
      BY <1>6, <2>1, <2>2, <2>3, <2>6
    <3>2. wire[2] = Down!Unit(m, 2) /\ path[3] = Following(path[2])
      BY <1>7, <2>6, <3>1 DEF IsPath, Pos
    <3>3. path[3] = Pos(Got + 2, 0)
      BY <1>6, <2>3, <2>4, <2>6, <3>1, <3>2
    <3>4. QED
      BY <2>2, <2>6, <3>2, <3>3
  <2>7. QED
    BY <1>7, <2>5, <2>6
<1>11. Down!IsPrefix(Down!Body(m), buffer')
  <2>1. Down!Frame(m) = [i \in 1..k + 1 |-> Down!Unit(m, i - 1)]
    BY <1>6 DEF Down!Frame, Lengths
  <2>2. \A i \in 1..k + 1 : Down!Unit(m, i - 1) \in Units
    BY <1>3, <1>7 DEF Down!Unit, Units
  <2>3. Down!Frame(m) \in Seq(Units) /\ Len(Down!Frame(m)) = k + 1
    BY <1>7, <2>1, <2>2
  <2>4. /\ Down!Body(m) \in Seq(Units) /\ Len(Down!Body(m)) = k
        /\ \A i \in 1..k : Down!Body(m)[i] = Down!Unit(m, i)
    BY <1>7, <2>1, <2>3 DEF Down!Body
  <2>5. buffer' \in Seq(Units) /\ Len(buffer') >= k /\ \A i \in 1..k : buffer'[i] = wire[i]
    BY <1>5, <1>7, UnitsAreRead DEF StreamTyped
  <2>6. IsPrefix(Down!Body(m), buffer')
    BY <1>7, <1>10, <2>4, <2>5, AgreeingIsPrefix
  <2>7. QED
    BY <2>6 DEF IsPrefix, Down!IsPrefix
<1>12. delivered' = m
  BY <1>4, <1>11 DEF Down!ReadBody
<1>13. StagesInv'
  <2>1. Got' <= Len(sent')
    BY <1>3, <1>8, <1>9
  <2>2. QED
    BY <1>1, <1>8, <1>9, <1>12, <2>1 DEF StagesInv
<1>14. path[k + 1] = ReaderAt'
  BY <1>1, <1>3, <1>9, <1>10 DEF ReaderAt
<1>15. QED
  BY <1>1, <1>5, <1>7, <1>8, <1>13, <1>14, PathIsRead

\* The mutex is given back when nothing is left to send.
LEMMA SendingEnds ==
    ASSUME StreamTyped, SenderInv, ~closed, NEW path, IsPath(path), Got' = Got,
           NEW t \in {Playlister, Multicaster}, Down!SendUnlock(t), UNCHANGED handled
    PROVE  StreamTyped' /\ SenderInv' /\ IsPath(path)'
<1>1. /\ mutex = t /\ sending[t] = <<>> /\ mutex' = NoSender /\ sending' = [sending EXCEPT ![t] = <<>>]
      /\ UNCHANGED <<sent, wire, receiving, header, buffer, delivered>>
  BY DEF Down!SendUnlock, Down!receiveVars
<1>2. sending' = sending
  BY <1>1 DEF StreamTyped
<1>3. StreamTyped'
  BY <1>1, <1>2 DEF StreamTyped
<1>4. Unsent = 0 /\ Unsent' = 0
  BY <1>1 DEF Unsent
<1>5. SenderInv'
  BY <1>1, <1>2 DEF SenderInv
<1>6. ReaderAt' = ReaderAt /\ WriterAt' = WriterAt
  BY <1>1, <1>4 DEF ReaderAt, WriterAt, Following
<1>7. IsPath(path)'
  BY <1>1, <1>6 DEF IsPath, Following
<1>8. QED
  BY <1>3, <1>5, <1>7

-----------------------------------------------------------------------------
\* A step that is none of the stages'.
Elsewhere ==
    /\ UNCHANGED <<sockVars, downVars, handled>>
    /\ control' = "message" <=> control = "message"

\* A step that touches neither connection, queue nor handler leaves the way of the messages as it is.
LEMMA ElsewhereMovesNothing ==
    ASSUME StreamTyped, StagesInv, SenderInv, NEW path, IsPath(path), Elsewhere
    PROVE  StreamTyped' /\ StagesInv' /\ SenderInv' /\ IsPath(path)'
<1>1. /\ UNCHANGED <<sMessages, sPc, sNode, mutex, sending, sent, wire, receiving, header, buffer, delivered, handled>>
      /\ control' = "message" <=> control = "message"
  BY DEF Elsewhere, sockVars, downVars
<1>2. Held' = Held /\ Entering' = Entering
  BY <1>1 DEF Held, Entering
<1>3. StagesInv' /\ Got' = Got
  BY <1>1, <1>2, NothingMoves
<1>4. QED
  BY <1>1, <1>3, StreamIsLeft DEF StreamTyped

\* A step of a thread inside the queue of messages.
LEMMA EnqueueMoves ==
    ASSUME StreamTyped, StagesInv, Sockq!TypeOK, Sockq!Enqueue(Receiver), UNCHANGED <<downVars, control, handled>>
    PROVE  StagesInv' /\ Got' = Got
<1>1. UNCHANGED <<sent, delivered, receiving, header, handled, control>>
  BY DEF downVars
<1>2. sPc \in [{Receiver, Control} -> Sockq!Labels]
  BY DEF Sockq!TypeOK, Sockq!Threads
<1>3. CASE Sockq!EnqueueInsert(Receiver)
  BY <1>1, <1>3, MessageIsInserted
<1>4. CASE Sockq!EnqueueSlot(Receiver) \/ Sockq!EnqueueLock(Receiver) \/ Sockq!EnqueueSet(Receiver)
           \/ Sockq!EnqueueUnlock(Receiver) \/ Sockq!EnqueuePost(Receiver)
  <2>1. UNCHANGED <<sMessages, sNode>>
    BY <1>4 DEF Sockq!EnqueueSlot, Sockq!EnqueueLock, Sockq!EnqueueSet, Sockq!EnqueueUnlock,
                Sockq!EnqueuePost, Sockq!TakeSlot, Sockq!Lock, Sockq!Unlock
  <2>2. PICK from, to : /\ Sockq!Goto(Receiver, from, to)
                        /\ from \in {"enqSlot", "enqLock", "enqInsert"} <=> to \in {"enqSlot", "enqLock", "enqInsert"}
    BY <1>4 DEF Sockq!EnqueueSlot, Sockq!EnqueueLock, Sockq!EnqueueSet, Sockq!EnqueueUnlock,
                Sockq!EnqueuePost, Sockq!TakeSlot, Sockq!Lock, Sockq!Unlock
  <2>3. sPc[Receiver] = from /\ sPc'[Receiver] = to /\ sPc'[Control] = sPc[Control]
    BY <1>2, <2>2, ThreadAssumption DEF Sockq!Goto
  <2>4. Held' = Held /\ Entering' = Entering
    BY <1>1, <2>2, <2>3 DEF Held, Entering
  <2>5. QED
    BY <1>1, <2>1, <2>4, NothingMoves
<1>5. QED
  BY <1>3, <1>4 DEF Sockq!Enqueue

\* dequeue moves a message from the queue into the hand of the control thread, or nothing.
LEMMA DequeueMoves ==
    ASSUME StreamTyped, StagesInv, Sockq!TypeOK, Sockq!NeverPopsEmpty, ControlInv,
           Sockq!Dequeue(Control), UNCHANGED <<downVars, control, handled>>
    PROVE  StagesInv' /\ Got' = Got
<1>1. UNCHANGED <<sent, delivered, receiving, header, handled, control>>
  BY DEF downVars
<1>2. sPc \in [{Receiver, Control} -> Sockq!Labels]
  BY DEF Sockq!TypeOK, Sockq!Threads
<1>3. CASE Sockq!DequeuePop(Control)
  BY <1>1, <1>3, MessageIsTaken
<1>4. CASE Sockq!DequeueToken(Control) \/ Sockq!DequeueLock(Control) \/ Sockq!DequeueReset(Control)
           \/ Sockq!DequeueUnlock(Control) \/ Sockq!DequeuePost(Control)
  <2>1. UNCHANGED <<sMessages, sNode>>
    BY <1>4 DEF Sockq!DequeueToken, Sockq!DequeueLock, Sockq!DequeueReset, Sockq!DequeueUnlock,
                Sockq!DequeuePost, Sockq!TakeToken, Sockq!Lock, Sockq!Unlock, Sockq!FreeSlot
  <2>2. PICK from, to : /\ Sockq!Goto(Control, from, to)
                        /\ from \in {"idle", "deqReset", "deqUnlock", "deqPost"}
                              <=> to \in {"idle", "deqReset", "deqUnlock", "deqPost"}
    BY <1>4 DEF Sockq!DequeueToken, Sockq!DequeueLock, Sockq!DequeueReset, Sockq!DequeueUnlock,
                Sockq!DequeuePost, Sockq!TakeToken, Sockq!Lock, Sockq!Unlock, Sockq!FreeSlot
  <2>3. sPc[Control] = from /\ sPc'[Control] = to /\ sPc'[Receiver] = sPc[Receiver]
    BY <1>2, <2>2, ThreadAssumption DEF Sockq!Goto
  <2>4. Held' = Held /\ Entering' = Entering
    BY <1>1, <2>2, <2>3 DEF Held, Entering
  <2>5. QED
    BY <1>1, <2>1, <2>4, NothingMoves
<1>5. QED
  BY <1>3, <1>4 DEF Sockq!Dequeue

\* Whatever client and server do, the stages and the stream stay as they are described.
LEMMA NextDownInv ==
    ASSUME ShortReads = FALSE
    PROVE  QueuesSafe /\ ControlInv /\ DownInv /\ [Next]_vars => DownInv'
<1> SUFFICES ASSUME QueuesSafe, ControlInv, DownInv, [Next]_vars, ~closed'
             PROVE  StreamTyped' /\ StagesInv' /\ SenderInv' /\ \E q : IsPath(q)'
  BY DEF DownInv
<1>1. Sockq!TypeOK /\ Sockq!NeverPopsEmpty
  BY DEF QueuesSafe
<1>2. ~closed
  BY DEF Next, vars, connect, onClick, onClose, UiThread, UiEnqueues, UiSends, ControlThread, Connected, Wait,
         Dequeues, _handleMsgqMsg, ControlSends, _handleSockMsgqMsg, WindowAnswers, PlayerReturns, ReceiverThread, Receive,
         ServerSends, ServerSendsOn, ServerCloses, Down!ReadHeader, Down!ReadBody, Down!ReadNext, Down!Receive,
         Down!SendLock, Down!Send, Down!SendPart, Down!SendUnlock, Down!Close, link
<1>3. StreamTyped /\ StagesInv /\ SenderInv /\ \E path : IsPath(path)
  BY <1>2 DEF DownInv
<1> PICK path : IsPath(path)
  BY <1>3
<1>4. CASE UNCHANGED vars
  <2>1. Elsewhere
    BY <1>4 DEF vars, effects, Elsewhere
  <2>2. QED
    BY <1>3, <2>1, ElsewhereMovesNothing
<1>5. CASE connect \/ onClick \/ onClose \/ UiThread \/ Connected \/ _handleMsgqMsg \/ ControlSends \/ WindowAnswers \/ PlayerReturns
  <2>1. Elsewhere
    BY <1>5 DEF connect, onClick, onClose, UiThread, UiEnqueues, UiSends, Connected, _handleMsgqMsg, ControlSends,
                WindowAnswers, PlayerReturns, ControlInv, effects, Elsewhere
  <2>2. QED
    BY <1>3, <2>1, ElsewhereMovesNothing
<1>6. CASE ServerCloses
  BY <1>6 DEF ServerCloses, Down!Close
<1>7. CASE Wait
  <2>1. UNCHANGED <<downVars, handled>> /\ control = "wait"
    BY <1>7 DEF Wait, effects
  <2>2. UNCHANGED <<mutex, sending, sent, wire, receiving, header, buffer, delivered>>
    BY <2>1 DEF downVars
  <2>3. CASE UNCHANGED sockVars /\ control' = "request"
    BY <1>3, <2>1, <2>3, ElsewhereMovesNothing DEF Elsewhere
  <2>4. CASE Sockq!DequeueCall(Control) /\ control' = "message"
    <3>1. UNCHANGED <<sMessages, sNode>> /\ sPc'[Control] = "deqToken" /\ sPc'[Receiver] = sPc[Receiver]
      BY <1>1, <2>4, ThreadAssumption DEF Sockq!DequeueCall, Sockq!Goto, Sockq!TypeOK, Sockq!Threads
    <3>2. Held' = Held /\ Entering' = Entering
      BY <2>1, <3>1 DEF Held, Entering
    <3>3. StagesInv' /\ Got' = Got
      BY <1>3, <2>1, <2>2, <3>1, <3>2, NothingMoves
    <3>4. QED
      BY <1>3, <2>1, <2>2, <3>3, StreamIsLeft DEF StreamTyped
  <2>5. QED
    BY <1>7, <2>3, <2>4 DEF Wait
<1>8. CASE Dequeues
  <2>1. UNCHANGED <<downVars, handled, control>>
    BY <1>8 DEF Dequeues, effects
  <2>2. UNCHANGED <<mutex, sending, sent, wire, receiving, header, buffer, delivered>>
    BY <2>1 DEF downVars
  <2>3. CASE UNCHANGED sockVars
    BY <1>3, <2>1, <2>3, ElsewhereMovesNothing DEF Elsewhere
  <2>4. CASE Sockq!Dequeue(Control)
    <3>1. StagesInv' /\ Got' = Got
      BY <1>1, <1>3, <2>1, <2>4, DequeueMoves
    <3>2. QED
      BY <1>3, <2>1, <2>2, <3>1, StreamIsLeft DEF StreamTyped
  <2>5. QED
    BY <1>8, <2>3, <2>4 DEF Dequeues
<1>9. CASE _handleSockMsgqMsg
  <2>1. /\ control = "message" /\ sPc[Control] = "idle" /\ handled' = Append(handled, sNode[Control])
        /\ UNCHANGED <<sockVars, downVars>>
    BY <1>2, <1>9 DEF _handleSockMsgqMsg
  <2>2. control' # "message"
    BY <1>9 DEF _handleSockMsgqMsg, onNewSong, onChangeStream
  <2>3. UNCHANGED <<mutex, sending, sent, wire, receiving, header, buffer, delivered>>
    BY <2>1 DEF downVars
  <2>4. StagesInv' /\ Got' = Got
    BY <1>1, <1>3, <2>1, <2>2, <2>3, MessageIsHandled
  <2>5. sNode[Control] \in FromServer \cup {Garbage, NoMessage}
    BY <1>1 DEF Sockq!TypeOK, Sockq!Threads
  <2>6. handled' \in Seq(FromServer \cup {Garbage, NoMessage})
    BY <1>3, <2>1, <2>5 DEF StreamTyped
  <2>7. QED
    BY <1>3, <2>3, <2>4, <2>6, StreamIsLeft DEF StreamTyped
<1>10. CASE Receive
  <2>1. UNCHANGED <<handled, control>> /\ sPc[Receiver] = "idle"
    BY <1>10 DEF Receive, effects
  <2>2. CASE Down!ReadHeader /\ UNCHANGED sockVars
    BY <1>1, <1>2, <1>3, <2>1, <2>2, HeaderIsRead
  <2>3. CASE Down!ReadBody /\ UNCHANGED sockVars
    BY <1>1, <1>2, <1>3, <2>1, <2>3, BodyIsRead
  <2>4. CASE Sockq!EnqueueCall(Receiver) /\ sNode'[Receiver] = delivered /\ Down!ReadNext
    <3>1. StagesInv' /\ Got' = Got
      BY <1>1, <1>3, <2>1, <2>4, MessageEnters
    <3>2. UNCHANGED <<mutex, sending, sent, wire, buffer>> /\ receiving = "enqueue" /\ receiving' = "header"
      BY <2>4 DEF Down!ReadNext, Down!sendVars
    <3>3. QED
      BY <1>3, <2>1, <3>1, <3>2, StreamIsLeft DEF StreamTyped
  <2>5. QED
    BY <1>10, <2>2, <2>3, <2>4 DEF Receive
<1>11. CASE /\ Running /\ Sockq!Enqueue(Receiver)
            /\ UNCHANGED <<msgqVars, downVars, upVars, link, server, socket, control, user, effects>>
  <2>1. UNCHANGED <<downVars, handled, control>>
    BY <1>11 DEF effects
  <2>2. UNCHANGED <<mutex, sending, sent, wire, receiving, header, buffer, delivered>>
    BY <2>1 DEF downVars
  <2>3. StagesInv' /\ Got' = Got
    BY <1>1, <1>3, <1>11, <2>1, EnqueueMoves
  <2>4. QED
    BY <1>3, <2>1, <2>2, <2>3, StreamIsLeft DEF StreamTyped
<1>12. CASE ServerSends
  <2>1. UNCHANGED <<sockVars, handled, control>>
    BY <1>12 DEF ServerSends, effects
  <2>2. PICK t \in {Playlister, Multicaster}, m \in FromServer : Down!SendLock(t, m)
    <3>1. listed < NumSongs => NewSong(listed + 1) \in FromServer
      BY BoundAssumption DEF ControlInv, FromServer, Songs
    <3>2. \A s \in Songs : Change(s) \in FromServer
      BY DEF FromServer
    <3>3. QED
      BY <1>12, <3>1, <3>2 DEF ServerSends
  <2>3. QED
    BY <1>1, <1>3, <2>1, <2>2, SendingBegins
<1>13. CASE ServerSendsOn
  <2>1. UNCHANGED <<sockVars, handled, control>>
    BY <1>13 DEF ServerSendsOn, effects
  <2>2. PICK t \in {Playlister, Multicaster} : Down!SendPart(t) \/ Down!SendUnlock(t)
    BY <1>13 DEF ServerSendsOn, Down!Send
  <2>3. UNCHANGED <<sMessages, sPc, sNode, sent, receiving, header, delivered>>
    BY <2>1, <2>2 DEF sockVars, Down!SendPart, Down!SendUnlock, Down!receiveVars
  <2>4. Held' = Held /\ Entering' = Entering
    BY <2>1, <2>3 DEF Held, Entering
  <2>5. StagesInv' /\ Got' = Got
    BY <1>3, <2>1, <2>3, <2>4, NothingMoves
  <2>6. QED
    BY <1>2, <1>3, <2>1, <2>2, <2>5, SendingGoesOn, SendingEnds
<1>14. QED
  BY <1>4, <1>5, <1>6, <1>7, <1>8, <1>9, <1>10, <1>11, <1>12, <1>13
     DEF Next, UiThread, ControlThread, ReceiverThread

\* A connection that has just been made carries nothing.
LEMMA InitDownInv == Init => DownInv /\ ControlInv
<1> SUFFICES ASSUME Init PROVE DownInv /\ ControlInv
  OBVIOUS
<1>1. /\ handled = <<>> /\ sMessages = <<>> /\ sent = <<>> /\ wire = <<>> /\ buffer = <<>>
      /\ mutex = NoSender /\ receiving = "header" /\ control = "none" /\ window = "connect" /\ listed = 0
      /\ sending = [t \in {Playlister, Multicaster} |-> <<>>]
      /\ sPc = [t \in {Receiver} \cup {Control} \cup {} |-> "idle"]
      /\ pc = [t \in {Ui} \cup {Control} \cup {} |-> "idle"]
  BY DEF Init, Down!Init, Sockq!Init, Msgq!Init, Sockq!Threads, Msgq!Threads
<1>2. Held = 0 /\ Entering = 0 /\ Read = 0
  BY <1>1 DEF Held, Entering, Read
<1>3. Taken = 0 /\ Inserted = 0 /\ Enqueued = 0 /\ Got = 0
  BY <1>1, <1>2 DEF Taken, Inserted, Enqueued, Got
<1>4. StreamTyped
  BY <1>1 DEF StreamTyped
<1>5. StagesInv
  BY <1>1, <1>2, <1>3 DEF StagesInv
<1>6. SenderInv
  BY <1>1 DEF SenderInv
<1>7. ReaderAt = Pos(1, 0) /\ WriterAt = Pos(1, 0)
  BY <1>1, <1>3 DEF ReaderAt, WriterAt, Unsent
<1> PICK path : path = [i \in 1..1 |-> Pos(1, 0)]
  OBVIOUS
<1>8. IsPath(path)
  BY <1>1, <1>7 DEF IsPath, Pos
<1>9. ControlInv
  BY <1>1 DEF ControlInv
<1>10. QED
  BY <1>4, <1>5, <1>6, <1>8, <1>9 DEF DownInv

-----------------------------------------------------------------------------
\* The requests.  A step that adds none, and takes none out of the queue.
LEMMA NothingAsked ==
    ASSUME UpInv, UNCHANGED <<clicks, upSent, messages, node>>, Asking' <=> Asking, Requesting' => Requesting
    PROVE  UpInv'
BY DEF UpInv, InOrder

\* The window putting a request into msgq keeps the order of the requests.
LEMMA UiEnqueueKeepsUpInv ==
    ASSUME UpInv, Msgq!TypeOK, Msgq!Enqueue(Ui), UNCHANGED <<clicks, upSent, control>>
    PROVE  UpInv'
<1>1. pc \in [{Ui, Control} -> Msgq!Labels]
  BY DEF Msgq!TypeOK, Msgq!Threads
<1>2. messages \in Seq(FromClient)
  BY DEF Msgq!TypeOK
<1>3. CASE Msgq!EnqueueInsert(Ui)
  <2>1. /\ pc[Ui] = "enqInsert" /\ pc'[Ui] = "enqSet" /\ pc'[Control] = pc[Control]
        /\ messages' = Append(messages, node[Ui]) /\ UNCHANGED node
    BY <1>1, <1>3, ThreadAssumption DEF Msgq!EnqueueInsert, Msgq!Goto
  <2>2. Asking /\ ~Asking' /\ (Requesting' <=> Requesting) /\ node[Ui] = clicks
    BY <2>1 DEF Asking, Requesting, UpInv
  <2>3. /\ Len(messages) \in Nat /\ Len(messages') = Len(messages) + 1 /\ messages'[Len(messages) + 1] = clicks
        /\ \A i \in 1..Len(messages) : messages'[i] = messages[i]
    BY <1>2, <2>1, <2>2
  <2>4. ASSUME NEW i \in 1..Len(messages')
        PROVE  /\ messages'[i] \in 1..clicks
               /\ \A j \in 1..(i - 1) : messages'[j] < messages'[i]
    <3>1. CASE i \in 1..Len(messages)
      <4>1. \A j \in 1..(i - 1) : j \in 1..Len(messages)
        BY <2>3, <3>1
      <4>2. QED
        BY <2>3, <3>1, <4>1 DEF UpInv
    <3>2. CASE i = Len(messages) + 1
      <4>1. \A j \in 1..(i - 1) : messages[j] < clicks /\ messages[j] \in 1..clicks /\ messages'[j] = messages[j]
        BY <2>2, <2>3, <3>2 DEF UpInv
      <4>2. 1..Len(messages) # {} => clicks \in 1..clicks
        BY <2>2, <2>3 DEF UpInv
      <4>3. clicks \in 1..clicks
        BY <2>2 DEF UpInv
      <4>4. QED
        BY <2>3, <3>2, <4>1, <4>3
    <3>3. QED
      BY <2>3, <3>1, <3>2
  <2>5. Requesting => \A i \in 1..Len(messages') : node[Control] < messages'[i]
    BY <2>2, <2>3 DEF UpInv
  <2>6. \A i \in 1..Len(upSent) : upSent[i] # Disconnect => \A j \in 1..Len(messages') : upSent[i] < messages'[j]
    BY <2>2, <2>3 DEF UpInv
  <2>7. QED
    BY <2>1, <2>2, <2>4, <2>5, <2>6 DEF UpInv, InOrder
<1>4. CASE Msgq!EnqueueSlot(Ui) \/ Msgq!EnqueueLock(Ui) \/ Msgq!EnqueueSet(Ui)
           \/ Msgq!EnqueueUnlock(Ui) \/ Msgq!EnqueuePost(Ui)
  <2>1. UNCHANGED <<messages, node>>
    BY <1>4 DEF Msgq!EnqueueSlot, Msgq!EnqueueLock, Msgq!EnqueueSet, Msgq!EnqueueUnlock, Msgq!EnqueuePost,
                Msgq!TakeSlot, Msgq!Lock, Msgq!Unlock
  <2>2. PICK from, to : /\ Msgq!Goto(Ui, from, to)
                        /\ from \in {"enqSlot", "enqLock", "enqInsert"} <=> to \in {"enqSlot", "enqLock", "enqInsert"}
    BY <1>4 DEF Msgq!EnqueueSlot, Msgq!EnqueueLock, Msgq!EnqueueSet, Msgq!EnqueueUnlock, Msgq!EnqueuePost,
                Msgq!TakeSlot, Msgq!Lock, Msgq!Unlock
  <2>3. pc[Ui] = from /\ pc'[Ui] = to /\ pc'[Control] = pc[Control]
    BY <1>1, <2>2, ThreadAssumption DEF Msgq!Goto
  <2>4. (Asking' <=> Asking) /\ (Requesting' => Requesting)
    BY <2>2, <2>3 DEF Asking, Requesting
  <2>5. QED
    BY <2>1, <2>4, NothingAsked
<1>5. QED
  BY <1>3, <1>4 DEF Msgq!Enqueue

\* The control thread taking a request out of msgq keeps the order of the requests.
LEMMA ControlDequeueKeepsUpInv ==
    ASSUME UpInv, Msgq!TypeOK, Msgq!NeverPopsEmpty, ControlInv, Msgq!Dequeue(Control),
           UNCHANGED <<clicks, upSent, control>>
    PROVE  UpInv'
<1>1. /\ pc \in [{Ui, Control} -> Msgq!Labels] /\ messages \in Seq(FromClient)
      /\ node \in [{Ui, Control} -> FromClient \cup {NoMessage}]
  BY DEF Msgq!TypeOK, Msgq!Threads
<1>2. CASE Msgq!DequeuePop(Control)
  <2>1. pc[Control] = "deqPop" /\ pc'[Control] = "deqReset" /\ pc'[Ui] = pc[Ui]
    BY <1>1, <1>2, ThreadAssumption DEF Msgq!DequeuePop, Msgq!Goto
  <2>2. messages # <<>> /\ control = "request"
    BY <2>1 DEF Msgq!NeverPopsEmpty, Msgq!Threads, ControlInv
  <2>3. messages' = Tail(messages) /\ node'[Control] = Head(messages) /\ node'[Ui] = node[Ui]
    BY <1>1, <1>2, <2>2, ThreadAssumption DEF Msgq!DequeuePop, Msgq!Popped, Msgq!Oldest
  <2>4. /\ Len(messages) \in Nat \ {0} /\ Len(messages') = Len(messages) - 1 /\ node'[Control] = messages[1]
        /\ \A i \in 1..Len(messages') : messages'[i] = messages[i + 1] /\ i + 1 \in 1..Len(messages)
    BY <1>1, <2>2, <2>3
  <2>5. (Asking' <=> Asking) /\ Requesting'
    BY <2>1, <2>2 DEF Asking, Requesting
  <2>6. 1 \in 1..Len(messages)
    BY <2>4
  <2>7. \A i \in 1..Len(messages') : messages[1] < messages'[i]
    <3>1. TAKE i \in 1..Len(messages')
    <3>2. i + 1 \in 1..Len(messages) /\ 1 \in 1..((i + 1) - 1)
      BY <2>4
    <3>3. QED
      BY <2>4, <3>2 DEF UpInv
  <2>8. ASSUME NEW i \in 1..Len(messages')
        PROVE  /\ messages'[i] \in 1..clicks
               /\ Asking' => messages'[i] < clicks
               /\ \A j \in 1..(i - 1) : messages'[j] < messages'[i]
    <3>1. i + 1 \in 1..Len(messages) /\ messages'[i] = messages[i + 1]
      BY <2>4
    <3>2. \A j \in 1..(i - 1) : j \in 1..Len(messages') /\ j + 1 \in 1..((i + 1) - 1)
      BY <2>4
    <3>3. \A j \in 1..(i - 1) : messages[j + 1] < messages[i + 1]
      BY <3>1, <3>2 DEF UpInv
    <3>4. QED
      BY <2>4, <2>5, <3>1, <3>2, <3>3 DEF UpInv
  <2>9. /\ node'[Control] \in 1..clicks
        /\ Asking' => node'[Control] < clicks
        /\ \A i \in 1..Len(messages') : node'[Control] < messages'[i]
    BY <2>4, <2>5, <2>6, <2>7 DEF UpInv
  <2>10. \A i \in 1..Len(upSent) : upSent[i] # Disconnect =>
            /\ upSent[i] <= clicks
            /\ Asking' => upSent[i] < clicks
            /\ upSent[i] < node'[Control]
            /\ \A j \in 1..Len(messages') : upSent[i] < messages'[j]
    BY <2>4, <2>5, <2>6 DEF UpInv
  <2>11. QED
    BY <2>3, <2>5, <2>8, <2>9, <2>10 DEF UpInv, InOrder
<1>3. CASE Msgq!DequeueToken(Control) \/ Msgq!DequeueLock(Control) \/ Msgq!DequeueReset(Control)
           \/ Msgq!DequeueUnlock(Control) \/ Msgq!DequeuePost(Control)
  <2>1. UNCHANGED <<messages, node>>
    BY <1>3 DEF Msgq!DequeueToken, Msgq!DequeueLock, Msgq!DequeueReset, Msgq!DequeueUnlock, Msgq!DequeuePost,
                Msgq!TakeToken, Msgq!Lock, Msgq!Unlock, Msgq!FreeSlot
  <2>2. PICK from, to : /\ Msgq!Goto(Control, from, to)
                        /\ from \in {"idle", "deqReset", "deqUnlock", "deqPost"}
                              <=> to \in {"idle", "deqReset", "deqUnlock", "deqPost"}
    BY <1>3 DEF Msgq!DequeueToken, Msgq!DequeueLock, Msgq!DequeueReset, Msgq!DequeueUnlock, Msgq!DequeuePost,
                Msgq!TakeToken, Msgq!Lock, Msgq!Unlock, Msgq!FreeSlot
  <2>3. pc[Control] = from /\ pc'[Control] = to /\ pc'[Ui] = pc[Ui]
    BY <1>1, <2>2, ThreadAssumption DEF Msgq!Goto
  <2>4. (Asking' <=> Asking) /\ (Requesting' => Requesting)
    BY <2>2, <2>3 DEF Asking, Requesting
  <2>5. QED
    BY <2>1, <2>4, NothingAsked
<1>4. QED
  BY <1>2, <1>3 DEF Msgq!Dequeue

\* A click has the highest number so far.
LEMMA ClickKeepsUpInv == ASSUME UpInv, Msgq!TypeOK, onClick PROVE UpInv'
<1>1. /\ pc \in [{Ui, Control} -> Msgq!Labels]
      /\ node \in [{Ui, Control} -> FromClient \cup {NoMessage}]
  BY DEF Msgq!TypeOK, Msgq!Threads
<1>2. PICK m : node' = [node EXCEPT ![Ui] = m]
  BY DEF onClick, Msgq!EnqueueCall
<1>3. /\ pc[Ui] = "idle" /\ pc'[Ui] = "enqSlot" /\ pc'[Control] = pc[Control]
      /\ node'[Ui] = clicks' /\ clicks' = clicks + 1
      /\ UNCHANGED <<messages, upSent, control>>
  BY <1>1, ThreadAssumption DEF onClick, UiIsIdle, Msgq!EnqueueCall, Msgq!Goto, upVars
<1>4. node'[Control] = node[Control]
  BY <1>1, <1>2, ThreadAssumption
<1>5. Asking' /\ (Requesting' <=> Requesting)
  BY <1>3 DEF Asking, Requesting
<1>6. clicks \in Nat /\ clicks < clicks'
  BY <1>3 DEF UpInv
<1>7. \A i \in 1..Len(messages) : /\ messages[i] \in 1..clicks' /\ messages[i] < clicks'
                                  /\ \A j \in 1..(i - 1) : messages[j] < messages[i]
  BY <1>3, <1>6 DEF UpInv
<1>8. Requesting => /\ node[Control] \in 1..clicks' /\ node[Control] < clicks'
                    /\ \A i \in 1..Len(messages) : node[Control] < messages[i]
  BY <1>3, <1>6 DEF UpInv
<1>9. \A i \in 1..Len(upSent) : upSent[i] # Disconnect =>
         /\ upSent[i] <= clicks' /\ upSent[i] < clicks'
         /\ Requesting => upSent[i] < node[Control]
         /\ \A j \in 1..Len(messages) : upSent[i] < messages[j]
  <2>1. \A i \in 1..Len(upSent) : upSent[i] # Disconnect => upSent[i] \in Nat
    BY DEF UpInv
  <2>2. QED
    BY <1>3, <1>6, <2>1 DEF UpInv
<1>10. QED
  BY <1>3, <1>4, <1>5, <1>6, <1>7, <1>8, <1>9 DEF UpInv, InOrder

\* What is sent comes after what has been sent.
LEMMA RequestIsSent ==
    ASSUME UpInv, Requesting, ~Requesting', upSent' = Append(upSent, node[Control]),
           UNCHANGED <<clicks, messages, node, pc>>
    PROVE  UpInv'
<1> PICK r : r = node[Control]
  OBVIOUS
<1>1. clicks \in Nat /\ r \in 1..clicks
  BY DEF UpInv
<1>2. /\ upSent' \in Seq(Nat \cup {Disconnect}) /\ Len(upSent) \in Nat /\ Len(upSent') = Len(upSent) + 1
      /\ upSent'[Len(upSent) + 1] = r /\ \A i \in 1..Len(upSent) : upSent'[i] = upSent[i]
  BY <1>1 DEF UpInv
<1>3. Asking' <=> Asking
  BY DEF Asking
<1>4. \A i \in 1..Len(upSent) : upSent[i] # Disconnect =>
         /\ upSent[i] \in Nat /\ upSent[i] <= clicks /\ (Asking => upSent[i] < clicks) /\ upSent[i] < r
         /\ \A j \in 1..Len(messages) : upSent[i] < messages[j]
  BY DEF UpInv
<1>5. \A i \in 1..Len(upSent') : upSent'[i] # Disconnect =>
         /\ upSent'[i] <= clicks /\ (Asking => upSent'[i] < clicks)
         /\ \A j \in 1..Len(messages) : upSent'[i] < messages[j]
  <2>1. TAKE i \in 1..Len(upSent')
  <2>2. CASE i \in 1..Len(upSent)
    BY <1>2, <1>4, <2>2
  <2>3. CASE i = Len(upSent) + 1
    BY <1>1, <1>2, <2>3 DEF UpInv
  <2>4. QED
    BY <1>2, <2>2, <2>3
<1>6. InOrder(upSent')
  <2>1. ASSUME NEW i \in DOMAIN upSent', NEW j \in DOMAIN upSent', i < j, Disconnect \notin {upSent'[i], upSent'[j]}
        PROVE  upSent'[i] < upSent'[j]
    <3>1. i \in 1..Len(upSent) /\ upSent'[i] = upSent[i] /\ upSent[i] # Disconnect
      BY <1>2, <2>1
    <3>2. CASE j \in 1..Len(upSent)
      BY <1>2, <2>1, <3>1, <3>2 DEF UpInv, InOrder
    <3>3. CASE j = Len(upSent) + 1
      BY <1>2, <1>4, <3>1, <3>3
    <3>4. QED
      BY <1>2, <3>2, <3>3
  <2>2. QED
    BY <2>1 DEF InOrder
<1>7. QED
  BY <1>2, <1>3, <1>5, <1>6 DEF UpInv

\* Saying goodbye is no request.
LEMMA GoodbyeIsSent ==
    ASSUME UpInv, upSent' = Append(upSent, Disconnect), UNCHANGED <<clicks, messages, node, pc, control>>
    PROVE  UpInv'
<1>1. (Asking' <=> Asking) /\ (Requesting' <=> Requesting)
  BY DEF Asking, Requesting
<1>2. /\ upSent' \in Seq(Nat \cup {Disconnect}) /\ Len(upSent) \in Nat /\ Len(upSent') = Len(upSent) + 1
      /\ upSent'[Len(upSent) + 1] = Disconnect /\ \A i \in 1..Len(upSent) : upSent'[i] = upSent[i]
  BY DEF UpInv
<1>3. \A i \in 1..Len(upSent') : upSent'[i] # Disconnect => i \in 1..Len(upSent) /\ upSent'[i] = upSent[i]
  BY <1>2
<1>4. InOrder(upSent')
  BY <1>2, <1>3 DEF UpInv, InOrder
<1>5. \A i \in 1..Len(upSent') : upSent'[i] # Disconnect =>
          /\ upSent'[i] <= clicks
          /\ Asking => upSent'[i] < clicks
          /\ Requesting => upSent'[i] < node[Control]
          /\ \A j \in 1..Len(messages) : upSent'[i] < messages[j]
  BY <1>3 DEF UpInv
<1>6. QED
  BY <1>1, <1>2, <1>4, <1>5 DEF UpInv

\* No step of the client or the server brings a request before an older one.
LEMMA NextUpInv == QueuesSafe /\ ControlInv /\ UpInv /\ [Next]_vars => UpInv'
<1> SUFFICES ASSUME QueuesSafe, ControlInv, UpInv, [Next]_vars PROVE UpInv'
  OBVIOUS
<1>1. Msgq!TypeOK /\ Msgq!NeverPopsEmpty
  BY DEF QueuesSafe
<1>2. ASSUME UNCHANGED <<clicks, upSent, msgqVars>>, control' = "request" => control = "request" PROVE UpInv'
  <2>1. UNCHANGED <<clicks, upSent, messages, node, pc>>
    BY <1>2 DEF msgqVars
  <2>2. (Asking' <=> Asking) /\ (Requesting' => Requesting)
    BY <1>2, <2>1 DEF Asking, Requesting
  <2>3. QED
    BY <2>1, <2>2, NothingAsked
<1>3. CASE UNCHANGED vars
  BY <1>2, <1>3 DEF vars, user, upVars
<1>4. CASE connect \/ Connected \/ _handleSockMsgqMsg \/ WindowAnswers \/ PlayerReturns \/ Receive
           \/ ServerSends \/ ServerSendsOn \/ ServerCloses
  <2>1. UNCHANGED <<clicks, upSent, msgqVars>>
    BY <1>4 DEF connect, Connected, _handleSockMsgqMsg, WindowAnswers, PlayerReturns, Receive,
                ServerSends, ServerSendsOn, ServerCloses, user, upVars
  <2>2. control' # "request" \/ control' = control
    BY <1>4 DEF connect, Connected, _handleSockMsgqMsg, onNewSong, onChangeStream, WindowAnswers, PlayerReturns, Receive,
                ServerSends, ServerSendsOn, ServerCloses
  <2>3. QED
    BY <1>2, <2>1, <2>2
<1>5. CASE /\ Running /\ Sockq!Enqueue(Receiver)
           /\ UNCHANGED <<msgqVars, downVars, upVars, link, server, socket, control, user, effects>>
  BY <1>2, <1>5 DEF user, upVars
<1>6. CASE UiSends \/ ControlSends
  <2>1. UNCHANGED <<clicks, upSent, msgqVars>>
    BY <1>6 DEF UiSends, ControlSends, Up!SendPart, Up!SendUnlock, user
  <2>2. control' # "request" \/ control' = control
    BY <1>6 DEF UiSends, ControlSends
  <2>3. QED
    BY <1>2, <2>1, <2>2
<1>7. CASE onClick
  BY <1>1, <1>7, ClickKeepsUpInv
<1>8. CASE UiEnqueues
  <2>1. Msgq!Enqueue(Ui) /\ UNCHANGED <<clicks, upSent, control>>
    BY <1>8 DEF UiEnqueues, user, upVars
  <2>2. QED
    BY <1>1, <2>1, UiEnqueueKeepsUpInv
<1>9. CASE onClose
  <2>1. UNCHANGED <<clicks, msgqVars, control>>
    BY <1>9 DEF onClose
  <2>2. UNCHANGED upSent \/ upSent' = Append(upSent, Disconnect)
    BY <1>9 DEF onClose, upVars, Up!SendLock
  <2>3. CASE UNCHANGED upSent
    BY <1>2, <2>1, <2>3
  <2>4. CASE upSent' = Append(upSent, Disconnect)
    BY <2>1, <2>4, GoodbyeIsSent DEF msgqVars
  <2>5. QED
    BY <2>2, <2>3, <2>4
<1>10. CASE Wait
  <2>1. UNCHANGED <<clicks, upSent>> /\ control = "wait"
    BY <1>10 DEF Wait, user, upVars
  <2>2. CASE UNCHANGED msgqVars /\ control' = "message"
    BY <1>2, <2>1, <2>2
  <2>3. CASE Msgq!DequeueCall(Control)
    <3>1. UNCHANGED <<messages, node>> /\ pc'[Control] = "deqToken" /\ pc'[Ui] = pc[Ui]
      BY <1>1, <2>3, ThreadAssumption DEF Msgq!DequeueCall, Msgq!Goto, Msgq!TypeOK, Msgq!Threads
    <3>2. (Asking' <=> Asking) /\ ~Requesting'
      BY <3>1 DEF Asking, Requesting
    <3>3. QED
      BY <2>1, <3>1, <3>2, NothingAsked
  <2>4. QED
    BY <1>10, <2>2, <2>3 DEF Wait
<1>11. CASE Dequeues
  <2>1. UNCHANGED <<clicks, upSent, control>>
    BY <1>11 DEF Dequeues, user, upVars
  <2>2. CASE UNCHANGED msgqVars
    BY <1>2, <2>1, <2>2
  <2>3. CASE Msgq!Dequeue(Control)
    BY <1>1, <2>1, <2>3, ControlDequeueKeepsUpInv
  <2>4. QED
    BY <1>11, <2>2, <2>3 DEF Dequeues
<1>12. CASE _handleMsgqMsg
  <2>1. UNCHANGED <<clicks, messages, node, pc>> /\ UNCHANGED msgqVars /\ control = "request" /\ pc[Control] = "idle"
    BY <1>12 DEF _handleMsgqMsg, user, msgqVars
  <2>2. control' # "request" /\ (UNCHANGED upSent \/ upSent' = Append(upSent, node[Control]))
    BY <1>12 DEF _handleMsgqMsg, upVars, Up!SendLock
  <2>3. CASE UNCHANGED upSent
    BY <1>2, <2>1, <2>2, <2>3
  <2>4. CASE upSent' = Append(upSent, node[Control])
    <3>1. Requesting /\ ~Requesting'
      BY <2>1, <2>2 DEF Requesting
    <3>2. QED
      BY <2>1, <2>4, <3>1, RequestIsSent
  <2>5. QED
    BY <2>2, <2>3, <2>4
<1>13. QED
  BY <1>3, <1>4, <1>5, <1>6, <1>7, <1>8, <1>9, <1>10, <1>11, <1>12
     DEF Next, UiThread, ControlThread, ReceiverThread

\* Before the first click nothing is on its way to the server.
LEMMA InitUpInv == Init => UpInv
<1> SUFFICES ASSUME Init PROVE UpInv
  OBVIOUS
<1>1. /\ clicks = 0 /\ upSent = <<>> /\ messages = <<>> /\ control = "none"
      /\ pc = [t \in {Ui} \cup {Control} \cup {} |-> "idle"]
  BY DEF Init, Msgq!Init, Msgq!Threads
<1>2. ~Asking /\ ~Requesting
  BY <1>1 DEF Asking, Requesting
<1>3. QED
  BY <1>1, <1>2 DEF UpInv, InOrder

-----------------------------------------------------------------------------
\* What the control thread acts on is a prefix of what the threads of the server sent,
\* and requests go out in the order of the clicks: through mutex, frames, bytes and
\* queue, for any number of songs, announcements and clicks and queues of any
\* capacity.  Reads must be whole: the code takes a short one for whole, and then
\* this is false.
THEOREM OrderIsAlwaysKept ==
    ASSUME ShortReads = FALSE
    PROVE  Spec => []OrderIsKept
<1>1. ASSUME DownInv, UpInv, QueuesSafe PROVE OrderIsKept
  <2>1. ASSUME ~closed PROVE IsPrefix(handled, sent)
    <3>1. StreamTyped /\ StagesInv
      BY <1>1, <2>1 DEF DownInv
    <3>2. Held \in {0, 1} /\ Entering \in {0, 1} /\ Read \in {0, 1}
      BY DEF Held, Entering, Read
    <3>3. Len(handled) <= Len(sent)
      <4>1. Got <= Len(sent)
        BY <3>1 DEF StagesInv
      <4>2. Len(handled) \in Nat /\ Len(sMessages) \in Nat /\ Len(sent) \in Nat
        BY <1>1, <3>1 DEF StreamTyped, QueuesSafe, Sockq!TypeOK
      <4>3. QED
        BY <3>2, <4>1, <4>2 DEF Taken, Inserted, Enqueued, Got
    <3>4. QED
      BY <3>1, <3>3, AgreeingIsPrefix DEF StreamTyped, StagesInv
  <2>2. QED
    BY <1>1, <2>1 DEF OrderIsKept, UpInv
<1>2. QED
  BY <1>1, InitDownInv, InitUpInv, NextControlInv, NextDownInv, NextUpInv, QueuesAreSafe, PTL DEF Spec
=============================================================================
