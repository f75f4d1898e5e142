------------------------------- MODULE Accept -------------------------------
(***************************************************************************)
(* Server/Server: the accept thread puts the socket of the next client     *)
(* into TCPConnections and sets an event; the worker thread counts it,     *)
(* makes room for one more and calls the handler.  The two share the       *)
(* array and the count without a lock.                                     *)
(*                                                                         *)
(* The array is a sequence with one slot more than clients were counted.   *)
(* realloc may move it, and what is stored outside of it is lost.          *)
(***************************************************************************)
EXTENDS Naturals, Sequences

CONSTANTS Clients, NoSocket,
          Apart,       \* does a client come only when the one before has its room
          TargetFirst, \* does the compiler compute where to store before it calls accept
          Stops        \* when the server is stopped: "never", "ever" or "at rest", while no client comes

VARIABLES listening,            \* listenSocket: open, closed, or closed and the connections being closed
          acceptor, accepted,   \* what the accept thread does, with which socket
          target, stale,        \* the slot it will store the socket in, and has the array moved since
          arrived,              \* history: the clients that accept has returned
          TCPConnections, numTCPConnections,
          newConnectionEvent,
          accepting,            \* what the worker thread does
          handled               \* history: the sockets the handler was called with

acceptVars == <<acceptor, accepted, arrived, listening>>
targetVars == <<target, stale>>
table      == <<TCPConnections, numTCPConnections>>
vars       == <<acceptVars, targetVars, table, newConnectionEvent, accepting, handled>>

NoSlot == 0
NextSlot == numTCPConnections + 1

Init ==
    /\ TCPConnections = <<NoSocket>> /\ numTCPConnections = 0
    /\ listening = "open"
    /\ acceptor = "accept" /\ accepted = NoSocket /\ arrived = {}
    /\ target = (IF TargetFirst THEN NextSlot ELSE NoSlot) /\ stale = FALSE
    /\ newConnectionEvent = FALSE
    /\ accepting = "wait" /\ handled = <<>>

-----------------------------------------------------------------------------
AcceptorGoto(from, to) == acceptor = from /\ acceptor' = to

\* accept returns a socket.
Accept(c) ==
    /\ AcceptorGoto("accept", "store")
    /\ listening = "open"
    /\ c \notin arrived
    /\ Apart => ~newConnectionEvent /\ accepting \in {"wait", "handle"}
    /\ accepted' = c
    /\ arrived' = arrived \cup {c}
    /\ target' = IF TargetFirst THEN target ELSE NextSlot
    /\ UNCHANGED <<listening, stale, table, newConnectionEvent, accepting, handled>>

\* accept fails.
AcceptEnds ==
    /\ AcceptorGoto("accept", "ended")
    /\ listening # "open"
    /\ target' = NoSlot /\ stale' = FALSE
    /\ UNCHANGED <<accepted, arrived, listening, table, newConnectionEvent, accepting, handled>>

Store ==
    /\ AcceptorGoto("store", "event")
    /\ TCPConnections' = IF ~stale /\ target \in DOMAIN TCPConnections
                         THEN [TCPConnections EXCEPT ![target] = accepted]
                         ELSE TCPConnections
    /\ accepted' = NoSocket
    /\ target' = NoSlot /\ stale' = FALSE
    /\ UNCHANGED <<arrived, listening, numTCPConnections, newConnectionEvent, accepting, handled>>

SetEvent ==
    /\ AcceptorGoto("event", "accept")
    /\ newConnectionEvent' = TRUE
    /\ target' = IF TargetFirst THEN NextSlot ELSE NoSlot
    /\ UNCHANGED <<accepted, stale, arrived, listening, table, accepting, handled>>

AcceptThread == Store \/ SetEvent \/ AcceptEnds

-----------------------------------------------------------------------------
WorkerGoto(from, to) == accepting = from /\ accepting' = to

Wake ==
    /\ WorkerGoto("wait", "reset")
    /\ newConnectionEvent
    /\ UNCHANGED <<acceptVars, targetVars, table, newConnectionEvent, handled>>

ResetEvent ==
    /\ WorkerGoto("reset", "count")
    /\ newConnectionEvent' = FALSE
    /\ UNCHANGED <<acceptVars, targetVars, table, handled>>

CountConnection ==
    /\ WorkerGoto("count", "grow")
    /\ numTCPConnections' = numTCPConnections + 1
    /\ UNCHANGED <<acceptVars, targetVars, TCPConnections, newConnectionEvent, handled>>

\* realloc to what is counted now, and memset of the new slot.
Grow ==
    /\ WorkerGoto("grow", "handle")
    /\ stale' \in IF target = NoSlot THEN {FALSE} ELSE {stale, TRUE}
    /\ TCPConnections' = Append(SubSeq(TCPConnections, 1, numTCPConnections), NoSocket)
    /\ UNCHANGED <<acceptVars, target, numTCPConnections, newConnectionEvent, handled>>

\* The slot before the first one holds no client's socket.
Slot(n) == IF n \in DOMAIN TCPConnections THEN TCPConnections[n] ELSE NoSocket

\* Mutant: the handler gets the slot of the next client.
HandleNext(s) ==
    /\ WorkerGoto("handle", "wait")
    /\ s = Slot(numTCPConnections + 1)
    /\ handled' = Append(handled, s)
    /\ UNCHANGED <<acceptVars, targetVars, table, newConnectionEvent>>

\* The handler is called with a socket.
Handle(s) ==
    /\ WorkerGoto("handle", "wait")
    /\ s = Slot(numTCPConnections)
    /\ handled' = Append(handled, s)
    /\ UNCHANGED <<acceptVars, targetVars, table, newConnectionEvent>>

Prepare == Wake \/ ResetEvent \/ CountConnection \/ Grow
WorkerThread == Prepare \/ \E s \in Clients \cup {NoSocket} : Handle(s)

-----------------------------------------------------------------------------
\* No client is between accept and the handler.
AtRest == acceptor \in {"accept", "ended"} /\ accepting = "wait" /\ ~newConnectionEvent

\* disconnect, called by the window: it closes what is counted, and forgets it.
CloseSockets(S) ==
    /\ listening = "open" /\ listening' = "closing"
    /\ Stops # "never" /\ (Stops = "at rest" => AtRest)
    /\ S = {TCPConnections[i] : i \in 1..numTCPConnections}
    /\ UNCHANGED <<acceptor, accepted, arrived, targetVars, table, newConnectionEvent, accepting, handled>>

ForgetSockets ==
    /\ listening = "closing" /\ listening' = "closed"
    /\ numTCPConnections' = 0
    /\ UNCHANGED <<acceptor, accepted, arrived, targetVars, TCPConnections, newConnectionEvent, accepting, handled>>

disconnect == ForgetSockets \/ \E S \in SUBSET (Clients \cup {NoSocket}) : CloseSockets(S)

\* A new Server, and its startTCP.  The threads of the old one have come to rest.
startTCP ==
    /\ listening = "closed" /\ listening' = "open"
    /\ AtRest /\ acceptor = "ended" /\ acceptor' = "accept"
    /\ TCPConnections' = <<NoSocket>> /\ numTCPConnections' = 0
    /\ target' = (IF TargetFirst THEN 1 ELSE NoSlot) /\ stale' = FALSE
    /\ UNCHANGED <<accepted, arrived, newConnectionEvent, accepting, handled>>

Next == AcceptThread \/ WorkerThread \/ disconnect \/ \E c \in Clients : Accept(c)

Spec     == Init /\ [][Next]_vars
FairSpec == Spec /\ WF_vars(AcceptThread) /\ WF_vars(WorkerThread)

-----------------------------------------------------------------------------
\* The handler was called with clients only, with none of them twice.
HandledOnce == \A i, j \in DOMAIN handled : handled[i] \in Clients /\ (handled[i] = handled[j] => i = j)

\* When it is to be called again, the slot holds a client, and one that it has not had.
NextIsNew ==
    LET s == Slot(numTCPConnections)
    IN  accepting = "handle" => s \in Clients /\ \A i \in DOMAIN handled : handled[i] # s

\* Every client that accept returned gets to the handler, once, and the handler is
\* called with nothing else: no slot is used twice or left empty, and no event
\* stands for two clients.
ClientsAreHandled ==
    /\ [](HandledOnce /\ NextIsNew)
    /\ \A c \in Clients : c \in arrived ~> \E i \in DOMAIN handled : handled[i] = c
=============================================================================
