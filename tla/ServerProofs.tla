----------------------------- MODULE ServerProofs -----------------------------
(***************************************************************************)
(* The server, from accept to the song, for any number of clients, senders *)
(* and requests, stopped and started again or not: the control thread      *)
(* serves the client whose queue was signalled, and packets of two songs   *)
(* are sent at once only if the stop of one of them was lost.              *)
(* And the handler of a new connection gets each client at most once, as   *)
(* long as clients come one after another.                                 *)
(***************************************************************************)
EXTENDS Server, TLAPS

\* All that neither the accept thread, nor the worker before the handler, nor
\* the window touches.
Core == <<net, lists, adder, ctl, stream, sending, currentsong, lastSong>>

\* What a step of the whole server is for the threads that serve clients and
\* send songs.
LEMMA StepIsInnerOrOuter ==
    ASSUME [ServerNext]_<<vars, accepts>>
    PROVE  Work \/ (\E c \in Clients : AddLock(c)) \/ UNCHANGED Core
<1>1. CASE UNCHANGED <<vars, accepts>>
  BY <1>1 DEF vars, Core
<1>2. CASE Arrive \/ AcceptThread \/ Prepare
  BY <1>2 DEF Arrive, AcceptThread, Prepare, vars, Core
<1>3. CASE newConnHandler
  BY <1>3 DEF newConnHandler
<1>4. CASE toggleConnection
  BY <1>4 DEF toggleConnection, disconnect, setPlaylist, startTCP, startTCPFails, setUDPSocket, Others, Core
<1>5. CASE Work
  BY <1>5
<1>6. QED
  BY <1>1, <1>2, <1>3, <1>4, <1>5 DEF ServerNext

\* Such a step leaves the socket, or the window has started the server again.
LEMMA UdpSocketIsOfTheWindow ==
    ASSUME [ServerNext]_<<vars, accepts>>, UNCHANGED Core
    PROVE  udpSocket' \in {udpSocket, "next"}
<1>1. CASE UNCHANGED <<vars, accepts>>
  BY <1>1 DEF vars, site
<1>2. CASE Arrive \/ AcceptThread \/ Prepare
  BY <1>2 DEF Arrive, AcceptThread, Prepare, vars, site
<1>3. CASE newConnHandler
  BY <1>3 DEF newConnHandler, AddLock, site
<1>4. CASE toggleConnection
  BY <1>4 DEF toggleConnection, disconnect, setPlaylist, startTCP, startTCPFails, setUDPSocket, Others
<1>5. CASE Work
  <2>1. CASE addConnection
    BY <2>1 DEF addConnection, AddSock, AddHandle, AddApc, AddRead, AddSend, site
  <2>2. CASE _threadRoutine
    BY <2>2 DEF _threadRoutine, Wait, Wake, Dequeue, Disconnect, Join, Create, ApcPlaylist, ApcSend, site
  <2>3. CASE \E c \in Clients : Request(c)
    BY <2>3 DEF Request, site
  <2>4. CASE \E t \in Senders : sendWave(t)
    BY <2>4 DEF sendWave, SetCurrent, CopySocks, Open, TellNext, ToldAll, SendEnds, SenderGoto, site
  <2>5. QED
    BY <1>5, <2>1, <2>2, <2>3, <2>4 DEF Work
<1>6. QED
  BY <1>1, <1>2, <1>3, <1>4, <1>5 DEF ServerNext

-----------------------------------------------------------------------------
(***************************************************************************)
(* Songs overlap only after a lost stop.  A thread that is busy and not    *)
(* the last that was created has lost its stop; while the last is waited   *)
(* for, it sends under a flag that is set, or has lost its stop too.       *)
(***************************************************************************)
Busy == {"start", "copy", "open", "tell", "send"}

SongTyped ==
    /\ sender \in [Senders -> Busy \cup {"none", "done", "failed"}]
    /\ via \in [Senders -> Sockets] /\ udpSocket \in Sockets
    /\ stopSending \in [Sockets -> BOOLEAN]
    /\ lost \subseteq Senders

OthersAreLost == \A t \in Senders : sender[t] \in Busy => t = multicastThread \/ t \in lost

StopIsSeenOrLost ==
    control = "join" =>
        \A t \in Senders : t = multicastThread /\ sender[t] \in {"tell", "send"} => stopSending[via[t]] \/ t \in lost

LastIsLost == control = "create" => \A t \in Senders : sender[t] \in Busy => t \in lost

SongInv == SongTyped /\ OthersAreLost /\ StopIsSeenOrLost /\ LastIsLost

\* A sender gets on.  When it opens its file it clears the flag, and the thread
\* that is being waited for with that socket is lost.
LEMMA SenderKeepsSongInv ==
    ASSUME SongInv, NEW t \in Senders, sendWave(t)
    PROVE  SongInv'
<1>1. sender[t] \in Busy /\ UNCHANGED <<control, multicastThread, udpSocket>>
  BY DEF sendWave, SetCurrent, CopySocks, Open, TellNext, ToldAll, SendEnds, SenderGoto, Busy, ctl, site
<1>2. CASE SetCurrent(t)
  BY <1>1, <1>2 DEF SetCurrent, SenderGoto, SongInv, SongTyped, OthersAreLost, StopIsSeenOrLost, LastIsLost, Busy
<1>3. CASE CopySocks(t)
  BY <1>1, <1>3 DEF CopySocks, SenderGoto, SongInv, SongTyped, OthersAreLost, StopIsSeenOrLost, LastIsLost, Busy
<1>4. CASE Open(t)
  <2>1. /\ \E to \in {"tell", "failed"} : sender' = [sender EXCEPT ![t] = to]
        /\ stopSending' = [stopSending EXCEPT ![via[t]] = FALSE] /\ via' = via
        /\ lost' = lost \cup {u \in Senders : control = "join" /\ u = multicastThread /\ via[u] = via[t]}
    BY <1>4 DEF Open, SenderGoto
  <2>2. SongTyped' /\ OthersAreLost' /\ LastIsLost'
    BY <1>1, <2>1 DEF SongInv, SongTyped, OthersAreLost, LastIsLost, Busy
  <2>3. StopIsSeenOrLost'
    BY <1>1, <2>1 DEF SongInv, SongTyped, StopIsSeenOrLost
  <2>4. QED
    BY <2>2, <2>3 DEF SongInv
<1>5. CASE TellNext(t) \/ ToldAll(t)
  BY <1>1, <1>5 DEF TellNext, ToldAll, SenderGoto, SongInv, SongTyped, OthersAreLost, StopIsSeenOrLost, LastIsLost, Busy
<1>6. CASE SendEnds(t)
  BY <1>1, <1>6 DEF SendEnds, SenderGoto, SongInv, SongTyped, OthersAreLost, StopIsSeenOrLost, LastIsLost, Busy
<1>7. QED
  BY <1>2, <1>3, <1>4, <1>5, <1>6 DEF sendWave

\* A change sets the flag, waits, and creates the next thread.
LEMMA ControlKeepsSongInv ==
    ASSUME SongInv, _threadRoutine
    PROVE  SongInv'
<1>1. CASE Dequeue
  <2>1. UNCHANGED <<sender, via, multicastThread, udpSocket>> /\ control = "dequeue"
    BY <1>1 DEF Dequeue, site
  <2>2. CASE control' = "join" /\ stopSending' = [stopSending EXCEPT ![udpSocket] = TRUE]
             /\ lost' = lost \cup {t \in Senders : t = multicastThread /\ via[t] # udpSocket}
    BY <2>1, <2>2 DEF SongInv, SongTyped, OthersAreLost, StopIsSeenOrLost, LastIsLost
  <2>3. CASE control' = "disconnect" /\ UNCHANGED <<stopSending, lost>>
    BY <2>1, <2>3 DEF SongInv, SongTyped, OthersAreLost, StopIsSeenOrLost, LastIsLost
  <2>4. QED
    BY <1>1, <2>2, <2>3 DEF Dequeue
<1>2. CASE Join
  <2>1. /\ control = "join" /\ control' = "create"
        /\ UNCHANGED <<sender, via, multicastThread, udpSocket, stopSending>>
    BY <1>2 DEF Join, ControlGoto, stream, site
  <2>2. /\ \A t \in Senders : t = multicastThread => ~(sender[t] = "send" /\ stopSending[via[t]])
        /\ lost' = lost \cup {t \in Senders : t = multicastThread /\ sender[t] \in {"start", "copy", "open", "tell"}}
    BY <1>2 DEF Join
  <2>3. SongTyped' /\ OthersAreLost' /\ StopIsSeenOrLost'
    BY <2>1, <2>2 DEF SongInv, SongTyped, OthersAreLost, StopIsSeenOrLost
  <2>4. LastIsLost'
    BY <2>1, <2>2 DEF SongInv, OthersAreLost, StopIsSeenOrLost, LastIsLost, Busy
  <2>5. QED
    BY <2>3, <2>4 DEF SongInv
<1>3. CASE Create
  <2>1. control = "create" /\ control' \in {"dead", "ready"} /\ UNCHANGED <<udpSocket, stopSending, lost>>
    BY <1>3 DEF Create, ControlGoto, site
  <2>2. PICK t \in Senders : /\ sender' = [sender EXCEPT ![t] = "start"] /\ multicastThread' = t
                             /\ via' = [via EXCEPT ![t] = udpSocket]
    BY <1>3 DEF Create
  <2>3. QED
    BY <2>1, <2>2 DEF SongInv, SongTyped, OthersAreLost, StopIsSeenOrLost, LastIsLost, Busy
<1>4. CASE Wait \/ Wake \/ Disconnect \/ ApcPlaylist \/ ApcSend
  <2>1. /\ UNCHANGED <<sender, via, multicastThread, udpSocket, stopSending, lost>>
        /\ control' \notin {"join", "create"}
    BY <1>4 DEF Wait, Wake, Disconnect, ApcPlaylist, ApcSend, ControlGoto, stream, sending, site
  <2>2. QED
    BY <2>1 DEF SongInv, SongTyped, OthersAreLost, StopIsSeenOrLost, LastIsLost
<1>5. QED
  BY <1>1, <1>2, <1>3, <1>4 DEF _threadRoutine

\* Two songs are sent at once only if the stop of one was lost, for any clients,
\* senders and requests, and however often the server is started: the flag that is
\* set, the wait, and the thread that clears the flag when it opens its file leave no
\* other way.
THEOREM SongsOverlapOnlyAfterALostStop == ServerSpec => []OnlyALostStopLetsSongsOverlap
<1>1. ServerInit => SongInv
  BY DEF ServerInit, Init, SongInv, SongTyped, OthersAreLost, StopIsSeenOrLost, LastIsLost, Busy, Sockets
<1>2. SongInv /\ [ServerNext]_<<vars, accepts>> => SongInv'
  <2> SUFFICES ASSUME SongInv, [ServerNext]_<<vars, accepts>> PROVE SongInv'
    OBVIOUS
  <2>1. CASE /\ UNCHANGED <<control, multicastThread, sending, stopSending>>
             /\ udpSocket' \in Sockets
    BY <2>1 DEF SongInv, SongTyped, OthersAreLost, StopIsSeenOrLost, LastIsLost, sending
  <2>2. CASE UNCHANGED Core
    <3>1. udpSocket' \in {udpSocket, "next"}
      BY <2>2, UdpSocketIsOfTheWindow
    <3>2. udpSocket' \in Sockets
      BY <3>1 DEF SongInv, SongTyped, Sockets
    <3>3. QED
      BY <2>1, <2>2, <3>2 DEF Core, ctl, stream
  <2>3. CASE \E c \in Clients : AddLock(c) \/ Request(c)
    BY <2>1, <2>3 DEF AddLock, Request, ctl, stream, site, SongInv, SongTyped
  <2>4. CASE addConnection
    BY <2>1, <2>4 DEF addConnection, AddSock, AddHandle, AddApc, AddRead, AddSend, ctl, stream, site, SongInv, SongTyped
  <2>5. CASE _threadRoutine
    BY <2>5, ControlKeepsSongInv
  <2>6. CASE \E t \in Senders : sendWave(t)
    BY <2>6, SenderKeepsSongInv
  <2>7. QED
    BY StepIsInnerOrOuter, <2>2, <2>3, <2>4, <2>5, <2>6 DEF Work
<1>3. SongInv => OnlyALostStopLetsSongsOverlap
  BY DEF SongInv, OthersAreLost, OnlyALostStopLetsSongsOverlap, Busy
<1>4. QED
  BY <1>1, <1>2, <1>3, PTL DEF ServerSpec

-----------------------------------------------------------------------------
(***************************************************************************)
(* The right client is served.  The control thread uses the index of a     *)
(* handle in the copy of the list it waited for on the list of sockets,    *)
(* which a worker may be extending: both begin with the copy.              *)
(***************************************************************************)
Begins(s, t) == Len(s) <= Len(t) /\ \A i \in 1..Len(s) : t[i] = s[i]

\* The lists of sockets and handles are the same, but for the client that is
\* being added, and only while the mutex is held.
ListsAgree ==
    /\ socks \in Seq(Clients) /\ handles \in Seq(Clients)
    /\ access <=> worker # "idle"
    /\ worker # "idle" => adding \in Clients
    /\ socks = IF worker = "handle" THEN Append(handles, adding) ELSE handles

\* What the control thread knows of the handles it waits for.
WaitIsCurrent ==
    /\ waits \in Seq(Clients)
    /\ control \in {"waiting", "dequeue", "disconnect", "apc"} => Begins(waits, handles)
    /\ control \in {"dequeue", "disconnect"} => serving \in 1..Len(waits)
    /\ control = "dequeue" => inbox[waits[serving]] # <<>>

ServeInv == ListsAgree /\ WaitIsCurrent /\ DOMAIN inbox = Clients

\* A list still begins as it did when a client is appended to it.
LEMMA AppendKeepsBegin ==
    ASSUME NEW S, NEW s \in Seq(S), NEW t \in Seq(S), NEW x \in S, Begins(s, t)
    PROVE  /\ Append(t, x) \in Seq(S) /\ Begins(s, Append(t, x))
BY DEF Begins

\* A list without one of its elements is a list.
LEMMA WithoutIsSeq ==
    ASSUME NEW S, NEW s \in Seq(S), NEW i \in 1..Len(s)
    PROVE  Without(s, i) \in Seq(S)
BY DEF Without

\* Adding a client, step by step: the socket first, then the handle.
LEMMA AdditionKeepsServeInv ==
    ASSUME ServeInv, addConnection \/ \E c \in Clients : AddLock(c)
    PROVE  ServeInv'
<1>0. inbox' = inbox /\ UNCHANGED ctl
  BY DEF addConnection, AddLock, AddSock, AddHandle, AddApc, AddRead, AddSend, net
<1>1. CASE \E c \in Clients : AddLock(c)
  BY <1>0, <1>1 DEF AddLock, WorkerGoto, ServeInv, ListsAgree, WaitIsCurrent, ctl
<1>2. CASE AddSock
  <2>1. ListsAgree'
    BY <1>2 DEF AddSock, WorkerGoto, ServeInv, ListsAgree
  <2>2. QED
    BY <1>0, <1>2, <2>1 DEF AddSock, ServeInv, WaitIsCurrent, ctl
<1>3. CASE AddHandle
  <2>1. /\ handles' = Append(handles, adding) /\ handles' \in Seq(Clients)
        /\ worker = "handle" /\ worker' = "apc" /\ UNCHANGED <<socks, access, adding>>
    BY <1>3 DEF AddHandle, WorkerGoto, ServeInv, ListsAgree
  <2>2. ListsAgree'
    BY <2>1 DEF ServeInv, ListsAgree
  <2>3. control \in {"waiting", "dequeue", "disconnect", "apc"} => Begins(waits, handles')
    BY <2>1, AppendKeepsBegin DEF ServeInv, ListsAgree, WaitIsCurrent
  <2>4. QED
    BY <1>0, <2>2, <2>3 DEF ServeInv, WaitIsCurrent, ctl
<1>4. CASE AddApc \/ AddRead \/ AddSend
  BY <1>0, <1>4 DEF AddApc, AddRead, AddSend, WorkerGoto, lists, ServeInv, ListsAgree, WaitIsCurrent, ctl
<1>5. QED
  BY <1>1, <1>2, <1>3, <1>4 DEF addConnection

\* The control thread copies the list before it waits, and a client is removed
\* from both lists.
LEMMA ControlKeepsServeInv ==
    ASSUME ServeInv, _threadRoutine
    PROVE  ServeInv'
<1>1. CASE Wait
  BY <1>1 DEF Wait, ControlGoto, net, lists, adder, ServeInv, ListsAgree, WaitIsCurrent, Begins
<1>2. CASE Wake
  <2>1. PICK i \in DOMAIN waits : inbox[waits[i]] # <<>> /\ serving' = i
    BY <1>2 DEF Wake, Signalled
  <2>2. QED
    BY <1>2, <2>1 DEF Wake, ControlGoto, net, lists, adder, ServeInv, ListsAgree, WaitIsCurrent
<1>3. CASE Dequeue
  <2>1. /\ control = "dequeue" /\ control' \in {"join", "disconnect"}
        /\ DOMAIN inbox' = DOMAIN inbox
        /\ UNCHANGED <<lists, adder, waits, serving>>
    BY <1>3 DEF Dequeue
  <2>2. QED
    BY <2>1 DEF lists, adder, ServeInv, ListsAgree, WaitIsCurrent
<1>4. CASE Disconnect
  <2>1. worker = "idle" /\ socks = handles /\ serving \in 1..Len(handles)
    BY <1>4 DEF Disconnect, ControlGoto, ServeInv, ListsAgree, WaitIsCurrent, Begins
  <2>2. socks' = handles' /\ handles' \in Seq(Clients)
    BY <1>4, <2>1, WithoutIsSeq DEF Disconnect, ServeInv, ListsAgree
  <2>3. QED
    BY <1>4, <2>1, <2>2 DEF Disconnect, NoLocals, ControlGoto, net, adder, ServeInv, ListsAgree, WaitIsCurrent
<1>5. CASE Join \/ Create
  <2>1. /\ control' \in {"create", "ready", "dead"} /\ UNCHANGED <<net, lists, adder>>
        /\ waits' \in {waits, <<>>}
    BY <1>5 DEF Join, Create, NoLocals, ControlGoto
  <2>2. waits' \in Seq(Clients)
    <3>1. waits \in Seq(Clients) /\ <<>> \in Seq(Clients)
      BY DEF ServeInv, WaitIsCurrent
    <3>2. QED
      BY <2>1, <3>1, Zenon
  <2>3. QED
    BY <2>1, <2>2 DEF net, lists, adder, ServeInv, ListsAgree, WaitIsCurrent
<1>6. CASE ApcPlaylist \/ ApcSend
  <2>1. /\ control \in {"waiting", "apc"} /\ control' \in {"waiting", "apc", "ready"}
        /\ UNCHANGED <<inbox, socks, handles, access, adder, waits, serving>>
    BY <1>6 DEF ApcPlaylist, ApcSend, ControlGoto, lists
  <2>2. QED
    BY <2>1 DEF adder, ServeInv, ListsAgree, WaitIsCurrent
<1>7. QED
  BY <1>1, <1>2, <1>3, <1>4, <1>5, <1>6 DEF _threadRoutine

\* What arrives from a client, and what the senders do, disturbs none of it.
LEMMA OthersKeepServeInv ==
    ASSUME ServeInv, (\E c \in Clients : Request(c)) \/ (\E t \in Senders : sendWave(t)) \/ UNCHANGED Core
    PROVE  ServeInv'
<1>1. CASE \E c \in Clients : Request(c)
  <2>1. PICK c \in Clients : Request(c)
    BY <1>1
  <2>2. /\ DOMAIN inbox' = DOMAIN inbox
        /\ \A d \in Clients : inbox[d] # <<>> => inbox'[d] # <<>>
        /\ UNCHANGED <<lists, adder, ctl>>
    BY <2>1 DEF Request, ServeInv
  <2>3. control = "dequeue" => waits[serving] \in Clients
    BY DEF ServeInv, WaitIsCurrent
  <2>4. QED
    BY <2>2, <2>3 DEF lists, adder, ctl, ServeInv, ListsAgree, WaitIsCurrent
<1>2. CASE \E t \in Senders : sendWave(t)
  <2>1. UNCHANGED <<inbox, lists, adder, ctl>>
    BY <1>2 DEF sendWave, SetCurrent, CopySocks, Open, TellNext, ToldAll, SendEnds, SenderGoto
  <2>2. QED
    BY <2>1 DEF lists, adder, ctl, ServeInv, ListsAgree, WaitIsCurrent
<1>3. CASE UNCHANGED Core
  BY <1>3 DEF Core, net, lists, adder, ctl, ServeInv, ListsAgree, WaitIsCurrent
<1>4. QED
  BY <1>1, <1>2, <1>3

\* The client whose queue was signalled is the one that is served, and its
\* message is still there, so the control thread never blocks in dequeue: for
\* any number of clients, whoever is added or removed meanwhile.
THEOREM TheRightClientIsServed == ServerSpec => []ServedClientHasAsked
<1>1. ServerInit => ServeInv
  BY DEF ServerInit, Init, ServeInv, ListsAgree, WaitIsCurrent
<1>2. ServeInv /\ [ServerNext]_<<vars, accepts>> => ServeInv'
  BY StepIsInnerOrOuter, AdditionKeepsServeInv, ControlKeepsServeInv, OthersKeepServeInv DEF Work
<1>3. ServeInv => ServedClientHasAsked
  <2> SUFFICES ASSUME ServeInv, control = "dequeue"
               PROVE  serving \in DOMAIN socks /\ inbox[socks[serving]] # <<>>
    BY DEF ServedClientHasAsked
  <2>1. Begins(waits, socks)
    BY AppendKeepsBegin DEF ServeInv, ListsAgree, WaitIsCurrent
  <2>2. QED
    BY <2>1 DEF ServeInv, ListsAgree, WaitIsCurrent, Begins
<1>4. QED
  BY <1>1, <1>2, <1>3, PTL DEF ServerSpec

-----------------------------------------------------------------------------
(***************************************************************************)
(* The door.  While clients come one after another, at most two of them are *)
(* between accept and the handler: one in the thread that accepts or in the *)
(* slot that is not counted yet, and one in the slot that was counted last. *)
(***************************************************************************)
\* Clients come one after another, the compiler computes the target last, and the
\* server is stopped only while no client comes.
Orderly == Apart /\ ~TargetFirst /\ Stops # "ever"

\* Where the next client is stored, and when one has been that is not counted yet.
Room   == numTCPConnections + 1
Stored == acceptor = "event" \/ newConnectionEvent \/ accepting = "count"

\* A client that came and that the handler has not had.
Expected(c) == c \in arrived /\ \A i \in DOMAIN handled : handled[i] # c

DoorTyped ==
    /\ numTCPConnections \in Nat /\ handled \in Seq(Clients) /\ arrived \subseteq Clients
    /\ TCPConnections \in Seq(Clients \cup {NoClient})
    /\ newConnectionEvent \in BOOLEAN /\ ~stale

\* Where the two threads may be at once.
Phases ==
    /\ acceptor \in {"accept", "store", "event", "ended"}
    /\ accepting \in {"wait", "reset", "count", "grow", "handle"}
    /\ acceptor \in {"store", "event"} => ~newConnectionEvent /\ accepting \in {"wait", "handle"}
    /\ newConnectionEvent => accepting \in {"wait", "reset", "handle"}
    /\ accepting = "reset" => newConnectionEvent
    /\ listening # "open" => Door!AtRest
    /\ target = IF acceptor = "store" THEN Room ELSE 0
    /\ listening # "closed" => Len(TCPConnections) = IF accepting = "grow" THEN numTCPConnections ELSE Room

\* Who is on the way from accept to the handler: one client in the thread that accepts or in
\* the slot that is not counted, and one in the slot counted last.
Arriving ==
    /\ acceptor = "store" => Expected(accepted)
    /\ Stored => Expected(TCPConnections[Room])
    /\ accepting \in {"grow", "handle"} =>
          /\ numTCPConnections > 0 /\ Expected(TCPConnections[numTCPConnections])
          /\ acceptor = "store" => accepted # TCPConnections[numTCPConnections]
          /\ Stored => TCPConnections[Room] # TCPConnections[numTCPConnections]

HadOnce == \A i, j \in DOMAIN handled : handled[i] \in arrived /\ (handled[i] = handled[j] => i = j)

DoorInv == DoorTyped /\ Phases /\ Arriving /\ HadOnce

\* Every step of the server is one of the door, or a start of it, or leaves it alone.
LEMMA StepIsOfTheDoor ==
    ASSUME [ServerNext]_<<vars, accepts>>
    PROVE  \/ \E c \in Clients : Door!Accept(c)
           \/ Door!Store \/ Door!SetEvent \/ Door!AcceptEnds
           \/ Door!Wake \/ Door!ResetEvent \/ Door!CountConnection \/ Door!Grow
           \/ \E c \in Clients : Door!Handle(c)
           \/ Door!ForgetSockets \/ \E S \in SUBSET Clients : Door!CloseSockets(S)
           \/ Door!startTCP
           \/ UNCHANGED Door!vars
<1>1. CASE UNCHANGED <<vars, accepts>>
  BY <1>1 DEF accepts, Door!vars, Door!acceptVars, Door!targetVars, Door!table
<1>2. CASE Arrive \/ AcceptThread \/ Prepare \/ newConnHandler
  BY <1>2 DEF Arrive, AcceptThread, Prepare, newConnHandler, Door!AcceptThread, Door!Prepare
<1>3. CASE toggleConnection
  <2>1. CASE disconnect
    BY <2>1 DEF disconnect
  <2>2. CASE startTCP
    BY <2>2 DEF startTCP
  <2>3. CASE setPlaylist \/ startTCPFails \/ setUDPSocket
    BY <2>3 DEF setPlaylist, startTCPFails, setUDPSocket, Door!vars, Door!acceptVars, Door!targetVars, Door!table
  <2>4. QED
    BY <1>3, <2>1, <2>2, <2>3 DEF toggleConnection
<1>4. CASE Work /\ UNCHANGED accepts
  BY <1>4 DEF accepts, Door!vars, Door!acceptVars, Door!targetVars, Door!table
<1>5. QED
  BY <1>1, <1>2, <1>3, <1>4 DEF ServerNext

\* A client comes: none is on the way but the one the handler is called with.
LEMMA AcceptKeepsDoor ==
    ASSUME Orderly, DoorInv, NEW c \in Clients, Door!Accept(c)
    PROVE  DoorInv'
<1>1. /\ acceptor = "accept" /\ acceptor' = "store" /\ listening = "open"
      /\ c \notin arrived /\ ~newConnectionEvent /\ accepting \in {"wait", "handle"}
      /\ accepted' = c /\ arrived' = arrived \cup {c} /\ target' = Room
      /\ UNCHANGED <<listening, stale, TCPConnections, numTCPConnections, newConnectionEvent, accepting, handled>>
  BY DEF Door!Accept, Door!AcceptorGoto, Door!NextSlot, Door!table, Orderly, Room
<1>2. HadOnce' /\ \A i \in DOMAIN handled : handled[i] # c
  BY <1>1 DEF DoorInv, HadOnce
<1>3. Expected(accepted)'
  BY <1>1, <1>2 DEF Expected
<1>4. DoorTyped' /\ Phases'
  BY <1>1 DEF DoorInv, DoorTyped, Phases, Room, Door!AtRest
<1>5. ~Stored'
  BY <1>1 DEF Stored
<1>6. accepting = "handle" => /\ numTCPConnections > 0 /\ Expected(TCPConnections[numTCPConnections])'
                              /\ c # TCPConnections[numTCPConnections]
  BY <1>1 DEF DoorInv, Arriving, Expected
<1>7. Arriving'
  BY <1>1, <1>3, <1>5, <1>6 DEF Arriving
<1>8. QED
  BY <1>2, <1>4, <1>7 DEF DoorInv

\* It is stored where there is room, the event is set, and the thread ends.
LEMMA AcceptorKeepsDoor ==
    ASSUME Orderly, DoorInv, Door!Store \/ Door!SetEvent \/ Door!AcceptEnds
    PROVE  DoorInv'
<1>1. UNCHANGED <<arrived, listening, numTCPConnections, accepting, handled>>
  BY DEF Door!Store, Door!SetEvent, Door!AcceptEnds, Door!table
<1>2. HadOnce' /\ \A c : Expected(c)' <=> Expected(c)
  BY <1>1 DEF DoorInv, HadOnce, Expected
<1>3. CASE Door!Store
  <2>1. /\ acceptor = "store" /\ acceptor' = "event" /\ target' = 0 /\ ~stale' /\ ~stale /\ target = Room
        /\ UNCHANGED newConnectionEvent /\ ~newConnectionEvent /\ accepting \in {"wait", "handle"}
    BY <1>3 DEF Door!Store, Door!AcceptorGoto, Door!NoSlot, DoorInv, DoorTyped, Phases
  <2>2. /\ TCPConnections \in Seq(Clients \cup {NoClient}) /\ Len(TCPConnections) = Room
        /\ numTCPConnections \in Nat /\ Room \in 1..Room /\ Room # numTCPConnections
    BY <2>1 DEF DoorInv, DoorTyped, Phases, Room, Door!AtRest
  <2>3. accepted \in Clients /\ Expected(accepted)
    BY <2>1 DEF DoorInv, DoorTyped, Arriving, Expected
  <2>4. TCPConnections' = [TCPConnections EXCEPT ![Room] = accepted]
    BY <1>3, <2>1, <2>2 DEF Door!Store
  <2>5. /\ TCPConnections' \in Seq(Clients \cup {NoClient}) /\ Len(TCPConnections') = Room
        /\ TCPConnections'[Room] = accepted
        /\ numTCPConnections > 0 => TCPConnections'[numTCPConnections] = TCPConnections[numTCPConnections]
    BY <2>2, <2>3, <2>4 DEF Room
  <2>6. Room' = Room
    BY <1>1 DEF Room
  <2>7. DoorTyped' /\ Phases'
    BY <1>1, <2>1, <2>5, <2>6 DEF DoorInv, DoorTyped, Phases, Door!AtRest
  <2>8. Arriving'
    BY <1>1, <1>2, <2>1, <2>3, <2>5, <2>6 DEF DoorInv, Arriving
  <2>9. QED
    BY <1>2, <2>7, <2>8 DEF DoorInv
<1>4. CASE Door!SetEvent
  <2>1. /\ acceptor = "event" /\ acceptor' = "accept" /\ newConnectionEvent' = TRUE /\ target' = 0
        /\ UNCHANGED <<TCPConnections, stale>> /\ accepting \in {"wait", "handle"}
    BY <1>4 DEF Door!SetEvent, Door!AcceptorGoto, Door!NoSlot, Door!table, DoorInv, Phases, Orderly
  <2>2. listening = "open" /\ Room' = Room
    BY <1>1, <2>1 DEF DoorInv, Phases, Door!AtRest, Room
  <2>3. DoorTyped' /\ Phases'
    BY <1>1, <2>1, <2>2 DEF DoorInv, DoorTyped, Phases, Door!AtRest
  <2>4. Stored /\ Stored'
    BY <2>1 DEF Stored
  <2>5. Arriving'
    BY <1>1, <1>2, <2>1, <2>2, <2>4 DEF DoorInv, Arriving
  <2>6. QED
    BY <1>2, <2>3, <2>5 DEF DoorInv
<1>5. CASE Door!AcceptEnds
  <2>1. /\ acceptor = "accept" /\ acceptor' = "ended" /\ target' = 0 /\ ~stale'
        /\ UNCHANGED <<TCPConnections, newConnectionEvent>>
    BY <1>5 DEF Door!AcceptEnds, Door!AcceptorGoto, Door!NoSlot, Door!table
  <2>2. Room' = Room /\ (Stored' <=> Stored)
    BY <1>1, <2>1 DEF Room, Stored
  <2>3. DoorTyped' /\ Phases'
    BY <1>1, <2>1, <2>2 DEF DoorInv, DoorTyped, Phases, Door!AtRest
  <2>4. Arriving'
    BY <1>1, <1>2, <2>1, <2>2 DEF DoorInv, Arriving
  <2>5. QED
    BY <1>2, <2>3, <2>4 DEF DoorInv
<1>6. QED
  BY <1>3, <1>4, <1>5

\* The worker wakes, and counts the client whose slot was not counted.
LEMMA CountKeepsDoor ==
    ASSUME Orderly, DoorInv, Door!Wake \/ Door!ResetEvent \/ Door!CountConnection
    PROVE  DoorInv'
<1>1. UNCHANGED <<acceptor, accepted, arrived, listening, target, stale, TCPConnections, handled>>
  BY DEF Door!Wake, Door!ResetEvent, Door!CountConnection, Door!acceptVars, Door!targetVars, Door!table
<1>2. HadOnce' /\ \A c : Expected(c)' <=> Expected(c)
  BY <1>1 DEF DoorInv, HadOnce, Expected
<1>3. CASE Door!Wake \/ Door!ResetEvent
  <2>1. /\ UNCHANGED numTCPConnections
        /\ \/ accepting = "wait" /\ accepting' = "reset" /\ newConnectionEvent /\ newConnectionEvent' = newConnectionEvent
           \/ accepting = "reset" /\ accepting' = "count" /\ newConnectionEvent' = FALSE
    BY <1>3 DEF Door!Wake, Door!ResetEvent, Door!WorkerGoto, Door!table
  <2>2. /\ Room' = Room /\ Stored /\ Stored' /\ acceptor \notin {"store", "event"} /\ listening = "open"
    BY <1>1, <2>1 DEF Room, Stored, DoorInv, Phases, Door!AtRest
  <2>3. DoorTyped' /\ Phases'
    BY <1>1, <2>1, <2>2 DEF DoorInv, DoorTyped, Phases, Door!AtRest
  <2>4. Arriving'
    BY <1>1, <1>2, <2>1, <2>2 DEF DoorInv, Arriving
  <2>5. QED
    BY <1>2, <2>3, <2>4 DEF DoorInv
<1>4. CASE Door!CountConnection
  <2>1. /\ accepting = "count" /\ accepting' = "grow" /\ numTCPConnections' = Room /\ UNCHANGED newConnectionEvent
    BY <1>4 DEF Door!CountConnection, Door!WorkerGoto, Room
  <2>2. /\ Stored /\ ~newConnectionEvent /\ acceptor \notin {"store", "event"} /\ listening = "open"
        /\ numTCPConnections \in Nat /\ Len(TCPConnections) = Room
    BY <2>1 DEF Stored, DoorInv, DoorTyped, Phases, Door!AtRest
  <2>3. numTCPConnections' \in Nat /\ numTCPConnections' > 0 /\ ~Stored'
    BY <1>1, <2>1, <2>2 DEF Stored, Room
  <2>4. DoorTyped' /\ Phases'
    BY <1>1, <2>1, <2>2, <2>3 DEF DoorInv, DoorTyped, Phases, Door!AtRest
  <2>5. Expected(TCPConnections[Room])
    BY <2>2 DEF DoorInv, Arriving
  <2>6. Arriving'
    BY <1>1, <1>2, <2>1, <2>2, <2>3, <2>5 DEF Arriving
  <2>7. QED
    BY <1>2, <2>4, <2>6 DEF DoorInv
<1>5. QED
  BY <1>3, <1>4

\* It makes room for the next one, and calls the handler.
LEMMA HandleKeepsDoor ==
    ASSUME Orderly, DoorInv, Door!Grow \/ \E c \in Clients : Door!Handle(c)
    PROVE  DoorInv'
<1>1. UNCHANGED <<acceptor, accepted, arrived, listening, target, numTCPConnections, newConnectionEvent>>
  BY DEF Door!Grow, Door!Handle, Door!acceptVars, Door!targetVars, Door!table
<1>2. /\ numTCPConnections \in Nat /\ TCPConnections \in Seq(Clients \cup {NoClient})
      /\ handled \in Seq(Clients) /\ Room' = Room /\ Room = numTCPConnections + 1
  BY <1>1 DEF DoorInv, DoorTyped, Room
<1>3. CASE Door!Grow
  <2>1. /\ accepting = "grow" /\ accepting' = "handle" /\ UNCHANGED handled
        /\ TCPConnections' = Append(SubSeq(TCPConnections, 1, numTCPConnections), NoClient)
    BY <1>3 DEF Door!Grow, Door!WorkerGoto
  <2>2. /\ acceptor \notin {"store", "event"} /\ ~newConnectionEvent /\ listening = "open" /\ target = 0
        /\ Len(TCPConnections) = numTCPConnections /\ ~Stored /\ ~Stored'
    BY <1>1, <2>1 DEF Stored, DoorInv, Phases, Door!AtRest
  <2>3. ~stale'
    BY <1>3, <2>2 DEF Door!Grow, Door!NoSlot, DoorInv, DoorTyped
  <2>4. numTCPConnections > 0 /\ Expected(TCPConnections[numTCPConnections])
    BY <2>1 DEF DoorInv, Arriving
  <2>5. /\ TCPConnections' \in Seq(Clients \cup {NoClient}) /\ Len(TCPConnections') = Room
        /\ TCPConnections'[numTCPConnections] = TCPConnections[numTCPConnections]
    <3>1. /\ SubSeq(TCPConnections, 1, numTCPConnections) \in Seq(Clients \cup {NoClient})
          /\ Len(SubSeq(TCPConnections, 1, numTCPConnections)) = numTCPConnections
          /\ \A i \in 1..numTCPConnections : SubSeq(TCPConnections, 1, numTCPConnections)[i] = TCPConnections[i]
      BY <1>2, <2>2
    <3>2. numTCPConnections \in 1..numTCPConnections
      BY <1>2, <2>4
    <3>3. QED
      BY <1>2, <2>1, <3>1, <3>2
  <2>6. HadOnce' /\ \A c : Expected(c)' <=> Expected(c)
    BY <1>1, <2>1 DEF DoorInv, HadOnce, Expected
  <2>7. DoorTyped' /\ Phases'
    BY <1>1, <1>2, <2>1, <2>2, <2>3, <2>5 DEF DoorInv, DoorTyped, Phases, Door!AtRest
  <2>8. Arriving'
    BY <1>1, <2>1, <2>2, <2>4, <2>5, <2>6 DEF Arriving
  <2>9. QED
    BY <2>6, <2>7, <2>8 DEF DoorInv
<1>4. CASE \E c \in Clients : Door!Handle(c)
  <2>1. PICK c \in Clients : Door!Handle(c)
    BY <1>4
  <2>2. /\ accepting = "handle" /\ accepting' = "wait" /\ UNCHANGED <<TCPConnections, stale>>
        /\ c = Door!Slot(numTCPConnections) /\ handled' = Append(handled, c)
    BY <2>1 DEF Door!Handle, Door!WorkerGoto, Door!targetVars, Door!table
  <2>3. /\ listening = "open" /\ Len(TCPConnections) = Room /\ numTCPConnections \in DOMAIN TCPConnections
        /\ c = TCPConnections[numTCPConnections] /\ Expected(c)
    BY <1>2, <2>2 DEF DoorInv, Phases, Arriving, Door!AtRest, Door!Slot
  <2>4. /\ handled' \in Seq(Clients) /\ Len(handled') = Len(handled) + 1
        /\ \A i \in DOMAIN handled' : handled'[i] = IF i \in DOMAIN handled THEN handled[i] ELSE c
        /\ \A i \in DOMAIN handled' : i \notin DOMAIN handled => i = Len(handled) + 1
    BY <1>2, <2>2
  <2>5. HadOnce'
    <3>1. \A i \in DOMAIN handled : handled[i] \in arrived /\ handled[i] # c
      BY <2>3 DEF DoorInv, HadOnce, Expected
    <3>2. \A i, j \in DOMAIN handled : handled[i] = handled[j] => i = j
      BY DEF DoorInv, HadOnce
    <3>3. c \in arrived
      BY <2>3 DEF Expected
    <3>4. QED
      BY <1>1, <2>4, <3>1, <3>2, <3>3 DEF HadOnce
  <2>6. \A d : d # c /\ Expected(d) => Expected(d)'
    BY <1>1, <2>4 DEF Expected
  <2>7. Stored' <=> Stored
    BY <1>1, <2>2 DEF Stored
  <2>8. DoorTyped' /\ Phases'
    BY <1>1, <1>2, <2>2, <2>3, <2>4 DEF DoorInv, DoorTyped, Phases, Door!AtRest
  <2>9. Arriving'
    BY <1>1, <1>2, <2>2, <2>3, <2>6, <2>7 DEF DoorInv, Arriving
  <2>10. QED
    BY <2>5, <2>8, <2>9 DEF DoorInv
<1>5. QED
  BY <1>3, <1>4

\* The door is closed while nobody comes, and opened again with an empty table.
LEMMA StopKeepsDoor ==
    ASSUME Orderly, DoorInv, Door!ForgetSockets \/ Door!startTCP \/ \E S \in SUBSET Clients : Door!CloseSockets(S)
    PROVE  DoorInv'
<1>1. UNCHANGED <<accepted, arrived, newConnectionEvent, accepting, handled>> /\ (acceptor' = "store" <=> acceptor = "store")
  BY DEF Door!ForgetSockets, Door!startTCP, Door!CloseSockets, Door!targetVars, Door!table, Door!AtRest
<1>2. /\ Door!AtRest /\ Door!AtRest' /\ target = 0 /\ target' = 0 /\ ~stale' /\ ~Stored /\ ~Stored'
      /\ acceptor' \in {"accept", "ended"}
  <2>1. Door!AtRest
    BY StopsAssumption DEF Door!ForgetSockets, Door!startTCP, Door!CloseSockets, DoorInv, Phases, Orderly
  <2>2. ~stale /\ target = 0
    BY <2>1 DEF DoorInv, DoorTyped, Phases, Door!AtRest
  <2>3. target' = 0 /\ ~stale' /\ acceptor' \in {"accept", "ended"}
    <3>1. CASE Door!startTCP
      BY <3>1 DEF Door!startTCP, Door!NoSlot, Orderly
    <3>2. CASE Door!ForgetSockets \/ \E S \in SUBSET Clients : Door!CloseSockets(S)
      <4>1. UNCHANGED <<target, stale, acceptor>>
        BY <3>2 DEF Door!ForgetSockets, Door!CloseSockets, Door!targetVars
      <4>2. QED
        BY <2>1, <2>2, <4>1 DEF Door!AtRest
    <3>3. QED
      BY <3>1, <3>2
  <2>4. QED
    BY <1>1, <2>1, <2>2, <2>3 DEF Door!AtRest, Stored
<1>3. /\ numTCPConnections' \in Nat /\ TCPConnections' \in Seq(Clients \cup {NoClient})
      /\ listening' # "closed" => Len(TCPConnections') = numTCPConnections' + 1
  <2>1. numTCPConnections \in Nat /\ TCPConnections \in Seq(Clients \cup {NoClient})
    BY DEF DoorInv, DoorTyped
  <2>2. CASE Door!ForgetSockets
    BY <2>1, <2>2 DEF Door!ForgetSockets
  <2>3. CASE \E S \in SUBSET Clients : Door!CloseSockets(S)
    <3>1. listening = "open" /\ UNCHANGED <<TCPConnections, numTCPConnections>>
      BY <2>3 DEF Door!CloseSockets, Door!table
    <3>2. QED
      BY <1>2, <2>1, <3>1 DEF DoorInv, Phases, Room, Door!AtRest
  <2>4. CASE Door!startTCP
    <3>1. TCPConnections' = <<NoClient>> /\ numTCPConnections' = 0
      BY <2>4 DEF Door!startTCP
    <3>2. QED
      BY <3>1
  <2>5. QED
    BY <2>2, <2>3, <2>4
<1>4. DoorTyped' /\ Phases'
  BY <1>1, <1>2, <1>3 DEF DoorInv, DoorTyped, Phases, Room, Door!AtRest
<1>5. Arriving' /\ HadOnce'
  BY <1>1, <1>2 DEF DoorInv, Arriving, HadOnce, Door!AtRest
<1>6. QED
  BY <1>4, <1>5 DEF DoorInv

\* The handler gets every client at most once and nobody else, for any number of clients and
\* slots, however accept and worker thread take turns, and after a stop and a start: as long
\* as clients come one after another, and none comes while the server is stopped.
THEOREM ClientsAreHandledOnce ==
    ASSUME Orderly PROVE ServerSpec => [](Door!HandledOnce /\ Door!NextIsNew)
<1>1. ServerInit => DoorInv
  <2> SUFFICES ASSUME ServerInit PROVE DoorInv
    OBVIOUS
  <2>1. /\ TCPConnections = <<NoClient>> /\ numTCPConnections = 0 /\ listening = "open" /\ acceptor = "accept"
        /\ arrived = {} /\ target = 0 /\ stale = FALSE /\ newConnectionEvent = FALSE /\ accepting = "wait"
        /\ handled = <<>>
    BY DEF ServerInit, Door!Init, Door!NoSlot, Orderly
  <2>2. handled \in Seq(Clients) /\ DOMAIN handled = {}
    BY <2>1
  <2>3. TCPConnections \in Seq(Clients \cup {NoClient}) /\ Len(TCPConnections) = 1
    BY <2>1
  <2>4. DoorTyped /\ Phases
    <3>1. numTCPConnections \in Nat /\ arrived \subseteq Clients
      BY <2>1
    <3>2. newConnectionEvent \in BOOLEAN /\ ~stale /\ ~newConnectionEvent
      BY <2>1, Zenon
    <3>3. DoorTyped
      BY <2>2, <2>3, <3>1, <3>2 DEF DoorTyped
    <3>4. Phases
      BY <2>1, <2>3, <3>2 DEF Phases, Room
    <3>5. QED
      BY <3>3, <3>4
  <2>5. Arriving /\ HadOnce
    BY <2>1, <2>2 DEF Arriving, HadOnce, Stored
  <2>6. QED
    BY <2>4, <2>5 DEF DoorInv
<1>2. DoorInv /\ [ServerNext]_<<vars, accepts>> => DoorInv'
  <2> SUFFICES ASSUME DoorInv, [ServerNext]_<<vars, accepts>> PROVE DoorInv'
    OBVIOUS
  <2>1. CASE UNCHANGED Door!vars
    BY <2>1 DEF Door!vars, Door!acceptVars, Door!targetVars, Door!table, DoorInv, DoorTyped, Phases, Arriving,
                HadOnce, Stored, Room, Expected, Door!AtRest
  <2>2. QED
    BY <2>1, StepIsOfTheDoor, AcceptKeepsDoor, AcceptorKeepsDoor, CountKeepsDoor, HandleKeepsDoor, StopKeepsDoor
<1>3. DoorInv => Door!HandledOnce /\ Door!NextIsNew
  <2> SUFFICES ASSUME DoorInv PROVE Door!HandledOnce /\ Door!NextIsNew
    OBVIOUS
  <2>1. Door!HandledOnce
    BY DEF DoorInv, DoorTyped, HadOnce, Door!HandledOnce
  <2>2. ASSUME accepting = "handle"
        PROVE  Door!Slot(numTCPConnections) \in Clients /\ Expected(Door!Slot(numTCPConnections))
    <3>1. /\ numTCPConnections \in DOMAIN TCPConnections /\ Expected(TCPConnections[numTCPConnections])
      BY <2>2 DEF DoorInv, DoorTyped, Phases, Arriving, Room, Door!AtRest
    <3>2. QED
      BY <3>1 DEF Door!Slot, Expected, DoorInv, DoorTyped
  <2>3. QED
    BY <2>1, <2>2 DEF Door!NextIsNew, Expected
<1>4. QED
  BY <1>1, <1>2, <1>3, PTL DEF ServerSpec
=============================================================================
