------------------------------- MODULE Server -------------------------------
(***************************************************************************)
(* The server from accept to the song: the worker thread of Accept calls   *)
(* ServerWindow::newConnHandler, which makes a TCPSocket of the connection *)
(* and adds it to the control thread.  addConnection runs on the worker    *)
(* thread, which accepts nobody else until it returns.  The window stops    *)
(* the server and starts another one; it waits until the threads of the    *)
(* first, but for those that send, have nothing left to do.                *)
(***************************************************************************)
EXTENDS ServerControl

CONSTANTS Apart, TargetFirst, Stops   \* of Accept

ASSUME StopsAssumption == Stops \in {"never", "ever", "at rest"}

VARIABLES starting,      \* what of a start the window has done
          listening, acceptor, accepted, target, stale, arrived, TCPConnections, numTCPConnections,
          newConnectionEvent, accepting, handled

accepts == <<starting, listening, acceptor, accepted, target, stale, arrived, TCPConnections, numTCPConnections,
             newConnectionEvent, accepting, handled>>

Door == INSTANCE Accept WITH NoSocket <- NoClient

ServerInit == Init /\ Door!Init /\ starting = "no"

\* The clients are alike, and it does not matter which of them is the next.
NewClient == CHOOSE c \in Clients : c \notin arrived

Arrive == (\E c \in Clients \ arrived : c = NewClient /\ Door!Accept(c)) /\ UNCHANGED <<vars, starting>>

AcceptThread == Door!AcceptThread /\ UNCHANGED <<vars, starting>>

Prepare == worker = "idle" /\ Door!Prepare /\ UNCHANGED <<vars, starting>>

newConnHandler == \E c \in Clients : Door!Handle(c) /\ AddLock(c) /\ UNCHANGED starting

-----------------------------------------------------------------------------
\* No client is added, or asks for anything.
Drained ==
    /\ worker = "idle"
    /\ \A c \in Clients : inbox[c] = <<>>
    /\ control \in {"ready", "waiting", "apc"}

\* toggleConnection.  A server is stopped once.
disconnect ==
    /\ \/ /\ playlist = FirstSongs /\ (Stops = "at rest" => Drained)
          /\ \E S \in SUBSET Clients : Door!CloseSockets(S) /\ closed' = closed \cup S
       \/ Door!ForgetSockets /\ UNCHANGED closed
    /\ UNCHANGED <<starting, net, playlist, udpSocket, lists, adder, ctl, stream, sending, currentsong,
                   lastSong>>

Others == <<net, lists, adder, ctl, stream, sending, currentsong, lastSong, closed>>
Starting(from, to) == starting = from /\ starting' = to

setPlaylist ==
    /\ Starting("no", "listed") /\ listening = "closed"
    /\ ~access
    /\ playlist' = NextSongs
    /\ UNCHANGED <<Others, udpSocket, listening, acceptor, accepted, target, stale, arrived,
                   TCPConnections, numTCPConnections, newConnectionEvent, accepting, handled>>

startTCP ==
    /\ Starting("listed", "listening") /\ worker = "idle"
    /\ Door!startTCP
    /\ UNCHANGED <<Others, playlist, udpSocket>>

\* The port is not free; the user tries again.
startTCPFails ==
    /\ Starting("listed", "no")
    /\ UNCHANGED <<Others, playlist, udpSocket, listening, acceptor, accepted, target, stale, arrived,
                   TCPConnections, numTCPConnections, newConnectionEvent, accepting, handled>>

\* Then start() finds the control thread running.
setUDPSocket ==
    /\ Starting("listening", "no")
    /\ ~access
    /\ udpSocket' = "next"
    /\ UNCHANGED <<Others, playlist, listening, acceptor, accepted, target, stale, arrived,
                   TCPConnections, numTCPConnections, newConnectionEvent, accepting, handled>>

toggleConnection == disconnect \/ setPlaylist \/ startTCP \/ startTCPFails \/ setUDPSocket

ServerNext ==
    \/ Arrive \/ AcceptThread \/ Prepare \/ newConnHandler \/ toggleConnection
    \/ Work /\ UNCHANGED accepts

ServerSpec == ServerInit /\ [][ServerNext]_<<vars, accepts>>

\* The threads run, and a song comes to its end.
FairServerSpec ==
    /\ ServerSpec
    /\ WF_accepts(AcceptThread) /\ WF_accepts(Prepare \/ newConnHandler)
    /\ WF_vars(addConnection /\ UNCHANGED accepts)
    /\ SF_vars(_threadRoutine /\ UNCHANGED accepts)
    /\ \A t \in Senders : WF_vars(sendWave(t) /\ UNCHANGED accepts)

-----------------------------------------------------------------------------
\* Every client that accept returned gets to the handler, once, and the handler is
\* called with nothing else, while clients come that far apart that the one before
\* has its room.
EveryClientIsHandled == Door!ClientsAreHandled
=============================================================================
