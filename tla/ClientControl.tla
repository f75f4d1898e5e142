--------------------------- MODULE ClientControl ---------------------------
(***************************************************************************)
(* Client/ClientControlThread between the window and the server.  The user *)
(* interface thread enqueues requests, the socket's thread enqueues what   *)
(* the server sends, and the control thread waits for both queues, sends   *)
(* the requests and acts on the messages.  A new song stops the player and *)
(* resets the music buffer, which may never return (PlayWave, MusicBuffer),*)
(* and sets the title, which waits until the window's thread has answered. *)
(*                                                                         *)
(* Requests are numbered by clicks: what they ask for is in FileTransfer   *)
(* and ServerControl.  The server is external here: one of its threads     *)
(* sends the playlist while another announces songs.                       *)
(***************************************************************************)
EXTENDS Naturals, SequencesExt

CONSTANTS NumSongs,     \* songs of the playlist: their ids are 1, 2, ...
          MaxChanges,   \* bound: songs that are announced
          MaxClicks,    \* bound: requests of the user
          MaxStale,     \* bound: reads of the socket's thread after the connection closed
          Capacity,     \* of the queue of requests
          SockCapacity, \* of the queue of what the server sends
          ShortReads,
          Playlister, Multicaster,   \* threads of the server
          Ui, Control, Receiver,     \* threads of the client
          NoThread, NoSender, NoMessage, Garbage, Disconnect

ASSUME BoundAssumption == NumSongs \in Nat \ {0} /\ MaxChanges \in Nat /\ MaxClicks \in Nat /\ MaxStale \in Nat
ASSUME CapacityAssumption == Capacity \in Nat \ {0} /\ SockCapacity \in Nat \ {0}

Songs         == 1..NumSongs
NewSong(s)    == [type |-> "NEW_SONG", song |-> s]
Change(s)     == [type |-> "CHANGE_STREAM", song |-> s]
FromServer    == {NewSong(s) : s \in Songs} \cup {Change(s) : s \in Songs}
FromClient    == 1..MaxClicks \cup {Disconnect}

\* The names of threads, of nobody and of nothing are told apart.
ASSUME ThreadAssumption ==
    /\ Ui # Control /\ Receiver # Control /\ NoThread \notin {Ui, Control, Receiver}
    /\ NoSender \notin {Playlister, Multicaster}
ASSUME MessageAssumption ==
    NoMessage \notin FromClient /\ NoMessage \notin FromServer /\ NoMessage # Garbage

VARIABLES
    messages, canEnqueue, canDequeue, hasMessage, access, pc, node,   \* _msgq
    sMessages, sCanEnqueue, sCanDequeue, sHasMessage, sAccess, sPc, sNode,   \* _sockMsgq
    mutex, sending, sent, wire, receiving, header, buffer, delivered,  \* from the server
    upMutex, upSending, upSent, upWire,                                \* to the server
    closed, staleReads,   \* the connection, and reads since it was closed
    listed, changes,      \* what the server has sent: songs of the list, announcements
    tcpSock, connected,   \* is the socket there, and is it connected
    control,              \* what the control thread does
    window, clicks,       \* of the user
    items, songs,         \* songs in the window, and songs the control thread knows
    playing,              \* the song the player was set up for, or Garbage
    handled               \* history: messages of the server that were acted on

msgqVars == <<messages, canEnqueue, canDequeue, hasMessage, access, pc, node>>
sockVars == <<sMessages, sCanEnqueue, sCanDequeue, sHasMessage, sAccess, sPc, sNode>>
downVars == <<mutex, sending, sent, wire, receiving, header, buffer, delivered>>
upVars   == <<upMutex, upSending, upSent, upWire>>
server   == <<listed, changes>>
link     == <<closed, staleReads>>
socket   == <<tcpSock, connected>>
user     == <<window, clicks>>
effects  == <<items, songs, playing, handled>>
vars     == <<msgqVars, sockVars, downVars, upVars, link, server, socket, control, user, effects>>

Msgq == INSTANCE MessageQueue WITH
            Producers <- {Ui}, Consumers <- {Control}, Pollers <- {Control}, Clearers <- {},
            Messages <- FromClient, Garbage <- NoMessage
Sockq == INSTANCE MessageQueue WITH
            Producers <- {Receiver}, Consumers <- {Control}, Pollers <- {Control}, Clearers <- {},
            Messages <- FromServer \cup {Garbage}, Garbage <- NoMessage, Capacity <- SockCapacity,
            messages <- sMessages, canEnqueue <- sCanEnqueue, canDequeue <- sCanDequeue,
            hasMessage <- sHasMessage, access <- sAccess, pc <- sPc, node <- sNode
Down == INSTANCE Connection WITH
            Senders <- {Playlister, Multicaster}, Messages <- FromServer, MaxLength <- 2,
            Length <- [m \in FromServer |-> IF m.type = "NEW_SONG" THEN 2 ELSE 1]
Up == INSTANCE Connection WITH
            Senders <- {Ui, Control}, Messages <- FromClient, MaxLength <- 1,
            Length <- [m \in FromClient |-> IF m = Disconnect THEN 0 ELSE 1],
            mutex <- upMutex, sending <- upSending, sent <- upSent, wire <- upWire,
            receiving <- "external", header <- "external", buffer <- "external",
            delivered <- "external"

Init ==
    /\ Msgq!Init /\ Sockq!Init /\ Down!Init
    /\ upMutex = NoSender /\ upSending = [t \in {Ui, Control} |-> <<>>]
    /\ upSent = <<>> /\ upWire = <<>>
    /\ listed = 0 /\ changes = 0
    /\ staleReads = 0
    /\ tcpSock = FALSE /\ connected = FALSE
    /\ control = "none"
    /\ window = "connect" /\ clicks = 0
    /\ items = {} /\ songs = {} /\ playing = Garbage /\ handled = <<>>

Running == window \in {"open", "closing"}
UiIsIdle == pc[Ui] = "idle" /\ upSending[Ui] = <<>> /\ upMutex # Ui

-----------------------------------------------------------------------------
\* ConnectionWindow::connect: starts the control thread and shows the window.
connect ==
    /\ window = "connect"
    /\ window' = "open"
    /\ control' = "connecting"
    /\ UNCHANGED <<msgqVars, sockVars, downVars, upVars, link, server, socket, clicks, effects>>

\* The buttons of a song in the list.
onClick ==
    /\ window = "open" /\ UiIsIdle
    /\ items # {} /\ clicks < MaxClicks
    /\ clicks' = clicks + 1
    /\ Msgq!EnqueueCall(Ui)
    /\ node'[Ui] = clicks'
    /\ UNCHANGED <<sockVars, downVars, upVars, link, server, socket, control, window, effects>>

UiEnqueues ==
    /\ Running
    /\ Msgq!Enqueue(Ui)
    /\ UNCHANGED <<sockVars, downVars, upVars, link, server, socket, control, user, effects>>

\* The message to the server goes through whatever tcpSock holds.
onClose ==
    /\ window = "open" /\ UiIsIdle
    /\ IF ~tcpSock THEN window' = "crashed" /\ UNCHANGED upVars
       ELSE IF connected /\ ~closed
            THEN window' = "closing" /\ Up!SendLock(Ui, Disconnect)
            ELSE window' = "closed" /\ UNCHANGED upVars
    /\ UNCHANGED <<msgqVars, sockVars, downVars, link, server, socket, control, clicks, effects>>

UiSends ==
    /\ window = "closing"
    /\ \/ Up!SendPart(Ui) /\ UNCHANGED window
       \/ Up!SendUnlock(Ui) /\ window' = "closed"
    /\ UNCHANGED <<msgqVars, sockVars, downVars, link, server, socket, control, clicks, effects>>

-----------------------------------------------------------------------------
\* The socket's thread, on the client's side: it reads on when enqueue has returned.
Receive ==
    /\ Running /\ connected
    /\ sPc[Receiver] = "idle"
    /\ staleReads < MaxStale
    /\ staleReads' = IF closed /\ wire = <<>> THEN staleReads + 1 ELSE staleReads
    /\ \/ (Down!ReadHeader \/ Down!ReadBody) /\ UNCHANGED sockVars
       \/ /\ Sockq!EnqueueCall(Receiver)
          /\ sNode'[Receiver] = delivered
          /\ Down!ReadNext
    /\ UNCHANGED <<msgqVars, upVars, server, socket, control, user, effects>>
-----------------------------------------------------------------------------
\* The control thread.  Without a connection it goes on all the same.
Connected ==
    /\ Running /\ control = "connecting"
    /\ tcpSock' = TRUE
    /\ connected' \in BOOLEAN
    /\ control' = "wait"
    /\ UNCHANGED <<msgqVars, sockVars, downVars, upVars, link, server, user, effects>>

\* The wait for several objects returns the first that is signalled.
Wait ==
    /\ Running /\ control = "wait"
    /\ \/ /\ hasMessage
          /\ Msgq!DequeueCall(Control)
          /\ control' = "request"
          /\ UNCHANGED sockVars
       \/ /\ ~hasMessage /\ sHasMessage
          /\ Sockq!DequeueCall(Control)
          /\ control' = "message"
          /\ UNCHANGED msgqVars
    /\ UNCHANGED <<downVars, upVars, link, server, socket, user, effects>>

Dequeues ==
    /\ Running
    /\ \/ Msgq!Dequeue(Control) /\ UNCHANGED sockVars
       \/ Sockq!Dequeue(Control) /\ UNCHANGED msgqVars
    /\ UNCHANGED <<downVars, upVars, link, server, socket, control, user, effects>>

\* _handleMsgqMsg: a request that cannot be sent is lost.
_handleMsgqMsg ==
    /\ Running /\ control = "request" /\ pc[Control] = "idle"
    /\ IF connected /\ ~closed
       THEN Up!SendLock(Control, node[Control]) /\ control' = "send"
       ELSE UNCHANGED upVars /\ control' = "wait"
    /\ UNCHANGED <<msgqVars, sockVars, downVars, link, server, socket, user, effects>>

ControlSends ==
    /\ Running /\ control = "send"
    /\ \/ Up!SendPart(Control) /\ UNCHANGED control
       \/ Up!SendUnlock(Control) /\ control' = "wait"
    /\ UNCHANGED <<msgqVars, sockVars, downVars, link, server, socket, user, effects>>

\* _handleSockMsgqMsg: onNewSong shows and keeps the song; onChangeStream looks it
\* up, stops the player, gives the buffer a new song, sets the title and starts the
\* player again.
onNewSong(m) ==
    /\ items' = items \cup {m.song} /\ songs' = songs \cup {m.song}
    /\ control' = "wait"
    /\ UNCHANGED playing

onChangeStream(m) ==
    /\ playing' = IF m.song \in songs THEN m.song ELSE Garbage
    /\ control' = "stopPlaying"
    /\ UNCHANGED <<items, songs>>

_handleSockMsgqMsg ==
    /\ Running /\ control = "message" /\ sPc[Control] = "idle"
    /\ LET m == sNode[Control]
       IN  /\ handled' = IF closed THEN handled ELSE Append(handled, m)
           /\ CASE m = Garbage -> control' = "wait" /\ UNCHANGED <<items, songs, playing>>
                [] m \in {NewSong(s) : s \in Songs} -> onNewSong(m)
                [] OTHER -> onChangeStream(m)
    /\ UNCHANGED <<msgqVars, sockVars, downVars, upVars, link, server, socket, user>>

\* stopPlaying waits for the threads of the player, newSong for the mutex of the
\* buffer, startPlaying for the interface of the player.
InPlayer == control \in {"stopPlaying", "newSong", "startPlaying"}

PlayerReturns ==
    /\ Running
    /\ \/ control = "stopPlaying" /\ control' = "newSong"
       \/ control = "newSong" /\ control' = "window"
       \/ control = "startPlaying" /\ control' = "wait"
    /\ UNCHANGED <<msgqVars, sockVars, downVars, upVars, link, server, socket, user, effects>>

WindowAnswers ==
    /\ Running /\ control = "window" /\ UiIsIdle
    /\ control' = "startPlaying"
    /\ UNCHANGED <<msgqVars, sockVars, downVars, upVars, link, server, socket, user, effects>>

-----------------------------------------------------------------------------
\* The server: the playlist in order, and announcements by two threads.
ServerSends ==
    /\ connected /\ ~closed
    /\ \/ /\ listed < NumSongs
          /\ Down!SendLock(Playlister, NewSong(listed + 1))
          /\ listed' = listed + 1
          /\ UNCHANGED changes
       \/ /\ changes < MaxChanges
          /\ changes' = changes + 1
          /\ \E t \in {Playlister, Multicaster}, s \in Songs :
                /\ t = Playlister => listed = NumSongs
                /\ Down!SendLock(t, Change(s))
          /\ UNCHANGED listed
    /\ UNCHANGED <<msgqVars, sockVars, upVars, link, socket, control, user, effects>>

ServerSendsOn ==
    /\ \E t \in {Playlister, Multicaster} : Down!Send(t)
    /\ UNCHANGED <<msgqVars, sockVars, upVars, link, server, socket, control, user, effects>>

ServerCloses ==
    /\ connected /\ Down!Close
    /\ UNCHANGED <<msgqVars, sockVars, upVars, staleReads, server, socket, control, user, effects>>

-----------------------------------------------------------------------------
UiThread      == UiEnqueues \/ UiSends
ControlThread == Connected \/ Wait \/ Dequeues \/ _handleMsgqMsg \/ ControlSends
                 \/ _handleSockMsgqMsg \/ WindowAnswers
ReceiverThread ==
    \/ Receive
    \/ /\ Running /\ Sockq!Enqueue(Receiver)
       /\ UNCHANGED <<msgqVars, downVars, upVars, link, server, socket, control, user, effects>>

Next ==
    \/ connect \/ onClick \/ onClose
    \/ UiThread \/ ControlThread \/ PlayerReturns \/ ReceiverThread
    \/ ServerSends \/ ServerSendsOn \/ ServerCloses

Spec == Init /\ [][Next]_vars

(***************************************************************************)
(* The threads run, the mutexes are given in turn, and a thread that is    *)
(* sending ends.  The user does what it likes, and so does the server.     *)
(* That the player and its buffer return is not assumed.                   *)
(***************************************************************************)
FairSpec ==
    /\ Spec
    /\ WF_vars(UiThread) /\ WF_vars(ControlThread) /\ WF_vars(ReceiverThread)
    /\ WF_vars(ServerSendsOn)

-----------------------------------------------------------------------------
\* Nothing in the way from the server to the client loses, repeats or reorders
\* its messages while the connection is open and reads are whole: what the
\* control thread has acted on is a prefix of what two threads of the server
\* sent.  The requests go out in the order of the clicks, each at most once.
InOrder(s) == \A i, j \in DOMAIN s : i < j /\ Disconnect \notin {s[i], s[j]} => s[i] < s[j]
OrderIsKept ==
    /\ ~closed => IsPrefix(handled, sent)
    /\ InOrder(upSent)

\* The control thread never sleeps in a queue that the other queue, or the
\* window, has to wait for: an event it was woken by is never out of date.
ControlFindsMessage ==
    /\ Msgq!WokenPollerFindsMessage /\ Sockq!WokenPollerFindsMessage
    /\ Msgq!HasMessageIsNotEmpty /\ Sockq!HasMessageIsNotEmpty

\* The window's thread waits for room in the queue of requests, and the control
\* thread, which makes it, waits for the window's thread: for ever.
WaitForEachOther == control = "window" /\ pc[Ui] = "enqSlot" /\ canEnqueue = 0

\* While the connection and the window are open everything arrives: what the
\* server sent is acted on, and what the user asked for gets out, although the
\* control thread prefers the requests and the window's thread may have to wait for
\* room.  Only two things keep the control thread from it: a call of the player or
\* of its buffer that never returns, and that the two threads wait for each other.
EverythingArrives ==
    \/ <>[](connected /\ ~closed /\ window = "open" =>
                Len(handled) = Len(sent) /\ Len(upSent) = clicks)
    \/ <>[]InPlayer
    \/ <>[]WaitForEachOther

-----------------------------------------------------------------------------
\* The song a listener is told about is one it knows, so that the player is set
\* up for its format.
AnnouncedSongIsKnown ==
    control = "window" => playing = sNode[Control].song

\* Not so: the threads do wait for each other.
NobodyWaitsForEver == ~WaitForEachOther

\* Closing the window finds a socket to say goodbye with.
CloseFindsSocket == window # "crashed"
=============================================================================
