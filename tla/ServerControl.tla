--------------------------- MODULE ServerControl ---------------------------
(***************************************************************************)
(* Server/ServerControlThread and UDPSocket::sendWave: the worker thread   *)
(* of the server adds clients, the control thread serves what they ask,    *)
(* and a thread per song sends it, until a client asks for another.        *)
(*                                                                         *)
(* Of what is sent to a client the model keeps the songs it was told, the  *)
(* last of them, and the playlist it got.  FileTransfer has the downloads. *)
(* Reading a vector is one step, though the code reads it without a lock.  *)
(* The server may be stopped, which closes the connections, and started,   *)
(* which brings another playlist and UDP socket; all else goes on.         *)
(***************************************************************************)
EXTENDS Naturals, Sequences

CONSTANTS Clients, NoClient,
          FirstSongs, NextSongs,   \* the ids of the playlist, and of the one after a restart
          NoSong,
          Senders,      \* threads that send a song, one for each change
          NoSender,
          MaxRequests   \* bound: requests a client makes before it disconnects

Songs == FirstSongs \cup NextSongs
Sockets == {"first", "next"}

ASSUME NamesAssumption == NoClient \notin Clients /\ NoSong \notin Songs /\ NoSender \notin Senders
ASSUME PlaylistAssumption == FirstSongs \cap NextSongs = {}   \* no id is used twice
ASSUME BoundAssumption == MaxRequests \in Nat

VARIABLES worker, adding,        \* what the worker thread does, for which client
          access,                \* mutex
          socks, handles,        \* the clients, and whose queue is waited for
          apcs,                  \* clients to send the playlist to
          inbox, requests,       \* messages from each client, how many it may still send
          known,                 \* the songs each client was sent
          playlist, udpSocket,   \* what the last start has set
          closed,                \* clients whose connection a stop has closed
          told, heard,           \* the song each client was told last, all it was told
          currentsong,
          lastSong,              \* the song somebody is about to tell, of each thread
          control, waits, serving, wanted,   \* the control thread
          stopSending,           \* of each UDP socket
          multicastThread,
          sender, song, targets, via,  \* the threads that send, with which socket
          lost                   \* history: threads that were to stop and will not see it

net     == <<inbox, requests, known, told, heard>>
lists   == <<socks, handles, apcs, access>>
adder   == <<worker, adding>>
ctl     == <<control, waits, serving, wanted>>
stream  == <<stopSending, multicastThread>>
sending == <<sender, song, targets, via, lost>>
site    == <<playlist, udpSocket, closed>>
vars    == <<net, site, lists, adder, ctl, stream, sending, currentsong, lastSong>>

Init ==
    /\ worker = "idle" /\ adding = NoClient
    /\ access = FALSE
    /\ socks = <<>> /\ handles = <<>> /\ apcs = <<>>
    /\ inbox = [c \in Clients |-> <<>>] /\ requests = [c \in Clients |-> 0]
    /\ known = [c \in Clients |-> {}]
    /\ playlist = FirstSongs /\ udpSocket = "first" /\ closed = {}
    /\ told = [c \in Clients |-> NoSong] /\ heard = [c \in Clients |-> {}]
    /\ currentsong = NoSong
    /\ lastSong = [t \in {"worker", "control"} |-> NoSong]
    /\ control = "ready" /\ waits = <<>> /\ serving = 0 /\ wanted = NoSong
    /\ stopSending = [u \in Sockets |-> FALSE] /\ multicastThread = NoSender
    /\ sender = [t \in Senders |-> "none"]
    /\ song = [t \in Senders |-> NoSong]
    /\ targets = [t \in Senders |-> <<>>]
    /\ via = [t \in Senders |-> "first"] /\ lost = {}

Range(s) == {s[i] : i \in DOMAIN s}
Connected(c) == c = adding \/ c \in Range(socks)

-----------------------------------------------------------------------------
\* A client asks for a song it was sent, or disconnects; TCPSocket enqueues.
Request(c) ==
    /\ Connected(c) /\ c \notin closed /\ inbox[c] = <<>>
    /\ requests[c] < MaxRequests
    /\ \/ /\ requests' = [requests EXCEPT ![c] = @ + 1]
          /\ \E s \in known[c] : inbox' = [inbox EXCEPT ![c] = <<[type |-> "change", song |-> s]>>]
       \/ /\ requests' = [requests EXCEPT ![c] = MaxRequests]
          /\ inbox' = [inbox EXCEPT ![c] = <<[type |-> "disconnect"]>>]
    /\ UNCHANGED <<site, known, told, heard, lists, adder, ctl, stream, sending, currentsong, lastSong>>

-----------------------------------------------------------------------------
\* addConnection, for a connection the server has accepted.
WorkerGoto(from, to) == worker = from /\ worker' = to

AddLock(c) ==
    /\ WorkerGoto("idle", "sock")
    /\ ~Connected(c) /\ requests[c] = 0
    /\ ~access /\ access' = TRUE
    /\ adding' = c
    /\ UNCHANGED <<site, net, socks, handles, apcs, ctl, stream, sending, currentsong, lastSong>>

AddSock ==
    /\ WorkerGoto("sock", "handle")
    /\ socks' = Append(socks, adding)
    /\ UNCHANGED <<site, net, handles, apcs, access, adding, ctl, stream, sending, currentsong, lastSong>>

AddHandle ==
    /\ WorkerGoto("handle", "apc")
    /\ handles' = Append(handles, adding)
    /\ UNCHANGED <<site, net, socks, apcs, access, adding, ctl, stream, sending, currentsong, lastSong>>

\* Mutant: nobody wakes the control thread to wait for the new client too.
AddApcNever ==
    /\ WorkerGoto("apc", "read")
    /\ UNCHANGED <<site, net, lists, adding, ctl, stream, sending, currentsong, lastSong>>

AddApc ==
    /\ WorkerGoto("apc", "read")
    /\ apcs' = Append(apcs, adding)
    /\ UNCHANGED <<site, net, socks, handles, access, adding, ctl, stream, sending, currentsong, lastSong>>

AddRead ==
    /\ WorkerGoto("read", "send")
    /\ lastSong' = [lastSong EXCEPT !["worker"] = currentsong]
    /\ UNCHANGED <<site, net, lists, adding, ctl, stream, sending, currentsong>>

Tell(c, s) ==
    \/ (s = NoSong \/ c \in closed) /\ UNCHANGED <<told, heard>>
    \/ /\ s # NoSong /\ c \notin closed
       /\ told' = [told EXCEPT ![c] = s]
       /\ heard' = [heard EXCEPT ![c] = @ \cup {s}]

AddSend ==
    /\ WorkerGoto("send", "idle")
    /\ Tell(adding, lastSong["worker"])
    /\ access' = FALSE
    /\ adding' = NoClient /\ lastSong' = [lastSong EXCEPT !["worker"] = NoSong]
    /\ UNCHANGED <<site, inbox, requests, known, socks, handles, apcs, ctl, stream, sending, currentsong>>

addConnection == AddSock \/ AddHandle \/ AddApc \/ AddRead \/ AddSend

-----------------------------------------------------------------------------
\* _threadRoutine
ControlGoto(from, to) == control = from /\ control' = to

Wait ==
    /\ ControlGoto("ready", "waiting")
    /\ waits' = handles
    /\ UNCHANGED <<site, net, lists, adder, serving, wanted, stream, sending, currentsong, lastSong>>

\* The first of the handles that are signalled.
Signalled(i) == i \in DOMAIN waits /\ inbox[waits[i]] # <<>>

Wake ==
    /\ ControlGoto("waiting", "dequeue")
    /\ \E i \in DOMAIN waits :
          /\ Signalled(i) /\ \A j \in 1..(i - 1) : ~Signalled(j)
          /\ serving' = i
    /\ UNCHANGED <<site, net, lists, adder, waits, wanted, stream, sending, currentsong, lastSong>>

\* stopSong is the first thing a change does.  It sets the flag of the socket of
\* now; the sender may have another one.
Dequeue ==
    /\ control = "dequeue"
    /\ LET c == socks[serving]
       IN  /\ inbox[c] # <<>>
           /\ inbox' = [inbox EXCEPT ![c] = Tail(@)]
           /\ \/ /\ Head(inbox[c]).type = "change"
                 /\ control' = "join"
                 /\ wanted' = Head(inbox[c]).song
                 /\ stopSending' = [stopSending EXCEPT ![udpSocket] = TRUE]
                 /\ lost' = lost \cup {t \in Senders : t = multicastThread /\ via[t] # udpSocket}
              \/ /\ Head(inbox[c]).type = "disconnect"
                 /\ control' = "disconnect"
                 /\ UNCHANGED <<wanted, stopSending, lost>>
    /\ UNCHANGED <<site, requests, known, told, heard, lists, adder, waits, serving, multicastThread,
                   sender, song, targets, via, currentsong, lastSong>>

Without(s, i) == SubSeq(s, 1, i - 1) \o SubSeq(s, i + 1, Len(s))

\* The locals of the loop end with its body.
NoLocals == waits' = <<>> /\ serving' = 0 /\ wanted' = NoSong

\* Mutant: the stop event, the first handle in the code, is not counted.
DisconnectPrevious ==
    /\ ControlGoto("disconnect", "ready")
    /\ ~access
    /\ socks' = Without(socks, serving)
    /\ handles' = IF serving = 1 THEN handles ELSE Without(handles, serving - 1)
    /\ NoLocals
    /\ UNCHANGED <<site, net, apcs, access, adder, stream, sending, currentsong,
                   lastSong>>

\* _handleMsgDisconnect
Disconnect ==
    /\ ControlGoto("disconnect", "ready")
    /\ ~access
    /\ socks' = Without(socks, serving)
    /\ handles' = Without(handles, serving)
    /\ NoLocals
    /\ UNCHANGED <<site, net, apcs, access, adder, stream, sending, currentsong,
                   lastSong>>

\* Mutant: the sender is not waited for.
JoinNever ==
    /\ ControlGoto("join", "create")
    /\ UNCHANGED <<site, net, lists, adder, waits, serving, wanted, stream, sending, currentsong, lastSong>>

\* _handleMsgChangeStream: the sender ends, or five seconds pass.  Nothing is
\* assumed of them but that they are enough for a sender in its loop, which looks
\* at the flag before each packet, to see a flag that is set.
Join ==
    /\ ControlGoto("join", "create")
    /\ \A t \in Senders : t = multicastThread => ~(sender[t] = "send" /\ stopSending[via[t]])
    /\ lost' = lost \cup {t \in Senders : t = multicastThread /\ sender[t] \in {"start", "copy", "open", "tell"}}
    /\ UNCHANGED <<site, net, lists, adder, waits, serving, wanted, stream, sender, song, targets, via,
                   currentsong, lastSong>>

\* getSong; what is not in the list is NULL, and the thread that reads it dies.
getSong(s) == IF s \in playlist THEN s ELSE NoSong

\* The threads are alike, and it does not matter which of them is the next.
NewThread == CHOOSE t \in Senders : sender[t] = "none"

Create ==
    /\ ControlGoto("create", IF getSong(wanted) = NoSong THEN "dead" ELSE "ready")
    /\ NoLocals
    /\ \E t \in Senders :
          /\ sender[t] = "none" /\ t = NewThread
          /\ sender' = [sender EXCEPT ![t] = "start"]
          /\ song' = [song EXCEPT ![t] = getSong(wanted)]
          /\ multicastThread' = t
          /\ via' = [via EXCEPT ![t] = udpSocket]
    /\ UNCHANGED <<site, net, lists, adder, stopSending, targets, lost,
                   currentsong, lastSong>>

\* _sendPlaylistToOne, called while the control thread waits.
ApcPlaylist ==
    /\ ControlGoto("waiting", "apc")
    /\ apcs # <<>>
    /\ known' = [known EXCEPT ![Head(apcs)] = IF Head(apcs) \in closed THEN @ ELSE playlist]
    /\ lastSong' = [lastSong EXCEPT !["control"] = currentsong]
    /\ UNCHANGED <<site, inbox, requests, told, heard, lists, adder, waits, serving, wanted, stream, sending,
                   currentsong>>

\* The wait returns when every routine has been called.
ApcSend ==
    /\ ControlGoto("apc", IF Len(apcs) = 1 THEN "ready" ELSE "waiting")
    /\ Tell(Head(apcs), lastSong["control"])
    /\ apcs' = Tail(apcs) /\ lastSong' = [lastSong EXCEPT !["control"] = NoSong]
    /\ UNCHANGED <<site, inbox, requests, known, socks, handles, access, adder, waits, serving, wanted,
                   stream, sending, currentsong>>

_threadRoutine ==
    Wait \/ Wake \/ Dequeue \/ Disconnect \/ Join \/ Create \/ ApcPlaylist \/ ApcSend

-----------------------------------------------------------------------------
\* _multicastRoutine and sendWave
SenderGoto(t, from, to) ==
    /\ sender[t] = from
    /\ sender' = [sender EXCEPT ![t] = to]
    /\ UNCHANGED <<site, inbox, requests, known, lists, adder, ctl, multicastThread, song, lastSong>>

SetCurrent(t) ==
    /\ SenderGoto(t, "start", "copy")
    /\ currentsong' = song[t]
    /\ UNCHANGED <<told, heard, stopSending, targets, via, lost>>

CopySocks(t) ==
    /\ SenderGoto(t, "copy", "open")
    /\ targets' = [targets EXCEPT ![t] = socks]
    /\ via' = [via EXCEPT ![t] = udpSocket]
    /\ UNCHANGED <<told, heard, stopSending, lost, currentsong>>

\* getSongPath may know the song no more, and the file may not open.  The flag is
\* cleared, though it may be set by now for a sender that is being waited for.
Open(t) ==
    /\ \/ song[t] \in playlist /\ SenderGoto(t, "open", "tell")
       \/ SenderGoto(t, "open", "failed")
    /\ stopSending' = [stopSending EXCEPT ![via[t]] = FALSE]
    /\ lost' = lost \cup {u \in Senders : control = "join" /\ u = multicastThread /\ via[u] = via[t]}
    /\ UNCHANGED <<told, heard, targets, via, currentsong>>

TellNext(t) ==
    /\ targets[t] # <<>>
    /\ SenderGoto(t, "tell", "tell")
    /\ Tell(Head(targets[t]), song[t])
    /\ targets' = [targets EXCEPT ![t] = Tail(@)]
    /\ UNCHANGED <<stopSending, via, lost, currentsong>>

\* Mutant: the loop over the clients ends one too early.
ToldAllButLast(t) ==
    /\ Len(targets[t]) <= 1
    /\ SenderGoto(t, "tell", "send")
    /\ UNCHANGED <<told, heard, stopSending, targets, via, lost, currentsong>>

ToldAll(t) ==
    /\ targets[t] = <<>>
    /\ SenderGoto(t, "tell", "send")
    /\ UNCHANGED <<told, heard, stopSending, targets, via, lost, currentsong>>

\* The song ends by itself or is stopped; packets change nothing modelled.
SendEnds(t) ==
    /\ SenderGoto(t, "send", "done")
    /\ UNCHANGED <<told, heard, stopSending, targets, via, lost, currentsong>>

sendWave(t) == SetCurrent(t) \/ CopySocks(t) \/ Open(t) \/ TellNext(t) \/ ToldAll(t) \/ SendEnds(t)

-----------------------------------------------------------------------------
\* All but the arrival of a client.
Work ==
    \/ addConnection \/ _threadRoutine
    \/ \E c \in Clients : Request(c)
    \/ \E t \in Senders : sendWave(t)

Next == Work \/ \E c \in Clients : AddLock(c)

Spec == Init /\ [][Next]_vars

\* The threads run, and a song comes to its end.
FairSpec ==
    /\ Spec
    /\ WF_vars(addConnection)
    /\ SF_vars(_threadRoutine)
    /\ \A t \in Senders : WF_vars(sendWave(t))

-----------------------------------------------------------------------------
TypeOK ==
    /\ worker \in {"idle", "sock", "handle", "apc", "read", "send"}
    /\ adding \in Clients \cup {NoClient} /\ access \in BOOLEAN
    /\ Range(socks) \subseteq Clients /\ Range(handles) \subseteq Clients
    /\ Range(apcs) \subseteq Clients /\ Range(waits) \subseteq Clients
    /\ \A c \in Clients : Len(inbox[c]) <= 1
    /\ requests \in [Clients -> 0..MaxRequests]
    /\ known \in [Clients -> {{}, FirstSongs, NextSongs}] /\ told \in [Clients -> Songs \cup {NoSong}]
    /\ heard \in [Clients -> SUBSET Songs] /\ lost \subseteq Senders
    /\ playlist \in {FirstSongs, NextSongs} /\ udpSocket \in Sockets /\ closed \subseteq Clients
    /\ via \in [Senders -> Sockets]
    /\ currentsong \in Songs \cup {NoSong} /\ wanted \in Songs \cup {NoSong}
    /\ lastSong \in [{"worker", "control"} -> Songs \cup {NoSong}]
    /\ control \in {"ready", "waiting", "dequeue", "disconnect", "join", "create", "dead", "apc"}
    /\ control \in {"dequeue", "disconnect"} => serving \in DOMAIN socks
    /\ stopSending \in [Sockets -> BOOLEAN] /\ multicastThread \in Senders \cup {NoSender}
    /\ sender \in [Senders -> {"none", "start", "copy", "open", "tell", "send", "done", "failed"}]
    /\ song \in [Senders -> Songs \cup {NoSong}]
    /\ \A t \in Senders : Range(targets[t]) \subseteq Clients

\* The client whose queue was signalled is the one that is served, although a
\* client may be added meanwhile: dequeue does not block the control thread.
ServedClientHasAsked ==
    control = "dequeue" => serving \in DOMAIN socks /\ inbox[socks[serving]] # <<>>

\* A request is served although its client was added while the control thread
\* was waiting for the others.
RequestsAreServed ==
    \A c \in Clients : inbox[c] # <<>> ~> inbox[c] = <<>>

Missing(s) == \E t \in Senders : sender[t] = "failed" /\ song[t] = s

Owed(c) ==
    /\ c \in Range(socks) /\ c \notin closed
    /\ \/ known[c] = {}
       \/ currentsong \notin heard[c] \cup {NoSong} /\ ~Missing(currentsong)

\* A new client gets the playlist and is told of the song that is played, of that one
\* and not of another, however its arrival and the changes of the song overlap; a file
\* that does not open is neither played nor told.
NewClientIsTold == \A c \in Clients : Owed(c) ~> ~Owed(c)

\* A request names a song that the server has when it comes to play it.
SongIsFound == control = "create" => wanted \in playlist

\* "it will also send a flag notifying the clients the current song that is being
\* played": when nobody is about to tell one, every client was told that song last.
LastToldIsCurrent ==
    /\ worker = "idle" /\ apcs = <<>>
    /\ \A t \in Senders : sender[t] \in {"none", "send", "done"}   \* none failed
    => \A c \in Range(socks) : told[c] = currentsong

\* "set the flag to stop sending music in the case of a change of song event":
\* packets of two songs are never sent at once.  Not so: see below.
OneSongIsSent ==
    \A t, u \in Senders : sender[t] = "send" /\ sender[u] = "send" => t = u

\* Packets of two songs are sent at once only if the stop of one was lost: it went to
\* another socket, a sender that opened its file cleared the flag, or the five seconds
\* were over before the sender came to look at it.
OnlyALostStopLetsSongsOverlap ==
    \A t, u \in Senders :
        sender[t] = "send" /\ sender[u] = "send" => t = u \/ t \in lost \/ u \in lost
=============================================================================
