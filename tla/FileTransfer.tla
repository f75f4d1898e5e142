---------------------------- MODULE FileTransfer ----------------------------
(***************************************************************************)
(* Client/FileTransferer on both sides of the connections: the save button *)
(* of a song in the window of a client, the server that sends the file in  *)
(* a thread of its own, and the client that writes what it receives.       *)
(*                                                                         *)
(* A file is the sequence 1..Parts of what is sent of it in one packet.    *)
(* What lies between the button and the server, a queue, a connection and  *)
(* another queue, is one queue, and so is the way back.                    *)
(***************************************************************************)
EXTENDS Naturals, Sequences

CONSTANTS Clients, NoClient,
          Songs,
          Parts,       \* packets a file takes
          MaxClicks    \* bound: clicks of each client

ASSUME ClientAssumption == NoClient \notin Clients
ASSUME BoundAssumption == Parts \in Nat /\ MaxClicks \in Nat

VARIABLES downloading, clicks,  \* what each save button shows, how many were hit
          requests,             \* from each client to the server
          filesOut,             \* the client each song was first sent to
          transferring,         \* for each song and client
          transfer,             \* what the thread of each song does
          data, f_SOF,          \* its packet: the part, 0 before the first, and the flag
          packets,              \* from the server to each client
          filesIn, isOpen       \* what each client has of each song

client  == <<downloading, clicks>>
server  == <<filesOut, transferring>>
threads == <<transfer, data, f_SOF>>
files   == <<filesIn, isOpen>>
vars    == <<client, requests, server, threads, packets, files>>

NoFile == <<0>>

Init ==
    /\ downloading = [c \in Clients |-> [s \in Songs |-> FALSE]]
    /\ clicks = [c \in Clients |-> 0]
    /\ requests = [c \in Clients |-> <<>>]
    /\ filesOut = [s \in Songs |-> NoClient]
    /\ transferring = [s \in Songs |-> [c \in Clients |-> FALSE]]
    /\ transfer = [s \in Songs |-> "none"]
    /\ data = [s \in Songs |-> 0]
    /\ f_SOF = [s \in Songs |-> TRUE]
    /\ packets = [c \in Clients |-> <<>>]
    /\ filesIn = [c \in Clients |-> [s \in Songs |-> NoFile]]
    /\ isOpen = [c \in Clients |-> [s \in Songs |-> FALSE]]

-----------------------------------------------------------------------------
\* FileListItem: the button requests a download and cancels it, in turn.
onClick(c, s) ==
    /\ clicks[c] < MaxClicks
    /\ clicks' = [clicks EXCEPT ![c] = @ + 1]
    /\ downloading' = [downloading EXCEPT ![c][s] = ~@]
    /\ requests' = [requests EXCEPT ![c] =
                      Append(@, [type |-> IF downloading[c][s] THEN "cancel" ELSE "request",
                                 song |-> s])]
    /\ UNCHANGED <<server, threads, packets, files>>

-----------------------------------------------------------------------------
\* The control thread of the server takes a request of a client.
Take(c, type, s) ==
    /\ requests[c] # <<>>
    /\ Head(requests[c]) = [type |-> type, song |-> s]
    /\ requests' = [requests EXCEPT ![c] = Tail(@)]

\* A song that has been sent to any client is not sent again.
sendFile(c, s) ==
    /\ Take(c, "request", s)
    /\ IF filesOut[s] = NoClient
       THEN /\ filesOut' = [filesOut EXCEPT ![s] = c]
            /\ transferring' = [transferring EXCEPT ![s][c] = TRUE]
            /\ transfer' = [transfer EXCEPT ![s] = "open"]
       ELSE UNCHANGED <<filesOut, transferring, transfer>>
    /\ UNCHANGED <<client, data, f_SOF, packets, files>>

cancelTransfer(c, s) ==
    /\ Take(c, "cancel", s)
    /\ transferring' = [transferring EXCEPT ![s][c] = FALSE]
    /\ UNCHANGED <<client, filesOut, threads, packets, files>>

-----------------------------------------------------------------------------
\* TransferThread
Goto(s, from, to) ==
    /\ transfer[s] = from
    /\ transfer' = [transfer EXCEPT ![s] = to]
    /\ UNCHANGED <<client, requests, server, files>>

\* Without a file nothing is sent.
Opened(s) ==
    /\ Goto(s, "open", "read") \/ Goto(s, "open", "failed")
    /\ UNCHANGED <<data, f_SOF, packets>>

Read(s) ==
    /\ Goto(s, "read", "send")
    /\ transferring[s][filesOut[s]] /\ data[s] < Parts
    /\ data' = [data EXCEPT ![s] = @ + 1]
    /\ UNCHANGED <<f_SOF, packets>>

ReadEnds(s) ==
    /\ Goto(s, "read", "end")
    /\ ~(transferring[s][filesOut[s]] /\ data[s] < Parts)
    /\ UNCHANGED <<data, f_SOF, packets>>

Packet(s, eof) == [song |-> s, part |-> data[s], sof |-> f_SOF[s], eof |-> eof]

Send(s, eof) == packets' = [packets EXCEPT ![filesOut[s]] = Append(@, Packet(s, eof))]

\* Mutant: every packet starts the file.
SendDataKeepsSOF(s) ==
    /\ Goto(s, "send", "read")
    /\ Send(s, FALSE)
    /\ UNCHANGED <<data, f_SOF>>

SendData(s) ==
    /\ Goto(s, "send", "read")
    /\ Send(s, FALSE)
    /\ f_SOF' = [f_SOF EXCEPT ![s] = FALSE]
    /\ UNCHANGED data

\* Mutant: a transfer that was cancelled just ends.
SendEndUnlessCancelled(s) ==
    /\ Goto(s, "end", "done")
    /\ IF transferring[s][filesOut[s]] THEN Send(s, TRUE) ELSE UNCHANGED packets
    /\ UNCHANGED <<data, f_SOF>>

\* The packet that ends the file still holds the last part.
SendEnd(s) ==
    /\ Goto(s, "end", "done")
    /\ Send(s, TRUE)
    /\ UNCHANGED <<data, f_SOF>>

TransferThread(s) == Opened(s) \/ Read(s) \/ ReadEnds(s) \/ SendData(s) \/ SendEnd(s)

-----------------------------------------------------------------------------
recvFile(c) ==
    /\ packets[c] # <<>>
    /\ packets' = [packets EXCEPT ![c] = Tail(@)]
    /\ LET p    == Head(packets[c])
           old  == IF p.sof THEN <<>> ELSE filesIn[c][p.song]
           part == IF p.part = 0 THEN <<>> ELSE <<p.part>>
       IN  /\ filesIn' = [filesIn EXCEPT ![c][p.song] = old \o part]
           /\ isOpen' = [isOpen EXCEPT ![c][p.song] = ~p.eof]
    /\ UNCHANGED <<client, requests, server, threads>>

-----------------------------------------------------------------------------
Next ==
    \/ \E c \in Clients, s \in Songs : onClick(c, s) \/ sendFile(c, s) \/ cancelTransfer(c, s)
    \/ \E s \in Songs : TransferThread(s)
    \/ \E c \in Clients : recvFile(c)

Spec == Init /\ [][Next]_vars

\* The threads run and the connections deliver; nobody has to click.
FairSpec ==
    /\ Spec
    /\ \A c \in Clients :
          /\ WF_vars(\E s \in Songs : sendFile(c, s) \/ cancelTransfer(c, s))
          /\ WF_vars(recvFile(c))
    /\ \A s \in Songs : WF_vars(TransferThread(s))

-----------------------------------------------------------------------------
TypeOK ==
    /\ downloading \in [Clients -> [Songs -> BOOLEAN]]
    /\ clicks \in [Clients -> 0..MaxClicks]
    /\ \A c \in Clients : \A i \in DOMAIN requests[c] :
          requests[c][i] \in [type : {"request", "cancel"}, song : Songs]
    /\ filesOut \in [Songs -> Clients \cup {NoClient}]
    /\ transferring \in [Songs -> [Clients -> BOOLEAN]]
    /\ transfer \in [Songs -> {"none", "open", "failed", "read", "send", "end", "done"}]
    /\ data \in [Songs -> 0..Parts] /\ f_SOF \in [Songs -> BOOLEAN]
    /\ \A c \in Clients : \A i \in DOMAIN packets[c] :
          packets[c][i] \in [song : Songs, part : 0..Parts, sof : BOOLEAN, eof : BOOLEAN]
    /\ isOpen \in [Clients -> [Songs -> BOOLEAN]]

Song(n) == [i \in 1..n |-> i]

\* Whatever is downloaded and cancelled at the same time, a file grows in order,
\* from its first packet on and without a hole; what is closed and was not
\* cancelled starts with the whole song.
FilesGrowInOrder ==
    \A c \in Clients, s \in Songs :
        filesIn[c][s] # NoFile =>
            /\ isOpen[c][s] => filesIn[c][s] = Song(Len(filesIn[c][s]))
            /\ ~isOpen[c][s] /\ transferring[s][c] => SubSeq(filesIn[c][s], 1, Parts) = Song(Parts)

\* The two ends agree when a transfer is over: a file that was opened is closed,
\* cancelled or not.
OpenFilesAreClosed == \A c \in Clients, s \in Songs : isOpen[c][s] ~> ~isOpen[c][s]

\* "Multiple file transfers can occur at once, both up and down, from the same
\* instance": a client that waits for a song that can be opened gets it, also when
\* another client has asked for it.
DownloadsStart ==
    \A c \in Clients, s \in Songs :
        downloading[c][s] ~>
            ~downloading[c][s] \/ filesIn[c][s] # NoFile \/ transfer[s] = "failed"
=============================================================================
