------------------------------ MODULE PlayWave ------------------------------
(***************************************************************************)
(* Client/PlayWave: the play thread moves audio from a message queue to    *)
(* the sound device, the cleanup thread frees the packets the device has   *)
(* played, and any thread may start and stop the two.  Packets wait for    *)
(* the cleanup thread in a linked list whose end is lastAudioPacket.       *)
(*                                                                         *)
(* The message queue is used through its contract (BoundedFifo, and        *)
(* HasMessageIsNotEmpty except for clear), each call in one step; what is  *)
(* done while lastAudioPacketAccess is held is one step too.               *)
(***************************************************************************)
EXTENDS Integers, FiniteSets

CONSTANTS Callers,        \* threads that start and stop the player
          Packets,        \* memory for audio packets
          NoPacket,
          Devices,        \* handles waveOutOpen may return
          NoDevice,
          QueueCapacity,  \* of the message queue
          Capacity,       \* of the linked list
          NoThread        \* the owner of a free mutex

ASSUME CallerAssumption == NoThread \notin Callers
ASSUME CapacityAssumption == QueueCapacity \in Nat \ {0} /\ Capacity \in Nat \ {0}
\* malloc never fails: the list holds at most Capacity packets, the play thread one.
ASSUME PacketAssumption ==
    IsFiniteSet(Packets) /\ Cardinality(Packets) = Capacity + 1 /\ NoPacket \notin Packets
ASSUME DeviceAssumption == NoDevice \notin Devices

VARIABLES queued,           \* messages in the queue
          hasMessage,       \* its event
          open,             \* devices that are open
          speakers,         \* the device packets are written to
          header,           \* what has become of each packet
          device,           \* the device each packet was written to
          dwUser,           \* the packet linked after each packet
          lastAudioPacket,
          canEnqueue, canDequeue,   \* semaphores of the linked list
          playThread,       \* is the handle of the play thread valid
          playStop,         \* playThreadStopEv
          playPc, playPacket,
          cleanupThread,    \* is the handle of the cleanup thread valid
          cleanPc, cleanPacket,
          interfaceAccess,  \* mutex of start and stop
          pc                \* the call each caller is in

queue   == <<queued, hasMessage>>
devices == <<open, speakers>>
list    == <<header, device, dwUser, lastAudioPacket>>
sems    == <<canEnqueue, canDequeue>>
player  == <<playThread, playStop, playPc, playPacket>>
cleaner == <<cleanupThread, cleanPc, cleanPacket>>
calls   == <<interfaceAccess, pc>>
vars    == <<queue, devices, list, sems, player, cleaner, calls>>

Init ==
    /\ queued = 0 /\ hasMessage = FALSE
    /\ open = {} /\ speakers = NoDevice
    /\ header = [p \in Packets |-> "free"]
    /\ device = [p \in Packets |-> NoDevice]
    /\ dwUser = [p \in Packets |-> NoPacket]
    /\ lastAudioPacket = NoPacket
    /\ canEnqueue = Capacity /\ canDequeue = 0
    /\ playThread = FALSE /\ playStop = FALSE /\ playPc = "off" /\ playPacket = NoPacket
    /\ cleanupThread = FALSE /\ cleanPc = "off" /\ cleanPacket = NoPacket
    /\ interfaceAccess = NoThread
    /\ pc = [c \in Callers |-> "idle"]

-----------------------------------------------------------------------------
\* The threads that fill the queue, and the device.
Enqueue ==
    /\ queued < QueueCapacity
    /\ queued' = queued + 1
    /\ hasMessage' = TRUE
    /\ UNCHANGED <<devices, list, sems, player, cleaner, calls>>

Played(p) ==
    /\ header[p] = "playing"
    /\ header' = [header EXCEPT ![p] = "done"]
    /\ UNCHANGED <<queue, devices, device, dwUser, lastAudioPacket, sems, player, cleaner, calls>>

-----------------------------------------------------------------------------
\* playRoutine: of two signalled handles the first, the stop event, is served.
PlayGoto(from, to) ==
    /\ playPc = from
    /\ playPc' = to
    /\ UNCHANGED <<playThread, playStop, calls>>

PlayStops ==
    /\ playStop
    /\ PlayGoto("wait", "off")
    /\ UNCHANGED <<queue, devices, list, sems, playPacket, cleaner>>

PlayMessage ==
    /\ hasMessage /\ ~playStop
    /\ PlayGoto("wait", "dequeue")
    /\ UNCHANGED <<queue, devices, list, sems, playPacket, cleaner>>

\* handleMsgqMsg
PlayDequeue ==
    /\ queued > 0
    /\ PlayGoto("dequeue", "write")
    /\ queued' = queued - 1
    /\ hasMessage' = (queued' > 0)
    /\ UNCHANGED <<devices, list, sems, playPacket, cleaner>>

\* A packet written to no device is never marked as done.
PlayWrite ==
    /\ PlayGoto("write", "slot")
    /\ \E p \in Packets :
          /\ header[p] = "free"
          /\ playPacket' = p
          /\ header' = [header EXCEPT ![p] = IF speakers \in open THEN "playing" ELSE "refused"]
          /\ device' = [device EXCEPT ![p] = speakers]
          /\ dwUser' = [dwUser EXCEPT ![p] = NoPacket]
    /\ UNCHANGED <<queue, devices, lastAudioPacket, sems, cleaner>>

\* Mutant: a wait that is not waited for.
PlaySlotUnwaited ==
    /\ PlayGoto("slot", "link")
    /\ canEnqueue' = canEnqueue - 1
    /\ UNCHANGED <<queue, devices, list, canDequeue, playPacket, cleaner>>

PlaySlot ==
    /\ canEnqueue > 0
    /\ PlayGoto("slot", "link")
    /\ canEnqueue' = canEnqueue - 1
    /\ UNCHANGED <<queue, devices, list, canDequeue, playPacket, cleaner>>

\* The cleanup thread is started with this packet unless its handle is valid.
PlayLink ==
    /\ PlayGoto("link", "post")
    /\ dwUser' = IF lastAudioPacket = NoPacket THEN dwUser
                 ELSE [dwUser EXCEPT ![lastAudioPacket] = playPacket]
    /\ lastAudioPacket' = playPacket
    /\ cleanupThread' = TRUE
    /\ IF cleanupThread
       THEN UNCHANGED <<cleanPc, cleanPacket>>
       ELSE cleanPc' = "wait" /\ cleanPacket' = playPacket
    /\ UNCHANGED <<queue, devices, header, device, sems, playPacket>>

PlayPost ==
    /\ PlayGoto("post", "wait")
    /\ canDequeue' = canDequeue + 1
    /\ UNCHANGED <<queue, devices, list, canEnqueue, playPacket, cleaner>>

Play == PlayStops \/ PlayMessage \/ PlayDequeue \/ PlayWrite \/ PlaySlot \/ PlayLink \/ PlayPost

-----------------------------------------------------------------------------
\* cleanupRoutine
CleanGoto(from, to) ==
    /\ cleanPc = from
    /\ cleanPc' = to
    /\ UNCHANGED <<queue, devices, player, calls>>

CleanWait ==
    /\ CleanGoto("wait", "token")
    /\ header[cleanPacket] = "done"
    /\ UNCHANGED <<list, sems, cleanupThread, cleanPacket>>

CleanToken ==
    /\ CleanGoto("token", "free")
    /\ canDequeue > 0
    /\ canDequeue' = canDequeue - 1
    /\ UNCHANGED <<list, canEnqueue, cleanupThread, cleanPacket>>

\* What was in the memory is forgotten.
Freed(p) ==
    /\ header' = [header EXCEPT ![p] = "free"]
    /\ device' = [device EXCEPT ![p] = NoDevice]
    /\ dwUser' = [dwUser EXCEPT ![p] = NoPacket]

\* Mutant: the last packet stays the last one when it is freed.
CleanFreeKeepsLast ==
    /\ CleanGoto("free", "post")
    /\ cleanPacket' = dwUser[cleanPacket]
    /\ Freed(cleanPacket)
    /\ UNCHANGED <<lastAudioPacket, sems, cleanupThread>>

CleanFree ==
    /\ CleanGoto("free", "post")
    /\ cleanPacket' = dwUser[cleanPacket]
    /\ Freed(cleanPacket)
    /\ lastAudioPacket' = IF lastAudioPacket = cleanPacket THEN NoPacket ELSE lastAudioPacket
    /\ UNCHANGED <<sems, cleanupThread>>

\* Mutant: the token is posted again instead of the slot.
CleanPostSwapped ==
    /\ CleanGoto("post", IF cleanPacket = NoPacket THEN "stop" ELSE "wait")
    /\ canDequeue' = canDequeue + 1
    /\ UNCHANGED <<list, canEnqueue, cleanupThread, cleanPacket>>

CleanPost ==
    /\ CleanGoto("post", IF cleanPacket = NoPacket THEN "stop" ELSE "wait")
    /\ canEnqueue' = canEnqueue + 1
    /\ UNCHANGED <<list, canDequeue, cleanupThread, cleanPacket>>

\* stopRoutine from the thread itself only makes the handle invalid.
CleanStop ==
    /\ CleanGoto("stop", "off")
    /\ cleanupThread' = FALSE
    /\ UNCHANGED <<list, sems, cleanPacket>>

Clean == CleanWait \/ CleanToken \/ CleanFree \/ CleanPost \/ CleanStop

-----------------------------------------------------------------------------
Goto(c, from, to) ==
    /\ pc[c] = from
    /\ pc' = [pc EXCEPT ![c] = to]

\* startPlaying, resumePlaying: also of a player that plays, whose device is
\* then forgotten.  waveOutOpen may succeed or fail.
StartLock(c) ==
    /\ Goto(c, "idle", "open")
    /\ interfaceAccess = NoThread
    /\ interfaceAccess' = c
    /\ UNCHANGED <<queue, devices, list, sems, player, cleaner>>

StartOpen(c) ==
    /\ \E d \in Devices \ open :
          /\ Goto(c, "open", "start")
          /\ open' = open \cup {d}
          /\ speakers' = d
    /\ UNCHANGED <<queue, list, sems, player, cleaner, interfaceAccess>>

StartFails(c) ==
    /\ Goto(c, "open", "startUnlock")
    /\ speakers' = NoDevice
    /\ UNCHANGED <<queue, open, list, sems, player, cleaner, interfaceAccess>>

StartThread(c) ==
    /\ Goto(c, "start", "clear")
    /\ playThread' = TRUE
    /\ IF playThread
       THEN UNCHANGED <<playStop, playPc>>
       ELSE playStop' = FALSE /\ playPc' = "wait"
    /\ UNCHANGED <<queue, devices, list, sems, playPacket, cleaner, interfaceAccess>>

\* The thread already runs; clear() leaves hasMessage as it is.
StartClear(c) ==
    /\ Goto(c, "clear", "startUnlock")
    /\ queued' = 0
    /\ UNCHANGED <<hasMessage, devices, list, sems, player, cleaner, interfaceAccess>>

StartUnlock(c) ==
    /\ Goto(c, "startUnlock", "idle")
    /\ interfaceAccess' = NoThread
    /\ UNCHANGED <<queue, devices, list, sems, player, cleaner>>

Start(c) ==
    StartOpen(c) \/ StartFails(c) \/ StartThread(c) \/ StartClear(c) \/ StartUnlock(c)

-----------------------------------------------------------------------------
\* stopPlaying
StopCall(c) ==
    /\ Goto(c, "idle", "stop")
    /\ UNCHANGED <<queue, devices, list, sems, player, cleaner, interfaceAccess>>

StopLock(c) ==
    /\ Goto(c, "stop", "stopPlay")
    /\ interfaceAccess = NoThread
    /\ interfaceAccess' = c
    /\ UNCHANGED <<queue, devices, list, sems, player, cleaner>>

StopPlay(c) ==
    /\ Goto(c, "stopPlay", IF playThread THEN "joinPlay" ELSE "reset")
    /\ playStop' = (playStop \/ playThread)
    /\ UNCHANGED <<queue, devices, list, sems, playThread, playPc, playPacket, cleaner, interfaceAccess>>

JoinPlay(c) ==
    /\ Goto(c, "joinPlay", "reset")
    /\ playPc = "off"
    /\ playThread' = FALSE
    /\ UNCHANGED <<queue, devices, list, sems, playStop, playPc, playPacket, cleaner, interfaceAccess>>

\* waveOutReset marks what is left on the device as done.
StopReset(c) ==
    /\ Goto(c, "reset", "stopClean")
    /\ header' = [p \in Packets |->
                    IF header[p] = "playing" /\ device[p] = speakers THEN "done" ELSE header[p]]
    /\ UNCHANGED <<queue, devices, device, dwUser, lastAudioPacket, sems, player, cleaner, interfaceAccess>>

\* Mutant: the cleanup thread is not waited for.
StopCleanGoesOn(c) ==
    /\ Goto(c, "stopClean", "stopUnlock")
    /\ UNCHANGED <<queue, devices, list, sems, player, cleaner, interfaceAccess>>

\* stopRoutine reads the handle once to see whether the thread runs and once
\* more to wait for it.  INVALID_HANDLE_VALUE is also the handle of the current
\* process, so a wait for it never ends.
StopClean(c) ==
    /\ Goto(c, "stopClean", IF cleanupThread THEN "joinClean" ELSE "stopUnlock")
    /\ UNCHANGED <<queue, devices, list, sems, player, cleaner, interfaceAccess>>

JoinClean(c) ==
    /\ Goto(c, "joinClean", IF cleanupThread THEN "joining" ELSE "joiningSelf")
    /\ UNCHANGED <<queue, devices, list, sems, player, cleaner, interfaceAccess>>

CleanJoined(c) ==
    /\ Goto(c, "joining", "stopUnlock")
    /\ cleanPc = "off"
    /\ cleanupThread' = FALSE
    /\ UNCHANGED <<queue, devices, list, sems, player, cleanPc, cleanPacket, interfaceAccess>>

StopUnlock(c) ==
    /\ Goto(c, "stopUnlock", "close")
    /\ interfaceAccess' = NoThread
    /\ UNCHANGED <<queue, devices, list, sems, player, cleaner>>

\* closeDevice, after the mutex was released; a device that still plays stays open.
StopClose(c) ==
    /\ \/ /\ Goto(c, "close", "forget")
          /\ speakers \in open
          /\ \A p \in Packets : ~(header[p] = "playing" /\ device[p] = speakers)
          /\ open' = open \ {speakers}
       \/ /\ Goto(c, "close", "idle")
          /\ \/ speakers \notin open
             \/ \E p \in Packets : header[p] = "playing" /\ device[p] = speakers
          /\ UNCHANGED open
    /\ UNCHANGED <<queue, speakers, list, sems, player, cleaner, interfaceAccess>>

\* speakers = 0, also when another caller has opened a device since.
StopForget(c) ==
    /\ Goto(c, "forget", "idle")
    /\ speakers' = NoDevice
    /\ UNCHANGED <<queue, open, list, sems, player, cleaner, interfaceAccess>>

Stop(c) ==
    \/ StopLock(c) \/ StopPlay(c) \/ JoinPlay(c) \/ StopReset(c) \/ StopClean(c)
    \/ JoinClean(c) \/ CleanJoined(c) \/ StopUnlock(c)
    \/ StopClose(c) \/ StopForget(c)

-----------------------------------------------------------------------------
Next ==
    \/ Enqueue \/ Play \/ Clean
    \/ \E p \in Packets : Played(p)
    \/ \E c \in Callers : StartLock(c) \/ Start(c) \/ StopCall(c) \/ Stop(c)

Spec == Init /\ [][Next]_vars

(***************************************************************************)
(* The threads run, the device plays what it has, and a waiter of a mutex  *)
(* is served in turn.  Nobody has to call, and nothing has to arrive.      *)
(***************************************************************************)
FairSpec ==
    /\ Spec
    /\ WF_vars(Play) /\ WF_vars(Clean)
    /\ \A p \in Packets : WF_vars(Played(p))
    /\ \A c \in Callers : SF_vars(Start(c)) /\ SF_vars(Stop(c))

-----------------------------------------------------------------------------
TypeOK ==
    /\ queued \in 0..QueueCapacity /\ hasMessage \in BOOLEAN
    /\ open \subseteq Devices /\ speakers \in Devices \cup {NoDevice}
    /\ header \in [Packets -> {"free", "playing", "done", "refused"}]
    /\ device \in [Packets -> Devices \cup {NoDevice}]
    /\ dwUser \in [Packets -> Packets \cup {NoPacket}]
    /\ lastAudioPacket \in Packets \cup {NoPacket}
    /\ canEnqueue \in 0..Capacity /\ canDequeue \in 0..Capacity
    /\ playThread \in BOOLEAN /\ playStop \in BOOLEAN
    /\ playPc \in {"off", "wait", "dequeue", "write", "slot", "link", "post"}
    /\ playPacket \in Packets \cup {NoPacket}
    /\ cleanupThread \in BOOLEAN
    /\ cleanPc \in {"off", "wait", "token", "free", "post", "stop"}
    /\ cleanPacket \in Packets \cup {NoPacket}
    /\ interfaceAccess \in Callers \cup {NoThread}
    /\ pc \in [Callers -> {"idle", "open", "start", "clear", "startUnlock", "stop",
                           "stopPlay", "joinPlay", "reset", "stopClean", "joinClean", "joining",
                           "joiningSelf", "stopUnlock", "close", "forget"}]

Allocated == {p \in Packets : header[p] # "free"}
Count(condition) == IF condition THEN 1 ELSE 0

\* The packets reached from p by following dwUser.
Chain(p) ==
    LET reached[n \in 0..Capacity] ==
            IF n = 0 THEN {p} ELSE reached[n - 1] \cup {dwUser[q] : q \in reached[n - 1] \cap Packets}
    IN  reached[Capacity] \ {NoPacket}

\* Neither thread touches memory that was freed: the packet the play thread
\* links the next one to, and those the cleanup thread has still to visit, are
\* allocated, and the last one is on its way as long as it has one to go to.
NothingFreedIsUsed ==
    /\ lastAudioPacket # NoPacket => lastAudioPacket \in Allocated
    /\ cleanPc \in {"wait", "token", "free"} =>
          Chain(cleanPacket) \subseteq Allocated /\ lastAudioPacket \in Chain(cleanPacket)

\* The slots and the tokens of the list match its packets, whoever is in the
\* middle of adding or freeing one.
ListIsAccounted ==
    /\ canEnqueue + Cardinality(Allocated) + Count(cleanPc = "post")
          = Capacity + Count(playPc = "slot")
    /\ Cardinality(Allocated)
          = canDequeue + Count(playPc \in {"slot", "link", "post"}) + Count(cleanPc = "free")

\* stopPlaying "stops the playing thread, then waits for the cleanup thread to
\* stop as well": neither runs when the interface is given back.
StopWaitsForThreads ==
    \A c \in Callers : pc[c] = "stopUnlock" => playPc = "off" /\ cleanPc = "off"

\* "link the previous audio packet, if it has not been deallocated yet, to the
\* current packet. if it has been deallocated already, then start another thread
\* used to deallocate them": every packet in the list will be visited.
EveryPacketIsReached ==
    \A p \in Allocated :
        (p # playPacket \/ playPc \notin {"slot", "link"}) => cleanPc # "off" /\ p \in Chain(cleanPacket)

\* stopPlaying waits for threads, and threads end: it never waits for itself.
StopWaitsForAThread == \A c \in Callers : pc[c] # "joiningSelf"

\* stopPlaying returns: what the play thread waits for, a slot or a message, does
\* not keep it from seeing that it has to stop.
StopReturns == \A c \in Callers : pc[c] = "stop" ~> pc[c] = "idle"
=============================================================================
