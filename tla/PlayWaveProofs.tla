--------------------------- MODULE PlayWaveProofs ---------------------------
(***************************************************************************)
(* The player with its cleanup thread, for any number of callers, packets  *)
(* and devices: stopPlaying leaves neither thread running, the semaphores  *)
(* of the linked list match its packets, and no freed packet is touched.   *)
(***************************************************************************)
EXTENDS PlayWave, Sequences, FiniteSetTheorems, WellFoundedInduction, SequenceTheorems, TLAPS

\* Where a caller holds interfaceAccess.
Inside == {"open", "start", "clear", "startUnlock", "stopPlay", "joinPlay", "reset", "stopClean", "joinClean",
           "joining", "joiningSelf", "stopUnlock"}

PlayTyped ==
    /\ queued \in Nat /\ hasMessage \in BOOLEAN
    /\ open \subseteq Devices /\ speakers \in Devices \cup {NoDevice}
    /\ header \in [Packets -> {"free", "playing", "done", "refused"}]
    /\ device \in [Packets -> Devices \cup {NoDevice}]
    /\ dwUser \in [Packets -> Packets \cup {NoPacket}]
    /\ lastAudioPacket \in Packets \cup {NoPacket}
    /\ canEnqueue \in Nat /\ canDequeue \in Nat
    /\ playThread \in BOOLEAN /\ playStop \in BOOLEAN
    /\ playPc \in {"off", "wait", "dequeue", "write", "slot", "link", "post"}
    /\ playPacket \in Packets \cup {NoPacket}
    /\ playPc \in {"slot", "link"} => playPacket \in Packets
    /\ cleanupThread \in BOOLEAN
    /\ cleanPc \in {"off", "wait", "token", "free", "post", "stop"}
    /\ cleanPacket \in Packets \cup {NoPacket}
    /\ cleanPc \in {"wait", "token", "free"} => cleanPacket \in Packets
    /\ interfaceAccess \in Callers \cup {NoThread}
    /\ pc \in [Callers -> Inside \cup {"idle", "stop", "close", "forget"}]

\* Every step is one of these.
LEMMA NextIs ==
    ASSUME Next
    PROVE  \/ Enqueue \/ PlayStops \/ PlayMessage \/ PlayDequeue \/ PlayWrite \/ PlaySlot \/ PlayLink \/ PlayPost
           \/ CleanWait \/ CleanToken \/ CleanFree \/ CleanPost \/ CleanStop
           \/ \E p \in Packets : Played(p)
           \/ \E c \in Callers :
                 \/ StartLock(c) \/ StartOpen(c) \/ StartFails(c) \/ StartThread(c) \/ StartClear(c) \/ StartUnlock(c)
                 \/ StopCall(c) \/ StopLock(c) \/ StopPlay(c) \/ JoinPlay(c) \/ StopReset(c) \/ StopClean(c)
                 \/ JoinClean(c) \/ CleanJoined(c) \/ StopUnlock(c) \/ StopClose(c) \/ StopForget(c)
BY DEF Next, Play, Clean, Start, Stop

\* A call goes on from one of its steps to another.
LEMMA PcGoes ==
    ASSUME PlayTyped, NEW c \in Callers, NEW from, NEW to \in Inside \cup {"idle", "stop", "close", "forget"}, Goto(c, from, to)
    PROVE  pc' \in [Callers -> Inside \cup {"idle", "stop", "close", "forget"}]
BY DEF PlayTyped, Goto

\* The player as constructed is typed.
LEMMA PlayTypedInit ==
    ASSUME Init
    PROVE  PlayTyped
<1>1. hasMessage \in BOOLEAN /\ playThread \in BOOLEAN /\ playStop \in BOOLEAN /\ cleanupThread \in BOOLEAN
  <2>1. hasMessage = FALSE /\ playThread = FALSE /\ playStop = FALSE /\ cleanupThread = FALSE
    BY DEF Init
  <2>2. QED
    BY <2>1, Zenon
<1>2. QED
  BY <1>1, CapacityAssumption DEF Init, PlayTyped

\* Every step keeps the types.
LEMMA NextPlayTyped ==
    ASSUME PlayTyped, Next
    PROVE  PlayTyped'
<1> USE DEF PlayTyped, queue, devices, list, sems, player, cleaner, calls
<1>1. CASE Enqueue
  <2>1. hasMessage' = TRUE
    BY <1>1 DEF Enqueue
  <2>2. hasMessage' \in BOOLEAN
    BY <2>1, Zenon
  <2>3. QED
    BY <1>1, <2>2 DEF Enqueue
<1>2. CASE PlayStops
  BY <1>2 DEF PlayStops, PlayGoto
<1>3. CASE PlayMessage
  BY <1>3 DEF PlayMessage, PlayGoto
<1>4. CASE PlayDequeue
  BY <1>4 DEF PlayDequeue, PlayGoto
<1>5. CASE PlayWrite
  BY <1>5 DEF PlayWrite, PlayGoto
<1>6. CASE PlaySlot
  BY <1>6 DEF PlaySlot, PlayGoto
<1>7. CASE PlayLink
  <2>1. cleanupThread' = TRUE
    BY <1>7 DEF PlayLink
  <2>2. cleanupThread' \in BOOLEAN
    BY <2>1, Zenon
  <2>3. playPacket \in Packets /\ playPacket' = playPacket /\ playPc' = "post"
    BY <1>7 DEF PlayLink, PlayGoto
  <2>4. QED
    BY <1>7, <2>2, <2>3 DEF PlayLink, PlayGoto
<1>8. CASE PlayPost
  BY <1>8 DEF PlayPost, PlayGoto
<1>9. CASE CleanWait \/ CleanToken
  BY <1>9 DEF CleanWait, CleanToken, CleanGoto
<1>10. CASE CleanFree
  BY <1>10 DEF CleanFree, CleanGoto, Freed
<1>11. CASE CleanPost
  BY <1>11 DEF CleanPost, CleanGoto
<1>12. CASE CleanStop
  <2>1. cleanupThread' = FALSE
    BY <1>12 DEF CleanStop
  <2>2. cleanupThread' \in BOOLEAN
    BY <2>1, Zenon
  <2>3. QED
    BY <1>12, <2>2 DEF CleanStop, CleanGoto
<1>13. CASE \E p \in Packets : Played(p)
  BY <1>13 DEF Played
<1>14. ASSUME NEW c \in Callers,
              \/ StartLock(c) \/ StartOpen(c) \/ StartFails(c) \/ StartThread(c) \/ StartClear(c) \/ StartUnlock(c)
       PROVE  PlayTyped'
  <2>1. pc' \in [Callers -> Inside \cup {"idle", "stop", "close", "forget"}]
    BY <1>14, PcGoes DEF StartLock, StartOpen, StartFails, StartThread, StartClear, StartUnlock, Inside
  <2>2. CASE StartThread(c)
    <3>1. playThread' = TRUE /\ (playStop' = playStop \/ playStop' = FALSE)
      BY <2>2 DEF StartThread
    <3>2. playThread' \in BOOLEAN /\ playStop' \in BOOLEAN
      BY <3>1, Zenon DEF PlayTyped
    <3>3. QED
      BY <2>1, <2>2, <3>2 DEF StartThread
  <2>3. CASE StartLock(c) \/ StartOpen(c) \/ StartFails(c) \/ StartClear(c) \/ StartUnlock(c)
    BY <2>1, <2>3 DEF StartLock, StartOpen, StartFails, StartClear, StartUnlock
  <2>4. QED
    BY <1>14, <2>2, <2>3
<1>15. ASSUME NEW c \in Callers,
              \/ StopCall(c) \/ StopLock(c) \/ StopPlay(c) \/ JoinPlay(c) \/ StopReset(c) \/ StopClean(c)
              \/ JoinClean(c) \/ CleanJoined(c) \/ StopUnlock(c) \/ StopClose(c) \/ StopForget(c)
       PROVE  PlayTyped'
  <2>1. pc' \in [Callers -> Inside \cup {"idle", "stop", "close", "forget"}]
    BY <1>15, PcGoes DEF StopCall, StopLock, StopPlay, JoinPlay, StopReset, StopClean, JoinClean, CleanJoined,
       StopUnlock, StopClose, StopForget, Inside
  <2>2. CASE StopPlay(c)
    <3>1. playStop' = (playStop \/ playThread)
      BY <2>2 DEF StopPlay
    <3>2. playStop' \in BOOLEAN
      BY <3>1
    <3>3. QED
      BY <2>1, <2>2, <3>2 DEF StopPlay
  <2>3. CASE JoinPlay(c)
    <3>1. playThread' = FALSE
      BY <2>3 DEF JoinPlay
    <3>2. playThread' \in BOOLEAN
      BY <3>1, Zenon
    <3>3. QED
      BY <2>1, <2>3, <3>2 DEF JoinPlay
  <2>4. CASE CleanJoined(c)
    <3>1. cleanupThread' = FALSE
      BY <2>4 DEF CleanJoined
    <3>2. cleanupThread' \in BOOLEAN
      BY <3>1, Zenon
    <3>3. QED
      BY <2>1, <2>4, <3>2 DEF CleanJoined
  <2>5. CASE StopReset(c)
    BY <2>1, <2>5 DEF StopReset
  <2>6. CASE StopClose(c) \/ StopForget(c)
    <3>1. speakers' \in Devices \cup {NoDevice} /\ open' \subseteq Devices
      BY <2>6 DEF StopClose, StopForget
    <3>2. QED
      BY <2>1, <2>6, <3>1 DEF StopClose, StopForget
  <2>7. CASE StopCall(c) \/ StopLock(c) \/ StopClean(c) \/ JoinClean(c) \/ StopUnlock(c)
    BY <2>1, <2>7 DEF StopCall, StopLock, StopClean, JoinClean, StopUnlock
  <2>8. QED
    BY <1>15, <2>2, <2>3, <2>4, <2>5, <2>6, <2>7
<1>16. QED
  BY NextIs, <1>1, <1>2, <1>3, <1>4, <1>5, <1>6, <1>7, <1>8, <1>9, <1>10, <1>11, <1>12, <1>13, <1>14, <1>15

-----------------------------------------------------------------------------
\* The callers take turns, and a handle is valid as long as its thread runs; the
\* caller that has waited for a thread knows that it is over.
ThreadsInv ==
    /\ \A c \in Callers : pc[c] \in Inside => interfaceAccess = c
    /\ ~playThread => playPc = "off"
    /\ cleanupThread <=> cleanPc # "off"
    /\ \A c \in Callers :
          /\ pc[c] \in {"reset", "stopClean", "joinClean", "joining", "stopUnlock"} => ~playThread
          /\ pc[c] = "stopUnlock" => cleanPc = "off"

\* The player as constructed has no threads.
LEMMA ThreadsInit ==
    ASSUME Init
    PROVE  ThreadsInv
BY DEF Init, ThreadsInv, Inside

\* Every step keeps what handles, flags and threads say of each other.
LEMMA NextThreads ==
    ASSUME PlayTyped, ThreadsInv, Next
    PROVE  ThreadsInv'
<1> USE DEF ThreadsInv, Inside, queue, devices, list, sems, player, cleaner, calls
<1>1. CASE UNCHANGED <<calls, playThread, playPc, cleanupThread, cleanPc>>
  BY <1>1
<1>2. CASE PlayStops \/ PlayMessage \/ PlayDequeue \/ PlayWrite \/ PlaySlot \/ PlayPost
  <2>1. playPc # "off" /\ UNCHANGED <<calls, playThread, cleanupThread, cleanPc>>
    BY <1>2 DEF PlayStops, PlayMessage, PlayDequeue, PlayWrite, PlaySlot, PlayPost, PlayGoto
  <2>2. QED
    BY <2>1
<1>3. CASE PlayLink
  <2>1. playPc = "link" /\ UNCHANGED <<calls, playThread>> /\ cleanupThread' = TRUE
    BY <1>3 DEF PlayLink, PlayGoto
  <2>2. cleanPc' # "off"
    BY <1>3 DEF PlayLink
  <2>3. playThread
    BY <2>1
  <2>4. \A c \in Callers : pc'[c] \notin {"reset", "stopClean", "joinClean", "joining", "stopUnlock"}
    BY <2>1, <2>3
  <2>5. QED
    BY <2>1, <2>2, <2>3, <2>4
<1>4. CASE CleanWait \/ CleanToken \/ CleanFree \/ CleanPost
  <2>1. /\ UNCHANGED <<calls, playThread, playPc, cleanupThread>>
        /\ cleanPc # "off" /\ cleanPc' # "off"
    BY <1>4 DEF CleanWait, CleanToken, CleanFree, CleanPost, CleanGoto
  <2>2. QED
    BY <2>1
<1>5. CASE CleanStop
  <2>1. /\ UNCHANGED <<calls, playThread, playPc>>
        /\ cleanPc' = "off" /\ cleanupThread' = FALSE
    BY <1>5 DEF CleanStop, CleanGoto
  <2>2. QED
    BY <2>1
<1>6. CASE Enqueue \/ \E p \in Packets : Played(p)
  BY <1>1, <1>6 DEF Enqueue, Played
<1>7. ASSUME NEW c \in Callers, NEW from, NEW to, Goto(c, from, to)
      PROVE  pc[c] = from /\ pc'[c] = to /\ \A b \in Callers \ {c} : pc'[b] = pc[b]
  BY <1>7 DEF Goto, PlayTyped
<1>8. ASSUME NEW c \in Callers,
             \/ StartLock(c) \/ StartOpen(c) \/ StartFails(c) \/ StartThread(c) \/ StartClear(c) \/ StartUnlock(c)
             \/ StopCall(c) \/ StopLock(c) \/ StopPlay(c) \/ JoinPlay(c) \/ StopReset(c) \/ StopClean(c)
             \/ JoinClean(c) \/ CleanJoined(c) \/ StopUnlock(c) \/ StopClose(c) \/ StopForget(c)
      PROVE  ThreadsInv'
  <2>1. c # NoThread
    BY CallerAssumption
  <2>2. CASE StartLock(c) \/ StopLock(c)
    <3>1. /\ interfaceAccess = NoThread /\ interfaceAccess' = c
          /\ pc'[c] \in {"open", "stopPlay"} /\ \A b \in Callers \ {c} : pc'[b] = pc[b]
          /\ UNCHANGED <<playThread, playPc, cleanupThread, cleanPc>>
      BY <1>7, <2>2 DEF StartLock, StopLock
    <3>2. \A b \in Callers : pc[b] \notin Inside
      BY <3>1, CallerAssumption
    <3>3. QED
      BY <3>1, <3>2
  <2>3. CASE StartUnlock(c) \/ StopUnlock(c)
    <3>1. /\ pc[c] \in {"startUnlock", "stopUnlock"}
          /\ pc'[c] \in {"idle", "close"} /\ \A b \in Callers \ {c} : pc'[b] = pc[b]
          /\ UNCHANGED <<playThread, playPc, cleanupThread, cleanPc>>
      BY <1>7, <2>3 DEF StartUnlock, StopUnlock
    <3>2. \A b \in Callers \ {c} : pc[b] \notin Inside
      BY <3>1
    <3>3. QED
      BY <3>1, <3>2
  <2>4. CASE StopCall(c) \/ StopClose(c) \/ StopForget(c)
    <3>1. /\ pc'[c] \in {"idle", "stop", "forget"} /\ \A b \in Callers \ {c} : pc'[b] = pc[b]
          /\ UNCHANGED <<interfaceAccess, playThread, playPc, cleanupThread, cleanPc>>
      BY <1>7, <2>4 DEF StopCall, StopClose, StopForget
    <3>2. QED
      BY <3>1
  <2>5. ASSUME pc[c] \in Inside PROVE \A b \in Callers \ {c} : pc[b] \notin Inside
    BY <2>5
  <2>6. CASE StartOpen(c) \/ StartFails(c) \/ StartClear(c)
    <3>1. /\ pc[c] \in {"open", "clear"}
          /\ pc'[c] \in {"start", "startUnlock"} /\ \A b \in Callers \ {c} : pc'[b] = pc[b]
          /\ UNCHANGED <<interfaceAccess, playThread, playPc, cleanupThread, cleanPc>>
      BY <1>7, <2>6 DEF StartOpen, StartFails, StartClear
    <3>2. QED
      BY <3>1
  <2>7. CASE StartThread(c)
    <3>1. /\ pc[c] = "start" /\ pc'[c] = "clear" /\ \A b \in Callers \ {c} : pc'[b] = pc[b]
          /\ UNCHANGED <<interfaceAccess, cleanupThread, cleanPc>> /\ playThread' = TRUE
      BY <1>7, <2>7 DEF StartThread
    <3>2. \A b \in Callers : pc'[b] \in Inside => b = c
      BY <2>5, <3>1
    <3>3. QED
      BY <3>1, <3>2
  <2>8. CASE StopPlay(c)
    <3>1. /\ pc[c] = "stopPlay" /\ pc'[c] = (IF playThread THEN "joinPlay" ELSE "reset")
          /\ \A b \in Callers \ {c} : pc'[b] = pc[b]
          /\ UNCHANGED <<interfaceAccess, playThread, playPc, cleanupThread, cleanPc>>
      BY <1>7, <2>8 DEF StopPlay
    <3>2. QED
      BY <3>1
  <2>9. CASE JoinPlay(c)
    <3>1. /\ pc[c] = "joinPlay" /\ pc'[c] = "reset" /\ \A b \in Callers \ {c} : pc'[b] = pc[b]
          /\ playPc = "off" /\ playThread' = FALSE
          /\ UNCHANGED <<interfaceAccess, playPc, cleanupThread, cleanPc>>
      BY <1>7, <2>9 DEF JoinPlay
    <3>2. QED
      BY <3>1
  <2>10. CASE StopReset(c)
    <3>1. /\ pc[c] = "reset" /\ pc'[c] = "stopClean" /\ \A b \in Callers \ {c} : pc'[b] = pc[b]
          /\ UNCHANGED <<interfaceAccess, playThread, playPc, cleanupThread, cleanPc>>
      BY <1>7, <2>10 DEF StopReset
    <3>2. QED
      BY <3>1
  <2>11. CASE StopClean(c)
    <3>1. /\ pc[c] = "stopClean" /\ pc'[c] = (IF cleanupThread THEN "joinClean" ELSE "stopUnlock")
          /\ \A b \in Callers \ {c} : pc'[b] = pc[b]
          /\ UNCHANGED <<interfaceAccess, playThread, playPc, cleanupThread, cleanPc>>
      BY <1>7, <2>11 DEF StopClean
    <3>2. QED
      BY <3>1
  <2>12. CASE JoinClean(c)
    <3>1. /\ pc[c] = "joinClean" /\ pc'[c] = (IF cleanupThread THEN "joining" ELSE "joiningSelf")
          /\ \A b \in Callers \ {c} : pc'[b] = pc[b]
          /\ UNCHANGED <<interfaceAccess, playThread, playPc, cleanupThread, cleanPc>>
      BY <1>7, <2>12 DEF JoinClean
    <3>2. QED
      BY <3>1
  <2>13. CASE CleanJoined(c)
    <3>1. /\ pc[c] = "joining" /\ pc'[c] = "stopUnlock" /\ \A b \in Callers \ {c} : pc'[b] = pc[b]
          /\ cleanPc = "off" /\ cleanupThread' = FALSE
          /\ UNCHANGED <<interfaceAccess, playThread, playPc, cleanPc>>
      BY <1>7, <2>13 DEF CleanJoined
    <3>2. QED
      BY <3>1
  <2>14. QED
    BY <1>8, <2>2, <2>3, <2>4, <2>6, <2>7, <2>8, <2>9, <2>10, <2>11, <2>12, <2>13
<1>9. QED
  BY NextIs, <1>2, <1>3, <1>4, <1>5, <1>6, <1>8

-----------------------------------------------------------------------------
\* The packet the cleanup thread is about to free was played, and is allocated.
AccountInv ==
    /\ ListIsAccounted
    /\ cleanPc \in {"token", "free"} => header[cleanPacket] = "done"

\* Packets can be counted.
LEMMA AllocatedIsFinite == IsFiniteSet(Allocated) /\ Cardinality(Allocated) \in Nat
<1>1. Allocated \subseteq Packets /\ IsFiniteSet(Packets)
  BY PacketAssumption DEF Allocated
<1>2. IsFiniteSet(Allocated)
  BY <1>1, FS_Subset
<1>3. QED
  BY <1>2, FS_CardinalityType

\* The empty list has all its slots.
LEMMA AccountInit ==
    ASSUME Init
    PROVE  AccountInv
<1>1. Allocated = {}
  BY DEF Init, Allocated
<1>2. Cardinality(Allocated) = 0
  BY <1>1, FS_EmptySet
<1>3. QED
  BY <1>2, CapacityAssumption DEF Init, AccountInv, ListIsAccounted, Count

\* Every step keeps slots, tokens and packets in balance.
LEMMA NextAccount ==
    ASSUME PlayTyped, ThreadsInv, AccountInv, Next
    PROVE  AccountInv'
<1> DEFINE n == Cardinality(Allocated)
<1>1. /\ n \in Nat /\ IsFiniteSet(Allocated) /\ canEnqueue \in Nat /\ canDequeue \in Nat /\ Capacity \in Nat
      /\ canEnqueue + n + Count(cleanPc = "post") = Capacity + Count(playPc = "slot")
      /\ n = canDequeue + Count(playPc \in {"slot", "link", "post"}) + Count(cleanPc = "free")
      /\ cleanPc \in {"token", "free"} => header[cleanPacket] = "done"
  BY AllocatedIsFinite, CapacityAssumption DEF AccountInv, ListIsAccounted, PlayTyped
<1>2. /\ canEnqueue' + n' + Count(cleanPc' = "post") = Capacity + Count(playPc' = "slot")
      /\ n' = canDequeue' + Count(playPc' \in {"slot", "link", "post"}) + Count(cleanPc' = "free")
      => ListIsAccounted'
  BY DEF ListIsAccounted, Count
<1>3. ASSUME \A p \in Packets : header'[p] = "free" <=> header[p] = "free"
      PROVE  n' = n
  <2>1. Allocated' = Allocated
    BY <1>3 DEF Allocated
  <2>2. QED
    BY <2>1
<1> HIDE DEF n
<1> USE DEF Count, queue, devices, list, sems, player, cleaner, calls
<1>4. CASE UNCHANGED <<header, sems, playPc, cleanPc, cleanPacket>>
  <2>1. n' = n
    BY <1>3, <1>4
  <2>2. ListIsAccounted'
    BY <1>1, <1>2, <1>4, <2>1
  <2>3. QED
    BY <1>1, <1>4, <2>2 DEF AccountInv
<1>5. CASE PlayStops \/ PlayMessage \/ PlayDequeue
  <2>1. /\ playPc \notin {"slot", "link", "post"} /\ playPc' \notin {"slot", "link", "post"}
        /\ UNCHANGED <<header, sems, cleanPc, cleanPacket>>
    BY <1>5 DEF PlayStops, PlayMessage, PlayDequeue, PlayGoto
  <2>2. n' = n
    BY <1>3, <2>1
  <2>3. ListIsAccounted'
    BY <1>1, <1>2, <2>1, <2>2
  <2>4. QED
    BY <1>1, <2>1, <2>3 DEF AccountInv
<1>6. CASE PlayWrite
  <2>1. /\ playPc = "write" /\ playPc' = "slot"
        /\ UNCHANGED <<sems, cleanPc, cleanPacket>>
    BY <1>6 DEF PlayWrite, PlayGoto
  <2>2. PICK p \in Packets :
          /\ header[p] = "free"
          /\ header' = [header EXCEPT ![p] = IF speakers \in open THEN "playing" ELSE "refused"]
    BY <1>6 DEF PlayWrite
  <2>3. /\ header'[p] # "free" /\ \A q \in Packets \ {p} : header'[q] = header[q]
    BY <2>2 DEF PlayTyped
  <2>4. Allocated' = Allocated \cup {p} /\ p \notin Allocated
    BY <2>2, <2>3 DEF Allocated
  <2>5. n' = n + 1
    BY <1>1, <2>4, FS_AddElement DEF n
  <2>6. ListIsAccounted'
    BY <1>1, <1>2, <2>1, <2>5
  <2>7. cleanPc' \in {"token", "free"} => header'[cleanPacket'] = "done"
    BY <1>1, <2>1, <2>2, <2>3 DEF PlayTyped
  <2>8. QED
    BY <2>6, <2>7 DEF AccountInv
<1>7. CASE PlaySlot
  <2>1. /\ playPc = "slot" /\ playPc' = "link" /\ canEnqueue' = canEnqueue - 1
        /\ UNCHANGED <<header, canDequeue, cleanPc, cleanPacket>>
    BY <1>7 DEF PlaySlot, PlayGoto
  <2>2. n' = n
    BY <1>3, <2>1
  <2>3. ListIsAccounted'
    BY <1>1, <1>2, <2>1, <2>2
  <2>4. QED
    BY <1>1, <2>1, <2>3 DEF AccountInv
<1>8. CASE PlayLink
  <2>1. /\ playPc = "link" /\ playPc' = "post"
        /\ UNCHANGED <<header, sems>>
        /\ \/ UNCHANGED <<cleanPc, cleanPacket>>
           \/ cleanPc' = "wait" /\ ~cleanupThread
    BY <1>8 DEF PlayLink, PlayGoto
  <2>2. n' = n
    BY <1>3, <2>1
  <2>3. CASE UNCHANGED <<cleanPc, cleanPacket>>
    <3>1. ListIsAccounted'
      BY <1>1, <1>2, <2>1, <2>2, <2>3
    <3>2. QED
      BY <1>1, <2>1, <2>3, <3>1 DEF AccountInv
  <2>4. CASE cleanPc' = "wait" /\ ~cleanupThread
    <3>1. cleanPc = "off"
      BY <2>4 DEF ThreadsInv
    <3>2. ListIsAccounted'
      BY <1>1, <1>2, <2>1, <2>2, <2>4, <3>1
    <3>3. QED
      BY <2>4, <3>2 DEF AccountInv
  <2>5. QED
    BY <2>1, <2>3, <2>4
<1>9. CASE PlayPost
  <2>1. /\ playPc = "post" /\ playPc' = "wait" /\ canDequeue' = canDequeue + 1
        /\ UNCHANGED <<header, canEnqueue, cleanPc, cleanPacket>>
    BY <1>9 DEF PlayPost, PlayGoto
  <2>2. n' = n
    BY <1>3, <2>1
  <2>3. ListIsAccounted'
    BY <1>1, <1>2, <2>1, <2>2
  <2>4. QED
    BY <1>1, <2>1, <2>3 DEF AccountInv
<1>10. CASE CleanWait
  <2>1. /\ cleanPc = "wait" /\ cleanPc' = "token" /\ header[cleanPacket] = "done"
        /\ UNCHANGED <<header, sems, playPc, cleanPacket>>
    BY <1>10 DEF CleanWait, CleanGoto
  <2>2. n' = n
    BY <1>3, <2>1
  <2>3. ListIsAccounted'
    BY <1>1, <1>2, <2>1, <2>2
  <2>4. QED
    BY <2>1, <2>3 DEF AccountInv
<1>11. CASE CleanToken
  <2>1. /\ cleanPc = "token" /\ cleanPc' = "free" /\ canDequeue > 0 /\ canDequeue' = canDequeue - 1
        /\ UNCHANGED <<header, canEnqueue, playPc, cleanPacket>>
    BY <1>11 DEF CleanToken, CleanGoto
  <2>2. n' = n
    BY <1>3, <2>1
  <2>3. ListIsAccounted'
    BY <1>1, <1>2, <2>1, <2>2
  <2>4. QED
    BY <1>1, <2>1, <2>3 DEF AccountInv
<1>12. CASE CleanFree
  <2>1. /\ cleanPc = "free" /\ cleanPc' = "post" /\ header' = [header EXCEPT ![cleanPacket] = "free"]
        /\ UNCHANGED <<sems, playPc>>
    BY <1>12 DEF CleanFree, CleanGoto, Freed
  <2>2. cleanPacket \in Packets /\ header[cleanPacket] = "done"
    BY <1>1, <2>1 DEF PlayTyped
  <2>3. header'[cleanPacket] = "free" /\ \A q \in Packets \ {cleanPacket} : header'[q] = header[q]
    BY <2>1, <2>2 DEF PlayTyped
  <2>4. Allocated' = Allocated \ {cleanPacket} /\ cleanPacket \in Allocated
    BY <2>2, <2>3 DEF Allocated
  <2>5. n' = n - 1
    BY <1>1, <2>4, FS_RemoveElement DEF n
  <2>6. ListIsAccounted'
    BY <1>1, <1>2, <2>1, <2>5
  <2>7. QED
    BY <2>1, <2>6 DEF AccountInv
<1>13. CASE CleanPost
  <2>1. /\ cleanPc = "post" /\ cleanPc' \in {"stop", "wait"} /\ canEnqueue' = canEnqueue + 1
        /\ UNCHANGED <<header, canDequeue, playPc>>
    BY <1>13 DEF CleanPost, CleanGoto
  <2>2. n' = n
    BY <1>3, <2>1
  <2>3. ListIsAccounted'
    BY <1>1, <1>2, <2>1, <2>2
  <2>4. QED
    BY <2>1, <2>3 DEF AccountInv
<1>14. CASE CleanStop
  <2>1. /\ cleanPc = "stop" /\ cleanPc' = "off"
        /\ UNCHANGED <<header, sems, playPc>>
    BY <1>14 DEF CleanStop, CleanGoto
  <2>2. n' = n
    BY <1>3, <2>1
  <2>3. ListIsAccounted'
    BY <1>1, <1>2, <2>1, <2>2
  <2>4. QED
    BY <2>1, <2>3 DEF AccountInv
<1>15. ASSUME UNCHANGED <<sems, playPc, cleanPc, cleanPacket>>,
              \A p \in Packets : header'[p] = header[p] \/ (header[p] = "playing" /\ header'[p] = "done")
       PROVE  AccountInv'
  <2>1. \A p \in Packets : header'[p] = "free" <=> header[p] = "free"
    BY <1>15
  <2>2. n' = n
    BY <1>3, <2>1
  <2>3. ListIsAccounted'
    BY <1>1, <1>2, <1>15, <2>2
  <2>4. cleanPc' \in {"token", "free"} => header'[cleanPacket'] = "done"
    <3>1. cleanPc \in {"token", "free"} => cleanPacket \in Packets
      BY DEF PlayTyped
    <3>2. QED
      BY <1>1, <1>15, <3>1
  <2>5. QED
    BY <2>3, <2>4 DEF AccountInv
<1>16. CASE \E p \in Packets : Played(p)
  <2>1. PICK p \in Packets : header[p] = "playing" /\ header' = [header EXCEPT ![p] = "done"]
    BY <1>16 DEF Played
  <2>2. UNCHANGED <<sems, playPc, cleanPc, cleanPacket>>
    BY <1>16 DEF Played
  <2>3. QED
    BY <1>15, <2>1, <2>2 DEF PlayTyped
<1>17. CASE \E c \in Callers : StopReset(c)
  BY <1>15, <1>17 DEF StopReset, PlayTyped
<1>18. CASE Enqueue
  BY <1>4, <1>18 DEF Enqueue
<1>19. CASE \E c \in Callers :
              \/ StartLock(c) \/ StartOpen(c) \/ StartFails(c) \/ StartClear(c) \/ StartUnlock(c)
              \/ StopCall(c) \/ StopLock(c) \/ StopPlay(c) \/ JoinPlay(c) \/ StopClean(c)
              \/ JoinClean(c) \/ CleanJoined(c) \/ StopUnlock(c) \/ StopClose(c) \/ StopForget(c)
  BY <1>4, <1>19 DEF StartLock, StartOpen, StartFails, StartClear, StartUnlock, StopCall, StopLock, StopPlay,
     JoinPlay, StopClean, JoinClean, CleanJoined, StopUnlock, StopClose, StopForget
<1>20. CASE \E c \in Callers : StartThread(c)
  <2>1. UNCHANGED <<header, sems, cleanPc, cleanPacket>>
    BY <1>20 DEF StartThread
  <2>2. playPc' = playPc \/ (playPc = "off" /\ playPc' = "wait")
    BY <1>20 DEF StartThread, ThreadsInv
  <2>3. n' = n
    BY <1>3, <2>1
  <2>4. ListIsAccounted'
    BY <1>1, <1>2, <2>1, <2>2, <2>3
  <2>5. QED
    BY <1>1, <2>1, <2>4 DEF AccountInv
<1>21. QED
  BY NextIs, <1>5, <1>6, <1>7, <1>8, <1>9, <1>10, <1>11, <1>12, <1>13, <1>14, <1>16, <1>17, <1>18, <1>19, <1>20

-----------------------------------------------------------------------------
\* The list the cleanup thread is going through, if there is one: allocated
\* packets, each once, from cleanPacket to lastAudioPacket.
Linked(s) ==
    /\ s \in Seq(Packets) /\ Len(s) > 0
    /\ s[1] = cleanPacket /\ s[Len(s)] = lastAudioPacket
    /\ \A i, j \in 1..Len(s) : s[i] = s[j] => i = j
    /\ \A i \in 1..(Len(s) - 1) : dwUser[s[i]] = s[i + 1]
    /\ dwUser[s[Len(s)]] = NoPacket
    /\ \A i \in 1..Len(s) : header[s[i]] # "free"
    /\ playPc \in {"slot", "link"} => \A i \in 1..Len(s) : s[i] # playPacket

HasList == cleanPc \in {"wait", "token", "free"} \/ (cleanPc = "post" /\ cleanPacket # NoPacket)

\* A packet that is to be linked has no successor, and is not the last one.
ListInv ==
    /\ HasList => \E s \in Seq(Packets) : Linked(s)
    /\ lastAudioPacket # NoPacket => header[lastAudioPacket] # "free"
    /\ playPc \in {"slot", "link"} =>
          header[playPacket] # "free" /\ dwUser[playPacket] = NoPacket /\ playPacket # lastAudioPacket

\* In the empty list no packet is linked.
LEMMA ListInit ==
    ASSUME Init
    PROVE  ListInv
BY DEF Init, ListInv, HasList

\* Every step keeps the links among packets that are allocated.
LEMMA NextList ==
    ASSUME PlayTyped, ThreadsInv, AccountInv, ListInv, Next
    PROVE  ListInv'
<1> USE DEF queue, devices, list, sems, player, cleaner, calls
<1>1. ASSUME UNCHANGED <<dwUser, lastAudioPacket, cleanPacket>>,
             playPc' \in {"slot", "link"} => playPc \in {"slot", "link"} /\ playPacket' = playPacket,
             HasList' => HasList,
             \A p \in Packets : header'[p] = "free" <=> header[p] = "free"
      PROVE  ListInv'
  <2>1. ASSUME NEW s \in Seq(Packets), Linked(s) PROVE Linked(s)'
    BY <1>1, <2>1 DEF Linked
  <2>2. HasList' => \E s \in Seq(Packets) : Linked(s)'
    BY <1>1, <2>1 DEF ListInv
  <2>3. lastAudioPacket' # NoPacket => header'[lastAudioPacket'] # "free"
    BY <1>1 DEF ListInv, PlayTyped
  <2>4. playPc' \in {"slot", "link"} =>
          header'[playPacket'] # "free" /\ dwUser'[playPacket'] = NoPacket /\ playPacket' # lastAudioPacket'
    BY <1>1 DEF ListInv, PlayTyped
  <2>5. QED
    BY <2>2, <2>3, <2>4 DEF ListInv
<1>2. CASE UNCHANGED <<list, playPc, playPacket, cleanPc, cleanPacket>>
  BY <1>1, <1>2 DEF HasList
<1>3. CASE PlayStops \/ PlayMessage \/ PlayDequeue \/ PlaySlot \/ PlayPost
  BY <1>1, <1>3 DEF PlayStops, PlayMessage, PlayDequeue, PlaySlot, PlayPost, PlayGoto, HasList
<1>4. CASE CleanWait \/ CleanToken \/ CleanPost \/ CleanStop
  <2>1. UNCHANGED <<list, playPc, playPacket, cleanPacket>>
    BY <1>4 DEF CleanWait, CleanToken, CleanPost, CleanStop, CleanGoto
  <2>2. HasList' => HasList
    BY <1>4, <2>1 DEF CleanWait, CleanToken, CleanPost, CleanStop, CleanGoto, HasList
  <2>3. QED
    BY <1>1, <2>1, <2>2
<1>5. CASE PlayWrite
  <2>1. /\ playPc' = "slot"
        /\ UNCHANGED <<lastAudioPacket, cleanPc, cleanPacket>>
    BY <1>5 DEF PlayWrite, PlayGoto
  <2>2. PICK p \in Packets :
          /\ header[p] = "free"
          /\ playPacket' = p
          /\ header' = [header EXCEPT ![p] = IF speakers \in open THEN "playing" ELSE "refused"]
          /\ dwUser' = [dwUser EXCEPT ![p] = NoPacket]
    BY <1>5 DEF PlayWrite
  <2>3. /\ header'[p] # "free" /\ dwUser'[p] = NoPacket
        /\ \A q \in Packets \ {p} : header'[q] = header[q] /\ dwUser'[q] = dwUser[q]
    BY <2>2 DEF PlayTyped
  <2>4. ASSUME NEW s \in Seq(Packets), Linked(s) PROVE Linked(s)'
    <3>1. \A i \in 1..Len(s) : s[i] \in Packets /\ s[i] # p /\ header[s[i]] # "free"
      BY <2>2, <2>4, ElementOfSeq DEF Linked
    <3>2. \A i \in 1..Len(s) : header'[s[i]] = header[s[i]] /\ dwUser'[s[i]] = dwUser[s[i]]
      BY <2>3, <3>1
    <3>3. QED
      BY <2>1, <2>2, <2>4, <3>1, <3>2 DEF Linked
  <2>5. HasList' => \E s \in Seq(Packets) : Linked(s)'
    BY <2>1, <2>4 DEF ListInv, HasList
  <2>6. lastAudioPacket # NoPacket => lastAudioPacket \in Packets /\ lastAudioPacket # p
    BY <2>2 DEF ListInv, PlayTyped
  <2>7. lastAudioPacket' # NoPacket => header'[lastAudioPacket'] # "free"
    BY <2>1, <2>3, <2>6 DEF ListInv
  <2>8. playPacket' # lastAudioPacket' /\ header'[playPacket'] # "free" /\ dwUser'[playPacket'] = NoPacket
    BY <2>1, <2>2, <2>3, <2>6, PacketAssumption
  <2>9. QED
    BY <2>5, <2>7, <2>8 DEF ListInv
<1>6. CASE PlayLink
  <2>1. /\ playPc = "link" /\ playPc' = "post" /\ lastAudioPacket' = playPacket /\ UNCHANGED <<header, playPacket>>
        /\ dwUser' = IF lastAudioPacket = NoPacket THEN dwUser
                     ELSE [dwUser EXCEPT ![lastAudioPacket] = playPacket]
        /\ IF cleanupThread THEN UNCHANGED <<cleanPc, cleanPacket>> ELSE cleanPc' = "wait" /\ cleanPacket' = playPacket
    BY <1>6 DEF PlayLink, PlayGoto
  <2>2. /\ playPacket \in Packets /\ header[playPacket] # "free" /\ dwUser[playPacket] = NoPacket
        /\ playPacket # lastAudioPacket
    BY <2>1 DEF PlayTyped, ListInv
  <2>3. dwUser'[playPacket] = NoPacket /\ \A q \in Packets \ {lastAudioPacket} : dwUser'[q] = dwUser[q]
    BY <2>1, <2>2 DEF PlayTyped
  <2>4. HasList' => \E s \in Seq(Packets) : Linked(s)'
    <3>1. CASE ~cleanupThread
      <4>1. PICK t \in Seq(Packets) : Len(t) = 1 /\ t[1] = playPacket
        <5>1. <<playPacket>> \in Seq(Packets) /\ Len(<<playPacket>>) = 1 /\ <<playPacket>>[1] = playPacket
          BY <2>2
        <5>2. QED
          BY <5>1
      <4>2. Linked(t)'
        BY <2>1, <2>2, <2>3, <3>1, <4>1 DEF Linked
      <4>3. QED
        BY <4>2
    <3>2. CASE cleanupThread /\ HasList
      <4>1. PICK s \in Seq(Packets) : Linked(s)
        BY <3>2 DEF ListInv
      <4>2. PICK t \in Seq(Packets) : t = Append(s, playPacket)
        BY <2>2, AppendProperties
      <4> DEFINE n == Len(s)
      <4>3. /\ t \in Seq(Packets) /\ Len(t) = n + 1 /\ n \in Nat
            /\ \A i \in 1..n : t[i] = s[i]
            /\ t[n + 1] = playPacket
        BY <2>2, <4>2, AppendProperties, LenProperties
      <4>4. /\ n > 0 /\ s[1] = cleanPacket /\ s[n] = lastAudioPacket
            /\ \A i, j \in 1..n : s[i] = s[j] => i = j
            /\ \A i \in 1..(n - 1) : dwUser[s[i]] = s[i + 1]
            /\ \A i \in 1..n : header[s[i]] # "free" /\ s[i] # playPacket /\ s[i] \in Packets
        BY <2>1, <4>1, ElementOfSeq DEF Linked
      <4> HIDE DEF n
      <4>5. t[1] = cleanPacket' /\ t[Len(t)] = lastAudioPacket' /\ Len(t) > 0
        BY <2>1, <3>2, <4>3, <4>4
      <4>6. \A i, j \in 1..Len(t) : t[i] = t[j] => i = j
        <5> SUFFICES ASSUME NEW i \in 1..Len(t), NEW j \in 1..Len(t), t[i] = t[j]
                     PROVE  i = j
          OBVIOUS
        <5>1. i = n + 1 \/ i \in 1..n
          BY <4>3
        <5>2. j = n + 1 \/ j \in 1..n
          BY <4>3
        <5>3. QED
          BY <4>3, <4>4, <5>1, <5>2
      <4>7. \A i \in 1..(Len(t) - 1) : dwUser'[t[i]] = t[i + 1]
        <5> SUFFICES ASSUME NEW i \in 1..n
                     PROVE  dwUser'[t[i]] = t[i + 1]
          BY <4>3
        <5>1. CASE i = n
          <6>1. t[i] = lastAudioPacket /\ t[i + 1] = playPacket /\ lastAudioPacket \in Packets
            BY <4>3, <4>4, <5>1
          <6>2. dwUser'[lastAudioPacket] = playPacket
            BY <2>1, <6>1, PacketAssumption DEF PlayTyped
          <6>3. QED
            BY <6>1, <6>2
        <5>2. CASE i # n
          <6>1. i \in 1..(n - 1) /\ i + 1 \in 1..n /\ n \in 1..n
            BY <4>3, <5>2
          <6>2. s[i] # lastAudioPacket
            BY <4>4, <5>2, <6>1
          <6>3. dwUser'[s[i]] = dwUser[s[i]]
            BY <2>3, <4>4, <6>2
          <6>4. QED
            BY <4>3, <4>4, <6>1, <6>3
        <5>3. QED
          BY <5>1, <5>2
      <4>8. dwUser'[t[Len(t)]] = NoPacket
        BY <2>3, <4>3
      <4>9. \A i \in 1..Len(t) : header'[t[i]] # "free"
        <5> SUFFICES ASSUME NEW i \in 1..Len(t)
                     PROVE  header'[t[i]] # "free"
          OBVIOUS
        <5>1. i = n + 1 \/ i \in 1..n
          BY <4>3
        <5>2. QED
          BY <2>1, <2>2, <4>3, <4>4, <5>1
      <4>10. Linked(t)'
        BY <2>1, <4>3, <4>5, <4>6, <4>7, <4>8, <4>9 DEF Linked
      <4>11. QED
        BY <4>3, <4>10
    <3>3. CASE cleanupThread /\ ~HasList
      BY <2>1, <3>3 DEF HasList
    <3>4. QED
      BY <3>1, <3>2, <3>3
  <2>5. lastAudioPacket' # NoPacket => header'[lastAudioPacket'] # "free"
    BY <2>1, <2>2
  <2>6. QED
    BY <2>1, <2>4, <2>5 DEF ListInv
<1>7. CASE CleanFree
  <2>1. /\ cleanPc = "free" /\ cleanPc' = "post" /\ cleanPacket' = dwUser[cleanPacket] /\ Freed(cleanPacket)
        /\ lastAudioPacket' = IF lastAudioPacket = cleanPacket THEN NoPacket ELSE lastAudioPacket
        /\ UNCHANGED <<playPc, playPacket>>
    BY <1>7 DEF CleanFree, CleanGoto
  <2>2. cleanPacket \in Packets
    BY <2>1 DEF PlayTyped
  <2>3. \A q \in Packets \ {cleanPacket} : header'[q] = header[q] /\ dwUser'[q] = dwUser[q]
    BY <2>1, <2>2 DEF Freed, PlayTyped
  <2>4. PICK s \in Seq(Packets) : Linked(s)
    BY <2>1 DEF ListInv, HasList
  <2> DEFINE n == Len(s)
             t == Tail(s)
  <2>5. /\ n \in Nat /\ n > 0 /\ s[1] = cleanPacket /\ s[n] = lastAudioPacket
        /\ \A i, j \in 1..n : s[i] = s[j] => i = j
        /\ \A i \in 1..(n - 1) : dwUser[s[i]] = s[i + 1]
        /\ dwUser[s[n]] = NoPacket
        /\ \A i \in 1..n : header[s[i]] # "free" /\ s[i] \in Packets
        /\ playPc \in {"slot", "link"} => \A i \in 1..n : s[i] # playPacket
    BY <2>4, ElementOfSeq, LenProperties DEF Linked
  <2>6. n > 1 => t \in Seq(Packets) /\ Len(t) = n - 1 /\ \A i \in 1..(n - 1) : t[i] = s[i + 1]
    BY <2>5
  <2> HIDE DEF n, t
  <2>7. HasList' => \E r \in Seq(Packets) : Linked(r)'
    <3> SUFFICES ASSUME HasList' PROVE \E r \in Seq(Packets) : Linked(r)'
      OBVIOUS
    <3>1. dwUser[cleanPacket] # NoPacket
      BY <2>1 DEF HasList
    <3>2. n > 1
      BY <2>5, <3>1
    <3>3. \A i \in 1..(n - 1) :
             /\ i + 1 \in 1..n /\ t[i] = s[i + 1] /\ t[i] \in Packets \ {cleanPacket}
             /\ header'[t[i]] = header[t[i]] /\ dwUser'[t[i]] = dwUser[t[i]]
      <4> SUFFICES ASSUME NEW i \in 1..(n - 1)
                   PROVE  /\ i + 1 \in 1..n /\ t[i] = s[i + 1] /\ t[i] \in Packets \ {cleanPacket}
                          /\ header'[t[i]] = header[t[i]] /\ dwUser'[t[i]] = dwUser[t[i]]
        OBVIOUS
      <4>1. i + 1 \in 1..n /\ 1 \in 1..n /\ i + 1 # 1
        BY <2>5, <3>2
      <4>2. t[i] = s[i + 1] /\ s[i + 1] # s[1]
        BY <2>5, <2>6, <3>2, <4>1
      <4>3. QED
        BY <2>3, <2>5, <4>1, <4>2
    <3>4. 1 \in 1..(n - 1) /\ n - 1 \in 1..(n - 1)
      BY <2>5, <3>2
    <3>5. t[1] = cleanPacket' /\ t[n - 1] = lastAudioPacket'
      BY <2>1, <2>5, <3>3, <3>4
    <3>6. \A i, j \in 1..(n - 1) : t[i] = t[j] => i = j
      <4> SUFFICES ASSUME NEW i \in 1..(n - 1), NEW j \in 1..(n - 1), t[i] = t[j]
                   PROVE  i = j
        OBVIOUS
      <4>1. i + 1 = j + 1
        BY <2>5, <3>3
      <4>2. QED
        BY <4>1
    <3>7. \A i \in 1..(n - 2) : dwUser'[t[i]] = t[i + 1]
      <4> SUFFICES ASSUME NEW i \in 1..(n - 2)
                   PROVE  dwUser'[t[i]] = t[i + 1]
        OBVIOUS
      <4>1. i \in 1..(n - 1) /\ i + 1 \in 1..(n - 1)
        BY <2>5
      <4>2. QED
        BY <2>5, <3>3, <4>1
    <3>8. dwUser'[t[n - 1]] = NoPacket
      BY <2>5, <3>3, <3>4
    <3>9. \A i \in 1..(n - 1) : header'[t[i]] # "free" /\ (playPc' \in {"slot", "link"} => t[i] # playPacket')
      BY <2>1, <2>5, <3>3
    <3>10. t \in Seq(Packets) /\ Len(t) = n - 1 /\ n - 1 > 0
      BY <2>5, <2>6, <3>2
    <3>11. Len(t) - 1 = n - 2
      BY <2>5, <3>10
    <3>12. Linked(t)'
      BY <3>5, <3>6, <3>7, <3>8, <3>9, <3>10, <3>11 DEF Linked
    <3>13. QED
      BY <3>10, <3>12
  <2>8. lastAudioPacket' # NoPacket => header'[lastAudioPacket'] # "free"
    BY <2>1, <2>3 DEF ListInv, PlayTyped
  <2>9. ASSUME playPc' \in {"slot", "link"}
        PROVE  header'[playPacket'] # "free" /\ dwUser'[playPacket'] = NoPacket /\ playPacket' # lastAudioPacket'
    <3>1. playPc \in {"slot", "link"} /\ playPacket \in Packets /\ playPacket' = playPacket
      BY <2>1, <2>9 DEF PlayTyped
    <3>2. playPacket # s[1]
      BY <2>5, <3>1
    <3>3. header'[playPacket] = header[playPacket] /\ dwUser'[playPacket] = dwUser[playPacket]
      BY <2>3, <2>5, <3>1, <3>2
    <3>4. playPacket # NoPacket
      BY <3>1, PacketAssumption
    <3>5. QED
      BY <2>1, <3>1, <3>3, <3>4 DEF ListInv
  <2>10. QED
    BY <2>7, <2>8, <2>9 DEF ListInv
<1>8. CASE \E p \in Packets : Played(p)
  <2>1. PICK p \in Packets : header[p] = "playing" /\ header' = [header EXCEPT ![p] = "done"]
    BY <1>8 DEF Played
  <2>2. UNCHANGED <<dwUser, lastAudioPacket, playPc, playPacket, cleanPc, cleanPacket>>
    BY <1>8 DEF Played
  <2>3. \A q \in Packets : header'[q] = "free" <=> header[q] = "free"
    BY <2>1 DEF PlayTyped
  <2>4. QED
    BY <1>1, <2>2, <2>3 DEF HasList
<1>9. CASE \E c \in Callers : StopReset(c)
  <2>1. UNCHANGED <<dwUser, lastAudioPacket, playPc, playPacket, cleanPc, cleanPacket>>
    BY <1>9 DEF StopReset
  <2>2. \A q \in Packets : header'[q] = "free" <=> header[q] = "free"
    BY <1>9 DEF StopReset
  <2>3. QED
    BY <1>1, <2>1, <2>2 DEF HasList
<1>10. CASE \E c \in Callers : StartThread(c)
  <2>1. UNCHANGED <<list, playPacket, cleanPc, cleanPacket>> /\ (playPc' = playPc \/ playPc' = "wait")
    BY <1>10 DEF StartThread
  <2>2. QED
    BY <1>1, <2>1 DEF HasList
<1>11. CASE Enqueue
  BY <1>2, <1>11 DEF Enqueue
<1>12. CASE \E c \in Callers :
              \/ StartLock(c) \/ StartOpen(c) \/ StartFails(c) \/ StartClear(c) \/ StartUnlock(c)
              \/ StopCall(c) \/ StopLock(c) \/ StopPlay(c) \/ JoinPlay(c) \/ StopClean(c)
              \/ JoinClean(c) \/ CleanJoined(c) \/ StopUnlock(c) \/ StopClose(c) \/ StopForget(c)
  BY <1>2, <1>12 DEF StartLock, StartOpen, StartFails, StartClear, StartUnlock, StopCall, StopLock, StopPlay,
     JoinPlay, StopClean, JoinClean, CleanJoined, StopUnlock, StopClose, StopForget
<1>13. QED
  BY NextIs, <1>3, <1>4, <1>5, <1>6, <1>7, <1>8, <1>9, <1>10, <1>11, <1>12
-----------------------------------------------------------------------------
\* A set of natural numbers has a least element: with T the numbers a claim is
\* false of, this is induction.
LEMMA Least ==
    ASSUME NEW T, T \subseteq Nat, T # {}
    PROVE  \E x \in T : \A y \in T : x <= y
<1> DEFINE below(n) == 0..(n - 1)
           Sets == {below(n) : n \in T}
<1>1. IsWellFoundedOn(StrictSubsetOrdering(Nat), FiniteSubsetsOf(Nat))
  BY FS_StrictSubsetOrderingWellFounded
<1>2. Sets \subseteq FiniteSubsetsOf(Nat)
  <2>1. ASSUME NEW n \in T PROVE below(n) \in SUBSET Nat /\ IsFiniteSet(below(n))
    BY FS_Interval
  <2>2. QED
    BY <2>1 DEF FiniteSubsetsOf
<1>3. Sets # {}
  OBVIOUS
<1> HIDE DEF Sets
<1>4. PICK s \in Sets : \A r \in Sets : ~ (<<r, s>> \in StrictSubsetOrdering(Nat))
  BY <1>1, <1>2, <1>3, WFMin
<1>5. PICK x \in T : s = below(x)
  BY DEF Sets
<1>6. ASSUME NEW y \in T, y < x PROVE FALSE
  <2>1. below(y) \in SUBSET Nat /\ below(x) \in SUBSET Nat /\ below(y) \subseteq below(x)
    BY <1>6
  <2>2. y \in below(x) /\ y \notin below(y)
    BY <1>6
  <2>3. <<below(y), below(x)>> \in StrictSubsetOrdering(Nat)
    BY <2>1, <2>2 DEF StrictSubsetOrdering
  <2>4. below(y) \in Sets
    BY DEF Sets
  <2>5. QED
    BY <1>4, <1>5, <2>3, <2>4
<1>7. QED
  BY <1>6

\* The packets that follow those of Q, and the function Chain is defined from.
After(Q) == {dwUser[q] : q \in Q \cap Packets}
Reached(f, m, p) == f = [n \in 0..m |-> IF n = 0 THEN {p} ELSE f[n - 1] \cup After(f[n - 1])]

\* The packets reached from p in m steps are defined for every m.
LEMMA ReachedExists ==
    ASSUME NEW p, NEW m \in Nat
    PROVE  \E f : Reached(f, m, p)
<1> DEFINE T == {k \in Nat : ~ \E f : Reached(f, k, p)}
<1>1. SUFFICES ASSUME T # {} PROVE FALSE
  OBVIOUS
<1>2. PICK x \in T : \A y \in T : x <= y
  BY <1>1, Least
<1>3. CASE x = 0
  <2>1. PICK f : f = [n \in 0..0 |-> {p}]
    OBVIOUS
  <2>2. Reached(f, 0, p)
    BY <2>1 DEF Reached
  <2>3. QED
    BY <1>3, <2>2
<1>4. CASE x # 0
  <2>1. x \in Nat /\ x - 1 \in Nat /\ x - 1 \notin T
    BY <1>2, <1>4
  <2>2. PICK f : Reached(f, x - 1, p)
    BY <2>1
  <2>3. PICK g : g = [n \in 0..x |-> IF n < x THEN f[n] ELSE f[x - 1] \cup After(f[x - 1])]
    OBVIOUS
  <2>4. \A n \in 0..x : g[n] = IF n = 0 THEN {p} ELSE g[n - 1] \cup After(g[n - 1])
    <3> SUFFICES ASSUME NEW n \in 0..x
                 PROVE  g[n] = IF n = 0 THEN {p} ELSE g[n - 1] \cup After(g[n - 1])
      OBVIOUS
    <3>1. CASE n = x
      <4>1. n # 0 /\ n - 1 \in 0..x /\ n - 1 < x
        BY <1>4, <2>1, <3>1
      <4>2. g[n] = f[x - 1] \cup After(f[x - 1]) /\ g[n - 1] = f[x - 1]
        BY <2>3, <3>1, <4>1
      <4>3. QED
        BY <4>1, <4>2
    <3>2. CASE n # x
      <4>1. n < x /\ n \in 0..(x - 1) /\ g[n] = f[n]
        BY <2>1, <2>3, <3>2
      <4>2. n # 0 => n - 1 \in 0..x /\ n - 1 < x
        BY <2>1, <4>1
      <4>3. n # 0 => g[n - 1] = f[n - 1]
        BY <2>3, <4>2
      <4>4. f[n] = IF n = 0 THEN {p} ELSE f[n - 1] \cup After(f[n - 1])
        BY <2>2, <4>1 DEF Reached
      <4>5. QED
        BY <4>1, <4>3, <4>4
    <3>3. QED
      BY <3>1, <3>2
  <2>5. g = [n \in 0..x |-> IF n = 0 THEN {p} ELSE g[n - 1] \cup After(g[n - 1])]
    BY <2>3, <2>4
  <2>6. Reached(g, x, p)
    BY <2>5 DEF Reached
  <2>7. QED
    BY <2>6
<1>5. QED
  BY <1>3, <1>4

\* Chain is what is reached from p in Capacity steps.
LEMMA ChainIsReached ==
    ASSUME NEW p
    PROVE  \E f : Reached(f, Capacity, p) /\ Chain(p) = f[Capacity] \ {NoPacket}
<1> DEFINE D(f) == f = [n \in 0..Capacity |-> IF n = 0 THEN {p}
                                              ELSE f[n - 1] \cup {dwUser[q] : q \in f[n - 1] \cap Packets}]
<1>1. \E f : D(f)
  <2>1. PICK f : Reached(f, Capacity, p)
    BY ReachedExists, CapacityAssumption
  <2>2. D(f)
    BY <2>1 DEF Reached, After
  <2>3. QED
    BY <2>2
<1>2. D(CHOOSE f : D(f))
  BY <1>1, Zenon
<1>3. Chain(p) = (CHOOSE f : D(f))[Capacity] \ {NoPacket}
  BY DEF Chain
<1>4. PICK g : D(g) /\ Chain(p) = g[Capacity] \ {NoPacket}
  BY <1>2, <1>3
<1>5. Reached(g, Capacity, p)
  BY <1>4 DEF Reached, After
<1>6. QED
  BY <1>4, <1>5

\* From cleanPacket the whole list is reached, and nothing else: no list has
\* more packets than there are.
LEMMA ChainIsList ==
    ASSUME PlayTyped, NEW s \in Seq(Packets), Linked(s)
    PROVE  /\ \A q \in Chain(cleanPacket) : \E i \in 1..Len(s) : q = s[i]
           /\ lastAudioPacket \in Chain(cleanPacket)
<1> DEFINE n == Len(s)
           S == {s[i] : i \in 1..n}
<1>1. /\ n \in Nat /\ n > 0 /\ s[1] = cleanPacket /\ s[n] = lastAudioPacket
      /\ \A i, j \in 1..n : s[i] = s[j] => i = j
      /\ \A i \in 1..(n - 1) : dwUser[s[i]] = s[i + 1]
      /\ dwUser[s[n]] = NoPacket
      /\ \A i \in 1..n : s[i] \in Packets
  BY ElementOfSeq, LenProperties DEF Linked
<1>2. n <= Capacity + 1
  <2>1. PICK h : h = [i \in 1..n |-> s[i]]
    OBVIOUS
  <2>2. h \in Injection(1..n, Packets)
    BY <1>1, <2>1 DEF Injection, IsInjective
  <2>3. Cardinality(1..n) <= Cardinality(Packets)
    BY <2>2, FS_Injection, PacketAssumption
  <2>4. Cardinality(1..n) = n
    BY <1>1, FS_Interval
  <2>5. QED
    BY <2>3, <2>4, PacketAssumption
<1>3. PICK f : Reached(f, Capacity, cleanPacket) /\ Chain(cleanPacket) = f[Capacity] \ {NoPacket}
  BY ChainIsReached
<1> HIDE DEF n
<1> DEFINE Good(k) == f[k] \subseteq S \cup {NoPacket} /\ \A i \in 1..n : i <= k + 1 => s[i] \in f[k]
           T == {k \in 0..Capacity : ~ Good(k)}
<1>4. Good(0)
  <2>1. f[0] = {cleanPacket}
    BY <1>3, CapacityAssumption DEF Reached
  <2>2. 1 \in 1..n
    BY <1>1
  <2>3. QED
    BY <1>1, <2>1, <2>2
<1>5. ASSUME NEW k \in 0..(Capacity - 1), Good(k)
      PROVE  Good(k + 1)
  <2>1. k + 1 \in 0..Capacity /\ k + 1 # 0 /\ (k + 1) - 1 = k
    BY CapacityAssumption
  <2>2. f[k + 1] = f[k] \cup After(f[k])
    BY <1>3, <2>1 DEF Reached
  <2>3. ASSUME NEW q \in f[k] \cap Packets PROVE dwUser[q] \in S \cup {NoPacket}
    <3>1. PICK i \in 1..n : q = s[i]
      BY <1>5, PacketAssumption
    <3>2. CASE i = n
      BY <1>1, <3>1, <3>2
    <3>3. CASE i # n
      <4>1. i \in 1..(n - 1) /\ i + 1 \in 1..n
        BY <1>1, <3>3
      <4>2. QED
        BY <1>1, <3>1, <4>1
    <3>4. QED
      BY <3>2, <3>3
  <2>4. f[k + 1] \subseteq S \cup {NoPacket}
    BY <1>5, <2>2, <2>3 DEF After
  <2>5. ASSUME NEW i \in 1..n, i <= k + 2 PROVE s[i] \in f[k + 1]
    <3>1. CASE i <= k + 1
      BY <1>5, <2>2, <3>1
    <3>2. CASE i = k + 2
      <4>1. i - 1 \in 1..n /\ i - 1 \in 1..(n - 1) /\ i - 1 <= k + 1 /\ (i - 1) + 1 = i
        BY <1>1, <3>2
      <4>2. s[i - 1] \in f[k] \cap Packets /\ dwUser[s[i - 1]] = s[i]
        BY <1>1, <1>5, <4>1
      <4>3. QED
        BY <2>2, <4>2 DEF After
    <3>3. QED
      BY <1>1, <2>5, <3>1, <3>2
  <2>6. QED
    BY <2>4, <2>5
<1>6. Good(Capacity)
  <2>1. SUFFICES ASSUME T # {} PROVE FALSE
    BY CapacityAssumption
  <2>2. PICK x \in T : \A y \in T : x <= y
    <3>1. T \subseteq Nat
      BY CapacityAssumption
    <3>2. QED
      BY <2>1, <3>1, Least
  <2>3. x # 0
    BY <1>4, <2>2
  <2>4. x - 1 \in 0..(Capacity - 1) /\ x - 1 \in 0..Capacity /\ (x - 1) + 1 = x
    BY <2>2, <2>3, CapacityAssumption
  <2>5. x - 1 \notin T
    BY <2>2, <2>4
  <2>6. Good(x - 1)
    BY <2>4, <2>5
  <2>7. Good(x)
    BY <1>5, <2>4, <2>6
  <2>8. QED
    BY <2>2, <2>7
<1>7. n \in 1..n /\ n <= Capacity + 1
  BY <1>1, <1>2
<1>8. lastAudioPacket \in f[Capacity] /\ lastAudioPacket # NoPacket
  BY <1>1, <1>6, <1>7, PacketAssumption
<1>9. \A q \in Chain(cleanPacket) : q \in S
  BY <1>3, <1>6
<1>10. QED
  BY <1>3, <1>8, <1>9 DEF n
-----------------------------------------------------------------------------
\* All of it, as one inductive invariant.
PlayerInv == PlayTyped /\ ThreadsInv /\ AccountInv /\ ListInv

\* The inductive invariant holds in every state of the player.
LEMMA PlayerIsInvariant == Spec => []PlayerInv
<1>1. Init => PlayerInv
  BY PlayTypedInit, ThreadsInit, AccountInit, ListInit DEF PlayerInv
<1>2. PlayerInv /\ [Next]_vars => PlayerInv'
  <2> SUFFICES ASSUME PlayerInv, [Next]_vars PROVE PlayerInv'
    OBVIOUS
  <2>1. CASE Next
    BY <2>1, NextPlayTyped, NextThreads, NextAccount, NextList DEF PlayerInv
  <2>2. CASE UNCHANGED vars
    <3>1. UNCHANGED <<queue, devices, list, sems, player, cleaner, calls>>
      BY <2>2 DEF vars
    <3>2. UNCHANGED <<queued, hasMessage, open, speakers, header, device, dwUser, lastAudioPacket>>
      BY <3>1 DEF queue, devices, list
    <3>3. UNCHANGED <<canEnqueue, canDequeue, playThread, playStop, playPc, playPacket, cleanupThread, cleanPc,
                      cleanPacket, interfaceAccess, pc>>
      BY <3>1 DEF sems, player, cleaner, calls
    <3>4. PlayTyped' /\ ThreadsInv'
      BY <3>2, <3>3 DEF PlayerInv, PlayTyped, ThreadsInv
    <3>5. Allocated' = Allocated
      BY <3>2 DEF Allocated
    <3>6. AccountInv'
      BY <3>2, <3>3, <3>5 DEF PlayerInv, AccountInv, ListIsAccounted
    <3>7. ASSUME NEW s \in Seq(Packets), Linked(s) PROVE Linked(s)'
      BY <3>2, <3>3, <3>7 DEF Linked
    <3>8. ListInv'
      BY <3>2, <3>3, <3>7 DEF PlayerInv, ListInv, HasList
    <3>9. QED
      BY <3>4, <3>6, <3>8 DEF PlayerInv
  <2>3. QED
    BY <2>1, <2>2
<1>3. QED
  BY <1>1, <1>2, PTL DEF Spec

\* stopRoutine waits for both threads: neither runs when stopPlaying gives the
\* interface back, however the calls of several callers interleave.
THEOREM StopLeavesNoThread == Spec => []StopWaitsForThreads
<1>1. PlayerInv => StopWaitsForThreads
  <2> SUFFICES ASSUME PlayerInv, NEW c \in Callers, pc[c] = "stopUnlock"
               PROVE  playPc = "off" /\ cleanPc = "off"
    BY DEF StopWaitsForThreads
  <2>1. QED
    BY DEF PlayerInv, ThreadsInv
<1>2. QED
  BY <1>1, PlayerIsInvariant, PTL

\* canEnqueue and canDequeue of the linked list match the packets that are
\* allocated after every step of the two threads.
THEOREM ListAddsUp == Spec => []ListIsAccounted
<1>1. PlayerInv => ListIsAccounted
  BY DEF PlayerInv, AccountInv
<1>2. QED
  BY <1>1, PlayerIsInvariant, PTL

\* Variables stay in their types; that the semaphores stay below their limit is
\* the account above.
THEOREM PlayerIsTyped == Spec => []TypeOK
<1> DEFINE Bounded == queued <= QueueCapacity
<1>1. Init => Bounded
  BY CapacityAssumption DEF Init
<1>2. PlayerInv /\ Bounded /\ [Next]_vars => Bounded'
  <2> SUFFICES ASSUME PlayerInv, Bounded, [Next]_vars PROVE Bounded'
    OBVIOUS
  <2>1. queued \in Nat /\ QueueCapacity \in Nat
    BY CapacityAssumption DEF PlayerInv, PlayTyped
  <2>2. CASE Enqueue
    BY <2>1, <2>2 DEF Enqueue
  <2>3. CASE PlayDequeue
    BY <2>1, <2>3 DEF PlayDequeue
  <2>4. CASE \E c \in Callers : StartClear(c)
    BY <2>1, <2>4 DEF StartClear
  <2>5. CASE UNCHANGED queue
    BY <2>5 DEF queue
  <2>6. CASE Next
    <3>1. CASE PlayStops \/ PlayMessage \/ PlayWrite \/ PlaySlot \/ PlayLink \/ PlayPost
      BY <2>5, <3>1 DEF PlayStops, PlayMessage, PlayWrite, PlaySlot, PlayLink, PlayPost
    <3>2. CASE CleanWait \/ CleanToken \/ CleanFree \/ CleanPost \/ CleanStop
      BY <2>5, <3>2 DEF CleanWait, CleanToken, CleanFree, CleanPost, CleanStop, CleanGoto
    <3>3. CASE \E p \in Packets : Played(p)
      BY <2>5, <3>3 DEF Played
    <3>4. CASE \E c \in Callers :
                  \/ StartLock(c) \/ StartOpen(c) \/ StartFails(c) \/ StartThread(c) \/ StartUnlock(c)
                  \/ StopCall(c) \/ StopLock(c) \/ StopPlay(c) \/ JoinPlay(c) \/ StopReset(c) \/ StopClean(c)
                  \/ JoinClean(c) \/ CleanJoined(c) \/ StopUnlock(c) \/ StopClose(c) \/ StopForget(c)
      BY <2>5, <3>4 DEF StartLock, StartOpen, StartFails, StartThread, StartUnlock, StopCall, StopLock, StopPlay,
         JoinPlay, StopReset, StopClean, JoinClean, CleanJoined, StopUnlock, StopClose, StopForget
    <3>5. QED
      BY NextIs, <2>2, <2>3, <2>4, <2>6, <3>1, <3>2, <3>3, <3>4
  <2>7. CASE UNCHANGED vars
    BY <2>5, <2>7 DEF vars
  <2>8. QED
    BY <2>6, <2>7
<1>3. PlayerInv /\ Bounded => TypeOK
  <2> SUFFICES ASSUME PlayerInv, Bounded PROVE TypeOK
    OBVIOUS
  <2>1. PlayTyped /\ ListIsAccounted /\ Cardinality(Allocated) \in Nat /\ Capacity \in Nat /\ QueueCapacity \in Nat
    BY AllocatedIsFinite, CapacityAssumption DEF PlayerInv, AccountInv
  <2>2. canEnqueue \in 0..Capacity /\ canDequeue \in 0..Capacity
    <3>1. canEnqueue \in Nat /\ canDequeue \in Nat
      BY <2>1 DEF PlayTyped
    <3>2. QED
      BY <2>1, <3>1 DEF ListIsAccounted, Count
  <2>3. queued \in 0..QueueCapacity
    BY <2>1 DEF PlayTyped
  <2>4. QED
    BY <2>1, <2>2, <2>3 DEF PlayTyped, TypeOK, Inside
<1> HIDE DEF Bounded
<1>4. QED
  BY <1>1, <1>2, <1>3, PlayerIsInvariant, PTL DEF Spec

\* "link the previous audio packet, if it has not been deallocated yet": neither
\* the play thread, which links to the last packet, nor the cleanup thread,
\* which follows dwUser, ever touches one that was freed.
THEOREM FreedIsNotUsed == Spec => []NothingFreedIsUsed
<1>1. PlayerInv => NothingFreedIsUsed
  <2> SUFFICES ASSUME PlayerInv PROVE NothingFreedIsUsed
    OBVIOUS
  <2>1. lastAudioPacket # NoPacket => lastAudioPacket \in Allocated
    BY DEF PlayerInv, PlayTyped, ListInv, Allocated
  <2>2. ASSUME cleanPc \in {"wait", "token", "free"}
        PROVE  Chain(cleanPacket) \subseteq Allocated /\ lastAudioPacket \in Chain(cleanPacket)
    <3>1. PICK s \in Seq(Packets) : Linked(s)
      BY <2>2 DEF PlayerInv, ListInv, HasList
    <3>2. \A i \in 1..Len(s) : s[i] \in Allocated
      BY <3>1, ElementOfSeq DEF Linked, Allocated
    <3>3. PlayTyped
      BY DEF PlayerInv
    <3>4. QED
      BY <3>1, <3>2, <3>3, ChainIsList
  <2>3. QED
    BY <2>1, <2>2 DEF NothingFreedIsUsed
<1>2. QED
  BY <1>1, PlayerIsInvariant, PTL
=============================================================================
