---------------------------- MODULE MusicBuffer ----------------------------
(***************************************************************************)
(* Client/MusicBuffer between its four users: MusicBufferer writes what    *)
(* the jitter buffer gives, MusicReader reads into the message queue of    *)
(* the player, the window plays, stops and seeks, and the control thread   *)
(* changes the song.                                                       *)
(*                                                                         *)
(* A byte is the number of its chunk and its place in it; 0 is memory no   *)
(* chunk was written to.  The player is PlayWave reduced to its play       *)
(* thread: each packet is played at once and devices always open.          *)
(***************************************************************************)
EXTENDS Integers, Sequences

CONSTANTS Size,           \* SUPERSIZEBUF
          ElementSize,    \* of the jitter buffer and the message queue, in bytes
          Bpss,           \* bytes per sample
          Offsets,        \* where in a song the user seeks to, in bytes
          MaxWritten,     \* bound: chunks that arrive
          MaxUnread,      \* bound: chunks the reader is behind, less than a lap
          MaxSongs,       \* bound: songs that start
          Capacity,       \* of the message queue
          Window, Control, Nobody

\* 99999999 and 256: the writer stays aligned when it wraps around.
ASSUME SizeAssumption == ElementSize \in Nat \ {0} /\ Size \in Nat /\ Size % ElementSize = ElementSize - 1 /\ Size > ElementSize
ASSUME BoundAssumption == MaxUnread \in 1 .. (Size \div ElementSize) /\ Capacity \in Nat \ {0}
ASSUME BpssAssumption == Bpss \in Nat \ {0} /\ Offsets \subseteq Nat

VARIABLES buffer, writeindex, readindex, song_startindex,
          playing,         \* may the reader read
          canRead,         \* semaphore
          mutexx,
          written, reads,  \* chunks written and read so far
          songs,           \* changes of the song so far
          songFirst,       \* chunks written before the song
          moved,           \* was readindex set while chunks were unread
          bufferer,        \* what MusicBufferer does
          reader, chunk,   \* what MusicReader does, and with which data
          queue, hasMessage,
          playThread, playStop, playPc,
          interfaceAccess,
          todo             \* the steps left of the call each thread is in

buf    == <<buffer, writeindex, readindex, song_startindex, written, reads, songs, songFirst, moved>>
read   == <<reader, chunk>>
msgq   == <<queue, hasMessage>>
player == <<playThread, playStop, playPc>>
vars   == <<buf, playing, canRead, mutexx, bufferer, read, msgq, player, interfaceAccess, todo>>

Bytes(n) == [i \in 1..ElementSize |-> (n - 1) * ElementSize + i]
Unwritten == 0
Unread == written - reads

Init ==
    /\ buffer = [i \in 0..(Size - 1) |-> Unwritten]
    /\ writeindex = 0 /\ readindex = 0 /\ song_startindex = 0
    /\ playing = TRUE /\ canRead = 0 /\ mutexx = Nobody
    /\ written = 0 /\ reads = 0 /\ songs = 0 /\ songFirst = 0 /\ moved = FALSE
    /\ bufferer = "write"
    /\ reader = "check" /\ chunk = <<>>
    /\ queue = <<>> /\ hasMessage = FALSE
    /\ playThread = TRUE /\ playStop = FALSE /\ playPc = "wait"
    /\ interfaceAccess = Nobody
    /\ todo = [c \in {Window, Control} |-> <<>>]

-----------------------------------------------------------------------------
\* Mutant: one byte more goes before the wrap.
BeforeWrapByOne(index) == index + ElementSize - Size

\* How many bytes go before the wrap.
BeforeWrap(index) == index + ElementSize - Size - 1

\* memcpy(buffer + at, from, n); bytes outside of the buffer are not modelled.
Copied(b, at, from, n) ==
    [i \in DOMAIN b |-> IF i \in at..(at + n - 1) THEN from[i - at + 1] ELSE b[i]]

\* writeBuf
WriteBuf ==
    /\ bufferer = "write" /\ mutexx = Nobody
    /\ written < MaxWritten /\ Unread < MaxUnread
    /\ bufferer' = "post"
    /\ written' = written + 1
    /\ LET data == Bytes(written + 1)
           w    == BeforeWrap(writeindex)
       IN  IF writeindex + ElementSize > Size
           THEN /\ buffer' = Copied(Copied(buffer, writeindex, data, w),
                                    0, SubSeq(data, w + 1, ElementSize), ElementSize - w)
                /\ writeindex' = ElementSize - w
           ELSE /\ buffer' = Copied(buffer, writeindex, data, ElementSize)
                /\ writeindex' = writeindex + ElementSize
    /\ UNCHANGED <<readindex, song_startindex, reads, songs, songFirst, moved, playing, canRead, mutexx, read,
                   msgq, player, interfaceAccess, todo>>

WritePost ==
    /\ bufferer = "post"
    /\ bufferer' = "write"
    /\ canRead' = canRead + 1
    /\ UNCHANGED <<buf, playing, mutexx, read, msgq, player, interfaceAccess, todo>>

-----------------------------------------------------------------------------
\* readBuf; a reader that may not read asks again.
ReadCheck ==
    /\ reader = "check" /\ playing
    /\ reader' = "token"
    /\ UNCHANGED <<buf, playing, canRead, mutexx, bufferer, chunk, msgq, player, interfaceAccess, todo>>

\* Mutant: the semaphore is looked at, not taken.
ReadTokenKeeps ==
    /\ reader = "token" /\ canRead > 0
    /\ reader' = "read"
    /\ UNCHANGED <<buf, playing, canRead, mutexx, bufferer, chunk, msgq, player, interfaceAccess, todo>>

ReadToken ==
    /\ reader = "token" /\ canRead > 0
    /\ reader' = "read"
    /\ canRead' = canRead - 1
    /\ UNCHANGED <<buf, playing, mutexx, bufferer, chunk, msgq, player, interfaceAccess, todo>>

\* What memcpy finds behind the end of the buffer is not known.
At(index) == IF index \in DOMAIN buffer THEN buffer[index] ELSE Unwritten

ReadBuf ==
    /\ reader = "read" /\ mutexx = Nobody
    /\ reader' = "enqueue"
    /\ reads' = reads + 1
    /\ LET r == BeforeWrap(readindex)
       IN  IF readindex + ElementSize > Size
           THEN /\ chunk' = [i \in 1..ElementSize |-> At(IF i <= r THEN readindex + i - 1 ELSE i - r - 1)]
                /\ readindex' = ElementSize - r
           ELSE /\ chunk' = [i \in 1..ElementSize |-> At(readindex + i - 1)]
                /\ readindex' = readindex + ElementSize
    /\ UNCHANGED <<buffer, writeindex, song_startindex, written, songs, songFirst, moved, playing, canRead,
                   mutexx, bufferer, msgq, player, interfaceAccess, todo>>

\* MusicReader::ThreadStart
ReadEnqueue ==
    /\ reader = "enqueue" /\ Len(queue) < Capacity
    /\ reader' = "check"
    /\ queue' = Append(queue, chunk)
    /\ hasMessage' = TRUE
    /\ chunk' = <<>>
    /\ UNCHANGED <<buf, playing, canRead, mutexx, bufferer, player, interfaceAccess, todo>>

Reader == ReadCheck \/ ReadToken \/ ReadBuf \/ ReadEnqueue

-----------------------------------------------------------------------------
\* The play thread: once it goes for a message it no longer sees the stop event.
PlayStops ==
    /\ playPc = "wait" /\ playStop
    /\ playPc' = "off"
    /\ UNCHANGED <<buf, playing, canRead, mutexx, bufferer, read, msgq, playThread, playStop,
                   interfaceAccess, todo>>

PlayMessage ==
    /\ playPc = "wait" /\ ~playStop /\ hasMessage
    /\ playPc' = "dequeue"
    /\ UNCHANGED <<buf, playing, canRead, mutexx, bufferer, read, msgq, playThread, playStop,
                   interfaceAccess, todo>>

PlayDequeue ==
    /\ playPc = "dequeue" /\ queue # <<>>
    /\ playPc' = "wait"
    /\ queue' = Tail(queue)
    /\ hasMessage' = (queue' # <<>>)
    /\ UNCHANGED <<buf, playing, canRead, mutexx, bufferer, read, playThread, playStop,
                   interfaceAccess, todo>>

Play == PlayStops \/ PlayMessage \/ PlayDequeue

-----------------------------------------------------------------------------
\* The calls, as the steps they take.
StopPlaying  == <<"stop", "join">>
StartPlaying == <<"start", "clear">>

Call(c, steps) ==
    /\ todo[c] = <<>>
    /\ todo' = [todo EXCEPT ![c] = steps]

onClickPlay ==
    /\ Call(Window, StartPlaying)
    /\ playing' = TRUE
    /\ UNCHANGED <<buf, canRead, mutexx, bufferer, read, msgq, player, interfaceAccess>>

onClickStop ==
    /\ Call(Window, StopPlaying)
    /\ playing' = FALSE
    /\ UNCHANGED <<buf, canRead, mutexx, bufferer, read, msgq, player, interfaceAccess>>

onSeek ==
    /\ Offsets # {}
    /\ Call(Window, <<"lock">> \o StopPlaying \o <<"seek">> \o StartPlaying \o <<"unlock">>)
    /\ UNCHANGED <<buf, playing, canRead, mutexx, bufferer, read, msgq, player, interfaceAccess>>

onChangeStream ==
    /\ songs < MaxSongs
    /\ Call(Control, StopPlaying \o <<"song">> \o StartPlaying)
    /\ songs' = songs + 1
    /\ UNCHANGED <<buffer, writeindex, readindex, song_startindex, written, reads, songFirst, moved, playing,
                   canRead, mutexx, bufferer, read, msgq, player, interfaceAccess>>

Step(c, step) ==
    /\ todo[c] # <<>> /\ Head(todo[c]) = step
    /\ todo' = [todo EXCEPT ![c] = Tail(@)]

Enter(c) == interfaceAccess = Nobody /\ interfaceAccess' = c

Stop(c) ==
    /\ Step(c, "stop") /\ Enter(c)
    /\ playStop' = (playStop \/ playThread)
    /\ UNCHANGED <<buf, playing, canRead, mutexx, bufferer, read, msgq, playThread, playPc>>

Join(c) ==
    /\ Step(c, "join")
    /\ playThread => playPc = "off"
    /\ playThread' = FALSE
    /\ interfaceAccess' = Nobody
    /\ UNCHANGED <<buf, playing, canRead, mutexx, bufferer, read, msgq, playStop, playPc>>

\* Mutant: the stop event stays set.
StartKeepsStop(c) ==
    /\ Step(c, "start") /\ Enter(c)
    /\ playThread' = TRUE
    /\ playPc' = IF playThread THEN playPc ELSE "wait"
    /\ UNCHANGED <<buf, playing, canRead, mutexx, bufferer, read, msgq, playStop>>

Start(c) ==
    /\ Step(c, "start") /\ Enter(c)
    /\ playThread' = TRUE
    /\ IF playThread
       THEN UNCHANGED <<playStop, playPc>>
       ELSE playStop' = FALSE /\ playPc' = "wait"
    /\ UNCHANGED <<buf, playing, canRead, mutexx, bufferer, read, msgq>>

\* MessageQueue::clear leaves hasMessage as it is.
Clear(c) ==
    /\ Step(c, "clear")
    /\ queue' = <<>>
    /\ interfaceAccess' = Nobody
    /\ UNCHANGED <<buf, playing, canRead, mutexx, bufferer, read, hasMessage, player>>

-----------------------------------------------------------------------------
\* seekBuf
SeekLock(c) ==
    /\ Step(c, "lock") /\ mutexx = Nobody
    /\ mutexx' = c
    /\ UNCHANGED <<buf, playing, canRead, bufferer, read, msgq, player, interfaceAccess>>

SeekTo(c) ==
    /\ Step(c, "seek")
    /\ \E offset \in Offsets :
          LET index == ((song_startindex + offset) \div Bpss) * Bpss
          IN  readindex' = IF index < writeindex THEN index ELSE readindex
    /\ moved' = TRUE
    /\ UNCHANGED <<buffer, writeindex, song_startindex, written, reads, songs, songFirst, playing, canRead,
                   mutexx, bufferer, read, msgq, player, interfaceAccess>>

SeekUnlock(c) ==
    /\ Step(c, "unlock")
    /\ mutexx' = Nobody
    /\ UNCHANGED <<buf, playing, canRead, bufferer, read, msgq, player, interfaceAccess>>

\* Mutant: the song is read from the front of the buffer.
newSongAtZero(c) ==
    /\ Step(c, "song") /\ mutexx = Nobody
    /\ song_startindex' = writeindex
    /\ readindex' = 0
    /\ songFirst' = written
    /\ moved' = (moved \/ Unread # 0)
    /\ UNCHANGED <<buffer, writeindex, written, reads, songs, playing, canRead, mutexx, bufferer,
                   read, msgq, player, interfaceAccess>>

newSong(c) ==
    /\ Step(c, "song") /\ mutexx = Nobody
    /\ song_startindex' = writeindex
    /\ readindex' = writeindex
    /\ songFirst' = written
    /\ moved' = (moved \/ Unread # 0)
    /\ UNCHANGED <<buffer, writeindex, written, reads, songs, playing, canRead, mutexx, bufferer,
                   read, msgq, player, interfaceAccess>>

Steps(c) ==
    \/ Stop(c) \/ Join(c) \/ Start(c) \/ Clear(c)
    \/ SeekLock(c) \/ SeekTo(c) \/ SeekUnlock(c) \/ newSong(c)

-----------------------------------------------------------------------------
Next ==
    \/ WriteBuf \/ WritePost \/ Reader \/ Play
    \/ onClickPlay \/ onClickStop \/ onSeek \/ onChangeStream
    \/ \E c \in {Window, Control} : Steps(c)

Spec == Init /\ [][Next]_vars

\* The threads run, and a mutex serves its waiters in turn.  No chunk has to
\* arrive and nobody has to call.
FairSpec ==
    /\ Spec
    /\ WF_vars(WritePost) /\ SF_vars(Reader) /\ WF_vars(Play)
    /\ \A c \in {Window, Control} : SF_vars(Steps(c))

-----------------------------------------------------------------------------
TypeOK ==
    /\ buffer \in [0..(Size - 1) -> 0..(MaxWritten * ElementSize)]
    /\ writeindex \in 0..Size /\ writeindex % ElementSize = 0
    /\ readindex \in 0..Size /\ song_startindex \in 0..Size
    /\ playing \in BOOLEAN /\ canRead \in 0..MaxWritten
    /\ mutexx \in {Window, Nobody}
    /\ written \in 0..MaxWritten /\ reads \in 0..MaxWritten
    /\ songs \in 0..MaxSongs /\ songFirst \in 0..MaxWritten /\ moved \in BOOLEAN
    /\ bufferer \in {"write", "post"}
    /\ reader \in {"check", "token", "read", "enqueue"}
    /\ Len(chunk) \in {0, ElementSize}
    /\ Len(queue) \in 0..Capacity /\ hasMessage \in BOOLEAN
    /\ playThread \in BOOLEAN /\ playStop \in BOOLEAN
    /\ playPc \in {"off", "wait", "dequeue"}
    /\ interfaceAccess \in {Window, Control, Nobody}
    /\ \A c \in {Window, Control} : Len(todo[c]) <= 7

Count(condition) == IF condition THEN 1 ELSE 0

\* The semaphore counts the chunks nobody has read, wherever the two threads
\* are, and whatever a seek or a new song does to the indexes.
TokensMatchChunks == Unread = canRead + Count(bufferer = "post") + Count(reader = "read")

\* As long as readindex is only moved when everything was read, the reader gets
\* every chunk whole, once and in order, around the end of the buffer, where
\* reader and writer leave the same bytes out.
ChunksInOrder == reader = "enqueue" /\ ~moved => chunk = Bytes(reads)

\* While the user leaves the player alone and has not stopped it, what arrived
\* is read: the reader is not kept waiting by a full queue.
ChunksAreRead ==
    canRead > 0 /\ playing
        ~> canRead = 0 \/ ~playing \/ \E c \in {Window, Control} : todo[c] # <<>>

\* newSong: "a new song has started and it should stop reading data form the old
\* one": what is read after it was written after it.
OldSongIsNotRead ==
    [][ReadBuf => \A i \in 1..ElementSize : chunk'[i] > songFirst * ElementSize]_vars

\* seekBuf returns: the stop it waits for does not need what only the reader,
\* which waits for seekBuf, can bring.
SeekReturns == mutexx = Window ~> mutexx = Nobody
=============================================================================
