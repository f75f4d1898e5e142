----------------------------- MODULE Reception -----------------------------
(***************************************************************************)
(* What a client does with the datagrams of the group: the thread of       *)
(* UDPSocket enqueues them, Client/ReceiveThread puts them into the jitter *)
(* buffer of their source, the music's or one it makes for a new voice,    *)
(* and a VoiceBufferer per voice passes them on to a player of its own.    *)
(* The MusicBufferer writes the music to the MusicBuffer, whose mutex a    *)
(* seek keeps while it stops and starts the player of the music.           *)
(*                                                                         *)
(* A packet is known by its source: which indexes a jitter buffer accepts  *)
(* is in JitterBuffer.  The two queues are the channel of BoundedFifo.     *)
(***************************************************************************)
EXTENDS Naturals, Sequences

CONSTANTS Music, Voices,   \* the sources
          NoPacket,
          Datagrams,       \* of the socket's buffer: what finds it full is lost
          QueueCapacity,   \* of the queue between the two threads, 100 in the code
          JitterCapacity,  \* 5000
          SpeakerCapacity  \* of the queue of a voice's player, 1500

Sources == Voices \cup {Music}

VARIABLES datagrams, sockMsgQueue,
          element,              \* the packet the receive thread has dequeued
          voiceJitterBuffers,   \* the voices that have a jitter buffer
          bufferers,            \* the voices whose VoiceBufferer runs
          players,              \* the voices whose player runs
          jitter, speakerQueue, \* how much is in each
          seeking               \* a seek holds the MusicBuffer's mutexx

buffers == <<voiceJitterBuffers, bufferers, players>>
vars    == <<datagrams, sockMsgQueue, element, buffers, jitter, speakerQueue, seeking>>

Init ==
    /\ datagrams = <<>> /\ sockMsgQueue = <<>>
    /\ element = NoPacket
    /\ voiceJitterBuffers = {} /\ bufferers = {} /\ players = {}
    /\ jitter = [s \in Sources |-> 0]
    /\ speakerQueue = [s \in Voices |-> 0]
    /\ seeking = FALSE

-----------------------------------------------------------------------------
Arrive(s) ==
    /\ datagrams' = IF Len(datagrams) < Datagrams THEN Append(datagrams, s) ELSE datagrams
    /\ UNCHANGED <<sockMsgQueue, element, buffers, jitter, speakerQueue, seeking>>

\* UDPSocket::ThreadStart
Receive ==
    /\ datagrams # <<>> /\ Len(sockMsgQueue) < QueueCapacity
    /\ sockMsgQueue' = Append(sockMsgQueue, Head(datagrams))
    /\ datagrams' = Tail(datagrams)
    /\ UNCHANGED <<element, buffers, jitter, speakerQueue, seeking>>

\* threadRoutine, handleMsgqMsg
Take ==
    /\ element = NoPacket /\ sockMsgQueue # <<>>
    /\ element' = Head(sockMsgQueue)
    /\ sockMsgQueue' = Tail(sockMsgQueue)
    /\ UNCHANGED <<datagrams, buffers, jitter, speakerQueue, seeking>>

\* The bufferer is started before the player, which keeps quiet when its device
\* does not open: nobody looks at what startPlaying returns.
NewVoice(started) ==
    /\ element \in Voices \ voiceJitterBuffers
    /\ voiceJitterBuffers' = voiceJitterBuffers \cup {element}
    /\ bufferers' = bufferers \cup started
    /\ players' \in {players, players \cup {element}}
    /\ UNCHANGED <<datagrams, sockMsgQueue, element, jitter, speakerQueue, seeking>>

\* Mutant: the buffer is made, its bufferer is not started.
getJitterBufferUnstarted == NewVoice({})

getJitterBuffer == NewVoice({element})

\* put waits for a slot; it takes the packet or rejects it.
Put ==
    /\ element \in voiceJitterBuffers \cup {Music}
    /\ jitter[element] < JitterCapacity
    /\ \/ jitter' = [jitter EXCEPT ![element] = @ + 1]
       \/ UNCHANGED jitter
    /\ element' = NoPacket
    /\ UNCHANGED <<datagrams, sockMsgQueue, buffers, speakerQueue, seeking>>

ReceiveThread == Take \/ getJitterBuffer \/ Put

\* VoiceBufferer::_threadRoutine, which waits for room in the queue of the player.
VoiceBufferer(s) ==
    /\ s \in bufferers
    /\ jitter[s] > 0 /\ speakerQueue[s] < SpeakerCapacity
    /\ jitter' = [jitter EXCEPT ![s] = @ - 1]
    /\ speakerQueue' = [speakerQueue EXCEPT ![s] = @ + 1]
    /\ UNCHANGED <<datagrams, sockMsgQueue, element, buffers, seeking>>

\* The player of a voice is never stopped.
Play(s) ==
    /\ s \in players /\ speakerQueue[s] > 0
    /\ speakerQueue' = [speakerQueue EXCEPT ![s] = @ - 1]
    /\ UNCHANGED <<datagrams, sockMsgQueue, element, buffers, jitter, seeking>>

\* MusicBufferer::ThreadStart.  writeBuf waits for mutexx; until it has it, the
\* packet is counted where it was got.
MusicBufferer ==
    /\ jitter[Music] > 0 /\ ~seeking
    /\ jitter' = [jitter EXCEPT ![Music] = @ - 1]
    /\ UNCHANGED <<datagrams, sockMsgQueue, element, buffers, speakerQueue, seeking>>

\* seekBuf: what it does with mutexx, stopping and resuming the player, may wait
\* for the player's threads (PlayWave).
Seek ==
    /\ seeking' = ~seeking
    /\ UNCHANGED <<datagrams, sockMsgQueue, element, buffers, jitter, speakerQueue>>

Next ==
    \/ Receive \/ ReceiveThread \/ MusicBufferer \/ Seek
    \/ \E s \in Voices : VoiceBufferer(s) \/ Play(s)
=============================================================================
