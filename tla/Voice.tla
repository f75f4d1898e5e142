------------------------------- MODULE Voice -------------------------------
(***************************************************************************)
(* From the microphone of one client to the speaker of another, which      *)
(* also receives the music.  The network loses packets and, in between,    *)
(* keeps their order.                                                      *)
(***************************************************************************)
EXTENDS Microphone

CONSTANTS Talker, Music, NoPacket,
          Datagrams, QueueCapacity, JitterCapacity, SpeakerCapacity

ASSUME CapacityAssumption ==
    {Datagrams, QueueCapacity, JitterCapacity, SpeakerCapacity} \subseteq Nat \ {0}
ASSUME SourcesAssumption == Cardinality({Talker, Music, NoPacket}) = 3

VARIABLES datagrams, sockMsgQueue, element, voiceJitterBuffers, bufferers, players,
          jitter, speakerQueue, seeking

listener == <<datagrams, sockMsgQueue, element, voiceJitterBuffers, bufferers, players,
              jitter, speakerQueue, seeking>>

Listener == INSTANCE Reception WITH Voices <- {Talker}

VoiceInit == Init /\ Listener!Init

\* The client talks; what it sends may get to the listener.
Talk ==
    /\ Next
    /\ \/ UNCHANGED listener
       \/ sent' # sent /\ Listener!Arrive(Talker)

Listen == Listener!Next /\ UNCHANGED vars

MusicArrives == Listener!Arrive(Music) /\ UNCHANGED vars

VoiceNext == Talk \/ Listen \/ MusicArrives

VoiceSpec == VoiceInit /\ [][VoiceNext]_<<vars, listener>>

\* The threads of both clients run, and a player that runs plays its queue.  The
\* mutex of the MusicBuffer is given in turn, so that who writes is not passed over
\* by seeks for ever; that a seek gives it back is not assumed.
FairVoiceSpec ==
    /\ VoiceSpec
    /\ WF_vars(Window /\ Talk) /\ WF_vars(waveInProc /\ Talk) /\ WF_vars(MicThread /\ Talk)
    /\ WF_listener(Listener!Receive /\ UNCHANGED vars)
    /\ WF_listener(Listener!ReceiveThread /\ UNCHANGED vars)
    /\ SF_listener(Listener!MusicBufferer /\ UNCHANGED vars)
    /\ WF_listener(Listener!VoiceBufferer(Talker) /\ UNCHANGED vars)
    /\ WF_listener(Listener!Play(Talker) /\ UNCHANGED vars)

-----------------------------------------------------------------------------
\* What was recorded is sent in the end, also when the recording was stopped.  And
\* the one thread that receives the music and the voices is kept for ever by nothing
\* but a voice whose player did not start, or the music when a seek keeps its mutex:
\* whatever else is full is emptied by somebody who does not wait for that thread.
VoiceGetsThrough ==
    /\ full # <<>> ~> full = <<>> /\ micMQueue = <<>> /\ sender # "send"
    /\ \/ element # NoPacket ~> element = NoPacket
       \/ <>[](element = Talker /\ Talker \notin players)
       \/ <>[](element = Music /\ seeking)
=============================================================================
