\* Two buffers at a time, four in all, and one stop; every queue of the listener
\* holds one packet.  The device may not open.
SPECIFICATION FairVoiceSpec
CONSTANTS
    Buffers = 2
    MaxBuffers = 4
    Capacity = 1
    MaxStops = 1
    OpenFails = TRUE
    NoBuffer = none
    Talker = talker
    Music = music
    NoPacket = nothing
    Datagrams = 1
    QueueCapacity = 1
    JitterCapacity = 1
    SpeakerCapacity = 1
INVARIANTS HeadersMatchDriver VoiceIsInOrder
PROPERTY VoiceGetsThrough
CHECK_DEADLOCK FALSE
