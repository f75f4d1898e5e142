\* The callback looks whether the recording lasts before the stop, and adds its buffer after it.
SPECIFICATION FairSpec
CONSTANTS
    Buffers = 2
    MaxBuffers = 6
    Capacity = 1
    MaxStops = 1
    OpenFails = FALSE
    NoBuffer = none
PROPERTY StopEnds
CHECK_DEADLOCK FALSE
