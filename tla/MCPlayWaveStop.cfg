\* Nothing arrives any more after the queue was cleared.
SPECIFICATION FairSpec
CONSTANTS
    Callers = {window}
    Packets = {p1, p2}
    NoPacket = null
    Devices = {d1}
    NoDevice = zero
    QueueCapacity = 1
    Capacity = 1
    NoThread = none
PROPERTY StopReturns
CHECK_DEADLOCK FALSE
