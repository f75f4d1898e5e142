\* A packet is added while the cleanup thread is on its way out.
SPECIFICATION Spec
CONSTANTS
    Callers = {window}
    Packets = {p1, p2}
    NoPacket = null
    Devices = {d1}
    NoDevice = zero
    QueueCapacity = 1
    Capacity = 1
    NoThread = none
INVARIANT EveryPacketIsReached
CHECK_DEADLOCK FALSE
