\* The window and the control thread both start and stop it.
SPECIFICATION Spec
CONSTANTS
    Callers = {window, control}
    Packets = {p1, p2, p3}
    NoPacket = null
    Devices = {d1, d2}
    NoDevice = zero
    QueueCapacity = 1
    Capacity = 2
    NoThread = none
INVARIANTS NothingFreedIsUsed ListIsAccounted StopWaitsForThreads
SYMMETRY Symmetry
CHECK_DEADLOCK FALSE
