\* A seek while the play thread waits for a message.
SPECIFICATION FairSpec
CONSTANTS
    Size = 7
    ElementSize = 2
    Bpss = 1
    Offsets = {0, 3}
    MaxWritten = 2
    MaxUnread = 2
    MaxSongs = 0
    Capacity = 1
    Window = window
    Control = control
    Nobody = nobody
PROPERTY SeekReturns
CHECK_DEADLOCK FALSE
