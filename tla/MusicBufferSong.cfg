\* The song changes while the reader is behind.
SPECIFICATION Spec
CONSTANTS
    Size = 7
    ElementSize = 2
    Bpss = 1
    Offsets = {}
    MaxWritten = 5
    MaxUnread = 2
    MaxSongs = 1
    Capacity = 1
    Window = window
    Control = control
    Nobody = nobody
PROPERTY OldSongIsNotRead
CHECK_DEADLOCK FALSE
