\* A song is announced to a client that has not got the list yet.
SPECIFICATION Spec
CONSTANTS
    NumSongs = 1
    MaxChanges = 1
    MaxClicks = 2
    MaxStale = 2
    Capacity = 2
    SockCapacity = 2
    ShortReads = FALSE
    Playlister = playlister
    Multicaster = multicaster
    Ui = ui
    Control = control
    Receiver = receiver
    NoThread = none
    NoSender = nobody
    NoMessage = nothing
    Garbage = garbage
    Disconnect = disconnect
INVARIANT AnnouncedSongIsKnown
CHECK_DEADLOCK FALSE
