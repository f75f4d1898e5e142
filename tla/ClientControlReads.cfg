\* Reads may return less than they were asked for.
SPECIFICATION Spec
CONSTANTS
    NumSongs = 1
    MaxChanges = 1
    MaxClicks = 2
    MaxStale = 2
    Capacity = 2
    SockCapacity = 2
    ShortReads = TRUE
    Playlister = playlister
    Multicaster = multicaster
    Ui = ui
    Control = control
    Receiver = receiver
    NoThread = none
    NoSender = nobody
    NoMessage = nothing
    Garbage = garbage
    Disconnect = disconnect
INVARIANT OrderIsKept
CHECK_DEADLOCK FALSE
