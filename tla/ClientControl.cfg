\* One song in the list, one announcement, two requests, for which the queue has room
\* for one.  Reads are whole; the server may close, and then two more reads find nothing.
SPECIFICATION FairSpec
CONSTANTS
    NumSongs = 1
    MaxChanges = 1
    MaxClicks = 2
    MaxStale = 2
    Capacity = 1
    SockCapacity = 2
    ShortReads = FALSE
    Playlister = playlister
    Multicaster = multicaster
    Ui = ui
    Control = control
    Receiver = receiver
    NoThread = none
    NoSender = nobody
    NoMessage = nothing
    Garbage = garbage
    Disconnect = disconnect
INVARIANTS OrderIsKept ControlFindsMessage
PROPERTY EverythingArrives
CHECK_DEADLOCK FALSE
