\* The user makes more requests than the queue holds while the control thread is
\* busy with a message of the server.
SPECIFICATION Spec
CONSTANTS
    NumSongs = 1
    MaxChanges = 1
    MaxClicks = 2
    MaxStale = 2
    Capacity = 1
    SockCapacity = 2
    ShortReads = FALSE
    Playlister = playlister
    Multicaster = multicaster
    Ui = ui
    Control = control
    Receiver = receiver
    NoThread = none
    NoSender = nobody
    NoMessage = nothing
    Garbage = garbage
    Disconnect = disconnect
INVARIANT NobodyWaitsForEver
CHECK_DEADLOCK FALSE
