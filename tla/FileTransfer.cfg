\* Two clients save the same two songs, one of them after cancelling it.
SPECIFICATION FairSpec
CONSTANTS
    Clients = {c1, c2}
    NoClient = none
    Songs = {s1, s2}
    Parts = 2
    MaxClicks = 2
INVARIANT FilesGrowInOrder
PROPERTY OpenFilesAreClosed
CHECK_DEADLOCK FALSE
