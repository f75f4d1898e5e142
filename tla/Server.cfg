\* Two clients come, ask for songs and leave while the first song starts.  The second
\* may come when the first has its room in the array.  The server may be stopped while
\* a song is sent, and started again.
SPECIFICATION FairServerSpec
CONSTANTS
    Clients = {c1, c2}
    NoClient = none
    FirstSongs = {s1, s2}
    NextSongs = {s3}
    NoSong = silence
    Senders = {t1, t2}
    NoSender = nobody
    MaxRequests = 1
    Apart = TRUE
    TargetFirst = FALSE
    Stops = "at rest"
INVARIANTS ServedClientHasAsked OnlyALostStopLetsSongsOverlap
PROPERTIES EveryClientIsHandled RequestsAreServed NewClientIsTold
CHECK_DEADLOCK FALSE
