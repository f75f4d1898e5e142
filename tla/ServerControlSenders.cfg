\* Are packets of two songs sent at once?  The wait for the old sender ends after five
\* seconds also when its stop was lost.
SPECIFICATION Spec
CONSTANTS
    Clients = {c1, c2}
    NoClient = none
    FirstSongs = {s1, s2}
    NextSongs = {}
    NoSong = silence
    Senders = {t1, t2}
    NoSender = nobody
    MaxRequests = 1
INVARIANT OneSongIsSent
CHECK_DEADLOCK FALSE
