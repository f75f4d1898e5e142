\* A client arrives, or two songs change in a row, while a sender tells the clients
\* of its song: is the song they were told last the one that is played?
SPECIFICATION Spec
CONSTANTS
    Clients = {c1, c2}
    NoClient = none
    FirstSongs = {s1, s2}
    NextSongs = {}
    NoSong = silence
    Senders = {t1, t2}
    NoSender = nobody
    MaxRequests = 1
INVARIANT LastToldIsCurrent
CHECK_DEADLOCK FALSE
