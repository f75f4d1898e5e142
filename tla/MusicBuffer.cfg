\* Two chunks of the buffer, so that the third wraps around; the user plays,
\* stops and seeks while a song changes.
SPECIFICATION FairSpec
CONSTANTS
    Size = 5
    ElementSize = 2
    Bpss = 1
    Offsets = {1}
    MaxWritten = 3
    MaxUnread = 2
    MaxSongs = 1
    Capacity = 1
    Window = window
    Control = control
    Nobody = nobody
INVARIANTS TokensMatchChunks ChunksInOrder
PROPERTY ChunksAreRead
CHECK_DEADLOCK FALSE
