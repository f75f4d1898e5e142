\* A new song starts from 1 while the buffer still waits for the old one, and
\* the network delivers packets late or twice.
SPECIFICATION StreamSpec
CONSTANTS
    MaxInt = 3
    Capacity = 2
    StrikeLimit = 1
    StrayStrikes = {0}
    MaxLate = 1
    MaxAhead = 2
    MaxRestarts = 1
    Putters = {receiver}
    Getters = {bufferer}
    NoThread = none
INVARIANTS ElementsAreCounted OpenOrDelayed
PROPERTY JumpNeedsStrikes
