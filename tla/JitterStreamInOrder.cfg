\* Packets are lost but neither late nor repeated, and the sender is at most a
\* window ahead; indexes of four bits wrap around.
SPECIFICATION FairStreamSpec
CONSTANTS
    MaxInt = 7
    Capacity = 3
    StrikeLimit = 1
    StrayStrikes = {0}
    MaxLate = 0
    MaxAhead = 3
    MaxRestarts = 0
    Putters = {receiver}
    Getters = {bufferer}
    NoThread = none
INVARIANT ElementsAreAhead
PROPERTIES IsPlayout AcceptedIsConsumed
