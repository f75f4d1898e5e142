\* The network may also deliver the last packet late or twice.
SPECIFICATION StreamSpec
CONSTANTS
    MaxInt = 15
    Capacity = 3
    StrikeLimit = 1
    StrayStrikes = {0}
    MaxLate = 1
    MaxAhead = 3
    MaxRestarts = 0
    Putters = {receiver}
    Getters = {bufferer}
    NoThread = none
INVARIANT ElementsAreAhead
