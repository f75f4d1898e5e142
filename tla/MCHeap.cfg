\* Indexes of four bits wrap around; up to six elements give a heap of three levels.
SPECIFICATION Spec
CONSTANTS
    MaxInt = 7
    Span = 6
    MaxSize = 6
INVARIANTS LoopsAreComputed RootComesFirst
PROPERTY KeepsElements
