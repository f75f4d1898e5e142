\* Two enqueuers, a consumer that does not poll and a thread that clears
\* compete for two slots (the proofs are for any number of threads).
SPECIFICATION FairSpec
CONSTANTS
    Producers = {p1, p2}
    Consumers = {c1}
    Pollers = {}
    Clearers = {k1}
    Messages = {m1, m2}
    Garbage = garbage
    Capacity = 2
    NoThread = none
INVARIANTS TokensMatchMessages SlotsConserved NeverPopsEmpty NoLostWakeup
PROPERTIES IsBoundedFifo ClearReturns
