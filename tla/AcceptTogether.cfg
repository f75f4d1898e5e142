\* Two clients come close together.
SPECIFICATION FairSpec
CONSTANTS
    Clients = {c1, c2}
    NoSocket = zero
    Apart = FALSE
    TargetFirst = FALSE
    Stops = "never"
PROPERTY ClientsAreHandled
CHECK_DEADLOCK FALSE
