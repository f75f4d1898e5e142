\* The server is stopped while a client comes.
SPECIFICATION FairSpec
CONSTANTS
    Clients = {c1, c2}
    NoSocket = zero
    Apart = TRUE
    TargetFirst = FALSE
    Stops = "ever"
PROPERTY ClientsAreHandled
CHECK_DEADLOCK FALSE
