\* Both modes: two writes and one record of the server.
SPECIFICATION FairSpec
CONSTANTS
    Modes = {"Mpc", "Proxy"}
    MaxWrites = 2
    MaxData = 1
    ClosesEarly = FALSE
CHECK_DEADLOCK FALSE
INVARIANTS
    NothingLost
    
PROPERTIES
    ServerCloseEnds
    
    PollReturns
