\* The server closes during the handshake.
SPECIFICATION FairSpec
CONSTANTS
    Modes = {"Mpc"}
    MaxWrites = 0
    MaxData = 0
    ClosesEarly = TRUE
CHECK_DEADLOCK FALSE
PROPERTY PollReturns
