\* The application closes the connection.
SPECIFICATION FairSpec
CONSTANTS
    Modes = {"Mpc"}
    MaxWrites = 0
    MaxData = 0
    ClosesEarly = FALSE
CHECK_DEADLOCK FALSE
PROPERTY CloseNotifySent
