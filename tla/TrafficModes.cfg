\* MPC mode: the leader, three bytes out and five in, three of them online, in
\* records of zero, two or three bytes and cipher blocks of two.  Proxy mode: one
\* write, two records of the server, its first flight cut in two.
SPECIFICATION ModesSpec
CONSTANTS
    Role = "Leader"
    Types = {"Alert", "ApplicationData"}
    Lens = {0, 2, 3}
    MaxBuffer = 2
    BlockSize = 2
    MaxLen = 3
    MaxSent = 3
    MaxRecv = 5
    MaxRecvOnline = 3
    MaxSentRecords = 2
    MaxRecvRecords = 2
    Failed = Failed
    MaxWrites = 1
    MaxData = 2
    AppCap = 1
    Splits = {3}
    Curves = {"p384"}
INVARIANTS
    NoRecordLostOrReordered
    OutputIsTranscript
    ReceiveLimits
    OtpCoversOnlineLimit
    LeaderAuthenticated
    
PROPERTIES
    ForwardingIsPipe
    CloseEndsBoth
CHECK_DEADLOCK FALSE
