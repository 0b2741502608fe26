\* A connection with one write and two records of the server.
SPECIFICATION FairSpec
PROPERTY CloseEnds
CONSTANTS
    MaxBuffer = 3
    BlockSize = 1
    MaxLen = 1
    MaxSent = 4
    MaxRecv = 4
    MaxRecvOnline = 3
    MaxSentRecords = 4
    MaxRecvRecords = 4
    MaxWrites = 1
    MaxFrames = 2
    ServerTypes = {"Handshake", "Alert", "OtherAlert", "ApplicationData"}
    MaxPending = 2
