\* A connection with one write and three records of the server; alerts other than
\* close_notify are in MpcTlsLive.cfg.
SPECIFICATION Spec
INVARIANTS
    InStep
    CloseAgreed
    ApplicationStream
CONSTANTS
    MaxBuffer = 3
    BlockSize = 1
    MaxLen = 1
    MaxSent = 4
    MaxRecv = 4
    MaxRecvOnline = 3
    MaxSentRecords = 4
    MaxRecvRecords = 4
    MaxWrites = 1
    MaxFrames = 3
    ServerTypes = {"Handshake", "Alert", "ApplicationData"}
    MaxPending = 2
