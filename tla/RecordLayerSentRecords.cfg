\* Record limit: max_sent_records = 2, as the user configured it.
SPECIFICATION Spec
CONSTANTS
    Role = "Leader"
    Types = {"Handshake", "ApplicationData"}
    Lens = {1}
    MaxBuffer = 4
    BlockSize = 1
    MaxLen = 1
    MaxSent = 6
    MaxRecv = 0
    MaxRecvOnline = 0
    MaxSentRecords = 2
    MaxRecvRecords = 0
CHECK_DEADLOCK FALSE
INVARIANT SentRecordsAreAllocated
