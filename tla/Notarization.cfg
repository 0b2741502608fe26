SPECIFICATION NotarizationSpec
CONSTANTS
    BLOCK_SIZE = 3
    MaxRecords = 2
    MaxSent = 4
    RecvLen = 1
    MaxCommits = 2
    MaxSentMany = 2
    None = None
    Failure = Failure
    MaxRequested = 2
    MaxReveals = 2
INVARIANTS
    ProgramsAgree
    HonestOutput
    WrongRefused
    AcceptedIsOwn
    HonestAccepted
CHECK_DEADLOCK FALSE
