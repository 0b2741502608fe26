SPECIFICATION Spec
CONSTANTS
    MaxPayload = 3
    MaxFrag = 1
    BufferLimit = 2
    MaxApp = 2
    MaxData = 1
    WriteSizes = {3, 100}
    MaxNet = 2
    MaxFaults = 1
CHECK_DEADLOCK FALSE
INVARIANTS
    FatalAlertQueued
