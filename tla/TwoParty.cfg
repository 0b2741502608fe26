SPECIFICATION TwoPartySpec
CONSTANTS
    MaxProves = 2
    None = None
    Modes = {"Reduced", "Normal", "Proxy"}
    FaultSets = {{}, {"conversion0"}, {"conversion1"}, {"eq"}, {"ms"}, {"inner"}, {"cf_vd"},
                 {"conversion0", "conversion1"}, {"conversion0", "eq"}, {"conversion1", "eq"},
                 {"ms", "inner"}, {"ms", "cf_vd"}}
    TagKinds = {"right", "wrong"}
INVARIANTS
    RequestsAgree
    NobodyStuck
    KeysRight
PROPERTIES
    CloseCompletes
    Completes
CHECK_DEADLOCK FALSE
