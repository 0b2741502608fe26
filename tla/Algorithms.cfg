SPECIFICATION Spec
CONSTANTS
    RandomLen = 2
    MaxSessionId = 2
    MaxCertBytes = 40
    DamageBytes = {0, 1, 2, 3, 5, 11}
    MaxDamage = 1
    MaxRecord = 7
    Prime = 11
    CurveB = 4
    Masks = {{}, {0, 3, 5}, {1, 2}}
    Texts = {{}, {0, 2}}
    MaxAllocRecords = 2
    MaxAllocLen = 5
    MaxUses = 3
    PrimeMasks = {1, 7}
    MapEnd = 6
    MaxAllocs = 3
    Fills = {0, 7}
    MaxHandlers = 2
INVARIANTS
    CodecSound
    
    TagIsGcm
    KeystreamOnce
    SharesSumToPoint
    SlicesTranslate
    AuthedIsTruth
    
    
CHECK_DEADLOCK FALSE
