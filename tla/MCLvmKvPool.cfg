SPECIFICATION Spec
CONSTANTS
    r1 = r1
    r2 = r2
    b1 = b1
    b2 = b2
    s1 = s1
    s2 = s2
    s3 = s3
    Rids <- MCRids
    ReqSlots <- MCReqSlots
    KvSlots <- MCKvSlots
    NoSlot = NoSlot
    Tokens = {0, 1}
    MaxLen = 2
    MaxCands = 1
SYMMETRY Symmetry
CHECK_DEADLOCK FALSE
INVARIANTS
    TypeOK
    NoSlotShared
    NoRowShared
    NoLeak
    CachedKvValid
    EvalSeesAskedLength
PROPERTIES
    ExtendReachesPrefix
    EvalLeavesCacheAlone
    ImplementsStore
