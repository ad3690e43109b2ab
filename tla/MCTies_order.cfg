CONSTANTS
    MaxTime = 9
    MaxSeq = 9
    LPs <- MCLPs
    Kinds <- MCKinds
    Entities <- MCEntities
    Values <- MCValues
    InitState <- MCInitState
    OnStart <- MCOnStart
    OnEvent <- MCOnEvent
    Scheduled = {}
    ControlKinds = {}
    PriorityBit = 0
    Ranks = {"A", "B"}
    lpToRank <- MClpToRank
    EntityLPs = {}
    GvtMode = "AckInflight"
    Period = 1
    RunLength = 9
SPECIFICATION Spec
INVARIANT ExecutesInKeyOrder
