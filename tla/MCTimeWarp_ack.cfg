CONSTANTS
    MaxTime = 9
    MaxSeq = 9
    LPs <- MCLPs
    Kinds <- MCKinds
    Entities <- MCEntities
    Values <- MCValues
    InitState <- MCInitState
    OnStart <- MCOnStart
    OnEvent <- MCOnEvent
    Scheduled <- MCScheduled
    ControlKinds = {}
    PriorityBit = 0
    Ranks = {"A", "B"}
    lpToRank <- MClpToRank
    EntityLPs = {1}
    GvtMode = "AckInflight"
    Period = 1
    RunLength = 9
SPECIFICATION FairSpec
INVARIANTS
    TypeOK
    ProcessedInOrder
    GvtIsLowerBound
    InflightExact
    SentMeansDeliveredOnce
    StateMatchesHistory
    TerminationIsClean
PROPERTIES
    ImplementsSequential
    ImplementsGvtContract
    Termination
