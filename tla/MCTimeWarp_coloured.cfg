CONSTANTS
    MaxTime = 9
    MaxSeq = 9
    LPs <- MCLPs
    Kinds <- MCKinds
    Entities <- MCEntities
    Values <- MCValues
    InitState <- MCInitState
    OnStart <- MCOnStartRelayed
    OnEvent <- MCOnEvent
    Scheduled <- MCScheduled
    ControlKinds = {"s", "h"}
    PriorityBit = 5
    Ranks = {"A", "B"}
    lpToRank <- MClpToRank
    EntityLPs = {1}
    GvtMode = "ColoredCounters"
    Period = 2
    RunLength = 9
SPECIFICATION FairSpec
INVARIANTS
    RecordsReplay
    ColoursAccounted
    SinkInOrder
PROPERTIES
    ImplementsSequential
    Termination
