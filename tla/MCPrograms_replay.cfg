SPECIFICATION Spec
CONSTANTS
    MaxTime = 12
    MaxSeq = 40
    Lps <- MCLps
    InitState <- MCInitState
    OnEvent <- MCOnEvent
    Load <- MCLoad
    Entities <- MCEntities
    Part <- MCPart
    StartSends <- MCStartSends
    Started <- MCStarted
    Inputs <- MCInputs
    Replies <- MCReplies
    Revocable <- MCRevocable
    Target <- MCTarget
    IsInstall <- MCIsInstall
    GvtStamps <- MCGvtStamps
    MaxUid <- MCMaxUid
INVARIANTS
    ContractKept
    StateIsReplay
    SendsAreReplay
    EachInOnePlace
    DeferredAreMissing
    RegionOutcomeIsReplay
    AnswersAreCurrent
    HitsAccountedFor
    FillsAccountForOrders
    EarlierOrderFirst
    OneServiceAtATime
    FirstComeFirstServed
    CountersBalance
CHECK_DEADLOCK FALSE
