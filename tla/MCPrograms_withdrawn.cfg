SPECIFICATION Spec
CONSTANTS
    MaxTime = 12
    MaxSeq = 40
    Lps <- MCRegions
    InitState <- MCInitState
    OnEvent <- MCOnEvent
    Load <- MCLoad
    Entities <- MCEntities
    Part <- MCPart
    StartSends <- MCStartSends
    Started <- MCStarted
    Inputs <- MCInputs
    Replies <- MCReplies
    Revocable <- MCRevocable
    Target <- MCTarget
    IsInstall <- MCIsInstall
    GvtStamps <- MCGvtStamps
    MaxUid <- MCMaxUid
INVARIANT
    WithdrawnIsUndone
CHECK_DEADLOCK FALSE
