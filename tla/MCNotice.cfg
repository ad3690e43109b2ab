SPECIFICATION NoticeSpec
CONSTANTS
    MaxTime = 12
    MaxSeq = 40
    Lps = {1}
    DirectoryOf = 100
    InitState <- MCInitState
    OnEvent <- MCOnEvent
    Load <- MCLoad
    Entities <- MCEntities
    Part <- MCPart
    StartSends <- MCStartSends
    Started <- MCStarted
    Inputs <- MCInputs
    Replies <- MCReplies
    Revocable <- MCRevocable
    Target <- MCTarget
    IsInstall <- MCIsInstall
    GvtStamps <- MCGvtStamps
    MaxUid <- MCMaxUid
INVARIANT
    UndoneIsUnsent
CHECK_DEADLOCK FALSE
