SPECIFICATION Spec
CONSTANTS
    MaxTime = 3
    MaxSeq = 3
    Entities = {1, 2}
    Owners = {1, 2, 3}
    DefaultOwner <- MCDefaultOwner
    Inputs <- MCInputs
    Revocable <- MCRevocable
    GvtStamps <- MCGvtStamps
INVARIANTS
    DirectoryTypeOK
    PruningKeepsOwners
    ForwardsToOwner
    MigrationLogChains
CHECK_DEADLOCK FALSE
