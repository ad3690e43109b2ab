SPECIFICATION Spec
CONSTANTS
    MaxTime = 4
    MaxSeq = 1
    Migrations <- MCMigrations
    Entity <- MCEntity
    GivenDst = 0
    SendStamps <- MCSendStamps
INVARIANTS
    NotBeforeCutover
    NoneOverlooked
CHECK_DEADLOCK FALSE
