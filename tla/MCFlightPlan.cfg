SPECIFICATION Spec
CONSTANTS
    Regions = 3
    AirportsPerRegion = 1
    NumPlanes = 3
    RegionWidth = 4
    Speed = 3
    EndTime = 16
    EmitPlaneMod = 1
    DirectoryLp = 100
    StateEntity = 200
    Draws <- MCDraws
    TopBit = 1000
    LongestTrip = 5
INVARIANTS
    FlightsTypeOK
    NeverMissing
    LandsAsPlanned
    RecordsAgree
    PlanesConserved
    RunwayExclusive
