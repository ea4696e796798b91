CONSTANTS
    Species <- MCSpecies
    Types = {"grass"}
    TypeOf <- MCTypeOf
    RareSpecies = {}
    Power <- MCPower
    PartySize = 1
    BoxSize = 1
    SameTypeLimit = 3
    LastTown = 2
    GymLevel <- MCGymLevel
    RouteMin <- MCRouteMin
    RouteMax <- MCRouteMax
    WildPool <- MCWildPool
    RarePool <- MCRarePool
    RareBonus = {3}
    MaxLevel = 2
    FleeGap = 2
    GymCooldown = 2
    BallsPerBadge = 1
    MaxGain = 1
    Starters <- MCStarters
    InitialBalls = 2
    StartTowns = {1}
    Strategies <- MCStrategies
    TickMs = 15
    MaxOfflineMs = 30
    Absences <- MCAbsences
SPECIFICATION OfflineSpec
INVARIANTS
    SnapshotAccounted
    RestoredInOrder
    SummaryIsTrue
PROPERTY RestsAfterLoss
