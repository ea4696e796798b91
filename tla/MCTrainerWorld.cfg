CONSTANTS
    Species <- MCSpecies
    Types = {"fire"}
    TypeOf <- MCTypeOf
    RareSpecies = {"drake"}
    Power <- MCPower
    PartySize = 4
    BoxSize = 6
    SameTypeLimit = 2
    LastTown <- TOWN_COUNT
    GymLevel <- GymMaxLevels
    RouteMin <- RouteLow
    RouteMax <- RouteHigh
    WildPool <- MCWildPool
    RarePool <- MCRarePool
    RareBonus <- RareOffsets
    MaxLevel = 55
    FleeGap = 2
    GymCooldown = 5
    BallsPerBadge = 3
    MaxGain = 2
    Starters <- MCStarters
    InitialBalls = 10
    StartTowns = {1}
    Strategies <- MCStrategies
SPECIFICATION FairTrainerSpec
PROPERTIES
    CooldownEnds
    KeepsPlaying
