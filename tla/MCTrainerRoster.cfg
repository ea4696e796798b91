CONSTANTS
    Species <- MCSpecies
    Types <- MCTypes
    TypeOf <- MCTypeOf
    RareSpecies <- MCRare
    Power <- MCPower
    PartySize = 3
    BoxSize = 1
    SameTypeLimit = 2
    LastTown = 2
    GymLevel <- MCGymLevel
    RouteMin <- MCRouteMin
    RouteMax <- MCRouteMax
    WildPool <- MCWildPool
    RarePool <- MCRarePool
    RareBonus = {2}
    MaxLevel = 4
    FleeGap = 1
    GymCooldown = 2
    BallsPerBadge = 1
    MaxGain = 1
    Starters <- MCStarters
    InitialBalls = 3
    StartTowns = {1, 2}
    Strategies <- MCStrategies
SPECIFICATION TrainerSpec
INVARIANTS
    TrainerTypeOK
    BadgesInOrder
    NoDuplicateSpecies
    BallsAccounted
    TypeSlotsKept
    OnlyRaresPassTheCap
PROPERTIES
    CaughtIsKept
    PartyPowerNeverFalls
