CONSTANTS
    Species <- MCSpecies
    Types <- MCTypes
    TypeOf <- MCTypeOf
    RareSpecies <- MCRare
    Power <- MCPower
    PartySize = 2
    BoxSize = 0
    SameTypeLimit = 2
    LastTown = 2
    GymLevel <- MCGymLevel
    RouteMin <- MCRouteMin
    RouteMax <- MCRouteMax
    WildPool <- MCWildPool
    RarePool <- MCRarePool
    RareBonus = {1}
    MaxLevel = 4
    FleeGap = 1
    GymCooldown = 2
    BallsPerBadge = 1
    MaxGain = 1
    Starters <- MCStarters
    InitialBalls = 3
    StartTowns = {1, 2}
    Strategies <- MCStrategies
SPECIFICATION FairTrainerSpec
PROPERTY LeadIsHealed
