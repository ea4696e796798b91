CONSTANTS
    Species <- MCSpecies
    Types = {"normal", "ghost", "fighting"}
    TypeOf <- MCTypeOf
    RareSpecies = {}
    Power <- MCPower
    PartySize = 2
    BoxSize = 0
    SameTypeLimit = 2
    LastTown = 2
    GymLevel <- MCGymLevel
    RouteMin <- MCRouteMin
    RouteMax <- MCRouteMax
    WildPool <- MCWildPool
    RarePool <- MCRarePool
    RareBonus = {}
    MaxLevel = 3
    FleeGap = 2
    GymCooldown = 1
    BallsPerBadge = 1
    MaxGain = 1
    Starters <- MCStarters
    InitialBalls = 2
    StartTowns = {1}
    Strategies <- MCStrategies
    Templates <- MCTemplates
    GymTeams <- MCGymTeams
    AutoTurnCap = 5
    BattleTurnCap = 3
    Staged = {"scamper", "brawler"}
SPECIFICATION FightsSpec
INVARIANT NoQuickKnockout
PROPERTIES
    ImplementsTrainer
    GymFightsEnd
