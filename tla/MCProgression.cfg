CONSTANTS
    Templates <- MCTemplates
    StartLevels = {2, 9, 15, 30, 53, 59}
    WildLevels = {2, 8, 17, 32, 52, 59}
    GymTeamSizes <- GymTeamCounts
    Wounds = {0, 30}
    Grants = {1, 1300, 8000, 400000}
    MaxFights = 2
    MaxGrants = 2
SPECIFICATION ProgressSpec
INVARIANTS
    LevelMatchesXp
    StageMatchesLevel
PROPERTIES
    LevelsHealNoWounds
    OneLevelPerFight
