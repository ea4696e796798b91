CONSTANTS
    Templates <- MCHalfLine
    StartLevels = {5, 31}
    WildLevels = {2, 32}
    GymTeamSizes <- GymTeamCounts
    Wounds = {0, 30}
    Grants = {1300, 30000, 400000}
    MaxFights = 2
    MaxGrants = 2
SPECIFICATION ProgressSpec
INVARIANT StageMatchesLevel
