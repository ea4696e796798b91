CONSTANTS
    PageUnit = 1
    MilliSol = 1
    MaxU64 = 53980
    MaxU32 = 2
    u1 = u1
    u2 = u2
    poolToken = poolToken
    Users = {u1, u2}
    Deployers = {u1}
    PoolTokens = {poolToken}
    Vault = vault
    Treasury = treasury
    InitialPage <- MCInitialPage
    SplitChoices = {7000}
    PauseChoices <- MCPauseChoices
    RarityChoices = {0, 1, 2, 3}
    BadgeChoices = {0, 11, 12}
    MaxCaught = 1
    WalletAmounts = {40000}
SPECIFICATION SinkSpec
INVARIANTS
    SinkTypeOK
    ProgressIsPaid
    BurnNeverOverstated
    BadgesBackedByWins
PROPERTY ProgressIsPermanent
