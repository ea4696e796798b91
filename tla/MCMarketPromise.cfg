CONSTANTS
    PageUnit = 1
    MilliSol = 2
    MaxU64 = 10
    MaxU32 = 2
    u1 = u1
    u2 = u2
    c1 = c1
    c2 = c2
    treasury = treasury
    vault = vault
    Users = {u1, u2}
    Deployers = {u1}
    Vault = vault
    Treasury = treasury
    ProgramOwned = {vault, treasury}
    Escrow = escrow
    NoListing = NoListing
    Cards = {c1}
    InitialLamports <- MCLamports
    InitialHolder <- MCHolder
    FeeChoices = {2000, 2001}
    ListingFees = {3}
    TierChoices = {0, 6}
    Prices = {0, 10}
    Floors = {0, 1, 4}
    Amounts = {2}
    MarketPauses <- MCPauses
SPECIFICATION MarketSpec
INVARIANT PromisesAreFunded
