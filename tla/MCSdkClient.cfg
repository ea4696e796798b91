CONSTANTS
    PageUnit = 1
    MilliSol = 2
    MaxU64 = 10
    MaxU32 = 2
    u1 = u1
    u2 = u2
    c1 = c1
    c2 = c2
    vault = vault
    Users = {u1, u2}
    Deployers = {u1}
    Vault = vault
    Treasury = u2
    ProgramOwned = {vault}
    Escrow = escrow
    NoListing = NoListing
    Cards = {c1, c2}
    InitialLamports <- MCLamports
    InitialHolder <- MCHolder
    FeeChoices = {2000}
    ListingFees = {4}
    TierChoices = {0}
    Prices = {5, 10}
    Client = u1
    Nobody = Nobody
    ViaIdl = TRUE
    DoubleExact = 10000
    DoubleSlack = 1
    Calls <- MCCalls
    Floors = {2, 4}
    Amounts = {}
    MarketPauses = {}
SYMMETRY CardSymmetry
SPECIFICATION ClientSpec
INVARIANTS
    ListedIsEscrowed
    MintedMatchesRecords
    ReadsAreFaithful
PROPERTIES
    ListingClosesExactly
    CustodySpec
    PurchaseAsRead
    SaleAsQuoted
    LandsAsCalled
