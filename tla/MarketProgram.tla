--------------------------- MODULE MarketProgram ---------------------------
(***************************************************************************)
(* The SOL side of the program: card records, escrowed listings, the       *)
(* buyback pool and its instant sell, and the authority's floor, toggle    *)
(* and treasury instructions.                                              *)
(*                                                                         *)
(* lamports is the runtime's ledger, holder what the token program says of *)
(* each card (one token per card mint).  Both are modelled from how the    *)
(* instructions use them, with what a wallet may do without this program.  *)
(* Rent, timestamps, bumps, events and the tier/level/stage a listing      *)
(* repeats are left out; listing.active is false only inside the           *)
(* instruction that closes the account, so an open listing is an active    *)
(* one.                                                                    *)
(***************************************************************************)
EXTENDS ProgramConfig, FiniteSets

CONSTANTS
    Cards,            \* card mints
    Escrow,           \* the escrow account of a listing, owned by its PDA
    NoListing,        \* no listing account exists
    ProgramOwned,     \* lamport accounts this program may debit directly
    InitialLamports, InitialHolder,
    FeeChoices,       \* market_fee_bps values passed to initialize
    ListingFees,      \* listing_fee values passed to initialize
    TierChoices,      \* tier codes passed to mint_card
    Prices,           \* prices passed to list_card
    Floors,           \* floors passed to update_floor
    Amounts,          \* lamports withdrawn, or moved by a wallet
    MarketPauses      \* flag sets passed to set_pause

Accounts == Users \cup {Vault, Treasury}
Holders  == Users \cup {Vault, Escrow}

ListingType == [seller : Users, price : 1 .. MaxU64]

ASSUME MarketAssumption ==
    /\ Escrow \notin Users \cup {Vault}
    /\ NoListing \notin ListingType
    /\ InitialLamports \in [Accounts -> Nat]
    /\ InitialHolder \in [Cards -> Users]
    /\ FeeChoices \subseteq Nat
    /\ ListingFees \subseteq 0 .. MaxU64
    /\ TierChoices \subseteq Nat
    /\ Prices \subseteq 0 .. MaxU64
    /\ Floors \subseteq 0 .. MaxU64
    /\ Amounts \subseteq Nat
    /\ MarketPauses \subseteq SUBSET PauseFlags

VARIABLES
    pool,                 \* the BuybackPool account
    listing,              \* the Listing account of each card, if open
    card_meta,            \* the cards that have a CardMeta account
    total_cards_minted,   \* config.total_cards_minted
    holder,               \* who holds each card
    lamports              \* SOL balance of each account

marketVars ==
    <<config, pool, listing, card_meta, total_cards_minted, holder, lamports>>

PoolType ==
    [total_lamports : 0 .. MaxU64, lifetime_in : 0 .. MaxU64,
     lifetime_out : 0 .. MaxU64, floor_price : 0 .. MaxU64,
     instant_sell_enabled : BOOLEAN]

\* Widths and ranges of every account the market touches.
MarketTypeOK ==
    /\ config \in ConfigType
    /\ pool \in PoolType
    /\ listing \in [Cards -> ListingType \cup {NoListing}]
    /\ card_meta \subseteq Cards
    /\ total_cards_minted \in 0 .. MaxU64
    /\ holder \in [Cards -> Holders]
    /\ lamports \in [Accounts -> Nat]

NewPool == [total_lamports |-> 0, lifetime_in |-> 0, lifetime_out |-> 0,
            floor_price |-> 0, instant_sell_enabled |-> FALSE]

MarketInit ==
    /\ ConfigInit
    /\ pool = NewPool
    /\ listing = [c \in Cards |-> NoListing]
    /\ card_meta = {}
    /\ total_cards_minted = 0
    /\ holder = InitialHolder
    /\ lamports = InitialLamports

-----------------------------------------------------------------------------
\* The ledger after amount went from one account to another, possibly itself.
Move(ledger, from, to, amount) ==
    [[ledger EXCEPT ![from] = @ - amount] EXCEPT ![to] = @ + amount]

\* The runtime lets a program debit only its own accounts.
MayDebit(from, to, amount) == from \in ProgramOwned \/ from = to \/ amount = 0

\* Pool bookkeeping of an inflow, both sums checked.
MutCanCredit(amount) == pool.total_lamports + amount <= MaxU64
CanCredit(amount) ==
    /\ pool.total_lamports + amount <= MaxU64
    /\ pool.lifetime_in + amount <= MaxU64

MutCredited(amount) == [pool EXCEPT !.total_lamports = @ + amount]
Credited(amount) ==
    [pool EXCEPT !.total_lamports = @ + amount, !.lifetime_in = @ + amount]

-----------------------------------------------------------------------------
\* Instructions of players and traders.

MintCard(u, c, tier) ==
    LET cut      == MintPoolCut(tier)
        toVault  == Move(lamports, u, Vault, cut)
    IN  /\ config.initialized
        /\ ~IsPaused(PAUSE_MINT)
        /\ tier <= MAX_TIER
        /\ c \notin card_meta
        /\ card_meta' = card_meta \cup {c}
        /\ total_cards_minted < MaxU64
        /\ total_cards_minted' = total_cards_minted + 1
        /\ CanCredit(cut)
        /\ pool' = Credited(cut)
        /\ lamports[u] >= cut
        /\ toVault[u] >= MintTreasuryCut(tier)
        /\ lamports' = Move(toVault, u, Treasury, MintTreasuryCut(tier))
        /\ UNCHANGED <<config, listing, holder>>

\* The listing account is created: there is at most one per card mint.
ListCard(u, c, price) ==
    LET fee == config.listing_fee IN
    /\ config.initialized
    /\ ~IsPaused(PAUSE_MARKET)
    /\ price > 0
    /\ listing[c] = NoListing
    /\ listing' = [listing EXCEPT ![c] = [seller |-> u, price |-> price]]
    /\ CanCredit(fee)
    /\ pool' = Credited(fee)
    /\ lamports[u] >= fee
    /\ lamports' = Move(lamports, u, Vault, fee)
    /\ holder[c] = u
    /\ holder' = [holder EXCEPT ![c] = Escrow]
    /\ UNCHANGED <<config, card_meta, total_cards_minted>>

\* Paused with the market.
MutCancelListingPaused(u, c) ==
    /\ ~IsPaused(PAUSE_MARKET)
    /\ listing[c] # NoListing
    /\ listing[c].seller = u
    /\ holder[c] = Escrow
    /\ holder' = [holder EXCEPT ![c] = u]
    /\ listing' = [listing EXCEPT ![c] = NoListing]
    /\ UNCHANGED <<config, pool, card_meta, total_cards_minted, lamports>>

\* The listing account is not closed.
MutCancelListingOpen(u, c) ==
    /\ listing[c] # NoListing
    /\ listing[c].seller = u
    /\ holder[c] = Escrow
    /\ holder' = [holder EXCEPT ![c] = u]
    /\ UNCHANGED <<config, pool, listing, card_meta, total_cards_minted, lamports>>

\* Anyone cancels, and has the card.
MutCancelListingAnyone(u, c) ==
    /\ listing[c] # NoListing
    /\ holder[c] = Escrow
    /\ holder' = [holder EXCEPT ![c] = u]
    /\ listing' = [listing EXCEPT ![c] = NoListing]
    /\ UNCHANGED <<config, pool, card_meta, total_cards_minted, lamports>>

\* Reads no Config account, so no pause bit either.
CancelListing(u, c) ==
    /\ listing[c] # NoListing
    /\ listing[c].seller = u
    /\ holder[c] = Escrow
    /\ holder' = [holder EXCEPT ![c] = u]
    /\ listing' = [listing EXCEPT ![c] = NoListing]
    /\ UNCHANGED <<config, pool, card_meta, total_cards_minted, lamports>>

\* The buyer pays seller, vault and treasury in that order; the buyer may
\* be the seller.
BuyCard(u, c) ==
    LET price      == listing[c].price
        feeBps     == config.market_fee_bps
        seller     == listing[c].seller
        cut        == PoolCut(price, feeBps)
        toSeller   == Move(lamports, u, seller, SellerNet(price, feeBps))
        toVault    == Move(toSeller, u, Vault, cut)
    IN  /\ config.initialized
        /\ ~IsPaused(PAUSE_MARKET)
        /\ listing[c] # NoListing
        /\ CanCredit(cut)
        /\ pool' = Credited(cut)
        /\ lamports[u] >= SellerNet(price, feeBps)
        /\ toSeller[u] >= cut
        /\ toVault[u] >= BurnCut(price, feeBps)
        /\ lamports' = Move(toVault, u, Treasury, BurnCut(price, feeBps))
        /\ holder[c] = Escrow
        /\ holder' = [holder EXCEPT ![c] = u]
        /\ listing' = [listing EXCEPT ![c] = NoListing]
        /\ UNCHANGED <<config, card_meta, total_cards_minted>>

\* The card need not have a CardMeta record; a floor of 1 pays nothing.
InstantSell(u, c) ==
    LET payout == Payout(pool.floor_price) IN
    /\ config.initialized
    /\ ~IsPaused(PAUSE_INSTANT_SELL)
    /\ pool.instant_sell_enabled
    /\ pool.floor_price > 0
    /\ pool.total_lamports >= payout
    /\ pool.lifetime_out + payout <= MaxU64
    /\ pool' = [pool EXCEPT !.total_lamports = @ - payout, !.lifetime_out = @ + payout]
    /\ holder[c] = u
    /\ holder' = [holder EXCEPT ![c] = Vault]
    /\ lamports[Vault] >= payout
    /\ MayDebit(Vault, u, payout)
    /\ lamports' = Move(lamports, Vault, u, payout)
    /\ UNCHANGED <<config, listing, card_meta, total_cards_minted>>

-----------------------------------------------------------------------------
\* Instructions of the authority.

\* A floor of zero costs nothing and leaves it on.
MutUpdateFloor(u, floor) ==
    /\ IsAuthority(u)
    /\ pool' = [pool EXCEPT !.floor_price = floor,
                            !.instant_sell_enabled = @ /\ pool.total_lamports >= Payout(floor)]
    /\ UNCHANGED <<config, listing, card_meta, total_cards_minted, holder, lamports>>

\* A floor the pool cannot pay once switches instant sell off; no floor
\* switches it on.
UpdateFloor(u, floor) ==
    /\ IsAuthority(u)
    /\ pool' = [pool EXCEPT
                  !.floor_price = floor,
                  !.instant_sell_enabled =
                      @ /\ floor > 0 /\ pool.total_lamports >= Payout(floor)]
    /\ UNCHANGED <<config, listing, card_meta, total_cards_minted, holder, lamports>>

SetInstantSell(u, enabled) ==
    /\ IsAuthority(u)
    /\ enabled => pool.floor_price > 0
    /\ pool' = [pool EXCEPT !.instant_sell_enabled = enabled]
    /\ UNCHANGED <<config, listing, card_meta, total_cards_minted, holder, lamports>>

\* From the vault.
MutWithdrawTreasury(u, amount) ==
    /\ IsAuthority(u)
    /\ lamports[Vault] >= amount
    /\ MayDebit(Vault, u, amount)
    /\ lamports' = Move(lamports, Vault, u, amount)
    /\ UNCHANGED <<config, pool, listing, card_meta, total_cards_minted, holder>>

WithdrawTreasury(u, amount) ==
    /\ IsAuthority(u)
    /\ lamports[Treasury] >= amount
    /\ MayDebit(Treasury, u, amount)
    /\ lamports' = Move(lamports, Treasury, u, amount)
    /\ UNCHANGED <<config, pool, listing, card_meta, total_cards_minted, holder>>

MarketSetPause(u, flags) ==
    /\ SetPause(u, flags)
    /\ UNCHANGED <<pool, listing, card_meta, total_cards_minted, holder, lamports>>

\* initialize also creates the pool account and zeroes the card count.
MarketInitialize(u, feeBps, listingFee) ==
    /\ Initialize(u, BURN_BPS, POOL_BPS, feeBps, listingFee)
    /\ pool' = NewPool
    /\ total_cards_minted' = 0
    /\ UNCHANGED <<listing, card_meta, holder, lamports>>

-----------------------------------------------------------------------------
\* Outside the program: wallets move their own SOL and cards, to the vault and
\* to a listing's escrow too.  The escrow is an ordinary token account that
\* anyone may create and send to; a card sent there is not listed.

WalletPays(u, to, amount) ==
    /\ lamports[u] >= amount
    /\ lamports' = Move(lamports, u, to, amount)
    /\ UNCHANGED <<config, pool, listing, card_meta, total_cards_minted, holder>>

WalletGivesCard(u, to, c) ==
    /\ holder[c] = u
    /\ holder' = [holder EXCEPT ![c] = to]
    /\ UNCHANGED <<config, pool, listing, card_meta, total_cards_minted, lamports>>

TradeStep ==
    \E u \in Users, c \in Cards :
        \/ \E tier \in TierChoices : MintCard(u, c, tier)
        \/ \E price \in Prices : ListCard(u, c, price)
        \/ CancelListing(u, c)
        \/ BuyCard(u, c)
        \/ InstantSell(u, c)

AdminStep ==
    \E u \in Users :
        \/ \E floor \in Floors : UpdateFloor(u, floor)
        \/ \E enabled \in BOOLEAN : SetInstantSell(u, enabled)
        \/ \E amount \in Amounts : WithdrawTreasury(u, amount)
        \/ \E flags \in MarketPauses : MarketSetPause(u, flags)

WalletStep ==
    \E u \in Users :
        \/ \E to \in Accounts, amount \in Amounts : WalletPays(u, to, amount)
        \/ \E to \in Holders, c \in Cards : WalletGivesCard(u, to, c)

MarketNext ==
    \/ \E u \in Deployers, feeBps \in FeeChoices, fee \in ListingFees :
           MarketInitialize(u, feeBps, fee)
    \/ TradeStep
    \/ AdminStep
    \/ WalletStep

MarketSpec == MarketInit /\ [][MarketNext]_marketVars

-----------------------------------------------------------------------------
(***************************************************************************)
(* The pool's books are right and backed: what it counts is what came in   *)
(* minus what went out, and the vault really holds at least that much SOL. *)
(* Five instructions keep the counters, and the vault moves by separate    *)
(* transfers (buy_card, instant_sell); a share credited but not paid, or   *)
(* paid twice, breaks it many steps later.                                 *)
(***************************************************************************)
PoolSolvent ==
    /\ pool.total_lamports = pool.lifetime_in - pool.lifetime_out
    /\ pool.total_lamports <= lamports[Vault]

(***************************************************************************)
(* The card of an open listing is in escrow: a cancel and a buy that race  *)
(* for it, and a relisting of the same card under the same account, leave  *)
(* no listing that sells what it does not hold.  Not the other way round:  *)
(* a wallet may send a card to the escrow without list_card, and there it  *)
(* stays.                                                                  *)
(***************************************************************************)
ListedIsEscrowed == \A c \in Cards : listing[c] # NoListing => holder[c] = Escrow

(***************************************************************************)
(* total_cards_minted counts each recorded card mint once, however often   *)
(* and by whomever mint_card is called.                                    *)
(***************************************************************************)
MintedMatchesRecords == total_cards_minted = Cardinality(card_meta)

(***************************************************************************)
(* Instant sell is open only with a floor set (docs/security.md:52-56),    *)
(* over every order of update_floor and set_instant_sell.                  *)
(***************************************************************************)
OpenOnlyWithFloor == pool.instant_sell_enabled => pool.floor_price > 0 /\ config.initialized

(***************************************************************************)
(* A listing closes in one of two ways.  Either the seller has the card    *)
(* back and no SOL moved; or some buyer has it and every account's balance *)
(* changes by exactly its share of the price: the seller's net, the pool's *)
(* and the treasury's cuts add up to what the buyer paid, also when one    *)
(* account plays two of these parts (buy_card).                            *)
(***************************************************************************)
If(b, n) == IF b THEN n ELSE 0

SoldExactly(c, b) ==
    LET p   == listing[c].price
        bps == config.market_fee_bps
    IN  /\ holder'[c] = b
        /\ \A a \in Accounts :
              lamports'[a] - lamports[a] =
                  If(a = listing[c].seller, SellerNet(p, bps)) + If(a = Vault, PoolCut(p, bps))
                    + If(a = Treasury, BurnCut(p, bps)) - If(a = b, p)
        /\ pool'.lifetime_in - pool.lifetime_in = PoolCut(p, bps)

ListingClosesExactly ==
    [][ \A c \in Cards :
          listing[c] # NoListing /\ listing'[c] = NoListing =>
              \/ holder'[c] = listing[c].seller /\ UNCHANGED <<lamports, pool>>
              \/ \E b \in Users : SoldExactly(c, b) ]_marketVars

(***************************************************************************)
(* The pool pays only for a card: whenever lifetime_out grows, one card    *)
(* went from a wallet to the vault and that wallet got the same amount,    *)
(* at most half the floor (instant_sell).                                  *)
(***************************************************************************)
EveryPayoutBuysACard ==
    [][ LET paid == pool'.lifetime_out - pool.lifetime_out IN
        paid > 0 => \E u \in Users, c \in Cards :
            /\ holder[c] = u /\ holder'[c] = Vault
            /\ lamports'[u] - lamports[u] = paid
            /\ 2 * paid <= pool.floor_price ]_marketVars

(***************************************************************************)
(* Whatever happened since, paused or not, with full counters or an empty  *)
(* pool, the seller of an open listing can take the card back              *)
(* (cancel_listing).                                                       *)
(***************************************************************************)
SellerCanCancel ==
    \A c \in Cards : listing[c] # NoListing => ENABLED CancelListing(listing[c].seller, c)

(***************************************************************************)
(* The pool and its vault implement the fund of BuybackFund: the gap       *)
(* between the vault's SOL and the tracked balance never narrows, and a    *)
(* payout never exceeds what is tracked.                                   *)
(***************************************************************************)
Fund == INSTANCE BuybackFund
            WITH cash     <- lamports[Vault],
                 recorded <- pool.total_lamports,
                 paidIn   <- pool.lifetime_in,
                 paidOut  <- pool.lifetime_out
FundSpec == Fund!FundSpec

(***************************************************************************)
(* The market implements the custody of CardCustody: the owner of a listed *)
(* card is the seller its Listing account names, of any other card its     *)
(* holder, be it the escrow it was sent to without a listing.              *)
(***************************************************************************)
Custody == INSTANCE CardCustody
            WITH Wallets  <- Users,
                 DeadEnds <- {Vault, Escrow},
                 owner    <- [c \in Cards |-> IF listing[c] # NoListing
                                              THEN listing[c].seller ELSE holder[c]],
                 onSale   <- {c \in Cards : listing[c] # NoListing},
                 purse    <- lamports
CustodySpec == Custody!CustodySpec

(***************************************************************************)
(* docs/program.md:220-221 "the pool can never promise a buyback it cannot *)
(* fund": whenever instant sell is switched on, the pool covers one payout *)
(* at the floor.  set_instant_sell looks at the floor only, and            *)
(* instant_sell leaves the switch on when it has drained the pool.         *)
(***************************************************************************)
PromisesAreFunded ==
    pool.instant_sell_enabled => pool.total_lamports >= Payout(pool.floor_price)
=============================================================================
