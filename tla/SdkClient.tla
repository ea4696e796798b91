----------------------------- MODULE SdkClient -----------------------------
(***************************************************************************)
(* The market with one wallet behind the SDK (sdk/src/client.ts,           *)
(* accounts.ts): it reads an account, decodes it, quotes or builds a       *)
(* transaction from what it read, and sends it.  The transaction lands     *)
(* later or never; everyone else goes on in between.                       *)
(*                                                                         *)
(* One read or one transaction is under way at a time.  stale is history:  *)
(* whether what was read has changed since.                                *)
(***************************************************************************)
EXTENDS MarketProgram, SdkInstructions, Functions

CONSTANTS
    Client,           \* the wallet that uses the SDK
    Nobody,           \* the absence of an account named in a transaction
    ViaIdl,           \* whether it sends the accounts of the IDL or the SDK's
    DoubleExact,      \* whole numbers up to it are exact as doubles, 2^53
    DoubleSlack,      \* how far a quote is off above it: three roundings, < 3100 lamports
    Calls             \* the other calls it makes: the argument given, the transaction

\* The other calls send what a builder makes of the argument; those of a
\* 64-bit field are given a number that fits, or the SDK would throw.
ASSUME ClientAssumption ==
    /\ Client \in Users /\ ViaIdl \in BOOLEAN
    /\ {DoubleExact, DoubleSlack} \subseteq Nat /\ DoubleSlack * BPS_DENOM <= DoubleExact
    /\ \A call \in Calls :
          LET argument == call.argument IN
          \/ FitsU64(argument) /\ call.tx = SdkUpdateFloor(argument)
          \/ FitsU64(argument) /\ call.tx = SdkWithdrawTreasury(argument)
          \/ argument \in Nat /\ call.tx = SdkSetPause(argument)
          \/ argument \in {0, 1} /\ call.tx = SdkSetInstantSell(argument = 1)
          \/ call.tx.name \in {"deploy_agent", "catch_attempt", "gym_challenge", "force_evolve",
                               "initialize"}

VARIABLES
    client,           \* idle, or the value read, or the transaction sent
    stale

clientVars == <<marketVars, client, stale>>

Idle == [phase |-> "idle"]

-----------------------------------------------------------------------------
\* Accounts as the program stores them, in the order of its structs.  What
\* the market does not model is zero.

PauseBit == [catch |-> 1, mint |-> 2, market |-> 4, instant_sell |-> 8]

PauseByte == SumFunctionOnSet(PauseBit, config.paused)

StoredConfig ==
    Disc("Config",
        Pubkey(config.authority) \o Pubkey("page_mint") \o Pubkey(Treasury) \o Pubkey(Vault)
        \o U16(config.burn_bps) \o U16(BPS_DENOM - config.burn_bps) \o U16(config.market_fee_bps)
        \o U16(INSTANT_SELL_BPS) \o U64(config.listing_fee) \o U64(0) \o U64(total_cards_minted)
        \o U8(PauseByte) \o U8(0))

StoredPool ==
    Disc("BuybackPool",
        U64(pool.total_lamports) \o U64(pool.lifetime_in) \o U64(pool.lifetime_out)
        \o U64(pool.floor_price) \o Bool(pool.instant_sell_enabled) \o U8(0))

StoredListing(c) ==
    Disc("Listing",
        Pubkey(listing[c].seller) \o Pubkey(c) \o U64(listing[c].price) \o U8(0) \o U8(0)
        \o U8(0) \o I64(0) \o Bool(TRUE) \o U8(0))

\* The SDK's decoders: fields in the order read.

\* Two fields of one width in the other order.
MutDecodeConfig(buf) ==
    [authority |-> Read(buf, 2, "key"), pageMint |-> Read(buf, 3, "key"),
     treasury |-> Read(buf, 4, "key"), buybackVault |-> Read(buf, 5, "key"),
     burnBps |-> Read(buf, 6, "u16"), poolBps |-> Read(buf, 7, "u16"),
     marketFeeBps |-> Read(buf, 9, "u16"), instantSellBps |-> Read(buf, 8, "u16"),
     listingFee |-> Read(buf, 10, "u64"), totalBurned |-> Read(buf, 11, "u64"),
     totalCardsMinted |-> Read(buf, 12, "u64"), paused |-> Read(buf, 13, "u8"),
     bump |-> Read(buf, 14, "u8")]

DecodeConfig(buf) ==
    [authority |-> Read(buf, 2, "key"), pageMint |-> Read(buf, 3, "key"),
     treasury |-> Read(buf, 4, "key"), buybackVault |-> Read(buf, 5, "key"),
     burnBps |-> Read(buf, 6, "u16"), poolBps |-> Read(buf, 7, "u16"),
     marketFeeBps |-> Read(buf, 8, "u16"), instantSellBps |-> Read(buf, 9, "u16"),
     listingFee |-> Read(buf, 10, "u64"), totalBurned |-> Read(buf, 11, "u64"),
     totalCardsMinted |-> Read(buf, 12, "u64"), paused |-> Read(buf, 13, "u8"),
     bump |-> Read(buf, 14, "u8")]

\* The floor is read where lifetime_out is.
MutDecodePool(buf) ==
    [totalLamports |-> Read(buf, 2, "u64"), lifetimeIn |-> Read(buf, 3, "u64"),
     lifetimeOut |-> Read(buf, 5, "u64"), floorPrice |-> Read(buf, 4, "u64"),
     instantSellEnabled |-> ReadBool(buf, 6), bump |-> Read(buf, 7, "u8")]

DecodePool(buf) ==
    [totalLamports |-> Read(buf, 2, "u64"), lifetimeIn |-> Read(buf, 3, "u64"),
     lifetimeOut |-> Read(buf, 4, "u64"), floorPrice |-> Read(buf, 5, "u64"),
     instantSellEnabled |-> ReadBool(buf, 6), bump |-> Read(buf, 7, "u8")]

DecodeListing(buf) ==
    [seller |-> Read(buf, 2, "key"), cardMint |-> Read(buf, 3, "key"),
     price |-> Read(buf, 4, "u64"), tier |-> Read(buf, 5, "u8"), level |-> Read(buf, 6, "u8"),
     stage |-> Read(buf, 7, "u8"), createdAt |-> Read(buf, 8, "i64"),
     active |-> ReadBool(buf, 9), bump |-> Read(buf, 10, "u8")]

\* What the bits of a number stand for.
FlagsOf(number) == {flag \in PauseFlags : (number \div PauseBit[flag]) % 2 = 1}

\* isPaused of sdk/src/types.ts: the bit of the byte.
SdkIsPaused(account, flag) == flag \in FlagsOf(account.paused)

\* The quote is computed in doubles, from a floor that is one too: exact while
\* the product is, close to it above.
QuoteError(floor) == IF floor * INSTANT_SELL_BPS <= DoubleExact THEN 0 ELSE DoubleSlack

\* What instantSellQuote may return.
InstantSellQuote(floor) ==
    LET exact == (floor * INSTANT_SELL_BPS) \div BPS_DENOM IN
    exact - QuoteError(floor) .. exact + QuoteError(floor)

\* What was read has changed: the listing of the card, or the floor.
Outdated ==
    \/ stale
    \/ client.of = "listing" /\ listing'[client.card] # listing[client.card]
    \/ client.of = "pool" /\ pool'.floor_price # pool.floor_price

-----------------------------------------------------------------------------
\* Reads.

FetchListing(c) ==
    /\ client = Idle
    /\ listing[c] # NoListing
    /\ LET account == DecodeListing(StoredListing(c)) IN
       client' = [phase |-> "read", of |-> "listing", card |-> account.cardMint,
                  seller |-> account.seller, worth |-> account.price]
    /\ UNCHANGED <<marketVars, stale>>

\* instantSellPayout; without a pool account the quote is zero.
FetchQuote ==
    /\ client = Idle
    /\ \E quote \in IF config.initialized
                   THEN InstantSellQuote(DecodePool(StoredPool).floorPrice) ELSE {0} :
         client' = [phase |-> "read", of |-> "pool", worth |-> quote]
    /\ UNCHANGED <<marketVars, stale>>

\* Transactions built from what was read, or from the caller's arguments.

Sent(from, card, seller, worth, tx) ==
    [phase |-> "sent", of |-> from, card |-> card, seller |-> seller, worth |-> worth, tx |-> tx]

SendBuy ==
    /\ client.phase = "read" /\ client.of = "listing"
    /\ client' = Sent("listing", client.card, client.seller, client.worth, SdkBuyCard)
    /\ UNCHANGED <<marketVars, stale>>

SendSale(c) ==
    /\ client.phase = "read" /\ client.of = "pool"
    /\ holder[c] = Client
    /\ client' = Sent("pool", c, Client, client.worth, SdkInstantSell)
    /\ UNCHANGED <<marketVars, stale>>

SendListing(c, price) ==
    /\ client = Idle
    /\ holder[c] = Client /\ FitsU64(price)
    /\ client' = Sent("arguments", c, Client, price, SdkListCard(price, 0, 1, 0))
    /\ UNCHANGED <<marketVars, stale>>

SendCall(call) ==
    /\ client = Idle
    /\ client' = Sent("arguments", Nobody, Client, call.argument, call.tx)
    /\ UNCHANGED <<marketVars, stale>>

-----------------------------------------------------------------------------
\* A transaction is executed or refused at once, or it is lost.

\* A client built on the IDL sends the accounts of the context, in its order.
Keys(name) == IF ViaIdl THEN Context(name) ELSE BuilderKeys(name)

Done == client' = Idle /\ stale' = FALSE

Lands(name) ==
    /\ client.phase = "sent" /\ client.tx.name = name /\ Accepted(name, Keys(name))
    /\ Done

\* Whatever account is named is accepted as the seller.
MutLandBuy == Lands("buy_card") /\ BuyCard(Client, client.card)

\* The seller's account must be the one in the listing.
LandBuy ==
    /\ Lands("buy_card")
    /\ listing[client.card] # NoListing
    /\ client.seller = listing[client.card].seller
    /\ BuyCard(Client, client.card)

LandSale == Lands("instant_sell") /\ InstantSell(Client, client.card)

LandListing ==
    Lands("list_card") /\ ListCard(Client, client.card, Read(client.tx.data, 2, "u64"))

LandCall ==
    LET argument == Read(client.tx.data, 2, client.tx.data[2].width) IN
    \/ Lands("update_floor")      /\ UpdateFloor(Client, argument)
    \/ Lands("set_instant_sell")  /\ SetInstantSell(Client, argument = 1)
    \/ Lands("set_pause")         /\ MarketSetPause(Client, FlagsOf(argument))
    \/ Lands("withdraw_treasury") /\ WithdrawTreasury(Client, argument)

\* Also a read that nothing is made of.
Lose ==
    /\ client # Idle
    /\ Done
    /\ UNCHANGED marketVars

Others ==
    /\ MarketNext
    /\ UNCHANGED client
    /\ stale' = (client # Idle /\ Outdated)

ClientInit == MarketInit /\ client = Idle /\ stale = FALSE

ClientNext ==
    \/ Others
    \/ FetchQuote \/ SendBuy \/ LandBuy \/ LandSale \/ LandListing \/ LandCall \/ Lose
    \/ \E c \in Cards : FetchListing(c) \/ SendSale(c)
    \/ \E c \in Cards, price \in Prices : SendListing(c, price)
    \/ \E call \in Calls : SendCall(call)

ClientSpec == ClientInit /\ [][ClientNext]_clientVars

-----------------------------------------------------------------------------
(***************************************************************************)
(* What the SDK decodes is what the program stored: each field of Config   *)
(* and BuybackPool, read at its place in the struct, and the pause bits as *)
(* isPaused takes them from the byte (sdk/src/accounts.ts against state/). *)
(***************************************************************************)
ReadsAreFaithful ==
    LET c == DecodeConfig(StoredConfig)
        p == DecodePool(StoredPool)
    IN  /\ <<c.authority, c.treasury, c.buybackVault>> = <<config.authority, Treasury, Vault>>
        /\ <<c.pageMint, c.poolBps, c.instantSellBps>> =
               <<"page_mint", BPS_DENOM - config.burn_bps, INSTANT_SELL_BPS>>
        /\ <<c.burnBps, c.marketFeeBps>> = <<config.burn_bps, config.market_fee_bps>>
        /\ <<c.listingFee, c.totalCardsMinted>> = <<config.listing_fee, total_cards_minted>>
        /\ \A flag \in PauseFlags : SdkIsPaused(c, flag) <=> IsPaused(flag)
        /\ [total_lamports |-> p.totalLamports, lifetime_in |-> p.lifetimeIn,
            lifetime_out |-> p.lifetimeOut, floor_price |-> p.floorPrice,
            instant_sell_enabled |-> p.instantSellEnabled] = pool

(***************************************************************************)
(* A purchase that lands pays whom the client read, whoever listed the     *)
(* card in between; and at the price it read, unless that seller closed    *)
(* the listing and opened it again (buy_card names the seller and no       *)
(* maximum price).                                                         *)
(***************************************************************************)
Executes(name) ==
    client.phase = "sent" /\ client.tx.name = name /\ client' = Idle /\ holder' # holder

Paid(a) == lamports'[a] - lamports[a]

PurchaseAsRead ==
    [][ Executes("buy_card") =>
          LET price == listing[client.card].price IN
          /\ Paid(client.seller) =
                SellerNet(price, config.market_fee_bps) - If(client.seller = Client, price)
                  + If(client.seller = Treasury, BurnCut(price, config.market_fee_bps))
          /\ ~stale => price = client.worth ]_clientVars

(***************************************************************************)
(* src/pricing.ts:3-4 "off-chain estimates match on-chain charges": a sale *)
(* to the pool pays the quote of the floor that was read, unless the floor *)
(* has changed since (instant_sell names no minimum): to the lamport while *)
(* doubles are exact, within their error above.                            *)
(***************************************************************************)
SaleAsQuoted ==
    [][ LET error == QuoteError(pool.floor_price) IN
        Executes("instant_sell") /\ ~stale =>
            Paid(Client) \in client.worth - error .. client.worth + error ]_clientVars

(***************************************************************************)
(* What a landed call writes is what the caller gave, whatever the writers *)
(* mask away: a listing has its price, the pool its floor, and no pause    *)
(* bit of the number given is lost or added (sdk/src/borsh.ts).            *)
(***************************************************************************)
LandsAsCalled ==
    [][ client.phase = "sent" /\ client' = Idle /\ marketVars' # marketVars =>
          CASE client.tx.name = "list_card" -> listing'[client.card].price = client.worth
            [] client.tx.name = "update_floor" -> pool'.floor_price = client.worth
            [] client.tx.name = "set_pause" -> config'.paused = FlagsOf(client.worth)
            [] OTHER -> TRUE ]_clientVars

(***************************************************************************)
(* sdk/src/instructions.ts:2-3 "Account ordering mirrors the program's     *)
(* Accounts contexts": the program accepts the accounts of every           *)
(* transaction the SDK builds.  Each builder puts a PDA first, where each  *)
(* context has the signer.                                                 *)
(***************************************************************************)
BuildersMirrorContexts == client.phase = "sent" => Accepted(client.tx.name, Keys(client.tx.name))
=============================================================================
