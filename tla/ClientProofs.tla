---------------------------- MODULE ClientProofs ----------------------------
(***************************************************************************)
(* Proofs about SdkClient: what the SDK reads is what the program stored,  *)
(* and a transaction that lands does what the client read or was told, for *)
(* every interleaving with everyone else's instructions.                   *)
(***************************************************************************)
EXTENDS SdkClient, MarketProofs, SumProofs

-----------------------------------------------------------------------------
\* The weight of each pause flag.
LEMMA Bits ==
    /\ \A flag \in PauseFlags : PauseBit[flag] \in Int
    /\ PauseBit[PAUSE_CATCH] = 1 /\ PauseBit[PAUSE_MINT] = 2
    /\ PauseBit[PAUSE_MARKET] = 4 /\ PauseBit[PAUSE_INSTANT_SELL] = 8
  BY DEF PauseBit, PauseFlags, PAUSE_CATCH, PAUSE_MINT, PAUSE_MARKET, PAUSE_INSTANT_SELL

\* The byte of a set of flags is the sum of their bits, each counted once.
LEMMA ByteOfFlags ==
    ASSUME NEW flags \in SUBSET PauseFlags
    PROVE  SumFunctionOnSet(PauseBit, flags) =
               If(PAUSE_CATCH \in flags, 1) + If(PAUSE_MINT \in flags, 2)
                 + If(PAUSE_MARKET \in flags, 4) + If(PAUSE_INSTANT_SELL \in flags, 8)
<1> DEFINE Sum(S) == SumFunctionOnSet(PauseBit, S)
<1>1. ASSUME NEW S \in SUBSET PauseFlags, NEW flag \in PauseFlags
      PROVE  /\ Sum(S) = If(flag \in S, PauseBit[flag]) + Sum(S \ {flag})
             /\ Sum(S) \in Int
  <2>1. IsFiniteSet(PauseFlags)
    <3>1. /\ IsFiniteSet({PAUSE_CATCH}) /\ IsFiniteSet({PAUSE_MINT})
          /\ IsFiniteSet({PAUSE_MARKET}) /\ IsFiniteSet({PAUSE_INSTANT_SELL})
      BY FS_Singleton
    <3>2. IsFiniteSet(({PAUSE_CATCH} \cup {PAUSE_MINT})
                        \cup ({PAUSE_MARKET} \cup {PAUSE_INSTANT_SELL}))
      BY <3>1, FS_Union
    <3>3. PauseFlags = ({PAUSE_CATCH} \cup {PAUSE_MINT})
                         \cup ({PAUSE_MARKET} \cup {PAUSE_INSTANT_SELL})
      BY DEF PauseFlags
    <3> QED
      BY <3>2, <3>3
  <2>2. IsFiniteSet(S) /\ \A x \in S : PauseBit[x] \in Int
    BY <2>1, Bits, FS_Subset
  <2>3. Sum(S) \in Int
    BY <2>2, SumType
  <2>4. CASE flag \in S
    BY <2>2, <2>3, <2>4, SumRemove DEF If
  <2>5. CASE flag \notin S
    <3>1. S \ {flag} = S
      BY <2>5
    <3> QED
      BY <2>3, <2>5, <3>1 DEF If
  <2> QED
    BY <2>3, <2>4, <2>5
<1> DEFINE A == flags \ {PAUSE_CATCH}
           B == A \ {PAUSE_MINT}
           C == B \ {PAUSE_MARKET}
           D == C \ {PAUSE_INSTANT_SELL}
<1>2. /\ flags \in SUBSET PauseFlags /\ A \in SUBSET PauseFlags
      /\ B \in SUBSET PauseFlags /\ C \in SUBSET PauseFlags /\ D = {}
  BY DEF PauseFlags
<1>3. /\ PAUSE_MINT \in A <=> PAUSE_MINT \in flags
      /\ PAUSE_MARKET \in B <=> PAUSE_MARKET \in flags
      /\ PAUSE_INSTANT_SELL \in C <=> PAUSE_INSTANT_SELL \in flags
  BY DEF PAUSE_CATCH, PAUSE_MINT, PAUSE_MARKET, PAUSE_INSTANT_SELL
<1>4. Sum(D) = 0
  BY <1>2, SumEquation
<1> HIDE DEF Sum
<1>5. /\ Sum(flags) = If(PAUSE_CATCH \in flags, 1) + Sum(A)
      /\ Sum(A) = If(PAUSE_MINT \in flags, 2) + Sum(B)
      /\ Sum(B) = If(PAUSE_MARKET \in flags, 4) + Sum(C)
      /\ Sum(C) = If(PAUSE_INSTANT_SELL \in flags, 8) + Sum(D)
      /\ Sum(A) \in Int /\ Sum(B) \in Int /\ Sum(C) \in Int
  <2>1. /\ PAUSE_CATCH \in PauseFlags /\ PAUSE_MINT \in PauseFlags
        /\ PAUSE_MARKET \in PauseFlags /\ PAUSE_INSTANT_SELL \in PauseFlags
    BY DEF PauseFlags
  <2>2. Sum(flags) = If(PAUSE_CATCH \in flags, PauseBit[PAUSE_CATCH]) + Sum(A)
    BY <1>1, <2>1
  <2>3. Sum(A) = If(PAUSE_MINT \in A, PauseBit[PAUSE_MINT]) + Sum(B) /\ Sum(A) \in Int
    BY <1>1, <1>2, <2>1
  <2>4. Sum(B) = If(PAUSE_MARKET \in B, PauseBit[PAUSE_MARKET]) + Sum(C) /\ Sum(B) \in Int
    BY <1>1, <1>2, <2>1
  <2>5. /\ Sum(C) = If(PAUSE_INSTANT_SELL \in C, PauseBit[PAUSE_INSTANT_SELL]) + Sum(D)
        /\ Sum(C) \in Int
    BY <1>1, <1>2, <2>1
  <2> HIDE DEF A, B, C, D
  <2> QED
    BY <1>3, <2>2, <2>3, <2>4, <2>5, Bits DEF If
<1>6. Sum(flags) = If(PAUSE_CATCH \in flags, 1) + If(PAUSE_MINT \in flags, 2)
                     + If(PAUSE_MARKET \in flags, 4) + If(PAUSE_INSTANT_SELL \in flags, 8)
  <2> HIDE DEF A, B, C, D
  <2> QED
    BY <1>4, <1>5 DEF If
<1> QED
  BY <1>6 DEF Sum

\* The byte fits its field, and its bits are the flags.
LEMMA BitsAreFlags ==
    ASSUME NEW flags \in SUBSET PauseFlags
    PROVE  /\ SumFunctionOnSet(PauseBit, flags) \in 0 .. U8Size - 1
           /\ FlagsOf(SumFunctionOnSet(PauseBit, flags)) = flags
<1> DEFINE byte == SumFunctionOnSet(PauseBit, flags)
           a == If(PAUSE_CATCH \in flags, 1)
           b == If(PAUSE_MINT \in flags, 2)
           c == If(PAUSE_MARKET \in flags, 4)
           d == If(PAUSE_INSTANT_SELL \in flags, 8)
<1>1. byte = a + b + c + d
  BY ByteOfFlags
<1>2. /\ a \in {0, 1} /\ (a = 1 <=> PAUSE_CATCH \in flags)
      /\ b \in {0, 2} /\ (b = 2 <=> PAUSE_MINT \in flags)
      /\ c \in {0, 4} /\ (c = 4 <=> PAUSE_MARKET \in flags)
      /\ d \in {0, 8} /\ (d = 8 <=> PAUSE_INSTANT_SELL \in flags)
  BY DEF If
<1> HIDE DEF byte, a, b, c, d
<1>3. /\ byte \in 0 .. U8Size - 1
      /\ (byte \div 1) % 2 = 1 <=> a = 1
      /\ (byte \div 2) % 2 = 1 <=> b = 2
      /\ (byte \div 4) % 2 = 1 <=> c = 4
      /\ (byte \div 8) % 2 = 1 <=> d = 8
  BY <1>1, <1>2 DEF U8Size
<1>4. \A flag \in PauseFlags : (byte \div PauseBit[flag]) % 2 = 1 <=> flag \in flags
  BY <1>2, <1>3, Bits DEF PauseFlags
<1>5. FlagsOf(byte) = flags
  BY <1>4 DEF FlagsOf
<1> QED
  BY <1>3, <1>5 DEF byte

\* The bits that have a meaning survive the mask of the byte writer.
LEMMA MaskKeepsFlags ==
    ASSUME NEW n \in Nat
    PROVE  FlagsOf(n % U8Size) = FlagsOf(n)
<1>1. PICK q \in Nat, r \in 0 .. 255 : n = 256 * q + r /\ n % 256 = r
  <2>1. n = 256 * (n \div 256) + (n % 256) /\ n \div 256 \in Nat /\ n % 256 \in 0 .. 255
    OBVIOUS
  <2> QED
    BY <2>1
<1>2. /\ ((256 * q + r) \div 1) % 2 = (r \div 1) % 2
      /\ ((256 * q + r) \div 2) % 2 = (r \div 2) % 2
      /\ ((256 * q + r) \div 4) % 2 = (r \div 4) % 2
      /\ ((256 * q + r) \div 8) % 2 = (r \div 8) % 2
  OBVIOUS
<1>3. \A flag \in PauseFlags : (n \div PauseBit[flag]) % 2 = ((n % 256) \div PauseBit[flag]) % 2
  <2> SUFFICES ASSUME NEW flag \in PauseFlags
               PROVE  (n \div PauseBit[flag]) % 2 = (r \div PauseBit[flag]) % 2
    BY <1>1
  <2>1. PauseBit[flag] \in {1, 2, 4, 8}
    BY Bits DEF PauseFlags
  <2> QED
    BY <1>1, <1>2, <2>1
<1> QED
  BY <1>3 DEF FlagsOf, U8Size

-----------------------------------------------------------------------------
\* A listing account read at its places.
LEMMA ListingReads ==
    ASSUME NEW c
    PROVE  LET account == DecodeListing(StoredListing(c)) IN
           /\ account.seller = listing[c].seller
           /\ account.cardMint = c
           /\ account.price = listing[c].price
  BY DEF DecodeListing, StoredListing, Read, Disc, Pubkey, U64, U8, I64, Bool, Cell

\* The pool account read at its places.
LEMMA PoolReads ==
    ASSUME pool \in PoolType
    PROVE  LET account == DecodePool(StoredPool) IN
           /\ account.totalLamports = pool.total_lamports
           /\ account.lifetimeIn = pool.lifetime_in
           /\ account.lifetimeOut = pool.lifetime_out
           /\ account.floorPrice = pool.floor_price
           /\ account.instantSellEnabled = pool.instant_sell_enabled
<1>1. Read(StoredPool, 6, "u8") = (IF pool.instant_sell_enabled THEN 1 ELSE 0) % U8Size
  BY DEF StoredPool, Read, Disc, U64, U8, Bool, Cell
<1>2. ReadBool(StoredPool, 6) = pool.instant_sell_enabled
  BY <1>1 DEF ReadBool, U8Size, PoolType
<1>3. /\ Read(StoredPool, 2, "u64") = pool.total_lamports
      /\ Read(StoredPool, 3, "u64") = pool.lifetime_in
      /\ Read(StoredPool, 4, "u64") = pool.lifetime_out
      /\ Read(StoredPool, 5, "u64") = pool.floor_price
  BY DEF StoredPool, Read, Disc, U64, U8, Bool, Cell
<1> QED
  BY <1>2, <1>3 DEF DecodePool

\* A share in basis points fits two bytes.
LEMMA SharesFit ==
    ASSUME config \in ConfigType
    PROVE  /\ config.burn_bps % U16Size = config.burn_bps
           /\ (BPS_DENOM - config.burn_bps) % U16Size = BPS_DENOM - config.burn_bps
           /\ INSTANT_SELL_BPS % U16Size = INSTANT_SELL_BPS
           /\ config.market_fee_bps % U16Size = config.market_fee_bps
<1> DEFINE burn == config.burn_bps
           fee  == config.market_fee_bps
<1>1. burn \in 0 .. BPS_DENOM
  BY DEF ConfigType
<1>2. fee \in 0 .. MAX_MARKET_FEE_BPS
  BY DEF ConfigType
<1> HIDE DEF burn, fee
<1>6. burn \in 0 .. 10000
  BY <1>1 DEF BPS_DENOM
<1>3. burn % 65536 = burn
  BY <1>6
<1>7. (10000 - burn) % 65536 = 10000 - burn
  <2> DEFINE rest == 10000 - burn
  <2>1. rest \in 0 .. 10000
    BY <1>6
  <2> HIDE DEF rest
  <2>2. rest % 65536 = rest
    BY <2>1
  <2> QED
    BY <2>2 DEF rest
<1>5. INSTANT_SELL_BPS % 65536 = INSTANT_SELL_BPS
  BY DEF INSTANT_SELL_BPS
<1>4. fee % 65536 = fee
  BY <1>2 DEF MAX_MARKET_FEE_BPS
<1> QED
  BY <1>3, <1>4, <1>5, <1>7 DEF burn, fee, U16Size, BPS_DENOM

\* The Config account read at its places: every 16-bit share fits its field.
LEMMA ConfigReads ==
    ASSUME config \in ConfigType
    PROVE  LET account == DecodeConfig(StoredConfig) IN
           /\ account.authority = config.authority
           /\ account.pageMint = "page_mint"
           /\ account.treasury = Treasury
           /\ account.buybackVault = Vault
           /\ account.burnBps = config.burn_bps
           /\ account.poolBps = BPS_DENOM - config.burn_bps
           /\ account.marketFeeBps = config.market_fee_bps
           /\ account.instantSellBps = INSTANT_SELL_BPS
           /\ account.listingFee = config.listing_fee
           /\ account.totalCardsMinted = total_cards_minted
           /\ account.paused = PauseByte
<1>0. /\ Read(StoredConfig, 2, "key") = config.authority
      /\ Read(StoredConfig, 3, "key") = "page_mint"
      /\ Read(StoredConfig, 4, "key") = Treasury
      /\ Read(StoredConfig, 5, "key") = Vault
  BY DEF StoredConfig, Read, Disc, Pubkey, U64, U16, U8, Cell
<1>1. /\ Read(StoredConfig, 6, "u16") = config.burn_bps % U16Size
      /\ Read(StoredConfig, 7, "u16") = (BPS_DENOM - config.burn_bps) % U16Size
      /\ Read(StoredConfig, 8, "u16") = config.market_fee_bps % U16Size
      /\ Read(StoredConfig, 9, "u16") = INSTANT_SELL_BPS % U16Size
  BY DEF StoredConfig, Read, Disc, Pubkey, U64, U16, U8, Cell
<1>2. /\ Read(StoredConfig, 10, "u64") = config.listing_fee
      /\ Read(StoredConfig, 12, "u64") = total_cards_minted
      /\ Read(StoredConfig, 13, "u8") = PauseByte % U8Size
  BY DEF StoredConfig, Read, Disc, Pubkey, U64, U16, U8, Cell
<1>3. PauseByte % U8Size = PauseByte
  <2>1. PauseByte \in 0 .. U8Size - 1
    BY BitsAreFlags DEF PauseByte, ConfigType
  <2> QED
    BY <2>1 DEF U8Size
<1> QED
  BY <1>0, <1>1, <1>2, <1>3, SharesFit DEF DecodeConfig

\* In every state of its type the market's accounts are read as stored.
LEMMA TypedReadsAreFaithful == MarketTypeOK => ReadsAreFaithful
<1> SUFFICES ASSUME MarketTypeOK PROVE ReadsAreFaithful
  OBVIOUS
<1> DEFINE c == DecodeConfig(StoredConfig)
           p == DecodePool(StoredPool)
<1>1. config \in ConfigType /\ pool \in PoolType
  BY DEF MarketTypeOK
<1>2. \A flag \in PauseFlags : SdkIsPaused(c, flag) <=> IsPaused(flag)
  <2>1. FlagsOf(PauseByte) = config.paused
    BY <1>1, BitsAreFlags DEF PauseByte, ConfigType
  <2>2. c.paused = PauseByte
    BY <1>1, ConfigReads
  <2> QED
    BY <2>1, <2>2 DEF SdkIsPaused, IsPaused
<1>3. [total_lamports |-> p.totalLamports, lifetime_in |-> p.lifetimeIn,
       lifetime_out |-> p.lifetimeOut, floor_price |-> p.floorPrice,
       instant_sell_enabled |-> p.instantSellEnabled] = pool
  BY <1>1, PoolReads DEF PoolType
<1> HIDE DEF p
<1>4. /\ <<c.authority, c.treasury, c.buybackVault>> = <<config.authority, Treasury, Vault>>
      /\ <<c.pageMint, c.poolBps, c.instantSellBps>> =
             <<"page_mint", BPS_DENOM - config.burn_bps, INSTANT_SELL_BPS>>
      /\ <<c.burnBps, c.marketFeeBps>> = <<config.burn_bps, config.market_fee_bps>>
      /\ <<c.listingFee, c.totalCardsMinted>> = <<config.listing_fee, total_cards_minted>>
  BY <1>1, ConfigReads
<1> QED
  BY <1>2, <1>3, <1>4 DEF ReadsAreFaithful, p

-----------------------------------------------------------------------------
(***************************************************************************)
(* What the client can be in the middle of, and with which values: what it *)
(* read, or a transaction some builder made of what it read or was given.  *)
(***************************************************************************)
ClientTypeOK ==
    \/ client = Idle
    \/ \E c \in Cards, seller \in Users, worth \in 0 .. MaxU64 :
          \/ client = [phase |-> "read", of |-> "listing", card |-> c, seller |-> seller,
                       worth |-> worth]
          \/ client = Sent("listing", c, seller, worth, SdkBuyCard)
    \/ \E worth \in 0 .. MaxU64 :
          client = [phase |-> "read", of |-> "pool", worth |-> worth]
    \/ \E c \in Cards, worth \in 0 .. MaxU64 :
          \/ client = Sent("pool", c, Client, worth, SdkInstantSell)
          \/ client = Sent("arguments", c, Client, worth, SdkListCard(worth, 0, 1, 0))
    \/ \E call \in Calls : client = Sent("arguments", Nobody, Client, call.argument, call.tx)

\* A quote of the payout at the floor, within the error of the doubles.
IsQuote(worth, floor) ==
    /\ Payout(floor) - QuoteError(floor) <= worth
    /\ worth <= Payout(floor) + QuoteError(floor)

\* What was read is still so, as long as nothing has changed it.
UpToDate ==
    client # Idle /\ ~stale =>
        /\ client.of = "listing" => /\ listing[client.card] # NoListing
                                    /\ listing[client.card].price = client.worth
        /\ client.of = "pool" => IsQuote(client.worth, pool.floor_price)

ClientInv == MarketInv /\ ClientTypeOK /\ UpToDate

\* A quote is near the payout, and never above the floor.
LEMMA QuoteBound ==
    ASSUME NEW floor \in Nat, NEW quote \in InstantSellQuote(floor)
    PROVE  IsQuote(quote, floor) /\ quote \in 0 .. floor
<1>1. DoubleExact \in Nat /\ DoubleSlack \in Nat /\ DoubleSlack * 10000 <= DoubleExact
  BY ClientAssumption DEF BPS_DENOM
<1>2. QuoteError(floor) = IF floor * 5000 <= DoubleExact THEN 0 ELSE DoubleSlack
  BY DEF QuoteError, INSTANT_SELL_BPS
<1>3. Payout(floor) = (floor * 5000) \div 10000
  BY DEF Payout, BpsOf, INSTANT_SELL_BPS, BPS_DENOM
<1>4. quote \in Payout(floor) - QuoteError(floor) .. Payout(floor) + QuoteError(floor)
  BY <1>3 DEF InstantSellQuote, INSTANT_SELL_BPS, BPS_DENOM
<1>5. QuoteError(floor) \in Nat /\ QuoteError(floor) <= Payout(floor)
  BY <1>1, <1>2, <1>3
<1>6. Payout(floor) \in Nat /\ 2 * Payout(floor) <= floor
  BY PayoutBound
<1> QED
  BY <1>4, <1>5, <1>6 DEF IsQuote

\* The number a transaction carries, read where the program reads it.
LEMMA ArgumentReads ==
    ASSUME NEW n
    PROVE  /\ Read(SdkListCard(n, 0, 1, 0).data, 2, "u64") = n
           /\ LET data == SdkUpdateFloor(n).data IN Read(data, 2, data[2].width) = n
           /\ LET data == SdkWithdrawTreasury(n).data IN Read(data, 2, data[2].width) = n
           /\ LET data == SdkSetPause(n).data IN Read(data, 2, data[2].width) = n % U8Size
  BY DEF SdkListCard, SdkUpdateFloor, SdkWithdrawTreasury, SdkSetPause, Call, Disc, Read,
         U64, U8, Cell

\* What is known of a transaction under way from the instruction it names.
LEMMA SentShape ==
    ASSUME ClientTypeOK, client.phase = "sent"
    PROVE  LET name     == client.tx.name
               argument == Read(client.tx.data, 2, client.tx.data[2].width)
           IN  /\ client # Idle
               /\ name = "buy_card" => /\ client.of = "listing" /\ client.card \in Cards
                                       /\ client.seller \in Users
               /\ name = "instant_sell" => /\ client.of = "pool" /\ client.card \in Cards
                                           /\ client.worth \in 0 .. MaxU64
               /\ name = "list_card" => /\ client.card \in Cards
                                        /\ client.worth \in 0 .. MaxU64
                                        /\ Read(client.tx.data, 2, "u64") = client.worth
               /\ name \in {"update_floor", "withdraw_treasury"} =>
                      client.worth \in 0 .. MaxU64 /\ argument = client.worth
               /\ name = "set_pause" =>
                      client.worth \in Nat /\ argument = client.worth % U8Size
<1> DEFINE name     == client.tx.name
           argument == Read(client.tx.data, 2, client.tx.data[2].width)
<1>1. client # Idle
  BY DEF Idle
<1>2. ASSUME NEW c \in Cards, NEW seller \in Users, NEW worth \in 0 .. MaxU64,
             client = Sent("listing", c, seller, worth, SdkBuyCard)
      PROVE  /\ name = "buy_card" /\ client.of = "listing"
             /\ client.card \in Cards /\ client.seller \in Users
  BY <1>2 DEF Sent, SdkBuyCard, Call
<1>3. ASSUME NEW c \in Cards, NEW worth \in 0 .. MaxU64,
             client = Sent("pool", c, Client, worth, SdkInstantSell)
      PROVE  /\ name = "instant_sell" /\ client.of = "pool" /\ client.card \in Cards
             /\ client.worth \in 0 .. MaxU64
  BY <1>3 DEF Sent, SdkInstantSell, Call
<1>4. ASSUME NEW c \in Cards, NEW worth \in 0 .. MaxU64,
             client = Sent("arguments", c, Client, worth, SdkListCard(worth, 0, 1, 0))
      PROVE  /\ name = "list_card" /\ client.card \in Cards /\ client.worth \in 0 .. MaxU64
             /\ Read(client.tx.data, 2, "u64") = client.worth
  <2>1. /\ client.card = c /\ client.worth = worth /\ client.tx = SdkListCard(worth, 0, 1, 0)
    BY <1>4 DEF Sent
  <2>2. name = "list_card"
    BY <2>1 DEF SdkListCard, Call
  <2> QED
    BY <2>1, <2>2, ArgumentReads
<1>5. ASSUME NEW call \in Calls,
             client = Sent("arguments", Nobody, Client, call.argument, call.tx)
      PROVE  \/ name = "update_floor" /\ client.worth \in 0 .. MaxU64 /\ argument = client.worth
             \/ name = "withdraw_treasury" /\ client.worth \in 0 .. MaxU64
                  /\ argument = client.worth
             \/ name = "set_pause" /\ client.worth \in Nat /\ argument = client.worth % U8Size
             \/ name \in {"set_instant_sell", "deploy_agent", "catch_attempt", "gym_challenge",
                          "force_evolve", "initialize"}
  <2>1. client.worth = call.argument /\ client.tx = call.tx
    BY <1>5 DEF Sent
  <2>2. \/ FitsU64(client.worth) /\ client.tx = SdkUpdateFloor(client.worth)
        \/ FitsU64(client.worth) /\ client.tx = SdkWithdrawTreasury(client.worth)
        \/ client.worth \in Nat /\ client.tx = SdkSetPause(client.worth)
        \/ client.tx = SdkSetInstantSell(client.worth = 1)
        \/ name \in {"deploy_agent", "catch_attempt", "gym_challenge", "force_evolve",
                     "initialize"}
    BY <2>1, ClientAssumption
  <2>3. CASE FitsU64(client.worth) /\ client.tx = SdkUpdateFloor(client.worth)
    <3>1. name = "update_floor"
      BY <2>3 DEF SdkUpdateFloor, Call
    <3> QED
      BY <2>3, <3>1, ArgumentReads DEF FitsU64
  <2>4. CASE FitsU64(client.worth) /\ client.tx = SdkWithdrawTreasury(client.worth)
    <3>1. name = "withdraw_treasury"
      BY <2>4 DEF SdkWithdrawTreasury, Call
    <3> QED
      BY <2>4, <3>1, ArgumentReads DEF FitsU64
  <2>5. CASE client.worth \in Nat /\ client.tx = SdkSetPause(client.worth)
    <3>1. name = "set_pause"
      BY <2>5 DEF SdkSetPause, Call
    <3> QED
      BY <2>5, <3>1, ArgumentReads
  <2>6. CASE client.tx = SdkSetInstantSell(client.worth = 1)
    BY <2>6 DEF SdkSetInstantSell, Call
  <2> QED
    BY <2>2, <2>3, <2>4, <2>5, <2>6
<1>6. \A c, seller, worth :
          /\ client # [phase |-> "read", of |-> "listing", card |-> c, seller |-> seller,
                       worth |-> worth]
          /\ client # [phase |-> "read", of |-> "pool", worth |-> worth]
  OBVIOUS
<1> HIDE DEF name, argument
<1>7. \/ /\ name = "buy_card" /\ client.of = "listing"
         /\ client.card \in Cards /\ client.seller \in Users
      \/ /\ name = "instant_sell" /\ client.of = "pool" /\ client.card \in Cards
         /\ client.worth \in 0 .. MaxU64
      \/ /\ name = "list_card" /\ client.card \in Cards /\ client.worth \in 0 .. MaxU64
         /\ Read(client.tx.data, 2, "u64") = client.worth
      \/ name = "update_floor" /\ client.worth \in 0 .. MaxU64 /\ argument = client.worth
      \/ name = "withdraw_treasury" /\ client.worth \in 0 .. MaxU64 /\ argument = client.worth
      \/ name = "set_pause" /\ client.worth \in Nat /\ argument = client.worth % U8Size
      \/ name \in {"set_instant_sell", "deploy_agent", "catch_attempt", "gym_challenge",
                   "force_evolve", "initialize"}
  BY <1>1, <1>2, <1>3, <1>4, <1>5, <1>6 DEF ClientTypeOK
<1>8. /\ name = "buy_card" => /\ client.of = "listing" /\ client.card \in Cards
                              /\ client.seller \in Users
      /\ name = "instant_sell" => /\ client.of = "pool" /\ client.card \in Cards
                                  /\ client.worth \in 0 .. MaxU64
      /\ name = "list_card" => /\ client.card \in Cards
                               /\ client.worth \in 0 .. MaxU64
                               /\ Read(client.tx.data, 2, "u64") = client.worth
      /\ name \in {"update_floor", "withdraw_treasury"} =>
             client.worth \in 0 .. MaxU64 /\ argument = client.worth
      /\ name = "set_pause" => client.worth \in Nat /\ argument = client.worth % U8Size
  BY <1>7
<1> QED
  BY <1>1, <1>8 DEF name, argument

\* Landing is a step of the market with some argument, and ends the
\* client's business.
LEMMA LandingIsAny ==
    ASSUME ClientTypeOK, LandBuy \/ LandSale \/ LandListing \/ LandCall
    PROVE  /\ AnyNext
           /\ client.phase = "sent" /\ client' = Idle /\ ~stale'
<1>1. client.phase = "sent" /\ client' = Idle /\ ~stale'
  BY DEF LandBuy, LandSale, LandListing, LandCall, Lands, Done
<1>2. Client \in Users
  BY ClientAssumption
<1>3. CASE LandBuy
  <2>1. client.card \in Cards /\ BuyCard(Client, client.card)
    BY <1>1, <1>3, SentShape DEF LandBuy, Lands
  <2> QED
    BY <1>1, <1>2, <2>1 DEF AnyNext, AnyTrade
<1>4. CASE LandSale
  <2>1. client.card \in Cards /\ InstantSell(Client, client.card)
    BY <1>1, <1>4, SentShape DEF LandSale, Lands
  <2> QED
    BY <1>1, <1>2, <2>1 DEF AnyNext, AnyTrade
<1>5. CASE LandListing
  <2>1. /\ client.card \in Cards /\ client.worth \in 0 .. MaxU64
        /\ ListCard(Client, client.card, client.worth)
    BY <1>1, <1>5, SentShape DEF LandListing, Lands
  <2> QED
    BY <1>1, <1>2, <2>1 DEF AnyNext, AnyTrade
<1>6. CASE LandCall
  <2> DEFINE argument == Read(client.tx.data, 2, client.tx.data[2].width)
  <2>1. CASE Lands("update_floor") /\ UpdateFloor(Client, argument)
    <3>1. argument \in 0 .. MaxU64
      BY <1>1, <2>1, SentShape DEF Lands
    <3>2. AnyAdmin
      BY <1>2, <2>1, <3>1 DEF AnyAdmin
    <3> QED
      BY <1>1, <3>2 DEF AnyNext
  <2>2. CASE Lands("set_instant_sell") /\ SetInstantSell(Client, argument = 1)
    <3>1. AnyAdmin
      BY <1>2, <2>2 DEF AnyAdmin
    <3> QED
      BY <1>1, <3>1 DEF AnyNext
  <2>3. CASE Lands("set_pause") /\ MarketSetPause(Client, FlagsOf(argument))
    <3>1. FlagsOf(argument) \in SUBSET PauseFlags
      BY DEF FlagsOf
    <3>2. AnyAdmin
      BY <1>2, <2>3, <3>1 DEF AnyAdmin
    <3> QED
      BY <1>1, <3>2 DEF AnyNext
  <2>4. CASE Lands("withdraw_treasury") /\ WithdrawTreasury(Client, argument)
    <3>1. argument \in Nat
      BY <1>1, <2>4, SentShape, UnitsAssumption DEF Lands
    <3>2. AnyAdmin
      BY <1>2, <2>4, <3>1 DEF AnyAdmin
    <3> QED
      BY <1>1, <3>2 DEF AnyNext
  <2> QED
    BY <1>6, <2>1, <2>2, <2>3, <2>4 DEF LandCall
<1> QED
  BY <1>3, <1>4, <1>5, <1>6

\* Every step with the client in it is a step of the market, with some
\* argument, or leaves the market alone.
LEMMA ClientStepIsAny ==
    ASSUME ClientTypeOK, [ClientNext]_clientVars
    PROVE  [AnyNext]_marketVars
<1>1. CASE Others
  <2>1. [MarketNext]_marketVars
    BY <1>1 DEF Others
  <2> QED
    BY <2>1, NextIsAny
<1>2. CASE LandBuy \/ LandSale \/ LandListing \/ LandCall
  BY <1>2, LandingIsAny
<1>3. CASE UNCHANGED marketVars
  BY <1>3
<1>4. CASE UNCHANGED clientVars
  BY <1>4 DEF clientVars
<1> QED
  BY <1>1, <1>2, <1>3, <1>4
     DEF ClientNext, FetchQuote, SendBuy, Lose, FetchListing, SendSale, SendListing, SendCall

-----------------------------------------------------------------------------
\* The client reads a listing as it is, and a quote that is the payout at
\* the floor; before initialize both are zero.
LEMMA ReadsAreUpToDate ==
    ASSUME MarketInv
    PROVE  /\ \A c \in Cards : FetchListing(c) => ClientTypeOK' /\ UpToDate'
           /\ FetchQuote => ClientTypeOK' /\ UpToDate'
<1>0. /\ listing \in [Cards -> ListingType \cup {NoListing}]
      /\ pool \in PoolType /\ pool.floor_price \in Nat /\ Unopened
  BY UnitsAssumption DEF MarketInv, MarketTypeOK, PoolType
<1>1. ASSUME NEW c \in Cards, FetchListing(c)
      PROVE  ClientTypeOK' /\ UpToDate'
  <2>1. /\ listing[c] # NoListing /\ listing' = listing
        /\ client' = [phase |-> "read", of |-> "listing", card |-> c,
                      seller |-> listing[c].seller, worth |-> listing[c].price]
    BY <1>1, ListingReads DEF FetchListing, marketVars
  <2>2. listing[c].seller \in Users /\ listing[c].price \in 0 .. MaxU64
    BY <1>0, <2>1, UnitsAssumption DEF ListingType
  <2>3. ClientTypeOK'
    BY <2>1, <2>2 DEF ClientTypeOK
  <2>4. UpToDate'
    BY <2>1 DEF UpToDate
  <2> QED
    BY <2>3, <2>4
<1>2. ASSUME FetchQuote
      PROVE  ClientTypeOK' /\ UpToDate'
  <2> DEFINE floor == pool.floor_price
  <2>1. /\ DecodePool(StoredPool).floorPrice = floor
        /\ floor \in Nat /\ floor <= MaxU64 /\ MaxU64 \in Nat
    BY <1>0, PoolReads, UnitsAssumption DEF PoolType
  <2>2. PICK quote \in IF config.initialized THEN InstantSellQuote(floor) ELSE {0} :
            client' = [phase |-> "read", of |-> "pool", worth |-> quote]
    BY <1>2, <2>1 DEF FetchQuote
  <2>3. ~config.initialized => 0 \in InstantSellQuote(floor)
    <3>1. ~config.initialized => floor = 0
      BY <1>0 DEF Unopened, NewPool
    <3> HIDE DEF floor
    <3> QED
      BY <3>1, ClientAssumption DEF InstantSellQuote, QuoteError, INSTANT_SELL_BPS, BPS_DENOM
  <2>4. quote \in InstantSellQuote(floor)
    BY <2>2, <2>3
  <2>5. IsQuote(quote, floor) /\ quote \in 0 .. floor
    BY <2>1, <2>4, QuoteBound
  <2>6. quote \in 0 .. MaxU64
    <3> HIDE DEF floor
    <3> QED
      BY <2>1, <2>5
  <2>7. pool' = pool
    BY <1>2 DEF FetchQuote, marketVars
  <2>8. ClientTypeOK'
    BY <2>2, <2>6 DEF ClientTypeOK
  <2>9. UpToDate'
    BY <2>2, <2>5, <2>7 DEF UpToDate, IsQuote
  <2> QED
    BY <2>8, <2>9
<1> QED
  BY <1>1, <1>2

\* A transaction is made of what was read or given, and says no more than
\* that.
LEMMA SendsAreUpToDate ==
    ASSUME ClientTypeOK, UpToDate
    PROVE  /\ SendBuy => ClientTypeOK' /\ UpToDate'
           /\ \A c \in Cards : SendSale(c) => ClientTypeOK' /\ UpToDate'
           /\ \A c \in Cards, price \in Prices : SendListing(c, price) => ClientTypeOK' /\ UpToDate'
           /\ \A call \in Calls : SendCall(call) => ClientTypeOK' /\ UpToDate'
<1>1. ASSUME SendBuy
      PROVE  ClientTypeOK' /\ UpToDate'
  <2>1. /\ client # Idle /\ client.phase = "read" /\ client.of = "listing"
        /\ client' = Sent("listing", client.card, client.seller, client.worth, SdkBuyCard)
        /\ listing' = listing /\ stale' = stale
    BY <1>1 DEF SendBuy, Idle, marketVars
  <2>2. /\ client.card \in Cards /\ client.seller \in Users
        /\ client.worth \in 0 .. MaxU64
    BY <2>1 DEF ClientTypeOK, Sent
  <2>3. ClientTypeOK'
    BY <2>1, <2>2 DEF ClientTypeOK
  <2>4. UpToDate'
    BY <2>1 DEF UpToDate, Sent
  <2> QED
    BY <2>3, <2>4
<1>2. ASSUME NEW c \in Cards, SendSale(c)
      PROVE  ClientTypeOK' /\ UpToDate'
  <2>1. /\ client # Idle /\ client.phase = "read" /\ client.of = "pool"
        /\ client' = Sent("pool", c, Client, client.worth, SdkInstantSell)
        /\ pool' = pool /\ stale' = stale
    BY <1>2 DEF SendSale, Idle, marketVars
  <2>2. client.worth \in 0 .. MaxU64
    BY <2>1 DEF ClientTypeOK, Sent
  <2>3. ClientTypeOK'
    BY <2>1, <2>2 DEF ClientTypeOK
  <2>4. UpToDate'
    BY <2>1 DEF UpToDate, Sent
  <2> QED
    BY <2>3, <2>4
<1>3. ASSUME NEW c \in Cards, NEW price \in Prices, SendListing(c, price)
      PROVE  ClientTypeOK' /\ UpToDate'
  <2>1. /\ client' = Sent("arguments", c, Client, price, SdkListCard(price, 0, 1, 0))
        /\ price \in 0 .. MaxU64
    BY <1>3 DEF SendListing, FitsU64
  <2>2. ClientTypeOK'
    BY <2>1 DEF ClientTypeOK
  <2>3. UpToDate'
    BY <2>1 DEF UpToDate, Sent
  <2> QED
    BY <2>2, <2>3
<1>4. ASSUME NEW call \in Calls, SendCall(call)
      PROVE  ClientTypeOK' /\ UpToDate'
  <2>1. client' = Sent("arguments", Nobody, Client, call.argument, call.tx)
    BY <1>4 DEF SendCall
  <2>2. ClientTypeOK'
    BY <2>1 DEF ClientTypeOK
  <2>3. UpToDate'
    BY <2>1 DEF UpToDate, Sent
  <2> QED
    BY <2>2, <2>3
<1> QED
  BY <1>1, <1>2, <1>3, <1>4

\* Whoever else moves, the client notices when it is its listing or the floor
\* that changed.
LEMMA OthersAreNoticed ==
    ASSUME ClientTypeOK, UpToDate, Others
    PROVE  ClientTypeOK' /\ UpToDate'
<1>1. client' = client /\ stale' = (client # Idle /\ Outdated)
  BY DEF Others
<1>2. ClientTypeOK'
  BY <1>1 DEF ClientTypeOK
<1>3. ASSUME client # Idle, ~stale'
      PROVE  /\ ~stale
             /\ client.of = "listing" => listing'[client.card] = listing[client.card]
             /\ client.of = "pool" => pool'.floor_price = pool.floor_price
  BY <1>1, <1>3 DEF Outdated
<1>4. UpToDate'
  BY <1>1, <1>3 DEF UpToDate
<1> QED
  BY <1>2, <1>4

\* The invariant of the client, one step per action.
LEMMA StepClientInv == ClientInv /\ [ClientNext]_clientVars => ClientInv'
<1> SUFFICES ASSUME ClientInv, [ClientNext]_clientVars PROVE ClientInv'
  OBVIOUS
<1>0. MarketInv /\ ClientTypeOK /\ UpToDate
  BY DEF ClientInv
<1>1. MarketInv'
  BY <1>0, ClientStepIsAny, StepMarketInv
<1>2. ASSUME client' = Idle
      PROVE  ClientTypeOK' /\ UpToDate'
  BY <1>2 DEF ClientTypeOK, UpToDate, Idle
<1>3. ASSUME Others
      PROVE  ClientTypeOK' /\ UpToDate'
  BY <1>0, <1>3, OthersAreNoticed
<1>4. ASSUME LandBuy \/ LandSale \/ LandListing \/ LandCall
      PROVE  ClientTypeOK' /\ UpToDate'
  BY <1>0, <1>2, <1>4, LandingIsAny
<1>5. ASSUME Lose
      PROVE  ClientTypeOK' /\ UpToDate'
  BY <1>2, <1>5 DEF Lose, Done
<1>6. ASSUME UNCHANGED clientVars
      PROVE  ClientTypeOK' /\ UpToDate'
  <2>1. /\ client' = client /\ stale' = stale /\ listing' = listing /\ pool' = pool
    BY <1>6 DEF clientVars, marketVars
  <2> QED
    BY <1>0, <2>1 DEF ClientTypeOK, UpToDate
<1>7. ClientTypeOK' /\ UpToDate'
  BY <1>0, <1>3, <1>4, <1>5, <1>6, ReadsAreUpToDate, SendsAreUpToDate DEF ClientNext
<1> QED
  BY <1>1, <1>7 DEF ClientInv

\* The client's invariant holds in every reachable state.
LEMMA ClientInvariant == ClientSpec => []ClientInv
<1>1. ClientInit => ClientInv
  <2> SUFFICES ASSUME ClientInit PROVE ClientInv
    OBVIOUS
  <2>1. MarketInv /\ client = Idle
    BY InitMarketInv DEF ClientInit
  <2> QED
    BY <2>1 DEF ClientInv, ClientTypeOK, UpToDate
<1> QED
  BY <1>1, StepClientInv, PTL DEF ClientSpec

-----------------------------------------------------------------------------
\* Behind the client the market is still the market, of which everything in
\* MarketProofs is true whatever the inputs.
THEOREM ClientIsAny == ClientSpec => AnySpec
<1>1. ClientInit => MarketInit
  BY DEF ClientInit
<1>2. ClientInv /\ [ClientNext]_clientVars => [AnyNext]_marketVars
  BY ClientStepIsAny DEF ClientInv
<1> QED
  BY <1>1, <1>2, ClientInvariant, PTL DEF ClientSpec, AnySpec

\* The card of an open listing is in escrow, with the SDK's transactions in between.
THEOREM ClientListingsAreBacked == ClientSpec => []ListedIsEscrowed
<1>1. MarketInv => ListedIsEscrowed
  BY DEF MarketInv
<1> QED
  BY <1>1, ClientIsAny, AnyMarketInvariant, PTL

\* The market behind the client keeps custody of the cards.
THEOREM ClientKeepsCustody == ClientSpec => CustodySpec
<1> QED
  BY ClientIsAny, AnyMarketKeepsCustody, PTL

\* A listing closes with every lamport in its place, the client's purchases
\* included.
THEOREM ClientListingsCloseExactly == ClientSpec => ListingClosesExactly
<1> QED
  BY ClientIsAny, AnyListingClosesExactly, PTL

\* The count of minted cards is exact behind the client too.
THEOREM ClientMintCountIsExact == ClientSpec => []MintedMatchesRecords
<1>1. MarketInv => MintedMatchesRecords
  BY DEF MarketInv
<1> QED
  BY <1>1, ClientIsAny, AnyMarketInvariant, PTL

\* What the SDK decodes is what the program stored, in every reachable state.
THEOREM ClientReadsFaithfully == ClientSpec => []ReadsAreFaithful
<1>1. ClientInv => ReadsAreFaithful
  BY TypedReadsAreFaithful DEF ClientInv, MarketInv
<1> QED
  BY <1>1, ClientInvariant, PTL

-----------------------------------------------------------------------------
\* A transaction that is not lost lands: nothing else ends the client's
\* business and changes the market.
LEMMA EndIsLanding ==
    ASSUME [ClientNext]_clientVars, client.phase = "sent", client' = Idle,
           marketVars' # marketVars
    PROVE  LandBuy \/ LandSale \/ LandListing \/ LandCall
<1>1. client # Idle /\ client' # client
  BY DEF Idle
<1>2. ~ Others /\ clientVars' # clientVars
  BY <1>1 DEF Others, clientVars
<1>3. ~ Lose /\ ~ FetchQuote /\ ~ SendBuy
  BY DEF Lose, FetchQuote, SendBuy
<1>4. \A c \in Cards : ~ FetchListing(c) /\ ~ SendSale(c)
  BY DEF FetchListing, SendSale
<1>5. /\ \A c \in Cards, price \in Prices : ~ SendListing(c, price)
      /\ \A call \in Calls : ~ SendCall(call)
  BY DEF SendListing, SendCall
<1> QED
  BY <1>2, <1>3, <1>4, <1>5 DEF ClientNext

\* A purchase pays the seller whom the client read the net of the price, and
\* the price is the one it read unless the listing has changed since.
THEOREM PurchasesAreAsRead == ClientSpec => PurchaseAsRead
<1> DEFINE price == listing[client.card].price
           AsRead ==
             Executes("buy_card") =>
               /\ Paid(client.seller) =
                    SellerNet(price, config.market_fee_bps) - If(client.seller = Client, price)
                      + If(client.seller = Treasury, BurnCut(price, config.market_fee_bps))
               /\ ~stale => price = client.worth
<1>1. ASSUME ClientInv, [ClientNext]_clientVars, Executes("buy_card")
      PROVE  AsRead
  <2>1. /\ MarketTypeOK /\ ClientTypeOK /\ UpToDate
        /\ client.phase = "sent" /\ client.tx.name = "buy_card" /\ client' = Idle
        /\ marketVars' # marketVars
    BY <1>1 DEF ClientInv, MarketInv, Executes, marketVars
  <2>2. LandBuy \/ LandSale \/ LandListing \/ LandCall
    BY <1>1, <2>1, EndIsLanding
  <2>3. /\ BuyCard(Client, client.card)
        /\ client.seller = listing[client.card].seller /\ listing[client.card] # NoListing
    BY <2>1, <2>2 DEF LandBuy, LandSale, LandListing, LandCall, Lands
  <2>4. client # Idle /\ client.of = "listing" /\ client.card \in Cards /\ Client \in Users
    BY <2>1, SentShape, ClientAssumption
  <2>5. ~stale => price = client.worth
    BY <2>1, <2>4 DEF UpToDate
  <2>6. client.seller \in Accounts /\ client.seller # Vault
    BY <2>1, <2>3, <2>4, ListedPrice, AccountsAssumption DEF Accounts
  <2>7. /\ SellerNet(price, config.market_fee_bps) \in Nat
        /\ BurnCut(price, config.market_fee_bps) \in Nat /\ price \in Nat
    BY <2>1, <2>3, <2>4, ListedPrice
  <2>8. lamports'[client.seller] - lamports[client.seller] =
            If(client.seller = listing[client.card].seller, SellerNet(price, config.market_fee_bps))
              + If(client.seller = Vault, PoolCut(price, config.market_fee_bps))
              + If(client.seller = Treasury, BurnCut(price, config.market_fee_bps))
              - If(client.seller = Client, price)
    BY <2>1, <2>3, <2>4, <2>6, BuyEffect
  <2>9. Paid(client.seller) =
            SellerNet(price, config.market_fee_bps) - If(client.seller = Client, price)
              + If(client.seller = Treasury, BurnCut(price, config.market_fee_bps))
    BY <2>3, <2>6, <2>7, <2>8 DEF Paid, If
  <2> QED
    BY <2>5, <2>9
<1>2. ClientInv /\ [ClientNext]_clientVars => [AsRead]_clientVars
  BY <1>1
<1> QED
  BY <1>2, ClientInvariant, PTL DEF ClientSpec, PurchaseAsRead

\* A sale to the pool pays the quote the client was given, unless the floor
\* has changed since.
THEOREM SalesAreAsQuoted == ClientSpec => SaleAsQuoted
<1> DEFINE error    == QuoteError(pool.floor_price)
           AsQuoted == Executes("instant_sell") /\ ~stale =>
                         Paid(Client) \in client.worth - error .. client.worth + error
<1>1. ASSUME ClientInv, [ClientNext]_clientVars, Executes("instant_sell"), ~stale
      PROVE  Paid(Client) \in client.worth - error .. client.worth + error
  <2>1. /\ MarketTypeOK /\ ClientTypeOK /\ UpToDate
        /\ client.phase = "sent" /\ client.tx.name = "instant_sell" /\ client' = Idle
        /\ marketVars' # marketVars
    BY <1>1 DEF ClientInv, MarketInv, Executes, marketVars
  <2>2. LandBuy \/ LandSale \/ LandListing \/ LandCall
    BY <1>1, <2>1, EndIsLanding
  <2>3. InstantSell(Client, client.card)
    BY <2>1, <2>2 DEF LandBuy, LandSale, LandListing, LandCall, Lands
  <2>4. /\ client # Idle /\ client.of = "pool" /\ client.card \in Cards
        /\ client.worth \in 0 .. MaxU64 /\ Client \in Users
    BY <2>1, SentShape, ClientAssumption
  <2>5. IsQuote(client.worth, pool.floor_price)
    BY <1>1, <2>1, <2>4 DEF UpToDate
  <2>6. /\ Payout(pool.floor_price) \in Nat
        /\ lamports'[Client] = lamports[Client] + Payout(pool.floor_price)
    BY <2>1, <2>3, <2>4, SellEffect
  <2>7. lamports[Client] \in Nat
    BY <2>1, <2>4 DEF MarketTypeOK, Accounts
  <2>8. Paid(Client) = Payout(pool.floor_price)
    BY <2>6, <2>7 DEF Paid
  <2>9. error \in Nat
    BY ClientAssumption DEF QuoteError
  <2>10. /\ Payout(pool.floor_price) - error <= client.worth
         /\ client.worth <= Payout(pool.floor_price) + error
    BY <2>5 DEF IsQuote
  <2> HIDE DEF error
  <2> QED
    BY <2>4, <2>6, <2>8, <2>9, <2>10
<1>2. ClientInv /\ [ClientNext]_clientVars => [AsQuoted]_clientVars
  BY <1>1
<1> QED
  BY <1>2, ClientInvariant, PTL DEF ClientSpec, SaleAsQuoted

\* What a landed call writes is what the caller gave, whatever the byte
\* writer masks away.
THEOREM CallsLandAsGiven == ClientSpec => LandsAsCalled
<1> DEFINE Written ==
             CASE client.tx.name = "list_card" -> listing'[client.card].price = client.worth
               [] client.tx.name = "update_floor" -> pool'.floor_price = client.worth
               [] client.tx.name = "set_pause" -> config'.paused = FlagsOf(client.worth)
               [] OTHER -> TRUE
           AsCalled ==
             client.phase = "sent" /\ client' = Idle /\ marketVars' # marketVars => Written
           argument == Read(client.tx.data, 2, client.tx.data[2].width)
<1>1. ASSUME ClientInv, [ClientNext]_clientVars, client.phase = "sent", client' = Idle,
             marketVars' # marketVars
      PROVE  Written
  <2>1. MarketTypeOK /\ ClientTypeOK
    BY <1>1 DEF ClientInv, MarketInv
  <2>2. LandBuy \/ LandSale \/ LandListing \/ LandCall
    BY <1>1, EndIsLanding
  <2>3. ASSUME client.tx.name = "list_card"
        PROVE  listing'[client.card].price = client.worth
    <3>1. ListCard(Client, client.card, client.worth) /\ client.card \in Cards
      BY <1>1, <2>1, <2>2, <2>3, SentShape
         DEF LandBuy, LandSale, LandListing, LandCall, Lands
    <3> QED
      BY <2>1, <3>1 DEF ListCard, MarketTypeOK
  <2>4. ASSUME client.tx.name = "update_floor"
        PROVE  pool'.floor_price = client.worth
    <3>1. UpdateFloor(Client, client.worth) /\ client.worth \in 0 .. MaxU64
      BY <1>1, <2>1, <2>2, <2>4, SentShape
         DEF LandBuy, LandSale, LandListing, LandCall, Lands
    <3> QED
      BY <2>1, <3>1, UpdateFloorPool, ClientAssumption
  <2>5. ASSUME client.tx.name = "set_pause"
        PROVE  config'.paused = FlagsOf(client.worth)
    <3>1. MarketSetPause(Client, FlagsOf(argument))
      BY <2>2, <2>5 DEF LandBuy, LandSale, LandListing, LandCall, Lands
    <3>2. client.worth \in Nat /\ argument = client.worth % U8Size
      BY <1>1, <2>1, <2>5, SentShape
    <3>3. FlagsOf(argument) = FlagsOf(client.worth)
      BY <3>2, MaskKeepsFlags
    <3> QED
      BY <2>1, <3>1, <3>3 DEF MarketSetPause, SetPause, MarketTypeOK, ConfigType
  <2> QED
    BY <2>3, <2>4, <2>5
<1>2. ClientInv /\ [ClientNext]_clientVars => [AsCalled]_clientVars
  BY <1>1
<1> QED
  BY <1>2, ClientInvariant, PTL DEF ClientSpec, LandsAsCalled

-----------------------------------------------------------------------------
Instructions ==
    {"deploy_agent", "catch_attempt", "gym_challenge", "force_evolve", "initialize",
     "update_floor", "set_instant_sell", "set_pause", "withdraw_treasury", "list_card",
     "buy_card", "instant_sell"}

\* The finding of BuildersMirrorContexts, for every builder: the program takes the
\* accounts of none, as the first it asks for is the signer and the first
\* they send is a PDA.
THEOREM NoBuilderIsAccepted ==
    \A name \in Instructions : ~ Accepted(name, BuilderKeys(name))
<1> SUFFICES ASSUME NEW name \in Instructions
             PROVE  ~ Accepted(name, BuilderKeys(name))
  OBVIOUS
<1>1. /\ 1 \in DOMAIN Context(name)
      /\ Context(name)[1].role \in {"player", "authority", "seller", "buyer"}
  <2> DEFINE Opens(context) ==
               /\ 1 \in DOMAIN context
               /\ context[1].role \in {"player", "authority", "seller", "buyer"}
  <2> USE DEF Meta, R, W, WS, RS
  <2>1. Opens(SinkContext)
    BY DEF SinkContext
  <2>2. Opens(DeployAgentContext)
    BY DEF SinkContext, DeployAgentContext
  <2>3. Opens(InitializeContext)
    BY DEF InitializeContext, TokenAndSystem
  <2>4. Opens(PoolAdminContext)
    BY DEF PoolAdminContext
  <2>5. Opens(SetPauseContext)
    BY DEF SetPauseContext
  <2>6. Opens(WithdrawContext)
    BY DEF WithdrawContext
  <2>7. Opens(ListCardContext)
    BY DEF ListCardContext, Programs
  <2>8. Opens(BuyCardContext)
    BY DEF BuyCardContext, Programs
  <2>9. Opens(InstantSellContext)
    BY DEF InstantSellContext, Programs
  <2> HIDE DEF Opens
  <2>10. Opens(Context(name))
    BY <2>1, <2>2, <2>3, <2>4, <2>5, <2>6, <2>7, <2>8, <2>9 DEF Context, Instructions
  <2> QED
    BY <2>10 DEF Opens
<1>2. BuilderKeys(name)[1].role = "config"
  <2> USE DEF Meta, R, W, WS, RS, TokenAndSystem
  <2>1. CASE name \in {"deploy_agent", "catch_attempt", "gym_challenge", "force_evolve"}
    BY <2>1 DEF BuilderKeys, SinkKeys
  <2>2. CASE name \in {"initialize", "update_floor", "set_instant_sell", "set_pause",
                       "withdraw_treasury"}
    BY <2>2 DEF BuilderKeys, InitializeKeys, PoolAdminKeys, SetPauseKeys, WithdrawKeys
  <2>3. CASE name \in {"list_card", "buy_card", "instant_sell"}
    BY <2>3 DEF BuilderKeys, ListCardKeys, BuyCardKeys, InstantSellKeys
  <2> QED
    BY <2>1, <2>2, <2>3 DEF Instructions
<1> QED
  BY <1>1, <1>2 DEF Accepted

\* So a wallet that sends the SDK's accounts changes nothing on the chain:
\* whenever its business ends, the transaction was refused or lost.
THEOREM SdkAccountsNeverLand ==
    ASSUME ~ViaIdl
    PROVE  ClientSpec => [][client # Idle /\ client' = Idle => UNCHANGED marketVars]_clientVars
<1>1. ASSUME NEW name \in Instructions
      PROVE  ~ Lands(name)
  BY NoBuilderIsAccepted DEF Lands, Keys
<1>2. ~ (LandBuy \/ LandSale \/ LandListing \/ LandCall)
  BY <1>1 DEF LandBuy, LandSale, LandListing, LandCall, Instructions
<1>3. ASSUME [ClientNext]_clientVars, client # Idle, client' = Idle
      PROVE  UNCHANGED marketVars
  BY <1>2, <1>3 DEF ClientNext, Others, FetchQuote, SendBuy, Lose, FetchListing, SendSale,
                    SendListing, SendCall, clientVars
<1>4. [ClientNext]_clientVars =>
          [client # Idle /\ client' = Idle => UNCHANGED marketVars]_clientVars
  BY <1>3
<1> QED
  BY <1>4, PTL DEF ClientSpec
=============================================================================
