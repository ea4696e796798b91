---------------------------- MODULE MarketProofs ----------------------------
(***************************************************************************)
(* Proofs about MarketProgram for every set of wallets and cards, every    *)
(* choice of inputs and every width of the counters: the invariant, then   *)
(* that the program implements BuybackFund and CardCustody, and its action *)
(* properties.                                                             *)
(***************************************************************************)
EXTENDS MarketProgram, FiniteSetTheorems, TLAPS

-----------------------------------------------------------------------------
\* The fee math of Economy, for every amount and every unit.

\* A share of at most 10000 basis points is a natural number no larger than
\* the amount: bps_of never fails for the shares the program uses.
LEMMA BpsOfBound ==
    ASSUME NEW amount \in Nat, NEW bps \in 0 .. BPS_DENOM
    PROVE  BpsOf(amount, bps) \in 0 .. amount
<1>1. amount * (BPS_DENOM - bps) \in Nat
  BY DEF BPS_DENOM
<1>2. amount * bps \in Nat /\ amount * bps <= amount * BPS_DENOM
  BY <1>1 DEF BPS_DENOM
<1> DEFINE x == amount * bps
<1>3. x \in Nat /\ x <= amount * 10000
  BY <1>2 DEF BPS_DENOM
<1> HIDE DEF x
<1>4. x \div 10000 \in 0 .. amount
  BY <1>3
<1> QED
  BY <1>4 DEF BpsOf, x, BPS_DENOM

\* A sale at any price and any fee initialize accepts divides the price into
\* three natural numbers (buy_card).
THEOREM SaleIsLossless ==
    ASSUME NEW price \in Nat, NEW feeBps \in 0 .. MAX_MARKET_FEE_BPS
    PROVE  /\ SellerNet(price, feeBps) \in Nat
           /\ PoolCut(price, feeBps) \in Nat
           /\ BurnCut(price, feeBps) \in Nat
           /\ SellerNet(price, feeBps) + PoolCut(price, feeBps) + BurnCut(price, feeBps) = price
<1>1. feeBps \in 0 .. BPS_DENOM /\ POOL_SHARE_BPS \in 0 .. BPS_DENOM
  BY DEF MAX_MARKET_FEE_BPS, BPS_DENOM, POOL_SHARE_BPS
<1>2. MarketFee(price, feeBps) \in 0 .. price
  BY <1>1, BpsOfBound DEF MarketFee
<1>3. PoolCut(price, feeBps) \in 0 .. MarketFee(price, feeBps)
  <2>1. MarketFee(price, feeBps) \in Nat
    BY <1>2
  <2> QED
    BY <2>1, <1>1, BpsOfBound DEF PoolCut
<1> QED
  BY <1>2, <1>3 DEF SellerNet, BurnCut

\* A fee of at most 20 percent leaves the seller something of every price.
LEMMA SellerIsPaid ==
    ASSUME NEW price \in Nat \ {0}, NEW feeBps \in 0 .. MAX_MARKET_FEE_BPS
    PROVE  SellerNet(price, feeBps) > 0
<1>1. price * (2000 - feeBps) \in Nat
  BY DEF MAX_MARKET_FEE_BPS
<1> DEFINE x == price * feeBps
<1>2. x \in Nat /\ x <= price * 2000
  BY <1>1 DEF MAX_MARKET_FEE_BPS
<1> HIDE DEF x
<1>3. x \div 10000 < price
  BY <1>2
<1> QED
  BY <1>3 DEF SellerNet, MarketFee, BpsOf, BPS_DENOM, x

\* The mint fee of every tier is divided between pool and treasury
\* (mint_card).
THEOREM MintIsLossless ==
    ASSUME NEW tier \in Tiers
    PROVE  /\ MintPoolCut(tier) \in Nat
           /\ MintTreasuryCut(tier) \in Nat
           /\ MintPoolCut(tier) + MintTreasuryCut(tier) = MintFeeForTier(tier)
<1>1. MintFeeForTier(tier) \in Nat
  BY UnitsAssumption DEF MintFeeForTier, Tiers, MAX_TIER
<1>2. MINT_POOL_BPS \in 0 .. BPS_DENOM
  BY DEF MINT_POOL_BPS, BPS_DENOM
<1>3. MintPoolCut(tier) \in 0 .. MintFeeForTier(tier)
  BY <1>1, <1>2, BpsOfBound DEF MintPoolCut
<1> QED
  BY <1>1, <1>3 DEF MintTreasuryCut

\* An instant sell pays at most half the floor (instant_sell).
LEMMA PayoutBound ==
    ASSUME NEW floor \in Nat
    PROVE  /\ Payout(floor) \in 0 .. floor
           /\ 2 * Payout(floor) <= floor
<1>1. INSTANT_SELL_BPS \in 0 .. BPS_DENOM
  BY DEF INSTANT_SELL_BPS, BPS_DENOM
<1>2. Payout(floor) \in 0 .. floor
  BY <1>1, BpsOfBound DEF Payout
<1>3. 2 * ((floor * 5000) \div 10000) <= floor
  OBVIOUS
<1> QED
  BY <1>2, <1>3 DEF Payout, BpsOf, INSTANT_SELL_BPS, BPS_DENOM

-----------------------------------------------------------------------------
\* A move between two accounts that the source can pay gives a ledger, and
\* says of every account what it lost and what it got.
LEMMA MoveLemma ==
    ASSUME NEW ledger \in [Accounts -> Nat], NEW from \in Accounts, NEW to \in Accounts,
           NEW amount \in Nat, ledger[from] >= amount
    PROVE  /\ Move(ledger, from, to, amount) \in [Accounts -> Nat]
           /\ \A a \in Accounts :
                 Move(ledger, from, to, amount)[a] =
                     ledger[a] - If(a = from, amount) + If(a = to, amount)
<1> DEFINE taken == [ledger EXCEPT ![from] = @ - amount]
<1>1. taken \in [Accounts -> Nat]
  OBVIOUS
<1>2. \A a \in Accounts : taken[a] = ledger[a] - If(a = from, amount)
  BY DEF If
<1>3. Move(ledger, from, to, amount) = [taken EXCEPT ![to] = taken[to] + amount]
  BY DEF Move
<1> HIDE DEF taken
<1>4. Move(ledger, from, to, amount) \in [Accounts -> Nat]
  BY <1>1, <1>3
<1>5. \A a \in Accounts :
         Move(ledger, from, to, amount)[a] = taken[a] + If(a = to, amount)
  BY <1>1, <1>3 DEF If
<1> QED
  BY <1>2, <1>4, <1>5

\* The cuts of a listed price under the configured fee.
LEMMA ListedPrice ==
    ASSUME MarketTypeOK, NEW c \in Cards, listing[c] # NoListing
    PROVE  /\ listing[c].seller \in Users
           /\ listing[c].price \in Nat
           /\ config.market_fee_bps \in 0 .. MAX_MARKET_FEE_BPS
           /\ SellerNet(listing[c].price, config.market_fee_bps) \in Nat
           /\ PoolCut(listing[c].price, config.market_fee_bps) \in Nat
           /\ BurnCut(listing[c].price, config.market_fee_bps) \in Nat
           /\ SellerNet(listing[c].price, config.market_fee_bps)
                + PoolCut(listing[c].price, config.market_fee_bps)
                + BurnCut(listing[c].price, config.market_fee_bps) = listing[c].price
<1>1. listing[c] \in ListingType
  BY DEF MarketTypeOK
<1>2. listing[c].seller \in Users /\ listing[c].price \in Nat
  BY <1>1, UnitsAssumption DEF ListingType
<1>3. config.market_fee_bps \in 0 .. MAX_MARKET_FEE_BPS
  BY DEF MarketTypeOK, ConfigType
<1> QED
  BY <1>2, <1>3, SaleIsLossless

-----------------------------------------------------------------------------
\* What each instruction does to the ledger, the pool and the vault.

\* A credited pool has the same floor and switch, and stays in its type.
LEMMA CreditLemma ==
    ASSUME pool \in PoolType, NEW n \in Nat, CanCredit(n)
    PROVE  /\ Credited(n) \in PoolType
           /\ Credited(n).total_lamports = pool.total_lamports + n
           /\ Credited(n).lifetime_in = pool.lifetime_in + n
           /\ Credited(n).lifetime_out = pool.lifetime_out
           /\ Credited(n).floor_price = pool.floor_price
           /\ Credited(n).instant_sell_enabled = pool.instant_sell_enabled
<1> DEFINE counted == [pool EXCEPT !.total_lamports = pool.total_lamports + n]
<1>1. /\ pool.total_lamports + n \in 0 .. MaxU64
      /\ pool.lifetime_in + n \in 0 .. MaxU64
  BY UnitsAssumption DEF PoolType, CanCredit
<1>2. /\ counted \in PoolType
      /\ counted.total_lamports = pool.total_lamports + n
      /\ counted.lifetime_in = pool.lifetime_in
      /\ counted.lifetime_out = pool.lifetime_out
      /\ counted.floor_price = pool.floor_price
      /\ counted.instant_sell_enabled = pool.instant_sell_enabled
  BY <1>1 DEF PoolType
<1>3. Credited(n) = [counted EXCEPT !.lifetime_in = pool.lifetime_in + n]
  BY DEF Credited
<1> HIDE DEF counted
<1> QED
  BY <1>1, <1>2, <1>3 DEF PoolType

\* Effect of mint_card on ledger and pool.
LEMMA MintEffect ==
    ASSUME MarketTypeOK, NEW u \in Users, NEW c \in Cards, NEW tier \in Nat, MintCard(u, c, tier)
    PROVE  /\ lamports' \in [Accounts -> Nat]
           /\ MintPoolCut(tier) \in Nat
           /\ lamports'[Vault] = lamports[Vault] + MintPoolCut(tier)
           /\ pool' \in PoolType
           /\ pool' = Credited(MintPoolCut(tier))
<1>1. tier \in Tiers
  BY DEF MintCard, Tiers, MAX_TIER
<1>2. MintPoolCut(tier) \in Nat /\ MintTreasuryCut(tier) \in Nat
  BY <1>1, MintIsLossless
<1> DEFINE toVault == Move(lamports, u, Vault, MintPoolCut(tier))
<1>3. u \in Accounts /\ Vault \in Accounts /\ Treasury \in Accounts
      /\ u # Vault /\ Treasury # Vault
  BY AccountsAssumption DEF Accounts
<1>4. lamports \in [Accounts -> Nat] /\ lamports[u] >= MintPoolCut(tier)
  BY DEF MarketTypeOK, MintCard
<1>5. /\ toVault \in [Accounts -> Nat]
      /\ toVault[Vault] = lamports[Vault] + MintPoolCut(tier)
  BY <1>2, <1>3, <1>4, MoveLemma DEF If
<1>6. /\ toVault[u] >= MintTreasuryCut(tier)
      /\ lamports' = Move(toVault, u, Treasury, MintTreasuryCut(tier))
  BY DEF MintCard
<1> HIDE DEF toVault
<1>7. lamports' \in [Accounts -> Nat] /\ lamports'[Vault] = toVault[Vault]
  BY <1>2, <1>3, <1>5, <1>6, MoveLemma DEF If
<1>8. pool' = Credited(MintPoolCut(tier)) /\ CanCredit(MintPoolCut(tier))
  BY DEF MintCard
<1> QED
  BY <1>2, <1>5, <1>7, <1>8, CreditLemma DEF MarketTypeOK

\* Effect of list_card on ledger and pool.
LEMMA ListEffect ==
    ASSUME MarketTypeOK, NEW u \in Users, NEW c \in Cards, NEW price \in Nat,
           ListCard(u, c, price)
    PROVE  /\ lamports' \in [Accounts -> Nat]
           /\ config.listing_fee \in Nat
           /\ lamports'[Vault] = lamports[Vault] + config.listing_fee
           /\ pool' \in PoolType
           /\ pool' = Credited(config.listing_fee)
<1>1. config.listing_fee \in Nat
  BY UnitsAssumption DEF MarketTypeOK, ConfigType
<1>2. u \in Accounts /\ Vault \in Accounts /\ u # Vault
  BY AccountsAssumption DEF Accounts
<1>3. /\ lamports \in [Accounts -> Nat]
      /\ lamports[u] >= config.listing_fee
      /\ lamports' = Move(lamports, u, Vault, config.listing_fee)
  BY DEF MarketTypeOK, ListCard
<1>4. /\ lamports' \in [Accounts -> Nat]
      /\ lamports'[Vault] = lamports[Vault] + config.listing_fee
  BY <1>1, <1>2, <1>3, MoveLemma DEF If
<1>5. pool' = Credited(config.listing_fee) /\ CanCredit(config.listing_fee)
  BY DEF ListCard
<1> QED
  BY <1>1, <1>4, <1>5, CreditLemma DEF MarketTypeOK

\* Effect of buy_card: the three payments add up, on every account, to the
\* shares of the price, whoever the buyer, the seller and the treasury are.
LEMMA BuyEffect ==
    ASSUME MarketTypeOK, NEW u \in Users, NEW c \in Cards, BuyCard(u, c)
    PROVE  LET p   == listing[c].price
               bps == config.market_fee_bps
           IN  /\ lamports' \in [Accounts -> Nat]
               /\ \A a \in Accounts :
                     lamports'[a] - lamports[a] =
                         If(a = listing[c].seller, SellerNet(p, bps))
                           + If(a = Vault, PoolCut(p, bps))
                           + If(a = Treasury, BurnCut(p, bps)) - If(a = u, p)
               /\ PoolCut(p, bps) \in Nat
               /\ lamports'[Vault] = lamports[Vault] + PoolCut(p, bps)
               /\ pool' \in PoolType
               /\ pool' = Credited(PoolCut(p, bps))
<1> DEFINE p        == listing[c].price
           bps      == config.market_fee_bps
           seller   == listing[c].seller
           net      == SellerNet(p, bps)
           cut      == PoolCut(p, bps)
           burn     == BurnCut(p, bps)
           toSeller == Move(lamports, u, seller, net)
           toVault  == Move(toSeller, u, Vault, cut)
<1>1. listing[c] # NoListing
  BY DEF BuyCard
<1>2. /\ seller \in Users /\ p \in Nat
      /\ net \in Nat /\ cut \in Nat /\ burn \in Nat /\ net + cut + burn = p
  BY <1>1, ListedPrice
<1>3. /\ u \in Accounts /\ seller \in Accounts /\ Vault \in Accounts /\ Treasury \in Accounts
      /\ u # Vault /\ seller # Vault /\ Treasury # Vault
  BY <1>2, AccountsAssumption DEF Accounts
<1>4. /\ lamports \in [Accounts -> Nat]
      /\ lamports[u] >= net /\ toSeller[u] >= cut /\ toVault[u] >= burn
      /\ lamports' = Move(toVault, u, Treasury, burn)
      /\ pool' = Credited(cut) /\ CanCredit(cut)
  BY DEF MarketTypeOK, BuyCard
<1> HIDE DEF net, cut, burn, seller, p
<1>5. /\ toSeller \in [Accounts -> Nat]
      /\ \A a \in Accounts : toSeller[a] = lamports[a] - If(a = u, net) + If(a = seller, net)
  <2>1. /\ lamports \in [Accounts -> Nat] /\ u \in Accounts /\ seller \in Accounts
        /\ net \in Nat /\ lamports[u] >= net
    BY <1>2, <1>3, <1>4
  <2> QED
    BY <2>1, MoveLemma
<1> HIDE DEF toSeller
<1>6. /\ toVault \in [Accounts -> Nat]
      /\ \A a \in Accounts : toVault[a] = toSeller[a] - If(a = u, cut) + If(a = Vault, cut)
  <2>1. /\ toSeller \in [Accounts -> Nat] /\ u \in Accounts /\ Vault \in Accounts
        /\ cut \in Nat /\ toSeller[u] >= cut
    BY <1>2, <1>3, <1>4, <1>5
  <2> QED
    BY <2>1, MoveLemma
<1> HIDE DEF toVault
<1>7. /\ lamports' \in [Accounts -> Nat]
      /\ \A a \in Accounts :
            lamports'[a] = toVault[a] - If(a = u, burn) + If(a = Treasury, burn)
  <2>1. /\ toVault \in [Accounts -> Nat] /\ u \in Accounts /\ Treasury \in Accounts
        /\ burn \in Nat /\ toVault[u] >= burn
    BY <1>2, <1>3, <1>4, <1>6
  <2>2. lamports' = Move(toVault, u, Treasury, burn)
    BY <1>4
  <2> QED
    BY <2>1, <2>2, MoveLemma
<1>8. ASSUME NEW a \in Accounts
      PROVE  lamports'[a] - lamports[a] =
                 If(a = seller, net) + If(a = Vault, cut) + If(a = Treasury, burn) - If(a = u, p)
  BY <1>2, <1>4, <1>5, <1>6, <1>7 DEF If
<1>9. lamports'[Vault] = lamports[Vault] + cut
  BY <1>2, <1>3, <1>4, <1>5, <1>6, <1>7 DEF If
<1>10. pool' \in PoolType
  BY <1>2, <1>4, CreditLemma DEF MarketTypeOK
<1> QED
  BY <1>2, <1>4, <1>7, <1>8, <1>9, <1>10 DEF net, cut, burn, seller, p

\* Effect of instant_sell: books and vault fall by the same payout.
LEMMA SellEffect ==
    ASSUME MarketTypeOK, NEW u \in Users, NEW c \in Cards, InstantSell(u, c)
    PROVE  LET payout == Payout(pool.floor_price) IN
           /\ lamports' \in [Accounts -> Nat]
           /\ payout \in Nat
           /\ 2 * payout <= pool.floor_price
           /\ payout <= pool.total_lamports
           /\ lamports'[Vault] = lamports[Vault] - payout
           /\ lamports'[u] = lamports[u] + payout
           /\ pool' \in PoolType
           /\ pool'.total_lamports = pool.total_lamports - payout
           /\ pool'.lifetime_in = pool.lifetime_in
           /\ pool'.lifetime_out = pool.lifetime_out + payout
           /\ pool'.floor_price = pool.floor_price
           /\ pool'.instant_sell_enabled = pool.instant_sell_enabled
<1> DEFINE payout == Payout(pool.floor_price)
           debited == [pool EXCEPT !.total_lamports = pool.total_lamports - payout]
<1>1. pool \in PoolType /\ pool.floor_price \in Nat
  BY UnitsAssumption DEF MarketTypeOK, PoolType
<1>2. payout \in Nat /\ 2 * payout <= pool.floor_price
  BY <1>1, PayoutBound
<1>3. u \in Accounts /\ Vault \in Accounts /\ u # Vault
  BY AccountsAssumption DEF Accounts
<1>4. /\ lamports \in [Accounts -> Nat]
      /\ lamports[Vault] >= payout
      /\ lamports' = Move(lamports, Vault, u, payout)
      /\ pool.total_lamports >= payout
      /\ pool.lifetime_out + payout <= MaxU64
  BY DEF MarketTypeOK, InstantSell
<1>5. pool' = [debited EXCEPT !.lifetime_out = pool.lifetime_out + payout]
  BY DEF InstantSell
<1> HIDE DEF payout
<1>6. /\ lamports' \in [Accounts -> Nat]
      /\ lamports'[Vault] = lamports[Vault] - payout
      /\ lamports'[u] = lamports[u] + payout
  BY <1>2, <1>3, <1>4, MoveLemma DEF If
<1>7. /\ pool.total_lamports - payout \in 0 .. MaxU64
      /\ pool.lifetime_out + payout \in 0 .. MaxU64
  BY <1>1, <1>2, <1>4, UnitsAssumption DEF PoolType
<1>8. /\ debited \in PoolType
      /\ debited.total_lamports = pool.total_lamports - payout
      /\ debited.lifetime_in = pool.lifetime_in
      /\ debited.lifetime_out = pool.lifetime_out
      /\ debited.floor_price = pool.floor_price
      /\ debited.instant_sell_enabled = pool.instant_sell_enabled
  BY <1>1, <1>7 DEF PoolType
<1> HIDE DEF debited
<1>9. /\ pool' \in PoolType
      /\ pool'.total_lamports = pool.total_lamports - payout
      /\ pool'.lifetime_in = pool.lifetime_in
      /\ pool'.lifetime_out = pool.lifetime_out + payout
      /\ pool'.floor_price = pool.floor_price
      /\ pool'.instant_sell_enabled = pool.instant_sell_enabled
  BY <1>5, <1>7, <1>8 DEF PoolType
<1> QED
  BY <1>2, <1>4, <1>6, <1>9 DEF payout

\* Effect of withdraw_treasury and of a wallet's payment: the vault never
\* pays.
LEMMA PaymentEffect ==
    ASSUME MarketTypeOK, NEW from \in Accounts, from # Vault, NEW to \in Accounts,
           NEW amount \in Nat, lamports[from] >= amount,
           lamports' = Move(lamports, from, to, amount)
    PROVE  lamports' \in [Accounts -> Nat] /\ lamports'[Vault] >= lamports[Vault]
<1>1. lamports \in [Accounts -> Nat] /\ Vault \in Accounts
  BY DEF MarketTypeOK, Accounts
<1>2. /\ lamports' \in [Accounts -> Nat]
      /\ lamports'[Vault] = lamports[Vault] - If(Vault = from, amount) + If(Vault = to, amount)
  BY <1>1, MoveLemma
<1>3. If(Vault = from, amount) = 0 /\ If(Vault = to, amount) \in Nat /\ lamports[Vault] \in Nat
  BY <1>1 DEF If
<1> QED
  BY <1>2, <1>3
-----------------------------------------------------------------------------
(***************************************************************************)
(* The market with whatever arguments the instructions can carry, of which *)
(* MarketNext takes samples: what the steps preserve does not depend on    *)
(* the choice.                                                             *)
(***************************************************************************)
AnyTrade ==
    \E u \in Users, c \in Cards :
        \/ \E tier \in Nat : MintCard(u, c, tier)
        \/ \E price \in 0 .. MaxU64 : ListCard(u, c, price)
        \/ CancelListing(u, c)
        \/ BuyCard(u, c)
        \/ InstantSell(u, c)

AnyAdmin ==
    \E u \in Users :
        \/ \E floor \in 0 .. MaxU64 : UpdateFloor(u, floor)
        \/ \E enabled \in BOOLEAN : SetInstantSell(u, enabled)
        \/ \E amount \in Nat : WithdrawTreasury(u, amount)
        \/ \E flags \in SUBSET PauseFlags : MarketSetPause(u, flags)

AnyWallet ==
    \E u \in Users :
        \/ \E to \in Accounts, amount \in Nat : WalletPays(u, to, amount)
        \/ \E to \in Holders, c \in Cards : WalletGivesCard(u, to, c)

AnyNext ==
    \/ \E u \in Deployers, feeBps \in Nat, fee \in 0 .. MaxU64 :
           MarketInitialize(u, feeBps, fee)
    \/ AnyTrade
    \/ AnyAdmin
    \/ AnyWallet

AnySpec == MarketInit /\ [][AnyNext]_marketVars

\* The inputs the runs choose from are inputs of this kind.
LEMMA NextIsAny == [MarketNext]_marketVars => [AnyNext]_marketVars
<1> SUFFICES ASSUME MarketNext PROVE AnyNext
  OBVIOUS
<1>1. ASSUME NEW u \in Deployers, NEW feeBps \in FeeChoices, NEW fee \in ListingFees,
             MarketInitialize(u, feeBps, fee)
      PROVE  AnyNext
  BY <1>1, MarketAssumption DEF AnyNext
<1>2. CASE TradeStep
  <2>1. AnyTrade
    BY <1>2, MarketAssumption DEF TradeStep, AnyTrade
  <2> QED
    BY <2>1 DEF AnyNext
<1>3. CASE AdminStep
  <2>1. AnyAdmin
    BY <1>3, MarketAssumption DEF AdminStep, AnyAdmin
  <2> QED
    BY <2>1 DEF AnyNext
<1>4. CASE WalletStep
  <2>1. AnyWallet
    BY <1>4, MarketAssumption DEF WalletStep, AnyWallet
  <2> QED
    BY <2>1 DEF AnyNext
<1> QED
  BY <1>1, <1>2, <1>3, <1>4 DEF MarketNext

\* So what holds for every input holds for theirs.
LEMMA MarketIsAny == MarketSpec => AnySpec
<1> QED
  BY NextIsAny, PTL DEF MarketSpec, AnySpec

\* A Config account stays in its type when its pause byte is overwritten or
\* when it is created.
LEMMA ConfigSteps ==
    ASSUME config \in ConfigType
    PROVE  /\ \A u \in Users, flags \in SUBSET PauseFlags :
                  SetPause(u, flags) => config' \in ConfigType
           /\ \A u \in Deployers, feeBps \in Nat, fee \in 0 .. MaxU64 :
                  Initialize(u, BURN_BPS, POOL_BPS, feeBps, fee) => config' \in ConfigType
<1>1. ASSUME NEW u \in Users, NEW flags \in SUBSET PauseFlags, SetPause(u, flags)
      PROVE  config' \in ConfigType
  <2>1. flags \in SUBSET PauseFlags
    BY MarketAssumption
  <2>2. config' = [config EXCEPT !.paused = flags]
    BY <1>1 DEF SetPause
  <2> QED
    BY <2>1, <2>2 DEF ConfigType
<1>2. ASSUME NEW u \in Deployers, NEW feeBps \in Nat, NEW fee \in 0 .. MaxU64,
             Initialize(u, BURN_BPS, POOL_BPS, feeBps, fee)
      PROVE  config' \in ConfigType
  <2>1. feeBps \in 0 .. MAX_MARKET_FEE_BPS
    BY <1>2, MarketAssumption DEF Initialize, MAX_MARKET_FEE_BPS
  <2>2. u \in Users /\ fee \in 0 .. MaxU64 /\ BURN_BPS \in 0 .. BPS_DENOM
    BY MarketAssumption, AccountsAssumption DEF BURN_BPS, BPS_DENOM
  <2> QED
    BY <1>2, <2>1, <2>2 DEF Initialize, ConfigType
<1> QED
  BY <1>1, <1>2

\* A pool whose floor or switch an admin instruction rewrites stays in its
\* type, with the same books.
LEMMA AdminPool ==
    ASSUME pool \in PoolType,
           NEW floor \in 0 .. MaxU64, NEW on \in BOOLEAN,
           pool' = [pool EXCEPT !.floor_price = floor, !.instant_sell_enabled = on]
    PROVE  /\ pool' \in PoolType
           /\ pool'.total_lamports = pool.total_lamports
           /\ pool'.lifetime_in = pool.lifetime_in
           /\ pool'.lifetime_out = pool.lifetime_out
           /\ pool'.floor_price = floor
           /\ pool'.instant_sell_enabled = on
<1> DEFINE priced == [pool EXCEPT !.floor_price = floor]
<1>1. /\ priced \in PoolType
      /\ priced.total_lamports = pool.total_lamports
      /\ priced.lifetime_in = pool.lifetime_in
      /\ priced.lifetime_out = pool.lifetime_out
      /\ priced.floor_price = floor
  BY DEF PoolType
<1>2. pool' = [priced EXCEPT !.instant_sell_enabled = on]
  OBVIOUS
<1> HIDE DEF priced
<1> QED
  BY <1>1, <1>2 DEF PoolType

\* update_floor and set_instant_sell in the form AdminPool takes.
LEMMA UpdateFloorPool ==
    ASSUME MarketTypeOK, NEW u \in Users, NEW floor \in 0 .. MaxU64, UpdateFloor(u, floor)
    PROVE  /\ pool' \in PoolType
           /\ pool'.total_lamports = pool.total_lamports
           /\ pool'.lifetime_in = pool.lifetime_in
           /\ pool'.lifetime_out = pool.lifetime_out
           /\ pool'.floor_price = floor
           /\ pool'.instant_sell_enabled => floor > 0
<1> DEFINE on == pool.instant_sell_enabled /\ floor > 0
                   /\ pool.total_lamports >= Payout(floor)
<1>1. pool \in PoolType /\ floor \in 0 .. MaxU64
  BY MarketAssumption DEF MarketTypeOK
<1>2. on \in BOOLEAN /\ (on => floor > 0)
  OBVIOUS
<1>3. pool' = [pool EXCEPT !.floor_price = floor, !.instant_sell_enabled = on]
  BY DEF UpdateFloor
<1> HIDE DEF on
<1> QED
  BY <1>1, <1>2, <1>3, AdminPool

\* set_instant_sell keeps the books and the floor, and switches on only over a
\* floor.
LEMMA SetInstantSellPool ==
    ASSUME MarketTypeOK, NEW u \in Users, NEW enabled \in BOOLEAN, SetInstantSell(u, enabled)
    PROVE  /\ pool' \in PoolType
           /\ pool'.total_lamports = pool.total_lamports
           /\ pool'.lifetime_in = pool.lifetime_in
           /\ pool'.lifetime_out = pool.lifetime_out
           /\ pool'.floor_price = pool.floor_price
           /\ pool'.instant_sell_enabled => pool'.floor_price > 0
<1>1. pool \in PoolType
  BY DEF MarketTypeOK
<1>2. pool' = [pool EXCEPT !.instant_sell_enabled = enabled]
  BY DEF SetInstantSell
<1>3. enabled => pool.floor_price > 0
  BY DEF SetInstantSell
<1>4. /\ pool' \in PoolType
      /\ pool'.total_lamports = pool.total_lamports
      /\ pool'.lifetime_in = pool.lifetime_in
      /\ pool'.lifetime_out = pool.lifetime_out
      /\ pool'.floor_price = pool.floor_price
      /\ pool'.instant_sell_enabled = enabled
  BY <1>1, <1>2 DEF PoolType
<1> QED
  BY <1>3, <1>4
-----------------------------------------------------------------------------
\* Every account field keeps its width: no instruction, in any order, takes
\* a counter past its type, a balance below zero, or a card to a holder that
\* does not exist.
LEMMA InitTypeOK == MarketInit => MarketTypeOK
<1> SUFFICES ASSUME MarketInit PROVE MarketTypeOK
  OBVIOUS
<1>1. config \in ConfigType
  BY AccountsAssumption, UnitsAssumption
     DEF MarketInit, ConfigInit, ConfigType, BPS_DENOM, MAX_MARKET_FEE_BPS
<1>2. pool \in PoolType
  BY UnitsAssumption DEF MarketInit, NewPool, PoolType
<1>3. /\ listing \in [Cards -> ListingType \cup {NoListing}]
      /\ card_meta \subseteq Cards
      /\ total_cards_minted \in 0 .. MaxU64
      /\ holder \in [Cards -> Holders]
      /\ lamports \in [Accounts -> Nat]
  BY UnitsAssumption, MarketAssumption DEF MarketInit, Holders
<1> QED
  BY <1>1, <1>2, <1>3 DEF MarketTypeOK

\* No step of the program or of a wallet takes a field out of its type: one
\* step per instruction.
LEMMA StepTypeOK == MarketTypeOK /\ [AnyNext]_marketVars => MarketTypeOK'
<1> SUFFICES ASSUME MarketTypeOK, [AnyNext]_marketVars PROVE MarketTypeOK'
  OBVIOUS
<1>1. ASSUME NEW u \in Deployers, NEW feeBps \in Nat, NEW fee \in 0 .. MaxU64,
             MarketInitialize(u, feeBps, fee)
      PROVE  MarketTypeOK'
  <2>1. config' \in ConfigType
    BY <1>1, ConfigSteps DEF MarketInitialize, MarketTypeOK
  <2>2. pool' \in PoolType
    BY <1>1, UnitsAssumption DEF MarketInitialize, NewPool, PoolType
  <2>3. total_cards_minted' \in 0 .. MaxU64
    BY <1>1, UnitsAssumption DEF MarketInitialize
  <2> QED
    BY <1>1, <2>1, <2>2, <2>3 DEF MarketInitialize, MarketTypeOK
<1>2. ASSUME NEW u \in Users, NEW c \in Cards, NEW tier \in Nat, MintCard(u, c, tier)
      PROVE  MarketTypeOK'
  <2>1. lamports' \in [Accounts -> Nat] /\ pool' \in PoolType
    BY <1>2, MintEffect, MarketAssumption
  <2>2. card_meta' \subseteq Cards /\ total_cards_minted' \in 0 .. MaxU64
    BY <1>2, UnitsAssumption DEF MintCard, MarketTypeOK
  <2> QED
    BY <1>2, <2>1, <2>2 DEF MintCard, MarketTypeOK
<1>3. ASSUME NEW u \in Users, NEW c \in Cards, NEW price \in 0 .. MaxU64, ListCard(u, c, price)
      PROVE  MarketTypeOK'
  <2>1. price \in 1 .. MaxU64
    BY <1>3, MarketAssumption, UnitsAssumption DEF ListCard
  <2>2. lamports' \in [Accounts -> Nat] /\ pool' \in PoolType
    BY <1>3, <2>1, ListEffect
  <2>3. [seller |-> u, price |-> price] \in ListingType
    BY <2>1 DEF ListingType
  <2>4. listing' \in [Cards -> ListingType \cup {NoListing}] /\ holder' \in [Cards -> Holders]
    BY <1>3, <2>3 DEF ListCard, MarketTypeOK, Holders
  <2> QED
    BY <1>3, <2>2, <2>4 DEF ListCard, MarketTypeOK
<1>4. ASSUME NEW u \in Users, NEW c \in Cards, CancelListing(u, c)
      PROVE  MarketTypeOK'
  <2>1. listing' \in [Cards -> ListingType \cup {NoListing}] /\ holder' \in [Cards -> Holders]
    BY <1>4 DEF CancelListing, MarketTypeOK, Holders
  <2> QED
    BY <1>4, <2>1 DEF CancelListing, MarketTypeOK
<1>5. ASSUME NEW u \in Users, NEW c \in Cards, BuyCard(u, c)
      PROVE  MarketTypeOK'
  <2>1. lamports' \in [Accounts -> Nat] /\ pool' \in PoolType
    BY <1>5, BuyEffect
  <2>2. listing' \in [Cards -> ListingType \cup {NoListing}] /\ holder' \in [Cards -> Holders]
    BY <1>5 DEF BuyCard, MarketTypeOK, Holders
  <2> QED
    BY <1>5, <2>1, <2>2 DEF BuyCard, MarketTypeOK
<1>6. ASSUME NEW u \in Users, NEW c \in Cards, InstantSell(u, c)
      PROVE  MarketTypeOK'
  <2>1. lamports' \in [Accounts -> Nat] /\ pool' \in PoolType
    BY <1>6, SellEffect
  <2>2. holder' \in [Cards -> Holders]
    BY <1>6 DEF InstantSell, MarketTypeOK, Holders
  <2> QED
    BY <1>6, <2>1, <2>2 DEF InstantSell, MarketTypeOK
<1>7. ASSUME NEW u \in Users, NEW floor \in 0 .. MaxU64, UpdateFloor(u, floor)
      PROVE  MarketTypeOK'
  <2>1. pool' \in PoolType
    BY <1>7, UpdateFloorPool
  <2> QED
    BY <1>7, <2>1 DEF UpdateFloor, MarketTypeOK, IsAuthority
<1>8. ASSUME NEW u \in Users, NEW enabled \in BOOLEAN, SetInstantSell(u, enabled)
      PROVE  MarketTypeOK'
  <2>1. pool' \in PoolType
    BY <1>8, SetInstantSellPool
  <2> QED
    BY <1>8, <2>1 DEF SetInstantSell, MarketTypeOK, IsAuthority
<1>9. ASSUME NEW u \in Users, NEW amount \in Nat, WithdrawTreasury(u, amount)
      PROVE  MarketTypeOK'
  <2>1. amount \in Nat /\ Treasury \in Accounts /\ Treasury # Vault /\ u \in Accounts
    BY MarketAssumption, AccountsAssumption DEF Accounts
  <2>2. lamports' \in [Accounts -> Nat]
    BY <1>9, <2>1, PaymentEffect DEF WithdrawTreasury
  <2> QED
    BY <1>9, <2>2 DEF WithdrawTreasury, MarketTypeOK
<1>10. ASSUME NEW u \in Users, NEW flags \in SUBSET PauseFlags, MarketSetPause(u, flags)
       PROVE  MarketTypeOK'
  <2>1. config' \in ConfigType
    BY <1>10, ConfigSteps DEF MarketSetPause, MarketTypeOK
  <2> QED
    BY <1>10, <2>1 DEF MarketSetPause, MarketTypeOK
<1>11. ASSUME NEW u \in Users, NEW to \in Accounts, NEW amount \in Nat,
              WalletPays(u, to, amount)
       PROVE  MarketTypeOK'
  <2>1. amount \in Nat /\ u \in Accounts /\ u # Vault
    BY MarketAssumption, AccountsAssumption DEF Accounts
  <2>2. lamports' \in [Accounts -> Nat]
    BY <1>11, <2>1, PaymentEffect DEF WalletPays
  <2> QED
    BY <1>11, <2>2 DEF WalletPays, MarketTypeOK
<1>12. ASSUME NEW u \in Users, NEW to \in Holders, NEW c \in Cards,
              WalletGivesCard(u, to, c)
       PROVE  MarketTypeOK'
  <2>1. holder' \in [Cards -> Holders]
    BY <1>12 DEF WalletGivesCard, MarketTypeOK, Holders
  <2> QED
    BY <1>12, <2>1 DEF WalletGivesCard, MarketTypeOK
<1>13. CASE UNCHANGED marketVars
  BY <1>13 DEF marketVars, MarketTypeOK
<1> QED
  BY <1>1, <1>2, <1>3, <1>4, <1>5, <1>6, <1>7, <1>8, <1>9, <1>10, <1>11, <1>12, <1>13
     DEF AnyNext, AnyTrade, AnyAdmin, AnyWallet

\* The type invariant of the market holds in every reachable state.
THEOREM MarketTypeCorrect == MarketSpec => []MarketTypeOK
<1> QED
  BY InitTypeOK, StepTypeOK, MarketIsAny, PTL DEF AnySpec
-----------------------------------------------------------------------------
(***************************************************************************)
(* The inductive invariant.  Unopened says what initialize finds: without  *)
(* it a first initialize could reset counters that are in use.  The        *)
(* finiteness of card_meta gives its cardinality a meaning.                *)
(***************************************************************************)
Unopened == ~config.initialized => card_meta = {} /\ pool = NewPool

MarketInv ==
    /\ MarketTypeOK
    /\ Unopened
    /\ IsFiniteSet(card_meta)
    /\ PoolSolvent
    /\ ListedIsEscrowed
    /\ MintedMatchesRecords
    /\ OpenOnlyWithFloor

\* Before initialize every part of the invariant holds: nothing is listed,
\* recorded or booked.
LEMMA InitMarketInv == MarketInit => MarketInv
<1> SUFFICES ASSUME MarketInit PROVE MarketInv
  OBVIOUS
<1>1. MarketTypeOK
  BY InitTypeOK
<1>2. Unopened /\ IsFiniteSet(card_meta) /\ MintedMatchesRecords
  BY FS_EmptySet DEF MarketInit, Unopened, MintedMatchesRecords
<1>3. lamports[Vault] \in Nat
  BY <1>1 DEF MarketTypeOK, Accounts
<1>4. PoolSolvent /\ OpenOnlyWithFloor
  BY <1>3 DEF MarketInit, NewPool, PoolSolvent, OpenOnlyWithFloor
<1>5. ListedIsEscrowed
  BY MarketAssumption DEF MarketInit, ListedIsEscrowed
<1> QED
  BY <1>1, <1>2, <1>4, <1>5 DEF MarketInv

\* An instruction that credits the pool pays the vault as much; one that
\* leaves the pool alone does not lower the vault.
LEMMA StepPoolSolvent == MarketInv /\ [AnyNext]_marketVars => PoolSolvent'
<1> SUFFICES ASSUME MarketInv, [AnyNext]_marketVars PROVE PoolSolvent'
  OBVIOUS
<1> USE DEF PoolSolvent
<1>0. /\ MarketTypeOK /\ PoolSolvent /\ pool \in PoolType
      /\ lamports[Vault] \in Nat /\ pool.total_lamports \in Nat
      /\ pool.lifetime_in \in Nat /\ pool.lifetime_out \in Nat
  BY UnitsAssumption DEF MarketInv, MarketTypeOK, PoolType, Accounts
<1>1. ASSUME NEW u \in Deployers, NEW feeBps \in Nat, NEW fee \in 0 .. MaxU64,
             MarketInitialize(u, feeBps, fee)
      PROVE  PoolSolvent'
  BY <1>0, <1>1 DEF MarketInitialize, NewPool
<1>2. ASSUME NEW n \in Nat, pool \in PoolType, CanCredit(n), pool' = Credited(n),
             lamports'[Vault] = lamports[Vault] + n
      PROVE  PoolSolvent'
  BY <1>0, <1>2, CreditLemma
<1>3. ASSUME NEW u \in Users, NEW c \in Cards, NEW tier \in Nat, MintCard(u, c, tier)
      PROVE  PoolSolvent'
  <2>1. CanCredit(MintPoolCut(tier))
    BY <1>3 DEF MintCard
  <2> QED
    BY <1>0, <1>2, <1>3, <2>1, MintEffect, MarketAssumption
<1>4. ASSUME NEW u \in Users, NEW c \in Cards, NEW price \in 0 .. MaxU64, ListCard(u, c, price)
      PROVE  PoolSolvent'
  <2>1. CanCredit(config.listing_fee) /\ price \in Nat
    BY <1>4, MarketAssumption, UnitsAssumption DEF ListCard
  <2> QED
    BY <1>0, <1>2, <1>4, <2>1, ListEffect
<1>5. ASSUME NEW u \in Users, NEW c \in Cards, BuyCard(u, c)
      PROVE  PoolSolvent'
  <2>1. CanCredit(PoolCut(listing[c].price, config.market_fee_bps))
    BY <1>5 DEF BuyCard
  <2> QED
    BY <1>0, <1>2, <1>5, <2>1, BuyEffect
<1>6. ASSUME NEW u \in Users, NEW c \in Cards, InstantSell(u, c)
      PROVE  PoolSolvent'
  BY <1>0, <1>6, SellEffect
<1>7. ASSUME NEW u \in Users, NEW floor \in 0 .. MaxU64, UpdateFloor(u, floor)
      PROVE  PoolSolvent'
  <2>1. lamports' = lamports
    BY <1>7 DEF UpdateFloor
  <2> QED
    BY <1>0, <1>7, <2>1, UpdateFloorPool
<1>8. ASSUME NEW u \in Users, NEW enabled \in BOOLEAN, SetInstantSell(u, enabled)
      PROVE  PoolSolvent'
  <2>1. lamports' = lamports
    BY <1>8 DEF SetInstantSell
  <2> QED
    BY <1>0, <1>8, <2>1, SetInstantSellPool
<1>9. ASSUME NEW u \in Users, NEW amount \in Nat, WithdrawTreasury(u, amount)
      PROVE  PoolSolvent'
  <2>1. amount \in Nat /\ Treasury \in Accounts /\ Treasury # Vault /\ u \in Accounts
    BY MarketAssumption, AccountsAssumption DEF Accounts
  <2>2. lamports' \in [Accounts -> Nat] /\ lamports'[Vault] >= lamports[Vault]
    BY <1>0, <1>9, <2>1, PaymentEffect DEF WithdrawTreasury
  <2>3. pool' = pool /\ lamports'[Vault] \in Nat
    BY <1>9, <2>2 DEF WithdrawTreasury, Accounts
  <2> QED
    BY <1>0, <2>2, <2>3
<1>10. ASSUME NEW u \in Users, NEW to \in Accounts, NEW amount \in Nat,
              WalletPays(u, to, amount)
       PROVE  PoolSolvent'
  <2>1. amount \in Nat /\ u \in Accounts /\ u # Vault
    BY MarketAssumption, AccountsAssumption DEF Accounts
  <2>2. lamports' \in [Accounts -> Nat] /\ lamports'[Vault] >= lamports[Vault]
    BY <1>0, <1>10, <2>1, PaymentEffect DEF WalletPays
  <2>3. pool' = pool /\ lamports'[Vault] \in Nat
    BY <1>10, <2>2 DEF WalletPays, Accounts
  <2> QED
    BY <1>0, <2>2, <2>3
<1>11. CASE UNCHANGED <<pool, lamports>>
  BY <1>0, <1>11
<1> QED
  BY <1>1, <1>3, <1>4, <1>5, <1>6, <1>7, <1>8, <1>9, <1>10, <1>11
     DEF AnyNext, AnyTrade, AnyAdmin, AnyWallet, marketVars,
         CancelListing, MarketSetPause, WalletGivesCard

\* list_card puts the card in escrow, and the two instructions that take
\* it out close the listing.
LEMMA StepEscrow == MarketInv /\ [AnyNext]_marketVars => ListedIsEscrowed'
<1> SUFFICES ASSUME MarketInv, [AnyNext]_marketVars PROVE ListedIsEscrowed'
  OBVIOUS
<1> USE DEF ListedIsEscrowed
<1>0. /\ ListedIsEscrowed
      /\ holder \in [Cards -> Holders] /\ listing \in [Cards -> ListingType \cup {NoListing}]
      /\ Escrow \notin Users \cup {Vault} /\ NoListing \notin ListingType
  BY MarketAssumption DEF MarketInv, MarketTypeOK
<1>1. ASSUME NEW u \in Users, NEW c \in Cards, NEW price \in 0 .. MaxU64, ListCard(u, c, price)
      PROVE  ListedIsEscrowed'
  <2>1. price \in 1 .. MaxU64
    BY <1>1, MarketAssumption, UnitsAssumption DEF ListCard
  <2>2. [seller |-> u, price |-> price] # NoListing
    BY <1>0, <2>1 DEF ListingType
  <2> QED
    BY <1>0, <1>1, <2>2 DEF ListCard
<1>2. ASSUME NEW u \in Users, NEW c \in Cards, CancelListing(u, c)
      PROVE  ListedIsEscrowed'
  BY <1>0, <1>2 DEF CancelListing
<1>3. ASSUME NEW u \in Users, NEW c \in Cards, BuyCard(u, c)
      PROVE  ListedIsEscrowed'
  BY <1>0, <1>3 DEF BuyCard
<1>4. ASSUME NEW u \in Users, NEW c \in Cards, InstantSell(u, c)
      PROVE  ListedIsEscrowed'
  BY <1>0, <1>4 DEF InstantSell
<1>5. ASSUME NEW u \in Users, NEW to \in Holders, NEW c \in Cards,
             WalletGivesCard(u, to, c)
      PROVE  ListedIsEscrowed'
  BY <1>0, <1>5 DEF WalletGivesCard
<1>6. CASE UNCHANGED <<holder, listing>>
  BY <1>0, <1>6
<1> QED
  BY <1>1, <1>2, <1>3, <1>4, <1>5, <1>6
     DEF AnyNext, AnyTrade, AnyAdmin, AnyWallet, marketVars, MarketInitialize,
         MintCard, UpdateFloor, SetInstantSell, WithdrawTreasury, MarketSetPause, WalletPays

\* mint_card counts a card once; initialize resets the count only while no
\* card is recorded.
LEMMA StepRecords ==
    MarketInv /\ [AnyNext]_marketVars =>
        Unopened' /\ IsFiniteSet(card_meta)' /\ MintedMatchesRecords'
<1> SUFFICES ASSUME MarketInv, [AnyNext]_marketVars
             PROVE  Unopened' /\ IsFiniteSet(card_meta)' /\ MintedMatchesRecords'
  OBVIOUS
<1> USE DEF Unopened, MintedMatchesRecords
<1>0. Unopened /\ IsFiniteSet(card_meta) /\ MintedMatchesRecords
  BY DEF MarketInv
<1>1. ASSUME NEW u \in Deployers, NEW feeBps \in Nat, NEW fee \in 0 .. MaxU64,
             MarketInitialize(u, feeBps, fee)
      PROVE  Unopened' /\ IsFiniteSet(card_meta)' /\ MintedMatchesRecords'
  BY <1>0, <1>1, FS_EmptySet DEF MarketInitialize, Initialize
<1>2. ASSUME NEW u \in Users, NEW c \in Cards, NEW tier \in Nat, MintCard(u, c, tier)
      PROVE  Unopened' /\ IsFiniteSet(card_meta)' /\ MintedMatchesRecords'
  <2>1. c \notin card_meta /\ card_meta' = card_meta \cup {c}
    BY <1>2 DEF MintCard
  <2>2. IsFiniteSet(card_meta') /\ Cardinality(card_meta') = Cardinality(card_meta) + 1
    BY <1>0, <2>1, FS_AddElement
  <2>3. config.initialized /\ config' = config /\ total_cards_minted' = total_cards_minted + 1
    BY <1>2 DEF MintCard
  <2> QED
    BY <1>0, <2>2, <2>3
<1>3. ASSUME UNCHANGED <<card_meta, total_cards_minted>>, config.initialized,
             config'.initialized
      PROVE  Unopened' /\ IsFiniteSet(card_meta)' /\ MintedMatchesRecords'
  BY <1>0, <1>3
<1>4. ASSUME UNCHANGED <<card_meta, total_cards_minted, pool, config>>
      PROVE  Unopened' /\ IsFiniteSet(card_meta)' /\ MintedMatchesRecords'
  BY <1>0, <1>4
<1>5. ASSUME NEW u \in Users, NEW flags \in SUBSET PauseFlags, MarketSetPause(u, flags)
      PROVE  UNCHANGED <<card_meta, total_cards_minted>> /\ config.initialized
               /\ config'.initialized
  <2>1. config \in ConfigType
    BY DEF MarketInv, MarketTypeOK
  <2> QED
    BY <1>5, <2>1 DEF MarketSetPause, SetPause, IsAuthority, ConfigType
<1>6. ASSUME NEW u \in Users, NEW c \in Cards, NEW price \in 0 .. MaxU64, ListCard(u, c, price)
      PROVE  Unopened' /\ IsFiniteSet(card_meta)' /\ MintedMatchesRecords'
  BY <1>3, <1>6 DEF ListCard
<1>7. ASSUME NEW u \in Users, NEW c \in Cards, BuyCard(u, c) \/ InstantSell(u, c)
      PROVE  Unopened' /\ IsFiniteSet(card_meta)' /\ MintedMatchesRecords'
  BY <1>3, <1>7 DEF BuyCard, InstantSell
<1>8. ASSUME NEW u \in Users, NEW c \in Cards, CancelListing(u, c)
      PROVE  Unopened' /\ IsFiniteSet(card_meta)' /\ MintedMatchesRecords'
  BY <1>4, <1>8 DEF CancelListing
<1>9. CASE AnyAdmin
  BY <1>3, <1>5, <1>9
     DEF AnyAdmin, UpdateFloor, SetInstantSell, WithdrawTreasury, IsAuthority
<1>10. CASE AnyWallet
  BY <1>4, <1>10 DEF AnyWallet, WalletPays, WalletGivesCard
<1>11. CASE UNCHANGED marketVars
  BY <1>4, <1>11 DEF marketVars
<1> QED
  BY <1>1, <1>2, <1>6, <1>7, <1>8, <1>9, <1>10, <1>11 DEF AnyNext, AnyTrade

\* The switch goes on only over a floor, and the floor falls to zero only
\* with the switch.
LEMMA StepOpenOnlyWithFloor ==
    MarketInv /\ [AnyNext]_marketVars => OpenOnlyWithFloor'
<1> SUFFICES ASSUME MarketInv, [AnyNext]_marketVars PROVE OpenOnlyWithFloor'
  OBVIOUS
<1> USE DEF OpenOnlyWithFloor
<1>0. MarketTypeOK /\ OpenOnlyWithFloor /\ pool \in PoolType /\ config \in ConfigType
  BY DEF MarketInv, MarketTypeOK
<1>1. ASSUME NEW u \in Deployers, NEW feeBps \in Nat, NEW fee \in 0 .. MaxU64,
             MarketInitialize(u, feeBps, fee)
      PROVE  OpenOnlyWithFloor'
  BY <1>1 DEF MarketInitialize, NewPool
<1>2. ASSUME NEW n \in Nat, CanCredit(n), pool' = Credited(n), UNCHANGED config
      PROVE  OpenOnlyWithFloor'
  BY <1>0, <1>2, CreditLemma
<1>3. ASSUME NEW u \in Users, NEW c \in Cards, NEW tier \in Nat, MintCard(u, c, tier)
      PROVE  OpenOnlyWithFloor'
  <2>1. MintPoolCut(tier) \in Nat
    BY <1>0, <1>3, MintEffect, MarketAssumption
  <2> QED
    BY <1>2, <1>3, <2>1 DEF MintCard
<1>4. ASSUME NEW u \in Users, NEW c \in Cards, NEW price \in 0 .. MaxU64, ListCard(u, c, price)
      PROVE  OpenOnlyWithFloor'
  <2>1. config.listing_fee \in Nat
    BY <1>0, UnitsAssumption DEF ConfigType
  <2> QED
    BY <1>2, <1>4, <2>1 DEF ListCard
<1>5. ASSUME NEW u \in Users, NEW c \in Cards, BuyCard(u, c)
      PROVE  OpenOnlyWithFloor'
  <2>1. PoolCut(listing[c].price, config.market_fee_bps) \in Nat
    BY <1>0, <1>5, BuyEffect
  <2> QED
    BY <1>2, <1>5, <2>1 DEF BuyCard
<1>6. ASSUME NEW u \in Users, NEW c \in Cards, InstantSell(u, c)
      PROVE  OpenOnlyWithFloor'
  <2>1. config' = config
    BY <1>6 DEF InstantSell
  <2> QED
    BY <1>0, <1>6, <2>1, SellEffect
<1>7. ASSUME NEW u \in Users, NEW floor \in 0 .. MaxU64, UpdateFloor(u, floor)
      PROVE  OpenOnlyWithFloor'
  <2>1. config.initialized /\ config' = config
    BY <1>7 DEF UpdateFloor, IsAuthority
  <2> QED
    BY <1>0, <1>7, <2>1, UpdateFloorPool
<1>8. ASSUME NEW u \in Users, NEW enabled \in BOOLEAN, SetInstantSell(u, enabled)
      PROVE  OpenOnlyWithFloor'
  <2>1. config.initialized /\ config' = config
    BY <1>8 DEF SetInstantSell, IsAuthority
  <2> QED
    BY <1>0, <1>8, <2>1, SetInstantSellPool
<1>9. ASSUME NEW u \in Users, NEW flags \in SUBSET PauseFlags, MarketSetPause(u, flags)
      PROVE  OpenOnlyWithFloor'
  BY <1>0, <1>9 DEF MarketSetPause, SetPause, IsAuthority, ConfigType
<1>10. CASE UNCHANGED <<pool, config>>
  BY <1>0, <1>10
<1> QED
  BY <1>1, <1>3, <1>4, <1>5, <1>6, <1>7, <1>8, <1>9, <1>10
     DEF AnyNext, AnyTrade, AnyAdmin, AnyWallet, marketVars, CancelListing,
         WithdrawTreasury, WalletPays, WalletGivesCard

\* The parts of the invariant are preserved together: each needs the types, and
\* initialize needs Unopened.
LEMMA StepMarketInv == MarketInv /\ [AnyNext]_marketVars => MarketInv'
<1>1. MarketInv => MarketTypeOK
  BY DEF MarketInv
<1> QED
  BY <1>1, StepTypeOK, StepPoolSolvent, StepEscrow, StepRecords, StepOpenOnlyWithFloor
     DEF MarketInv

\* The inductive invariant of the market holds in every reachable state.
LEMMA AnyMarketInvariant == AnySpec => []MarketInv
<1> QED
  BY InitMarketInv, StepMarketInv, PTL DEF AnySpec

\* So it does for the inputs of the runs.
LEMMA MarketInvariant == MarketSpec => []MarketInv
<1> QED
  BY AnyMarketInvariant, MarketIsAny, PTL

\* The pool's books are right and the vault covers them, after any sequence
\* of instructions and wallet transfers.
THEOREM PoolIsSolvent == MarketSpec => []PoolSolvent
<1>1. MarketInv => PoolSolvent
  BY DEF MarketInv
<1> QED
  BY <1>1, MarketInvariant, PTL

\* The card of an open listing is in escrow.
THEOREM ListingsAreBacked == MarketSpec => []ListedIsEscrowed
<1>1. MarketInv => ListedIsEscrowed
  BY DEF MarketInv
<1> QED
  BY <1>1, MarketInvariant, PTL

\* total_cards_minted is the number of cards with a record.
THEOREM MintCountIsExact == MarketSpec => []MintedMatchesRecords
<1>1. MarketInv => MintedMatchesRecords
  BY DEF MarketInv
<1> QED
  BY <1>1, MarketInvariant, PTL

\* Instant sell is never open without a floor.
THEOREM NeverOpenWithoutFloor == MarketSpec => []OpenOnlyWithFloor
<1>1. MarketInv => OpenOnlyWithFloor
  BY DEF MarketInv
<1> QED
  BY <1>1, MarketInvariant, PTL

-----------------------------------------------------------------------------
\* A credit that reaches the vault is a deposit, or nothing if it is zero.
LEMMA CreditIsDeposit ==
    ASSUME MarketInv, NEW n \in Nat, CanCredit(n), pool' = Credited(n),
           lamports'[Vault] = lamports[Vault] + n
    PROVE  [Fund!FundNext]_(Fund!fundVars)
<1>1. /\ pool \in PoolType /\ lamports[Vault] \in Nat
      /\ pool.total_lamports \in Nat /\ pool.lifetime_in \in Nat
  BY UnitsAssumption DEF MarketInv, MarketTypeOK, PoolType, Accounts
<1>2. /\ pool'.total_lamports = pool.total_lamports + n
      /\ pool'.lifetime_in = pool.lifetime_in + n
      /\ pool'.lifetime_out = pool.lifetime_out
  BY <1>1, CreditLemma
<1>3. CASE n = 0
  BY <1>1, <1>2, <1>3 DEF Fund!fundVars
<1>4. CASE n > 0
  <2>1. Fund!Deposit
    BY <1>1, <1>2, <1>4 DEF Fund!Deposit
  <2> QED
    BY <2>1 DEF Fund!FundNext
<1> QED
  BY <1>3, <1>4

\* SOL that reaches the vault with the books unchanged is a gift, or nothing.
LEMMA ArrivalIsGift ==
    ASSUME MarketInv, lamports'[Vault] \in Nat, lamports'[Vault] >= lamports[Vault],
           pool'.total_lamports = pool.total_lamports,
           pool'.lifetime_in = pool.lifetime_in,
           pool'.lifetime_out = pool.lifetime_out
    PROVE  [Fund!FundNext]_(Fund!fundVars)
<1>1. lamports[Vault] \in Nat
  BY DEF MarketInv, MarketTypeOK, Accounts
<1> QED
  BY <1>1 DEF Fund!FundNext, Fund!Gift, Fund!fundVars

\* Every step of the market is a deposit, a gift or a payment of the fund, or
\* leaves the fund alone.
LEMMA FundStep == MarketInv /\ [AnyNext]_marketVars => [Fund!FundNext]_(Fund!fundVars)
<1> SUFFICES ASSUME MarketInv, [AnyNext]_marketVars
             PROVE  [Fund!FundNext]_(Fund!fundVars)
  OBVIOUS
<1>0. MarketTypeOK /\ pool \in PoolType /\ lamports[Vault] \in Nat
  BY DEF MarketInv, MarketTypeOK, Accounts
<1>1. ASSUME NEW u \in Deployers, NEW feeBps \in Nat, NEW fee \in 0 .. MaxU64,
             MarketInitialize(u, feeBps, fee)
      PROVE  [Fund!FundNext]_(Fund!fundVars)
  <2>1. pool = NewPool
    BY <1>1 DEF MarketInv, Unopened, MarketInitialize, Initialize
  <2>2. pool' = NewPool /\ lamports' = lamports
    BY <1>1 DEF MarketInitialize
  <2> QED
    BY <2>1, <2>2 DEF Fund!fundVars
<1>2. ASSUME NEW u \in Users, NEW c \in Cards, NEW tier \in Nat, MintCard(u, c, tier)
      PROVE  [Fund!FundNext]_(Fund!fundVars)
  <2>1. CanCredit(MintPoolCut(tier))
    BY <1>2 DEF MintCard
  <2> QED
    BY <1>0, <1>2, <2>1, MintEffect, MarketAssumption, CreditIsDeposit
<1>3. ASSUME NEW u \in Users, NEW c \in Cards, NEW price \in 0 .. MaxU64, ListCard(u, c, price)
      PROVE  [Fund!FundNext]_(Fund!fundVars)
  <2>1. CanCredit(config.listing_fee) /\ price \in Nat
    BY <1>3, MarketAssumption, UnitsAssumption DEF ListCard
  <2> QED
    BY <1>0, <1>3, <2>1, ListEffect, CreditIsDeposit
<1>4. ASSUME NEW u \in Users, NEW c \in Cards, BuyCard(u, c)
      PROVE  [Fund!FundNext]_(Fund!fundVars)
  <2>1. CanCredit(PoolCut(listing[c].price, config.market_fee_bps))
    BY <1>4 DEF BuyCard
  <2> QED
    BY <1>0, <1>4, <2>1, BuyEffect, CreditIsDeposit
<1>5. ASSUME NEW u \in Users, NEW c \in Cards, InstantSell(u, c)
      PROVE  [Fund!FundNext]_(Fund!fundVars)
  <2> DEFINE n == Payout(pool.floor_price)
  <2>1. /\ n \in Nat /\ n <= pool.total_lamports
        /\ lamports'[Vault] = lamports[Vault] - n
        /\ pool'.total_lamports = pool.total_lamports - n
        /\ pool'.lifetime_in = pool.lifetime_in
        /\ pool'.lifetime_out = pool.lifetime_out + n
    BY <1>0, <1>5, SellEffect
  <2>2. pool.total_lamports \in Nat /\ pool.lifetime_out \in Nat
    BY <1>0, UnitsAssumption DEF PoolType
  <2> HIDE DEF n
  <2>3. CASE n = 0
    BY <1>0, <2>1, <2>2, <2>3 DEF Fund!fundVars
  <2>4. CASE n > 0
    <3>1. Fund!Pay
      BY <1>0, <2>1, <2>2, <2>4 DEF Fund!Pay
    <3> QED
      BY <3>1 DEF Fund!FundNext
  <2> QED
    BY <2>1, <2>3, <2>4
<1>6. ASSUME NEW u \in Users, NEW floor \in 0 .. MaxU64, UpdateFloor(u, floor)
      PROVE  [Fund!FundNext]_(Fund!fundVars)
  <2>1. lamports' = lamports
    BY <1>6 DEF UpdateFloor
  <2> QED
    BY <1>0, <1>6, <2>1, UpdateFloorPool DEF Fund!fundVars
<1>7. ASSUME NEW u \in Users, NEW enabled \in BOOLEAN, SetInstantSell(u, enabled)
      PROVE  [Fund!FundNext]_(Fund!fundVars)
  <2>1. lamports' = lamports
    BY <1>7 DEF SetInstantSell
  <2> QED
    BY <1>0, <1>7, <2>1, SetInstantSellPool DEF Fund!fundVars
<1>8. ASSUME NEW u \in Users, NEW amount \in Nat, WithdrawTreasury(u, amount)
      PROVE  [Fund!FundNext]_(Fund!fundVars)
  <2>1. amount \in Nat /\ Treasury \in Accounts /\ Treasury # Vault /\ u \in Accounts
    BY MarketAssumption, AccountsAssumption DEF Accounts
  <2>2. lamports' \in [Accounts -> Nat] /\ lamports'[Vault] >= lamports[Vault]
    BY <1>0, <1>8, <2>1, PaymentEffect DEF WithdrawTreasury
  <2>3. pool' = pool /\ lamports'[Vault] \in Nat
    BY <1>8, <2>2 DEF WithdrawTreasury, Accounts
  <2> QED
    BY <2>2, <2>3, ArrivalIsGift
<1>9. ASSUME NEW u \in Users, NEW to \in Accounts, NEW amount \in Nat,
             WalletPays(u, to, amount)
      PROVE  [Fund!FundNext]_(Fund!fundVars)
  <2>1. amount \in Nat /\ u \in Accounts /\ u # Vault
    BY MarketAssumption, AccountsAssumption DEF Accounts
  <2>2. lamports' \in [Accounts -> Nat] /\ lamports'[Vault] >= lamports[Vault]
    BY <1>0, <1>9, <2>1, PaymentEffect DEF WalletPays
  <2>3. pool' = pool /\ lamports'[Vault] \in Nat
    BY <1>9, <2>2 DEF WalletPays, Accounts
  <2> QED
    BY <2>2, <2>3, ArrivalIsGift
<1>10. CASE UNCHANGED <<pool, lamports>>
  BY <1>10 DEF Fund!fundVars
<1> QED
  BY <1>1, <1>2, <1>3, <1>4, <1>5, <1>6, <1>7, <1>8, <1>9, <1>10
     DEF AnyNext, AnyTrade, AnyAdmin, AnyWallet, marketVars,
         CancelListing, MarketSetPause, WalletGivesCard

\* The pool and its vault are a fund, whatever the inputs.
LEMMA AnyPoolIsAFund == AnySpec => FundSpec
<1>1. MarketInit => Fund!FundInit
  <2> SUFFICES ASSUME MarketInit PROVE Fund!FundInit
    OBVIOUS
  <2>1. lamports[Vault] \in Nat
    BY InitTypeOK DEF MarketTypeOK, Accounts
  <2> QED
    BY <2>1 DEF MarketInit, NewPool, Fund!FundInit
<1> QED
  BY <1>1, FundStep, AnyMarketInvariant, PTL DEF AnySpec, FundSpec, Fund!FundSpec

\* The pool and its vault are a fund whose books never run ahead of its cash.
THEOREM PoolIsAFund == MarketSpec => FundSpec
<1> QED
  BY AnyPoolIsAFund, MarketIsAny, PTL

-----------------------------------------------------------------------------
\* The owner and the offers the mapping gives the abstract specification.
OwnerOf == [c \in Cards |-> IF listing[c] # NoListing
                            THEN listing[c].seller ELSE holder[c]]
Offered == {c \in Cards : listing[c] # NoListing}

\* A seller who does not buy the card back is richer after the sale.
LEMMA SaleEnriches ==
    ASSUME MarketTypeOK, NEW u \in Users, NEW c \in Cards, BuyCard(u, c),
           listing[c].seller # u
    PROVE  lamports'[listing[c].seller] > lamports[listing[c].seller]
<1> DEFINE seller == listing[c].seller
           p      == listing[c].price
           bps    == config.market_fee_bps
           net    == SellerNet(p, bps)
           burn   == BurnCut(p, bps)
<1>1. listing[c] # NoListing
  BY DEF BuyCard
<1>2. listing[c] \in ListingType
  BY <1>1 DEF MarketTypeOK
<1>3. p \in Nat \ {0}
  BY <1>2, UnitsAssumption DEF ListingType
<1>4. seller \in Users /\ bps \in 0 .. MAX_MARKET_FEE_BPS /\ net \in Nat /\ burn \in Nat
  BY <1>1, ListedPrice
<1>5. net > 0
  BY <1>3, <1>4, SellerIsPaid
<1>6. /\ seller \in Accounts /\ seller # Vault
      /\ lamports[seller] \in Nat /\ lamports'[seller] \in Nat
  BY <1>4, AccountsAssumption, BuyEffect DEF Accounts, MarketTypeOK
<1>7. lamports'[seller] - lamports[seller] =
          If(seller = seller, net) + If(seller = Vault, PoolCut(p, bps))
            + If(seller = Treasury, burn) - If(seller = u, p)
  BY <1>6, BuyEffect
<1>8. lamports'[seller] - lamports[seller] = net + If(seller = Treasury, burn)
  <2> HIDE DEF net, burn, seller, p, bps
  <2>1. seller # u
    BY DEF seller
  <2>2. If(seller = Treasury, burn) \in Nat
    BY <1>4 DEF If
  <2> QED
    BY <1>4, <1>6, <1>7, <2>1, <2>2 DEF If
<1> HIDE DEF net, burn, seller, p, bps
<1>9. lamports'[seller] > lamports[seller]
  BY <1>4, <1>5, <1>6, <1>8 DEF If
<1> QED
  BY <1>9 DEF seller

\* Every step of the market offers, withdraws, sells or hands over one card, or
\* leaves custody alone.
LEMMA CustodyStep == MarketInv /\ [AnyNext]_marketVars => [Custody!CustodyNext]_(Custody!custodyVars)
<1> SUFFICES ASSUME MarketInv, [AnyNext]_marketVars
             PROVE  [Custody!CustodyNext]_(Custody!custodyVars)
  OBVIOUS
<1>0. /\ ListedIsEscrowed
      /\ holder \in [Cards -> Holders] /\ listing \in [Cards -> ListingType \cup {NoListing}]
      /\ Escrow \notin Users \cup {Vault} /\ Vault \notin Users
      /\ NoListing \notin ListingType
  BY MarketAssumption, AccountsAssumption DEF MarketInv, MarketTypeOK
<1>1. ASSUME NEW u \in Users, NEW c \in Cards, NEW price \in 0 .. MaxU64, ListCard(u, c, price)
      PROVE  Custody!CustodyNext
  <2>1. price \in 1 .. MaxU64
    BY <1>1, MarketAssumption, UnitsAssumption DEF ListCard
  <2>2. [seller |-> u, price |-> price] \in ListingType
    BY <2>1 DEF ListingType
  <2>3. /\ listing[c] = NoListing /\ holder[c] = u
        /\ listing' = [listing EXCEPT ![c] = [seller |-> u, price |-> price]]
        /\ holder' = [holder EXCEPT ![c] = Escrow]
    BY <1>1 DEF ListCard
  <2>4. c \notin Offered /\ OwnerOf[c] \notin {Vault, Escrow}
    BY <1>0, <2>3 DEF Offered, OwnerOf
  <2>5. Offered' = Offered \cup {c}
    BY <1>0, <2>2, <2>3 DEF Offered
  <2>6. \A d \in Cards : OwnerOf'[d] = OwnerOf[d]
    BY <1>0, <2>2, <2>3 DEF OwnerOf
  <2>7. OwnerOf' = OwnerOf
    BY <2>6 DEF OwnerOf
  <2>8. Custody!Offer(c)
    BY <2>4, <2>5, <2>7 DEF Custody!Offer, Offered, OwnerOf
  <2> QED
    BY <2>8 DEF Custody!CustodyNext
<1>2. ASSUME NEW u \in Users, NEW c \in Cards, CancelListing(u, c)
      PROVE  Custody!CustodyNext
  <2>1. /\ listing[c] # NoListing /\ listing[c].seller = u
        /\ listing' = [listing EXCEPT ![c] = NoListing]
        /\ holder' = [holder EXCEPT ![c] = u]
        /\ UNCHANGED lamports
    BY <1>2 DEF CancelListing
  <2>2. c \in Offered /\ Offered' = Offered \ {c}
    BY <1>0, <2>1 DEF Offered
  <2>3. \A d \in Cards : OwnerOf'[d] = OwnerOf[d]
    BY <1>0, <2>1 DEF OwnerOf
  <2>4. OwnerOf' = OwnerOf
    BY <2>3 DEF OwnerOf
  <2>5. Custody!Withdraw(c)
    BY <2>1, <2>2, <2>4 DEF Custody!Withdraw, Offered, OwnerOf
  <2> QED
    BY <2>5 DEF Custody!CustodyNext
<1>3. ASSUME NEW u \in Users, NEW c \in Cards, BuyCard(u, c)
      PROVE  Custody!CustodyNext
  <2>1. /\ listing[c] # NoListing
        /\ listing' = [listing EXCEPT ![c] = NoListing]
        /\ holder' = [holder EXCEPT ![c] = u]
    BY <1>3 DEF BuyCard
  <2>2. c \in Offered /\ Offered' = Offered \ {c}
    BY <1>0, <2>1 DEF Offered
  <2>3. \A d \in Cards : OwnerOf'[d] = [OwnerOf EXCEPT ![c] = u][d]
    BY <1>0, <2>1 DEF OwnerOf
  <2>4. OwnerOf' = [OwnerOf EXCEPT ![c] = u]
    BY <2>3 DEF OwnerOf
  <2>5. OwnerOf[c] = listing[c].seller /\ listing[c].seller \in Users
    BY <1>0, <2>1, ListedPrice DEF MarketInv, OwnerOf
  <2>6. listing[c].seller # u => lamports'[listing[c].seller] > lamports[listing[c].seller]
    BY <1>3, <2>1, SaleEnriches DEF MarketInv
  <2>7. Custody!Sell(c, u)
    BY <2>2, <2>4, <2>5, <2>6 DEF Custody!Sell, Offered, OwnerOf
  <2> QED
    BY <2>7 DEF Custody!CustodyNext
<1>4. ASSUME NEW u \in Users, NEW to \in Holders, NEW c \in Cards,
             holder[c] = u, holder' = [holder EXCEPT ![c] = to], listing' = listing
      PROVE  Custody!CustodyNext
  <2>1. c \notin Offered /\ OwnerOf[c] \notin {Vault, Escrow} /\ Offered' = Offered
    BY <1>0, <1>4 DEF ListedIsEscrowed, Offered, OwnerOf
  <2>2. \A d \in Cards : OwnerOf'[d] = [OwnerOf EXCEPT ![c] = to][d]
    BY <1>0, <1>4 DEF ListedIsEscrowed, OwnerOf
  <2>3. OwnerOf' = [OwnerOf EXCEPT ![c] = to]
    BY <2>2 DEF OwnerOf
  <2>4. Custody!HandOver(c, to)
    BY <2>1, <2>3 DEF Custody!HandOver, Offered, OwnerOf
  <2> QED
    BY <2>4 DEF Custody!CustodyNext, Holders
<1>5. ASSUME NEW u \in Users, NEW c \in Cards, InstantSell(u, c)
      PROVE  Custody!CustodyNext
  BY <1>4, <1>5 DEF InstantSell, Holders
<1>6. ASSUME NEW u \in Users, NEW to \in Holders, NEW c \in Cards,
             WalletGivesCard(u, to, c)
      PROVE  Custody!CustodyNext
  BY <1>4, <1>6 DEF WalletGivesCard
<1>7. CASE UNCHANGED <<holder, listing>>
  BY <1>7 DEF Custody!CustodyNext, Custody!Pay
<1> QED
  BY <1>1, <1>2, <1>3, <1>5, <1>6, <1>7
     DEF AnyNext, AnyTrade, AnyAdmin, AnyWallet, marketVars, MarketInitialize,
         MintCard, UpdateFloor, SetInstantSell, WithdrawTreasury, MarketSetPause, WalletPays

\* The market keeps custody of the cards, whatever the inputs.
LEMMA AnyMarketKeepsCustody == AnySpec => CustodySpec
<1>1. MarketInit => Custody!CustodyInit
  BY MarketAssumption DEF MarketInit, Custody!CustodyInit
<1> QED
  BY <1>1, CustodyStep, AnyMarketInvariant, PTL DEF AnySpec, CustodySpec, Custody!CustodySpec

\* A card on sale is still its seller's until the listing is bought, and a
\* card of the vault stays there.
THEOREM MarketKeepsCustody == MarketSpec => CustodySpec
<1> QED
  BY AnyMarketKeepsCustody, MarketIsAny, PTL

-----------------------------------------------------------------------------
\* A listing that closes was cancelled, with no SOL moved, or sold, with
\* every account's balance changed by exactly its share of the price.
ClosesExactly(c) ==
    listing[c] # NoListing /\ listing'[c] = NoListing =>
        \/ holder'[c] = listing[c].seller /\ UNCHANGED <<lamports, pool>>
        \/ \E b \in Users : SoldExactly(c, b)

\* Of the instructions only cancel_listing and buy_card close a listing.
LEMMA CloseStep ==
    ASSUME MarketInv, [AnyNext]_marketVars, NEW c \in Cards
    PROVE  ClosesExactly(c)
<1> USE DEF ClosesExactly
<1>0. /\ MarketTypeOK /\ NoListing \notin ListingType
      /\ holder \in [Cards -> Holders]
      /\ listing \in [Cards -> ListingType \cup {NoListing}]
  BY MarketAssumption DEF MarketInv, MarketTypeOK
<1>1. ASSUME NEW u \in Users, NEW d \in Cards, NEW price \in 0 .. MaxU64, ListCard(u, d, price)
      PROVE  ClosesExactly(c)
  <2>1. price \in 1 .. MaxU64
    BY <1>1, MarketAssumption, UnitsAssumption DEF ListCard
  <2>2. [seller |-> u, price |-> price] \in ListingType
    BY <2>1 DEF ListingType
  <2> QED
    BY <1>0, <1>1, <2>2 DEF ListCard
<1>2. ASSUME NEW u \in Users, NEW d \in Cards, CancelListing(u, d)
      PROVE  ClosesExactly(c)
  BY <1>0, <1>2 DEF CancelListing
<1>3. ASSUME NEW u \in Users, NEW d \in Cards, BuyCard(u, d)
      PROVE  ClosesExactly(c)
  <2>1. CASE c # d
    BY <1>0, <1>3, <2>1 DEF BuyCard
  <2>2. CASE c = d
    <3>1. holder'[c] = u
      BY <1>0, <1>3, <2>2 DEF BuyCard
    <3>2. pool.lifetime_in \in Nat
      BY <1>0, UnitsAssumption DEF MarketTypeOK, PoolType
    <3>3. CanCredit(PoolCut(listing[c].price, config.market_fee_bps))
      BY <1>3, <2>2 DEF BuyCard
    <3>4. pool'.lifetime_in = pool.lifetime_in
                                + PoolCut(listing[c].price, config.market_fee_bps)
      BY <1>0, <1>3, <2>2, <3>3, BuyEffect, CreditLemma DEF MarketTypeOK
    <3>5. SoldExactly(c, u)
      BY <1>0, <1>3, <2>2, <3>1, <3>2, <3>4, BuyEffect DEF SoldExactly
    <3> QED
      BY <3>5
  <2> QED
    BY <2>1, <2>2
<1>4. CASE UNCHANGED listing
  BY <1>4
<1> QED
  BY <1>1, <1>2, <1>3, <1>4
     DEF AnyNext, AnyTrade, AnyAdmin, AnyWallet, marketVars, MarketInitialize,
         MintCard, InstantSell, UpdateFloor, SetInstantSell, WithdrawTreasury,
         MarketSetPause, WalletPays, WalletGivesCard

\* Every listing that closes, closes in one of the two ways.
LEMMA AnyListingClosesExactly == AnySpec => ListingClosesExactly
<1>1. MarketInv /\ [AnyNext]_marketVars => [\A c \in Cards : ClosesExactly(c)]_marketVars
  BY CloseStep
<1> QED
  BY <1>1, AnyMarketInvariant, PTL DEF AnySpec, ListingClosesExactly, ClosesExactly

\* Every listing of the market that closes, closes in one of the two ways.
THEOREM ListingsCloseExactly == MarketSpec => ListingClosesExactly
<1> QED
  BY AnyListingClosesExactly, MarketIsAny, PTL

\* The pool pays only for a card that reaches the vault, to the wallet that
\* gave it, and at most half the floor.
THEOREM PayoutsBuyCards == MarketSpec => EveryPayoutBuysACard
<1> DEFINE paid == pool'.lifetime_out - pool.lifetime_out
           Bought == paid > 0 => \E u \in Users, c \in Cards :
                        /\ holder[c] = u /\ holder'[c] = Vault
                        /\ lamports'[u] - lamports[u] = paid
                        /\ 2 * paid <= pool.floor_price
<1>1. ASSUME MarketInv, [AnyNext]_marketVars
      PROVE  Bought
  <2>0. /\ MarketTypeOK /\ pool \in PoolType /\ pool.lifetime_out \in Nat
        /\ holder \in [Cards -> Holders] /\ lamports \in [Accounts -> Nat]
    BY <1>1, UnitsAssumption DEF MarketInv, MarketTypeOK, PoolType
  <2>1. ASSUME pool'.lifetime_out = pool.lifetime_out
        PROVE  Bought
    BY <2>0, <2>1
  <2>2. ASSUME NEW n \in Nat, CanCredit(n), pool' = Credited(n)
        PROVE  Bought
    BY <2>0, <2>1, <2>2, CreditLemma
  <2>3. ASSUME NEW u \in Deployers, NEW feeBps \in Nat, NEW fee \in 0 .. MaxU64,
               MarketInitialize(u, feeBps, fee)
        PROVE  Bought
    BY <2>0, <2>3 DEF MarketInitialize, NewPool
  <2>4. ASSUME NEW u \in Users, NEW c \in Cards, NEW tier \in Nat, MintCard(u, c, tier)
        PROVE  Bought
    <3>1. MintPoolCut(tier) \in Nat
      BY <2>0, <2>4, MintEffect, MarketAssumption
    <3> QED
      BY <2>2, <2>4, <3>1 DEF MintCard
  <2>5. ASSUME NEW u \in Users, NEW c \in Cards, NEW price \in 0 .. MaxU64, ListCard(u, c, price)
        PROVE  Bought
    <3>1. config.listing_fee \in Nat
      BY <2>0, UnitsAssumption DEF MarketTypeOK, ConfigType
    <3> QED
      BY <2>2, <2>5, <3>1 DEF ListCard
  <2>6. ASSUME NEW u \in Users, NEW c \in Cards, BuyCard(u, c)
        PROVE  Bought
    <3>1. PoolCut(listing[c].price, config.market_fee_bps) \in Nat
      BY <2>0, <2>6, BuyEffect
    <3> QED
      BY <2>2, <2>6, <3>1 DEF BuyCard
  <2>7. ASSUME NEW u \in Users, NEW c \in Cards, InstantSell(u, c)
        PROVE  Bought
    <3>1. holder[c] = u /\ holder'[c] = Vault
      BY <2>0, <2>7 DEF InstantSell
    <3>2. /\ Payout(pool.floor_price) \in Nat
          /\ 2 * Payout(pool.floor_price) <= pool.floor_price
          /\ lamports'[u] = lamports[u] + Payout(pool.floor_price)
          /\ pool'.lifetime_out = pool.lifetime_out + Payout(pool.floor_price)
      BY <2>0, <2>7, SellEffect
    <3>3. paid = Payout(pool.floor_price)
      BY <2>0, <3>2
    <3>4. lamports[u] \in Nat
      BY <2>0 DEF Accounts
    <3> QED
      BY <3>1, <3>2, <3>3, <3>4
  <2>8. ASSUME NEW u \in Users, NEW floor \in 0 .. MaxU64, UpdateFloor(u, floor)
        PROVE  Bought
    BY <2>0, <2>1, <2>8, UpdateFloorPool
  <2>9. ASSUME NEW u \in Users, NEW enabled \in BOOLEAN, SetInstantSell(u, enabled)
        PROVE  Bought
    BY <2>0, <2>1, <2>9, SetInstantSellPool
  <2>10. CASE UNCHANGED pool
    BY <2>1, <2>10
  <2> QED
    BY <1>1, <2>3, <2>4, <2>5, <2>6, <2>7, <2>8, <2>9, <2>10
       DEF AnyNext, AnyTrade, AnyAdmin, AnyWallet, marketVars, CancelListing,
           WithdrawTreasury, MarketSetPause, WalletPays, WalletGivesCard
<1>2. MarketInv /\ [AnyNext]_marketVars => [Bought]_marketVars
  BY <1>1
<1> QED
  BY <1>2, MarketInvariant, NextIsAny, PTL DEF MarketSpec, EveryPayoutBuysACard
=============================================================================
