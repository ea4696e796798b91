------------------------------ MODULE Economy ------------------------------
(***************************************************************************)
(* The fixed parameters of the on-chain program and its integer fee math   *)
(* (programs/pokeage/src/constants.rs, instructions/shared.rs).            *)
(*                                                                         *)
(* PageUnit is one whole $PAGE (10^6 base units in the code), MilliSol one *)
(* thousandth of a SOL (10^6 lamports).  A small instance may scale both   *)
(* down; the proofs hold for every value.  MaxU64 and MaxU32 are the       *)
(* widths of the counters: every checked_add of the code is a guard        *)
(* "sum <= MaxU64" of the model, since a failed instruction changes        *)
(* nothing.                                                                *)
(*                                                                         *)
(* In every module of the project an operator named Mut... is a mutated    *)
(* form of the one defined after it.  No specification uses it: a run with *)
(* it in place of the original shows that a property would notice.         *)
(***************************************************************************)
EXTENDS Integers

CONSTANTS PageUnit, MilliSol, MaxU64, MaxU32

ASSUME UnitsAssumption ==
    /\ PageUnit \in Nat \ {0}
    /\ MilliSol \in Nat \ {0}
    /\ MaxU64 \in Nat \ {0}
    /\ MaxU32 \in Nat \ {0}

BPS_DENOM == 10000

\* Shares, in basis points.
BURN_BPS         == 7000
POOL_BPS         == 3000
POOL_SHARE_BPS   == 6000
INSTANT_SELL_BPS == 5000
MINT_POOL_BPS    == 5000
MAX_MARKET_FEE_BPS == 2000

\* $PAGE sink costs.
DEPLOY_COST       == 1000 * PageUnit
GYM_COST          == 50 * PageUnit
FORCE_EVOLVE_COST == 75000 * PageUnit

BADGE_COUNT == 12
Badges      == 0 .. BADGE_COUNT - 1

\* Rarity codes 0..2 (normal, rare, legendary); any other code is rejected.
Rarities == 0 .. 2
CatchCostForRarity(rarity) ==
    CASE rarity = 0 -> 10 * PageUnit
      [] rarity = 1 -> 100 * PageUnit
      [] rarity = 2 -> 1000 * PageUnit

\* Card tiers 0..5 (common .. secret); any other code is rejected.
MAX_TIER == 5
Tiers    == 0 .. MAX_TIER
MintFeeForTier(tier) ==
    CASE tier = 0 -> MilliSol
      [] tier = 1 -> 3 * MilliSol
      [] tier = 2 -> 10 * MilliSol
      [] tier = 3 -> 50 * MilliSol
      [] tier = 4 -> 200 * MilliSol
      [] tier = 5 -> 1000 * MilliSol

(***************************************************************************)
(* amount * bps / 10000 in 128 bits, rounded down.  The narrowing back to  *)
(* 64 bits fails only above MaxU64, which no share of at most 10000 basis  *)
(* points reaches (lemma BpsOfBound of MarketProofs); every caller's is.   *)
(***************************************************************************)
BpsOf(amount, bps) == (amount * bps) \div BPS_DENOM

\* 70 percent of a sink is burned and the pool takes the remainder.  The
\* burn_bps and pool_bps an operator stores in the config are not read.
ComputeSplit(total) ==
    [burned |-> BpsOf(total, BURN_BPS), toPool |-> total - BpsOf(total, BURN_BPS)]

\* A market fee on a price: the pool's share of the fee, the remainder kept
\* for the later token buy-and-burn, and what the seller receives.
MarketFee(price, feeBps) == BpsOf(price, feeBps)
PoolCut(price, feeBps)   == BpsOf(MarketFee(price, feeBps), POOL_SHARE_BPS)
MutBurnCut(price, feeBps) == BpsOf(MarketFee(price, feeBps), BPS_DENOM - POOL_SHARE_BPS)
BurnCut(price, feeBps)   == MarketFee(price, feeBps) - PoolCut(price, feeBps)
SellerNet(price, feeBps) == price - MarketFee(price, feeBps)

\* A mint fee goes half to the pool, the remainder to the treasury.
MintPoolCut(tier)     == BpsOf(MintFeeForTier(tier), MINT_POOL_BPS)
MintTreasuryCut(tier) == MintFeeForTier(tier) - MintPoolCut(tier)

\* What the pool pays for a card at a given floor price.
MutPayout(floor) == floor - BpsOf(floor, BPS_DENOM - INSTANT_SELL_BPS)
Payout(floor) == BpsOf(floor, INSTANT_SELL_BPS)
=============================================================================
