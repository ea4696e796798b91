--------------------------- MODULE ProgramConfig ---------------------------
(***************************************************************************)
(* The program's Config account: created once by initialize, its pause     *)
(* byte overwritten by set_pause (state/config.rs, instructions/           *)
(* initialize.rs, instructions/admin.rs).  The two running totals of the   *)
(* account belong to the modules that count them (totalBurned in           *)
(* SinkProgram, totalCardsMinted in MarketProgram).                        *)
(*                                                                         *)
(* A Solana instruction is atomic: an error or a failed token or system    *)
(* call reverts all of it.  So each instruction is one action whose guard  *)
(* holds exactly when the whole instruction succeeds.                      *)
(***************************************************************************)
EXTENDS Economy

CONSTANTS
    Users,       \* wallets that sign transactions
    Deployers,   \* those that may be first to call initialize
    Vault,       \* config.buyback_vault, the lamport home of the pool
    Treasury     \* config.treasury

(***************************************************************************)
(* initialize stores whatever accounts it is given.  A sound deployment    *)
(* passes a vault that is no wallet and not the treasury; the treasury may *)
(* be a wallet.                                                            *)
(***************************************************************************)
ASSUME AccountsAssumption ==
    /\ Vault \notin Users \cup {Treasury}
    /\ Deployers \subseteq Users

VARIABLE config

\* The four pause bits.
PAUSE_CATCH        == "catch"
PAUSE_MINT         == "mint"
PAUSE_MARKET       == "market"
PAUSE_INSTANT_SELL == "instant_sell"
PauseFlags == {PAUSE_CATCH, PAUSE_MINT, PAUSE_MARKET, PAUSE_INSTANT_SELL}

ConfigType ==
    [initialized    : BOOLEAN,
     authority      : Users,
     burn_bps       : 0 .. BPS_DENOM,
     market_fee_bps : 0 .. MAX_MARKET_FEE_BPS,
     listing_fee    : 0 .. MaxU64,
     paused         : SUBSET PauseFlags]

\* No account exists yet: only initialized is meaningful, the rest is zero.
ConfigInit ==
    \E u \in Deployers :
        config = [initialized |-> FALSE, authority |-> u, burn_bps |-> 0,
                  market_fee_bps |-> 0, listing_fee |-> 0, paused |-> {}]

IsPaused(flag) == flag \in config.paused

\* has_one = authority: the signer is the authority of the Config account.
IsAuthority(signer) == config.initialized /\ config.authority = signer

\* Without the init constraint.
MutInitialize(signer, burnBps, poolBps, marketFeeBps, listingFee) ==
    /\ burnBps + poolBps = BPS_DENOM
    /\ config' = [initialized |-> TRUE, authority |-> signer, burn_bps |-> burnBps,
                  market_fee_bps |-> marketFeeBps, listing_fee |-> listingFee,
                  paused |-> {}]

\* The init constraint on the config PDA lets this succeed once.
\* poolBps is stored too; it is what burnBps leaves.
Initialize(signer, burnBps, poolBps, marketFeeBps, listingFee) ==
    /\ ~config.initialized
    /\ burnBps + poolBps = BPS_DENOM
    /\ marketFeeBps <= MAX_MARKET_FEE_BPS
    /\ config' = [initialized    |-> TRUE,
                  authority      |-> signer,
                  burn_bps       |-> burnBps,
                  market_fee_bps |-> marketFeeBps,
                  listing_fee    |-> listingFee,
                  paused         |-> {}]

\* Overwrites the whole byte.  There is no per-flag set or clear.
SetPause(signer, flags) ==
    /\ IsAuthority(signer)
    /\ config' = [config EXCEPT !.paused = flags]
=============================================================================
