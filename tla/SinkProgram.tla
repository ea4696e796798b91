---------------------------- MODULE SinkProgram ----------------------------
(***************************************************************************)
(* The $PAGE sinks of the program: deploy_agent, catch_attempt,            *)
(* gym_challenge and force_evolve.  Each takes a fee from the player's     *)
(* token account, burns 70 percent of it and moves the remainder to a pool *)
(* token account, and records progress in the player's PlayerState.        *)
(*                                                                         *)
(* The $PAGE mint and its token accounts belong to the token program.      *)
(* They are modelled from how the instructions use them, together with     *)
(* what a wallet may do without this program: transfer and burn its own    *)
(* tokens.  Timestamps, bumps, rent and events are left out.               *)
(***************************************************************************)
EXTENDS ProgramConfig, FiniteSets, Functions

CONSTANTS
    PoolTokens,       \* $PAGE token accounts that are no player's
    InitialPage,      \* what each token account holds at the start
    SplitChoices,     \* burn_bps values passed to initialize
    PauseChoices,     \* flag sets passed to set_pause
    RarityChoices,    \* rarity codes passed to catch_attempt
    BadgeChoices,     \* badge indexes passed to gym_challenge
    MaxCaught,        \* bound of total_caught: MaxU64 in the code
    WalletAmounts     \* amounts moved or burned outside the program

TokenAccounts == Users \cup PoolTokens

InitialSupply == SumFunction(InitialPage)

ASSUME SinkAssumption ==
    /\ IsFiniteSet(TokenAccounts)
    /\ InitialPage \in [TokenAccounts -> Nat]
    /\ SplitChoices \subseteq 0 .. BPS_DENOM
    /\ PauseChoices \subseteq SUBSET PauseFlags
    /\ RarityChoices \subseteq Nat
    /\ BadgeChoices \subseteq Nat
    /\ MaxCaught \in Nat
    /\ WalletAmounts \subseteq Nat

VARIABLES
    player,           \* PlayerState of each user
    page,             \* balance of each $PAGE token account
    supply,           \* supply field of the $PAGE mint
    total_burned      \* config.total_burned

sinkVars == <<config, player, page, supply, total_burned>>

PlayerType ==
    [agent_deployed : BOOLEAN,
     total_caught   : 0 .. MaxCaught,
     gym_wins       : 0 .. MaxU32,
     badges         : SUBSET Badges]

\* Widths and ranges of every account field the sinks keep.
SinkTypeOK ==
    /\ config \in ConfigType
    /\ player \in [Users -> PlayerType]
    /\ page \in [TokenAccounts -> Nat]
    /\ supply \in Int
    /\ total_burned \in 0 .. MaxU64

NewPlayer == [agent_deployed |-> FALSE, total_caught |-> 0,
              gym_wins |-> 0, badges |-> {}]

SinkInit ==
    /\ ConfigInit
    /\ player = [u \in Users |-> NewPlayer]
    /\ page = InitialPage
    /\ supply = InitialSupply
    /\ total_burned = 0

(***************************************************************************)
(* The part every sink instruction shares.  The burn lowers balance and    *)
(* supply, the remainder goes to the token account dest, which may be any  *)
(* account of the $PAGE mint, the payer's own included; the running total  *)
(* is checked for overflow.                                                *)
(***************************************************************************)
\* No sum is checked.
MutApplySinkUnchecked(u, dest, total) ==
    /\ page[u] >= total
    /\ page' = [[page EXCEPT ![u] = @ - total] EXCEPT ![dest] = @ + ComputeSplit(total).toPool]
    /\ supply' = supply - ComputeSplit(total).burned
    /\ total_burned' = total_burned + ComputeSplit(total).burned
    /\ UNCHANGED config

\* A failed token call is not an error.
MutApplySinkUnpaid(u, dest, total) ==
    UNCHANGED <<config, page, supply, total_burned>>

\* The pool's part is burned, the other recorded.
MutApplySinkSwapped(u, dest, total) ==
    LET split == ComputeSplit(total) IN
    /\ page[u] >= total
    /\ total_burned + split.burned <= MaxU64
    /\ page' = [[page EXCEPT ![u] = @ - total] EXCEPT ![dest] = @ + split.burned]
    /\ supply' = supply - split.toPool
    /\ total_burned' = total_burned + split.burned
    /\ UNCHANGED config

ApplySink(u, dest, total) ==
    LET split == ComputeSplit(total) IN
    /\ page[u] >= total
    /\ total_burned + split.burned <= MaxU64
    /\ page' = [[page EXCEPT ![u] = @ - total] EXCEPT ![dest] = @ + split.toPool]
    /\ supply' = supply - split.burned
    /\ total_burned' = total_burned + split.burned
    /\ UNCHANGED config

\* The account is initialized anew.
MutDeployAgent(u, dest) ==
    /\ config.initialized
    /\ player' = [player EXCEPT ![u] = [NewPlayer EXCEPT !.agent_deployed = TRUE]]
    /\ ApplySink(u, dest, DEPLOY_COST)

\* No pause bit covers this instruction.
DeployAgent(u, dest) ==
    /\ config.initialized
    /\ ~player[u].agent_deployed
    /\ player' = [player EXCEPT ![u].agent_deployed = TRUE]
    /\ ApplySink(u, dest, DEPLOY_COST)

CatchAttempt(u, dest, rarity) ==
    /\ ~IsPaused(PAUSE_CATCH)
    /\ player[u].agent_deployed
    /\ rarity \in Rarities
    /\ player[u].total_caught < MaxCaught
    /\ player' = [player EXCEPT ![u].total_caught = @ + 1]
    /\ ApplySink(u, dest, CatchCostForRarity(rarity))

\* No deployed agent is asked for.
MutGymChallenge(u, dest, badgeIndex) ==
    /\ badgeIndex < BADGE_COUNT
    /\ player[u].gym_wins < MaxU32
    /\ player' = [player EXCEPT ![u].badges = @ \cup {badgeIndex},
                                ![u].gym_wins = @ + 1]
    /\ ApplySink(u, dest, GYM_COST)

\* A badge may be challenged again: the bit stays set, the win is counted.
GymChallenge(u, dest, badgeIndex) ==
    /\ player[u].agent_deployed
    /\ badgeIndex < BADGE_COUNT
    /\ player[u].gym_wins < MaxU32
    /\ player' = [player EXCEPT ![u].badges = @ \cup {badgeIndex},
                                ![u].gym_wins = @ + 1]
    /\ ApplySink(u, dest, GYM_COST)

ForceEvolve(u, dest) ==
    /\ player[u].agent_deployed
    /\ ApplySink(u, dest, FORCE_EVOLVE_COST)
    /\ UNCHANGED player

\* initialize also zeroes the running totals of the new Config account.
SinkInitialize(signer, burnBps, poolBps) ==
    /\ Initialize(signer, burnBps, poolBps, MAX_MARKET_FEE_BPS, 0)
    /\ total_burned' = 0
    /\ UNCHANGED <<player, page, supply>>

SinkSetPause(signer, flags) ==
    /\ SetPause(signer, flags)
    /\ UNCHANGED <<player, page, supply, total_burned>>

\* Outside the program: an owner moves or burns tokens of its own account.
WalletTransfer(u, dest, amount) ==
    /\ page[u] >= amount
    /\ page' = [[page EXCEPT ![u] = @ - amount] EXCEPT ![dest] = @ + amount]
    /\ UNCHANGED <<config, player, supply, total_burned>>

WalletBurn(u, amount) ==
    /\ page[u] >= amount
    /\ page' = [page EXCEPT ![u] = @ - amount]
    /\ supply' = supply - amount
    /\ UNCHANGED <<config, player, total_burned>>

\* The instructions that charge a player.
ChargingStep ==
    \E u \in Users, dest \in TokenAccounts :
        \/ DeployAgent(u, dest)
        \/ \E rarity \in RarityChoices : CatchAttempt(u, dest, rarity)
        \/ \E b \in BadgeChoices : GymChallenge(u, dest, b)
        \/ ForceEvolve(u, dest)

SinkNext ==
    \/ ChargingStep
    \/ \E u \in Deployers, b \in SplitChoices : SinkInitialize(u, b, BPS_DENOM - b)
    \/ \E u \in Users :
        \/ \E flags \in PauseChoices : SinkSetPause(u, flags)
        \/ \E a \in WalletAmounts, dest \in TokenAccounts : WalletTransfer(u, dest, a)
        \/ \E a \in WalletAmounts : WalletBurn(u, a)

SinkSpec == SinkInit /\ [][SinkNext]_sinkVars

-----------------------------------------------------------------------------
(***************************************************************************)
(* Progress is paid for: the recorded burn covers, over all players, the   *)
(* burned part of the cheapest way to every deployment, gym win and catch. *)
(* The handlers write progress before they move any token (deploy_agent,   *)
(* catch_attempt, gym_challenge); this is what a charge that fails, is     *)
(* skipped or is recorded short would break, in any order of players.      *)
(***************************************************************************)
BurnedFor(total) == ComputeSplit(total).burned

ProgressBurn(p) ==
    (IF p.agent_deployed THEN BurnedFor(DEPLOY_COST) ELSE 0)
      + p.gym_wins * BurnedFor(GYM_COST)
      + p.total_caught * BurnedFor(CatchCostForRarity(0))

ProgressIsPaid ==
    SumFunction([u \in Users |-> ProgressBurn(player[u])]) <= total_burned

(***************************************************************************)
(* The published burn never exceeds what left circulation: total_burned is *)
(* at most the fall of the mint's supply (wallets may burn more).          *)
(***************************************************************************)
BurnNeverOverstated == total_burned + supply <= InitialSupply

(***************************************************************************)
(* The badge mask and the win counter of a PlayerState agree: a badge      *)
(* stands for a distinct win, a win left a badge, and neither they nor     *)
(* catches exist without a deployed agent (the PlayerState account is      *)
(* created by deploy_agent's init_if_needed, which may run again).         *)
(***************************************************************************)
BadgesBackedByWins ==
    \A u \in Users :
        /\ Cardinality(player[u].badges) <= player[u].gym_wins
        /\ player[u].gym_wins > 0 => player[u].badges # {}
        /\ player[u].gym_wins + player[u].total_caught > 0 => player[u].agent_deployed

(***************************************************************************)
(* Progress is permanent: no step of anyone resets a deployment, takes a   *)
(* badge, or lowers a counter, and the burn total only grows.              *)
(***************************************************************************)
NeverLoses(old, new) ==
    /\ old.agent_deployed => new.agent_deployed
    /\ old.badges \subseteq new.badges
    /\ old.gym_wins <= new.gym_wins
    /\ old.total_caught <= new.total_caught

ProgressIsPermanent ==
    [][ /\ \A u \in Users : NeverLoses(player[u], player'[u])
        /\ total_burned <= total_burned' ]_sinkVars
=============================================================================
