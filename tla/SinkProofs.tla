----------------------------- MODULE SinkProofs -----------------------------
(***************************************************************************)
(* Proofs about SinkProgram for every set of players and token accounts,   *)
(* every initial distribution of $PAGE and every width of the counters.    *)
(***************************************************************************)
EXTENDS SinkProgram, SumProofs, FiniteSetTheorems

\* A sink loses nothing to rounding: both parts are natural numbers and add
\* up to the fee (compute_split).
THEOREM SplitIsLossless ==
    ASSUME NEW total \in Nat
    PROVE  LET split == ComputeSplit(total) IN
           /\ split.burned \in Nat
           /\ split.toPool \in Nat
           /\ split.burned + split.toPool = total
<1>1. (total * 7000) \div 10000 \in 0 .. total
  OBVIOUS
<1> QED
  BY <1>1 DEF ComputeSplit, BpsOf, BURN_BPS, BPS_DENOM

\* The costs of the sinks are natural numbers.
LEMMA CostsAreNat ==
    /\ DEPLOY_COST \in Nat
    /\ GYM_COST \in Nat
    /\ FORCE_EVOLVE_COST \in Nat
    /\ \A rarity \in Rarities : CatchCostForRarity(rarity) \in Nat
  BY UnitsAssumption
     DEF DEPLOY_COST, GYM_COST, FORCE_EVOLVE_COST, CatchCostForRarity, Rarities

-----------------------------------------------------------------------------
\* What a charge does: balances stay balances, the burned part of the fee
\* leaves the supply and enters the total.
LEMMA SinkEffect ==
    ASSUME SinkTypeOK, NEW u \in Users, NEW dest \in TokenAccounts, NEW total \in Nat,
           ApplySink(u, dest, total)
    PROVE  /\ page' \in [TokenAccounts -> Nat]
           /\ BurnedFor(total) \in Nat
           /\ supply' = supply - BurnedFor(total)
           /\ supply' \in Int
           /\ total_burned' = total_burned + BurnedFor(total)
           /\ total_burned' \in 0 .. MaxU64
           /\ config' = config
<1> DEFINE burned == BurnedFor(total)
           toPool == ComputeSplit(total).toPool
           paid   == [page EXCEPT ![u] = @ - total]
<1>1. burned \in Nat /\ toPool \in Nat
  BY SplitIsLossless DEF BurnedFor
<1>2. /\ page[u] >= total
      /\ total_burned + burned <= MaxU64
      /\ page' = [paid EXCEPT ![dest] = @ + toPool]
      /\ supply' = supply - burned
      /\ total_burned' = total_burned + burned
      /\ config' = config
  BY DEF ApplySink, BurnedFor
<1> HIDE DEF burned, toPool
<1>3. paid \in [TokenAccounts -> Nat]
  BY <1>2 DEF SinkTypeOK, TokenAccounts
<1> HIDE DEF paid
<1>4. page' \in [TokenAccounts -> Nat]
  BY <1>1, <1>2, <1>3
<1>5. supply' \in Int /\ total_burned' \in 0 .. MaxU64
  BY <1>1, <1>2, UnitsAssumption DEF SinkTypeOK
<1> QED
  BY <1>1, <1>2, <1>4, <1>5 DEF burned

\* The player a charging instruction acts for, after it.
LEMMA DeployPlayer ==
    ASSUME SinkTypeOK, NEW u \in Users, NEW dest \in TokenAccounts, DeployAgent(u, dest)
    PROVE  /\ player' \in [Users -> PlayerType]
           /\ player'[u].agent_deployed /\ ~player[u].agent_deployed
           /\ player'[u].badges = player[u].badges
           /\ player'[u].gym_wins = player[u].gym_wins
           /\ player'[u].total_caught = player[u].total_caught
           /\ \A v \in Users \ {u} : player'[v] = player[v]
  BY DEF DeployAgent, SinkTypeOK, PlayerType

\* The player's record after catch_attempt: one catch more, the agent, the
\* badges and the wins as they were, and no other player touched.
LEMMA CatchPlayer ==
    ASSUME SinkTypeOK, NEW u \in Users, NEW dest \in TokenAccounts, NEW rarity \in Nat,
           CatchAttempt(u, dest, rarity)
    PROVE  /\ player' \in [Users -> PlayerType]
           /\ player'[u].agent_deployed /\ player[u].agent_deployed
           /\ player'[u].badges = player[u].badges
           /\ player'[u].gym_wins = player[u].gym_wins
           /\ player'[u].total_caught = player[u].total_caught + 1
           /\ \A v \in Users \ {u} : player'[v] = player[v]
<1>1. player[u].total_caught + 1 \in 0 .. MaxCaught
  BY SinkAssumption DEF CatchAttempt, SinkTypeOK, PlayerType
<1> QED
  BY <1>1 DEF CatchAttempt, SinkTypeOK, PlayerType

\* The player's record after gym_challenge: the badge is set, one win more, and
\* no other player touched.
LEMMA GymPlayer ==
    ASSUME SinkTypeOK, NEW u \in Users, NEW dest \in TokenAccounts, NEW badge \in Nat,
           GymChallenge(u, dest, badge)
    PROVE  /\ player' \in [Users -> PlayerType]
           /\ player'[u].agent_deployed /\ player[u].agent_deployed
           /\ player'[u].badges = player[u].badges \cup {badge}
           /\ player'[u].gym_wins = player[u].gym_wins + 1
           /\ player'[u].total_caught = player[u].total_caught
           /\ \A v \in Users \ {u} : player'[v] = player[v]
<1> DEFINE p == [player[u] EXCEPT !.badges = player[u].badges \cup {badge}]
           q == [p EXCEPT !.gym_wins = player[u].gym_wins + 1]
<1>1. /\ player[u] \in PlayerType /\ player \in [Users -> PlayerType]
      /\ player[u].gym_wins + 1 \in 0 .. MaxU32
      /\ badge \in Badges
  BY UnitsAssumption DEF GymChallenge, SinkTypeOK, PlayerType, Badges, BADGE_COUNT
<1>2. /\ p \in PlayerType
      /\ p.badges = player[u].badges \cup {badge}
      /\ p.gym_wins = player[u].gym_wins
      /\ p.total_caught = player[u].total_caught
      /\ p.agent_deployed = player[u].agent_deployed
  BY <1>1 DEF PlayerType
<1> HIDE DEF p
<1>3. /\ q \in PlayerType
      /\ q.badges = player[u].badges \cup {badge}
      /\ q.gym_wins = player[u].gym_wins + 1
      /\ q.total_caught = player[u].total_caught
      /\ q.agent_deployed = player[u].agent_deployed
  BY <1>1, <1>2 DEF PlayerType
<1>4. player' = [player EXCEPT ![u] = q]
  BY <1>1, <1>2 DEF GymChallenge, p
<1> HIDE DEF q
<1>5. player[u].agent_deployed
  BY DEF GymChallenge
<1> QED
  BY <1>1, <1>3, <1>4, <1>5

-----------------------------------------------------------------------------
\* The inputs of the charging instructions are in the domains of the
\* effects above.
LEMMA InputsAreNat ==
    /\ RarityChoices \subseteq Nat /\ BadgeChoices \subseteq Nat /\ WalletAmounts \subseteq Nat
    /\ Users \subseteq TokenAccounts
  BY SinkAssumption DEF TokenAccounts

\* What the mint starts with is a number: the accounts are finitely many.
LEMMA SupplyIsNat == InitialSupply \in Nat
<1>1. DOMAIN InitialPage = TokenAccounts /\ \A a \in TokenAccounts : InitialPage[a] \in Nat
  BY SinkAssumption
<1> QED
  BY <1>1, SinkAssumption, SumType DEF InitialSupply, SumFunction

\* The accounts before initialize are in their types.
LEMMA InitSinkType == SinkInit => SinkTypeOK
<1> SUFFICES ASSUME SinkInit PROVE SinkTypeOK
  OBVIOUS
<1>1. config \in ConfigType
  BY AccountsAssumption, UnitsAssumption
     DEF SinkInit, ConfigInit, ConfigType, BPS_DENOM, MAX_MARKET_FEE_BPS
<1>2. player \in [Users -> PlayerType]
  BY SinkAssumption, UnitsAssumption DEF SinkInit, NewPlayer, PlayerType
<1> QED
  BY <1>1, <1>2, SupplyIsNat, SinkAssumption, UnitsAssumption DEF SinkInit, SinkTypeOK

\* The three parts of a charging step: its own player's record, the charge,
\* and nothing else.
LEMMA ChargeType ==
    ASSUME SinkTypeOK, NEW u \in Users, NEW dest \in TokenAccounts, NEW total \in Nat,
           ApplySink(u, dest, total), player' \in [Users -> PlayerType]
    PROVE  SinkTypeOK'
<1>1. config \in ConfigType
  BY DEF SinkTypeOK
<1> QED
  BY <1>1, SinkEffect DEF SinkTypeOK

\* set_pause and initialize keep the Config account in its type, for the inputs
\* the sinks module passes.
LEMMA SinkConfigSteps ==
    ASSUME config \in ConfigType
    PROVE  /\ \A u \in Users, flags \in PauseChoices :
                  SetPause(u, flags) => config' \in ConfigType
           /\ \A u \in Deployers, b \in SplitChoices :
                  Initialize(u, b, BPS_DENOM - b, MAX_MARKET_FEE_BPS, 0) => config' \in ConfigType
<1>1. ASSUME NEW u \in Users, NEW flags \in PauseChoices, SetPause(u, flags)
      PROVE  config' \in ConfigType
  <2>1. flags \in SUBSET PauseFlags /\ config' = [config EXCEPT !.paused = flags]
    BY <1>1, SinkAssumption DEF SetPause
  <2> QED
    BY <2>1 DEF ConfigType
<1>2. ASSUME NEW u \in Deployers, NEW b \in SplitChoices,
             Initialize(u, b, BPS_DENOM - b, MAX_MARKET_FEE_BPS, 0)
      PROVE  config' \in ConfigType
  <2>1. u \in Users /\ b \in 0 .. BPS_DENOM /\ 0 \in 0 .. MaxU64
        /\ MAX_MARKET_FEE_BPS \in 0 .. MAX_MARKET_FEE_BPS
    BY SinkAssumption, AccountsAssumption, UnitsAssumption DEF MAX_MARKET_FEE_BPS
  <2> QED
    BY <1>2, <2>1 DEF Initialize, ConfigType
<1> QED
  BY <1>1, <1>2

\* No step of a sink instruction, of the authority or of a wallet takes a field
\* out of its type: one step per instruction.
LEMMA StepSinkType == SinkTypeOK /\ [SinkNext]_sinkVars => SinkTypeOK'
<1> SUFFICES ASSUME SinkTypeOK, [SinkNext]_sinkVars PROVE SinkTypeOK'
  OBVIOUS
<1>1. ASSUME NEW u \in Users, NEW dest \in TokenAccounts, DeployAgent(u, dest)
      PROVE  SinkTypeOK'
  BY <1>1, DeployPlayer, ChargeType, CostsAreNat DEF DeployAgent
<1>2. ASSUME NEW u \in Users, NEW dest \in TokenAccounts, NEW rarity \in RarityChoices,
             CatchAttempt(u, dest, rarity)
      PROVE  SinkTypeOK'
  BY <1>2, CatchPlayer, ChargeType, CostsAreNat, InputsAreNat DEF CatchAttempt
<1>3. ASSUME NEW u \in Users, NEW dest \in TokenAccounts, NEW b \in BadgeChoices,
             GymChallenge(u, dest, b)
      PROVE  SinkTypeOK'
  BY <1>3, GymPlayer, ChargeType, CostsAreNat, InputsAreNat DEF GymChallenge
<1>4. ASSUME NEW u \in Users, NEW dest \in TokenAccounts, ForceEvolve(u, dest)
      PROVE  SinkTypeOK'
  <2>1. player' \in [Users -> PlayerType]
    BY <1>4 DEF ForceEvolve, SinkTypeOK
  <2> QED
    BY <1>4, <2>1, ChargeType, CostsAreNat DEF ForceEvolve
<1>5. ASSUME NEW u \in Deployers, NEW b \in SplitChoices, SinkInitialize(u, b, BPS_DENOM - b)
      PROVE  SinkTypeOK'
  <2>1. config' \in ConfigType
    BY <1>5, SinkConfigSteps DEF SinkInitialize, SinkTypeOK
  <2> QED
    BY <1>5, <2>1, UnitsAssumption DEF SinkInitialize, SinkTypeOK
<1>6. ASSUME NEW u \in Users, NEW flags \in PauseChoices, SinkSetPause(u, flags)
      PROVE  SinkTypeOK'
  <2>1. config' \in ConfigType
    BY <1>6, SinkConfigSteps DEF SinkSetPause, SinkTypeOK
  <2> QED
    BY <1>6, <2>1 DEF SinkSetPause, SinkTypeOK
<1>7. ASSUME NEW u \in Users, NEW a \in WalletAmounts, NEW dest \in TokenAccounts,
             WalletTransfer(u, dest, a)
      PROVE  SinkTypeOK'
  <2> DEFINE taken == [page EXCEPT ![u] = @ - a]
  <2>1. taken \in [TokenAccounts -> Nat] /\ a \in Nat
    BY <1>7, InputsAreNat DEF WalletTransfer, SinkTypeOK
  <2>2. page' = [taken EXCEPT ![dest] = @ + a]
    BY <1>7 DEF WalletTransfer
  <2> HIDE DEF taken
  <2>3. page' \in [TokenAccounts -> Nat]
    BY <2>1, <2>2
  <2> QED
    BY <1>7, <2>3 DEF WalletTransfer, SinkTypeOK
<1>8. ASSUME NEW u \in Users, NEW a \in WalletAmounts, WalletBurn(u, a)
      PROVE  SinkTypeOK'
  <2>1. page' \in [TokenAccounts -> Nat] /\ supply' \in Int
    BY <1>8, InputsAreNat DEF WalletBurn, SinkTypeOK
  <2> QED
    BY <1>8, <2>1 DEF WalletBurn, SinkTypeOK
<1>9. CASE UNCHANGED sinkVars
  BY <1>9 DEF sinkVars, SinkTypeOK
<1> QED
  BY <1>1, <1>2, <1>3, <1>4, <1>5, <1>6, <1>7, <1>8, <1>9 DEF SinkNext, ChargingStep

\* Every account field the sinks keep stays in its type: no charge overdraws
\* an account or overflows a counter.
THEOREM SinkTypeCorrect == SinkSpec => []SinkTypeOK
<1> QED
  BY InitSinkType, StepSinkType, PTL DEF SinkSpec
-----------------------------------------------------------------------------
(***************************************************************************)
(* The inductive invariant.  NothingBeforeConfig says what initialize      *)
(* finds: it zeroes total_burned, which is sound only because no agent can *)
(* have been deployed, so nothing burned, before it.                       *)
(***************************************************************************)
NothingBeforeConfig ==
    ~config.initialized => total_burned = 0 /\ \A u \in Users : ~player[u].agent_deployed

SinkInv ==
    /\ SinkTypeOK
    /\ NothingBeforeConfig
    /\ BurnNeverOverstated
    /\ BadgesBackedByWins

\* A step of a player with a deployed agent, or that deploys it, finds the
\* program initialized.
LEMMA ChargeFindsConfig ==
    ASSUME SinkInv, NEW u \in Users, player[u].agent_deployed
    PROVE  config.initialized
  BY DEF SinkInv, NothingBeforeConfig

\* One element more makes a set at most one larger.
LEMMA AddOne ==
    ASSUME NEW S, IsFiniteSet(S), NEW x
    PROVE  /\ Cardinality(S \cup {x}) \in Nat
           /\ Cardinality(S \cup {x}) <= Cardinality(S) + 1
<1> DEFINE larger == S \cup {x}
<1>1. IsFiniteSet(larger) /\ Cardinality(larger) = IF x \in S THEN Cardinality(S) ELSE Cardinality(S) + 1
  BY FS_AddElement
<1> HIDE DEF larger
<1>2. Cardinality(larger) \in Nat /\ Cardinality(S) \in Nat
  BY <1>1, FS_CardinalityType
<1>3. Cardinality(larger) <= Cardinality(S) + 1
  BY <1>1, <1>2
<1> QED
  BY <1>2, <1>3 DEF larger

\* A player's badges are among the BADGE_COUNT gyms, so they can be counted.
LEMMA BadgesFinite ==
    ASSUME SinkTypeOK, NEW u \in Users
    PROVE  /\ IsFiniteSet(player[u].badges)
           /\ Cardinality(player[u].badges) \in Nat
<1>1. player[u].badges \subseteq Badges
  BY DEF SinkTypeOK, PlayerType
<1>2. IsFiniteSet(Badges)
  <2> DEFINE last == BADGE_COUNT - 1
  <2>1. last \in Int /\ 0 \in Int
    BY DEF BADGE_COUNT
  <2> HIDE DEF last
  <2>2. IsFiniteSet(0 .. last)
    BY <2>1, FS_Interval
  <2> QED
    BY <2>2 DEF Badges, last
<1> QED
  BY <1>1, <1>2, FS_Subset, FS_CardinalityType

\* Before initialize every part of the sinks' invariant holds.
LEMMA InitSinkInv == SinkInit => SinkInv
<1> SUFFICES ASSUME SinkInit PROVE SinkInv
  OBVIOUS
<1>1. SinkTypeOK /\ NothingBeforeConfig
  BY InitSinkType DEF SinkInit, NothingBeforeConfig, NewPlayer
<1>2. BurnNeverOverstated
  BY SupplyIsNat DEF SinkInit, BurnNeverOverstated
<1>3. BadgesBackedByWins
  BY FS_EmptySet DEF SinkInit, NewPlayer, BadgesBackedByWins
<1> QED
  BY <1>1, <1>2, <1>3 DEF SinkInv

\* A charge moves its burned part from the supply to the total.
LEMMA StepBurn == SinkInv /\ [SinkNext]_sinkVars => BurnNeverOverstated' /\ NothingBeforeConfig'
<1> SUFFICES ASSUME SinkInv, [SinkNext]_sinkVars
             PROVE  BurnNeverOverstated' /\ NothingBeforeConfig'
  OBVIOUS
<1> USE DEF BurnNeverOverstated, NothingBeforeConfig
<1>0. /\ SinkTypeOK /\ BurnNeverOverstated /\ NothingBeforeConfig
      /\ total_burned \in Nat /\ supply \in Int /\ InitialSupply \in Int
      /\ config \in ConfigType
  BY SupplyIsNat, UnitsAssumption DEF SinkInv, SinkTypeOK
<1>1. ASSUME NEW u \in Users, NEW dest \in TokenAccounts, NEW total \in Nat,
             ApplySink(u, dest, total), config.initialized
      PROVE  BurnNeverOverstated' /\ NothingBeforeConfig'
  BY <1>0, <1>1, SinkEffect
<1>2. ASSUME NEW u \in Users, NEW dest \in TokenAccounts, DeployAgent(u, dest)
      PROVE  BurnNeverOverstated' /\ NothingBeforeConfig'
  BY <1>1, <1>2, CostsAreNat DEF DeployAgent
<1>3. ASSUME NEW u \in Users, NEW dest \in TokenAccounts, NEW rarity \in RarityChoices,
             CatchAttempt(u, dest, rarity)
      PROVE  BurnNeverOverstated' /\ NothingBeforeConfig'
  BY <1>1, <1>3, CostsAreNat, ChargeFindsConfig DEF CatchAttempt
<1>4. ASSUME NEW u \in Users, NEW dest \in TokenAccounts, NEW b \in BadgeChoices,
             GymChallenge(u, dest, b)
      PROVE  BurnNeverOverstated' /\ NothingBeforeConfig'
  BY <1>1, <1>4, CostsAreNat, ChargeFindsConfig DEF GymChallenge
<1>5. ASSUME NEW u \in Users, NEW dest \in TokenAccounts, ForceEvolve(u, dest)
      PROVE  BurnNeverOverstated' /\ NothingBeforeConfig'
  BY <1>1, <1>5, CostsAreNat, ChargeFindsConfig DEF ForceEvolve
<1>6. ASSUME NEW u \in Deployers, NEW b \in SplitChoices, SinkInitialize(u, b, BPS_DENOM - b)
      PROVE  BurnNeverOverstated' /\ NothingBeforeConfig'
  BY <1>0, <1>6 DEF SinkInitialize, Initialize
<1>7. ASSUME NEW u \in Users, NEW flags \in PauseChoices, SinkSetPause(u, flags)
      PROVE  BurnNeverOverstated' /\ NothingBeforeConfig'
  <2>1. config'.initialized
    BY <1>0, <1>7 DEF SinkSetPause, SetPause, IsAuthority, ConfigType
  <2> QED
    BY <1>0, <1>7, <2>1 DEF SinkSetPause
<1>8. ASSUME NEW u \in Users, NEW a \in WalletAmounts, NEW dest \in TokenAccounts,
             WalletTransfer(u, dest, a)
      PROVE  BurnNeverOverstated' /\ NothingBeforeConfig'
  BY <1>0, <1>8 DEF WalletTransfer
<1>9. ASSUME NEW u \in Users, NEW a \in WalletAmounts, WalletBurn(u, a)
      PROVE  BurnNeverOverstated' /\ NothingBeforeConfig'
  BY <1>0, <1>9, InputsAreNat DEF WalletBurn
<1>10. CASE UNCHANGED sinkVars
  BY <1>0, <1>10 DEF sinkVars
<1> QED
  BY <1>2, <1>3, <1>4, <1>5, <1>6, <1>7, <1>8, <1>9, <1>10 DEF SinkNext, ChargingStep

\* A win adds at most one badge, and no other step adds any.
LEMMA StepBadges == SinkInv /\ [SinkNext]_sinkVars => BadgesBackedByWins'
<1> SUFFICES ASSUME SinkInv, [SinkNext]_sinkVars PROVE BadgesBackedByWins'
  OBVIOUS
<1> DEFINE Backed(p) ==
      /\ Cardinality(p.badges) <= p.gym_wins
      /\ p.gym_wins > 0 => p.badges # {}
      /\ p.gym_wins + p.total_caught > 0 => p.agent_deployed
<1>0. SinkTypeOK /\ \A v \in Users : Backed(player[v])
  BY DEF SinkInv, BadgesBackedByWins
<1>1. ASSUME \A v \in Users : Backed(player'[v]) PROVE BadgesBackedByWins'
  BY <1>1 DEF BadgesBackedByWins
<1>2. ASSUME NEW u \in Users, NEW dest \in TokenAccounts, DeployAgent(u, dest)
      PROVE  BadgesBackedByWins'
  <2>1. Backed(player'[u])
    BY <1>0, <1>2, DeployPlayer
  <2>2. \A v \in Users \ {u} : player'[v] = player[v]
    BY <1>0, <1>2, DeployPlayer
  <2> QED
    BY <1>0, <1>1, <2>1, <2>2
<1>3. ASSUME NEW u \in Users, NEW dest \in TokenAccounts, NEW rarity \in RarityChoices,
             CatchAttempt(u, dest, rarity)
      PROVE  BadgesBackedByWins'
  <2>1. Backed(player'[u]) /\ \A v \in Users \ {u} : player'[v] = player[v]
    BY <1>0, <1>3, CatchPlayer, InputsAreNat
  <2> QED
    BY <1>0, <1>1, <2>1
<1>4. ASSUME NEW u \in Users, NEW dest \in TokenAccounts, NEW b \in BadgeChoices,
             GymChallenge(u, dest, b)
      PROVE  BadgesBackedByWins'
  <2>1. /\ player'[u].badges = player[u].badges \cup {b}
        /\ player'[u].gym_wins = player[u].gym_wins + 1
        /\ player'[u].agent_deployed
        /\ \A v \in Users \ {u} : player'[v] = player[v]
    BY <1>0, <1>4, GymPlayer, InputsAreNat
  <2>2. IsFiniteSet(player[u].badges) /\ Cardinality(player[u].badges) \in Nat
    BY <1>0, BadgesFinite
  <2>3. Cardinality(player[u].badges \cup {b}) <= Cardinality(player[u].badges) + 1
    BY <2>2, AddOne
  <2>4. Cardinality(player[u].badges \cup {b}) \in Nat
    BY <2>2, AddOne
  <2>5. player[u].gym_wins \in Nat
    BY <1>0, UnitsAssumption DEF SinkTypeOK, PlayerType
  <2>6. Backed(player'[u])
    BY <1>0, <2>1, <2>2, <2>3, <2>4, <2>5
  <2> QED
    BY <1>0, <1>1, <2>1, <2>6
<1>5. CASE UNCHANGED player
  BY <1>0, <1>1, <1>5
<1> QED
  BY <1>2, <1>3, <1>4, <1>5
     DEF SinkNext, ChargingStep, ForceEvolve, SinkInitialize, SinkSetPause,
         WalletTransfer, WalletBurn, sinkVars

\* The inductive invariant of the sinks holds in every reachable state.
LEMMA SinkInvariant == SinkSpec => []SinkInv
<1>1. SinkInv /\ [SinkNext]_sinkVars => SinkInv'
  <2>1. SinkInv => SinkTypeOK
    BY DEF SinkInv
  <2> QED
    BY <2>1, StepSinkType, StepBurn, StepBadges DEF SinkInv
<1> QED
  BY <1>1, InitSinkInv, PTL DEF SinkSpec

\* The published burn never exceeds what left circulation.
THEOREM BurnIsNeverOverstated == SinkSpec => []BurnNeverOverstated
<1>1. SinkInv => BurnNeverOverstated
  BY DEF SinkInv
<1> QED
  BY <1>1, SinkInvariant, PTL

\* Every badge is backed by its own win, and nobody has progress without an
\* agent.
THEOREM BadgesAreBacked == SinkSpec => []BadgesBackedByWins
<1>1. SinkInv => BadgesBackedByWins
  BY DEF SinkInv
<1> QED
  BY <1>1, SinkInvariant, PTL
-----------------------------------------------------------------------------
Kept ==
    /\ \A u \in Users : NeverLoses(player[u], player'[u])
    /\ total_burned <= total_burned'

\* What a player has, and what is burned, stays through every instruction.
LEMMA KeptStep == SinkInv /\ [SinkNext]_sinkVars => Kept
<1>1. ASSUME SinkInv, [SinkNext]_sinkVars
      PROVE  Kept
  <2>0. SinkTypeOK /\ total_burned \in Nat
    BY <1>1, UnitsAssumption DEF SinkInv, SinkTypeOK
  <2>1. \A u \in Users : player[u].gym_wins \in Nat /\ player[u].total_caught \in Nat
    BY <2>0, UnitsAssumption, SinkAssumption DEF SinkTypeOK, PlayerType
  <2>2. \A u \in Users : NeverLoses(player[u], player[u])
    BY <2>1 DEF NeverLoses
  <2> USE DEF Kept
  <2>3. ASSUME NEW u \in Users, NEW dest \in TokenAccounts, DeployAgent(u, dest)
        PROVE  Kept
    <3>1. NeverLoses(player[u], player'[u]) /\ \A v \in Users \ {u} : player'[v] = player[v]
      BY <2>0, <2>1, <2>3, DeployPlayer DEF NeverLoses
    <3>2. total_burned <= total_burned'
      BY <2>0, <2>3, SinkEffect, CostsAreNat DEF DeployAgent
    <3> QED
      BY <2>2, <3>1, <3>2
  <2>4. ASSUME NEW u \in Users, NEW dest \in TokenAccounts, NEW rarity \in RarityChoices,
               CatchAttempt(u, dest, rarity)
        PROVE  Kept
    <3>1. NeverLoses(player[u], player'[u]) /\ \A v \in Users \ {u} : player'[v] = player[v]
      BY <2>0, <2>1, <2>4, CatchPlayer, InputsAreNat DEF NeverLoses
    <3>2. total_burned <= total_burned'
      BY <2>0, <2>4, SinkEffect, CostsAreNat DEF CatchAttempt
    <3> QED
      BY <2>2, <3>1, <3>2
  <2>5. ASSUME NEW u \in Users, NEW dest \in TokenAccounts, NEW b \in BadgeChoices,
               GymChallenge(u, dest, b)
        PROVE  Kept
    <3>1. NeverLoses(player[u], player'[u]) /\ \A v \in Users \ {u} : player'[v] = player[v]
      BY <2>0, <2>1, <2>5, GymPlayer, InputsAreNat DEF NeverLoses
    <3>2. total_burned <= total_burned'
      BY <2>0, <2>5, SinkEffect, CostsAreNat DEF GymChallenge
    <3> QED
      BY <2>2, <3>1, <3>2
  <2>6. ASSUME NEW u \in Users, NEW dest \in TokenAccounts, ForceEvolve(u, dest)
        PROVE  Kept
    <3>1. total_burned <= total_burned'
      BY <2>0, <2>6, SinkEffect, CostsAreNat DEF ForceEvolve
    <3> QED
      BY <2>2, <2>6, <3>1 DEF ForceEvolve
  <2>7. ASSUME NEW u \in Deployers, NEW b \in SplitChoices, SinkInitialize(u, b, BPS_DENOM - b)
        PROVE  Kept
    <3>1. total_burned = 0
      BY <1>1, <2>7 DEF SinkInv, NothingBeforeConfig, SinkInitialize, Initialize
    <3> QED
      BY <2>2, <2>7, <3>1 DEF SinkInitialize
  <2>8. CASE UNCHANGED <<player, total_burned>>
    BY <2>0, <2>2, <2>8
  <2> QED
    BY <1>1, <2>3, <2>4, <2>5, <2>6, <2>7, <2>8
       DEF SinkNext, ChargingStep, SinkSetPause, WalletTransfer, WalletBurn, sinkVars
<1> QED
  BY <1>1

\* No step of anyone takes progress back or lowers the burn total.
THEOREM ProgressIsNeverLost == SinkSpec => ProgressIsPermanent
<1>1. SinkInv /\ [SinkNext]_sinkVars => [Kept]_sinkVars
  BY KeptStep
<1> QED
  BY <1>1, SinkInvariant, PTL DEF SinkSpec, ProgressIsPermanent, Kept

-----------------------------------------------------------------------------
\* A step changes one player at most, and what the change is worth is burned
\* and recorded in the same step: the step form of ProgressIsPaid.
PaidFor(u) == ProgressBurn(player'[u]) - ProgressBurn(player[u]) <= total_burned' - total_burned

ProgressStepIsPaid ==
    \/ player' = player
    \/ \E u \in Users : PaidFor(u) /\ \A v \in Users \ {u} : player'[v] = player[v]

\* The burned part of a dearer catch is no smaller.
LEMMA CheapestCatch ==
    \A rarity \in Rarities :
        BurnedFor(CatchCostForRarity(0)) <= BurnedFor(CatchCostForRarity(rarity))
<1> SUFFICES ASSUME NEW rarity \in Rarities
             PROVE  BurnedFor(CatchCostForRarity(0)) <= BurnedFor(CatchCostForRarity(rarity))
  OBVIOUS
<1> DEFINE cheap == CatchCostForRarity(0)
           cost  == CatchCostForRarity(rarity)
<1>1. cheap \in Nat /\ cost \in Nat /\ cheap <= cost
  BY UnitsAssumption DEF CatchCostForRarity, Rarities
<1> HIDE DEF cheap, cost
<1>2. (cheap * 7000) \div 10000 <= (cost * 7000) \div 10000
  BY <1>1
<1> QED
  BY <1>2 DEF BurnedFor, ComputeSplit, BpsOf, BURN_BPS, BPS_DENOM, cheap, cost

\* A step that deploys an agent, wins a gym or counts a catch raises
\* total_burned by at least the burned part of its price, and serves one player.
LEMMA PaidStep == SinkInv /\ [SinkNext]_sinkVars => ProgressStepIsPaid
<1> DEFINE gym   == BurnedFor(GYM_COST)
           catch == BurnedFor(CatchCostForRarity(0))
<1>0. gym \in Nat /\ catch \in Nat
  BY CostsAreNat, SplitIsLossless DEF BurnedFor, Rarities
<1>1. ASSUME SinkInv, [SinkNext]_sinkVars
      PROVE  ProgressStepIsPaid
  <2>0. SinkTypeOK /\ total_burned \in Nat
    BY <1>1, UnitsAssumption DEF SinkInv, SinkTypeOK
  <2>1. \A u \in Users : player[u].gym_wins \in Nat /\ player[u].total_caught \in Nat
    BY <2>0, UnitsAssumption, SinkAssumption DEF SinkTypeOK, PlayerType
  <2>2. ASSUME NEW u \in Users, NEW dest \in TokenAccounts, DeployAgent(u, dest)
        PROVE  ProgressStepIsPaid
    <3>1. BurnedFor(DEPLOY_COST) \in Nat /\ total_burned' = total_burned + BurnedFor(DEPLOY_COST)
      BY <2>0, <2>2, SinkEffect, CostsAreNat DEF DeployAgent
    <3>2. /\ player'[u].agent_deployed /\ ~player[u].agent_deployed
          /\ player'[u].gym_wins = player[u].gym_wins
          /\ player'[u].total_caught = player[u].total_caught
          /\ \A v \in Users \ {u} : player'[v] = player[v]
      BY <2>0, <2>2, DeployPlayer
    <3>3. player[u].gym_wins * gym \in Nat /\ player[u].total_caught * catch \in Nat
      BY <1>0, <2>1
    <3> HIDE DEF gym, catch
    <3>4. ProgressBurn(player'[u]) = ProgressBurn(player[u]) + BurnedFor(DEPLOY_COST)
      BY <3>1, <3>2, <3>3 DEF ProgressBurn, gym, catch
    <3>5. ProgressBurn(player[u]) \in Nat
      BY <3>2, <3>3 DEF ProgressBurn, gym, catch
    <3>6. PaidFor(u)
      BY <2>0, <3>1, <3>4, <3>5 DEF PaidFor
    <3> QED
      BY <3>2, <3>6 DEF ProgressStepIsPaid
  <2>3. ASSUME NEW u \in Users, NEW dest \in TokenAccounts, NEW rarity \in RarityChoices,
               CatchAttempt(u, dest, rarity)
        PROVE  ProgressStepIsPaid
    <3> DEFINE paid == BurnedFor(CatchCostForRarity(rarity))
    <3>1. rarity \in Rarities
      BY <2>3 DEF CatchAttempt
    <3>2. paid \in Nat /\ total_burned' = total_burned + paid /\ catch <= paid
      BY <2>0, <2>3, <3>1, SinkEffect, CostsAreNat, CheapestCatch DEF CatchAttempt
    <3>3. /\ player'[u].agent_deployed /\ player[u].agent_deployed
          /\ player'[u].gym_wins = player[u].gym_wins
          /\ player'[u].total_caught = player[u].total_caught + 1
          /\ \A v \in Users \ {u} : player'[v] = player[v]
      BY <2>0, <2>3, CatchPlayer, InputsAreNat
    <3>4. /\ player[u].gym_wins * gym \in Nat /\ player[u].total_caught * catch \in Nat
          /\ (player[u].total_caught + 1) * catch = player[u].total_caught * catch + catch
      BY <1>0, <2>1
    <3>5. BurnedFor(DEPLOY_COST) \in Nat
      BY CostsAreNat, SplitIsLossless DEF BurnedFor
    <3> HIDE DEF gym, catch, paid
    <3>6. ProgressBurn(player'[u]) = ProgressBurn(player[u]) + catch
      BY <1>0, <3>3, <3>4, <3>5 DEF ProgressBurn, gym, catch
    <3>7. ProgressBurn(player[u]) \in Nat
      BY <3>3, <3>4, <3>5 DEF ProgressBurn, gym, catch
    <3>8. PaidFor(u)
      BY <1>0, <2>0, <3>2, <3>6, <3>7 DEF PaidFor
    <3> QED
      BY <3>3, <3>8 DEF ProgressStepIsPaid
  <2>4. ASSUME NEW u \in Users, NEW dest \in TokenAccounts, NEW b \in BadgeChoices,
               GymChallenge(u, dest, b)
        PROVE  ProgressStepIsPaid
    <3>1. total_burned' = total_burned + gym
      BY <2>0, <2>4, SinkEffect, CostsAreNat DEF GymChallenge
    <3>2. /\ player'[u].agent_deployed /\ player[u].agent_deployed
          /\ player'[u].gym_wins = player[u].gym_wins + 1
          /\ player'[u].total_caught = player[u].total_caught
          /\ \A v \in Users \ {u} : player'[v] = player[v]
      BY <2>0, <2>4, GymPlayer, InputsAreNat
    <3>3. /\ player[u].gym_wins * gym \in Nat /\ player[u].total_caught * catch \in Nat
          /\ (player[u].gym_wins + 1) * gym = player[u].gym_wins * gym + gym
      BY <1>0, <2>1
    <3>4. BurnedFor(DEPLOY_COST) \in Nat
      BY CostsAreNat, SplitIsLossless DEF BurnedFor
    <3> HIDE DEF gym, catch
    <3>5. ProgressBurn(player'[u]) = ProgressBurn(player[u]) + gym
      BY <1>0, <3>2, <3>3, <3>4 DEF ProgressBurn, gym, catch
    <3>6. ProgressBurn(player[u]) \in Nat
      BY <3>2, <3>3, <3>4 DEF ProgressBurn, gym, catch
    <3>7. PaidFor(u)
      BY <1>0, <2>0, <3>1, <3>5, <3>6 DEF PaidFor
    <3> QED
      BY <3>2, <3>7 DEF ProgressStepIsPaid
  <2>5. CASE UNCHANGED player
    BY <2>5 DEF ProgressStepIsPaid
  <2> QED
    BY <1>1, <2>2, <2>3, <2>4, <2>5
       DEF SinkNext, ChargingStep, ForceEvolve, SinkInitialize, SinkSetPause,
           WalletTransfer, WalletBurn, sinkVars
<1> QED
  BY <1>1

\* What a player's record is worth.
LEMMA ProgressIsNat == \A p \in PlayerType : ProgressBurn(p) \in Nat
<1> DEFINE gym   == BurnedFor(GYM_COST)
           catch == BurnedFor(CatchCostForRarity(0))
<1>1. gym \in Nat /\ catch \in Nat /\ BurnedFor(DEPLOY_COST) \in Nat
  BY CostsAreNat, SplitIsLossless DEF BurnedFor, Rarities
<1> HIDE DEF gym, catch
<1>2. ASSUME NEW p \in PlayerType PROVE ProgressBurn(p) \in Nat
  <2>1. p.gym_wins \in Nat /\ p.total_caught \in Nat
    BY UnitsAssumption, SinkAssumption DEF PlayerType
  <2>2. p.gym_wins * gym \in Nat /\ p.total_caught * catch \in Nat
    BY <1>1, <2>1
  <2> QED
    BY <1>1, <2>2 DEF ProgressBurn, gym, catch
<1> QED
  BY <1>2

\* Summed over the players, progress rises by no more than what is burned.
LEMMA StepProgress ==
    SinkInv /\ ProgressIsPaid /\ [SinkNext]_sinkVars => ProgressIsPaid'
<1> SUFFICES ASSUME SinkInv, ProgressIsPaid, [SinkNext]_sinkVars PROVE ProgressIsPaid'
  OBVIOUS
<1> DEFINE old == [u \in Users |-> ProgressBurn(player[u])]
           new == [u \in Users |-> ProgressBurn(player'[u])]
<1>1. /\ SumFunctionOnSet(old, Users) <= total_burned
      /\ ProgressIsPaid' <=> SumFunctionOnSet(new, Users) <= total_burned'
  BY DEF ProgressIsPaid, SumFunction
<1>2. SinkTypeOK /\ SinkTypeOK'
  BY StepSinkType DEF SinkInv
<1>3. /\ \A u \in Users : old[u] \in Int /\ new[u] \in Int
      /\ total_burned \in Int /\ total_burned' \in Int /\ total_burned <= total_burned'
  BY <1>2, ProgressIsNat, UnitsAssumption, KeptStep DEF SinkTypeOK, Kept
<1>4. IsFiniteSet(Users)
  BY SinkAssumption, FS_Subset DEF TokenAccounts
<1>5. CASE player' = player
  <2>1. new = old
    BY <1>5
  <2>2. SumFunctionOnSet(old, Users) \in Int
    BY <1>3, <1>4, SumType
  <2> HIDE DEF old, new
  <2> QED
    BY <1>1, <1>3, <2>1, <2>2
<1>6. ASSUME NEW u \in Users, PaidFor(u), \A v \in Users \ {u} : player'[v] = player[v]
      PROVE  ProgressIsPaid'
  <2>1. \A v \in Users \ {u} : new[v] = old[v]
    BY <1>6
  <2>2. new[u] - old[u] <= total_burned' - total_burned
    BY <1>6 DEF PaidFor
  <2> HIDE DEF old, new
  <2>3. SumFunctionOnSet(new, Users) = SumFunctionOnSet(old, Users) + (new[u] - old[u])
    BY <1>3, <1>4, <2>1, SumChanged
  <2>4. SumFunctionOnSet(old, Users) \in Int
    BY <1>3, <1>4, SumType
  <2> QED
    BY <1>1, <1>3, <2>2, <2>3, <2>4
<1> QED
  BY <1>5, <1>6, PaidStep DEF ProgressStepIsPaid

\* Nobody has progress before initialize.
LEMMA InitProgress == SinkInit => ProgressIsPaid
<1> SUFFICES ASSUME SinkInit PROVE ProgressIsPaid
  OBVIOUS
<1> DEFINE worth == [u \in Users |-> ProgressBurn(player[u])]
           none  == [u \in Users |-> 0]
<1>1. \A u \in Users : worth[u] = 0
  <2>1. /\ BurnedFor(GYM_COST) \in Nat /\ BurnedFor(CatchCostForRarity(0)) \in Nat
        /\ \A n \in Nat : 0 * n = 0
    BY CostsAreNat, SplitIsLossless DEF BurnedFor, Rarities
  <2> QED
    BY <2>1 DEF SinkInit, NewPlayer, ProgressBurn
<1>2. IsFiniteSet(Users)
  BY SinkAssumption, FS_Subset DEF TokenAccounts
<1>3. SumFunctionOnSet(worth, Users) = 0
  <2> HIDE DEF worth
  <2> QED
    BY <1>1, <1>2, SumZero
<1>4. ProgressIsPaid <=> SumFunctionOnSet(worth, Users) <= total_burned
  BY DEF ProgressIsPaid, SumFunction
<1> QED
  BY <1>3, <1>4 DEF SinkInit

(***************************************************************************)
(* Over all players together, what is recorded as burned covers the burned *)
(* part of every deployment, gym win and catch, whatever the order of      *)
(* instructions and whichever of them fail.                                *)
(***************************************************************************)
THEOREM AllProgressIsPaid == SinkSpec => []ProgressIsPaid
  BY InitProgress, StepProgress, SinkInvariant, PTL DEF SinkSpec
=============================================================================
