# A TLA+ verification of pokeAge

pokeAge is an idle monster game with an on-chain economy. This directory holds
its specifications: TLA+ modules translated from the source, TLC instances that
check them, and TLAPS proofs of the properties that matter most. Paths below
are relative to the repository; `programs/` stands for `programs/pokeage/src/`.

## 1. Inventory

| Part | Source | State it keeps | Operations |
| --- | --- | --- | --- |
| Program configuration | `programs/state/config.rs`, `instructions/initialize.rs`, `admin.rs` | `Config`: authority, vault, treasury, fees, pause byte, two totals | `initialize`, `set_pause` |
| $PAGE sinks | `deploy_agent.rs`, `catch_attempt.rs`, `gym_challenge.rs`, `force_evolve.rs`, `shared.rs` | `PlayerState` of each player; the mint's supply and token balances | the four instructions |
| Cards and market | `mint_card.rs`, `list_card.rs`, `buy_card.rs`, `cancel_listing.rs` | `CardMeta`, `Listing`, who holds each card | the four instructions |
| Buyback pool | `instant_sell.rs`, `admin.rs`, `state/pool.rs` | `BuybackPool`: books, floor, switch; the vault's lamports | `instant_sell`, `update_floor`, `set_instant_sell`, `withdraw_treasury` |
| Fee arithmetic | `constants.rs`, `shared.rs` | none | `bps_of`, `compute_split`, the cuts |
| Trainer loop | `src/engine.ts`, `factory.ts` | `Trainer`; the private `gymCooldown` of `Engine` | `tick`: heal, gym, move, hunt |
| Party, box, catch decision | `src/team.ts`, `power.ts` | part of `Trainer` | `shouldCatch`, `placeNewMonster` |
| Battle | `src/battle.ts`, `damage.ts`, `moves.ts`, `typechart.ts`, `stats.ts` | hit points and turns of a fight; cached moves | `simulateAuto`, `simulateGym`, `simulateBattle` |
| Encounter, catch, progression | `src/encounter.ts`, `catch.ts`, `progression.ts` | part of a monster | pure functions with dice |
| Save, offline, balance | `src/save.ts`, `offline.ts`, `balance.ts` | snapshots | save/load, catch-up, batch |
| SDK | `sdk/src/borsh.ts`, `accounts.ts`, `instructions.ts`, `client.ts` | what a client read and has sent | account reads, instruction builders, quotes |
| CLI | `cli/` | none | prints what it reads |

How the parts interact. Every instruction of the program is one atomic
transaction over shared accounts: `Config` is read by all of them, `BuybackPool`
is written by five traders' instructions and two admin ones, and the SOL itself
moves by calls to the system program or by direct debits. The engine is
synchronous: `Engine.tick` calls the battle, encounter and team functions, and
the host (`offline.ts`, `balance.ts`, the live game) calls `tick` again and
again. The engine and the program do not call each other; clients mirror game
events on chain through the SDK: they read accounts, decide, build a transaction
and send it, and everyone else may act between the read and the landing.

What is hard here. On chain: instructions of different signers in any order;
accounts that play two roles in one instruction; books kept beside the money;
checked counters that fill up; progress written before the fee is taken; gates
set at one time and used at another. At the client: layouts and account orders
kept by hand beside the program's, and what was read is stale when it is used. In the engine: decisions made in one place
and carried out in another, a predicate with a side effect, a loop that can stop
making progress, levels that bypass the cap, fights that run on copies of the
hit points and count no turns, a clock that jumps. The list with lines is `hazards` in
`PROJECT.json`.

What makes each part correct: the books are right and backed by the vault; the
card of an open listing is in escrow, and a listing closes in exactly two ways;
every unit of progress is paid for and never lost; the published burn
is not overstated; the trainer keeps what it catches, never owns a species
twice, wins gyms in order, and does not run out of gyms and wilds to fight; a client's call does what
it was given, on what it read; a catch-up replays the absence, no more, and says
truly what happened; every fight ends.

## 2. Modules

| Module | Models |
| --- | --- |
| `Economy` | constants and fee arithmetic, scaled by `PageUnit` and `MilliSol` |
| `ProgramConfig` | `Config`, `initialize`, `set_pause` |
| `SinkProgram` | composes `ProgramConfig` with the four sinks, token balances and supply |
| `MarketProgram` | composes `ProgramConfig` with cards, listings, the pool and the lamport ledger |
| `BuybackFund` | abstract: a fund whose books never run ahead of its cash |
| `CardCustody` | abstract: one owner per card, offers that end by withdrawal or by a sale that pays the owner |
| `Roster` | `PlaceNewMonster`, `ShouldCatch` as operators |
| `TrainerAgent` | composes `Roster` with every branch of `tick` |
| `Progression` | one monster: xp, levels, hit points and stages through fights, heals and grants |
| `Battle` | type chart, move choice, stats and what one hit can do |
| `TrainerFights` | composes `Roster` and `Battle`: the tick with its fights turn by turn; implements `TrainerAgent` |
| `SaveResume` | `TrainerAgent` with save and restore in between |
| `OfflineCatchup` | `SaveResume` with the catch-up for an absence |
| `Borsh` | the SDK's codec |
| `SdkInstructions` | the SDK's builders and the program's account contexts |
| `SdkClient` | composes `MarketProgram` with a wallet behind the SDK |
| `World` | gym and route levels of the twelve towns |
| `SumProofs` | facts about sums over finite sets |
| `SinkProofs`, `MarketProofs`, `ClientProofs`, `TrainerProofs`, `ResumeProofs`, `FightProofs`, `ProgressionProofs` | the theorems |
| `MC*` | instances for TLC |

Instructions. A failed instruction reverts, so an action's guard holds exactly
when the instruction succeeds: account constraints, `require!`s, checked
arithmetic and the balance each call needs are all conjuncts. `ApplySink`,
`Move`, `CanCredit` and `Credited` are the shared helpers. In `MarketProgram`
payments are applied to the ledger one after the other, in the code's order, so
a buyer who is also the seller, or a treasury that is also a trader, gets what
the runtime would give. `MayDebit` is the runtime's rule that a program debits
only its own accounts (`move_lamports_pda`): `initialize` does not ask who owns
vault and treasury, so `ProgramOwned` is a constant, and
`MCSdkClient.cfg` has a treasury the program cannot debit.

The environment. The token and system programs and the wallets are external:
`WalletTransfer`, `WalletBurn`, `WalletPays`, `WalletGivesCard` let anyone move
what is theirs in between, to the vault included, and cards to an escrow: it is
an ordinary token account of the listing's address. A card sent there without a
listing stays there: its owner has nothing to list, and nobody has a listing to
cancel or buy. So the properties go one way: a listed card is in escrow, and an
open listing is not disturbed by cards that come in beside it.

The client. `SdkClient` gives one wallet the SDK: it reads and decodes a listing
or the pool, builds a transaction from it or from the caller's arguments, and
sends it; the transaction lands, is refused or is lost while `MarketNext` goes on
for everyone. An account is a sequence of fields with their widths in the order
of the program's struct, and the decoders read by place and width, so a field out
of order shows. `Context` has the accounts each instruction takes, in order, with
signer and write access; `Accepted` is Anchor's check of them. The client sends
the accounts of the IDL in one run (`ViaIdl`) and the SDK's own in the other.

Fights. In `TrainerAgent` a fight is a choice of outcomes. In `TrainerFights` it
is played: a turn of `simulateAuto`, `simulateGym` or `simulateBattle` is a step,
`fight` holds what those functions keep in local variables, and the trainer is
written when the fight ends, as in the code. `Seen` maps hit points to the three
classes of `TrainerAgent`; `ImplementsTrainer` says that every step is one of its
steps or leaves what it sees as it was.

The absence. `runOfflineCatchup` is synchronous, so between `BeginCatchup` and
`EndCatchup` only `CatchupTick` happens, with the engine's own cooldown.

The trainer. A tick runs to its end without interruption, so each outcome of a
tick is one action: `HealTick`, `WinGym`, `LoseGym`, `MoveTick`, `Search` (no
encounter, or backed off), `LoseBattle`, `WinBattle` (the latter with the ball
thrown or not, held or not, and the placement). `CoolsDown` is the side effect
of `shouldChallengeGym`: it happens on ticks that ask, and only there. Towns are
numbered in the order of their gyms; in the world's data each town's
`requiredBadge` is the badge of the town before, so `Moves` asks for one badge.

Abstractions, and what they cost:
- in `TrainerAgent` hit points are three classes: none, under 15 percent, the
  rest; these are all `engine.ts` tells apart. A fight lowers the class by any
  amount, a level may raise it again; that this allows everything the damage
  arithmetic can give is what `ImplementsTrainer` checks;
- the dice of a hit are the whole numbers between the ends of its variance; the
  code computes the ends in floating point, so they are rounded both ways;
- in `TrainerFights` too a fight gives 0 to `MaxGain` levels; `turns` is 0
  outside the two loops that count them; a staged battle's event log, statuses
  (recorded only) and verdict are left out;
- an account in a transaction is named by its role: the SDK and the program
  derive it from the same seeds;
- xp below a level is left out of the trainer loop: a fight gives 0 to `MaxGain`
  levels, none above `MaxLevel`; `Progression` has the xp, and `OneLevelPerFight`
  shows, for gyms of two, three and four monsters as `world.ts` has them, that
  `MaxGain = 1` would do without xp buffs (`OneLevelAtMost`: up to six);
- the SDK computes the quote of an instant sale in doubles: any whole number
  within `DoubleSlack` of the payout, the payout itself while the product of
  floor and basis points is at most `DoubleExact` (2^53);
- the table `XpForLevel` holds the values of the code's two power laws, rounded
  down; a reward that is a whole number may lose one in the code's floating
  point, so `WildXpReward` is the set of both;
- in `Progression` stats are hit points only, derived from template and level,
  and a fight takes one of `Wounds`;
- `SaveResume` keeps one snapshot; the version check, cached moves and defaults
  for missing fields are left out; `OfflineCatchup` leaves out the count of
  battles and the report's text;
- `wild` species of a route are a set; the rarity test of `encounter.ts` is the
  choice of the rare pool;
- display label `state`, `totalBattles`, `affection`, names, events, rent,
  bumps and timestamps are left out: no modelled decision reads them;
- `listing.active` is false only inside the instruction that closes the
  account, so an open listing is an active one.

An operator named `Mut...` is a mutated form of the one defined after it and is
used by no specification. `PROJECT.json` pairs each property with one: put in
place of the original, the run must find the property violated.

## 3. Runs

| Run | Instance | Shows |
| --- | --- | --- |
| `sinks` | 2 players, one can pay everything once, the other lives on gifts; counters filled | `SinkTypeOK`, `ProgressIsPaid`, `BurnNeverOverstated`, `BadgesBackedByWins`, `ProgressIsPermanent` |
| `market` | 1 card, 2 wallets, fees accepted and rejected, prices 0 and 10, floors 0, 1, 4, counters up to 10 | `MarketTypeOK`, `PoolSolvent`, `OpenOnlyWithFloor`, `SellerCanCancel`, `EveryPayoutBuysACard`, `FundSpec` |
| `client` | 2 cards of one wallet, the client; the treasury is the wallet `u2` | `ListedIsEscrowed`, `MintedMatchesRecords`, `ReadsAreFaithful`, `ListingClosesExactly`, `CustodySpec`, `PurchaseAsRead`, `SaleAsQuoted`, `LandsAsCalled` |
| `trainer_roster` | 2 towns, 6 species, party 3, box 1 | `TrainerTypeOK`, `BadgesInOrder`, `NoDuplicateSpecies`, `BallsAccounted`, `TypeSlotsKept`, `OnlyRaresPassTheCap`, `CaughtIsKept`, `PartyPowerNeverFalls` |
| `trainer_world` | the 12 towns, a starter that catches nothing | `CooldownEnds`, `KeepsPlaying` |
| `progression` | 3 species of the sample roster, 6 birth levels, 2 fights and 2 grants in any order | `LevelMatchesXp`, `StageMatchesLevel`, `LevelsHealNoWounds`, `OneLevelPerFight` |
| `save_resume` | 2 towns, 3 species, party 1, box 1, saves and restores without bound, absences from a clock set back to three ticks with a limit of two | `SnapshotAccounted`, `RestoredInOrder`, `SummaryIsTrue`, `RestsAfterLoss` |
| `fights` | 2 towns, 3 species of three types, party 2, real damage at levels 1 to 3 | `NoQuickKnockout`, `ImplementsTrainer`, `GymFightsEnd` |
| `promise`, `lead`, `builders`, `stage` | as above | one documented claim each that the code does not keep |

Why the bounds are enough.
- `MaxU64` and `MaxU32` stand for the widths of the counters. They are small so
  that every checked addition fails somewhere: in `market` the fee of 3 and the
  cut of a sale fill `lifetime_in` after a few steps, in `sinks` the last charge
  does not fit `total_burned`, and `MaxU32 = 2` stops the third win.
- `MaxCaught = 1` bounds `total_caught`, 64 bits in the code; each catch pays
  for itself, so a second one adds nothing to the first.
- Prices and fees include those that round: at a fee of 2000 basis points a
  price of 10 or 5 has a fee of 2 or 1, whose 60 percent rounds down; a floor of
  1 pays nothing. Rejected inputs are there too: price 0, tier 6, rarity 3,
  badge 12, fee 2001.
- In `trainer_roster` the third catch fills the roster and the fourth replaces
  a monster, in party or box, the lead included; the three-level range lets a
  monster reach `MaxLevel`, and a rare joins above it. `Power` grows with the level, as the stat model does.
- `progression` starts around each evolution level, the split at 10, the rookie
  bands, and at and above the cap; one grant of 400000 crosses both evolutions
  and reaches the cap, one of 8000 ends at the level of the first. Two fights and two grants suffice: the state after each
  is again a level with some xp and a wound.
- `save_resume` has no bound of its own; the trainer's is small because each
  badge and catch is one. Its absences are a negative one, one below a tick, a
  whole tick, the limit, and one above it with a part of a tick.
- `client` has one read or transaction under way at a time; more of them are the
  other signers' steps. Its calls include a pause byte of 264, which the codec
  masks to 8. The floors are 2 and 4, of which one has an exact quote
  (`DoubleExact = 10000`) and the other one that may be a lamport off. The two
  cards have the same owner, so they are symmetric.
- In `fights` the starter cannot hurt a ghost for more than a point, so a hunt
  runs to `AutoTurnCap` (5, 20 in the code), and loses a gym alone that it wins
  with a second member; `BattleTurnCap` is 3 (24 in the code), the turns after
  which the cap no longer protects. All wild and gym levels are below 16, so the
  first gate of `moves.ts` is the one in use; the others are tables.
- `trainer_world` has the code's own numbers: 55, 2, 5, 3, and the levels of
  `world.ts`. Catching is off so that the party stays the starter; it is the
  run about the world, not about the roster (a party whose lead has fainted can
  get stuck: that is the run `lead`). `MaxGain = 2` bounds the levels of
  one fight.

None of the runs can deadlock: a monster can always be healed, a wallet can
always pay itself, burn or move nothing new, a tick always has an outcome, and a
fight always ends or has a turn.

Fairness. The on-chain specifications have none: nobody has to send a
transaction, and no liveness is claimed of them. `FairTrainerSpec`
asks for `WF(Tick)` only: the host calls `tick` for ever, as the loops of
`offline.ts` and `balance.ts` do. Nothing is assumed of the dice: every fight may
be lost for ever. `KeepsPlaying` therefore does not say that the trainer wins
its gyms (a lone starter, whose stats stop at level 50, cannot win the last one);
it says that no level gate, cooldown, badge rule or flee rule leaves it where no
gym may be challenged and no wild fought. That is what fails when a route's
levels, the flee gap and a gym's level do not fit together: without the badge
asked for on the road (`MutMoves`) the trainer walks on to a route from whose
wilds it backs off for ever. `FightsSpec` has `WF(GymTurn \/ EndGym)`: `simulateGym` is a loop in one
synchronous call, so its next turn comes; no die is assumed to be fair.

Findings. Each is a sentence of the documents or comments that the code does not keep; all
are in `PROJECT.json` with their lines.
- `promise`: instant sell can be on while the pool cannot pay. `update_floor`
  checks the cover, `set_instant_sell` does not, and a sale that drains the pool
  leaves the switch on. No money is lost: the sale fails (`PoolSolvent` holds).
- `lead`: a lead at zero is not "under 15 percent" for `tick`; with a second
  member that backs off from every wild the run never heals or fights again.
- `stage`: a species with `ev2` and no `ev1` never grows to its last stage,
  though it is created in it.
- `builders`: every builder of the SDK puts the config PDA first, every context
  of the program the signer; the market builders leave out the vault, and the
  purchase the treasury.

Noticed but not run: `saveTrainer` speaks of a snapshot (`src/save.ts:22`), which
shares badges and items with the live trainer, as `Shared` models;
`src/save.ts:13` says a run can resume "bit-for-bit" with the random state, while
the gym cooldown is not saved, so the next tick of a restored run may challenge
a gym the saved run had to wait for (`Load`); `docs/program.md:63` calls `burn_bps` the sink burn share,
while `compute_split` uses the constant and nothing reads the stored value (the
model stores it and, like the code, does not read it); `docs/engine.md:279-281`
lets a roster upgrade pass the type rule, while `shouldCatch` applies the
upgrade test only to a full roster. `docs/tokenomics.md:158` lets each stage be
paused through `set_pause`, while `deploy_agent`, `gym_challenge` and
`force_evolve` read no bit. `docs/engine.md:146` has a hard cap of 55, while a
rare of the last route is met, and kept, at up to 59 (`OnlyRaresPassTheCap` says
that nothing else passes). `docs/engine.md:41` and `src/typechart.ts:68` let an
immune type take no damage, while both fights deal one point at least
(`src/battle.ts:86`, `src/damage.ts:52`); `GymFightsEnd` depends on it. `docs/engine.md:254` says that
`simulateBattle` does not mutate its inputs, while it caches their moves
(`src/moves.ts:151`), which are not chosen anew at a level-up, only after a save and load. The three moves of
its own type that `docs/engine.md:54` gives a monster are often two, or one
(`PickTier`: the gate leaves fewer, or the step passes over them). `simulateGym`
brings the leader's monster back to full hit points when a member falls, which
no document says. The contexts of the four sinks take the mint read-only, while
`burn` writes it. `PokeageClient` stores a `programId` that its builders ignore
(`sdk/src/client.ts:42`, `instructions.ts:26`).

## 4. Proofs

The proofs hold for every value of the constants under the named assumptions
(`UnitsAssumption`, `AccountsAssumption`, `SinkAssumption`, `MarketAssumption`,
`ClientAssumption`, `RosterAssumption`, `WorldAssumption`, `SameWorldAssumption`,
`FightsAssumption`, `ProgressionAssumption`, `TableAssumption`): units are positive, the vault is no
wallet and not the treasury, the inputs have the types of the instructions'
arguments, a call of the client is what some builder makes of its argument (one of a
64-bit field that fits, as the SDK throws otherwise), initial balances are natural numbers, the token accounts are a finite
set, every town has a gym, a level range and two pools of species. For the fights
also: starters are made at full hit points, stats are positive, no species has
fewer hit points at level 50 than at level 1 (true of all fifty in
`src/data/monsters.ts`), a gym's team is of known species and its strongest has
the gym's level. Starts of `Progression` are levels of its table, which ends at
59, the highest level a rare is met at. TLC evaluates the assumptions on every run.

`SumProofs`. The library has `SumFunction` and no theorem about it, and its
definition is a fold, a recursive function over sets, which needs an induction.
The provers cannot instantiate the library's induction theorems, but a least
counterexample needs no induction rule for an operator: the sums over the
subsets of the domain are one function, the sizes of the subsets on which it is
wrong are a set of numbers, and a set of numbers that is not empty has a least
one. `SumEquation` says that the sum over a set is the value at a member
plus the sum over the rest, for whichever member is taken; `SumChanged` how
the sum moves when one value does, `SumRename` that it does not depend on the
names of the arguments. `ProgressIsPaid` and `PartyPowerNeverFalls` rest on them.

The arithmetic of fees stands at the head of the module that uses it.
`SplitIsLossless` (`SinkProofs`): burned part and pool part of a sink fee are
natural numbers that add up to it. `BpsOfBound` (`MarketProofs`): `BpsOf` of at
most 10000 basis points lies between 0 and the amount, so the narrowing in
`bps_of` never fails for the shares in use; from it `SaleIsLossless` and
`MintIsLossless` for the parts of a price and of a mint fee.

`SinkProofs`. The inductive invariant is
`SinkInv == SinkTypeOK /\ NothingBeforeConfig /\ BurnNeverOverstated /\ BadgesBackedByWins`.
`NothingBeforeConfig` says that no agent is deployed and nothing is burned
before `initialize`; without it the step of `initialize`, which zeroes
`total_burned`, would not preserve `ProgressIsPermanent`. One lemma gives the
effect of a charge on balances, supply and total, one per instruction the effect
on the player; each step follows from two of them. `AllProgressIsPaid` is
`ProgressIsPaid` itself: the value of all progress, a sum over the players, is
at most what was burned and paid to the treasury. A step serves one player, so
by `SumChanged` the sum grows by what that player gained, and the charge of the
same step adds as much to what was paid.

`MarketProofs`. The inductive invariant is `MarketInv`, the conjunction of the
type invariant, `PoolSolvent`, `ListedIsEscrowed`, `MintedMatchesRecords`,
`OpenOnlyWithFloor`, finiteness of the card records, and `Unopened`: before
`initialize` the pool is new and nothing is recorded. `Unopened` is needed
because `initialize` overwrites pool and count. `MoveLemma` says of every
account what a payment does to it, also if both ends are the same; the effect
lemmas (`MintEffect`, `ListEffect`, `BuyEffect`, `SellEffect`, `PaymentEffect`)
add the payments of one instruction up, whoever plays which part. They are
stated for `AnyNext`, the instructions with every argument of its type, of which
`MarketNext` has the inputs of the instance (`NextIsAny`): what is proved does
not depend on which inputs a run enumerates.

In the same module `PoolIsAFund` maps the vault's lamports to the fund's cash
and the pool's books to its records; every action is a deposit, a gift, a
payment or a stutter. `MarketKeepsCustody` maps the owner of a listed card to
its seller and of any other to its holder (escrow and vault are dead ends, whose
cards move no more), and the wallets' purses to the
lamport ledger: a sale must leave a seller who does not buy the card back richer,
which is what tells a sale from a withdrawal by the wrong signer. `ListingsCloseExactly` and
`PayoutsBuyCards` prove the two action properties.

`ClientProofs`. The transactions of a client carry what the SDK wrote into them:
numbers out of a buffer, a masked byte, a price that was read earlier.
`ClientIsAny` says that each of its steps is none to the market, or one of
`AnyNext`; so escrow, custody, closing and the count of mints are proved of
`ClientSpec` too. The inductive invariant is
`ClientInv == MarketInv /\ ClientTypeOK /\ UpToDate`: `ClientTypeOK` says what a client
can be in the middle of and that its transaction is what a builder makes of what
it read or was given, `UpToDate` that, as long as `stale` is false, what it
holds is what the chain has. TLC checked both on the instance of `client` first.
- `ClientReadsFaithfully` reads every stored field at its place and width. The
  pause byte is a sum of bits over the set of flags (`ByteOfFlags`, from
  `SumProofs`), and `FlagsOf` gives the set back (`BitsAreFlags`);
  `MaskKeepsFlags` says that masking a number to a byte loses none of the four flags.
- `PurchasesAreAsRead`, `SalesAreAsQuoted` and `CallsLandAsGiven` follow from
  `ClientInv` and the effect lemmas of `MarketProofs`; a quote is within
  `QuoteError` of the payout, and no less than zero (`QuoteBound`).
- `NoBuilderIsAccepted` is the finding `builders` for all twelve instructions,
  and `SdkAccountsNeverLand` its consequence: without the account order of the
  IDL (`~ViaIdl`) a client's business never ends with a change of the chain.

`TrainerProofs`. Nine actions come down to two ways in which a tick changes party
and box (`TickRoster`): it carries them over, each place keeping its species
and, below the cap, its level or more; or it does so and one wild of the
route, which the decision let in, enters. `CatchEffect` says what the
second does: the newcomer takes a place that was free, or the
place of one that is released, and which of these it may be follows from
`ShouldCatch` and `PlaceNewMonster` together. From the two:
- `TrainerInv` (types, sizes of party and box) is inductive by itself; badges
  and balls need only the actions;
- `NoDuplicateSpecies`: a species that is owned is not let in, and a replacement
  puts it where another one was;
- `TypeSlotsKept`: a newcomer in the party meets a free slot of its type, is
  rare, or takes the place of one of its type;
- `OnlyRaresPassTheCap`, under `OnlyRaresMetAboveCap`, which says of routes and
  starters that only rares are met above the cap; the runs evaluate it on the
  world's data;
- `CatchIsKept`: the two predicates agree, so who is counted is owned;
- `PowerNeverFalls`: what is released is the weakest, and the newcomer is not
  weaker.
Two conditions on `Power` are hypotheses of these theorems, as it is a constant
over all naturals, on which TLC cannot evaluate an assumption: `PowerIsNat`
(there is a weakest monster; `ResumeProofs` and `FightProofs` need it too) and, for `PowerNeverFalls`, `LevelsAddPower`.
`power.ts` keeps both: it adds up non-negative parts that do not fall with the level.

`ResumeProofs`. `SaveResume` and `OfflineCatchup` restore a trainer and let it
go on from there, so what is proved of a run that began at a start must hold of
one that began in the middle. `ResumeInv` says that the live trainer and the
saved one are each `Sound` (in the shape of `TrainerTypeOK`, badges in order,
balls accounted), and that a snapshot held as an object `Shares` badges and
balls with the live one as the code's does. `Rested` adds that after a loss the next tick of
the same engine heals, `OfflineInv` and `UnderWay` that during a catch-up the
summary counts from the trainer it began with. They were checked by TLC first.
From them `SnapshotAccounted`, `RestoredInOrder`, `SummaryIsTrue` and
`RestsAfterLoss`; `OfflineImplementsSave` shows that a catch-up is a sequence of
steps of `SaveResume`.

`FightProofs`. `FightsImplementTrainer` is `ImplementsTrainer`: with the fights
played turn by turn the trainer is still the one of `TrainerAgent`, for every
template, gym and route. What `TrainerProofs` proves of the trainer therefore
holds with the fights played out. Three parts:
- `Seen` forgets hit points and moves. `SeenAppend`, `SeenConcat` and
  `SeenRemoveAt` say that it commutes with what the roster does to its
  sequences, so `SameDecision` and `SamePlacement`: who is caught and where it
  goes depends only on what `TrainerAgent` sees. The weakest member is the same
  on both sides by `WeakestIsMember` of `TrainerProofs`.
- Hit points. `HitPointsGrow`: a level never lowers the maximum, from the
  interpolation and the assumption on templates. So a grown monster is trained
  (`GrownIsTrained`), and a struck one is in the same class or a lower one
  (`ClassFalls`).
- `FightInv`, which is inductive. A tick of `TrainerAgent` is one step and a
  fight here is many, so the invariant keeps what the last one needs: the
  conditions of the tick still hold, and only the fight's own hit points have
  changed. In a gym (`GymInv`) those before the fighter have fallen, those
  behind it are untouched, and a beaten gym leaves someone standing; in a hunt
  (`AutoInv`) not both have fallen, without which a knocked-out winner would
  refute the mapping. `LiveInv` says that after n turns, n at most 2, a side that began at full hit points has lost at
  most n caps. TLC checked `FightInv` on the instance of `fights` first.

Each action then maps to a tick or to a stutter, one lemma for each
(`HealIsHeal` to `WonHunt`). `TwoTurnsAreSurvived` is `NoQuickKnockout`, from
`LiveInv`: two caps of 40 percent, each rounded up, are less than the whole from
nine hit points on. `GymFightsWear` is the variant behind `GymFightsEnd`, for every team and die: a turn
makes a rival fall, a member fall, or the rival in front weaker, and hit points come
back only with a fall, of which there are at most as many as monsters on both sides.
It follows from `HitHurts` (a hit takes a point at least) and `GymInv` (both in front
stand); TLC checked it on the instance of `fights` too.

`ProgressionProofs`. The loop of `grantXp` is the recursive function of
`LevelUps`, whose value after n passes exists for every n (`PassTableExists`) and
has grown from what it began with (`Grew`: xp plus the cumulative xp of the
level is what it was, no more hit points are missing than before, and the stage
fits if it did): both by a least counterexample, as in `SumProofs`. Each pass
adds a level or ends the loop, so `MAX_LEVEL` passes are enough (`LoopGrows`).
`CumulativeXp` has its equations in the same way. From them, with `ProgressInv`
(all xp is accounted for and no level is due), every property of the run:
- `LevelsMatchXp`: `grantXp` agrees with `cumulativeXp` however the xp was cut;
- `StagesMatchLevel`, if every line with a last stage has the one before it at a
  lower level: the three species of the finding `stage` are the ones that do not;
- `WoundsAreKept`: levels do not heal, for all hit points that do not fall from
  level 1 to 50;
- `OneLevelAtMost`, for starts from level 2 and gyms of up to six. The proof
  shows why: 252 xp is the most such a gym gives, no more than each level from
  3 on asks for, so it cannot cross two. Levels 1 and 2 ask for 191 together: a gym
  of three, which gives 156, takes a monster close to level 2 over both.

Only model-checked:
- `SellerCanCancel`, which uses `ENABLED`. What it rests on is proved: by
  `ListingsAreBacked` and `MarketTypeCorrect` an open listing has a wallet as its
  seller and its card in escrow, and these are all the guards of `CancelListing`;
- the liveness properties `CooldownEnds`, `KeepsPlaying` and `GymFightsEnd`. Of the
  last the safety half is proved (`GymFightsWear`); that a lexicographic descent
  ends is an induction over data;
- the violations. `NoBuilderIsAccepted` proves the cause of one of them.

## 5. Not modelled, and the plan

Not modelled: statuses (no caller in the engine), affection, pricing, rng, rival
trainers and analytics, the batch harness (floating-point averages), the odds of
encounters and catches (choices here), the SDK's player decoder, token balances
and price helpers, the CLI's output.

A module that joins sinks and market was considered and is not worth having: they
share `Config` only, whose two instructions each of them has as its own actions, and
no instruction of one half writes what the other half reads beyond it.

What a next step would be, in this order; new properties join the run whose
instance reaches them:
1. the player decoder and `token.ts` in `SdkClient`, with the sinks as the
   instructions its calls land in;
2. the odds of encounters and catches, as bounds on the chances (`catch.ts`
   computes them in floating point);
3. the verdict of `simulateBattle` when the turn cap ends it.

## 6. Running

    tlc -config MCMarketProgram.cfg MCMarketProgram
    tlapm MarketProofs.tla

Each run ends within about three minutes on two workers.
