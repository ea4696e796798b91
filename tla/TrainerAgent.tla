---------------------------- MODULE TrainerAgent ----------------------------
(***************************************************************************)
(* The autonomous trainer of the game engine (src/engine.ts): one tick     *)
(* heals, challenges the gym, moves on or hunts.  A tick is synchronous,   *)
(* so each outcome of a tick is one action.                                *)
(*                                                                         *)
(* The dice and the fights are choices over what src/battle.ts,            *)
(* src/encounter.ts, src/catch.ts and src/progression.ts can return: a     *)
(* fight lowers hit points, a won one may raise the level, a level heals   *)
(* the hit points it adds.  The display label `state`, totalBattles and    *)
(* affection are left out: no decision reads them.                         *)
(***************************************************************************)
EXTENDS Roster, Functions

CONSTANTS
    LastTown,         \* towns 1 .. LastTown, in the order of their gyms
    GymLevel,         \* the highest level of each gym's team
    RouteMin, RouteMax,     \* level range of each town's route
    WildPool, RarePool,     \* species of each town's route
    RareBonus,        \* a rare's levels above the route, 3 .. 7
    MaxLevel,         \* MAX_LEVEL, 55
    FleeGap,          \* FLEE_LEVEL_GAP, 2
    GymCooldown,      \* 5
    BallsPerBadge,    \* 3
    MaxGain,          \* bound: levels one fight can give
    Starters, InitialBalls, StartTowns, Strategies

Towns == 1 .. LastTown

ASSUME WorldAssumption ==
    /\ LastTown \in Nat \ {0}
    /\ GymLevel \in [Towns -> Nat]
    /\ RouteMin \in [Towns -> Nat \ {0}]
    /\ RouteMax \in [Towns -> Nat \ {0}]
    /\ WildPool \in [Towns -> SUBSET Species]
    /\ RarePool \in [Towns -> SUBSET Species]
    /\ RareBonus \subseteq Nat
    /\ {MaxLevel, FleeGap, GymCooldown, BallsPerBadge, MaxGain, InitialBalls} \subseteq Nat
    /\ Starters \subseteq Monsters
    /\ StartTowns \subseteq Towns
    /\ Strategies \subseteq StrategyType

VARIABLES
    team, box,        \* the party, lead first, and the box
    badges,           \* the gyms won, by town, in the order won
    location, ball, totalCaught, strategy,
    gymCooldown       \* kept by the Engine object, not by the trainer

trainerVars ==
    <<team, box, badges, location, ball, totalCaught, strategy, gymCooldown>>

\* Shape of the trainer: a party of 1 to PartySize, a box of at most BoxSize.
TrainerTypeOK ==
    /\ team \in Seq(Monsters) /\ Len(team) \in 1 .. PartySize
    /\ box \in Seq(Monsters) /\ Len(box) <= BoxSize
    /\ badges \in Seq(Towns)
    /\ location \in Towns
    /\ ball \in Nat
    /\ totalCaught \in Nat
    /\ strategy \in StrategyType
    /\ gymCooldown \in 0 .. GymCooldown

\* newTrainer, then new Engine.
TrainerInit ==
    /\ team \in {<<m>> : m \in Starters}
    /\ box = <<>>
    /\ badges = <<>>
    /\ location \in StartTowns
    /\ ball = InitialBalls
    /\ totalCaught = 0
    /\ strategy \in Strategies
    /\ gymCooldown = 0

-----------------------------------------------------------------------------
HasBadge(town) == town \in Range(badges)

Alive == {i \in DOMAIN team : team[i].hp > Fainted}

Healed(members) == [i \in DOMAIN members |-> [members[i] EXCEPT !.hp = Healthy]]

\* The conditions of a tick, in its order.
NeedsHeal == Alive = {} \/ (team[1].hp = Low /\ strategy.autoHeal)

\* Asking whether to challenge counts the cooldown down.
GymUnbeaten == strategy.autoGym /\ ~HasBadge(location)

\* Not asked whether it is above zero; one tick short.
MutCoolsDown     == GymUnbeaten
MutCoolsDownLess == GymUnbeaten /\ gymCooldown > 1
CoolsDown        == GymUnbeaten /\ gymCooldown > 0

\* No badge of the gym before is asked for.
MutChallengesGym ==
    /\ ~NeedsHeal
    /\ GymUnbeaten /\ gymCooldown = 0
    /\ team[1].level >= GymLevel[location]

\* The level asked of is that of the first party slot, fainted or not.
ChallengesGym ==
    /\ ~NeedsHeal
    /\ GymUnbeaten /\ gymCooldown = 0
    /\ location > 1 => HasBadge(location - 1)
    /\ team[1].level >= GymLevel[location]

\* No badge is asked for.
MutMoves ==
    /\ ~NeedsHeal /\ ~ChallengesGym
    /\ strategy.autoMove
    /\ location < LastTown

\* In the world's data the next town asks for this town's badge.
Moves ==
    /\ ~NeedsHeal /\ ~ChallengesGym
    /\ strategy.autoMove
    /\ HasBadge(location) /\ location < LastTown

Hunts == ~NeedsHeal /\ ~ChallengesGym /\ ~Moves

\* A monster with levels gained, and the hit points they add.
Raised(m, level, hp) == [m EXCEPT !.level = level, !.hp = hp]

\* The cap stops a level from being counted once it is passed, not before.
MutTrained(m) ==
    {m} \cup {Raised(m, l, h) :
                l \in {n \in m.level + 1 .. m.level + MaxGain : m.level <= MaxLevel},
                h \in m.hp .. Healthy}

\* What a monster may become through xp.  Above MaxLevel nothing changes.
Trained(m) ==
    {m} \cup {Raised(m, l, h) :
                l \in {n \in m.level + 1 .. m.level + MaxGain : n <= MaxLevel},
                h \in m.hp .. Healthy}

\* What a winner may look like after the fight: alive, then trained.
Winner(m) == UNION {Trained([m EXCEPT !.hp = h]) : h \in Low .. m.hp}

-----------------------------------------------------------------------------
HealTick ==
    /\ NeedsHeal
    /\ team' = Healed(team)
    /\ UNCHANGED <<box, badges, location, ball, totalCaught, strategy, gymCooldown>>

\* The living fight in order until one of them, standing, ends the last duel.
\* All who were alive at the start get xp, and a level may revive a fainted one.
WinGym ==
    \E standing \in Alive :
        LET After(i) ==
              CASE i \notin Alive -> {team[i]}
                [] i \in Alive /\ i < standing -> Trained([team[i] EXCEPT !.hp = Fainted])
                [] i = standing -> Winner(team[i])
                [] i \in Alive /\ i > standing -> Trained(team[i])
        IN  /\ ChallengesGym
            /\ badges' = Append(badges, location)
            /\ ball' = ball + BallsPerBadge
            /\ team' \in {t \in [DOMAIN team -> UNION {After(i) : i \in DOMAIN team}] :
                            \A i \in DOMAIN team : t[i] \in After(i)}
            /\ UNCHANGED <<box, location, totalCaught, strategy, gymCooldown>>

\* A challenge is lost when every party member has fainted.
LoseGym ==
    /\ ChallengesGym
    /\ team' = [i \in DOMAIN team |-> [team[i] EXCEPT !.hp = Fainted]]
    /\ gymCooldown' = GymCooldown
    /\ UNCHANGED <<box, badges, location, ball, totalCaught, strategy>>

MoveTick ==
    /\ Moves
    /\ location' = location + 1
    /\ team' = Healed(team)
    /\ UNCHANGED <<box, badges, ball, totalCaught, strategy, gymCooldown>>

-----------------------------------------------------------------------------
\* The wild monsters of the route: its pool within the level range, its rare
\* pool above.
Wilds ==
    [species : WildPool[location], level : RouteMin[location] .. RouteMax[location],
     hp : {Healthy}]
    \cup [species : RarePool[location], level : {RouteMax[location] + b : b \in RareBonus},
          hp : {Healthy}]

\* The first living party member fights.
Fighter == CHOOSE i \in Alive : \A j \in Alive : i <= j

TooStrong(wild) == wild.level > team[Fighter].level + FleeGap

\* Every tick that hunts.
HuntFrame ==
    /\ Hunts
    /\ gymCooldown' = IF CoolsDown THEN gymCooldown - 1 ELSE gymCooldown
    /\ UNCHANGED <<badges, location, strategy>>

\* No encounter, or one that is backed off from.
Search ==
    /\ HuntFrame
    /\ UNCHANGED <<team, box, ball, totalCaught>>

\* The fighter faints, or the turn limit ends the fight.
LoseBattle(wild) ==
    /\ HuntFrame
    /\ ~TooStrong(wild)
    /\ \E h \in Fainted .. team[Fighter].hp : team' = [team EXCEPT ![Fighter].hp = h]
    /\ UNCHANGED <<box, ball, totalCaught>>

\* The decision to throw a ball is made with the trained winner in place;
\* the monster breaks free or is placed, at full hit points.
WinBattle(wild) ==
    \E m \in Winner(team[Fighter]) :
        LET after  == [team EXCEPT ![Fighter] = m]
            throws == ShouldCatch(after, box, ball, strategy, wild)
            placed == PlaceNewMonster(after, box, wild)
        IN  /\ HuntFrame
            /\ ~TooStrong(wild)
            /\ ball' = IF throws THEN ball - 1 ELSE ball
            /\ \/ team' = after /\ UNCHANGED <<box, totalCaught>>
               \/ /\ throws
                  /\ team' = placed.team /\ box' = placed.box
                  /\ totalCaught' = totalCaught + 1

Tick ==
    \/ HealTick
    \/ WinGym
    \/ LoseGym
    \/ MoveTick
    \/ Search
    \/ Hunts /\ \E wild \in Wilds : LoseBattle(wild) \/ WinBattle(wild)

TrainerSpec == TrainerInit /\ [][Tick]_trainerVars

(***************************************************************************)
(* The host calls tick for ever (the loop of src/offline.ts and of the     *)
(* live game).  Nothing is assumed of the dice: every search may find      *)
(* nothing, every fight may be lost.                                       *)
(***************************************************************************)
FairTrainerSpec == TrainerSpec /\ WF_trainerVars(Tick)

-----------------------------------------------------------------------------
(***************************************************************************)
(* Badges are won in the order of the gyms, each once, and no town is      *)
(* reached before the badges of the towns behind it (shouldChallengeGym's  *)
(* previous badge, tick's badge of this town), unless the run began there. *)
(***************************************************************************)
BadgesInOrder ==
    /\ \A i \in DOMAIN badges : badges[i] = i
    /\ location \in StartTowns \/ location <= Len(badges) + 1

(***************************************************************************)
(* A species is owned once, over party and box, however long the run and   *)
(* whichever monsters were released to make room (shouldCatch's duplicate  *)
(* rule against placeNewMonster).                                          *)
(***************************************************************************)
NoDuplicateSpecies ==
    LET roster == team \o box IN
    \A i, j \in DOMAIN roster : roster[i].species = roster[j].species => i = j

(***************************************************************************)
(* No ball is thrown that is not there, and every catch has cost one: the  *)
(* balls left and the monsters caught are at most the balls ever given.    *)
(***************************************************************************)
BallsAccounted ==
    /\ ball >= 0
    /\ ball + totalCaught <= InitialBalls + BallsPerBadge * Len(badges)

(***************************************************************************)
(* At most SameTypeLimit party members of a type, not counting rares,      *)
(* which the override lets in: a replacement in the party never adds one   *)
(* (docs/engine.md:280 "max 2 of a type in party").                        *)
(***************************************************************************)
TypeSlotsKept ==
    \A type \in Types :
        Cardinality({i \in OfType(team, type) : team[i].species \notin RareSpecies})
            <= IF SameTypeLimit = 0 THEN 1 ELSE SameTypeLimit

(***************************************************************************)
(* Who is counted as caught is kept.  doWildEncounter ignores what         *)
(* placeNewMonster returns, which may be "not placed"; so the decision     *)
(* (shouldCatch) and the placement have to agree on every roster: after a  *)
(* catch the roster owns a species it did not own.                         *)
(***************************************************************************)
CaughtIsKept ==
    [][ totalCaught' > totalCaught =>
          \E i \in DOMAIN (team' \o box') :
              ~Owned(team \o box, (team' \o box')[i].species) ]_trainerVars

(***************************************************************************)
(* A tick never weakens the party: its power (getTrainerPower) does not    *)
(* fall, whatever was released for a newcomer, provided levels add power.  *)
(***************************************************************************)
PartyPower(members) == SumFunction([i \in DOMAIN members |-> PowerOf(members[i])])

PartyPowerNeverFalls ==
    [][PartyPower(team) <= PartyPower(team')]_trainerVars

(***************************************************************************)
(* A gym cooldown runs out: whatever fights and heals come between, the    *)
(* ticks of a trainer that challenges gyms bring it to zero.               *)
(***************************************************************************)
CooldownEnds == strategy.autoGym /\ gymCooldown > 0 ~> gymCooldown = 0

(***************************************************************************)
(* Whatever the dice do, a trainer again and again has something to do     *)
(* that can raise its level: a gym it challenges, or a wild of the route   *)
(* that it does not back off from.  The gate of each gym, the badge asked  *)
(* for before moving on, the levels of the next route and the flee gap     *)
(* have to fit together in every town.  (Not of a party whose lead has     *)
(* fainted: see LeadIsHealed.)                                             *)
(***************************************************************************)
HasAMatch == ChallengesGym \/ (Hunts /\ \E wild \in Wilds : ~TooStrong(wild))

KeepsPlaying == []<>HasAMatch

(***************************************************************************)
(* docs/engine.md:314-315 "heal if the whole team fainted or the lead is   *)
(* under 15 percent HP": a lead under 15 percent is healed at some time.   *)
(* tick asks leadAlive too, so a lead with no hit points waits for the     *)
(* whole team to faint; if the next one backs off from every wild of the   *)
(* route, that never happens.                                              *)
(***************************************************************************)
LeadIsHealed ==
    strategy.autoHeal /\ team[1].hp # Healthy ~> team[1].hp = Healthy

\* A world in which only rares are met above the cap: what the property below
\* needs of routes and starters.
OnlyRaresMetAboveCap ==
    /\ \A m \in Starters : m.level > MaxLevel => m.species \in RareSpecies
    /\ \A town \in Towns :
          /\ RouteMax[town] > MaxLevel => WildPool[town] \subseteq RareSpecies
          /\ \A b \in RareBonus :
                RouteMax[town] + b > MaxLevel => RarePool[town] \subseteq RareSpecies

(***************************************************************************)
(* Above MaxLevel are only rares, which join at the level they were met    *)
(* at, up to 7 above their route (generateWildMonster asks for no cap);    *)
(* no training of any length brings another there (grantXp's loop).        *)
(***************************************************************************)
OnlyRaresPassTheCap ==
    LET roster == team \o box IN
    \A i \in DOMAIN roster : roster[i].level > MaxLevel => roster[i].species \in RareSpecies
=============================================================================
