---------------------------- MODULE TrainerFights ----------------------------
(***************************************************************************)
(* The trainer with the fights inside its ticks: hit points, turns and     *)
(* damage (simulateAuto, simulateGym of src/battle.ts), and the battles a  *)
(* host stages beside the run (simulateBattle).  A step is one turn.  The  *)
(* trainer is written when a fight ends, so that the module implements     *)
(* TrainerAgent, whose fights are choices.                                 *)
(*                                                                         *)
(* The conditions of a tick are those of TrainerAgent, asked of the        *)
(* trainer as it sees it.  As there, a won fight gives up to MaxGain       *)
(* levels; the registry knows every species of a gym.                      *)
(***************************************************************************)
EXTENDS Roster, Battle

CONSTANTS
    LastTown, GymLevel, RouteMin, RouteMax, WildPool, RarePool, RareBonus,
    MaxLevel, FleeGap, GymCooldown, BallsPerBadge, MaxGain,
    Starters, InitialBalls, StartTowns, Strategies,     \* as in TrainerAgent
    Templates,        \* of each species: type, stats at level 1 and at 50
    GymTeams,         \* of each town: species and levels, in order
    AutoTurnCap,      \* 20, the turns of simulateAuto
    BattleTurnCap,    \* BATTLE_TURN_CAP, 24
    Staged            \* bound: the species whose battles a host stages

VARIABLES
    party, boxed,     \* as team and box, with hit points and moves
    badges, location, ball, totalCaught, strategy, gymCooldown,
    fight             \* the fight of the tick, or NoFight

fightVars ==
    <<party, boxed, badges, location, ball, totalCaught, strategy, gymCooldown, fight>>

Stats(m) == StatsAtLevel(Templates[m.species], m.level)

\* Under 15 percent of its hit points a monster needs healing.
Class(m) ==
    CASE m.hp = 0 -> Fainted
      [] m.hp > 0 /\ 100 * m.hp < 15 * Stats(m).hp -> Low
      [] OTHER -> Healthy

Seen(members) ==
    [i \in DOMAIN members |->
        [species |-> members[i].species, level |-> members[i].level, hp |-> Class(members[i])]]

Agent == INSTANCE TrainerAgent WITH team <- Seen(party), box <- Seen(boxed)

\* What TrainerAgent assumes of the world; a starter is made at full hit points.
ASSUME SameWorldAssumption ==
    /\ LastTown \in Nat \ {0}
    /\ GymLevel \in [1 .. LastTown -> Nat]
    /\ {RouteMin, RouteMax} \subseteq [1 .. LastTown -> Nat \ {0}]
    /\ {WildPool, RarePool} \subseteq [1 .. LastTown -> SUBSET Species]
    /\ RareBonus \subseteq Nat
    /\ {MaxLevel, FleeGap, GymCooldown, BallsPerBadge, MaxGain, InitialBalls} \subseteq Nat
    /\ Starters \subseteq Monsters /\ \A m \in Starters : m.hp = Healthy
    /\ StartTowns \subseteq 1 .. LastTown
    /\ Strategies \subseteq StrategyType

\* The stats of a template, the target's at least the base's as in the roster.
StatNames == {"hp", "atk", "def", "spd"}

ASSUME FightsAssumption ==
    /\ \A s \in Species :
         /\ Templates[s].type = TypeOf[s] /\ TypeOf[s] \in MonsterTypes
         /\ {Templates[s].base, Templates[s].target} \subseteq [StatNames -> Nat \ {0}]
         /\ Templates[s].base.hp <= Templates[s].target.hp
    /\ \A town \in Agent!Towns :
         /\ GymTeams[town] \in Seq([species : Species, level : Nat])
         /\ \E i \in DOMAIN GymTeams[town] : GymTeams[town][i].level = GymLevel[town]
         /\ \A i \in DOMAIN GymTeams[town] : GymTeams[town][i].level <= GymLevel[town]
    /\ {AutoTurnCap, BattleTurnCap} \subseteq Nat
    /\ Staged \subseteq Species

-----------------------------------------------------------------------------
\* No moves are chosen yet; else the gate they were chosen under.
NoMoves == 0

Fresh(species, level) ==
    [species |-> species, level |-> level, moves |-> NoMoves,
     hp |-> StatsAtLevel(Templates[species], level).hp]

Rested(members) == [i \in DOMAIN members |-> [members[i] EXCEPT !.hp = Stats(members[i]).hp]]

\* A monster with `gain` levels more, up to MaxLevel, and the hit points they add.
Grown(m, gain) ==
    LET level == IF m.level + gain <= MaxLevel THEN m.level + gain ELSE m.level
        max   == StatsAtLevel(Templates[m.species], level).hp
    IN  [m EXCEPT !.level = level, !.hp = AtMost(max, @ + max - Stats(m).hp)]

\* A fighter with its stats; a gym's monster has stats of its own.
Battler(m) == [type |-> TypeOf[m.species], level |-> m.level, stats |-> Stats(m)]
Wild(w) == Battler([species |-> w.species, level |-> w.level])
Leader(entry) == Combatant(Templates[entry.species], entry.level)

NoFight == [mode |-> "none"]
Idle    == fight = NoFight

\* Who fights, the party's hit points, and the foe in front.
Begun(mode, who, entry, foe) ==
    [mode |-> mode, who |-> who, hp |-> [i \in DOMAIN party |-> party[i].hp],
     entry |-> entry, foeHp |-> foe.stats.hp, turns |-> 0, rival |-> 1]

Me   == Battler(party[fight.who])
MyHp == fight.hp[fight.who]
Standing(hp) == {i \in DOMAIN hp : hp[i] > 0}

-----------------------------------------------------------------------------
FightsInit ==
    /\ party \in {<<Fresh(s.species, s.level)>> : s \in Starters}
    /\ boxed = <<>> /\ badges = <<>>
    /\ location \in StartTowns
    /\ ball = InitialBalls /\ totalCaught = 0
    /\ strategy \in Strategies
    /\ gymCooldown = 0
    /\ fight = NoFight

HealTick ==
    /\ Idle /\ Agent!NeedsHeal
    /\ party' = Rested(party)
    /\ UNCHANGED <<boxed, badges, location, ball, totalCaught, strategy, gymCooldown, fight>>

MoveTick ==
    /\ Idle /\ Agent!Moves
    /\ location' = location + 1
    /\ party' = Rested(party)
    /\ UNCHANGED <<boxed, badges, ball, totalCaught, strategy, gymCooldown, fight>>

Hunted == gymCooldown' = IF Agent!CoolsDown THEN gymCooldown - 1 ELSE gymCooldown

Search ==
    /\ Idle /\ Agent!Hunts /\ Hunted
    /\ UNCHANGED <<party, boxed, badges, location, ball, totalCaught, strategy, fight>>

\* Until the fight ends only the fight changes.
Fighting == UNCHANGED <<boxed, badges, location, ball, totalCaught, strategy, gymCooldown>>

-----------------------------------------------------------------------------
\* The living members, in order, against the first of the gym.
BeginGym ==
    /\ Idle /\ Agent!ChallengesGym
    /\ fight' = Begun("gym", Agent!Fighter, NoFight, Leader(GymTeams[location][1]))
    /\ UNCHANGED party /\ Fighting

GymOver ==
    fight.mode = "gym"
    /\ (Standing(fight.hp) = {} \/ fight.rival > Len(GymTeams[location]))

\* When either side falls the next match begins, with the leader's monster
\* at full hit points, a half-beaten one too.
GymTurn ==
    /\ fight.mode = "gym" /\ ~GymOver
    /\ LET foe == Leader(GymTeams[location][fight.rival]) IN
       \E given \in DamageSimple(Me, foe), taken \in DamageSimple(foe, Me) :
         LET t     == Turn(MyHp, fight.foeHp, given, taken, Me.stats.spd >= foe.stats.spd)
             hp    == [fight.hp EXCEPT ![fight.who] = AtLeast(0, t.hp)]
             rival == IF t.foeHp <= 0 THEN fight.rival + 1 ELSE fight.rival
         IN  fight' = [fight EXCEPT
                !.hp = hp, !.rival = rival,
                !.who = IF Standing(hp) = {} THEN @ ELSE Min(Standing(hp)),
                !.foeHp = CASE t.hp > 0 /\ t.foeHp > 0 -> t.foeHp
                            [] t.hp <= 0 -> foe.stats.hp
                            [] OTHER -> IF rival > Len(GymTeams[location]) THEN 0
                                        ELSE Leader(GymTeams[location][rival]).stats.hp]
    /\ UNCHANGED party /\ Fighting

\* The party with the hit points the fight left.
AfterFight == [i \in DOMAIN party |-> [party[i] EXCEPT !.hp = fight.hp[i]]]

EndGym ==
    /\ GymOver
    /\ \/ /\ fight.rival > Len(GymTeams[location])
          /\ badges' = Append(badges, location)
          /\ ball' = ball + BallsPerBadge
          /\ \E gain \in [DOMAIN party -> 0 .. MaxGain] :
               party' = [i \in DOMAIN party |->
                           IF party[i].hp > 0
                           THEN Grown(AfterFight[i], gain[i]) ELSE party[i]]
          /\ UNCHANGED gymCooldown
       \/ /\ fight.rival <= Len(GymTeams[location])
          /\ party' = AfterFight
          /\ gymCooldown' = GymCooldown
          /\ UNCHANGED <<badges, ball>>
    /\ fight' = NoFight
    /\ UNCHANGED <<boxed, location, totalCaught, strategy>>

-----------------------------------------------------------------------------
\* The first living member against a wild of the route, not too strong.
BeginHunt ==
    /\ Idle /\ Agent!Hunts
    /\ \E wild \in Agent!Wilds :
         /\ ~Agent!TooStrong(wild)
         /\ fight' = Begun("auto", Agent!Fighter, wild, Wild(wild))
    /\ UNCHANGED party /\ Fighting

AutoOver ==
    fight.mode = "auto"
    /\ (MyHp <= 0 \/ fight.foeHp <= 0 \/ fight.turns = AutoTurnCap)

AutoTurn ==
    /\ fight.mode = "auto" /\ ~AutoOver
    /\ LET foe == Wild(fight.entry) IN
       \E given \in DamageSimple(Me, foe), taken \in DamageSimple(foe, Me) :
         LET t == Turn(MyHp, fight.foeHp, given, taken, Me.stats.spd >= foe.stats.spd)
         IN  fight' = [fight EXCEPT !.hp[fight.who] = AtLeast(0, t.hp),
                                    !.foeHp = AtLeast(0, t.foeHp), !.turns = @ + 1]
    /\ UNCHANGED party /\ Fighting

LoseHunt ==
    /\ AutoOver /\ fight.foeHp > 0
    /\ Hunted
    /\ party' = AfterFight
    /\ fight' = NoFight
    /\ UNCHANGED <<boxed, badges, location, ball, totalCaught, strategy>>

\* The winner is trained, then the ball is thrown or not.
WinHunt ==
    /\ AutoOver /\ fight.foeHp <= 0
    /\ Hunted
    /\ \E gain \in 0 .. MaxGain :
         LET i      == fight.who
             after  == [party EXCEPT ![i] = Grown(AfterFight[i], gain)]
             throws == ShouldCatch(after, boxed, ball, strategy, fight.entry)
             placed == PlaceNewMonster(after, boxed,
                                       Fresh(fight.entry.species, fight.entry.level))
         IN  /\ ball' = IF throws THEN ball - 1 ELSE ball
             /\ \/ party' = after /\ UNCHANGED <<boxed, totalCaught>>
                \/ /\ throws
                   /\ party' = placed.team /\ boxed' = placed.box
                   /\ totalCaught' = totalCaught + 1
    /\ fight' = NoFight
    /\ UNCHANGED <<badges, location, strategy>>

-----------------------------------------------------------------------------
\* A host stages a battle of a member, to show it.
BeginBattle ==
    /\ Idle
    /\ \E i \in DOMAIN party, wild \in Agent!Wilds :
         /\ {party[i].species, wild.species} \subseteq Staged
         /\ fight' = Begun("live", i, wild, Wild(wild))
    /\ UNCHANGED party /\ Fighting

BattleOver ==
    fight.mode = "live"
    /\ (MyHp <= 0 \/ fight.foeHp <= 0 \/ fight.turns = BattleTurnCap)

\* The moves of a monster are chosen once, at its first strike, and kept.
GateOf(m) == IF m.moves = NoMoves THEN Gate(m.level) ELSE m.moves

Strikes(a, d, gate) ==
    LiveHits(a, d, PickMove(MonMoves(a.type, gate), TypeMultiplier(a.type, d.type)))

BattleTurn ==
    /\ fight.mode = "live" /\ ~BattleOver
    /\ LET i     == fight.who
           foe   == Wild(fight.entry)
           first == Me.stats.spd >= foe.stats.spd
       IN  \E given \in Strikes(Me, foe, GateOf(party[i])),
              taken \in Strikes(foe, Me, Gate(foe.level)) :
             LET t == Turn(MyHp, fight.foeHp, given, taken, first) IN
             /\ fight' = [fight EXCEPT !.hp[fight.who] = AtLeast(0, t.hp),
                                       !.foeHp = AtLeast(0, t.foeHp), !.turns = @ + 1]
             /\ party' = IF first \/ t.hp > 0
                         THEN [party EXCEPT ![i].moves = GateOf(party[i])] ELSE party
    /\ Fighting

\* The battle's hit points are written to the member.
MutEndBattle ==
    /\ BattleOver
    /\ party' = AfterFight
    /\ fight' = NoFight
    /\ Fighting

\* The battle leaves the trainer as it was, but for the moves.
EndBattle ==
    /\ BattleOver
    /\ fight' = NoFight
    /\ UNCHANGED party /\ Fighting

-----------------------------------------------------------------------------
FightsNext ==
    \/ HealTick \/ MoveTick \/ Search
    \/ BeginGym \/ GymTurn \/ EndGym
    \/ BeginHunt \/ AutoTurn \/ LoseHunt \/ WinHunt
    \/ BeginBattle \/ BattleTurn \/ EndBattle

\* A gym fight is one synchronous loop: its next turn comes.
FightsSpec ==
    FightsInit /\ [][FightsNext]_fightVars /\ WF_fightVars(GymTurn \/ EndGym)

-----------------------------------------------------------------------------
(***************************************************************************)
(* With hit points and turns the trainer is still the one of TrainerAgent: *)
(* whatever simulateAuto and simulateGym can return is a fight TrainerAgent *)
(* has, a lost gym leaves no member standing, a fainted member is trained  *)
(* by the gym the others win, and a staged battle leaves no trace a tick   *)
(* would act on.                                                           *)
(***************************************************************************)
ImplementsTrainer == Agent!TrainerSpec

(***************************************************************************)
(* Every gym fight ends, though it counts no turns and a falling side      *)
(* brings the next at full hit points: a hit takes one point at least,     *)
(* also of an immune type (calcDamageSimple's outer max).                  *)
(***************************************************************************)
GymFightsEnd == fight.mode = "gym" ~> Idle

(***************************************************************************)
(* The per-hit cap keeps a staged battle from ending at once: who begins   *)
(* at full hit points, nine or more, is standing after two turns whatever  *)
(* the moves, the matchup and the critical hits (calcDamage, STAB, crit    *)
(* and cap together).                                                      *)
(***************************************************************************)
NoQuickKnockout ==
    fight.mode = "live" /\ fight.turns <= 2 =>
        LET me == party[fight.who] IN
        /\ me.hp = Stats(me).hp /\ me.hp >= 9 => MyHp > 0
        /\ Wild(fight.entry).stats.hp >= 9 => fight.foeHp > 0
=============================================================================
