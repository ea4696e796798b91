----------------------------- MODULE Progression -----------------------------
(***************************************************************************)
(* One monster's growth: xp, levels, hit points and evolution              *)
(* (src/progression.ts, src/stats.ts), through fights, heals and grants    *)
(* made by the host, which grantXp is exported for.                        *)
(*                                                                         *)
(* Stats are a function of template and level, so only hit points are      *)
(* kept.  The level-10 split of the curve is in the table XpForLevel.      *)
(***************************************************************************)
EXTENDS Integers, FiniteSetsExt

CONSTANTS
    Templates,        \* [ev1, ev2, base, target]: evolution levels, 0 for none, and hit points
    StartLevels,      \* levels a monster is created at
    WildLevels,       \* levels of the wilds it meets
    GymTeamSizes,     \* how many monsters a gym has, 2 .. 4 in src/data/world.ts
    Wounds,           \* hit points a fight takes
    Grants,           \* xp a host grants
    MaxFights, MaxGrants    \* bounds: fights won and grants of a run

ASSUME ProgressionAssumption ==
    /\ Templates \subseteq [ev1 : Nat, ev2 : Nat, base : Nat \ {0}, target : Nat \ {0}]
    /\ \A t \in Templates : t.base <= t.target
    /\ StartLevels \cup WildLevels \cup Grants \subseteq Nat \ {0}
    /\ Wounds \cup GymTeamSizes \cup {MaxFights, MaxGrants} \subseteq Nat

VARIABLES
    template, mon,    \* the species and its instance: level, xp, stage, hp
    birth, gained,    \* history: the level at creation and all xp granted since
    fights, grants    \* history: how often, for the bounds

progressVars == <<template, mon, birth, gained, fights, grants>>

MAX_LEVEL      == 55
GROWTH_SPAN    == 49
FLEE_LEVEL_GAP == 2

-----------------------------------------------------------------------------
\* 50 * level^1.5 up to level 10, 80 * level^1.7 above, rounded down.
XpForLevel ==
    <<50, 141, 259, 400, 559, 734, 926, 1131, 1350, 1581,
      4714, 5466, 6263, 7104, 7988, 8914, 9882, 10890, 11939, 13026,
      14153, 15318, 16520, 17760, 19036, 20349, 21697, 23081, 24500, 25953,
      27441, 28963, 30518, 32107, 33729, 35383, 37070, 38790, 40541, 42324,
      44139, 45984, 47861, 49769, 51707, 53675, 55674, 57703, 59761, 61849,
      63967, 66114, 68290, 70495, 72728, 74991, 77281, 79600, 81948>>

\* Bound: the levels of the table, above MAX_LEVEL for a rare of the last route.
ASSUME TableAssumption == StartLevels \subseteq DOMAIN XpForLevel

CumulativeXp[level \in DOMAIN XpForLevel] ==
    IF level = 1 THEN 0 ELSE CumulativeXp[level - 1] + XpForLevel[level - 1]

\* The hit points of a level: from base to target over GROWTH_SPAN levels.
StatsHp(t, level) ==
    t.base + ((t.target - t.base) * Min({level - 1, GROWTH_SPAN})) \div GROWTH_SPAN

StageForLevel(t, level) ==
    CASE t.ev2 > 0 /\ level >= t.ev2 -> 2
      [] ~(t.ev2 > 0 /\ level >= t.ev2) /\ t.ev1 > 0 /\ level >= t.ev1 -> 1
      [] OTHER -> 0

\* createMonsterInstance.
Created(t, level) ==
    [level |-> level, xp |-> 0, stage |-> StageForLevel(t, level), hp |-> StatsHp(t, level)]

\* One evolution at most for each level, and the second only from the first.
MutEvolved(t, stage, level) ==
    CASE t.ev1 > 0 /\ stage = 0 /\ level > t.ev1 -> 1
      [] t.ev2 > 0 /\ stage = 1 /\ level > t.ev2 -> 2
      [] OTHER -> stage

Evolved(t, stage, level) ==
    CASE t.ev1 > 0 /\ stage = 0 /\ level >= t.ev1 -> 1
      [] t.ev2 > 0 /\ stage = 1 /\ level >= t.ev2 -> 2
      [] OTHER -> stage

\* The xp left over is forgotten.
MutLevelUpForgets(t, m) ==
    [level |-> m.level + 1, xp |-> 0, stage |-> Evolved(t, m.stage, m.level + 1),
     hp |-> Min({StatsHp(t, m.level + 1), m.hp + StatsHp(t, m.level + 1) - StatsHp(t, m.level)})]

\* A level heals everything.
MutLevelUpHeals(t, m) ==
    [level |-> m.level + 1, xp |-> m.xp - XpForLevel[m.level],
     stage |-> Evolved(t, m.stage, m.level + 1), hp |-> StatsHp(t, m.level + 1)]

\* A level heals the hit points it adds.
LevelUp(t, m) ==
    LET level == m.level + 1 IN
    [level |-> level,
     xp    |-> m.xp - XpForLevel[m.level],
     stage |-> Evolved(t, m.stage, level),
     hp    |-> Min({StatsHp(t, level), m.hp + StatsHp(t, level) - StatsHp(t, m.level)})]

CanLevelUp(m) == m.level < MAX_LEVEL /\ m.xp >= XpForLevel[m.level]

\* One pass of grantXp's loop; a monster that cannot level up is left alone.
Pass(t, m) == IF CanLevelUp(m) THEN LevelUp(t, m) ELSE m

\* Each pass adds a level, so MAX_LEVEL of them are the whole loop.
LevelUps(t, m) ==
    LET after[n \in 0 .. MAX_LEVEL] == IF n = 0 THEN m ELSE Pass(t, after[n - 1])
    IN  after[MAX_LEVEL]

GrantXp(t, m, amount) == LevelUps(t, [m EXCEPT !.xp = @ + amount])

-----------------------------------------------------------------------------
\* In tenths.
RookieMultiplier(level) ==
    CASE level < 30 -> 40 [] level \in 30 .. 44 -> 25 [] OTHER -> 18

\* (5 + 2.5 wild) * max(0.4, 1 - 0.02 (lead - wild)) * rookie in 2000ths.  The
\* code computes in floating point: of a whole number it may lose one.
WildXpReward(lead, wild) ==
    LET exact == (10 + 5 * wild) * Max({40, 100 - 2 * (lead - wild)}) * RookieMultiplier(lead)
        floor == exact \div 2000
    IN  {Max({12, r}) : r \in IF exact % 2000 = 0 THEN {floor - 1, floor} ELSE {floor}}

\* The reward grows with the winner's level.
MutGymXpReward(level, size) == ((15 + size * 8) * level * RookieMultiplier(level)) \div 10

GymXpReward(level, size) == ((15 + size * 8) * RookieMultiplier(level)) \div 10

Wounded(m, wound) == [m EXCEPT !.hp = Max({0, @ - wound})]

-----------------------------------------------------------------------------
ProgressInit ==
    /\ template \in Templates
    /\ birth \in StartLevels
    /\ mon = Created(template, birth)
    /\ gained = 0 /\ fights = 0 /\ grants = 0

Gains(m, amount) ==
    /\ mon' = GrantXp(template, m, amount)
    /\ gained' = gained + amount
    /\ UNCHANGED <<template, birth>>

\* The winner of a wild fight is standing.
BeatWild ==
    /\ mon.hp > 0 /\ fights < MaxFights
    /\ \E wild \in WildLevels, wound \in Wounds :
         /\ wild <= mon.level + FLEE_LEVEL_GAP
         /\ wound < mon.hp
         /\ \E amount \in WildXpReward(mon.level, wild) : Gains(Wounded(mon, wound), amount)
    /\ fights' = fights + 1
    /\ UNCHANGED grants

\* Who began a won gym fight gets xp, fainted in it or not.
BeatGym ==
    /\ mon.hp > 0 /\ fights < MaxFights
    /\ \E wound \in Wounds, size \in GymTeamSizes :
         Gains(Wounded(mon, wound), GymXpReward(mon.level, size))
    /\ fights' = fights + 1
    /\ UNCHANGED grants

LoseFight ==
    /\ mon.hp > 0
    /\ \E wound \in Wounds : mon' = Wounded(mon, wound)
    /\ UNCHANGED <<template, birth, gained, fights, grants>>

Heal ==
    /\ mon' = [mon EXCEPT !.hp = StatsHp(template, mon.level)]
    /\ UNCHANGED <<template, birth, gained, fights, grants>>

HostGrants ==
    /\ grants < MaxGrants
    /\ \E amount \in Grants : Gains(mon, amount)
    /\ grants' = grants + 1
    /\ UNCHANGED fights

ProgressNext == BeatWild \/ BeatGym \/ LoseFight \/ Heal \/ HostGrants

ProgressSpec == ProgressInit /\ [][ProgressNext]_progressVars

-----------------------------------------------------------------------------
(***************************************************************************)
(* Level and xp depend on the total alone, not on how it was cut into      *)
(* rewards: the level is the highest one up to the cap whose cumulativeXp  *)
(* the total reaches, the xp is the rest (the loop of grantXp against      *)
(* cumulativeXp).                                                          *)
(***************************************************************************)
LevelMatchesXp ==
    LET total   == CumulativeXp[birth] + gained
        reached == {l \in birth .. Max({birth, MAX_LEVEL}) : CumulativeXp[l] <= total}
    IN  /\ mon.level = Max(reached)
        /\ mon.xp = total - CumulativeXp[mon.level]

(***************************************************************************)
(* src/stats.ts:43 "evolution stage a species should be at for a given     *)
(* level": the stage a monster grew to is the one it would be created with *)
(* (grantXp's one evolution a level against stageForLevel).                *)
(***************************************************************************)
StageMatchesLevel == mon.stage = StageForLevel(template, mon.level)

(***************************************************************************)
(* Levels do not heal wounds: what a monster lacks of its hit points never *)
(* shrinks in a step that levels it up, by one level or by many, also when *)
(* it had fainted (grantXp carries the gap forward).                       *)
(***************************************************************************)
Missing == StatsHp(template, mon.level) - mon.hp

LevelsHealNoWounds ==
    [][mon'.level > mon.level => Missing' >= Missing]_progressVars

(***************************************************************************)
(* A fight of the engine gives at most one level without xp buffs, for     *)
(* every wild that is not backed off from, every gym of the world and      *)
(* every rookie band: the trainer loop may bound what a fight gives.       *)
(***************************************************************************)
OneLevelPerFight ==
    [][fights' > fights => mon'.level <= mon.level + 1]_progressVars
=============================================================================
