------------------------------- MODULE Battle -------------------------------
(***************************************************************************)
(* The mathematics of a fight: type chart, moves, stats at a level and     *)
(* what one hit can do (src/typechart.ts, src/moves.ts, src/stats.ts,      *)
(* src/damage.ts and the hit of src/battle.ts).                            *)
(*                                                                         *)
(* A fighter is a record with its species' type, level and stats.  The     *)
(* code computes in floating point: a hit is the set of what the dice can  *)
(* give, with the ends rounded both ways.  A move is its type, power and   *)
(* accuracy; statuses are only recorded by the code, pp is not read.       *)
(***************************************************************************)
EXTENDS Integers, Sequences, SequencesExt

GROWTH_SPAN == 49

-----------------------------------------------------------------------------
MonsterTypes ==
    {"fire", "water", "grass", "electric", "ice", "dragon", "fighting", "poison", "ground",
     "flying", "psychic", "bug", "rock", "ghost", "dark", "steel", "normal"}

\* attacker -> the types it is strong against, weak against.
Strong ==
    [fire     |-> {"grass", "bug", "ice", "steel"},
     water    |-> {"fire", "rock", "ground"},
     grass    |-> {"water", "rock", "ground"},
     electric |-> {"water", "flying"},
     ice      |-> {"grass", "ground", "flying", "dragon"},
     dragon   |-> {"dragon"},
     fighting |-> {"normal", "rock", "steel", "ice", "dark"},
     poison   |-> {"grass"},
     ground   |-> {"fire", "electric", "poison", "rock", "steel"},
     flying   |-> {"grass", "fighting", "bug"},
     psychic  |-> {"fighting", "poison"},
     bug      |-> {"grass", "psychic", "dark"},
     rock     |-> {"fire", "ice", "flying", "bug"},
     ghost    |-> {"psychic", "ghost"},
     dark     |-> {"psychic", "ghost"},
     steel    |-> {"ice", "rock"},
     normal   |-> {}]

Weak ==
    [fire     |-> {"water", "rock", "ground", "fire", "dragon"},
     water    |-> {"water", "grass", "electric", "dragon"},
     grass    |-> {"fire", "grass", "flying", "bug", "poison", "dragon", "steel"},
     electric |-> {"electric", "grass", "ground", "dragon"},
     ice      |-> {"fire", "water", "ice", "steel"},
     dragon   |-> {"steel"},
     fighting |-> {"flying", "psychic", "bug", "ghost", "poison"},
     poison   |-> {"poison", "ground", "rock", "ghost", "steel"},
     ground   |-> {"grass", "flying", "bug"},
     flying   |-> {"electric", "rock", "steel"},
     psychic  |-> {"psychic", "steel", "dark"},
     bug      |-> {"fire", "fighting", "flying", "ghost", "poison", "steel"},
     rock     |-> {"fighting", "ground", "steel", "water", "grass"},
     ghost    |-> {"dark", "normal"},
     dark     |-> {"fighting", "dark", "bug"},
     steel    |-> {"fire", "water", "electric", "steel"},
     normal   |-> {"rock", "steel", "ghost"}]

Immune ==
    {<<"normal", "ghost">>, <<"fighting", "ghost">>, <<"poison", "steel">>,
     <<"ground", "flying">>, <<"electric", "ground">>, <<"psychic", "dark">>,
     <<"ghost", "normal">>}

\* In halves: 0, 1, 2 or 4.
TypeMultiplier(atk, def) ==
    CASE <<atk, def>> \in Immune -> 0
      [] <<atk, def>> \notin Immune /\ def \in Strong[atk] -> 4
      [] <<atk, def>> \notin Immune /\ def \in Weak[atk] \ Strong[atk] -> 1
      [] OTHER -> 2

-----------------------------------------------------------------------------
\* Power and accuracy of each type's moves, by ascending power.
MovesByType ==
    [normal   |-> <<<<18, 85>>, <<40, 100>>, <<60, 100>>, <<85, 95>>, <<110, 85>>>>,
     fire     |-> <<<<40, 100>>, <<65, 100>>, <<90, 95>>, <<115, 85>>>>,
     water    |-> <<<<40, 100>>, <<65, 100>>, <<90, 95>>, <<115, 85>>>>,
     grass    |-> <<<<40, 100>>, <<65, 100>>, <<90, 95>>, <<115, 85>>>>,
     electric |-> <<<<40, 100>>, <<65, 100>>, <<90, 90>>, <<115, 80>>>>,
     ice      |-> <<<<40, 100>>, <<65, 100>>, <<90, 90>>, <<115, 80>>>>,
     fighting |-> <<<<45, 100>>, <<70, 100>>, <<95, 90>>, <<120, 80>>>>,
     poison   |-> <<<<40, 100>>, <<65, 100>>, <<90, 95>>>>,
     ground   |-> <<<<40, 100>>, <<65, 100>>, <<95, 95>>, <<120, 80>>>>,
     flying   |-> <<<<40, 100>>, <<70, 100>>, <<95, 90>>>>,
     psychic  |-> <<<<40, 100>>, <<65, 100>>, <<90, 95>>, <<115, 85>>>>,
     bug      |-> <<<<40, 100>>, <<65, 100>>, <<90, 90>>>>,
     rock     |-> <<<<40, 95>>, <<70, 90>>, <<95, 85>>>>,
     ghost    |-> <<<<40, 100>>, <<65, 100>>, <<90, 95>>>>,
     dragon   |-> <<<<50, 100>>, <<80, 100>>, <<110, 90>>>>,
     dark     |-> <<<<40, 100>>, <<70, 100>>, <<95, 90>>>>,
     steel    |-> <<<<40, 100>>, <<65, 100>>, <<95, 90>>>>]

Gates == <<55, 75, 95, 999>>

\* The power cap of a level, as an index of Gates.
Gate(level) ==
    CASE level >= 40 -> 4 [] level \in 28 .. 39 -> 3 [] level \in 16 .. 27 -> 2 [] OTHER -> 1

\* The n moves a gate lets through, the strongest first and a step apart.
PickTier(type, n, gate) ==
    LET pool == SelectSeq(MovesByType[type], LAMBDA m : m[1] <= Gates[gate])
        src  == IF pool # <<>> THEN pool ELSE SubSeq(MovesByType[type], 1, 2)
        step == IF Len(src) >= n THEN Len(src) \div n ELSE 1
        size == IF (Len(src) + step - 1) \div step < n THEN (Len(src) + step - 1) \div step ELSE n
    IN  [i \in 1 .. size |->
            LET m == src[Len(src) - (i - 1) * step]
            IN  [type |-> type, power |-> m[1], acc |-> m[2]]]

\* Three moves of its own type and a normal one, without repetition, the
\* strongest first and its own type before the normal one.
MonMoves(type, gate) ==
    LET same   == PickTier(type, 3, gate)
        normal == PickTier("normal", 1, gate)[1]
    IN  IF type = "normal" THEN same
        ELSE SelectSeq(same, LAMBDA m : m.power >= normal.power) \o <<normal>>
                 \o SelectSeq(same, LAMBDA m : m.power < normal.power)

\* The strongest move when super-effective, else the second.
PickMove(moves, mod) == moves[IF mod >= 4 \/ Len(moves) = 1 THEN 1 ELSE 2]

-----------------------------------------------------------------------------
\* From base to target over GROWTH_SPAN levels.
InterpStat(base, target, level) ==
    base + ((target - base) * (IF level - 1 < GROWTH_SPAN THEN level - 1 ELSE GROWTH_SPAN))
               \div GROWTH_SPAN

StatsAtLevel(t, level) ==
    [s \in {"hp", "atk", "def", "spd"} |-> InterpStat(t.base[s], t.target[s], level)]

\* The stats of a gym's monster.
StatAtLevel(base, level) == (2 * base * level) \div 100 + 5

Combatant(t, level) ==
    [type  |-> t.type, level |-> level,
     stats |-> [s \in {"hp", "atk", "def", "spd"} |->
                  StatAtLevel(t.base[s], level) + (IF s = "hp" THEN level + 5 ELSE 0)]]

AtLeast(floor, n) == IF n < floor THEN floor ELSE n
AtMost(cap, n) == IF n > cap THEN cap ELSE n

\* No point is taken by force: an immune type takes nothing.
MutDamageSimple(a, d) ==
    LET dealt == AtLeast(1, a.stats.atk - d.stats.def \div 2)
                     * TypeMultiplier(a.type, d.type) * (98 + 2 * a.level)
    IN  (85 * dealt) \div 20000 .. (115 * dealt) \div 20000

\* atk minus half def, by type, level and a variance of 0.85 to 1.15.
DamageSimple(a, d) ==
    LET dealt == AtLeast(1, a.stats.atk - d.stats.def \div 2)
                     * TypeMultiplier(a.type, d.type) * (98 + 2 * a.level)
    IN  {AtLeast(1, n) : n \in (85 * dealt - 1) \div 20000 .. (115 * dealt) \div 20000}

\* The standard formula, by type and a variance of 0.85 to 1.
Damage(a, d, power) ==
    LET atk == AtLeast(1, a.stats.atk)
        def == AtLeast(1, d.stats.def)
        mod == TypeMultiplier(a.type, d.type)
        raw == ((2 * a.level + 10) * power * atk + 500 * def) * mod
    IN  IF mod = 0 THEN {0}
        ELSE {AtLeast(1, n) : n \in (17 * raw - 1) \div (10000 * def) .. raw \div (500 * def)}

\* The cap is asked of the attacker's hit points.
MutHitCap(a, d) ==
    ((IF TypeMultiplier(a.type, d.type) >= 4 THEN 4 ELSE 3) * a.stats.hp + 9) \div 10

\* The most one hit takes: 30 percent of the defender's hit points, 40 when
\* super-effective, rounded up.
HitCap(a, d) ==
    ((IF TypeMultiplier(a.type, d.type) >= 4 THEN 4 ELSE 3) * d.stats.hp + 9) \div 10

\* What a move takes in the live battle: nothing if it can miss, else the
\* damage with STAB and a critical hit or not, capped, and one at least.
LiveHits(a, d, move) ==
    LET same == IF move.type = a.type THEN 3 ELSE 2
    IN  {AtLeast(1, AtMost(HitCap(a, d), (n * same * crit) \div 4)) :
            n \in Damage(a, d, move.power), crit \in {2, 3}}
        \cup IF move.acc < 100 THEN {0} ELSE {}

\* One turn: the faster strikes first, the struck strikes back if it stands.
Turn(hp, foeHp, given, taken, first) ==
    [hp    |-> IF ~first \/ foeHp > given THEN hp - taken ELSE hp,
     foeHp |-> IF first \/ hp > taken THEN foeHp - given ELSE foeHp]
=============================================================================
