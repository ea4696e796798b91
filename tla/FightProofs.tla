---------------------------- MODULE FightProofs ----------------------------
(***************************************************************************)
(* Proofs about TrainerFights, for every template, gym team and route: its *)
(* fights are those of TrainerAgent, and the cap of a hit keeps a staged   *)
(* battle from ending at once.  Seen commutes with all the roster          *)
(* operators (first part), the invariant says what a fight under way has   *)
(* of the tick that began it, and one lemma for each action maps it to a   *)
(* tick or to nothing.                                                     *)
(***************************************************************************)
EXTENDS TrainerFights, SumProofs, SequenceTheorems, TLAPS

\* What is proved of TrainerAgent.
Proved == INSTANCE TrainerProofs WITH team <- Seen(party), box <- Seen(boxed)

\* What src/power.ts computes is a natural number.
PowerIsNat == \A s \in Species, l \in Nat \ {0} : Power(s, l) \in Nat

-----------------------------------------------------------------------------
\* A monster as this module keeps it.
Fighters ==
    {m \in [species : Species, level : Nat \ {0}, moves : Nat, hp : Nat] : m.hp <= Stats(m).hp}

PartyInv ==
    /\ party \in Seq(Fighters)
    /\ boxed \in Seq(Fighters)
    /\ location \in Agent!Towns

\* Every fight of a tick is one the tick may have begun: while it goes on the
\* conditions of the tick hold, and only its own hit points have changed.
GymFights ==
    [mode : {"gym"}, who : DOMAIN party, hp : [DOMAIN party -> Nat], entry : {NoFight},
     foeHp : Nat, turns : {0}, rival : 1 .. Len(GymTeams[location]) + 1]

\* Those before the fighter have fallen, those behind it are untouched; the
\* gym is beaten only by someone who stands.
GymInv ==
    /\ fight \in GymFights
    /\ Agent!ChallengesGym
    /\ \A i \in DOMAIN party : fight.hp[i] <= party[i].hp
    /\ \A i \in DOMAIN party : i > fight.who => fight.hp[i] = party[i].hp
    /\ Standing(fight.hp) # {} =>
          /\ fight.who \in Standing(fight.hp)
          /\ \A i \in Standing(fight.hp) : fight.who <= i
    /\ IF fight.rival > Len(GymTeams[location])
       THEN Standing(fight.hp) # {} ELSE fight.foeHp > 0

HuntFights(mode) ==
    [mode : {mode}, who : DOMAIN party, hp : [DOMAIN party -> Nat], entry : Monsters,
     foeHp : Nat, turns : Nat, rival : {1}]

AutoInv ==
    /\ fight \in HuntFights("auto")
    /\ Agent!Hunts /\ fight.entry \in Agent!Wilds /\ ~Agent!TooStrong(fight.entry)
    /\ fight.who = Agent!Fighter
    /\ fight.hp[fight.who] <= party[fight.who].hp
    /\ fight.hp[fight.who] > 0 \/ fight.foeHp > 0
    /\ \A i \in DOMAIN party : i # fight.who => fight.hp[i] = party[i].hp

\* What is left of max after at most two hits of the per-hit cap.
Cap(max) == (4 * max + 9) \div 10
Left(hp, max, turns) ==
    /\ turns = 0 => hp >= max
    /\ turns = 1 => hp >= max - Cap(max)
    /\ turns = 2 => hp >= max - 2 * Cap(max)

LiveInv ==
    /\ fight \in HuntFights("live")
    /\ LET me == party[fight.who] IN
       me.hp = Stats(me).hp => Left(MyHp, Stats(me).hp, fight.turns)
    /\ Left(fight.foeHp, Wild(fight.entry).stats.hp, fight.turns)

FightInv == PartyInv /\ (Idle \/ GymInv \/ AutoInv \/ LiveInv)

-----------------------------------------------------------------------------
\* A product with a smaller factor is smaller.
LEMMA ProductGrows ==
    ASSUME NEW d \in Nat, NEW a \in Nat, NEW b \in Nat, a <= b
    PROVE  d * a \in Nat /\ d * a <= d * b
<1>1. d * b = d * a + d * (b - a) /\ d * (b - a) \in Nat /\ d * a \in Nat
  <2>1. b - a \in Nat
    OBVIOUS
  <2> QED
    BY <2>1
<1> QED
  BY <1>1

\* A stat lies between base and target, and does not fall with the level.
LEMMA InterpGrows ==
    ASSUME NEW base \in Nat \ {0}, NEW target \in Nat, base <= target,
           NEW l \in Nat \ {0}, NEW k \in Nat \ {0}, l <= k
    PROVE  /\ InterpStat(base, target, l) \in Nat \ {0}
           /\ InterpStat(base, target, l) <= InterpStat(base, target, k)
<1> DEFINE d == target - base
           at(n) == IF n - 1 < GROWTH_SPAN THEN n - 1 ELSE GROWTH_SPAN
<1>1. d \in Nat /\ at(l) \in Nat /\ at(k) \in Nat /\ at(l) <= at(k) /\ GROWTH_SPAN = 49
  BY DEF GROWTH_SPAN
<1>2. /\ InterpStat(base, target, l) = base + (d * at(l)) \div GROWTH_SPAN
      /\ InterpStat(base, target, k) = base + (d * at(k)) \div GROWTH_SPAN
  BY DEF InterpStat
<1> HIDE DEF d, at
<1>3. d * at(l) \in Nat /\ d * at(k) \in Nat /\ d * at(l) <= d * at(k)
  BY <1>1, ProductGrows
<1> DEFINE x == d * at(l)
           y == d * at(k)
<1>4. x \in Nat /\ y \in Nat /\ x <= y
  BY <1>3
<1>5. /\ InterpStat(base, target, l) = base + x \div 49
      /\ InterpStat(base, target, k) = base + y \div 49
  BY <1>1, <1>2
<1> HIDE DEF x, y
<1> DEFINE p == x \div 49
           q == y \div 49
<1>6. p \in Nat /\ q \in Nat /\ p <= q
  BY <1>4
<1>7. InterpStat(base, target, l) = base + p /\ InterpStat(base, target, k) = base + q
  BY <1>5
<1> HIDE DEF p, q
<1> QED
  BY <1>6, <1>7

\* Hit points of a species: at least one, and no fewer at a higher level.
LEMMA HitPointsGrow ==
    ASSUME NEW s \in Species, NEW l \in Nat \ {0}, NEW k \in Nat \ {0}, l <= k
    PROVE  /\ StatsAtLevel(Templates[s], l).hp \in Nat \ {0}
           /\ StatsAtLevel(Templates[s], l).hp <= StatsAtLevel(Templates[s], k).hp
<1>1. /\ Templates[s].base \in [StatNames -> Nat \ {0}]
      /\ Templates[s].target \in [StatNames -> Nat \ {0}]
      /\ Templates[s].base.hp <= Templates[s].target.hp
  BY FightsAssumption
<1>2. Templates[s].base.hp \in Nat \ {0} /\ Templates[s].target.hp \in Nat
  BY <1>1 DEF StatNames
<1>3. \A n : StatsAtLevel(Templates[s], n).hp
                = InterpStat(Templates[s].base.hp, Templates[s].target.hp, n)
  BY DEF StatsAtLevel
<1> QED
  BY <1>1, <1>2, <1>3, InterpGrows

-----------------------------------------------------------------------------
\* A monster as TrainerAgent sees it.
AsSeen(m) == [species |-> m.species, level |-> m.level, hp |-> Class(m)]

\* The fields of a monster of this module.
LEMMA FighterFields ==
    ASSUME NEW m \in Fighters
    PROVE  /\ m.species \in Species /\ m.level \in Nat \ {0} /\ m.hp \in Nat
           /\ m \in [species : Species, level : Nat \ {0}, moves : Nat, hp : Nat]
           /\ Stats(m).hp \in Nat \ {0} /\ m.hp <= Stats(m).hp
<1>1. m \in [species : Species, level : Nat \ {0}, moves : Nat, hp : Nat] /\ m.hp <= Stats(m).hp
  BY DEF Fighters
<1>2. m.species \in Species /\ m.level \in Nat \ {0} /\ m.hp \in Nat
  BY <1>1
<1> QED
  BY <1>1, <1>2, HitPointsGrow DEF Stats

\* The classes of hit points, out of max.
LEMMA ClassOf ==
    ASSUME NEW m, m.hp \in Nat, Stats(m).hp \in Nat \ {0}
    PROVE  /\ Class(m) \in HP
           /\ m.hp = 0 => Class(m) = Fainted
           /\ m.hp > 0 => Class(m) >= Low
           /\ m.hp > 0 => (Class(m) = Low <=> 100 * m.hp < 15 * Stats(m).hp)
           /\ m.hp > 0 => (Class(m) = Healthy <=> 100 * m.hp >= 15 * Stats(m).hp)
           /\ Class(m) > Fainted <=> m.hp > 0
  BY DEF Class, HP, Fainted, Low, Healthy

\* What TrainerAgent sees is one of its monsters.
LEMMA SeenIsMonster ==
    ASSUME NEW m \in Fighters
    PROVE  AsSeen(m) \in Monsters
  BY FighterFields, ClassOf DEF AsSeen, Monsters

\* Fewer hit points, no higher a class.
LEMMA ClassFalls ==
    ASSUME NEW m \in Fighters, NEW h \in Nat, h <= m.hp
    PROVE  /\ [m EXCEPT !.hp = h] \in Fighters
           /\ AsSeen([m EXCEPT !.hp = h]) = [AsSeen(m) EXCEPT !.hp = Class([m EXCEPT !.hp = h])]
           /\ Class([m EXCEPT !.hp = h]) \in Fainted .. Class(m)
           /\ h > 0 => Class([m EXCEPT !.hp = h]) \in Low .. Class(m)
           /\ h = 0 => Class([m EXCEPT !.hp = h]) = Fainted
<1> DEFINE n == [m EXCEPT !.hp = h]
<1>1. /\ n \in [species : Species, level : Nat \ {0}, moves : Nat, hp : Nat]
      /\ n.hp = h /\ n.species = m.species /\ n.level = m.level
  BY FighterFields
<1>2. Stats(n) = Stats(m)
  BY <1>1 DEF Stats
<1> HIDE DEF n
<1>3. n \in Fighters
  BY <1>1, <1>2, FighterFields DEF Fighters
<1>4. AsSeen(n) = [AsSeen(m) EXCEPT !.hp = Class(n)]
  BY <1>1 DEF AsSeen
<1>5. Class(n) \in Fainted .. Class(m) /\ (h > 0 => Class(n) \in Low .. Class(m))
      /\ (h = 0 => Class(n) = Fainted)
  <2>1. m.hp \in Nat /\ Stats(m).hp \in Nat \ {0}
    BY FighterFields
  <2> QED
    BY <1>1, <1>2, <2>1 DEF Class, HP, Fainted, Low, Healthy
<1> QED
  BY <1>3, <1>4, <1>5 DEF n

\* Only level and hit points of a monster change.
LEMMA RaisedMonster ==
    ASSUME NEW m \in Monsters, NEW n \in Monsters, n.species = m.species
    PROVE  n = Agent!Raised(m, n.level, n.hp)
  BY DEF Monsters, Agent!Raised

\* A monster grown by a fight, as TrainerAgent trains it.
LEMMA GrownIsTrained ==
    ASSUME NEW m \in Fighters, NEW gain \in 0 .. MaxGain
    PROVE  /\ Grown(m, gain) \in Fighters
           /\ AsSeen(Grown(m, gain)) \in Agent!Trained(AsSeen(m))
<1> DEFINE level == IF m.level + gain <= MaxLevel THEN m.level + gain ELSE m.level
           max   == StatsAtLevel(Templates[m.species], level).hp
           hp    == AtMost(max, m.hp + max - Stats(m).hp)
           n     == [m EXCEPT !.level = level, !.hp = hp]
<1>1. Grown(m, gain) = n
  BY DEF Grown
<1>2. /\ m.species \in Species /\ m.level \in Nat \ {0} /\ m.hp \in Nat
      /\ m \in [species : Species, level : Nat \ {0}, moves : Nat, hp : Nat]
      /\ Stats(m).hp \in Nat \ {0} /\ m.hp <= Stats(m).hp
  BY FighterFields
<1>3. level \in Nat \ {0} /\ m.level <= level
      /\ (level = m.level \/ (level \in m.level + 1 .. m.level + MaxGain /\ level <= MaxLevel))
  <2>1. MaxGain \in Nat /\ MaxLevel \in Nat /\ gain \in 0 .. MaxGain
    BY SameWorldAssumption
  <2> QED
    BY <1>2, <2>1
<1> HIDE DEF level
<1>4. max \in Nat \ {0} /\ Stats(m).hp <= max
  BY <1>2, <1>3, HitPointsGrow DEF Stats
<1>5. level = m.level => max = Stats(m).hp
  BY DEF Stats
<1> HIDE DEF max
<1>6. hp \in Nat /\ hp <= max /\ m.hp <= hp
      /\ (max = Stats(m).hp => hp = m.hp)
  BY <1>2, <1>4 DEF AtMost
<1>7. 100 * m.hp >= 15 * Stats(m).hp => 100 * hp >= 15 * max
  BY <1>2, <1>4 DEF AtMost
<1> HIDE DEF hp
<1>8. /\ n \in [species : Species, level : Nat \ {0}, moves : Nat, hp : Nat]
      /\ n.species = m.species /\ n.level = level /\ n.hp = hp
  BY <1>2, <1>3, <1>6
<1> HIDE DEF n
<1>9. Stats(n).hp = max
  BY <1>8 DEF Stats, max
<1>10. n \in Fighters
  BY <1>6, <1>8, <1>9 DEF Fighters
<1>11. Class(m) <= Class(n) /\ Class(n) \in HP /\ Class(m) \in HP
  BY <1>2, <1>4, <1>6, <1>7, <1>8, <1>9 DEF Class, HP, Fainted, Low, Healthy
<1>12. CASE level = m.level
  <2>1. n.hp = m.hp /\ Stats(n).hp = Stats(m).hp
    BY <1>5, <1>6, <1>8, <1>9, <1>12
  <2>2. Class(n) = Class(m)
    BY <2>1 DEF Class
  <2>3. AsSeen(n) = AsSeen(m)
    BY <1>8, <1>12, <2>2 DEF AsSeen
  <2> QED
    BY <1>1, <1>10, <2>3 DEF Agent!Trained
<1>13. CASE level # m.level
  <2>1. AsSeen(n) = Agent!Raised(AsSeen(m), level, Class(n))
    <3>1. AsSeen(n) \in Monsters /\ AsSeen(m) \in Monsters
      BY <1>10, SeenIsMonster
    <3>2. /\ AsSeen(n).species = AsSeen(m).species
          /\ AsSeen(n).level = level /\ AsSeen(n).hp = Class(n)
      BY <1>8 DEF AsSeen
    <3> QED
      BY <3>1, <3>2, RaisedMonster
  <2>2. level \in {l \in AsSeen(m).level + 1 .. AsSeen(m).level + MaxGain : l <= MaxLevel}
    BY <1>3, <1>13 DEF AsSeen
  <2>3. Class(n) \in AsSeen(m).hp .. Agent!Healthy
    BY <1>11 DEF AsSeen, HP, Healthy, Fainted, Agent!Healthy
  <2> QED
    BY <1>1, <1>10, <2>1, <2>2, <2>3 DEF Agent!Trained
<1> QED
  BY <1>12, <1>13

-----------------------------------------------------------------------------
\* What TrainerAgent sees of a sequence of monsters.
LEMMA SeenShape ==
    ASSUME NEW s \in Seq(Fighters)
    PROVE  /\ Seen(s) \in Seq(Monsters)
           /\ Len(Seen(s)) = Len(s) /\ Len(s) \in Nat
           /\ DOMAIN Seen(s) = 1 .. Len(s) /\ DOMAIN s = 1 .. Len(s)
           /\ \A i \in 1 .. Len(s) : s[i] \in Fighters /\ Seen(s)[i] = AsSeen(s[i])
           /\ \A i \in 1 .. Len(s) :
                 Seen(s)[i].species = s[i].species /\ Seen(s)[i].level = s[i].level
<1>1. Len(s) \in Nat /\ DOMAIN s = 1 .. Len(s) /\ \A i \in 1 .. Len(s) : s[i] \in Fighters
  BY LenProperties, ElementOfSeq
<1>2. DOMAIN Seen(s) = 1 .. Len(s) /\ \A i \in 1 .. Len(s) : Seen(s)[i] = AsSeen(s[i])
  BY <1>1 DEF Seen, AsSeen
<1>3. Seen(s) = [i \in 1 .. Len(s) |-> AsSeen(s[i])]
  BY <1>1 DEF Seen, AsSeen
<1>4. Seen(s) \in [1 .. Len(s) -> Monsters]
  BY <1>1, <1>3, SeenIsMonster
<1>5. Seen(s) \in Seq(Monsters)
  BY <1>1, <1>4
<1>6. Len(Seen(s)) = Len(s)
  BY <1>1, <1>2, <1>5, LenProperties
<1>7. ASSUME NEW i \in 1 .. Len(s)
      PROVE  Seen(s)[i].species = s[i].species /\ Seen(s)[i].level = s[i].level
  BY <1>2 DEF AsSeen
<1> QED
  BY <1>1, <1>2, <1>5, <1>6, <1>7

\* Two sequences look the same where their monsters do.
LEMMA SeenEqual ==
    ASSUME NEW s \in Seq(Fighters), NEW t \in Seq(Monsters), Len(t) = Len(s),
           \A i \in 1 .. Len(s) : t[i] = AsSeen(s[i])
    PROVE  Seen(s) = t
  BY SeenShape, SeqEqual

\* A newcomer at the end is seen at the end.
LEMMA SeenAppend ==
    ASSUME NEW s \in Seq(Fighters), NEW m \in Fighters
    PROVE  Append(s, m) \in Seq(Fighters) /\ Seen(Append(s, m)) = Append(Seen(s), AsSeen(m))
<1> DEFINE t == Append(s, m)
           u == Append(Seen(s), AsSeen(m))
<1>1. /\ t \in Seq(Fighters) /\ Len(t) = Len(s) + 1 /\ t[Len(s) + 1] = m
      /\ \A i \in 1 .. Len(s) : t[i] = s[i]
  BY AppendProperties
<1>2. Seen(s) \in Seq(Monsters) /\ Len(Seen(s)) = Len(s) /\ Len(s) \in Nat
  BY SeenShape
<1>3. \A i \in 1 .. Len(s) : Seen(s)[i] = AsSeen(s[i])
  BY SeenShape
<1>4. /\ u \in Seq(Monsters) /\ Len(u) = Len(s) + 1 /\ u[Len(s) + 1] = AsSeen(m)
      /\ \A i \in 1 .. Len(s) : u[i] = Seen(s)[i]
  BY <1>2, SeenIsMonster, AppendProperties
<1> HIDE DEF t, u
<1>5. \A i \in 1 .. Len(t) : u[i] = AsSeen(t[i])
  <2> SUFFICES ASSUME NEW i \in 1 .. Len(t) PROVE u[i] = AsSeen(t[i])
    OBVIOUS
  <2>1. CASE i = Len(s) + 1
    BY <1>1, <1>4, <2>1
  <2>2. CASE i \in 1 .. Len(s)
    BY <1>1, <1>3, <1>4, <2>2
  <2> QED
    BY <1>1, <1>2, <2>1, <2>2
<1>6. Seen(t) = u
  BY <1>1, <1>4, <1>5, SeenEqual
<1> QED
  BY <1>1, <1>6 DEF t, u

\* Party and box together look as they look apart.
LEMMA SeenConcat ==
    ASSUME NEW s \in Seq(Fighters), NEW t \in Seq(Fighters)
    PROVE  s \o t \in Seq(Fighters) /\ Seen(s \o t) = Seen(s) \o Seen(t)
<1> DEFINE r == s \o t
           u == Seen(s) \o Seen(t)
<1>1. /\ r \in Seq(Fighters) /\ Len(r) = Len(s) + Len(t)
      /\ \A i \in 1 .. Len(s) + Len(t) : r[i] = IF i <= Len(s) THEN s[i] ELSE t[i - Len(s)]
  BY ConcatProperties
<1>2. /\ Seen(s) \in Seq(Monsters) /\ Len(Seen(s)) = Len(s) /\ Len(s) \in Nat
      /\ Seen(t) \in Seq(Monsters) /\ Len(Seen(t)) = Len(t) /\ Len(t) \in Nat
  BY SeenShape
<1>3. /\ \A i \in 1 .. Len(s) : Seen(s)[i] = AsSeen(s[i])
      /\ \A i \in 1 .. Len(t) : Seen(t)[i] = AsSeen(t[i])
  BY SeenShape
<1>4. /\ u \in Seq(Monsters) /\ Len(u) = Len(s) + Len(t)
      /\ \A i \in 1 .. Len(s) + Len(t) :
            u[i] = IF i <= Len(s) THEN Seen(s)[i] ELSE Seen(t)[i - Len(s)]
  <2>1. /\ u \in Seq(Monsters) /\ Len(u) = Len(Seen(s)) + Len(Seen(t))
        /\ \A i \in 1 .. Len(Seen(s)) + Len(Seen(t)) :
              u[i] = IF i <= Len(Seen(s)) THEN Seen(s)[i] ELSE Seen(t)[i - Len(Seen(s))]
    BY <1>2, ConcatProperties
  <2> QED
    BY <1>2, <2>1
<1> HIDE DEF r, u
<1>5. \A i \in 1 .. Len(r) : u[i] = AsSeen(r[i])
  <2> SUFFICES ASSUME NEW i \in 1 .. Len(r) PROVE u[i] = AsSeen(r[i])
    OBVIOUS
  <2>1. CASE i <= Len(s)
    BY <1>1, <1>2, <1>3, <1>4, <2>1
  <2>2. CASE i > Len(s)
    <3>1. i - Len(s) \in 1 .. Len(t) /\ i \in 1 .. Len(s) + Len(t)
      BY <1>1, <1>2, <2>2
    <3>2. r[i] = t[i - Len(s)] /\ u[i] = Seen(t)[i - Len(s)]
      BY <1>1, <1>2, <1>4, <2>2, <3>1
    <3> QED
      BY <1>3, <3>1, <3>2
  <2> QED
    BY <1>1, <1>2, <2>1, <2>2
<1>6. Seen(r) = u
  BY <1>1, <1>4, <1>5, SeenEqual
<1> QED
  BY <1>1, <1>6 DEF r, u

\* A part of a sequence looks as that part of what is seen.
LEMMA SeenSubSeq ==
    ASSUME NEW s \in Seq(Fighters), NEW a \in Int, NEW b \in Int, 1 <= a, b <= Len(s)
    PROVE  SubSeq(s, a, b) \in Seq(Fighters) /\ Seen(SubSeq(s, a, b)) = SubSeq(Seen(s), a, b)
<1> DEFINE t == SubSeq(s, a, b)
           u == SubSeq(Seen(s), a, b)
           n == IF a <= b THEN b - a + 1 ELSE 0
<1>1. /\ Seen(s) \in Seq(Monsters) /\ Len(Seen(s)) = Len(s) /\ Len(s) \in Nat
      /\ \A i \in 1 .. Len(s) : s[i] \in Fighters /\ Seen(s)[i] = AsSeen(s[i])
  BY SeenShape
<1>2. \A i \in a .. b : i \in 1 .. Len(s)
  BY <1>1
<1>3. t \in Seq(Fighters) /\ Len(t) = n /\ \A i \in 1 .. b - a + 1 : t[i] = s[a + i - 1]
  BY <1>1, <1>2, SubSeqProperties
<1>4. \A i \in a .. b : Seen(s)[i] \in Monsters
  BY <1>1, <1>2, SeenIsMonster
<1>5. u \in Seq(Monsters) /\ Len(u) = n /\ \A i \in 1 .. b - a + 1 : u[i] = Seen(s)[a + i - 1]
  BY <1>4, SubSeqProperties
<1> HIDE DEF t, u
<1>6. \A i \in 1 .. Len(t) : u[i] = AsSeen(t[i])
  <2> SUFFICES ASSUME NEW i \in 1 .. Len(t) PROVE u[i] = AsSeen(t[i])
    OBVIOUS
  <2>1. i \in 1 .. b - a + 1 /\ a + i - 1 \in a .. b
    BY <1>3
  <2>2. a + i - 1 \in 1 .. Len(s)
    BY <1>2, <2>1
  <2>3. t[i] = s[a + i - 1] /\ u[i] = Seen(s)[a + i - 1]
    BY <1>3, <1>5, <2>1
  <2> QED
    BY <1>1, <2>2, <2>3
<1>7. Seen(t) = u
  BY <1>3, <1>5, <1>6, SeenEqual
<1> QED
  BY <1>3, <1>7 DEF t, u

\* Who is released is missing from what is seen.
LEMMA SeenRemoveAt ==
    ASSUME NEW s \in Seq(Fighters), NEW i \in 1 .. Len(s)
    PROVE  RemoveAt(s, i) \in Seq(Fighters) /\ Seen(RemoveAt(s, i)) = RemoveAt(Seen(s), i)
<1>1. Len(s) \in Nat /\ Len(Seen(s)) = Len(s)
  BY SeenShape
<1> DEFINE front == SubSeq(s, 1, i - 1)
           back  == SubSeq(s, i + 1, Len(s))
<1>2. front \in Seq(Fighters) /\ Seen(front) = SubSeq(Seen(s), 1, i - 1)
  BY <1>1, SeenSubSeq
<1>3. back \in Seq(Fighters) /\ Seen(back) = SubSeq(Seen(s), i + 1, Len(s))
  BY <1>1, SeenSubSeq
<1>4. RemoveAt(s, i) = front \o back
  BY DEF RemoveAt
<1>5. RemoveAt(Seen(s), i) = Seen(front) \o Seen(back)
  BY <1>1, <1>2, <1>3 DEF RemoveAt
<1> HIDE DEF front, back
<1> QED
  BY <1>2, <1>3, <1>4, <1>5, SeenConcat

-----------------------------------------------------------------------------
\* The decision and the placement read species, levels and lengths, which
\* TrainerAgent sees as they are.
LEMMA SameWeakest ==
    ASSUME PowerIsNat, NEW s \in Seq(Fighters)
    PROVE  /\ Agent!WeakestIndex(Seen(s)) = WeakestIndex(s)
           /\ s # <<>> => WeakestIndex(s) \in 1 .. Len(s)
<1>1. /\ Seen(s) \in Seq(Monsters) /\ Len(Seen(s)) = Len(s) /\ Len(s) \in Nat
      /\ DOMAIN Seen(s) = 1 .. Len(s) /\ DOMAIN s = 1 .. Len(s)
  BY SeenShape
<1>2. \A i \in 1 .. Len(s) : Agent!PowerOf(Seen(s)[i]) = PowerOf(s[i])
  BY SeenShape DEF PowerOf, Agent!PowerOf
<1>3. WeakestIndex(s) =
        CHOOSE i \in 1 .. Len(s) :
          /\ \A j \in 1 .. Len(s) : PowerOf(s[i]) <= PowerOf(s[j])
          /\ \A j \in 1 .. i - 1 : PowerOf(s[i]) < PowerOf(s[j])
  BY <1>1 DEF WeakestIndex
<1>4. Agent!WeakestIndex(Seen(s)) =
        CHOOSE i \in 1 .. Len(s) :
          /\ \A j \in 1 .. Len(s) : Agent!PowerOf(Seen(s)[i]) <= Agent!PowerOf(Seen(s)[j])
          /\ \A j \in 1 .. i - 1 : Agent!PowerOf(Seen(s)[i]) < Agent!PowerOf(Seen(s)[j])
  BY <1>1 DEF Agent!WeakestIndex
<1>5. Agent!WeakestIndex(Seen(s)) = WeakestIndex(s)
  <2>1. \A i \in 1 .. Len(s) : \A j \in 1 .. i - 1 : j \in 1 .. Len(s)
    BY <1>1
  <2>2. \A i \in 1 .. Len(s) :
          (/\ \A j \in 1 .. Len(s) : PowerOf(s[i]) <= PowerOf(s[j])
           /\ \A j \in 1 .. i - 1 : PowerOf(s[i]) < PowerOf(s[j]))
          <=>
          (/\ \A j \in 1 .. Len(s) : Agent!PowerOf(Seen(s)[i]) <= Agent!PowerOf(Seen(s)[j])
           /\ \A j \in 1 .. i - 1 : Agent!PowerOf(Seen(s)[i]) < Agent!PowerOf(Seen(s)[j]))
    BY <1>2, <2>1
  <2> QED
    BY <1>3, <1>4, <2>2
<1>6. ASSUME s # <<>> PROVE WeakestIndex(s) \in 1 .. Len(s)
  <2>1. Seen(s) # <<>>
    BY <1>1, <1>6, EmptySeq
  <2>2. Proved!PowerIsNat
    BY DEF PowerIsNat, Proved!PowerIsNat
  <2>3. Proved!Monsters = Monsters /\ Proved!WeakestIndex(Seen(s)) = Agent!WeakestIndex(Seen(s))
    BY DEF Proved!Monsters, Monsters, Proved!WeakestIndex, Agent!WeakestIndex, Agent!PowerOf,
           Proved!PowerOf, HP, Proved!HP, Fainted, Proved!Fainted, Healthy, Proved!Healthy
  <2>4. Proved!PowerIsNat =>
          \A r \in Seq(Proved!Monsters) : r # <<>> => Proved!WeakestIndex(r) \in DOMAIN r
    BY Proved!WeakestIsMember, RosterAssumption, SameWorldAssumption
       DEF Proved!Towns, Proved!StrategyType, StrategyType, Proved!Monsters, Monsters,
           Proved!HP, HP, Fainted, Proved!Fainted, Healthy, Proved!Healthy
  <2>5. Proved!WeakestIndex(Seen(s)) \in DOMAIN Seen(s)
    BY <1>1, <2>1, <2>2, <2>3, <2>4
  <2> QED
    BY <1>1, <1>5, <2>3, <2>5
<1> QED
  BY <1>5, <1>6

\* The decision to catch is the one TrainerAgent makes.
LEMMA SameDecision ==
    ASSUME PowerIsNat, NEW s \in Seq(Fighters), NEW t \in Seq(Fighters), NEW wild, NEW any
    PROVE  Agent!ShouldCatch(Seen(s), Seen(t), any, strategy, wild)
              <=> ShouldCatch(s, t, any, strategy, wild)
<1>1. /\ s \o t \in Seq(Fighters) /\ Seen(s \o t) = Seen(s) \o Seen(t)
  BY SeenConcat
<1> DEFINE roster == s \o t
<1>2. /\ DOMAIN Seen(roster) = DOMAIN roster /\ Len(Seen(roster)) = Len(roster)
      /\ \A i \in DOMAIN roster : Seen(roster)[i].species = roster[i].species
  BY <1>1, SeenShape
<1>3. \A species : Agent!Owned(Seen(roster), species) <=> Owned(roster, species)
  BY <1>2 DEF Owned, Agent!Owned
<1>4. \A type : Agent!OfType(Seen(s), type) = OfType(s, type)
  <2>1. /\ DOMAIN Seen(s) = DOMAIN s
        /\ \A i \in DOMAIN s : Seen(s)[i].species = s[i].species
    BY SeenShape
  <2> QED
    BY <2>1 DEF OfType, Agent!OfType
<1>5. \A type : Agent!TypeSlotOpen(Seen(s), type) <=> TypeSlotOpen(s, type)
  <2>1. \A S : Agent!Cardinality(S) = Cardinality(S)
    BY DEF Cardinality, Agent!Cardinality, IsFiniteSet, Agent!IsFiniteSet
  <2> QED
    BY <1>4, <2>1 DEF TypeSlotOpen, Agent!TypeSlotOpen
<1>6. roster # <<>> => (Agent!IsUpgrade(Seen(roster), wild) <=> IsUpgrade(roster, wild))
  <2>1. SUFFICES ASSUME roster # <<>>
                 PROVE  Agent!IsUpgrade(Seen(roster), wild) <=> IsUpgrade(roster, wild)
    OBVIOUS
  <2>2. /\ Agent!WeakestIndex(Seen(roster)) = WeakestIndex(roster)
        /\ WeakestIndex(roster) \in 1 .. Len(roster)
    BY <1>1, <2>1, SameWeakest
  <2> DEFINE w == WeakestIndex(roster)
  <2>3. Agent!PowerOf(Seen(roster)[w]) = PowerOf(roster[w])
    BY <1>1, <2>2, SeenShape DEF PowerOf, Agent!PowerOf
  <2>4. Agent!PowerOf(wild) = PowerOf(wild)
    BY DEF PowerOf, Agent!PowerOf
  <2> QED
    BY <2>2, <2>3, <2>4 DEF IsUpgrade, Agent!IsUpgrade
<1>7. roster = <<>> => Len(roster) < PartySize + BoxSize
  BY RosterAssumption, EmptySeq
<1> QED
  BY <1>1, <1>2, <1>3, <1>5, <1>6, <1>7
     DEF ShouldCatch, Agent!ShouldCatch, RareOverride, Agent!RareOverride

\* A newcomer is placed where TrainerAgent places what it sees.
LEMMA SamePlacement ==
    ASSUME PowerIsNat, NEW s \in Seq(Fighters), NEW t \in Seq(Fighters), s # <<>>,
           NEW m \in Fighters
    PROVE  LET placed == PlaceNewMonster(s, t, m)
               seen   == Agent!PlaceNewMonster(Seen(s), Seen(t), AsSeen(m))
           IN  /\ placed.team \in Seq(Fighters) /\ placed.box \in Seq(Fighters)
               /\ seen.team = Seen(placed.team) /\ seen.box = Seen(placed.box)
<1> DEFINE roster == s \o t
           w      == WeakestIndex(roster)
           placed == PlaceNewMonster(s, t, m)
           seen   == Agent!PlaceNewMonster(Seen(s), Seen(t), AsSeen(m))
<1>1. /\ roster \in Seq(Fighters) /\ Seen(roster) = Seen(s) \o Seen(t)
      /\ Len(roster) = Len(s) + Len(t)
  BY SeenConcat, ConcatProperties
<1>2. /\ Len(s) \in Nat /\ Len(Seen(s)) = Len(s) /\ Len(t) \in Nat /\ Len(Seen(t)) = Len(t)
      /\ Len(s) # 0
  BY SeenShape, EmptySeq
<1>3. roster # <<>>
  BY <1>1, <1>2, EmptySeq
<1> HIDE DEF roster
<1>4. Agent!WeakestIndex(Seen(roster)) = w /\ w \in 1 .. Len(roster)
  BY <1>1, <1>3, SameWeakest
<1>5. /\ Agent!PowerOf(Seen(roster)[w]) = PowerOf(roster[w])
      /\ Agent!PowerOf(AsSeen(m)) = PowerOf(m)
  <2>1. Agent!PowerOf(Seen(roster)[w]) = PowerOf(roster[w])
    BY <1>1, <1>4, SeenShape DEF PowerOf, Agent!PowerOf
  <2>2. Agent!PowerOf(AsSeen(m)) = PowerOf(m)
    BY DEF AsSeen, PowerOf, Agent!PowerOf
  <2> QED
    BY <2>1, <2>2
<1> HIDE DEF w
<1>6. CASE Len(s) < PartySize
  <2>1. placed = [team |-> Append(s, m), box |-> t]
    BY <1>2, <1>6, RosterAssumption DEF PlaceNewMonster
  <2>2. seen = [team |-> Append(Seen(s), AsSeen(m)), box |-> Seen(t)]
    BY <1>2, <1>6, RosterAssumption DEF Agent!PlaceNewMonster
  <2> QED
    BY <2>1, <2>2, SeenAppend
<1>7. CASE ~(Len(s) < PartySize) /\ Len(t) < BoxSize
  <2>0. Len(s) >= PartySize
    BY <1>2, <1>7, RosterAssumption
  <2>1. placed = [team |-> s, box |-> Append(t, m)]
    BY <1>7, <2>0 DEF PlaceNewMonster
  <2>2. seen = [team |-> Seen(s), box |-> Append(Seen(t), AsSeen(m))]
    BY <1>2, <1>7, <2>0 DEF Agent!PlaceNewMonster
  <2> QED
    BY <2>1, <2>2, SeenAppend
<1>8. CASE ~(Len(s) < PartySize) /\ ~(Len(t) < BoxSize)
  <2>1. placed = IF PowerOf(m) <= PowerOf(roster[w])
                 THEN [team |-> s, box |-> t] ELSE Replace(s, t, w, m)
    BY <1>8 DEF PlaceNewMonster, roster, w
  <2>2. seen = IF Agent!PowerOf(AsSeen(m)) <= Agent!PowerOf(Seen(roster)[w])
               THEN [team |-> Seen(s), box |-> Seen(t)]
               ELSE Agent!Replace(Seen(s), Seen(t), w, AsSeen(m))
    BY <1>1, <1>2, <1>4, <1>8 DEF Agent!PlaceNewMonster
  <2>3. CASE PowerOf(m) <= PowerOf(roster[w])
    <3>1. placed = [team |-> s, box |-> t] /\ seen = [team |-> Seen(s), box |-> Seen(t)]
      BY <1>5, <2>1, <2>2, <2>3
    <3> QED
      BY <3>1
  <2>4. CASE ~(PowerOf(m) <= PowerOf(roster[w]))
    <3>1. placed = Replace(s, t, w, m) /\ seen = Agent!Replace(Seen(s), Seen(t), w, AsSeen(m))
      BY <1>5, <2>1, <2>2, <2>4
    <3>2. CASE w <= Len(s)
      <4>1. w \in 1 .. Len(s)
        BY <1>1, <1>2, <1>4, <3>2
      <4>2. RemoveAt(s, w) \in Seq(Fighters) /\ Seen(RemoveAt(s, w)) = RemoveAt(Seen(s), w)
        BY <4>1, SeenRemoveAt
      <4>3. /\ placed = [team |-> Append(RemoveAt(s, w), m), box |-> t]
            /\ seen = [team |-> Append(RemoveAt(Seen(s), w), AsSeen(m)), box |-> Seen(t)]
        BY <1>2, <3>1, <3>2, <4>1 DEF Replace, Agent!Replace, RemoveAt, Agent!RemoveAt
      <4> QED
        BY <4>2, <4>3, SeenAppend
    <3>3. CASE ~(w <= Len(s))
      <4> DEFINE k == w - Len(s)
      <4>1. k \in 1 .. Len(t)
        BY <1>1, <1>2, <1>4, <3>3
      <4>2. RemoveAt(t, k) \in Seq(Fighters) /\ Seen(RemoveAt(t, k)) = RemoveAt(Seen(t), k)
        BY <4>1, SeenRemoveAt
      <4>3. /\ placed = [team |-> s, box |-> Append(RemoveAt(t, k), m)]
            /\ seen = [team |-> Seen(s), box |-> Append(RemoveAt(Seen(t), k), AsSeen(m))]
        BY <1>2, <3>1, <3>3, <4>1 DEF Replace, Agent!Replace, RemoveAt, Agent!RemoveAt
      <4> QED
        BY <4>2, <4>3, SeenAppend
    <3> QED
      BY <3>2, <3>3
  <2> QED
    BY <2>3, <2>4
<1> QED
  BY <1>6, <1>7, <1>8

-----------------------------------------------------------------------------
\* The fight says which of its three invariants holds.
LEMMA ByMode ==
    ASSUME FightInv
    PROVE  /\ fight.mode = "gym" => GymInv
           /\ fight.mode = "auto" => AutoInv
           /\ fight.mode = "live" => LiveInv
<1>1. Idle => fight.mode = "none"
  BY DEF Idle, NoFight
<1>2. GymInv => fight.mode = "gym"
  BY DEF GymInv, GymFights
<1>3. AutoInv => fight.mode = "auto"
  BY DEF AutoInv, HuntFights
<1>4. LiveInv => fight.mode = "live"
  BY DEF LiveInv, HuntFights
<1> QED
  BY <1>1, <1>2, <1>3, <1>4 DEF FightInv

\* What TrainerAgent sees in the next state.
LEMMA SeenNext == Seen(party)' = Seen(party') /\ Seen(boxed)' = Seen(boxed')
  BY DEF Seen

\* The party, and how TrainerAgent sees it.
LEMMA PartyShape ==
    ASSUME PartyInv
    PROVE  /\ Len(party) \in Nat /\ DOMAIN party = 1 .. Len(party)
           /\ DOMAIN Seen(party) = 1 .. Len(party)
           /\ \A i \in 1 .. Len(party) :
                 party[i] \in Fighters /\ Seen(party)[i] = AsSeen(party[i])
           /\ Agent!Alive = {i \in 1 .. Len(party) : party[i].hp > 0}
<1>1. /\ Len(party) \in Nat /\ DOMAIN party = 1 .. Len(party)
      /\ DOMAIN Seen(party) = 1 .. Len(party)
      /\ \A i \in 1 .. Len(party) :
            party[i] \in Fighters /\ Seen(party)[i] = AsSeen(party[i])
  BY SeenShape DEF PartyInv
<1>2. ASSUME NEW i \in 1 .. Len(party)
      PROVE  Seen(party)[i].hp > Agent!Fainted <=> party[i].hp > 0
  <2>1. /\ party[i] \in Fighters /\ Seen(party)[i] = AsSeen(party[i])
        /\ party[i].hp \in Nat /\ Stats(party[i]).hp \in Nat \ {0}
    BY <1>1, FighterFields
  <2>2. Class(party[i]) > Fainted <=> party[i].hp > 0
    BY <2>1, ClassOf
  <2> QED
    BY <2>1, <2>2 DEF AsSeen, Fainted, Agent!Fainted
<1>3. Agent!Alive = {i \in 1 .. Len(party) : party[i].hp > 0}
  BY <1>1, <1>2 DEF Agent!Alive
<1> QED
  BY <1>1, <1>3

\* A party of the same length with other monsters in it.
LEMMA NewParty ==
    ASSUME PartyInv, NEW new \in [DOMAIN party -> Fighters]
    PROVE  /\ new \in Seq(Fighters)
           /\ DOMAIN Seen(new) = 1 .. Len(party)
           /\ \A i \in 1 .. Len(party) : Seen(new)[i] = AsSeen(new[i])
           /\ Seen(new) = [i \in 1 .. Len(party) |-> AsSeen(new[i])]
<1>1. Len(party) \in Nat /\ DOMAIN party = 1 .. Len(party)
  BY PartyShape
<1>2. new \in [1 .. Len(party) -> Fighters]
  BY <1>1
<1>3. new \in Seq(Fighters) /\ Len(new) = Len(party)
  BY <1>1, <1>2
<1>4. /\ DOMAIN Seen(new) = 1 .. Len(party)
      /\ \A i \in 1 .. Len(party) : Seen(new)[i] = AsSeen(new[i])
  BY <1>3, SeenShape
<1>5. Seen(new) = [i \in 1 .. Len(party) |-> AsSeen(new[i])]
  BY <1>2 DEF Seen, AsSeen
<1> QED
  BY <1>3, <1>4, <1>5

\* While a member stands, the first of those fights.
LEMMA FirstFights ==
    ASSUME PartyInv, Agent!Alive # {}
    PROVE  /\ Agent!Fighter \in 1 .. Len(party) /\ party[Agent!Fighter].hp > 0
           /\ \A j \in Agent!Alive : Agent!Fighter <= j
<1>1. Agent!Alive = {i \in 1 .. Len(party) : party[i].hp > 0} /\ Agent!Alive \subseteq Nat
  BY PartyShape
<1>2. \E i \in Agent!Alive : \A j \in Agent!Alive : i <= j
  BY <1>1, LeastNat
<1>3. Agent!Fighter \in Agent!Alive /\ \A j \in Agent!Alive : Agent!Fighter <= j
  BY <1>2 DEF Agent!Fighter
<1> QED
  BY <1>1, <1>3

\* Who hunts or challenges a gym has a member standing: healing comes first.
LEMMA SomeoneStands ==
    ASSUME Agent!Hunts \/ Agent!ChallengesGym
    PROVE  Agent!Alive # {}
  BY DEF Agent!Hunts, Agent!ChallengesGym, Agent!NeedsHeal

\* Whatever the route sends is a monster at full hit points.
LEMMA WildsAreMonsters ==
    ASSUME PartyInv, NEW wild \in Agent!Wilds
    PROVE  wild \in Monsters /\ wild.hp = Healthy
<1>1. /\ WildPool[location] \subseteq Species /\ RarePool[location] \subseteq Species
      /\ RouteMin[location] \in Nat \ {0} /\ RouteMax[location] \in Nat \ {0}
      /\ RareBonus \subseteq Nat
  <2>1. location \in 1 .. LastTown
    BY DEF PartyInv, Agent!Towns
  <2> QED
    BY <2>1, SameWorldAssumption
<1>2. Healthy \in HP /\ Agent!Healthy = Healthy
  BY DEF HP, Healthy, Fainted, Agent!Healthy
<1>3. CASE wild \in [species : WildPool[location],
                     level : RouteMin[location] .. RouteMax[location], hp : {Healthy}]
  <2>1. RouteMin[location] .. RouteMax[location] \subseteq Nat \ {0}
    BY <1>1
  <2> QED
    BY <1>1, <1>2, <1>3, <2>1 DEF Monsters
<1>4. CASE wild \in [species : RarePool[location],
                     level : {RouteMax[location] + b : b \in RareBonus}, hp : {Healthy}]
  <2>1. {RouteMax[location] + b : b \in RareBonus} \subseteq Nat \ {0}
    BY <1>1
  <2> QED
    BY <1>1, <1>2, <1>4, <2>1 DEF Monsters
<1> QED
  BY <1>2, <1>3, <1>4 DEF Agent!Wilds

\* The conditions of a tick do not change while a fight goes on.
LEMMA SameTick ==
    ASSUME UNCHANGED party, Fighting
    PROVE  /\ Agent!ChallengesGym' <=> Agent!ChallengesGym
           /\ Agent!Hunts' <=> Agent!Hunts
           /\ Agent!Fighter' = Agent!Fighter
           /\ Agent!Wilds' = Agent!Wilds
           /\ PartyInv' <=> PartyInv
           /\ Seen(party)' = Seen(party) /\ Seen(boxed)' = Seen(boxed)
<1>1. Seen(party)' = Seen(party) /\ Seen(boxed)' = Seen(boxed)
  BY SeenNext DEF Fighting
<1>2. Agent!Alive' = Agent!Alive /\ Agent!Wilds' = Agent!Wilds
  BY <1>1 DEF Fighting, Agent!Alive, Agent!Wilds
<1>3. /\ Agent!NeedsHeal' <=> Agent!NeedsHeal
      /\ Agent!GymUnbeaten' <=> Agent!GymUnbeaten
      /\ \A town : Agent!HasBadge(town)' <=> Agent!HasBadge(town)
  BY <1>1, <1>2 DEF Fighting, Agent!NeedsHeal, Agent!GymUnbeaten, Agent!HasBadge
<1>4. Agent!ChallengesGym' <=> Agent!ChallengesGym
  BY <1>1, <1>3 DEF Fighting, Agent!ChallengesGym, Agent!HasBadge
<1>5. Agent!Hunts' <=> Agent!Hunts
  BY <1>3, <1>4 DEF Fighting, Agent!Hunts, Agent!Moves, Agent!HasBadge
<1>6. Agent!Fighter' = Agent!Fighter
  BY <1>2 DEF Agent!Fighter
<1>7. PartyInv' <=> PartyInv
  BY DEF Fighting, PartyInv, Fighters, Stats, Agent!Towns
<1> QED
  BY <1>1, <1>2, <1>4, <1>5, <1>6, <1>7

-----------------------------------------------------------------------------
\* A rested party is a healed one.
LEMMA RestedIsHealed ==
    ASSUME PartyInv
    PROVE  Rested(party) \in Seq(Fighters) /\ Seen(Rested(party)) = Agent!Healed(Seen(party))
<1> DEFINE rest(i) == [party[i] EXCEPT !.hp = Stats(party[i]).hp]
<1>1. /\ Len(party) \in Nat /\ DOMAIN party = 1 .. Len(party)
      /\ DOMAIN Seen(party) = 1 .. Len(party)
      /\ \A i \in 1 .. Len(party) :
            party[i] \in Fighters /\ Seen(party)[i] = AsSeen(party[i])
  BY PartyShape
<1>2. ASSUME NEW i \in 1 .. Len(party)
      PROVE  rest(i) \in Fighters /\ AsSeen(rest(i)) = [Seen(party)[i] EXCEPT !.hp = Agent!Healthy]
  <2> DEFINE n == rest(i)
  <2>1. /\ party[i] \in [species : Species, level : Nat \ {0}, moves : Nat, hp : Nat]
        /\ Stats(party[i]).hp \in Nat \ {0}
    BY <1>1, FighterFields
  <2>2. /\ n \in [species : Species, level : Nat \ {0}, moves : Nat, hp : Nat]
        /\ n.species = party[i].species /\ n.level = party[i].level
        /\ n.hp = Stats(party[i]).hp
    BY <2>1
  <2> HIDE DEF n
  <2>3. Stats(n) = Stats(party[i])
    BY <2>2 DEF Stats
  <2>4. n \in Fighters
    BY <2>1, <2>2, <2>3 DEF Fighters
  <2>5. Class(n) = Healthy
    BY <2>1, <2>2, <2>3 DEF Class
  <2>6. AsSeen(n) = [AsSeen(party[i]) EXCEPT !.hp = Agent!Healthy]
    BY <2>2, <2>5 DEF AsSeen, Healthy, Agent!Healthy
  <2> QED
    BY <1>1, <2>4, <2>6 DEF n
<1>3. Rested(party) = [i \in 1 .. Len(party) |-> rest(i)]
  BY <1>1 DEF Rested
<1>4. Agent!Healed(Seen(party))
        = [i \in 1 .. Len(party) |-> [Seen(party)[i] EXCEPT !.hp = Agent!Healthy]]
  BY <1>1 DEF Agent!Healed
<1> HIDE DEF rest
<1>5. Rested(party) \in [DOMAIN party -> Fighters]
  BY <1>1, <1>2, <1>3
<1>6. /\ Rested(party) \in Seq(Fighters)
      /\ Seen(Rested(party)) = [i \in 1 .. Len(party) |-> AsSeen(Rested(party)[i])]
  BY <1>5, NewParty
<1>7. \A i \in 1 .. Len(party) :
         AsSeen(Rested(party)[i]) = [Seen(party)[i] EXCEPT !.hp = Agent!Healthy]
  BY <1>2, <1>3
<1>8. Seen(Rested(party)) = Agent!Healed(Seen(party))
  BY <1>4, <1>6, <1>7
<1> QED
  BY <1>6, <1>8

\* The heal tick is the one TrainerAgent has.
LEMMA HealIsHeal == ASSUME PartyInv, HealTick PROVE Agent!HealTick /\ PartyInv'
<1>1. /\ party' = Rested(party)
      /\ UNCHANGED <<boxed, badges, location, ball, totalCaught, strategy, gymCooldown>>
  BY DEF HealTick
<1>2. Seen(party)' = Agent!Healed(Seen(party)) /\ Seen(boxed)' = Seen(boxed)
  BY <1>1, RestedIsHealed, SeenNext
<1>3. PartyInv'
  BY <1>1, RestedIsHealed DEF PartyInv, Fighters, Stats, Agent!Towns
<1> QED
  BY <1>1, <1>2, <1>3 DEF HealTick, Agent!HealTick

\* So is the tick that moves on,
LEMMA MoveIsMove == ASSUME PartyInv, MoveTick PROVE Agent!MoveTick /\ PartyInv'
<1>1. /\ party' = Rested(party) /\ location' = location + 1
      /\ UNCHANGED <<boxed, badges, ball, totalCaught, strategy, gymCooldown>>
  BY DEF MoveTick
<1>2. Seen(party)' = Agent!Healed(Seen(party)) /\ Seen(boxed)' = Seen(boxed)
  BY <1>1, RestedIsHealed, SeenNext
<1>3. location \in Agent!Towns /\ location < LastTown
  BY DEF MoveTick, PartyInv, Agent!Moves
<1>4. location' \in Agent!Towns
  BY <1>1, <1>3, SameWorldAssumption DEF Agent!Towns
<1>5. PartyInv'
  BY <1>1, <1>4, RestedIsHealed DEF PartyInv, Fighters, Stats, Agent!Towns
<1> QED
  BY <1>1, <1>2, <1>5 DEF MoveTick, Agent!MoveTick

\* and the tick that meets nobody it fights.
LEMMA SearchIsSearch == ASSUME PartyInv, Search PROVE Agent!Search /\ PartyInv'
<1>1. /\ UNCHANGED <<party, boxed, badges, location, ball, totalCaught, strategy>>
      /\ Agent!Hunts /\ Hunted
  BY DEF Search
<1>2. Seen(party)' = Seen(party) /\ Seen(boxed)' = Seen(boxed)
  BY <1>1, SeenNext
<1>3. PartyInv'
  BY <1>1 DEF PartyInv, Fighters, Stats, Agent!Towns
<1> QED
  BY <1>1, <1>2, <1>3 DEF Hunted, Agent!Search, Agent!HuntFrame

-----------------------------------------------------------------------------
\* The member at place i with the hit points of the fight.
Worn(i) == [party[i] EXCEPT !.hp = fight.hp[i]]

\* Its class is no higher than before, and it stands while a hit point is left.
LEMMA WornMember ==
    ASSUME PartyInv, fight.hp \in [DOMAIN party -> Nat], NEW i \in DOMAIN party,
           fight.hp[i] <= party[i].hp
    PROVE  /\ Worn(i) \in Fighters
           /\ AsSeen(Worn(i)) = [Seen(party)[i] EXCEPT !.hp = Class(Worn(i))]
           /\ Class(Worn(i)) \in Fainted .. Seen(party)[i].hp
           /\ fight.hp[i] > 0 => Class(Worn(i)) \in Low .. Seen(party)[i].hp
           /\ fight.hp[i] = 0 => Class(Worn(i)) = Fainted
<1>1. /\ party[i] \in Fighters /\ Seen(party)[i] = AsSeen(party[i])
      /\ fight.hp[i] \in Nat
  BY PartyShape
<1>2. Seen(party)[i].hp = Class(party[i])
  BY <1>1 DEF AsSeen
<1> QED
  BY <1>1, <1>2, ClassFalls DEF Worn

\* A member that did not fight is as it was.
LEMMA UntouchedMember ==
    ASSUME PartyInv, NEW i \in DOMAIN party, fight.hp[i] = party[i].hp
    PROVE  Worn(i) = party[i]
<1>1. party[i] \in [species : Species, level : Nat \ {0}, moves : Nat, hp : Nat]
  BY PartyShape, FighterFields
<1> QED
  BY <1>1 DEF Worn

\* A lost gym leaves no member standing.
LEMMA LostGym ==
    ASSUME FightInv, GymInv, EndGym, fight.rival <= Len(GymTeams[location]),
           party' = AfterFight, gymCooldown' = GymCooldown, UNCHANGED <<badges, ball>>
    PROVE  Agent!LoseGym /\ PartyInv'
<1>1. /\ PartyInv /\ fight.hp \in [DOMAIN party -> Nat]
      /\ \A i \in DOMAIN party : fight.hp[i] <= party[i].hp
      /\ Agent!ChallengesGym
  BY DEF FightInv, GymInv, GymFights
<1>2. Len(GymTeams[location]) \in Nat /\ fight.rival \in Nat
  <2>1. location \in 1 .. LastTown
    BY <1>1 DEF PartyInv, Agent!Towns
  <2>2. GymTeams[location] \in Seq([species : Species, level : Nat])
    BY <2>1, FightsAssumption DEF Agent!Towns
  <2>3. Len(GymTeams[location]) \in Nat
    BY <2>2, LenProperties
  <2> QED
    BY <2>3 DEF GymInv, GymFights
<1>3. Standing(fight.hp) = {}
  BY <1>2 DEF EndGym, GymOver
<1>4. /\ DOMAIN party = 1 .. Len(party) /\ DOMAIN Seen(party) = 1 .. Len(party)
  BY <1>1, PartyShape
<1>5. ASSUME NEW i \in 1 .. Len(party)
      PROVE  Worn(i) \in Fighters /\ AsSeen(Worn(i)) = [Seen(party)[i] EXCEPT !.hp = Agent!Fainted]
  <2>1. fight.hp[i] = 0
    BY <1>1, <1>3, <1>4 DEF Standing
  <2> QED
    BY <1>1, <1>4, <2>1, WornMember DEF Fainted, Agent!Fainted
<1>6. party' = [i \in 1 .. Len(party) |-> Worn(i)]
  BY <1>4 DEF AfterFight, Worn
<1>7. party' \in [DOMAIN party -> Fighters]
  BY <1>4, <1>5, <1>6
<1>8. /\ party' \in Seq(Fighters)
      /\ Seen(party') = [i \in 1 .. Len(party) |-> AsSeen(party'[i])]
  BY <1>1, <1>7, NewParty
<1>9. Seen(party') = [i \in DOMAIN Seen(party) |-> [Seen(party)[i] EXCEPT !.hp = Agent!Fainted]]
  BY <1>4, <1>5, <1>6, <1>8
<1>10. UNCHANGED <<boxed, location, totalCaught, strategy>>
  BY DEF EndGym
<1>11. Seen(party)' = Seen(party') /\ Seen(boxed)' = Seen(boxed)
  BY <1>10, SeenNext
<1>12. PartyInv'
  BY <1>1, <1>8, <1>10 DEF PartyInv, Fighters, Stats, Agent!Towns
<1> QED
  BY <1>1, <1>9, <1>10, <1>11, <1>12 DEF Agent!LoseGym

\* What a member may be after a won gym.
GymWinner(i) ==
    CASE i \notin Agent!Alive -> {Seen(party)[i]}
      [] i \in Agent!Alive /\ i < fight.who ->
            Agent!Trained([Seen(party)[i] EXCEPT !.hp = Agent!Fainted])
      [] i = fight.who -> Agent!Winner(Seen(party)[i])
      [] i \in Agent!Alive /\ i > fight.who -> Agent!Trained(Seen(party)[i])

\* A member after a won gym, in its place relative to the last fighter.
LEMMA WonMember ==
    ASSUME PartyInv, GymInv, Standing(fight.hp) # {}, NEW i \in 1 .. Len(party),
           NEW gain \in 0 .. MaxGain
    PROVE  LET n == IF party[i].hp > 0 THEN Grown(Worn(i), gain) ELSE party[i]
           IN  n \in Fighters /\ AsSeen(n) \in GymWinner(i)
<1> DEFINE n == IF party[i].hp > 0 THEN Grown(Worn(i), gain) ELSE party[i]
           who == fight.who
<1>1. /\ DOMAIN party = 1 .. Len(party) /\ Len(party) \in Nat
      /\ \A j \in 1 .. Len(party) : party[j] \in Fighters /\ Seen(party)[j] = AsSeen(party[j])
      /\ Agent!Alive = {j \in 1 .. Len(party) : party[j].hp > 0}
  BY PartyShape
<1>2. /\ who \in 1 .. Len(party) /\ fight.hp \in [DOMAIN party -> Nat]
      /\ \A j \in DOMAIN party : fight.hp[j] <= party[j].hp
      /\ \A j \in DOMAIN party : j > who => fight.hp[j] = party[j].hp
      /\ who \in Standing(fight.hp)
      /\ \A j \in Standing(fight.hp) : who <= j
  BY <1>1 DEF GymInv, GymFights
<1>3. party[who].hp \in Nat /\ fight.hp[who] \in Nat /\ fight.hp[who] > 0 /\ fight.hp[who] <= party[who].hp
  BY <1>1, <1>2, FighterFields DEF Standing
<1>4. who \in Agent!Alive
  BY <1>1, <1>2, <1>3
<1>5. /\ Worn(i) \in Fighters
      /\ AsSeen(Worn(i)) = [Seen(party)[i] EXCEPT !.hp = Class(Worn(i))]
      /\ fight.hp[i] > 0 => Class(Worn(i)) \in Low .. Seen(party)[i].hp
      /\ fight.hp[i] = 0 => Class(Worn(i)) = Fainted
  BY <1>1, <1>2, WornMember
<1>6. Grown(Worn(i), gain) \in Fighters /\ AsSeen(Grown(Worn(i), gain)) \in Agent!Trained(AsSeen(Worn(i)))
  BY <1>5, GrownIsTrained
<1>7. CASE i \notin Agent!Alive
  <2>1. n = party[i]
    BY <1>1, <1>7
  <2>2. GymWinner(i) = {Seen(party)[i]}
    BY <1>4, <1>7 DEF GymWinner
  <2> QED
    BY <1>1, <2>1, <2>2
<1>8. CASE i \in Agent!Alive /\ i < who
  <2>1. n = Grown(Worn(i), gain)
    BY <1>1, <1>8
  <2>2. fight.hp[i] = 0
    <3>1. i \in DOMAIN fight.hp /\ fight.hp[i] \in Nat
      BY <1>1, <1>2
    <3>2. i \notin Standing(fight.hp)
      <4>1. ~(who <= i)
        BY <1>1, <1>2, <1>8
      <4> QED
        BY <1>2, <4>1
    <3> QED
      BY <3>1, <3>2 DEF Standing
  <2>3. AsSeen(Worn(i)) = [Seen(party)[i] EXCEPT !.hp = Agent!Fainted]
    BY <1>5, <2>2 DEF Fainted, Agent!Fainted
  <2>4. GymWinner(i) = Agent!Trained([Seen(party)[i] EXCEPT !.hp = Agent!Fainted])
    BY <1>1, <1>2, <1>8 DEF GymWinner
  <2> QED
    BY <1>6, <2>1, <2>3, <2>4
<1>9. CASE i = who
  <2>1. n = Grown(Worn(i), gain)
    BY <1>3, <1>9
  <2>2. Class(Worn(i)) \in Agent!Low .. Seen(party)[i].hp
    BY <1>3, <1>5, <1>9 DEF Low, Agent!Low
  <2>3. AsSeen(n) \in Agent!Winner(Seen(party)[i])
    BY <1>5, <1>6, <2>1, <2>2 DEF Agent!Winner
  <2>4. GymWinner(i) = Agent!Winner(Seen(party)[i])
    BY <1>2, <1>4, <1>9 DEF GymWinner
  <2> QED
    BY <1>6, <2>1, <2>3, <2>4
<1>10. CASE i \in Agent!Alive /\ i > who
  <2>1. n = Grown(Worn(i), gain)
    BY <1>1, <1>10
  <2>2. Worn(i) = party[i]
    BY <1>1, <1>2, <1>10, UntouchedMember
  <2>3. GymWinner(i) = Agent!Trained(Seen(party)[i])
    BY <1>1, <1>2, <1>10 DEF GymWinner
  <2> QED
    BY <1>1, <1>6, <2>1, <2>2, <2>3
<1>11. i < who \/ i = who \/ i > who
  BY <1>1, <1>2
<1> HIDE DEF n, who
<1> QED
  BY <1>7, <1>8, <1>9, <1>10, <1>11

\* A won gym: those before the last fighter have fallen, and are trained like
\* the others.
LEMMA WonGym ==
    ASSUME FightInv, GymInv, EndGym, fight.rival > Len(GymTeams[location]),
           badges' = Append(badges, location), ball' = ball + BallsPerBadge,
           NEW gain \in [DOMAIN party -> 0 .. MaxGain],
           party' = [i \in DOMAIN party |->
                       IF party[i].hp > 0 THEN Grown(AfterFight[i], gain[i]) ELSE party[i]],
           UNCHANGED gymCooldown
    PROVE  Agent!WinGym /\ PartyInv'
<1>1. PartyInv /\ Agent!ChallengesGym /\ Standing(fight.hp) # {}
  BY DEF FightInv, GymInv
<1>2. /\ DOMAIN party = 1 .. Len(party) /\ DOMAIN Seen(party) = 1 .. Len(party)
      /\ Agent!Alive = {j \in 1 .. Len(party) : party[j].hp > 0}
  BY <1>1, PartyShape
<1> DEFINE new(i) == IF party[i].hp > 0 THEN Grown(Worn(i), gain[i]) ELSE party[i]
<1>3. party' = [i \in 1 .. Len(party) |-> new(i)]
  BY <1>2 DEF AfterFight, Worn
<1>4. ASSUME NEW i \in 1 .. Len(party) PROVE new(i) \in Fighters /\ AsSeen(new(i)) \in GymWinner(i)
  BY <1>1, <1>2, WonMember
<1> HIDE DEF new
<1>5. party' \in [DOMAIN party -> Fighters]
  BY <1>2, <1>3, <1>4
<1>6. /\ party' \in Seq(Fighters)
      /\ Seen(party') = [i \in 1 .. Len(party) |-> AsSeen(party'[i])]
  BY <1>1, <1>5, NewParty
<1>7. \A i \in 1 .. Len(party) : Seen(party')[i] \in GymWinner(i)
  BY <1>3, <1>4, <1>6
<1>8. UNCHANGED <<boxed, location, totalCaught, strategy>>
  BY DEF EndGym
<1>9. Seen(party)' = Seen(party') /\ Seen(boxed)' = Seen(boxed)
  BY <1>8, SeenNext
<1>10. PartyInv'
  BY <1>1, <1>6, <1>8 DEF PartyInv, Fighters, Stats, Agent!Towns
<1>11. fight.who \in Agent!Alive
  <2>1. /\ fight.who \in DOMAIN party /\ fight.hp[fight.who] <= party[fight.who].hp
        /\ fight.hp \in [DOMAIN party -> Nat] /\ fight.hp[fight.who] > 0
    BY <1>1 DEF GymInv, GymFights, Standing
  <2>2. party[fight.who].hp \in Nat
    BY <1>1, <1>2, <2>1, PartyShape, FighterFields
  <2> QED
    BY <1>2, <2>1, <2>2
<1>12. Seen(party)' \in {t \in [DOMAIN Seen(party) -> UNION {GymWinner(i) : i \in DOMAIN Seen(party)}] :
                           \A i \in DOMAIN Seen(party) : t[i] \in GymWinner(i)}
  <2>1. Seen(party') \in [1 .. Len(party) -> UNION {GymWinner(i) : i \in 1 .. Len(party)}]
    BY <1>6, <1>7
  <2> QED
    BY <1>2, <1>7, <1>9, <2>1
<1>13. Agent!WinGym
  BY <1>1, <1>8, <1>9, <1>11, <1>12 DEF Agent!WinGym, GymWinner
<1> QED
  BY <1>10, <1>13

\* The end of a gym fight is a gym won or lost.
LEMMA GymIsGym ==
    ASSUME FightInv, EndGym
    PROVE  (Agent!WinGym \/ Agent!LoseGym) /\ PartyInv'
<1>1. GymInv
  BY ByMode DEF EndGym, GymOver
<1> QED
  BY <1>1, WonGym, LostGym DEF EndGym

-----------------------------------------------------------------------------
\* A hunt that ends with the wild standing is a lost battle: the fighter has
\* fallen or the turns are over.
LEMMA LostHunt ==
    ASSUME FightInv, LoseHunt
    PROVE  Agent!LoseBattle(fight.entry) /\ fight.entry \in Agent!Wilds /\ Agent!Hunts /\ PartyInv'
<1>1. PartyInv /\ AutoInv
  BY ByMode DEF FightInv, LoseHunt, AutoOver
<1> DEFINE who == Agent!Fighter
           h   == Class(Worn(who))
<1>2. /\ fight.hp \in [DOMAIN party -> Nat] /\ who \in DOMAIN party
      /\ fight.hp[who] <= party[who].hp
      /\ \A i \in DOMAIN party : i # who => fight.hp[i] = party[i].hp
      /\ Agent!Hunts /\ fight.entry \in Agent!Wilds /\ ~Agent!TooStrong(fight.entry)
  BY <1>1 DEF AutoInv, HuntFights
<1>3. /\ DOMAIN party = 1 .. Len(party) /\ DOMAIN Seen(party) = 1 .. Len(party)
      /\ \A i \in 1 .. Len(party) :
            party[i] \in Fighters /\ Seen(party)[i] = AsSeen(party[i])
  BY <1>1, PartyShape
<1>4. /\ Worn(who) \in Fighters
      /\ AsSeen(Worn(who)) = [Seen(party)[who] EXCEPT !.hp = h]
      /\ h \in Agent!Fainted .. Seen(party)[who].hp
  BY <1>1, <1>2, WornMember DEF Fainted, Agent!Fainted
<1>5. \A i \in DOMAIN party : i # who => Worn(i) = party[i]
  BY <1>1, <1>2, UntouchedMember
<1>6. party' = [i \in 1 .. Len(party) |-> Worn(i)]
  BY <1>3 DEF LoseHunt, AfterFight, Worn
<1> HIDE DEF who, h
<1>7. party' \in [DOMAIN party -> Fighters]
  BY <1>2, <1>3, <1>4, <1>5, <1>6
<1>8. /\ party' \in Seq(Fighters)
      /\ Seen(party') = [i \in 1 .. Len(party) |-> AsSeen(party'[i])]
  BY <1>1, <1>7, NewParty
<1>9. Seen(party') = [Seen(party) EXCEPT ![who].hp = h]
  <2>1. Seen(party) = [i \in 1 .. Len(party) |-> Seen(party)[i]]
    BY <1>3 DEF Seen
  <2>2. \A i \in 1 .. Len(party) :
           AsSeen(party'[i]) = IF i = who THEN [Seen(party)[who] EXCEPT !.hp = h] ELSE Seen(party)[i]
    BY <1>3, <1>4, <1>5, <1>6
  <2> QED
    BY <1>2, <1>3, <1>8, <2>1, <2>2
<1>10. /\ UNCHANGED <<boxed, badges, location, ball, totalCaught, strategy>>
       /\ Hunted
  BY DEF LoseHunt
<1>11. Seen(party)' = Seen(party') /\ Seen(boxed)' = Seen(boxed)
  BY <1>10, SeenNext
<1>12. PartyInv'
  BY <1>1, <1>8, <1>10 DEF PartyInv, Fighters, Stats, Agent!Towns
<1>13. Agent!HuntFrame
  BY <1>2, <1>10 DEF Hunted, Agent!HuntFrame
<1>14. \E x \in Agent!Fainted .. Seen(party)[who].hp : Seen(party)' = [Seen(party) EXCEPT ![who].hp = x]
  BY <1>4, <1>9, <1>11
<1> QED
  BY <1>2, <1>10, <1>11, <1>12, <1>13, <1>14 DEF Agent!LoseBattle, who

\* A monster just met, at full hit points.
LEMMA FreshIsSeen ==
    ASSUME NEW wild \in Monsters, wild.hp = Healthy
    PROVE  Fresh(wild.species, wild.level) \in Fighters
           /\ AsSeen(Fresh(wild.species, wild.level)) = wild
<1> DEFINE n == Fresh(wild.species, wild.level)
           max == StatsAtLevel(Templates[wild.species], wild.level).hp
<1>1. wild.species \in Species /\ wild.level \in Nat \ {0}
  BY DEF Monsters
<1>2. max \in Nat \ {0}
  BY <1>1, HitPointsGrow
<1>3. /\ n \in [species : Species, level : Nat \ {0}, moves : Nat, hp : Nat]
      /\ n.species = wild.species /\ n.level = wild.level /\ n.hp = max
  BY <1>1, <1>2 DEF Fresh, NoMoves
<1>4. Stats(n).hp = max
  BY <1>3 DEF Stats
<1> HIDE DEF n, max
<1>5. n \in Fighters
  BY <1>2, <1>3, <1>4 DEF Fighters
<1>6. Class(n) = Healthy
  BY <1>2, <1>3, <1>4 DEF Class
<1>7. AsSeen(n) \in Monsters
  BY <1>5, SeenIsMonster
<1>8. AsSeen(n).species = wild.species /\ AsSeen(n).level = wild.level /\ AsSeen(n).hp = wild.hp
  BY <1>3, <1>6 DEF AsSeen
<1>9. AsSeen(n) = wild
  BY <1>7, <1>8 DEF Monsters
<1> QED
  BY <1>5, <1>9 DEF n

\* A won hunt is a won battle: the fighter stands, is trained, and the ball is
\* thrown and the newcomer placed as TrainerAgent decides.
LEMMA WonHunt ==
    ASSUME PowerIsNat, FightInv, WinHunt
    PROVE  Agent!WinBattle(fight.entry) /\ fight.entry \in Agent!Wilds /\ Agent!Hunts /\ PartyInv'
<1>1. PartyInv /\ AutoInv
  BY ByMode DEF FightInv, WinHunt, AutoOver
<1> DEFINE who == Agent!Fighter
<1>2. /\ fight.hp \in [DOMAIN party -> Nat] /\ who \in DOMAIN party /\ fight.who = who
      /\ fight.hp[who] <= party[who].hp
      /\ fight.foeHp \in Nat /\ (fight.hp[who] > 0 \/ fight.foeHp > 0)
      /\ Agent!Hunts /\ fight.entry \in Agent!Wilds /\ ~Agent!TooStrong(fight.entry)
  BY <1>1 DEF AutoInv, HuntFights
<1>3. /\ DOMAIN party = 1 .. Len(party) /\ DOMAIN Seen(party) = 1 .. Len(party)
      /\ Len(party) \in Nat
      /\ \A i \in 1 .. Len(party) :
            party[i] \in Fighters /\ Seen(party)[i] = AsSeen(party[i])
  BY <1>1, PartyShape
<1>4. fight.hp[who] > 0
  BY <1>2 DEF WinHunt
<1>5. /\ Worn(who) \in Fighters
      /\ AsSeen(Worn(who)) = [Seen(party)[who] EXCEPT !.hp = Class(Worn(who))]
      /\ Class(Worn(who)) \in Agent!Low .. Seen(party)[who].hp
  BY <1>1, <1>2, <1>4, WornMember DEF Low, Agent!Low
<1> DEFINE wild      == fight.entry
           newcomer  == Fresh(wild.species, wild.level)
           after(g)  == [party EXCEPT ![who] = Grown(AfterFight[who], g)]
           throws(g) == ShouldCatch(after(g), boxed, ball, strategy, wild)
           placed(g) == PlaceNewMonster(after(g), boxed, newcomer)
<1>6. PICK gain \in 0 .. MaxGain :
        /\ ball' = IF throws(gain) THEN ball - 1 ELSE ball
        /\ \/ party' = after(gain) /\ UNCHANGED <<boxed, totalCaught>>
           \/ /\ throws(gain)
              /\ party' = placed(gain).team /\ boxed' = placed(gain).box
              /\ totalCaught' = totalCaught + 1
  BY <1>2 DEF WinHunt
<1>7. /\ UNCHANGED <<badges, location, strategy>>
      /\ Hunted
  BY DEF WinHunt
<1> DEFINE m     == Grown(Worn(who), gain)
           s     == after(gain)
           seenM == AsSeen(m)
<1>8. AfterFight[who] = Worn(who)
  BY <1>2 DEF AfterFight, Worn
<1>9. m \in Fighters /\ seenM \in Agent!Winner(Seen(party)[who])
  <2>1. m \in Fighters /\ seenM \in Agent!Trained(AsSeen(Worn(who)))
    BY <1>5, GrownIsTrained
  <2> QED
    BY <1>5, <2>1 DEF Agent!Winner
<1>10. s = [party EXCEPT ![who] = m]
  BY <1>8
<1> HIDE DEF m
<1>11. s \in [DOMAIN party -> Fighters] /\ \A i \in 1 .. Len(party) : s[i] = IF i = who THEN m ELSE party[i]
  <2>1. party \in [1 .. Len(party) -> Fighters]
    BY <1>1, LenProperties DEF PartyInv
  <2> QED
    BY <1>2, <1>3, <1>9, <1>10, <2>1
<1> HIDE DEF after
<1>12. /\ s \in Seq(Fighters) /\ s # <<>>
       /\ Seen(s) = [i \in 1 .. Len(party) |-> AsSeen(s[i])]
  <2>1. /\ s \in Seq(Fighters)
        /\ Seen(s) = [i \in 1 .. Len(party) |-> AsSeen(s[i])]
    BY <1>1, <1>11, NewParty
  <2>2. who \in DOMAIN s
    BY <1>2, <1>11
  <2> QED
    BY <2>1, <2>2
<1>13. Seen(s) = [Seen(party) EXCEPT ![who] = seenM]
  <2>1. Seen(party) = [i \in 1 .. Len(party) |-> Seen(party)[i]]
    BY <1>3 DEF Seen
  <2>2. \A i \in 1 .. Len(party) : AsSeen(s[i]) = IF i = who THEN seenM ELSE Seen(party)[i]
    BY <1>3, <1>11
  <2> QED
    BY <1>2, <1>3, <1>12, <2>1, <2>2
<1>14. /\ newcomer \in Fighters /\ AsSeen(newcomer) = wild
  BY <1>1, <1>2, WildsAreMonsters, FreshIsSeen
<1>15. boxed \in Seq(Fighters)
  BY <1>1 DEF PartyInv
<1>16. Agent!ShouldCatch(Seen(s), Seen(boxed), ball, strategy, wild) <=> throws(gain)
  BY <1>12, <1>15, SameDecision
<1>17. /\ placed(gain).team \in Seq(Fighters) /\ placed(gain).box \in Seq(Fighters)
       /\ Agent!PlaceNewMonster(Seen(s), Seen(boxed), wild).team = Seen(placed(gain).team)
       /\ Agent!PlaceNewMonster(Seen(s), Seen(boxed), wild).box = Seen(placed(gain).box)
  <2> DEFINE seen == Agent!PlaceNewMonster(Seen(s), Seen(boxed), AsSeen(newcomer))
  <2>1. /\ placed(gain).team \in Seq(Fighters) /\ placed(gain).box \in Seq(Fighters)
        /\ seen.team = Seen(placed(gain).team) /\ seen.box = Seen(placed(gain).box)
    BY <1>12, <1>14, <1>15, SamePlacement DEF after
  <2>2. seen = Agent!PlaceNewMonster(Seen(s), Seen(boxed), wild)
    BY <1>14
  <2> HIDE DEF seen, placed, wild
  <2> QED
    BY <2>1, <2>2
<1>18. Seen(party)' = Seen(party') /\ Seen(boxed)' = Seen(boxed')
  BY SeenNext
<1>19. PartyInv'
  <2>1. party' \in Seq(Fighters) /\ boxed' \in Seq(Fighters)
    BY <1>6, <1>12, <1>15, <1>17
  <2> QED
    BY <1>1, <1>7, <2>1 DEF PartyInv, Fighters, Stats, Agent!Towns
<1>20. Agent!HuntFrame
  BY <1>2, <1>7 DEF Hunted, Agent!HuntFrame
<1> HIDE DEF s, placed, throws, seenM, newcomer, wild
<1>21. /\ ball' = IF Agent!ShouldCatch(Seen(s), Seen(boxed), ball, strategy, wild)
                  THEN ball - 1 ELSE ball
       /\ \/ Seen(party)' = Seen(s) /\ UNCHANGED <<Seen(boxed), totalCaught>>
          \/ /\ Agent!ShouldCatch(Seen(s), Seen(boxed), ball, strategy, wild)
             /\ Seen(party)' = Agent!PlaceNewMonster(Seen(s), Seen(boxed), wild).team
             /\ Seen(boxed)' = Agent!PlaceNewMonster(Seen(s), Seen(boxed), wild).box
             /\ totalCaught' = totalCaught + 1
  <2>1. CASE party' = after(gain) /\ UNCHANGED <<boxed, totalCaught>>
    <3>1. Seen(party)' = Seen(s) /\ UNCHANGED <<Seen(boxed), totalCaught>>
      BY <1>18, <2>1 DEF s
    <3> QED
      BY <1>6, <1>16, <3>1
  <2>2. CASE /\ throws(gain)
             /\ party' = placed(gain).team /\ boxed' = placed(gain).box
             /\ totalCaught' = totalCaught + 1
    <3>1. /\ Seen(party)' = Seen(placed(gain).team) /\ Seen(boxed)' = Seen(placed(gain).box)
      BY <1>18, <2>2
    <3> QED
      BY <1>6, <1>16, <1>17, <2>2, <3>1
  <2> QED
    BY <1>6, <2>1, <2>2
<1>22. ~Agent!TooStrong(wild)
  BY <1>2 DEF wild
<1>23. Agent!WinBattle(wild)
  BY <1>9, <1>13, <1>20, <1>21, <1>22 DEF Agent!WinBattle
<1> QED
  BY <1>2, <1>19, <1>23 DEF wild

-----------------------------------------------------------------------------
\* Neither fight takes less than a point with a hit.
LEMMA HitHurts ==
    ASSUME NEW a, NEW d, NEW hit \in DamageSimple(a, d)
    PROVE  hit \in Nat \ {0}
  BY DEF DamageSimple, AtLeast

\* One turn between two who stand: nobody gains, one at most falls.
LEMMA TurnResult ==
    ASSUME NEW hp \in Nat, NEW foeHp \in Nat, hp > 0, foeHp > 0,
           NEW given \in Nat, NEW taken \in Nat, NEW first
    PROVE  LET t == Turn(hp, foeHp, given, taken, first)
           IN  /\ t.hp \in Int /\ t.foeHp \in Int
               /\ t.hp \in {hp, hp - taken} /\ t.foeHp \in {foeHp, foeHp - given}
               /\ t.hp > 0 \/ t.foeHp > 0
               /\ AtLeast(0, t.hp) \in Nat /\ AtLeast(0, t.hp) <= hp
               /\ AtLeast(0, t.hp) > 0 <=> t.hp > 0
               /\ AtLeast(0, t.foeHp) \in Nat
               /\ AtLeast(0, t.foeHp) > 0 <=> t.foeHp > 0
<1> DEFINE t == Turn(hp, foeHp, given, taken, first)
<1>1. /\ t.hp = IF ~first \/ foeHp > given THEN hp - taken ELSE hp
      /\ t.foeHp = IF first \/ hp > taken THEN foeHp - given ELSE foeHp
  BY DEF Turn
<1> HIDE DEF t
<1>2. /\ t.hp \in Int /\ t.foeHp \in Int
      /\ t.hp \in {hp, hp - taken} /\ t.foeHp \in {foeHp, foeHp - given}
      /\ t.hp > 0 \/ t.foeHp > 0
  <2>1. CASE first
    BY <1>1, <2>1
  <2>2. CASE ~first
    BY <1>1, <2>2
  <2> QED
    BY <2>1, <2>2
<1>3. /\ AtLeast(0, t.hp) \in Nat /\ AtLeast(0, t.hp) <= hp
      /\ AtLeast(0, t.hp) > 0 <=> t.hp > 0
      /\ AtLeast(0, t.foeHp) \in Nat
      /\ AtLeast(0, t.foeHp) > 0 <=> t.foeHp > 0
  BY <1>2 DEF AtLeast
<1> QED
  BY <1>2, <1>3 DEF t

\* The hit points of a gym's monster.
LEMMA LeaderStands ==
    ASSUME NEW town \in Agent!Towns, NEW i \in DOMAIN GymTeams[town]
    PROVE  Leader(GymTeams[town][i]).stats.hp \in Nat \ {0}
<1> DEFINE entry == GymTeams[town][i]
           base  == Templates[entry.species].base.hp
<1>1. entry \in [species : Species, level : Nat]
  <2>1. GymTeams[town] \in Seq([species : Species, level : Nat])
    BY FightsAssumption
  <2> QED
    BY <2>1, LenProperties, ElementOfSeq
<1>2. base \in Nat
  <2>1. Templates[entry.species].base \in [StatNames -> Nat \ {0}]
    BY <1>1, FightsAssumption
  <2> QED
    BY <2>1 DEF StatNames
<1>3. entry.level \in Nat
  BY <1>1
<1>4. Leader(entry).stats.hp = StatAtLevel(base, entry.level) + (entry.level + 5)
  BY DEF Leader, Combatant
<1> HIDE DEF base, entry
<1> DEFINE product == 2 * base * entry.level
<1>5. product \in Nat
  BY <1>2, <1>3
<1>6. StatAtLevel(base, entry.level) = product \div 100 + 5
  BY DEF StatAtLevel
<1> HIDE DEF product
<1>7. StatAtLevel(base, entry.level) \in Nat
  BY <1>5, <1>6
<1> QED
  BY <1>3, <1>4, <1>7 DEF entry

\* A gym has a team.
LEMMA GymTeam ==
    ASSUME NEW town \in Agent!Towns
    PROVE  Len(GymTeams[town]) \in Nat \ {0} /\ DOMAIN GymTeams[town] = 1 .. Len(GymTeams[town])
<1>1. GymTeams[town] \in Seq([species : Species, level : Nat]) /\ DOMAIN GymTeams[town] # {}
  BY FightsAssumption
<1> QED
  BY <1>1, LenProperties

\* The first of those who stand.
LEMMA FirstStanding ==
    ASSUME NEW S, S \subseteq Nat, S # {}
    PROVE  Min(S) \in S /\ \A i \in S : Min(S) <= i
  BY LeastNat DEF Min

-----------------------------------------------------------------------------
\* The hit points with which a fight begins.
LEMMA BegunHp ==
    ASSUME PartyInv
    PROVE  /\ [i \in DOMAIN party |-> party[i].hp] \in [DOMAIN party -> Nat]
           /\ \A i \in DOMAIN party : party[i].hp \in Nat
  BY PartyShape, FighterFields

\* A gym fight begins with the party as it is, its first living member in front.
LEMMA GymBegins == ASSUME PartyInv, BeginGym PROVE PartyInv' /\ GymInv'
<1> DEFINE who == Agent!Fighter
           hp  == [i \in DOMAIN party |-> party[i].hp]
           foeHp == Leader(GymTeams[location][1]).stats.hp
<1>1. Agent!ChallengesGym /\ UNCHANGED party /\ Fighting
  BY DEF BeginGym
<1>2. PartyInv' /\ Agent!ChallengesGym'
  BY <1>1, SameTick
<1>3. location \in Agent!Towns /\ location' = location
  BY <1>1 DEF PartyInv, Fighting
<1>4. Len(GymTeams[location]) \in Nat \ {0} /\ foeHp \in Nat \ {0}
  BY <1>3, GymTeam, LeaderStands
<1>5. /\ who \in 1 .. Len(party) /\ party[who].hp > 0
      /\ \A j \in Agent!Alive : who <= j
      /\ DOMAIN party = 1 .. Len(party)
      /\ Agent!Alive = {i \in 1 .. Len(party) : party[i].hp > 0}
  BY <1>1, SomeoneStands, FirstFights, PartyShape
<1>6. hp \in [DOMAIN party -> Nat]
  BY BegunHp
<1>7. fight' = [mode |-> "gym", who |-> who, hp |-> hp, entry |-> NoFight,
                foeHp |-> foeHp, turns |-> 0, rival |-> 1]
  BY DEF BeginGym, Begun
<1> HIDE DEF who, foeHp
<1>8. fight' \in GymFights'
  BY <1>1, <1>3, <1>4, <1>5, <1>6, <1>7 DEF GymFights, NoFight
<1>9. /\ fight'.hp = hp /\ fight'.who = who /\ fight'.rival = 1 /\ fight'.foeHp = foeHp
  BY <1>7
<1>10. Standing(hp) = Agent!Alive
  BY <1>5 DEF Standing
<1>11. \A i \in DOMAIN party : hp[i] = party[i].hp /\ party[i].hp \in Nat
  BY BegunHp
<1>12. /\ who \in Standing(hp)
       /\ \A i \in Standing(hp) : who <= i
  BY <1>5, <1>10
<1> HIDE DEF hp
<1>13. /\ \A i \in DOMAIN party' : fight'.hp[i] <= party'[i].hp
       /\ \A i \in DOMAIN party' : i > fight'.who => fight'.hp[i] = party'[i].hp
  BY <1>1, <1>9, <1>11
<1>14. ~(fight'.rival > Len(GymTeams[location'])) /\ fight'.foeHp > 0
  BY <1>3, <1>4, <1>9
<1>15. Standing(fight'.hp) # {} =>
          /\ fight'.who \in Standing(fight'.hp)
          /\ \A i \in Standing(fight'.hp) : fight'.who <= i
  BY <1>9, <1>12
<1>16. Standing(fight.hp)' = Standing(fight'.hp)
  BY DEF Standing
<1> QED
  BY <1>2, <1>8, <1>13, <1>14, <1>15, <1>16 DEF GymInv

\* A turn of it takes from the fighter alone; when it falls the next who stands
\* follows, and both sides never fall in one turn.
LEMMA GymGoesOn == ASSUME FightInv, GymTurn PROVE PartyInv' /\ GymInv'
<1>1. PartyInv /\ GymInv
  BY ByMode DEF FightInv, GymTurn
<1> DEFINE foe == Leader(GymTeams[location][fight.rival])
           len == Len(GymTeams[location])
<1>2. UNCHANGED party /\ Fighting /\ UNCHANGED location
  BY DEF GymTurn, Fighting
<1>3. PartyInv' /\ Agent!ChallengesGym'
  BY <1>1, <1>2, SameTick DEF GymInv
<1>4. /\ fight \in GymFights
      /\ fight.who \in DOMAIN party /\ fight.hp \in [DOMAIN party -> Nat]
      /\ fight.foeHp \in Nat /\ fight.rival \in 1 .. len + 1
      /\ \A i \in DOMAIN party : fight.hp[i] <= party[i].hp
      /\ \A i \in DOMAIN party : i > fight.who => fight.hp[i] = party[i].hp
  BY <1>1 DEF GymInv, GymFights
<1>5. /\ location \in Agent!Towns /\ len \in Nat \ {0}
      /\ DOMAIN GymTeams[location] = 1 .. len
  BY <1>1, GymTeam DEF PartyInv
<1>6. Standing(fight.hp) # {} /\ ~(fight.rival > len)
  BY DEF GymTurn, GymOver
<1>7. /\ fight.rival \in 1 .. len /\ fight.foeHp > 0
      /\ fight.who \in Standing(fight.hp)
      /\ \A i \in Standing(fight.hp) : fight.who <= i
  BY <1>1, <1>4, <1>5, <1>6 DEF GymInv
<1>8. foe.stats.hp \in Nat \ {0}
  BY <1>5, <1>7, LeaderStands
<1>9. MyHp \in Nat /\ MyHp > 0 /\ MyHp = fight.hp[fight.who]
  BY <1>4, <1>7 DEF MyHp, Standing
<1>10. PICK given \in DamageSimple(Me, foe), taken \in DamageSimple(foe, Me) :
         LET t     == Turn(MyHp, fight.foeHp, given, taken, Me.stats.spd >= foe.stats.spd)
             hp    == [fight.hp EXCEPT ![fight.who] = AtLeast(0, t.hp)]
             rival == IF t.foeHp <= 0 THEN fight.rival + 1 ELSE fight.rival
         IN  fight' = [fight EXCEPT
                !.hp = hp, !.rival = rival,
                !.who = IF Standing(hp) = {} THEN @ ELSE Min(Standing(hp)),
                !.foeHp = CASE t.hp > 0 /\ t.foeHp > 0 -> t.foeHp
                            [] t.hp <= 0 -> foe.stats.hp
                            [] OTHER -> IF rival > Len(GymTeams[location]) THEN 0
                                        ELSE Leader(GymTeams[location][rival]).stats.hp]
  BY DEF GymTurn
<1> DEFINE t     == Turn(MyHp, fight.foeHp, given, taken, Me.stats.spd >= foe.stats.spd)
           hp    == [fight.hp EXCEPT ![fight.who] = AtLeast(0, t.hp)]
           rival == IF t.foeHp <= 0 THEN fight.rival + 1 ELSE fight.rival
           who   == IF Standing(hp) = {} THEN fight.who ELSE Min(Standing(hp))
           foeHp == CASE t.hp > 0 /\ t.foeHp > 0 -> t.foeHp
                      [] t.hp <= 0 -> foe.stats.hp
                      [] OTHER -> IF rival > len THEN 0
                                  ELSE Leader(GymTeams[location][rival]).stats.hp
<1>11. given \in Nat /\ taken \in Nat
  BY HitHurts
<1>12. /\ t.hp \in Int /\ t.foeHp \in Int /\ (t.hp > 0 \/ t.foeHp > 0)
       /\ AtLeast(0, t.hp) \in Nat /\ AtLeast(0, t.hp) <= MyHp
       /\ AtLeast(0, t.hp) > 0 <=> t.hp > 0
  <2> DEFINE first == Me.stats.spd >= foe.stats.spd
  <2>1. MyHp \in Nat /\ MyHp > 0 /\ fight.foeHp \in Nat /\ fight.foeHp > 0
    BY <1>4, <1>7, <1>9
  <2> HIDE DEF first
  <2>2. t = Turn(MyHp, fight.foeHp, given, taken, first)
    BY DEF first
  <2> HIDE DEF t
  <2> QED
    BY <1>11, <2>1, <2>2, TurnResult
<1>13. fight' = [fight EXCEPT !.hp = hp, !.rival = rival, !.who = who, !.foeHp = foeHp]
  BY <1>10
<1> HIDE DEF t
<1>14. /\ hp \in [DOMAIN party -> Nat]
       /\ hp[fight.who] = AtLeast(0, t.hp)
       /\ \A i \in DOMAIN party : i # fight.who => hp[i] = fight.hp[i]
       /\ \A i \in DOMAIN party : hp[i] <= fight.hp[i]
  <2>1. \A i \in DOMAIN party : fight.hp[i] \in Nat
    BY <1>4
  <2> QED
    BY <1>4, <1>9, <1>12, <2>1
<1> HIDE DEF hp
<1>15. DOMAIN hp = DOMAIN party /\ DOMAIN party \subseteq Nat /\ DOMAIN fight.hp = DOMAIN party
  BY <1>1, <1>4, <1>14, PartyShape
<1>16. Standing(hp) \subseteq Standing(fight.hp) /\ Standing(hp) \subseteq DOMAIN party
  <2> SUFFICES ASSUME NEW i \in Standing(hp) PROVE i \in Standing(fight.hp) /\ i \in DOMAIN party
    OBVIOUS
  <2>1. i \in DOMAIN party /\ hp[i] > 0
    BY <1>15 DEF Standing
  <2>2. hp[i] \in Nat /\ fight.hp[i] \in Nat /\ hp[i] <= fight.hp[i]
    BY <1>4, <1>14, <2>1
  <2> QED
    BY <1>15, <2>1, <2>2 DEF Standing
<1>17. /\ who \in DOMAIN party /\ fight.who <= who
       /\ Standing(hp) # {} => who \in Standing(hp) /\ \A i \in Standing(hp) : who <= i
  <2>1. CASE Standing(hp) = {}
    BY <1>4, <1>15, <2>1
  <2>2. CASE Standing(hp) # {}
    <3>1. who \in Standing(hp) /\ \A i \in Standing(hp) : who <= i
      BY <1>15, <1>16, <2>2, FirstStanding
    <3> QED
      BY <1>7, <1>16, <2>2, <3>1
  <2> QED
    BY <2>1, <2>2
<1>18. /\ rival \in 1 .. len + 1
       /\ rival > len => t.foeHp <= 0
  BY <1>5, <1>7, <1>12
<1>19. foeHp \in Nat /\ (foeHp > 0 \/ rival > len)
  <2>1. CASE t.hp > 0 /\ t.foeHp > 0
    <3>1. foeHp = t.foeHp
      BY <1>12, <2>1
    <3> HIDE DEF foeHp
    <3> QED
      BY <1>12, <2>1, <3>1
  <2>2. CASE t.hp <= 0
    <3>1. foeHp = foe.stats.hp
      BY <1>12, <2>2
    <3> HIDE DEF foeHp
    <3> QED
      BY <1>8, <3>1
  <2>3. CASE t.hp > 0 /\ t.foeHp <= 0
    <3>1. foeHp = IF rival > len THEN 0 ELSE Leader(GymTeams[location][rival]).stats.hp
      BY <1>12, <2>3
    <3> HIDE DEF foeHp, rival
    <3>2. ~(rival > len) => rival \in DOMAIN GymTeams[location]
      BY <1>5, <1>18
    <3>3. ~(rival > len) => Leader(GymTeams[location][rival]).stats.hp \in Nat \ {0}
      BY <1>5, <3>2, LeaderStands
    <3> QED
      BY <3>1, <3>3
  <2>4. (t.hp > 0 /\ t.foeHp > 0) \/ t.hp <= 0 \/ (t.hp > 0 /\ t.foeHp <= 0)
    BY <1>12
  <2> HIDE DEF foeHp, rival
  <2> QED
    BY <2>1, <2>2, <2>3, <2>4
<1> HIDE DEF who, foeHp, rival, foe, len
<1>20. /\ fight' \in GymFights
       /\ fight'.hp = hp /\ fight'.who = who /\ fight'.foeHp = foeHp /\ fight'.rival = rival
  <2>1. rival \in 1 .. Len(GymTeams[location]) + 1
    BY <1>18 DEF len
  <2> QED
    BY <1>4, <1>13, <1>14, <1>17, <1>19, <2>1 DEF GymFights
<1>21. GymFights' = GymFights
  BY <1>2 DEF GymFights
<1>22. rival > len => Standing(hp) # {}
  <2>1. rival > len => hp[fight.who] > 0
    BY <1>12, <1>14, <1>18
  <2> QED
    BY <1>4, <1>15, <2>1 DEF Standing
<1>23. /\ \A i \in DOMAIN party' : fight'.hp[i] <= party'[i].hp
       /\ \A i \in DOMAIN party' : i > fight'.who => fight'.hp[i] = party'[i].hp
  <2> SUFFICES ASSUME NEW i \in DOMAIN party
               PROVE  hp[i] <= party[i].hp /\ (i > who => hp[i] = party[i].hp)
    BY <1>2, <1>20
  <2>1. /\ hp[i] \in Nat /\ fight.hp[i] \in Nat /\ party[i].hp \in Nat
        /\ hp[i] <= fight.hp[i] /\ fight.hp[i] <= party[i].hp
    BY <1>1, <1>4, <1>14, BegunHp
  <2>2. i > who => i > fight.who
    BY <1>4, <1>15, <1>17
  <2>3. i > who => hp[i] = party[i].hp
    BY <1>4, <1>14, <1>15, <2>2
  <2> QED
    BY <2>1, <2>3
<1>24. Standing(fight'.hp) # {} =>
          /\ fight'.who \in Standing(fight'.hp)
          /\ \A i \in Standing(fight'.hp) : fight'.who <= i
  BY <1>17, <1>20
<1>25. IF fight'.rival > Len(GymTeams[location'])
       THEN Standing(fight'.hp) # {} ELSE fight'.foeHp > 0
  BY <1>2, <1>19, <1>20, <1>22 DEF len
<1>26. Standing(fight.hp)' = Standing(fight'.hp)
  BY DEF Standing
<1> QED
  BY <1>3, <1>20, <1>21, <1>23, <1>24, <1>25, <1>26 DEF GymInv

\* A turn of the gym takes a point of a side that stands after it, or makes
\* a side fall, and gives no point back.
LEMMA GymTurnWears ==
    ASSUME FightInv, GymTurn
    PROVE  /\ fight'.rival >= fight.rival
           /\ \A i \in DOMAIN party : fight'.hp[i] <= fight.hp[i]
           /\ \/ fight'.rival > fight.rival
              \/ Standing(fight'.hp) # Standing(fight.hp)
              \/ fight'.foeHp < fight.foeHp
<1> DEFINE foe == Leader(GymTeams[location][fight.rival])
           first == Me.stats.spd >= foe.stats.spd
           len == Len(GymTeams[location])
<1>1. /\ fight \in GymFights /\ DOMAIN fight.hp = DOMAIN party
      /\ fight.who \in DOMAIN party /\ fight.hp \in [DOMAIN party -> Nat]
      /\ fight.foeHp \in Nat /\ fight.rival \in 1 .. len + 1 /\ fight.rival \in Nat
  <2>1. GymInv
    BY ByMode DEF FightInv, GymTurn
  <2> QED
    BY <2>1 DEF GymInv, GymFights
<1>2. fight.foeHp > 0 /\ fight.who \in Standing(fight.hp)
  BY <1>1, ByMode DEF FightInv, GymTurn, GymOver, GymInv
<1>3. MyHp \in Nat /\ MyHp > 0 /\ MyHp = fight.hp[fight.who]
  BY <1>1, <1>2 DEF MyHp, Standing
<1>4. PICK given \in DamageSimple(Me, foe), taken \in DamageSimple(foe, Me) :
         LET t     == Turn(MyHp, fight.foeHp, given, taken, first)
             hp    == [fight.hp EXCEPT ![fight.who] = AtLeast(0, t.hp)]
             rival == IF t.foeHp <= 0 THEN fight.rival + 1 ELSE fight.rival
         IN  fight' = [fight EXCEPT
                !.hp = hp, !.rival = rival,
                !.who = IF Standing(hp) = {} THEN @ ELSE Min(Standing(hp)),
                !.foeHp = CASE t.hp > 0 /\ t.foeHp > 0 -> t.foeHp
                            [] t.hp <= 0 -> foe.stats.hp
                            [] OTHER -> IF rival > len THEN 0
                                        ELSE Leader(GymTeams[location][rival]).stats.hp]
  BY DEF GymTurn
<1> DEFINE t  == Turn(MyHp, fight.foeHp, given, taken, first)
           hp == [fight.hp EXCEPT ![fight.who] = AtLeast(0, t.hp)]
           rival == IF t.foeHp <= 0 THEN fight.rival + 1 ELSE fight.rival
           who   == IF Standing(hp) = {} THEN fight.who ELSE Min(Standing(hp))
           foeHp == CASE t.hp > 0 /\ t.foeHp > 0 -> t.foeHp
                      [] t.hp <= 0 -> foe.stats.hp
                      [] OTHER -> IF rival > len THEN 0
                                  ELSE Leader(GymTeams[location][rival]).stats.hp
<1>5. given \in Nat \ {0} /\ taken \in Nat \ {0}
  BY HitHurts
<1> HIDE DEF first
<1>6. /\ t.hp \in Int /\ t.foeHp \in Int
      /\ AtLeast(0, t.hp) \in Nat /\ AtLeast(0, t.hp) <= MyHp
      /\ AtLeast(0, t.hp) > 0 <=> t.hp > 0
  <2> HIDE DEF t
  <2>1. t = Turn(MyHp, fight.foeHp, given, taken, first)
    BY DEF t
  <2> QED
    BY <1>1, <1>2, <1>3, <1>5, <2>1, TurnResult
<1>7. /\ fight'.hp = hp
      /\ fight'.rival = IF t.foeHp <= 0 THEN fight.rival + 1 ELSE fight.rival
      /\ t.hp > 0 /\ t.foeHp > 0 => fight'.foeHp = t.foeHp
  <2>1. fight' = [fight EXCEPT !.hp = hp, !.rival = rival, !.who = who, !.foeHp = foeHp]
    BY <1>4
  <2>2. t.hp > 0 /\ t.foeHp > 0 => foeHp = t.foeHp
    BY <1>6
  <2> HIDE DEF hp, who, foeHp, t
  <2>3. fight'.hp = hp /\ fight'.rival = rival /\ fight'.foeHp = foeHp
    BY <1>1, <2>1 DEF GymFights
  <2> QED
    BY <2>2, <2>3
<1>8. t.hp > 0 /\ t.foeHp > 0 => t.foeHp < fight.foeHp
  BY <1>1, <1>3, <1>5 DEF Turn
<1> HIDE DEF t
<1>9. /\ DOMAIN hp = DOMAIN party
      /\ hp[fight.who] = AtLeast(0, t.hp)
      /\ \A i \in DOMAIN party : hp[i] <= fight.hp[i]
  BY <1>1, <1>3, <1>6
<1>10. t.hp <= 0 => Standing(hp) # Standing(fight.hp)
  <2>1. t.hp <= 0 => ~(hp[fight.who] > 0)
    BY <1>6, <1>9
  <2> QED
    BY <1>2, <2>1 DEF Standing
<1>11. fight'.rival >= fight.rival /\ (t.foeHp <= 0 => fight'.rival > fight.rival)
  BY <1>1, <1>7
<1>12. \A i \in DOMAIN party : fight'.hp[i] <= fight.hp[i]
  BY <1>7, <1>9
<1>13. \/ fight'.rival > fight.rival
       \/ Standing(fight'.hp) # Standing(fight.hp)
       \/ fight'.foeHp < fight.foeHp
  <2>1. CASE t.foeHp <= 0
    BY <1>11, <2>1
  <2>2. CASE t.hp <= 0
    BY <1>7, <1>10, <2>2
  <2>3. CASE t.hp > 0 /\ t.foeHp > 0
    BY <1>7, <1>8, <2>3
  <2> QED
    BY <1>6, <2>1, <2>2, <2>3
<1> QED
  BY <1>11, <1>12, <1>13

-----------------------------------------------------------------------------
\* The hit points of a wild monster.
LEMMA WildStands ==
    ASSUME NEW wild \in Monsters
    PROVE  Wild(wild).stats.hp \in Nat \ {0}
<1>1. wild.species \in Species /\ wild.level \in Nat \ {0}
  BY DEF Monsters
<1>2. Wild(wild).stats.hp = StatsAtLevel(Templates[wild.species], wild.level).hp
  BY DEF Wild, Battler, Stats
<1> QED
  BY <1>1, <1>2, HitPointsGrow

\* A hunt begins with a wild that is not too strong.
LEMMA HuntBegins == ASSUME PartyInv, BeginHunt PROVE PartyInv' /\ AutoInv'
<1> DEFINE who == Agent!Fighter
           hp  == [i \in DOMAIN party |-> party[i].hp]
<1>1. Agent!Hunts /\ UNCHANGED party /\ Fighting
  BY DEF BeginHunt
<1>2. PICK wild \in Agent!Wilds :
        ~Agent!TooStrong(wild) /\ fight' = Begun("auto", who, wild, Wild(wild))
  BY DEF BeginHunt
<1> DEFINE foeHp == Wild(wild).stats.hp
<1>3. wild \in Monsters /\ foeHp \in Nat
  BY WildsAreMonsters, WildStands
<1>4. /\ who \in 1 .. Len(party) /\ party[who].hp > 0
      /\ DOMAIN party = 1 .. Len(party)
  BY <1>1, SomeoneStands, FirstFights, PartyShape
<1>5. /\ hp \in [DOMAIN party -> Nat]
      /\ \A i \in DOMAIN party : hp[i] = party[i].hp /\ party[i].hp \in Nat
  BY BegunHp
<1>6. fight' = [mode |-> "auto", who |-> who, hp |-> hp, entry |-> wild,
                foeHp |-> foeHp, turns |-> 0, rival |-> 1]
  BY <1>2 DEF Begun
<1>7. /\ PartyInv' /\ Agent!Hunts' /\ Agent!Wilds' = Agent!Wilds
      /\ Agent!Fighter' = who /\ Seen(party)' = Seen(party)
  BY <1>1, SameTick
<1> HIDE DEF hp, who, foeHp
<1>8. fight' \in HuntFights("auto")'
  BY <1>1, <1>3, <1>4, <1>5, <1>6 DEF HuntFights
<1>9. fight'.hp = hp /\ fight'.who = who /\ fight'.entry = wild
  BY <1>6
<1>10. ~Agent!TooStrong(fight.entry)'
  BY <1>2, <1>7, <1>9 DEF Agent!TooStrong, who
<1>11. /\ fight'.hp[fight'.who] <= party'[fight'.who].hp
       /\ fight'.hp[fight'.who] > 0
       /\ \A i \in DOMAIN party' : i # fight'.who => fight'.hp[i] = party'[i].hp
  BY <1>1, <1>4, <1>5, <1>9
<1> QED
  BY <1>7, <1>8, <1>9, <1>10, <1>11 DEF AutoInv

\* A fight with a wild one turn later.
LEMMA HuntUpdate ==
    ASSUME NEW mode, fight \in HuntFights(mode),
           NEW hp \in [DOMAIN party -> Nat], NEW foeHp \in Nat,
           fight' = [fight EXCEPT !.hp = hp, !.foeHp = foeHp, !.turns = fight.turns + 1]
    PROVE  /\ fight' \in HuntFights(mode)
           /\ fight'.hp = hp /\ fight'.foeHp = foeHp /\ fight'.turns = fight.turns + 1
           /\ fight'.who = fight.who /\ fight'.entry = fight.entry
<1>1. fight.turns + 1 \in Nat
  BY DEF HuntFights
<1> DEFINE turns == fight.turns + 1
<1> HIDE DEF turns
<1>2. fight' = [fight EXCEPT !.hp = hp, !.foeHp = foeHp, !.turns = turns]
  BY DEF turns
<1> QED
  BY <1>1, <1>2 DEF HuntFights, turns

\* A turn of it takes from the fighter alone, and one of the two still stands.
LEMMA HuntGoesOn == ASSUME FightInv, AutoTurn PROVE PartyInv' /\ AutoInv'
<1>1. PartyInv /\ AutoInv
  BY ByMode DEF FightInv, AutoTurn
<1> DEFINE who == fight.who
           foe == Wild(fight.entry)
<1>2. UNCHANGED party /\ Fighting
  BY DEF AutoTurn
<1>3. /\ PartyInv' /\ Agent!Hunts' /\ Agent!Wilds' = Agent!Wilds
      /\ Agent!Fighter' = Agent!Fighter /\ Seen(party)' = Seen(party)
  BY <1>1, <1>2, SameTick DEF AutoInv
<1>4. /\ fight \in HuntFights("auto")
      /\ who \in DOMAIN party /\ fight.hp \in [DOMAIN party -> Nat]
      /\ fight.foeHp \in Nat /\ fight.turns \in Nat
      /\ fight.hp[who] <= party[who].hp /\ who = Agent!Fighter
      /\ \A i \in DOMAIN party : i # who => fight.hp[i] = party[i].hp
  BY <1>1 DEF AutoInv, HuntFights
<1>5. MyHp \in Nat /\ MyHp > 0 /\ MyHp = fight.hp[who] /\ fight.foeHp > 0
  BY <1>4 DEF AutoTurn, AutoOver, MyHp
<1>6. PICK given \in DamageSimple(Me, foe), taken \in DamageSimple(foe, Me) :
         LET t == Turn(MyHp, fight.foeHp, given, taken, Me.stats.spd >= foe.stats.spd)
         IN  fight' = [fight EXCEPT !.hp[fight.who] = AtLeast(0, t.hp),
                                    !.foeHp = AtLeast(0, t.foeHp), !.turns = @ + 1]
  BY DEF AutoTurn
<1> DEFINE t == Turn(MyHp, fight.foeHp, given, taken, Me.stats.spd >= foe.stats.spd)
           myHp  == AtLeast(0, t.hp)
           foeHp == AtLeast(0, t.foeHp)
           hp    == [fight.hp EXCEPT ![who] = myHp]
<1>7. given \in Nat /\ taken \in Nat
  BY HitHurts
<1>8. /\ myHp \in Nat /\ myHp <= MyHp /\ foeHp \in Nat
      /\ myHp > 0 \/ foeHp > 0
  BY <1>4, <1>5, <1>7, TurnResult
<1>9. fight' = [fight EXCEPT !.hp = hp, !.foeHp = foeHp, !.turns = fight.turns + 1]
  BY <1>4, <1>6 DEF HuntFights
<1> HIDE DEF myHp, foeHp
<1>10. /\ hp \in [DOMAIN party -> Nat] /\ hp[who] = myHp
       /\ \A i \in DOMAIN party : i # who => hp[i] = fight.hp[i]
  BY <1>4, <1>8
<1> HIDE DEF hp, who, foe
<1>11. /\ fight' \in HuntFights("auto") /\ fight'.hp = hp /\ fight'.foeHp = foeHp
       /\ fight'.who = fight.who /\ fight'.entry = fight.entry
  BY <1>4, <1>8, <1>9, <1>10, HuntUpdate
<1>12. HuntFights("auto")' = HuntFights("auto")
  BY <1>2 DEF HuntFights
<1>13. fight'.entry \in Agent!Wilds' /\ ~Agent!TooStrong(fight.entry)'
  BY <1>1, <1>3, <1>11 DEF AutoInv, Agent!TooStrong
<1>14. fight'.hp[fight'.who] <= party'[fight'.who].hp
  <2>1. party[who].hp \in Nat
    BY <1>1, <1>4, BegunHp
  <2> QED
    BY <1>2, <1>4, <1>5, <1>8, <1>10, <1>11, <2>1 DEF who
<1>15. /\ fight'.hp[fight'.who] > 0 \/ fight'.foeHp > 0
       /\ \A i \in DOMAIN party' : i # fight'.who => fight'.hp[i] = party'[i].hp
  BY <1>2, <1>4, <1>8, <1>10, <1>11 DEF who
<1> QED
  BY <1>3, <1>4, <1>11, <1>12, <1>13, <1>14, <1>15 DEF AutoInv, who

-----------------------------------------------------------------------------
\* The cap of a hit, normal or super-effective.
LEMMA CapOf ==
    ASSUME NEW max \in Nat \ {0}
    PROVE  /\ Cap(max) \in Nat \ {0}
           /\ (3 * max + 9) \div 10 \in Int
           /\ (3 * max + 9) \div 10 <= Cap(max)
  BY DEF Cap

\* A hit of the staged battle is within the cap, whatever the move.
LEMMA HitIsCapped ==
    ASSUME NEW a, NEW d, d.stats.hp \in Nat \ {0}, NEW move, NEW hit \in LiveHits(a, d, move)
    PROVE  hit \in Nat /\ hit <= Cap(d.stats.hp)
<1> DEFINE max == d.stats.hp
           cap == HitCap(a, d)
<1>1. /\ Cap(max) \in Nat \ {0} /\ cap \in Int /\ cap <= Cap(max)
  <2>1. cap = (4 * max + 9) \div 10 \/ cap = (3 * max + 9) \div 10
    BY DEF HitCap
  <2>2. Cap(max) = (4 * max + 9) \div 10
    BY DEF Cap
  <2> HIDE DEF max, cap
  <2>3. max \in Nat \ {0}
    BY DEF max
  <2> QED
    BY <2>1, <2>2, <2>3, CapOf
<1> HIDE DEF cap
<1>2. CASE hit = 0
  BY <1>1, <1>2
<1>3. CASE hit # 0
  <2> DEFINE same == IF move.type = a.type THEN 3 ELSE 2
  <2>1. PICK n \in Damage(a, d, move.power), crit \in {2, 3} :
           hit = AtLeast(1, AtMost(cap, (n * same * crit) \div 4))
    BY <1>3 DEF LiveHits, cap
  <2>2. n \in Int
    BY DEF Damage, AtLeast
  <2> DEFINE dealt == (n * same * crit) \div 4
  <2>3. dealt \in Int
    BY <2>2
  <2> HIDE DEF dealt
  <2> QED
    BY <1>1, <2>1, <2>3 DEF AtLeast, AtMost, dealt
<1> QED
  BY <1>2, <1>3

\* One more turn takes one hit at most.
LEMMA LeftGoesOn ==
    ASSUME NEW hp \in Nat, NEW max \in Nat \ {0}, NEW turns \in Nat, Left(hp, max, turns),
           NEW hit \in Nat, hit <= Cap(max), NEW next \in {hp, hp - hit}
    PROVE  Left(AtLeast(0, next), max, turns + 1)
<1>1. Cap(max) \in Nat
  BY CapOf
<1>2. /\ turns = 0 => hp >= max
      /\ turns = 1 => hp >= max - Cap(max)
  BY DEF Left
<1>3. AtLeast(0, next) >= hp - hit /\ AtLeast(0, next) \in Nat
  BY DEF AtLeast
<1> QED
  BY <1>1, <1>2, <1>3 DEF Left

\* Choosing moves leaves a monster as it was.
LEMMA MovesChosen ==
    ASSUME NEW m \in Fighters, NEW gate \in Nat
    PROVE  LET n == [m EXCEPT !.moves = gate]
           IN  n \in Fighters /\ AsSeen(n) = AsSeen(m) /\ n.hp = m.hp /\ Stats(n) = Stats(m)
<1> DEFINE n == [m EXCEPT !.moves = gate]
<1>1. /\ n \in [species : Species, level : Nat \ {0}, moves : Nat, hp : Nat]
      /\ n.hp = m.hp /\ n.species = m.species /\ n.level = m.level
  BY FighterFields
<1> HIDE DEF n
<1>2. Stats(n) = Stats(m)
  BY <1>1 DEF Stats
<1>3. n \in Fighters
  BY <1>1, <1>2, FighterFields DEF Fighters
<1>4. AsSeen(n) = AsSeen(m)
  BY <1>1, <1>2 DEF AsSeen, Class
<1> QED
  BY <1>1, <1>2, <1>3, <1>4 DEF n

\* A staged battle begins with both sides as they are.
LEMMA BattleBegins == ASSUME PartyInv, BeginBattle PROVE PartyInv' /\ LiveInv'
<1> DEFINE hp  == [i \in DOMAIN party |-> party[i].hp]
<1>1. UNCHANGED party /\ Fighting
  BY DEF BeginBattle
<1>2. PICK who \in DOMAIN party, wild \in Agent!Wilds :
        fight' = Begun("live", who, wild, Wild(wild))
  BY DEF BeginBattle
<1> DEFINE foeHp == Wild(wild).stats.hp
<1>3. wild \in Monsters /\ foeHp \in Nat
  BY WildsAreMonsters, WildStands
<1>4. /\ hp \in [DOMAIN party -> Nat]
      /\ \A i \in DOMAIN party : hp[i] = party[i].hp /\ party[i].hp \in Nat
  BY BegunHp
<1>5. fight' = [mode |-> "live", who |-> who, hp |-> hp, entry |-> wild,
                foeHp |-> foeHp, turns |-> 0, rival |-> 1]
  BY <1>2 DEF Begun
<1>6. PartyInv'
  BY <1>1, SameTick
<1> HIDE DEF hp, foeHp
<1>7. fight' \in HuntFights("live")'
  BY <1>1, <1>3, <1>4, <1>5 DEF HuntFights
<1>8. /\ fight'.hp = hp /\ fight'.who = who /\ fight'.entry = wild /\ fight'.foeHp = foeHp
      /\ fight'.turns = 0
  BY <1>5
<1>9. LET me == party'[fight'.who] IN
      me.hp = Stats(me).hp => Left(fight'.hp[fight'.who], Stats(me).hp, fight'.turns)
  BY <1>1, <1>4, <1>8 DEF Left
<1>10. Left(fight'.foeHp, Wild(fight'.entry).stats.hp, fight'.turns)
  BY <1>3, <1>8 DEF Left, foeHp
<1> QED
  BY <1>6, <1>7, <1>9, <1>10 DEF LiveInv, MyHp, Left, Cap, Stats, Wild, Battler

\* A turn of it chooses moves and takes at most the cap from each side; what
\* TrainerAgent sees of the party is as it was.
LEMMA BattleGoesOn ==
    ASSUME FightInv, BattleTurn
    PROVE  /\ PartyInv' /\ LiveInv'
           /\ Seen(party)' = Seen(party) /\ Seen(boxed)' = Seen(boxed)
<1>1. PartyInv /\ LiveInv
  BY ByMode DEF FightInv, BattleTurn
<1> DEFINE who   == fight.who
           foe   == Wild(fight.entry)
           me    == party[who]
           first == Me.stats.spd >= foe.stats.spd
<1>2. /\ fight \in HuntFights("live") /\ who \in DOMAIN party
      /\ fight.hp \in [DOMAIN party -> Nat] /\ fight.entry \in Monsters
      /\ fight.foeHp \in Nat /\ fight.turns \in Nat
      /\ me.hp = Stats(me).hp => Left(fight.hp[who], Stats(me).hp, fight.turns)
      /\ Left(fight.foeHp, foe.stats.hp, fight.turns)
  BY <1>1 DEF LiveInv, HuntFights, MyHp
<1>3. MyHp \in Nat /\ MyHp > 0 /\ MyHp = fight.hp[who] /\ fight.foeHp > 0
  BY <1>2 DEF BattleTurn, BattleOver, MyHp
<1>4. me \in Fighters /\ Stats(me).hp \in Nat \ {0} /\ foe.stats.hp \in Nat \ {0}
  BY <1>1, <1>2, PartyShape, FighterFields, WildStands
<1>5. PICK given \in Strikes(Me, foe, GateOf(me)), taken \in Strikes(foe, Me, Gate(foe.level)) :
         LET t == Turn(MyHp, fight.foeHp, given, taken, first) IN
         /\ fight' = [fight EXCEPT !.hp[who] = AtLeast(0, t.hp),
                                   !.foeHp = AtLeast(0, t.foeHp), !.turns = @ + 1]
         /\ party' = IF first \/ t.hp > 0
                     THEN [party EXCEPT ![who].moves = GateOf(me)] ELSE party
  BY DEF BattleTurn
<1> DEFINE t     == Turn(MyHp, fight.foeHp, given, taken, first)
           myHp  == AtLeast(0, t.hp)
           foeHp == AtLeast(0, t.foeHp)
           hp    == [fight.hp EXCEPT ![who] = myHp]
           n     == [me EXCEPT !.moves = GateOf(me)]
<1>6. Me.stats.hp = Stats(me).hp
  BY DEF Me, Battler
<1>7. /\ given \in Nat /\ given <= Cap(foe.stats.hp)
      /\ taken \in Nat /\ taken <= Cap(Stats(me).hp)
  <2>1. given \in Nat /\ given <= Cap(foe.stats.hp)
    BY <1>4, HitIsCapped DEF Strikes
  <2>2. taken \in Nat /\ taken <= Cap(Me.stats.hp)
    BY <1>4, <1>6, HitIsCapped DEF Strikes
  <2> QED
    BY <1>6, <2>1, <2>2
<1>8. /\ myHp \in Nat /\ foeHp \in Nat
      /\ t.hp \in {MyHp, MyHp - taken} /\ t.foeHp \in {fight.foeHp, fight.foeHp - given}
  <2>1. MyHp \in Nat /\ MyHp > 0 /\ fight.foeHp \in Nat /\ fight.foeHp > 0
    BY <1>2, <1>3
  <2> HIDE DEF first
  <2>2. t = Turn(MyHp, fight.foeHp, given, taken, first)
    OBVIOUS
  <2> HIDE DEF t
  <2> QED
    BY <1>7, <2>1, <2>2, TurnResult
<1>9. /\ me.hp = Stats(me).hp => Left(myHp, Stats(me).hp, fight.turns + 1)
      /\ Left(foeHp, foe.stats.hp, fight.turns + 1)
  <2>1. ASSUME me.hp = Stats(me).hp PROVE Left(myHp, Stats(me).hp, fight.turns + 1)
    BY <1>2, <1>3, <1>4, <1>7, <1>8, <2>1, LeftGoesOn
  <2>2. Left(foeHp, foe.stats.hp, fight.turns + 1)
    BY <1>2, <1>4, <1>7, <1>8, LeftGoesOn
  <2> QED
    BY <2>1, <2>2
<1>10. fight' = [fight EXCEPT !.hp = hp, !.foeHp = foeHp, !.turns = fight.turns + 1]
  BY <1>2, <1>5 DEF HuntFights
<1>11. party' = [party EXCEPT ![who] = n] \/ party' = party
  BY <1>5
<1>12. n \in Fighters /\ AsSeen(n) = AsSeen(me) /\ n.hp = me.hp /\ Stats(n) = Stats(me)
  <2>1. GateOf(me) \in Nat
    BY <1>4 DEF GateOf, Gate, Fighters
  <2> QED
    BY <1>4, <2>1, MovesChosen
<1> HIDE DEF t, myHp, foeHp
<1>13. hp \in [DOMAIN party -> Nat] /\ hp[who] = myHp
  BY <1>2, <1>8
<1> HIDE DEF hp, n, foe
<1>14. /\ fight' \in HuntFights("live") /\ fight'.hp = hp /\ fight'.foeHp = foeHp
       /\ fight'.turns = fight.turns + 1
       /\ fight'.who = who /\ fight'.entry = fight.entry
  BY <1>2, <1>8, <1>10, <1>13, HuntUpdate
<1>15. /\ DOMAIN party = 1 .. Len(party) /\ DOMAIN Seen(party) = 1 .. Len(party)
       /\ \A i \in 1 .. Len(party) :
             party[i] \in Fighters /\ Seen(party)[i] = AsSeen(party[i])
  BY <1>1, PartyShape
<1>16. /\ party' \in [DOMAIN party -> Fighters]
       /\ \A i \in 1 .. Len(party) : AsSeen(party'[i]) = AsSeen(party[i])
       /\ party'[who].hp = me.hp /\ Stats(party'[who]) = Stats(me)
  <2>0. party \in [1 .. Len(party) -> Fighters]
    BY <1>1, LenProperties DEF PartyInv
  <2>1. CASE party' = [party EXCEPT ![who] = n]
    <3>1. \A i \in 1 .. Len(party) : party'[i] = IF i = who THEN n ELSE party[i]
      BY <1>15, <2>1
    <3>2. party' \in [DOMAIN party -> Fighters]
      BY <1>12, <1>15, <2>0, <2>1
    <3> QED
      BY <1>2, <1>12, <1>15, <3>1, <3>2
  <2>2. CASE party' = party
    BY <1>15, <2>0, <2>2
  <2> QED
    BY <1>11, <2>1, <2>2
<1>17. party' \in Seq(Fighters) /\ Seen(party') = [i \in 1 .. Len(party) |-> AsSeen(party'[i])]
  BY <1>1, <1>16, NewParty
<1>18. Fighting /\ UNCHANGED <<boxed, location>>
  BY DEF BattleTurn, Fighting
<1>19. Seen(party)' = Seen(party) /\ Seen(boxed)' = Seen(boxed)
  <2>1. Seen(party) = [i \in 1 .. Len(party) |-> Seen(party)[i]]
    BY <1>15 DEF Seen
  <2>2. Seen(party') = Seen(party)
    BY <1>15, <1>16, <1>17, <2>1
  <2> QED
    BY <1>18, <2>2, SeenNext
<1>20. PartyInv'
  BY <1>1, <1>17, <1>18 DEF PartyInv, Fighters, Stats, Agent!Towns
<1>21. HuntFights("live")' = HuntFights("live")
  BY <1>15, <1>16 DEF HuntFights
<1>22. LET you == party'[fight'.who] IN
       you.hp = Stats(you).hp => Left(fight'.hp[fight'.who], Stats(you).hp, fight'.turns)
  BY <1>9, <1>13, <1>14, <1>16
<1>23. Left(fight'.foeHp, Wild(fight'.entry).stats.hp, fight'.turns)
  BY <1>9, <1>14 DEF foe
<1>24. LiveInv'
  BY <1>14, <1>21, <1>22, <1>23 DEF LiveInv, MyHp, Left, Cap, Stats, Wild, Battler
<1> QED
  BY <1>19, <1>20, <1>24

-----------------------------------------------------------------------------
\* A run begins with a starter at full hit points and no fight.
LEMMA FightInit == FightsInit => FightInv /\ Agent!TrainerInit
<1> SUFFICES ASSUME FightsInit PROVE FightInv /\ Agent!TrainerInit
  OBVIOUS
<1>1. PICK s \in Starters : party = <<Fresh(s.species, s.level)>>
  BY DEF FightsInit
<1>2. s \in Monsters /\ s.hp = Healthy
  BY SameWorldAssumption
<1>3. Fresh(s.species, s.level) \in Fighters /\ AsSeen(Fresh(s.species, s.level)) = s
  BY <1>2, FreshIsSeen
<1>4. party \in Seq(Fighters) /\ Len(party) = 1
  <2> DEFINE m == Fresh(s.species, s.level)
  <2>1. m \in Fighters /\ party = <<m>>
    BY <1>1, <1>3
  <2> HIDE DEF m
  <2> QED
    BY <2>1
<1>5. /\ Seen(party) \in Seq(Monsters) /\ Len(Seen(party)) = 1 /\ Seen(party)[1] = s
  <2>1. party[1] = Fresh(s.species, s.level)
    BY <1>1
  <2>2. Seen(party)[1] = AsSeen(party[1])
    BY <1>4, SeenShape
  <2>3. Seen(party) \in Seq(Monsters) /\ Len(Seen(party)) = 1
    BY <1>4, SeenShape
  <2> QED
    BY <1>3, <2>1, <2>2, <2>3
<1>6. Seen(party) = <<s>>
  BY <1>5
<1>7. boxed = <<>> /\ boxed \in Seq(Fighters) /\ Seen(boxed) = <<>>
  <2>1. boxed = <<>> /\ boxed \in Seq(Fighters)
    BY DEF FightsInit
  <2>2. Seen(boxed) \in Seq(Monsters) /\ Len(Seen(boxed)) = 0
    BY <2>1, SeenShape
  <2> QED
    BY <2>1, <2>2, EmptySeq
<1>8. location \in Agent!Towns
  BY SameWorldAssumption DEF FightsInit, Agent!Towns
<1>9. FightInv
  BY <1>4, <1>7, <1>8 DEF FightsInit, FightInv, PartyInv, Idle
<1>10. Agent!TrainerInit
  BY <1>6, <1>7 DEF FightsInit, Agent!TrainerInit
<1> QED
  BY <1>9, <1>10

\* What TrainerAgent sees is as it was.
LEMMA NothingSeen ==
    ASSUME Fighting, Seen(party)' = Seen(party)
    PROVE  UNCHANGED Agent!trainerVars
  BY SeenNext DEF Fighting, Agent!trainerVars

\* Every step keeps the invariant, and is a tick or nothing to TrainerAgent.
LEMMA FightStep ==
    ASSUME PowerIsNat, FightInv, [FightsNext]_fightVars
    PROVE  FightInv' /\ [Agent!Tick]_(Agent!trainerVars)
<1>1. PartyInv
  BY DEF FightInv
<1>2. ASSUME fight' = NoFight, PartyInv' PROVE FightInv'
  BY <1>2 DEF FightInv, Idle
<1>3. ASSUME UNCHANGED party, Fighting PROVE UNCHANGED Agent!trainerVars
  BY <1>3, SameTick, NothingSeen
<1>4. CASE HealTick
  BY <1>1, <1>2, <1>4, HealIsHeal DEF HealTick, Idle, Agent!Tick
<1>5. CASE MoveTick
  BY <1>1, <1>2, <1>5, MoveIsMove DEF MoveTick, Idle, Agent!Tick
<1>6. CASE Search
  BY <1>1, <1>2, <1>6, SearchIsSearch DEF Search, Idle, Agent!Tick
<1>7. CASE BeginGym
  BY <1>1, <1>3, <1>7, GymBegins DEF BeginGym, FightInv
<1>8. CASE GymTurn
  BY <1>3, <1>8, GymGoesOn DEF GymTurn, FightInv
<1>9. CASE EndGym
  BY <1>2, <1>9, GymIsGym DEF EndGym, Agent!Tick
<1>10. CASE BeginHunt
  BY <1>1, <1>3, <1>10, HuntBegins DEF BeginHunt, FightInv
<1>11. CASE AutoTurn
  BY <1>3, <1>11, HuntGoesOn DEF AutoTurn, FightInv
<1>12. CASE LoseHunt
  BY <1>2, <1>12, LostHunt DEF LoseHunt, Agent!Tick
<1>13. CASE WinHunt
  BY <1>2, <1>13, WonHunt DEF WinHunt, Agent!Tick
<1>14. CASE BeginBattle
  BY <1>1, <1>3, <1>14, BattleBegins DEF BeginBattle, FightInv
<1>15. CASE BattleTurn
  BY <1>15, BattleGoesOn, NothingSeen DEF BattleTurn, FightInv
<1>16. CASE EndBattle
  BY <1>1, <1>2, <1>3, <1>16, SameTick DEF EndBattle
<1>17. CASE UNCHANGED fightVars
  <2>1. UNCHANGED party /\ Fighting /\ fight' = fight
    BY <1>17 DEF fightVars, Fighting
  <2>2. UNCHANGED Agent!trainerVars
    BY <1>3, <2>1
  <2>3. PartyInv'
    BY <1>1, <2>1, SameTick
  <2>4. location' = location
    BY <2>1 DEF Fighting
  <2>5. Idle => Idle'
    BY <2>1 DEF Idle
  <2>6. GymInv => GymInv'
    BY <2>1, <2>4, SameTick DEF GymInv, GymFights, Standing
  <2>7. AutoInv => AutoInv'
    BY <2>1, SameTick DEF AutoInv, HuntFights, Agent!TooStrong
  <2>8. LiveInv => LiveInv'
    BY <2>1 DEF LiveInv, HuntFights, MyHp, Left, Cap, Stats, Wild, Battler
  <2> QED
    BY <2>2, <2>3, <2>5, <2>6, <2>7, <2>8 DEF FightInv
<1> QED
  BY <1>4, <1>5, <1>6, <1>7, <1>8, <1>9, <1>10, <1>11, <1>12, <1>13, <1>14, <1>15,
     <1>16, <1>17 DEF FightsNext

\* The inductive invariant holds in every reachable state.
LEMMA FightInvariant == ASSUME PowerIsNat PROVE FightsSpec => []FightInv
<1>1. FightsInit => FightInv
  BY FightInit
<1>2. FightInv /\ [FightsNext]_fightVars => FightInv'
  BY FightStep
<1> QED
  BY <1>1, <1>2, PTL DEF FightsSpec

\* Played turn by turn, the trainer is the one of TrainerAgent: whatever
\* simulateAuto and simulateGym return on whatever templates is a fight
\* TrainerAgent has, and the rest of tick acts on it as TrainerAgent says.
THEOREM FightsImplementTrainer == ASSUME PowerIsNat PROVE FightsSpec => ImplementsTrainer
<1>1. FightsInit => Agent!TrainerInit
  BY FightInit
<1>2. FightInv /\ [FightsNext]_fightVars => [Agent!Tick]_(Agent!trainerVars)
  BY FightStep
<1> QED
  BY <1>1, <1>2, FightInvariant, PTL DEF FightsSpec, ImplementsTrainer, Agent!TrainerSpec

\* Two hits of the cap leave a point of nine.
LEMMA TwoHitsLeaveSome ==
    ASSUME NEW hp \in Nat, NEW max \in Nat, max >= 9, NEW turns \in 0 .. 2, Left(hp, max, turns)
    PROVE  hp > 0
<1>1. Cap(max) \in Nat /\ 2 * Cap(max) < max
  BY DEF Cap
<1> QED
  BY <1>1 DEF Left

\* The per-hit cap of simulateBattle: whoever begins at full hit points, nine or
\* more, stands after two turns, whatever the templates, moves and dice.
THEOREM TwoTurnsAreSurvived == ASSUME PowerIsNat PROVE FightsSpec => []NoQuickKnockout
<1>1. ASSUME FightInv PROVE NoQuickKnockout
  <2> SUFFICES ASSUME fight.mode = "live", fight.turns <= 2
               PROVE  LET me == party[fight.who] IN
                      /\ me.hp = Stats(me).hp /\ me.hp >= 9 => MyHp > 0
                      /\ Wild(fight.entry).stats.hp >= 9 => fight.foeHp > 0
    BY DEF NoQuickKnockout
  <2>1. LiveInv /\ PartyInv
    BY <1>1, ByMode DEF FightInv
  <2> DEFINE me == party[fight.who]
  <2>2. /\ fight.turns \in 0 .. 2 /\ MyHp \in Nat /\ fight.foeHp \in Nat
        /\ fight.who \in DOMAIN party /\ fight.entry \in Monsters
        /\ me.hp = Stats(me).hp => Left(MyHp, Stats(me).hp, fight.turns)
        /\ Left(fight.foeHp, Wild(fight.entry).stats.hp, fight.turns)
    BY <2>1 DEF LiveInv, HuntFights, MyHp
  <2>3. Stats(me).hp \in Nat /\ Wild(fight.entry).stats.hp \in Nat
    BY <2>1, <2>2, PartyShape, FighterFields, WildStands
  <2>4. me.hp = Stats(me).hp /\ me.hp >= 9 => MyHp > 0
    BY <2>2, <2>3, TwoHitsLeaveSome
  <2>5. Wild(fight.entry).stats.hp >= 9 => fight.foeHp > 0
    BY <2>2, <2>3, TwoHitsLeaveSome
  <2> QED
    BY <2>4, <2>5
<1> QED
  BY <1>1, FightInvariant, PTL

-----------------------------------------------------------------------------
(***************************************************************************)
(* What ends a gym fight: no turn heals a member or brings a beaten rival  *)
(* back, and each turn makes a rival fall, a member fall, or the rival in  *)
(* front weaker (the loop of simulateGym).                                 *)
(***************************************************************************)
GymTurnsWear ==
    [][fight.mode = "gym" /\ fight'.mode = "gym" =>
          /\ fight'.rival >= fight.rival
          /\ \A i \in DOMAIN party : fight'.hp[i] <= fight.hp[i]
          /\ \/ fight'.rival > fight.rival
             \/ Standing(fight'.hp) # Standing(fight.hp)
             \/ fight'.foeHp < fight.foeHp]_fightVars

\* The variant of a gym fight, for every template, gym team and die: what a
\* turn leaves is never more, and always less of one side or of the rivals.
THEOREM GymFightsWear == ASSUME PowerIsNat PROVE FightsSpec => GymTurnsWear
<1> DEFINE Wears == fight.mode = "gym" /\ fight'.mode = "gym" =>
             /\ fight'.rival >= fight.rival
             /\ \A i \in DOMAIN party : fight'.hp[i] <= fight.hp[i]
             /\ \/ fight'.rival > fight.rival
                \/ Standing(fight'.hp) # Standing(fight.hp)
                \/ fight'.foeHp < fight.foeHp
<1>1. ASSUME FightInv, [FightsNext]_fightVars PROVE [Wears]_fightVars
  <2> SUFFICES ASSUME FightsNext, fight.mode = "gym", fight'.mode = "gym" PROVE Wears
    BY <1>1
  <2>1. fight # NoFight /\ fight' # NoFight
    BY DEF NoFight
  <2>2. GymTurn
    BY <2>1 DEF FightsNext, HealTick, MoveTick, Search, BeginGym, EndGym, BeginHunt, AutoTurn,
                LoseHunt, WinHunt, AutoOver, BeginBattle, BattleTurn, EndBattle, BattleOver, Idle
  <2> HIDE DEF Wears
  <2> QED
    BY <1>1, <2>2, GymTurnWears DEF Wears
<1>2. FightInv /\ [FightsNext]_fightVars => [Wears]_fightVars
  BY <1>1
<1> QED
  BY <1>2, FightInvariant, PTL DEF FightsSpec, GymTurnsWear
=============================================================================
