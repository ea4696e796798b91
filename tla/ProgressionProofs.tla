-------------------------- MODULE ProgressionProofs --------------------------
(***************************************************************************)
(* Proofs about Progression, for every line of species, start and reward:  *)
(* what the loop of grantXp does, by a least counterexample over its       *)
(* passes, and from it the properties of a monster's growth.               *)
(***************************************************************************)
EXTENDS Progression, SumProofs, TLAPS

Levels == 1 .. 59

-----------------------------------------------------------------------------
\* All that is used of the table.
LEMMA TableType == XpForLevel \in [Levels -> Nat \ {0}]
  BY DEF XpForLevel, Levels

\* From level 2 the next level asks for more than a fight gives.
LEMMA TableGrows == \A l \in 2 .. 53 : XpForLevel[l + 1] >= 11 * l + 230
  BY DEF XpForLevel

\* The table of cumulativeXp up to level n.
CumTable(g, n) ==
    g = [l \in 1 .. n |-> IF l = 1 THEN 0 ELSE g[l - 1] + XpForLevel[l - 1]]

\* It exists for every n: the least without one has one from its predecessor.
LEMMA CumTableExists == \A n \in Nat : \E g : CumTable(g, n)
<1> DEFINE Bad == {n \in Nat : ~ \E g : CumTable(g, n)}
<1>1. SUFFICES ASSUME Bad # {} PROVE FALSE
  OBVIOUS
<1>2. PICK n \in Bad : \A k \in Bad : n <= k
  <2>1. Bad \subseteq Nat
    OBVIOUS
  <2> HIDE DEF Bad
  <2> QED
    BY <1>1, <2>1, LeastNat
<1>3. CASE n = 0
  <2>1. CumTable([l \in 1 .. 0 |-> 0], 0)
    BY DEF CumTable
  <2> QED
    BY <1>2, <1>3, <2>1
<1>4. CASE n # 0
  <2>1. PICK h : CumTable(h, n - 1)
    BY <1>2, <1>4
  <2> DEFINE g == [l \in 1 .. n |-> IF l < n THEN h[l] ELSE
                                    IF n = 1 THEN 0 ELSE h[n - 1] + XpForLevel[n - 1]]
  <2>2. ASSUME NEW l \in 1 .. n
        PROVE  g[l] = IF l = 1 THEN 0 ELSE g[l - 1] + XpForLevel[l - 1]
    <3>1. l # 1 => l - 1 \in 1 .. n - 1 /\ g[l - 1] = h[l - 1]
      BY <1>2
    <3>2. CASE l < n
      <4>1. l \in 1 .. n - 1 /\ g[l] = h[l]
        BY <1>2, <3>2
      <4>2. h[l] = IF l = 1 THEN 0 ELSE h[l - 1] + XpForLevel[l - 1]
        BY <2>1, <4>1 DEF CumTable
      <4> HIDE DEF g
      <4> QED
        BY <3>1, <4>1, <4>2
    <3>3. CASE ~(l < n)
      BY <1>2, <3>1, <3>3
    <3> QED
      BY <3>2, <3>3
  <2>3. CumTable(g, n)
    <3>1. g = [l \in 1 .. n |-> g[l]]
      OBVIOUS
    <3> HIDE DEF g
    <3> QED
      BY <2>2, <3>1 DEF CumTable
  <2> HIDE DEF g
  <2> QED
    BY <1>2, <2>3
<1> QED
  BY <1>3, <1>4

\* cumulativeXp is the sum of the levels below.
LEMMA CumulativeSteps ==
    /\ CumulativeXp[1] = 0
    /\ \A l \in Levels : l # 1 => CumulativeXp[l] = CumulativeXp[l - 1] + XpForLevel[l - 1]
<1>1. DOMAIN XpForLevel = Levels
  BY TableType
<1>2. CumulativeXp = CHOOSE g : CumTable(g, 59)
  BY <1>1 DEF CumulativeXp, CumTable, Levels
<1>3. CumTable(CumulativeXp, 59)
  BY <1>2, CumTableExists
<1> QED
  BY <1>3 DEF CumTable, Levels

\* Each level asks for more than the one below.
LEMMA CumulativeGrows ==
    /\ \A l \in Levels : CumulativeXp[l] \in Nat
    /\ \A k, l \in Levels : k <= l => CumulativeXp[k] <= CumulativeXp[l]
<1> DEFINE Bad == {l \in Levels : ~(/\ CumulativeXp[l] \in Nat
                                    /\ \A k \in 1 .. l : CumulativeXp[k] <= CumulativeXp[l])}
<1>1. ASSUME Bad # {} PROVE FALSE
  <2>1. PICK l \in Bad : \A k \in Bad : l <= k
    <3>1. Bad \subseteq Nat
      BY DEF Levels
    <3> HIDE DEF Bad
    <3> QED
      BY <1>1, <3>1, LeastNat
  <2>2. l \in Levels /\ l \in Nat /\ l >= 1
    BY <2>1 DEF Levels
  <2>3. CASE l = 1
    BY <2>1, <2>3, CumulativeSteps
  <2>4. CASE l # 1
    <3>1. l - 1 \in Levels /\ l - 1 \notin Bad
      BY <2>1, <2>2, <2>4 DEF Levels
    <3>2. /\ CumulativeXp[l - 1] \in Nat
          /\ \A k \in 1 .. l - 1 : CumulativeXp[k] <= CumulativeXp[l - 1]
      BY <3>1
    <3>3. CumulativeXp[l] = CumulativeXp[l - 1] + XpForLevel[l - 1]
      BY <2>2, <2>4, CumulativeSteps
    <3>4. XpForLevel[l - 1] \in Nat
      BY <3>1, TableType
    <3>5. CumulativeXp[l] \in Nat /\ CumulativeXp[l - 1] <= CumulativeXp[l]
      BY <3>2, <3>3, <3>4
    <3>6. ASSUME NEW k \in 1 .. l PROVE CumulativeXp[k] <= CumulativeXp[l]
      <4>1. CASE k = l
        BY <3>5, <4>1
      <4>2. CASE k # l
        <5>1. k \in 1 .. l - 1 /\ k \in Levels /\ k \notin Bad
          BY <2>1, <2>2, <4>2 DEF Levels
        <5> QED
          BY <3>2, <3>5, <5>1
      <4> QED
        BY <4>1, <4>2
    <3> QED
      BY <2>1, <3>5, <3>6
  <2> QED
    BY <2>3, <2>4
<1>2. \A l \in Levels : /\ CumulativeXp[l] \in Nat
                        /\ \A k \in 1 .. l : CumulativeXp[k] <= CumulativeXp[l]
  BY <1>1
<1>3. \A k, l \in Levels : k <= l => k \in 1 .. l
  BY DEF Levels
<1> QED
  BY <1>2, <1>3
-----------------------------------------------------------------------------
\* The larger and the smaller of two numbers.
LEMMA MaxOfTwo ==
    ASSUME NEW a \in Int, NEW b \in Int
    PROVE  Max({a, b}) = IF a >= b THEN a ELSE b
<1> DEFINE x == IF a >= b THEN a ELSE b
<1>1. x \in {a, b} /\ \A y \in {a, b} : x >= y
  OBVIOUS
<1>2. \A z \in {a, b} : (\A y \in {a, b} : z >= y) => z = x
  OBVIOUS
<1> QED
  BY <1>1, <1>2 DEF Max

LEMMA MinOfTwo ==
    ASSUME NEW a \in Int, NEW b \in Int
    PROVE  Min({a, b}) = IF a <= b THEN a ELSE b
<1> DEFINE x == IF a <= b THEN a ELSE b
<1>1. x \in {a, b} /\ \A y \in {a, b} : x <= y
  OBVIOUS
<1>2. \A z \in {a, b} : (\A y \in {a, b} : z <= y) => z = x
  OBVIOUS
<1> QED
  BY <1>1, <1>2 DEF Min

\* Hit points are at least one and never fall with the level.
LEMMA HitPointsGrow ==
    ASSUME NEW t \in Templates, NEW l \in Levels, NEW k \in Levels, l <= k
    PROVE  /\ StatsHp(t, l) \in Nat \ {0}
           /\ StatsHp(t, l) <= StatsHp(t, k)
<1> DEFINE d == t.target - t.base
           steps(n) == IF n - 1 <= 49 THEN n - 1 ELSE 49
<1>1. d \in Nat /\ t.base \in Nat \ {0}
  BY ProgressionAssumption
<1>2. \A n \in Levels : Min({n - 1, GROWTH_SPAN}) = steps(n) /\ steps(n) \in Nat
  <2> SUFFICES ASSUME NEW n \in Levels
               PROVE  Min({n - 1, GROWTH_SPAN}) = steps(n) /\ steps(n) \in Nat
    OBVIOUS
  <2>1. n - 1 \in Nat
    BY DEF Levels
  <2> QED
    BY <2>1, MinOfTwo DEF GROWTH_SPAN
<1>3. steps(l) <= steps(k)
  BY DEF Levels
<1>4. \A n \in Levels : StatsHp(t, n) = t.base + (d * steps(n)) \div 49
  BY <1>2 DEF StatsHp, GROWTH_SPAN
<1> HIDE DEF d
<1>5. ASSUME NEW a \in Nat, NEW b \in Nat, a <= b PROVE d * a \in Nat /\ d * b \in Nat /\ d * a <= d * b
  <2>1. d * (b - a) \in Nat
    BY <1>1, <1>5
  <2> QED
    BY <1>1, <1>5, <2>1
<1>6. d * steps(l) \in Nat /\ d * steps(k) \in Nat /\ d * steps(l) <= d * steps(k)
  BY <1>2, <1>3, <1>5
<1> HIDE DEF steps
<1> DEFINE x == d * steps(l)
           y == d * steps(k)
<1>7. x \in Nat /\ y \in Nat /\ x <= y
  BY <1>6
<1>8. /\ StatsHp(t, l) = t.base + x \div 49
      /\ StatsHp(t, k) = t.base + y \div 49
  BY <1>4
<1> HIDE DEF x, y
<1>9. x \div 49 \in Nat /\ y \div 49 \in Nat /\ x \div 49 <= y \div 49
  BY <1>7
<1> DEFINE p == x \div 49
           q == y \div 49
<1>10. /\ p \in Nat /\ q \in Nat /\ p <= q
       /\ StatsHp(t, l) = t.base + p /\ StatsHp(t, k) = t.base + q
  BY <1>8, <1>9
<1> HIDE DEF p, q
<1> QED
  BY <1>1, <1>10

LEMMA HitPointsAre ==
    /\ \A t \in Templates, l \in Levels : StatsHp(t, l) \in Nat
    /\ \A t \in Templates, l, k \in Levels : l <= k => StatsHp(t, l) <= StatsHp(t, k)
<1>1. \A l \in Levels : l <= l
  BY DEF Levels
<1> QED
  BY <1>1, HitPointsGrow

-----------------------------------------------------------------------------
Mons == [level : Levels, xp : Nat, stage : 0 .. 2, hp : Nat]

\* The line grows stage by stage: every species of the roster but those the
\* finding about stageForLevel is about.
EvolvesInOrder(t) == t.ev2 > 0 => t.ev1 > 0 /\ t.ev1 < t.ev2

InStage(t, m) == m.stage = StageForLevel(t, m.level)

\* The level of a monster whose growth has ended.
TopLevel(level) == IF level <= MAX_LEVEL THEN MAX_LEVEL ELSE level

\* r is m after some passes of the loop.
Grew(t, m, r) ==
    /\ r \in Mons
    /\ m.level <= r.level /\ r.level <= TopLevel(m.level)
    /\ CumulativeXp[r.level] + r.xp = CumulativeXp[m.level] + m.xp
    /\ StatsHp(t, r.level) - r.hp >= StatsHp(t, m.level) - m.hp
    /\ EvolvesInOrder(t) /\ InStage(t, m) => InStage(t, r)

\* A level later the stage is again the one of the level.
LEMMA StageGrows ==
    ASSUME NEW t \in Templates, EvolvesInOrder(t), NEW l \in Levels
    PROVE  Evolved(t, StageForLevel(t, l), l + 1) = StageForLevel(t, l + 1)
<1>1. t.ev1 \in Nat /\ t.ev2 \in Nat /\ l \in Nat
  BY ProgressionAssumption DEF Levels
<1>2. CASE t.ev2 > 0 /\ l >= t.ev2
  BY <1>1, <1>2 DEF Evolved, StageForLevel
<1>3. CASE ~(t.ev2 > 0 /\ l >= t.ev2) /\ t.ev1 > 0 /\ l >= t.ev1
  BY <1>1, <1>3 DEF Evolved, StageForLevel
<1>4. CASE ~(t.ev2 > 0 /\ l >= t.ev2) /\ ~(t.ev1 > 0 /\ l >= t.ev1)
  BY <1>1, <1>4 DEF Evolved, StageForLevel, EvolvesInOrder
<1> QED
  BY <1>2, <1>3, <1>4

LEMMA LevelUpGrows ==
    ASSUME NEW t \in Templates, NEW m \in Mons, CanLevelUp(m)
    PROVE  Grew(t, m, LevelUp(t, m)) /\ LevelUp(t, m).level = m.level + 1
<1> DEFINE r   == LevelUp(t, m)
           old == StatsHp(t, m.level)
           new == StatsHp(t, m.level + 1)
<1>1. /\ m.level \in Levels /\ m.level + 1 \in Levels /\ m.level < MAX_LEVEL
      /\ m.level + 1 # 1 /\ (m.level + 1) - 1 = m.level
      /\ m.level <= m.level + 1 /\ m.level + 1 <= TopLevel(m.level)
  BY DEF Mons, Levels, CanLevelUp, MAX_LEVEL, TopLevel
<1>2. /\ r.level = m.level + 1 /\ r.xp = m.xp - XpForLevel[m.level]
      /\ r.stage = Evolved(t, m.stage, m.level + 1)
      /\ r.hp = Min({new, m.hp + new - old})
      /\ r = [level |-> r.level, xp |-> r.xp, stage |-> r.stage, hp |-> r.hp]
  BY DEF LevelUp
<1>3. old \in Nat /\ new \in Nat /\ old <= new
  BY <1>1, HitPointsAre
<1>4. XpForLevel[m.level] \in Nat /\ XpForLevel[m.level] <= m.xp /\ m.xp \in Nat /\ m.hp \in Nat
  BY <1>1, TableType DEF CanLevelUp, Mons
<1> HIDE DEF r, old, new
<1>5. r.hp = IF new <= m.hp + new - old THEN new ELSE m.hp + new - old
  BY <1>2, <1>3, <1>4, MinOfTwo
<1>6. r.hp \in Nat /\ new - r.hp >= old - m.hp
  BY <1>3, <1>4, <1>5
<1>7. r.xp \in Nat
  BY <1>2, <1>4
<1>8. CumulativeXp[r.level] + r.xp = CumulativeXp[m.level] + m.xp
  <2>1. CumulativeXp[m.level + 1] = CumulativeXp[m.level] + XpForLevel[m.level]
    BY <1>1, CumulativeSteps
  <2>2. CumulativeXp[m.level] \in Nat
    BY <1>1, CumulativeGrows
  <2> QED
    BY <1>2, <1>4, <2>1, <2>2
<1>9. r.stage \in 0 .. 2
  BY <1>2 DEF Evolved, Mons
<1>10. r \in Mons
  BY <1>1, <1>2, <1>6, <1>7, <1>9 DEF Mons
<1>11. EvolvesInOrder(t) /\ InStage(t, m) => InStage(t, r)
  BY <1>1, <1>2, StageGrows DEF InStage
<1> QED
  BY <1>1, <1>2, <1>6, <1>8, <1>10, <1>11 DEF Grew, r, old, new

LEMMA GrewAgain ==
    ASSUME NEW t \in Templates, NEW m \in Mons, NEW r, NEW s, Grew(t, m, r), Grew(t, r, s)
    PROVE  Grew(t, m, s)
<1>1. /\ m.level \in Nat /\ r.level \in Nat /\ s.level \in Nat
      /\ m.hp \in Nat /\ r.hp \in Nat /\ s.hp \in Nat
      /\ m.level \in Levels /\ r.level \in Levels /\ s.level \in Levels
  BY DEF Grew, Mons, Levels
<1>2. \A l \in Levels : StatsHp(t, l) \in Nat
  BY HitPointsAre
<1>3. m.level <= s.level /\ s.level <= TopLevel(m.level)
  BY <1>1 DEF Grew, TopLevel, MAX_LEVEL
<1>4. StatsHp(t, s.level) - s.hp >= StatsHp(t, m.level) - m.hp
  <2>1. /\ StatsHp(t, s.level) - s.hp >= StatsHp(t, r.level) - r.hp
        /\ StatsHp(t, r.level) - r.hp >= StatsHp(t, m.level) - m.hp
    BY DEF Grew
  <2>2. /\ StatsHp(t, s.level) \in Nat /\ StatsHp(t, r.level) \in Nat
        /\ StatsHp(t, m.level) \in Nat
    BY <1>1, <1>2
  <2> QED
    BY <1>1, <2>1, <2>2
<1> QED
  BY <1>3, <1>4 DEF Grew

-----------------------------------------------------------------------------
\* What the loop holds after each of n passes.
PassTable(t, m, n, g) == g = [i \in 0 .. n |-> IF i = 0 THEN m ELSE Pass(t, g[i - 1])]

LEMMA PassTableExists == \A t, m : \A n \in Nat : \E g : PassTable(t, m, n, g)
<1> SUFFICES ASSUME NEW t, NEW m PROVE \A n \in Nat : \E g : PassTable(t, m, n, g)
  OBVIOUS
<1> DEFINE Bad == {n \in Nat : ~ \E g : PassTable(t, m, n, g)}
<1>1. SUFFICES ASSUME Bad # {} PROVE FALSE
  OBVIOUS
<1>2. PICK n \in Bad : \A k \in Bad : n <= k
  <2>1. Bad \subseteq Nat
    OBVIOUS
  <2> HIDE DEF Bad
  <2> QED
    BY <1>1, <2>1, LeastNat
<1>3. CASE n = 0
  <2>1. PassTable(t, m, 0, [i \in 0 .. 0 |-> m])
    BY DEF PassTable
  <2> QED
    BY <1>2, <1>3, <2>1
<1>4. CASE n # 0
  <2>1. PICK h : PassTable(t, m, n - 1, h)
    BY <1>2, <1>4
  <2> DEFINE g == [i \in 0 .. n |-> IF i < n THEN h[i] ELSE Pass(t, h[n - 1])]
  <2>2. ASSUME NEW i \in 0 .. n
        PROVE  g[i] = IF i = 0 THEN m ELSE Pass(t, g[i - 1])
    <3>1. i # 0 => g[i - 1] = h[i - 1]
      BY <1>2
    <3>2. CASE i < n
      <4>1. i \in 0 .. n - 1 /\ g[i] = h[i]
        BY <1>2, <3>2
      <4>2. h[i] = IF i = 0 THEN m ELSE Pass(t, h[i - 1])
        BY <2>1, <4>1 DEF PassTable
      <4> HIDE DEF g
      <4> QED
        BY <3>1, <4>1, <4>2
    <3>3. CASE ~(i < n)
      <4>1. i = n /\ i # 0 /\ g[i] = Pass(t, h[n - 1])
        BY <1>2, <1>4, <3>3
      <4> HIDE DEF g
      <4> QED
        BY <3>1, <4>1
    <3> QED
      BY <3>2, <3>3
  <2>3. PassTable(t, m, n, g)
    <3>1. g = [i \in 0 .. n |-> g[i]]
      OBVIOUS
    <3> HIDE DEF g
    <3> QED
      BY <2>2, <3>1 DEF PassTable
  <2> HIDE DEF g
  <2> QED
    BY <1>2, <2>3
<1> QED
  BY <1>3, <1>4

\* grantXp's loop: what it ends with is the monster grown as far as its xp
\* goes, whatever it had.
LEMMA LoopGrows ==
    ASSUME NEW t \in Templates, NEW m \in Mons
    PROVE  Grew(t, m, LevelUps(t, m)) /\ ~CanLevelUp(LevelUps(t, m))
<1> DEFINE after == CHOOSE g : PassTable(t, m, 55, g)
<1>1. PassTable(t, m, 55, after)
  BY PassTableExists
<1>2. LevelUps(t, m) = after[55]
  BY DEF LevelUps, PassTable, MAX_LEVEL
<1> HIDE DEF after
<1>3. after[0] = m /\ \A i \in 1 .. 55 : after[i] = Pass(t, after[i - 1])
  BY <1>1 DEF PassTable
<1> DEFINE Good(i) == /\ Grew(t, m, after[i])
                      /\ ~CanLevelUp(after[i]) \/ after[i].level >= m.level + i
           Bad == {i \in 0 .. 55 : ~Good(i)}
<1>4. Good(0)
  <2>1. Grew(t, m, m)
    <3>1. m.level \in Levels /\ m.hp \in Nat /\ m.xp \in Nat
      BY DEF Mons
    <3>2. StatsHp(t, m.level) \in Nat /\ CumulativeXp[m.level] \in Nat
      BY <3>1, HitPointsAre, CumulativeGrows
    <3> QED
      BY <3>1, <3>2 DEF Grew, TopLevel, MAX_LEVEL, Levels
  <2>2. m.level >= m.level + 0
    BY DEF Mons, Levels
  <2> QED
    BY <1>3, <2>1, <2>2
<1>5. ASSUME NEW i \in 1 .. 55, Good(i - 1) PROVE Good(i)
  <2> DEFINE b == after[i - 1]
  <2>1. b \in Mons /\ Grew(t, m, b) /\ after[i] = Pass(t, b)
    BY <1>3, <1>5 DEF Grew
  <2>2. ~CanLevelUp(b) \/ b.level >= m.level + (i - 1)
    BY <1>5
  <2> HIDE DEF b
  <2>3. CASE ~CanLevelUp(b)
    BY <2>1, <2>3 DEF Pass
  <2>4. CASE CanLevelUp(b)
    <3>1. after[i] = LevelUp(t, b)
      BY <2>1, <2>4 DEF Pass
    <3>2. Grew(t, b, after[i]) /\ after[i].level = b.level + 1
      BY <2>1, <2>4, <3>1, LevelUpGrows
    <3>3. Grew(t, m, after[i])
      BY <2>1, <3>2, GrewAgain
    <3>4. after[i].level >= m.level + i
      <4>1. b.level \in Nat /\ m.level \in Nat
        BY <2>1 DEF Mons, Levels
      <4> QED
        BY <2>2, <2>4, <3>2, <4>1
    <3> QED
      BY <3>3, <3>4
  <2> QED
    BY <2>3, <2>4
<1> HIDE DEF Good
<1>6. Bad = {}
  <2>1. SUFFICES ASSUME Bad # {} PROVE FALSE
    OBVIOUS
  <2>2. PICK i \in Bad : \A k \in Bad : i <= k
    <3>1. Bad \subseteq Nat
      OBVIOUS
    <3> HIDE DEF Bad
    <3> QED
      BY <2>1, <3>1, LeastNat
  <2>3. i \in 1 .. 55
    BY <1>4, <2>2
  <2>4. i - 1 \in 0 .. 55 /\ i - 1 \notin Bad
    BY <2>2, <2>3
  <2> QED
    BY <1>5, <2>2, <2>3, <2>4
<1>7. Good(55)
  BY <1>6
<1>8. after[55] \in Mons /\ Grew(t, m, after[55])
  BY <1>7 DEF Good, Grew
<1>9. ~CanLevelUp(after[55])
  <2> SUFFICES ASSUME CanLevelUp(after[55]) PROVE FALSE
    OBVIOUS
  <2>1. after[55].level >= m.level + 55
    BY <1>7 DEF Good
  <2>2. after[55].level < 55 /\ after[55].level \in Nat /\ m.level \in Nat
    BY <1>8 DEF CanLevelUp, MAX_LEVEL, Mons, Levels
  <2> QED
    BY <2>1, <2>2
<1> QED
  BY <1>2, <1>8, <1>9

-----------------------------------------------------------------------------
\* Level and xp account for all that was granted, and no level is due.
ProgressInv ==
    /\ template \in Templates /\ birth \in Levels /\ birth \in StartLevels
    /\ mon \in Mons /\ gained \in Nat /\ fights \in Nat
    /\ birth <= mon.level /\ mon.level <= TopLevel(birth)
    /\ CumulativeXp[mon.level] + mon.xp = CumulativeXp[birth] + gained
    /\ ~CanLevelUp(mon)

\* grantXp: the monster grows from what it was with the xp added.
LEMMA GrantGrows ==
    ASSUME NEW t \in Templates, NEW m \in Mons, NEW amount \in Nat
    PROVE  LET r == GrantXp(t, m, amount) IN
           /\ r \in Mons /\ m.level <= r.level /\ r.level <= TopLevel(m.level)
           /\ CumulativeXp[r.level] + r.xp = CumulativeXp[m.level] + m.xp + amount
           /\ StatsHp(t, r.level) - r.hp >= StatsHp(t, m.level) - m.hp
           /\ EvolvesInOrder(t) /\ InStage(t, m) => InStage(t, r)
           /\ ~CanLevelUp(r)
<1> DEFINE paid == [m EXCEPT !.xp = @ + amount]
           r    == GrantXp(t, m, amount)
<1>1. /\ paid \in Mons /\ paid.level = m.level /\ paid.hp = m.hp
      /\ paid.stage = m.stage /\ paid.xp = m.xp + amount
  BY DEF Mons
<1>2. r = LevelUps(t, paid)
  BY DEF GrantXp
<1> HIDE DEF paid, r
<1>3. Grew(t, paid, r) /\ ~CanLevelUp(r)
  BY <1>1, <1>2, LoopGrows
<1>4. CumulativeXp[m.level] + (m.xp + amount) = CumulativeXp[m.level] + m.xp + amount
  <2>1. CumulativeXp[m.level] \in Nat /\ m.xp \in Nat
    BY CumulativeGrows DEF Mons
  <2> QED
    BY <2>1
<1>5. InStage(t, m) => InStage(t, paid)
  BY <1>1 DEF InStage
<1> QED
  BY <1>1, <1>3, <1>4, <1>5 DEF Grew, r

\* A wound takes nothing but hit points.
LEMMA WoundedMon ==
    ASSUME NEW m \in Mons, NEW wound \in Nat
    PROVE  /\ Wounded(m, wound) \in Mons
           /\ Wounded(m, wound).level = m.level /\ Wounded(m, wound).xp = m.xp
           /\ Wounded(m, wound).stage = m.stage /\ Wounded(m, wound).hp <= m.hp
<1>1. m.hp \in Nat /\ Max({0, m.hp - wound}) = IF 0 >= m.hp - wound THEN 0 ELSE m.hp - wound
  <2>1. m.hp \in Nat
    BY DEF Mons
  <2> QED
    BY <2>1, MaxOfTwo
<1>2. Max({0, m.hp - wound}) \in Nat /\ Max({0, m.hp - wound}) <= m.hp
  BY <1>1
<1> QED
  BY <1>2 DEF Wounded, Mons

\* A reward is a natural number; a fight the engine takes gives at most this.
LEMMA WildRewards ==
    ASSUME NEW l \in Levels, NEW wild \in Nat, wild <= l + FLEE_LEVEL_GAP,
           NEW amount \in WildXpReward(l, wild)
    PROVE  amount \in Nat /\ amount <= 11 * l + 156
<1> DEFINE share  == Max({40, 100 - 2 * (l - wild)})
           rookie == RookieMultiplier(l)
           exact  == (10 + 5 * wild) * share * rookie
           floor  == exact \div 2000
<1>1. l \in Nat /\ l >= 1
  BY DEF Levels
<1>2. share \in 40 .. 104
  <2>1. share = IF 40 >= 100 - 2 * (l - wild) THEN 40 ELSE 100 - 2 * (l - wild)
    BY <1>1, MaxOfTwo
  <2> HIDE DEF share
  <2> QED
    BY <1>1, <2>1 DEF FLEE_LEVEL_GAP
<1>3. rookie \in {40, 25, 18}
  BY DEF RookieMultiplier
<1>4. exact \in Nat /\ exact <= (20 + 5 * l) * 4160
  <2> DEFINE base == 10 + 5 * wild
             part == base * share
  <2>1. base \in Nat /\ base <= 20 + 5 * l
    BY <1>1 DEF FLEE_LEVEL_GAP
  <2> HIDE DEF base, share
  <2>2. base * share \in Nat /\ base * (104 - share) \in Nat
    BY <1>2, <2>1
  <2>3. part \in Nat /\ part <= base * 104
    BY <1>2, <2>1, <2>2
  <2> HIDE DEF part, rookie
  <2>4. part * rookie \in Nat /\ part * rookie <= (20 + 5 * l) * 4160
    BY <1>1, <1>3, <2>1, <2>3
  <2> QED
    BY <2>4 DEF part, base, rookie
<1> HIDE DEF exact
<1>5. floor \in Nat /\ floor <= 11 * l + 156
  BY <1>1, <1>4
<1>6. \E n \in {floor - 1, floor} : amount = Max({12, n})
  <2> DEFINE rs == IF exact % 2000 = 0 THEN {floor - 1, floor} ELSE {floor}
  <2>1. amount \in {Max({12, r}) : r \in rs}
    BY DEF WildXpReward, exact
  <2>2. rs \subseteq {floor - 1, floor}
    <3> HIDE DEF floor
    <3> QED
      OBVIOUS
  <2> HIDE DEF rs, floor
  <2> QED
    BY <2>1, <2>2
<1> HIDE DEF floor
<1>7. \A n \in {floor - 1, floor} : Max({12, n}) = IF 12 >= n THEN 12 ELSE n
  BY <1>5, MaxOfTwo
<1>8. PICK n \in {floor - 1, floor} : amount = IF 12 >= n THEN 12 ELSE n
  BY <1>6, <1>7
<1> QED
  BY <1>1, <1>5, <1>8

LEMMA GymRewards ==
    ASSUME NEW l \in Levels, NEW size \in Nat
    PROVE  /\ GymXpReward(l, size) \in Nat
           /\ size <= 6 => GymXpReward(l, size) <= 252
<1>1. RookieMultiplier(l) \in {40, 25, 18}
  BY DEF RookieMultiplier
<1> DEFINE r == RookieMultiplier(l)
<1> HIDE DEF r
<1>2. ((15 + size * 8) * r) \div 10 \in Nat /\ (size <= 6 => ((15 + size * 8) * r) \div 10 <= 252)
  BY <1>1 DEF r
<1> QED
  BY <1>2 DEF GymXpReward, r

-----------------------------------------------------------------------------
\* What a step gives the monster: nothing but a wound or a heal, or xp after
\* a wound.
Granted(amount) ==
    /\ amount \in Nat
    /\ \E m \in Mons :
          /\ m.level = mon.level /\ m.xp = mon.xp /\ m.stage = mon.stage /\ m.hp <= mon.hp
          /\ mon' = GrantXp(template, m, amount)
    /\ gained' = gained + amount
    /\ UNCHANGED <<template, birth>>

Rests ==
    /\ mon' \in Mons
    /\ mon'.level = mon.level /\ mon'.xp = mon.xp /\ mon'.stage = mon.stage
    /\ UNCHANGED <<template, birth, gained, fights>>

LEMMA WildStep ==
    ASSUME ProgressInv, BeatWild
    PROVE  /\ \E amount \in Nat : Granted(amount) /\ amount <= 11 * mon.level + 156
           /\ fights' = fights + 1
<1>1. PICK wild \in WildLevels, wound \in Wounds :
         /\ wild <= mon.level + FLEE_LEVEL_GAP
         /\ \E amount \in WildXpReward(mon.level, wild) : Gains(Wounded(mon, wound), amount)
  BY DEF BeatWild
<1>2. PICK amount \in WildXpReward(mon.level, wild) : Gains(Wounded(mon, wound), amount)
  BY <1>1
<1>3. wild \in Nat /\ wound \in Nat /\ mon \in Mons /\ mon.level \in Levels
  BY ProgressionAssumption DEF ProgressInv, Mons
<1>4. amount \in Nat /\ amount <= 11 * mon.level + 156
  BY <1>1, <1>2, <1>3, WildRewards
<1>5. Granted(amount)
  BY <1>2, <1>3, <1>4, WoundedMon DEF Gains, Granted
<1> QED
  BY <1>4, <1>5 DEF BeatWild

LEMMA GymStep ==
    ASSUME ProgressInv, BeatGym
    PROVE  /\ \E amount \in Nat : Granted(amount) /\ (GymTeamSizes \subseteq 0 .. 6 => amount <= 252)
           /\ fights' = fights + 1
<1>1. PICK wound \in Wounds, size \in GymTeamSizes :
         Gains(Wounded(mon, wound), GymXpReward(mon.level, size))
  BY DEF BeatGym
<1> DEFINE amount == GymXpReward(mon.level, size)
<1>2. wound \in Nat /\ mon \in Mons /\ mon.level \in Levels /\ mon.level \in Nat /\ size \in Nat
  BY ProgressionAssumption DEF ProgressInv, Mons, Levels
<1>3. amount \in Nat /\ (size <= 6 => amount <= 252)
  BY <1>2, GymRewards
<1>4. Granted(amount)
  BY <1>1, <1>2, <1>3, WoundedMon DEF Gains, Granted
<1> HIDE DEF amount
<1> QED
  BY <1>2, <1>3, <1>4 DEF BeatGym

LEMMA HostStep ==
    ASSUME ProgressInv, HostGrants
    PROVE  \E amount \in Nat : Granted(amount) /\ fights' = fights
<1>1. PICK amount \in Grants : Gains(mon, amount)
  BY DEF HostGrants
<1>2. amount \in Nat /\ mon \in Mons /\ mon.hp <= mon.hp
  BY ProgressionAssumption DEF ProgressInv, Mons
<1>3. Granted(amount)
  BY <1>1, <1>2 DEF Gains, Granted
<1> QED
  BY <1>2, <1>3 DEF HostGrants

LEMMA LossStep == ASSUME ProgressInv, LoseFight PROVE Rests
<1>1. PICK wound \in Wounds : mon' = Wounded(mon, wound)
  BY DEF LoseFight
<1>2. wound \in Nat /\ mon \in Mons
  BY ProgressionAssumption DEF ProgressInv
<1> QED
  BY <1>1, <1>2, WoundedMon DEF LoseFight, Rests

LEMMA HealStep == ASSUME ProgressInv, Heal PROVE Rests
<1>1. mon \in Mons /\ StatsHp(template, mon.level) \in Nat
  BY HitPointsAre DEF ProgressInv, Mons
<1>2. mon' = [mon EXCEPT !.hp = StatsHp(template, mon.level)]
  BY DEF Heal
<1> QED
  BY <1>1, <1>2 DEF Heal, Rests, Mons

\* Every step of the monster is one of the two.
LEMMA EveryStep ==
    ASSUME ProgressInv, ProgressNext
    PROVE  Rests \/ \E amount \in Nat : Granted(amount) /\ fights' \in {fights, fights + 1}
<1>1. CASE BeatWild
  BY <1>1, WildStep
<1>2. CASE BeatGym
  BY <1>2, GymStep
<1>3. CASE LoseFight
  BY <1>3, LossStep
<1>4. CASE Heal
  BY <1>4, HealStep
<1>5. CASE HostGrants
  BY <1>5, HostStep
<1> QED
  BY <1>1, <1>2, <1>3, <1>4, <1>5 DEF ProgressNext

\* What xp does: a summary of GrantGrows for a step.
LEMMA GrantedGrows ==
    ASSUME ProgressInv, NEW amount \in Nat, Granted(amount)
    PROVE  /\ mon' \in Mons /\ mon.level <= mon'.level /\ mon'.level <= TopLevel(mon.level)
           /\ CumulativeXp[mon'.level] + mon'.xp = CumulativeXp[mon.level] + mon.xp + amount
           /\ StatsHp(template, mon'.level) - mon'.hp >= StatsHp(template, mon.level) - mon.hp
           /\ EvolvesInOrder(template) /\ InStage(template, mon) => InStage(template, mon')
           /\ ~CanLevelUp(mon')
<1>1. PICK m \in Mons :
         /\ m.level = mon.level /\ m.xp = mon.xp /\ m.stage = mon.stage /\ m.hp <= mon.hp
         /\ mon' = GrantXp(template, m, amount)
  BY DEF Granted
<1>2. template \in Templates /\ mon \in Mons
  BY DEF ProgressInv
<1>3. /\ mon' \in Mons /\ m.level <= mon'.level /\ mon'.level <= TopLevel(m.level)
      /\ CumulativeXp[mon'.level] + mon'.xp = CumulativeXp[m.level] + m.xp + amount
      /\ StatsHp(template, mon'.level) - mon'.hp >= StatsHp(template, m.level) - m.hp
      /\ EvolvesInOrder(template) /\ InStage(template, m) => InStage(template, mon')
      /\ ~CanLevelUp(mon')
  BY <1>1, <1>2, GrantGrows
<1>4. StatsHp(template, mon'.level) - mon'.hp >= StatsHp(template, mon.level) - mon.hp
  <2>1. /\ m.hp \in Nat /\ mon.hp \in Nat /\ mon'.hp \in Nat
        /\ mon.level \in Levels /\ mon'.level \in Levels
    BY <1>2, <1>3 DEF Mons
  <2>2. StatsHp(template, mon.level) \in Nat /\ StatsHp(template, mon'.level) \in Nat
    BY <1>2, <2>1, HitPointsAre
  <2> QED
    BY <1>1, <1>3, <2>1, <2>2
<1>5. InStage(template, mon) => InStage(template, m)
  BY <1>1 DEF InStage
<1> QED
  BY <1>1, <1>3, <1>4, <1>5

LEMMA ProgressStarts ==
    ASSUME ProgressInit
    PROVE  ProgressInv /\ InStage(template, mon)
<1>1. template \in Templates /\ birth \in StartLevels /\ birth \in Levels
  BY TableAssumption, TableType DEF ProgressInit
<1>2. /\ mon = [level |-> birth, xp |-> 0, stage |-> StageForLevel(template, birth),
                hp |-> StatsHp(template, birth)]
      /\ gained = 0 /\ fights = 0
  BY DEF ProgressInit, Created
<1>3. mon \in Mons /\ InStage(template, mon)
  <2>1. StatsHp(template, birth) \in Nat /\ StageForLevel(template, birth) \in 0 .. 2
    BY <1>1, HitPointsAre DEF StageForLevel
  <2> QED
    BY <1>1, <1>2, <2>1 DEF Mons, InStage
<1>4. ~CanLevelUp(mon)
  BY <1>1, <1>2, TableType DEF CanLevelUp
<1>5. birth <= mon.level /\ mon.level <= TopLevel(birth)
  BY <1>1, <1>2 DEF TopLevel, MAX_LEVEL, Levels
<1> QED
  BY <1>1, <1>2, <1>3, <1>4, <1>5 DEF ProgressInv

\* The invariant and, on a line that evolves in order, the stage are kept.
LEMMA ProgressStep ==
    ASSUME ProgressInv, [ProgressNext]_progressVars
    PROVE  /\ ProgressInv'
           /\ EvolvesInOrder(template) /\ InStage(template, mon) => InStage(template', mon')
           /\ template' = template
<1>1. /\ template \in Templates /\ birth \in Levels /\ mon \in Mons /\ fights \in Nat /\ gained \in Nat
      /\ mon.level \in Nat /\ mon.level \in Levels /\ mon.xp \in Nat
      /\ CumulativeXp[mon.level] \in Nat /\ CumulativeXp[birth] \in Nat
  <2>1. template \in Templates /\ birth \in Levels /\ mon \in Mons /\ fights \in Nat /\ gained \in Nat
    BY DEF ProgressInv
  <2>2. mon.level \in Levels /\ mon.xp \in Nat
    BY <2>1 DEF Mons
  <2>3. mon.level \in Nat
    BY <2>2 DEF Levels
  <2> QED
    BY <2>1, <2>2, <2>3, CumulativeGrows
<1>2. CASE UNCHANGED progressVars
  BY <1>2 DEF progressVars, ProgressInv, CanLevelUp, InStage
<1>3. CASE Rests
  BY <1>3 DEF Rests, ProgressInv, CanLevelUp, InStage
<1>4. ASSUME NEW amount \in Nat, Granted(amount), fights' \in {fights, fights + 1}
      PROVE  /\ ProgressInv'
             /\ EvolvesInOrder(template) /\ InStage(template, mon) => InStage(template', mon')
             /\ template' = template
  <2>1. /\ mon' \in Mons /\ mon.level <= mon'.level /\ mon'.level <= TopLevel(mon.level)
        /\ CumulativeXp[mon'.level] + mon'.xp = CumulativeXp[mon.level] + mon.xp + amount
        /\ EvolvesInOrder(template) /\ InStage(template, mon) => InStage(template, mon')
        /\ ~CanLevelUp(mon')
    BY <1>4, GrantedGrows
  <2>2. gained' = gained + amount /\ template' = template /\ birth' = birth
    BY <1>4 DEF Granted
  <2>3. birth <= mon'.level /\ mon'.level <= TopLevel(birth)
    <3>1. mon'.level \in Nat /\ birth \in Nat /\ birth <= mon.level /\ mon.level <= TopLevel(birth)
      BY <1>1, <2>1 DEF Mons, Levels, ProgressInv
    <3> QED
      BY <1>1, <2>1, <3>1 DEF TopLevel, MAX_LEVEL
  <2>4. CumulativeXp[mon'.level] + mon'.xp = CumulativeXp[birth] + gained'
    BY <1>1, <2>1, <2>2 DEF ProgressInv
  <2>5. (~CanLevelUp(mon))'
    BY <2>1 DEF CanLevelUp
  <2>6. gained' \in Nat /\ fights' \in Nat
    BY <1>1, <1>4, <2>2
  <2> QED
    BY <2>1, <2>2, <2>3, <2>4, <2>5, <2>6 DEF ProgressInv
<1> QED
  BY <1>2, <1>3, <1>4, EveryStep

LEMMA ProgressInvariant == ProgressSpec => []ProgressInv
<1>1. ProgressInit => ProgressInv
  BY ProgressStarts
<1>2. ProgressInv /\ [ProgressNext]_progressVars => ProgressInv'
  BY ProgressStep
<1> QED
  BY <1>1, <1>2, PTL DEF ProgressSpec

-----------------------------------------------------------------------------
\* The level is the highest one the xp reaches, up to the cap, and the xp the
\* rest, however the grants were cut: grantXp agrees with cumulativeXp.
THEOREM LevelsMatchXp == ProgressSpec => []LevelMatchesXp
<1>1. ASSUME ProgressInv PROVE LevelMatchesXp
  <2> DEFINE total   == CumulativeXp[birth] + gained
             reached == {l \in birth .. Max({birth, MAX_LEVEL}) : CumulativeXp[l] <= total}
  <2>1. /\ birth \in Levels /\ mon.level \in Levels /\ mon.level \in Nat /\ birth \in Nat
        /\ birth <= mon.level /\ mon.level <= TopLevel(birth)
        /\ mon.xp \in Nat /\ gained \in Nat
        /\ CumulativeXp[mon.level] + mon.xp = total
        /\ ~CanLevelUp(mon)
    BY <1>1 DEF ProgressInv, Mons, Levels
  <2>2. Max({birth, MAX_LEVEL}) = TopLevel(birth) /\ TopLevel(birth) \in Levels
    BY <2>1, MaxOfTwo DEF TopLevel, MAX_LEVEL, Levels
  <2>3. CumulativeXp[mon.level] \in Nat /\ CumulativeXp[birth] \in Nat
    BY <2>1, CumulativeGrows
  <2>4. mon.level \in reached
    BY <2>1, <2>2, <2>3
  <2>5. ASSUME NEW l \in reached PROVE mon.level >= l
    <3> SUFFICES ASSUME l > mon.level PROVE FALSE
      BY <2>1, <2>2 DEF Levels
    <3>1. /\ l \in Levels /\ l \in Nat /\ l <= TopLevel(birth) /\ CumulativeXp[l] <= total
      BY <2>1, <2>2 DEF Levels
    <3>2. mon.level < MAX_LEVEL /\ mon.level + 1 \in Levels /\ mon.level + 1 <= l
      BY <2>1, <3>1 DEF TopLevel, MAX_LEVEL, Levels
    <3>3. XpForLevel[mon.level] \in Nat /\ mon.xp < XpForLevel[mon.level]
      BY <2>1, <3>2, TableType DEF CanLevelUp
    <3>4. CumulativeXp[mon.level + 1] = CumulativeXp[mon.level] + XpForLevel[mon.level]
      <4>1. mon.level + 1 # 1 /\ (mon.level + 1) - 1 = mon.level
        BY <2>1 DEF Levels
      <4> QED
        BY <3>2, <4>1, CumulativeSteps
    <3>5. CumulativeXp[mon.level + 1] <= CumulativeXp[l] /\ CumulativeXp[l] \in Nat
      BY <3>1, <3>2, CumulativeGrows
    <3> QED
      BY <2>1, <2>3, <3>1, <3>3, <3>4, <3>5
  <2>6. \A x \in reached : (\A y \in reached : x >= y) => x = mon.level
    <3>1. \A x \in reached : x \in Nat
      BY <2>1, <2>2 DEF Levels
    <3> HIDE DEF reached
    <3> QED
      BY <2>1, <2>4, <2>5, <3>1
  <2>7. mon.level = Max(reached)
    <3> HIDE DEF reached
    <3> QED
      BY <2>4, <2>5, <2>6 DEF Max
  <2>8. mon.xp = total - CumulativeXp[mon.level]
    BY <2>1, <2>3
  <2> QED
    BY <2>7, <2>8 DEF LevelMatchesXp
<1> QED
  BY <1>1, ProgressInvariant, PTL

\* The stage a monster grew to is the one stageForLevel gives its level, if
\* every line with a last stage has the one before it, at a lower level.
THEOREM StagesMatchLevel ==
    ASSUME \A t \in Templates : EvolvesInOrder(t)
    PROVE  ProgressSpec => []StageMatchesLevel
<1> DEFINE Inv == ProgressInv /\ InStage(template, mon)
<1>1. ProgressInit => Inv
  BY ProgressStarts
<1>2. Inv /\ [ProgressNext]_progressVars => Inv'
  <2> SUFFICES ASSUME Inv, [ProgressNext]_progressVars PROVE Inv'
    OBVIOUS
  <2>1. EvolvesInOrder(template)
    BY DEF ProgressInv
  <2> QED
    BY <2>1, ProgressStep
<1>3. Inv => StageMatchesLevel
  BY DEF InStage, StageMatchesLevel
<1> QED
  BY <1>1, <1>2, <1>3, PTL DEF ProgressSpec

\* Levels do not heal wounds: grantXp carries what a monster lacks forward.
THEOREM WoundsAreKept == ProgressSpec => LevelsHealNoWounds
<1>1. ASSUME ProgressInv, [ProgressNext]_progressVars
      PROVE  [mon'.level > mon.level => Missing' >= Missing]_progressVars
  <2> SUFFICES ASSUME ProgressNext, mon'.level > mon.level PROVE Missing' >= Missing
    BY <1>1
  <2>1. ~Rests
    BY <1>1 DEF Rests, ProgressInv, Mons, Levels
  <2>2. PICK amount \in Nat : Granted(amount)
    BY <1>1, <2>1, EveryStep
  <2>3. template' = template
    BY <2>2 DEF Granted
  <2> QED
    BY <1>1, <2>2, <2>3, GrantedGrows DEF Missing
<1> QED
  BY <1>1, ProgressInvariant, PTL DEF ProgressSpec, LevelsHealNoWounds

\* A fight of the engine gives one level at most, from level 2 on and against
\* gyms of up to six: at level 1 a gym of three gives two.
THEOREM OneLevelAtMost ==
    ASSUME 1 \notin StartLevels, GymTeamSizes \subseteq 0 .. 6
    PROVE  ProgressSpec => OneLevelPerFight
<1>1. ASSUME ProgressInv, [ProgressNext]_progressVars
      PROVE  [fights' > fights => mon'.level <= mon.level + 1]_progressVars
  <2> SUFFICES ASSUME ProgressNext, fights' > fights PROVE mon'.level <= mon.level + 1
    BY <1>1
  <2> DEFINE l == mon.level
  <2>1. /\ l \in Levels /\ l \in Nat /\ mon.xp \in Nat /\ l >= 2
        /\ CumulativeXp[l] \in Nat /\ fights \in Nat
    <3>1. mon \in Mons /\ birth \in StartLevels /\ birth \in Levels /\ birth <= l /\ fights \in Nat
      BY <1>1 DEF ProgressInv
    <3>2. l \in Levels /\ mon.xp \in Nat
      BY <3>1 DEF Mons
    <3>3. l \in Nat /\ l >= 2
      BY <3>1, <3>2 DEF Levels
    <3> HIDE DEF l
    <3> QED
      BY <3>1, <3>2, <3>3, CumulativeGrows
  <2>2. BeatWild \/ BeatGym
    BY <2>1 DEF ProgressNext, LoseFight, Heal, HostGrants
  <2>3. PICK amount \in Nat : Granted(amount) /\ amount <= 11 * l + 230
    <3>1. \E amount \in Nat : Granted(amount) /\ (amount <= 11 * l + 156 \/ amount <= 252)
      BY <1>1, <2>2, WildStep, GymStep
    <3> HIDE DEF l
    <3> QED
      BY <2>1, <3>1
  <2>4. /\ mon'.level \in Levels /\ mon'.level \in Nat /\ mon'.xp \in Nat
        /\ mon'.level <= TopLevel(l)
        /\ CumulativeXp[mon'.level] + mon'.xp = CumulativeXp[l] + mon.xp + amount
    BY <1>1, <2>3, GrantedGrows DEF Mons, Levels
  <2>5. CASE l >= 54
    BY <2>1, <2>4, <2>5 DEF TopLevel, MAX_LEVEL
  <2>6. CASE l < 54
    <3> SUFFICES ASSUME mon'.level >= l + 2 PROVE FALSE
      BY <2>1, <2>4
    <3>1. l \in 2 .. 53 /\ l + 1 \in Levels /\ l + 2 \in Levels
      BY <2>1, <2>6 DEF Levels
    <3>2. /\ XpForLevel[l] \in Nat /\ XpForLevel[l + 1] \in Nat
          /\ XpForLevel[l + 1] >= 11 * l + 230 /\ mon.xp < XpForLevel[l]
      <4>1. XpForLevel[l] \in Nat /\ XpForLevel[l + 1] \in Nat
        BY <2>1, <3>1, TableType
      <4>2. ~(mon.xp >= XpForLevel[l])
        BY <1>1, <2>1, <2>6 DEF ProgressInv, CanLevelUp, MAX_LEVEL
      <4> QED
        BY <2>1, <3>1, <4>1, <4>2, TableGrows
    <3>3. CumulativeXp[l + 2] = CumulativeXp[l] + XpForLevel[l] + XpForLevel[l + 1]
      <4>1. l + 1 # 1 /\ l + 2 # 1 /\ (l + 1) - 1 = l /\ (l + 2) - 1 = l + 1
        BY <2>1
      <4>2. /\ CumulativeXp[l + 1] = CumulativeXp[l] + XpForLevel[l]
            /\ CumulativeXp[l + 2] = CumulativeXp[l + 1] + XpForLevel[l + 1]
        BY <3>1, <4>1, CumulativeSteps
      <4> QED
        BY <4>2
    <3>4. CumulativeXp[l + 2] <= CumulativeXp[mon'.level] /\ CumulativeXp[mon'.level] \in Nat
      BY <2>4, <3>1, CumulativeGrows
    <3> HIDE DEF l
    <3> QED
      BY <2>1, <2>3, <2>4, <3>2, <3>3, <3>4
  <2> QED
    BY <2>1, <2>5, <2>6
<1> QED
  BY <1>1, ProgressInvariant, PTL DEF ProgressSpec, OneLevelPerFight
=============================================================================
