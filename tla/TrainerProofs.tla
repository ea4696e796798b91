--------------------------- MODULE TrainerProofs ---------------------------
(***************************************************************************)
(* Proofs about TrainerAgent and the roster it keeps, for every world,     *)
(* every set of species and every size of party and box. A tick either     *)
(* carries the party over, member by member, or does so and lets one       *)
(* caught monster enter (TickRoster, CatchEffect); every invariant of the  *)
(* roster follows from these two facts.                                    *)
(***************************************************************************)
EXTENDS TrainerAgent, SumProofs, FiniteSetTheorems, SequenceTheorems, TLAPS

-----------------------------------------------------------------------------
\* What src/power.ts computes is a natural number.
PowerIsNat == \A s \in Species, l \in Nat \ {0} : Power(s, l) \in Nat

\* The power of a monster the model knows.
LEMMA PowerOfMonster ==
    ASSUME PowerIsNat, NEW m \in Monsters
    PROVE  PowerOf(m) \in Nat
<1>1. m.species \in Species /\ m.level \in Nat \ {0}
  BY DEF Monsters
<1> QED
  BY <1>1 DEF PowerIsNat, PowerOf

\* A roster that is not empty has a first weakest member.
LEMMA WeakestLemma ==
    ASSUME PowerIsNat, NEW roster \in Seq(Monsters), roster # <<>>
    PROVE  /\ WeakestIndex(roster) \in DOMAIN roster
           /\ \A j \in DOMAIN roster : PowerOf(roster[WeakestIndex(roster)]) <= PowerOf(roster[j])
<1> DEFINE Lightest(i) == \A j \in DOMAIN roster : PowerOf(roster[i]) <= PowerOf(roster[j])
           Powers == {PowerOf(roster[i]) : i \in DOMAIN roster}
           Weakest == {i \in DOMAIN roster : Lightest(i)}
<1>1. DOMAIN roster = 1 .. Len(roster) /\ Len(roster) \in Nat \ {0}
  BY EmptySeq, LenProperties
<1>2. \A i \in DOMAIN roster : PowerOf(roster[i]) \in Nat
  <2>1. \A i \in DOMAIN roster : roster[i] \in Monsters
    BY <1>1, ElementOfSeq
  <2> QED
    BY <2>1, PowerOfMonster
<1>3. PICK p \in Powers : \A q \in Powers : p <= q
  <2>1. Powers \subseteq Nat /\ Powers # {}
    BY <1>1, <1>2
  <2> HIDE DEF Powers
  <2> QED
    BY <2>1, LeastNat
<1>4. Weakest # {} /\ Weakest \subseteq Nat
  BY <1>1, <1>3
<1>5. PICK i \in Weakest : \A j \in Weakest : i <= j
  <2> HIDE DEF Weakest
  <2> QED
    BY <1>4, LeastNat
<1>6. /\ i \in DOMAIN roster
      /\ \A j \in DOMAIN roster : PowerOf(roster[i]) <= PowerOf(roster[j])
      /\ \A j \in 1 .. i - 1 : PowerOf(roster[i]) < PowerOf(roster[j])
  <2>1. ASSUME NEW j \in 1 .. i - 1 PROVE PowerOf(roster[i]) < PowerOf(roster[j])
    <3>1. j \in DOMAIN roster /\ ~(i <= j)
      BY <1>1, <1>5
    <3>2. ~Lightest(j)
      BY <1>5, <3>1
    <3>3. PICK k \in DOMAIN roster : ~(PowerOf(roster[j]) <= PowerOf(roster[k]))
      BY <3>2
    <3>4. PowerOf(roster[i]) <= PowerOf(roster[k])
      BY <1>5
    <3> QED
      BY <1>2, <1>5, <3>1, <3>3, <3>4
  <2> QED
    BY <1>5, <2>1
<1> QED
  BY <1>6 DEF WeakestIndex

\* The same as a formula, for modules that instantiate this one.
LEMMA WeakestIsMember ==
    PowerIsNat =>
        \A roster \in Seq(Monsters) : roster # <<>> => WeakestIndex(roster) \in DOMAIN roster
  BY WeakestLemma

-----------------------------------------------------------------------------
\* The two ways a newcomer enters a party or a box: at the end (w = 0), or at
\* the end with the member at w released.
Enters(old, new, w, mon) ==
    /\ new \in Seq(Monsters)
    /\ Len(new) = IF w = 0 THEN Len(old) + 1 ELSE Len(old)
    /\ new[Len(new)] = mon
    /\ \A i \in 1 .. Len(new) - 1 : new[i] = old[IF w = 0 \/ i < w THEN i ELSE i + 1]

\* Appended with no one released.
LEMMA AppendEnters ==
    ASSUME NEW old \in Seq(Monsters), NEW mon \in Monsters
    PROVE  Enters(old, Append(old, mon), 0, mon)
  BY AppendProperties, LenProperties DEF Enters

\* Appended after the member at w was released.
LEMMA ReplaceEnters ==
    ASSUME NEW old \in Seq(Monsters), NEW mon \in Monsters, NEW w \in 1 .. Len(old)
    PROVE  Enters(old, Append(RemoveAt(old, w), mon), w, mon)
<1> DEFINE before == SubSeq(old, 1, w - 1)
           behind == SubSeq(old, w + 1, Len(old))
           rest   == before \o behind
<1>1. Len(old) \in Nat /\ w \in Int /\ \A i \in 1 .. Len(old) : old[i] \in Monsters
  BY LenProperties, ElementOfSeq
<1>2. /\ before \in Seq(Monsters) /\ Len(before) = w - 1
      /\ \A i \in 1 .. w - 1 : before[i] = old[i]
  <2>1. \A i \in 1 .. w - 1 : old[i] \in Monsters
    BY <1>1
  <2> HIDE DEF before
  <2>2. /\ before \in Seq(Monsters)
        /\ Len(before) = IF 1 <= w - 1 THEN w - 1 - 1 + 1 ELSE 0
        /\ \A i \in 1 .. w - 1 - 1 + 1 : before[i] = old[1 + i - 1]
    BY <1>1, <2>1, SubSeqProperties DEF before
  <2> QED
    BY <1>1, <2>2
<1>3. /\ behind \in Seq(Monsters) /\ Len(behind) = Len(old) - w
      /\ \A i \in 1 .. Len(old) - w : behind[i] = old[w + i]
  <2>1. \A i \in w + 1 .. Len(old) : old[i] \in Monsters
    BY <1>1
  <2> HIDE DEF behind
  <2>2. /\ behind \in Seq(Monsters)
        /\ Len(behind) = IF w + 1 <= Len(old) THEN Len(old) - (w + 1) + 1 ELSE 0
        /\ \A i \in 1 .. Len(old) - (w + 1) + 1 : behind[i] = old[w + 1 + i - 1]
    BY <1>1, <2>1, SubSeqProperties DEF behind
  <2> QED
    BY <1>1, <2>2
<1>4. /\ rest \in Seq(Monsters) /\ Len(rest) = Len(old) - 1
      /\ \A i \in 1 .. Len(old) - 1 : rest[i] = old[IF i < w THEN i ELSE i + 1]
  <2> HIDE DEF before, behind
  <2>1. /\ rest \in Seq(Monsters) /\ Len(rest) = Len(before) + Len(behind)
        /\ \A i \in 1 .. Len(before) + Len(behind) :
              rest[i] = IF i <= Len(before) THEN before[i] ELSE behind[i - Len(before)]
    BY <1>2, <1>3, ConcatProperties
  <2> HIDE DEF rest
  <2>2. Len(rest) = Len(old) - 1
    BY <1>1, <1>2, <1>3, <2>1
  <2>3. ASSUME NEW i \in 1 .. Len(old) - 1
        PROVE  rest[i] = old[IF i < w THEN i ELSE i + 1]
    <3>1. rest[i] = IF i <= w - 1 THEN before[i] ELSE behind[i - (w - 1)]
      BY <1>1, <1>2, <2>1, <2>2
    <3>2. CASE i < w
      BY <1>1, <1>2, <3>1, <3>2
    <3>3. CASE ~(i < w)
      <4>1. i - (w - 1) \in 1 .. Len(old) - w /\ w + (i - (w - 1)) = i + 1
        BY <1>1, <3>3
      <4>2. behind[i - (w - 1)] = old[i + 1]
        BY <1>3, <4>1
      <4> QED
        BY <1>1, <3>1, <3>3, <4>2
    <3> QED
      BY <3>2, <3>3
  <2> QED
    BY <2>1, <2>2, <2>3
<1>5. RemoveAt(old, w) = rest
  BY DEF RemoveAt
<1> HIDE DEF rest
<1> QED
  BY <1>1, <1>4, <1>5, AppendProperties DEF Enters

\* What placing a newcomer does: it enters the party or the box, at the end
\* while there is room, in place of a weaker member when there is none; or it
\* is refused by a full roster of which it beats nobody.
LEMMA Placement ==
    ASSUME PowerIsNat, NEW members \in Seq(Monsters), NEW stored \in Seq(Monsters),
           Len(members) \in 1 .. PartySize, Len(stored) <= BoxSize, NEW mon \in Monsters
    PROVE  LET placed == PlaceNewMonster(members, stored, mon) IN
           \/ /\ placed.team = members /\ placed.box = stored
              /\ Len(members \o stored) = PartySize + BoxSize
              /\ ~IsUpgrade(members \o stored, mon)
           \/ \E w \in 0 .. Len(members) :
                 /\ Enters(members, placed.team, w, mon) /\ placed.box = stored
                 /\ IF w = 0 THEN Len(members) < PartySize
                             ELSE PowerOf(members[w]) < PowerOf(mon)
           \/ \E w \in 0 .. Len(stored) :
                 /\ Enters(stored, placed.box, w, mon) /\ placed.team = members
                 /\ IF w = 0 THEN Len(stored) < BoxSize
                             ELSE PowerOf(stored[w]) < PowerOf(mon)
<1> DEFINE roster == members \o stored
           weak   == WeakestIndex(roster)
           placed == PlaceNewMonster(members, stored, mon)
<1>1. /\ roster \in Seq(Monsters)
      /\ Len(roster) = Len(members) + Len(stored)
      /\ \A i \in 1 .. Len(members) + Len(stored) :
            roster[i] = IF i <= Len(members) THEN members[i] ELSE stored[i - Len(members)]
  BY ConcatProperties
<1>2. Len(members) \in Nat \ {0} /\ Len(stored) \in Nat /\ PartySize \in Nat /\ BoxSize \in Nat
  BY LenProperties, RosterAssumption
<1>3. weak \in 1 .. Len(members) + Len(stored)
  <2> HIDE DEF roster
  <2>1. roster # <<>> /\ DOMAIN roster = 1 .. Len(roster)
    BY <1>1, <1>2, EmptySeq, LenProperties
  <2> QED
    BY <1>1, <2>1, WeakestLemma
<1>4. PowerOf(mon) \in Int /\ PowerOf(roster[weak]) \in Int
  <2>1. roster[weak] \in Monsters
    <3> HIDE DEF roster, weak
    <3> QED
      BY <1>1, <1>2, <1>3, ElementOfSeq
  <2> HIDE DEF roster, weak
  <2>2. PowerOf(mon) \in Nat /\ PowerOf(roster[weak]) \in Nat
    BY <2>1, PowerOfMonster
  <2> QED
    BY <2>2
<1>5. CASE Len(members) < PartySize
  <2>1. placed.team = Append(members, mon) /\ placed.box = stored
    BY <1>2, <1>5 DEF PlaceNewMonster
  <2> QED
    BY <1>2, <1>5, <2>1, AppendEnters
<1>6. CASE Len(members) >= PartySize /\ Len(stored) < BoxSize
  <2>1. placed.team = members /\ placed.box = Append(stored, mon)
    BY <1>2, <1>6 DEF PlaceNewMonster
  <2> QED
    BY <1>2, <1>6, <2>1, AppendEnters
<1>7. CASE Len(members) >= PartySize /\ Len(stored) >= BoxSize
  <2>1. Len(roster) = PartySize + BoxSize
    BY <1>1, <1>2, <1>7
  <2>2. placed = IF PowerOf(mon) <= PowerOf(roster[weak])
                 THEN [team |-> members, box |-> stored]
                 ELSE Replace(members, stored, weak, mon)
    <3>1. ~(Len(members) < PartySize) /\ ~(Len(stored) < BoxSize)
      BY <1>2, <1>7
    <3> QED
      BY <3>1, Zenon DEF PlaceNewMonster
  <2> HIDE DEF placed
  <2>3. CASE PowerOf(mon) <= PowerOf(roster[weak])
    <3>1. ~IsUpgrade(roster, mon)
      <4>1. IsUpgrade(roster, mon) <=> PowerOf(mon) > PowerOf(roster[weak])
        BY DEF IsUpgrade
      <4> HIDE DEF roster, weak
      <4> QED
        BY <1>4, <2>3, <4>1
    <3> QED
      BY <2>1, <2>2, <2>3, <3>1 DEF placed
  <2>4. CASE ~(PowerOf(mon) <= PowerOf(roster[weak])) /\ weak <= Len(members)
    <3>1. roster[weak] = members[weak] /\ weak \in 1 .. Len(members)
      <4> HIDE DEF roster, weak
      <4> QED
        BY <1>1, <1>2, <1>3, <2>4
    <3>2. placed.team = Append(RemoveAt(members, weak), mon) /\ placed.box = stored
      BY <2>2, <2>4 DEF Replace
    <3>3. PowerOf(members[weak]) < PowerOf(mon)
      <4> HIDE DEF roster, weak
      <4> QED
        BY <1>4, <2>4, <3>1
    <3> HIDE DEF roster, weak
    <3>4. Enters(members, placed.team, weak, mon) /\ weak # 0 /\ weak \in 0 .. Len(members)
      BY <1>2, <3>1, <3>2, ReplaceEnters
    <3> QED
      BY <3>2, <3>3, <3>4 DEF placed
  <2>5. CASE ~(PowerOf(mon) <= PowerOf(roster[weak])) /\ ~(weak <= Len(members))
    <3> DEFINE w == weak - Len(members)
    <3>1. roster[weak] = stored[w] /\ w \in 1 .. Len(stored)
      <4> HIDE DEF roster, weak
      <4> QED
        BY <1>1, <1>2, <1>3, <2>5
    <3>2. placed.team = members /\ placed.box = Append(RemoveAt(stored, w), mon)
      BY <2>2, <2>5 DEF Replace
    <3>3. PowerOf(stored[w]) < PowerOf(mon)
      <4> HIDE DEF roster, weak, w
      <4> QED
        BY <1>4, <2>5, <3>1
    <3> HIDE DEF roster, weak, w
    <3>4. Enters(stored, placed.box, w, mon) /\ w # 0 /\ w \in 0 .. Len(stored)
      BY <1>2, <3>1, <3>2, ReplaceEnters
    <3> QED
      BY <3>2, <3>3, <3>4 DEF placed
  <2> QED
    BY <2>3, <2>4, <2>5
<1> HIDE DEF placed
<1> QED
  BY <1>2, <1>5, <1>6, <1>7

-----------------------------------------------------------------------------
\* No species twice among the members; none both among members and stored.
Unique(members) ==
    \A i, j \in DOMAIN members : members[i].species = members[j].species => i = j
Apart(members, stored) ==
    \A i \in DOMAIN members, j \in DOMAIN stored : members[i].species # stored[j].species

\* Party and box apart instead of one roster.
LEMMA RosterSplit ==
    ASSUME NEW members \in Seq(Monsters), NEW stored \in Seq(Monsters)
    PROVE  /\ Unique(members \o stored) <=>
                 Unique(members) /\ Unique(stored) /\ Apart(members, stored)
           /\ \A s : Owned(members \o stored, s) <=> Owned(members, s) \/ Owned(stored, s)
<1> DEFINE roster == members \o stored
<1>1. /\ DOMAIN roster = 1 .. Len(members) + Len(stored)
      /\ \A i \in 1 .. Len(members) + Len(stored) :
            roster[i] = IF i <= Len(members) THEN members[i] ELSE stored[i - Len(members)]
  BY ConcatProperties, LenProperties
<1>2. /\ DOMAIN members = 1 .. Len(members) /\ Len(members) \in Nat
      /\ DOMAIN stored = 1 .. Len(stored) /\ Len(stored) \in Nat
  BY LenProperties
<1> HIDE DEF roster
<1>3. \A i \in DOMAIN members : i \in DOMAIN roster /\ roster[i] = members[i]
  BY <1>1, <1>2
<1>4. \A j \in DOMAIN stored :
         j + Len(members) \in DOMAIN roster /\ roster[j + Len(members)] = stored[j]
  BY <1>1, <1>2
<1>5. \A i \in DOMAIN roster :
         \/ i \in DOMAIN members
         \/ i - Len(members) \in DOMAIN stored /\ roster[i] = stored[i - Len(members)]
  BY <1>1, <1>2
<1>6. Unique(roster) => Unique(members) /\ Unique(stored) /\ Apart(members, stored)
  <2> SUFFICES ASSUME Unique(roster)
               PROVE  Unique(members) /\ Unique(stored) /\ Apart(members, stored)
    OBVIOUS
  <2>1. Unique(members)
    BY <1>3 DEF Unique
  <2>2. ASSUME NEW i \in DOMAIN stored, NEW j \in DOMAIN stored,
               stored[i].species = stored[j].species
        PROVE  i = j
    <3>1. i + Len(members) = j + Len(members)
      BY <1>4, <2>2 DEF Unique
    <3> QED
      BY <1>2, <3>1
  <2>3. ASSUME NEW i \in DOMAIN members, NEW j \in DOMAIN stored,
               members[i].species = stored[j].species
        PROVE  FALSE
    <3>1. i = j + Len(members)
      BY <1>3, <1>4, <2>3 DEF Unique
    <3> QED
      BY <1>2, <3>1
  <2> QED
    BY <2>1, <2>2, <2>3 DEF Unique, Apart
<1>7. Unique(members) /\ Unique(stored) /\ Apart(members, stored) => Unique(roster)
  <2> SUFFICES ASSUME Unique(members), Unique(stored), Apart(members, stored),
                      NEW i \in DOMAIN roster, NEW j \in DOMAIN roster,
                      roster[i].species = roster[j].species
               PROVE  i = j
    BY DEF Unique
  <2>1. CASE i \in DOMAIN members /\ j \in DOMAIN members
    BY <1>3, <2>1 DEF Unique
  <2>2. CASE i \notin DOMAIN members /\ j \notin DOMAIN members
    <3>1. i - Len(members) = j - Len(members)
      BY <1>5, <2>2 DEF Unique
    <3> QED
      BY <1>1, <1>2, <3>1
  <2>3. CASE i \in DOMAIN members /\ j \notin DOMAIN members
    BY <1>3, <1>5, <2>3 DEF Apart
  <2>4. CASE i \notin DOMAIN members /\ j \in DOMAIN members
    BY <1>3, <1>5, <2>4 DEF Apart
  <2> QED
    BY <2>1, <2>2, <2>3, <2>4
<1>8. \A s : Owned(roster, s) <=> Owned(members, s) \/ Owned(stored, s)
  BY <1>3, <1>4, <1>5 DEF Owned
<1> QED
  BY <1>6, <1>7, <1>8 DEF roster

\* Who is there after a newcomer has entered: the newcomer, and those of before
\* at places of their own.
LEMMA EntersFrom ==
    ASSUME NEW old \in Seq(Monsters), NEW new, NEW w \in 0 .. Len(old), NEW mon,
           Enters(old, new, w, mon)
    PROVE  LET from(i) == IF w = 0 \/ i < w THEN i ELSE i + 1 IN
           /\ DOMAIN new = 1 .. Len(new) /\ Len(new) \in Nat \ {0}
           /\ DOMAIN old = 1 .. Len(old)
           /\ new[Len(new)] = mon
           /\ \A i \in DOMAIN new \ {Len(new)} :
                 from(i) \in DOMAIN old /\ new[i] = old[from(i)]
           /\ \A i, j \in DOMAIN new \ {Len(new)} : from(i) = from(j) => i = j
<1>1. /\ DOMAIN new = 1 .. Len(new) /\ Len(new) \in Nat
      /\ DOMAIN old = 1 .. Len(old) /\ Len(old) \in Nat
  BY LenProperties DEF Enters
<1> QED
  BY <1>1 DEF Enters

\* A newcomer of a species not there before makes no duplicate.
LEMMA EntersUnique ==
    ASSUME NEW old \in Seq(Monsters), NEW new, NEW w \in 0 .. Len(old), NEW mon,
           Enters(old, new, w, mon), Unique(old), ~Owned(old, mon.species)
    PROVE  /\ Unique(new)
           /\ \A s : Owned(new, s) => s = mon.species \/ Owned(old, s)
           /\ Owned(new, mon.species)
<1> DEFINE from(i) == IF w = 0 \/ i < w THEN i ELSE i + 1
<1>1. /\ DOMAIN new = 1 .. Len(new) /\ Len(new) \in Nat \ {0}
      /\ new[Len(new)] = mon
      /\ \A i \in DOMAIN new \ {Len(new)} :
            from(i) \in DOMAIN old /\ new[i] = old[from(i)]
      /\ \A i, j \in DOMAIN new \ {Len(new)} : from(i) = from(j) => i = j
  BY EntersFrom
<1> HIDE DEF from
<1>2. Len(new) \in DOMAIN new
  BY <1>1
<1> QED
  BY <1>1, <1>2 DEF Unique, Owned

-----------------------------------------------------------------------------
\* The members of a type that are not rare.
Commons(members, type) ==
    {i \in OfType(members, type) : members[i].species \notin RareSpecies}

\* They are finitely many, as are all of the type.
LEMMA CommonsFinite ==
    ASSUME NEW members \in Seq(Monsters), NEW type
    PROVE  /\ IsFiniteSet(Commons(members, type)) /\ IsFiniteSet(OfType(members, type))
           /\ Cardinality(Commons(members, type)) <= Cardinality(OfType(members, type))
           /\ Cardinality(Commons(members, type)) \in Nat
           /\ Cardinality(OfType(members, type)) \in Nat
<1>1. IsFiniteSet(DOMAIN members)
  BY LenProperties, FS_Interval
<1>2. /\ OfType(members, type) \in SUBSET (DOMAIN members)
      /\ Commons(members, type) \in SUBSET OfType(members, type)
  BY DEF OfType, Commons
<1>3. IsFiniteSet(OfType(members, type))
  BY <1>1, <1>2, FS_Subset
<1> QED
  BY <1>2, <1>3, FS_Subset, FS_CardinalityType

\* A newcomer adds itself at most to those that count.
LEMMA EntersCommons ==
    ASSUME NEW old \in Seq(Monsters), NEW new, NEW w \in 0 .. Len(old), NEW mon,
           Enters(old, new, w, mon), NEW type
    PROVE  Cardinality(Commons(new, type)) <=
              Cardinality(Commons(old, type))
                + IF TypeOf[mon.species] = type /\ mon.species \notin RareSpecies THEN 1 ELSE 0
<1> DEFINE from(i) == IF w = 0 \/ i < w THEN i ELSE i + 1
           stayed == Commons(new, type) \ {Len(new)}
           f == [i \in stayed |-> from(i)]
<1>1. /\ DOMAIN new = 1 .. Len(new) /\ Len(new) \in Nat \ {0}
      /\ new[Len(new)] = mon
      /\ \A i \in DOMAIN new \ {Len(new)} :
            from(i) \in DOMAIN old /\ new[i] = old[from(i)]
      /\ \A i, j \in DOMAIN new \ {Len(new)} : from(i) = from(j) => i = j
  BY EntersFrom
<1> HIDE DEF from
<1>2. stayed \subseteq DOMAIN new \ {Len(new)}
  BY DEF Commons, OfType
<1>3. \A i \in stayed : from(i) \in Commons(old, type)
  BY <1>1, <1>2 DEF Commons, OfType
<1>4. f \in Injection(stayed, Commons(old, type))
  <2>1. f \in [stayed -> Commons(old, type)]
    BY <1>3
  <2>2. \A i, j \in stayed : f[i] = f[j] => i = j
    BY <1>1, <1>2
  <2> HIDE DEF f
  <2> QED
    BY <2>1, <2>2 DEF Injection, IsInjective
<1>5. IsFiniteSet(stayed) /\ Cardinality(stayed) <= Cardinality(Commons(old, type))
  <2> HIDE DEF f, stayed
  <2> QED
    BY <1>4, CommonsFinite, FS_Injection
<1>6. Cardinality(stayed) \in Nat /\ Cardinality(Commons(old, type)) \in Nat
  <2> HIDE DEF stayed
  <2> QED
    BY <1>5, CommonsFinite, FS_CardinalityType
<1>7. CASE TypeOf[mon.species] = type /\ mon.species \notin RareSpecies
  <2>1. Commons(new, type) = stayed \cup {Len(new)} /\ Len(new) \notin stayed
    BY <1>1, <1>7 DEF Commons, OfType
  <2> HIDE DEF stayed
  <2>2. Cardinality(stayed \cup {Len(new)}) = Cardinality(stayed) + 1
    BY <1>5, <2>1, FS_AddElement
  <2>3. Cardinality(Commons(new, type)) \in Nat
    BY CommonsFinite DEF Enters
  <2> QED
    BY <1>5, <1>6, <1>7, <2>1, <2>2, <2>3
<1>8. CASE ~(TypeOf[mon.species] = type /\ mon.species \notin RareSpecies)
  <2>1. Commons(new, type) = stayed
    BY <1>1, <1>8 DEF Commons, OfType
  <2> HIDE DEF stayed
  <2> QED
    BY <1>5, <1>6, <1>8, <2>1
<1> QED
  BY <1>7, <1>8

-----------------------------------------------------------------------------
\* A function on 1 .. n is a sequence of length n.
LEMMA TableIsSeq ==
    ASSUME NEW S, NEW n \in Nat, NEW f \in [1 .. n -> S]
    PROVE  f \in Seq(S) /\ Len(f) = n
<1>1. f \in Seq(S)
  BY SeqDef
<1>2. 1 .. n = 1 .. Len(f) /\ Len(f) \in Nat
  BY <1>1, LenProperties
<1> QED
  BY <1>1, <1>2

\* The same monster later: its hit points are any, its level is as it was or
\* higher, and then within the cap.
SameMonster(m, n) ==
    /\ n \in Monsters
    /\ n.species = m.species
    /\ m.level <= n.level
    /\ n.level = m.level \/ n.level <= MaxLevel

Carried(old, new) ==
    /\ new \in Seq(Monsters)
    /\ Len(new) = Len(old)
    /\ \A i \in 1 .. Len(old) : SameMonster(old[i], new[i])

\* Other hit points, the same monster.
LEMMA SameWithHP ==
    ASSUME NEW m \in Monsters, NEW h \in HP
    PROVE  [m EXCEPT !.hp = h] \in Monsters /\ SameMonster(m, [m EXCEPT !.hp = h])
  BY DEF SameMonster, Monsters

\* Experience makes no other monster of it.
LEMMA SameTrained ==
    ASSUME NEW m \in Monsters, NEW n \in Trained(m)
    PROVE  SameMonster(m, n)
<1>1. CASE n = m
  BY <1>1 DEF SameMonster, Monsters
<1>2. CASE n # m
  <2>1. PICK l \in m.level + 1 .. m.level + MaxGain, h \in m.hp .. Healthy :
           l <= MaxLevel /\ n = Raised(m, l, h)
    BY <1>2 DEF Trained
  <2>2. /\ m.level \in Nat \ {0} /\ m.hp \in HP /\ m.species \in Species
        /\ MaxGain \in Nat /\ MaxLevel \in Nat
    BY WorldAssumption DEF Monsters
  <2>3. l \in Nat \ {0} /\ h \in HP /\ m.level <= l
    BY <2>1, <2>2 DEF HP, Fainted, Healthy
  <2> QED
    BY <2>1, <2>2, <2>3 DEF Raised, SameMonster, Monsters
<1> QED
  BY <1>1, <1>2

\* The same monster through two changes.
LEMMA SameTransitive ==
    ASSUME NEW m \in Monsters, NEW n, NEW k, SameMonster(m, n), SameMonster(n, k)
    PROVE  SameMonster(m, k)
<1>1. m.level \in Nat /\ n.level \in Nat /\ k.level \in Nat /\ MaxLevel \in Nat
  BY WorldAssumption DEF SameMonster, Monsters
<1> QED
  BY <1>1 DEF SameMonster

\* Nor does a fight won.
LEMMA SameWinner ==
    ASSUME NEW m \in Monsters, NEW n \in Winner(m)
    PROVE  SameMonster(m, n)
<1>1. PICK h \in Low .. m.hp : n \in Trained([m EXCEPT !.hp = h])
  BY DEF Winner
<1>2. h \in HP
  BY DEF Monsters, HP, Low, Healthy, Fainted
<1> QED
  BY <1>1, <1>2, SameWithHP, SameTrained, SameTransitive

\* The party at any time, by position.
LEMMA PartyTable ==
    ASSUME TrainerTypeOK
    PROVE  /\ DOMAIN team = 1 .. Len(team) /\ Len(team) \in Nat
           /\ \A i \in 1 .. Len(team) : team[i] \in Monsters
  BY LenProperties, ElementOfSeq DEF TrainerTypeOK

\* A party given position by position is carried over.
LEMMA CarriedTable ==
    ASSUME TrainerTypeOK, NEW new, NEW S, new \in [DOMAIN team -> S],
           \A i \in DOMAIN team : SameMonster(team[i], new[i])
    PROVE  Carried(team, new)
<1>1. new \in [1 .. Len(team) -> Monsters]
  BY PartyTable DEF SameMonster
<1> QED
  BY <1>1, PartyTable, TableIsSeq DEF Carried

\* A party left alone is carried over.
LEMMA CarriedSelf == ASSUME TrainerTypeOK PROVE Carried(team, team)
<1>1. \A i \in 1 .. Len(team) : SameMonster(team[i], team[i])
  BY PartyTable DEF SameMonster, Monsters
<1> QED
  BY <1>1 DEF Carried, TrainerTypeOK

\* So is a party healed at the Center.
LEMMA CarriedHealed == ASSUME TrainerTypeOK PROVE Carried(team, Healed(team))
<1>1. Healthy \in HP
  BY DEF HP, Healthy, Fainted
<1>2. \A i \in DOMAIN team : SameMonster(team[i], Healed(team)[i])
  BY <1>1, PartyTable, SameWithHP DEF Healed
<1>3. Healed(team) \in [DOMAIN team -> {Healed(team)[i] : i \in DOMAIN team}]
  BY DEF Healed
<1> QED
  BY <1>2, <1>3, CarriedTable

\* One member replaced by what it has become.
LEMMA CarriedOne ==
    ASSUME TrainerTypeOK, NEW i \in DOMAIN team, NEW n, SameMonster(team[i], n)
    PROVE  Carried(team, [team EXCEPT ![i] = n])
<1> DEFINE new == [team EXCEPT ![i] = n]
<1>1. \A j \in DOMAIN team : SameMonster(team[j], team[j])
  BY PartyTable, CarriedSelf DEF Carried
<1>2. \A j \in DOMAIN team : new[j] = IF j = i THEN n ELSE team[j]
  BY PartyTable
<1>3. new \in [DOMAIN team -> {new[j] : j \in DOMAIN team}]
  BY PartyTable
<1> HIDE DEF new
<1>4. \A j \in DOMAIN team : SameMonster(team[j], new[j])
  BY <1>1, <1>2
<1> QED
  BY <1>3, <1>4, CarriedTable DEF new

\* While a member stands there is a first one that does.
LEMMA FighterStands ==
    ASSUME TrainerTypeOK, Alive # {}
    PROVE  Fighter \in Alive /\ Fighter \in DOMAIN team
<1>1. Alive \subseteq Nat /\ Alive \subseteq DOMAIN team
  BY PartyTable DEF Alive
<1>2. \E i \in Alive : \A j \in Alive : i <= j
  BY <1>1, LeastNat
<1> QED
  BY <1>1, <1>2 DEF Fighter

\* Who hunts has a fighter: healing comes first.
LEMMA HuntersFighter ==
    ASSUME TrainerTypeOK, Hunts
    PROVE  Fighter \in DOMAIN team
  BY FighterStands DEF Hunts, NeedsHeal

\* Whatever the route sends is a monster.
LEMMA WildsAreMonsters == TrainerTypeOK => Wilds \subseteq Monsters
<1> SUFFICES ASSUME TrainerTypeOK, NEW wild \in Wilds PROVE wild \in Monsters
  OBVIOUS
<1>1. /\ location \in Towns
      /\ WildPool[location] \subseteq Species /\ RarePool[location] \subseteq Species
      /\ RouteMin[location] \in Nat \ {0} /\ RouteMax[location] \in Nat \ {0}
      /\ RareBonus \subseteq Nat /\ Healthy \in HP
  BY WorldAssumption DEF TrainerTypeOK, HP, Healthy, Fainted
<1>2. CASE wild \in [species : WildPool[location],
                     level : RouteMin[location] .. RouteMax[location], hp : {Healthy}]
  <2>1. RouteMin[location] .. RouteMax[location] \subseteq Nat \ {0}
    BY <1>1
  <2> QED
    BY <1>1, <1>2, <2>1 DEF Monsters
<1>3. CASE wild \in [species : RarePool[location],
                     level : {RouteMax[location] + b : b \in RareBonus}, hp : {Healthy}]
  <2>1. {RouteMax[location] + b : b \in RareBonus} \subseteq Nat \ {0}
    BY <1>1
  <2> QED
    BY <1>1, <1>3, <2>1 DEF Monsters
<1> QED
  BY <1>2, <1>3 DEF Wilds

-----------------------------------------------------------------------------
\* What a tick does to party and box: the members are carried over, and then
\* one wild monster may have been caught.
Catches(after, wild) ==
    /\ Hunts
    /\ wild \in Wilds
    /\ ShouldCatch(after, box, ball, strategy, wild)
    /\ team' = PlaceNewMonster(after, box, wild).team
    /\ box' = PlaceNewMonster(after, box, wild).box
    /\ ball' = ball - 1
    /\ totalCaught' = totalCaught + 1
    /\ UNCHANGED <<badges, location>>

CarriedOver == Carried(team, team') /\ UNCHANGED <<box, totalCaught>>

\* A gym won carries the party over: each member kept its place and species.
LEMMA WinGymCarries == ASSUME TrainerTypeOK, WinGym PROVE CarriedOver
<1> PICK standing \in Alive :
      LET After(i) ==
            CASE i \notin Alive -> {team[i]}
              [] i \in Alive /\ i < standing -> Trained([team[i] EXCEPT !.hp = Fainted])
              [] i = standing -> Winner(team[i])
              [] i \in Alive /\ i > standing -> Trained(team[i])
      IN  /\ team' \in {t \in [DOMAIN team -> UNION {After(i) : i \in DOMAIN team}] :
                          \A i \in DOMAIN team : t[i] \in After(i)}
          /\ UNCHANGED <<box, location, totalCaught, strategy, gymCooldown>>
  BY Zenon DEF WinGym
<1> DEFINE After(i) ==
             CASE i \notin Alive -> {team[i]}
               [] i \in Alive /\ i < standing -> Trained([team[i] EXCEPT !.hp = Fainted])
               [] i = standing -> Winner(team[i])
               [] i \in Alive /\ i > standing -> Trained(team[i])
<1>1. /\ team' \in [DOMAIN team -> UNION {After(i) : i \in DOMAIN team}]
      /\ \A i \in DOMAIN team : team'[i] \in After(i)
  OBVIOUS
<1>2. ASSUME NEW i \in DOMAIN team, NEW n \in After(i)
      PROVE  SameMonster(team[i], n)
  <2>1. team[i] \in Monsters /\ i \in Int /\ standing \in Int
    BY PartyTable DEF Alive
  <2>2. CASE i \notin Alive
    <3>1. n = team[i]
      BY <1>2, <2>2
    <3> QED
      BY <2>1, <3>1 DEF SameMonster, Monsters
  <2>3. CASE i \in Alive /\ i < standing
    <3>1. n \in Trained([team[i] EXCEPT !.hp = Fainted])
      BY <1>2, <2>1, <2>3
    <3>2. Fainted \in HP
      BY DEF HP, Fainted, Healthy
    <3> QED
      BY <2>1, <3>1, <3>2, SameWithHP, SameTrained, SameTransitive
  <2>4. CASE i = standing
    <3>1. n \in Winner(team[i])
      BY <1>2, <2>1, <2>4
    <3> QED
      BY <2>1, <3>1, SameWinner
  <2>5. CASE i \in Alive /\ i > standing
    <3>1. n \in Trained(team[i])
      BY <1>2, <2>1, <2>5
    <3> QED
      BY <2>1, <3>1, SameTrained
  <2> QED
    BY <2>1, <2>2, <2>3, <2>4, <2>5
<1> HIDE DEF After
<1>3. Carried(team, team')
  BY <1>1, <1>2, CarriedTable
<1> QED
  BY <1>3 DEF CarriedOver

\* So does a gym lost: everyone fainted.
LEMMA LoseGymCarries == ASSUME TrainerTypeOK, LoseGym PROVE CarriedOver
<1>1. Fainted \in HP
  BY DEF HP, Fainted, Healthy
<1>2. /\ team' = [i \in DOMAIN team |-> [team[i] EXCEPT !.hp = Fainted]]
      /\ UNCHANGED <<box, totalCaught>>
  BY DEF LoseGym
<1>3. /\ team' \in [DOMAIN team -> {team'[i] : i \in DOMAIN team}]
      /\ \A i \in DOMAIN team : SameMonster(team[i], team'[i])
  BY <1>1, <1>2, PartyTable, SameWithHP
<1> QED
  BY <1>2, <1>3, CarriedTable DEF CarriedOver

\* So does a battle lost.
LEMMA LoseBattleCarries ==
    ASSUME TrainerTypeOK, NEW wild \in Wilds, LoseBattle(wild)
    PROVE  CarriedOver
<1>1. Fighter \in DOMAIN team
  BY HuntersFighter DEF LoseBattle, HuntFrame
<1>2. PICK h \in Fainted .. team[Fighter].hp : team' = [team EXCEPT ![Fighter].hp = h]
  BY DEF LoseBattle
<1>3. team[Fighter] \in Monsters
  BY <1>1, PartyTable
<1>4. h \in HP
  BY <1>3 DEF Monsters, HP, Fainted, Healthy
<1>5. team' = [team EXCEPT ![Fighter] = [team[Fighter] EXCEPT !.hp = h]]
  BY <1>1, <1>2, PartyTable
<1>6. Carried(team, team')
  BY <1>1, <1>3, <1>4, <1>5, SameWithHP, CarriedOne
<1> QED
  BY <1>6 DEF CarriedOver, LoseBattle

\* A battle won carries the party over before the ball is thrown.
LEMMA WinBattleCarries ==
    ASSUME TrainerTypeOK, NEW wild \in Wilds, WinBattle(wild)
    PROVE  \/ CarriedOver
           \/ \E after : Carried(team, after) /\ Catches(after, wild)
<1>1. PICK m \in Winner(team[Fighter]) :
        LET after  == [team EXCEPT ![Fighter] = m]
            throws == ShouldCatch(after, box, ball, strategy, wild)
            placed == PlaceNewMonster(after, box, wild)
        IN  /\ HuntFrame
            /\ ball' = IF throws THEN ball - 1 ELSE ball
            /\ \/ team' = after /\ UNCHANGED <<box, totalCaught>>
               \/ /\ throws
                  /\ team' = placed.team /\ box' = placed.box
                  /\ totalCaught' = totalCaught + 1
  BY Zenon DEF WinBattle
<1> DEFINE after == [team EXCEPT ![Fighter] = m]
<1>2. Carried(team, after)
  <2>1. Fighter \in DOMAIN team
    BY <1>1, HuntersFighter DEF HuntFrame
  <2>2. SameMonster(team[Fighter], m)
    BY <2>1, PartyTable, SameWinner
  <2> QED
    BY <2>1, <2>2, CarriedOne
<1> HIDE DEF after
<1>3. /\ HuntFrame
      /\ ball' = IF ShouldCatch(after, box, ball, strategy, wild) THEN ball - 1 ELSE ball
      /\ \/ team' = after /\ UNCHANGED <<box, totalCaught>>
         \/ /\ ShouldCatch(after, box, ball, strategy, wild)
            /\ team' = PlaceNewMonster(after, box, wild).team
            /\ box' = PlaceNewMonster(after, box, wild).box
            /\ totalCaught' = totalCaught + 1
  BY <1>1 DEF after
<1>4. CASE team' = after /\ UNCHANGED <<box, totalCaught>>
  BY <1>2, <1>4 DEF CarriedOver
<1>5. CASE ~(team' = after /\ UNCHANGED <<box, totalCaught>>)
  BY <1>2, <1>3, <1>5, Zenon DEF Catches, HuntFrame
<1> QED
  BY <1>4, <1>5

\* A tick carries the party over, and a caught monster enters after that or
\* not at all.
LEMMA TickRoster ==
    ASSUME TrainerTypeOK, Tick
    PROVE  \/ CarriedOver
           \/ \E after, wild : Carried(team, after) /\ Catches(after, wild)
<1>1. CASE HealTick
  BY <1>1, CarriedHealed DEF HealTick, CarriedOver
<1>2. CASE WinGym
  BY <1>2, WinGymCarries
<1>3. CASE LoseGym
  BY <1>3, LoseGymCarries
<1>4. CASE MoveTick
  BY <1>4, CarriedHealed DEF MoveTick, CarriedOver
<1>5. CASE Search
  BY <1>5, CarriedSelf DEF Search, CarriedOver
<1>6. ASSUME NEW wild \in Wilds, LoseBattle(wild) PROVE CarriedOver
  BY <1>6, LoseBattleCarries
<1>7. ASSUME NEW wild \in Wilds, WinBattle(wild)
      PROVE  \/ CarriedOver
             \/ \E after : Carried(team, after) /\ Catches(after, wild)
  BY <1>7, WinBattleCarries
<1> QED
  BY <1>1, <1>2, <1>3, <1>4, <1>5, <1>6, <1>7 DEF Tick

-----------------------------------------------------------------------------
\* A carried party owns the species it owned, at the same places.
LEMMA CarriedSpecies ==
    ASSUME NEW old \in Seq(Monsters), NEW new, Carried(old, new)
    PROVE  /\ DOMAIN new = DOMAIN old
           /\ \A i \in DOMAIN old : new[i].species = old[i].species
           /\ \A s : Owned(new, s) <=> Owned(old, s)
           /\ Unique(new) <=> Unique(old)
           /\ \A type : Commons(new, type) = Commons(old, type)
<1>1. /\ DOMAIN new = DOMAIN old
      /\ \A i \in DOMAIN old : new[i].species = old[i].species
  BY LenProperties DEF Carried, SameMonster
<1>2. \A type : Commons(new, type) = Commons(old, type)
  BY <1>1 DEF Commons, OfType
<1> QED
  BY <1>1, <1>2 DEF Owned, Unique

\* The decision to catch and the placement agree: who is caught is of a new
\* species and does enter the party or the box.
LEMMA CatchEffect ==
    ASSUME PowerIsNat, TrainerTypeOK, NEW after, NEW wild,
           Carried(team, after), Catches(after, wild)
    PROVE  /\ wild \in Monsters /\ ball > 0
           /\ ~Owned(after, wild.species) /\ ~Owned(box, wild.species)
           /\ wild.species \notin RareSpecies =>
                 Cardinality(OfType(after, TypeOf[wild.species])) < SameTypeLimit
           /\ \/ \E w \in 0 .. Len(after) :
                    /\ Enters(after, team', w, wild) /\ box' = box
                    /\ IF w = 0 THEN Len(after) < PartySize
                                ELSE PowerOf(after[w]) < PowerOf(wild)
              \/ \E w \in 0 .. Len(box) :
                    /\ Enters(box, box', w, wild) /\ team' = after
                    /\ IF w = 0 THEN Len(box) < BoxSize
                                ELSE PowerOf(box[w]) < PowerOf(wild)
<1>1. wild \in Monsters
  BY WildsAreMonsters DEF Catches
<1>2. /\ after \in Seq(Monsters) /\ Len(after) \in 1 .. PartySize
      /\ box \in Seq(Monsters) /\ Len(box) <= BoxSize
  BY DEF Carried, TrainerTypeOK
<1>3. /\ ball > 0
      /\ ~Owned(after \o box, wild.species)
      /\ \/ RareOverride(strategy, wild)
         \/ TypeSlotOpen(after, TypeOf[wild.species])
      /\ Len(after \o box) < PartySize + BoxSize \/ IsUpgrade(after \o box, wild)
  BY DEF Catches, ShouldCatch
<1>4. ~Owned(after, wild.species) /\ ~Owned(box, wild.species)
  BY <1>2, <1>3, RosterSplit
<1>5. wild.species \notin RareSpecies =>
         Cardinality(OfType(after, TypeOf[wild.species])) < SameTypeLimit
  BY <1>3 DEF RareOverride, TypeSlotOpen
<1>6. ~(Len(after \o box) = PartySize + BoxSize /\ ~IsUpgrade(after \o box, wild))
  <2>1. Len(after \o box) \in Nat
    BY <1>2, ConcatProperties, LenProperties
  <2> QED
    BY <1>3, <2>1
<1>7. \/ \E w \in 0 .. Len(after) :
            /\ Enters(after, team', w, wild) /\ box' = box
            /\ IF w = 0 THEN Len(after) < PartySize
                        ELSE PowerOf(after[w]) < PowerOf(wild)
      \/ \E w \in 0 .. Len(box) :
            /\ Enters(box, box', w, wild) /\ team' = after
            /\ IF w = 0 THEN Len(box) < BoxSize
                        ELSE PowerOf(box[w]) < PowerOf(wild)
  <2>1. /\ team' = PlaceNewMonster(after, box, wild).team
        /\ box' = PlaceNewMonster(after, box, wild).box
    BY DEF Catches
  <2> QED
    BY <1>1, <1>2, <1>6, <2>1, Placement
<1> QED
  BY <1>1, <1>3, <1>4, <1>5, <1>7

-----------------------------------------------------------------------------
\* The roster keeps its shape.
LEMMA RosterShape ==
    ASSUME PowerIsNat, TrainerTypeOK, Tick
    PROVE  /\ team' \in Seq(Monsters) /\ Len(team') \in 1 .. PartySize
           /\ box' \in Seq(Monsters) /\ Len(box') <= BoxSize
           /\ totalCaught' \in Nat
<1>1. CASE CarriedOver
  BY <1>1 DEF CarriedOver, Carried, TrainerTypeOK
<1>2. ASSUME NEW after, NEW wild, Carried(team, after), Catches(after, wild)
      PROVE  /\ team' \in Seq(Monsters) /\ Len(team') \in 1 .. PartySize
             /\ box' \in Seq(Monsters) /\ Len(box') <= BoxSize
             /\ totalCaught' \in Nat
  <2>1. /\ after \in Seq(Monsters) /\ Len(after) \in 1 .. PartySize
        /\ box \in Seq(Monsters) /\ Len(box) <= BoxSize
        /\ PartySize \in Nat /\ BoxSize \in Nat /\ Len(box) \in Nat
        /\ totalCaught' \in Nat
    BY <1>2, LenProperties, RosterAssumption DEF Carried, TrainerTypeOK, Catches
  <2>2. ASSUME NEW w \in 0 .. Len(after), Enters(after, team', w, wild), box' = box,
               IF w = 0 THEN Len(after) < PartySize ELSE PowerOf(after[w]) < PowerOf(wild)
        PROVE  /\ team' \in Seq(Monsters) /\ Len(team') \in 1 .. PartySize
               /\ box' \in Seq(Monsters) /\ Len(box') <= BoxSize
    BY <2>1, <2>2 DEF Enters
  <2>3. ASSUME NEW w \in 0 .. Len(box), Enters(box, box', w, wild), team' = after,
               IF w = 0 THEN Len(box) < BoxSize ELSE PowerOf(box[w]) < PowerOf(wild)
        PROVE  /\ team' \in Seq(Monsters) /\ Len(team') \in 1 .. PartySize
               /\ box' \in Seq(Monsters) /\ Len(box') <= BoxSize
    BY <2>1, <2>3 DEF Enters
  <2> QED
    BY <1>2, <2>1, <2>2, <2>3, CatchEffect
<1> QED
  BY <1>1, <1>2, TickRoster

\* Badges and place through a tick.
LEMMA TickBadges ==
    ASSUME TrainerTypeOK, Tick
    PROVE  \/ badges' = badges /\ location' = location
           \/ /\ badges' = badges /\ location' = location + 1
              /\ HasBadge(location) /\ location' \in Towns
           \/ /\ badges' = Append(badges, location) /\ location' = location
              /\ ~HasBadge(location)
              /\ location > 1 => HasBadge(location - 1)
<1>1. CASE HealTick
  BY <1>1 DEF HealTick
<1>2. CASE WinGym
  <2>1. badges' = Append(badges, location) /\ location' = location /\ ChallengesGym
    BY <1>2, Zenon DEF WinGym
  <2> QED
    BY <2>1 DEF ChallengesGym, GymUnbeaten
<1>3. CASE LoseGym
  BY <1>3 DEF LoseGym
<1>4. CASE MoveTick
  <2>1. /\ badges' = badges /\ location' = location + 1
        /\ HasBadge(location) /\ location < LastTown
    BY <1>4 DEF MoveTick, Moves
  <2>2. location' \in Towns
    BY <2>1, WorldAssumption DEF TrainerTypeOK, Towns
  <2> QED
    BY <2>1, <2>2
<1>5. CASE Search
  BY <1>5 DEF Search, HuntFrame
<1>6. ASSUME NEW wild \in Wilds, LoseBattle(wild) \/ WinBattle(wild)
      PROVE  badges' = badges /\ location' = location
  BY <1>6, Zenon DEF LoseBattle, WinBattle, HuntFrame
<1> QED
  BY <1>1, <1>2, <1>3, <1>4, <1>5, <1>6 DEF Tick

\* Balls through a tick: some for a badge, one for a throw.
LEMMA TickBalls ==
    ASSUME TrainerTypeOK, Tick
    PROVE  /\ ball' \in Nat
           /\ \/ badges' = Append(badges, location) /\ ball' = ball + BallsPerBadge
              \/ badges' = badges /\ ball' <= ball
           /\ strategy' = strategy
           /\ gymCooldown' \in 0 .. GymCooldown
<1>1. /\ ball \in Nat /\ gymCooldown \in 0 .. GymCooldown
      /\ BallsPerBadge \in Nat /\ GymCooldown \in Nat
  BY WorldAssumption DEF TrainerTypeOK
<1>2. HuntFrame => /\ badges' = badges /\ strategy' = strategy
                   /\ gymCooldown' \in 0 .. GymCooldown
  BY <1>1 DEF HuntFrame, CoolsDown
<1>3. CASE HealTick
  BY <1>1, <1>3 DEF HealTick
<1>4. CASE WinGym
  <2>1. /\ badges' = Append(badges, location) /\ ball' = ball + BallsPerBadge
        /\ strategy' = strategy /\ gymCooldown' = gymCooldown
    BY <1>4, Zenon DEF WinGym
  <2> QED
    BY <1>1, <2>1
<1>5. CASE LoseGym
  BY <1>1, <1>5 DEF LoseGym
<1>6. CASE MoveTick
  BY <1>1, <1>6 DEF MoveTick
<1>7. CASE Search
  BY <1>1, <1>2, <1>7 DEF Search
<1>8. ASSUME NEW wild \in Wilds, LoseBattle(wild)
      PROVE  HuntFrame /\ ball' = ball
  BY <1>8 DEF LoseBattle
<1>9. ASSUME NEW wild \in Wilds, WinBattle(wild)
      PROVE  HuntFrame /\ ball' \in Nat /\ ball' <= ball
  <2>1. PICK m \in Winner(team[Fighter]) :
          LET throws == ShouldCatch([team EXCEPT ![Fighter] = m], box, ball, strategy, wild)
          IN  HuntFrame /\ ball' = IF throws THEN ball - 1 ELSE ball
    BY <1>9, Zenon DEF WinBattle
  <2> DEFINE throws == ShouldCatch([team EXCEPT ![Fighter] = m], box, ball, strategy, wild)
  <2>2. throws => ball > 0
    BY DEF ShouldCatch
  <2>3. HuntFrame /\ ball' = IF throws THEN ball - 1 ELSE ball
    BY <2>1
  <2> HIDE DEF throws
  <2> QED
    BY <1>1, <2>2, <2>3
<1> QED
  BY <1>1, <1>2, <1>3, <1>4, <1>5, <1>6, <1>7, <1>8, <1>9 DEF Tick

-----------------------------------------------------------------------------
\* A new trainer has its shape: one starter, an empty box.
LEMMA TypeInit == TrainerInit => TrainerTypeOK
<1> SUFFICES ASSUME TrainerInit PROVE TrainerTypeOK
  OBVIOUS
<1>1. PICK m \in Starters : team = <<m>>
  BY DEF TrainerInit
<1>2. m \in Monsters /\ PartySize \in Nat \ {0} /\ BoxSize \in Nat /\ GymCooldown \in Nat
  BY WorldAssumption, RosterAssumption
<1>3. team \in Seq(Monsters) /\ Len(team) = 1
  BY <1>1, <1>2
<1> QED
  BY <1>2, <1>3, WorldAssumption DEF TrainerInit, TrainerTypeOK

\* A tick keeps the shape.
LEMMA TypeStep ==
    ASSUME PowerIsNat, TrainerTypeOK, Tick
    PROVE  TrainerTypeOK'
<1>1. badges' \in Seq(Towns) /\ location' \in Towns
  <2>1. badges \in Seq(Towns) /\ location \in Towns
    BY DEF TrainerTypeOK
  <2>2. Append(badges, location) \in Seq(Towns)
    BY <2>1, AppendProperties
  <2> QED
    BY <2>1, <2>2, TickBadges
<1>2. strategy' \in StrategyType
  BY TickBalls DEF TrainerTypeOK
<1> QED
  BY <1>1, <1>2, RosterShape, TickBalls DEF TrainerTypeOK

\* The trainer keeps its shape: at least one and at most PartySize in the party,
\* at most BoxSize in the box, every counter in its range.
THEOREM TrainerTypeCorrect == ASSUME PowerIsNat PROVE TrainerSpec => []TrainerTypeOK
<1>1. TrainerTypeOK /\ [Tick]_trainerVars => TrainerTypeOK'
  BY TypeStep DEF TrainerTypeOK, trainerVars
<1> QED
  BY <1>1, TypeInit, PTL DEF TrainerSpec

-----------------------------------------------------------------------------
\* A tick keeps the order of badges and towns.
LEMMA BadgesStep ==
    ASSUME TrainerTypeOK, BadgesInOrder, Tick
    PROVE  BadgesInOrder'
<1>1. /\ badges \in Seq(Towns) /\ DOMAIN badges = 1 .. Len(badges) /\ Len(badges) \in Nat
      /\ location \in Nat \ {0}
      /\ \A i \in 1 .. Len(badges) : badges[i] = i
      /\ location \in StartTowns \/ location <= Len(badges) + 1
  BY LenProperties DEF TrainerTypeOK, Towns, BadgesInOrder
<1>2. \A town : HasBadge(town) <=> town \in 1 .. Len(badges)
  BY <1>1 DEF HasBadge, Range
<1>3. CASE badges' = badges /\ location' = location
  BY <1>3 DEF BadgesInOrder
<1>4. CASE badges' = badges /\ location' = location + 1 /\ HasBadge(location)
  <2>1. location + 1 <= Len(badges) + 1
    BY <1>1, <1>2, <1>4
  <2> QED
    BY <1>1, <1>4, <2>1 DEF BadgesInOrder
<1>5. CASE /\ badges' = Append(badges, location) /\ location' = location
           /\ ~HasBadge(location)
           /\ location > 1 => HasBadge(location - 1)
  <2>1. location = Len(badges) + 1
    BY <1>1, <1>2, <1>5
  <2>2. /\ Len(badges') = Len(badges) + 1 /\ badges' \in Seq(Towns)
        /\ \A i \in 1 .. Len(badges) : badges'[i] = badges[i]
        /\ badges'[Len(badges) + 1] = location
    BY <1>1, <1>5, AppendProperties DEF TrainerTypeOK
  <2>3. DOMAIN badges' = 1 .. Len(badges) + 1
    BY <2>2, LenProperties
  <2> QED
    BY <1>1, <1>5, <2>1, <2>2, <2>3 DEF BadgesInOrder
<1> QED
  BY <1>3, <1>4, <1>5, TickBadges

\* No badges yet, and a town to start in.
LEMMA BadgesInit == TrainerInit => BadgesInOrder
  BY DEF TrainerInit, BadgesInOrder

(***************************************************************************)
(* The badges are those of towns 1, 2, 3, ... in this order, and the       *)
(* trainer never stands further than the town after its last badge:        *)
(* challengeGym asks for the badge before, and moving on asks for this     *)
(* town's (src/engine.ts).                                                 *)
(***************************************************************************)
THEOREM GymsInOrder == ASSUME PowerIsNat PROVE TrainerSpec => []BadgesInOrder
<1>1. TrainerTypeOK /\ BadgesInOrder /\ [Tick]_trainerVars => BadgesInOrder'
  BY BadgesStep DEF BadgesInOrder, trainerVars
<1> QED
  BY <1>1, BadgesInit, TrainerTypeCorrect, PTL DEF TrainerSpec

-----------------------------------------------------------------------------
\* The balls given for n badges.
LEMMA BallsGiven ==
    ASSUME NEW n \in Nat
    PROVE  /\ BallsPerBadge * n \in Nat
           /\ BallsPerBadge * (n + 1) = BallsPerBadge * n + BallsPerBadge
  BY WorldAssumption

\* A tick never leaves more balls and catches than balls given.
LEMMA BallsStep ==
    ASSUME TrainerTypeOK, BallsAccounted, Tick
    PROVE  BallsAccounted'
<1>1. /\ ball \in Nat /\ totalCaught \in Nat /\ Len(badges) \in Nat /\ badges \in Seq(Towns)
      /\ InitialBalls \in Nat /\ BallsPerBadge \in Nat /\ location \in Towns
      /\ ball + totalCaught <= InitialBalls + BallsPerBadge * Len(badges)
  BY LenProperties, WorldAssumption DEF TrainerTypeOK, BallsAccounted
<1>2. ball' \in Nat
  BY TickBalls
<1>3. CASE UNCHANGED totalCaught
  <2>1. CASE badges' = Append(badges, location) /\ ball' = ball + BallsPerBadge
    <3>1. Len(badges') = Len(badges) + 1
      BY <1>1, <2>1, AppendProperties
    <3>2. /\ BallsPerBadge * Len(badges') = BallsPerBadge * Len(badges) + BallsPerBadge
          /\ BallsPerBadge * Len(badges) \in Nat
      BY <1>1, <3>1, BallsGiven
    <3> QED
      BY <1>1, <1>2, <1>3, <2>1, <3>2 DEF BallsAccounted
  <2>2. CASE badges' = badges /\ ball' <= ball
    <3>1. BallsPerBadge * Len(badges) \in Nat
      BY <1>1, BallsGiven
    <3> QED
      BY <1>1, <1>2, <1>3, <2>2, <3>1 DEF BallsAccounted
  <2> QED
    BY <2>1, <2>2, TickBalls
<1>4. ASSUME NEW after, NEW wild, Catches(after, wild) PROVE BallsAccounted'
  <2>1. /\ ball' = ball - 1 /\ totalCaught' = totalCaught + 1 /\ badges' = badges
        /\ BallsPerBadge * Len(badges) \in Nat
    BY <1>1, <1>4, BallsGiven DEF Catches
  <2> QED
    BY <1>1, <1>2, <2>1 DEF BallsAccounted
<1> QED
  BY <1>3, <1>4, TickRoster DEF CarriedOver

\* The balls a trainer starts with are those given for no badge.
LEMMA BallsInit == TrainerInit => BallsAccounted
<1> SUFFICES ASSUME TrainerInit PROVE BallsAccounted
  OBVIOUS
<1>1. /\ ball = InitialBalls /\ totalCaught = 0 /\ Len(badges) = 0
      /\ InitialBalls \in Nat /\ BallsPerBadge * 0 = 0
  BY WorldAssumption DEF TrainerInit
<1> QED
  BY <1>1 DEF BallsAccounted

(***************************************************************************)
(* Balls left and monsters caught never exceed the balls given at the      *)
(* start and with the badges: every catch took one out of the bag, across  *)
(* ticks that win gyms, throw and miss in any order.                       *)
(***************************************************************************)
THEOREM EveryCatchCostABall == ASSUME PowerIsNat PROVE TrainerSpec => []BallsAccounted
<1>1. TrainerTypeOK /\ BallsAccounted /\ [Tick]_trainerVars => BallsAccounted'
  BY BallsStep DEF BallsAccounted, trainerVars
<1> QED
  BY <1>1, BallsInit, TrainerTypeCorrect, PTL DEF TrainerSpec

-----------------------------------------------------------------------------
\* NoDuplicateSpecies, party and box apart.
LEMMA NoDuplicateSplit ==
    ASSUME TrainerTypeOK
    PROVE  NoDuplicateSpecies <=> Unique(team) /\ Unique(box) /\ Apart(team, box)
<1>1. NoDuplicateSpecies <=> Unique(team \o box)
  BY DEF NoDuplicateSpecies, Unique
<1> QED
  BY <1>1, RosterSplit DEF TrainerTypeOK

\* Two rosters share no species when none is owned by both.
LEMMA ApartOwned ==
    ASSUME NEW members, NEW stored
    PROVE  Apart(members, stored) <=> \A s : ~(Owned(members, s) /\ Owned(stored, s))
  BY DEF Apart, Owned

\* A tick that adds a monster adds one of a species owned nowhere before.
LEMMA NoDuplicateStep ==
    ASSUME PowerIsNat, TrainerTypeOK, TrainerTypeOK', NoDuplicateSpecies, Tick
    PROVE  NoDuplicateSpecies'
<1>1. Unique(team) /\ Unique(box) /\ Apart(team, box)
  BY NoDuplicateSplit
<1>2. NoDuplicateSpecies' <=> Unique(team') /\ Unique(box') /\ Apart(team', box')
  <2>1. NoDuplicateSpecies' <=> Unique(team' \o box')
    BY DEF NoDuplicateSpecies, Unique
  <2> QED
    BY <2>1, RosterSplit DEF TrainerTypeOK
<1>3. CASE CarriedOver
  <2>1. Unique(team') /\ box' = box /\ \A s : Owned(team', s) <=> Owned(team, s)
    BY <1>1, <1>3, CarriedSpecies DEF CarriedOver, TrainerTypeOK
  <2> QED
    BY <1>1, <1>2, <2>1, ApartOwned
<1>4. ASSUME NEW after, NEW wild, Carried(team, after), Catches(after, wild)
      PROVE  NoDuplicateSpecies'
  <2>1. /\ Unique(after) /\ after \in Seq(Monsters) /\ box \in Seq(Monsters)
        /\ \A s : Owned(after, s) <=> Owned(team, s)
    BY <1>1, <1>4, CarriedSpecies DEF Carried, TrainerTypeOK
  <2>2. Apart(after, box)
    BY <1>1, <2>1, ApartOwned
  <2>3. ~Owned(after, wild.species) /\ ~Owned(box, wild.species)
    BY <1>4, CatchEffect
  <2>4. ASSUME NEW w \in 0 .. Len(after), Enters(after, team', w, wild), box' = box
        PROVE  NoDuplicateSpecies'
    <3>1. /\ Unique(team')
          /\ \A s : Owned(team', s) => s = wild.species \/ Owned(after, s)
      BY <2>1, <2>3, <2>4, EntersUnique
    <3> QED
      BY <1>1, <1>2, <2>2, <2>3, <2>4, <3>1, ApartOwned
  <2>5. ASSUME NEW w \in 0 .. Len(box), Enters(box, box', w, wild), team' = after
        PROVE  NoDuplicateSpecies'
    <3>1. /\ Unique(box')
          /\ \A s : Owned(box', s) => s = wild.species \/ Owned(box, s)
      BY <1>1, <2>1, <2>3, <2>5, EntersUnique
    <3> QED
      BY <1>2, <2>1, <2>2, <2>3, <2>5, <3>1, ApartOwned
  <2> QED
    BY <1>4, <2>4, <2>5, CatchEffect
<1> QED
  BY <1>3, <1>4, TickRoster

\* One starter, no duplicate.
LEMMA NoDuplicateInit == TrainerInit => NoDuplicateSpecies
<1> SUFFICES ASSUME TrainerInit PROVE NoDuplicateSpecies
  OBVIOUS
<1>1. PICK m \in Starters : team = <<m>> /\ box = <<>>
  BY DEF TrainerInit
<1>2. team \o box = <<m>> /\ DOMAIN <<m>> = {1}
  BY <1>1, WorldAssumption, ConcatEmptySeq
<1> QED
  BY <1>2 DEF NoDuplicateSpecies

(***************************************************************************)
(* No species is owned twice, in the party, in the box or across the two.  *)
(* The decision to catch reads the roster before the fight and the monster *)
(* enters after it; no step between the two can make it stale.             *)
(***************************************************************************)
THEOREM SpeciesOwnedOnce == ASSUME PowerIsNat PROVE TrainerSpec => []NoDuplicateSpecies
<1>1. /\ TrainerTypeOK /\ TrainerTypeOK' /\ NoDuplicateSpecies /\ [Tick]_trainerVars
      => NoDuplicateSpecies'
  BY NoDuplicateStep DEF NoDuplicateSpecies, trainerVars
<1> QED
  BY <1>1, NoDuplicateInit, TrainerTypeCorrect, PTL DEF TrainerSpec

-----------------------------------------------------------------------------
\* A newcomer that is not rare was let in by the type rule.
LEMMA TypeSlotsStep ==
    ASSUME PowerIsNat, TrainerTypeOK, TypeSlotsKept, Tick
    PROVE  TypeSlotsKept'
<1> DEFINE limit == IF SameTypeLimit = 0 THEN 1 ELSE SameTypeLimit
<1>1. \A type \in Types : Cardinality(Commons(team, type)) <= limit
  BY DEF TypeSlotsKept, Commons
<1>2. TypeSlotsKept' <=> \A type \in Types : Cardinality(Commons(team', type)) <= limit
  BY DEF TypeSlotsKept, Commons
<1>3. SameTypeLimit \in Nat /\ limit \in Nat /\ SameTypeLimit <= limit
  BY RosterAssumption
<1> HIDE DEF limit
<1>4. CASE CarriedOver
  <2>1. \A type : Commons(team', type) = Commons(team, type)
    BY <1>4, CarriedSpecies DEF CarriedOver, TrainerTypeOK
  <2> QED
    BY <1>1, <1>2, <2>1
<1>5. ASSUME NEW after, NEW wild, Carried(team, after), Catches(after, wild)
      PROVE  TypeSlotsKept'
  <2>1. /\ after \in Seq(Monsters)
        /\ \A type : Commons(after, type) = Commons(team, type)
    BY <1>5, CarriedSpecies DEF Carried, TrainerTypeOK
  <2>2. ASSUME NEW w \in 0 .. Len(after), Enters(after, team', w, wild), NEW type \in Types
        PROVE  Cardinality(Commons(team', type)) <= limit
    <3>1. /\ Cardinality(Commons(after, type)) <= limit
          /\ Cardinality(Commons(after, type)) \in Nat
          /\ Cardinality(OfType(after, type)) \in Nat
          /\ Cardinality(Commons(after, type)) <= Cardinality(OfType(after, type))
      BY <1>1, <2>1, CommonsFinite
    <3>2. Cardinality(Commons(team', type)) \in Nat
      BY <2>2, CommonsFinite DEF Enters
    <3>3. CASE TypeOf[wild.species] = type /\ wild.species \notin RareSpecies
      <4>1. Cardinality(OfType(after, type)) < SameTypeLimit
        BY <1>5, <3>3, CatchEffect
      <4>2. Cardinality(Commons(team', type)) <= Cardinality(Commons(after, type)) + 1
        BY <2>1, <2>2, <3>3, EntersCommons
      <4> QED
        BY <1>3, <3>1, <3>2, <4>1, <4>2
    <3>4. CASE ~(TypeOf[wild.species] = type /\ wild.species \notin RareSpecies)
      <4>1. Cardinality(Commons(team', type)) <= Cardinality(Commons(after, type)) + 0
        BY <2>1, <2>2, <3>4, EntersCommons
      <4> QED
        BY <1>3, <3>1, <3>2, <4>1
    <3> QED
      BY <3>3, <3>4
  <2>3. CASE team' = after
    BY <1>1, <1>2, <2>1, <2>3
  <2> QED
    BY <1>2, <1>5, <2>2, <2>3, CatchEffect
<1> QED
  BY <1>4, <1>5, TickRoster

\* One starter fits the limit of its type.
LEMMA TypeSlotsInit == TrainerInit => TypeSlotsKept
<1> SUFFICES ASSUME TrainerInit, NEW type \in Types
             PROVE  Cardinality(Commons(team, type))
                       <= IF SameTypeLimit = 0 THEN 1 ELSE SameTypeLimit
  BY DEF TypeSlotsKept, Commons
<1>1. PICK m \in Starters : team = <<m>>
  BY DEF TrainerInit
<1>2. Commons(team, type) \in SUBSET {1}
  BY <1>1 DEF Commons, OfType
<1>3. Cardinality(Commons(team, type)) <= 1 /\ Cardinality(Commons(team, type)) \in Nat
  <2>1. IsFiniteSet({1}) /\ Cardinality({1}) = 1
    BY FS_Singleton
  <2> QED
    BY <1>2, <2>1, FS_Subset, FS_CardinalityType
<1> QED
  BY <1>3, RosterAssumption

(***************************************************************************)
(* Common monsters of one type never take more party slots than the type   *)
(* rule allows, however members are placed, released and replaced; rares   *)
(* pass it by.                                                             *)
(***************************************************************************)
THEOREM TypeSlotsAreKept == ASSUME PowerIsNat PROVE TrainerSpec => []TypeSlotsKept
<1>1. TrainerTypeOK /\ TypeSlotsKept /\ [Tick]_trainerVars => TypeSlotsKept'
  BY TypeSlotsStep DEF TypeSlotsKept, trainerVars
<1> QED
  BY <1>1, TypeSlotsInit, TrainerTypeCorrect, PTL DEF TrainerSpec

-----------------------------------------------------------------------------
\* The rule OnlyRaresPassTheCap asks of each member.
MayBeAboveCap(m) == m.level > MaxLevel => m.species \in RareSpecies

\* The members above the cap, in party and box apart.
LEMMA CapSplit ==
    ASSUME NEW members \in Seq(Monsters), NEW stored \in Seq(Monsters)
    PROVE  (\A i \in DOMAIN (members \o stored) : MayBeAboveCap((members \o stored)[i])) <=>
              /\ \A i \in 1 .. Len(members) : MayBeAboveCap(members[i])
              /\ \A i \in 1 .. Len(stored) : MayBeAboveCap(stored[i])
<1> DEFINE roster == members \o stored
<1>1. /\ DOMAIN roster = 1 .. Len(members) + Len(stored)
      /\ \A i \in 1 .. Len(members) + Len(stored) :
            roster[i] = IF i <= Len(members) THEN members[i] ELSE stored[i - Len(members)]
      /\ Len(members) \in Nat /\ Len(stored) \in Nat
  BY ConcatProperties, LenProperties
<1> HIDE DEF roster
<1>2. /\ \A i \in 1 .. Len(members) : i \in DOMAIN roster /\ roster[i] = members[i]
      /\ \A j \in 1 .. Len(stored) :
            j + Len(members) \in DOMAIN roster /\ roster[j + Len(members)] = stored[j]
      /\ \A i \in DOMAIN roster :
            \/ i \in 1 .. Len(members)
            \/ i - Len(members) \in 1 .. Len(stored) /\ roster[i] = stored[i - Len(members)]
  BY <1>1
<1>3. (\A i \in DOMAIN roster : MayBeAboveCap(roster[i])) <=>
              /\ \A i \in 1 .. Len(members) : MayBeAboveCap(members[i])
              /\ \A i \in 1 .. Len(stored) : MayBeAboveCap(stored[i])
  BY <1>2
<1> QED
  BY <1>3 DEF roster

\* A wild met above the cap is rare.
LEMMA CapOfWild ==
    ASSUME OnlyRaresMetAboveCap, TrainerTypeOK, NEW wild \in Wilds
    PROVE  MayBeAboveCap(wild)
<1>1. /\ location \in Towns /\ MaxLevel \in Nat /\ RareBonus \subseteq Nat
      /\ RouteMin[location] \in Nat /\ RouteMax[location] \in Nat
  BY WorldAssumption DEF TrainerTypeOK
<1>2. CASE wild \in [species : WildPool[location],
                     level : RouteMin[location] .. RouteMax[location], hp : {Healthy}]
  <2>1. /\ wild.species \in WildPool[location]
        /\ wild.level \in RouteMin[location] .. RouteMax[location]
    BY <1>2
  <2> QED
    BY <1>1, <2>1 DEF OnlyRaresMetAboveCap, MayBeAboveCap
<1>3. CASE wild \in [species : RarePool[location],
                     level : {RouteMax[location] + b : b \in RareBonus}, hp : {Healthy}]
  <2>1. /\ wild.species \in RarePool[location]
        /\ wild.level \in {RouteMax[location] + b : b \in RareBonus}
    BY <1>3
  <2> QED
    BY <1>1, <2>1 DEF OnlyRaresMetAboveCap, MayBeAboveCap
<1> QED
  BY <1>2, <1>3 DEF Wilds

\* A newcomer under this rule leaves the rest under it.
LEMMA CapOfEntered ==
    ASSUME NEW old \in Seq(Monsters), NEW new, NEW w \in 0 .. Len(old), NEW mon,
           Enters(old, new, w, mon), MayBeAboveCap(mon),
           \A i \in 1 .. Len(old) : MayBeAboveCap(old[i])
    PROVE  \A i \in 1 .. Len(new) : MayBeAboveCap(new[i])
<1>1. /\ Len(new) \in Nat /\ Len(old) \in Nat /\ new[Len(new)] = mon
      /\ Len(new) = IF w = 0 THEN Len(old) + 1 ELSE Len(old)
      /\ \A i \in 1 .. Len(new) - 1 : new[i] = old[IF w = 0 \/ i < w THEN i ELSE i + 1]
  BY LenProperties DEF Enters
<1> QED
  BY <1>1

\* Training stops at the cap and newcomers above it are rare.
LEMMA CapStep ==
    ASSUME PowerIsNat, OnlyRaresMetAboveCap,
           TrainerTypeOK, TrainerTypeOK', OnlyRaresPassTheCap, Tick
    PROVE  OnlyRaresPassTheCap'
<1> DEFINE Capped(members) == \A i \in 1 .. Len(members) : MayBeAboveCap(members[i])
<1>1. Capped(team) /\ Capped(box)
  BY CapSplit DEF OnlyRaresPassTheCap, MayBeAboveCap, TrainerTypeOK
<1>2. Capped(team') /\ Capped(box') => OnlyRaresPassTheCap'
  <2>1. team' \in Seq(Monsters) /\ box' \in Seq(Monsters)
    BY DEF TrainerTypeOK
  <2> QED
    BY <2>1, CapSplit DEF OnlyRaresPassTheCap, MayBeAboveCap
<1>3. ASSUME NEW new, Carried(team, new) PROVE Capped(new)
  <2> SUFFICES ASSUME NEW i \in 1 .. Len(new) PROVE MayBeAboveCap(new[i])
    OBVIOUS
  <2>1. SameMonster(team[i], new[i]) /\ MayBeAboveCap(team[i]) /\ team[i] \in Monsters
    BY <1>1, <1>3, PartyTable DEF Carried
  <2>2. new[i].level \in Nat /\ MaxLevel \in Nat
    BY <2>1, WorldAssumption DEF SameMonster, Monsters
  <2> QED
    BY <2>1, <2>2 DEF SameMonster, MayBeAboveCap
<1>4. CASE CarriedOver
  BY <1>1, <1>2, <1>3, <1>4 DEF CarriedOver
<1>5. ASSUME NEW after, NEW wild, Carried(team, after), Catches(after, wild)
      PROVE  OnlyRaresPassTheCap'
  <2>1. /\ MayBeAboveCap(wild) /\ Capped(after)
        /\ after \in Seq(Monsters) /\ box \in Seq(Monsters)
    BY <1>3, <1>5, CapOfWild DEF Catches, Carried, TrainerTypeOK
  <2>2. ASSUME NEW w \in 0 .. Len(after), Enters(after, team', w, wild), box' = box
        PROVE  OnlyRaresPassTheCap'
    BY <1>1, <1>2, <2>1, <2>2, CapOfEntered
  <2>3. ASSUME NEW w \in 0 .. Len(box), Enters(box, box', w, wild), team' = after
        PROVE  OnlyRaresPassTheCap'
    BY <1>1, <1>2, <2>1, <2>3, CapOfEntered
  <2> QED
    BY <1>5, <2>2, <2>3, CatchEffect
<1> QED
  BY <1>4, <1>5, TickRoster

\* The starter respects the cap.
LEMMA CapInit == OnlyRaresMetAboveCap /\ TrainerInit => OnlyRaresPassTheCap
<1> SUFFICES ASSUME OnlyRaresMetAboveCap, TrainerInit PROVE OnlyRaresPassTheCap
  OBVIOUS
<1>1. PICK m \in Starters : team = <<m>> /\ box = <<>>
  BY DEF TrainerInit
<1>2. team \o box = <<m>> /\ DOMAIN <<m>> = {1} /\ <<m>>[1] = m
  BY <1>1, WorldAssumption, ConcatEmptySeq
<1> QED
  BY <1>2 DEF OnlyRaresPassTheCap, OnlyRaresMetAboveCap

(***************************************************************************)
(* A monster above the level cap is rare: training stops at the cap and    *)
(* only a rare's bonus reaches above it. This needs a world whose routes   *)
(* send nothing else above the cap (OnlyRaresMetAboveCap, evaluated for    *)
(* the routes of src/data/world.ts).                                       *)
(***************************************************************************)
THEOREM CapIsPassedByRares ==
    ASSUME PowerIsNat, OnlyRaresMetAboveCap
    PROVE  TrainerSpec => []OnlyRaresPassTheCap
<1>1. /\ TrainerTypeOK /\ TrainerTypeOK' /\ OnlyRaresPassTheCap /\ [Tick]_trainerVars
      => OnlyRaresPassTheCap'
  BY CapStep DEF OnlyRaresPassTheCap, trainerVars
<1> QED
  BY <1>1, CapInit, TrainerTypeCorrect, PTL DEF TrainerSpec

-----------------------------------------------------------------------------
\* Who is caught enters, and is of a species not owned before.
LEMMA CaughtStep ==
    ASSUME PowerIsNat, TrainerTypeOK, TrainerTypeOK', NoDuplicateSpecies, Tick,
           totalCaught' > totalCaught
    PROVE  \E i \in DOMAIN (team' \o box') :
              ~Owned(team \o box, (team' \o box')[i].species)
<1>1. PICK after, wild : Carried(team, after) /\ Catches(after, wild)
  <2>1. ~CarriedOver
    BY DEF CarriedOver, TrainerTypeOK
  <2> QED
    BY <2>1, TickRoster
<1>2. /\ \A s : Owned(after, s) <=> Owned(team, s)
      /\ ~Owned(after, wild.species) /\ ~Owned(box, wild.species)
  BY <1>1, CarriedSpecies, CatchEffect DEF TrainerTypeOK
<1>3. ~Owned(team \o box, wild.species)
  BY <1>2, RosterSplit DEF TrainerTypeOK
<1>4. /\ Unique(after) /\ after \in Seq(Monsters)
      /\ Unique(box) /\ box \in Seq(Monsters)
  BY <1>1, CarriedSpecies, NoDuplicateSplit DEF Carried, TrainerTypeOK
<1>5. Owned(team', wild.species) \/ Owned(box', wild.species)
  BY <1>1, <1>2, <1>4, CatchEffect, EntersUnique
<1>6. Owned(team' \o box', wild.species)
  BY <1>5, RosterSplit DEF TrainerTypeOK
<1> QED
  BY <1>3, <1>6 DEF Owned

(***************************************************************************)
(* A tick that counts a catch leaves a species owned that was not before:  *)
(* the monster is in the party or the box, and was not dropped by the      *)
(* placement that followed.                                                *)
(***************************************************************************)
THEOREM CaughtMonstersAreKept == ASSUME PowerIsNat PROVE TrainerSpec => CaughtIsKept
<1>1. TrainerTypeOK /\ TrainerTypeOK' /\ NoDuplicateSpecies /\ [Tick]_trainerVars =>
         [totalCaught' > totalCaught =>
            \E i \in DOMAIN (team' \o box') :
               ~Owned(team \o box, (team' \o box')[i].species)]_trainerVars
  BY CaughtStep
<1> QED
  BY <1>1, TrainerTypeCorrect, SpeciesOwnedOnce, PTL DEF TrainerSpec, CaughtIsKept

-----------------------------------------------------------------------------
\* More levels are no less power: every stat of calcPower is one of statsFor,
\* which grows with the level.
LevelsAddPower ==
    \A s \in Species, l, k \in Nat \ {0} : l <= k => Power(s, l) <= Power(s, k)

\* The terms of a party's power.
Powers(members) == [i \in DOMAIN members |-> PowerOf(members[i])]

\* A party's power is the sum of its terms, all of them natural numbers.
LEMMA PowersOfParty ==
    ASSUME PowerIsNat, NEW members \in Seq(Monsters)
    PROVE  /\ IsFiniteSet(DOMAIN members)
           /\ \A i \in DOMAIN members :
                 /\ members[i] \in Monsters /\ Powers(members)[i] = PowerOf(members[i])
                 /\ Powers(members)[i] \in Nat
           /\ PartyPower(members) = SumFunctionOnSet(Powers(members), DOMAIN members)
<1>1. DOMAIN members = 1 .. Len(members) /\ Len(members) \in Nat
  BY LenProperties
<1>2. IsFiniteSet(DOMAIN members)
  BY <1>1, FS_Interval
<1>3. ASSUME NEW i \in DOMAIN members
      PROVE  /\ members[i] \in Monsters /\ Powers(members)[i] = PowerOf(members[i])
             /\ Powers(members)[i] \in Nat
  BY <1>1, <1>3, ElementOfSeq, PowerOfMonster DEF Powers
<1> QED
  BY <1>2, <1>3 DEF PartyPower, Powers, SumFunction

\* Members that are carried over have kept their power.
LEMMA CarriedPower ==
    ASSUME PowerIsNat, LevelsAddPower, NEW old \in Seq(Monsters), NEW new, Carried(old, new)
    PROVE  PartyPower(old) <= PartyPower(new)
<1>1. new \in Seq(Monsters) /\ DOMAIN new = DOMAIN old
  BY CarriedSpecies DEF Carried
<1>2. ASSUME NEW i \in DOMAIN old
      PROVE  /\ Powers(old)[i] \in Int /\ Powers(new)[i] \in Int
             /\ Powers(old)[i] <= Powers(new)[i]
  <2>1. /\ old[i] \in Monsters /\ new[i] \in Monsters
        /\ Powers(old)[i] = PowerOf(old[i]) /\ Powers(new)[i] = PowerOf(new[i])
        /\ Powers(old)[i] \in Nat /\ Powers(new)[i] \in Nat
    BY <1>1, <1>2, PowersOfParty
  <2>2. SameMonster(old[i], new[i])
    BY <1>2, LenProperties DEF Carried
  <2>3. Power(old[i].species, old[i].level) <= Power(old[i].species, new[i].level)
    BY <2>1, <2>2 DEF Monsters, SameMonster, LevelsAddPower
  <2> QED
    BY <2>1, <2>2, <2>3 DEF PowerOf, SameMonster
<1>3. IsFiniteSet(DOMAIN old)
  BY PowersOfParty
<1>4. SumFunctionOnSet(Powers(old), DOMAIN old) <= SumFunctionOnSet(Powers(new), DOMAIN old)
  BY <1>2, <1>3, SumMonotone
<1> QED
  BY <1>1, <1>4, PowersOfParty

\* A newcomer adds its power, and takes that of a weaker member at most.
LEMMA EnteredPower ==
    ASSUME PowerIsNat, NEW old \in Seq(Monsters), NEW mon \in Monsters, NEW new,
           NEW w \in 0 .. Len(old), Enters(old, new, w, mon),
           w # 0 => PowerOf(old[w]) < PowerOf(mon)
    PROVE  PartyPower(old) <= PartyPower(new)
<1> DEFINE from(i) == IF w = 0 \/ i < w THEN i ELSE i + 1
           stay == DOMAIN new \ {Len(new)}
           p    == [i \in stay |-> from(i)]
           kept == DOMAIN old \ {w}
<1>1. /\ DOMAIN new = 1 .. Len(new) /\ Len(new) \in Nat \ {0}
      /\ DOMAIN old = 1 .. Len(old) /\ Len(old) \in Nat
      /\ new \in Seq(Monsters) /\ new[Len(new)] = mon
      /\ Len(new) = IF w = 0 THEN Len(old) + 1 ELSE Len(old)
  BY EntersFrom, LenProperties DEF Enters
<1>2. \A i \in stay : p[i] \in DOMAIN old /\ new[i] = old[p[i]]
  BY EntersFrom
<1>3. \A i, j \in stay : p[i] = p[j] => i = j
  BY EntersFrom
<1>4. /\ \A i \in stay : p[i] \in kept
      /\ \A k \in kept : \E i \in stay : p[i] = k
  <2>1. ASSUME NEW i \in stay PROVE p[i] \in kept
    BY <1>1, <2>1
  <2>2. ASSUME NEW k \in kept PROVE \E i \in stay : p[i] = k
    <3>1. /\ k \in Nat \ {0} /\ w \in Nat /\ k # w
          /\ k <= Len(old) /\ w <= Len(old)
      BY <1>1, <2>2
    <3>2. CASE w = 0 \/ k < w
      <4>1. k \in stay
        <5>1. Len(new) \in Nat /\ k < Len(new)
          BY <1>1, <3>1, <3>2
        <5>2. k \in 1 .. Len(new) /\ k # Len(new)
          BY <3>1, <5>1
        <5> QED
          BY <1>1, <5>2
      <4>2. p[k] = k
        BY <3>2, <4>1
      <4> QED
        BY <4>1, <4>2
    <3>3. CASE w # 0 /\ k > w
      <4>1. k - 1 \in stay /\ ~(k - 1 < w)
        BY <1>1, <3>1, <3>3
      <4>2. p[k - 1] = k - 1 + 1
        BY <3>3, <4>1
      <4> QED
        BY <3>1, <4>1, <4>2
    <3> QED
      BY <3>1, <3>2, <3>3
  <2> QED
    BY <2>1, <2>2
<1> HIDE DEF from, p
<1>5. /\ \A i \in stay : Powers(new)[i] \in Int /\ Powers(old)[p[i]] = Powers(new)[i]
      /\ Powers(new)[Len(new)] = PowerOf(mon) /\ PowerOf(mon) \in Nat
      /\ \A i \in DOMAIN new : Powers(new)[i] \in Int
      /\ \A i \in DOMAIN old : Powers(old)[i] \in Int
      /\ IsFiniteSet(DOMAIN new) /\ IsFiniteSet(DOMAIN old) /\ IsFiniteSet(stay)
  <2>1. IsFiniteSet(DOMAIN new) /\ IsFiniteSet(DOMAIN old) /\ IsFiniteSet(stay)
    BY <1>1, PowersOfParty, FS_RemoveElement
  <2>2. \A i \in DOMAIN new : Powers(new)[i] = PowerOf(new[i]) /\ Powers(new)[i] \in Nat
    BY <1>1, PowersOfParty
  <2>3. \A i \in DOMAIN old : Powers(old)[i] = PowerOf(old[i]) /\ Powers(old)[i] \in Nat
    BY PowersOfParty
  <2> QED
    BY <1>1, <1>2, <2>1, <2>2, <2>3
<1>6. SumFunctionOnSet(Powers(old), kept) = SumFunctionOnSet(Powers(new), stay)
  <2> HIDE DEF stay, kept
  <2>1. /\ \A i \in stay : /\ Powers(new)[i] \in Int /\ p[i] \in kept
                           /\ Powers(old)[p[i]] = Powers(new)[i]
        /\ \A k \in kept : \E i \in stay : p[i] = k
        /\ \A i, j \in stay : p[i] = p[j] => i = j
        /\ IsFiniteSet(stay)
    BY <1>3, <1>4, <1>5
  <2> QED
    BY <2>1, SumRename
<1>7. PartyPower(new) = PowerOf(mon) + SumFunctionOnSet(Powers(new), stay)
  <2>1. Len(new) \in DOMAIN new
    BY <1>1
  <2>2. SumFunctionOnSet(Powers(new), DOMAIN new)
           = Powers(new)[Len(new)] + SumFunctionOnSet(Powers(new), stay)
    BY <1>5, <2>1, SumRemove
  <2> HIDE DEF stay
  <2> QED
    BY <1>1, <1>5, <2>2, PowersOfParty
<1>8. SumFunctionOnSet(Powers(new), stay) \in Int
  BY <1>5, SumType
<1>9. CASE w = 0
  <2>1. kept = DOMAIN old
    BY <1>1, <1>9
  <2>2. PartyPower(old) = SumFunctionOnSet(Powers(new), stay)
    BY <1>6, <2>1, PowersOfParty
  <2> QED
    BY <1>5, <1>7, <1>8, <2>2
<1>10. CASE w # 0
  <2>1. w \in DOMAIN old
    BY <1>1, <1>10
  <2>2. PartyPower(old) = Powers(old)[w] + SumFunctionOnSet(Powers(new), stay)
    <3>1. SumFunctionOnSet(Powers(old), DOMAIN old)
             = Powers(old)[w] + SumFunctionOnSet(Powers(old), kept)
      BY <1>5, <2>1, SumRemove
    <3> HIDE DEF stay, kept
    <3> QED
      BY <1>6, <3>1, PowersOfParty
  <2>3. Powers(old)[w] = PowerOf(old[w]) /\ Powers(old)[w] \in Nat
    BY <2>1, PowersOfParty
  <2> HIDE DEF stay
  <2> QED
    BY <1>5, <1>7, <1>8, <1>10, <2>2, <2>3
<1> QED
  BY <1>9, <1>10

\* Carried over, then joined by a caught one: no step of a tick weakens the
\* party.
LEMMA PowerStep ==
    ASSUME PowerIsNat, LevelsAddPower, TrainerTypeOK, Tick
    PROVE  PartyPower(team) <= PartyPower(team')
<1>1. team \in Seq(Monsters)
  BY DEF TrainerTypeOK
<1>2. CASE CarriedOver
  BY <1>1, <1>2, CarriedPower DEF CarriedOver
<1>3. ASSUME NEW after, NEW wild, Carried(team, after), Catches(after, wild)
      PROVE  PartyPower(team) <= PartyPower(team')
  <2>1. PartyPower(team) <= PartyPower(after) /\ after \in Seq(Monsters) /\ wild \in Monsters
    BY <1>1, <1>3, CarriedPower, CatchEffect DEF Carried
  <2>2. CASE team' = after
    BY <2>1, <2>2
  <2>3. ASSUME NEW w \in 0 .. Len(after), Enters(after, team', w, wild),
               w # 0 => PowerOf(after[w]) < PowerOf(wild)
        PROVE  PartyPower(team) <= PartyPower(team')
    <3>1. PartyPower(after) <= PartyPower(team')
      BY <2>1, <2>3, EnteredPower
    <3>2. /\ PartyPower(team) \in Int /\ PartyPower(after) \in Int /\ PartyPower(team') \in Int
      BY <1>1, <2>1, <2>3, PowersOfParty, SumType DEF Enters
    <3> QED
      BY <2>1, <3>1, <3>2
  <2> QED
    BY <1>3, <2>2, <2>3, CatchEffect
<1> QED
  BY <1>2, <1>3, TickRoster

(***************************************************************************)
(* The party's power never falls, for every power function that does not   *)
(* fall with the level: a released member was weaker than the newcomer,    *)
(* and fights and heals take no level (placeNewMonster, grantXp).          *)
(***************************************************************************)
THEOREM PowerNeverFalls ==
    ASSUME PowerIsNat, LevelsAddPower
    PROVE  TrainerSpec => PartyPowerNeverFalls
<1>1. ASSUME TrainerTypeOK, [Tick]_trainerVars
      PROVE  [PartyPower(team) <= PartyPower(team')]_trainerVars
  BY <1>1, PowerStep
<1>2. TrainerTypeOK /\ [Tick]_trainerVars => [PartyPower(team) <= PartyPower(team')]_trainerVars
  BY <1>1
<1> QED
  BY <1>2, TrainerTypeCorrect, PTL DEF TrainerSpec, PartyPowerNeverFalls
============================================================================
