------------------------------- MODULE Roster -------------------------------
(***************************************************************************)
(* A trainer's party and box, the decision to catch a wild monster and the *)
(* placement of a caught one (src/team.ts, src/power.ts).                  *)
(*                                                                         *)
(* A monster is its species, level and hit points; hit points are one of   *)
(* three classes, all the engine tells apart.  Names, types' multipliers,  *)
(* xp below a level and affection are left out.                            *)
(***************************************************************************)
EXTENDS Integers, Sequences, FiniteSets, SequencesExt

CONSTANTS
    Species, Types,
    TypeOf,           \* type of each species
    RareSpecies,      \* species of rarity rare or legendary
    Power(_, _),      \* combat power of a species at a level
    PartySize,        \* PARTY_SIZE, 4
    BoxSize,          \* BOX_SIZE, 6
    SameTypeLimit     \* SAME_TYPE_LIMIT, 2

ASSUME RosterAssumption ==
    /\ TypeOf \in [Species -> Types]
    /\ RareSpecies \subseteq Species
    /\ PartySize \in Nat \ {0}
    /\ BoxSize \in Nat
    /\ SameTypeLimit \in Nat

\* No hit points; under 15 percent of the maximum; the rest.
Fainted == 0
Low     == 1
Healthy == 2
HP      == Fainted .. Healthy

Monsters == [species : Species, level : Nat \ {0}, hp : HP]

\* The player's switches.  A missing switch reads as true, a missing type
\* as allowed.
StrategyType ==
    [autoHeal : BOOLEAN, autoGym : BOOLEAN, autoMove : BOOLEAN,
     catchEnabled : BOOLEAN, prioritizeRare : BOOLEAN, catchTypes : SUBSET Types]

PowerOf(m) == Power(m.species, m.level)

\* The first of the weakest, party before box.
WeakestIndex(roster) ==
    CHOOSE i \in DOMAIN roster :
        /\ \A j \in DOMAIN roster : PowerOf(roster[i]) <= PowerOf(roster[j])
        /\ \A j \in 1 .. i - 1 : PowerOf(roster[i]) < PowerOf(roster[j])

\* The party alone is looked at.
MutOwned(roster, species) ==
    \E i \in DOMAIN roster : i <= PartySize /\ roster[i].species = species

Owned(roster, species) == \E i \in DOMAIN roster : roster[i].species = species

OfType(members, type) == {i \in DOMAIN members : TypeOf[members[i].species] = type}

\* The weakest goes, the newcomer joins at the end of party or box.
MutReplace(team, box, weak, mon) == [team |-> Append(Tail(team), mon), box |-> box]

Replace(team, box, weak, mon) ==
    IF weak <= Len(team)
    THEN [team |-> Append(RemoveAt(team, weak), mon), box |-> box]
    ELSE [team |-> team, box |-> Append(RemoveAt(box, weak - Len(team)), mon)]

\* Party first, then box, then in place of the weakest if the newcomer is
\* stronger.
PlaceNewMonster(team, box, mon) ==
    LET roster == team \o box
        weak   == WeakestIndex(roster)
    IN  CASE Len(team) < PartySize ->
               [team |-> Append(team, mon), box |-> box]
          [] Len(team) >= PartySize /\ Len(box) < BoxSize ->
               [team |-> team, box |-> Append(box, mon)]
          [] OTHER ->
               IF PowerOf(mon) <= PowerOf(roster[weak])
               THEN [team |-> team, box |-> box]
               ELSE Replace(team, box, weak, mon)

\* The parts of the decision to catch.
MutTypeSlotOpen(team, type) == Cardinality(OfType(team, type)) <= SameTypeLimit
TypeSlotOpen(team, type) == Cardinality(OfType(team, type)) < SameTypeLimit

RareOverride(strategy, wild) == wild.species \in RareSpecies /\ strategy.prioritizeRare

MutIsUpgrade(roster, wild) == PowerOf(wild) >= PowerOf(roster[WeakestIndex(roster)])
IsUpgrade(roster, wild) == PowerOf(wild) > PowerOf(roster[WeakestIndex(roster)])

\* The balls left are not looked at.
MutShouldCatch(team, box, ball, strategy, wild) ==
    LET roster == team \o box
        type   == TypeOf[wild.species]
    IN  /\ strategy.catchEnabled
        /\ ~Owned(roster, wild.species)
        /\ \/ RareOverride(strategy, wild)
           \/ type \in strategy.catchTypes /\ TypeSlotOpen(team, type)
        /\ Len(roster) < PartySize + BoxSize \/ IsUpgrade(roster, wild)

\* The rare override lifts the type rules, not the duplicate rule.
ShouldCatch(team, box, ball, strategy, wild) ==
    LET roster == team \o box
        type   == TypeOf[wild.species]
    IN  /\ strategy.catchEnabled
        /\ ball > 0
        /\ ~Owned(roster, wild.species)
        /\ \/ RareOverride(strategy, wild)
           \/ type \in strategy.catchTypes /\ TypeSlotOpen(team, type)
        /\ Len(roster) < PartySize + BoxSize \/ IsUpgrade(roster, wild)
=============================================================================
