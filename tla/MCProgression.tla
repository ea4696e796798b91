---------------------------- MODULE MCProgression ----------------------------
(***************************************************************************)
(* Species of src/data/monsters.ts: a full line, a line of two, a          *)
(* legendary, and one that joins its line at the second stage; the gyms    *)
(* are those of src/data/world.ts.                                         *)
(***************************************************************************)
EXTENDS Progression, World

Sprigthorn == [ev1 |-> 16, ev2 |-> 32, base |-> 45, target |-> 80]
Frostnip   == [ev1 |-> 28, ev2 |-> 0, base |-> 50, target |-> 75]
Voltaire   == [ev1 |-> 0, ev2 |-> 0, base |-> 90, target |-> 90]
Thornmaw   == [ev1 |-> 0, ev2 |-> 32, base |-> 60, target |-> 80]

MCTemplates == {Sprigthorn, Frostnip, Voltaire}
MCHalfLine == {Thornmaw}
=============================================================================
