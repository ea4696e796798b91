------------------------------ MODULE SaveResume ------------------------------
(***************************************************************************)
(* A trainer that is saved and restored while its loop goes on             *)
(* (src/save.ts, with the engine rebuilt around the restored trainer).     *)
(*                                                                         *)
(* saveTrainer copies the trainer one level deep: team and box are copied, *)
(* badges and items are the live trainer's own objects, and loadTrainer    *)
(* hands them on.  serializeTrainer writes text, which shares nothing.     *)
(* Version check and cached moves are left out.                            *)
(***************************************************************************)
EXTENDS TrainerAgent

VARIABLES
    saved,            \* the last snapshot
    form              \* what it is: "none", "text", or an "object" that shares

saveVars == <<trainerVars, saved, form>>

Snapshot ==
    [team |-> team, box |-> box, badges |-> badges, location |-> location, ball |-> ball,
     totalCaught |-> totalCaught, strategy |-> strategy]

SaveInit == TrainerInit /\ saved = Snapshot /\ form = "none"

-----------------------------------------------------------------------------
\* The badges are copied, the items still shared.
MutShared(s) == [s EXCEPT !.ball = ball']

\* What a step of the live trainer does to an object that shares with it.
Shared(s) == [s EXCEPT !.badges = badges', !.ball = ball']

Play ==
    /\ Tick
    /\ saved' = IF form = "object" THEN Shared(saved) ELSE saved
    /\ UNCHANGED form

\* serializeTrainer; saveTrainer.
Save ==
    /\ saved' = Snapshot
    /\ form' \in {"text", "object"}
    /\ UNCHANGED trainerVars

\* The badges are not among what is restored.
MutRestored(s) ==
    /\ team' = s.team /\ box' = s.box /\ badges' = <<>> /\ location' = s.location
    /\ ball' = s.ball /\ totalCaught' = s.totalCaught /\ strategy' = s.strategy

Restored(s) ==
    /\ team' = s.team /\ box' = s.box /\ badges' = s.badges /\ location' = s.location
    /\ ball' = s.ball /\ totalCaught' = s.totalCaught /\ strategy' = s.strategy

\* loadTrainer or deserializeTrainer, then new Engine; the live trainer of
\* before is gone, a restored object goes on sharing.  The cooldown of the
\* gym was the old engine's and is not saved.
Load ==
    /\ form # "none"
    /\ Restored(saved)
    /\ gymCooldown' = 0
    /\ UNCHANGED <<saved, form>>

SaveNext == Play \/ Save \/ Load

SaveSpec == SaveInit /\ [][SaveNext]_saveVars

-----------------------------------------------------------------------------
(***************************************************************************)
(* Balls cannot be made by saving and restoring: a snapshot, whose parts   *)
(* may be of different times, gives back no ball that was thrown for a     *)
(* monster it holds, and no badge whose balls it keeps can be won again    *)
(* (saveTrainer shares badges and items together).                         *)
(***************************************************************************)
SnapshotAccounted ==
    /\ BallsAccounted
    /\ saved.ball + saved.totalCaught <= InitialBalls + BallsPerBadge * Len(saved.badges)

(***************************************************************************)
(* Restoring opens no town: a trainer restored from a snapshot of any age  *)
(* stands where its badges lead, live or saved (loadTrainer's defaults for *)
(* badges and location).                                                   *)
(***************************************************************************)
RestoredInOrder ==
    /\ BadgesInOrder
    /\ saved.location \in StartTowns \/ saved.location <= Len(saved.badges) + 1
===============================================================================
