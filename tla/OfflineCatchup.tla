--------------------------- MODULE OfflineCatchup ---------------------------
(***************************************************************************)
(* The catch-up for an absence (src/offline.ts), among the ticks, saves    *)
(* and restores of SaveResume.  runOfflineCatchup is synchronous: while it *)
(* replays ticks nothing else happens.  The count of battles and the text  *)
(* of the report are left out.                                             *)
(*                                                                         *)
(* waited is history: the ticks that counted the cooldown down since a gym *)
(* challenge was lost.                                                     *)
(***************************************************************************)
EXTENDS SaveResume

CONSTANTS
    TickMs,           \* TICK_MS, 15 seconds
    MaxOfflineMs,     \* MAX_OFFLINE_HOURS, 24 hours
    Absences          \* elapsed times the host passes, also negative ones

ASSUME OfflineAssumption ==
    /\ TickMs \in Nat \ {0} /\ MaxOfflineMs \in Nat
    /\ Absences \subseteq Int

VARIABLES
    away,             \* Here, or the catch-up under way
    summary,          \* what one has just returned, beside what happened in it
    waited

offlineVars == <<saveVars, away, summary, waited>>

Here == [left |-> 0]

PartyLevels == SumFunction([i \in DOMAIN team |-> team[i].level])

\* The roster's size for the monsters caught.
MutCounters ==
    [caught |-> Len(team) + Len(box), badges |-> Len(badges), teamLv |-> PartyLevels]

\* The numbers of a trainer that a summary compares.
Counters == [caught |-> totalCaught, badges |-> Len(badges), teamLv |-> PartyLevels]

NothingYet == [played |-> 0, kept |-> 0, won |-> 0, gained |-> 0]

OfflineInit == SaveInit /\ away = Here /\ summary = Here /\ waited = GymCooldown

-----------------------------------------------------------------------------
CappedMs(elapsed) ==
    CASE elapsed < 0 -> 0 [] elapsed > MaxOfflineMs -> MaxOfflineMs [] OTHER -> elapsed

\* On an engine built for it.
MutBeginCatchup(elapsed) ==
    /\ away = Here
    /\ away' = [before |-> Counters, elapsed |-> elapsed, capped |-> elapsed > MaxOfflineMs,
                ticks |-> CappedMs(elapsed) \div TickMs, left |-> CappedMs(elapsed) \div TickMs,
                log |-> NothingYet]
    /\ gymCooldown' = 0
    /\ summary' = Here
    /\ UNCHANGED <<team, box, badges, location, ball, totalCaught, strategy, saved, form, waited>>

BeginCatchup(elapsed) ==
    /\ away = Here
    /\ away' = [before |-> Counters, elapsed |-> elapsed, capped |-> elapsed > MaxOfflineMs,
                ticks |-> CappedMs(elapsed) \div TickMs, left |-> CappedMs(elapsed) \div TickMs,
                log |-> NothingYet]
    /\ summary' = Here
    /\ UNCHANGED <<saveVars, waited>>

\* What this tick did, taken from the trainer before and after it.
Happened(log) ==
    [played |-> log.played + 1,
     kept   |-> log.kept + (IF \E s \in Species : ~Owned(team \o box, s) /\ Owned(team' \o box', s)
                            THEN 1 ELSE 0),
     won    |-> log.won + Cardinality(Range(badges') \ Range(badges)),
     gained |-> log.gained + SumFunction([i \in DOMAIN team |->
                    IF i \in DOMAIN team' THEN team'[i].level - team[i].level ELSE 0])]

CountsTick == waited' = IF gymCooldown' < gymCooldown THEN waited + 1
                        ELSE IF gymCooldown' > gymCooldown THEN 0 ELSE waited

CatchupTick ==
    /\ away.left > 0
    /\ Play
    /\ CountsTick
    /\ away' = [away EXCEPT !.left = @ - 1, !.log = Happened(@)]
    /\ UNCHANGED summary

Reported(after) ==
    [ticks  |-> away.ticks,
     capped |-> away.capped,
     caught |-> after.caught - away.before.caught,
     levels |-> after.teamLv - away.before.teamLv,
     badges |-> after.badges - away.before.badges]

EndCatchup ==
    /\ away # Here /\ away.left = 0
    /\ summary' = [left |-> 0, said |-> Reported(Counters), log |-> away.log,
                   elapsed |-> away.elapsed]
    /\ away' = Here
    /\ UNCHANGED <<saveVars, waited>>

\* The game goes on as before while the player is here.
Online ==
    /\ away = Here
    /\ \/ Play /\ CountsTick
       \/ Save /\ UNCHANGED waited
       \/ Load /\ waited' = GymCooldown
    /\ summary' = Here
    /\ UNCHANGED away

OfflineNext ==
    \/ Online \/ CatchupTick \/ EndCatchup
    \/ \E elapsed \in Absences : BeginCatchup(elapsed)

OfflineSpec == OfflineInit /\ [][OfflineNext]_offlineVars

-----------------------------------------------------------------------------
(***************************************************************************)
(* The summary tells the absence and what the replayed ticks did: one tick *)
(* for each full TickMs of it, none for a clock that ran backwards, never  *)
(* more than a day's ticks (docs/engine.md:295-296 "floor(min(elapsedMs,   *)
(* 24h) / 15000)"); badges won, monsters added to the roster, and, when no *)
(* monster was added, the levels the party gained.  A catch mixes a        *)
(* newcomer's level, or a released member's missing one, into `levels`.    *)
(***************************************************************************)
WholeTicks(played) ==
    /\ played * TickMs <= MaxOfflineMs
    /\ summary.elapsed <= 0 => played = 0
    /\ summary.elapsed \in 0 .. MaxOfflineMs =>
          summary.elapsed - played * TickMs \in 0 .. TickMs - 1

SummaryIsTrue ==
    summary # Here =>
        /\ WholeTicks(summary.log.played)
        /\ summary.said.ticks = summary.log.played
        /\ summary.said.badges = summary.log.won
        /\ summary.said.caught = summary.log.kept
        /\ summary.log.kept = 0 => summary.said.levels = summary.log.gained

(***************************************************************************)
(* After a lost challenge a gym is challenged again only when GymCooldown  *)
(* ticks have counted down, replayed or live, or the trainer was restored: *)
(* the cooldown is the engine's own and is not saved (src/save.ts:23).     *)
(***************************************************************************)
ChallengeMade == badges' # badges \/ gymCooldown' > gymCooldown

RestsAfterLoss ==
    [][ Tick /\ ChallengeMade => waited >= GymCooldown ]_offlineVars
=============================================================================
