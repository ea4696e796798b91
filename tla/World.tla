-------------------------------- MODULE World --------------------------------
(***************************************************************************)
(* The sample world of src/data/world.ts: twelve towns in the order of     *)
(* their gyms, one route each.                                             *)
(***************************************************************************)
EXTENDS Integers

TOWN_COUNT == 12

\* The highest level of each gym's team.
GymMaxLevels == <<7, 11, 15, 21, 25, 30, 35, 38, 41, 46, 46, 50>>

\* How many monsters a gym's team has: two in Forgecrest, four in Emberpeak.
GymTeamCounts == {2, 3, 4}

\* levelRange of each town's route.
RouteLow  == <<2, 4, 8, 14, 20, 26, 30, 34, 36, 40, 44, 46>>
RouteHigh == <<5, 8, 14, 20, 26, 32, 36, 40, 42, 46, 48, 52>>

\* The routes with a rare pool, and the levels a rare has above its route
\* (src/encounter.ts).
RareRoutes  == 3 .. TOWN_COUNT
RareOffsets == 3 .. 7
=============================================================================
