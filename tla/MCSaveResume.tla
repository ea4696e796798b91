----------------------------- MODULE MCSaveResume -----------------------------
(***************************************************************************)
(* Two towns, a starter and two species, a party of one and a box of one,  *)
(* so that rosters fill and replace; absences around the catch-up's        *)
(* limits.                                                                 *)
(***************************************************************************)
EXTENDS OfflineCatchup

MCSpecies == {"starter", "moss", "fern"}
MCTypeOf == [s \in MCSpecies |-> "grass"]
MCPower(species, level) == 3 * level

MCGymLevel == <<1, 2>>
MCRouteMin == <<2, 2>>
MCRouteMax == <<2, 2>>
MCWildPool == <<{"moss"}, {"fern"}>>
MCRarePool == <<{}, {}>>
MCStarters == {[species |-> "starter", level |-> 1, hp |-> Healthy]}
MCStrategies ==
    {[autoHeal |-> TRUE, autoGym |-> TRUE, autoMove |-> TRUE, catchEnabled |-> TRUE,
      prioritizeRare |-> TRUE, catchTypes |-> {"grass"}]}

\* A clock set back, less than a tick, one tick, the limit, and beyond it.
MCAbsences == {-16, 14, 15, 30, 46}
===============================================================================
