--------------------------- MODULE MCTrainerRoster ---------------------------
(***************************************************************************)
(* A small world for the roster: two towns, a party of three and a box of  *)
(* one, so that the third catch fills the roster and the fourth replaces.  *)
(***************************************************************************)
EXTENDS TrainerAgent

\* Two species of one type; a starter, two commons and a rare of another.
MCSpecies == {"starter", "moss", "fern", "ember", "coal", "drake"}
MCTypes == {"fire", "grass"}
MCTypeOf == [s \in MCSpecies |-> IF s \in {"moss", "fern"} THEN "grass" ELSE "fire"]
MCRare == {"drake"}
MCPower(species, level) == 3 * level + (IF species \in MCRare THEN 4 ELSE 0)
                             + (IF species = "moss" THEN 1 ELSE 0)

MCGymLevel == <<2, 3>>
MCRouteMin == <<1, 3>>
MCRouteMax == <<1, 3>>
MCWildPool == <<{"moss", "fern", "ember"}, {"coal"}>>
MCRarePool == <<{}, {"drake"}>>
MCStarters == {[species |-> "starter", level |-> 2, hp |-> Healthy]}
MCAll == [autoHeal |-> TRUE, autoGym |-> TRUE, autoMove |-> TRUE, catchEnabled |-> TRUE,
          prioritizeRare |-> TRUE, catchTypes |-> MCTypes]
MCStrategies == {MCAll, [MCAll EXCEPT !.autoHeal = FALSE, !.prioritizeRare = FALSE]}
\* As in the game, nothing but rares is met above the cap.
ASSUME CapHoldsInTheWorld == OnlyRaresMetAboveCap
=============================================================================
