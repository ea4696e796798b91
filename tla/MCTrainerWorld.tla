--------------------------- MODULE MCTrainerWorld ---------------------------
(***************************************************************************)
(* The twelve towns of src/data/world.ts with their gym and route levels,  *)
(* and a trainer that catches nothing: the party is the starter.           *)
(***************************************************************************)
EXTENDS TrainerAgent, World

MCSpecies == {"starter", "wild", "drake"}
MCTypeOf == [s \in MCSpecies |-> "fire"]
MCPower(species, level) == level

MCWildPool == [t \in Towns |-> {"wild"}]
MCRarePool == [t \in Towns |-> IF t \in RareRoutes THEN {"drake"} ELSE {}]
MCStarters == {[species |-> "starter", level |-> 5, hp |-> Healthy]}

MCSolo == [autoHeal |-> TRUE, autoGym |-> TRUE, autoMove |-> TRUE, catchEnabled |-> FALSE,
           prioritizeRare |-> TRUE, catchTypes |-> {"fire"}]
MCStrategies == {MCSolo, [MCSolo EXCEPT !.autoHeal = FALSE]}
\* The routes of src/data/world.ts send nothing but rares above the cap.
ASSUME CapHoldsInTheWorld == OnlyRaresMetAboveCap
=============================================================================
