--------------------------- MODULE MCTrainerFights ---------------------------
(***************************************************************************)
(* Two towns.  The first gym has a ghost, to which the normal starter does *)
(* next to nothing, and a fighter, which it meets at a disadvantage, so    *)
(* that it needs a second member; wild ghosts outlast the turn limit.      *)
(***************************************************************************)
EXTENDS TrainerFights

MCSpecies == {"scamper", "wisp", "brawler"}
MCTypeOf == [scamper |-> "normal", wisp |-> "ghost", brawler |-> "fighting"]
MCPower(species, level) == 3 * level

Four(hp, atk, def, spd) == [hp |-> hp, atk |-> atk, def |-> def, spd |-> spd]
MCTemplates ==
    [scamper |-> [type |-> "normal", base |-> Four(12, 8, 6, 5), target |-> Four(61, 57, 6, 6)],
     wisp    |-> [type |-> "ghost", base |-> Four(6, 3, 3, 4), target |-> Four(6, 3, 3, 4)],
     brawler |-> [type |-> "fighting", base |-> Four(9, 7, 4, 6), target |-> Four(58, 7, 4, 6)]]

Leaders(entries) == [i \in DOMAIN entries |-> [species |-> entries[i][1], level |-> entries[i][2]]]
MCGymTeams == <<Leaders(<<<<"wisp", 1>>, <<"brawler", 2>>>>), Leaders(<<<<"wisp", 3>>>>)>>
MCGymLevel == <<2, 3>>
MCRouteMin == <<2, 3>>
MCRouteMax == <<2, 3>>
MCWildPool == <<{"brawler", "wisp", "scamper"}, {"wisp"}>>
MCRarePool == <<{}, {}>>
MCStarters == {[species |-> s, level |-> 2, hp |-> Healthy] : s \in {"scamper", "brawler"}}
MCHealing ==
    [autoHeal |-> TRUE, autoGym |-> TRUE, autoMove |-> TRUE, catchEnabled |-> TRUE,
     prioritizeRare |-> TRUE, catchTypes |-> {"fighting", "normal", "ghost"}]
MCStrategies == {MCHealing, [MCHealing EXCEPT !.autoHeal = FALSE]}
=============================================================================
