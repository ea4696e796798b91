----------------------------- MODULE MCSdkClient -----------------------------
(***************************************************************************)
(* Two cards of one wallet, the SDK's, and a treasury that is the other    *)
(* trader's wallet.                                                        *)
(***************************************************************************)
EXTENDS SdkClient, TLC

CONSTANTS u1, u2, vault, c1, c2

MCLamports == [a \in Accounts |-> IF a \in Users THEN 10 ELSE 0]
MCHolder == [c \in Cards |-> u1]
CardSymmetry == Permutations(Cards)

Given(argument, tx) == [argument |-> argument, tx |-> tx]

\* 264 is 256 + 8: the masked byte is the instant sell bit.
MCCalls ==
    {Given(2, SdkUpdateFloor(2)), Given(1, SdkSetInstantSell(TRUE)), Given(264, SdkSetPause(264)),
     Given(0, SdkWithdrawTreasury(0))}

\* All that the market does not run, or has run by others.
MCAllCalls ==
    MCCalls \cup {Given(0, SdkDeployAgent), Given(1, SdkCatchAttempt(1)), Given(3, SdkGymChallenge(3)),
                  Given(0, SdkForceEvolve), Given(0, SdkInitialize(7000, 3000, 500, 1))}
==============================================================================
