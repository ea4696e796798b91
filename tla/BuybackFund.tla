---------------------------- MODULE BuybackFund ----------------------------
(***************************************************************************)
(* What the buyback pool promises, without cards, listings or admins: a    *)
(* fund whose books never run ahead of its cash.  Money reaches the books  *)
(* only with the cash; cash may also arrive unrecorded; and a payment      *)
(* leaves the books and the cash together, never more than is recorded.    *)
(***************************************************************************)
EXTENDS Integers

VARIABLES cash, recorded, paidIn, paidOut

fundVars == <<cash, recorded, paidIn, paidOut>>

FundInit == cash \in Nat /\ recorded = 0 /\ paidIn = 0 /\ paidOut = 0

Deposit ==
    /\ paidIn' > paidIn
    /\ recorded' = recorded + (paidIn' - paidIn)
    /\ cash' = cash + (paidIn' - paidIn)
    /\ UNCHANGED paidOut

Gift ==
    /\ cash' > cash
    /\ UNCHANGED <<recorded, paidIn, paidOut>>

Pay ==
    /\ paidOut' > paidOut
    /\ paidOut' - paidOut <= recorded
    /\ recorded' = recorded - (paidOut' - paidOut)
    /\ cash' = cash - (paidOut' - paidOut)
    /\ UNCHANGED paidIn

FundNext == Deposit \/ Gift \/ Pay

FundSpec == FundInit /\ [][FundNext]_fundVars
=============================================================================
