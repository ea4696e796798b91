-------------------------- MODULE MCMarketProgram --------------------------
(***************************************************************************)
(* One card and every input of the market, the pool and the authority.     *)
(***************************************************************************)
EXTENDS MarketProgram

CONSTANTS u1, u2, treasury, vault, c1, c2

MCLamports == [a \in Accounts |-> IF a \in Users THEN 12 ELSE 0]
MCHolder == [c \in Cards |-> IF c = c1 THEN u1 ELSE u2]
MCPauses == {{}, {PAUSE_MARKET}, {PAUSE_MINT, PAUSE_INSTANT_SELL}}
=============================================================================
