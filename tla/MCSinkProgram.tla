--------------------------- MODULE MCSinkProgram ---------------------------
(* A small instance of SinkProgram: one $PAGE is one unit, two players. *)
EXTENDS SinkProgram, TLC

CONSTANTS u1, u2, poolToken

\* u1 can pay a deployment, a forced evolution and a few small charges;
\* u2 a deployment and one gym.
MCInitialPage == (u1 :> 76110) @@ (u2 :> 0) @@ (poolToken :> 0)
MCPauseChoices == {{}, {PAUSE_CATCH}, PauseFlags}
=============================================================================
