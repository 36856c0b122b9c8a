---------------------------- MODULE MCTurnRetry ----------------------------
(* A thread with two providers, one of them to fail over to.               *)
EXTENDS TurnRetry

CONSTANTS pa, pb

MCProviders == {pa, pb}
MCChain == <<pa>>
=============================================================================
