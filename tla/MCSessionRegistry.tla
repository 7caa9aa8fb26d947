------------------------- MODULE MCSessionRegistry -------------------------
(***************************************************************************)
(* SessionRegistry for TLC: an agent that reconnects, two agents, and the  *)
(* agent id 0 the error handler treats differently.                        *)
(***************************************************************************)
EXTENDS SessionRegistry
=============================================================================
