-------------------------- MODULE MCSessionTiming --------------------------
(* SessionTiming for TLC in half seconds, with the program's own five       *)
(* retries and two commands.                                                *)
EXTENDS SessionTiming
=============================================================================
