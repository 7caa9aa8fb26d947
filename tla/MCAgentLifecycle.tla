-------------------------- MODULE MCAgentLifecycle --------------------------
(* AgentLifecycle for TLC, with the program's own MAX_RETRIES. *)
EXTENDS AgentLifecycle
=============================================================================
