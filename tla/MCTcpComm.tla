----------------------------- MODULE MCTcpComm -----------------------------
(***************************************************************************)
(* TcpComm for TLC.  Three frames put one on the wire, one in the queue    *)
(* and one still posted; four handlers in ready leave room for every pair  *)
(* of methods beside the completions of a read and a write.                *)
(***************************************************************************)
EXTENDS TcpComm
=============================================================================
