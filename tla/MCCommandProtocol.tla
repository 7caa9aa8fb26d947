------------------------- MODULE MCCommandProtocol -------------------------
(***************************************************************************)
(* CommandProtocol for TLC, with the two policies of configs/policy.json   *)
(* and one load on each side of and between their thresholds.              *)
(***************************************************************************)
EXTENDS CommandProtocol

MCPolicies == << [op |-> ">", threshold |-> 60, mode |-> 1],
                 [op |-> "<", threshold |-> 40, mode |-> 0] >>

MCLoads == {20, 50, 80}
=============================================================================
