---------------------------- MODULE MCPolicyLoop ----------------------------
(***************************************************************************)
(* PolicyLoop for TLC: the shape of configs/policy.json (enter above one   *)
(* threshold, leave below another), a file whose second command is not     *)
(* CMD_SET_MODE, and one without policies.                                 *)
(***************************************************************************)
EXTENDS PolicyLoop

Policy(op, threshold, text, mode) ==
    [op |-> op, threshold |-> threshold, text |-> text, command |-> "unset", mode |-> mode]

Shipped == <<Policy(">", 1, "CMD_SET_MODE", 1), Policy("<", 1, "CMD_SET_MODE", 0)>>
WithUnknown == <<Policy(">", 1, "CMD_SET_MODE", 1), Policy("<", 2, "CMD_STOP", 0)>>

FileContents == {Shipped, WithUnknown, <<>>}
=============================================================================
