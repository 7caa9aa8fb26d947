---------------------------- MODULE OrderedLink ----------------------------
(***************************************************************************)
(* What one direction of a TcpComm connection promises to the code that    *)
(* calls send(): the frames reach the wire in the order of the calls, none *)
(* is skipped, none is repeated, and nothing is written once the link is   *)
(* down.  A link that goes down loses a suffix of the frames and nothing   *)
(* else.  CommandProtocol builds its channels on this promise.             *)
(***************************************************************************)
EXTENDS Naturals, Sequences

VARIABLES
    sent,     \* number of frames handed to the link; frame k is the k-th one
    wire,     \* the frames written so far, oldest first
    up        \* the link still carries frames

linkVars == <<sent, wire, up>>

LinkInit == sent = 0 /\ wire = <<>> /\ up = TRUE

Offer == sent' = sent + 1 /\ UNCHANGED <<wire, up>>

Carry ==
    /\ up
    /\ Len(wire) < sent
    /\ wire' = Append(wire, Len(wire) + 1)
    /\ UNCHANGED <<sent, up>>

GoDown == up /\ up' = FALSE /\ UNCHANGED <<sent, wire>>

LinkNext == Offer \/ Carry \/ GoDown

LinkSpec == LinkInit /\ [][LinkNext]_linkVars
=============================================================================
