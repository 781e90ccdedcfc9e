------------------------------ MODULE MCSession ------------------------------
(* Model-checking instances of Session: two peers, and the channels of the cfgs. *)
EXTENDS Session, TLC

CONSTANTS a, b, Channels

MCPeer == {a, b}
MCConn == 1 .. Channels
MCBetween == [c \in MCConn |-> MCPeer]
OneOfThem == {b}
Swap == Permutations(MCPeer)
=============================================================================
