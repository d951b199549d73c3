------------------------------ MODULE MCCopies ------------------------------
(* Two copies of one service on one node. *)
EXTENDS Copies

CONSTANTS c1, c2, plain, pinned

MCCopy == {c1, c2}
MCOneJob == {plain}
MCNone == {}
MCPasses == {"boot", "watch"}
=============================================================================
