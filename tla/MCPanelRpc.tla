----------------------------- MODULE MCPanelRpc -----------------------------
(* PanelRpc for TLC: two connections of one node, so that the exit of the   *)
(* reader of one overlaps the handler of the other.                         *)
EXTENDS PanelRpc, TLC

CONSTANT n1

OneNode == [c \in Conns |-> n1]
=============================================================================
