--------------------------- MODULE MCForwardSync ----------------------------
(* ForwardSync for TLC: a tunnel forward from n1 to n2, or a forward that   *)
(* moves between a port forward on n1 and one on n2.                        *)
EXTENDS ForwardSync, TLC

CONSTANTS n1, n2, t1, t2, p1, p2, g1, g2, u1, u2

MCNodes == {n1, n2}
OneTunnel == {t1}
TwoTunnels == {t1, t2}
TunnelIn == t1 :> n1
TunnelOut == t1 :> n2
MixOut == t1 :> n2 @@ t2 :> NoNode
PortIn == t1 :> n1
PortOut == t1 :> NoNode
MoveIn == t1 :> n1 @@ t2 :> n2
MoveOut == t1 :> NoNode @@ t2 :> NoNode
MCPorts == {p1}
TwoPorts == {p1, p2}
OneTarget == {g1}
MCTargets == {g1, g2}
OneRequest == {u1}
TwoRequests == {u1, u2}
RepairFaults == {"refused", "restart", "timeout"}
MCNodeA == {n1}
MCNodeB == {n2}
NoFaults == {}
AllFaults == FaultKinds
RequestSymmetry == Permutations(TwoRequests)
\* A late command, or two requests at once: not both.
LateOrOverlapping == late = {} \/ \E p \in Requests : ~Busy(p)
\* Once something has failed or overlapped, the forward stays where it is.
SmoothOrInPlace ==
    \/ smooth
    \/ /\ row.tunnel = t1
       /\ \A n \in Nodes, x \in Pieces : piece[n][x] = Absent \/ piece[n][x].port = row.port
       /\ \A p \in Procs : proc[p].row = Absent
                            \/ (proc[p].row.tunnel = t1 /\ proc[p].row.port = row.port)
Symmetry == Permutations(MCTargets) \cup Permutations(TwoPorts)
=============================================================================
