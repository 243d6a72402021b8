------------------------------- MODULE MCNode -------------------------------
(* Parts of a node that do not wait for each other, side by side: the        *)
(* initial state says which of them runs, and only that one takes steps.     *)
EXTENDS NodeServices, XrayManager, UdpListener, TLC

VARIABLE component

\* NodeServices: the two services of one forward.  createGostServices sends both;
\* the orphan cleanup of the panel sends one.
CONSTANTS tcp, udp
PairAndSingles == {<<tcp, udp>>, <<tcp>>, <<udp>>}

\* The targets of a service, the processes of Xray and the sessions of a listener
\* are interchangeable.
CONSTANTS one, two
Symmetry == Permutations({one, two})

NodeInit ==
    /\ component \in {"services", "xray", "udp"}
    /\ ServicesInit /\ XrayInit /\ UdpInit
NodeNext ==
    /\ UNCHANGED component
    /\ \/ component = "services" /\ ServicesNext /\ UNCHANGED <<xrayVars, udpVars>>
       \/ component = "xray" /\ XrayNext /\ UNCHANGED <<serviceVars, udpVars>>
       \/ component = "udp" /\ UdpNext /\ UNCHANGED <<serviceVars, xrayVars>>
NodeSpec == NodeInit /\ [][NodeNext]_<<component, serviceVars, xrayVars, udpVars>>

\* The types of all parts: registries, files, processes and sessions are in states
\* that exist.
NodeTypeOK == ServicesTypeOK /\ XrayTypeOK /\ UdpTypeOK
=============================================================================
