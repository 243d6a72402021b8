------------------------------- MODULE MCPanel ------------------------------
(* Parts of the panel that do not wait for each other, side by side: the     *)
(* initial state says which of them runs, and only that one takes steps.     *)
EXTENDS PortAllocation, TrafficAccounting, XrayClients, PanelRecords, TLC

CONSTANT Parts   \* those a run follows
VARIABLE component

\* Forwards, clients and tunnels are interchangeable, and requests, in each part
\* for itself.
CONSTANTS one, two
Symmetry == Permutations({one, two}) \cup Permutations(XRequests)

\* PortAllocation: a tunnel from n1 to n2 and one on n2 alone.
CONSTANTS n1, n2, long, short
MCEntryNode == long :> n1 @@ short :> n2
MCExitNode == long :> n2 @@ short :> n2
MCNodePorts == n1 :> {1} @@ n2 :> {1, 2}

\* TrafficAccounting: two forwards with one permission, one of them through a tunnel.
CONSTANT p1
MCPermitOf == long :> p1 @@ short :> p1
MCPermitLimit == p1 :> 2

\* Either the bytes of both ends of the tunnel are followed, one at its exit; or those
\* of the two entries, without lost answers: with requests for the forward without a
\* tunnel and an exit that no call reaches, or with users and permissions that are
\* switched and pauses that no report decides, one report at a time.
OnlyBytes ==
    /\ NodeNext \/ ReportNext
    /\ carried'[<<short, "entry">>] = 0 /\ socket'[<<short, "entry">>] = "open"
    /\ carried'[<<long, "exit">>] <= 1
OneReport == \A u, v \in Uploads : upload'[u] # Free /\ upload'[v] # Free => u = v
OnlyEntries == carried'[<<long, "exit">>] = 0 /\ UNCHANGED <<unheard, missed>>
OnlyLimits ==
    /\ NodeNext \/ ReportNext \/ QuotaNext \/ RequestNext
    /\ OnlyEntries /\ socket'[<<long, "exit">>] = "open"
    /\ change'[long] = "none" /\ UNCHANGED <<userOff, permitsOff>>
OnlySwitches ==
    /\ NodeNext \/ ReportNext \/ QuotaNext \/ PauseNext
    /\ OnlyEntries /\ OneReport
    /\ UNCHANGED resets

\* XrayClients: two clients of the first inbound, whose tag is its own; the tag of
\* the second is free text, that of the third has the id of the second in it.
\* Either the clients come and go, and requests that are no uploads follow one
\* another, none but reconciliations once a call has failed; or the other inbounds,
\* without clients, by requests that overlap, while the node is online.
CONSTANTS i1, i2, i3
MCOf == one :> i1 @@ two :> i1
MCTagId == i1 :> i1 @@ i2 :> NoId @@ i3 :> i2
OneAtATime == ~overlapped
OnceFailed ==
    failed => \A r \in XRequests :
        request[r] = NoWork => request'[r] = NoWork \/ request'[r].at \in ReconcileSteps
OnlyFirst == \A i \in XInbounds \ {i1} : inbound'[i] = inbound[i]
OnlyOthers == online' /\ client' = client /\ inbound'[i1] = inbound[i1]

\* PanelRecords: a node, a user, two tunnels, a permit for each, a forward, a speed
\* limit, an inbound, a client and a right.  Each behaviour is about a part of them.
CONSTANTS u1, f1, s1, c1, r1
MCKindOf ==
    n1 :> "node" @@ u1 :> "user" @@ one :> "tunnel" @@ two :> "tunnel" @@ f1 :> "forward"
    @@ <<u1, one>> :> "permit" @@ <<u1, two>> :> "permit" @@ s1 :> "limit"
    @@ i1 :> "inbound" @@ c1 :> "client" @@ r1 :> "right"
MCRecords == DOMAIN MCKindOf
MCShapes ==
    n1 :> {{}} @@ u1 :> {{}} @@ one :> {{n1}} @@ two :> {{n1}}
    @@ f1 :> {{one, u1}, {two, u1}} @@ s1 :> {{one}}
    @@ <<u1, one>> :> {{u1, one}, {u1, one, s1}} @@ <<u1, two>> :> {{u1, two}}
    @@ i1 :> {{n1}} @@ c1 :> {{i1, u1}} @@ r1 :> {{n1, u1}}

Scopes == [tunnel |-> {n1, u1, one, f1, <<u1, one>>},
           move   |-> {one, two, f1, <<u1, one>>, <<u1, two>>},
           xray   |-> {n1, u1, i1, c1, r1},
           speed  |-> {n1, u1, one, s1, <<u1, one>>}]
\* Only the speed scope starts without its node and user; the tunnel a forward moves
\* away from stays, the one it moves to may go.
Founded == \A x \in {n1, u1} : There(x) <=> component # "speed"
InScope ==
    /\ \A x \in Records \ Scopes[component] : record'[x] = record[x]
    /\ component = "move" => \A q \in Erasers : erasing'[q] # Idle => erasing'[q].of # one

PanelInit ==
    /\ component \in Parts
    /\ PortInit /\ AccountInit /\ ClientsInit /\ RecordsInit /\ Founded
PanelNext ==
    /\ UNCHANGED component
    /\ \/ /\ component = "ports" /\ PortNext
          /\ UNCHANGED <<accountVars, clientVars, recordVars>>
       \/ /\ component = "bytes" /\ OnlyBytes
          /\ UNCHANGED <<portVars, clientVars, recordVars>>
       \/ /\ component = "switches" /\ OnlySwitches
          /\ UNCHANGED <<portVars, clientVars, recordVars>>
       \/ /\ component = "limits" /\ OnlyLimits
          /\ UNCHANGED <<portVars, clientVars, recordVars>>
       \/ /\ component = "clients" /\ ClientsNext
          /\ OneAtATime' /\ OnceFailed /\ OnlyFirst
          /\ UNCHANGED <<portVars, accountVars, recordVars>>
       \/ /\ component = "inbounds" /\ ClientsNext /\ OnlyOthers
          /\ UNCHANGED <<portVars, accountVars, recordVars>>
       \/ /\ component \in DOMAIN Scopes /\ RecordsNext /\ InScope
          /\ UNCHANGED <<portVars, accountVars, clientVars>>
PanelSpec ==
    PanelInit /\ [][PanelNext]_<<component, portVars, accountVars, clientVars, recordVars>>

\* The types of all parts: requests, reports and rows are in states that exist.
PanelTypeOK == PortTypeOK /\ AccountTypeOK /\ ClientsTypeOK /\ RecordsTypeOK
=============================================================================
