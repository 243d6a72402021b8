--------------------------- MODULE PortAllocation ---------------------------
(***************************************************************************)
(* The ports of the forwards (go-backend/service/forward.go): a request    *)
(* reads the rows to find a free port (getAllUsedPortsOnNode) and writes   *)
(* its own row later: at once when a forward is created, after the calls   *)
(* to the nodes when it is changed.  No lock, transaction or unique index  *)
(* joins the two, so requests that overlap may choose the same port.       *)
(*                                                                         *)
(* Tunnels and nodes stay what they are here; what the calls to the nodes  *)
(* do is ForwardSync.                                                      *)
(***************************************************************************)
EXTENDS Integers

CONSTANTS Forwards, PTunnels, PNodes,
          EntryNode, ExitNode,  \* the nodes of a tunnel
          Chained,              \* the tunnels of type "tunnel forward"
          NodePorts,            \* the range PortSta..PortEnd of a node
          PRequests,            \* requests in flight
          NoRow, AnyPort           \* no row; no port asked for

ASSUME PortAssumption ==
    /\ EntryNode \in [PTunnels -> PNodes]
    /\ ExitNode \in [PTunnels -> PNodes]
    /\ Chained \subseteq PTunnels
    /\ NodePorts \in [PNodes -> SUBSET (Nat \ {0})]
    /\ AnyPort \notin Nat
    /\ NoRow \notin [tunnel : PTunnels, in : Nat, out : Nat]

VARIABLES
    stored,     \* the row of each forward
    claim,      \* what each request has read or chosen
    rivals      \* history: forwards with requests in flight at the same time

portVars == <<stored, claim, rivals>>

\* The out port is 0 in a port forward, which listens on one node only.
PortRows == [tunnel : PTunnels, in : Nat, out : Nat]
Claims == [phase : {"idle"}] \cup
          [phase : {"read", "create", "update"}, forward : Forwards, row : PortRows,
           want : Nat \cup {AnyPort}, tunnel : PTunnels]
Unclaimed == [phase |-> "idle"]

PortTypeOK ==
    /\ stored \in [Forwards -> PortRows \cup {NoRow}]
    /\ claim \in [PRequests -> Claims]
    /\ rivals \subseteq Forwards \X Forwards

InFlight(f) == \E q \in PRequests : claim[q].phase # "idle" /\ claim[q].forward = f

\* Mutant: the out ports of the tunnels that end at n are forgotten.
UsedOn_EntryOnly(n, f) ==
    LET others == {g \in Forwards \ {f} : stored[g] # NoRow} IN
    {stored[g].in : g \in {h \in others : EntryNode[stored[h].tunnel] = n}}

\* The ports taken on n, but for those of forward f.
UsedOn(n, f) ==
    LET others == {g \in Forwards \ {f} : stored[g] # NoRow} IN
    {stored[g].in : g \in {h \in others : EntryNode[stored[h].tunnel] = n}}
    \cup ({stored[g].out : g \in {h \in others : ExitNode[stored[h].tunnel] = n}} \ {0})

FreeOn(n, f) == NodePorts[n] \ UsedOn(n, f)

\* The lowest free port of a node.
Lowest(n, f, p) ==
    /\ p \in FreeOn(n, f)
    /\ \A other \in FreeOn(n, f) : p <= other

InChoice(t, want, f, p) ==
    IF want = AnyPort THEN Lowest(EntryNode[t], f, p)
                   ELSE p = want /\ want \in FreeOn(EntryNode[t], f)
OutChoice(t, f, p) ==
    IF t \in Chained THEN Lowest(ExitNode[t], f, p) ELSE p = 0

\* allocatePorts; there may be no such ports, and the request fails.
Allocated(t, want, f, row) ==
    /\ row.tunnel = t
    /\ InChoice(t, want, f, row.in)
    /\ OutChoice(t, f, row.out)

Candidates(t) ==
    [tunnel : {t}, in : NodePorts[EntryNode[t]], out : NodePorts[ExitNode[t]] \cup {0}]

\* The requests f now meets; of a forward that is born, nothing older counts.
RivalsOf(f) ==
    LET met == {g \in Forwards \ {f} : InFlight(g)} IN ({f} \X met) \cup (met \X {f})
WithoutRivals(f) == {p \in rivals : f \notin {p[1], p[2]}}

PortInit ==
    /\ stored = [f \in Forwards |-> NoRow]
    /\ claim = [q \in PRequests |-> Unclaimed]
    /\ rivals = {}

\* CreateForward: ports are chosen for a row that gets its id when it is inserted.
BeginCreate(q, f, t, want) ==
    /\ claim[q] = Unclaimed
    /\ stored[f] = NoRow /\ ~InFlight(f)
    /\ \E row \in Candidates(t) :
         /\ Allocated(t, want, f, row)
         /\ claim' = [claim EXCEPT ![q] = [phase |-> "create", forward |-> f, row |-> row,
                                           want |-> want, tunnel |-> t]]
    /\ rivals' = WithoutRivals(f) \cup RivalsOf(f)
    /\ UNCHANGED stored

StoreCreate(q) ==
    /\ claim[q].phase = "create"
    /\ stored' = [stored EXCEPT ![claim[q].forward] = claim[q].row]
    /\ claim' = [claim EXCEPT ![q] = Unclaimed]
    /\ UNCHANGED rivals

\* UpdateForward reads the row it is to change.
BeginUpdate(q, f, t, want) ==
    /\ claim[q] = Unclaimed
    /\ stored[f] # NoRow
    /\ claim' = [claim EXCEPT ![q] = [phase |-> "read", forward |-> f, row |-> stored[f],
                                      want |-> want, tunnel |-> t]]
    /\ rivals' = rivals \cup RivalsOf(f)
    /\ UNCHANGED stored

\* Mutant: the ports are kept when only the tunnel changes.
NeedsPorts_PortOnly(c) == c.want \notin {AnyPort, c.row.in}

\* Ports are chosen anew when the tunnel or the port changes, and kept otherwise.
NeedsPorts(c) == c.tunnel # c.row.tunnel \/ c.want \notin {AnyPort, c.row.in}
ChooseUpdate(q) ==
    LET c == claim[q] IN
    /\ c.phase = "read"
    /\ IF NeedsPorts(c)
       THEN \E row \in Candidates(c.tunnel) :
              /\ Allocated(c.tunnel, c.want, c.forward, row)
              /\ claim' = [claim EXCEPT ![q].phase = "update", ![q].row = row]
       ELSE claim' = [claim EXCEPT ![q].phase = "update", ![q].row.tunnel = c.tunnel]
    /\ UNCHANGED <<stored, rivals>>

\* The row is written by its id: nothing happens to one that was deleted.
StoreUpdate(q) ==
    LET f == claim[q].forward IN
    /\ claim[q].phase = "update"
    /\ stored' = IF stored[f] = NoRow THEN stored ELSE [stored EXCEPT ![f] = claim[q].row]
    /\ claim' = [claim EXCEPT ![q] = Unclaimed]
    /\ UNCHANGED rivals

\* No port is free, or a node refused: the ports in the row stay.
AbandonUpdate(q) ==
    /\ claim[q].phase \in {"read", "update"}
    /\ claim' = [claim EXCEPT ![q] = Unclaimed]
    /\ UNCHANGED <<stored, rivals>>

RemoveForward(f) ==
    /\ stored[f] # NoRow
    /\ stored' = [stored EXCEPT ![f] = NoRow]
    /\ UNCHANGED <<claim, rivals>>

PortNext ==
    \/ \E q \in PRequests :
         \/ \E f \in Forwards, t \in PTunnels :
              \E want \in NodePorts[EntryNode[t]] \cup {AnyPort} :
                BeginCreate(q, f, t, want) \/ BeginUpdate(q, f, t, want)
         \/ StoreCreate(q) \/ ChooseUpdate(q) \/ StoreUpdate(q) \/ AbandonUpdate(q)
    \/ \E f \in Forwards : RemoveForward(f)

PortSpec == PortInit /\ [][PortNext]_portVars
-----------------------------------------------------------------------------
KeysOf(row) ==
    IF row = NoRow THEN {}
    ELSE {<<EntryNode[row.tunnel], row.in>>} \cup
         (IF row.out = 0 THEN {} ELSE {<<ExitNode[row.tunnel], row.out>>})

\* Two forwards share a port of a node only if requests for them overlapped: the
\* check of getAllUsedPortsOnNode covers the in and out ports of every tunnel.
SharedPortsNeedOverlap ==
    \A f, g \in Forwards :
        f # g /\ KeysOf(stored[f]) \cap KeysOf(stored[g]) # {} => <<f, g>> \in rivals

\* The allocation implements the ledger of ports.
Ledger == INSTANCE PortLedger WITH
    Holders <- Forwards,
    holding <- [f \in Forwards |-> KeysOf(stored[f])],
    rivals <- rivals
ImplementsLedger == Ledger!LedgerSpec

=============================================================================
