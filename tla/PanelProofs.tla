---------------------------- MODULE PanelProofs -----------------------------
(***************************************************************************)
(* Theorems about what works on the panel's tables side by side: the ports *)
(* (PortAllocation), for any forwards, tunnels, nodes, ports and requests; *)
(* the rows that name each other (PanelRecords), for any set of rows and   *)
(* any number of requests; and that MCPanel holds these parts, the traffic *)
(* and the clients of Xray as they are.                                    *)
(***************************************************************************)
EXTENDS MCPanel, TrafficAccountingProofs, XrayClientsProofs, TLAPS

-----------------------------------------------------------------------------
(***************************************************************************)
(* Ports.  Between its choice and its write a request relies on what it    *)
(* has read; what it read can only be undone by requests in flight         *)
(* meanwhile, and those are rivals (Chosen, HaveMet).                      *)
(***************************************************************************)
AtWork(q) == claim[q].phase # "idle"
Clash(r, s) == KeysOf(r) \cap KeysOf(s) # {}

\* What a request in flight holds clashes only with the rows of rivals.
Chosen ==
    \A q \in PRequests, g \in Forwards :
        AtWork(q) /\ claim[q].forward # g /\ Clash(claim[q].row, stored[g])
            => <<claim[q].forward, g>> \in rivals

\* Requests in flight for two forwards have met.
HaveMet ==
    \A q, r \in PRequests :
        AtWork(q) /\ AtWork(r) /\ claim[q].forward # claim[r].forward
            => <<claim[q].forward, claim[r].forward>> \in rivals

Mutual == \A f, g \in Forwards : <<f, g>> \in rivals => <<g, f>> \in rivals

PortIInv ==
    /\ PortTypeOK
    /\ SharedPortsNeedOverlap
    /\ Chosen
    /\ HaveMet
    /\ Mutual

\* Ports that were chosen for f are in the row of no other forward.
LEMMA ChoiceIsFree ==
    ASSUME PortTypeOK, NEW t \in PTunnels, NEW want, NEW f \in Forwards,
           NEW row \in Candidates(t), Allocated(t, want, f, row),
           NEW g \in Forwards, g # f
    PROVE  ~Clash(row, stored[g])
<1> USE PortAssumption
<1>1. row.tunnel = t /\ row # NoRow
  BY DEF Candidates
<1>2. row.in \notin UsedOn(EntryNode[t], f)
  BY DEF Allocated, InChoice, Lowest, FreeOn
<1>3. row.out # 0 => row.out \notin UsedOn(ExitNode[t], f)
  BY DEF Allocated, OutChoice, Lowest, FreeOn
<1>4. CASE stored[g] = NoRow
  BY <1>4 DEF Clash, KeysOf
<1>5. CASE stored[g] # NoRow
  <2> DEFINE s == stored[g]
  <2>1. s.in \in UsedOn(EntryNode[s.tunnel], f)
    BY <1>5 DEF UsedOn
  <2>2. s.out # 0 => s.out \in UsedOn(ExitNode[s.tunnel], f)
    BY <1>5 DEF UsedOn
  <2>3. KeysOf(row) = {<<EntryNode[t], row.in>>} \cup
                      (IF row.out = 0 THEN {} ELSE {<<ExitNode[t], row.out>>})
    BY <1>1 DEF KeysOf
  <2>4. KeysOf(s) = {<<EntryNode[s.tunnel], s.in>>} \cup
                    (IF s.out = 0 THEN {} ELSE {<<ExitNode[s.tunnel], s.out>>})
    BY <1>5 DEF KeysOf
  <2> HIDE DEF s
  <2>5. KeysOf(row) \cap KeysOf(s) = {}
    BY <1>2, <1>3, <2>1, <2>2, <2>3, <2>4
  <2>6. QED
    BY <2>5 DEF Clash, s
<1>6. QED
  BY <1>4, <1>5

\* Candidates are rows.
LEMMA CandidatesAreRows ==
    ASSUME NEW t \in PTunnels, NEW row \in Candidates(t)
    PROVE  row \in PortRows /\ row.tunnel = t
BY PortAssumption DEF Candidates, PortRows

\* Whom a request meets are pairs of forwards.
LEMMA RivalsAreForwards ==
    ASSUME NEW f \in Forwards
    PROVE  RivalsOf(f) \subseteq Forwards \X Forwards
BY DEF RivalsOf

\* Two rows clash or not, whichever is named first.
LEMMA ClashIsSymmetric ==
    ASSUME NEW r, NEW s, Clash(r, s)
    PROVE  Clash(s, r)
BY DEF Clash

\* The invariant holds of an empty table.
LEMMA InitPort == PortInit => PortIInv
BY PortAssumption
DEF PortInit, PortIInv, PortTypeOK, SharedPortsNeedOverlap, Chosen, HaveMet, Mutual,
    Claims, Unclaimed, KeysOf, AtWork, Clash

\* Beginning a request: it meets all that are in flight.
LEMMA BeginKeeps ==
    ASSUME PortIInv, NEW q \in PRequests, NEW f \in Forwards, NEW t \in PTunnels,
           NEW want \in Nat \cup {AnyPort},
           BeginCreate(q, f, t, want) \/ BeginUpdate(q, f, t, want)
    PROVE  PortIInv'
<1> USE PortAssumption DEF PortIInv, Unclaimed
<1>1. CASE BeginCreate(q, f, t, want)
  <2>1. PICK row \in Candidates(t) :
           /\ Allocated(t, want, f, row)
           /\ claim' = [claim EXCEPT ![q] = [phase |-> "create", forward |-> f, row |-> row,
                                             want |-> want, tunnel |-> t]]
    BY <1>1 DEF BeginCreate
  <2>2. /\ stored' = stored /\ stored[f] = NoRow /\ ~InFlight(f)
        /\ rivals' = WithoutRivals(f) \cup RivalsOf(f)
    BY <1>1 DEF BeginCreate
  <2>3. row \in PortRows
    BY CandidatesAreRows
  <2>4. PortTypeOK'
    <3>1. claim' \in [PRequests -> Claims]
      BY <2>1, <2>3 DEF PortTypeOK, Claims
    <3>2. WithoutRivals(f) \subseteq Forwards \X Forwards
      BY DEF WithoutRivals, PortTypeOK
    <3>3. rivals' \subseteq Forwards \X Forwards
      <4> HIDE DEF PortIInv
      <4>1. RivalsOf(f) \subseteq Forwards \X Forwards
        BY RivalsAreForwards
      <4>2. QED
        BY <2>2, <3>2, <4>1
    <3>4. QED
      BY <2>2, <3>1, <3>3 DEF PortTypeOK
  <2>5. \A g, h \in Forwards : g # f /\ h # f => (<<g, h>> \in rivals' <=> <<g, h>> \in rivals)
    BY <2>2 DEF WithoutRivals, RivalsOf
  <2>6. \A g \in Forwards \ {f} : InFlight(g) => <<f, g>> \in rivals' /\ <<g, f>> \in rivals'
    BY <2>2 DEF RivalsOf
  <2>7. \A p \in PRequests : p # q => claim'[p] = claim[p]
    BY <2>1 DEF PortTypeOK
  <2>8. claim'[q].forward = f /\ claim'[q].row = row
    BY <2>1 DEF PortTypeOK
  <2>9. \A p \in PRequests : AtWork(p) => InFlight(claim[p].forward) /\ claim[p].forward \in Forwards \ {f}
    BY <2>2 DEF AtWork, InFlight, PortTypeOK, Claims
  <2>10. SharedPortsNeedOverlap'
    BY <2>2, <2>5 DEF SharedPortsNeedOverlap, KeysOf
  <2>11. Chosen'
    <3> SUFFICES ASSUME NEW p \in PRequests, NEW g \in Forwards, AtWork(p)',
                        claim'[p].forward # g, Clash(claim'[p].row, stored'[g])
                 PROVE  <<claim'[p].forward, g>> \in rivals'
      BY DEF Chosen, Clash, KeysOf, AtWork
    <3>1. CASE p = q
      BY <3>1, <2>1, <2>2, <2>8, ChoiceIsFree
    <3>2. CASE p # q
      <4>1. claim'[p] = claim[p] /\ AtWork(p) /\ claim[p].forward \in Forwards \ {f}
        BY <3>2, <2>7, <2>9 DEF AtWork
      <4>2. CASE g = f
        BY <4>2, <2>2 DEF Clash, KeysOf
      <4>3. CASE g # f
        BY <4>1, <4>3, <2>2, <2>5 DEF Chosen
      <4>4. QED
        BY <4>2, <4>3
    <3>3. QED
      BY <3>1, <3>2
  <2>12. HaveMet'
    <3> SUFFICES ASSUME NEW p \in PRequests, NEW r \in PRequests, AtWork(p)', AtWork(r)',
                        claim'[p].forward # claim'[r].forward
                 PROVE  <<claim'[p].forward, claim'[r].forward>> \in rivals'
      BY DEF HaveMet, AtWork
    <3>1. CASE p = q
      BY <3>1, <2>6, <2>7, <2>8, <2>9 DEF AtWork
    <3>2. CASE r = q
      BY <3>2, <2>6, <2>7, <2>8, <2>9 DEF AtWork
    <3>3. CASE p # q /\ r # q
      BY <3>3, <2>5, <2>7, <2>9 DEF AtWork, HaveMet
    <3>4. QED
      BY <3>1, <3>2, <3>3
  <2>13. Mutual'
    BY <2>2 DEF Mutual, WithoutRivals, RivalsOf
  <2>14. QED
    BY <2>4, <2>10, <2>11, <2>12, <2>13
<1>2. CASE BeginUpdate(q, f, t, want)
  <2>1. /\ claim' = [claim EXCEPT ![q] = [phase |-> "read", forward |-> f, row |-> stored[f],
                                          want |-> want, tunnel |-> t]]
        /\ stored' = stored /\ stored[f] \in PortRows
        /\ rivals' = rivals \cup RivalsOf(f)
    BY <1>2 DEF BeginUpdate, PortTypeOK
  <2>2. PortTypeOK'
    <3>1. claim' \in [PRequests -> Claims]
      BY <2>1 DEF PortTypeOK, Claims
    <3>2. rivals' \subseteq Forwards \X Forwards
      <4>1. rivals \subseteq Forwards \X Forwards
        BY DEF PortTypeOK
      <4>2. RivalsOf(f) \subseteq Forwards \X Forwards
        BY RivalsAreForwards
      <4>3. QED
        BY <2>1, <4>1, <4>2
    <3>3. QED
      BY <2>1, <3>1, <3>2 DEF PortTypeOK
  <2>3. rivals \subseteq rivals'
    BY <2>1
  <2>4. \A g \in Forwards \ {f} : InFlight(g) => <<f, g>> \in rivals' /\ <<g, f>> \in rivals'
    BY <2>1 DEF RivalsOf
  <2>5. \A p \in PRequests : p # q => claim'[p] = claim[p]
    BY <2>1 DEF PortTypeOK
  <2>6. claim'[q].forward = f /\ claim'[q].row = stored[f]
    BY <2>1 DEF PortTypeOK
  <2>7. \A p \in PRequests : AtWork(p) => InFlight(claim[p].forward) /\ claim[p].forward \in Forwards
    BY DEF AtWork, InFlight, PortTypeOK, Claims
  <2>8. SharedPortsNeedOverlap'
    BY <2>1, <2>3 DEF SharedPortsNeedOverlap, KeysOf
  <2>9. Chosen'
    <3> SUFFICES ASSUME NEW p \in PRequests, NEW g \in Forwards, AtWork(p)',
                        claim'[p].forward # g, Clash(claim'[p].row, stored'[g])
                 PROVE  <<claim'[p].forward, g>> \in rivals'
      BY DEF Chosen, Clash, KeysOf, AtWork
    <3>1. CASE p = q
      BY <3>1, <2>1, <2>3, <2>6 DEF SharedPortsNeedOverlap, Clash
    <3>2. CASE p # q
      BY <3>2, <2>1, <2>3, <2>5 DEF Chosen, AtWork
    <3>3. QED
      BY <3>1, <3>2
  <2>10. HaveMet'
    <3> SUFFICES ASSUME NEW p \in PRequests, NEW r \in PRequests, AtWork(p)', AtWork(r)',
                        claim'[p].forward # claim'[r].forward
                 PROVE  <<claim'[p].forward, claim'[r].forward>> \in rivals'
      BY DEF HaveMet, AtWork
    <3>1. CASE p = q
      BY <3>1, <2>4, <2>5, <2>6, <2>7 DEF AtWork
    <3>2. CASE r = q
      BY <3>2, <2>4, <2>5, <2>6, <2>7 DEF AtWork
    <3>3. CASE p # q /\ r # q
      BY <3>3, <2>3, <2>5, <2>7 DEF AtWork, HaveMet
    <3>4. QED
      BY <3>1, <3>2, <3>3
  <2>11. Mutual'
    BY <2>1 DEF Mutual, RivalsOf
  <2>12. QED
    BY <2>2, <2>8, <2>9, <2>10, <2>11
<1>3. QED
  BY <1>1, <1>2

\* Choosing the ports of a change: they are free, or those of the row as it was read.
LEMMA ChooseKeeps ==
    ASSUME PortIInv, NEW q \in PRequests, ChooseUpdate(q)
    PROVE  PortIInv'
<1> USE PortAssumption DEF PortIInv, Unclaimed
<1> DEFINE c == claim[q]
<1>1. /\ c.phase = "read" /\ c \in Claims /\ c.forward \in Forwards /\ c.tunnel \in PTunnels
      /\ c.row \in PortRows
      /\ stored' = stored /\ rivals' = rivals
  BY DEF ChooseUpdate, PortTypeOK, Claims
<1>2. PICK row \in PortRows :
         /\ claim' = [claim EXCEPT ![q].phase = "update", ![q].row = row]
         /\ \/ row.in = c.row.in /\ row.out = c.row.out /\ row.tunnel = c.row.tunnel
            \/ row \in Candidates(c.tunnel) /\ Allocated(c.tunnel, c.want, c.forward, row)
  <2>1. CASE NeedsPorts(c)
    BY <1>1, <2>1, CandidatesAreRows DEF ChooseUpdate
  <2>2. CASE ~NeedsPorts(c)
    <3>1. claim' = [claim EXCEPT ![q].phase = "update", ![q].row.tunnel = c.tunnel]
      BY <1>1, <2>2 DEF ChooseUpdate
    <3>2. c.tunnel = c.row.tunnel
      BY <2>2 DEF NeedsPorts
    <3>3. [c.row EXCEPT !.tunnel = c.tunnel] = c.row
      BY <1>1, <3>2 DEF PortRows
    <3>4. claim' = [claim EXCEPT ![q].phase = "update", ![q].row = c.row]
      BY <3>1, <3>3
    <3>5. QED
      BY <1>1, <3>4
  <2>3. QED
    BY <2>1, <2>2
<1>3. /\ \A p \in PRequests : p # q => claim'[p] = claim[p]
      /\ claim'[q].phase = "update" /\ claim'[q].forward = c.forward /\ claim'[q].row = row
  BY <1>1, <1>2 DEF PortTypeOK, Claims
<1>4. \A p \in PRequests : AtWork(p)' => AtWork(p) /\ claim'[p].forward = claim[p].forward
  BY <1>1, <1>3 DEF AtWork
<1>5. PortTypeOK'
  BY <1>1, <1>2 DEF PortTypeOK, Claims
<1>6. SharedPortsNeedOverlap'
  BY <1>1 DEF SharedPortsNeedOverlap, KeysOf
<1>7. Chosen'
  <2> SUFFICES ASSUME NEW p \in PRequests, NEW g \in Forwards, AtWork(p)',
                      claim'[p].forward # g, Clash(claim'[p].row, stored'[g])
               PROVE  <<claim'[p].forward, g>> \in rivals'
    BY DEF Chosen, Clash, KeysOf, AtWork
  <2>1. CASE p # q
    BY <2>1, <1>1, <1>3, <1>4 DEF Chosen
  <2>2. CASE p = q
    <3>1. CASE row \in Candidates(c.tunnel) /\ Allocated(c.tunnel, c.want, c.forward, row)
      BY <3>1, <2>2, <1>1, <1>3, ChoiceIsFree
    <3>2. CASE row.in = c.row.in /\ row.out = c.row.out /\ row.tunnel = c.row.tunnel
      <4>1. row = c.row
        BY <3>2, <1>1 DEF PortRows
      <4>2. QED
        BY <4>1, <2>2, <1>1, <1>3, <1>4 DEF Chosen
    <3>3. QED
      BY <3>1, <3>2, <1>2
  <2>3. QED
    BY <2>1, <2>2
<1>8. HaveMet'
  BY <1>1, <1>4 DEF HaveMet, AtWork
<1>9. Mutual'
  BY <1>1 DEF Mutual
<1>10. QED
  BY <1>5, <1>6, <1>7, <1>8, <1>9

\* Writing the row, or not: what the request held was free of all but rivals.
LEMMA WriteKeeps ==
    ASSUME PortIInv, NEW q \in PRequests,
           StoreCreate(q) \/ StoreUpdate(q) \/ AbandonUpdate(q)
    PROVE  PortIInv'
<1> USE PortAssumption DEF PortIInv, Unclaimed
<1> DEFINE f == claim[q].forward
<1>1. /\ AtWork(q) /\ f \in Forwards /\ claim[q].row \in PortRows
      /\ claim' = [claim EXCEPT ![q] = Unclaimed] /\ rivals' = rivals
      /\ \/ stored' = stored
         \/ stored' = [stored EXCEPT ![f] = claim[q].row]
  BY DEF StoreCreate, StoreUpdate, AbandonUpdate, PortTypeOK, Claims, AtWork
<1>2. /\ \A p \in PRequests : AtWork(p)' => AtWork(p) /\ p # q /\ claim'[p] = claim[p]
      /\ \A g \in Forwards \ {f} : stored'[g] = stored[g]
      /\ stored'[f] \in {stored[f], claim[q].row}
  BY <1>1 DEF AtWork, PortTypeOK
<1>3. PortTypeOK'
  BY <1>1 DEF PortTypeOK, Claims
<1>4. \A g \in Forwards \ {f} : Clash(claim[q].row, stored[g]) =>
          <<f, g>> \in rivals /\ <<g, f>> \in rivals
  BY <1>1 DEF Chosen, Mutual
<1>5. SharedPortsNeedOverlap'
  <2> SUFFICES ASSUME NEW g \in Forwards, NEW h \in Forwards, g # h,
                      Clash(stored'[g], stored'[h])
               PROVE  <<g, h>> \in rivals
    BY <1>1 DEF SharedPortsNeedOverlap, Clash, KeysOf
  <2>1. CASE stored'[g] = stored[g] /\ stored'[h] = stored[h]
    BY <2>1 DEF SharedPortsNeedOverlap, Clash
  <2>2. CASE g = f /\ stored'[g] = claim[q].row
    BY <2>2, <1>2, <1>4
  <2>3. CASE h = f /\ stored'[h] = claim[q].row
    BY <2>3, <1>2, <1>4, ClashIsSymmetric
  <2>4. QED
    BY <2>1, <2>2, <2>3, <1>2
<1>6. Chosen'
  <2> SUFFICES ASSUME NEW p \in PRequests, NEW g \in Forwards, AtWork(p)',
                      claim'[p].forward # g, Clash(claim'[p].row, stored'[g])
               PROVE  <<claim'[p].forward, g>> \in rivals
    BY <1>1 DEF Chosen, Clash, KeysOf, AtWork
  <2>1. AtWork(p) /\ claim'[p] = claim[p]
    BY <1>2
  <2>2. CASE stored'[g] = stored[g]
    BY <2>1, <2>2 DEF Chosen
  <2>3. CASE stored'[g] # stored[g]
    BY <2>1, <2>3, <1>1, <1>2 DEF HaveMet
  <2>4. QED
    BY <2>2, <2>3
<1>7. HaveMet'
  BY <1>1, <1>2 DEF HaveMet, AtWork
<1>8. Mutual'
  BY <1>1 DEF Mutual
<1>9. QED
  BY <1>3, <1>5, <1>6, <1>7, <1>8

\* A row that is gone clashes with nothing.
LEMMA RemoveKeeps ==
    ASSUME PortIInv, NEW f \in Forwards, RemoveForward(f)
    PROVE  PortIInv'
<1> USE PortAssumption DEF PortIInv
<1>1. /\ stored' = [stored EXCEPT ![f] = NoRow] /\ claim' = claim /\ rivals' = rivals
  BY DEF RemoveForward
<1>2. \A g \in Forwards : stored'[g] = stored[g] \/ stored'[g] = NoRow
  BY <1>1 DEF PortTypeOK
<1>3. \A r : ~Clash(r, NoRow) /\ ~Clash(NoRow, r)
  BY DEF Clash, KeysOf
<1>4. PortTypeOK'
  BY <1>1 DEF PortTypeOK
<1>5. SharedPortsNeedOverlap'
  <2> SUFFICES ASSUME NEW g \in Forwards, NEW h \in Forwards, g # h,
                      Clash(stored'[g], stored'[h])
               PROVE  <<g, h>> \in rivals
    BY <1>1 DEF SharedPortsNeedOverlap, Clash, KeysOf
  <2>1. QED
    BY <1>2, <1>3 DEF SharedPortsNeedOverlap, Clash
<1>6. Chosen'
  <2> SUFFICES ASSUME NEW p \in PRequests, NEW g \in Forwards, AtWork(p),
                      claim[p].forward # g, Clash(claim[p].row, stored'[g])
               PROVE  <<claim[p].forward, g>> \in rivals
    BY <1>1 DEF Chosen, Clash, KeysOf, AtWork
  <2>1. QED
    BY <1>2, <1>3 DEF Chosen
<1>7. HaveMet' /\ Mutual'
  BY <1>1 DEF HaveMet, Mutual, AtWork
<1>8. QED
  BY <1>4, <1>5, <1>6, <1>7

\* Every step keeps the invariant.
LEMMA NextPort == PortIInv /\ [PortNext]_portVars => PortIInv'
<1> SUFFICES ASSUME PortIInv, [PortNext]_portVars PROVE PortIInv'
  OBVIOUS
<1>1. ASSUME NEW q \in PRequests, NEW f \in Forwards, NEW t \in PTunnels,
             NEW want \in NodePorts[EntryNode[t]] \cup {AnyPort},
             BeginCreate(q, f, t, want) \/ BeginUpdate(q, f, t, want)
      PROVE  PortIInv'
  <2>1. want \in Nat \cup {AnyPort}
    BY PortAssumption
  <2>2. QED
    BY <1>1, <2>1, BeginKeeps
<1>2. ASSUME NEW q \in PRequests, ChooseUpdate(q) PROVE PortIInv'
  BY <1>2, ChooseKeeps
<1>3. ASSUME NEW q \in PRequests, StoreCreate(q) \/ StoreUpdate(q) \/ AbandonUpdate(q)
      PROVE  PortIInv'
  BY <1>3, WriteKeeps
<1>4. ASSUME NEW f \in Forwards, RemoveForward(f) PROVE PortIInv'
  BY <1>4, RemoveKeeps
<1>5. CASE UNCHANGED portVars
  BY <1>5 DEF portVars, PortIInv, PortTypeOK, SharedPortsNeedOverlap, Chosen, HaveMet, Mutual,
              AtWork, Clash, KeysOf
<1>6. CASE PortNext
  <2>1. CASE \E f \in Forwards : RemoveForward(f)
    BY <2>1, <1>4
  <2>2. CASE \E q \in PRequests : StoreCreate(q) \/ ChooseUpdate(q) \/ StoreUpdate(q) \/ AbandonUpdate(q)
    BY <2>2, <1>2, <1>3
  <2>3. CASE \E q \in PRequests : \E f \in Forwards, t \in PTunnels :
               \E want \in NodePorts[EntryNode[t]] \cup {AnyPort} :
                 BeginCreate(q, f, t, want) \/ BeginUpdate(q, f, t, want)
    BY <2>3, <1>1
  <2>4. QED
    BY <1>6, <2>1, <2>2, <2>3 DEF PortNext
<1>7. QED
  BY <1>5, <1>6

\* The row of every forward and what every request holds are well formed.
THEOREM PortTypeCorrect == PortSpec => []PortTypeOK
<1>1. PortIInv => PortTypeOK
  BY DEF PortIInv
<1>2. QED
  BY <1>1, InitPort, NextPort, PTL DEF PortSpec

\* The check and the write of the ports together fail only forwards whose requests
\* overlapped, whatever the number of nodes, tunnels and forwards.
THEOREM SharedPortsOverlapped == PortSpec => []SharedPortsNeedOverlap
<1>1. PortIInv => SharedPortsNeedOverlap
  BY DEF PortIInv
<1>2. QED
  BY <1>1, InitPort, NextPort, PTL DEF PortSpec

\* A request that begins only meets others, in the ledger's terms.
LEMMA BeginMeets ==
    ASSUME PortIInv, NEW q \in PRequests, NEW f \in Forwards, NEW t \in PTunnels, NEW want,
           BeginCreate(q, f, t, want) \/ BeginUpdate(q, f, t, want)
    PROVE  Ledger!Meet(f)
<1>1. stored' = stored
  BY DEF BeginCreate, BeginUpdate
<1>2. [g \in Forwards |-> KeysOf(stored[g])]' = [g \in Forwards |-> KeysOf(stored[g])]
  BY <1>1 DEF KeysOf
<1>3. rivals \subseteq Forwards \X Forwards /\ RivalsOf(f) \subseteq Forwards \X Forwards
  BY RivalsAreForwards DEF PortIInv, PortTypeOK
<1>4. \A p \in RivalsOf(f) : f \in {p[1], p[2]}
  BY DEF RivalsOf
<1>5. CASE BeginCreate(q, f, t, want)
  <2>1. stored[f] = NoRow /\ rivals' = WithoutRivals(f) \cup RivalsOf(f)
    BY <1>5 DEF BeginCreate
  <2>2. KeysOf(stored[f]) = {}
    BY <2>1 DEF KeysOf
  <2>3. rivals' \subseteq Forwards \X Forwards
    BY <2>1, <1>3 DEF WithoutRivals
  <2>4. \A p \in Forwards \X Forwards : f \notin {p[1], p[2]} => (p \in rivals' <=> p \in rivals)
    BY <2>1, <1>4 DEF WithoutRivals
  <2>5. QED
    BY <1>2, <2>2, <2>3, <2>4 DEF Ledger!Meet
<1>6. CASE BeginUpdate(q, f, t, want)
  <2>1. rivals' = rivals \cup RivalsOf(f)
    BY <1>6 DEF BeginUpdate
  <2>2. rivals' \subseteq Forwards \X Forwards
    BY <2>1, <1>3
  <2>3. \A p \in Forwards \X Forwards : f \notin {p[1], p[2]} => (p \in rivals' <=> p \in rivals)
    BY <2>1, <1>4
  <2>4. QED
    BY <1>2, <2>1, <2>2, <2>3 DEF Ledger!Meet
<1>7. QED
  BY <1>5, <1>6

\* A row that is written takes its ports, one that is deleted takes none.
LEMMA WriteTakes ==
    ASSUME PortIInv, NEW f \in Forwards, NEW row \in PortRows \cup {NoRow},
           stored' = [stored EXCEPT ![f] = row], rivals' = rivals,
           \A g \in Forwards \ {f} : Clash(row, stored[g]) => <<f, g>> \in rivals
    PROVE  Ledger!Take(f, [g \in Forwards |-> KeysOf(stored[g])]'[f])
<1>1. \A g \in Forwards : stored'[g] = IF g = f THEN row ELSE stored[g]
  BY DEF PortIInv, PortTypeOK
<1> DEFINE holding == [g \in Forwards |-> KeysOf(stored[g])]
<1>2. holding' = [g \in Forwards |-> KeysOf(stored'[g])]
  BY DEF KeysOf
<1>3. holding'[f] = KeysOf(row)
  BY <1>1, <1>2
<1>4. holding' = [holding EXCEPT ![f] = KeysOf(row)]
  <2>1. \A g \in Forwards : KeysOf(stored'[g]) = IF g = f THEN KeysOf(row) ELSE KeysOf(stored[g])
    BY <1>1
  <2>2. [holding EXCEPT ![f] = KeysOf(row)] =
          [g \in Forwards |-> IF g = f THEN KeysOf(row) ELSE KeysOf(stored[g])]
    OBVIOUS
  <2>3. QED
    BY <1>2, <2>1, <2>2, Zenon
<1>5. \A g \in Forwards \ {f} : KeysOf(row) \cap holding[g] # {} => <<f, g>> \in rivals
  BY DEF Clash
<1> HIDE DEF holding
<1>6. QED
  BY <1>3, <1>4, <1>5 DEF Ledger!Take, holding

\* Every step of the allocation is a step of the ledger, or none.
LEMMA StepImplementsLedger ==
    PortIInv /\ [PortNext]_portVars => [Ledger!LedgerNext]_(Ledger!ledgerVars)
<1> SUFFICES ASSUME PortIInv, [PortNext]_portVars
             PROVE  [Ledger!LedgerNext]_(Ledger!ledgerVars)
  OBVIOUS
<1> DEFINE holding == [g \in Forwards |-> KeysOf(stored[g])]
<1>1. ASSUME stored' = stored, rivals' = rivals PROVE UNCHANGED Ledger!ledgerVars
  BY <1>1 DEF Ledger!ledgerVars, KeysOf
<1>2. ASSUME NEW q \in PRequests, StoreCreate(q) \/ StoreUpdate(q) \/ AbandonUpdate(q)
      PROVE  [Ledger!LedgerNext]_(Ledger!ledgerVars)
  <2> DEFINE f == claim[q].forward
  <2>1. /\ AtWork(q) /\ f \in Forwards /\ claim[q].row \in PortRows /\ rivals' = rivals
        /\ \/ stored' = stored
           \/ stored' = [stored EXCEPT ![f] = claim[q].row]
    BY <1>2 DEF StoreCreate, StoreUpdate, AbandonUpdate, PortIInv, PortTypeOK, Claims, AtWork, Unclaimed
  <2>2. \A g \in Forwards \ {f} : Clash(claim[q].row, stored[g]) => <<f, g>> \in rivals
    BY <2>1 DEF PortIInv, Chosen
  <2>3. CASE stored' = stored
    BY <2>1, <2>3, <1>1
  <2>4. CASE stored' = [stored EXCEPT ![f] = claim[q].row]
    <3>1. Ledger!Take(f, holding'[f])
      BY <2>1, <2>2, <2>4, WriteTakes
    <3>2. QED
      BY <2>1, <3>1 DEF Ledger!LedgerNext
  <2>5. QED
    BY <2>1, <2>3, <2>4
<1>3. ASSUME NEW f \in Forwards, RemoveForward(f) PROVE [Ledger!LedgerNext]_(Ledger!ledgerVars)
  <2>1. \A g \in Forwards : ~Clash(NoRow, stored[g])
    BY DEF Clash, KeysOf
  <2>2. Ledger!Take(f, holding'[f])
    BY <1>3, <2>1, WriteTakes DEF RemoveForward
  <2>3. QED
    BY <2>2 DEF Ledger!LedgerNext
<1>4. ASSUME NEW q \in PRequests, NEW f \in Forwards, NEW t \in PTunnels,
             NEW want \in NodePorts[EntryNode[t]] \cup {AnyPort},
             BeginCreate(q, f, t, want) \/ BeginUpdate(q, f, t, want)
      PROVE  [Ledger!LedgerNext]_(Ledger!ledgerVars)
  <2>1. Ledger!Meet(f)
    BY <1>4, BeginMeets
  <2>2. QED
    BY <2>1 DEF Ledger!LedgerNext
<1>5. ASSUME NEW q \in PRequests, ChooseUpdate(q) PROVE UNCHANGED Ledger!ledgerVars
  BY <1>1, <1>5 DEF ChooseUpdate
<1>6. CASE UNCHANGED portVars
  BY <1>1, <1>6 DEF portVars
<1>7. CASE PortNext
  <2>1. CASE \E f \in Forwards : RemoveForward(f)
    BY <2>1, <1>3
  <2>2. CASE \E q \in PRequests : StoreCreate(q) \/ StoreUpdate(q) \/ AbandonUpdate(q)
    BY <2>2, <1>2
  <2>3. CASE \E q \in PRequests : ChooseUpdate(q)
    BY <2>3, <1>5
  <2>4. CASE \E q \in PRequests : \E f \in Forwards, t \in PTunnels :
               \E want \in NodePorts[EntryNode[t]] \cup {AnyPort} :
                 BeginCreate(q, f, t, want) \/ BeginUpdate(q, f, t, want)
    BY <2>4, <1>4
  <2>5. QED
    BY <1>7, <2>1, <2>2, <2>3, <2>4 DEF PortNext
<1>8. QED
  BY <1>6, <1>7

\* The allocation of ports implements the ledger.
THEOREM AllocationImplementsLedger == PortSpec => ImplementsLedger
<1>1. PortInit => Ledger!LedgerInit
  <2> SUFFICES ASSUME PortInit PROVE Ledger!LedgerInit
    OBVIOUS
  <2>1. \A f \in Forwards : KeysOf(stored[f]) = {}
    BY DEF PortInit, KeysOf
  <2>2. QED
    BY <2>1 DEF Ledger!LedgerInit, PortInit
<1>2. QED
  BY <1>1, InitPort, NextPort, StepImplementsLedger, PTL
  DEF PortSpec, ImplementsLedger, Ledger!LedgerSpec

-----------------------------------------------------------------------------
(***************************************************************************)
(* The rows.  The invariant behind the theorems says what a deletion still *)
(* has to do: a row below the one that is being deleted, whose writing did *)
(* not meet the deletion, is dealt with by what is left of its plan        *)
(* (Pursued).                                                              *)
(***************************************************************************)
\* What is left of a plan to do about the children of a kind.
Covers(plan, k) == \E i \in 1..Len(plan) : plan[i].do \in {"refuse", "wipe"} /\ plan[i].kind = k
Lists(plan, k) == \E i \in 1..Len(plan) : plan[i].do = "list" /\ plan[i].kind = k

\* What is listed is dealt with next, each of it: forwards are deleted, of
\* inbounds the clients.  Inbounds are wiped after their clients, and permits
\* after the forwards.
WellPlanned(plan) ==
    \A i \in 1..Len(plan) :
        /\ plan[i].do = "list" =>
             /\ plan[i].kind \in {"forward", "inbound"}
             /\ i + 1 \in 1..Len(plan) /\ plan[i + 1].do = "each"
             /\ plan[i + 1].kind = IF plan[i].kind = "inbound" THEN "client" ELSE "forward"
        /\ plan[i].do = "each" => plan[i].kind \in {"forward", "client"}
        /\ plan[i].do = "wipe" =>
             /\ plan[i].kind \in {"permit", "inbound", "client", "right"}
             /\ plan[i].kind = "inbound" => \A j \in i..Len(plan) : plan[j].do # "list"
             /\ plan[i].kind = "permit" =>
                  \A j \in i..Len(plan) : plan[j].do # "list" /\ plan[j].kind # "forward"

Does(e, k) == e.plan # <<>> /\ Head(e.plan).do = "each" /\ Head(e.plan).kind = k

\* A row that e, a deletion under way, has to look after: it names the row that
\* is deleted, or is a forward of a permit that is.
ChildOf(x, e) ==
    /\ There(x)
    /\ IF KindOf[e.of] = "permit"
       THEN KindOf[x] = "forward" /\ record[x].names \subseteq e.names
       ELSE e.of \in record[x].names /\ ~LeftAlone(x, e.of)

\* It will find the child ...
Finds(x, e) ==
    \/ Covers(e.plan, KindOf[x])
    \/ KindOf[x] = "forward" /\ (Lists(e.plan, "forward") \/ (Does(e, "forward") /\ x \in e.left))

\* ... or the client of an inbound y that goes with the node.
FindsClient(y, e) ==
    Lists(e.plan, "inbound") \/ (Does(e, "client") /\ y \in e.left)

Erasing(q) == erasing[q] # Idle

PursuedBy(e) ==
    /\ \A x \in Records : ChildOf(x, e) /\ e.of \notin met[x] => Finds(x, e)
    /\ \A x, y \in Records :
         (/\ There(x) /\ KindOf[x] = "client" /\ y \in record[x].names
          /\ There(y) /\ KindOf[y] = "inbound" /\ e.of \in record[y].names
          /\ ({y} \cup Parents(y)) \cap met[x] = {})
         => FindsClient(y, e)

Pursued == \A q \in Erasers : Erasing(q) => PursuedBy(erasing[q])

\* Plans are carried out in order, and a permit keeps its user and tunnel.
OrderlyIs(e) ==
    /\ WellPlanned(e.plan)
    /\ record[e.of] # Unborn
    /\ KindOf[e.of] = "permit" =>
         /\ There(e.of) => record[e.of].names \ Kindred("limit") = e.names \ Kindred("limit")
         /\ \A i \in 1..Len(e.plan) : e.plan[i].kind = "forward"
    /\ \A i \in 1..Len(e.plan) :
         e.plan[i].do = "wipe" /\ e.plan[i].kind = "permit" => KindOf[e.of] \in {"user", "tunnel"}
    /\ Does(e, "forward") => e.left \subseteq Kindred("forward")
    /\ Does(e, "client") => e.left \subseteq Kindred("inbound")

Orderly == \A q \in Erasers : Erasing(q) => OrderlyIs(erasing[q])

\* Rows name what they may name.
Shaped ==
    /\ \A x \in Records : There(x) => record[x].names \in Shapes[x]
    /\ \A q \in Writers : writing[q] # Idle =>
         /\ writing[q].names \in Shapes[writing[q].of]
         /\ writing[q].at = "insert" => record[writing[q].of] = Unborn
         /\ writing[q].at = "change" => /\ record[writing[q].of] # Unborn
                                        /\ KindOf[writing[q].of] \in {"forward", "permit"}
         /\ writing[q].at = "settle" => KindOf[writing[q].of] = "forward"
    /\ \A q, r \in Writers :
         (writing[q] # Idle /\ writing[r] # Idle /\ writing[q].at = "insert"
          /\ writing[r].at = "insert" /\ writing[q].of = writing[r].of) => q = r

\* Whoever writes a row has met the deletions above it that are under way.
Met ==
    \A q \in Writers : Busy(writing[q]) => BeingErased \cap Above(writing[q].of) \subseteq writing[q].met

\* What x names is there, or was deleted in a way that x's writing met; an
\* unchecked name may also be nobody's yet.
Stands(x, y, m) ==
    \/ There(y)
    \/ record[y] = Gone /\ ({y} \cup Parents(y)) \cap m # {}
    \/ record[y] = Unborn /\ Unchecked(x, y)

NamesStand ==
    /\ \A x \in Records : There(x) => \A y \in record[x].names :
         Stands(x, y, met[x]) \/ (LeftAlone(x, y) /\ record[y] # Unborn)
    /\ \A q \in Writers : Busy(writing[q]) =>
         \A y \in writing[q].names : Stands(writing[q].of, y, writing[q].met)

Permitted(s, m) ==
    \/ Permitting(s) # {}
    \/ \E p \in m : KindOf[p] = "permit" \/ p \in s

\* A permit that changes keeps its user and tunnel.
PermitChange ==
    \A q \in Writers :
        (writing[q].at = "change" /\ KindOf[writing[q].of] = "permit" /\ There(writing[q].of)) =>
            writing[q].names \ Kindred("limit") = record[writing[q].of].names \ Kindred("limit")

AllPermitted ==
    /\ \A f \in Kindred("forward") : There(f) => Permitted(record[f].names, met[f])
    /\ \A q \in Writers : Busy(writing[q]) /\ KindOf[writing[q].of] = "forward" =>
         Permitted(writing[q].names, writing[q].met)

RecordsIInv ==
    /\ RecordsTypeOK
    /\ Orderly
    /\ Shaped
    /\ Met
    /\ NamesStand
    /\ Pursued
    /\ PermitChange
    /\ AllPermitted
-----------------------------------------------------------------------------
(* Plans.                                                                    *)

Measures == [do : {"refuse", "list", "each", "wipe"}, kind : Kinds]

LEMMA PlanRest ==
    ASSUME NEW plan \in Seq(Measures), plan # <<>>
    PROVE  /\ Head(plan) \in Measures /\ Head(plan) = plan[1] /\ 1 \in 1..Len(plan)
           /\ Tail(plan) \in Seq(Measures) /\ Len(Tail(plan)) = Len(plan) - 1
           /\ Len(plan) \in Nat
           /\ \A i \in 1..Len(Tail(plan)) : Tail(plan)[i] = plan[i + 1] /\ i + 1 \in 1..Len(plan)
           /\ \A i \in 1..Len(plan) : i = 1 \/ (i - 1 \in 1..Len(Tail(plan)) /\ Tail(plan)[i - 1] = plan[i])
OBVIOUS

LEMMA CoversRest ==
    ASSUME NEW plan \in Seq(Measures), plan # <<>>, NEW k
    PROVE  /\ Covers(plan, k) =>
                \/ Head(plan).do \in {"refuse", "wipe"} /\ Head(plan).kind = k
                \/ Covers(Tail(plan), k)
           /\ Lists(plan, k) =>
                \/ Head(plan).do = "list" /\ Head(plan).kind = k
                \/ Lists(Tail(plan), k)
<1>1. ASSUME NEW i \in 1..Len(plan)
      PROVE  \/ plan[i] = Head(plan)
             \/ \E j \in 1..Len(Tail(plan)) : Tail(plan)[j] = plan[i]
  <2>1. CASE i = 1
    BY <2>1, PlanRest
  <2>2. CASE i # 1
    <3>1. i - 1 \in 1..Len(Tail(plan)) /\ Tail(plan)[i - 1] = plan[i]
      BY <2>2, PlanRest
    <3> QED
      BY <3>1
  <2> QED
    BY <2>1, <2>2
<1>2. Covers(plan, k) =>
        (Head(plan).do \in {"refuse", "wipe"} /\ Head(plan).kind = k) \/ Covers(Tail(plan), k)
  <2> SUFFICES ASSUME NEW i \in 1..Len(plan), plan[i].do \in {"refuse", "wipe"}, plan[i].kind = k
               PROVE  (Head(plan).do \in {"refuse", "wipe"} /\ Head(plan).kind = k) \/ Covers(Tail(plan), k)
    BY DEF Covers
  <2> QED
    BY <1>1 DEF Covers
<1>3. Lists(plan, k) => (Head(plan).do = "list" /\ Head(plan).kind = k) \/ Lists(Tail(plan), k)
  <2> SUFFICES ASSUME NEW i \in 1..Len(plan), plan[i].do = "list", plan[i].kind = k
               PROVE  (Head(plan).do = "list" /\ Head(plan).kind = k) \/ Lists(Tail(plan), k)
    BY DEF Lists
  <2> QED
    BY <1>1 DEF Lists
<1> QED
  BY <1>2, <1>3

LEMMA WellPlannedRest ==
    ASSUME NEW plan \in Seq(Measures), plan # <<>>, WellPlanned(plan)
    PROVE  /\ WellPlanned(Tail(plan))
           /\ Head(plan).do = "list" =>
                /\ Head(plan).kind \in {"forward", "inbound"}
                /\ Tail(plan) # <<>> /\ Head(Tail(plan)).do = "each"
                /\ Head(Tail(plan)).kind = IF Head(plan).kind = "inbound" THEN "client" ELSE "forward"
           /\ Head(plan).do = "each" => Head(plan).kind \in {"forward", "client"}
           /\ Head(plan).do = "wipe" =>
                /\ Head(plan).kind \in {"permit", "inbound", "client", "right"}
                /\ Head(plan).kind = "inbound" => ~Lists(plan, "inbound")
                /\ Head(plan).kind = "permit" => ~Covers(plan, "forward") /\ ~Lists(plan, "forward")
<1>1. ASSUME Head(plan).do = "list"
      PROVE  /\ Head(plan).kind \in {"forward", "inbound"}
             /\ Tail(plan) # <<>> /\ Head(Tail(plan)).do = "each"
             /\ Head(Tail(plan)).kind = IF Head(plan).kind = "inbound" THEN "client" ELSE "forward"
  <2>1. /\ plan[1].kind \in {"forward", "inbound"} /\ 2 \in 1..Len(plan) /\ plan[2].do = "each"
        /\ plan[2].kind = IF plan[1].kind = "inbound" THEN "client" ELSE "forward"
    <3>1. 1 \in 1..Len(plan) /\ plan[1].do = "list" /\ 1 + 1 = 2
      BY <1>1, PlanRest
    <3>2. /\ plan[1].kind \in {"forward", "inbound"}
          /\ 1 + 1 \in 1..Len(plan) /\ plan[1 + 1].do = "each"
          /\ plan[1 + 1].kind = IF plan[1].kind = "inbound" THEN "client" ELSE "forward"
      BY <3>1 DEF WellPlanned
    <3> QED
      BY <3>1, <3>2
  <2>2. Tail(plan) \in Seq(Measures) /\ Len(Tail(plan)) >= 1 /\ Tail(plan)[1] = plan[2]
    <3>1. Len(plan) \in Nat /\ Len(Tail(plan)) = Len(plan) - 1 /\ Tail(plan) \in Seq(Measures)
      BY PlanRest
    <3>2. 1 \in 1..Len(Tail(plan)) /\ 1 + 1 = 2
      BY <2>1, <3>1
    <3>3. Tail(plan)[1] = plan[1 + 1]
      BY <3>2, PlanRest
    <3> QED
      BY <3>1, <3>2, <3>3
  <2>3. Tail(plan) # <<>> /\ Head(Tail(plan)) = plan[2] /\ Head(plan) = plan[1]
    <3>1. ASSUME NEW t \in Seq(Measures), Len(t) >= 1
          PROVE  t # <<>> /\ Head(t) = t[1]
      BY <3>1
    <3>2. Tail(plan) # <<>> /\ Head(Tail(plan)) = Tail(plan)[1]
      BY <2>2, <3>1
    <3> QED
      BY <2>2, <3>2, PlanRest
  <2> QED
    BY <2>1, <2>3
<1>2. ASSUME Head(plan).do = "wipe"
      PROVE  /\ Head(plan).kind \in {"permit", "inbound", "client", "right"}
             /\ Head(plan).kind = "inbound" => ~Lists(plan, "inbound")
             /\ Head(plan).kind = "permit" => ~Covers(plan, "forward") /\ ~Lists(plan, "forward")
  BY <1>2, PlanRest DEF WellPlanned, Lists, Covers
<1>3. Head(plan).do = "each" => Head(plan).kind \in {"forward", "client"}
  BY PlanRest DEF WellPlanned
<1>4. WellPlanned(Tail(plan))
  <2> SUFFICES ASSUME NEW i \in 1..Len(Tail(plan))
               PROVE  LET t == Tail(plan) IN
                      /\ t[i].do = "list" =>
                           /\ t[i].kind \in {"forward", "inbound"}
                           /\ i + 1 \in 1..Len(t) /\ t[i + 1].do = "each"
                           /\ t[i + 1].kind = IF t[i].kind = "inbound" THEN "client" ELSE "forward"
                      /\ t[i].do = "each" => t[i].kind \in {"forward", "client"}
                      /\ t[i].do = "wipe" =>
                           /\ t[i].kind \in {"permit", "inbound", "client", "right"}
                           /\ t[i].kind = "inbound" => \A j \in i..Len(t) : t[j].do # "list"
                           /\ t[i].kind = "permit" =>
                                \A j \in i..Len(t) : t[j].do # "list" /\ t[j].kind # "forward"
    BY DEF WellPlanned
  <2> DEFINE t == Tail(plan)
  <2>1. /\ Len(plan) \in Nat /\ Len(t) = Len(plan) - 1 /\ i + 1 \in 1..Len(plan)
        /\ \A j \in 1..Len(t) : t[j] = plan[j + 1]
    BY PlanRest
  <2> HIDE DEF t
  <2>2. t[i] = plan[i + 1]
    BY <2>1, PlanRest DEF t
  <2>3. t[i].do = "list" =>
          /\ t[i].kind \in {"forward", "inbound"}
          /\ i + 1 \in 1..Len(t) /\ t[i + 1].do = "each"
          /\ t[i + 1].kind = IF t[i].kind = "inbound" THEN "client" ELSE "forward"
    BY <2>1, <2>2 DEF WellPlanned
  <2>4. t[i].do = "each" => t[i].kind \in {"forward", "client"}
    BY <2>1, <2>2 DEF WellPlanned
  <2>5. t[i].do = "wipe" =>
          /\ t[i].kind \in {"permit", "inbound", "client", "right"}
          /\ t[i].kind = "inbound" => \A j \in i..Len(t) : t[j].do # "list"
          /\ t[i].kind = "permit" =>
               \A j \in i..Len(t) : t[j].do # "list" /\ t[j].kind # "forward"
    <3> SUFFICES ASSUME plan[i + 1].do = "wipe"
                 PROVE  /\ plan[i + 1].kind \in {"permit", "inbound", "client", "right"}
                        /\ plan[i + 1].kind = "inbound" => \A j \in i..Len(t) : t[j].do # "list"
                        /\ plan[i + 1].kind = "permit" =>
                             \A j \in i..Len(t) : t[j].do # "list" /\ t[j].kind # "forward"
      BY <2>2
    <3>1. /\ plan[i + 1].kind \in {"permit", "inbound", "client", "right"}
          /\ plan[i + 1].kind = "inbound" => \A j \in (i + 1)..Len(plan) : plan[j].do # "list"
          /\ plan[i + 1].kind = "permit" =>
               \A j \in (i + 1)..Len(plan) : plan[j].do # "list" /\ plan[j].kind # "forward"
      BY <2>1 DEF WellPlanned
    <3>2. \A j \in i..Len(t) : j + 1 \in (i + 1)..Len(plan) /\ t[j] = plan[j + 1]
      BY <2>1 DEF t
    <3> QED
      BY <3>1, <3>2
  <2> QED
    BY <2>3, <2>4, <2>5 DEF t
<1> QED
  BY <1>1, <1>2, <1>3, <1>4

LEMMA PlanIs ==
    ASSUME NEW kind \in Kinds
    PROVE  /\ Plan(kind) \in Seq(Measures)
           /\ WellPlanned(Plan(kind))
           /\ \A i \in 1..Len(Plan(kind)) :
                /\ kind = "permit" => Plan(kind)[i].kind = "forward"
                /\ Plan(kind)[i].do = "wipe" /\ Plan(kind)[i].kind = "permit" => kind \in {"user", "tunnel"}
           /\ Plan(kind) # <<>> => Head(Plan(kind)).do # "each"
           /\ \A k \in Kinds : kind \in Named(k) =>
                \/ Covers(Plan(kind), k)
                \/ k = "forward" /\ Lists(Plan(kind), "forward")
                \/ k = "limit" /\ kind = "tunnel"
           /\ kind = "permit" => Lists(Plan(kind), "forward")
           /\ kind = "node" => Lists(Plan(kind), "inbound")
<1> USE DEF Refuse, List, Each, Wipe, Kinds, Measures
<1>1. CASE kind = "node"
  <2> DEFINE P == <<Refuse("tunnel"), List("inbound"), Each("client"), Wipe("inbound"), Wipe("right")>>
  <2>1. Plan(kind) = P
    BY <1>1 DEF Plan
  <2>2. P \in Seq(Measures) /\ Len(P) = 5
    OBVIOUS
  <2>3. /\ P[1].do = "refuse" /\ P[1].kind = "tunnel" /\ P[2].do = "list" /\ P[2].kind = "inbound"
        /\ P[3].do = "each" /\ P[3].kind = "client" /\ P[4].do = "wipe" /\ P[4].kind = "inbound"
        /\ P[5].do = "wipe" /\ P[5].kind = "right" /\ P # <<>> /\ Head(P) = P[1]
    OBVIOUS
  <2> HIDE DEF P
  <2>4. WellPlanned(P)
    BY <2>2, <2>3 DEF WellPlanned
  <2>5. Covers(P, "tunnel") /\ Covers(P, "inbound") /\ Covers(P, "right") /\ Lists(P, "inbound")
    BY <2>2, <2>3 DEF Covers, Lists
  <2> QED
    BY <1>1, <2>1, <2>2, <2>3, <2>4, <2>5 DEF Named
<1>2. CASE kind = "tunnel"
  <2> DEFINE P == <<Refuse("forward"), Wipe("permit")>>
  <2>1. Plan(kind) = P
    BY <1>2 DEF Plan
  <2>2. P \in Seq(Measures) /\ Len(P) = 2
    OBVIOUS
  <2>3. /\ P[1].do = "refuse" /\ P[1].kind = "forward" /\ P[2].do = "wipe" /\ P[2].kind = "permit"
        /\ P # <<>> /\ Head(P) = P[1]
    OBVIOUS
  <2> HIDE DEF P
  <2>4. WellPlanned(P)
    BY <2>2, <2>3 DEF WellPlanned
  <2>5. Covers(P, "forward") /\ Covers(P, "permit")
    BY <2>2, <2>3 DEF Covers, Lists
  <2> QED
    BY <1>2, <2>1, <2>2, <2>3, <2>4, <2>5 DEF Named
<1>3. CASE kind = "limit"
  <2> DEFINE P == <<Refuse("permit")>>
  <2>1. Plan(kind) = P
    BY <1>3 DEF Plan
  <2>2. P \in Seq(Measures) /\ Len(P) = 1
    OBVIOUS
  <2>3. P[1].do = "refuse" /\ P[1].kind = "permit" /\ P # <<>> /\ Head(P) = P[1]
    OBVIOUS
  <2> HIDE DEF P
  <2>4. WellPlanned(P)
    BY <2>2, <2>3 DEF WellPlanned
  <2>5. Covers(P, "permit")
    BY <2>2, <2>3 DEF Covers
  <2> QED
    BY <1>3, <2>1, <2>2, <2>3, <2>4, <2>5 DEF Named
<1>4. CASE kind = "user"
  <2> DEFINE P == <<List("forward"), Each("forward"), Wipe("client"), Wipe("permit"), Wipe("right")>>
  <2>1. Plan(kind) = P
    BY <1>4 DEF Plan
  <2>2. P \in Seq(Measures) /\ Len(P) = 5
    OBVIOUS
  <2>3. /\ P[1].do = "list" /\ P[1].kind = "forward" /\ P[2].do = "each" /\ P[2].kind = "forward"
        /\ P[3].do = "wipe" /\ P[3].kind = "client" /\ P[4].do = "wipe" /\ P[4].kind = "permit"
        /\ P[5].do = "wipe" /\ P[5].kind = "right" /\ P # <<>> /\ Head(P) = P[1]
    OBVIOUS
  <2> HIDE DEF P
  <2>4. WellPlanned(P)
    BY <2>2, <2>3 DEF WellPlanned
  <2>5. Covers(P, "client") /\ Covers(P, "permit") /\ Covers(P, "right") /\ Lists(P, "forward")
    BY <2>2, <2>3 DEF Covers, Lists
  <2> QED
    BY <1>4, <2>1, <2>2, <2>3, <2>4, <2>5 DEF Named
<1>5. CASE kind = "permit"
  <2> DEFINE P == <<List("forward"), Each("forward")>>
  <2>1. Plan(kind) = P
    BY <1>5 DEF Plan
  <2>2. P \in Seq(Measures) /\ Len(P) = 2
    OBVIOUS
  <2>3. /\ P[1].do = "list" /\ P[1].kind = "forward" /\ P[2].do = "each" /\ P[2].kind = "forward"
        /\ P # <<>> /\ Head(P) = P[1]
    OBVIOUS
  <2> HIDE DEF P
  <2>4. WellPlanned(P)
    BY <2>2, <2>3 DEF WellPlanned
  <2>5. Lists(P, "forward")
    BY <2>2, <2>3 DEF Lists
  <2> QED
    BY <1>5, <2>1, <2>2, <2>3, <2>4, <2>5 DEF Named
<1>6. CASE kind = "inbound"
  <2> DEFINE P == <<Wipe("client")>>
  <2>1. Plan(kind) = P
    BY <1>6 DEF Plan
  <2>2. P \in Seq(Measures) /\ Len(P) = 1
    OBVIOUS
  <2>3. P[1].do = "wipe" /\ P[1].kind = "client" /\ P # <<>> /\ Head(P) = P[1]
    OBVIOUS
  <2> HIDE DEF P
  <2>4. WellPlanned(P)
    BY <2>2, <2>3 DEF WellPlanned
  <2>5. Covers(P, "client")
    BY <2>2, <2>3 DEF Covers
  <2> QED
    BY <1>6, <2>1, <2>2, <2>3, <2>4, <2>5 DEF Named
<1>7. CASE kind \in {"forward", "client", "right"}
  <2>1. Plan(kind) = <<>>
    BY <1>7 DEF Plan
  <2>2. WellPlanned(<<>>)
    BY DEF WellPlanned
  <2>3. \A k \in Kinds : kind \notin Named(k)
    BY <1>7 DEF Named
  <2> QED
    BY <1>7, <2>1, <2>2, <2>3
<1> QED
  BY <1>1, <1>2, <1>3, <1>4, <1>5, <1>6, <1>7
-----------------------------------------------------------------------------
(* Types: what a row, a request that writes and one that deletes are.        *)

LEMMA RowIs ==
    ASSUME RecordsTypeOK, NEW x \in Records
    PROVE  /\ record[x].names \subseteq Records
           /\ met[x] \subseteq Records
           /\ There(x) => record[x] # Unborn /\ record[x] # Gone
           /\ ~There(x) => record[x] = Unborn \/ record[x] = Gone
           /\ Unborn # Gone
BY DEF RecordsTypeOK, Rows, Unborn, Gone, There

LEMMA WritingIs ==
    ASSUME RecordsTypeOK, NEW q \in Writers
    PROVE  /\ Busy(writing[q]) \/ writing[q].at = "settle" => writing[q] # Idle
           /\ writing[q] # Idle =>
                /\ writing[q] \in Writings
                /\ Busy(writing[q]) \/ writing[q].at = "settle"
                /\ writing[q].of \in Records
                /\ writing[q].names \subseteq Records
                /\ writing[q].met \subseteq Records
BY DEF RecordsTypeOK, Writings, Idle, Busy

LEMMA ErasingIs ==
    ASSUME RecordsTypeOK, NEW q \in Erasers, Erasing(q)
    PROVE  /\ erasing[q] \in Erasures
           /\ erasing[q].of \in Records
           /\ erasing[q].names \subseteq Records
           /\ erasing[q].left \subseteq Records
           /\ erasing[q].plan \in Seq(Measures)
           /\ erasing[q].of \in BeingErased
BY DEF RecordsTypeOK, Erasures, Erasing, BeingErased, Measures

\* What a row is, by the assumption on the shapes.
LEMMA ShapeIs ==
    ASSUME NEW x \in Records, NEW s \in Shapes[x]
    PROVE  /\ s \subseteq Records /\ s \subseteq Parents(x) /\ Parents(x) \subseteq Above(x)
           /\ Parents(x) \subseteq Records
           /\ KindOf[x] \in Kinds
           /\ \A y \in s : KindOf[y] \in Named(KindOf[x])
           /\ KindOf[x] \in {"forward", "permit"} =>
                \A k \in {"user", "tunnel"} : \E y \in s : {z \in s : KindOf[z] = k} = {y}
<1>1. s \subseteq Records /\ KindOf[x] \in Kinds /\ Parents(x) \subseteq Records
  BY RecordsAssumption DEF Parents
<1>2. s \subseteq Parents(x) /\ Parents(x) \subseteq Above(x)
  BY DEF Parents, Above
<1> QED
  BY <1>1, <1>2, RecordsAssumption

\* The forwards of a permit are of its user and its tunnel.
LEMMA OfThePermit ==
    ASSUME NEW f \in Records, KindOf[f] = "forward", NEW s \in Shapes[f],
           NEW p \in Records, KindOf[p] = "permit", NEW t \in Shapes[p], s \subseteq t
    PROVE  /\ \A y \in t : KindOf[y] \in {"user", "tunnel"} => y \in s
           /\ \A y \in s : KindOf[y] \in {"user", "tunnel"}
<1>1. ASSUME NEW k \in {"user", "tunnel"}, NEW y \in t, KindOf[y] = k
      PROVE  y \in s
  <2>1. PICK a \in s : {z \in s : KindOf[z] = k} = {a}
    BY ShapeIs
  <2>2. PICK b \in t : {z \in t : KindOf[z] = k} = {b}
    BY ShapeIs
  <2> QED
    BY <1>1, <2>1, <2>2
<1>2. \A y \in s : KindOf[y] \in {"user", "tunnel"}
  BY ShapeIs DEF Named
<1> QED
  BY <1>1, <1>2

LEMMA ErasedIs ==
    ASSUME RecordsTypeOK, NEW s, EraseRows(s)
    PROVE  /\ record' \in [Records -> Rows]
           /\ met' \in [Records -> SUBSET Records]
           /\ \A x \in Records :
                /\ There(x)' <=> There(x) /\ x \notin s
                /\ There(x)' => record'[x] = record[x] /\ met'[x] = met[x]
                /\ record'[x] = Unborn <=> record[x] = Unborn
                /\ x \in s /\ There(x) => record'[x] = Gone
                /\ record[x] = Gone => record'[x] = Gone
<1>1. \A x \in Records : /\ record'[x] = IF x \in s /\ There(x) THEN Gone ELSE record[x]
                         /\ met'[x] = IF x \in s THEN {} ELSE met[x]
  BY DEF EraseRows
<1>2. record' \in [Records -> Rows] /\ met' \in [Records -> SUBSET Records]
  BY DEF EraseRows, RecordsTypeOK, Rows
<1>3. Gone.is = "gone" /\ \A x \in Records : There(x)' <=> record'[x].is = "there"
  BY DEF Gone, There
<1>4. ASSUME NEW x \in Records
      PROVE  /\ There(x)' <=> There(x) /\ x \notin s
             /\ There(x)' => record'[x] = record[x] /\ met'[x] = met[x]
             /\ record'[x] = Unborn <=> record[x] = Unborn
             /\ x \in s /\ There(x) => record'[x] = Gone
             /\ record[x] = Gone => record'[x] = Gone
  <2>1. CASE x \in s /\ There(x)
    BY <1>1, <1>3, <2>1, RowIs
  <2>2. CASE ~(x \in s /\ There(x))
    <3>1. record'[x] = record[x]
      BY <1>1, <2>2
    <3>2. There(x)' <=> There(x)
      BY <1>3, <3>1 DEF There
    <3> QED
      BY <1>1, <2>2, <3>1, <3>2
  <2> QED
    BY <2>1, <2>2
<1> QED
  BY <1>2, <1>4
-----------------------------------------------------------------------------
(* What an erasure leaves: of the rows, fewer; of the requests, those that   *)
(* go on as before or are done.                                              *)

LEMMA ErasesNothing ==
    ASSUME RecordsTypeOK, UNCHANGED <<record, met>>
    PROVE  EraseRows({})
<1>1. record = [x \in Records |-> record[x]] /\ met = [x \in Records |-> met[x]]
  BY DEF RecordsTypeOK
<1>2. record' = [x \in Records |-> IF x \in {} /\ There(x) THEN Gone ELSE record[x]]
  BY <1>1
<1>3. met' = [x \in Records |-> IF x \in {} THEN {} ELSE met[x]]
  BY <1>1
<1> QED
  BY <1>2, <1>3 DEF EraseRows

WritersRest == \A r \in Writers : writing'[r] = writing[r] \/ writing'[r] = Idle

\* Whoever keeps naming a row that is erased has met its deletion.
EraseSafe(s) ==
    /\ \A x \in Records : \A y \in s :
         (There(x) /\ x \notin s /\ There(y) /\ y \in record[x].names /\ ~LeftAlone(x, y))
         => ({y} \cup Parents(y)) \cap met[x] # {}
    /\ \A q \in Writers : \A y \in s :
         (Busy(writing[q]) /\ There(y) /\ y \in writing[q].names)
         => ({y} \cup Parents(y)) \cap writing[q].met # {}
    /\ \A f \in Records : \A p \in s :
         (/\ KindOf[f] = "forward" /\ There(f) /\ f \notin s
          /\ KindOf[p] = "permit" /\ There(p) /\ record[f].names \subseteq record[p].names)
         => \E m \in met[f] : KindOf[m] = "permit" \/ m \in record[f].names
    /\ \A q \in Writers : \A p \in s :
         (/\ Busy(writing[q]) /\ KindOf[writing[q].of] = "forward"
          /\ KindOf[p] = "permit" /\ There(p) /\ writing[q].names \subseteq record[p].names)
         => \E m \in writing[q].met : KindOf[m] = "permit" \/ m \in writing[q].names

\* Forwards, clients and rights are named by nobody, and permit nothing.
LEMMA LeavesAreSafe ==
    ASSUME RecordsTypeOK, Shaped, NEW s \in SUBSET Records,
           \A y \in s : KindOf[y] \in {"forward", "client", "right"}
    PROVE  EraseSafe(s)
<1>1. ASSUME NEW x \in Records, NEW t \in Shapes[x], NEW y \in s
      PROVE  y \notin t
  <2>1. \A z \in t : KindOf[z] \in Named(KindOf[x])
    BY ShapeIs
  <2> QED
    BY <2>1, ShapeIs DEF Named, Kinds
<1>2. \A x \in Records : \A y \in s : There(x) => y \notin record[x].names
  BY <1>1 DEF Shaped
<1>3. \A q \in Writers : \A y \in s : Busy(writing[q]) => y \notin writing[q].names
  BY <1>1, WritingIs DEF Shaped
<1>4. \A p \in s : KindOf[p] # "permit"
  OBVIOUS
<1> QED
  BY <1>2, <1>3, <1>4 DEF EraseSafe

LEMMA ErasureStands ==
    ASSUME RecordsTypeOK, NamesStand, Shaped, NEW s \in SUBSET Records, EraseRows(s), EraseSafe(s),
           WritersRest
    PROVE  NamesStand'
<1> USE ErasedIs
<1>1. ASSUME NEW x \in Records, There(x)', NEW y \in record'[x].names
      PROVE  Stands(x, y, met[x])' \/ (LeftAlone(x, y) /\ record'[y] # Unborn)
  <2>1. There(x) /\ x \notin s /\ record'[x] = record[x] /\ met'[x] = met[x] /\ y \in Records
    BY <1>1, RowIs
  <2>2. Stands(x, y, met[x]) \/ (LeftAlone(x, y) /\ record[y] # Unborn)
    BY <2>1 DEF NamesStand
  <2>3. CASE record[y] # Unborn /\ LeftAlone(x, y)
    BY <2>1, <2>3
  <2>4. CASE record[y] = Gone /\ ({y} \cup Parents(y)) \cap met[x] # {}
    BY <2>1, <2>4 DEF Stands
  <2>5. CASE There(y) /\ y \notin s
    BY <2>1, <2>5 DEF Stands
  <2>6. CASE There(y) /\ y \in s /\ ~LeftAlone(x, y)
    <3>1. ({y} \cup Parents(y)) \cap met[x] # {}
      BY <2>1, <2>6 DEF EraseSafe
    <3> QED
      BY <2>1, <2>6, <3>1 DEF Stands
  <2>7. There(y) => record[y] # Unborn
    BY <2>1, RowIs
  <2>8. CASE record[y] = Unborn /\ Unchecked(x, y)
    BY <2>1, <2>8 DEF Stands, Unchecked
  <2> QED
    BY <2>2, <2>3, <2>4, <2>5, <2>6, <2>7, <2>8 DEF Stands
<1>2. ASSUME NEW q \in Writers, Busy(writing'[q]), NEW y \in writing'[q].names
      PROVE  Stands(writing[q].of, y, writing[q].met)'
  <2>1. writing'[q] = writing[q]
    BY <1>2 DEF WritersRest, Busy, Idle
  <2>2. y \in Records /\ Stands(writing[q].of, y, writing[q].met)
    BY <1>2, <2>1, WritingIs DEF NamesStand
  <2>3. CASE record[y] = Gone /\ ({y} \cup Parents(y)) \cap writing[q].met # {}
    BY <2>1, <2>2, <2>3 DEF Stands
  <2>4. CASE There(y) /\ y \notin s
    BY <2>1, <2>2, <2>4 DEF Stands
  <2>5. CASE There(y) /\ y \in s
    <3>1. ({y} \cup Parents(y)) \cap writing[q].met # {}
      BY <1>2, <2>1, <2>5 DEF EraseSafe
    <3> QED
      BY <2>1, <2>2, <2>5, <3>1 DEF Stands
  <2>6. CASE record[y] = Unborn /\ Unchecked(writing[q].of, y)
    BY <2>1, <2>2, <2>6 DEF Stands, Unchecked
  <2> QED
    BY <2>2, <2>3, <2>4, <2>5, <2>6 DEF Stands
<1> QED
  BY <1>1, <1>2 DEF NamesStand, LeftAlone

LEMMA ErasurePermits ==
    ASSUME RecordsTypeOK, AllPermitted, NEW s \in SUBSET Records, EraseRows(s), EraseSafe(s),
           WritersRest
    PROVE  AllPermitted'
<1> USE ErasedIs
<1>1. ASSUME NEW t, NEW m,
             \A p \in s : (KindOf[p] = "permit" /\ There(p) /\ t \subseteq record[p].names)
                          => \E a \in m : KindOf[a] = "permit" \/ a \in t,
             Permitted(t, m)
      PROVE  Permitted(t, m)'
  <2>1. CASE \E p \in m : KindOf[p] = "permit" \/ p \in t
    BY <2>1 DEF Permitted
  <2>2. ASSUME NEW p \in Permitting(t)
        PROVE  Permitted(t, m)'
    <3>1. p \in Records /\ KindOf[p] = "permit" /\ There(p) /\ t \subseteq record[p].names
      BY <2>2 DEF Permitting, Kindred
    <3>2. CASE p \in s
      BY <1>1, <3>1, <3>2 DEF Permitted
    <3>3. CASE p \notin s
      <4>1. There(p)' /\ record'[p] = record[p]
        BY <3>1, <3>3
      <4>2. p \in Permitting(t)'
        BY <3>1, <4>1 DEF Permitting, Kindred
      <4> QED
        BY <4>2 DEF Permitted
    <3> QED
      BY <3>2, <3>3
  <2> QED
    BY <1>1, <2>1, <2>2 DEF Permitted
<1>2. ASSUME NEW f \in Kindred("forward"), There(f)'
      PROVE  Permitted(record[f].names, met[f])'
  <2>1. f \in Records /\ KindOf[f] = "forward" /\ There(f) /\ f \notin s
        /\ record'[f] = record[f] /\ met'[f] = met[f]
    BY <1>2 DEF Kindred
  <2>2. Permitted(record[f].names, met[f])
    BY <2>1 DEF AllPermitted, Kindred
  <2>3. ASSUME NEW t, t = record[f].names, NEW m, m = met[f]
        PROVE  Permitted(t, m)'
    <3>1. \A p \in s : (KindOf[p] = "permit" /\ There(p) /\ t \subseteq record[p].names)
                          => \E a \in m : KindOf[a] = "permit" \/ a \in t
      BY <2>1, <2>3 DEF EraseSafe
    <3> QED
      BY <1>1, <2>2, <2>3, <3>1
  <2> QED
    BY <2>1, <2>3 DEF Permitted, Permitting
<1>3. ASSUME NEW q \in Writers, Busy(writing'[q]), KindOf[writing'[q].of] = "forward"
      PROVE  Permitted(writing[q].names, writing[q].met)'
  <2>1. writing'[q] = writing[q]
    BY <1>3 DEF WritersRest, Busy, Idle
  <2>2. Permitted(writing[q].names, writing[q].met)
    BY <1>3, <2>1 DEF AllPermitted
  <2>3. ASSUME NEW t, t = writing[q].names, NEW m, m = writing[q].met
        PROVE  Permitted(t, m)'
    <3>1. \A p \in s : (KindOf[p] = "permit" /\ There(p) /\ t \subseteq record[p].names)
                          => \E a \in m : KindOf[a] = "permit" \/ a \in t
      BY <1>3, <2>1, <2>3 DEF EraseSafe
    <3> QED
      BY <1>1, <2>2, <2>3, <3>1
  <2> QED
    BY <2>1, <2>3 DEF Permitted, Permitting
<1> QED
  BY <1>2, <1>3 DEF AllPermitted, Kindred

LEMMA ErasureShapes ==
    ASSUME RecordsTypeOK, Shaped, PermitChange, NEW s \in SUBSET Records, EraseRows(s), WritersRest
    PROVE  Shaped' /\ PermitChange'
<1> USE ErasedIs
<1>1. ASSUME NEW q \in Writers, writing'[q] # Idle
      PROVE  writing'[q] = writing[q] /\ writing[q] # Idle /\ writing[q].of \in Records
  BY <1>1, WritingIs DEF WritersRest
<1>2. \A x \in Records : There(x)' => record'[x].names \in Shapes[x]
  BY DEF Shaped
<1>3. ASSUME NEW q \in Writers, writing'[q] # Idle
      PROVE  /\ writing'[q].names \in Shapes[writing'[q].of]
             /\ writing'[q].at = "insert" => record'[writing'[q].of] = Unborn
             /\ writing'[q].at = "change" => /\ record'[writing'[q].of] # Unborn
                                             /\ KindOf[writing'[q].of] \in {"forward", "permit"}
             /\ writing'[q].at = "settle" => KindOf[writing'[q].of] = "forward"
  BY <1>1, <1>3 DEF Shaped
<1>4. \A q, r \in Writers :
        (writing'[q] # Idle /\ writing'[r] # Idle /\ writing'[q].at = "insert"
         /\ writing'[r].at = "insert" /\ writing'[q].of = writing'[r].of) => q = r
  BY <1>1 DEF Shaped
<1>5. Shaped'
  BY <1>2, <1>3, <1>4 DEF Shaped
<1>6. ASSUME NEW q \in Writers, writing'[q].at = "change", KindOf[writing'[q].of] = "permit",
             There(writing[q].of)'
      PROVE  writing'[q].names \ Kindred("limit") = record'[writing'[q].of].names \ Kindred("limit")
  <2>1. writing'[q] = writing[q] /\ writing[q].of \in Records
    BY <1>1, <1>6 DEF Idle
  <2>2. There(writing[q].of) /\ record'[writing[q].of] = record[writing[q].of]
    <3>1. ASSUME NEW x \in Records, record'[x].is = "there"
          PROVE  There(x) /\ record'[x] = record[x]
      BY <3>1 DEF There
    <3>2. record'[writing'[q].of].is = "there"
      BY <1>6 DEF There
    <3> QED
      BY <2>1, <3>1, <3>2
  <2> QED
    BY <1>6, <2>1, <2>2 DEF PermitChange
<1>7. PermitChange'
  BY <1>6 DEF PermitChange, Kindred
<1> QED
  BY <1>5, <1>7

LEMMA ErasureMeets ==
    ASSUME Met, WritersRest, \A r \in Erasers : erasing'[r] # Idle =>
                                erasing[r] # Idle /\ erasing'[r].of = erasing[r].of
    PROVE  Met'
<1>1. BeingErased' \subseteq BeingErased
  BY DEF BeingErased
<1>2. ASSUME NEW q \in Writers, Busy(writing'[q])
      PROVE  BeingErased' \cap Above(writing'[q].of) \subseteq writing'[q].met
  <2>1. writing'[q] = writing[q]
    BY <1>2 DEF WritersRest, Busy, Idle
  <2> QED
    BY <1>1, <1>2, <2>1 DEF Met
<1> QED
  BY <1>2 DEF Met, Above, Parents, Kindred

\* The deletions under way, each as the record it is.
LEMMA ErasersHave ==
    ASSUME Orderly, Pursued, NEW r \in Erasers, Erasing(r), NEW e, e = erasing[r]
    PROVE  OrderlyIs(e) /\ PursuedBy(e)
BY DEF Orderly, Pursued

LEMMA ErasersNext ==
    ASSUME \A r \in Erasers : \A e :
             (erasing'[r] # Idle /\ e = erasing'[r]) => OrderlyIs(e)' /\ PursuedBy(e)'
    PROVE  Orderly' /\ Pursued'
<1>1. ASSUME NEW r \in Erasers, Erasing(r)'
      PROVE  OrderlyIs(erasing[r])'
  <2>1. PICK e : e = erasing'[r]
    OBVIOUS
  <2>2. OrderlyIs(e)'
    BY <1>1, <2>1 DEF Erasing
  <2> QED
    BY <2>1, <2>2 DEF OrderlyIs, Does, There
<1>2. ASSUME NEW r \in Erasers, Erasing(r)'
      PROVE  PursuedBy(erasing[r])'
  <2>1. PICK e : e = erasing'[r]
    OBVIOUS
  <2>2. PursuedBy(e)'
    BY <1>2, <2>1 DEF Erasing
  <2> QED
    BY <2>1, <2>2 DEF PursuedBy, ChildOf, Finds, FindsClient, Does, There
<1> QED
  BY <1>1, <1>2 DEF Orderly, Pursued

\* A deletion e has become d while s was erased.
LEMMA Pursuit ==
    ASSUME RecordsTypeOK, NEW s \in SUBSET Records, EraseRows(s),
           NEW e \in Erasures, PursuedBy(e), NEW d \in Erasures, d.of = e.of, d.names = e.names,
           \A x \in Records : (ChildOf(x, e) /\ x \notin s /\ Finds(x, e)) => Finds(x, d),
           \A x, y \in Records :
              (/\ There(x) /\ x \notin s /\ KindOf[x] = "client" /\ y \in record[x].names
               /\ There(y) /\ y \notin s /\ KindOf[y] = "inbound" /\ e.of \in record[y].names
               /\ FindsClient(y, e))
              => FindsClient(y, d)
    PROVE  PursuedBy(d)'
<1> USE ErasedIs
<1>1. ASSUME NEW x \in Records, ChildOf(x, d)', d.of \notin met'[x]
      PROVE  Finds(x, d)'
  <2>1. There(x) /\ x \notin s /\ record'[x] = record[x] /\ met'[x] = met[x]
    BY <1>1 DEF ChildOf
  <2>2. ChildOf(x, e)
    BY <1>1, <2>1 DEF ChildOf, LeftAlone
  <2>3. Finds(x, d)
    BY <1>1, <2>1, <2>2 DEF PursuedBy
  <2> QED
    BY <2>3 DEF Finds, Covers, Lists, Does
<1>2. ASSUME NEW x \in Records, NEW y \in Records,
             There(x)', KindOf[x] = "client", y \in record'[x].names,
             There(y)', KindOf[y] = "inbound", d.of \in record'[y].names,
             ({y} \cup Parents(y)) \cap met'[x] = {}
      PROVE  FindsClient(y, d)'
  <2>1. There(x) /\ x \notin s /\ record'[x] = record[x] /\ met'[x] = met[x]
        /\ There(y) /\ y \notin s /\ record'[y] = record[y]
    BY <1>2
  <2>2. FindsClient(y, e)
    BY <1>2, <2>1 DEF PursuedBy
  <2>3. FindsClient(y, d)
    BY <1>2, <2>1, <2>2
  <2> QED
    BY <2>3 DEF FindsClient, Lists, Does
<1> QED
  BY <1>1, <1>2 DEF PursuedBy, Parents

LEMMA StaysOrderly ==
    ASSUME RecordsTypeOK, NEW s \in SUBSET Records, EraseRows(s),
           NEW e \in Erasures, OrderlyIs(e)
    PROVE  OrderlyIs(e)'
<1> USE ErasedIs
<1>1. e.of \in Records
  BY DEF Erasures
<1>2. record'[e.of] # Unborn
  BY <1>1 DEF OrderlyIs
<1>3. There(e.of)' => There(e.of) /\ record'[e.of] = record[e.of]
  BY <1>1
<1> QED
  BY <1>2, <1>3 DEF OrderlyIs, Does, Kindred, WellPlanned

Becomes(q, d) == erasing' = [erasing EXCEPT ![q] = d]
Remains(q, y) == erasing' = [erasing EXCEPT ![q].left = @ \ {y}]

\* A step of a deletion: e becomes d, or is done, while s is erased.
LEMMA ErasureStep ==
    ASSUME RecordsIInv, NEW s \in SUBSET Records, EraseRows(s), EraseSafe(s), UNCHANGED writing,
           NEW q \in Erasers, Erasing(q), NEW e \in Erasures, e = erasing[q],
           NEW d \in Erasures \cup {Idle}, Becomes(q, d),
           d # Idle =>
             /\ d.of = e.of /\ d.names = e.names
             /\ OrderlyIs(d)
             /\ \A x \in Records : (ChildOf(x, e) /\ x \notin s /\ Finds(x, e)) => Finds(x, d)
             /\ \A x, y \in Records :
                  (/\ There(x) /\ x \notin s /\ KindOf[x] = "client" /\ y \in record[x].names
                   /\ There(y) /\ y \notin s /\ KindOf[y] = "inbound" /\ e.of \in record[y].names
                   /\ FindsClient(y, e))
                  => FindsClient(y, d)
    PROVE  RecordsIInv'
<1> USE DEF RecordsIInv
<1>1. erasing' \in [Erasers -> Erasures \cup {Idle}] /\ erasing'[q] = d
      /\ \A r \in Erasers : r # q => erasing'[r] = erasing[r]
  BY DEF RecordsTypeOK, Becomes
<1>2. RecordsTypeOK'
  BY <1>1, ErasedIs DEF RecordsTypeOK
<1>3. WritersRest
  BY DEF WritersRest
<1>4. NamesStand' /\ AllPermitted' /\ Shaped' /\ PermitChange'
  BY <1>3, ErasureStands, ErasurePermits, ErasureShapes
<1>5. Met'
  <2>1. \A r \in Erasers : erasing'[r] # Idle => erasing[r] # Idle /\ erasing'[r].of = erasing[r].of
    BY <1>1 DEF Erasing
  <2> QED
    BY <1>3, <2>1, ErasureMeets
<1>6. OrderlyIs(e) /\ PursuedBy(e)
  BY ErasersHave
<1>7. ASSUME NEW r \in Erasers, NEW c, erasing'[r] # Idle, c = erasing'[r]
      PROVE  OrderlyIs(c)' /\ PursuedBy(c)'
  <2>1. CASE r = q
    <3>1. c = d /\ c # Idle /\ c \in Erasures
      BY <1>1, <1>7, <2>1
    <3>2. OrderlyIs(c)'
      BY <3>1, StaysOrderly
    <3>3. PursuedBy(c)'
      BY <1>6, <3>1, Pursuit
    <3> QED
      BY <3>2, <3>3
  <2>2. CASE r # q
    <3>1. c = erasing[r] /\ Erasing(r) /\ c \in Erasures
      BY <1>1, <1>7, <2>2 DEF Erasing
    <3>2. OrderlyIs(c) /\ PursuedBy(c)
      BY <3>1, ErasersHave
    <3>3. OrderlyIs(c)'
      BY <3>1, <3>2, StaysOrderly
    <3>4. PursuedBy(c)'
      BY <3>1, <3>2, Pursuit
    <3> QED
      BY <3>3, <3>4
  <2> QED
    BY <2>1, <2>2
<1>8. Orderly' /\ Pursued'
  BY <1>7, ErasersNext
<1> QED
  BY <1>2, <1>4, <1>5, <1>8
-----------------------------------------------------------------------------
(* The steps of a deletion.                                                  *)

LEMMA IdleIsNone == Idle \notin Erasures
BY DEF Idle, Erasures

LEMMA ProceedIs ==
    ASSUME RecordsTypeOK, NEW q \in Erasers, Erasing(q), NEW e \in Erasures, e = erasing[q],
           e.plan # <<>>, NEW left \in SUBSET Records, Proceed(q, left)
    PROVE  \E d \in Erasures :
             /\ Becomes(q, d)
             /\ d.of = e.of /\ d.names = e.names /\ d.plan = Tail(e.plan) /\ d.left = left
<1> DEFINE d == [at |-> "delete", of |-> e.of, names |-> e.names, plan |-> Tail(e.plan), left |-> left]
<1>1. e = [at |-> e.at, of |-> e.of, names |-> e.names, plan |-> e.plan, left |-> e.left]
      /\ e.at = "delete"
  BY DEF Erasures
<1>2. Tail(e.plan) \in Seq(Measures) /\ e.plan \in Seq(Measures)
  BY PlanRest DEF Erasures, Measures
<1>3. d \in Erasures
  BY <1>2 DEF Erasures, Measures
<1>4. [e EXCEPT !.plan = Tail(@)]
        = [at |-> "delete", of |-> e.of, names |-> e.names, plan |-> Tail(e.plan), left |-> e.left]
  BY <1>1
<1>5. [[e EXCEPT !.plan = Tail(@)] EXCEPT !.left = left] = d
  <2>1. [[at |-> "delete", of |-> e.of, names |-> e.names, plan |-> Tail(e.plan), left |-> e.left]
           EXCEPT !.left = left] = d
    OBVIOUS
  <2> QED
    BY <1>4, <2>1
<1>6. erasing' = [erasing EXCEPT ![q] = [[e EXCEPT !.plan = Tail(@)] EXCEPT !.left = left]]
  BY DEF Proceed, RecordsTypeOK
<1>7. Becomes(q, d)
  BY <1>5, <1>6 DEF Becomes
<1>8. d.of = e.of /\ d.names = e.names /\ d.plan = Tail(e.plan) /\ d.left = left
  OBVIOUS
<1> QED
  BY <1>3, <1>7, <1>8

LEMMA RemainderIs ==
    ASSUME RecordsTypeOK, NEW q \in Erasers, NEW e \in Erasures, e = erasing[q],
           NEW y, Remains(q, y)
    PROVE  \E d \in Erasures :
             /\ Becomes(q, d)
             /\ d.of = e.of /\ d.names = e.names /\ d.plan = e.plan /\ d.left = e.left \ {y}
<1> DEFINE d == [at |-> "delete", of |-> e.of, names |-> e.names, plan |-> e.plan,
                 left |-> e.left \ {y}]
<1>1. e = [at |-> "delete", of |-> e.of, names |-> e.names, plan |-> e.plan, left |-> e.left]
  BY DEF Erasures
<1>2. d \in Erasures
  BY DEF Erasures
<1>3. [e EXCEPT !.left = @ \ {y}] = d
  BY <1>1
<1>4. Becomes(q, d)
  BY <1>3 DEF RecordsTypeOK, Becomes, Remains
<1> QED
  BY <1>2, <1>4

\* The rest of a plan is orderly, if what it has listed is.
LEMMA GoesOn ==
    ASSUME NEW e \in Erasures, OrderlyIs(e), e.plan # <<>>,
           NEW d \in Erasures, d.of = e.of, d.names = e.names, d.plan = Tail(e.plan),
           Does(d, "forward") => d.left \subseteq Kindred("forward"),
           Does(d, "client") => d.left \subseteq Kindred("inbound")
    PROVE  OrderlyIs(d)
<1>1. e.plan \in Seq(Measures)
  BY DEF Erasures, Measures
<1>2. WellPlanned(d.plan)
  BY <1>1, WellPlannedRest DEF OrderlyIs
<1>3. ASSUME NEW i \in 1..Len(d.plan)
      PROVE  \E j \in 1..Len(e.plan) : d.plan[i] = e.plan[j]
  <2>1. i + 1 \in 1..Len(e.plan) /\ Tail(e.plan)[i] = e.plan[i + 1]
    BY <1>1, PlanRest
  <2> QED
    BY <2>1
<1> QED
  BY <1>2, <1>3 DEF OrderlyIs

LEMMA NothingIsSafe == EraseSafe({})
BY DEF EraseSafe

\* The children that a request finds below its row are those it looks after.
LEMMA BelowIs ==
    ASSUME RecordsTypeOK, NEW k, NEW e \in Erasures
    PROVE  /\ Children(k, e.of, e.names) \subseteq Kindred(k)
           /\ \A x \in Records : KindOf[x] = k =>
                (ChildOf(x, e) => x \in Children(k, e.of, e.names))
           /\ \A y \in Records :
                (There(y) /\ KindOf[y] = k /\ KindOf[e.of] # "permit" /\ e.of \in record[y].names)
                => y \in Children(k, e.of, e.names)
BY DEF Children, ChildOf, Kindred

\* Nothing that is listed later has been found by e yet.
LEMMA Later ==
    ASSUME NEW e \in Erasures, e.plan # <<>>, NEW d \in Erasures, d.plan = Tail(e.plan)
    PROVE  /\ \A k : Covers(e.plan, k) =>
                \/ Head(e.plan).do \in {"refuse", "wipe"} /\ Head(e.plan).kind = k
                \/ Covers(d.plan, k)
           /\ \A k : Lists(e.plan, k) =>
                \/ Head(e.plan).do = "list" /\ Head(e.plan).kind = k
                \/ Lists(d.plan, k)
<1>1. e.plan \in Seq(Measures)
  BY DEF Erasures, Measures
<1> QED
  BY <1>1, CoversRest

LEMMA StepCount ==
    ASSUME RecordsIInv, NEW q \in Erasers, CountChildren(q)
    PROVE  RecordsIInv'
<1> USE DEF RecordsIInv
<1>1. Erasing(q) /\ UNCHANGED writing /\ EraseRows({})
  BY ErasesNothing DEF CountChildren, Planned, Erasing
<1>2. PICK e \in Erasures : e = erasing[q]
  BY <1>1, ErasingIs
<1>3. e.plan # <<>> /\ Head(e.plan).do = "refuse"
  BY <1>2 DEF CountChildren, Planned
<1>4. OrderlyIs(e)
  BY <1>1, <1>2, ErasersHave
<1>5. CASE Below(q) # {}
  <2>1. Becomes(q, Idle)
    BY <1>5 DEF CountChildren, Becomes
  <2> QED
    BY <1>1, <1>2, <2>1, NothingIsSafe, ErasureStep
<1>6. CASE Below(q) = {}
  <2>1. PICK d \in Erasures :
          /\ Becomes(q, d)
          /\ d.of = e.of /\ d.names = e.names /\ d.plan = Tail(e.plan) /\ d.left = {}
    BY <1>1, <1>2, <1>3, <1>6, ProceedIs DEF CountChildren
  <2>2. OrderlyIs(d)
    BY <1>3, <1>4, <2>1, GoesOn
  <2>3. ASSUME NEW x \in Records, ChildOf(x, e), Finds(x, e)
        PROVE  Finds(x, d)
    <3>1. Head(e.plan).kind # KindOf[x]
      BY <1>2, <1>6, <2>3, BelowIs DEF Below
    <3>2. ~Does(e, "forward")
      BY <1>3 DEF Does
    <3> QED
      BY <1>3, <2>1, <2>3, <3>1, <3>2, Later DEF Finds
  <2>4. ASSUME NEW y \in Records, FindsClient(y, e)
        PROVE  FindsClient(y, d)
    BY <1>3, <2>1, <2>4, Later DEF FindsClient, Does
  <2> QED
    BY <1>1, <1>2, <2>1, <2>2, <2>3, <2>4, NothingIsSafe, ErasureStep
<1> QED
  BY <1>5, <1>6

LEMMA StepList ==
    ASSUME RecordsIInv, NEW q \in Erasers, ListChildren(q)
    PROVE  RecordsIInv'
<1> USE DEF RecordsIInv
<1>1. Erasing(q) /\ UNCHANGED writing /\ EraseRows({})
  BY ErasesNothing DEF ListChildren, Planned, Erasing
<1>2. PICK e \in Erasures : e = erasing[q]
  BY <1>1, ErasingIs
<1>3. e.plan # <<>> /\ Head(e.plan).do = "list" /\ e.plan \in Seq(Measures)
  BY <1>2 DEF ListChildren, Planned, Erasures, Measures
<1>4. OrderlyIs(e)
  BY <1>1, <1>2, ErasersHave
<1> DEFINE k == Head(e.plan).kind
           left == Children(k, e.of, e.names)
<1>5. left = Below(q) /\ left \subseteq Kindred(k) /\ left \in SUBSET Records
  <2>1. left = Below(q)
    BY <1>2 DEF Below
  <2>2. left \subseteq Kindred(k)
    BY BelowIs
  <2> QED
    BY <2>1, <2>2 DEF Kindred
<1>6. PICK d \in Erasures :
        /\ Becomes(q, d)
        /\ d.of = e.of /\ d.names = e.names /\ d.plan = Tail(e.plan) /\ d.left = left
  BY <1>1, <1>2, <1>3, <1>5, ProceedIs DEF ListChildren
<1>7. /\ k \in {"forward", "inbound"}
      /\ d.plan # <<>> /\ Head(d.plan).do = "each"
      /\ Head(d.plan).kind = IF k = "inbound" THEN "client" ELSE "forward"
  BY <1>3, <1>4, <1>6, WellPlannedRest DEF OrderlyIs
<1>8. OrderlyIs(d)
  BY <1>3, <1>4, <1>5, <1>6, <1>7, GoesOn DEF Does
<1>9. ASSUME NEW x \in Records, ChildOf(x, e), Finds(x, e)
      PROVE  Finds(x, d)
  <2>1. CASE KindOf[x] = "forward" /\ k = "forward"
    BY <1>6, <1>7, <1>9, <2>1, BelowIs DEF Finds, Does
  <2>2. CASE ~(KindOf[x] = "forward" /\ k = "forward")
    BY <1>3, <1>6, <1>9, <2>2, Later DEF Finds, Does
  <2> QED
    BY <2>1, <2>2
<1>10. ASSUME NEW y \in Records, There(y), KindOf[y] = "inbound", e.of \in record[y].names,
              FindsClient(y, e)
       PROVE  FindsClient(y, d)
  <2>1. CASE k = "inbound"
    <3>1. KindOf[e.of] # "permit"
      <4>1. record[y].names \in Shapes[y]
        BY <1>10 DEF Shaped
      <4>2. KindOf[e.of] \in Named("inbound")
        BY <1>10, <4>1, ShapeIs
      <4> QED
        BY <4>2 DEF Named
    <3>2. y \in left
      BY <1>10, <2>1, <3>1, BelowIs
    <3> QED
      BY <1>6, <1>7, <2>1, <3>2 DEF FindsClient, Does
  <2>2. CASE k # "inbound"
    BY <1>3, <1>6, <1>10, <2>2, Later DEF FindsClient, Does
  <2> QED
    BY <2>1, <2>2
<1>11. \A x, y \in Records :
         (/\ There(x) /\ x \notin {} /\ KindOf[x] = "client" /\ y \in record[x].names
          /\ There(y) /\ y \notin {} /\ KindOf[y] = "inbound" /\ e.of \in record[y].names
          /\ FindsClient(y, e))
         => FindsClient(y, d)
  BY <1>10
<1>12. \A x \in Records : (ChildOf(x, e) /\ x \notin {} /\ Finds(x, e)) => Finds(x, d)
  BY <1>9
<1>13. d # Idle /\ d \in Erasures \cup {Idle} /\ {} \in SUBSET Records /\ d.of = e.of /\ d.names = e.names
  BY <1>6, IdleIsNone
<1> HIDE DEF k, left
<1>14. Becomes(q, d) /\ EraseSafe({})
  BY <1>6, NothingIsSafe
<1> HIDE DEF RecordsIInv
<1> QED
  BY <1>1, <1>2, <1>8, <1>11, <1>12, <1>13, <1>14, ErasureStep

LEMMA StepEach ==
    ASSUME RecordsIInv, NEW q \in Erasers, EachChild(q)
    PROVE  RecordsIInv'
<1> USE DEF RecordsIInv
<1>1. Erasing(q) /\ UNCHANGED writing
  BY DEF EachChild, Planned, Erasing
<1>2. PICK e \in Erasures : e = erasing[q]
  BY <1>1, ErasingIs
<1>3. e.plan # <<>> /\ Head(e.plan).do = "each" /\ e.plan \in Seq(Measures)
      /\ e.left \subseteq Records
  BY <1>2 DEF EachChild, Planned, Erasures, Measures
<1>4. OrderlyIs(e)
  BY <1>1, <1>2, ErasersHave
<1> DEFINE kind == Head(e.plan).kind
<1>5. kind \in {"forward", "client"}
  BY <1>3, <1>4, WellPlannedRest DEF OrderlyIs
<1>6. /\ kind = "forward" => e.left \subseteq Kindred("forward")
      /\ kind = "client" => e.left \subseteq Kindred("inbound")
  BY <1>3, <1>4 DEF OrderlyIs, Does
<1>7. ASSUME NEW y \in e.left,
             EraseRows(IF kind = KindOf[y] THEN {y} ELSE Children(kind, y, {})),
             Remains(q, y)
      PROVE  RecordsIInv'
  <2>5. PICK d \in Erasures :
          /\ Becomes(q, d)
          /\ d.of = e.of /\ d.names = e.names /\ d.plan = e.plan /\ d.left = e.left \ {y}
    BY ZenonT(60), <1>2, <1>7, RemainderIs
  <2>6. OrderlyIs(d)
    BY <1>4, <2>5 DEF OrderlyIs, Does
  <2>7. y \in Records
    BY <1>3, <1>7
  <2>8. CASE kind = "forward"
    <3>1. KindOf[y] = "forward" /\ EraseRows({y})
      BY <1>6, <1>7, <2>8 DEF Kindred
    <3>2. EraseSafe({y})
      BY <2>7, <3>1, LeavesAreSafe
    <3>3. \A x \in Records : (ChildOf(x, e) /\ x \notin {y} /\ Finds(x, e)) => Finds(x, d)
      BY <2>5 DEF Finds, Does
    <3>4. \A x, z \in Records :
            (/\ There(x) /\ x \notin {y} /\ KindOf[x] = "client" /\ z \in record[x].names
             /\ There(z) /\ z \notin {y} /\ KindOf[z] = "inbound" /\ e.of \in record[z].names
             /\ FindsClient(z, e))
            => FindsClient(z, d)
      BY <2>5 DEF FindsClient, Does
    <3>5. {y} \in SUBSET Records /\ d \in Erasures \cup {Idle} /\ RecordsIInv
      BY <2>7
    <3> HIDE DEF RecordsIInv, kind
    <3> QED
      BY <1>1, <1>2, <2>5, <2>6, <3>1, <3>2, <3>3, <3>4, <3>5, ErasureStep
  <2>9. CASE kind = "client"
    <3> PICK s : s = Children("client", y, {})
      OBVIOUS
    <3>1. KindOf[y] = "inbound" /\ EraseRows(s)
      BY <1>6, <1>7, <2>9 DEF Kindred
    <3>2. s \in SUBSET Records /\ (\A x \in s : KindOf[x] = "client")
          /\ \A x \in Records : (There(x) /\ KindOf[x] = "client" /\ y \in record[x].names) => x \in s
      BY <3>1 DEF Children, Kindred
    <3>3. EraseSafe(s)
      BY <3>2, LeavesAreSafe
    <3>4. \A x \in Records : (ChildOf(x, e) /\ x \notin s /\ Finds(x, e)) => Finds(x, d)
      BY <2>5, <2>9 DEF Finds, Does
    <3>5. \A x, z \in Records :
            (/\ There(x) /\ x \notin s /\ KindOf[x] = "client" /\ z \in record[x].names
             /\ There(z) /\ z \notin s /\ KindOf[z] = "inbound" /\ e.of \in record[z].names
             /\ FindsClient(z, e))
            => FindsClient(z, d)
      BY <2>5, <3>2 DEF FindsClient, Does
    <3>6. s \in SUBSET Records /\ d \in Erasures \cup {Idle} /\ RecordsIInv
      BY <3>2
    <3> HIDE DEF RecordsIInv, kind
    <3> QED
      BY <1>1, <1>2, <2>5, <2>6, <3>1, <3>3, <3>4, <3>5, <3>6, ErasureStep
  <2> QED
    BY <1>5, <2>8, <2>9
<1>8. ASSUME e.left = {}, Proceed(q, {}), UNCHANGED <<record, met>>
      PROVE  RecordsIInv'
  <2>1. PICK d \in Erasures :
          /\ Becomes(q, d)
          /\ d.of = e.of /\ d.names = e.names /\ d.plan = Tail(e.plan) /\ d.left = {}
    BY <1>1, <1>2, <1>3, <1>8, ProceedIs
  <2>2. OrderlyIs(d)
    BY <1>3, <1>4, <2>1, GoesOn
  <2>3. \A x \in Records : (ChildOf(x, e) /\ x \notin {} /\ Finds(x, e)) => Finds(x, d)
    BY <1>3, <1>8, <2>1, Later DEF Finds
  <2>4. \A x, y \in Records :
          (/\ There(x) /\ x \notin {} /\ KindOf[x] = "client" /\ y \in record[x].names
           /\ There(y) /\ y \notin {} /\ KindOf[y] = "inbound" /\ e.of \in record[y].names
           /\ FindsClient(y, e))
          => FindsClient(y, d)
    BY <1>3, <1>8, <2>1, Later DEF FindsClient
  <2>5. EraseRows({}) /\ EraseSafe({}) /\ {} \in SUBSET Records /\ d \in Erasures \cup {Idle}
    BY <1>8, <2>1, ErasesNothing, NothingIsSafe
  <2> HIDE DEF RecordsIInv
  <2> QED
    BY <1>1, <1>2, <2>1, <2>2, <2>3, <2>4, <2>5, ErasureStep
<1> QED
  BY <1>2, <1>7, <1>8 DEF EachChild, Remains

\* An inbound is wiped with the node when its clients are gone, a permit with its
\* user or tunnel when the forwards are.
LEMMA WipeIsSafe ==
    ASSUME RecordsIInv, NEW q \in Erasers, Erasing(q), NEW e \in Erasures, e = erasing[q],
           e.plan # <<>>, Head(e.plan).do = "wipe",
           NEW s, s = Children(Head(e.plan).kind, e.of, e.names)
    PROVE  EraseSafe(s) /\ s \in SUBSET Records
<1> USE DEF RecordsIInv
<1> DEFINE k == Head(e.plan).kind
<1>1. e.plan \in Seq(Measures) /\ e.of \in Records /\ e.of \in BeingErased
  BY ErasingIs
<1>2. OrderlyIs(e) /\ PursuedBy(e)
  BY ErasersHave
<1>3. /\ k \in {"permit", "inbound", "client", "right"}
      /\ k = "inbound" => ~Lists(e.plan, "inbound")
      /\ k = "permit" => ~Covers(e.plan, "forward") /\ ~Lists(e.plan, "forward")
  BY <1>1, <1>2, WellPlannedRest DEF OrderlyIs
<1>4. s \subseteq Kindred(k) /\ s \in SUBSET Records
  <2>1. s \subseteq Kindred(k)
    BY BelowIs
  <2> QED
    BY <2>1 DEF Kindred
<1>5. \A j : ~Does(e, j)
  BY DEF Does
<1>6. \A y \in s : y \in Records /\ KindOf[y] = k /\ There(y)
  BY <1>4 DEF Children, Kindred
<1>7. k # "forward" /\ (k = "permit" => KindOf[e.of] \in {"user", "tunnel"})
  <2>1. Head(e.plan) = e.plan[1] /\ 1 \in 1..Len(e.plan)
    BY <1>1, PlanRest
  <2> QED
    BY <1>2, <1>3, <2>1 DEF OrderlyIs
<1>8. KindOf[e.of] # "permit"
  <2>1. Head(e.plan) = e.plan[1] /\ 1 \in 1..Len(e.plan)
    BY <1>1, PlanRest
  <2>2. KindOf[e.of] = "permit" => Head(e.plan).kind = "forward"
    BY <1>2, <2>1 DEF OrderlyIs
  <2> QED
    BY <1>7, <2>2
<1>9. \A y \in s : e.of \in record[y].names
  BY <1>8 DEF Children
<1>10. CASE k \in {"client", "right"}
  BY <1>4, <1>6, <1>10, LeavesAreSafe
<1>11. CASE k = "inbound"
  <2>1. ASSUME NEW y \in s
        PROVE  /\ e.of \in Parents(y) /\ KindOf[y] = "inbound" /\ record[y].names \in Shapes[y]
               /\ \A x \in Records : \A t \in Shapes[x] : y \in t =>
                    KindOf[x] = "client" /\ y \in Parents(x) /\ e.of \in Above(x)
    <3>1. record[y].names \in Shapes[y] /\ KindOf[y] = "inbound" /\ y \in Records
      BY <1>6, <1>11 DEF Shaped
    <3>2. e.of \in Parents(y)
      BY <1>9, <3>1, ShapeIs
    <3>3. ASSUME NEW x \in Records, NEW t \in Shapes[x], y \in t
          PROVE  KindOf[x] = "client" /\ y \in Parents(x)
      <4>1. KindOf[y] \in Named(KindOf[x]) /\ KindOf[x] \in Kinds /\ y \in Parents(x)
        BY <3>3, ShapeIs
      <4> QED
        BY <3>1, <4>1 DEF Named, Kinds
    <3>4. \A x \in Records : (KindOf[x] = "client" /\ y \in Parents(x)) => e.of \in Above(x)
      BY <3>2 DEF Above
    <3> QED
      BY <3>1, <3>2, <3>3, <3>4
  <2>2. ASSUME NEW x \in Records, NEW y \in s, There(x), y \in record[x].names
        PROVE  ({y} \cup Parents(y)) \cap met[x] # {}
    <3>1. KindOf[x] = "client"
      BY <2>1, <2>2 DEF Shaped
    <3>2. ~FindsClient(y, e)
      BY <1>3, <1>5, <1>11 DEF FindsClient
    <3>3. There(y) /\ KindOf[y] = "inbound" /\ e.of \in record[y].names /\ y \in Records
      BY <1>6, <1>9, <1>11
    <3> QED
      BY <1>2, <2>2, <3>1, <3>2, <3>3 DEF PursuedBy
  <2>3. ASSUME NEW r \in Writers, NEW y \in s, Busy(writing[r]), y \in writing[r].names
        PROVE  ({y} \cup Parents(y)) \cap writing[r].met # {}
    <3>1. writing[r].of \in Records /\ writing[r].names \in Shapes[writing[r].of]
      BY <2>3, WritingIs DEF Shaped
    <3>2. e.of \in writing[r].met
      BY <1>1, <2>1, <2>3, <3>1 DEF Met
    <3> QED
      BY <2>1, <3>2
  <2>4. \A p \in s : KindOf[p] # "permit"
    BY <1>6, <1>11
  <2> QED
    BY <1>4, <2>2, <2>3, <2>4 DEF EraseSafe
<1>12. CASE k = "permit"
  <2>1. ASSUME NEW y \in s, NEW x \in Records, NEW t \in Shapes[x]
        PROVE  y \notin t
    <3>1. \A z \in t : KindOf[z] \in Named(KindOf[x])
      BY ShapeIs
    <3> QED
      BY <1>6, <1>12, <3>1, ShapeIs DEF Named, Kinds
  <2>2. \A x \in Records : \A y \in s : There(x) => y \notin record[x].names
    BY <2>1 DEF Shaped
  <2>3. \A r \in Writers : \A y \in s : Busy(writing[r]) => y \notin writing[r].names
    BY <2>1, WritingIs DEF Shaped
  <2>4. ASSUME NEW f \in Records, KindOf[f] = "forward", NEW t \in Shapes[f],
               NEW p \in s, t \subseteq record[p].names
        PROVE  e.of \in t
    <3>1. record[p].names \in Shapes[p] /\ KindOf[p] = "permit" /\ p \in Records
      BY <1>6, <1>12 DEF Shaped
    <3> QED
      BY <1>7, <1>9, <1>12, <2>4, <3>1, OfThePermit
  <2>5. ASSUME NEW f \in Records, NEW p \in s, KindOf[f] = "forward", There(f),
               record[f].names \subseteq record[p].names
        PROVE  e.of \in met[f] /\ e.of \in record[f].names
    <3>1. e.of \in record[f].names
      BY <2>4, <2>5 DEF Shaped
    <3>2. ChildOf(f, e) /\ ~Finds(f, e)
      BY <1>3, <1>5, <1>8, <1>12, <2>5, <3>1 DEF ChildOf, LeftAlone, Finds
    <3> QED
      BY <1>2, <3>1, <3>2 DEF PursuedBy
  <2>6. ASSUME NEW r \in Writers, NEW p \in s, Busy(writing[r]), KindOf[writing[r].of] = "forward",
               writing[r].names \subseteq record[p].names
        PROVE  e.of \in writing[r].met /\ e.of \in writing[r].names
    <3>1. writing[r].of \in Records /\ writing[r].names \in Shapes[writing[r].of]
      BY <2>6, WritingIs DEF Shaped
    <3>2. e.of \in writing[r].names
      BY <2>4, <2>6, <3>1
    <3>3. e.of \in Above(writing[r].of)
      BY <3>1, <3>2, ShapeIs
    <3> QED
      BY <1>1, <2>6, <3>2, <3>3 DEF Met
  <2>7. \A x \in Records : \A y \in s :
          (There(x) /\ x \notin s /\ There(y) /\ y \in record[x].names /\ ~LeftAlone(x, y))
          => ({y} \cup Parents(y)) \cap met[x] # {}
    BY <2>2
  <2>8. \A r \in Writers : \A y \in s :
          (Busy(writing[r]) /\ There(y) /\ y \in writing[r].names)
          => ({y} \cup Parents(y)) \cap writing[r].met # {}
    BY <2>3
  <2>9. \A f \in Records : \A p \in s :
          (/\ KindOf[f] = "forward" /\ There(f) /\ f \notin s
           /\ KindOf[p] = "permit" /\ There(p) /\ record[f].names \subseteq record[p].names)
          => \E m \in met[f] : KindOf[m] = "permit" \/ m \in record[f].names
    BY <2>5
  <2>10. \A r \in Writers : \A p \in s :
          (/\ Busy(writing[r]) /\ KindOf[writing[r].of] = "forward"
           /\ KindOf[p] = "permit" /\ There(p) /\ writing[r].names \subseteq record[p].names)
          => \E m \in writing[r].met : KindOf[m] = "permit" \/ m \in writing[r].names
    BY <2>6
  <2> QED
    BY <1>4, <2>7, <2>8, <2>9, <2>10 DEF EraseSafe
<1> QED
  BY <1>3, <1>4, <1>10, <1>11, <1>12

LEMMA StepWipe ==
    ASSUME RecordsIInv, NEW q \in Erasers, WipeChildren(q)
    PROVE  RecordsIInv'
<1>1. RecordsTypeOK /\ Orderly /\ Pursued
  BY DEF RecordsIInv
<1>2. Erasing(q) /\ UNCHANGED writing
  BY DEF WipeChildren, Planned, Erasing
<1>3. PICK e \in Erasures : e = erasing[q]
  BY <1>1, <1>2, ErasingIs
<1>4. e.plan # <<>> /\ Head(e.plan).do = "wipe" /\ e.plan \in Seq(Measures)
  BY <1>3 DEF WipeChildren, Planned, Erasures, Measures
<1>5. PICK s : s = Children(Head(e.plan).kind, e.of, e.names)
  OBVIOUS
<1>6. EraseRows(s) /\ Proceed(q, {})
  BY <1>3, <1>5 DEF WipeChildren, Below
<1>7. EraseSafe(s) /\ s \in SUBSET Records
  BY <1>2, <1>3, <1>4, <1>5, WipeIsSafe
<1>8. PICK d \in Erasures :
        /\ Becomes(q, d)
        /\ d.of = e.of /\ d.names = e.names /\ d.plan = Tail(e.plan) /\ d.left = {}
  BY <1>1, <1>2, <1>3, <1>4, <1>6, ProceedIs
<1>9. OrderlyIs(e)
  BY <1>1, <1>2, <1>3, ErasersHave
<1>10. OrderlyIs(d)
  BY <1>4, <1>8, <1>9, GoesOn
<1>11. ASSUME NEW x \in Records, ChildOf(x, e), x \notin s, Finds(x, e)
       PROVE  Finds(x, d)
  <2>1. Head(e.plan).kind # KindOf[x]
    BY <1>1, <1>5, <1>11, BelowIs
  <2> QED
    BY <1>4, <1>8, <1>11, <2>1, Later DEF Finds, Does
<1>12. \A x \in Records : (ChildOf(x, e) /\ x \notin s /\ Finds(x, e)) => Finds(x, d)
  BY <1>11
<1>13. \A x, y \in Records :
         (/\ There(x) /\ x \notin s /\ KindOf[x] = "client" /\ y \in record[x].names
          /\ There(y) /\ y \notin s /\ KindOf[y] = "inbound" /\ e.of \in record[y].names
          /\ FindsClient(y, e))
         => FindsClient(y, d)
  BY <1>4, <1>8, Later DEF FindsClient, Does
<1> QED
  BY <1>2, <1>3, <1>6, <1>7, <1>8, <1>10, <1>12, <1>13, ErasureStep

\* When its row is deleted, a request has dealt with all that it looks after.
LEMMA StepDelete ==
    ASSUME RecordsIInv, NEW q \in Erasers, DeleteRow(q)
    PROVE  RecordsIInv'
<1> USE DEF RecordsIInv
<1>1. Erasing(q) /\ UNCHANGED writing
  BY DEF DeleteRow, Erasing
<1>2. PICK e \in Erasures : e = erasing[q]
  BY <1>1, ErasingIs
<1>3. e.plan = <<>> /\ EraseRows({e.of}) /\ Becomes(q, Idle)
  BY <1>2 DEF DeleteRow, Becomes
<1>4. OrderlyIs(e) /\ PursuedBy(e) /\ e.of \in Records /\ e.of \in BeingErased
  BY <1>1, <1>2, ErasersHave, ErasingIs
<1>5. \A x : ~Finds(x, e)
  BY <1>3 DEF Finds, Covers, Lists, Does
<1>6. ASSUME NEW r \in Writers, Busy(writing[r]), e.of \in Above(writing[r].of)
      PROVE  e.of \in writing[r].met
  BY <1>4, <1>6 DEF Met
<1>7. ASSUME NEW r \in Writers, Busy(writing[r]), e.of \in writing[r].names
      PROVE  e.of \in writing[r].met
  <2>1. writing[r].of \in Records /\ writing[r].names \in Shapes[writing[r].of]
    BY <1>7, WritingIs DEF Shaped
  <2> QED
    BY <1>6, <1>7, <2>1, ShapeIs
<1>8. ASSUME NEW x \in Records, There(x), e.of \in record[x].names, ~LeftAlone(x, e.of)
      PROVE  e.of \in met[x]
  <2>1. KindOf[e.of] # "permit"
    <3>1. KindOf[e.of] \in Named(KindOf[x])
      BY <1>8, ShapeIs DEF Shaped
    <3> QED
      BY <3>1, ShapeIs DEF Named, Kinds
  <2>2. ChildOf(x, e)
    BY <1>8, <2>1 DEF ChildOf
  <2> QED
    BY <1>4, <1>5, <2>2 DEF PursuedBy
<1>9. ASSUME NEW f \in Records, KindOf[f] = "forward", There(f), KindOf[e.of] = "permit",
             There(e.of), record[f].names \subseteq record[e.of].names
      PROVE  e.of \in met[f]
  <2>1. record[f].names \in Shapes[f] /\ record[e.of].names \in Shapes[e.of]
    BY <1>4, <1>9 DEF Shaped
  <2>2. \A y \in record[f].names : KindOf[y] \in {"user", "tunnel"}
    BY <1>4, <1>9, <2>1, OfThePermit
  <2>3. record[e.of].names \ Kindred("limit") = e.names \ Kindred("limit")
    BY <1>4, <1>9 DEF OrderlyIs
  <2>4. record[f].names \subseteq e.names
    BY <1>9, <2>2, <2>3 DEF Kindred
  <2>5. ChildOf(f, e)
    BY <1>9, <2>4 DEF ChildOf
  <2> QED
    BY <1>4, <1>5, <2>5 DEF PursuedBy
<1>10. ASSUME NEW r \in Writers, Busy(writing[r]), KindOf[writing[r].of] = "forward",
              KindOf[e.of] = "permit"
       PROVE  e.of \in writing[r].met
  BY <1>4, <1>6, <1>10 DEF Above, Kindred
<1>11. EraseSafe({e.of})
  BY <1>7, <1>8, <1>9, <1>10 DEF EraseSafe
<1> HIDE DEF RecordsIInv
<1> QED
  BY <1>1, <1>2, <1>3, <1>4, <1>11, ErasureStep
-----------------------------------------------------------------------------
(* The steps of a request that writes.                                       *)

LEMMA ErasersStay ==
    ASSUME RecordsTypeOK, Orderly, Pursued, NEW s \in SUBSET Records, EraseRows(s),
           UNCHANGED erasing
    PROVE  Orderly' /\ Pursued'
<1>1. ASSUME NEW r \in Erasers, NEW e, erasing'[r] # Idle, e = erasing'[r]
      PROVE  OrderlyIs(e)' /\ PursuedBy(e)'
  <2>1. Erasing(r) /\ e = erasing[r]
    BY <1>1 DEF Erasing
  <2>2. e \in Erasures
    BY <2>1, ErasingIs
  <2>3. OrderlyIs(e) /\ PursuedBy(e)
    BY <2>1, ErasersHave
  <2> QED
    BY <2>2, <2>3, StaysOrderly, Pursuit
<1> QED
  BY <1>1, ErasersNext

\* A writer is done, and may take its row back.
LEMMA WriterDone ==
    ASSUME RecordsIInv, NEW s \in SUBSET Records, EraseRows(s), EraseSafe(s),
           NEW q \in Writers, writing' = [writing EXCEPT ![q] = Idle], UNCHANGED erasing
    PROVE  RecordsIInv'
<1> USE DEF RecordsIInv
<1>1. WritersRest /\ writing' \in [Writers -> Writings \cup {Idle}]
  BY DEF WritersRest, RecordsTypeOK
<1>2. RecordsTypeOK'
  BY <1>1, ErasedIs DEF RecordsTypeOK
<1>3. NamesStand' /\ AllPermitted' /\ Shaped' /\ PermitChange'
  BY <1>1, ErasureStands, ErasurePermits, ErasureShapes
<1>4. Met'
  BY <1>1, ErasureMeets
<1>5. Orderly' /\ Pursued'
  BY ErasersStay
<1> QED
  BY <1>2, <1>3, <1>4, <1>5

LEMMA StepSettle ==
    ASSUME RecordsIInv, NEW q \in Writers, SettleForward(q)
    PROVE  RecordsIInv'
<1>1. RecordsTypeOK /\ Shaped /\ writing[q].at = "settle"
  BY DEF RecordsIInv, SettleForward
<1>2. KindOf[writing[q].of] = "forward" /\ writing[q].of \in Records
  BY <1>1, WritingIs DEF Shaped
<1>3. PICK s \in SUBSET Records : EraseRows(s) /\ s \in {{}, {writing[q].of}}
  <2>1. EraseRows({}) \/ EraseRows({writing[q].of})
    BY DEF SettleForward
  <2> QED
    BY <1>2, <2>1
<1>4. EraseSafe(s)
  BY <1>1, <1>2, <1>3, LeavesAreSafe
<1> QED
  BY <1>3, <1>4, WriterDone DEF SettleForward

LEMMA StepRefused ==
    ASSUME RecordsIInv, NEW q \in Writers, Refused(q)
    PROVE  RecordsIInv'
<1>1. EraseRows({}) /\ {} \in SUBSET Records
  BY ErasesNothing DEF RecordsIInv, Refused
<1> QED
  BY <1>1, NothingIsSafe, WriterDone DEF Refused

\* A request has looked up what its row is going to name.
LEMMA StepLooks ==
    ASSUME RecordsIInv, NEW q \in Writers, NEW x \in Records, NEW s, NEW at \in {"insert", "change"},
           Looks(q, x, s, at),
           at = "insert" => /\ record[x] = Unborn
                            /\ ~\E r \in Writers : Busy(writing[r]) /\ writing[r].of = x,
           at = "change" => /\ There(x) /\ KindOf[x] \in {"forward", "permit"}
                            /\ KindOf[x] = "permit" =>
                                 record[x].names \ Kindred("limit") = s \ Kindred("limit")
    PROVE  RecordsIInv'
<1> USE DEF RecordsIInv
<1>1. s \in Shapes[x] /\ s \in SUBSET Records /\ \A y \in s : There(y) \/ Unchecked(x, y)
  BY ShapeIs DEF Looks, MayName
<1>2. KindOf[x] = "forward" => Permitting(s) # {}
  BY DEF Looks, MayName
<1>3. UNCHANGED <<record, met, erasing>>
  BY DEF Looks
<1>4. PICK m : m = (BeingErased \cap Above(x)) \cup {y \in s : record[y] = Gone}
  OBVIOUS
<1>5. PICK w : w = [at |-> at, of |-> x, names |-> s, met |-> m]
  OBVIOUS
<1>6. m \in SUBSET Records
  BY <1>1, <1>4, ErasingIs DEF BeingErased, Erasing
<1>7. /\ w \in Writings /\ Busy(w) /\ w.at = at /\ w.of = x /\ w.names = s /\ w.met = m
      /\ w # Idle
  BY <1>1, <1>5, <1>6 DEF Writings, Busy, Idle
<1>8. /\ writing' \in [Writers -> Writings \cup {Idle}] /\ writing'[q] = w
      /\ \A r \in Writers : r # q => writing'[r] = writing[r]
  BY <1>4, <1>5, <1>7 DEF Looks, RecordsTypeOK
<1>9. RecordsTypeOK'
  BY <1>3, <1>8 DEF RecordsTypeOK
<1>10. Orderly' /\ Pursued'
  BY <1>3, ErasesNothing, ErasersStay
<1>11. \A y : There(y)' <=> There(y)
  BY <1>3 DEF There
<1>12. \A z, y, n : Stands(z, y, n) => Stands(z, y, n)'
  BY <1>3, <1>11 DEF Stands, Unchecked
<1>13. \A t, n : Permitted(t, n) => Permitted(t, n)'
  BY <1>3, <1>11 DEF Permitted, Permitting, Kindred
<1>14. Shaped'
  <2>1. \A r \in Writers : (writing'[r] # Idle /\ r # q) => writing[r] # Idle
    BY <1>8
  <2>2. ASSUME NEW r \in Writers, r # q, writing[r] # Idle, writing[r].at = "insert", at = "insert"
        PROVE  writing[r].of # x
    BY <2>2 DEF Busy
  <2>3. \A r \in Writers : writing'[r] # Idle =>
          /\ writing'[r].names \in Shapes[writing'[r].of]
          /\ writing'[r].at = "insert" => record[writing'[r].of] = Unborn
          /\ writing'[r].at = "change" => /\ record[writing'[r].of] # Unborn
                                          /\ KindOf[writing'[r].of] \in {"forward", "permit"}
          /\ writing'[r].at = "settle" => KindOf[writing'[r].of] = "forward"
    <3> SUFFICES ASSUME NEW r \in Writers, writing'[r] # Idle
                 PROVE  /\ writing'[r].names \in Shapes[writing'[r].of]
                        /\ writing'[r].at = "insert" => record[writing'[r].of] = Unborn
                        /\ writing'[r].at = "change" => /\ record[writing'[r].of] # Unborn
                                                        /\ KindOf[writing'[r].of] \in {"forward", "permit"}
                        /\ writing'[r].at = "settle" => KindOf[writing'[r].of] = "forward"
      OBVIOUS
    <3>1. CASE r = q
      BY <1>1, <1>7, <1>8, <3>1, RowIs
    <3>2. CASE r # q
      BY <1>8, <3>2 DEF Shaped
    <3> QED
      BY <3>1, <3>2
  <2>4. \A a, r \in Writers :
          (writing'[a] # Idle /\ writing'[r] # Idle /\ writing'[a].at = "insert"
           /\ writing'[r].at = "insert" /\ writing'[a].of = writing'[r].of) => a = r
    BY <1>7, <1>8, <2>1, <2>2 DEF Shaped
  <2>5. \A z \in Records : There(z)' => record'[z].names \in Shapes[z]
    BY <1>3, <1>11 DEF Shaped
  <2> QED
    BY <1>3, <2>3, <2>4, <2>5 DEF Shaped
<1>15. Met'
  <2>1. BeingErased' = BeingErased
    BY <1>3 DEF BeingErased
  <2>2. ASSUME NEW r \in Writers, Busy(writing'[r])
        PROVE  BeingErased \cap Above(writing'[r].of) \subseteq writing'[r].met
    <3>1. CASE r = q
      BY <1>4, <1>7, <1>8, <3>1
    <3>2. CASE r # q
      BY <1>8, <2>2, <3>2 DEF Met
    <3> QED
      BY <3>1, <3>2
  <2> QED
    BY <2>1, <2>2 DEF Met, Above, Parents, Kindred
<1>16. NamesStand'
  <2>1. ASSUME NEW r \in Writers, Busy(writing'[r]), NEW y \in writing'[r].names
        PROVE  Stands(writing'[r].of, y, writing'[r].met)
    <3>1. CASE r = q
      <4>1. y \in s /\ y \in Records /\ writing'[r].of = x /\ writing'[r].met = m
        BY <1>1, <1>7, <1>8, <2>1, <3>1
      <4>2. There(y) \/ record[y] = Unborn \/ record[y] = Gone
        BY <4>1, RowIs
      <4>3. record[y] = Gone => y \in m
        BY <1>4, <4>1
      <4> QED
        BY <1>1, <4>1, <4>2, <4>3, RowIs DEF Stands
    <3>2. CASE r # q
      BY <1>8, <2>1, <3>2 DEF NamesStand
    <3> QED
      BY <3>1, <3>2
  <2>2. \A r \in Writers : Busy(writing'[r]) =>
          \A y \in writing'[r].names : Stands(writing[r].of, y, writing[r].met)'
    BY <1>3, <2>1 DEF Stands, There, Unchecked
  <2>3. \A z \in Records : There(z)' => \A y \in record'[z].names :
          Stands(z, y, met[z])' \/ (LeftAlone(z, y) /\ record'[y] # Unborn)
    BY <1>3 DEF NamesStand, Stands, There, Unchecked
  <2> QED
    BY <2>2, <2>3 DEF NamesStand, LeftAlone
<1>17. PermitChange'
  <2>1. ASSUME NEW r \in Writers, writing'[r].at = "change", KindOf[writing'[r].of] = "permit",
               record[writing'[r].of].is = "there"
        PROVE  writing'[r].names \ Kindred("limit") = record[writing'[r].of].names \ Kindred("limit")
    <3>1. CASE r = q
      BY <1>7, <1>8, <2>1, <3>1
    <3>2. CASE r # q
      BY <1>8, <2>1, <3>2 DEF PermitChange, There
    <3> QED
      BY <3>1, <3>2
  <2> QED
    BY <1>3, <2>1 DEF PermitChange, Kindred, There
<1>18. AllPermitted'
  <2>1. ASSUME NEW r \in Writers, Busy(writing'[r]), KindOf[writing'[r].of] = "forward"
        PROVE  Permitted(writing[r].names, writing[r].met)'
    <3>1. CASE r = q
      BY <1>2, <1>3, <1>7, <1>8, <2>1, <3>1 DEF Permitted, Permitting, There, Kindred
    <3>2. CASE r # q
      <4>1. Permitted(writing[r].names, writing[r].met) /\ writing'[r] = writing[r]
        BY <1>8, <2>1, <3>2 DEF AllPermitted
      <4> QED
        BY <1>3, <4>1 DEF Permitted, Permitting, There, Kindred
    <3> QED
      BY <3>1, <3>2
  <2>2. ASSUME NEW f \in Kindred("forward"), There(f)'
        PROVE  Permitted(record[f].names, met[f])'
    <3>1. Permitted(record[f].names, met[f])
      BY <1>11, <2>2 DEF AllPermitted
    <3> QED
      BY <1>3, <3>1 DEF Permitted, Permitting, There, Kindred
  <2> QED
    BY <2>1, <2>2 DEF AllPermitted, Kindred
<1> QED
  BY <1>9, <1>10, <1>14, <1>15, <1>16, <1>17, <1>18

\* Row x is written, with the names s, by a writer that has met the deletions m.
Puts(x, s, m) ==
    /\ record' = [record EXCEPT ![x] = [is |-> "there", names |-> s]]
    /\ met'[x] = m
    /\ \A z \in Records : z # x => met'[z] = met[z]
    /\ met' \in [Records -> SUBSET Records]

\* What has been looked up and met by whoever writes.
MayPut(x, s, m) ==
    /\ s \in Shapes[x]
    /\ record[x] = Unborn \/ (There(x) /\ KindOf[x] \in {"forward", "permit"})
    /\ There(x) /\ KindOf[x] = "permit" =>
         record[x].names \ Kindred("limit") = s \ Kindred("limit")
    /\ \A y \in s : Stands(x, y, m)
    /\ BeingErased \cap Above(x) \subseteq m
    /\ KindOf[x] = "forward" => Permitted(s, m)

LEMMA PutIs ==
    ASSUME RecordsTypeOK, NEW x \in Records, NEW s, NEW m, Puts(x, s, m), MayPut(x, s, m)
    PROVE  /\ record' \in [Records -> Rows]
           /\ There(x)' /\ record'[x].names = s /\ record'[x] # Unborn
           /\ \A z \in Records : z # x => (record'[z] = record[z] /\ (There(z)' <=> There(z)))
           /\ \A z \in Records : There(z) => There(z)'
           /\ \A z \in Records : record[z] = Gone => record'[z] = Gone
           /\ \A z \in Records : record[z] # Unborn => record'[z] # Unborn
<1>1. s \subseteq Records
  BY ShapeIs DEF MayPut
<1>2. /\ record' \in [Records -> Rows]
      /\ record'[x] = [is |-> "there", names |-> s]
      /\ \A z \in Records : z # x => record'[z] = record[z]
  BY <1>1 DEF Puts, RecordsTypeOK, Rows
<1>3. There(x)' /\ record'[x].names = s /\ record'[x] # Unborn
  BY <1>2 DEF There, Unborn
<1>4. \A z \in Records : z # x => (There(z)' <=> There(z))
  BY <1>2 DEF There
<1>5. record[x] # Gone
  BY RowIs DEF MayPut
<1> QED
  BY <1>2, <1>3, <1>4, <1>5

LEMMA PutPursued ==
    ASSUME RecordsIInv, NEW x \in Records, NEW s, NEW m, Puts(x, s, m), MayPut(x, s, m),
           UNCHANGED erasing
    PROVE  Orderly' /\ Pursued'
<1> USE PutIs DEF RecordsIInv
<1>1. ASSUME NEW r \in Erasers, NEW e, erasing'[r] # Idle, e = erasing'[r]
      PROVE  OrderlyIs(e)' /\ PursuedBy(e)'
  <2>1. Erasing(r) /\ e = erasing[r]
    BY <1>1 DEF Erasing
  <2>2. e.of \in Records /\ e.of \in BeingErased /\ e \in Erasures
    BY <2>1, ErasingIs
  <2>3. OrderlyIs(e) /\ PursuedBy(e)
    BY <2>1, ErasersHave
  <2>4. e.of \in Above(x) => e.of \in met'[x]
    BY <2>2 DEF MayPut, Puts
  <2>5. OrderlyIs(e)'
    <3>1. record'[e.of] # Unborn
      BY <2>2, <2>3 DEF OrderlyIs
    <3>2. ASSUME KindOf[e.of] = "permit", There(e.of)'
          PROVE  record'[e.of].names \ Kindred("limit") = e.names \ Kindred("limit")
      <4>1. CASE e.of = x
        <5>1. There(x)
          BY <2>3, <4>1 DEF OrderlyIs, MayPut
        <5> QED
          BY <2>3, <3>2, <4>1, <5>1 DEF OrderlyIs, MayPut
      <4>2. CASE e.of # x
        BY <2>2, <2>3, <3>2, <4>2 DEF OrderlyIs
      <4> QED
        BY <4>1, <4>2
    <3> QED
      BY <2>3, <3>1, <3>2 DEF OrderlyIs, Does, Kindred, WellPlanned
  <2>6. ASSUME NEW z \in Records, ChildOf(z, e)', e.of \notin met'[z]
        PROVE  Finds(z, e)'
    <3>1. z # x
      <4> SUFFICES ASSUME z = x
                   PROVE  e.of \in Above(x)
        BY <2>4, <2>6
      <4>1. CASE KindOf[e.of] = "permit"
        BY <2>2, <2>6, <4>1 DEF ChildOf, Above, Kindred
      <4>2. CASE KindOf[e.of] # "permit"
        <5>1. e.of \in s /\ s \in Shapes[x]
          BY <2>6, <4>2 DEF ChildOf, MayPut
        <5> QED
          BY <5>1, ShapeIs
      <4> QED
        BY <4>1, <4>2
    <3>2. ChildOf(z, e) /\ met'[z] = met[z]
      BY <2>6, <3>1 DEF ChildOf, LeftAlone, Puts
    <3>3. Finds(z, e)
      BY <2>3, <2>6, <3>2 DEF PursuedBy
    <3> QED
      BY <3>3 DEF Finds, Covers, Lists, Does
  <2>7. ASSUME NEW z \in Records, NEW y \in Records,
               There(z)', KindOf[z] = "client", y \in record'[z].names,
               There(y)', KindOf[y] = "inbound", e.of \in record'[y].names,
               ({y} \cup Parents(y)) \cap met'[z] = {}
        PROVE  FindsClient(y, e)'
    <3>1. z # x
      <4> SUFFICES ASSUME z = x
                   PROVE  e.of \in Parents(y) /\ e.of \in Above(x)
        BY <2>4, <2>7
      <4>1. y # x /\ y \in s /\ s \in Shapes[x]
        BY <2>7 DEF MayPut
      <4>2. e.of \in Parents(y)
        <5>1. There(y) /\ record'[y] = record[y] /\ record[y].names \in Shapes[y]
          BY <2>7, <4>1 DEF Shaped
        <5> QED
          BY <2>7, <5>1, ShapeIs
      <4>3. y \in Parents(x)
        BY <4>1, ShapeIs
      <4> QED
        BY <2>7, <4>2, <4>3 DEF Above
    <3>2. There(z) /\ record'[z] = record[z] /\ met'[z] = met[z]
      BY <2>7, <3>1 DEF Puts
    <3>3. y # x
      <4> SUFFICES ASSUME y = x
                   PROVE  FALSE
        OBVIOUS
      <4>1. record[x] = Unborn
        BY <2>7 DEF MayPut
      <4>2. Stands(z, x, met[z]) \/ record[x] # Unborn
        BY <2>7, <3>2 DEF NamesStand
      <4>3. ~Unchecked(z, x)
        BY <2>7 DEF Unchecked
      <4> QED
        BY <4>1, <4>2, <4>3, RowIs DEF Stands
    <3>4. There(y) /\ record'[y] = record[y]
      BY <2>7, <3>3
    <3>5. FindsClient(y, e)
      BY <2>3, <2>7, <3>2, <3>4 DEF PursuedBy
    <3> QED
      BY <3>5 DEF FindsClient, Lists, Does
  <2>8. PursuedBy(e)'
    BY <2>6, <2>7 DEF PursuedBy, Parents
  <2> QED
    BY <2>5, <2>8
<1> QED
  BY <1>1, ErasersNext

\* The writer q has put its row.
LEMMA PutKeeps ==
    ASSUME RecordsIInv, NEW x \in Records, NEW s, NEW m, Puts(x, s, m), MayPut(x, s, m),
           UNCHANGED erasing,
           NEW q \in Writers, NEW w \in Writings \cup {Idle}, writing' = [writing EXCEPT ![q] = w],
           ~Busy(w), w # Idle => (w.at = "settle" /\ w.of = x /\ w.names = s /\ KindOf[x] = "forward"),
           \A r \in Writers : (r # q /\ writing[r] # Idle /\ writing[r].at = "insert")
                              => writing[r].of # x
    PROVE  RecordsIInv'
<1> USE PutIs DEF RecordsIInv
<1>1. /\ writing' \in [Writers -> Writings \cup {Idle}] /\ writing'[q] = w
      /\ \A r \in Writers : r # q => writing'[r] = writing[r]
  BY DEF RecordsTypeOK
<1>2. RecordsTypeOK'
  BY <1>1 DEF RecordsTypeOK, Puts
<1>3. \A r \in Writers : Busy(writing'[r]) => (r # q /\ writing'[r] = writing[r] /\ Busy(writing[r]))
  BY <1>1
<1>4. Orderly' /\ Pursued'
  BY PutPursued
<1>5. ASSUME NEW z \in Records, NEW y \in Records, NEW n, Stands(z, y, n)
      PROVE  Stands(z, y, n)'
  BY <1>5 DEF Stands, Unchecked
<1>6. ASSUME NEW t, NEW n, t \in UNION {Shapes[f] : f \in Kindred("forward")}, Permitted(t, n)
      PROVE  Permitted(t, n)'
  <2>1. \A y \in t : y \notin Kindred("limit")
    <3>1. PICK f \in Records : KindOf[f] = "forward" /\ t \in Shapes[f]
      BY <1>6 DEF Kindred
    <3>2. \A y \in t : KindOf[y] \in Named("forward")
      BY <3>1, ShapeIs
    <3> QED
      BY <3>2 DEF Named, Kindred
  <2>2. ASSUME NEW p \in Permitting(t)
        PROVE  p \in Permitting(t)'
    <3>1. p \in Kindred("permit") /\ p \in Records /\ KindOf[p] = "permit"
          /\ There(p) /\ t \subseteq record[p].names
      BY <2>2 DEF Permitting, Kindred
    <3>2. There(p)' /\ t \subseteq record'[p].names
      <4>1. CASE p = x
        <5>1. record[x].names \ Kindred("limit") = s \ Kindred("limit")
          BY <3>1, <4>1 DEF MayPut
        <5> QED
          BY <2>1, <3>1, <4>1, <5>1
      <4>2. CASE p # x
        BY <3>1, <4>2
      <4> QED
        BY <4>1, <4>2
    <3> QED
      BY <3>1, <3>2 DEF Permitting, Kindred
  <2> QED
    BY <1>6, <2>2 DEF Permitted
<1>7. Shaped'
  <2>1. \A z \in Records : There(z)' => record'[z].names \in Shapes[z]
    BY DEF Shaped, MayPut
  <2>2. ASSUME NEW r \in Writers, writing'[r] # Idle
        PROVE  /\ writing'[r].names \in Shapes[writing'[r].of]
               /\ writing'[r].at = "insert" => record'[writing'[r].of] = Unborn
               /\ writing'[r].at = "change" => /\ record'[writing'[r].of] # Unborn
                                               /\ KindOf[writing'[r].of] \in {"forward", "permit"}
               /\ writing'[r].at = "settle" => KindOf[writing'[r].of] = "forward"
    <3>1. CASE r = q
      BY <1>1, <2>2, <3>1 DEF MayPut, Busy
    <3>2. CASE r # q
      <4>1. writing'[r] = writing[r] /\ writing[r] # Idle /\ writing[r].of \in Records
        BY <1>1, <2>2, <3>2, WritingIs
      <4>2. writing[r].at = "insert" => writing[r].of # x
        BY <3>2, <4>1
      <4> QED
        BY <4>1, <4>2 DEF Shaped
    <3> QED
      BY <3>1, <3>2
  <2>3. \A a, r \in Writers :
          (writing'[a] # Idle /\ writing'[r] # Idle /\ writing'[a].at = "insert"
           /\ writing'[r].at = "insert" /\ writing'[a].of = writing'[r].of) => a = r
    BY <1>1 DEF Shaped, Busy
  <2> QED
    BY <2>1, <2>2, <2>3 DEF Shaped
<1>8. Met'
  <2>1. BeingErased' = BeingErased
    BY DEF BeingErased
  <2> QED
    BY <1>3, <2>1 DEF Met, Above, Parents, Kindred
<1>9. NamesStand'
  <2>1. ASSUME NEW z \in Records, There(z)', NEW y \in record'[z].names
        PROVE  Stands(z, y, met[z])' \/ (LeftAlone(z, y) /\ record'[y] # Unborn)
    <3>1. CASE z = x
      <4>1. y \in Records /\ Stands(z, y, m) /\ met'[z] = m
        BY ZenonT(60), <2>1, <3>1, ShapeIs DEF MayPut, Puts
      <4> QED
        BY <1>5, <4>1 DEF Stands, There, Unchecked
    <3>2. CASE z # x
      <4>1. There(z) /\ record'[z] = record[z] /\ met'[z] = met[z] /\ y \in Records
        BY <2>1, <3>2, RowIs DEF Puts
      <4>2. Stands(z, y, met[z]) \/ (LeftAlone(z, y) /\ record[y] # Unborn)
        BY <2>1, <4>1 DEF NamesStand
      <4> QED
        BY <1>5, <4>1, <4>2 DEF Stands, There, Unchecked
    <3> QED
      BY <3>1, <3>2
  <2>2. ASSUME NEW r \in Writers, Busy(writing'[r]), NEW y \in writing'[r].names
        PROVE  Stands(writing[r].of, y, writing[r].met)'
    <3>1. /\ writing'[r] = writing[r] /\ y \in Records /\ writing[r].of \in Records
          /\ Stands(writing[r].of, y, writing[r].met)
      BY <1>3, <2>2, WritingIs DEF NamesStand
    <3> QED
      BY <1>5, <3>1 DEF Stands, There, Unchecked
  <2> QED
    BY <2>1, <2>2 DEF NamesStand, LeftAlone
<1>10. PermitChange'
  <2>1. ASSUME NEW r \in Writers, writing'[r].at = "change", KindOf[writing'[r].of] = "permit",
               record'[writing'[r].of].is = "there"
        PROVE  writing'[r].names \ Kindred("limit") = record'[writing'[r].of].names \ Kindred("limit")
    <3>1. writing'[r] = writing[r] /\ writing[r] # Idle /\ writing[r].of \in Records
      <4>1. Busy(writing'[r])
        BY <2>1 DEF Busy
      <4> QED
        BY <1>3, <4>1, WritingIs
    <3>2. record[writing[r].of] # Unborn
      BY <2>1, <3>1 DEF Shaped
    <3>3. There(writing[r].of)
      <4>1. \A z \in Records : record'[z].is = "there" /\ record[z] # Unborn => There(z)
        BY DEF There, MayPut
      <4> QED
        BY <2>1, <3>1, <3>2, <4>1
    <3>4. writing[r].names \ Kindred("limit") = record[writing[r].of].names \ Kindred("limit")
      BY <2>1, <3>1, <3>3 DEF PermitChange
    <3>5. CASE writing[r].of = x
      BY <2>1, <3>1, <3>3, <3>4, <3>5 DEF MayPut
    <3>6. CASE writing[r].of # x
      BY <3>1, <3>4, <3>6
    <3> QED
      BY <3>5, <3>6
  <2> QED
    BY <2>1 DEF PermitChange, Kindred, There
<1>11. AllPermitted'
  <2>1. ASSUME NEW r \in Writers, Busy(writing'[r]), KindOf[writing'[r].of] = "forward"
        PROVE  Permitted(writing[r].names, writing[r].met)'
    <3>1. writing'[r] = writing[r] /\ Permitted(writing[r].names, writing[r].met)
          /\ writing[r].names \in Shapes[writing[r].of] /\ writing[r].of \in Kindred("forward")
      BY <1>3, <2>1, WritingIs DEF AllPermitted, Shaped, Kindred
    <3>2. PICK t, n : t = writing[r].names /\ n = writing[r].met
      OBVIOUS
    <3>3. Permitted(t, n)'
      BY <1>6, <3>1, <3>2
    <3> QED
      BY <3>1, <3>2, <3>3 DEF Permitted, Permitting, There
  <2>2. ASSUME NEW f \in Kindred("forward"), There(f)'
        PROVE  Permitted(record[f].names, met[f])'
    <3>1. PICK t, n : t = record'[f].names /\ n = met'[f]
      OBVIOUS
    <3>2. f \in Records /\ KindOf[f] = "forward" /\ t \in Shapes[f]
      BY <1>7, <2>2, <3>1 DEF Kindred, Shaped
    <3>3. Permitted(t, n)
      <4>1. CASE f = x
        BY <3>1, <3>2, <4>1 DEF MayPut, Puts
      <4>2. CASE f # x
        BY <2>2, <3>1, <3>2, <4>2 DEF AllPermitted, Puts
      <4> QED
        BY <4>1, <4>2
    <3>4. Permitted(t, n)'
      BY <1>6, <3>2, <3>3 DEF Kindred
    <3> QED
      BY <3>1, <3>4 DEF Permitted, Permitting, There
  <2> QED
    BY <2>1, <2>2 DEF AllPermitted, Kindred
<1> QED
  BY <1>2, <1>4, <1>7, <1>8, <1>9, <1>10, <1>11

LEMMA StepInsert ==
    ASSUME RecordsIInv, NEW q \in Writers, InsertRow(q)
    PROVE  RecordsIInv'
<1> USE DEF RecordsIInv
<1>1. PICK w \in Writings : w = writing[q] /\ w.at = "insert" /\ writing[q] # Idle
  BY WritingIs DEF InsertRow, Busy
<1>2. PICK x, s, m : x = w.of /\ s = w.names /\ m = w.met
  OBVIOUS
<1>3. x \in Records /\ s \in SUBSET Records /\ m \in SUBSET Records
  BY <1>2 DEF Writings
<1>4. Puts(x, s, m)
  BY <1>1, <1>2, <1>3 DEF InsertRow, Puts, RecordsTypeOK
<1>5. Busy(writing[q]) /\ record[x] = Unborn /\ s \in Shapes[x]
  BY <1>1, <1>2 DEF Shaped, Busy
<1>6. MayPut(x, s, m)
  <2>1. \A y \in s : Stands(x, y, m)
    BY <1>1, <1>2, <1>5 DEF NamesStand
  <2>2. BeingErased \cap Above(x) \subseteq m
    BY <1>1, <1>2, <1>5 DEF Met
  <2>3. KindOf[x] = "forward" => Permitted(s, m)
    BY <1>1, <1>2, <1>5 DEF AllPermitted
  <2>4. ~There(x)
    BY <1>3, <1>5, RowIs
  <2> QED
    BY <1>5, <2>1, <2>2, <2>3, <2>4 DEF MayPut
<1>7. \A r \in Writers : (r # q /\ writing[r] # Idle /\ writing[r].at = "insert") => writing[r].of # x
  BY <1>1, <1>2 DEF Shaped
<1>8. PICK v : v = IF KindOf[x] = "forward"
                   THEN [at |-> "settle", of |-> x, names |-> s, met |-> {}] ELSE Idle
  OBVIOUS
<1>9. writing' = [writing EXCEPT ![q] = v]
  <2>1. w = [at |-> w.at, of |-> x, names |-> s, met |-> m]
    BY <1>2 DEF Writings
  <2>2. [w EXCEPT !.at = "settle", !.met = {}] = [at |-> "settle", of |-> x, names |-> s, met |-> {}]
    <3>1. [w EXCEPT !.at = "settle"] = [at |-> "settle", of |-> x, names |-> s, met |-> m]
      BY <2>1
    <3>2. [[at |-> "settle", of |-> x, names |-> s, met |-> m] EXCEPT !.met = {}]
            = [at |-> "settle", of |-> x, names |-> s, met |-> {}]
      OBVIOUS
    <3>3. [[w EXCEPT !.at = "settle"] EXCEPT !.met = {}]
            = [at |-> "settle", of |-> x, names |-> s, met |-> {}]
      BY <3>1, <3>2
    <3> QED
      BY <3>3
  <2>3. writing' = [writing EXCEPT ![q] = IF KindOf[w.of] = "forward"
                                          THEN [w EXCEPT !.at = "settle", !.met = {}] ELSE Idle]
    BY <1>1 DEF InsertRow
  <2> QED
    BY <1>2, <1>8, <2>2, <2>3
<1>10. /\ v \in Writings \cup {Idle} /\ ~Busy(v)
       /\ v # Idle => (v.at = "settle" /\ v.of = x /\ v.names = s /\ KindOf[x] = "forward")
  <2>1. CASE KindOf[x] = "forward"
    BY <1>3, <1>8, <2>1 DEF Writings, Busy
  <2>2. CASE KindOf[x] # "forward"
    BY <1>8, <2>2 DEF Busy, Idle
  <2> QED
    BY <2>1, <2>2
<1>11. UNCHANGED erasing
  BY DEF InsertRow
<1> HIDE DEF RecordsIInv
<1> QED
  BY <1>3, <1>4, <1>6, <1>7, <1>9, <1>10, <1>11, PutKeeps

LEMMA StepChange ==
    ASSUME RecordsIInv, NEW q \in Writers, ChangeRow(q)
    PROVE  RecordsIInv'
<1> USE DEF RecordsIInv
<1>1. PICK w \in Writings : w = writing[q] /\ w.at = "change" /\ writing[q] # Idle
  BY WritingIs DEF ChangeRow, Busy
<1>2. PICK x, s : x = w.of /\ s = w.names
  OBVIOUS
<1>3. x \in Records /\ s \in SUBSET Records /\ w.met \in SUBSET Records
  BY <1>2 DEF Writings
<1>4. UNCHANGED erasing /\ writing' = [writing EXCEPT ![q] = Idle]
  BY DEF ChangeRow
<1>5. CASE ~There(x)
  <2>1. EraseRows({}) /\ {} \in SUBSET Records
    BY <1>1, <1>2, <1>5, ErasesNothing DEF ChangeRow
  <2> QED
    BY <1>4, <2>1, NothingIsSafe, WriterDone
<1>6. CASE There(x)
  <2>1. PICK m : m = met[x] \cup w.met
    OBVIOUS
  <2>2. /\ record' = [record EXCEPT ![x].names = s]
        /\ met' = [met EXCEPT ![x] = m]
    BY <1>1, <1>2, <1>6, <2>1 DEF ChangeRow
  <2>3. Puts(x, s, m)
    <3>1. record[x] = [is |-> "there", names |-> record[x].names]
      BY <1>3, <1>6 DEF RecordsTypeOK, Rows, There, Unborn, Gone
    <3>2. [record[x] EXCEPT !.names = s] = [is |-> "there", names |-> s]
      BY <3>1
    <3>3. record' = [record EXCEPT ![x] = [is |-> "there", names |-> s]]
      BY <2>2, <3>2
    <3>4. /\ met'[x] = m /\ met' \in [Records -> SUBSET Records]
          /\ \A z \in Records : z # x => met'[z] = met[z]
      BY <1>3, <2>1, <2>2 DEF RecordsTypeOK
    <3> QED
      BY <3>3, <3>4 DEF Puts
  <2>4. Busy(writing[q]) /\ s \in Shapes[x] /\ KindOf[x] \in {"forward", "permit"}
    BY <1>1, <1>2 DEF Shaped, Busy
  <2>5. MayPut(x, s, m)
    <3>1. \A y \in s : Stands(x, y, m)
      <4>1. \A y \in s : Stands(x, y, w.met)
        BY <1>1, <1>2, <2>4 DEF NamesStand
      <4> QED
        BY <2>1, <4>1 DEF Stands
    <3>2. BeingErased \cap Above(x) \subseteq m
      BY <1>1, <1>2, <2>1, <2>4 DEF Met
    <3>3. KindOf[x] = "forward" => Permitted(s, m)
      <4>1. KindOf[x] = "forward" => Permitted(s, w.met)
        BY <1>1, <1>2, <2>4 DEF AllPermitted
      <4> QED
        BY <2>1, <4>1 DEF Permitted
    <3>4. KindOf[x] = "permit" => record[x].names \ Kindred("limit") = s \ Kindred("limit")
      BY <1>1, <1>2, <1>6 DEF PermitChange
    <3> QED
      BY <1>6, <2>4, <3>1, <3>2, <3>3, <3>4 DEF MayPut
  <2>6. \A r \in Writers : (r # q /\ writing[r] # Idle /\ writing[r].at = "insert") => writing[r].of # x
    BY <1>3, <1>6, RowIs DEF Shaped
  <2>7. ~Busy(Idle)
    BY DEF Busy, Idle
  <2> HIDE DEF RecordsIInv
  <2> QED
    BY <1>3, <1>4, <2>3, <2>5, <2>6, <2>7, PutKeeps
<1> QED
  BY <1>5, <1>6
-----------------------------------------------------------------------------
(* A deletion begins.                                                        *)

\* Its plan covers every kind of child.
LEMMA PlanPursues ==
    ASSUME RecordsTypeOK, Shaped, NEW o \in Records, There(o),
           NEW e \in Erasures, e.of = o, e.names = record[o].names, e.plan = Plan(KindOf[o]),
           e.left = {}
    PROVE  OrderlyIs(e) /\ PursuedBy(e)
<1>1. KindOf[o] \in Kinds
  BY RecordsAssumption
<1>2. OrderlyIs(e)
  <2>1. ~Does(e, "forward") /\ ~Does(e, "client")
    BY <1>1, PlanIs DEF Does
  <2> QED
    BY <1>1, <2>1, PlanIs, RowIs DEF OrderlyIs
<1>3. ASSUME NEW x \in Records, ChildOf(x, e)
      PROVE  Finds(x, e)
  <2>1. CASE KindOf[o] = "permit"
    BY <1>1, <1>3, <2>1, PlanIs DEF ChildOf, Finds
  <2>2. CASE KindOf[o] # "permit"
    <3>1. There(x) /\ o \in record[x].names /\ ~LeftAlone(x, o)
      BY <1>3, <2>2 DEF ChildOf
    <3>2. KindOf[o] \in Named(KindOf[x]) /\ KindOf[x] \in Kinds
      BY <3>1, ShapeIs DEF Shaped
    <3> QED
      BY <1>1, <3>1, <3>2, PlanIs DEF Finds, LeftAlone
  <2> QED
    BY <2>1, <2>2
<1>4. ASSUME NEW y \in Records, There(y), KindOf[y] = "inbound", o \in record[y].names
      PROVE  FindsClient(y, e)
  <2>1. KindOf[o] \in Named("inbound")
    BY <1>4, ShapeIs DEF Shaped
  <2>2. KindOf[o] = "node"
    BY <2>1 DEF Named
  <2> QED
    BY <1>1, <2>2, PlanIs DEF FindsClient
<1> QED
  BY <1>2, <1>3, <1>4 DEF PursuedBy

LEMMA StepBegin ==
    ASSUME RecordsIInv, NEW q \in Erasers, NEW x \in Records, BeginDelete(q, x)
    PROVE  RecordsIInv'
<1> USE DEF RecordsIInv
<1>1. UNCHANGED <<record, met>> /\ There(x)
  BY DEF BeginDelete
<1>2. PICK d : d = [at |-> "delete", of |-> x, names |-> record[x].names,
                    plan |-> Plan(KindOf[x]), left |-> {}]
  OBVIOUS
<1>3. d \in Erasures
  <2>1. Plan(KindOf[x]) \in Seq(Measures) /\ record[x].names \subseteq Records
    BY RecordsAssumption, PlanIs, RowIs
  <2> QED
    BY <1>2, <2>1 DEF Erasures, Measures
<1>4. d.of = x /\ d.names = record[x].names /\ d.plan = Plan(KindOf[x]) /\ d.left = {}
  BY <1>2
<1>5. /\ erasing' \in [Erasers -> Erasures \cup {Idle}]
      /\ erasing'[q] = d /\ \A r \in Erasers : r # q => erasing'[r] = erasing[r]
  BY <1>2, <1>3 DEF BeginDelete, RecordsTypeOK
<1>6. ASSUME NEW r \in Writers
      PROVE  \/ /\ writing'[r] = writing[r]
                /\ ~(Busy(writing[r]) /\ x \in Above(writing[r].of))
             \/ /\ writing[r] # Idle /\ Busy(writing[r]) /\ writing'[r] \in Writings
                /\ writing'[r].at = writing[r].at /\ writing'[r].of = writing[r].of
                /\ writing'[r].names = writing[r].names
                /\ writing'[r].met = writing[r].met \cup {x}
  <2>1. writing'[r] = IF Busy(writing[r]) /\ x \in Above(writing[r].of)
                      THEN [writing[r] EXCEPT !.met = @ \cup {x}] ELSE writing[r]
    BY DEF BeginDelete
  <2>2. ASSUME NEW w \in Writings
        PROVE  [w EXCEPT !.met = @ \cup {x}]
                 = [at |-> w.at, of |-> w.of, names |-> w.names, met |-> w.met \cup {x}]
    BY DEF Writings
  <2>3. CASE Busy(writing[r]) /\ x \in Above(writing[r].of)
    <3>1. PICK w \in Writings : w = writing[r] /\ writing[r] # Idle
      BY <2>3, WritingIs
    <3>2. writing'[r] = [at |-> w.at, of |-> w.of, names |-> w.names, met |-> w.met \cup {x}]
      BY <2>1, <2>2, <2>3, <3>1
    <3>3. [at |-> w.at, of |-> w.of, names |-> w.names, met |-> w.met \cup {x}] \in Writings
      BY DEF Writings
    <3> QED
      BY <2>3, <3>1, <3>2, <3>3
  <2> QED
    BY <2>1, <2>3
<1>7. \A r \in Writers :
        /\ writing'[r] # Idle => writing[r] # Idle
        /\ Busy(writing'[r]) => Busy(writing[r])
        /\ writing'[r].at = writing[r].at /\ writing'[r].of = writing[r].of
        /\ writing[r] # Idle => writing'[r].names = writing[r].names
        /\ Busy(writing[r]) => (/\ writing'[r].names = writing[r].names
                                /\ writing[r].met \subseteq writing'[r].met
                                /\ x \in Above(writing[r].of) => x \in writing'[r].met)
  BY <1>6 DEF Busy
<1>8. RecordsTypeOK'
  <2>1. \A r \in Writers : writing'[r] \in Writings \cup {Idle}
    BY <1>6 DEF RecordsTypeOK
  <2>2. writing' = [r \in Writers |-> writing'[r]]
    BY DEF BeginDelete
  <2>3. writing' \in [Writers -> Writings \cup {Idle}]
    BY <2>1, <2>2
  <2> QED
    BY <1>1, <1>5, <2>3 DEF RecordsTypeOK
<1>9. Orderly' /\ Pursued'
  <2>1. EraseRows({}) /\ {} \in SUBSET Records
    BY <1>1, ErasesNothing
  <2>2. ASSUME NEW r \in Erasers, NEW e, erasing'[r] # Idle, e = erasing'[r]
        PROVE  OrderlyIs(e)' /\ PursuedBy(e)'
    <3>1. e \in Erasures /\ OrderlyIs(e) /\ PursuedBy(e)
      <4>1. CASE r = q
        BY <1>1, <1>3, <1>4, <1>5, <2>2, <4>1, PlanPursues
      <4>2. CASE r # q
        <5>1. Erasing(r) /\ e = erasing[r]
          BY <1>5, <2>2, <4>2 DEF Erasing
        <5> QED
          BY <5>1, ErasersHave, ErasingIs
      <4> QED
        BY <4>1, <4>2
    <3> QED
      BY <2>1, <3>1, StaysOrderly, Pursuit
  <2> QED
    BY <2>2, ErasersNext
<1>10. Shaped'
  <2>1. ASSUME NEW r \in Writers, writing'[r] # Idle
        PROVE  /\ writing'[r].names \in Shapes[writing'[r].of]
               /\ writing'[r].at = "insert" => record[writing'[r].of] = Unborn
               /\ writing'[r].at = "change" => /\ record[writing'[r].of] # Unborn
                                               /\ KindOf[writing'[r].of] \in {"forward", "permit"}
               /\ writing'[r].at = "settle" => KindOf[writing'[r].of] = "forward"
    BY <1>7, <2>1 DEF Shaped
  <2>2. \A a, r \in Writers :
          (writing'[a] # Idle /\ writing'[r] # Idle /\ writing'[a].at = "insert"
           /\ writing'[r].at = "insert" /\ writing'[a].of = writing'[r].of) => a = r
    BY <1>7 DEF Shaped
  <2> QED
    BY <1>1, <2>1, <2>2 DEF Shaped, There
<1>11. Met'
  <2>1. BeingErased' \subseteq BeingErased \cup {x}
    BY <1>4, <1>5 DEF BeingErased
  <2> QED
    BY <1>7, <2>1 DEF Met, Above, Parents, Kindred
<1>12. NamesStand'
  <2>1. ASSUME NEW r \in Writers, Busy(writing'[r]), NEW y \in writing'[r].names
        PROVE  Stands(writing[r].of, y, writing[r].met)'
    <3>1. /\ Stands(writing[r].of, y, writing[r].met)
          /\ writing[r].met \subseteq writing'[r].met /\ writing'[r].of = writing[r].of
      BY <1>7, <2>1 DEF NamesStand
    <3> QED
      BY <1>1, <3>1 DEF Stands, There, Unchecked
  <2> QED
    BY <1>1, <2>1 DEF NamesStand, Stands, There, LeftAlone, Unchecked
<1>13. PermitChange'
  <2>1. ASSUME NEW r \in Writers, writing'[r].at = "change", KindOf[writing'[r].of] = "permit",
               record[writing'[r].of].is = "there"
        PROVE  writing'[r].names \ Kindred("limit") = record[writing'[r].of].names \ Kindred("limit")
    <3>1. writing'[r].names = writing[r].names
      BY <1>7, <2>1 DEF Busy
    <3> QED
      BY <1>7, <2>1, <3>1 DEF PermitChange, There
  <2> QED
    BY <1>1, <2>1 DEF PermitChange, Kindred, There
<1>14. AllPermitted'
  <2>1. ASSUME NEW r \in Writers, Busy(writing'[r]), KindOf[writing'[r].of] = "forward"
        PROVE  Permitted(writing[r].names, writing[r].met)'
    <3>1. /\ Permitted(writing[r].names, writing[r].met)
          /\ writing[r].met \subseteq writing'[r].met /\ writing'[r].names = writing[r].names
      BY <1>7, <2>1 DEF AllPermitted
    <3> QED
      BY <1>1, <3>1 DEF Permitted, Permitting, There, Kindred
  <2>2. ASSUME NEW f \in Kindred("forward"), There(f)'
        PROVE  Permitted(record[f].names, met[f])'
    <3>1. Permitted(record[f].names, met[f])
      BY <1>1, <2>2 DEF AllPermitted, There
    <3> QED
      BY <1>1, <3>1 DEF Permitted, Permitting, There, Kindred
  <2> QED
    BY <2>1, <2>2 DEF AllPermitted, Kindred
<1> QED
  BY <1>8, <1>9, <1>10, <1>11, <1>12, <1>13, <1>14
-----------------------------------------------------------------------------
(* The theorems.                                                             *)

LEMMA RecordsInitInv == RecordsInit => RecordsIInv
<1> SUFFICES ASSUME RecordsInit
             PROVE  RecordsIInv
  OBVIOUS
<1>1. PICK s \in SUBSET {x \in Records : Shapes[x] = {{}}} :
        record = [x \in Records |-> IF x \in s THEN [is |-> "there", names |-> {}] ELSE Unborn]
  BY DEF RecordsInit
<1>2. /\ \A x \in Records : There(x) => (record[x].names = {} /\ Shapes[x] = {{}})
      /\ record \in [Records -> Rows]
  BY <1>1 DEF There, Unborn, Rows
<1>3. /\ \A q \in Writers : writing[q] = Idle
      /\ \A q \in Erasers : erasing[q] = Idle
  BY DEF RecordsInit
<1>4. RecordsTypeOK
  BY <1>2 DEF RecordsInit, RecordsTypeOK
<1>5. Orderly /\ Pursued
  BY <1>3 DEF Orderly, Pursued, Erasing
<1>6. Shaped
  BY <1>2, <1>3 DEF Shaped
<1>7. \A q \in Writers : ~Busy(writing[q]) /\ writing[q].at # "change"
  BY <1>3 DEF Busy, Idle
<1>8. Met /\ NamesStand /\ PermitChange
  BY <1>2, <1>7 DEF Met, NamesStand, PermitChange
<1>9. AllPermitted
  <2>1. ASSUME NEW f \in Kindred("forward")
        PROVE  ~There(f)
    <3>1. f \in Records /\ KindOf[f] = "forward"
      BY DEF Kindred
    <3>2. {} \notin Shapes[f]
      BY <3>1, RecordsAssumption
    <3> QED
      BY <1>2, <3>1, <3>2
  <2> QED
    BY <1>7, <2>1 DEF AllPermitted
<1> QED
  BY <1>4, <1>5, <1>6, <1>8, <1>9 DEF RecordsIInv

LEMMA Stuttering ==
    ASSUME RecordsIInv, UNCHANGED recordVars
    PROVE  RecordsIInv'
<1> USE DEF recordVars, RecordsIInv
<1>1. RecordsTypeOK'
  BY DEF RecordsTypeOK
<1>2. EraseRows({}) /\ {} \in SUBSET Records /\ WritersRest
  BY ErasesNothing DEF WritersRest
<1>3. Orderly' /\ Pursued'
  BY <1>2, ErasersStay
<1>4. NamesStand' /\ AllPermitted' /\ Shaped' /\ PermitChange'
  BY <1>2, NothingIsSafe, ErasureStands, ErasurePermits, ErasureShapes
<1>5. Met'
  BY <1>2, ErasureMeets
<1> QED
  BY <1>1, <1>3, <1>4, <1>5

LEMMA RecordsStep == RecordsIInv /\ [RecordsNext]_recordVars => RecordsIInv'
<1> SUFFICES ASSUME RecordsIInv, [RecordsNext]_recordVars
             PROVE  RecordsIInv'
  OBVIOUS
<1>1. ASSUME NEW q \in Writers, NEW x \in Records, NEW s \in Shapes[x], BeginInsert(q, x, s)
      PROVE  RecordsIInv'
  BY <1>1, StepLooks DEF BeginInsert
<1>2. ASSUME NEW q \in Writers, NEW x \in Records, NEW s \in Shapes[x], BeginChange(q, x, s)
      PROVE  RecordsIInv'
  BY <1>2, StepLooks DEF BeginChange
<1>3. ASSUME NEW q \in Writers, InsertRow(q) \/ SettleForward(q) \/ ChangeRow(q) \/ Refused(q)
      PROVE  RecordsIInv'
  BY <1>3, StepInsert, StepSettle, StepChange, StepRefused
<1>4. ASSUME NEW q \in Erasers, NEW x \in Records, BeginDelete(q, x)
      PROVE  RecordsIInv'
  BY <1>4, StepBegin
<1>5. ASSUME NEW q \in Erasers, \/ CountChildren(q) \/ ListChildren(q) \/ EachChild(q)
                                \/ WipeChildren(q) \/ DeleteRow(q)
      PROVE  RecordsIInv'
  BY <1>5, StepCount, StepList, StepEach, StepWipe, StepDelete
<1>6. CASE UNCHANGED recordVars
  BY <1>6, Stuttering
<1> QED
  BY <1>1, <1>2, <1>3, <1>4, <1>5, <1>6 DEF RecordsNext

LEMMA RecordsInvariant == RecordsSpec => []RecordsIInv
<1> QED
  BY RecordsInitInv, RecordsStep, PTL DEF RecordsSpec

\* A row names rows, and a deletion under way is what is left of a plan.
THEOREM RecordsTypeCorrect == RecordsSpec => []RecordsTypeOK
<1>1. RecordsIInv => RecordsTypeOK
  BY DEF RecordsIInv
<1> QED
  BY <1>1, RecordsInvariant, PTL

\* However many requests create, change and delete rows at a time: who names a row
\* that is gone was written while it, or the node above it, was being deleted, or
\* named it unchecked when it was gone.
THEOREM NamesOutliveOnlyWhenWrittenLate == RecordsSpec => []OrphansComeLate
<1>1. RecordsIInv => OrphansComeLate
  <2> SUFFICES ASSUME RecordsIInv, NEW x \in Records, There(x), NEW y \in record[x].names,
                      record[y] = Gone, ~LeftAlone(x, y)
               PROVE  ({y} \cup Parents(y)) \cap met[x] # {}
    BY DEF OrphansComeLate
  <2>1. RecordsTypeOK /\ NamesStand
    BY DEF RecordsIInv
  <2>4. y \in Records
    BY <2>1, RowIs
  <2>2. Stands(x, y, met[x])
    BY <2>1, <2>4 DEF NamesStand
  <2>3. ~There(y) /\ record[y] # Unborn
    BY <2>1, <2>4, RowIs
  <2> QED
    BY <2>2, <2>3 DEF Stands
<1> QED
  BY <1>1, RecordsInvariant, PTL

\* Taking a permit away, with its user, its tunnel or by itself, takes the forwards
\* it allowed, but those written meanwhile.
THEOREM PermitsGoWithTheirForwards == RecordsSpec => []ForwardsArePermitted
<1>1. RecordsIInv => ForwardsArePermitted
  BY DEF RecordsIInv, AllPermitted, Permitted, ForwardsArePermitted
<1> QED
  BY <1>1, RecordsInvariant, PTL

-----------------------------------------------------------------------------
(* The parts side by side.                                                   *)

\* What MCPanel does is, seen from each part, what that part does alone: it only
\* chooses which part works and, of some, which steps a behaviour is about.
LEMMA PanelIsItsParts == PanelSpec => PortSpec /\ AccountSpec /\ ClientsSpec /\ RecordsSpec
<1>1. PanelInit => PortInit /\ AccountInit /\ ClientsInit /\ RecordsInit
  BY DEF PanelInit
<1>2. [PanelNext]_<<component, portVars, accountVars, clientVars, recordVars>> =>
        /\ [PortNext]_portVars /\ [AccountNext]_accountVars
        /\ [ClientsNext]_clientVars /\ [RecordsNext]_recordVars
  <2>1. OnlyBytes \/ OnlySwitches \/ OnlyLimits => AccountNext
    BY DEF OnlyBytes, OnlySwitches, OnlyLimits, AccountNext
  <2> QED
    BY <2>1 DEF PanelNext
<1> QED
  BY <1>1, <1>2, PTL DEF PanelSpec, PortSpec, AccountSpec, ClientsSpec, RecordsSpec

\* Requests, reports and rows are in states that the panel's code knows (forward.go,
\* flow.go, xray_inbound.go, xray_client.go and what deletes rows), for all forwards,
\* nodes, ports, permissions, reports, clients and requests.
THEOREM PanelTypeCorrect == PanelSpec => []PanelTypeOK
<1>1. PanelSpec => []PortTypeOK /\ []AccountTypeOK /\ []ClientsTypeOK /\ []RecordsTypeOK
  BY PanelIsItsParts, PortTypeCorrect, AccountTypeCorrect, ClientsTypeCorrect, RecordsTypeCorrect
<1>2. PortTypeOK /\ AccountTypeOK /\ ClientsTypeOK /\ RecordsTypeOK => PanelTypeOK
  BY DEF PanelTypeOK
<1> QED
  BY <1>1, <1>2, PTL
=============================================================================
