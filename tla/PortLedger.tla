----------------------------- MODULE PortLedger -----------------------------
(***************************************************************************)
(* What the allocation of ports promises: a forward takes ports that no    *)
(* other forward holds, unless the two were asked for at the same time     *)
(* (they are rivals), when nothing is promised.  PortAllocation implements *)
(* it.                                                                     *)
(***************************************************************************)
CONSTANT Holders         \* the forwards

VARIABLES holding,       \* the ports each forward has: pairs <<node, port>>
          rivals         \* pairs of forwards whose requests overlapped

ledgerVars == <<holding, rivals>>

LedgerInit ==
    /\ holding = [f \in Holders |-> {}]
    /\ rivals = {}

\* A request for f begins: it meets others, and one for a new forward starts afresh.
Meet(f) ==
    /\ rivals' \subseteq Holders \X Holders
    /\ \A p \in Holders \X Holders : f \notin {p[1], p[2]} => (p \in rivals' <=> p \in rivals)
    /\ holding[f] # {} => rivals \subseteq rivals'
    /\ UNCHANGED holding

Take(f, keys) ==
    /\ \A g \in Holders \ {f} : keys \cap holding[g] # {} => <<f, g>> \in rivals
    /\ holding' = [holding EXCEPT ![f] = keys]
    /\ UNCHANGED rivals

LedgerNext == \E f \in Holders : Meet(f) \/ Take(f, holding'[f])

LedgerSpec == LedgerInit /\ [][LedgerNext]_ledgerVars
=============================================================================
