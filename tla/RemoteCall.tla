----------------------------- MODULE RemoteCall -----------------------------
(***************************************************************************)
(* What the panel's SendMsg promises to its callers (pkg/ws.go): a command *)
(* is run by the node at most once, "node offline" means that it was never *)
(* run and never will be, an answer means that it was run, and a timeout   *)
(* means nothing: the node may run the command before it, after it, or     *)
(* never.  The panel's services are written against this interface.        *)
(***************************************************************************)
CONSTANT Reqs            \* the calls, one request id each

VARIABLES outcome,       \* what the caller knows of each call
          executed       \* the calls whose command the node has run

rcVars == <<outcome, executed>>

RCTypeOK ==
    /\ outcome \in [Reqs -> {"idle", "pending", "reply", "timeout", "offline"}]
    /\ executed \subseteq Reqs

RCInit ==
    /\ outcome = [r \in Reqs |-> "idle"]
    /\ executed = {}

\* The node has no session: the caller is told so at once.
Refuse(r) ==
    /\ outcome[r] = "idle"
    /\ outcome' = [outcome EXCEPT ![r] = "offline"]
    /\ UNCHANGED executed

Begin(r) ==
    /\ outcome[r] = "idle"
    /\ outcome' = [outcome EXCEPT ![r] = "pending"]
    /\ UNCHANGED executed

\* The node runs the command: perhaps long after the caller gave up.
Execute(r) ==
    /\ outcome[r] \in {"pending", "timeout"}
    /\ r \notin executed
    /\ executed' = executed \cup {r}
    /\ UNCHANGED outcome

Answer(r) ==
    /\ outcome[r] = "pending"
    /\ r \in executed
    /\ outcome' = [outcome EXCEPT ![r] = "reply"]
    /\ UNCHANGED executed

GiveUp(r) ==
    /\ outcome[r] = "pending"
    /\ outcome' = [outcome EXCEPT ![r] = "timeout"]
    /\ UNCHANGED executed

RCNext == \E r \in Reqs : Refuse(r) \/ Begin(r) \/ Execute(r) \/ Answer(r) \/ GiveUp(r)

RCSpec == RCInit /\ [][RCNext]_rcVars
=============================================================================
