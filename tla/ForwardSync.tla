----------------------------- MODULE ForwardSync -----------------------------
(***************************************************************************)
(* One forward, from its row in the panel's database to its services on    *)
(* the nodes: the requests of go-backend/service/forward.go, the quota     *)
(* pause of flow.go and the reconciliation of reconcile.go.  Each is a     *)
(* goroutine of its own that reads the row, calls the nodes one after the  *)
(* other and writes the row; none of them locks the forward.               *)
(*                                                                         *)
(* What a call does on a node is NodeServices, seen from here: the TCP and *)
(* UDP service of a forward are one piece.  How it fails is PanelRpc: the  *)
(* node is offline, or the answer is late, and the command is lost, has    *)
(* run already or runs afterwards.  The forward is an administrator's, so  *)
(* its services have the same name in every tunnel.                        *)
(***************************************************************************)
EXTENDS Naturals, Sequences, FiniteSets

CONSTANTS Nodes, Tunnels, Ports, Targets,
          InNode, OutNode,   \* the nodes of a tunnel
          NoNode,            \* OutNode of a port forward
          Requests,          \* goroutines that serve the users' requests
          Locked,            \* the nodes that are reconciled
          Absent,
          Faults,            \* what may go wrong: see FaultKinds
          MaxLate            \* bound: commands that outlived their call

\* A node refuses (the address is taken), is offline, restarts; a call times out.
FaultKinds == {"refused", "offline", "restart", "timeout"}

ASSUME SyncAssumption ==
    /\ InNode \in [Tunnels -> Nodes]
    /\ OutNode \in [Tunnels -> Nodes \cup {NoNode}]
    /\ NoNode \notin Nodes
    /\ Requests \cap Nodes = {}
    /\ Locked \subseteq Nodes
    /\ Faults \subseteq FaultKinds
    /\ MaxLate \in Nat

VARIABLES
    row,        \* the forward in the database
    piece,      \* what each node runs of it
    online,     \* the nodes with a session at the panel
    late,       \* commands a node will still run, though their call has failed
    proc,       \* the goroutines: one per request, one reconciliation per node
    disturbed,  \* history: reconciliations that were not alone, or had a call fail
    smooth      \* history: nothing ever failed, restarted or overlapped

vars == <<row, piece, online, late, proc, disturbed, smooth>>

Rows == [status : {"unborn", "active", "paused", "error", "deleted"},
         tunnel : Tunnels, port : Ports, target : Targets]
Pieces == {"chain", "remote", "main"}
\* "lost": unregistered, but still listed in the node's configuration.
Services == [state : {"running", "paused", "lost"}, port : Ports, target : Targets]
PieceStates == {Absent} \cup Services
Verbs == {"add", "update", "delete", "pause", "resume", "retarget", "purge"}
Modes == {"must", "create", "upsert", "absent", "ignore", "hot", "gentle"}
Commands == [verb : Verbs, piece : Pieces, row : Rows, mode : Modes]
Ops == {"idle", "create", "move", "update", "pause", "quota", "resume", "delete",
        "sync", "pauses", "names", "query", "purge", "end"}
Procs == Requests \cup Locked
ProcStates == [op : Ops, todo : Seq(Commands), ok : BOOLEAN,
               row : Rows \cup {Absent}, names : SUBSET Pieces]

ASSUME AbsentAssumption == Absent \notin Rows /\ Absent \notin Services

TypeOK ==
    /\ row \in Rows
    /\ piece \in [Nodes -> [Pieces -> PieceStates]]
    /\ online \subseteq Nodes
    /\ late \in SUBSET [at : Nodes, cmd : Commands] /\ Cardinality(late) <= MaxLate
    /\ proc \in [Procs -> ProcStates]
    /\ disturbed \subseteq Locked /\ smooth \in BOOLEAN

Working(op, todo, r) == [op |-> op, todo |-> todo, ok |-> TRUE, row |-> r, names |-> {}]
Idle == Working("idle", <<>>, Absent)

Init ==
    /\ row \in {r \in Rows : r.status = "unborn"}
    /\ piece = [n \in Nodes |-> [x \in Pieces |-> Absent]]
    /\ online = Nodes
    /\ late = {}
    /\ proc = [p \in Procs |-> Idle]
    /\ disturbed = {} /\ smooth = TRUE
-----------------------------------------------------------------------------
(* The commands of a handler *)

IsTunnelForward(r) == OutNode[r.tunnel] # NoNode
PiecesOf(r) == IF IsTunnelForward(r) THEN Pieces ELSE {"main"}
NodeFor(x, r) == IF x = "remote" THEN OutNode[r.tunnel] ELSE InNode[r.tunnel]
\* The service that holds the target address.
Carrier(r) == IF IsTunnelForward(r) THEN "remote" ELSE "main"

Command(verb, mode, r, x) == [verb |-> verb, mode |-> mode, row |-> r, piece |-> x]
\* A port forward has its main service only.
Script(verb, mode, r, order) ==
    LET has == IF IsTunnelForward(r) THEN order ELSE <<"main">>
    IN  [i \in DOMAIN has |-> Command(verb, mode, r, has[i])]

createGostServices(r) == Script("add", "create", r, <<"chain", "remote", "main">>)
syncGostServices(r) == Script("update", "upsert", r, <<"chain", "remote", "main">>)
gentleSync(r) == Script("add", "gentle", r, <<"chain", "remote", "main">>)
deleteGostServices(r, mode) == Script("delete", mode, r, <<"main", "chain", "remote">>)
ServiceCalls(verb, r, mode) == Script(verb, mode, r, <<"main", "remote">>)
hotUpdate(r) == <<Command("retarget", "hot", r, Carrier(r))>> \o syncGostServices(r)

\* createGostServices takes back what it made; it asks to delete the chain of a
\* port forward as well.
Undo(c) ==
    <<Command("delete", "ignore", c.row, "chain")>>
    \o (IF c.piece = "chain" \/ ~IsTunnelForward(c.row) THEN <<>>
        ELSE <<Command("delete", "ignore", c.row, "remote")>>)

\* Mutant: a service that exists already is taken to be up to date.
Tolerated_Exists(c, res) ==
    \/ res = "ok" \/ c.mode = "ignore"
    \/ c.mode = "absent" /\ res = "missing"
    \/ c.mode = "gentle" /\ res = "exists"

\* What a handler does next, given the answer to c.
Tolerated(c, res) ==
    \/ res = "ok" \/ c.mode = "ignore"
    \/ c.mode = "absent" /\ res = "missing"
    \/ c.mode = "gentle" /\ res = "exists" /\ c.piece # Carrier(c.row)
Retry(c, res) ==
    IF c.mode = "upsert" /\ res = "missing" THEN <<Command("add", "must", c.row, c.piece)>>
    ELSE IF c.mode = "gentle" /\ res = "exists"
         THEN <<Command("retarget", "must", c.row, c.piece)>>
    ELSE <<>>

Answered(p, res) ==
    LET c    == Head(p.todo)
        rest == Tail(p.todo)
    IN  IF c.mode = "hot" THEN [p EXCEPT !.todo = IF res = "ok" THEN <<>> ELSE rest]
        ELSE IF Tolerated(c, res) THEN [p EXCEPT !.todo = rest]
        ELSE IF Retry(c, res) # <<>> THEN [p EXCEPT !.todo = Retry(c, res) \o rest]
        ELSE [p EXCEPT !.ok = FALSE, !.todo = IF c.mode = "create" THEN Undo(c) ELSE <<>>]

(* What a node answers, and what the piece becomes *)

Registered(s) == IF s = Absent THEN FALSE ELSE s.state # "lost"
Running(r) == [state |-> "running", port |-> r.port, target |-> r.target]
In(state, s) == [s EXCEPT !.state = state]

Refusal(s) == IF "refused" \in Faults THEN {<<"failed", s>>} ELSE {}

Effects(c, s) ==
    CASE c.verb = "add" ->
            IF Registered(s) THEN {<<"exists", s>>}
            ELSE {<<"ok", Running(c.row)>>} \cup Refusal(s)
      [] ~Registered(s) /\ c.verb # "add" -> {<<"missing", s>>}
      [] c.verb = "update" /\ Registered(s) ->
            {<<"ok", Running(c.row)>>}
                \cup Refusal(IF c.piece = "chain" THEN s ELSE In("lost", s))
      [] c.verb \in {"delete", "purge"} /\ Registered(s) -> {<<"ok", Absent>>}
      [] c.verb = "pause" /\ Registered(s) -> {<<"ok", In("paused", s)>>}
      [] c.verb = "resume" /\ Registered(s) ->
            IF s.state = "running" THEN {<<"ok", s>>}
            ELSE {<<"ok", In("running", s)>>} \cup Refusal(In("lost", s))
      [] c.verb = "retarget" /\ Registered(s) -> {<<"ok", [s EXCEPT !.target = c.row.target]>>}
-----------------------------------------------------------------------------
(* The handlers start *)

Exists(r) == r.status \notin {"unborn", "deleted"}
Busy(p) == proc[p].op # "idle"

\* History: a step of p disturbs the reconciliations of the other nodes.
Notes(p) ==
    /\ disturbed' = (disturbed \cup {n \in Locked \ {p} : Busy(n)})
    /\ smooth' = (smooth /\ \A q \in Procs \ {p} : ~Busy(q))

Start(p, op, todo, r) ==
    /\ ~Busy(p)
    /\ proc' = [proc EXCEPT ![p] = Working(op, todo, r)]
    /\ UNCHANGED <<piece, online, late>>
    /\ Notes(p)

\* The row is written first.
CreateForward(p) ==
    /\ row.status = "unborn"
    /\ \E t \in Tunnels, o \in Ports, g \in Targets :
          LET r == [status |-> "active", tunnel |-> t, port |-> o, target |-> g]
          IN  Start(p, "create", createGostServices(r), r) /\ row' = r

\* UpdateForward picks the lightest way; `listen`: the listen address changes.
UpdateForward(p) ==
    /\ Exists(row)
    /\ \E t \in Tunnels, o \in Ports, g \in Targets, listen \in BOOLEAN :
          LET r == [status |-> "active", tunnel |-> t, port |-> o, target |-> g]
          IN  \/ /\ t # row.tunnel \/ listen
                 /\ Start(p, "move", deleteGostServices(row, "ignore") \o createGostServices(r), r)
              \/ /\ t = row.tunnel /\ ~listen /\ o # row.port
                 /\ Start(p, "update", syncGostServices(r), r)
              \/ /\ t = row.tunnel /\ ~listen /\ o = row.port /\ g # row.target
                 /\ Start(p, "update", hotUpdate(r), r)
              \/ /\ t = row.tunnel /\ ~listen /\ o = row.port /\ g = row.target
                 /\ Start(p, "update", <<>>, r)
    /\ UNCHANGED row

PauseForward(p) ==
    /\ Exists(row)
    /\ Start(p, "pause", ServiceCalls("pause", row, "must"), row)
    /\ UNCHANGED row

\* pauseForwardServices, when a limit is reached.
QuotaPause(p) ==
    /\ Exists(row) /\ row.status # "paused"
    /\ Start(p, "quota", ServiceCalls("pause", row, "ignore"), row)
    /\ UNCHANGED row

ResumeForward(p) ==
    /\ Exists(row)
    /\ Start(p, "resume", ServiceCalls("resume", row, "must"), row)
    /\ UNCHANGED row

AllOnline(r) == \A x \in PiecesOf(r) : NodeFor(x, r) \in online

\* Mutant: the remote service is forgotten.
DeleteForward_KeepsRemote(p) ==
    /\ Exists(row)
    /\ Start(p, "delete",
             IF AllOnline(row) THEN Script("delete", "absent", row, <<"main", "chain">>) ELSE <<>>,
             row)
    /\ UNCHANGED row

\* With a node offline none of the services is deleted (forward.go:442 "services
\* aren't running": they may be, offline only means that there is no session).
DeleteForward(p) ==
    /\ Exists(row)
    /\ Start(p, "delete",
             IF AllOnline(row) THEN deleteGostServices(row, "absent") ELSE <<>>, row)
    /\ UNCHANGED row

ForceDeleteForward(p) ==
    /\ Exists(row)
    /\ Start(p, "delete", deleteGostServices(row, "ignore"), row)
    /\ UNCHANGED row

\* Mutant: a failed call leaves a status of no meaning.
Written_BadStatus(p) ==
    CASE p.op = "create" -> IF p.ok THEN row ELSE [row EXCEPT !.status = "failed"]
      [] p.op \in {"move", "update"} -> IF p.ok THEN p.row ELSE [row EXCEPT !.status = "failed"]
      [] OTHER -> row

\* The handlers end with one UPDATE of the row, which does nothing if it is gone.
Written(p) ==
    CASE p.op = "create" -> IF p.ok THEN row ELSE [row EXCEPT !.status = "error"]
      [] p.op = "move" -> IF p.ok THEN p.row
                          ELSE [p.row EXCEPT !.status = "error", !.target = row.target]
      [] p.op = "update" -> IF p.ok THEN p.row ELSE [row EXCEPT !.status = "error"]
      [] p.op \in {"pause", "quota"} -> IF p.ok THEN [row EXCEPT !.status = "paused"] ELSE row
      [] p.op = "resume" -> IF p.ok THEN [row EXCEPT !.status = "active"] ELSE row
      [] p.op = "delete" -> IF p.ok THEN [row EXCEPT !.status = "deleted"] ELSE row

Finish(p) ==
    /\ Busy(p) /\ proc[p].todo = <<>>
    /\ row' = IF Exists(row) THEN Written(proc[p]) ELSE row
    /\ proc' = [proc EXCEPT ![p] = Idle]
    /\ UNCHANGED <<piece, online, late>>
    /\ Notes(p)
-----------------------------------------------------------------------------
(* ReconcileNode(n): TryLock, then the phases for this forward *)

Involves(n, r) == \E x \in PiecesOf(r) : NodeFor(x, r) = n

Reconcile(n) ==
    /\ ~Busy(n)
    /\ proc' = [proc EXCEPT ![n] =
           Working("sync", IF Exists(row) /\ Involves(n, row) THEN gentleSync(row) ELSE <<>>, row)]
    /\ disturbed' = (disturbed \ {n}) \cup {m \in Locked \ {n} : Busy(m)}
                       \cup (IF \E q \in Procs : Busy(q) THEN {n} ELSE {})
    /\ smooth' = (smooth /\ \A q \in Procs : ~Busy(q))
    /\ UNCHANGED <<row, piece, online, late>>

\* Only the services on this node.
PausesOn(n, r) ==
    (IF InNode[r.tunnel] = n THEN <<Command("pause", "ignore", r, "main")>> ELSE <<>>)
    \o (IF OutNode[r.tunnel] = n THEN <<Command("pause", "ignore", r, "remote")>> ELSE <<>>)

\* The status that was read at the start decides.
Settle(n) ==
    LET p == proc[n]
    IN  /\ p.op = "sync" /\ p.todo = <<>>
        /\ row' = IF p.ok /\ p.row.status = "error" /\ Exists(row) /\ Involves(n, p.row)
                  THEN [row EXCEPT !.status = "active"] ELSE row
        /\ proc' = [proc EXCEPT ![n] = [p EXCEPT !.op = "pauses", !.todo =
               IF p.row.status = "paused" /\ Involves(n, p.row) THEN PausesOn(n, p.row) ELSE <<>>]]
        /\ Notes(n)
        /\ UNCHANGED <<piece, online, late>>

ServicesOn(n) == {x \in {"remote", "main"} : Registered(piece[n][x])}

Unanswered(n) == n \notin online \/ "timeout" \in Faults

\* GetServiceNames; without an answer there is no cleanup.
Names(n) ==
    /\ proc[n].op = "pauses" /\ proc[n].todo = <<>>
    /\ \/ /\ n \in online
          /\ proc' = [proc EXCEPT ![n] = [@ EXCEPT !.op = "query", !.names = ServicesOn(n)]]
          /\ Notes(n)
       \/ /\ Unanswered(n)
          /\ proc' = [proc EXCEPT ![n].op = "end"]
          /\ disturbed' = disturbed \cup {m \in Locked : Busy(m)}
          /\ smooth' = FALSE
    /\ UNCHANGED <<row, piece, online, late>>

\* Mutant: the database is asked first, the names it is compared with come later.
Query_BeforeNames(n) ==
    /\ proc[n].op = "query"
    /\ proc' = [proc EXCEPT ![n].op =
           IF proc[n].row.status \in {"unborn", "deleted"} /\ proc[n].names # {}
           THEN "purge" ELSE "end"]
    /\ Notes(n)
    /\ UNCHANGED <<row, piece, online, late>>

\* Mutant: the cleanup is for nodes that have forwards, like the phases before it.
Query_IfForwards(n) ==
    /\ proc[n].op = "query"
    /\ proc' = [proc EXCEPT ![n].op =
           IF Exists(proc[n].row) /\ ~(Exists(row) /\ Involves(n, row)) /\ proc[n].names # {}
           THEN "purge" ELSE "end"]
    /\ Notes(n)
    /\ UNCHANGED <<row, piece, online, late>>

\* cleanupOrphanServices: is there a row of that id whose tunnel uses this node?
Query(n) ==
    /\ proc[n].op = "query"
    /\ proc' = [proc EXCEPT ![n].op =
           IF ~(Exists(row) /\ Involves(n, row)) /\ proc[n].names # {} THEN "purge" ELSE "end"]
    /\ Notes(n)
    /\ UNCHANGED <<row, piece, online, late>>

\* One DeleteService for all names: nothing is deleted if one of them is gone.
Purge(n) ==
    /\ proc[n].op = "purge" /\ n \in online
    /\ proc' = [proc EXCEPT ![n].op = "end"]
    /\ piece' = [piece EXCEPT ![n] = [x \in Pieces |->
           IF x \in proc[n].names /\ proc[n].names \subseteq ServicesOn(n) THEN Absent ELSE @[x]]]
    /\ Notes(n)
    /\ UNCHANGED <<row, online, late>>

PurgeFails(n) ==
    /\ proc[n].op = "purge" /\ Unanswered(n)
    /\ proc' = [proc EXCEPT ![n].op = "end"]
    /\ \/ UNCHANGED late
       \/ \E x \in proc[n].names :
             /\ n \in online /\ Cardinality(late) < MaxLate
             /\ late' = late \cup {[at |-> n, cmd |-> Command("purge", "ignore", proc[n].row, x)]}
    /\ disturbed' = disturbed \cup {m \in Locked : Busy(m)}
    /\ smooth' = FALSE
    /\ UNCHANGED <<row, piece, online>>

\* The lock is released.
Unlock(n) ==
    /\ proc[n].op = "end"
    /\ proc' = [proc EXCEPT ![n] = Idle]
    /\ disturbed' = disturbed \ {n}
    /\ UNCHANGED <<row, piece, online, late, smooth>>
-----------------------------------------------------------------------------
(* The calls, and the nodes *)

Fault ==
    /\ disturbed' = disturbed \cup {n \in Locked : Busy(n)}
    /\ smooth' = FALSE

\* The node runs the command and its answer arrives.
Call(p) ==
    /\ proc[p].todo # <<>>
    /\ LET c == Head(proc[p].todo)
           n == NodeFor(c.piece, c.row)
       IN  /\ n \in online
           /\ \E e \in Effects(c, piece[n][c.piece]) :
                 /\ piece' = [piece EXCEPT ![n][c.piece] = e[2]]
                 /\ proc' = [proc EXCEPT ![p] = Answered(@, e[1])]
                 /\ IF e[1] = "failed" THEN Fault ELSE Notes(p)
    /\ UNCHANGED <<row, online, late>>

\* SendMsg returns an error: offline, or no answer in time.
CallFails(p) ==
    /\ proc[p].todo # <<>>
    /\ LET c == Head(proc[p].todo)
           n == NodeFor(c.piece, c.row)
       IN  /\ Unanswered(n)
           /\ proc' = [proc EXCEPT ![p] = Answered(@, "failed")]
           /\ \/ UNCHANGED <<piece, late>>
              \/ /\ n \in online
                 /\ \E e \in Effects(c, piece[n][c.piece]) :
                       piece' = [piece EXCEPT ![n][c.piece] = e[2]]
                 /\ UNCHANGED late
              \/ /\ n \in online /\ Cardinality(late) < MaxLate
                 /\ late' = late \cup {[at |-> n, cmd |-> c]}
                 /\ UNCHANGED piece
    /\ Fault
    /\ UNCHANGED <<row, online>>

RunLate ==
    /\ \E l \in late :
          /\ late' = late \ {l}
          /\ \E e \in Effects(l.cmd, piece[l.at][l.cmd.piece]) :
                piece' = [piece EXCEPT ![l.at][l.cmd.piece] = e[2]]
    /\ Fault
    /\ UNCHANGED <<row, online, proc>>

Disconnect(n) ==
    /\ "offline" \in Faults
    /\ n \in online /\ online' = online \ {n}
    /\ Fault
    /\ UNCHANGED <<row, piece, late, proc>>

Connect(n) ==
    /\ n \notin online /\ online' = online \cup {n}
    /\ UNCHANGED <<row, piece, late, proc, disturbed, smooth>>

\* The loader starts every service that is listed, paused or not.
Restart(n) ==
    /\ "restart" \in Faults
    /\ piece' = [piece EXCEPT ![n] = [x \in Pieces |->
           IF @[x] = Absent THEN Absent ELSE In("running", @[x])]]
    /\ late' = {l \in late : l.at # n}
    /\ Fault
    /\ UNCHANGED <<row, online, proc>>

Request(p) ==
    \/ CreateForward(p) \/ UpdateForward(p) \/ DeleteForward(p) \/ ForceDeleteForward(p)
    \/ PauseForward(p) \/ QuotaPause(p) \/ ResumeForward(p) \/ Finish(p)
Reconciliation(n) ==
    \/ Reconcile(n) \/ Settle(n) \/ Names(n) \/ Query(n)
    \/ Purge(n) \/ PurgeFails(n) \/ Unlock(n)

Next ==
    \/ \E p \in Requests : Request(p)
    \/ \E p \in Procs : Call(p) \/ CallFails(p)
    \/ \E n \in Locked : Reconciliation(n)
    \/ \E n \in Nodes : Disconnect(n) \/ Connect(n) \/ Restart(n)
    \/ RunLate

Spec == Init /\ [][Next]_vars
-----------------------------------------------------------------------------
(* Properties *)

\* Whatever is created, deleted, late or restarted between the list of names,
\* the query and the deletion: the cleanup deletes services of a forward only
\* when the forward is gone for good (reconcile.go:384 "remove non-orphans
\* (exist in DB)").
OnlyOrphansPurged ==
    \/ row.status = "deleted"
    \/ /\ \A n \in Locked : proc[n].op # "purge"
       /\ \A l \in late : l.cmd.verb # "purge"

Alone(n, op) == proc[n].op = op /\ n \notin disturbed

\* A reconciliation that ran alone and without a failed call has repaired the
\* forward, from whatever earlier requests left half done: all its services
\* are there with the target of the row, the row is not in error, and the
\* services of a paused forward on this node are paused.
ReconcileRestores ==
    \A n \in Locked :
        Alone(n, "query") /\ Exists(row) /\ Involves(n, row) =>
            /\ row.status # "error"
            /\ \A x \in PiecesOf(row) : Registered(piece[NodeFor(x, row)][x])
            /\ piece[NodeFor(Carrier(row), row)][Carrier(row)].target = row.target
            /\ row.status = "paused" =>
                  \A x \in PiecesOf(row) \ {"chain"} :
                     NodeFor(x, row) = n => piece[n][x].state = "paused"

\* And one that ran alone after the forward was deleted leaves no service of it.
ReconcileCleans ==
    \A n \in Locked : Alone(n, "end") /\ row.status = "deleted" => ServicesOn(n) = {}

\* As long as nothing fails and no two handlers overlap, the handlers keep the
\* row and the nodes in step: nothing is left of a deleted or moved forward, a
\* paused one carries no traffic, and the others are there as the row says.
SmoothAgrees ==
    smooth /\ (\A p \in Procs : ~Busy(p)) =>
        /\ \A n \in Nodes, x \in Pieces :
              piece[n][x] # Absent => Exists(row) /\ x \in PiecesOf(row) /\ n = NodeFor(x, row)
        /\ Exists(row) => \A x \in PiecesOf(row) :
              LET s == piece[NodeFor(x, row)][x]
              IN  /\ Registered(s) /\ s.port = row.port
                  /\ x = Carrier(row) => s.target = row.target
                  /\ row.status = "paused" /\ x # "chain" => s.state = "paused"

\* reconcile.go:36 "ReconcileNode synchronises panel DB state to a node": after
\* one that ran alone, an active forward runs.
ReconcileSynchronises ==
    \A n \in Locked :
        Alone(n, "query") /\ row.status = "active" =>
            \A x \in ServicesOn(n) : piece[n][x].state = "running"
=============================================================================
