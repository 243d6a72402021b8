-------------------------- MODULE TrafficAccounting --------------------------
(***************************************************************************)
(* The bytes of one user, from the counters of the services on the nodes   *)
(* to the quotas at the panel.  The user is no administrator (whose        *)
(* forwards have no permission and are not limited).                       *)
(*                                                                         *)
(* A forward has a service on its entry node and, through a tunnel, one on *)
(* the exit node, "<name>_tls", which carries the same bytes again.  Each  *)
(* has counters and reports them, under names that begin with the same     *)
(* ids (parse.go:154 turns the counters on for every name, service.go:395  *)
(* reports them whatever the observer).  observeStats                      *)
(* (go-node/x/service/service.go) reads the counter, posts it, and takes   *)
(* what was reported off the counter with a second read and a store.  The  *)
(* panel (go-backend/service/flow.go) books a report in three rows, one    *)
(* statement each, and then checks the limits and pauses; a report goes on *)
(* when the node no longer waits for it.  Quotas are reset                 *)
(* (task/reset_flow.go, ResetFlow in user.go), users and permissions are   *)
(* disabled, expire and come back, and forwards are paused, resumed,       *)
(* edited and recovered meanwhile.  The locks of flow.go are held for a    *)
(* single statement each, so they order nothing here.                      *)
(***************************************************************************)
EXTENDS Integers, FiniteSets, Functions

CONSTANTS Rules,         \* the forwards of the user
          Tunnelled,     \* those with a service on an exit node too
          Permits,       \* the user's permissions (user_tunnel rows)
          PermitOf,      \* the permission a forward uses
          Weight,        \* flow type times traffic ratio of the tunnels
          UserLimit,     \* bytes; 0 is no limit
          PermitLimit,
          Uploads,       \* bound: reports the panel works on at a time
          MaxBytes,      \* bound: bytes carried by all entries
          MaxResets,     \* bound: resets of a quota
          MaxRequests,   \* bound: requests to resume or edit a forward
          NetworkFaults  \* reports, answers and calls may be lost or refused

ASSUME AccountAssumption ==
    /\ Tunnelled \subseteq Rules
    /\ PermitOf \in [Rules -> Permits]
    /\ Weight \in Nat \ {0}
    /\ UserLimit \in Nat
    /\ PermitLimit \in [Permits -> Nat]
    /\ {MaxBytes, MaxResets, MaxRequests} \subseteq Nat
    /\ NetworkFaults \in BOOLEAN

\* There are finitely many rows in the table forward and finitely many reports
\* that the panel works on at a time.
ASSUME AccountFinite == IsFiniteSet(Rules) /\ IsFiniteSet(Uploads)

VARIABLES
    socket,       \* "open", "draining" (closed, connections left) or "gone"
    count,        \* the counter of a service (observer/stats)
    updated,      \* its "updated" flag
    observer,     \* where observeStats is, and what it has read
    upload,       \* the reports the panel works on
    ruleFlow, userFlow, permitFlow,   \* the rows
    ruleStatus,   \* "active", "paused" or "error"
    change,       \* the request that works on a forward ("none", or its kind)
    userOff, permitsOff,              \* expired, or disabled by status
    resets, requests,                 \* for the bounds
    carried,      \* history: bytes a service has carried
    booked,       \* history: what its reports have added to the row
    unheard,      \* history: the answer to a report was lost or late
    missed,       \* history: bytes came between the read and the store, or a
                  \* service ended with bytes it had not reported
    lifted        \* history: forwards written back over a limit, until a check
                  \* next finds them to pause

nodeSide == <<socket, count, updated, observer, carried, missed>>
flows == <<ruleFlow, userFlow, permitFlow, booked>>
requestSide == <<ruleStatus, change, userOff, permitsOff, resets, requests, lifted>>
accountVars == <<nodeSide, upload, flows, requestSide, unheard>>

Sides == {"entry", "exit"}
Services == Rules \X Sides
SidesOf(f) == IF f \in Tunnelled THEN Sides ELSE {"entry"}

Observers == [at : {"ticking", "sending", "waiting", "resetting"}, read : Nat, rest : Nat]
Free == [at |-> "free"]
Reports == [at : {"rule", "user", "permit", "checkUser", "checkPermit", "pausing", "answer"},
            service : Services, bytes : Nat, heard : BOOLEAN, next : {"checkPermit", "answer"},
            todo : SUBSET Rules, stale : BOOLEAN]

AccountTypeOK ==
    /\ socket \in [Services -> {"open", "draining", "gone"}]
    /\ count \in [Services -> Nat] /\ updated \in [Services -> BOOLEAN]
    /\ observer \in [Services -> Observers]
    /\ upload \in [Uploads -> Reports \cup {Free}]
    /\ ruleFlow \in [Rules -> Nat] /\ userFlow \in Nat /\ permitFlow \in [Permits -> Nat]
    /\ ruleStatus \in [Rules -> {"active", "paused", "error"}]
    /\ change \in [Rules -> {"none", "resume", "hot", "rebuild", "recover"}]
    /\ userOff \in BOOLEAN /\ permitsOff \subseteq Permits
    /\ resets \in Nat /\ requests \in Nat
    /\ carried \in [Services -> Nat] /\ booked \in [Services -> Nat]
    /\ unheard \in [Services -> BOOLEAN] /\ missed \in [Services -> BOOLEAN]
    /\ lifted \subseteq Rules

Ticking == [at |-> "ticking", read |-> 0, rest |-> 0]

AccountInit ==
    /\ socket = [s \in Services |-> IF s[2] \in SidesOf(s[1]) THEN "open" ELSE "gone"]
    /\ count = [s \in Services |-> 0] /\ updated = [s \in Services |-> FALSE]
    /\ observer = [s \in Services |-> Ticking]
    /\ upload = [u \in Uploads |-> Free]
    /\ ruleFlow = [f \in Rules |-> 0] /\ userFlow = 0 /\ permitFlow = [p \in Permits |-> 0]
    /\ ruleStatus = [f \in Rules |-> "active"] /\ change = [f \in Rules |-> "none"]
    /\ userOff = FALSE /\ permitsOff = {}
    /\ resets = 0 /\ requests = 0
    /\ carried = [s \in Services |-> 0] /\ booked = [s \in Services |-> 0]
    /\ unheard = [s \in Services |-> FALSE] /\ missed = [s \in Services |-> FALSE]
    /\ lifted = {}
-----------------------------------------------------------------------------
(* The node. *)

\* Stats.Add: traffic of a connection, also of one that outlives its listener.
\* The exit carries what has come through the entry.
Carry(s) ==
    /\ socket[s] # "gone"
    /\ \/ s[2] = "entry" /\ SumFunctionOnSet(carried, Rules \X {"entry"}) < MaxBytes
       \/ s[2] = "exit" /\ carried[s] < carried[<<s[1], "entry">>]
    /\ count' = [count EXCEPT ![s] = @ + 1]
    /\ updated' = [updated EXCEPT ![s] = TRUE]
    /\ carried' = [carried EXCEPT ![s] = @ + 1]
    /\ missed' = [missed EXCEPT ![s] = @ \/ observer[s].at = "resetting"]
    /\ UNCHANGED <<socket, observer, upload, flows, requestSide, unheard>>

\* A tick of observeStats: IsUpdated swaps the flag, whatever becomes of the report.
Tick(s) ==
    /\ socket[s] # "gone"
    /\ observer[s] = Ticking
    /\ updated[s]
    /\ updated' = [updated EXCEPT ![s] = FALSE]
    /\ observer' = IF count[s] = 0 THEN observer
                   ELSE [observer EXCEPT ![s] = [at |-> "sending", read |-> count[s], rest |-> 0]]
    /\ UNCHANGED <<socket, count, carried, missed, upload, flows, requestSide, unheard>>

\* The report is lost on its way: the bytes stay on the counter.
SendFails(s) ==
    /\ NetworkFaults
    /\ observer[s].at = "sending"
    /\ observer' = [observer EXCEPT ![s] = Ticking]
    /\ UNCHANGED <<socket, count, updated, carried, missed, upload, flows, requestSide, unheard>>

\* It reaches the panel.
Arrive(s, u) ==
    /\ observer[s].at = "sending"
    /\ upload[u] = Free
    /\ observer' = [observer EXCEPT ![s].at = "waiting"]
    /\ upload' = [upload EXCEPT ![u] =
           [at |-> "rule", service |-> s, bytes |-> observer[s].read, heard |-> TRUE,
            next |-> "checkPermit", todo |-> {}, stale |-> FALSE]]
    /\ UNCHANGED <<socket, count, updated, carried, missed, flows, requestSide, unheard>>

\* Five seconds without an answer: the panel's work goes on unheard.
TimeOut(s, u) ==
    /\ NetworkFaults
    /\ observer[s].at = "waiting"
    /\ upload[u] # Free /\ upload[u].service = s /\ upload[u].heard
    /\ observer' = [observer EXCEPT ![s] = Ticking]
    /\ upload' = [upload EXCEPT ![u].heard = FALSE]
    /\ unheard' = [unheard EXCEPT ![s] = TRUE]
    /\ UNCHANGED <<socket, count, updated, carried, missed, flows, requestSide>>

\* "ok": the counter is read again for what has come since the report ...
Heard(s, u) ==
    /\ observer[s].at = "waiting"
    /\ upload[u] # Free /\ upload[u].service = s /\ upload[u].heard /\ upload[u].at = "answer"
    /\ observer' = [observer EXCEPT ![s].at = "resetting", ![s].rest = count[s] - observer[s].read]
    /\ upload' = [upload EXCEPT ![u] = Free]
    /\ UNCHANGED <<socket, count, updated, carried, missed, flows, requestSide, unheard>>

\* Mutant: the counter is set to zero.
ResetTraffic_Zero(s) ==
    /\ observer[s].at = "resetting"
    /\ count' = [count EXCEPT ![s] = 0]
    /\ observer' = [observer EXCEPT ![s] = Ticking]
    /\ UNCHANGED <<socket, updated, carried, missed, upload, flows, requestSide, unheard>>

\* Mutant: the counter stays as it is.
ResetTraffic_Not(s) ==
    /\ observer[s].at = "resetting"
    /\ observer' = [observer EXCEPT ![s] = Ticking]
    /\ UNCHANGED <<socket, count, updated, carried, missed, upload, flows, requestSide, unheard>>

\* ... and ResetTraffic stores it.
ResetTraffic(s) ==
    /\ observer[s].at = "resetting"
    /\ count' = [count EXCEPT ![s] = observer[s].rest]
    /\ observer' = [observer EXCEPT ![s] = Ticking]
    /\ UNCHANGED <<socket, updated, carried, missed, upload, flows, requestSide, unheard>>

\* The last connection of a closed service ends; Serve returns and cancels observeStats.
Drained(s) ==
    /\ socket[s] = "draining"
    /\ socket' = [socket EXCEPT ![s] = "gone"]
    /\ missed' = [missed EXCEPT ![s] = @ \/ count[s] > 0]
    /\ count' = [count EXCEPT ![s] = 0]
    /\ updated' = [updated EXCEPT ![s] = FALSE]
    /\ observer' = [observer EXCEPT ![s] = Ticking]
    /\ upload' = [u \in Uploads |->
           IF upload[u] # Free /\ upload[u].service = s THEN [upload[u] EXCEPT !.heard = FALSE]
           ELSE upload[u]]
    /\ unheard' = [unheard EXCEPT ![s] = @ \/ observer[s].at = "waiting"]
    /\ UNCHANGED <<carried, flows, requestSide>>
-----------------------------------------------------------------------------
(* The panel: a report. *)

Step(u, to) == upload' = [upload EXCEPT ![u].at = to]
Cost(u) == upload[u].bytes * Weight
RuleOf(u) == upload[u].service[1]

\* processFlowData: the three rows, found by the ids the name begins with ...
BookRule(u) ==
    /\ upload[u].at = "rule"
    /\ ruleFlow' = [ruleFlow EXCEPT ![RuleOf(u)] = @ + Cost(u)]
    /\ booked' = [booked EXCEPT ![upload[u].service] = @ + Cost(u)]
    /\ Step(u, "user")
    /\ UNCHANGED <<nodeSide, userFlow, permitFlow, requestSide, unheard>>

\* Mutant: the user's total is set, not increased.
BookUser_Sets(u) ==
    /\ upload[u].at = "user"
    /\ userFlow' = ruleFlow[RuleOf(u)]
    /\ Step(u, "permit")
    /\ UNCHANGED <<nodeSide, ruleFlow, permitFlow, booked, requestSide, unheard>>

BookUser(u) ==
    /\ upload[u].at = "user"
    /\ userFlow' = userFlow + Cost(u)
    /\ Step(u, "permit")
    /\ UNCHANGED <<nodeSide, ruleFlow, permitFlow, booked, requestSide, unheard>>

BookPermit(u) ==
    /\ upload[u].at = "permit"
    /\ permitFlow' = [permitFlow EXCEPT ![PermitOf[RuleOf(u)]] = @ + Cost(u)]
    /\ Step(u, "checkUser")
    /\ UNCHANGED <<nodeSide, ruleFlow, userFlow, booked, requestSide, unheard>>

\* The limits: a user may use all of the quota, a permission may not.
UserOver == UserLimit # 0 /\ userFlow > UserLimit
PermitOver(p) == PermitLimit[p] # 0 /\ permitFlow[p] >= PermitLimit[p]
Over(f) == UserOver \/ PermitOver(PermitOf[f])

\* What pauseForwardServices finds to pause, of the forwards it is given.
PauseThese(u, rules, next) ==
    /\ upload' = [upload EXCEPT ![u] =
           [at |-> "pausing", service |-> @.service, bytes |-> @.bytes, heard |-> @.heard,
            next |-> next, todo |-> {f \in rules : ruleStatus[f] # "paused"}, stale |-> FALSE]]
    /\ lifted' = lifted \ rules

NoPause(u, to) == Step(u, to) /\ UNCHANGED lifted
Checked == <<nodeSide, flows, ruleStatus, change, userOff, permitsOff, resets, requests, unheard>>

\* Mutant: the limit is taken to be reached with its last byte.
CheckUser_AtLimit(u) ==
    /\ upload[u].at = "checkUser"
    /\ IF (UserLimit # 0 /\ userFlow >= UserLimit) \/ userOff
       THEN PauseThese(u, Rules, "checkPermit") ELSE NoPause(u, "checkPermit")
    /\ UNCHANGED Checked

\* checkUserLimits pauses all forwards of the user, over the quota, when the
\* account has expired and when it is disabled, ...
CheckUser(u) ==
    /\ upload[u].at = "checkUser"
    /\ IF UserOver \/ userOff
       THEN PauseThese(u, Rules, "checkPermit") ELSE NoPause(u, "checkPermit")
    /\ UNCHANGED Checked

\* ... checkUserTunnelLimits those in the tunnel of the permission.
CheckPermit(u) ==
    /\ upload[u].at = "checkPermit"
    /\ LET p == PermitOf[RuleOf(u)] IN
       IF PermitOver(p) \/ p \in permitsOff
       THEN PauseThese(u, {f \in Rules : PermitOf[f] = p}, "answer") ELSE NoPause(u, "answer")
    /\ UNCHANGED Checked

\* The listeners of a forward that are closed by PauseService; connections stay.
Shut(f, ends) ==
    socket' = [s \in Services |->
        IF s[1] = f /\ s[2] \in ends /\ socket[s] = "open" THEN "draining" ELSE socket[s]]

\* The ends of a forward that calls have reached.
Reached(f) == IF NetworkFaults THEN SUBSET SidesOf(f) ELSE {SidesOf(f)}

\* Mutant: a pause that does not reach a node leaves the row alone.
PauseOne_Reached(u, f, ends) ==
    /\ upload[u].at = "pausing"
    /\ f \in upload[u].todo
    /\ Shut(f, ends)
    /\ ruleStatus' = IF ends = SidesOf(f) THEN [ruleStatus EXCEPT ![f] = "paused"] ELSE ruleStatus
    /\ upload' = [upload EXCEPT ![u].todo = @ \ {f}]
    /\ UNCHANGED <<count, updated, observer, carried, missed, flows, change, userOff, permitsOff,
                   resets, requests, lifted, unheard>>

\* One forward after the other: its listeners are closed, where the nodes can
\* be reached, and its row is written in any case.
PauseOne(u, f, ends) ==
    /\ upload[u].at = "pausing"
    /\ f \in upload[u].todo
    /\ Shut(f, ends)
    /\ ruleStatus' = [ruleStatus EXCEPT ![f] = "paused"]
    /\ upload' = [upload EXCEPT ![u].todo = @ \ {f}]
    /\ UNCHANGED <<count, updated, observer, carried, missed, flows, change, userOff, permitsOff,
                   resets, requests, lifted, unheard>>

PausesDone(u) ==
    /\ upload[u].at = "pausing"
    /\ upload[u].todo = {}
    /\ Step(u, upload[u].next)
    /\ UNCHANGED <<nodeSide, flows, requestSide, unheard>>

\* The answer of a report nobody waits for any more.
AnswerUnheard(u) ==
    /\ upload[u].at = "answer"
    /\ ~upload[u].heard
    /\ upload' = [upload EXCEPT ![u] = Free]
    /\ UNCHANGED <<nodeSide, flows, requestSide, unheard>>
-----------------------------------------------------------------------------
(* The panel: quotas, users and permissions. *)

\* What a check has found is no longer so, and its pauses are still to come.
Stale == upload' = [u \in Uploads |->
             IF upload[u].at = "pausing" THEN [upload[u] EXCEPT !.stale = TRUE] ELSE upload[u]]

\* resetFlow of the daily task, and an administrator's ResetFlow.
ResetUser ==
    /\ resets < MaxResets
    /\ userFlow' = 0
    /\ resets' = resets + 1
    /\ Stale
    /\ UNCHANGED <<nodeSide, ruleFlow, permitFlow, booked, ruleStatus, change, userOff, permitsOff,
                   requests, lifted, unheard>>

ResetPermit(p) ==
    /\ resets < MaxResets
    /\ permitFlow' = [permitFlow EXCEPT ![p] = 0]
    /\ resets' = resets + 1
    /\ Stale
    /\ UNCHANGED <<nodeSide, ruleFlow, userFlow, booked, ruleStatus, change, userOff, permitsOff,
                   requests, lifted, unheard>>

\* UpdateUser writes status or expiry, or the time of expiry comes.  (The pauses
\* that UpdateUser and the daily task add are steps of PauseRule.)
SwitchUser ==
    /\ userOff' = ~userOff
    /\ IF userOff THEN Stale ELSE UNCHANGED upload
    /\ UNCHANGED <<nodeSide, flows, ruleStatus, change, permitsOff, resets, requests, lifted, unheard>>

\* UpdateUserTunnel, likewise.
SwitchPermit(p) ==
    /\ \/ p \notin permitsOff /\ permitsOff' = permitsOff \cup {p} /\ UNCHANGED upload
       \/ p \in permitsOff /\ permitsOff' = permitsOff \ {p} /\ Stale
    /\ UNCHANGED <<nodeSide, flows, ruleStatus, change, userOff, resets, requests, lifted, unheard>>
-----------------------------------------------------------------------------
(* The panel: requests for a forward.  One of a forward is followed at a time. *)

\* A pause that no report has decided: for UpdateUser, UpdateUserTunnel and the
\* daily task, whatever the nodes answer; and PauseForward, which goes from the entry
\* to the exit and leaves the row alone if a node does not answer.
PauseRule(f, ends, written) ==
    /\ ~written => NetworkFaults /\ ends # {"exit"}
    /\ Shut(f, ends)
    /\ ruleStatus' = IF written THEN [ruleStatus EXCEPT ![f] = "paused"] ELSE ruleStatus
    /\ UNCHANGED <<count, updated, observer, carried, missed, upload, flows, change, userOff,
                   permitsOff, resets, requests, lifted, unheard>>

\* ResumeForward: for the user (asked is TRUE) the limits are checked
\* (checkUserFlowLimits: both at their limit), for an administrator they are not.
AtLimit(f) ==
    \/ UserLimit # 0 /\ userFlow >= UserLimit
    \/ PermitOver(PermitOf[f])

Begin(f, kind) ==
    /\ change[f] = "none"
    /\ change' = [change EXCEPT ![f] = kind]
    /\ UNCHANGED <<nodeSide, upload, flows, ruleStatus, userOff, permitsOff, resets, lifted, unheard>>

Count == requests < MaxRequests /\ requests' = requests + 1

BeginResume(f, asked) ==
    /\ asked => ~AtLimit(f) /\ ~userOff /\ PermitOf[f] \notin permitsOff
    /\ Count
    /\ Begin(f, "resume")

\* UpdateForward checks no limit.  Either the services stay as they are ("hot": a
\* new name, other targets), or they are rebuilt.
BeginEdit(f, kind) ==
    /\ kind \in {"hot", "rebuild"}
    /\ Count
    /\ Begin(f, kind)

\* reconcileForwards has read a row in error, and adds its services.
BeginRecover(f) ==
    /\ ruleStatus[f] = "error"
    /\ UNCHANGED requests
    /\ Begin(f, "recover")

\* UpdateService closes a listener before it opens the new one.
RebuildCloses(f, end) ==
    /\ change[f] = "rebuild"
    /\ socket[<<f, end>>] = "open"
    /\ Shut(f, {end})
    /\ UNCHANGED <<count, updated, observer, carried, missed, upload, flows, requestSide, unheard>>

\* The services of a forward that listen again, with new counters.  (The model
\* waits for the connections of the old listener.)
Opened(f, ends) ==
    /\ \A end \in ends : socket[<<f, end>>] # "draining"
    /\ socket' = [s \in Services |-> IF s[1] = f /\ s[2] \in ends THEN "open" ELSE socket[s]]

\* The row of a forward is written at the end of a request, whatever has
\* happened to the quotas since its start.
Written(f, status) ==
    /\ ruleStatus' = [ruleStatus EXCEPT ![f] = status]
    /\ lifted' = IF Over(f) THEN lifted \cup {f} ELSE lifted

Ended(f) ==
    /\ change' = [change EXCEPT ![f] = "none"]
    /\ UNCHANGED <<count, updated, observer, carried, missed, upload, flows, userOff, permitsOff,
                   resets, requests, unheard>>

\* The services of a forward listen, ...
EndRequest(f) ==
    /\ change[f] \in {"resume", "rebuild", "recover"}
    /\ change[f] = "rebuild" => \A end \in Sides : socket[<<f, end>>] # "open"
    /\ Opened(f, SidesOf(f))
    /\ Written(f, "active")
    /\ Ended(f)

\* ... or are left as they are.
EndHot(f) ==
    /\ change[f] = "hot"
    /\ Written(f, "active")
    /\ Ended(f)
    /\ UNCHANGED socket

\* A node refuses or cannot be reached: some of the services may listen, and an
\* edit puts the row in error (a resume and a reconciliation leave it).
RequestRefused(f, ends) ==
    /\ NetworkFaults
    /\ change[f] \in {"resume", "rebuild", "recover"}
    /\ change[f] = "resume" => ends # {"exit"}
    /\ Opened(f, ends)
    /\ IF change[f] = "rebuild" THEN Written(f, "error") ELSE UNCHANGED <<ruleStatus, lifted>>
    /\ Ended(f)

RequestNext ==
    \E f \in Rules :
        \/ \E asked \in BOOLEAN : BeginResume(f, asked)
        \/ \E kind \in {"hot", "rebuild"} : BeginEdit(f, kind)
        \/ BeginRecover(f) \/ EndRequest(f) \/ EndHot(f)
        \/ \E end \in SidesOf(f) : RebuildCloses(f, end)
        \/ \E ends \in SUBSET SidesOf(f) : RequestRefused(f, ends)

PauseNext ==
    \E f \in Rules : \E ends \in Reached(f), written \in BOOLEAN : PauseRule(f, ends, written)

NodeNext ==
    \E s \in Services :
        \/ Carry(s) \/ Tick(s) \/ SendFails(s) \/ ResetTraffic(s) \/ Drained(s)
        \/ \E u \in Uploads : Arrive(s, u) \/ TimeOut(s, u) \/ Heard(s, u)

ReportNext ==
    \E u \in Uploads :
        \/ BookRule(u) \/ BookUser(u) \/ BookPermit(u) \/ CheckUser(u) \/ CheckPermit(u)
        \/ PausesDone(u) \/ AnswerUnheard(u)
        \/ \E f \in Rules : \E ends \in Reached(f) : PauseOne(u, f, ends)

QuotaNext ==
    \/ ResetUser \/ SwitchUser
    \/ \E p \in Permits : ResetPermit(p) \/ SwitchPermit(p)

AccountNext == NodeNext \/ ReportNext \/ QuotaNext \/ PauseNext \/ RequestNext

AccountSpec == AccountInit /\ [][AccountNext]_accountVars
-----------------------------------------------------------------------------
(* Properties. *)

\* What the panel will still be told of the counter of a service: not the
\* bytes that are booked and wait to be taken off.
Due(s) ==
    LET told == \/ observer[s].at = "resetting"
                \/ \E u \in Uploads : /\ upload[u] # Free
                                       /\ upload[u].service = s
                                       /\ upload[u].heard
                                       /\ upload[u].at # "rule"
    IN count[s] - IF told THEN observer[s].read ELSE 0

\* What the row of a forward holds and will hold of its services, and what they
\* have carried.
Charged(f) == ruleFlow[f] + Weight * (Due(<<f, "entry">>) + Due(<<f, "exit">>))
Through(f) == Weight * (carried[<<f, "entry">>] + carried[<<f, "exit">>])

\* What a service has carried is booked once; twice only if it did not hear the
\* answer to a report (service.go:401-408).  The bytes of a tunnel count at both
\* its ends (see ChargedOnce).
BookedOnce ==
    \A f \in Rules : (\A end \in Sides : ~unheard[<<f, end>>]) => Charged(f) <= Through(f)

\* A byte is forgotten only if it comes while the counter is reset, or if its
\* service ends with bytes not reported; a report that fails, at any point,
\* loses nothing.
NothingForgotten ==
    \A f \in Rules : (\A end \in Sides : ~missed[<<f, end>>]) => Charged(f) >= Through(f)

\* What parse.go:350 has in mind, that a service of an exit node ("_tls") is not
\* observed: a forward is charged what has come through it.  It does not hold,
\* the exit node reports the same bytes again (service.go:395).
ChargedOnce ==
    \A f \in Rules : (\A end \in Sides : ~unheard[<<f, end>>]) =>
        ruleFlow[f] <= Weight * carried[<<f, "entry">>]

\* The three rows of a report are written one after the other, by handlers at
\* the same time and without a transaction (flow.go:197-227): in the end they
\* agree all the same.
RowsAgree ==
    (resets = 0 /\ \A u \in Uploads : upload[u].at \notin {"user", "permit"}) =>
        /\ userFlow = SumFunction(ruleFlow)
        /\ \A p \in Permits :
             permitFlow[p] = SumFunctionOnSet(ruleFlow, {f \in Rules : PermitOf[f] = p})

\* A quota that is used up stops every forward it concerns (flow.go:239-289),
\* once the reports have been worked through: the check comes after all of a
\* report's bytes, a pause that does not reach its nodes is still written down.
\* A resume that was checked before, one of an administrator, an edit
\* (forward.go:386) and a recovery (reconcile.go:167) come back over it, but only
\* until a report next finds the quota used up.
LimitsEnforced ==
    (\A u \in Uploads : upload[u] = Free) =>
        \A f \in Rules \ lifted : Over(f) => ruleStatus[f] = "paused"

\* A report pauses a forward only over a limit, or if the user or the permission
\* has expired or is disabled; if not, that has changed after the check that
\* decided the pause (reset_flow.go:49, ResetFlow, UpdateUser).
PausedForCause ==
    [][\A u \in Uploads, f \in Rules :
        (/\ upload[u].at = "pausing" /\ upload'[u].at = "pausing"
         /\ f \in upload[u].todo /\ f \notin upload'[u].todo) =>
            \/ Over(f) \/ userOff \/ PermitOf[f] \in permitsOff
            \/ upload[u].stale]_accountVars
=============================================================================
