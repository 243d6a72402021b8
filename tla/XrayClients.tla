---------------------------- MODULE XrayClients ----------------------------
(***************************************************************************)
(* The inbounds and clients of Xray on one node, as the panel keeps them:  *)
(* service/xray_inbound.go, xray_client.go, xray_scheduler.go, the limits  *)
(* in flow.go, and the Xray phases of reconcile.go.                        *)
(*                                                                         *)
(* A request writes rows and calls the node; no transaction and no lock    *)
(* connects the two (the lock of flow.go:134 concerns uploads only).  The  *)
(* node is what XrayManager makes of a command that is run alone: its file *)
(* and its process agree.  The clients belong to one user.                 *)
(*                                                                         *)
(* A tag is free text; an inbound without one gets inbound-{id}.  Tags of  *)
(* different rows differ here, and stay.  The cleanup takes inbound-{n}    *)
(* for the inbound with the id n, whatever row the tag belongs to.         *)
(***************************************************************************)
EXTENDS Naturals, FiniteSets

CONSTANTS XClients, XInbounds,
          Of,          \* the inbound of a client
          TagId, NoId, \* the id that the cleanup reads from the tag of an inbound, or none
          XRequests,   \* requests and tasks at work
          Quota,       \* TotalTraffic of a client, in bytes
          UserQuota,   \* XrayFlow of the user; 0 is no limit
          MaxUses,     \* bound: bytes carried
          CallFaults   \* what may go wrong: "offline", "refused", "timeout"

ASSUME ClientsAssumption ==
    /\ Of \in [XClients -> XInbounds]
    /\ NoId \notin XInbounds /\ TagId \in [XInbounds -> XInbounds \cup {NoId}]
    /\ {Quota, UserQuota, MaxUses} \subseteq Nat
    /\ CallFaults \subseteq {"offline", "refused", "timeout"}

VARIABLES
    inbound,    \* the rows: "none", "on" (enable = 1), "off" (0), "error" (-1)
    client,     \* the rows of the clients
    userUse,    \* the user's counter of Xray bytes
    online,     \* the node has a session
    up,         \* Xray runs
    served,     \* the inbounds of its configuration, with their clients
    request,    \* a request between two of its steps
    uses,       \* bytes carried so far
    forbidden,  \* history: clients a request, no limit, has disabled since they were last enabled
    failed,     \* history: a call failed, or the node was away
    overlapped, \* history: two requests were at work, one of them no upload
    disturbed   \* history: requests beside which another was at work

rows == <<inbound, client, userUse>>
xnode == <<up, served>>
clientVars == <<rows, online, xnode, request, uses, forbidden, failed, overlapped, disturbed>>

\* No row yet, and no row any more: the identity of a row is not used twice.
NoClient == [there |-> FALSE, made |-> FALSE]
Erased == [there |-> FALSE, made |-> TRUE]
Unlisted == [there |-> FALSE]
ClientRows == [there : {TRUE}, enable : BOOLEAN, used : Nat, capped : BOOLEAN]
Serving(s) == [there |-> TRUE, clients |-> s]
NoWork == [at |-> "idle"]
UploadSteps == {"book", "charge", "check", "cut", "drop", "limit", "last"}
ReconcileSteps == {"first", "push", "apply", "recover", "tags", "query", "clean"}
Steps == UploadSteps \cup ReconcileSteps \cup
         {"insert", "add", "unadd", "change", "touch", "remove", "reread", "readd", "restore", "again",
          "hotRemove", "erase", "zero", "enable", "ban", "expel", "banned",
          "open", "revert", "close", "purge", "removed", "closing", "off", "count", "stop",
          "moveOut", "moveIn", "moveBack", "moved"}
Statuses == {"none", "on", "off", "error", "gone"}
Works == [at : Steps, c : XClients \cup {"nobody"}, d : XClients \cup {"nobody"},
          i : XInbounds \cup {"nowhere"}, old : ClientRows \cup {NoClient},
          want : BOOLEAN, todo : SUBSET XClients, tags : SUBSET XInbounds, status : Statuses]

ClientsTypeOK ==
    /\ inbound \in [XInbounds -> Statuses]
    /\ client \in [XClients -> ClientRows \cup {NoClient, Erased}]
    /\ userUse \in Nat /\ uses \in Nat
    /\ online \in BOOLEAN /\ up \in BOOLEAN /\ failed \in BOOLEAN /\ overlapped \in BOOLEAN
    /\ served \in [XInbounds -> {Unlisted} \cup {Serving(s) : s \in SUBSET XClients}]
    /\ request \in [XRequests -> Works \cup {NoWork}]
    /\ forbidden \subseteq XClients /\ disturbed \subseteq XRequests

ClientsInit ==
    /\ inbound = [i \in XInbounds |-> "none"]
    /\ client = [c \in XClients |-> NoClient]
    /\ userUse = 0 /\ uses = 0
    /\ online = TRUE /\ up = FALSE /\ failed = FALSE /\ overlapped = FALSE
    /\ served = [i \in XInbounds |-> Unlisted]
    /\ request = [r \in XRequests |-> NoWork]
    /\ forbidden = {} /\ disturbed = {}
-----------------------------------------------------------------------------
(* The commands of pkg/xray.go: what the node does, and whether it succeeds. *)

Listed(i) == inbound[i] \notin {"none", "gone"}
Enabled(i) == {c \in XClients : Of[c] = i /\ client[c].there /\ client[c].enable}

Serves(i) == up /\ served[i].there
AddsInbound(i, s) ==
    /\ ~(Serves(i))
    /\ up' = TRUE
    /\ served' = [served EXCEPT ![i] = Serving(s)]
RemovesInbound(i) ==
    /\ Serves(i)
    /\ served' = [served EXCEPT ![i] = Unlisted]
    /\ UNCHANGED up
AddsClient(i, c) ==
    /\ Serves(i) /\ c \notin served[i].clients
    /\ served' = [served EXCEPT ![i].clients = @ \cup {c}]
    /\ UNCHANGED up
RemovesClient(i, c) ==
    /\ Serves(i)
    /\ served' = [served EXCEPT ![i].clients = @ \ {c}]
    /\ UNCHANGED up
\* A client that is served already is lost (the undo of HotAddUser).
LosesClient(i, c) ==
    /\ Serves(i) /\ c \in served[i].clients
    /\ served' = [served EXCEPT ![i].clients = @ \ {c}]
    /\ UNCHANGED up
Stops == up' = FALSE /\ UNCHANGED served

Refusable == "refused" \in CallFaults \/ "timeout" \in CallFaults
\* The call of a command succeeds, or fails: not sent, refused (as it must be
\* when the command cannot be carried out), or its answer late.
Succeeds(command) == online /\ command /\ UNCHANGED failed
Fails(command, can, counts) ==
    \/ /\ ~online \/ ~can \/ Refusable
       /\ UNCHANGED xnode
       /\ failed' = (failed \/ ~online \/ can \/ counts)
    \/ /\ online /\ "timeout" \in CallFaults
       /\ command
       /\ failed' = TRUE

AddInboundOk(i, s) == Succeeds(AddsInbound(i, s))
AddInboundFails(i, s, counts) == Fails(AddsInbound(i, s), ~Serves(i), counts)
RemoveInboundOk(i) == Succeeds(RemovesInbound(i))
RemoveInboundFails(i) == Fails(RemovesInbound(i), Serves(i), FALSE)
AddClientOk(i, c) == Succeeds(AddsClient(i, c))
AddClientFails(i, c) ==
    \/ Fails(AddsClient(i, c), Serves(i) /\ c \notin served[i].clients, FALSE)
    \/ online /\ LosesClient(i, c) /\ failed' = TRUE
RemoveClientOk(i, c) == Succeeds(RemovesClient(i, c))
RemoveClientFails(i, c) == Fails(RemovesClient(i, c), Serves(i), FALSE)
StopAnyhow == Succeeds(Stops) \/ Fails(Stops, TRUE, TRUE)
-----------------------------------------------------------------------------
(* Steps of requests. *)

Work == [at |-> "insert", c |-> "nobody", d |-> "nobody", i |-> "nowhere", old |-> NoClient,
         want |-> FALSE, todo |-> {}, tags |-> {}, status |-> "none"]

Others(r) == {q \in XRequests \ {r} : request[q] # NoWork}
Starts(r, work) ==
    /\ request[r] = NoWork
    /\ request' = [request EXCEPT ![r] = work]
    /\ overlapped' = (overlapped \/ \E q \in Others(r) :
                                      ~({work.at, request[q].at} \subseteq UploadSteps))
    /\ disturbed' = IF Others(r) = {} THEN disturbed \ {r} ELSE disturbed \cup {r} \cup Others(r)
Reads(r, work) == Starts(r, work) /\ UNCHANGED <<rows, online, xnode, uses, forbidden, failed>>

At(r, step) == request[r].at = step
Then(r, step) == request' = [request EXCEPT ![r].at = step]
Ends(r) == request' = [request EXCEPT ![r] = NoWork]
OnRows == UNCHANGED <<userUse, online, xnode, uses, failed, overlapped, disturbed>>
OnNode == UNCHANGED <<rows, online, uses, forbidden, overlapped, disturbed>>
OnNothing == UNCHANGED <<inbound, client, forbidden>> /\ OnRows

\* UPDATE of a row that may be gone.
SetEnable(c, e) ==
    client' = IF client[c].there THEN [client EXCEPT ![c].enable = e] ELSE client
SetStatus(i, status) ==
    inbound' = IF Listed(i) THEN [inbound EXCEPT ![i] = status] ELSE inbound
-----------------------------------------------------------------------------
(* CreateXrayClient *)

CreateClient(r, c) ==
    /\ Listed(Of[c]) /\ client[c] = NoClient
    /\ \A q \in XRequests : ~(request[q].at = "insert" /\ request[q].c = c)
    /\ Reads(r, [Work EXCEPT !.at = "insert", !.c = c, !.i = Of[c]])

Insert(r) ==
    /\ At(r, "insert")
    /\ \E capped \in BOOLEAN :
         client' = [client EXCEPT ![request[r].c] =
                       [there |-> TRUE, enable |-> TRUE, used |-> 0, capped |-> capped]]
    /\ forbidden' = forbidden \ {request[r].c}
    /\ Then(r, "add")
    /\ UNCHANGED inbound /\ OnRows

AddNew(r) ==
    LET w == request[r] IN
    /\ At(r, "add")
    /\ \/ AddClientOk(w.i, w.c) /\ Ends(r)
       \/ AddClientFails(w.i, w.c) /\ Then(r, "unadd")
    /\ OnNode

Unadd(r) ==
    /\ At(r, "unadd")
    /\ client' = [client EXCEPT ![request[r].c] = Erased]
    /\ Ends(r)
    /\ UNCHANGED <<inbound, forbidden>> /\ OnRows

(* UpdateXrayClient: what matters of the change is "enable", when it is given. *)

UpdateClient(r, c) ==
    /\ client[c].there
    /\ \E given \in BOOLEAN : \E want \in IF given THEN BOOLEAN ELSE {client[c].enable} :
         Reads(r, [Work EXCEPT !.at = IF given THEN "change" ELSE "touch", !.c = c, !.i = Of[c],
                               !.old = client[c], !.want = want, !.status = inbound[Of[c]]])

Changed(r) ==
    LET w == request[r] IN
    IF w.status \in {"none", "gone"} THEN Ends(r) ELSE Then(r, IF w.old.enable THEN "remove" ELSE "reread")

Change(r) ==
    LET w == request[r] IN
    /\ At(r, "change")
    /\ SetEnable(w.c, w.want)
    /\ forbidden' = IF w.want THEN forbidden \ {w.c} ELSE forbidden \cup {w.c}
    /\ Changed(r)
    /\ UNCHANGED inbound /\ OnRows

Touch(r) ==
    /\ At(r, "touch")
    /\ Changed(r)
    /\ OnNothing

RemoveOld(r) ==
    LET w == request[r] IN
    /\ At(r, "remove")
    /\ \/ RemoveClientOk(w.i, w.c) /\ Then(r, "reread")
       \/ RemoveClientFails(w.i, w.c) /\ request' = [request EXCEPT ![r].at = "restore", ![r].want = FALSE]
    /\ OnNode

\* The row is read again; without one the values just written are used.
Reread(r) ==
    LET w == request[r] IN
    /\ At(r, "reread")
    /\ IF (IF client[w.c].there THEN client[w.c].enable ELSE w.want)
       THEN request' = [request EXCEPT ![r].at = "readd", ![r].want = w.old.enable] ELSE Ends(r)
    /\ OnNothing

Readd(r) ==
    LET w == request[r] IN
    /\ At(r, "readd")
    /\ \/ AddClientOk(w.i, w.c) /\ Ends(r)
       \/ AddClientFails(w.i, w.c) /\ Then(r, "restore")
    /\ OnNode

\* Save writes the whole row as it was read, its counters too, and a deleted row anew.
Restore(r) ==
    LET w == request[r] IN
    /\ At(r, "restore")
    /\ client' = [client EXCEPT ![w.c] = w.old]
    /\ forbidden' = IF w.old.enable THEN forbidden \ {w.c} ELSE forbidden
    /\ IF w.want THEN Then(r, "again") ELSE Ends(r)
    /\ UNCHANGED inbound /\ OnRows

\* The client is added (again), whatever comes of it.
Again(r) ==
    LET w == request[r] IN
    /\ At(r, "again")
    /\ AddClientOk(w.i, w.c) \/ AddClientFails(w.i, w.c)
    /\ Ends(r)
    /\ OnNode

(* DeleteXrayClient *)

DeleteClient(r, c) ==
    /\ client[c].there
    /\ Reads(r, [Work EXCEPT !.c = c, !.i = Of[c],
                    !.at = IF Listed(Of[c]) /\ online THEN "hotRemove" ELSE "erase"])

HotRemove(r) ==
    LET w == request[r] IN
    /\ At(r, "hotRemove")
    /\ \/ RemoveClientOk(w.i, w.c) /\ Then(r, "erase")
       \/ RemoveClientFails(w.i, w.c) /\ Ends(r)
    /\ OnNode

Erase(r) ==
    /\ At(r, "erase")
    /\ client' = [client EXCEPT ![request[r].c] = Erased]
    /\ forbidden' = forbidden \ {request[r].c}
    /\ Ends(r)
    /\ UNCHANGED inbound /\ OnRows

(* ResetXrayClientTraffic, and the hourly task for a client whose cycle is over. *)

ResetClient(r, c) ==
    /\ client[c].there
    /\ Reads(r, [Work EXCEPT !.at = "zero", !.c = c, !.i = Of[c], !.old = client[c]])

\* A capped client that was disabled when it was read is enabled.
Zero(r) ==
    LET w == request[r] IN
    /\ At(r, "zero")
    /\ client' = IF client[w.c].there THEN [client EXCEPT ![w.c].used = 0] ELSE client
    /\ IF ~w.old.enable /\ w.old.capped THEN Then(r, "enable") ELSE Ends(r)
    /\ UNCHANGED <<inbound, forbidden>> /\ OnRows

EnableAgain(r) ==
    LET w == request[r] IN
    /\ At(r, "enable")
    /\ SetEnable(w.c, TRUE)
    /\ IF Listed(w.i) THEN Then(r, "again") ELSE Ends(r)
    /\ forbidden' = forbidden \ {w.c}
    /\ UNCHANGED inbound /\ OnRows
-----------------------------------------------------------------------------
(* ProcessXrayFlowUpload: one client of a report. *)

Upload(r, c) ==
    /\ uses < MaxUses
    /\ up /\ served[Of[c]].there /\ c \in served[Of[c]].clients
    /\ client[c].there
    /\ uses' = uses + 1
    /\ Starts(r, [Work EXCEPT !.at = "book", !.c = c, !.i = Of[c], !.old = client[c]])
    /\ UNCHANGED <<rows, online, xnode, forbidden, failed>>

Book(r) ==
    LET w == request[r] IN
    /\ At(r, "book")
    /\ client' = IF client[w.c].there THEN [client EXCEPT ![w.c].used = @ + 1] ELSE client
    /\ Then(r, "charge")
    /\ UNCHANGED <<inbound, forbidden>> /\ OnRows

\* The user's lock is held until the user's limit has been dealt with.
UserLocked == \E r \in XRequests : request[r].at \in {"check", "cut", "drop"}

ChargeUser(r) ==
    /\ At(r, "charge") /\ ~UserLocked
    /\ userUse' = userUse + 1
    /\ Then(r, "check")
    /\ UNCHANGED <<inbound, client, online, xnode, uses, forbidden, failed, overlapped, disturbed>>

CheckUserLimit(r) ==
    /\ At(r, "check")
    /\ IF UserQuota # 0 /\ userUse >= UserQuota
       THEN request' = [request EXCEPT ![r].at = "cut", ![r].todo = UNION {Enabled(i) : i \in XInbounds}]
       ELSE Then(r, "limit")
    /\ OnNothing

\* checkUserXrayLimits disables one client after the other: the row, then the node.
Cut(r) ==
    /\ At(r, "cut")
    /\ \/ \E d \in request[r].todo :
            /\ SetEnable(d, FALSE)
            /\ request' = [request EXCEPT ![r].at = IF Listed(Of[d]) THEN "drop" ELSE "cut",
                                          ![r].todo = @ \ {d}, ![r].d = d]
       \/ request[r].todo = {} /\ Then(r, "limit") /\ UNCHANGED client
    /\ UNCHANGED <<inbound, forbidden>> /\ OnRows

RemoveAnyhow(d) == RemoveClientOk(Of[d], d) \/ RemoveClientFails(Of[d], d)

Drop(r) ==
    /\ At(r, "drop")
    /\ RemoveAnyhow(request[r].d)
    /\ Then(r, "cut")
    /\ OnNode

\* Mutant: the client is cut off only on the node.
CheckClientLimit_RowStays(r) ==
    LET w == request[r] IN
    /\ At(r, "limit")
    /\ IF w.old.capped /\ client[w.c].there /\ client[w.c].used >= Quota /\ client[w.c].enable
       THEN IF Listed(w.i) THEN Then(r, "last") ELSE Ends(r)
       ELSE Ends(r)
    /\ OnNothing

\* The client's own limit, against its row as it is now.
CheckClientLimit(r) ==
    LET w == request[r] IN
    /\ At(r, "limit")
    /\ IF w.old.capped /\ client[w.c].there /\ client[w.c].used >= Quota /\ client[w.c].enable
       THEN SetEnable(w.c, FALSE) /\ IF Listed(w.i) THEN Then(r, "last") ELSE Ends(r)
       ELSE Ends(r) /\ UNCHANGED client
    /\ UNCHANGED <<inbound, forbidden>> /\ OnRows

LastRemove(r) ==
    /\ At(r, "last")
    /\ RemoveAnyhow(request[r].c)
    /\ Ends(r)
    /\ OnNode

(* disableAllUserXrayClients: the user may not use Xray any more. *)

Ban(r) ==
    LET enabled == UNION {Enabled(i) : i \in XInbounds} IN
    /\ enabled # {}
    /\ Reads(r, [Work EXCEPT !.at = "ban", !.todo = enabled])

BanNext(r) ==
    /\ At(r, "ban")
    /\ \/ \E d \in request[r].todo :
            request' = [request EXCEPT ![r].at = IF Listed(Of[d]) THEN "expel" ELSE "banned",
                                       ![r].todo = @ \ {d}, ![r].d = d]
       \/ request[r].todo = {} /\ Ends(r)
    /\ OnNothing

Expel(r) ==
    /\ At(r, "expel")
    /\ RemoveAnyhow(request[r].d)
    /\ Then(r, "banned")
    /\ OnNode

Banned(r) ==
    /\ At(r, "banned")
    /\ SetEnable(request[r].d, FALSE)
    /\ forbidden' = forbidden \cup {request[r].d}
    /\ Then(r, "ban")
    /\ UNCHANGED inbound /\ OnRows
-----------------------------------------------------------------------------
(* Inbounds.  mergeClientsIntoSettings reads the enabled clients, which the *)
(* call that follows sends (todo).                                         *)

\* CreateXrayInbound; EnableXrayInbound.
CreateInbound(r, i) ==
    /\ inbound[i] = "none"
    /\ inbound' = [inbound EXCEPT ![i] = "on"]
    /\ Starts(r, [Work EXCEPT !.at = "open", !.i = i, !.status = "error", !.todo = Enabled(i)])
    /\ UNCHANGED <<client, userUse, online, xnode, uses, forbidden, failed>>

EnableInbound(r, i) ==
    /\ Listed(i)
    /\ inbound' = [inbound EXCEPT ![i] = "on"]
    /\ Starts(r, [Work EXCEPT !.at = "open", !.i = i, !.status = "off", !.todo = Enabled(i)])
    /\ UNCHANGED <<client, userUse, online, xnode, uses, forbidden, failed>>

Open(r) ==
    LET w == request[r] IN
    /\ At(r, "open")
    /\ \/ AddInboundOk(w.i, w.todo) /\ Ends(r)
       \/ AddInboundFails(w.i, w.todo, TRUE) /\ Then(r, "revert")
    /\ OnNode

Revert(r) ==
    /\ At(r, "revert")
    /\ SetStatus(request[r].i, request[r].status)
    /\ Ends(r)
    /\ UNCHANGED <<client, forbidden>> /\ OnRows

\* DisableXrayInbound
DisableInbound(r, i) ==
    /\ Listed(i)
    /\ Reads(r, [Work EXCEPT !.at = "closing", !.i = i])

Closing(r) ==
    LET w == request[r] IN
    /\ At(r, "closing")
    /\ \/ RemoveInboundOk(w.i) /\ Then(r, "off")
       \/ RemoveInboundFails(w.i) /\ Ends(r)
    /\ OnNode

SwitchOff(r) ==
    /\ At(r, "off")
    /\ SetStatus(request[r].i, "off")
    /\ Then(r, "count")
    /\ UNCHANGED <<client, forbidden>> /\ OnRows

\* Xray stops when no row is enabled; the rows are counted, and then it is told so.
CountInbounds(r) ==
    /\ At(r, "count")
    /\ IF \E i \in XInbounds : inbound[i] = "on" THEN Ends(r) ELSE Then(r, "stop")
    /\ OnNothing

StopXray(r) ==
    /\ At(r, "stop")
    /\ StopAnyhow
    /\ Ends(r)
    /\ OnNode

\* DeleteXrayInbound
DeleteInbound(r, i) ==
    /\ Listed(i)
    /\ Reads(r, [Work EXCEPT !.at = IF online THEN "close" ELSE "purge", !.i = i])

Close(r) ==
    LET w == request[r] IN
    /\ At(r, "close")
    /\ \/ RemoveInboundOk(w.i) /\ Then(r, "purge")
       \/ RemoveInboundFails(w.i) /\ Ends(r)
    /\ OnNode

Purge(r) ==
    LET ofIt == {c \in XClients : Of[c] = request[r].i /\ client[c].there} IN
    /\ At(r, "purge")
    /\ client' = [c \in XClients |-> IF c \in ofIt THEN Erased ELSE client[c]]
    /\ forbidden' = forbidden \ ofIt
    /\ Then(r, "removed")
    /\ UNCHANGED inbound /\ OnRows

RemoveInboundRow(r) ==
    /\ At(r, "removed")
    /\ inbound' = [inbound EXCEPT ![request[r].i] = "gone"]
    /\ Then(r, "count")
    /\ UNCHANGED <<client, forbidden>> /\ OnRows

\* UpdateXrayInbound: the settings change, the status does not.
UpdateInbound(r, i) ==
    /\ Listed(i) /\ inbound[i] # "off"
    /\ Reads(r, [Work EXCEPT !.at = "moveOut", !.i = i, !.status = inbound[i]])

MoveOut(r) ==
    LET w == request[r] IN
    /\ At(r, "moveOut")
    /\ \/ RemoveInboundOk(w.i) /\ request' = [request EXCEPT ![r].at = "moveIn", ![r].todo = Enabled(w.i)]
       \/ RemoveInboundFails(w.i) /\ Then(r, "moved")
    /\ OnNode

MoveIn(r) ==
    LET w == request[r] IN
    /\ At(r, "moveIn")
    /\ \/ AddInboundOk(w.i, w.todo) /\ Ends(r)
       \/ AddInboundFails(w.i, w.todo, TRUE) /\ request' = [request EXCEPT ![r].at = "moveBack", ![r].todo = Enabled(w.i)]
    /\ OnNode

MoveBack(r) ==
    LET w == request[r] IN
    /\ At(r, "moveBack")
    /\ AddInboundOk(w.i, w.todo) \/ AddInboundFails(w.i, w.todo, TRUE)
    /\ Then(r, "moved")
    /\ OnNode

\* Save writes the row as it was read, anew when it has been deleted.
Moved(r) ==
    /\ At(r, "moved")
    /\ inbound' = [inbound EXCEPT ![request[r].i] = request[r].status]
    /\ Ends(r)
    /\ UNCHANGED <<client, forbidden>> /\ OnRows
-----------------------------------------------------------------------------
(* ReconcileNode, the phases that concern Xray: one at a time (TryLock).   *)
(* want says that one of its calls failed for a reason of its own.         *)

Trouble(expected) == online => ~expected

\* Mutant: inbounds that could not be loaded are left as they are.
Reconcile_OnlyEnabled(r) ==
    LET wanted == {i \in XInbounds : inbound[i] = "on"} IN
    /\ \A q \in XRequests : request[q].at \notin ReconcileSteps
    /\ Reads(r, IF wanted = {} THEN [Work EXCEPT !.at = "apply"]
                ELSE [Work EXCEPT !.at = "first", !.tags = wanted, !.todo = UNION {Enabled(i) : i \in wanted}])

\* Rows that are enabled or could not be loaded, with their clients of this moment.
Reconcile(r) ==
    LET wanted == {i \in XInbounds : inbound[i] \in {"on", "error"}} IN
    /\ \A q \in XRequests : request[q].at \notin ReconcileSteps
    /\ Reads(r, IF wanted = {} THEN [Work EXCEPT !.at = "apply"]
                ELSE [Work EXCEPT !.at = "first", !.tags = wanted, !.todo = UNION {Enabled(i) : i \in wanted}])

OfIn(i, clients) == {c \in clients : Of[c] = i}

\* Each inbound is added; one that is there already is refused, and passed over.
PushOne(r, i, next) ==
    LET w == request[r]  served1 == Serves(i) IN
    \/ /\ AddInboundOk(i, OfIn(i, w.todo))
       /\ request' = [request EXCEPT ![r].at = next, ![r].tags = @ \ {i}]
    \/ /\ AddInboundFails(i, OfIn(i, w.todo), FALSE)
       /\ request' = [request EXCEPT ![r].at = next, ![r].tags = @ \ {i}, ![r].want = @ \/ Trouble(served1)]

Push(r) ==
    /\ request[r].at \in {"first", "push"}
    /\ \/ \E i \in request[r].tags : PushOne(r, i, "push")
       \/ request[r].tags = {} /\ Then(r, "recover") /\ UNCHANGED <<xnode, failed>>
    /\ OnNode

\* The first refusal says that Xray does not answer: the whole configuration is sent.
PushFails(r) ==
    /\ At(r, "first")
    /\ online /\ "refused" \in CallFaults
    /\ failed' = TRUE
    /\ Then(r, "apply")
    /\ UNCHANGED xnode /\ OnNode

\* XrayApplyConfig replaces the configuration and restarts; without rows Xray is stopped.
ApplyAll(r) ==
    LET w == request[r]
        applies == up' = TRUE /\ served' = [i \in XInbounds |-> IF i \in w.tags
                                              THEN Serving(OfIn(i, w.todo)) ELSE Unlisted]
        command == IF w.tags = {} THEN Stops ELSE applies
    IN
    /\ At(r, "apply")
    /\ \/ Succeeds(command) /\ Then(r, IF w.tags = {} THEN "tags" ELSE "recover")
       \/ Fails(command, TRUE, TRUE) /\ request' = [request EXCEPT ![r].at = "tags", ![r].want = TRUE]
    /\ OnNode

\* Every row that could not be loaded is taken to be loaded now.
Recover(r) ==
    /\ At(r, "recover")
    /\ inbound' = [i \in XInbounds |-> IF inbound[i] = "error" THEN "on" ELSE inbound[i]]
    /\ Then(r, "tags")
    /\ UNCHANGED <<client, forbidden>> /\ OnRows

\* cleanupOrphanXrayInbounds: the tags of the node that have an id in them, the rows
\* with these ids, and what is left removed.
GetTags(r) ==
    /\ At(r, "tags")
    /\ IF online
       THEN \/ request' = [request EXCEPT ![r].at = "query", ![r].tags = {i \in XInbounds : served[i].there /\ TagId[i] # NoId}]
               /\ UNCHANGED failed
            \/ Refusable /\ Ends(r) /\ failed' = TRUE
       ELSE Ends(r) /\ failed' = TRUE
    /\ UNCHANGED xnode /\ OnNode

QueryRows(r) ==
    /\ At(r, "query")
    /\ request' = [request EXCEPT ![r].at = "clean", ![r].tags = {i \in @ : ~Listed(TagId[i])}]
    /\ OnNothing

Clean(r) ==
    /\ At(r, "clean")
    /\ \/ \E i \in request[r].tags :
            \/ RemoveInboundOk(i) /\ request' = [request EXCEPT ![r].tags = @ \ {i}]
            \/ RemoveInboundFails(i) /\ request' = [request EXCEPT ![r].tags = @ \ {i}, ![r].want = TRUE]
       \/ request[r].tags = {} /\ Ends(r) /\ UNCHANGED <<xnode, failed>>
    /\ OnNode
-----------------------------------------------------------------------------
GoOffline ==
    /\ "offline" \in CallFaults /\ online
    /\ online' = FALSE /\ failed' = TRUE
    /\ UNCHANGED <<rows, xnode, request, uses, forbidden, overlapped, disturbed>>
GoOnline ==
    /\ ~online /\ online' = TRUE
    /\ UNCHANGED <<rows, xnode, request, uses, forbidden, failed, overlapped, disturbed>>

ClientStep(r) ==
    \/ Insert(r) \/ AddNew(r) \/ Unadd(r) \/ Change(r) \/ Touch(r) \/ RemoveOld(r) \/ Reread(r) \/ Readd(r)
    \/ Restore(r) \/ Again(r) \/ HotRemove(r) \/ Erase(r) \/ Zero(r) \/ EnableAgain(r)
    \/ \E c \in XClients : CreateClient(r, c) \/ UpdateClient(r, c) \/ DeleteClient(r, c) \/ ResetClient(r, c)
LimitStep(r) ==
    \/ Book(r) \/ ChargeUser(r) \/ CheckUserLimit(r) \/ Cut(r) \/ Drop(r) \/ CheckClientLimit(r)
    \/ LastRemove(r) \/ Ban(r) \/ BanNext(r) \/ Expel(r) \/ Banned(r)
    \/ \E c \in XClients : Upload(r, c)
InboundStep(r) ==
    \/ Open(r) \/ Revert(r) \/ Closing(r) \/ SwitchOff(r) \/ CountInbounds(r) \/ StopXray(r)
    \/ Close(r) \/ Purge(r) \/ RemoveInboundRow(r) \/ MoveOut(r) \/ MoveIn(r) \/ MoveBack(r) \/ Moved(r)
    \/ \E i \in XInbounds : \/ CreateInbound(r, i) \/ EnableInbound(r, i) \/ DisableInbound(r, i)
                            \/ DeleteInbound(r, i) \/ UpdateInbound(r, i)
ReconcileStep(r) ==
    \/ Reconcile(r) \/ Push(r) \/ PushFails(r) \/ ApplyAll(r) \/ Recover(r)
    \/ GetTags(r) \/ QueryRows(r) \/ Clean(r)

ClientsNext ==
    \/ \E r \in XRequests : ClientStep(r) \/ LimitStep(r) \/ InboundStep(r) \/ ReconcileStep(r)
    \/ GoOffline \/ GoOnline

ClientsSpec == ClientsInit /\ [][ClientsNext]_clientVars
-----------------------------------------------------------------------------
Quiet == \A r \in XRequests : request[r] = NoWork

\* A tag whose id is that of another row.
Foreign(i) == TagId[i] \notin {i, NoId}

\* Without a failed call, and with no two requests at once other than uploads, Xray
\* serves the enabled inbounds with their enabled clients; only one with a foreign
\* tag may be missing.
XrayFollowsRows ==
    Quiet /\ ~failed /\ ~overlapped =>
        \A i \in XInbounds :
            /\ Serves(i) => inbound[i] = "on" /\ served[i].clients = Enabled(i)
            /\ inbound[i] = "on" => Serves(i) \/ Foreign(i)

\* The cleanup leaves an inbound alone that it cannot tell to be an orphan.
Spared(i) == TagId[i] = NoId \/ Listed(TagId[i])

\* r is a reconciliation beside which nothing else ran and of whose calls none
\* failed, and this is its last step.
EndsWell(r) == At(r, "clean") /\ request'[r] = NoWork /\ r \notin disturbed /\ ~request[r].want

\* A reconciliation beside which nothing else ran, and of whose calls none
\* failed, leaves no row in error, whatever had failed or interleaved before.
\* Xray serves every inbound whose row is enabled, unless the cleanup takes its
\* tag for that of a row that is gone; and it serves an inbound without a row
\* only if the tag has no id in it, or that of another row.
ReconcileServes ==
    [][\A r \in XRequests : EndsWell(r) =>
           \A i \in XInbounds : /\ inbound'[i] # "error"
                                /\ inbound'[i] = "on" /\ Spared(i) => Serves(i)'
                                /\ Serves(i)' => Spared(i)]_clientVars

\* A reconciliation "synchronises panel DB state to a node" (reconcile.go:36): it
\* leaves Xray with no inbound but those whose rows are enabled.
ServesOnlyEnabled ==
    [][\A r \in XRequests : EndsWell(r) =>
           \A i \in XInbounds : Serves(i)' => inbound'[i] = "on"]_clientVars

\* A reset enables what the traffic limit has disabled (xray_client.go:365), not
\* what a request has.
ResetsSpareForbidden ==
    [][\A r \in XRequests : EnableAgain(r) => request[r].c \notin forbidden]_clientVars
=============================================================================
