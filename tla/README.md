# Flux Panel: a TLA+ verification project

Flux Panel manages traffic forwarding. A **panel** (`go-backend`, Gin and GORM
over one database) keeps users, nodes, tunnels and *forwards*; **nodes**
(`go-node`, a GOST engine with a control connection) run the services that the
forwards need, and optionally an Xray process. Nothing in the program makes the
database and the nodes change together: a request writes rows and calls nodes
one after the other, over a WebSocket whose calls time out, and a
*reconciliation* later repairs what went wrong. This project models that core:
the connection, the calls, the node's services, the life of a forward, its
ports and its bytes, the rows that name each other, Xray on both sides, and the
UDP listener every forward has. It checks them with TLC, proves the safety
properties of each of them with TLAPS, all but one (section 6), and records where
the code does something else than its comments say.

All paths below are relative to the repository's root.

## 1. Inventory

### The parts, their state and how they interact

| part | state | operations | interacts with |
|---|---|---|---|
| WebSocket manager, `go-backend/pkg/ws.go` | `nodeSessions`, `nodeSystemInfo`, `pendingRequests` (sync.Maps), `node.status` in the database | `HandleConnection`, `readNodeMessages` and its deferred function, `SendMsg` | every service of the panel calls `SendMsg`; `OnNodeOnline` starts a reconciliation |
| WebSocket reporter, `go-node/x/socket/websocket_reporter.go` | `w.conn`, `w.connected`, receiver goroutines | `run`, `connect`, `handleConnection`, `receiveMessages`, `sendResponse` | dials the panel, runs commands |
| service commands, `go-node/x/socket/service.go`, `config.go` | service registry, `config.Services`, `runtime.json` | add, update, delete, pause, resume, hot update; `saveConfig`; loading at start | called by the reporter |
| chains and limiters, `go-node/x/socket/chain.go`, `limiter.go` | registries and configuration | add, update, delete | called by the reporter |
| forwards, `go-backend/service/forward.go`, `pkg/gost.go` | the `forward` table | create, update, delete, force delete, pause, resume; port allocation | `SendMsg` to one or two nodes per request |
| reconciliation, `go-backend/service/reconcile.go` | one lock per node | limiters, forwards, Xray inbounds, certificates, two orphan cleanups | reads the tables, calls nodes |
| traffic accounting, `go-backend/service/flow.go`, `task/reset_flow.go` | counters of forwards, users, user tunnels, Xray clients | uploads, limits, status, daily reset, expiry | pauses forwards, disables clients |
| traffic reporters, `go-node/x/service/service.go`, `x/service/traffic_reporter.go`, `x/xray/traffic_reporter.go` | per-service counters, at both ends of a tunnel | read, send, reset | HTTP to the panel |
| configuration report, `go-node/x/service/traffic_reporter.go`, `go-backend/service/config_check.go` | none | every 10 minutes a node reports its configuration; the panel deletes what it does not know | calls nodes |
| tunnels, user tunnels, speed limits, `go-backend/service/{tunnel,user_tunnel,speed_limit}.go` | their tables | CRUD; pausing and deleting forwards | calls nodes |
| Xray, `go-node/x/xray/manager.go`, `go-backend/service/xray_*.go` | process, `running`, configuration file; tables of inbounds and clients | start, stop, version switch, hot add and remove | commands of the reporter |
| users, login, captcha, nodes, monitoring, statistics, dashboard, updates, ACME | tables and caches | CRUD, measurements, external calls | little with the rest |
| UDP listener, `go-node/x/internal/net/udp/{listener,pool}.go` | a session per client address in a sync.Map, a queue to accept | `listenLoop`, `Accept`, `idleCheck`, `Close` | the service accepts, a handler reads and answers |
| GOST protocols (`go-node/x/{handler,listener,dialer,connector,...}`) | - | third-party code, vendored | configured by the services |
| frontend, install scripts | - | a client; shell | HTTP, files |

### What is hard here

1. **Sessions.** A node reconnects while the reader of its old connection is
   still on its way out, and every access to the maps is a step of its own.
2. **Calls.** A command that timed out may have run, may run later or never.
3. **The node's reporter.** A receiver of a closed connection shares its flag
   with the next connection.
4. **Commands that stop half way.** Two services per command, each of which
   must bind an address; registry, configuration and file change one after the
   other, and the process may die in between.
5. **A forward is on up to three places**: its row, the node of its entry, the
   node of its exit. No request locks the forward; the reconciliation and its
   cleanup read a list of names, then the rows, then delete.
6. **Counters** that are read, reported and reset while traffic flows.
7. **UDP sessions**: three goroutines look a key up, and store or delete it later.

`PROJECT.json` lists these hazards one by one, at the line where each bites.

### What makes each part correct

- *Sessions*: a registered session has a goroutine that will take it out; a
  dead one leaves.
- *Calls*: every call returns; its result tells the truth about the execution;
  `pendingRequests` does not grow.
- *Reporter*: the flag speaks for an open, watched connection; a dead one is
  given up; the node gets back.
- *Services*: what runs is configured, what is configured and unharmed runs,
  what was answered and saved survives a crash.
- *Forwards*: without failures and overlaps the nodes follow the row; after
  failures a reconciliation repairs; a cleanup deletes only what is gone.
- *Ports*: two forwards share a port of a node only if requests overlapped.
- *Traffic*: what a service reports is booked once, unless an answer was lost;
  forgotten only where the counter is reset under traffic; a used-up quota stops
  the forwards but those that a request has written back since, until the next report.
- *Rows*: none outlives what it names, unless it was written meanwhile.
- *Xray on the node*: one process runs, `running` says so, somebody watches it,
  and the file has what the process has.
- *UDP sessions*: an open one is known to a goroutine that will close it.
- *Xray at the panel*: it serves the enabled inbounds with their enabled
  clients; a reconciliation serves the enabled ones again.

## 2. Modules

    RemoteCall      what SendMsg promises                 (abstract)
       ^ implemented by
    PanelRpc        sessions, readers, calls of the panel    PanelRpcProofs
    NodeReporter    run loop and receivers of a node         NodeReporterProofs
    NodeServices    the service commands of a node           NodeProofs
    ForwardSync     one forward: row, requests, nodes,       ForwardSyncProofs
                    reconciliation

    PortLedger      ports taken in one step                  (abstract)
       ^ implemented by
    PortAllocation  ports chosen, and stored later           PanelProofs
    TrafficAccounting   counters, reports, quotas, pauses    TrafficAccountingProofs
    PanelRecords    rows that name each other                PanelProofs
    XrayManager     the Xray process of a node, its file,    XrayManagerProofs
                    its commands
    UdpListener     the sessions of a UDP service            NodeProofs
    XrayClients     the inbounds and clients of Xray at      XrayClientsProofs
                    the panel

    MC*             instances for TLC; `MCNode` and          NodeProofs,
                    `MCPanel` are proved about, too          PanelProofs

`MCNode` and `MCPanel` hold several parts side by side: the variable `component`
says which of them a behaviour is about, and only that one takes steps. Parts
that do not wait for each other are checked in one run that way, without the
product of their states.

`ForwardSync` is written against the two interfaces below it: its `Call` and
`CallFails` are `RemoteCall` (an answer after one execution; a failure with no
execution, one execution, or one later), and its `Effects` are what
`NodeServices` does to the pair of services of one forward, together with the
chain commands. It does not `INSTANCE` them: the product of their states is far
out of TLC's reach, and the interface is what matters.

### RemoteCall and PanelRpc

`RemoteCall` has, for each call, what its caller knows and whether the node ran
the command. `PanelRpc` has one variable per map of `ws.go` (the names are the
code's), the position of the goroutine of each connection (`serving`), of each
`SendMsg` (`call`), and the frames in flight. The deferred function of
`readNodeMessages` is four actions (`CheckCurrent`, `DeleteSession`,
`DeleteInfo`, `GoOffline`) and `HandleConnection` three after the upgrade,
because another goroutine may run between any two accesses. The node is reduced
to dialing, dropping its connection, running a command and answering on the
connection of that moment. `sendToNode` writes under the mutex of the session
(`Held`): a call is "writing", a reader that answers metrics "calling" while it
holds it, for as long as the write takes. A reader that passes a message on to
the browsers is "informing". Left out: the browsers themselves (a stalled one is
a reader that stays "informing"), encryption.

### NodeReporter

One action per access to `w.conn` or `w.connected`. `connect` holds `connMutex`
for the whole dial (`MutexFree`); `run` reads the flag without it (`Check`). A
member of `Conns` is a socket together with the receiver that
`handleConnection` starts for it; the number is used again when both are gone.
`Lose` is the end of the peer, with or without a word; a dead connection's read
fails by its deadline of 30 seconds at the latest.

### NodeServices

`target` is the registry (which forwarder each registered service uses),
`listening` the open listeners, `leaked` listeners nobody refers to any more,
`config` the entries of each name, `disk` and `intact` the file. Each handler
has a successful action and one that stops where the code stops; which address
is refused is an arbitrary set `foreign`, plus what is leaked. `saveConfig`
follows every command in two steps (truncate, write), with `Crash` and
`SaveFails` in between. `broken` is a history variable: the names some command
failed half way on; the code promises nothing about their entries.

### ForwardSync

- `row`: status, tunnel, port and target of one forward. `piece[n][x]`: what
  node `n` runs of it, where `x` is the main service (the TCP and UDP service
  count as one), the chain or the remote service. `"lost"` is a service that is
  listed in the configuration but no longer registered.
- A goroutine is `proc[p]`: the commands it still has to send (`todo`), whether
  one of them failed (`ok`), and the row it read or will write. `Script` builds
  the commands of a handler in the order of the code, and `Answered` says what
  the handler does with an answer: `mode` is the way the code treats a failure
  (`"create"` takes back, `"upsert"` adds what is "not found", `"gentle"`
  accepts "already exists" or hot-updates, `"absent"` accepts "not found",
  `"ignore"` goes on, `"must"` stops, `"hot"` falls back to a full update).
- The reconciliation of a node runs under its lock: `Reconcile` (read),
  `Call`..., `Settle` (status, pauses), `Names`, `Query`, `Purge`, `Unlock`.
  The row is read once, at its start; the code reads it a few queries later.
- `disturbed` and `smooth` are history variables that name the runs a property
  speaks about.

Left out: permission checks (they only refuse requests), ports and quotas (below),
user tunnels (the forward is an administrator's, so its services have the same
name in every tunnel), the limiter and certificate phases, and the cleanup that a
node's configuration report starts (section 7).

### PortAllocation and PortLedger

`stored` has the rows, `claim` what a request has chosen and not written yet:
`CreateForward` and `UpdateForward` read all rows to find a free port and write
later. `rivals` names the forwards whose requests have overlapped. `PortLedger`
takes ports at once and lets rivals, and only them, share; `PortAllocation`
implements it. A tunnel forward takes a port on both of its nodes, so the check
has to see a node as entry and as exit.

### TrafficAccounting

Both ends of a report. At the node: the counter of a service (`count`, `updated`),
the observer that reads it, posts, and takes off what was reported with a second read
and a store, a listener that is closed while its connections last. A forward has a
service on its entry and, through a tunnel, one on its exit, which reports the same
bytes under a name that leads to the same rows (`Services`). At the panel: a report
goes through the three rows, the two checks (over a limit, expired, disabled) and the
pauses, one statement a step; several reports at a time.

Meanwhile quotas are reset, users and permissions switched off and on, forwards paused
by others than reports (`PauseRule`), and resumed, edited or recovered: `change` says
which of these works on a forward, from what it has read (`BeginResume`, whose limits
are checked for the user, not for an administrator; `BeginEdit`, without any check;
`BeginRecover`) to the row it writes (`EndRequest`, `EndHot`, `RequestRefused`).

`unheard` and `missed` name the cases in which the code cannot keep its promise,
`stale` the pauses whose cause has gone, `lifted` the forwards that were written back
over a limit: until a check next finds them to pause they are over it, and the code
does nothing about that.

Simplified: the TCP and the UDP service of a forward, and the services of an entry
with several addresses, are one; a forward is in one request at a time (the pauses
apart, which are single steps); a service listens again when the connections of its
last listener are over; the user's and the permissions' limits are constants; forwards
are not created, deleted or moved, and nodes do not restart (the counters go with the
process).

### PanelRecords

A record is a row, `Shapes` says what it may name. A creation looks the named
rows up and inserts later; `Plan` has, for each kind, what its deletion does in
the code's order: refuse if there are children, list them and delete each, wipe
them. `met` remembers the deletions that overlapped the writing of a row, and those that
were over when the row came to name what is gone. The latter happens to ids that are
written as the request names them (`Unchecked`: the speed limit of a permit, the node
of a `user_node` row); all others are looked up. A speed limit's tunnel is not in the
properties: `DeleteTunnel` leaves the limits (section 5).

### XrayManager

`running` and `cmd` are the manager's fields; `life` is what a process does,
`watch` the goroutine that `Start` leaves behind, `document` the configuration
file and `loaded` what a process has read or been told. A command of the receiver
is a chain of steps (`work`), so is a version switch, which runs in a goroutine of
its own. The mutex is held while `Stop` waits and given up after five seconds.
An inbound is its tag and how often each client is listed.

### UdpListener

`connPool`, `cqueue`, `rc` and `idle` are the code's; `loop` and `check` are where
`listenLoop` and `idleCheck` stand, with the local variables they carry from one
access of the pool to the next. A session is used again when nothing refers to it.
`displaced` and `late` hold the open sessions that got lost in one of two ways: the
idle check deletes the client's key after `listenLoop` stored another session under
it, or `listenLoop` stores one after `Close` has passed the key. `Close` is one step
up to its loop over the pool, as nobody can tell its first three statements apart.

### XrayClients

`inbound` and `client` are the rows, `up` and `served` what the node runs, as
`XrayManager` leaves it when commands follow one another. A request is a chain
of statements and calls; each call may fail before or after it was executed, and
what the code does then is part of the chain. `disturbed`, `overlapped` and
`failed` name the behaviours a property is about. Xray's refusal to add a tag it
serves counts as a failed call: after it `XrayFollowsRows` promises nothing, and
`ServesOnlyEnabled` is about what is left (section 5).

`TagId` is the number that the cleanup reads from a tag: the row's own, another
row's, or none. Tags are free text, so all three occur. The tags of different rows
differ, and a row keeps its tag. `Spared` says what the cleanup leaves, `Foreign`
whose tag it misreads.

`forbidden` has the clients that a request, no limit, has disabled since they were
last enabled. A request that enables a client takes it out, whoever asks; so does an
old row that is saved again (`Restore`), which is a hazard of its own.

## 3. Runs

| run | instance | shows |
|---|---|---|
| `PanelRpcCalls` | 1 node, 2 connections, 1 call; 146 thousand states | safety, the refinement of `RemoteCall` and liveness of sessions and calls |
| `NodeReporterLoop` | 2 sockets; 2 thousand states | the flag, abandoned connections, liveness of the loop |
| `NodeComponents` | services: 2 names, requests on both or one, 2 forwarders, at most 2 entries of a name; Xray: 2 processes, a receiver and a version switch, 1 inbound with 1 client; UDP: 2 clients, 2 sessions, queues of one; 2.6 million states | registry, configuration and file stay in step; the flag, the watcher and the file of Xray; no open session without somebody who closes it |
| `PanelComponents` | ports: 2 forwards, 2 requests, 2 nodes with 1 and 2 ports; traffic: 2 forwards of a permission, one through a tunnel, 2 reports at a time; Xray: 2 clients of an inbound, or 2 more inbounds, one with a tag of its own, one with the other's number, 2 requests; records: one request that writes, one that deletes, 2 tunnels; 620 thousand states | the refinement of `PortLedger`, bytes and quotas, Xray against its rows and what a reconciliation brings about, no orphans |
| `ForwardSyncHandlers` | 2 nodes, a tunnel forward and a port forward to move between, 2 ports, 2 targets, refusals and restarts; 1.9 million states | every sequence of requests, one at a time, keeps row and nodes in step; a reconciliation repairs or cleans |
| `ForwardSyncRaces` | a port forward, two requests at a time, every fault, one command outliving its call; 3 million states | the cleanup against concurrent requests and late commands |
| `PanelRpcStaleOffline`, `ForwardSyncMove`, `ForwardSyncPaused`, `TrafficTunnelTwice`, `XrayClientsForbidden`, `XrayInboundsLeft` | as above | the disagreements of section 5 |

*Bounds, and why they are enough.* The races of `PanelRpc` are between the exit
of one connection and the handling of the next: two connections show them all,
and the safety properties are proved for any number. Two sockets are one that
was given up and one in use; again the safety part is proved for any number.
Two services are what one forward has (TCP and UDP) and what "half way" needs.
A forward touches at most two nodes; a moved one needs two tunnels; a change
needs two values. `MaxLate` (commands that outlive their call) is 1 where such
commands are in question and 0 elsewhere, `MaxEntries` (entries of a name) is 2:
one too many already makes the file unloadable. `Faults` names what may go wrong
in a run; `Locked` the nodes that are reconciled. Symmetry is used on targets,
ports, request goroutines, processes and sessions, only in runs without liveness
properties.

`ForwardSyncHandlers` keeps to behaviours that are smooth or stay in one tunnel
(`SmoothOrInPlace`), `ForwardSyncRaces` to those with a late command or with overlapping
requests (`LateOrOverlapping`): the others are in the other run. Two sessions are what
the race needs (one on its way out, one on its way in), two clients what `Close` needs
to be half way; queues of one are full and empty; `Keepalive` is FALSE, which only adds
the step that closes a session after an answer (the services of the panel have it TRUE),
and the proof is for both. Quotas are 1 and 2 bytes, so that they are met, passed by
one, and passed by one report or by two; `MaxBytes` 2 covers that, `MaxResets` and
`MaxRequests` 1 a reset and a request at every moment of it. `Parts` names what a run is
about. A behaviour of the traffic is about the bytes of both ends of the tunnel
(`OnlyBytes`, two at its entry and one at its exit), about the limits with a request (`OnlyLimits`, the exit out of reach), or
about what switches and other pauses do (`OnlySwitches`, one report at a time); the last
two have the bytes of the entries and lose no answer. One of the clients has its
requests follow one another except for uploads (`OneAtATime`), and none but
reconciliations once a call has failed (`OnceFailed`): `XrayFollowsRows` promises
nothing after others. One of the other inbounds has requests that overlap while the node
is online. What `ReconcileServes` promises is proved for any of them. In `PanelRecords`
one writing request meets one deleting request, anywhere in both; the rows are split
into four scopes of five (a tunnel and its forward; a move between two tunnels; Xray;
speed limits), each closed under what its rows name. In the second the tunnel that the
forward may move to can be deleted, in the first the one that it is in.

`CHECK_DEADLOCK FALSE` is set everywhere: connections and calls are used once,
a forward may be deleted for good, a node whose file cannot be loaded stays
down. All these are states in which the system may really stop.

Every property has a mutant beside the definition it changes (`X_...` in the
modules): a plausible bug of the code under which TLC finds the property
violated.

## 4. Fairness

*PanelRpc*: weak fairness of the handler, of the deferred function, of a
caller once its command is written (its timer fires), of taking a free mutex and
of the delivery of an answer, none of which blocks on anything outside the panel.
The writes are different: `ws.go:398` and `406` have no deadline and are made
under a mutex, the first of them before the caller's timer starts. A write to a
node is therefore fair only once its connection is closed, when it must fail
(`WriteReturns`, `CallReturns`), and nothing is assumed of the writes to the
browsers (`Informed`) nor of nodes and the network. That is what the two
properties say: a call returns once it is written or its connection is closed
(`EveryCallReturns`), and a closed session leaves the map unless a browser holds
its reader for ever (`DeadSessionsLeave`). A node that keeps its connection open
and does not read holds its callers without end; the panel reads without a
deadline too, so a silently cut connection keeps its session until its node dials
again, and no property says otherwise.

*NodeReporter*: weak fairness of the run loop; strong fairness of the steps of
a receiver that need `connMutex`, which `connect` takes again and again; strong
fairness of the failing read: its deadline is renewed by every frame, and a dead
connection has finitely many left. `PanelReachable` says that dialing again and
again succeeds in the end. Under it `Reconnects` holds: once connections stop
dying, the node is in its loop again and again. "In the end for good" is *not*
a theorem of the code: closing a connection makes its own receiver fail, and
that receiver may take the next connection down, and so on.

*The other modules*: safety only, no fairness.

## 5. What was found

- **A reader may sign off its successor** (`PanelRpcStaleOffline`). `ws.go:224`
  says "Only update offline if this is still the current session"; the test and
  the deletion are two steps, and a reconnect stored between them is deleted
  and its node set offline, although connected.
- **A move may lose a forward** (`ForwardSyncMove`). The new services are
  created before the row names the new tunnel; the cleanup of the new node in
  between takes them for orphans (`reconcile.go:378-399`).
- **A paused forward that is edited** (`ForwardSyncPaused`). Its row becomes
  active (`forward.go:386`), its services stay paused after a hot update, and
  no reconciliation resumes them.

- **The bytes of a tunnel are charged twice** (`TrafficTunnelTwice`).
  `parse.go:350` says that a service whose name ends in `_tls` is not observed; its
  counters are on all the same (`parse.go:154`) and reported "independent of
  observer" (`service.go:395`), and the panel books them on the forward, user and
  permission that its name begins with (`flow.go:164-170`), as it does those of the
  entry.
- **A reset serves who was disabled** (`XrayClientsForbidden`).
  `xray_client.go:365` says "Re-enable if it was auto-disabled due to traffic
  limit"; nothing records who disabled a client, and a client disabled by a
  request is enabled and served again as soon as its traffic is reset.
- **An inbound that is off and served** (`XrayInboundsLeft`). Enabling an inbound
  that is enabled is refused by Xray (known tag), and the revert disables the row
  (`xray_inbound.go:447`) while Xray serves it. `reconcile.go:36` says
  "ReconcileNode synchronises panel DB state to a node"; it adds enabled rows and
  removes what has no row, so this one stays.

Not a run, but met while modelling:

- A refused resume loses the service. `service.go:391` and `398` promise a
  transaction with a rollback; the service that is refused has been unregistered
  before (402), and the rollback covers only the ones before it (`ResumeFails`).
- Two connections at a time. `websocket_reporter.go:176` wants to avoid them; a
  receiver of a closed connection clears the flag of the next one (439), which is
  then overwritten open. `OneConnectionWhileFlagIsKept` (section 6) says that there
  is no other way.
- An inbound removed for its tag. `reconcile.go:467` removes "orphan inbounds"; which
  they are it asks by the number in the tag, and an inbound tagged with a number that
  no row has goes, although its own row is enabled. `ReconcileServes` leaves it out.
- `DeleteTunnel` leaves the tunnel's speed limits: `UpdateSpeedLimit` and
  `DeleteSpeedLimit` then change the row only, as the node is found through the
  tunnel (`speed_limit.go:63, 91`). `DeleteUser` leaves the user's inbounds.
- `UpdateUserTunnel` with a new speed limit rebuilds the services of all forwards
  (`user_tunnel.go:182`), those of paused ones too, which then listen again while
  their rows say paused.
- `xray_inbound.go:182` looks for "未安装" in the node's answer; the node says
  "secondary binary not installed" (`manager.go:196`), so an inbound created on a
  node without Xray becomes "error" instead of waiting for the installation.
- An inbound with a tag of its own that is deleted while its node is away stays
  served: the cleanup looks at `inbound-{n}` only (`reconcile.go:437`).
- An update of a client that Xray refuses saves the whole row as it was read
  (`xray_client.go:281`), over what limits, resets and other requests have written.
- Every edit of a forward writes it active and checks no quota (`forward.go:386`), an
  administrator's resume checks none either (553): a forward paused over its limit is
  back until a report next finds the limit passed (`lifted`).
- The Xray phase sets rows in "error" to enabled after the first inbound was
  answered, whatever was answered for those rows (`reconcile.go:310`).
- A version switch that cannot save the old binary leaves Xray stopped
  (`manager.go:263`).
- The idle check deletes by key (`udp/pool.go:98`): a session made meanwhile for the
  same client stays open, with its handler blocked and its target connected, until
  the target hangs up; the next datagram makes another session. `Close` may miss a
  session in the same way (`udp/listener.go:121`).
- A statistics query of Xray resets what it reads before the upload
  (`x/xray/traffic_reporter.go:88`): an upload that fails loses those bytes.
- A move deletes the services on the old nodes and goes on if that fails
  (`forward.go:328`). If the new tunnel uses the old entry as its exit, or the other
  way round, what was left there is nobody's: the cleanup asks only whether the
  row's tunnel uses the node (`reconcile.go:378`), and pauses go to the places of
  the new tunnel. The proof of `ReconcileRestores` showed it; the property speaks
  of the services of the row's tunnel.

Further, `DeleteForward` skips *all* its calls when
one node has no session (`forward.go:442` "services aren't running"), and the
services of the other node go on until its next reconciliation; a node that
reconnects while its reconciliation still runs gets none (`TryLock`).

## 6. Proofs

`tlapm` checks every proof to its leaves, for all values of the constants that
satisfy the named assumptions (`RpcAssumption`, `ReporterAssumption`,
`ServicesAssumption`, `PortAssumption`, `UdpAssumption`, `XrayAssumption`,
`AccountAssumption`, `RecordsAssumption`, `ClientsAssumption`, `SyncAssumption`,
`AbsentAssumption`: the types of the constants, and that the "none" values are
different from the others; `AccountFinite`: finitely many forwards and reports). TLC
evaluates the assumptions in the runs. `PROJECT.json` lists the theorems; each
invariant below is inductive, and what it adds to the properties is what makes it so.

- **PanelRpcProofs**: `TypeCorrect`, `NoGhostSessions`, `PendingRequestsLive`,
  and `Refinement`: `SendMsg` implements `RemoteCall`. The invariant adds two
  facts to the properties: `FrameInv` (a command in flight was not executed, is
  on one connection only, and its caller is waiting or gave up) and `AnswerInv`
  (an answer anywhere on its way belongs to an executed command). Without them
  an answer could arrive for a command that never ran.
  `OfflineOnlyCurrentInTurn` is about the finding of `PanelRpcStaleOffline`: if no
  session is stored while the deferred function of another session of its node is
  between its test and its deletion (`StoresInTurn`), the deletion takes its own session
  only. So a lock over the two accesses, taken by the store as well, would make the
  comment true.
- **PanelProofs**. Of the ports: `PortTypeCorrect`, `SharedPortsOverlapped` and
  `AllocationImplementsLedger`. The invariant says of every claim that the ports
  in it are not held by anybody who is not a rival of its forward (a row is
  written with ports that were free some time ago, and whoever took them since
  has overlapped with the request), that a forward being created has no row, and
  that a port of a node is never 0, the mark of a port forward. Every step then
  is a step of the ledger: the row's keys are taken where only rivals hold them.
  Of the rows: `RecordsTypeCorrect`, `NamesOutliveOnlyWhenWrittenLate`,
  `PermitsGoWithTheirForwards`. A plan is a list of measures; what is left of it
  will find every child of the row whose writing did not meet the deletion
  (`Pursued`, `Finds`), and a writer has met every deletion above its row that is
  under way (`Met`). `NamesStand` carries that over the moment the row is inserted.
  Last, `PanelIsItsParts`: what `MCPanel` does is, seen from each part, what the part
  does alone, and `PanelTypeCorrect` puts the types of the four parts together. So what
  the run `PanelComponents` checks of a part and what is proved of it are one thing.
- **NodeReporterProofs**: `ReporterTypeCorrect`, `ConnectedOpen`,
  `ConnectedWatched`, `AbandonedUnserved`. The invariant adds `Dialing` (connect is
  entered with the flag down), `Unserved` (nothing serves a connection between
  connect and handleConnection) and `Serving` (while handleConnection runs, its
  connection is the current one and open).
  `OneConnectionWhileFlagIsKept`, about two connections at a time (section 5): if nobody
  clears the flag between connect and run's look at it (`FlagIsKept`), the node never has
  two sockets. Receivers of older connections may clear it at any other moment.
- **NodeProofs**. Of the services: `ServicesTypeCorrect`,
  `RegisteredConfigured`, `ClosedPaused`, `LeakedUnregistered`,
  `EntriesAreServices` and `AnsweredSaved`, for any names, requests and forwarders.
  The invariant adds `DownIsEmpty` (a dead process owns nothing). One lemma per
  command; the lemmas `SetHead`, `HeadsOnly` and `RequestNames` say what the
  operators on entries and requests do.
  Of the UDP listener: `UdpTypeCorrect` and `SessionsAreClosed`. The invariant says
  what a goroutine may still rely on when it uses what it looked up: an entry of the
  pool belongs to its key (`Entries`); what `listenLoop` is about to store replaces
  no open session, as only `listenLoop` opens any (`Storing`); the keys that Range has
  before it keep an entry, as only `idleCheck` deletes (`Visiting`). What it cannot
  say is that the entry deleted is the one looked at: hence `displaced`.
  Last, `NodeIsItsParts` and `NodeTypeCorrect`, the same for `MCNode`.
- **ForwardSyncProofs**, in three parts over one lemma per action (what it changes)
  and per operator (`Scripts`, `EffectsAre`, `AnswersAre`: what a handler sends, what
  a node answers, what the handler does with the answer):
  - `RestoresWhenAlone` and `CleansWhenAlone`. `AloneInv` says what a reconciliation
    that nobody disturbs has reached: the row is the one it has read, a piece is there
    with its target or a command for it is still to be sent, a service is paused or
    will be, and the names it has fetched are what the node runs. Nothing is assumed
    of the state it starts from.
  - `PurgesOnlyOrphans`, under `[]StaysPut`: no request moves the forward to other
    nodes. Then everything on its way, in `todo`, in `late` and on the nodes, is for
    the nodes of the row (`PlaceInv`), so a node that has names of the forward is one of
    the row's, and the query misses the row only if it was deleted, for good. This
    needs no absence of overlaps, faults or restarts. Without `StaysPut` it is false:
    `ForwardSyncMove` is the counterexample.
  - `SmoothHandlersAgree`. While nothing fails or overlaps, at most one handler is at
    work, and `SmoothInv` says how far it has come: which pieces are made, cleared,
    updated, paused, by which commands the rest will be. A move first clears the old
    row's pieces and makes the new ones when all are gone (`Moving`); a reconciliation
    finds everything in place and its purge is never reached.
- **TrafficAccountingProofs**: `AccountTypeCorrect`, `BytesAreBookedOnce`,
  `NothingIsForgotten`, `LimitsAreEnforced`, and `PausesHaveACause`, an action property.
  Each service has its ledger (`LedgerOf`): what its counter, the reports under way and
  its share of the row hold together is what was carried, from above unless a report was heard
  and the node did not learn of it (`Unheard`), from below unless a reset missed bytes.
  `BookedRow` adds the shares of both ends.
  For the limits, `Followed` says who will still look: a report that has
  booked bytes on a permission over its limit has its check before it, or is about
  to pause the forward, unless the forward was written back (`lifted`). `Caused`
  keeps the cause of a pause with it, until a reset or a switch takes it away.
  `RowsAgreeInTheEnd` is about sums over all forwards: until a quota is reset, the user's
  row and what the reports still owe it add up to the rows of the forwards, and so for each
  permission (`RowsInv`). Its lemmas say what a sum over a finite set is (`SumIs`) and
  that it changes as one summand does (`SumPut`). The fold is defined by CHOOSE of a
  recursive function, and the library's induction takes an operator; the lemmas
  do without, by the *set* of subsets for which a claim holds and the least number that
  a set lacks (`NatSetInduction`, `SubsetInduction`).
- **XrayManagerProofs**: `XrayTypeCorrect`, `FlagIsTruthful`, `RunningIsWatched`,
  `FileAgreesWithXray`. The last needs to know what the command in between has done:
  while no two commands overlapped (`OneCommand`), file and process differ by what
  that command has changed on one side so far (`CommandAgrees`), one case per step.
- **XrayClientsProofs**: `ClientsTypeCorrect`, `XrayFollowsTheRows`,
  `ReconcileServesRows`. `InStep`: while no call has failed and nothing but uploads
  has met (`Calm`), node and rows differ only where a request has changed one side and
  not yet the other (`Moving` an inbound, `Touching` a client), and what a request goes
  by is still true (`Fits`): the status it read, the clients it is about to send, that
  no row is enabled before Xray is stopped. Several uploads at once keep it, because they
  only disable. `ReconcileGoesOn` says how far a reconciliation has come that was
  alone and had no trouble: which enabled rows are served or still to be pushed, then
  that all are and no row is in error, then that whatever else the node serves is still
  to be looked up or removed, or is what the cleanup cannot see. It holds whatever
  failed or overlapped before, and nothing is assumed of the rows, the tags and the node
  it starts from.

Every invariant and every safety property of the passing runs is proved. Only
model-checked is all liveness: `EveryCallReturns`, `DeadSessionsLeave`, `LostIsGivenUp`,
`Reconnects` (out of reach of the prover). The properties of the violation runs are
false. For two of them a theorem says under which condition they hold
(`PurgesOnlyOrphans`, `OfflineOnlyCurrentInTurn`), as `OneConnectionWhileFlagIsKept`
does for the two connections: the condition excludes the step the finding is about (the
first one every move to other nodes, the others just that step where it does the harm),
so there is no other cause. There is none for the other ones.

## 7. Not modelled, and the plan

Open, the most important first:

1. **ForwardSync**: the cleanup of the configuration report (`config_check.go`) as
   one more actor.
2. Limiters on the nodes (`limiter.go`, `reconcile.go:92`).
3. A composition of `NodeReporter` and `NodeServices` (two receivers at work,
   commands before the configuration is loaded, SIGHUP), and of `PanelRpc` with
   the reconciliation (a reconnect whose reconciliation is refused by `TryLock`).

4. More of the engine's shared state: the markers of failing targets, the selectors
   and the limiters that several services use.

Never: the rest of the vendored GOST engine, the frontend, scripts, ACME, captcha,
monitoring, statistics, dashboard and updates. They keep no state the rest
depends on, talk to external services only, or are third-party code. Their share
is large: of the implementation's 79 thousand lines, the engine under
`go-node/x` (handlers, listeners, dialers, the HTTP API, sniffers) alone has 66
thousand, a copy of go-gost/x that the program configures and does not change.
What this program adds to it (`x/socket`, `x/xray`, the statistics in
`x/service`) is modelled, and of the rest the UDP sessions. So the models cover a
small share of the lines and most of those that decide what the program's own state is.

## 8. Running it

    tlc -workers 2 -config PanelRpcCalls.cfg MCPanelRpc.tla
    tlapm PanelProofs.tla

Each run's module and properties are in `PROJECT.json`, where `map` names the
source lines of every definition.
