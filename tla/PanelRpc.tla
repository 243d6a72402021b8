------------------------------ MODULE PanelRpc ------------------------------
(***************************************************************************)
(* The panel's side of the WebSocket to its nodes (go-backend/pkg/ws.go):  *)
(* the handler that registers a session, the goroutine that reads it and   *)
(* takes it down again, and the request/answer calls that every service    *)
(* makes through SendMsg.  The node's side is reduced to what the panel    *)
(* can observe of it: it dials, it drops its connection, it runs a command *)
(* and sends the answer on whatever connection it then has.                *)
(*                                                                         *)
(* A connection is used once: a reconnect is a new member of Conns.        *)
(***************************************************************************)
EXTENDS FiniteSets

CONSTANTS Nodes,       \* node ids
          Conns,       \* WebSocket connections (one NodeSession each)
          Reqs,        \* request ids: generateUUID never repeats one
          NodeOf,      \* the node that dials each connection
          NoConn

ASSUME RpcAssumption ==
    /\ NodeOf \in [Conns -> Nodes]
    /\ NoConn \notin Conns

VARIABLES
    \* panel
    nodeSessions,      \* sync.Map: node id -> registered session
    nodeSystemInfo,    \* sync.Map: the nodes whose metrics are cached
    status,            \* node.status in the database: TRUE is online
    serving,           \* where the goroutine of each connection stands
    delivering,        \* the answers taken from the map, not yet on their channel
    call,              \* where each SendMsg stands, or how it returned
    via,               \* the session each SendMsg loaded
    pendingRequests,   \* sync.Map: the registered request ids
    channel,           \* the calls whose channel (capacity 1) holds an answer
    \* network
    link,              \* state of each connection
    commands,          \* frames in flight to the node
    replies,           \* frames in flight to the panel
    \* node
    nodeConn,          \* the reporter's current connection (w.conn)
    answering,         \* commands that are being run, answer not sent yet
    executed           \* commands that were run

sessionVars == <<nodeSessions, nodeSystemInfo, status, serving>>
callVars    == <<delivering, call, via, pendingRequests, channel>>
frameVars   == <<commands, replies>>
nodeVars    == <<nodeConn, answering, executed>>
vars        == <<sessionVars, callVars, link, frameVars, nodeVars>>

(***************************************************************************)
(* "upgraded", "closedOld" and "stored" are HandleConnection after the     *)
(* upgrade; "reading" is the loop of readNodeMessages, which answers        *)
(* metrics with a frame of its own ("metrics" waits for the session's       *)
(* mutex, "calling" writes under it) and passes what it read on to the      *)
(* browsers of the administrators ("informing"); "exiting" to "offline" is  *)
(* its deferred function; "done" has closed the connection.                 *)
(* A call is "writing" while it holds the session's mutex.                  *)
(***************************************************************************)
ServingStates == {"none", "upgraded", "closedOld", "stored", "reading",
                  "metrics", "calling", "informing",
                  "exiting", "deleting", "clearing", "offline", "done"}
Looping    == {"reading", "metrics", "calling", "informing"}
Returned   == {"reply", "timeout", "offline"}
CallStates == {"idle", "loaded", "registered", "writing", "waiting"} \cup Returned
\* "half": the peer is gone and nothing tells the panel (no read deadline).
LinkStates == {"new", "up", "half", "down"}

TypeOK ==
    /\ nodeSessions \in [Nodes -> Conns \cup {NoConn}]
    /\ nodeSystemInfo \subseteq Nodes
    /\ status \in [Nodes -> BOOLEAN]
    /\ serving \in [Conns -> ServingStates]
    /\ delivering \subseteq Reqs
    /\ call \in [Reqs -> CallStates]
    /\ via \in [Reqs -> Conns \cup {NoConn}]
    /\ pendingRequests \subseteq Reqs
    /\ channel \subseteq Reqs
    /\ link \in [Conns -> LinkStates]
    /\ commands \in [Conns -> SUBSET Reqs]
    /\ replies \in [Conns -> SUBSET Reqs]
    /\ nodeConn \in [Nodes -> Conns \cup {NoConn}]
    /\ answering \in [Nodes -> SUBSET Reqs]
    /\ executed \subseteq Reqs

Init ==
    /\ nodeSessions = [n \in Nodes |-> NoConn]
    /\ nodeSystemInfo = {}
    /\ status = [n \in Nodes |-> FALSE]
    /\ serving = [c \in Conns |-> "none"]
    /\ delivering = {}
    /\ call = [r \in Reqs |-> "idle"]
    /\ via = [r \in Reqs |-> NoConn]
    /\ pendingRequests = {}
    /\ channel = {}
    /\ link = [c \in Conns |-> "new"]
    /\ commands = [c \in Conns |-> {}]
    /\ replies = [c \in Conns |-> {}]
    /\ nodeConn = [n \in Nodes |-> NoConn]
    /\ answering = [n \in Nodes |-> {}]
    /\ executed = {}
-----------------------------------------------------------------------------
(* The connections: the node dials, drops, or is cut off.                  *)

\* The secret is valid and the upgrade succeeds; the node's Dial returns.
Upgrade(c) ==
    /\ serving[c] = "none"
    /\ nodeConn[NodeOf[c]] = NoConn
    /\ serving' = [serving EXCEPT ![c] = "upgraded"]
    /\ link' = [link EXCEPT ![c] = "up"]
    /\ nodeConn' = [nodeConn EXCEPT ![NodeOf[c]] = c]
    /\ UNCHANGED <<nodeSessions, nodeSystemInfo, status, callVars, frameVars,
                   answering, executed>>

\* The reporter closes its connection; the panel may never hear of it.
NodeDrops(n) ==
    /\ nodeConn[n] # NoConn
    /\ nodeConn' = [nodeConn EXCEPT ![n] = NoConn]
    /\ \/ /\ link[nodeConn[n]] = "up"
          /\ link' = [link EXCEPT ![nodeConn[n]] = "down"]
       \/ UNCHANGED link
    /\ UNCHANGED <<sessionVars, callVars, frameVars, answering, executed>>

\* The network silently stops carrying the connection.
Partition(c) ==
    /\ link[c] = "up"
    /\ link' = [link EXCEPT ![c] = "half"]
    /\ UNCHANGED <<sessionVars, callVars, frameVars, nodeVars>>
-----------------------------------------------------------------------------
(* HandleConnection: close the old session, store the new, go online.      *)

CloseLink(c) == [link EXCEPT ![c] = "down"]

CloseExisting(c) ==
    /\ serving[c] = "upgraded"
    /\ serving' = [serving EXCEPT ![c] = "closedOld"]
    /\ LET old == nodeSessions[NodeOf[c]]
       IN  link' = IF old = NoConn THEN link ELSE CloseLink(old)
    /\ UNCHANGED <<nodeSessions, nodeSystemInfo, status, callVars, frameVars, nodeVars>>

StoreSession(c) ==
    /\ serving[c] = "closedOld"
    /\ serving' = [serving EXCEPT ![c] = "stored"]
    /\ nodeSessions' = [nodeSessions EXCEPT ![NodeOf[c]] = c]
    /\ UNCHANGED <<nodeSystemInfo, status, callVars, link, frameVars, nodeVars>>

\* OnNodeOnline, then `go readNodeMessages`.
GoOnline(c) ==
    /\ serving[c] = "stored"
    /\ serving' = [serving EXCEPT ![c] = "reading"]
    /\ status' = [status EXCEPT ![NodeOf[c]] = TRUE]
    /\ UNCHANGED <<nodeSessions, nodeSystemInfo, callVars, link, frameVars, nodeVars>>
-----------------------------------------------------------------------------
(* readNodeMessages: the loop, and the deferred function.                  *)

\* Somebody holds the mutex of the session: sendToNode writes under it, and
\* no write has a deadline.
Held(c) == serving[c] = "calling" \/ \E r \in Reqs : via[r] = c /\ call[r] = "writing"

\* Metrics have come: sendToNode is about to take the mutex ...
ReadInfo(c) ==
    /\ serving[c] = "reading"
    /\ link[c] = "up"
    /\ serving' = [serving EXCEPT ![c] = "metrics"]
    /\ UNCHANGED <<nodeSessions, nodeSystemInfo, status, callVars, link, frameVars, nodeVars>>

\* ... and writes `{"type":"call"}` under it ...
CallNode(c) ==
    /\ serving[c] = "metrics"
    /\ ~Held(c)
    /\ serving' = [serving EXCEPT ![c] = "calling"]
    /\ UNCHANGED <<nodeSessions, nodeSystemInfo, status, callVars, link, frameVars, nodeVars>>

\* Mutant: the metrics are cached under the session instead of the node.
StoreInfo_WrongKey(c) ==
    /\ serving[c] = "calling"
    /\ serving' = [serving EXCEPT ![c] = "informing"]
    /\ nodeSystemInfo' = nodeSystemInfo \cup {c}
    /\ UNCHANGED <<nodeSessions, status, callVars, link, frameVars, nodeVars>>

\* ... until the write returns, well or not; the metrics are cached.
StoreInfo(c) ==
    /\ serving[c] = "calling"
    /\ serving' = [serving EXCEPT ![c] = "informing"]
    /\ nodeSystemInfo' = nodeSystemInfo \cup {NodeOf[c]}
    /\ UNCHANGED <<nodeSessions, status, callVars, link, frameVars, nodeVars>>

\* A message that is neither metrics nor an answer is passed on as it is.
ReadOther(c) ==
    /\ serving[c] = "reading"
    /\ link[c] = "up"
    /\ serving' = [serving EXCEPT ![c] = "informing"]
    /\ UNCHANGED <<nodeSessions, nodeSystemInfo, status, callVars, link, frameVars, nodeVars>>

\* broadcastToAdmins has written to every browser; one that takes nothing
\* off its connection keeps the reader here.
Informed(c) ==
    /\ serving[c] = "informing"
    /\ serving' = [serving EXCEPT ![c] = "reading"]
    /\ UNCHANGED <<nodeSessions, nodeSystemInfo, status, callVars, link, frameVars, nodeVars>>

\* LoadAndDelete on the request id; an id that is not there is dropped.
ReadReply(c, r) ==
    /\ serving[c] = "reading"
    /\ link[c] = "up"
    /\ r \in replies[c]
    /\ replies' = [replies EXCEPT ![c] = @ \ {r}]
    /\ pendingRequests' = pendingRequests \ {r}
    /\ delivering' = delivering \cup (pendingRequests \cap {r})
    /\ UNCHANGED <<sessionVars, call, via, channel, link, commands, nodeVars>>

\* The send on the channel; the caller may have given up in between.
Deliver(r) ==
    /\ r \in delivering
    /\ r \notin channel
    /\ delivering' = delivering \ {r}
    /\ channel' = channel \cup {r}
    /\ UNCHANGED <<sessionVars, call, via, pendingRequests, link, frameVars, nodeVars>>

ReadFails(c) ==
    /\ serving[c] = "reading"
    /\ link[c] = "down"
    /\ serving' = [serving EXCEPT ![c] = "exiting"]
    /\ UNCHANGED <<nodeSessions, nodeSystemInfo, status, callVars, link, frameVars, nodeVars>>

\* Mutant: the deferred function leaves the map alone.
CheckCurrent_Never(c) ==
    /\ serving[c] = "exiting"
    /\ serving' = [serving EXCEPT ![c] = "done"]
    /\ UNCHANGED <<nodeSessions, nodeSystemInfo, status, callVars, link, frameVars, nodeVars>>

\* Mutant: the comparison with the registered session is inverted.
CheckCurrent_Inverted(c) ==
    /\ serving[c] = "exiting"
    /\ serving' = [serving EXCEPT ![c] =
           IF nodeSessions[NodeOf[c]] = c THEN "done" ELSE "deleting"]
    /\ UNCHANGED <<nodeSessions, nodeSystemInfo, status, callVars, link, frameVars, nodeVars>>

\* "Only update offline if this is still the current session": the test ...
CheckCurrent(c) ==
    /\ serving[c] = "exiting"
    /\ serving' = [serving EXCEPT ![c] =
           IF nodeSessions[NodeOf[c]] = c THEN "deleting" ELSE "done"]
    /\ UNCHANGED <<nodeSessions, nodeSystemInfo, status, callVars, link, frameVars, nodeVars>>

\* ... and the update, which deletes whatever is registered by now.
DeleteSession(c) ==
    /\ serving[c] = "deleting"
    /\ serving' = [serving EXCEPT ![c] = "clearing"]
    /\ nodeSessions' = [nodeSessions EXCEPT ![NodeOf[c]] = NoConn]
    /\ UNCHANGED <<nodeSystemInfo, status, callVars, link, frameVars, nodeVars>>

DeleteInfo(c) ==
    /\ serving[c] = "clearing"
    /\ serving' = [serving EXCEPT ![c] = "offline"]
    /\ nodeSystemInfo' = nodeSystemInfo \ {NodeOf[c]}
    /\ UNCHANGED <<nodeSessions, status, callVars, link, frameVars, nodeVars>>

GoOffline(c) ==
    /\ serving[c] = "offline"
    /\ serving' = [serving EXCEPT ![c] = "done"]
    /\ status' = [status EXCEPT ![NodeOf[c]] = FALSE]
    /\ UNCHANGED <<nodeSessions, nodeSystemInfo, callVars, link, frameVars, nodeVars>>
-----------------------------------------------------------------------------
(* SendMsgWithTimeout, one step per access to shared state.                *)

LoadSession(r, n) ==
    /\ call[r] = "idle"
    /\ via' = [via EXCEPT ![r] = nodeSessions[n]]
    /\ call' = [call EXCEPT ![r] =
           IF nodeSessions[n] = NoConn THEN "offline" ELSE "loaded"]
    /\ UNCHANGED <<sessionVars, delivering, pendingRequests, channel, link,
                   frameVars, nodeVars>>

StoreRequest(r) ==
    /\ call[r] = "loaded"
    /\ call' = [call EXCEPT ![r] = "registered"]
    /\ pendingRequests' = pendingRequests \cup {r}
    /\ UNCHANGED <<sessionVars, delivering, via, channel, link, frameVars, nodeVars>>

\* sendToNode takes the mutex of the session ...
BeginWrite(r) ==
    /\ call[r] = "registered"
    /\ ~Held(via[r])
    /\ call' = [call EXCEPT ![r] = "writing"]
    /\ UNCHANGED <<sessionVars, delivering, via, pendingRequests, channel, link,
                   frameVars, nodeVars>>

\* ... and its write returns; only now does the timer start.  A failed write
\* is only logged: the caller waits for its timeout all the same.
WriteCommand(r) ==
    /\ call[r] = "writing"
    /\ call' = [call EXCEPT ![r] = "waiting"]
    /\ commands' = IF link[via[r]] = "up"
                   THEN [commands EXCEPT ![via[r]] = @ \cup {r}]
                   ELSE commands
    /\ UNCHANGED <<sessionVars, delivering, via, pendingRequests, channel, link,
                   replies, nodeVars>>

ReceiveAnswer(r) ==
    /\ call[r] = "waiting"
    /\ r \in channel
    /\ call' = [call EXCEPT ![r] = "reply"]
    /\ channel' = channel \ {r}
    /\ UNCHANGED <<sessionVars, delivering, via, pendingRequests, link, frameVars, nodeVars>>

\* Mutant: the request stays in the map.
TimeOut_Leaks(r) ==
    /\ call[r] = "waiting"
    /\ call' = [call EXCEPT ![r] = "timeout"]
    /\ UNCHANGED <<sessionVars, delivering, via, pendingRequests, channel, link, frameVars, nodeVars>>

\* Mutant: the timer only guards calls whose connection still stands.
TimeOut_IfUp(r) ==
    /\ call[r] = "waiting"
    /\ link[via[r]] = "up"
    /\ call' = [call EXCEPT ![r] = "timeout"]
    /\ pendingRequests' = pendingRequests \ {r}
    /\ UNCHANGED <<sessionVars, delivering, via, channel, link, frameVars, nodeVars>>

\* With an answer and the timer both ready, select takes either.
TimeOut(r) ==
    /\ call[r] = "waiting"
    /\ call' = [call EXCEPT ![r] = "timeout"]
    /\ pendingRequests' = pendingRequests \ {r}
    /\ UNCHANGED <<sessionVars, delivering, via, channel, link, frameVars, nodeVars>>
-----------------------------------------------------------------------------
(* The node: routeCommand and sendResponse.                                *)

\* Mutant: the command is handed to a goroutine and answered at once.
NodeRuns_Async(n, r) ==
    /\ nodeConn[n] # NoConn
    /\ r \in commands[nodeConn[n]]
    /\ commands' = [commands EXCEPT ![nodeConn[n]] = @ \ {r}]
    /\ answering' = [answering EXCEPT ![n] = @ \cup {r}]
    /\ UNCHANGED <<sessionVars, callVars, link, replies, nodeConn, executed>>

NodeRuns(n, r) ==
    /\ nodeConn[n] # NoConn
    /\ r \in commands[nodeConn[n]]
    /\ commands' = [commands EXCEPT ![nodeConn[n]] = @ \ {r}]
    /\ executed' = executed \cup {r}
    /\ answering' = [answering EXCEPT ![n] = @ \cup {r}]
    /\ UNCHANGED <<sessionVars, callVars, link, replies, nodeConn>>

\* The answer goes out on the connection of the moment, or nowhere.
NodeAnswers(n, r) ==
    /\ r \in answering[n]
    /\ answering' = [answering EXCEPT ![n] = @ \ {r}]
    /\ replies' = IF nodeConn[n] # NoConn /\ link[nodeConn[n]] = "up"
                  THEN [replies EXCEPT ![nodeConn[n]] = @ \cup {r}]
                  ELSE replies
    /\ UNCHANGED <<sessionVars, callVars, link, commands, nodeConn, executed>>
-----------------------------------------------------------------------------
Handler(c) == CloseExisting(c) \/ StoreSession(c) \/ GoOnline(c)
Cleanup(c) == \/ ReadFails(c) \/ CheckCurrent(c) \/ DeleteSession(c)
              \/ DeleteInfo(c) \/ GoOffline(c)
Messages(c) == \/ ReadInfo(c) \/ CallNode(c) \/ StoreInfo(c) \/ ReadOther(c) \/ Informed(c)
               \/ \E r \in Reqs : ReadReply(c, r)
Caller(r)  == \/ StoreRequest(r) \/ BeginWrite(r) \/ WriteCommand(r)
              \/ ReceiveAnswer(r) \/ TimeOut(r)
Node(n)    == NodeDrops(n) \/ \E r \in Reqs : NodeRuns(n, r) \/ NodeAnswers(n, r)

Next ==
    \/ \E c \in Conns : Upgrade(c) \/ Partition(c) \/ Handler(c) \/ Messages(c) \/ Cleanup(c)
    \/ \E r \in Reqs : Caller(r) \/ Deliver(r) \/ \E n \in Nodes : LoadSession(r, n)
    \/ \E n \in Nodes : Node(n)

Spec == Init /\ [][Next]_vars

(***************************************************************************)
(* Goroutines that can run do run: the handler and the deferred function   *)
(* never block on anything outside the panel, a caller's timer fires, and  *)
(* a mutex goes to one who waits for it.  A write is only sure to return   *)
(* when its connection is closed: none has a deadline, and a node that     *)
(* does not read keeps the writer and the mutex.  Of the writes to the     *)
(* browsers (Informed) nothing is assumed, nor of nodes or the network.    *)
(***************************************************************************)
Closed(r)       == via[r] # NoConn /\ link[via[r]] = "down"
WriteReturns(r) == Closed(r) /\ WriteCommand(r)
CallReturns(c)  == link[c] = "down" /\ StoreInfo(c)

Fairness ==
    /\ \A c \in Conns : /\ WF_vars(Handler(c)) /\ WF_vars(Cleanup(c))
                        /\ WF_vars(CallNode(c)) /\ WF_vars(CallReturns(c))
    /\ \A r \in Reqs : /\ WF_vars(StoreRequest(r)) /\ WF_vars(BeginWrite(r))
                       /\ WF_vars(WriteReturns(r)) /\ WF_vars(Deliver(r))
                       /\ WF_vars(ReceiveAnswer(r) \/ TimeOut(r))

FairSpec == Spec /\ Fairness
-----------------------------------------------------------------------------
(* Properties.                                                             *)

\* A session in nodeSessions is one whose goroutine will still take it out
\* again: were it registered after its goroutine had finished, the node would
\* count as online for ever and every call to it would wait for its timeout
\* (HandleConnection, and the deferred function of readNodeMessages).
NoGhostSession ==
    \A n \in Nodes : nodeSessions[n] # NoConn =>
        /\ NodeOf[nodeSessions[n]] = n
        /\ serving[nodeSessions[n]] \in Looping \cup {"stored", "exiting", "deleting"}

\* Every registered request has a caller that will remove it or be answered,
\* so pendingRequests cannot grow; and an answer taken from the map has a
\* free channel to go to, so the reader never blocks in `ch <- result`.
PendingHasCaller ==
    /\ \A r \in pendingRequests : call[r] \in {"registered", "writing", "waiting"}
    /\ pendingRequests \cap (delivering \cup channel) = {}
    /\ delivering \cap channel = {}

\* The calls implement the abstract interface.  A caller that has loaded a
\* session is already committed to wait.
Pending == {"loaded", "registered", "writing", "waiting"}
outcome == [r \in Reqs |->
              IF call[r] \in Pending THEN "pending" ELSE call[r]]
RC == INSTANCE RemoteCall
ImplementsRemoteCall == RC!RCSpec

\* A caller of SendMsg gets its result once its command is written, and at
\* whatever step it is once the connection of its session is closed.  (A
\* command that a node does not read is the case left out: its caller is
\* still in sendToNode, and the timer has not started.)
EveryCallReturns ==
    \A r \in Reqs :
        (call[r] \in Pending /\ (call[r] = "waiting" \/ Closed(r)))
            ~> call[r] \in Returned

\* Once its connection is down a session leaves the map and does not come
\* back, whichever step of HandleConnection or of the reader its goroutine
\* was at, unless its reader is held by a browser for ever.
DeadSessionsLeave ==
    \A c \in Conns :
        (<>(link[c] = "down") /\ []<>(serving[c] # "informing"))
            => <>[](nodeSessions[NodeOf[c]] # c)

\* ws.go:224 "Only update offline if this is still the current session": the
\* session that an exiting reader takes out of the map is its own.
OfflineOnlyCurrent ==
    [][\A c \in Conns : DeleteSession(c) => nodeSessions[NodeOf[c]] \in {c, NoConn}]_vars
=============================================================================
