----------------------------- MODULE UdpListener ----------------------------
(***************************************************************************)
(* The UDP listener of a service (go-node/x/internal/net/udp): datagrams   *)
(* of one client are one connection, a session.  listenLoop finds or makes *)
(* the session of a datagram, the service accepts it and lets a handler    *)
(* read it, idleCheck closes the sessions nobody reads, and Close closes   *)
(* those in the pool.  connPool is a sync.Map: each access to a key is     *)
(* atomic, two accesses are not.                                           *)
(*                                                                         *)
(* A datagram only counts.  What is left in the queue of a closed session  *)
(* may still be read or not; here it is not.                               *)
(***************************************************************************)
EXTENDS Naturals, Sequences

CONSTANTS Addresses, Sessions, NoSession,
          Keepalive,       \* FALSE: a session ends with its first answer
          Backlog,         \* capacity of cqueue
          ReadQueueSize    \* capacity of the queue of a session

ASSUME UdpAssumption ==
    /\ Addresses # {} /\ NoSession \notin Sessions
    /\ Keepalive \in BOOLEAN
    /\ Backlog \in Nat /\ ReadQueueSize \in Nat

VARIABLES
    connPool,    \* the session of each client
    cqueue,      \* sessions to accept
    phase,       \* a session: "unused", "open" or "closed"
    peer,        \* its client
    rc,          \* datagrams waiting in it
    idle,        \* nobody has read it since idleCheck last saw it
    handled,     \* sessions with a handler
    loop,        \* where listenLoop stands
    check,       \* where idleCheck stands
    shut,        \* the listener, its socket and its pool are closed
    unswept,     \* the keys Close has not come to
    displaced,   \* history: open sessions that idleCheck deleted for another one
    late         \* history: open sessions stored after Close had passed their key

sessionState == <<phase, peer, rc, idle>>
served == <<cqueue, handled>>
closing == <<shut, unswept>>
races == <<displaced, late>>
udpVars == <<connPool, served, sessionState, loop, check, closing, races>>

Open(s) == phase[s] = "open"
Pooled == {c \in Addresses : connPool[c] # NoSession}

LoopPlaces ==
    [at : {"top", "read", "ended"}] \cup [at : {"get"}, from : Addresses]
    \cup [at : {"set", "queue"}, from : Addresses, to : Sessions]
CheckPlaces ==
    [at : {"wait", "ended"}] \cup [at : {"range"}, left : SUBSET Addresses]
    \cup [at : {"delete", "close"}, left : SUBSET Addresses, key : Addresses, found : Sessions]

UdpTypeOK ==
    /\ connPool \in [Addresses -> Sessions \cup {NoSession}]
    /\ cqueue \in Seq(Sessions) /\ Len(cqueue) <= Backlog
    /\ phase \in [Sessions -> {"unused", "open", "closed"}]
    /\ peer \in [Sessions -> Addresses]
    /\ rc \in [Sessions -> 0..ReadQueueSize]
    /\ idle \in [Sessions -> BOOLEAN]
    /\ handled \subseteq Sessions
    /\ loop \in LoopPlaces /\ check \in CheckPlaces
    /\ shut \in BOOLEAN /\ unswept \subseteq Addresses
    /\ displaced \subseteq Sessions /\ late \subseteq Sessions

AnyAddress == CHOOSE c \in Addresses : TRUE

\* NewListener starts both goroutines.
UdpInit ==
    /\ connPool = [c \in Addresses |-> NoSession]
    /\ cqueue = <<>>
    /\ phase = [s \in Sessions |-> "unused"]
    /\ peer = [s \in Sessions |-> AnyAddress]
    /\ rc = [s \in Sessions |-> 0]
    /\ idle = [s \in Sessions |-> FALSE]
    /\ handled = {}
    /\ loop = [at |-> "top"] /\ check = [at |-> "wait"]
    /\ shut = FALSE /\ unswept = {}
    /\ displaced = {} /\ late = {}

\* Once closed a session is lost no longer.
Shut(s) ==
    /\ phase' = [phase EXCEPT ![s] = "closed"]
    /\ displaced' = displaced \ {s} /\ late' = late \ {s}
-----------------------------------------------------------------------------
(* listenLoop *)

NextPacket ==
    /\ loop.at = "top"
    /\ loop' = [at |-> IF shut THEN "ended" ELSE "read"]
    /\ UNCHANGED <<connPool, served, sessionState, check, closing, races>>

Receive(c) ==
    /\ loop.at = "read" /\ ~shut
    /\ loop' = [at |-> "get", from |-> c]
    /\ UNCHANGED <<connPool, served, sessionState, check, closing, races>>

ReadFails ==
    /\ loop.at = "read" /\ shut
    /\ loop' = [at |-> "ended"]
    /\ UNCHANGED <<connPool, served, sessionState, check, closing, races>>

\* getConn: the session of the pool, if it has not been closed.
Known == LET s == connPool[loop.from] IN s # NoSession /\ Open(s)

GetConn ==
    /\ loop.at = "get" /\ Known
    /\ loop' = [at |-> "queue", from |-> loop.from, to |-> connPool[loop.from]]
    /\ UNCHANGED <<connPool, served, sessionState, check, closing, races>>

\* A new one, if there is room for it in cqueue; it is stored afterwards.
NewConn(s) ==
    /\ loop.at = "get" /\ ~Known
    /\ Len(cqueue) < Backlog /\ phase[s] = "unused"
    /\ cqueue' = Append(cqueue, s)
    /\ phase' = [phase EXCEPT ![s] = "open"]
    /\ peer' = [peer EXCEPT ![s] = loop.from]
    /\ loop' = [at |-> "set", from |-> loop.from, to |-> s]
    /\ UNCHANGED <<connPool, rc, idle, handled, check, closing, races>>

Discard ==
    /\ loop.at = "get" /\ ~Known
    /\ Len(cqueue) = Backlog
    /\ loop' = [at |-> "top"]
    /\ UNCHANGED <<connPool, served, sessionState, check, closing, races>>

Swept(c) == shut /\ c \notin unswept

SetConn ==
    /\ loop.at = "set"
    /\ connPool' = [connPool EXCEPT ![loop.from] = loop.to]
    /\ late' = IF Open(loop.to) /\ Swept(loop.from) THEN late \cup {loop.to} ELSE late
    /\ loop' = [at |-> "queue", from |-> loop.from, to |-> loop.to]
    /\ UNCHANGED <<served, sessionState, check, closing, displaced>>

\* WriteQueue: a datagram that finds the queue full is dropped.
WriteQueue ==
    /\ loop.at = "queue"
    /\ rc' = IF Open(loop.to) /\ rc[loop.to] < ReadQueueSize
             THEN [rc EXCEPT ![loop.to] = @ + 1] ELSE rc
    /\ loop' = [at |-> "top"]
    /\ UNCHANGED <<connPool, served, phase, peer, idle, check, closing, races>>

ListenLoop == \/ NextPacket \/ ReadFails \/ GetConn \/ Discard \/ SetConn \/ WriteQueue
              \/ \E s \in Sessions : NewConn(s)
-----------------------------------------------------------------------------
(* The service and its handlers *)

\* It may as well fail, or not be called any more, once the listener is closed or
\* its loop has ended: nothing obliges the service to accept.
Accept ==
    /\ cqueue # <<>>
    /\ cqueue' = Tail(cqueue)
    /\ handled' = handled \cup {Head(cqueue)}
    /\ UNCHANGED <<connPool, sessionState, loop, check, closing, races>>

Read(s) ==
    /\ s \in handled /\ Open(s) /\ rc[s] > 0
    /\ rc' = [rc EXCEPT ![s] = @ - 1]
    /\ idle' = [idle EXCEPT ![s] = FALSE]
    /\ UNCHANGED <<connPool, served, phase, peer, loop, check, closing, races>>

\* WriteTo: an answer does not make a session busy.
Answer(s) ==
    /\ s \in handled /\ Open(s) /\ ~Keepalive
    /\ Shut(s)
    /\ UNCHANGED <<connPool, served, peer, rc, idle, loop, check, closing>>

\* The session was closed, the target hung up, or it could not be reached.
HandlerEnds(s) ==
    /\ s \in handled
    /\ handled' = handled \ {s}
    /\ Shut(s)
    /\ UNCHANGED <<connPool, cqueue, peer, rc, idle, loop, check, closing>>

Handler(s) == Read(s) \/ Answer(s) \/ HandlerEnds(s)
-----------------------------------------------------------------------------
(* idleCheck *)

RangePool ==
    /\ check.at = "wait"
    /\ check' = [at |-> "range", left |-> Pooled]
    /\ UNCHANGED <<connPool, served, sessionState, loop, closing, races>>

\* One step of Range: a session that was idle before is given up.
Visit(c) ==
    /\ check.at = "range" /\ c \in check.left
    /\ LET s == connPool[c] left == check.left \ {c} IN
       IF idle[s]
       THEN /\ check' = [at |-> "delete", left |-> left, key |-> c, found |-> s]
            /\ UNCHANGED idle
       ELSE /\ check' = [at |-> "range", left |-> left]
            /\ idle' = [idle EXCEPT ![s] = TRUE]
    /\ UNCHANGED <<connPool, served, phase, peer, rc, loop, closing, races>>

\* Whatever session the client has by now.
DeleteKey ==
    /\ check.at = "delete"
    /\ LET s == connPool[check.key] IN
       displaced' = IF s \notin {check.found, NoSession} /\ Open(s) THEN displaced \cup {s} ELSE displaced
    /\ connPool' = [connPool EXCEPT ![check.key] = NoSession]
    /\ check' = [at |-> "close", left |-> check.left, key |-> check.key, found |-> check.found]
    /\ UNCHANGED <<served, sessionState, loop, closing, late>>

\* Mutant: the session is only forgotten.
CloseIdle_Forgets ==
    /\ check.at = "close"
    /\ check' = [at |-> "range", left |-> check.left]
    /\ UNCHANGED <<connPool, served, sessionState, loop, closing, races>>

CloseIdle ==
    /\ check.at = "close"
    /\ Shut(check.found)
    /\ check' = [at |-> "range", left |-> check.left]
    /\ UNCHANGED <<connPool, served, peer, rc, idle, loop, closing>>

\* Range has come to its end; a closed pool ends the goroutine at the next turn
\* of its loop.
TurnOver ==
    /\ \/ check.at = "range" /\ check.left = {} /\ check' = [at |-> "wait"]
       \/ check.at = "wait" /\ shut /\ check' = [at |-> "ended"]
    /\ UNCHANGED <<connPool, served, sessionState, loop, closing, races>>

IdleCheck == \/ RangePool \/ DeleteKey \/ CloseIdle \/ TurnOver
             \/ \E c \in Addresses : Visit(c)
-----------------------------------------------------------------------------
(* Close *)

\* ln.closed, the socket and the pool are closed one after the other; nobody can
\* tell, since what the loops do in between they could have done before.
CloseListener ==
    /\ ~shut
    /\ shut' = TRUE
    /\ unswept' = Addresses
    /\ UNCHANGED <<connPool, served, sessionState, loop, check, races>>

\* Range over the sessions of the pool.
Sweep(c) ==
    /\ c \in unswept
    /\ unswept' = unswept \ {c}
    /\ IF connPool[c] = NoSession
       THEN UNCHANGED <<phase, races>>
       ELSE Shut(connPool[c])
    /\ UNCHANGED <<connPool, served, peer, rc, idle, loop, check, shut>>

Closing == \E c \in Addresses : Sweep(c)
-----------------------------------------------------------------------------
\* Nothing refers to a closed session any more: it stands for another one.
Recycle(s) ==
    /\ phase[s] = "closed" /\ s \notin handled
    /\ \A c \in Addresses : connPool[c] # s
    /\ \A i \in DOMAIN cqueue : cqueue[i] # s
    /\ ~(loop.at \in {"set", "queue"} /\ loop.to = s)
    /\ ~(check.at \in {"delete", "close"} /\ check.found = s)
    /\ phase' = [phase EXCEPT ![s] = "unused"]
    /\ peer' = [peer EXCEPT ![s] = AnyAddress]
    /\ rc' = [rc EXCEPT ![s] = 0]
    /\ idle' = [idle EXCEPT ![s] = FALSE]
    /\ UNCHANGED <<connPool, served, loop, check, closing, races>>

UdpNext ==
    \/ ListenLoop \/ IdleCheck \/ Accept \/ CloseListener \/ Closing
    \/ \E c \in Addresses : Receive(c)
    \/ \E s \in Sessions : Handler(s) \/ Recycle(s)

UdpSpec == UdpInit /\ [][UdpNext]_udpVars
-----------------------------------------------------------------------------
(* Properties *)

\* An open session keeps a goroutine blocked in its handler until somebody closes it.
\* Somebody will: idleCheck and Close find it in the pool, or are about to close it,
\* or listenLoop is about to store it.  Two races are all that loses one: it was made
\* between idleCheck's look at the session before and the deletion of the client's
\* key, or stored after Close had passed that key.
SomebodyCloses ==
    \A s \in Sessions : Open(s) =>
        \/ connPool[peer[s]] = s /\ ~Swept(peer[s])
        \/ loop.at = "set" /\ loop.to = s
        \/ check.at = "close" /\ check.found = s
        \/ s \in displaced \cup late
=============================================================================
