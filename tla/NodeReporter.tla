---------------------------- MODULE NodeReporter ----------------------------
(***************************************************************************)
(* The node's side of the WebSocket to the panel                           *)
(* (go-node/x/socket/websocket_reporter.go): the run loop that dials,      *)
(* sends metrics and dials again, and the receiver goroutine that every    *)
(* handleConnection starts.  They share w.conn and w.connected; connMutex  *)
(* guards each access but not what is done between two of them.            *)
(*                                                                         *)
(* A member of Conns stands for a socket and for the receiver started for  *)
(* it; it is used again once both are gone.                                *)
(***************************************************************************)

CONSTANTS Conns, NoConn

ASSUME ReporterAssumption == NoConn \notin Conns

VARIABLES
    run,        \* where the run loop stands
    conn,       \* w.conn
    connected,  \* w.connected
    open,       \* sockets the node has not closed
    lost,       \* sockets whose peer is gone
    receiver,   \* where the receiver started for each connection stands
    reads       \* the connection each receiver reads, or last read

vars == <<run, conn, connected, open, lost, receiver, reads>>

RunStates == {"top", "dialing", "check", "waiting", "looping", "ticked", "closing"}
ReceiverStates == {"none", "looking", "reading", "running", "failed"}

TypeOK ==
    /\ run \in RunStates
    /\ conn \in Conns \cup {NoConn}
    /\ connected \in BOOLEAN
    /\ open \subseteq Conns /\ lost \subseteq open
    /\ receiver \in [Conns -> ReceiverStates]
    /\ reads \in [Conns -> Conns \cup {NoConn}]

Init ==
    /\ run = "top"
    /\ conn = NoConn
    /\ connected = FALSE
    /\ open = {} /\ lost = {}
    /\ receiver = [r \in Conns |-> "none"]
    /\ reads = [r \in Conns |-> NoConn]

\* connect holds connMutex from its first line to its return.
MutexFree == run # "dialing"

\* A goroutine that reads a connection keeps it from being closed for it.
Readers(c) == {r \in Conns : receiver[r] = "reading" /\ reads[r] = c}

Fresh(c) == c \notin open /\ receiver[c] = "none" /\ Readers(c) = {}
-----------------------------------------------------------------------------
(* run and connect *)

\* Mutant: `needConnect := w.conn == nil`.
Top_TrustsConn ==
    /\ run = "top"
    /\ run' = IF conn # NoConn THEN "check" ELSE "dialing"
    /\ UNCHANGED <<conn, connected, open, lost, receiver, reads>>

Top ==
    /\ run = "top"
    /\ run' = IF connected THEN "check" ELSE "dialing"
    /\ UNCHANGED <<conn, connected, open, lost, receiver, reads>>

\* The previous connection is not closed here: handleConnection has done so,
\* if it was entered.
DialSucceeds(c) ==
    /\ run = "dialing"
    /\ Fresh(c)
    /\ run' = "check"
    /\ conn' = c
    /\ connected' = TRUE
    /\ open' = open \cup {c}
    /\ UNCHANGED <<lost, receiver, reads>>

\* Mutant: the error ends the loop.
DialFails_Returns ==
    /\ run = "dialing"
    /\ run' = "returned"
    /\ UNCHANGED <<conn, connected, open, lost, receiver, reads>>

DialFails ==
    /\ run = "dialing"
    /\ run' = "waiting"
    /\ UNCHANGED <<conn, connected, open, lost, receiver, reads>>

\* reconnectTime passes.
Wait ==
    /\ run = "waiting"
    /\ run' = "top"
    /\ UNCHANGED <<conn, connected, open, lost, receiver, reads>>

\* `if w.connected`, read without the mutex.
Check ==
    /\ run = "check"
    /\ IF connected
       THEN /\ run' = "looping"
            /\ receiver' = [receiver EXCEPT ![conn] = "looking"]
       ELSE run' = "waiting" /\ UNCHANGED receiver
    /\ UNCHANGED <<conn, connected, open, lost, reads>>
-----------------------------------------------------------------------------
(* handleConnection *)

Tick ==
    /\ run = "looping"
    /\ run' = IF connected THEN "ticked" ELSE "closing"
    /\ UNCHANGED <<conn, connected, open, lost, receiver, reads>>

\* `w.conn == nil || !w.connected` is looked at before every use.
Usable == conn # NoConn /\ connected

\* A write on a dead connection may fail, or may still succeed.
CanFail == conn \in lost

\* sendSystemInfo: it looks at the flag again.
SendInfo ==
    /\ run = "ticked"
    /\ \/ Usable /\ run' = "looping" /\ UNCHANGED connected
       \/ Usable /\ CanFail /\ run' = "closing" /\ connected' = FALSE
       \/ ~Usable /\ run' = "closing" /\ UNCHANGED connected
    /\ UNCHANGED <<conn, open, lost, receiver, reads>>

\* Mutant: the flag is reset, the connection is left to be overwritten.
Close_KeepsConn ==
    /\ run = "closing"
    /\ run' = "top"
    /\ connected' = FALSE
    /\ UNCHANGED <<conn, open, lost, receiver, reads>>

\* The deferred function.
Close ==
    /\ run = "closing"
    /\ run' = "top"
    /\ open' = open \ {conn}
    /\ lost' = lost \ {conn}
    /\ conn' = NoConn
    /\ connected' = FALSE
    /\ UNCHANGED <<receiver, reads>>
-----------------------------------------------------------------------------
(* receiveMessages *)

\* It takes w.conn as it is by now, the one it was started for or a later one.
Look(r) ==
    /\ receiver[r] = "looking" /\ MutexFree
    /\ IF Usable
       THEN receiver' = [receiver EXCEPT ![r] = "reading"] /\ reads' = [reads EXCEPT ![r] = conn]
       ELSE receiver' = [receiver EXCEPT ![r] = "none"] /\ UNCHANGED reads
    /\ UNCHANGED <<run, conn, connected, open, lost>>

\* handleReceivedMessage runs on the same goroutine.
ReadCommand(r) ==
    /\ receiver[r] = "reading" /\ reads[r] \in open
    /\ receiver' = [receiver EXCEPT ![r] = "running"]
    /\ UNCHANGED <<run, conn, connected, open, lost, reads>>

\* sendResponse: on w.conn, dropped if there is none.
Answer(r) ==
    /\ receiver[r] = "running" /\ MutexFree
    /\ receiver' = [receiver EXCEPT ![r] = "looking"]
    /\ \/ UNCHANGED connected
       \/ Usable /\ CanFail /\ connected' = FALSE
    /\ UNCHANGED <<run, conn, open, lost, reads>>

\* The close handler runs inside ReadMessage, before it returns its error.
CloseFrame(r) ==
    /\ receiver[r] = "reading" /\ reads[r] \in lost /\ MutexFree
    /\ receiver' = [receiver EXCEPT ![r] = "failed"]
    /\ connected' = FALSE
    /\ UNCHANGED <<run, conn, open, lost, reads>>

\* Mutant: no read deadline, only what the node itself closed ends a read.
ReadFails_NoDeadline(r) ==
    /\ receiver[r] = "reading" /\ reads[r] \notin open
    /\ receiver' = [receiver EXCEPT ![r] = "failed"]
    /\ UNCHANGED <<run, conn, connected, open, lost, reads>>

\* The socket was closed or reset, or the read deadline of 30s passed.
ReadFails(r) ==
    /\ receiver[r] = "reading" /\ reads[r] \notin open \ lost
    /\ receiver' = [receiver EXCEPT ![r] = "failed"]
    /\ UNCHANGED <<run, conn, connected, open, lost, reads>>

\* Mutant: the receiver closes the connection it read and leaves the flag to run.
Flag_Closes(r) ==
    /\ receiver[r] = "failed" /\ MutexFree
    /\ receiver' = [receiver EXCEPT ![r] = "none"]
    /\ open' = open \ {reads[r]} /\ lost' = lost \ {reads[r]}
    /\ UNCHANGED <<run, conn, connected, reads>>

\* Mutant: the receiver ends without a word.
Flag_Silent(r) ==
    /\ receiver[r] = "failed" /\ MutexFree
    /\ receiver' = [receiver EXCEPT ![r] = "none"]
    /\ UNCHANGED <<run, conn, connected, open, lost, reads>>

\* Whatever connection the flag stands for by now.
Flag(r) ==
    /\ receiver[r] = "failed" /\ MutexFree
    /\ receiver' = [receiver EXCEPT ![r] = "none"]
    /\ connected' = FALSE
    /\ UNCHANGED <<run, conn, open, lost, reads>>
-----------------------------------------------------------------------------
(* The environment *)

\* The panel or the network is gone, with a close frame, a reset or silence, or
\* so slow that a write deadline passes.
Lose(c) ==
    /\ c \in open \ lost
    /\ lost' = lost \cup {c}
    /\ UNCHANGED <<run, conn, connected, open, receiver, reads>>

\* Nothing refers to the socket any more: its finalizer closes it.
Collect(c) ==
    /\ c \in open \ {conn}
    /\ Readers(c) = {}
    /\ open' = open \ {c}
    /\ lost' = lost \ {c}
    /\ UNCHANGED <<run, conn, connected, receiver, reads>>

RunStep == \/ Top \/ Wait \/ Check \/ Tick \/ SendInfo \/ Close \/ DialFails
           \/ \E c \in Conns : DialSucceeds(c)
Receiver(r) == Look(r) \/ Answer(r) \/ CloseFrame(r) \/ ReadFails(r) \/ Flag(r)

Next == \/ RunStep
        \/ \E r \in Conns : Receiver(r) \/ ReadCommand(r)
        \/ \E c \in Conns : Lose(c) \/ Collect(c)

Spec == Init /\ [][Next]_vars

(***************************************************************************)
(* The two loops and every receiver keep running: Go schedules them, the   *)
(* timers expire, a dial ends within its handshake timeout, a command      *)
(* ends, a waiter gets connMutex (hence SF: connect takes it again and     *)
(* again).  A dead connection has finitely many frames left to read, then  *)
(* its read fails, by the deadline at the latest.                          *)
(***************************************************************************)
Fairness ==
    /\ WF_vars(RunStep)
    /\ \A r \in Conns : SF_vars(Look(r)) /\ SF_vars(Answer(r)) /\ SF_vars(Flag(r))
    /\ \A r \in Conns : SF_vars(ReadFails(r))
    /\ \A c \in Conns : WF_vars(Collect(c))

\* And the panel is there: dialing again and again succeeds in the end.
PanelReachable == SF_vars(\E c \in Conns : DialSucceeds(c))

FairSpec == Spec /\ Fairness /\ PanelReachable
-----------------------------------------------------------------------------
(* Properties *)

\* A goroutine that sends takes w.connected as leave to use w.conn: while the
\* flag is up there is a connection, and the node has not closed it, whatever
\* stale receivers do meanwhile.
ConnectedIsOpen == connected => conn \in open

\* While the loop believes in its connection, the receiver started for that
\* connection is there to notice its loss: it reads it, is about to, or is
\* about to report that it failed.  No connection is kept that nobody watches.
ConnectedIsWatched ==
    connected /\ run \in {"looping", "ticked"} =>
        \/ receiver[conn] \in {"looking", "running", "failed"}
        \/ receiver[conn] = "reading" /\ reads[conn] = conn

\* A socket the node neither closed nor uses was overwritten by connect while
\* a receiver of an older connection had cleared the flag: handleConnection
\* was never entered for it, so it has no receiver of its own, and the loop is
\* not in handleConnection with it.
AbandonedIsUnserved == \A c \in open \ {conn} : receiver[c] = "none"

\* websocket_reporter.go:176 "check the connection state, avoid connecting twice".
\* It holds only under a condition (OneConnectionWhileFlagIsKept).
OneConnection == \A c, d \in open : c = d

\* A connection that has died is given up, even when it died without a word.
LostIsGivenUp == \A c \in Conns : (conn = c /\ c \in lost) ~> conn # c

\* When connections stop dying and the panel answers, the node is back in its
\* loop with a connection again and again.  (Not "for good": a receiver whose
\* connection was closed may clear the flag of the next one, whose closing
\* fails its own receiver in turn, and so on.)
Reconnects ==
    <>[](lost = {}) => []<>(connected /\ run = "looping")
=============================================================================
