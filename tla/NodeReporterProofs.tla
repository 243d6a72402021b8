------------------------- MODULE NodeReporterProofs -------------------------
(***************************************************************************)
(* Theorems about NodeReporter, the connection of a node to the panel, for *)
(* any number of sockets and receivers.                                    *)
(***************************************************************************)
EXTENDS NodeReporter, TLAPS

(***************************************************************************)
(* The reporter.  Its flag is cleared by anyone but raised by connect      *)
(* alone, and connect is entered with the flag down (Dialing).  Between    *)
(* connect and the start of handleConnection nothing serves the new        *)
(* connection (Unserved), and while handleConnection runs its connection   *)
(* is not overwritten (Serving).                                           *)
(***************************************************************************)
InLoop == run \in {"looping", "ticked", "closing"}

Dialing  == run = "dialing" => ~connected
Unserved == ~InLoop /\ conn \in Conns => receiver[conn] = "none"
Serving  == InLoop => conn \in open

ReporterInv ==
    /\ TypeOK
    /\ ConnectedIsOpen
    /\ ConnectedIsWatched
    /\ AbandonedIsUnserved
    /\ Dialing
    /\ Unserved
    /\ Serving

\* The invariant holds of a reporter that was just created.
LEMMA ReporterStarts == Init => ReporterInv
  BY ReporterAssumption
  DEF Init, ReporterInv, TypeOK, ConnectedIsOpen, ConnectedIsWatched, AbandonedIsUnserved,
      Dialing, Unserved, Serving, InLoop, RunStates, ReceiverStates

\* The run loop keeps it: only DialSucceeds, Check and Close touch what it relates.
LEMMA RunKeepsInv == ReporterInv /\ RunStep => ReporterInv'
  <1> SUFFICES ASSUME ReporterInv, RunStep PROVE ReporterInv'
    OBVIOUS
  <1> USE ReporterAssumption
      DEF ReporterInv, TypeOK, ConnectedIsOpen, ConnectedIsWatched, AbandonedIsUnserved,
          Dialing, Unserved, Serving, InLoop, RunStates, ReceiverStates
  <1>1. CASE Top
    BY <1>1 DEF Top
  <1>2. CASE Wait
    BY <1>2 DEF Wait
  <1>3. CASE Check
    <2>1. CASE connected
      BY <1>3, <2>1 DEF Check
    <2>2. CASE ~connected
      BY <1>3, <2>2 DEF Check
    <2>3. QED
      BY <2>1, <2>2
  <1>4. CASE Tick
    BY <1>4 DEF Tick
  <1>5. CASE SendInfo
    BY <1>5 DEF SendInfo, Usable
  <1>6. CASE Close
    BY <1>6 DEF Close
  <1>7. CASE DialFails
    BY <1>7 DEF DialFails
  <1>8. ASSUME NEW c \in Conns, DialSucceeds(c) PROVE ReporterInv'
    BY <1>8 DEF DialSucceeds, Fresh
  <1>9. QED
    BY <1>1, <1>2, <1>3, <1>4, <1>5, <1>6, <1>7, <1>8 DEF RunStep

\* So does a receiver, of whichever connection: it may clear the flag, never raise it.
LEMMA ReceiverKeepsInv ==
    ASSUME NEW r \in Conns, ReporterInv, Receiver(r) \/ ReadCommand(r) PROVE ReporterInv'
  <1> USE ReporterAssumption
      DEF ReporterInv, TypeOK, ConnectedIsOpen, ConnectedIsWatched, AbandonedIsUnserved,
          Dialing, Unserved, Serving, InLoop, RunStates, ReceiverStates
  <1>1. CASE Look(r)
    BY <1>1 DEF Look, Usable
  <1>2. CASE Answer(r)
    <2>1. CASE UNCHANGED connected
      BY <1>2, <2>1 DEF Answer
    <2>2. CASE connected' = FALSE
      BY <1>2, <2>2 DEF Answer
    <2>3. QED
      BY <1>2, <2>1, <2>2 DEF Answer
  <1>3. CASE CloseFrame(r)
    BY <1>3 DEF CloseFrame
  <1>4. CASE ReadFails(r)
    BY <1>4 DEF ReadFails
  <1>5. CASE Flag(r)
    BY <1>5 DEF Flag
  <1>6. CASE ReadCommand(r)
    BY <1>6 DEF ReadCommand
  <1>7. QED
    BY <1>1, <1>2, <1>3, <1>4, <1>5, <1>6 DEF Receiver

\* And so does every step.
LEMMA ReporterKeepsInv == ReporterInv /\ [Next]_vars => ReporterInv'
  <1> SUFFICES ASSUME ReporterInv, [Next]_vars PROVE ReporterInv'
    OBVIOUS
  <1>1. CASE RunStep
    BY <1>1, RunKeepsInv
  <1>2. ASSUME NEW r \in Conns, Receiver(r) \/ ReadCommand(r) PROVE ReporterInv'
    BY <1>2, ReceiverKeepsInv
  <1>3. ASSUME NEW c \in Conns, Lose(c) PROVE ReporterInv'
    BY <1>3 DEF Lose, ReporterInv, TypeOK, ConnectedIsOpen, ConnectedIsWatched,
                AbandonedIsUnserved, Dialing, Unserved, Serving, InLoop
  <1>4. ASSUME NEW c \in Conns, Collect(c) PROVE ReporterInv'
    BY <1>4 DEF Collect, ReporterInv, TypeOK, ConnectedIsOpen, ConnectedIsWatched,
                AbandonedIsUnserved, Dialing, Unserved, Serving, InLoop
  <1>5. CASE UNCHANGED vars
    BY <1>5 DEF vars, ReporterInv, TypeOK, ConnectedIsOpen, ConnectedIsWatched,
                AbandonedIsUnserved, Dialing, Unserved, Serving, InLoop
  <1>6. QED
    BY <1>1, <1>2, <1>3, <1>4, <1>5 DEF Next

\* Every behaviour of the reporter keeps the invariant.
LEMMA ReporterInvariant == Spec => []ReporterInv
  BY ReporterStarts, ReporterKeepsInv, PTL DEF Spec

\* The state of the reporter keeps its type.
THEOREM ReporterTypeCorrect == Spec => []TypeOK
  <1>1. ReporterInv => TypeOK
    BY DEF ReporterInv
  <1>2. QED
    BY <1>1, ReporterInvariant, PTL

\* However many stale receivers clear the flag, a raised flag speaks for a
\* connection the node has not closed.
THEOREM ConnectedOpen == Spec => []ConnectedIsOpen
  <1>1. ReporterInv => ConnectedIsOpen
    BY DEF ReporterInv
  <1>2. QED
    BY <1>1, ReporterInvariant, PTL

\* The loop never sits on a connection whose loss nobody would notice.
THEOREM ConnectedWatched == Spec => []ConnectedIsWatched
  <1>1. ReporterInv => ConnectedIsWatched
    BY DEF ReporterInv
  <1>2. QED
    BY <1>1, ReporterInvariant, PTL

\* A connection that was served is closed before it is replaced: only one that
\* handleConnection never saw can be left open behind w.conn.
THEOREM AbandonedUnserved == Spec => []AbandonedIsUnserved
  <1>1. ReporterInv => AbandonedIsUnserved
    BY DEF ReporterInv
  <1>2. QED
    BY <1>1, ReporterInvariant, PTL

-----------------------------------------------------------------------------
(***************************************************************************)
(* What websocket_reporter.go:176 is worth.  OneConnection fails when a     *)
(* receiver of an older connection clears the flag after connect has       *)
(* raised it and before run looks at it: run then takes the new connection *)
(* for a failed one.  The theorem below says that this is the only way to  *)
(* hold two connections.                                                   *)
(***************************************************************************)

\* A step that does not clear the flag between connect and run's look at it.
FlagIsKept == run = "check" /\ connected => connected'

\* The node has no socket but w.conn; none at all, and the flag down, while run
\* is about to connect; and the flag tells the two apart when run looks at it.
HoldsOne ==
    /\ open \subseteq {conn}
    /\ run \in {"top", "dialing", "waiting"} => open = {} /\ ~connected
    /\ run = "check" => (connected <=> open # {})

LEMMA HoldsOneStep ==
    ReporterInv /\ HoldsOne /\ [Next]_vars /\ [FlagIsKept]_vars => HoldsOne'
  <1> SUFFICES ASSUME ReporterInv, HoldsOne, [Next]_vars, [FlagIsKept]_vars PROVE HoldsOne'
    OBVIOUS
  <1> USE ReporterAssumption DEF HoldsOne
  <1>1. CASE UNCHANGED vars
    BY <1>1 DEF vars
  <1>2. ASSUME NEW c \in Conns, DialSucceeds(c) PROVE HoldsOne'
    BY <1>2 DEF DialSucceeds
  <1>3. CASE Top \/ Wait \/ Check \/ Tick \/ SendInfo \/ Close \/ DialFails
    BY <1>3 DEF Top, Wait, Check, Tick, SendInfo, Close, DialFails, Usable,
                ReporterInv, ConnectedIsOpen
  <1>4. ASSUME NEW r \in Conns, Receiver(r) \/ ReadCommand(r) PROVE HoldsOne'
    <2>1. UNCHANGED <<run, conn, open>> /\ (connected' => connected)
      BY <1>4 DEF Receiver, Look, Answer, CloseFrame, ReadFails, Flag, ReadCommand
    <2>2. run = "check" /\ connected => connected'
      BY <2>1 DEF FlagIsKept, vars
    <2>3. QED
      BY <2>1, <2>2
  <1>5. ASSUME NEW c \in Conns, Lose(c) PROVE HoldsOne'
    BY <1>5 DEF Lose
  <1>6. ASSUME NEW c \in Conns, Collect(c) PROVE HoldsOne'
    BY <1>6 DEF Collect
  <1>7. QED
    BY <1>1, <1>2, <1>3, <1>4, <1>5, <1>6 DEF Next, RunStep

\* A node never has two connections to the panel, as websocket_reporter.go:176
\* intends, as long as no stale receiver clears the flag between connect and
\* run's look at it.
THEOREM OneConnectionWhileFlagIsKept == Spec /\ [][FlagIsKept]_vars => []OneConnection
  <1>1. Init => HoldsOne
    BY DEF Init, HoldsOne
  <1>2. HoldsOne => OneConnection
    BY DEF HoldsOne, OneConnection
  <1>3. QED
    BY <1>1, <1>2, HoldsOneStep, ReporterInvariant, PTL DEF Spec
=============================================================================
