--------------------------- MODULE PanelRpcProofs ---------------------------
(***************************************************************************)
(* Theorems about PanelRpc, the sessions and calls of the panel, for any   *)
(* number of nodes, connections and calls.                                 *)
(***************************************************************************)
EXTENDS PanelRpc, TLAPS

(***************************************************************************)
(* Where a call can be while its command, its answer or neither is under   *)
(* way.  This is what makes the safety properties inductive: an answer is  *)
(* only ever an answer to an executed command, a frame to the node belongs *)
(* to a caller that has sent it, and is in flight on one connection only.  *)
(***************************************************************************)
FrameInv ==
    /\ \A c \in Conns : commands[c] \cap executed = {}
    /\ \A c, d \in Conns : c # d => commands[c] \cap commands[d] = {}
    /\ \A c \in Conns : \A r \in commands[c] : call[r] \in {"waiting", "timeout"}
    /\ \A r \in executed : call[r] \in {"waiting", "reply", "timeout"}

AnswerInv ==
    /\ \A n \in Nodes : answering[n] \subseteq executed
    /\ \A c \in Conns : replies[c] \subseteq executed
    /\ delivering \cup channel \subseteq executed

Inv == TypeOK /\ NoGhostSession /\ PendingHasCaller /\ FrameInv /\ AnswerInv

-----------------------------------------------------------------------------
\* A panel that has just started satisfies the invariant.
LEMMA InitInv == Init => Inv
  BY RpcAssumption DEF Init, Inv, TypeOK, NoGhostSession, PendingHasCaller, FrameInv,
     AnswerInv, ServingStates, CallStates, LinkStates

\* Every step keeps the types.
LEMMA TypeStep == TypeOK /\ [Next]_vars => TypeOK'
<1> SUFFICES ASSUME TypeOK, [Next]_vars
             PROVE  TypeOK'
  OBVIOUS
<1> USE RpcAssumption DEF TypeOK, sessionVars, callVars, frameVars, nodeVars
<1>1. ASSUME NEW c \in Conns, Upgrade(c) \/ Partition(c)
      PROVE  TypeOK'
  <2>1. CASE Upgrade(c)
    <3>1. link' \in [Conns -> LinkStates]
      BY <2>1 DEF Upgrade, LinkStates
    <3>2. serving' \in [Conns -> ServingStates]
      BY <2>1 DEF Upgrade, ServingStates
    <3>3. nodeConn' \in [Nodes -> Conns \cup {NoConn}]
      BY <2>1 DEF Upgrade
    <3>4. QED
      BY <2>1, <3>1, <3>2, <3>3 DEF Upgrade
  <2>2. CASE Partition(c)
    <3>1. link' \in [Conns -> LinkStates]
      BY <2>2 DEF Partition, LinkStates
    <3>2. QED
      BY <2>2, <3>1 DEF Partition
  <2>3. QED
    BY <1>1, <2>1, <2>2
<1>2. ASSUME NEW c \in Conns, Handler(c)
      PROVE  TypeOK'
  <2>1. CASE CloseExisting(c)
    <3>1. link' \in [Conns -> LinkStates]
      BY <2>1 DEF CloseExisting, CloseLink, LinkStates
    <3>2. QED
      BY <2>1, <3>1 DEF CloseExisting, ServingStates
  <2>2. CASE StoreSession(c)
    BY <2>2 DEF StoreSession, ServingStates
  <2>3. CASE GoOnline(c)
    BY <2>3 DEF GoOnline, ServingStates
  <2>4. QED
    BY <1>2, <2>1, <2>2, <2>3 DEF Handler
<1>3. ASSUME NEW c \in Conns, Cleanup(c)
      PROVE  TypeOK'
  BY <1>3 DEF Cleanup, ReadFails, CheckCurrent, DeleteSession, DeleteInfo, GoOffline, ServingStates
<1>4. ASSUME NEW c \in Conns,
             ReadInfo(c) \/ CallNode(c) \/ StoreInfo(c) \/ ReadOther(c) \/ Informed(c)
      PROVE  TypeOK'
  BY <1>4 DEF ReadInfo, CallNode, StoreInfo, ReadOther, Informed, ServingStates
<1>5. ASSUME NEW c \in Conns, NEW r \in Reqs, ReadReply(c, r)
      PROVE  TypeOK'
  BY <1>5 DEF ReadReply
<1>6. ASSUME NEW r \in Reqs, NEW n \in Nodes, LoadSession(r, n)
      PROVE  TypeOK'
  BY <1>6 DEF LoadSession, CallStates, Returned
<1>7. ASSUME NEW r \in Reqs, Caller(r)
      PROVE  TypeOK'
  BY <1>7 DEF Caller, StoreRequest, BeginWrite, WriteCommand, ReceiveAnswer, TimeOut, CallStates, Returned
<1>8. ASSUME NEW r \in Reqs, Deliver(r)
      PROVE  TypeOK'
  BY <1>8 DEF Deliver
<1>9. ASSUME NEW n \in Nodes, NodeDrops(n)
      PROVE  TypeOK'
  BY <1>9 DEF NodeDrops, LinkStates
<1>10. ASSUME NEW n \in Nodes, NEW r \in Reqs, NodeRuns(n, r) \/ NodeAnswers(n, r)
       PROVE  TypeOK'
  BY <1>10 DEF NodeRuns, NodeAnswers
<1>11. CASE UNCHANGED vars
  BY <1>11 DEF vars
<1>12. QED
  BY <1>1, <1>2, <1>3, <1>4, <1>5, <1>6, <1>7, <1>8, <1>9, <1>10, <1>11 DEF Next, Messages, Node

\* Only the steps of HandleConnection and of the deferred function move a
\* session, and each moves the goroutine of the session it handles.
LEMMA GhostStep == TypeOK /\ NoGhostSession /\ [Next]_vars => NoGhostSession'
<1> SUFFICES ASSUME TypeOK, NoGhostSession, [Next]_vars
             PROVE  NoGhostSession'
  OBVIOUS
<1> USE RpcAssumption DEF TypeOK, NoGhostSession, Looping
<1>1. ASSUME NEW c \in Conns, Upgrade(c) \/ CloseExisting(c) \/ StoreSession(c) \/ GoOnline(c)
      PROVE  NoGhostSession'
  BY <1>1 DEF Upgrade, CloseExisting, StoreSession, GoOnline
<1>2. ASSUME NEW c \in Conns, Cleanup(c)
      PROVE  NoGhostSession'
  BY <1>2 DEF Cleanup, ReadFails, CheckCurrent, DeleteSession, DeleteInfo, GoOffline
<1>3. ASSUME NEW c \in Conns,
             ReadInfo(c) \/ CallNode(c) \/ StoreInfo(c) \/ ReadOther(c) \/ Informed(c)
      PROVE  NoGhostSession'
  BY <1>3 DEF ReadInfo, CallNode, StoreInfo, ReadOther, Informed
<1>4. CASE UNCHANGED <<nodeSessions, serving>>
  BY <1>4
<1>5. QED
  BY <1>1, <1>2, <1>3, <1>4 DEF Next, Handler, Messages, Caller, Node, Partition, ReadReply,
     LoadSession, StoreRequest, BeginWrite, WriteCommand, ReceiveAnswer, TimeOut, Deliver,
     NodeDrops, NodeRuns, NodeAnswers, vars, sessionVars

\* The requests in the map, the answers on their way to a channel and the
\* callers, together with the frames that carry commands and answers.
LEMMA CallStep ==
    TypeOK /\ PendingHasCaller /\ FrameInv /\ AnswerInv /\ [Next]_vars
        => PendingHasCaller' /\ FrameInv' /\ AnswerInv'
<1> SUFFICES ASSUME TypeOK, PendingHasCaller, FrameInv, AnswerInv, [Next]_vars
             PROVE  PendingHasCaller' /\ FrameInv' /\ AnswerInv'
  OBVIOUS
<1> USE RpcAssumption DEF TypeOK, PendingHasCaller, FrameInv, AnswerInv
<1>1. ASSUME UNCHANGED <<callVars, frameVars, answering, executed>>
      PROVE  PendingHasCaller' /\ FrameInv' /\ AnswerInv'
  BY <1>1 DEF callVars, frameVars
<1>2. ASSUME NEW c \in Conns, NEW r \in Reqs, ReadReply(c, r)
      PROVE  PendingHasCaller' /\ FrameInv' /\ AnswerInv'
  BY <1>2 DEF ReadReply, nodeVars
<1>3. ASSUME NEW r \in Reqs, Deliver(r)
      PROVE  PendingHasCaller' /\ FrameInv' /\ AnswerInv'
  BY <1>3 DEF Deliver, frameVars, nodeVars
<1>4. ASSUME NEW r \in Reqs, NEW n \in Nodes, LoadSession(r, n)
      PROVE  PendingHasCaller' /\ FrameInv' /\ AnswerInv'
  BY <1>4 DEF LoadSession, frameVars, nodeVars
<1>5. ASSUME NEW r \in Reqs, StoreRequest(r) \/ BeginWrite(r)
      PROVE  PendingHasCaller' /\ FrameInv' /\ AnswerInv'
  BY <1>5 DEF StoreRequest, BeginWrite, frameVars, nodeVars
<1>6. ASSUME NEW r \in Reqs, WriteCommand(r)
      PROVE  PendingHasCaller' /\ FrameInv' /\ AnswerInv'
  BY <1>6 DEF WriteCommand, nodeVars
<1>7. ASSUME NEW r \in Reqs, ReceiveAnswer(r) \/ TimeOut(r)
      PROVE  PendingHasCaller' /\ FrameInv' /\ AnswerInv'
  BY SMTT(30), <1>7 DEF ReceiveAnswer, TimeOut, frameVars, nodeVars
<1>8. ASSUME NEW n \in Nodes, NEW r \in Reqs, NodeRuns(n, r)
      PROVE  PendingHasCaller' /\ FrameInv' /\ AnswerInv'
  BY <1>8 DEF NodeRuns, callVars
<1>9. ASSUME NEW n \in Nodes, NEW r \in Reqs, NodeAnswers(n, r)
      PROVE  PendingHasCaller' /\ FrameInv' /\ AnswerInv'
  BY <1>9 DEF NodeAnswers, callVars
<1>10. QED
  BY <1>1, <1>2, <1>3, <1>4, <1>5, <1>6, <1>7, <1>8, <1>9
     DEF Next, Handler, Messages, Cleanup, Caller, Node, Upgrade, Partition, CloseExisting,
         StoreSession, GoOnline, ReadInfo, CallNode, StoreInfo, ReadOther, Informed, ReadFails,
         CheckCurrent, DeleteSession, DeleteInfo, GoOffline, NodeDrops, vars, nodeVars

\* Every step keeps the invariant.
LEMMA InvStep == Inv /\ [Next]_vars => Inv'
  BY TypeStep, GhostStep, CallStep DEF Inv

\* The invariant holds in every behaviour.
LEMMA Invariant == Spec => []Inv
  BY InitInv, InvStep, PTL DEF Spec

\* The variables of ws.go keep their types whatever the sessions do.
THEOREM TypeCorrect == Spec => []TypeOK
<1>1. Inv => TypeOK
  BY DEF Inv
<1>2. QED
  BY Invariant, <1>1, PTL

\* A registered session always has a goroutine that will unregister it.
THEOREM NoGhostSessions == Spec => []NoGhostSession
<1>1. Inv => NoGhostSession
  BY DEF Inv
<1>2. QED
  BY Invariant, <1>1, PTL

\* pendingRequests holds live callers only, and no delivery ever blocks.
THEOREM PendingRequestsLive == Spec => []PendingHasCaller
<1>1. Inv => PendingHasCaller
  BY DEF Inv
<1>2. QED
  BY Invariant, <1>1, PTL

-----------------------------------------------------------------------------
\* The first state of the panel is one of the abstract calls.
LEMMA RefinesInit == Init => RC!RCInit
  BY DEF Init, RC!RCInit, outcome, Pending

\* A step of a caller is a step of the abstract call or a stutter.
LEMMA RefinesStep == Inv /\ [Next]_vars => [RC!RCNext]_<<outcome, executed>>
<1> SUFFICES ASSUME Inv, [Next]_vars
             PROVE  [RC!RCNext]_<<outcome, executed>>
  OBVIOUS
<1> USE DEF Inv, TypeOK, outcome, Pending, CallStates, Returned
<1>1. ASSUME UNCHANGED <<call, executed>>
      PROVE  UNCHANGED <<outcome, executed>>
  BY <1>1
<1>2. ASSUME NEW r \in Reqs, NEW n \in Nodes, LoadSession(r, n)
      PROVE  RC!Refuse(r) \/ RC!Begin(r)
  <2>1. CASE nodeSessions[n] = NoConn
    BY <1>2, <2>1 DEF LoadSession, nodeVars, RC!Refuse
  <2>2. CASE nodeSessions[n] # NoConn
    BY <1>2, <2>2 DEF LoadSession, nodeVars, RC!Begin
  <2>3. QED
    BY <2>1, <2>2
<1>3. ASSUME NEW r \in Reqs, StoreRequest(r) \/ BeginWrite(r) \/ WriteCommand(r)
      PROVE  UNCHANGED <<outcome, executed>>
  BY <1>3 DEF StoreRequest, BeginWrite, WriteCommand, nodeVars
<1>4. ASSUME NEW r \in Reqs, ReceiveAnswer(r)
      PROVE  RC!Answer(r)
  BY <1>4 DEF ReceiveAnswer, nodeVars, AnswerInv, RC!Answer
<1>5. ASSUME NEW r \in Reqs, TimeOut(r)
      PROVE  RC!GiveUp(r)
  BY <1>5 DEF TimeOut, nodeVars, RC!GiveUp
<1>6. ASSUME NEW n \in Nodes, NEW r \in Reqs, NodeRuns(n, r)
      PROVE  RC!Execute(r)
  <2>1. nodeConn[n] \in Conns /\ r \in commands[nodeConn[n]]
    BY <1>6 DEF NodeRuns
  <2>2. r \notin executed /\ call[r] \in {"waiting", "timeout"}
    BY <2>1 DEF FrameInv
  <2>3. QED
    BY <1>6, <2>2 DEF NodeRuns, callVars, RC!Execute
<1>7. QED
  BY <1>1, <1>2, <1>3, <1>4, <1>5, <1>6
     DEF Next, Handler, Messages, Cleanup, Caller, Node, Upgrade, Partition, CloseExisting,
         StoreSession, GoOnline, ReadInfo, CallNode, StoreInfo, ReadOther, Informed, ReadReply, ReadFails, CheckCurrent, DeleteSession,
         DeleteInfo, GoOffline, Deliver, NodeDrops, NodeAnswers, vars, callVars, nodeVars,
         RC!RCNext

\* SendMsg implements the abstract call: at most one execution, "offline"
\* means never executed, an answer means executed.
THEOREM Refinement == Spec => ImplementsRemoteCall
  BY Invariant, RefinesInit, RefinesStep, PTL DEF Spec, ImplementsRemoteCall, RC!RCSpec, RC!rcVars

-----------------------------------------------------------------------------
(***************************************************************************)
(* What the test of ws.go:226 is worth.  OfflineOnlyCurrent fails (run     *)
(* PanelRpcStaleOffline) when HandleConnection stores a session while the  *)
(* deferred function of another session of the node is past its test and   *)
(* not yet at its deletion: nothing holds a lock between the two.  The     *)
(* theorem below says that this overlap is the only way it can fail.       *)
(***************************************************************************)

\* The deferred function of another session of c's node is between its test
\* and its deletion.
Overtakes(c) == \E d \in Conns : d # c /\ NodeOf[d] = NodeOf[c] /\ serving[d] = "deleting"

\* A step that stores no session in such a window.
StoresInTurn == \A c \in Conns : StoreSession(c) => ~Overtakes(c)

\* What the test has found is still so when the deletion comes.
DeletesOwn ==
    \A c \in Conns : serving[c] = "deleting" => nodeSessions[NodeOf[c]] \in {c, NoConn}

LEMMA DeletesOwnStep ==
    TypeOK /\ DeletesOwn /\ [Next]_vars /\ [StoresInTurn]_vars => DeletesOwn'
<1> SUFFICES ASSUME TypeOK, DeletesOwn, [Next]_vars, [StoresInTurn]_vars
             PROVE  DeletesOwn'
  OBVIOUS
<1> USE RpcAssumption DEF TypeOK, DeletesOwn
<1>1. ASSUME NEW c \in Conns, Upgrade(c) \/ CloseExisting(c) \/ GoOnline(c) \/ Cleanup(c)
      PROVE  DeletesOwn'
  BY <1>1 DEF Upgrade, CloseExisting, GoOnline, Cleanup, ReadFails, CheckCurrent,
     DeleteSession, DeleteInfo, GoOffline
<1>2. ASSUME NEW c \in Conns, StoreSession(c)
      PROVE  DeletesOwn'
  <2>1. serving' # serving
    BY <1>2 DEF StoreSession
  <2>2. ~Overtakes(c)
    BY <1>2, <2>1 DEF StoresInTurn, vars, sessionVars
  <2>3. QED
    BY <1>2, <2>2 DEF StoreSession, Overtakes
<1>3. ASSUME NEW c \in Conns,
             ReadInfo(c) \/ CallNode(c) \/ StoreInfo(c) \/ ReadOther(c) \/ Informed(c)
      PROVE  DeletesOwn'
  BY <1>3 DEF ReadInfo, CallNode, StoreInfo, ReadOther, Informed
<1>4. CASE UNCHANGED <<nodeSessions, serving>>
  BY <1>4
<1>5. QED
  BY <1>1, <1>2, <1>3, <1>4 DEF Next, Handler, Messages, Caller, Node, Partition, ReadReply,
     LoadSession, StoreRequest, BeginWrite, WriteCommand, ReceiveAnswer, TimeOut, Deliver,
     NodeDrops, NodeRuns, NodeAnswers, vars, sessionVars

\* An exiting reader takes only its own session out of the map, as ws.go:224
\* says, as long as no session of its node is stored between its test and its
\* deletion.
THEOREM OfflineOnlyCurrentInTurn == Spec /\ [][StoresInTurn]_vars => OfflineOnlyCurrent
<1>1. Init => DeletesOwn
  BY DEF Init, DeletesOwn
<1>2. DeletesOwn => [\A c \in Conns : DeleteSession(c) => nodeSessions[NodeOf[c]] \in {c, NoConn}]_vars
  BY DEF DeletesOwn, DeleteSession
<1>3. QED
  BY TypeCorrect, <1>1, DeletesOwnStep, <1>2, PTL DEF Spec, OfflineOnlyCurrent
=============================================================================
