------------------------- MODULE ForwardSyncProofs -------------------------
(***************************************************************************)
(* Theorems of ForwardSync, for any nodes, tunnels, requests and faults.   *)
(***************************************************************************)
EXTENDS ForwardSync, FiniteSetTheorems, TLAPS

(* The scripts *)

\* s gives one command of this kind to each piece of X, and no other command.
Covers(s, verb, mode, r, X) ==
    /\ s \in Seq(Commands)
    /\ \A i \in DOMAIN s : /\ s[i].verb = verb /\ s[i].mode = mode /\ s[i].row = r
                           /\ s[i].piece \in X
    /\ \A x \in X : \E i \in DOMAIN s : s[i].piece = x
    /\ \A i, j \in DOMAIN s : s[i].piece = s[j].piece => i = j

\* A command has the parts it was made of.
LEMMA CommandIs ==
    ASSUME NEW verb \in Verbs, NEW mode \in Modes, NEW r \in Rows, NEW x \in Pieces
    PROVE  /\ Command(verb, mode, r, x) \in Commands
           /\ Command(verb, mode, r, x).verb = verb
           /\ Command(verb, mode, r, x).mode = mode
           /\ Command(verb, mode, r, x).row = r
           /\ Command(verb, mode, r, x).piece = x
BY DEF Command, Commands

\* A script sends what it lists, once, to the pieces the forward has.
LEMMA ScriptOfThree ==
    ASSUME NEW verb \in Verbs, NEW mode \in Modes, NEW r \in Rows,
           NEW x \in Pieces, NEW y \in Pieces, NEW z \in Pieces,
           x # y, x # z, y # z, {x, y, z} = Pieces
    PROVE  Covers(Script(verb, mode, r, <<x, y, z>>), verb, mode, r, PiecesOf(r))
<1>1. CASE IsTunnelForward(r)
    <2> DEFINE s == [i \in 1 .. 3 |-> Command(verb, mode, r, <<x, y, z>>[i])]
    <2>1. Script(verb, mode, r, <<x, y, z>>) = s
        BY <1>1 DEF Script
    <2>2. s[1] = Command(verb, mode, r, x) /\ s[2] = Command(verb, mode, r, y)
            /\ s[3] = Command(verb, mode, r, z)
        OBVIOUS
    <2>3. s \in Seq(Commands)
        <3>1. s \in [1 .. 3 -> Commands]
            BY CommandIs
        <3> QED BY <3>1
    <2>4. DOMAIN s = {1, 2, 3}
        OBVIOUS
    <2>5. PiecesOf(r) = {x, y, z}
        BY <1>1 DEF PiecesOf
    <2>6. s[1].piece = x /\ s[2].piece = y /\ s[3].piece = z
        BY <2>2, CommandIs
    <2>7. \A i \in {1, 2, 3} : s[i].verb = verb /\ s[i].mode = mode /\ s[i].row = r
        BY <2>2, CommandIs
    <2> HIDE DEF s
    <2> QED BY <2>1, <2>3, <2>4, <2>5, <2>6, <2>7 DEF Covers
<1>2. CASE ~IsTunnelForward(r)
    <2> DEFINE s == [i \in 1 .. 1 |-> Command(verb, mode, r, <<"main">>[i])]
    <2>1. Script(verb, mode, r, <<x, y, z>>) = s
        BY <1>2 DEF Script
    <2>2. s[1] = Command(verb, mode, r, "main")
        OBVIOUS
    <2>3. s \in Seq(Commands)
        <3>1. s \in [1 .. 1 -> Commands]
            BY CommandIs DEF Pieces
        <3> QED BY <3>1
    <2>4. DOMAIN s = {1}
        OBVIOUS
    <2>5. PiecesOf(r) = {"main"}
        BY <1>2 DEF PiecesOf
    <2>6. s[1].piece = "main" /\ s[1].verb = verb /\ s[1].mode = mode /\ s[1].row = r
        BY <2>2, CommandIs DEF Pieces
    <2> HIDE DEF s
    <2> QED BY <2>1, <2>3, <2>4, <2>5, <2>6 DEF Covers
<1> QED BY <1>1, <1>2

\* The same for the scripts without a chain.
LEMMA ScriptOfTwo ==
    ASSUME NEW verb \in Verbs, NEW mode \in Modes, NEW r \in Rows
    PROVE  Covers(ServiceCalls(verb, r, mode), verb, mode, r, PiecesOf(r) \ {"chain"})
<1>1. CASE IsTunnelForward(r)
    <2> DEFINE s == [i \in 1 .. 2 |-> Command(verb, mode, r, <<"main", "remote">>[i])]
    <2>1. ServiceCalls(verb, r, mode) = s
        BY <1>1 DEF ServiceCalls, Script
    <2>2. s[1] = Command(verb, mode, r, "main") /\ s[2] = Command(verb, mode, r, "remote")
        OBVIOUS
    <2>3. s \in Seq(Commands)
        <3>1. s \in [1 .. 2 -> Commands]
            BY CommandIs DEF Pieces
        <3> QED BY <3>1
    <2>4. DOMAIN s = {1, 2}
        OBVIOUS
    <2>5. PiecesOf(r) \ {"chain"} = {"main", "remote"}
        BY <1>1 DEF PiecesOf, Pieces
    <2>6. s[1].piece = "main" /\ s[2].piece = "remote"
        BY <2>2, CommandIs DEF Pieces
    <2>7. \A i \in {1, 2} : s[i].verb = verb /\ s[i].mode = mode /\ s[i].row = r
        BY <2>2, CommandIs DEF Pieces
    <2> HIDE DEF s
    <2> QED BY <2>1, <2>3, <2>4, <2>5, <2>6, <2>7 DEF Covers
<1>2. CASE ~IsTunnelForward(r)
    <2> DEFINE s == [i \in 1 .. 1 |-> Command(verb, mode, r, <<"main">>[i])]
    <2>1. ServiceCalls(verb, r, mode) = s
        BY <1>2 DEF ServiceCalls, Script
    <2>2. s[1] = Command(verb, mode, r, "main")
        OBVIOUS
    <2>3. s \in Seq(Commands)
        <3>1. s \in [1 .. 1 -> Commands]
            BY CommandIs DEF Pieces
        <3> QED BY <3>1
    <2>4. DOMAIN s = {1}
        OBVIOUS
    <2>5. PiecesOf(r) \ {"chain"} = {"main"}
        BY <1>2 DEF PiecesOf
    <2>6. s[1].piece = "main" /\ s[1].verb = verb /\ s[1].mode = mode /\ s[1].row = r
        BY <2>2, CommandIs DEF Pieces
    <2> HIDE DEF s
    <2> QED BY <2>1, <2>3, <2>4, <2>5, <2>6 DEF Covers
<1> QED BY <1>1, <1>2

\* What each handler sends, and to which pieces.
LEMMA Scripts ==
    ASSUME NEW r \in Rows
    PROVE  /\ Covers(createGostServices(r), "add", "create", r, PiecesOf(r))
           /\ Covers(syncGostServices(r), "update", "upsert", r, PiecesOf(r))
           /\ Covers(gentleSync(r), "add", "gentle", r, PiecesOf(r))
           /\ \A mode \in {"ignore", "absent"} :
                 Covers(deleteGostServices(r, mode), "delete", mode, r, PiecesOf(r))
BY ScriptOfThree DEF createGostServices, syncGostServices, gentleSync, deleteGostServices,
   Verbs, Modes, Pieces

\* The pieces of a forward are pieces, its carrier is one of them and no chain.
LEMMA PiecesAre ==
    ASSUME NEW r \in Rows
    PROVE  /\ PiecesOf(r) \subseteq Pieces /\ Carrier(r) \in PiecesOf(r) \ {"chain"}
           /\ \A x \in PiecesOf(r) : NodeFor(x, r) \in Nodes
           /\ r.tunnel \in Tunnels /\ r.port \in Ports /\ r.target \in Targets
<1>1. r.tunnel \in Tunnels /\ r.port \in Ports /\ r.target \in Targets
    BY DEF Rows
<1>2. InNode[r.tunnel] \in Nodes /\ OutNode[r.tunnel] \in Nodes \cup {NoNode}
    BY <1>1, SyncAssumption
<1> QED BY <1>1, <1>2 DEF PiecesOf, Pieces, Carrier, IsTunnelForward, NodeFor

\* Two commands, one after the other.
LEMMA Joined ==
    ASSUME NEW S, NEW a \in S, NEW b \in S
    PROVE  <<a>> \o <<b>> = <<a, b>>
<1> DEFINE both == [i \in 1 .. 2 |-> IF i <= 1 THEN <<a>>[i] ELSE <<b>>[i - 1]]
<1>1. <<a>> \in Seq(S) /\ <<b>> \in Seq(S) /\ Len(<<a>>) = 1 /\ Len(<<b>>) = 1
    OBVIOUS
<1>2. <<a>> \o <<b>> = both
    BY <1>1
<1>3. <<a, b>> = both
    OBVIOUS
<1> QED BY <1>2, <1>3

\* The pauses of a reconciliation: each service of this node, and no other.
LEMMA PausesAre ==
    ASSUME NEW n \in Nodes, NEW r \in Rows
    PROVE  Covers(PausesOn(n, r), "pause", "ignore", r,
                  {x \in PiecesOf(r) \ {"chain"} : NodeFor(x, r) = n})
<1> DEFINE X == {x \in PiecesOf(r) \ {"chain"} : NodeFor(x, r) = n}
           m == Command("pause", "ignore", r, "main")
           o == Command("pause", "ignore", r, "remote")
<1>1. m \in Commands /\ m.verb = "pause" /\ m.mode = "ignore" /\ m.row = r /\ m.piece = "main"
    BY CommandIs DEF Verbs, Modes, Pieces
<1>2. o \in Commands /\ o.verb = "pause" /\ o.mode = "ignore" /\ o.row = r /\ o.piece = "remote"
    BY CommandIs DEF Verbs, Modes, Pieces
<1>3. "main" \in X <=> InNode[r.tunnel] = n
    BY DEF NodeFor, PiecesOf, Pieces
<1>4. "remote" \in X <=> OutNode[r.tunnel] = n
    BY SyncAssumption DEF NodeFor, PiecesOf, Pieces, IsTunnelForward
<1>5. X \subseteq {"main", "remote"}
    BY DEF PiecesOf, Pieces
<1>6. PausesOn(n, r) =
         (IF "main" \in X THEN <<m>> ELSE <<>>) \o (IF "remote" \in X THEN <<o>> ELSE <<>>)
    BY <1>3, <1>4 DEF PausesOn
<1> HIDE DEF X, m, o
<1>7. CASE "main" \in X /\ "remote" \in X
    <2>1. PausesOn(n, r) = <<m, o>>
        BY <1>1, <1>2, <1>6, <1>7, Joined
    <2>2. <<m, o>> \in Seq(Commands) /\ DOMAIN <<m, o>> = {1, 2}
        BY <1>1, <1>2
    <2>3. Covers(<<m, o>>, "pause", "ignore", r, X)
        BY <2>2, <1>1, <1>2, <1>5, <1>7 DEF Covers
    <2> QED BY <2>1, <2>3 DEF X
<1>8. CASE "main" \in X /\ "remote" \notin X
    <2>1. PausesOn(n, r) = <<m>>
        BY <1>6, <1>8
    <2> QED BY <2>1, <1>1, <1>5, <1>8 DEF Covers, X
<1>9. CASE "main" \notin X /\ "remote" \in X
    <2>1. PausesOn(n, r) = <<o>>
        BY <1>6, <1>9
    <2> QED BY <2>1, <1>2, <1>5, <1>9 DEF Covers, X
<1>10. CASE X = {}
    <2>1. PausesOn(n, r) = <<>>
        BY <1>6, <1>10
    <2> QED BY <2>1, <1>10 DEF Covers, X
<1> QED BY <1>5, <1>7, <1>8, <1>9, <1>10
-----------------------------------------------------------------------------
(* Commands and answers *)

Results == {"ok", "exists", "missing", "failed"}

\* What is registered is a service, and the changes of a service are services.
LEMMA ServicesAre ==
    ASSUME NEW s \in PieceStates, NEW r \in Rows
    PROVE  /\ Registered(s) => s \in Services /\ s # Absent /\ s.state # "lost"
           /\ Running(r) \in Services /\ Running(r) # Absent /\ Registered(Running(r))
           /\ Running(r).state = "running"
           /\ Running(r).port = r.port /\ Running(r).target = r.target
           /\ s \in Services =>
                 /\ Registered(s) <=> s.state # "lost"
                 /\ \A state \in {"running", "paused", "lost"} :
                       /\ In(state, s) \in Services /\ In(state, s).state = state
                       /\ In(state, s).port = s.port /\ In(state, s).target = s.target
                 /\ [s EXCEPT !.target = r.target] \in Services
                 /\ [s EXCEPT !.target = r.target].state = s.state
                 /\ [s EXCEPT !.target = r.target].port = s.port
                 /\ [s EXCEPT !.target = r.target].target = r.target
<1>1. Running(r) \in Services /\ Running(r).state = "running"
        /\ Running(r).port = r.port /\ Running(r).target = r.target
    BY PiecesAre DEF Running, Services
<1>2. Running(r) # Absent
    BY <1>1, AbsentAssumption
<1>3. ASSUME s \in Services, NEW state \in {"running", "paused", "lost"}
      PROVE  /\ In(state, s) \in Services /\ In(state, s).state = state
             /\ In(state, s).port = s.port /\ In(state, s).target = s.target
    BY <1>3 DEF In, Services
<1>4. ASSUME s \in Services
      PROVE  /\ [s EXCEPT !.target = r.target] \in Services
             /\ [s EXCEPT !.target = r.target].state = s.state
             /\ [s EXCEPT !.target = r.target].port = s.port
             /\ [s EXCEPT !.target = r.target].target = r.target
    BY <1>4, PiecesAre DEF Services
<1>5. s \in Services => s # Absent
    BY AbsentAssumption
<1>6. Registered(s) => s \in Services /\ s # Absent /\ s.state # "lost"
    BY DEF Registered, PieceStates
<1>7. s \in Services => (Registered(s) <=> s.state # "lost")
    BY <1>5 DEF Registered
<1>8. Registered(Running(r))
    BY <1>1, <1>2 DEF Registered
<1> QED BY <1>1, <1>2, <1>3, <1>4, <1>6, <1>7, <1>8

LEMMA RunningIs ==
    ASSUME NEW r \in Rows
    PROVE  /\ Running(r) \in Services /\ Registered(Running(r)) /\ Running(r) # Absent
           /\ Running(r).state = "running" /\ Running(r).port = r.port
           /\ Running(r).target = r.target
<1>1. Absent \in PieceStates
    BY DEF PieceStates
<1> QED BY <1>1, ServicesAre

LEMMA RegisteredIs ==
    ASSUME NEW s \in PieceStates, Registered(s)
    PROVE  s \in Services /\ s # Absent
BY DEF Registered, PieceStates

\* Changes of a service that is registered.
LEMMA ChangedIs ==
    ASSUME NEW s \in Services, NEW r \in Rows, NEW state \in {"running", "paused"}
    PROVE  /\ In(state, s) \in Services /\ Registered(In(state, s)) /\ In(state, s) # Absent
           /\ In(state, s).state = state
           /\ In(state, s).port = s.port /\ In(state, s).target = s.target
<1>2. /\ In(state, s) \in Services /\ In(state, s).state = state
      /\ In(state, s).port = s.port /\ In(state, s).target = s.target
    BY DEF In, Services
<1> QED BY <1>2, AbsentAssumption DEF Registered

Retargeted(s, r) == [s EXCEPT !.target = r.target]

LEMMA RetargetedIs ==
    ASSUME NEW s \in Services, NEW r \in Rows, Registered(s)
    PROVE  /\ Retargeted(s, r) \in Services /\ Registered(Retargeted(s, r))
           /\ Retargeted(s, r) # Absent /\ Retargeted(s, r).state = s.state
           /\ Retargeted(s, r).port = s.port /\ Retargeted(s, r).target = r.target
<1>1. s \in PieceStates /\ s.state # "lost"
    BY DEF PieceStates, Registered
<1>2. /\ Retargeted(s, r) \in Services /\ Retargeted(s, r).state = s.state
      /\ Retargeted(s, r).port = s.port /\ Retargeted(s, r).target = r.target
    BY <1>1, ServicesAre DEF Retargeted
<1> QED BY <1>1, <1>2, AbsentAssumption DEF Registered

\* What a node answers to each command, and what it leaves.
LEMMA EffectsAre ==
    ASSUME NEW c \in Commands, NEW s \in PieceStates, NEW e \in Effects(c, s)
    PROVE  /\ e[1] \in Results /\ e[2] \in PieceStates
           /\ e[2] # Absent => s # Absent \/ c.verb = "add"
           /\ c.verb = "add" /\ Registered(s) => e[1] = "exists" /\ e[2] = s
           /\ c.verb = "add" /\ ~Registered(s) /\ e[1] # "failed" =>
                 e[1] = "ok" /\ e[2] = Running(c.row)
           /\ c.verb # "add" /\ ~Registered(s) => e[1] = "missing" /\ e[2] = s
           /\ c.verb # "add" /\ Registered(s) /\ e[1] # "failed" =>
                 /\ e[1] = "ok"
                 /\ c.verb = "update" => e[2] = Running(c.row)
                 /\ c.verb \in {"delete", "purge"} => e[2] = Absent
                 /\ c.verb = "pause" => e[2] = In("paused", s)
                 /\ c.verb = "resume" =>
                       e[2] = IF s.state = "running" THEN s ELSE In("running", s)
                 /\ c.verb = "retarget" => e[2] = Retargeted(s, c.row)
           /\ c.verb \in {"delete", "purge"} => e[2] \in {Absent, s}
<1>1. c.verb \in Verbs /\ c.row \in Rows
    BY DEF Commands
<1>2. Running(c.row) \in PieceStates /\ Absent \in PieceStates
    BY <1>1, ServicesAre DEF PieceStates
<1>3. CASE c.verb = "add"
    <2>1. e \in {<<"exists", s>>, <<"ok", Running(c.row)>>, <<"failed", s>>}
        BY <1>3 DEF Effects, Refusal
    <2>2. Registered(s) => e = <<"exists", s>>
        BY <1>3 DEF Effects
    <2>3. ~Registered(s) => e \in {<<"ok", Running(c.row)>>, <<"failed", s>>}
        BY <1>3 DEF Effects, Refusal
    <2> QED BY <2>1, <2>2, <2>3, <1>2, <1>3 DEF Results
<1>4. CASE c.verb # "add" /\ ~Registered(s)
    <2>1. e = <<"missing", s>>
        BY <1>4 DEF Effects
    <2> QED BY <2>1, <1>4 DEF Results
<1>5. CASE c.verb # "add" /\ Registered(s)
    <2>1. s \in Services /\ s # Absent
        BY <1>5, ServicesAre, <1>1
    <2>2. CASE c.verb = "update"
        <3>1. e \in {<<"ok", Running(c.row)>>, <<"failed", s>>, <<"failed", In("lost", s)>>}
            BY <2>2, <1>5 DEF Effects, Refusal
        <3>2. In("lost", s) \in PieceStates
            BY <2>1, <1>1, ServicesAre DEF PieceStates
        <3> QED BY <3>1, <3>2, <2>1, <2>2, <1>2, <1>5 DEF Results
    <2>3. CASE c.verb \in {"delete", "purge"}
        <3>1. e = <<"ok", Absent>>
            BY <2>3, <1>5 DEF Effects
        <3> QED BY <3>1, <2>3, <1>2, <1>5 DEF Results
    <2>4. CASE c.verb = "pause"
        <3>1. e = <<"ok", In("paused", s)>>
            BY <2>4, <1>5 DEF Effects
        <3>2. In("paused", s) \in PieceStates
            BY <2>1, <1>1, ServicesAre DEF PieceStates
        <3> QED BY <3>1, <3>2, <2>1, <2>4, <1>5 DEF Results
    <2>5. CASE c.verb = "resume"
        <3>1. e \in {<<"ok", IF s.state = "running" THEN s ELSE In("running", s)>>,
                     <<"failed", In("lost", s)>>}
            BY <2>5, <1>5 DEF Effects, Refusal
        <3>2. In("running", s) \in PieceStates /\ In("lost", s) \in PieceStates
            BY <2>1, <1>1, ServicesAre DEF PieceStates
        <3> QED BY <3>1, <3>2, <2>1, <2>5, <1>5 DEF Results
    <2>6. CASE c.verb = "retarget"
        <3>1. e = <<"ok", [s EXCEPT !.target = c.row.target]>>
            BY <2>6, <1>5 DEF Effects
        <3>2. [s EXCEPT !.target = c.row.target] \in PieceStates
            BY <2>1, <1>1, ServicesAre DEF PieceStates
        <3> QED BY <3>1, <3>2, <2>1, <2>6, <1>5 DEF Results, Retargeted
    <2> QED BY <2>2, <2>3, <2>4, <2>5, <2>6, <1>1, <1>5 DEF Verbs
<1> QED BY <1>3, <1>4, <1>5

\* A list of commands is its head and the rest.
LEMMA TodoIs ==
    ASSUME NEW todo \in Seq(Commands), todo # <<>>
    PROVE  /\ Tail(todo) \in Seq(Commands) /\ Head(todo) \in Commands
           /\ 1 \in DOMAIN todo /\ todo[1] = Head(todo)
           /\ \A i \in DOMAIN Tail(todo) :
                 i \in Nat /\ i # 0 /\ i + 1 \in DOMAIN todo /\ Tail(todo)[i] = todo[i + 1]
           /\ \A i \in DOMAIN todo : i = 1 \/ (i - 1 \in DOMAIN Tail(todo))
           /\ DOMAIN todo \subseteq Nat \ {0}
OBVIOUS

LEMMA CommandParts ==
    ASSUME NEW c \in Commands
    PROVE  c.verb \in Verbs /\ c.mode \in Modes /\ c.row \in Rows /\ c.piece \in Pieces
BY DEF Commands

\* What is taken back after a failure.
LEMMA UndoIs ==
    ASSUME NEW c \in Commands
    PROVE  /\ Undo(c) \in Seq(Commands)
           /\ \A i \in DOMAIN Undo(c) : /\ Undo(c)[i].verb = "delete"
                                        /\ Undo(c)[i].mode = "ignore"
                                        /\ Undo(c)[i].row = c.row
<1> DEFINE a == Command("delete", "ignore", c.row, "chain")
           b == Command("delete", "ignore", c.row, "remote")
<1>1. a \in Commands /\ a.verb = "delete" /\ a.mode = "ignore" /\ a.row = c.row
    BY CommandIs, CommandParts DEF Verbs, Modes, Pieces
<1>2. b \in Commands /\ b.verb = "delete" /\ b.mode = "ignore" /\ b.row = c.row
    BY CommandIs, CommandParts DEF Verbs, Modes, Pieces
<1>3. Undo(c) = <<a>> \o <<>> \/ Undo(c) = <<a>> \o <<b>>
    BY DEF Undo
<1> HIDE DEF a, b
<1>4. <<a>> \o <<>> = <<a>> /\ <<a>> \o <<b>> = <<a, b>>
    BY <1>1, <1>2, Joined
<1>5. CASE Undo(c) = <<a>>
    BY <1>1, <1>5
<1>6. CASE Undo(c) = <<a, b>>
    <2>1. <<a, b>> \in Seq(Commands) /\ DOMAIN <<a, b>> = {1, 2}
        BY <1>1, <1>2
    <2> QED BY <2>1, <1>1, <1>2, <1>6
<1> QED BY <1>3, <1>4, <1>5, <1>6

\* What a handler does with an answer: it goes on, retries, takes back or stops.
LEMMA AnswersAre ==
    ASSUME NEW d \in ProcStates, d.todo # <<>>, NEW res \in Results
    PROVE  LET c    == Head(d.todo)
               rest == Tail(d.todo)
               a    == Answered(d, res)
           IN  /\ a \in ProcStates /\ a.op = d.op /\ a.row = d.row /\ a.names = d.names
               /\ a.ok => d.ok
               /\ res # "failed" /\ c.mode = "ignore" => a.ok = d.ok /\ a.todo = rest
               /\ res = "ok" /\ c.mode # "hot" => a.ok = d.ok /\ a.todo = rest
               /\ res = "ok" /\ c.mode = "hot" => a.ok = d.ok /\ a.todo = <<>>
               /\ res = "missing" /\ c.mode = "absent" => a.ok = d.ok /\ a.todo = rest
               /\ res = "exists" /\ c.mode = "gentle" /\ c.piece # Carrier(c.row) =>
                     a.ok = d.ok /\ a.todo = rest
               /\ res = "exists" /\ c.mode = "gentle" /\ c.piece = Carrier(c.row) =>
                     /\ a.ok = d.ok
                     /\ a.todo = <<Command("retarget", "must", c.row, c.piece)>> \o rest
               /\ \A i \in DOMAIN a.todo :
                     \/ \E j \in DOMAIN d.todo : a.todo[i] = d.todo[j]
                     \/ /\ a.todo[i].row = c.row /\ a.todo[i].piece = c.piece
                        /\ a.todo[i].verb \in {"add", "retarget"}
                        /\ c.mode \in {"upsert", "gentle"}
                     \/ /\ a.todo[i].verb = "delete" /\ a.todo[i].mode = "ignore"
                        /\ a.todo[i].row = c.row
<1> DEFINE c    == Head(d.todo)
           rest == Tail(d.todo)
           a    == Answered(d, res)
           x    == Command("add", "must", c.row, c.piece)
           y    == Command("retarget", "must", c.row, c.piece)
           Goal ==
               /\ a \in ProcStates /\ a.op = d.op /\ a.row = d.row /\ a.names = d.names
               /\ a.ok => d.ok
               /\ res # "failed" /\ c.mode = "ignore" => a.ok = d.ok /\ a.todo = rest
               /\ res = "ok" /\ c.mode # "hot" => a.ok = d.ok /\ a.todo = rest
               /\ res = "ok" /\ c.mode = "hot" => a.ok = d.ok /\ a.todo = <<>>
               /\ res = "missing" /\ c.mode = "absent" => a.ok = d.ok /\ a.todo = rest
               /\ res = "exists" /\ c.mode = "gentle" /\ c.piece # Carrier(c.row) =>
                     a.ok = d.ok /\ a.todo = rest
               /\ res = "exists" /\ c.mode = "gentle" /\ c.piece = Carrier(c.row) =>
                     a.ok = d.ok /\ a.todo = <<y>> \o rest
               /\ \A i \in DOMAIN a.todo :
                     \/ \E j \in DOMAIN d.todo : a.todo[i] = d.todo[j]
                     \/ /\ a.todo[i].row = c.row /\ a.todo[i].piece = c.piece
                        /\ a.todo[i].verb \in {"add", "retarget"}
                        /\ c.mode \in {"upsert", "gentle"}
                     \/ /\ a.todo[i].verb = "delete" /\ a.todo[i].mode = "ignore"
                        /\ a.todo[i].row = c.row
<1>1. d.todo \in Seq(Commands) /\ d.ok \in BOOLEAN
    BY DEF ProcStates
<1>2. c \in Commands /\ rest \in Seq(Commands) /\ c = d.todo[1] /\ 1 \in DOMAIN d.todo
        /\ \A i \in DOMAIN rest : \E j \in DOMAIN d.todo : rest[i] = d.todo[j]
    BY <1>1, TodoIs
<1>3. x \in Commands /\ x.row = c.row /\ x.piece = c.piece /\ x.verb = "add"
    BY <1>2, CommandParts, CommandIs DEF Verbs, Modes
<1>4. y \in Commands /\ y.row = c.row /\ y.piece = c.piece /\ y.verb = "retarget"
    BY <1>2, CommandParts, CommandIs DEF Verbs, Modes
<1>5. /\ <<x>> \o rest \in Seq(Commands) /\ <<y>> \o rest \in Seq(Commands)
      /\ \A i \in DOMAIN (<<x>> \o rest) :
            \/ (<<x>> \o rest)[i] = x
            \/ \E j \in DOMAIN rest : (<<x>> \o rest)[i] = rest[j]
      /\ \A i \in DOMAIN (<<y>> \o rest) :
            \/ (<<y>> \o rest)[i] = y
            \/ \E j \in DOMAIN rest : (<<y>> \o rest)[i] = rest[j]
    BY <1>2, <1>3, <1>4
<1>6. Undo(c) \in Seq(Commands)
        /\ \A i \in DOMAIN Undo(c) : /\ Undo(c)[i].verb = "delete" /\ Undo(c)[i].mode = "ignore"
                                     /\ Undo(c)[i].row = c.row
    BY <1>2, UndoIs
<1> DEFINE Kept(t) == /\ a \in ProcStates /\ a.op = d.op /\ a.row = d.row /\ a.names = d.names
                      /\ a.todo = t
<1>7. \A t \in Seq(Commands) :
         /\ a = [d EXCEPT !.todo = t] => Kept(t) /\ a.ok = d.ok
         /\ a = [d EXCEPT !.ok = FALSE, !.todo = t] => Kept(t) /\ a.ok = FALSE
    <2> SUFFICES ASSUME NEW t \in Seq(Commands)
                 PROVE  /\ a = [d EXCEPT !.todo = t] => Kept(t) /\ a.ok = d.ok
                        /\ a = [d EXCEPT !.ok = FALSE, !.todo = t] => Kept(t) /\ a.ok = FALSE
        OBVIOUS
    <2> HIDE DEF a
    <2> QED BY DEF ProcStates
<1>8. <<>> \in Seq(Commands) /\ DOMAIN <<>> = {}
    OBVIOUS
<1>9. c.mode \in Modes
    BY <1>2, CommandParts
<1> SUFFICES Goal
    OBVIOUS
<1> HIDE DEF Goal, Kept
<1>10. ASSUME Kept(rest), a.ok = d.ok, c.mode = "hot" => res # "ok",
              ~(res = "exists" /\ c.mode = "gentle" /\ c.piece = Carrier(c.row))
       PROVE  Goal
    <2> HIDE DEF a, c, rest, x, y
    <2> QED BY <1>10, <1>2 DEF Goal, Kept
<1>11. CASE c.mode = "hot"
    <2>1. a = [d EXCEPT !.todo = IF res = "ok" THEN <<>> ELSE rest]
        BY <1>11 DEF Answered
    <2>2. CASE res = "ok"
        <3>1. a = [d EXCEPT !.todo = <<>>]
            BY <2>1, <2>2
        <3> HIDE DEF a, c, rest, x, y
        <3>2. Kept(<<>>) /\ a.ok = d.ok
            BY <3>1, <1>7, <1>8
        <3> QED BY <3>2, <2>2, <1>8, <1>11 DEF Goal, Kept
    <2>3. CASE res # "ok"
        <3>1. a = [d EXCEPT !.todo = rest]
            BY <2>1, <2>3
        <3> HIDE DEF a, c, rest, x, y
        <3> QED BY <3>1, <2>3, <1>2, <1>7, <1>10, <1>11
    <2> QED BY <2>2, <2>3
<1>12. CASE c.mode # "hot" /\ Tolerated(c, res)
    <2>1. a = [d EXCEPT !.todo = rest]
        BY <1>12 DEF Answered
    <2>2. ~(res = "exists" /\ c.mode = "gentle" /\ c.piece = Carrier(c.row))
        BY <1>12 DEF Tolerated
    <2> HIDE DEF a, c, rest, x, y
    <2> QED BY <2>1, <2>2, <1>2, <1>7, <1>10, <1>12
<1>13. CASE c.mode # "hot" /\ ~Tolerated(c, res)
    <2>1. /\ res # "ok" /\ c.mode # "ignore"
          /\ ~(c.mode = "absent" /\ res = "missing")
          /\ ~(c.mode = "gentle" /\ res = "exists" /\ c.piece # Carrier(c.row))
        BY <1>13 DEF Tolerated
    <2>2. CASE c.mode = "upsert" /\ res = "missing"
        <3>1. Retry(c, res) = <<x>> /\ <<x>> # <<>>
            BY <2>2 DEF Retry
        <3>2. a = [d EXCEPT !.todo = <<x>> \o rest]
            BY <3>1, <1>13 DEF Answered
        <3> HIDE DEF a, c, rest, x, y
        <3>3. Kept(<<x>> \o rest) /\ a.ok = d.ok
            BY <3>2, <1>5, <1>7
        <3>4. a.todo = <<x>> \o rest /\ a.ok = d.ok
            BY <3>3 DEF Kept
        <3>5. \A i \in DOMAIN a.todo :
                 \/ \E j \in DOMAIN d.todo : a.todo[i] = d.todo[j]
                 \/ /\ a.todo[i].row = c.row /\ a.todo[i].piece = c.piece
                    /\ a.todo[i].verb \in {"add", "retarget"}
                    /\ c.mode \in {"upsert", "gentle"}
            <4>1. \A i \in DOMAIN a.todo :
                     a.todo[i] = x \/ \E j \in DOMAIN rest : a.todo[i] = rest[j]
                BY <3>4, <1>5
            <4> QED BY <4>1, <2>2, <1>2, <1>3
        <3> QED BY <3>3, <3>5, <2>1, <2>2 DEF Goal, Kept
    <2>3. CASE c.mode = "gentle" /\ res = "exists"
        <3>1. Retry(c, res) = <<y>> /\ <<y>> # <<>>
            BY <2>3 DEF Retry
        <3>2. a = [d EXCEPT !.todo = <<y>> \o rest]
            BY <3>1, <1>13 DEF Answered
        <3> HIDE DEF a, c, rest, x, y
        <3>3. Kept(<<y>> \o rest) /\ a.ok = d.ok
            BY <3>2, <1>5, <1>7
        <3> QED BY <3>3, <2>1, <2>3, <1>2, <1>4, <1>5 DEF Goal, Kept
    <2>4. CASE ~(c.mode = "upsert" /\ res = "missing") /\ ~(c.mode = "gentle" /\ res = "exists")
        <3>1. Retry(c, res) = <<>>
            BY <2>4 DEF Retry
        <3>2. a = [d EXCEPT !.ok = FALSE, !.todo = IF c.mode = "create" THEN Undo(c) ELSE <<>>]
            BY <3>1, <1>13 DEF Answered
        <3>3. CASE c.mode = "create"
            <4>1. a = [d EXCEPT !.ok = FALSE, !.todo = Undo(c)]
                BY <3>2, <3>3
            <4> HIDE DEF a, c, rest, x, y
            <4>2. Kept(Undo(c)) /\ a.ok = FALSE
                BY <4>1, <1>6, <1>7
            <4> QED BY <4>2, <2>1, <2>4, <3>3, <1>6 DEF Goal, Kept
        <3>4. CASE c.mode # "create"
            <4>1. a = [d EXCEPT !.ok = FALSE, !.todo = <<>>]
                BY <3>2, <3>4
            <4> HIDE DEF a, c, rest, x, y
            <4>2. Kept(<<>>) /\ a.ok = FALSE
                BY <4>1, <1>7, <1>8
            <4> QED BY <4>2, <2>1, <2>4, <1>8, <1>13 DEF Goal, Kept
        <3> QED BY <3>3, <3>4
    <2> QED BY <2>2, <2>3, <2>4
<1> QED BY <1>11, <1>12, <1>13
-----------------------------------------------------------------------------
(* Types *)

RequestOps == {"create", "move", "update", "pause", "quota", "resume", "delete"}
ReconcileOps == {"sync", "pauses", "query", "purge", "end"}

\* Whoever is busy has a row, and does what is its own to do.
Jobs ==
    /\ \A p \in Procs : proc[p] = Idle \/ proc[p].row \in Rows
    /\ \A p \in Requests : proc[p].op \in RequestOps \cup {"idle"}
    /\ \A n \in Locked : proc[n].op \in ReconcileOps \cup {"idle"}

\* The bound on late commands needs their set to be finite.
SyncTypeInv == TypeOK /\ IsFiniteSet(late) /\ Jobs

LEMMA CommandLists ==
    ASSUME NEW r \in Rows
    PROVE  /\ createGostServices(r) \in Seq(Commands)
           /\ syncGostServices(r) \in Seq(Commands)
           /\ gentleSync(r) \in Seq(Commands)
           /\ \A mode \in {"ignore", "absent"} : deleteGostServices(r, mode) \in Seq(Commands)
           /\ \A verb \in {"pause", "resume"}, mode \in {"must", "ignore"} :
                 ServiceCalls(verb, r, mode) \in Seq(Commands)
           /\ hotUpdate(r) \in Seq(Commands)
           /\ \A n \in Nodes : PausesOn(n, r) \in Seq(Commands)
<1>1. createGostServices(r) \in Seq(Commands) /\ syncGostServices(r) \in Seq(Commands)
        /\ gentleSync(r) \in Seq(Commands)
        /\ \A mode \in {"ignore", "absent"} : deleteGostServices(r, mode) \in Seq(Commands)
    BY Scripts DEF Covers
<1>2. ASSUME NEW verb \in {"pause", "resume"}, NEW mode \in {"must", "ignore"}
      PROVE  ServiceCalls(verb, r, mode) \in Seq(Commands)
    <2>1. verb \in Verbs /\ mode \in Modes
        BY DEF Verbs, Modes
    <2> QED BY <2>1, ScriptOfTwo DEF Covers
<1>3. Command("retarget", "hot", r, Carrier(r)) \in Commands
    BY CommandIs, PiecesAre DEF Verbs, Modes
<1>4. hotUpdate(r) \in Seq(Commands)
    BY <1>1, <1>3 DEF hotUpdate
<1>5. \A n \in Nodes : PausesOn(n, r) \in Seq(Commands)
    BY PausesAre DEF Covers
<1> QED BY <1>1, <1>2, <1>4, <1>5

LEMMA NotesType ==
    ASSUME TypeOK, NEW p \in Procs, Notes(p)
    PROVE  disturbed' \subseteq Locked /\ smooth' \in BOOLEAN
BY DEF TypeOK, Notes, Procs

LEMMA FaultType ==
    ASSUME TypeOK, Fault
    PROVE  disturbed' \subseteq Locked /\ smooth' \in BOOLEAN
BY DEF TypeOK, Fault

LEMMA ProcIs ==
    ASSUME TypeOK, NEW p \in Procs
    PROVE  /\ proc[p] \in ProcStates /\ proc[p].op \in Ops /\ proc[p].todo \in Seq(Commands)
           /\ proc[p].ok \in BOOLEAN /\ proc[p].row \in Rows \cup {Absent}
           /\ proc[p].names \in SUBSET Pieces
BY DEF TypeOK, ProcStates

LEMMA StartIs ==
    ASSUME TypeOK, NEW p \in Procs, NEW op \in Ops, NEW todo \in Seq(Commands),
           NEW r \in Rows, Start(p, op, todo, r)
    PROVE  /\ proc' \in [Procs -> ProcStates] /\ proc[p].op = "idle"
           /\ \A q \in Procs : q # p => proc'[q] = proc[q]
           /\ proc'[p].op = op /\ proc'[p].todo = todo /\ proc'[p].ok = TRUE
           /\ proc'[p].row = r /\ proc'[p].names = {}
           /\ piece' = piece /\ online' = online /\ late' = late /\ Notes(p)
<1> DEFINE d == Working(op, todo, r)
<1>1. proc' = [proc EXCEPT ![p] = d]
    BY DEF Start
<1>2. d \in ProcStates
    BY DEF ProcStates, Working
<1>4. d.op = op /\ d.todo = todo /\ d.ok = TRUE /\ d.row = r /\ d.names = {}
    BY DEF Working
<1> HIDE DEF d
<1>5. proc' \in [Procs -> ProcStates] /\ proc'[p] = d
        /\ \A q \in Procs : q # p => proc'[q] = proc[q]
    BY <1>1, <1>2 DEF TypeOK
<1> QED BY <1>4, <1>5 DEF Start, Busy

LEMMA InitType == Init => SyncTypeInv
<1> SUFFICES ASSUME Init PROVE SyncTypeInv
    OBVIOUS
<1>1. Idle \in ProcStates
    BY DEF Idle, Working, ProcStates, Ops
<1>2. IsFiniteSet(late) /\ Cardinality(late) = 0
    BY FS_EmptySet DEF Init
<1>3. late \in SUBSET [at : Nodes, cmd : Commands] /\ Cardinality(late) <= MaxLate
    BY <1>2, SyncAssumption DEF Init
<1>4. piece \in [Nodes -> [Pieces -> PieceStates]]
    BY DEF Init, PieceStates
<1>5. proc \in [Procs -> ProcStates]
    BY <1>1 DEF Init
<1>6. Jobs
    <2>1. \A p \in Procs : proc[p] = Idle
        BY DEF Init
    <2>2. Idle.op = "idle"
        BY DEF Idle, Working
    <2> QED BY <2>1, <2>2 DEF Jobs, Procs
<1> QED BY <1>2, <1>3, <1>4, <1>5, <1>6 DEF Init, SyncTypeInv, TypeOK
-----------------------------------------------------------------------------
(* What each action does *)

\* How a request begins: what it will write, and what it will send.
Begins(op, todo, r) ==
    \/ /\ op = "create" /\ row.status = "unborn" /\ row' = r
       /\ r.status = "active" /\ todo = createGostServices(r)
    \/ /\ Exists(row) /\ row' = row
       /\ \/ /\ op = "move" /\ r.status = "active"
             /\ todo = deleteGostServices(row, "ignore") \o createGostServices(r)
          \/ /\ op = "update" /\ r.status = "active" /\ r.tunnel = row.tunnel
             /\ \/ todo = syncGostServices(r)
                \/ todo = hotUpdate(r) /\ r.port = row.port
                \/ todo = <<>> /\ r.port = row.port /\ r.target = row.target
          \/ /\ op \in {"pause", "quota"} /\ r = row
             /\ \E mode \in {"must", "ignore"} : todo = ServiceCalls("pause", row, mode)
          \/ /\ op = "resume" /\ r = row
             /\ todo = ServiceCalls("resume", row, "must")
          \/ /\ op = "delete" /\ r = row
             /\ \/ \E mode \in {"ignore", "absent"} : todo = deleteGostServices(row, mode)
                \/ todo = <<>> /\ ~AllOnline(row)

LEMMA NewRow ==
    ASSUME NEW t \in Tunnels, NEW o \in Ports, NEW g \in Targets
    PROVE  LET r == [status |-> "active", tunnel |-> t, port |-> o, target |-> g]
           IN  /\ r \in Rows /\ r.status = "active" /\ r.tunnel = t
               /\ r.port = o /\ r.target = g
BY DEF Rows

LEMMA RequestBegins ==
    ASSUME TypeOK, NEW p \in Requests, Request(p), ~Finish(p)
    PROVE  \E op \in RequestOps, todo \in Seq(Commands), r \in Rows :
              Start(p, op, todo, r) /\ Begins(op, todo, r) /\ row' \in Rows
<1>1. row \in Rows
    BY DEF TypeOK
<1>2. /\ \A mode \in {"ignore", "absent"} : deleteGostServices(row, mode) \in Seq(Commands)
      /\ \A verb \in {"pause", "resume"}, mode \in {"must", "ignore"} :
            ServiceCalls(verb, row, mode) \in Seq(Commands)
    BY <1>1, CommandLists
<1>3. <<>> \in Seq(Commands)
    OBVIOUS
<1>4. CASE CreateForward(p)
    <2>1. row.status = "unborn"
        BY <1>4 DEF CreateForward
    <2>2. PICK t \in Tunnels, o \in Ports, g \in Targets :
             LET r == [status |-> "active", tunnel |-> t, port |-> o, target |-> g]
             IN  Start(p, "create", createGostServices(r), r) /\ row' = r
        BY <1>4 DEF CreateForward
    <2> DEFINE r == [status |-> "active", tunnel |-> t, port |-> o, target |-> g]
    <2>3. r \in Rows /\ r.status = "active"
        BY NewRow
    <2>4. Start(p, "create", createGostServices(r), r) /\ row' = r
        BY <2>2
    <2> HIDE DEF r
    <2>5. createGostServices(r) \in Seq(Commands)
        BY <2>3, CommandLists
    <2>6. Begins("create", createGostServices(r), r)
        BY <2>1, <2>3, <2>4 DEF Begins
    <2> QED BY <2>3, <2>4, <2>5, <2>6 DEF RequestOps
<1>5. CASE UpdateForward(p)
    <2>1. Exists(row) /\ row' = row
        BY <1>5 DEF UpdateForward
    <2>2. PICK t \in Tunnels, o \in Ports, g \in Targets, listen \in BOOLEAN :
             LET r == [status |-> "active", tunnel |-> t, port |-> o, target |-> g]
             IN  \/ Start(p, "move", deleteGostServices(row, "ignore") \o createGostServices(r), r)
                 \/ t = row.tunnel /\ Start(p, "update", syncGostServices(r), r)
                 \/ /\ t = row.tunnel /\ o = row.port
                    /\ Start(p, "update", hotUpdate(r), r)
                 \/ /\ t = row.tunnel /\ o = row.port /\ g = row.target
                    /\ Start(p, "update", <<>>, r)
        BY <1>5 DEF UpdateForward
    <2> DEFINE r == [status |-> "active", tunnel |-> t, port |-> o, target |-> g]
    <2>3. r \in Rows /\ r.status = "active" /\ r.tunnel = t /\ r.port = o /\ r.target = g
        BY NewRow
    <2>4. \/ Start(p, "move", deleteGostServices(row, "ignore") \o createGostServices(r), r)
          \/ t = row.tunnel /\ Start(p, "update", syncGostServices(r), r)
          \/ t = row.tunnel /\ o = row.port /\ Start(p, "update", hotUpdate(r), r)
          \/ /\ t = row.tunnel /\ o = row.port /\ g = row.target
             /\ Start(p, "update", <<>>, r)
        BY <2>2
    <2> HIDE DEF r
    <2>5. /\ createGostServices(r) \in Seq(Commands) /\ syncGostServices(r) \in Seq(Commands)
          /\ hotUpdate(r) \in Seq(Commands)
        BY <2>3, CommandLists
    <2>6. deleteGostServices(row, "ignore") \o createGostServices(r) \in Seq(Commands)
        BY <2>5, <1>2
    <2>7. CASE Start(p, "move", deleteGostServices(row, "ignore") \o createGostServices(r), r)
        <3>1. Begins("move", deleteGostServices(row, "ignore") \o createGostServices(r), r)
            BY <2>1, <2>3 DEF Begins
        <3> QED BY <3>1, <2>1, <2>3, <2>6, <2>7, <1>1 DEF RequestOps
    <2>8. CASE t = row.tunnel /\ Start(p, "update", syncGostServices(r), r)
        <3>1. Begins("update", syncGostServices(r), r)
            BY <2>1, <2>3, <2>8 DEF Begins
        <3> QED BY <3>1, <2>1, <2>3, <2>5, <2>8, <1>1 DEF RequestOps
    <2>9. CASE t = row.tunnel /\ o = row.port /\ Start(p, "update", hotUpdate(r), r)
        <3>1. Begins("update", hotUpdate(r), r)
            BY <2>1, <2>3, <2>9 DEF Begins
        <3> QED BY <3>1, <2>1, <2>3, <2>5, <2>9, <1>1 DEF RequestOps
    <2>10. CASE /\ t = row.tunnel /\ o = row.port /\ g = row.target
                /\ Start(p, "update", <<>>, r)
        <3>1. Begins("update", <<>>, r)
            BY <2>1, <2>3, <2>10 DEF Begins
        <3> QED BY <3>1, <2>1, <2>3, <2>10, <1>1, <1>3 DEF RequestOps
    <2> QED BY <2>4, <2>7, <2>8, <2>9, <2>10
<1>6. CASE PauseForward(p)
    <2>1. Start(p, "pause", ServiceCalls("pause", row, "must"), row) /\ Exists(row) /\ row' = row
        BY <1>6 DEF PauseForward
    <2>2. Begins("pause", ServiceCalls("pause", row, "must"), row)
        BY <2>1 DEF Begins
    <2> QED BY <2>1, <2>2, <1>1, <1>2 DEF RequestOps
<1>7. CASE QuotaPause(p)
    <2>1. Start(p, "quota", ServiceCalls("pause", row, "ignore"), row) /\ Exists(row) /\ row' = row
        BY <1>7 DEF QuotaPause
    <2>2. Begins("quota", ServiceCalls("pause", row, "ignore"), row)
        BY <2>1 DEF Begins
    <2> QED BY <2>1, <2>2, <1>1, <1>2 DEF RequestOps
<1>8. CASE ResumeForward(p)
    <2>1. Start(p, "resume", ServiceCalls("resume", row, "must"), row) /\ Exists(row) /\ row' = row
        BY <1>8 DEF ResumeForward
    <2>2. Begins("resume", ServiceCalls("resume", row, "must"), row)
        BY <2>1 DEF Begins
    <2> QED BY <2>1, <2>2, <1>1, <1>2 DEF RequestOps
<1>9. CASE DeleteForward(p)
    <2>1. Exists(row) /\ row' = row
        BY <1>9 DEF DeleteForward
    <2>2. \/ Start(p, "delete", deleteGostServices(row, "absent"), row)
          \/ ~AllOnline(row) /\ Start(p, "delete", <<>>, row)
        BY <1>9 DEF DeleteForward
    <2>3. Begins("delete", deleteGostServices(row, "absent"), row)
        BY <2>1 DEF Begins
    <2>4. ~AllOnline(row) => Begins("delete", <<>>, row)
        BY <2>1 DEF Begins
    <2> QED BY <2>1, <2>2, <2>3, <2>4, <1>1, <1>2, <1>3 DEF RequestOps
<1>10. CASE ForceDeleteForward(p)
    <2>1. Start(p, "delete", deleteGostServices(row, "ignore"), row) /\ Exists(row) /\ row' = row
        BY <1>10 DEF ForceDeleteForward
    <2>2. Begins("delete", deleteGostServices(row, "ignore"), row)
        BY <2>1 DEF Begins
    <2> QED BY <2>1, <2>2, <1>1, <1>2 DEF RequestOps
<1> QED BY <1>4, <1>5, <1>6, <1>7, <1>8, <1>9, <1>10 DEF Request

\* The goroutine p goes on as d, and the others stay.
Goes(p, d) == proc' = [proc EXCEPT ![p] = d]

LEMMA GoesIs ==
    ASSUME TypeOK, NEW p \in Procs, NEW d \in ProcStates, Goes(p, d)
    PROVE  /\ proc' \in [Procs -> ProcStates] /\ proc'[p] = d
           /\ \A q \in Procs : q # p => proc'[q] = proc[q]
BY DEF TypeOK, Goes

LEMMA IdleIs ==
    /\ Idle \in ProcStates /\ Idle.op = "idle" /\ Idle.todo = <<>> /\ Idle.ok = TRUE
    /\ Idle.row = Absent /\ Idle.names = {}
BY DEF Idle, Working, ProcStates, Ops

LEMMA WrittenIs ==
    ASSUME TypeOK, NEW p \in ProcStates, p.row \in Rows, p.op \in RequestOps
    PROVE  /\ Written(p) \in Rows
           /\ \/ Written(p).tunnel = row.tunnel
              \/ p.op \in {"move", "update"} /\ Written(p).tunnel = p.row.tunnel
           /\ Exists(row) => Written(p).status # "unborn" \/ Written(p) = p.row
           /\ p.ok /\ p.op \in {"move", "update"} => Written(p) = p.row
           /\ p.ok /\ p.op \in {"pause", "quota"} => Written(p) = [row EXCEPT !.status = "paused"]
           /\ p.ok /\ p.op = "resume" => Written(p) = [row EXCEPT !.status = "active"]
           /\ p.ok /\ p.op = "delete" => Written(p) = [row EXCEPT !.status = "deleted"]
           /\ p.ok /\ p.op = "create" => Written(p) = row
<1>1. row \in Rows
    BY DEF TypeOK
<1>2. \A status \in {"active", "paused", "error", "deleted"} :
         /\ [row EXCEPT !.status = status] \in Rows
         /\ [row EXCEPT !.status = status].status = status
         /\ [row EXCEPT !.status = status].tunnel = row.tunnel
    BY <1>1 DEF Rows
<1>3. /\ [p.row EXCEPT !.status = "error", !.target = row.target] \in Rows
      /\ [p.row EXCEPT !.status = "error", !.target = row.target].status = "error"
      /\ [p.row EXCEPT !.status = "error", !.target = row.target].tunnel = p.row.tunnel
    BY <1>1 DEF Rows
<1>4. Exists(row) => row.status # "unborn"
    BY DEF Exists
<1>5. CASE p.op = "create"
    BY <1>1, <1>2, <1>4, <1>5 DEF Written
<1>6. CASE p.op = "move"
    <2>1. Written(p) = IF p.ok THEN p.row
                       ELSE [p.row EXCEPT !.status = "error", !.target = row.target]
        BY <1>6 DEF Written
    <2>2. CASE p.ok
        BY <2>1, <2>2, <1>6
    <2>3. CASE ~p.ok
        BY <2>1, <2>3, <1>3, <1>6
    <2> QED BY <2>2, <2>3
<1>7. CASE p.op = "update"
    BY <1>1, <1>2, <1>4, <1>7 DEF Written
<1>8. CASE p.op \in {"pause", "quota"}
    BY <1>1, <1>2, <1>4, <1>8 DEF Written
<1>9. CASE p.op = "resume"
    BY <1>1, <1>2, <1>4, <1>9 DEF Written
<1>10. CASE p.op = "delete"
    BY <1>1, <1>2, <1>4, <1>10 DEF Written
<1> QED BY <1>5, <1>6, <1>7, <1>8, <1>9, <1>10 DEF RequestOps

\* A handler ends with its UPDATE of the row.
LEMMA FinishIs ==
    ASSUME SyncTypeInv, NEW p \in Requests, Finish(p)
    PROVE  /\ proc' \in [Procs -> ProcStates] /\ proc'[p] = Idle
           /\ \A q \in Procs : q # p => proc'[q] = proc[q]
           /\ proc[p].op \in RequestOps /\ proc[p].row \in Rows /\ proc[p].todo = <<>>
           /\ row' = (IF Exists(row) THEN Written(proc[p]) ELSE row) /\ row' \in Rows
           /\ piece' = piece /\ online' = online /\ late' = late /\ Notes(p)
<1>1. p \in Procs /\ TypeOK /\ Jobs
    BY DEF Procs, SyncTypeInv
<1>2. Goes(p, Idle) /\ proc[p].op # "idle" /\ proc[p].todo = <<>>
        /\ row' = (IF Exists(row) THEN Written(proc[p]) ELSE row)
        /\ piece' = piece /\ online' = online /\ late' = late /\ Notes(p)
    BY DEF Finish, Goes, Busy
<1>3. proc[p].op \in RequestOps /\ proc[p].row \in Rows
    BY <1>1, <1>2, IdleIs DEF Jobs
<1>4. row' \in Rows
    BY <1>1, <1>2, <1>3, ProcIs, WrittenIs DEF TypeOK
<1> QED BY <1>1, <1>2, <1>3, <1>4, GoesIs, IdleIs

\* ReconcileNode reads the row.
LEMMA ReconcileIs ==
    ASSUME SyncTypeInv, NEW n \in Locked, Reconcile(n)
    PROVE  /\ proc' \in [Procs -> ProcStates] /\ proc[n].op = "idle"
           /\ \A q \in Procs : q # n => proc'[q] = proc[q]
           /\ proc'[n].op = "sync" /\ proc'[n].ok = TRUE /\ proc'[n].row = row
           /\ proc'[n].names = {}
           /\ proc'[n].todo = IF Exists(row) /\ Involves(n, row) THEN gentleSync(row) ELSE <<>>
           /\ row' = row /\ piece' = piece /\ online' = online /\ late' = late
           /\ disturbed' = (disturbed \ {n}) \cup {m \in Locked \ {n} : Busy(m)}
                              \cup (IF \E q \in Procs : Busy(q) THEN {n} ELSE {})
           /\ smooth' = (smooth /\ \A q \in Procs : ~Busy(q))
<1> DEFINE todo == IF Exists(row) /\ Involves(n, row) THEN gentleSync(row) ELSE <<>>
           d == Working("sync", todo, row)
<1>1. n \in Procs /\ TypeOK /\ row \in Rows
    BY DEF Procs, SyncTypeInv, TypeOK
<1>2. todo \in Seq(Commands)
    BY <1>1, CommandLists
<1>3. Goes(n, d)
    BY DEF Reconcile, Goes
<1> HIDE DEF todo
<1>4. d \in ProcStates /\ d.op = "sync" /\ d.ok = TRUE /\ d.row = row /\ d.names = {}
        /\ d.todo = todo
    BY <1>1, <1>2 DEF Working, ProcStates, Ops
<1> HIDE DEF d
<1>5. /\ proc' \in [Procs -> ProcStates] /\ proc'[n] = d
      /\ \A q \in Procs : q # n => proc'[q] = proc[q]
    BY <1>1, <1>3, <1>4, GoesIs
<1> QED BY <1>4, <1>5 DEF Reconcile, Busy, todo

\* The row that the status of the reconciliation leads to.
Settled(n, d) ==
    IF d.ok /\ d.row.status = "error" /\ Exists(row) /\ Involves(n, d.row)
    THEN [row EXCEPT !.status = "active"] ELSE row

LEMMA SettleIs ==
    ASSUME SyncTypeInv, NEW n \in Locked, Settle(n)
    PROVE  /\ proc' \in [Procs -> ProcStates] /\ proc[n].op = "sync" /\ proc[n].todo = <<>>
           /\ \A q \in Procs : q # n => proc'[q] = proc[q]
           /\ proc[n].row \in Rows
           /\ proc'[n].op = "pauses" /\ proc'[n].ok = proc[n].ok /\ proc'[n].row = proc[n].row
           /\ proc'[n].names = proc[n].names
           /\ proc'[n].todo = (IF proc[n].row.status = "paused" /\ Involves(n, proc[n].row)
                               THEN PausesOn(n, proc[n].row) ELSE <<>>)
           /\ row' = Settled(n, proc[n]) /\ row' \in Rows /\ row'.tunnel = row.tunnel
           /\ Exists(row') <=> Exists(row)
           /\ row'.status = "unborn" <=> row.status = "unborn"
           /\ row'.status = "deleted" <=> row.status = "deleted"
           /\ row'.port = row.port /\ row'.target = row.target
           /\ piece' = piece /\ online' = online /\ late' = late /\ Notes(n)
<1> DEFINE todo == IF proc[n].row.status = "paused" /\ Involves(n, proc[n].row)
                   THEN PausesOn(n, proc[n].row) ELSE <<>>
           d == [proc[n] EXCEPT !.op = "pauses", !.todo = todo]
<1>1. n \in Procs /\ n \in Nodes /\ TypeOK /\ row \in Rows /\ Jobs
    BY SyncAssumption DEF Procs, SyncTypeInv, TypeOK
<1>2. proc[n].op = "sync" /\ proc[n].todo = <<>> /\ Goes(n, d)
        /\ piece' = piece /\ online' = online /\ late' = late /\ Notes(n)
        /\ row' = Settled(n, proc[n])
    BY DEF Settle, Goes, Settled
<1>3. proc[n].row \in Rows
    BY <1>1, <1>2, IdleIs DEF Jobs
<1>4. todo \in Seq(Commands)
    BY <1>1, <1>3, CommandLists
<1>5. proc[n] \in ProcStates
    BY <1>1, ProcIs
<1> HIDE DEF todo
<1>6. /\ d \in ProcStates /\ d.op = "pauses" /\ d.ok = proc[n].ok /\ d.row = proc[n].row
      /\ d.names = proc[n].names /\ d.todo = todo
    BY <1>4, <1>5 DEF ProcStates, Ops
<1> HIDE DEF d
<1>7. /\ proc' \in [Procs -> ProcStates] /\ proc'[n] = d
      /\ \A q \in Procs : q # n => proc'[q] = proc[q]
    BY <1>1, <1>2, <1>6, GoesIs
<1>8. /\ [row EXCEPT !.status = "active"] \in Rows
      /\ [row EXCEPT !.status = "active"].status = "active"
      /\ [row EXCEPT !.status = "active"].tunnel = row.tunnel
      /\ [row EXCEPT !.status = "active"].port = row.port
      /\ [row EXCEPT !.status = "active"].target = row.target
    BY <1>1 DEF Rows
<1>9. /\ row' \in Rows /\ row'.tunnel = row.tunnel /\ (Exists(row') <=> Exists(row))
      /\ row'.status = "unborn" <=> row.status = "unborn"
      /\ row'.status = "deleted" <=> row.status = "deleted"
      /\ row'.port = row.port /\ row'.target = row.target
    BY <1>1, <1>2, <1>8 DEF Settled, Exists
<1> QED BY <1>2, <1>3, <1>6, <1>7, <1>9 DEF todo

\* The goroutine p takes another of its steps, with new names or the old ones.
LEMMA MovesOn ==
    ASSUME SyncTypeInv, NEW n \in Locked, NEW op \in Ops,
           Goes(n, [proc[n] EXCEPT !.op = op])
    PROVE  /\ proc' \in [Procs -> ProcStates]
           /\ \A q \in Procs : q # n => proc'[q] = proc[q]
           /\ proc'[n].op = op /\ proc'[n].todo = proc[n].todo /\ proc'[n].ok = proc[n].ok
           /\ proc'[n].row = proc[n].row /\ proc'[n].names = proc[n].names
<1> DEFINE d == [proc[n] EXCEPT !.op = op]
<1>1. n \in Procs /\ TypeOK /\ proc[n] \in ProcStates
    BY ProcIs DEF Procs, SyncTypeInv
<1>2. /\ d \in ProcStates /\ d.op = op /\ d.todo = proc[n].todo /\ d.ok = proc[n].ok
      /\ d.row = proc[n].row /\ d.names = proc[n].names
    BY <1>1 DEF ProcStates
<1>3. Goes(n, d)
    OBVIOUS
<1> HIDE DEF d
<1> QED BY <1>1, <1>2, <1>3, GoesIs

\* The names arrive, or the cleanup is given up.
LEMMA NamesIs ==
    ASSUME SyncTypeInv, NEW n \in Locked, Names(n)
    PROVE  /\ proc' \in [Procs -> ProcStates] /\ proc[n].op = "pauses" /\ proc[n].todo = <<>>
           /\ \A q \in Procs : q # n => proc'[q] = proc[q]
           /\ proc'[n].todo = <<>> /\ proc'[n].ok = proc[n].ok /\ proc'[n].row = proc[n].row
           /\ \/ proc'[n].op = "query" /\ proc'[n].names = ServicesOn(n) /\ Notes(n)
              \/ /\ proc'[n].op = "end" /\ proc'[n].names = proc[n].names
                 /\ disturbed' = disturbed \cup {m \in Locked : Busy(m)} /\ smooth' = FALSE
           /\ UNCHANGED <<row, piece, online, late>>
<1>1. n \in Procs /\ TypeOK /\ proc[n] \in ProcStates
    BY ProcIs DEF Procs, SyncTypeInv
<1>2. proc[n].op = "pauses" /\ proc[n].todo = <<>> /\ UNCHANGED <<row, piece, online, late>>
    BY DEF Names
<1>3. CASE Goes(n, [proc[n] EXCEPT !.op = "query", !.names = ServicesOn(n)]) /\ Notes(n)
    <2> DEFINE names == ServicesOn(n)
               d == [proc[n] EXCEPT !.op = "query", !.names = names]
    <2>1. names \in SUBSET Pieces
        BY DEF ServicesOn, Pieces
    <2>2. Goes(n, d)
        BY <1>3
    <2> HIDE DEF names
    <2>3. /\ d \in ProcStates /\ d.op = "query" /\ d.todo = proc[n].todo /\ d.ok = proc[n].ok
          /\ d.row = proc[n].row /\ d.names = names
        BY <1>1, <2>1 DEF ProcStates, Ops
    <2> HIDE DEF d
    <2>4. /\ proc' \in [Procs -> ProcStates] /\ proc'[n] = d
          /\ \A q \in Procs : q # n => proc'[q] = proc[q]
        BY <1>1, <2>2, <2>3, GoesIs
    <2> QED BY <1>2, <1>3, <2>3, <2>4 DEF names
<1>4. CASE /\ Goes(n, [proc[n] EXCEPT !.op = "end"]) /\ smooth' = FALSE
           /\ disturbed' = disturbed \cup {m \in Locked : Busy(m)}
    <2>1. "end" \in Ops
        BY DEF Ops
    <2> QED BY <1>2, <1>4, <2>1, MovesOn
<1>5. proc \in [Procs -> ProcStates]
    BY <1>1 DEF TypeOK
<1>6. \/ proc' = [proc EXCEPT ![n] = [@ EXCEPT !.op = "query", !.names = ServicesOn(n)]] /\ Notes(n)
      \/ /\ proc' = [proc EXCEPT ![n].op = "end"] /\ smooth' = FALSE
         /\ disturbed' = disturbed \cup {m \in Locked : Busy(m)}
    BY DEF Names
<1>7. [proc EXCEPT ![n].op = "end"] = [proc EXCEPT ![n] = [proc[n] EXCEPT !.op = "end"]]
    BY <1>1, <1>5
<1> QED BY <1>1, <1>3, <1>4, <1>5, <1>6, <1>7 DEF Goes

\* The database is asked whether a row is behind the names.
LEMMA QueryIs ==
    ASSUME SyncTypeInv, NEW n \in Locked, Query(n)
    PROVE  /\ proc' \in [Procs -> ProcStates] /\ proc[n].op = "query"
           /\ \A q \in Procs : q # n => proc'[q] = proc[q]
           /\ proc'[n].todo = proc[n].todo /\ proc'[n].ok = proc[n].ok
           /\ proc'[n].row = proc[n].row /\ proc'[n].names = proc[n].names
           /\ proc'[n].op = IF ~(Exists(row) /\ Involves(n, row)) /\ proc[n].names # {}
                            THEN "purge" ELSE "end"
           /\ UNCHANGED <<row, piece, online, late>> /\ Notes(n)
<1> DEFINE op == IF ~(Exists(row) /\ Involves(n, row)) /\ proc[n].names # {}
                 THEN "purge" ELSE "end"
<1>1. n \in Procs /\ TypeOK /\ proc[n] \in ProcStates /\ proc \in [Procs -> ProcStates]
    BY ProcIs DEF Procs, SyncTypeInv, TypeOK
<1>2. op \in Ops
    BY DEF Ops
<1>3. proc' = [proc EXCEPT ![n].op = op]
    BY DEF Query
<1> HIDE DEF op
<1>4. Goes(n, [proc[n] EXCEPT !.op = op])
    BY <1>1, <1>3 DEF Goes
<1>5. /\ proc' \in [Procs -> ProcStates]
      /\ \A q \in Procs : q # n => proc'[q] = proc[q]
      /\ proc'[n].todo = proc[n].todo /\ proc'[n].ok = proc[n].ok
      /\ proc'[n].row = proc[n].row /\ proc'[n].names = proc[n].names
      /\ proc'[n].op = op
    BY <1>2, <1>4, MovesOn
<1> QED BY <1>5 DEF Query, op

\* What is left on a node by a purge of these names.
Purged(n, names) ==
    [piece EXCEPT ![n] = [x \in Pieces |->
           IF x \in names /\ names \subseteq ServicesOn(n) THEN Absent ELSE piece[n][x]]]

LEMMA EndIs ==
    ASSUME SyncTypeInv, NEW n \in Locked, proc' = [proc EXCEPT ![n].op = "end"]
    PROVE  /\ proc' \in [Procs -> ProcStates]
           /\ \A q \in Procs : q # n => proc'[q] = proc[q]
           /\ proc'[n].todo = proc[n].todo /\ proc'[n].ok = proc[n].ok
           /\ proc'[n].row = proc[n].row /\ proc'[n].names = proc[n].names
           /\ proc'[n].op = "end"
<1>1. n \in Procs /\ TypeOK /\ proc[n] \in ProcStates /\ proc \in [Procs -> ProcStates]
    BY ProcIs DEF Procs, SyncTypeInv, TypeOK
<1>2. Goes(n, [proc[n] EXCEPT !.op = "end"])
    BY <1>1 DEF Goes
<1>3. "end" \in Ops
    BY DEF Ops
<1> QED BY <1>2, <1>3, MovesOn

LEMMA PurgeIs ==
    ASSUME SyncTypeInv, NEW n \in Locked, Purge(n)
    PROVE  /\ proc[n].op = "purge" /\ proc' = [proc EXCEPT ![n].op = "end"]
           /\ piece' \in [Nodes -> [Pieces -> PieceStates]]
           /\ \A m \in Nodes, x \in Pieces :
                 piece'[m][x] = IF m = n /\ x \in proc[n].names
                                   /\ proc[n].names \subseteq ServicesOn(n)
                                THEN Absent ELSE piece[m][x]
           /\ UNCHANGED <<row, online, late>> /\ Notes(n)
<1>1. n \in Nodes /\ piece \in [Nodes -> [Pieces -> PieceStates]]
    BY SyncAssumption DEF SyncTypeInv, TypeOK
<1>2. piece' = Purged(n, proc[n].names)
    BY <1>1 DEF Purge, Purged
<1>3. [x \in Pieces |->
           IF x \in proc[n].names /\ proc[n].names \subseteq ServicesOn(n)
           THEN Absent ELSE piece[n][x]] \in [Pieces -> PieceStates]
    BY <1>1 DEF PieceStates
<1> QED BY <1>1, <1>2, <1>3 DEF Purge, Purged

LEMMA UnlockIs ==
    ASSUME SyncTypeInv, NEW n \in Locked, Unlock(n)
    PROVE  /\ proc' \in [Procs -> ProcStates] /\ proc[n].op = "end" /\ proc'[n] = Idle
           /\ \A q \in Procs : q # n => proc'[q] = proc[q]
           /\ disturbed' = disturbed \ {n} /\ UNCHANGED <<row, piece, online, late, smooth>>
<1>1. n \in Procs /\ TypeOK
    BY DEF Procs, SyncTypeInv
<1>2. Goes(n, Idle)
    BY DEF Unlock, Goes
<1> QED BY <1>1, <1>2, GoesIs, IdleIs DEF Unlock

\* The piece x of the node n becomes s, and the others stay.
Leaves(n, x, s) == piece' = [piece EXCEPT ![n][x] = s]

LEMMA LeavesIs ==
    ASSUME TypeOK, NEW n \in Nodes, NEW x \in Pieces, NEW s \in PieceStates, Leaves(n, x, s)
    PROVE  /\ piece' \in [Nodes -> [Pieces -> PieceStates]]
           /\ \A m \in Nodes, y \in Pieces :
                 piece'[m][y] = IF m = n /\ y = x THEN s ELSE piece[m][y]
BY DEF TypeOK, Leaves

LEMMA PieceIs ==
    ASSUME TypeOK, NEW n \in Nodes, NEW x \in Pieces
    PROVE  piece[n][x] \in PieceStates
BY DEF TypeOK

\* One command: where it goes.
Sent(p) == Head(proc[p].todo)
At(p) == NodeFor(Sent(p).piece, Sent(p).row)

LEMMA AnsweredProc ==
    ASSUME SyncTypeInv, NEW p \in Procs, proc[p].todo # <<>>, NEW res \in Results,
           Goes(p, Answered(proc[p], res))
    PROVE  /\ Sent(p) \in Commands
           /\ proc' \in [Procs -> ProcStates]
           /\ \A q \in Procs : q # p => proc'[q] = proc[q]
           /\ proc'[p] = Answered(proc[p], res)
           /\ proc'[p].op = proc[p].op /\ proc'[p].row = proc[p].row
           /\ proc'[p].names = proc[p].names
<1>1. TypeOK /\ proc[p] \in ProcStates /\ proc[p].todo \in Seq(Commands)
    BY ProcIs DEF SyncTypeInv
<1>2. Answered(proc[p], res) \in ProcStates
        /\ Answered(proc[p], res).op = proc[p].op
        /\ Answered(proc[p], res).row = proc[p].row
        /\ Answered(proc[p], res).names = proc[p].names
    BY <1>1, AnswersAre
<1> QED BY <1>1, <1>2, GoesIs, TodoIs DEF Sent

LEMMA CallIs ==
    ASSUME SyncTypeInv, NEW p \in Procs, Call(p)
    PROVE  /\ proc[p].todo # <<>> /\ Sent(p) \in Commands /\ At(p) \in Nodes
           /\ proc' \in [Procs -> ProcStates]
           /\ \A q \in Procs : q # p => proc'[q] = proc[q]
           /\ proc'[p].op = proc[p].op /\ proc'[p].row = proc[p].row
           /\ proc'[p].names = proc[p].names
           /\ \E e \in Effects(Sent(p), piece[At(p)][Sent(p).piece]) :
                 /\ e[1] \in Results /\ e[2] \in PieceStates
                 /\ Leaves(At(p), Sent(p).piece, e[2])
                 /\ proc'[p] = Answered(proc[p], e[1])
                 /\ IF e[1] = "failed" THEN Fault ELSE Notes(p)
           /\ UNCHANGED <<row, online, late>>
<1>1. TypeOK /\ proc[p] \in ProcStates /\ proc[p].todo \in Seq(Commands)
    BY ProcIs DEF SyncTypeInv
<1>2. proc[p].todo # <<>> /\ At(p) \in online /\ UNCHANGED <<row, online, late>>
    BY DEF Call, At, Sent
<1>3. PICK e \in Effects(Sent(p), piece[At(p)][Sent(p).piece]) :
         /\ Leaves(At(p), Sent(p).piece, e[2])
         /\ proc' = [proc EXCEPT ![p] = Answered(@, e[1])]
         /\ IF e[1] = "failed" THEN Fault ELSE Notes(p)
    BY DEF Call, At, Sent, Leaves
<1>4. Sent(p) \in Commands
    BY <1>1, <1>2, TodoIs DEF Sent
<1>5. At(p) \in Nodes
    BY <1>1, <1>2 DEF TypeOK
<1>6. piece[At(p)][Sent(p).piece] \in PieceStates
    BY <1>1, <1>4, <1>5, PieceIs, CommandParts
<1>7. e[1] \in Results /\ e[2] \in PieceStates
    BY <1>4, <1>6, EffectsAre
<1>8. Goes(p, Answered(proc[p], e[1]))
    BY <1>1, <1>3 DEF Goes, TypeOK
<1>9. /\ proc' \in [Procs -> ProcStates]
      /\ \A q \in Procs : q # p => proc'[q] = proc[q]
      /\ proc'[p] = Answered(proc[p], e[1])
      /\ proc'[p].op = proc[p].op /\ proc'[p].row = proc[p].row
      /\ proc'[p].names = proc[p].names
    BY <1>2, <1>7, <1>8, AnsweredProc
<1> QED BY <1>2, <1>3, <1>4, <1>5, <1>7, <1>9

LEMMA CallFailsIs ==
    ASSUME SyncTypeInv, NEW p \in Procs, CallFails(p)
    PROVE  /\ proc[p].todo # <<>> /\ Sent(p) \in Commands
           /\ proc' \in [Procs -> ProcStates]
           /\ \A q \in Procs : q # p => proc'[q] = proc[q]
           /\ proc'[p].op = proc[p].op /\ proc'[p].row = proc[p].row
           /\ proc'[p].names = proc[p].names
           /\ proc'[p] = Answered(proc[p], "failed")
           /\ \/ UNCHANGED <<piece, late>>
              \/ /\ At(p) \in Nodes /\ late' = late
                 /\ \E e \in Effects(Sent(p), piece[At(p)][Sent(p).piece]) :
                       e[2] \in PieceStates /\ Leaves(At(p), Sent(p).piece, e[2])
              \/ /\ At(p) \in Nodes /\ Cardinality(late) < MaxLate
                 /\ late' = late \cup {[at |-> At(p), cmd |-> Sent(p)]}
                 /\ piece' = piece
           /\ Fault /\ UNCHANGED <<row, online>>
<1>1. TypeOK /\ proc[p] \in ProcStates /\ proc[p].todo \in Seq(Commands)
    BY ProcIs DEF SyncTypeInv
<1>2. /\ proc[p].todo # <<>> /\ UNCHANGED <<row, online>> /\ Fault
      /\ proc' = [proc EXCEPT ![p] = Answered(@, "failed")]
      /\ \/ UNCHANGED <<piece, late>>
         \/ /\ At(p) \in online /\ late' = late
            /\ \E e \in Effects(Sent(p), piece[At(p)][Sent(p).piece]) :
                  Leaves(At(p), Sent(p).piece, e[2])
         \/ /\ At(p) \in online /\ Cardinality(late) < MaxLate
            /\ late' = late \cup {[at |-> At(p), cmd |-> Sent(p)]}
            /\ piece' = piece
    BY DEF CallFails, At, Sent, Leaves
<1>3. Sent(p) \in Commands
    BY <1>1, <1>2, TodoIs DEF Sent
<1>4. online \subseteq Nodes
    BY <1>1 DEF TypeOK
<1>5. ASSUME At(p) \in Nodes,
             NEW e \in Effects(Sent(p), piece[At(p)][Sent(p).piece])
      PROVE  e[2] \in PieceStates
    <2>1. piece[At(p)][Sent(p).piece] \in PieceStates
        BY <1>1, <1>3, <1>5, PieceIs, CommandParts
    <2> QED BY <1>3, <2>1, EffectsAre
<1>6. "failed" \in Results
    BY DEF Results
<1>7. Goes(p, Answered(proc[p], "failed"))
    BY <1>1, <1>2 DEF Goes, TypeOK
<1>8. /\ proc' \in [Procs -> ProcStates]
      /\ \A q \in Procs : q # p => proc'[q] = proc[q]
      /\ proc'[p] = Answered(proc[p], "failed")
      /\ proc'[p].op = proc[p].op /\ proc'[p].row = proc[p].row
      /\ proc'[p].names = proc[p].names
    BY <1>2, <1>6, <1>7, AnsweredProc
<1> QED BY <1>2, <1>3, <1>4, <1>5, <1>8

LEMMA RunLateIs ==
    ASSUME SyncTypeInv, RunLate
    PROVE  /\ \E l \in late :
                 /\ late' = late \ {l} /\ l.at \in Nodes /\ l.cmd \in Commands
                 /\ \E e \in Effects(l.cmd, piece[l.at][l.cmd.piece]) :
                       e[2] \in PieceStates /\ Leaves(l.at, l.cmd.piece, e[2])
           /\ Fault /\ UNCHANGED <<row, online, proc>>
<1>1. PICK l \in late :
         /\ late' = late \ {l}
         /\ \E e \in Effects(l.cmd, piece[l.at][l.cmd.piece]) : Leaves(l.at, l.cmd.piece, e[2])
    BY DEF RunLate, Leaves
<1>2. l.at \in Nodes /\ l.cmd \in Commands /\ TypeOK
    BY DEF SyncTypeInv, TypeOK
<1>3. \A e \in Effects(l.cmd, piece[l.at][l.cmd.piece]) : e[2] \in PieceStates
    <2>1. piece[l.at][l.cmd.piece] \in PieceStates
        BY <1>2, PieceIs, CommandParts
    <2> QED BY <1>2, <2>1, EffectsAre
<1> QED BY <1>1, <1>2, <1>3 DEF RunLate

LEMMA PurgeFailsIs ==
    ASSUME SyncTypeInv, NEW n \in Locked, PurgeFails(n)
    PROVE  /\ proc[n].op = "purge" /\ proc' = [proc EXCEPT ![n].op = "end"]
           /\ \/ late' = late
              \/ \E x \in Pieces :
                    LET c == Command("purge", "ignore", proc[n].row, x)
                    IN  /\ Cardinality(late) < MaxLate /\ c \in Commands
                        /\ c.verb = "purge" /\ c.piece = x
                        /\ late' = late \cup {[at |-> n, cmd |-> c]}
           /\ disturbed' = disturbed \cup {m \in Locked : Busy(m)} /\ smooth' = FALSE
           /\ UNCHANGED <<row, piece, online>>
<1>1. n \in Procs /\ TypeOK /\ Jobs /\ proc[n].op = "purge"
    BY DEF Procs, SyncTypeInv, PurgeFails
<1>2. proc[n].row \in Rows /\ proc[n].names \subseteq Pieces
    BY <1>1, IdleIs, ProcIs DEF Jobs
<1>3. \A x \in Pieces :
         /\ Command("purge", "ignore", proc[n].row, x) \in Commands
         /\ Command("purge", "ignore", proc[n].row, x).verb = "purge"
         /\ Command("purge", "ignore", proc[n].row, x).piece = x
    BY <1>2, CommandIs DEF Verbs, Modes
<1> QED BY <1>1, <1>2, <1>3 DEF PurgeFails

LEMMA RestartIs ==
    ASSUME TypeOK, NEW n \in Nodes, Restart(n)
    PROVE  /\ piece' \in [Nodes -> [Pieces -> PieceStates]]
           /\ \A m \in Nodes, x \in Pieces :
                 piece'[m][x] = IF m = n /\ piece[n][x] # Absent
                                THEN In("running", piece[n][x]) ELSE piece[m][x]
           /\ late' = {l \in late : l.at # n} /\ Fault /\ UNCHANGED <<row, online, proc>>
<1>1. piece \in [Nodes -> [Pieces -> PieceStates]] /\ piece[n] \in [Pieces -> PieceStates]
    BY DEF TypeOK
<1> DEFINE after == [x \in Pieces |->
                        IF piece[n][x] = Absent THEN Absent ELSE In("running", piece[n][x])]
<1>2. ASSUME NEW x \in Pieces, piece[n][x] # Absent
      PROVE  In("running", piece[n][x]) \in PieceStates
    <2>1. piece[n][x] \in Services
        BY <1>1, <1>2 DEF PieceStates
    <2> QED BY <2>1 DEF In, Services, PieceStates
<1>3. after \in [Pieces -> PieceStates]
    BY <1>2 DEF PieceStates
<1>4. piece' = [piece EXCEPT ![n] = after]
    BY <1>1 DEF Restart
<1>5. \A x \in Pieces : after[x] = IF piece[n][x] = Absent THEN Absent ELSE In("running", piece[n][x])
    OBVIOUS
<1> HIDE DEF after
<1>6. /\ piece' \in [Nodes -> [Pieces -> PieceStates]]
      /\ \A m \in Nodes, x \in Pieces : piece'[m][x] = IF m = n THEN after[x] ELSE piece[m][x]
    BY <1>1, <1>3, <1>4
<1>7. \A m \in Nodes, x \in Pieces :
         piece'[m][x] = IF m = n /\ piece[n][x] # Absent
                        THEN In("running", piece[n][x]) ELSE piece[m][x]
    BY <1>5, <1>6
<1> QED BY <1>6, <1>7 DEF Restart

\* A command more among the late ones is one more, as long as there is room.
LEMMA MoreLate ==
    ASSUME SyncTypeInv, NEW n \in Nodes, NEW c \in Commands, Cardinality(late) < MaxLate
    PROVE  LET l == late \cup {[at |-> n, cmd |-> c]}
           IN  l \in SUBSET [at : Nodes, cmd : Commands] /\ IsFiniteSet(l)
                  /\ Cardinality(l) <= MaxLate
<1> DEFINE z == [at |-> n, cmd |-> c]
<1>1. IsFiniteSet(late) /\ late \in SUBSET [at : Nodes, cmd : Commands] /\ MaxLate \in Nat
    BY SyncAssumption DEF SyncTypeInv, TypeOK
<1>2. z \in [at : Nodes, cmd : Commands]
    OBVIOUS
<1> HIDE DEF z
<1>3. IsFiniteSet(late \cup {z}) /\ Cardinality(late) \in Nat
        /\ Cardinality(late \cup {z}) \in {Cardinality(late), Cardinality(late) + 1}
    BY <1>1, FS_AddElement, FS_CardinalityType
<1>4. Cardinality(late \cup {z}) <= MaxLate
    BY <1>1, <1>3
<1>5. late \cup {z} \in SUBSET [at : Nodes, cmd : Commands]
    BY <1>1, <1>2
<1> QED BY <1>3, <1>4, <1>5 DEF z

LEMMA FewerLate ==
    ASSUME SyncTypeInv, NEW l \in SUBSET late
    PROVE  /\ l \in SUBSET [at : Nodes, cmd : Commands] /\ IsFiniteSet(l)
           /\ Cardinality(l) <= MaxLate
<1>1. IsFiniteSet(late) /\ late \in SUBSET [at : Nodes, cmd : Commands] /\ MaxLate \in Nat
        /\ Cardinality(late) <= MaxLate
    BY SyncAssumption DEF SyncTypeInv, TypeOK
<1>2. IsFiniteSet(l) /\ Cardinality(l) <= Cardinality(late)
    BY <1>1, FS_Subset
<1>3. Cardinality(l) \in Nat /\ Cardinality(late) \in Nat
    BY <1>1, <1>2, FS_CardinalityType
<1> QED BY <1>1, <1>2, <1>3

\* What all steps of p have in common, for the types and the tasks.
LEMMA ProcTypes ==
    ASSUME SyncTypeInv, NEW p \in Procs, proc' \in [Procs -> ProcStates],
           \A q \in Procs : q # p => proc'[q] = proc[q],
           proc'[p] = Idle \/ proc'[p].row \in Rows,
           \/ proc'[p] = Idle \/ proc'[p].op = proc[p].op
           \/ p \in Requests /\ proc'[p].op \in RequestOps
           \/ p \in Locked /\ proc'[p].op \in ReconcileOps
    PROVE  Jobs'
<1>1. Jobs /\ Requests \cap Locked = {}
    BY SyncAssumption DEF SyncTypeInv
<1>2. \A q \in Requests \cup Locked : q \in Procs
    BY DEF Procs
<1>3. Idle.op = "idle"
    BY IdleIs
<1> QED BY <1>1, <1>2, <1>3 DEF Jobs

LEMMA StepType == SyncTypeInv /\ [Next]_vars => SyncTypeInv'
<1> SUFFICES ASSUME SyncTypeInv, [Next]_vars PROVE SyncTypeInv'
    OBVIOUS
<1>1. TypeOK /\ Jobs /\ IsFiniteSet(late)
    BY DEF SyncTypeInv
<1>2. \A p \in Procs : proc[p] = Idle \/ proc[p].row \in Rows
    BY <1>1 DEF Jobs
<1>3. \A p \in Procs : proc[p].op # "idle" => proc[p].row \in Rows
    BY <1>2, IdleIs
<1>4. \A p \in Procs : proc[p].todo # <<>> => proc[p].row \in Rows
    BY <1>2, IdleIs
<1>5. Requests \subseteq Procs /\ Locked \subseteq Procs /\ Locked \subseteq Nodes
    BY SyncAssumption DEF Procs
<1>6. ASSUME NEW p \in Requests, Request(p), ~Finish(p)
      PROVE  SyncTypeInv'
    <2>1. PICK op \in RequestOps, todo \in Seq(Commands), r \in Rows :
             Start(p, op, todo, r) /\ Begins(op, todo, r) /\ row' \in Rows
        BY <1>1, <1>6, RequestBegins
    <2>2. op \in Ops
        BY DEF RequestOps, Ops
    <2>3. /\ proc' \in [Procs -> ProcStates] /\ \A q \in Procs : q # p => proc'[q] = proc[q]
          /\ proc'[p].op = op /\ proc'[p].row = r
          /\ piece' = piece /\ online' = online /\ late' = late /\ Notes(p)
        BY <1>1, <1>5, <2>1, <2>2, StartIs
    <2>4. Jobs'
        BY <1>5, <2>3, ProcTypes
    <2> QED BY <1>1, <1>5, <2>1, <2>3, <2>4, NotesType DEF SyncTypeInv, TypeOK
<1>7. ASSUME NEW p \in Requests, Finish(p)
      PROVE  SyncTypeInv'
    <2>1. /\ proc' \in [Procs -> ProcStates] /\ \A q \in Procs : q # p => proc'[q] = proc[q]
          /\ proc'[p] = Idle /\ row' \in Rows
          /\ piece' = piece /\ online' = online /\ late' = late /\ Notes(p)
        BY <1>7, FinishIs
    <2>2. Jobs'
        BY <1>5, <2>1, ProcTypes
    <2> QED BY <1>1, <1>5, <2>1, <2>2, NotesType DEF SyncTypeInv, TypeOK
<1>8. ASSUME NEW p \in Procs, Call(p)
      PROVE  SyncTypeInv'
    <2>1. /\ proc' \in [Procs -> ProcStates] /\ \A q \in Procs : q # p => proc'[q] = proc[q]
          /\ proc'[p].op = proc[p].op /\ proc'[p].row = proc[p].row /\ proc[p].todo # <<>>
          /\ Sent(p) \in Commands /\ At(p) \in Nodes
          /\ UNCHANGED <<row, online, late>>
        BY <1>8, CallIs
    <2>2. PICK e \in Effects(Sent(p), piece[At(p)][Sent(p).piece]) :
             /\ e[2] \in PieceStates /\ Leaves(At(p), Sent(p).piece, e[2])
             /\ IF e[1] = "failed" THEN Fault ELSE Notes(p)
        BY <1>8, CallIs
    <2>3. piece' \in [Nodes -> [Pieces -> PieceStates]]
        BY <1>1, <2>1, <2>2, LeavesIs, CommandParts
    <2>4. disturbed' \subseteq Locked /\ smooth' \in BOOLEAN
        BY <1>1, <2>2, NotesType, FaultType
    <2>5. Jobs'
        BY <1>4, <2>1, ProcTypes
    <2> QED BY <1>1, <2>1, <2>3, <2>4, <2>5 DEF SyncTypeInv, TypeOK
<1>9. ASSUME NEW p \in Procs, CallFails(p)
      PROVE  SyncTypeInv'
    <2>1. /\ proc' \in [Procs -> ProcStates] /\ \A q \in Procs : q # p => proc'[q] = proc[q]
          /\ proc'[p].op = proc[p].op /\ proc'[p].row = proc[p].row /\ proc[p].todo # <<>>
          /\ Sent(p) \in Commands /\ Fault /\ UNCHANGED <<row, online>>
        BY <1>9, CallFailsIs
    <2>2. \/ UNCHANGED <<piece, late>>
          \/ /\ At(p) \in Nodes /\ late' = late
             /\ \E e \in Effects(Sent(p), piece[At(p)][Sent(p).piece]) :
                   e[2] \in PieceStates /\ Leaves(At(p), Sent(p).piece, e[2])
          \/ /\ At(p) \in Nodes /\ Cardinality(late) < MaxLate
             /\ late' = late \cup {[at |-> At(p), cmd |-> Sent(p)]}
             /\ piece' = piece
        BY <1>9, CallFailsIs
    <2>3. piece' \in [Nodes -> [Pieces -> PieceStates]]
        <3>1. CASE piece' = piece
            BY <1>1, <3>1 DEF TypeOK
        <3>2. CASE /\ At(p) \in Nodes
                   /\ \E e \in Effects(Sent(p), piece[At(p)][Sent(p).piece]) :
                         e[2] \in PieceStates /\ Leaves(At(p), Sent(p).piece, e[2])
            BY <1>1, <2>1, <3>2, LeavesIs, CommandParts
        <3> QED BY <2>2, <3>1, <3>2
    <2>4. late' \in SUBSET [at : Nodes, cmd : Commands] /\ IsFiniteSet(late')
            /\ Cardinality(late') <= MaxLate
        <3>1. CASE late' = late
            BY <1>1, <3>1 DEF TypeOK
        <3>2. CASE /\ At(p) \in Nodes /\ Cardinality(late) < MaxLate
                   /\ late' = late \cup {[at |-> At(p), cmd |-> Sent(p)]}
            BY <2>1, <3>2, MoreLate
        <3> QED BY <2>2, <3>1, <3>2
    <2>5. Jobs'
        BY <1>4, <2>1, ProcTypes
    <2> QED BY <1>1, <2>1, <2>3, <2>4, <2>5, FaultType DEF SyncTypeInv, TypeOK
<1>10. ASSUME NEW n \in Locked, Reconcile(n)
       PROVE  SyncTypeInv'
    <2>1. /\ proc' \in [Procs -> ProcStates] /\ \A q \in Procs : q # n => proc'[q] = proc[q]
          /\ proc'[n].op = "sync" /\ proc'[n].row = row
          /\ row' = row /\ piece' = piece /\ online' = online /\ late' = late
          /\ disturbed' = (disturbed \ {n}) \cup {m \in Locked \ {n} : Busy(m)}
                              \cup (IF \E q \in Procs : Busy(q) THEN {n} ELSE {})
          /\ smooth' = (smooth /\ \A q \in Procs : ~Busy(q))
        BY <1>10, ReconcileIs
    <2>2. Jobs'
        BY <1>1, <1>5, <2>1, ProcTypes DEF ReconcileOps, TypeOK
    <2>3. disturbed' \subseteq Locked /\ smooth' \in BOOLEAN
        BY <1>1, <2>1 DEF TypeOK
    <2> QED BY <1>1, <2>1, <2>2, <2>3 DEF SyncTypeInv, TypeOK
<1>11. ASSUME NEW n \in Locked, Settle(n)
       PROVE  SyncTypeInv'
    <2>1. /\ proc' \in [Procs -> ProcStates] /\ \A q \in Procs : q # n => proc'[q] = proc[q]
          /\ proc'[n].op = "pauses" /\ proc'[n].row = proc[n].row /\ proc[n].row \in Rows
          /\ row' \in Rows /\ piece' = piece /\ online' = online /\ late' = late /\ Notes(n)
        BY <1>11, SettleIs
    <2>2. Jobs'
        BY <1>5, <2>1, ProcTypes DEF ReconcileOps
    <2> QED BY <1>1, <1>5, <2>1, <2>2, NotesType DEF SyncTypeInv, TypeOK
<1>12. ASSUME NEW n \in Locked, Names(n)
       PROVE  SyncTypeInv'
    <2>1. /\ proc' \in [Procs -> ProcStates] /\ \A q \in Procs : q # n => proc'[q] = proc[q]
          /\ proc'[n].op \in {"query", "end"} /\ proc'[n].row = proc[n].row
          /\ proc[n].op = "pauses"
          /\ \/ Notes(n)
             \/ disturbed' = disturbed \cup {m \in Locked : Busy(m)} /\ smooth' = FALSE
          /\ UNCHANGED <<row, piece, online, late>>
        BY <1>12, NamesIs
    <2>2. Jobs'
        BY <1>3, <1>5, <2>1, ProcTypes DEF ReconcileOps
    <2>3. disturbed' \subseteq Locked /\ smooth' \in BOOLEAN
        BY <1>1, <1>5, <2>1, NotesType DEF TypeOK
    <2> QED BY <1>1, <2>1, <2>2, <2>3 DEF SyncTypeInv, TypeOK
<1>13. ASSUME NEW n \in Locked, Query(n)
       PROVE  SyncTypeInv'
    <2>1. /\ proc' \in [Procs -> ProcStates] /\ \A q \in Procs : q # n => proc'[q] = proc[q]
          /\ proc'[n].op \in {"purge", "end"} /\ proc'[n].row = proc[n].row
          /\ proc[n].op = "query" /\ Notes(n) /\ UNCHANGED <<row, piece, online, late>>
        BY <1>13, QueryIs
    <2>2. Jobs'
        BY <1>3, <1>5, <2>1, ProcTypes DEF ReconcileOps
    <2> QED BY <1>1, <1>5, <2>1, <2>2, NotesType DEF SyncTypeInv, TypeOK
<1>14. ASSUME NEW n \in Locked, Purge(n)
       PROVE  SyncTypeInv'
    <2>1. /\ proc[n].op = "purge" /\ proc' = [proc EXCEPT ![n].op = "end"]
          /\ piece' \in [Nodes -> [Pieces -> PieceStates]]
          /\ UNCHANGED <<row, online, late>> /\ Notes(n)
        BY <1>14, PurgeIs
    <2>2. /\ proc' \in [Procs -> ProcStates] /\ \A q \in Procs : q # n => proc'[q] = proc[q]
          /\ proc'[n].row = proc[n].row /\ proc'[n].op = "end"
        BY <2>1, EndIs
    <2>3. Jobs'
        BY <1>3, <1>5, <2>1, <2>2, ProcTypes DEF ReconcileOps
    <2> QED BY <1>1, <1>5, <2>1, <2>2, <2>3, NotesType DEF SyncTypeInv, TypeOK
<1>15. ASSUME NEW n \in Locked, PurgeFails(n)
       PROVE  SyncTypeInv'
    <2>1. /\ proc[n].op = "purge" /\ proc' = [proc EXCEPT ![n].op = "end"]
          /\ disturbed' = disturbed \cup {m \in Locked : Busy(m)} /\ smooth' = FALSE
          /\ UNCHANGED <<row, piece, online>>
        BY <1>15, PurgeFailsIs
    <2>2. \/ late' = late
          \/ \E x \in Pieces :
                LET c == Command("purge", "ignore", proc[n].row, x)
                IN  /\ Cardinality(late) < MaxLate /\ c \in Commands
                    /\ late' = late \cup {[at |-> n, cmd |-> c]}
        BY <1>15, PurgeFailsIs
    <2>3. /\ proc' \in [Procs -> ProcStates] /\ \A q \in Procs : q # n => proc'[q] = proc[q]
          /\ proc'[n].row = proc[n].row /\ proc'[n].op = "end"
        BY <2>1, EndIs
    <2>4. Jobs'
        BY <1>3, <1>5, <2>1, <2>3, ProcTypes DEF ReconcileOps
    <2>5. late' \in SUBSET [at : Nodes, cmd : Commands] /\ IsFiniteSet(late')
            /\ Cardinality(late') <= MaxLate
        <3>1. CASE late' = late
            BY <1>1, <3>1 DEF TypeOK
        <3>2. ASSUME NEW x \in Pieces, Cardinality(late) < MaxLate,
                     Command("purge", "ignore", proc[n].row, x) \in Commands,
                     late' = late \cup {[at |-> n, cmd |-> Command("purge", "ignore", proc[n].row, x)]}
              PROVE  late' \in SUBSET [at : Nodes, cmd : Commands] /\ IsFiniteSet(late')
                        /\ Cardinality(late') <= MaxLate
            BY <1>5, <3>2, MoreLate
        <3> QED BY <2>2, <3>1, <3>2
    <2>6. disturbed' \subseteq Locked /\ smooth' \in BOOLEAN
        BY <1>1, <2>1 DEF TypeOK
    <2> QED BY <1>1, <2>1, <2>3, <2>4, <2>5, <2>6 DEF SyncTypeInv, TypeOK
<1>16. ASSUME NEW n \in Locked, Unlock(n)
       PROVE  SyncTypeInv'
    <2>1. /\ proc' \in [Procs -> ProcStates] /\ proc'[n] = Idle
          /\ \A q \in Procs : q # n => proc'[q] = proc[q]
          /\ disturbed' = disturbed \ {n} /\ UNCHANGED <<row, piece, online, late, smooth>>
        BY <1>16, UnlockIs
    <2>2. Jobs'
        BY <1>5, <2>1, ProcTypes
    <2> QED BY <1>1, <2>1, <2>2 DEF SyncTypeInv, TypeOK
<1>17. ASSUME RunLate
       PROVE  SyncTypeInv'
    <2>1. /\ \E l \in late :
                /\ late' = late \ {l} /\ l.at \in Nodes /\ l.cmd \in Commands
                /\ \E e \in Effects(l.cmd, piece[l.at][l.cmd.piece]) :
                      e[2] \in PieceStates /\ Leaves(l.at, l.cmd.piece, e[2])
          /\ Fault /\ UNCHANGED <<row, online, proc>>
        BY <1>17, RunLateIs
    <2>2. piece' \in [Nodes -> [Pieces -> PieceStates]]
        BY <1>1, <2>1, LeavesIs, CommandParts
    <2>3. late' \in SUBSET late
        BY <2>1
    <2>4. late' \in SUBSET [at : Nodes, cmd : Commands] /\ IsFiniteSet(late')
            /\ Cardinality(late') <= MaxLate
        BY <2>3, FewerLate
    <2> QED BY <1>1, <2>1, <2>2, <2>4, FaultType DEF SyncTypeInv, TypeOK, Jobs
<1>18. ASSUME NEW n \in Nodes, Disconnect(n)
       PROVE  SyncTypeInv'
    BY <1>1, <1>18, FaultType DEF Disconnect, SyncTypeInv, TypeOK, Jobs
<1>19. ASSUME NEW n \in Nodes, Connect(n)
       PROVE  SyncTypeInv'
    BY <1>1, <1>19 DEF Connect, SyncTypeInv, TypeOK, Jobs
<1>20. ASSUME NEW n \in Nodes, Restart(n)
       PROVE  SyncTypeInv'
    <2>1. /\ piece' \in [Nodes -> [Pieces -> PieceStates]]
          /\ late' \in SUBSET late /\ Fault /\ UNCHANGED <<row, online, proc>>
        BY <1>1, <1>20, RestartIs
    <2>2. late' \in SUBSET [at : Nodes, cmd : Commands] /\ IsFiniteSet(late')
            /\ Cardinality(late') <= MaxLate
        BY <2>1, FewerLate
    <2> QED BY <1>1, <2>1, <2>2, FaultType DEF SyncTypeInv, TypeOK, Jobs
<1>21. CASE UNCHANGED vars
    BY <1>1, <1>21 DEF vars, SyncTypeInv, TypeOK, Jobs
<1> QED BY <1>6, <1>7, <1>8, <1>9, <1>10, <1>11, <1>12, <1>13, <1>14, <1>15, <1>16, <1>17,
           <1>18, <1>19, <1>20, <1>21 DEF Next, Reconciliation

\* The row, the pieces, the goroutines and the late commands keep their types,
\* and no more commands than MaxLate outlive their calls.
THEOREM SyncTypeCorrect == Spec => []TypeOK
<1>1. SyncTypeInv => TypeOK
    BY DEF SyncTypeInv
<1> QED BY <1>1, InitType, StepType, PTL DEF Spec
-----------------------------------------------------------------------------
(* A reconciliation that is alone *)

Waits(todo, x) == \E i \in DOMAIN todo : todo[i].piece = x

\* The piece x is there, with the target of the row if it holds one.
Synced(x) ==
    /\ Registered(piece[NodeFor(x, row)][x])
    /\ x = Carrier(row) => piece[NodeFor(x, row)][x].target = row.target

ToSync(c) ==
    /\ c.row = row /\ Exists(row) /\ c.piece \in PiecesOf(row)
    /\ \/ c.verb = "add" /\ c.mode = "gentle"
       \/ /\ c.verb = "retarget" /\ c.mode = "must" /\ c.piece = Carrier(row)
          /\ Registered(piece[NodeFor(c.piece, row)][c.piece])

\* While it synchronises: each piece of the row is there or will be.
Syncing(n) ==
    LET d == proc[n]
    IN  /\ row = d.row
        /\ \A i \in DOMAIN d.todo : ToSync(d.todo[i])
        /\ Exists(row) /\ Involves(n, row) =>
              \A x \in PiecesOf(row) : Waits(d.todo, x) \/ Synced(x)

ToPause(n, c) ==
    /\ c.verb = "pause" /\ c.mode = "ignore" /\ c.row.tunnel = row.tunnel
    /\ c.piece \in PiecesOf(row) \ {"chain"} /\ NodeFor(c.piece, row) = n

\* While it pauses: each service of this node is paused or will be.
Pausing(n) ==
    LET d == proc[n]
    IN  /\ \A i \in DOMAIN d.todo : ToPause(n, d.todo[i])
        /\ Exists(row) /\ Involves(n, row) =>
              /\ row.status # "error"
              /\ \A x \in PiecesOf(row) : Synced(x)
              /\ row.status = "paused" =>
                    \A x \in PiecesOf(row) \ {"chain"} :
                       NodeFor(x, row) = n => Waits(d.todo, x) \/ piece[n][x].state = "paused"

\* What it has reached when it asks for the row: the services of the row are
\* there, and paused on this node if the row is.
Repaired(n) ==
    Exists(row) /\ Involves(n, row) =>
        /\ row.status # "error"
        /\ \A x \in PiecesOf(row) : Synced(x)
        /\ row.status = "paused" =>
              \A x \in PiecesOf(row) \ {"chain"} :
                 NodeFor(x, row) = n => piece[n][x].state = "paused"

\* A reconciliation that is alone works on the row there is; what it knows of
\* its node stays true until it is done.
LoneWork(n) ==
    /\ \A q \in Procs : q # n => ~Busy(q)
    /\ proc[n].ok = TRUE
    /\ proc[n].op = "sync" => Syncing(n)
    /\ proc[n].op = "pauses" => Pausing(n)
    /\ proc[n].op = "query" => Repaired(n)
    /\ proc[n].op \in {"query", "purge"} => proc[n].names = ServicesOn(n)
    /\ proc[n].op = "purge" => ~(Exists(row) /\ Involves(n, row))
    /\ proc[n].op = "end" /\ row.status = "deleted" => ServicesOn(n) = {}
    /\ proc[n].op \in {"query", "purge", "end"} => proc[n].todo = <<>>

AloneInv == \A n \in Locked : Busy(n) /\ n \notin disturbed => LoneWork(n)

\* The answer leaves a list of the rest, with at most one command more in front.
LEMMA WaitsInRest ==
    ASSUME NEW todo \in Seq(Commands), todo # <<>>, NEW x, Waits(todo, x), x # Head(todo).piece
    PROVE  Waits(Tail(todo), x)
BY TodoIs DEF Waits

LEMMA Prefixed ==
    ASSUME NEW a \in Commands, NEW rest \in Seq(Commands)
    PROVE  /\ <<a>> \o rest \in Seq(Commands)
           /\ \A i \in DOMAIN (<<a>> \o rest) :
                 \/ (<<a>> \o rest)[i] = a
                 \/ \E j \in DOMAIN rest : (<<a>> \o rest)[i] = rest[j]
           /\ Waits(<<a>> \o rest, a.piece)
           /\ \A x : Waits(rest, x) => Waits(<<a>> \o rest, x)
<1> DEFINE s == <<a>> \o rest
<1>1. s \in Seq(Commands) /\ 1 \in DOMAIN s /\ s[1] = a
    OBVIOUS
<1>2. \A i \in DOMAIN s : s[i] = a \/ \E j \in DOMAIN rest : s[i] = rest[j]
    OBVIOUS
<1>3. \A j \in DOMAIN rest : j + 1 \in DOMAIN s /\ s[j + 1] = rest[j]
    OBVIOUS
<1> HIDE DEF s
<1>4. Waits(s, a.piece)
    BY <1>1 DEF Waits
<1>5. \A x : Waits(rest, x) => Waits(s, x)
    BY <1>3 DEF Waits
<1> QED BY <1>1, <1>2, <1>4, <1>5 DEF s

\* A call that is answered, in terms of what is known before it.
LEMMA CallSays ==
    ASSUME SyncTypeInv, NEW p \in Procs, Call(p)
    PROVE  \E d \in ProcStates, c \in Commands, m \in Nodes, s \in PieceStates, rest \in Seq(Commands) :
           /\ d = proc[p] /\ d.todo # <<>> /\ c = Head(d.todo) /\ rest = Tail(d.todo)
           /\ c = d.todo[1] /\ 1 \in DOMAIN d.todo /\ d.todo \in Seq(Commands)
           /\ \A i \in DOMAIN rest : \E j \in DOMAIN d.todo : rest[i] = d.todo[j]
           /\ m = NodeFor(c.piece, c.row) /\ s = piece[m][c.piece]
           /\ c.piece \in Pieces /\ c.row \in Rows
           /\ \E e \in Effects(c, s) :
              /\ e[1] \in Results /\ e[2] \in PieceStates
              /\ \A k \in Nodes, x \in Pieces :
                    piece'[k][x] = IF k = m /\ x = c.piece THEN e[2] ELSE piece[k][x]
              /\ proc'[p] = Answered(d, e[1])
              /\ IF e[1] = "failed" THEN Fault ELSE Notes(p)
<1>1. TypeOK /\ proc[p] \in ProcStates /\ proc[p].todo \in Seq(Commands)
    BY ProcIs DEF SyncTypeInv
<1>2. PICK d \in ProcStates : d = proc[p]
    BY <1>1
<1>3. d.todo # <<>> /\ d.todo \in Seq(Commands)
    BY <1>1, <1>2, CallIs
<1>4. PICK c \in Commands : c = Sent(p) /\ c = Head(d.todo)
    BY <1>2, CallIs DEF Sent
<1>5. PICK m \in Nodes : m = At(p) /\ m = NodeFor(c.piece, c.row)
    BY <1>4, CallIs DEF At
<1>6. c.piece \in Pieces /\ c.row \in Rows
    BY CommandParts
<1>7. PICK s \in PieceStates : s = piece[m][c.piece]
    BY <1>1, <1>6, PieceIs
<1>8. PICK rest \in Seq(Commands) : rest = Tail(d.todo)
    BY <1>3, TodoIs
<1>9. PICK e \in Effects(c, s) :
         /\ e[1] \in Results /\ e[2] \in PieceStates
         /\ Leaves(m, c.piece, e[2])
         /\ proc'[p] = Answered(d, e[1])
         /\ IF e[1] = "failed" THEN Fault ELSE Notes(p)
    BY <1>2, <1>4, <1>5, <1>7, CallIs
<1>10. \A k \in Nodes, x \in Pieces :
          piece'[k][x] = IF k = m /\ x = c.piece THEN e[2] ELSE piece[k][x]
    BY <1>1, <1>6, <1>9, LeavesIs
<1>11. /\ c = d.todo[1] /\ 1 \in DOMAIN d.todo
       /\ \A i \in DOMAIN rest : \E j \in DOMAIN d.todo : rest[i] = d.todo[j]
    BY <1>3, <1>4, <1>8, TodoIs
<1> QED BY ZenonT(60), <1>2, <1>3, <1>4, <1>5, <1>6, <1>7, <1>8, <1>9, <1>10, <1>11

\* An answer that lets a handler go on with the rest.
Passes(c, res) ==
    \/ res = "ok" /\ c.mode # "hot"
    \/ res # "failed" /\ c.mode = "ignore"
    \/ res = "missing" /\ c.mode = "absent"
    \/ res = "exists" /\ c.mode = "gentle" /\ c.piece # Carrier(c.row)

LEMMA GoesOn ==
    ASSUME NEW d \in ProcStates, d.todo # <<>>, NEW res \in Results, Passes(Head(d.todo), res)
    PROVE  /\ Answered(d, res).ok = d.ok /\ Answered(d, res).todo = Tail(d.todo)
           /\ Answered(d, res).op = d.op /\ Answered(d, res).row = d.row
           /\ Answered(d, res).names = d.names
BY AnswersAre DEF Passes

LEMMA Retargets ==
    ASSUME NEW d \in ProcStates, d.todo # <<>>,
           Head(d.todo).mode = "gentle", Head(d.todo).piece = Carrier(Head(d.todo).row)
    PROVE  /\ Answered(d, "exists").ok = d.ok
           /\ Answered(d, "exists").todo =
                 <<Command("retarget", "must", Head(d.todo).row, Head(d.todo).piece)>> \o Tail(d.todo)
<1>1. "exists" \in Results
    BY DEF Results
<1> QED BY <1>1, AnswersAre

LEMMA SyncingCall ==
    ASSUME SyncTypeInv, NEW n \in Locked, Call(n), n \notin disturbed', Busy(n),
           n \notin disturbed, proc[n].op = "sync", proc[n].ok = TRUE, Syncing(n)
    PROVE  proc'[n].ok = TRUE /\ Syncing(n)'
<1>1. n \in Procs /\ TypeOK /\ row \in Rows
    BY DEF Procs, SyncTypeInv, TypeOK
<1>2. proc'[n].row = proc[n].row /\ row' = row
    BY <1>1, CallIs
<1>3. PICK d \in ProcStates, c \in Commands, m \in Nodes, s \in PieceStates, rest \in Seq(Commands) :
           /\ d = proc[n] /\ d.todo # <<>> /\ c = Head(d.todo) /\ rest = Tail(d.todo)
           /\ c = d.todo[1] /\ 1 \in DOMAIN d.todo /\ d.todo \in Seq(Commands)
           /\ \A i \in DOMAIN rest : \E j \in DOMAIN d.todo : rest[i] = d.todo[j]
           /\ m = NodeFor(c.piece, c.row) /\ s = piece[m][c.piece]
           /\ c.piece \in Pieces /\ c.row \in Rows
           /\ \E e \in Effects(c, s) :
              /\ e[1] \in Results /\ e[2] \in PieceStates
              /\ \A k \in Nodes, x \in Pieces :
                    piece'[k][x] = IF k = m /\ x = c.piece THEN e[2] ELSE piece[k][x]
              /\ proc'[n] = Answered(d, e[1])
              /\ IF e[1] = "failed" THEN Fault ELSE Notes(n)
    BY <1>1, CallSays
<1>20. /\ d = proc[n] /\ d.todo # <<>> /\ c = Head(d.todo) /\ rest = Tail(d.todo)
       /\ c = d.todo[1] /\ 1 \in DOMAIN d.todo /\ d.todo \in Seq(Commands)
       /\ \A i \in DOMAIN rest : \E j \in DOMAIN d.todo : rest[i] = d.todo[j]
       /\ m = NodeFor(c.piece, c.row) /\ s = piece[m][c.piece]
       /\ c.piece \in Pieces /\ c.row \in Rows
    BY <1>3
<1>4. PICK e \in Effects(c, s) :
              /\ e[1] \in Results /\ e[2] \in PieceStates
              /\ \A k \in Nodes, x \in Pieces :
                    piece'[k][x] = IF k = m /\ x = c.piece THEN e[2] ELSE piece[k][x]
              /\ proc'[n] = Answered(d, e[1])
              /\ IF e[1] = "failed" THEN Fault ELSE Notes(n)
    BY <1>3
<1>5. e[1] # "failed"
    BY <1>4 DEF Fault
<1>6. /\ c.row = row /\ Exists(row) /\ c.piece \in PiecesOf(row)
      /\ \/ c.verb = "add" /\ c.mode = "gentle"
         \/ /\ c.verb = "retarget" /\ c.mode = "must" /\ c.piece = Carrier(row)
            /\ Registered(s)
    <2>1. ToSync(c)
        BY <1>20 DEF Syncing
    <2> QED BY <2>1, <1>20 DEF ToSync
<1>7. m = NodeFor(c.piece, row) /\ d.ok = TRUE /\ d.todo \in Seq(Commands)
    BY <1>20, <1>6 DEF ProcStates
<1>8. PICK y \in Commands : /\ y = Command("retarget", "must", c.row, c.piece)
                            /\ y.row = c.row /\ y.piece = c.piece
                            /\ y.verb = "retarget" /\ y.mode = "must"
    <2>1. /\ Command("retarget", "must", c.row, c.piece) \in Commands
          /\ Command("retarget", "must", c.row, c.piece).row = c.row
          /\ Command("retarget", "must", c.row, c.piece).piece = c.piece
          /\ Command("retarget", "must", c.row, c.piece).verb = "retarget"
          /\ Command("retarget", "must", c.row, c.piece).mode = "must"
        <3>1. "retarget" \in Verbs /\ "must" \in Modes
            BY DEF Verbs, Modes
        <3>2. c.row \in Rows /\ c.piece \in Pieces
            BY <1>20
        <3> QED BY <3>1, <3>2, CommandIs
    <2> QED BY <2>1
<1>9. PiecesOf(row) \subseteq Pieces /\ \A x \in PiecesOf(row) : NodeFor(x, row) \in Nodes
    BY <1>1, PiecesAre
<1>10. Exists(row) /\ Involves(n, row) =>
          \A x \in PiecesOf(row) : x # c.piece => Waits(rest, x) \/ Synced(x)
    BY <1>20, <1>7, WaitsInRest DEF Syncing
<1>11. \/ e[1] = "exists" /\ c.verb = "add" /\ e[2] = s /\ Registered(s)
       \/ e[1] = "ok" /\ c.verb = "add" /\ e[2] = Running(row)
       \/ e[1] = "ok" /\ c.verb = "retarget" /\ e[2] = Retargeted(s, row)
    BY <1>5, <1>6, EffectsAre
<1>12. Registered(e[2]) /\ (e[1] = "ok" => e[2].target = row.target)
    <2>1. CASE e[2] = s /\ Registered(s) /\ e[1] = "exists"
        BY <2>1
    <2>2. CASE e[2] = Running(row)
        BY <2>2, <1>1, RunningIs
    <2>3. CASE c.verb = "retarget" /\ e[2] = Retargeted(s, row)
        <3>1. Registered(s) /\ s \in Services
            BY <2>3, <1>6, RegisteredIs
        <3> QED BY <2>3, <3>1, <1>1, RetargetedIs
    <2> QED BY <2>1, <2>2, <2>3, <1>11
<1>13. \A x \in PiecesOf(row) : x # c.piece => piece'[NodeFor(x, row)][x] = piece[NodeFor(x, row)][x]
    BY <1>4, <1>9
<1>14. piece'[NodeFor(c.piece, row)][c.piece] = e[2]
    BY <1>20, <1>4, <1>7
<1>15. \A x \in PiecesOf(row) : x # c.piece => (Synced(x)' <=> Synced(x))
    BY <1>2, <1>13 DEF Synced
<1>16. ~(e[1] = "exists" /\ c.piece = Carrier(row)) => Synced(c.piece)'
    BY <1>2, <1>11, <1>12, <1>14 DEF Synced
<1>17. \A x \in PiecesOf(row) :
          Registered(piece[NodeFor(x, row)][x]) => Registered(piece'[NodeFor(x, row)][x])
    BY <1>12, <1>13, <1>14
<1>21. \A z : ToSync(z) => ToSync(z)'
    BY <1>2, <1>17 DEF ToSync
<1>22. \A i \in DOMAIN rest : ToSync(rest[i])'
    BY <1>20, <1>21 DEF Syncing
<1>18. CASE e[1] = "exists" /\ c.piece = Carrier(row)
    <2>1. c.mode = "gentle"
        BY <1>6, <1>11, <1>18
    <2>2. PICK t \in Seq(Commands) :
             /\ t = <<y>> \o rest
             /\ \A i \in DOMAIN t : t[i] = y \/ \E j \in DOMAIN rest : t[i] = rest[j]
             /\ Waits(t, c.piece) /\ \A x : Waits(rest, x) => Waits(t, x)
        BY <1>8, Prefixed
    <2>3. proc'[n].ok = TRUE /\ proc'[n].todo = t
        <3>1. /\ Answered(d, "exists").ok = d.ok
              /\ Answered(d, "exists").todo = <<Command("retarget", "must", c.row, c.piece)>> \o rest
            BY <2>1, <1>6, <1>18, <1>20, Retargets
        <3> QED BY <3>1, <2>2, <1>4, <1>7, <1>8, <1>18
    <2>4. ToSync(y)'
        BY <1>2, <1>6, <1>8, <1>12, <1>14, <1>18 DEF ToSync
    <2>5. \A i \in DOMAIN t : ToSync(t[i])'
        BY <2>2, <2>4, <1>22
    <2>6. Exists(row) /\ Involves(n, row) =>
              \A x \in PiecesOf(row) : Waits(t, x) \/ Synced(x)'
        BY <2>2, <1>10, <1>15
    <2> QED BY <2>3, <2>5, <2>6, <1>2, <1>20 DEF Syncing
<1>19. CASE ~(e[1] = "exists" /\ c.piece = Carrier(row))
    <2>1. e[1] = "ok" \/ (e[1] = "exists" /\ c.mode = "gentle" /\ c.piece # Carrier(c.row))
        BY <1>6, <1>11, <1>19
    <2>2. proc'[n].ok = TRUE /\ proc'[n].todo = rest
        <3>1. Passes(c, e[1])
            BY <2>1, <1>6 DEF Passes
        <3>2. d.todo # <<>> /\ c = Head(d.todo) /\ rest = Tail(d.todo) /\ d.ok = TRUE
            BY <1>20, <1>7
        <3>3. Passes(Head(d.todo), e[1]) /\ e[1] \in Results /\ proc'[n] = Answered(d, e[1])
            BY <3>1, <3>2, <1>4
        <3> QED BY <3>2, <3>3, GoesOn
    <2>3. Exists(row) /\ Involves(n, row) =>
              \A x \in PiecesOf(row) : Waits(proc'[n].todo, x) \/ Synced(x)'
        BY <2>2, <1>10, <1>15, <1>16, <1>19
    <2> QED BY <2>2, <2>3, <1>2, <1>20, <1>22 DEF Syncing
<1> QED BY <1>18, <1>19

LEMMA PausingCall ==
    ASSUME SyncTypeInv, NEW n \in Locked, Call(n), n \notin disturbed', Busy(n),
           n \notin disturbed, proc[n].op = "pauses", proc[n].ok = TRUE, Pausing(n)
    PROVE  proc'[n].ok = TRUE /\ Pausing(n)'
<1>1. n \in Procs /\ TypeOK /\ row \in Rows
    BY DEF Procs, SyncTypeInv, TypeOK
<1>2. proc'[n].row = proc[n].row /\ row' = row
    BY <1>1, CallIs
<1>3. PICK d \in ProcStates, c \in Commands, m \in Nodes, s \in PieceStates, rest \in Seq(Commands) :
           /\ d = proc[n] /\ d.todo # <<>> /\ c = Head(d.todo) /\ rest = Tail(d.todo)
           /\ c = d.todo[1] /\ 1 \in DOMAIN d.todo /\ d.todo \in Seq(Commands)
           /\ \A i \in DOMAIN rest : \E j \in DOMAIN d.todo : rest[i] = d.todo[j]
           /\ m = NodeFor(c.piece, c.row) /\ s = piece[m][c.piece]
           /\ c.piece \in Pieces /\ c.row \in Rows
           /\ \E e \in Effects(c, s) :
              /\ e[1] \in Results /\ e[2] \in PieceStates
              /\ \A k \in Nodes, x \in Pieces :
                    piece'[k][x] = IF k = m /\ x = c.piece THEN e[2] ELSE piece[k][x]
              /\ proc'[n] = Answered(d, e[1])
              /\ IF e[1] = "failed" THEN Fault ELSE Notes(n)
    BY <1>1, CallSays
<1>4. PICK e \in Effects(c, s) :
              /\ e[1] \in Results /\ e[2] \in PieceStates
              /\ \A k \in Nodes, x \in Pieces :
                    piece'[k][x] = IF k = m /\ x = c.piece THEN e[2] ELSE piece[k][x]
              /\ proc'[n] = Answered(d, e[1])
              /\ IF e[1] = "failed" THEN Fault ELSE Notes(n)
    BY <1>3
<1>5. /\ d = proc[n] /\ d.todo # <<>> /\ c = Head(d.todo) /\ rest = Tail(d.todo)
      /\ c = d.todo[1] /\ 1 \in DOMAIN d.todo /\ d.todo \in Seq(Commands)
      /\ \A i \in DOMAIN rest : \E j \in DOMAIN d.todo : rest[i] = d.todo[j]
      /\ m = NodeFor(c.piece, c.row) /\ s = piece[m][c.piece]
      /\ c.piece \in Pieces /\ c.row \in Rows /\ d.ok = TRUE
    BY <1>3
<1>6. e[1] # "failed"
    BY <1>4 DEF Fault
<1>7. ToPause(n, c)
    BY <1>5 DEF Pausing
<1>8. m = n /\ c.verb = "pause" /\ c.mode = "ignore" /\ c.piece \in PiecesOf(row) \ {"chain"}
        /\ NodeFor(c.piece, row) = n
    BY <1>5, <1>7 DEF ToPause, NodeFor
<1>9. proc'[n].ok = TRUE /\ proc'[n].todo = rest
    <2>1. Passes(c, e[1])
        BY <1>6, <1>8 DEF Passes
    <2>2. d.todo # <<>> /\ c = Head(d.todo) /\ rest = Tail(d.todo) /\ d.ok = TRUE
        BY <1>5
    <2>3. Passes(Head(d.todo), e[1]) /\ e[1] \in Results /\ proc'[n] = Answered(d, e[1])
        BY <2>1, <2>2, <1>4
    <2> QED BY <2>2, <2>3, GoesOn
<1>10. \/ ~Registered(s) /\ e[2] = s
       \/ Registered(s) /\ e[2] = In("paused", s)
    BY <1>6, <1>8, EffectsAre
<1>11. Registered(s) => /\ Registered(e[2]) /\ e[2].target = s.target /\ e[2].state = "paused"
    BY <1>1, <1>10, RegisteredIs, ChangedIs
<1>12. PiecesOf(row) \subseteq Pieces /\ \A x \in PiecesOf(row) : NodeFor(x, row) \in Nodes
    BY <1>1, PiecesAre
<1>13. \A x \in PiecesOf(row) : x # c.piece => piece'[NodeFor(x, row)][x] = piece[NodeFor(x, row)][x]
    BY <1>4, <1>12
<1>14. piece'[NodeFor(c.piece, row)][c.piece] = e[2] /\ piece[NodeFor(c.piece, row)][c.piece] = s
    BY <1>4, <1>5, <1>8
<1>15. \A x \in PiecesOf(row) : Synced(x) => Synced(x)'
    BY <1>2, <1>10, <1>11, <1>13, <1>14 DEF Synced
<1>16. \A z : ToPause(n, z) => ToPause(n, z)'
    BY <1>2 DEF ToPause
<1>17. \A i \in DOMAIN rest : ToPause(n, rest[i])'
    BY <1>5, <1>16 DEF Pausing
<1>18. \A x \in PiecesOf(row) : x # c.piece /\ Waits(d.todo, x) => Waits(rest, x)
    BY <1>5, WaitsInRest
<1>19. ASSUME Exists(row), Involves(n, row)
       PROVE  /\ row.status # "error" /\ \A x \in PiecesOf(row) : Synced(x)'
              /\ row.status = "paused" =>
                    \A x \in PiecesOf(row) \ {"chain"} :
                       NodeFor(x, row) = n => Waits(rest, x) \/ piece'[n][x].state = "paused"
    <2>1. row.status # "error" /\ \A x \in PiecesOf(row) : Synced(x)
        BY <1>19 DEF Pausing
    <2>2. ASSUME row.status = "paused", NEW x \in PiecesOf(row) \ {"chain"}, NodeFor(x, row) = n
          PROVE  Waits(rest, x) \/ piece'[n][x].state = "paused"
        <3>1. Waits(d.todo, x) \/ piece[n][x].state = "paused"
            BY <2>2, <1>5, <1>19 DEF Pausing
        <3>2. CASE x = c.piece
            <4>1. Registered(s)
                BY <2>1, <1>8, <1>14 DEF Synced
            <4> QED BY <3>2, <4>1, <1>8, <1>11, <1>14
        <3>3. CASE x # c.piece
            BY <3>1, <3>3, <2>2, <1>13, <1>18
        <3> QED BY <3>2, <3>3
    <2> QED BY <2>1, <2>2, <1>15
<1> QED BY <1>2, <1>9, <1>17, <1>19 DEF Pausing

\* A step of another goroutine, or a failure, disturbs a reconciliation.
LEMMA OthersDisturb ==
    ASSUME NEW n \in Locked, Busy(n), NEW q, q # n, Notes(q)
    PROVE  n \in disturbed'
BY DEF Notes

LEMMA FaultDisturbs ==
    ASSUME NEW n \in Locked, Busy(n), Fault
    PROVE  n \in disturbed'
BY DEF Fault

\* The nodes of a forward are those of its tunnel.
LEMMA SameTunnel ==
    ASSUME NEW r, NEW z, r.tunnel = z.tunnel
    PROVE  /\ PiecesOf(r) = PiecesOf(z) /\ Carrier(r) = Carrier(z)
           /\ \A x : NodeFor(x, r) = NodeFor(x, z)
           /\ \A n : Involves(n, r) <=> Involves(n, z)
BY DEF PiecesOf, Carrier, NodeFor, Involves, IsTunnelForward

LEMMA LoneReconcile ==
    ASSUME SyncTypeInv, NEW n \in Locked, Reconcile(n), n \notin disturbed'
    PROVE  LoneWork(n)'
<1>1. n \in Procs /\ row \in Rows
    BY DEF Procs, SyncTypeInv, TypeOK
<1>2. /\ \A q \in Procs : q # n => proc'[q] = proc[q]
      /\ proc'[n].op = "sync" /\ proc'[n].ok = TRUE /\ proc'[n].row = row
      /\ proc'[n].todo = IF Exists(row) /\ Involves(n, row) THEN gentleSync(row) ELSE <<>>
      /\ row' = row /\ piece' = piece
      /\ disturbed' = (disturbed \ {n}) \cup {m \in Locked \ {n} : Busy(m)}
                              \cup (IF \E q \in Procs : Busy(q) THEN {n} ELSE {})
    BY ReconcileIs
<1>3. \A q \in Procs : ~Busy(q)
    BY <1>2
<1>4. Covers(gentleSync(row), "add", "gentle", row, PiecesOf(row))
    BY <1>1, Scripts
<1>5. Syncing(n)'
    <2>1. CASE Exists(row) /\ Involves(n, row)
        <3>1. proc'[n].todo = gentleSync(row)
            BY <1>2, <2>1
        <3>2. \A i \in DOMAIN gentleSync(row) : ToSync(gentleSync(row)[i])'
            BY <1>2, <1>4, <2>1 DEF Covers, ToSync
        <3>3. \A x \in PiecesOf(row) : Waits(gentleSync(row), x)
            BY <1>4 DEF Covers, Waits
        <3> QED BY <1>2, <3>1, <3>2, <3>3 DEF Syncing
    <2>2. CASE ~(Exists(row) /\ Involves(n, row))
        <3>1. proc'[n].todo = <<>>
            BY <1>2, <2>2
        <3> QED BY <1>2, <2>2, <3>1 DEF Syncing
    <2> QED BY <2>1, <2>2
<1> QED BY <1>2, <1>3, <1>5 DEF LoneWork, Busy

LEMMA LoneSettle ==
    ASSUME SyncTypeInv, NEW n \in Locked, Settle(n), LoneWork(n)
    PROVE  LoneWork(n)'
<1>1. n \in Procs /\ row \in Rows /\ n \in Nodes
    BY SyncAssumption DEF Procs, SyncTypeInv, TypeOK
<1>2. /\ proc[n].op = "sync" /\ proc[n].todo = <<>> /\ proc[n].row \in Rows
      /\ \A q \in Procs : q # n => proc'[q] = proc[q]
      /\ proc'[n].op = "pauses" /\ proc'[n].ok = proc[n].ok /\ proc'[n].row = proc[n].row
      /\ proc'[n].todo = (IF proc[n].row.status = "paused" /\ Involves(n, proc[n].row)
                          THEN PausesOn(n, proc[n].row) ELSE <<>>)
      /\ row' = Settled(n, proc[n]) /\ row' \in Rows /\ row'.tunnel = row.tunnel
      /\ Exists(row') <=> Exists(row)
      /\ row'.target = row.target /\ piece' = piece
    BY SettleIs
<1>3. proc[n].ok = TRUE /\ row = proc[n].row /\ \A q \in Procs : q # n => ~Busy(q)
    BY <1>2 DEF LoneWork, Syncing
<1>4. Exists(row) /\ Involves(n, row) => \A x \in PiecesOf(row) : Synced(x)
    BY <1>2 DEF LoneWork, Syncing, Waits
<1>5. /\ PiecesOf(row') = PiecesOf(row) /\ Carrier(row') = Carrier(row)
      /\ \A x : NodeFor(x, row') = NodeFor(x, row)
      /\ Involves(n, row') <=> Involves(n, row)
    BY <1>2, SameTunnel
<1>6. \A x \in PiecesOf(row) : Synced(x) => Synced(x)'
    BY <1>2, <1>5 DEF Synced
<1>7. Exists(row) /\ Involves(n, row) => row'.status # "error"
    <2>1. [row EXCEPT !.status = "active"].status = "active"
        BY <1>1 DEF Rows
    <2> QED BY <2>1, <1>2, <1>3 DEF Settled
<1>8. row'.status = "paused" => row.status = "paused"
    <2>1. [row EXCEPT !.status = "active"].status = "active"
        BY <1>1 DEF Rows
    <2> QED BY <2>1, <1>2 DEF Settled
<1>9. PICK t : t = PausesOn(n, row)
    OBVIOUS
<1>10. Covers(t, "pause", "ignore", row,
              {x \in PiecesOf(row) \ {"chain"} : NodeFor(x, row) = n})
    BY <1>1, <1>9, PausesAre
<1>11. \A i \in DOMAIN t : ToPause(n, t[i])'
    BY <1>2, <1>5, <1>10 DEF Covers, ToPause
<1>12. \A x \in PiecesOf(row) \ {"chain"} : NodeFor(x, row) = n => Waits(t, x)
    BY <1>10 DEF Covers, Waits
<1>13. proc'[n].todo = <<>> \/ proc'[n].todo = t
    BY <1>2, <1>3, <1>9
<1>14. Exists(row) /\ Involves(n, row) /\ row.status = "paused" => proc'[n].todo = t
    BY <1>2, <1>3, <1>9
<1>15. Pausing(n)'
    <2>1. ASSUME Exists(row'), Involves(n, row')
          PROVE  /\ row'.status # "error" /\ \A x \in PiecesOf(row') : Synced(x)'
                 /\ row'.status = "paused" =>
                       proc'[n].todo = t /\
                       \A x \in PiecesOf(row') \ {"chain"} : NodeFor(x, row') = n => Waits(t, x)
        BY <2>1, <1>2, <1>4, <1>5, <1>6, <1>7, <1>8, <1>12, <1>14
    <2>2. CASE proc'[n].todo = t
        BY <2>1, <2>2, <1>11 DEF Pausing
    <2>3. CASE proc'[n].todo = <<>> /\ proc'[n].todo # t
        BY <2>1, <2>3 DEF Pausing
    <2> QED BY <2>2, <2>3, <1>13
<1> QED BY <1>2, <1>3, <1>15 DEF LoneWork, Busy

LEMMA LoneNames ==
    ASSUME SyncTypeInv, NEW n \in Locked, Names(n), LoneWork(n), n \notin disturbed', Busy(n)
    PROVE  LoneWork(n)'
<1>1. /\ proc[n].op = "pauses" /\ proc[n].todo = <<>>
      /\ \A q \in Procs : q # n => proc'[q] = proc[q]
      /\ proc'[n].todo = <<>> /\ proc'[n].ok = proc[n].ok
      /\ proc'[n].op = "query" /\ proc'[n].names = ServicesOn(n)
      /\ UNCHANGED <<row, piece>>
    BY NamesIs
<1>2. Repaired(n)'
    BY <1>1 DEF LoneWork, Pausing, Repaired, Waits, Synced
<1>3. ServicesOn(n)' = ServicesOn(n)
    BY <1>1 DEF ServicesOn
<1> QED BY <1>1, <1>2, <1>3 DEF LoneWork, Busy

LEMMA LoneQuery ==
    ASSUME SyncTypeInv, NEW n \in Locked, Query(n), LoneWork(n)
    PROVE  LoneWork(n)'
<1>1. /\ proc[n].op = "query"
      /\ \A q \in Procs : q # n => proc'[q] = proc[q]
      /\ proc'[n].todo = proc[n].todo /\ proc'[n].ok = proc[n].ok
      /\ proc'[n].names = proc[n].names
      /\ proc'[n].op = IF ~(Exists(row) /\ Involves(n, row)) /\ proc[n].names # {}
                       THEN "purge" ELSE "end"
      /\ UNCHANGED <<row, piece>>
    BY QueryIs
<1>2. ServicesOn(n)' = ServicesOn(n)
    BY <1>1 DEF ServicesOn
<1>3. proc[n].names = ServicesOn(n) /\ proc[n].todo = <<>> /\ proc[n].ok = TRUE
        /\ \A q \in Procs : q # n => ~Busy(q)
    BY <1>1 DEF LoneWork
<1>4. CASE ~(Exists(row) /\ Involves(n, row)) /\ proc[n].names # {}
    <2>1. proc'[n].op = "purge"
        BY <1>1, <1>4
    <2> QED BY <2>1, <1>1, <1>2, <1>3, <1>4 DEF LoneWork, Busy
<1>5. CASE ~(~(Exists(row) /\ Involves(n, row)) /\ proc[n].names # {})
    <2>1. proc'[n].op = "end"
        BY <1>1, <1>5
    <2>2. row.status = "deleted" => ServicesOn(n) = {}
        BY <1>3, <1>5 DEF Exists
    <2> QED BY <2>1, <2>2, <1>1, <1>2, <1>3 DEF LoneWork, Busy
<1> QED BY <1>4, <1>5

LEMMA LonePurge ==
    ASSUME SyncTypeInv, NEW n \in Locked, Purge(n), LoneWork(n)
    PROVE  LoneWork(n)'
<1>1. /\ proc[n].op = "purge" /\ proc' = [proc EXCEPT ![n].op = "end"]
      /\ \A m \in Nodes, x \in Pieces :
            piece'[m][x] = IF m = n /\ x \in proc[n].names /\ proc[n].names \subseteq ServicesOn(n)
                           THEN Absent ELSE piece[m][x]
    BY PurgeIs
<1>2. /\ \A q \in Procs : q # n => proc'[q] = proc[q]
      /\ proc'[n].todo = proc[n].todo /\ proc'[n].ok = proc[n].ok /\ proc'[n].op = "end"
    BY <1>1, EndIs
<1>3. proc[n].names = ServicesOn(n) /\ proc[n].todo = <<>> /\ proc[n].ok = TRUE
        /\ \A q \in Procs : q # n => ~Busy(q)
    BY <1>1 DEF LoneWork
<1>4. n \in Nodes
    BY SyncAssumption
<1>5. ServicesOn(n)' = {}
    <2>1. \A x \in {"remote", "main"} : ~Registered(piece'[n][x])
        BY <1>1, <1>3, <1>4 DEF ServicesOn, Registered, Pieces
    <2> QED BY <2>1 DEF ServicesOn
<1> QED BY <1>2, <1>3, <1>5 DEF LoneWork, Busy

LEMMA LoneCall ==
    ASSUME SyncTypeInv, NEW n \in Locked, Call(n), LoneWork(n), n \notin disturbed,
           n \notin disturbed', Busy(n)
    PROVE  LoneWork(n)'
<1>1. n \in Procs /\ Jobs
    BY DEF Procs, SyncTypeInv
<1>2. /\ proc[n].todo # <<>> /\ proc'[n].op = proc[n].op
      /\ \A q \in Procs : q # n => proc'[q] = proc[q]
    BY <1>1, CallIs
<1>3. proc[n].op \in ReconcileOps
    BY <1>1 DEF Jobs, Busy
<1>4. proc[n].op = "sync" \/ proc[n].op = "pauses"
    BY <1>2, <1>3 DEF LoneWork, ReconcileOps
<1>5. proc[n].ok = TRUE /\ \A q \in Procs : q # n => ~Busy(q)
    BY DEF LoneWork
<1>6. CASE proc[n].op = "sync"
    <2>1. proc'[n].ok = TRUE /\ Syncing(n)'
        BY <1>5, <1>6, SyncingCall DEF LoneWork
    <2> QED BY <2>1, <1>2, <1>5, <1>6 DEF LoneWork, Busy
<1>7. CASE proc[n].op = "pauses"
    <2>1. proc'[n].ok = TRUE /\ Pausing(n)'
        BY <1>5, <1>7, PausingCall DEF LoneWork
    <2> QED BY <2>1, <1>2, <1>5, <1>7 DEF LoneWork, Busy
<1> QED BY <1>4, <1>6, <1>7

\* Nothing a lone reconciliation knows has changed.
LEMMA LoneStays ==
    ASSUME SyncTypeInv, NEW n \in Locked, LoneWork(n), UNCHANGED <<row, piece, proc>>
    PROVE  LoneWork(n)'
<1>1. ServicesOn(n)' = ServicesOn(n)
    BY DEF ServicesOn
<1>2. Syncing(n) => Syncing(n)'
    BY DEF Syncing, ToSync, Synced
<1>3. Pausing(n) => Pausing(n)'
    BY DEF Pausing, ToPause, Synced
<1>4. Repaired(n) => Repaired(n)'
    BY DEF Repaired, Synced
<1> QED BY <1>1, <1>2, <1>3, <1>4 DEF LoneWork, Busy

LEMMA StepAlone == SyncTypeInv /\ AloneInv /\ [Next]_vars => AloneInv'
<1> SUFFICES ASSUME SyncTypeInv, AloneInv, [Next]_vars,
                    NEW n \in Locked, Busy(n)', n \notin disturbed'
             PROVE  LoneWork(n)'
    BY DEF AloneInv
<1>1. n \in Procs /\ TypeOK /\ Requests \subseteq Procs /\ Locked \subseteq Procs
        /\ n \notin Requests
    BY SyncAssumption DEF Procs, SyncTypeInv
<1>2. Busy(n) /\ n \notin disturbed => LoneWork(n)
    BY DEF AloneInv
<1>3. \A q \in Procs : q # n /\ Notes(q) => ~Busy(n)
    BY OthersDisturb
<1>4. Fault => ~Busy(n)
    BY FaultDisturbs
<1>5. Notes(n) => disturbed \subseteq disturbed'
    BY DEF Notes
<1>6. ASSUME NEW p \in Requests, Request(p)
      PROVE  FALSE
    <2>1. CASE Finish(p)
        BY <1>1, <1>3, <1>6, <2>1, FinishIs DEF Busy
    <2>2. CASE ~Finish(p)
        <3>1. PICK op \in RequestOps, todo \in Seq(Commands), r \in Rows : Start(p, op, todo, r)
            BY <1>1, <1>6, <2>2, RequestBegins
        <3>2. op \in Ops
            BY DEF RequestOps, Ops
        <3>3. proc'[n] = proc[n] /\ Notes(p)
            BY <1>1, <3>1, <3>2, StartIs
        <3> QED BY <1>1, <1>3, <3>3 DEF Busy
    <2> QED BY <2>1, <2>2
<1>7. ASSUME NEW p \in Procs, Call(p)
      PROVE  LoneWork(n)'
    <2>1. \A q \in Procs : q # p => proc'[q] = proc[q]
        BY <1>7, CallIs
    <2>2. Fault \/ Notes(p)
        BY <1>7, CallIs
    <2>3. CASE p # n
        BY <2>1, <2>2, <2>3, <1>1, <1>3, <1>4 DEF Busy
    <2>4. CASE p = n
        <3>1. proc'[n].op = proc[n].op
            BY <1>7, <2>4, CallIs
        <3>2. Busy(n)
            BY <3>1 DEF Busy
        <3>3. n \notin disturbed
            BY <2>2, <2>4, <3>2, <1>4, <1>5
        <3> QED BY <3>2, <3>3, <2>4, <1>2, <1>7, LoneCall
    <2> QED BY <2>3, <2>4
<1>8. ASSUME NEW p \in Procs, CallFails(p)
      PROVE  FALSE
    <2>1. /\ \A q \in Procs : q # p => proc'[q] = proc[q]
          /\ proc'[p].op = proc[p].op /\ Fault
        BY <1>8, CallFailsIs
    <2> QED BY <2>1, <1>1, <1>4 DEF Busy
<1>9. ASSUME NEW m \in Locked, Reconcile(m)
      PROVE  LoneWork(n)'
    <2>1. CASE m = n
        BY <1>9, <2>1, LoneReconcile
    <2>2. CASE m # n
        <3>1. /\ \A q \in Procs : q # m => proc'[q] = proc[q]
              /\ disturbed' = (disturbed \ {m}) \cup {k \in Locked \ {m} : Busy(k)}
                              \cup (IF \E q \in Procs : Busy(q) THEN {m} ELSE {})
            BY <1>9, ReconcileIs
        <3> QED BY <3>1, <2>2, <1>1 DEF Busy
    <2> QED BY <2>1, <2>2
<1>10. ASSUME NEW m \in Locked, Settle(m)
       PROVE  LoneWork(n)'
    <2>1. /\ \A q \in Procs : q # m => proc'[q] = proc[q]
          /\ proc[m].op = "sync" /\ Notes(m)
        BY <1>10, SettleIs
    <2>2. CASE m = n
        BY <2>1, <2>2, <1>2, <1>5, <1>10, LoneSettle DEF Busy
    <2>3. CASE m # n
        BY <2>1, <2>3, <1>1, <1>3 DEF Busy
    <2> QED BY <2>2, <2>3
<1>11. ASSUME NEW m \in Locked, Names(m)
       PROVE  LoneWork(n)'
    <2>1. /\ \A q \in Procs : q # m => proc'[q] = proc[q]
          /\ proc[m].op = "pauses"
          /\ Notes(m) \/ disturbed' = disturbed \cup {k \in Locked : Busy(k)}
        BY <1>11, NamesIs
    <2>2. CASE m = n
        BY <2>1, <2>2, <1>2, <1>5, <1>11, LoneNames DEF Busy
    <2>3. CASE m # n
        BY <2>1, <2>3, <1>1, <1>3 DEF Busy
    <2> QED BY <2>2, <2>3
<1>12. ASSUME NEW m \in Locked, Query(m)
       PROVE  LoneWork(n)'
    <2>1. /\ \A q \in Procs : q # m => proc'[q] = proc[q]
          /\ proc[m].op = "query" /\ Notes(m)
        BY <1>12, QueryIs
    <2>2. CASE m = n
        BY <2>1, <2>2, <1>2, <1>5, <1>12, LoneQuery DEF Busy
    <2>3. CASE m # n
        BY <2>1, <2>3, <1>1, <1>3 DEF Busy
    <2> QED BY <2>2, <2>3
<1>13. ASSUME NEW m \in Locked, Purge(m)
       PROVE  LoneWork(n)'
    <2>1. proc[m].op = "purge" /\ Notes(m) /\ \A q \in Procs : q # m => proc'[q] = proc[q]
        BY <1>13, PurgeIs, EndIs
    <2>2. CASE m = n
        BY <2>1, <2>2, <1>2, <1>5, <1>13, LonePurge DEF Busy
    <2>3. CASE m # n
        BY <2>1, <2>3, <1>1, <1>3 DEF Busy
    <2> QED BY <2>2, <2>3
<1>14. ASSUME NEW m \in Locked, PurgeFails(m)
       PROVE  FALSE
    <2>1. /\ \A q \in Procs : q # m => proc'[q] = proc[q]
          /\ proc[m].op = "purge" /\ disturbed' = disturbed \cup {k \in Locked : Busy(k)}
        BY <1>14, PurgeFailsIs, EndIs
    <2> QED BY <2>1, <1>1 DEF Busy
<1>15. ASSUME NEW m \in Locked, Unlock(m)
       PROVE  FALSE
    <2>1. /\ \A q \in Procs : q # m => proc'[q] = proc[q]
          /\ proc[m].op = "end" /\ proc'[m] = Idle /\ disturbed' = disturbed \ {m}
        BY <1>15, UnlockIs
    <2>2. m # n
        BY <2>1, IdleIs DEF Busy
    <2>3. LoneWork(n)
        BY <2>1, <2>2, <1>1, <1>2 DEF Busy
    <2> QED BY <2>1, <2>2, <2>3, <1>1 DEF LoneWork, Busy
<1>16. ASSUME RunLate
       PROVE  FALSE
    <2>1. Fault /\ proc' = proc
        BY <1>16 DEF RunLate
    <2> QED BY <2>1, <1>4 DEF Busy
<1>17. ASSUME NEW m \in Nodes, Disconnect(m)
       PROVE  FALSE
    <2>1. Fault /\ proc' = proc
        BY <1>17 DEF Disconnect
    <2> QED BY <2>1, <1>4 DEF Busy
<1>18. ASSUME NEW m \in Nodes, Connect(m)
       PROVE  LoneWork(n)'
    <2>1. UNCHANGED <<row, piece, proc, disturbed>>
        BY <1>18 DEF Connect
    <2> QED BY <2>1, <1>2, LoneStays DEF Busy
<1>19. ASSUME NEW m \in Nodes, Restart(m)
       PROVE  FALSE
    <2>1. Fault /\ proc' = proc
        BY <1>19 DEF Restart
    <2> QED BY <2>1, <1>4 DEF Busy
<1>20. CASE UNCHANGED vars
    <2>1. UNCHANGED <<row, piece, proc, disturbed>>
        BY <1>20 DEF vars
    <2> QED BY <2>1, <1>2, LoneStays DEF Busy
<1> QED BY <1>6, <1>7, <1>8, <1>9, <1>10, <1>11, <1>12, <1>13, <1>14, <1>15, <1>16, <1>17,
           <1>18, <1>19, <1>20 DEF Next, Reconciliation

LEMMA InitAlone == Init => AloneInv
<1> SUFFICES ASSUME Init, NEW n \in Locked PROVE ~Busy(n)
    BY DEF AloneInv
<1> QED BY IdleIs DEF Init, Busy, Procs

LEMMA AloneHolds == Spec => [](SyncTypeInv /\ AloneInv)
BY InitType, StepType, InitAlone, StepAlone, PTL DEF Spec

\* A reconciliation that ran alone after the forward was deleted leaves none of
\* its services on the node, whatever earlier requests left there.
THEOREM CleansWhenAlone == Spec => []ReconcileCleans
<1>1. AloneInv => ReconcileCleans
    BY DEF AloneInv, LoneWork, ReconcileCleans, Alone, Busy
<1> QED BY <1>1, AloneHolds, PTL

\* A reconciliation that ran alone and without a failed call has repaired the
\* forward, whatever refused, lost, late or overlapping requests left of it.
THEOREM RestoresWhenAlone == Spec => []ReconcileRestores
<1>1. SyncTypeInv /\ AloneInv => ReconcileRestores
    <2> SUFFICES ASSUME SyncTypeInv, AloneInv, NEW n \in Locked, Alone(n, "query"),
                        Exists(row), Involves(n, row)
                 PROVE  /\ row.status # "error"
                        /\ \A x \in PiecesOf(row) : Registered(piece[NodeFor(x, row)][x])
                        /\ piece[NodeFor(Carrier(row), row)][Carrier(row)].target = row.target
                        /\ row.status = "paused" =>
                              \A x \in PiecesOf(row) \ {"chain"} :
                                 NodeFor(x, row) = n => piece[n][x].state = "paused"
        BY DEF ReconcileRestores
    <2>1. Repaired(n)
        BY DEF AloneInv, LoneWork, Alone, Busy
    <2>2. Carrier(row) \in PiecesOf(row)
        BY PiecesAre DEF SyncTypeInv, TypeOK
    <2> QED BY <2>1, <2>2 DEF Repaired, Synced
<1> QED BY <1>1, AloneHolds, PTL
-----------------------------------------------------------------------------
(* The cleanup, for a forward that stays on its nodes *)

\* The services of r and of z are on the same nodes.
SameNodes(r, z) ==
    /\ InNode[r.tunnel] = InNode[z.tunnel]
    /\ OutNode[r.tunnel] = OutNode[z.tunnel]

\* No request moves the forward to other nodes.  One that does creates the new
\* services before the row names their nodes, and the cleanup there takes them.
StaysPut == \A p \in Requests : proc[p].op = "move" => SameNodes(proc[p].row, row)

\* z, the row, was created, and r means the same nodes.
Near(r, z) == z.status # "unborn" /\ SameNodes(r, z)

\* A command on its way is for the nodes of the row, and makes or changes only
\* what belongs there.
Placed(c, z) ==
    /\ Near(c.row, z)
    /\ \/ c.verb = "delete" /\ c.mode \in {"ignore", "absent"}
       \/ c.verb \notin {"delete", "purge"} /\ c.piece \in PiecesOf(z)

\* A goroutine works on such a row, or read one that was not created yet; the
\* names it was given are those of a node of the row, so that the row must have
\* been deleted when the query does not find it.
ProcPlaced(p, d, z) ==
    /\ \/ d = Idle
       \/ d.row.status # "unborn" /\ Near(d.row, z)
       \/ d.row.status = "unborn" /\ d.op \in ReconcileOps
    /\ \A i \in DOMAIN d.todo : Placed(d.todo[i], z)
    /\ d.names # {} => z.status # "unborn" /\ Involves(p, z)
    /\ d.op = "purge" => z.status = "deleted"

LatePlaced(l, z) ==
    \/ l.cmd.verb = "purge" /\ z.status = "deleted"
    \/ Placed(l.cmd, z) /\ l.at = NodeFor(l.cmd.piece, l.cmd.row)

PiecePlaced(n, x, s, z) ==
    s # Absent => z.status # "unborn" /\ x \in PiecesOf(z) /\ n = NodeFor(x, z)

PlaceInv ==
    /\ \A p \in Procs : ProcPlaced(p, proc[p], row)
    /\ \A l \in late : LatePlaced(l, row)
    /\ \A n \in Nodes, x \in Pieces : PiecePlaced(n, x, piece[n][x], row)

LEMMA SamePlaces ==
    ASSUME NEW r, NEW z, SameNodes(r, z)
    PROVE  /\ PiecesOf(r) = PiecesOf(z)
           /\ \A x : NodeFor(x, r) = NodeFor(x, z)
           /\ \A n : Involves(n, r) <=> Involves(n, z)
<1>1. IsTunnelForward(r) <=> IsTunnelForward(z)
    BY DEF SameNodes, IsTunnelForward
<1>2. PiecesOf(r) = PiecesOf(z)
    BY <1>1 DEF PiecesOf
<1>3. \A x : NodeFor(x, r) = NodeFor(x, z)
    BY DEF SameNodes, NodeFor
<1> QED BY <1>2, <1>3 DEF Involves

\* The row goes from r to z: it stays created, deleted and on its nodes.
Keeps(r, z) ==
    /\ r.status # "unborn" => z.status # "unborn" /\ SameNodes(r, z)
    /\ r.status = "deleted" => z.status = "deleted"

LEMMA NearStays ==
    ASSUME NEW r, NEW z, Keeps(r, z), NEW y, Near(y, r)
    PROVE  Near(y, z) /\ SameNodes(r, z)
BY DEF Keeps, Near, SameNodes

LEMMA PlacedStays ==
    ASSUME NEW r, NEW z, Keeps(r, z), NEW c, Placed(c, r)
    PROVE  Placed(c, z)
<1>1. Near(c.row, r)
    BY DEF Placed
<1>2. Near(c.row, z) /\ SameNodes(r, z)
    BY <1>1, NearStays
<1>3. PiecesOf(r) = PiecesOf(z)
    BY <1>2, SamePlaces
<1> QED BY <1>2, <1>3 DEF Placed

LEMMA ProcStays ==
    ASSUME NEW r, NEW z, Keeps(r, z), NEW p, NEW d, ProcPlaced(p, d, r)
    PROVE  ProcPlaced(p, d, z)
<1>1. \/ d = Idle
      \/ d.row.status # "unborn" /\ Near(d.row, z)
      \/ d.row.status = "unborn" /\ d.op \in ReconcileOps
    BY NearStays DEF ProcPlaced
<1>2. \A i \in DOMAIN d.todo : Placed(d.todo[i], z)
    BY PlacedStays DEF ProcPlaced
<1>3. ASSUME d.names # {} PROVE z.status # "unborn" /\ Involves(p, z)
    <2>1. r.status # "unborn" /\ Involves(p, r)
        BY <1>3 DEF ProcPlaced
    <2>2. z.status # "unborn" /\ SameNodes(r, z)
        BY <2>1 DEF Keeps
    <2> QED BY <2>1, <2>2, SamePlaces
<1>4. d.op = "purge" => z.status = "deleted"
    BY DEF ProcPlaced, Keeps
<1> QED BY <1>1, <1>2, <1>3, <1>4 DEF ProcPlaced

LEMMA LateStays ==
    ASSUME NEW r, NEW z, Keeps(r, z), NEW l, LatePlaced(l, r)
    PROVE  LatePlaced(l, z)
BY PlacedStays DEF LatePlaced, Keeps

LEMMA PieceStays ==
    ASSUME NEW r, NEW z, Keeps(r, z), NEW n, NEW x, NEW s, PiecePlaced(n, x, s, r)
    PROVE  PiecePlaced(n, x, s, z)
<1>1. CASE s = Absent
    BY <1>1 DEF PiecePlaced
<1>2. CASE s # Absent
    <2>1. r.status # "unborn" /\ x \in PiecesOf(r) /\ n = NodeFor(x, r)
        BY <1>2 DEF PiecePlaced
    <2>2. z.status # "unborn" /\ SameNodes(r, z)
        BY <2>1 DEF Keeps
    <2>3. PiecesOf(r) = PiecesOf(z) /\ NodeFor(x, r) = NodeFor(x, z)
        BY <2>2, SamePlaces
    <2> QED BY <2>1, <2>2, <2>3 DEF PiecePlaced
<1> QED BY <1>1, <1>2

\* It is enough to look at what a step changed.
LEMMA PlaceFrame ==
    ASSUME PlaceInv, Keeps(row, row'),
           \A q \in Procs : proc'[q] = proc[q] \/ ProcPlaced(q, proc'[q], row'),
           \A l \in late' : l \in late \/ LatePlaced(l, row'),
           \A n \in Nodes, x \in Pieces :
              piece'[n][x] = piece[n][x] \/ PiecePlaced(n, x, piece'[n][x], row')
    PROVE  PlaceInv'
<1>1. \A p \in Procs : ProcPlaced(p, proc[p], row')
    BY ProcStays DEF PlaceInv
<1>2. \A l \in late : LatePlaced(l, row')
    BY LateStays DEF PlaceInv
<1>3. \A n \in Nodes, x \in Pieces : PiecePlaced(n, x, piece[n][x], row')
    BY PieceStays DEF PlaceInv
<1>4. \A p \in Procs : ProcPlaced(p, proc'[p], row')
    BY <1>1
<1>5. \A l \in late' : LatePlaced(l, row')
    BY <1>2
<1>6. \A n \in Nodes, x \in Pieces : PiecePlaced(n, x, piece'[n][x], row')
    BY <1>3
<1>7. PlaceInv' <=> /\ \A p \in Procs : ProcPlaced(p, proc'[p], row')
                    /\ \A l \in late' : LatePlaced(l, row')
                    /\ \A n \in Nodes, x \in Pieces : PiecePlaced(n, x, piece'[n][x], row')
    BY DEF PlaceInv, ProcPlaced, LatePlaced, PiecePlaced, Placed, Near, SameNodes, Involves,
           PiecesOf, NodeFor, IsTunnelForward
<1> QED BY <1>4, <1>5, <1>6, <1>7

LEMMA KeepsIs ==
    ASSUME NEW r, NEW z, r.tunnel = z.tunnel, r.status = "unborn" <=> z.status = "unborn",
           r.status = "deleted" => z.status = "deleted"
    PROVE  Keeps(r, z)
BY DEF Keeps, SameNodes

LEMMA CoversPlaced ==
    ASSUME NEW s, NEW verb, NEW mode, NEW r, NEW X, NEW z, Covers(s, verb, mode, r, X),
           Near(r, z), X \subseteq PiecesOf(r),
           \/ verb = "delete" /\ mode \in {"ignore", "absent"}
           \/ verb \notin {"delete", "purge"}
    PROVE  \A i \in DOMAIN s : Placed(s[i], z)
<1> SUFFICES ASSUME NEW i \in DOMAIN s PROVE Placed(s[i], z)
    OBVIOUS
<1>1. s[i].verb = verb /\ s[i].mode = mode /\ s[i].row = r /\ s[i].piece \in PiecesOf(r)
    BY DEF Covers
<1>2. PiecesOf(r) = PiecesOf(z)
    BY SamePlaces DEF Near
<1> QED BY <1>1, <1>2 DEF Placed

LEMMA BothPlaced ==
    ASSUME NEW s \in Seq(Commands), NEW t \in Seq(Commands), NEW z,
           \A i \in DOMAIN s : Placed(s[i], z), \A i \in DOMAIN t : Placed(t[i], z)
    PROVE  \A i \in DOMAIN (s \o t) : Placed((s \o t)[i], z)
<1> SUFFICES ASSUME NEW i \in DOMAIN (s \o t) PROVE Placed((s \o t)[i], z)
    OBVIOUS
<1>1. \/ i \in DOMAIN s /\ (s \o t)[i] = s[i]
      \/ i - Len(s) \in DOMAIN t /\ (s \o t)[i] = t[i - Len(s)]
    OBVIOUS
<1> QED BY <1>1

\* What a handler sends when it starts is for the nodes of the row.
LEMMA BeginsPlaced ==
    ASSUME TypeOK, NEW p \in Requests, NEW op \in RequestOps, NEW todo \in Seq(Commands),
           NEW r \in Rows, Start(p, op, todo, r), Begins(op, todo, r), row' \in Rows, StaysPut'
    PROVE  /\ Keeps(row, row') /\ ProcPlaced(p, proc'[p], row')
           /\ \A q \in Procs : q # p => proc'[q] = proc[q]
           /\ piece' = piece /\ late' = late
<1>1. p \in Procs /\ op \in Ops /\ row \in Rows
    BY DEF Procs, RequestOps, Ops, TypeOK
<1>2. /\ \A q \in Procs : q # p => proc'[q] = proc[q]
      /\ proc'[p].op = op /\ proc'[p].todo = todo /\ proc'[p].row = r /\ proc'[p].names = {}
      /\ piece' = piece /\ late' = late
    BY <1>1, StartIs
<1>3. /\ Covers(createGostServices(r), "add", "create", r, PiecesOf(r))
      /\ Covers(syncGostServices(r), "update", "upsert", r, PiecesOf(r))
      /\ \A mode \in {"ignore", "absent"} :
            Covers(deleteGostServices(row, mode), "delete", mode, row, PiecesOf(row))
    BY <1>1, Scripts
<1>4. /\ \A mode \in {"must", "ignore"} : Covers(ServiceCalls("pause", row, mode), "pause", mode,
                                                 row, PiecesOf(row) \ {"chain"})
      /\ Covers(ServiceCalls("resume", row, "must"), "resume", "must", row,
                PiecesOf(row) \ {"chain"})
    BY <1>1, ScriptOfTwo DEF Verbs, Modes
<1>5. CASE op = "create"
    <2>1. row.status = "unborn" /\ row' = r /\ r.status = "active" /\ todo = createGostServices(r)
        BY <1>5 DEF Begins, Exists
    <2>2. Near(r, row') /\ Keeps(row, row')
        BY <2>1 DEF Near, SameNodes, Keeps
    <2>3. \A i \in DOMAIN todo : Placed(todo[i], row')
        BY <1>3, <2>1, <2>2, CoversPlaced
    <2> QED BY <1>2, <2>1, <2>2, <2>3, <1>5 DEF ProcPlaced
<1>6. CASE op # "create"
    <2>1. Exists(row) /\ row' = row /\ row.status # "unborn"
        BY <1>6 DEF Begins, Exists
    <2>2. Near(row, row') /\ Keeps(row, row')
        BY <2>1 DEF Near, SameNodes, Keeps
    <2>3. r.status # "unborn" /\ Near(r, row')
        <3>1. CASE op = "move"
            <4>1. SameNodes(proc'[p].row, row')
                BY <1>2, <3>1 DEF StaysPut, SameNodes
            <4>2. r.status = "active"
                BY <2>1, <3>1 DEF Begins
            <4> QED BY <4>1, <4>2, <2>1, <1>2 DEF Near
        <3>2. CASE op = "update"
            <4>1. r.status = "active" /\ r.tunnel = row.tunnel
                BY <2>1, <3>2 DEF Begins
            <4> QED BY <4>1, <2>1 DEF Near, SameNodes
        <3>3. CASE op # "move" /\ op # "update"
            <4>1. r = row
                BY <3>3, <1>6 DEF Begins
            <4> QED BY <4>1, <2>1, <2>2
        <3> QED BY <3>1, <3>2, <3>3
    <2>4. \A mode \in {"ignore", "absent"} :
             \A i \in DOMAIN deleteGostServices(row, mode) :
                Placed(deleteGostServices(row, mode)[i], row')
        BY <1>3, <2>2, CoversPlaced
    <2>5. \A i \in DOMAIN createGostServices(r) : Placed(createGostServices(r)[i], row')
        BY <1>3, <2>3, CoversPlaced
    <2>6. \A i \in DOMAIN syncGostServices(r) : Placed(syncGostServices(r)[i], row')
        BY <1>3, <2>3, CoversPlaced
    <2>7. \A i \in DOMAIN hotUpdate(r) : Placed(hotUpdate(r)[i], row')
        <3> DEFINE c == Command("retarget", "hot", r, Carrier(r))
        <3>1. Carrier(r) \in Pieces /\ Carrier(r) \in PiecesOf(r)
            BY PiecesAre
        <3>2. /\ c \in Commands /\ c.verb = "retarget" /\ c.row = r /\ c.piece = Carrier(r)
            BY <3>1, CommandIs DEF Verbs, Modes
        <3>3. hotUpdate(r) = <<c>> \o syncGostServices(r)
            BY DEF hotUpdate
        <3> HIDE DEF c
        <3>4. PiecesOf(r) = PiecesOf(row')
            BY <2>3, SamePlaces DEF Near
        <3>5. Placed(c, row')
            BY <3>1, <3>2, <3>4, <2>3 DEF Placed
        <3>6. <<c>> \in Seq(Commands) /\ \A i \in DOMAIN <<c>> : <<c>>[i] = c
            BY <3>2
        <3>7. syncGostServices(r) \in Seq(Commands)
            BY CommandLists
        <3>8. \A i \in DOMAIN <<c>> : Placed(<<c>>[i], row')
            BY <3>5, <3>6
        <3> QED BY <3>3, <3>6, <3>7, <3>8, <2>6, BothPlaced
    <2>8. \A i \in DOMAIN (deleteGostServices(row, "ignore") \o createGostServices(r)) :
             Placed((deleteGostServices(row, "ignore") \o createGostServices(r))[i], row')
        <3>1. deleteGostServices(row, "ignore") \in Seq(Commands) /\ createGostServices(r) \in Seq(Commands)
            BY <1>1, CommandLists
        <3> QED BY <3>1, <2>4, <2>5, BothPlaced
    <2>9. /\ \A mode \in {"must", "ignore"} : \A i \in DOMAIN ServiceCalls("pause", row, mode) :
                Placed(ServiceCalls("pause", row, mode)[i], row')
          /\ \A i \in DOMAIN ServiceCalls("resume", row, "must") :
                Placed(ServiceCalls("resume", row, "must")[i], row')
        BY <1>4, <2>2, CoversPlaced
    <2>10. DOMAIN <<>> = {}
        OBVIOUS
    <2>11. \A i \in DOMAIN todo : Placed(todo[i], row')
        <3>1. CASE op = "move"
            BY <3>1, <2>1, <2>8 DEF Begins
        <3>2. CASE op = "update"
            BY <3>2, <2>1, <2>6, <2>7, <2>10 DEF Begins
        <3>3. CASE op \in {"pause", "quota", "resume"}
            BY <3>3, <2>1, <2>9 DEF Begins
        <3>4. CASE op = "delete"
            BY <3>4, <2>1, <2>4, <2>10 DEF Begins
        <3> QED BY <3>1, <3>2, <3>3, <3>4, <1>6 DEF RequestOps
    <2>12. op # "purge"
        BY DEF RequestOps
    <2> QED BY <1>2, <2>2, <2>3, <2>11, <2>12 DEF ProcPlaced
<1> QED BY <1>5, <1>6

\* b is a command of todo, or what the handler makes of c, one of them.
Follows(b, c, todo) ==
    \/ \E j \in DOMAIN todo : b = todo[j]
    \/ /\ b.row = c.row /\ b.piece = c.piece
       /\ b.verb \in {"add", "retarget"} /\ c.mode \in {"upsert", "gentle"}
    \/ b.verb = "delete" /\ b.mode = "ignore" /\ b.row = c.row

LEMMA AnswerFollows ==
    ASSUME NEW d \in ProcStates, d.todo # <<>>, NEW res \in Results
    PROVE  \A i \in DOMAIN Answered(d, res).todo :
              Follows(Answered(d, res).todo[i], Head(d.todo), d.todo)
BY AnswersAre DEF Follows

\* What is left to do after an answer stays on the nodes of the row.
LEMMA AnswerPlaced ==
    ASSUME NEW d \in ProcStates, d.todo # <<>>, NEW res \in Results, NEW p, NEW z,
           ProcPlaced(p, d, z)
    PROVE  ProcPlaced(p, Answered(d, res), z)
<1> PICK c \in Commands : c = Head(d.todo)
    BY TodoIs DEF ProcStates
<1> PICK a : a = Answered(d, res)
    OBVIOUS
<1>1. a.op = d.op /\ a.row = d.row /\ a.names = d.names
    BY AnswersAre
<1>2. \A i \in DOMAIN a.todo : Follows(a.todo[i], c, d.todo)
    BY AnswerFollows
<1>3. 1 \in DOMAIN d.todo /\ c = d.todo[1]
    BY TodoIs DEF ProcStates
<1>4. Placed(c, z)
    BY <1>3 DEF ProcPlaced
<1>5. \A i \in DOMAIN a.todo : Placed(a.todo[i], z)
    <2> SUFFICES ASSUME NEW i \in DOMAIN a.todo PROVE Placed(a.todo[i], z)
        OBVIOUS
    <2> PICK b : b = a.todo[i]
        OBVIOUS
    <2>1. CASE \E j \in DOMAIN d.todo : b = d.todo[j]
        BY <2>1 DEF ProcPlaced
    <2>2. CASE /\ b.row = c.row /\ b.piece = c.piece
               /\ b.verb \in {"add", "retarget"} /\ c.mode \in {"upsert", "gentle"}
        BY <2>2, <1>4 DEF Placed
    <2>3. CASE b.verb = "delete" /\ b.mode = "ignore" /\ b.row = c.row
        BY <2>3, <1>4 DEF Placed
    <2> QED BY <2>1, <2>2, <2>3, <1>2 DEF Follows
<1>6. d # Idle
    BY IdleIs
<1> QED BY <1>1, <1>5, <1>6 DEF ProcPlaced

\* What a command leaves is where the row has it.
LEMMA EffectPlaced ==
    ASSUME NEW c \in Commands, NEW s \in PieceStates, NEW e \in Effects(c, s), NEW m, NEW z,
           PiecePlaced(m, c.piece, s, z),
           c.verb = "purge" \/ (Placed(c, z) /\ m = NodeFor(c.piece, c.row))
    PROVE  PiecePlaced(m, c.piece, e[2], z)
<1>1. CASE c.verb = "add"
    <2>1. Near(c.row, z) /\ c.piece \in PiecesOf(z) /\ m = NodeFor(c.piece, c.row)
        BY <1>1 DEF Placed
    <2>2. NodeFor(c.piece, c.row) = NodeFor(c.piece, z)
        BY <2>1, SamePlaces DEF Near
    <2> QED BY <2>1, <2>2 DEF PiecePlaced, Near
<1>2. CASE c.verb # "add"
    <2>1. e[2] # Absent => s # Absent
        BY <1>2, EffectsAre
    <2> QED BY <2>1 DEF PiecePlaced
<1> QED BY <1>1, <1>2

LEMMA FinishPlaced ==
    ASSUME SyncTypeInv, PlaceInv, StaysPut, NEW p \in Requests, Finish(p)
    PROVE  PlaceInv'
<1>1. p \in Procs /\ TypeOK /\ row \in Rows
    BY DEF Procs, SyncTypeInv, TypeOK
<1>2. /\ proc'[p] = Idle /\ \A q \in Procs : q # p => proc'[q] = proc[q]
      /\ proc[p].op \in RequestOps /\ proc[p].row \in Rows
      /\ row' = (IF Exists(row) THEN Written(proc[p]) ELSE row)
      /\ piece' = piece /\ late' = late
    BY FinishIs
<1> PICK d \in ProcStates : d = proc[p]
    BY <1>1, ProcIs
<1>3. d.row \in Rows /\ d.op \in RequestOps
    BY <1>2
<1>4. Keeps(row, row')
    <2>1. CASE ~Exists(row)
        BY <2>1, <1>2 DEF Keeps, SameNodes
    <2>2. CASE Exists(row)
        <3>1. row' = Written(d) /\ row.status # "unborn" /\ row.status # "deleted"
            BY <2>2, <1>2 DEF Exists
        <3>2. ProcPlaced(p, d, row)
            BY <1>1 DEF PlaceInv
        <3>3. d # Idle /\ d.op \notin ReconcileOps
            BY <1>3, IdleIs DEF RequestOps, ReconcileOps
        <3>4. d.row.status # "unborn" /\ Near(d.row, row)
            BY <3>2, <3>3 DEF ProcPlaced
        <3>5. \/ Written(d).tunnel = row.tunnel
              \/ Written(d).tunnel = d.row.tunnel
            BY <1>1, <1>3, WrittenIs
        <3>6. Written(d).status # "unborn" \/ Written(d) = d.row
            BY <1>1, <1>3, <2>2, WrittenIs
        <3> QED BY <3>1, <3>4, <3>5, <3>6 DEF Keeps, Near, SameNodes
    <2> QED BY <2>1, <2>2
<1>5. ProcPlaced(p, proc'[p], row')
    BY <1>2, IdleIs DEF ProcPlaced
<1> QED BY <1>2, <1>4, <1>5, PlaceFrame

LEMMA ReconcilePlaced ==
    ASSUME SyncTypeInv, PlaceInv, NEW n \in Locked, Reconcile(n)
    PROVE  PlaceInv'
<1>1. row \in Rows
    BY DEF SyncTypeInv, TypeOK
<1>2. /\ \A q \in Procs : q # n => proc'[q] = proc[q]
      /\ proc'[n].op = "sync" /\ proc'[n].row = row /\ proc'[n].names = {}
      /\ proc'[n].todo = IF Exists(row) /\ Involves(n, row) THEN gentleSync(row) ELSE <<>>
      /\ row' = row /\ piece' = piece /\ late' = late
    BY ReconcileIs
<1>3. Keeps(row, row')
    BY <1>2 DEF Keeps, SameNodes
<1>4. Exists(row) => Near(row, row')
    BY <1>2 DEF Exists, Near, SameNodes
<1>5. Covers(gentleSync(row), "add", "gentle", row, PiecesOf(row))
    BY <1>1, Scripts
<1>6. \A i \in DOMAIN proc'[n].todo : Placed(proc'[n].todo[i], row')
    <2>1. CASE Exists(row) /\ Involves(n, row)
        BY <2>1, <1>2, <1>4, <1>5, CoversPlaced
    <2>2. CASE ~(Exists(row) /\ Involves(n, row))
        <3>1. proc'[n].todo = <<>> /\ DOMAIN <<>> = {}
            BY <2>2, <1>2
        <3> QED BY <3>1
    <2> QED BY <2>1, <2>2
<1>7. row.status = "unborn" \/ Near(row, row')
    BY <1>2 DEF Near, SameNodes
<1>8. ProcPlaced(n, proc'[n], row')
    BY <1>2, <1>6, <1>7 DEF ProcPlaced, ReconcileOps
<1> QED BY <1>2, <1>3, <1>8, PlaceFrame

LEMMA SettlePlaced ==
    ASSUME SyncTypeInv, PlaceInv, NEW n \in Locked, Settle(n)
    PROVE  PlaceInv'
<1>1. n \in Procs /\ n \in Nodes /\ TypeOK
    BY SyncAssumption DEF Procs, SyncTypeInv
<1>2. /\ \A q \in Procs : q # n => proc'[q] = proc[q]
      /\ proc[n].op = "sync" /\ proc[n].row \in Rows
      /\ proc'[n].op = "pauses" /\ proc'[n].row = proc[n].row /\ proc'[n].names = proc[n].names
      /\ proc'[n].todo = (IF proc[n].row.status = "paused" /\ Involves(n, proc[n].row)
                          THEN PausesOn(n, proc[n].row) ELSE <<>>)
      /\ row'.tunnel = row.tunnel /\ piece' = piece /\ late' = late
    BY SettleIs
<1>3. Keeps(row, row')
    BY SettleIs, KeepsIs
<1> PICK r \in Rows : r = proc[n].row
    BY <1>2
<1>4. ProcPlaced(n, proc[n], row')
    BY <1>1, <1>3, ProcStays DEF PlaceInv
<1>5. proc[n] # Idle
    BY <1>2, IdleIs
<1>6. r.status # "unborn" => Near(r, row')
    BY <1>4, <1>5 DEF ProcPlaced
<1>7. \A i \in DOMAIN proc'[n].todo : Placed(proc'[n].todo[i], row')
    <2>1. CASE r.status = "paused" /\ Involves(n, r)
        <3>1. Covers(PausesOn(n, r), "pause", "ignore", r,
                     {x \in PiecesOf(r) \ {"chain"} : NodeFor(x, r) = n})
            BY <1>1, PausesAre
        <3>2. {x \in PiecesOf(r) \ {"chain"} : NodeFor(x, r) = n} \subseteq PiecesOf(r)
            OBVIOUS
        <3>3. \A i \in DOMAIN PausesOn(n, r) : Placed(PausesOn(n, r)[i], row')
            BY <3>1, <3>2, <2>1, <1>6, CoversPlaced
        <3> QED BY <3>3, <2>1, <1>2
    <2>2. CASE ~(r.status = "paused" /\ Involves(n, r))
        <3>1. proc'[n].todo = <<>> /\ DOMAIN <<>> = {}
            BY <2>2, <1>2
        <3> QED BY <3>1
    <2> QED BY <2>1, <2>2
<1>8. (r.status # "unborn" /\ Near(r, row')) \/ r.status = "unborn"
    BY <1>6
<1>9. ProcPlaced(n, proc'[n], row')
    BY <1>2, <1>4, <1>7, <1>8 DEF ProcPlaced, ReconcileOps
<1> QED BY <1>2, <1>3, <1>9, PlaceFrame

\* A reconciliation goes on without new commands.
LEMMA MovesPlaced ==
    ASSUME NEW n, NEW d, NEW e, NEW z, ProcPlaced(n, d, z),
           d.op \in ReconcileOps, e.op \in ReconcileOps, e.row = d.row,
           e.todo = d.todo \/ e.todo = <<>>,
           e.names # {} => z.status # "unborn" /\ Involves(n, z),
           e.op = "purge" => z.status = "deleted"
    PROVE  ProcPlaced(n, e, z)
<1>1. d # Idle
    BY IdleIs DEF ReconcileOps
<1>2. DOMAIN <<>> = {}
    OBVIOUS
<1>3. \A i \in DOMAIN e.todo : Placed(e.todo[i], z)
    BY <1>2 DEF ProcPlaced
<1> QED BY <1>1, <1>3 DEF ProcPlaced

LEMMA NamesPlaced ==
    ASSUME SyncTypeInv, PlaceInv, NEW n \in Locked, Names(n)
    PROVE  PlaceInv'
<1>1. n \in Procs /\ n \in Nodes
    BY SyncAssumption DEF Procs
<1>2. /\ \A q \in Procs : q # n => proc'[q] = proc[q]
      /\ proc[n].op = "pauses" /\ proc'[n].todo = <<>> /\ proc'[n].row = proc[n].row
      /\ \/ proc'[n].op = "query" /\ proc'[n].names = ServicesOn(n)
         \/ proc'[n].op = "end" /\ proc'[n].names = proc[n].names
      /\ UNCHANGED <<row, piece, late>>
    BY NamesIs
<1>3. Keeps(row, row')
    BY <1>2, KeepsIs
<1>4. ProcPlaced(n, proc[n], row')
    BY <1>1, <1>3, ProcStays DEF PlaceInv
<1>5. ASSUME ServicesOn(n) # {} PROVE row.status # "unborn" /\ Involves(n, row)
    <2>1. PICK x \in Pieces : Registered(piece[n][x])
        BY <1>5 DEF ServicesOn, Pieces
    <2>2. piece[n][x] # Absent
        BY <2>1 DEF Registered
    <2>3. row.status # "unborn" /\ x \in PiecesOf(row) /\ n = NodeFor(x, row)
        BY <2>2, <1>1 DEF PlaceInv, PiecePlaced
    <2> QED BY <2>3 DEF Involves
<1>6. proc'[n].names # {} => row'.status # "unborn" /\ Involves(n, row')
    BY <1>2, <1>4, <1>5 DEF ProcPlaced
<1>7. ProcPlaced(n, proc'[n], row')
    BY <1>2, <1>4, <1>6, MovesPlaced DEF ReconcileOps
<1> QED BY <1>2, <1>3, <1>7, PlaceFrame

LEMMA QueryPlaced ==
    ASSUME SyncTypeInv, PlaceInv, NEW n \in Locked, Query(n)
    PROVE  PlaceInv'
<1>1. n \in Procs
    BY DEF Procs
<1>2. /\ \A q \in Procs : q # n => proc'[q] = proc[q]
      /\ proc[n].op = "query" /\ proc'[n].todo = proc[n].todo
      /\ proc'[n].row = proc[n].row /\ proc'[n].names = proc[n].names
      /\ proc'[n].op = IF ~(Exists(row) /\ Involves(n, row)) /\ proc[n].names # {}
                       THEN "purge" ELSE "end"
      /\ UNCHANGED <<row, piece, late>>
    BY QueryIs
<1>3. Keeps(row, row')
    BY <1>2, KeepsIs
<1>4. ProcPlaced(n, proc[n], row')
    BY <1>1, <1>3, ProcStays DEF PlaceInv
<1>5. proc[n].names # {} => row'.status # "unborn" /\ Involves(n, row')
    BY <1>4 DEF ProcPlaced
<1>6. proc'[n].op = "purge" => row'.status = "deleted"
    BY <1>2, <1>5 DEF Exists
<1>7. proc'[n].op \in ReconcileOps
    BY <1>2 DEF ReconcileOps
<1>8. ProcPlaced(n, proc'[n], row')
    BY <1>2, <1>4, <1>5, <1>6, <1>7, MovesPlaced DEF ReconcileOps
<1> QED BY <1>2, <1>3, <1>8, PlaceFrame

LEMMA PurgePlaced ==
    ASSUME SyncTypeInv, PlaceInv, NEW n \in Locked, Purge(n) \/ PurgeFails(n)
    PROVE  PlaceInv'
<1>1. n \in Procs
    BY DEF Procs
<1>2. proc[n].op = "purge" /\ proc' = [proc EXCEPT ![n].op = "end"] /\ row' = row
    BY PurgeIs, PurgeFailsIs
<1>3. /\ \A q \in Procs : q # n => proc'[q] = proc[q]
      /\ proc'[n].todo = proc[n].todo /\ proc'[n].row = proc[n].row
      /\ proc'[n].names = proc[n].names /\ proc'[n].op = "end"
    BY <1>2, EndIs
<1>4. Keeps(row, row')
    BY <1>2, KeepsIs
<1>5. ProcPlaced(n, proc[n], row')
    BY <1>1, <1>4, ProcStays DEF PlaceInv
<1>6. row'.status = "deleted" /\ (proc[n].names # {} => row'.status # "unborn" /\ Involves(n, row'))
    BY <1>2, <1>5 DEF ProcPlaced
<1>7. ProcPlaced(n, proc'[n], row')
    BY <1>2, <1>3, <1>5, <1>6, MovesPlaced DEF ReconcileOps
<1>8. CASE Purge(n)
    <2>1. late' = late /\ \A m \in Nodes, x \in Pieces : piece'[m][x] \in {Absent, piece[m][x]}
        BY <1>8, PurgeIs
    <2>2. \A m \in Nodes, x \in Pieces :
             piece'[m][x] = piece[m][x] \/ PiecePlaced(m, x, piece'[m][x], row')
        BY <2>1 DEF PiecePlaced
    <2> QED BY <2>1, <2>2, <1>3, <1>4, <1>7, PlaceFrame
<1>9. CASE PurgeFails(n)
    <2>1. piece' = piece
        BY <1>9, PurgeFailsIs
    <2>3. ASSUME late' # late
          PROVE  \A l \in late' : l \in late \/ l.cmd.verb = "purge"
        <3>1. PICK x \in Pieces :
                 LET c == Command("purge", "ignore", proc[n].row, x)
                 IN  /\ c.verb = "purge" /\ late' = late \cup {[at |-> n, cmd |-> c]}
            BY <1>9, <2>3, PurgeFailsIs
        <3> PICK c : c = Command("purge", "ignore", proc[n].row, x)
            OBVIOUS
        <3>2. c.verb = "purge" /\ late' = late \cup {[at |-> n, cmd |-> c]}
            BY <3>1
        <3> QED BY <3>2
    <2>2. \A l \in late' : l \in late \/ LatePlaced(l, row')
        BY <2>3, <1>6 DEF LatePlaced
    <2> QED BY <2>1, <2>2, <1>3, <1>4, <1>7, PlaceFrame
<1> QED BY <1>8, <1>9

LEMMA CallPlaced ==
    ASSUME SyncTypeInv, PlaceInv, NEW p \in Procs, Call(p)
    PROVE  PlaceInv'
<1>1. /\ \A q \in Procs : q # p => proc'[q] = proc[q]
      /\ row' = row /\ late' = late
    BY CallIs
<1>2. Keeps(row, row')
    BY <1>1, KeepsIs
<1>3. PICK d \in ProcStates, c \in Commands, m \in Nodes, s \in PieceStates :
           /\ d = proc[p] /\ d.todo # <<>> /\ c = d.todo[1] /\ 1 \in DOMAIN d.todo
           /\ m = NodeFor(c.piece, c.row) /\ s = piece[m][c.piece] /\ c.piece \in Pieces
           /\ \E e \in Effects(c, s) :
              /\ e[1] \in Results /\ e[2] \in PieceStates
              /\ \A k \in Nodes, x \in Pieces :
                    piece'[k][x] = IF k = m /\ x = c.piece THEN e[2] ELSE piece[k][x]
              /\ proc'[p] = Answered(d, e[1])
    BY CallSays
<1>4. PICK e \in Effects(c, s) :
              /\ e[1] \in Results /\ e[2] \in PieceStates
              /\ \A k \in Nodes, x \in Pieces :
                    piece'[k][x] = IF k = m /\ x = c.piece THEN e[2] ELSE piece[k][x]
              /\ proc'[p] = Answered(d, e[1])
    BY <1>3
<1>5. ProcPlaced(p, d, row')
    BY <1>1, <1>3 DEF PlaceInv
<1>6. ProcPlaced(p, proc'[p], row')
    <2> PICK res \in Results : res = e[1]
        BY <1>4
    <2>1. ProcPlaced(p, Answered(d, res), row')
        BY <1>3, <1>5, AnswerPlaced
    <2>2. proc'[p] = Answered(d, res)
        BY <1>4
    <2> QED BY <2>1, <2>2
<1>7. Placed(c, row')
    BY <1>3, <1>5 DEF ProcPlaced
<1>8. PiecePlaced(m, c.piece, s, row')
    BY <1>1, <1>3 DEF PlaceInv
<1>9. PiecePlaced(m, c.piece, e[2], row')
    BY <1>3, <1>7, <1>8, EffectPlaced
<1>10. \A k \in Nodes, x \in Pieces :
           piece'[k][x] = piece[k][x] \/ PiecePlaced(k, x, piece'[k][x], row')
    BY <1>4, <1>9
<1> QED BY <1>1, <1>2, <1>6, <1>10, PlaceFrame

LEMMA CallFailsPlaced ==
    ASSUME SyncTypeInv, PlaceInv, NEW p \in Procs, CallFails(p)
    PROVE  PlaceInv'
<1>1. /\ \A q \in Procs : q # p => proc'[q] = proc[q]
      /\ proc[p].todo # <<>> /\ Sent(p) \in Commands
      /\ row' = row /\ proc'[p] = Answered(proc[p], "failed")
      /\ \/ UNCHANGED <<piece, late>>
         \/ /\ At(p) \in Nodes /\ late' = late
            /\ \E e \in Effects(Sent(p), piece[At(p)][Sent(p).piece]) :
                  e[2] \in PieceStates /\ Leaves(At(p), Sent(p).piece, e[2])
         \/ /\ late' = late \cup {[at |-> At(p), cmd |-> Sent(p)]}
            /\ piece' = piece
    BY CallFailsIs
<1>2. Keeps(row, row') /\ TypeOK
    BY <1>1, KeepsIs DEF SyncTypeInv
<1> PICK d \in ProcStates : d = proc[p]
    BY <1>2, ProcIs
<1> PICK c \in Commands : c = Sent(p)
    BY <1>1
<1>3. c = d.todo[1] /\ 1 \in DOMAIN d.todo /\ c.piece \in Pieces
    BY <1>1, TodoIs, CommandParts DEF Sent, ProcStates
<1>4. ProcPlaced(p, d, row')
    BY <1>1 DEF PlaceInv
<1>5. ProcPlaced(p, proc'[p], row')
    BY <1>1, <1>4, AnswerPlaced DEF Results
<1>6. Placed(c, row')
    BY <1>3, <1>4 DEF ProcPlaced
<1> PICK m : m = NodeFor(c.piece, c.row)
    OBVIOUS
<1>7. m = At(p)
    BY DEF At
<1>8. CASE UNCHANGED <<piece, late>>
    BY <1>8, <1>1, <1>2, <1>5, PlaceFrame
<1>9. CASE /\ m \in Nodes /\ late' = late
           /\ \E e \in Effects(c, piece[m][c.piece]) :
                 e[2] \in PieceStates /\ Leaves(m, c.piece, e[2])
    <2> PICK s \in PieceStates : s = piece[m][c.piece]
        BY <1>2, <1>3, <1>9, PieceIs
    <2>1. PICK e \in Effects(c, s) : e[2] \in PieceStates /\ Leaves(m, c.piece, e[2])
        BY <1>9
    <2>2. \A k \in Nodes, y \in Pieces :
                 piece'[k][y] = IF k = m /\ y = c.piece THEN e[2] ELSE piece[k][y]
    <3> PICK u \in PieceStates : u = e[2] /\ Leaves(m, c.piece, u)
        BY <2>1
    <3> PICK x \in Pieces : x = c.piece
        BY <1>3
    <3>1. TypeOK /\ m \in Nodes /\ Leaves(m, x, u)
        BY <1>2, <1>9
    <3>2. \A k \in Nodes, y \in Pieces :
                 piece'[k][y] = IF k = m /\ y = x THEN u ELSE piece[k][y]
        BY <3>1, LeavesIs
    <3> QED BY <3>2
    <2>3. PiecePlaced(m, c.piece, s, row')
        BY <1>1, <1>3, <1>9 DEF PlaceInv
    <2>4. PiecePlaced(m, c.piece, e[2], row')
        BY <2>3, <1>6, EffectPlaced
    <2>5. \A k \in Nodes, x \in Pieces :
             piece'[k][x] = piece[k][x] \/ PiecePlaced(k, x, piece'[k][x], row')
        BY <2>2, <2>4
    <2> QED BY <2>5, <1>1, <1>2, <1>5, <1>9, PlaceFrame
<1>10. CASE late' = late \cup {[at |-> m, cmd |-> c]} /\ piece' = piece
    <2>1. LatePlaced([at |-> m, cmd |-> c], row')
        BY <1>6 DEF LatePlaced
    <2> QED BY <2>1, <1>1, <1>2, <1>5, <1>10, PlaceFrame
<1> QED BY <1>1, <1>7, <1>8, <1>9, <1>10

LEMMA RunLatePlaced ==
    ASSUME SyncTypeInv, PlaceInv, RunLate
    PROVE  PlaceInv'
<1>1. PICK l \in late :
         /\ late' = late \ {l} /\ l.at \in Nodes /\ l.cmd \in Commands
         /\ \E e \in Effects(l.cmd, piece[l.at][l.cmd.piece]) :
               e[2] \in PieceStates /\ Leaves(l.at, l.cmd.piece, e[2])
    BY RunLateIs
<1>2. UNCHANGED <<row, online, proc>> /\ TypeOK
    BY RunLateIs DEF SyncTypeInv
<1>3. Keeps(row, row')
    BY <1>2, KeepsIs
<1> PICK m \in Nodes, c \in Commands : m = l.at /\ c = l.cmd
    BY <1>1
<1>4. c.piece \in Pieces
    BY CommandParts
<1> PICK s \in PieceStates : s = piece[m][c.piece]
    BY <1>2, <1>4, PieceIs
<1>5. PICK e \in Effects(c, s) : e[2] \in PieceStates /\ Leaves(m, c.piece, e[2])
    BY <1>1
<1>6. \A k \in Nodes, y \in Pieces :
         piece'[k][y] = IF k = m /\ y = c.piece THEN e[2] ELSE piece[k][y]
    BY <1>2, <1>4, <1>5, LeavesIs
<1>7. LatePlaced(l, row') /\ PiecePlaced(m, c.piece, s, row')
    BY <1>2, <1>4 DEF PlaceInv
<1>8. PiecePlaced(m, c.piece, e[2], row')
    BY <1>7, EffectPlaced DEF LatePlaced
<1>9. \A k \in Nodes, x \in Pieces :
         piece'[k][x] = piece[k][x] \/ PiecePlaced(k, x, piece'[k][x], row')
    BY <1>6, <1>8
<1> QED BY <1>1, <1>2, <1>3, <1>9, PlaceFrame

LEMMA RestartPlaced ==
    ASSUME SyncTypeInv, PlaceInv, NEW n \in Nodes, Restart(n)
    PROVE  PlaceInv'
<1>1. /\ \A m \in Nodes, x \in Pieces :
                 piece'[m][x] = IF m = n /\ piece[n][x] # Absent
                                THEN In("running", piece[n][x]) ELSE piece[m][x]
      /\ late' \subseteq late /\ UNCHANGED <<row, proc>>
    BY RestartIs DEF SyncTypeInv
<1>2. Keeps(row, row')
    BY <1>1, KeepsIs
<1>3. \A m \in Nodes, x \in Pieces :
         piece'[m][x] = piece[m][x] \/ PiecePlaced(m, x, piece'[m][x], row')
    BY <1>1 DEF PlaceInv, PiecePlaced
<1> QED BY <1>1, <1>2, <1>3, PlaceFrame

LEMMA StepPlaced ==
    SyncTypeInv /\ PlaceInv /\ StaysPut /\ StaysPut' /\ [Next]_vars => PlaceInv'
<1> SUFFICES ASSUME SyncTypeInv, PlaceInv, StaysPut, StaysPut', [Next]_vars
             PROVE  PlaceInv'
    OBVIOUS
<1>1. TypeOK
    BY DEF SyncTypeInv
<1>2. ASSUME NEW p \in Requests, Request(p)
      PROVE  PlaceInv'
    <2>1. CASE Finish(p)
        BY <2>1, FinishPlaced
    <2>2. CASE ~Finish(p)
        <3>1. PICK op \in RequestOps, todo \in Seq(Commands), r \in Rows :
                 Start(p, op, todo, r) /\ Begins(op, todo, r) /\ row' \in Rows
            BY <1>1, <1>2, <2>2, RequestBegins
        <3>2. /\ Keeps(row, row') /\ ProcPlaced(p, proc'[p], row')
              /\ \A q \in Procs : q # p => proc'[q] = proc[q]
              /\ piece' = piece /\ late' = late
            BY <1>1, <3>1, BeginsPlaced
        <3> QED BY <3>2, PlaceFrame
    <2> QED BY <2>1, <2>2
<1>3. ASSUME NEW p \in Procs, Call(p) \/ CallFails(p)
      PROVE  PlaceInv'
    BY <1>3, CallPlaced, CallFailsPlaced
<1>4. ASSUME NEW n \in Locked, Reconciliation(n)
      PROVE  PlaceInv'
    <2>1. CASE Unlock(n)
        <3>1. /\ proc'[n] = Idle /\ \A q \in Procs : q # n => proc'[q] = proc[q]
              /\ UNCHANGED <<row, piece, late>>
            BY <2>1, UnlockIs
        <3>2. ProcPlaced(n, proc'[n], row')
            BY <3>1, IdleIs DEF ProcPlaced
        <3>3. Keeps(row, row')
            BY <3>1, KeepsIs
        <3> QED BY <3>1, <3>2, <3>3, PlaceFrame
    <2> QED BY <2>1, <1>4, ReconcilePlaced, SettlePlaced, NamesPlaced, QueryPlaced, PurgePlaced
            DEF Reconciliation
<1>5. ASSUME UNCHANGED <<row, piece, late, proc>>
      PROVE  PlaceInv'
    <2>1. Keeps(row, row')
        BY <1>5, KeepsIs
    <2> QED BY <2>1, <1>5, PlaceFrame
<1>6. ASSUME NEW n \in Nodes, Disconnect(n) \/ Connect(n) \/ Restart(n)
      PROVE  PlaceInv'
    BY <1>5, <1>6, RestartPlaced DEF Disconnect, Connect
<1>7. UNCHANGED vars => PlaceInv'
    BY <1>5 DEF vars
<1> QED BY <1>2, <1>3, <1>4, <1>6, <1>7, RunLatePlaced DEF Next

LEMMA InitPlaced == Init => PlaceInv
<1> SUFFICES ASSUME Init PROVE PlaceInv
    OBVIOUS
<1>1. \A p \in Procs : proc[p] = Idle
    BY DEF Init
<1>2. \A p \in Procs : ProcPlaced(p, proc[p], row)
    BY <1>1, IdleIs DEF ProcPlaced
<1> QED BY <1>2 DEF Init, PlaceInv, PiecePlaced

\* As long as no request moves the forward to other nodes, whatever is created,
\* deleted, late, lost or restarted between the list of names, the query and the
\* deletion: the cleanup deletes only what belongs to a deleted forward.
THEOREM PurgesOnlyOrphans == Spec /\ []StaysPut => []OnlyOrphansPurged
<1>1. SyncTypeInv /\ PlaceInv => OnlyOrphansPurged
    <2> SUFFICES ASSUME PlaceInv, row.status # "deleted"
                 PROVE  /\ \A n \in Locked : proc[n].op # "purge"
                        /\ \A l \in late : l.cmd.verb # "purge"
        BY DEF OnlyOrphansPurged
    <2>1. \A n \in Locked : proc[n].op # "purge"
        BY DEF PlaceInv, ProcPlaced, Procs
    <2>2. \A l \in late : l.cmd.verb # "purge"
        BY DEF PlaceInv, LatePlaced, Placed
    <2> QED BY <2>1, <2>2
<1> QED BY <1>1, InitType, StepType, InitPlaced, StepPlaced, PTL DEF Spec
-----------------------------------------------------------------------------
(* Handlers that follow one another without a failure *)

\* s holds the piece x of the forward as r describes it.
Holds(s, x, r) ==
    Registered(s) /\ s.port = r.port /\ (x = Carrier(r) => s.target = r.target)

\* Only the services of the row are there, where the row has them.
Located(f, z) ==
    \A n \in Nodes, x \in Pieces :
       f[n][x] # Absent => Exists(z) /\ x \in PiecesOf(z) /\ n = NodeFor(x, z)

\* All of them are.
There(f, z) == \A x \in PiecesOf(z) : Holds(f[NodeFor(x, z)][x], x, z)

Agree(f, z) ==
    /\ Located(f, z)
    /\ Exists(z) => There(f, z)
    /\ z.status = "paused" =>
          \A x \in PiecesOf(z) \ {"chain"} : f[NodeFor(x, z)][x].state = "paused"

\* todo creates the pieces of r that are not there yet, and nothing else is there.
Making(f, todo, r) ==
    /\ \A i \in DOMAIN todo : /\ todo[i].verb = "add" /\ todo[i].mode = "create"
                              /\ todo[i].row = r /\ todo[i].piece \in PiecesOf(r)
    /\ \A i, j \in DOMAIN todo : todo[i].piece = todo[j].piece => i = j
    /\ \A n \in Nodes, x \in Pieces :
          f[n][x] # Absent => x \in PiecesOf(r) /\ n = NodeFor(x, r) /\ ~Waits(todo, x)
    /\ \A x \in PiecesOf(r) : Waits(todo, x) \/ Holds(f[NodeFor(x, r)][x], x, r)

\* todo deletes whatever is still there of the row z.
Clearing(f, todo, z) ==
    /\ \A i \in DOMAIN todo : /\ todo[i].verb = "delete" /\ todo[i].mode \in {"ignore", "absent"}
                              /\ todo[i].row = z
    /\ \A n \in Nodes, x \in Pieces :
          f[n][x] # Absent => /\ x \in PiecesOf(z) /\ n = NodeFor(x, z)
                              /\ Registered(f[n][x]) /\ Waits(todo, x)

\* First the services of the old row z, then those of the new row r.
Moving(f, todo, z, r) ==
    \/ Making(f, todo, r)
    \/ \E dels \in Seq(Commands) :
          dels # <<>> /\ todo = dels \o createGostServices(r) /\ Clearing(f, dels, z)

\* The services of z become those of r in place.
Updating(f, todo, z, r) ==
    /\ r.tunnel = z.tunnel /\ Located(f, z)
    /\ \/ todo = hotUpdate(r) /\ r.port = z.port /\ There(f, z)
       \/ /\ \A i \in DOMAIN todo : /\ todo[i].verb = "update" /\ todo[i].mode = "upsert"
                                    /\ todo[i].row = r /\ todo[i].piece \in PiecesOf(r)
          /\ \A x \in PiecesOf(r) : /\ Registered(f[NodeFor(x, r)][x])
                                    /\ Waits(todo, x) \/ Holds(f[NodeFor(x, r)][x], x, r)

\* todo pauses the services that are not paused yet.
Stopping(f, todo, z) ==
    /\ Located(f, z) /\ There(f, z)
    /\ \A i \in DOMAIN todo : /\ todo[i].verb = "pause" /\ todo[i].mode \in {"must", "ignore"}
                              /\ todo[i].row = z /\ todo[i].piece \in PiecesOf(z)
    /\ \A x \in PiecesOf(z) \ {"chain"} :
          Waits(todo, x) \/ f[NodeFor(x, z)][x].state = "paused"

Resuming(f, todo, z) ==
    /\ Located(f, z) /\ There(f, z)
    /\ \A i \in DOMAIN todo : /\ todo[i].verb = "resume" /\ todo[i].mode = "must"
                              /\ todo[i].row = z /\ todo[i].piece \in PiecesOf(z)

\* What a request d has reached, with the services f and the row z.
RequestFits(f, z, d) ==
    /\ Exists(z)
    /\ \/ d.op = "create" /\ d.row = z /\ z.status = "active" /\ Making(f, d.todo, z)
       \/ d.op = "move" /\ d.row.status = "active" /\ Moving(f, d.todo, z, d.row)
       \/ d.op = "update" /\ d.row.status = "active" /\ Updating(f, d.todo, z, d.row)
       \/ d.op \in {"pause", "quota"} /\ Stopping(f, d.todo, z)
       \/ d.op = "resume" /\ Resuming(f, d.todo, z)
       \/ d.op = "delete" /\ Clearing(f, d.todo, z)

\* The commands of a reconciliation find everything as it should be.
Syncs(todo, z) ==
    \A i \in DOMAIN todo :
       /\ Exists(z) /\ todo[i].row = z /\ todo[i].piece \in PiecesOf(z)
       /\ \/ todo[i].verb = "add" /\ todo[i].mode = "gentle"
          \/ todo[i].verb = "retarget" /\ todo[i].mode = "must"
Pauses(todo, z) ==
    \A i \in DOMAIN todo :
       /\ todo[i].verb = "pause" /\ todo[i].mode = "ignore" /\ todo[i].row.tunnel = z.tunnel

ReconcileFits(n, f, z, d) ==
    /\ Agree(f, z) /\ d.row.tunnel = z.tunnel
    /\ \/ d.op = "sync" /\ Syncs(d.todo, z)
       \/ d.op = "pauses" /\ Pauses(d.todo, z)
       \/ d.op = "query" /\ d.todo = <<>> /\ (d.names # {} => Exists(z) /\ Involves(n, z))
       \/ d.op = "end" /\ d.todo = <<>>

Works(p, f, z, d) == d.ok = TRUE /\ (RequestFits(f, z, d) \/ ReconcileFits(p, f, z, d))

\* While nothing fails and no two handlers overlap, at most one is at work; it
\* has reached what it should, and when none is, row and services agree.
SmoothInv ==
    smooth =>
       /\ late = {} /\ online = Nodes
       /\ \A p \in Procs : ~Busy(p) => proc[p] = Idle
       /\ \A p, q \in Procs : Busy(p) /\ Busy(q) => p = q
       /\ (\A p \in Procs : ~Busy(p)) => Agree(piece, row)
       /\ \A p \in Procs : Busy(p) => Works(p, piece, row, proc[p])

\* g is f after the piece x of the node m has become s.
Becomes(f, g, m, x, s) ==
    \A k \in Nodes, y \in Pieces : g[k][y] = IF k = m /\ y = x THEN s ELSE f[k][y]

PieceMaps == [Nodes -> [Pieces -> PieceStates]]

\* A node runs c and answers res: the services f become g.
Runs(f, g, c, res) ==
    \E m \in Nodes, s \in PieceStates : \E e \in Effects(c, s) :
       /\ m = NodeFor(c.piece, c.row) /\ s = f[m][c.piece]
       /\ Becomes(f, g, m, c.piece, e[2])
       /\ e[1] = res /\ res # "failed"

LEMMA OnceInRest ==
    ASSUME NEW todo \in Seq(Commands), todo # <<>>,
           \A i, j \in DOMAIN todo : todo[i].piece = todo[j].piece => i = j
    PROVE  /\ \A x : Waits(Tail(todo), x) <=> (Waits(todo, x) /\ x # Head(todo).piece)
           /\ \A i, j \in DOMAIN Tail(todo) : Tail(todo)[i].piece = Tail(todo)[j].piece => i = j
<1>1. /\ 1 \in DOMAIN todo /\ todo[1] = Head(todo)
      /\ \A i \in DOMAIN Tail(todo) :
                 i \in Nat /\ i # 0 /\ i + 1 \in DOMAIN todo /\ Tail(todo)[i] = todo[i + 1]
      /\ \A i \in DOMAIN todo : i = 1 \/ (i - 1 \in DOMAIN Tail(todo))
      /\ DOMAIN todo \subseteq Nat \ {0}
    BY TodoIs
<1>2. ASSUME NEW x, Waits(Tail(todo), x)
      PROVE  Waits(todo, x) /\ x # Head(todo).piece
    <2>1. PICK i \in DOMAIN Tail(todo) : Tail(todo)[i].piece = x
        BY <1>2 DEF Waits
    <2>2. i + 1 \in DOMAIN todo /\ todo[i + 1].piece = x /\ i + 1 # 1
        BY <2>1, <1>1
    <2> QED BY <2>2, <1>1 DEF Waits
<1>3. ASSUME NEW x, Waits(todo, x), x # Head(todo).piece
      PROVE  Waits(Tail(todo), x)
    BY <1>3, WaitsInRest
<1>4. ASSUME NEW i \in DOMAIN Tail(todo), NEW j \in DOMAIN Tail(todo),
             Tail(todo)[i].piece = Tail(todo)[j].piece
      PROVE  i = j
    <2>1. i + 1 = j + 1
        BY <1>1, <1>4
    <2> QED BY <2>1, <1>1
<1> QED BY <1>2, <1>3, <1>4

\* The head of a list and what is said of every command in it.
LEMMA HeadAndRest ==
    ASSUME NEW todo \in Seq(Commands), todo # <<>>
    PROVE  /\ Head(todo) \in Commands /\ Tail(todo) \in Seq(Commands)
           /\ \E i \in DOMAIN todo : Head(todo) = todo[i]
           /\ \A i \in DOMAIN Tail(todo) : \E j \in DOMAIN todo : Tail(todo)[i] = todo[j]
           /\ Waits(todo, Head(todo).piece)
BY TodoIs DEF Waits

LEMMA MakingCall ==
    ASSUME NEW f \in PieceMaps, NEW g, NEW todo \in Seq(Commands), todo # <<>>, NEW r \in Rows,
           NEW res, Runs(f, g, Head(todo), res), Making(f, todo, r)
    PROVE  Making(g, Tail(todo), r) /\ Passes(Head(todo), res)
<1> PICK c \in Commands : c = Head(todo)
    BY HeadAndRest
<1> PICK m \in Nodes, s \in PieceStates : \E e \in Effects(c, s) :
       /\ m = NodeFor(c.piece, c.row) /\ s = f[m][c.piece]
       /\ Becomes(f, g, m, c.piece, e[2])
       /\ e[1] = res /\ res # "failed"
    BY DEF Runs
<1> PICK e \in Effects(c, s) :
       /\ m = NodeFor(c.piece, c.row) /\ s = f[m][c.piece]
       /\ Becomes(f, g, m, c.piece, e[2])
       /\ e[1] = res /\ res # "failed"
    OBVIOUS
<1>1. /\ c.verb = "add" /\ c.mode = "create" /\ c.row = r /\ c.piece \in PiecesOf(r)
      /\ Waits(todo, c.piece) /\ c.piece \in Pieces
    BY HeadAndRest, CommandParts DEF Making
<1>2. s = Absent
    BY <1>1 DEF Making
<1>3. ~Registered(s)
    BY <1>2 DEF Registered
<1>4. e[1] = "ok" /\ e[2] = Running(r)
    BY <1>1, <1>3, EffectsAre
<1>5. Holds(e[2], c.piece, r)
    BY <1>4, RunningIs DEF Holds
<1>6. /\ \A x : Waits(Tail(todo), x) <=> (Waits(todo, x) /\ x # c.piece)
      /\ \A i, j \in DOMAIN Tail(todo) : Tail(todo)[i].piece = Tail(todo)[j].piece => i = j
    BY OnceInRest DEF Making
<1>7. \A i \in DOMAIN Tail(todo) :
         /\ Tail(todo)[i].verb = "add" /\ Tail(todo)[i].mode = "create"
         /\ Tail(todo)[i].row = r /\ Tail(todo)[i].piece \in PiecesOf(r)
    BY HeadAndRest DEF Making
<1>8. ASSUME NEW n \in Nodes, NEW x \in Pieces, g[n][x] # Absent
      PROVE  x \in PiecesOf(r) /\ n = NodeFor(x, r) /\ ~Waits(Tail(todo), x)
    <2>1. CASE n = m /\ x = c.piece
        BY <2>1, <1>1, <1>6
    <2>2. CASE ~(n = m /\ x = c.piece)
        <3>1. f[n][x] # Absent
            BY <2>2, <1>8 DEF Becomes
        <3> QED BY <3>1, <1>6 DEF Making
    <2> QED BY <2>1, <2>2
<1>9. ASSUME NEW x \in PiecesOf(r)
      PROVE  Waits(Tail(todo), x) \/ Holds(g[NodeFor(x, r)][x], x, r)
    <2>1. NodeFor(x, r) \in Nodes /\ x \in Pieces
        BY PiecesAre
    <2>2. CASE x = c.piece
        <3>1. g[NodeFor(x, r)][x] = e[2]
            BY <2>1, <2>2, <1>1 DEF Becomes
        <3> QED BY <3>1, <2>2, <1>5
    <2>3. CASE x # c.piece
        <3>1. g[NodeFor(x, r)][x] = f[NodeFor(x, r)][x]
            BY <2>1, <2>3 DEF Becomes
        <3> QED BY <3>1, <2>3, <1>6 DEF Making
    <2> QED BY <2>2, <2>3
<1>10. Passes(c, e[1])
    BY <1>1, <1>4 DEF Passes
<1> QED BY <1>6, <1>7, <1>8, <1>9, <1>10 DEF Making

LEMMA ClearingCall ==
    ASSUME NEW f \in PieceMaps, NEW g, NEW todo \in Seq(Commands), todo # <<>>, NEW z \in Rows,
           NEW res, Runs(f, g, Head(todo), res), Clearing(f, todo, z)
    PROVE  Clearing(g, Tail(todo), z) /\ Passes(Head(todo), res)
<1> PICK c \in Commands : c = Head(todo)
    BY HeadAndRest
<1> PICK m \in Nodes, s \in PieceStates : \E e \in Effects(c, s) :
       /\ m = NodeFor(c.piece, c.row) /\ s = f[m][c.piece]
       /\ Becomes(f, g, m, c.piece, e[2])
       /\ e[1] = res /\ res # "failed"
    BY DEF Runs
<1> PICK e \in Effects(c, s) :
       /\ m = NodeFor(c.piece, c.row) /\ s = f[m][c.piece]
       /\ Becomes(f, g, m, c.piece, e[2])
       /\ e[1] = res /\ res # "failed"
    OBVIOUS
<1>1. /\ c.verb = "delete" /\ c.mode \in {"ignore", "absent"} /\ c.row = z
      /\ c.piece \in Pieces
    BY HeadAndRest, CommandParts DEF Clearing
<1>2. e[2] = Absent /\ e[1] \in {"ok", "missing"}
    <2>1. CASE Registered(s)
        BY <2>1, <1>1, EffectsAre
    <2>2. CASE ~Registered(s)
        <3>1. s = Absent
            BY <2>2, <1>1 DEF Clearing
        <3> QED BY <3>1, <2>2, <1>1, EffectsAre
    <2> QED BY <2>1, <2>2
<1>3. \A i \in DOMAIN Tail(todo) :
         /\ Tail(todo)[i].verb = "delete" /\ Tail(todo)[i].mode \in {"ignore", "absent"}
         /\ Tail(todo)[i].row = z
    BY HeadAndRest DEF Clearing
<1>4. ASSUME NEW n \in Nodes, NEW x \in Pieces, g[n][x] # Absent
      PROVE  /\ x \in PiecesOf(z) /\ n = NodeFor(x, z)
             /\ Registered(g[n][x]) /\ Waits(Tail(todo), x)
    <2>1. ~(n = m /\ x = c.piece)
        BY <1>2, <1>4 DEF Becomes
    <2>2. g[n][x] = f[n][x]
        BY <2>1, <1>4 DEF Becomes
    <2>3. x \in PiecesOf(z) /\ n = NodeFor(x, z) /\ Registered(f[n][x]) /\ Waits(todo, x)
        BY <2>2, <1>4 DEF Clearing
    <2>4. x # c.piece
        BY <2>1, <2>3, <1>1
    <2> QED BY <2>2, <2>3, <2>4, WaitsInRest
<1>5. Passes(c, e[1])
    BY <1>1, <1>2 DEF Passes
<1> QED BY <1>3, <1>4, <1>5 DEF Clearing

LEMMA StaysLocated ==
    ASSUME NEW f, NEW g, NEW z, NEW m \in Nodes, NEW x \in Pieces, NEW s,
           Located(f, z), Becomes(f, g, m, x, s), s = Absent \/ f[m][x] # Absent
    PROVE  Located(g, z)
BY DEF Located, Becomes

\* A service where the row has it, seen from another row of the tunnel.
LEMMA AtItsPlace ==
    ASSUME NEW f \in PieceMaps, NEW g, NEW r \in Rows, NEW x \in PiecesOf(r), NEW m \in Nodes,
           NEW y \in Pieces, NEW s, m = NodeFor(y, r), Becomes(f, g, m, y, s)
    PROVE  /\ x = y => g[NodeFor(x, r)][x] = s
           /\ x # y => g[NodeFor(x, r)][x] = f[NodeFor(x, r)][x]
           /\ f[NodeFor(x, r)][x] \in PieceStates
<1>1. NodeFor(x, r) \in Nodes /\ x \in Pieces
    BY PiecesAre
<1> QED BY <1>1 DEF Becomes, PieceMaps

LEMMA HotCall ==
    ASSUME NEW f \in PieceMaps, NEW g, NEW todo \in Seq(Commands), todo # <<>>,
           NEW z \in Rows, NEW r \in Rows,
           NEW res, Runs(f, g, Head(todo), res), r.tunnel = z.tunnel, Located(f, z),
           todo = hotUpdate(r), r.port = z.port, There(f, z)
    PROVE  Updating(g, <<>>, z, r) /\ Head(todo).mode = "hot" /\ res = "ok"
<1> PICK c \in Commands : c = Head(todo)
    BY HeadAndRest
<1> PICK m \in Nodes, s \in PieceStates : \E e \in Effects(c, s) :
       /\ m = NodeFor(c.piece, c.row) /\ s = f[m][c.piece]
       /\ Becomes(f, g, m, c.piece, e[2])
       /\ e[1] = res /\ res # "failed"
    BY DEF Runs
<1> PICK e \in Effects(c, s) :
       /\ m = NodeFor(c.piece, c.row) /\ s = f[m][c.piece]
       /\ Becomes(f, g, m, c.piece, e[2])
       /\ e[1] = res /\ res # "failed"
    OBVIOUS
<1>1. Carrier(r) \in PiecesOf(r) /\ Carrier(r) \in Pieces
    BY PiecesAre
<1>2. /\ c.verb = "retarget" /\ c.mode = "hot" /\ c.row = r /\ c.piece = Carrier(r)
    <2>1. c = Command("retarget", "hot", r, Carrier(r))
        BY DEF hotUpdate
    <2> QED BY <2>1, <1>1, CommandIs DEF Verbs, Modes
<1>3. /\ PiecesOf(r) = PiecesOf(z) /\ Carrier(r) = Carrier(z)
      /\ \A x : NodeFor(x, r) = NodeFor(x, z)
    BY SameTunnel
<1>4. Holds(s, Carrier(r), z)
    BY <1>1, <1>2, <1>3 DEF There
<1>5. Registered(s) /\ s \in Services /\ s # Absent
    BY <1>4, RegisteredIs DEF Holds
<1>6. e[1] = "ok" /\ e[2] = Retargeted(s, r)
    BY <1>2, <1>5, EffectsAre
<1>7. /\ Registered(e[2]) /\ e[2].port = s.port /\ e[2].target = r.target
    <2> PICK u : u = Retargeted(s, r)
        OBVIOUS
    <2>1. Registered(u) /\ u.port = s.port /\ u.target = r.target
        BY <1>5, RetargetedIs
    <2> QED BY <2>1, <1>6
<1>8. Located(g, z)
    BY <1>1, <1>2, <1>5, StaysLocated
<1>9. ASSUME NEW x \in PiecesOf(r)
      PROVE  Holds(g[NodeFor(x, r)][x], x, r)
    <2>1. Holds(f[NodeFor(x, r)][x], x, z)
        BY <1>3 DEF There
    <2>2. CASE x = Carrier(r)
        <3>1. g[NodeFor(x, r)][x] = e[2]
            BY <2>2, <1>1, <1>2, AtItsPlace
        <3> QED BY <3>1, <1>4, <1>7 DEF Holds
    <2>3. CASE x # Carrier(r)
        <3>1. g[NodeFor(x, r)][x] = f[NodeFor(x, r)][x]
            BY <2>3, <1>1, <1>2, AtItsPlace
        <3> QED BY <3>1, <2>1, <2>3, <1>3 DEF Holds
    <2> QED BY <2>2, <2>3
<1>10. DOMAIN <<>> = {}
    OBVIOUS
<1>11. \A x \in PiecesOf(r) : Registered(g[NodeFor(x, r)][x])
    BY <1>9 DEF Holds
<1> QED BY <1>2, <1>6, <1>8, <1>9, <1>10, <1>11 DEF Updating

LEMMA UpdatingCall ==
    ASSUME NEW f \in PieceMaps, NEW g, NEW todo \in Seq(Commands), todo # <<>>,
           NEW z \in Rows, NEW r \in Rows,
           NEW res, Runs(f, g, Head(todo), res), r.tunnel = z.tunnel, Located(f, z),
           \A i \in DOMAIN todo : /\ todo[i].verb = "update" /\ todo[i].mode = "upsert"
                                  /\ todo[i].row = r /\ todo[i].piece \in PiecesOf(r),
           \A x \in PiecesOf(r) : /\ Registered(f[NodeFor(x, r)][x])
                                  /\ Waits(todo, x) \/ Holds(f[NodeFor(x, r)][x], x, r)
    PROVE  /\ Passes(Head(todo), res) /\ Located(g, z)
           /\ \A x \in PiecesOf(r) :
                 /\ Registered(g[NodeFor(x, r)][x])
                 /\ Waits(Tail(todo), x) \/ Holds(g[NodeFor(x, r)][x], x, r)
<1> PICK c \in Commands : c = Head(todo)
    BY HeadAndRest
<1> PICK m \in Nodes, s \in PieceStates : \E e \in Effects(c, s) :
       /\ m = NodeFor(c.piece, c.row) /\ s = f[m][c.piece]
       /\ Becomes(f, g, m, c.piece, e[2])
       /\ e[1] = res /\ res # "failed"
    BY DEF Runs
<1> PICK e \in Effects(c, s) :
       /\ m = NodeFor(c.piece, c.row) /\ s = f[m][c.piece]
       /\ Becomes(f, g, m, c.piece, e[2])
       /\ e[1] = res /\ res # "failed"
    OBVIOUS
<1>1. /\ c.verb = "update" /\ c.mode = "upsert" /\ c.row = r /\ c.piece \in PiecesOf(r)
      /\ c.piece \in Pieces
    BY HeadAndRest, CommandParts
<1>2. Registered(s) /\ s # Absent
    BY <1>1 DEF Registered
<1>3. e[1] = "ok" /\ e[2] = Running(r)
    BY <1>1, <1>2, EffectsAre
<1>4. Registered(e[2]) /\ Holds(e[2], c.piece, r)
    BY <1>3, RunningIs DEF Holds
<1>5. Located(g, z)
    BY <1>1, <1>2, StaysLocated
<1>6. ASSUME NEW x \in PiecesOf(r)
      PROVE  /\ Registered(g[NodeFor(x, r)][x])
             /\ Waits(Tail(todo), x) \/ Holds(g[NodeFor(x, r)][x], x, r)
    <2>1. CASE x = c.piece
        <3>1. g[NodeFor(x, r)][x] = e[2]
            BY <2>1, <1>1, AtItsPlace
        <3> QED BY <3>1, <2>1, <1>4
    <2>2. CASE x # c.piece
        <3>1. g[NodeFor(x, r)][x] = f[NodeFor(x, r)][x]
            BY <2>2, <1>1, AtItsPlace
        <3> QED BY <3>1, <2>2, WaitsInRest
    <2> QED BY <2>1, <2>2
<1>7. Passes(c, e[1])
    BY <1>1, <1>3 DEF Passes
<1> QED BY <1>5, <1>6, <1>7

\* Pausing and resuming change the state only.
LEMMA StateCall ==
    ASSUME NEW f \in PieceMaps, NEW g, NEW z \in Rows,
           NEW c \in Commands, c.verb \in {"pause", "resume"}, c.mode \in {"must", "ignore"},
           c.row = z, c.piece \in PiecesOf(z), NEW res, Runs(f, g, c, res),
           Located(f, z), There(f, z)
    PROVE  /\ Passes(c, res) /\ Located(g, z) /\ There(g, z)
           /\ c.verb = "pause" => g[NodeFor(c.piece, z)][c.piece].state = "paused"
           /\ \A x \in PiecesOf(z) : x # c.piece => g[NodeFor(x, z)][x] = f[NodeFor(x, z)][x]
<1> PICK m \in Nodes, s \in PieceStates : \E e \in Effects(c, s) :
       /\ m = NodeFor(c.piece, c.row) /\ s = f[m][c.piece]
       /\ Becomes(f, g, m, c.piece, e[2])
       /\ e[1] = res /\ res # "failed"
    BY DEF Runs
<1> PICK e \in Effects(c, s) :
       /\ m = NodeFor(c.piece, c.row) /\ s = f[m][c.piece]
       /\ Becomes(f, g, m, c.piece, e[2])
       /\ e[1] = res /\ res # "failed"
    OBVIOUS
<1>1. Holds(s, c.piece, z) /\ c.piece \in Pieces
    BY CommandParts DEF There
<1>2. Registered(s) /\ s \in Services /\ s # Absent
    BY <1>1, RegisteredIs DEF Holds
<1>3. e[1] = "ok"
    BY <1>2, EffectsAre
<1>4. \/ e[2] = s /\ c.verb = "resume"
      \/ e[2] = In("running", s) /\ c.verb = "resume"
      \/ e[2] = In("paused", s)
    BY <1>2, EffectsAre
<1>5. /\ Registered(e[2]) /\ e[2].port = s.port /\ e[2].target = s.target
      /\ c.verb = "pause" => e[2].state = "paused"
    BY <1>2, <1>4, ChangedIs
<1>6. Holds(e[2], c.piece, z)
    BY <1>1, <1>5 DEF Holds
<1>7. Located(g, z)
    BY <1>1, <1>2, StaysLocated
<1>8. /\ g[NodeFor(c.piece, z)][c.piece] = e[2]
      /\ \A x \in PiecesOf(z) : x # c.piece => g[NodeFor(x, z)][x] = f[NodeFor(x, z)][x]
    BY <1>1, AtItsPlace
<1>9. There(g, z)
    BY <1>6, <1>8 DEF There
<1>10. Passes(c, res)
    BY <1>3 DEF Passes
<1> QED BY <1>5, <1>7, <1>8, <1>9, <1>10

LEMMA StoppingCall ==
    ASSUME NEW f \in PieceMaps, NEW g, NEW todo \in Seq(Commands), todo # <<>>, NEW z \in Rows,
           NEW res, Runs(f, g, Head(todo), res), Stopping(f, todo, z)
    PROVE  Stopping(g, Tail(todo), z) /\ Passes(Head(todo), res)
<1> PICK c \in Commands : c = Head(todo)
    BY HeadAndRest
<1>1. /\ c.verb = "pause" /\ c.mode \in {"must", "ignore"} /\ c.row = z
      /\ c.piece \in PiecesOf(z)
    BY HeadAndRest DEF Stopping
<1>2. Located(f, z) /\ There(f, z)
    BY DEF Stopping
<1>3. /\ Passes(c, res) /\ Located(g, z) /\ There(g, z)
      /\ g[NodeFor(c.piece, z)][c.piece].state = "paused"
      /\ \A x \in PiecesOf(z) : x # c.piece => g[NodeFor(x, z)][x] = f[NodeFor(x, z)][x]
    BY <1>1, <1>2, StateCall
<1>4. \A i \in DOMAIN Tail(todo) :
         /\ Tail(todo)[i].verb = "pause" /\ Tail(todo)[i].mode \in {"must", "ignore"}
         /\ Tail(todo)[i].row = z /\ Tail(todo)[i].piece \in PiecesOf(z)
    BY HeadAndRest DEF Stopping
<1>5. \A x \in PiecesOf(z) \ {"chain"} :
         Waits(Tail(todo), x) \/ g[NodeFor(x, z)][x].state = "paused"
    BY <1>3, WaitsInRest DEF Stopping
<1> QED BY <1>3, <1>4, <1>5 DEF Stopping

LEMMA ResumingCall ==
    ASSUME NEW f \in PieceMaps, NEW g, NEW todo \in Seq(Commands), todo # <<>>, NEW z \in Rows,
           NEW res, Runs(f, g, Head(todo), res), Resuming(f, todo, z)
    PROVE  Resuming(g, Tail(todo), z) /\ Passes(Head(todo), res)
<1> PICK c \in Commands : c = Head(todo)
    BY HeadAndRest
<1>1. /\ c.verb = "resume" /\ c.mode = "must" /\ c.row = z /\ c.piece \in PiecesOf(z)
    BY HeadAndRest DEF Resuming
<1>2. Located(f, z) /\ There(f, z)
    BY DEF Resuming
<1>3. Passes(c, res) /\ Located(g, z) /\ There(g, z)
    BY <1>1, <1>2, StateCall
<1>4. \A i \in DOMAIN Tail(todo) :
         /\ Tail(todo)[i].verb = "resume" /\ Tail(todo)[i].mode = "must"
         /\ Tail(todo)[i].row = z /\ Tail(todo)[i].piece \in PiecesOf(z)
    BY HeadAndRest DEF Resuming
<1> QED BY <1>3, <1>4 DEF Resuming

\* What a reconciliation sends changes nothing of an agreement.
LEMMA AgreeCall ==
    ASSUME NEW f \in PieceMaps, NEW g, NEW z \in Rows, NEW c \in Commands,
           NEW res, Runs(f, g, c, res), Agree(f, z),
           \/ Exists(z) /\ c.row = z /\ c.piece \in PiecesOf(z) /\ c.verb \in {"add", "retarget"}
           \/ c.verb = "pause" /\ c.row.tunnel = z.tunnel
    PROVE  /\ Agree(g, z) /\ res # "failed"
           /\ c.verb = "add" => res = "exists"
           /\ c.verb = "retarget" => res = "ok"
<1> PICK m \in Nodes, s \in PieceStates : \E e \in Effects(c, s) :
       /\ m = NodeFor(c.piece, c.row) /\ s = f[m][c.piece]
       /\ Becomes(f, g, m, c.piece, e[2])
       /\ e[1] = res /\ res # "failed"
    BY DEF Runs
<1> PICK e \in Effects(c, s) :
       /\ m = NodeFor(c.piece, c.row) /\ s = f[m][c.piece]
       /\ Becomes(f, g, m, c.piece, e[2])
       /\ e[1] = res /\ res # "failed"
    OBVIOUS
<1>1. c.piece \in Pieces /\ m = NodeFor(c.piece, z)
    BY CommandParts, SameTunnel
<1>2. CASE s = Absent
    <2>1. c.verb = "pause"
        BY <1>1, <1>2 DEF Agree, There, Holds, Registered
    <2>2. e[2] = s
        BY <2>1, <1>2, EffectsAre DEF Registered
    <2>3. \A n \in Nodes, x \in Pieces : g[n][x] = f[n][x]
        BY <2>2, <1>1 DEF Becomes
    <2>4. Located(g, z)
        BY <2>3 DEF Located, Agree
    <2>5. \A x \in PiecesOf(z) : g[NodeFor(x, z)][x] = f[NodeFor(x, z)][x]
        BY <2>3, PiecesAre
    <2> QED BY <2>1, <2>4, <2>5 DEF Agree, There
<1>3. CASE s # Absent
    <2>1. Exists(z) /\ c.piece \in PiecesOf(z)
        BY <1>1, <1>3 DEF Agree, Located
    <2>2. Holds(s, c.piece, z)
        BY <2>1, <1>1 DEF Agree, There
    <2>3. Registered(s) /\ s \in Services
        BY <2>2, RegisteredIs DEF Holds
    <2>4. /\ c.verb = "add" => e[1] = "exists" /\ e[2] = s
          /\ c.verb = "retarget" => e[1] = "ok" /\ e[2] = Retargeted(s, z)
          /\ c.verb = "pause" => e[2] = In("paused", s)
        BY <2>3, EffectsAre
    <2>5. /\ e[2] = s \/ e[2] = In("paused", s) \/ e[2] = Retargeted(s, z)
        BY <2>4
    <2>6. /\ Registered(e[2]) /\ e[2].port = s.port
          /\ e[2].target = s.target \/ e[2].target = z.target
          /\ s.state = "paused" => e[2].state = "paused"
        BY <2>3, <2>5, ChangedIs, RetargetedIs
    <2>7. Holds(e[2], c.piece, z)
        BY <2>2, <2>6 DEF Holds
    <2>8. Located(g, z)
        BY <1>1, <1>3, StaysLocated DEF Agree
    <2>9. \A x \in PiecesOf(z) :
             \/ x = c.piece /\ g[NodeFor(x, z)][x] = e[2] /\ f[NodeFor(x, z)][x] = s
             \/ g[NodeFor(x, z)][x] = f[NodeFor(x, z)][x]
        BY <1>1, AtItsPlace
    <2>10. There(g, z)
        BY <2>1, <2>7, <2>9 DEF Agree, There
    <2>11. z.status = "paused" =>
              \A x \in PiecesOf(z) \ {"chain"} : g[NodeFor(x, z)][x].state = "paused"
        BY <2>6, <2>9 DEF Agree
    <2> QED BY <2>4, <2>8, <2>10, <2>11 DEF Agree
<1> QED BY <1>2, <1>3

\* Where nothing is left, the services of a new row are still to be made.
LEMMA MakesNew ==
    ASSUME NEW f, NEW r \in Rows, NEW todo, todo = createGostServices(r),
           \A n \in Nodes, x \in Pieces : f[n][x] = Absent
    PROVE  Making(f, todo, r)
<1>1. Covers(todo, "add", "create", r, PiecesOf(r))
    BY Scripts
<1>2. \A x \in PiecesOf(r) : Waits(todo, x)
    BY <1>1 DEF Covers, Waits
<1> QED BY <1>1, <1>2 DEF Making, Covers

LEMMA ClearedIs ==
    ASSUME NEW f, NEW z, Clearing(f, <<>>, z), NEW n \in Nodes, NEW x \in Pieces
    PROVE  f[n][x] = Absent
<1>1. ~Waits(<<>>, x)
    BY DEF Waits
<1> QED BY <1>1 DEF Clearing

\* Two lists, one after the other: the first command is that of the first.
LEMMA HeadOfTwo ==
    ASSUME NEW a \in Seq(Commands), NEW b \in Seq(Commands), a # <<>>
    PROVE  /\ a \o b \in Seq(Commands) /\ a \o b # <<>>
           /\ Head(a \o b) = Head(a) /\ Tail(a \o b) = Tail(a) \o b
<1>1. a \o b \in Seq(Commands) /\ Len(a \o b) = Len(a) + Len(b) /\ Len(a) > 0
        /\ Len(a) \in Nat /\ Len(b) \in Nat
    OBVIOUS
<1>2. a \o b # <<>>
    BY <1>1
<1>3. Head(a \o b) = Head(a)
    BY <1>1, <1>2
<1>4. Tail(a) \in Seq(Commands) /\ Len(Tail(a)) = Len(a) - 1
    OBVIOUS
<1>5. Tail(a \o b) \in Seq(Commands) /\ Len(Tail(a \o b)) = Len(a) + Len(b) - 1
    BY <1>1, <1>2
<1>6. Tail(a) \o b \in Seq(Commands) /\ Len(Tail(a) \o b) = Len(a) - 1 + Len(b)
    BY <1>4, <1>1
<1>7. \A i \in 1 .. (Len(a) + Len(b) - 1) : Tail(a \o b)[i] = (Tail(a) \o b)[i]
    BY <1>1, <1>2, <1>4, <1>5, <1>6
<1> QED BY <1>1, <1>2, <1>3, <1>5, <1>6, <1>7

LEMMA NothingBefore ==
    ASSUME NEW b \in Seq(Commands)
    PROVE  <<>> \o b = b
OBVIOUS

LEMMA MovingCall ==
    ASSUME NEW f \in PieceMaps, NEW g, NEW todo \in Seq(Commands), todo # <<>>,
           NEW z \in Rows, NEW r \in Rows,
           NEW res, Runs(f, g, Head(todo), res), Moving(f, todo, z, r)
    PROVE  Moving(g, Tail(todo), z, r) /\ Passes(Head(todo), res)
<1>1. CASE Making(f, todo, r)
    <2>1. Making(g, Tail(todo), r) /\ Passes(Head(todo), res)
        BY <1>1, MakingCall
    <2> QED BY <2>1 DEF Moving
<1>2. CASE \E dels \in Seq(Commands) :
              dels # <<>> /\ todo = dels \o createGostServices(r) /\ Clearing(f, dels, z)
    <2> PICK adds : adds = createGostServices(r)
        OBVIOUS
    <2>1. adds \in Seq(Commands)
        BY CommandLists
    <2>2. PICK dels \in Seq(Commands) : dels # <<>> /\ todo = dels \o adds /\ Clearing(f, dels, z)
        BY <1>2
    <2>3. Head(todo) = Head(dels) /\ Tail(todo) = Tail(dels) \o adds
        BY <2>1, <2>2, HeadOfTwo
    <2>4. Clearing(g, Tail(dels), z) /\ Passes(Head(dels), res)
        <3>1. Runs(f, g, Head(dels), res)
            BY <2>3
        <3> QED BY <2>2, <3>1, ClearingCall
    <2>5. Tail(dels) \in Seq(Commands)
        BY <2>2
    <2>6. CASE Tail(dels) = <<>>
        <3>1. \A n \in Nodes, x \in Pieces : g[n][x] = Absent
            BY <2>4, <2>6, ClearedIs
        <3>2. Making(g, adds, r)
            BY <3>1, MakesNew
        <3>3. Tail(todo) = adds
            BY <2>1, <2>3, <2>6, NothingBefore
        <3> QED BY <2>3, <2>4, <3>2, <3>3 DEF Moving
    <2>7. CASE Tail(dels) # <<>>
        BY <2>3, <2>4, <2>5, <2>7 DEF Moving
    <2> QED BY <2>6, <2>7
<1> QED BY <1>1, <1>2 DEF Moving


LEMMA HotAnswer ==
    ASSUME NEW d \in ProcStates, d.todo # <<>>, Head(d.todo).mode = "hot"
    PROVE  Answered(d, "ok").ok = d.ok /\ Answered(d, "ok").todo = <<>>
<1>1. "ok" \in Results
    BY DEF Results
<1> QED BY <1>1, AnswersAre

LEMMA SameJob ==
    ASSUME NEW d \in ProcStates, d.todo # <<>>, NEW res \in Results
    PROVE  /\ Answered(d, res).op = d.op /\ Answered(d, res).row = d.row
           /\ Answered(d, res).names = d.names
BY AnswersAre

\* After an answer a request has reached what it should.
LEMMA RequestCall ==
    ASSUME NEW f \in PieceMaps, NEW g, NEW z \in Rows, NEW d \in ProcStates, d.row \in Rows,
           d.todo # <<>>, NEW res \in Results, Runs(f, g, Head(d.todo), res), d.ok = TRUE,
           RequestFits(f, z, d)
    PROVE  Answered(d, res).ok = TRUE /\ RequestFits(g, z, Answered(d, res))
<1> PICK a : a = Answered(d, res)
    OBVIOUS
<1> PICK todo \in Seq(Commands) : todo = d.todo
    BY DEF ProcStates
<1>1. a.op = d.op /\ a.row = d.row
    BY SameJob
<1>2. Passes(Head(todo), res) => a.ok = TRUE /\ a.todo = Tail(todo)
    BY GoesOn
<1>3. Exists(z)
    BY DEF RequestFits
<1>4. CASE d.op = "create" /\ d.row = z /\ z.status = "active" /\ Making(f, d.todo, z)
    <2>1. Making(g, Tail(todo), z) /\ Passes(Head(todo), res)
        BY <1>4, MakingCall
    <2> QED BY <2>1, <1>1, <1>2, <1>3, <1>4 DEF RequestFits
<1>5. CASE d.op = "move" /\ d.row.status = "active" /\ Moving(f, d.todo, z, d.row)
    <2>1. Moving(g, Tail(todo), z, d.row) /\ Passes(Head(todo), res)
        BY <1>5, MovingCall
    <2> QED BY <2>1, <1>1, <1>2, <1>3, <1>5 DEF RequestFits
<1>6. CASE d.op = "update" /\ d.row.status = "active" /\ Updating(f, d.todo, z, d.row)
    <2> PICK r \in Rows : r = d.row
        OBVIOUS
    <2>1. r.tunnel = z.tunnel /\ Located(f, z)
        BY <1>6 DEF Updating
    <2>2. CASE todo = hotUpdate(r) /\ r.port = z.port /\ There(f, z)
        <3>1. Updating(g, <<>>, z, r) /\ Head(todo).mode = "hot" /\ res = "ok"
            BY <2>1, <2>2, HotCall
        <3>2. a.ok = TRUE /\ a.todo = <<>>
            BY <3>1, HotAnswer
        <3> QED BY <3>1, <3>2, <1>1, <1>3, <1>6 DEF RequestFits
    <2>3. CASE /\ \A i \in DOMAIN todo : /\ todo[i].verb = "update" /\ todo[i].mode = "upsert"
                                         /\ todo[i].row = r /\ todo[i].piece \in PiecesOf(r)
               /\ \A x \in PiecesOf(r) : /\ Registered(f[NodeFor(x, r)][x])
                                         /\ Waits(todo, x) \/ Holds(f[NodeFor(x, r)][x], x, r)
        <3>1. Updating(g, Tail(todo), z, r) /\ Passes(Head(todo), res)
            <4>1. /\ Passes(Head(todo), res) /\ Located(g, z)
                  /\ \A x \in PiecesOf(r) :
                        /\ Registered(g[NodeFor(x, r)][x])
                        /\ Waits(Tail(todo), x) \/ Holds(g[NodeFor(x, r)][x], x, r)
                BY ZenonT(60), <2>1, <2>3, UpdatingCall
            <4>2. \A i \in DOMAIN Tail(todo) :
                     /\ Tail(todo)[i].verb = "update" /\ Tail(todo)[i].mode = "upsert"
                     /\ Tail(todo)[i].row = r /\ Tail(todo)[i].piece \in PiecesOf(r)
                BY <2>3, HeadAndRest
            <4> QED BY <4>1, <4>2, <2>1 DEF Updating
        <3> QED BY <3>1, <1>1, <1>2, <1>3, <1>6 DEF RequestFits
    <2> QED BY <2>2, <2>3, <1>6 DEF Updating
<1>7. CASE d.op \in {"pause", "quota"} /\ Stopping(f, d.todo, z)
    <2>1. Stopping(g, Tail(todo), z) /\ Passes(Head(todo), res)
        BY <1>7, StoppingCall
    <2> QED BY <2>1, <1>1, <1>2, <1>3, <1>7 DEF RequestFits
<1>8. CASE d.op = "resume" /\ Resuming(f, d.todo, z)
    <2>1. Resuming(g, Tail(todo), z) /\ Passes(Head(todo), res)
        BY <1>8, ResumingCall
    <2> QED BY <2>1, <1>1, <1>2, <1>3, <1>8 DEF RequestFits
<1>9. CASE d.op = "delete" /\ Clearing(f, d.todo, z)
    <2>1. Clearing(g, Tail(todo), z) /\ Passes(Head(todo), res)
        BY <1>9, ClearingCall
    <2> QED BY <2>1, <1>1, <1>2, <1>3, <1>9 DEF RequestFits
<1> QED BY <1>4, <1>5, <1>6, <1>7, <1>8, <1>9 DEF RequestFits

\* And so has a reconciliation.
LEMMA ReconcileCall ==
    ASSUME NEW f \in PieceMaps, NEW g, NEW z \in Rows, NEW d \in ProcStates, NEW n,
           d.todo # <<>>, NEW res \in Results, Runs(f, g, Head(d.todo), res), d.ok = TRUE,
           ReconcileFits(n, f, z, d)
    PROVE  Answered(d, res).ok = TRUE /\ ReconcileFits(n, g, z, Answered(d, res))
<1> PICK a : a = Answered(d, res)
    OBVIOUS
<1> PICK todo \in Seq(Commands) : todo = d.todo
    BY DEF ProcStates
<1> PICK c \in Commands : c = Head(todo)
    BY HeadAndRest
<1>1. a.op = d.op /\ a.row = d.row
    BY SameJob
<1>2. Passes(c, res) => a.ok = TRUE /\ a.todo = Tail(todo)
    BY GoesOn
<1>3. Agree(f, z) /\ d.row.tunnel = z.tunnel
    BY DEF ReconcileFits
<1>4. /\ \E i \in DOMAIN todo : c = todo[i]
      /\ \A i \in DOMAIN Tail(todo) : \E j \in DOMAIN todo : Tail(todo)[i] = todo[j]
      /\ Tail(todo) \in Seq(Commands)
    BY HeadAndRest
<1>5. CASE d.op = "sync" /\ Syncs(d.todo, z)
    <2>1. /\ Exists(z) /\ c.row = z /\ c.piece \in PiecesOf(z)
          /\ \/ c.verb = "add" /\ c.mode = "gentle"
             \/ c.verb = "retarget" /\ c.mode = "must"
        BY <1>4, <1>5 DEF Syncs
    <2>2. /\ Agree(g, z) /\ res # "failed"
          /\ c.verb = "add" => res = "exists"
          /\ c.verb = "retarget" => res = "ok"
        <3>1. Exists(z) /\ c.row = z /\ c.piece \in PiecesOf(z) /\ c.verb \in {"add", "retarget"}
            BY <2>1
        <3> QED BY ZenonT(60), <1>3, <3>1, AgreeCall
    <2>3. Syncs(Tail(todo), z)
        BY <1>4, <1>5 DEF Syncs
    <2>4. CASE Passes(c, res)
        BY <2>2, <2>3, <2>4, <1>1, <1>2, <1>3, <1>5 DEF ReconcileFits
    <2>5. CASE ~Passes(c, res)
        <3>1. c.mode = "gentle" /\ c.piece = Carrier(c.row) /\ res = "exists"
            BY <2>1, <2>2, <2>5 DEF Passes
        <3> PICK b : b = Command("retarget", "must", c.row, c.piece)
            OBVIOUS
        <3>2. a.ok = TRUE /\ a.todo = <<b>> \o Tail(todo)
            BY <3>1, Retargets
        <3>3. c.piece \in Pieces /\ c.row \in Rows
            BY CommandParts
        <3>4. b \in Commands /\ b.verb = "retarget" /\ b.mode = "must" /\ b.row = z
                /\ b.piece = c.piece
            BY <2>1, <3>3, CommandIs DEF Verbs, Modes
        <3>5. \A i \in DOMAIN a.todo : a.todo[i] = b \/ \E j \in DOMAIN Tail(todo) : a.todo[i] = Tail(todo)[j]
            BY <3>2, <3>4, <1>4, Prefixed
        <3>6. Syncs(a.todo, z)
            BY <3>4, <3>5, <2>1, <2>3 DEF Syncs
        <3> QED BY <3>2, <3>6, <2>2, <1>1, <1>3, <1>5 DEF ReconcileFits
    <2> QED BY <2>4, <2>5
<1>6. CASE d.op = "pauses" /\ Pauses(d.todo, z)
    <2>1. c.verb = "pause" /\ c.mode = "ignore" /\ c.row.tunnel = z.tunnel
        BY <1>4, <1>6 DEF Pauses
    <2>2. Agree(g, z) /\ res # "failed"
        BY <1>3, <2>1, AgreeCall
    <2>3. Passes(c, res)
        BY <2>1, <2>2 DEF Passes
    <2>4. Pauses(Tail(todo), z)
        BY <1>4, <1>6 DEF Pauses
    <2> QED BY <2>2, <2>3, <2>4, <1>1, <1>2, <1>3, <1>6 DEF ReconcileFits
<1>7. CASE d.op = "query" \/ d.op = "end"
    BY <1>7 DEF ReconcileFits
<1> QED BY <1>5, <1>6, <1>7 DEF ReconcileFits

\* A request that begins finds the services as its row says.
LEMMA FitsMaking ==
    ASSUME NEW f \in PieceMaps, NEW z \in Rows, ~Exists(z), Agree(f, z), NEW d, NEW r \in Rows,
           d.op = "create", d.row = r, r.status = "active", d.todo = createGostServices(r)
    PROVE  RequestFits(f, r, d)
<1>1. \A n \in Nodes, x \in Pieces : f[n][x] = Absent
    BY DEF Agree, Located
<1>2. Making(f, d.todo, r)
    BY <1>1, MakesNew
<1> QED BY <1>2 DEF RequestFits, Exists

LEMMA FitsClearing ==
    ASSUME NEW f \in PieceMaps, NEW z \in Rows, Exists(z), Agree(f, z),
           NEW mode \in {"ignore", "absent"}
    PROVE  Clearing(f, deleteGostServices(z, mode), z) /\ deleteGostServices(z, mode) # <<>>
<1> PICK todo : todo = deleteGostServices(z, mode)
    OBVIOUS
<1>1. Covers(todo, "delete", mode, z, PiecesOf(z))
    BY Scripts
<1>2. \A x \in PiecesOf(z) : Waits(todo, x)
    BY <1>1 DEF Covers, Waits
<1>3. \A x \in PiecesOf(z) : Registered(f[NodeFor(x, z)][x])
    BY DEF Agree, There, Holds
<1>4. Clearing(f, todo, z)
    BY <1>1, <1>2, <1>3 DEF Clearing, Covers, Agree, Located
<1>5. Carrier(z) \in PiecesOf(z)
    BY PiecesAre
<1>6. todo # <<>>
    BY <1>2, <1>5 DEF Waits
<1> QED BY <1>4, <1>6

LEMMA FitsUpdating ==
    ASSUME NEW f \in PieceMaps, NEW z \in Rows, Exists(z), Agree(f, z), NEW r \in Rows,
           r.tunnel = z.tunnel, NEW todo,
           \/ todo = syncGostServices(r)
           \/ todo = hotUpdate(r) /\ r.port = z.port
           \/ todo = <<>> /\ r.port = z.port /\ r.target = z.target
    PROVE  Updating(f, todo, z, r)
<1>1. Located(f, z) /\ There(f, z)
    BY DEF Agree
<1>2. /\ PiecesOf(r) = PiecesOf(z) /\ Carrier(r) = Carrier(z)
      /\ \A x : NodeFor(x, r) = NodeFor(x, z)
    BY SameTunnel
<1>3. \A x \in PiecesOf(r) : Registered(f[NodeFor(x, r)][x])
    BY <1>1, <1>2 DEF There, Holds
<1>4. CASE todo = syncGostServices(r)
    <2>1. Covers(todo, "update", "upsert", r, PiecesOf(r))
        BY <1>4, Scripts
    <2>2. \A x \in PiecesOf(r) : Waits(todo, x)
        BY <2>1 DEF Covers, Waits
    <2> QED BY <2>1, <2>2, <1>1, <1>3 DEF Updating, Covers
<1>5. CASE todo = hotUpdate(r) /\ r.port = z.port
    BY <1>5, <1>1 DEF Updating
<1>6. CASE todo = <<>> /\ r.port = z.port /\ r.target = z.target
    <2>1. \A x \in PiecesOf(r) : Holds(f[NodeFor(x, r)][x], x, r)
        BY <1>1, <1>2, <1>6 DEF There, Holds
    <2>2. DOMAIN <<>> = {}
        OBVIOUS
    <2> QED BY <2>1, <2>2, <1>1, <1>3, <1>6 DEF Updating
<1> QED BY <1>4, <1>5, <1>6

LEMMA FitsStopping ==
    ASSUME NEW f \in PieceMaps, NEW z \in Rows, Exists(z), Agree(f, z),
           NEW mode \in {"must", "ignore"}
    PROVE  Stopping(f, ServiceCalls("pause", z, mode), z)
<1> PICK todo : todo = ServiceCalls("pause", z, mode)
    OBVIOUS
<1>1. Covers(todo, "pause", mode, z, PiecesOf(z) \ {"chain"})
    BY ScriptOfTwo DEF Verbs, Modes
<1>2. \A x \in PiecesOf(z) \ {"chain"} : Waits(todo, x)
    BY <1>1 DEF Covers, Waits
<1> QED BY <1>1, <1>2 DEF Stopping, Covers, Agree

LEMMA FitsResuming ==
    ASSUME NEW f \in PieceMaps, NEW z \in Rows, Exists(z), Agree(f, z)
    PROVE  Resuming(f, ServiceCalls("resume", z, "must"), z)
<1> PICK todo : todo = ServiceCalls("resume", z, "must")
    OBVIOUS
<1>1. Covers(todo, "resume", "must", z, PiecesOf(z) \ {"chain"})
    BY ScriptOfTwo DEF Verbs, Modes
<1> QED BY <1>1 DEF Resuming, Covers, Agree

LEMMA BeginsWell ==
    ASSUME TypeOK, NEW p \in Requests, NEW op \in RequestOps, NEW todo \in Seq(Commands),
           NEW r \in Rows, Start(p, op, todo, r), Begins(op, todo, r),
           Agree(piece, row), online = Nodes
    PROVE  proc'[p].op # "idle" /\ Works(p, piece', row', proc'[p])
<1> PICK d : d = proc'[p]
    OBVIOUS
<1> PICK f \in PieceMaps : f = piece
    BY DEF TypeOK, PieceMaps
<1> PICK z \in Rows : z = row
    BY DEF TypeOK
<1>1. /\ d.op = op /\ d.todo = todo /\ d.row = r /\ d.ok = TRUE
      /\ piece' = f
    <2>1. p \in Procs /\ op \in Ops
        BY DEF Procs, RequestOps, Ops
    <2> QED BY <2>1, StartIs
<1>2. op # "idle"
    BY DEF RequestOps
<1>3. Agree(f, z)
    OBVIOUS
<1>4. CASE op = "create"
    <2>1. row' = r /\ r.status = "active" /\ todo = createGostServices(r) /\ ~Exists(z)
        BY <1>4 DEF Begins, Exists
    <2>2. RequestFits(f, r, d)
        BY <2>1, <1>1, <1>3, <1>4, FitsMaking
    <2> QED BY <2>1, <2>2, <1>1, <1>2 DEF Works
<1>5. CASE op = "move"
    <2>1. /\ row' = z /\ Exists(z) /\ r.status = "active"
          /\ todo = deleteGostServices(z, "ignore") \o createGostServices(r)
        BY <1>5 DEF Begins
    <2> PICK dels \in Seq(Commands) : dels = deleteGostServices(z, "ignore")
        BY CommandLists
    <2>2. Clearing(f, dels, z) /\ dels # <<>>
        BY <2>1, <1>3, FitsClearing
    <2>3. Moving(f, todo, z, r)
        BY <2>1, <2>2 DEF Moving
    <2>4. RequestFits(f, z, d)
        BY <2>1, <2>3, <1>1, <1>5 DEF RequestFits
    <2> QED BY <2>1, <2>4, <1>1, <1>2 DEF Works
<1>6. CASE op = "update"
    <2>1. /\ row' = z /\ Exists(z) /\ r.status = "active" /\ r.tunnel = z.tunnel
          /\ \/ todo = syncGostServices(r)
             \/ todo = hotUpdate(r) /\ r.port = z.port
             \/ todo = <<>> /\ r.port = z.port /\ r.target = z.target
        BY <1>6 DEF Begins
    <2>2. Updating(f, todo, z, r)
        BY <2>1, <1>3, FitsUpdating
    <2>3. RequestFits(f, z, d)
        BY <2>1, <2>2, <1>1, <1>6 DEF RequestFits
    <2> QED BY <2>1, <2>3, <1>1, <1>2 DEF Works
<1>7. CASE op \in {"pause", "quota"}
    <2>1. /\ row' = z /\ Exists(z)
          /\ \E mode \in {"must", "ignore"} : todo = ServiceCalls("pause", z, mode)
        BY <1>7 DEF Begins
    <2>2. Stopping(f, todo, z)
        BY <2>1, <1>3, FitsStopping
    <2>3. RequestFits(f, z, d)
        BY <2>1, <2>2, <1>1, <1>7 DEF RequestFits
    <2> QED BY <2>1, <2>3, <1>1, <1>2 DEF Works
<1>8. CASE op = "resume"
    <2>1. row' = z /\ Exists(z) /\ todo = ServiceCalls("resume", z, "must")
        BY <1>8 DEF Begins
    <2>2. Resuming(f, todo, z)
        BY <2>1, <1>3, FitsResuming
    <2>3. RequestFits(f, z, d)
        BY <2>1, <2>2, <1>1, <1>8 DEF RequestFits
    <2> QED BY <2>1, <2>3, <1>1, <1>2 DEF Works
<1>9. CASE op = "delete"
    <2>1. AllOnline(z)
        BY PiecesAre DEF AllOnline
    <2>2. /\ row' = z /\ Exists(z)
          /\ \E mode \in {"ignore", "absent"} : todo = deleteGostServices(z, mode)
        BY <2>1, <1>9 DEF Begins
    <2>3. Clearing(f, todo, z)
        BY <2>2, <1>3, FitsClearing
    <2>4. RequestFits(f, z, d)
        BY <2>2, <2>3, <1>1, <1>9 DEF RequestFits
    <2> QED BY <2>2, <2>4, <1>1, <1>2 DEF Works
<1> QED BY <1>4, <1>5, <1>6, <1>7, <1>8, <1>9 DEF RequestOps

\* With another status, or as another row with the same places, the row still
\* describes the services.
LEMMA DescribesToo ==
    ASSUME NEW f, NEW z, Located(f, z), There(f, z), NEW y,
           Exists(z), Exists(y), y.tunnel = z.tunnel, y.port = z.port, y.target = z.target
    PROVE  Located(f, y) /\ There(f, y)
<1>1. /\ PiecesOf(y) = PiecesOf(z) /\ Carrier(y) = Carrier(z)
      /\ \A x : NodeFor(x, y) = NodeFor(x, z)
    BY SameTunnel
<1> QED BY <1>1 DEF Located, There, Holds

LEMMA EmptyIs ==
    ASSUME NEW x
    PROVE  ~Waits(<<>>, x)
BY DEF Waits

LEMMA MadeAgrees ==
    ASSUME NEW f, NEW r, r.status = "active", Making(f, <<>>, r)
    PROVE  Agree(f, r)
BY EmptyIs DEF Making, Agree, Located, There, Exists

LEMMA StatusIs ==
    ASSUME NEW z \in Rows, NEW status \in {"active", "paused", "error", "deleted"}
    PROVE  /\ [z EXCEPT !.status = status].status = status
           /\ [z EXCEPT !.status = status].tunnel = z.tunnel
           /\ [z EXCEPT !.status = status].port = z.port
           /\ [z EXCEPT !.status = status].target = z.target
BY DEF Rows

\* A request that ends leaves row and services in agreement.
LEMMA FinishAgrees ==
    ASSUME SyncTypeInv, NEW p \in Requests, Finish(p), Works(p, piece, row, proc[p])
    PROVE  Agree(piece', row')
<1> PICK f \in PieceMaps : f = piece
    BY DEF SyncTypeInv, TypeOK, PieceMaps
<1> PICK z \in Rows : z = row
    BY DEF SyncTypeInv, TypeOK
<1>1. /\ proc[p].op \in RequestOps /\ proc[p].row \in Rows /\ proc[p].todo = <<>>
      /\ row' = (IF Exists(z) THEN Written(proc[p]) ELSE z) /\ piece' = f
    BY FinishIs
<1> PICK d \in ProcStates : d = proc[p]
    BY ProcIs DEF SyncTypeInv, Procs
<1>2. d.ok = TRUE /\ d.op \notin ReconcileOps
    BY <1>1 DEF Works, RequestOps, ReconcileOps
<1>3. RequestFits(f, z, d)
    BY <1>2 DEF Works, ReconcileFits, ReconcileOps
<1>4. Exists(z) /\ row' = Written(d)
    BY <1>1, <1>3 DEF RequestFits
<1>5. /\ d.op \in {"move", "update"} => Written(d) = d.row
      /\ d.op \in {"pause", "quota"} => Written(d) = [z EXCEPT !.status = "paused"]
      /\ d.op = "resume" => Written(d) = [z EXCEPT !.status = "active"]
      /\ d.op = "delete" => Written(d) = [z EXCEPT !.status = "deleted"]
      /\ d.op = "create" => Written(d) = z
    BY <1>1, <1>2, WrittenIs DEF SyncTypeInv
<1>6. CASE d.op = "create" /\ z.status = "active" /\ Making(f, d.todo, z)
    BY <1>1, <1>4, <1>5, <1>6, MadeAgrees
<1>7. CASE d.op = "move" /\ d.row.status = "active" /\ Moving(f, d.todo, z, d.row)
    <2>1. Making(f, <<>>, d.row)
        <3>1. \A dels \in Seq(Commands) : dels # <<>> => dels \o createGostServices(d.row) # <<>>
            BY <1>1, CommandLists, HeadOfTwo
        <3> QED BY <3>1, <1>1, <1>7 DEF Moving
    <2> QED BY <2>1, <1>1, <1>4, <1>5, <1>7, MadeAgrees
<1>8. CASE d.op = "update" /\ d.row.status = "active" /\ Updating(f, d.todo, z, d.row)
    <2> PICK r \in Rows : r = d.row
        BY <1>1
    <2>1. hotUpdate(r) # <<>>
        <3>1. <<Command("retarget", "hot", r, Carrier(r))>> \in Seq(Commands)
            BY CommandIs, PiecesAre DEF Verbs, Modes
        <3>2. syncGostServices(r) \in Seq(Commands)
            BY CommandLists
        <3> QED BY <3>1, <3>2 DEF hotUpdate
    <2>2. r.tunnel = z.tunnel /\ Located(f, z) /\ \A x \in PiecesOf(r) : Holds(f[NodeFor(x, r)][x], x, r)
        BY <2>1, <1>1, <1>8, EmptyIs DEF Updating
    <2>3. /\ PiecesOf(r) = PiecesOf(z) /\ \A x : NodeFor(x, r) = NodeFor(x, z)
        BY <2>2, SameTunnel
    <2>4. Agree(f, r)
        BY <2>2, <2>3, <1>8 DEF Agree, Located, There, Exists
    <2> QED BY <2>4, <1>1, <1>4, <1>5, <1>8
<1>9. CASE d.op \in {"pause", "quota"} /\ Stopping(f, d.todo, z)
    <2> PICK y : y = [z EXCEPT !.status = "paused"]
        OBVIOUS
    <2>1. y.status = "paused" /\ y.tunnel = z.tunnel /\ y.port = z.port /\ y.target = z.target
        BY StatusIs
    <2>2. Located(f, y) /\ There(f, y)
        <3>1. Located(f, z) /\ There(f, z)
            BY <1>9 DEF Stopping
        <3>2. Exists(y)
            BY <2>1 DEF Exists
        <3> QED BY <2>1, <3>1, <3>2, <1>4, DescribesToo
    <2>3. \A x \in PiecesOf(z) \ {"chain"} : f[NodeFor(x, z)][x].state = "paused"
        BY <1>1, <1>9, EmptyIs DEF Stopping
    <2>4. PiecesOf(y) = PiecesOf(z) /\ \A x : NodeFor(x, y) = NodeFor(x, z)
        BY <2>1, SameTunnel
    <2>5. Agree(f, y)
        BY <2>2, <2>3, <2>4 DEF Agree
    <2> QED BY <2>5, <1>1, <1>4, <1>5, <1>9
<1>10. CASE d.op = "resume" /\ Resuming(f, d.todo, z)
    <2> PICK y : y = [z EXCEPT !.status = "active"]
        OBVIOUS
    <2>1. y.status = "active" /\ y.tunnel = z.tunnel /\ y.port = z.port /\ y.target = z.target
        BY StatusIs
    <2>2. Located(f, y) /\ There(f, y)
        <3>1. Located(f, z) /\ There(f, z)
            BY <1>10 DEF Resuming
        <3>2. Exists(y)
            BY <2>1 DEF Exists
        <3> QED BY <2>1, <3>1, <3>2, <1>4, DescribesToo
    <2>3. Agree(f, y)
        BY <2>1, <2>2 DEF Agree
    <2> QED BY <2>3, <1>1, <1>4, <1>5, <1>10
<1>11. CASE d.op = "delete" /\ Clearing(f, d.todo, z)
    <2> PICK y : y = [z EXCEPT !.status = "deleted"]
        OBVIOUS
    <2>1. y.status = "deleted"
        BY StatusIs
    <2>2. \A n \in Nodes, x \in Pieces : f[n][x] = Absent
        BY <1>1, <1>11, ClearedIs
    <2>3. Agree(f, y)
        BY <2>1, <2>2 DEF Agree, Located, Exists
    <2> QED BY <2>3, <1>1, <1>4, <1>5, <1>11
<1> QED BY <1>3, <1>6, <1>7, <1>8, <1>9, <1>10, <1>11 DEF RequestFits

LEMMA ReconcileAgrees ==
    ASSUME SyncTypeInv, NEW n \in Locked, Reconcile(n), Agree(piece, row)
    PROVE  proc'[n].op # "idle" /\ Works(n, piece', row', proc'[n])
<1> PICK f \in PieceMaps : f = piece
    BY DEF SyncTypeInv, TypeOK, PieceMaps
<1> PICK z \in Rows : z = row
    BY DEF SyncTypeInv, TypeOK
<1> PICK d : d = proc'[n]
    OBVIOUS
<1>1. /\ d.op = "sync" /\ d.ok = TRUE /\ d.row = z /\ row' = z /\ piece' = f
      /\ d.todo = IF Exists(z) /\ Involves(n, z) THEN gentleSync(z) ELSE <<>>
    BY ReconcileIs
<1>2. Covers(gentleSync(z), "add", "gentle", z, PiecesOf(z))
    BY Scripts
<1>3. Syncs(d.todo, z)
    <2>1. CASE Exists(z) /\ Involves(n, z)
        <3>1. d.todo = gentleSync(z)
            BY <1>1, <2>1
        <3> QED BY <3>1, <2>1, <1>2 DEF Syncs, Covers
    <2>2. CASE ~(Exists(z) /\ Involves(n, z))
        <3>1. d.todo = <<>>
            BY <1>1, <2>2
        <3> QED BY <3>1 DEF Syncs
    <2> QED BY <2>1, <2>2
<1>4. ReconcileFits(n, f, z, d)
    BY <1>1, <1>3 DEF ReconcileFits
<1> QED BY <1>1, <1>4 DEF Works

\* A reconciliation at work is in no other state.
LEMMA ReconcileWorks ==
    ASSUME SyncTypeInv, NEW n \in Locked, NEW f, NEW z, Works(n, f, z, proc[n])
    PROVE  proc[n].ok = TRUE /\ ReconcileFits(n, f, z, proc[n])
<1>1. proc[n].op \in ReconcileOps \cup {"idle"}
    BY DEF SyncTypeInv, Jobs
<1>2. ~RequestFits(f, z, proc[n])
    BY <1>1 DEF RequestFits, ReconcileOps
<1> QED BY <1>2 DEF Works

LEMMA SettleAgrees ==
    ASSUME SyncTypeInv, NEW n \in Locked, Settle(n), Works(n, piece, row, proc[n])
    PROVE  proc'[n].op # "idle" /\ Works(n, piece', row', proc'[n])
<1> PICK f \in PieceMaps : f = piece
    BY DEF SyncTypeInv, TypeOK, PieceMaps
<1> PICK z \in Rows : z = row
    BY DEF SyncTypeInv, TypeOK
<1> PICK d : d = proc'[n]
    OBVIOUS
<1> PICK b : b = proc[n]
    OBVIOUS
<1> PICK y : y = row'
    OBVIOUS
<1>1. /\ b.row \in Rows /\ d.op = "pauses" /\ d.ok = b.ok /\ d.row = b.row
      /\ d.todo = (IF b.row.status = "paused" /\ Involves(n, b.row)
                   THEN PausesOn(n, b.row) ELSE <<>>)
      /\ y = Settled(n, b) /\ y.tunnel = z.tunnel /\ (Exists(y) <=> Exists(z))
      /\ y.port = z.port /\ y.target = z.target /\ piece' = f
    BY SettleIs
<1>2. b.ok = TRUE /\ Agree(f, z) /\ b.row.tunnel = z.tunnel
    BY ReconcileWorks DEF ReconcileFits
<1>3. y = z \/ y.status = "active"
    BY <1>1, StatusIs DEF Settled
<1>4. Agree(f, y)
    <2>1. CASE y = z
        BY <2>1, <1>2
    <2>2. CASE y.status = "active"
        <3>1. Exists(z) /\ Exists(y)
            BY <2>2, <1>1 DEF Exists
        <3>2. Located(f, y) /\ There(f, y)
            BY <3>1, <1>1, <1>2, DescribesToo DEF Agree
        <3> QED BY <3>2, <2>2 DEF Agree
    <2> QED BY <2>1, <2>2, <1>3
<1>5. Pauses(d.todo, y)
    <2>1. n \in Nodes
        BY SyncAssumption
    <2> PICK X, t : /\ t = PausesOn(n, b.row)
                    /\ Covers(t, "pause", "ignore", b.row, X)
        BY <2>1, <1>1, PausesAre
    <2>2. d.todo = t \/ d.todo = <<>>
        BY <1>1
    <2>3. Pauses(t, y)
        BY <1>1, <1>2 DEF Pauses, Covers
    <2>4. Pauses(<<>>, y)
        BY DEF Pauses
    <2> QED BY <2>2, <2>3, <2>4
<1>6. ReconcileFits(n, f, y, d)
    BY <1>1, <1>2, <1>4, <1>5 DEF ReconcileFits
<1> QED BY <1>1, <1>2, <1>6 DEF Works

LEMMA NamesAgrees ==
    ASSUME SyncTypeInv, NEW n \in Locked, Names(n), Works(n, piece, row, proc[n])
    PROVE  smooth' => proc'[n].op # "idle" /\ Works(n, piece', row', proc'[n])
<1> SUFFICES ASSUME smooth' PROVE proc'[n].op # "idle" /\ Works(n, piece', row', proc'[n])
    OBVIOUS
<1> PICK d : d = proc'[n]
    OBVIOUS
<1>1. /\ d.todo = <<>> /\ d.ok = proc[n].ok /\ d.row = proc[n].row
      /\ d.op = "query" /\ d.names = ServicesOn(n)
      /\ row' = row /\ piece' = piece
    BY NamesIs
<1>2. proc[n].ok = TRUE /\ Agree(piece, row) /\ proc[n].row.tunnel = row.tunnel
    BY ReconcileWorks DEF ReconcileFits
<1>3. ASSUME d.names # {}
      PROVE  Exists(row) /\ Involves(n, row)
    <2>1. PICK x \in Pieces : Registered(piece[n][x])
        BY <1>1, <1>3 DEF ServicesOn, Pieces
    <2>2. n \in Nodes /\ piece[n][x] # Absent
        BY <2>1, SyncAssumption DEF Registered
    <2> QED BY <2>2, <1>2 DEF Agree, Located, Involves
<1>4. ReconcileFits(n, piece, row, d)
    BY <1>1, <1>2, <1>3 DEF ReconcileFits
<1> QED BY <1>1, <1>2, <1>4 DEF Works

LEMMA QueryAgrees ==
    ASSUME SyncTypeInv, NEW n \in Locked, Query(n), Works(n, piece, row, proc[n])
    PROVE  proc'[n].op # "idle" /\ Works(n, piece', row', proc'[n])
<1> PICK d : d = proc'[n]
    OBVIOUS
<1>1. /\ proc[n].op = "query" /\ d.todo = proc[n].todo /\ d.ok = proc[n].ok
      /\ d.row = proc[n].row
      /\ d.op = IF ~(Exists(row) /\ Involves(n, row)) /\ proc[n].names # {}
                THEN "purge" ELSE "end"
      /\ row' = row /\ piece' = piece
    BY QueryIs
<1>2. proc[n].ok = TRUE /\ ReconcileFits(n, piece, row, proc[n])
    BY ReconcileWorks
<1>3. d.op = "end" /\ d.todo = <<>>
    BY <1>1, <1>2 DEF ReconcileFits
<1>4. ReconcileFits(n, piece, row, d)
    BY <1>1, <1>2, <1>3 DEF ReconcileFits
<1> QED BY <1>1, <1>2, <1>3, <1>4 DEF Works

LEMMA CallAgrees ==
    ASSUME SyncTypeInv, NEW p \in Procs, Call(p), Works(p, piece, row, proc[p])
    PROVE  smooth' => proc'[p].op # "idle" /\ Works(p, piece', row', proc'[p])
<1> SUFFICES ASSUME smooth' PROVE proc'[p].op # "idle" /\ Works(p, piece', row', proc'[p])
    OBVIOUS
<1> PICK f \in PieceMaps : f = piece
    BY DEF SyncTypeInv, TypeOK, PieceMaps
<1> PICK z \in Rows : z = row
    BY DEF SyncTypeInv, TypeOK
<1>1. PICK d \in ProcStates, c \in Commands, m \in Nodes, s \in PieceStates, rest \in Seq(Commands) :
           /\ d = proc[p] /\ d.todo # <<>> /\ c = Head(d.todo) /\ rest = Tail(d.todo)
           /\ m = NodeFor(c.piece, c.row) /\ s = f[m][c.piece]
           /\ \E e \in Effects(c, s) :
              /\ e[1] \in Results /\ e[2] \in PieceStates
              /\ \A k \in Nodes, x \in Pieces :
                    piece'[k][x] = IF k = m /\ x = c.piece THEN e[2] ELSE f[k][x]
              /\ proc'[p] = Answered(d, e[1])
              /\ IF e[1] = "failed" THEN Fault ELSE Notes(p)
    BY CallSays
<1>2. PICK e \in Effects(c, s) :
              /\ e[1] \in Results /\ e[2] \in PieceStates
              /\ \A k \in Nodes, x \in Pieces :
                    piece'[k][x] = IF k = m /\ x = c.piece THEN e[2] ELSE f[k][x]
              /\ proc'[p] = Answered(d, e[1])
              /\ IF e[1] = "failed" THEN Fault ELSE Notes(p)
    BY <1>1
<1>3. e[1] # "failed"
    BY <1>2 DEF Fault
<1> PICK g : g = piece'
    OBVIOUS
<1> PICK res \in Results : res = e[1]
    BY <1>2
<1>4. Runs(f, g, Head(d.todo), res)
    <2>1. Becomes(f, g, m, c.piece, e[2])
        BY <1>2 DEF Becomes
    <2>2. Runs(f, g, c, res)
        BY <2>1, <1>1, <1>3 DEF Runs
    <2> QED BY <2>2, <1>1
<1>5. row' = z /\ d.ok = TRUE
    BY <1>1, CallIs DEF Works
<1>6. d.op \in RequestOps \cup ReconcileOps
    BY <1>1 DEF Works, RequestFits, ReconcileFits, RequestOps, ReconcileOps
<1>7. d # Idle /\ d.row \in Rows
    BY <1>1, IdleIs DEF SyncTypeInv, Jobs
<1>8. Answered(d, res).op # "idle"
    <2>1. d.todo # <<>>
        BY <1>1
    <2>2. Answered(d, res).op = d.op
        BY <2>1, SameJob
    <2> QED BY <2>2, <1>6 DEF RequestOps, ReconcileOps
<1>9. CASE RequestFits(f, z, d)
    <2>1. Answered(d, res).ok = TRUE /\ RequestFits(g, z, Answered(d, res))
        BY <1>1, <1>4, <1>5, <1>7, <1>9, RequestCall
    <2> QED BY <2>1, <1>2, <1>5, <1>8 DEF Works
<1>10. CASE ReconcileFits(p, f, z, d)
    <2>1. Answered(d, res).ok = TRUE /\ ReconcileFits(p, g, z, Answered(d, res))
        BY <1>1, <1>4, <1>5, <1>10, ReconcileCall
    <2> QED BY <2>1, <1>2, <1>5, <1>8 DEF Works
<1> QED BY <1>1, <1>9, <1>10 DEF Works

\* A step of p, the others being idle: it is what p makes of it.
LEMMA SmoothOne ==
    ASSUME SyncTypeInv, SmoothInv, NEW p \in Procs,
           \A q \in Procs : q # p => proc'[q] = proc[q],
           smooth' => /\ smooth /\ late' = {} /\ online' = Nodes
                      /\ \A q \in Procs : q # p => ~Busy(q)
                      /\ \/ proc'[p] = Idle /\ Agree(piece', row')
                         \/ proc'[p].op # "idle" /\ Works(p, piece', row', proc'[p])
    PROVE  SmoothInv'
<1> SUFFICES ASSUME smooth'
             PROVE  /\ late' = {} /\ online' = Nodes
                    /\ \A q \in Procs : proc'[q].op = "idle" => proc'[q] = Idle
                    /\ \A q, o \in Procs : proc'[q].op # "idle" /\ proc'[o].op # "idle" => q = o
                    /\ (\A q \in Procs : proc'[q].op = "idle") => Agree(piece', row')
                    /\ \A q \in Procs : proc'[q].op # "idle" => Works(q, piece', row', proc'[q])
    BY DEF SmoothInv, Busy
<1>1. \A q \in Procs : q # p => proc'[q] = Idle
    BY DEF SmoothInv
<1>2. /\ late' = {} /\ online' = Nodes
      /\ \/ proc'[p] = Idle /\ Agree(piece', row')
         \/ proc'[p].op # "idle" /\ Works(p, piece', row', proc'[p])
    OBVIOUS
<1> QED BY <1>1, <1>2, IdleIs

\* Nobody else is at work while p is, or when p begins alone.
LEMMA OthersIdle ==
    ASSUME NEW p \in Procs, Notes(p), smooth'
    PROVE  smooth /\ \A q \in Procs : q # p => ~Busy(q)
BY DEF Notes

LEMMA SmoothRequest ==
    ASSUME SyncTypeInv, SmoothInv, NEW p \in Requests, Request(p)
    PROVE  SmoothInv'
<1>1. p \in Procs /\ TypeOK
    BY DEF Procs, SyncTypeInv
<1>2. CASE Finish(p)
    <2>1. /\ proc'[p] = Idle /\ late' = late /\ online' = online /\ Notes(p)
          /\ \A q \in Procs : q # p => proc'[q] = proc[q]
        BY <1>2, FinishIs
    <2>2. ASSUME smooth' PROVE Agree(piece', row')
        <3>1. Works(p, piece, row, proc[p])
            BY <1>1, <1>2, <2>1, <2>2, OthersIdle DEF SmoothInv, Finish
        <3> QED BY <3>1, <1>2, FinishAgrees
    <2>3. smooth' => late' = {} /\ online' = Nodes
        BY <1>1, <2>1, OthersIdle DEF SmoothInv
    <2> QED BY <1>1, <2>1, <2>2, <2>3, OthersIdle, SmoothOne
<1>3. CASE ~Finish(p)
    <2>1. PICK op \in RequestOps, todo \in Seq(Commands), r \in Rows :
             Start(p, op, todo, r) /\ Begins(op, todo, r) /\ row' \in Rows
        BY <1>1, <1>3, RequestBegins
    <2>2. op \in Ops
        BY DEF RequestOps, Ops
    <2>3. /\ late' = late /\ online' = online /\ Notes(p) /\ ~Busy(p)
          /\ \A q \in Procs : q # p => proc'[q] = proc[q]
        BY <1>1, <2>1, <2>2, StartIs DEF Busy
    <2>4. ASSUME smooth' PROVE proc'[p].op # "idle" /\ Works(p, piece', row', proc'[p])
        <3>1. smooth /\ \A q \in Procs : ~Busy(q)
            BY <1>1, <2>3, <2>4, OthersIdle
        <3>2. Agree(piece, row) /\ online = Nodes
            BY <3>1 DEF SmoothInv
        <3> QED BY <3>2, <2>1, <1>1, BeginsWell
    <2>5. smooth' => late' = {} /\ online' = Nodes
        BY <1>1, <2>3, OthersIdle DEF SmoothInv
    <2> QED BY <1>1, <2>3, <2>4, <2>5, OthersIdle, SmoothOne
<1> QED BY <1>2, <1>3

LEMMA SmoothReconciliation ==
    ASSUME SyncTypeInv, SmoothInv, NEW n \in Locked, Reconciliation(n)
    PROVE  SmoothInv'
<1>1. n \in Procs /\ TypeOK
    BY DEF Procs, SyncTypeInv
<1>2. CASE Reconcile(n)
    <2>1. /\ late' = late /\ online' = online
          /\ \A q \in Procs : q # n => proc'[q] = proc[q]
          /\ smooth' = (smooth /\ \A q \in Procs : ~Busy(q))
        BY <1>2, ReconcileIs
    <2>2. ASSUME smooth' PROVE proc'[n].op # "idle" /\ Works(n, piece', row', proc'[n])
        <3>1. Agree(piece, row)
            BY <2>1, <2>2 DEF SmoothInv
        <3> QED BY <3>1, <1>2, ReconcileAgrees
    <2>3. smooth' => /\ late' = {} /\ online' = Nodes /\ smooth
                     /\ \A q \in Procs : q # n => ~Busy(q)
        BY <2>1 DEF SmoothInv
    <2> QED BY <1>1, <2>1, <2>2, <2>3, SmoothOne
<1>3. ASSUME smooth, Busy(n)
      PROVE  Works(n, piece, row, proc[n]) /\ late = {} /\ online = Nodes
    BY <1>1, <1>3 DEF SmoothInv
<1>4. CASE Settle(n)
    <2>1. /\ late' = late /\ online' = online /\ Notes(n) /\ Busy(n)
          /\ \A q \in Procs : q # n => proc'[q] = proc[q]
        BY <1>4, SettleIs DEF Busy
    <2>2. ASSUME smooth' PROVE proc'[n].op # "idle" /\ Works(n, piece', row', proc'[n])
        <3>1. Works(n, piece, row, proc[n])
            BY <1>1, <1>3, <2>1, <2>2, OthersIdle
        <3> QED BY <3>1, <1>4, SettleAgrees
    <2>3. smooth' => late' = {} /\ online' = Nodes
        BY <1>1, <1>3, <2>1, OthersIdle
    <2> QED BY <1>1, <2>1, <2>2, <2>3, OthersIdle, SmoothOne
<1>5. CASE Names(n)
    <2>1. /\ late' = late /\ online' = online /\ Busy(n) /\ (Notes(n) \/ smooth' = FALSE)
          /\ \A q \in Procs : q # n => proc'[q] = proc[q]
        BY <1>5, NamesIs DEF Busy
    <2>2. ASSUME smooth' PROVE proc'[n].op # "idle" /\ Works(n, piece', row', proc'[n])
        <3>1. Works(n, piece, row, proc[n])
            BY <1>1, <1>3, <2>1, <2>2, OthersIdle
        <3> QED BY <3>1, <1>5, <2>2, NamesAgrees
    <2>3. smooth' => late' = {} /\ online' = Nodes
        BY <1>1, <1>3, <2>1, OthersIdle
    <2> QED BY <1>1, <2>1, <2>2, <2>3, OthersIdle, SmoothOne
<1>6. CASE Query(n)
    <2>1. /\ late' = late /\ online' = online /\ Notes(n) /\ Busy(n)
          /\ \A q \in Procs : q # n => proc'[q] = proc[q]
        BY <1>6, QueryIs DEF Busy
    <2>2. ASSUME smooth' PROVE proc'[n].op # "idle" /\ Works(n, piece', row', proc'[n])
        <3>1. Works(n, piece, row, proc[n])
            BY <1>1, <1>3, <2>1, <2>2, OthersIdle
        <3> QED BY <3>1, <1>6, QueryAgrees
    <2>3. smooth' => late' = {} /\ online' = Nodes
        BY <1>1, <1>3, <2>1, OthersIdle
    <2> QED BY <1>1, <2>1, <2>2, <2>3, OthersIdle, SmoothOne
<1>7. CASE Purge(n)
    \* There is nothing to purge: the names are those of the row.
    <2>1. proc[n].op = "purge" /\ Notes(n)
        BY <1>7, PurgeIs
    <2>2. ASSUME smooth' PROVE FALSE
        <3>1. Works(n, piece, row, proc[n])
            BY <1>1, <1>3, <2>1, <2>2, OthersIdle DEF Busy
        <3> QED BY <3>1, <2>1 DEF Works, RequestFits, ReconcileFits
    <2> QED BY <2>2 DEF SmoothInv
<1>8. CASE PurgeFails(n)
    BY <1>8 DEF PurgeFails, SmoothInv
<1>9. CASE Unlock(n)
    <2>1. /\ proc[n].op = "end" /\ proc'[n] = Idle
          /\ \A q \in Procs : q # n => proc'[q] = proc[q]
          /\ UNCHANGED <<row, piece, online, late, smooth>>
        BY <1>9, UnlockIs
    <2>2. ASSUME smooth' PROVE /\ Agree(piece', row') /\ late' = {} /\ online' = Nodes
                               /\ \A q \in Procs : q # n => ~Busy(q)
        <3>1. Works(n, piece, row, proc[n]) /\ late = {} /\ online = Nodes /\ Busy(n)
            BY <1>3, <2>1, <2>2 DEF Busy
        <3>2. Agree(piece, row)
            BY <3>1, ReconcileWorks DEF ReconcileFits
        <3> QED BY <3>1, <3>2, <2>1, <2>2, <1>1 DEF SmoothInv
    <2> QED BY <1>1, <2>1, <2>2, SmoothOne
<1> QED BY <1>2, <1>4, <1>5, <1>6, <1>7, <1>8, <1>9 DEF Reconciliation

LEMMA StepSmooth == SyncTypeInv /\ SmoothInv /\ [Next]_vars => SmoothInv'
<1> SUFFICES ASSUME SyncTypeInv, SmoothInv, [Next]_vars PROVE SmoothInv'
    OBVIOUS
<1>1. CASE UNCHANGED vars
    BY <1>1 DEF vars, SmoothInv, Busy
<1>2. ASSUME NEW p \in Requests, Request(p) PROVE SmoothInv'
    BY <1>2, SmoothRequest
<1>3. ASSUME NEW n \in Locked, Reconciliation(n) PROVE SmoothInv'
    BY <1>3, SmoothReconciliation
<1>4. ASSUME NEW p \in Procs, Call(p) PROVE SmoothInv'
    <2>1. /\ proc[p].todo # <<>> /\ late' = late /\ online' = online
          /\ \A q \in Procs : q # p => proc'[q] = proc[q]
          /\ Notes(p) \/ smooth' = FALSE
        BY <1>4, CallIs DEF Fault
    <2>2. ASSUME smooth' PROVE proc'[p].op # "idle" /\ Works(p, piece', row', proc'[p])
        <3>1. Works(p, piece, row, proc[p])
            BY <2>1, <2>2, OthersIdle, IdleIs DEF SmoothInv
        <3> QED BY <3>1, <1>4, <2>2, CallAgrees
    <2>3. smooth' => late' = {} /\ online' = Nodes
        BY <2>1, OthersIdle DEF SmoothInv
    <2> QED BY <2>1, <2>2, <2>3, OthersIdle, SmoothOne
<1>5. ASSUME NEW p \in Procs, CallFails(p) PROVE SmoothInv'
    BY <1>5 DEF CallFails, Fault, SmoothInv
<1>6. ASSUME NEW n \in Nodes, Disconnect(n) \/ Connect(n) \/ Restart(n) PROVE SmoothInv'
    <2>1. CASE Disconnect(n) \/ Restart(n)
        BY <2>1 DEF Disconnect, Restart, Fault, SmoothInv
    <2>2. CASE Connect(n)
        \* No node is without a session.
        BY <2>2, <1>6 DEF Connect, SmoothInv
    <2> QED BY <2>1, <2>2, <1>6
<1>7. CASE RunLate
    BY <1>7 DEF RunLate, Fault, SmoothInv
<1> QED BY <1>1, <1>2, <1>3, <1>4, <1>5, <1>6, <1>7 DEF Next

LEMMA InitSmooth == Init => SmoothInv
<1> SUFFICES ASSUME Init PROVE SmoothInv
    OBVIOUS
<1>1. \A p \in Procs : proc[p] = Idle /\ ~Busy(p)
    BY IdleIs DEF Init, Busy
<1>2. Agree(piece, row)
    BY DEF Init, Agree, Located, Exists
<1> QED BY <1>1, <1>2 DEF Init, SmoothInv

\* As long as nothing fails and no two handlers overlap, whatever requests and
\* reconciliations follow one another: when none is at work, the nodes run what
\* the row says and nothing else.
THEOREM SmoothHandlersAgree == Spec => []SmoothAgrees
<1>1. SyncTypeInv /\ SmoothInv => SmoothAgrees
    <2> SUFFICES ASSUME SmoothInv, smooth, \A p \in Procs : ~Busy(p)
                 PROVE  /\ \A n \in Nodes, x \in Pieces :
                              piece[n][x] # Absent =>
                                 Exists(row) /\ x \in PiecesOf(row) /\ n = NodeFor(x, row)
                        /\ Exists(row) => \A x \in PiecesOf(row) :
                              LET s == piece[NodeFor(x, row)][x]
                              IN  /\ Registered(s) /\ s.port = row.port
                                  /\ x = Carrier(row) => s.target = row.target
                                  /\ row.status = "paused" /\ x # "chain" => s.state = "paused"
        BY DEF SmoothAgrees
    <2>1. Agree(piece, row)
        BY DEF SmoothInv
    <2>2. Located(piece, row)
        BY <2>1 DEF Agree
    <2> QED BY <2>1, <2>2 DEF Agree, Located, There, Holds
<1> QED BY <1>1, InitType, StepType, InitSmooth, StepSmooth, PTL DEF Spec
=============================================================================
