---------------------------- MODULE PanelRecords ----------------------------
(***************************************************************************)
(* Which rows of the panel's database name which others, and how the       *)
(* requests keep that so: a row is created after the rows it names were    *)
(* looked up, and deleted after its children were counted (the request is  *)
(* refused), or together with them.  Each is a statement of its own; there *)
(* are no foreign keys and no transactions.                                *)
(*                                                                         *)
(* A record is a row by its id, which is not used twice.  The users are    *)
(* ordinary ones.  A speed limit's tunnel is not looked after (DeleteTunnel*)
(* leaves the limit), neither is the user an inbound belongs to.           *)
(***************************************************************************)
EXTENDS Sequences, FiniteSets

CONSTANTS Records,
          KindOf,     \* "node", "tunnel", "user", "forward", "permit" (user_tunnel),
                      \* "limit", "inbound", "client", "right" (user_node)
          Shapes,     \* the sets of records that a record may name (model/*.go: the ids
                      \* among its columns)
          Writers,    \* requests that create or change a row
          Erasers     \* requests that delete one

Kinds == {"node", "tunnel", "user", "forward", "permit", "limit", "inbound", "client", "right"}
Named(kind) ==
    CASE kind \in {"tunnel", "inbound"} -> {"node"}
      [] kind = "forward" -> {"user", "tunnel"}
      [] kind = "permit" -> {"user", "tunnel", "limit"}
      [] kind = "limit" -> {"tunnel"}
      [] kind = "client" -> {"inbound", "user"}
      [] kind = "right" -> {"user", "node"}
      [] OTHER -> {}

\* A forward and a permit are of one user and one tunnel each.
ASSUME RecordsAssumption ==
    /\ KindOf \in [Records -> Kinds]
    /\ Shapes \in [Records -> SUBSET SUBSET Records]
    /\ \A x \in Records : \A s \in Shapes[x] :
         /\ \A y \in s : KindOf[y] \in Named(KindOf[x])
         /\ KindOf[x] \in {"forward", "permit"} =>
              \A k \in {"user", "tunnel"} : \E y \in s : {z \in s : KindOf[z] = k} = {y}

VARIABLES
    record,   \* the rows: whether they are there, and whom they name
    met,      \* history: the rows above a row whose deletion overlapped its writing,
              \* or was done when the row came to name them
    writing,  \* what each Writer is doing
    erasing   \* what each Eraser is doing

recordVars == <<record, met, writing, erasing>>

Unborn == [is |-> "unborn", names |-> {}]
Gone == [is |-> "gone", names |-> {}]
There(x) == record[x].is = "there"
Kindred(k) == {x \in Records : KindOf[x] = k}
Idle == [at |-> "idle"]

\* The rows whose deletion matters to a row: those it may name; of a client, the
\* node of its inbound; of a forward, the permits.
Parents(x) == UNION Shapes[x]
Above(x) == Parents(x) \cup
            CASE KindOf[x] = "client" -> UNION {Parents(y) : y \in Parents(x)}
              [] KindOf[x] = "forward" -> Kindred("permit")
              [] OTHER -> {}

\* Nodes and users may have been there before.
RecordsInit ==
    /\ \E s \in SUBSET {x \in Records : Shapes[x] = {{}}} :
         record = [x \in Records |-> IF x \in s THEN [is |-> "there", names |-> {}] ELSE Unborn]
    /\ met = [x \in Records |-> {}]
    /\ writing = [q \in Writers |-> Idle]
    /\ erasing = [q \in Erasers |-> Idle]
-----------------------------------------------------------------------------
(* Creating and changing.                                                   *)

Busy(w) == w.at \in {"insert", "change"}
BeingErased == {erasing[q].of : q \in {r \in Erasers : erasing[r] # Idle}}

\* The speed limit of a permit and the node of a right are written as they come in
\* the request, there or not: what AssignUserTunnel and UpdateUserTunnel look for is
\* only used to tell the node.
Unchecked(x, y) == \/ KindOf[x] = "permit" /\ KindOf[y] = "limit"
                   \/ KindOf[x] = "right" /\ KindOf[y] = "node"

\* An ordinary user's forward needs a row of user_tunnel for its tunnel.
Permitting(s) == {p \in Kindred("permit") : There(p) /\ s \subseteq record[p].names}
MayName(x, s) ==
    /\ s \in Shapes[x]
    /\ \A y \in s : There(y) \/ Unchecked(x, y)
    /\ KindOf[x] = "forward" => Permitting(s) # {}

Looks(q, x, s, at) ==
    /\ writing[q] = Idle
    /\ MayName(x, s)
    /\ writing' = [writing EXCEPT ![q] = [at |-> at, of |-> x, names |-> s,
                                         met |-> (BeingErased \cap Above(x))
                                                 \cup {y \in s : record[y] = Gone}]]
    /\ UNCHANGED <<record, met, erasing>>

\* CreateTunnel, CreateForward, AssignUserTunnel, CreateSpeedLimit, CreateXrayInbound,
\* CreateXrayClient, the user_node rows of CreateUser and UpdateUser; nodes and
\* users name nothing.
BeginInsert(q, x, s) ==
    /\ record[x] = Unborn
    /\ ~\E r \in Writers : Busy(writing[r]) /\ writing[r].of = x
    /\ Looks(q, x, s, "insert")

InsertRow(q) ==
    LET w == writing[q] IN
    /\ w.at = "insert"
    /\ record' = [record EXCEPT ![w.of] = [is |-> "there", names |-> w.names]]
    /\ met' = [met EXCEPT ![w.of] = w.met]
    /\ writing' = [writing EXCEPT ![q] = IF KindOf[w.of] = "forward"
                                        THEN [w EXCEPT !.at = "settle", !.met = {}] ELSE Idle]
    /\ UNCHANGED erasing

\* Mutant: rows are marked as deleted and stay.
EraseRows_Soft(s) ==
    /\ record' = [x \in Records |-> IF x \in s THEN [is |-> "marked", names |-> record[x].names]
                                    ELSE record[x]]
    /\ UNCHANGED met

EraseRows(s) ==
    /\ record' = [x \in Records |-> IF x \in s /\ There(x) THEN Gone ELSE record[x]]
    /\ met' = [x \in Records |-> IF x \in s THEN {} ELSE met[x]]

\* CreateForward looks for the tunnel's nodes after it inserted its row.
SettleForward(q) ==
    LET w == writing[q]
        nodes == UNION {Parents(t) : t \in w.names \cap Kindred("tunnel")}
    IN
    /\ w.at = "settle"
    /\ EraseRows(IF \A n \in nodes : There(n) THEN {} ELSE {w.of})
    /\ writing' = [writing EXCEPT ![q] = Idle]
    /\ UNCHANGED erasing

\* UpdateForward moves a forward to another tunnel, UpdateUserTunnel gives a permit
\* another speed limit; what a row named is read first and written by its id.
BeginChange(q, x, s) ==
    /\ KindOf[x] \in {"forward", "permit"}
    /\ There(x) /\ record[x].names # s
    /\ KindOf[x] = "permit" =>
         record[x].names \ Kindred("limit") = s \ Kindred("limit")
    /\ Looks(q, x, s, "change")

ChangeRow(q) ==
    LET w == writing[q] IN
    /\ w.at = "change"
    /\ IF There(w.of)
       THEN /\ record' = [record EXCEPT ![w.of].names = w.names]
            /\ met' = [met EXCEPT ![w.of] = @ \cup w.met]
       ELSE UNCHANGED <<record, met>>
    /\ writing' = [writing EXCEPT ![q] = Idle]
    /\ UNCHANGED erasing

\* No port is free, or a node is missing: the forward stays where it is.
Refused(q) ==
    /\ writing[q].at = "change" /\ KindOf[writing[q].of] = "forward"
    /\ writing' = [writing EXCEPT ![q] = Idle]
    /\ UNCHANGED <<record, met, erasing>>
-----------------------------------------------------------------------------
(* Deleting.  A request goes through the children of its row in the order   *)
(* of the code: "refuse" if there are any; "list" them and delete each      *)
(* later (calls to nodes in between), or the children of each; "wipe" those *)
(* there are, in one statement.                                             *)

Refuse(k) == [do |-> "refuse", kind |-> k]
List(k) == [do |-> "list", kind |-> k]
Each(k) == [do |-> "each", kind |-> k]
Wipe(k) == [do |-> "wipe", kind |-> k]

\* Mutant: DeleteTunnel forgets to count the forwards.
Plan_Uncounted(kind) ==
    CASE kind = "node" -> <<Refuse("tunnel"), List("inbound"), Each("client"),
                            Wipe("inbound"), Wipe("right")>>
      [] kind = "tunnel" -> <<Wipe("permit")>>
      [] kind = "limit" -> <<Refuse("permit")>>
      [] kind = "user" -> <<List("forward"), Each("forward"), Wipe("client"),
                            Wipe("permit"), Wipe("right")>>
      [] kind = "permit" -> <<List("forward"), Each("forward")>>
      [] kind = "inbound" -> <<Wipe("client")>>
      [] OTHER -> <<>>

\* Mutant: RemoveUserTunnel leaves the forwards.
Plan_Kept(kind) ==
    CASE kind = "node" -> <<Refuse("tunnel"), List("inbound"), Each("client"),
                            Wipe("inbound"), Wipe("right")>>
      [] kind = "tunnel" -> <<Refuse("forward"), Wipe("permit")>>
      [] kind = "limit" -> <<Refuse("permit")>>
      [] kind = "user" -> <<List("forward"), Each("forward"), Wipe("client"),
                            Wipe("permit"), Wipe("right")>>
      [] kind = "inbound" -> <<Wipe("client")>>
      [] OTHER -> <<>>

\* DeleteNode, DeleteTunnel, DeleteSpeedLimit, DeleteUser, RemoveUserTunnel,
\* DeleteXrayInbound; DeleteForward and DeleteXrayClient have no children.
Plan(kind) ==
    CASE kind = "node" -> <<Refuse("tunnel"), List("inbound"), Each("client"),
                            Wipe("inbound"), Wipe("right")>>
      [] kind = "tunnel" -> <<Refuse("forward"), Wipe("permit")>>
      [] kind = "limit" -> <<Refuse("permit")>>
      [] kind = "user" -> <<List("forward"), Each("forward"), Wipe("client"),
                            Wipe("permit"), Wipe("right")>>
      [] kind = "permit" -> <<List("forward"), Each("forward")>>
      [] kind = "inbound" -> <<Wipe("client")>>
      [] OTHER -> <<>>

\* The children of x: rows that name it; of a permit, the forwards of its user
\* and tunnel.
Children(k, x, names) ==
    {y \in Kindred(k) : There(y) /\ IF KindOf[x] = "permit" THEN record[y].names \subseteq names
                                    ELSE x \in record[y].names}

\* Whoever is writing a row meanwhile has met the deletion.
BeginDelete(q, x) ==
    /\ erasing[q] = Idle
    /\ There(x)
    /\ erasing' = [erasing EXCEPT ![q] = [at |-> "delete", of |-> x, names |-> record[x].names,
                                         plan |-> Plan(KindOf[x]), left |-> {}]]
    /\ writing' = [r \in Writers |->
                     IF Busy(writing[r]) /\ x \in Above(writing[r].of)
                     THEN [writing[r] EXCEPT !.met = @ \cup {x}] ELSE writing[r]]
    /\ UNCHANGED <<record, met>>

Planned(q, do) ==
    /\ erasing[q] # Idle /\ erasing[q].plan # <<>> /\ Head(erasing[q].plan).do = do
    /\ UNCHANGED writing
Below(q) == Children(Head(erasing[q].plan).kind, erasing[q].of, erasing[q].names)
Proceed(q, left) == erasing' = [erasing EXCEPT ![q].plan = Tail(@), ![q].left = left]

CountChildren(q) ==
    /\ Planned(q, "refuse")
    /\ IF Below(q) = {} THEN Proceed(q, {}) ELSE erasing' = [erasing EXCEPT ![q] = Idle]
    /\ UNCHANGED <<record, met>>
ListChildren(q) ==
    /\ Planned(q, "list")
    /\ Proceed(q, Below(q))
    /\ UNCHANGED <<record, met>>
\* A listed forward is deleted by its id; of a listed inbound, the clients.
EachChild(q) ==
    LET kind == Head(erasing[q].plan).kind IN
    /\ Planned(q, "each")
    /\ \/ \E y \in erasing[q].left :
            /\ EraseRows(IF kind = KindOf[y] THEN {y} ELSE Children(kind, y, {}))
            /\ erasing' = [erasing EXCEPT ![q].left = @ \ {y}]
       \/ erasing[q].left = {} /\ Proceed(q, {}) /\ UNCHANGED <<record, met>>
WipeChildren(q) ==
    /\ Planned(q, "wipe")
    /\ EraseRows(Below(q)) /\ Proceed(q, {})
DeleteRow(q) ==
    /\ erasing[q] # Idle /\ erasing[q].plan = <<>>
    /\ EraseRows({erasing[q].of})
    /\ erasing' = [erasing EXCEPT ![q] = Idle]
    /\ UNCHANGED writing

RecordsNext ==
    \/ \E q \in Writers :
         \/ \E x \in Records : \E s \in Shapes[x] : BeginInsert(q, x, s) \/ BeginChange(q, x, s)
         \/ InsertRow(q) \/ SettleForward(q) \/ ChangeRow(q) \/ Refused(q)
    \/ \E q \in Erasers :
         \/ \E x \in Records : BeginDelete(q, x)
         \/ CountChildren(q) \/ ListChildren(q) \/ EachChild(q) \/ WipeChildren(q) \/ DeleteRow(q)

RecordsSpec == RecordsInit /\ [][RecordsNext]_recordVars
-----------------------------------------------------------------------------
Writings == [at : {"insert", "settle", "change"}, of : Records, names : SUBSET Records,
          met : SUBSET Records]
Rows == {Unborn, Gone} \cup [is : {"there"}, names : SUBSET Records]
Erasures == [at : {"delete"}, of : Records, names : SUBSET Records,
             plan : Seq([do : {"refuse", "list", "each", "wipe"}, kind : Kinds]),
             left : SUBSET Records]

RecordsTypeOK ==
    /\ record \in [Records -> Rows]
    /\ met \in [Records -> SUBSET Records]
    /\ writing \in [Writers -> Writings \cup {Idle}]
    /\ erasing \in [Erasers -> Erasures \cup {Idle}]

LeftAlone(x, y) == KindOf[x] = "limit" /\ KindOf[y] = "tunnel"

\* A row names a deleted one only if the writing of the row overlapped that
\* deletion, or the one of a node, which takes inbounds along, or if the deletion was
\* over when the row came to name it, which only an unchecked name can: the counts
\* and cascades of the Delete* functions of the panel cover every kind of child (but
\* a tunnel's speed limits).
OrphansComeLate ==
    \A x \in Records : There(x) => \A y \in record[x].names :
        record[y] = Gone /\ ~LeftAlone(x, y) => ({y} \cup Parents(y)) \cap met[x] # {}

\* A forward of an ordinary user without a permit for its tunnel (its services
\* carry the permit's id in their name) was written while that was taken away.
ForwardsArePermitted ==
    \A f \in Kindred("forward") :
        There(f) /\ Permitting(record[f].names) = {} =>
            \E p \in met[f] : \/ KindOf[p] = "permit"
                              \/ p \in record[f].names
=============================================================================
