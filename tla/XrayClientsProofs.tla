-------------------------- MODULE XrayClientsProofs -------------------------
(***************************************************************************)
(* Theorems about XrayClients, for any clients, inbounds, requests and     *)
(* limits.  While no call has failed and nothing but uploads has met       *)
(* (Calm), the node and the rows differ only in what one request has       *)
(* changed on one side so far (InStep).  A reconciliation beside which     *)
(* nothing else ran has reached a known point of its work, whatever the    *)
(* rows and the node were before (ReconcileGoesOn).                        *)
(***************************************************************************)
EXTENDS XrayClients, TLAPS

\* The steps that have a client, one of a list, an inbound, or a row as it was read.
OfClient == {"insert", "add", "unadd", "change", "touch", "remove", "reread", "readd", "restore", "again",
             "hotRemove", "erase", "zero", "enable"} \cup UploadSteps
OfListed == {"drop", "expel", "banned"}
OfInbound == {"open", "revert", "closing", "off", "close", "purge", "removed",
              "moveOut", "moveIn", "moveBack", "moved"}
OfOld == {"change", "touch", "remove", "reread", "readd", "restore", "zero"}
WellFormed(w) ==
    /\ w.at \in OfClient => w.c \in XClients /\ w.i = Of[w.c]
    /\ w.at \in OfListed => w.d \in XClients
    /\ w.at \in OfInbound => w.i \in XInbounds
    /\ w.at \in OfOld => w.old \in ClientRows
WorksAreFormed == \A r \in XRequests : request[r] # NoWork => WellFormed(request[r])

\* Two requests at once are remembered, and by each of them.
OnlyUploads ==
    ~overlapped => \A q, r \in XRequests :
        (q # r /\ request[q] # NoWork /\ request[r] # NoWork) => request[q].at \in UploadSteps
AloneUnlessDisturbed ==
    \A r \in XRequests : (request[r] # NoWork /\ r \notin disturbed) => Others(r) = {}

\* The node serves what the rows say.
SameInbound(i) ==
    /\ served[i].there => inbound[i] = "on"
    /\ inbound[i] = "on" => served[i].there \/ Foreign(i)
On(c) == client[c].there /\ client[c].enable
Unserved(c) == served[Of[c]].there => c \notin served[Of[c]].clients
SameClient(c) ==
    served[Of[c]].there => (c \in served[Of[c]].clients <=> On(c))

\* Where a request has changed one side and not yet the other.
Moving(w, i) == w.at \in {"open", "off", "purge", "removed", "moveIn"} /\ w.i = i
Touching(w, c) ==
    \/ w.at \in {"add", "remove", "reread", "readd", "again", "erase", "last"} /\ w.c = c
    \/ w.at \in {"drop", "banned"} /\ w.d = c

\* What a request goes by is still true.
Fits(w) ==
    /\ w.at \notin {"revert", "moveBack"}
    /\ w.at = "insert" => ~client[w.c].there
    /\ w.at \in {"add", "readd", "again"} =>
         Unserved(w.c) /\ (served[w.i].there => On(w.c))
    /\ w.at \in {"unadd", "restore", "off", "purge", "removed", "moveIn"} => ~served[w.i].there
    /\ w.at \in {"change", "touch", "zero"} => client[w.c] = w.old
    /\ w.at \in {"change", "touch"} => w.status = inbound[w.i]
    /\ w.at \in {"remove", "reread", "enable"} => client[w.c].there
    /\ w.at \in {"reread", "erase"} => Unserved(w.c)
    /\ w.at = "enable" => ~client[w.c].enable
    /\ w.at = "last" => ~On(w.c)
    /\ w.at = "drop" => ~On(w.d)
    /\ w.at = "banned" => Unserved(w.d)
    /\ w.at \in {"open", "moveIn"} => inbound[w.i] = "on" /\ w.todo = Enabled(w.i)
    /\ w.at \in {"moveOut", "moved"} => w.status = inbound[w.i]
    /\ w.at \in {"stop", "apply"} => \A i \in XInbounds : inbound[i] # "on"
    /\ w.at = "apply" => w.tags = {}
    /\ w.at \in {"first", "push"} => \A i \in w.tags : inbound[i] = "on" /\ OfIn(i, w.todo) = Enabled(i)
    /\ w.at = "query" => \A i \in w.tags : TagId[i] # NoId
    /\ w.at = "clean" => \A i \in w.tags : inbound[i] = "on" => Foreign(i)

Calm == ~failed /\ ~overlapped
Sane ==
    /\ online
    /\ \A i \in XInbounds : inbound[i] # "error"
    /\ \A i \in XInbounds : served[i].there => up /\ \A c \in served[i].clients : Of[c] = i
InStep ==
    Calm => /\ Sane
            /\ \A r \in XRequests : request[r] # NoWork => Fits(request[r])
            /\ \A i \in XInbounds : (\A r \in XRequests : ~Moving(request[r], i)) => SameInbound(i)
            /\ \A c \in XClients : (\A r \in XRequests : ~Touching(request[r], c)) => SameClient(c)

\* What a reconciliation has done so far, if no call has failed.
Wanted(i) == inbound[i] \in {"on", "error"}
NoErrors == \A i \in XInbounds : inbound[i] # "error" /\ (inbound[i] = "on" => Serves(i))
Reconciled(w) ==
    /\ w.at = "first" => \A i \in XInbounds : Wanted(i) => i \in w.tags
    /\ w.at = "push" => \A i \in XInbounds : Wanted(i) => i \in w.tags \/ Serves(i)
    /\ w.at = "apply" => \A i \in XInbounds : Wanted(i) => i \in w.tags
    /\ w.at = "recover" => \A i \in XInbounds : Wanted(i) => Serves(i)
    /\ w.at \in {"tags", "query"} => NoErrors
    /\ w.at = "query" => /\ \A i \in w.tags : TagId[i] # NoId
                         /\ \A i \in XInbounds : served[i].there /\ TagId[i] # NoId => i \in w.tags
    /\ w.at = "clean" => /\ \A i \in w.tags : ~Spared(i)
                         /\ \A i \in XInbounds : /\ inbound[i] # "error"
                                                 /\ inbound[i] = "on" /\ Spared(i) => Serves(i)
                                                 /\ Serves(i) => i \in w.tags \/ Spared(i)
ReconcileGoesOn ==
    \A r \in XRequests :
        (request[r] # NoWork /\ r \notin disturbed /\ ~request[r].want) => Reconciled(request[r])

ClientsIInv ==
    /\ ClientsTypeOK
    /\ WorksAreFormed
    /\ OnlyUploads
    /\ AloneUnlessDisturbed
    /\ InStep
    /\ ReconcileGoesOn
-----------------------------------------------------------------------------
(* Requests.                                                                 *)

\* The record of a request that goes on, with what its steps may change of it.
Continued(w, at, d, want, todo, tags) ==
    [at |-> at, c |-> w.c, d |-> d, i |-> w.i, old |-> w.old, want |-> want,
     todo |-> todo, tags |-> tags, status |-> w.status]
Goes(r, at, d, want, todo, tags) ==
    /\ request' \in [XRequests -> Works \cup {NoWork}]
    /\ request'[r] \in Works
    /\ request'[r] = Continued(request[r], at, d, want, todo, tags)
    /\ \A q \in XRequests \ {r} : request'[q] = request[q]

LEMMA WorkFields ==
    ASSUME NEW w \in Works
    PROVE  /\ w # NoWork /\ w.at \in Steps
           /\ w.c \in XClients \cup {"nobody"} /\ w.d \in XClients \cup {"nobody"}
           /\ w.i \in XInbounds \cup {"nowhere"} /\ w.old \in ClientRows \cup {NoClient}
           /\ w.want \in BOOLEAN /\ w.todo \subseteq XClients /\ w.tags \subseteq XInbounds
           /\ w.status \in Statuses
           /\ w = Continued(w, w.at, w.d, w.want, w.todo, w.tags)
<1>1. /\ w.at \in Steps
      /\ w.c \in XClients \cup {"nobody"} /\ w.d \in XClients \cup {"nobody"}
      /\ w.i \in XInbounds \cup {"nowhere"} /\ w.old \in ClientRows \cup {NoClient}
      /\ w.want \in BOOLEAN /\ w.todo \subseteq XClients /\ w.tags \subseteq XInbounds
      /\ w.status \in Statuses
      /\ w = Continued(w, w.at, w.d, w.want, w.todo, w.tags)
  BY DEF Works, Continued
<1>2. w # NoWork
  BY <1>1 DEF NoWork, Steps, UploadSteps, ReconcileSteps
<1> QED
  BY <1>1, <1>2

LEMMA BusyWork ==
    ASSUME ClientsTypeOK, NEW r \in XRequests, request[r].at # "idle"
    PROVE  request[r] \in Works /\ request[r] # NoWork
BY DEF ClientsTypeOK, NoWork

LEMMA NotIdle ==
    ASSUME ClientsTypeOK, NEW r \in XRequests, request[r] # NoWork
    PROVE  request[r] \in Works /\ request[r].at # "idle" /\ request[r].at \in Steps
<1>1. request[r] \in Works
  BY DEF ClientsTypeOK
<1> QED
  BY <1>1, WorkFields DEF Steps, UploadSteps, ReconcileSteps

LEMMA ContinuedIsWork ==
    ASSUME NEW w \in Works, NEW at \in Steps, NEW d \in XClients \cup {"nobody"},
           NEW want \in BOOLEAN, NEW todo \in SUBSET XClients, NEW tags \in SUBSET XInbounds
    PROVE  Continued(w, at, d, want, todo, tags) \in Works
BY WorkFields DEF Works, Continued

LEMMA XGoesOn ==
    ASSUME ClientsTypeOK, NEW r \in XRequests, NEW v \in Works,
           request' = [request EXCEPT ![r] = v]
    PROVE  /\ request' \in [XRequests -> Works \cup {NoWork}]
           /\ request'[r] = v
           /\ \A q \in XRequests \ {r} : request'[q] = request[q]
BY DEF ClientsTypeOK

\* A change of one field of a record, and of several.
LEMMA ChangeAt ==
    ASSUME NEW w \in Works, NEW at \in Steps
    PROVE  /\ [w EXCEPT !.at = at] \in Works
           /\ [w EXCEPT !.at = at] = Continued(w, at, w.d, w.want, w.todo, w.tags)
BY DEF Works, Continued

LEMMA ChangeD ==
    ASSUME NEW w \in Works, NEW d \in XClients \cup {"nobody"}
    PROVE  /\ [w EXCEPT !.d = d] \in Works
           /\ [w EXCEPT !.d = d] = Continued(w, w.at, d, w.want, w.todo, w.tags)
BY DEF Works, Continued

LEMMA ChangeWant ==
    ASSUME NEW w \in Works, NEW want \in BOOLEAN
    PROVE  /\ [w EXCEPT !.want = want] \in Works
           /\ [w EXCEPT !.want = want] = Continued(w, w.at, w.d, want, w.todo, w.tags)
BY DEF Works, Continued

LEMMA ChangeTodo ==
    ASSUME NEW w \in Works, NEW todo \in SUBSET XClients
    PROVE  /\ [w EXCEPT !.todo = todo] \in Works
           /\ [w EXCEPT !.todo = todo] = Continued(w, w.at, w.d, w.want, todo, w.tags)
BY DEF Works, Continued

LEMMA ChangeTags ==
    ASSUME NEW w \in Works, NEW tags \in SUBSET XInbounds
    PROVE  /\ [w EXCEPT !.tags = tags] \in Works
           /\ [w EXCEPT !.tags = tags] = Continued(w, w.at, w.d, w.want, w.todo, tags)
BY DEF Works, Continued

LEMMA ContinuedFields ==
    ASSUME NEW w, NEW at, NEW d, NEW want, NEW todo, NEW tags,
           NEW k, k = Continued(w, at, d, want, todo, tags)
    PROVE  /\ k.at = at /\ k.d = d /\ k.want = want /\ k.todo = todo /\ k.tags = tags
           /\ k.c = w.c /\ k.i = w.i /\ k.old = w.old /\ k.status = w.status
BY DEF Continued

LEMMA ContinuedAgain ==
    ASSUME NEW w, NEW at, NEW d, NEW want, NEW todo, NEW tags,
           NEW k, k = Continued(w, at, d, want, todo, tags),
           NEW at2, NEW d2, NEW want2, NEW todo2, NEW tags2
    PROVE  Continued(k, at2, d2, want2, todo2, tags2) = Continued(w, at2, d2, want2, todo2, tags2)
<1>1. /\ k.c = w.c /\ k.i = w.i /\ k.old = w.old /\ k.status = w.status
  BY ContinuedFields
<1> QED
  BY <1>1 DEF Continued

LEMMA ChangeAtWant ==
    ASSUME NEW w \in Works, NEW at \in Steps, NEW want \in BOOLEAN
    PROVE  /\ [w EXCEPT !.at = at, !.want = want] \in Works
           /\ [w EXCEPT !.at = at, !.want = want] = Continued(w, at, w.d, want, w.todo, w.tags)
<1>1. PICK k : k = [w EXCEPT !.at = at]
  OBVIOUS
<1>2. k \in Works /\ k = Continued(w, at, w.d, w.want, w.todo, w.tags)
  BY <1>1, ChangeAt
<1>3. k.at = at /\ k.d = w.d /\ k.todo = w.todo /\ k.tags = w.tags
  BY <1>2, ContinuedFields
<1>4. /\ [k EXCEPT !.want = want] \in Works
      /\ [k EXCEPT !.want = want] = Continued(k, k.at, k.d, want, k.todo, k.tags)
  BY <1>2, ChangeWant
<1>5. Continued(k, at, w.d, want, w.todo, w.tags)
        = Continued(w, at, w.d, want, w.todo, w.tags)
  BY <1>2, ContinuedAgain
<1>6. [w EXCEPT !.at = at, !.want = want] = [k EXCEPT !.want = want]
  BY <1>1
<1> QED
  BY <1>3, <1>4, <1>5, <1>6

LEMMA ChangeAtTodo ==
    ASSUME NEW w \in Works, NEW at \in Steps, NEW todo \in SUBSET XClients
    PROVE  /\ [w EXCEPT !.at = at, !.todo = todo] \in Works
           /\ [w EXCEPT !.at = at, !.todo = todo] = Continued(w, at, w.d, w.want, todo, w.tags)
<1>1. PICK k : k = [w EXCEPT !.at = at]
  OBVIOUS
<1>2. k \in Works /\ k = Continued(w, at, w.d, w.want, w.todo, w.tags)
  BY <1>1, ChangeAt
<1>3. k.at = at /\ k.d = w.d /\ k.want = w.want /\ k.tags = w.tags
  BY <1>2, ContinuedFields
<1>4. /\ [k EXCEPT !.todo = todo] \in Works
      /\ [k EXCEPT !.todo = todo] = Continued(k, k.at, k.d, k.want, todo, k.tags)
  BY <1>2, ChangeTodo
<1>5. Continued(k, at, w.d, w.want, todo, w.tags)
        = Continued(w, at, w.d, w.want, todo, w.tags)
  BY <1>2, ContinuedAgain
<1>6. [w EXCEPT !.at = at, !.todo = todo] = [k EXCEPT !.todo = todo]
  BY <1>1
<1> QED
  BY <1>3, <1>4, <1>5, <1>6

LEMMA ChangeAtTags ==
    ASSUME NEW w \in Works, NEW at \in Steps, NEW tags \in SUBSET XInbounds
    PROVE  /\ [w EXCEPT !.at = at, !.tags = tags] \in Works
           /\ [w EXCEPT !.at = at, !.tags = tags] = Continued(w, at, w.d, w.want, w.todo, tags)
<1>1. PICK k : k = [w EXCEPT !.at = at]
  OBVIOUS
<1>2. k \in Works /\ k = Continued(w, at, w.d, w.want, w.todo, w.tags)
  BY <1>1, ChangeAt
<1>3. k.at = at /\ k.d = w.d /\ k.want = w.want /\ k.todo = w.todo
  BY <1>2, ContinuedFields
<1>4. /\ [k EXCEPT !.tags = tags] \in Works
      /\ [k EXCEPT !.tags = tags] = Continued(k, k.at, k.d, k.want, k.todo, tags)
  BY <1>2, ChangeTags
<1>5. Continued(k, at, w.d, w.want, w.todo, tags)
        = Continued(w, at, w.d, w.want, w.todo, tags)
  BY <1>2, ContinuedAgain
<1>6. [w EXCEPT !.at = at, !.tags = tags] = [k EXCEPT !.tags = tags]
  BY <1>1
<1> QED
  BY <1>3, <1>4, <1>5, <1>6

LEMMA ChangeAtTodoD ==
    ASSUME NEW w \in Works, NEW at \in Steps, NEW todo \in SUBSET XClients, NEW d \in XClients \cup {"nobody"}
    PROVE  /\ [w EXCEPT !.at = at, !.todo = todo, !.d = d] \in Works
           /\ [w EXCEPT !.at = at, !.todo = todo, !.d = d]
                = Continued(w, at, d, w.want, todo, w.tags)
<1>1. PICK k : k = [w EXCEPT !.at = at, !.todo = todo]
  OBVIOUS
<1>2. k \in Works /\ k = Continued(w, at, w.d, w.want, todo, w.tags)
  BY <1>1, ChangeAtTodo
<1>3. k.at = at /\ k.want = w.want /\ k.todo = todo /\ k.tags = w.tags
  BY <1>2, ContinuedFields
<1>4. /\ [k EXCEPT !.d = d] \in Works
      /\ [k EXCEPT !.d = d] = Continued(k, k.at, d, k.want, k.todo, k.tags)
  BY <1>2, ChangeD
<1>5. Continued(k, at, d, w.want, todo, w.tags)
        = Continued(w, at, d, w.want, todo, w.tags)
  BY <1>2, ContinuedAgain
<1>6. [w EXCEPT !.at = at, !.todo = todo, !.d = d] = [k EXCEPT !.d = d]
  BY <1>1
<1> QED
  BY <1>3, <1>4, <1>5, <1>6

LEMMA ChangeAtTagsWant ==
    ASSUME NEW w \in Works, NEW at \in Steps, NEW tags \in SUBSET XInbounds, NEW want \in BOOLEAN
    PROVE  /\ [w EXCEPT !.at = at, !.tags = tags, !.want = want] \in Works
           /\ [w EXCEPT !.at = at, !.tags = tags, !.want = want]
                = Continued(w, at, w.d, want, w.todo, tags)
<1>1. PICK k : k = [w EXCEPT !.at = at, !.tags = tags]
  OBVIOUS
<1>2. k \in Works /\ k = Continued(w, at, w.d, w.want, w.todo, tags)
  BY <1>1, ChangeAtTags
<1>3. k.at = at /\ k.d = w.d /\ k.todo = w.todo /\ k.tags = tags
  BY <1>2, ContinuedFields
<1>4. /\ [k EXCEPT !.want = want] \in Works
      /\ [k EXCEPT !.want = want] = Continued(k, k.at, k.d, want, k.todo, k.tags)
  BY <1>2, ChangeWant
<1>5. Continued(k, at, w.d, want, w.todo, tags)
        = Continued(w, at, w.d, want, w.todo, tags)
  BY <1>2, ContinuedAgain
<1>6. [w EXCEPT !.at = at, !.tags = tags, !.want = want] = [k EXCEPT !.want = want]
  BY <1>1
<1> QED
  BY <1>3, <1>4, <1>5, <1>6

LEMMA ThenGoes ==
    ASSUME ClientsTypeOK, NEW r \in XRequests, request[r].at # "idle",
           NEW at \in Steps, Then(r, at)
    PROVE  Goes(r, at, request[r].d, request[r].want, request[r].todo, request[r].tags)
<1> DEFINE w == request[r]
           v == Continued(w, at, w.d, w.want, w.todo, w.tags)
<1>1. w \in Works
  BY BusyWork
<1>2. v \in Works
  BY <1>1, WorkFields, ContinuedIsWork
<1>3. [w EXCEPT !.at = at] = v
  BY <1>1, ChangeAt
<1>4. request' = [request EXCEPT ![r] = v]
  BY <1>3 DEF Then, ClientsTypeOK
<1> QED
  BY <1>2, <1>4, XGoesOn DEF Goes

LEMMA WantGoes ==
    ASSUME ClientsTypeOK, NEW r \in XRequests, request[r].at # "idle",
           NEW at \in Steps, NEW want \in BOOLEAN,
           request' = [request EXCEPT ![r].at = at, ![r].want = want]
    PROVE  Goes(r, at, request[r].d, want, request[r].todo, request[r].tags)
<1>1. PICK w \in Works : w = request[r]
  BY BusyWork
<1>2. PICK v : v = [w EXCEPT !.at = at, !.want = want]
  OBVIOUS
<1>3. v \in Works /\ v = Continued(w, at, w.d, want, w.todo, w.tags)
  BY <1>1, <1>2, ChangeAtWant
<1>4. request' = [request EXCEPT ![r] = v]
  BY <1>1, <1>2 DEF ClientsTypeOK
<1> QED
  BY <1>1, <1>3, <1>4, XGoesOn DEF Goes

LEMMA TodoGoes ==
    ASSUME ClientsTypeOK, NEW r \in XRequests, request[r].at # "idle",
           NEW at \in Steps, NEW todo \in SUBSET XClients,
           request' = [request EXCEPT ![r].at = at, ![r].todo = todo]
    PROVE  Goes(r, at, request[r].d, request[r].want, todo, request[r].tags)
<1>1. PICK w \in Works : w = request[r]
  BY BusyWork
<1>2. PICK v : v = [w EXCEPT !.at = at, !.todo = todo]
  OBVIOUS
<1>3. v \in Works /\ v = Continued(w, at, w.d, w.want, todo, w.tags)
  BY <1>1, <1>2, ChangeAtTodo
<1>4. request' = [request EXCEPT ![r] = v]
  BY <1>1, <1>2 DEF ClientsTypeOK
<1> QED
  BY <1>1, <1>3, <1>4, XGoesOn DEF Goes

LEMMA TagsGoes ==
    ASSUME ClientsTypeOK, NEW r \in XRequests, request[r].at # "idle",
           NEW at \in Steps, NEW tags \in SUBSET XInbounds,
           request' = [request EXCEPT ![r].at = at, ![r].tags = tags]
    PROVE  Goes(r, at, request[r].d, request[r].want, request[r].todo, tags)
<1>1. PICK w \in Works : w = request[r]
  BY BusyWork
<1>2. PICK v : v = [w EXCEPT !.at = at, !.tags = tags]
  OBVIOUS
<1>3. v \in Works /\ v = Continued(w, at, w.d, w.want, w.todo, tags)
  <2>1. /\ [w EXCEPT !.at = at, !.tags = tags] \in Works
        /\ [w EXCEPT !.at = at, !.tags = tags]
             = Continued(w, at, w.d, w.want, w.todo, tags)
    BY ChangeAtTags
  <2> QED
    BY <1>2, <2>1
<1>4. request' = [request EXCEPT ![r] = v]
  BY <1>1, <1>2 DEF ClientsTypeOK
<1> QED
  BY <1>1, <1>3, <1>4, XGoesOn DEF Goes

LEMMA TriedGoes ==
    ASSUME ClientsTypeOK, NEW r \in XRequests, request[r].at # "idle",
           NEW at \in Steps, NEW tags \in SUBSET XInbounds, NEW want \in BOOLEAN,
           request' = [request EXCEPT ![r].at = at, ![r].tags = tags, ![r].want = want]
    PROVE  Goes(r, at, request[r].d, want, request[r].todo, tags)
<1>1. PICK w \in Works : w = request[r]
  BY BusyWork
<1>2. PICK v : v = [w EXCEPT !.at = at, !.tags = tags, !.want = want]
  OBVIOUS
<1>3. v \in Works /\ v = Continued(w, at, w.d, want, w.todo, tags)
  <2>1. \A t \in SUBSET XInbounds, x \in BOOLEAN :
          /\ [w EXCEPT !.at = at, !.tags = t, !.want = x] \in Works
          /\ [w EXCEPT !.at = at, !.tags = t, !.want = x] = Continued(w, at, w.d, x, w.todo, t)
    BY ChangeAtTagsWant
  <2> QED
    BY <1>2, <2>1
<1>4. request' = [request EXCEPT ![r] = v]
  BY <1>1, <1>2 DEF ClientsTypeOK
<1> QED
  BY <1>1, <1>3, <1>4, XGoesOn DEF Goes

\* The next client of a list.
LEMMA NextGoes ==
    ASSUME ClientsTypeOK, NEW r \in XRequests, request[r].at # "idle",
           NEW at \in Steps, NEW d \in XClients,
           request' = [request EXCEPT ![r].at = at, ![r].todo = @ \ {d}, ![r].d = d]
    PROVE  Goes(r, at, d, request[r].want, request[r].todo \ {d}, request[r].tags)
<1>1. PICK w \in Works : w = request[r]
  BY BusyWork
<1>2. PICK v : v = [w EXCEPT !.at = at, !.todo = w.todo \ {d}, !.d = d]
  OBVIOUS
<1>3. v \in Works /\ v = Continued(w, at, d, w.want, w.todo \ {d}, w.tags)
  <2>0. w.todo \ {d} \in SUBSET XClients /\ d \in XClients \cup {"nobody"}
    BY WorkFields
  <2>1. /\ [w EXCEPT !.at = at, !.todo = w.todo \ {d}, !.d = d] \in Works
        /\ [w EXCEPT !.at = at, !.todo = w.todo \ {d}, !.d = d]
             = Continued(w, at, d, w.want, w.todo \ {d}, w.tags)
    BY <2>0, ChangeAtTodoD
  <2> QED
    BY <1>2, <2>1
<1>4. request' = [request EXCEPT ![r] = v]
  BY <1>1, <1>2 DEF ClientsTypeOK
<1> QED
  BY <1>1, <1>3, <1>4, XGoesOn DEF Goes

LEMMA EndsGoes ==
    ASSUME ClientsTypeOK, NEW r \in XRequests, Ends(r)
    PROVE  /\ request' \in [XRequests -> Works \cup {NoWork}]
           /\ request'[r] = NoWork
           /\ \A q \in XRequests \ {r} : request'[q] = request[q]
BY DEF ClientsTypeOK, Ends

\* What has to be known of the place a request goes to.
Allowed(w, at, d) ==
    /\ at \in OfClient => w.at \in OfClient
    /\ at \in OfListed => d \in XClients
    /\ at \in OfInbound => w.at \in OfInbound
    /\ at \in OfOld => w.at \in OfOld
    /\ w.at \in UploadSteps => at \in UploadSteps

XMoves(r) ==
    /\ request' \in [XRequests -> Works \cup {NoWork}]
    /\ \A q \in XRequests \ {r} : request'[q] = request[q]
    /\ request'[r] # NoWork => WellFormed(request'[r])
    /\ (request'[r] # NoWork /\ request[r].at \in UploadSteps) => request'[r].at \in UploadSteps
    /\ UNCHANGED <<overlapped, disturbed>>

XShaped == WorksAreFormed /\ OnlyUploads /\ AloneUnlessDisturbed

LEMMA GoesMoves ==
    ASSUME ClientsTypeOK, WorksAreFormed, NEW r \in XRequests, request[r].at # "idle",
           NEW at, NEW d, NEW want, NEW todo, NEW tags,
           Goes(r, at, d, want, todo, tags), Allowed(request[r], at, d),
           UNCHANGED <<overlapped, disturbed>>
    PROVE  XMoves(r)
<1>1. WellFormed(request[r])
  BY BusyWork DEF WorksAreFormed
<1>2. PICK w : w = request[r]
  OBVIOUS
<1>3. PICK v : v = request'[r]
  OBVIOUS
<1>4. v = Continued(w, at, d, want, todo, tags)
  BY <1>2, <1>3 DEF Goes
<1>5. /\ v.at = at /\ v.d = d /\ v.c = w.c /\ v.i = w.i /\ v.old = w.old
  BY <1>4, ContinuedFields
<1>6. WellFormed(v)
  BY <1>1, <1>2, <1>5 DEF WellFormed, Allowed
<1> QED
  BY <1>2, <1>3, <1>5, <1>6 DEF XMoves, Goes, Allowed

LEMMA EndsMoves ==
    ASSUME ClientsTypeOK, NEW r \in XRequests, Ends(r),
           UNCHANGED <<overlapped, disturbed>>
    PROVE  XMoves(r) /\ request'[r] = NoWork
BY EndsGoes DEF XMoves

LEMMA MovesKeepShape ==
    ASSUME ClientsTypeOK, XShaped, NEW r \in XRequests, request[r].at # "idle", XMoves(r)
    PROVE  XShaped'
<1>1. request[r] # NoWork
  BY BusyWork
<1>2. WorksAreFormed'
  BY DEF XShaped, WorksAreFormed, XMoves
<1>3. OnlyUploads'
  <2> SUFFICES ASSUME ~overlapped, NEW q \in XRequests, NEW s \in XRequests, q # s,
                      request'[q] # NoWork, request'[s] # NoWork
               PROVE  request'[q].at \in UploadSteps
    BY DEF OnlyUploads, XMoves
  <2>1. request[q] # NoWork /\ request[s] # NoWork
    BY <1>1 DEF XMoves
  <2>2. request[q].at \in UploadSteps
    BY <2>1 DEF XShaped, OnlyUploads
  <2> QED
    BY <2>2 DEF XMoves
<1>4. AloneUnlessDisturbed'
  <2> SUFFICES ASSUME NEW q \in XRequests, request'[q] # NoWork, q \notin disturbed,
                      NEW s \in XRequests \ {q}
               PROVE  request'[s] = NoWork
    BY DEF AloneUnlessDisturbed, Others, XMoves
  <2>1. request[q] # NoWork
    BY <1>1 DEF XMoves
  <2>2. \A p \in XRequests \ {q} : request[p] = NoWork
    BY <2>1 DEF XShaped, AloneUnlessDisturbed, Others
  <2>3. r = q
    BY <1>1, <2>2
  <2> QED
    BY <2>2, <2>3 DEF XMoves
<1> QED
  BY <1>2, <1>3, <1>4 DEF XShaped

\* A request that begins.
LEMMA StartsIs ==
    ASSUME ClientsTypeOK, NEW r \in XRequests, NEW work \in Works, Starts(r, work)
    PROVE  /\ request[r] = NoWork
           /\ request' \in [XRequests -> Works \cup {NoWork}]
           /\ request'[r] = work /\ work # NoWork
           /\ \A q \in XRequests \ {r} : request'[q] = request[q]
           /\ overlapped' \in BOOLEAN /\ disturbed' \subseteq XRequests
           /\ overlapped => overlapped'
<1>1. /\ request[r] = NoWork
      /\ request' = [request EXCEPT ![r] = work]
      /\ overlapped' = (overlapped \/ \E q \in Others(r) :
                                        ~({work.at, request[q].at} \subseteq UploadSteps))
      /\ disturbed' = IF Others(r) = {} THEN disturbed \ {r} ELSE disturbed \cup {r} \cup Others(r)
  BY DEF Starts
<1>2. Others(r) \subseteq XRequests
  BY DEF Others
<1>3. disturbed \subseteq XRequests /\ overlapped \in BOOLEAN
  BY DEF ClientsTypeOK
<1>4. overlapped' \in BOOLEAN
  BY <1>1
<1> QED
  BY <1>1, <1>2, <1>3, <1>4, XGoesOn, WorkFields

LEMMA StartsKeepShape ==
    ASSUME ClientsTypeOK, XShaped, NEW r \in XRequests, NEW work \in Works, WellFormed(work),
           Starts(r, work)
    PROVE  XShaped'
<1>1. /\ request[r] = NoWork /\ request'[r] = work
      /\ \A q \in XRequests \ {r} : request'[q] = request[q]
  BY StartsIs
<1>2. WorksAreFormed'
  BY <1>1 DEF XShaped, WorksAreFormed
<1>3. OnlyUploads'
  <2> SUFFICES ASSUME ~overlapped', NEW q \in XRequests, NEW s \in XRequests, q # s,
                      request'[q] # NoWork, request'[s] # NoWork
               PROVE  request'[q].at \in UploadSteps
    BY DEF OnlyUploads
  <2>1. ~overlapped /\ \A p \in Others(r) : {work.at, request[p].at} \subseteq UploadSteps
    BY DEF Starts
  <2>2. CASE q = r
    <3>1. s \in Others(r)
      BY <1>1, <2>2 DEF Others
    <3> QED
      BY <1>1, <2>1, <2>2, <3>1
  <2>3. CASE q # r
    <3>1. q \in Others(r)
      BY <1>1, <2>3 DEF Others
    <3> QED
      BY <1>1, <2>1, <2>3, <3>1
  <2> QED
    BY <2>2, <2>3
<1>4. AloneUnlessDisturbed'
  <2> SUFFICES ASSUME NEW q \in XRequests, request'[q] # NoWork, q \notin disturbed',
                      NEW s \in XRequests \ {q}
               PROVE  request'[s] = NoWork
    BY DEF AloneUnlessDisturbed, Others
  <2>1. disturbed' = IF Others(r) = {} THEN disturbed \ {r} ELSE disturbed \cup {r} \cup Others(r)
    BY DEF Starts
  <2>2. CASE Others(r) = {}
    <3>1. \A p \in XRequests \ {r} : request[p] = NoWork
      BY <2>2 DEF Others
    <3>2. q = r
      BY <1>1, <3>1
    <3> QED
      BY <1>1, <3>1, <3>2
  <2>3. CASE Others(r) # {}
    <3>1. q \notin Others(r) /\ q # r
      BY <2>1, <2>3
    <3>2. q \in Others(r)
      BY <1>1, <3>1 DEF Others
    <3> QED
      BY <3>1, <3>2
  <2> QED
    BY <2>2, <2>3
<1> QED
  BY <1>2, <1>3, <1>4 DEF XShaped
-----------------------------------------------------------------------------
(* A reconciliation that is alone is not touched by the others.              *)

LEMMA MovesKeepReconcile ==
    ASSUME ClientsTypeOK, XShaped, ReconcileGoesOn, NEW r \in XRequests, request[r].at # "idle",
           XMoves(r),
           (request'[r] # NoWork /\ r \notin disturbed /\ ~request'[r].want)
               => Reconciled(request[r])'
    PROVE  ReconcileGoesOn'
<1> SUFFICES ASSUME NEW q \in XRequests, request'[q] # NoWork, q \notin disturbed', ~request'[q].want
             PROVE  Reconciled(request[q])'
  BY DEF ReconcileGoesOn
<1>1. XShaped'
  BY MovesKeepShape
<1>2. disturbed' = disturbed
  BY DEF XMoves
<1>3. request[r] # NoWork
  BY BusyWork
<1>4. q = r
  <2> SUFFICES ASSUME q # r
               PROVE  FALSE
    OBVIOUS
  <2>1. request[q] # NoWork
    BY DEF XMoves
  <2>2. Others(q) = {}
    BY <1>2, <2>1 DEF XShaped, AloneUnlessDisturbed
  <2> QED
    BY <1>3, <2>2 DEF Others
<1> QED
  BY <1>2, <1>4

LEMMA StartsKeepReconcile ==
    ASSUME ClientsTypeOK, XShaped, NEW r \in XRequests, NEW work \in Works, WellFormed(work),
           Starts(r, work), ReconcileGoesOn, Reconciled(work)'
    PROVE  ReconcileGoesOn'
<1> SUFFICES ASSUME NEW q \in XRequests, request'[q] # NoWork, q \notin disturbed', ~request'[q].want
             PROVE  Reconciled(request[q])'
  BY DEF ReconcileGoesOn
<1>1. XShaped'
  BY StartsKeepShape
<1>2. Others(q)' = {}
  BY <1>1 DEF XShaped, AloneUnlessDisturbed
<1>3. request'[r] = work /\ work # NoWork
  BY StartsIs
<1>4. q = r
  BY <1>2, <1>3 DEF Others
<1> QED
  BY <1>3, <1>4

\* Steps that belong to no reconciliation have nothing to say here.
LEMMA NotReconciling ==
    ASSUME NEW w, w.at \notin ReconcileSteps
    PROVE  Reconciled(w) /\ Reconciled(w)'
BY DEF Reconciled, ReconcileSteps, Steps
-----------------------------------------------------------------------------
(* The commands.                                                             *)

ServedRows == {Unlisted} \cup {Serving(s) : s \in SUBSET XClients}
NodeTyped ==
    /\ up \in BOOLEAN /\ failed \in BOOLEAN
    /\ served \in [XInbounds -> ServedRows]

LEMMA ServedIs ==
    ASSUME NodeTyped, NEW i \in XInbounds
    PROVE  /\ served[i].there \in BOOLEAN
           /\ ~served[i].there => served[i] = Unlisted
           /\ served[i].there => /\ served[i].clients \subseteq XClients
                                 /\ served[i] = Serving(served[i].clients)
<1>1. PICK x \in ServedRows : x = served[i]
  BY DEF NodeTyped
<1>2. CASE x = Unlisted
  BY <1>1, <1>2 DEF Unlisted
<1>3. CASE x # Unlisted
  <2>1. PICK s \in SUBSET XClients : x = Serving(s)
    BY <1>3 DEF ServedRows
  <2>2. x.there = TRUE /\ x.clients = s
    BY <2>1 DEF Serving
  <2> QED
    BY <1>1, <2>1, <2>2
<1> QED
  BY <1>2, <1>3

LEMMA ServingIs ==
    ASSUME NEW s \in SUBSET XClients
    PROVE  /\ Serving(s) \in ServedRows /\ Serving(s).there /\ Serving(s).clients = s
           /\ Unlisted \in ServedRows /\ ~Unlisted.there
<1>1. Serving(s) \in ServedRows /\ Unlisted \in ServedRows
  BY DEF ServedRows
<1>2. Serving(s).there /\ Serving(s).clients = s /\ ~Unlisted.there
  BY DEF Serving, Unlisted
<1> QED
  BY <1>1, <1>2

\* The clients of one inbound are changed.
ServesNow(i, s) ==
    /\ served' \in [XInbounds -> ServedRows]
    /\ served'[i].there /\ served'[i].clients = s
    /\ \A j \in XInbounds \ {i} : served'[j] = served[j]

LEMMA ChangedClients ==
    ASSUME NodeTyped, NEW i \in XInbounds, served[i].there, NEW s \in SUBSET XClients,
           served' = [served EXCEPT ![i].clients = s]
    PROVE  ServesNow(i, s)
<1>1. PICK x : x = served[i]
  OBVIOUS
<1>2. x \in [there : BOOLEAN, clients : SUBSET XClients] /\ x.there = TRUE
  <2>1. PICK s0 \in SUBSET XClients : x = Serving(s0)
    BY <1>1, ServedIs
  <2> QED
    BY <2>1 DEF Serving
<1>3. [x EXCEPT !.clients = s] = Serving(s)
  <2>1. [x EXCEPT !.clients = s] = [there |-> x.there, clients |-> s]
    BY <1>2
  <2> QED
    BY <1>2, <2>1 DEF Serving
<1>4. served' = [served EXCEPT ![i] = Serving(s)]
  BY <1>1, <1>3 DEF NodeTyped
<1>5. Serving(s) \in ServedRows /\ Serving(s).there /\ Serving(s).clients = s
  BY ServingIs
<1> HIDE DEF ServedRows
<1> QED
  BY <1>4, <1>5 DEF NodeTyped, ServesNow

LEMMA AddsClientIs ==
    ASSUME NodeTyped, NEW i \in XInbounds, NEW c \in XClients, AddsClient(i, c)
    PROVE  /\ up /\ served[i].there /\ c \notin served[i].clients
           /\ ServesNow(i, served[i].clients \cup {c}) /\ up' = up
<1>1. served[i].there /\ served[i].clients \cup {c} \in SUBSET XClients
  BY ServedIs DEF AddsClient, Serves
<1>2. served' = [served EXCEPT ![i].clients = served[i].clients \cup {c}]
  BY DEF AddsClient, NodeTyped
<1>3. ServesNow(i, served[i].clients \cup {c})
  BY <1>1, <1>2, ChangedClients
<1> QED
  BY <1>1, <1>3 DEF AddsClient, Serves

LEMMA RemovesClientIs ==
    ASSUME NodeTyped, NEW i \in XInbounds, NEW c \in XClients,
           RemovesClient(i, c) \/ LosesClient(i, c)
    PROVE  /\ up /\ served[i].there
           /\ ServesNow(i, served[i].clients \ {c}) /\ up' = up
<1>1. served[i].there /\ served[i].clients \ {c} \in SUBSET XClients
  BY ServedIs DEF RemovesClient, LosesClient, Serves
<1>2. served' = [served EXCEPT ![i].clients = served[i].clients \ {c}]
  BY DEF RemovesClient, LosesClient, NodeTyped
<1>3. ServesNow(i, served[i].clients \ {c})
  BY <1>1, <1>2, ChangedClients
<1> QED
  BY <1>1, <1>3 DEF RemovesClient, LosesClient, Serves

\* A call of a command that may fail, while it has to be told.
LEMMA CallsKeepTypes ==
    ASSUME ClientsTypeOK, NEW i \in XInbounds, NEW c \in XClients,
           \/ AddClientOk(i, c) \/ AddClientFails(i, c)
           \/ RemoveClientOk(i, c) \/ RemoveClientFails(i, c)
    PROVE  NodeTyped' /\ (failed => failed')
<1>1. NodeTyped
  BY DEF NodeTyped, ClientsTypeOK, ServedRows
<1>2. CASE UNCHANGED xnode
  <2>1. failed' \in BOOLEAN /\ (failed => failed')
    BY DEF AddClientOk, AddClientFails, RemoveClientOk, RemoveClientFails, Succeeds, Fails, ClientsTypeOK
  <2> QED
    BY <1>1, <1>2, <2>1 DEF NodeTyped, xnode
<1>3. CASE AddsClient(i, c) \/ RemovesClient(i, c) \/ LosesClient(i, c)
  <2>1. failed' \in BOOLEAN /\ (failed => failed')
    BY DEF AddClientOk, AddClientFails, RemoveClientOk, RemoveClientFails, Succeeds, Fails, ClientsTypeOK
  <2>2. served' \in [XInbounds -> ServedRows] /\ up' = up
    BY <1>1, <1>3, AddsClientIs, RemovesClientIs DEF ServesNow
  <2> QED
    BY <1>1, <2>1, <2>2 DEF NodeTyped
<1>4. UNCHANGED xnode \/ AddsClient(i, c) \/ RemovesClient(i, c) \/ LosesClient(i, c)
  BY DEF AddClientOk, AddClientFails, RemoveClientOk, RemoveClientFails, Succeeds, Fails
<1> QED
  BY <1>2, <1>3, <1>4

LEMMA InboundCallsKeepTypes ==
    ASSUME ClientsTypeOK, NEW i \in XInbounds, NEW s \in SUBSET XClients, NEW counts \in BOOLEAN,
           \/ AddInboundOk(i, s) \/ AddInboundFails(i, s, counts)
           \/ RemoveInboundOk(i) \/ RemoveInboundFails(i)
    PROVE  NodeTyped' /\ (failed => failed')
<1>1. NodeTyped
  BY DEF NodeTyped, ClientsTypeOK, ServedRows
<1>2. failed' \in BOOLEAN /\ (failed => failed')
  BY DEF AddInboundOk, AddInboundFails, RemoveInboundOk, RemoveInboundFails, Succeeds, Fails,
         ClientsTypeOK, Serves
<1>3. UNCHANGED xnode \/ AddsInbound(i, s) \/ RemovesInbound(i)
  BY DEF AddInboundOk, AddInboundFails, RemoveInboundOk, RemoveInboundFails, Succeeds, Fails
<1>4. Serving(s) \in ServedRows /\ Unlisted \in ServedRows
  BY ServingIs
<1> HIDE DEF ServedRows
<1>5. served' \in [XInbounds -> ServedRows] /\ up' \in BOOLEAN
  BY <1>1, <1>3, <1>4 DEF NodeTyped, xnode, AddsInbound, RemovesInbound
<1> QED
  BY <1>2, <1>5 DEF NodeTyped
-----------------------------------------------------------------------------
(* What a step leaves in step.  Fits speaks of one request, Settled of the   *)
(* rows and the node too, when that request is alone.                        *)

Settled(w) ==
    /\ Sane
    /\ w # NoWork => Fits(w)
    /\ \A i \in XInbounds : ~Moving(w, i) => SameInbound(i)
    /\ \A c \in XClients : ~Touching(w, c) => SameClient(c)

LEMMA IdleIsStill ==
    /\ \A i : ~Moving(NoWork, i)
    /\ \A c : ~Touching(NoWork, c)
BY DEF Moving, Touching, NoWork

LEMMA SettledBefore ==
    ASSUME InStep, Calm, NEW r \in XRequests, Others(r) = {}
    PROVE  Settled(request[r])
<1>1. \A q \in XRequests : q # r => request[q] = NoWork
  BY DEF Others
<1>2. \A q \in XRequests, i \in XInbounds : Moving(request[q], i) => q = r
  BY <1>1, IdleIsStill
<1>3. \A q \in XRequests, c \in XClients : Touching(request[q], c) => q = r
  BY <1>1, IdleIsStill
<1>4. \A i \in XInbounds : ~Moving(request[r], i) => SameInbound(i)
  BY <1>2 DEF InStep
<1>5. \A c \in XClients : ~Touching(request[r], c) => SameClient(c)
  BY <1>3 DEF InStep
<1> QED
  BY <1>4, <1>5 DEF InStep, Settled

LEMMA SettledAfter ==
    ASSUME NEW r \in XRequests, Others(r) = {},
           \A q \in XRequests \ {r} : request'[q] = request[q],
           Settled(request[r])'
    PROVE  InStep'
<1>1. \A q \in XRequests : q # r => request'[q] = NoWork
  BY DEF Others
<1>2. ASSUME NEW i \in XInbounds, \A q \in XRequests : ~Moving(request[q], i)'
      PROVE  SameInbound(i)'
  BY <1>2 DEF Settled
<1>3. ASSUME NEW c \in XClients, \A q \in XRequests : ~Touching(request[q], c)'
      PROVE  SameClient(c)'
  BY <1>3 DEF Settled
<1>4. \A q \in XRequests : request'[q] # NoWork => Fits(request[q])'
  BY <1>1 DEF Settled
<1> QED
  BY <1>2, <1>3, <1>4 DEF InStep, Settled

\* A request that is no upload is alone, as long as nothing has overlapped.
LEMMA NoUploadIsAlone ==
    ASSUME ClientsTypeOK, XShaped, ~overlapped, NEW r \in XRequests, request[r].at # "idle",
           request[r].at \notin UploadSteps
    PROVE  Others(r) = {}
<1>1. request[r] # NoWork
  BY BusyWork
<1> QED
  BY <1>1 DEF XShaped, OnlyUploads, Others

\* What is to be shown of a step of a request that is no upload ...
SoloStep(r) ==
    /\ XMoves(r)
    /\ ClientsTypeOK'
    /\ failed => failed'
    /\ Calm /\ Calm' /\ Settled(request[r]) => Settled(request[r])'
    /\ (request'[r] # NoWork /\ r \notin disturbed /\ ~request'[r].want) => Reconciled(request[r])'

LEMMA SoloStepKeeps ==
    ASSUME ClientsIInv, NEW r \in XRequests, request[r].at # "idle",
           request[r].at \notin UploadSteps, SoloStep(r)
    PROVE  ClientsIInv'
<1>1. ClientsTypeOK /\ XShaped /\ InStep /\ ReconcileGoesOn
  BY DEF ClientsIInv, XShaped
<1>2. XShaped'
  BY <1>1, MovesKeepShape DEF SoloStep
<1>3. ReconcileGoesOn'
  BY <1>1, MovesKeepReconcile DEF SoloStep
<1>4. InStep'
  <2> SUFFICES ASSUME Calm'
               PROVE  InStep'
    BY DEF InStep
  <2>1. Calm
    BY DEF SoloStep, Calm, XMoves
  <2>2. Others(r) = {}
    BY <1>1, <2>1, NoUploadIsAlone DEF Calm
  <2>3. Settled(request[r])'
    BY <1>1, <2>1, <2>2, SettledBefore DEF SoloStep
  <2> QED
    BY <2>2, <2>3, SettledAfter DEF SoloStep, XMoves
<1> QED
  BY <1>2, <1>3, <1>4 DEF SoloStep, ClientsIInv, XShaped

\* ... of one that begins a request ...
FirstStep(r, work) ==
    /\ Starts(r, work) /\ WellFormed(work)
    /\ ClientsTypeOK'
    /\ work.at \notin UploadSteps
    /\ UNCHANGED failed
    /\ Calm /\ Settled(NoWork) => Settled(work)'
    /\ Reconciled(work)'

LEMMA FirstStepKeeps ==
    ASSUME ClientsIInv, NEW r \in XRequests, NEW work \in Works, FirstStep(r, work)
    PROVE  ClientsIInv'
<1>1. ClientsTypeOK /\ XShaped /\ InStep /\ ReconcileGoesOn
  BY DEF ClientsIInv, XShaped
<1>2. XShaped'
  BY <1>1, StartsKeepShape DEF FirstStep
<1>3. ReconcileGoesOn'
  BY <1>1, StartsKeepReconcile DEF FirstStep
<1>4. /\ request[r] = NoWork /\ request'[r] = work /\ work # NoWork
      /\ \A q \in XRequests \ {r} : request'[q] = request[q]
      /\ overlapped => overlapped'
  BY <1>1, StartsIs DEF FirstStep
<1>5. InStep'
  <2> SUFFICES ASSUME Calm'
               PROVE  InStep'
    BY DEF InStep
  <2>1. Calm
    BY <1>4 DEF FirstStep, Calm
  <2>2. Others(r) = {}
    <3>1. Others(r)' = {}
      BY <1>2, <1>4 DEF XShaped, OnlyUploads, Others, Calm, FirstStep
    <3> QED
      BY <1>4, <3>1 DEF Others
  <2>3. Settled(NoWork)
    BY <1>1, <1>4, <2>1, <2>2, SettledBefore
  <2>4. Settled(request[r])'
    BY <1>4, <2>1, <2>3 DEF FirstStep
  <2> QED
    BY <1>4, <2>2, <2>4, SettledAfter
<1> QED
  BY <1>2, <1>3, <1>5 DEF FirstStep, ClientsIInv, XShaped
-----------------------------------------------------------------------------
(* What the commands and the changes of a row leave alone.                   *)

\* Whatever concerns another client than c.
ButFor(c) ==
    /\ Sane'
    /\ \A i \in XInbounds : SameInbound(i) => SameInbound(i)'
    /\ \A d \in XClients \ {c} : SameClient(d) => SameClient(d)'

LEMMA ClientCommandButFor ==
    ASSUME ClientsTypeOK, Sane, NEW c \in XClients, NEW s, served[Of[c]].there,
           ServesNow(Of[c], s), \A d \in XClients \ {c} : d \in s <=> d \in served[Of[c]].clients,
           s \subseteq XClients, up' = up, UNCHANGED <<inbound, client, online>>
    PROVE  ButFor(c)
<1>1. Of[c] \in XInbounds /\ \A d \in XClients : Of[d] \in XInbounds
  BY ClientsAssumption
<1>2. \A i \in XInbounds : served'[i].there <=> served[i].there
  BY <1>1 DEF ServesNow
<1>3. Sane'
  <2>1. ASSUME NEW i \in XInbounds, served'[i].there, NEW d \in served'[i].clients
        PROVE  Of[d] = i
    <3>1. CASE i = Of[c]
      BY <3>1, <2>1 DEF ServesNow, Sane
    <3>2. CASE i # Of[c]
      BY <3>2, <2>1 DEF ServesNow, Sane
    <3> QED
      BY <3>1, <3>2
  <2> QED
    BY <1>2, <2>1 DEF Sane
<1>4. \A i \in XInbounds : SameInbound(i) => SameInbound(i)'
  BY <1>2 DEF SameInbound
<1>5. ASSUME NEW d \in XClients \ {c}, SameClient(d)
      PROVE  SameClient(d)'
  <2>1. CASE Of[d] = Of[c]
    BY <1>1, <1>5, <2>1 DEF ServesNow, SameClient, On
  <2>2. CASE Of[d] # Of[c]
    BY <1>1, <1>5, <2>2 DEF ServesNow, SameClient, On
  <2> QED
    BY <2>1, <2>2
<1> QED
  BY <1>3, <1>4, <1>5 DEF ButFor

LEMMA TypedNode ==
    ASSUME ClientsTypeOK
    PROVE  NodeTyped /\ inbound \in [XInbounds -> Statuses]
           /\ client \in [XClients -> ClientRows \cup {NoClient, Erased}]
BY DEF ClientsTypeOK, NodeTyped, ServedRows

LEMMA AddOk ==
    ASSUME ClientsTypeOK, Sane, NEW c \in XClients, AddClientOk(Of[c], c),
           UNCHANGED <<inbound, client, online>>
    PROVE  /\ ButFor(c) /\ failed' = failed
           /\ served[Of[c]].there /\ served'[Of[c]].there /\ c \in served'[Of[c]].clients
<1>1. Of[c] \in XInbounds /\ NodeTyped
  BY ClientsAssumption, TypedNode
<1>2. AddsClient(Of[c], c) /\ failed' = failed
  BY DEF AddClientOk, Succeeds
<1>3. /\ served[Of[c]].there /\ up' = up
      /\ ServesNow(Of[c], served[Of[c]].clients \cup {c})
  BY <1>1, <1>2, AddsClientIs
<1>4. served[Of[c]].clients \cup {c} \subseteq XClients
  BY <1>1, <1>3, ServedIs
<1>5. ButFor(c)
  BY <1>3, <1>4, ClientCommandButFor
<1> QED
  BY <1>2, <1>3, <1>5 DEF ServesNow

LEMMA RemoveOk ==
    ASSUME ClientsTypeOK, Sane, NEW c \in XClients, RemoveClientOk(Of[c], c),
           UNCHANGED <<inbound, client, online>>
    PROVE  /\ ButFor(c) /\ failed' = failed
           /\ served[Of[c]].there /\ served'[Of[c]].there /\ c \notin served'[Of[c]].clients
<1>1. Of[c] \in XInbounds /\ NodeTyped
  BY ClientsAssumption, TypedNode
<1>2. RemovesClient(Of[c], c) /\ failed' = failed
  BY DEF RemoveClientOk, Succeeds
<1>3. /\ served[Of[c]].there /\ up' = up
      /\ ServesNow(Of[c], served[Of[c]].clients \ {c})
  BY <1>1, <1>2, RemovesClientIs
<1>4. served[Of[c]].clients \ {c} \subseteq XClients
  BY <1>1, <1>3, ServedIs
<1>5. ButFor(c)
  BY <1>3, <1>4, ClientCommandButFor
<1> QED
  BY <1>2, <1>3, <1>5 DEF ServesNow

\* A call that fails without a failure is one that could not succeed.
LEMMA AddFails ==
    ASSUME ClientsTypeOK, Sane, ~failed', NEW c \in XClients, Unserved(c),
           AddClientFails(Of[c], c)
    PROVE  UNCHANGED xnode /\ ~served[Of[c]].there
<1>1. Of[c] \in XInbounds
  BY ClientsAssumption
<1>2. UNCHANGED xnode /\ ~(Serves(Of[c]) /\ c \notin served[Of[c]].clients)
  BY DEF AddClientFails, Fails, Sane
<1> QED
  BY <1>1, <1>2 DEF Serves, Sane, Unserved

LEMMA RemoveFails ==
    ASSUME ClientsTypeOK, Sane, ~failed', NEW c \in XClients, RemoveClientFails(Of[c], c)
    PROVE  UNCHANGED xnode /\ ~served[Of[c]].there
<1>1. Of[c] \in XInbounds
  BY ClientsAssumption
<1>2. UNCHANGED xnode /\ ~Serves(Of[c])
  BY DEF RemoveClientFails, Fails, Sane
<1> QED
  BY <1>1, <1>2 DEF Serves, Sane

\* Only the row of c is changed.
LEMMA RowButFor ==
    ASSUME ClientsTypeOK, Sane, NEW c, UNCHANGED <<inbound, online, up, served>>,
           \A d \in XClients \ {c} : client'[d] = client[d]
    PROVE  ButFor(c)
BY DEF ButFor, Sane, SameInbound, SameClient, On

\* Nothing is changed that the node or the rows say.
LEMMA NothingButFor ==
    ASSUME Sane, UNCHANGED <<inbound, client, online, xnode>>
    PROVE  /\ Sane'
           /\ \A i \in XInbounds : SameInbound(i) => SameInbound(i)'
           /\ \A c \in XClients : /\ SameClient(c) => SameClient(c)'
                                  /\ Unserved(c) => Unserved(c)'
BY DEF Sane, SameInbound, SameClient, On, Unserved, xnode

LEMMA SetEnableIs ==
    ASSUME ClientsTypeOK, NEW c \in XClients, NEW e \in BOOLEAN, SetEnable(c, e)
    PROVE  /\ client' \in [XClients -> ClientRows \cup {NoClient, Erased}]
           /\ \A d \in XClients \ {c} : client'[d] = client[d]
           /\ client'[c].there = client[c].there
           /\ client[c].there => client'[c].enable = e
<1>1. client \in [XClients -> ClientRows \cup {NoClient, Erased}]
  BY TypedNode
<1>2. CASE ~client[c].there
  BY <1>1, <1>2 DEF SetEnable
<1>3. CASE client[c].there
  <2>1. PICK x \in ClientRows : x = client[c]
    BY <1>1, <1>3 DEF NoClient, Erased
  <2>2. PICK y : y = [x EXCEPT !.enable = e]
    OBVIOUS
  <2>3. y \in ClientRows /\ y.enable = e /\ y.there = x.there
    BY <2>2 DEF ClientRows
  <2>4. client' = [client EXCEPT ![c] = y]
    BY <1>1, <1>3, <2>1, <2>2 DEF SetEnable
  <2> HIDE DEF ClientRows
  <2> QED
    BY <1>1, <1>3, <2>1, <2>3, <2>4
<1> QED
  BY <1>2, <1>3

\* The client and the inbound of a request.
LEMMA ClientOfWork ==
    ASSUME ClientsTypeOK, WorksAreFormed, NEW r \in XRequests, request[r].at \in OfClient
    PROVE  /\ request[r].at # "idle" /\ request[r] \in Works
           /\ request[r].c \in XClients /\ request[r].i = Of[request[r].c]
           /\ request[r].i \in XInbounds
<1>1. request[r].at # "idle"
  BY DEF OfClient, UploadSteps
<1>2. request[r] \in Works /\ request[r] # NoWork
  BY <1>1, BusyWork
<1> QED
  BY <1>1, <1>2, ClientsAssumption DEF WorksAreFormed, WellFormed

LEMMA ListedOfWork ==
    ASSUME ClientsTypeOK, WorksAreFormed, NEW r \in XRequests, request[r].at \in OfListed
    PROVE  /\ request[r].at # "idle" /\ request[r] \in Works
           /\ request[r].d \in XClients /\ Of[request[r].d] \in XInbounds
<1>1. request[r].at # "idle"
  BY DEF OfListed
<1>2. request[r] \in Works /\ request[r] # NoWork
  BY <1>1, BusyWork
<1> QED
  BY <1>1, <1>2, ClientsAssumption DEF WorksAreFormed, WellFormed

LEMMA InboundOfWork ==
    ASSUME ClientsTypeOK, WorksAreFormed, NEW r \in XRequests, request[r].at \in OfInbound
    PROVE  /\ request[r].at # "idle" /\ request[r] \in Works /\ request[r].i \in XInbounds
<1>1. request[r].at # "idle"
  BY DEF OfInbound
<1>2. request[r] \in Works /\ request[r] # NoWork
  BY <1>1, BusyWork
<1> QED
  BY <1>1, <1>2 DEF WorksAreFormed, WellFormed
-----------------------------------------------------------------------------
(* The steps of a request that is no upload, one after the other.            *)

LEMMA OnRowsTyped ==
    ASSUME ClientsTypeOK, OnRows, request' \in [XRequests -> Works \cup {NoWork}],
           inbound' \in [XInbounds -> Statuses],
           client' \in [XClients -> ClientRows \cup {NoClient, Erased}],
           forbidden' \subseteq XClients
    PROVE  ClientsTypeOK' /\ UNCHANGED <<online, xnode, failed, overlapped, disturbed>>
BY DEF ClientsTypeOK, OnRows, xnode

LEMMA OnNodeTyped ==
    ASSUME ClientsTypeOK, OnNode, request' \in [XRequests -> Works \cup {NoWork}], NodeTyped'
    PROVE  ClientsTypeOK' /\ UNCHANGED <<inbound, client, online, overlapped, disturbed>>
BY DEF ClientsTypeOK, OnNode, NodeTyped, ServedRows, rows

\* A request goes on.
Proceeds(r, at, d) ==
    /\ Allowed(request[r], at, d)
    /\ UNCHANGED <<overlapped, disturbed>>
    /\ ClientsTypeOK'
    /\ failed => failed'
    /\ Calm /\ Calm' /\ Settled(request[r]) => Settled(request[r])'

LEMMA XProceed ==
    ASSUME ClientsIInv, NEW r \in XRequests, request[r].at # "idle",
           request[r].at \notin UploadSteps, NEW at \in Steps \ ReconcileSteps,
           NEW d, NEW want, NEW todo, NEW tags,
           Goes(r, at, d, want, todo, tags), Proceeds(r, at, d)
    PROVE  ClientsIInv'
<1>1. ClientsTypeOK /\ WorksAreFormed
  BY DEF ClientsIInv
<1>2. XMoves(r)
  BY <1>1, GoesMoves DEF Proceeds
<1>3. request'[r].at = at
  BY ContinuedFields DEF Goes
<1>4. Reconciled(request[r])'
  BY <1>3 DEF Reconciled, ReconcileSteps
<1>5. SoloStep(r)
  BY <1>2, <1>4 DEF SoloStep, Proceeds
<1> QED
  BY <1>5, SoloStepKeeps

\* A request is done.
InAgreement ==
    /\ Sane
    /\ \A i \in XInbounds : SameInbound(i)
    /\ \A c \in XClients : SameClient(c)
Finishes(r) ==
    /\ UNCHANGED <<overlapped, disturbed>>
    /\ ClientsTypeOK'
    /\ failed => failed'
    /\ Calm /\ Calm' /\ Settled(request[r]) => InAgreement'

LEMMA Finish ==
    ASSUME ClientsIInv, NEW r \in XRequests, request[r].at # "idle",
           request[r].at \notin UploadSteps, Ends(r), Finishes(r)
    PROVE  ClientsIInv'
<1>1. ClientsTypeOK
  BY DEF ClientsIInv
<1>2. XMoves(r) /\ request'[r] = NoWork
  BY <1>1, EndsMoves DEF Finishes
<1>3. InAgreement' => Settled(request[r])'
  BY <1>2 DEF InAgreement, Settled
<1>4. SoloStep(r)
  BY <1>2, <1>3 DEF SoloStep, Finishes
<1> QED
  BY <1>4, SoloStepKeeps

\* The record of a request that went on.
LEMMA GoesFields ==
    ASSUME NEW r \in XRequests, NEW at, NEW d, NEW want, NEW todo, NEW tags,
           Goes(r, at, d, want, todo, tags)
    PROVE  /\ request' \in [XRequests -> Works \cup {NoWork}]
           /\ request'[r].at = at /\ request'[r].d = d /\ request'[r].want = want
           /\ request'[r].todo = todo /\ request'[r].tags = tags
           /\ request'[r].c = request[r].c /\ request'[r].i = request[r].i
           /\ request'[r].old = request[r].old /\ request'[r].status = request[r].status
<1>1. PICK w : w = request[r]
  OBVIOUS
<1>2. PICK v : v = request'[r]
  OBVIOUS
<1>3. v = Continued(w, at, d, want, todo, tags)
  BY <1>1, <1>2 DEF Goes
<1> QED
  BY <1>1, <1>2, <1>3, ContinuedFields DEF Goes

LEMMA InsertStep ==
    ASSUME ClientsIInv, NEW r \in XRequests, Insert(r)
    PROVE  ClientsIInv'
<1>1. ClientsTypeOK /\ WorksAreFormed /\ At(r, "insert")
  BY DEF ClientsIInv, Insert
<1>2. PICK c \in XClients : c = request[r].c /\ request[r].i = Of[c]
  BY <1>1, ClientOfWork DEF At, OfClient
<1>3. request[r].at = "insert" /\ request[r].at # "idle" /\ request[r].at \notin UploadSteps
  BY <1>1 DEF At, UploadSteps
<1>4. "add" \in Steps \ ReconcileSteps
  BY DEF Steps, ReconcileSteps
<1>5. Goes(r, "add", request[r].d, request[r].want, request[r].todo, request[r].tags)
  BY <1>1, <1>3, <1>4, ThenGoes DEF Insert
<1>6. PICK capped \in BOOLEAN :
        client' = [client EXCEPT ![c] = [there |-> TRUE, enable |-> TRUE, used |-> 0, capped |-> capped]]
  BY <1>2 DEF Insert
<1>7. PICK x : x = [there |-> TRUE, enable |-> TRUE, used |-> 0, capped |-> capped]
  OBVIOUS
<1>8. x \in ClientRows /\ x.there /\ x.enable
  BY <1>7 DEF ClientRows
<1>9. /\ client' \in [XClients -> ClientRows \cup {NoClient, Erased}]
      /\ client'[c] = x /\ \A d \in XClients \ {c} : client'[d] = client[d]
  BY <1>1, <1>6, <1>7, <1>8, TypedNode
<1>10. ClientsTypeOK' /\ UNCHANGED <<inbound, online, xnode, failed, overlapped, disturbed>>
  BY <1>1, <1>5, <1>9, OnRowsTyped DEF Insert, Goes, ClientsTypeOK
<1>11. ASSUME Calm, Settled(request[r])
       PROVE  Settled(request[r])'
  <2>1. Sane /\ SameClient(c) /\ ~client[c].there
    BY <1>2, <1>3, <1>11, BusyWork, <1>1 DEF Settled, Fits, Touching
  <2>2. \A i \in XInbounds : SameInbound(i)
    BY <1>3, <1>11 DEF Settled, Moving
  <2>3. \A d \in XClients : SameClient(d)
    BY <1>3, <1>11 DEF Settled, Touching
  <2>4. ButFor(c)
    BY <1>1, <1>9, <1>10, <2>1, RowButFor DEF xnode
  <2>5. Unserved(c)' /\ On(c)'
    BY <1>8, <1>9, <1>10, <2>1 DEF Unserved, On, SameClient, xnode
  <2>6. request'[r].at = "add" /\ request'[r].c = c /\ request'[r].i = Of[c]
    BY <1>2, <1>5, GoesFields
  <2>7. Fits(request[r])'
    BY <2>5, <2>6 DEF Fits
  <2>8. \A d \in XClients : ~Touching(request[r], d)' => d # c
    BY <2>6 DEF Touching
  <2> QED
    BY <2>2, <2>3, <2>4, <2>7, <2>8 DEF Settled, ButFor
<1>12. Allowed(request[r], "add", request[r].d)
  BY <1>3 DEF Allowed, OfClient, OfListed, OfInbound, OfOld, UploadSteps
<1>13. Proceeds(r, "add", request[r].d)
  BY <1>10, <1>11, <1>12 DEF Proceeds
<1> QED
  BY <1>3, <1>4, <1>5, <1>13, XProceed
\* Wherever a client is added, what is left to do depends on the answer.
LEMMA AddingStep ==
    ASSUME ClientsIInv, NEW r \in XRequests, request[r].at \in {"add", "readd", "again"}, OnNode,
           \/ AddClientOk(request[r].i, request[r].c) /\ Ends(r)
           \/ /\ AddClientFails(request[r].i, request[r].c)
              /\ \/ request[r].at = "again" /\ Ends(r)
                 \/ request[r].at = "add" /\ Then(r, "unadd")
                 \/ request[r].at = "readd" /\ Then(r, "restore")
    PROVE  ClientsIInv'
<1>1. ClientsTypeOK /\ WorksAreFormed
  BY DEF ClientsIInv
<1>2. PICK c \in XClients : c = request[r].c /\ request[r].i = Of[c] /\ Of[c] \in XInbounds
  BY <1>1, ClientOfWork DEF OfClient
<1>3. /\ request[r].at # "idle" /\ request[r].at \notin UploadSteps
      /\ request[r] \in Works /\ request[r] # NoWork
  BY <1>1, BusyWork DEF UploadSteps
<1>4. ASSUME Settled(request[r])
      PROVE  /\ Sane /\ Fits(request[r])
             /\ \A j \in XInbounds : SameInbound(j)
             /\ \A d \in XClients \ {c} : SameClient(d)
  BY <1>1, <1>2, <1>3, <1>4 DEF Settled, Moving, Touching
<1>5. ASSUME AddClientOk(request[r].i, request[r].c), Ends(r)
      PROVE  ClientsIInv'
  <2>1. Ends(r)
    BY <1>5
  <2>2. request' \in [XRequests -> Works \cup {NoWork}] /\ request'[r] = NoWork
    BY <1>1, <2>1, EndsGoes
  <2>3. ClientsTypeOK' /\ (failed => failed') /\ UNCHANGED <<inbound, client, online, overlapped, disturbed>>
    BY <1>1, <1>2, <1>5, <2>2, CallsKeepTypes, OnNodeTyped
  <2>4. ASSUME Calm, Calm', Settled(request[r])
        PROVE  InAgreement'
    <3>1. Sane /\ Fits(request[r])
      BY <1>4, <2>4
    <3>2. /\ ButFor(c) /\ served[Of[c]].there /\ served'[Of[c]].there /\ c \in served'[Of[c]].clients
      BY <1>1, <1>2, <1>5, <2>3, <3>1, AddOk
    <3>3. On(c)'
      BY <1>1, <1>2, <2>3, <3>1, <3>2 DEF Fits, On
    <3>4. SameClient(c)'
      BY <3>2, <3>3 DEF SameClient
    <3> QED
      BY <1>4, <2>4, <3>2, <3>4 DEF InAgreement, ButFor
  <2> QED
    BY <1>1, <1>3, <2>1, <2>3, <2>4, Finish DEF Finishes
<1>6. ASSUME AddClientFails(request[r].i, request[r].c), Settled(request[r]), ~failed',
             UNCHANGED <<inbound, client, online>>
      PROVE  InAgreement' /\ ~served'[Of[c]].there
  <2>1. Sane /\ Fits(request[r])
    BY <1>4, <1>6
  <2>2. xnode' = xnode /\ ~served[Of[c]].there
    BY <1>1, <1>2, <1>6, <2>1, AddFails DEF Fits
  <2>3. SameClient(c)' /\ ~served'[Of[c]].there
    BY <2>2 DEF SameClient, xnode
  <2> QED
    BY <1>4, <1>6, <2>2, <2>3, NothingButFor DEF InAgreement
<1>7. ASSUME AddClientFails(request[r].i, request[r].c), Ends(r)
      PROVE  ClientsIInv'
  <2>1. Ends(r)
    BY <1>7
  <2>2. request' \in [XRequests -> Works \cup {NoWork}] /\ request'[r] = NoWork
    BY <1>1, <2>1, EndsGoes
  <2>3. ClientsTypeOK' /\ (failed => failed') /\ UNCHANGED <<inbound, client, online, overlapped, disturbed>>
    BY <1>1, <1>2, <1>7, <2>2, CallsKeepTypes, OnNodeTyped
  <2>4. ASSUME Calm, Calm', Settled(request[r])
        PROVE  InAgreement'
    BY <1>6, <1>7, <2>3, <2>4 DEF Calm
  <2> QED
    BY <1>1, <1>3, <2>1, <2>3, <2>4, Finish DEF Finishes
<1>8. ASSUME AddClientFails(request[r].i, request[r].c), Then(r, "unadd"), request[r].at = "add"
      PROVE  ClientsIInv'
  <2>1. Goes(r, "unadd", request[r].d, request[r].want, request[r].todo, request[r].tags)
    BY <1>1, <1>3, <1>8, ThenGoes DEF Steps, UploadSteps, ReconcileSteps
  <2>2. /\ request' \in [XRequests -> Works \cup {NoWork}]
        /\ request'[r].at = "unadd" /\ request'[r].c = request[r].c /\ request'[r].i = request[r].i
        /\ request'[r].d = request[r].d /\ request'[r].todo = request[r].todo /\ request'[r].tags = request[r].tags
        /\ request'[r].status = request[r].status /\ request'[r].old = request[r].old
    BY <2>1, GoesFields
  <2>3. ClientsTypeOK' /\ (failed => failed') /\ UNCHANGED <<inbound, client, online, overlapped, disturbed>>
    BY <1>1, <1>2, <1>8, <2>2, CallsKeepTypes, OnNodeTyped
  <2>4. ASSUME Calm, Calm', Settled(request[r])
        PROVE  Settled(request[r])'
    <3>1. InAgreement' /\ ~served'[Of[c]].there
      BY <1>6, <1>8, <2>3, <2>4 DEF Calm
    <3>2. Fits(request[r])'
      BY <1>2, <2>2, <3>1 DEF Fits
    <3> QED
      BY <3>1, <3>2 DEF Settled, InAgreement
  <2>5. Allowed(request[r], "unadd", request[r].d)
    BY <1>8 DEF Allowed, OfClient, OfListed, OfInbound, OfOld, UploadSteps
  <2> QED
    BY <1>1, <1>3, <2>1, <2>3, <2>4, <2>5, XProceed DEF Proceeds, Steps, ReconcileSteps
<1>9. ASSUME AddClientFails(request[r].i, request[r].c), Then(r, "restore"), request[r].at = "readd"
      PROVE  ClientsIInv'
  <2>1. Goes(r, "restore", request[r].d, request[r].want, request[r].todo, request[r].tags)
    BY <1>1, <1>3, <1>9, ThenGoes DEF Steps, UploadSteps, ReconcileSteps
  <2>2. /\ request' \in [XRequests -> Works \cup {NoWork}]
        /\ request'[r].at = "restore" /\ request'[r].c = request[r].c /\ request'[r].i = request[r].i
        /\ request'[r].d = request[r].d /\ request'[r].todo = request[r].todo /\ request'[r].tags = request[r].tags
        /\ request'[r].status = request[r].status /\ request'[r].old = request[r].old
    BY <2>1, GoesFields
  <2>3. ClientsTypeOK' /\ (failed => failed') /\ UNCHANGED <<inbound, client, online, overlapped, disturbed>>
    BY <1>1, <1>2, <1>9, <2>2, CallsKeepTypes, OnNodeTyped
  <2>4. ASSUME Calm, Calm', Settled(request[r])
        PROVE  Settled(request[r])'
    <3>1. InAgreement' /\ ~served'[Of[c]].there
      BY <1>6, <1>9, <2>3, <2>4 DEF Calm
    <3>2. Fits(request[r])'
      BY <1>2, <2>2, <3>1 DEF Fits
    <3> QED
      BY <3>1, <3>2 DEF Settled, InAgreement
  <2>5. Allowed(request[r], "restore", request[r].d)
    BY <1>9 DEF Allowed, OfClient, OfListed, OfInbound, OfOld, UploadSteps
  <2> QED
    BY <1>1, <1>3, <2>1, <2>3, <2>4, <2>5, XProceed DEF Proceeds, Steps, ReconcileSteps
<1> QED
  BY <1>5, <1>7, <1>8, <1>9

LEMMA AddNewStep ==
    ASSUME ClientsIInv, NEW r \in XRequests, AddNew(r)
    PROVE  ClientsIInv'
BY AddingStep DEF AddNew, At

LEMMA ReaddStep ==
    ASSUME ClientsIInv, NEW r \in XRequests, Readd(r)
    PROVE  ClientsIInv'
BY AddingStep DEF Readd, At

LEMMA AgainStep ==
    ASSUME ClientsIInv, NEW r \in XRequests, Again(r)
    PROVE  ClientsIInv'
BY AddingStep DEF Again, At

LEMMA UnaddStep ==
    ASSUME ClientsIInv, NEW r \in XRequests, Unadd(r)
    PROVE  ClientsIInv'
<1>1. ClientsTypeOK /\ WorksAreFormed /\ request[r].at = "unadd"
  BY DEF ClientsIInv, Unadd, At
<1>2. PICK c \in XClients : c = request[r].c /\ request[r].i = Of[c] /\ Of[c] \in XInbounds
  BY <1>1, ClientOfWork DEF OfClient
<1>3. /\ request[r].at # "idle" /\ request[r].at \notin UploadSteps
      /\ request[r] \in Works /\ request[r] # NoWork
  BY <1>1, BusyWork DEF UploadSteps
<1>4. ASSUME Settled(request[r])
      PROVE  /\ Sane /\ Fits(request[r])
             /\ \A j \in XInbounds : SameInbound(j)
             /\ \A d \in XClients : SameClient(d)
  BY <1>1, <1>2, <1>3, <1>4 DEF Settled, Moving, Touching
<1>5. Ends(r) /\ OnRows
  BY DEF Unadd
<1>6. request' \in [XRequests -> Works \cup {NoWork}] /\ request'[r] = NoWork
  BY <1>1, <1>5, EndsGoes
<1>7. /\ ClientsTypeOK' /\ (failed => failed')
      /\ UNCHANGED <<inbound, online, xnode, failed, overlapped, disturbed>>
      /\ client'[c] = Erased /\ \A d \in XClients \ {c} : client'[d] = client[d]
  <2>1. client' = [client EXCEPT ![c] = Erased]
    BY <1>2 DEF Unadd
  <2> QED
    BY <1>1, <1>5, <1>6, <2>1, OnRowsTyped, TypedNode DEF Unadd, ClientsTypeOK
<1>8. ASSUME Calm, Calm', Settled(request[r])
      PROVE  InAgreement'
  <2>1. ButFor(c)
    BY <1>1, <1>4, <1>7, <1>8, RowButFor DEF xnode
  <2>2. SameClient(c)'
    BY <1>1, <1>2, <1>4, <1>7, <1>8 DEF Fits, SameClient, On, Unserved, Erased, xnode
  <2> QED
    BY <1>4, <1>8, <2>1, <2>2 DEF InAgreement, ButFor
<1> QED
  BY <1>1, <1>3, <1>5, <1>7, <1>8, Finish DEF Finishes

LEMMA EraseStep ==
    ASSUME ClientsIInv, NEW r \in XRequests, Erase(r)
    PROVE  ClientsIInv'
<1>1. ClientsTypeOK /\ WorksAreFormed /\ request[r].at = "erase"
  BY DEF ClientsIInv, Erase, At
<1>2. PICK c \in XClients : c = request[r].c /\ request[r].i = Of[c] /\ Of[c] \in XInbounds
  BY <1>1, ClientOfWork DEF OfClient
<1>3. /\ request[r].at # "idle" /\ request[r].at \notin UploadSteps
      /\ request[r] \in Works /\ request[r] # NoWork
  BY <1>1, BusyWork DEF UploadSteps
<1>4. ASSUME Settled(request[r])
      PROVE  /\ Sane /\ Fits(request[r])
             /\ \A j \in XInbounds : SameInbound(j)
             /\ \A d \in XClients \ {c} : SameClient(d)
  BY <1>1, <1>2, <1>3, <1>4 DEF Settled, Moving, Touching
<1>5. Ends(r) /\ OnRows
  BY DEF Erase
<1>6. request' \in [XRequests -> Works \cup {NoWork}] /\ request'[r] = NoWork
  BY <1>1, <1>5, EndsGoes
<1>7. /\ ClientsTypeOK' /\ (failed => failed')
      /\ UNCHANGED <<inbound, online, xnode, failed, overlapped, disturbed>>
      /\ client'[c] = Erased /\ \A d \in XClients \ {c} : client'[d] = client[d]
  <2>1. client' = [client EXCEPT ![c] = Erased]
    BY <1>2 DEF Erase
  <2> QED
    BY <1>1, <1>5, <1>6, <2>1, OnRowsTyped, TypedNode DEF Erase, ClientsTypeOK
<1>8. ASSUME Calm, Calm', Settled(request[r])
      PROVE  InAgreement'
  <2>1. ButFor(c)
    BY <1>1, <1>4, <1>7, <1>8, RowButFor DEF xnode
  <2>2. SameClient(c)'
    BY <1>1, <1>2, <1>4, <1>7, <1>8 DEF Fits, SameClient, On, Unserved, Erased, xnode
  <2> QED
    BY <1>4, <1>8, <2>1, <2>2 DEF InAgreement, ButFor
<1> QED
  BY <1>1, <1>3, <1>5, <1>7, <1>8, Finish DEF Finishes
LEMMA ChangeStep ==
    ASSUME ClientsIInv, NEW r \in XRequests, Change(r) \/ Touch(r)
    PROVE  ClientsIInv'
<1>1. ClientsTypeOK /\ WorksAreFormed /\ request[r].at \in {"change", "touch"}
  BY DEF ClientsIInv, Change, Touch, At
<1>2. PICK c \in XClients : c = request[r].c /\ request[r].i = Of[c] /\ Of[c] \in XInbounds
  BY <1>1, ClientOfWork DEF OfClient
<1>3. /\ request[r].at # "idle" /\ request[r].at \notin UploadSteps
      /\ request[r] \in Works /\ request[r] # NoWork
  BY <1>1, BusyWork DEF UploadSteps
<1>4. ASSUME Settled(request[r])
      PROVE  /\ Sane /\ Fits(request[r])
             /\ \A j \in XInbounds : SameInbound(j)
             /\ \A d \in XClients : SameClient(d)
  BY <1>1, <1>2, <1>3, <1>4 DEF Settled, Moving, Touching
<1>5. /\ client' \in [XClients -> ClientRows \cup {NoClient, Erased}]
      /\ \A d \in XClients \ {c} : client'[d] = client[d]
      /\ client'[c].there = client[c].there
  <2>1. request[r].want \in BOOLEAN
    BY <1>3, WorkFields
  <2>2. CASE Change(r)
    BY <1>1, <1>2, <2>1, <2>2, SetEnableIs DEF Change
  <2>3. CASE Touch(r)
    BY <1>1, <2>3 DEF Touch, OnNothing, ClientsTypeOK
  <2> QED
    BY <2>2, <2>3
<1>6. OnRows /\ UNCHANGED inbound /\ forbidden' \subseteq XClients
  <2>1. CASE Change(r)
    BY <1>1, <1>2, <2>1 DEF Change, ClientsTypeOK
  <2>2. CASE Touch(r)
    BY <1>1, <2>2 DEF Touch, OnNothing, ClientsTypeOK
  <2> QED
    BY <2>1, <2>2
<1>7. request[r].old \in ClientRows
  BY <1>1, <1>3 DEF WorksAreFormed, WellFormed, OfOld
<1>8. ASSUME request[r].status \in {"none", "gone"}, Ends(r)
      PROVE  ClientsIInv'
  <2>1. Ends(r)
    BY <1>8
  <2>2. request' \in [XRequests -> Works \cup {NoWork}] /\ request'[r] = NoWork
    BY <1>1, <2>1, EndsGoes
  <2>3. /\ ClientsTypeOK' /\ (failed => failed')
        /\ UNCHANGED <<inbound, online, xnode, failed, overlapped, disturbed>>
    BY <1>1, <1>2, <1>5, <1>6, <2>2, OnRowsTyped, TypedNode DEF ClientsTypeOK
  <2>4. ASSUME Calm, Calm', Settled(request[r])
        PROVE  InAgreement'
    <3>1. Sane /\ Fits(request[r]) /\ SameClient(c) /\ SameInbound(Of[c])
      BY <1>2, <1>4, <2>4
    <3>2. ButFor(c)
      BY <1>1, <1>5, <2>3, <3>1, RowButFor DEF xnode
    <3>3. SameClient(c)'
      BY <1>1, <1>2, <1>5, <1>8, <2>3, <3>1 DEF Fits, SameInbound, SameClient, xnode
    <3> QED
      BY <1>4, <2>4, <3>2, <3>3 DEF InAgreement, ButFor
  <2> QED
    BY <1>1, <1>3, <2>1, <2>3, <2>4, Finish DEF Finishes
<1>9. ASSUME request[r].old.enable, Then(r, "remove")
      PROVE  ClientsIInv'
  <2>1. Goes(r, "remove", request[r].d, request[r].want, request[r].todo, request[r].tags)
    BY <1>1, <1>3, <1>9, ThenGoes DEF Steps, UploadSteps, ReconcileSteps
  <2>2. /\ request' \in [XRequests -> Works \cup {NoWork}]
        /\ request'[r].at = "remove" /\ request'[r].c = request[r].c /\ request'[r].i = request[r].i
        /\ request'[r].d = request[r].d /\ request'[r].todo = request[r].todo /\ request'[r].tags = request[r].tags
        /\ request'[r].status = request[r].status /\ request'[r].old = request[r].old
    BY <2>1, GoesFields
  <2>3. /\ ClientsTypeOK' /\ (failed => failed')
        /\ UNCHANGED <<inbound, online, xnode, failed, overlapped, disturbed>>
    BY <1>1, <1>2, <1>5, <1>6, <2>2, OnRowsTyped, TypedNode DEF ClientsTypeOK
  <2>4. ASSUME Calm, Calm', Settled(request[r])
        PROVE  Settled(request[r])'
    <3>1. Sane /\ Fits(request[r]) /\ SameClient(c) /\ SameInbound(Of[c])
      BY <1>2, <1>4, <2>4
    <3>2. ButFor(c)
      BY <1>1, <1>5, <2>3, <3>1, RowButFor DEF xnode
    <3>3. client'[c].there
      BY <1>1, <1>2, <1>5, <1>7, <3>1 DEF Fits, ClientRows
    <3>4. Fits(request[r])'
      BY <1>2, <2>2, <3>3 DEF Fits
    <3>5. \A d \in XClients : ~Touching(request[r], d)' => d # c
      BY <1>2, <2>2 DEF Touching
    <3> QED
      BY <1>4, <2>4, <3>2, <3>4, <3>5 DEF Settled, ButFor
  <2>5. Allowed(request[r], "remove", request[r].d)
    BY <1>1, <1>2, <1>3 DEF Allowed, OfClient, OfListed, OfInbound, OfOld, UploadSteps
  <2> QED
    BY <1>1, <1>3, <2>1, <2>3, <2>4, <2>5, XProceed DEF Proceeds, Steps, ReconcileSteps
<1>10. ASSUME ~request[r].old.enable, Then(r, "reread")
      PROVE  ClientsIInv'
  <2>1. Goes(r, "reread", request[r].d, request[r].want, request[r].todo, request[r].tags)
    BY <1>1, <1>3, <1>10, ThenGoes DEF Steps, UploadSteps, ReconcileSteps
  <2>2. /\ request' \in [XRequests -> Works \cup {NoWork}]
        /\ request'[r].at = "reread" /\ request'[r].c = request[r].c /\ request'[r].i = request[r].i
        /\ request'[r].d = request[r].d /\ request'[r].todo = request[r].todo /\ request'[r].tags = request[r].tags
        /\ request'[r].status = request[r].status /\ request'[r].old = request[r].old
    BY <2>1, GoesFields
  <2>3. /\ ClientsTypeOK' /\ (failed => failed')
        /\ UNCHANGED <<inbound, online, xnode, failed, overlapped, disturbed>>
    BY <1>1, <1>2, <1>5, <1>6, <2>2, OnRowsTyped, TypedNode DEF ClientsTypeOK
  <2>4. ASSUME Calm, Calm', Settled(request[r])
        PROVE  Settled(request[r])'
    <3>1. Sane /\ Fits(request[r]) /\ SameClient(c) /\ SameInbound(Of[c])
      BY <1>2, <1>4, <2>4
    <3>2. ButFor(c)
      BY <1>1, <1>5, <2>3, <3>1, RowButFor DEF xnode
    <3>3. client'[c].there /\ Unserved(c)'
      BY <1>1, <1>2, <1>5, <1>7, <1>10, <2>3, <3>1 DEF Fits, ClientRows, SameClient, Unserved, On, xnode
    <3>4. Fits(request[r])'
      BY <1>2, <2>2, <3>3 DEF Fits
    <3>5. \A d \in XClients : ~Touching(request[r], d)' => d # c
      BY <1>2, <2>2 DEF Touching
    <3> QED
      BY <1>4, <2>4, <3>2, <3>4, <3>5 DEF Settled, ButFor
  <2>5. Allowed(request[r], "reread", request[r].d)
    BY <1>1, <1>2, <1>3 DEF Allowed, OfClient, OfListed, OfInbound, OfOld, UploadSteps
  <2> QED
    BY <1>1, <1>3, <2>1, <2>3, <2>4, <2>5, XProceed DEF Proceeds, Steps, ReconcileSteps
<1> QED
  BY <1>8, <1>9, <1>10 DEF Change, Touch, Changed

LEMMA RemoveOldStep ==
    ASSUME ClientsIInv, NEW r \in XRequests, RemoveOld(r)
    PROVE  ClientsIInv'
<1>1. ClientsTypeOK /\ WorksAreFormed /\ request[r].at = "remove"
  BY DEF ClientsIInv, RemoveOld, At
<1>2. PICK c \in XClients : c = request[r].c /\ request[r].i = Of[c] /\ Of[c] \in XInbounds
  BY <1>1, ClientOfWork DEF OfClient
<1>3. /\ request[r].at # "idle" /\ request[r].at \notin UploadSteps
      /\ request[r] \in Works /\ request[r] # NoWork
  BY <1>1, BusyWork DEF UploadSteps
<1>4. ASSUME Settled(request[r])
      PROVE  /\ Sane /\ Fits(request[r])
             /\ \A j \in XInbounds : SameInbound(j)
             /\ \A d \in XClients \ {c} : SameClient(d)
  BY <1>1, <1>2, <1>3, <1>4 DEF Settled, Moving, Touching
<1>5. ASSUME RemoveClientOk(request[r].i, request[r].c), Then(r, "reread"), OnNode
      PROVE  ClientsIInv'
  <2>1. Goes(r, "reread", request[r].d, request[r].want, request[r].todo, request[r].tags)
    BY <1>1, <1>3, <1>5, ThenGoes DEF RemoveOld, Steps, UploadSteps, ReconcileSteps
  <2>2. /\ request' \in [XRequests -> Works \cup {NoWork}]
        /\ request'[r].at = "reread" /\ request'[r].c = request[r].c /\ request'[r].i = request[r].i
        /\ request'[r].d = request[r].d /\ request'[r].todo = request[r].todo /\ request'[r].tags = request[r].tags
        /\ request'[r].status = request[r].status /\ request'[r].old = request[r].old
    BY <2>1, GoesFields
  <2>3. ClientsTypeOK' /\ (failed => failed') /\ UNCHANGED <<inbound, client, online, overlapped, disturbed>>
    BY <1>1, <1>2, <1>5, <2>2, CallsKeepTypes, OnNodeTyped DEF RemoveOld
  <2>4. ASSUME Calm, Calm', Settled(request[r])
        PROVE  Settled(request[r])'
    <3>1. Sane /\ Fits(request[r])
      BY <1>4, <2>4
    <3>2. /\ ButFor(c) /\ served[Of[c]].there /\ served'[Of[c]].there /\ c \notin served'[Of[c]].clients
      BY <1>1, <1>2, <1>5, <2>3, <3>1, RemoveOk
    <3>3. client'[c].there /\ Unserved(c)'
      BY <1>1, <1>2, <2>3, <3>1, <3>2 DEF Fits, Unserved
    <3>4. Fits(request[r])'
      BY <1>2, <2>2, <3>3 DEF Fits
    <3>5. \A d \in XClients : ~Touching(request[r], d)' => d # c
      BY <1>2, <2>2 DEF Touching
    <3> QED
      BY <1>4, <2>4, <3>2, <3>4, <3>5 DEF Settled, ButFor
  <2>5. Allowed(request[r], "reread", request[r].d)
    BY <1>1, <1>2, <1>3 DEF Allowed, OfClient, OfListed, OfInbound, OfOld, UploadSteps
  <2> QED
    BY <1>1, <1>3, <2>1, <2>3, <2>4, <2>5, XProceed DEF Proceeds, Steps, ReconcileSteps
<1>6. ASSUME RemoveClientFails(request[r].i, request[r].c), OnNode,
             request' = [request EXCEPT ![r].at = "restore", ![r].want = FALSE]
      PROVE  ClientsIInv'
  <2>a. PICK want \in BOOLEAN : want = FALSE
    OBVIOUS
  <2>b. request' = [request EXCEPT ![r].at = "restore", ![r].want = want]
    BY <1>6, <2>a
  <2>1. Goes(r, "restore", request[r].d, want, request[r].todo, request[r].tags)
    BY <1>1, <1>3, <2>b, WantGoes DEF RemoveOld, Steps, UploadSteps, ReconcileSteps
  <2>2. /\ request' \in [XRequests -> Works \cup {NoWork}]
        /\ request'[r].at = "restore" /\ request'[r].c = request[r].c /\ request'[r].i = request[r].i
        /\ request'[r].d = request[r].d /\ request'[r].todo = request[r].todo /\ request'[r].tags = request[r].tags
        /\ request'[r].status = request[r].status /\ request'[r].old = request[r].old
    BY <2>1, GoesFields
  <2>3. ClientsTypeOK' /\ (failed => failed') /\ UNCHANGED <<inbound, client, online, overlapped, disturbed>>
    BY <1>1, <1>2, <1>6, <2>2, CallsKeepTypes, OnNodeTyped DEF RemoveOld
  <2>4. ASSUME Calm, Calm', Settled(request[r])
        PROVE  Settled(request[r])'
    <3>1. Sane
      BY <1>4, <2>4
    <3>2. xnode' = xnode /\ ~served[Of[c]].there
      BY <1>1, <1>2, <1>6, <2>4, <3>1, RemoveFails DEF Calm
    <3>3. Fits(request[r])' /\ SameClient(c)'
      BY <1>2, <2>2, <3>2 DEF Fits, SameClient, xnode
    <3> QED
      BY <1>4, <2>3, <2>4, <3>2, <3>3, NothingButFor DEF Settled
  <2>5. Allowed(request[r], "restore", request[r].d)
    BY <1>1, <1>2, <1>3 DEF Allowed, OfClient, OfListed, OfInbound, OfOld, UploadSteps
  <2> QED
    BY <1>1, <1>3, <2>1, <2>3, <2>4, <2>5, XProceed DEF Proceeds, Steps, ReconcileSteps
<1> QED
  BY <1>5, <1>6 DEF RemoveOld

LEMMA HotRemoveStep ==
    ASSUME ClientsIInv, NEW r \in XRequests, HotRemove(r)
    PROVE  ClientsIInv'
<1>1. ClientsTypeOK /\ WorksAreFormed /\ request[r].at = "hotRemove"
  BY DEF ClientsIInv, HotRemove, At
<1>2. PICK c \in XClients : c = request[r].c /\ request[r].i = Of[c] /\ Of[c] \in XInbounds
  BY <1>1, ClientOfWork DEF OfClient
<1>3. /\ request[r].at # "idle" /\ request[r].at \notin UploadSteps
      /\ request[r] \in Works /\ request[r] # NoWork
  BY <1>1, BusyWork DEF UploadSteps
<1>4. ASSUME Settled(request[r])
      PROVE  /\ Sane /\ Fits(request[r])
             /\ \A j \in XInbounds : SameInbound(j)
             /\ \A d \in XClients : SameClient(d)
  BY <1>1, <1>2, <1>3, <1>4 DEF Settled, Moving, Touching
<1>5. ASSUME RemoveClientOk(request[r].i, request[r].c), Then(r, "erase"), OnNode
      PROVE  ClientsIInv'
  <2>1. Goes(r, "erase", request[r].d, request[r].want, request[r].todo, request[r].tags)
    BY <1>1, <1>3, <1>5, ThenGoes DEF HotRemove, Steps, UploadSteps, ReconcileSteps
  <2>2. /\ request' \in [XRequests -> Works \cup {NoWork}]
        /\ request'[r].at = "erase" /\ request'[r].c = request[r].c /\ request'[r].i = request[r].i
        /\ request'[r].d = request[r].d /\ request'[r].todo = request[r].todo /\ request'[r].tags = request[r].tags
        /\ request'[r].status = request[r].status /\ request'[r].old = request[r].old
    BY <2>1, GoesFields
  <2>3. ClientsTypeOK' /\ (failed => failed') /\ UNCHANGED <<inbound, client, online, overlapped, disturbed>>
    BY <1>1, <1>2, <1>5, <2>2, CallsKeepTypes, OnNodeTyped DEF HotRemove
  <2>4. ASSUME Calm, Calm', Settled(request[r])
        PROVE  Settled(request[r])'
    <3>1. Sane /\ Fits(request[r])
      BY <1>4, <2>4
    <3>2. /\ ButFor(c) /\ served[Of[c]].there /\ served'[Of[c]].there /\ c \notin served'[Of[c]].clients
      BY <1>1, <1>2, <1>5, <2>3, <3>1, RemoveOk
    <3>3. Unserved(c)'
      BY <1>1, <1>2, <2>3, <3>1, <3>2 DEF Unserved
    <3>4. Fits(request[r])'
      BY <1>2, <2>2, <3>3 DEF Fits
    <3>5. \A d \in XClients : ~Touching(request[r], d)' => d # c
      BY <1>2, <2>2 DEF Touching
    <3> QED
      BY <1>4, <2>4, <3>2, <3>4, <3>5 DEF Settled, ButFor
  <2>5. Allowed(request[r], "erase", request[r].d)
    BY <1>1, <1>2, <1>3 DEF Allowed, OfClient, OfListed, OfInbound, OfOld, UploadSteps
  <2> QED
    BY <1>1, <1>3, <2>1, <2>3, <2>4, <2>5, XProceed DEF Proceeds, Steps, ReconcileSteps
<1>6. ASSUME RemoveClientFails(request[r].i, request[r].c), Ends(r), OnNode
      PROVE  ClientsIInv'
  <2>1. Ends(r)
    BY <1>6
  <2>2. request' \in [XRequests -> Works \cup {NoWork}] /\ request'[r] = NoWork
    BY <1>1, <2>1, EndsGoes
  <2>3. ClientsTypeOK' /\ (failed => failed') /\ UNCHANGED <<inbound, client, online, overlapped, disturbed>>
    BY <1>1, <1>2, <1>6, <2>2, CallsKeepTypes, OnNodeTyped DEF HotRemove
  <2>4. ASSUME Calm, Calm', Settled(request[r])
        PROVE  InAgreement'
    <3>1. Sane
      BY <1>4, <2>4
    <3>2. xnode' = xnode
      BY <1>1, <1>2, <1>6, <2>4, <3>1, RemoveFails DEF Calm
    <3> QED
      BY <1>4, <2>3, <2>4, <3>2, NothingButFor DEF InAgreement
  <2> QED
    BY <1>1, <1>3, <2>1, <2>3, <2>4, Finish DEF Finishes
<1> QED
  BY <1>5, <1>6 DEF HotRemove

LEMMA RereadStep ==
    ASSUME ClientsIInv, NEW r \in XRequests, Reread(r)
    PROVE  ClientsIInv'
<1>1. ClientsTypeOK /\ WorksAreFormed /\ request[r].at = "reread"
  BY DEF ClientsIInv, Reread, At
<1>2. PICK c \in XClients : c = request[r].c /\ request[r].i = Of[c] /\ Of[c] \in XInbounds
  BY <1>1, ClientOfWork DEF OfClient
<1>3. /\ request[r].at # "idle" /\ request[r].at \notin UploadSteps
      /\ request[r] \in Works /\ request[r] # NoWork
  BY <1>1, BusyWork DEF UploadSteps
<1>4. ASSUME Settled(request[r])
      PROVE  /\ Sane /\ Fits(request[r])
             /\ \A j \in XInbounds : SameInbound(j)
             /\ \A d \in XClients \ {c} : SameClient(d)
  BY <1>1, <1>2, <1>3, <1>4 DEF Settled, Moving, Touching
<1>5. request[r].old.enable \in BOOLEAN
  BY <1>1, <1>3 DEF WorksAreFormed, WellFormed, OfOld, ClientRows
<1>6. ASSUME IF client[c].there THEN client[c].enable ELSE request[r].want,
             request' = [request EXCEPT ![r].at = "readd", ![r].want = request[r].old.enable]
      PROVE  ClientsIInv'
  <2>1. Goes(r, "readd", request[r].d, request[r].old.enable, request[r].todo, request[r].tags)
    BY <1>1, <1>3, <1>6, <1>5, WantGoes DEF Reread, Steps, UploadSteps, ReconcileSteps
  <2>2. /\ request' \in [XRequests -> Works \cup {NoWork}]
        /\ request'[r].at = "readd" /\ request'[r].c = request[r].c /\ request'[r].i = request[r].i
        /\ request'[r].d = request[r].d /\ request'[r].todo = request[r].todo /\ request'[r].tags = request[r].tags
        /\ request'[r].status = request[r].status /\ request'[r].old = request[r].old
    BY <2>1, GoesFields
  <2>3. /\ ClientsTypeOK' /\ (failed => failed')
        /\ UNCHANGED <<inbound, client, online, xnode, failed, overlapped, disturbed>>
    BY <1>1, <2>2, OnRowsTyped, TypedNode DEF Reread, ClientsTypeOK, OnNothing
  <2>4. ASSUME Calm, Calm', Settled(request[r])
        PROVE  Settled(request[r])'
    <3>1. Sane /\ Unserved(c) /\ On(c)
      BY <1>1, <1>2, <1>4, <1>6, <2>4 DEF Fits, On
    <3>2. Unserved(c)' /\ On(c)'
      BY <2>3, <3>1 DEF Unserved, On, xnode
    <3>3. Fits(request[r])'
      BY <1>2, <2>2, <3>2 DEF Fits
    <3>4. \A d \in XClients : ~Touching(request[r], d)' => d # c
      BY <1>2, <2>2 DEF Touching
    <3> QED
      BY <1>4, <2>3, <2>4, <3>3, <3>4, NothingButFor DEF Settled
  <2>5. Allowed(request[r], "readd", request[r].d)
    BY <1>1, <1>2, <1>3 DEF Allowed, OfClient, OfListed, OfInbound, OfOld, UploadSteps
  <2> QED
    BY <1>1, <1>3, <2>1, <2>3, <2>4, <2>5, XProceed DEF Proceeds, Steps, ReconcileSteps
<1>7. ASSUME ~(IF client[c].there THEN client[c].enable ELSE request[r].want), Ends(r)
      PROVE  ClientsIInv'
  <2>1. Ends(r)
    BY <1>7
  <2>2. request' \in [XRequests -> Works \cup {NoWork}] /\ request'[r] = NoWork
    BY <1>1, <2>1, EndsGoes
  <2>3. /\ ClientsTypeOK' /\ (failed => failed')
        /\ UNCHANGED <<inbound, client, online, xnode, failed, overlapped, disturbed>>
    BY <1>1, <2>2, OnRowsTyped, TypedNode DEF Reread, ClientsTypeOK, OnNothing
  <2>4. ASSUME Calm, Calm', Settled(request[r])
        PROVE  InAgreement'
    <3>1. Sane /\ Unserved(c) /\ ~On(c)
      BY <1>1, <1>2, <1>4, <1>7, <2>4 DEF Fits, On
    <3>2. SameClient(c)
      BY <3>1 DEF Unserved, SameClient
    <3> QED
      BY <1>4, <2>3, <2>4, <3>2, NothingButFor DEF InAgreement
  <2> QED
    BY <1>1, <1>3, <2>1, <2>3, <2>4, Finish DEF Finishes
<1> QED
  BY <1>2, <1>6, <1>7 DEF Reread

LEMMA RestoreStep ==
    ASSUME ClientsIInv, NEW r \in XRequests, Restore(r)
    PROVE  ClientsIInv'
<1>1. ClientsTypeOK /\ WorksAreFormed /\ request[r].at = "restore"
  BY DEF ClientsIInv, Restore, At
<1>2. PICK c \in XClients : c = request[r].c /\ request[r].i = Of[c] /\ Of[c] \in XInbounds
  BY <1>1, ClientOfWork DEF OfClient
<1>3. /\ request[r].at # "idle" /\ request[r].at \notin UploadSteps
      /\ request[r] \in Works /\ request[r] # NoWork
  BY <1>1, BusyWork DEF UploadSteps
<1>4. ASSUME Settled(request[r])
      PROVE  /\ Sane /\ Fits(request[r])
             /\ \A j \in XInbounds : SameInbound(j)
             /\ \A d \in XClients : SameClient(d)
  BY <1>1, <1>2, <1>3, <1>4 DEF Settled, Moving, Touching
<1>5. /\ client' \in [XClients -> ClientRows \cup {NoClient, Erased}]
      /\ \A d \in XClients \ {c} : client'[d] = client[d]
  <2>1. request[r].old \in ClientRows
    BY <1>1, <1>3 DEF WorksAreFormed, WellFormed, OfOld
  <2> QED
    BY <1>1, <1>2, <2>1, TypedNode DEF Restore
<1>6. OnRows /\ UNCHANGED inbound /\ forbidden' \subseteq XClients
  BY <1>1, <1>2 DEF Restore, ClientsTypeOK
<1>7. ASSUME Settled(request[r]), UNCHANGED <<online, xnode>>
      PROVE  /\ ButFor(c) /\ SameClient(c)' /\ ~served'[Of[c]].there
  BY <1>1, <1>2, <1>4, <1>5, <1>6, <1>7, RowButFor DEF Fits, SameClient, xnode
<1>8. ASSUME request[r].want, Then(r, "again")
      PROVE  ClientsIInv'
  <2>1. Goes(r, "again", request[r].d, request[r].want, request[r].todo, request[r].tags)
    BY <1>1, <1>3, <1>8, ThenGoes DEF Restore, Steps, UploadSteps, ReconcileSteps
  <2>2. /\ request' \in [XRequests -> Works \cup {NoWork}]
        /\ request'[r].at = "again" /\ request'[r].c = request[r].c /\ request'[r].i = request[r].i
        /\ request'[r].d = request[r].d /\ request'[r].todo = request[r].todo /\ request'[r].tags = request[r].tags
        /\ request'[r].status = request[r].status /\ request'[r].old = request[r].old
    BY <2>1, GoesFields
  <2>3. /\ ClientsTypeOK' /\ (failed => failed')
        /\ UNCHANGED <<inbound, online, xnode, failed, overlapped, disturbed>>
    BY <1>1, <1>5, <1>6, <2>2, OnRowsTyped, TypedNode
  <2>4. ASSUME Calm, Calm', Settled(request[r])
        PROVE  Settled(request[r])'
    <3>1. ButFor(c) /\ SameClient(c)' /\ ~served'[Of[c]].there
      BY <1>7, <2>3, <2>4
    <3>2. Fits(request[r])'
      BY <1>2, <2>2, <3>1 DEF Fits, Unserved
    <3> QED
      BY <1>4, <2>4, <3>1, <3>2 DEF Settled, ButFor
  <2>5. Allowed(request[r], "again", request[r].d)
    BY <1>1, <1>2, <1>3 DEF Allowed, OfClient, OfListed, OfInbound, OfOld, UploadSteps
  <2> QED
    BY <1>1, <1>3, <2>1, <2>3, <2>4, <2>5, XProceed DEF Proceeds, Steps, ReconcileSteps
<1>9. ASSUME ~request[r].want, Ends(r)
      PROVE  ClientsIInv'
  <2>1. Ends(r)
    BY <1>9
  <2>2. request' \in [XRequests -> Works \cup {NoWork}] /\ request'[r] = NoWork
    BY <1>1, <2>1, EndsGoes
  <2>3. /\ ClientsTypeOK' /\ (failed => failed')
        /\ UNCHANGED <<inbound, online, xnode, failed, overlapped, disturbed>>
    BY <1>1, <1>5, <1>6, <2>2, OnRowsTyped, TypedNode
  <2>4. ASSUME Calm, Calm', Settled(request[r])
        PROVE  InAgreement'
    <3>1. ButFor(c) /\ SameClient(c)' /\ ~served'[Of[c]].there
      BY <1>7, <2>3, <2>4
    <3> QED
      BY <1>4, <2>4, <3>1 DEF InAgreement, ButFor
  <2> QED
    BY <1>1, <1>3, <2>1, <2>3, <2>4, Finish DEF Finishes
<1> QED
  BY <1>8, <1>9 DEF Restore
LEMMA ZeroStep ==
    ASSUME ClientsIInv, NEW r \in XRequests, Zero(r)
    PROVE  ClientsIInv'
<1>1. ClientsTypeOK /\ WorksAreFormed /\ request[r].at = "zero"
  BY DEF ClientsIInv, Zero, At
<1>2. PICK c \in XClients : c = request[r].c /\ request[r].i = Of[c] /\ Of[c] \in XInbounds
  BY <1>1, ClientOfWork DEF OfClient
<1>3. /\ request[r].at # "idle" /\ request[r].at \notin UploadSteps
      /\ request[r] \in Works /\ request[r] # NoWork
  BY <1>1, BusyWork DEF UploadSteps
<1>4. ASSUME Settled(request[r])
      PROVE  /\ Sane /\ Fits(request[r])
             /\ \A j \in XInbounds : SameInbound(j)
             /\ \A d \in XClients : SameClient(d)
  BY <1>1, <1>2, <1>3, <1>4 DEF Settled, Moving, Touching
<1>5. /\ client' \in [XClients -> ClientRows \cup {NoClient, Erased}]
      /\ \A d \in XClients \ {c} : client'[d] = client[d]
      /\ client'[c].there = client[c].there
      /\ client[c].there => client'[c].enable = client[c].enable
  <2>1. CASE ~client[c].there
    BY <1>1, <1>2, <2>1, TypedNode DEF Zero
  <2>2. CASE client[c].there
    <3>1. PICK x \in ClientRows : x = client[c]
      BY <1>1, <2>2, TypedNode DEF NoClient, Erased
    <3>2. PICK y : y = [x EXCEPT !.used = 0]
      OBVIOUS
    <3>3. y \in ClientRows /\ y.enable = x.enable /\ y.there = x.there
      BY <3>2 DEF ClientRows
    <3>4. client' = [client EXCEPT ![c] = y]
      BY <1>1, <1>2, <2>2, <3>1, <3>2, TypedNode DEF Zero
    <3> HIDE DEF ClientRows
    <3> QED
      BY <1>1, <2>2, <3>1, <3>3, <3>4, TypedNode
  <2> QED
    BY <2>1, <2>2
<1>6. OnRows /\ UNCHANGED <<inbound, forbidden>>
  BY DEF Zero
<1>7. request[r].old \in ClientRows
  BY <1>1, <1>3 DEF WorksAreFormed, WellFormed, OfOld
<1>8. ASSUME Settled(request[r]), UNCHANGED <<online, xnode>>
      PROVE  ButFor(c) /\ SameClient(c)'
  <2>1. SameClient(c)'
    BY <1>2, <1>4, <1>5, <1>8 DEF SameClient, On, xnode
  <2> QED
    BY <1>1, <1>4, <1>5, <1>6, <1>8, <2>1, RowButFor DEF xnode
<1>9. ASSUME ~request[r].old.enable, Then(r, "enable")
      PROVE  ClientsIInv'
  <2>1. Goes(r, "enable", request[r].d, request[r].want, request[r].todo, request[r].tags)
    BY <1>1, <1>3, <1>9, ThenGoes DEF Zero, Steps, UploadSteps, ReconcileSteps
  <2>2. /\ request' \in [XRequests -> Works \cup {NoWork}]
        /\ request'[r].at = "enable" /\ request'[r].c = request[r].c /\ request'[r].i = request[r].i
        /\ request'[r].d = request[r].d /\ request'[r].todo = request[r].todo /\ request'[r].tags = request[r].tags
        /\ request'[r].status = request[r].status /\ request'[r].old = request[r].old
    BY <2>1, GoesFields
  <2>3. /\ ClientsTypeOK' /\ (failed => failed')
        /\ UNCHANGED <<inbound, online, xnode, failed, overlapped, disturbed>>
    BY <1>1, <1>5, <1>6, <2>2, OnRowsTyped, TypedNode DEF ClientsTypeOK
  <2>4. ASSUME Calm, Calm', Settled(request[r])
        PROVE  Settled(request[r])'
    <3>1. ButFor(c) /\ SameClient(c)'
      BY <1>8, <2>3, <2>4
    <3>2. client'[c].there /\ ~client'[c].enable
      BY <1>1, <1>2, <1>4, <1>5, <1>7, <1>9, <2>4 DEF Fits, ClientRows
    <3>3. Fits(request[r])'
      BY <1>2, <2>2, <3>2 DEF Fits
    <3> QED
      BY <1>4, <2>4, <3>1, <3>3 DEF Settled, ButFor
  <2>5. Allowed(request[r], "enable", request[r].d)
    BY <1>1, <1>2, <1>3 DEF Allowed, OfClient, OfListed, OfInbound, OfOld, UploadSteps
  <2> QED
    BY <1>1, <1>3, <2>1, <2>3, <2>4, <2>5, XProceed DEF Proceeds, Steps, ReconcileSteps
<1>10. ASSUME Ends(r)
      PROVE  ClientsIInv'
  <2>1. Ends(r)
    BY <1>10
  <2>2. request' \in [XRequests -> Works \cup {NoWork}] /\ request'[r] = NoWork
    BY <1>1, <2>1, EndsGoes
  <2>3. /\ ClientsTypeOK' /\ (failed => failed')
        /\ UNCHANGED <<inbound, online, xnode, failed, overlapped, disturbed>>
    BY <1>1, <1>5, <1>6, <2>2, OnRowsTyped, TypedNode DEF ClientsTypeOK
  <2>4. ASSUME Calm, Calm', Settled(request[r])
        PROVE  InAgreement'
    <3>1. ButFor(c) /\ SameClient(c)'
      BY <1>8, <2>3, <2>4
    <3> QED
      BY <1>4, <2>4, <3>1 DEF InAgreement, ButFor
  <2> QED
    BY <1>1, <1>3, <2>1, <2>3, <2>4, Finish DEF Finishes
<1> QED
  BY <1>9, <1>10 DEF Zero

LEMMA EnableAgainStep ==
    ASSUME ClientsIInv, NEW r \in XRequests, EnableAgain(r)
    PROVE  ClientsIInv'
<1>1. ClientsTypeOK /\ WorksAreFormed /\ request[r].at = "enable"
  BY DEF ClientsIInv, EnableAgain, At
<1>2. PICK c \in XClients : c = request[r].c /\ request[r].i = Of[c] /\ Of[c] \in XInbounds
  BY <1>1, ClientOfWork DEF OfClient
<1>3. /\ request[r].at # "idle" /\ request[r].at \notin UploadSteps
      /\ request[r] \in Works /\ request[r] # NoWork
  BY <1>1, BusyWork DEF UploadSteps
<1>4. ASSUME Settled(request[r])
      PROVE  /\ Sane /\ Fits(request[r])
             /\ \A j \in XInbounds : SameInbound(j)
             /\ \A d \in XClients : SameClient(d)
  BY <1>1, <1>2, <1>3, <1>4 DEF Settled, Moving, Touching
<1>5. /\ client' \in [XClients -> ClientRows \cup {NoClient, Erased}]
      /\ \A d \in XClients \ {c} : client'[d] = client[d]
      /\ client'[c].there = client[c].there
      /\ client[c].there => client'[c].enable
  BY <1>1, <1>2, SetEnableIs DEF EnableAgain
<1>6. OnRows /\ UNCHANGED inbound /\ forbidden' \subseteq XClients
  BY <1>1 DEF EnableAgain, ClientsTypeOK
<1>7. ASSUME Settled(request[r]), UNCHANGED <<online, xnode>>
      PROVE  ButFor(c) /\ Unserved(c)' /\ On(c)'
  <2>1. Unserved(c)' /\ On(c)'
    BY <1>1, <1>2, <1>4, <1>5, <1>7 DEF Fits, SameClient, Unserved, On, xnode
  <2> QED
    BY <1>1, <1>4, <1>5, <1>6, <1>7, <2>1, RowButFor DEF xnode
<1>8. ASSUME Then(r, "again")
      PROVE  ClientsIInv'
  <2>1. Goes(r, "again", request[r].d, request[r].want, request[r].todo, request[r].tags)
    BY <1>1, <1>3, <1>8, ThenGoes DEF EnableAgain, Steps, UploadSteps, ReconcileSteps
  <2>2. /\ request' \in [XRequests -> Works \cup {NoWork}]
        /\ request'[r].at = "again" /\ request'[r].c = request[r].c /\ request'[r].i = request[r].i
        /\ request'[r].d = request[r].d /\ request'[r].todo = request[r].todo /\ request'[r].tags = request[r].tags
        /\ request'[r].status = request[r].status /\ request'[r].old = request[r].old
    BY <2>1, GoesFields
  <2>3. /\ ClientsTypeOK' /\ (failed => failed')
        /\ UNCHANGED <<inbound, online, xnode, failed, overlapped, disturbed>>
    BY <1>1, <1>5, <1>6, <2>2, OnRowsTyped, TypedNode DEF ClientsTypeOK
  <2>4. ASSUME Calm, Calm', Settled(request[r])
        PROVE  Settled(request[r])'
    <3>1. ButFor(c) /\ Unserved(c)' /\ On(c)'
      BY <1>7, <2>3, <2>4
    <3>2. Fits(request[r])'
      BY <1>2, <2>2, <3>1 DEF Fits
    <3>3. \A d \in XClients : ~Touching(request[r], d)' => d # c
      BY <1>2, <2>2 DEF Touching
    <3> QED
      BY <1>4, <2>4, <3>1, <3>2, <3>3 DEF Settled, ButFor
  <2>5. Allowed(request[r], "again", request[r].d)
    BY <1>1, <1>2, <1>3 DEF Allowed, OfClient, OfListed, OfInbound, OfOld, UploadSteps
  <2> QED
    BY <1>1, <1>3, <2>1, <2>3, <2>4, <2>5, XProceed DEF Proceeds, Steps, ReconcileSteps
<1>9. ASSUME ~Listed(request[r].i), Ends(r)
      PROVE  ClientsIInv'
  <2>1. Ends(r)
    BY <1>9
  <2>2. request' \in [XRequests -> Works \cup {NoWork}] /\ request'[r] = NoWork
    BY <1>1, <2>1, EndsGoes
  <2>3. /\ ClientsTypeOK' /\ (failed => failed')
        /\ UNCHANGED <<inbound, online, xnode, failed, overlapped, disturbed>>
    BY <1>1, <1>5, <1>6, <2>2, OnRowsTyped, TypedNode DEF ClientsTypeOK
  <2>4. ASSUME Calm, Calm', Settled(request[r])
        PROVE  InAgreement'
    <3>1. ButFor(c)
      BY <1>7, <2>3, <2>4
    <3>2. SameClient(c)'
      BY <1>2, <1>4, <1>9, <2>3, <2>4 DEF Listed, SameInbound, SameClient, xnode
    <3> QED
      BY <1>4, <2>4, <3>1, <3>2 DEF InAgreement, ButFor
  <2> QED
    BY <1>1, <1>3, <2>1, <2>3, <2>4, Finish DEF Finishes
<1> QED
  BY <1>8, <1>9 DEF EnableAgain

LEMMA BanNextStep ==
    ASSUME ClientsIInv, NEW r \in XRequests, BanNext(r)
    PROVE  ClientsIInv'
<1>1. ClientsTypeOK /\ WorksAreFormed /\ request[r].at = "ban"
  BY DEF ClientsIInv, BanNext, At
<1>2. request[r].at # "idle"
  BY <1>1
<1>3. /\ request[r].at # "idle" /\ request[r].at \notin UploadSteps
      /\ request[r] \in Works /\ request[r] # NoWork
  BY <1>1, BusyWork DEF UploadSteps
<1>4. ASSUME Settled(request[r])
      PROVE  /\ Sane /\ Fits(request[r])
             /\ \A j \in XInbounds : SameInbound(j)
             /\ \A d \in XClients : SameClient(d)
  BY <1>1, <1>2, <1>3, <1>4 DEF Settled, Moving, Touching
<1>5. ASSUME NEW d \in request[r].todo, Listed(Of[d]),
             request' = [request EXCEPT ![r].at = "expel", ![r].todo = @ \ {d}, ![r].d = d]
      PROVE  ClientsIInv'
  <2>a. d \in XClients /\ Of[d] \in XInbounds
    BY <1>3, <1>5, WorkFields, ClientsAssumption
  <2>1. Goes(r, "expel", d, request[r].want, request[r].todo \ {d}, request[r].tags)
    BY <1>1, <1>3, <1>5, <2>a, NextGoes DEF BanNext, Steps, UploadSteps, ReconcileSteps
  <2>2. /\ request' \in [XRequests -> Works \cup {NoWork}]
        /\ request'[r].at = "expel" /\ request'[r].c = request[r].c /\ request'[r].i = request[r].i
        /\ request'[r].d = d /\ request'[r].todo = request[r].todo \ {d} /\ request'[r].tags = request[r].tags
        /\ request'[r].status = request[r].status /\ request'[r].old = request[r].old
    BY <2>1, GoesFields
  <2>3. /\ ClientsTypeOK' /\ (failed => failed')
        /\ UNCHANGED <<inbound, client, online, xnode, failed, overlapped, disturbed>>
    BY <1>1, <2>2, OnRowsTyped, TypedNode DEF BanNext, ClientsTypeOK, OnNothing
  <2>4. ASSUME Calm, Calm', Settled(request[r])
        PROVE  Settled(request[r])'
    <3>1. Fits(request[r])'
      BY <2>2 DEF Fits
    <3> QED
      BY <1>4, <2>3, <2>4, <3>1, NothingButFor DEF Settled
  <2>5. Allowed(request[r], "expel", d)
    BY <1>1, <1>2, <1>3, <2>a DEF Allowed, OfClient, OfListed, OfInbound, OfOld, UploadSteps
  <2> QED
    BY <1>1, <1>3, <2>1, <2>3, <2>4, <2>5, XProceed DEF Proceeds, Steps, ReconcileSteps
<1>6. ASSUME NEW d \in request[r].todo, ~Listed(Of[d]),
             request' = [request EXCEPT ![r].at = "banned", ![r].todo = @ \ {d}, ![r].d = d]
      PROVE  ClientsIInv'
  <2>a. d \in XClients /\ Of[d] \in XInbounds
    BY <1>3, <1>6, WorkFields, ClientsAssumption
  <2>1. Goes(r, "banned", d, request[r].want, request[r].todo \ {d}, request[r].tags)
    BY <1>1, <1>3, <1>6, <2>a, NextGoes DEF BanNext, Steps, UploadSteps, ReconcileSteps
  <2>2. /\ request' \in [XRequests -> Works \cup {NoWork}]
        /\ request'[r].at = "banned" /\ request'[r].c = request[r].c /\ request'[r].i = request[r].i
        /\ request'[r].d = d /\ request'[r].todo = request[r].todo \ {d} /\ request'[r].tags = request[r].tags
        /\ request'[r].status = request[r].status /\ request'[r].old = request[r].old
    BY <2>1, GoesFields
  <2>3. /\ ClientsTypeOK' /\ (failed => failed')
        /\ UNCHANGED <<inbound, client, online, xnode, failed, overlapped, disturbed>>
    BY <1>1, <2>2, OnRowsTyped, TypedNode DEF BanNext, ClientsTypeOK, OnNothing
  <2>4. ASSUME Calm, Calm', Settled(request[r])
        PROVE  Settled(request[r])'
    <3>1. Unserved(d)'
      BY <1>4, <1>6, <2>3, <2>4, <2>a DEF Listed, SameInbound, Unserved, xnode
    <3>2. Fits(request[r])'
      BY <2>2, <3>1 DEF Fits
    <3> QED
      BY <1>4, <2>3, <2>4, <3>2, NothingButFor DEF Settled
  <2>5. Allowed(request[r], "banned", d)
    BY <1>1, <1>2, <1>3, <2>a DEF Allowed, OfClient, OfListed, OfInbound, OfOld, UploadSteps
  <2> QED
    BY <1>1, <1>3, <2>1, <2>3, <2>4, <2>5, XProceed DEF Proceeds, Steps, ReconcileSteps
<1>7. ASSUME Ends(r)
      PROVE  ClientsIInv'
  <2>1. Ends(r)
    BY <1>7
  <2>2. request' \in [XRequests -> Works \cup {NoWork}] /\ request'[r] = NoWork
    BY <1>1, <2>1, EndsGoes
  <2>3. /\ ClientsTypeOK' /\ (failed => failed')
        /\ UNCHANGED <<inbound, client, online, xnode, failed, overlapped, disturbed>>
    BY <1>1, <2>2, OnRowsTyped, TypedNode DEF BanNext, ClientsTypeOK, OnNothing
  <2>4. ASSUME Calm, Calm', Settled(request[r])
        PROVE  InAgreement'
    BY <1>4, <2>3, <2>4, NothingButFor DEF InAgreement
  <2> QED
    BY <1>1, <1>3, <2>1, <2>3, <2>4, Finish DEF Finishes
<1> QED
  BY <1>5, <1>6, <1>7 DEF BanNext

LEMMA ExpelStep ==
    ASSUME ClientsIInv, NEW r \in XRequests, Expel(r)
    PROVE  ClientsIInv'
<1>1. ClientsTypeOK /\ WorksAreFormed /\ request[r].at = "expel"
  BY DEF ClientsIInv, Expel, At
<1>2. PICK c \in XClients : c = request[r].d /\ Of[c] \in XInbounds
  BY <1>1, ListedOfWork DEF OfListed
<1>3. /\ request[r].at # "idle" /\ request[r].at \notin UploadSteps
      /\ request[r] \in Works /\ request[r] # NoWork
  BY <1>1, BusyWork DEF UploadSteps
<1>4. ASSUME Settled(request[r])
      PROVE  /\ Sane /\ Fits(request[r])
             /\ \A j \in XInbounds : SameInbound(j)
             /\ \A d \in XClients : SameClient(d)
  BY <1>1, <1>2, <1>3, <1>4 DEF Settled, Moving, Touching
<1>5. ASSUME RemoveClientOk(Of[c], c), Then(r, "banned"), OnNode
      PROVE  ClientsIInv'
  <2>1. Goes(r, "banned", request[r].d, request[r].want, request[r].todo, request[r].tags)
    BY <1>1, <1>3, <1>5, ThenGoes DEF Expel, Steps, UploadSteps, ReconcileSteps
  <2>2. /\ request' \in [XRequests -> Works \cup {NoWork}]
        /\ request'[r].at = "banned" /\ request'[r].c = request[r].c /\ request'[r].i = request[r].i
        /\ request'[r].d = request[r].d /\ request'[r].todo = request[r].todo /\ request'[r].tags = request[r].tags
        /\ request'[r].status = request[r].status /\ request'[r].old = request[r].old
    BY <2>1, GoesFields
  <2>3. ClientsTypeOK' /\ (failed => failed') /\ UNCHANGED <<inbound, client, online, overlapped, disturbed>>
    BY <1>1, <1>2, <1>5, <2>2, CallsKeepTypes, OnNodeTyped DEF Expel
  <2>4. ASSUME Calm, Calm', Settled(request[r])
        PROVE  Settled(request[r])'
    <3>1. Sane
      BY <1>4, <2>4
    <3>2. ButFor(c) /\ c \notin served'[Of[c]].clients
      BY <1>1, <1>2, <1>5, <2>3, <3>1, RemoveOk
    <3>3. Fits(request[r])'
      BY <1>2, <2>2, <3>2 DEF Fits, Unserved
    <3>4. \A d \in XClients : ~Touching(request[r], d)' => d # c
      BY <1>2, <2>2 DEF Touching
    <3> QED
      BY <1>4, <2>4, <3>2, <3>3, <3>4 DEF Settled, ButFor
  <2>5. Allowed(request[r], "banned", request[r].d)
    BY <1>1, <1>2, <1>3 DEF Allowed, OfClient, OfListed, OfInbound, OfOld, UploadSteps
  <2> QED
    BY <1>1, <1>3, <2>1, <2>3, <2>4, <2>5, XProceed DEF Proceeds, Steps, ReconcileSteps
<1>6. ASSUME RemoveClientFails(Of[c], c), Then(r, "banned"), OnNode
      PROVE  ClientsIInv'
  <2>1. Goes(r, "banned", request[r].d, request[r].want, request[r].todo, request[r].tags)
    BY <1>1, <1>3, <1>6, ThenGoes DEF Expel, Steps, UploadSteps, ReconcileSteps
  <2>2. /\ request' \in [XRequests -> Works \cup {NoWork}]
        /\ request'[r].at = "banned" /\ request'[r].c = request[r].c /\ request'[r].i = request[r].i
        /\ request'[r].d = request[r].d /\ request'[r].todo = request[r].todo /\ request'[r].tags = request[r].tags
        /\ request'[r].status = request[r].status /\ request'[r].old = request[r].old
    BY <2>1, GoesFields
  <2>3. ClientsTypeOK' /\ (failed => failed') /\ UNCHANGED <<inbound, client, online, overlapped, disturbed>>
    BY <1>1, <1>2, <1>6, <2>2, CallsKeepTypes, OnNodeTyped DEF Expel
  <2>4. ASSUME Calm, Calm', Settled(request[r])
        PROVE  Settled(request[r])'
    <3>1. Sane
      BY <1>4, <2>4
    <3>2. xnode' = xnode /\ ~served[Of[c]].there
      BY <1>1, <1>2, <1>6, <2>4, <3>1, RemoveFails DEF Calm
    <3>3. Fits(request[r])'
      BY <1>2, <2>2, <3>2 DEF Fits, Unserved, xnode
    <3> QED
      BY <1>4, <2>3, <2>4, <3>2, <3>3, NothingButFor DEF Settled
  <2>5. Allowed(request[r], "banned", request[r].d)
    BY <1>1, <1>2, <1>3 DEF Allowed, OfClient, OfListed, OfInbound, OfOld, UploadSteps
  <2> QED
    BY <1>1, <1>3, <2>1, <2>3, <2>4, <2>5, XProceed DEF Proceeds, Steps, ReconcileSteps
<1> QED
  BY <1>2, <1>5, <1>6 DEF Expel, RemoveAnyhow

LEMMA BannedStep ==
    ASSUME ClientsIInv, NEW r \in XRequests, Banned(r)
    PROVE  ClientsIInv'
<1>1. ClientsTypeOK /\ WorksAreFormed /\ request[r].at = "banned"
  BY DEF ClientsIInv, Banned, At
<1>2. PICK c \in XClients : c = request[r].d /\ Of[c] \in XInbounds
  BY <1>1, ListedOfWork DEF OfListed
<1>3. /\ request[r].at # "idle" /\ request[r].at \notin UploadSteps
      /\ request[r] \in Works /\ request[r] # NoWork
  BY <1>1, BusyWork DEF UploadSteps
<1>4. ASSUME Settled(request[r])
      PROVE  /\ Sane /\ Fits(request[r])
             /\ \A j \in XInbounds : SameInbound(j)
             /\ \A d \in XClients \ {c} : SameClient(d)
  BY <1>1, <1>2, <1>3, <1>4 DEF Settled, Moving, Touching
<1>5. /\ client' \in [XClients -> ClientRows \cup {NoClient, Erased}]
      /\ \A d \in XClients \ {c} : client'[d] = client[d]
      /\ client'[c].there = client[c].there
      /\ client[c].there => ~client'[c].enable
  BY <1>1, <1>2, SetEnableIs DEF Banned
<1>6. OnRows /\ UNCHANGED inbound /\ forbidden' \subseteq XClients
  BY <1>1, <1>2 DEF Banned, ClientsTypeOK
<1>7. ASSUME Then(r, "ban")
      PROVE  ClientsIInv'
  <2>1. Goes(r, "ban", request[r].d, request[r].want, request[r].todo, request[r].tags)
    BY <1>1, <1>3, <1>7, ThenGoes DEF Banned, Steps, UploadSteps, ReconcileSteps
  <2>2. /\ request' \in [XRequests -> Works \cup {NoWork}]
        /\ request'[r].at = "ban" /\ request'[r].c = request[r].c /\ request'[r].i = request[r].i
        /\ request'[r].d = request[r].d /\ request'[r].todo = request[r].todo /\ request'[r].tags = request[r].tags
        /\ request'[r].status = request[r].status /\ request'[r].old = request[r].old
    BY <2>1, GoesFields
  <2>3. /\ ClientsTypeOK' /\ (failed => failed')
        /\ UNCHANGED <<inbound, online, xnode, failed, overlapped, disturbed>>
    BY <1>1, <1>5, <1>6, <2>2, OnRowsTyped, TypedNode DEF ClientsTypeOK
  <2>4. ASSUME Calm, Calm', Settled(request[r])
        PROVE  Settled(request[r])'
    <3>1. ButFor(c)
      BY <1>1, <1>4, <1>5, <2>3, <2>4, RowButFor DEF xnode
    <3>2. SameClient(c)'
      BY <1>1, <1>2, <1>4, <1>5, <2>3, <2>4 DEF Fits, Unserved, SameClient, On, xnode
    <3>3. Fits(request[r])'
      BY <2>2 DEF Fits
    <3> QED
      BY <1>4, <2>4, <3>1, <3>2, <3>3 DEF Settled, ButFor
  <2>5. Allowed(request[r], "ban", request[r].d)
    BY <1>1, <1>2, <1>3 DEF Allowed, OfClient, OfListed, OfInbound, OfOld, UploadSteps
  <2> QED
    BY <1>1, <1>3, <2>1, <2>3, <2>4, <2>5, XProceed DEF Proceeds, Steps, ReconcileSteps
<1> QED
  BY <1>7 DEF Banned
-----------------------------------------------------------------------------
(* Steps of a request for an inbound.                                        *)

ButForInbound(i) ==
    /\ Sane'
    /\ \A j \in XInbounds \ {i} : SameInbound(j) => SameInbound(j)'
    /\ \A d \in XClients : Of[d] # i => (SameClient(d) => SameClient(d)')

LEMMA AddInboundDone ==
    ASSUME ClientsTypeOK, Sane, NEW i \in XInbounds, NEW s \in SUBSET XClients,
           \A c \in s : Of[c] = i, AddInboundOk(i, s), UNCHANGED <<inbound, client, online>>
    PROVE  /\ ButForInbound(i) /\ served'[i].there /\ served'[i].clients = s
           /\ ~served[i].there
<1>1. /\ served' = [served EXCEPT ![i] = Serving(s)] /\ up' = TRUE /\ ~Serves(i)
  BY DEF AddInboundOk, Succeeds, AddsInbound
<1>2. Serving(s).there /\ Serving(s).clients = s
  BY ServingIs
<1>3. /\ served'[i].there /\ served'[i].clients = s
      /\ \A j \in XInbounds \ {i} : served'[j] = served[j]
  BY <1>1, <1>2, TypedNode DEF NodeTyped
<1>4. Sane'
  BY <1>1, <1>3 DEF Sane
<1>5. \A d \in XClients : Of[d] \in XInbounds
  BY ClientsAssumption
<1>6. ~served[i].there
  BY <1>1 DEF Serves, Sane
<1> QED
  BY <1>3, <1>4, <1>5, <1>6 DEF ButForInbound, SameInbound, SameClient, On

LEMMA RemoveInboundDone ==
    ASSUME ClientsTypeOK, Sane, NEW i \in XInbounds, RemoveInboundOk(i),
           UNCHANGED <<inbound, client, online>>
    PROVE  ButForInbound(i) /\ ~served'[i].there /\ served[i].there
<1>1. served' = [served EXCEPT ![i] = Unlisted] /\ up' = up /\ Serves(i)
  BY DEF RemoveInboundOk, Succeeds, RemovesInbound
<1>2. /\ ~served'[i].there
      /\ \A j \in XInbounds \ {i} : served'[j] = served[j]
  BY <1>1, TypedNode DEF NodeTyped, Unlisted
<1>3. Sane'
  BY <1>1, <1>2 DEF Sane
<1>4. \A d \in XClients : Of[d] \in XInbounds
  BY ClientsAssumption
<1> QED
  BY <1>1, <1>2, <1>3, <1>4 DEF ButForInbound, SameInbound, SameClient, On, Serves

LEMMA InboundFails ==
    ASSUME Sane, ~failed', NEW i \in XInbounds, NEW s
    PROVE  /\ ~AddInboundFails(i, s, TRUE)
           /\ RemoveInboundFails(i) => UNCHANGED xnode /\ ~served[i].there
<1>1. ~AddInboundFails(i, s, TRUE)
  BY DEF AddInboundFails, Fails
<1>2. RemoveInboundFails(i) => UNCHANGED xnode /\ ~Serves(i)
  BY DEF RemoveInboundFails, Fails, Sane
<1> QED
  BY <1>1, <1>2 DEF Serves, Sane

LEMMA InboundRowButFor ==
    ASSUME Sane, NEW i, UNCHANGED <<client, online, xnode>>, inbound'[i] # "error",
           \A j \in XInbounds \ {i} : inbound'[j] = inbound[j]
    PROVE  ButForInbound(i) /\ \A d \in XClients : SameClient(d) => SameClient(d)'
BY DEF ButForInbound, Sane, SameInbound, SameClient, On, xnode

LEMMA OpenStep ==
    ASSUME ClientsIInv, NEW r \in XRequests, Open(r)
    PROVE  ClientsIInv'
<1>1. ClientsTypeOK /\ WorksAreFormed /\ request[r].at = "open"
  BY DEF ClientsIInv, Open, At
<1>2. PICK i \in XInbounds : i = request[r].i
  BY <1>1, InboundOfWork DEF OfInbound
<1>3. /\ request[r].at # "idle" /\ request[r].at \notin UploadSteps
      /\ request[r] \in Works /\ request[r] # NoWork
  BY <1>1, BusyWork DEF UploadSteps
<1>4. ASSUME Settled(request[r])
      PROVE  /\ Sane /\ Fits(request[r])
             /\ \A j \in XInbounds \ {i} : SameInbound(j)
             /\ \A d \in XClients : SameClient(d)
  BY <1>1, <1>2, <1>3, <1>4 DEF Settled, Moving, Touching
<1>5. ASSUME AddInboundOk(i, request[r].todo), Ends(r), OnNode
      PROVE  ClientsIInv'
  <2>1. Ends(r)
    BY <1>5
  <2>2. request' \in [XRequests -> Works \cup {NoWork}] /\ request'[r] = NoWork
    BY <1>1, <2>1, EndsGoes
  <2>3. ClientsTypeOK' /\ (failed => failed') /\ UNCHANGED <<inbound, client, online, overlapped, disturbed>>
    <3>1. request[r].todo \in SUBSET XClients
      BY <1>3, WorkFields
    <3>2. NodeTyped' /\ (failed => failed')
      BY <1>1, <1>2, <1>5, <3>1, InboundCallsKeepTypes
    <3> QED
      BY <1>1, <1>5, <2>2, <3>2, OnNodeTyped
  <2>4. ASSUME Calm, Calm', Settled(request[r])
        PROVE  InAgreement'
    <3>1. Sane /\ inbound[i] = "on" /\ request[r].todo = Enabled(i)
      BY <1>1, <1>2, <1>4, <2>4 DEF Fits
    <3>2. \A c \in request[r].todo : Of[c] = i
      BY <3>1 DEF Enabled
    <3>3. request[r].todo \in SUBSET XClients
      BY <1>3, WorkFields
    <3>4. ButForInbound(i) /\ served'[i].there /\ served'[i].clients = request[r].todo
      BY <1>1, <1>5, <2>3, <3>1, <3>2, <3>3, AddInboundDone
    <3>5. SameInbound(i)'
      BY <2>3, <3>1, <3>4 DEF SameInbound
    <3>6. \A d \in XClients : Of[d] = i => SameClient(d)'
      BY <2>3, <3>1, <3>4 DEF SameClient, Enabled, On
    <3> QED
      BY <1>4, <2>4, <3>4, <3>5, <3>6 DEF InAgreement, ButForInbound
  <2> QED
    BY <1>1, <1>3, <2>1, <2>3, <2>4, Finish DEF Finishes
<1>6. ASSUME AddInboundFails(i, request[r].todo, TRUE), Then(r, "revert"), OnNode
      PROVE  ClientsIInv'
  <2>1. Goes(r, "revert", request[r].d, request[r].want, request[r].todo, request[r].tags)
    BY <1>1, <1>3, <1>6, ThenGoes DEF Open, Steps, UploadSteps, ReconcileSteps
  <2>2. /\ request' \in [XRequests -> Works \cup {NoWork}]
        /\ request'[r].at = "revert" /\ request'[r].c = request[r].c /\ request'[r].i = request[r].i
        /\ request'[r].d = request[r].d /\ request'[r].todo = request[r].todo /\ request'[r].tags = request[r].tags
        /\ request'[r].status = request[r].status /\ request'[r].old = request[r].old
    BY <2>1, GoesFields
  <2>3. ClientsTypeOK' /\ (failed => failed') /\ UNCHANGED <<inbound, client, online, overlapped, disturbed>>
    <3>1. request[r].todo \in SUBSET XClients
      BY <1>3, WorkFields
    <3>2. NodeTyped' /\ (failed => failed')
      BY <1>1, <1>2, <1>6, <3>1, InboundCallsKeepTypes
    <3> QED
      BY <1>1, <1>6, <2>2, <3>2, OnNodeTyped
  <2>4. ASSUME Calm, Calm', Settled(request[r])
        PROVE  Settled(request[r])'
    BY <1>4, <1>6, <2>4, InboundFails DEF Calm
  <2>5. Allowed(request[r], "revert", request[r].d)
    BY <1>1, <1>2, <1>3 DEF Allowed, OfClient, OfListed, OfInbound, OfOld, UploadSteps
  <2> QED
    BY <1>1, <1>3, <2>1, <2>3, <2>4, <2>5, XProceed DEF Proceeds, Steps, ReconcileSteps
<1> QED
  BY <1>2, <1>5, <1>6 DEF Open

LEMMA RevertStep ==
    ASSUME ClientsIInv, NEW r \in XRequests, Revert(r)
    PROVE  ClientsIInv'
<1>1. ClientsTypeOK /\ WorksAreFormed /\ request[r].at = "revert"
  BY DEF ClientsIInv, Revert, At
<1>2. PICK i \in XInbounds : i = request[r].i
  BY <1>1, InboundOfWork DEF OfInbound
<1>3. /\ request[r].at # "idle" /\ request[r].at \notin UploadSteps
      /\ request[r] \in Works /\ request[r] # NoWork
  BY <1>1, BusyWork DEF UploadSteps
<1>4. ASSUME Settled(request[r])
      PROVE  /\ Sane /\ Fits(request[r])
             /\ \A j \in XInbounds : SameInbound(j)
             /\ \A d \in XClients : SameClient(d)
  BY <1>1, <1>2, <1>3, <1>4 DEF Settled, Moving, Touching
<1>5. inbound' \in [XInbounds -> Statuses] /\ \A j \in XInbounds \ {i} : inbound'[j] = inbound[j]
  BY <1>1, <1>2, <1>3, WorkFields, TypedNode DEF Revert, SetStatus, Statuses
<1>6. OnRows /\ UNCHANGED <<client, forbidden>>
  BY DEF Revert
<1>7. ASSUME Ends(r)
      PROVE  ClientsIInv'
  <2>1. Ends(r)
    BY <1>7
  <2>2. request' \in [XRequests -> Works \cup {NoWork}] /\ request'[r] = NoWork
    BY <1>1, <2>1, EndsGoes
  <2>3. /\ ClientsTypeOK' /\ (failed => failed')
        /\ UNCHANGED <<client, online, xnode, failed, overlapped, disturbed>>
    BY <1>1, <1>5, <1>6, <2>2, OnRowsTyped, TypedNode DEF ClientsTypeOK
  <2>4. ASSUME Calm, Calm', Settled(request[r])
        PROVE  InAgreement'
    BY <1>1, <1>4, <2>4 DEF Fits
  <2> QED
    BY <1>1, <1>3, <2>1, <2>3, <2>4, Finish DEF Finishes
<1> QED
  BY <1>7 DEF Revert

LEMMA ClosingStep ==
    ASSUME ClientsIInv, NEW r \in XRequests, Closing(r)
    PROVE  ClientsIInv'
<1>1. ClientsTypeOK /\ WorksAreFormed /\ request[r].at = "closing"
  BY DEF ClientsIInv, Closing, At
<1>2. PICK i \in XInbounds : i = request[r].i
  BY <1>1, InboundOfWork DEF OfInbound
<1>3. /\ request[r].at # "idle" /\ request[r].at \notin UploadSteps
      /\ request[r] \in Works /\ request[r] # NoWork
  BY <1>1, BusyWork DEF UploadSteps
<1>4. ASSUME Settled(request[r])
      PROVE  /\ Sane /\ Fits(request[r])
             /\ \A j \in XInbounds : SameInbound(j)
             /\ \A d \in XClients : SameClient(d)
  BY <1>1, <1>2, <1>3, <1>4 DEF Settled, Moving, Touching
<1>5. ASSUME RemoveInboundOk(i), Then(r, "off"), OnNode
      PROVE  ClientsIInv'
  <2>1. Goes(r, "off", request[r].d, request[r].want, request[r].todo, request[r].tags)
    BY <1>1, <1>3, <1>5, ThenGoes DEF Closing, Steps, UploadSteps, ReconcileSteps
  <2>2. /\ request' \in [XRequests -> Works \cup {NoWork}]
        /\ request'[r].at = "off" /\ request'[r].c = request[r].c /\ request'[r].i = request[r].i
        /\ request'[r].d = request[r].d /\ request'[r].todo = request[r].todo /\ request'[r].tags = request[r].tags
        /\ request'[r].status = request[r].status /\ request'[r].old = request[r].old
    BY <2>1, GoesFields
  <2>3. ClientsTypeOK' /\ (failed => failed') /\ UNCHANGED <<inbound, client, online, overlapped, disturbed>>
    <3>1. request[r].todo \in SUBSET XClients
      BY <1>3, WorkFields
    <3>2. NodeTyped' /\ (failed => failed')
      BY <1>1, <1>2, <1>5, <3>1, InboundCallsKeepTypes
    <3> QED
      BY <1>1, <1>5, <2>2, <3>2, OnNodeTyped
  <2>4. ASSUME Calm, Calm', Settled(request[r])
        PROVE  Settled(request[r])'
    <3>1. Sane
      BY <1>4, <2>4
    <3>2. ButForInbound(i) /\ ~served'[i].there
      BY <1>1, <1>5, <2>3, <3>1, RemoveInboundDone
    <3>3. Fits(request[r])'
      BY <1>2, <2>2, <3>2 DEF Fits
    <3>4. \A j \in XInbounds : ~Moving(request[r], j)' => j # i
      BY <1>2, <2>2 DEF Moving
    <3>5. \A d \in XClients : Of[d] = i => SameClient(d)'
      BY <3>2 DEF SameClient
    <3> QED
      BY <1>4, <2>4, <3>2, <3>3, <3>4, <3>5 DEF Settled, ButForInbound
  <2>5. Allowed(request[r], "off", request[r].d)
    BY <1>1, <1>2, <1>3 DEF Allowed, OfClient, OfListed, OfInbound, OfOld, UploadSteps
  <2> QED
    BY <1>1, <1>3, <2>1, <2>3, <2>4, <2>5, XProceed DEF Proceeds, Steps, ReconcileSteps
<1>6. ASSUME RemoveInboundFails(i), Ends(r), OnNode
      PROVE  ClientsIInv'
  <2>1. Ends(r)
    BY <1>6
  <2>2. request' \in [XRequests -> Works \cup {NoWork}] /\ request'[r] = NoWork
    BY <1>1, <2>1, EndsGoes
  <2>3. ClientsTypeOK' /\ (failed => failed') /\ UNCHANGED <<inbound, client, online, overlapped, disturbed>>
    <3>1. request[r].todo \in SUBSET XClients
      BY <1>3, WorkFields
    <3>2. NodeTyped' /\ (failed => failed')
      BY <1>1, <1>2, <1>6, <3>1, InboundCallsKeepTypes
    <3> QED
      BY <1>1, <1>6, <2>2, <3>2, OnNodeTyped
  <2>4. ASSUME Calm, Calm', Settled(request[r])
        PROVE  InAgreement'
    <3>1. xnode' = xnode
      BY <1>4, <1>6, <2>4, InboundFails DEF Calm
    <3> QED
      BY <1>4, <2>3, <2>4, <3>1, NothingButFor DEF InAgreement
  <2> QED
    BY <1>1, <1>3, <2>1, <2>3, <2>4, Finish DEF Finishes
<1> QED
  BY <1>2, <1>5, <1>6 DEF Closing

LEMMA CloseStep ==
    ASSUME ClientsIInv, NEW r \in XRequests, Close(r)
    PROVE  ClientsIInv'
<1>1. ClientsTypeOK /\ WorksAreFormed /\ request[r].at = "close"
  BY DEF ClientsIInv, Close, At
<1>2. PICK i \in XInbounds : i = request[r].i
  BY <1>1, InboundOfWork DEF OfInbound
<1>3. /\ request[r].at # "idle" /\ request[r].at \notin UploadSteps
      /\ request[r] \in Works /\ request[r] # NoWork
  BY <1>1, BusyWork DEF UploadSteps
<1>4. ASSUME Settled(request[r])
      PROVE  /\ Sane /\ Fits(request[r])
             /\ \A j \in XInbounds : SameInbound(j)
             /\ \A d \in XClients : SameClient(d)
  BY <1>1, <1>2, <1>3, <1>4 DEF Settled, Moving, Touching
<1>5. ASSUME RemoveInboundOk(i), Then(r, "purge"), OnNode
      PROVE  ClientsIInv'
  <2>1. Goes(r, "purge", request[r].d, request[r].want, request[r].todo, request[r].tags)
    BY <1>1, <1>3, <1>5, ThenGoes DEF Close, Steps, UploadSteps, ReconcileSteps
  <2>2. /\ request' \in [XRequests -> Works \cup {NoWork}]
        /\ request'[r].at = "purge" /\ request'[r].c = request[r].c /\ request'[r].i = request[r].i
        /\ request'[r].d = request[r].d /\ request'[r].todo = request[r].todo /\ request'[r].tags = request[r].tags
        /\ request'[r].status = request[r].status /\ request'[r].old = request[r].old
    BY <2>1, GoesFields
  <2>3. ClientsTypeOK' /\ (failed => failed') /\ UNCHANGED <<inbound, client, online, overlapped, disturbed>>
    <3>1. request[r].todo \in SUBSET XClients
      BY <1>3, WorkFields
    <3>2. NodeTyped' /\ (failed => failed')
      BY <1>1, <1>2, <1>5, <3>1, InboundCallsKeepTypes
    <3> QED
      BY <1>1, <1>5, <2>2, <3>2, OnNodeTyped
  <2>4. ASSUME Calm, Calm', Settled(request[r])
        PROVE  Settled(request[r])'
    <3>1. Sane
      BY <1>4, <2>4
    <3>2. ButForInbound(i) /\ ~served'[i].there
      BY <1>1, <1>5, <2>3, <3>1, RemoveInboundDone
    <3>3. Fits(request[r])'
      BY <1>2, <2>2, <3>2 DEF Fits
    <3>4. \A j \in XInbounds : ~Moving(request[r], j)' => j # i
      BY <1>2, <2>2 DEF Moving
    <3>5. \A d \in XClients : Of[d] = i => SameClient(d)'
      BY <3>2 DEF SameClient
    <3> QED
      BY <1>4, <2>4, <3>2, <3>3, <3>4, <3>5 DEF Settled, ButForInbound
  <2>5. Allowed(request[r], "purge", request[r].d)
    BY <1>1, <1>2, <1>3 DEF Allowed, OfClient, OfListed, OfInbound, OfOld, UploadSteps
  <2> QED
    BY <1>1, <1>3, <2>1, <2>3, <2>4, <2>5, XProceed DEF Proceeds, Steps, ReconcileSteps
<1>6. ASSUME RemoveInboundFails(i), Ends(r), OnNode
      PROVE  ClientsIInv'
  <2>1. Ends(r)
    BY <1>6
  <2>2. request' \in [XRequests -> Works \cup {NoWork}] /\ request'[r] = NoWork
    BY <1>1, <2>1, EndsGoes
  <2>3. ClientsTypeOK' /\ (failed => failed') /\ UNCHANGED <<inbound, client, online, overlapped, disturbed>>
    <3>1. request[r].todo \in SUBSET XClients
      BY <1>3, WorkFields
    <3>2. NodeTyped' /\ (failed => failed')
      BY <1>1, <1>2, <1>6, <3>1, InboundCallsKeepTypes
    <3> QED
      BY <1>1, <1>6, <2>2, <3>2, OnNodeTyped
  <2>4. ASSUME Calm, Calm', Settled(request[r])
        PROVE  InAgreement'
    <3>1. xnode' = xnode
      BY <1>4, <1>6, <2>4, InboundFails DEF Calm
    <3> QED
      BY <1>4, <2>3, <2>4, <3>1, NothingButFor DEF InAgreement
  <2> QED
    BY <1>1, <1>3, <2>1, <2>3, <2>4, Finish DEF Finishes
<1> QED
  BY <1>2, <1>5, <1>6 DEF Close

LEMMA SwitchOffStep ==
    ASSUME ClientsIInv, NEW r \in XRequests, SwitchOff(r)
    PROVE  ClientsIInv'
<1>1. ClientsTypeOK /\ WorksAreFormed /\ request[r].at = "off"
  BY DEF ClientsIInv, SwitchOff, At
<1>2. PICK i \in XInbounds : i = request[r].i
  BY <1>1, InboundOfWork DEF OfInbound
<1>3. /\ request[r].at # "idle" /\ request[r].at \notin UploadSteps
      /\ request[r] \in Works /\ request[r] # NoWork
  BY <1>1, BusyWork DEF UploadSteps
<1>4. ASSUME Settled(request[r])
      PROVE  /\ Sane /\ Fits(request[r])
             /\ \A j \in XInbounds \ {i} : SameInbound(j)
             /\ \A d \in XClients : SameClient(d)
  BY <1>1, <1>2, <1>3, <1>4 DEF Settled, Moving, Touching
<1>5. inbound' \in [XInbounds -> Statuses] /\ \A j \in XInbounds \ {i} : inbound'[j] = inbound[j]
  BY <1>1, <1>2, <1>3, WorkFields, TypedNode DEF SwitchOff, SetStatus, Statuses
<1>6. OnRows /\ UNCHANGED <<client, forbidden>>
  BY DEF SwitchOff
<1>7. ASSUME Then(r, "count")
      PROVE  ClientsIInv'
  <2>1. Goes(r, "count", request[r].d, request[r].want, request[r].todo, request[r].tags)
    BY <1>1, <1>3, <1>7, ThenGoes DEF SwitchOff, Steps, UploadSteps, ReconcileSteps
  <2>2. /\ request' \in [XRequests -> Works \cup {NoWork}]
        /\ request'[r].at = "count" /\ request'[r].c = request[r].c /\ request'[r].i = request[r].i
        /\ request'[r].d = request[r].d /\ request'[r].todo = request[r].todo /\ request'[r].tags = request[r].tags
        /\ request'[r].status = request[r].status /\ request'[r].old = request[r].old
    BY <2>1, GoesFields
  <2>3. /\ ClientsTypeOK' /\ (failed => failed')
        /\ UNCHANGED <<client, online, xnode, failed, overlapped, disturbed>>
    BY <1>1, <1>5, <1>6, <2>2, OnRowsTyped, TypedNode DEF ClientsTypeOK
  <2>4. ASSUME Calm, Calm', Settled(request[r])
        PROVE  Settled(request[r])'
    <3>1. inbound'[i] \notin {"on", "error"}
      BY <1>1, <1>2, TypedNode DEF SwitchOff, SetStatus, Listed
    <3>2. ButForInbound(i) /\ \A d \in XClients : SameClient(d) => SameClient(d)'
      BY <1>4, <1>5, <2>3, <2>4, <3>1, InboundRowButFor
    <3>3. SameInbound(i)'
      BY <1>1, <1>2, <1>4, <2>3, <2>4, <3>1 DEF Fits, SameInbound, xnode
    <3>4. Fits(request[r])'
      BY <2>2 DEF Fits
    <3> QED
      BY <1>4, <2>4, <3>2, <3>3, <3>4 DEF Settled, ButForInbound
  <2>5. Allowed(request[r], "count", request[r].d)
    BY <1>1, <1>2, <1>3 DEF Allowed, OfClient, OfListed, OfInbound, OfOld, UploadSteps
  <2> QED
    BY <1>1, <1>3, <2>1, <2>3, <2>4, <2>5, XProceed DEF Proceeds, Steps, ReconcileSteps
<1> QED
  BY <1>7 DEF SwitchOff

LEMMA RemoveInboundRowStep ==
    ASSUME ClientsIInv, NEW r \in XRequests, RemoveInboundRow(r)
    PROVE  ClientsIInv'
<1>1. ClientsTypeOK /\ WorksAreFormed /\ request[r].at = "removed"
  BY DEF ClientsIInv, RemoveInboundRow, At
<1>2. PICK i \in XInbounds : i = request[r].i
  BY <1>1, InboundOfWork DEF OfInbound
<1>3. /\ request[r].at # "idle" /\ request[r].at \notin UploadSteps
      /\ request[r] \in Works /\ request[r] # NoWork
  BY <1>1, BusyWork DEF UploadSteps
<1>4. ASSUME Settled(request[r])
      PROVE  /\ Sane /\ Fits(request[r])
             /\ \A j \in XInbounds \ {i} : SameInbound(j)
             /\ \A d \in XClients : SameClient(d)
  BY <1>1, <1>2, <1>3, <1>4 DEF Settled, Moving, Touching
<1>5. /\ inbound' \in [XInbounds -> Statuses] /\ inbound'[i] = "gone"
      /\ \A j \in XInbounds \ {i} : inbound'[j] = inbound[j]
  BY <1>1, <1>2, TypedNode DEF RemoveInboundRow, Statuses
<1>6. OnRows /\ UNCHANGED <<client, forbidden>>
  BY DEF RemoveInboundRow
<1>7. ASSUME Then(r, "count")
      PROVE  ClientsIInv'
  <2>1. Goes(r, "count", request[r].d, request[r].want, request[r].todo, request[r].tags)
    BY <1>1, <1>3, <1>7, ThenGoes DEF RemoveInboundRow, Steps, UploadSteps, ReconcileSteps
  <2>2. /\ request' \in [XRequests -> Works \cup {NoWork}]
        /\ request'[r].at = "count" /\ request'[r].c = request[r].c /\ request'[r].i = request[r].i
        /\ request'[r].d = request[r].d /\ request'[r].todo = request[r].todo /\ request'[r].tags = request[r].tags
        /\ request'[r].status = request[r].status /\ request'[r].old = request[r].old
    BY <2>1, GoesFields
  <2>3. /\ ClientsTypeOK' /\ (failed => failed')
        /\ UNCHANGED <<client, online, xnode, failed, overlapped, disturbed>>
    BY <1>1, <1>5, <1>6, <2>2, OnRowsTyped, TypedNode DEF ClientsTypeOK
  <2>4. ASSUME Calm, Calm', Settled(request[r])
        PROVE  Settled(request[r])'
    <3>1. ButForInbound(i) /\ \A d \in XClients : SameClient(d) => SameClient(d)'
      BY <1>4, <1>5, <2>3, <2>4, InboundRowButFor
    <3>2. SameInbound(i)'
      BY <1>1, <1>2, <1>4, <1>5, <2>3, <2>4 DEF Fits, SameInbound, xnode
    <3>3. Fits(request[r])'
      BY <2>2 DEF Fits
    <3> QED
      BY <1>4, <2>4, <3>1, <3>2, <3>3 DEF Settled, ButForInbound
  <2>5. Allowed(request[r], "count", request[r].d)
    BY <1>1, <1>2, <1>3 DEF Allowed, OfClient, OfListed, OfInbound, OfOld, UploadSteps
  <2> QED
    BY <1>1, <1>3, <2>1, <2>3, <2>4, <2>5, XProceed DEF Proceeds, Steps, ReconcileSteps
<1> QED
  BY <1>7 DEF RemoveInboundRow

LEMMA CountInboundsStep ==
    ASSUME ClientsIInv, NEW r \in XRequests, CountInbounds(r)
    PROVE  ClientsIInv'
<1>1. ClientsTypeOK /\ WorksAreFormed /\ request[r].at = "count"
  BY DEF ClientsIInv, CountInbounds, At
<1>2. request[r].at # "idle"
  BY <1>1
<1>3. /\ request[r].at # "idle" /\ request[r].at \notin UploadSteps
      /\ request[r] \in Works /\ request[r] # NoWork
  BY <1>1, BusyWork DEF UploadSteps
<1>4. ASSUME Settled(request[r])
      PROVE  /\ Sane /\ Fits(request[r])
             /\ \A j \in XInbounds : SameInbound(j)
             /\ \A d \in XClients : SameClient(d)
  BY <1>1, <1>2, <1>3, <1>4 DEF Settled, Moving, Touching
<1>5. ASSUME Ends(r)
      PROVE  ClientsIInv'
  <2>1. Ends(r)
    BY <1>5
  <2>2. request' \in [XRequests -> Works \cup {NoWork}] /\ request'[r] = NoWork
    BY <1>1, <2>1, EndsGoes
  <2>3. /\ ClientsTypeOK' /\ (failed => failed')
        /\ UNCHANGED <<inbound, client, online, xnode, failed, overlapped, disturbed>>
    BY <1>1, <2>2, OnRowsTyped, TypedNode DEF CountInbounds, ClientsTypeOK, OnNothing
  <2>4. ASSUME Calm, Calm', Settled(request[r])
        PROVE  InAgreement'
    BY <1>4, <2>3, <2>4, NothingButFor DEF InAgreement
  <2> QED
    BY <1>1, <1>3, <2>1, <2>3, <2>4, Finish DEF Finishes
<1>6. ASSUME \A i \in XInbounds : inbound[i] # "on", Then(r, "stop")
      PROVE  ClientsIInv'
  <2>1. Goes(r, "stop", request[r].d, request[r].want, request[r].todo, request[r].tags)
    BY <1>1, <1>3, <1>6, ThenGoes DEF CountInbounds, Steps, UploadSteps, ReconcileSteps
  <2>2. /\ request' \in [XRequests -> Works \cup {NoWork}]
        /\ request'[r].at = "stop" /\ request'[r].c = request[r].c /\ request'[r].i = request[r].i
        /\ request'[r].d = request[r].d /\ request'[r].todo = request[r].todo /\ request'[r].tags = request[r].tags
        /\ request'[r].status = request[r].status /\ request'[r].old = request[r].old
    BY <2>1, GoesFields
  <2>3. /\ ClientsTypeOK' /\ (failed => failed')
        /\ UNCHANGED <<inbound, client, online, xnode, failed, overlapped, disturbed>>
    BY <1>1, <2>2, OnRowsTyped, TypedNode DEF CountInbounds, ClientsTypeOK, OnNothing
  <2>4. ASSUME Calm, Calm', Settled(request[r])
        PROVE  Settled(request[r])'
    <3>1. Fits(request[r])'
      BY <1>6, <2>2, <2>3 DEF Fits
    <3> QED
      BY <1>4, <2>3, <2>4, <3>1, NothingButFor DEF Settled
  <2>5. Allowed(request[r], "stop", request[r].d)
    BY <1>1, <1>2, <1>3 DEF Allowed, OfClient, OfListed, OfInbound, OfOld, UploadSteps
  <2> QED
    BY <1>1, <1>3, <2>1, <2>3, <2>4, <2>5, XProceed DEF Proceeds, Steps, ReconcileSteps
<1> QED
  BY <1>5, <1>6 DEF CountInbounds

LEMMA StopKeepsTypes ==
    ASSUME ClientsTypeOK, StopAnyhow
    PROVE  NodeTyped' /\ (failed => failed') /\ served' = served
<1>1. NodeTyped
  BY TypedNode
<1>2. failed' \in BOOLEAN /\ (failed => failed')
  BY DEF StopAnyhow, Succeeds, Fails, ClientsTypeOK
<1>3. served' = served /\ (up' = up \/ up' = FALSE)
  BY DEF StopAnyhow, Succeeds, Fails, Stops, xnode
<1> QED
  BY <1>1, <1>2, <1>3 DEF NodeTyped

\* Nothing is served when Xray is stopped.
LEMMA StopKeepsAgreement ==
    ASSUME ClientsTypeOK, InAgreement, StopAnyhow, ~failed', UNCHANGED <<inbound, client, online>>,
           \A i \in XInbounds : inbound[i] # "on"
    PROVE  InAgreement'
<1>1. served' = served
  BY StopKeepsTypes
<1>2. \A i \in XInbounds : ~served[i].there
  BY DEF InAgreement, SameInbound
<1> QED
  BY <1>1, <1>2, ClientsAssumption DEF InAgreement, Sane, SameInbound, SameClient

LEMMA StopXrayStep ==
    ASSUME ClientsIInv, NEW r \in XRequests, StopXray(r)
    PROVE  ClientsIInv'
<1>1. ClientsTypeOK /\ WorksAreFormed /\ request[r].at = "stop"
  BY DEF ClientsIInv, StopXray, At
<1>2. request[r].at # "idle"
  BY <1>1
<1>3. /\ request[r].at # "idle" /\ request[r].at \notin UploadSteps
      /\ request[r] \in Works /\ request[r] # NoWork
  BY <1>1, BusyWork DEF UploadSteps
<1>4. ASSUME Settled(request[r])
      PROVE  /\ Sane /\ Fits(request[r])
             /\ \A j \in XInbounds : SameInbound(j)
             /\ \A d \in XClients : SameClient(d)
  BY <1>1, <1>2, <1>3, <1>4 DEF Settled, Moving, Touching
<1>5. ASSUME Ends(r), StopAnyhow, OnNode
      PROVE  ClientsIInv'
  <2>1. Ends(r)
    BY <1>5
  <2>2. request' \in [XRequests -> Works \cup {NoWork}] /\ request'[r] = NoWork
    BY <1>1, <2>1, EndsGoes
  <2>3. ClientsTypeOK' /\ (failed => failed') /\ UNCHANGED <<inbound, client, online, overlapped, disturbed>>
    BY <1>1, <1>5, <2>2, StopKeepsTypes, OnNodeTyped
  <2>4. ASSUME Calm, Calm', Settled(request[r])
        PROVE  InAgreement'
    <3>1. InAgreement /\ \A i \in XInbounds : inbound[i] # "on"
      BY <1>1, <1>4, <2>4 DEF InAgreement, Fits
    <3> QED
      BY <1>1, <1>5, <2>3, <2>4, <3>1, StopKeepsAgreement DEF Calm
  <2> QED
    BY <1>1, <1>3, <2>1, <2>3, <2>4, Finish DEF Finishes
<1> QED
  BY <1>5 DEF StopXray

LEMMA PurgeStep ==
    ASSUME ClientsIInv, NEW r \in XRequests, Purge(r)
    PROVE  ClientsIInv'
<1>1. ClientsTypeOK /\ WorksAreFormed /\ request[r].at = "purge"
  BY DEF ClientsIInv, Purge, At
<1>2. PICK i \in XInbounds : i = request[r].i
  BY <1>1, InboundOfWork DEF OfInbound
<1>3. /\ request[r].at # "idle" /\ request[r].at \notin UploadSteps
      /\ request[r] \in Works /\ request[r] # NoWork
  BY <1>1, BusyWork DEF UploadSteps
<1>4. ASSUME Settled(request[r])
      PROVE  /\ Sane /\ Fits(request[r])
             /\ \A j \in XInbounds \ {i} : SameInbound(j)
             /\ \A d \in XClients : SameClient(d)
  BY <1>1, <1>2, <1>3, <1>4 DEF Settled, Moving, Touching
<1>5. /\ client' \in [XClients -> ClientRows \cup {NoClient, Erased}]
      /\ \A c \in XClients : Of[c] # i => client'[c] = client[c]
  BY <1>1, <1>2, TypedNode DEF Purge
<1>6. OnRows /\ UNCHANGED inbound /\ forbidden' \subseteq XClients
  BY <1>1 DEF Purge, ClientsTypeOK
<1>7. ASSUME Then(r, "removed")
      PROVE  ClientsIInv'
  <2>1. Goes(r, "removed", request[r].d, request[r].want, request[r].todo, request[r].tags)
    BY <1>1, <1>3, <1>7, ThenGoes DEF Purge, Steps, UploadSteps, ReconcileSteps
  <2>2. /\ request' \in [XRequests -> Works \cup {NoWork}]
        /\ request'[r].at = "removed" /\ request'[r].c = request[r].c /\ request'[r].i = request[r].i
        /\ request'[r].d = request[r].d /\ request'[r].todo = request[r].todo /\ request'[r].tags = request[r].tags
        /\ request'[r].status = request[r].status /\ request'[r].old = request[r].old
    BY <2>1, GoesFields
  <2>3. /\ ClientsTypeOK' /\ (failed => failed')
        /\ UNCHANGED <<inbound, online, xnode, failed, overlapped, disturbed>>
    BY <1>1, <1>5, <1>6, <2>2, OnRowsTyped, TypedNode
  <2>4. ASSUME Calm, Calm', Settled(request[r])
        PROVE  Settled(request[r])'
    <3>1. Sane /\ ~served[i].there
      BY <1>1, <1>2, <1>4, <2>4 DEF Fits
    <3>2. Sane' /\ Fits(request[r])'
      BY <1>2, <2>2, <2>3, <3>1 DEF Sane, Fits, xnode
    <3>3. \A j \in XInbounds \ {i} : SameInbound(j)'
      BY <1>4, <2>3, <2>4 DEF SameInbound, xnode
    <3>4. \A d \in XClients : SameClient(d)'
      BY <1>4, <1>5, <2>3, <2>4, <3>1 DEF SameClient, On, xnode
    <3>5. \A j \in XInbounds : ~Moving(request[r], j)' => j # i
      BY <1>2, <2>2 DEF Moving
    <3> QED
      BY <3>2, <3>3, <3>4, <3>5 DEF Settled
  <2>5. Allowed(request[r], "removed", request[r].d)
    BY <1>1, <1>2, <1>3 DEF Allowed, OfClient, OfListed, OfInbound, OfOld, UploadSteps
  <2> QED
    BY <1>1, <1>3, <2>1, <2>3, <2>4, <2>5, XProceed DEF Proceeds, Steps, ReconcileSteps
<1> QED
  BY <1>7 DEF Purge

LEMMA MoveOutStep ==
    ASSUME ClientsIInv, NEW r \in XRequests, MoveOut(r)
    PROVE  ClientsIInv'
<1>1. ClientsTypeOK /\ WorksAreFormed /\ request[r].at = "moveOut"
  BY DEF ClientsIInv, MoveOut, At
<1>2. PICK i \in XInbounds : i = request[r].i
  BY <1>1, InboundOfWork DEF OfInbound
<1>3. /\ request[r].at # "idle" /\ request[r].at \notin UploadSteps
      /\ request[r] \in Works /\ request[r] # NoWork
  BY <1>1, BusyWork DEF UploadSteps
<1>4. ASSUME Settled(request[r])
      PROVE  /\ Sane /\ Fits(request[r])
             /\ \A j \in XInbounds : SameInbound(j)
             /\ \A d \in XClients : SameClient(d)
  BY <1>1, <1>2, <1>3, <1>4 DEF Settled, Moving, Touching
<1>5. ASSUME RemoveInboundOk(i), OnNode,
             request' = [request EXCEPT ![r].at = "moveIn", ![r].todo = Enabled(i)]
      PROVE  ClientsIInv'
  <2>a. Enabled(i) \in SUBSET XClients
    BY DEF Enabled
  <2>1. Goes(r, "moveIn", request[r].d, request[r].want, Enabled(i), request[r].tags)
    BY <1>1, <1>3, <1>5, <2>a, TodoGoes DEF MoveOut, Steps, UploadSteps, ReconcileSteps
  <2>2. /\ request' \in [XRequests -> Works \cup {NoWork}]
        /\ request'[r].at = "moveIn" /\ request'[r].c = request[r].c /\ request'[r].i = request[r].i
        /\ request'[r].d = request[r].d /\ request'[r].todo = Enabled(i) /\ request'[r].tags = request[r].tags
        /\ request'[r].status = request[r].status /\ request'[r].old = request[r].old
    BY <2>1, GoesFields
  <2>3. ClientsTypeOK' /\ (failed => failed') /\ UNCHANGED <<inbound, client, online, overlapped, disturbed>>
    <3>1. request[r].todo \in SUBSET XClients
      BY <1>3, WorkFields
    <3>2. NodeTyped' /\ (failed => failed')
      BY <1>1, <1>2, <1>5, <3>1, InboundCallsKeepTypes
    <3> QED
      BY <1>1, <1>5, <2>2, <3>2, OnNodeTyped
  <2>4. ASSUME Calm, Calm', Settled(request[r])
        PROVE  Settled(request[r])'
    <3>1. Sane /\ SameInbound(i) /\ request[r].status = inbound[i]
      BY <1>1, <1>2, <1>4, <2>4 DEF Fits
    <3>2. ButForInbound(i) /\ ~served'[i].there /\ served[i].there
      BY <1>1, <1>5, <2>3, <3>1, RemoveInboundDone
    <3>3. inbound'[i] = "on" /\ Enabled(i)' = Enabled(i)
      BY <2>3, <3>1, <3>2 DEF SameInbound, Enabled
    <3>4. Fits(request[r])'
      BY <1>2, <2>2, <2>3, <3>1, <3>2, <3>3 DEF Fits
    <3>5. \A j \in XInbounds : ~Moving(request[r], j)' => j # i
      BY <1>2, <2>2 DEF Moving
    <3>6. \A d \in XClients : Of[d] = i => SameClient(d)'
      BY <3>2 DEF SameClient
    <3> QED
      BY <1>4, <2>4, <3>2, <3>4, <3>5, <3>6 DEF Settled, ButForInbound
  <2>5. Allowed(request[r], "moveIn", request[r].d)
    BY <1>1, <1>2, <1>3 DEF Allowed, OfClient, OfListed, OfInbound, OfOld, UploadSteps
  <2> QED
    BY <1>1, <1>3, <2>1, <2>3, <2>4, <2>5, XProceed DEF Proceeds, Steps, ReconcileSteps
<1>6. ASSUME RemoveInboundFails(i), Then(r, "moved"), OnNode
      PROVE  ClientsIInv'
  <2>1. Goes(r, "moved", request[r].d, request[r].want, request[r].todo, request[r].tags)
    BY <1>1, <1>3, <1>6, ThenGoes DEF MoveOut, Steps, UploadSteps, ReconcileSteps
  <2>2. /\ request' \in [XRequests -> Works \cup {NoWork}]
        /\ request'[r].at = "moved" /\ request'[r].c = request[r].c /\ request'[r].i = request[r].i
        /\ request'[r].d = request[r].d /\ request'[r].todo = request[r].todo /\ request'[r].tags = request[r].tags
        /\ request'[r].status = request[r].status /\ request'[r].old = request[r].old
    BY <2>1, GoesFields
  <2>3. ClientsTypeOK' /\ (failed => failed') /\ UNCHANGED <<inbound, client, online, overlapped, disturbed>>
    <3>1. request[r].todo \in SUBSET XClients
      BY <1>3, WorkFields
    <3>2. NodeTyped' /\ (failed => failed')
      BY <1>1, <1>2, <1>6, <3>1, InboundCallsKeepTypes
    <3> QED
      BY <1>1, <1>6, <2>2, <3>2, OnNodeTyped
  <2>4. ASSUME Calm, Calm', Settled(request[r])
        PROVE  Settled(request[r])'
    <3>1. xnode' = xnode
      BY <1>4, <1>6, <2>4, InboundFails DEF Calm
    <3>2. Fits(request[r])'
      BY <1>1, <1>2, <1>4, <2>2, <2>3, <2>4 DEF Fits
    <3> QED
      BY <1>4, <2>3, <2>4, <3>1, <3>2, NothingButFor DEF Settled
  <2>5. Allowed(request[r], "moved", request[r].d)
    BY <1>1, <1>2, <1>3 DEF Allowed, OfClient, OfListed, OfInbound, OfOld, UploadSteps
  <2> QED
    BY <1>1, <1>3, <2>1, <2>3, <2>4, <2>5, XProceed DEF Proceeds, Steps, ReconcileSteps
<1> QED
  BY <1>2, <1>5, <1>6 DEF MoveOut

LEMMA MoveInStep ==
    ASSUME ClientsIInv, NEW r \in XRequests, MoveIn(r)
    PROVE  ClientsIInv'
<1>1. ClientsTypeOK /\ WorksAreFormed /\ request[r].at = "moveIn"
  BY DEF ClientsIInv, MoveIn, At
<1>2. PICK i \in XInbounds : i = request[r].i
  BY <1>1, InboundOfWork DEF OfInbound
<1>3. /\ request[r].at # "idle" /\ request[r].at \notin UploadSteps
      /\ request[r] \in Works /\ request[r] # NoWork
  BY <1>1, BusyWork DEF UploadSteps
<1>4. ASSUME Settled(request[r])
      PROVE  /\ Sane /\ Fits(request[r])
             /\ \A j \in XInbounds \ {i} : SameInbound(j)
             /\ \A d \in XClients : SameClient(d)
  BY <1>1, <1>2, <1>3, <1>4 DEF Settled, Moving, Touching
<1>5. ASSUME AddInboundOk(i, request[r].todo), Ends(r), OnNode
      PROVE  ClientsIInv'
  <2>1. Ends(r)
    BY <1>5
  <2>2. request' \in [XRequests -> Works \cup {NoWork}] /\ request'[r] = NoWork
    BY <1>1, <2>1, EndsGoes
  <2>3. ClientsTypeOK' /\ (failed => failed') /\ UNCHANGED <<inbound, client, online, overlapped, disturbed>>
    <3>1. request[r].todo \in SUBSET XClients
      BY <1>3, WorkFields
    <3>2. NodeTyped' /\ (failed => failed')
      BY <1>1, <1>2, <1>5, <3>1, InboundCallsKeepTypes
    <3> QED
      BY <1>1, <1>5, <2>2, <3>2, OnNodeTyped
  <2>4. ASSUME Calm, Calm', Settled(request[r])
        PROVE  InAgreement'
    <3>1. Sane /\ inbound[i] = "on" /\ request[r].todo = Enabled(i)
      BY <1>1, <1>2, <1>4, <2>4 DEF Fits
    <3>2. \A c \in request[r].todo : Of[c] = i
      BY <3>1 DEF Enabled
    <3>3. request[r].todo \in SUBSET XClients
      BY <1>3, WorkFields
    <3>4. ButForInbound(i) /\ served'[i].there /\ served'[i].clients = request[r].todo
      BY <1>1, <1>5, <2>3, <3>1, <3>2, <3>3, AddInboundDone
    <3>5. SameInbound(i)'
      BY <2>3, <3>1, <3>4 DEF SameInbound
    <3>6. \A d \in XClients : Of[d] = i => SameClient(d)'
      BY <2>3, <3>1, <3>4 DEF SameClient, Enabled, On
    <3> QED
      BY <1>4, <2>4, <3>4, <3>5, <3>6 DEF InAgreement, ButForInbound
  <2> QED
    BY <1>1, <1>3, <2>1, <2>3, <2>4, Finish DEF Finishes
<1>6. ASSUME AddInboundFails(i, request[r].todo, TRUE), OnNode,
             request' = [request EXCEPT ![r].at = "moveBack", ![r].todo = Enabled(i)]
      PROVE  ClientsIInv'
  <2>a. Enabled(i) \in SUBSET XClients
    BY DEF Enabled
  <2>1. Goes(r, "moveBack", request[r].d, request[r].want, Enabled(i), request[r].tags)
    BY <1>1, <1>3, <1>6, <2>a, TodoGoes DEF MoveIn, Steps, UploadSteps, ReconcileSteps
  <2>2. /\ request' \in [XRequests -> Works \cup {NoWork}]
        /\ request'[r].at = "moveBack" /\ request'[r].c = request[r].c /\ request'[r].i = request[r].i
        /\ request'[r].d = request[r].d /\ request'[r].todo = Enabled(i) /\ request'[r].tags = request[r].tags
        /\ request'[r].status = request[r].status /\ request'[r].old = request[r].old
    BY <2>1, GoesFields
  <2>3. ClientsTypeOK' /\ (failed => failed') /\ UNCHANGED <<inbound, client, online, overlapped, disturbed>>
    <3>1. request[r].todo \in SUBSET XClients
      BY <1>3, WorkFields
    <3>2. NodeTyped' /\ (failed => failed')
      BY <1>1, <1>2, <1>6, <3>1, InboundCallsKeepTypes
    <3> QED
      BY <1>1, <1>6, <2>2, <3>2, OnNodeTyped
  <2>4. ASSUME Calm, Calm', Settled(request[r])
        PROVE  Settled(request[r])'
    BY <1>4, <1>6, <2>4, InboundFails DEF Calm
  <2>5. Allowed(request[r], "moveBack", request[r].d)
    BY <1>1, <1>2, <1>3 DEF Allowed, OfClient, OfListed, OfInbound, OfOld, UploadSteps
  <2> QED
    BY <1>1, <1>3, <2>1, <2>3, <2>4, <2>5, XProceed DEF Proceeds, Steps, ReconcileSteps
<1> QED
  BY <1>2, <1>5, <1>6 DEF MoveIn

LEMMA MoveBackStep ==
    ASSUME ClientsIInv, NEW r \in XRequests, MoveBack(r)
    PROVE  ClientsIInv'
<1>1. ClientsTypeOK /\ WorksAreFormed /\ request[r].at = "moveBack"
  BY DEF ClientsIInv, MoveBack, At
<1>2. PICK i \in XInbounds : i = request[r].i
  BY <1>1, InboundOfWork DEF OfInbound
<1>3. /\ request[r].at # "idle" /\ request[r].at \notin UploadSteps
      /\ request[r] \in Works /\ request[r] # NoWork
  BY <1>1, BusyWork DEF UploadSteps
<1>4. ASSUME Settled(request[r])
      PROVE  /\ Sane /\ Fits(request[r])
             /\ \A j \in XInbounds : SameInbound(j)
             /\ \A d \in XClients : SameClient(d)
  BY <1>1, <1>2, <1>3, <1>4 DEF Settled, Moving, Touching
<1>5. ASSUME \/ AddInboundOk(i, request[r].todo) \/ AddInboundFails(i, request[r].todo, TRUE),
             Then(r, "moved"), OnNode
      PROVE  ClientsIInv'
  <2>1. Goes(r, "moved", request[r].d, request[r].want, request[r].todo, request[r].tags)
    BY <1>1, <1>3, <1>5, ThenGoes DEF MoveBack, Steps, UploadSteps, ReconcileSteps
  <2>2. /\ request' \in [XRequests -> Works \cup {NoWork}]
        /\ request'[r].at = "moved" /\ request'[r].c = request[r].c /\ request'[r].i = request[r].i
        /\ request'[r].d = request[r].d /\ request'[r].todo = request[r].todo /\ request'[r].tags = request[r].tags
        /\ request'[r].status = request[r].status /\ request'[r].old = request[r].old
    BY <2>1, GoesFields
  <2>3. ClientsTypeOK' /\ (failed => failed') /\ UNCHANGED <<inbound, client, online, overlapped, disturbed>>
    <3>1. request[r].todo \in SUBSET XClients
      BY <1>3, WorkFields
    <3>2. NodeTyped' /\ (failed => failed')
      BY <1>1, <1>2, <1>5, <3>1, InboundCallsKeepTypes
    <3> QED
      BY <1>1, <1>5, <2>2, <3>2, OnNodeTyped
  <2>4. ASSUME Calm, Calm', Settled(request[r])
        PROVE  Settled(request[r])'
    BY <1>1, <1>4, <2>4 DEF Fits
  <2>5. Allowed(request[r], "moved", request[r].d)
    BY <1>1, <1>2, <1>3 DEF Allowed, OfClient, OfListed, OfInbound, OfOld, UploadSteps
  <2> QED
    BY <1>1, <1>3, <2>1, <2>3, <2>4, <2>5, XProceed DEF Proceeds, Steps, ReconcileSteps
<1> QED
  BY <1>2, <1>5 DEF MoveBack

LEMMA MovedStep ==
    ASSUME ClientsIInv, NEW r \in XRequests, Moved(r)
    PROVE  ClientsIInv'
<1>1. ClientsTypeOK /\ WorksAreFormed /\ request[r].at = "moved"
  BY DEF ClientsIInv, Moved, At
<1>2. PICK i \in XInbounds : i = request[r].i
  BY <1>1, InboundOfWork DEF OfInbound
<1>3. /\ request[r].at # "idle" /\ request[r].at \notin UploadSteps
      /\ request[r] \in Works /\ request[r] # NoWork
  BY <1>1, BusyWork DEF UploadSteps
<1>4. ASSUME Settled(request[r])
      PROVE  /\ Sane /\ Fits(request[r])
             /\ \A j \in XInbounds : SameInbound(j)
             /\ \A d \in XClients : SameClient(d)
  BY <1>1, <1>2, <1>3, <1>4 DEF Settled, Moving, Touching
<1>5. /\ inbound' \in [XInbounds -> Statuses] /\ inbound'[i] = request[r].status
      /\ \A j \in XInbounds \ {i} : inbound'[j] = inbound[j]
  BY <1>1, <1>2, <1>3, WorkFields, TypedNode DEF Moved
<1>6. OnRows /\ UNCHANGED <<client, forbidden>>
  BY DEF Moved
<1>7. ASSUME Ends(r)
      PROVE  ClientsIInv'
  <2>1. Ends(r)
    BY <1>7
  <2>2. request' \in [XRequests -> Works \cup {NoWork}] /\ request'[r] = NoWork
    BY <1>1, <2>1, EndsGoes
  <2>3. /\ ClientsTypeOK' /\ (failed => failed')
        /\ UNCHANGED <<client, online, xnode, failed, overlapped, disturbed>>
    BY <1>1, <1>5, <1>6, <2>2, OnRowsTyped, TypedNode DEF ClientsTypeOK
  <2>4. ASSUME Calm, Calm', Settled(request[r])
        PROVE  InAgreement'
    <3>1. \A j \in XInbounds : inbound'[j] = inbound[j]
      BY <1>1, <1>2, <1>4, <1>5, <2>4 DEF Fits
    <3> QED
      BY <1>4, <2>3, <2>4, <3>1, ClientsAssumption DEF InAgreement, Sane, SameInbound, SameClient, On, xnode
  <2> QED
    BY <1>1, <1>3, <2>1, <2>3, <2>4, Finish DEF Finishes
<1> QED
  BY <1>7 DEF Moved
-----------------------------------------------------------------------------
(* The beginnings of requests.                                               *)

LEMMA WorkIsWork ==
    Work \in Works /\ Work.todo = {} /\ Work.tags = {} /\ Work.want = FALSE
BY DEF Work, Works, Steps, NoClient, Statuses

LEMMA SettledIdle ==
    Settled(NoWork) => InAgreement
BY IdleIsStill DEF Settled, InAgreement

LEMMA StartsTyped ==
    ASSUME ClientsTypeOK, NEW r \in XRequests, NEW work \in Works, Reads(r, work)
    PROVE  ClientsTypeOK' /\ UNCHANGED <<inbound, client, online, xnode, failed>>
<1>1. Starts(r, work) /\ UNCHANGED <<rows, online, xnode, uses, forbidden, failed>>
  BY DEF Reads
<1> QED
  BY <1>1, StartsIs DEF ClientsTypeOK, rows, xnode

\* A request that begins by reading has only to be right about what it read.
Begins(work) ==
    /\ WellFormed(work)
    /\ work.at \in Steps \ (UploadSteps \cup ReconcileSteps)
    /\ Calm /\ InAgreement => Fits(work)

LEMMA RequestBegins ==
    ASSUME ClientsIInv, NEW r \in XRequests, NEW work \in Works, Reads(r, work), Begins(work)
    PROVE  ClientsIInv'
<1>1. ClientsTypeOK
  BY DEF ClientsIInv
<1>2. ClientsTypeOK' /\ UNCHANGED <<inbound, client, online, xnode, failed>>
  BY <1>1, StartsTyped
<1>3. ASSUME Calm, Settled(NoWork)
      PROVE  Settled(work)'
  <2>1. InAgreement /\ Fits(work)
    BY <1>3, SettledIdle DEF Begins
  <2>2. InAgreement'
    BY <1>2, <2>1, NothingButFor DEF InAgreement
  <2>3. Fits(work)'
    BY <1>2, <2>1, ClientsAssumption DEF Fits, Unserved, On, Enabled, xnode
  <2> QED
    BY <2>2, <2>3 DEF Settled, InAgreement
<1>4. Reconciled(work)'
  BY NotReconciling DEF Begins
<1>5. FirstStep(r, work)
  BY <1>2, <1>3, <1>4 DEF FirstStep, Begins, Reads
<1> QED
  BY <1>5, FirstStepKeeps

LEMMA CreateClientStep ==
    ASSUME ClientsIInv, NEW r \in XRequests, NEW c \in XClients, CreateClient(r, c)
    PROVE  ClientsIInv'
<1>1. ClientsTypeOK
  BY DEF ClientsIInv
<1>2. PICK w \in Works : w = Work
  BY WorkIsWork
<1>3. PICK i \in XInbounds : i = Of[c] /\ client[c] = NoClient
  BY ClientsAssumption DEF CreateClient
<1>4. PICK v : v = [w EXCEPT !.at = "insert", !.c = c, !.i = i]
  OBVIOUS
<1>5. v \in Works
  BY <1>4 DEF Works, Steps, UploadSteps, ReconcileSteps
<1>6. v.at = "insert" /\ v.c = c /\ v.i = i
  BY <1>4 DEF Works
<1>7. Reads(r, v)
  BY <1>2, <1>3, <1>4 DEF CreateClient
<1>8. WellFormed(v)
  BY <1>3, <1>6 DEF WellFormed, OfClient, OfListed, OfInbound, OfOld, UploadSteps
<1>9. Calm /\ InAgreement => Fits(v)
  BY <1>1, <1>2, <1>3, <1>6, ClientsAssumption DEF Fits, InAgreement, Sane, NoClient
<1>10. v.at \in Steps \ (UploadSteps \cup ReconcileSteps)
  BY <1>3, <1>6 DEF Steps, UploadSteps, ReconcileSteps
<1> QED
  BY <1>5, <1>7, <1>8, <1>9, <1>10, RequestBegins DEF Begins

LEMMA UpdateClientStep ==
    ASSUME ClientsIInv, NEW r \in XRequests, NEW c \in XClients, UpdateClient(r, c)
    PROVE  ClientsIInv'
<1>1. ClientsTypeOK
  BY DEF ClientsIInv
<1>2. PICK w \in Works : w = Work
  BY WorkIsWork
<1>3. PICK i \in XInbounds, old \in ClientRows, want \in BOOLEAN, status \in Statuses, at \in {"change", "touch"} :
        /\ i = Of[c] /\ old = client[c] /\ status = inbound[i]
        /\ Reads(r, [Work EXCEPT !.at = at, !.c = c, !.i = i, !.old = old,
                                 !.want = want, !.status = status])
  <2>1. Of[c] \in XInbounds /\ client[c] \in ClientRows /\ inbound[Of[c]] \in Statuses
    BY <1>1, TypedNode, ClientsAssumption DEF UpdateClient, NoClient, Erased
  <2>2. PICK given \in BOOLEAN, want \in BOOLEAN :
          Reads(r, [Work EXCEPT !.at = IF given THEN "change" ELSE "touch", !.c = c, !.i = Of[c],
                                !.old = client[c], !.want = want, !.status = inbound[Of[c]]])
    BY <2>1 DEF UpdateClient, ClientRows
  <2>3. PICK at \in {"change", "touch"} : at = IF given THEN "change" ELSE "touch"
    OBVIOUS
  <2> QED
    BY <2>1, <2>2, <2>3
<1>4. PICK v : v = [w EXCEPT !.at = at, !.c = c, !.i = i, !.old = old, !.want = want, !.status = status]
  OBVIOUS
<1>5. v \in Works
  <2>1. at \in Steps
    BY DEF Steps
  <2> QED
    BY ZenonT(60), <1>4, <2>1 DEF Works
<1>6. v.at = at /\ v.c = c /\ v.i = i /\ v.old = old /\ v.status = status
  BY <1>4 DEF Works
<1>7. Reads(r, v)
  BY <1>2, <1>3, <1>4
<1>8. WellFormed(v)
  BY <1>3, <1>6 DEF WellFormed, OfClient, OfListed, OfInbound, OfOld, UploadSteps
<1>9. Calm /\ InAgreement => Fits(v)
  BY <1>1, <1>2, <1>3, <1>6, ClientsAssumption DEF Fits, InAgreement, Sane
<1>10. v.at \in Steps \ (UploadSteps \cup ReconcileSteps)
  BY <1>3, <1>6 DEF Steps, UploadSteps, ReconcileSteps
<1> QED
  BY <1>5, <1>7, <1>8, <1>9, <1>10, RequestBegins DEF Begins

LEMMA DeleteClientStep ==
    ASSUME ClientsIInv, NEW r \in XRequests, NEW c \in XClients, DeleteClient(r, c)
    PROVE  ClientsIInv'
<1>1. ClientsTypeOK
  BY DEF ClientsIInv
<1>2. PICK w \in Works : w = Work
  BY WorkIsWork
<1>3. PICK i \in XInbounds, at \in {"hotRemove", "erase"} :
        i = Of[c] /\ at = IF Listed(Of[c]) /\ online THEN "hotRemove" ELSE "erase"
  BY ClientsAssumption
<1>4. PICK v : v = [w EXCEPT !.c = c, !.i = i, !.at = at]
  OBVIOUS
<1>5. v \in Works
  BY <1>4 DEF Works, Steps, UploadSteps, ReconcileSteps
<1>6. v.at = at /\ v.c = c /\ v.i = i
  BY <1>4 DEF Works
<1>7. Reads(r, v)
  BY <1>2, <1>3, <1>4 DEF DeleteClient
<1>8. WellFormed(v)
  BY <1>3, <1>6 DEF WellFormed, OfClient, OfListed, OfInbound, OfOld, UploadSteps
<1>9. Calm /\ InAgreement => Fits(v)
  BY <1>1, <1>2, <1>3, <1>6, ClientsAssumption DEF Fits, InAgreement, Sane, Listed, Unserved, SameInbound
<1>10. v.at \in Steps \ (UploadSteps \cup ReconcileSteps)
  BY <1>3, <1>6 DEF Steps, UploadSteps, ReconcileSteps
<1> QED
  BY <1>5, <1>7, <1>8, <1>9, <1>10, RequestBegins DEF Begins

LEMMA ResetClientStep ==
    ASSUME ClientsIInv, NEW r \in XRequests, NEW c \in XClients, ResetClient(r, c)
    PROVE  ClientsIInv'
<1>1. ClientsTypeOK
  BY DEF ClientsIInv
<1>2. PICK w \in Works : w = Work
  BY WorkIsWork
<1>3. PICK i \in XInbounds, old \in ClientRows : i = Of[c] /\ old = client[c]
  BY <1>1, TypedNode, ClientsAssumption DEF ResetClient, NoClient, Erased
<1>4. PICK v : v = [w EXCEPT !.at = "zero", !.c = c, !.i = i, !.old = old]
  OBVIOUS
<1>5. v \in Works
  BY <1>4 DEF Works, Steps, UploadSteps, ReconcileSteps
<1>6. v.at = "zero" /\ v.c = c /\ v.i = i /\ v.old = old
  BY <1>4 DEF Works
<1>7. Reads(r, v)
  BY <1>2, <1>3, <1>4 DEF ResetClient
<1>8. WellFormed(v)
  BY <1>3, <1>6 DEF WellFormed, OfClient, OfListed, OfInbound, OfOld, UploadSteps
<1>9. Calm /\ InAgreement => Fits(v)
  BY <1>1, <1>2, <1>3, <1>6, ClientsAssumption DEF Fits, InAgreement, Sane
<1>10. v.at \in Steps \ (UploadSteps \cup ReconcileSteps)
  BY <1>3, <1>6 DEF Steps, UploadSteps, ReconcileSteps
<1> QED
  BY <1>5, <1>7, <1>8, <1>9, <1>10, RequestBegins DEF Begins

LEMMA BanStep ==
    ASSUME ClientsIInv, NEW r \in XRequests, Ban(r)
    PROVE  ClientsIInv'
<1>1. ClientsTypeOK
  BY DEF ClientsIInv
<1>2. PICK w \in Works : w = Work
  BY WorkIsWork
<1>3. PICK todo \in SUBSET XClients : todo = UNION {Enabled(i) : i \in XInbounds}
  BY DEF Enabled
<1>4. PICK v : v = [w EXCEPT !.at = "ban", !.todo = todo]
  OBVIOUS
<1>5. v \in Works
  BY <1>4 DEF Works, Steps, UploadSteps, ReconcileSteps
<1>6. v.at = "ban" /\ v.todo = todo
  BY <1>4 DEF Works
<1>7. Reads(r, v)
  BY <1>2, <1>3, <1>4 DEF Ban
<1>8. WellFormed(v)
  BY <1>3, <1>6 DEF WellFormed, OfClient, OfListed, OfInbound, OfOld, UploadSteps
<1>9. Calm /\ InAgreement => Fits(v)
  BY <1>1, <1>2, <1>3, <1>6, ClientsAssumption DEF Fits, InAgreement, Sane
<1>10. v.at \in Steps \ (UploadSteps \cup ReconcileSteps)
  BY <1>3, <1>6 DEF Steps, UploadSteps, ReconcileSteps
<1> QED
  BY <1>5, <1>7, <1>8, <1>9, <1>10, RequestBegins DEF Begins

LEMMA DisableInboundStep ==
    ASSUME ClientsIInv, NEW r \in XRequests, NEW i \in XInbounds, DisableInbound(r, i)
    PROVE  ClientsIInv'
<1>1. ClientsTypeOK
  BY DEF ClientsIInv
<1>2. PICK w \in Works : w = Work
  BY WorkIsWork
<1>3. i \in XInbounds
  OBVIOUS
<1>4. PICK v : v = [w EXCEPT !.at = "closing", !.i = i]
  OBVIOUS
<1>5. v \in Works
  BY <1>4 DEF Works, Steps, UploadSteps, ReconcileSteps
<1>6. v.at = "closing" /\ v.i = i
  BY <1>4 DEF Works
<1>7. Reads(r, v)
  BY <1>2, <1>3, <1>4 DEF DisableInbound
<1>8. WellFormed(v)
  BY <1>3, <1>6 DEF WellFormed, OfClient, OfListed, OfInbound, OfOld, UploadSteps
<1>9. Calm /\ InAgreement => Fits(v)
  BY <1>1, <1>2, <1>3, <1>6, ClientsAssumption DEF Fits, InAgreement, Sane
<1>10. v.at \in Steps \ (UploadSteps \cup ReconcileSteps)
  BY <1>3, <1>6 DEF Steps, UploadSteps, ReconcileSteps
<1> QED
  BY <1>5, <1>7, <1>8, <1>9, <1>10, RequestBegins DEF Begins

LEMMA DeleteInboundStep ==
    ASSUME ClientsIInv, NEW r \in XRequests, NEW i \in XInbounds, DeleteInbound(r, i)
    PROVE  ClientsIInv'
<1>1. ClientsTypeOK
  BY DEF ClientsIInv
<1>2. PICK w \in Works : w = Work
  BY WorkIsWork
<1>3. PICK at \in {"close", "purge"} : at = IF online THEN "close" ELSE "purge"
  OBVIOUS
<1>4. PICK v : v = [w EXCEPT !.at = at, !.i = i]
  OBVIOUS
<1>5. v \in Works
  BY <1>4 DEF Works, Steps, UploadSteps, ReconcileSteps
<1>6. v.at = at /\ v.i = i
  BY <1>4 DEF Works
<1>7. Reads(r, v)
  BY <1>2, <1>3, <1>4 DEF DeleteInbound
<1>8. WellFormed(v)
  BY <1>3, <1>6 DEF WellFormed, OfClient, OfListed, OfInbound, OfOld, UploadSteps
<1>9. Calm /\ InAgreement => Fits(v)
  BY <1>1, <1>2, <1>3, <1>6, ClientsAssumption DEF Fits, InAgreement, Sane
<1>10. v.at \in Steps \ (UploadSteps \cup ReconcileSteps)
  BY <1>3, <1>6 DEF Steps, UploadSteps, ReconcileSteps
<1> QED
  BY <1>5, <1>7, <1>8, <1>9, <1>10, RequestBegins DEF Begins

LEMMA UpdateInboundStep ==
    ASSUME ClientsIInv, NEW r \in XRequests, NEW i \in XInbounds, UpdateInbound(r, i)
    PROVE  ClientsIInv'
<1>1. ClientsTypeOK
  BY DEF ClientsIInv
<1>2. PICK w \in Works : w = Work
  BY WorkIsWork
<1>3. PICK status \in Statuses : status = inbound[i]
  BY <1>1, TypedNode
<1>4. PICK v : v = [w EXCEPT !.at = "moveOut", !.i = i, !.status = status]
  OBVIOUS
<1>5. v \in Works
  BY <1>4 DEF Works, Steps, UploadSteps, ReconcileSteps
<1>6. v.at = "moveOut" /\ v.i = i /\ v.status = status
  BY <1>4 DEF Works
<1>7. Reads(r, v)
  BY <1>2, <1>3, <1>4 DEF UpdateInbound
<1>8. WellFormed(v)
  BY <1>3, <1>6 DEF WellFormed, OfClient, OfListed, OfInbound, OfOld, UploadSteps
<1>9. Calm /\ InAgreement => Fits(v)
  BY <1>1, <1>2, <1>3, <1>6, ClientsAssumption DEF Fits, InAgreement, Sane
<1>10. v.at \in Steps \ (UploadSteps \cup ReconcileSteps)
  BY <1>3, <1>6 DEF Steps, UploadSteps, ReconcileSteps
<1> QED
  BY <1>5, <1>7, <1>8, <1>9, <1>10, RequestBegins DEF Begins

LEMMA CreateInboundStep ==
    ASSUME ClientsIInv, NEW r \in XRequests, NEW i \in XInbounds, CreateInbound(r, i)
    PROVE  ClientsIInv'
<1>1. ClientsTypeOK
  BY DEF ClientsIInv
<1>2. PICK w \in Works : w = Work
  BY WorkIsWork
<1>3. PICK todo \in SUBSET XClients : todo = Enabled(i)
  BY DEF Enabled
<1>4. PICK v : v = [w EXCEPT !.at = "open", !.i = i, !.status = "error", !.todo = todo]
  OBVIOUS
<1>5. v \in Works
  BY <1>4 DEF Works, Steps, Statuses
<1>6. v.at = "open" /\ v.i = i /\ v.todo = todo
  BY <1>4 DEF Works
<1>7. /\ Starts(r, v) /\ inbound' = [inbound EXCEPT ![i] = "on"]
      /\ UNCHANGED <<client, userUse, online, xnode, uses, forbidden, failed>>
  BY <1>2, <1>3, <1>4 DEF CreateInbound
<1>8. /\ inbound' \in [XInbounds -> Statuses] /\ inbound'[i] = "on"
      /\ \A j \in XInbounds \ {i} : inbound'[j] = inbound[j]
  BY <1>1, <1>7, TypedNode DEF Statuses
<1>9. ClientsTypeOK'
  BY <1>1, <1>5, <1>7, <1>8, StartsIs DEF ClientsTypeOK, xnode
<1>10. WellFormed(v) /\ v.at \notin UploadSteps /\ v.at \notin ReconcileSteps
  BY <1>6 DEF WellFormed, OfClient, OfListed, OfInbound, OfOld, UploadSteps, ReconcileSteps
<1>11. ASSUME Calm, Settled(NoWork)
       PROVE  Settled(v)'
  <2>1. InAgreement
    BY <1>11, SettledIdle
  <2>2. ButForInbound(i) /\ \A d \in XClients : SameClient(d) => SameClient(d)'
    BY <1>7, <1>8, <2>1, InboundRowButFor DEF InAgreement
  <2>3. Fits(v)'
    BY <1>3, <1>6, <1>7, <1>8 DEF Fits, Enabled
  <2>4. \A j \in XInbounds : ~Moving(v, j)' => j # i
    BY <1>6 DEF Moving
  <2> QED
    BY <2>1, <2>2, <2>3, <2>4 DEF Settled, InAgreement, ButForInbound
<1>12. FirstStep(r, v)
  BY <1>7, <1>9, <1>10, <1>11, NotReconciling DEF FirstStep
<1> QED
  BY <1>5, <1>12, FirstStepKeeps

LEMMA EnableInboundStep ==
    ASSUME ClientsIInv, NEW r \in XRequests, NEW i \in XInbounds, EnableInbound(r, i)
    PROVE  ClientsIInv'
<1>1. ClientsTypeOK
  BY DEF ClientsIInv
<1>2. PICK w \in Works : w = Work
  BY WorkIsWork
<1>3. PICK todo \in SUBSET XClients : todo = Enabled(i)
  BY DEF Enabled
<1>4. PICK v : v = [w EXCEPT !.at = "open", !.i = i, !.status = "off", !.todo = todo]
  OBVIOUS
<1>5. v \in Works
  BY <1>4 DEF Works, Steps, Statuses
<1>6. v.at = "open" /\ v.i = i /\ v.todo = todo
  BY <1>4 DEF Works
<1>7. /\ Starts(r, v) /\ inbound' = [inbound EXCEPT ![i] = "on"]
      /\ UNCHANGED <<client, userUse, online, xnode, uses, forbidden, failed>>
  BY <1>2, <1>3, <1>4 DEF EnableInbound
<1>8. /\ inbound' \in [XInbounds -> Statuses] /\ inbound'[i] = "on"
      /\ \A j \in XInbounds \ {i} : inbound'[j] = inbound[j]
  BY <1>1, <1>7, TypedNode DEF Statuses
<1>9. ClientsTypeOK'
  BY <1>1, <1>5, <1>7, <1>8, StartsIs DEF ClientsTypeOK, xnode
<1>10. WellFormed(v) /\ v.at \notin UploadSteps /\ v.at \notin ReconcileSteps
  BY <1>6 DEF WellFormed, OfClient, OfListed, OfInbound, OfOld, UploadSteps, ReconcileSteps
<1>11. ASSUME Calm, Settled(NoWork)
       PROVE  Settled(v)'
  <2>1. InAgreement
    BY <1>11, SettledIdle
  <2>2. ButForInbound(i) /\ \A d \in XClients : SameClient(d) => SameClient(d)'
    BY <1>7, <1>8, <2>1, InboundRowButFor DEF InAgreement
  <2>3. Fits(v)'
    BY <1>3, <1>6, <1>7, <1>8 DEF Fits, Enabled
  <2>4. \A j \in XInbounds : ~Moving(v, j)' => j # i
    BY <1>6 DEF Moving
  <2> QED
    BY <2>1, <2>2, <2>3, <2>4 DEF Settled, InAgreement, ButForInbound
<1>12. FirstStep(r, v)
  BY <1>7, <1>9, <1>10, <1>11, NotReconciling DEF FirstStep
<1> QED
  BY <1>5, <1>12, FirstStepKeeps
-----------------------------------------------------------------------------
(* Reconciliation.                                                           *)

\* One inbound less to do.
LEMMA LessGoes ==
    ASSUME ClientsTypeOK, NEW r \in XRequests, request[r].at # "idle",
           NEW at \in Steps, NEW i \in XInbounds,
           request' = [request EXCEPT ![r].at = at, ![r].tags = @ \ {i}]
    PROVE  Goes(r, at, request[r].d, request[r].want, request[r].todo, request[r].tags \ {i})
<1>1. PICK w \in Works : w = request[r]
  BY BusyWork
<1>2. PICK tags \in SUBSET XInbounds : tags = w.tags \ {i}
  BY WorkFields
<1>3. [w EXCEPT !.at = at, !.tags = @ \ {i}] = [w EXCEPT !.at = at, !.tags = tags]
  BY <1>2
<1>4. request' = [request EXCEPT ![r].at = at, ![r].tags = tags]
  BY <1>1, <1>3 DEF ClientsTypeOK
<1> QED
  BY <1>1, <1>2, <1>4, TagsGoes

LEMMA LessTriedGoes ==
    ASSUME ClientsTypeOK, NEW r \in XRequests, request[r].at # "idle",
           NEW at \in Steps, NEW i \in XInbounds, NEW trouble \in BOOLEAN,
           request' = [request EXCEPT ![r].at = at, ![r].tags = @ \ {i}, ![r].want = @ \/ trouble]
    PROVE  \E want \in BOOLEAN :
             /\ want <=> (request[r].want \/ trouble)
             /\ Goes(r, at, request[r].d, want, request[r].todo, request[r].tags \ {i})
<1>1. PICK w \in Works : w = request[r]
  BY BusyWork
<1>2. PICK tags \in SUBSET XInbounds : tags = w.tags \ {i}
  BY WorkFields
<1>3. PICK want \in BOOLEAN : want = (w.want \/ trouble)
  BY WorkFields
<1>4. [w EXCEPT !.at = at, !.tags = @ \ {i}, !.want = @ \/ trouble]
        = [w EXCEPT !.at = at, !.tags = tags, !.want = want]
  BY <1>2, <1>3
<1>5. request' = [request EXCEPT ![r].at = at, ![r].tags = tags, ![r].want = want]
  BY <1>1, <1>4 DEF ClientsTypeOK
<1>6. \A t \in SUBSET XInbounds, x \in BOOLEAN :
        request' = [request EXCEPT ![r].at = at, ![r].tags = t, ![r].want = x]
          => Goes(r, at, request[r].d, x, request[r].todo, t)
  BY TriedGoes
<1>7. Goes(r, at, request[r].d, want, request[r].todo, tags)
  BY <1>5, <1>6
<1> QED
  BY <1>1, <1>2, <1>3, <1>7

\* The cleaning, which stays where it is.
LEMMA CleanedGoes ==
    ASSUME ClientsTypeOK, NEW r \in XRequests, request[r].at = "clean", NEW i \in XInbounds,
           request' = [request EXCEPT ![r].tags = @ \ {i}]
    PROVE  Goes(r, "clean", request[r].d, request[r].want, request[r].todo, request[r].tags \ {i})
<1>1. PICK w \in Works : w = request[r] /\ w.at = "clean"
  BY BusyWork
<1>2. PICK tags \in SUBSET XInbounds : tags = w.tags \ {i}
  BY WorkFields
<1>3. PICK v : v = [w EXCEPT !.tags = tags]
  OBVIOUS
<1>4. v \in Works /\ v = Continued(w, "clean", w.d, w.want, w.todo, tags)
  BY <1>1, <1>3, ChangeTags
<1>5. request' = [request EXCEPT ![r] = v]
  BY <1>1, <1>2, <1>3 DEF ClientsTypeOK
<1> QED
  BY <1>1, <1>2, <1>4, <1>5, XGoesOn DEF Goes

LEMMA NotCleanedGoes ==
    ASSUME ClientsTypeOK, NEW r \in XRequests, request[r].at = "clean", NEW i \in XInbounds,
           request' = [request EXCEPT ![r].tags = @ \ {i}, ![r].want = TRUE]
    PROVE  \E want \in BOOLEAN :
             /\ want
             /\ Goes(r, "clean", request[r].d, want, request[r].todo, request[r].tags \ {i})
<1>1. PICK w \in Works : w = request[r] /\ w.at = "clean"
  BY BusyWork
<1>2. PICK tags \in SUBSET XInbounds : tags = w.tags \ {i}
  BY WorkFields
<1>3. PICK want \in BOOLEAN : want = TRUE
  OBVIOUS
<1>4. PICK k : k = [w EXCEPT !.tags = tags]
  OBVIOUS
<1>5. k \in Works /\ k = Continued(w, w.at, w.d, w.want, w.todo, tags)
  BY <1>4, ChangeTags
<1>6. PICK v : v = [k EXCEPT !.want = want]
  OBVIOUS
<1>7. v \in Works /\ v = Continued(k, k.at, k.d, want, k.todo, k.tags)
  <2>1. \A x \in BOOLEAN : /\ [k EXCEPT !.want = x] \in Works
                           /\ [k EXCEPT !.want = x] = Continued(k, k.at, k.d, x, k.todo, k.tags)
    BY <1>5, ChangeWant
  <2> QED
    BY <1>6, <2>1
<1>8. k.at = "clean" /\ k.d = w.d /\ k.todo = w.todo /\ k.tags = tags
  BY <1>1, <1>5, ContinuedFields
<1>9. v = Continued(w, "clean", w.d, want, w.todo, tags)
  <2>1. /\ k.c = w.c /\ k.i = w.i /\ k.old = w.old /\ k.status = w.status
    BY <1>5, ContinuedFields
  <2> QED
    BY <1>7, <1>8, <2>1 DEF Continued
<1>10. request' = [request EXCEPT ![r] = v]
  BY <1>1, <1>2, <1>3, <1>4, <1>6 DEF ClientsTypeOK
<1>11. Goes(r, "clean", request[r].d, want, request[r].todo, tags)
  BY <1>1, <1>7, <1>9, <1>10, XGoesOn DEF Goes
<1> QED
  BY <1>1, <1>2, <1>3, <1>11

\* A reconciliation goes on.
LEMMA ProceedReconcile ==
    ASSUME ClientsIInv, NEW r \in XRequests, request[r].at \in ReconcileSteps,
           NEW at \in ReconcileSteps, NEW d, NEW want, NEW todo, NEW tags,
           Goes(r, at, d, want, todo, tags),
           UNCHANGED <<overlapped, disturbed>>, ClientsTypeOK', failed => failed',
           Calm /\ Calm' /\ Settled(request[r]) => Settled(request[r])',
           (~request'[r].want /\ (~request[r].want => Reconciled(request[r])))
               => Reconciled(request[r])'
    PROVE  ClientsIInv'
<1>1. ClientsTypeOK /\ WorksAreFormed /\ ReconcileGoesOn
  BY DEF ClientsIInv
<1>2. request[r].at # "idle" /\ request[r].at \notin UploadSteps
  BY DEF ReconcileSteps, UploadSteps
<1>3. Allowed(request[r], at, d)
  BY <1>2 DEF Allowed, ReconcileSteps, OfClient, OfListed, OfInbound, OfOld, UploadSteps
<1>4. XMoves(r)
  BY <1>1, <1>2, <1>3, GoesMoves
<1>5. request[r] # NoWork
  BY <1>1, <1>2, BusyWork
<1>6. SoloStep(r)
  BY <1>1, <1>4, <1>5 DEF SoloStep, ReconcileGoesOn
<1> QED
  BY <1>2, <1>6, SoloStepKeeps

LEMMA ReconcileStarts ==
    ASSUME ClientsIInv, NEW r \in XRequests, Reconcile(r)
    PROVE  ClientsIInv'
<1>1. ClientsTypeOK
  BY DEF ClientsIInv
<1>2. PICK w \in Works : w = Work
  BY WorkIsWork
<1>3. PICK tags \in SUBSET XInbounds : tags = {i \in XInbounds : inbound[i] \in {"on", "error"}}
  OBVIOUS
<1>4. PICK todo \in SUBSET XClients : todo = UNION {Enabled(i) : i \in tags}
  BY DEF Enabled
<1>5. PICK v \in Works : /\ Reads(r, v) /\ v.tags = tags
                         /\ v.at = IF tags = {} THEN "apply" ELSE "first"
                         /\ tags # {} => v.todo = todo
  <2>1. CASE tags = {}
    <3>1. PICK v : v = [w EXCEPT !.at = "apply"]
      OBVIOUS
    <3>2. v \in Works /\ v.at = "apply" /\ v.tags = {}
      <4>1. v \in Works /\ v.at = "apply" /\ v.tags = w.tags
        BY <3>1 DEF Works, Steps, ReconcileSteps
      <4> QED
        BY <1>2, <4>1, WorkIsWork
    <3>3. Reads(r, v)
      BY <1>2, <1>3, <2>1, <3>1 DEF Reconcile
    <3> QED
      BY <2>1, <3>2, <3>3
  <2>2. CASE tags # {}
    <3>1. PICK v : v = [w EXCEPT !.at = "first", !.tags = tags, !.todo = todo]
      OBVIOUS
    <3>2. v \in Works /\ v.at = "first" /\ v.tags = tags /\ v.todo = todo
      <4>1. "first" \in Steps
        BY DEF Steps, ReconcileSteps
      <4> QED
        BY <3>1, <4>1 DEF Works
    <3>3. Reads(r, v)
      BY <1>2, <1>3, <1>4, <2>2, <3>1 DEF Reconcile
    <3> QED
      BY <2>2, <3>2, <3>3
  <2> QED
    BY <2>1, <2>2
<1>6. ClientsTypeOK' /\ UNCHANGED <<inbound, client, online, xnode, failed>>
  BY <1>1, <1>5, StartsTyped
<1>7. WellFormed(v) /\ v.at \notin UploadSteps
  BY <1>5 DEF WellFormed, OfClient, OfListed, OfInbound, OfOld, UploadSteps
<1>8. ASSUME Calm, Settled(NoWork)
      PROVE  Settled(v)'
  <2>1. InAgreement
    BY <1>8, SettledIdle
  <2>2. InAgreement'
    BY <1>6, <2>1, NothingButFor DEF InAgreement
  <2>3. Fits(v)'
    <3>1. \A i \in tags : inbound[i] = "on" /\ OfIn(i, todo) = Enabled(i)
      BY <1>3, <1>4, <2>1 DEF InAgreement, Sane, OfIn, Enabled
    <3>2. \A i \in tags : inbound'[i] = "on" /\ OfIn(i, todo)' = Enabled(i)'
      BY <1>6, <3>1 DEF OfIn, Enabled
    <3>3. tags = {} => \A i \in XInbounds : inbound'[i] # "on"
      BY <1>3, <1>6
    <3> QED
      BY <1>5, <3>2, <3>3 DEF Fits, OfIn
  <2> QED
    BY <2>2, <2>3 DEF Settled, InAgreement
<1>9. Reconciled(v)'
  BY <1>3, <1>5, <1>6 DEF Reconciled, Wanted
<1>10. FirstStep(r, v)
  BY <1>5, <1>6, <1>7, <1>8, <1>9 DEF FirstStep, Reads
<1> QED
  BY <1>5, <1>10, FirstStepKeeps

\* A reconciliation, between two of its steps, leaves nothing half changed.
LEMMA ReconcilingAgrees ==
    ASSUME NEW w, w.at \in ReconcileSteps
    PROVE  \A i, c : ~Moving(w, i) /\ ~Touching(w, c)
BY DEF ReconcileSteps, Moving, Touching

LEMMA ReconcilingSettled ==
    ASSUME ClientsTypeOK, NEW r \in XRequests, request[r].at \in ReconcileSteps
    PROVE  Settled(request[r]) <=> InAgreement /\ Fits(request[r])
<1>1. request[r] # NoWork
  BY BusyWork DEF ReconcileSteps
<1>2. \A i, c : ~Moving(request[r], i) /\ ~Touching(request[r], c)
  BY ReconcilingAgrees
<1> QED
  BY <1>1, <1>2 DEF Settled, InAgreement

LEMMA ReconcilingSettledNext ==
    ASSUME ClientsTypeOK', NEW r \in XRequests, request'[r].at \in ReconcileSteps,
           InAgreement', Fits(request[r])'
    PROVE  Settled(request[r])'
<1>1. \A i, c : (~Moving(request[r], i) /\ ~Touching(request[r], c))'
  BY ReconcilingAgrees DEF ReconcileSteps, Moving, Touching
<1> QED
  BY <1>1 DEF Settled, InAgreement

LEMMA RecoverStep ==
    ASSUME ClientsIInv, NEW r \in XRequests, Recover(r)
    PROVE  ClientsIInv'
<1>1. ClientsTypeOK /\ request[r].at = "recover"
  BY DEF ClientsIInv, Recover, At
<1>2. "tags" \in ReconcileSteps /\ "tags" \in Steps /\ request[r].at \in ReconcileSteps
      /\ request[r].at # "idle"
  BY <1>1 DEF Steps, ReconcileSteps
<1>3. Goes(r, "tags", request[r].d, request[r].want, request[r].todo, request[r].tags)
  BY <1>1, <1>2, ThenGoes DEF Recover
<1>4. /\ request' \in [XRequests -> Works \cup {NoWork}]
      /\ request'[r].at = "tags" /\ request'[r].want = request[r].want
  BY <1>3, GoesFields
<1>5. /\ \A i \in XInbounds : inbound'[i] = IF inbound[i] = "error" THEN "on" ELSE inbound[i]
      /\ inbound' \in [XInbounds -> Statuses]
  BY <1>1, TypedNode DEF Recover, Statuses
<1>6. OnRows /\ UNCHANGED <<client, forbidden>>
  BY DEF Recover
<1>7. ClientsTypeOK' /\ UNCHANGED <<online, xnode, failed, overlapped, disturbed>>
  BY <1>1, <1>4, <1>5, <1>6, OnRowsTyped, TypedNode DEF ClientsTypeOK
<1>8. ASSUME Settled(request[r])
      PROVE  Settled(request[r])'
  <2>1. InAgreement
    BY <1>1, <1>2, <1>8, ReconcilingSettled
  <2>2. \A i \in XInbounds : inbound'[i] = inbound[i]
    BY <1>5, <2>1 DEF InAgreement, Sane
  <2>3. InAgreement'
    BY <1>6, <1>7, <2>1, <2>2, ClientsAssumption
    DEF InAgreement, Sane, SameInbound, SameClient, On, xnode
  <2>4. Fits(request[r])'
    BY <1>4 DEF Fits
  <2> QED
    BY <1>2, <1>4, <1>7, <2>3, <2>4, ReconcilingSettledNext
<1>9. ASSUME Reconciled(request[r])
      PROVE  Reconciled(request[r])'
  BY <1>1, <1>4, <1>5, <1>7, <1>9 DEF Reconciled, NoErrors, Wanted, Serves, xnode
<1> QED
  BY <1>2, <1>3, <1>4, <1>7, <1>8, <1>9, ProceedReconcile

\* A call that fails, and is no failure, changes nothing.
LEMMA ReconcileCallsAgree ==
    ASSUME ClientsTypeOK, InAgreement, ~failed', UNCHANGED <<inbound, client, online>>,
           NEW i \in XInbounds, NEW s
    PROVE  /\ (AddInboundFails(i, s, FALSE) \/ RemoveInboundFails(i)) => InAgreement'
           /\ UNCHANGED xnode => InAgreement'
<1>1. (AddInboundFails(i, s, FALSE) \/ RemoveInboundFails(i)) => UNCHANGED xnode
  BY DEF AddInboundFails, RemoveInboundFails, Fails
<1>2. UNCHANGED xnode => InAgreement'
  BY NothingButFor DEF InAgreement
<1> QED
  BY <1>1, <1>2

LEMMA PushOneStep ==
    ASSUME ClientsIInv, NEW r \in XRequests, request[r].at \in {"first", "push"}, OnNode,
           NEW i \in request[r].tags, PushOne(r, i, "push")
    PROVE  ClientsIInv'
<1>1. ClientsTypeOK
  BY DEF ClientsIInv
<1>2. "push" \in ReconcileSteps /\ "push" \in Steps /\ request[r].at \in ReconcileSteps
      /\ request[r].at # "idle"
  BY DEF Steps, ReconcileSteps
<1>3. i \in XInbounds
  BY <1>1, <1>2, BusyWork, WorkFields
<1>4. PICK s \in SUBSET XClients : s = OfIn(i, request[r].todo)
  <2>1. request[r].todo \subseteq XClients
    BY <1>1, <1>2, BusyWork, WorkFields
  <2> QED
    BY <2>1 DEF OfIn
<1>5. ASSUME AddInboundOk(i, s), request' = [request EXCEPT ![r].at = "push", ![r].tags = @ \ {i}]
      PROVE  ClientsIInv'
  <2>1. Goes(r, "push", request[r].d, request[r].want, request[r].todo, request[r].tags \ {i})
    BY <1>1, <1>2, <1>3, <1>5, LessGoes
  <2>2. /\ request' \in [XRequests -> Works \cup {NoWork}] /\ request'[r].at = "push"
        /\ request'[r].want = request[r].want /\ request'[r].tags = request[r].tags \ {i}
    BY <2>1, GoesFields
  <2>3. NodeTyped' /\ (failed => failed')
    <3> PICK counts \in BOOLEAN : counts = FALSE
      OBVIOUS
    <3> QED
      BY <1>1, <1>3, <1>5, InboundCallsKeepTypes
  <2>4. ClientsTypeOK' /\ UNCHANGED <<inbound, client, online, overlapped, disturbed>>
    BY <1>1, <2>2, <2>3, OnNodeTyped
  <2>5. ASSUME Calm', Settled(request[r])
        PROVE  Settled(request[r])'
    <3>1. InAgreement /\ inbound[i] = "on" /\ s = Enabled(i)
      BY <1>1, <1>2, <1>4, <2>5, ReconcilingSettled DEF Fits
    <3>2. \A c \in s : Of[c] = i
      BY <1>4 DEF OfIn
    <3>3. ButForInbound(i) /\ served'[i].there /\ served'[i].clients = s
      BY <1>1, <1>3, <1>5, <2>4, <3>1, <3>2, AddInboundDone DEF InAgreement
    <3>4. SameInbound(i)'
      BY <2>4, <3>1, <3>3 DEF SameInbound
    <3>5. \A d \in XClients : Of[d] = i => SameClient(d)'
      BY <2>4, <3>1, <3>3 DEF SameClient, Enabled, On
    <3>6. InAgreement'
      BY <3>1, <3>3, <3>4, <3>5 DEF InAgreement, ButForInbound
    <3>7. Fits(request[r])'
      <4>1. \A j \in request[r].tags : inbound[j] = "on" /\ OfIn(j, request[r].todo) = Enabled(j)
        BY <1>1, <1>2, <2>5, ReconcilingSettled DEF Fits
      <4>2. request'[r].todo = request[r].todo
        BY <2>1, GoesFields
      <4> QED
        BY <2>2, <2>4, <4>1, <4>2 DEF Fits, OfIn, Enabled
    <3> QED
      BY <1>2, <2>2, <2>4, <3>6, <3>7, ReconcilingSettledNext
  <2>6. ASSUME Reconciled(request[r])
        PROVE  Reconciled(request[r])'
    <3>1. \A j \in XInbounds : Wanted(j) => j \in request[r].tags \/ Serves(j)
      BY <2>6 DEF Reconciled
    <3>2. /\ served' = [served EXCEPT ![i] = Serving(s)] /\ up' = TRUE
          /\ Serving(s).there
      BY <1>5, ServingIs DEF AddInboundOk, Succeeds, AddsInbound
    <3>3. /\ served'[i].there
          /\ \A j \in XInbounds \ {i} : served'[j] = served[j]
      BY <1>1, <1>3, <3>2, TypedNode DEF NodeTyped
    <3>4. \A j \in XInbounds : Wanted(j)' => j \in request'[r].tags \/ Serves(j)'
      BY <2>2, <2>4, <3>1, <3>2, <3>3 DEF Wanted, Serves
    <3> QED
      BY <2>2, <3>4 DEF Reconciled
  <2> QED
    BY <1>2, <2>1, <2>2, <2>3, <2>4, <2>5, <2>6, ProceedReconcile
<1>6. ASSUME NEW trouble \in BOOLEAN, trouble <=> Trouble(Serves(i)), AddInboundFails(i, s, FALSE),
             request' = [request EXCEPT ![r].at = "push", ![r].tags = @ \ {i}, ![r].want = @ \/ trouble]
      PROVE  ClientsIInv'
  <2>1. PICK want \in BOOLEAN :
          /\ want <=> (request[r].want \/ trouble)
          /\ Goes(r, "push", request[r].d, want, request[r].todo, request[r].tags \ {i})
    BY <1>1, <1>2, <1>3, <1>6, LessTriedGoes
  <2>2. /\ request' \in [XRequests -> Works \cup {NoWork}] /\ request'[r].at = "push"
        /\ request'[r].want = want /\ request'[r].tags = request[r].tags \ {i}
    BY <2>1, GoesFields
  <2>3. NodeTyped' /\ (failed => failed')
    <3>1. PICK counts \in BOOLEAN : counts = FALSE
      OBVIOUS
    <3>2. AddInboundFails(i, s, counts)
      BY <1>6, <3>1
    <3> QED
      BY <1>1, <1>3, <3>2, InboundCallsKeepTypes
  <2>4. ClientsTypeOK' /\ UNCHANGED <<inbound, client, online, overlapped, disturbed>>
    BY <1>1, <2>2, <2>3, OnNodeTyped
  <2>5. ASSUME Calm', Settled(request[r])
        PROVE  Settled(request[r])'
    <3>1. /\ InAgreement
          /\ \A j \in request[r].tags : inbound[j] = "on" /\ OfIn(j, request[r].todo) = Enabled(j)
      BY <1>1, <1>2, <2>5, ReconcilingSettled DEF Fits
    <3>2. InAgreement'
      BY <1>1, <1>3, <1>6, <2>4, <2>5, <3>1, ReconcileCallsAgree DEF Calm
    <3>3. Fits(request[r])'
      <4>1. request'[r].todo = request[r].todo
        BY <2>1, GoesFields
      <4> QED
        BY <2>2, <2>4, <3>1, <4>1 DEF Fits, OfIn, Enabled
    <3> QED
      BY <1>2, <2>2, <2>4, <3>2, <3>3, ReconcilingSettledNext
  <2>6. ASSUME ~request'[r].want, ~request[r].want => Reconciled(request[r])
        PROVE  Reconciled(request[r])'
    <3>1. \A j \in XInbounds : Wanted(j) => j \in request[r].tags \/ Serves(j)
      BY <2>1, <2>2, <2>6 DEF Reconciled
    <3>2. Serves(i)
      BY <1>6, <2>1, <2>2, <2>6 DEF Trouble
    <3>3. UNCHANGED xnode
      BY <1>6, <3>2 DEF AddInboundFails, Fails, AddsInbound
    <3>4. \A j \in XInbounds : Wanted(j)' => j \in request'[r].tags \/ Serves(j)'
      BY <2>2, <2>4, <3>1, <3>2, <3>3 DEF Wanted, Serves, xnode
    <3> QED
      BY <2>2, <3>4 DEF Reconciled
  <2> QED
    BY <1>2, <2>1, <2>3, <2>4, <2>5, <2>6, ProceedReconcile
<1>7. PICK trouble \in BOOLEAN : trouble = Trouble(Serves(i))
  BY DEF Trouble
<1> QED
  BY <1>4, <1>5, <1>6, <1>7 DEF PushOne

LEMMA PushStep ==
    ASSUME ClientsIInv, NEW r \in XRequests, Push(r)
    PROVE  ClientsIInv'
<1>1. ClientsTypeOK /\ request[r].at \in {"first", "push"} /\ OnNode
  BY DEF ClientsIInv, Push
<1>2. "recover" \in ReconcileSteps /\ "recover" \in Steps /\ request[r].at \in ReconcileSteps
      /\ request[r].at # "idle"
  BY <1>1 DEF Steps, ReconcileSteps
<1>3. ASSUME request[r].tags = {}, Then(r, "recover"), UNCHANGED <<xnode, failed>>
      PROVE  ClientsIInv'
  <2>1. Goes(r, "recover", request[r].d, request[r].want, request[r].todo, request[r].tags)
    BY <1>1, <1>2, <1>3, ThenGoes
  <2>2. /\ request' \in [XRequests -> Works \cup {NoWork}]
        /\ request'[r].at = "recover" /\ request'[r].want = request[r].want
    BY <2>1, GoesFields
  <2>3. ClientsTypeOK' /\ UNCHANGED <<inbound, client, online, overlapped, disturbed>>
    BY <1>1, <1>3, <2>2, TypedNode, OnNodeTyped DEF NodeTyped, xnode
  <2>4. ASSUME Settled(request[r])
        PROVE  Settled(request[r])'
    <3>1. InAgreement'
      BY <1>1, <1>2, <1>3, <2>3, <2>4, ReconcilingSettled, NothingButFor DEF InAgreement
    <3>2. Fits(request[r])'
      BY <2>2 DEF Fits
    <3> QED
      BY <1>2, <2>2, <2>3, <3>1, <3>2, ReconcilingSettledNext
  <2>5. ASSUME Reconciled(request[r])
        PROVE  Reconciled(request[r])'
    <3>1. \A j \in XInbounds : Wanted(j) => Serves(j)
      BY <1>1, <1>3, <2>5 DEF Reconciled
    <3> QED
      BY <1>3, <2>2, <2>3, <3>1 DEF Reconciled, Wanted, Serves, xnode
  <2> QED
    BY <1>2, <1>3, <2>1, <2>2, <2>3, <2>4, <2>5, ProceedReconcile
<1> QED
  BY <1>1, <1>3, PushOneStep DEF Push

LEMMA PushFailsStep ==
    ASSUME ClientsIInv, NEW r \in XRequests, PushFails(r)
    PROVE  ClientsIInv'
<1>1. ClientsTypeOK /\ request[r].at = "first" /\ OnNode /\ failed' = TRUE /\ UNCHANGED xnode
  BY DEF ClientsIInv, PushFails, At
<1>2. "apply" \in ReconcileSteps /\ "apply" \in Steps /\ request[r].at \in ReconcileSteps
      /\ request[r].at # "idle"
  BY <1>1 DEF Steps, ReconcileSteps
<1>3. Goes(r, "apply", request[r].d, request[r].want, request[r].todo, request[r].tags)
  BY <1>1, <1>2, ThenGoes DEF PushFails
<1>4. /\ request' \in [XRequests -> Works \cup {NoWork}] /\ request'[r].at = "apply"
      /\ request'[r].want = request[r].want /\ request'[r].tags = request[r].tags
  BY <1>3, GoesFields
<1>5. ClientsTypeOK' /\ UNCHANGED <<inbound, client, online, overlapped, disturbed>>
  BY <1>1, <1>4, TypedNode, OnNodeTyped DEF NodeTyped, xnode
<1>6. ASSUME Reconciled(request[r])
      PROVE  Reconciled(request[r])'
  BY <1>1, <1>4, <1>5, <1>6 DEF Reconciled, Wanted
<1> QED
  BY <1>1, <1>2, <1>3, <1>4, <1>5, <1>6, ProceedReconcile DEF Calm

LEMMA ApplyAllStep ==
    ASSUME ClientsIInv, NEW r \in XRequests, ApplyAll(r)
    PROVE  ClientsIInv'
<1>1. ClientsTypeOK /\ request[r].at = "apply" /\ OnNode
  BY DEF ClientsIInv, ApplyAll, At
<1>2. /\ {"tags", "recover"} \subseteq ReconcileSteps \cap Steps /\ request[r].at \in ReconcileSteps
      /\ request[r].at # "idle"
  BY <1>1 DEF Steps, ReconcileSteps
<1>3. PICK w \in Works : w = request[r]
  BY <1>1, <1>2, BusyWork
<1> DEFINE applies == /\ up' = TRUE
                      /\ served' = [i \in XInbounds |-> IF i \in w.tags THEN Serving(OfIn(i, w.todo))
                                                                       ELSE Unlisted]
<1>4. ASSUME w.tags = {}, StopAnyhow, Then(r, "tags")
      PROVE  ClientsIInv'
  <2>1. Goes(r, "tags", request[r].d, request[r].want, request[r].todo, request[r].tags)
    BY <1>1, <1>2, <1>4, ThenGoes
  <2>2. /\ request' \in [XRequests -> Works \cup {NoWork}]
        /\ request'[r].at = "tags" /\ request'[r].want = request[r].want
    BY <2>1, GoesFields
  <2>3. ClientsTypeOK' /\ (failed => failed') /\ UNCHANGED <<inbound, client, online, overlapped, disturbed>>
    BY <1>1, <1>4, <2>2, StopKeepsTypes, OnNodeTyped
  <2>4. ASSUME Calm', Settled(request[r])
        PROVE  Settled(request[r])'
    <3>1. InAgreement /\ \A i \in XInbounds : inbound[i] # "on"
      BY <1>1, <1>2, <2>4, ReconcilingSettled DEF Fits
    <3>2. InAgreement'
      BY <1>1, <1>4, <2>3, <2>4, <3>1, StopKeepsAgreement DEF Calm
    <3>3. Fits(request[r])'
      BY <2>2 DEF Fits
    <3> QED
      BY <1>2, <2>2, <2>3, <3>2, <3>3, ReconcilingSettledNext
  <2>5. ASSUME Reconciled(request[r])
        PROVE  Reconciled(request[r])'
    <3>1. \A i \in XInbounds : ~Wanted(i)
      BY <1>1, <1>3, <1>4, <2>5 DEF Reconciled
    <3> QED
      BY <2>2, <2>3, <3>1 DEF Reconciled, NoErrors, Wanted
  <2> QED
    BY <1>2, <2>1, <2>2, <2>3, <2>4, <2>5, ProceedReconcile
<1>5. ASSUME applies
      PROVE  /\ up' = TRUE /\ served' \in [XInbounds -> ServedRows]
             /\ \A i \in XInbounds : served'[i].there <=> i \in w.tags
  <2>1. \A i \in XInbounds : OfIn(i, w.todo) \in SUBSET XClients
    BY WorkFields DEF OfIn
  <2>2. \A i \in XInbounds : /\ Serving(OfIn(i, w.todo)) \in ServedRows
                             /\ Serving(OfIn(i, w.todo)).there
    BY <2>1, ServingIs
  <2>3. Unlisted \in ServedRows /\ ~Unlisted.there
    BY DEF ServedRows, Unlisted
  <2> HIDE DEF ServedRows
  <2> QED
    BY <1>5, <2>2, <2>3
<1>6. ASSUME w.tags # {}, online, applies, failed' = failed, Then(r, "recover")
      PROVE  ClientsIInv'
  <2>1. Goes(r, "recover", request[r].d, request[r].want, request[r].todo, request[r].tags)
    BY <1>1, <1>2, <1>6, ThenGoes
  <2>2. /\ request' \in [XRequests -> Works \cup {NoWork}]
        /\ request'[r].at = "recover" /\ request'[r].want = request[r].want
    BY <2>1, GoesFields
  <2>3. NodeTyped'
    BY <1>1, <1>5, <1>6, TypedNode DEF NodeTyped
  <2>4. ClientsTypeOK' /\ UNCHANGED <<inbound, client, online, overlapped, disturbed>>
    BY <1>1, <2>2, <2>3, OnNodeTyped
  <2>5. ~Settled(request[r])
    BY <1>1, <1>2, <1>3, <1>6, ReconcilingSettled DEF Fits
  <2>6. ASSUME Reconciled(request[r])
        PROVE  Reconciled(request[r])'
    <3>1. \A i \in XInbounds : Wanted(i) => i \in w.tags
      BY <1>1, <1>3, <2>6 DEF Reconciled
    <3> QED
      BY <1>5, <1>6, <2>2, <2>4, <3>1 DEF Reconciled, Wanted, Serves
  <2> QED
    BY <1>2, <1>6, <2>1, <2>2, <2>4, <2>5, <2>6, ProceedReconcile
<1>7. ASSUME failed' = TRUE, UNCHANGED xnode \/ applies \/ Stops,
             request' = [request EXCEPT ![r].at = "tags", ![r].want = TRUE]
      PROVE  ClientsIInv'
  <2>1. PICK want \in BOOLEAN : want = TRUE
    OBVIOUS
  <2>2. request' = [request EXCEPT ![r].at = "tags", ![r].want = want]
    BY <1>7, <2>1
  <2>3. \A at \in Steps, x \in BOOLEAN :
          request' = [request EXCEPT ![r].at = at, ![r].want = x]
            => Goes(r, at, request[r].d, x, request[r].todo, request[r].tags)
    BY <1>1, <1>2, WantGoes
  <2>4. Goes(r, "tags", request[r].d, want, request[r].todo, request[r].tags)
    BY <1>2, <2>2, <2>3
  <2>5. /\ request' \in [XRequests -> Works \cup {NoWork}]
        /\ request'[r].at = "tags" /\ request'[r].want = want
    BY <2>4, GoesFields
  <2>6. NodeTyped'
    <3>1. up' \in BOOLEAN /\ served' \in [XInbounds -> ServedRows]
      <4> HIDE DEF applies, ServedRows
      <4>1. CASE UNCHANGED xnode
        BY <1>1, <4>1, TypedNode DEF NodeTyped, xnode
      <4>2. CASE applies
        BY <1>5, <4>2
      <4>3. CASE Stops
        BY <1>1, <4>3, TypedNode DEF NodeTyped, Stops
      <4> QED
        BY <1>7, <4>1, <4>2, <4>3
    <3> QED
      BY <1>7, <3>1 DEF NodeTyped
  <2>7. ClientsTypeOK' /\ UNCHANGED <<inbound, client, online, overlapped, disturbed>>
    BY <1>1, <2>5, <2>6, OnNodeTyped
  <2> QED
    BY <1>2, <1>7, <2>1, <2>4, <2>5, <2>7, ProceedReconcile DEF Calm
<1>8. /\ Fails(applies, TRUE, TRUE) => failed' = TRUE /\ (UNCHANGED xnode \/ applies)
      /\ Fails(Stops, TRUE, TRUE) => failed' = TRUE /\ (UNCHANGED xnode \/ Stops)
  BY DEF Fails
<1>9. Succeeds(applies) => online /\ applies /\ failed' = failed
  BY DEF Succeeds
<1>10. \/ w.tags = {} /\ StopAnyhow /\ Then(r, "tags")
       \/ w.tags # {} /\ Succeeds(applies) /\ Then(r, "recover")
       \/ /\ Fails(applies, TRUE, TRUE) \/ Fails(Stops, TRUE, TRUE)
          /\ request' = [request EXCEPT ![r].at = "tags", ![r].want = TRUE]
  <2>1. CASE w.tags = {}
    BY <1>3, <2>1 DEF ApplyAll, StopAnyhow
  <2>2. CASE w.tags # {}
    BY <1>3, <2>2 DEF ApplyAll
  <2> QED
    BY <2>1, <2>2
<1> HIDE DEF applies
<1> QED
  BY <1>4, <1>6, <1>7, <1>8, <1>9, <1>10

\* A reconciliation is given up, or done.
LEMMA ReconcileEnds ==
    ASSUME ClientsIInv, NEW r \in XRequests, request[r].at \in ReconcileSteps, OnNode,
           UNCHANGED xnode, failed' \in BOOLEAN, failed => failed', Ends(r)
    PROVE  ClientsIInv'
<1>1. ClientsTypeOK
  BY DEF ClientsIInv
<1>2. request[r].at # "idle" /\ request[r].at \notin UploadSteps
  BY DEF ReconcileSteps, UploadSteps
<1>3. request' \in [XRequests -> Works \cup {NoWork}]
  BY <1>1, EndsGoes
<1>4. ClientsTypeOK' /\ UNCHANGED <<inbound, client, online, overlapped, disturbed>>
  BY <1>1, <1>3, TypedNode, OnNodeTyped DEF NodeTyped, xnode
<1>5. ASSUME Settled(request[r])
      PROVE  InAgreement'
  <2>1. InAgreement
    BY <1>1, <1>5, ReconcilingSettled
  <2> QED
    BY <1>4, <2>1, NothingButFor DEF InAgreement
<1> QED
  BY <1>2, <1>4, <1>5, Finish DEF Finishes

LEMMA GetTagsStep ==
    ASSUME ClientsIInv, NEW r \in XRequests, GetTags(r)
    PROVE  ClientsIInv'
<1>1. ClientsTypeOK /\ request[r].at = "tags" /\ OnNode /\ UNCHANGED xnode
  BY DEF ClientsIInv, GetTags, At
<1>2. "query" \in ReconcileSteps /\ "query" \in Steps /\ request[r].at \in ReconcileSteps
      /\ request[r].at # "idle"
  BY <1>1 DEF Steps, ReconcileSteps
<1>3. PICK tags \in SUBSET XInbounds : tags = {i \in XInbounds : served[i].there /\ TagId[i] # NoId}
  OBVIOUS
<1>4. ASSUME request' = [request EXCEPT ![r].at = "query", ![r].tags = tags], failed' = failed
      PROVE  ClientsIInv'
  <2>1. Goes(r, "query", request[r].d, request[r].want, request[r].todo, tags)
    BY <1>1, <1>2, <1>4, TagsGoes
  <2>2. /\ request' \in [XRequests -> Works \cup {NoWork}] /\ request'[r].at = "query"
        /\ request'[r].want = request[r].want /\ request'[r].tags = tags
    BY <2>1, GoesFields
  <2>3. ClientsTypeOK' /\ UNCHANGED <<inbound, client, online, overlapped, disturbed>>
    BY <1>1, <1>4, <2>2, TypedNode, OnNodeTyped DEF NodeTyped, xnode
  <2>4. ASSUME Settled(request[r])
        PROVE  Settled(request[r])'
    <3>1. InAgreement'
      BY <1>1, <1>2, <2>3, <2>4, ReconcilingSettled, NothingButFor DEF InAgreement
    <3>2. Fits(request[r])'
      BY <1>3, <2>2 DEF Fits
    <3> QED
      BY <1>2, <2>2, <2>3, <3>1, <3>2, ReconcilingSettledNext
  <2>5. ASSUME Reconciled(request[r])
        PROVE  Reconciled(request[r])'
    BY <1>1, <1>3, <2>2, <2>3, <2>5 DEF Reconciled, NoErrors, Serves, xnode
  <2> QED
    BY <1>2, <1>4, <2>1, <2>2, <2>3, <2>4, <2>5, ProceedReconcile
<1>5. ASSUME Ends(r), failed' = TRUE
      PROVE  ClientsIInv'
  BY <1>1, <1>2, <1>5, ReconcileEnds
<1> QED
  BY <1>3, <1>4, <1>5 DEF GetTags

LEMMA QueryRowsStep ==
    ASSUME ClientsIInv, NEW r \in XRequests, QueryRows(r)
    PROVE  ClientsIInv'
<1>1. ClientsTypeOK /\ request[r].at = "query" /\ OnNothing
  BY DEF ClientsIInv, QueryRows, At
<1>2. "clean" \in ReconcileSteps /\ "clean" \in Steps /\ request[r].at \in ReconcileSteps
      /\ request[r].at # "idle"
  BY <1>1 DEF Steps, ReconcileSteps
<1>3. PICK w \in Works : w = request[r]
  BY <1>1, <1>2, BusyWork
<1>4. PICK tags \in SUBSET XInbounds : tags = {i \in w.tags : ~Listed(TagId[i])}
  BY WorkFields
<1>5. request' = [request EXCEPT ![r].at = "clean", ![r].tags = tags]
  BY <1>1, <1>3, <1>4 DEF QueryRows, ClientsTypeOK
<1>6. Goes(r, "clean", request[r].d, request[r].want, request[r].todo, tags)
  BY <1>1, <1>2, <1>5, TagsGoes
<1>7. /\ request' \in [XRequests -> Works \cup {NoWork}] /\ request'[r].at = "clean"
      /\ request'[r].want = request[r].want /\ request'[r].tags = tags
  BY <1>6, GoesFields
<1>8. ClientsTypeOK' /\ UNCHANGED <<inbound, client, online, xnode, failed, overlapped, disturbed>>
  BY <1>1, <1>7, TypedNode, OnRowsTyped DEF OnNothing, ClientsTypeOK
<1>9. ASSUME Settled(request[r])
      PROVE  Settled(request[r])'
  <2>1. InAgreement'
    BY <1>1, <1>2, <1>8, <1>9, ReconcilingSettled, NothingButFor DEF InAgreement
  <2>2. Fits(request[r])'
    <3>1. \A i \in w.tags : TagId[i] # NoId
      BY <1>1, <1>2, <1>3, <1>9, ReconcilingSettled DEF Fits
    <3>2. \A i \in tags : inbound[i] = "on" => Foreign(i)
      BY <1>4, <3>1 DEF Foreign, Listed
    <3> QED
      BY <1>7, <1>8, <3>2 DEF Fits, Foreign
  <2> QED
    BY <1>2, <1>7, <1>8, <2>1, <2>2, ReconcilingSettledNext
<1>10. ASSUME Reconciled(request[r])
       PROVE  Reconciled(request[r])'
  <2>1. /\ \A i \in w.tags : TagId[i] # NoId
        /\ \A i \in XInbounds : served[i].there /\ TagId[i] # NoId => i \in w.tags
        /\ NoErrors
    BY <1>1, <1>3, <1>10 DEF Reconciled
  <2>2. /\ \A i \in tags : ~Spared(i)
        /\ \A i \in XInbounds : /\ inbound[i] # "error"
                                /\ inbound[i] = "on" => Serves(i)
                                /\ Serves(i) => i \in tags \/ Spared(i)
    BY <1>4, <2>1 DEF NoErrors, Spared, Serves
  <2> QED
    BY <1>7, <1>8, <2>2 DEF Reconciled, Spared, Serves, Listed, xnode
<1> QED
  BY <1>2, <1>6, <1>7, <1>8, <1>9, <1>10, ProceedReconcile

\* Without the inbound whose tag is foreign, or whose row is not enabled.
LEMMA CleanedAgrees ==
    ASSUME ClientsTypeOK, NEW i \in XInbounds, RemoveInboundOk(i), InAgreement,
           inbound[i] = "on" => Foreign(i), UNCHANGED <<inbound, client, online>>
    PROVE  InAgreement'
<1>1. served' = [served EXCEPT ![i] = Unlisted] /\ up' = up
  BY DEF RemoveInboundOk, Succeeds, RemovesInbound
<1>2. /\ ~served'[i].there
      /\ \A j \in XInbounds \ {i} : served'[j] = served[j]
  BY <1>1, TypedNode DEF NodeTyped, Unlisted
<1>3. Sane'
  BY <1>1, <1>2 DEF InAgreement, Sane
<1>4. \A j \in XInbounds : SameInbound(j)'
  BY <1>2 DEF InAgreement, SameInbound, Foreign
<1>5. \A c \in XClients : SameClient(c)'
  BY <1>2, ClientsAssumption DEF InAgreement, SameClient, On
<1> QED
  BY <1>3, <1>4, <1>5 DEF InAgreement

LEMMA CleanStep ==
    ASSUME ClientsIInv, NEW r \in XRequests, Clean(r)
    PROVE  ClientsIInv'
<1>1. ClientsTypeOK /\ request[r].at = "clean" /\ OnNode
  BY DEF ClientsIInv, Clean, At
<1>2. "clean" \in ReconcileSteps /\ "clean" \in Steps /\ request[r].at \in ReconcileSteps
      /\ request[r].at # "idle"
  BY <1>1 DEF Steps, ReconcileSteps
<1>3. request[r].tags \subseteq XInbounds
  BY <1>1, <1>2, BusyWork, WorkFields
<1>4. ASSUME NEW i \in request[r].tags, RemoveInboundOk(i), request' = [request EXCEPT ![r].tags = @ \ {i}]
      PROVE  ClientsIInv'
  <2>0. i \in XInbounds
    BY <1>3
  <2>1. Goes(r, "clean", request[r].d, request[r].want, request[r].todo, request[r].tags \ {i})
    BY <1>1, <1>4, <2>0, CleanedGoes
  <2>2. /\ request' \in [XRequests -> Works \cup {NoWork}] /\ request'[r].at = "clean"
        /\ request'[r].want = request[r].want /\ request'[r].tags = request[r].tags \ {i}
    BY <2>1, GoesFields
  <2>3. NodeTyped' /\ (failed => failed')
    BY <1>1, <1>4, <2>0, InboundCallsKeepTypes
  <2>4. ClientsTypeOK' /\ UNCHANGED <<inbound, client, online, overlapped, disturbed>>
    BY <1>1, <2>2, <2>3, OnNodeTyped
  <2>5. ASSUME Calm', Settled(request[r])
        PROVE  Settled(request[r])'
    <3>1. InAgreement /\ \A j \in request[r].tags : inbound[j] = "on" => Foreign(j)
      BY <1>1, <1>2, <2>5, ReconcilingSettled DEF Fits
    <3>2. InAgreement'
      BY <1>4, <2>0, <2>4, <3>1, <1>1, CleanedAgrees
    <3>3. Fits(request[r])'
      BY <2>2, <2>4, <3>1 DEF Fits, Foreign
    <3> QED
      BY <1>2, <2>2, <2>4, <3>2, <3>3, ReconcilingSettledNext
  <2>6. ASSUME Reconciled(request[r])
        PROVE  Reconciled(request[r])'
    <3>1. /\ \A j \in request[r].tags : ~Spared(j)
          /\ \A j \in XInbounds : /\ inbound[j] # "error"
                                  /\ inbound[j] = "on" /\ Spared(j) => Serves(j)
                                  /\ Serves(j) => j \in request[r].tags \/ Spared(j)
      BY <1>1, <2>6 DEF Reconciled
    <3>2. \A j \in XInbounds : Spared(j)' <=> Spared(j)
      BY <2>4 DEF Spared, Listed
    <3>3. served' = [served EXCEPT ![i] = Unlisted] /\ up' = up
      BY <1>4 DEF RemoveInboundOk, Succeeds, RemovesInbound
    <3>4. /\ ~served'[i].there
          /\ \A j \in XInbounds \ {i} : served'[j] = served[j]
      BY <1>1, <2>0, <3>3, TypedNode DEF NodeTyped, Unlisted
    <3>5. ASSUME NEW j \in XInbounds
          PROVE  /\ inbound'[j] # "error"
                 /\ inbound'[j] = "on" /\ Spared(j)' => Serves(j)'
                 /\ Serves(j)' => j \in request'[r].tags \/ Spared(j)'
      <4>1. CASE j = i
        BY <2>4, <3>1, <3>2, <3>4, <4>1 DEF Serves
      <4>2. CASE j # i
        <5>1. Serves(j)' <=> Serves(j)
          BY <3>3, <3>4, <4>2 DEF Serves
        <5> QED
          BY <2>2, <2>4, <3>1, <3>2, <4>2, <5>1
      <4> QED
        BY <4>1, <4>2
    <3>6. \A j \in request'[r].tags : ~Spared(j)'
      BY <1>3, <2>2, <3>1, <3>2
    <3> QED
      BY <2>2, <3>5, <3>6 DEF Reconciled
  <2> QED
    BY <1>2, <2>1, <2>2, <2>3, <2>4, <2>5, <2>6, ProceedReconcile
<1>5. ASSUME NEW i \in request[r].tags, RemoveInboundFails(i),
             request' = [request EXCEPT ![r].tags = @ \ {i}, ![r].want = TRUE]
      PROVE  ClientsIInv'
  <2>0. i \in XInbounds
    BY <1>3
  <2>1. PICK want \in BOOLEAN :
          /\ want
          /\ Goes(r, "clean", request[r].d, want, request[r].todo, request[r].tags \ {i})
    BY <1>1, <1>5, <2>0, NotCleanedGoes
  <2>2. /\ request' \in [XRequests -> Works \cup {NoWork}] /\ request'[r].at = "clean"
        /\ request'[r].want = want /\ request'[r].tags = request[r].tags \ {i}
    BY ZenonT(60), <2>1, GoesFields
  <2>3. NodeTyped' /\ (failed => failed')
    BY <1>1, <1>5, <2>0, InboundCallsKeepTypes
  <2>4. ClientsTypeOK' /\ UNCHANGED <<inbound, client, online, overlapped, disturbed>>
    BY <1>1, <2>2, <2>3, OnNodeTyped
  <2>5. ASSUME Calm', Settled(request[r])
        PROVE  Settled(request[r])'
    <3>1. InAgreement /\ \A j \in request[r].tags : inbound[j] = "on" => Foreign(j)
      BY <1>1, <1>2, <2>5, ReconcilingSettled DEF Fits
    <3>2. InAgreement'
      BY <1>1, <1>5, <2>0, <2>4, <2>5, <3>1, ReconcileCallsAgree DEF Calm
    <3>3. Fits(request[r])'
      BY <2>2, <2>4, <3>1 DEF Fits, Foreign
    <3> QED
      BY <1>2, <2>2, <2>4, <3>2, <3>3, ReconcilingSettledNext
  <2> QED
    BY <1>2, <2>1, <2>2, <2>3, <2>4, <2>5, ProceedReconcile
<1>6. ASSUME Ends(r), UNCHANGED <<xnode, failed>>
      PROVE  ClientsIInv'
  BY <1>1, <1>2, <1>6, ReconcileEnds DEF ClientsTypeOK
<1> QED
  BY <1>1, <1>4, <1>5, <1>6 DEF Clean
-----------------------------------------------------------------------------
(* Uploads, of which several may be at work.                                 *)

\* What is to be shown of a step of an upload.
UploadKeeps(r) ==
    /\ Sane'
    /\ \A c \in XClients : On(c)' => On(c)
    /\ \A i \in XInbounds : SameInbound(i) => SameInbound(i)'
    /\ request'[r] # NoWork => Fits(request[r])'
    /\ \A c \in XClients : \/ Touching(request[r], c)'
                           \/ /\ Touching(request[r], c) => SameClient(c)'
                              /\ SameClient(c) => SameClient(c)'

LEMMA UploadFits ==
    ASSUME NEW w, w.at \in UploadSteps
    PROVE  Fits(w) <=> (w.at = "last" => ~On(w.c)) /\ (w.at = "drop" => ~On(w.d))
BY DEF Fits, UploadSteps

LEMMA UploadsAreStill ==
    ASSUME NEW w, w.at \in UploadSteps
    PROVE  \A i : ~Moving(w, i)
BY DEF Moving, UploadSteps

\* Whether a request touches a client is in its record.
LEMMA UploadsInStep ==
    ASSUME ClientsTypeOK, WorksAreFormed, InStep, Calm, NEW r \in XRequests,
           \A q \in XRequests : request[q] = NoWork \/ request[q].at \in UploadSteps,
           \A q \in XRequests \ {r} : request'[q] = request[q],
           (Sane /\ (\A i \in XInbounds : SameInbound(i)) /\ (request[r] # NoWork => Fits(request[r])))
               => UploadKeeps(r)
    PROVE  InStep'
<1>1. \A q \in XRequests, i \in XInbounds : ~Moving(request[q], i)
  BY IdleIsStill, UploadsAreStill
<1>2. Sane /\ \A i \in XInbounds : SameInbound(i)
  BY <1>1 DEF InStep
<1>3. \A q \in XRequests : request[q] # NoWork => Fits(request[q])
  BY DEF InStep
<1>4. UploadKeeps(r)
  BY <1>2, <1>3
<1>5. ASSUME NEW q \in XRequests, request'[q] # NoWork
      PROVE  Fits(request[q])'
  <2>1. CASE q = r
    BY <1>4, <1>5, <2>1 DEF UploadKeeps
  <2>2. CASE q # r
    <3>1. PICK w : w = request[q] /\ w = request'[q]
      BY <2>2
    <3>2. w # NoWork /\ w.at \in UploadSteps /\ WellFormed(w) /\ Fits(w)
      BY <1>3, <1>5, <3>1 DEF WorksAreFormed
    <3>3. /\ w.at = "last" => w.c \in XClients /\ ~On(w.c)
          /\ w.at = "drop" => w.d \in XClients /\ ~On(w.d)
      BY <3>2, UploadFits DEF WellFormed, OfClient, OfListed, UploadSteps
    <3>4. Fits(w)'
      BY <1>4, <3>2, <3>3 DEF UploadKeeps, Fits, UploadSteps
    <3> QED
      BY <3>1, <3>4
  <2> QED
    BY <2>1, <2>2
<1>6. ASSUME NEW c \in XClients, \A q \in XRequests : ~Touching(request[q], c)'
      PROVE  SameClient(c)'
  <2>1. \A q \in XRequests \ {r} : ~Touching(request[q], c)
    BY <1>6 DEF Touching
  <2>2. ~Touching(request[r], c) => SameClient(c)
    BY <2>1 DEF InStep
  <2> QED
    BY <1>4, <1>6, <2>2 DEF UploadKeeps
<1> QED
  BY <1>2, <1>4, <1>5, <1>6 DEF InStep, UploadKeeps

LEMMA UploadStepKeeps ==
    ASSUME ClientsIInv, NEW r \in XRequests, request[r].at \in UploadSteps, XMoves(r),
           ClientsTypeOK', failed => failed',
           (Calm /\ Calm' /\ Sane /\ (\A i \in XInbounds : SameInbound(i)) /\ Fits(request[r]))
               => UploadKeeps(r)
    PROVE  ClientsIInv'
<1>1. ClientsTypeOK /\ XShaped /\ InStep /\ ReconcileGoesOn /\ WorksAreFormed
  BY DEF ClientsIInv, XShaped
<1>2. request[r].at # "idle"
  BY DEF UploadSteps
<1>3. XShaped'
  BY <1>1, <1>2, MovesKeepShape
<1>4. ReconcileGoesOn'
  <2>1. request'[r] # NoWork => Reconciled(request[r])'
    BY DEF XMoves, UploadSteps, Reconciled
  <2> QED
    BY <1>1, <1>2, <2>1, MovesKeepReconcile
<1>5. InStep'
  <2> SUFFICES ASSUME Calm'
               PROVE  InStep'
    BY DEF InStep
  <2>1. Calm /\ request[r] # NoWork
    BY <1>1, <1>2, BusyWork DEF Calm, XMoves
  <2>2. \A q \in XRequests : request[q] = NoWork \/ request[q].at \in UploadSteps
    BY <1>1, <2>1 DEF XShaped, OnlyUploads, Calm
  <2> QED
    BY <1>1, <2>1, <2>2, UploadsInStep DEF XMoves
<1> QED
  BY <1>3, <1>4, <1>5 DEF ClientsIInv, XShaped

LEMMA UploadGoes ==
    ASSUME ClientsIInv, NEW r \in XRequests, request[r].at \in UploadSteps,
           NEW at \in UploadSteps, NEW d, NEW want, NEW todo, NEW tags,
           Goes(r, at, d, want, todo, tags), at = "drop" => d \in XClients,
           UNCHANGED <<overlapped, disturbed>>
    PROVE  XMoves(r)
<1>1. ClientsTypeOK /\ WorksAreFormed /\ request[r].at # "idle"
  BY DEF ClientsIInv, UploadSteps
<1>2. Allowed(request[r], at, d)
  BY DEF Allowed, UploadSteps, OfClient, OfListed, OfInbound, OfOld
<1> QED
  BY <1>1, <1>2, GoesMoves

\* A step that changes neither the node nor whether a client is enabled.
LEMMA UploadPasses ==
    ASSUME ClientsIInv, NEW r \in XRequests, request[r].at \in UploadSteps \ {"drop", "last"}, XMoves(r),
           ClientsTypeOK', UNCHANGED <<inbound, online, xnode, failed>>,
           \A c \in XClients : (client'[c].there <=> client[c].there) /\ (On(c)' <=> On(c)),
           request'[r] # NoWork => request'[r].at \notin {"drop", "last"}
    PROVE  ClientsIInv'
<1>1. ASSUME Sane
      PROVE  UploadKeeps(r)
  <2>1. Sane' /\ \A i \in XInbounds : SameInbound(i) => SameInbound(i)'
    BY <1>1 DEF Sane, SameInbound, xnode
  <2>2. \A c \in XClients : SameClient(c) => SameClient(c)'
    BY DEF SameClient, xnode
  <2>3. request'[r] # NoWork => Fits(request[r])'
    BY DEF XMoves, Fits, UploadSteps
  <2>4. \A c \in XClients : ~Touching(request[r], c)
    BY DEF Touching, UploadSteps
  <2> QED
    BY <2>1, <2>2, <2>3, <2>4 DEF UploadKeeps
<1> QED
  BY <1>1, UploadStepKeeps

LEMMA BookStep ==
    ASSUME ClientsIInv, NEW r \in XRequests, Book(r)
    PROVE  ClientsIInv'
<1>1. ClientsTypeOK /\ WorksAreFormed /\ request[r].at = "book"
  BY DEF ClientsIInv, Book, At
<1>2. /\ request[r].at \in UploadSteps \ {"drop", "last"} /\ request[r].at # "idle"
      /\ "charge" \in UploadSteps /\ "charge" \in Steps
  BY <1>1 DEF UploadSteps, Steps
<1>3. PICK c \in XClients : c = request[r].c
  BY <1>1, ClientOfWork DEF OfClient, UploadSteps
<1>4. Goes(r, "charge", request[r].d, request[r].want, request[r].todo, request[r].tags)
  BY <1>1, <1>2, ThenGoes DEF Book
<1>5. request' \in [XRequests -> Works \cup {NoWork}] /\ request'[r].at = "charge"
  BY <1>4, GoesFields
<1>6. OnRows /\ UNCHANGED <<inbound, forbidden>>
  BY DEF Book
<1>7. /\ client' \in [XClients -> ClientRows \cup {NoClient, Erased}]
      /\ \A x \in XClients : (client'[x].there <=> client[x].there) /\ (On(x)' <=> On(x))
  <2>1. CASE ~client[c].there
    BY <1>1, <1>3, <2>1, TypedNode DEF Book, On
  <2>2. CASE client[c].there
    <3>1. PICK x \in ClientRows : x = client[c]
      BY <1>1, <2>2, TypedNode DEF NoClient, Erased
    <3>2. PICK n \in Nat : n = x.used + 1
      BY DEF ClientRows
    <3>3. PICK y : y = [x EXCEPT !.used = n]
      OBVIOUS
    <3>4. y \in ClientRows /\ y.enable = x.enable /\ y.there = x.there
      BY <3>3 DEF ClientRows
    <3>5. client' = [client EXCEPT ![c] = y]
      BY <1>1, <1>3, <2>2, <3>1, <3>2, <3>3, TypedNode DEF Book
    <3> HIDE DEF ClientRows
    <3> QED
      BY <1>1, <3>1, <3>4, <3>5, TypedNode DEF On
  <2> QED
    BY <2>1, <2>2
<1>8. ClientsTypeOK' /\ UNCHANGED <<online, xnode, failed, overlapped, disturbed>>
  BY <1>1, <1>5, <1>6, <1>7, OnRowsTyped, TypedNode DEF ClientsTypeOK
<1>9. XMoves(r)
  BY <1>2, <1>4, <1>8, UploadGoes
<1> QED
  BY <1>2, <1>5, <1>6, <1>7, <1>8, <1>9, UploadPasses

LEMMA ChargeUserStep ==
    ASSUME ClientsIInv, NEW r \in XRequests, ChargeUser(r)
    PROVE  ClientsIInv'
<1>1. ClientsTypeOK /\ request[r].at = "charge"
  BY DEF ClientsIInv, ChargeUser, At
<1>2. /\ request[r].at \in UploadSteps \ {"drop", "last"} /\ request[r].at # "idle"
      /\ "check" \in UploadSteps /\ "check" \in Steps
  BY <1>1 DEF UploadSteps, Steps
<1>3. Goes(r, "check", request[r].d, request[r].want, request[r].todo, request[r].tags)
  BY <1>1, <1>2, ThenGoes DEF ChargeUser
<1>4. request' \in [XRequests -> Works \cup {NoWork}] /\ request'[r].at = "check"
  BY <1>3, GoesFields
<1>5. /\ userUse' = userUse + 1
      /\ UNCHANGED <<inbound, client, online, xnode, uses, forbidden, failed, overlapped, disturbed>>
  BY DEF ChargeUser
<1>6. ClientsTypeOK'
  BY <1>1, <1>4, <1>5 DEF ClientsTypeOK, xnode
<1>7. XMoves(r)
  BY <1>2, <1>3, <1>5, UploadGoes
<1> QED
  BY <1>2, <1>4, <1>5, <1>6, <1>7, UploadPasses DEF On

LEMMA CheckUserLimitStep ==
    ASSUME ClientsIInv, NEW r \in XRequests, CheckUserLimit(r)
    PROVE  ClientsIInv'
<1>1. ClientsTypeOK /\ request[r].at = "check" /\ OnNothing
  BY DEF ClientsIInv, CheckUserLimit, At
<1>2. /\ request[r].at \in UploadSteps \ {"drop", "last"} /\ request[r].at # "idle"
      /\ {"cut", "limit"} \subseteq UploadSteps \cap Steps
  BY <1>1 DEF UploadSteps, Steps
<1>3. PICK todo \in SUBSET XClients : todo = UNION {Enabled(i) : i \in XInbounds}
  BY DEF Enabled
<1>4. \E at \in {"cut", "limit"}, t \in SUBSET XClients : Goes(r, at, request[r].d, request[r].want, t, request[r].tags)
  <2>1. CASE request' = [request EXCEPT ![r].at = "cut", ![r].todo = todo]
    <3>1. Goes(r, "cut", request[r].d, request[r].want, todo, request[r].tags)
      BY <1>1, <1>2, <2>1, TodoGoes
    <3> QED
      BY <3>1
  <2>2. CASE Then(r, "limit")
    <3>1. Goes(r, "limit", request[r].d, request[r].want, request[r].todo, request[r].tags)
      BY <1>1, <1>2, <2>2, ThenGoes
    <3>2. request[r].todo \in SUBSET XClients
      BY <1>1, <1>2, BusyWork, WorkFields
    <3> QED
      BY <3>1, <3>2
  <2> QED
    BY <1>3, <2>1, <2>2 DEF CheckUserLimit
<1>5. PICK at \in {"cut", "limit"}, t \in SUBSET XClients : Goes(r, at, request[r].d, request[r].want, t, request[r].tags)
  BY <1>4
<1>6. request' \in [XRequests -> Works \cup {NoWork}] /\ request'[r].at = at
  BY <1>5, GoesFields
<1>7. ClientsTypeOK' /\ UNCHANGED <<inbound, client, online, xnode, failed, overlapped, disturbed>>
  BY <1>1, <1>6, OnRowsTyped, TypedNode DEF OnNothing, ClientsTypeOK
<1>8. XMoves(r)
  BY <1>2, <1>5, <1>7, UploadGoes
<1> QED
  BY <1>2, <1>6, <1>7, <1>8, UploadPasses DEF On

\* The row of a client is disabled, and with its inbound not served there is no more to do.
LEMMA DisabledRow ==
    ASSUME ClientsTypeOK, NEW c \in XClients, SetEnable(c, FALSE), UNCHANGED <<inbound, online, xnode>>
    PROVE  /\ client' \in [XClients -> ClientRows \cup {NoClient, Erased}]
           /\ ~On(c)' /\ \A d \in XClients : On(d)' => On(d)
           /\ Sane => Sane'
           /\ \A i \in XInbounds : SameInbound(i) => SameInbound(i)'
           /\ \A d \in XClients \ {c} : SameClient(d) => SameClient(d)'
           /\ (SameInbound(Of[c]) /\ ~Listed(Of[c])) => SameClient(c)'
<1>1. PICK e \in BOOLEAN : e = FALSE
  OBVIOUS
<1>2. SetEnable(c, e)
  BY <1>1
<1>3. /\ client' \in [XClients -> ClientRows \cup {NoClient, Erased}]
      /\ \A d \in XClients \ {c} : client'[d] = client[d]
      /\ client'[c].there = client[c].there
      /\ client[c].there => client'[c].enable = e
  BY <1>2, SetEnableIs
<1>4. ~On(c)' /\ \A d \in XClients : On(d)' => On(d)
  BY <1>1, <1>3 DEF On
<1>5. Sane => Sane'
  BY DEF Sane, xnode
<1>6. \A i \in XInbounds : SameInbound(i) => SameInbound(i)'
  BY DEF SameInbound, xnode
<1>7. \A d \in XClients \ {c} : SameClient(d) => SameClient(d)'
  BY <1>3 DEF SameClient, On, xnode
<1>8. (SameInbound(Of[c]) /\ ~Listed(Of[c])) => SameClient(c)'
  BY DEF SameInbound, Listed, SameClient, xnode
<1> QED
  BY <1>3, <1>4, <1>5, <1>6, <1>7, <1>8

LEMMA CutOneStep ==
    ASSUME ClientsIInv, NEW r \in XRequests, request[r].at = "cut", NEW d \in request[r].todo,
           SetEnable(d, FALSE), OnRows, UNCHANGED <<inbound, forbidden>>,
           request' = [request EXCEPT ![r].at = IF Listed(Of[d]) THEN "drop" ELSE "cut",
                                      ![r].todo = @ \ {d}, ![r].d = d]
    PROVE  ClientsIInv'
<1>1. ClientsTypeOK
  BY DEF ClientsIInv
<1>2. /\ request[r].at \in UploadSteps /\ request[r].at # "idle"
      /\ {"cut", "drop"} \subseteq UploadSteps \cap Steps
  BY DEF UploadSteps, Steps
<1>3. d \in XClients
  BY <1>1, <1>2, BusyWork, WorkFields
<1>4. PICK at \in {"cut", "drop"} : at = IF Listed(Of[d]) THEN "drop" ELSE "cut"
  OBVIOUS
<1>5. Goes(r, at, d, request[r].want, request[r].todo \ {d}, request[r].tags)
  BY <1>1, <1>2, <1>3, <1>4, NextGoes
<1>6. request' \in [XRequests -> Works \cup {NoWork}] /\ request'[r].at = at /\ request'[r].d = d
  BY <1>5, GoesFields
<1>7. UNCHANGED <<inbound, online, xnode, failed, overlapped, disturbed>>
  BY DEF OnRows
<1>8. /\ client' \in [XClients -> ClientRows \cup {NoClient, Erased}]
      /\ ~On(d)' /\ \A c \in XClients : On(c)' => On(c)
      /\ Sane => Sane'
      /\ \A i \in XInbounds : SameInbound(i) => SameInbound(i)'
      /\ \A c \in XClients \ {d} : SameClient(c) => SameClient(c)'
      /\ (SameInbound(Of[d]) /\ ~Listed(Of[d])) => SameClient(d)'
  BY <1>1, <1>3, <1>7, DisabledRow
<1>9. ClientsTypeOK'
  BY <1>1, <1>6, <1>8, OnRowsTyped, TypedNode DEF ClientsTypeOK
<1>10. XMoves(r)
  BY <1>2, <1>3, <1>5, <1>7, UploadGoes
<1>11. ASSUME Sane, \A i \in XInbounds : SameInbound(i)
       PROVE  UploadKeeps(r)
  <2>1. Fits(request[r])'
    BY <1>4, <1>6, <1>8 DEF Fits
  <2>2. \A c \in XClients : ~Touching(request[r], c)
    BY DEF Touching
  <2>3. Touching(request[r], d)' \/ SameClient(d)'
    BY <1>3, <1>4, <1>6, <1>8, <1>11, ClientsAssumption DEF Touching
  <2> QED
    BY <1>8, <1>11, <2>1, <2>2, <2>3 DEF UploadKeeps
<1> QED
  BY <1>2, <1>7, <1>9, <1>10, <1>11, UploadStepKeeps

LEMMA CutStep ==
    ASSUME ClientsIInv, NEW r \in XRequests, Cut(r)
    PROVE  ClientsIInv'
<1>1. ClientsTypeOK /\ request[r].at = "cut" /\ OnRows /\ UNCHANGED <<inbound, forbidden>>
  BY DEF ClientsIInv, Cut, At
<1>2. /\ request[r].at \in UploadSteps \ {"drop", "last"} /\ request[r].at # "idle"
      /\ "limit" \in UploadSteps /\ "limit" \in Steps
  BY <1>1 DEF UploadSteps, Steps
<1>3. ASSUME Then(r, "limit"), UNCHANGED client
      PROVE  ClientsIInv'
  <2>1. Goes(r, "limit", request[r].d, request[r].want, request[r].todo, request[r].tags)
    BY <1>1, <1>2, <1>3, ThenGoes
  <2>2. request' \in [XRequests -> Works \cup {NoWork}] /\ request'[r].at = "limit"
    BY <2>1, GoesFields
  <2>3. ClientsTypeOK' /\ UNCHANGED <<inbound, client, online, xnode, failed, overlapped, disturbed>>
    BY <1>1, <1>3, <2>2, OnRowsTyped, TypedNode DEF ClientsTypeOK
  <2>4. XMoves(r)
    BY <1>2, <2>1, <2>3, UploadGoes
  <2> QED
    BY <1>2, <2>2, <2>3, <2>4, UploadPasses DEF On
<1> QED
  BY <1>1, <1>3, CutOneStep DEF Cut

\* A client whose row is disabled is removed, whatever comes of it.
LEMMA RemovedAnyhow ==
    ASSUME ClientsTypeOK, NEW c \in XClients, RemoveAnyhow(c), OnNode
    PROVE  /\ NodeTyped' /\ (failed => failed')
           /\ (Sane /\ ~failed' /\ ~On(c)) =>
                /\ Sane'
                /\ \A i \in XInbounds : SameInbound(i) => SameInbound(i)'
                /\ \A d \in XClients : SameClient(d) => SameClient(d)'
                /\ SameClient(c)'
<1>1. RemoveClientOk(Of[c], c) \/ RemoveClientFails(Of[c], c)
  BY DEF RemoveAnyhow
<1>2. NodeTyped' /\ (failed => failed')
  BY <1>1, CallsKeepTypes, ClientsAssumption
<1>3. UNCHANGED <<inbound, client, online>>
  BY DEF OnNode, rows
<1>4. ASSUME Sane, ~failed', ~On(c), RemoveClientOk(Of[c], c)
      PROVE  ButFor(c) /\ SameClient(c)'
  <2>1. ButFor(c) /\ c \notin served'[Of[c]].clients
    BY <1>3, <1>4, RemoveOk
  <2> QED
    BY <1>3, <1>4, <2>1 DEF SameClient, On
<1>5. ASSUME Sane, ~failed', ~On(c), RemoveClientFails(Of[c], c)
      PROVE  ButFor(c) /\ SameClient(c)'
  <2>1. UNCHANGED xnode /\ ~served[Of[c]].there
    BY <1>5, RemoveFails
  <2>2. ButFor(c)
    BY <1>3, <1>5, <2>1, RowButFor DEF xnode
  <2> QED
    BY <2>1, <2>2 DEF SameClient, xnode
<1> QED
  BY <1>1, <1>2, <1>4, <1>5 DEF ButFor

LEMMA DropStep ==
    ASSUME ClientsIInv, NEW r \in XRequests, Drop(r)
    PROVE  ClientsIInv'
<1>1. ClientsTypeOK /\ WorksAreFormed /\ request[r].at = "drop" /\ OnNode
  BY DEF ClientsIInv, Drop, At
<1>2. /\ request[r].at \in UploadSteps /\ request[r].at # "idle"
      /\ "cut" \in UploadSteps /\ "cut" \in Steps
  BY <1>1 DEF UploadSteps, Steps
<1>3. PICK c \in XClients : c = request[r].d
  BY <1>1, ListedOfWork DEF OfListed
<1>4. RemoveAnyhow(c)
  BY <1>3 DEF Drop
<1>5. Goes(r, "cut", request[r].d, request[r].want, request[r].todo, request[r].tags)
  BY <1>1, <1>2, ThenGoes DEF Drop
<1>6. request' \in [XRequests -> Works \cup {NoWork}] /\ request'[r].at = "cut"
  BY <1>5, GoesFields
<1>7. NodeTyped' /\ (failed => failed')
  BY <1>1, <1>4, RemovedAnyhow
<1>8. ClientsTypeOK' /\ UNCHANGED <<inbound, client, online, overlapped, disturbed>>
  BY <1>1, <1>6, <1>7, OnNodeTyped
<1>9. XMoves(r)
  BY <1>2, <1>5, <1>8, UploadGoes
<1>10. ASSUME Sane, Calm', Fits(request[r])
       PROVE  UploadKeeps(r)
  <2>1. ~On(c)
    BY <1>1, <1>3, <1>10 DEF Fits
  <2>2. /\ Sane'
        /\ \A i \in XInbounds : SameInbound(i) => SameInbound(i)'
        /\ \A d \in XClients : SameClient(d) => SameClient(d)'
        /\ SameClient(c)'
    BY <1>1, <1>4, <1>10, <2>1, RemovedAnyhow DEF Calm
  <2>3. \A d \in XClients : Touching(request[r], d) => d = c
    BY <1>1, <1>3 DEF Touching
  <2>4. Fits(request[r])'
    BY <1>6 DEF Fits
  <2>5. \A d \in XClients : On(d)' => On(d)
    BY <1>8 DEF On
  <2> QED
    BY <2>2, <2>3, <2>4, <2>5 DEF UploadKeeps
<1> QED
  BY <1>2, <1>7, <1>8, <1>9, <1>10, UploadStepKeeps

LEMMA LastRemoveStep ==
    ASSUME ClientsIInv, NEW r \in XRequests, LastRemove(r)
    PROVE  ClientsIInv'
<1>1. ClientsTypeOK /\ WorksAreFormed /\ request[r].at = "last" /\ OnNode /\ Ends(r)
  BY DEF ClientsIInv, LastRemove, At
<1>2. request[r].at \in UploadSteps /\ request[r].at # "idle"
  BY <1>1 DEF UploadSteps
<1>3. PICK c \in XClients : c = request[r].c
  BY <1>1, ClientOfWork DEF OfClient, UploadSteps
<1>4. RemoveAnyhow(c)
  BY <1>3 DEF LastRemove
<1>5. request' \in [XRequests -> Works \cup {NoWork}] /\ request'[r] = NoWork
  BY <1>1, EndsGoes
<1>6. NodeTyped' /\ (failed => failed')
  BY <1>1, <1>4, RemovedAnyhow
<1>7. ClientsTypeOK' /\ UNCHANGED <<inbound, client, online, overlapped, disturbed>>
  BY <1>1, <1>5, <1>6, OnNodeTyped
<1>8. XMoves(r)
  BY <1>1, <1>7, EndsMoves
<1>9. ASSUME Sane, Calm', Fits(request[r])
      PROVE  UploadKeeps(r)
  <2>1. ~On(c)
    BY <1>1, <1>3, <1>9 DEF Fits
  <2>2. /\ Sane'
        /\ \A i \in XInbounds : SameInbound(i) => SameInbound(i)'
        /\ \A d \in XClients : SameClient(d) => SameClient(d)'
        /\ SameClient(c)'
    BY <1>1, <1>4, <1>9, <2>1, RemovedAnyhow DEF Calm
  <2>3. \A d \in XClients : Touching(request[r], d) => d = c
    BY <1>1, <1>3 DEF Touching
  <2>4. \A d \in XClients : On(d)' => On(d)
    BY <1>7 DEF On
  <2> QED
    BY <1>5, <2>2, <2>3, <2>4 DEF UploadKeeps
<1> QED
  BY <1>2, <1>6, <1>7, <1>8, <1>9, UploadStepKeeps

LEMMA CheckClientLimitStep ==
    ASSUME ClientsIInv, NEW r \in XRequests, CheckClientLimit(r)
    PROVE  ClientsIInv'
<1>1. /\ ClientsTypeOK /\ WorksAreFormed /\ request[r].at = "limit"
      /\ OnRows /\ UNCHANGED <<inbound, forbidden>>
  BY DEF ClientsIInv, CheckClientLimit, At
<1>2. /\ request[r].at \in UploadSteps \ {"drop", "last"} /\ request[r].at # "idle"
      /\ "last" \in UploadSteps /\ "last" \in Steps
  BY <1>1 DEF UploadSteps, Steps
<1>3. PICK c \in XClients, i \in XInbounds : c = request[r].c /\ i = request[r].i /\ i = Of[c]
  BY <1>1, ClientOfWork DEF OfClient, UploadSteps
<1>4. UNCHANGED <<inbound, online, xnode, failed, overlapped, disturbed>>
  BY <1>1 DEF OnRows
<1>5. ASSUME Ends(r), UNCHANGED client
      PROVE  ClientsIInv'
  <2>1. request' \in [XRequests -> Works \cup {NoWork}] /\ request'[r] = NoWork
    BY <1>1, <1>5, EndsGoes
  <2>2. ClientsTypeOK'
    BY <1>1, <1>5, <2>1, OnRowsTyped, TypedNode DEF ClientsTypeOK
  <2>3. XMoves(r)
    BY <1>1, <1>4, <1>5, EndsMoves
  <2> QED
    BY <1>2, <1>4, <1>5, <2>1, <2>2, <2>3, UploadPasses DEF On
<1>6. ASSUME SetEnable(c, FALSE)
      PROVE  /\ client' \in [XClients -> ClientRows \cup {NoClient, Erased}]
             /\ ~On(c)' /\ \A d \in XClients : On(d)' => On(d)
             /\ Sane => Sane'
             /\ \A j \in XInbounds : SameInbound(j) => SameInbound(j)'
             /\ \A d \in XClients \ {c} : SameClient(d) => SameClient(d)'
             /\ (SameInbound(i) /\ ~Listed(i)) => SameClient(c)'
  BY <1>1, <1>3, <1>4, <1>6, DisabledRow
<1>7. \A d \in XClients : ~Touching(request[r], d)
  BY <1>1 DEF Touching
<1>8. ASSUME SetEnable(c, FALSE), ~Listed(i), Ends(r)
      PROVE  ClientsIInv'
  <2>1. request' \in [XRequests -> Works \cup {NoWork}] /\ request'[r] = NoWork
    BY <1>1, <1>8, EndsGoes
  <2>2. ClientsTypeOK'
    BY <1>1, <1>6, <1>8, <2>1, OnRowsTyped, TypedNode DEF ClientsTypeOK
  <2>3. XMoves(r)
    BY <1>1, <1>4, <1>8, EndsMoves
  <2>4. ASSUME Sane, \A j \in XInbounds : SameInbound(j)
        PROVE  UploadKeeps(r)
    BY <1>6, <1>7, <1>8, <2>1, <2>4 DEF UploadKeeps
  <2> QED
    BY <1>2, <1>4, <2>2, <2>3, <2>4, UploadStepKeeps
<1>9. ASSUME SetEnable(c, FALSE), Then(r, "last")
      PROVE  ClientsIInv'
  <2>1. Goes(r, "last", request[r].d, request[r].want, request[r].todo, request[r].tags)
    BY <1>1, <1>2, <1>9, ThenGoes
  <2>2. /\ request' \in [XRequests -> Works \cup {NoWork}]
        /\ request'[r].at = "last" /\ request'[r].c = c
    BY <1>3, <2>1, GoesFields
  <2>3. ClientsTypeOK'
    BY <1>1, <1>6, <1>9, <2>2, OnRowsTyped, TypedNode DEF ClientsTypeOK
  <2>4. XMoves(r)
    BY <1>2, <1>4, <2>1, UploadGoes
  <2>5. Fits(request[r])'
    BY <1>6, <1>9, <2>2 DEF Fits
  <2>6. Touching(request[r], c)'
    BY <2>2 DEF Touching
  <2>7. ASSUME Sane, \A j \in XInbounds : SameInbound(j)
        PROVE  UploadKeeps(r)
    BY <1>6, <1>7, <1>9, <2>5, <2>6, <2>7 DEF UploadKeeps
  <2> QED
    BY <1>2, <1>4, <2>3, <2>4, <2>7, UploadStepKeeps
<1> QED
  BY <1>3, <1>5, <1>8, <1>9 DEF CheckClientLimit

LEMMA UploadStarts ==
    ASSUME ClientsIInv, NEW r \in XRequests, NEW c \in XClients, Upload(r, c)
    PROVE  ClientsIInv'
<1>1. ClientsTypeOK /\ XShaped /\ InStep /\ ReconcileGoesOn /\ WorksAreFormed
  BY DEF ClientsIInv, XShaped
<1>2. PICK w \in Works : w = Work
  BY WorkIsWork
<1>3. PICK i \in XInbounds, old \in ClientRows : i = Of[c] /\ old = client[c]
  <2>1. client[c] \in ClientRows
    BY <1>1, TypedNode DEF Upload, NoClient, Erased
  <2> QED
    BY <2>1, ClientsAssumption
<1>4. PICK v : v = [w EXCEPT !.at = "book", !.c = c, !.i = i, !.old = old]
  OBVIOUS
<1>5. v \in Works
  <2>1. "book" \in Steps
    BY DEF Steps, UploadSteps
  <2> QED
    BY <1>4, <2>1 DEF Works
<1>6. v.at = "book" /\ v.c = c /\ v.i = i
  BY <1>4 DEF Works
<1>7. /\ Starts(r, v) /\ uses' = uses + 1
      /\ UNCHANGED <<rows, online, xnode, forbidden, failed>>
  BY <1>2, <1>3, <1>4 DEF Upload
<1>8. WellFormed(v) /\ v.at \in UploadSteps
  BY <1>3, <1>6 DEF WellFormed, OfClient, OfListed, OfInbound, OfOld, UploadSteps
<1>9. /\ request[r] = NoWork /\ request' \in [XRequests -> Works \cup {NoWork}]
      /\ request'[r] = v /\ v # NoWork
      /\ \A q \in XRequests \ {r} : request'[q] = request[q]
      /\ overlapped' \in BOOLEAN /\ disturbed' \subseteq XRequests
      /\ overlapped => overlapped'
  BY <1>1, <1>5, <1>7, StartsIs
<1>10. ClientsTypeOK'
  BY <1>1, <1>7, <1>9 DEF ClientsTypeOK, rows, xnode
<1>11. XShaped'
  BY <1>1, <1>5, <1>7, <1>8, StartsKeepShape
<1>12. ReconcileGoesOn'
  <2>1. Reconciled(v)'
    BY <1>6 DEF Reconciled
  <2> QED
    BY <1>1, <1>5, <1>7, <1>8, <2>1, StartsKeepReconcile
<1>13. InStep'
  <2> SUFFICES ASSUME Calm'
               PROVE  InStep'
    BY DEF InStep
  <2>1. Calm
    BY <1>7, <1>9 DEF Calm
  <2>2. \A q \in XRequests : request[q] = NoWork \/ request[q].at \in UploadSteps
    <3>1. \A q \in Others(r) : {v.at, request[q].at} \subseteq UploadSteps
      BY <1>7 DEF Starts, Calm
    <3> QED
      BY <1>9, <3>1 DEF Others
  <2>3. ASSUME Sane
        PROVE  UploadKeeps(r)
    <3>1. Sane' /\ \A j \in XInbounds : SameInbound(j) => SameInbound(j)'
      BY <1>7, <2>3 DEF Sane, SameInbound, rows, xnode
    <3>2. \A d \in XClients : (On(d)' <=> On(d)) /\ (SameClient(d) => SameClient(d)')
      BY <1>7 DEF SameClient, On, rows, xnode
    <3>3. Fits(request[r])'
      BY <1>6, <1>9 DEF Fits
    <3>4. \A d \in XClients : ~Touching(request[r], d)
      BY <1>9, IdleIsStill
    <3> QED
      BY <3>1, <3>2, <3>3, <3>4 DEF UploadKeeps
  <2> QED
    BY <1>1, <1>9, <2>1, <2>2, <2>3, UploadsInStep
<1> QED
  BY <1>10, <1>11, <1>12, <1>13 DEF ClientsIInv, XShaped
-----------------------------------------------------------------------------
(* The specification.                                                        *)

LEMMA InitHolds ==
    ClientsInit => ClientsIInv
<1> SUFFICES ASSUME ClientsInit
             PROVE  ClientsIInv
  OBVIOUS
<1>1. ClientsTypeOK
  <2>1. /\ inbound \in [XInbounds -> Statuses]
        /\ client \in [XClients -> ClientRows \cup {NoClient, Erased}]
        /\ request \in [XRequests -> Works \cup {NoWork}]
    BY DEF ClientsInit, Statuses
  <2>2. served \in [XInbounds -> {Unlisted} \cup {Serving(s) : s \in SUBSET XClients}]
    BY DEF ClientsInit
  <2> QED
    BY <2>1, <2>2 DEF ClientsInit, ClientsTypeOK
<1>2. \A r \in XRequests : request[r] = NoWork
  BY DEF ClientsInit
<1>3. WorksAreFormed /\ OnlyUploads /\ AloneUnlessDisturbed /\ ReconcileGoesOn
  BY <1>2 DEF WorksAreFormed, OnlyUploads, AloneUnlessDisturbed, ReconcileGoesOn
<1>4. InStep
  <2>1. \A i \in XInbounds : inbound[i] = "none" /\ ~served[i].there
    BY DEF ClientsInit, Unlisted
  <2>2. Sane
    BY <2>1 DEF Sane, ClientsInit
  <2>3. \A c \in XClients : SameClient(c)
    BY <2>1, ClientsAssumption DEF SameClient
  <2>4. \A i \in XInbounds : SameInbound(i)
    BY <2>1 DEF SameInbound
  <2> QED
    BY <1>2, <2>2, <2>3, <2>4 DEF InStep
<1> QED
  BY <1>1, <1>3, <1>4 DEF ClientsIInv

\* A session that ends is a failure; one that begins comes after it.
LEMMA SessionSteps ==
    ASSUME ClientsIInv, GoOffline \/ GoOnline
    PROVE  ClientsIInv'
<1>1. UNCHANGED <<rows, xnode, request, uses, forbidden, overlapped, disturbed>>
  BY DEF GoOffline, GoOnline
<1>2. ClientsTypeOK'
  BY <1>1 DEF ClientsIInv, ClientsTypeOK, GoOffline, GoOnline, rows, xnode
<1>3. WorksAreFormed' /\ OnlyUploads' /\ AloneUnlessDisturbed'
  BY <1>1 DEF ClientsIInv, WorksAreFormed, OnlyUploads, AloneUnlessDisturbed, Others, WellFormed
<1>4. ReconcileGoesOn'
  BY <1>1 DEF ClientsIInv, ReconcileGoesOn, Reconciled, Wanted, NoErrors, Serves, Spared, Listed, rows, xnode
<1>5. ~(Calm' /\ Sane)
  BY DEF Calm, Sane, GoOffline, GoOnline
<1>6. InStep'
  <2>1. Calm' => Calm
    BY <1>1 DEF Calm, GoOffline, GoOnline
  <2> QED
    BY <1>5, <2>1 DEF ClientsIInv, InStep
<1> QED
  BY <1>2, <1>3, <1>4, <1>6 DEF ClientsIInv

LEMMA NothingHappens ==
    ASSUME ClientsIInv, UNCHANGED clientVars
    PROVE  ClientsIInv'
<1>1. UNCHANGED <<inbound, client, userUse, online, up, served, request, uses, forbidden,
                  failed, overlapped, disturbed>>
  BY DEF clientVars, rows, xnode
<1>2. ClientsTypeOK'
  BY <1>1 DEF ClientsIInv, ClientsTypeOK
<1>3. WorksAreFormed' /\ OnlyUploads' /\ AloneUnlessDisturbed'
  BY <1>1 DEF ClientsIInv, WorksAreFormed, OnlyUploads, AloneUnlessDisturbed, Others, WellFormed
<1>4. ReconcileGoesOn'
  BY <1>1 DEF ClientsIInv, ReconcileGoesOn, Reconciled, Wanted, NoErrors, Serves, Spared, Listed
<1>5. InStep'
  <2>1. ClientsIInv => InStep
    BY DEF ClientsIInv
  <2>2. (Calm' <=> Calm) /\ (Sane' <=> Sane)
    BY <1>1 DEF Calm, Sane
  <2>3. \A r \in XRequests : request'[r] = request[r] /\ (Fits(request[r])' <=> Fits(request[r]))
    BY <1>1 DEF Fits, Unserved, On, Enabled, OfIn, Foreign
  <2>4. \A i \in XInbounds : SameInbound(i)' <=> SameInbound(i)
    BY <1>1 DEF SameInbound, Foreign
  <2>5. \A c \in XClients : SameClient(c)' <=> SameClient(c)
    BY <1>1 DEF SameClient, On
  <2>6. \A r \in XRequests : /\ \A i \in XInbounds : Moving(request[r], i)' <=> Moving(request[r], i)
                             /\ \A c \in XClients : Touching(request[r], c)' <=> Touching(request[r], c)
    BY <1>1 DEF Moving, Touching
  <2> QED
    BY <2>1, <2>2, <2>3, <2>4, <2>5, <2>6 DEF InStep
<1> QED
  BY <1>2, <1>3, <1>4, <1>5 DEF ClientsIInv

LEMMA ClientSteps ==
    ASSUME ClientsIInv, NEW r \in XRequests, ClientStep(r)
    PROVE  ClientsIInv'
BY InsertStep, AddNewStep, UnaddStep, ChangeStep, RemoveOldStep, RereadStep, ReaddStep,
   RestoreStep, AgainStep, HotRemoveStep, EraseStep, ZeroStep, EnableAgainStep,
   CreateClientStep, UpdateClientStep, DeleteClientStep, ResetClientStep DEF ClientStep

LEMMA LimitSteps ==
    ASSUME ClientsIInv, NEW r \in XRequests, LimitStep(r)
    PROVE  ClientsIInv'
BY BookStep, ChargeUserStep, CheckUserLimitStep, CutStep, DropStep, CheckClientLimitStep,
   LastRemoveStep, BanStep, BanNextStep, ExpelStep, BannedStep, UploadStarts DEF LimitStep

LEMMA InboundSteps ==
    ASSUME ClientsIInv, NEW r \in XRequests, InboundStep(r)
    PROVE  ClientsIInv'
BY OpenStep, RevertStep, ClosingStep, SwitchOffStep, CountInboundsStep, StopXrayStep, CloseStep,
   PurgeStep, RemoveInboundRowStep, MoveOutStep, MoveInStep, MoveBackStep, MovedStep,
   CreateInboundStep, EnableInboundStep, DisableInboundStep, DeleteInboundStep, UpdateInboundStep
   DEF InboundStep

LEMMA ReconciliationSteps ==
    ASSUME ClientsIInv, NEW r \in XRequests, ReconcileStep(r)
    PROVE  ClientsIInv'
BY ReconcileStarts, PushStep, PushFailsStep, ApplyAllStep, RecoverStep, GetTagsStep,
   QueryRowsStep, CleanStep DEF ReconcileStep

LEMMA IInvIsInductive ==
    ClientsIInv /\ [ClientsNext]_clientVars => ClientsIInv'
<1> SUFFICES ASSUME ClientsIInv, [ClientsNext]_clientVars
             PROVE  ClientsIInv'
  OBVIOUS
<1>1. CASE UNCHANGED clientVars
  BY <1>1, NothingHappens
<1>2. ASSUME NEW r \in XRequests, ClientStep(r)
      PROVE  ClientsIInv'
  BY <1>2, ClientSteps
<1>3. ASSUME NEW r \in XRequests, LimitStep(r)
      PROVE  ClientsIInv'
  BY <1>3, LimitSteps
<1>4. ASSUME NEW r \in XRequests, InboundStep(r)
      PROVE  ClientsIInv'
  BY <1>4, InboundSteps
<1>5. ASSUME NEW r \in XRequests, ReconcileStep(r)
      PROVE  ClientsIInv'
  BY <1>5, ReconciliationSteps
<1>6. CASE GoOffline \/ GoOnline
  BY <1>6, SessionSteps
<1> QED
  BY <1>1, <1>2, <1>3, <1>4, <1>5, <1>6 DEF ClientsNext

\* The rows, the node and the requests are what they may be: whatever calls
\* fail and requests meet, no row has a status or a shape nobody gives it.
THEOREM ClientsTypeCorrect ==
    ClientsSpec => []ClientsTypeOK
<1>1. ClientsIInv => ClientsTypeOK
  BY DEF ClientsIInv
<1> QED
  BY <1>1, InitHolds, IInvIsInductive, PTL DEF ClientsSpec

\* Without a failed call, and with nothing but uploads at once, Xray serves the
\* enabled inbounds with their enabled clients whenever no request is at work, but
\* those whose tag has the number of another row in it, which a cleanup may remove
\* (xray_inbound.go, xray_client.go, flow.go, reconcile.go).
THEOREM XrayFollowsTheRows ==
    ClientsSpec => []XrayFollowsRows
<1>1. ClientsIInv => XrayFollowsRows
  <2> SUFFICES ASSUME ClientsIInv, Quiet, Calm
               PROVE  \A i \in XInbounds :
                        /\ Serves(i) => inbound[i] = "on" /\ served[i].clients = Enabled(i)
                        /\ inbound[i] = "on" => Serves(i) \/ Foreign(i)
    BY DEF XrayFollowsRows, Calm
  <2>1. ClientsTypeOK /\ InStep
    BY DEF ClientsIInv
  <2>2. /\ \A i \in XInbounds : SameInbound(i)
        /\ \A c \in XClients : SameClient(c)
        /\ Sane
    BY <2>1, IdleIsStill DEF InStep, Quiet
  <2>3. ASSUME NEW i \in XInbounds
        PROVE  /\ Serves(i) => inbound[i] = "on"
               /\ inbound[i] = "on" => Serves(i) \/ Foreign(i)
    BY <2>2 DEF SameInbound, Sane, Serves
  <2>4. ASSUME NEW i \in XInbounds, Serves(i)
        PROVE  served[i].clients = Enabled(i)
    <3>1. served[i].there /\ served[i].clients \subseteq XClients
      BY <2>1, <2>4, TypedNode, ServedIs DEF Serves
    <3>2. \A c \in served[i].clients : Of[c] = i
      BY <2>2, <3>1 DEF Sane
    <3>3. \A c \in XClients : Of[c] = i => (c \in served[i].clients <=> On(c))
      BY <2>2, <3>1 DEF SameClient
    <3> QED
      BY <3>1, <3>2, <3>3 DEF Enabled, On
  <2> QED
    BY <2>3, <2>4
<1> QED
  BY <1>1, InitHolds, IInvIsInductive, PTL DEF ClientsSpec
-----------------------------------------------------------------------------
(* What a reconciliation that was alone leaves behind.                       *)

\* A step changes no other request than its own.
LEMMA OnlyItsOwn ==
    ASSUME ClientsTypeOK, NEW q \in XRequests, NEW r \in XRequests \ {q},
           ClientStep(q) \/ LimitStep(q) \/ InboundStep(q) \/ ReconcileStep(q)
    PROVE  request'[r] = request[r]
<1>1. DOMAIN request = XRequests
  BY DEF ClientsTypeOK
<1>2. \A v : request' = [request EXCEPT ![q] = v] => request'[r] = request[r]
  BY <1>1
<1>3. CASE ClientStep(q)
  BY <1>1, <1>3
  DEF ClientStep, Insert, AddNew, Unadd, Change, Changed, Touch, RemoveOld, Reread, Readd, Restore, Again,
      HotRemove, Erase, Zero, EnableAgain, CreateClient, UpdateClient, DeleteClient, ResetClient,
      Reads, Starts, Then, Ends
<1>4. CASE LimitStep(q)
  BY <1>1, <1>4
  DEF LimitStep, Book, ChargeUser, CheckUserLimit, Cut, Drop, CheckClientLimit, LastRemove,
      Ban, BanNext, Expel, Banned, Upload, Reads, Starts, Then, Ends
<1>5. CASE InboundStep(q)
  BY <1>1, <1>5
  DEF InboundStep, Open, Revert, Closing, SwitchOff, CountInbounds, StopXray, Close, Purge,
      RemoveInboundRow, MoveOut, MoveIn, MoveBack, Moved, CreateInbound, EnableInbound,
      DisableInbound, DeleteInbound, UpdateInbound, Reads, Starts, Then, Ends
<1>6. CASE ReconcileStep(q)
  BY <1>1, <1>6
  DEF ReconcileStep, Reconcile, Push, PushOne, PushFails, ApplyAll, Recover, GetTags, QueryRows,
      Clean, Reads, Starts, Then, Ends
<1> QED
  BY <1>3, <1>4, <1>5, <1>6

\* A cleaning does nothing but clean.
LEMMA OnlyCleans ==
    ASSUME NEW r \in XRequests, request[r].at = "clean", request[r] # NoWork,
           ClientStep(r) \/ LimitStep(r) \/ InboundStep(r) \/ ReconcileStep(r)
    PROVE  Clean(r)
<1>1. ~ClientStep(r)
  BY DEF ClientStep, Insert, AddNew, Unadd, Change, Changed, Touch, RemoveOld, Reread, Readd, Restore, Again,
         HotRemove, Erase, Zero, EnableAgain, CreateClient, UpdateClient, DeleteClient,
         ResetClient, Reads, Starts, At
<1>2. ~LimitStep(r)
  BY DEF LimitStep, Book, ChargeUser, CheckUserLimit, Cut, Drop, CheckClientLimit, LastRemove,
         Ban, BanNext, Expel, Banned, Upload, Reads, Starts, At
<1>3. ~InboundStep(r)
  BY DEF InboundStep, Open, Revert, Closing, SwitchOff, CountInbounds, StopXray, Close, Purge,
         RemoveInboundRow, MoveOut, MoveIn, MoveBack, Moved, CreateInbound, EnableInbound,
         DisableInbound, DeleteInbound, UpdateInbound, Reads, Starts, At
<1>4. ReconcileStep(r) => Clean(r)
  BY DEF ReconcileStep, Reconcile, Push, PushFails, ApplyAll, Recover, GetTags, QueryRows,
         Reads, Starts, At
<1> QED
  BY <1>1, <1>2, <1>3, <1>4

\* A reconciliation beside which nothing else ran, and of whose calls none
\* failed, leaves no row in error, whatever rows and node were before; Xray
\* serves the inbounds whose rows are enabled, unless the cleanup takes the tag
\* for that of a row that is gone, and what has no row only if the cleanup cannot
\* tell (reconcile.go).
THEOREM ReconcileServesRows ==
    ClientsSpec => ReconcileServes
<1> DEFINE Left == \A i \in XInbounds : /\ inbound'[i] # "error"
                                        /\ inbound'[i] = "on" /\ Spared(i) => Serves(i)'
                                        /\ Serves(i)' => Spared(i)
           Served == \A r \in XRequests : EndsWell(r) => Left
<1>1. ClientsIInv /\ [ClientsNext]_clientVars => [Served]_clientVars
  <2> SUFFICES ASSUME ClientsIInv, ClientsNext, NEW r \in XRequests, request[r].at = "clean",
                      request'[r] = NoWork, r \notin disturbed, ~request[r].want
               PROVE  Left
    BY DEF At, EndsWell
  <2>1. ClientsTypeOK /\ request[r] \in Works /\ request[r] # NoWork
    BY BusyWork DEF ClientsIInv
  <2>2. Reconciled(request[r])
    BY <2>1 DEF ClientsIInv, ReconcileGoesOn
  <2>3. PICK q \in XRequests : ClientStep(q) \/ LimitStep(q) \/ InboundStep(q) \/ ReconcileStep(q)
    BY <2>1 DEF ClientsNext, GoOffline, GoOnline
  <2>4. q = r
    BY <2>1, <2>3, OnlyItsOwn
  <2>5. Clean(r)
    BY <2>1, <2>3, <2>4, OnlyCleans
  <2>6. request[r].tags = {} /\ UNCHANGED xnode
    <3>1. request[r].tags \subseteq XInbounds
      BY <2>1, WorkFields
    <3>2. request'[r] \notin Works
      BY WorkFields
    <3>3. \A i \in XInbounds : request' # [request EXCEPT ![r].tags = @ \ {i}]
      BY <2>1, <3>2, CleanedGoes DEF Goes
    <3>4. \A i \in XInbounds : request' # [request EXCEPT ![r].tags = @ \ {i}, ![r].want = TRUE]
      BY <2>1, <3>2, NotCleanedGoes DEF Goes
    <3> QED
      BY <2>5, <3>1, <3>3, <3>4 DEF Clean
  <2>7. UNCHANGED inbound
    BY <2>5 DEF Clean, OnNode, rows
  <2>8. ASSUME NEW i \in XInbounds
        PROVE  /\ inbound'[i] # "error"
               /\ inbound'[i] = "on" /\ Spared(i) => Serves(i)'
               /\ Serves(i)' => Spared(i)
    <3>1. /\ inbound[i] # "error"
          /\ inbound[i] = "on" /\ Spared(i) => Serves(i)
          /\ Serves(i) => Spared(i)
      BY <2>1, <2>2, <2>5, <2>6 DEF Reconciled, Clean, At
    <3> QED
      BY <2>6, <2>7, <3>1 DEF Serves, xnode
  <2> QED
    BY <2>8
<1>2. ClientsSpec => [][Served]_clientVars
  BY <1>1, InitHolds, IInvIsInductive, PTL DEF ClientsSpec
<1> QED
  BY <1>2 DEF ReconcileServes
=============================================================================
