------------------------- MODULE XrayManagerProofs --------------------------
(***************************************************************************)
(* Theorems about XrayManager, for any processes, goroutines, inbounds and *)
(* clients.  While nobody else interferes, the file and the process differ *)
(* only in what the command in between has done to one of them (Agrees),   *)
(* and no process can read the file at the wrong moment.                   *)
(***************************************************************************)
EXTENDS XrayManager, TLAPS

Live == {p \in XProcs : life[p] \in {"starting", "alive"}}
Starting == {p \in XProcs : life[p] = "starting"}

\* Two commands at a time are remembered.
OneCommand ==
    ~mixed => \A v, w \in XWorkers : work[v] # Resting /\ work[w] # Resting => v = w

\* Process and file have the same inbounds but for t, and in t the same clients
\* but for u.
SameBut(p, t) == \A s \in Tags \ {t} : loaded[p][s] = document[s]
SameButUser(p, t, u) ==
    /\ SameBut(p, t)
    /\ loaded[p][t].listed = document[t].listed
    /\ document[t].listed =>
         \A v \in Users \ {u} : loaded[p][t].copies[v] = document[t].copies[v]

\* What a command has changed on one side and not yet on the other.
Stopping(r) == r.at \in {"stopping", "applied", "back", "write"}
Rewritten(r) == r.at = "stop" /\ r.then = "applied"
Agrees(r) ==
    /\ Stopping(r) => Live = {}
    /\ r.at = "kept" =>
         /\ Starting = {}
         /\ \A p \in Answering : SameBut(p, r.tag) /\ loaded[p][r.tag] = r.doc[r.tag]
    /\ r.at = "dropped" =>
         /\ Starting = {}
         /\ \A p \in Answering : SameBut(p, r.tag) /\ loaded[p][r.tag] = Absent
    /\ r.at = "adu" =>
         /\ document[r.tag].listed => document[r.tag].copies[r.user] > 0
         /\ \A p \in Answering :
              /\ SameButUser(p, r.tag, r.user)
              /\ document[r.tag].listed =>
                   \/ loaded[p][r.tag].copies[r.user] = document[r.tag].copies[r.user]
                   \/ loaded[p][r.tag].copies[r.user] = document[r.tag].copies[r.user] - 1
    /\ r.at = "rmu" =>
         /\ document[r.tag].listed => document[r.tag].copies[r.user] = 0
         /\ \A p \in Answering : SameButUser(p, r.tag, r.user)
    /\ r.at = "undo" =>
         \A p \in Answering :
           /\ SameBut(p, r.tag)
           /\ ~document[r.tag].listed => ~loaded[p][r.tag].listed
    /\ ~Stopping(r) /\ ~Rewritten(r) /\ r.at \notin {"kept", "dropped", "adu", "rmu", "undo"} =>
         \A p \in Answering : loaded[p] = document

Calm == ~cleared /\ ~mixed /\ ~down
CommandAgrees ==
    Calm => /\ \A w \in XWorkers : work[w] # Resting => Agrees(work[w])
            /\ (\A w \in XWorkers : work[w] = Resting) => \A p \in Answering : loaded[p] = document

XrayIInv ==
    /\ XrayTypeOK
    /\ FlagTruthful
    /\ RunningWatched
    /\ OneCommand
    /\ CommandAgrees
-----------------------------------------------------------------------------
(* Commands and inbounds.                                                    *)

LEMMA BusyIsJob ==
    ASSUME XrayTypeOK, NEW w \in XWorkers, work[w].at # "rest"
    PROVE  /\ work[w] \in Jobs /\ work[w] # Resting
           /\ work[w].at \in Places
           /\ work[w].then \in {"rest", "start", "replace", "applied"}
           /\ work[w].tag \in Tags /\ work[w].user \in Users
           /\ work[w].doc \in Documents /\ work[w].adding \in BOOLEAN
           /\ work[w] = [at |-> work[w].at, then |-> work[w].then, tag |-> work[w].tag,
                         user |-> work[w].user, doc |-> work[w].doc,
                         adding |-> work[w].adding]
<1>1. work[w] \in Jobs \cup {Resting}
  BY DEF XrayTypeOK
<1>2. work[w] # Resting
  BY DEF Resting
<1>3. work[w] \in Jobs
  BY <1>1, <1>2
<1> QED
  BY <1>2, <1>3 DEF Jobs

LEMMA BusyIsNotResting ==
    ASSUME XrayTypeOK, NEW w \in XWorkers, work[w] # Resting
    PROVE  work[w].at # "rest"
<1>1. work[w] \in Jobs
  BY DEF XrayTypeOK
<1> QED
  BY <1>1 DEF Jobs, Places

\* A goroutine goes on with its command ...
LEMMA GotoIs ==
    ASSUME XrayTypeOK, NEW w \in XWorkers, work[w].at # "rest",
           NEW at \in Places, Goto(w, at)
    PROVE  /\ work' \in [XWorkers -> Jobs \cup {Resting}]
           /\ work'[w] = [at |-> at, then |-> work[w].then, tag |-> work[w].tag,
                          user |-> work[w].user, doc |-> work[w].doc,
                          adding |-> work[w].adding]
           /\ \A v \in XWorkers \ {w} : work'[v] = work[v]
<1> DEFINE r == [at |-> at, then |-> work[w].then, tag |-> work[w].tag,
                 user |-> work[w].user, doc |-> work[w].doc, adding |-> work[w].adding]
<1>1. work \in [XWorkers -> Jobs \cup {Resting}]
  BY DEF XrayTypeOK
<1>2. work' = [work EXCEPT ![w].at = at]
  BY DEF Goto, Places
<1>3. work[w] = [at |-> work[w].at, then |-> work[w].then, tag |-> work[w].tag,
                 user |-> work[w].user, doc |-> work[w].doc, adding |-> work[w].adding]
  BY BusyIsJob
<1>4. [work[w] EXCEPT !.at = at] = r
  BY <1>3
<1>5. work' = [work EXCEPT ![w] = r]
  BY <1>1, <1>2, <1>4
<1>6. r \in Jobs
  BY BusyIsJob DEF Jobs
<1> QED
  BY <1>1, <1>5, <1>6

\* ... or ends it.
LEMMA DoneIs ==
    ASSUME XrayTypeOK, NEW w \in XWorkers, Done(w)
    PROVE  /\ work' \in [XWorkers -> Jobs \cup {Resting}]
           /\ work'[w] = Resting
           /\ \A v \in XWorkers \ {w} : work'[v] = work[v]
BY DEF XrayTypeOK, Done

LEMMA ThenIs ==
    ASSUME XrayTypeOK, NEW w \in XWorkers, work[w].at # "rest", Goto(w, work[w].then)
    PROVE  /\ work' \in [XWorkers -> Jobs \cup {Resting}]
           /\ work[w].then = "rest" => work'[w] = Resting
           /\ work[w].then # "rest" =>
                work'[w] = [at |-> work[w].then, then |-> work[w].then, tag |-> work[w].tag,
                            user |-> work[w].user, doc |-> work[w].doc,
                            adding |-> work[w].adding]
           /\ \A v \in XWorkers \ {w} : work'[v] = work[v]
<1>1. CASE work[w].then = "rest"
  <2>1. Done(w)
    BY <1>1 DEF Goto
  <2> QED
    BY <1>1, <2>1, DoneIs
<1>2. CASE work[w].then # "rest"
  <2>1. work[w].then \in Places
    BY <1>2, BusyIsJob DEF Places
  <2> QED
    BY <1>2, <2>1, GotoIs
<1> QED
  BY <1>1, <1>2

LEMMA BeginIs ==
    ASSUME XrayTypeOK, NEW w \in XWorkers, NEW at \in Places,
           NEW then \in {"rest", "start", "replace", "applied"},
           NEW t \in Tags, NEW u \in Users, NEW doc \in Documents,
           Begin(w, at, then, t, u, doc)
    PROVE  /\ work' \in [XWorkers -> Jobs \cup {Resting}]
           /\ work'[w] = [at |-> at, then |-> then, tag |-> t, user |-> u, doc |-> doc,
                          adding |-> FALSE]
           /\ \A v \in XWorkers \ {w} : work'[v] = work[v]
<1> DEFINE r == [at |-> at, then |-> then, tag |-> t, user |-> u, doc |-> doc, adding |-> FALSE]
<1>1. r \in Jobs
  BY DEF Jobs
<1> QED
  BY <1>1 DEF Begin, XrayTypeOK

\* Documents are made of inbounds.
LEMMA InboundIs ==
    ASSUME NEW x \in Inbounds
    PROVE  /\ x.listed \in BOOLEAN
           /\ ~x.listed => x = Absent
           /\ x.listed => /\ x = [listed |-> TRUE, copies |-> x.copies]
                          /\ x \in [listed : {TRUE}, copies : [Users -> 0..MaxCopies]]
                          /\ x.copies \in [Users -> 0..MaxCopies]
<1>1. CASE x = Absent
  BY <1>1 DEF Absent
<1>2. CASE x \in [listed : {TRUE}, copies : [Users -> 0..MaxCopies]]
  BY <1>2
<1> QED
  BY <1>1, <1>2 DEF Inbounds

LEMMA NothingIsDocument == Nothing \in Documents /\ Absent \in Inbounds
BY DEF Nothing, Documents, Inbounds

LEMMA ListingIsInbound ==
    ASSUME NEW c \in Clients
    PROVE  Listing(c) \in Inbounds
<1>1. 0..1 \subseteq 0..MaxCopies
  BY XrayAssumption
<1>2. c \in [Users -> 0..MaxCopies]
  BY <1>1 DEF Clients
<1> QED
  BY <1>2 DEF Listing, Inbounds

LEMMA WithIs ==
    ASSUME NEW doc \in Documents, NEW t \in Tags, NEW u \in Users, NEW n \in 0..MaxCopies
    PROVE  /\ With(doc, t, u, n) \in Documents
           /\ \A s \in Tags \ {t} : With(doc, t, u, n)[s] = doc[s]
           /\ With(doc, t, u, n)[t].listed = doc[t].listed
           /\ doc[t].listed =>
                /\ With(doc, t, u, n)[t].copies[u] = n
                /\ \A v \in Users \ {u} : With(doc, t, u, n)[t].copies[v] = doc[t].copies[v]
           /\ ~doc[t].listed => With(doc, t, u, n) = doc
<1>1. CASE ~doc[t].listed
  BY <1>1 DEF With
<1>2. CASE doc[t].listed
  <2> DEFINE c == [doc[t].copies EXCEPT ![u] = n]
             x == [listed |-> TRUE, copies |-> c]
  <2>1. doc[t] \in Inbounds
    BY DEF Documents
  <2>2. /\ doc[t] \in [listed : {TRUE}, copies : [Users -> 0..MaxCopies]]
        /\ doc[t].copies \in [Users -> 0..MaxCopies]
    BY <1>2, <2>1, InboundIs
  <2>4. With(doc, t, u, n) = [doc EXCEPT ![t] = x]
    BY <1>2 DEF With, Listing
  <2>5. c \in [Users -> 0..MaxCopies] /\ x \in Inbounds
    BY <2>2 DEF Inbounds
  <2> HIDE DEF x
  <2>6. [doc EXCEPT ![t] = x] \in Documents /\ [doc EXCEPT ![t] = x][t] = x
    BY <2>5 DEF Documents
  <2>7. \A s \in Tags \ {t} : [doc EXCEPT ![t] = x][s] = doc[s]
    BY DEF Documents
  <2>8. x.listed = TRUE /\ x.copies = c /\ c[u] = n /\ \A v \in Users \ {u} : c[v] = doc[t].copies[v]
    BY <2>2 DEF x
  <2> QED
    BY ZenonT(60), <1>2, <2>4, <2>6, <2>7, <2>8
<1> QED
  BY <1>1, <1>2
-----------------------------------------------------------------------------
(* Types.                                                                    *)

LEMMA LaunchType ==
    ASSUME XrayTypeOK, Started \/ NotStarted
    PROVE  /\ running' \in BOOLEAN /\ cmd' \in XProcs \cup {NoProc}
           /\ life' \in [XProcs -> {"unused", "starting", "alive", "stopping", "killed", "gone"}]
           /\ watch' \in [XProcs -> XProcs \cup {NoProc, "none", "fresh", "done"}]
<1> USE DEF XrayTypeOK
<1>1. CASE Started
  BY <1>1 DEF Started, Launch
<1>2. CASE NotStarted
  BY <1>2 DEF NotStarted
<1> QED
  BY <1>1, <1>2

LEMMA ReloadType ==
    ASSUME XrayTypeOK, NEW doc \in Documents, NEW t \in Tags,
           Reloads(doc, t) \/ ReloadFails(doc, t)
    PROVE  loaded' \in [XProcs -> Documents]
<1> USE DEF XrayTypeOK
<1>1. ASSUME NEW p \in XProcs, NEW x \in Inbounds, loaded' = [loaded EXCEPT ![p][t] = x]
      PROVE  loaded' \in [XProcs -> Documents]
  BY <1>1 DEF Documents
<1>2. doc[t] \in Inbounds
  BY DEF Documents
<1>3. CASE Reloads(doc, t)
  BY <1>1, <1>2, <1>3 DEF Reloads, Answering
<1>4. CASE ReloadFails(doc, t)
  BY <1>1, <1>4, NothingIsDocument DEF ReloadFails, Answering
<1> QED
  BY <1>3, <1>4

\* What a client's removal is taken back to.
LEMMA PutBackIs ==
    ASSUME XrayTypeOK, NEW w \in XWorkers, work[w].at = "undo", Undo(w)
    PROVE  /\ PutBack(w) \in Documents
           /\ \A s \in Tags \ {work[w].tag} : PutBack(w)[s] = document[s]
           /\ PutBack(w)[work[w].tag].listed = document[work[w].tag].listed
           /\ ~document[work[w].tag].listed => PutBack(w) = document
<1> DEFINE t == work[w].tag
           u == work[w].user
           n == IF work[w].adding THEN document[t].copies[u] + 1 ELSE 0
<1>1. /\ document \in Documents /\ t \in Tags /\ u \in Users /\ work[w].adding \in BOOLEAN
      /\ document[t] \in Inbounds
  BY BusyIsJob DEF XrayTypeOK, Documents
<1>2. PutBack(w) = With(document, t, u, n)
  BY DEF PutBack
<1>3. CASE ~document[t].listed
  BY <1>1, <1>2, <1>3 DEF With
<1>4. CASE document[t].listed
  <2>1. document[t].copies \in [Users -> 0..MaxCopies]
    BY <1>1, <1>4, InboundIs
  <2>2. work[w].adding => document[t].copies[u] < MaxCopies
    BY <1>4 DEF Undo
  <2>3. document[t].copies[u] \in 0..MaxCopies
    BY <1>1, <2>1
  <2>4. n \in 0..MaxCopies
    BY <1>1, <2>2, <2>3, XrayAssumption
  <2>5. /\ With(document, t, u, n) \in Documents
        /\ \A s \in Tags \ {t} : With(document, t, u, n)[s] = document[s]
        /\ With(document, t, u, n)[t].listed = document[t].listed
    <3> HIDE DEF n, t, u
    <3> QED
      BY <1>1, <2>4, WithIs
  <2> QED
    BY <1>2, <1>4, <2>5
<1> QED
  BY <1>3, <1>4

LEMMA JobExcept ==
    ASSUME NEW r \in Jobs, NEW a, NEW d, NEW b
    PROVE  /\ [[[r EXCEPT !.doc = d] EXCEPT !.then = "applied"] EXCEPT !.at = a] =
                 [at |-> a, then |-> "applied", tag |-> r.tag, user |-> r.user, doc |-> d,
                  adding |-> r.adding]
           /\ [[r EXCEPT !.at = a] EXCEPT !.adding = b] =
                 [at |-> a, then |-> r.then, tag |-> r.tag, user |-> r.user, doc |-> r.doc,
                  adding |-> b]
<1> DEFINE r1 == [at |-> r.at, then |-> r.then, tag |-> r.tag, user |-> r.user, doc |-> d,
                  adding |-> r.adding]
           r2 == [at |-> r.at, then |-> "applied", tag |-> r.tag, user |-> r.user, doc |-> d,
                  adding |-> r.adding]
           r3 == [at |-> a, then |-> r.then, tag |-> r.tag, user |-> r.user, doc |-> r.doc,
                  adding |-> r.adding]
<1>1. [r EXCEPT !.doc = d] = r1
  BY DEF Jobs
<1>2. [r EXCEPT !.at = a] = r3
  BY DEF Jobs
<1>3. [r1 EXCEPT !.then = "applied"] = r2
  OBVIOUS
<1>4. [r2 EXCEPT !.at = a] = [at |-> a, then |-> "applied", tag |-> r.tag, user |-> r.user,
                              doc |-> d, adding |-> r.adding]
  OBVIOUS
<1>5. [r3 EXCEPT !.adding = b] = [at |-> a, then |-> r.then, tag |-> r.tag, user |-> r.user,
                                  doc |-> r.doc, adding |-> b]
  OBVIOUS
<1> HIDE DEF r1, r2, r3
<1> QED
  BY <1>1, <1>2, <1>3, <1>4, <1>5

\* The other steps that change more of a command than its place, or a client.
LEMMA ApplyIs ==
    ASSUME XrayTypeOK, NEW w \in XWorkers, Apply(w)
    PROVE  /\ work' \in [XWorkers -> Jobs \cup {Resting}]
           /\ work'[w] = [at |-> IF running THEN "stop" ELSE "applied", then |-> "applied",
                          tag |-> work[w].tag, user |-> work[w].user, doc |-> document,
                          adding |-> work[w].adding]
           /\ \A v \in XWorkers \ {w} : work'[v] = work[v]
<1> DEFINE r == [at |-> IF running THEN "stop" ELSE "applied", then |-> "applied",
                 tag |-> work[w].tag, user |-> work[w].user, doc |-> document,
                 adding |-> work[w].adding]
<1>1. work \in [XWorkers -> Jobs \cup {Resting}] /\ document \in Documents
  BY DEF XrayTypeOK
<1>2. work[w] \in Jobs
  BY BusyIsJob DEF Apply
<1>3. [[[work[w] EXCEPT !.doc = document] EXCEPT !.then = "applied"]
           EXCEPT !.at = IF running THEN "stop" ELSE "applied"] = r
  BY ZenonT(60), <1>2, JobExcept
<1>4. work' = [work EXCEPT ![w] = r]
  BY <1>1, <1>3 DEF Apply
<1>5. r \in Jobs
  BY <1>1, BusyIsJob DEF Jobs, Places, Apply
<1> QED
  BY <1>1, <1>4, <1>5

LEMMA DropIs ==
    ASSUME XrayTypeOK, NEW w \in XWorkers, DropUser(w)
    PROVE  /\ document' \in Documents
           /\ work' \in [XWorkers -> Jobs \cup {Resting}]
           /\ \A v \in XWorkers \ {w} : work'[v] = work[v]
           /\ ~running => document' = document /\ work'[w] = Resting
           /\ running =>
                /\ document' = With(document, work[w].tag, work[w].user, 0)
                /\ work'[w].at = "rmu"
                /\ work'[w].tag = work[w].tag /\ work'[w].user = work[w].user
<1> DEFINE t == work[w].tag
           u == work[w].user
           r == [at |-> "rmu", then |-> work[w].then, tag |-> t, user |-> u, doc |-> work[w].doc,
                 adding |-> document[t].listed /\ document[t].copies[u] > 0]
<1>1. work \in [XWorkers -> Jobs \cup {Resting}] /\ document \in Documents
  BY DEF XrayTypeOK
<1>2. t \in Tags /\ u \in Users
  BY BusyIsJob DEF DropUser
<1>3. CASE running
  <2>1. work[w] \in Jobs
    BY BusyIsJob DEF DropUser
  <2>2. [[work[w] EXCEPT !.at = "rmu"]
             EXCEPT !.adding = document[t].listed /\ document[t].copies[u] > 0] = r
    BY <2>1, JobExcept
  <2>3. work' = [work EXCEPT ![w] = r]
    BY <1>1, <1>3, <2>2 DEF DropUser
  <2>4. r \in Jobs
    <3>1. document[t] \in Inbounds
      BY <1>1, <1>2 DEF Documents
    <3>2. (document[t].listed /\ document[t].copies[u] > 0) \in BOOLEAN
      OBVIOUS
    <3> QED
      BY <3>2, BusyIsJob DEF Jobs, Places, DropUser
  <2>5. With(document, t, u, 0) \in Documents /\ document' = With(document, t, u, 0)
    BY <1>1, <1>2, <1>3, WithIs, XrayAssumption DEF DropUser
  <2> QED
    BY <1>1, <1>3, <2>3, <2>4, <2>5
<1>4. CASE ~running
  BY <1>1, <1>4, DoneIs DEF DropUser
<1> QED
  BY <1>3, <1>4 DEF XrayTypeOK

LEMMA AppendIs ==
    ASSUME XrayTypeOK, NEW w \in XWorkers, AppendUser(w)
    PROVE  /\ document' \in Documents
           /\ \A s \in Tags \ {work[w].tag} : document'[s] = document[s]
           /\ document'[work[w].tag].listed = document[work[w].tag].listed
           /\ ~running \/ ~document[work[w].tag].listed => document' = document
           /\ running /\ document[work[w].tag].listed =>
                /\ document[work[w].tag].copies[work[w].user] \in Nat
                /\ document'[work[w].tag].copies[work[w].user] =
                        document[work[w].tag].copies[work[w].user] + 1
                /\ \A v \in Users \ {work[w].user} :
                        document'[work[w].tag].copies[v] = document[work[w].tag].copies[v]
<1> DEFINE t == work[w].tag
           u == work[w].user
           n == document[t].copies[u] + 1
<1>1. /\ document \in Documents /\ t \in Tags /\ u \in Users
      /\ document[t] \in Inbounds
  BY BusyIsJob DEF XrayTypeOK, Documents, AppendUser
<1>2. CASE running /\ document[t].listed
  <2>1. document[t].copies \in [Users -> 0..MaxCopies]
    BY <1>1, <1>2, InboundIs
  <2>2. document[t].copies[u] < MaxCopies /\ document' = With(document, t, u, n)
    BY <1>2 DEF AppendUser
  <2>3. n \in 0..MaxCopies /\ document[t].copies[u] \in Nat
    BY <1>1, <2>1, <2>2, XrayAssumption
  <2>4. document[t].listed
    BY <1>2
  <2>5. /\ With(document, t, u, n) \in Documents
        /\ \A s \in Tags \ {t} : With(document, t, u, n)[s] = document[s]
        /\ With(document, t, u, n)[t].listed = document[t].listed
        /\ With(document, t, u, n)[t].copies[u] = n
        /\ \A v \in Users \ {u} : With(document, t, u, n)[t].copies[v] = document[t].copies[v]
    <3> HIDE DEF n, t, u
    <3>1. /\ With(document, t, u, n) \in Documents
          /\ \A s \in Tags \ {t} : With(document, t, u, n)[s] = document[s]
          /\ With(document, t, u, n)[t].listed = document[t].listed
      BY <1>1, <2>3, WithIs
    <3>2. With(document, t, u, n)[t].copies[u] = n
      BY <1>1, <2>3, <2>4, WithIs
    <3>3. \A v \in Users \ {u} : With(document, t, u, n)[t].copies[v] = document[t].copies[v]
      BY <1>1, <2>3, <2>4, WithIs
    <3> QED
      BY <3>1, <3>2, <3>3
  <2> QED
    BY <1>2, <2>2, <2>3, <2>5
<1>3. CASE ~(running /\ document[t].listed)
  BY <1>1, <1>3 DEF AppendUser
<1> QED
  BY <1>2, <1>3

LEMMA UserByApiType ==
    ASSUME XrayTypeOK, NEW w \in XWorkers, AddUserByApi(w) \/ DropUserByApi(w)
    PROVE  loaded' \in [XProcs -> Documents]
<1> DEFINE t == work[w].tag
           u == work[w].user
<1>1. /\ loaded \in [XProcs -> Documents] /\ document \in Documents
      /\ t \in Tags /\ u \in Users
  BY BusyIsJob DEF XrayTypeOK, AddUserByApi, DropUserByApi
<1> HIDE DEF t, u
<1>2. 0 \in 0..MaxCopies /\ 1 \in 0..MaxCopies
  BY XrayAssumption
<1>3. ASSUME NEW p \in XProcs, NEW n \in 0..MaxCopies,
             loaded' = [loaded EXCEPT ![p] = With(loaded[p], t, u, n)]
      PROVE  loaded' \in [XProcs -> Documents]
  <2>1. With(loaded[p], t, u, n) \in Documents
    BY <1>1, WithIs
  <2> QED
    BY <1>1, <1>3, <2>1
<1>4. ASSUME Reloads(document, t) \/ ReloadFails(document, t)
      PROVE  loaded' \in [XProcs -> Documents]
  BY <1>1, <1>4, ReloadType
<1> QED
  BY <1>2, <1>3, <1>4 DEF AddUserByApi, DropUserByApi, LastReload, Answering, t, u

\* A command that begins names an inbound and a client, and carries a document.
LEMMA CommandIs ==
    ASSUME NEW w \in XWorkers,
           \/ VStart(w) \/ VStop(w) \/ VRestart(w) \/ VSwitchVersion(w) \/ VApplyConfig(w)
           \/ VAddInbound(w) \/ VRemoveInbound(w) \/ VAddClient(w) \/ VRemoveClient(w)
    PROVE  \E at \in {"start", "stop", "apply", "add", "remove", "user", "unuser"},
              then \in {"rest", "start", "replace", "applied"},
              t \in Tags, u \in Users, doc \in Documents :
                  /\ Begin(w, at, then, t, u, doc)
                  /\ at = "stop" => then # "applied"
<1>1. SomeTag \in Tags /\ SomeUser \in Users
  BY XrayAssumption DEF SomeTag, SomeUser
<1>2. Nothing \in Documents
  BY NothingIsDocument
<1>3. CASE VStart(w) \/ VStop(w) \/ VRestart(w) \/ VSwitchVersion(w)
  BY <1>1, <1>2, <1>3 DEF VStart, VStop, VRestart, VSwitchVersion, Plain
<1>4. CASE VApplyConfig(w)
  <2>1. [Tags -> {Absent} \cup {Listing(c) : c \in Clients}] \subseteq Documents
    BY ListingIsInbound, NothingIsDocument DEF Documents
  <2> QED
    BY <1>1, <1>4, <2>1 DEF VApplyConfig
<1>5. CASE VAddInbound(w)
  <2>1. \A t \in Tags, c \in Clients : [Nothing EXCEPT ![t] = Listing(c)] \in Documents
    BY <1>2, ListingIsInbound DEF Documents
  <2> QED
    BY <1>1, <1>5, <2>1 DEF VAddInbound
<1>6. CASE VRemoveInbound(w)
  BY <1>1, <1>2, <1>6 DEF VRemoveInbound
<1>7. CASE VAddClient(w) \/ VRemoveClient(w)
  BY <1>2, <1>7 DEF VAddClient, VRemoveClient
<1> QED
  BY <1>3, <1>4, <1>5, <1>6, <1>7

LEMMA TypeStep ==
    ASSUME XrayTypeOK, [XrayNext]_xrayVars
    PROVE  XrayTypeOK'
<1> USE DEF processes, histories
<1>1. ASSUME NEW p \in XProcs, Load(p) \/ Exit(p) \/ Watch(p) \/ Reap(p)
      PROVE  XrayTypeOK'
  BY <1>1, NothingIsDocument DEF XrayTypeOK, Load, Exit, Watch, Reap
<1>2. ASSUME NEW w \in XWorkers,
             \/ VStart(w) \/ VStop(w) \/ VRestart(w) \/ VSwitchVersion(w) \/ VApplyConfig(w)
             \/ VAddInbound(w) \/ VRemoveInbound(w) \/ VAddClient(w) \/ VRemoveClient(w)
      PROVE  XrayTypeOK'
  <2>1. PICK at \in {"start", "stop", "apply", "add", "remove", "user", "unuser"},
             then \in {"rest", "start", "replace", "applied"},
             t \in Tags, u \in Users, doc \in Documents : Begin(w, at, then, t, u, doc)
    BY <1>2, CommandIs
  <2>2. at \in Places
    BY DEF Places
  <2>3. work' \in [XWorkers -> Jobs \cup {Resting}]
    BY <2>1, <2>2, BeginIs
  <2> QED
    BY <2>1, <2>3 DEF XrayTypeOK, Begin
<1>3. ASSUME NEW w \in XWorkers, work[w].at # "rest"
      PROVE  /\ work[w].tag \in Tags /\ work[w].user \in Users /\ work[w].doc \in Documents
             /\ \A t \in Tags : work[w].doc[t] \in Inbounds
             /\ \A at \in Places : Goto(w, at) => work' \in [XWorkers -> Jobs \cup {Resting}]
             /\ Goto(w, work[w].then) => work' \in [XWorkers -> Jobs \cup {Resting}]
             /\ Done(w) => work' \in [XWorkers -> Jobs \cup {Resting}]
  BY <1>3, BusyIsJob, GotoIs, ThenIs, DoneIs DEF Documents
<1>4. ASSUME NEW w \in XWorkers, Start(w) \/ Switched(w) \/ Applied(w) \/ Added(w)
      PROVE  XrayTypeOK'
  <2>1. Started \/ NotStarted
    BY <1>4 DEF Start, Switched, Applied, Added
  <2>2. work' \in [XWorkers -> Jobs \cup {Resting}]
    BY <1>3, <1>4 DEF Start, Switched, Applied, Added, Places
  <2> QED
    BY <1>4, <2>1, <2>2, LaunchType DEF XrayTypeOK, Start, Switched, Applied, Added
<1>5. ASSUME NEW w \in XWorkers, Stop(w)
      PROVE  XrayTypeOK'
  <2>1. work' \in [XWorkers -> Jobs \cup {Resting}]
    BY <1>3, <1>5 DEF Stop, Places
  <2> QED
    BY <1>5, <2>1 DEF XrayTypeOK, Stop
<1>6. ASSUME NEW w \in XWorkers, NEW killing \in BOOLEAN, Stopped(w, killing)
      PROVE  XrayTypeOK'
  <2>1. work' \in [XWorkers -> Jobs \cup {Resting}]
    BY <1>3, <1>6 DEF Stopped
  <2> QED
    BY <1>6, <2>1 DEF XrayTypeOK, Stopped
<1>7. ASSUME NEW w \in XWorkers, Replace(w) \/ Verify(w) \/ Add(w)
      PROVE  XrayTypeOK'
  <2>1. work' \in [XWorkers -> Jobs \cup {Resting}]
    BY <1>3, <1>7 DEF Replace, Verify, Add, Places
  <2> QED
    BY <1>7, <2>1 DEF XrayTypeOK, Replace, Verify, Add
<1>8. ASSUME NEW w \in XWorkers, Apply(w)
      PROVE  XrayTypeOK'
  <2>1. document' \in Documents
    BY <1>3, <1>8 DEF Apply
  <2>2. work' \in [XWorkers -> Jobs \cup {Resting}]
    BY <1>8, ApplyIs
  <2> QED
    BY <1>8, <2>1, <2>2 DEF XrayTypeOK, Apply
<1>9. ASSUME NEW w \in XWorkers, Back(w)
      PROVE  XrayTypeOK'
  <2>1. document' \in Documents /\ work' \in [XWorkers -> Jobs \cup {Resting}]
    BY <1>3, <1>9 DEF Back, Places
  <2> QED
    BY <1>9, <2>1 DEF XrayTypeOK, Back
<1>10. ASSUME NEW w \in XWorkers, Kept(w) \/ WriteFile(w) \/ Dropped(w)
       PROVE  XrayTypeOK'
  <2>1. work' \in [XWorkers -> Jobs \cup {Resting}]
    BY <1>3, <1>10 DEF Kept, WriteFile, Dropped, Places
  <2>2. \A t \in Tags, x \in Inbounds : [document EXCEPT ![t] = x] \in Documents
    BY DEF XrayTypeOK, Documents
  <2>3. document' \in Documents
    BY <1>3, <1>10, <2>2, NothingIsDocument DEF Kept, WriteFile, Dropped
  <2> QED
    BY <1>10, <2>1, <2>3 DEF XrayTypeOK, Kept, WriteFile, Dropped
<1>11. ASSUME NEW w \in XWorkers, AddByApi(w) \/ Remove(w)
       PROVE  XrayTypeOK'
  <2>1. work' \in [XWorkers -> Jobs \cup {Resting}]
    BY <1>3, <1>11 DEF AddByApi, Remove, Places
  <2>2. \A p \in XProcs, t \in Tags, x \in Inbounds :
            [loaded EXCEPT ![p][t] = x] \in [XProcs -> Documents]
    BY DEF XrayTypeOK, Documents
  <2>3. loaded' \in [XProcs -> Documents]
    <3>1. CASE AddByApi(w)
      BY <1>3, <3>1, <2>2 DEF AddByApi, Answering, XrayTypeOK
    <3>2. CASE Remove(w)
      BY <1>3, <3>2, <2>2, NothingIsDocument DEF Remove, Answering, XrayTypeOK
    <3> QED
      BY <1>11, <3>1, <3>2
  <2> QED
    BY <1>11, <2>1, <2>3 DEF XrayTypeOK, AddByApi, Remove
<1>12. ASSUME NEW w \in XWorkers, AppendUser(w)
       PROVE  XrayTypeOK'
  <2>1. work' \in [XWorkers -> Jobs \cup {Resting}]
    BY <1>3, <1>12 DEF AppendUser, Places
  <2> QED
    BY <1>12, <2>1, AppendIs DEF XrayTypeOK, AppendUser
<1>13. ASSUME NEW w \in XWorkers, DropUser(w)
       PROVE  XrayTypeOK'
  BY <1>13, DropIs DEF XrayTypeOK, DropUser
<1>14. ASSUME NEW w \in XWorkers, AddUserByApi(w) \/ DropUserByApi(w)
       PROVE  XrayTypeOK'
  <2>1. work' \in [XWorkers -> Jobs \cup {Resting}]
    BY <1>3, <1>14 DEF AddUserByApi, DropUserByApi, Places
  <2>2. loaded' \in [XProcs -> Documents]
    BY <1>14, UserByApiType
  <2>3. down' \in BOOLEAN
    BY <1>14 DEF AddUserByApi, DropUserByApi, Reloads, LastReload, XrayTypeOK
  <2> QED
    BY <1>14, <2>1, <2>2, <2>3 DEF XrayTypeOK, AddUserByApi, DropUserByApi
<1>15. ASSUME NEW w \in XWorkers, Undo(w)
       PROVE  XrayTypeOK'
  <2>1. work[w].at = "undo" /\ PutBack(w) \in Documents /\ work[w].tag \in Tags
    BY <1>3, <1>15, PutBackIs DEF Undo
  <2>2. loaded' \in [XProcs -> Documents]
    BY <1>15, <2>1, ReloadType DEF Undo, LastReload
  <2>3. work' \in [XWorkers -> Jobs \cup {Resting}] /\ down' \in BOOLEAN
    BY <1>15, DoneIs DEF Undo, LastReload, Reloads, XrayTypeOK
  <2> QED
    BY <1>15, <2>1, <2>2, <2>3 DEF XrayTypeOK, Undo
<1>16. CASE UNCHANGED xrayVars
  BY <1>16 DEF xrayVars, XrayTypeOK
<1> QED
  BY <1>1, <1>2, <1>4, <1>5, <1>6, <1>7, <1>8, <1>9, <1>10, <1>11, <1>12, <1>13, <1>14,
     <1>15, <1>16, XrayAssumption DEF XrayNext
-----------------------------------------------------------------------------
(* The flag and its goroutine.                                               *)

\* Commands that only change documents, the process' inbounds or their place.
LEMMA ProcessesOnly ==
    ASSUME UNCHANGED <<processes, cleared>>
    PROVE  /\ FlagTruthful => FlagTruthful'
           /\ RunningWatched => RunningWatched'
           /\ Live' = Live /\ Starting' = Starting /\ Answering' = Answering
BY DEF processes, FlagTruthful, RunningWatched, Live, Starting, Answering

\* The steps of a command that start, stop or wait for the process.
Driving(w) ==
    \/ Start(w) \/ Stop(w) \/ Switched(w) \/ Applied(w) \/ Added(w)
    \/ \E killing \in BOOLEAN : Stopped(w, killing)

\* The others.
Editing(w) ==
    \/ Replace(w) \/ Apply(w) \/ Verify(w) \/ Back(w)
    \/ Add(w) \/ AddByApi(w) \/ Kept(w) \/ WriteFile(w) \/ Remove(w) \/ Dropped(w)
    \/ AppendUser(w) \/ DropUser(w) \/ AddUserByApi(w) \/ DropUserByApi(w) \/ Undo(w)

Opening(w) ==
    \/ VStart(w) \/ VStop(w) \/ VRestart(w) \/ VSwitchVersion(w) \/ VApplyConfig(w)
    \/ VAddInbound(w) \/ VRemoveInbound(w) \/ VAddClient(w) \/ VRemoveClient(w)

LEMMA NextCases ==
    ASSUME [XrayNext]_xrayVars
    PROVE  \/ \E p \in XProcs : Load(p) \/ Exit(p) \/ Watch(p) \/ Reap(p)
           \/ \E w \in XWorkers : Opening(w) \/ Driving(w) \/ Editing(w)
           \/ UNCHANGED xrayVars
<1>1. ASSUME XrayNext
      PROVE  \/ \E p \in XProcs : Load(p) \/ Exit(p) \/ Watch(p) \/ Reap(p)
             \/ \E w \in XWorkers : Opening(w) \/ Driving(w) \/ Editing(w)
  BY <1>1, XrayAssumption DEF XrayNext, Opening, Driving, Editing
<1> QED
  BY <1>1

LEMMA EditingKeeps ==
    ASSUME NEW w \in XWorkers, Editing(w)
    PROVE  /\ UNCHANGED <<processes, cleared, mixed>>
           /\ work[w].at # "rest"
<1>1. UNCHANGED <<processes, cleared, mixed>>
  BY DEF Editing, Replace, Apply, Verify, Back, Add, AddByApi, Kept, WriteFile, Remove,
         Dropped, AppendUser, DropUser, AddUserByApi, DropUserByApi, Undo, histories
<1>2. work[w].at # "rest"
  BY DEF Editing, Replace, Apply, Verify, Back, Add, AddByApi, Kept, WriteFile, Remove,
         Dropped, AppendUser, DropUser, AddUserByApi, DropUserByApi, Undo
<1> QED
  BY <1>1, <1>2

LEMMA OpeningKeeps ==
    ASSUME NEW w \in XWorkers, Opening(w)
    PROVE  UNCHANGED <<processes, loaded, document, cleared, down>>
BY CommandIs DEF Opening, Begin

\* What becomes of the flag and the process when Start is called, whoever calls it.
LEMMA LaunchFlag ==
    ASSUME XrayTypeOK, Started \/ NotStarted, UNCHANGED cleared
    PROVE  /\ FlagTruthful => FlagTruthful'
           /\ RunningWatched => RunningWatched'
<1> USE DEF XrayTypeOK
<1>1. CASE Started
  <2>1. PICK p \in XProcs : Launch(p)
    BY <1>1 DEF Started
  <2>2. /\ running' = TRUE /\ cmd' = p
        /\ life'[p] = "starting" /\ watch'[p] = "fresh"
        /\ \A q \in XProcs \ {p} : life'[q] = life[q]
    BY <2>1 DEF Launch
  <2>3. RunningWatched'
    BY <2>2 DEF RunningWatched
  <2>4. FlagTruthful => FlagTruthful'
    BY <1>1, <2>2, XrayAssumption DEF FlagTruthful, Started
  <2> QED
    BY <2>3, <2>4
<1>2. CASE NotStarted
  BY <1>2, XrayAssumption DEF NotStarted, FlagTruthful, RunningWatched
<1> QED
  BY <1>1, <1>2

LEMMA FlagStep ==
    ASSUME XrayTypeOK, FlagTruthful, RunningWatched, [XrayNext]_xrayVars
    PROVE  FlagTruthful' /\ RunningWatched'
<1>1. ASSUME NEW p \in XProcs, Load(p) \/ Exit(p)
      PROVE  FlagTruthful' /\ RunningWatched'
  BY <1>1 DEF XrayTypeOK, Load, Exit, FlagTruthful, RunningWatched, histories
<1>2. ASSUME NEW p \in XProcs, Watch(p)
      PROVE  FlagTruthful' /\ RunningWatched'
  <2>1. FlagTruthful'
    BY <1>2 DEF Watch, FlagTruthful, histories
  <2>2. watch'[p] = cmd /\ cmd' = cmd /\ \A g \in XProcs \ {p} : watch'[g] = watch[g]
    BY <1>2 DEF XrayTypeOK, Watch
  <2> QED
    BY <2>1, <2>2 DEF RunningWatched
<1>3. ASSUME NEW p \in XProcs, Reap(p)
      PROVE  FlagTruthful' /\ RunningWatched'
  <2>1. FlagTruthful'
    BY <1>3, XrayAssumption DEF XrayTypeOK, Reap, Ended, FlagTruthful
  <2> QED
    BY <1>3, <2>1 DEF Reap, RunningWatched
<1>4. ASSUME NEW w \in XWorkers, Opening(w) \/ Editing(w)
      PROVE  FlagTruthful' /\ RunningWatched'
  BY <1>4, ProcessesOnly, EditingKeeps, OpeningKeeps
<1>5. ASSUME NEW w \in XWorkers, Start(w) \/ Switched(w) \/ Applied(w) \/ Added(w)
      PROVE  FlagTruthful' /\ RunningWatched'
  <2>1. (Started \/ NotStarted) /\ UNCHANGED cleared
    BY <1>5 DEF Start, Switched, Applied, Added, histories
  <2> QED
    BY <2>1, LaunchFlag
<1>6. ASSUME NEW w \in XWorkers, Stop(w)
      PROVE  FlagTruthful' /\ RunningWatched'
  <2>1. CASE ~running \/ cmd = NoProc
    <3>1. running' = FALSE /\ UNCHANGED <<life, cmd, watch, cleared>>
      BY <1>6, <2>1 DEF Stop, histories
    <3> QED
      BY <2>1, <3>1, XrayAssumption DEF FlagTruthful, RunningWatched
  <2>2. CASE ~(~running \/ cmd = NoProc)
    <3>1. /\ UNCHANGED <<running, cmd, watch, cleared>>
          /\ \A p \in XProcs : life'[p] \in {"starting", "alive"} => life[p] \in {"starting", "alive"}
      BY <1>6, <2>2 DEF XrayTypeOK, Stop, histories
    <3> QED
      BY <3>1 DEF FlagTruthful, RunningWatched
  <2> QED
    BY <2>1, <2>2
<1>7. ASSUME NEW w \in XWorkers, NEW killing \in BOOLEAN, Stopped(w, killing)
      PROVE  FlagTruthful' /\ RunningWatched'
  <2>1. /\ running' = FALSE /\ cmd' = cmd /\ cleared' = cleared
        /\ \A p \in XProcs : p # cmd => life'[p] = life[p]
        /\ cmd \in XProcs => life'[cmd] \in {"killed", "gone"}
    BY <1>7 DEF XrayTypeOK, Stopped, histories
  <2> QED
    BY <2>1 DEF FlagTruthful, RunningWatched
<1>8. CASE UNCHANGED xrayVars
  <2>1. UNCHANGED <<processes, cleared>>
    BY <1>8 DEF xrayVars, histories
  <2> QED
    BY <2>1, ProcessesOnly
<1> QED
  BY <1>1, <1>2, <1>3, <1>4, <1>5, <1>6, <1>7, <1>8, NextCases DEF Driving
-----------------------------------------------------------------------------
(* One command at a time.                                                    *)

LEMMA CommandKeeps ==
    ASSUME XrayTypeOK, NEW w \in XWorkers, Driving(w) \/ Editing(w)
    PROVE  /\ work[w] # Resting
           /\ \A v \in XWorkers \ {w} : work'[v] = work[v]
           /\ UNCHANGED <<cleared, mixed>>
           /\ ~down' => ~down
<1>1. work[w].at # "rest"
  BY EditingKeeps DEF Driving, Start, Stop, Switched, Applied, Added, Stopped
<1>2. work[w] # Resting
  BY <1>1 DEF Resting
<1>3. UNCHANGED <<cleared, mixed>>
  BY EditingKeeps DEF Driving, Start, Stop, Switched, Applied, Added, Stopped, histories
<1>4. \/ \E at \in Places : Goto(w, at)
      \/ Done(w) \/ Goto(w, work[w].then) \/ Apply(w) \/ DropUser(w)
  <2>1. CASE Driving(w)
    BY <2>1 DEF Driving, Start, Stop, Switched, Applied, Added, Stopped, Places
  <2>2. CASE Editing(w)
    BY <2>2 DEF Editing, Replace, Verify, Back, Add, AddByApi, Kept, WriteFile, Remove,
         Dropped, AppendUser, AddUserByApi, DropUserByApi, Undo, Places
  <2> QED
    BY <2>1, <2>2
<1>5. \A v \in XWorkers \ {w} : work'[v] = work[v]
  BY <1>1, <1>4, GotoIs, DoneIs, ThenIs, ApplyIs, DropIs
<1>6. ~down' => ~down
  <2>1. CASE Driving(w)
    BY <2>1 DEF Driving, Start, Stop, Switched, Applied, Added, Stopped, histories
  <2>2. CASE Editing(w)
    BY <2>2 DEF Editing, Replace, Apply, Verify, Back, Add, AddByApi, Kept, WriteFile, Remove,
         Dropped, AppendUser, DropUser, AddUserByApi, DropUserByApi, Undo, Reloads,
         ReloadFails, LastReload, histories
  <2> QED
    BY <2>1, <2>2
<1> QED
  BY <1>2, <1>3, <1>5, <1>6

LEMMA OpeningIs ==
    ASSUME XrayTypeOK, NEW w \in XWorkers, Opening(w)
    PROVE  /\ work[w] = Resting
           /\ work'[w].at \in {"start", "stop", "apply", "add", "remove", "user", "unuser"}
           /\ work'[w].at = "stop" => work'[w].then # "applied"
           /\ \A v \in XWorkers \ {w} : work'[v] = work[v]
           /\ mixed' = (mixed \/ \E v \in XWorkers : work[v] # Resting)
<1>1. PICK at \in {"start", "stop", "apply", "add", "remove", "user", "unuser"},
           then \in {"rest", "start", "replace", "applied"},
           t \in Tags, u \in Users, doc \in Documents :
               Begin(w, at, then, t, u, doc) /\ (at = "stop" => then # "applied")
  BY CommandIs DEF Opening
<1>2. at \in Places
  BY DEF Places
<1> QED
  BY <1>1, <1>2, BeginIs DEF Begin

LEMMA OneCommandStep ==
    ASSUME XrayTypeOK, OneCommand, [XrayNext]_xrayVars
    PROVE  OneCommand'
<1>1. ASSUME UNCHANGED <<work, mixed>>
      PROVE  OneCommand'
  BY <1>1 DEF OneCommand
<1>2. ASSUME NEW p \in XProcs, Load(p) \/ Exit(p) \/ Watch(p) \/ Reap(p)
      PROVE  OneCommand'
  BY <1>1, <1>2 DEF Load, Exit, Watch, Reap, histories
<1>3. ASSUME NEW w \in XWorkers, Opening(w)
      PROVE  OneCommand'
  BY <1>3, OpeningIs DEF OneCommand
<1>4. ASSUME NEW w \in XWorkers, Driving(w) \/ Editing(w)
      PROVE  OneCommand'
  BY <1>4, CommandKeeps DEF OneCommand
<1>5. CASE UNCHANGED xrayVars
  BY <1>1, <1>5 DEF xrayVars, histories
<1> QED
  BY <1>2, <1>3, <1>4, <1>5, NextCases
-----------------------------------------------------------------------------
(* The file and the process.                                                 *)

\* A calm command is alone ...
LEMMA Alone ==
    ASSUME XrayTypeOK, OneCommand, CommandAgrees, Calm,
           NEW w \in XWorkers, work[w].at # "rest"
    PROVE  /\ \A v \in XWorkers \ {w} : work[v] = Resting
           /\ Agrees(work[w])
<1>1. work[w] # Resting
  BY DEF Resting
<1> QED
  BY <1>1 DEF OneCommand, CommandAgrees, Calm

\* ... so that it is enough to look at what it leaves.
LEMMA AgreesAfter ==
    ASSUME NEW w \in XWorkers, \A v \in XWorkers \ {w} : work'[v] = Resting,
           Agrees(work[w])'
    PROVE  CommandAgrees'
<1>1. work'[w] = Resting => \A p \in Answering' : loaded'[p] = document'
  BY DEF Agrees, Resting, Stopping, Rewritten
<1> QED
  BY <1>1 DEF CommandAgrees

Afoot == {"kept", "dropped", "adu", "rmu", "undo"}
Halted == {"stopping", "applied", "back", "write"}

\* Agreement at most places, before and after a step.
LEMMA AgreesPlainly ==
    ASSUME NEW w \in XWorkers, Agrees(work[w]),
           work[w].at \notin Afoot \cup Halted,
           work[w].at = "stop" => work[w].then # "applied"
    PROVE  \A p \in Answering : loaded[p] = document
BY DEF Agrees, Stopping, Rewritten, Afoot, Halted

LEMMA PlainlyAgrees ==
    ASSUME NEW w \in XWorkers, work'[w].at \notin Afoot \cup Halted,
           \A p \in Answering' : loaded'[p] = document'
    PROVE  Agrees(work[w])'
BY DEF Agrees, Stopping, Rewritten, Afoot, Halted

\* Nothing can disagree when there is no process.
LEMMA NobodyDisagrees ==
    ASSUME NEW w \in XWorkers, work'[w].at \notin Afoot, Live' = {}
    PROVE  Agrees(work[w])'
<1>1. Answering' = {}
  BY DEF Live, Answering
<1> QED
  BY <1>1 DEF Agrees, Stopping, Rewritten, Afoot

LEMMA NothingLives ==
    ASSUME FlagTruthful, ~cleared, ~running \/ cmd = NoProc
    PROVE  Live = {}
BY XrayAssumption DEF FlagTruthful, Live

LEMMA OneLives ==
    ASSUME FlagTruthful, ~cleared, NEW p \in Answering
    PROVE  Answering = {p} /\ Live = {p} /\ Starting = {}
BY DEF FlagTruthful, Answering, Live, Starting

\* Start makes a process, but none that answers.
LEMMA LaunchAnswers ==
    ASSUME XrayTypeOK, Started \/ NotStarted
    PROVE  /\ Answering' = Answering
           /\ NotStarted => Live' = Live
<1>1. CASE Started
  <2>1. PICK p \in XProcs : Launch(p)
    BY <1>1 DEF Started
  <2>2. /\ life[p] \in {"unused", "gone"} /\ life'[p] = "starting"
        /\ \A q \in XProcs \ {p} : life'[q] = life[q]
    BY <2>1 DEF Launch, Spare, XrayTypeOK
  <2>3. Answering' = Answering
    BY <2>2 DEF Answering
  <2>4. NotStarted => Live' = Live
    BY DEF NotStarted, Live
  <2> QED
    BY <2>3, <2>4
<1>2. CASE NotStarted
  BY <1>2 DEF NotStarted, Answering, Live
<1> QED
  BY <1>1, <1>2

\* Where a command is after its step.
LEMMA Whereabouts ==
    ASSUME XrayTypeOK, NEW w \in XWorkers, work[w].at # "rest"
    PROVE  /\ \A at \in Places : Goto(w, at) =>
                /\ work'[w].at = at
                /\ work'[w].tag = work[w].tag /\ work'[w].user = work[w].user
                /\ work'[w].doc = work[w].doc
           /\ Done(w) => work'[w].at = "rest"
           /\ Goto(w, work[w].then) => work'[w].at \in {"rest", "start", "replace", "applied"}
<1>1. ASSUME NEW at \in Places, Goto(w, at)
      PROVE  /\ work'[w].at = at
             /\ work'[w].tag = work[w].tag /\ work'[w].user = work[w].user
             /\ work'[w].doc = work[w].doc
  <2>1. work'[w] = [at |-> at, then |-> work[w].then, tag |-> work[w].tag,
                    user |-> work[w].user, doc |-> work[w].doc, adding |-> work[w].adding]
    BY <1>1, GotoIs
  <2> QED
    BY <2>1
<1>2. Done(w) => work'[w].at = "rest"
  BY DoneIs DEF Resting
<1>3. ASSUME Goto(w, work[w].then)
      PROVE  work'[w].at \in {"rest", "start", "replace", "applied"}
  <2>1. work[w].then \in {"rest", "start", "replace", "applied"}
    BY BusyIsJob
  <2>2. CASE work[w].then = "rest"
    <3>1. work'[w] = Resting
      BY <1>3, <2>2, ThenIs
    <3> QED
      BY <3>1 DEF Resting
  <2>3. CASE work[w].then # "rest"
    <3>1. work'[w] = [at |-> work[w].then, then |-> work[w].then, tag |-> work[w].tag,
                      user |-> work[w].user, doc |-> work[w].doc, adding |-> work[w].adding]
      BY <1>3, <2>3, ThenIs
    <3> QED
      BY <2>1, <3>1
  <2> QED
    BY <2>2, <2>3
<1> QED
  BY <1>1, <1>2, <1>3

LEMMA DrivingAgrees ==
    ASSUME XrayTypeOK, FlagTruthful, ~cleared,
           NEW w \in XWorkers, Driving(w), Agrees(work[w])
    PROVE  Agrees(work[w])'
<1>1. CASE Start(w) \/ Switched(w) \/ Added(w)
  <2>1. \A p \in Answering : loaded[p] = document
    BY <1>1, AgreesPlainly DEF Start, Switched, Added, Afoot, Halted
  <2>2. Answering' = Answering /\ UNCHANGED <<loaded, document>>
    BY <1>1, LaunchAnswers DEF Start, Switched, Added
  <2>3. work'[w].at \in {"rest", "start"}
    BY <1>1, Whereabouts DEF Start, Switched, Added, Places
  <2> QED
    BY <2>1, <2>2, <2>3, PlainlyAgrees DEF Afoot, Halted
<1>2. CASE Applied(w)
  <2>1. Live = {} /\ Answering = {}
    BY <1>2 DEF Applied, Agrees, Stopping, Live, Answering
  <2>2. CASE Started /\ Goto(w, "verify")
    <3>1. Answering' = {}
      BY <2>1, <2>2, LaunchAnswers
    <3>2. work'[w].at = "verify"
      BY <1>2, <2>2, Whereabouts DEF Applied, Places
    <3> QED
      BY <3>1, <3>2, PlainlyAgrees DEF Afoot, Halted
  <2>3. CASE NotStarted /\ Goto(w, "back")
    <3>1. Live' = {}
      BY <2>1, <2>3, LaunchAnswers
    <3>2. work'[w].at = "back"
      BY <1>2, <2>3, Whereabouts DEF Applied, Places
    <3> QED
      BY <3>1, <3>2, NobodyDisagrees DEF Afoot
  <2> QED
    BY <1>2, <2>2, <2>3 DEF Applied
<1>3. CASE Stop(w)
  <2>1. CASE ~running \/ cmd = NoProc
    <3>1. Live = {} /\ Live' = Live
      BY <1>3, <2>1, NothingLives DEF Stop, Live
    <3>2. work[w].at # "rest" /\ Goto(w, work[w].then)
      BY <1>3, <2>1 DEF Stop
    <3>3. work'[w].at \in {"rest", "start", "replace", "applied"}
      BY <3>2, Whereabouts
    <3> QED
      BY <3>1, <3>3, NobodyDisagrees DEF Afoot
  <2>2. CASE ~(~running \/ cmd = NoProc)
    <3>1. \A p \in XProcs : /\ p # cmd => life'[p] = life[p]
                            /\ life'[cmd] \notin {"starting", "alive"}
      BY <1>3, <2>2 DEF Stop, XrayTypeOK
    <3>2. Live' = {}
      BY <3>1 DEF FlagTruthful, Live
    <3>3. work'[w].at = "stopping"
      BY <1>3, <2>2, Whereabouts DEF Stop, Places
    <3> QED
      BY <3>2, <3>3, NobodyDisagrees DEF Afoot
  <2> QED
    BY <2>1, <2>2
<1>4. ASSUME NEW killing \in BOOLEAN, Stopped(w, killing)
      PROVE  Agrees(work[w])'
  <2>1. Live = {}
    BY <1>4 DEF Stopped, Agrees, Stopping
  <2>2. \A p \in XProcs : life'[p] = life[p] \/ life'[p] = "killed"
    BY <1>4 DEF Stopped, XrayTypeOK
  <2>3. Live' = {}
    BY <2>1, <2>2 DEF Live
  <2>4. work[w].at # "rest" /\ Goto(w, work[w].then)
    BY <1>4 DEF Stopped
  <2>5. work'[w].at \in {"rest", "start", "replace", "applied"}
    BY <2>4, Whereabouts
  <2> QED
    BY <2>3, <2>5, NobodyDisagrees DEF Afoot
<1> QED
  BY <1>1, <1>2, <1>3, <1>4 DEF Driving

\* Two documents with the same inbounds are the same.
LEMMA SameDocument ==
    ASSUME NEW a \in Documents, NEW b \in Documents, \A t \in Tags : a[t] = b[t]
    PROVE  a = b
BY DEF Documents

\* Inbounds with the same clients are the same.
LEMMA SameInbound ==
    ASSUME NEW a \in Inbounds, NEW b \in Inbounds, a.listed = b.listed,
           b.listed => \A u \in Users : a.copies[u] = b.copies[u]
    PROVE  a = b
<1>1. CASE ~a.listed
  BY <1>1, InboundIs
<1>2. CASE a.listed
  <2>1. a \in [listed : {TRUE}, copies : [Users -> 0..MaxCopies]]
    BY <1>2, InboundIs
  <2>2. b \in [listed : {TRUE}, copies : [Users -> 0..MaxCopies]]
    BY <1>2, InboundIs
  <2>3. a.copies = b.copies
    BY <1>2, <2>1, <2>2
  <2> QED
    BY <2>1, <2>2, <2>3
<1> QED
  BY <1>1, <1>2

\* The steps that touch neither side, and those of ApplyConfig.
LEMMA PlainEditAgrees ==
    ASSUME XrayTypeOK, FlagTruthful, ~cleared, NEW w \in XWorkers, Agrees(work[w]),
           Replace(w) \/ Apply(w) \/ Verify(w) \/ Back(w) \/ Add(w) \/ WriteFile(w)
    PROVE  Agrees(work[w])'
<1>1. Live' = Live /\ Answering' = Answering /\ loaded' = loaded
  BY DEF Replace, Apply, Verify, Back, Add, WriteFile, Live, Answering, processes
<1>2. CASE Replace(w)
  <2>1. \A p \in Answering : loaded[p] = document
    BY <1>2, AgreesPlainly DEF Replace, Afoot, Halted
  <2>2. work'[w].at \in {"switched", "start", "rest"} /\ document' = document
    BY <1>2, Whereabouts DEF Replace, Places
  <2> QED
    BY <1>1, <2>1, <2>2, PlainlyAgrees DEF Afoot, Halted
<1>3. CASE Apply(w)
  <2> DEFINE at == IF running THEN "stop" ELSE "applied"
  <2>3. work'[w] = [at |-> at, then |-> "applied", tag |-> work[w].tag, user |-> work[w].user,
                    doc |-> document, adding |-> work[w].adding]
    BY <1>3, ApplyIs
  <2>4. work'[w].at = at /\ work'[w].then = "applied"
    BY <2>3
  <2>1. CASE running
    <3>1. work'[w].at = "stop" /\ work'[w].then = "applied"
      BY <2>1, <2>4
    <3> QED
      BY <3>1 DEF Agrees, Stopping, Rewritten
  <2>2. CASE ~running
    <3>1. work'[w].at = "applied"
      BY <2>2, <2>4
    <3> QED
      BY <1>1, <2>2, <3>1, NothingLives, NobodyDisagrees DEF Afoot
  <2> QED
    BY <2>1, <2>2
<1>4. CASE Verify(w)
  <2>1. \A p \in Answering : loaded[p] = document
    BY <1>4, AgreesPlainly DEF Verify, Afoot, Halted
  <2>2. CASE running
    <3>1. work'[w].at = "rest" /\ document' = document
      BY <1>4, <2>2, Whereabouts DEF Verify
    <3> QED
      BY <1>1, <2>1, <3>1, PlainlyAgrees DEF Afoot, Halted
  <2>3. CASE ~running
    <3>1. work'[w].at = "back"
      BY <1>4, <2>3, Whereabouts DEF Verify, Places
    <3> QED
      BY <1>1, <2>3, <3>1, NothingLives, NobodyDisagrees DEF Afoot
  <2> QED
    BY <2>2, <2>3
<1>5. CASE Back(w)
  <2>1. Live = {}
    BY <1>5 DEF Back, Agrees, Stopping
  <2>2. work'[w].at = "start"
    BY <1>5, Whereabouts DEF Back, Places
  <2> QED
    BY <1>1, <2>1, <2>2, NobodyDisagrees DEF Afoot
<1>6. CASE Add(w)
  <2>1. \A p \in Answering : loaded[p] = document
    BY <1>6, AgreesPlainly DEF Add, Afoot, Halted
  <2>2. CASE Goto(w, "write") /\ ~running
    <3>1. work'[w].at = "write"
      BY <1>6, <2>2, Whereabouts DEF Add, Places
    <3> QED
      BY <1>1, <2>2, <3>1, NothingLives, NobodyDisagrees DEF Afoot
  <2>3. CASE Goto(w, "adi") \/ Done(w)
    <3>1. work'[w].at \in {"adi", "rest"} /\ document' = document
      BY <1>6, <2>3, Whereabouts DEF Add, Places
    <3> QED
      BY <1>1, <2>1, <3>1, PlainlyAgrees DEF Afoot, Halted
  <2> QED
    BY <1>6, <2>2, <2>3 DEF Add
<1>7. CASE WriteFile(w)
  <2>1. Live = {}
    BY <1>7 DEF WriteFile, Agrees, Stopping
  <2>2. work'[w].at = "added"
    BY <1>7, Whereabouts DEF WriteFile, Places
  <2> QED
    BY <1>1, <2>1, <2>2, NobodyDisagrees DEF Afoot
<1> QED
  BY <1>2, <1>3, <1>4, <1>5, <1>6, <1>7

\* An inbound is added to, or removed from, the process first.
LEMMA ByApiAgrees ==
    ASSUME XrayTypeOK, FlagTruthful, ~cleared, NEW w \in XWorkers, Agrees(work[w]),
           AddByApi(w) \/ Remove(w)
    PROVE  Agrees(work[w])'
<1> DEFINE t == work[w].tag
           x == IF AddByApi(w) THEN work[w].doc[t] ELSE Absent
<1>1. \A p \in Answering : loaded[p] = document
  BY AgreesPlainly DEF AddByApi, Remove, Afoot, Halted
<1>2. /\ work[w].at # "rest" /\ document' = document
      /\ Answering' = Answering /\ Starting' = Starting
  BY DEF AddByApi, Remove, Answering, Starting, processes
<1>3. work[w].at = "adi" <=> AddByApi(w)
  BY DEF AddByApi, Remove
<1>4. CASE loaded' = loaded /\ Done(w)
  <2>1. work'[w].at = "rest"
    BY <1>2, <1>4, Whereabouts
  <2> QED
    BY <1>1, <1>2, <1>4, <2>1, PlainlyAgrees DEF Afoot, Halted
<1>5. ASSUME NEW p \in Answering, loaded' = [loaded EXCEPT ![p][t] = x],
             Goto(w, IF AddByApi(w) THEN "kept" ELSE "dropped")
      PROVE  Agrees(work[w])'
  <2>1. Answering = {p} /\ Starting = {}
    BY OneLives
  <2>2. p \in XProcs /\ loaded \in [XProcs -> Documents] /\ t \in Tags
    BY <1>2, BusyIsJob DEF Answering, XrayTypeOK
  <2>3. loaded'[p][t] = x /\ \A s \in Tags \ {t} : loaded'[p][s] = document[s]
    BY <1>1, <1>5, <2>2 DEF Documents
  <2>4. /\ work'[w].at = IF AddByApi(w) THEN "kept" ELSE "dropped"
        /\ work'[w].tag = t /\ work'[w].doc = work[w].doc
    <3>1. "kept" \in Places /\ "dropped" \in Places
      BY DEF Places
    <3> QED
      BY <1>2, <1>5, <3>1, Whereabouts
  <2>5. SameBut(p, t)'
    BY <1>2, <2>3, <2>4 DEF SameBut
  <2>6. CASE AddByApi(w)
    BY <1>2, <2>1, <2>3, <2>4, <2>5, <2>6 DEF Agrees, SameBut, Stopping, Rewritten
  <2>7. CASE ~AddByApi(w)
    BY <1>2, <2>1, <2>3, <2>4, <2>5, <2>7 DEF Agrees, SameBut, Stopping, Rewritten
  <2> QED
    BY <2>6, <2>7
<1> QED
  BY <1>3, <1>4, <1>5 DEF AddByApi, Remove

\* The file follows.
LEMMA FileFollows ==
    ASSUME XrayTypeOK, NEW w \in XWorkers, Agrees(work[w]), Kept(w) \/ Dropped(w)
    PROVE  Agrees(work[w])'
<1> DEFINE t == work[w].tag
           x == IF work[w].at = "kept" THEN work[w].doc[t] ELSE Absent
<1>1. /\ work[w].at \in {"kept", "dropped"} /\ Done(w)
      /\ document' = [document EXCEPT ![t] = x]
      /\ Answering' = Answering /\ loaded' = loaded
  BY DEF Kept, Dropped, Answering, processes
<1>2. \A p \in Answering : SameBut(p, t) /\ loaded[p][t] = x
  BY <1>1 DEF Agrees
<1>3. document \in Documents /\ t \in Tags /\ document' \in Documents
  <2>1. document \in Documents /\ t \in Tags /\ work[w].doc \in Documents
    BY <1>1, BusyIsJob DEF XrayTypeOK
  <2>2. x \in Inbounds
    BY <2>1, NothingIsDocument DEF Documents
  <2> HIDE DEF x
  <2> QED
    BY <1>1, <2>1, <2>2 DEF Documents
<1>4. document'[t] = x /\ \A s \in Tags \ {t} : document'[s] = document[s]
  BY <1>1, <1>3 DEF Documents
<1>5. ASSUME NEW p \in Answering
      PROVE  loaded[p] = document'
  <2>1. \A s \in Tags : loaded[p][s] = document'[s]
    BY <1>2, <1>4 DEF SameBut
  <2>2. loaded[p] \in Documents
    BY DEF XrayTypeOK, Answering
  <2> QED
    BY <1>3, <2>1, <2>2, SameDocument
<1>6. work'[w].at = "rest"
  BY <1>1, Whereabouts
<1> QED
  BY <1>1, <1>5, <1>6, PlainlyAgrees DEF Afoot, Halted

\* A client is written to the file or taken out of it, first.
LEMMA ClientAgrees ==
    ASSUME XrayTypeOK, NEW w \in XWorkers, Agrees(work[w]), AppendUser(w) \/ DropUser(w)
    PROVE  Agrees(work[w])'
<1> DEFINE t == work[w].tag
           u == work[w].user
<1>1. \A p \in Answering : loaded[p] = document
  BY AgreesPlainly DEF AppendUser, DropUser, Afoot, Halted
<1>2. /\ work[w].at # "rest" /\ Answering' = Answering /\ loaded' = loaded
      /\ t \in Tags /\ u \in Users /\ document \in Documents
  BY BusyIsJob DEF AppendUser, DropUser, Answering, processes, XrayTypeOK
<1>3. CASE ~running
  <2>1. work'[w].at = "rest" /\ document' = document
    BY <1>2, <1>3, Whereabouts DEF AppendUser, DropUser
  <2> QED
    BY <1>1, <1>2, <2>1, PlainlyAgrees DEF Afoot, Halted
<1>4. CASE running /\ AppendUser(w)
  <2>1. work'[w].at = "adu" /\ work'[w].tag = t /\ work'[w].user = u
    BY <1>2, <1>4, Whereabouts DEF AppendUser, Places
  <2>2. /\ \A s \in Tags \ {t} : document'[s] = document[s]
        /\ document'[t].listed = document[t].listed
        /\ document[t].listed =>
             /\ document[t].copies[u] \in Nat
             /\ document'[t].copies[u] = document[t].copies[u] + 1
             /\ \A v \in Users \ {u} : document'[t].copies[v] = document[t].copies[v]
    BY <1>4, AppendIs
  <2>3. document'[t].listed => document'[t].copies[u] > 0
    BY <2>2
  <2>4. ASSUME NEW p \in Answering
        PROVE  /\ \A s \in Tags \ {t} : loaded'[p][s] = document'[s]
               /\ loaded'[p][t].listed = document'[t].listed
               /\ document'[t].listed =>
                    /\ \A v \in Users \ {u} : loaded'[p][t].copies[v] = document'[t].copies[v]
                    /\ loaded'[p][t].copies[u] = document'[t].copies[u] - 1
    BY <1>1, <1>2, <2>2
  <2> HIDE DEF t, u
  <2> QED
    BY <1>2, <2>1, <2>3, <2>4 DEF Agrees, SameButUser, SameBut, Stopping, Rewritten
<1>5. CASE running /\ DropUser(w)
  <2>1. /\ document' = With(document, t, u, 0)
        /\ work'[w].at = "rmu" /\ work'[w].tag = t /\ work'[w].user = u
    BY <1>5, DropIs
  <2> HIDE DEF t, u
  <2>2. /\ \A s \in Tags \ {t} : document'[s] = document[s]
        /\ document'[t].listed = document[t].listed
        /\ document[t].listed =>
             /\ document'[t].copies[u] = 0
             /\ \A v \in Users \ {u} : document'[t].copies[v] = document[t].copies[v]
    BY <1>2, <2>1, WithIs, XrayAssumption
  <2>4. ASSUME NEW p \in Answering
        PROVE  /\ \A s \in Tags \ {t} : loaded'[p][s] = document'[s]
               /\ loaded'[p][t].listed = document'[t].listed
               /\ document'[t].listed =>
                    \A v \in Users \ {u} : loaded'[p][t].copies[v] = document'[t].copies[v]
    BY <1>1, <1>2, <2>2
  <2> QED
    BY <1>2, <2>1, <2>2, <2>4 DEF Agrees, SameButUser, SameBut, Stopping, Rewritten
<1> QED
  BY <1>3, <1>4, <1>5

\* An inbound that is loaded from the file agrees with it again.
LEMMA ReloadAgrees ==
    ASSUME XrayTypeOK, FlagTruthful, ~cleared, NEW doc \in Documents, NEW t \in Tags,
           \A p \in Answering : \A s \in Tags \ {t} : loaded[p][s] = doc[s],
           Reloads(doc, t)
    PROVE  \A p \in Answering : loaded'[p] = doc
<1>1. PICK p \in Answering : loaded' = [loaded EXCEPT ![p][t] = doc[t]]
  BY DEF Reloads
<1>2. Answering = {p}
  BY OneLives
<1>3. loaded \in [XProcs -> Documents] /\ p \in XProcs /\ doc[t] \in Inbounds
  BY DEF XrayTypeOK, Answering, Documents
<1>4. loaded'[p] \in Documents /\ \A s \in Tags : loaded'[p][s] = doc[s]
  BY <1>1, <1>3 DEF Documents
<1> QED
  BY <1>2, <1>4, SameDocument

\* One that is not leaves the other inbounds alone, and counts as down unless it
\* is not in the file or nobody answers.
LEMMA ReloadFailsKeeps ==
    ASSUME XrayTypeOK, NEW doc \in Documents, NEW t \in Tags, ReloadFails(doc, t)
    PROVE  /\ \A p \in Answering : \A s \in Tags \ {t} : loaded'[p][s] = loaded[p][s]
           /\ ~doc[t].listed => loaded' = loaded
BY DEF XrayTypeOK, ReloadFails, Answering, Documents

\* After the last attempt, too, unless it is remembered as one that left it down.
LEMMA LastReloadAgrees ==
    ASSUME XrayTypeOK, FlagTruthful, ~cleared, ~down', NEW doc \in Documents, NEW t \in Tags,
           \A p \in Answering : \A s \in Tags \ {t} : loaded[p][s] = doc[s],
           ~doc[t].listed => \A p \in Answering : ~loaded[p][t].listed,
           LastReload(doc, t)
    PROVE  \A p \in Answering : loaded'[p] = doc
<1>1. CASE Reloads(doc, t)
  BY <1>1, ReloadAgrees
<1>2. CASE ReloadFails(doc, t) /\ down' = (down \/ (doc[t].listed /\ Answering # {}))
  <2>1. CASE Answering = {}
    BY <2>1
  <2>2. CASE Answering # {}
    <3>1. ~doc[t].listed /\ loaded' = loaded
      BY <1>2, <2>2, ReloadFailsKeeps
    <3>2. ASSUME NEW p \in Answering
          PROVE  loaded[p] = doc
      <4>1. loaded[p] \in Documents
        BY DEF XrayTypeOK, Answering
      <4>2. loaded[p][t] = Absent /\ doc[t] = Absent
        BY <3>1, <4>1, InboundIs DEF Documents
      <4>3. \A s \in Tags : loaded[p][s] = doc[s]
        BY <4>2
      <4> QED
        BY <4>1, <4>3, SameDocument
    <3> QED
      BY <3>1, <3>2
  <2> QED
    BY <2>1, <2>2
<1> QED
  BY <1>1, <1>2 DEF LastReload

\* adu and rmu, or a reload instead of them.
LEMMA UserByApiAgrees ==
    ASSUME XrayTypeOK, FlagTruthful, ~cleared, ~down', NEW w \in XWorkers, Agrees(work[w]),
           AddUserByApi(w) \/ DropUserByApi(w)
    PROVE  Agrees(work[w])'
<1> DEFINE t == work[w].tag
           u == work[w].user
           n == IF work[w].at = "adu" THEN 1 ELSE 0
<1>1. /\ work[w].at \in {"adu", "rmu"} /\ document' = document /\ Answering' = Answering
      /\ t \in Tags /\ u \in Users /\ document \in Documents /\ document[t] \in Inbounds
      /\ loaded \in [XProcs -> Documents]
  BY BusyIsJob DEF AddUserByApi, DropUserByApi, Answering, processes, XrayTypeOK, Documents
<1>2. \A p \in Answering : SameButUser(p, t, u)
  BY <1>1 DEF Agrees
<1>3. ASSUME Done(w), \A p \in Answering : loaded'[p] = document
      PROVE  Agrees(work[w])'
  <2>1. work'[w].at = "rest"
    BY <1>1, <1>3, Whereabouts
  <2> QED
    BY <1>1, <1>3, <2>1, PlainlyAgrees DEF Afoot, Halted
<1>4. ASSUME NEW p \in Answering, loaded' = [loaded EXCEPT ![p] = With(loaded[p], t, u, n)],
             loaded[p][t].listed,
             IF n = 1 THEN loaded[p][t].copies[u] = 0 ELSE loaded[p][t].copies[u] > 0,
             Done(w)
      PROVE  Agrees(work[w])'
  <2>1. Answering = {p} /\ p \in XProcs
    BY OneLives DEF Answering
  <2>2. document[t].listed /\ document[t].copies \in [Users -> 0..MaxCopies]
    BY <1>1, <1>2, <1>4, InboundIs DEF SameButUser
  <2>3. document[t].copies[u] \in 0..MaxCopies
    BY <1>1, <2>2
  <2>4. document[t].copies[u] = n
    <3>1. CASE work[w].at = "adu"
      <4>1. /\ document[t].copies[u] > 0 /\ loaded[p][t].copies[u] = 0
            /\ \/ loaded[p][t].copies[u] = document[t].copies[u]
               \/ loaded[p][t].copies[u] = document[t].copies[u] - 1
        BY <1>4, <2>2, <3>1 DEF Agrees
      <4> QED
        BY <2>3, <3>1, <4>1, XrayAssumption
    <3>2. CASE work[w].at = "rmu"
      BY <2>2, <3>2 DEF Agrees
    <3> QED
      BY <1>1, <3>1, <3>2
  <2>5. loaded'[p] = With(loaded[p], t, u, n) /\ n \in 0..MaxCopies
    BY <1>1, <1>4, <2>1, XrayAssumption
  <2>6. SameButUser(p, t, u) /\ loaded[p] \in Documents
    BY <1>1, <1>2, <2>1
  <2> HIDE DEF t, u, n
  <2>7. /\ loaded'[p] \in Documents
        /\ \A s \in Tags \ {t} : loaded'[p][s] = loaded[p][s]
        /\ loaded'[p][t].listed
        /\ loaded'[p][t].copies[u] = n
        /\ \A v \in Users \ {u} : loaded'[p][t].copies[v] = loaded[p][t].copies[v]
    BY <1>1, <1>4, <2>5, <2>6, WithIs
  <2>8. /\ \A s \in Tags \ {t} : loaded'[p][s] = document[s]
        /\ \A v \in Users : loaded'[p][t].copies[v] = document[t].copies[v]
    BY <2>2, <2>4, <2>6, <2>7 DEF SameButUser, SameBut
  <2>9. loaded'[p][t] = document[t]
    <3>1. loaded'[p][t] \in Inbounds
      BY <1>1, <2>7 DEF Documents
    <3> QED
      BY <1>1, <2>2, <2>7, <2>8, <3>1, SameInbound, InboundIs
  <2>10. loaded'[p] = document
    BY <1>1, <2>7, <2>8, <2>9, SameDocument
  <2> QED
    BY <1>3, <1>4, <2>1, <2>10
<1>5. \A p \in Answering : \A s \in Tags \ {t} : loaded[p][s] = document[s]
  BY <1>2 DEF SameButUser, SameBut
<1>6. CASE Reloads(document, t) /\ Done(w)
  <2>1. \A p \in Answering : loaded'[p] = document
    BY <1>1, <1>5, <1>6, ReloadAgrees
  <2> QED
    BY <1>3, <1>6, <2>1
<1>7. CASE LastReload(document, t) /\ Done(w)
  <2>1. ~document[t].listed => \A p \in Answering : ~loaded[p][t].listed
    BY <1>2 DEF SameButUser
  <2>2. \A p \in Answering : loaded'[p] = document
    BY <1>1, <1>5, <1>7, <2>1, LastReloadAgrees
  <2> QED
    BY <1>3, <1>7, <2>2
<1>8. CASE ReloadFails(document, t) /\ Goto(w, "undo")
  <2>1. /\ \A p \in Answering : \A s \in Tags \ {t} : loaded'[p][s] = document[s]
        /\ ~document[t].listed => \A p \in Answering : ~loaded'[p][t].listed
    BY <1>1, <1>2, <1>5, <1>8, ReloadFailsKeeps DEF SameButUser
  <2>2. work'[w].at = "undo" /\ work'[w].tag = t
    BY <1>1, <1>8, Whereabouts DEF Places
  <2> HIDE DEF t, u
  <2> QED
    BY <1>1, <2>1, <2>2 DEF Agrees, SameBut, Stopping, Rewritten
<1>9. CASE AddUserByApi(w)
  BY <1>4, <1>6, <1>8, <1>9 DEF AddUserByApi
<1>10. CASE DropUserByApi(w)
  <2>1. n = 0
    BY <1>10 DEF DropUserByApi
  <2>2. CASE \E p \in Answering :
                /\ loaded[p][t].listed /\ loaded[p][t].copies[u] > 0
                /\ loaded' = [loaded EXCEPT ![p] = With(loaded[p], t, u, 0)]
                /\ Done(w)
    <3>1. PICK p \in Answering :
                /\ loaded[p][t].listed /\ loaded[p][t].copies[u] > 0
                /\ loaded' = [loaded EXCEPT ![p] = With(loaded[p], t, u, 0)]
                /\ Done(w)
      BY <2>2
    <3> HIDE DEF n, t, u
    <3>2. loaded' = [loaded EXCEPT ![p] = With(loaded[p], t, u, n)]
      BY <2>1, <3>1
    <3>3. IF n = 1 THEN loaded[p][t].copies[u] = 0 ELSE loaded[p][t].copies[u] > 0
      BY <2>1, <3>1
    <3> QED
      BY <1>4, <3>1, <3>2, <3>3
  <2>3. CASE \/ Reloads(document, t) /\ Done(w)
             \/ ReloadFails(document, t) /\ Goto(w, "undo")
             \/ LastReload(document, t) /\ Done(w)
    BY <1>6, <1>7, <1>8, <2>3
  <2> QED
    BY <1>10, <2>2, <2>3 DEF DropUserByApi
<1> QED
  BY <1>9, <1>10

\* The file is put back, and the inbound loaded from it.
LEMMA UndoAgrees ==
    ASSUME XrayTypeOK, FlagTruthful, ~cleared, ~down', NEW w \in XWorkers, Agrees(work[w]),
           Undo(w)
    PROVE  Agrees(work[w])'
<1> DEFINE t == work[w].tag
<1>1. /\ work[w].at = "undo" /\ Done(w) /\ document' = PutBack(w)
      /\ Answering' = Answering /\ t \in Tags
  BY BusyIsJob DEF Undo, Answering, processes
<1>2. \A p \in Answering : SameBut(p, t) /\ (~document[t].listed => ~loaded[p][t].listed)
  BY <1>1 DEF Agrees
<1>3. /\ PutBack(w) \in Documents
      /\ \A s \in Tags \ {t} : PutBack(w)[s] = document[s]
      /\ PutBack(w)[t].listed = document[t].listed
  BY <1>1, PutBackIs
<1>4. \A p \in Answering : \A s \in Tags \ {t} : loaded[p][s] = PutBack(w)[s]
  BY <1>2, <1>3 DEF SameBut
<1>5. LastReload(PutBack(w), t)
  BY DEF Undo
<1>6. \A p \in Answering : loaded'[p] = PutBack(w)
  BY <1>1, <1>2, <1>3, <1>4, <1>5, LastReloadAgrees
<1>7. work'[w].at = "rest"
  BY <1>1, Whereabouts
<1> QED
  BY <1>1, <1>6, <1>7, PlainlyAgrees DEF Afoot, Halted

\* The process reads the file, ends, or its goroutine takes a step.
LEMMA ProcessAgrees ==
    ASSUME XrayTypeOK, NEW p \in XProcs, Load(p) \/ Exit(p) \/ Watch(p) \/ Reap(p)
    PROVE  /\ \A w \in XWorkers : work'[w] = work[w] /\ (Agrees(work[w]) => Agrees(work[w])')
           /\ (\A q \in Answering : loaded[q] = document) =>
                \A q \in Answering' : loaded'[q] = document'
<1>1. UNCHANGED <<work, document>>
  BY DEF Load, Exit, Watch, Reap
<1>2. CASE Load(p)
  <2>1. /\ p \in Live /\ p \in Starting /\ Answering' = {p} /\ loaded'[p] = document
    BY <1>2 DEF XrayTypeOK, Load, Live, Starting, Answering
  <2>2. ASSUME NEW w \in XWorkers, Agrees(work[w])
        PROVE  Agrees(work[w])'
    <3>1. work[w].at \notin {"kept", "dropped"} \cup Halted
      BY <2>1, <2>2 DEF Agrees, Stopping, Halted
    <3> QED
      BY <1>1, <2>1, <2>2, <3>1 DEF Agrees, SameButUser, SameBut, Stopping, Rewritten, Halted
  <2> QED
    BY <1>1, <2>1, <2>2
<1>3. CASE Exit(p) \/ Watch(p) \/ Reap(p)
  <2>1. /\ Live' \subseteq Live /\ Starting' \subseteq Starting /\ Answering' \subseteq Answering
        /\ \A q \in Answering' : loaded'[q] = loaded[q]
    BY <1>3 DEF XrayTypeOK, Exit, Watch, Reap, Live, Starting, Answering
  <2>2. ASSUME NEW w \in XWorkers, Agrees(work[w])
        PROVE  Agrees(work[w])'
    BY SMTT(30), <1>1, <2>1, <2>2 DEF Agrees, SameButUser, SameBut, Stopping, Rewritten
  <2> QED
    BY <1>1, <2>1, <2>2
<1> QED
  BY <1>2, <1>3

LEMMA AgreementStep ==
    ASSUME XrayTypeOK, FlagTruthful, OneCommand, CommandAgrees, [XrayNext]_xrayVars
    PROVE  CommandAgrees'
<1> SUFFICES ASSUME Calm'
             PROVE  CommandAgrees'
  BY DEF CommandAgrees
<1>1. ~cleared' /\ ~mixed' /\ ~down'
  BY DEF Calm
<1>2. ASSUME NEW p \in XProcs, Load(p) \/ Exit(p) \/ Watch(p) \/ Reap(p)
      PROVE  CommandAgrees'
  <2>1. Calm
    <3>1. (cleared => cleared') /\ mixed' = mixed /\ down' = down
      BY <1>2 DEF XrayTypeOK, Load, Exit, Watch, Reap, histories
    <3> QED
      BY <1>1, <3>1 DEF Calm
  <2> QED
    BY <1>2, <2>1, ProcessAgrees DEF CommandAgrees
<1>3. ASSUME NEW w \in XWorkers, Opening(w)
      PROVE  CommandAgrees'
  <2>1. /\ UNCHANGED <<life, loaded, document>> /\ Calm
        /\ \A v \in XWorkers : work[v] = Resting
    BY <1>1, <1>3, OpeningKeeps, OpeningIs DEF Calm, processes
  <2>2. \A p \in Answering : loaded[p] = document
    BY <2>1 DEF CommandAgrees
  <2>3. /\ work'[w].at \notin Afoot \cup Halted \cup {"rest"}
        /\ work'[w].at = "stop" => work'[w].then # "applied"
    BY <1>3, OpeningIs DEF Afoot, Halted
  <2>4. \A p \in Answering' : loaded'[p] = document'
    BY <2>1, <2>2 DEF Answering
  <2>5. Agrees(work[w])'
    BY <2>3, <2>4, PlainlyAgrees
  <2>6. \A v \in XWorkers \ {w} : work'[v] = Resting
    BY <1>3, <2>1, OpeningIs
  <2> QED
    BY <2>5, <2>6, AgreesAfter
<1>4. ASSUME NEW w \in XWorkers, Driving(w) \/ Editing(w)
      PROVE  CommandAgrees'
  <2>1. /\ work[w] # Resting /\ Calm
        /\ \A v \in XWorkers \ {w} : work'[v] = work[v]
    BY <1>1, <1>4, CommandKeeps DEF Calm
  <2>2. work[w].at # "rest"
    BY <2>1, BusyIsNotResting
  <2>3. Agrees(work[w]) /\ \A v \in XWorkers \ {w} : work[v] = Resting
    BY <2>1, <2>2, Alone
  <2>4. ~cleared
    BY <2>1 DEF Calm
  <2>5. Agrees(work[w])'
    <3>1. CASE Driving(w)
      BY <2>3, <2>4, <3>1, DrivingAgrees
    <3>2. CASE Editing(w)
      BY <1>1, <2>3, <2>4, <3>2, PlainEditAgrees, ByApiAgrees, FileFollows, ClientAgrees,
         UserByApiAgrees, UndoAgrees DEF Editing
    <3> QED
      BY <1>4, <3>1, <3>2
  <2> QED
    BY <2>1, <2>3, <2>5, AgreesAfter
<1>5. CASE UNCHANGED xrayVars
  <2>1. /\ work' = work /\ loaded' = loaded /\ document' = document /\ life' = life
        /\ Calm' <=> Calm
    BY <1>5 DEF xrayVars, processes, histories, Calm
  <2>2. Live' = Live /\ Starting' = Starting /\ Answering' = Answering
    BY <2>1 DEF Live, Starting, Answering
  <2>3. ASSUME NEW w \in XWorkers, Agrees(work[w])
        PROVE  Agrees(work[w])'
    BY <2>1, <2>2, <2>3 DEF Agrees, SameBut, SameButUser, Stopping, Rewritten
  <2> QED
    BY <1>1, <2>1, <2>2, <2>3 DEF CommandAgrees
<1> QED
  BY <1>2, <1>3, <1>4, <1>5, NextCases
-----------------------------------------------------------------------------
LEMMA InitXray == XrayInit => XrayIInv
<1> SUFFICES ASSUME XrayInit PROVE XrayIInv
  OBVIOUS
<1>1. XrayTypeOK
  BY NothingIsDocument DEF XrayInit, XrayTypeOK
<1>2. FlagTruthful /\ RunningWatched
  BY DEF XrayInit, FlagTruthful, RunningWatched
<1>3. OneCommand /\ CommandAgrees
  BY DEF XrayInit, OneCommand, CommandAgrees, Answering
<1> QED
  BY <1>1, <1>2, <1>3 DEF XrayIInv

LEMMA StepXray == XrayIInv /\ [XrayNext]_xrayVars => XrayIInv'
<1> SUFFICES ASSUME XrayIInv, [XrayNext]_xrayVars PROVE XrayIInv'
  OBVIOUS
<1>1. XrayTypeOK /\ FlagTruthful /\ RunningWatched /\ OneCommand /\ CommandAgrees
  BY DEF XrayIInv
<1> QED
  BY <1>1, TypeStep, FlagStep, OneCommandStep, AgreementStep DEF XrayIInv

LEMMA XrayInvariant == XraySpec => []XrayIInv
<1>1. QED
  BY InitXray, StepXray, PTL DEF XraySpec

\* Processes, documents and commands are in states that exist.
THEOREM XrayTypeCorrect == XraySpec => []XrayTypeOK
<1>1. XrayIInv => XrayTypeOK
  BY DEF XrayIInv
<1>2. QED
  BY <1>1, XrayInvariant, PTL

\* Unless a watcher came too late, no process runs that the manager does not know
\* of, and "running" is set while one does (manager.go:83-85).
THEOREM FlagIsTruthful == XraySpec => []FlagTruthful
<1>1. XrayIInv => FlagTruthful
  BY DEF XrayIInv
<1>2. QED
  BY <1>1, XrayInvariant, PTL

\* While "running" is set, a goroutine is left that will clear it (manager.go:80).
THEOREM RunningIsWatched == XraySpec => []RunningWatched
<1>1. XrayIInv => RunningWatched
  BY DEF XrayIInv
<1>2. QED
  BY <1>1, XrayInvariant, PTL

\* Between commands that were run one at a time, a process that answers has what
\* the configuration file has, however the API calls, the reloads and the process
\* itself failed on the way (the Hot* commands and ApplyConfig of manager.go).
THEOREM FileAgreesWithXray == XraySpec => []FileAgrees
<1>1. XrayIInv => FileAgrees
  BY DEF XrayIInv, CommandAgrees, Calm, FileAgrees
<1>2. QED
  BY <1>1, XrayInvariant, PTL
=============================================================================
