---------------------------- MODULE XrayManager ----------------------------
(***************************************************************************)
(* The Xray process of a node, its configuration file and the commands     *)
(* that change them: go-node/x/xray/manager.go, called by the receiver of  *)
(* the reporter and, for a version switch, by a goroutine of its own.      *)
(*                                                                         *)
(* The manager's mutex is held while a command waits for the process to    *)
(* end (Stop); everything else it protects is a single step here.  The     *)
(* commands of the API (xray api adi, rmi, adu, rmu) and what Xray does    *)
(* with them are external.  Of an inbound, its tag and its clients matter. *)
(***************************************************************************)
EXTENDS Naturals, FiniteSets

CONSTANTS XProcs,     \* processes; a number is used again when nothing refers to it
          NoProc,
          XWorkers,   \* goroutines with a command: receivers of the reporter,
          Receivers,  \* and others, for a version switch each
          NoWorker,
          Tags,       \* inbounds
          Users,      \* clients
          MaxCopies,  \* bound: times a client is listed in an inbound
          XFaults     \* what may go wrong: "crash", "exec", "refused", "old" (no adu/rmu)

ASSUME XrayAssumption ==
    /\ NoProc \notin XProcs /\ NoWorker \notin XWorkers
    /\ (XProcs \cup {NoProc}) \cap {"none", "fresh", "done"} = {}
    /\ Receivers \subseteq XWorkers
    /\ Tags # {} /\ Users # {}
    /\ MaxCopies \in Nat \ {0}
    /\ XFaults \subseteq {"crash", "exec", "refused", "old"}

VARIABLES
    running,   \* m.running
    cmd,       \* m.cmd: the process it refers to
    life,      \* a process: "unused", "starting", "alive", "stopping", "killed" or "gone"
    loaded,    \* the inbounds of a process
    watch,     \* the goroutine that Start leaves behind: "none", "fresh", "done",
               \* or the process it waits for (NoProc: one that was not started)
    holder,    \* who holds m.mu while waiting
    document,  \* the inbounds of the configuration file
    work,      \* the command of a goroutine
    cleared,   \* history: a watcher cleared the flag of another process
    mixed,     \* history: two commands at the same time
    down       \* history: an inbound that failed to reload was not put back

processes == <<running, cmd, life, watch, holder>>
histories == <<cleared, mixed, down>>
xrayVars == <<processes, loaded, document, work, histories>>

Absent == [listed |-> FALSE]
Listing(c) == [listed |-> TRUE, copies |-> c]
Inbounds == [listed : {TRUE}, copies : [Users -> 0..MaxCopies]] \cup {Absent}
Documents == [Tags -> Inbounds]
Nothing == [t \in Tags |-> Absent]

Resting == [at |-> "rest"]
Places == {"stop", "stopping", "start", "replace", "switched", "restore", "apply", "applied",
           "verify", "back", "add", "adi", "kept", "write", "added", "remove", "dropped",
           "user", "adu", "unuser", "rmu", "undo"}
Jobs == [at : Places, then : {"rest", "start", "replace", "applied"}, tag : Tags,
         user : Users, doc : Documents, adding : BOOLEAN]

XrayTypeOK ==
    /\ running \in BOOLEAN /\ cmd \in XProcs \cup {NoProc}
    /\ life \in [XProcs -> {"unused", "starting", "alive", "stopping", "killed", "gone"}]
    /\ loaded \in [XProcs -> Documents]
    /\ watch \in [XProcs -> XProcs \cup {NoProc, "none", "fresh", "done"}]
    /\ holder \in XWorkers \cup {NoWorker}
    /\ document \in Documents
    /\ work \in [XWorkers -> Jobs \cup {Resting}]
    /\ cleared \in BOOLEAN /\ mixed \in BOOLEAN /\ down \in BOOLEAN

XrayInit ==
    /\ running = FALSE /\ cmd = NoProc
    /\ life = [p \in XProcs |-> "unused"] /\ loaded = [p \in XProcs |-> Nothing]
    /\ watch = [p \in XProcs |-> "none"]
    /\ holder = NoWorker
    /\ document = Nothing
    /\ work = [w \in XWorkers |-> Resting]
    /\ cleared = FALSE /\ mixed = FALSE /\ down = FALSE

Unlocked == holder = NoWorker
Done(w) == work' = [work EXCEPT ![w] = Resting]
Goto(w, at) == IF at = "rest" THEN Done(w) ELSE work' = [work EXCEPT ![w].at = at]
-----------------------------------------------------------------------------
(* The process and the goroutine that waits for it. *)

Answering == {p \in XProcs : life[p] = "alive"}

\* The process has read its file; it ends if another one still has its port.
Load(p) ==
    /\ life[p] = "starting"
    /\ \A q \in XProcs \ {p} : life[q] \in {"unused", "starting", "gone"}
    /\ \A t \in Tags : document[t].listed => \A u \in Users : document[t].copies[u] <= 1
    /\ life' = [life EXCEPT ![p] = "alive"]
    /\ loaded' = [loaded EXCEPT ![p] = document]
    /\ UNCHANGED <<running, cmd, watch, holder, document, work, histories>>

\* It ends: when it is told to, when it cannot start, or of itself.
Exit(p) ==
    /\ \/ life[p] \in {"starting", "stopping", "killed"}
       \/ life[p] = "alive" /\ "crash" \in XFaults
    /\ life' = [life EXCEPT ![p] = "gone"]
    /\ loaded' = [loaded EXCEPT ![p] = Nothing]
    /\ UNCHANGED <<running, cmd, watch, holder, document, work, histories>>

\* The goroutine evaluates m.cmd when it gets to run, without the lock.
Watch(p) ==
    /\ watch[p] = "fresh"
    /\ watch' = [watch EXCEPT ![p] = cmd]
    /\ UNCHANGED <<running, cmd, life, loaded, holder, document, work, histories>>

\* Wait returns at once for a command that could not be started.
Ended(p) == p = NoProc \/ (p \in XProcs /\ life[p] = "gone")

\* Mutant: the goroutine does not clear the flag.
Reap_NoFlag(p) ==
    /\ Ended(watch[p]) /\ Unlocked
    /\ watch' = [watch EXCEPT ![p] = "done"]
    /\ UNCHANGED <<running, cmd, life, loaded, holder, document, work, histories>>

\* Wait returned: the goroutine takes the lock and clears the flag, whatever
\* process the flag speaks of by now.
Reap(p) ==
    /\ Ended(watch[p]) /\ Unlocked
    /\ running' = FALSE
    /\ cleared' = (cleared \/ (running /\ cmd # watch[p]))
    /\ watch' = [watch EXCEPT ![p] = "done"]
    /\ UNCHANGED <<cmd, life, loaded, holder, document, work, mixed, down>>
-----------------------------------------------------------------------------
(* Start, Stop and Restart. *)

\* A process whose number nothing refers to any more.
Spare(p) ==
    /\ life[p] \in {"unused", "gone"} /\ p # cmd
    /\ watch[p] \in {"none", "done"}
    /\ \A q \in XProcs : watch[q] # p

\* Mutant: the flag is set by the goroutine later, not here.
Launch_NoFlag(p) ==
    /\ Spare(p)
    /\ cmd' = p /\ UNCHANGED running
    /\ life' = [life EXCEPT ![p] = "starting"]
    /\ watch' = [watch EXCEPT ![p] = "fresh"]

Launch(p) ==
    /\ Spare(p)
    /\ cmd' = p /\ running' = TRUE
    /\ life' = [life EXCEPT ![p] = "starting"]
    /\ watch' = [watch EXCEPT ![p] = "fresh"]

\* Start under its lock, and whether it has succeeded.
Started == ~(running /\ cmd # NoProc) /\ \E p \in XProcs : Launch(p)
NotStarted ==
    \/ /\ running /\ cmd # NoProc
       /\ UNCHANGED <<running, cmd, life, watch>>
    \/ /\ ~(running /\ cmd # NoProc)
       /\ "exec" \in XFaults
       /\ cmd' = NoProc
       /\ UNCHANGED <<running, life, watch>>

\* VStart, the second half of VRestart, and the restarts whose result is ignored.
Start(w) ==
    /\ work[w].at = "start" /\ Unlocked
    /\ Started \/ NotStarted
    /\ Done(w)
    /\ UNCHANGED <<holder, loaded, document, histories>>

\* Stop: nothing to do, or a signal and the wait.
Stop(w) ==
    /\ work[w].at = "stop" /\ Unlocked
    /\ IF ~running \/ cmd = NoProc
       THEN /\ running' = FALSE
            /\ Goto(w, work[w].then)
            /\ UNCHANGED <<life, holder>>
       ELSE /\ life' = [life EXCEPT ![cmd] = IF @ \in {"starting", "alive"} THEN "stopping" ELSE @]
            /\ holder' = w
            /\ Goto(w, "stopping")
            /\ UNCHANGED running
    /\ UNCHANGED <<cmd, watch, loaded, document, histories>>

\* The process has ended, or five seconds have passed and it is killed.
Stopped(w, killing) ==
    /\ work[w].at = "stopping"
    /\ killing # (life[cmd] = "gone")
    /\ life' = [life EXCEPT ![cmd] = IF killing THEN "killed" ELSE @]
    /\ running' = FALSE
    /\ holder' = NoWorker
    /\ Goto(w, work[w].then)
    /\ UNCHANGED <<cmd, watch, loaded, document, histories>>
-----------------------------------------------------------------------------
(* SwitchVersion: the new binary is there, Xray is stopped ... *)

\* ... it is put in place; if that fails, the old one is started again, but not
\* if the old one cannot be saved first.
Replace(w) ==
    /\ work[w].at = "replace"
    /\ \/ Goto(w, "switched")
       \/ "exec" \in XFaults /\ (Goto(w, "start") \/ Done(w))
    /\ UNCHANGED <<processes, loaded, document, histories>>

\* The new version is started; if that fails, the backup is restored and started.
Switched(w) ==
    /\ work[w].at = "switched" /\ Unlocked
    /\ \/ Started /\ Done(w)
       \/ NotStarted /\ Goto(w, "start")
    /\ UNCHANGED <<holder, loaded, document, histories>>
-----------------------------------------------------------------------------
(* ApplyConfig. *)

\* The old document is kept, the new one written, Xray started or restarted.
Apply(w) ==
    /\ work[w].at = "apply"
    /\ document' = work[w].doc
    /\ work' = [work EXCEPT ![w].doc = document, ![w].then = "applied",
                            ![w].at = IF running THEN "stop" ELSE "applied"]
    /\ UNCHANGED <<processes, loaded, histories>>

Applied(w) ==
    /\ work[w].at = "applied" /\ Unlocked
    /\ \/ Started /\ Goto(w, "verify")
       \/ NotStarted /\ Goto(w, "back")
    /\ UNCHANGED <<holder, loaded, document, histories>>

\* Two seconds later it must still be there.
Verify(w) ==
    /\ work[w].at = "verify" /\ Unlocked
    /\ IF running THEN Done(w) ELSE Goto(w, "back")
    /\ UNCHANGED <<processes, loaded, document, histories>>

\* The old document comes back, and Xray with it.
Back(w) ==
    /\ work[w].at = "back"
    /\ document' = work[w].doc
    /\ Goto(w, "start")
    /\ UNCHANGED <<processes, loaded, histories>>
-----------------------------------------------------------------------------
(* HotAddInbound and HotRemoveInbound. *)

\* Running, or not: then the binary must be there (and Xray still not running).
Add(w) ==
    /\ work[w].at = "add" /\ Unlocked
    /\ \/ running /\ Goto(w, "adi")
       \/ ~running /\ Goto(w, "write")
       \/ ~running /\ "exec" \in XFaults /\ Done(w)
    /\ UNCHANGED <<processes, loaded, document, histories>>

\* xray api adi: a known tag is refused.
AddByApi(w) ==
    LET t == work[w].tag IN
    /\ work[w].at = "adi"
    /\ \/ \E p \in Answering :
            /\ ~loaded[p][t].listed
            /\ loaded' = [loaded EXCEPT ![p][t] = work[w].doc[t]]
            /\ Goto(w, "kept")
       \/ /\ "refused" \in XFaults \/ ~\E p \in Answering : ~loaded[p][t].listed
          /\ Done(w)
          /\ UNCHANGED loaded
    /\ UNCHANGED <<processes, document, histories>>

\* The file follows the process ...
Kept(w) ==
    /\ work[w].at = "kept" /\ Unlocked
    /\ document' = [document EXCEPT ![work[w].tag] = work[w].doc[work[w].tag]]
    /\ Done(w)
    /\ UNCHANGED <<processes, loaded, histories>>

\* ... or, without one, goes first, and stays as it is when Xray does not start.
WriteFile(w) ==
    /\ work[w].at = "write" /\ Unlocked
    /\ document' = [document EXCEPT ![work[w].tag] = work[w].doc[work[w].tag]]
    /\ Goto(w, "added")
    /\ UNCHANGED <<processes, loaded, histories>>

Added(w) ==
    /\ work[w].at = "added" /\ Unlocked
    /\ Started \/ NotStarted
    /\ Done(w)
    /\ UNCHANGED <<holder, loaded, document, histories>>

Remove(w) ==
    LET t == work[w].tag IN
    /\ work[w].at = "remove" /\ Unlocked
    /\ \/ \E p \in Answering :
            /\ running /\ loaded[p][t].listed
            /\ loaded' = [loaded EXCEPT ![p][t] = Absent]
            /\ Goto(w, "dropped")
       \/ /\ ~running \/ "refused" \in XFaults \/ ~\E p \in Answering : loaded[p][t].listed
          /\ Done(w)
          /\ UNCHANGED loaded
    /\ UNCHANGED <<processes, document, histories>>

Dropped(w) ==
    /\ work[w].at = "dropped" /\ Unlocked
    /\ document' = [document EXCEPT ![work[w].tag] = Absent]
    /\ Done(w)
    /\ UNCHANGED <<processes, loaded, histories>>
-----------------------------------------------------------------------------
(* HotAddUser and HotRemoveUser: the file goes first. *)

With(doc, t, u, n) ==
    IF doc[t].listed THEN [doc EXCEPT ![t] = Listing([doc[t].copies EXCEPT ![u] = n])] ELSE doc

\* Appended, also when the client is listed already.
AppendUser(w) ==
    LET t == work[w].tag  u == work[w].user IN
    /\ work[w].at = "user" /\ Unlocked
    /\ IF running
       THEN /\ document[t].listed => document[t].copies[u] < MaxCopies
            /\ document' = IF document[t].listed THEN With(document, t, u, document[t].copies[u] + 1) ELSE document
            /\ Goto(w, "adu")
       ELSE Done(w) /\ UNCHANGED document
    /\ UNCHANGED <<processes, loaded, histories>>

\* All entries of the client are taken out; the last of them is kept in mind.
DropUser(w) ==
    LET t == work[w].tag  u == work[w].user IN
    /\ work[w].at = "unuser" /\ Unlocked
    /\ IF running
       THEN /\ document' = With(document, t, u, 0)
            /\ work' = [work EXCEPT ![w].at = "rmu",
                            ![w].adding = document[t].listed /\ document[t].copies[u] > 0]
       ELSE Done(w) /\ UNCHANGED document
    /\ UNCHANGED <<processes, loaded, histories>>

\* reloadInbound: rmi, whose failure is ignored, and adi with what the file has;
\* Xray refuses a client that is listed twice.
Repeated(inbound) == \E u \in Users : inbound.copies[u] > 1
Reloads(doc, t) ==
    /\ doc[t].listed /\ ~Repeated(doc[t])
    /\ \E p \in Answering : loaded' = [loaded EXCEPT ![p][t] = doc[t]]
    /\ UNCHANGED down
ReloadFails(doc, t) ==
    \/ /\ ~doc[t].listed \/ Answering = {}
       /\ UNCHANGED loaded
    \/ /\ doc[t].listed
       /\ "refused" \in XFaults \/ Repeated(doc[t])
       /\ \E p \in Answering : loaded' = [loaded EXCEPT ![p][t] = Absent]
\* The last attempt: after it the inbound stays down.
LastReload(doc, t) ==
    \/ Reloads(doc, t)
    \/ ReloadFails(doc, t) /\ down' = (down \/ (doc[t].listed /\ Answering # {}))

\* adu, or an inbound reload when that fails.
AddUserByApi(w) ==
    LET t == work[w].tag  u == work[w].user
        accepted(p) == loaded[p][t].listed /\ loaded[p][t].copies[u] = 0
    IN
    /\ work[w].at = "adu"
    /\ \/ \E p \in Answering :
            /\ accepted(p)
            /\ loaded' = [loaded EXCEPT ![p] = With(loaded[p], t, u, 1)]
            /\ Done(w) /\ UNCHANGED down
       \/ /\ "old" \in XFaults \/ ~\E p \in Answering : accepted(p)
          /\ \/ Reloads(document, t) /\ Done(w)
             \/ ReloadFails(document, t) /\ Goto(w, "undo") /\ UNCHANGED down
    /\ UNCHANGED <<processes, document, cleared, mixed>>

\* A client that the file did not list is not put back, and the inbound neither.
DropUserByApi(w) ==
    LET t == work[w].tag  u == work[w].user
        accepted(p) == loaded[p][t].listed /\ loaded[p][t].copies[u] > 0
    IN
    /\ work[w].at = "rmu"
    /\ \/ \E p \in Answering :
            /\ accepted(p)
            /\ loaded' = [loaded EXCEPT ![p] = With(loaded[p], t, u, 0)]
            /\ Done(w) /\ UNCHANGED down
       \/ /\ "old" \in XFaults \/ ~\E p \in Answering : accepted(p)
          /\ \/ Reloads(document, t) /\ Done(w)
             \/ work[w].adding /\ ReloadFails(document, t) /\ Goto(w, "undo") /\ UNCHANGED down
             \/ ~work[w].adding /\ LastReload(document, t) /\ Done(w)
    /\ UNCHANGED <<processes, document, cleared, mixed>>

\* All entries of the client come out, or the one that was taken out comes back.
PutBack(w) ==
    LET t == work[w].tag  u == work[w].user IN
    With(document, t, u, IF work[w].adding THEN document[t].copies[u] + 1 ELSE 0)

\* Mutant: the inbound is reloaded first, the file put back afterwards.
Undo_ReloadFirst(w) ==
    LET t == work[w].tag IN
    /\ work[w].at = "undo" /\ Unlocked
    /\ document' = PutBack(w)
    /\ LastReload(document, t)
    /\ Done(w)
    /\ UNCHANGED <<processes, cleared, mixed>>

\* The file is put back and the inbound reloaded from it, whatever comes of that.
Undo(w) ==
    LET t == work[w].tag IN
    /\ work[w].at = "undo" /\ Unlocked
    /\ work[w].adding /\ document[t].listed => document[t].copies[work[w].user] < MaxCopies
    /\ document' = PutBack(w)
    /\ LastReload(PutBack(w), t)
    /\ Done(w)
    /\ UNCHANGED <<processes, cleared, mixed>>
-----------------------------------------------------------------------------
(* A command of the panel. *)

Clients == [Users -> 0..1]
Begin(w, at, then, t, u, doc) ==
    /\ work[w] = Resting
    /\ work' = [work EXCEPT ![w] = [at |-> at, then |-> then, tag |-> t, user |-> u, doc |-> doc,
                                    adding |-> FALSE]]
    /\ mixed' = (mixed \/ \E v \in XWorkers : work[v] # Resting)
    /\ UNCHANGED <<processes, loaded, document, cleared, down>>

SomeTag == CHOOSE t \in Tags : TRUE
SomeUser == CHOOSE u \in Users : TRUE
Plain(w, at, then) == Begin(w, at, then, SomeTag, SomeUser, Nothing)

VStart(w)         == Plain(w, "start", "rest")
VStop(w)          == Plain(w, "stop", "rest")
VRestart(w)       == Plain(w, "stop", "start")
VSwitchVersion(w) == Plain(w, "stop", "replace")
VApplyConfig(w)   ==
    \E doc \in [Tags -> {Absent} \cup {Listing(c) : c \in Clients}] :
        Begin(w, "apply", "applied", SomeTag, SomeUser, doc)
VAddInbound(w)    ==
    \E t \in Tags, c \in Clients : Begin(w, "add", "rest", t, SomeUser, [Nothing EXCEPT ![t] = Listing(c)])
VRemoveInbound(w) == \E t \in Tags : Begin(w, "remove", "rest", t, SomeUser, Nothing)
VAddClient(w)     == \E t \in Tags, u \in Users : Begin(w, "user", "rest", t, u, Nothing)
VRemoveClient(w)  == \E t \in Tags, u \in Users : Begin(w, "unuser", "rest", t, u, Nothing)

XrayNext ==
    \/ \E p \in XProcs : Load(p) \/ Exit(p) \/ Watch(p) \/ Reap(p)
    \/ \E w \in XWorkers \ Receivers : VSwitchVersion(w)
    \/ \E w \in Receivers :
         \/ VStart(w) \/ VStop(w) \/ VRestart(w) \/ VApplyConfig(w) \/ VAddInbound(w)
         \/ VRemoveInbound(w) \/ VAddClient(w) \/ VRemoveClient(w)
    \/ \E w \in XWorkers :
         \/ Start(w) \/ Stop(w) \/ Replace(w) \/ Switched(w)
         \/ Apply(w) \/ Applied(w) \/ Verify(w) \/ Back(w)
         \/ Add(w) \/ AddByApi(w) \/ Kept(w) \/ WriteFile(w) \/ Added(w) \/ Remove(w) \/ Dropped(w)
         \/ AppendUser(w) \/ DropUser(w) \/ AddUserByApi(w) \/ DropUserByApi(w) \/ Undo(w)
         \/ \E killing \in BOOLEAN : Stopped(w, killing)

XraySpec == XrayInit /\ [][XrayNext]_xrayVars
-----------------------------------------------------------------------------
(* Properties. *)

\* Unless a watcher came so late that it cleared the flag of the next process
\* (manager.go:83-85), no process runs that the manager does not know of, and
\* "running" is set while one does: otherwise Stop could not stop it and Start
\* would start a second one, although Stop gives up waiting after five seconds.
FlagTruthful ==
    ~cleared => \A p \in XProcs : life[p] \in {"starting", "alive"} => running /\ p = cmd

\* While "running" is set there is a goroutine left that will clear it when the
\* process ends, also across restarts, failed starts and a late evaluation of
\* m.cmd (manager.go:80).
RunningWatched ==
    running => \E g \in XProcs : watch[g] \in {"fresh", cmd}

\* Between commands that were run one at a time, the process has what the file
\* has, so that a restart changes nothing: through refused API calls, reloads
\* of an inbound, rollbacks and crashes.
FileAgrees ==
    (~cleared /\ ~mixed /\ ~down /\ \A w \in XWorkers : work[w] = Resting) =>
        \A p \in Answering : loaded[p] = document
=============================================================================
