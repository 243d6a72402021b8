---------------------------- MODULE NodeServices ----------------------------
(***************************************************************************)
(* The services of a node: the registry of running services, the           *)
(* configuration that lists them and the file it is saved to, as the       *)
(* command handlers of go-node/x/socket/service.go change them.            *)
(*                                                                         *)
(* The commands run one after the other (routeCommand), as they do within  *)
(* one connection; the receivers of two may overlap for a moment, see      *)
(* NodeReporter, which is left out here.  Each is followed by saveConfig;  *)
(* the process may die anywhere in between and is started again from the   *)
(* file.  A service is parsed before it is registered, and parsing it      *)
(* binds its listener (ln.Init in config/parsing/service/parse.go).        *)
(***************************************************************************)
EXTENDS Naturals, Sequences

CONSTANTS Names,       \* service names; each has an address of its own
          Requests,    \* the lists of names the panel's commands carry
          Targets,     \* forwarder configurations
          NoTarget,
          MaxEntries   \* bound: entries of one name in the configuration

ASSUME ServicesAssumption ==
    /\ Requests \subseteq Seq(Names)
    /\ MaxEntries \in Nat \ {0}
    /\ NoTarget \notin Targets

VARIABLES
    target,        \* ServiceRegistry: the forwarder each service uses, if there is one
    listening,     \* names whose registered service has its listener open
    leaked,        \* names whose address is held by a listener nobody owns
    config,        \* the entries of each name in config.Services, in order
    disk,          \* the same, in runtime.json
    intact,        \* runtime.json holds a whole document
    pc,            \* "ready" for a command, "saving", "writing", or "down"
    saved,         \* history: the last saveConfig of this process succeeded
    broken         \* history: names a command failed half way on

services == <<target, listening, leaked, config>>
file     == <<disk, intact, saved>>
serviceVars     == <<services, file, pc, broken>>

Entry == [paused : BOOLEAN, target : Targets]

registered == {n \in Names : target[n] # NoTarget}

ServicesTypeOK ==
    /\ target \in [Names -> Targets \cup {NoTarget}]
    /\ listening \subseteq registered
    /\ leaked \subseteq Names
    /\ config \in [Names -> Seq(Entry)]
    /\ disk \in [Names -> Seq(Entry)]
    /\ intact \in BOOLEAN /\ saved \in BOOLEAN
    /\ pc \in {"ready", "saving", "writing", "down"}
    /\ broken \subseteq Names

\* A new node: an empty runtime.json was loaded.
ServicesInit ==
    /\ target = [n \in Names |-> NoTarget]
    /\ listening = {} /\ leaked = {} /\ broken = {}
    /\ config = [n \in Names |-> <<>>]
    /\ disk = config
    /\ intact = TRUE /\ saved = TRUE
    /\ pc = "ready"
-----------------------------------------------------------------------------
NamesOf(req) == {req[i] : i \in DOMAIN req}

\* A loop over the request that stops at the first bad name: the names
\* handled before it, and that name.
Before(req, bad) ==
    {req[i] : i \in {k \in DOMAIN req : \A j \in 1..k : req[j] \notin bad}}
FirstBad(req, bad) ==
    {req[i] : i \in {k \in DOMAIN req : /\ req[k] \in bad
                                        /\ \A j \in 1..(k - 1) : req[j] \notin bad}}

Configured == {n \in Names : config[n] # <<>>}
Flagged == {n \in Configured : config[n][1].paused}

\* `for i := range c.Services { if the name matches { ...; break } }`
SetFirst(names, Change(_)) ==
    [n \in Names |-> IF n \in names /\ config[n] # <<>>
                     THEN [config[n] EXCEPT ![1] = Change(@)]
                     ELSE config[n]]

Retarget(names, t) == [n \in Names |-> IF n \in names THEN t ELSE target[n]]

\* Mutant: a listener that shares its address with the forgotten one.
Refused_Reuse(foreign) == foreign

\* ParseService binds the address: it is refused while a listener nobody owns
\* or something foreign to the node holds it.
Refused(foreign) == leaked \cup foreign
-----------------------------------------------------------------------------
(* createServices.  The first phase parses every service, so each is bound *)
(* by the time a later one is refused.  Register cannot fail here: the     *)
(* names were not registered a moment ago and commands do not overlap.     *)

Created(req, foreign) == Before(req, registered \cup Refused(foreign))

Create(req, t, foreign) ==
    /\ Created(req, foreign) = NamesOf(req)
    /\ \A n \in NamesOf(req) : Len(config[n]) < MaxEntries
    /\ listening' = listening \cup NamesOf(req)
    /\ target' = Retarget(NamesOf(req), t)
    /\ config' = [n \in Names |->
           IF n \in NamesOf(req) THEN Append(config[n], [paused |-> FALSE, target |-> t])
           ELSE config[n]]
    /\ UNCHANGED <<leaked, broken>>

CreateFails(req, foreign) ==
    /\ Created(req, foreign) # NamesOf(req)
    /\ leaked' = leaked \cup Created(req, foreign)
    /\ UNCHANGED <<target, listening, config, broken>>

\* updateServices: all are closed first, then recreated one by one.
\* Mutant: the services are replaced, their entries are not.
Update_NoConfig(req, t, foreign) ==
    /\ NamesOf(req) \subseteq registered
    /\ Refused(foreign) \cap NamesOf(req) = {}
    /\ listening' = listening \cup NamesOf(req)
    /\ target' = Retarget(NamesOf(req), t)
    /\ UNCHANGED <<leaked, broken, config>>

Update(req, t, foreign) ==
    /\ NamesOf(req) \subseteq registered
    /\ Refused(foreign) \cap NamesOf(req) = {}
    /\ listening' = listening \cup NamesOf(req)
    /\ target' = Retarget(NamesOf(req), t)
    /\ config' = SetFirst(NamesOf(req), LAMBDA e : [paused |-> FALSE, target |-> t])
    /\ UNCHANGED <<leaked, broken>>

UpdateFails(req, t, foreign) ==
    LET created == Before(req, Refused(foreign))
    IN  /\ NamesOf(req) \subseteq registered
        /\ created # NamesOf(req)
        /\ listening' = (listening \ NamesOf(req)) \cup created
        /\ target' = [n \in Names |-> IF n \in created THEN t
                                     ELSE IF n \in NamesOf(req) THEN NoTarget ELSE target[n]]
        /\ broken' = broken \cup NamesOf(req)
        /\ UNCHANGED <<leaked, config>>

\* Mutant: the service is unregistered and forgotten, not closed.
Delete_NoClose(req) ==
    /\ NamesOf(req) \subseteq registered
    /\ target' = Retarget(NamesOf(req), NoTarget)
    /\ config' = [n \in Names |-> IF n \in NamesOf(req) THEN <<>> ELSE config[n]]
    /\ broken' = broken \ NamesOf(req)
    /\ UNCHANGED <<leaked, listening>>

\* Mutant: closed, but left in the registry.
Delete_KeepsService(req) ==
    /\ NamesOf(req) \subseteq registered
    /\ listening' = listening \ NamesOf(req)
    /\ config' = [n \in Names |-> IF n \in NamesOf(req) THEN <<>> ELSE config[n]]
    /\ broken' = broken \ NamesOf(req)
    /\ UNCHANGED <<target, leaked>>

Delete(req) ==
    /\ NamesOf(req) \subseteq registered
    /\ target' = Retarget(NamesOf(req), NoTarget)
    /\ listening' = listening \ NamesOf(req)
    /\ config' = [n \in Names |-> IF n \in NamesOf(req) THEN <<>> ELSE config[n]]
    /\ broken' = broken \ NamesOf(req)
    /\ UNCHANGED leaked

\* Mutant: closed, but not flagged.
Pause_NoFlag(req) ==
    /\ NamesOf(req) \subseteq registered
    /\ listening' = listening \ Before(req, Names \ Configured)
    /\ UNCHANGED <<target, leaked, config, broken>>

\* pauseServices: closed, but still registered.  A name without an entry stops
\* it before the flags are set; rollbackPausedServices then reopens those
\* closed and closes them again, as they are still registered (ErrDup).
Pause(req) ==
    LET closed == Before(req, Names \ Configured)
    IN  /\ NamesOf(req) \subseteq registered
        /\ listening' = listening \ closed
        /\ config' = IF closed = NamesOf(req)
                     THEN SetFirst(closed, LAMBDA e : [e EXCEPT !.paused = TRUE])
                     ELSE config
        /\ UNCHANGED <<target, leaked, broken>>

\* resumeServices: the flagged ones are replaced one by one by a service
\* parsed from their entry.
Resume(req, foreign) ==
    LET todo == NamesOf(req) \cap Flagged
    IN  /\ NamesOf(req) \subseteq registered \cap Configured
        /\ Refused(foreign) \cap todo = {}
        /\ listening' = listening \cup todo
        /\ target' = [n \in Names |-> IF n \in todo THEN config[n][1].target ELSE target[n]]
        /\ config' = SetFirst(todo, LAMBDA e : [e EXCEPT !.paused = FALSE])
        /\ UNCHANGED <<leaked, broken>>

\* rollbackResumedServices closes and flags those resumed before the refused one.
ResumeFails(req, foreign) ==
    LET todo    == NamesOf(req) \cap Flagged
        bad     == Refused(foreign) \cap todo
        resumed == Before(req, bad) \cap todo
        failed  == FirstBad(req, bad)
    IN  /\ NamesOf(req) \subseteq registered \cap Configured
        /\ bad # {}
        /\ listening' = listening \ (resumed \cup failed)
        /\ target' = [n \in Names |-> IF n \in resumed THEN config[n][1].target
                                     ELSE IF n \in failed THEN NoTarget ELSE target[n]]
        /\ config' = SetFirst(resumed, LAMBDA e : [e EXCEPT !.paused = TRUE])
        /\ broken' = broken \cup failed
        /\ UNCHANGED leaked

\* updateForwarder: swapped one by one, the configuration last.
UpdateForwarder(req, t) ==
    /\ NamesOf(req) \subseteq registered
    /\ target' = Retarget(NamesOf(req), t)
    /\ config' = SetFirst(NamesOf(req), LAMBDA e : [e EXCEPT !.target = t])
    /\ UNCHANGED <<listening, leaked, broken>>

UpdateForwarderFails(req, t) ==
    LET swapped == Before(req, Names \ registered)
    IN  /\ swapped # NamesOf(req)
        /\ target' = Retarget(swapped, t)
        /\ broken' = broken \cup swapped
        /\ UNCHANGED <<listening, leaked, config>>

\* A name is not registered, or has no entry: nothing was touched yet.
NotFound == UNCHANGED <<services, broken>>
-----------------------------------------------------------------------------
\* routeCommand: the handler, then saveConfig whatever its result.
Command ==
    /\ pc = "ready"
    /\ pc' = "saving"
    /\ UNCHANGED file
    /\ \/ NotFound
       \/ \E req \in Requests :
             \/ Delete(req)
             \/ Pause(req)
             \/ \E t \in Targets : UpdateForwarder(req, t) \/ UpdateForwarderFails(req, t)
             \/ \E foreign \in SUBSET Names :
                   \/ CreateFails(req, foreign)
                   \/ Resume(req, foreign)
                   \/ ResumeFails(req, foreign)
                   \/ \E t \in Targets : \/ Create(req, t, foreign)
                                         \/ Update(req, t, foreign)
                                         \/ UpdateFails(req, t, foreign)

\* saveConfig: os.Create truncates the file ...
Truncate ==
    /\ pc = "saving"
    /\ pc' = "writing"
    /\ disk' = [n \in Names |-> <<>>]
    /\ intact' = FALSE
    /\ UNCHANGED <<services, saved, broken>>

\* Mutant: what the encoder wrote is still in a buffer when the command is answered.
Write_Buffered ==
    /\ pc = "writing"
    /\ pc' = "ready"
    /\ saved' = TRUE
    /\ UNCHANGED <<services, disk, intact, broken>>

\* ... and the encoder fills it.
Write ==
    /\ pc = "writing"
    /\ pc' = "ready"
    /\ disk' = config
    /\ intact' = TRUE
    /\ saved' = TRUE
    /\ UNCHANGED <<services, broken>>

\* The errors of both are dropped.
SaveFails ==
    /\ pc \in {"saving", "writing"}
    /\ pc' = "ready"
    /\ saved' = FALSE
    /\ UNCHANGED <<services, disk, intact, broken>>

\* The process dies: what it bound is free again.
Crash ==
    /\ pc # "down"
    /\ pc' = "down"
    /\ target' = [n \in Names |-> NoTarget]
    /\ config' = [n \in Names |-> <<>>]
    /\ listening' = {} /\ leaked' = {} /\ broken' = {}
    /\ UNCHANGED file

\* loader.Load: every entry is parsed and registered, paused or not.  Two
\* entries of a name always give an error, and any error ends the process.
Loadable == intact /\ \A n \in Names : Len(disk[n]) <= 1

Restart ==
    /\ pc = "down"
    /\ Loadable
    /\ pc' = "ready"
    /\ config' = disk
    /\ listening' = {n \in Names : disk[n] # <<>>}
    /\ target' = [n \in Names |-> IF disk[n] # <<>> THEN disk[n][1].target ELSE NoTarget]
    /\ saved' = TRUE
    /\ UNCHANGED <<leaked, disk, intact, broken>>

ServicesNext == Command \/ Truncate \/ Write \/ SaveFails \/ Crash \/ Restart

ServicesSpec == ServicesInit /\ [][ServicesNext]_serviceVars
-----------------------------------------------------------------------------
(* Properties. *)

Up == pc # "down"

\* Whatever sequence of commands and failures, a service that runs is a
\* service the configuration lists: saved with the rest, restarted with the
\* rest, and found by pauseServices and resumeServices.
RegisteredIsConfigured == registered \subseteq Configured

\* A registered service whose listener is closed is flagged as paused, on
\* the entry resumeServices looks at: it can be resumed, and is never taken
\* for one that runs, even when a resume fails half way and is rolled back.
ClosedIsPaused == registered \ listening \subseteq Flagged

\* A listener that nobody owns (a create refused after binding) is never that
\* of a registered service, so a paused service finds its own address free.
LeakedIsUnregistered == leaked \cap registered = {}

\* The registry and the configuration tell the same story of every name no
\* command failed half way on: it is registered exactly when it has one entry,
\* and forwards where the entry says.  Only an update, resume or hot update
\* that stopped in the middle can leave an entry without a service or a second
\* entry, and such a node cannot be started again.
EntryIsService ==
    Up => \A n \in Names \ broken :
              /\ Len(config[n]) = IF n \in registered THEN 1 ELSE 0
              /\ n \in registered => target[n] = config[n][1].target

\* An answered command whose saveConfig succeeded is on disk: a crash after
\* the answer loses nothing.
AnsweredIsSaved == pc = "ready" /\ saved => intact /\ disk = config
=============================================================================
