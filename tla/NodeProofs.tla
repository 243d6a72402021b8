----------------------------- MODULE NodeProofs -----------------------------
(***************************************************************************)
(* Theorems about what runs on a node side by side: the service commands   *)
(* (NodeServices), for all names, requests and forwarders; the sessions of *)
(* a UDP listener (UdpListener), for any clients, sessions and capacities; *)
(* and that MCNode holds these parts and Xray as they are.                 *)
(***************************************************************************)
EXTENDS MCNode, XrayManagerProofs, TLAPS

-----------------------------------------------------------------------------
(* The service commands.                                                     *)

\* A node that is down owns nothing: what makes a restart start from the file
\* alone, with every address free.
DownIsEmpty == pc = "down" => leaked = {} /\ registered = {}

ServicesInv ==
    /\ ServicesTypeOK
    /\ RegisteredIsConfigured
    /\ ClosedIsPaused
    /\ LeakedIsUnregistered
    /\ EntryIsService
    /\ DownIsEmpty
-----------------------------------------------------------------------------
\* Overwriting the first entry keeps the sequence and its length.
LEMMA SetHead ==
    ASSUME NEW S, NEW s \in Seq(S), s # <<>>, NEW e \in S
    PROVE  /\ [s EXCEPT ![1] = e] \in Seq(S)
           /\ Len([s EXCEPT ![1] = e]) = Len(s)
           /\ [s EXCEPT ![1] = e] # <<>>
           /\ [s EXCEPT ![1] = e][1] = e
  OBVIOUS

\* A request names services, and what a loop over it has handled before it
\* stopped is part of it and was not refused.
LEMMA RequestNames ==
    ASSUME NEW req \in Requests, NEW bad
    PROVE  /\ NamesOf(req) \subseteq Names
           /\ Before(req, bad) \subseteq NamesOf(req)
           /\ Before(req, bad) \cap bad = {}
           /\ FirstBad(req, bad) \subseteq NamesOf(req) \cap bad
<1>1. req \in Seq(Names)
  BY ServicesAssumption
<1>2. \A k \in DOMAIN req : k \in 1..k /\ req[k] \in Names
  BY <1>1
<1>3. QED
  BY <1>2 DEF Before, FirstBad, NamesOf

\* The services part of TypeOK, and what EntryIsService says of a node that is up.
ServiceTypes ==
    /\ target \in [Names -> Targets \cup {NoTarget}]
    /\ listening \subseteq registered
    /\ leaked \subseteq Names
    /\ config \in [Names -> Seq(Entry)]
    /\ broken \subseteq Names

Matches ==
    \A n \in Names \ broken : /\ Len(config[n]) = IF n \in registered THEN 1 ELSE 0
                              /\ n \in registered => target[n] = config[n][1].target

ServiceInv == /\ ServiceTypes
              /\ RegisteredIsConfigured
              /\ ClosedIsPaused
              /\ LeakedIsUnregistered
              /\ Matches

\* Commands rewrite first entries only, unless they create or delete: the
\* entries keep their type and their number.
LEMMA HeadsOnly ==
    ASSUME config \in [Names -> Seq(Entry)],
           NEW M \in SUBSET Names, NEW E \in [M -> Entry], NEW c,
           c = [n \in Names |-> IF n \in M /\ config[n] # <<>>
                                THEN [config[n] EXCEPT ![1] = E[n]] ELSE config[n]]
    PROVE  /\ c \in [Names -> Seq(Entry)]
           /\ \A n \in Names : /\ Len(c[n]) = Len(config[n])
                               /\ c[n] = <<>> <=> config[n] = <<>>
                               /\ n \notin M => c[n] = config[n]
                               /\ n \in M /\ config[n] # <<>> => c[n][1] = E[n]
<1>1. ASSUME NEW n \in Names, n \in M, config[n] # <<>>
      PROVE  /\ c[n] \in Seq(Entry)
             /\ Len(c[n]) = Len(config[n])
             /\ c[n] # <<>>
             /\ c[n][1] = E[n]
  <2>1. config[n] \in Seq(Entry) /\ E[n] \in Entry
    BY <1>1
  <2>2. c[n] = [config[n] EXCEPT ![1] = E[n]]
    BY <1>1
  <2>3. QED
    BY <1>1, <2>1, <2>2, SetHead
<1>2. \A n \in Names : n \notin M \/ config[n] = <<>> => c[n] = config[n]
  OBVIOUS
<1>3. QED
  BY <1>1, <1>2

\* The first entry of a configured name is an entry.
LEMMA HeadEntry ==
    ASSUME ServiceTypes, NEW n \in Configured
    PROVE  config[n][1] \in Entry
  BY DEF ServiceTypes, Configured

\* Creating adds one entry and one running service for each name, or nothing.
LEMMA CreateStep ==
    ASSUME ServiceInv, NEW req \in Requests, NEW t \in Targets, NEW foreign \in SUBSET Names,
           Create(req, t, foreign)
    PROVE  ServiceInv'
<1> DEFINE R == NamesOf(req)
           e == [paused |-> FALSE, target |-> t]
<1>1. /\ R \subseteq Names
      /\ R \cap registered = {}
      /\ R \cap leaked = {}
  BY RequestNames DEF Create, Created, Refused
<1>2. e \in Entry /\ t # NoTarget
  BY ServicesAssumption DEF Entry
<1>3. /\ target' = Retarget(R, t)
      /\ listening' = listening \cup R
      /\ config' = [n \in Names |-> IF n \in R THEN Append(config[n], e) ELSE config[n]]
      /\ leaked' = leaked /\ broken' = broken
  BY DEF Create
<1> HIDE DEF R, e
<1>4. registered' = registered \cup R
  BY <1>1, <1>2, <1>3 DEF ServiceInv, ServiceTypes, registered, Retarget
<1>5. /\ config' \in [Names -> Seq(Entry)]
      /\ \A n \in Names : /\ n \notin R => config'[n] = config[n]
                          /\ n \in R => config'[n] # <<>> /\ Len(config'[n]) = Len(config[n]) + 1
                          /\ n \in R /\ Len(config[n]) = 0 => config'[n][1] = e
                          /\ config[n] # <<>> => config'[n] # <<>> /\ config'[n][1] = config[n][1]
  <2>1. \A n \in Names : config[n] \in Seq(Entry)
    BY DEF ServiceInv, ServiceTypes
  <2>2. ASSUME NEW n \in R
        PROVE  LET c == config'[n]
               IN  /\ c \in Seq(Entry)
                   /\ Len(c) = Len(config[n]) + 1
                   /\ c # <<>>
                   /\ Len(config[n]) = 0 => c[1] = e
                   /\ config[n] # <<>> => c[1] = config[n][1]
    <3>1. config[n] \in Seq(Entry) /\ config'[n] = Append(config[n], e)
      BY <1>1, <1>3, <2>1
    <3>2. QED
      BY <1>2, <3>1
  <2>3. \A n \in Names \ R : config'[n] = config[n]
    BY <1>3
  <2>4. config' \in [Names -> Seq(Entry)]
    BY <1>3, <2>1, <2>2, <2>3
  <2>5. QED
    BY <2>2, <2>3, <2>4
<1>6. ServiceTypes'
  BY <1>1, <1>2, <1>3, <1>4, <1>5 DEF ServiceInv, ServiceTypes, Retarget
<1>7. RegisteredIsConfigured'
  BY <1>1, <1>4, <1>5 DEF ServiceInv, RegisteredIsConfigured, Configured
<1>8. ClosedIsPaused'
  BY <1>1, <1>3, <1>4, <1>5 DEF ServiceInv, ClosedIsPaused, Flagged, Configured
<1>9. LeakedIsUnregistered'
  BY <1>1, <1>3, <1>4 DEF ServiceInv, LeakedIsUnregistered
<1>10. Matches'
  <2> SUFFICES ASSUME NEW n \in Names \ broken
               PROVE  /\ Len(config'[n]) = IF n \in registered' THEN 1 ELSE 0
                      /\ n \in registered' => target'[n] = config'[n][1].target
    BY <1>3 DEF Matches
  <2>1. CASE n \in R
    <3>1. Len(config[n]) = 0
      BY <1>1, <2>1 DEF ServiceInv, Matches
    <3>2. config'[n][1] = e /\ Len(config'[n]) = 0 + 1
      BY <1>5, <2>1, <3>1
    <3>3. e.target = t /\ target'[n] = t
      BY <1>3, <2>1 DEF Retarget, e
    <3>4. QED
      BY <1>4, <2>1, <3>2, <3>3
  <2>2. CASE n \notin R
    BY <1>3, <1>4, <1>5, <2>2 DEF ServiceInv, Matches, Retarget
  <2>3. QED
    BY <2>1, <2>2
<1>11. QED
  BY <1>6, <1>7, <1>8, <1>9, <1>10 DEF ServiceInv

\* A refused create leaves listeners behind, but only on addresses no service holds.
LEMMA CreateFailsStep ==
    ASSUME ServiceInv, NEW req \in Requests, NEW foreign \in SUBSET Names,
           CreateFails(req, foreign)
    PROVE  ServiceInv'
<1>1. /\ Created(req, foreign) \subseteq Names
      /\ Created(req, foreign) \cap registered = {}
  BY RequestNames DEF Created, Refused
<1>2. registered' = registered
  BY DEF CreateFails, registered
<1>3. QED
  BY <1>1, <1>2 DEF CreateFails, ServiceInv, ServiceTypes, RegisteredIsConfigured, Configured,
     ClosedIsPaused, Flagged, LeakedIsUnregistered, Matches

\* A command that rewrites the first entries of M as E, and drops F: what is
\* left to show for each of them.
LEMMA HeadStep ==
    ASSUME ServiceInv,
           NEW M \in SUBSET Configured, NEW E \in [M -> Entry], NEW F \in SUBSET Names,
           config' = [n \in Names |-> IF n \in M /\ config[n] # <<>>
                                      THEN [config[n] EXCEPT ![1] = E[n]] ELSE config[n]],
           target' \in [Names -> Targets \cup {NoTarget}],
           registered' = registered \ F,
           listening' \subseteq registered',
           leaked' = leaked,
           broken \cup F \subseteq broken', broken' \subseteq Names,
           \A n \in registered' \ broken' : target'[n] = IF n \in M THEN E[n].target ELSE target[n],
           \A n \in registered' \ listening' : IF n \in M THEN E[n].paused ELSE n \notin listening
    PROVE  ServiceInv'
<1>1. config \in [Names -> Seq(Entry)]
  BY DEF ServiceInv, ServiceTypes
<1>2. /\ config' \in [Names -> Seq(Entry)]
      /\ \A n \in Names : /\ Len(config'[n]) = Len(config[n])
                          /\ config'[n] = <<>> <=> config[n] = <<>>
                          /\ n \notin M => config'[n] = config[n]
                          /\ n \in M => config'[n][1] = E[n]
  BY <1>1, HeadsOnly DEF Configured
<1>3. Configured' = Configured
  BY <1>2 DEF Configured
<1>4. ServiceTypes'
  BY <1>2 DEF ServiceInv, ServiceTypes
<1>5. RegisteredIsConfigured' /\ LeakedIsUnregistered'
  BY <1>3 DEF ServiceInv, RegisteredIsConfigured, LeakedIsUnregistered
<1>6. ClosedIsPaused'
  <2> SUFFICES ASSUME NEW n \in registered' \ listening'
               PROVE  n \in Configured' /\ config'[n][1].paused
    BY DEF ClosedIsPaused, Flagged
  <2>1. n \in Configured' /\ n \in Names
    BY <1>5 DEF RegisteredIsConfigured, Configured
  <2>2. CASE n \in M
    BY <1>2, <2>1, <2>2
  <2>3. CASE n \notin M
    <3>1. n \in Flagged
      BY <2>3 DEF ServiceInv, ClosedIsPaused
    <3>2. QED
      BY <1>2, <2>1, <2>3, <3>1 DEF Flagged
  <2>4. QED
    BY <2>2, <2>3
<1>7. Matches'
  <2> SUFFICES ASSUME NEW n \in Names, n \notin broken'
               PROVE  /\ Len(config'[n]) = IF n \in registered' THEN 1 ELSE 0
                      /\ n \in registered' => target'[n] = config'[n][1].target
    BY DEF Matches
  <2>1. n \notin broken /\ n \notin F
    OBVIOUS
  <2>2. Len(config'[n]) = IF n \in registered' THEN 1 ELSE 0
    BY <1>2, <2>1 DEF ServiceInv, Matches
  <2>3. ASSUME n \in registered'
        PROVE  target'[n] = config'[n][1].target
    <3>1. CASE n \in M
      BY <1>2, <2>3, <3>1
    <3>2. CASE n \notin M
      BY <1>2, <2>1, <2>3, <3>2 DEF ServiceInv, Matches
    <3>3. QED
      BY <3>1, <3>2
  <2>4. QED
    BY <2>2, <2>3
<1>8. QED
  BY <1>4, <1>5, <1>6, <1>7 DEF ServiceInv

\* An update rewrites the entry of every name it restarts.
LEMMA UpdateStep ==
    ASSUME ServiceInv, NEW req \in Requests, NEW t \in Targets, NEW foreign \in SUBSET Names,
           Update(req, t, foreign)
    PROVE  ServiceInv'
<1> DEFINE R == NamesOf(req)
           E == [n \in R |-> [paused |-> FALSE, target |-> t]]
<1>1. /\ R \subseteq Names
      /\ R \subseteq registered
      /\ R \subseteq Configured
  BY RequestNames DEF Update, ServiceInv, RegisteredIsConfigured
<1>2. E \in [R -> Entry] /\ t # NoTarget
  BY ServicesAssumption DEF Entry
<1>3. config' = [n \in Names |-> IF n \in R /\ config[n] # <<>>
                                 THEN [config[n] EXCEPT ![1] = E[n]] ELSE config[n]]
  BY <1>1 DEF Update, SetFirst
<1>4. /\ \A n \in Names : target'[n] = IF n \in R THEN E[n].target ELSE target[n]
      /\ target' \in [Names -> Targets \cup {NoTarget}]
  BY DEF Update, Retarget, ServiceInv, ServiceTypes
<1>5. /\ listening' = listening \cup R
      /\ leaked' = leaked /\ broken' = broken
      /\ broken \subseteq Names /\ listening \subseteq registered
  BY DEF Update, ServiceInv, ServiceTypes
<1>6. registered' = registered \ {} /\ registered \subseteq Names
  BY <1>1, <1>2, <1>4 DEF registered
<1>7. /\ \A n \in registered' \ broken' : target'[n] = IF n \in R THEN E[n].target ELSE target[n]
      /\ \A n \in registered' \ listening' : IF n \in R THEN E[n].paused ELSE n \notin listening
      /\ {} \in SUBSET Names
      /\ broken \cup {} \subseteq broken' /\ broken' \subseteq Names
      /\ listening' \subseteq registered'
  BY <1>1, <1>4, <1>5, <1>6
<1> HIDE DEF R, E
<1>8. QED
  BY <1>1, <1>2, <1>3, <1>4, <1>5, <1>6, <1>7, HeadStep

\* A refused update leaves names closed and unregistered, and marks them.
LEMMA UpdateFailsStep ==
    ASSUME ServiceInv, NEW req \in Requests, NEW t \in Targets, NEW foreign \in SUBSET Names,
           UpdateFails(req, t, foreign)
    PROVE  ServiceInv'
<1> DEFINE R == NamesOf(req)
           C == Before(req, Refused(foreign))
<1>1. /\ C \subseteq R
      /\ R \subseteq Names
      /\ R \subseteq registered
      /\ C \cap leaked = {}
  BY RequestNames DEF UpdateFails, Refused
<1>2. t # NoTarget
  BY ServicesAssumption
<1>3. /\ target' = [n \in Names |-> IF n \in C THEN t ELSE IF n \in R THEN NoTarget ELSE target[n]]
      /\ listening' = (listening \ R) \cup C
      /\ config' = config /\ leaked' = leaked
      /\ broken' = broken \cup R
  BY DEF UpdateFails
<1> HIDE DEF R, C
<1>4. registered' = (registered \ R) \cup C
  BY <1>1, <1>2, <1>3 DEF registered
<1>5. QED
  BY <1>1, <1>3, <1>4 DEF ServiceInv, ServiceTypes, RegisteredIsConfigured, Configured,
     ClosedIsPaused, Flagged, LeakedIsUnregistered, Matches

\* A deletion takes the service, its listener and its entry away together.
LEMMA DeleteStep ==
    ASSUME ServiceInv, NEW req \in Requests, Delete(req)
    PROVE  ServiceInv'
<1> DEFINE R == NamesOf(req)
<1>1. R \subseteq Names
  BY RequestNames
<1>2. /\ \A n \in Names : target'[n] = IF n \in R THEN NoTarget ELSE target[n]
      /\ target' \in [Names -> Targets \cup {NoTarget}]
      /\ listening' = listening \ R
      /\ \A n \in Names : config'[n] = IF n \in R THEN <<>> ELSE config[n]
      /\ config' \in [Names -> Seq(Entry)]
      /\ broken' = broken \ R
      /\ leaked' = leaked
  <2>1. <<>> \in Seq(Entry)
    OBVIOUS
  <2>2. QED
    BY <2>1 DEF Delete, Retarget, ServiceInv, ServiceTypes
<1> HIDE DEF R
<1>3. registered' = registered \ R
  BY <1>2 DEF registered
<1>4. \A n \in Names : n \notin R => config'[n] = config[n]
  BY <1>2
<1>5. ServiceTypes' /\ LeakedIsUnregistered'
  BY <1>1, <1>2, <1>3 DEF ServiceInv, ServiceTypes, LeakedIsUnregistered
<1>6. RegisteredIsConfigured' /\ ClosedIsPaused'
  BY <1>2, <1>3, <1>4 DEF ServiceInv, RegisteredIsConfigured, Configured, ClosedIsPaused, Flagged
<1>7. Matches'
  <2> SUFFICES ASSUME NEW n \in Names \ broken'
               PROVE  /\ Len(config'[n]) = IF n \in registered' THEN 1 ELSE 0
                      /\ n \in registered' => target'[n] = config'[n][1].target
    BY DEF Matches
  <2>1. CASE n \in R
    <3>1. config'[n] = <<>> /\ n \notin registered'
      BY <1>2, <1>3, <2>1
    <3>2. QED
      BY <3>1
  <2>2. CASE n \notin R
    BY <1>2, <1>3, <1>4, <2>2 DEF ServiceInv, Matches
  <2>3. QED
    BY <2>1, <2>2
<1>8. QED
  BY <1>5, <1>6, <1>7 DEF ServiceInv

\* A pause flags exactly the entries whose listeners it closes.
LEMMA PauseStep ==
    ASSUME ServiceInv, NEW req \in Requests, Pause(req)
    PROVE  ServiceInv'
<1> DEFINE R == NamesOf(req)
           E == [n \in R |-> [config[n][1] EXCEPT !.paused = TRUE]]
<1>1. /\ R \subseteq Names
      /\ R \subseteq registered
      /\ R \subseteq Configured
  BY RequestNames DEF Pause, ServiceInv, RegisteredIsConfigured
<1>2. Before(req, Names \ Configured) = R
  <2>1. \A i \in DOMAIN req : req[i] \in Configured
    BY <1>1 DEF NamesOf
  <2>2. req \in Seq(Names)
    BY ServicesAssumption
  <2>3. \A i \in DOMAIN req : 1..i \subseteq DOMAIN req
    BY <2>2
  <2>4. QED
    BY <2>1, <2>3 DEF Before, NamesOf
<1>3. \A n \in R : config[n][1] \in Entry
  BY <1>1, HeadEntry DEF ServiceInv
<1>4. /\ E \in [R -> Entry]
      /\ \A n \in R : E[n].paused /\ E[n].target = config[n][1].target
  BY <1>1, <1>3 DEF Entry
<1>5. config' = [n \in Names |-> IF n \in R /\ config[n] # <<>>
                                 THEN [config[n] EXCEPT ![1] = E[n]] ELSE config[n]]
  BY <1>1, <1>2 DEF Pause, SetFirst
<1>6. /\ listening' = listening \ R
      /\ target' = target /\ leaked' = leaked /\ broken' = broken
      /\ broken \subseteq Names /\ listening \subseteq registered
      /\ target' \in [Names -> Targets \cup {NoTarget}]
  BY <1>2 DEF Pause, ServiceInv, ServiceTypes
<1>7. registered' = registered \ {} /\ registered \subseteq Names
  BY <1>6 DEF registered
<1>8. \A n \in R \ broken : E[n].target = target[n]
  BY <1>1, <1>4 DEF ServiceInv, Matches
<1> HIDE DEF R, E
<1>9. /\ \A n \in registered' \ broken' : target'[n] = IF n \in R THEN E[n].target ELSE target[n]
      /\ {} \in SUBSET Names
      /\ broken \cup {} \subseteq broken' /\ broken' \subseteq Names
      /\ listening' \subseteq registered'
  BY <1>1, <1>6, <1>7, <1>8
<1>10. \A n \in registered' \ listening' : IF n \in R THEN E[n].paused ELSE n \notin listening
  BY <1>4, <1>6
<1>11. QED
  BY <1>1, <1>4, <1>5, <1>6, <1>7, <1>9, <1>10, HeadStep

\* A resume opens the listeners of the names it clears the flag of.
LEMMA ResumeStep ==
    ASSUME ServiceInv, NEW req \in Requests, NEW foreign \in SUBSET Names, Resume(req, foreign)
    PROVE  ServiceInv'
<1> DEFINE T == NamesOf(req) \cap Flagged
           E == [n \in T |-> [config[n][1] EXCEPT !.paused = FALSE]]
<1>1. /\ T \subseteq registered
      /\ T \subseteq Configured
  BY DEF Resume
<1>2. \A n \in T : config[n][1] \in Entry
  BY <1>1, HeadEntry DEF ServiceInv
<1>3. /\ E \in [T -> Entry]
      /\ \A n \in T : E[n].target = config[n][1].target /\ E[n].target \in Targets
  BY <1>2 DEF Entry
<1>4. config' = [n \in Names |-> IF n \in T /\ config[n] # <<>>
                                 THEN [config[n] EXCEPT ![1] = E[n]] ELSE config[n]]
  BY DEF Resume, SetFirst
<1>5. /\ listening' = listening \cup T
      /\ target' = [n \in Names |-> IF n \in T THEN config[n][1].target ELSE target[n]]
      /\ leaked' = leaked /\ broken' = broken
      /\ broken \subseteq Names /\ listening \subseteq registered
      /\ target \in [Names -> Targets \cup {NoTarget}]
  BY DEF Resume, ServiceInv, ServiceTypes
<1> HIDE DEF T, E
<1>6. registered \subseteq Names /\ T \subseteq Names
  BY <1>1 DEF registered
<1>7. /\ target' \in [Names -> Targets \cup {NoTarget}]
      /\ \A n \in Names : target'[n] = IF n \in T THEN E[n].target ELSE target[n]
  BY <1>3, <1>5, <1>6
<1>8. registered' = registered \ {}
  BY <1>1, <1>3, <1>7, ServicesAssumption DEF registered
<1>9. /\ \A n \in registered' \ broken' : target'[n] = IF n \in T THEN E[n].target ELSE target[n]
      /\ \A n \in registered' \ listening' : IF n \in T THEN E[n].paused ELSE n \notin listening
      /\ {} \in SUBSET Names
      /\ broken \cup {} \subseteq broken' /\ broken' \subseteq Names
      /\ listening' \subseteq registered'
  BY <1>1, <1>5, <1>6, <1>7, <1>8
<1>10. QED
  BY <1>1, <1>3, <1>4, <1>5, <1>7, <1>8, <1>9, HeadStep

\* A refused resume: the names before it are rolled back, the refused one is gone.
LEMMA ResumeFailsStep ==
    ASSUME ServiceInv, NEW req \in Requests, NEW foreign \in SUBSET Names,
           ResumeFails(req, foreign)
    PROVE  ServiceInv'
<1> DEFINE T == NamesOf(req) \cap Flagged
           B == Refused(foreign) \cap T
           M == Before(req, B) \cap T
           F == FirstBad(req, B)
           E == [n \in M |-> [config[n][1] EXCEPT !.paused = TRUE]]
<1>1. /\ T \subseteq registered
      /\ M \subseteq Configured
      /\ M \subseteq registered
      /\ F \subseteq Names
      /\ M \cap F = {}
  <2>1. F \subseteq B /\ M \cap B = {}
    BY RequestNames
  <2>2. QED
    BY <2>1 DEF ResumeFails, Flagged, Configured
<1>2. \A n \in M : config[n][1] \in Entry
  BY <1>1, HeadEntry DEF ServiceInv
<1>3. /\ E \in [M -> Entry]
      /\ \A n \in M : E[n].target = config[n][1].target /\ E[n].target \in Targets /\ E[n].paused
  BY <1>2 DEF Entry
<1>4. config' = [n \in Names |-> IF n \in M /\ config[n] # <<>>
                                 THEN [config[n] EXCEPT ![1] = E[n]] ELSE config[n]]
  BY DEF ResumeFails, SetFirst
<1>5. /\ listening' = listening \ (M \cup F)
      /\ target' = [n \in Names |-> IF n \in M THEN config[n][1].target
                                 ELSE IF n \in F THEN NoTarget ELSE target[n]]
      /\ leaked' = leaked /\ broken' = broken \cup F
      /\ broken \subseteq Names /\ listening \subseteq registered
      /\ target \in [Names -> Targets \cup {NoTarget}]
  BY DEF ResumeFails, ServiceInv, ServiceTypes
<1> HIDE DEF T, B, M, F, E
<1>6. registered \subseteq Names /\ M \subseteq Names
  BY <1>1 DEF registered
<1>7. /\ target' \in [Names -> Targets \cup {NoTarget}]
      /\ \A n \in Names : target'[n] = IF n \in M THEN E[n].target
                                       ELSE IF n \in F THEN NoTarget ELSE target[n]
  BY <1>3, <1>5, <1>6
<1>8. registered' = registered \ F
  BY <1>1, <1>3, <1>7, ServicesAssumption DEF registered
<1>9. /\ \A n \in registered' \ broken' : target'[n] = IF n \in M THEN E[n].target ELSE target[n]
      /\ \A n \in registered' \ listening' : IF n \in M THEN E[n].paused ELSE n \notin listening
      /\ broken \cup F \subseteq broken' /\ broken' \subseteq Names
      /\ listening' \subseteq registered'
  BY <1>1, <1>3, <1>5, <1>6, <1>7, <1>8
<1>10. QED
  BY <1>1, <1>3, <1>4, <1>5, <1>7, <1>8, <1>9, HeadStep

\* A hot update changes forwarder and entry alike.
LEMMA UpdateForwarderStep ==
    ASSUME ServiceInv, NEW req \in Requests, NEW t \in Targets, UpdateForwarder(req, t)
    PROVE  ServiceInv'
<1> DEFINE R == NamesOf(req)
           E == [n \in R |-> [config[n][1] EXCEPT !.target = t]]
<1>1. /\ R \subseteq Names
      /\ R \subseteq registered
      /\ R \subseteq Configured
  BY RequestNames DEF UpdateForwarder, ServiceInv, RegisteredIsConfigured
<1>2. \A n \in R : config[n][1] \in Entry
  BY <1>1, HeadEntry DEF ServiceInv
<1>3. /\ E \in [R -> Entry]
      /\ \A n \in R : E[n].target = t /\ E[n].paused = config[n][1].paused
      /\ t # NoTarget
  BY <1>2, ServicesAssumption DEF Entry
<1>4. config' = [n \in Names |-> IF n \in R /\ config[n] # <<>>
                                 THEN [config[n] EXCEPT ![1] = E[n]] ELSE config[n]]
  BY <1>1 DEF UpdateForwarder, SetFirst
<1>5. /\ listening' = listening /\ leaked' = leaked /\ broken' = broken
      /\ broken \subseteq Names /\ listening \subseteq registered
      /\ target' \in [Names -> Targets \cup {NoTarget}]
      /\ \A n \in Names : target'[n] = IF n \in R THEN t ELSE target[n]
  BY DEF UpdateForwarder, Retarget, ServiceInv, ServiceTypes
<1>6. \A n \in registered \ listening : config[n][1].paused
  BY DEF ServiceInv, ClosedIsPaused, Flagged
<1> HIDE DEF R, E
<1>7. registered' = registered \ {} /\ registered \subseteq Names
  BY <1>1, <1>3, <1>5 DEF registered
<1>8. /\ \A n \in registered' \ broken' : target'[n] = IF n \in R THEN E[n].target ELSE target[n]
      /\ {} \in SUBSET Names
      /\ broken \cup {} \subseteq broken' /\ broken' \subseteq Names
      /\ listening' \subseteq registered'
  BY <1>1, <1>3, <1>5, <1>7
<1>9. \A n \in registered' \ listening' : IF n \in R THEN E[n].paused ELSE n \notin listening
  BY <1>3, <1>5, <1>6, <1>7
<1>10. QED
  BY <1>1, <1>3, <1>4, <1>5, <1>7, <1>8, <1>9, HeadStep

\* A hot update that stops half way marks the names whose entry it left behind.
LEMMA UpdateForwarderFailsStep ==
    ASSUME ServiceInv, NEW req \in Requests, NEW t \in Targets, UpdateForwarderFails(req, t)
    PROVE  ServiceInv'
<1> DEFINE S == Before(req, Names \ registered)
<1>1. S \subseteq registered /\ t # NoTarget /\ S \subseteq Names
  BY RequestNames, ServicesAssumption
<1>2. /\ target' = [n \in Names |-> IF n \in S THEN t ELSE target[n]]
      /\ broken' = broken \cup S
      /\ UNCHANGED <<listening, leaked, config>>
  BY DEF UpdateForwarderFails, Retarget
<1> HIDE DEF S
<1>3. registered' = registered
  BY <1>1, <1>2 DEF registered
<1>4. QED
  BY <1>1, <1>2, <1>3 DEF ServiceInv, ServiceTypes, RegisteredIsConfigured, Configured,
     ClosedIsPaused, Flagged, LeakedIsUnregistered, Matches
-----------------------------------------------------------------------------
\* A new node satisfies the invariant.
LEMMA ServicesStart == ServicesInit => ServicesInv /\ AnsweredIsSaved
<1> SUFFICES ASSUME ServicesInit
             PROVE  ServicesInv /\ AnsweredIsSaved
  OBVIOUS
<1>1. /\ <<>> \in Seq(Entry)
      /\ registered = {}
      /\ \A n \in Names : config[n] = <<>>
  BY DEF ServicesInit, registered
<1>2. QED
  BY <1>1 DEF ServicesInit, ServicesInv, ServicesTypeOK, RegisteredIsConfigured, ClosedIsPaused, LeakedIsUnregistered,
     EntryIsService, DownIsEmpty, AnsweredIsSaved

\* For a node that is up, ServicesInv is what it says of the services.
LEMMA UpInv ==
    ASSUME Up
    PROVE  ServicesInv <=> /\ ServiceInv
                   /\ disk \in [Names -> Seq(Entry)]
                   /\ intact \in BOOLEAN /\ saved \in BOOLEAN
                   /\ pc \in {"ready", "saving", "writing", "down"}
  BY DEF Up, ServicesInv, ServicesTypeOK, DownIsEmpty, EntryIsService, ServiceInv, ServiceTypes, Matches

\* Every command keeps the invariant, by the lemma of its own.
LEMMA CommandStep ==
    ASSUME ServicesInv, Command
    PROVE  ServicesInv'
<1>1. ServiceInv /\ Up /\ Up'
  BY UpInv DEF Command, Up
<1>2. ServiceInv'
  <2>1. CASE NotFound
    BY <1>1, <2>1 DEF NotFound, services, ServiceInv, ServiceTypes, registered,
       RegisteredIsConfigured, Configured, ClosedIsPaused, Flagged, LeakedIsUnregistered, Matches
  <2>2. ASSUME NEW req \in Requests, Delete(req) \/ Pause(req)
        PROVE  ServiceInv'
    BY <1>1, <2>2, DeleteStep, PauseStep
  <2>3. ASSUME NEW req \in Requests, NEW t \in Targets,
               UpdateForwarder(req, t) \/ UpdateForwarderFails(req, t)
        PROVE  ServiceInv'
    BY <1>1, <2>3, UpdateForwarderStep, UpdateForwarderFailsStep
  <2>4. ASSUME NEW req \in Requests, NEW foreign \in SUBSET Names,
               CreateFails(req, foreign) \/ Resume(req, foreign) \/ ResumeFails(req, foreign)
        PROVE  ServiceInv'
    BY <1>1, <2>4, CreateFailsStep, ResumeStep, ResumeFailsStep
  <2>5. ASSUME NEW req \in Requests, NEW foreign \in SUBSET Names, NEW t \in Targets,
               Create(req, t, foreign) \/ Update(req, t, foreign) \/ UpdateFails(req, t, foreign)
        PROVE  ServiceInv'
    BY <1>1, <2>5, CreateStep, UpdateStep, UpdateFailsStep
  <2>6. QED
    BY <2>1, <2>2, <2>3, <2>4, <2>5 DEF Command
<1>3. UNCHANGED <<disk, intact, saved>> /\ pc' = "saving"
  BY DEF Command, file
<1>4. QED
  BY <1>1, <1>2, <1>3 DEF ServiceInv, ServiceTypes, Matches, ServicesInv, ServicesTypeOK, EntryIsService, DownIsEmpty, Up

\* saveConfig, the crash and the restart.
LEMMA SaveStep ==
    ASSUME ServicesInv, Truncate \/ Write \/ SaveFails
    PROVE  ServicesInv'
<1>1. UNCHANGED <<target, listening, leaked, config, broken>> /\ Up /\ Up'
  BY DEF Truncate, Write, SaveFails, services, Up
<1>2. registered' = registered /\ Configured' = Configured /\ Flagged' = Flagged
  BY <1>1 DEF registered, Configured, Flagged
<1>3. ServicesTypeOK'
  <2>1. [n \in Names |-> <<>>] \in [Names -> Seq(Entry)]
    OBVIOUS
  <2>2. QED
    BY <1>1, <1>2, <2>1 DEF ServicesInv, ServicesTypeOK, Truncate, Write, SaveFails
<1>4. QED
  BY <1>1, <1>2, <1>3 DEF ServicesInv, RegisteredIsConfigured, ClosedIsPaused, LeakedIsUnregistered,
     EntryIsService, DownIsEmpty, Up

\* A process that died holds nothing.
LEMMA CrashStep ==
    ASSUME ServicesInv, Crash
    PROVE  ServicesInv'
<1>1. /\ registered' = {}
      /\ [n \in Names |-> <<>>] \in [Names -> Seq(Entry)]
  BY DEF Crash, registered
<1>2. QED
  BY <1>1 DEF Crash, file, ServicesInv, ServicesTypeOK, RegisteredIsConfigured, ClosedIsPaused, LeakedIsUnregistered,
     EntryIsService, DownIsEmpty, Up

\* A restart registers exactly what a loadable file lists.
LEMMA RestartStep ==
    ASSUME ServicesInv, Restart
    PROVE  ServicesInv'
<1>1. \A n \in Names : disk[n] \in Seq(Entry) /\ Len(disk[n]) <= 1
  BY DEF ServicesInv, ServicesTypeOK, Restart, Loadable
<1>2. \A n \in Names : disk[n] # <<>> => Len(disk[n]) = 1 /\ disk[n][1].target \in Targets
  <2> SUFFICES ASSUME NEW n \in Names, disk[n] # <<>>
               PROVE  Len(disk[n]) = 1 /\ disk[n][1].target \in Targets
    OBVIOUS
  <2>1. disk[n] \in Seq(Entry) /\ Len(disk[n]) = 1
    <3>1. disk[n] \in Seq(Entry) /\ Len(disk[n]) <= 1
      BY <1>1
    <3>2. Len(disk[n]) \in Nat \ {0}
      BY <3>1
    <3>3. \A k \in Nat \ {0} : k <= 1 => k = 1
      OBVIOUS
    <3>4. QED
      BY <3>1, <3>2, <3>3
  <2>2. disk[n][1] \in Entry
    BY <2>1
  <2>3. QED
    BY <2>1, <2>2 DEF Entry
<1>3. \A n \in Names : disk[n] = <<>> => Len(disk[n]) = 0
  OBVIOUS
<1>4. /\ config' = disk
      /\ listening' = {n \in Names : disk[n] # <<>>}
      /\ target' = [n \in Names |-> IF disk[n] # <<>> THEN disk[n][1].target ELSE NoTarget]
      /\ UNCHANGED <<leaked, disk, intact, broken>>
      /\ saved' = TRUE /\ pc' = "ready" /\ leaked = {}
  BY DEF Restart, ServicesInv, DownIsEmpty
<1>5. registered' = {n \in Names : disk[n] # <<>>}
  BY <1>2, <1>4, ServicesAssumption DEF registered
<1>6. ServicesTypeOK'
  BY <1>2, <1>4, <1>5 DEF ServicesInv, ServicesTypeOK
<1>7. RegisteredIsConfigured' /\ ClosedIsPaused' /\ LeakedIsUnregistered' /\ DownIsEmpty'
  BY <1>4, <1>5 DEF RegisteredIsConfigured, Configured, ClosedIsPaused, LeakedIsUnregistered, DownIsEmpty
<1>8. EntryIsService'
  BY <1>2, <1>3, <1>4, <1>5 DEF EntryIsService
<1>9. QED
  BY <1>6, <1>7, <1>8 DEF ServicesInv

\* Every step keeps the invariant.
LEMMA ServicesKeepInv == ServicesInv /\ [ServicesNext]_serviceVars => ServicesInv'
<1> SUFFICES ASSUME ServicesInv, [ServicesNext]_serviceVars
             PROVE  ServicesInv'
  OBVIOUS
<1>1. CASE UNCHANGED serviceVars
  BY <1>1 DEF serviceVars, services, file, ServicesInv, ServicesTypeOK, registered, RegisteredIsConfigured, Configured,
     ClosedIsPaused, Flagged, LeakedIsUnregistered, EntryIsService, DownIsEmpty, Up
<1>2. QED
  BY <1>1, CommandStep, SaveStep, CrashStep, RestartStep DEF ServicesNext

\* Every step keeps the file in step with what was answered.
LEMMA SavedStep == AnsweredIsSaved /\ [ServicesNext]_serviceVars => AnsweredIsSaved'
  BY DEF AnsweredIsSaved, ServicesNext, Command, Truncate, Write, SaveFails, Crash, Restart, Loadable,
     serviceVars, services, file

\* The invariant holds in every behaviour.
LEMMA ServicesInvariant == ServicesSpec => []ServicesInv
<1>1. QED
  BY ServicesStart, ServicesKeepInv, PTL DEF ServicesSpec

\* The variables of the node keep their types.
THEOREM ServicesTypeCorrect == ServicesSpec => []ServicesTypeOK
  BY ServicesInvariant, PTL DEF ServicesInv

\* No sequence of commands, refusals, crashes and restarts leaves a service
\* that the configuration does not list.
THEOREM RegisteredConfigured == ServicesSpec => []RegisteredIsConfigured
  BY ServicesInvariant, PTL DEF ServicesInv

\* A service whose listener is closed is flagged, whatever was rolled back.
THEOREM ClosedPaused == ServicesSpec => []ClosedIsPaused
  BY ServicesInvariant, PTL DEF ServicesInv

\* A listener that was bound and forgotten is never one of a registered service.
THEOREM LeakedUnregistered == ServicesSpec => []LeakedIsUnregistered
  BY ServicesInvariant, PTL DEF ServicesInv

\* Registry and configuration agree on every name no command failed half way on.
THEOREM EntriesAreServices == ServicesSpec => []EntryIsService
  BY ServicesInvariant, PTL DEF ServicesInv

\* What was answered after a successful save survives a crash.
THEOREM AnsweredSaved == ServicesSpec => []AnsweredIsSaved
  BY ServicesStart, SavedStep, PTL DEF ServicesSpec

-----------------------------------------------------------------------------
(***************************************************************************)
(* The UDP listener.  Three goroutines share the pool; what each of them   *)
(* carries from one step to the next is still true when it uses it         *)
(* (Entries, Storing, Visiting), but for the key that idleCheck deletes.   *)
(***************************************************************************)
\* The entry of a client is a session of that client.
Entries ==
    \A c \in Addresses : connPool[c] # NoSession =>
        phase[connPool[c]] # "unused" /\ peer[connPool[c]] = c

\* What listenLoop is about to store replaces no open session.
Storing ==
    loop.at = "set" =>
        /\ phase[loop.to] # "unused" /\ peer[loop.to] = loop.from
        /\ connPool[loop.from] # NoSession => ~Open(connPool[loop.from])

\* Range has entries before it, and what it deletes belongs to its key.
Visiting ==
    /\ check.at \in {"range", "delete", "close"} =>
           \A c \in check.left : connPool[c] # NoSession
    /\ check.at \in {"delete", "close"} =>
           /\ phase[check.found] # "unused" /\ peer[check.found] = check.key
           /\ check.key \notin check.left

UdpIInv ==
    /\ UdpTypeOK
    /\ Entries
    /\ Storing
    /\ Visiting
    /\ SomebodyCloses

\* The fields of the two goroutines, by the place they stand at.
LEMMA LoopFields ==
    ASSUME UdpTypeOK
    PROVE  /\ loop.at \in {"top", "read", "ended", "get", "set", "queue"}
           /\ loop.at \in {"get", "set", "queue"} => loop.from \in Addresses
           /\ loop.at \in {"set", "queue"} => loop.to \in Sessions
BY DEF UdpTypeOK, LoopPlaces

LEMMA CheckFields ==
    ASSUME UdpTypeOK
    PROVE  /\ check.at \in {"wait", "ended", "range", "delete", "close"}
           /\ check.at \in {"range", "delete", "close"} => check.left \in SUBSET Addresses
           /\ check.at \in {"delete", "close"} =>
                  check.key \in Addresses /\ check.found \in Sessions
BY DEF UdpTypeOK, CheckPlaces

LEMMA EntryIsSession ==
    ASSUME UdpTypeOK, NEW c \in Addresses, connPool[c] # NoSession
    PROVE  connPool[c] \in Sessions
BY DEF UdpTypeOK

LEMMA InitUdp == UdpInit => UdpIInv
<1> SUFFICES ASSUME UdpInit PROVE UdpIInv
  OBVIOUS
<1>1. AnyAddress \in Addresses
  BY UdpAssumption DEF AnyAddress
<1>2. UdpTypeOK
  <2>1. [at |-> "top"] \in LoopPlaces /\ [at |-> "wait"] \in CheckPlaces
    BY DEF LoopPlaces, CheckPlaces
  <2>2. <<>> \in Seq(Sessions) /\ Len(<<>>) <= Backlog
    BY UdpAssumption
  <2>3. 0 \in 0..ReadQueueSize
    BY UdpAssumption
  <2>4. /\ connPool \in [Addresses -> Sessions \cup {NoSession}]
        /\ phase \in [Sessions -> {"unused", "open", "closed"}]
        /\ peer \in [Sessions -> Addresses]
        /\ rc \in [Sessions -> 0..ReadQueueSize]
    BY <1>1, <2>3 DEF UdpInit
  <2>5. idle \in [Sessions -> BOOLEAN]
    BY DEF UdpInit
  <2>6. QED
    BY <2>1, <2>2, <2>4, <2>5 DEF UdpInit, UdpTypeOK
<1>3. Entries /\ Storing /\ Visiting /\ SomebodyCloses
  BY <1>2 DEF UdpInit, UdpTypeOK, Entries, Storing, Visiting, SomebodyCloses, Open
<1>4. QED
  BY <1>2, <1>3 DEF UdpIInv

\* Every step keeps the types; a key that Range visits has a session.
LEMMA UdpTypeStep ==
    ASSUME UdpTypeOK, Visiting, [UdpNext]_udpVars
    PROVE  UdpTypeOK'
<1> USE UdpAssumption DEF sessionState, served, closing, races
<1>0. AnyAddress \in Addresses
  BY DEF AnyAddress
<1>1. CASE NextPacket
  <2>1. loop' \in LoopPlaces
    BY <1>1 DEF NextPacket, LoopPlaces
  <2>2. QED
    BY <1>1, <2>1 DEF NextPacket, UdpTypeOK
<1>2. CASE ReadFails
  <2>1. loop' \in LoopPlaces
    BY <1>2 DEF ReadFails, LoopPlaces
  <2>2. QED
    BY <1>2, <2>1 DEF ReadFails, UdpTypeOK
<1>3. CASE GetConn
  <2>1. loop.from \in Addresses /\ connPool[loop.from] \in Sessions
    BY <1>3, LoopFields DEF GetConn, Known, UdpTypeOK
  <2>2. loop' \in LoopPlaces
    BY <1>3, <2>1 DEF GetConn, LoopPlaces
  <2>3. QED
    BY <1>3, <2>2 DEF GetConn, UdpTypeOK
<1>4. CASE Discard
  <2>1. loop' \in LoopPlaces
    BY <1>4 DEF Discard, LoopPlaces
  <2>2. QED
    BY <1>4, <2>1 DEF Discard, UdpTypeOK
<1>5. CASE SetConn
  <2>1. loop.from \in Addresses /\ loop.to \in Sessions
    BY <1>5, LoopFields DEF SetConn
  <2>2. loop' \in LoopPlaces
    BY <1>5, <2>1 DEF SetConn, LoopPlaces
  <2>3. connPool' \in [Addresses -> Sessions \cup {NoSession}] /\ late' \subseteq Sessions
    BY <1>5, <2>1 DEF SetConn, UdpTypeOK
  <2>4. QED
    BY <1>5, <2>2, <2>3 DEF SetConn, UdpTypeOK
<1>6. CASE WriteQueue
  <2>1. loop.to \in Sessions
    BY <1>6, LoopFields DEF WriteQueue
  <2>2. loop' \in LoopPlaces
    BY <1>6 DEF WriteQueue, LoopPlaces
  <2>3. rc' \in [Sessions -> 0..ReadQueueSize]
    <3>1. CASE Open(loop.to) /\ rc[loop.to] < ReadQueueSize
      <4>1. rc[loop.to] + 1 \in 0..ReadQueueSize
        BY <3>1, <2>1 DEF UdpTypeOK
      <4>2. rc' = [rc EXCEPT ![loop.to] = rc[loop.to] + 1]
        BY <1>6, <3>1 DEF WriteQueue
      <4>3. QED
        BY <2>1, <4>1, <4>2 DEF UdpTypeOK
    <3>2. CASE ~(Open(loop.to) /\ rc[loop.to] < ReadQueueSize)
      BY <1>6, <3>2 DEF WriteQueue, UdpTypeOK
    <3>3. QED
      BY <3>1, <3>2
  <2>4. QED
    BY <1>6, <2>2, <2>3 DEF WriteQueue, UdpTypeOK
<1>7. CASE \E s \in Sessions : NewConn(s)
  <2>1. PICK s \in Sessions : NewConn(s)
    BY <1>7
  <2>2. loop.from \in Addresses
    BY <2>1, LoopFields DEF NewConn
  <2>3. loop' \in LoopPlaces
    BY <2>1, <2>2 DEF NewConn, LoopPlaces
  <2>4. cqueue' \in Seq(Sessions) /\ Len(cqueue') <= Backlog
    BY <2>1 DEF NewConn, UdpTypeOK
  <2>5. phase' \in [Sessions -> {"unused", "open", "closed"}] /\ peer' \in [Sessions -> Addresses]
    BY <2>1, <2>2 DEF NewConn, UdpTypeOK
  <2>6. QED
    BY <2>1, <2>3, <2>4, <2>5 DEF NewConn, UdpTypeOK
<1>8. CASE RangePool
  <2>1. Pooled \in SUBSET Addresses
    BY DEF Pooled
  <2>2. check' \in CheckPlaces
    BY <1>8, <2>1 DEF RangePool, CheckPlaces
  <2>3. QED
    BY <1>8, <2>2 DEF RangePool, UdpTypeOK
<1>9. CASE DeleteKey
  <2>1. /\ check.left \in SUBSET Addresses
        /\ check.key \in Addresses /\ check.found \in Sessions
    BY <1>9, CheckFields DEF DeleteKey
  <2>2. check' \in CheckPlaces
    BY <1>9, <2>1 DEF DeleteKey, CheckPlaces
  <2>3. connPool' \in [Addresses -> Sessions \cup {NoSession}]
    BY <1>9, <2>1 DEF DeleteKey, UdpTypeOK
  <2>4. displaced' \subseteq Sessions
    BY <1>9, <2>1 DEF DeleteKey, UdpTypeOK, Open
  <2>5. QED
    BY <1>9, <2>2, <2>3, <2>4 DEF DeleteKey, UdpTypeOK
<1>10. CASE CloseIdle
  <2>1. check.left \in SUBSET Addresses
    BY <1>10, CheckFields DEF CloseIdle
  <2>2. check' \in CheckPlaces
    BY <1>10, <2>1 DEF CloseIdle, CheckPlaces
  <2>3. QED
    BY <1>10, <2>2 DEF CloseIdle, Shut, UdpTypeOK
<1>11. CASE TurnOver
  <2>1. check' \in CheckPlaces
    BY <1>11 DEF TurnOver, CheckPlaces
  <2>2. QED
    BY <1>11, <2>1 DEF TurnOver, UdpTypeOK
<1>12. CASE \E c \in Addresses : Visit(c)
  <2>1. PICK c \in Addresses : Visit(c)
    BY <1>12
  <2>2. check.left \ {c} \in SUBSET Addresses
    BY <2>1, CheckFields DEF Visit
  <2>3. CASE idle[connPool[c]]
    <3>1. connPool[c] \in Sessions
      BY <2>1 DEF Visit, Visiting, UdpTypeOK
    <3>2. check' \in CheckPlaces
      BY <2>1, <2>2, <2>3, <3>1 DEF Visit, CheckPlaces
    <3>3. QED
      BY <2>1, <2>3, <3>2 DEF Visit, UdpTypeOK
  <2>4. CASE ~idle[connPool[c]]
    <3>1. check' \in CheckPlaces
      BY <2>1, <2>2, <2>4 DEF Visit, CheckPlaces
    <3>2. idle' \in [Sessions -> BOOLEAN]
      BY <2>1, <2>4 DEF Visit, UdpTypeOK
    <3>3. QED
      BY <2>1, <3>1, <3>2 DEF Visit, UdpTypeOK
  <2>5. QED
    BY <2>3, <2>4
<1>13. CASE Accept
  <2>1. cqueue' \in Seq(Sessions) /\ Len(cqueue') <= Backlog /\ Head(cqueue) \in Sessions
    BY <1>13 DEF Accept, UdpTypeOK
  <2>2. QED
    BY <1>13, <2>1 DEF Accept, UdpTypeOK
<1>14. CASE CloseListener
  BY <1>14 DEF CloseListener, UdpTypeOK
<1>15. CASE Closing
  BY <1>15 DEF Closing, Sweep, Shut, UdpTypeOK
<1>16. CASE \E c \in Addresses : Receive(c)
  <2>1. PICK c \in Addresses : Receive(c)
    BY <1>16
  <2>2. loop' \in LoopPlaces
    BY <2>1 DEF Receive, LoopPlaces
  <2>3. QED
    BY <2>1, <2>2 DEF Receive, UdpTypeOK
<1>17. CASE \E s \in Sessions : Handler(s)
  <2>1. PICK s \in Sessions : Handler(s)
    BY <1>17
  <2>2. CASE Read(s)
    <3>1. rc[s] - 1 \in 0..ReadQueueSize
      BY <2>2 DEF Read, UdpTypeOK
    <3>2. QED
      BY <2>2, <3>1 DEF Read, UdpTypeOK
  <2>3. CASE Answer(s)
    BY <2>3 DEF Answer, Shut, UdpTypeOK
  <2>4. CASE HandlerEnds(s)
    BY <2>4 DEF HandlerEnds, Shut, UdpTypeOK
  <2>5. QED
    BY <2>1, <2>2, <2>3, <2>4 DEF Handler
<1>18. CASE \E s \in Sessions : Recycle(s)
  <2>1. PICK s \in Sessions : Recycle(s)
    BY <1>18
  <2>2. QED
    BY <2>1, <1>0 DEF Recycle, UdpTypeOK
<1>19. CASE UNCHANGED udpVars
  BY <1>19 DEF udpVars, UdpTypeOK
<1>20. QED
  BY <1>1, <1>2, <1>3, <1>4, <1>5, <1>6, <1>7, <1>8, <1>9, <1>10, <1>11, <1>12, <1>13,
     <1>14, <1>15, <1>16, <1>17, <1>18, <1>19
  DEF UdpNext, ListenLoop, IdleCheck

\* Closing a session disturbs nothing the goroutines rely on.
LEMMA ShutKeeps ==
    ASSUME UdpIInv, UdpTypeOK', NEW s, Shut(s),
           UNCHANGED <<connPool, peer, loop, check, shut>>,
           \/ UNCHANGED unswept
           \/ \E c \in Addresses : connPool[c] = s /\ unswept' = unswept \ {c}
    PROVE  UdpIInv'
<1> USE DEF UdpIInv
<1>1. \A t \in Sessions :
         /\ phase[t] # "unused" => phase'[t] # "unused"
         /\ Open(t)' <=> Open(t) /\ t # s
  BY DEF Shut, Open, UdpTypeOK
<1>2. \A t \in Sessions \ {s} : t \in displaced \cup late => t \in (displaced \cup late)'
  BY DEF Shut
<1>3. Entries'
  <2> SUFFICES ASSUME NEW c \in Addresses, connPool[c] # NoSession
               PROVE  phase'[connPool[c]] # "unused" /\ peer[connPool[c]] = c
    BY DEF Entries
  <2>1. connPool[c] \in Sessions
    BY EntryIsSession
  <2>2. QED
    BY <1>1, <2>1 DEF Entries
<1>4. Visiting'
  BY <1>1, CheckFields DEF Visiting
<1>5. Storing'
  <2> SUFFICES ASSUME loop.at = "set"
               PROVE  /\ phase'[loop.to] # "unused" /\ peer[loop.to] = loop.from
                      /\ connPool[loop.from] # NoSession => ~Open(connPool[loop.from])'
    BY DEF Storing, Open
  <2>1. connPool[loop.from] # NoSession => connPool[loop.from] \in Sessions
    BY EntryIsSession, LoopFields
  <2>2. QED
    BY <1>1, <2>1, LoopFields DEF Storing, Open
<1>6. SomebodyCloses'
  <2> SUFFICES ASSUME NEW t \in Sessions, Open(t)'
               PROVE  \/ connPool[peer[t]] = t /\ ~Swept(peer[t])'
                      \/ loop.at = "set" /\ loop.to = t
                      \/ check.at = "close" /\ check.found = t
                      \/ t \in (displaced \cup late)'
    BY DEF SomebodyCloses, Swept
  <2>1. t # s /\ Open(t)
    BY <1>1
  <2>2. connPool[peer[t]] = t /\ ~Swept(peer[t]) => ~Swept(peer[t])'
    BY <2>1 DEF Swept
  <2>3. QED
    BY <1>2, <2>1, <2>2 DEF SomebodyCloses
<1>7. QED
  BY <1>3, <1>4, <1>5, <1>6

\* So does a step that leaves pool, sessions and goroutines where they are.
LEMMA LoopOnly ==
    ASSUME UdpIInv, UdpTypeOK',
           UNCHANGED <<connPool, phase, peer, shut, unswept, displaced, late>>,
           loop' = loop \/ (loop.at # "set" /\ loop'.at # "set"),
           check' = check \/ (check.at # "close" /\ check'.at \in {"wait", "ended"})
    PROVE  UdpIInv'
<1> USE DEF UdpIInv
<1>1. Entries' /\ Storing' /\ Visiting'
  BY DEF Entries, Storing, Visiting, Open
<1>2. SomebodyCloses'
  BY DEF SomebodyCloses, Open, Swept
<1>3. QED
  BY <1>1, <1>2

LEMMA UdpStep == UdpIInv /\ [UdpNext]_udpVars => UdpIInv'
<1> SUFFICES ASSUME UdpIInv, [UdpNext]_udpVars
             PROVE  UdpIInv'
  OBVIOUS
<1> USE DEF sessionState, served, closing, races
<1>a. UdpTypeOK /\ Entries /\ Storing /\ Visiting /\ SomebodyCloses
  BY DEF UdpIInv
<1> USE <1>a
<1>0. UdpTypeOK'
  BY UdpTypeStep
<1>1. CASE NextPacket
  BY <1>0, <1>1, LoopOnly DEF NextPacket
<1>2. CASE ReadFails
  BY <1>0, <1>2, LoopOnly DEF ReadFails
<1>3. CASE GetConn
  BY <1>0, <1>3, LoopOnly DEF GetConn
<1>4. CASE Discard
  BY <1>0, <1>4, LoopOnly DEF Discard
<1>5. CASE SetConn
  <2> DEFINE a == loop.from to == loop.to
  <2>1. a \in Addresses /\ to \in Sessions /\ peer[to] = a /\ phase[to] # "unused"
    BY <1>5, LoopFields DEF SetConn, Storing
  <2>2. /\ connPool'[a] = to
        /\ \A c \in Addresses \ {a} : connPool'[c] = connPool[c]
    BY <1>5, <2>1 DEF SetConn, UdpTypeOK
  <2>3. UNCHANGED <<phase, peer, check, shut, unswept, displaced>> /\ loop'.at = "queue"
    BY <1>5 DEF SetConn
  <2>4. to # NoSession
    BY <2>1, UdpAssumption
  <2>5. Entries' /\ Storing'
    BY <2>1, <2>2, <2>3 DEF Entries, Storing
  <2>6. Visiting'
    BY <2>1, <2>2, <2>3, <2>4, CheckFields DEF Visiting
  <2>7. SomebodyCloses'
    <3> SUFFICES ASSUME NEW s \in Sessions, Open(s)'
                 PROVE  \/ connPool'[peer[s]] = s /\ ~Swept(peer[s])
                        \/ check.at = "close" /\ check.found = s
                        \/ s \in displaced \cup late'
      BY <2>3 DEF SomebodyCloses, Swept
    <3>1. Open(s) /\ peer[s] \in Addresses
      BY <2>3 DEF Open, UdpTypeOK
    <3>2. late \subseteq late' /\ (Open(to) /\ Swept(a) => to \in late')
      BY <1>5 DEF SetConn
    <3>3. CASE s = to
      BY <2>1, <2>2, <3>1, <3>2, <3>3
    <3>4. CASE s # to
      <4>1. ~(connPool[peer[s]] = s /\ peer[s] = a)
        BY <1>5, <3>1, UdpAssumption DEF SetConn, Storing
      <4>2. QED
        BY <2>2, <3>1, <3>2, <3>4, <4>1 DEF SomebodyCloses
    <3>5. QED
      BY <3>3, <3>4
  <2>8. QED
    BY <1>0, <2>5, <2>6, <2>7 DEF UdpIInv
<1>6. CASE WriteQueue
  BY <1>0, <1>6, LoopOnly DEF WriteQueue
<1>7. CASE \E s \in Sessions : NewConn(s)
  <2>1. PICK s \in Sessions : NewConn(s)
    BY <1>7
  <2>2. loop.from \in Addresses /\ loop.at = "get" /\ phase[s] = "unused"
    BY <2>1, LoopFields DEF NewConn
  <2>3. /\ phase'[s] = "open" /\ peer'[s] = loop.from
        /\ \A t \in Sessions \ {s} : phase'[t] = phase[t] /\ peer'[t] = peer[t]
        /\ loop' = [at |-> "set", from |-> loop.from, to |-> s]
        /\ UNCHANGED <<connPool, check, shut, unswept, displaced, late>>
    BY <2>1, <2>2 DEF NewConn, UdpTypeOK
  <2>4. \A c \in Addresses : connPool[c] # s
    BY <2>2, UdpAssumption DEF Entries
  <2>5. Entries'
    BY <2>3, <2>4 DEF Entries, UdpTypeOK
  <2>6. Storing'
    <3>1. connPool[loop.from] # NoSession => connPool[loop.from] \in Sessions \ {s} /\ ~Open(connPool[loop.from])
      BY <2>1, <2>2, <2>4 DEF NewConn, Known, UdpTypeOK
    <3>2. QED
      BY <2>3, <3>1 DEF Storing, Open
  <2>7. Visiting'
    BY <2>2, <2>3, CheckFields DEF Visiting
  <2>8. SomebodyCloses'
    BY <2>2, <2>3 DEF SomebodyCloses, Open, Swept
  <2>9. QED
    BY <1>0, <2>5, <2>6, <2>7, <2>8 DEF UdpIInv
<1>8. CASE RangePool
  <2>1. Entries' /\ Storing'
    BY <1>8 DEF RangePool, Entries, Storing, Open
  <2>2. Visiting'
    BY <1>8 DEF RangePool, Visiting, Pooled
  <2>3. SomebodyCloses'
    BY <1>8 DEF RangePool, SomebodyCloses, Open, Swept
  <2>4. QED
    BY <1>0, <2>1, <2>2, <2>3 DEF UdpIInv
<1>9. CASE DeleteKey
  <2> DEFINE k == check.key f == check.found
  <2>1. k \in Addresses /\ f \in Sessions /\ check.at = "delete"
    BY <1>9, CheckFields DEF DeleteKey
  <2>2. /\ connPool'[k] = NoSession
        /\ \A c \in Addresses \ {k} : connPool'[c] = connPool[c]
    BY <1>9, <2>1 DEF DeleteKey, UdpTypeOK
  <2>3. /\ UNCHANGED <<phase, peer, loop, shut, unswept, late>>
        /\ check' = [at |-> "close", left |-> check.left, key |-> k, found |-> f]
    BY <1>9 DEF DeleteKey
  <2>4. Entries'
    BY <2>2, <2>3 DEF Entries
  <2>5. Storing'
    BY <2>1, <2>2, <2>3, LoopFields DEF Storing, Open
  <2>6. Visiting'
    BY <2>1, <2>2, <2>3, CheckFields DEF Visiting
  <2>7. SomebodyCloses'
    <3> SUFFICES ASSUME NEW s \in Sessions, Open(s)'
                 PROVE  \/ connPool'[peer[s]] = s /\ ~Swept(peer[s])
                        \/ loop.at = "set" /\ loop.to = s
                        \/ f = s
                        \/ s \in displaced' \cup late
      BY <2>3 DEF SomebodyCloses, Swept
    <3>1. Open(s) /\ peer[s] \in Addresses /\ s # NoSession
      BY <2>3, UdpAssumption DEF Open, UdpTypeOK
    <3>2. /\ displaced \subseteq displaced'
          /\ connPool[k] = s /\ s # f => s \in displaced'
      BY <1>9, <3>1 DEF DeleteKey
    <3>3. QED
      BY <2>1, <2>2, <3>1, <3>2 DEF SomebodyCloses
  <2>8. QED
    BY <1>0, <2>4, <2>5, <2>6, <2>7 DEF UdpIInv
<1>10. CASE CloseIdle
  <2>1. check.at = "close" /\ check.found \in Sessions /\ Shut(check.found)
    BY <1>10, CheckFields DEF CloseIdle
  <2>2. /\ UNCHANGED <<connPool, peer, loop, shut, unswept>>
        /\ check' = [at |-> "range", left |-> check.left]
    BY <1>10 DEF CloseIdle
  <2>3. \A t \in Sessions :
           /\ phase[t] # "unused" => phase'[t] # "unused"
           /\ Open(t)' => Open(t) /\ t # check.found
    BY <2>1 DEF Shut, Open, UdpTypeOK
  <2>4. Entries'
    <3> SUFFICES ASSUME NEW c \in Addresses, connPool[c] # NoSession
                 PROVE  phase'[connPool[c]] # "unused" /\ peer[connPool[c]] = c
      BY <2>2 DEF Entries
    <3>1. connPool[c] \in Sessions
      BY EntryIsSession
    <3>2. QED
      BY <2>3, <3>1 DEF Entries
  <2>5. Storing'
    <3> SUFFICES ASSUME loop.at = "set"
                 PROVE  /\ phase'[loop.to] # "unused" /\ peer[loop.to] = loop.from
                        /\ connPool[loop.from] # NoSession => ~Open(connPool[loop.from])'
      BY <2>2 DEF Storing, Open
    <3>1. connPool[loop.from] # NoSession => connPool[loop.from] \in Sessions
      BY EntryIsSession, LoopFields
    <3>2. QED
      BY <2>2, <2>3, <3>1, LoopFields DEF Storing, Open
  <2>6. Visiting'
    BY <2>1, <2>2 DEF Visiting
  <2>7. SomebodyCloses'
    <3>1. \A t \in Sessions \ {check.found} :
             t \in displaced \cup late => t \in (displaced \cup late)'
      BY <2>1 DEF Shut
    <3>2. QED
      BY <2>1, <2>2, <2>3, <3>1 DEF SomebodyCloses, Swept
  <2>8. QED
    BY <1>0, <2>4, <2>5, <2>6, <2>7 DEF UdpIInv
<1>11. CASE TurnOver
  BY <1>0, <1>11, LoopOnly DEF TurnOver
<1>12. CASE \E c \in Addresses : Visit(c)
  <2>1. PICK c \in Addresses : Visit(c)
    BY <1>12
  <2>2. /\ check.at = "range" /\ c \in check.left
        /\ UNCHANGED <<connPool, phase, peer, loop, shut, unswept, displaced, late>>
        /\ \/ check' = [at |-> "delete", left |-> check.left \ {c}, key |-> c, found |-> connPool[c]]
           \/ check' = [at |-> "range", left |-> check.left \ {c}]
    BY <2>1 DEF Visit
  <2>3. Entries' /\ Storing'
    BY <2>2 DEF Entries, Storing, Open
  <2>4. phase[connPool[c]] # "unused" /\ peer[connPool[c]] = c
    BY <2>2 DEF Visiting, Entries
  <2>5. Visiting'
    BY <2>2, <2>4 DEF Visiting
  <2>6. SomebodyCloses'
    BY <2>2 DEF SomebodyCloses, Open, Swept
  <2>7. QED
    BY <1>0, <2>3, <2>5, <2>6 DEF UdpIInv
<1>13. CASE Accept
  BY <1>0, <1>13, LoopOnly DEF Accept
<1>14. CASE CloseListener
  <2>1. Entries' /\ Storing' /\ Visiting'
    BY <1>14 DEF CloseListener, Entries, Storing, Visiting, Open
  <2>2. SomebodyCloses'
    <3>1. \A s \in Sessions : ~Swept(peer[s])' /\ peer'[s] = peer[s]
      BY <1>14 DEF CloseListener, Swept, UdpTypeOK
    <3>2. QED
      BY <1>14, <3>1 DEF CloseListener, SomebodyCloses, Open
  <2>3. QED
    BY <1>0, <2>1, <2>2 DEF UdpIInv
<1>15. CASE Closing
  <2>1. PICK c \in Addresses : Sweep(c)
    BY <1>15 DEF Closing, Sweep, UdpTypeOK
  <2>2. CASE connPool[c] = NoSession
    <3>1. UNCHANGED <<connPool, phase, peer, loop, check, shut, displaced, late>> /\ unswept' = unswept \ {c}
      BY <2>1, <2>2 DEF Sweep
    <3>2. Entries' /\ Storing' /\ Visiting'
      BY <3>1 DEF Entries, Storing, Visiting, Open
    <3>3. \A s \in Sessions : connPool[peer[s]] = s => (Swept(peer[s])' <=> Swept(peer[s]))
      BY <2>2, <3>1, UdpAssumption DEF Swept
    <3>4. SomebodyCloses'
      BY <3>1, <3>3 DEF SomebodyCloses, Open
    <3>5. QED
      BY <1>0, <3>2, <3>4 DEF UdpIInv
  <2>3. CASE connPool[c] # NoSession
    <3>1. Shut(connPool[c]) /\ UNCHANGED <<connPool, peer, loop, check, shut>> /\ unswept' = unswept \ {c}
      BY <2>1, <2>3 DEF Sweep
    <3>2. QED
      BY <1>0, <3>1, ShutKeeps
  <2>4. QED
    BY <2>2, <2>3
<1>16. CASE \E c \in Addresses : Receive(c)
  <2>1. PICK c \in Addresses : Receive(c)
    BY <1>16
  <2>2. QED
    BY <1>0, <2>1, LoopOnly DEF Receive
<1>17. CASE \E s \in Sessions : Handler(s)
  <2>1. PICK s \in Sessions : Handler(s)
    BY <1>17
  <2>2. CASE Read(s)
    BY <1>0, <2>2, LoopOnly DEF Read
  <2>3. CASE Answer(s)
    BY <1>0, <2>3, ShutKeeps DEF Answer
  <2>4. CASE HandlerEnds(s)
    BY <1>0, <2>4, ShutKeeps DEF HandlerEnds
  <2>5. QED
    BY <2>1, <2>2, <2>3, <2>4 DEF Handler
<1>18. CASE \E s \in Sessions : Recycle(s)
  <2>1. PICK s \in Sessions : Recycle(s)
    BY <1>18
  <2>2. /\ phase[s] = "closed" /\ phase'[s] = "unused"
        /\ \A t \in Sessions \ {s} : phase'[t] = phase[t] /\ peer'[t] = peer[t]
        /\ UNCHANGED <<connPool, loop, check, shut, unswept, displaced, late>>
    BY <2>1 DEF Recycle, UdpTypeOK
  <2>3. /\ \A c \in Addresses : connPool[c] # s
        /\ loop.at = "set" => loop.to # s
        /\ check.at \in {"delete", "close"} => check.found # s
    BY <2>1 DEF Recycle
  <2>4. Entries'
    BY <2>2, <2>3 DEF Entries, UdpTypeOK
  <2>5. Storing'
    BY <2>2, <2>3, LoopFields DEF Storing, Open, UdpTypeOK
  <2>6. Visiting'
    BY <2>2, <2>3, CheckFields DEF Visiting
  <2>7. SomebodyCloses'
    BY <2>2 DEF SomebodyCloses, Open, Swept
  <2>8. QED
    BY <1>0, <2>4, <2>5, <2>6, <2>7 DEF UdpIInv
<1>19. CASE UNCHANGED udpVars
  BY <1>0, <1>19, LoopOnly DEF udpVars
<1>20. QED
  BY <1>1, <1>2, <1>3, <1>4, <1>5, <1>6, <1>7, <1>8, <1>9, <1>10, <1>11, <1>12, <1>13,
     <1>14, <1>15, <1>16, <1>17, <1>18, <1>19
  DEF UdpNext, ListenLoop, IdleCheck
-----------------------------------------------------------------------------
LEMMA UdpInvariant == UdpSpec => []UdpIInv
<1>1. QED
  BY InitUdp, UdpStep, PTL DEF UdpSpec

\* The pool, the sessions and the goroutines of a listener keep their types.
THEOREM UdpTypeCorrect == UdpSpec => []UdpTypeOK
<1>1. UdpIInv => UdpTypeOK
  BY DEF UdpIInv
<1>2. QED
  BY <1>1, UdpInvariant, PTL

\* Every open session is one that idleCheck or Close will close, unless one of the two
\* races lost it: for any number of clients and sessions and any queue.
THEOREM SessionsAreClosed == UdpSpec => []SomebodyCloses
<1>1. UdpIInv => SomebodyCloses
  BY DEF UdpIInv
<1>2. QED
  BY <1>1, UdpInvariant, PTL

-----------------------------------------------------------------------------
(* The parts side by side.                                                   *)

\* MCNode takes nothing away from its parts and adds nothing to them: what it does
\* is, seen from each part, what that part does alone.
LEMMA NodeIsItsParts == NodeSpec => ServicesSpec /\ XraySpec /\ UdpSpec
<1>1. NodeInit => ServicesInit /\ XrayInit /\ UdpInit
  BY DEF NodeInit
<1>2. [NodeNext]_<<component, serviceVars, xrayVars, udpVars>> =>
        [ServicesNext]_serviceVars /\ [XrayNext]_xrayVars /\ [UdpNext]_udpVars
  BY DEF NodeNext
<1> QED
  BY <1>1, <1>2, PTL DEF NodeSpec, ServicesSpec, XraySpec, UdpSpec

\* Registries, files, processes and sessions are in states that the node's code knows
\* (the commands of service.go, x/xray/manager.go and listener/udp), for all names,
\* requests, processes, clients and sessions.
THEOREM NodeTypeCorrect == NodeSpec => []NodeTypeOK
<1>1. NodeSpec => []ServicesTypeOK /\ []XrayTypeOK /\ []UdpTypeOK
  BY NodeIsItsParts, ServicesTypeCorrect, XrayTypeCorrect, UdpTypeCorrect
<1>2. ServicesTypeOK /\ XrayTypeOK /\ UdpTypeOK => NodeTypeOK
  BY DEF NodeTypeOK
<1> QED
  BY <1>1, <1>2, PTL
=============================================================================
