----------------------- MODULE TrafficAccountingProofs ----------------------
(***************************************************************************)
(* Theorems about TrafficAccounting, for any number of forwards,           *)
(* permissions and reports and for any limits.  A report that is waited    *)
(* for is the only one of its service and carries what observeStats has    *)
(* read (HeardOnce); a row has what the reports of both its services have  *)
(* booked (BookedRow); what is over a limit and not yet paused is still to *)
(* be paused by a report the panel works on (Followed); the three rows of  *)
(* a report differ by what the reports still owe them (RowsInv), which is  *)
(* about sums over all forwards and reports and has the last part.         *)
(***************************************************************************)
EXTENDS TrafficAccounting, FiniteSetTheorems, WellFoundedInduction, TLAPS

HeardBy(u, f) == upload[u] # Free /\ upload[u].service = f /\ upload[u].heard

\* A report that the node waits for is the only one of its service that it
\* waits for, and has what was read from the counter.
HeardOnce(f) ==
    /\ \A u \in Uploads :
         HeardBy(u, f) => observer[f].at = "waiting" /\ upload[u].bytes = observer[f].read
    /\ \A u, v \in Uploads : HeardBy(u, f) /\ HeardBy(v, f) => u = v

\* The answers to the others are remembered as not heard.
Unheard(f) ==
    \A u \in Uploads : upload[u] # Free /\ upload[u].service = f /\ ~upload[u].heard => unheard[f]

\* What was read, and what will be stored, is on the counter.
Counted(f) ==
    /\ observer[f].at \in {"sending", "waiting"} => observer[f].read <= count[f]
    /\ observer[f].at = "resetting" =>
         /\ observer[f].rest <= count[f] - observer[f].read
         /\ ~missed[f] => observer[f].rest = count[f] - observer[f].read

\* What BookedOnce and NothingForgotten say, of one service.
Weighed(n) == Weight * n
AtMost(f) == ~unheard[f] => booked[f] + Weighed(Due(f)) <= Weighed(carried[f])
AtLeast(f) == ~missed[f] => booked[f] + Weighed(Due(f)) >= Weighed(carried[f])

LedgerOf(f) == HeardOnce(f) /\ Unheard(f) /\ Counted(f) /\ AtMost(f) /\ AtLeast(f)

\* The row of a forward is what both its services have reported.
BookedRow == \A f \in Rules : ruleFlow[f] = booked[<<f, "entry">>] + booked[<<f, "exit">>]

\* A forward over a limit that is not paused: a report that has booked its bytes
\* will still look at the limit, or is about to pause the forward.
Followed ==
    \A f \in Rules : f \notin lifted /\ ruleStatus[f] # "paused" =>
        /\ UserOver => \E u \in Uploads :
              \/ upload[u].at \in {"permit", "checkUser"}
              \/ upload[u].at = "pausing" /\ f \in upload[u].todo
        /\ PermitOver(PermitOf[f]) => \E u \in Uploads :
              \/ /\ \/ upload[u].at \in {"checkUser", "checkPermit"}
                    \/ upload[u].at = "pausing" /\ upload[u].next = "checkPermit"
                 /\ PermitOf[upload[u].service[1]] = PermitOf[f]
              \/ upload[u].at = "pausing" /\ f \in upload[u].todo

\* A pause that is under way still has its cause, or the cause went in between.
Caused ==
    \A u \in Uploads : upload[u].at = "pausing" /\ ~upload[u].stale =>
        \A f \in upload[u].todo :
            UserOver \/ PermitOver(PermitOf[f]) \/ userOff \/ PermitOf[f] \in permitsOff

AccountIInv ==
    /\ AccountTypeOK
    /\ \A s \in Services : LedgerOf(s)
    /\ BookedRow
    /\ Followed
    /\ Caused
-----------------------------------------------------------------------------
(* Reports.                                                                  *)

LEMMA ReportIs ==
    ASSUME AccountTypeOK, NEW u \in Uploads
    PROVE  /\ upload[u] # Free <=> upload[u].at # "free"
           /\ upload[u] # Free => upload[u] \in Reports
           /\ upload[u] # Free =>
                /\ upload[u].at \in {"rule", "user", "permit", "checkUser", "checkPermit",
                                     "pausing", "answer"}
                /\ upload[u].service \in Services /\ upload[u].bytes \in Nat
                /\ upload[u].heard \in BOOLEAN
                /\ upload[u].next \in {"checkPermit", "answer"}
                /\ upload[u].todo \in SUBSET Rules /\ upload[u].stale \in BOOLEAN
<1>1. upload[u] \in Reports \cup {Free}
  BY DEF AccountTypeOK
<1>2. CASE upload[u] = Free
  BY <1>2 DEF Free
<1>3. CASE upload[u] \in Reports
  <2>1. upload[u].at # "free"
    BY <1>3 DEF Reports
  <2>2. upload[u] # Free
    BY <2>1 DEF Free
  <2> QED
    BY <1>3, <2>1, <2>2 DEF Reports
<1> QED
  BY <1>1, <1>2, <1>3

LEMMA ServiceIs ==
    ASSUME NEW s \in Services
    PROVE  s[1] \in Rules /\ s[2] \in Sides /\ s = <<s[1], s[2]>>
BY DEF Services

LEMMA RuleIs ==
    ASSUME AccountTypeOK, NEW u \in Uploads, upload[u] # Free
    PROVE  /\ RuleOf(u) = upload[u].service[1] /\ RuleOf(u) \in Rules
           /\ PermitOf[RuleOf(u)] \in Permits
<1>1. upload[u].service \in Services
  BY ReportIs
<1> QED
  BY <1>1, ServiceIs, AccountAssumption DEF RuleOf

LEMMA ReportExcept ==
    ASSUME NEW r \in Reports, NEW a
    PROVE  /\ [r EXCEPT !.at = a] =
                [at |-> a, service |-> r.service, bytes |-> r.bytes, heard |-> r.heard,
                 next |-> r.next, todo |-> r.todo, stale |-> r.stale]
           /\ [r EXCEPT !.heard = a] =
                [at |-> r.at, service |-> r.service, bytes |-> r.bytes, heard |-> a,
                 next |-> r.next, todo |-> r.todo, stale |-> r.stale]
           /\ [r EXCEPT !.todo = a] =
                [at |-> r.at, service |-> r.service, bytes |-> r.bytes, heard |-> r.heard,
                 next |-> r.next, todo |-> a, stale |-> r.stale]
           /\ [r EXCEPT !.stale = a] =
                [at |-> r.at, service |-> r.service, bytes |-> r.bytes, heard |-> r.heard,
                 next |-> r.next, todo |-> r.todo, stale |-> a]
BY DEF Reports

\* The panel goes on with one report, of which it keeps service, bytes and whether
\* the node waits.
Moves(u, a, n, t, s) ==
    /\ upload' \in [Uploads -> Reports \cup {Free}]
    /\ upload'[u] = [at |-> a, service |-> upload[u].service, bytes |-> upload[u].bytes,
                     heard |-> upload[u].heard, next |-> n, todo |-> t, stale |-> s]
    /\ upload'[u] \in Reports
    /\ \A v \in Uploads \ {u} : upload'[v] = upload[v]

LEMMA ReportPutIs ==
    ASSUME AccountTypeOK, NEW u \in Uploads, NEW r \in Reports \cup {Free},
           upload' = [upload EXCEPT ![u] = r]
    PROVE  /\ upload' \in [Uploads -> Reports \cup {Free}]
           /\ upload'[u] = r
           /\ \A v \in Uploads \ {u} : upload'[v] = upload[v]
<1>1. upload \in [Uploads -> Reports \cup {Free}]
  BY DEF AccountTypeOK
<1> QED
  BY <1>1

LEMMA MovesIs ==
    ASSUME AccountTypeOK, NEW u \in Uploads, upload[u] # Free,
           NEW a \in {"user", "permit", "checkUser", "checkPermit", "pausing", "answer"},
           NEW n \in {"checkPermit", "answer"}, NEW t \in SUBSET Rules, NEW s \in BOOLEAN,
           upload' = [upload EXCEPT ![u] =
               [at |-> a, service |-> upload[u].service, bytes |-> upload[u].bytes,
                heard |-> upload[u].heard, next |-> n, todo |-> t, stale |-> s]]
    PROVE  Moves(u, a, n, t, s)
<1> DEFINE r == [at |-> a, service |-> upload[u].service, bytes |-> upload[u].bytes,
                 heard |-> upload[u].heard, next |-> n, todo |-> t, stale |-> s]
<1>1. r \in Reports
  BY ReportIs DEF Reports
<1>2. upload' = [upload EXCEPT ![u] = r]
  OBVIOUS
<1> HIDE DEF r
<1>3. /\ upload' \in [Uploads -> Reports \cup {Free}] /\ upload'[u] = r
      /\ \A v \in Uploads \ {u} : upload'[v] = upload[v]
  BY <1>1, <1>2, ReportPutIs
<1> QED
  BY <1>1, <1>3 DEF r, Moves

LEMMA StepIs ==
    ASSUME AccountTypeOK, NEW u \in Uploads, upload[u] # Free,
           NEW a \in {"user", "permit", "checkUser", "checkPermit", "answer"}, Step(u, a)
    PROVE  Moves(u, a, upload[u].next, upload[u].todo, upload[u].stale)
<1>1. upload \in [Uploads -> Reports \cup {Free}]
  BY DEF AccountTypeOK
<1>2. [upload[u] EXCEPT !.at = a] =
        [at |-> a, service |-> upload[u].service, bytes |-> upload[u].bytes,
         heard |-> upload[u].heard, next |-> upload[u].next,
         todo |-> upload[u].todo, stale |-> upload[u].stale]
  BY ReportIs, ReportExcept
<1>3. upload' = [upload EXCEPT ![u] =
        [at |-> a, service |-> upload[u].service, bytes |-> upload[u].bytes,
         heard |-> upload[u].heard, next |-> upload[u].next,
         todo |-> upload[u].todo, stale |-> upload[u].stale]]
  BY <1>1, <1>2 DEF Step
<1> QED
  BY ZenonT(60), <1>3, ReportIs, MovesIs

\* The forwards that a check looks at, and those it finds to pause.
OfRules(rules) == rules \in SUBSET Rules
ToPause(rules) == {f \in rules : ruleStatus[f] # "paused"}

LEMMA PauseTheseIs ==
    ASSUME AccountTypeOK, NEW u \in Uploads, upload[u] # Free, NEW rules, OfRules(rules),
           NEW n \in {"checkPermit", "answer"}, PauseThese(u, rules, n)
    PROVE  Moves(u, "pausing", n, ToPause(rules), FALSE)
<1> DEFINE t == {f \in rules : ruleStatus[f] # "paused"}
<1>1. t \in SUBSET Rules
  BY DEF OfRules
<1>2. upload' = [upload EXCEPT ![u] =
        [at |-> "pausing", service |-> upload[u].service, bytes |-> upload[u].bytes,
         heard |-> upload[u].heard, next |-> n, todo |-> t, stale |-> FALSE]]
  BY DEF PauseThese, AccountTypeOK
<1> HIDE DEF t
<1>3. Moves(u, "pausing", n, t, FALSE)
  BY <1>1, <1>2, MovesIs
<1> QED
  BY <1>3 DEF t, ToPause

LEMMA PauseOneIs ==
    ASSUME AccountTypeOK, NEW u \in Uploads, NEW f \in Rules, upload[u].at = "pausing",
           upload' = [upload EXCEPT ![u].todo = @ \ {f}]
    PROVE  /\ upload[u] # Free
           /\ Moves(u, "pausing", upload[u].next, upload[u].todo \ {f}, upload[u].stale)
<1> DEFINE t == upload[u].todo \ {f}
<1>1. upload \in [Uploads -> Reports \cup {Free}]
  BY DEF AccountTypeOK
<1>2. upload[u] # Free /\ t \in SUBSET Rules
  BY ReportIs
<1>3. upload' = [upload EXCEPT ![u] = [upload[u] EXCEPT !.todo = t]]
  BY <1>1
<1> HIDE DEF t
<1>4. [upload[u] EXCEPT !.todo = t] =
        [at |-> upload[u].at, service |-> upload[u].service, bytes |-> upload[u].bytes,
         heard |-> upload[u].heard, next |-> upload[u].next,
         todo |-> t, stale |-> upload[u].stale]
  <2> PICK r \in Reports : r = upload[u]
    BY <1>2, ReportIs
  <2>1. [r EXCEPT !.todo = t] =
          [at |-> r.at, service |-> r.service, bytes |-> r.bytes, heard |-> r.heard,
           next |-> r.next, todo |-> t, stale |-> r.stale]
    BY ReportExcept
  <2> QED
    BY <2>1
<1>5. upload' = [upload EXCEPT ![u] =
        [at |-> "pausing", service |-> upload[u].service, bytes |-> upload[u].bytes,
         heard |-> upload[u].heard, next |-> upload[u].next,
         todo |-> t, stale |-> upload[u].stale]]
  BY <1>3, <1>4
<1>6. upload[u].next \in {"checkPermit", "answer"} /\ upload[u].stale \in BOOLEAN
  BY <1>2, ReportIs
<1>7. Moves(u, "pausing", upload[u].next, t, upload[u].stale)
  BY <1>2, <1>5, <1>6, MovesIs
<1> QED
  BY <1>2, <1>7 DEF t

LEMMA MovesTo ==
    ASSUME NEW u \in Uploads, NEW a, NEW n, NEW t, NEW s, Moves(u, a, n, t, s), a # "free"
    PROVE  /\ upload'[u] # Free /\ upload'[u].at = a
           /\ upload'[u].service = upload[u].service /\ upload'[u].bytes = upload[u].bytes
           /\ upload'[u].heard = upload[u].heard
           /\ upload'[u].next = n /\ upload'[u].todo = t /\ upload'[u].stale = s
<1>1. /\ upload'[u].at = a
      /\ upload'[u].service = upload[u].service /\ upload'[u].bytes = upload[u].bytes
      /\ upload'[u].heard = upload[u].heard
      /\ upload'[u].next = n /\ upload'[u].todo = t /\ upload'[u].stale = s
  BY DEF Moves
<1>2. upload'[u] # Free
  BY <1>1 DEF Free
<1> QED
  BY <1>1, <1>2

\* A check that goes on without a pause.
LEMMA NoPauseIs ==
    ASSUME AccountTypeOK, NEW u \in Uploads, upload[u] # Free,
           NEW a \in {"checkPermit", "answer"}, NoPause(u, a)
    PROVE  Moves(u, a, upload[u].next, upload[u].todo, upload[u].stale)
<1>1. Step(u, a)
  BY DEF NoPause
<1> QED
  BY <1>1, StepIs

\* A reset marks the pauses under way, and changes nothing else of a report.
LEMMA StaleIs ==
    ASSUME AccountTypeOK, Stale
    PROVE  /\ upload' \in [Uploads -> Reports \cup {Free}]
           /\ \A u \in Uploads :
                /\ upload[u] = Free => upload'[u] = Free
                /\ upload[u] # Free =>
                     /\ upload'[u] # Free /\ upload'[u].at = upload[u].at
                     /\ upload'[u].service = upload[u].service /\ upload'[u].bytes = upload[u].bytes
                     /\ upload'[u].heard = upload[u].heard
                     /\ upload'[u].next = upload[u].next /\ upload'[u].todo = upload[u].todo
                     /\ upload[u].at = "pausing" => upload'[u].stale = TRUE
<1> DEFINE to(u) == [at |-> upload[u].at, service |-> upload[u].service, bytes |-> upload[u].bytes,
                     heard |-> upload[u].heard, next |-> upload[u].next,
                     todo |-> upload[u].todo, stale |-> TRUE]
<1>1. \A u \in Uploads : upload[u].at = "pausing" => upload'[u] = to(u) /\ to(u) \in Reports
  <2> TAKE u \in Uploads
  <2> HAVE upload[u].at = "pausing"
  <2>1. [upload[u] EXCEPT !.stale = TRUE] = to(u)
    BY ReportIs, ReportExcept
  <2>2. to(u) \in Reports
    BY ReportIs DEF Reports
  <2> HIDE DEF to
  <2> QED
    BY <2>1, <2>2 DEF Stale
<1>2. \A u \in Uploads : upload[u].at # "pausing" => upload'[u] = upload[u]
  BY DEF Stale
<1>3. \A u \in Uploads : upload[u].at = "pausing" =>
        /\ upload'[u].at = upload[u].at
        /\ upload'[u].service = upload[u].service /\ upload'[u].bytes = upload[u].bytes
        /\ upload'[u].heard = upload[u].heard
        /\ upload'[u].next = upload[u].next /\ upload'[u].todo = upload[u].todo
        /\ upload'[u].stale = TRUE
  <2> TAKE u \in Uploads
  <2> HAVE upload[u].at = "pausing"
  <2>1. upload'[u] = to(u)
    BY <1>1
  <2>2. /\ to(u).at = upload[u].at
        /\ to(u).service = upload[u].service /\ to(u).bytes = upload[u].bytes
        /\ to(u).heard = upload[u].heard
        /\ to(u).next = upload[u].next /\ to(u).todo = upload[u].todo
        /\ to(u).stale = TRUE
    OBVIOUS
  <2> HIDE DEF to
  <2> QED
    BY <2>1, <2>2
<1> HIDE DEF to
<1>4. \A u \in Uploads : upload'[u] \in Reports \cup {Free}
  BY <1>1, <1>2 DEF AccountTypeOK
<1>5. upload' \in [Uploads -> Reports \cup {Free}]
  <2>1. upload' = [u \in Uploads |-> upload'[u]]
    BY DEF Stale
  <2> QED
    BY <1>4, <2>1
<1>6. \A u \in Uploads : upload[u].at = "pausing" => upload[u] # Free /\ upload'[u] # Free
  BY <1>3 DEF Free
<1> QED
  BY <1>2, <1>3, <1>5, <1>6

\* Nobody waits any longer for the reports that are taken out of R.
Deaf(u) == [at |-> upload[u].at, service |-> upload[u].service, bytes |-> upload[u].bytes,
            heard |-> FALSE, next |-> upload[u].next,
            todo |-> upload[u].todo, stale |-> upload[u].stale]

LEMMA DeafIs ==
    ASSUME AccountTypeOK, NEW u \in Uploads, upload[u] # Free
    PROVE  /\ [upload[u] EXCEPT !.heard = FALSE] = Deaf(u)
           /\ Deaf(u) \in Reports
           /\ Deaf(u) # Free
           /\ Deaf(u).at = upload[u].at /\ Deaf(u).service = upload[u].service
           /\ Deaf(u).bytes = upload[u].bytes /\ Deaf(u).heard = FALSE
           /\ Deaf(u).next = upload[u].next /\ Deaf(u).todo = upload[u].todo
           /\ Deaf(u).stale = upload[u].stale
<1>1. [upload[u] EXCEPT !.heard = FALSE] = Deaf(u)
  BY ReportIs, ReportExcept DEF Deaf
<1>2. Deaf(u) \in Reports
  BY ReportIs DEF Deaf, Reports
<1>3. /\ Deaf(u).at = upload[u].at /\ Deaf(u).service = upload[u].service
      /\ Deaf(u).bytes = upload[u].bytes /\ Deaf(u).heard = FALSE
      /\ Deaf(u).next = upload[u].next /\ Deaf(u).todo = upload[u].todo
      /\ Deaf(u).stale = upload[u].stale
  BY DEF Deaf
<1>4. Deaf(u) # Free
  BY <1>3, ReportIs DEF Free
<1> QED
  BY <1>1, <1>2, <1>3, <1>4

LEMMA CostIs ==
    ASSUME AccountTypeOK, NEW u \in Uploads, upload[u] # Free
    PROVE  Cost(u) \in Nat /\ Cost(u) = Weighed(upload[u].bytes)
<1>1. upload[u].bytes \in Nat /\ Weight \in Nat
  BY ReportIs, AccountAssumption
<1> QED
  BY <1>1 DEF Cost, Weighed
-----------------------------------------------------------------------------
(* Types.                                                                    *)

LEMMA TypeInit == AccountInit => AccountTypeOK
<1> SUFFICES ASSUME AccountInit PROVE AccountTypeOK
  OBVIOUS
<1>1. Ticking \in Observers
  BY DEF Ticking, Observers
<1> QED
  BY <1>1 DEF AccountInit, AccountTypeOK

LEMMA ObserverIs ==
    ASSUME AccountTypeOK, NEW f \in Services
    PROVE  /\ observer[f].at \in {"ticking", "sending", "waiting", "resetting"}
           /\ observer[f].read \in Nat /\ observer[f].rest \in Nat
           /\ [observer[f] EXCEPT !.at = "waiting"] =
                [at |-> "waiting", read |-> observer[f].read, rest |-> observer[f].rest]
BY DEF AccountTypeOK, Observers

LEMMA TickingIs ==
    /\ Ticking \in Observers
    /\ Ticking.at = "ticking" /\ Ticking.read = 0 /\ Ticking.rest = 0
BY DEF Ticking, Observers

\* Where observeStats of f gets to, and what it has then.
Observes(f, a, n, m) ==
    /\ observer' \in [Services -> Observers]
    /\ observer'[f].at = a /\ observer'[f].read = n /\ observer'[f].rest = m
    /\ \A g \in Services \ {f} : observer'[g] = observer[g]

LEMMA ObservesIs ==
    ASSUME AccountTypeOK, NEW f \in Services,
           NEW a \in {"ticking", "sending", "waiting", "resetting"}, NEW n \in Nat, NEW m \in Nat,
           observer' = [observer EXCEPT ![f] = [at |-> a, read |-> n, rest |-> m]]
    PROVE  Observes(f, a, n, m)
<1> DEFINE o == [at |-> a, read |-> n, rest |-> m]
<1>1. o \in Observers /\ o.at = a /\ o.read = n /\ o.rest = m
  BY DEF Observers
<1>2. observer' = [observer EXCEPT ![f] = o] /\ observer \in [Services -> Observers]
  BY DEF AccountTypeOK
<1> HIDE DEF o
<1>3. /\ observer' \in [Services -> Observers] /\ observer'[f] = o
      /\ \A g \in Services \ {f} : observer'[g] = observer[g]
  BY <1>1, <1>2
<1> QED
  BY <1>1, <1>3 DEF Observes

LEMMA TicksIs ==
    ASSUME AccountTypeOK, NEW f \in Services, observer' = [observer EXCEPT ![f] = Ticking]
    PROVE  Observes(f, "ticking", 0, 0)
BY ObservesIs DEF Ticking

LEMMA ArriveIs ==
    ASSUME AccountTypeOK, NEW f \in Services, NEW u \in Uploads, Arrive(f, u)
    PROVE  /\ Observes(f, "waiting", observer[f].read, observer[f].rest)
           /\ upload' \in [Uploads -> Reports \cup {Free}]
           /\ \A v \in Uploads \ {u} : upload'[v] = upload[v]
           /\ upload'[u] # Free /\ upload'[u].at = "rule" /\ upload'[u].service = f
           /\ upload'[u].bytes = observer[f].read /\ upload'[u].heard = TRUE
<1> DEFINE r == [at |-> "rule", service |-> f, bytes |-> observer[f].read, heard |-> TRUE,
                 next |-> "checkPermit", todo |-> {}, stale |-> FALSE]
<1>1. observer' = [observer EXCEPT ![f] =
                     [at |-> "waiting", read |-> observer[f].read, rest |-> observer[f].rest]]
  <2>1. observer' = [observer EXCEPT ![f] = [observer[f] EXCEPT !.at = "waiting"]]
    BY DEF Arrive, AccountTypeOK
  <2> QED
    BY <2>1, ObserverIs
<1>2. Observes(f, "waiting", observer[f].read, observer[f].rest)
  BY <1>1, ObserverIs, ObservesIs
<1>3. r \in Reports
  BY ObserverIs DEF Reports
<1>4. upload' = [upload EXCEPT ![u] = r]
  BY DEF Arrive
<1>5. /\ r.at = "rule" /\ r.service = f
      /\ r.bytes = observer[f].read /\ r.heard = TRUE
  OBVIOUS
<1> HIDE DEF r
<1>6. r # Free
  BY <1>5 DEF Free
<1>7. /\ upload' \in [Uploads -> Reports \cup {Free}] /\ upload'[u] = r
      /\ \A v \in Uploads \ {u} : upload'[v] = upload[v]
  BY <1>3, <1>4, ReportPutIs
<1> QED
  BY <1>2, <1>5, <1>6, <1>7

LEMMA TimeOutIs ==
    ASSUME AccountTypeOK, NEW f \in Services, NEW u \in Uploads, TimeOut(f, u)
    PROVE  /\ Observes(f, "ticking", 0, 0)
           /\ upload' \in [Uploads -> Reports \cup {Free}]
           /\ upload'[u] = Deaf(u)
           /\ \A v \in Uploads \ {u} : upload'[v] = upload[v]
<1>1. Observes(f, "ticking", 0, 0)
  BY TicksIs DEF TimeOut
<1>2. upload[u] # Free
  BY DEF TimeOut
<1>3. upload' = [upload EXCEPT ![u] = [upload[u] EXCEPT !.heard = FALSE]]
  BY DEF TimeOut, AccountTypeOK
<1>4. upload' = [upload EXCEPT ![u] = Deaf(u)] /\ Deaf(u) \in Reports \cup {Free}
  BY <1>2, <1>3, DeafIs
<1>5. /\ upload' \in [Uploads -> Reports \cup {Free}] /\ upload'[u] = Deaf(u)
      /\ \A v \in Uploads \ {u} : upload'[v] = upload[v]
  BY <1>4, ReportPutIs
<1> QED
  BY <1>1, <1>5

LEMMA HeardIs ==
    ASSUME AccountTypeOK, NEW f \in Services, NEW u \in Uploads, Heard(f, u), Counted(f)
    PROVE  /\ Observes(f, "resetting", observer[f].read, count[f] - observer[f].read)
           /\ upload' \in [Uploads -> Reports \cup {Free}]
           /\ upload'[u] = Free
           /\ \A v \in Uploads \ {u} : upload'[v] = upload[v]
<1> DEFINE m == count[f] - observer[f].read
<1>1. m \in Nat
  <2>1. observer[f].at = "waiting"
    BY DEF Heard
  <2>2. observer[f].read <= count[f]
    BY <2>1 DEF Counted
  <2>3. observer[f].read \in Nat /\ count[f] \in Nat
    BY ObserverIs DEF AccountTypeOK
  <2> QED
    BY <2>2, <2>3
<1>2. observer' = [observer EXCEPT ![f] = [at |-> "resetting", read |-> observer[f].read, rest |-> m]]
  <2>1. observer' = [observer EXCEPT ![f] = [[@ EXCEPT !.at = "resetting"] EXCEPT !.rest = m]]
    BY DEF Heard, AccountTypeOK
  <2> HIDE DEF m
  <2>2. [[observer[f] EXCEPT !.at = "resetting"] EXCEPT !.rest = m]
          = [at |-> "resetting", read |-> observer[f].read, rest |-> m]
    <3>1. observer[f] \in Observers
      BY DEF AccountTypeOK
    <3>2. [observer[f] EXCEPT !.at = "resetting"] =
            [at |-> "resetting", read |-> observer[f].read, rest |-> observer[f].rest]
      BY <3>1 DEF Observers
    <3>3. [[at |-> "resetting", read |-> observer[f].read, rest |-> observer[f].rest] EXCEPT !.rest = m]
            = [at |-> "resetting", read |-> observer[f].read, rest |-> m]
      OBVIOUS
    <3> QED
      BY <3>2, <3>3
  <2> QED
    BY <2>1, <2>2 DEF AccountTypeOK
<1> HIDE DEF m
<1>3. Observes(f, "resetting", observer[f].read, m)
  BY <1>1, <1>2, ObserverIs, ObservesIs
<1>4. upload' = [upload EXCEPT ![u] = Free]
  BY DEF Heard
<1>5. /\ upload' \in [Uploads -> Reports \cup {Free}] /\ upload'[u] = Free
      /\ \A v \in Uploads \ {u} : upload'[v] = upload[v]
  BY <1>4, ReportPutIs
<1> QED
  BY <1>3, <1>5 DEF m

LEMMA DrainedIs ==
    ASSUME AccountTypeOK, NEW f \in Services, Drained(f)
    PROVE  /\ Observes(f, "ticking", 0, 0)
           /\ upload' \in [Uploads -> Reports \cup {Free}]
           /\ \A u \in Uploads :
                upload'[u] = IF upload[u] # Free /\ upload[u].service = f THEN Deaf(u) ELSE upload[u]
<1>1. Observes(f, "ticking", 0, 0)
  BY TicksIs DEF Drained
<1>2. \A u \in Uploads :
        upload'[u] = IF upload[u] # Free /\ upload[u].service = f THEN Deaf(u) ELSE upload[u]
  BY DeafIs DEF Drained
<1>3. \A u \in Uploads : upload'[u] \in Reports \cup {Free}
  BY <1>2, DeafIs DEF AccountTypeOK
<1>4. upload' = [u \in Uploads |-> upload'[u]]
  BY DEF Drained
<1> QED
  BY <1>1, <1>2, <1>3, <1>4

\* A request changes listeners, rows and its own state; no counter and no report.
LEMMA RequestsKeep ==
    ASSUME PauseNext \/ RequestNext
    PROVE  UNCHANGED <<count, updated, observer, carried, missed, upload, flows, unheard,
                       userOff, permitsOff, resets>>
<1>1. ASSUME NEW f, NEW ends, NEW written, PauseRule(f, ends, written)
      PROVE  UNCHANGED <<count, updated, observer, carried, missed, upload, flows, unheard,
                         userOff, permitsOff, resets>>
  BY <1>1 DEF PauseRule
<1>2. ASSUME NEW f, NEW kind, Begin(f, kind)
      PROVE  UNCHANGED <<count, updated, observer, carried, missed, upload, flows, unheard,
                         userOff, permitsOff, resets>>
  BY <1>2 DEF Begin, nodeSide
<1>3. ASSUME NEW f, NEW end, RebuildCloses(f, end)
      PROVE  UNCHANGED <<count, updated, observer, carried, missed, upload, flows, unheard,
                         userOff, permitsOff, resets>>
  BY <1>3 DEF RebuildCloses, requestSide
<1>4. ASSUME NEW f, Ended(f)
      PROVE  UNCHANGED <<count, updated, observer, carried, missed, upload, flows, unheard,
                         userOff, permitsOff, resets>>
  BY <1>4 DEF Ended
<1> QED
  BY Zenon, <1>1, <1>2, <1>3, <1>4
     DEF PauseNext, RequestNext, BeginResume, BeginEdit, BeginRecover, EndRequest, EndHot,
         RequestRefused

\* A quota, a user or a permission changes: the reports are marked at most.
LEMMA QuotaKeeps ==
    ASSUME QuotaNext
    PROVE  /\ Stale \/ upload' = upload
           /\ UNCHANGED <<nodeSide, ruleFlow, booked, ruleStatus, change, requests, lifted, unheard>>
<1>1. ASSUME NEW p, ResetPermit(p)
      PROVE  /\ Stale \/ upload' = upload
             /\ UNCHANGED <<nodeSide, ruleFlow, booked, ruleStatus, change, requests, lifted, unheard>>
  BY <1>1 DEF ResetPermit
<1>2. ASSUME NEW p, SwitchPermit(p)
      PROVE  /\ Stale \/ upload' = upload
             /\ UNCHANGED <<nodeSide, ruleFlow, booked, ruleStatus, change, requests, lifted, unheard>>
  BY <1>2 DEF SwitchPermit, flows
<1>3. CASE ResetUser \/ SwitchUser
  BY <1>3 DEF ResetUser, SwitchUser, flows
<1> QED
  BY <1>1, <1>2, <1>3 DEF QuotaNext

\* Listeners close, and open.
Sockets == {"open", "draining", "gone"}

LEMMA ShutIs ==
    ASSUME socket \in [Services -> Sockets], NEW f, NEW ends, Shut(f, ends)
    PROVE  socket' \in [Services -> Sockets]
<1>1. \A s \in Services :
        (IF s[1] = f /\ s[2] \in ends /\ socket[s] = "open" THEN "draining" ELSE socket[s]) \in Sockets
  BY DEF Sockets
<1> QED
  BY <1>1 DEF Shut

LEMMA OpenedIs ==
    ASSUME socket \in [Services -> Sockets], NEW f, NEW ends, Opened(f, ends)
    PROVE  socket' \in [Services -> Sockets]
<1>1. \A s \in Services :
        (IF s[1] = f /\ s[2] \in ends THEN "open" ELSE socket[s]) \in Sockets
  BY DEF Sockets
<1> QED
  BY <1>1 DEF Opened

LEMMA WrittenIs ==
    ASSUME AccountTypeOK, NEW f \in Rules, NEW status \in {"active", "paused", "error"},
           Written(f, status)
    PROVE  ruleStatus' \in [Rules -> {"active", "paused", "error"}] /\ lifted' \subseteq Rules
BY DEF Written, AccountTypeOK

LEMMA EndedIs ==
    ASSUME AccountTypeOK, NEW f \in Rules, Ended(f)
    PROVE  change' \in [Rules -> {"none", "resume", "hot", "rebuild", "recover"}]
BY DEF Ended, AccountTypeOK

\* What the requests and the pauses change keeps its type.
RequestTypes ==
    /\ socket \in [Services -> Sockets]
    /\ ruleStatus \in [Rules -> {"active", "paused", "error"}]
    /\ change \in [Rules -> {"none", "resume", "hot", "rebuild", "recover"}]
    /\ requests \in Nat /\ lifted \subseteq Rules

LEMMA RequestsAreTyped == ASSUME AccountTypeOK PROVE RequestTypes
BY DEF AccountTypeOK, RequestTypes, Sockets

LEMMA PausesKeepTypes == ASSUME AccountTypeOK, PauseNext PROVE RequestTypes'
<1>1. PICK f \in Rules : \E ends \in Reached(f), written \in BOOLEAN : PauseRule(f, ends, written)
  BY DEF PauseNext
<1>2. PICK ends \in Reached(f), written \in BOOLEAN : PauseRule(f, ends, written)
  BY <1>1
<1>3. Shut(f, ends) /\ UNCHANGED <<change, requests, lifted>>
  BY <1>2 DEF PauseRule
<1>4. ruleStatus' = [ruleStatus EXCEPT ![f] = "paused"] \/ ruleStatus' = ruleStatus
  BY <1>2 DEF PauseRule
<1>5. RequestTypes
  BY RequestsAreTyped
<1>6. socket' \in [Services -> Sockets]
  BY <1>3, <1>5, ShutIs DEF RequestTypes
<1>7. ruleStatus' \in [Rules -> {"active", "paused", "error"}]
  BY <1>4, <1>5 DEF RequestTypes
<1> QED
  BY <1>3, <1>5, <1>6, <1>7 DEF RequestTypes

LEMMA BeginKeepsTypes ==
    ASSUME RequestTypes, NEW f \in Rules, NEW kind \in {"resume", "hot", "rebuild", "recover"},
           Begin(f, kind), requests' \in Nat
    PROVE  RequestTypes'
BY DEF Begin, nodeSide, RequestTypes

LEMMA RequestsKeepTypes == ASSUME AccountTypeOK, RequestNext PROVE RequestTypes'
<1> PICK f \in Rules :
      \/ \E asked \in BOOLEAN : BeginResume(f, asked)
      \/ \E kind \in {"hot", "rebuild"} : BeginEdit(f, kind)
      \/ BeginRecover(f) \/ EndRequest(f) \/ EndHot(f)
      \/ \E end \in SidesOf(f) : RebuildCloses(f, end)
      \/ \E ends \in SUBSET SidesOf(f) : RequestRefused(f, ends)
  BY DEF RequestNext
<1>1. RequestTypes
  BY RequestsAreTyped
<1>2. ASSUME NEW asked \in BOOLEAN, BeginResume(f, asked) PROVE RequestTypes'
  <2>1. Begin(f, "resume") /\ requests' \in Nat
    BY <1>1, <1>2 DEF BeginResume, Count, RequestTypes
  <2> QED
    BY <1>1, <2>1, BeginKeepsTypes
<1>3. ASSUME NEW kind \in {"hot", "rebuild"}, BeginEdit(f, kind) PROVE RequestTypes'
  <2>1. Begin(f, kind) /\ requests' \in Nat
    BY <1>1, <1>3 DEF BeginEdit, Count, RequestTypes
  <2> QED
    BY <1>1, <2>1, BeginKeepsTypes
<1>4. CASE BeginRecover(f)
  <2>1. Begin(f, "recover") /\ requests' \in Nat
    BY <1>1, <1>4 DEF BeginRecover, RequestTypes
  <2> QED
    BY <1>1, <2>1, BeginKeepsTypes
<1>5. CASE EndRequest(f)
  <2>1. Opened(f, SidesOf(f)) /\ Written(f, "active") /\ Ended(f) /\ requests' = requests
    BY <1>5 DEF EndRequest, Ended
  <2>2. socket' \in [Services -> Sockets]
    BY <1>1, <2>1, OpenedIs DEF RequestTypes
  <2> QED
    BY <1>1, <2>1, <2>2, WrittenIs, EndedIs DEF RequestTypes
<1>6. CASE EndHot(f)
  <2>1. Written(f, "active") /\ Ended(f) /\ requests' = requests /\ socket' = socket
    BY <1>6 DEF EndHot, Ended
  <2> QED
    BY <1>1, <2>1, WrittenIs, EndedIs DEF RequestTypes
<1>7. ASSUME NEW end, RebuildCloses(f, end) PROVE RequestTypes'
  <2>1. Shut(f, {end}) /\ UNCHANGED <<ruleStatus, change, requests, lifted>>
    BY <1>7 DEF RebuildCloses, requestSide
  <2>2. socket' \in [Services -> Sockets]
    BY <1>1, <2>1, ShutIs DEF RequestTypes
  <2> QED
    BY <1>1, <2>1, <2>2 DEF RequestTypes
<1>8. ASSUME NEW ends, RequestRefused(f, ends) PROVE RequestTypes'
  <2>1. Opened(f, ends) /\ Ended(f) /\ requests' = requests
    BY <1>8 DEF RequestRefused, Ended
  <2>2. Written(f, "error") \/ UNCHANGED <<ruleStatus, lifted>>
    BY <1>8 DEF RequestRefused
  <2>3. socket' \in [Services -> Sockets]
    BY <1>1, <2>1, OpenedIs DEF RequestTypes
  <2>4. ruleStatus' \in [Rules -> {"active", "paused", "error"}] /\ lifted' \subseteq Rules
    BY <1>1, <2>2, WrittenIs DEF RequestTypes
  <2> QED
    BY <1>1, <2>1, <2>3, <2>4, EndedIs DEF RequestTypes
<1> QED
  BY <1>2, <1>3, <1>4, <1>5, <1>6, <1>7, <1>8

LEMMA NodeKeepsTypes ==
    ASSUME AccountTypeOK, \A s \in Services : Counted(s), NodeNext
    PROVE  AccountTypeOK'
<1> USE AccountAssumption
<1>1. ASSUME NEW s \in Services, Carry(s) PROVE AccountTypeOK'
  BY <1>1 DEF Carry, flows, requestSide, AccountTypeOK
<1>2. ASSUME NEW s \in Services, Tick(s) PROVE AccountTypeOK'
  <2>1. observer' \in [Services -> Observers]
    <3>1. CASE count[s] = 0
      BY <1>2, <3>1 DEF Tick, AccountTypeOK
    <3>2. CASE count[s] # 0
      <4>1. count[s] \in Nat
        BY DEF AccountTypeOK
      <4>2. Observes(s, "sending", count[s], 0)
        BY <1>2, <3>2, <4>1, ObservesIs DEF Tick
      <4> QED
        BY <4>2 DEF Observes
    <3> QED
      BY <3>1, <3>2
  <2> QED
    BY <1>2, <2>1 DEF Tick, flows, requestSide, AccountTypeOK
<1>3. ASSUME NEW s \in Services, SendFails(s) PROVE AccountTypeOK'
  BY <1>3, TickingIs DEF SendFails, flows, requestSide, AccountTypeOK
<1>4. ASSUME NEW s \in Services, ResetTraffic(s) PROVE AccountTypeOK'
  BY <1>4, TickingIs, ObserverIs DEF ResetTraffic, flows, requestSide, AccountTypeOK
<1>5. ASSUME NEW s \in Services, Drained(s) PROVE AccountTypeOK'
  <2>1. observer' \in [Services -> Observers] /\ upload' \in [Uploads -> Reports \cup {Free}]
    BY <1>5, DrainedIs DEF Observes
  <2> QED
    BY <1>5, <2>1 DEF Drained, flows, requestSide, AccountTypeOK
<1>6. ASSUME NEW s \in Services, NEW u \in Uploads, Arrive(s, u) \/ TimeOut(s, u) \/ Heard(s, u)
      PROVE  AccountTypeOK'
  <2>1. observer' \in [Services -> Observers] /\ upload' \in [Uploads -> Reports \cup {Free}]
    BY <1>6, ArriveIs, TimeOutIs, HeardIs DEF Observes
  <2> QED
    BY <1>6, <2>1 DEF Arrive, TimeOut, Heard, flows, requestSide, AccountTypeOK
<1> QED
  BY <1>1, <1>2, <1>3, <1>4, <1>5, <1>6 DEF NodeNext

LEMMA ReportsKeepTypes == ASSUME AccountTypeOK, ReportNext PROVE AccountTypeOK'
<1>1. ASSUME NEW u \in Uploads, BookRule(u) \/ BookUser(u) \/ BookPermit(u)
      PROVE  AccountTypeOK'
  <2>1. upload[u] # Free
    BY <1>1, ReportIs DEF BookRule, BookUser, BookPermit
  <2>2. upload' \in [Uploads -> Reports \cup {Free}]
    BY <1>1, <2>1, StepIs DEF BookRule, BookUser, BookPermit, Moves
  <2>3. Cost(u) \in Nat /\ upload[u].service \in Services /\ RuleOf(u) \in Rules
    BY <2>1, CostIs, ReportIs, RuleIs
  <2>4. CASE BookRule(u)
    BY <2>2, <2>3, <2>4 DEF BookRule, nodeSide, requestSide, AccountTypeOK
  <2>5. CASE BookUser(u)
    BY <2>2, <2>3, <2>5 DEF BookUser, nodeSide, requestSide, AccountTypeOK
  <2>6. CASE BookPermit(u)
    <3>1. permitFlow' \in [Permits -> Nat]
      <4> PICK p \in Permits, c \in Nat : p = PermitOf[RuleOf(u)] /\ c = Cost(u)
        BY <2>1, <2>3, RuleIs
      <4>1. permitFlow' = [permitFlow EXCEPT ![p] = @ + c]
        BY <2>6 DEF BookPermit
      <4> QED
        BY <4>1 DEF AccountTypeOK
    <3> QED
      BY <2>2, <2>6, <3>1 DEF BookPermit, nodeSide, requestSide, AccountTypeOK
  <2> QED
    BY <1>1, <2>4, <2>5, <2>6
<1>2. ASSUME NEW u \in Uploads, CheckUser(u) \/ CheckPermit(u) PROVE AccountTypeOK'
  <2>1. upload[u] # Free
    BY <1>2, ReportIs DEF CheckUser, CheckPermit
  <2>2. \/ \E a \in {"checkPermit", "answer"} : NoPause(u, a)
        \/ \E rules : OfRules(rules) /\ \E n \in {"checkPermit", "answer"} : PauseThese(u, rules, n)
    BY <1>2 DEF CheckUser, CheckPermit, OfRules
  <2>3. upload' \in [Uploads -> Reports \cup {Free}]
    BY <2>1, <2>2, NoPauseIs, PauseTheseIs DEF Moves
  <2>5. lifted' \subseteq lifted
    BY <2>2 DEF NoPause, PauseThese
  <2>4. UNCHANGED Checked
    BY <1>2 DEF CheckUser, CheckPermit
  <2> QED
    BY <2>3, <2>4, <2>5 DEF Checked, nodeSide, flows, AccountTypeOK
<1>3. ASSUME NEW u \in Uploads, PausesDone(u) \/ AnswerUnheard(u) PROVE AccountTypeOK'
  <2>1. upload' \in [Uploads -> Reports \cup {Free}]
    <3>1. CASE PausesDone(u)
      BY <3>1, ReportIs, StepIs DEF PausesDone, Moves
    <3>2. CASE AnswerUnheard(u)
      BY <3>2, ReportPutIs DEF AnswerUnheard
    <3> QED
      BY <1>3, <3>1, <3>2
  <2> QED
    BY <1>3, <2>1 DEF PausesDone, AnswerUnheard, nodeSide, flows, requestSide, AccountTypeOK
<1>4. ASSUME NEW u \in Uploads, NEW f \in Rules, NEW ends, PauseOne(u, f, ends)
      PROVE  AccountTypeOK'
  <2>1. upload' \in [Uploads -> Reports \cup {Free}]
    BY <1>4, PauseOneIs DEF PauseOne, Moves
  <2>2. socket' \in [Services -> {"open", "draining", "gone"}]
    BY <1>4, ShutIs DEF PauseOne, AccountTypeOK, Sockets
  <2> QED
    BY <1>4, <2>1, <2>2 DEF PauseOne, flows, AccountTypeOK
<1> QED
  BY <1>1, <1>2, <1>3, <1>4 DEF ReportNext

LEMMA QuotasKeepTypes == ASSUME AccountTypeOK, QuotaNext PROVE AccountTypeOK'
<1>1. upload' \in [Uploads -> Reports \cup {Free}]
  BY QuotaKeeps, StaleIs DEF AccountTypeOK
<1>2. /\ userFlow' \in Nat /\ permitFlow' \in [Permits -> Nat]
      /\ userOff' \in BOOLEAN /\ permitsOff' \subseteq Permits /\ resets' \in Nat
  <2>1. CASE ResetUser
    BY <2>1 DEF ResetUser, AccountTypeOK
  <2>2. CASE SwitchUser
    BY <2>2 DEF SwitchUser, flows, AccountTypeOK
  <2>3. ASSUME NEW p \in Permits, ResetPermit(p)
        PROVE  /\ userFlow' \in Nat /\ permitFlow' \in [Permits -> Nat]
               /\ userOff' \in BOOLEAN /\ permitsOff' \subseteq Permits /\ resets' \in Nat
    BY <2>3 DEF ResetPermit, AccountTypeOK
  <2>4. ASSUME NEW p \in Permits, SwitchPermit(p)
        PROVE  /\ userFlow' \in Nat /\ permitFlow' \in [Permits -> Nat]
               /\ userOff' \in BOOLEAN /\ permitsOff' \subseteq Permits /\ resets' \in Nat
    BY <2>4 DEF SwitchPermit, flows, AccountTypeOK
  <2> QED
    BY <2>1, <2>2, <2>3, <2>4 DEF QuotaNext
<1> QED
  BY <1>1, <1>2, QuotaKeeps DEF nodeSide, AccountTypeOK

LEMMA AccountTypeStep ==
    ASSUME AccountTypeOK, \A s \in Services : Counted(s), [AccountNext]_accountVars
    PROVE  AccountTypeOK'
<1>1. CASE PauseNext \/ RequestNext
  <2>1. RequestTypes'
    BY <1>1, PausesKeepTypes, RequestsKeepTypes
  <2> QED
    BY <1>1, <2>1, RequestsKeep DEF RequestTypes, Sockets, flows, AccountTypeOK
<1>2. CASE UNCHANGED accountVars
  BY <1>2 DEF accountVars, nodeSide, flows, requestSide, AccountTypeOK
<1> QED
  BY <1>1, <1>2, NodeKeepsTypes, ReportsKeepTypes, QuotasKeepTypes DEF AccountNext
-----------------------------------------------------------------------------
(* What is booked, and what is due.                                          *)

Booked(f) ==
    \/ observer[f].at = "resetting"
    \/ \E u \in Uploads : HeardBy(u, f) /\ upload[u].at # "rule"

LEMMA DueIs ==
    ASSUME NEW f \in Services
    PROVE  Due(f) = count[f] - IF Booked(f) THEN observer[f].read ELSE 0
BY DEF Due, Booked, HeardBy

LEMMA DueNextIs ==
    ASSUME NEW f \in Services
    PROVE  Due(f)' = count'[f] - IF Booked(f)' THEN observer'[f].read ELSE 0
BY DEF Due, Booked, HeardBy

LEMMA WeighedIs == ASSUME NEW a \in Int PROVE Weighed(a) \in Int
BY AccountAssumption DEF Weighed

LEMMA Plus ==
    ASSUME NEW a \in Int, NEW b \in Int
    PROVE  Weighed(a + b) = Weighed(a) + Weighed(b)
<1>1. Weight \in Int
  BY AccountAssumption
<1> QED
  BY <1>1 DEF Weighed

LEMMA More ==
    ASSUME NEW a \in Int, NEW b \in Int, a <= b
    PROVE  Weighed(a) <= Weighed(b)
<1>1. Weight \in Nat
  BY AccountAssumption
<1>2. b - a \in Nat
  OBVIOUS
<1>3. Weight * (b - a) \in Nat
  BY <1>1, <1>2
<1>4. Weight * (b - a) = Weight * b - Weight * a /\ Weight * a \in Int /\ Weight * b \in Int
  BY <1>1
<1> QED
  BY <1>3, <1>4 DEF Weighed

\* A step keeps the ledger of a service whose counter and observer it leaves,
\* and what it has booked, with its reports that are waited for, and that gets no other report.
SameLedger(f) ==
    /\ count'[f] = count[f] /\ observer'[f] = observer[f]
    /\ booked'[f] = booked[f] /\ carried'[f] = carried[f]
    /\ unheard'[f] = unheard[f] /\ missed'[f] = missed[f]
    /\ \A u \in Uploads :
         /\ HeardBy(u, f)' <=> HeardBy(u, f)
         /\ HeardBy(u, f) =>
              /\ upload'[u].bytes = upload[u].bytes
              /\ upload'[u].at = "rule" <=> upload[u].at = "rule"
         /\ upload'[u] # Free /\ upload'[u].service = f /\ ~upload'[u].heard =>
              upload[u] # Free /\ upload[u].service = f /\ ~upload[u].heard

LEMMA LedgerKept ==
    ASSUME NEW f \in Services, LedgerOf(f), SameLedger(f)
    PROVE  LedgerOf(f)'
<1>1. HeardOnce(f)'
  BY DEF SameLedger, LedgerOf, HeardOnce
<1>2. Unheard(f)'
  BY DEF SameLedger, LedgerOf, Unheard
<1>3. Counted(f)'
  BY DEF SameLedger, LedgerOf, Counted
<1>4. Booked(f)' <=> Booked(f)
  BY DEF SameLedger, Booked
<1>5. Due(f)' = Due(f)
  BY <1>4, DueIs, DueNextIs DEF SameLedger
<1>6. AtMost(f)' /\ AtLeast(f)'
  BY <1>5 DEF SameLedger, LedgerOf, AtMost, AtLeast
<1> QED
  BY <1>1, <1>2, <1>3, <1>6 DEF LedgerOf

\* A report that goes on at the panel, its row booked before and after.
LEMMA MovesKeepsLedger ==
    ASSUME AccountTypeOK, \A f \in Services : LedgerOf(f), NEW u \in Uploads, upload[u] # Free,
           upload[u].at # "rule",
           NEW a \in {"user", "permit", "checkUser", "checkPermit", "pausing", "answer"},
           NEW n, NEW t, NEW s, Moves(u, a, n, t, s),
           UNCHANGED <<count, observer, booked, carried, unheard, missed>>
    PROVE  \A f \in Services : LedgerOf(f)'
<1>1. /\ upload'[u] # Free /\ upload'[u].at # "rule"
      /\ upload'[u].service = upload[u].service /\ upload'[u].bytes = upload[u].bytes
      /\ upload'[u].heard = upload[u].heard
  BY MovesTo
<1>2. \A v \in Uploads \ {u} : upload'[v] = upload[v]
  BY DEF Moves
<1>3. \A f \in Services : SameLedger(f)
  BY <1>1, <1>2 DEF SameLedger, HeardBy
<1> QED
  BY <1>3, LedgerKept

LEMMA LedgerPanel ==
    ASSUME AccountTypeOK, \A s \in Services : LedgerOf(s), NEW u \in Uploads,
           \/ BookUser(u) \/ BookPermit(u) \/ CheckUser(u) \/ CheckPermit(u) \/ PausesDone(u)
           \/ \E f \in Rules : \E ends \in Reached(f) : PauseOne(u, f, ends)
    PROVE  \A s \in Services : LedgerOf(s)'
<1>1. CASE BookUser(u)
  <2>1. upload[u] # Free /\ Moves(u, "permit", upload[u].next, upload[u].todo, upload[u].stale)
    BY <1>1, ReportIs, StepIs DEF BookUser
  <2> QED
    BY <1>1, <2>1, MovesKeepsLedger DEF BookUser, nodeSide
<1>2. CASE BookPermit(u)
  <2>1. upload[u] # Free /\ Moves(u, "checkUser", upload[u].next, upload[u].todo, upload[u].stale)
    BY <1>2, ReportIs, StepIs DEF BookPermit
  <2> QED
    BY <1>2, <2>1, MovesKeepsLedger DEF BookPermit, nodeSide
<1>3. CASE CheckUser(u) \/ CheckPermit(u)
  <2>1. /\ upload[u] # Free /\ upload[u].at # "rule"
        /\ UNCHANGED <<count, observer, booked, carried, unheard, missed>>
    BY <1>3, ReportIs DEF CheckUser, CheckPermit, Checked, nodeSide, flows
  <2>2. \/ \E a \in {"checkPermit", "answer"} : NoPause(u, a)
        \/ \E rules : OfRules(rules) /\ \E n \in {"checkPermit", "answer"} : PauseThese(u, rules, n)
    BY <1>3 DEF CheckUser, CheckPermit, OfRules
  <2>3. ASSUME NEW a \in {"checkPermit", "answer"}, NoPause(u, a)
        PROVE  \A s \in Services : LedgerOf(s)'
    <3>1. Moves(u, a, upload[u].next, upload[u].todo, upload[u].stale)
      BY <2>1, <2>3, NoPauseIs
    <3> QED
      BY <2>1, <3>1, MovesKeepsLedger
  <2>4. ASSUME NEW rules, OfRules(rules), NEW n \in {"checkPermit", "answer"},
               PauseThese(u, rules, n)
        PROVE  \A s \in Services : LedgerOf(s)'
    <3>1. Moves(u, "pausing", n, ToPause(rules), FALSE)
      BY <2>1, <2>4, PauseTheseIs
    <3> QED
      BY <2>1, <3>1, MovesKeepsLedger
  <2> QED
    BY <2>2, <2>3, <2>4
<1>4. CASE PausesDone(u)
  <2> DEFINE n == upload[u].next
  <2>1. upload[u] # Free /\ n \in {"checkPermit", "answer"} /\ Step(u, n)
    BY <1>4, ReportIs DEF PausesDone
  <2> HIDE DEF n
  <2>2. Moves(u, n, upload[u].next, upload[u].todo, upload[u].stale)
    BY <2>1, StepIs
  <2> QED
    BY <1>4, <2>1, <2>2, MovesKeepsLedger DEF PausesDone, nodeSide, flows
<1>5. ASSUME NEW f \in Rules, NEW ends, PauseOne(u, f, ends)
      PROVE  \A s \in Services : LedgerOf(s)'
  <2>1. /\ upload[u] # Free
        /\ Moves(u, "pausing", upload[u].next, upload[u].todo \ {f}, upload[u].stale)
    BY <1>5, PauseOneIs DEF PauseOne
  <2> QED
    BY <1>5, <2>1, MovesKeepsLedger DEF PauseOne, flows
<1> QED
  BY <1>1, <1>2, <1>3, <1>4, <1>5

LEMMA LedgerSame ==
    ASSUME AccountTypeOK, \A s \in Services : LedgerOf(s),
           \/ QuotaNext \/ PauseNext \/ RequestNext
           \/ \E u \in Uploads : AnswerUnheard(u)
           \/ UNCHANGED accountVars
    PROVE  \A s \in Services : LedgerOf(s)'
<1>1. CASE UNCHANGED <<count, observer, booked, carried, unheard, missed, upload>>
  <2>1. \A s \in Services : SameLedger(s)
    BY <1>1 DEF SameLedger, HeardBy
  <2> QED
    BY <2>1, LedgerKept
<1>2. CASE Stale /\ UNCHANGED <<count, observer, booked, carried, unheard, missed>>
  <2>1. \A s \in Services : SameLedger(s)
    BY <1>2, StaleIs DEF SameLedger, HeardBy
  <2> QED
    BY <2>1, LedgerKept
<1>3. ASSUME NEW u \in Uploads, AnswerUnheard(u) PROVE \A s \in Services : LedgerOf(s)'
  <2>1. UNCHANGED <<count, observer, booked, carried, unheard, missed>>
    BY <1>3 DEF AnswerUnheard, nodeSide, flows
  <2>2. ~upload[u].heard /\ upload' = [upload EXCEPT ![u] = Free]
    BY <1>3 DEF AnswerUnheard
  <2>3. upload'[u] = Free /\ \A v \in Uploads \ {u} : upload'[v] = upload[v]
    BY <2>2, ReportPutIs
  <2>4. \A s \in Services : SameLedger(s)
    BY <2>1, <2>2, <2>3 DEF SameLedger, HeardBy
  <2> QED
    BY <2>4, LedgerKept
<1>4. CASE QuotaNext
  BY <1>1, <1>2, <1>4, QuotaKeeps DEF nodeSide
<1>5. CASE PauseNext \/ RequestNext
  BY <1>1, <1>5, RequestsKeep DEF flows
<1>6. CASE UNCHANGED accountVars
  BY <1>1, <1>6 DEF accountVars, nodeSide, flows
<1> QED
  BY <1>3, <1>4, <1>5, <1>6

LEMMA Typed ==
    ASSUME AccountTypeOK, NEW f \in Services
    PROVE  /\ count[f] \in Nat /\ booked[f] \in Nat /\ carried[f] \in Nat
           /\ unheard[f] \in BOOLEAN /\ missed[f] \in BOOLEAN
           /\ observer[f].read \in Nat /\ observer[f].rest \in Nat
           /\ Due(f) \in Int
<1>1. /\ count[f] \in Nat /\ booked[f] \in Nat /\ carried[f] \in Nat
      /\ unheard[f] \in BOOLEAN /\ missed[f] \in BOOLEAN
      /\ observer[f].read \in Nat /\ observer[f].rest \in Nat
  BY ObserverIs DEF AccountTypeOK
<1> QED
  BY <1>1, DueIs

LEMMA LedgerCarry ==
    ASSUME AccountTypeOK, \A g \in Services : LedgerOf(g), NEW f \in Services, Carry(f)
    PROVE  \A g \in Services : LedgerOf(g)'
<1>1. /\ UNCHANGED <<observer, upload, booked, unheard>>
      /\ count'[f] = count[f] + 1 /\ carried'[f] = carried[f] + 1
      /\ missed'[f] <=> missed[f] \/ observer[f].at = "resetting"
      /\ \A g \in Services \ {f} :
           count'[g] = count[g] /\ carried'[g] = carried[g] /\ missed'[g] = missed[g]
  BY DEF Carry, flows, AccountTypeOK
<1>2. ASSUME NEW g \in Services \ {f} PROVE LedgerOf(g)'
  BY <1>1, LedgerKept DEF SameLedger, HeardBy
<1>3. HeardOnce(f)' /\ Unheard(f)'
  BY <1>1 DEF LedgerOf, HeardOnce, Unheard, HeardBy
<1>4. Counted(f)'
  BY <1>1, Typed DEF LedgerOf, Counted
<1>5. Due(f)' = Due(f) + 1
  <2>1. Booked(f)' <=> Booked(f)
    BY <1>1 DEF Booked, HeardBy
  <2> QED
    BY <1>1, <2>1, DueIs, DueNextIs, Typed
<1>6. AtMost(f)' /\ AtLeast(f)'
  <2>1. /\ Weighed(Due(f) + 1) = Weighed(Due(f)) + Weighed(1)
        /\ Weighed(carried[f] + 1) = Weighed(carried[f]) + Weighed(1)
        /\ Weighed(Due(f)) \in Int /\ Weighed(1) \in Int /\ Weighed(carried[f]) \in Int
    <3>1. Due(f) \in Int /\ carried[f] \in Int
      BY Typed
    <3>2. Weighed(Due(f) + 1) = Weighed(Due(f)) + Weighed(1)
      BY <3>1, Plus
    <3>3. Weighed(carried[f] + 1) = Weighed(carried[f]) + Weighed(1)
      <4> DEFINE c == carried[f]
      <4>1. c \in Int /\ 1 \in Int
        BY <3>1
      <4> HIDE DEF c
      <4>2. Weighed(c + 1) = Weighed(c) + Weighed(1)
        BY <4>1, Plus
      <4> QED
        BY <4>2 DEF c
    <3> QED
      BY <3>1, <3>2, <3>3, WeighedIs
  <2>2. AtMost(f) /\ AtLeast(f)
    BY DEF LedgerOf
  <2> QED
    BY <1>1, <1>5, <2>1, <2>2, Typed DEF AtMost, AtLeast
<1>7. LedgerOf(f)'
  BY <1>3, <1>4, <1>6 DEF LedgerOf
<1> QED
  BY <1>2, <1>7

LEMMA LedgerTick ==
    ASSUME AccountTypeOK, \A g \in Services : LedgerOf(g), NEW f \in Services, Tick(f) \/ SendFails(f)
    PROVE  \A g \in Services : LedgerOf(g)'
<1>1. /\ UNCHANGED <<count, upload, booked, carried, unheard, missed>>
      /\ \A g \in Services \ {f} : observer'[g] = observer[g]
  BY DEF Tick, SendFails, flows, AccountTypeOK
<1>2. observer[f].at \in {"ticking", "sending"}
  BY TickingIs DEF Tick, SendFails
<1>3. /\ observer'[f].at \in {"ticking", "sending"}
      /\ observer'[f].at = "sending" => observer'[f].read <= count[f]
  <2>1. CASE observer' = observer
    BY <1>2, <2>1 DEF LedgerOf, Counted
  <2>2. CASE observer' = [observer EXCEPT ![f] = Ticking]
    BY <2>2, TickingIs DEF AccountTypeOK
  <2>3. CASE observer' = [observer EXCEPT ![f] = [at |-> "sending", read |-> count[f], rest |-> 0]]
    <3>1. Observes(f, "sending", count[f], 0)
      BY <2>3, Typed, ObservesIs
    <3> QED
      BY <3>1, Typed DEF Observes
  <2> QED
    BY <2>1, <2>2, <2>3 DEF Tick, SendFails
<1>4. ASSUME NEW g \in Services \ {f} PROVE LedgerOf(g)'
  BY <1>1, <1>4, LedgerKept DEF SameLedger, HeardBy
<1>5. \A u \in Uploads : ~HeardBy(u, f) /\ ~HeardBy(u, f)'
  BY <1>1, <1>2 DEF LedgerOf, HeardOnce, HeardBy
<1>6. HeardOnce(f)' /\ Unheard(f)' /\ Counted(f)'
  BY <1>1, <1>3, <1>5 DEF LedgerOf, HeardOnce, Unheard, Counted
<1>7. Due(f)' = Due(f)
  <2>1. ~Booked(f) /\ ~Booked(f)'
    BY <1>2, <1>3, <1>5 DEF Booked
  <2> QED
    BY <1>1, <2>1, DueIs, DueNextIs
<1>8. LedgerOf(f)'
  BY <1>1, <1>6, <1>7 DEF LedgerOf, AtMost, AtLeast
<1> QED
  BY <1>4, <1>8

LEMMA LedgerArrive ==
    ASSUME AccountTypeOK, \A g \in Services : LedgerOf(g), NEW f \in Services, NEW u \in Uploads, Arrive(f, u)
    PROVE  \A g \in Services : LedgerOf(g)'
<1>1. /\ UNCHANGED <<count, booked, carried, unheard, missed>>
      /\ observer[f].at = "sending" /\ upload[u] = Free
  BY DEF Arrive, flows
<1>a. Observes(f, "waiting", observer[f].read, observer[f].rest)
  BY ArriveIs
<1>2. /\ observer'[f].at = "waiting" /\ observer'[f].read = observer[f].read
      /\ \A g \in Services \ {f} : observer'[g] = observer[g]
      /\ \A v \in Uploads \ {u} : upload'[v] = upload[v]
      /\ upload'[u] # Free /\ upload'[u].at = "rule" /\ upload'[u].service = f
      /\ upload'[u].bytes = observer[f].read /\ upload'[u].heard = TRUE
  <2>1. /\ observer'[f].at = "waiting" /\ observer'[f].read = observer[f].read
        /\ \A g \in Services \ {f} : observer'[g] = observer[g]
    BY <1>a DEF Observes
  <2>2. /\ \A v \in Uploads \ {u} : upload'[v] = upload[v]
        /\ upload'[u] # Free /\ upload'[u].at = "rule" /\ upload'[u].service = f
        /\ upload'[u].bytes = observer[f].read /\ upload'[u].heard = TRUE
    BY ArriveIs
  <2> QED
    BY <2>1, <2>2
<1>3. ASSUME NEW g \in Services \ {f} PROVE LedgerOf(g)'
  BY <1>1, <1>2, <1>3, LedgerKept DEF SameLedger, HeardBy
<1>4. \A v \in Uploads : ~HeardBy(v, f)
  BY <1>1 DEF LedgerOf, HeardOnce
<1>5. \A v \in Uploads : HeardBy(v, f)' <=> v = u
  BY <1>2, <1>4 DEF HeardBy
<1>6. HeardOnce(f)' /\ Unheard(f)'
  BY <1>1, <1>2, <1>5 DEF LedgerOf, HeardOnce, Unheard
<1>7. Counted(f)'
  BY <1>1, <1>2 DEF LedgerOf, Counted
<1>8. Due(f)' = Due(f)
  <2>1. ~Booked(f) /\ ~Booked(f)'
    BY <1>1, <1>2, <1>4, <1>5 DEF Booked
  <2> QED
    BY <1>1, <2>1, DueIs, DueNextIs
<1>9. LedgerOf(f)'
  BY <1>1, <1>6, <1>7, <1>8 DEF LedgerOf, AtMost, AtLeast
<1> QED
  BY <1>3, <1>9

LEMMA LedgerTimeOut ==
    ASSUME AccountTypeOK, \A g \in Services : LedgerOf(g), NEW f \in Services, NEW u \in Uploads, TimeOut(f, u)
    PROVE  \A g \in Services : LedgerOf(g)'
<1>1. /\ UNCHANGED <<count, booked, carried, missed>>
      /\ observer[f].at = "waiting" /\ HeardBy(u, f)
      /\ unheard'[f] = TRUE /\ \A g \in Services \ {f} : unheard'[g] = unheard[g]
  BY DEF TimeOut, flows, HeardBy, AccountTypeOK
<1>a. Observes(f, "ticking", 0, 0) /\ upload'[u] = Deaf(u)
  BY TimeOutIs
<1>b. upload[u] # Free /\ upload[u].service = f
  BY <1>1 DEF HeardBy
<1>2. /\ observer'[f].at = "ticking" /\ observer'[f].read = 0
      /\ \A g \in Services \ {f} : observer'[g] = observer[g]
      /\ \A v \in Uploads \ {u} : upload'[v] = upload[v]
      /\ upload'[u] # Free /\ upload'[u].at = upload[u].at /\ upload'[u].service = f
      /\ upload'[u].bytes = upload[u].bytes /\ upload'[u].heard = FALSE
  <2>1. /\ observer'[f].at = "ticking" /\ observer'[f].read = 0
        /\ \A g \in Services \ {f} : observer'[g] = observer[g]
    BY <1>a DEF Observes
  <2>2. /\ upload'[u] = Deaf(u)
        /\ \A v \in Uploads \ {u} : upload'[v] = upload[v]
    BY TimeOutIs
  <2>3. /\ Deaf(u) # Free /\ Deaf(u).at = upload[u].at /\ Deaf(u).service = upload[u].service
        /\ Deaf(u).bytes = upload[u].bytes /\ Deaf(u).heard = FALSE
    BY <1>b, DeafIs
  <2> QED
    BY <1>b, <2>1, <2>2, <2>3
<1>3. ASSUME NEW g \in Services \ {f} PROVE LedgerOf(g)'
  BY <1>1, <1>2, <1>3, LedgerKept DEF SameLedger, HeardBy
<1>4. \A v \in Uploads : ~HeardBy(v, f)'
  BY <1>1, <1>2 DEF LedgerOf, HeardOnce, HeardBy
<1>5. HeardOnce(f)' /\ Unheard(f)' /\ Counted(f)' /\ AtMost(f)'
  BY <1>1, <1>2, <1>4 DEF HeardOnce, Unheard, Counted, AtMost
<1>6. Due(f)' \in Int /\ Due(f) <= Due(f)'
  <2>1. ~Booked(f)'
    BY <1>2, <1>4 DEF Booked
  <2> QED
    BY <1>1, <2>1, DueIs, DueNextIs, Typed
<1>7. Weighed(Due(f)) <= Weighed(Due(f)')
  <2> DEFINE d == Due(f)'
  <2>1. d \in Int /\ Due(f) <= d
    BY <1>6
  <2> HIDE DEF d
  <2>2. Weighed(Due(f)) <= Weighed(d)
    BY <2>1, More, Typed
  <2> QED
    BY <2>2 DEF d
<1>8. AtLeast(f)'
  <2> DEFINE d == Due(f)'
  <2>1. /\ d \in Int /\ Weighed(Due(f)) <= Weighed(d)
        /\ ~missed'[f] => booked'[f] + Weighed(Due(f)) >= Weighed(carried'[f])
    BY <1>1, <1>6, <1>7 DEF LedgerOf, AtLeast
  <2> HIDE DEF d
  <2>2. ~missed'[f] => booked'[f] + Weighed(d) >= Weighed(carried'[f])
    <3>1. Weighed(Due(f)) \in Int /\ Weighed(d) \in Int /\ Weighed(carried[f]) \in Int
      BY <2>1, WeighedIs, Typed
    <3> QED
      BY <1>1, <2>1, <3>1, Typed
  <2> QED
    BY <2>2 DEF AtLeast, d
<1>9. LedgerOf(f)'
  BY <1>5, <1>8 DEF LedgerOf
<1> QED
  BY <1>3, <1>9

LEMMA LedgerHeard ==
    ASSUME AccountTypeOK, \A g \in Services : LedgerOf(g), NEW f \in Services, NEW u \in Uploads, Heard(f, u)
    PROVE  \A g \in Services : LedgerOf(g)'
<1>1. /\ UNCHANGED <<count, booked, carried, unheard, missed>>
      /\ observer[f].at = "waiting" /\ HeardBy(u, f) /\ upload[u].at = "answer"
  BY DEF Heard, flows, HeardBy
<1>2. /\ observer'[f].at = "resetting" /\ observer'[f].read = observer[f].read
      /\ observer'[f].rest = count[f] - observer[f].read
      /\ \A g \in Services \ {f} : observer'[g] = observer[g]
      /\ \A v \in Uploads \ {u} : upload'[v] = upload[v]
      /\ upload'[u] = Free
  BY HeardIs DEF Observes, LedgerOf
<1>3. ASSUME NEW g \in Services \ {f} PROVE LedgerOf(g)'
  BY <1>1, <1>2, <1>3, LedgerKept DEF SameLedger, HeardBy
<1>4. \A v \in Uploads : ~HeardBy(v, f)'
  BY <1>1, <1>2 DEF LedgerOf, HeardOnce, HeardBy
<1>5. HeardOnce(f)' /\ Unheard(f)'
  BY <1>1, <1>2, <1>4 DEF LedgerOf, HeardOnce, Unheard
<1>6. Counted(f)'
  BY <1>1, <1>2, Typed DEF Counted
<1>7. Due(f)' = Due(f)
  <2>1. Booked(f) /\ Booked(f)'
    BY <1>1, <1>2 DEF Booked
  <2> QED
    BY <1>1, <1>2, <2>1, DueIs, DueNextIs
<1>8. LedgerOf(f)'
  BY <1>1, <1>5, <1>6, <1>7 DEF LedgerOf, AtMost, AtLeast
<1> QED
  BY <1>3, <1>8

LEMMA LedgerReset ==
    ASSUME AccountTypeOK, \A g \in Services : LedgerOf(g), NEW f \in Services, ResetTraffic(f)
    PROVE  \A g \in Services : LedgerOf(g)'
<1>1. /\ UNCHANGED <<upload, booked, carried, unheard, missed>>
      /\ observer[f].at = "resetting"
      /\ count'[f] = observer[f].rest
      /\ \A g \in Services \ {f} : count'[g] = count[g]
  BY DEF ResetTraffic, flows, AccountTypeOK
<1>2. Observes(f, "ticking", 0, 0)
  BY TicksIs DEF ResetTraffic
<1>3. /\ observer'[f].at = "ticking" /\ observer'[f].read = 0
      /\ \A g \in Services \ {f} : observer'[g] = observer[g]
  BY <1>2 DEF Observes
<1>4. ASSUME NEW g \in Services \ {f} PROVE LedgerOf(g)'
  BY <1>1, <1>3, <1>4, LedgerKept DEF SameLedger, HeardBy
<1>5. \A v \in Uploads : ~HeardBy(v, f) /\ ~HeardBy(v, f)'
  BY <1>1 DEF LedgerOf, HeardOnce, HeardBy
<1>6. HeardOnce(f)' /\ Unheard(f)' /\ Counted(f)'
  BY <1>1, <1>3, <1>5 DEF LedgerOf, HeardOnce, Unheard, Counted
<1> DEFINE d == Due(f)'
<1>7. /\ d \in Int /\ d <= Due(f)
      /\ ~missed[f] => d = Due(f)
  <2>1. Booked(f) /\ ~Booked(f)'
    BY <1>1, <1>3, <1>5 DEF Booked
  <2>2. Due(f) = count[f] - observer[f].read /\ Due(f)' = observer[f].rest
    BY <1>1, <2>1, DueIs, DueNextIs, Typed
  <2>3. /\ observer[f].rest <= count[f] - observer[f].read
        /\ ~missed[f] => observer[f].rest = count[f] - observer[f].read
    BY <1>1 DEF LedgerOf, Counted
  <2> QED
    BY <2>2, <2>3, Typed
<1>8. booked'[f] = booked[f] /\ carried'[f] = carried[f] /\ unheard'[f] = unheard[f]
      /\ missed'[f] = missed[f]
  BY <1>1
<1>9. AtMost(f)' <=> (~unheard'[f] => booked'[f] + Weighed(d) <= Weighed(carried'[f]))
  BY DEF AtMost
<1>10. AtLeast(f)' <=> (~missed'[f] => booked'[f] + Weighed(d) >= Weighed(carried'[f]))
  BY DEF AtLeast
<1> HIDE DEF d
<1>11. /\ Weighed(d) <= Weighed(Due(f))
       /\ Weighed(Due(f)) \in Int /\ Weighed(d) \in Int /\ Weighed(carried[f]) \in Int
  BY <1>7, More, WeighedIs, Typed
<1>12. AtMost(f)'
  BY <1>8, <1>9, <1>11, Typed DEF LedgerOf, AtMost
<1>13. AtLeast(f)'
  BY <1>7, <1>8, <1>10 DEF LedgerOf, AtLeast
<1>14. LedgerOf(f)'
  BY <1>6, <1>12, <1>13 DEF LedgerOf
<1> QED
  BY <1>4, <1>14

LEMMA LedgerDrained ==
    ASSUME AccountTypeOK, \A g \in Services : LedgerOf(g), NEW f \in Services, Drained(f)
    PROVE  \A g \in Services : LedgerOf(g)'
<1>1. /\ UNCHANGED <<booked, carried>>
      /\ count'[f] = 0 /\ \A g \in Services \ {f} : count'[g] = count[g]
      /\ missed'[f] <=> missed[f] \/ count[f] > 0
      /\ unheard'[f] <=> unheard[f] \/ observer[f].at = "waiting"
      /\ \A g \in Services \ {f} : missed'[g] = missed[g] /\ unheard'[g] = unheard[g]
  BY DEF Drained, flows, AccountTypeOK
<1>2. /\ observer'[f].at = "ticking" /\ observer'[f].read = 0
      /\ \A g \in Services \ {f} : observer'[g] = observer[g]
  BY DrainedIs DEF Observes
<1>3. \A u \in Uploads :
        /\ ~(upload[u] # Free /\ upload[u].service = f) => upload'[u] = upload[u]
        /\ upload[u] # Free /\ upload[u].service = f =>
             upload'[u] # Free /\ upload'[u].service = f /\ upload'[u].heard = FALSE
  BY ZenonT(60), DrainedIs, DeafIs
<1>4. ASSUME NEW g \in Services \ {f} PROVE LedgerOf(g)'
  BY <1>1, <1>2, <1>3, <1>4, LedgerKept DEF SameLedger, HeardBy
<1>5. \A u \in Uploads : ~HeardBy(u, f)'
  BY <1>3 DEF HeardBy
<1>6. Unheard(f)'
  <2>1. ASSUME NEW u \in Uploads, upload[u] # Free /\ upload[u].service = f PROVE unheard'[f]
    BY <1>1, <2>1 DEF LedgerOf, HeardOnce, Unheard, HeardBy
  <2> QED
    BY <1>3, <2>1 DEF Unheard
<1>7. HeardOnce(f)' /\ Counted(f)'
  BY <1>2, <1>5 DEF HeardOnce, Counted
<1> DEFINE d == Due(f)'
<1>8. d = 0
  <2>1. ~Booked(f)'
    BY <1>2, <1>5 DEF Booked
  <2> QED
    BY <1>1, <2>1, DueNextIs
<1>9. AtMost(f)' <=> (~unheard'[f] => booked'[f] + Weighed(d) <= Weighed(carried'[f]))
  BY DEF AtMost
<1>10. AtLeast(f)' <=> (~missed'[f] => booked'[f] + Weighed(d) >= Weighed(carried'[f]))
  BY DEF AtLeast
<1> HIDE DEF d
<1>11. ~unheard'[f] => Weighed(d) <= Weighed(Due(f))
  <2> SUFFICES ASSUME ~unheard'[f] PROVE Weighed(d) <= Weighed(Due(f))
    OBVIOUS
  <2>1. Due(f) >= 0
    <3>1. observer[f].at # "waiting" /\ \A u \in Uploads : ~HeardBy(u, f)
      BY <1>1 DEF LedgerOf, HeardOnce
    <3>2. CASE observer[f].at = "resetting"
      <4>1. observer[f].rest <= count[f] - observer[f].read
        BY <3>2 DEF LedgerOf, Counted
      <4> QED
        BY <3>2, <4>1, DueIs, Typed DEF Booked
    <3>3. CASE observer[f].at # "resetting"
      BY <3>1, <3>3, DueIs, Typed DEF Booked
    <3> QED
      BY <3>2, <3>3
  <2> QED
    BY <1>8, <2>1, More, Typed
<1>12. ~missed'[f] => Weighed(Due(f)) <= Weighed(d)
  <2> SUFFICES ASSUME ~missed'[f] PROVE Weighed(Due(f)) <= Weighed(d)
    OBVIOUS
  <2>1. count[f] = 0
    BY <1>1, Typed
  <2>2. Due(f) <= 0
    BY <2>1, DueIs, Typed
  <2> QED
    BY <1>8, <2>2, More, Typed
<1>13. Weighed(Due(f)) \in Int /\ Weighed(d) \in Int /\ Weighed(carried[f]) \in Int
  BY <1>8, WeighedIs, Typed
<1>14. AtMost(f)'
  BY <1>1, <1>9, <1>11, <1>13, Typed DEF LedgerOf, AtMost
<1>15. AtLeast(f)'
  BY <1>1, <1>10, <1>12, <1>13, Typed DEF LedgerOf, AtLeast
<1>16. LedgerOf(f)'
  BY <1>6, <1>7, <1>14, <1>15 DEF LedgerOf
<1> QED
  BY <1>4, <1>16

LEMMA LedgerBookRule ==
    ASSUME AccountTypeOK, \A g \in Services : LedgerOf(g), NEW u \in Uploads, BookRule(u),
           NEW f \in Services, upload[u].service = f
    PROVE  \A g \in Services : LedgerOf(g)'
<1>1. upload[u] # Free /\ upload[u].at = "rule"
  BY ReportIs DEF BookRule
<1>2. f \in Services /\ upload[u].bytes \in Nat /\ upload[u].heard \in BOOLEAN
  BY <1>1, ReportIs
<1>3. Moves(u, "user", upload[u].next, upload[u].todo, upload[u].stale)
  BY <1>1, StepIs DEF BookRule
<1>4. /\ upload'[u] # Free /\ upload'[u].at = "user" /\ upload'[u].service = f
      /\ upload'[u].bytes = upload[u].bytes /\ upload'[u].heard = upload[u].heard
  BY <1>3, MovesTo
<1>5. \A v \in Uploads \ {u} : upload'[v] = upload[v]
  BY <1>3 DEF Moves
<1>6. UNCHANGED <<count, observer, carried, unheard, missed>>
  BY DEF BookRule, nodeSide
<1>7. booked'[f] = booked[f] + Weighed(upload[u].bytes) /\ Weighed(upload[u].bytes) \in Nat
  BY <1>1, <1>2, CostIs DEF BookRule, AccountTypeOK
<1>8. \A g \in Services \ {f} : booked'[g] = booked[g]
  BY DEF BookRule, AccountTypeOK
<1>9. upload[u].service = f
  OBVIOUS
<1>10. ASSUME NEW g \in Services \ {f} PROVE LedgerOf(g)'
  BY <1>4, <1>5, <1>6, <1>8, <1>9, <1>10, LedgerKept DEF SameLedger, HeardBy
<1>11. HeardOnce(f)' /\ Unheard(f)' /\ Counted(f)'
  BY <1>1, <1>2, <1>4, <1>5, <1>6, <1>9 DEF LedgerOf, HeardOnce, Unheard, Counted, HeardBy
<1> DEFINE d == Due(f)'
<1>12. AtMost(f)' <=> (~unheard'[f] => booked'[f] + Weighed(d) <= Weighed(carried'[f]))
  BY DEF AtMost
<1>13. AtLeast(f)' <=> (~missed'[f] => booked'[f] + Weighed(d) >= Weighed(carried'[f]))
  BY DEF AtLeast
<1>14. CASE upload[u].heard
  <2> DEFINE b == upload[u].bytes
  <2>1. HeardBy(u, f) /\ HeardBy(u, f)'
    BY <1>1, <1>4, <1>9, <1>14 DEF HeardBy
  <2>2. observer[f].at = "waiting" /\ b = observer[f].read
    BY <1>2, <2>1 DEF LedgerOf, HeardOnce
  <2>3. ~Booked(f)
    <3>1. \A v \in Uploads : HeardBy(v, f) => v = u
      BY <1>2, <2>1 DEF LedgerOf, HeardOnce
    <3> QED
      BY <1>1, <2>2, <3>1 DEF Booked
  <2>4. Booked(f)'
    BY <1>4, <2>1 DEF Booked
  <2>5. Due(f) = d + b /\ d \in Int /\ b \in Int
    BY <1>2, <1>6, <2>2, <2>3, <2>4, DueIs, DueNextIs, Typed
  <2> HIDE DEF d, b
  <2>6. Weighed(Due(f)) = Weighed(d) + Weighed(b)
    BY <2>5, Plus
  <2>7. Weighed(d) \in Int /\ Weighed(b) \in Int /\ booked'[f] = booked[f] + Weighed(b)
    BY <1>7, <2>5, WeighedIs DEF b
  <2>8. booked'[f] + Weighed(d) = booked[f] + Weighed(Due(f))
    BY <1>2, <2>6, <2>7, Typed
  <2>9. AtMost(f)' /\ AtLeast(f)'
    BY <1>2, <1>6, <1>12, <1>13, <2>8 DEF LedgerOf, AtMost, AtLeast
  <2> QED
    BY <1>2, <1>10, <1>11, <2>9 DEF LedgerOf
<1>15. CASE ~upload[u].heard
  <2>1. unheard[f]
    BY <1>1, <1>2, <1>9, <1>15 DEF LedgerOf, Unheard
  <2>2. Booked(f)' <=> Booked(f)
    BY <1>1, <1>4, <1>5, <1>6, <1>15 DEF Booked, HeardBy
  <2>3. d = Due(f)
    BY <1>2, <1>6, <2>2, DueIs, DueNextIs
  <2> HIDE DEF d
  <2>4. AtMost(f)'
    BY <1>6, <1>12, <2>1
  <2>5. AtLeast(f)'
    <3>1. Weighed(d) \in Int /\ Weighed(carried[f]) \in Int
      BY <1>2, <2>3, WeighedIs, Typed
    <3>2. ~missed[f] => booked[f] + Weighed(d) >= Weighed(carried[f])
      BY <1>2, <2>3 DEF LedgerOf, AtLeast
    <3> QED
      BY <1>2, <1>6, <1>7, <1>13, <3>1, <3>2, Typed
  <2> QED
    BY <1>2, <1>10, <1>11, <2>4, <2>5 DEF LedgerOf
<1> QED
  BY <1>2, <1>14, <1>15

LEMMA LedgerStep ==
    ASSUME AccountTypeOK, \A s \in Services : LedgerOf(s), [AccountNext]_accountVars
    PROVE  \A s \in Services : LedgerOf(s)'
<1>1. CASE NodeNext
  BY <1>1, LedgerCarry, LedgerTick, LedgerReset, LedgerDrained, LedgerArrive,
     LedgerTimeOut, LedgerHeard DEF NodeNext
<1>2. CASE ReportNext
  <2>1. \A u \in Uploads : BookRule(u) => upload[u].service \in Services
    BY ReportIs DEF BookRule
  <2> QED
    BY <1>2, <2>1, LedgerBookRule, LedgerPanel, LedgerSame DEF ReportNext
<1>3. CASE QuotaNext \/ PauseNext \/ RequestNext \/ UNCHANGED accountVars
  BY <1>3, LedgerSame
<1> QED
  BY <1>1, <1>2, <1>3 DEF AccountNext

\* What a report adds to the row of its forward it adds to what is booked of its
\* service, and nothing else adds to either.
LEMMA RowStep ==
    ASSUME AccountTypeOK, BookedRow, [AccountNext]_accountVars
    PROVE  BookedRow'
<1>1. CASE UNCHANGED <<ruleFlow, booked>>
  BY <1>1 DEF BookedRow
<1>2. ASSUME NEW u \in Uploads, BookRule(u) PROVE BookedRow'
  <2>1. upload[u] # Free
    BY <1>2, ReportIs DEF BookRule
  <2> PICK s \in Services, f \in Rules, c \in Nat :
        s = upload[u].service /\ f = s[1] /\ f = RuleOf(u) /\ c = Cost(u)
    BY <2>1, ReportIs, RuleIs, CostIs
  <2>2. ruleFlow' = [ruleFlow EXCEPT ![f] = @ + c] /\ booked' = [booked EXCEPT ![s] = @ + c]
    BY <1>2 DEF BookRule
  <2>3. s = <<f, "entry">> \/ s = <<f, "exit">>
    BY ServiceIs DEF Sides
  <2>4. ASSUME NEW g \in Rules
        PROVE  ruleFlow'[g] = booked'[<<g, "entry">>] + booked'[<<g, "exit">>]
    <3> PICK i \in Services, o \in Services : i = <<g, "entry">> /\ o = <<g, "exit">>
      BY DEF Services, Sides
    <3>1. i # o /\ ruleFlow[g] = booked[i] + booked[o]
      BY DEF BookedRow
    <3>2. ruleFlow[g] \in Nat /\ booked[i] \in Nat /\ booked[o] \in Nat
      BY DEF AccountTypeOK
    <3>3. CASE g = f
      <4>1. ruleFlow'[g] = ruleFlow[g] + c
        BY <2>2, <3>3 DEF AccountTypeOK
      <4>2. \/ booked'[i] = booked[i] + c /\ booked'[o] = booked[o]
            \/ booked'[i] = booked[i] /\ booked'[o] = booked[o] + c
        BY <2>2, <2>3, <3>1, <3>3 DEF AccountTypeOK
      <4> QED
        BY <3>1, <3>2, <4>1, <4>2
    <3>4. CASE g # f
      <4>1. i # s /\ o # s
        BY <2>3, <3>4
      <4> QED
        BY <2>2, <3>1, <3>4, <4>1 DEF AccountTypeOK
    <3> QED
      BY <3>3, <3>4
  <2> QED
    BY <2>4 DEF BookedRow
<1>3. CASE NodeNext
  BY <1>1, <1>3 DEF NodeNext, Carry, Tick, SendFails, ResetTraffic, Drained, Arrive, TimeOut,
     Heard, flows
<1>4. CASE ReportNext
  <2>1. ASSUME NEW u \in Uploads,
               \/ BookUser(u) \/ BookPermit(u) \/ CheckUser(u) \/ CheckPermit(u)
               \/ PausesDone(u) \/ AnswerUnheard(u)
               \/ \E f \in Rules : \E ends \in Reached(f) : PauseOne(u, f, ends)
        PROVE  UNCHANGED <<ruleFlow, booked>>
    BY <2>1 DEF BookUser, BookPermit, CheckUser, CheckPermit, Checked, PausesDone,
       AnswerUnheard, PauseOne, flows
  <2> QED
    BY <1>1, <1>2, <1>4, <2>1 DEF ReportNext
<1>5. CASE QuotaNext \/ PauseNext \/ RequestNext \/ UNCHANGED accountVars
  BY <1>1, <1>5, QuotaKeeps, RequestsKeep DEF flows, accountVars
<1> QED
  BY <1>1, <1>2, <1>3, <1>4, <1>5 DEF AccountNext
-----------------------------------------------------------------------------
(* Limits.                                                                   *)

\* A report that will still see to it that f is paused, for the user's limit
\* or for the limit of its permission.
UserFollows(u, f) ==
    \/ upload[u].at \in {"permit", "checkUser"}
    \/ upload[u].at = "pausing" /\ f \in upload[u].todo

PermitFollows(u, f) ==
    \/ /\ \/ upload[u].at \in {"checkUser", "checkPermit"}
          \/ upload[u].at = "pausing" /\ upload[u].next = "checkPermit"
       /\ PermitOf[upload[u].service[1]] = PermitOf[f]
    \/ upload[u].at = "pausing" /\ f \in upload[u].todo

LEMMA FollowedIs ==
    Followed <=>
      \A f \in Rules : f \notin lifted /\ ruleStatus[f] # "paused" =>
          /\ UserOver => \E u \in Uploads : UserFollows(u, f)
          /\ PermitOver(PermitOf[f]) => \E u \in Uploads : PermitFollows(u, f)
BY DEF Followed, UserFollows, PermitFollows

LEMMA FollowedNextIs ==
    Followed' <=>
      \A f \in Rules : f \notin lifted' /\ ruleStatus'[f] # "paused" =>
          /\ UserOver' => \E u \in Uploads : UserFollows(u, f)'
          /\ PermitOver(PermitOf[f])' => \E u \in Uploads : PermitFollows(u, f)'
BY DEF Followed, UserFollows, PermitFollows

\* What is over and followed stays followed, by the same report or another;
\* what goes over is followed at once.
FollowsOn ==
    \A f \in Rules : f \notin lifted' /\ ruleStatus'[f] # "paused" =>
        /\ UserOver' =>
             \/ \E u \in Uploads : UserFollows(u, f)'
             \/ /\ UserOver /\ f \notin lifted /\ ruleStatus[f] # "paused"
                /\ \A u \in Uploads : UserFollows(u, f) => UserFollows(u, f)'
        /\ PermitOver(PermitOf[f])' =>
             \/ \E u \in Uploads : PermitFollows(u, f)'
             \/ /\ PermitOver(PermitOf[f]) /\ f \notin lifted /\ ruleStatus[f] # "paused"
                /\ \A u \in Uploads : PermitFollows(u, f) => PermitFollows(u, f)'

LEMMA FollowedStep == ASSUME Followed, FollowsOn PROVE Followed'
BY FollowedIs, FollowedNextIs DEF FollowsOn

LEMMA CausedStep ==
    ASSUME Caused,
           UserOver => UserOver', \A p \in Permits : PermitOver(p) => PermitOver(p)',
           userOff => userOff', permitsOff \subseteq permitsOff',
           \A f \in Rules : PermitOf[f] \in Permits,
           \A u \in Uploads : upload[u].at = "pausing" => upload[u].todo \subseteq Rules,
           \A u \in Uploads : upload'[u].at = "pausing" /\ ~upload'[u].stale =>
              /\ upload[u].at = "pausing" /\ ~upload[u].stale
              /\ upload'[u].todo \subseteq upload[u].todo
    PROVE  Caused'
BY DEF Caused

\* A step that leaves alone what is over, and the reports that look at it.
SameView(u) ==
    /\ upload[u].at \in {"permit", "checkUser", "checkPermit", "pausing"} =>
         /\ upload'[u].at = upload[u].at /\ upload'[u].service = upload[u].service
         /\ upload'[u].next = upload[u].next /\ upload'[u].todo = upload[u].todo
    /\ upload'[u].at = "pausing" =>
         upload[u].at = "pausing" /\ (~upload'[u].stale => ~upload[u].stale)

LEMMA PausingTodo ==
    ASSUME AccountTypeOK
    PROVE  /\ \A f \in Rules : PermitOf[f] \in Permits
           /\ \A u \in Uploads : upload[u].at = "pausing" => upload[u].todo \subseteq Rules
BY AccountAssumption, ReportIs

LEMMA LimitsKept ==
    ASSUME AccountTypeOK, Followed, Caused,
           UNCHANGED <<ruleStatus, userFlow, permitFlow, lifted, userOff, permitsOff>>,
           \A u \in Uploads : SameView(u)
    PROVE  Followed' /\ Caused'
<1>1. (UserOver' <=> UserOver) /\ \A p : PermitOver(p)' <=> PermitOver(p)
  BY DEF UserOver, PermitOver
<1>2. \A u \in Uploads, f \in Rules :
        /\ UserFollows(u, f) => UserFollows(u, f)'
        /\ PermitFollows(u, f) => PermitFollows(u, f)'
  BY DEF SameView, UserFollows, PermitFollows
<1>3. FollowsOn
  BY <1>1, <1>2 DEF FollowsOn
<1>4. \A u \in Uploads : upload'[u].at = "pausing" /\ ~upload'[u].stale =>
        /\ upload[u].at = "pausing" /\ ~upload[u].stale
        /\ upload'[u].todo \subseteq upload[u].todo
  BY DEF SameView
<1>5. Followed'
  BY <1>3, FollowedStep
<1>6. Caused'
  BY <1>1, <1>4, CausedStep, PausingTodo
<1> QED
  BY <1>5, <1>6

LEMMA LimitsNode ==
    ASSUME AccountTypeOK, \A s \in Services : Counted(s), Followed, Caused, NodeNext
    PROVE  Followed' /\ Caused'
<1>1. UNCHANGED <<ruleStatus, userFlow, permitFlow, lifted, userOff, permitsOff>>
  BY ZenonT(60) DEF NodeNext, Carry, Tick, SendFails, ResetTraffic, Drained, Arrive, TimeOut,
     Heard, flows, requestSide
<1>2. CASE \E s \in Services : Carry(s) \/ Tick(s) \/ SendFails(s) \/ ResetTraffic(s)
  <2>1. upload' = upload
    BY <1>2 DEF Carry, Tick, SendFails, ResetTraffic
  <2>2. \A u \in Uploads : SameView(u)
    BY <2>1 DEF SameView
  <2> QED
    BY <1>1, <2>2, LimitsKept
<1>3. ASSUME NEW s \in Services, NEW u \in Uploads, Arrive(s, u) PROVE Followed' /\ Caused'
  <2>1. upload[u].at = "free"
    BY <1>3 DEF Arrive, Free
  <2>2. upload'[u].at = "rule" /\ \A v \in Uploads \ {u} : upload'[v] = upload[v]
    BY <1>3, ArriveIs
  <2>3. \A v \in Uploads : SameView(v)
    BY <2>1, <2>2 DEF SameView
  <2> QED
    BY <1>1, <2>3, LimitsKept
<1>4. ASSUME NEW s \in Services, NEW u \in Uploads, TimeOut(s, u) PROVE Followed' /\ Caused'
  <2>1. upload[u] # Free
    BY <1>4 DEF TimeOut
  <2>2. upload'[u] = Deaf(u) /\ \A v \in Uploads \ {u} : upload'[v] = upload[v]
    BY <1>4, TimeOutIs
  <2>3. /\ upload'[u].at = upload[u].at /\ upload'[u].service = upload[u].service
        /\ upload'[u].next = upload[u].next /\ upload'[u].todo = upload[u].todo
        /\ upload'[u].stale = upload[u].stale
    BY <2>1, <2>2, DeafIs
  <2>4. \A v \in Uploads : SameView(v)
    BY <2>2, <2>3 DEF SameView
  <2> QED
    BY <1>1, <2>4, LimitsKept
<1>5. ASSUME NEW s \in Services, NEW u \in Uploads, Heard(s, u) PROVE Followed' /\ Caused'
  <2>1. upload[u].at = "answer"
    BY <1>5 DEF Heard
  <2>2. upload'[u] = Free /\ \A v \in Uploads \ {u} : upload'[v] = upload[v]
    BY <1>5, HeardIs
  <2>3. \A v \in Uploads : SameView(v)
    BY <2>1, <2>2 DEF SameView, Free
  <2> QED
    BY <1>1, <2>3, LimitsKept
<1>6. ASSUME NEW s \in Services, Drained(s) PROVE Followed' /\ Caused'
  <2>1. \A u \in Uploads :
          upload'[u] = IF upload[u] # Free /\ upload[u].service = s THEN Deaf(u) ELSE upload[u]
    BY <1>6, DrainedIs
  <2>2. \A v \in Uploads : SameView(v)
    <3> SUFFICES ASSUME NEW v \in Uploads PROVE SameView(v)
      OBVIOUS
    <3>1. CASE upload'[v] = upload[v]
      BY <3>1 DEF SameView
    <3>2. CASE upload[v] # Free /\ upload'[v] = Deaf(v)
      <4>1. /\ upload'[v].at = upload[v].at /\ upload'[v].service = upload[v].service
            /\ upload'[v].next = upload[v].next /\ upload'[v].todo = upload[v].todo
            /\ upload'[v].stale = upload[v].stale
        BY <3>2, DeafIs
      <4> QED
        BY <4>1 DEF SameView
    <3> QED
      BY <2>1, <3>1, <3>2
  <2> QED
    BY <1>1, <2>2, LimitsKept
<1> QED
  BY <1>2, <1>3, <1>4, <1>5, <1>6 DEF NodeNext

\* The first and the last step of a report.
LEMMA LimitsEnds ==
    ASSUME AccountTypeOK, Followed, Caused, NEW u \in Uploads, BookRule(u) \/ AnswerUnheard(u)
    PROVE  Followed' /\ Caused'
<1>1. UNCHANGED <<ruleStatus, userFlow, permitFlow, lifted, userOff, permitsOff>>
  BY DEF BookRule, AnswerUnheard, flows, requestSide
<1>2. CASE BookRule(u)
  <2>1. upload[u].at = "rule" /\ upload[u] # Free
    BY <1>2, ReportIs DEF BookRule
  <2>2. Moves(u, "user", upload[u].next, upload[u].todo, upload[u].stale)
    BY <1>2, <2>1, StepIs DEF BookRule
  <2>3. upload'[u].at = "user" /\ \A v \in Uploads \ {u} : upload'[v] = upload[v]
    BY <2>2, MovesTo DEF Moves
  <2>4. \A v \in Uploads : SameView(v)
    BY <2>1, <2>3 DEF SameView
  <2> QED
    BY <1>1, <2>4, LimitsKept
<1>3. CASE AnswerUnheard(u)
  <2>1. upload[u].at = "answer" /\ upload' = [upload EXCEPT ![u] = Free]
    BY <1>3 DEF AnswerUnheard
  <2>2. upload'[u] = Free /\ \A v \in Uploads \ {u} : upload'[v] = upload[v]
    BY <2>1, ReportPutIs
  <2>3. \A v \in Uploads : SameView(v)
    BY <2>1, <2>2 DEF SameView, Free
  <2> QED
    BY <1>1, <2>3, LimitsKept
<1> QED
  BY <1>2, <1>3

\* Bytes only add to what is over.
LEMMA LimitsBookUser ==
    ASSUME AccountTypeOK, Followed, Caused, NEW u \in Uploads, BookUser(u)
    PROVE  Followed' /\ Caused'
<1>1. upload[u].at = "user" /\ upload[u] # Free
  BY ReportIs DEF BookUser
<1>2. Moves(u, "permit", upload[u].next, upload[u].todo, upload[u].stale)
  BY <1>1, StepIs DEF BookUser
<1>3. upload'[u].at = "permit" /\ \A v \in Uploads \ {u} : upload'[v] = upload[v]
  BY <1>2, MovesTo DEF Moves
<1>4. UNCHANGED <<ruleStatus, permitFlow, lifted, userOff, permitsOff>>
  BY DEF BookUser, requestSide
<1>5. UserOver => UserOver'
  <2>1. userFlow' = userFlow + Cost(u) /\ Cost(u) \in Nat /\ userFlow \in Nat
    BY <1>1, CostIs DEF BookUser, AccountTypeOK
  <2> QED
    BY <2>1, AccountAssumption DEF UserOver
<1>6. \A p : PermitOver(p)' <=> PermitOver(p)
  BY <1>4 DEF PermitOver
<1>7. FollowsOn
  <2>1. \A f \in Rules : UserFollows(u, f)'
    BY <1>3 DEF UserFollows
  <2>2. \A v \in Uploads, f \in Rules : PermitFollows(v, f) => PermitFollows(v, f)'
    BY <1>1, <1>3 DEF PermitFollows
  <2> QED
    BY <1>4, <1>6, <2>1, <2>2 DEF FollowsOn
<1>8. \A v \in Uploads : upload'[v].at = "pausing" /\ ~upload'[v].stale =>
        /\ upload[v].at = "pausing" /\ ~upload[v].stale
        /\ upload'[v].todo \subseteq upload[v].todo
  BY <1>3
<1>9. Caused'
  BY <1>4, <1>5, <1>6, <1>8, CausedStep, PausingTodo
<1> QED
  BY <1>7, <1>9, FollowedStep

LEMMA LimitsBookPermit ==
    ASSUME AccountTypeOK, Followed, Caused, NEW u \in Uploads, BookPermit(u)
    PROVE  Followed' /\ Caused'
<1>1. upload[u].at = "permit" /\ upload[u] # Free
  BY ReportIs DEF BookPermit
<1> PICK q \in Permits, c \in Nat :
      q = PermitOf[RuleOf(u)] /\ q = PermitOf[upload[u].service[1]] /\ c = Cost(u)
  BY <1>1, RuleIs, CostIs
<1>2. Moves(u, "checkUser", upload[u].next, upload[u].todo, upload[u].stale)
  BY <1>1, StepIs DEF BookPermit
<1>3. /\ upload'[u].at = "checkUser" /\ upload'[u].service = upload[u].service
      /\ \A v \in Uploads \ {u} : upload'[v] = upload[v]
  BY <1>2, MovesTo DEF Moves
<1>4. UNCHANGED <<ruleStatus, userFlow, lifted, userOff, permitsOff>>
  BY DEF BookPermit, requestSide
<1>a. permitFlow' = [permitFlow EXCEPT ![q] = @ + c] /\ permitFlow \in [Permits -> Nat]
  BY DEF BookPermit, AccountTypeOK
<1>5. \A p \in Permits : PermitOver(p) => PermitOver(p)'
  <2> TAKE p \in Permits
  <2>2. permitFlow[p] \in Nat /\ PermitLimit[p] \in Nat
    BY <1>a, AccountAssumption
  <2>3. permitFlow'[p] = permitFlow[p] \/ permitFlow'[p] = permitFlow[p] + c
    BY <1>a
  <2> QED
    BY <2>2, <2>3 DEF PermitOver
<1>6. \A p \in Permits \ {q} : PermitOver(p)' <=> PermitOver(p)
  BY <1>a DEF PermitOver
<1>7. UserOver' <=> UserOver
  BY <1>4 DEF UserOver
<1>8. FollowsOn
  <2>1. \A f \in Rules : PermitOf[f] = q => PermitFollows(u, f)'
    BY <1>3 DEF PermitFollows
  <2>2. \A v \in Uploads, f \in Rules : UserFollows(v, f) => UserFollows(v, f)'
    BY <1>1, <1>3 DEF UserFollows
  <2>3. \A v \in Uploads, f \in Rules : PermitFollows(v, f) => PermitFollows(v, f)'
    BY <1>1, <1>3 DEF PermitFollows
  <2>4. \A f \in Rules : PermitOf[f] \in Permits
    BY PausingTodo
  <2> QED
    BY <1>4, <1>6, <1>7, <2>1, <2>2, <2>3, <2>4 DEF FollowsOn
<1>9. \A v \in Uploads : upload'[v].at = "pausing" /\ ~upload'[v].stale =>
        /\ upload[v].at = "pausing" /\ ~upload[v].stale
        /\ upload'[v].todo \subseteq upload[v].todo
  BY <1>3
<1>10. Caused'
  BY <1>4, <1>5, <1>7, <1>9, CausedStep, PausingTodo
<1> QED
  BY <1>8, <1>10, FollowedStep

\* A check that finds something decides on every pause there is to make: those
\* it looks at are followed, and those it does not are followed as before.
LEMMA LimitsPauseThese ==
    ASSUME AccountTypeOK, Followed, Caused, NEW u \in Uploads,
           upload[u].at \in {"checkUser", "checkPermit"},
           NEW rules, OfRules(rules), NEW n \in {"checkPermit", "answer"}, PauseThese(u, rules, n),
           UNCHANGED <<ruleStatus, userFlow, permitFlow, userOff, permitsOff>>,
           \A f \in Rules \ rules :
             upload[u].at = "checkPermit" /\ PermitOf[upload[u].service[1]] # PermitOf[f],
           \A f \in rules :
             UserOver \/ PermitOver(PermitOf[f]) \/ userOff \/ PermitOf[f] \in permitsOff
    PROVE  Followed' /\ Caused'
<1>1. upload[u] # Free
  BY ReportIs
<1>2. (UserOver' <=> UserOver) /\ \A p : PermitOver(p)' <=> PermitOver(p)
  BY DEF UserOver, PermitOver
<1>3. Moves(u, "pausing", n, ToPause(rules), FALSE)
  BY <1>1, PauseTheseIs
<1>4. lifted' = lifted \ rules
  BY DEF PauseThese
<1>5. /\ upload'[u].at = "pausing" /\ upload'[u].todo = ToPause(rules)
      /\ \A v \in Uploads \ {u} : upload'[v] = upload[v]
  BY <1>3, MovesTo DEF Moves
<1>6. ASSUME NEW f \in rules, ruleStatus[f] # "paused"
      PROVE  UserFollows(u, f)' /\ PermitFollows(u, f)'
  BY <1>5, <1>6 DEF ToPause, UserFollows, PermitFollows
<1>7. ASSUME NEW f \in Rules \ rules, NEW v \in Uploads
      PROVE  /\ UserFollows(v, f) => UserFollows(v, f)'
             /\ PermitFollows(v, f) => PermitFollows(v, f)'
  <2>1. CASE v = u
    BY <2>1 DEF UserFollows, PermitFollows
  <2>2. CASE v # u
    BY <1>5, <2>2 DEF UserFollows, PermitFollows
  <2> QED
    BY <2>1, <2>2
<1>8. FollowsOn
  <2> SUFFICES ASSUME NEW f \in Rules, f \notin lifted', ruleStatus'[f] # "paused"
               PROVE  /\ UserOver' =>
                           \/ \E v \in Uploads : UserFollows(v, f)'
                           \/ /\ UserOver /\ f \notin lifted /\ ruleStatus[f] # "paused"
                              /\ \A v \in Uploads : UserFollows(v, f) => UserFollows(v, f)'
                      /\ PermitOver(PermitOf[f])' =>
                           \/ \E v \in Uploads : PermitFollows(v, f)'
                           \/ /\ PermitOver(PermitOf[f]) /\ f \notin lifted
                              /\ ruleStatus[f] # "paused"
                              /\ \A v \in Uploads : PermitFollows(v, f) => PermitFollows(v, f)'
    BY DEF FollowsOn
  <2>1. CASE f \in rules
    BY <1>6, <2>1
  <2>2. CASE f \notin rules
    BY <1>2, <1>4, <1>7, <2>2
  <2> QED
    BY <2>1, <2>2
<1>9. Caused'
  <2>1. ASSUME NEW f \in upload'[u].todo
        PROVE  UserOver' \/ PermitOver(PermitOf[f])' \/ userOff' \/ PermitOf[f] \in permitsOff'
    BY <1>2, <1>5, <2>1 DEF ToPause
  <2>2. ASSUME NEW v \in Uploads \ {u}, upload'[v].at = "pausing", ~upload'[v].stale,
               NEW f \in upload'[v].todo
        PROVE  UserOver' \/ PermitOver(PermitOf[f])' \/ userOff' \/ PermitOf[f] \in permitsOff'
    BY <1>2, <1>5, <2>2 DEF Caused
  <2> QED
    BY <2>1, <2>2 DEF Caused
<1> QED
  BY <1>8, <1>9, FollowedStep

\* A check that finds nothing goes on.
LEMMA LimitsNoPause ==
    ASSUME AccountTypeOK, Followed, Caused, NEW u \in Uploads, upload[u].at \in {"checkUser", "checkPermit"},
           NEW a \in {"checkPermit", "answer"}, NoPause(u, a),
           UNCHANGED <<ruleStatus, userFlow, permitFlow, userOff, permitsOff>>,
           upload[u].at = "checkUser" => a = "checkPermit" /\ ~UserOver,
           upload[u].at = "checkPermit" =>
             \A f \in Rules : PermitOf[upload[u].service[1]] = PermitOf[f] => ~PermitOver(PermitOf[f])
    PROVE  Followed' /\ Caused'
<1>1. upload[u] # Free
  BY ReportIs
<1>2. (UserOver' <=> UserOver) /\ \A p : PermitOver(p)' <=> PermitOver(p)
  BY DEF UserOver, PermitOver
<1>3. lifted' = lifted
  BY DEF NoPause
<1>4. Moves(u, a, upload[u].next, upload[u].todo, upload[u].stale)
  BY <1>1, NoPauseIs
<1>5. /\ upload'[u].at = a /\ upload'[u].service = upload[u].service
      /\ \A v \in Uploads \ {u} : upload'[v] = upload[v]
  BY <1>4, MovesTo DEF Moves
<1>6. ASSUME NEW f \in Rules, NEW v \in Uploads
      PROVE  /\ UserOver => (UserFollows(v, f) => UserFollows(v, f)')
             /\ PermitOver(PermitOf[f]) => (PermitFollows(v, f) => PermitFollows(v, f)')
  <2>1. CASE v = u
    BY <1>5, <2>1 DEF UserFollows, PermitFollows
  <2>2. CASE v # u
    BY <1>5, <2>2 DEF UserFollows, PermitFollows
  <2> QED
    BY <2>1, <2>2
<1>7. FollowsOn
  BY <1>2, <1>3, <1>6 DEF FollowsOn
<1>8. \A v \in Uploads : upload'[v].at = "pausing" /\ ~upload'[v].stale =>
        /\ upload[v].at = "pausing" /\ ~upload[v].stale
        /\ upload'[v].todo \subseteq upload[v].todo
  BY <1>5
<1>9. Caused'
  BY <1>2, <1>8, CausedStep, PausingTodo
<1> QED
  BY <1>7, <1>9, FollowedStep

LEMMA LimitsCheckUser ==
    ASSUME AccountTypeOK, Followed, Caused, NEW u \in Uploads, CheckUser(u)
    PROVE  Followed' /\ Caused'
<1>1. upload[u].at = "checkUser"
  BY DEF CheckUser
<1>2. UNCHANGED <<ruleStatus, userFlow, permitFlow, userOff, permitsOff>>
  BY DEF CheckUser, Checked, flows
<1>3. CASE UserOver \/ userOff
  <2>1. PauseThese(u, Rules, "checkPermit") /\ OfRules(Rules)
    BY <1>3 DEF CheckUser, OfRules
  <2> QED
    BY <1>1, <1>2, <1>3, <2>1, LimitsPauseThese
<1>4. CASE ~UserOver /\ ~userOff
  <2>1. NoPause(u, "checkPermit")
    BY <1>4 DEF CheckUser
  <2> QED
    BY <1>1, <1>2, <1>4, <2>1, LimitsNoPause
<1> QED
  BY <1>3, <1>4

LEMMA LimitsCheckPermit ==
    ASSUME AccountTypeOK, Followed, Caused, NEW u \in Uploads, CheckPermit(u)
    PROVE  Followed' /\ Caused'
<1>1. upload[u].at = "checkPermit" /\ upload[u] # Free
  BY ReportIs DEF CheckPermit
<1>2. UNCHANGED <<ruleStatus, userFlow, permitFlow, userOff, permitsOff>>
  BY DEF CheckPermit, Checked, flows
<1> PICK q \in Permits : q = PermitOf[RuleOf(u)] /\ q = PermitOf[upload[u].service[1]]
  BY <1>1, RuleIs
<1>3. CASE PermitOver(q) \/ q \in permitsOff
  <2> PICK rules : rules = {f \in Rules : PermitOf[f] = q}
    OBVIOUS
  <2>1. PauseThese(u, rules, "answer") /\ OfRules(rules)
    BY <1>3 DEF CheckPermit, OfRules
  <2>2. /\ \A f \in Rules \ rules : PermitOf[upload[u].service[1]] # PermitOf[f]
        /\ \A f \in rules : PermitOver(PermitOf[f]) \/ PermitOf[f] \in permitsOff
    BY <1>3
  <2> QED
    BY <1>1, <1>2, <2>1, <2>2, LimitsPauseThese
<1>4. CASE ~PermitOver(q) /\ q \notin permitsOff
  <2>1. NoPause(u, "answer")
    BY <1>4 DEF CheckPermit
  <2> QED
    BY <1>1, <1>2, <1>4, <2>1, LimitsNoPause
<1> QED
  BY <1>3, <1>4

\* One pause less to make, and one made.
LEMMA LimitsPauseOne ==
    ASSUME AccountTypeOK, Followed, Caused, NEW u \in Uploads, NEW f \in Rules,
           NEW ends, PauseOne(u, f, ends)
    PROVE  Followed' /\ Caused'
<1>1. upload[u].at = "pausing"
  BY DEF PauseOne
<1>2. Moves(u, "pausing", upload[u].next, upload[u].todo \ {f}, upload[u].stale)
  BY <1>1, PauseOneIs DEF PauseOne
<1>3. /\ upload'[u].at = "pausing" /\ upload'[u].service = upload[u].service
      /\ upload'[u].next = upload[u].next /\ upload'[u].todo = upload[u].todo \ {f}
      /\ upload'[u].stale = upload[u].stale
      /\ \A v \in Uploads \ {u} : upload'[v] = upload[v]
  BY <1>2, MovesTo DEF Moves
<1>4. UNCHANGED <<userFlow, permitFlow, lifted, userOff, permitsOff>>
  BY DEF PauseOne, flows
<1>5. (UserOver' <=> UserOver) /\ \A p : PermitOver(p)' <=> PermitOver(p)
  BY <1>4 DEF UserOver, PermitOver
<1>6. ruleStatus'[f] = "paused" /\ \A g \in Rules \ {f} : ruleStatus'[g] = ruleStatus[g]
  BY DEF PauseOne, AccountTypeOK
<1>7. \A v \in Uploads, g \in Rules \ {f} :
        /\ UserFollows(v, g) => UserFollows(v, g)'
        /\ PermitFollows(v, g) => PermitFollows(v, g)'
  BY <1>1, <1>3 DEF UserFollows, PermitFollows
<1>8. FollowsOn
  BY <1>4, <1>5, <1>6, <1>7 DEF FollowsOn
<1>9. \A v \in Uploads : upload'[v].at = "pausing" /\ ~upload'[v].stale =>
        /\ upload[v].at = "pausing" /\ ~upload[v].stale
        /\ upload'[v].todo \subseteq upload[v].todo
  BY <1>1, <1>3
<1>10. Caused'
  BY <1>4, <1>5, <1>9, CausedStep, PausingTodo
<1> QED
  BY <1>8, <1>10, FollowedStep

LEMMA LimitsPausesDone ==
    ASSUME AccountTypeOK, Followed, Caused, NEW u \in Uploads, PausesDone(u)
    PROVE  Followed' /\ Caused'
<1> DEFINE n == upload[u].next
<1>1. upload[u].at = "pausing" /\ upload[u].todo = {} /\ upload[u] # Free
  BY ReportIs DEF PausesDone
<1>2. n \in {"checkPermit", "answer"} /\ n = upload[u].next
  BY <1>1, ReportIs
<1>3. Step(u, n)
  BY DEF PausesDone
<1> HIDE DEF n
<1>4. Moves(u, n, upload[u].next, upload[u].todo, upload[u].stale)
  BY <1>1, <1>2, <1>3, StepIs
<1>5. /\ upload'[u].at = n /\ upload'[u].service = upload[u].service
      /\ \A v \in Uploads \ {u} : upload'[v] = upload[v]
  BY <1>2, <1>4, MovesTo DEF Moves
<1>6. UNCHANGED <<ruleStatus, userFlow, permitFlow, lifted, userOff, permitsOff>>
  BY DEF PausesDone, flows, requestSide
<1>7. (UserOver' <=> UserOver) /\ \A p : PermitOver(p)' <=> PermitOver(p)
  BY <1>6 DEF UserOver, PermitOver
<1>8. \A v \in Uploads, f \in Rules :
        /\ UserFollows(v, f) => UserFollows(v, f)'
        /\ PermitFollows(v, f) => PermitFollows(v, f)'
  <2> TAKE v \in Uploads, f \in Rules
  <2>1. CASE v = u
    BY <1>1, <1>2, <1>5, <2>1 DEF UserFollows, PermitFollows
  <2>2. CASE v # u
    BY <1>5, <2>2 DEF UserFollows, PermitFollows
  <2> QED
    BY <2>1, <2>2
<1>9. FollowsOn
  BY <1>6, <1>7, <1>8 DEF FollowsOn
<1>10. \A v \in Uploads : upload'[v].at = "pausing" /\ ~upload'[v].stale =>
         /\ upload[v].at = "pausing" /\ ~upload[v].stale
         /\ upload'[v].todo \subseteq upload[v].todo
  BY <1>2, <1>5
<1>11. Caused'
  BY <1>6, <1>7, <1>10, CausedStep, PausingTodo
<1> QED
  BY <1>9, <1>11, FollowedStep

\* A reset takes away what is over, and marks the pauses under way, as does
\* what takes away another cause.
LEMMA LimitsQuota ==
    ASSUME AccountTypeOK, Followed, Caused, QuotaNext
    PROVE  Followed' /\ Caused'
<1>1. UNCHANGED <<ruleStatus, lifted>>
  BY QuotaKeeps
<1>2. ASSUME Stale
      PROVE  \A u \in Uploads :
               /\ upload'[u].at = upload[u].at
               /\ upload[u] # Free => /\ upload'[u].service = upload[u].service
                                      /\ upload'[u].next = upload[u].next
                                      /\ upload'[u].todo = upload[u].todo
               /\ upload'[u].at = "pausing" => upload'[u].stale = TRUE
  <2> TAKE u \in Uploads
  <2>1. CASE upload[u] = Free
    <3>1. upload'[u] = Free
      BY <1>2, <2>1, StaleIs
    <3> QED
      BY <2>1, <3>1 DEF Free
  <2>2. CASE upload[u] # Free
    BY <1>2, <2>2, StaleIs
  <2> QED
    BY <2>1, <2>2
<1>3. ASSUME NEW u \in Uploads, NEW f \in Rules
      PROVE  /\ UserFollows(u, f) => UserFollows(u, f)'
             /\ PermitFollows(u, f) => PermitFollows(u, f)'
  <2>1. CASE Stale
    BY <1>2, <2>1, ReportIs DEF UserFollows, PermitFollows
  <2>2. CASE upload' = upload
    BY <2>2 DEF UserFollows, PermitFollows
  <2> QED
    BY <2>1, <2>2, QuotaKeeps
<1>4. (UserOver' => UserOver) /\ \A p \in Permits : PermitOver(p)' => PermitOver(p)
  <2>1. CASE ResetUser
    BY <2>1, AccountAssumption DEF ResetUser, UserOver, PermitOver
  <2>2. ASSUME NEW q \in Permits, ResetPermit(q)
        PROVE  (UserOver' => UserOver) /\ \A p \in Permits : PermitOver(p)' => PermitOver(p)
    <3>1. userFlow' = userFlow /\ permitFlow' = [permitFlow EXCEPT ![q] = 0]
      BY <2>2 DEF ResetPermit
    <3>2. ASSUME NEW p \in Permits, PermitOver(p)' PROVE PermitOver(p)
      <4>1. PermitLimit[p] \in Nat /\ (permitFlow'[p] = permitFlow[p] \/ permitFlow'[p] = 0)
        BY <3>1, AccountAssumption DEF AccountTypeOK
      <4> QED
        BY <3>2, <4>1 DEF PermitOver
    <3> QED
      BY <3>1, <3>2 DEF UserOver
  <2>3. CASE SwitchUser \/ \E p \in Permits : SwitchPermit(p)
    BY <2>3 DEF SwitchUser, SwitchPermit, flows, UserOver, PermitOver
  <2> QED
    BY <2>1, <2>2, <2>3 DEF QuotaNext
<1>5. \A f \in Rules : PermitOf[f] \in Permits
  BY PausingTodo
<1>6. FollowsOn
  BY <1>1, <1>3, <1>4, <1>5 DEF FollowsOn
<1>7. Caused'
  <2>1. CASE Stale
    BY <1>2, <2>1 DEF Caused
  <2>2. CASE ~Stale
    <3>1. /\ UNCHANGED <<userFlow, permitFlow, upload>>
          /\ (userOff => userOff') /\ permitsOff \subseteq permitsOff'
      <4>1. ~ResetUser /\ \A p \in Permits : ~ResetPermit(p)
        BY <2>2 DEF ResetUser, ResetPermit
      <4>2. CASE SwitchUser
        BY <2>2, <4>2 DEF SwitchUser, flows
      <4>3. ASSUME NEW p \in Permits, SwitchPermit(p)
            PROVE  /\ UNCHANGED <<userFlow, permitFlow, upload>>
                   /\ (userOff => userOff') /\ permitsOff \subseteq permitsOff'
        BY <2>2, <4>3 DEF SwitchPermit, flows
      <4> QED
        BY <4>1, <4>2, <4>3 DEF QuotaNext
    <3>2. (UserOver' <=> UserOver) /\ \A p : PermitOver(p)' <=> PermitOver(p)
      BY <3>1 DEF UserOver, PermitOver
    <3>3. \A u \in Uploads : upload'[u].at = "pausing" /\ ~upload'[u].stale =>
            /\ upload[u].at = "pausing" /\ ~upload[u].stale
            /\ upload'[u].todo \subseteq upload[u].todo
      BY <3>1
    <3> QED
      BY <3>1, <3>2, <3>3, CausedStep, PausingTodo
  <2> QED
    BY <2>1, <2>2
<1> QED
  BY <1>6, <1>7, FollowedStep

\* What a request leaves of the rows: a forward is paused, or written back and
\* then, over a limit, one of those lifted.
LEMMA RequestsWrite ==
    ASSUME AccountTypeOK, PauseNext \/ RequestNext
    PROVE  \E f \in Rules :
             /\ \A g \in Rules \ {f} : ruleStatus'[g] = ruleStatus[g]
             /\ \/ UNCHANGED lifted /\ (ruleStatus'[f] = ruleStatus[f] \/ ruleStatus'[f] = "paused")
                \/ lifted' = lifted \cup {f}
                \/ UNCHANGED lifted /\ ~Over(f)
<1> DEFINE Writes(f) ==
      /\ \A g \in Rules \ {f} : ruleStatus'[g] = ruleStatus[g]
      /\ \/ UNCHANGED lifted /\ (ruleStatus'[f] = ruleStatus[f] \/ ruleStatus'[f] = "paused")
         \/ lifted' = lifted \cup {f}
         \/ UNCHANGED lifted /\ ~Over(f)
<1>1. ASSUME NEW f \in Rules, NEW ends, NEW written, PauseRule(f, ends, written) PROVE Writes(f)
  <2>1. ruleStatus' = [ruleStatus EXCEPT ![f] = "paused"] \/ ruleStatus' = ruleStatus
    BY <1>1 DEF PauseRule
  <2>2. UNCHANGED lifted
    BY <1>1 DEF PauseRule
  <2> QED
    BY <2>1, <2>2 DEF AccountTypeOK
<1>2. ASSUME NEW f \in Rules, NEW status, Written(f, status) PROVE Writes(f)
  BY <1>2 DEF Written, AccountTypeOK
<1>3. ASSUME NEW f \in Rules, UNCHANGED <<ruleStatus, lifted>> PROVE Writes(f)
  BY <1>3
<1>4. ASSUME NEW f \in Rules, NEW kind, Begin(f, kind) PROVE Writes(f)
  BY <1>3, <1>4 DEF Begin
<1>5. ASSUME NEW f \in Rules, NEW end, RebuildCloses(f, end) PROVE Writes(f)
  BY <1>3, <1>5 DEF RebuildCloses, requestSide
<1>6. ASSUME NEW f \in Rules, NEW ends, RequestRefused(f, ends) PROVE Writes(f)
  BY <1>2, <1>3, <1>6 DEF RequestRefused
<1> HIDE DEF Writes
<1>7. ASSUME PauseNext PROVE \E f \in Rules : Writes(f)
  BY <1>1, <1>7 DEF PauseNext
<1>8. ASSUME RequestNext PROVE \E f \in Rules : Writes(f)
  BY Zenon, <1>2, <1>4, <1>5, <1>6, <1>8
     DEF RequestNext, BeginResume, BeginEdit, BeginRecover, EndRequest, EndHot
<1>9. \E f \in Rules : Writes(f)
  BY <1>7, <1>8
<1> QED
  BY <1>9 DEF Writes

LEMMA LimitsRequests ==
    ASSUME AccountTypeOK, Followed, Caused, PauseNext \/ RequestNext
    PROVE  Followed' /\ Caused'
<1>1. UNCHANGED <<upload, userFlow, permitFlow, userOff, permitsOff>>
  BY RequestsKeep DEF flows
<1>2. (UserOver' <=> UserOver) /\ \A p : PermitOver(p)' <=> PermitOver(p)
  BY <1>1 DEF UserOver, PermitOver
<1>3. \A u \in Uploads, g \in Rules :
        /\ UserFollows(u, g) => UserFollows(u, g)'
        /\ PermitFollows(u, g) => PermitFollows(u, g)'
  BY <1>1 DEF UserFollows, PermitFollows
<1>4. FollowsOn
  <2> PICK f \in Rules :
        /\ \A g \in Rules \ {f} : ruleStatus'[g] = ruleStatus[g]
        /\ \/ UNCHANGED lifted /\ (ruleStatus'[f] = ruleStatus[f] \/ ruleStatus'[f] = "paused")
           \/ lifted' = lifted \cup {f}
           \/ UNCHANGED lifted /\ ~Over(f)
    BY RequestsWrite
  <2>1. ASSUME NEW g \in Rules, g \notin lifted', ruleStatus'[g] # "paused",
               UserOver' \/ PermitOver(PermitOf[g])'
        PROVE  g \notin lifted /\ ruleStatus[g] # "paused"
    <3>1. CASE g = f
      BY <1>2, <2>1, <3>1 DEF Over
    <3>2. CASE g # f
      BY <2>1, <3>2
    <3> QED
      BY <3>1, <3>2
  <2> QED
    BY <1>2, <1>3, <2>1 DEF FollowsOn
<1>5. Caused'
  BY <1>1, <1>2 DEF Caused
<1> QED
  BY <1>4, <1>5, FollowedStep

LEMMA LimitsStep ==
    ASSUME AccountTypeOK, \A s \in Services : Counted(s), Followed, Caused, [AccountNext]_accountVars
    PROVE  Followed' /\ Caused'
<1>1. CASE NodeNext
  BY <1>1, LimitsNode
<1>2. CASE ReportNext
  BY <1>2, LimitsEnds, LimitsBookUser, LimitsBookPermit, LimitsCheckUser, LimitsCheckPermit,
     LimitsPausesDone, LimitsPauseOne DEF ReportNext
<1>3. CASE QuotaNext
  BY <1>3, LimitsQuota
<1>4. CASE PauseNext \/ RequestNext
  BY <1>4, LimitsRequests
<1>5. CASE UNCHANGED accountVars
  <2>1. \A u \in Uploads : SameView(u)
    BY <1>5 DEF accountVars, SameView
  <2>2. UNCHANGED <<ruleStatus, userFlow, permitFlow, lifted, userOff, permitsOff>>
    BY <1>5 DEF accountVars, flows, requestSide
  <2> QED
    BY <2>1, <2>2, LimitsKept
<1> QED
  BY <1>1, <1>2, <1>3, <1>4, <1>5 DEF AccountNext
-----------------------------------------------------------------------------
(* The theorems.                                                             *)

LEMMA AccountInvInit == AccountInit => AccountIInv
<1> SUFFICES ASSUME AccountInit PROVE AccountIInv
  OBVIOUS
<1>1. AccountTypeOK
  BY TypeInit
<1>2. /\ \A u \in Uploads : upload[u] = Free
      /\ \A s \in Services : /\ observer[s].at = "ticking" /\ count[s] = 0
                             /\ booked[s] = 0 /\ carried[s] = 0
  BY TickingIs DEF AccountInit
<1>3. \A s \in Services : LedgerOf(s)
  <2> TAKE s \in Services
  <2>1. HeardOnce(s) /\ Unheard(s) /\ Counted(s)
    BY <1>2 DEF HeardOnce, Unheard, Counted, HeardBy
  <2>2. Due(s) = 0
    <3>1. ~Booked(s)
      BY <1>2 DEF Booked, HeardBy
    <3> QED
      BY <1>2, <3>1, DueIs
  <2>3. booked[s] + Weighed(Due(s)) = Weighed(carried[s]) /\ Weighed(0) \in Int
    BY <1>2, <2>2, WeighedIs
  <2>4. AtMost(s) /\ AtLeast(s)
    BY <1>2, <2>2, <2>3 DEF AtMost, AtLeast
  <2> QED
    BY <2>1, <2>4 DEF LedgerOf
<1>4. BookedRow
  BY DEF AccountInit, BookedRow, Services, Sides
<1>5. Followed
  <2>1. ~UserOver /\ \A p \in Permits : ~PermitOver(p)
    BY AccountAssumption DEF AccountInit, UserOver, PermitOver
  <2> QED
    BY <1>1, <2>1, PausingTodo DEF Followed
<1>6. Caused
  BY <1>2 DEF Caused, Free
<1> QED
  BY <1>1, <1>3, <1>4, <1>5, <1>6 DEF AccountIInv

LEMMA AccountInvStep == AccountIInv /\ [AccountNext]_accountVars => AccountIInv'
<1> SUFFICES ASSUME AccountIInv, [AccountNext]_accountVars PROVE AccountIInv'
  OBVIOUS
<1>1. /\ AccountTypeOK /\ \A s \in Services : LedgerOf(s) /\ Counted(s)
      /\ BookedRow /\ Followed /\ Caused
  BY DEF AccountIInv, LedgerOf
<1>2. AccountTypeOK'
  BY <1>1, AccountTypeStep
<1>3. (\A s \in Services : LedgerOf(s))'
  BY <1>1, LedgerStep
<1>4. BookedRow'
  BY <1>1, RowStep
<1>5. Followed' /\ Caused'
  BY <1>1, LimitsStep
<1> QED
  BY <1>2, <1>3, <1>4, <1>5 DEF AccountIInv

LEMMA AccountInvariant == AccountSpec => []AccountIInv
<1> QED
  BY AccountInvInit, AccountInvStep, PTL DEF AccountSpec

-----------------------------------------------------------------------------
(* Sums over finite sets.  The induction is over sets, never over operators. *)

\* A set of numbers with zero and every successor has them all: a least number
\* that is missing would have a predecessor.
LEMMA NatSetInduction ==
    ASSUME NEW N \in SUBSET Nat, 0 \in N, \A n \in N : n + 1 \in N
    PROVE  N = Nat
<1> SUFFICES ASSUME Nat \ N # {} PROVE FALSE
  OBVIOUS
<1> DEFINE Less == {ss \in Nat \X Nat : ss[1] < ss[2]}
<1>a. IsWellFoundedOn(Less, Nat)
  BY Zenon, NatLessThanWellFounded DEF OpToRel
<1>b. \A k, m \in Nat : k < m => <<k, m>> \in Less
  OBVIOUS
<1> HIDE DEF Less
<1>1. PICK m \in Nat \ N : \A k \in Nat \ N : <<k, m>> \notin Less
  BY <1>a, WFMin
<1>2. \A k \in Nat : k < m => k \in N
  BY <1>1, <1>b
<1>3. m - 1 \in N
  BY <1>2
<1> QED
  BY <1>3

\* A sum over a set takes one member after the other: Sums says that a function
\* gives every subset of S its sum.
Pick(s) == CHOOSE x \in s : TRUE
SumStep(h, f, s) == IF s = {} THEN 0 ELSE f[Pick(s)] + h[s \ {Pick(s)}]
Sums(h, f, S) == h = [s \in SUBSET S |-> SumStep(h, f, s)]

\* The fold of the community modules is the value of one such function.
LEMMA SumIsChosen ==
    ASSUME NEW f, NEW S
    PROVE  SumFunctionOnSet(f, S) = (CHOOSE h : Sums(h, f, S))[S]
BY DEF SumFunctionOnSet, FoldFunctionOnSet, MapThenFoldSet, Sums, SumStep, Pick

\* Over a finite set there is such a function: by the size of the subsets that
\* it is right on.
LEMMA SumsExist ==
    ASSUME NEW S, IsFiniteSet(S), NEW f, \A x \in S : f[x] \in Int
    PROVE  \E h \in [SUBSET S -> Int] : Sums(h, f, S)
<1> DEFINE Upto(n) == {h \in [SUBSET S -> Int] :
                         \A s \in SUBSET S : Cardinality(s) <= n => h[s] = SumStep(h, f, s)}
           N == {n \in Nat : Upto(n) # {}}
<1>1. \A s \in SUBSET S : s # {} =>
          /\ Pick(s) \in s /\ Pick(s) \in S /\ s \ {Pick(s)} \in SUBSET S
          /\ IsFiniteSet(s) /\ Cardinality(s) \in Nat
          /\ Cardinality(s \ {Pick(s)}) = Cardinality(s) - 1
  <2> SUFFICES ASSUME NEW s \in SUBSET S, s # {}
               PROVE  /\ Pick(s) \in s /\ Pick(s) \in S /\ s \ {Pick(s)} \in SUBSET S
                      /\ IsFiniteSet(s) /\ Cardinality(s) \in Nat
                      /\ Cardinality(s \ {Pick(s)}) = Cardinality(s) - 1
    OBVIOUS
  <2>1. Pick(s) \in s
    BY DEF Pick
  <2>2. IsFiniteSet(s)
    BY FS_Subset
  <2> QED
    BY <2>1, <2>2, FS_RemoveElement, FS_CardinalityType
<1>2. 0 \in N
  <2>1. [s \in SUBSET S |-> 0] \in Upto(0)
    <3>1. \A s \in SUBSET S : Cardinality(s) <= 0 => s = {}
      BY FS_Subset, FS_EmptySet, FS_CardinalityType
    <3> QED
      BY <3>1 DEF SumStep
  <2> QED
    BY <2>1
<1>3. ASSUME NEW n \in N PROVE n + 1 \in N
  <2>1. PICK h \in [SUBSET S -> Int] :
           \A s \in SUBSET S : Cardinality(s) <= n => h[s] = SumStep(h, f, s)
    BY <1>3
  <2> DEFINE g == [s \in SUBSET S |-> SumStep(h, f, s)]
  <2>2. g \in [SUBSET S -> Int]
    <3>1. ASSUME NEW s \in SUBSET S PROVE SumStep(h, f, s) \in Int
      <4>1. CASE s = {}
        BY <4>1 DEF SumStep
      <4>2. CASE s # {}
        <5>1. f[Pick(s)] \in Int /\ h[s \ {Pick(s)}] \in Int
          BY <1>1, <4>2
        <5> QED
          BY <4>2, <5>1 DEF SumStep
      <4> QED
        BY <4>1, <4>2
    <3> QED
      BY <3>1
  <2>3. \A s \in SUBSET S : Cardinality(s) <= n => g[s] = h[s]
    BY <2>1
  <2>4. ASSUME NEW s \in SUBSET S, Cardinality(s) <= n + 1 PROVE g[s] = SumStep(g, f, s)
    <3>1. CASE s = {}
      BY <3>1 DEF SumStep
    <3>2. CASE s # {}
      <4>1. Cardinality(s \ {Pick(s)}) <= n /\ s \ {Pick(s)} \in SUBSET S
        BY <1>1, <2>4, <3>2
      <4>2. g[s \ {Pick(s)}] = h[s \ {Pick(s)}]
        BY <4>1, <2>3
      <4> QED
        BY <3>2, <4>2 DEF SumStep
    <3> QED
      BY <3>1, <3>2
  <2> HIDE DEF g
  <2> QED
    BY <1>3, <2>2, <2>4
<1>4. N = Nat
  <2> HIDE DEF N
  <2> QED
    BY <1>2, <1>3, NatSetInduction DEF N
<1>5. Cardinality(S) \in Nat
  BY FS_CardinalityType
<1>6. PICK h \in [SUBSET S -> Int] :
         \A s \in SUBSET S : Cardinality(s) <= Cardinality(S) => h[s] = SumStep(h, f, s)
  BY <1>4, <1>5
<1>7. \A s \in SUBSET S : Cardinality(s) <= Cardinality(S)
  BY FS_Subset
<1>8. h = [s \in SUBSET S |-> SumStep(h, f, s)]
  BY <1>6, <1>7
<1> QED
  BY <1>8 DEF Sums

\* What holds of the empty set and of a set when it holds without the member
\* picked first holds of all subsets.
LEMMA SubsetInduction ==
    ASSUME NEW S, IsFiniteSet(S), NEW G \in SUBSET (SUBSET S), {} \in G,
           \A s \in SUBSET S : s # {} /\ s \ {Pick(s)} \in G => s \in G
    PROVE  G = SUBSET S
<1> DEFINE N == {n \in Nat : \A s \in SUBSET S : Cardinality(s) <= n => s \in G}
<1>1. \A s \in SUBSET S :
          /\ IsFiniteSet(s) /\ Cardinality(s) \in Nat /\ Cardinality(s) <= Cardinality(S)
          /\ Cardinality(s) = 0 => s = {}
  BY FS_Subset, FS_EmptySet, FS_CardinalityType
<1>2. ASSUME NEW s \in SUBSET S, s # {}
      PROVE  Cardinality(s \ {Pick(s)}) = Cardinality(s) - 1
  <2>1. Pick(s) \in s
    BY <1>2 DEF Pick
  <2> QED
    BY <2>1, <1>1, FS_RemoveElement
<1>3. 0 \in N
  <2>1. \A s \in SUBSET S : Cardinality(s) <= 0 => s = {}
    BY <1>1
  <2> QED
    BY <2>1
<1>4. ASSUME NEW n \in N PROVE n + 1 \in N
  <2> SUFFICES ASSUME NEW s \in SUBSET S, Cardinality(s) <= n + 1 PROVE s \in G
    BY <1>4
  <2>1. CASE s = {}
    BY <2>1
  <2>2. CASE s # {}
    <3>1. s \ {Pick(s)} \in SUBSET S /\ Cardinality(s \ {Pick(s)}) <= n
      BY <1>1, <1>2, <1>4, <2>2
    <3> QED
      BY <1>4, <2>2, <3>1
  <2> QED
    BY <2>1, <2>2
<1>5. N = Nat
  <2> HIDE DEF N
  <2> QED
    BY <1>3, <1>4, NatSetInduction DEF N
<1>6. Cardinality(S) \in N
  BY <1>1, <1>5
<1> QED
  BY <1>1, <1>6

\* All such functions agree, so that any of them gives the sum.
LEMMA SumIs ==
    ASSUME NEW S, IsFiniteSet(S), NEW f, \A x \in S : f[x] \in Int
    PROVE  \E h \in [SUBSET S -> Int] : Sums(h, f, S) /\ SumFunctionOnSet(f, S) = h[S]
<1> DEFINE g == CHOOSE h : Sums(h, f, S)
<1>1. PICK h \in [SUBSET S -> Int] : Sums(h, f, S)
  BY SumsExist
<1>2. Sums(g, f, S)
  BY <1>1
<1>3. SumFunctionOnSet(f, S) = g[S]
  BY SumIsChosen
<1> HIDE DEF g
<1> DEFINE G == {s \in SUBSET S : g[s] = h[s]}
<1>4. \A s \in SUBSET S : g[s] = SumStep(g, f, s) /\ h[s] = SumStep(h, f, s)
  BY <1>1, <1>2 DEF Sums
<1>5. {} \in G
  BY <1>4 DEF SumStep
<1>6. ASSUME NEW s \in SUBSET S, s # {}, s \ {Pick(s)} \in G PROVE s \in G
  BY <1>4, <1>6 DEF SumStep
<1>7. G = SUBSET S
  <2>1. G \in SUBSET (SUBSET S)
    OBVIOUS
  <2> HIDE DEF G
  <2> QED
    BY <1>5, <1>6, <2>1, SubsetInduction
<1>8. g[S] = h[S]
  BY <1>7
<1> QED
  BY <1>1, <1>3, <1>8

\* Nothing adds up to nothing.
LEMMA SumZero ==
    ASSUME NEW S, IsFiniteSet(S), NEW f, \A x \in S : f[x] \in Int, \A x \in S : f[x] = 0
    PROVE  SumFunctionOnSet(f, S) = 0
<1>1. PICK h \in [SUBSET S -> Int] : Sums(h, f, S) /\ SumFunctionOnSet(f, S) = h[S]
  BY SumIs
<1> DEFINE G == {s \in SUBSET S : h[s] = 0}
<1>2. \A s \in SUBSET S : h[s] = SumStep(h, f, s)
  BY <1>1 DEF Sums
<1>3. {} \in G
  BY <1>2 DEF SumStep
<1>4. ASSUME NEW s \in SUBSET S, s # {}, s \ {Pick(s)} \in G PROVE s \in G
  <2>1. Pick(s) \in S
    BY <1>4 DEF Pick
  <2> QED
    BY <1>2, <1>4, <2>1 DEF SumStep
<1>5. G = SUBSET S
  <2>1. G \in SUBSET (SUBSET S)
    OBVIOUS
  <2> HIDE DEF G
  <2> QED
    BY <1>3, <1>4, <2>1, SubsetInduction
<1> QED
  BY <1>1, <1>5

\* One summand that changes changes the sum by as much.
LEMMA SumPut ==
    ASSUME NEW S, IsFiniteSet(S), NEW f, \A x \in S : f[x] \in Int, NEW g, \A x \in S : g[x] \in Int,
           NEW a \in S, \A x \in S \ {a} : g[x] = f[x]
    PROVE  /\ SumFunctionOnSet(f, S) \in Int /\ SumFunctionOnSet(g, S) \in Int
           /\ SumFunctionOnSet(g, S) = SumFunctionOnSet(f, S) + (g[a] - f[a])
<1>1. PICK h \in [SUBSET S -> Int] : Sums(h, f, S) /\ SumFunctionOnSet(f, S) = h[S]
  BY SumIs
<1>2. PICK k \in [SUBSET S -> Int] : Sums(k, g, S) /\ SumFunctionOnSet(g, S) = k[S]
  BY SumIs
<1> DEFINE G == {s \in SUBSET S : k[s] = h[s] + IF a \in s THEN g[a] - f[a] ELSE 0}
<1>3. \A s \in SUBSET S : h[s] = SumStep(h, f, s) /\ k[s] = SumStep(k, g, s)
  BY <1>1, <1>2 DEF Sums
<1>4. {} \in G
  <2>1. h[{}] = 0 /\ k[{}] = 0
    BY <1>3 DEF SumStep
  <2> QED
    BY <2>1
<1>5. ASSUME NEW s \in SUBSET S, s # {}, s \ {Pick(s)} \in G PROVE s \in G
  <2> PICK x : x = Pick(s)
    OBVIOUS
  <2> PICK t \in SUBSET S : t = s \ {x}
    OBVIOUS
  <2>1. x \in s /\ x \in S
    BY <1>5 DEF Pick
  <2>2. h[s] = f[x] + h[t] /\ k[s] = g[x] + k[t]
    BY <1>3, <1>5 DEF SumStep
  <2>3. k[t] = h[t] + IF a \in t THEN g[a] - f[a] ELSE 0
    BY <1>5
  <2>4. h[t] \in Int /\ k[t] \in Int /\ f[x] \in Int /\ g[x] \in Int /\ f[a] \in Int /\ g[a] \in Int
    BY <2>1
  <2>5. CASE x = a
    <3>1. k[t] = h[t]
      BY <2>3, <2>4, <2>5
    <3> QED
      BY <2>1, <2>2, <2>4, <2>5, <3>1
  <2>6. CASE x # a
    <3>1. g[x] = f[x] /\ (a \in s <=> a \in t)
      BY <2>1, <2>6
    <3> QED
      BY <2>2, <2>3, <2>4, <3>1
  <2> QED
    BY <2>5, <2>6
<1>6. G = SUBSET S
  <2>1. G \in SUBSET (SUBSET S)
    OBVIOUS
  <2> HIDE DEF G
  <2> QED
    BY <1>4, <1>5, <2>1, SubsetInduction
<1>7. k[S] = h[S] + (g[a] - f[a])
  BY <1>6
<1> QED
  BY <1>1, <1>2, <1>7

\* Equal summands have one sum.
LEMMA SumSame ==
    ASSUME NEW S, IsFiniteSet(S), NEW f, \A x \in S : f[x] \in Int,
           NEW g, \A x \in S : g[x] = f[x]
    PROVE  SumFunctionOnSet(f, S) \in Int /\ SumFunctionOnSet(g, S) = SumFunctionOnSet(f, S)
<1>1. CASE S = {}
  BY <1>1, SumZero
<1>2. CASE S # {}
  <2>1. PICK a \in S : TRUE
    BY <1>2
  <2>2. /\ SumFunctionOnSet(f, S) \in Int /\ SumFunctionOnSet(g, S) \in Int
        /\ SumFunctionOnSet(g, S) = SumFunctionOnSet(f, S) + (g[a] - f[a])
    BY SumPut
  <2> QED
    BY <2>2
<1> QED
  BY <1>1, <1>2

-----------------------------------------------------------------------------
(* The rows of a report.                                                     *)

RulesOf(p) == {f \in Rules : PermitOf[f] = p}
\* What the reports have written in their forward's row and still owe to the row of
\* the user and to that of the permission.
OwedUser(ups) == [u \in Uploads |-> IF ups[u].at = "user" THEN ups[u].bytes * Weight ELSE 0]
OwedPermit(ups, p) ==
    [u \in Uploads |-> IF ups[u].at \in {"user", "permit"} /\ PermitOf[ups[u].service[1]] = p
                       THEN ups[u].bytes * Weight ELSE 0]

\* With what is still owed the rows agree at all times.
RowsFit(rf, uf, pf, ups) ==
    /\ uf + SumFunctionOnSet(OwedUser(ups), Uploads) = SumFunctionOnSet(rf, Rules)
    /\ \A p \in Permits :
         pf[p] + SumFunctionOnSet(OwedPermit(ups, p), Uploads) = SumFunctionOnSet(rf, RulesOf(p))
RowsInv == resets = 0 => RowsFit(ruleFlow, userFlow, permitFlow, upload)

\* The places where a report owes something, and two reports that owe the same.
Indebted == {"user", "permit"}
SameDebt(r, s) ==
    \/ r.at \notin Indebted /\ s.at \notin Indebted
    \/ s.at = r.at /\ s.service = r.service /\ s.bytes = r.bytes

\* What a report owes is a number.
LEMMA OwedAre ==
    ASSUME NEW a \in [Uploads -> Reports \cup {Free}], NEW u \in Uploads
    PROVE  /\ OwedUser(a)[u] \in Int
           /\ \A p \in Permits : OwedPermit(a, p)[u] \in Int
<1>1. CASE a[u].at \in Indebted
  <2>1. a[u] # Free
    BY <1>1 DEF Indebted, Free
  <2>2. a[u].bytes \in Nat /\ Weight \in Nat
    BY <2>1, AccountAssumption DEF Reports
  <2>3. a[u].bytes * Weight \in Int
    BY <2>2
  <2> QED
    BY <2>3 DEF OwedUser, OwedPermit
<1>2. CASE a[u].at \notin Indebted
  BY <1>2 DEF OwedUser, OwedPermit, Indebted
<1> QED
  BY <1>1, <1>2

\* A report in the same place of its work owes the same.
LEMMA OwedSame ==
    ASSUME NEW a, NEW b, NEW u \in Uploads, SameDebt(a[u], b[u])
    PROVE  /\ OwedUser(b)[u] = OwedUser(a)[u]
           /\ \A p \in Permits : OwedPermit(b, p)[u] = OwedPermit(a, p)[u]
<1>1. CASE a[u].at \notin Indebted /\ b[u].at \notin Indebted
  BY <1>1 DEF OwedUser, OwedPermit, Indebted
<1>2. CASE b[u].at = a[u].at /\ b[u].service = a[u].service /\ b[u].bytes = a[u].bytes
  BY <1>2 DEF OwedUser, OwedPermit
<1> QED
  BY <1>1, <1>2 DEF SameDebt

\* A step that books nothing owes what was owed before.
LEMMA RowsQuiet ==
    ASSUME RowsInv, UNCHANGED <<flows, resets>>,
           \A u \in Uploads : SameDebt(upload[u], upload'[u])
    PROVE  RowsInv'
<1> PICK a, b : a = upload /\ b = upload'
  OBVIOUS
<1>1. \A u \in Uploads : /\ OwedUser(b)[u] = OwedUser(a)[u]
                         /\ \A p \in Permits : OwedPermit(b, p)[u] = OwedPermit(a, p)[u]
  BY OwedSame
<1>2. OwedUser(b) = OwedUser(a)
  BY <1>1 DEF OwedUser
<1>3. \A p \in Permits : OwedPermit(b, p) = OwedPermit(a, p)
  BY <1>1 DEF OwedPermit
<1> PICK r, n, q : r = ruleFlow /\ n = userFlow /\ q = permitFlow
  OBVIOUS
<1>4. RowsFit(r, n, q, a) => RowsFit(r, n, q, b)
  BY <1>2, <1>3 DEF RowsFit
<1>5. resets' = resets /\ ruleFlow' = r /\ userFlow' = n /\ permitFlow' = q
  BY DEF flows
<1> QED
  BY <1>4, <1>5 DEF RowsInv

\* A report goes on with what one row was owed.
LEMMA OwedMoves ==
    ASSUME NEW a \in [Uploads -> Reports \cup {Free}], NEW b \in [Uploads -> Reports \cup {Free}],
           NEW u \in Uploads, NEW p \in Permits, \A v \in Uploads \ {u} : b[v] = a[v]
    PROVE  /\ SumFunctionOnSet(OwedUser(a), Uploads) \in Int
           /\ SumFunctionOnSet(OwedUser(b), Uploads) =
                SumFunctionOnSet(OwedUser(a), Uploads) + (OwedUser(b)[u] - OwedUser(a)[u])
           /\ SumFunctionOnSet(OwedPermit(a, p), Uploads) \in Int
           /\ SumFunctionOnSet(OwedPermit(b, p), Uploads) =
                SumFunctionOnSet(OwedPermit(a, p), Uploads)
                  + (OwedPermit(b, p)[u] - OwedPermit(a, p)[u])
<1>1. \A v \in Uploads : /\ OwedUser(a)[v] \in Int /\ OwedPermit(a, p)[v] \in Int
                         /\ OwedUser(b)[v] \in Int /\ OwedPermit(b, p)[v] \in Int
  BY OwedAre
<1>2. ASSUME NEW v \in Uploads \ {u}
      PROVE  OwedUser(b)[v] = OwedUser(a)[v] /\ OwedPermit(b, p)[v] = OwedPermit(a, p)[v]
  <2>1. SameDebt(a[v], b[v])
    BY DEF SameDebt
  <2> QED
    BY <2>1, OwedSame
<1>3. /\ SumFunctionOnSet(OwedUser(a), Uploads) \in Int
      /\ SumFunctionOnSet(OwedUser(b), Uploads) =
           SumFunctionOnSet(OwedUser(a), Uploads) + (OwedUser(b)[u] - OwedUser(a)[u])
  BY <1>1, <1>2, SumPut, AccountFinite
<1>4. /\ SumFunctionOnSet(OwedPermit(a, p), Uploads) \in Int
      /\ SumFunctionOnSet(OwedPermit(b, p), Uploads) =
           SumFunctionOnSet(OwedPermit(a, p), Uploads)
             + (OwedPermit(b, p)[u] - OwedPermit(a, p)[u])
  BY <1>1, <1>2, SumPut, AccountFinite
<1> QED
  BY <1>3, <1>4

\* The bytes of a rule's row count in the totals over the rows that have it.
LEMMA RowBooked ==
    ASSUME NEW r \in [Rules -> Nat], NEW s \in [Rules -> Nat], NEW f \in Rules,
           \A g \in Rules \ {f} : s[g] = r[g], NEW p \in Permits
    PROVE  /\ SumFunctionOnSet(s, Rules) = SumFunctionOnSet(r, Rules) + (s[f] - r[f])
           /\ PermitOf[f] = p =>
                SumFunctionOnSet(s, RulesOf(p)) = SumFunctionOnSet(r, RulesOf(p)) + (s[f] - r[f])
           /\ PermitOf[f] # p =>
                SumFunctionOnSet(s, RulesOf(p)) = SumFunctionOnSet(r, RulesOf(p))
           /\ SumFunctionOnSet(r, Rules) \in Int /\ SumFunctionOnSet(r, RulesOf(p)) \in Int
<1> PICK R \in SUBSET Rules : R = RulesOf(p)
  BY DEF RulesOf
<1>1. IsFiniteSet(Rules) /\ IsFiniteSet(R)
  BY AccountFinite, FS_Subset
<1>2. \A g \in Rules : r[g] \in Int /\ s[g] \in Int
  OBVIOUS
<1>3. /\ SumFunctionOnSet(s, Rules) = SumFunctionOnSet(r, Rules) + (s[f] - r[f])
      /\ SumFunctionOnSet(r, Rules) \in Int
  BY <1>1, <1>2, SumPut
<1>4. CASE PermitOf[f] = p
  <2>1. f \in R /\ \A g \in R \ {f} : s[g] = r[g]
    BY <1>4 DEF RulesOf
  <2>2. /\ SumFunctionOnSet(s, R) = SumFunctionOnSet(r, R) + (s[f] - r[f])
        /\ SumFunctionOnSet(r, R) \in Int
    BY <1>1, <1>2, <2>1, SumPut
  <2> QED
    BY <1>3, <1>4, <2>2
<1>5. CASE PermitOf[f] # p
  <2>1. \A g \in R : s[g] = r[g]
    BY <1>5 DEF RulesOf
  <2>2. SumFunctionOnSet(s, R) = SumFunctionOnSet(r, R) /\ SumFunctionOnSet(r, R) \in Int
    BY <1>1, <1>2, <2>1, SumSame
  <2> QED
    BY <1>3, <1>5, <2>2
<1> QED
  BY <1>4, <1>5

\* The bytes written in a rule's row are owed to the two others (flow.go:197-206).
LEMMA RowsBookRule ==
    ASSUME AccountTypeOK, AccountTypeOK', RowsInv, NEW u \in Uploads, BookRule(u)
    PROVE  RowsInv'
<1> PICK a \in [Uploads -> Reports \cup {Free}], b \in [Uploads -> Reports \cup {Free}],
         r \in [Rules -> Nat], s \in [Rules -> Nat] :
           a = upload /\ b = upload' /\ r = ruleFlow /\ s = ruleFlow'
  BY DEF AccountTypeOK
<1> PICK n \in Nat, q \in [Permits -> Nat] : n = userFlow /\ q = permitFlow
  BY DEF AccountTypeOK
<1>1. a[u].at = "rule" /\ upload[u] # Free
  BY ReportIs DEF BookRule
<1> PICK f \in Rules, c \in Nat :
      f = RuleOf(u) /\ f = a[u].service[1] /\ c = Cost(u) /\ c = a[u].bytes * Weight
  BY <1>1, RuleIs, CostIs DEF Cost
<1>2. Moves(u, "user", upload[u].next, upload[u].todo, upload[u].stale)
  BY <1>1, StepIs DEF BookRule
<1>3. /\ b[u].at = "user" /\ b[u].service = a[u].service /\ b[u].bytes = a[u].bytes
      /\ \A v \in Uploads \ {u} : b[v] = a[v]
  BY <1>2, MovesTo DEF Moves
<1>4. s[f] = r[f] + c /\ \A g \in Rules \ {f} : s[g] = r[g]
  BY DEF BookRule, Cost
<1>5. userFlow' = n /\ permitFlow' = q /\ resets' = resets
  BY DEF BookRule, requestSide
<1>6. OwedUser(a)[u] = 0 /\ OwedUser(b)[u] = c
  BY <1>1, <1>3 DEF OwedUser
<1>7. ASSUME NEW p \in Permits
      PROVE  OwedPermit(a, p)[u] = 0 /\ OwedPermit(b, p)[u] = IF PermitOf[f] = p THEN c ELSE 0
  BY <1>1, <1>3 DEF OwedPermit
<1>8. ASSUME RowsFit(r, n, q, a) PROVE RowsFit(s, n, q, b)
  <2>1. n + SumFunctionOnSet(OwedUser(b), Uploads) = SumFunctionOnSet(s, Rules)
    <3> PICK p \in Permits : p = PermitOf[f]
      BY AccountAssumption
    <3>1. /\ SumFunctionOnSet(OwedUser(a), Uploads) \in Int
          /\ SumFunctionOnSet(OwedUser(b), Uploads) = SumFunctionOnSet(OwedUser(a), Uploads) + c
      BY <1>3, <1>6, OwedMoves
    <3>2. /\ SumFunctionOnSet(r, Rules) \in Int
          /\ SumFunctionOnSet(s, Rules) = SumFunctionOnSet(r, Rules) + c
      <4>1. s[f] - r[f] = c
        BY <1>4
      <4>2. /\ SumFunctionOnSet(s, Rules) = SumFunctionOnSet(r, Rules) + (s[f] - r[f])
            /\ SumFunctionOnSet(r, Rules) \in Int
        BY <1>4, RowBooked
      <4> QED
        BY <4>1, <4>2
    <3>3. n + SumFunctionOnSet(OwedUser(a), Uploads) = SumFunctionOnSet(r, Rules)
      BY <1>8 DEF RowsFit
    <3> QED
      BY <3>1, <3>2, <3>3
  <2>2. ASSUME NEW p \in Permits
        PROVE  q[p] + SumFunctionOnSet(OwedPermit(b, p), Uploads) = SumFunctionOnSet(s, RulesOf(p))
    <3> PICK d \in Nat : d = IF PermitOf[f] = p THEN c ELSE 0
      OBVIOUS
    <3>1. /\ SumFunctionOnSet(OwedPermit(a, p), Uploads) \in Int
          /\ SumFunctionOnSet(OwedPermit(b, p), Uploads) = SumFunctionOnSet(OwedPermit(a, p), Uploads) + d
      BY <1>3, <1>7, OwedMoves
    <3>2. /\ SumFunctionOnSet(r, RulesOf(p)) \in Int
          /\ SumFunctionOnSet(s, RulesOf(p)) = SumFunctionOnSet(r, RulesOf(p)) + d
      <4>1. s[f] - r[f] = c
        BY <1>4
      <4>2. /\ PermitOf[f] = p =>
                 SumFunctionOnSet(s, RulesOf(p)) = SumFunctionOnSet(r, RulesOf(p)) + (s[f] - r[f])
            /\ PermitOf[f] # p =>
                 SumFunctionOnSet(s, RulesOf(p)) = SumFunctionOnSet(r, RulesOf(p))
            /\ SumFunctionOnSet(r, RulesOf(p)) \in Int
        BY <1>4, RowBooked
      <4> QED
        BY <4>1, <4>2
    <3>3. q[p] + SumFunctionOnSet(OwedPermit(a, p), Uploads) = SumFunctionOnSet(r, RulesOf(p))
      BY <1>8 DEF RowsFit
    <3> QED
      BY <3>1, <3>2, <3>3
  <2> QED
    BY <2>1, <2>2 DEF RowsFit
<1> QED
  BY <1>5, <1>8 DEF RowsInv

\* The user's row has got its part (flow.go:208-216).
LEMMA RowsBookUser ==
    ASSUME AccountTypeOK, AccountTypeOK', RowsInv, NEW u \in Uploads, BookUser(u)
    PROVE  RowsInv'
<1> PICK a \in [Uploads -> Reports \cup {Free}], b \in [Uploads -> Reports \cup {Free}],
         r \in [Rules -> Nat], n \in Nat, m \in Nat, q \in [Permits -> Nat] :
           /\ a = upload /\ b = upload' /\ r = ruleFlow
           /\ n = userFlow /\ m = userFlow' /\ q = permitFlow
  BY DEF AccountTypeOK
<1>1. a[u].at = "user" /\ upload[u] # Free
  BY ReportIs DEF BookUser
<1> PICK f \in Rules, c \in Nat :
      f = RuleOf(u) /\ f = a[u].service[1] /\ c = Cost(u) /\ c = a[u].bytes * Weight
  BY <1>1, RuleIs, CostIs DEF Cost
<1>2. Moves(u, "permit", upload[u].next, upload[u].todo, upload[u].stale)
  BY <1>1, StepIs DEF BookUser
<1>3. /\ b[u].at = "permit" /\ b[u].service = a[u].service /\ b[u].bytes = a[u].bytes
      /\ \A v \in Uploads \ {u} : b[v] = a[v]
  BY <1>2, MovesTo DEF Moves
<1>4. m = n + c /\ ruleFlow' = r /\ permitFlow' = q /\ resets' = resets
  BY DEF BookUser, requestSide
<1>5. OwedUser(a)[u] = c /\ OwedUser(b)[u] = 0
  BY <1>1, <1>3 DEF OwedUser
<1>6. \A p \in Permits : OwedPermit(b, p)[u] = OwedPermit(a, p)[u]
  BY <1>1, <1>3 DEF OwedPermit
<1>7. ASSUME RowsFit(r, n, q, a) PROVE RowsFit(r, m, q, b)
  <2>1. m + SumFunctionOnSet(OwedUser(b), Uploads) = SumFunctionOnSet(r, Rules)
    <3> PICK p \in Permits : p = PermitOf[f]
      BY AccountAssumption
    <3>1. /\ SumFunctionOnSet(OwedUser(a), Uploads) \in Int
          /\ SumFunctionOnSet(OwedUser(b), Uploads) = SumFunctionOnSet(OwedUser(a), Uploads) - c
      BY <1>3, <1>5, OwedMoves
    <3>2. n + SumFunctionOnSet(OwedUser(a), Uploads) = SumFunctionOnSet(r, Rules)
      BY <1>7 DEF RowsFit
    <3> QED
      BY <1>4, <3>1, <3>2
  <2>2. ASSUME NEW p \in Permits
        PROVE  q[p] + SumFunctionOnSet(OwedPermit(b, p), Uploads) = SumFunctionOnSet(r, RulesOf(p))
    <3> PICK d \in Int : d = OwedPermit(a, p)[u]
      BY OwedAre
    <3>1. /\ SumFunctionOnSet(OwedPermit(a, p), Uploads) \in Int
          /\ SumFunctionOnSet(OwedPermit(b, p), Uploads) =
               SumFunctionOnSet(OwedPermit(a, p), Uploads) + (d - d)
      BY <1>3, <1>6, OwedMoves
    <3>2. q[p] + SumFunctionOnSet(OwedPermit(a, p), Uploads) = SumFunctionOnSet(r, RulesOf(p))
      BY <1>7 DEF RowsFit
    <3> QED
      BY <3>1, <3>2
  <2> QED
    BY <2>1, <2>2 DEF RowsFit
<1> QED
  BY <1>4, <1>7 DEF RowsInv

\* The permission's row has got its part, and nothing is owed (flow.go:218-227).
LEMMA RowsBookPermit ==
    ASSUME AccountTypeOK, AccountTypeOK', RowsInv, NEW u \in Uploads, BookPermit(u)
    PROVE  RowsInv'
<1> PICK a \in [Uploads -> Reports \cup {Free}], b \in [Uploads -> Reports \cup {Free}],
         r \in [Rules -> Nat], n \in Nat, q \in [Permits -> Nat], t \in [Permits -> Nat] :
           /\ a = upload /\ b = upload' /\ r = ruleFlow
           /\ n = userFlow /\ q = permitFlow /\ t = permitFlow'
  BY DEF AccountTypeOK
<1>1. a[u].at = "permit" /\ upload[u] # Free
  BY ReportIs DEF BookPermit
<1> PICK f \in Rules, c \in Nat :
      f = RuleOf(u) /\ f = a[u].service[1] /\ c = Cost(u) /\ c = a[u].bytes * Weight
  BY <1>1, RuleIs, CostIs DEF Cost
<1>2. Moves(u, "checkUser", upload[u].next, upload[u].todo, upload[u].stale)
  BY <1>1, StepIs DEF BookPermit
<1>3. b[u].at = "checkUser" /\ \A v \in Uploads \ {u} : b[v] = a[v]
  BY <1>2, MovesTo DEF Moves
<1>4. /\ ruleFlow' = r /\ userFlow' = n /\ resets' = resets
      /\ \A p \in Permits : t[p] = q[p] + IF PermitOf[f] = p THEN c ELSE 0
  BY AccountAssumption DEF BookPermit, requestSide
<1>5. OwedUser(a)[u] = 0 /\ OwedUser(b)[u] = 0
  BY <1>1, <1>3 DEF OwedUser
<1>6. ASSUME NEW p \in Permits
      PROVE  OwedPermit(a, p)[u] = (IF PermitOf[f] = p THEN c ELSE 0) /\ OwedPermit(b, p)[u] = 0
  BY <1>1, <1>3 DEF OwedPermit
<1>7. ASSUME RowsFit(r, n, q, a) PROVE RowsFit(r, n, t, b)
  <2>1. n + SumFunctionOnSet(OwedUser(b), Uploads) = SumFunctionOnSet(r, Rules)
    <3> PICK p \in Permits : p = PermitOf[f]
      BY AccountAssumption
    <3>1. /\ SumFunctionOnSet(OwedUser(a), Uploads) \in Int
          /\ SumFunctionOnSet(OwedUser(b), Uploads) = SumFunctionOnSet(OwedUser(a), Uploads) + (0 - 0)
      BY <1>3, <1>5, OwedMoves
    <3>2. n + SumFunctionOnSet(OwedUser(a), Uploads) = SumFunctionOnSet(r, Rules)
      BY <1>7 DEF RowsFit
    <3> QED
      BY <3>1, <3>2
  <2>2. ASSUME NEW p \in Permits
        PROVE  t[p] + SumFunctionOnSet(OwedPermit(b, p), Uploads) = SumFunctionOnSet(r, RulesOf(p))
    <3> PICK d \in Nat : d = IF PermitOf[f] = p THEN c ELSE 0
      OBVIOUS
    <3>1. /\ SumFunctionOnSet(OwedPermit(a, p), Uploads) \in Int
          /\ SumFunctionOnSet(OwedPermit(b, p), Uploads) = SumFunctionOnSet(OwedPermit(a, p), Uploads) - d
      BY <1>3, <1>6, OwedMoves
    <3>2. q[p] + SumFunctionOnSet(OwedPermit(a, p), Uploads) = SumFunctionOnSet(r, RulesOf(p))
      BY <1>7 DEF RowsFit
    <3>3. t[p] = q[p] + d
      BY <1>4
    <3> QED
      BY <3>1, <3>2, <3>3
  <2> QED
    BY <2>1, <2>2 DEF RowsFit
<1> QED
  BY <1>4, <1>7 DEF RowsInv

LEMMA RowsStep ==
    ASSUME AccountTypeOK, AccountTypeOK', \A f \in Services : Counted(f), RowsInv,
           [AccountNext]_accountVars
    PROVE  RowsInv'
<1>1. ASSUME NEW u \in Uploads, BookRule(u) \/ BookUser(u) \/ BookPermit(u)
      PROVE  RowsInv'
  BY <1>1, RowsBookRule, RowsBookUser, RowsBookPermit
<1>2. CASE QuotaNext
  <2>1. CASE ResetUser \/ \E p \in Permits : ResetPermit(p)
    <3>1. resets' = resets + 1 /\ resets \in Nat
      BY <2>1 DEF ResetUser, ResetPermit, AccountTypeOK
    <3> QED
      BY <3>1 DEF RowsInv
  <2>2. CASE SwitchUser \/ \E p \in Permits : SwitchPermit(p)
    <3>1. UNCHANGED <<flows, resets>>
      BY <2>2 DEF SwitchUser, SwitchPermit
    <3>2. ASSUME NEW u \in Uploads PROVE SameDebt(upload[u], upload'[u])
      <4>1. CASE upload' = upload
        BY <4>1 DEF SameDebt
      <4>2. CASE Stale
        <5>1. CASE upload[u] = Free
          BY <4>2, <5>1, StaleIs DEF SameDebt
        <5>2. CASE upload[u] # Free
          BY <4>2, <5>2, StaleIs DEF SameDebt
        <5> QED
          BY <5>1, <5>2
      <4> QED
        BY <1>2, <4>1, <4>2, QuotaKeeps
    <3> QED
      BY <3>1, <3>2, RowsQuiet
  <2> QED
    BY <1>2, <2>1, <2>2 DEF QuotaNext
<1>3. ASSUME UNCHANGED <<flows, resets>>, upload' = upload PROVE RowsInv'
  BY <1>3, RowsQuiet DEF SameDebt
<1>4. ASSUME UNCHANGED <<flows, resets>>, NEW u \in Uploads, SameDebt(upload[u], upload'[u]),
             \A v \in Uploads \ {u} : upload'[v] = upload[v]
      PROVE  RowsInv'
  BY <1>4, RowsQuiet DEF SameDebt
<1>5. CASE \/ \E s \in Services : Carry(s) \/ Tick(s) \/ SendFails(s) \/ ResetTraffic(s)
           \/ PauseNext \/ RequestNext
           \/ UNCHANGED accountVars
  <2>1. CASE PauseNext \/ RequestNext
    BY <1>3, <2>1, RequestsKeep
  <2>2. CASE UNCHANGED accountVars
    BY <1>3, <2>2 DEF accountVars, requestSide
  <2>3. ASSUME NEW s \in Services, Carry(s) \/ Tick(s) \/ SendFails(s) \/ ResetTraffic(s)
        PROVE  UNCHANGED <<flows, resets>> /\ upload' = upload
    BY <2>3 DEF Carry, Tick, SendFails, ResetTraffic, requestSide
  <2> QED
    BY <1>3, <1>5, <2>1, <2>2, <2>3
<1>6. ASSUME NEW s \in Services, NEW u \in Uploads, Arrive(s, u) PROVE RowsInv'
  <2>1. upload[u].at = "free" /\ UNCHANGED <<flows, resets>>
    BY <1>6 DEF Arrive, Free, requestSide
  <2>2. upload'[u].at = "rule" /\ \A v \in Uploads \ {u} : upload'[v] = upload[v]
    BY <1>6, ArriveIs
  <2> QED
    BY <1>4, <2>1, <2>2 DEF SameDebt, Indebted
<1>7. ASSUME NEW s \in Services, NEW u \in Uploads, TimeOut(s, u) PROVE RowsInv'
  <2>1. upload[u] # Free /\ UNCHANGED <<flows, resets>>
    BY <1>7 DEF TimeOut, requestSide
  <2>2. upload'[u] = Deaf(u) /\ \A v \in Uploads \ {u} : upload'[v] = upload[v]
    BY <1>7, TimeOutIs
  <2>3. SameDebt(upload[u], upload'[u])
    BY <2>1, <2>2, DeafIs DEF SameDebt
  <2> QED
    BY <1>4, <2>1, <2>2, <2>3
<1>8. ASSUME NEW s \in Services, NEW u \in Uploads, Heard(s, u) PROVE RowsInv'
  <2>1. upload[u].at = "answer" /\ UNCHANGED <<flows, resets>>
    BY <1>8 DEF Heard, requestSide
  <2>2. upload'[u] = Free /\ \A v \in Uploads \ {u} : upload'[v] = upload[v]
    BY <1>8, HeardIs
  <2>3. SameDebt(upload[u], upload'[u])
    BY <2>1, <2>2 DEF SameDebt, Indebted, Free
  <2> QED
    BY <1>4, <2>1, <2>2, <2>3
<1>9. ASSUME NEW s \in Services, Drained(s) PROVE RowsInv'
  <2>1. UNCHANGED <<flows, resets>>
    BY <1>9 DEF Drained, requestSide
  <2>2. ASSUME NEW u \in Uploads PROVE SameDebt(upload[u], upload'[u])
    <3>1. CASE upload[u] # Free /\ upload[u].service = s
      <4>1. upload'[u] = Deaf(u)
        BY <1>9, <3>1, DrainedIs
      <4> QED
        BY <3>1, <4>1, DeafIs DEF SameDebt
    <3>2. CASE ~(upload[u] # Free /\ upload[u].service = s)
      BY <1>9, <3>2, DrainedIs DEF SameDebt
    <3> QED
      BY <3>1, <3>2
  <2> QED
    BY <2>1, <2>2, RowsQuiet
<1>10. ASSUME NEW u \in Uploads, CheckUser(u) \/ CheckPermit(u) \/ PausesDone(u)
       PROVE  RowsInv'
  <2>1. /\ upload[u] # Free /\ upload[u].at \notin Indebted /\ UNCHANGED <<flows, resets>>
        /\ upload[u].next \in {"checkPermit", "answer"}
    BY <1>10, ReportIs DEF CheckUser, CheckPermit, Checked, PausesDone, requestSide, Indebted
  <2>2. PICK to \in {"checkPermit", "pausing", "answer"} :
           /\ upload'[u].at = to
           /\ \A v \in Uploads \ {u} : upload'[v] = upload[v]
    <3>a. ASSUME NEW to, NEW n, NEW t, NEW s, Moves(u, to, n, t, s), to # "free"
          PROVE  upload'[u].at = to /\ \A v \in Uploads \ {u} : upload'[v] = upload[v]
      BY <3>a, MovesTo DEF Moves
    <3>1. ASSUME NEW to \in {"checkPermit", "answer"}, Step(u, to)
          PROVE  upload'[u].at = to /\ \A v \in Uploads \ {u} : upload'[v] = upload[v]
      <4>1. Moves(u, to, upload[u].next, upload[u].todo, upload[u].stale)
        BY <2>1, <3>1, StepIs
      <4> QED
        BY <3>a, <4>1
    <3>2. ASSUME NEW rules, OfRules(rules), NEW n \in {"checkPermit", "answer"},
                 PauseThese(u, rules, n)
          PROVE  upload'[u].at = "pausing" /\ \A v \in Uploads \ {u} : upload'[v] = upload[v]
      <4>1. Moves(u, "pausing", n, ToPause(rules), FALSE)
        BY <2>1, <3>2, PauseTheseIs
      <4> QED
        BY <3>a, <4>1
    <3>3. \/ \E to \in {"checkPermit", "answer"} : Step(u, to)
          \/ \E rules : OfRules(rules) /\ \E n \in {"checkPermit", "answer"} : PauseThese(u, rules, n)
      BY <1>10, <2>1 DEF CheckUser, CheckPermit, PausesDone, NoPause, OfRules
    <3> QED
      BY <3>1, <3>2, <3>3
  <2> QED
    BY <1>4, <2>1, <2>2 DEF SameDebt, Indebted
<1>11. ASSUME NEW u \in Uploads, AnswerUnheard(u) PROVE RowsInv'
  <2>1. upload[u].at = "answer" /\ UNCHANGED <<flows, resets>>
    BY <1>11 DEF AnswerUnheard, requestSide
  <2>2. upload'[u] = Free /\ \A v \in Uploads \ {u} : upload'[v] = upload[v]
    BY <1>11, ReportPutIs DEF AnswerUnheard
  <2>3. SameDebt(upload[u], upload'[u])
    BY <2>1, <2>2 DEF SameDebt, Indebted, Free
  <2> QED
    BY <1>4, <2>1, <2>2, <2>3
<1>12. ASSUME NEW u \in Uploads, NEW f \in Rules, NEW ends, PauseOne(u, f, ends)
       PROVE  RowsInv'
  <2>1. /\ upload[u].at = "pausing" /\ UNCHANGED <<flows, resets>>
        /\ Moves(u, "pausing", upload[u].next, upload[u].todo \ {f}, upload[u].stale)
    BY <1>12, PauseOneIs DEF PauseOne
  <2>2. upload'[u].at = "pausing" /\ \A v \in Uploads \ {u} : upload'[v] = upload[v]
    BY <2>1, MovesTo DEF Moves
  <2> QED
    BY <1>4, <2>1, <2>2 DEF SameDebt, Indebted
<1> QED
  BY <1>1, <1>2, <1>5, <1>6, <1>7, <1>8, <1>9, <1>10, <1>11, <1>12
     DEF AccountNext, NodeNext, ReportNext

LEMMA RowsInit == AccountInit => RowsInv
<1> SUFFICES ASSUME AccountInit PROVE RowsInv
  OBVIOUS
<1> PICK a, r, n, q : a = upload /\ r = ruleFlow /\ n = userFlow /\ q = permitFlow
  OBVIOUS
<1>1. /\ \A u \in Uploads : a[u].at = "free"
      /\ \A f \in Rules : r[f] = 0
      /\ n = 0 /\ \A p \in Permits : q[p] = 0
  BY DEF AccountInit, Free
<1>2. SumFunctionOnSet(r, Rules) = 0
  BY <1>1, AccountFinite, SumZero
<1>3. SumFunctionOnSet(OwedUser(a), Uploads) = 0
  <2>1. \A u \in Uploads : OwedUser(a)[u] = 0
    BY <1>1 DEF OwedUser
  <2> QED
    BY <2>1, AccountFinite, SumZero
<1>4. ASSUME NEW p \in Permits
      PROVE  SumFunctionOnSet(r, RulesOf(p)) = 0 /\ SumFunctionOnSet(OwedPermit(a, p), Uploads) = 0
  <2>1. \A u \in Uploads : OwedPermit(a, p)[u] = 0
    BY <1>1 DEF OwedPermit
  <2>2. IsFiniteSet(RulesOf(p)) /\ \A f \in RulesOf(p) : r[f] = 0
    BY <1>1, AccountFinite, FS_Subset DEF RulesOf
  <2> QED
    BY <2>1, <2>2, AccountFinite, SumZero
<1>5. RowsFit(r, n, q, a)
  BY <1>1, <1>2, <1>3, <1>4 DEF RowsFit
<1> QED
  BY <1>5 DEF RowsInv

\* Once every report has written its three rows they agree.
LEMMA RowsInvAgrees == AccountTypeOK /\ RowsInv => RowsAgree
<1> SUFFICES ASSUME AccountTypeOK, RowsInv, resets = 0,
                    \A u \in Uploads : upload[u].at \notin {"user", "permit"}
             PROVE  /\ userFlow = SumFunction(ruleFlow)
                    /\ \A p \in Permits :
                         permitFlow[p] = SumFunctionOnSet(ruleFlow, {f \in Rules : PermitOf[f] = p})
  BY DEF RowsAgree
<1> PICK a \in [Uploads -> Reports \cup {Free}], r \in [Rules -> Nat], n \in Nat,
         q \in [Permits -> Nat] :
      a = upload /\ r = ruleFlow /\ n = userFlow /\ q = permitFlow
  BY DEF AccountTypeOK
<1>1. RowsFit(r, n, q, a)
  BY DEF RowsInv
<1>2. SumFunctionOnSet(OwedUser(a), Uploads) = 0
  <2>1. \A u \in Uploads : OwedUser(a)[u] = 0
    BY DEF OwedUser
  <2> QED
    BY <2>1, AccountFinite, SumZero
<1>3. ASSUME NEW p \in Permits PROVE SumFunctionOnSet(OwedPermit(a, p), Uploads) = 0
  <2>1. \A u \in Uploads : OwedPermit(a, p)[u] = 0
    BY DEF OwedPermit
  <2> QED
    BY <2>1, AccountFinite, SumZero
<1>4. n = SumFunctionOnSet(r, Rules)
  BY <1>1, <1>2 DEF RowsFit
<1>5. ASSUME NEW p \in Permits PROVE q[p] = SumFunctionOnSet(r, RulesOf(p))
  BY <1>1, <1>3 DEF RowsFit
<1>6. SumFunction(r) = SumFunctionOnSet(r, Rules)
  <2>1. DOMAIN r = Rules
    OBVIOUS
  <2> QED
    BY <2>1 DEF SumFunction
<1>7. userFlow = SumFunction(ruleFlow)
  BY <1>4, <1>6
<1>8. \A p \in Permits :
         permitFlow[p] = SumFunctionOnSet(ruleFlow, {f \in Rules : PermitOf[f] = p})
  BY <1>5 DEF RulesOf
<1> QED
  BY <1>7, <1>8

-----------------------------------------------------------------------------
(* The theorems.                                                             *)

\* The counters, the observers, the reports and the rows stay what they are in
\* service.go and flow.go: above all no counter and no rest of it goes below
\* zero, although it is written from two reads at different times.
THEOREM AccountTypeCorrect == AccountSpec => []AccountTypeOK
<1>1. AccountIInv => AccountTypeOK
  BY DEF AccountIInv
<1> QED
  BY <1>1, AccountInvariant, PTL

\* What BookedOnce and NothingForgotten add up over the two services of a forward.
LEMMA SumsOfServices ==
    ASSUME AccountTypeOK, BookedRow, NEW f \in Rules
    PROVE  \E i, o \in Services :
             /\ i = <<f, "entry">> /\ o = <<f, "exit">>
             /\ ruleFlow[f] = booked[i] + booked[o]
             /\ Charged(f) = (booked[i] + Weighed(Due(i))) + (booked[o] + Weighed(Due(o)))
             /\ Through(f) = Weighed(carried[i]) + Weighed(carried[o])
             /\ booked[i] + Weighed(Due(i)) \in Int /\ booked[o] + Weighed(Due(o)) \in Int
             /\ Weighed(carried[i]) \in Int /\ Weighed(carried[o]) \in Int
<1> PICK i \in Services, o \in Services : i = <<f, "entry">> /\ o = <<f, "exit">>
  BY DEF Services, Sides
<1>1. ruleFlow[f] = booked[i] + booked[o] /\ booked[i] \in Nat /\ booked[o] \in Nat
  BY DEF BookedRow, AccountTypeOK
<1>2. Charged(f) = ruleFlow[f] + Weighed(Due(i) + Due(o))
  BY DEF Charged, Weighed
<1>3. Through(f) = Weighed(carried[i] + carried[o])
  BY DEF Through, Weighed
<1> PICK d \in Int, e \in Int : d = Due(i) /\ e = Due(o)
  BY Typed
<1> PICK c \in Int, k \in Int : c = carried[i] /\ k = carried[o]
  BY Typed
<1>4. /\ Weighed(d + e) = Weighed(d) + Weighed(e) /\ Weighed(d) \in Int /\ Weighed(e) \in Int
      /\ Weighed(c + k) = Weighed(c) + Weighed(k) /\ Weighed(c) \in Int /\ Weighed(k) \in Int
  BY Plus, WeighedIs
<1> QED
  BY <1>1, <1>2, <1>3, <1>4

\* What the services of a forward have carried, at its entry and through a tunnel
\* again at its exit, is booked in its row once, unless a node did not hear the
\* answer to a report (service.go:401-408).
THEOREM BytesAreBookedOnce == AccountSpec => []BookedOnce
<1>1. AccountIInv => BookedOnce
  <2> SUFFICES ASSUME AccountIInv, NEW f \in Rules, \A end \in Sides : ~unheard[<<f, end>>]
               PROVE  Charged(f) <= Through(f)
    BY DEF BookedOnce
  <2> PICK i \in Services, o \in Services :
        /\ i = <<f, "entry">> /\ o = <<f, "exit">>
        /\ Charged(f) = (booked[i] + Weighed(Due(i))) + (booked[o] + Weighed(Due(o)))
        /\ Through(f) = Weighed(carried[i]) + Weighed(carried[o])
        /\ booked[i] + Weighed(Due(i)) \in Int /\ booked[o] + Weighed(Due(o)) \in Int
        /\ Weighed(carried[i]) \in Int /\ Weighed(carried[o]) \in Int
    BY SumsOfServices DEF AccountIInv
  <2>1. ~unheard[i] /\ ~unheard[o]
    BY DEF Sides
  <2>2. /\ booked[i] + Weighed(Due(i)) <= Weighed(carried[i])
        /\ booked[o] + Weighed(Due(o)) <= Weighed(carried[o])
    BY <2>1 DEF AccountIInv, LedgerOf, AtMost
  <2> QED
    BY <2>2
<1> QED
  BY <1>1, AccountInvariant, PTL

\* No byte is forgotten, unless it came between the read and the store of a
\* counter, or its service ended first (service.go:383-408).
THEOREM NothingIsForgotten == AccountSpec => []NothingForgotten
<1>1. AccountIInv => NothingForgotten
  <2> SUFFICES ASSUME AccountIInv, NEW f \in Rules, \A end \in Sides : ~missed[<<f, end>>]
               PROVE  Charged(f) >= Through(f)
    BY DEF NothingForgotten
  <2> PICK i \in Services, o \in Services :
        /\ i = <<f, "entry">> /\ o = <<f, "exit">>
        /\ Charged(f) = (booked[i] + Weighed(Due(i))) + (booked[o] + Weighed(Due(o)))
        /\ Through(f) = Weighed(carried[i]) + Weighed(carried[o])
        /\ booked[i] + Weighed(Due(i)) \in Int /\ booked[o] + Weighed(Due(o)) \in Int
        /\ Weighed(carried[i]) \in Int /\ Weighed(carried[o]) \in Int
    BY SumsOfServices DEF AccountIInv
  <2>1. ~missed[i] /\ ~missed[o]
    BY DEF Sides
  <2>2. /\ booked[i] + Weighed(Due(i)) >= Weighed(carried[i])
        /\ booked[o] + Weighed(Due(o)) >= Weighed(carried[o])
    BY <2>1 DEF AccountIInv, LedgerOf, AtLeast
  <2> QED
    BY <2>2
<1> QED
  BY <1>1, AccountInvariant, PTL

\* When no report is worked on, every forward over a limit is paused
\* (flow.go:239-289), but those that a request has written back over it, with no
\* check that found them since (forward.go:386, reconcile.go:167).
THEOREM LimitsAreEnforced == AccountSpec => []LimitsEnforced
<1>1. AccountIInv => LimitsEnforced
  <2> SUFFICES ASSUME AccountIInv, \A u \in Uploads : upload[u] = Free,
                      NEW f \in Rules \ lifted, Over(f)
               PROVE  ruleStatus[f] = "paused"
    BY DEF LimitsEnforced
  <2>1. \A u \in Uploads : ~UserFollows(u, f) /\ ~PermitFollows(u, f)
    BY DEF Free, UserFollows, PermitFollows
  <2>2. UserOver \/ PermitOver(PermitOf[f])
    BY DEF Over
  <2>3. Followed
    BY DEF AccountIInv
  <2> QED
    BY <2>1, <2>2, <2>3, FollowedIs
<1> QED
  BY <1>1, AccountInvariant, PTL

\* A report pauses a forward only over a limit, or for a user or a permission that
\* has expired or is disabled, unless that has changed after the check that
\* decided the pause (flow.go:239-289, reset_flow.go:49).
THEOREM PausesHaveACause == AccountSpec => PausedForCause
<1> DEFINE ForCause ==
      \A u \in Uploads, f \in Rules :
        (/\ upload[u].at = "pausing" /\ upload'[u].at = "pausing"
         /\ f \in upload[u].todo /\ f \notin upload'[u].todo) =>
            \/ Over(f) \/ userOff \/ PermitOf[f] \in permitsOff
            \/ upload[u].stale
<1>1. AccountIInv => ForCause
  BY DEF AccountIInv, Caused, Over
<1> QED
  BY <1>1, AccountInvariant, PTL DEF AccountSpec, PausedForCause

\* The rows of the forward, of the user and of the permission, written one after
\* the other by handlers at the same time (flow.go:197-227), agree whenever no
\* report is between two of them, for any forwards, permissions and reports.
THEOREM RowsAgreeInTheEnd == AccountSpec => []RowsAgree
<1>1. AccountInit => AccountIInv /\ RowsInv
  BY AccountInvInit, RowsInit
<1>2. AccountIInv /\ RowsInv /\ [AccountNext]_accountVars => (AccountIInv /\ RowsInv)'
  <2> SUFFICES ASSUME AccountIInv, RowsInv, [AccountNext]_accountVars
               PROVE  AccountIInv' /\ RowsInv'
    OBVIOUS
  <2>1. AccountIInv'
    BY AccountInvStep
  <2>2. AccountTypeOK /\ AccountTypeOK' /\ \A s \in Services : Counted(s)
    BY <2>1 DEF AccountIInv, LedgerOf
  <2> QED
    BY <2>1, <2>2, RowsStep
<1>3. AccountIInv /\ RowsInv => RowsAgree
  BY RowsInvAgrees DEF AccountIInv
<1> QED
  BY <1>1, <1>2, <1>3, PTL DEF AccountSpec
=============================================================================
