------------------------ MODULE ClientLifecycleProofs ------------------------
(***************************************************************************)
(* Proofs about the life of a client: types, that flushes do not multiply, *)
(* that only late reports are dropped, and that the client implements the  *)
(* ledger of module RequestLedger.                                         *)
(***************************************************************************)
EXTENDS ClientLifecycle, FiniteSetTheorems, TLAPS

USE ClientAssumption DEF None, Scheds, Kinds

-----------------------------------------------------------------------------
(* Types.                                                                  *)

\* TypeOK in parts; the bound on the number of queued events needs counting.
ClientOK ==
  /\ running \in BOOLEAN /\ stopped \in BOOLEAN /\ hasThread \in BOOLEAN
  /\ scheduler \in {None} \cup Scheds /\ starts \in 0..MaxStarts
  /\ enabled \in Configs
EventsOK == events \in [Scheds -> [Kinds -> Nat]]
ReportsOK ==
  /\ batch \in [Threads -> SUBSET Reports]
  /\ held \in SUBSET Reports /\ sent \in SUBSET Reports /\ dropped \in SUBSET Reports
  /\ lost \in SUBSET Reports /\ accepted \in SUBSET Reports /\ late \in SUBSET Reports
  /\ halted \in BOOLEAN

\* A thread in phase p is in the run() of a scheduler r just where it can be.
RunPhases == {"loop", "event", "sending", "entering", "cleaning", "shutdown"}
ThreadOK(p, r) ==
  /\ p \in Phases /\ r \in {None} \cup Scheds
  /\ IF r = None THEN p \notin RunPhases ELSE p \in RunPhases \cup InStop
ThreadsOK ==
  /\ pc \in [Threads -> Phases] /\ inRun \in [Threads -> {None} \cup Scheds]
  /\ \A t \in Threads : ThreadOK(pc[t], inRun[t])
  /\ job \in [Threads -> Kinds]

\* Only a start creates a thread, and those of later starts do not exist yet.
Places ==
  /\ \A t \in Apps : pc[t] # "new"
  /\ \A s \in Scheds : s > starts => pc[s] = "absent"

Loose == ClientOK /\ EventsOK /\ ReportsOK /\ ThreadsOK /\ Places

LEMMA ThreadSets ==
  /\ Apps \subseteq Threads /\ Scheds \subseteq Threads /\ Apps \cap Scheds = {}
  /\ Threads = Apps \cup Scheds /\ Callers \subseteq Apps /\ Stoppers \subseteq Apps
BY DEF Threads, Apps

LEMMA TypeOKParts ==
  TypeOK <=> /\ ClientOK /\ ReportsOK /\ ThreadsOK
             /\ events \in [Scheds -> [Kinds -> 0..MaxStarts]]
<1>1. (\A t \in Threads : ThreadOK(pc[t], inRun[t])) /\ pc \in [Threads -> Phases]
        /\ inRun \in [Threads -> {None} \cup Scheds]
      <=> /\ pc \in [Threads -> Phases] /\ inRun \in [Threads -> {None} \cup Scheds]
          /\ \A t \in Threads : (inRun[t] # None) <=> pc[t] \in
               {"loop", "event", "sending", "entering", "cleaning", "shutdown"}
               \cup IF inRun[t] # None THEN InStop ELSE {}
  BY DEF ThreadOK, RunPhases, InStop
<1>2. {held, sent, dropped, lost, accepted, late} \subseteq SUBSET Reports
      <=> /\ held \in SUBSET Reports /\ sent \in SUBSET Reports /\ dropped \in SUBSET Reports
          /\ lost \in SUBSET Reports /\ accepted \in SUBSET Reports /\ late \in SUBSET Reports
  OBVIOUS
<1>3. QED
  BY <1>1, <1>2 DEF TypeOK, ClientOK, ReportsOK, ThreadsOK

LEMMA LooseInit == Init => Loose
<1> SUFFICES ASSUME Init PROVE Loose
  OBVIOUS
<1>0. ClientOK
  <2>1. starts \in 0..MaxStarts
    BY DEF Init
  <2>2. QED
    BY <2>1, Zenon DEF Init, ClientOK
<1>3. EventsOK
  BY DEF Init, EventsOK
<1>1. ReportsOK
  BY DEF Init, ReportsOK
<1>2. ThreadsOK /\ Places
  BY ThreadSets DEF Init, ThreadsOK, ThreadOK, Phases, RunPhases, Places
<1>4. QED
  BY <1>0, <1>1, <1>2, <1>3 DEF Loose

\* What one thread does to its own place.
LEMMA Moved ==
  ASSUME Loose, NEW t \in Threads, NEW p, NEW r,
         Goto(t, p), inRun' = [inRun EXCEPT ![t] = r], ThreadOK(p, r),
         p # "new", pc[t] # "absent", starts' = starts, job' \in [Threads -> Kinds]
  PROVE  ThreadsOK' /\ Places'
<1>1. p \in Phases /\ r \in {None} \cup Scheds
  BY DEF ThreadOK
<1>2. pc' \in [Threads -> Phases] /\ inRun' \in [Threads -> {None} \cup Scheds]
  BY <1>1 DEF Loose, ThreadsOK, Goto
<1>3. \A u \in Threads : IF u = t THEN pc'[u] = p /\ inRun'[u] = r
                         ELSE pc'[u] = pc[u] /\ inRun'[u] = inRun[u]
  BY DEF Loose, ThreadsOK, Goto
<1>4. \A u \in Threads : ThreadOK(pc'[u], inRun'[u])
  BY <1>3 DEF Loose, ThreadsOK
<1>5. Places'
  BY <1>3, ThreadSets DEF Loose, Places
<1>6. QED
  BY <1>2, <1>4, <1>5 DEF ThreadsOK

LEMMA MovedInRun ==
  ASSUME Loose, NEW t \in Threads, NEW p, Goto(t, p), UNCHANGED inRun,
         ThreadOK(p, inRun[t]), p # "new", pc[t] # "absent", starts' = starts,
         job' \in [Threads -> Kinds]
  PROVE  ThreadsOK' /\ Places'
<1>1. inRun' = [inRun EXCEPT ![t] = inRun[t]]
  BY DEF Loose, ThreadsOK
<1>2. QED
  BY <1>1, Moved

LEMMA ThreadDies ==
  ASSUME Loose, NEW t \in Threads, Dies(t), pc[t] # "absent", starts' = starts,
         UNCHANGED job
  PROVE  ThreadsOK' /\ Places'
<1> DEFINE p == IF t \in Apps THEN "idle" ELSE "crashed"
<1>1. ThreadOK(p, None) /\ p # "new"
  BY DEF ThreadOK, Phases, RunPhases
<1>2. Goto(t, p) /\ inRun' = [inRun EXCEPT ![t] = None]
  BY DEF Dies
<1>3. job' \in [Threads -> Kinds]
  BY DEF Loose, ThreadsOK
<1> HIDE DEF p
<1>4. QED
  BY <1>1, <1>2, <1>3, Moved

\* The first flushes of the n-th start, whether or not one of them raises.
Initializes(n, direct) == Initialize(n, direct) \/ InitializeRaises(n, direct)

LEMMA FirstFlushes ==
  ASSUME FirstFlush PROVE
  /\ held' \subseteq held /\ sent \subseteq sent' /\ sent' \subseteq sent \cup (held \ held')
  /\ lost' \subseteq lost \cup held
BY DEF FirstFlush, Send

LEMMA InitializeReports ==
  ASSUME NEW n, NEW direct, Initializes(n, direct)
  PROVE  /\ held' \subseteq held /\ sent \subseteq sent'
         /\ sent' \subseteq sent \cup (held \ held') /\ lost' \subseteq lost \cup held
<1>1. FirstFlush \/ UNCHANGED <<held, sent, lost>> \/ (Raise(held) /\ held' = {})
  BY DEF Initializes, Initialize, InitializeRaises
<1>2. QED
  BY <1>1, FirstFlushes DEF Raise

LEMMA InitializeEvents ==
  ASSUME EventsOK, NEW n \in Scheds, NEW direct, Initializes(n, direct)
  PROVE  /\ EventsOK' /\ \A r \in Scheds \ {n} : events'[r] = events[r]
         /\ \A k \in Kinds : events'[n][k] <= events[n][k] + 1
<1>1. \A k \in Kinds : First(k, direct) \in {0, 1}
  BY DEF First
<1>2. \/ events' = [events EXCEPT ![n] = [k \in Kinds |-> First(k, direct)]]
      \/ \E c \in 0..First("check", direct) :
           \/ events' = [events EXCEPT ![n].check = c]
           \/ events' = [events EXCEPT ![n].check = c, ![n].report = First("report", direct)]
  BY Zenon DEF Initializes, Initialize, InitializeRaises
<1>3. CASE events' = [events EXCEPT ![n] = [k \in Kinds |-> First(k, direct)]]
  BY <1>1, <1>3 DEF EventsOK
<1>4. ASSUME NEW c \in 0..First("check", direct), events' = [events EXCEPT ![n].check = c]
      PROVE  /\ EventsOK' /\ \A r \in Scheds \ {n} : events'[r] = events[r]
             /\ \A k \in Kinds : events'[n][k] <= events[n][k] + 1
  BY <1>1, <1>4 DEF EventsOK
<1>5. ASSUME NEW c \in 0..First("check", direct),
             events' = [events EXCEPT ![n].check = c, ![n].report = First("report", direct)]
      PROVE  /\ EventsOK' /\ \A r \in Scheds \ {n} : events'[r] = events[r]
             /\ \A k \in Kinds : events'[n][k] <= events[n][k] + 1
  <2> DEFINE once == [events EXCEPT ![n].check = c]
             r == First("report", direct)
  <2>1. r \in Nat /\ c \in Nat /\ c <= 1 /\ r <= 1
    BY <1>1
  <2>2. events' = [once EXCEPT ![n].report = r]
    BY <1>5
  <2> HIDE DEF r
  <2>3. /\ once \in [Scheds -> [Kinds -> Nat]]
        /\ \A m \in Scheds \ {n} : once[m] = events[m]
        /\ once[n].report = events[n].report /\ once[n].check = c
    BY <2>1 DEF EventsOK
  <2> HIDE DEF once
  <2>4. QED
    BY <2>1, <2>2, <2>3 DEF EventsOK
<1>6. QED
  BY <1>2, <1>3, <1>4, <1>5

LEMMA InitializeOK ==
  ASSUME Loose, NEW n \in Scheds, NEW direct, Initializes(n, direct)
  PROVE  /\ scheduler' \in Scheds /\ EventsOK'
         /\ held' \in SUBSET Reports /\ sent' \in SUBSET Reports /\ lost' \in SUBSET Reports
<1>1. scheduler' \in Scheds
  BY DEF Initializes, Initialize, InitializeRaises
<1>2. held' \in SUBSET Reports /\ sent' \in SUBSET Reports /\ lost' \in SUBSET Reports
  BY InitializeReports DEF Loose, ReportsOK
<1>3. EventsOK'
  BY InitializeEvents DEF Loose
<1>4. QED
  BY <1>1, <1>2, <1>3

-----------------------------------------------------------------------------
\* The application's calls.
LEMMA LooseCall == Loose /\ Call => Loose'
<1> SUFFICES ASSUME Loose, Call PROVE Loose'
  OBVIOUS
<1>1. ASSUME NEW t \in Apps, AlreadyStarted(t) PROVE Loose'
  <2>1. ThreadsOK' /\ Places'
    <3>1. ThreadOK("started", inRun[t])
      BY <1>1, ThreadSets DEF AlreadyStarted, Loose, ThreadsOK, ThreadOK, Phases, RunPhases, InStop
    <3>2. QED
      BY <1>1, <3>1, ThreadSets, MovedInRun DEF AlreadyStarted, client, Loose, ThreadsOK
  <2>2. QED
    BY <1>1, <2>1 DEF AlreadyStarted, Loose, ClientOK, EventsOK, ReportsOK, client, reports
<1>2. ASSUME NEW t \in Apps, StartThread(t) PROVE Loose'
  <2>1. starts' \in Scheds /\ starts' = starts + 1 /\ starts' # t /\ t \in Threads
    BY <1>2, ThreadSets DEF StartThread, Loose, ClientOK
  <2>2. pc[starts'] = "absent" /\ pc[t] = "idle"
    BY <1>2, <2>1 DEF StartThread, Loose, Places, ClientOK
  <2>3. \A u \in Threads : pc'[u] = IF u = starts' THEN "new" ELSE IF u = t THEN "started" ELSE pc[u]
    BY <1>2, <2>1 DEF StartThread, Loose, ThreadsOK
  <2>4. pc' \in [Threads -> Phases]
    <3>1. pc \in [Threads -> Phases] /\ {"started", "new"} \subseteq Phases
      BY DEF Loose, ThreadsOK, Phases
    <3>2. pc' = [pc EXCEPT ![t] = "started", ![starts'] = "new"]
      BY <1>2 DEF StartThread
    <3>3. QED
      BY <3>1, <3>2
  <2>5. inRun[t] = None /\ inRun[starts'] = None
    BY <2>1, <2>2, ThreadSets DEF Loose, ThreadsOK, ThreadOK, RunPhases, InStop
  <2>6. \A u \in Threads : ThreadOK(pc'[u], inRun[u])
    BY <2>3, <2>5 DEF Loose, ThreadsOK, ThreadOK, Phases, RunPhases
  <2>7. ThreadsOK'
    <3>1. UNCHANGED <<inRun, job>>
      BY <1>2 DEF StartThread
    <3>2. QED
      BY <2>4, <2>6, <3>1 DEF Loose, ThreadsOK
  <2>8. Places'
    BY <2>1, <2>3, ThreadSets DEF Loose, Places, ClientOK
  <2>9. ClientOK'
    <3>1. starts' \in 0..MaxStarts
      BY <2>1
    <3>2. QED
      BY <1>2, <3>1, Zenon DEF StartThread, Loose, ClientOK
  <2>10. UNCHANGED <<events, reports>>
    BY <1>2 DEF StartThread
  <2>11. EventsOK' /\ ReportsOK'
    BY <2>10 DEF Loose, EventsOK, ReportsOK, reports
  <2>12. QED
    BY <2>7, <2>8, <2>9, <2>11 DEF Loose
<1>3. ASSUME NEW t \in Apps, StartDirectly(t) PROVE Loose'
  <2>1. starts' \in Scheds /\ starts' = starts + 1
    BY <1>3 DEF StartDirectly, Loose, ClientOK
  <2>2. /\ scheduler' \in Scheds /\ EventsOK' /\ held' \in SUBSET Reports
        /\ sent' \in SUBSET Reports /\ lost' \in SUBSET Reports
    <3>1. Initializes(starts', TRUE)
      BY <1>3 DEF StartDirectly, Initializes
    <3>2. QED
      BY <2>1, <3>1, InitializeOK
  <2>3. ClientOK'
    <3>1. starts' \in 0..MaxStarts
      BY <2>1
    <3>2. QED
      BY <1>3, <2>2, <3>1, Zenon DEF StartDirectly, Loose, ClientOK
  <2>0. ReportsOK'
    BY <1>3, <2>2, Zenon DEF StartDirectly, Loose, ReportsOK
  <2>4. PICK p \in {"started", "idle"} : Goto(t, p)
    BY <1>3 DEF StartDirectly
  <2>5. \A u \in Threads : pc'[u] = IF u = t THEN p ELSE pc[u]
    BY <2>4, ThreadSets DEF Goto, Loose, ThreadsOK
  <2>6. inRun[t] = None
    BY <1>3, ThreadSets DEF StartDirectly, Loose, ThreadsOK, ThreadOK, RunPhases, InStop
  <2>7. \A u \in Threads : ThreadOK(pc'[u], inRun[u])
    BY <2>5, <2>6 DEF Loose, ThreadsOK, ThreadOK, Phases, RunPhases
  <2>8. ThreadsOK'
    BY <1>3, <2>4, <2>7 DEF StartDirectly, Loose, ThreadsOK, Phases, Goto
  <2>9. Places'
    BY <2>1, <2>5, ThreadSets DEF Loose, Places, ClientOK
  <2>10. QED
    BY <2>0, <2>2, <2>3, <2>8, <2>9 DEF Loose
<1>4. ASSUME NEW t \in Apps, Stop(t) PROVE Loose'
  <2>1. ThreadsOK' /\ Places'
    <3>1. ThreadOK("stopping", inRun[t])
      BY <1>4, ThreadSets DEF Stop, Loose, ThreadsOK, ThreadOK, Phases, RunPhases, InStop
    <3>2. QED
      BY <1>4, <3>1, ThreadSets, MovedInRun DEF Stop, StopBegins, client, Loose, ThreadsOK
  <2>2. QED
    BY <1>4, <2>1, ThreadSets
    DEF Stop, StopBegins, Loose, ClientOK, EventsOK, ReportsOK, client
<1>5. QED
  BY <1>1, <1>2, <1>3, <1>4, ThreadSets DEF Call

\* Most steps leave the client, the queues or the reports alone.
LEMMA LooseRest ==
  ASSUME Loose, ThreadsOK', Places', UNCHANGED enabled,
         running' \in BOOLEAN /\ stopped' \in BOOLEAN /\ UNCHANGED <<hasThread, starts>>,
         scheduler' \in {None} \cup Scheds, EventsOK', ReportsOK'
  PROVE  Loose'
<1>1. starts' \in 0..MaxStarts
  BY DEF Loose, ClientOK
<1>2. ClientOK'
  BY <1>1, Zenon DEF Loose, ClientOK
<1>3. QED
  BY <1>2 DEF Loose

\* A step that leaves the client and its schedulers alone.
LEMMA LooseQuiet ==
  ASSUME Loose, ThreadsOK', Places', UNCHANGED <<client, enabled, events>>, ReportsOK'
  PROVE  Loose'
<1>1. UNCHANGED <<running, stopped, hasThread, scheduler, starts>>
  BY DEF client
<1>2. /\ running' \in BOOLEAN /\ stopped' \in BOOLEAN
      /\ scheduler' \in {None} \cup Scheds
  BY <1>1, Zenon DEF Loose, ClientOK
<1>3. EventsOK'
  BY DEF Loose, EventsOK
<1>4. QED
  BY <1>1, <1>2, <1>3, LooseRest

\* What a thread does in a call or in run().
LEMMA LooseStep == ASSUME Loose, NEW t \in Threads, Step(t) PROVE Loose'
<1>0. /\ ThreadOK(pc[t], inRun[t]) /\ pc[t] \in Phases /\ inRun[t] \in {None} \cup Scheds
      /\ inRun[t] = None => pc[t] \notin RunPhases
      /\ inRun[t] # None => pc[t] \in RunPhases \cup InStop
  BY DEF Loose, ThreadsOK, ThreadOK
<1>a. UNCHANGED job => job' \in [Threads -> Kinds]
  BY DEF Loose, ThreadsOK
<1>b. UNCHANGED reports => ReportsOK'
  BY DEF Loose, ReportsOK, reports
<1>c. UNCHANGED client => starts' = starts
  BY DEF client
<1>1. CASE Return(t) \/ Report(t)
  <2>1. PICK p \in {"idle", "direct", "accept"} : Goto(t, p) /\ pc[t] = "started"
    BY <1>1 DEF Return, Report
  <2>2. ThreadOK(p, inRun[t]) /\ p # "new" /\ pc[t] # "absent"
    BY <1>0, <2>1 DEF ThreadOK, RunPhases, Phases, InStop
  <2>3. UNCHANGED <<client, enabled, events, inRun, job, reports>>
    BY <1>1 DEF Return, Report
  <2>4. ThreadsOK' /\ Places'
    BY <1>a, <1>c, <2>1, <2>2, <2>3, MovedInRun
  <2>5. QED
    BY <1>b, <2>3, <2>4, LooseQuiet
<1>2. CASE Accept(t)
  <2>1. Goto(t, "idle") /\ pc[t] = "accept"
    BY <1>2 DEF Accept
  <2>2. ThreadOK("idle", inRun[t]) /\ pc[t] # "absent"
    BY <1>0, <2>1 DEF ThreadOK, RunPhases, Phases, InStop
  <2>3. UNCHANGED <<client, enabled, events, inRun, job>>
    BY <1>2 DEF Accept
  <2>4. ThreadsOK' /\ Places'
    BY <1>a, <1>c, <2>1, <2>2, <2>3, MovedInRun
  <2>5. ReportsOK'
    <3>1. PICK r \in Reports :
            /\ accepted' = accepted \cup {r} /\ late' = IF halted THEN late \cup {r} ELSE late
            /\ \/ held' = held \cup {r} /\ UNCHANGED <<sent, lost>>
               \/ (Send({r}) \/ Raise({r})) /\ UNCHANGED held
            /\ UNCHANGED <<batch, dropped, halted>>
      BY <1>2 DEF Accept
    <3>2. QED
      BY <3>1, Zenon DEF Send, Raise, Loose, ReportsOK
  <2>6. QED
    BY <2>3, <2>4, <2>5, LooseQuiet
<1>3. CASE RunScheduler(t)
  <2>1. pc[t] \in {"direct", "inited"} /\ UNCHANGED <<client, enabled, events, job, reports>>
    BY <1>3 DEF RunScheduler
  <2>2. ThreadsOK' /\ Places'
    <3>1. CASE scheduler = None
      BY <1>3, <1>c, <2>1, <3>1, ThreadDies DEF RunScheduler
    <3>2. CASE scheduler # None
      <4>1. scheduler \in Scheds
        BY <3>2 DEF Loose, ClientOK
      <4>2. ThreadOK("loop", scheduler)
        BY <4>1 DEF ThreadOK, Phases, RunPhases
      <4>3. Goto(t, "loop") /\ inRun' = [inRun EXCEPT ![t] = scheduler]
        BY <1>3, <3>2 DEF RunScheduler
      <4>4. QED
        BY <1>a, <1>c, <2>1, <4>2, <4>3, Moved
    <3>3. QED
      BY <3>1, <3>2
  <2>3. QED
    BY <1>b, <2>1, <2>2, LooseQuiet
<1>4. CASE InitThread(t)
  <2>1. pc[t] = "new" /\ t \in Scheds
    BY <1>4, ThreadSets DEF InitThread, Loose, Places
  <2>2. PICK p \in {"inited", "crashed"} : Goto(t, p)
    BY <1>4 DEF InitThread
  <2>3. ThreadOK(p, inRun[t]) /\ p # "new" /\ pc[t] # "absent"
    BY <1>0, <2>1, <2>2 DEF ThreadOK, RunPhases, Phases, InStop
  <2>4. UNCHANGED <<stopped, hasThread, starts, enabled, inRun, job, batch,
                    accepted, late, halted>>
    BY <1>4 DEF InitThread
  <2>5. ThreadsOK' /\ Places'
    BY <1>a, <2>2, <2>3, <2>4, MovedInRun
  <2>6. CASE stopped /\ Clear /\ running' = FALSE /\ scheduler' = t
             /\ UNCHANGED <<events, sent, lost>>
    <3>1. EventsOK' /\ stopped' \in BOOLEAN
      BY <2>4, <2>6, Zenon DEF Loose, ClientOK, EventsOK
    <3>2. ReportsOK'
      BY <2>4, <2>6, Zenon DEF Clear, Loose, ReportsOK
    <3>3. scheduler' \in {None} \cup Scheds
      BY <2>1, <2>6
    <3>4. running' \in BOOLEAN
      BY <2>6, Zenon
    <3>5. QED
      BY <2>4, <2>5, <3>1, <3>2, <3>3, <3>4, LooseRest
  <2>7. CASE Initializes(t, RunDirectly) /\ UNCHANGED <<running, dropped>>
    <3>1. /\ scheduler' \in Scheds /\ EventsOK'
          /\ held' \in SUBSET Reports /\ sent' \in SUBSET Reports /\ lost' \in SUBSET Reports
      <4> DEFINE direct == RunDirectly
      <4>1. Initializes(t, direct)
        BY <2>7
      <4> HIDE DEF direct
      <4>2. QED
        BY <2>1, <4>1, InitializeOK
    <3>2. ReportsOK'
      BY <2>4, <2>7, <3>1, Zenon DEF Loose, ReportsOK
    <3>3. running' \in BOOLEAN /\ stopped' \in BOOLEAN
      BY <2>4, <2>7, Zenon DEF Loose, ClientOK
    <3>4. QED
      BY <2>4, <2>5, <3>1, <3>2, <3>3, LooseRest
  <2>8. QED
    BY <1>4, <2>6, <2>7 DEF InitThread, Initializes
<1>5. CASE Shutdown(t)
  <2>1. pc[t] = "shutdown" /\ UNCHANGED <<client, enabled, events, inRun, job>>
    BY <1>5 DEF Shutdown, StopBegins
  <2>2. PICK p \in {"stopping", "loop"} : Goto(t, p)
    BY <1>5 DEF Shutdown, StopBegins
  <2>3. ThreadOK(p, inRun[t]) /\ p # "new" /\ pc[t] # "absent"
    BY <1>0, <2>1, <2>2 DEF ThreadOK, RunPhases, Phases, InStop
  <2>4. ThreadsOK' /\ Places'
    BY <1>a, <1>c, <2>1, <2>2, <2>3, MovedInRun
  <2>5. ReportsOK'
    <3>1. CASE UNCHANGED reports
      BY <1>b, <3>1
    <3>2. CASE StopBegins(t)
      <4>1. batch' \in [Threads -> SUBSET Reports]
        BY <3>2 DEF StopBegins, Loose, ReportsOK
      <4>2. QED
        BY <3>2, <4>1, Zenon DEF StopBegins, Loose, ReportsOK
    <3>3. QED
      BY <1>5, <3>1, <3>2 DEF Shutdown
  <2>6. QED
    BY <2>1, <2>4, <2>5, LooseQuiet
<1>6. CASE StopSent(t)
  <2>1. pc[t] = "stopping" /\ Goto(t, "stopped") /\ UNCHANGED <<enabled, events, inRun, job>>
        /\ UNCHANGED <<running, hasThread, scheduler, starts>> /\ stopped' = TRUE
    BY <1>6 DEF StopSent
  <2>2. ThreadOK("stopped", inRun[t])
    BY <1>0, <2>1 DEF ThreadOK, RunPhases, Phases, InStop
  <2>3. ThreadsOK' /\ Places'
    BY <1>a, <2>1, <2>2, MovedInRun
  <2>4. ReportsOK'
    <3>1. batch' \in [Threads -> SUBSET Reports] /\ batch[t] \in SUBSET Reports
      BY <1>6 DEF StopSent, Loose, ReportsOK
    <3>2. sent' \in SUBSET Reports
          /\ UNCHANGED <<held, dropped, lost, accepted, late, halted>>
      BY <1>6, <3>1 DEF StopSent, Send, Loose, ReportsOK
    <3>3. QED
      BY <3>1, <3>2, Zenon DEF Loose, ReportsOK
  <2>5. EventsOK'
    BY <2>1 DEF Loose, EventsOK
  <2>6. running' \in BOOLEAN /\ stopped' \in BOOLEAN /\ scheduler' \in {None} \cup Scheds
    BY <2>1, Zenon DEF Loose, ClientOK
  <2>7. QED
    BY <2>1, <2>3, <2>4, <2>5, <2>6, LooseRest
<1>14. CASE StopCleans(t)
  <2>1. pc[t] = "stopped" /\ Goto(t, "ending") /\ UNCHANGED <<enabled, events, inRun, job>>
        /\ UNCHANGED <<stopped, hasThread, scheduler, starts>>
    BY <1>14 DEF StopCleans
  <2>2. ThreadOK("ending", inRun[t])
    BY <1>0, <2>1 DEF ThreadOK, RunPhases, Phases, InStop
  <2>3. ThreadsOK' /\ Places'
    BY <1>a, <2>1, <2>2, MovedInRun
  <2>4. ReportsOK'
    <3>1. held' \in SUBSET Reports /\ dropped' \in SUBSET Reports
          /\ UNCHANGED <<batch, sent, lost, accepted, late, halted>>
      BY <1>14 DEF StopCleans, Clear, Loose, ReportsOK
    <3>2. QED
      BY <3>1, Zenon DEF Loose, ReportsOK
  <2>5. EventsOK'
    BY <2>1 DEF Loose, EventsOK
  <2>6. running' \in BOOLEAN
    BY <1>14, Zenon DEF StopCleans
  <2>7. stopped' \in BOOLEAN /\ scheduler' \in {None} \cup Scheds
    BY <2>1, Zenon DEF Loose, ClientOK
  <2>8. QED
    BY <2>1, <2>3, <2>4, <2>5, <2>6, <2>7, LooseRest
<1>15. CASE StopEnds(t)
  <2>1. pc[t] = "ending" /\ Goto(t, Back(t)) /\ UNCHANGED <<enabled, events, inRun, job, reports>>
        /\ UNCHANGED <<running, stopped, hasThread, starts>> /\ scheduler' = None
    BY <1>15 DEF StopEnds
  <2>2. ThreadOK(Back(t), inRun[t]) /\ Back(t) # "new"
    BY <1>0 DEF ThreadOK, RunPhases, Phases, Back
  <2>3. ThreadsOK' /\ Places'
    BY <1>a, <2>1, <2>2, MovedInRun
  <2>4. EventsOK'
    BY <2>1 DEF Loose, EventsOK
  <2>5. running' \in BOOLEAN /\ stopped' \in BOOLEAN
    BY <2>1, Zenon DEF Loose, ClientOK
  <2>6. QED
    BY <1>b, <2>1, <2>3, <2>4, <2>5, LooseRest
<1>7. CASE StopRaises(t)
  <2>1. pc[t] = "stopping" /\ Dies(t) /\ UNCHANGED <<client, enabled, events, job>>
    BY <1>7 DEF StopRaises
  <2>2. ThreadsOK' /\ Places'
    BY <1>c, <2>1, ThreadDies
  <2>3. batch' \in [Threads -> SUBSET Reports] /\ batch[t] \in SUBSET Reports
    BY <1>7 DEF StopRaises, Loose, ReportsOK
  <2>4. ReportsOK'
    BY <1>7, <2>3, Zenon DEF StopRaises, Raise, Loose, ReportsOK
  <2>5. QED
    BY <2>1, <2>2, <2>4, LooseQuiet
<1>8. CASE \E k \in Kinds : Pop(t, k)
  <2>1. PICK k \in Kinds : Pop(t, k)
    BY <1>8
  <2>2. pc[t] = "loop" /\ Goto(t, "event") /\ UNCHANGED <<client, enabled, inRun, reports>>
    BY <2>1 DEF Pop
  <2>3. ThreadOK("event", inRun[t])
    BY <1>0, <2>2 DEF ThreadOK, RunPhases, Phases
  <2>4. job' \in [Threads -> Kinds]
    BY <2>1 DEF Pop, Loose, ThreadsOK
  <2>5. ThreadsOK' /\ Places'
    BY <1>c, <2>2, <2>3, <2>4, MovedInRun
  <2>6. EventsOK'
    <3>1. inRun[t] \in Scheds
      BY <1>0, <2>2 DEF RunPhases
    <3>2. events[inRun[t]][k] \in Nat /\ events[inRun[t]][k] > 0
      BY <2>1, <3>1 DEF Pop, Loose, EventsOK
    <3>3. QED
      BY <2>1, <3>1, <3>2 DEF Pop, Loose, EventsOK
  <2>7. UNCHANGED <<running, stopped, hasThread, scheduler, starts>>
    BY <2>2 DEF client
  <2>8. /\ running' \in BOOLEAN /\ stopped' \in BOOLEAN /\ scheduler' \in {None} \cup Scheds
    BY <2>7, Zenon DEF Loose, ClientOK
  <2>9. QED
    BY <1>b, <2>2, <2>5, <2>6, <2>7, <2>8, LooseRest
<1>9. CASE RunEnds(t)
  <2>1. pc[t] = "loop" /\ UNCHANGED <<client, enabled, events, job, reports>>
    BY <1>9 DEF RunEnds
  <2>2. PICK p \in {"accept", "done"} : Goto(t, p) /\ inRun' = [inRun EXCEPT ![t] = None]
    BY <1>9 DEF RunEnds
  <2>3. ThreadOK(p, None) /\ p # "new"
    BY <2>2 DEF ThreadOK, RunPhases, Phases
  <2>4. ThreadsOK' /\ Places'
    BY <1>a, <1>c, <2>1, <2>2, <2>3, Moved
  <2>5. QED
    BY <1>b, <2>1, <2>4, LooseQuiet
<1>10. CASE FlushBegins(t)
  <2>1. pc[t] = "event" /\ UNCHANGED <<client, enabled, events, job>>
    BY <1>10 DEF FlushBegins
  <2>2. ThreadsOK' /\ Places'
    <3>1. CASE Dies(t)
      BY <1>c, <2>1, <3>1, ThreadDies
    <3>2. CASE ~Dies(t)
      <4>1. PICK p \in {"cleaning", "loop", "entering", "sending"} :
              Goto(t, p) /\ UNCHANGED inRun
        BY <1>10, <3>2 DEF FlushBegins
      <4>2. ThreadOK(p, inRun[t]) /\ p # "new"
        BY <1>0, <2>1, <4>1 DEF ThreadOK, RunPhases, Phases
      <4>3. QED
        BY <1>a, <1>c, <2>1, <4>1, <4>2, MovedInRun
    <3>3. QED
      BY <3>1, <3>2
  <2>5. /\ batch' \in [Threads -> SUBSET Reports] /\ held' \in SUBSET Reports
        /\ UNCHANGED <<sent, dropped, lost, accepted, late, halted>>
    BY <1>10 DEF FlushBegins, Loose, ReportsOK
  <2>6. ReportsOK'
    BY <2>5, Zenon DEF Loose, ReportsOK
  <2>7. QED
    BY <2>1, <2>2, <2>6, LooseQuiet
<1>11. CASE Cleanup(t)
  <2>1. /\ pc[t] = "cleaning" /\ Goto(t, "loop")
        /\ UNCHANGED <<stopped, hasThread, scheduler, starts, events, enabled, inRun, job>>
    BY <1>11 DEF Cleanup
  <2>2. ThreadOK("loop", inRun[t])
    BY <1>0, <2>1 DEF ThreadOK, RunPhases, Phases
  <2>3. ThreadsOK' /\ Places'
    BY <1>a, <2>1, <2>2, MovedInRun
  <2>4. ReportsOK'
    BY <1>11, Zenon DEF Cleanup, Clear, Loose, ReportsOK
  <2>5. running' \in BOOLEAN /\ stopped' \in BOOLEAN /\ scheduler' \in {None} \cup Scheds
    BY <1>11, Zenon DEF Cleanup, Loose, ClientOK
  <2>6. EventsOK'
    BY <2>1 DEF Loose, EventsOK
  <2>7. QED
    BY <2>1, <2>3, <2>4, <2>5, <2>6, LooseRest
<1>12. CASE FlushSent(t)
  <2>1. pc[t] = "sending" /\ UNCHANGED <<client, enabled, events, job>>
    BY <1>12 DEF FlushSent
  <2>2. ThreadsOK' /\ Places'
    <3>1. CASE Dies(t)
      BY <1>c, <2>1, <3>1, ThreadDies
    <3>2. CASE ~Dies(t)
      <4>1. PICK p \in {"entering", "shutdown"} : Goto(t, p) /\ UNCHANGED inRun
        BY <1>12, <3>2 DEF FlushSent
      <4>2. ThreadOK(p, inRun[t]) /\ p # "new"
        BY <1>0, <2>1, <4>1 DEF ThreadOK, RunPhases, Phases
      <4>3. QED
        BY <1>a, <1>c, <2>1, <4>1, <4>2, MovedInRun
    <3>3. QED
      BY <3>1, <3>2
  <2>3. batch' \in [Threads -> SUBSET Reports] /\ batch[t] \in SUBSET Reports
    BY <1>12 DEF FlushSent, Loose, ReportsOK
  <2>4. sent' \in SUBSET Reports /\ lost' \in SUBSET Reports
        /\ UNCHANGED <<held, dropped, accepted, late, halted>>
    BY <1>12, <2>3 DEF FlushSent, Send, Raise, Loose, ReportsOK
  <2>5. ReportsOK'
    BY <2>3, <2>4, Zenon DEF Loose, ReportsOK
  <2>6. QED
    BY <2>1, <2>2, <2>5, LooseQuiet
<1>13. CASE Enter(t)
  <2>1. pc[t] = "entering" /\ UNCHANGED <<client, enabled, job, reports>>
    BY <1>13 DEF Enter
  <2>2. CASE scheduler = None
    <3>1. Dies(t) /\ UNCHANGED events
      BY <1>13, <2>2 DEF Enter
    <3>2. ThreadsOK' /\ Places'
      BY <1>c, <2>1, <3>1, ThreadDies
    <3>3. QED
      BY <1>b, <2>1, <3>1, <3>2, LooseQuiet
  <2>3. CASE scheduler # None
    <3>1. /\ events' = [events EXCEPT ![scheduler][job[t]] = @ + 1]
          /\ Goto(t, "loop") /\ UNCHANGED inRun
      BY <1>13, <2>3 DEF Enter
    <3>2. ThreadOK("loop", inRun[t])
      BY <1>0, <2>1 DEF ThreadOK, RunPhases, Phases
    <3>3. ThreadsOK' /\ Places'
      BY <1>a, <1>c, <2>1, <3>1, <3>2, MovedInRun
    <3>4. scheduler \in Scheds /\ job[t] \in Kinds
      BY <2>3 DEF Loose, ClientOK, ThreadsOK
    <3>5. EventsOK'
      BY <3>1, <3>4 DEF Loose, EventsOK
    <3>6. UNCHANGED <<running, stopped, hasThread, scheduler, starts>>
      BY <2>1 DEF client
    <3>7. /\ running' \in BOOLEAN /\ stopped' \in BOOLEAN
          /\ scheduler' \in {None} \cup Scheds
      BY <3>6, Zenon DEF Loose, ClientOK
    <3>8. QED
      BY <1>b, <2>1, <3>3, <3>5, <3>6, <3>7, LooseRest
  <2>4. QED
    BY <2>2, <2>3
<1>16. QED
  BY <1>1, <1>2, <1>3, <1>4, <1>5, <1>6, <1>7, <1>8, <1>9, <1>10, <1>11, <1>12, <1>13,
     <1>14, <1>15
  DEF Step

LEMMA LooseNext == Loose /\ [Next]_vars => Loose'
<1> SUFFICES ASSUME Loose, [Next]_vars PROVE Loose'
  OBVIOUS
<1>1. CASE UNCHANGED vars
  <2>1. ClientOK' /\ EventsOK'
    BY <1>1, Zenon DEF vars, client, Loose, ClientOK, EventsOK
  <2>2. ReportsOK'
    BY <1>1, Zenon DEF vars, reports, Loose, ReportsOK
  <2>3. ThreadsOK' /\ Places'
    BY <1>1, Zenon DEF vars, client, threads, Loose, ThreadsOK, Places
  <2>4. QED
    BY <2>1, <2>2, <2>3 DEF Loose
<1>2. QED
  BY <1>1, LooseCall, LooseStep DEF Next, Rest

-----------------------------------------------------------------------------
(* Counting the repeats.                                                   *)

\* The threads that were started and have not entered their first flushes yet.
Due == {s \in Scheds : pc[s] = "new"}

\* RepeatsPerStart, with the first flushes that are still to come.
CountInv ==
  \A k \in Kinds :
    /\ IsFiniteSet(Queued(k))
    /\ Cardinality(Queued(k)) + Cardinality(UnderWay(k)) + Cardinality(Due) <= starts

\* Finite sets that grow by at most an element, or shrink by one.
LEMMA Grown ==
  ASSUME NEW S, IsFiniteSet(S), NEW T
  PROVE  /\ T \subseteq S => IsFiniteSet(T) /\ Cardinality(T) <= Cardinality(S)
         /\ \A x : T \subseteq S \cup {x} =>
              IsFiniteSet(T) /\ Cardinality(T) <= Cardinality(S) + 1
         /\ \A x \in S : T \subseteq S \ {x} =>
              IsFiniteSet(T) /\ Cardinality(T) <= Cardinality(S) - 1
         /\ Cardinality(S) \in Nat
         /\ IsFiniteSet(T) => Cardinality(T) \in Nat
<1>1. Cardinality(S) \in Nat /\ (IsFiniteSet(T) => Cardinality(T) \in Nat)
  BY FS_CardinalityType
<1>2. T \subseteq S => IsFiniteSet(T) /\ Cardinality(T) <= Cardinality(S)
  BY FS_Subset
<1>3. ASSUME NEW x, T \subseteq S \cup {x}
      PROVE  IsFiniteSet(T) /\ Cardinality(T) <= Cardinality(S) + 1
  <2> DEFINE more == S \cup {x}
  <2>1. IsFiniteSet(more) /\ Cardinality(more) <= Cardinality(S) + 1
    <3>1. /\ IsFiniteSet(more)
          /\ Cardinality(more) = IF x \in S THEN Cardinality(S) ELSE Cardinality(S) + 1
      BY FS_AddElement
    <3> HIDE DEF more
    <3>2. QED
      BY <1>1, <3>1
  <2> HIDE DEF more
  <2>2. IsFiniteSet(T) /\ Cardinality(T) <= Cardinality(more) /\ Cardinality(more) \in Nat
    <3>1. T \in SUBSET more
      BY <1>3 DEF more
    <3>2. IsFiniteSet(T) /\ Cardinality(T) <= Cardinality(more)
      BY <2>1, <3>1, FS_Subset
    <3>3. Cardinality(more) \in Nat
      BY <2>1, FS_CardinalityType
    <3>4. QED
      BY <3>2, <3>3
  <2>3. Cardinality(T) \in Nat
    BY <2>2, <1>1
  <2>4. QED
    BY <1>1, <2>1, <2>2, <2>3
<1>4. ASSUME NEW x \in S, T \subseteq S \ {x}
      PROVE  IsFiniteSet(T) /\ Cardinality(T) <= Cardinality(S) - 1
  <2> DEFINE less == S \ {x}
  <2>1. IsFiniteSet(less) /\ Cardinality(less) = Cardinality(S) - 1
    BY FS_RemoveElement
  <2> HIDE DEF less
  <2>2. IsFiniteSet(T) /\ Cardinality(T) <= Cardinality(less)
    BY <1>4, <2>1, FS_Subset DEF less
  <2>3. QED
    BY <2>1, <2>2
<1>5. QED
  BY <1>1, <1>2, <1>3, <1>4

LEMMA ThreadsFinite ==
  /\ IsFiniteSet(Threads) /\ IsFiniteSet(Due)
  /\ \A k \in Kinds : IsFiniteSet(UnderWay(k))
<1>1. IsFiniteSet(Scheds)
  BY FS_Interval
<1>2. IsFiniteSet(Threads)
  BY <1>1, FS_Union DEF Threads
<1>3. QED
  BY <1>1, <1>2, FS_Subset DEF Due, UnderWay

\* One queue of one kind gets longer or shorter by an event.
LEMMA QueuedChanges ==
  ASSUME EventsOK, EventsOK',
         NEW k \in Kinds, IsFiniteSet(Queued(k)), NEW s \in Scheds,
         \A r \in Scheds \ {s} : events'[r][k] = events[r][k]
  PROVE  /\ events'[s][k] <= events[s][k] + 1 =>
              /\ IsFiniteSet(Queued(k)')
              /\ Cardinality(Queued(k)') <= Cardinality(Queued(k)) + 1
         /\ events'[s][k] <= events[s][k] =>
              /\ IsFiniteSet(Queued(k)')
              /\ Cardinality(Queued(k)') <= Cardinality(Queued(k))
         /\ events'[s][k] = events[s][k] - 1 =>
              /\ IsFiniteSet(Queued(k)')
              /\ Cardinality(Queued(k)') <= Cardinality(Queued(k)) - 1
<1> DEFINE Q == Queued(k)
           R == Queued(k)'
           e == events[s][k]
           f == events'[s][k]
<1>1. e \in Nat /\ f \in Nat
  BY DEF EventsOK
<1>2. \A x : x \in Q <=> \E r \in Scheds : \E n \in 1..events[r][k] : x = <<r, n>>
  BY DEF Queued
<1>3. \A x : x \in R <=> \E r \in Scheds : \E n \in 1..events'[r][k] : x = <<r, n>>
  BY DEF Queued
<1> HIDE DEF Q, R
<1>4. ASSUME NEW x \in R
      PROVE  (\E n \in 1..f : x = <<s, n>>) \/ (x \in Q /\ \A n : x # <<s, n>>)
  <2>0. PICK r \in Scheds : \E n \in 1..events'[r][k] : x = <<r, n>>
    BY <1>3
  <2>1. PICK n \in 1..events'[r][k] : x = <<r, n>>
    BY <2>0
  <2>2. CASE r = s
    BY <2>1, <2>2
  <2>3. CASE r # s
    BY <1>2, <2>1, <2>3
  <2>4. QED
    BY <2>2, <2>3
<1>5. f <= e + 1 => R \subseteq Q \cup {<<s, e + 1>>}
  <2>1. ASSUME f <= e + 1, NEW n \in 1..f PROVE n \in 1..e \/ n = e + 1
    BY <1>1, <2>1
  <2>2. \A n \in 1..e : <<s, n>> \in Q
    BY <1>2
  <2>3. QED
    BY <1>4, <2>1, <2>2
<1>6. f <= e => R \subseteq Q
  <2>1. ASSUME f <= e, NEW n \in 1..f PROVE n \in 1..e
    BY <1>1, <2>1
  <2>2. QED
    BY <1>2, <1>4, <2>1
<1>7. f = e - 1 => <<s, e>> \in Q /\ R \subseteq Q \ {<<s, e>>}
  <2>1. ASSUME f = e - 1, NEW n \in 1..f PROVE n \in 1..e /\ n # e /\ e \in 1..e
    BY <1>1, <2>1
  <2>2. f = e - 1 => e \in 1..e
    BY <1>1
  <2>3. \A n \in 1..e : <<s, n>> \in Q
    BY <1>2
  <2>4. QED
    BY <1>4, <2>1, <2>2, <2>3
<1>8. IsFiniteSet(Q)
  BY DEF Q
<1>9. QED
  BY <1>5, <1>6, <1>7, <1>8, Grown DEF Q, R

RepeatPhases == {"event", "sending", "entering"}

LEMMA CountInit == Init => CountInv
<1> SUFFICES ASSUME Init, NEW k \in Kinds
             PROVE  /\ IsFiniteSet(Queued(k))
                    /\ Cardinality(Queued(k)) + Cardinality(UnderWay(k)) + Cardinality(Due)
                         <= starts
  BY DEF CountInv
<1>1. Queued(k) = {} /\ starts = 0
  BY DEF Init, Queued
<1>2. UnderWay(k) = {} /\ Due = {}
  BY ThreadSets DEF Init, UnderWay, Due
<1>3. QED
  BY <1>1, <1>2, FS_EmptySet

\* A thread that begins no repeat, and goes on with none but its own.
LEMMA QuietCount ==
  ASSUME Loose, CountInv, UNCHANGED <<events, starts>>, NEW t \in Threads,
         \A u \in Threads \ {t} : pc'[u] = pc[u] /\ job'[u] = job[u],
         pc'[t] # "new",
         pc'[t] \in RepeatPhases => pc[t] \in RepeatPhases /\ job'[t] = job[t]
  PROVE  CountInv'
<1> SUFFICES ASSUME NEW k \in Kinds
             PROVE  /\ IsFiniteSet(Queued(k)')
                    /\ Cardinality(Queued(k)') + Cardinality(UnderWay(k)') + Cardinality(Due')
                         <= starts'
  BY DEF CountInv
<1>1. Queued(k)' = Queued(k)
  BY DEF Queued
<1>2. UnderWay(k)' \subseteq UnderWay(k)
  BY DEF UnderWay, RepeatPhases
<1>3. Due' \subseteq Due
  BY ThreadSets DEF Due
<1>4. /\ IsFiniteSet(Queued(k)) /\ IsFiniteSet(UnderWay(k)) /\ IsFiniteSet(Due)
      /\ Cardinality(Queued(k)) + Cardinality(UnderWay(k)) + Cardinality(Due) <= starts
  BY ThreadsFinite DEF CountInv
<1>5. /\ Cardinality(UnderWay(k)') <= Cardinality(UnderWay(k))
      /\ Cardinality(UnderWay(k)) \in Nat /\ Cardinality(UnderWay(k)') \in Nat
  BY <1>2, <1>4, Grown
<1>6. Cardinality(Due') <= Cardinality(Due) /\ Cardinality(Due) \in Nat /\ Cardinality(Due') \in Nat
  BY <1>3, <1>4, Grown
<1>7. Cardinality(Queued(k)) \in Nat /\ starts \in Nat
  BY <1>4, Grown DEF Loose, ClientOK
<1>8. QED
  BY <1>1, <1>4, <1>5, <1>6, <1>7

\* A start that queues the first repeat of each kind, or none, at once.
LEMMA InitializeQueues ==
  ASSUME Loose, CountInv, NEW n \in Scheds, NEW direct, Initializes(n, direct), NEW k \in Kinds
  PROVE  IsFiniteSet(Queued(k)') /\ Cardinality(Queued(k)') <= Cardinality(Queued(k)) + 1
<1>1. IsFiniteSet(Queued(k)) /\ EventsOK
  BY DEF CountInv, Loose
<1>2. /\ EventsOK' /\ \A r \in Scheds \ {n} : events'[r][k] = events[r][k]
      /\ events'[n][k] <= events[n][k] + 1
  BY <1>1, InitializeEvents
<1>3. QED
  BY <1>1, <1>2, QueuedChanges

\* No call of the application starts more repeats than it starts clients.
LEMMA CountCall == Loose /\ CountInv /\ Call => CountInv'
<1> SUFFICES ASSUME Loose, CountInv, Call PROVE CountInv'
  OBVIOUS
<1>0. Loose'
  BY LooseCall
<1>1. ASSUME NEW t \in Apps, AlreadyStarted(t) \/ Stop(t) PROVE CountInv'
  <2>1. UNCHANGED <<events, starts, job>> /\ t \in Threads
    BY <1>1, ThreadSets DEF AlreadyStarted, Stop, StopBegins, client
  <2>2. PICK p \in {"started", "stopping"} : Goto(t, p)
    BY <1>1 DEF AlreadyStarted, Stop, StopBegins
  <2>3. \A u \in Threads : pc'[u] = IF u = t THEN p ELSE pc[u]
    BY <2>2 DEF Goto, Loose, ThreadsOK
  <2>4. QED
    BY <2>1, <2>2, <2>3, QuietCount DEF RepeatPhases
<1>2. ASSUME NEW t \in Apps, StartThread(t), NEW k \in Kinds
      PROVE  /\ IsFiniteSet(Queued(k)')
             /\ Cardinality(Queued(k)') + Cardinality(UnderWay(k)') + Cardinality(Due') <= starts'
  <2>1. /\ starts \in Nat /\ starts' = starts + 1 /\ UNCHANGED <<events, job>> /\ t \in Threads
        /\ pc' = [pc EXCEPT ![t] = "started", ![starts'] = "new"]
    BY <1>2, ThreadSets DEF StartThread, Loose, ClientOK
  <2>2. \A u \in Threads : pc'[u] = pc[u] \/ pc'[u] = "started" \/ (pc'[u] = "new" /\ u = starts')
    <3>1. pc \in [Threads -> Phases]
      BY DEF Loose, ThreadsOK
    <3>2. pc' = [pc EXCEPT ![t] = "started", ![starts'] = "new"]
      BY <2>1
    <3>3. QED
      BY <3>1, <3>2
  <2>3. Queued(k)' = Queued(k) /\ UnderWay(k)' \subseteq UnderWay(k)
    <3>1. UNCHANGED <<events, job>>
      BY <2>1
    <3>2. Queued(k)' = Queued(k)
      BY <3>1 DEF Queued
    <3>3. \A u \in Threads : pc'[u] \in RepeatPhases => pc[u] \in RepeatPhases
      BY <2>2 DEF RepeatPhases
    <3>4. UnderWay(k)' \subseteq UnderWay(k)
      BY <3>1, <3>3 DEF UnderWay, RepeatPhases
    <3>5. QED
      BY <3>2, <3>4
  <2>4. Due' \subseteq Due \cup {starts'}
    BY <2>2, ThreadSets DEF Due
  <2>5. /\ IsFiniteSet(Queued(k)) /\ IsFiniteSet(UnderWay(k)) /\ IsFiniteSet(Due)
        /\ Cardinality(Queued(k)) + Cardinality(UnderWay(k)) + Cardinality(Due) <= starts
    BY ThreadsFinite DEF CountInv
  <2>6. /\ Cardinality(UnderWay(k)') <= Cardinality(UnderWay(k))
        /\ Cardinality(UnderWay(k)) \in Nat /\ Cardinality(UnderWay(k)') \in Nat
    BY <2>3, <2>5, Grown
  <2>7. /\ Cardinality(Due') <= Cardinality(Due) + 1
        /\ Cardinality(Due) \in Nat /\ Cardinality(Due') \in Nat
    BY <2>4, <2>5, Grown
  <2>8. Cardinality(Queued(k)) \in Nat
    BY <2>5, Grown
  <2>9. QED
    BY <2>1, <2>3, <2>5, <2>6, <2>7, <2>8
<1>3. ASSUME NEW t \in Apps, StartDirectly(t), NEW k \in Kinds
      PROVE  /\ IsFiniteSet(Queued(k)')
             /\ Cardinality(Queued(k)') + Cardinality(UnderWay(k)') + Cardinality(Due') <= starts'
  <2>1. /\ starts \in Nat /\ starts' = starts + 1 /\ starts' \in Scheds /\ t \in Threads
        /\ UNCHANGED job /\ Initializes(starts', TRUE)
    <3>1. /\ starts < MaxStarts /\ starts' = starts + 1 /\ UNCHANGED job
          /\ Initializes(starts', TRUE)
      BY <1>3 DEF StartDirectly, Initializes
    <3>2. starts \in 0..MaxStarts
      BY DEF Loose, ClientOK
    <3>3. starts' \in Scheds /\ starts \in Nat
      BY <3>1, <3>2
    <3>4. QED
      BY <3>1, <3>3, ThreadSets
  <2>2. PICK p \in {"started", "idle"} : Goto(t, p)
    BY <1>3 DEF StartDirectly
  <2>3. \A u \in Threads : pc'[u] = IF u = t THEN p ELSE pc[u]
    BY <2>2, <2>1 DEF Goto, Loose, ThreadsOK
  <2>4. UnderWay(k)' \subseteq UnderWay(k) /\ Due' \subseteq Due
    BY <2>1, <2>2, <2>3, ThreadSets DEF UnderWay, Due
  <2>5. IsFiniteSet(Queued(k)') /\ Cardinality(Queued(k)') <= Cardinality(Queued(k)) + 1
    BY <2>1, InitializeQueues
  <2>6. /\ IsFiniteSet(Queued(k)) /\ IsFiniteSet(UnderWay(k)) /\ IsFiniteSet(Due)
        /\ Cardinality(Queued(k)) + Cardinality(UnderWay(k)) + Cardinality(Due) <= starts
    BY ThreadsFinite DEF CountInv
  <2>7. /\ Cardinality(UnderWay(k)') <= Cardinality(UnderWay(k))
        /\ Cardinality(UnderWay(k)) \in Nat /\ Cardinality(UnderWay(k)') \in Nat
    BY <2>4, <2>6, Grown
  <2>8. Cardinality(Due') <= Cardinality(Due) /\ Cardinality(Due) \in Nat /\ Cardinality(Due') \in Nat
    BY <2>4, <2>6, Grown
  <2>9. Cardinality(Queued(k)) \in Nat /\ Cardinality(Queued(k)') \in Nat
    BY <2>5, <2>6, Grown
  <2>10. QED
    BY <2>1, <2>5, <2>6, <2>7, <2>8, <2>9
<1>4. QED
  BY <1>1, <1>2, <1>3, ThreadSets DEF Call, CountInv

\* Nor does any step of a thread: what it enters is what it popped.
LEMMA CountStep == ASSUME Loose, CountInv, NEW t \in Threads, Step(t) PROVE CountInv'
<1>0. Loose'
  BY LooseStep
<1>a. \A p : Goto(t, p) => \A u \in Threads : pc'[u] = IF u = t THEN p ELSE pc[u]
  BY DEF Goto, Loose, ThreadsOK
<1>b. ASSUME NEW p, Goto(t, p), UNCHANGED <<events, starts, job>>, p # "new",
             p \in RepeatPhases => pc[t] \in RepeatPhases
      PROVE  CountInv'
  BY <1>a, <1>b, QuietCount
<1>c. Dies(t) => \E p : Goto(t, p) /\ p # "new" /\ p \notin RepeatPhases
  BY DEF Dies, RepeatPhases
<1>d. UNCHANGED client => UNCHANGED starts
  BY DEF client
<1>1. CASE \/ Return(t) \/ Report(t) \/ Accept(t) \/ RunScheduler(t) \/ Shutdown(t)
           \/ StopRaises(t) \/ RunEnds(t) \/ FlushBegins(t) \/ FlushSent(t)
  <2>1. UNCHANGED <<client, events, job>>
    BY <1>1 DEF Return, Report, Accept, RunScheduler, Shutdown, StopBegins, StopRaises,
                RunEnds, FlushBegins, FlushSent
  <2>2. \E p : Goto(t, p) /\ p # "new" /\ (p \in RepeatPhases => pc[t] \in RepeatPhases)
    <3>1. CASE Dies(t)
      BY <1>c, <3>1
    <3>2. CASE ~Dies(t)
      <4>1. \/ \E p \in Phases \ (RepeatPhases \cup {"new"}) : Goto(t, p)
            \/ \E p \in RepeatPhases : Goto(t, p) /\ pc[t] \in RepeatPhases
        <5>1. CASE Return(t) \/ Report(t) \/ Accept(t) \/ RunScheduler(t) \/ RunEnds(t)
          BY <3>2, <5>1 DEF Return, Report, Accept, RunScheduler, RunEnds, Phases, RepeatPhases
        <5>2. CASE Shutdown(t) \/ StopRaises(t)
          BY <3>2, <5>2 DEF Shutdown, StopBegins, StopRaises, Phases, RepeatPhases
        <5>3. CASE FlushBegins(t) \/ FlushSent(t)
          BY <3>2, <5>3 DEF FlushBegins, FlushSent, Phases, RepeatPhases
        <5>4. QED
          BY <1>1, <5>1, <5>2, <5>3
      <4>2. "new" \notin RepeatPhases
        BY DEF RepeatPhases
      <4>3. QED
        BY <4>1, <4>2
    <3>3. QED
      BY <3>1, <3>2
  <2>3. QED
    BY <1>b, <1>d, <2>1, <2>2
<1>2. CASE StopSent(t) \/ StopCleans(t) \/ StopEnds(t) \/ Cleanup(t)
  <2>1. UNCHANGED <<starts, events, job>>
    BY <1>2 DEF StopSent, StopCleans, StopEnds, Cleanup
  <2>2. \E p : Goto(t, p) /\ p # "new" /\ p \notin RepeatPhases
    BY <1>2 DEF StopSent, StopCleans, StopEnds, Cleanup, Back, RepeatPhases
  <2>3. QED
    BY <1>b, <2>1, <2>2
<1>3. CASE InitThread(t)
  <2>1. /\ pc[t] = "new" /\ t \in Scheds /\ UNCHANGED <<starts, job>>
        /\ UNCHANGED events \/ Initializes(t, RunDirectly)
    BY <1>3, ThreadSets DEF InitThread, Initializes, Loose, Places
  <2>2. PICK p \in {"inited", "crashed"} : Goto(t, p)
    BY <1>3 DEF InitThread
  <2>3. CASE UNCHANGED events
    BY <1>b, <2>1, <2>2, <2>3 DEF RepeatPhases
  <2>4. ASSUME Initializes(t, RunDirectly), NEW k \in Kinds
        PROVE  /\ IsFiniteSet(Queued(k)')
               /\ Cardinality(Queued(k)') + Cardinality(UnderWay(k)') + Cardinality(Due')
                    <= starts'
    <3>1. IsFiniteSet(Queued(k)') /\ Cardinality(Queued(k)') <= Cardinality(Queued(k)) + 1
      <4> DEFINE direct == RunDirectly
      <4>1. Initializes(t, direct)
        BY <2>4
      <4> HIDE DEF direct
      <4>2. QED
        BY <2>1, <4>1, InitializeQueues
    <3>2. /\ IsFiniteSet(Queued(k)) /\ IsFiniteSet(UnderWay(k)) /\ IsFiniteSet(Due)
          /\ Cardinality(Queued(k)) + Cardinality(UnderWay(k)) + Cardinality(Due) <= starts
      BY ThreadsFinite DEF CountInv
    <3>3. UnderWay(k)' \subseteq UnderWay(k)
      BY <1>a, <2>1, <2>2 DEF UnderWay
    <3>4. t \in Due /\ Due' \subseteq Due \ {t}
      BY <1>a, <2>1, <2>2, ThreadSets DEF Due
    <3>5. /\ Cardinality(UnderWay(k)') <= Cardinality(UnderWay(k))
          /\ Cardinality(UnderWay(k)) \in Nat /\ Cardinality(UnderWay(k)') \in Nat
      BY <3>2, <3>3, Grown
    <3>6. /\ Cardinality(Due') <= Cardinality(Due) - 1
          /\ Cardinality(Due) \in Nat /\ Cardinality(Due') \in Nat
      BY <3>2, <3>4, Grown
    <3>7. Cardinality(Queued(k)) \in Nat /\ Cardinality(Queued(k)') \in Nat
      BY <3>1, <3>2, Grown
    <3>8. starts \in Nat /\ starts' = starts
      BY <2>1 DEF Loose, ClientOK
    <3>9. QED
      BY <3>1, <3>2, <3>5, <3>6, <3>7, <3>8
  <2>5. QED
    BY <2>1, <2>3, <2>4 DEF CountInv
<1>4. ASSUME NEW j \in Kinds, Pop(t, j), NEW k \in Kinds
      PROVE  /\ IsFiniteSet(Queued(k)')
             /\ Cardinality(Queued(k)') + Cardinality(UnderWay(k)') + Cardinality(Due') <= starts'
  <2> DEFINE s == inRun[t]
  <2>1. /\ pc[t] = "loop" /\ Goto(t, "event") /\ job' = [job EXCEPT ![t] = j]
        /\ events[s][j] > 0 /\ events' = [events EXCEPT ![s][j] = @ - 1]
        /\ UNCHANGED client
    BY <1>4 DEF Pop
  <2>2. s \in Scheds
    BY <2>1 DEF Loose, ThreadsOK, ThreadOK, RunPhases
  <2> HIDE DEF s
  <2>3. \A u \in Threads : job'[u] = IF u = t THEN j ELSE job[u]
    BY <2>1 DEF Loose, ThreadsOK
  <2>4. /\ IsFiniteSet(Queued(k)) /\ IsFiniteSet(UnderWay(k)) /\ IsFiniteSet(Due)
        /\ Cardinality(Queued(k)) + Cardinality(UnderWay(k)) + Cardinality(Due) <= starts
    BY ThreadsFinite DEF CountInv
  <2>5. /\ \A r \in Scheds \ {s} : events'[r][k] = events[r][k]
        /\ events[s][k] \in Nat
        /\ events'[s][k] = IF k = j THEN events[s][k] - 1 ELSE events[s][k]
    BY <2>1, <2>2 DEF Loose, EventsOK
  <2>6. /\ k = j => IsFiniteSet(Queued(k)') /\ Cardinality(Queued(k)') <= Cardinality(Queued(k)) - 1
        /\ k # j => IsFiniteSet(Queued(k)') /\ Cardinality(Queued(k)') <= Cardinality(Queued(k))
    BY <1>0, <2>2, <2>4, <2>5, QueuedChanges DEF Loose
  <2>7. /\ k = j => UnderWay(k)' \subseteq UnderWay(k) \cup {t}
        /\ k # j => UnderWay(k)' \subseteq UnderWay(k)
    BY <1>a, <2>1, <2>3 DEF UnderWay
  <2>8. Due' \subseteq Due
    BY <1>a, <2>1, ThreadSets DEF Due
  <2>9. /\ k = j => Cardinality(UnderWay(k)') <= Cardinality(UnderWay(k)) + 1
        /\ k # j => Cardinality(UnderWay(k)') <= Cardinality(UnderWay(k))
        /\ Cardinality(UnderWay(k)) \in Nat /\ Cardinality(UnderWay(k)') \in Nat
    BY <2>4, <2>7, Grown
  <2>10. /\ Cardinality(Due') <= Cardinality(Due)
         /\ Cardinality(Due) \in Nat /\ Cardinality(Due') \in Nat
    BY <2>4, <2>8, Grown
  <2>11. Cardinality(Queued(k)) \in Nat /\ Cardinality(Queued(k)') \in Nat
    BY <2>4, <2>6, Grown
  <2>12. starts \in Nat /\ starts' = starts
    BY <2>1 DEF client, Loose, ClientOK
  <2>13. QED
    BY <2>4, <2>6, <2>9, <2>10, <2>11, <2>12
<1>5. CASE Enter(t) /\ scheduler = None
  <2>1. Dies(t) /\ UNCHANGED <<client, events, job>>
    BY <1>5 DEF Enter
  <2>2. QED
    BY <1>b, <1>c, <1>d, <2>1
<1>6. ASSUME Enter(t), scheduler # None, NEW k \in Kinds
      PROVE  /\ IsFiniteSet(Queued(k)')
             /\ Cardinality(Queued(k)') + Cardinality(UnderWay(k)') + Cardinality(Due') <= starts'
  <2> DEFINE s == scheduler
             j == job[t]
  <2>1. /\ pc[t] = "entering" /\ Goto(t, "loop") /\ UNCHANGED <<client, job>>
        /\ events' = [events EXCEPT ![s][j] = @ + 1]
    BY <1>6 DEF Enter
  <2>2. s \in Scheds /\ j \in Kinds
    BY <1>6 DEF Loose, ClientOK, ThreadsOK
  <2>3. /\ IsFiniteSet(Queued(k)) /\ IsFiniteSet(UnderWay(k)) /\ IsFiniteSet(Due)
        /\ Cardinality(Queued(k)) + Cardinality(UnderWay(k)) + Cardinality(Due) <= starts
    BY ThreadsFinite DEF CountInv
  <2>4. /\ k = j => t \in UnderWay(k) /\ UnderWay(k)' \subseteq UnderWay(k) \ {t}
        /\ k # j => UnderWay(k)' \subseteq UnderWay(k)
    BY <1>a, <2>1 DEF UnderWay
  <2> HIDE DEF s, j
  <2>5. /\ \A r \in Scheds \ {s} : events'[r][k] = events[r][k]
        /\ events[s][k] \in Nat
        /\ events'[s][k] = IF k = j THEN events[s][k] + 1 ELSE events[s][k]
    BY <2>1, <2>2 DEF Loose, EventsOK
  <2>6. /\ k = j => IsFiniteSet(Queued(k)') /\ Cardinality(Queued(k)') <= Cardinality(Queued(k)) + 1
        /\ k # j => IsFiniteSet(Queued(k)') /\ Cardinality(Queued(k)') <= Cardinality(Queued(k))
    BY <1>0, <2>2, <2>3, <2>5, QueuedChanges DEF Loose
  <2>7. Due' \subseteq Due
    BY <1>a, <2>1, ThreadSets DEF Due
  <2>8. /\ k = j => Cardinality(UnderWay(k)') <= Cardinality(UnderWay(k)) - 1
        /\ k # j => Cardinality(UnderWay(k)') <= Cardinality(UnderWay(k))
        /\ Cardinality(UnderWay(k)) \in Nat /\ Cardinality(UnderWay(k)') \in Nat
    BY <2>3, <2>4, Grown
  <2>9. /\ Cardinality(Due') <= Cardinality(Due)
        /\ Cardinality(Due) \in Nat /\ Cardinality(Due') \in Nat
    BY <2>3, <2>7, Grown
  <2>10. Cardinality(Queued(k)) \in Nat /\ Cardinality(Queued(k)') \in Nat
    BY <2>3, <2>6, Grown
  <2>11. starts \in Nat /\ starts' = starts
    BY <2>1 DEF client, Loose, ClientOK
  <2>12. QED
    BY <2>3, <2>6, <2>8, <2>9, <2>10, <2>11
<1>7. QED
  BY <1>1, <1>2, <1>3, <1>4, <1>5, <1>6 DEF Step, CountInv

LEMMA CountNext == Loose /\ CountInv /\ [Next]_vars => CountInv'
<1> SUFFICES ASSUME Loose, CountInv, [Next]_vars PROVE CountInv'
  OBVIOUS
<1>1. CASE UNCHANGED vars
  <2>1. UNCHANGED <<events, pc, job, starts>>
    BY <1>1 DEF vars, client, threads
  <2>2. Due' = Due /\ \A k \in Kinds : Queued(k)' = Queued(k) /\ UnderWay(k)' = UnderWay(k)
    BY <2>1 DEF Queued, UnderWay, Due
  <2>3. QED
    BY <2>1, <2>2 DEF CountInv
<1>2. QED
  BY <1>1, CountCall, CountStep DEF Next, Rest

\* A queue holds no more events than the client was started.
LEMMA EventsBounded ==
  ASSUME Loose, CountInv, NEW s \in Scheds, NEW k \in Kinds
  PROVE  events[s][k] \in 0..MaxStarts
<1> DEFINE e == events[s][k]
           f == [n \in 1..e |-> <<s, n>>]
<1>1. e \in Nat /\ starts \in 0..MaxStarts
  BY DEF Loose, EventsOK, ClientOK
<1>2. f \in Injection(1..e, Queued(k))
  <2>1. \A n \in 1..e : <<s, n>> \in Queued(k)
    BY DEF Queued
  <2>2. f \in [1..e -> Queued(k)] /\ \A m, n \in 1..e : f[m] = f[n] => m = n
    BY <2>1
  <2> HIDE DEF f
  <2>3. QED
    BY <2>2 DEF Injection, IsInjective
<1>3. /\ IsFiniteSet(Queued(k))
      /\ Cardinality(Queued(k)) + Cardinality(UnderWay(k)) + Cardinality(Due) <= starts
  BY DEF CountInv
<1>4. Cardinality(Queued(k)) \in Nat /\ Cardinality(UnderWay(k)) \in Nat /\ Cardinality(Due) \in Nat
  BY <1>3, ThreadsFinite, Grown
<1> HIDE DEF e, f
<1>5. Cardinality(1..e) <= Cardinality(Queued(k))
  BY <1>2, <1>3, FS_Injection
<1>6. Cardinality(1..e) = IF 1 > e THEN 0 ELSE e - 1 + 1
  BY <1>1, FS_Interval
<1>7. e <= Cardinality(Queued(k))
  BY <1>1, <1>4, <1>5, <1>6
<1>8. e \in 0..MaxStarts
  BY <1>1, <1>3, <1>4, <1>7
<1>9. QED
  BY <1>8 DEF e

LEMMA LooseTypeOK == Loose /\ CountInv => TypeOK
<1> SUFFICES ASSUME Loose, CountInv PROVE TypeOK
  OBVIOUS
<1>1. events \in [Scheds -> [Kinds -> 0..MaxStarts]]
  <2>1. \A s \in Scheds : \A k \in Kinds : events[s][k] \in 0..MaxStarts
    BY EventsBounded
  <2>2. QED
    BY <2>1 DEF Loose, EventsOK
<1>2. QED
  BY <1>1, TypeOKParts DEF Loose

LEMMA Inductive == Spec => [](Loose /\ CountInv)
<1>1. Init => Loose /\ CountInv
  BY LooseInit, CountInit
<1>2. Loose /\ CountInv /\ [Next]_vars => (Loose /\ CountInv)'
  BY LooseNext, CountNext
<1>3. QED
  BY <1>1, <1>2, PTL DEF Spec

\* Every reachable state is well typed; a queue of a scheduler is bounded.
THEOREM TypeCorrect == Spec => []TypeOK
<1>1. QED
  BY Inductive, LooseTypeOK, PTL

\* Flushes do not multiply: of each kind at most one repeat per start is queued
\* or under way, whatever start(), stop() and crashing threads do in between.
THEOREM RepeatsPerStartHolds == Spec => []RepeatsPerStart
<1>1. ASSUME Loose, CountInv, NEW k \in Kinds PROVE Repeats(k) <= starts
  <2>1. /\ IsFiniteSet(Queued(k))
        /\ Cardinality(Queued(k)) + Cardinality(UnderWay(k)) + Cardinality(Due) <= starts
    BY <1>1 DEF CountInv
  <2>2. /\ Cardinality(Queued(k)) \in Nat /\ Cardinality(UnderWay(k)) \in Nat
        /\ Cardinality(Due) \in Nat /\ starts \in Nat
    BY <1>1, <2>1, ThreadsFinite, Grown DEF Loose, ClientOK
  <2>3. QED
    BY <2>1, <2>2 DEF Repeats
<1>2. Loose /\ CountInv => RepeatsPerStart
  BY <1>1 DEF RepeatsPerStart
<1>3. QED
  BY <1>2, Inductive, PTL

-----------------------------------------------------------------------------
(* Reports are dropped only after a stop() had begun.                      *)

\* Once a stop() has begun, all that is held is late; and nobody clears before.
\* The phases of a thread that will clear, or has seen a stop().
Ends == InStop \cup {"cleaning"}

LateInv ==
  /\ halted => held \subseteq late
  /\ stopped => halted
  /\ \A t \in Threads : pc[t] \in Ends => halted

LEMMA LateKept ==
  ASSUME LateInv, DroppedAreLate,
         halted => halted', late \subseteq late', stopped' => halted',
         halted' => held' \subseteq late', dropped' \subseteq late',
         \A u \in Threads : pc'[u] \in Ends => pc[u] \in Ends \/ halted'
  PROVE  (LateInv /\ DroppedAreLate)'
BY DEF LateInv, DroppedAreLate

\* Reports, and the histories of stop(), as they were.
LEMMA LateQuiet ==
  ASSUME LateInv, DroppedAreLate, UNCHANGED <<halted, late, dropped>>,
         held' \subseteq held, stopped' => stopped,
         \A u \in Threads : pc'[u] \in Ends => pc[u] \in Ends \/ halted
  PROVE  (LateInv /\ DroppedAreLate)'
<1>1. halted' <=> halted
  OBVIOUS
<1>2. /\ halted => halted' /\ late \subseteq late'
      /\ stopped' => halted'
      /\ halted' => held' \subseteq late'
      /\ dropped' \subseteq late'
  BY <1>1 DEF LateInv, DroppedAreLate
<1>3. QED
  BY <1>1, <1>2, LateKept

LEMMA LateNext ==
  Loose /\ LateInv /\ DroppedAreLate /\ [Next]_vars => (LateInv /\ DroppedAreLate)'
<1> SUFFICES ASSUME Loose, LateInv, DroppedAreLate, [Next]_vars
             PROVE  (LateInv /\ DroppedAreLate)'
  OBVIOUS
<1>a. ASSUME NEW t \in Threads, NEW p, Goto(t, p)
      PROVE  \A u \in Threads : pc'[u] = IF u = t THEN p ELSE pc[u]
  BY <1>a DEF Goto, Loose, ThreadsOK
<1>b. \A t \in Threads : Dies(t) => \E p : Goto(t, p) /\ p \notin Ends
  BY DEF Dies, Ends, InStop
<1>1. ASSUME NEW t \in Threads, AlreadyStarted(t) \/ Return(t) \/ Report(t) \/ RunScheduler(t)
               \/ RunEnds(t) \/ Enter(t) \/ (\E k \in Kinds : Pop(t, k))
      PROVE  (LateInv /\ DroppedAreLate)'
  <2>1. UNCHANGED <<client, reports>>
    BY <1>1 DEF AlreadyStarted, Return, Report, RunScheduler, RunEnds, Enter, Pop
  <2>2. UNCHANGED <<halted, late, dropped, held, stopped>>
    BY <2>1 DEF client, reports
  <2>3. \E p : Goto(t, p) /\ p \notin Ends
    BY <1>1, <1>b DEF AlreadyStarted, Return, Report, RunScheduler, RunEnds, Enter, Pop,
                      Ends, InStop
  <2>4. \A u \in Threads : pc'[u] \in Ends => pc[u] \in Ends
    BY <1>a, <2>3
  <2>5. QED
    BY <2>2, <2>4, LateQuiet
<1>2. ASSUME NEW t \in Threads, StartThread(t)
      PROVE  (LateInv /\ DroppedAreLate)'
  <2>1. pc' = [pc EXCEPT ![t] = "started", ![starts'] = "new"]
    BY <1>2 DEF StartThread
  <2>2. pc \in [Threads -> Phases]
    BY DEF Loose, ThreadsOK
  <2>3. \A u \in Threads : pc'[u] \in Ends => pc[u] \in Ends
    BY <2>1, <2>2 DEF Ends, InStop
  <2>4. UNCHANGED <<halted, late, dropped, held>> /\ stopped' = FALSE
    BY <1>2 DEF StartThread, reports
  <2>5. QED
    BY <2>3, <2>4, LateQuiet
<1>3. ASSUME NEW t \in Threads, StartDirectly(t)
      PROVE  (LateInv /\ DroppedAreLate)'
  <2>1. UNCHANGED <<halted, late, dropped>> /\ held' \subseteq held /\ stopped' = FALSE
    BY <1>3, InitializeReports DEF StartDirectly, Initializes
  <2>2. \E p \in {"started", "idle"} : Goto(t, p)
    BY <1>3 DEF StartDirectly
  <2>3. \A u \in Threads : pc'[u] \in Ends => pc[u] \in Ends
    BY <1>a, <2>2 DEF Ends, InStop
  <2>4. QED
    BY <2>1, <2>3, LateQuiet
<1>4. ASSUME NEW t \in Threads, StopBegins(t) PROVE (LateInv /\ DroppedAreLate)'
  <2>1. halted' = TRUE /\ held' = {} /\ UNCHANGED <<late, dropped>>
    BY <1>4 DEF StopBegins
  <2>2. QED
    BY <2>1, LateKept DEF DroppedAreLate
<1>5. ASSUME NEW t \in Threads, Shutdown(t), ~StopBegins(t)
      PROVE  (LateInv /\ DroppedAreLate)'
  <2>1. UNCHANGED <<client, reports>> /\ Goto(t, "loop")
    BY <1>5 DEF Shutdown
  <2>2. UNCHANGED <<halted, late, dropped, held, stopped>>
    BY <2>1 DEF client, reports
  <2>3. \A u \in Threads : pc'[u] \in Ends => pc[u] \in Ends
    BY <1>a, <2>1 DEF Ends, InStop
  <2>4. QED
    BY <2>2, <2>3, LateQuiet
<1>6. ASSUME NEW t \in Threads, Accept(t) PROVE (LateInv /\ DroppedAreLate)'
  <2>1. PICK r \in Reports :
          /\ Goto(t, "idle") /\ UNCHANGED <<client, dropped, halted>>
          /\ late' = IF halted THEN late \cup {r} ELSE late
          /\ held' = held \cup {r} \/ held' = held
    BY <1>6 DEF Accept
  <2>2. (halted' <=> halted) /\ (stopped' <=> stopped)
    BY <2>1 DEF client
  <2>3. \A u \in Threads : pc'[u] \in Ends => pc[u] \in Ends
    BY <1>a, <2>1 DEF Ends, InStop
  <2>4. /\ halted => halted' /\ late \subseteq late'
        /\ stopped' => halted'
        /\ halted' => held' \subseteq late'
        /\ dropped' \subseteq late'
    BY <2>1, <2>2 DEF LateInv, DroppedAreLate
  <2>5. QED
    BY <2>1, <2>2, <2>3, <2>4, LateKept
<1>7. ASSUME NEW t \in Threads, NEW p, Goto(t, p), pc[t] \in Ends \/ p \notin Ends, halted,
             UNCHANGED <<halted, late>>,
             Clear \/ UNCHANGED <<held, dropped>>
      PROVE  (LateInv /\ DroppedAreLate)'
  <2>1. \A u \in Threads : pc'[u] \in Ends => pc[u] \in Ends
    BY <1>a, <1>7
  <2>2. halted'
    BY <1>7
  <2>3. held' \subseteq held /\ dropped' \subseteq dropped \cup held /\ late' = late
    BY <1>7 DEF Clear
  <2>4. held' \subseteq late' /\ dropped' \subseteq late'
    BY <1>7, <2>3 DEF LateInv, DroppedAreLate
  <2>5. QED
    BY <2>1, <2>2, <2>3, <2>4, LateKept
<1>8. ASSUME NEW t \in Threads, StopSent(t) PROVE (LateInv /\ DroppedAreLate)'
  <2>1. pc[t] \in Ends /\ Goto(t, "stopped") /\ UNCHANGED <<halted, late, held, dropped>>
    BY <1>8 DEF StopSent, Ends, InStop
  <2>2. halted
    BY <2>1 DEF LateInv
  <2>3. QED
    BY <1>7, <2>1, <2>2
<1>17. ASSUME NEW t \in Threads, StopCleans(t) PROVE (LateInv /\ DroppedAreLate)'
  <2>1. pc[t] \in Ends /\ Goto(t, "ending") /\ UNCHANGED <<halted, late>>
        /\ (Clear \/ UNCHANGED <<held, dropped>>)
    BY <1>17 DEF StopCleans, Ends, InStop
  <2>2. halted
    BY <2>1 DEF LateInv
  <2>3. QED
    BY <1>7, <2>1, <2>2
<1>18. ASSUME NEW t \in Threads, StopEnds(t) PROVE (LateInv /\ DroppedAreLate)'
  <2>1. pc[t] \in Ends /\ Goto(t, Back(t)) /\ UNCHANGED <<halted, late, held, dropped>>
    BY <1>18 DEF StopEnds, Ends, InStop, reports
  <2>2. halted
    BY <2>1 DEF LateInv
  <2>3. QED
    BY <1>7, <2>1, <2>2
<1>9. ASSUME NEW t \in Threads, Cleanup(t) PROVE (LateInv /\ DroppedAreLate)'
  <2>1. halted
    BY <1>9 DEF Cleanup, LateInv, Ends
  <2>2. pc[t] \in Ends /\ Goto(t, "loop") /\ UNCHANGED <<halted, late>> /\ Clear
    BY <1>9 DEF Cleanup, Ends
  <2>3. QED
    BY <1>7, <2>1, <2>2
<1>10. ASSUME NEW t \in Threads, InitThread(t) PROVE (LateInv /\ DroppedAreLate)'
  <2>1. \E p : Goto(t, p) /\ p \notin Ends
    BY <1>10 DEF InitThread, Ends, InStop
  <2>2. UNCHANGED <<halted, late, stopped>>
    BY <1>10 DEF InitThread
  <2>3. CASE stopped /\ Clear
    BY <1>7, <2>1, <2>2, <2>3 DEF LateInv
  <2>4. CASE Initializes(t, RunDirectly) /\ UNCHANGED dropped
    <3>1. \A u \in Threads : pc'[u] \in Ends => pc[u] \in Ends
      BY <1>a, <2>1
    <3>2. held' \subseteq held
      BY <2>4, InitializeReports
    <3>3. QED
      BY <2>2, <2>4, <3>1, <3>2, LateQuiet
  <2>5. QED
    BY <1>10, <2>3, <2>4 DEF InitThread, Initializes
<1>11. ASSUME NEW t \in Threads, FlushBegins(t) PROVE (LateInv /\ DroppedAreLate)'
  <2>1. UNCHANGED <<halted, late, dropped, client>> /\ held' \subseteq held
    BY <1>11 DEF FlushBegins
  <2>2. UNCHANGED stopped
    BY <2>1 DEF client
  <2>3. \E p : Goto(t, p) /\ (p \in Ends => stopped)
    BY <1>11, <1>b DEF FlushBegins, Ends, InStop
  <2>4. \A u \in Threads : pc'[u] \in Ends => pc[u] \in Ends \/ halted
    BY <1>a, <2>3 DEF LateInv
  <2>5. QED
    BY <2>1, <2>2, <2>4, LateQuiet
<1>12. ASSUME NEW t \in Threads, StopRaises(t) \/ FlushSent(t)
       PROVE  (LateInv /\ DroppedAreLate)'
  <2>1. UNCHANGED <<halted, late, dropped, held, client>>
    BY <1>12 DEF StopRaises, FlushSent
  <2>2. UNCHANGED stopped
    BY <2>1 DEF client
  <2>3. \E p : Goto(t, p) /\ p \notin Ends
    BY <1>12, <1>b DEF StopRaises, FlushSent, Ends, InStop
  <2>4. \A u \in Threads : pc'[u] \in Ends => pc[u] \in Ends
    BY <1>a, <2>3
  <2>5. QED
    BY <2>1, <2>2, <2>4, LateQuiet
<1>13. CASE UNCHANGED vars
  BY <1>13, LateQuiet DEF vars, client, threads, reports
<1>14. CASE Call
  BY <1>1, <1>2, <1>3, <1>4, <1>14, ThreadSets DEF Call, Stop
<1>15. ASSUME NEW t \in Threads, Step(t) PROVE (LateInv /\ DroppedAreLate)'
  BY <1>1, <1>4, <1>5, <1>6, <1>8, <1>9, <1>10, <1>11, <1>12, <1>15,
     <1>17, <1>18 DEF Step
<1>16. QED
  BY <1>13, <1>14, <1>15 DEF Next, Rest

\* stop() sends what is held before anything can clear it: what a cleanup drops
\* was reported after a stop() had begun.
THEOREM DroppedAreLateHolds == Spec => []DroppedAreLate
<1>1. Init => LateInv /\ DroppedAreLate
  BY ThreadSets DEF Init, LateInv, DroppedAreLate, Ends, InStop
<1>2. QED
  BY <1>1, LateNext, Inductive, PTL DEF Spec

-----------------------------------------------------------------------------
(* The client implements the ledger.                                       *)

\* A report that was taken is in one place: held, or in the batch of one thread.
Apart ==
  /\ held \cup InFlight \subseteq accepted
  /\ \A t \in Threads : batch[t] \cap held = {}
  /\ \A t, u \in Threads : t # u => batch[t] \cap batch[u] = {}

LedgerStep == [Ledger!Next]_(Ledger!ledger)

\* Reports leave the aggregator: for the service, or cleared.
LEMMA HeldLeaves ==
  ASSUME Loose, Loose', Apart, UNCHANGED <<batch, accepted>>, held' \subseteq held,
         sent \subseteq sent', sent' \subseteq sent \cup (held \ held')
  PROVE  Apart' /\ LedgerStep
<1>1. Apart'
  BY DEF Apart, InFlight
<1>2. Ledger!Resolve
  BY DEF Ledger!Resolve, Apart, InFlight
<1>3. accepted' \subseteq Reports
  BY DEF Loose, ReportsOK
<1>4. QED
  BY <1>1, <1>2, <1>3 DEF LedgerStep, Ledger!Next, Ledger!ledger

\* Reports leave the aggregator for the batch of a thread.
LEMMA HeldTaken ==
  ASSUME Loose, Loose', Apart, NEW t \in Threads,
         batch' = [batch EXCEPT ![t] = held], held' = {}, UNCHANGED <<sent, accepted>>
  PROVE  Apart' /\ LedgerStep
<1>1. \A u \in Threads : batch'[u] = IF u = t THEN held ELSE batch[u]
  BY DEF Loose, ReportsOK
<1>2. Apart'
  BY <1>1 DEF Apart, InFlight
<1>3. Ledger!Resolve
  BY <1>1 DEF Ledger!Resolve, InFlight
<1>4. accepted' \subseteq Reports
  BY DEF Loose, ReportsOK
<1>5. QED
  BY <1>2, <1>3, <1>4 DEF LedgerStep, Ledger!Next, Ledger!ledger

\* The batch of a thread leaves for the service; or it is lost with an exception.
LEMMA BatchLeaves ==
  ASSUME Loose, Loose', Apart, NEW t \in Threads,
         batch' = [batch EXCEPT ![t] = {}], held' \subseteq held, UNCHANGED accepted,
         sent' = sent \/ sent' = sent \cup batch[t]
  PROVE  Apart' /\ LedgerStep
<1>1. \A u \in Threads : batch'[u] = IF u = t THEN {} ELSE batch[u]
  BY DEF Loose, ReportsOK
<1>2. Apart'
  BY <1>1 DEF Apart, InFlight
<1>3. Ledger!Resolve
  <2>1. held' \cup InFlight' \subseteq held \cup InFlight
    BY <1>1 DEF InFlight
  <2>2. ASSUME NEW r \in batch[t] PROVE r \in InFlight /\ r \notin held' \cup InFlight'
    BY <1>1, <2>2 DEF InFlight, Apart
  <2>3. QED
    BY <2>1, <2>2 DEF Ledger!Resolve
<1>4. accepted' \subseteq Reports
  BY DEF Loose, ReportsOK
<1>5. QED
  BY <1>2, <1>3, <1>4 DEF LedgerStep, Ledger!Next, Ledger!ledger

\* A new report is held, or sent at once, or lost.
LEMMA ReportTaken ==
  ASSUME Loose, Loose', Apart, NEW t \in Threads, Accept(t)
  PROVE  Apart' /\ LedgerStep
<1>1. PICK r \in Reports \ accepted :
        /\ accepted' = accepted \cup {r} /\ UNCHANGED batch
        /\ \/ held' = held \cup {r} /\ sent' = sent
           \/ held' = held /\ (sent' = sent \cup {r} \/ sent' = sent)
  BY DEF Accept, Send, Raise
<1>2. Apart'
  BY <1>1 DEF Apart, InFlight
<1>3. Ledger!Take \/ Ledger!Refuse
  BY <1>1 DEF Ledger!Take, Ledger!Refuse, InFlight
<1>4. accepted' \subseteq Reports
  BY DEF Loose, ReportsOK
<1>5. QED
  BY <1>2, <1>3, <1>4 DEF LedgerStep, Ledger!Next, Ledger!ledger

LEMMA ApartNext == Loose /\ Apart /\ [Next]_vars => Apart' /\ LedgerStep
<1> SUFFICES ASSUME Loose, Apart, [Next]_vars PROVE Apart' /\ LedgerStep
  OBVIOUS
<1>0. Loose'
  BY LooseNext
<1>1. CASE UNCHANGED reports
  <2>1. UNCHANGED <<batch, accepted, held, sent>>
    BY <1>1 DEF reports
  <2>2. QED
    BY <1>0, <2>1, HeldLeaves
<1>2. ASSUME NEW t \in Threads, StopBegins(t) PROVE Apart' /\ LedgerStep
  BY <1>0, <1>2, HeldTaken DEF StopBegins
<1>3. CASE Call
  <2>1. ASSUME NEW t \in Apps, StartDirectly(t) PROVE Apart' /\ LedgerStep
    <3>1. Initializes(starts', TRUE) /\ UNCHANGED <<batch, accepted>>
      BY <2>1 DEF StartDirectly, Initializes
    <3>2. QED
      BY <1>0, <3>1, InitializeReports, HeldLeaves
  <2>2. ASSUME NEW t \in Apps, AlreadyStarted(t) \/ StartThread(t) PROVE UNCHANGED reports
    BY <2>2 DEF AlreadyStarted, StartThread
  <2>3. QED
    BY <1>1, <1>2, <1>3, <2>1, <2>2, ThreadSets DEF Call, Stop
<1>4. ASSUME NEW t \in Threads, Step(t) PROVE Apart' /\ LedgerStep
  <2>1. CASE Accept(t)
    BY <1>0, <2>1, ReportTaken
  <2>2. CASE InitThread(t)
    <3>1. UNCHANGED <<batch, accepted>>
      BY <2>2 DEF InitThread
    <3>2. CASE Clear /\ UNCHANGED sent
      BY <1>0, <3>1, <3>2, HeldLeaves DEF Clear
    <3>3. CASE Initializes(t, RunDirectly)
      BY <1>0, <3>1, <3>3, InitializeReports, HeldLeaves
    <3>4. QED
      BY <2>2, <3>2, <3>3 DEF InitThread, Initializes
  <2>3. CASE StopSent(t) \/ StopRaises(t)
    <3>1. /\ batch' = [batch EXCEPT ![t] = {}] /\ UNCHANGED <<held, accepted>>
          /\ sent' = sent \/ sent' = sent \cup batch[t]
      BY <2>3 DEF StopSent, StopRaises, Send, Raise
    <3>2. QED
      BY <1>0, <3>1, BatchLeaves
  <2>10. CASE StopCleans(t)
    <3>1. UNCHANGED <<batch, accepted, sent>> /\ held' \subseteq held
      BY <2>10 DEF StopCleans, Clear
    <3>2. QED
      BY <1>0, <3>1, HeldLeaves
  <2>4. CASE FlushSent(t)
    <3>1. /\ batch' = [batch EXCEPT ![t] = {}] /\ UNCHANGED <<held, accepted>>
          /\ sent' = sent \/ sent' = sent \cup batch[t]
      BY <2>4 DEF FlushSent, Send, Raise
    <3>2. QED
      BY <1>0, <3>1, BatchLeaves
  <2>5. CASE FlushBegins(t)
    <3>1. UNCHANGED <<sent, accepted>>
      BY <2>5 DEF FlushBegins
    <3>2. \/ UNCHANGED <<batch, held>>
          \/ batch' = [batch EXCEPT ![t] = held] /\ held' = {}
      BY <2>5 DEF FlushBegins
    <3>3. QED
      BY <1>0, <3>1, <3>2, HeldTaken, HeldLeaves
  <2>6. CASE Cleanup(t)
    <3>1. UNCHANGED <<batch, accepted, sent>> /\ held' = {}
      BY <2>6 DEF Cleanup, Clear
    <3>2. QED
      BY <1>0, <3>1, HeldLeaves
  <2>7. CASE \/ Return(t) \/ Report(t) \/ RunScheduler(t) \/ (\E k \in Kinds : Pop(t, k))
             \/ RunEnds(t) \/ Enter(t) \/ StopEnds(t)
    BY <1>1, <2>7 DEF Return, Report, RunScheduler, Pop, RunEnds, Enter, StopEnds
  <2>8. CASE Shutdown(t)
    BY <1>1, <1>2, <2>8 DEF Shutdown
  <2>9. QED
    BY <1>4, <2>1, <2>2, <2>3, <2>4, <2>5, <2>6, <2>7, <2>8,
       <2>10 DEF Step
<1>5. QED
  BY <1>1, <1>3, <1>4 DEF Next, Rest, vars

\* A report that the aggregator has taken is handed to the service at most once,
\* and is not both cleared and sent, whichever threads flush, stop and clean up.
THEOREM ImplementsLedgerHolds == Spec => ImplementsLedger
<1>1. Init => Apart /\ Ledger!Init
  BY DEF Init, Apart, InFlight, Ledger!Init
<1>2. QED
  BY <1>1, ApartNext, Inductive, PTL DEF Spec, ImplementsLedger, Ledger!Spec, LedgerStep
=============================================================================
