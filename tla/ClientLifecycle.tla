-------------------------- MODULE ClientLifecycle --------------------------
(***************************************************************************)
(* The life of a client.Client (control/client.py): start(), stop(), the   *)
(* scheduler thread each start creates, the scheduler run by report() when *)
(* no thread can be created, and the shutdown of an idle client.           *)
(*                                                                         *)
(* A thread that holds the lock is in one of the three phases of stop();   *)
(* start() and _initialize_flushing() hold it for one step.  Nothing else  *)
(* takes it: the flushes read and write the fields without it.             *)
(* The aggregators are reduced to the reports held; their modules tell     *)
(* what is merged, answered and expired.  Events are popped in any order:  *)
(* intervals are not modelled.  A quota event is one of kind "check" here, *)
(* the quota aggregator not being cleared.                                 *)
(***************************************************************************)
EXTENDS Naturals, FiniteSets

CONSTANTS
  Callers,       \* the application's threads that check, allocate and report
  Stoppers,      \* those that may call stop()
  Reports,       \* report requests, each passed to report() at most once
  Configs,       \* what may be configured: see enabled
  MaxStarts,     \* bound: how often start() does start the client
  MayRaise       \* may _create_transport() raise, or a call something else than
                 \* exceptions.Error?

Kinds == {"check", "report"}
Scheds == 1..MaxStarts     \* a start's thread, and the scheduler created by it
None == 0
Apps == Callers \cup Stoppers
Threads == Apps \cup Scheds

ASSUME ClientAssumption ==
  /\ MaxStarts \in Nat \ {0} /\ IsFiniteSet(Apps) /\ Apps \cap Nat = {}
  /\ Configs \subseteq SUBSET (Kinds \cup {"cache"}) /\ MayRaise \in BOOLEAN
  /\ \A c \in Configs : "report" \in c => "cache" \in c

VARIABLES
  running, stopped,  \* self._running, self._stopped
  hasThread,         \* self._thread is not None
  scheduler,         \* self._scheduler
  events,            \* the queues of the schedulers: how many events of a kind
  enabled,           \* the flushes with an interval, and "cache": reports are cached,
                     \* which they are without an interval too
  starts,            \* how often the client was started
  pc,                \* what a thread is about to do
  inRun,             \* the scheduler whose run() it is in
  job,               \* the kind of the event it popped
  batch,             \* the reports it is sending
  held,              \* the reports in the report aggregator
  sent, dropped, lost, accepted, late, \* histories of reports, see TypeOK
  halted             \* history: a stop() has begun

client == <<running, stopped, hasThread, scheduler, starts>>
threads == <<pc, inRun, job>>
reports == <<batch, held, sent, dropped, lost, accepted, late, halted>>
vars == <<client, events, enabled, threads, reports>>

Phases == {"idle", "started", "direct", "accept",        \* of application threads
           "absent", "new", "inited", "done", "crashed", \* of scheduler threads
           "loop", "event", "sending", "entering", "cleaning", "shutdown",
           "stopping", "stopped", "ending"}             \* of any, in stop()

-----------------------------------------------------------------------------
InStop == {"stopping", "stopped", "ending"}
LockFree == \A t \in Threads : pc[t] \notin InStop
RunDirectly == running /\ ~hasThread         \* _run_scheduler_directly
QueueEmpty(s) == \A k \in Kinds : events[s][k] = 0

Goto(t, phase) == pc' = [pc EXCEPT ![t] = phase]

\* After an event, or a stop(), a thread is back in run() or in the application.
Back(t) == IF inRun[t] = None THEN "idle" ELSE "loop"

\* An exception ends a scheduler thread, and the application's call.
Dies(t) ==
  /\ Goto(t, IF t \in Apps THEN "idle" ELSE "crashed")
  /\ inRun' = [inRun EXCEPT ![t] = None]

\* Reports leave for the service - an exceptions.Error is logged - or are lost.
Send(rs) == sent' = sent \cup rs /\ UNCHANGED lost
Raise(rs) == MayRaise /\ lost' = lost \cup rs /\ UNCHANGED sent

\* The clears of _cleanup_if_stopped: reports that are held are not sent.
Clear == dropped' = dropped \cup held /\ held' = {}

\* How many events of a kind _initialize_flushing schedules.
First(k, direct) == IF k \in enabled /\ (k = "report" \/ ~direct) THEN 1 ELSE 0

FirstFlush == IF "report" \in enabled THEN Send(held) /\ held' = {}
              ELSE UNCHANGED <<held, sent, lost>>

\* _initialize_flushing for the n-th start, in a thread that runs it: a new
\* scheduler with the first flush of each kind behind it ...
Initialize(n, direct) ==
  /\ scheduler' = n
  /\ events' = [events EXCEPT ![n] = [k \in Kinds |-> First(k, direct)]]
  /\ FirstFlush

\* ... or an exception in one of them: in the check or the report flush before
\* anything is sent, when the reports are sent, or after that in the quota flush.
InitializeRaises(n, direct) ==
  /\ MayRaise /\ scheduler' = n
  /\ \E c \in 0..First("check", direct) :
       \/ /\ First("check", direct) = 1 \/ "report" \in enabled
          /\ events' = [events EXCEPT ![n].check = c]
          /\ UNCHANGED <<held, sent, lost>>
       \/ /\ "report" \in enabled /\ held # {}
          /\ events' = [events EXCEPT ![n].check = c]
          /\ Raise(held) /\ held' = {}
       \/ /\ First("check", direct) = 1
          /\ events' = [events EXCEPT ![n].check = c, ![n].report = First("report", direct)]
          /\ FirstFlush

-----------------------------------------------------------------------------
Init ==
  /\ running = FALSE /\ stopped = FALSE /\ hasThread = FALSE
  /\ scheduler = None /\ starts = 0
  /\ events = [s \in Scheds |-> [k \in Kinds |-> 0]]
  /\ enabled \in Configs
  /\ pc = [t \in Threads |-> IF t \in Apps THEN "idle" ELSE "absent"]
  /\ inRun = [t \in Threads |-> None]
  /\ job = [t \in Threads |-> "check"]
  /\ batch = [t \in Threads |-> {}]
  /\ held = {} /\ sent = {} /\ dropped = {} /\ lost = {}
  /\ accepted = {} /\ late = {} /\ halted = FALSE

\* start(), also as the first step of check(), allocate_quota() and report().
AlreadyStarted(t) ==
  /\ pc[t] = "idle" /\ LockFree /\ running
  /\ Goto(t, "started")
  /\ UNCHANGED <<client, events, enabled, inRun, job, reports>>

StartThread(t) ==
  /\ pc[t] = "idle" /\ LockFree /\ ~running /\ starts < MaxStarts
  /\ running' = TRUE /\ stopped' = FALSE /\ hasThread' = TRUE
  /\ starts' = starts + 1
  /\ pc' = [pc EXCEPT ![t] = "started", ![starts'] = "new"]
  /\ UNCHANGED <<scheduler, events, enabled, inRun, job, reports>>

\* No thread can be created: report() will run the scheduler.
StartDirectly(t) ==
  /\ pc[t] = "idle" /\ LockFree /\ ~running /\ starts < MaxStarts
  /\ running' = TRUE /\ stopped' = FALSE /\ hasThread' = FALSE
  /\ starts' = starts + 1
  /\ \/ Initialize(starts', TRUE) /\ Goto(t, "started")
     \/ InitializeRaises(starts', TRUE) /\ Goto(t, "idle")
  /\ UNCHANGED <<enabled, inRun, job, batch, dropped, accepted, late, halted>>

\* What check() and allocate_quota() do next concerns their aggregators only.
Return(t) ==
  /\ pc[t] = "started" /\ Goto(t, "idle")
  /\ UNCHANGED <<client, events, enabled, inRun, job, reports>>

Report(t) ==
  /\ pc[t] = "started" /\ Goto(t, IF RunDirectly THEN "direct" ELSE "accept")
  /\ UNCHANGED <<client, events, enabled, inRun, job, reports>>

\* self._scheduler.run(), of the thread or of report(); a stop() may have come
\* in between, then there is an AttributeError.
RunScheduler(t) ==
  /\ pc[t] \in {"direct", "inited"}
  /\ IF scheduler = None THEN Dies(t)
     ELSE Goto(t, "loop") /\ inRun' = [inRun EXCEPT ![t] = scheduler]
  /\ UNCHANGED <<client, events, enabled, job, reports>>

\* The aggregator takes the report, or without a cache it is sent at once.
Accept(t) ==
  \E r \in Reports \ accepted :
    /\ pc[t] = "accept" /\ Goto(t, "idle")
    /\ accepted' = accepted \cup {r}
    /\ late' = IF halted THEN late \cup {r} ELSE late
    /\ IF "cache" \in enabled
       THEN held' = held \cup {r} /\ UNCHANGED <<sent, lost>>
       ELSE (Send({r}) \/ Raise({r})) /\ UNCHANGED held
    /\ UNCHANGED <<client, events, enabled, inRun, job, batch, dropped, halted>>

-----------------------------------------------------------------------------
\* Mutant of StopBegins: what is held is only read.
StopBeginsKeeping(t) ==
  /\ batch' = [batch EXCEPT ![t] = held]
  /\ halted' = TRUE
  /\ Goto(t, "stopping")
  /\ UNCHANGED <<client, events, enabled, inRun, job, held, sent, dropped, lost, accepted, late>>

\* Mutant of StopBegins: the reports are left to the cleanup.
StopBeginsUnflushed(t) ==
  /\ halted' = TRUE
  /\ Goto(t, "stopping")
  /\ UNCHANGED <<client, events, enabled, inRun, job, batch, held, sent, dropped, lost, accepted, late>>

\* stop(): all reports are taken out of the aggregator, to be sent.
StopBegins(t) ==
  /\ batch' = [batch EXCEPT ![t] = held] /\ held' = {}
  /\ halted' = TRUE
  /\ Goto(t, "stopping")
  /\ UNCHANGED <<client, events, enabled, inRun, job, sent, dropped, lost, accepted, late>>

Stop(t) == pc[t] = "idle" /\ LockFree /\ ~stopped /\ StopBegins(t)

\* An idle client is stopped by the thread that flushes.
Shutdown(t) ==
  /\ pc[t] = "shutdown" /\ LockFree
  /\ \/ ~stopped /\ StopBegins(t)
     \/ /\ stopped /\ Goto(t, "loop")
        /\ UNCHANGED <<client, events, enabled, inRun, job, reports>>

\* The reports are sent; only then is the client stopped, for all to see ...
StopSent(t) ==
  /\ pc[t] = "stopping"
  /\ batch' = [batch EXCEPT ![t] = {}]
  /\ Send(batch[t])
  /\ stopped' = TRUE
  /\ Goto(t, "stopped")
  /\ UNCHANGED <<running, hasThread, scheduler, starts, events, enabled, inRun, job, held,
                 dropped, accepted, late, halted>>

\* ... or there is no transport, or a call raises, and it is not.
StopRaises(t) ==
  /\ pc[t] = "stopping"
  /\ batch' = [batch EXCEPT ![t] = {}]
  /\ Raise(batch[t])
  /\ Dies(t)
  /\ UNCHANGED <<client, events, enabled, job, held, dropped, accepted, late, halted>>

\* Without a thread there is nobody else to clean up.  Unless no event is queued,
\* _running is left to the thread that runs them.
StopCleans(t) ==
  /\ pc[t] = "stopped"
  /\ IF RunDirectly THEN Clear ELSE UNCHANGED <<held, dropped>>
  /\ running' = (running /\ hasThread /\ ~(scheduler # None /\ QueueEmpty(scheduler)))
  /\ Goto(t, "ending")
  /\ UNCHANGED <<stopped, hasThread, scheduler, starts, events, enabled, inRun, job, batch,
                 sent, lost, accepted, late, halted>>

\* The scheduler is forgotten and the lock released.
StopEnds(t) ==
  /\ pc[t] = "ending"
  /\ scheduler' = None
  /\ Goto(t, Back(t))
  /\ UNCHANGED <<running, stopped, hasThread, starts, events, enabled, inRun, job, reports>>

-----------------------------------------------------------------------------
\* The scheduler thread begins; each of the first flushes looks for a stop().
InitThread(t) ==
  /\ pc[t] = "new" /\ LockFree
  /\ \/ /\ stopped /\ Clear /\ running' = FALSE /\ scheduler' = t
        /\ Goto(t, "inited")
        /\ UNCHANGED <<events, sent, lost>>
     \/ /\ ~stopped
        /\ \/ Initialize(t, RunDirectly) /\ Goto(t, "inited")
           \/ InitializeRaises(t, RunDirectly) /\ Goto(t, "crashed")
        /\ UNCHANGED <<running, dropped>>
  /\ UNCHANGED <<stopped, hasThread, starts, enabled, inRun, job, batch, accepted, late, halted>>

Pop(t, k) ==
  /\ pc[t] = "loop" /\ events[inRun[t]][k] > 0
  /\ events' = [events EXCEPT ![inRun[t]][k] = @ - 1]
  /\ job' = [job EXCEPT ![t] = k]
  /\ Goto(t, "event")
  /\ UNCHANGED <<client, enabled, inRun, reports>>

\* run() ends with the last event, in report() when none is due.
RunEnds(t) ==
  /\ pc[t] = "loop" /\ (t \in Apps \/ QueueEmpty(inRun[t]))
  /\ Goto(t, IF t \in Apps THEN "accept" ELSE "done")
  /\ inRun' = [inRun EXCEPT ![t] = None]
  /\ UNCHANGED <<client, events, enabled, job, reports>>

\* The three _flush_schedule_* functions, up to the first call to the service.
\* The transport is created, or not, before anything is taken.
FlushBegins(t) ==
  /\ pc[t] = "event"
  /\ \/ stopped /\ Goto(t, "cleaning") /\ UNCHANGED <<inRun, batch, held>>
     \/ /\ ~stopped /\ job[t] = "check"
        /\ Goto(t, IF RunDirectly THEN "loop" ELSE "entering")
        /\ UNCHANGED <<inRun, batch, held>>
     \/ /\ ~stopped /\ job[t] = "report"
        /\ batch' = [batch EXCEPT ![t] = held] /\ held' = {}
        /\ Goto(t, "sending")
        /\ UNCHANGED inRun
     \/ /\ ~stopped /\ (job[t] = "report" \/ ~RunDirectly)
        /\ MayRaise /\ Dies(t)
        /\ UNCHANGED <<batch, held>>
  /\ UNCHANGED <<client, events, enabled, job, sent, dropped, lost, accepted, late, halted>>

\* Mutant of Cleanup: the client stays running.
CleanupKeepsRunning(t) ==
  /\ pc[t] = "cleaning" /\ Clear
  /\ Goto(t, "loop")
  /\ UNCHANGED <<client, events, enabled, inRun, job, batch, sent, lost, accepted, late, halted>>

\* The rest of _cleanup_if_stopped.
Cleanup(t) ==
  /\ pc[t] = "cleaning" /\ Clear /\ running' = FALSE
  /\ Goto(t, "loop")
  /\ UNCHANGED <<stopped, hasThread, scheduler, starts, events, enabled, inRun, job,
                 batch, sent, lost, accepted, late, halted>>

\* Mutant of FlushSent: with nothing to send, the flush is not repeated.
FlushSentOnce(t) ==
  /\ pc[t] = "sending"
  /\ batch' = [batch EXCEPT ![t] = {}]
  /\ \/ Send(batch[t]) /\ Goto(t, IF batch[t] # {} THEN "entering" ELSE "loop") /\ UNCHANGED inRun
     \/ batch[t] # {} /\ Raise(batch[t]) /\ Dies(t)
  /\ UNCHANGED <<client, events, enabled, job, held, dropped, accepted, late, halted>>

\* The reports are sent.  If there were none for long enough, the client is idle.
FlushSent(t) ==
  /\ pc[t] = "sending"
  /\ batch' = [batch EXCEPT ![t] = {}]
  /\ \/ Send(batch[t]) /\ Goto(t, "entering") /\ UNCHANGED inRun
     \/ batch[t] = {} /\ Goto(t, "shutdown") /\ UNCHANGED <<sent, lost, inRun>>
     \/ batch[t] # {} /\ Raise(batch[t]) /\ Dies(t)
  /\ UNCHANGED <<client, events, enabled, job, held, dropped, accepted, late, halted>>

\* Mutant of Enter: what was scheduled before is not looked at.
EnterTwice(t) ==
  /\ pc[t] = "entering"
  /\ IF scheduler = None THEN Dies(t) /\ UNCHANGED events
     ELSE /\ events' = [events EXCEPT ![scheduler][job[t]] = @ + 2]
          /\ Goto(t, "loop") /\ UNCHANGED inRun
  /\ UNCHANGED <<client, enabled, job, reports>>

\* The repeat goes to the client's scheduler of now, which may be a newer one or
\* None.
Enter(t) ==
  /\ pc[t] = "entering"
  /\ IF scheduler = None THEN Dies(t) /\ UNCHANGED events
     ELSE /\ events' = [events EXCEPT ![scheduler][job[t]] = @ + 1]
          /\ Goto(t, "loop") /\ UNCHANGED inRun
  /\ UNCHANGED <<client, enabled, job, reports>>

\* Calls the application makes.
Call ==
  \/ \E t \in Callers : AlreadyStarted(t) \/ StartThread(t) \/ StartDirectly(t)
  \/ \E t \in Stoppers : Stop(t)

\* Steps of a thread that is in a call, or that runs a scheduler.
Step(t) ==
  \/ Return(t) \/ Report(t) \/ Accept(t) \/ RunScheduler(t) \/ InitThread(t)
  \/ Shutdown(t) \/ StopSent(t) \/ StopRaises(t) \/ StopCleans(t) \/ StopEnds(t)
  \/ \E k \in Kinds : Pop(t, k)
  \/ RunEnds(t) \/ FlushBegins(t) \/ Cleanup(t) \/ FlushSent(t) \/ Enter(t)

\* The application makes no further call.
Rest == UNCHANGED vars

Next == Call \/ (\E t \in Threads : Step(t)) \/ Rest

\* Threads run; a report flush becomes due, whatever else is entered meanwhile.
Fairness ==
  /\ \A t \in Threads : WF_vars(Step(t))
  /\ \A t \in Scheds : SF_vars(Pop(t, "report"))

Spec == Init /\ [][Next]_vars
FairSpec == Spec /\ Fairness

-----------------------------------------------------------------------------
TypeOK ==
  /\ running \in BOOLEAN /\ stopped \in BOOLEAN /\ hasThread \in BOOLEAN
  /\ scheduler \in {None} \cup Scheds /\ starts \in 0..MaxStarts
  /\ events \in [Scheds -> [Kinds -> 0..MaxStarts]]
  /\ enabled \in Configs
  /\ pc \in [Threads -> Phases] /\ inRun \in [Threads -> {None} \cup Scheds]
  /\ \A t \in Threads : (inRun[t] # None) <=> pc[t] \in
       {"loop", "event", "sending", "entering", "cleaning", "shutdown"}
       \cup IF inRun[t] # None THEN InStop ELSE {}
  /\ job \in [Threads -> Kinds] /\ batch \in [Threads -> SUBSET Reports]
  /\ {held, sent, dropped, lost, accepted, late} \subseteq SUBSET Reports
  /\ halted \in BOOLEAN

InFlight == UNION {batch[t] : t \in Threads}

\* A report that the aggregator has taken is handed to the service at most once,
\* and never both cleared and sent, however flushes, stop(), idle shutdown and
\* cleanups of older threads interleave.
Ledger == INSTANCE RequestLedger WITH
  Entries <- Reports, pending <- held \cup InFlight, delivered <- sent, seen <- accepted
ImplementsLedger == Ledger!Spec

\* stop() sends the reports before anything can clear them: a cleanup only ever
\* drops reports accepted after a stop() had begun.
DroppedAreLate == dropped \subseteq late

\* The repeats of a kind of flush, queued or under way, whichever scheduler they
\* are in: never more than one for each time the client was started.
Queued(k) == UNION {{<<s, n>> : n \in 1..events[s][k]} : s \in Scheds}
UnderWay(k) ==
  {t \in Threads : job[t] = k /\ pc[t] \in {"event", "sending", "entering"}}
Repeats(k) == Cardinality(Queued(k)) + Cardinality(UnderWay(k))
RepeatsPerStart == \A k \in Kinds : Repeats(k) <= starts

\* A scheduler thread died of an exception.
Crashed == \E t \in Scheds : pc[t] = "crashed"

\* Unless one did, a stopped client comes to rest, so that it can be started again.
StopComesToRest == running /\ stopped ~> ~running \/ ~stopped \/ Crashed

\* Unless one did, what is held is flushed as long as the client is running with a
\* thread, without waiting for another call of the application - if report flushes
\* have an interval: with flush_interval zero reports are cached all the same, and
\* nothing but stop() takes them out.
HeldIsFlushed ==
  \A r \in Reports :
    "report" \in enabled /\ r \in held ~> r \notin held \/ ~running \/ ~hasThread \/ Crashed

-----------------------------------------------------------------------------
(* What the source says of the client, and the code does not do.           *)

\* client.py:231-233 start() "starts the thread that regularly flushes all enabled
\* caches": a running client has a thread, if one can be created.
RunningIsServed ==
  running /\ hasThread /\ enabled \cap Kinds # {} =>
    \E t \in Scheds : pc[t] \notin {"absent", "done", "crashed"}

\* client.py:342-343 report() "will aggregate it with prior report_requests to be
\* send later or it will send it immediately": while the client is running, and
\* not stopped, no report it has taken is dropped.
RunningKeepsReports ==
  [][running /\ ~stopped => dropped' = dropped]_vars
=============================================================================
