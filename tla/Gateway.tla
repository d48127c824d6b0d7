------------------------------ MODULE Gateway ------------------------------
(***************************************************************************)
(* The WSGI application that control/wsgi.py makes of another one: the     *)
(* ConfigFetchWrapper that has no backend before the service configuration *)
(* is loaded, by a background thread or in front of a request, and the     *)
(* environment and service control middlewares every request then passes.  *)
(*                                                                         *)
(* Servers are the threads of the WSGI server; nothing here takes a lock.  *)
(* A request is what the middlewares look at: does the registry know its   *)
(* method, has it an API key, does the method allow calls without one, has *)
(* it a cost.  What the authentication middleware adds never stops a       *)
(* request; see Authenticator.  The client's calls may also raise.         *)
(***************************************************************************)
EXTENDS Naturals, FiniteSets

CONSTANTS
  Servers,         \* threads that serve requests
  Requests         \* the requests that may come

ASSUME GatewayAssumption ==
  Requests \subseteq [known : BOOLEAN, key : BOOLEAN, unregistered : BOOLEAN, costs : BOOLEAN]

Refusals == {"no key", "check", "quota"}

VARIABLES
  config,          \* service_config is set
  threadingFailed, \* threading_failed
  ready,           \* wsgi_backend is the middlewares, not HTTPServiceUnavailable
  loader,          \* the background thread
  at,              \* what a server is about to do
  req,             \* the request it serves
  outcome,         \* why it is refused, or how it ended
  passed,          \* history: the checks that did not refuse it
  reports,         \* history: how many reports were made of it
  knew             \* history: the configuration was loaded when the request came

fetch == <<config, threadingFailed, ready, loader>>
service == <<at, req, outcome, passed, reports, knew>>
gatewayVars == <<fetch, service>>

Places == {"idle", "load", "wrap", "wrapping", "dispatch", "control", "check",
           "quota", "refuse", "app", "report"}
Outcomes == Refusals \cup {"none", "answered", "unavailable", "raised", "uncontrolled"}

-----------------------------------------------------------------------------
To(w, place) == at' = [at EXCEPT ![w] = place]
Ends(w, how) == To(w, "idle") /\ outcome' = [outcome EXCEPT ![w] = how]
Pass(w, check) == passed' = [passed EXCEPT ![w] = @ \cup {check}] /\ UNCHANGED outcome
Refused(w, why) == To(w, "refuse") /\ outcome' = [outcome EXCEPT ![w] = why]

\* __init__ has tried once.  Then the application is wrapped, or a thread is
\* launched, unless that fails or is disabled.  An exception that try_loading does
\* not catch, or that wrap_app raises, leaves no gateway.
GatewayInit ==
  /\ config \in BOOLEAN /\ threadingFailed \in BOOLEAN
  /\ ready = config
  /\ loader = IF config \/ threadingFailed THEN "none" ELSE "trying"
  /\ at = [w \in Servers |-> "idle"]
  /\ \E q \in Requests : req = [w \in Servers |-> q]
  /\ outcome = [w \in Servers |-> "none"]
  /\ passed = [w \in Servers |-> {}]
  /\ reports = [w \in Servers |-> 0]
  /\ knew = [w \in Servers |-> FALSE]

\* try_loading_in_thread: after one of two kinds of exceptions the attempt is
\* repeated later, any other ends the thread.
LoadInThread ==
  /\ loader = "trying"
  /\ \/ config' = TRUE /\ loader' = "done"
     \/ config' = config /\ loader' \in {"trying", "dead"}
  /\ UNCHANGED <<threadingFailed, ready, service>>

\* __call__
Arrive(w) ==
  /\ at[w] = "idle"
  /\ \E q \in Requests : req' = [req EXCEPT ![w] = q]
  /\ outcome' = [outcome EXCEPT ![w] = "none"]
  /\ passed' = [passed EXCEPT ![w] = {}]
  /\ reports' = [reports EXCEPT ![w] = 0]
  /\ knew' = [knew EXCEPT ![w] = config]
  /\ To(w, IF threadingFailed /\ ~config THEN "load" ELSE "wrap")
  /\ UNCHANGED fetch

LoadInline(w) ==
  /\ at[w] = "load"
  /\ \/ config' \in {config, TRUE} /\ To(w, "wrap") /\ UNCHANGED outcome
     \/ Ends(w, "raised") /\ UNCHANGED config
  /\ UNCHANGED <<threadingFailed, ready, loader, req, passed, reports, knew>>

\* Mutant of Wrap: only what was loaded in front of a request is wrapped.
WrapInline(w) ==
  /\ at[w] = "wrap"
  /\ To(w, IF ~ready /\ config /\ threadingFailed THEN "wrapping" ELSE "dispatch")
  /\ UNCHANGED <<fetch, req, outcome, passed, reports, knew>>

\* Mutant of Wrap: the configuration is not looked at.
WrapUnloaded(w) ==
  /\ at[w] = "wrap"
  /\ To(w, IF ~ready THEN "wrapping" ELSE "dispatch")
  /\ UNCHANGED <<fetch, req, outcome, passed, reports, knew>>

\* wrap_app() in front of the request, by each that finds no backend ...
Wrap(w) ==
  /\ at[w] = "wrap"
  /\ To(w, IF ~ready /\ config THEN "wrapping" ELSE "dispatch")
  /\ UNCHANGED <<fetch, req, outcome, passed, reports, knew>>

\* ... and the last one stays.  A constructor that raises, for what it finds in the
\* configuration, fails the request, and will fail the next.
Wrapped(w) ==
  /\ at[w] = "wrapping"
  /\ \/ To(w, "dispatch") /\ ready' = TRUE /\ UNCHANGED outcome
     \/ Ends(w, "raised") /\ UNCHANGED ready
  /\ UNCHANGED <<config, threadingFailed, loader, req, passed, reports, knew>>

\* The backend answers 503, or EnvironmentMiddleware looks the method up, and
\* AuthenticationMiddleware takes the token out of the request; either may raise.
Dispatch(w) ==
  /\ at[w] = "dispatch"
  /\ \/ ~ready /\ Ends(w, "unavailable")
     \/ /\ ready /\ To(w, IF req[w].known THEN "control" ELSE "app")
        /\ outcome' = [outcome EXCEPT ![w] = IF req[w].known THEN "none" ELSE "uncontrolled"]
     \/ ready /\ Ends(w, "raised")
  /\ UNCHANGED <<fetch, req, passed, reports, knew>>

\* Mutant of Control: the key is not asked for.
ControlAnyone(w) ==
  /\ at[w] = "control" /\ To(w, "check")
  /\ UNCHANGED <<fetch, req, outcome, passed, reports, knew>>

\* Middleware.__call__: without an API key, only if the method allows it.
Control(w) ==
  /\ at[w] = "control"
  /\ IF req[w].key \/ req[w].unregistered
     THEN To(w, "check") /\ UNCHANGED outcome
     ELSE Refused(w, "no key")
  /\ UNCHANGED <<fetch, req, passed, reports, knew>>

\* A check response is absent, without errors, with an error the code lets pass,
\* or refused; the first error decides.
Check(w) ==
  /\ at[w] = "check"
  /\ \/ To(w, IF req[w].costs THEN "quota" ELSE "app") /\ Pass(w, "check")
     \/ (Refused(w, "check") \/ Ends(w, "raised")) /\ UNCHANGED passed
  /\ UNCHANGED <<fetch, req, reports, knew>>

Quota(w) ==
  /\ at[w] = "quota"
  /\ \/ To(w, "app") /\ Pass(w, "quota")
     \/ (Refused(w, "quota") \/ Ends(w, "raised")) /\ UNCHANGED passed
  /\ UNCHANGED <<fetch, req, reports, knew>>

\* Mutant of Refuse: the refused request falls through to the application.
RefuseFallsThrough(w) ==
  /\ at[w] = "refuse"
  /\ \/ To(w, "app") /\ UNCHANGED outcome
     \/ Ends(w, "raised")
  /\ reports' = [reports EXCEPT ![w] = @ + 1]
  /\ UNCHANGED <<fetch, req, passed, knew>>

\* A refusal is reported before it is returned.
Refuse(w) ==
  /\ at[w] = "refuse"
  /\ reports' = [reports EXCEPT ![w] = @ + 1]
  /\ \/ Ends(w, outcome[w])
     \/ Ends(w, "raised")
  /\ UNCHANGED <<fetch, req, passed, knew>>

\* The application runs; when it raises, nothing is reported.
App(w) ==
  /\ at[w] = "app"
  /\ \/ IF req[w].known THEN To(w, "report") /\ UNCHANGED outcome ELSE Ends(w, "uncontrolled")
     \/ Ends(w, "raised")
  /\ UNCHANGED <<fetch, req, passed, reports, knew>>

Report(w) ==
  /\ at[w] = "report"
  /\ reports' = [reports EXCEPT ![w] = @ + 1]
  /\ Ends(w, "answered") \/ Ends(w, "raised")
  /\ UNCHANGED <<fetch, req, passed, knew>>

Serve(w) ==
  LoadInline(w) \/ Wrap(w) \/ Wrapped(w) \/ Dispatch(w) \/ Control(w) \/ Check(w)
  \/ Quota(w) \/ Refuse(w) \/ App(w) \/ Report(w)

GatewayNext == LoadInThread \/ \E w \in Servers : Arrive(w) \/ Serve(w)

GatewaySpec == GatewayInit /\ [][GatewayNext]_gatewayVars

-----------------------------------------------------------------------------
GatewayTypeOK ==
  /\ {config, threadingFailed, ready} \subseteq BOOLEAN
  /\ loader \in {"none", "trying", "done", "dead"}
  /\ at \in [Servers -> Places] /\ req \in [Servers -> Requests]
  /\ outcome \in [Servers -> Outcomes] /\ passed \in [Servers -> SUBSET Refusals]
  /\ reports \in [Servers -> 0..1] /\ knew \in [Servers -> BOOLEAN]
  /\ ready => config

\* Only a request that came before the configuration was loaded is answered with
\* 503, whichever thread loaded it and however many wrap the application at once.
UnavailableOnlyBefore ==
  \A w \in Servers : outcome[w] = "unavailable" => ~knew[w]

\* The application sees a request to a method of the service only after all that
\* the method asks for: the key, the check, and the quota if it has a cost.
AppOnlyIfAllowed ==
  \A w \in Servers : at[w] \in {"app", "report"} /\ req[w].known =>
    /\ req[w].key \/ req[w].unregistered
    /\ passed[w] = IF req[w].costs THEN {"check", "quota"} ELSE {"check"}

\* A request that was controlled is reported once, refused or not; one that was
\* not is never reported.  Only an exception lets a report be missing.
ReportedOnce ==
  \A w \in Servers : at[w] = "idle" =>
    /\ outcome[w] \in Refusals \cup {"answered"} => reports[w] = 1
    /\ outcome[w] \in {"unavailable", "uncontrolled", "none"} => reports[w] = 0
=============================================================================
