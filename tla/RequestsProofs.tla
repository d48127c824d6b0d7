--------------------------- MODULE RequestsProofs ---------------------------
(***************************************************************************)
(* Theorems about what a request meets: of Gateway, for any servers and    *)
(* any requests, and of Authenticator, for any tokens, issuers, keys and   *)
(* expiration times.  The two share no state.                              *)
(*                                                                         *)
(* The gateway takes no lock, so everything rests on what each server      *)
(* knows by itself at each place of its request (Local), and on two flags  *)
(* that are set and never reset: what one server knows is not disturbed by *)
(* another one.  Of the authenticator the invariant says what the caches   *)
(* hold and how old it is.                                                 *)
(***************************************************************************)
EXTENDS Gateway, Authenticator, SequenceTheorems, WellFoundedInduction, TLAPS


\* What is known of the request of a server that is at a place, with an outcome so
\* far (why), the checks it passed (done) and n reports made.
Journey(w, place, why, n) ==
  /\ place \in {"load", "wrap", "wrapping", "dispatch", "control", "check", "quota", "report"}
       => why = "none"
  /\ place = "refuse" => why \in Refusals
  /\ place \in {"control", "check", "quota", "refuse", "report"} => req[w].known
  /\ place = "app" => why = IF req[w].known THEN "none" ELSE "uncontrolled"
  /\ place # "idle" => n = 0

\* What the method asks for, as far as the request has come.
Permission(w, place, done) ==
  /\ place \in {"load", "wrap", "wrapping", "dispatch", "control", "check"} => done = {}
  /\ place \in {"check", "quota"} => req[w].key \/ req[w].unregistered
  /\ place = "quota" => done = {"check"} /\ req[w].costs

\* What the server knows of the configuration.
Knowledge(w, place) ==
  /\ place = "wrapping" \/ knew[w] => config
  /\ place = "load" => ~knew[w]
  /\ place = "dispatch" /\ knew[w] => ready

\* The properties, of one server.
Kept(w, place, why, done, n) ==
  /\ why = "unavailable" => ~knew[w]
  /\ place \in {"app", "report"} /\ req[w].known =>
       /\ req[w].key \/ req[w].unregistered
       /\ done = IF req[w].costs THEN {"check", "quota"} ELSE {"check"}
  /\ place = "idle" =>
       /\ why \in Refusals \cup {"answered"} => n = 1
       /\ why \in {"unavailable", "uncontrolled", "none"} => n = 0

Fits(w, place, why, done, n) ==
  /\ Journey(w, place, why, n) /\ Permission(w, place, done)
  /\ Knowledge(w, place) /\ Kept(w, place, why, done, n)

Local(w) == Fits(w, at[w], outcome[w], passed[w], reports[w])

\* The inductive invariant.
GatewayInv == GatewayTypeOK /\ (\A w \in Servers : Local(w))

-----------------------------------------------------------------------------
\* A step of one server, or of the loader: the flags are only set, and the
\* request of no other server is touched.
SameRequest(x) ==
  /\ at'[x] = at[x] /\ req'[x] = req[x] /\ outcome'[x] = outcome[x]
  /\ passed'[x] = passed[x] /\ reports'[x] = reports[x] /\ knew'[x] = knew[x]
FlagsStay == (config => config') /\ (ready => ready')

LEMMA Undisturbed ==
  ASSUME NEW x \in Servers, Local(x), SameRequest(x), FlagsStay
  PROVE  Local(x)'
<1>1. Journey(x, at[x], outcome[x], reports[x])'
  BY DEF Local, Fits, Journey, SameRequest
<1>2. Permission(x, at[x], passed[x])'
  BY DEF Local, Fits, Permission, SameRequest
<1>3. Knowledge(x, at[x])'
  BY DEF Local, Fits, Knowledge, SameRequest, FlagsStay
<1>4. Kept(x, at[x], outcome[x], passed[x], reports[x])'
  BY DEF Local, Fits, Kept, SameRequest
<1>5. QED
  BY <1>1, <1>2, <1>3, <1>4 DEF Local, Fits

\* What the step of a server leaves alone, and the types it keeps.
OthersStay(w) == \A x \in Servers \ {w} : SameRequest(x)

\* The state of the fetcher, and of the requests, in parts.
FetchOK ==
  /\ config \in BOOLEAN /\ threadingFailed \in BOOLEAN /\ ready \in BOOLEAN
  /\ loader \in {"none", "trying", "done", "dead"} /\ (ready => config)
ServiceOK ==
  /\ at \in [Servers -> Places] /\ req \in [Servers -> Requests]
  /\ outcome \in [Servers -> Outcomes] /\ passed \in [Servers -> SUBSET Refusals]
  /\ reports \in [Servers -> 0..1] /\ knew \in [Servers -> BOOLEAN]

LEMMA TypeParts == GatewayTypeOK <=> FetchOK /\ ServiceOK
<1>1. {config, threadingFailed, ready} \subseteq BOOLEAN
      <=> config \in BOOLEAN /\ threadingFailed \in BOOLEAN /\ ready \in BOOLEAN
  OBVIOUS
<1>2. QED
  BY <1>1 DEF GatewayTypeOK, FetchOK, ServiceOK

LEMMA InvInit == GatewayInit => GatewayInv
<1> SUFFICES ASSUME GatewayInit PROVE GatewayInv
  OBVIOUS
<1>1. FetchOK
  <2>1. config \in BOOLEAN /\ threadingFailed \in BOOLEAN /\ ready = config
        /\ loader \in {"none", "trying"}
    BY DEF GatewayInit
  <2>2. QED
    BY <2>1 DEF FetchOK
<1>2. ServiceOK
  <2>1. knew = [w \in Servers |-> FALSE] /\ req \in [Servers -> Requests]
    BY DEF GatewayInit
  <2>2. reports \in [Servers -> 0..1] /\ passed \in [Servers -> SUBSET Refusals]
        /\ at \in [Servers -> Places] /\ outcome \in [Servers -> Outcomes]
    BY DEF GatewayInit, Places, Outcomes
  <2>3. knew \in [Servers -> BOOLEAN]
    BY <2>1
  <2>4. QED
    BY <2>1, <2>2, <2>3 DEF ServiceOK
<1>3. ASSUME NEW w \in Servers PROVE Local(w)
  <2>1. at[w] = "idle" /\ outcome[w] = "none" /\ passed[w] = {} /\ reports[w] = 0
        /\ knew[w] = FALSE
    BY DEF GatewayInit
  <2>2. QED
    BY <2>1 DEF Local, Fits, Journey, Permission, Knowledge, Kept, Refusals
<1>4. QED
  BY <1>1, <1>2, <1>3, TypeParts DEF GatewayInv

-----------------------------------------------------------------------------
(* Each step of a server: its types, and what it then knows.               *)

\* Enough for a step of w to keep the invariant.
LEMMA OneServer ==
  ASSUME GatewayInv, NEW w \in Servers, FetchOK', ServiceOK', FlagsStay,
         OthersStay(w), Local(w)'
  PROVE  GatewayInv'
<1>1. ASSUME NEW x \in Servers PROVE Local(x)'
  <2>1. CASE x = w
    BY <2>1
  <2>2. CASE x # w
    BY <2>2, Undisturbed DEF OthersStay, GatewayInv
  <2>3. QED
    BY <2>1, <2>2
<1>2. GatewayTypeOK'
  <2>1. {config', threadingFailed', ready'} \subseteq BOOLEAN
    BY DEF FetchOK
  <2>2. QED
    BY <2>1 DEF GatewayTypeOK, FetchOK, ServiceOK
<1>3. QED
  BY <1>1, <1>2 DEF GatewayInv

LEMMA ArriveInv ==
  ASSUME GatewayInv, NEW w \in Servers, Arrive(w) PROVE GatewayInv'
<1> USE DEF Arrive, To, fetch
<1>1. FetchOK /\ ServiceOK /\ Local(w)
  BY TypeParts DEF GatewayInv
<1>2. FetchOK' /\ FlagsStay
  BY <1>1 DEF FetchOK, FlagsStay
<1>3. ServiceOK'
  BY <1>1 DEF ServiceOK, FetchOK, Places, Outcomes
<1>4. OthersStay(w)
  BY <1>1 DEF OthersStay, SameRequest, ServiceOK
<1>5. /\ at'[w] \in {"load", "wrap"} /\ outcome'[w] = "none" /\ passed'[w] = {}
      /\ reports'[w] = 0 /\ knew'[w] = config /\ config' = config
      /\ at'[w] = "load" => ~config
  BY <1>1 DEF ServiceOK
<1>6. /\ Journey(w, at[w], outcome[w], reports[w])' /\ Permission(w, at[w], passed[w])'
      /\ Kept(w, at[w], outcome[w], passed[w], reports[w])'
  BY <1>5 DEF Journey, Permission, Kept
<1>7. Knowledge(w, at[w])'
  <2>1. at'[w] # "wrapping" /\ at'[w] # "dispatch"
    BY <1>5
  <2>2. knew'[w] => config'
    BY <1>5
  <2>3. at'[w] = "load" => ~knew'[w]
    BY <1>5
  <2>4. QED
    BY <2>1, <2>2, <2>3, Zenon DEF Knowledge
<1>8. QED
  BY <1>2, <1>3, <1>4, <1>6, <1>7, OneServer DEF Local, Fits

\* A step within a request changes nothing else.
LEMMA Stepped ==
  ASSUME GatewayInv, NEW w \in Servers, UNCHANGED <<config, ready, loader, threadingFailed>>,
         UNCHANGED <<req, knew>>,
         NEW place \in Places, NEW why \in Outcomes, NEW done \in SUBSET Refusals,
         NEW n \in 0..1, To(w, place), outcome' = [outcome EXCEPT ![w] = why],
         passed' = [passed EXCEPT ![w] = done], reports' = [reports EXCEPT ![w] = n],
         Fits(w, place, why, done, n)
  PROVE  GatewayInv'
<1>1. FetchOK /\ ServiceOK
  BY TypeParts DEF GatewayInv
<1>2. FetchOK' /\ FlagsStay
  BY <1>1 DEF FetchOK, FlagsStay
<1>3. ServiceOK'
  BY <1>1 DEF ServiceOK, To
<1>4. OthersStay(w)
  BY <1>1 DEF OthersStay, SameRequest, ServiceOK, To
<1>5. at'[w] = place /\ outcome'[w] = why /\ passed'[w] = done /\ reports'[w] = n
  BY <1>1 DEF ServiceOK, To
<1>6. /\ Journey(w, at[w], outcome[w], reports[w])' /\ Permission(w, at[w], passed[w])'
      /\ Kept(w, at[w], outcome[w], passed[w], reports[w])'
  BY <1>5 DEF Fits, Journey, Permission, Kept
<1>7. Knowledge(w, at[w])'
  BY <1>5 DEF Fits, Knowledge
<1>8. QED
  BY <1>2, <1>3, <1>4, <1>6, <1>7, OneServer DEF Local, Fits

LEMMA Unmoved ==
  ASSUME GatewayInv, NEW w \in Servers
  PROVE  /\ outcome = [outcome EXCEPT ![w] = outcome[w]] /\ outcome[w] \in Outcomes
         /\ passed = [passed EXCEPT ![w] = passed[w]] /\ passed[w] \in SUBSET Refusals
         /\ reports = [reports EXCEPT ![w] = reports[w]] /\ reports[w] \in 0..1
         /\ Fits(w, at[w], outcome[w], passed[w], reports[w])
BY TypeParts DEF GatewayInv, ServiceOK, Local

LEMMA WrapInv ==
  ASSUME GatewayInv, NEW w \in Servers, Wrap(w) PROVE GatewayInv'
<1> USE DEF Wrap, fetch
<1>0. Fits(w, at[w], outcome[w], passed[w], reports[w])
  BY Unmoved
<1>1. CASE ~ready /\ config
  <2>1. Fits(w, "wrapping", outcome[w], passed[w], reports[w])
    BY <1>0, <1>1, Unmoved DEF Fits, Journey, Permission, Knowledge, Kept, Refusals
  <2>2. outcome[w] \in Outcomes /\ "wrapping" \in Places /\ passed[w] \in SUBSET Refusals /\ reports[w] \in 0..1
    BY <1>0, <1>1, Unmoved DEF Outcomes, Places, Refusals, Fits, Journey
  <2>3. /\ To(w, "wrapping") /\ outcome' = [outcome EXCEPT ![w] = outcome[w]]
        /\ passed' = [passed EXCEPT ![w] = passed[w]] /\ reports' = [reports EXCEPT ![w] = reports[w]]
    BY <1>1, Unmoved DEF Ends, Refused, Pass
  <2>4. QED
    BY <2>1, <2>2, <2>3, Stepped
<1>2. CASE ready \/ ~config
  <2>1. Fits(w, "dispatch", outcome[w], passed[w], reports[w])
    BY <1>0, <1>2, Unmoved DEF Fits, Journey, Permission, Knowledge, Kept, Refusals
  <2>2. outcome[w] \in Outcomes /\ "dispatch" \in Places /\ passed[w] \in SUBSET Refusals /\ reports[w] \in 0..1
    BY <1>0, <1>2, Unmoved DEF Outcomes, Places, Refusals, Fits, Journey
  <2>3. /\ To(w, "dispatch") /\ outcome' = [outcome EXCEPT ![w] = outcome[w]]
        /\ passed' = [passed EXCEPT ![w] = passed[w]] /\ reports' = [reports EXCEPT ![w] = reports[w]]
    BY <1>2, Unmoved DEF Ends, Refused, Pass
  <2>4. QED
    BY <2>1, <2>2, <2>3, Stepped
<1>3. QED
  BY <1>1, <1>2 DEF To

LEMMA DispatchInv ==
  ASSUME GatewayInv, NEW w \in Servers, Dispatch(w) PROVE GatewayInv'
<1> USE DEF Dispatch, fetch
<1>0. Fits(w, at[w], outcome[w], passed[w], reports[w])
  BY Unmoved
<1>1. CASE ~ready /\ Ends(w, "unavailable")
  <2>1. Fits(w, "idle", "unavailable", passed[w], reports[w])
    BY <1>0, <1>1, Unmoved DEF Fits, Journey, Permission, Knowledge, Kept, Refusals
  <2>2. "unavailable" \in Outcomes /\ "idle" \in Places /\ passed[w] \in SUBSET Refusals /\ reports[w] \in 0..1
    BY <1>0, <1>1, Unmoved DEF Outcomes, Places, Refusals, Fits, Journey
  <2>3. /\ To(w, "idle") /\ outcome' = [outcome EXCEPT ![w] = "unavailable"]
        /\ passed' = [passed EXCEPT ![w] = passed[w]] /\ reports' = [reports EXCEPT ![w] = reports[w]]
    BY <1>1, Unmoved DEF Ends, Refused, Pass
  <2>4. QED
    BY <2>1, <2>2, <2>3, Stepped
<1>2. CASE /\ ready /\ req[w].known /\ To(w, "control")
           /\ outcome' = [outcome EXCEPT ![w] = "none"]
  <2>1. Fits(w, "control", "none", passed[w], reports[w])
    BY <1>0, <1>2, Unmoved DEF Fits, Journey, Permission, Knowledge, Kept, Refusals
  <2>2. "none" \in Outcomes /\ "control" \in Places /\ passed[w] \in SUBSET Refusals /\ reports[w] \in 0..1
    BY <1>0, <1>2, Unmoved DEF Outcomes, Places, Refusals, Fits, Journey
  <2>3. /\ To(w, "control") /\ outcome' = [outcome EXCEPT ![w] = "none"]
        /\ passed' = [passed EXCEPT ![w] = passed[w]] /\ reports' = [reports EXCEPT ![w] = reports[w]]
    BY <1>2, Unmoved DEF Ends, Refused, Pass
  <2>4. QED
    BY <2>1, <2>2, <2>3, Stepped
<1>3. CASE /\ ready /\ ~req[w].known /\ To(w, "app")
           /\ outcome' = [outcome EXCEPT ![w] = "uncontrolled"]
  <2>1. Fits(w, "app", "uncontrolled", passed[w], reports[w])
    BY <1>0, <1>3, Unmoved DEF Fits, Journey, Permission, Knowledge, Kept, Refusals
  <2>2. "uncontrolled" \in Outcomes /\ "app" \in Places /\ passed[w] \in SUBSET Refusals /\ reports[w] \in 0..1
    BY <1>0, <1>3, Unmoved DEF Outcomes, Places, Refusals, Fits, Journey
  <2>3. /\ To(w, "app") /\ outcome' = [outcome EXCEPT ![w] = "uncontrolled"]
        /\ passed' = [passed EXCEPT ![w] = passed[w]] /\ reports' = [reports EXCEPT ![w] = reports[w]]
    BY <1>3, Unmoved DEF Ends, Refused, Pass
  <2>4. QED
    BY <2>1, <2>2, <2>3, Stepped
<1>4. CASE ready /\ Ends(w, "raised")
  <2>1. Fits(w, "idle", "raised", passed[w], reports[w])
    BY <1>0, <1>4, Unmoved DEF Fits, Journey, Permission, Knowledge, Kept, Refusals
  <2>2. "raised" \in Outcomes /\ "idle" \in Places /\ passed[w] \in SUBSET Refusals /\ reports[w] \in 0..1
    BY <1>0, <1>4, Unmoved DEF Outcomes, Places, Refusals, Fits, Journey
  <2>3. /\ To(w, "idle") /\ outcome' = [outcome EXCEPT ![w] = "raised"]
        /\ passed' = [passed EXCEPT ![w] = passed[w]] /\ reports' = [reports EXCEPT ![w] = reports[w]]
    BY <1>4, Unmoved DEF Ends, Refused, Pass
  <2>4. QED
    BY <2>1, <2>2, <2>3, Stepped
<1>5. QED
  BY <1>1, <1>2, <1>3, <1>4

LEMMA ControlInv ==
  ASSUME GatewayInv, NEW w \in Servers, Control(w) PROVE GatewayInv'
<1> USE DEF Control, fetch
<1>0. Fits(w, at[w], outcome[w], passed[w], reports[w])
  BY Unmoved
<1>1. CASE req[w].key \/ req[w].unregistered
  <2>1. Fits(w, "check", outcome[w], passed[w], reports[w])
    BY <1>0, <1>1, Unmoved DEF Fits, Journey, Permission, Knowledge, Kept, Refusals
  <2>2. outcome[w] \in Outcomes /\ "check" \in Places /\ passed[w] \in SUBSET Refusals /\ reports[w] \in 0..1
    BY <1>0, <1>1, Unmoved DEF Outcomes, Places, Refusals, Fits, Journey
  <2>3. /\ To(w, "check") /\ outcome' = [outcome EXCEPT ![w] = outcome[w]]
        /\ passed' = [passed EXCEPT ![w] = passed[w]] /\ reports' = [reports EXCEPT ![w] = reports[w]]
    BY <1>1, Unmoved DEF Ends, Refused, Pass
  <2>4. QED
    BY <2>1, <2>2, <2>3, Stepped
<1>2. CASE ~(req[w].key \/ req[w].unregistered)
  <2>1. Fits(w, "refuse", "no key", passed[w], reports[w])
    BY <1>0, <1>2, Unmoved DEF Fits, Journey, Permission, Knowledge, Kept, Refusals
  <2>2. "no key" \in Outcomes /\ "refuse" \in Places /\ passed[w] \in SUBSET Refusals /\ reports[w] \in 0..1
    BY <1>0, <1>2, Unmoved DEF Outcomes, Places, Refusals, Fits, Journey
  <2>3. /\ To(w, "refuse") /\ outcome' = [outcome EXCEPT ![w] = "no key"]
        /\ passed' = [passed EXCEPT ![w] = passed[w]] /\ reports' = [reports EXCEPT ![w] = reports[w]]
    BY <1>2, Unmoved DEF Ends, Refused, Pass
  <2>4. QED
    BY <2>1, <2>2, <2>3, Stepped
<1>3. QED
  BY <1>1, <1>2 DEF To

LEMMA CheckInv ==
  ASSUME GatewayInv, NEW w \in Servers, Check(w) PROVE GatewayInv'
<1> USE DEF Check, fetch
<1>0. Fits(w, at[w], outcome[w], passed[w], reports[w])
  BY Unmoved
<1>1. CASE Pass(w, "check") /\ To(w, "quota") /\ req[w].costs
  <2>1. Fits(w, "quota", outcome[w], passed[w] \cup {"check"}, reports[w])
    BY <1>0, <1>1, Unmoved DEF Fits, Journey, Permission, Knowledge, Kept, Refusals
  <2>2. outcome[w] \in Outcomes /\ "quota" \in Places /\ passed[w] \cup {"check"} \in SUBSET Refusals /\ reports[w] \in 0..1
    BY <1>0, <1>1, Unmoved DEF Outcomes, Places, Refusals, Fits, Journey
  <2>3. /\ To(w, "quota") /\ outcome' = [outcome EXCEPT ![w] = outcome[w]]
        /\ passed' = [passed EXCEPT ![w] = passed[w] \cup {"check"}] /\ reports' = [reports EXCEPT ![w] = reports[w]]
    BY <1>1, Unmoved DEF Ends, Refused, Pass
  <2>4. QED
    BY <2>1, <2>2, <2>3, Stepped
<1>2. CASE Pass(w, "check") /\ To(w, "app") /\ ~req[w].costs
  <2>1. Fits(w, "app", outcome[w], passed[w] \cup {"check"}, reports[w])
    BY <1>0, <1>2, Unmoved DEF Fits, Journey, Permission, Knowledge, Kept, Refusals
  <2>2. outcome[w] \in Outcomes /\ "app" \in Places /\ passed[w] \cup {"check"} \in SUBSET Refusals /\ reports[w] \in 0..1
    BY <1>0, <1>2, Unmoved DEF Outcomes, Places, Refusals, Fits, Journey
  <2>3. /\ To(w, "app") /\ outcome' = [outcome EXCEPT ![w] = outcome[w]]
        /\ passed' = [passed EXCEPT ![w] = passed[w] \cup {"check"}] /\ reports' = [reports EXCEPT ![w] = reports[w]]
    BY <1>2, Unmoved DEF Ends, Refused, Pass
  <2>4. QED
    BY <2>1, <2>2, <2>3, Stepped
<1>3. CASE Refused(w, "check") /\ UNCHANGED passed
  <2>1. Fits(w, "refuse", "check", passed[w], reports[w])
    BY <1>0, <1>3, Unmoved DEF Fits, Journey, Permission, Knowledge, Kept, Refusals
  <2>2. "check" \in Outcomes /\ "refuse" \in Places /\ passed[w] \in SUBSET Refusals /\ reports[w] \in 0..1
    BY <1>0, <1>3, Unmoved DEF Outcomes, Places, Refusals, Fits, Journey
  <2>3. /\ To(w, "refuse") /\ outcome' = [outcome EXCEPT ![w] = "check"]
        /\ passed' = [passed EXCEPT ![w] = passed[w]] /\ reports' = [reports EXCEPT ![w] = reports[w]]
    BY <1>3, Unmoved DEF Ends, Refused, Pass
  <2>4. QED
    BY <2>1, <2>2, <2>3, Stepped
<1>4. CASE Ends(w, "raised") /\ UNCHANGED passed
  <2>1. Fits(w, "idle", "raised", passed[w], reports[w])
    BY <1>0, <1>4, Unmoved DEF Fits, Journey, Permission, Knowledge, Kept, Refusals
  <2>2. "raised" \in Outcomes /\ "idle" \in Places /\ passed[w] \in SUBSET Refusals /\ reports[w] \in 0..1
    BY <1>0, <1>4, Unmoved DEF Outcomes, Places, Refusals, Fits, Journey
  <2>3. /\ To(w, "idle") /\ outcome' = [outcome EXCEPT ![w] = "raised"]
        /\ passed' = [passed EXCEPT ![w] = passed[w]] /\ reports' = [reports EXCEPT ![w] = reports[w]]
    BY <1>4, Unmoved DEF Ends, Refused, Pass
  <2>4. QED
    BY <2>1, <2>2, <2>3, Stepped
<1>5. QED
  BY <1>1, <1>2, <1>3, <1>4 DEF To

LEMMA QuotaInv ==
  ASSUME GatewayInv, NEW w \in Servers, Quota(w) PROVE GatewayInv'
<1> USE DEF Quota, fetch
<1>0. Fits(w, at[w], outcome[w], passed[w], reports[w])
  BY Unmoved
<1>1. CASE Pass(w, "quota") /\ To(w, "app")
  <2>1. Fits(w, "app", outcome[w], passed[w] \cup {"quota"}, reports[w])
    BY <1>0, <1>1, Unmoved DEF Fits, Journey, Permission, Knowledge, Kept, Refusals
  <2>2. outcome[w] \in Outcomes /\ "app" \in Places /\ passed[w] \cup {"quota"} \in SUBSET Refusals /\ reports[w] \in 0..1
    BY <1>0, <1>1, Unmoved DEF Outcomes, Places, Refusals, Fits, Journey
  <2>3. /\ To(w, "app") /\ outcome' = [outcome EXCEPT ![w] = outcome[w]]
        /\ passed' = [passed EXCEPT ![w] = passed[w] \cup {"quota"}] /\ reports' = [reports EXCEPT ![w] = reports[w]]
    BY <1>1, Unmoved DEF Ends, Refused, Pass
  <2>4. QED
    BY <2>1, <2>2, <2>3, Stepped
<1>2. CASE Refused(w, "quota") /\ UNCHANGED passed
  <2>1. Fits(w, "refuse", "quota", passed[w], reports[w])
    BY <1>0, <1>2, Unmoved DEF Fits, Journey, Permission, Knowledge, Kept, Refusals
  <2>2. "quota" \in Outcomes /\ "refuse" \in Places /\ passed[w] \in SUBSET Refusals /\ reports[w] \in 0..1
    BY <1>0, <1>2, Unmoved DEF Outcomes, Places, Refusals, Fits, Journey
  <2>3. /\ To(w, "refuse") /\ outcome' = [outcome EXCEPT ![w] = "quota"]
        /\ passed' = [passed EXCEPT ![w] = passed[w]] /\ reports' = [reports EXCEPT ![w] = reports[w]]
    BY <1>2, Unmoved DEF Ends, Refused, Pass
  <2>4. QED
    BY <2>1, <2>2, <2>3, Stepped
<1>3. CASE Ends(w, "raised") /\ UNCHANGED passed
  <2>1. Fits(w, "idle", "raised", passed[w], reports[w])
    BY <1>0, <1>3, Unmoved DEF Fits, Journey, Permission, Knowledge, Kept, Refusals
  <2>2. "raised" \in Outcomes /\ "idle" \in Places /\ passed[w] \in SUBSET Refusals /\ reports[w] \in 0..1
    BY <1>0, <1>3, Unmoved DEF Outcomes, Places, Refusals, Fits, Journey
  <2>3. /\ To(w, "idle") /\ outcome' = [outcome EXCEPT ![w] = "raised"]
        /\ passed' = [passed EXCEPT ![w] = passed[w]] /\ reports' = [reports EXCEPT ![w] = reports[w]]
    BY <1>3, Unmoved DEF Ends, Refused, Pass
  <2>4. QED
    BY <2>1, <2>2, <2>3, Stepped
<1>4. QED
  BY <1>1, <1>2, <1>3 DEF To

LEMMA RefuseInv ==
  ASSUME GatewayInv, NEW w \in Servers, Refuse(w) PROVE GatewayInv'
<1> USE DEF Refuse, fetch
<1>0. Fits(w, at[w], outcome[w], passed[w], reports[w])
  BY Unmoved
<1>r. reports[w] = 0
  BY <1>0 DEF Fits, Journey
<1>n. reports' = [reports EXCEPT ![w] = 1]
  <2>1. reports' = [reports EXCEPT ![w] = reports[w] + 1]
    OBVIOUS
  <2>2. reports[w] + 1 = 1
    BY <1>r
  <2>3. QED
    BY <2>1, <2>2, Zenon
<1>o. 1 \in 0..1
  OBVIOUS
<1>1. CASE Ends(w, outcome[w])
  <2>1. Fits(w, "idle", outcome[w], passed[w], 1)
    BY <1>0, <1>1, Unmoved DEF Fits, Journey, Permission, Knowledge, Kept, Refusals
  <2>2. outcome[w] \in Outcomes /\ "idle" \in Places /\ passed[w] \in SUBSET Refusals
    BY Unmoved DEF Outcomes, Places
  <2>3. /\ To(w, "idle") /\ outcome' = [outcome EXCEPT ![w] = outcome[w]]
        /\ passed' = [passed EXCEPT ![w] = passed[w]] /\ reports' = [reports EXCEPT ![w] = 1]
    BY <1>1, <1>n, Unmoved DEF Ends, Refused, Pass
  <2>4. QED
    BY <2>1, <2>2, <2>3, <1>o, Stepped
<1>2. CASE Ends(w, "raised")
  <2>1. Fits(w, "idle", "raised", passed[w], 1)
    BY <1>0, <1>2, Unmoved DEF Fits, Journey, Permission, Knowledge, Kept, Refusals
  <2>2. "raised" \in Outcomes /\ "idle" \in Places /\ passed[w] \in SUBSET Refusals
    BY Unmoved DEF Outcomes, Places
  <2>3. /\ To(w, "idle") /\ outcome' = [outcome EXCEPT ![w] = "raised"]
        /\ passed' = [passed EXCEPT ![w] = passed[w]] /\ reports' = [reports EXCEPT ![w] = 1]
    BY <1>2, <1>n, Unmoved DEF Ends, Refused, Pass
  <2>4. QED
    BY <2>1, <2>2, <2>3, <1>o, Stepped
<1>3. QED
  BY <1>1, <1>2 DEF To

LEMMA AppInv ==
  ASSUME GatewayInv, NEW w \in Servers, App(w) PROVE GatewayInv'
<1> USE DEF App, fetch
<1>0. Fits(w, at[w], outcome[w], passed[w], reports[w])
  BY Unmoved
<1>1. CASE req[w].known /\ To(w, "report") /\ UNCHANGED outcome
  <2>1. Fits(w, "report", outcome[w], passed[w], reports[w])
    BY <1>0, <1>1, Unmoved DEF Fits, Journey, Permission, Knowledge, Kept, Refusals
  <2>2. outcome[w] \in Outcomes /\ "report" \in Places /\ passed[w] \in SUBSET Refusals /\ reports[w] \in 0..1
    BY <1>0, <1>1, Unmoved DEF Outcomes, Places, Refusals, Fits, Journey
  <2>3. /\ To(w, "report") /\ outcome' = [outcome EXCEPT ![w] = outcome[w]]
        /\ passed' = [passed EXCEPT ![w] = passed[w]] /\ reports' = [reports EXCEPT ![w] = reports[w]]
    BY <1>1, Unmoved DEF Ends, Refused, Pass
  <2>4. QED
    BY <2>1, <2>2, <2>3, Stepped
<1>2. CASE ~req[w].known /\ Ends(w, "uncontrolled")
  <2>1. Fits(w, "idle", "uncontrolled", passed[w], reports[w])
    BY <1>0, <1>2, Unmoved DEF Fits, Journey, Permission, Knowledge, Kept, Refusals
  <2>2. "uncontrolled" \in Outcomes /\ "idle" \in Places /\ passed[w] \in SUBSET Refusals /\ reports[w] \in 0..1
    BY <1>0, <1>2, Unmoved DEF Outcomes, Places, Refusals, Fits, Journey
  <2>3. /\ To(w, "idle") /\ outcome' = [outcome EXCEPT ![w] = "uncontrolled"]
        /\ passed' = [passed EXCEPT ![w] = passed[w]] /\ reports' = [reports EXCEPT ![w] = reports[w]]
    BY <1>2, Unmoved DEF Ends, Refused, Pass
  <2>4. QED
    BY <2>1, <2>2, <2>3, Stepped
<1>3. CASE Ends(w, "raised")
  <2>1. Fits(w, "idle", "raised", passed[w], reports[w])
    BY <1>0, <1>3, Unmoved DEF Fits, Journey, Permission, Knowledge, Kept, Refusals
  <2>2. "raised" \in Outcomes /\ "idle" \in Places /\ passed[w] \in SUBSET Refusals /\ reports[w] \in 0..1
    BY <1>0, <1>3, Unmoved DEF Outcomes, Places, Refusals, Fits, Journey
  <2>3. /\ To(w, "idle") /\ outcome' = [outcome EXCEPT ![w] = "raised"]
        /\ passed' = [passed EXCEPT ![w] = passed[w]] /\ reports' = [reports EXCEPT ![w] = reports[w]]
    BY <1>3, Unmoved DEF Ends, Refused, Pass
  <2>4. QED
    BY <2>1, <2>2, <2>3, Stepped
<1>4. QED
  BY <1>1, <1>2, <1>3 DEF To

LEMMA ReportInv ==
  ASSUME GatewayInv, NEW w \in Servers, Report(w) PROVE GatewayInv'
<1> USE DEF Report, fetch
<1>0. Fits(w, at[w], outcome[w], passed[w], reports[w])
  BY Unmoved
<1>r. reports[w] = 0
  BY <1>0 DEF Fits, Journey
<1>n. reports' = [reports EXCEPT ![w] = 1]
  <2>1. reports' = [reports EXCEPT ![w] = reports[w] + 1]
    OBVIOUS
  <2>2. reports[w] + 1 = 1
    BY <1>r
  <2>3. QED
    BY <2>1, <2>2, Zenon
<1>o. 1 \in 0..1
  OBVIOUS
<1>1. CASE Ends(w, "answered")
  <2>1. Fits(w, "idle", "answered", passed[w], 1)
    BY <1>0, <1>1, Unmoved DEF Fits, Journey, Permission, Knowledge, Kept, Refusals
  <2>2. "answered" \in Outcomes /\ "idle" \in Places /\ passed[w] \in SUBSET Refusals
    BY Unmoved DEF Outcomes, Places
  <2>3. /\ To(w, "idle") /\ outcome' = [outcome EXCEPT ![w] = "answered"]
        /\ passed' = [passed EXCEPT ![w] = passed[w]] /\ reports' = [reports EXCEPT ![w] = 1]
    BY <1>1, <1>n, Unmoved DEF Ends, Refused, Pass
  <2>4. QED
    BY <2>1, <2>2, <2>3, <1>o, Stepped
<1>2. CASE Ends(w, "raised")
  <2>1. Fits(w, "idle", "raised", passed[w], 1)
    BY <1>0, <1>2, Unmoved DEF Fits, Journey, Permission, Knowledge, Kept, Refusals
  <2>2. "raised" \in Outcomes /\ "idle" \in Places /\ passed[w] \in SUBSET Refusals
    BY Unmoved DEF Outcomes, Places
  <2>3. /\ To(w, "idle") /\ outcome' = [outcome EXCEPT ![w] = "raised"]
        /\ passed' = [passed EXCEPT ![w] = passed[w]] /\ reports' = [reports EXCEPT ![w] = 1]
    BY <1>2, <1>n, Unmoved DEF Ends, Refused, Pass
  <2>4. QED
    BY <2>1, <2>2, <2>3, <1>o, Stepped
<1>3. QED
  BY <1>1, <1>2 DEF To

-----------------------------------------------------------------------------
(* The steps that set a flag.                                              *)

LEMMA WrappedInv ==
  ASSUME GatewayInv, NEW w \in Servers, Wrapped(w) PROVE GatewayInv'
<1>0. FetchOK /\ ServiceOK /\ Fits(w, at[w], outcome[w], passed[w], reports[w])
  BY TypeParts, Unmoved DEF GatewayInv
<1>1. at[w] = "wrapping" /\ config
  BY <1>0 DEF Wrapped, Fits, Knowledge
<1>2. UNCHANGED <<config, threadingFailed, loader, req, passed, reports, knew>>
  BY DEF Wrapped
<1>3. CASE To(w, "dispatch") /\ ready' = TRUE /\ UNCHANGED outcome
  <2>1. FetchOK' /\ FlagsStay
    BY <1>0, <1>1, <1>2, <1>3 DEF FetchOK, FlagsStay
  <2>2. ServiceOK'
    BY <1>0, <1>2, <1>3 DEF ServiceOK, To, Places
  <2>3. OthersStay(w)
    BY <1>0, <1>2, <1>3 DEF To, OthersStay, SameRequest, ServiceOK
  <2>4. at'[w] = "dispatch"
    BY <1>0, <1>3 DEF To, ServiceOK
  <2>5. /\ Journey(w, at[w], outcome[w], reports[w])' /\ Permission(w, at[w], passed[w])'
        /\ Kept(w, at[w], outcome[w], passed[w], reports[w])'
    BY <1>0, <1>1, <1>2, <1>3, <2>4 DEF Fits, Journey, Permission, Kept
  <2>6. Knowledge(w, at[w])'
    BY <1>0, <1>1, <1>2, <1>3, <2>4 DEF Fits, Knowledge
  <2>7. QED
    BY <2>1, <2>2, <2>3, <2>5, <2>6, OneServer DEF Local, Fits
<1>4. CASE Ends(w, "raised") /\ UNCHANGED ready
  <2>1. Fits(w, "idle", "raised", passed[w], reports[w])
    BY <1>0, <1>1 DEF Fits, Journey, Permission, Knowledge, Kept, Refusals
  <2>2. "raised" \in Outcomes /\ "idle" \in Places /\ passed[w] \in SUBSET Refusals /\ reports[w] \in 0..1
    BY Unmoved DEF Outcomes, Places
  <2>3. /\ To(w, "idle") /\ outcome' = [outcome EXCEPT ![w] = "raised"]
        /\ passed' = [passed EXCEPT ![w] = passed[w]] /\ reports' = [reports EXCEPT ![w] = reports[w]]
    BY <1>2, <1>4, Unmoved DEF Ends
  <2>4. QED
    BY <1>2, <1>4, <2>1, <2>2, <2>3, Stepped
<1>5. QED
  BY <1>3, <1>4 DEF Wrapped

LEMMA LoadInlineInv ==
  ASSUME GatewayInv, NEW w \in Servers, LoadInline(w) PROVE GatewayInv'
<1>0. FetchOK /\ ServiceOK /\ Fits(w, at[w], outcome[w], passed[w], reports[w])
  BY TypeParts, Unmoved DEF GatewayInv
<1>1. UNCHANGED <<threadingFailed, ready, loader>> /\ (config => config') /\ config' \in BOOLEAN
  BY <1>0 DEF LoadInline, FetchOK
<1>2. FetchOK' /\ FlagsStay
  BY <1>0, <1>1 DEF FetchOK, FlagsStay
<1>3. \/ To(w, "wrap") /\ outcome' = [outcome EXCEPT ![w] = outcome[w]]
      \/ To(w, "idle") /\ outcome' = [outcome EXCEPT ![w] = "raised"]
  BY Unmoved DEF LoadInline, Ends
<1>4. UNCHANGED <<req, passed, reports, knew>>
  BY DEF LoadInline
<1>5. ServiceOK'
  BY <1>0, <1>3, <1>4 DEF ServiceOK, To, Places, Outcomes
<1>6. OthersStay(w)
  BY <1>0, <1>3, <1>4 DEF To, OthersStay, SameRequest, ServiceOK
<1>7. \/ at'[w] = "wrap" /\ outcome'[w] = outcome[w]
      \/ at'[w] = "idle" /\ outcome'[w] = "raised"
  BY <1>0, <1>3 DEF To, ServiceOK
<1>8. /\ Journey(w, at[w], outcome[w], reports[w])' /\ Permission(w, at[w], passed[w])'
      /\ Kept(w, at[w], outcome[w], passed[w], reports[w])'
  BY <1>0, <1>4, <1>7 DEF LoadInline, Fits, Journey, Permission, Kept, Refusals
<1>9. Knowledge(w, at[w])'
  BY <1>0, <1>1, <1>4, <1>7 DEF Fits, Knowledge
<1>10. QED
  BY <1>2, <1>5, <1>6, <1>8, <1>9, OneServer DEF Local, Fits

LEMMA LoadInThreadInv ==
  ASSUME GatewayInv, LoadInThread PROVE GatewayInv'
<1>0. FetchOK /\ ServiceOK
  BY TypeParts DEF GatewayInv
<1>1. UNCHANGED <<threadingFailed, ready>> /\ (config => config') /\ config' \in BOOLEAN
      /\ loader' \in {"none", "trying", "done", "dead"}
  BY <1>0 DEF LoadInThread, FetchOK
<1>2. FetchOK' /\ FlagsStay
  BY <1>0, <1>1 DEF FetchOK, FlagsStay
<1>3. UNCHANGED <<at, req, outcome, passed, reports, knew>>
  BY DEF LoadInThread, service
<1>4. ASSUME NEW x \in Servers PROVE Local(x)'
  <2>1. SameRequest(x)
    BY <1>3 DEF SameRequest
  <2>2. QED
    BY <1>2, <2>1, Undisturbed DEF GatewayInv
<1>5. ServiceOK'
  BY <1>0, <1>3 DEF ServiceOK
<1>6. GatewayTypeOK'
  <2>1. {config', threadingFailed', ready'} \subseteq BOOLEAN
    BY <1>2 DEF FetchOK
  <2>2. QED
    BY <1>2, <1>5, <2>1 DEF GatewayTypeOK, FetchOK, ServiceOK
<1>7. QED
  BY <1>4, <1>6 DEF GatewayInv

LEMMA InvNext == GatewayInv /\ [GatewayNext]_gatewayVars => GatewayInv'
<1> SUFFICES ASSUME GatewayInv, [GatewayNext]_gatewayVars PROVE GatewayInv'
  OBVIOUS
<1>1. CASE LoadInThread
  BY <1>1, LoadInThreadInv
<1>2. ASSUME NEW w \in Servers, Arrive(w) PROVE GatewayInv'
  BY <1>2, ArriveInv
<1>3. ASSUME NEW w \in Servers, Serve(w) PROVE GatewayInv'
  BY <1>3, LoadInlineInv, WrapInv, WrappedInv, DispatchInv, ControlInv, CheckInv, QuotaInv,
     RefuseInv, AppInv, ReportInv DEF Serve
<1>4. CASE UNCHANGED gatewayVars
  <2>1. UNCHANGED <<config, threadingFailed, ready, loader, at, req, outcome, passed, reports, knew>>
    BY <1>4 DEF gatewayVars, fetch, service
  <2>2. QED
    BY <2>1 DEF GatewayInv, GatewayTypeOK, Local, Fits, Journey, Permission, Knowledge, Kept
<1>5. QED
  BY <1>1, <1>2, <1>3, <1>4 DEF GatewayNext

THEOREM GatewayInvariant == GatewaySpec => []GatewayInv
BY InvInit, InvNext, PTL DEF GatewaySpec

-----------------------------------------------------------------------------
\* Every state of the gateway is of its type, and a backend is only wrapped around
\* a configuration that was loaded.
THEOREM GatewayTypeCorrect == GatewaySpec => []GatewayTypeOK
<1>1. GatewayInv => GatewayTypeOK
  BY DEF GatewayInv
<1>2. QED
  BY <1>1, GatewayInvariant, PTL

\* A request that came after the configuration was loaded is never answered with
\* 503, with any number of servers that wrap the application at once.
THEOREM UnavailableOnlyBeforeHolds == GatewaySpec => []UnavailableOnlyBefore
<1>1. GatewayInv => UnavailableOnlyBefore
  BY DEF GatewayInv, Local, Fits, Kept, UnavailableOnlyBefore
<1>2. QED
  BY <1>1, GatewayInvariant, PTL

\* A request to a known method reaches the application only with a key or the
\* permission to come without, and past the check and the quota it needs.
THEOREM AppOnlyIfAllowedHolds == GatewaySpec => []AppOnlyIfAllowed
<1>1. GatewayInv => AppOnlyIfAllowed
  BY DEF GatewayInv, Local, Fits, Kept, AppOnlyIfAllowed
<1>2. QED
  BY <1>1, GatewayInvariant, PTL

\* What was controlled is reported once unless something raised, what was not
\* controlled is not reported.
THEOREM ReportedOnceHolds == GatewaySpec => []ReportedOnce
<1>1. GatewayInv => ReportedOnce
  BY DEF GatewayInv, Local, Fits, Kept, ReportedOnce
<1>2. QED
  BY <1>1, GatewayInvariant, PTL


-----------------------------------------------------------------------------
(* Sequences.                                                              *)

LEMMA FirstIs ==
  ASSUME NEW I \in SUBSET Nat, I # {}
  PROVE  Min(I) \in I
<1> DEFINE R == {p \in Nat \X Nat : p[1] < p[2]}
<1>0. IsWellFoundedOn(R, Nat)
  BY NatLessThanWellFounded DEF OpToRel
<1>1. PICK x \in I : \A y \in I : ~ (<<y, x>> \in R)
  <2> HIDE DEF R
  <2>1. QED
  BY <1>0, WFMin
<1>2. \A y \in I : x <= y
  <2>1. \A a, b \in Nat : a < b => <<a, b>> \in R
    OBVIOUS
  <2>2. \A a, b \in Nat : ~(a < b) => b <= a
    OBVIOUS
  <2> HIDE DEF R
  <2>3. QED
    BY <1>1, <2>1, <2>2
<1>3. QED
  BY <1>2 DEF Min

\* RemoveFirst takes one element out, and no other.
LEMMA RemoveFirstProperties ==
  ASSUME NEW S, NEW s \in Seq(S), NEW e
  PROVE  /\ RemoveFirst(s, e) \in Seq(S)
         /\ Len(RemoveFirst(s, e)) = IF e \in ToSet(s) THEN Len(s) - 1 ELSE Len(s)
         /\ ToSet(RemoveFirst(s, e)) \subseteq ToSet(s)
         /\ ToSet(s) \ {e} \subseteq ToSet(RemoveFirst(s, e))
<1>0. e \in ToSet(s) <=> \E i \in 1..Len(s) : s[i] = e
  BY LenProperties DEF ToSet
<1>1. CASE e \notin ToSet(s)
  BY <1>0, <1>1 DEF RemoveFirst
<1>2. CASE e \in ToSet(s)
  <2> DEFINE I == {i \in 1..Len(s) : s[i] = e}
             k == Min(I)
             l == SubSeq(s, 1, k - 1)
             r == SubSeq(s, k + 1, Len(s))
  <2>0. Len(s) \in Nat /\ \A i \in 1..Len(s) : s[i] \in S
    BY LenProperties, ElementOfSeq
  <2>1. I \in SUBSET Nat /\ I # {}
    BY <1>0, <1>2, <2>0
  <2>2. k \in 1..Len(s) /\ s[k] = e
    <3>1. k \in I
      <4> HIDE DEF I
      <4>1. QED
        BY <2>1, FirstIs
    <3>2. QED
      BY <3>1
  <2>3. RemoveFirst(s, e) = l \o r
    BY <1>0, <1>2 DEF RemoveFirst, RemoveAt, SelectInSeq
  <2> HIDE DEF I, k
  <2>4. /\ l \in Seq(S) /\ Len(l) = k - 1
        /\ \A i \in 1..(k - 1) : l[i] = s[i]
    <3>1. \A i \in 1..(k - 1) : s[i] \in S
      BY <2>0, <2>2
    <3>2. 1 \in Int /\ k - 1 \in Int
      BY <2>2
    <3>3. /\ l \in Seq(S) /\ Len(l) = IF 1 <= k - 1 THEN (k - 1) - 1 + 1 ELSE 0
          /\ \A i \in 1..((k - 1) - 1 + 1) : l[i] = s[1 + i - 1]
      BY <3>1, <3>2, SubSeqProperties
    <3> HIDE DEF l
    <3>4. QED
      BY <2>2, <3>3
  <2>5. /\ r \in Seq(S) /\ Len(r) = Len(s) - k
        /\ \A i \in 1..(Len(s) - k) : r[i] = s[k + i]
    <3>1. \A i \in (k + 1)..Len(s) : s[i] \in S
      BY <2>0, <2>2
    <3>2. k + 1 \in Int /\ Len(s) \in Int
      BY <2>0, <2>2
    <3>3. /\ r \in Seq(S) /\ Len(r) = IF k + 1 <= Len(s) THEN Len(s) - (k + 1) + 1 ELSE 0
          /\ \A i \in 1..(Len(s) - (k + 1) + 1) : r[i] = s[(k + 1) + i - 1]
      BY <3>1, <3>2, SubSeqProperties
    <3> HIDE DEF r
    <3>4. QED
      BY <2>0, <2>2, <3>3
  <2> DEFINE c == l \o r
  <2> HIDE DEF l, r
  <2>6. /\ c \in Seq(S) /\ Len(c) = Len(s) - 1
        /\ \A i \in 1..(Len(s) - 1) : c[i] = IF i <= k - 1 THEN s[i] ELSE s[i + 1]
    <3>1. /\ c \in Seq(S) /\ Len(c) = Len(l) + Len(r)
          /\ \A i \in 1..(Len(l) + Len(r)) : c[i] = IF i <= Len(l) THEN l[i] ELSE r[i - Len(l)]
      BY <2>4, <2>5, ConcatProperties
    <3> HIDE DEF c
    <3>2. Len(c) = Len(s) - 1
      BY <2>0, <2>2, <2>4, <2>5, <3>1
    <3>3. ASSUME NEW i \in 1..(Len(s) - 1)
          PROVE  c[i] = IF i <= k - 1 THEN s[i] ELSE s[i + 1]
      <4>1. CASE i <= k - 1
        BY <2>0, <2>2, <2>4, <2>5, <3>1, <4>1
      <4>2. CASE ~(i <= k - 1)
        <5>1. i - (k - 1) \in 1..(Len(s) - k) /\ k + (i - (k - 1)) = i + 1
          BY <2>0, <2>2, <4>2
        <5>2. c[i] = r[i - (k - 1)]
          <6>1. Len(l) = k - 1 /\ i \in 1..(Len(l) + Len(r)) /\ ~(i <= Len(l))
            BY <2>0, <2>2, <2>4, <2>5, <4>2
          <6>2. c[i] = r[i - Len(l)]
            BY <3>1, <6>1
          <6>3. QED
            BY <6>1, <6>2
        <5>3. PICK j \in 1..(Len(s) - k) : j = i - (k - 1)
          BY <5>1
        <5>4. r[j] = s[k + j]
          BY <2>5
        <5>5. k + j = i + 1
          BY <5>1, <5>3
        <5>6. QED
          BY <4>2, <5>2, <5>3, <5>4, <5>5, Zenon
      <4>3. QED
        BY <4>1, <4>2
    <3>4. QED
      BY <3>1, <3>2, <3>3
  <2> HIDE DEF c
  <2>7. DOMAIN c = 1..(Len(s) - 1) /\ DOMAIN s = 1..Len(s)
    BY <2>6, LenProperties
  <2>8. ToSet(c) \subseteq ToSet(s)
    <3>1. ASSUME NEW i \in 1..(Len(s) - 1) PROVE c[i] \in ToSet(s)
      <4>1. i \in DOMAIN s /\ i + 1 \in DOMAIN s
        BY <2>0, <2>7
      <4>2. QED
        BY <2>6, <4>1 DEF ToSet
    <3>2. QED
      BY <2>7, <3>1 DEF ToSet
  <2>9. ToSet(s) \ {e} \subseteq ToSet(c)
    <3>1. ASSUME NEW i \in 1..Len(s), s[i] # e PROVE s[i] \in ToSet(c)
      <4>1. i # k
        BY <2>2, <3>1
      <4>2. CASE i < k
        <5>1. i \in DOMAIN c /\ c[i] = s[i]
          BY <2>0, <2>2, <2>6, <2>7, <4>2
        <5>2. QED
          BY <5>1 DEF ToSet
      <4>3. CASE i > k
        <5>1. i - 1 \in 1..(Len(s) - 1) /\ ~(i - 1 <= k - 1) /\ (i - 1) + 1 = i
          BY <2>0, <2>2, <4>3
        <5>2. i - 1 \in DOMAIN c /\ c[i - 1] = s[i]
          BY <2>6, <2>7, <5>1
        <5>3. QED
          BY <5>2 DEF ToSet
      <4>4. QED
        BY <2>2, <4>1, <4>2, <4>3
    <3>2. QED
      BY <2>7, <3>1 DEF ToSet
  <2>10. RemoveFirst(s, e) = c
    BY <2>3 DEF c
  <2>11. QED
    BY <1>2, <2>6, <2>8, <2>9, <2>10
<1>3. QED
  BY <1>1, <1>2

LEMMA ContainsIs ==
  ASSUME NEW S, NEW s \in Seq(S), NEW e
  PROVE  Contains(s, e) <=> e \in ToSet(s)
BY LenProperties DEF Contains, ToSet

\* To become the last to go.
Recent(s, t) == Append(RemoveFirst(s, t), t)

LEMMA RecentProperties ==
  ASSUME NEW S, NEW s \in Seq(S), NEW t \in S
  PROVE  /\ Recent(s, t) \in Seq(S) /\ ToSet(Recent(s, t)) = ToSet(s) \cup {t}
         /\ Len(Recent(s, t)) = IF t \in ToSet(s) THEN Len(s) ELSE Len(s) + 1
         /\ Len(Recent(s, t)) >= 1 /\ Recent(s, t)[Len(Recent(s, t))] = t
<1> DEFINE r == RemoveFirst(s, t)
           all == Recent(s, t)
<1>1. /\ r \in Seq(S) /\ Len(r) = IF t \in ToSet(s) THEN Len(s) - 1 ELSE Len(s)
      /\ ToSet(r) \subseteq ToSet(s) /\ ToSet(s) \ {t} \subseteq ToSet(r)
  BY RemoveFirstProperties
<1>2. all = Append(r, t)
  BY DEF Recent
<1> HIDE DEF r, all
<1>3. /\ all \in Seq(S) /\ Len(all) = Len(r) + 1 /\ all[Len(r) + 1] = t
      /\ \A i \in 1..Len(r) : all[i] = r[i]
  BY <1>1, <1>2, AppendProperties
<1>4. Len(r) \in Nat /\ Len(s) \in Nat
  BY <1>1, LenProperties
<1>5. DOMAIN all = 1..(Len(r) + 1) /\ DOMAIN r = 1..Len(r)
  BY <1>1, <1>3, LenProperties
<1>6. ToSet(all) = ToSet(r) \cup {t}
  <2>1. ToSet(all) \subseteq ToSet(r) \cup {t}
    <3>1. ASSUME NEW i \in 1..(Len(r) + 1) PROVE all[i] \in ToSet(r) \cup {t}
      <4>1. CASE i = Len(r) + 1
        BY <1>3, <4>1
      <4>2. CASE i # Len(r) + 1
        <5>1. i \in 1..Len(r)
          BY <1>4, <4>2
        <5>2. QED
          BY <1>3, <1>5, <5>1 DEF ToSet
      <4>3. QED
        BY <4>1, <4>2
    <3>2. QED
      BY <1>5, <3>1 DEF ToSet
  <2>2. t \in ToSet(all)
    <3>1. Len(r) + 1 \in DOMAIN all
      BY <1>4, <1>5
    <3>2. QED
      BY <1>3, <3>1 DEF ToSet
  <2>3. ToSet(r) \subseteq ToSet(all)
    <3>1. ASSUME NEW i \in 1..Len(r) PROVE r[i] \in ToSet(all)
      <4>1. i \in DOMAIN all
        BY <1>4, <1>5
      <4>2. QED
        BY <1>3, <4>1 DEF ToSet
    <3>2. QED
      BY <1>5, <3>1 DEF ToSet
  <2>4. QED
    BY <2>1, <2>2, <2>3
<1>7. /\ all \in Seq(S) /\ ToSet(all) = ToSet(s) \cup {t}
      /\ Len(all) = IF t \in ToSet(s) THEN Len(s) ELSE Len(s) + 1
      /\ Len(all) >= 1 /\ all[Len(all)] = t
  BY <1>1, <1>3, <1>4, <1>6
<1>8. QED
  BY <1>7 DEF all

\* To make room for the last, if there is room for one.
LEMMA KeptProperties ==
  ASSUME NEW S, NEW all \in Seq(S), NEW room \in Nat \ {0}, Len(all) >= 1,
         Len(all) <= room + 1, NEW kept, kept = IF Len(all) > room THEN Tail(all) ELSE all
  PROVE  /\ kept \in Seq(S) /\ Len(kept) <= room /\ ToSet(kept) \subseteq ToSet(all)
         /\ all[Len(all)] \in ToSet(kept)
<1>0. Len(all) \in Nat /\ DOMAIN all = 1..Len(all)
  BY LenProperties
<1>1. CASE Len(all) > room
  <2>1. all # <<>>
    BY <1>0, <1>1, EmptySeq
  <2>2. /\ kept \in Seq(S) /\ Len(kept) = Len(all) - 1
        /\ \A i \in 1..Len(kept) : kept[i] = all[i + 1]
    BY <1>1, <2>1, HeadTailProperties
  <2>3. DOMAIN kept = 1..(Len(all) - 1)
    BY <2>2, LenProperties
  <2>4. ToSet(kept) \subseteq ToSet(all)
    <3>1. ASSUME NEW i \in 1..(Len(all) - 1) PROVE kept[i] \in ToSet(all)
      <4>1. i + 1 \in DOMAIN all
        BY <1>0
      <4>2. QED
        BY <2>2, <4>1 DEF ToSet
    <3>2. QED
      BY <2>3, <3>1 DEF ToSet
  <2>5. all[Len(all)] \in ToSet(kept)
    <3>1. Len(all) - 1 \in DOMAIN kept /\ (Len(all) - 1) + 1 = Len(all)
      BY <1>0, <1>1, <2>3
    <3>2. kept[Len(all) - 1] = all[Len(all)]
      BY <2>2, <2>3, <3>1
    <3>3. QED
      BY <3>1, <3>2 DEF ToSet
  <2>6. Len(all) - 1 <= room
    BY <1>0
  <2>7. QED
    BY <2>2, <2>4, <2>5, <2>6
<1>2. CASE ~(Len(all) > room)
  <2>1. Len(all) \in DOMAIN all
    BY <1>0
  <2>2. QED
    BY <1>0, <1>2, <2>1 DEF ToSet
<1>3. QED
  BY <1>1, <1>2

-----------------------------------------------------------------------------
(* The inductive invariant.                                                *)

ClockOK == now \in 0..EndOfTime
UriOK == uri \in [Issuers -> {"set", "discover", "unset", "failed", "unknown"}]
JwksOK == jwks \in [Issuers -> [keys : SUBSET SigningKeys, at : 0..(EndOfTime + 1)]]
ClaimsOK ==
  /\ claims \in [Tokens -> 0..(EndOfTime + 1)]
  /\ lru \in Seq(Tokens) /\ Len(lru) <= Capacity
  /\ ToSet(lru) = {t \in Tokens : claims[t] # Absent}
LocksOK ==
  /\ tokenLock \in [Tokens -> Workers \cup {Nobody}]
  /\ jwksLock \in [Issuers -> Workers \cup {Nobody}]
CallOK == call \in [Workers -> CallType]
RevokedOK == revoked \in [SigningKeys -> 0..NotYet]
LateOK == late \in [{"answer", "keys", "claims"} -> 0..EndOfTime]

TypesOK ==
  ClockOK /\ UriOK /\ JwksOK /\ ClaimsOK /\ LocksOK /\ CallOK /\ RevokedOK /\ LateOK

\* Until when a key that was withdrawn may be in an answer that arrives, be used to
\* verify with, and have claims accepted that it verified.
Arriving(k) == revoked[k] + late.answer
Served(k) == Arriving(k) + JwksTtl + late.keys
Spoken(k) == Served(k) + TokenTtl + late.claims

\* The keys of an issuer are its own, and arrived in time.
KeysKnown ==
  \A i \in Issuers :
    /\ \A k \in jwks[i].keys : OwnerOf[k] = i /\ jwks[i].at <= Arriving(k)
    /\ jwks[i] # NoKeys => jwks[i].at <= now

\* Claims that are cached were verified with a key of their issuer, in time.
ClaimsKnown ==
  \A t \in Tokens : claims[t] # Absent =>
    /\ OwnerOf[SignedWith[t]] = IssuerOf[t] /\ claims[t] <= now
    /\ claims[t] <= Served(SignedWith[t])

\* What is known of the keys, or of the claims, that a worker has.
Holds(c) ==
  /\ c.at = "answer" =>
       /\ c.given <= now
       /\ \A k \in c.keys : OwnerOf[k] = IssuerOf[c.token] /\ c.given <= revoked[k]
  /\ c.at = "verify" =>
       \A k \in c.keys : OwnerOf[k] = IssuerOf[c.token] /\ now <= Served(k)
  /\ c.at = "check" => now <= Spoken(SignedWith[c.token])
CallsKnown == \A w \in Workers : Holds(call[w])

AuthInv == TypesOK /\ KeysKnown /\ ClaimsKnown /\ CallsKnown

LEMMA Numbers ==
  /\ Capacity \in Nat \ {0} /\ TokenTtl \in Nat /\ JwksTtl \in Nat /\ EndOfTime \in Nat
  /\ IssuerOf \in [Tokens -> Issuers] /\ SignedWith \in [Tokens -> SigningKeys]
  /\ UriOf \in [Issuers -> {"set", "unset", "unknown"}]
BY AuthAssumption

LEMMA TypesParts == AuthTypeOK <=> TypesOK
BY DEF AuthTypeOK, TypesOK, ClockOK, UriOK, JwksOK, ClaimsOK, LocksOK, CallOK, RevokedOK, LateOK

\* What a call carries, by its place.
LEMMA CallFacts ==
  ASSUME NEW c \in CallType
  PROVE  /\ c.at \in {"claims", "keys", "fetch", "check", "verify", "answer"} => c.token \in Tokens
         /\ c.at \in {"verify", "answer"} => c.keys \in SUBSET SigningKeys
         /\ c.at = "answer" => c.given \in Nat
<1>1. CASE c \in Idle
  BY <1>1 DEF Idle
<1>2. CASE c \in [at : {"claims", "keys", "fetch", "check"}, token : Tokens]
  BY <1>2
<1>3. CASE c \in [at : {"verify"}, token : Tokens, keys : SUBSET SigningKeys]
  BY <1>3
<1>4. CASE c \in [at : {"answer"}, token : Tokens, keys : SUBSET SigningKeys, given : Nat]
  BY <1>4
<1>5. QED
  BY <1>1, <1>2, <1>3, <1>4 DEF CallType

\* There is a call of each kind.
LEMMA Calls ==
  /\ \A p \in {"claims", "keys", "fetch", "check"}, t \in Tokens :
       \E c \in CallType : c = [at |-> p, token |-> t] /\ c.at = p /\ c.token = t
  /\ \A p \in {"idle", "accepted", "rejected"} :
       \E c \in CallType : c = [at |-> p] /\ c.at = p
  /\ \A t \in Tokens, ks \in SUBSET SigningKeys :
       \E c \in CallType : /\ c = [at |-> "verify", token |-> t, keys |-> ks]
                           /\ c.at = "verify" /\ c.token = t /\ c.keys = ks
<1>1. \A p \in {"claims", "keys", "fetch", "check"}, t \in Tokens :
        [at |-> p, token |-> t] \in CallType
  BY DEF CallType
<1>2. \A p \in {"idle", "accepted", "rejected"} : [at |-> p] \in CallType
  BY DEF CallType, Idle
<1>3. \A t \in Tokens, ks \in SUBSET SigningKeys :
        [at |-> "verify", token |-> t, keys |-> ks] \in CallType
  BY DEF CallType
<1>4. QED
  BY <1>1, <1>2, <1>3

-----------------------------------------------------------------------------
(* The bounds on the ages only grow.                                       *)

LateGrows ==
  late.answer <= late'.answer /\ late.keys <= late'.keys /\ late.claims <= late'.claims

LEMMA LateSame ==
  ASSUME AuthInv, UNCHANGED late PROVE LateOK' /\ LateGrows
<1>1. late.answer \in Int /\ late.keys \in Int /\ late.claims \in Int
  BY Numbers DEF AuthInv, TypesOK, LateOK
<1>2. QED
  BY <1>1 DEF AuthInv, TypesOK, LateOK, LateGrows

LEMMA LaterGrows ==
  ASSUME AuthInv, NEW which \in {"answer", "keys", "claims"}, NEW time \in Int,
         time <= EndOfTime, Later(which, time)
  PROVE  LateOK' /\ LateGrows /\ time <= late'[which]
<1>1. LateOK /\ EndOfTime \in Nat
  BY Numbers DEF AuthInv, TypesOK
<1>2. LateOK' /\ time <= late'[which]
  BY <1>1 DEF LateOK, Later
<1>3. LateGrows
  BY <1>1 DEF LateOK, Later, LateGrows
<1>4. QED
  BY <1>2, <1>3

\* The types that the arithmetic of the ages needs.
LEMMA AgeTypes ==
  ASSUME AuthInv
  PROVE  /\ now \in Nat /\ JwksTtl \in Nat /\ TokenTtl \in Nat /\ EndOfTime \in Nat
         /\ \A t \in Tokens : claims[t] \in Nat /\ SignedWith[t] \in SigningKeys
                              /\ IssuerOf[t] \in Issuers
         /\ \A k \in SigningKeys : revoked[k] \in Nat
         /\ \A i \in Issuers : jwks[i].at \in Nat /\ jwks[i].keys \in SUBSET SigningKeys
         /\ now <= EndOfTime
         /\ late.answer \in Nat /\ late.keys \in Nat /\ late.claims \in Nat
<1>1. now \in Nat /\ now <= EndOfTime
  BY Numbers DEF AuthInv, TypesOK, ClockOK
<1>2. \A t \in Tokens : claims[t] \in Nat /\ SignedWith[t] \in SigningKeys /\ IssuerOf[t] \in Issuers
  BY Numbers DEF AuthInv, TypesOK, ClaimsOK
<1>3. \A k \in SigningKeys : revoked[k] \in Nat
  BY Numbers DEF AuthInv, TypesOK, RevokedOK, NotYet
<1>4. \A i \in Issuers : jwks[i].at \in Nat /\ jwks[i].keys \in SUBSET SigningKeys
  BY Numbers DEF AuthInv, TypesOK, JwksOK
<1>5. late.answer \in Nat /\ late.keys \in Nat /\ late.claims \in Nat
  BY Numbers DEF AuthInv, TypesOK, LateOK
<1>6. QED
  BY <1>1, <1>2, <1>3, <1>4, <1>5, Numbers

LEMMA BoundTypes ==
  ASSUME AuthInv, NEW k \in SigningKeys
  PROVE  /\ Arriving(k) \in Nat /\ Served(k) \in Nat /\ Spoken(k) \in Nat
         /\ revoked[k] <= Arriving(k) /\ Arriving(k) <= Served(k) /\ Served(k) <= Spoken(k)
<1>1. /\ revoked[k] \in Nat /\ JwksTtl \in Nat /\ TokenTtl \in Nat
      /\ late.answer \in Nat /\ late.keys \in Nat /\ late.claims \in Nat
  BY AgeTypes
<1>2. QED
  BY <1>1 DEF Arriving, Served, Spoken

LEMMA BoundsGrow ==
  ASSUME AuthInv, UNCHANGED revoked, LateOK', LateGrows, NEW k \in SigningKeys
  PROVE  /\ Arriving(k) <= Arriving(k)' /\ Served(k) <= Served(k)' /\ Spoken(k) <= Spoken(k)'
         /\ Arriving(k)' \in Nat /\ Served(k)' \in Nat /\ Spoken(k)' \in Nat
<1>1. /\ revoked[k] \in Nat /\ JwksTtl \in Nat /\ TokenTtl \in Nat /\ EndOfTime \in Nat
      /\ late.answer \in Nat /\ late.keys \in Nat /\ late.claims \in Nat
  BY AgeTypes
<1>2. late'.answer \in Nat /\ late'.keys \in Nat /\ late'.claims \in Nat
  BY <1>1 DEF LateOK
<1>3. revoked'[k] = revoked[k]
  OBVIOUS
<1>4. QED
  BY <1>1, <1>2, <1>3 DEF Arriving, Served, Spoken, LateGrows

\* What a worker has stays as good, whatever the others learn.
LEMMA HoldsStill ==
  ASSUME AuthInv, UNCHANGED <<now, revoked>>, LateOK', LateGrows, NEW c \in CallType, Holds(c)
  PROVE  Holds(c)'
<1>1. c.at = "answer" =>
        /\ c.given <= now'
        /\ \A k \in c.keys : OwnerOf[k] = IssuerOf[c.token] /\ c.given <= revoked'[k]
  BY DEF Holds
<1>2. ASSUME c.at = "verify", NEW k \in c.keys
      PROVE  OwnerOf[k] = IssuerOf[c.token] /\ now' <= Served(k)'
  <2>1. k \in SigningKeys
    BY <1>2, CallFacts
  <2>2. OwnerOf[k] = IssuerOf[c.token] /\ now <= Served(k)
    BY <1>2 DEF Holds
  <2>3. Served(k) <= Served(k)' /\ Served(k) \in Nat /\ Served(k)' \in Nat /\ now \in Nat
    BY <2>1, BoundsGrow, BoundTypes, AgeTypes
  <2>4. QED
    BY <2>2, <2>3
<1>3. ASSUME c.at = "check" PROVE now' <= Spoken(SignedWith[c.token])'
  <2>1. PICK k \in SigningKeys : k = SignedWith[c.token]
    BY <1>3, CallFacts, Numbers
  <2>2. now <= Spoken(k)
    BY <1>3, <2>1 DEF Holds
  <2>3. Spoken(k) <= Spoken(k)' /\ Spoken(k) \in Nat /\ Spoken(k)' \in Nat /\ now \in Nat
    BY BoundsGrow, BoundTypes, AgeTypes
  <2>4. now' <= Spoken(k)'
    BY <2>2, <2>3
  <2>5. QED
    BY <2>1, <2>4
<1>4. QED
  BY <1>1, <1>2, <1>3 DEF Holds

\* The call of one worker changes.
LEMMA HeldStep ==
  ASSUME AuthInv, NEW w \in Workers, NEW c \in CallType, call' = [call EXCEPT ![w] = c],
         UNCHANGED <<now, revoked>>, LateOK', LateGrows, Holds(c)'
  PROVE  CallOK' /\ CallsKnown'
<1>0. call \in [Workers -> CallType]
  BY DEF AuthInv, TypesOK, CallOK
<1>1. CallOK'
  BY <1>0 DEF CallOK
<1>2. call'[w] = c /\ \A x \in Workers \ {w} : call'[x] = call[x]
  BY <1>0
<1>3. ASSUME NEW x \in Workers PROVE Holds(call[x])'
  <2>1. CASE x = w
    BY <1>2, <2>1 DEF Holds
  <2>2. CASE x # w
    <3>1. PICK d \in CallType : d = call[x]
      BY <1>0
    <3>2. Holds(d)
      BY <3>1 DEF AuthInv, CallsKnown
    <3>3. Holds(d)'
      BY <3>2, HoldsStill
    <3>4. call'[x] = d
      BY <1>2, <2>2, <3>1
    <3>5. QED
      BY <3>3, <3>4 DEF Holds
  <2>3. QED
    BY <2>1, <2>2
<1>4. QED
  BY <1>1, <1>3 DEF CallsKnown

\* The caches are left alone.
LEMMA KeysStay ==
  ASSUME AuthInv, UNCHANGED <<now, jwks, revoked>>, LateOK', LateGrows
  PROVE  JwksOK' /\ KeysKnown'
<1>1. JwksOK'
  BY DEF AuthInv, TypesOK, JwksOK
<1>2. ASSUME NEW i \in Issuers, NEW k \in jwks[i].keys
      PROVE  OwnerOf[k] = i /\ jwks[i].at <= Arriving(k)'
  <2>1. OwnerOf[k] = i /\ jwks[i].at <= Arriving(k)
    BY DEF AuthInv, KeysKnown
  <2>2. k \in SigningKeys /\ jwks[i].at \in Nat
    BY AgeTypes
  <2>3. Arriving(k) <= Arriving(k)' /\ Arriving(k) \in Nat /\ Arriving(k)' \in Nat
    BY <2>2, BoundsGrow, BoundTypes
  <2>4. QED
    BY <2>1, <2>2, <2>3
<1>3. \A i \in Issuers : jwks[i] # NoKeys => jwks[i].at <= now
  BY DEF AuthInv, KeysKnown
<1>4. QED
  BY <1>1, <1>2, <1>3 DEF KeysKnown, NoKeys

LEMMA ClaimsStay ==
  ASSUME AuthInv, UNCHANGED <<now, claims, revoked>>, LateOK', LateGrows
  PROVE  ClaimsKnown'
<1>1. ASSUME NEW t \in Tokens, claims[t] # Absent
      PROVE  /\ OwnerOf[SignedWith[t]] = IssuerOf[t] /\ claims[t] <= now
             /\ claims[t] <= Served(SignedWith[t])'
  <2>1. PICK k \in SigningKeys : k = SignedWith[t]
    BY Numbers
  <2>2. OwnerOf[SignedWith[t]] = IssuerOf[t] /\ claims[t] <= now /\ claims[t] <= Served(k)
    BY <1>1, <2>1 DEF AuthInv, ClaimsKnown
  <2>3. Served(k) <= Served(k)' /\ Served(k) \in Nat /\ Served(k)' \in Nat /\ claims[t] \in Nat
    BY BoundsGrow, BoundTypes, AgeTypes
  <2>4. claims[t] <= Served(k)'
    BY <2>2, <2>3
  <2>5. QED
    BY <2>1, <2>2, <2>4
<1>2. QED
  BY <1>1 DEF ClaimsKnown, Absent

-----------------------------------------------------------------------------
(* The initial state, and the clock.                                       *)

LEMMA AuthInvInit == AuthInit => AuthInv
<1> SUFFICES ASSUME AuthInit PROVE AuthInv
  OBVIOUS
<1>1. ClockOK /\ JwksOK /\ LocksOK /\ RevokedOK
  BY Numbers DEF AuthInit, ClockOK, JwksOK, LocksOK, RevokedOK, NoKeys, NotYet
<1>u. UriOK
  BY Numbers DEF AuthInit, UriOK
<1>2. ClaimsOK
  <2>1. claims = [t \in Tokens |-> Absent] /\ lru = <<>>
    BY DEF AuthInit
  <2>2. claims \in [Tokens -> 0..(EndOfTime + 1)]
    BY <2>1, Numbers DEF Absent
  <2>3. lru \in Seq(Tokens) /\ Len(lru) = 0 /\ ToSet(lru) = {}
    BY <2>1, EmptySeq DEF ToSet
  <2>4. {t \in Tokens : claims[t] # Absent} = {}
    BY <2>1
  <2>5. 0 <= Capacity
    BY Numbers
  <2>6. QED
    BY <2>2, <2>3, <2>4, <2>5 DEF ClaimsOK
<1>3. CallOK /\ \A w \in Workers : call[w].at = "idle"
  <2>1. [at |-> "idle"] \in CallType
    BY DEF CallType, Idle
  <2>2. QED
    BY <2>1 DEF AuthInit, CallOK
<1>4. LateOK
  BY Numbers DEF AuthInit, LateOK
<1>5. KeysKnown /\ ClaimsKnown
  BY DEF AuthInit, KeysKnown, ClaimsKnown, NoKeys
<1>6. CallsKnown
  BY <1>3 DEF CallsKnown, Holds
<1>7. QED
  BY <1>1, <1>u, <1>2, <1>3, <1>4, <1>5, <1>6 DEF AuthInv, TypesOK

LEMMA TickInv == ASSUME AuthInv, Tick PROVE AuthInv'
<1>0. /\ now \in 0..EndOfTime /\ now' = now + 1 /\ now < EndOfTime
      /\ \A w \in Workers : call[w].at \notin {"verify", "check"}
      /\ UNCHANGED <<uri, jwks, claims, lru, tokenLock, jwksLock, call, revoked, late>>
  BY DEF Tick, caches, locks, AuthInv, TypesOK, ClockOK
<1>1. now' \in 0..EndOfTime
  BY <1>0, Numbers
<1>2. TypesOK'
  BY <1>0, <1>1 DEF AuthInv, TypesOK, ClockOK, UriOK, JwksOK, ClaimsOK, LocksOK, CallOK, RevokedOK, LateOK
<1>3. CallsKnown'
  <2>1. ASSUME NEW w \in Workers, call[w].at = "answer"
        PROVE  /\ call[w].given <= now'
               /\ \A k \in call[w].keys : OwnerOf[k] = IssuerOf[call[w].token]
                                          /\ call[w].given <= revoked[k]
    <3>1. call[w].given \in Nat
      BY <2>1, CallFacts DEF AuthInv, TypesOK, CallOK
    <3>2. /\ call[w].given <= now
          /\ \A k \in call[w].keys : OwnerOf[k] = IssuerOf[call[w].token]
                                     /\ call[w].given <= revoked[k]
      BY <2>1 DEF AuthInv, CallsKnown, Holds
    <3>3. QED
      BY <1>0, <3>1, <3>2
  <2>2. QED
    BY <1>0, <2>1 DEF CallsKnown, Holds
<1>4. KeysKnown'
  <2>1. ASSUME NEW i \in Issuers, jwks[i] # NoKeys PROVE jwks[i].at <= now'
    <3>1. jwks[i].at <= now /\ jwks[i].at \in Int
      BY <2>1 DEF AuthInv, TypesOK, JwksOK, KeysKnown
    <3>2. QED
      BY <1>0, <3>1
  <2>2. QED
    BY <1>0, <2>1 DEF AuthInv, KeysKnown, Arriving, NoKeys
<1>5. ClaimsKnown'
  <2>1. ASSUME NEW t \in Tokens, claims[t] # Absent PROVE claims[t] <= now'
    <3>1. claims[t] <= now /\ claims[t] \in Int
      BY <2>1 DEF AuthInv, TypesOK, ClaimsOK, ClaimsKnown
    <3>2. QED
      BY <1>0, <3>1
  <2>2. QED
    BY <1>0, <2>1 DEF AuthInv, ClaimsKnown, Served, Arriving, Absent
<1>6. QED
  BY <1>2, <1>3, <1>4, <1>5 DEF AuthInv

\* Nothing is older than what is withdrawn now.
LEMMA BoundsAfter ==
  ASSUME AuthInv, NEW k \in SigningKeys, UNCHANGED late, revoked'[k] \in {revoked[k], now},
         NEW x \in Nat, x <= now
  PROVE  /\ x <= Arriving(k) => x <= Arriving(k)'
         /\ x <= Served(k) => x <= Served(k)'
         /\ x <= Spoken(k) => x <= Spoken(k)'
<1>1. /\ revoked[k] \in Nat /\ JwksTtl \in Nat /\ TokenTtl \in Nat /\ now \in Nat
      /\ late.answer \in Nat /\ late.keys \in Nat /\ late.claims \in Nat
  BY AgeTypes
<1>2. CASE revoked'[k] = revoked[k]
  BY <1>2 DEF Arriving, Served, Spoken
<1>3. CASE revoked'[k] = now
  <2>1. x <= Arriving(k)' /\ x <= Served(k)' /\ x <= Spoken(k)'
    BY <1>1, <1>3 DEF Arriving, Served, Spoken
  <2>2. QED
    BY <2>1
<1>4. QED
  BY <1>2, <1>3

LEMMA RevokeInv == ASSUME AuthInv, NEW r, Revoke(r) PROVE AuthInv'
<1>0. /\ revoked' = [revoked EXCEPT ![r] = now]
      /\ UNCHANGED <<now, uri, jwks, claims, lru, tokenLock, jwksLock, call, late>>
      /\ now \in 0..EndOfTime /\ revoked \in [SigningKeys -> 0..(EndOfTime + 1)]
  BY DEF Revoke, caches, locks, AuthInv, TypesOK, ClockOK, RevokedOK, NotYet
<1>1. \A k \in SigningKeys : revoked'[k] \in {revoked[k], now}
  BY <1>0
<1>2. RevokedOK'
  <2>1. now \in 0..(EndOfTime + 1)
    BY <1>0, Numbers
  <2>2. QED
    BY <1>0, <2>1 DEF RevokedOK, NotYet
<1>3. TypesOK'
  BY <1>0, <1>2 DEF AuthInv, TypesOK, ClockOK, UriOK, JwksOK, ClaimsOK, LocksOK, CallOK, LateOK
<1>4. KeysKnown'
  <2>1. ASSUME NEW i \in Issuers, NEW k \in jwks[i].keys PROVE jwks[i].at <= Arriving(k)'
    <3>1. jwks[i] # NoKeys /\ k \in SigningKeys /\ jwks[i].at \in Nat
      BY <2>1, AgeTypes DEF NoKeys
    <3>2. jwks[i].at <= now /\ jwks[i].at <= Arriving(k)
      BY <3>1 DEF AuthInv, KeysKnown
    <3>3. UNCHANGED late /\ revoked'[k] \in {revoked[k], now}
      BY <1>0, <1>1, <3>1
    <3>4. QED
      BY <3>1, <3>2, <3>3, BoundsAfter
  <2>2. QED
    BY <1>0, <2>1 DEF AuthInv, KeysKnown, NoKeys
<1>5. ClaimsKnown'
  <2>1. ASSUME NEW t \in Tokens, claims[t] # Absent PROVE claims[t] <= Served(SignedWith[t])'
    <3>1. PICK k \in SigningKeys : k = SignedWith[t]
      BY Numbers
    <3>2. claims[t] <= now /\ claims[t] <= Served(k) /\ claims[t] \in Nat
      BY <2>1, <3>1, AgeTypes DEF AuthInv, ClaimsKnown
    <3>3. UNCHANGED late /\ revoked'[k] \in {revoked[k], now}
      BY <1>0, <1>1
    <3>4. claims[t] <= Served(k)'
      BY <3>2, <3>3, BoundsAfter
    <3>5. QED
      BY <3>1, <3>4
  <2>2. QED
    BY <1>0, <2>1 DEF AuthInv, ClaimsKnown, Absent
<1>6. CallsKnown'
  <2>1. ASSUME NEW w \in Workers PROVE Holds(call[w])'
    <3>1. PICK c \in CallType : c = call[w]
      BY DEF AuthInv, TypesOK, CallOK
    <3>2. Holds(c)
      BY <3>1 DEF AuthInv, CallsKnown
    <3>3. now \in Nat /\ now <= now
      BY AgeTypes
    <3>4. ASSUME NEW k \in SigningKeys
          PROVE  /\ now <= Served(k) => now <= Served(k)'
                 /\ now <= Spoken(k) => now <= Spoken(k)'
      BY <1>0, <1>1, <3>3, BoundsAfter
    <3>5. c.at = "answer" =>
            /\ c.given <= now
            /\ \A k \in c.keys : OwnerOf[k] = IssuerOf[c.token] /\ c.given <= revoked'[k]
      BY <1>1, <3>2, CallFacts DEF Holds
    <3>6. c.at = "verify" =>
            \A k \in c.keys : OwnerOf[k] = IssuerOf[c.token] /\ now <= Served(k)'
      BY <3>2, <3>4, CallFacts DEF Holds
    <3>7. c.at = "check" => now <= Spoken(SignedWith[c.token])'
      <4>1. ASSUME c.at = "check" PROVE now <= Spoken(SignedWith[c.token])'
        <5>1. PICK k \in SigningKeys : k = SignedWith[c.token]
          BY <4>1, CallFacts, Numbers
        <5>2. now <= Spoken(k)
          BY <3>2, <4>1, <5>1 DEF Holds
        <5>3. now <= Spoken(k)'
          BY <3>4, <5>2
        <5>4. QED
          BY <5>1, <5>3
      <4>2. QED
        BY <4>1
    <3>8. Holds(c)'
      BY <1>0, <3>5, <3>6, <3>7 DEF Holds
    <3>9. call'[w] = c
      BY <1>0, <3>1
    <3>10. QED
      BY <3>8, <3>9 DEF Holds
  <2>2. QED
    BY <2>1 DEF CallsKnown
<1>7. QED
  BY <1>3, <1>4, <1>5, <1>6 DEF AuthInv

-----------------------------------------------------------------------------
(* The steps of a worker.                                                  *)

\* What they all keep.
LEMMA WorkerStep ==
  ASSUME AuthInv, UNCHANGED <<now, revoked>>, LateOK',
         UriOK', JwksOK', KeysKnown', ClaimsOK', ClaimsKnown', LocksOK',
         CallOK', CallsKnown'
  PROVE  AuthInv'
<1>1. ClockOK' /\ RevokedOK'
  BY DEF AuthInv, TypesOK, ClockOK, RevokedOK
<1>2. QED
  BY <1>1 DEF AuthInv, TypesOK

\* The token of a call.
LEMMA TokenOf ==
  ASSUME AuthInv, NEW w \in Workers,
         call[w].at \in {"claims", "keys", "fetch", "check", "verify", "answer"}
  PROVE  call[w].token \in Tokens /\ IssuerOf[call[w].token] \in Issuers
<1>1. call[w] \in CallType
  BY DEF AuthInv, TypesOK, CallOK
<1>2. QED
  BY <1>1, CallFacts, Numbers

\* An entry of the cache is read.
LEMMA TouchOK ==
  ASSUME AuthInv, UNCHANGED claims, NEW t \in Tokens,
         IF claims[t] # Absent THEN Touch(t) ELSE UNCHANGED lru
  PROVE  ClaimsOK'
<1>0. ClaimsOK
  BY DEF AuthInv, TypesOK
<1>1. CASE claims[t] # Absent
  <2>1. t \in ToSet(lru) /\ lru \in Seq(Tokens)
    BY <1>0, <1>1 DEF ClaimsOK
  <2>2. lru' = Recent(lru, t)
    BY <1>1 DEF Touch, Recent
  <2>3. lru' \in Seq(Tokens) /\ ToSet(lru') = ToSet(lru) /\ Len(lru') = Len(lru)
    <3>1. /\ lru' \in Seq(Tokens) /\ ToSet(lru') = ToSet(lru) \cup {t}
          /\ Len(lru') = IF t \in ToSet(lru) THEN Len(lru) ELSE Len(lru) + 1
      BY <2>1, <2>2, RecentProperties
    <3>2. QED
      BY <2>1, <3>1
  <2>4. QED
    BY <1>0, <2>3 DEF ClaimsOK, Absent
<1>2. CASE ~(claims[t] # Absent)
  BY <1>0, <1>2 DEF ClaimsOK, Absent
<1>3. QED
  BY <1>1, <1>2

LEMMA AuthenticateInv ==
  ASSUME AuthInv, NEW w \in Workers, NEW t \in Tokens, Authenticate(w, t) PROVE AuthInv'
<1>0. /\ call' = [call EXCEPT ![w] = [at |-> "claims", token |-> t]]
      /\ UNCHANGED <<now, uri, jwks, claims, lru, tokenLock, jwksLock, revoked, late>>
  BY DEF Authenticate, caches, locks
<1>1. PICK c \in CallType : c = [at |-> "claims", token |-> t] /\ c.at = "claims"
  BY Calls
<1>2. LateOK' /\ LateGrows
  BY <1>0, LateSame
<1>3. CallOK' /\ CallsKnown'
  <2>1. Holds(c)'
    BY <1>1 DEF Holds
  <2>2. call' = [call EXCEPT ![w] = c]
    BY <1>0, <1>1
  <2>3. QED
    BY <1>0, <1>2, <2>1, <2>2, HeldStep
<1>4. UriOK' /\ ClaimsOK' /\ LocksOK'
  BY <1>0 DEF AuthInv, TypesOK, UriOK, ClaimsOK, LocksOK, Absent
<1>5. QED
  BY <1>0, <1>2, <1>3, <1>4, KeysStay, ClaimsStay, WorkerStep

LEMMA CheckClaimsInv ==
  ASSUME AuthInv, NEW w \in Workers, NEW m \in Methods, CheckClaims(w, m) PROVE AuthInv'
<1>0. UNCHANGED <<now, uri, jwks, claims, lru, tokenLock, jwksLock, revoked, late>>
  BY DEF CheckClaims, caches, locks
<1>1. PICK result \in {"accepted", "rejected"} : call' = [call EXCEPT ![w] = [at |-> result]]
  BY DEF CheckClaims, Returns
<1>2. PICK c \in CallType : c = [at |-> result] /\ c.at = result
  BY Calls
<1>3. LateOK' /\ LateGrows
  BY <1>0, LateSame
<1>4. CallOK' /\ CallsKnown'
  <2>1. Holds(c)'
    BY <1>2 DEF Holds
  <2>2. call' = [call EXCEPT ![w] = c]
    BY <1>1, <1>2
  <2>3. QED
    BY <1>0, <1>3, <2>1, <2>2, HeldStep
<1>5. UriOK' /\ ClaimsOK' /\ LocksOK'
  BY <1>0 DEF AuthInv, TypesOK, UriOK, ClaimsOK, LocksOK, Absent
<1>6. QED
  BY <1>0, <1>3, <1>4, <1>5, KeysStay, ClaimsStay, WorkerStep

LEMMA ClaimsInv == ASSUME AuthInv, NEW w \in Workers, Claims(w) PROVE AuthInv'
<1>0. /\ UNCHANGED <<now, uri, jwks, claims, jwksLock, revoked>>
      /\ call[w].at = "claims"
  BY DEF Claims
<1>1. PICK t \in Tokens : t = call[w].token
  BY <1>0, TokenOf
<1>2. IF claims[t] # Absent THEN Touch(t) ELSE UNCHANGED lru
  BY <1>1 DEF Claims
<1>3. ClaimsOK'
  BY <1>0, <1>2, TouchOK
<1>4. UriOK'
  BY <1>0 DEF AuthInv, TypesOK, UriOK
<1>5. CASE /\ call' = [call EXCEPT ![w] = [at |-> "check", token |-> t]]
           /\ Later("claims", now - (claims[t] + TokenTtl)) /\ tokenLock' = tokenLock
           /\ claims[t] # Absent
  <2>1. PICK c \in CallType : c = [at |-> "check", token |-> t] /\ c.at = "check" /\ c.token = t
    BY Calls
  <2>2. PICK time \in Int : time = now - (claims[t] + TokenTtl) /\ time <= EndOfTime
    BY AgeTypes
  <2>3. LateOK' /\ LateGrows /\ time <= late'.claims
    <3>1. Later("claims", time)
      BY <1>5, <2>2
    <3>2. QED
      BY <2>2, <3>1, LaterGrows
  <2>4. Holds(c)'
    <3>1. PICK k \in SigningKeys : k = SignedWith[t]
      BY Numbers
    <3>2. claims[t] <= Served(k)
      BY <1>5, <3>1 DEF AuthInv, ClaimsKnown
    <3>3. Served(k) <= Served(k)' /\ Served(k) \in Nat /\ Served(k)' \in Nat
      BY <1>0, <2>3, BoundsGrow, BoundTypes
    <3>4. late'.claims \in Nat /\ claims[t] \in Nat /\ TokenTtl \in Nat /\ now \in Nat
      BY <2>3, AgeTypes DEF LateOK
    <3>5. now <= Served(k)' + TokenTtl + late'.claims
      BY <2>2, <2>3, <3>2, <3>3, <3>4
    <3>6. now' <= Spoken(k)'
      BY <1>0, <3>5 DEF Spoken
    <3>7. QED
      BY <2>1, <3>1, <3>6 DEF Holds
  <2>5. call' = [call EXCEPT ![w] = c]
    BY <1>5, <2>1
  <2>6. CallOK' /\ CallsKnown'
    BY <1>0, <2>3, <2>4, <2>5, HeldStep
  <2>7. LocksOK'
    BY <1>0, <1>5 DEF AuthInv, TypesOK, LocksOK
  <2>8. QED
    BY <1>0, <1>3, <1>4, <2>3, <2>6, <2>7, KeysStay, ClaimsStay, WorkerStep
<1>6. CASE /\ call' = [call EXCEPT ![w] = [at |-> "keys", token |-> t]] /\ late' = late
           /\ tokenLock' = [tokenLock EXCEPT ![t] = w]
  <2>1. PICK c \in CallType : c = [at |-> "keys", token |-> t] /\ c.at = "keys"
    BY Calls
  <2>2. LateOK' /\ LateGrows
    BY <1>6, LateSame
  <2>3. Holds(c)' /\ call' = [call EXCEPT ![w] = c]
    BY <1>6, <2>1 DEF Holds
  <2>4. CallOK' /\ CallsKnown'
    BY <1>0, <2>2, <2>3, HeldStep
  <2>5. LocksOK'
    BY <1>0, <1>6 DEF AuthInv, TypesOK, LocksOK
  <2>6. QED
    BY <1>0, <1>3, <1>4, <2>2, <2>4, <2>5, KeysStay, ClaimsStay, WorkerStep
<1>7. QED
  BY <1>1, <1>5, <1>6 DEF Claims, Goes

LEMMA KeysInv == ASSUME AuthInv, NEW w \in Workers, Keys(w) PROVE AuthInv'
<1>0. /\ UNCHANGED <<now, uri, jwks, claims, lru, tokenLock, revoked>>
      /\ call[w].at = "keys"
  BY DEF Keys, caches
<1>1. PICK t \in Tokens : t = call[w].token
  BY <1>0, TokenOf
<1>2. PICK i \in Issuers : i = IssuerOf[t]
  BY Numbers
<1>3. PICK ks \in SUBSET SigningKeys : ks = jwks[i].keys
  BY AgeTypes
<1>4. UriOK' /\ ClaimsOK'
  BY <1>0 DEF AuthInv, TypesOK, UriOK, ClaimsOK, Absent
<1>5. CASE /\ call' = [call EXCEPT ![w] = [at |-> "verify", token |-> t, keys |-> ks]]
           /\ Later("keys", now - (jwks[i].at + JwksTtl)) /\ jwksLock' = jwksLock
  <2>1. PICK c \in CallType : /\ c = [at |-> "verify", token |-> t, keys |-> ks]
                              /\ c.at = "verify" /\ c.token = t /\ c.keys = ks
    BY Calls
  <2>2. PICK time \in Int : time = now - (jwks[i].at + JwksTtl) /\ time <= EndOfTime
    BY AgeTypes
  <2>3. LateOK' /\ LateGrows /\ time <= late'.keys
    <3>1. Later("keys", time)
      BY <1>5, <2>2
    <3>2. QED
      BY <2>2, <3>1, LaterGrows
  <2>4. Holds(c)'
    <3>1. ASSUME NEW k \in ks PROVE OwnerOf[k] = i /\ now' <= Served(k)'
      <4>1. OwnerOf[k] = i /\ jwks[i].at <= Arriving(k)
        BY <1>3 DEF AuthInv, KeysKnown
      <4>2. Arriving(k) <= Arriving(k)' /\ Arriving(k) \in Nat /\ Arriving(k)' \in Nat
        BY <1>0, <2>3, BoundsGrow, BoundTypes
      <4>3. late'.keys \in Nat /\ jwks[i].at \in Nat /\ JwksTtl \in Nat /\ now \in Nat
        BY <2>3, AgeTypes DEF LateOK
      <4>4. now <= Arriving(k)' + JwksTtl + late'.keys
        BY <2>2, <2>3, <4>1, <4>2, <4>3
      <4>5. QED
        BY <1>0, <4>1, <4>4 DEF Served
    <3>2. QED
      BY <1>2, <2>1, <3>1 DEF Holds
  <2>5. call' = [call EXCEPT ![w] = c]
    BY <1>5, <2>1
  <2>6. CallOK' /\ CallsKnown'
    BY <1>0, <2>3, <2>4, <2>5, HeldStep
  <2>7. LocksOK'
    BY <1>0, <1>5 DEF AuthInv, TypesOK, LocksOK
  <2>8. QED
    BY <1>0, <1>4, <2>3, <2>6, <2>7, KeysStay, ClaimsStay, WorkerStep
<1>6. CASE /\ call' = [call EXCEPT ![w] = [at |-> "fetch", token |-> t]] /\ late' = late
           /\ jwksLock' = [jwksLock EXCEPT ![i] = w]
  <2>1. PICK c \in CallType : c = [at |-> "fetch", token |-> t] /\ c.at = "fetch"
    BY Calls
  <2>2. LateOK' /\ LateGrows
    BY <1>6, LateSame
  <2>3. Holds(c)' /\ call' = [call EXCEPT ![w] = c]
    BY <1>6, <2>1 DEF Holds
  <2>4. CallOK' /\ CallsKnown'
    BY <1>0, <2>2, <2>3, HeldStep
  <2>5. LocksOK'
    BY <1>0, <1>6 DEF AuthInv, TypesOK, LocksOK
  <2>6. QED
    BY <1>0, <1>4, <2>2, <2>4, <2>5, KeysStay, ClaimsStay, WorkerStep
<1>7. QED
  BY <1>1, <1>2, <1>3, <1>5, <1>6 DEF Keys, Goes, HasKeys

\* The keys of this moment are asked for.
LEMMA AskedInv == ASSUME AuthInv, NEW w \in Workers, Asked(w) PROVE AuthInv'
<1>0. /\ UNCHANGED <<now, jwks, claims, lru, tokenLock, jwksLock, revoked, late>>
      /\ call[w].at = "fetch"
  BY DEF Asked, locks
<1>1. PICK t \in Tokens : t = call[w].token
  BY <1>0, TokenOf
<1>2. PICK i \in Issuers : i = IssuerOf[t]
  BY Numbers
<1>3. PICK ks \in SUBSET SigningKeys : ks = Published(i)
  BY DEF Published
<1>4. \A k \in ks : OwnerOf[k] = i /\ revoked[k] = EndOfTime + 1
  BY <1>3 DEF Published, NotYet
<1>5. PICK g \in Nat : g = now
  BY AgeTypes
<1>6. PICK c \in CallType : /\ c = [at |-> "answer", token |-> t, keys |-> ks, given |-> g]
                            /\ c.at = "answer" /\ c.token = t /\ c.keys = ks /\ c.given = g
  <2>1. [at |-> "answer", token |-> t, keys |-> ks, given |-> g] \in CallType
    BY DEF CallType
  <2>2. QED
    BY <2>1
<1>7. uri' = [uri EXCEPT ![i] = "set"] /\ call' = [call EXCEPT ![w] = c]
  <2>1. /\ uri' = [uri EXCEPT ![IssuerOf[call[w].token]] = "set"]
        /\ GivenKeys(w, Published(IssuerOf[call[w].token]))
    BY DEF Asked
  <2>2. GivenKeys(w, ks)
    BY <1>1, <1>2, <1>3, <2>1
  <2>3. call' = [call EXCEPT ![w] = [at |-> "answer", token |-> call[w].token,
                                     keys |-> ks, given |-> now]]
    BY <2>2 DEF GivenKeys
  <2>4. [at |-> "answer", token |-> call[w].token, keys |-> ks, given |-> now] = c
    BY <1>1, <1>5, <1>6
  <2>5. QED
    BY <1>1, <1>2, <2>1, <2>3, <2>4
<1>8. LateOK' /\ LateGrows
  BY <1>0, LateSame
<1>9. Holds(c)'
  <2>1. g <= now /\ g <= EndOfTime + 1
    BY <1>5, AgeTypes
  <2>2. QED
    BY <1>0, <1>2, <1>4, <1>6, <2>1 DEF Holds
<1>10. CallOK' /\ CallsKnown'
  BY <1>0, <1>7, <1>8, <1>9, HeldStep
<1>11. UriOK'
  BY <1>7 DEF AuthInv, TypesOK, UriOK
<1>12. ClaimsOK' /\ LocksOK'
  BY <1>0 DEF AuthInv, TypesOK, ClaimsOK, LocksOK, Absent
<1>13. QED
  BY <1>0, <1>8, <1>10, <1>11, <1>12, KeysStay, ClaimsStay, WorkerStep

\* The answer arrives, however late.
LEMMA FetchedInv == ASSUME AuthInv, NEW w \in Workers, Fetched(w) PROVE AuthInv'
<1>0. /\ UNCHANGED <<now, uri, claims, lru, tokenLock, revoked>>
      /\ call[w].at = "answer"
  BY DEF Fetched
<1>1. PICK t \in Tokens : t = call[w].token
  BY <1>0, TokenOf
<1>2. PICK i \in Issuers : i = IssuerOf[t]
  BY Numbers
<1>3. PICK d \in CallType : d = call[w]
  BY DEF AuthInv, TypesOK, CallOK
<1>4. PICK ks \in SUBSET SigningKeys : ks = d.keys
  BY <1>0, <1>3, CallFacts
<1>5. PICK g \in Nat : g = d.given
  BY <1>0, <1>3, CallFacts
<1>6. /\ g <= now
      /\ \A k \in ks : OwnerOf[k] = i /\ g <= revoked[k]
  BY <1>0, <1>1, <1>2, <1>3, <1>4, <1>5 DEF AuthInv, CallsKnown, Holds
<1>7. PICK c \in CallType : /\ c = [at |-> "verify", token |-> t, keys |-> ks]
                            /\ c.at = "verify" /\ c.token = t /\ c.keys = ks
  BY Calls
<1>8. /\ jwks' = [jwks EXCEPT ![i] = [keys |-> ks, at |-> now]]
      /\ call' = [call EXCEPT ![w] = c]
      /\ jwksLock' = [jwksLock EXCEPT ![i] = Nobody]
  BY <1>1, <1>2, <1>3, <1>4, <1>7 DEF Fetched, HasKeys, Unlock
<1>9. PICK time \in Int : time = now - g /\ time <= EndOfTime
  BY AgeTypes
<1>10. LateOK' /\ LateGrows /\ time <= late'.answer
  <2>1. Later("answer", time)
    BY <1>3, <1>5, <1>9 DEF Fetched
  <2>2. QED
    BY <1>9, <2>1, LaterGrows
<1>11. ASSUME NEW k \in ks PROVE now <= Arriving(k)' /\ now <= Served(k)'
  <2>1. /\ late'.answer \in Nat /\ late'.keys \in Nat /\ JwksTtl \in Nat
        /\ now \in Nat /\ revoked[k] \in Nat
    BY <1>10, AgeTypes DEF LateOK
  <2>2. now <= revoked[k] + late'.answer
    BY <1>6, <1>9, <1>10, <2>1
  <2>3. revoked'[k] = revoked[k]
    BY <1>0
  <2>4. QED
    BY <2>1, <2>2, <2>3 DEF Arriving, Served
<1>12. CallOK' /\ CallsKnown'
  <2>1. Holds(c)'
    BY <1>0, <1>2, <1>6, <1>7, <1>11 DEF Holds
  <2>2. QED
    BY <1>0, <1>8, <1>10, <2>1, HeldStep
<1>13. JwksOK' /\ UriOK' /\ LocksOK' /\ ClaimsOK'
  <2>1. now \in 0..(EndOfTime + 1)
    BY Numbers DEF AuthInv, TypesOK, ClockOK
  <2>2. JwksOK'
    BY <1>8, <2>1 DEF AuthInv, TypesOK, JwksOK
  <2>3. QED
    BY <1>0, <1>8, <2>2 DEF AuthInv, TypesOK, UriOK, LocksOK, ClaimsOK, Absent
<1>14. KeysKnown'
  <2>1. jwks'[i] = [keys |-> ks, at |-> now] /\ \A j \in Issuers \ {i} : jwks'[j] = jwks[j]
    BY <1>8 DEF AuthInv, TypesOK, JwksOK
  <2>2. ASSUME NEW j \in Issuers
        PROVE  /\ \A k \in jwks'[j].keys : OwnerOf[k] = j /\ jwks'[j].at <= Arriving(k)'
               /\ jwks'[j] # NoKeys => jwks'[j].at <= now
    <3>1. CASE j = i
      <4>1. jwks'[j].keys = ks /\ jwks'[j].at = now /\ now <= now
        BY <2>1, <3>1, AgeTypes
      <4>2. QED
        BY <1>6, <1>11, <3>1, <4>1
    <3>2. CASE j # i
      <4>1. jwks'[j] = jwks[j]
        BY <2>1, <3>2
      <4>2. jwks[j] # NoKeys => jwks[j].at <= now
        BY DEF AuthInv, KeysKnown
      <4>3. ASSUME NEW k \in jwks[j].keys PROVE OwnerOf[k] = j /\ jwks[j].at <= Arriving(k)'
        <5>1. OwnerOf[k] = j /\ jwks[j].at <= Arriving(k)
          BY DEF AuthInv, KeysKnown
        <5>2. k \in SigningKeys /\ jwks[j].at \in Nat
          BY AgeTypes
        <5>3. Arriving(k) <= Arriving(k)' /\ Arriving(k) \in Nat /\ Arriving(k)' \in Nat
          BY <1>0, <1>10, <5>2, BoundsGrow, BoundTypes
        <5>4. QED
          BY <5>1, <5>2, <5>3
      <4>4. QED
        BY <4>1, <4>2, <4>3
    <3>3. QED
      BY <3>1, <3>2
  <2>3. QED
    BY <1>0, <2>2 DEF KeysKnown, NoKeys
<1>15. QED
  BY <1>0, <1>10, <1>12, <1>13, <1>14, ClaimsStay, WorkerStep

LEMMA NotFetchedInv == ASSUME AuthInv, NEW w \in Workers, NotFetched(w) PROVE AuthInv'
<1> DEFINE t == call[w].token
           i == IssuerOf[t]
<1>0. /\ UNCHANGED <<now, jwks, claims, lru, revoked, late>>
      /\ uri' = uri \/ \E found \in {"set", "failed"} : uri' = [uri EXCEPT ![i] = found]
      /\ jwksLock' = [jwksLock EXCEPT ![i] = Nobody]
      /\ tokenLock' = [tokenLock EXCEPT ![t] = Nobody]
      /\ call' = [call EXCEPT ![w] = [at |-> "rejected"]]
  BY DEF NotFetched, Returns, Unlock
<1> HIDE DEF t, i
<1>1. PICK c \in CallType : c = [at |-> "rejected"] /\ c.at = "rejected"
  BY Calls
<1>2. LateOK' /\ LateGrows
  BY <1>0, LateSame
<1>3. CallOK' /\ CallsKnown'
  <2>1. Holds(c)' /\ call' = [call EXCEPT ![w] = c]
    BY <1>0, <1>1 DEF Holds
  <2>2. QED
    BY <1>0, <1>2, <2>1, HeldStep
<1>4. UriOK'
  BY <1>0 DEF AuthInv, TypesOK, UriOK
<1>5. LocksOK'
  BY <1>0 DEF AuthInv, TypesOK, LocksOK
<1>6. ClaimsOK'
  BY <1>0 DEF AuthInv, TypesOK, ClaimsOK, Absent
<1>7. QED
  BY <1>0, <1>2, <1>3, <1>4, <1>5, <1>6, KeysStay, ClaimsStay, WorkerStep

\* An entry is written: it is there, with what there is room for.
LEMMA CacheOK ==
  ASSUME AuthInv, NEW t \in Tokens, Cache(t)
  PROVE  /\ ClaimsOK' /\ claims'[t] = now
         /\ \A u \in Tokens \ {t} : claims'[u] \in {claims[u], Absent}
<1> DEFINE all  == Recent(lru, t)
           kept == IF Len(all) > Capacity THEN Tail(all) ELSE all
<1>0. ClaimsOK /\ now \in 0..EndOfTime /\ Capacity \in Nat \ {0} /\ EndOfTime \in Nat
  BY Numbers DEF AuthInv, TypesOK, ClockOK
<1>1. /\ lru' = kept
      /\ claims' = [u \in Tokens |-> IF u = t THEN now
                                     ELSE IF Contains(kept, u) THEN claims[u] ELSE Absent]
  BY DEF Cache, Recent
<1>2. lru \in Seq(Tokens) /\ Len(lru) <= Capacity /\ Len(lru) \in Nat
  BY <1>0, LenProperties DEF ClaimsOK
<1>3. /\ all \in Seq(Tokens) /\ ToSet(all) \subseteq ToSet(lru) \cup {t}
      /\ Len(all) = IF t \in ToSet(lru) THEN Len(lru) ELSE Len(lru) + 1
      /\ Len(all) >= 1 /\ all[Len(all)] = t
  BY <1>2, RecentProperties
<1> HIDE DEF all
<1>4. /\ kept \in Seq(Tokens) /\ Len(kept) <= Capacity
      /\ ToSet(kept) \subseteq ToSet(lru) \cup {t} /\ t \in ToSet(kept)
  <2>1. Len(all) <= Capacity + 1
    BY <1>0, <1>2, <1>3
  <2>2. /\ kept \in Seq(Tokens) /\ Len(kept) <= Capacity /\ ToSet(kept) \subseteq ToSet(all)
        /\ all[Len(all)] \in ToSet(kept)
    BY <1>0, <1>3, <2>1, KeptProperties
  <2> HIDE DEF kept
  <2>3. QED
    BY <1>3, <2>2
<1> HIDE DEF kept
<1>5. \A u : Contains(kept, u) <=> u \in ToSet(kept)
  BY <1>4, ContainsIs
<1>6. now # Absent /\ now \in 0..(EndOfTime + 1) /\ Absent \in 0..(EndOfTime + 1)
  BY <1>0 DEF Absent
<1>7. claims' \in [Tokens -> 0..(EndOfTime + 1)]
  <2>1. \A u \in Tokens : claims[u] \in 0..(EndOfTime + 1)
    BY <1>0 DEF ClaimsOK
  <2>2. QED
    BY <1>1, <1>6, <2>1
<1>8. \A u \in Tokens : claims'[u] = IF u = t THEN now
                                     ELSE IF u \in ToSet(kept) THEN claims[u] ELSE Absent
  BY <1>1, <1>5
<1>9. ToSet(kept) = {u \in Tokens : claims'[u] # Absent}
  <2>1. ASSUME NEW u \in ToSet(kept) PROVE u \in Tokens /\ claims'[u] # Absent
    <3>1. u = t \/ u \in ToSet(lru)
      BY <1>4
    <3>2. u \in ToSet(lru) => u \in Tokens /\ claims[u] # Absent
      BY <1>0 DEF ClaimsOK
    <3>3. QED
      BY <1>6, <1>8, <3>1, <3>2
  <2>2. ASSUME NEW u \in Tokens, claims'[u] # Absent PROVE u \in ToSet(kept)
    BY <1>4, <1>8, <2>2
  <2>3. QED
    BY <2>1, <2>2
<1>10. ClaimsOK'
  BY <1>1, <1>4, <1>7, <1>9 DEF ClaimsOK, Absent
<1>11. QED
  BY <1>8, <1>10

LEMMA VerifyInv == ASSUME AuthInv, NEW w \in Workers, Verify(w) PROVE AuthInv'
<1>0. /\ UNCHANGED <<now, uri, jwks, jwksLock, revoked, late>>
      /\ call[w].at = "verify"
  BY DEF Verify
<1>1. PICK t \in Tokens : t = call[w].token
  BY <1>0, TokenOf
<1>2. PICK k \in SigningKeys : k = SignedWith[t]
  BY Numbers
<1>3. LateOK' /\ LateGrows
  BY <1>0, LateSame
<1>4. tokenLock' = [tokenLock EXCEPT ![t] = Nobody]
  BY <1>1 DEF Verify, Unlock
<1>5. LocksOK' /\ UriOK'
  BY <1>0, <1>4 DEF AuthInv, TypesOK, LocksOK, UriOK
<1>6. CASE /\ k \in call[w].keys /\ Cache(t)
           /\ call' = [call EXCEPT ![w] = [at |-> "check", token |-> t]]
  <2>1. PICK c \in CallType : c = [at |-> "check", token |-> t] /\ c.at = "check" /\ c.token = t
    BY Calls
  <2>2. OwnerOf[k] = IssuerOf[t] /\ now <= Served(k)
    BY <1>0, <1>1, <1>6 DEF AuthInv, CallsKnown, Holds
  <2>3. /\ Served(k) <= Served(k)' /\ Spoken(k) <= Spoken(k)' /\ Served(k) <= Spoken(k)
        /\ Served(k) \in Nat /\ Served(k)' \in Nat /\ Spoken(k) \in Nat /\ Spoken(k)' \in Nat
        /\ now \in Nat
    BY <1>0, <1>3, BoundsGrow, BoundTypes, AgeTypes
  <2>4. now <= Served(k)' /\ now <= Spoken(k)' /\ now <= now
    BY <2>2, <2>3
  <2>5. CallOK' /\ CallsKnown'
    <3>1. Holds(c)'
      BY <1>0, <1>2, <2>1, <2>4 DEF Holds
    <3>2. call' = [call EXCEPT ![w] = c]
      BY <1>6, <2>1
    <3>3. QED
      BY <1>0, <1>3, <3>1, <3>2, HeldStep
  <2>6. /\ ClaimsOK' /\ claims'[t] = now
        /\ \A u \in Tokens \ {t} : claims'[u] \in {claims[u], Absent}
    BY <1>6, CacheOK
  <2>7. ClaimsKnown'
    <3>1. ASSUME NEW u \in Tokens, claims'[u] # Absent
          PROVE  /\ OwnerOf[SignedWith[u]] = IssuerOf[u] /\ claims'[u] <= now
                 /\ claims'[u] <= Served(SignedWith[u])'
      <4>1. CASE u = t
        BY <1>2, <2>2, <2>4, <2>6, <4>1
      <4>2. CASE u # t
        <5>1. claims'[u] = claims[u] /\ claims[u] # Absent
          BY <2>6, <3>1, <4>2
        <5>2. PICK s \in SigningKeys : s = SignedWith[u]
          BY Numbers
        <5>3. OwnerOf[s] = IssuerOf[u] /\ claims[u] <= now /\ claims[u] <= Served(s)
          BY <5>1, <5>2 DEF AuthInv, ClaimsKnown
        <5>4. Served(s) <= Served(s)' /\ Served(s) \in Nat /\ Served(s)' \in Nat /\ claims[u] \in Nat
          BY <1>0, <1>3, BoundsGrow, BoundTypes, AgeTypes
        <5>5. claims[u] <= Served(s)'
          BY <5>3, <5>4
        <5>6. QED
          BY <5>1, <5>2, <5>3, <5>5
      <4>3. QED
        BY <4>1, <4>2
    <3>2. QED
      BY <1>0, <3>1 DEF ClaimsKnown, Absent
  <2>8. QED
    BY <1>0, <1>3, <1>5, <2>5, <2>6, <2>7, KeysStay, WorkerStep
<1>7. CASE call' = [call EXCEPT ![w] = [at |-> "rejected"]] /\ UNCHANGED <<claims, lru>>
  <2>1. PICK c \in CallType : c = [at |-> "rejected"] /\ c.at = "rejected"
    BY Calls
  <2>2. CallOK' /\ CallsKnown'
    <3>1. Holds(c)' /\ call' = [call EXCEPT ![w] = c]
      BY <1>7, <2>1 DEF Holds
    <3>2. QED
      BY <1>0, <1>3, <3>1, HeldStep
  <2>3. ClaimsOK'
    BY <1>7 DEF AuthInv, TypesOK, ClaimsOK, Absent
  <2>4. QED
    BY <1>0, <1>3, <1>5, <1>7, <2>2, <2>3, KeysStay, ClaimsStay, WorkerStep
<1>8. QED
  BY <1>1, <1>2, <1>6, <1>7 DEF Verify, Goes, Returns

LEMMA AuthInvNext == AuthInv /\ [AuthNext]_authVars => AuthInv'
<1> SUFFICES ASSUME AuthInv, [AuthNext]_authVars PROVE AuthInv'
  OBVIOUS
<1>1. CASE Tick
  BY <1>1, TickInv
<1>2. ASSUME NEW k \in Rotated, Revoke(k) PROVE AuthInv'
  BY <1>2, RevokeInv
<1>3. ASSUME NEW w \in Workers, AuthStep(w) PROVE AuthInv'
  BY <1>3, ClaimsInv, KeysInv, AskedInv, FetchedInv, NotFetchedInv, VerifyInv, CheckClaimsInv DEF AuthStep
<1>4. ASSUME NEW w \in Workers, NEW t \in Tokens, Authenticate(w, t) PROVE AuthInv'
  BY <1>4, AuthenticateInv
<1>5. CASE UNCHANGED authVars
  <2>1. UNCHANGED <<now, uri, jwks, claims, lru, tokenLock, jwksLock, call, revoked, late>>
    BY <1>5 DEF authVars
  <2>2. TypesOK'
    BY <2>1 DEF AuthInv, TypesOK, ClockOK, UriOK, JwksOK, ClaimsOK, LocksOK, CallOK, RevokedOK, LateOK
  <2>3. KeysKnown' /\ ClaimsKnown' /\ CallsKnown'
    BY <2>1 DEF AuthInv, KeysKnown, ClaimsKnown, CallsKnown, Holds, Arriving, Served, Spoken,
       NoKeys, Absent
  <2>4. QED
    BY <2>2, <2>3 DEF AuthInv
<1>6. QED
  BY <1>1, <1>2, <1>3, <1>4, <1>5 DEF AuthNext

THEOREM AuthInvariant == AuthSpec => []AuthInv
BY AuthInvInit, AuthInvNext, PTL DEF AuthSpec

-----------------------------------------------------------------------------
\* Every state is of its type: the cache of claims holds at most as many as it
\* may, and those that its order of use lists.
THEOREM AuthTypeCorrect == AuthSpec => []AuthTypeOK
<1>1. AuthInv => AuthTypeOK
  BY TypesParts DEF AuthInv
<1>2. QED
  BY <1>1, AuthInvariant, PTL

\* Only claims verified with a key of the issuer they name are cached.
THEOREM OwnKeysOnlyHolds == AuthSpec => []OwnKeysOnly
<1>1. AuthInv => OwnKeysOnly
  BY DEF AuthInv, TypesOK, ClaimsOK, ClaimsKnown, OwnKeysOnly
<1>2. QED
  BY <1>1, AuthInvariant, PTL

\* Only CheckClaims accepts, and what it accepts it has just looked at.
LEMMA Accepting ==
  ASSUME AuthInv, [AuthNext]_authVars, NEW w \in Workers, Accepts(w)
  PROVE  /\ call[w].at = "check" /\ call[w].token \in Tokens
         /\ \E m \in Methods : ValidFor(call[w].token, m)
<1>0. CallOK
  BY DEF AuthInv, TypesOK
<1> DEFINE Other(x) == x # w /\ \E c : call' = [call EXCEPT ![x] = c]
           Place(p) == \E x \in Workers : \E c : c.at = p /\ call' = [call EXCEPT ![x] = c]
<1>1. CASE UNCHANGED call
  BY <1>1 DEF Accepts
<1>2. CASE \E p \in {"claims", "keys", "fetch", "check", "verify", "answer", "rejected"} : Place(p)
  <2>0. PICK x \in Workers : \E c : c.at # "accepted" /\ call' = [call EXCEPT ![x] = c]
    BY <1>2
  <2>1. PICK c : c.at # "accepted" /\ call' = [call EXCEPT ![x] = c]
    BY <2>0
  <2>2. CASE x = w
    BY <1>0, <2>1, <2>2 DEF Accepts, CallOK
  <2>3. CASE x # w
    BY <1>0, <2>1, <2>3 DEF Accepts, CallOK
  <2>4. QED
    BY <2>2, <2>3
<1>3. CASE \E x \in Workers, m \in Methods : CheckClaims(x, m)
  <2>1. PICK x \in Workers, m \in Methods : CheckClaims(x, m)
    BY <1>3
  <2>2. x = w
    BY <1>0, <2>1 DEF CheckClaims, Returns, Accepts, CallOK
  <2>3. call[w].at = "check" /\ call[w].token \in Tokens
    BY <1>0, <2>1, <2>2, CallFacts DEF CheckClaims, CallOK
  <2>4. ValidFor(call[w].token, m)
    <3>1. ~ValidFor(call[w].token, m) => call'[w] = [at |-> "rejected"]
      BY <1>0, <2>1, <2>2 DEF CheckClaims, Returns, CallOK
    <3>2. QED
      BY <3>1 DEF Accepts
  <2>5. QED
    BY <2>3, <2>4
<1>4. QED
  <2> HIDE DEF Place
  <2>1. Tick \/ (\E k \in Rotated : Revoke(k)) \/ UNCHANGED authVars => UNCHANGED call
    BY DEF Tick, Revoke, authVars
  <2>2. ASSUME NEW x \in Workers, AuthStep(x) \/ \E t \in Tokens : Authenticate(x, t),
               ~ \E m \in Methods : CheckClaims(x, m)
        PROVE  \E p \in {"claims", "keys", "fetch", "check", "verify", "answer", "rejected"} : Place(p)
    <3>1. CASE Claims(x)
      BY <3>1 DEF Place, Claims, Goes
    <3>2. CASE Keys(x)
      BY <3>2 DEF Place, Keys, Goes, HasKeys
    <3>3. CASE Asked(x)
      BY <3>3 DEF Place, Asked, GivenKeys
    <3>4. CASE Fetched(x)
      BY <3>4 DEF Place, Fetched, HasKeys
    <3>5. CASE NotFetched(x)
      BY <3>5 DEF Place, NotFetched, Returns
    <3>6. CASE Verify(x)
      BY <3>6 DEF Place, Verify, Goes, Returns
    <3>7. CASE \E t \in Tokens : Authenticate(x, t)
      BY <3>7 DEF Place, Authenticate
    <3>8. QED
      BY <2>2, <3>1, <3>2, <3>3, <3>4, <3>5, <3>6, <3>7 DEF AuthStep
  <2>3. QED
    BY <1>1, <1>2, <1>3, <2>1, <2>2 DEF AuthNext, AuthStep

\* A token is accepted only while it is valid, whatever is cached.
THEOREM AcceptedNowHolds == AuthSpec => AcceptedNow
<1>1. AuthInv /\ [AuthNext]_authVars =>
        \A w \in Workers : Accepts(w) =>
          NotBefore[call[w].token] <= now /\ now < Expires[call[w].token]
  <2> SUFFICES ASSUME AuthInv, [AuthNext]_authVars, NEW w \in Workers, Accepts(w)
               PROVE  NotBefore[call[w].token] <= now /\ now < Expires[call[w].token]
    OBVIOUS
  <2>1. call[w].token \in Tokens /\ \E m \in Methods : ValidFor(call[w].token, m)
    BY Accepting
  <2>2. NotBefore[call[w].token] \in Int /\ now \in Int
    BY <2>1, AgeTypes, AuthAssumption
  <2>3. QED
    BY <2>1, <2>2 DEF ValidFor
<1>2. QED
  BY <1>1, AuthInvariant, PTL DEF AuthSpec, AcceptedNow

\* A token whose key was withdrawn is accepted for the two expiration times and as
\* long as the provider's answer, and the threads that used expired entries while
\* another one replaced them, have been late, for any values of these times.
THEOREM RevocationBoundHolds == AuthSpec => RevocationBound
<1>1. AuthInv /\ [AuthNext]_authVars =>
        \A w \in Workers : Accepts(w) =>
          now <= revoked[SignedWith[call[w].token]]
                   + late.answer + JwksTtl + late.keys + TokenTtl + late.claims
  <2> SUFFICES ASSUME AuthInv, [AuthNext]_authVars, NEW w \in Workers, Accepts(w)
               PROVE  now <= revoked[SignedWith[call[w].token]]
                               + late.answer + JwksTtl + late.keys + TokenTtl + late.claims
    OBVIOUS
  <2>1. call[w].at = "check"
    BY Accepting
  <2>2. QED
    BY <2>1 DEF AuthInv, CallsKnown, Holds, Spoken, Served, Arriving
<1>2. QED
  BY <1>1, AuthInvariant, PTL DEF AuthSpec, RevocationBound
=============================================================================
