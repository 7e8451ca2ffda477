----------------------------- MODULE ServiceProofs -----------------------------
(***************************************************************************)
(* Proofs about Service, and with it about RequestTrace: for any           *)
(* environments, requests, ids and accounts, whatever keyring and Spotify  *)
(* do, and wherever the process is told to stop.                           *)
(***************************************************************************)
EXTENDS Service, RequestTraceProofs

(* Nothing happens to a request before the process serves, and what is in  *)
(* force is what a sound environment says.                                 *)
Begun ==
    /\ phase \in {"unstarted", "refused", "built"} =>
          \A r \in Request : At(r, "none") /\ job[r].task = "none"
    /\ phase \notin {"unstarted", "refused"} =>
          environ \in Environment /\ Accepts(environ) /\ settings = InForce(environ)
    /\ \A r \in Request : answer[r].type = "preferences_unavailable" => ReadsSettings(settings)

(* Shutdown, from the step that marks the tasks to the one that closes the *)
(* last client.                                                            *)
Ending ==
    /\ phase \in {"closing", "stopped"} =>
          /\ \A r \in Request : ~Open(r)
          /\ \A r \in Held : job[r].marked
    /\ phase = "stopped" => open = {}
    /\ phase \in {"aborting", "aborted"} => \E r \in Request : job[r].status = "gone"
    /\ phase = "aborted" => "http" \notin open

(* The inductive invariant. *)
IInv ==
    /\ TypeOK
    /\ TraceInv
    /\ Begun
    /\ Ending

-----------------------------------------------------------------------------
(* The settings. *)

(* What is accepted is in force as it was written, and nothing is left out *)
(* that this process would read.                                           *)
LEMMA InForceIsWhatWasWritten ==
    ASSUME NEW e \in Environment, Accepts(e)
    PROVE  /\ DOMAIN InForce(e) \subseteq Setting
           /\ \A name \in DOMAIN e \ Foreign :
                 \/ name \in DOMAIN InForce(e) /\ InForce(e)[name] = e[name]
                 \/ name \in BlankIsUnset /\ e[name] = "blank"
           /\ \A n \in Number \cap DOMAIN InForce(e) : InForce(e)[n] \in Limits[n]
           /\ ReadsSettings(InForce(e)) \/
                 {"settings_api_base_url", "settings_api_token"} \cap DOMAIN InForce(e) = {}
<1>1. /\ DOMAIN InForce(e) = {s \in Setting : Given(e, s)}
      /\ \A s \in Setting : Given(e, s) => InForce(e)[s] = e[s]
  BY DEF InForce
<1>2. ASSUME NEW name \in DOMAIN e \ Foreign
      PROVE  \/ name \in DOMAIN InForce(e) /\ InForce(e)[name] = e[name]
             \/ name \in BlankIsUnset /\ e[name] = "blank"
  <2>1. name \in Setting
    BY ServiceAssumption DEF Accepts, Unknown
  <2> QED
    BY <1>1, <2>1 DEF Given
<1>3. ASSUME NEW n \in Number \cap DOMAIN InForce(e)
      PROVE  InForce(e)[n] \in Limits[n]
  <2>1. n \in Setting /\ Given(e, n) /\ n \in DOMAIN e
    BY <1>1 DEF Given
  <2>2. Allowed(n, e[n])
    BY <2>1 DEF Accepts
  <2> QED
    BY <1>1, <2>1, <2>2 DEF Allowed
<1>4. ReadsSettings(InForce(e)) \/
         {"settings_api_base_url", "settings_api_token"} \cap DOMAIN InForce(e) = {}
  <2>1. Given(e, "settings_api_base_url") <=> Given(e, "settings_api_token")
    BY DEF Accepts, SettingsApiIsWhole
  <2>2. "settings_api_base_url" \in Setting /\ "settings_api_token" \in Setting
    BY DEF Setting, FreeText, RuledText
  <2> QED
    BY <1>1, <2>1, <2>2 DEF ReadsSettings
<1> QED
  BY <1>1, <1>2, <1>3, <1>4

-----------------------------------------------------------------------------
(* The process. *)

LEMMA Begins == Init => IInv
<1> SUFFICES ASSUME Init PROVE IInv
  OBVIOUS
<1>1. TraceInv
  BY TraceBegins DEF Init
<1>2. \A r \in Request : At(r, "none") /\ job[r].task = "none" /\ answer[r].type = "none"
  BY DEF Init, TraceInit, NoJob, NoAnswer, At
<1>3. DOMAIN settings = {}
  BY DEF Init, NoEnvironment
<1>4. TypeOK
  BY <1>1, <1>3 DEF Init, TypeOK, TraceInv, Types
<1> QED
  BY <1>1, <1>2, <1>4 DEF Init, IInv, Begun, Ending

(* main() either refuses or has what the environment says in force. *)
LEMMA MainKeeps == ASSUME IInv, NEW e \in Environment, Main(e) PROVE IInv'
<1>1. phase = "unstarted" /\ environ' = e /\ UNCHANGED traceVars
  BY DEF Main
<1>2. TraceInv'
  BY <1>1, TraceStays DEF IInv
<1>3. \A r \in Request : /\ At(r, "none")' /\ job'[r].task = "none"
                         /\ answer'[r].type = "none"
  BY <1>1 DEF IInv, Begun, TraceInv, RequestInv, Bound, At, traceVars
<1>4. CASE Accepts(e)
  <2>1. /\ phase' = "built" /\ settings' = InForce(e)
        /\ open' = {"keys"} \cup IF ReadsSettings(InForce(e)) THEN {"preferences"} ELSE {}
    BY <1>4 DEF Main
  <2>2. DOMAIN settings' \subseteq Setting
    BY <1>4, <2>1, InForceIsWhatWasWritten
  <2>3. TypeOK'
    BY <1>1, <1>2, <2>1, <2>2 DEF TypeOK, TraceInv, Types
  <2> QED
    BY <1>1, <1>2, <1>3, <1>4, <2>1, <2>3 DEF IInv, Begun, Ending
<1>5. CASE ~Accepts(e)
  <2>1. phase' = "refused" /\ UNCHANGED <<settings, open>>
    BY <1>5 DEF Main
  <2>2. TypeOK'
    BY <1>1, <1>2, <2>1 DEF IInv, TypeOK, TraceInv, Types
  <2> QED
    BY <1>1, <1>2, <1>3, <2>1, <2>2 DEF IInv, Begun, Ending
<1> QED
  BY <1>4, <1>5

(* The steps of the lifespan and of uvicorn that concern no request. *)
LEMMA LifespanKeeps ==
    ASSUME IInv, Start \/ StopSignal \/ Close \/ Abort
    PROVE  IInv'
<1>1. UNCHANGED <<environ, settings>> /\ UNCHANGED traceVars
  BY DEF Start, StopSignal, Close, Abort
<1>2. TraceInv'
  BY <1>1, TraceStays DEF IInv
<1>3. UNCHANGED <<request, context, answer, job>>
  BY <1>1 DEF traceVars
<1>4. phase \notin {"unstarted", "refused"} /\ phase' \notin {"unstarted", "refused", "built"}
  BY DEF Start, StopSignal, Close, Abort
<1>5. TypeOK'
  BY <1>1, <1>2 DEF IInv, TypeOK, TraceInv, Types, Start, StopSignal, Close, Abort
<1>6. Begun'
  BY <1>1, <1>3, <1>4 DEF IInv, Begun
<1>7. Ending'
  <2>1. (\A r \in Request : ~Open(r)) /\ (\A r \in Held : job[r].marked)
           => (\A r \in Request : ~Open(r))' /\ (\A r \in Held : job[r].marked)'
    BY <1>3 DEF Open, Held
  <2>2. CASE Start \/ StopSignal
    BY <2>2 DEF Ending, Start, StopSignal
  <2>3. CASE Close
    BY <2>1, <2>3 DEF IInv, Ending, Close
  <2>4. CASE Abort
    BY <1>3, <2>4 DEF IInv, Ending, Abort
  <2> QED
    BY <2>2, <2>3, <2>4
<1> QED
  BY <1>2, <1>5, <1>6, <1>7 DEF IInv

(* shutdown(): no request is open, and unless a job had aged out every     *)
(* task that is held is about to be cancelled.                             *)
LEMMA ShutdownKeeps ==
    ASSUME IInv, NEW reached \in SUBSET Request, Shutdown(reached)
    PROVE  IInv'
<1> DEFINE reaped == {r \in Held : job[r].status = "gone"}
<1>1. /\ phase = "draining"
      /\ \A r \in Request : ~Open(r)
      /\ reached \subseteq Held
      /\ \/ reaped = {} /\ reached = Held /\ phase' = "closing"
         \/ (\E r \in reaped : reached \cap reaped = {r}) /\ phase' = "aborting"
      /\ job' = [r \in Request |->
                   IF r \notin reached THEN job[r]
                   ELSE [job[r] EXCEPT !.marked = TRUE,
                                       !.status = IF r \in reaped THEN @ ELSE "cancelled"]]
      /\ UNCHANGED <<environ, settings, open, request, context, answer>>
  BY DEF Shutdown
<1>2. /\ request \in [Request -> Requests] /\ job \in [Request -> Jobs]
      /\ \A r \in Request : JobsFollowTasks(r) /\ JobsTellTheOutcome(r)
  BY DEF IInv, TraceInv, RequestInv, Types, TraceTypeOK, Requests, Stages, Accounts, Outcomes
<1>3. ASSUME NEW r \in Request
      PROVE  /\ job'[r] \in Jobs
             /\ job'[r].task = job[r].task
             /\ r \notin reached => job'[r] = job[r]
             /\ r \in reached =>
                   /\ job'[r].marked /\ job[r].task \in {"created", "working"}
                   /\ job'[r].status = IF job[r].status = "gone" THEN "gone" ELSE "cancelled"
  <2>1. CASE r \notin reached
    BY <1>1, <1>2, <2>1
  <2>2. CASE r \in reached
    <3> DEFINE j == job[r]
               status == IF j.status = "gone" THEN "gone" ELSE "cancelled"
               k == [j EXCEPT !.marked = TRUE]
               l == [k EXCEPT !.status = status]
    <3>1. j \in Jobs /\ r \in Held /\ status \in Statuses
      BY <1>1, <1>2, <2>2 DEF Statuses
    <3>2. job'[r] = [j EXCEPT !.marked = TRUE, !.status = status]
      BY <1>1, <2>2, <3>1
    <3>3. k \in Jobs
      BY <3>1 DEF Jobs
    <3>4. k.task = j.task /\ k.marked
      BY <3>1 DEF Jobs
    <3> HIDE DEF k, status
    <3>5. l \in Jobs /\ l.task = k.task /\ l.marked = k.marked /\ l.status = status
      BY <3>1, <3>3 DEF Jobs
    <3>6. job'[r] = l
      BY <3>2 DEF k
    <3> HIDE DEF l
    <3> QED
      BY <2>2, <3>1, <3>4, <3>5, <3>6 DEF status, Held
  <2> QED
    BY <2>1, <2>2
<1> HIDE DEF reaped
<1>4. job' \in [Request -> Jobs]
  <2>1. job' = [r \in Request |-> job'[r]]
    BY <1>1
  <2> QED
    BY <1>3, <2>1
<1>5. ASSUME NEW r \in Request
      PROVE  JobsFollowTasks(r)' /\ JobsTellTheOutcome(r)'
  <2>3. request' = request /\ JobsFollowTasks(r) /\ JobsTellTheOutcome(r)
    BY <1>1, <1>2
  <2>1. CASE r \notin reached
    <3>1. job'[r] = job[r]
      BY <1>3, <2>1
    <3> QED
      BY <2>3, <3>1 DEF JobsFollowTasks, JobsTellTheOutcome, At
  <2>2. CASE r \in reached
    <3>1. /\ job'[r].marked /\ job[r].task \in {"created", "working"}
          /\ job'[r].task = job[r].task
          /\ job'[r].status \in {"gone", "cancelled"}
      BY <1>3, <2>2
    <3>2. JobsFollowTasks(r)'
      BY <2>3, <3>1 DEF JobsFollowTasks, At
    <3>3. JobsTellTheOutcome(r)'
      BY <3>1 DEF JobsTellTheOutcome
    <3> QED
      BY <3>2, <3>3
  <2> QED
    BY <2>1, <2>2
<1>6. TraceInv'
  <2>1. TraceInv /\ UNCHANGED <<context, answer>> /\ request' \in [Request -> Requests]
    BY <1>1, <1>2 DEF IInv
  <2>2. \A q \in Request : request'[q] = request[q] /\ (job'[q].task = "none" <=> job[q].task = "none")
    BY <1>1, <1>3
  <2> QED
    BY <1>4, <1>5, <2>1, <2>2, JobsKeep
<1>7. TypeOK'
  BY <1>1, <1>6 DEF IInv, TypeOK, TraceInv, Types
<1>8. Begun'
  BY <1>1 DEF IInv, Begun
<1>9. Ending'
  <2>1. (\A r \in Request : ~Open(r))'
    BY <1>1 DEF Open
  <2>2. CASE reaped = {} /\ reached = Held /\ phase' = "closing"
    <3>1. (\A r \in Held : job[r].marked)'
      BY <1>3, <2>2 DEF Held
    <3> QED
      BY <2>1, <2>2, <3>1 DEF Ending
  <2>3. CASE (\E r \in reaped : reached \cap reaped = {r}) /\ phase' = "aborting"
    <3>1. PICK r \in reaped : reached \cap reaped = {r}
      BY <2>3
    <3>2. r \in reached /\ r \in Request /\ job[r].status = "gone"
      BY <3>1 DEF reaped, Held
    <3>3. job'[r].status = "gone"
      BY <1>3, <3>2
    <3> QED
      BY <2>3, <3>2, <3>3 DEF Ending
  <2> QED
    BY <1>1, <2>2, <2>3
<1> QED
  BY <1>6, <1>7, <1>8, <1>9 DEF IInv

(* What requests and jobs do while the process runs.  Once the lifespan is *)
(* ending there is nothing left to do but for the marked tasks to end.     *)
LEMMA ServingKeeps ==
    ASSUME IInv, Serving, UNCHANGED processVars
    PROVE  IInv'
<1> USE DEF processVars
<1>1. ASSUME TraceInv',
             phase \notin {"unstarted", "refused", "built"},
             \A r \in Request : answer'[r].type = "preferences_unavailable" =>
                answer[r].type = "preferences_unavailable" \/ ReadsSettings(settings),
             \A r \in Request : job[r].status = "gone" => job'[r].status = "gone",
             phase \in {"closing", "stopped"} =>
                (\A r \in Request : ~Open(r))' /\ (\A r \in Held : job[r].marked)'
      PROVE  IInv'
  <2>1. TypeOK'
    BY <1>1 DEF IInv, TypeOK, TraceInv, Types
  <2>2. Begun'
    BY <1>1 DEF IInv, Begun
  <2>3. Ending'
    BY <1>1 DEF IInv, Ending
  <2> QED
    BY <1>1, <2>1, <2>2, <2>3 DEF IInv
<1>2. TraceInv /\ Begun /\ \A r \in Request : RequestInv(r)
  BY DEF IInv, TraceInv
<1>3. phase \in {"closing", "stopped"} => \A r \in Request : ~Open(r)
  BY DEF IInv, Ending
<1>4. CASE phase = "serving" /\ \E r \in Request, given \in Id \cup {NoId} : Arrive(r, given)
  <2>1. PICK r \in Request, given \in Id \cup {NoId} : Arrive(r, given)
    BY <1>4
  <2>2. TraceInv' /\ answer' = answer
    BY <1>2, <2>1, MoveKeeps
  <2>3. job' = job
    BY <2>1 DEF Arrive
  <2> QED
    BY <1>1, <1>4, <2>2, <2>3
<1>5. ASSUME NEW r \in Request, Answering(r)
      PROVE  IInv'
  <2>1. Open(r)
    BY <1>5 DEF Answering, Handle, MissesPreferences, PreferencesFail, Unacceptable, Probe,
                NotVerified, Verified, Prepared, WorkSucceeds, WorkFails, Submit, Complete,
                Recover, At, Open
  <2>2. phase \notin {"closing", "stopped", "unstarted", "refused", "built"}
    BY <1>2, <1>3, <2>1 DEF Begun, At, Open
  <2>3. CASE Handle(r)
    <3>1. /\ TraceInv'
          /\ \A q \in Request : answer'[q].type = "preferences_unavailable" =>
                answer[q].type = "preferences_unavailable"
          /\ \A q \in Request : job[q].status = "gone" => job'[q].status = "gone"
      BY <1>2, <2>3, HandleKeeps
    <3> QED
      BY <1>1, <2>2, <3>1
  <2>4. CASE MissesPreferences(r)
    <3>1. TraceInv' /\ job' = job /\ ReadsSettings(settings)
      BY <1>2, <2>4, PreferencesFailKeeps DEF MissesPreferences
    <3> QED
      BY <1>1, <2>2, <3>1
  <2> QED
    BY <1>5, <2>3, <2>4 DEF Answering
<1>6. ASSUME NEW r \in Request, RunJob(r)
      PROVE  IInv'
  <2>1. /\ TraceInv' /\ answer' = answer
        /\ \A q \in Request : job[q].status = "gone" => job'[q].status = "gone"
    BY <1>2, <1>6, RunJobKeeps
  <2>2. /\ job[r].task # "none"
        /\ JobStarts(r) \/ JobSucceeds(r) => ~job[r].marked /\ r \in Held
    BY <1>2, <1>6 DEF RunJob, JobStarts, JobSucceeds, JobFails, JobEnds, JobCancelled, JobStep,
                      MayRun, Held, RequestInv, JobsFollowTasks
  <2>3. phase \notin {"unstarted", "refused", "built"}
    BY <1>2, <2>2 DEF Begun
  <2>4. ASSUME phase \in {"closing", "stopped"}
        PROVE  (\A q \in Request : ~Open(q))' /\ (\A q \in Held : job[q].marked)'
    <3>1. \A q \in Held : job[q].marked
      BY <2>4 DEF IInv, Ending
    <3>2. JobCancelled(r) \/ JobFails(r)
      BY <1>6, <2>2, <3>1 DEF RunJob
    <3>3. job \in [Request -> Jobs] /\ job[r] \in Jobs
      BY <1>2 DEF TraceInv, Types
    <3>4. PICK from \in TaskStates, status \in Statuses, error \in JobErrors :
             JobStep(r, from, "ended", status, error)
      <4>1. CASE JobCancelled(r)
        BY <3>3, <4>1 DEF JobCancelled, Jobs
      <4>2. CASE JobFails(r)
        <5>1. PICK error \in JobErrors : JobStep(r, "working", "ended", "failed", error)
          BY <4>2 DEF JobFails, JobEnds, JobErrors
        <5> QED
          BY <5>1 DEF TaskStates, Statuses
      <4> QED
        BY <3>2, <4>1, <4>2
    <3>5. /\ job'[r].task = "ended" /\ \A q \in Request \ {r} : job'[q] = job[q]
          /\ \A q \in Request : request'[q].stage = request[q].stage
      <4>1. "ended" \in TaskStates
        BY DEF TaskStates
      <4>2. job'[r].task = "ended" /\ \A q \in Request \ {r} : job'[q] = job[q]
        BY <3>3, <3>4, <4>1, JobStepFields
      <4>3. request \in [Request -> Requests]
        BY <1>2 DEF TraceInv, Types, TraceTypeOK, Requests, Stages, Accounts, Outcomes
      <4>4. \A q \in Request : request'[q].stage = request[q].stage
        BY <3>2, <4>3 DEF JobCancelled, JobFails, JobEnds, Requests
      <4> QED
        BY <4>2, <4>4
    <3>6. (\A q \in Request : ~Open(q))'
      BY <1>3, <2>4, <3>5 DEF Open
    <3>7. (\A q \in Held : job[q].marked)'
      BY <3>1, <3>5 DEF Held
    <3> QED
      BY <3>6, <3>7
  <2> QED
    BY <1>1, <2>1, <2>3, <2>4
<1>7. ASSUME NEW r \in Request, CancelJob(r) \/ Expire(r)
      PROVE  IInv'
  <2>1. /\ TraceInv'
        /\ \A q \in Request : job[q].status = "gone" => job'[q].status = "gone"
    BY <1>2, <1>7, CancelAndExpireKeep
  <2>2. \E q \in Request : Open(q)
    BY <1>7 DEF CancelJob, Expire, At, Open
  <2>3. answer' = answer /\ phase \notin {"closing", "stopped", "unstarted", "refused", "built"}
    BY <1>2, <1>3, <1>7, <2>2 DEF CancelJob, Expire, Begun, At, Open
  <2> QED
    BY <1>1, <2>1, <2>3
<1> QED
  BY <1>4, <1>5, <1>6, <1>7 DEF Serving

(* Every step keeps the invariant. *)
LEMMA NextKeeps == IInv /\ [Next]_vars => IInv'
<1> SUFFICES ASSUME IInv, [Next]_vars PROVE IInv'
  OBVIOUS
<1>1. CASE UNCHANGED vars
  <2>1. TraceInv'
    BY <1>1, TraceStays DEF IInv, vars
  <2>2. UNCHANGED <<phase, environ, settings, open, request, context, answer, job>>
    BY <1>1 DEF vars, traceVars
  <2>3. TypeOK'
    BY <2>1, <2>2 DEF IInv, TypeOK, TraceInv, Types
  <2> QED
    BY <2>1, <2>2, <2>3 DEF IInv, Begun, Ending, Held, Open, At
<1>2. CASE \E e \in Environment : Main(e)
  BY <1>2, MainKeeps
<1>3. CASE Start \/ StopSignal \/ Close \/ Abort
  BY <1>3, LifespanKeeps
<1>4. CASE \E reached \in SUBSET Request : Shutdown(reached)
  BY <1>4, ShutdownKeeps
<1>5. CASE Serving /\ UNCHANGED processVars
  BY <1>5, ServingKeeps
<1> QED
  BY <1>1, <1>2, <1>3, <1>4, <1>5 DEF Next

(* So the invariant always holds. *)
THEOREM Invariance == Spec => []IInv
<1> QED
  BY Begins, NextKeeps, PTL DEF Spec

-----------------------------------------------------------------------------
(* What follows for every process. *)

(* Every variable has its type. *)
THEOREM TypeCorrect == Spec => []TypeOK
<1>1. IInv => TypeOK
  BY DEF IInv
<1> QED
  BY <1>1, Invariance, PTL

(* Every log record of a request, of its middleware and of its job names   *)
(* the one id of that request, and never another's account; a problem      *)
(* document quotes the id of its header.                                   *)
THEOREM RecordsAreOwn == Spec => []RecordsNameTheirRequest
<1>1. IInv => RecordsNameTheirRequest
  BY RecordsAreNamed DEF IInv
<1> QED
  BY <1>1, Invariance, PTL

(* The status of an answer tells what is behind it, and a job tells it by  *)
(* the same name as a request would.                                       *)
THEOREM FailuresHaveNames == Spec => []FailuresAreNamed
<1>1. IInv => FailuresAreNamed
  BY FailuresTell DEF IInv
<1> QED
  BY <1>1, Invariance, PTL

(* A process that runs has in force what its operator wrote, all of it.    *)
THEOREM RunsAsWritten == Spec => []StartedMeansSound
<1>1. IInv => StartedMeansSound
  BY InForceIsWhatWasWritten DEF IInv, Begun, StartedMeansSound
<1> QED
  BY <1>1, Invariance, PTL

(* Nothing is closed under a request or under a task that is not marked.   *)
THEOREM ClosesWhenNobodyIsLeft == Spec => []ClosedUnderNobody
<1>1. IInv => ClosedUnderNobody
  BY DEF IInv, Ending, ClosedUnderNobody
<1> QED
  BY <1>1, Invariance, PTL

(* Whatever a log call is given, at whatever depth, a record shows what    *)
(* should have been stopped only from within a container that the redactor *)
(* does not look into.                                                     *)
THEOREM DictsAndListsAreRedacted == Spec => []RecordsAreSafe
<1>1. RecordsAreSafe
  BY NothingGetsPast
<1> QED
  BY <1>1, PTL
===============================================================================
