------------------------------- MODULE Service -------------------------------
(***************************************************************************)
(* The process: __main__.py reads the configuration and starts uvicorn,    *)
(* create_app and the lifespan of app.py build and take down what the      *)
(* requests of RequestTrace share, and uvicorn answers the requests that   *)
(* are open before it lets the lifespan end.  JobRunner has the details of *)
(* shutdown(), JobRunner and PlaybackCommand what jobs do; here they meet  *)
(* open requests and the clients that are closed after them.               *)
(***************************************************************************)
EXTENDS Configuration, RequestTrace

CONSTANT Environment   \* the environments the process may be started in

(* Every name in an environment is of one of the kinds of Configuration.   *)
ASSUME ServiceAssumption ==
    \A e \in Environment : DOMAIN e \subseteq Setting \cup Bare \cup Typo \cup Foreign

VARIABLES phase,     \* how far the process has got
          environ,   \* the environment it was started in
          settings,  \* get_settings()
          open       \* the clients that are open

processVars == <<phase, environ, settings, open>>
vars == <<phase, environ, settings, open, traceVars>>

NoEnvironment == [name \in {} |-> "blank"]

Init ==
    /\ phase = "unstarted"
    /\ environ = NoEnvironment /\ settings = NoEnvironment
    /\ open = {}
    /\ TraceInit

-----------------------------------------------------------------------------
(* main() reads the settings, and create_app finds them read: it opens the *)
(* client for keyring's keys and, if a person's settings are read, the one *)
(* for settings-api.                                                       *)
Main(e) ==
    /\ phase = "unstarted"
    /\ environ' = e
    /\ IF Accepts(e)
       THEN /\ phase' = "built"
            /\ settings' = InForce(e)
            /\ open' = {"keys"} \cup IF ReadsSettings(InForce(e)) THEN {"preferences"} ELSE {}
       ELSE phase' = "refused" /\ UNCHANGED <<settings, open>>
    /\ UNCHANGED traceVars

(* The lifespan begins: one HTTP client for Spotify and keyring.           *)
Start ==
    /\ phase = "built" /\ phase' = "serving"
    /\ open' = open \cup {"http"}
    /\ UNCHANGED <<environ, settings, traceVars>>

(* uvicorn is told to stop and takes no more requests. *)
StopSignal ==
    /\ phase = "serving" /\ phase' = "draining"
    /\ UNCHANGED <<environ, settings, open, traceVars>>

(* The tasks that the runner holds. *)
HeldOnceWorking == {r \in Request : job[r].task = "working"}

Held == {r \in Request : job[r].task \in {"created", "working"}}

(* shutdown(): every held task is marked and its job recorded as           *)
(* cancelled, up to the first one whose job has aged out.  That one raises *)
(* out of the lifespan.                                                    *)
ShutdownWaiting(reached) ==
    /\ phase = "draining" /\ Held = {}
    /\ phase' = "closing"
    /\ reached = {}
    /\ UNCHANGED <<environ, settings, open, traceVars>>

Shutdown(reached) ==
    LET reaped == {r \in Held : job[r].status = "gone"} IN
    /\ phase = "draining"
    /\ \A r \in Request : ~Open(r)
    /\ reached \subseteq Held
    /\ IF reaped = {} THEN reached = Held /\ phase' = "closing"
       ELSE /\ \E r \in reaped : reached \cap reaped = {r}
            /\ phase' = "aborting"
    /\ job' = [r \in Request |->
                 IF r \notin reached THEN job[r]
                 ELSE [job[r] EXCEPT !.marked = TRUE,
                                     !.status = IF r \in reaped THEN @ ELSE "cancelled"]]
    /\ UNCHANGED <<environ, settings, open, request, context, answer>>

(* The lifespan closes what create_app opened, each an await of its own,   *)
(* and leaves the block that holds the HTTP client.                        *)
Close ==
    /\ phase = "closing"
    /\ open' = open \ (IF "keys" \in open THEN {"keys"}
                       ELSE IF "preferences" \in open THEN {"preferences"} ELSE {"http"})
    /\ phase' = IF open' = {} THEN "stopped" ELSE "closing"
    /\ UNCHANGED <<environ, settings, traceVars>>

(* On an exception it only leaves that block. *)
Abort ==
    /\ phase = "aborting" /\ phase' = "aborted"
    /\ open' = open \ {"http"}
    /\ UNCHANGED <<environ, settings, traceVars>>

-----------------------------------------------------------------------------

(* Only a deployment that reads a person's settings can miss them. *)
MissesPreferences(r) == ReadsSettings(settings) /\ PreferencesFail(r)

Answering(r) == Handle(r) \/ MissesPreferences(r)

Serving ==
    \/ phase = "serving" /\ \E r \in Request, given \in Id \cup {NoId} : Arrive(r, given)
    \/ \E r \in Request : Answering(r) \/ RunJob(r) \/ CancelJob(r) \/ Expire(r)

Next ==
    \/ \E e \in Environment : Main(e)
    \/ Start
    \/ StopSignal
    \/ \E reached \in SUBSET Request : Shutdown(reached)
    \/ Close
    \/ Abort
    \/ Serving /\ UNCHANGED processVars

Spec == Init /\ [][Next]_vars

(* The event loop brings every request on, for each await in it ends by a  *)
(* timeout of its own, and the lifespan.  Nothing is assumed of callers    *)
(* and operators, nor of jobs, which may take their time.                  *)
Fairness ==
    /\ \A r \in Request : WF_vars(Answering(r) /\ UNCHANGED processVars)
    /\ WF_vars(\E reached \in SUBSET Request : Shutdown(reached))
    /\ WF_vars(Close)
    /\ WF_vars(Abort)

FairSpec == Spec /\ Fairness

-----------------------------------------------------------------------------

(* Every variable has its type. *)
TypeOK ==
    /\ phase \in {"unstarted", "refused", "built", "serving", "draining",
                  "closing", "stopped", "aborting", "aborted"}
    /\ environ \in Environment \cup {NoEnvironment}
    /\ DOMAIN settings \subseteq Setting
    /\ open \subseteq {"http", "keys", "preferences"}
    /\ TraceTypeOK

(* A process that runs was started with nothing of what its operator wrote *)
(* left out: no name that it does not read, no value outside its range, no *)
(* half of a pair; what is in force is what was written.  Only then can a  *)
(* request be told that settings could not be read.                        *)
StartedMeansSound ==
    /\ phase \notin {"unstarted", "refused"} =>
          /\ \A name \in DOMAIN environ \ Foreign :
                \/ name \in DOMAIN settings /\ settings[name] = environ[name]
                \/ name \in BlankIsUnset /\ environ[name] = "blank"
          /\ \A n \in Number \cap DOMAIN settings : settings[n] \in Limits[n]
          /\ ReadsSettings(settings) \/
                {"settings_api_base_url", "settings_api_token"} \cap DOMAIN settings = {}
    /\ \A r \in Request : answer[r].type = "preferences_unavailable" => ReadsSettings(settings)

(* What requests and jobs use is closed under no request and under no task *)
(* that the runner holds: the lifespan starts closing when every request   *)
(* has been answered and every task that is not over is about to be        *)
(* cancelled.  (A lookup that an answered batch left running is neither    *)
(* and may meet a closed client.)  It stops half way only on a job that    *)
(* had aged out, and closes the HTTP client even then.                     *)
ClosedUnderNobody ==
    /\ phase \in {"closing", "stopped"} =>
          /\ \A r \in Request : ~Open(r)
          /\ \A r \in Held : job[r].marked
    /\ phase = "stopped" => open = {}
    /\ phase = "aborted" => "http" \notin open /\ \E r \in Request : job[r].status = "gone"

(* Every request that arrives is answered, a failure nobody expected       *)
(* included, and a process that was told to stop does, however long its    *)
(* jobs would run.                                                         *)
NothingHangs ==
    /\ \A r \in Request : Open(r) ~> At(r, "done")
    /\ phase = "draining" ~> phase \in {"stopped", "aborted"}
===============================================================================
