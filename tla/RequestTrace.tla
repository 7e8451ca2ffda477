----------------------------- MODULE RequestTrace -----------------------------
(***************************************************************************)
(* What can be told of a request afterwards: the answer, the record of the *)
(* job it left behind, and the log records of both.                        *)
(*                                                                         *)
(* A request runs in two tasks.  The outer one is the middleware of        *)
(* api/middleware.py.  It binds the request id and calls the application,  *)
(* which Starlette's BaseHTTPMiddleware runs in a task of its own, the     *)
(* inner one: there the token is checked, the work is done and exceptions  *)
(* become problem documents (api/errors.py).  With ?async=true the inner   *)
(* task leaves a third behind, the job.                                    *)
(*                                                                         *)
(* The request id and the account are context variables (context.py).  A   *)
(* task has a copy of the context it was created in: what it binds later   *)
(* is seen by the tasks it creates from then on and by no other.  Every    *)
(* record takes both from the context of the task that writes it, and is   *)
(* redacted before it is rendered (logging.py).                            *)
(*                                                                         *)
(* A step ends at an await.  Work is abstract: it returns, or fails for    *)
(* one of the causes of Failures.                                          *)
(* Operators named for what they get wrong are faulty variants.            *)
(***************************************************************************)
EXTENDS Integers, Sequences, Failures

CONSTANTS Request,   \* requests, each also the fresh id that it may be given
          Id,        \* usable values of the X-Request-ID header
          NoId,      \* no request id is bound, or written
          Caller,    \* Caller[r]: the account that the token of r is for
          NoAccount, \* no account is bound
          Fails,     \* what keyring or Spotify may do to the work of a request
          Field,     \* fields a log call may pass; see Survives
          MaxDepth   \* MAX_REDACTION_DEPTH

ASSUME RequestTraceAssumption ==
    /\ Request \cap Id = {} /\ NoId \notin Request \cup Id
    /\ Request = DOMAIN Caller
    /\ \A r \in Request : Caller[r] # NoAccount
    /\ Fails \subseteq Cause
    /\ MaxDepth \in Nat
    /\ Field \subseteq Seq({"name", "secret", "odd", "item", "other"})
    /\ \A field \in Field : field # <<>> /\ field[1] \in {"name", "secret"}

VARIABLES request,  \* request[r]: stage; what id it gave; whose token was
                    \* verified and what became of its work (both history)
          context,  \* context[t]: the context variables of a task
          answer,   \* answer[r]: the response
          job       \* job[r]: the task and the record of the job r left behind

traceVars == <<request, context, answer, job>>

Task == {"outer", "inner", "job"} \X Request

Unbound == [id |-> NoId, account |-> NoAccount]

NoAnswer == [code |-> 0, type |-> "none", id |-> NoId, body |-> NoId, says |-> "none"]

NoJob == [task |-> "none", status |-> "none", error |-> "none", marked |-> FALSE]

TraceInit ==
    /\ request = [r \in Request |-> [stage |-> "none", gave |-> NoId,
                                     account |-> NoAccount, outcome |-> "none"]]
    /\ context = [t \in Task |-> Unbound]
    /\ answer = [r \in Request |-> NoAnswer]
    /\ job = [r \in Request |-> NoJob]

-----------------------------------------------------------------------------
(* The stages of a request.                                                *)

Open(r) == request[r].stage \notin {"none", "done"}

At(r, stage) == request[r].stage = stage

Stage(r, stage) == request' = [request EXCEPT ![r].stage = stage]

(* _resolve_request_id: the caller's id if it is usable, or a fresh one.   *)
Effective(r, given) == IF given \in Id THEN given ELSE r

(* dispatch binds the id and calls the application in a task of its own.   *)
Arrive(r, given) ==
    /\ At(r, "none")
    /\ request' = [request EXCEPT ![r].stage = "routing", ![r].gave = given]
    /\ context' = [t \in Task |-> IF t \in {<<"outer", r>>, <<"inner", r>>}
                                  THEN [id |-> Effective(r, given), account |-> NoAccount]
                                  ELSE context[t]]
    /\ UNCHANGED <<answer, job>>

(* problem_response, in task t: it carries the id bound there.             *)
Problem(t, code, type, says) ==
    [code |-> code, type |-> type, id |-> NoId, body |-> context[t].id, says |-> says]

Body(code) == [NoAnswer EXCEPT !.code = code]

(* The inner task ends with a response; the outer one goes on with it.     *)
Respond(r, response, outcome) ==
    /\ request' = [request EXCEPT ![r].stage = "answered", ![r].outcome = outcome]
    /\ answer' = [answer EXCEPT ![r] = response]

(* An exception of the inner task: one with a handler becomes a problem    *)
(* document there, any other ends the task and reaches the middleware.     *)
Raise(r, e, why) ==
    IF e \in DOMAIN Status
    THEN /\ Respond(r, Problem(<<"inner", r>>, Status[e], e, "message"), why)
         /\ UNCHANGED <<context, job>>
    ELSE /\ request' = [request EXCEPT ![r].stage = "broken", ![r].outcome = why]
         /\ UNCHANGED <<context, answer, job>>

(* An unknown path, a method the route does not take, a body that is no    *)
(* JSON, or, once the token has been checked, one that does not validate.  *)
Unacceptable(r) ==
    /\ At(r, "routing") \/ At(r, "preparing")
    /\ \E p \in (IF At(r, "routing") THEN {<<404, "not-found">>, <<405, "method-not-allowed">>}
                 ELSE {}) \cup {<<422, "validation-failed">>} :
          Respond(r, Problem(<<"inner", r>>, p[1], p[2], "message"), "invalid")
    /\ UNCHANGED <<context, job>>

(* /healthy, and /ready with what check_health found; neither asks who.    *)
Probe(r, up) ==
    /\ At(r, "routing")
    /\ Respond(r, Body(IF up THEN 200 ELSE 503), IF up THEN "ok" ELSE "not_ready")
    /\ UNCHANGED <<context, job>>

(* get_user_context: no token, one that is refused, or keys out of reach.  *)
NotVerified(r) ==
    /\ At(r, "routing")
    /\ \E e \in {"user_token_rejected", "keyring_unavailable"} : Raise(r, e, e)

(* The account is bound in the inner task. *)
Verified(r) ==
    /\ At(r, "routing")
    /\ request' = [request EXCEPT ![r].stage = "preparing", ![r].account = Caller[r]]
    /\ context' = [context EXCEPT ![<<"inner", r>>].account = Caller[r]]
    /\ UNCHANGED <<answer, job>>

PreferencesFail(r) ==
    At(r, "preparing") /\ Raise(r, "preferences_unavailable", "preferences_unavailable")

Prepared(r) ==
    /\ At(r, "preparing") /\ Stage(r, "working")
    /\ UNCHANGED <<context, answer, job>>

WorkSucceeds(r) ==
    /\ At(r, "working")
    /\ Respond(r, Body(200), "ok")
    /\ UNCHANGED <<context, job>>

WorkFails(r) == At(r, "working") /\ \E why \in Fails : Raise(r, ErrorOf(why), why)

(* What a task inherits from the one that creates it. *)
InheritsNothing(t) == [id |-> NoId, account |-> context[t].account]

Inherits(t) == context[t]

(* run_or_submit with ?async=true: the job's task copies this context.     *)
Submit(r) ==
    /\ At(r, "working")
    /\ Respond(r, Body(202), "accepted")
    /\ context' = [context EXCEPT ![<<"job", r>>] = Inherits(<<"inner", r>>)]
    /\ job' = [job EXCEPT ![r].task = "created", ![r].status = "pending"]

(* Back in the outer task: one completion record, and the id as a header.  *)
Complete(r) ==
    /\ At(r, "answered") /\ Stage(r, "done")
    /\ answer' = [answer EXCEPT ![r].id = context[<<"outer", r>>].id]
    /\ UNCHANGED <<context, job>>

(* dispatch's except: a 500 that says nothing, while the id is still bound. *)
Recover(r) ==
    LET outer == <<"outer", r>> IN
    /\ At(r, "broken") /\ Stage(r, "done")
    /\ answer' = [answer EXCEPT
          ![r] = [Problem(outer, 500, "internal-server-error", "withheld")
                    EXCEPT !.id = context[outer].id]]
    /\ UNCHANGED <<context, job>>

-----------------------------------------------------------------------------
(* The job, in its task: JobRunner._run.  A job that has aged out of the   *)
(* store stays gone, whatever becomes of its task.                         *)

JobStep(r, from, to, status, error) ==
    /\ job[r].task = from
    /\ job' = [job EXCEPT ![r].task = to, ![r].marked = FALSE,
                          ![r].status = IF @ = "gone" THEN @ ELSE status,
                          ![r].error = IF job[r].status = "gone" THEN @ ELSE error]
    /\ UNCHANGED <<context, answer>>

(* A marked task takes no step in which nothing is raised inside it. *)
MayRun(r) == ~job[r].marked

JobStarts(r) ==
    /\ MayRun(r)
    /\ JobStep(r, "created", IF job[r].status = "gone" THEN "ended" ELSE "working",
               "running", "none")
    /\ UNCHANGED request

JobEnds(r, status, error, outcome) ==
    /\ JobStep(r, "working", "ended", status, error)
    /\ request' = [request EXCEPT ![r].outcome = outcome]

JobSucceeds(r) == MayRun(r) /\ JobEnds(r, "succeeded", "none", "ok")

(* A ServiceError by its name, anything else opaquely; in a marked task    *)
(* too, if gather() already had the failure (JobRunner has when).          *)
JobFails(r) ==
    \E why \in Fails :
       JobEnds(r, "failed", IF ErrorOf(why) \in ServiceError THEN ErrorOf(why)
                            ELSE "internal_error", why)

(* CancelledError, on either side of its start. *)
JobCancelled(r) ==
    /\ job[r].marked
    /\ JobStep(r, job[r].task, "ended", job[r].status, job[r].error)
    /\ UNCHANGED request

(* A request deletes it, marking its task; JobRunner has whose may.        *)
CancelJob(r) ==
    /\ \E q \in Request : At(q, "working")
    /\ job[r].status \in {"pending", "running"}
    /\ job' = [job EXCEPT ![r].marked = TRUE, ![r].status = "cancelled"]
    /\ UNCHANGED <<request, context, answer>>

(* A request that calls the store reaps it, with every other that is old.  *)
Expire(r) ==
    /\ job[r].status \notin {"none", "gone"}
    /\ \E q \in Request : At(q, "working")
    /\ job' = [job EXCEPT ![r].status = "gone", ![r].error = "none"]
    /\ UNCHANGED <<request, context, answer>>

-----------------------------------------------------------------------------
(* Log records.  Nothing reads them back, so they are a view of the state: *)
(* what each task may write in its next step.                              *)

(* A field of a log call is the path to one of its values: the field's own *)
(* name, then a step into each container around the value.  A step into a  *)
(* dict is a name, a name of a secret or a key that is no string; one into *)
(* a list is an item; one into anything else that holds values, a tuple or *)
(* a dataclass, is other.                                                  *)
SurvivesAtTop(field) == field[1] # "secret"

(* _redact_value and _redact_container: the walk stops at a secret's name, *)
(* at a key that is no string and at a dict or list more than MaxDepth     *)
(* down.  Any other container is left as it is, with all that is in it.    *)
Survives(field) ==
    LET walk[i \in 1..Len(field) + 1] ==
          IF i > Len(field) \/ field[i] = "other" THEN TRUE
          ELSE IF i > MaxDepth + 1 \/ field[i] \in {"secret", "odd"} THEN FALSE
          ELSE walk[i + 1]
    IN  walk[1]

Shown == {field \in Field : Survives(field)}

(* The application and a job write what they like along the way; the       *)
(* middleware when the request is over.                                    *)
Writes(t) ==
    CASE t[1] = "outer" -> request[t[2]].stage \in {"answered", "broken"}
      [] t[1] = "inner" -> request[t[2]].stage \in {"routing", "preparing", "working"}
      [] t[1] = "job"   -> job[t[2]].task = "working"

Record(t, shows) ==
    [by |-> t[1], of |-> t[2], shows |-> shows,
     id |-> context[t].id, account |-> context[t].account]

Records == {Record(t, shows) : t \in {t \in Task : Writes(t)}, shows \in Shown}

-----------------------------------------------------------------------------

(* What brings a request on, once it has arrived. *)
Handle(r) ==
    \/ Unacceptable(r)
    \/ \E up \in BOOLEAN : Probe(r, up)
    \/ NotVerified(r)
    \/ Verified(r) \/ Prepared(r)
    \/ WorkSucceeds(r) \/ WorkFails(r) \/ Submit(r)
    \/ Complete(r) \/ Recover(r)

(* What becomes of its job. *)
RunJob(r) ==
    \/ JobStarts(r) \/ JobSucceeds(r) \/ JobFails(r) \/ JobCancelled(r)

TraceTypeOK ==
    /\ request \in [Request -> [stage   : {"none", "routing", "preparing", "working",
                                           "answered", "broken", "done"},
                                gave    : Id \cup {NoId},
                                account : {Caller[r] : r \in Request} \cup {NoAccount},
                                outcome : {"none", "ok", "accepted", "invalid", "not_ready"}
                                             \cup ServiceError \cup Cause]]
    /\ context \in [Task -> [id      : Id \cup Request \cup {NoId},
                             account : {Caller[r] : r \in Request} \cup {NoAccount}]]
    /\ \A r \in Request : job[r].marked => job[r].task \in {"created", "working"}

(* Every log record of a request carries the one id that its answer names, *)
(* the caller's own if that was usable, and never another's account.  From *)
(* the moment the token has been verified the application and the job      *)
(* write the account too, long after the request was answered and whoever  *)
(* else has called since.  A problem document quotes the id of its header. *)
RecordsNameTheirRequest ==
    /\ \A l \in Records :
          /\ l.id = Effective(l.of, request[l.of].gave)
          /\ l.account \in {NoAccount, request[l.of].account}
          /\ l.by # "outer" => l.account = request[l.of].account
    /\ \A r \in Request : At(r, "done") =>
          /\ answer[r].id = Effective(r, request[r].gave)
          /\ answer[r].type # "none" => answer[r].body = answer[r].id

(* The status of an answer tells what can be done about the failure behind *)
(* it, whatever keyring or Spotify did.  A failure has one name, whether   *)
(* the work ran in a request or in a job.  One that nobody foresaw is a    *)
(* failure too, and neither of them quotes it.  Success is nothing else.   *)
FailuresAreNamed ==
    /\ \A why \in Cause : ErrorOf(why) \in DOMAIN Status => Status[ErrorOf(why)] = Remedy(why)
    /\ \A r \in Request :
          LET what == request[r].outcome
              answered == At(r, "done") /\ job[r].task = "none"
              kept == job[r].task = "ended" /\ job[r].status \in {"succeeded", "failed"}
          IN  /\ answered =>
                    /\ what = "ok" <=> answer[r].code = 200
                    /\ what \in ServiceError => answer[r].type = what
                    /\ what \in Cause => answer[r].code = Remedy(what)
                    /\ answer[r].code = 500 => answer[r].says = "withheld"
              /\ kept =>
                    /\ what = "ok" <=> job[r].status = "succeeded"
                    /\ what \in Cause /\ Remedy(what) = 500 => job[r].error = "internal_error"
              /\ \A q \in Request :
                    /\ kept /\ At(q, "done") /\ job[q].task = "none"
                    /\ what \in Cause /\ request[q].outcome = what /\ Remedy(what) # 500
                    => answer[q].type = job[r].error

(* What a record shows behind a secret's name or a key that is no string,  *)
(* or deeper than the redactor looks, was inside a container that is       *)
(* neither dict nor list: within dicts and lists nothing gets past it.     *)
RecordsAreSafe ==
    \A l \in Records : \A i \in DOMAIN l.shows :
        l.shows[i] \in {"secret", "odd"} \/ i > MaxDepth + 1 =>
            \E k \in 1..i : l.shows[k] = "other"

(* "so every log record the rest of the request produces says whose        *)
(* request it was" (api/dependencies.py:167).                              *)
RecordsNameTheAccount == \A l \in Records : l.account = request[l.of].account
===============================================================================
