-------------------------- MODULE RequestTraceProofs --------------------------
(***************************************************************************)
(* Proofs about RequestTrace, for any requests, ids and accounts, whatever *)
(* keyring and Spotify do: what every step of a request and of its job     *)
(* keeps.  RequestTrace has no specification of its own; ServiceProofs     *)
(* makes theorems of these lemmas.                                         *)
(***************************************************************************)
EXTENDS RequestTrace, Induction

USE RequestTraceAssumption

(* The values that the fields of a request, an answer and a job may have. *)
AnyId == Id \cup Request \cup {NoId}

Stages == {"none", "routing", "preparing", "working", "answered", "broken", "done"}

Outcomes == {"none", "ok", "accepted", "invalid", "not_ready"} \cup ServiceError \cup Cause

Accounts == {Caller[r] : r \in Request} \cup {NoAccount}

Requests == [stage : Stages, gave : Id \cup {NoId}, account : Accounts, outcome : Outcomes]

Kinds ==
    ServiceError \cup {"none", "not-found", "method-not-allowed", "validation-failed",
                      "internal-server-error"}

Says == {"none", "message", "withheld"}

Responses ==
    [code : Nat,
     type : Kinds,
     id   : AnyId,
     body : AnyId,
     says : Says]

TaskStates == {"none", "created", "working", "ended"}

Statuses == {"none", "pending", "running", "succeeded", "failed", "cancelled", "gone"}

JobErrors == ServiceError \cup {"none", "internal_error"}

Jobs == [task : TaskStates, status : Statuses, error : JobErrors, marked : BOOLEAN]

(* Every variable has its type: TraceTypeOK with the answers and the jobs. *)
Types ==
    /\ TraceTypeOK
    /\ answer \in [Request -> Responses]
    /\ job \in [Request -> Jobs]

(* What is bound in the tasks of a request, from the step that creates     *)
(* them, and what its answer takes from there.                             *)
Bound(r) ==
    LET name == Effective(r, request[r].gave) IN
    /\ At(r, "none") => request[r].account = NoAccount /\ answer[r].type = "none"
    /\ ~At(r, "none") =>
          /\ context[<<"outer", r>>].id = name /\ context[<<"outer", r>>].account = NoAccount
          /\ context[<<"inner", r>>].id = name
          /\ context[<<"inner", r>>].account = request[r].account
    /\ job[r].task # "none" =>
          /\ context[<<"job", r>>].id = name
          /\ context[<<"job", r>>].account = request[r].account
    /\ At(r, "done") => answer[r].id = name
    /\ answer[r].type # "none" => answer[r].body = name

(* The record of a job begins and ends with its task, as far as it is not  *)
(* overtaken by a deletion or by old age.                                  *)
JobsFollowTasks(r) ==
    /\ job[r].task # "none" => At(r, "answered") \/ At(r, "done")
    /\ job[r].task = "none" <=> job[r].status = "none"
    /\ job[r].task = "created" => job[r].status \in {"pending", "cancelled", "gone"}
    /\ job[r].task = "working" => job[r].status \in {"running", "cancelled", "gone"}
    /\ job[r].task = "ended" => job[r].status \notin {"pending", "running"}
    /\ job[r].marked =>
          job[r].task \in {"created", "working"} /\ job[r].status \in {"cancelled", "gone"}

(* A failure and the answer that was made of it, before and after the      *)
(* outer task has had its turn.                                            *)
AnswersTellTheOutcome(r) ==
    LET what == request[r].outcome IN
    /\ (At(r, "answered") \/ At(r, "done")) /\ job[r].task = "none" =>
          /\ what = "ok" <=> answer[r].code = 200
          /\ what \in ServiceError => answer[r].type = what
          /\ what \in Cause => /\ answer[r].code = Remedy(what)
                               /\ Remedy(what) # 500 => answer[r].type = ErrorOf(what)
          /\ answer[r].code = 500 => answer[r].says = "withheld"
    /\ At(r, "broken") => what \in Cause /\ Remedy(what) = 500

(* The same of a job that ran to its end. *)
JobsTellTheOutcome(r) ==
    LET what == request[r].outcome IN
    job[r].task = "ended" /\ job[r].status \in {"succeeded", "failed"} =>
       /\ what = "ok" <=> job[r].status = "succeeded"
       /\ what \in Cause =>
             job[r].error = IF Remedy(what) = 500 THEN "internal_error" ELSE ErrorOf(what)

(* What is known of one request. *)
RequestInv(r) ==
    Bound(r) /\ JobsFollowTasks(r) /\ AnswersTellTheOutcome(r) /\ JobsTellTheOutcome(r)

(* What every step of every request keeps. *)
TraceInv == Types /\ \A r \in Request : RequestInv(r)
-----------------------------------------------------------------------------
(* Failures. *)

(* Only what has a name has a status, and no status is that of success or  *)
(* of the unforeseen.                                                      *)
LEMMA StatusTable ==
    /\ DOMAIN Status \subseteq ServiceError
    /\ "broken" \notin DOMAIN Status
    /\ \A e \in DOMAIN Status : Status[e] \in Nat \ {200, 500}
    /\ {"user_token_rejected", "keyring_unavailable", "preferences_unavailable"}
           \subseteq DOMAIN Status
  BY DEF Status, ServiceError

(* Every cause is answered as its remedy asks, or broken and unforeseen.   *)
LEMMA FailureTable ==
    ASSUME NEW why \in Cause
    PROVE  /\ why \notin ServiceError
           /\ why \notin {"none", "ok", "accepted", "invalid", "not_ready"}
           /\ \/ ErrorOf(why) = "broken" /\ Remedy(why) = 500
              \/ /\ ErrorOf(why) \in DOMAIN Status
                 /\ ErrorOf(why) # "preferences_unavailable"
                 /\ Status[ErrorOf(why)] = Remedy(why)
<1>1. CASE why \in DOMAIN KeyringError
  BY <1>1 DEF KeyringError, SpotifyError, ErrorOf, Remedy, Status, ServiceError
<1>2. CASE why \in DOMAIN SpotifyError
  BY <1>2 DEF KeyringError, SpotifyError, ErrorOf, Remedy, Status, ServiceError
<1>3. CASE why = "unforeseen"
  BY <1>3 DEF KeyringError, SpotifyError, ErrorOf, Remedy, Status, ServiceError
<1> QED
  BY <1>1, <1>2, <1>3 DEF Cause

-----------------------------------------------------------------------------
(* Types. *)

LEMMA TaskIs ==
    /\ \A r \in Request : <<"outer", r>> \in Task /\ <<"inner", r>> \in Task /\ <<"job", r>> \in Task
    /\ \A t \in Task : t = <<t[1], t[2]>> /\ t[1] \in {"outer", "inner", "job"} /\ t[2] \in Request
  BY DEF Task

(* One field of a request at a time. *)
LEMMA RequestField ==
    ASSUME NEW f \in [Request -> Requests], NEW r \in Request
    PROVE  /\ \A x \in Stages : [f EXCEPT ![r].stage = x] \in [Request -> Requests]
           /\ \A x \in Id \cup {NoId} : [f EXCEPT ![r].gave = x] \in [Request -> Requests]
           /\ \A x \in Accounts : [f EXCEPT ![r].account = x] \in [Request -> Requests]
           /\ \A x \in Outcomes : [f EXCEPT ![r].outcome = x] \in [Request -> Requests]
  BY DEF Requests

(* What the steps of a request change of it. *)
LEMMA RequestFields ==
    ASSUME request \in [Request -> Requests], NEW r \in Request, NEW s \in Stages
    PROVE  /\ \A x \in Id \cup {NoId} :
                 [request EXCEPT ![r].stage = s, ![r].gave = x] \in [Request -> Requests]
           /\ \A x \in Accounts :
                 [request EXCEPT ![r].stage = s, ![r].account = x] \in [Request -> Requests]
           /\ \A x \in Outcomes :
                 [request EXCEPT ![r].stage = s, ![r].outcome = x] \in [Request -> Requests]
<1> DEFINE f == [request EXCEPT ![r].stage = s]
<1>1. f \in [Request -> Requests]
  BY RequestField
<1> HIDE DEF f
<1>2. /\ \A x \in Id \cup {NoId} : [f EXCEPT ![r].gave = x] \in [Request -> Requests]
      /\ \A x \in Accounts : [f EXCEPT ![r].account = x] \in [Request -> Requests]
      /\ \A x \in Outcomes : [f EXCEPT ![r].outcome = x] \in [Request -> Requests]
  BY <1>1, RequestField
<1> QED
  BY <1>2 DEF f

(* One field of a job at a time. *)
LEMMA JobField ==
    ASSUME NEW f \in [Request -> Jobs], NEW r \in Request
    PROVE  /\ \A x \in TaskStates : [f EXCEPT ![r].task = x] \in [Request -> Jobs]
           /\ \A x \in Statuses : [f EXCEPT ![r].status = x] \in [Request -> Jobs]
           /\ \A x \in JobErrors : [f EXCEPT ![r].error = x] \in [Request -> Jobs]
           /\ \A x \in BOOLEAN : [f EXCEPT ![r].marked = x] \in [Request -> Jobs]
  BY DEF Jobs

(* What Submit, CancelJob and Expire make of a job. *)
LEMMA JobFields ==
    ASSUME job \in [Request -> Jobs], NEW r \in Request,
           NEW task \in TaskStates, NEW status \in Statuses, NEW error \in JobErrors
    PROVE  /\ [job EXCEPT ![r].task = task, ![r].status = status] \in [Request -> Jobs]
           /\ [job EXCEPT ![r].marked = TRUE, ![r].status = status] \in [Request -> Jobs]
           /\ [job EXCEPT ![r].status = status, ![r].error = error] \in [Request -> Jobs]
<1> DEFINE f == [job EXCEPT ![r].task = task]
           m == [job EXCEPT ![r].marked = TRUE]
           n == [job EXCEPT ![r].status = status]
<1>1. f \in [Request -> Jobs] /\ m \in [Request -> Jobs] /\ n \in [Request -> Jobs]
  BY JobField
<1> HIDE DEF f, m, n
<1>2. /\ [f EXCEPT ![r].status = status] \in [Request -> Jobs]
      /\ [m EXCEPT ![r].status = status] \in [Request -> Jobs]
      /\ [n EXCEPT ![r].error = error] \in [Request -> Jobs]
  BY <1>1, JobField
<1> QED
  BY <1>2 DEF f, m, n

(* The responses that the steps give. *)
LEMMA ResponseType ==
    ASSUME Types, NEW t \in Task, NEW code \in Nat,
           NEW type \in Kinds, NEW says \in Says
    PROVE  /\ Problem(t, code, type, says) \in Responses
           /\ Problem(t, code, type, says).code = code
           /\ Problem(t, code, type, says).type = type
           /\ Problem(t, code, type, says).body = context[t].id
           /\ Problem(t, code, type, says).says = says
           /\ [Problem(t, code, type, says) EXCEPT !.id = context[t].id] \in Responses
<1>1. context[t].id \in AnyId
  BY DEF Types, TraceTypeOK, AnyId
<1> QED
  BY <1>1 DEF Problem, Responses, AnyId, Kinds

(* A response that is no problem document. *)
LEMMA BodyType ==
    ASSUME NEW code \in Nat
    PROVE  /\ Body(code) \in Responses
           /\ Body(code).code = code /\ Body(code).type = "none" /\ Body(code).says = "none"
<1>1. Body(code) = [code |-> code, type |-> "none", id |-> NoId, body |-> NoId, says |-> "none"]
  BY DEF Body, NoAnswer
<1> QED
  BY <1>1 DEF Responses, AnyId, Kinds, Says

-----------------------------------------------------------------------------
(* Steps. *)

(* A step that leaves a request alone keeps what is known of it. *)
LEMMA Frame ==
    ASSUME NEW q \in Request, RequestInv(q),
           request'[q] = request[q], answer'[q] = answer[q], job'[q] = job[q],
           context'[<<"outer", q>>] = context[<<"outer", q>>],
           context'[<<"inner", q>>] = context[<<"inner", q>>],
           context'[<<"job", q>>] = context[<<"job", q>>]
    PROVE  RequestInv(q)'
  BY DEF RequestInv, Bound, JobsFollowTasks, AnswersTellTheOutcome, JobsTellTheOutcome, At,
         Effective

(* What the inner task may tell of an outcome. *)
Tells(response, outcome) ==
    /\ outcome = "ok" <=> response.code = 200
    /\ outcome \in ServiceError => response.type = outcome
    /\ outcome \in Cause => /\ response.code = Remedy(outcome)
                            /\ Remedy(outcome) # 500 => response.type = ErrorOf(outcome)
    /\ response.code # 500

(* The inner task ends with an answer that tells its outcome. *)
LEMMA RespondKeeps ==
    ASSUME TraceInv, NEW r \in Request, NEW response \in Responses, NEW outcome \in Outcomes,
           At(r, "routing") \/ At(r, "preparing") \/ At(r, "working"),
           Respond(r, response, outcome), UNCHANGED <<context, job>>,
           response.type # "none" => response.body = context[<<"inner", r>>].id,
           Tells(response, outcome)
    PROVE  TraceInv' /\ answer' = [answer EXCEPT ![r] = response]
<1>1. request \in [Request -> Requests] /\ Types /\ RequestInv(r) /\ \A q \in Request : RequestInv(q)
  BY DEF TraceInv, Types, TraceTypeOK, Requests, Stages, Accounts, Outcomes
<1>2. /\ request' = [request EXCEPT ![r].stage = "answered", ![r].outcome = outcome]
      /\ answer' = [answer EXCEPT ![r] = response]
  BY DEF Respond
<1>3. request' \in [Request -> Requests]
  BY <1>1, <1>2, RequestFields DEF Stages
<1>4. Types'
  <2>1. answer' \in [Request -> Responses]
    BY <1>1, <1>2 DEF Types
  <2> QED
    BY <1>1, <1>3, <2>1 DEF Types, TraceTypeOK, Requests, Stages, Accounts, Outcomes
<1>5. ASSUME NEW q \in Request, q # r
      PROVE  RequestInv(q)'
  <2>1. request'[q] = request[q] /\ answer'[q] = answer[q]
    BY <1>1, <1>2, <1>5 DEF Types
  <2> QED
    BY <1>1, <1>5, <2>1, Frame
<1>6. RequestInv(r)'
  <2>1. /\ request'[r].stage = "answered" /\ request'[r].outcome = outcome
        /\ request'[r].gave = request[r].gave /\ request'[r].account = request[r].account
        /\ answer'[r] = response
    BY <1>1, <1>2 DEF Types, Requests
  <2>2. job[r].task = "none" /\ job'[r] = job[r] /\ context' = context
    BY <1>1 DEF RequestInv, JobsFollowTasks, At
  <2>3. Bound(r)'
    BY <1>1, <2>1, <2>2 DEF RequestInv, Bound, At, Effective
  <2>4. JobsFollowTasks(r)' /\ JobsTellTheOutcome(r)'
    BY <1>1, <2>1, <2>2 DEF RequestInv, JobsFollowTasks, JobsTellTheOutcome, At
  <2>5. AnswersTellTheOutcome(r)'
    BY <2>1, <2>2 DEF AnswersTellTheOutcome, Tells, At
  <2> QED
    BY <2>3, <2>4, <2>5 DEF RequestInv
<1> QED
  BY <1>2, <1>4, <1>5, <1>6 DEF TraceInv

(* So does one that a step of the request raises. *)
LEMMA RaiseKeeps ==
    ASSUME TraceInv, NEW r \in Request, NEW why \in ServiceError \cup Cause, NEW e,
           At(r, "routing") \/ At(r, "preparing") \/ At(r, "working"),
           Raise(r, e, why),
           (why \in Cause /\ e = ErrorOf(why)) \/ (why \in DOMAIN Status /\ e = why)
    PROVE  /\ TraceInv'
           /\ \A q \in Request : answer'[q].type = "preferences_unavailable" =>
                 answer[q].type = "preferences_unavailable" \/ why = "preferences_unavailable"
<1>1. request \in [Request -> Requests] /\ Types /\ RequestInv(r) /\ \A q \in Request : RequestInv(q)
  BY DEF TraceInv, Types, TraceTypeOK, Requests, Stages, Accounts, Outcomes
<1>2. CASE e \in DOMAIN Status
  <2> DEFINE p == Problem(<<"inner", r>>, Status[e], e, "message")
  <2>1. Respond(r, p, why) /\ UNCHANGED <<context, job>>
    BY <1>2 DEF Raise
  <2>2. /\ p \in Responses /\ p.code = Status[e] /\ p.type = e
        /\ p.body = context[<<"inner", r>>].id
    <3>1. <<"inner", r>> \in Task
      BY TaskIs
    <3>2. Status[e] \in Nat /\ e \in Kinds /\ "message" \in Says
      BY <1>2, StatusTable DEF Kinds, Says
    <3>3. context[<<"inner", r>>].id \in AnyId
      BY <1>1, <3>1 DEF Types, TraceTypeOK, AnyId
    <3> QED
      BY <3>2, <3>3 DEF Problem, Responses, AnyId
  <2>3. Tells(p, why)
    <3> HIDE DEF p
    <3>1. CASE why \in Cause /\ e = ErrorOf(why)
      BY <1>2, <2>2, <3>1, StatusTable, FailureTable DEF Tells
    <3>2. CASE why \in DOMAIN Status /\ e = why
      <4>1. why \in ServiceError /\ why \notin Cause /\ why # "ok"
        BY <3>2, StatusTable, FailureTable DEF ServiceError
      <4> QED
        BY <1>2, <2>2, <3>2, <4>1, StatusTable DEF Tells
    <3> QED
      BY <3>1, <3>2
  <2>4. TraceInv' /\ answer' = [answer EXCEPT ![r] = p]
    <3> HIDE DEF p
    <3> QED
      BY <2>1, <2>2, <2>3, RespondKeeps DEF Outcomes
  <2>5. why # "preferences_unavailable" => p.type # "preferences_unavailable"
    BY <2>2, FailureTable
  <2> HIDE DEF p
  <2> QED
    BY <1>1, <2>4, <2>5 DEF Types
<1>3. CASE e \notin DOMAIN Status
  <2>1. /\ request' = [request EXCEPT ![r].stage = "broken", ![r].outcome = why]
        /\ UNCHANGED <<context, answer, job>>
    BY <1>3 DEF Raise
  <2>2. why \in Cause /\ Remedy(why) = 500
    BY <1>3, FailureTable
  <2>3. Types'
    <3>1. request' \in [Request -> Requests]
      BY <1>1, <2>1, RequestFields DEF Stages, Outcomes
    <3> QED
      BY <1>1, <2>1, <3>1 DEF Types, TraceTypeOK, Requests, Stages, Accounts, Outcomes
  <2>4. ASSUME NEW q \in Request, q # r
        PROVE  RequestInv(q)'
    <3>1. request'[q] = request[q]
      BY <1>1, <2>1, <2>4
    <3> QED
      BY <1>1, <2>1, <2>4, <3>1, Frame
  <2>5. RequestInv(r)'
    <3>1. /\ request'[r].stage = "broken" /\ request'[r].outcome = why
          /\ request'[r].gave = request[r].gave /\ request'[r].account = request[r].account
      BY <1>1, <2>1 DEF Requests
    <3> QED
      BY <1>1, <2>1, <2>2, <3>1 DEF RequestInv, Bound, JobsFollowTasks, AnswersTellTheOutcome,
                                    JobsTellTheOutcome, At, Effective
  <2> QED
    BY <2>1, <2>3, <2>4, <2>5 DEF TraceInv
<1> QED
  BY <1>2, <1>3

(* The steps that answer at once. *)
LEMMA AnswerKeeps ==
    ASSUME TraceInv, NEW r \in Request,
           \/ Unacceptable(r)
           \/ \E up \in BOOLEAN : Probe(r, up)
           \/ WorkSucceeds(r)
    PROVE  /\ TraceInv'
           /\ \A q \in Request : answer'[q].type = "preferences_unavailable" =>
                 answer[q].type = "preferences_unavailable"
<1>1. Types /\ <<"inner", r>> \in Task
  BY TaskIs DEF TraceInv
<1>2. ASSUME NEW code \in {404, 405, 422},
             NEW type \in {"not-found", "method-not-allowed", "validation-failed"},
             At(r, "routing") \/ At(r, "preparing"),
             Respond(r, Problem(<<"inner", r>>, code, type, "message"), "invalid"),
             UNCHANGED <<context, job>>
      PROVE  /\ TraceInv'
             /\ \A q \in Request : answer'[q].type = "preferences_unavailable" =>
                   answer[q].type = "preferences_unavailable"
  <2> DEFINE p == Problem(<<"inner", r>>, code, type, "message")
  <2>1. /\ p \in Responses /\ p.code = code /\ p.type = type
        /\ p.body = context[<<"inner", r>>].id
    <3>1. code \in Nat /\ type \in Kinds /\ "message" \in Says
      BY DEF Kinds, Says
    <3>2. context[<<"inner", r>>].id \in AnyId
      BY <1>1 DEF Types, TraceTypeOK, AnyId
    <3> QED
      BY <3>1, <3>2 DEF Problem, Responses, AnyId
  <2>2. Respond(r, p, "invalid")
    BY <1>2
  <2> HIDE DEF p
  <2>3. "invalid" \notin ServiceError \cup Cause /\ "invalid" \in Outcomes
    BY FailureTable DEF ServiceError, Outcomes
  <2>4. Tells(p, "invalid")
    BY <2>1, <2>3 DEF Tells
  <2>5. TraceInv' /\ answer' = [answer EXCEPT ![r] = p]
    BY <1>2, <2>1, <2>2, <2>3, <2>4, RespondKeeps
  <2> QED
    BY <1>1, <2>1, <2>5 DEF Types
<1>3. ASSUME NEW code \in {200, 503}, NEW outcome \in {"ok", "not_ready"},
             outcome = "ok" <=> code = 200,
             At(r, "routing") \/ At(r, "working"),
             Respond(r, Body(code), outcome), UNCHANGED <<context, job>>
      PROVE  /\ TraceInv'
             /\ \A q \in Request : answer'[q].type = "preferences_unavailable" =>
                   answer[q].type = "preferences_unavailable"
  <2> DEFINE p == Body(code)
  <2>1. p \in Responses /\ p.code = code /\ p.type = "none"
    <3>1. code \in Nat
      OBVIOUS
    <3> QED
      BY <3>1, BodyType
  <2>2. Respond(r, p, outcome)
    BY <1>3
  <2> HIDE DEF p
  <2>3. outcome \notin ServiceError \cup Cause /\ outcome \in Outcomes
    BY FailureTable DEF ServiceError, Outcomes
  <2>4. Tells(p, outcome)
    BY <1>3, <2>1, <2>3 DEF Tells
  <2>5. TraceInv' /\ answer' = [answer EXCEPT ![r] = p]
    <3>1. p.type # "none" => p.body = context[<<"inner", r>>].id
      BY <2>1
    <3>2. At(r, "routing") \/ At(r, "preparing") \/ At(r, "working")
      BY <1>3
    <3>3. UNCHANGED <<context, job>>
      BY <1>3
    <3>4. p \in Responses /\ outcome \in Outcomes
      BY <2>1, <2>3
    <3> QED
      BY <2>2, <2>4, <3>1, <3>2, <3>3, <3>4, RespondKeeps
  <2> QED
    BY <1>1, <2>1, <2>5 DEF Types
<1>4. CASE Unacceptable(r)
  BY <1>2, <1>4 DEF Unacceptable
<1>5. CASE \E up \in BOOLEAN : Probe(r, up)
  BY <1>3, <1>5 DEF Probe
<1>6. CASE WorkSucceeds(r)
  BY <1>3, <1>6 DEF WorkSucceeds
<1> QED
  BY <1>4, <1>5, <1>6

(* A step that moves a request on and changes no answer. *)
LEMMA MoveKeeps ==
    ASSUME TraceInv, NEW r \in Request, NEW given \in Id \cup {NoId},
           Arrive(r, given) \/ Verified(r) \/ Prepared(r)
    PROVE  TraceInv' /\ answer' = answer
<1>1. request \in [Request -> Requests] /\ Types /\ RequestInv(r) /\ \A q \in Request : RequestInv(q)
  BY DEF TraceInv, Types, TraceTypeOK, Requests, Stages, Accounts, Outcomes
<1>2. /\ request' \in [Request -> Requests]
      /\ \A q \in Request \ {r} : request'[q] = request[q]
      /\ request'[r].stage \in {"routing", "preparing", "working"}
      /\ request'[r].outcome = request[r].outcome
  <2>1. CASE Arrive(r, given)
    <3>1. request' = [request EXCEPT ![r].stage = "routing", ![r].gave = given]
      BY <2>1 DEF Arrive
    <3>2. request' \in [Request -> Requests]
      <4>1. request \in [Request -> Requests] /\ "routing" \in Stages
        BY <1>1 DEF Stages
      <4>2. \A x \in Id \cup {NoId} :
              [request EXCEPT ![r].stage = "routing", ![r].gave = x] \in [Request -> Requests]
        BY <4>1, RequestFields
      <4> QED
        BY <3>1, <4>2
    <3> QED
      BY <1>1, <3>1, <3>2 DEF Requests
  <2>2. CASE Verified(r)
    <3>1. request' = [request EXCEPT ![r].stage = "preparing", ![r].account = Caller[r]]
      BY <2>2 DEF Verified
    <3>2. Caller[r] \in Accounts
      BY DEF Accounts
    <3>3. request' \in [Request -> Requests]
      <4>1. request \in [Request -> Requests] /\ "preparing" \in Stages
        BY <1>1 DEF Stages
      <4>2. \A x \in Accounts :
              [request EXCEPT ![r].stage = "preparing", ![r].account = x] \in [Request -> Requests]
        BY <4>1, RequestFields
      <4> QED
        BY <3>1, <3>2, <4>2
    <3> QED
      BY <1>1, <3>1, <3>3 DEF Requests
  <2>3. CASE Prepared(r)
    <3>1. request' = [request EXCEPT ![r].stage = "working"]
      BY <2>3 DEF Prepared, Stage
    <3>2. request' \in [Request -> Requests]
      BY <1>1, <3>1, RequestField DEF Stages
    <3> QED
      BY <1>1, <3>1, <3>2 DEF Requests
  <2> QED
    BY <2>1, <2>2, <2>3
<1>3. UNCHANGED <<answer, job>>
  BY DEF Arrive, Verified, Prepared
<1>4. /\ context' \in [Task -> [id : AnyId, account : Accounts]]
      /\ \A t \in Task : t[2] # r \/ t[1] = "job" => context'[t] = context[t]
  <2>1. context \in [Task -> [id : AnyId, account : Accounts]]
    BY <1>1 DEF Types, TraceTypeOK, AnyId, Accounts
  <2>2. CASE Arrive(r, given)
    <3>1. [id |-> Effective(r, given), account |-> NoAccount] \in [id : AnyId, account : Accounts]
      BY DEF Effective, AnyId, Accounts
    <3>2. context' = [t \in Task |-> IF t \in {<<"outer", r>>, <<"inner", r>>}
                                     THEN [id |-> Effective(r, given), account |-> NoAccount]
                                     ELSE context[t]]
      BY <2>2 DEF Arrive
    <3> QED
      BY <2>1, <3>1, <3>2, TaskIs
  <2>3. CASE Verified(r)
    <3>1. context' = [context EXCEPT ![<<"inner", r>>].account = Caller[r]]
      BY <2>3 DEF Verified
    <3> QED
      BY <2>1, <3>1, TaskIs DEF Accounts
  <2>4. CASE Prepared(r)
    BY <2>1, <2>4 DEF Prepared
  <2> QED
    BY <2>2, <2>3, <2>4
<1>5. Types'
  BY <1>1, <1>2, <1>3, <1>4 DEF Types, TraceTypeOK, Requests, Stages, Accounts, Outcomes, AnyId
<1>6. ASSUME NEW q \in Request, q # r
      PROVE  RequestInv(q)'
  BY <1>1, <1>2, <1>3, <1>4, <1>6, Frame, TaskIs
<1>7. RequestInv(r)'
  <2>1. At(r, "none") \/ At(r, "routing") \/ At(r, "preparing")
    BY DEF Arrive, Verified, Prepared
  <2>4. job[r].task = "none"
    BY <1>1, <2>1 DEF RequestInv, JobsFollowTasks, At
  <2>2. Bound(r)'
    <3> USE DEF Bound, At, Effective
    <3>1. CASE Arrive(r, given)
      <4>1. /\ request' = [request EXCEPT ![r].stage = "routing", ![r].gave = given]
            /\ context'[<<"outer", r>>] = [id |-> Effective(r, given), account |-> NoAccount]
            /\ context'[<<"inner", r>>] = [id |-> Effective(r, given), account |-> NoAccount]
            /\ At(r, "none")
        BY <3>1, TaskIs DEF Arrive
      <4>2. /\ request'[r].stage = "routing" /\ request'[r].gave = given
            /\ request'[r].account = request[r].account
        BY <1>1, <4>1 DEF Requests
      <4> QED
        BY <1>1, <1>3, <2>4, <4>1, <4>2 DEF RequestInv
    <3>2. CASE Verified(r)
      <4>1. /\ request' = [request EXCEPT ![r].stage = "preparing", ![r].account = Caller[r]]
            /\ context' = [context EXCEPT ![<<"inner", r>>].account = Caller[r]]
            /\ At(r, "routing")
        BY <3>2 DEF Verified
      <4>2. /\ request'[r].stage = "preparing" /\ request'[r].gave = request[r].gave
            /\ request'[r].account = Caller[r]
        BY <1>1, <4>1 DEF Requests
      <4>3. /\ context'[<<"inner", r>>].id = context[<<"inner", r>>].id
            /\ context'[<<"inner", r>>].account = Caller[r]
            /\ context'[<<"outer", r>>] = context[<<"outer", r>>]
        <5>1. <<"outer", r>> # <<"inner", r>> /\ <<"outer", r>> \in Task /\ <<"inner", r>> \in Task
          BY TaskIs
        <5>2. context \in [Task -> [id : AnyId, account : Accounts]]
          BY <1>1 DEF Types, TraceTypeOK, AnyId, Accounts
        <5> QED
          BY <4>1, <5>1, <5>2
      <4> QED
        BY <1>1, <1>3, <2>4, <4>1, <4>2, <4>3 DEF RequestInv
    <3>3. CASE Prepared(r)
      <4>1. /\ request' = [request EXCEPT ![r].stage = "working"]
            /\ context' = context /\ At(r, "preparing")
        BY <3>3 DEF Prepared, Stage
      <4>2. /\ request'[r].stage = "working" /\ request'[r].gave = request[r].gave
            /\ request'[r].account = request[r].account
        BY <1>1, <4>1 DEF Requests
      <4> QED
        BY <1>1, <1>3, <2>4, <4>1, <4>2 DEF RequestInv
    <3> QED
      BY <3>1, <3>2, <3>3
  <2>3. JobsFollowTasks(r)' /\ AnswersTellTheOutcome(r)' /\ JobsTellTheOutcome(r)'
    BY <1>1, <1>2, <1>3, <2>4 DEF RequestInv, JobsFollowTasks, AnswersTellTheOutcome,
                                  JobsTellTheOutcome, At
  <2> QED
    BY <2>2, <2>3 DEF RequestInv
<1> QED
  BY <1>3, <1>5, <1>6, <1>7 DEF TraceInv

(* run_or_submit leaves a job behind that has what the request had. *)
LEMMA SubmitKeeps ==
    ASSUME TraceInv, NEW r \in Request, Submit(r)
    PROVE  /\ TraceInv'
           /\ \A q \in Request : answer'[q].type = "preferences_unavailable" =>
                 answer[q].type = "preferences_unavailable"
           /\ \A q \in Request : job[q].status = "gone" => job'[q].status = "gone"
<1>1. request \in [Request -> Requests] /\ Types /\ RequestInv(r) /\ \A q \in Request : RequestInv(q)
  BY DEF TraceInv, Types, TraceTypeOK, Requests, Stages, Accounts, Outcomes
<1>2. /\ request' = [request EXCEPT ![r].stage = "answered", ![r].outcome = "accepted"]
      /\ answer' = [answer EXCEPT ![r] = Body(202)]
      /\ context' = [context EXCEPT ![<<"job", r>>] = context[<<"inner", r>>]]
      /\ job' = [job EXCEPT ![r].task = "created", ![r].status = "pending"]
      /\ At(r, "working")
  BY DEF Submit, Respond, Inherits
<1>3. job[r].task = "none" /\ job[r].status = "none" /\ ~job[r].marked
  BY <1>1, <1>2 DEF RequestInv, JobsFollowTasks, At, Types, Jobs
<1>4. Body(202) \in Responses /\ Body(202).type = "none"
  BY BodyType
<1>5. request' \in [Request -> Requests] /\ job' \in [Request -> Jobs]
  <2>1. /\ "created" \in TaskStates /\ "pending" \in Statuses /\ "none" \in JobErrors
        /\ "answered" \in Stages /\ "accepted" \in Outcomes
    BY DEF TaskStates, Statuses, JobErrors, Stages, Outcomes
  <2>2. request' \in [Request -> Requests]
    BY <1>1, <1>2, <2>1, RequestFields
  <2>3. job' \in [Request -> Jobs]
    BY <1>1, <1>2, <2>1, JobFields DEF Types
  <2> QED
    BY <2>2, <2>3
<1>6. /\ request'[r].stage = "answered" /\ request'[r].gave = request[r].gave
      /\ request'[r].account = request[r].account
      /\ answer'[r].type = "none"
      /\ job'[r].task = "created" /\ job'[r].status = "pending" /\ ~job'[r].marked
      /\ \A q \in Request \ {r} : /\ request'[q] = request[q] /\ answer'[q] = answer[q]
                                  /\ job'[q] = job[q]
  BY <1>1, <1>2, <1>3, <1>4 DEF Types, Requests, Jobs
<1>7. /\ context'[<<"job", r>>] = context[<<"inner", r>>]
      /\ \A t \in Task \ {<<"job", r>>} : context'[t] = context[t]
      /\ context' \in [Task -> [id : AnyId, account : Accounts]]
  <2>1. context \in [Task -> [id : AnyId, account : Accounts]]
    BY <1>1 DEF Types, TraceTypeOK, AnyId, Accounts
  <2>2. <<"job", r>> \in Task /\ <<"inner", r>> \in Task
    BY TaskIs
  <2> QED
    BY <1>2, <2>1, <2>2
<1>8. \A q \in Request : /\ <<"outer", q>> \in Task \ {<<"job", r>>}
                         /\ <<"inner", q>> \in Task \ {<<"job", r>>}
                         /\ q # r => <<"job", q>> \in Task \ {<<"job", r>>}
  BY TaskIs
<1>9. Types'
  <2>1. answer' \in [Request -> Responses]
    BY <1>1, <1>2, <1>4 DEF Types
  <2>2. \A q \in Request : job'[q].marked => job'[q].task \in {"created", "working"}
    BY <1>1, <1>6 DEF Types, TraceTypeOK
  <2> QED
    BY <1>5, <1>7, <2>1, <2>2
       DEF Types, TraceTypeOK, Requests, Stages, Accounts, Outcomes, AnyId
<1>10. ASSUME NEW q \in Request, q # r
       PROVE  RequestInv(q)'
  BY <1>1, <1>6, <1>7, <1>8, <1>10, Frame
<1>11. RequestInv(r)'
  <2>1. Bound(r)'
    BY <1>1, <1>2, <1>6, <1>7, <1>8 DEF RequestInv, Bound, At, Effective
  <2>2. JobsFollowTasks(r)' /\ AnswersTellTheOutcome(r)' /\ JobsTellTheOutcome(r)'
    BY <1>6 DEF JobsFollowTasks, AnswersTellTheOutcome, JobsTellTheOutcome, At
  <2> QED
    BY <2>1, <2>2 DEF RequestInv
<1> QED
  BY <1>3, <1>6, <1>9, <1>10, <1>11 DEF TraceInv

(* The outer task sends what the inner one answered, or its own 500. *)
LEMMA OuterKeeps ==
    ASSUME TraceInv, NEW r \in Request, Complete(r) \/ Recover(r)
    PROVE  /\ TraceInv'
           /\ \A q \in Request : answer'[q].type = "preferences_unavailable" =>
                 answer[q].type = "preferences_unavailable"
<1>1. request \in [Request -> Requests] /\ Types /\ RequestInv(r) /\ \A q \in Request : RequestInv(q)
  BY DEF TraceInv, Types, TraceTypeOK, Requests, Stages, Accounts, Outcomes
<1>2. /\ request' = [request EXCEPT ![r].stage = "done"]
      /\ UNCHANGED <<context, job>>
      /\ At(r, "answered") \/ At(r, "broken")
  BY DEF Complete, Recover, Stage
<1>3. /\ request' \in [Request -> Requests]
      /\ request'[r].stage = "done" /\ request'[r].gave = request[r].gave
      /\ request'[r].account = request[r].account /\ request'[r].outcome = request[r].outcome
      /\ \A q \in Request \ {r} : request'[q] = request[q]
  <2>1. request' \in [Request -> Requests]
    BY <1>1, <1>2, RequestField DEF Stages
  <2> QED
    BY <1>1, <1>2, <2>1 DEF Requests
<1>4. /\ <<"outer", r>> \in Task /\ context[<<"outer", r>>].id \in AnyId
      /\ context[<<"outer", r>>].id = Effective(r, request[r].gave)
  BY <1>1, <1>2, TaskIs DEF Types, TraceTypeOK, AnyId, RequestInv, Bound, At
<1>5. /\ answer' \in [Request -> Responses]
      /\ answer'[r].id = context[<<"outer", r>>].id
      /\ \A q \in Request \ {r} : answer'[q] = answer[q]
      /\ At(r, "answered") => /\ answer'[r].type = answer[r].type /\ answer'[r].body = answer[r].body
                              /\ answer'[r].code = answer[r].code /\ answer'[r].says = answer[r].says
      /\ At(r, "broken") => /\ answer'[r].type = "internal-server-error"
                            /\ answer'[r].body = context[<<"outer", r>>].id
                            /\ answer'[r].code = 500 /\ answer'[r].says = "withheld"
  <2>1. CASE At(r, "answered")
    <3>1. answer' = [answer EXCEPT ![r].id = context[<<"outer", r>>].id]
      BY <2>1 DEF Complete, Recover, At
    <3> QED
      BY <1>1, <1>4, <2>1, <3>1 DEF Types, Responses, At
  <2>2. CASE At(r, "broken")
    <3> DEFINE p == Problem(<<"outer", r>>, 500, "internal-server-error", "withheld")
    <3>1. answer' = [answer EXCEPT ![r] = [p EXCEPT !.id = context[<<"outer", r>>].id]]
      BY <2>2 DEF Complete, Recover, At
    <3>2. p = [code |-> 500, type |-> "internal-server-error", id |-> NoId,
               body |-> context[<<"outer", r>>].id, says |-> "withheld"]
      BY DEF Problem
    <3> HIDE DEF p
    <3>3. answer'[r] = [code |-> 500, type |-> "internal-server-error",
                        id |-> context[<<"outer", r>>].id,
                        body |-> context[<<"outer", r>>].id, says |-> "withheld"]
      BY <1>1, <3>1, <3>2 DEF Types
    <3>4. answer'[r] \in Responses
      BY <1>4, <3>3 DEF Responses, Kinds, Says
    <3> QED
      BY <1>1, <2>2, <3>1, <3>3, <3>4 DEF Types, At
  <2> QED
    BY <1>2, <2>1, <2>2
<1>6. Types'
  BY <1>1, <1>2, <1>3, <1>5 DEF Types, TraceTypeOK, Requests, Stages, Accounts, Outcomes
<1>7. ASSUME NEW q \in Request, q # r
      PROVE  RequestInv(q)'
  BY <1>1, <1>2, <1>3, <1>5, <1>7, Frame
<1>8. RequestInv(r)'
  <2>1. Bound(r)'
    BY <1>1, <1>2, <1>3, <1>4, <1>5 DEF RequestInv, Bound, At
  <2>2. JobsFollowTasks(r)' /\ JobsTellTheOutcome(r)'
    BY <1>1, <1>2, <1>3 DEF RequestInv, JobsFollowTasks, JobsTellTheOutcome, At
  <2>3. AnswersTellTheOutcome(r)'
    <3>1. CASE At(r, "answered")
      BY <1>1, <1>2, <1>3, <1>5, <3>1 DEF RequestInv, AnswersTellTheOutcome, At
    <3>2. CASE At(r, "broken")
      <4>1. request[r].outcome \in Cause /\ Remedy(request[r].outcome) = 500
        BY <1>1, <3>2 DEF RequestInv, AnswersTellTheOutcome
      <4>2. request[r].outcome # "ok" /\ request[r].outcome \notin ServiceError
        BY <4>1, FailureTable
      <4> QED
        BY <1>2, <1>3, <1>5, <3>2, <4>1, <4>2 DEF AnswersTellTheOutcome, At
    <3> QED
      BY <1>2, <3>1, <3>2
  <2> QED
    BY <2>1, <2>2, <2>3 DEF RequestInv
<1> QED
  BY <1>2, <1>5, <1>6, <1>7, <1>8 DEF TraceInv

(* Whatever Handle does keeps what is known, and of its steps only         *)
(* PreferencesFail says that the preferences could not be read.            *)
LEMMA HandleKeeps ==
    ASSUME TraceInv, NEW r \in Request, Handle(r)
    PROVE  /\ TraceInv'
           /\ \A q \in Request : answer'[q].type = "preferences_unavailable" =>
                 answer[q].type = "preferences_unavailable"
           /\ \A q \in Request : job[q].status = "gone" => job'[q].status = "gone"
<1>1. CASE \/ Unacceptable(r)
           \/ \E up \in BOOLEAN : Probe(r, up)
           \/ WorkSucceeds(r)
  BY <1>1, AnswerKeeps DEF Unacceptable, Probe, WorkSucceeds
<1>2. CASE NotVerified(r)
  <2>1. PICK e \in {"user_token_rejected", "keyring_unavailable"} : Raise(r, e, e)
    BY <1>2 DEF NotVerified
  <2>2. e \in DOMAIN Status /\ e \in ServiceError
    BY StatusTable
  <2>3. At(r, "routing") /\ job' = job
    BY <1>2, <2>1 DEF NotVerified, Raise
  <2> QED
    BY <2>1, <2>2, <2>3, RaiseKeeps
<1>3. CASE Verified(r) \/ Prepared(r)
  <2>1. job' = job
    BY <1>3 DEF Verified, Prepared
  <2> QED
    BY <1>3, <2>1, MoveKeeps
<1>4. CASE WorkFails(r)
  <2>1. PICK why \in Fails : Raise(r, ErrorOf(why), why)
    BY <1>4 DEF WorkFails
  <2>2. why \in Cause /\ why # "preferences_unavailable"
    BY FailureTable DEF ServiceError
  <2>3. At(r, "working") /\ job' = job
    BY <1>4, <2>1 DEF WorkFails, Raise
  <2> QED
    BY <2>1, <2>2, <2>3, RaiseKeeps
<1>5. CASE Submit(r)
  BY <1>5, SubmitKeeps
<1>6. CASE Complete(r) \/ Recover(r)
  <2>1. job' = job
    BY <1>6 DEF Complete, Recover
  <2> QED
    BY <1>6, <2>1, OuterKeeps
<1> QED
  BY <1>1, <1>2, <1>3, <1>4, <1>5, <1>6 DEF Handle

(* The one step that says that preferences could not be read. *)
LEMMA PreferencesFailKeeps ==
    ASSUME TraceInv, NEW r \in Request, PreferencesFail(r)
    PROVE  TraceInv' /\ job' = job
<1>1. At(r, "preparing") /\ Raise(r, "preferences_unavailable", "preferences_unavailable")
  BY DEF PreferencesFail
<1>2. "preferences_unavailable" \in DOMAIN Status /\ "preferences_unavailable" \in ServiceError
  BY StatusTable
<1>3. job' = job
  BY <1>1 DEF Raise
<1> QED
  BY <1>1, <1>2, <1>3, RaiseKeeps

-----------------------------------------------------------------------------
(* Jobs. *)

(* A step that changes jobs, and at most the outcome of one.               *)
LEMMA JobsKeep ==
    ASSUME TraceInv, UNCHANGED <<context, answer>>,
           request' \in [Request -> Requests], job' \in [Request -> Jobs],
           \A q \in Request :
              /\ \/ request'[q] = request[q]
                 \/ /\ job[q].task # "none" /\ job'[q].task # "none"
                    /\ request'[q].stage = request[q].stage
                    /\ request'[q].gave = request[q].gave
                    /\ request'[q].account = request[q].account
              /\ job'[q].task = "none" <=> job[q].task = "none"
              /\ JobsFollowTasks(q)' /\ JobsTellTheOutcome(q)'
    PROVE  TraceInv'
<1>1. Types /\ \A q \in Request : RequestInv(q)
  BY DEF TraceInv
<1>2. Types'
  BY <1>1 DEF Types, TraceTypeOK, Requests, Stages, Accounts, Outcomes, JobsFollowTasks
<1>3. ASSUME NEW q \in Request
      PROVE  RequestInv(q)'
  <2>1. JobsFollowTasks(q) /\ Bound(q) /\ AnswersTellTheOutcome(q)
    BY <1>1 DEF RequestInv
  <2>2. Bound(q)'
    BY <2>1 DEF Bound, At, Effective
  <2>3. AnswersTellTheOutcome(q)'
    <3>1. CASE request'[q] = request[q]
      BY <2>1, <3>1 DEF AnswersTellTheOutcome, At
    <3>2. CASE job[q].task # "none" /\ job'[q].task # "none" /\ request'[q].stage = request[q].stage
      BY <2>1, <3>2 DEF AnswersTellTheOutcome, JobsFollowTasks, At
    <3> QED
      BY <3>1, <3>2
  <2> QED
    BY <2>2, <2>3 DEF RequestInv
<1> QED
  BY <1>2, <1>3 DEF TraceInv

(* A deletion and old age, to a job that is one. *)
LEMMA CancelAndExpireKeep ==
    ASSUME TraceInv, NEW r \in Request, CancelJob(r) \/ Expire(r)
    PROVE  /\ TraceInv'
           /\ \A q \in Request : job[q].status = "gone" => job'[q].status = "gone"
<1>1. Types /\ \A q \in Request : RequestInv(q)
  BY DEF TraceInv
<1>2. request \in [Request -> Requests] /\ job \in [Request -> Jobs]
  BY <1>1 DEF Types, TraceTypeOK, Requests, Stages, Accounts, Outcomes
<1>3. /\ UNCHANGED <<request, context, answer>>
      /\ job' \in [Request -> Jobs]
      /\ \A q \in Request \ {r} : job'[q] = job[q]
      /\ job'[r].task = job[r].task
      /\ \/ /\ job[r].status \in {"pending", "running"}
            /\ job'[r].status = "cancelled" /\ job'[r].marked
         \/ /\ job[r].status \notin {"none", "gone"}
            /\ job'[r].status = "gone" /\ job'[r].marked = job[r].marked
  <2>1. CASE CancelJob(r)
    <3>1. /\ job' = [job EXCEPT ![r].marked = TRUE, ![r].status = "cancelled"]
          /\ UNCHANGED <<request, context, answer>> /\ job[r].status \in {"pending", "running"}
      BY <2>1 DEF CancelJob
    <3>2. "cancelled" \in Statuses /\ "none" \in JobErrors /\ "none" \in TaskStates
      BY DEF Statuses, JobErrors, TaskStates
    <3>3. job' \in [Request -> Jobs]
      BY <1>2, <3>1, <3>2, JobFields
    <3> QED
      BY <1>2, <3>1, <3>3 DEF Jobs
  <2>2. CASE Expire(r)
    <3>1. /\ job' = [job EXCEPT ![r].status = "gone", ![r].error = "none"]
          /\ UNCHANGED <<request, context, answer>> /\ job[r].status \notin {"none", "gone"}
      BY <2>2 DEF Expire
    <3>2. "gone" \in Statuses /\ "none" \in JobErrors /\ "none" \in TaskStates
      BY DEF Statuses, JobErrors, TaskStates
    <3>3. job' \in [Request -> Jobs]
      BY <1>2, <3>1, <3>2, JobFields
    <3> QED
      BY <1>2, <3>1, <3>3 DEF Jobs
  <2> QED
    BY <2>1, <2>2
<1>4. JobsFollowTasks(r)' /\ JobsTellTheOutcome(r)'
  <2>1. JobsFollowTasks(r) /\ JobsTellTheOutcome(r) /\ job[r] \in Jobs
    BY <1>1, <1>2 DEF RequestInv
  <2> QED
    BY <1>3, <2>1 DEF JobsFollowTasks, JobsTellTheOutcome, At, Jobs, TaskStates
<1>5. ASSUME NEW q \in Request, q # r
      PROVE  JobsFollowTasks(q)' /\ JobsTellTheOutcome(q)'
  BY <1>1, <1>3, <1>5 DEF RequestInv, JobsFollowTasks, JobsTellTheOutcome, At
<1> QED
  BY <1>2, <1>3, <1>4, <1>5, JobsKeep

(* What JobStep makes of a job. *)
LEMMA JobStepFields ==
    ASSUME job \in [Request -> Jobs], NEW r \in Request, NEW from \in TaskStates,
           NEW to \in TaskStates, NEW status \in Statuses, NEW error \in JobErrors,
           JobStep(r, from, to, status, error)
    PROVE  /\ UNCHANGED <<context, answer>>
           /\ job' \in [Request -> Jobs]
           /\ \A q \in Request \ {r} : job'[q] = job[q]
           /\ job[r].task = from /\ job'[r].task = to /\ ~job'[r].marked
           /\ job'[r].status = IF job[r].status = "gone" THEN "gone" ELSE status
           /\ job'[r].error = IF job[r].status = "gone" THEN job[r].error ELSE error
<1> DEFINE s == IF job[r].status = "gone" THEN job[r].status ELSE status
           e == IF job[r].status = "gone" THEN job[r].error ELSE error
<1>1. s \in Statuses /\ e \in JobErrors
  BY DEF Jobs
<1>2. /\ job' = [job EXCEPT ![r].task = to, ![r].marked = FALSE, ![r].status = s, ![r].error = e]
      /\ UNCHANGED <<context, answer>> /\ job[r].task = from
  BY DEF JobStep
<1>3. s = IF job[r].status = "gone" THEN "gone" ELSE status
  OBVIOUS
<1>4. e = IF job[r].status = "gone" THEN job[r].error ELSE error
  OBVIOUS
<1> HIDE DEF s, e
<1>5. job' \in [Request -> Jobs]
  <2> DEFINE f == [job EXCEPT ![r].task = to]
             g == [f EXCEPT ![r].marked = FALSE]
             h == [g EXCEPT ![r].status = s]
  <2>1. f \in [Request -> Jobs]
    BY JobField
  <2> HIDE DEF f
  <2>2. g \in [Request -> Jobs]
    BY <2>1, JobField
  <2> HIDE DEF g
  <2>3. h \in [Request -> Jobs]
    BY <1>1, <2>2, JobField
  <2> HIDE DEF h
  <2>4. [h EXCEPT ![r].error = e] \in [Request -> Jobs]
    BY <1>1, <2>3, JobField
  <2> QED
    BY <1>2, <2>4 DEF f, g, h
<1> QED
  BY <1>2, <1>3, <1>4, <1>5 DEF Jobs

(* Whatever becomes of a job keeps what is known. *)
LEMMA RunJobKeeps ==
    ASSUME TraceInv, NEW r \in Request, RunJob(r)
    PROVE  /\ TraceInv'
           /\ answer' = answer
           /\ \A q \in Request : job[q].status = "gone" => job'[q].status = "gone"
<1>1. Types /\ \A q \in Request : RequestInv(q)
  BY DEF TraceInv
<1>2. request \in [Request -> Requests] /\ job \in [Request -> Jobs]
  BY <1>1 DEF Types, TraceTypeOK, Requests, Stages, Accounts, Outcomes
<1>3. /\ {"created", "working", "ended"} \subseteq TaskStates
      /\ {"running", "succeeded", "failed"} \subseteq Statuses
      /\ {"none", "internal_error"} \subseteq JobErrors /\ ServiceError \subseteq JobErrors
  BY DEF TaskStates, Statuses, JobErrors
<1>4. ASSUME NEW to \in TaskStates \ {"none"}, NEW status \in Statuses, NEW error \in JobErrors,
             NEW from \in TaskStates \ {"none"}, JobStep(r, from, to, status, error),
             request' \in [Request -> Requests],
             \A q \in Request : request'[q].stage = request[q].stage
                                /\ request'[q].gave = request[q].gave
                                /\ request'[q].account = request[q].account,
             \A q \in Request \ {r} : request'[q] = request[q],
             JobsFollowTasks(r)', JobsTellTheOutcome(r)'
      PROVE  /\ TraceInv' /\ answer' = answer
             /\ \A q \in Request : job[q].status = "gone" => job'[q].status = "gone"
  <2>1. /\ UNCHANGED <<context, answer>>
        /\ job' \in [Request -> Jobs]
        /\ \A q \in Request \ {r} : job'[q] = job[q]
        /\ job[r].task = from /\ job'[r].task = to
        /\ job[r].status = "gone" => job'[r].status = "gone"
    BY <1>2, <1>4, JobStepFields
  <2>2. ASSUME NEW q \in Request, q # r
        PROVE  JobsFollowTasks(q)' /\ JobsTellTheOutcome(q)'
    BY <1>1, <1>4, <2>1, <2>2 DEF RequestInv, JobsFollowTasks, JobsTellTheOutcome, At
  <2>3. TraceInv'
    BY <1>4, <2>1, <2>2, JobsKeep
  <2> QED
    BY <2>1, <2>3
<1>5. JobsFollowTasks(r) /\ JobsTellTheOutcome(r) /\ job[r] \in Jobs
  BY <1>1, <1>2 DEF RequestInv
<1>6. CASE JobStarts(r)
  <2> DEFINE to == IF job[r].status = "gone" THEN "ended" ELSE "working"
  <2>1. JobStep(r, "created", to, "running", "none") /\ request' = request
    BY <1>6 DEF JobStarts
  <2>2. to \in TaskStates \ {"none"} /\ (to = "ended" <=> job[r].status = "gone")
        /\ (to = "working" <=> job[r].status # "gone")
    BY DEF TaskStates
  <2> HIDE DEF to
  <2>3. /\ job[r].task = "created" /\ job'[r].task = to /\ ~job'[r].marked
        /\ job'[r].status = IF job[r].status = "gone" THEN "gone" ELSE "running"
    BY <1>2, <1>3, <2>1, <2>2, JobStepFields
  <2>4. JobsFollowTasks(r)' /\ JobsTellTheOutcome(r)'
    BY <1>5, <2>1, <2>2, <2>3 DEF JobsFollowTasks, JobsTellTheOutcome, At
  <2> QED
    BY <1>2, <1>3, <1>4, <2>1, <2>2, <2>4
<1>7. ASSUME NEW status \in {"succeeded", "failed"}, NEW error \in JobErrors,
             NEW outcome \in Outcomes, JobEnds(r, status, error, outcome),
             outcome = "ok" <=> status = "succeeded",
             outcome \in Cause =>
                error = IF Remedy(outcome) = 500 THEN "internal_error" ELSE ErrorOf(outcome)
      PROVE  /\ TraceInv' /\ answer' = answer
             /\ \A q \in Request : job[q].status = "gone" => job'[q].status = "gone"
  <2>1. /\ JobStep(r, "working", "ended", status, error)
        /\ request' = [request EXCEPT ![r].outcome = outcome]
    BY <1>7 DEF JobEnds
  <2>2. /\ request' \in [Request -> Requests]
        /\ request'[r].outcome = outcome
        /\ \A q \in Request : request'[q].stage = request[q].stage
                              /\ request'[q].gave = request[q].gave
                              /\ request'[q].account = request[q].account
        /\ \A q \in Request \ {r} : request'[q] = request[q]
    <3>1. request' \in [Request -> Requests]
      BY <1>2, <2>1, RequestField
    <3> QED
      BY <1>2, <2>1, <3>1 DEF Requests
  <2>3. /\ job[r].task = "working" /\ job'[r].task = "ended" /\ ~job'[r].marked
        /\ job'[r].status = IF job[r].status = "gone" THEN "gone" ELSE status
        /\ job'[r].error = IF job[r].status = "gone" THEN job[r].error ELSE error
    BY <1>2, <1>3, <2>1, JobStepFields
  <2>4. JobsFollowTasks(r)'
    BY <1>5, <2>2, <2>3 DEF JobsFollowTasks, At
  <2>5. JobsTellTheOutcome(r)'
    BY <1>7, <2>2, <2>3 DEF JobsTellTheOutcome
  <2>6. "working" \in TaskStates \ {"none"} /\ "ended" \in TaskStates \ {"none"} /\ status \in Statuses
    BY DEF TaskStates, Statuses
  <2> QED
    BY <1>4, <2>1, <2>2, <2>4, <2>5, <2>6
<1>8. CASE JobSucceeds(r)
  <2>1. JobEnds(r, "succeeded", "none", "ok") /\ "ok" \notin Cause /\ "ok" \in Outcomes
    BY <1>8, FailureTable DEF JobSucceeds, Outcomes
  <2> QED
    BY <1>3, <1>7, <2>1
<1>9. CASE JobFails(r)
  <2>1. PICK why \in Fails :
           JobEnds(r, "failed", IF ErrorOf(why) \in ServiceError THEN ErrorOf(why)
                                ELSE "internal_error", why)
    BY <1>9 DEF JobFails
  <2> DEFINE error == IF ErrorOf(why) \in ServiceError THEN ErrorOf(why) ELSE "internal_error"
  <2>2. why \in Cause /\ why \in Outcomes /\ why # "ok"
    BY FailureTable DEF Outcomes
  <2>3. /\ ErrorOf(why) = "broken" => ErrorOf(why) \notin ServiceError
        /\ ErrorOf(why) \in DOMAIN Status =>
              ErrorOf(why) \in ServiceError /\ Status[ErrorOf(why)] # 500
    BY StatusTable DEF ServiceError
  <2>4. error = IF Remedy(why) = 500 THEN "internal_error" ELSE ErrorOf(why)
    BY <2>2, <2>3, FailureTable
  <2>5. error \in JobErrors
    BY DEF JobErrors
  <2> HIDE DEF error
  <2>6. JobEnds(r, "failed", error, why)
    BY <2>1 DEF error
  <2> QED
    BY <1>7, <2>2, <2>4, <2>5, <2>6
<1>10. CASE JobCancelled(r)
  <2>1. /\ JobStep(r, job[r].task, "ended", job[r].status, job[r].error)
        /\ request' = request /\ job[r].marked
    BY <1>10 DEF JobCancelled
  <2>2. /\ job[r].task \in {"created", "working"} /\ job[r].status \in {"cancelled", "gone"}
        /\ job[r].task \in TaskStates \ {"none"} /\ "ended" \in TaskStates \ {"none"}
        /\ job[r].status \in Statuses /\ job[r].error \in JobErrors
    BY <1>5, <2>1 DEF JobsFollowTasks, Jobs, TaskStates
  <2>3. /\ job'[r].task = "ended" /\ ~job'[r].marked /\ job'[r].status = job[r].status
    BY <1>2, <2>1, <2>2, JobStepFields
  <2>4. JobsFollowTasks(r)' /\ JobsTellTheOutcome(r)'
    BY <1>5, <2>1, <2>2, <2>3 DEF JobsFollowTasks, JobsTellTheOutcome, At
  <2> QED
    BY <1>2, <1>4, <2>1, <2>2, <2>4
<1> QED
  BY <1>6, <1>8, <1>9, <1>10 DEF RunJob

-----------------------------------------------------------------------------
(* The whole. *)

(* It holds before anything has happened, and while nothing does. *)
LEMMA TraceBegins == TraceInit => TraceInv
<1> SUFFICES ASSUME TraceInit PROVE TraceInv
  OBVIOUS
<1>1. \A t \in Task : context[t].id = NoId /\ context[t].account = NoAccount
  BY DEF TraceInit, Unbound
<1>2. \A r \in Request :
         /\ request[r] = [stage |-> "none", gave |-> NoId, account |-> NoAccount, outcome |-> "none"]
         /\ answer[r] = NoAnswer /\ job[r] = NoJob
  BY DEF TraceInit
<1>3. NoAnswer \in Responses /\ NoJob \in Jobs
  BY DEF NoAnswer, NoJob, Responses, Jobs, AnyId, Kinds, Says, TaskStates, Statuses, JobErrors
<1>4. Types
  <2>1. context \in [Task -> [id : AnyId, account : Accounts]]
    BY DEF TraceInit, Unbound, AnyId, Accounts
  <2>2. request \in [Request -> Requests]
    BY DEF TraceInit, Requests, Stages, Accounts, Outcomes
  <2>3. \A r \in Request : ~job[r].marked
    BY <1>2 DEF NoJob
  <2> QED
    BY <1>3, <2>1, <2>2, <2>3 DEF TraceInit, Types, TraceTypeOK, Requests, Stages, Accounts,
                                  Outcomes, AnyId
<1>5. ASSUME NEW r \in Request
      PROVE  RequestInv(r)
  BY <1>2 DEF RequestInv, Bound, JobsFollowTasks, AnswersTellTheOutcome, JobsTellTheOutcome, At,
              NoAnswer, NoJob
<1> QED
  BY <1>4, <1>5 DEF TraceInv

(* A step that touches no request keeps it. *)
LEMMA TraceStays == TraceInv /\ UNCHANGED traceVars => TraceInv'
<1> SUFFICES ASSUME TraceInv, UNCHANGED traceVars PROVE TraceInv'
  OBVIOUS
<1>1. Types'
  BY DEF TraceInv, Types, TraceTypeOK, traceVars
<1>2. ASSUME NEW q \in Request
      PROVE  RequestInv(q)'
  BY Frame DEF TraceInv, traceVars
<1> QED
  BY <1>1, <1>2 DEF TraceInv

(* What each task may write follows from what is bound in it. *)
LEMMA RecordsAreNamed == TraceInv => RecordsNameTheirRequest
<1> SUFFICES ASSUME TraceInv PROVE RecordsNameTheirRequest
  OBVIOUS
<1>1. ASSUME NEW t \in Task, Writes(t), NEW shows
      PROVE  LET l == Record(t, shows) IN
             /\ l.id = Effective(l.of, request[l.of].gave)
             /\ l.account \in {NoAccount, request[l.of].account}
             /\ l.by # "outer" => l.account = request[l.of].account
  <2> DEFINE r == t[2]
  <2>1. r \in Request /\ t = <<t[1], r>> /\ t[1] \in {"outer", "inner", "job"}
    BY TaskIs
  <2>2. Bound(r)
    BY <2>1 DEF TraceInv, RequestInv
  <2>3. CASE t[1] = "outer"
    <3>1. request[r].stage \in {"answered", "broken"} /\ t = <<"outer", r>>
      BY <1>1, <2>1, <2>3 DEF Writes
    <3>2. /\ context[t].id = Effective(r, request[r].gave)
          /\ context[t].account = NoAccount
      BY <2>2, <3>1 DEF Bound, At
    <3> QED
      BY <2>3, <3>2 DEF Record
  <2>4. CASE t[1] = "inner"
    <3>1. request[r].stage \in {"routing", "preparing", "working"} /\ t = <<"inner", r>>
      BY <1>1, <2>1, <2>4 DEF Writes
    <3>2. /\ context[t].id = Effective(r, request[r].gave)
          /\ context[t].account = request[r].account
      BY <2>2, <3>1 DEF Bound, At
    <3> QED
      BY <2>4, <3>2 DEF Record
  <2>5. CASE t[1] = "job"
    <3>1. job[r].task = "working" /\ t = <<"job", r>>
      BY <1>1, <2>1, <2>5 DEF Writes
    <3>2. /\ context[t].id = Effective(r, request[r].gave)
          /\ context[t].account = request[r].account
      BY <2>2, <3>1 DEF Bound
    <3> QED
      BY <2>5, <3>2 DEF Record
  <2> QED
    BY <2>1, <2>3, <2>4, <2>5
<1>2. ASSUME NEW r \in Request, At(r, "done")
      PROVE  /\ answer[r].id = Effective(r, request[r].gave)
             /\ answer[r].type # "none" => answer[r].body = answer[r].id
  BY <1>2 DEF TraceInv, RequestInv, Bound
<1> QED
  BY <1>1, <1>2 DEF RecordsNameTheirRequest, Records

(* What became of a request and of its job tells what was behind it. *)
LEMMA FailuresTell == TraceInv => FailuresAreNamed
<1> SUFFICES ASSUME TraceInv PROVE FailuresAreNamed
  OBVIOUS
<1>1. \A why \in Cause : ErrorOf(why) \in DOMAIN Status => Status[ErrorOf(why)] = Remedy(why)
  BY FailureTable, StatusTable
<1>2. ASSUME NEW r \in Request
      PROVE  JobsTellTheOutcome(r) /\ AnswersTellTheOutcome(r)
  BY DEF TraceInv, RequestInv
<1>3. ASSUME NEW r \in Request, At(r, "done"), job[r].task = "none"
      PROVE  LET what == request[r].outcome
             IN  /\ what = "ok" <=> answer[r].code = 200
                 /\ what \in ServiceError => answer[r].type = what
                 /\ what \in Cause => answer[r].code = Remedy(what)
                 /\ answer[r].code = 500 => answer[r].says = "withheld"
  BY <1>2, <1>3 DEF AnswersTellTheOutcome
<1>4. ASSUME NEW r \in Request, job[r].task = "ended", job[r].status \in {"succeeded", "failed"}
      PROVE  LET what == request[r].outcome
             IN  /\ what = "ok" <=> job[r].status = "succeeded"
                 /\ what \in Cause /\ Remedy(what) = 500 => job[r].error = "internal_error"
                 /\ \A q \in Request :
                       /\ At(q, "done") /\ job[q].task = "none"
                       /\ what \in Cause /\ request[q].outcome = what /\ Remedy(what) # 500
                       => answer[q].type = job[r].error
  BY <1>2, <1>4 DEF JobsTellTheOutcome, AnswersTellTheOutcome
<1> QED
  BY <1>1, <1>3, <1>4 DEF FailuresAreNamed

-----------------------------------------------------------------------------
(* The redactor. *)

(* What the parts of a field may be. *)
Parts == {"name", "secret", "odd", "item", "other"}

(* The walk is over at this part with the value left as it is. *)
Leaves(field, i) == i > Len(field) \/ field[i] = "other"

(* The walk is over at this part, if it was not before, with nothing left. *)
Stops(field, i) == i > MaxDepth + 1 \/ field[i] \in {"secret", "odd"}

(* One step of the redactor's walk down a field. *)
Step(field, walk, i) ==
    IF Leaves(field, i) THEN TRUE
    ELSE IF Stops(field, i) THEN FALSE
    ELSE walk[i + 1]

(* Survives is such a walk, begun at the first part: the recursive         *)
(* definition has a solution, for here is one.                             *)
LEMMA WalkIs ==
    ASSUME NEW field \in Seq(Parts)
    PROVE  \E walk : /\ \A i \in 1..Len(field) + 1 : walk[i] = Step(field, walk, i)
                     /\ Survives(field) = walk[1]
<1> DEFINE Rec(w) == w = [i \in 1..Len(field) + 1 |-> Step(field, w, i)]
           Rest(i) == \E e \in i..Len(field) + 1 :
                         Leaves(field, e) /\ \A k \in i..e - 1 : ~Stops(field, k)
           walk == [i \in 1..Len(field) + 1 |-> Rest(i)]
           chosen == CHOOSE w : Rec(w)
<1>1. Len(field) \in Nat
  OBVIOUS
<1>2. ASSUME NEW i \in 1..Len(field) + 1
      PROVE  Rest(i) = Step(field, walk, i)
  <2>1. CASE Leaves(field, i)
    <3>1. i \in i..Len(field) + 1 /\ i..i - 1 = {}
      BY <1>1
    <3>2. Rest(i)
      BY <2>1, <3>1, Zenon
    <3>3. Rest(i) = TRUE
      BY <3>2, Zenon
    <3> HIDE DEF walk, Rest
    <3> QED
      BY <2>1, <3>3, Zenon DEF Step
  <2>2. CASE ~Leaves(field, i)
    <3>1. i \in 1..Len(field) /\ i + 1 \in 1..Len(field) + 1
      BY <1>1, <2>2 DEF Leaves
    <3>2. ASSUME NEW e \in i..Len(field) + 1, Leaves(field, e)
          PROVE  e \in i + 1..Len(field) + 1 /\ i..e - 1 = {i} \cup i + 1..e - 1
      <4>1. e # i
        BY <2>2, <3>2
      <4> QED
        BY <1>1, <4>1
    <3>3. Rest(i) => ~Stops(field, i) /\ Rest(i + 1)
      <4> HIDE DEF walk
      <4> QED
        BY <3>2, Zenon
    <3>4. ~Stops(field, i) /\ Rest(i + 1) => Rest(i)
      <4> SUFFICES ASSUME ~Stops(field, i), Rest(i + 1) PROVE Rest(i)
        OBVIOUS
      <4>1. PICK e \in i + 1..Len(field) + 1 :
                Leaves(field, e) /\ \A k \in i + 1..e - 1 : ~Stops(field, k)
        OBVIOUS
      <4>2. e \in i..Len(field) + 1
        BY <1>1, <3>1
      <4>3. \A k \in i..e - 1 : ~Stops(field, k)
        BY <3>2, <4>1, <4>2, Zenon
      <4> QED
        BY <4>1, <4>2, <4>3, Zenon
    <3>5. ~Stops(field, i) => Rest(i) = Rest(i + 1)
      <4>1. ~Stops(field, i) => (Rest(i) <=> Rest(i + 1))
        BY <3>3, <3>4, Zenon
      <4> QED
        BY <4>1, Zenon
    <3>6. Stops(field, i) => Rest(i) = FALSE
      BY <3>3, Zenon
    <3>7. walk[i + 1] = Rest(i + 1)
      <4> HIDE DEF Rest
      <4> QED
        BY <3>1
    <3> HIDE DEF walk, Rest
    <3> QED
      BY <2>2, <3>5, <3>6, <3>7, Zenon DEF Step
  <2> QED
    BY <2>1, <2>2
<1>3. Rec(walk)
  <2> HIDE DEF Rest
  <2> QED
    BY <1>2
<1>4. Rec(chosen)
  <2> HIDE DEF walk
  <2> QED
    BY <1>3
<1>5. Survives(field) = chosen[1]
  BY DEF Survives, Step, Leaves, Stops
<1> HIDE DEF chosen
<1>6. \A i \in 1..Len(field) + 1 : chosen[i] = Step(field, chosen, i)
  BY <1>4
<1> QED
  BY <1>5, <1>6

(* Nothing survives that has to be stopped before the walk leaves the      *)
(* dicts and lists: from the part that stops it backwards, no step of the  *)
(* walk says otherwise.                                                    *)
LEMMA StoppedWithinDictsAndLists ==
    ASSUME NEW field \in Seq(Parts), NEW p \in 1..Len(field), Stops(field, p),
           \A k \in 1..p : field[k] # "other"
    PROVE  ~Survives(field)
<1> DEFINE n == Len(field)
<1>1. PICK walk : /\ \A i \in 1..n + 1 : walk[i] = Step(field, walk, i)
                  /\ Survives(field) = walk[1]
  BY WalkIs
<1>2. n \in Nat /\ p \in Nat /\ p \in 1..n + 1 /\ p - 1 \in Nat /\ p \in 1..p
  OBVIOUS
<1>3. \A i \in 1..p : i \in 1..n + 1 /\ ~Leaves(field, i)
  BY <1>2 DEF Leaves
<1> DEFINE Falls(i) == walk[i] = FALSE
<1>4. Falls(p)
  BY <1>1, <1>2, <1>3, Zenon DEF Step
<1>5. ASSUME NEW i \in 1..p, Falls(i + 1)
      PROVE  Falls(i)
  BY <1>1, <1>3, <1>5, Zenon DEF Step
<1> DEFINE B == {k \in 0..(p - 1) : Falls(p - k)}
<1> HIDE DEF Falls, n
<1>6. 0 \in B
  <2>1. p - 0 = p /\ 0 \in 0..(p - 1)
    BY <1>2
  <2> QED
    BY <1>4, <2>1
<1>7. ASSUME NEW k \in 0..((p - 1) - 1), k \in B
      PROVE  k + 1 \in B
  <2>1. /\ p - (k + 1) \in 1..p /\ (p - (k + 1)) + 1 = p - k
        /\ k + 1 \in 0..(p - 1)
    BY <1>2
  <2>2. Falls(p - k)
    BY <1>7
  <2>3. Falls(p - (k + 1))
    BY <1>5, <2>1, <2>2
  <2> QED
    BY <2>1, <2>3
<1>8. p - 1 \in B
  <2> HIDE DEF B
  <2> QED
    BY <1>2, <1>6, <1>7, UpTo
<1>9. Falls(1)
  <2>1. p - (p - 1) = 1
    BY <1>2
  <2> QED
    BY <1>8, <2>1
<1> QED
  BY <1>1, <1>9, Zenon DEF Falls

(* So a record shows such a value only out of some other container.        *)
LEMMA NothingGetsPast == RecordsAreSafe
<1>1. ASSUME NEW field \in Shown, NEW i \in DOMAIN field,
             field[i] \in {"secret", "odd"} \/ i > MaxDepth + 1,
             \A k \in 1..i : field[k] # "other"
      PROVE  FALSE
  <2>1. field \in Seq(Parts) /\ Survives(field)
    BY DEF Shown, Parts
  <2>2. i \in 1..Len(field) /\ Stops(field, i)
    BY <1>1, <2>1 DEF Stops
  <2> QED
    BY <1>1, <2>1, <2>2, StoppedWithinDictsAndLists
<1>2. \A l \in Records : l.shows \in Shown
  BY DEF Records, Record
<1> QED
  BY <1>1, <1>2 DEF RecordsAreSafe
===============================================================================
