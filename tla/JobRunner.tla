------------------------------ MODULE JobRunner ------------------------------
(***************************************************************************)
(* Background jobs: the runner of jobs/runner.py over the store of         *)
(* JobStore, driven by the HTTP handlers of api/routes/jobs.py and         *)
(* api/asynchrony.py and stopped by the lifespan of app.py.                *)
(*                                                                         *)
(* One step is what the event loop runs between two suspensions:           *)
(*   - a handler that awaits nothing but the store is one step;            *)
(*   - a long-polling GET is two, with anything in between;                *)
(*   - a job's task is created by the handler, takes its first step later, *)
(*     is suspended in work(), and ends in a step of its own;              *)
(*   - the done callback that drops the task runs one turn after that.     *)
(* task.cancel() only marks a task: CancelledError is raised inside it     *)
(* when it next runs, and not at all if it had already ended.  Nor if it   *)
(* awaits a gather() that has a failure on its way: then it gets that.     *)
(*                                                                         *)
(* An operator named for what it gets wrong (AnswerUnchecked, ...) is a    *)
(* faulty variant of the definition below it, as in JobStore.              *)
(***************************************************************************)
EXTENDS JobStore

CONSTANTS Waiter,      \* long-polling requests that may be open at once
          Timeout,     \* the wait_seconds a caller may ask for, in ticks; a
                       \* wait that ends within the same tick is 0
          PageLimit,   \* the limits a caller may ask a listing for
          NoDeadline   \* the deadline of a request that is not waiting

ASSUME JobRunnerAssumption ==
    /\ Timeout \subseteq Nat
    /\ PageLimit \subseteq Nat \ {0}
    /\ NoDeadline \notin Nat

VARIABLES task,        \* task[j]: how far job j's asyncio.Task has got
          tasks,       \* the keys of _tasks, the strong references
          cancelling,  \* tasks marked by task.cancel() that have not run since
          waiter,      \* open long polls
          reply,       \* the answer sent in the last step
          phase        \* the process: serving, or how shutdown() ended

runnerVars == <<task, tasks, cancelling>>
vars == <<now, jobs, settled, fired, task, tasks, cancelling, waiter, reply, phase>>

-----------------------------------------------------------------------------

TaskState == {"none", "created", "working", "finished", "done"}

Unfinished(j) == task[j] \in {"created", "working"}

Idle    == [job |-> 0, account |-> NoAccount, deadline |-> NoDeadline]
NoReply == [to |-> NoAccount, code |-> 0, shown |-> {}]

(* JobResponse.of: what a caller is shown of a job. *)
Shown(j, job) == [id |-> j, status |-> job.status, outcome |-> job.outcome]

ShownRecord == [id      : Job,
                status  : Live \cup Terminal,
                outcome : {"none", "result", "error"}]

NotFound(a) == [to |-> a, code |-> 404, shown |-> {}]

OK(a, shown) == [to |-> a, code |-> 200, shown |-> shown]

(* run_or_submit's 202: the job as it was accepted. *)
Accepted(a, j) == [to |-> a, code |-> 202, shown |-> {Shown(j, NewJob(a))}]

(* What get answers: the job, or the one 404 for unknown, expired, foreign. *)
AnswerUnchecked(a, j) == OK(a, {Shown(j, Reaped[j])})

Answer(a, j) ==
    IF Visible(j, a) THEN OK(a, {Shown(j, Reaped[j])}) ELSE NotFound(a)

(* A DELETE acts on the caller's own job, and only while it is live. *)
CancellableOnceSettled(a, j) == Visible(j, a)

Cancellable(a, j) == Visible(j, a) /\ Reaped[j].status \in Live

(* task.cancel() for each of js: only a held, unfinished task is marked.   *)
MarkedOnceWorking(js) == cancelling \cup {j \in js \cap tasks : task[j] = "working"}

Marked(js) == cancelling \cup {j \in js \cap tasks : Unfinished(j)}

(* A marked task takes no step in which nothing is raised inside it. *)
MayRun(j) == j \notin cancelling

Init ==
    /\ StoreInit
    /\ task = [j \in Job |-> "none"]
    /\ tasks = {}
    /\ cancelling = {}
    /\ waiter = [w \in Waiter |-> Idle]
    /\ reply = NoReply
    /\ phase = "serving"

-----------------------------------------------------------------------------
(* Requests.                                                               *)

(* A call made with ?async=true: create the job, create its task, hold the *)
(* task, answer 202.  The task has not run yet.                            *)
Submit(a, j) ==
    /\ phase = "serving"
    /\ task[j] = "none"
    /\ \A i \in Job : i < j => task[i] # "none"
    /\ Create(j, a)
    /\ task' = [task EXCEPT ![j] = "created"]
    /\ tasks' = tasks \cup {j}
    /\ reply' = Accepted(a, j)
    /\ UNCHANGED <<now, cancelling, waiter, phase>>

(* GET /jobs/{id} that answers at once: without wait_seconds, or with it   *)
(* when the job has settled or cannot be seen.                             *)
GetJob(a, j) ==
    /\ phase = "serving"
    /\ Reap
    /\ reply' = Answer(a, j)
    /\ UNCHANGED <<now, runnerVars, waiter, phase>>

(* GET /jobs/{id}?wait_seconds=t of a live job: suspend on its Event.      *)
WaitBegin(w, a, j, t) ==
    /\ phase = "serving"
    /\ waiter[w] = Idle
    /\ Visible(j, a) /\ Reaped[j].status \in Live
    /\ Reap
    /\ waiter' = [waiter EXCEPT
                    ![w] = [job |-> j, account |-> a, deadline |-> now + t]]
    /\ reply' = NoReply
    /\ UNCHANGED <<now, runnerVars, phase>>

(* The Event was set, or asyncio.timeout ran out; either way, get.         *)
WaitReturn(w) ==
    /\ waiter[w] # Idle
    /\ waiter[w].job \in fired \/ waiter[w].deadline <= now
    /\ Reap
    /\ reply' = Answer(waiter[w].account, waiter[w].job)
    /\ waiter' = [waiter EXCEPT ![w] = Idle]
    /\ UNCHANGED <<now, runnerVars, phase>>

(* GET /jobs with an optional status filter. *)
ListJobs(a, wanted, limit) ==
    /\ phase = "serving"
    /\ Reap
    /\ reply' = OK(a, {Shown(j, Reaped[j]) : j \in Listed(a, wanted, limit)})
    /\ UNCHANGED <<now, runnerVars, waiter, phase>>

(* DELETE /jobs/{id} of a live job: mark the task, if it is still held,    *)
(* record the cancellation, answer with the job as it now is.              *)
CancelLiveJob(a, j) ==
    /\ phase = "serving"
    /\ Cancellable(a, j)
    /\ ReapThenCancel(j)
    /\ cancelling' = Marked({j})
    /\ reply' = OK(a, {[Shown(j, Reaped[j]) EXCEPT !.status = "cancelled"]})
    /\ UNCHANGED <<now, task, tasks, waiter, phase>>

(* DELETE of a job that has settled or cannot be seen changes nothing more *)
(* than the get it begins with.                                            *)
CancelOtherJob(a, j) ==
    /\ phase = "serving"
    /\ ~Cancellable(a, j)
    /\ Reap
    /\ reply' = Answer(a, j)
    /\ UNCHANGED <<now, runnerVars, waiter, phase>>

-----------------------------------------------------------------------------
(* The task of one job: _run.                                              *)

(* First step: store.start, then into work().  If the job was reaped       *)
(* before its task ran, start raises outside the try and the task ends.    *)
TaskStart(j) ==
    /\ task[j] = "created" /\ MayRun(j)
    /\ IF Present(j)
       THEN Start(j) /\ task' = [task EXCEPT ![j] = "working"]
       ELSE UNCHANGED storeVars /\ task' = [task EXCEPT ![j] = "finished"]
    /\ reply' = NoReply
    /\ UNCHANGED <<now, tasks, cancelling, waiter, phase>>

(* CancelledError, raised where work() is suspended or, in a task that     *)
(* never ran, before its first line.  Nothing is written to the store.     *)
TaskCancelled(j) ==
    /\ j \in cancelling
    /\ task' = [task EXCEPT ![j] = "finished"]
    /\ cancelling' = cancelling \ {j}
    /\ reply' = NoReply
    /\ UNCHANGED <<now, storeVars, tasks, waiter, phase>>

(* work() returned or raised: record it.  If the job has been reaped the   *)
(* store raises JobNotFoundError, which ends the task all the same.        *)
WorkEnds(j, Record) ==
    /\ task[j] = "working"
    /\ IF Present(j) THEN Record ELSE UNCHANGED storeVars
    /\ task' = [task EXCEPT ![j] = "finished"]
    /\ cancelling' = cancelling \ {j}
    /\ reply' = NoReply
    /\ UNCHANGED <<now, tasks, waiter, phase>>

WorkSucceedsAllTheSame(j) == WorkEnds(j, Finish(j))

WorkSucceeds(j) == MayRun(j) /\ WorkEnds(j, Finish(j))

WorkFailsUnrecorded(j) == WorkEnds(j, UNCHANGED storeVars)

(* A failure is recorded even in a marked task.  A lookup job awaits a     *)
(* gather(); when one of its lookups has raised and the news is still on   *)
(* its way, task.cancel() cancels the other lookups and says that it       *)
(* cancelled, but what gather() delivers is the failure, and store.fail    *)
(* does not look at the status it replaces.  Any job may be a lookup.      *)
WorkFails(j) == WorkEnds(j, Fail(j))

DoneCallbackKeepingTask(j) ==
    /\ task[j] = "finished"
    /\ task' = [task EXCEPT ![j] = "done"]
    /\ reply' = NoReply
    /\ UNCHANGED <<now, storeVars, tasks, cancelling, waiter, phase>>

(* The done callback drops the strong reference. *)
DoneCallback(j) ==
    /\ task[j] = "finished"
    /\ task' = [task EXCEPT ![j] = "done"]
    /\ tasks' = tasks \ {j}
    /\ reply' = NoReply
    /\ UNCHANGED <<now, storeVars, cancelling, waiter, phase>>

-----------------------------------------------------------------------------
(* The process.                                                            *)

(* The loop of shutdown() over the tasks it holds, in the order they were  *)
(* submitted.  store.cancel raises JobNotFoundError for a reaped job, and  *)
(* nothing catches it: the loop stops there.  The server has answered      *)
(* every open request before it calls this (uvicorn drains its requests    *)
(* with no time limit).                                                    *)
Shutdown ==
    LET reaped == {j \in tasks : ~Present(j)}
        reached == {j \in tasks : \A i \in reaped : j <= i}
    IN  /\ phase = "serving"
        /\ \A w \in Waiter : waiter[w] = Idle
        /\ CancelJobs(reached \ reaped)
        /\ cancelling' = Marked(reached)
        /\ tasks' = IF reaped = {} THEN {} ELSE tasks
        /\ phase' = IF reaped = {} THEN "closed" ELSE "aborted"
        /\ reply' = NoReply
        /\ UNCHANGED <<now, task, waiter>>

Tick ==
    /\ now < MaxTime
    /\ now' = now + 1
    /\ reply' = NoReply
    /\ UNCHANGED <<storeVars, runnerVars, waiter, phase>>

Next ==
    \/ \E a \in Account, j \in Job :
          Submit(a, j) \/ GetJob(a, j) \/ CancelLiveJob(a, j) \/ CancelOtherJob(a, j)
    \/ \E a \in Account, limit \in PageLimit :
          \E wanted \in {Live \cup Terminal} \cup {{s} : s \in Live \cup Terminal} :
             ListJobs(a, wanted, limit)
    \/ \E w \in Waiter, a \in Account, j \in Job, t \in Timeout : WaitBegin(w, a, j, t)
    \/ \E w \in Waiter : WaitReturn(w)
    \/ \E j \in Job : \/ TaskStart(j) \/ TaskCancelled(j)
                      \/ WorkSucceeds(j) \/ WorkFails(j) \/ DoneCallback(j)
    \/ Shutdown
    \/ Tick

Spec == Init /\ [][Next]_vars

(* The event loop runs every task, callback and waiter that is ready, and  *)
(* work() ends because each of its HTTP calls has a timeout and its        *)
(* retries are bounded.  Nothing is assumed of the clock or of callers.    *)
Fairness ==
    /\ \A j \in Job : /\ WF_vars(TaskStart(j))
                      /\ WF_vars(TaskCancelled(j))
                      /\ WF_vars(WorkSucceeds(j) \/ WorkFails(j))
                      /\ WF_vars(DoneCallback(j))
    /\ \A w \in Waiter : WF_vars(WaitReturn(w))

FairSpec == Spec /\ Fairness

-----------------------------------------------------------------------------
(* Invariants.                                                             *)

(* Every variable has its type. *)
TypeOK ==
    /\ StoreTypeOK
    /\ task \in [Job -> TaskState]
    /\ tasks \subseteq Job
    /\ cancelling \subseteq Job
    /\ waiter \in [Waiter -> [job      : Job,
                            account  : Account,
                            deadline : Nat] \cup {Idle}]
    /\ reply \in [to : Account, code : {200, 202, 404}, shown : SUBSET ShownRecord]
                   \cup {NoReply}
    /\ phase \in {"serving", "closed", "aborted"}

(* A job that says it is pending or running has a task that is going to    *)
(* settle it: not ended, not about to be cancelled, and strongly held, so  *)
(* asyncio cannot collect it.  Otherwise a caller would poll it for ever.  *)
NoZombie ==
    \A j \in Job : jobs[j].status \in Live =>
        /\ task[j] = IF jobs[j].status = "pending" THEN "created" ELSE "working"
        /\ j \in tasks
        /\ j \notin cancelling

(* There is exactly one Event per stored job, and it is set exactly when   *)
(* the job has settled or been reaped: no wakeup is lost and none is       *)
(* spurious, whatever order updates, reaping and waits come in.            *)
EventTracksOutcome ==
    /\ settled = {j \in Job : Present(j)}
    /\ fired = {j \in Job : task[j] # "none" /\ jobs[j].status \notin Live}

(* The runner holds a task from its creation to its done callback and not  *)
(* longer, until shutdown lets go of all of them.                          *)
HeldUntilDone ==
    /\ phase # "closed" => tasks = {j \in Job : task[j] \notin {"none", "done"}}
    /\ phase = "closed" => tasks = {}

(* Recording a cancellation and stopping the work go together: the task of *)
(* a cancelled job is marked or over, and until shutdown a task is marked  *)
(* only for a job that its owner cancelled or that has since aged out.     *)
CancelStopsTheWork ==
    /\ \A j \in Job : jobs[j].status = "cancelled" /\ Unfinished(j) => j \in cancelling
    /\ \A j \in cancelling : Unfinished(j)
    /\ phase = "serving" =>
          \A j \in cancelling : jobs[j].status \in {"cancelled", "absent"}

(* Whoever is shown a job owns it, and the job has not aged out: the wait  *)
(* of a long poll and the sharing of one store leak neither a foreign nor  *)
(* an expired job.                                                         *)
AnswersAreOwnAndFresh ==
    \A s \in reply.shown :
        /\ jobs[s.id].account = reply.to
        /\ now < jobs[s.id].created + TTL

-----------------------------------------------------------------------------
(* Action properties.                                                      *)

(* A job is cancelled, or its task marked, only in the step that answers   *)
(* the account that owns it, or by shutdown.                               *)
OnlyOwnerStops ==
    [][\A j \in Job :
          /\ phase' = "serving"
          /\ jobs'[j].status = "cancelled" \/ j \in cancelling'
          /\ jobs[j].status # "cancelled" /\ j \notin cancelling
          => reply'.to = jobs[j].account]_vars

-----------------------------------------------------------------------------
(* Liveness, under Fairness and with no help from the clock.               *)

(* Every long poll is answered even if its deadline never comes: the job   *)
(* it waits for settles or is reaped, and the wakeup reaches it.           *)
EveryWaitIsAnswered == \A w \in Waiter : waiter[w] # Idle ~> waiter[w] = Idle

(* Every accepted job leaves pending and running. *)
EveryJobSettles ==
    \A j \in Job : jobs[j].status \in Live ~> jobs[j].status \notin Live

-----------------------------------------------------------------------------
(* Refinement: what a client can learn of each job follows JobContract.    *)

Contract == INSTANCE JobContract WITH
    status  <- [j \in Job |-> IF task[j] = "none" THEN "unborn"
                              ELSE IF Present(j) THEN jobs[j].status ELSE "gone"],
    outcome <- [j \in Job |-> jobs[j].outcome],
    busy    <- {j \in Job : task[j] = "working"},
    open    <- phase = "serving"

(* Every step of the runner, the store and the handlers is one step of the *)
(* life the API promises, or changes nothing a client can see: no job      *)
(* skips running, none comes back, no result replaces a cancellation, and  *)
(* an error does only while the cancelled work has not come to rest.       *)
ImplementsContract == Contract!Spec

-----------------------------------------------------------------------------
(* Claims of the source that the code does not keep; see the README.       *)

(* "Cancel everything still running, for a clean process exit"             *)
(* (jobs/runner.py): after shutdown() no task runs on unmarked.            *)
ShutdownCancelsEverything ==
    phase # "serving" => \A j \in Job : Unfinished(j) => j \in cancelling

(* "Statuses a job will never leave." (jobs/models.py): a job that was     *)
(* answered as cancelled is cancelled for as long as it is stored.         *)
CancelledIsFinal ==
    [][\A j \in Job : jobs[j].status = "cancelled" =>
                         jobs'[j].status \in {"cancelled", "absent"}]_vars
===============================================================================
