--------------------------- MODULE JobRunnerProofs ---------------------------
(***************************************************************************)
(* Proofs about JobRunner, for every number of jobs, every set of accounts *)
(* and waiters, every time to live and every bound on the clock.           *)
(*                                                                         *)
(* The invariant has two halves.  JobInv relates the store to the tasks;   *)
(* no action but a submission, a cancellation, a step of a task, a reaping *)
(* or the shutdown can disturb it.  WaiterTypeOK and ReplyTypeOK are about  *)
(* the long polls and the last answer.                                     *)
(*                                                                         *)
(* What follows: the state invariants, whose jobs are shown and stopped,   *)
(* that JobRunner implements JobContract, and what shutdown() does stop.   *)
(***************************************************************************)
EXTENDS JobRunner, TLAPS

JobTypeOK ==
    /\ StoreTypeOK
    /\ task \in [Job -> TaskState]
    /\ tasks \subseteq Job
    /\ cancelling \subseteq Job
    /\ phase \in {"serving", "closed", "aborted"}

WaiterTypeOK ==
    waiter \in [Waiter -> [job : Job, account : Account, deadline : Nat] \cup {Idle}]

ReplyTypeOK ==
    reply \in [to : Account, code : {200, 202, 404}, shown : SUBSET ShownRecord]
              \cup {NoReply}

(* The strengthening: a job's record and its task start together, and a    *)
(* job whose task is not over has no outcome of that task's making.        *)
TaskBeforeOutcome ==
    \A j \in Job :
        /\ task[j] = "none" => jobs[j] = NoJob
        /\ Unfinished(j) => jobs[j].status \notin {"succeeded", "failed"}

JobInv ==
    /\ JobTypeOK
    /\ NoZombie
    /\ EventTracksOutcome
    /\ HeldUntilDone
    /\ CancelStopsTheWork
    /\ TaskBeforeOutcome

IInv == JobInv /\ WaiterTypeOK /\ ReplyTypeOK

USE JobStoreAssumption, JobRunnerAssumption

-----------------------------------------------------------------------------
(* What reaping leaves behind. *)

LEMMA ReapedType ==
    ASSUME StoreTypeOK
    PROVE  /\ Reaped \in [Job -> JobRecord \cup {NoJob}]
           /\ Expired \subseteq Job
           /\ \A j \in Job : Reaped[j] = NoJob \/ Reaped[j] = jobs[j]
           /\ \A j \in Job : j \in Expired => Reaped[j] = NoJob
           /\ \A j \in Job : j \notin Expired => Reaped[j] = jobs[j]
  BY DEF StoreTypeOK, Reaped, Expired

(* A job that is not in the dict is NoJob. *)
LEMMA AbsentIsNoJob ==
    ASSUME NEW r \in JobRecord \cup {NoJob}
    PROVE  r.status = "absent" <=> r = NoJob
  BY DEF JobRecord, NoJob, Live, Terminal

(* Reaping with nothing else moving keeps JobInv: this covers every        *)
(* handler that only reads.                                                *)
LEMMA ReapKeepsJobInv ==
    ASSUME JobInv, Reap, UNCHANGED <<now, runnerVars, phase>>
    PROVE  JobInv'
  <1>1. /\ jobs' \in [Job -> JobRecord \cup {NoJob}]
        /\ \A j \in Job : jobs'[j] = NoJob \/ jobs'[j] = jobs[j]
        /\ \A j \in Job : j \in Expired => jobs'[j] = NoJob
        /\ \A j \in Job : j \notin Expired => jobs'[j] = jobs[j]
        /\ Expired \subseteq Job
        /\ settled' = settled \ Expired
        /\ fired' = fired \cup (Expired \cap settled)
    BY ReapedType DEF JobInv, JobTypeOK, Reap
  <1>2. /\ task' = task /\ tasks' = tasks /\ cancelling' = cancelling
        /\ phase' = phase /\ now' = now
    BY DEF runnerVars
  <1>3. NoJob.status = "absent" /\ "absent" \notin Live
    BY DEF NoJob, Live
  <1>4. JobTypeOK'
    BY <1>1, <1>2 DEF JobInv, JobTypeOK, StoreTypeOK
  <1>5. NoZombie'
    BY <1>1, <1>2, <1>3 DEF JobInv, NoZombie
  <1>6. EventTracksOutcome'
    <2>1. \A j \in Job : Present(j)' <=> Present(j) /\ j \notin Expired
      BY <1>1, <1>3 DEF Present
    <2>2. Expired \subseteq settled
      BY <1>1 DEF Expired, JobInv, EventTracksOutcome
    <2>3. settled' = {j \in Job : Present(j)'}
      BY <1>1, <2>1 DEF JobInv, EventTracksOutcome
    <2>4. \A j \in Expired : task[j] # "none"
      BY <1>1, <1>3 DEF Expired, Present, JobInv, TaskBeforeOutcome
    <2>5. fired' = {j \in Job : task'[j] # "none" /\ jobs'[j].status \notin Live}
      BY <1>1, <1>2, <1>3, <2>2, <2>4 DEF JobInv, EventTracksOutcome
    <2> QED BY <2>3, <2>5 DEF EventTracksOutcome
  <1>7. HeldUntilDone'
    BY <1>2 DEF JobInv, HeldUntilDone
  <1>8. CancelStopsTheWork'
    BY <1>1, <1>2, <1>3 DEF JobInv, JobTypeOK, CancelStopsTheWork, Unfinished
  <1>9. TaskBeforeOutcome'
    BY <1>1, <1>2, <1>3 DEF JobInv, TaskBeforeOutcome, Unfinished
  <1> QED BY <1>4, <1>5, <1>6, <1>7, <1>8, <1>9 DEF JobInv

-----------------------------------------------------------------------------
(* The steps of one job's task. *)

LEMMA TaskStartKeepsJobInv ==
    ASSUME JobInv, NEW j \in Job, TaskStart(j)
    PROVE  JobInv'
  <1>1. /\ task[j] = "created" /\ j \notin cancelling
        /\ task' = [task EXCEPT ![j] = IF Present(j) THEN "working" ELSE "finished"]
        /\ UNCHANGED <<now, tasks, cancelling, phase, settled, fired>>
    BY DEF TaskStart, MayRun, Start, Update, SetsEvent, storeVars, Terminal, JobInv,
           JobTypeOK
  <1>2. Present(j) => jobs[j].status = "pending" /\ jobs[j] \in JobRecord
    BY <1>1 DEF JobInv, JobTypeOK, StoreTypeOK, NoZombie, TaskBeforeOutcome,
                CancelStopsTheWork, Unfinished, Present, JobRecord, NoJob, Live, Terminal
  <1>3. CASE Present(j)
    <2>1. jobs' = [i \in Job |-> IF i \in {j}
                                 THEN [jobs[i] EXCEPT !.status = "running",
                                                      !.outcome = jobs[i].outcome]
                                 ELSE jobs[i]]
      BY <1>3 DEF TaskStart, Start, Update
    <2>2. /\ jobs'[j] \in JobRecord /\ jobs'[j].status = "running"
          /\ \A i \in Job : i # j => jobs'[i] = jobs[i]
          /\ jobs' \in [Job -> JobRecord \cup {NoJob}]
      BY <1>2, <1>3, <2>1 DEF JobInv, JobTypeOK, StoreTypeOK, JobRecord, Live
    <2>3. JobTypeOK'
      BY <1>1, <1>3, <2>2 DEF JobInv, JobTypeOK, StoreTypeOK, TaskState
    <2>4. NoZombie'
      BY <1>1, <1>2, <1>3, <2>2 DEF JobInv, NoZombie, JobTypeOK, Live
    <2>5. EventTracksOutcome'
      BY <1>1, <1>2, <1>3, <2>2 DEF JobInv, EventTracksOutcome, JobTypeOK, Live, Present
    <2>6. HeldUntilDone'
      BY <1>1, <1>3 DEF JobInv, HeldUntilDone, JobTypeOK
    <2>7. CancelStopsTheWork'
      BY <1>1, <1>3, <2>2 DEF JobInv, CancelStopsTheWork, JobTypeOK, Unfinished
    <2>8. TaskBeforeOutcome'
      BY <1>1, <1>3, <2>2 DEF JobInv, TaskBeforeOutcome, JobTypeOK, Unfinished
    <2> QED BY <2>3, <2>4, <2>5, <2>6, <2>7, <2>8 DEF JobInv
  <1>4. CASE ~Present(j)
    <2>1. jobs' = jobs /\ task' = [task EXCEPT ![j] = "finished"]
      BY <1>4 DEF TaskStart, storeVars
    <2>2. jobs[j].status \notin Live
      BY <1>4 DEF Present, Live
    <2>3. JobTypeOK'
      BY <1>1, <2>1 DEF JobInv, JobTypeOK, StoreTypeOK, TaskState
    <2>4. NoZombie'
      BY <1>1, <2>1, <2>2 DEF JobInv, NoZombie, JobTypeOK
    <2>5. EventTracksOutcome'
      BY <1>1, <2>1 DEF JobInv, EventTracksOutcome, JobTypeOK, Present
    <2>6. HeldUntilDone'
      BY <1>1, <2>1 DEF JobInv, HeldUntilDone, JobTypeOK
    <2>7. CancelStopsTheWork'
      BY <1>1, <2>1 DEF JobInv, CancelStopsTheWork, JobTypeOK, Unfinished
    <2>8. TaskBeforeOutcome'
      BY <1>1, <2>1 DEF JobInv, TaskBeforeOutcome, JobTypeOK, Unfinished
    <2> QED BY <2>3, <2>4, <2>5, <2>6, <2>7, <2>8 DEF JobInv
  <1> QED BY <1>3, <1>4

LEMMA TaskCancelledKeepsJobInv ==
    ASSUME JobInv, NEW j \in Job, TaskCancelled(j)
    PROVE  JobInv'
  <1> USE DEF JobInv, TaskCancelled, storeVars
  <1>1. JobTypeOK'
    BY DEF JobTypeOK, StoreTypeOK, TaskState
  <1>2. NoZombie'
    BY DEF NoZombie, JobTypeOK
  <1>3. EventTracksOutcome'
    BY DEF EventTracksOutcome, CancelStopsTheWork, Unfinished, JobTypeOK, Present
  <1>4. HeldUntilDone'
    BY DEF HeldUntilDone, CancelStopsTheWork, Unfinished, JobTypeOK
  <1>5. CancelStopsTheWork'
    BY DEF CancelStopsTheWork, Unfinished, JobTypeOK
  <1>6. TaskBeforeOutcome'
    BY DEF TaskBeforeOutcome, Unfinished, JobTypeOK
  <1> QED BY <1>1, <1>2, <1>3, <1>4, <1>5, <1>6

(* work() returning and work() raising are alike but for what they record. *)
LEMMA WorkEndsKeepsJobInv ==
    ASSUME JobInv, NEW j \in Job, WorkSucceeds(j) \/ WorkFails(j)
    PROVE  JobInv'
  <1> DEFINE Ended(i) == i = j /\ Present(j)
  <1>1. /\ task[j] = "working"
        /\ task' = [task EXCEPT ![j] = "finished"]
        /\ cancelling' = cancelling \ {j}
        /\ UNCHANGED <<now, tasks, phase>>
    BY DEF WorkSucceeds, WorkFails, WorkEnds
  <1>2. /\ jobs' \in [Job -> JobRecord \cup {NoJob}]
        /\ \A i \in Job : ~Ended(i) => jobs'[i] = jobs[i]
        /\ Ended(j) => jobs'[j].status \in {"succeeded", "failed"}
    <2>1. CASE ~Present(j)
      BY <2>1 DEF WorkSucceeds, WorkFails, WorkEnds, storeVars, JobInv, JobTypeOK, StoreTypeOK
    <2>2. CASE Present(j)
      <3>1. PICK s \in {"succeeded", "failed"}, o \in {"result", "error"} :
                 jobs' = [i \in Job |-> IF i \in {j}
                                        THEN [jobs[i] EXCEPT !.status = s, !.outcome = o]
                                        ELSE jobs[i]]
        <4>1. CASE WorkSucceeds(j)
          BY <2>2, <4>1 DEF WorkSucceeds, WorkEnds, Finish, Update
        <4>2. CASE WorkFails(j)
          BY <2>2, <4>2 DEF WorkFails, WorkEnds, Fail, Update
        <4> QED BY <4>1, <4>2
      <3>2. jobs[j] \in JobRecord
        BY <2>2 DEF JobInv, JobTypeOK, StoreTypeOK, Present, NoJob
      <3>3. /\ jobs'[j] \in JobRecord
            /\ jobs'[j].status = s
        BY <3>1, <3>2 DEF JobRecord, Terminal
      <3>4. \A i \in Job : i # j => jobs'[i] = jobs[i]
        BY <3>1
      <3>5. jobs' \in [Job -> JobRecord \cup {NoJob}]
        <4> DEFINE ending(i) == IF i \in {j} THEN [jobs[i] EXCEPT !.status = s, !.outcome = o]
                                            ELSE jobs[i]
        <4>1. \A i \in Job : ending(i) \in JobRecord \cup {NoJob}
          BY <3>2 DEF JobInv, JobTypeOK, StoreTypeOK, JobRecord, Terminal
        <4>2. jobs' = [i \in Job |-> ending(i)]
          BY <3>1
        <4> HIDE DEF ending
        <4> QED BY <4>1, <4>2
      <3> QED BY <2>2, <3>3, <3>4, <3>5
    <2> QED BY <2>1, <2>2
  <1>3. /\ settled' = settled \cup {i \in Job : Ended(i)}
        /\ fired' = fired \cup ({i \in Job : Ended(i)} \cap settled)
    BY DEF WorkSucceeds, WorkFails, WorkEnds, Finish, Fail, Update, SetsEvent, JobInv,
           JobTypeOK, StoreTypeOK, Terminal, storeVars
  <1>4. Present(j) => jobs[j].status \in {"running", "cancelled"} /\ j \in settled
    BY <1>1 DEF JobInv, JobTypeOK, StoreTypeOK, NoZombie, EventTracksOutcome,
                TaskBeforeOutcome, Unfinished, Present, JobRecord, NoJob, Live, Terminal
  <1> HIDE DEF Ended
  <1>5. JobTypeOK'
    BY <1>1, <1>2, <1>3 DEF JobInv, JobTypeOK, StoreTypeOK, TaskState
  <1>6. NoZombie'
    BY <1>1, <1>2, <1>3, <1>4 DEF JobInv, NoZombie, JobTypeOK, Live, Ended, Present
  <1>7. EventTracksOutcome'
    BY <1>1, <1>2, <1>3, <1>4 DEF JobInv, EventTracksOutcome, JobTypeOK, Live, Ended,
                                  Present
  <1>8. HeldUntilDone'
    BY <1>1 DEF JobInv, HeldUntilDone, JobTypeOK
  <1>9. CancelStopsTheWork'
    BY <1>1, <1>2 DEF JobInv, CancelStopsTheWork, JobTypeOK, Unfinished, Ended
  <1>10. TaskBeforeOutcome'
    BY <1>1, <1>2 DEF JobInv, TaskBeforeOutcome, JobTypeOK, Unfinished, Ended
  <1> QED BY <1>5, <1>6, <1>7, <1>8, <1>9, <1>10 DEF JobInv

LEMMA DoneCallbackKeepsJobInv ==
    ASSUME JobInv, NEW j \in Job, DoneCallback(j)
    PROVE  JobInv'
  <1> USE DEF JobInv, DoneCallback, storeVars
  <1>1. JobTypeOK'
    BY DEF JobTypeOK, StoreTypeOK, TaskState
  <1>2. NoZombie'
    BY DEF NoZombie, JobTypeOK
  <1>3. EventTracksOutcome'
    BY DEF EventTracksOutcome, JobTypeOK, Present
  <1>4. HeldUntilDone'
    BY DEF HeldUntilDone, JobTypeOK
  <1>5. CancelStopsTheWork'
    BY DEF CancelStopsTheWork, Unfinished, JobTypeOK
  <1>6. TaskBeforeOutcome'
    BY DEF TaskBeforeOutcome, Unfinished, JobTypeOK
  <1> QED BY <1>1, <1>2, <1>3, <1>4, <1>5, <1>6

-----------------------------------------------------------------------------
(* Requests that write. *)

LEMMA SubmitKeepsJobInv ==
    ASSUME JobInv, NEW a \in Account, NEW j \in Job, Submit(a, j)
    PROVE  JobInv'
  <1>1. /\ task[j] = "none" /\ task' = [task EXCEPT ![j] = "created"]
        /\ tasks' = tasks \cup {j} /\ phase = "serving"
        /\ UNCHANGED <<now, cancelling, phase>>
    BY DEF Submit
  <1>2. jobs[j] = NoJob /\ j \notin Expired
    BY <1>1 DEF JobInv, TaskBeforeOutcome, Expired, Present, NoJob
  <1>3. NewJob(a) \in JobRecord /\ NewJob(a).status = "pending"
    BY DEF NewJob, JobRecord, Live, JobInv, JobTypeOK, StoreTypeOK
  <1>4. /\ jobs' \in [Job -> JobRecord \cup {NoJob}]
        /\ jobs'[j] = NewJob(a)
        /\ \A i \in Job : i # j /\ i \in Expired => jobs'[i] = NoJob
        /\ \A i \in Job : i # j /\ i \notin Expired => jobs'[i] = jobs[i]
        /\ Expired \subseteq Job
        /\ settled' = (settled \ Expired) \cup {j}
        /\ fired' = fired \cup (Expired \cap settled)
    BY <1>3, ReapedType DEF Submit, Create, JobInv, JobTypeOK
  <1>5. NoJob.status = "absent" /\ "absent" \notin Live \cup {"cancelled"} /\ "pending" \in Live
    BY DEF NoJob, Live
  <1>6. JobTypeOK'
    BY <1>1, <1>4 DEF JobInv, JobTypeOK, StoreTypeOK, TaskState
  <1>7. NoZombie'
    BY <1>1, <1>3, <1>4, <1>5 DEF JobInv, NoZombie, JobTypeOK, CancelStopsTheWork, Unfinished
  <1>8. EventTracksOutcome'
    <2>1. \A i \in Job : Present(i)' <=> i = j \/ (Present(i) /\ i \notin Expired)
      BY <1>2, <1>3, <1>4, <1>5 DEF Present
    <2>2. /\ Expired \subseteq settled
          /\ \A i \in Expired : task[i] # "none"
      BY <1>4, <1>5 DEF Expired, Present, JobInv, EventTracksOutcome, TaskBeforeOutcome
    <2>3. settled' = {i \in Job : Present(i)'}
      BY <1>2, <1>4, <2>1 DEF JobInv, EventTracksOutcome
    <2>4. fired' = {i \in Job : task'[i] # "none" /\ jobs'[i].status \notin Live}
      BY <1>1, <1>2, <1>3, <1>4, <1>5, <2>2 DEF JobInv, JobTypeOK, EventTracksOutcome
    <2> QED BY <2>3, <2>4 DEF EventTracksOutcome
  <1>9. HeldUntilDone'
    BY <1>1 DEF JobInv, HeldUntilDone, JobTypeOK
  <1>10. CancelStopsTheWork'
    BY <1>1, <1>3, <1>4, <1>5 DEF JobInv, CancelStopsTheWork, JobTypeOK, Unfinished
  <1>11. TaskBeforeOutcome'
    BY <1>1, <1>3, <1>4, <1>5 DEF JobInv, TaskBeforeOutcome, JobTypeOK, Unfinished
  <1> QED BY <1>6, <1>7, <1>8, <1>9, <1>10, <1>11 DEF JobInv

LEMMA CancelKeepsJobInv ==
    ASSUME JobInv, NEW a \in Account, NEW j \in Job, CancelLiveJob(a, j)
    PROVE  JobInv'
  <1>1. /\ phase = "serving"
        /\ cancelling' = cancelling \cup ({j} \cap {i \in tasks : Unfinished(i)})
        /\ UNCHANGED <<now, task, tasks, phase>>
    BY DEF CancelLiveJob, Marked
  <1>2. NoJob.status = "absent" /\ "absent" \notin Live \cup {"cancelled"}
        /\ "cancelled" \notin Live
    BY DEF NoJob, Live
  <1>3. j \notin Expired /\ Reaped[j] = jobs[j] /\ jobs[j].status \in Live
    BY <1>2, ReapedType DEF CancelLiveJob, Cancellable, Visible, JobInv, JobTypeOK
  <1>4. jobs[j] \in JobRecord /\ task[j] # "none" /\ Unfinished(j) /\ j \in tasks
    BY <1>2, <1>3 DEF JobInv, JobTypeOK, StoreTypeOK, NoZombie, Unfinished
  <1>5. /\ jobs' \in [Job -> JobRecord \cup {NoJob}]
        /\ jobs'[j].status = "cancelled"
        /\ \A i \in Job : i # j /\ i \in Expired => jobs'[i] = NoJob
        /\ \A i \in Job : i # j /\ i \notin Expired => jobs'[i] = jobs[i]
        /\ Expired \subseteq Job
        /\ settled' = (settled \ Expired) \cup {j}
        /\ fired' = fired \cup ((Expired \cup {j}) \cap settled)
    <2>1. jobs' = [Reaped EXCEPT ![j] = [jobs[j] EXCEPT !.status = "cancelled"]]
      BY <1>3 DEF CancelLiveJob, ReapThenCancel
    <2>2. /\ [jobs[j] EXCEPT !.status = "cancelled"] \in JobRecord
          /\ [jobs[j] EXCEPT !.status = "cancelled"].status = "cancelled"
      BY <1>4 DEF JobRecord, Terminal
    <2> QED BY <2>1, <2>2, ReapedType DEF JobInv, JobTypeOK, CancelLiveJob, ReapThenCancel
  <1>6. JobTypeOK'
    BY <1>1, <1>5 DEF JobInv, JobTypeOK, StoreTypeOK
  <1>7. NoZombie'
    BY <1>1, <1>2, <1>5 DEF JobInv, NoZombie, JobTypeOK
  <1>8. EventTracksOutcome'
    <2>1. \A i \in Job : Present(i)' <=> Present(i) /\ i \notin Expired
      BY <1>2, <1>3, <1>5 DEF Present, Live
    <2>2. /\ Expired \subseteq settled
          /\ \A i \in Expired : task[i] # "none"
      BY <1>2, <1>5 DEF Expired, Present, JobInv, EventTracksOutcome, TaskBeforeOutcome
    <2>3. j \in settled
      BY <1>2, <1>3 DEF JobInv, EventTracksOutcome, Present
    <2>4. settled' = {i \in Job : Present(i)'}
      BY <1>3, <1>5, <2>1, <2>3 DEF JobInv, EventTracksOutcome
    <2>5. fired' = {i \in Job : task'[i] # "none" /\ jobs'[i].status \notin Live}
      BY <1>1, <1>2, <1>4, <1>5, <2>2, <2>3 DEF JobInv, JobTypeOK, EventTracksOutcome
    <2> QED BY <2>4, <2>5 DEF EventTracksOutcome
  <1>9. HeldUntilDone'
    BY <1>1 DEF JobInv, HeldUntilDone, JobTypeOK
  <1>10. CancelStopsTheWork'
    BY <1>1, <1>2, <1>4, <1>5 DEF JobInv, CancelStopsTheWork, JobTypeOK, Unfinished
  <1>11. TaskBeforeOutcome'
    BY <1>1, <1>2, <1>4, <1>5 DEF JobInv, TaskBeforeOutcome, JobTypeOK, Unfinished
  <1> QED BY <1>6, <1>7, <1>8, <1>9, <1>10, <1>11 DEF JobInv

-----------------------------------------------------------------------------
(* The shutdown loop, whether it gets through or stops at a reaped job. *)

LEMMA ShutdownKeepsJobInv ==
    ASSUME JobInv, Shutdown
    PROVE  JobInv'
  <1> DEFINE reaped    == {j \in tasks : ~Present(j)}
             reached   == {j \in tasks : \A i \in reaped : j <= i}
             cancelled == reached \ reaped
  <1>1. /\ phase = "serving"
        /\ cancelling' = cancelling \cup {j \in reached : Unfinished(j)}
        /\ tasks' = IF reaped = {} THEN {} ELSE tasks
        /\ phase' = IF reaped = {} THEN "closed" ELSE "aborted"
        /\ UNCHANGED <<now, task>>
    BY DEF Shutdown, Marked
  <1>2. /\ jobs' = [j \in Job |-> IF j \in cancelled
                                  THEN [jobs[j] EXCEPT !.status = "cancelled"]
                                  ELSE jobs[j]]
        /\ settled' = settled \cup cancelled
        /\ fired' = fired \cup (cancelled \cap settled)
    <2>1. CancelJobs(cancelled)
      BY DEF Shutdown
    <2>2. \A j \in Job : jobs[j] \in JobRecord \cup {NoJob}
      BY DEF JobInv, JobTypeOK, StoreTypeOK
    <2>3. \A r \in JobRecord \cup {NoJob} :
             [r EXCEPT !.status = "cancelled", !.outcome = @]
                = [r EXCEPT !.status = "cancelled"]
      BY DEF JobRecord, NoJob
    <2> HIDE DEF cancelled
    <2>4. jobs' = [j \in Job |-> IF j \in cancelled
                                 THEN [jobs[j] EXCEPT !.status = "cancelled",
                                                      !.outcome = @]
                                 ELSE jobs[j]]
      BY <2>1 DEF CancelJobs, Update
    <2> QED BY <2>1, <2>2, <2>3, <2>4 DEF CancelJobs, Update, SetsEvent, Terminal
  <1>3. \A j \in cancelled :
           /\ j \in Job /\ j \in tasks /\ Present(j) /\ j \in settled
           /\ jobs[j] \in JobRecord
           /\ task[j] # "none"
    BY <1>1 DEF JobInv, JobTypeOK, StoreTypeOK, Present, NoJob, EventTracksOutcome,
                HeldUntilDone
  <1>4. /\ jobs' \in [Job -> JobRecord \cup {NoJob}]
        /\ \A j \in cancelled : jobs'[j].status = "cancelled"
        /\ \A j \in Job \ cancelled : jobs'[j] = jobs[j]
        /\ "cancelled" \notin Live
    <2> HIDE DEF cancelled
    <2>1. \A r \in JobRecord : /\ [r EXCEPT !.status = "cancelled"] \in JobRecord
                               /\ [r EXCEPT !.status = "cancelled"].status = "cancelled"
      BY DEF JobRecord, Terminal
    <2> QED BY <1>2, <1>3, <2>1 DEF JobInv, JobTypeOK, StoreTypeOK, Live
  <1>5. reached \subseteq Job /\ cancelled \subseteq reached /\ reached \subseteq tasks
    BY DEF JobInv, JobTypeOK
  <1>6. reaped = {} => reached = tasks /\ cancelled = tasks
    OBVIOUS
  <1>7. JobTypeOK'
    <2> HIDE DEF cancelled, reached, reaped
    <2> QED BY <1>1, <1>2, <1>3, <1>4, <1>5 DEF JobInv, JobTypeOK, StoreTypeOK
  <1>8. NoZombie'
    <2> SUFFICES ASSUME NEW j \in Job, jobs'[j].status \in Live
                 PROVE  /\ task[j] = IF jobs'[j].status = "pending" THEN "created"
                                                                   ELSE "working"
                        /\ j \in tasks'
                        /\ j \notin cancelling'
      BY <1>1 DEF NoZombie
    <2>1. j \notin cancelled /\ jobs'[j] = jobs[j]
      BY <1>4
    <2>2. j \in tasks /\ j \notin cancelling
          /\ task[j] = IF jobs[j].status = "pending" THEN "created" ELSE "working"
      BY <2>1 DEF JobInv, NoZombie
    <2>3. j \notin reaped
      BY <2>1 DEF Present, Live
    <2>4. j \notin reached /\ reaped # {}
      BY <1>6, <2>1, <2>2, <2>3
    <2> HIDE DEF cancelled, reached, reaped
    <2> QED BY <1>1, <2>1, <2>2, <2>4
  <1>9. EventTracksOutcome'
    <2> HIDE DEF cancelled, reached, reaped
    <2>1. \A j \in Job : Present(j)' <=> Present(j)
      BY <1>3, <1>4 DEF Present
    <2>2. settled' = {j \in Job : Present(j)'}
      BY <1>2, <1>3, <2>1 DEF JobInv, EventTracksOutcome
    <2>3. fired' = {j \in Job : task'[j] # "none" /\ jobs'[j].status \notin Live}
      BY <1>1, <1>2, <1>3, <1>4 DEF JobInv, EventTracksOutcome
    <2> QED BY <2>2, <2>3 DEF EventTracksOutcome
  <1>10. HeldUntilDone'
    BY <1>1 DEF JobInv, HeldUntilDone
  <1>11. CancelStopsTheWork'
    <2> HIDE DEF cancelled, reached, reaped
    <2> QED BY <1>1, <1>4, <1>5 DEF JobInv, JobTypeOK, CancelStopsTheWork, Unfinished
  <1>12. TaskBeforeOutcome'
    <2> HIDE DEF cancelled, reached, reaped
    <2> QED BY <1>1, <1>3, <1>4 DEF JobInv, TaskBeforeOutcome, Unfinished
  <1> QED BY <1>7, <1>8, <1>9, <1>10, <1>11, <1>12 DEF JobInv

(* The clock moves nothing but itself. *)
LEMMA TickKeepsJobInv ==
    ASSUME JobInv, Tick
    PROVE  JobInv'
  BY DEF Tick, JobInv, JobTypeOK, StoreTypeOK, NoZombie, EventTracksOutcome,
         HeldUntilDone, CancelStopsTheWork, TaskBeforeOutcome, Unfinished, Present,
         storeVars, runnerVars

-----------------------------------------------------------------------------
(* The long polls and the answers. *)

(* Whatever get answers has the type of an answer. *)
LEMMA AnswerType ==
    ASSUME StoreTypeOK, NEW a \in Account, NEW j \in Job
    PROVE  Answer(a, j) \in [to : Account, code : {200, 202, 404},
                             shown : SUBSET ShownRecord]
  <1>1. ASSUME Reaped[j].status # "absent"
        PROVE  Shown(j, Reaped[j]) \in ShownRecord
    BY <1>1, ReapedType DEF Shown, ShownRecord, JobRecord, NoJob
  <1> QED BY <1>1 DEF Answer, OK, NotFound, Visible

LEMMA ReplyKeepsType ==
    ASSUME JobInv, WaiterTypeOK, ReplyTypeOK, Next
    PROVE  ReplyTypeOK'
  <1> DEFINE Replies == [to : Account, code : {200, 202, 404}, shown : SUBSET ShownRecord]
  <1>1. StoreTypeOK
    BY DEF JobInv, JobTypeOK
  <1>2. ASSUME NEW a \in Account, NEW j \in Job, Submit(a, j)
        PROVE  reply' \in Replies
    BY <1>2 DEF Submit, Accepted, Shown, NewJob, ShownRecord, Live
  <1>3. ASSUME NEW a \in Account, NEW j \in Job, GetJob(a, j) \/ CancelOtherJob(a, j)
        PROVE  reply' \in Replies
    BY <1>1, <1>3, AnswerType DEF GetJob, CancelOtherJob
  <1>4. ASSUME NEW a \in Account, NEW j \in Job, CancelLiveJob(a, j)
        PROVE  reply' \in Replies
    <2>1. Reaped[j] \in JobRecord
      BY <1>1, <1>4, ReapedType, AbsentIsNoJob DEF CancelLiveJob, Cancellable, Visible
    <2>2. [Shown(j, Reaped[j]) EXCEPT !.status = "cancelled"] \in ShownRecord
      BY <2>1 DEF Shown, ShownRecord, JobRecord, Terminal
    <2> QED BY <1>4, <2>2 DEF CancelLiveJob, OK
  <1>5. ASSUME NEW a \in Account, NEW limit \in PageLimit,
               NEW wanted \in {Live \cup Terminal} \cup {{s} : s \in Live \cup Terminal},
               ListJobs(a, wanted, limit)
        PROVE  reply' \in Replies
    <2>1. \A j \in Listed(a, wanted, limit) : j \in Job /\ Visible(j, a)
      BY DEF Listed
    <2>2. \A j \in Listed(a, wanted, limit) : Shown(j, Reaped[j]) \in ShownRecord
      BY <1>1, <2>1, ReapedType, AbsentIsNoJob DEF Visible, Shown, ShownRecord, JobRecord
    <2> QED BY <1>5, <2>2 DEF ListJobs, OK
  <1>6. ASSUME NEW w \in Waiter, WaitReturn(w)
        PROVE  reply' \in Replies
    <2>1. waiter[w].account \in Account /\ waiter[w].job \in Job
      BY <1>6 DEF WaitReturn, WaiterTypeOK
    <2> QED BY <1>1, <1>6, <2>1, AnswerType DEF WaitReturn
  <1>7. ASSUME \/ \E w \in Waiter, a \in Account, j \in Job, t \in Timeout : WaitBegin(w, a, j, t)
               \/ \E j \in Job : \/ TaskStart(j) \/ TaskCancelled(j) \/ WorkSucceeds(j)
                                 \/ WorkFails(j) \/ DoneCallback(j)
               \/ Shutdown
               \/ Tick
        PROVE  reply' = NoReply
    BY <1>7 DEF WaitBegin, TaskStart, TaskCancelled, WorkSucceeds, WorkFails, WorkEnds,
                DoneCallback, Shutdown, Tick
  <1> HIDE DEF Replies
  <1>8. reply' \in Replies \/ reply' = NoReply
    BY <1>2, <1>3, <1>4, <1>5, <1>6, <1>7 DEF Next
  <1> QED BY <1>8 DEF ReplyTypeOK, Replies

LEMMA WaiterKeepsType ==
    ASSUME JobInv, WaiterTypeOK, Next
    PROVE  WaiterTypeOK'
  <1>1. ASSUME NEW w \in Waiter, NEW a \in Account, NEW j \in Job, NEW t \in Timeout,
               WaitBegin(w, a, j, t)
        PROVE  WaiterTypeOK'
    <2>1. now + t \in Nat
      BY DEF JobInv, JobTypeOK, StoreTypeOK
    <2> QED BY <1>1, <2>1 DEF WaitBegin, WaiterTypeOK
  <1>2. ASSUME NEW w \in Waiter, WaitReturn(w)
        PROVE  WaiterTypeOK'
    BY <1>2 DEF WaitReturn, WaiterTypeOK
  <1>3. CASE waiter' = waiter
    BY <1>3 DEF WaiterTypeOK
  <1> QED BY <1>1, <1>2, <1>3
          DEF Next, Submit, GetJob, CancelLiveJob, CancelOtherJob, ListJobs, TaskStart,
              TaskCancelled, WorkSucceeds, WorkFails, WorkEnds, DoneCallback, Shutdown, Tick

-----------------------------------------------------------------------------

(* The runner begins with it. *)
LEMMA InitImpliesIInv == Init => IInv
  <1> SUFFICES ASSUME Init PROVE IInv
    OBVIOUS
  <1> USE DEF Init, StoreInit
  <1>1. JobTypeOK
    BY DEF JobTypeOK, StoreTypeOK, TaskState
  <1>2. NoZombie /\ EventTracksOutcome /\ TaskBeforeOutcome /\ CancelStopsTheWork
    BY DEF NoZombie, EventTracksOutcome, TaskBeforeOutcome, CancelStopsTheWork, Unfinished,
           Present, NoJob, Live
  <1>3. HeldUntilDone
    BY DEF HeldUntilDone
  <1>4. WaiterTypeOK /\ ReplyTypeOK
    BY DEF WaiterTypeOK, ReplyTypeOK
  <1> QED BY <1>1, <1>2, <1>3, <1>4 DEF IInv, JobInv

(* Every step keeps what is known of jobs and tasks. *)
LEMMA NextKeepsJobInv == JobInv /\ [Next]_vars => JobInv'
  <1> SUFFICES ASSUME JobInv, [Next]_vars PROVE JobInv'
    OBVIOUS
  <1>1. ASSUME NEW a \in Account, NEW j \in Job, Submit(a, j)
        PROVE  JobInv'
    BY <1>1, SubmitKeepsJobInv
  <1>2. ASSUME NEW a \in Account, NEW j \in Job, CancelLiveJob(a, j)
        PROVE  JobInv'
    BY <1>2, CancelKeepsJobInv
  <1>3. ASSUME \/ \E a \in Account, j \in Job : GetJob(a, j) \/ CancelOtherJob(a, j)
               \/ \E a \in Account, limit \in PageLimit :
                     \E wanted \in {Live \cup Terminal} \cup {{s} : s \in Live \cup Terminal} :
                        ListJobs(a, wanted, limit)
               \/ \E w \in Waiter, a \in Account, j \in Job, t \in Timeout : WaitBegin(w, a, j, t)
               \/ \E w \in Waiter : WaitReturn(w)
        PROVE  JobInv'
    <2>1. Reap /\ UNCHANGED <<now, runnerVars, phase>>
      BY <1>3 DEF GetJob, CancelOtherJob, ListJobs, WaitBegin, WaitReturn
    <2> QED BY <2>1, ReapKeepsJobInv
  <1>4. ASSUME NEW j \in Job, TaskStart(j)
        PROVE  JobInv'
    BY <1>4, TaskStartKeepsJobInv
  <1>5. ASSUME NEW j \in Job, TaskCancelled(j)
        PROVE  JobInv'
    BY <1>5, TaskCancelledKeepsJobInv
  <1>6. ASSUME NEW j \in Job, WorkSucceeds(j) \/ WorkFails(j)
        PROVE  JobInv'
    BY <1>6, WorkEndsKeepsJobInv
  <1>7. ASSUME NEW j \in Job, DoneCallback(j)
        PROVE  JobInv'
    BY <1>7, DoneCallbackKeepsJobInv
  <1>8. CASE Shutdown
    BY <1>8, ShutdownKeepsJobInv
  <1>9. CASE Tick
    BY <1>9, TickKeepsJobInv
  <1>10. CASE UNCHANGED vars
    BY <1>10 DEF vars, JobInv, JobTypeOK, StoreTypeOK, NoZombie, EventTracksOutcome,
                 HeldUntilDone, CancelStopsTheWork, TaskBeforeOutcome, Unfinished, Present
  <1> QED BY <1>1, <1>2, <1>3, <1>4, <1>5, <1>6, <1>7, <1>8, <1>9, <1>10 DEF Next

(* The inductive invariant holds in every reachable state. *)
THEOREM Invariance == Spec => []IInv
  <1>1. Init => IInv
    BY InitImpliesIInv
  <1>2. IInv /\ [Next]_vars => IInv'
    <2> SUFFICES ASSUME IInv, [Next]_vars PROVE IInv'
      OBVIOUS
    <2>1. JobInv'
      BY NextKeepsJobInv DEF IInv
    <2>2. CASE Next
      BY <2>1, <2>2, WaiterKeepsType, ReplyKeepsType DEF IInv
    <2>3. CASE UNCHANGED vars
      BY <2>1, <2>3 DEF IInv, vars, WaiterTypeOK, ReplyTypeOK
    <2> QED BY <2>2, <2>3
  <1> QED BY <1>1, <1>2, PTL DEF Spec

(* Every variable keeps its type. *)
THEOREM TypeCorrect == Spec => []TypeOK
  <1>1. IInv => TypeOK
    BY DEF IInv, JobInv, JobTypeOK, WaiterTypeOK, ReplyTypeOK, TypeOK
  <1> QED BY <1>1, Invariance, PTL

(* A pending or running job always has a live, held, unmarked task.        *)
THEOREM NoZombieJobs == Spec => []NoZombie
  <1>1. IInv => NoZombie
    BY DEF IInv, JobInv
  <1> QED BY <1>1, Invariance, PTL

(* An Event is set exactly when its job has settled or been reaped.        *)
THEOREM EventsTrackOutcomes == Spec => []EventTracksOutcome
  <1>1. IInv => EventTracksOutcome
    BY DEF IInv, JobInv
  <1> QED BY <1>1, Invariance, PTL

(* A task is held from its creation to its done callback.                  *)
THEOREM TasksHeldUntilDone == Spec => []HeldUntilDone
  <1>1. IInv => HeldUntilDone
    BY DEF IInv, JobInv
  <1> QED BY <1>1, Invariance, PTL

(* A cancelled job's task is marked or over, and only such tasks are.      *)
THEOREM CancellationStopsWork == Spec => []CancelStopsTheWork
  <1>1. IInv => CancelStopsTheWork
    BY DEF IInv, JobInv
  <1> QED BY <1>1, Invariance, PTL

-----------------------------------------------------------------------------
(* Whose job is shown, and whose is stopped. *)

(* Reaping leaves nothing that has aged out, so what a caller can see is   *)
(* that caller's own and fresh.                                            *)
LEMMA VisibleIsOwnAndFresh ==
    ASSUME StoreTypeOK, NEW j \in Job, NEW a \in Account, Visible(j, a)
    PROVE  /\ Reaped[j] = jobs[j] /\ jobs[j] \in JobRecord
           /\ jobs[j].account = a
           /\ now < jobs[j].created + TTL
  <1>1. j \notin Expired /\ Reaped[j] = jobs[j] /\ jobs[j].account = a
    BY ReapedType DEF Visible, NoJob
  <1>2. Present(j)
    BY <1>1 DEF Visible, Present
  <1>3. jobs[j] \in JobRecord
    BY <1>2 DEF StoreTypeOK, Present, NoJob
  <1>4. jobs[j].created \in Int /\ now \in Int /\ TTL \in Int
    BY <1>3 DEF StoreTypeOK, JobRecord
  <1>5. ~(jobs[j].created <= now - TTL)
    BY <1>1, <1>2 DEF Expired
  <1> QED BY <1>1, <1>3, <1>4, <1>5

(* An answer made from what reaping left is made of own and fresh jobs. *)
LEMMA AnswerIsOwnAndFresh ==
    ASSUME StoreTypeOK, NEW a \in Account, NEW j \in Job, Reap, now' = now,
           reply' = Answer(a, j)
    PROVE  AnswersAreOwnAndFresh'
  <1>1. CASE Visible(j, a)
    <2>1. /\ reply'.to = a
          /\ \A s \in reply'.shown : s.id = j
      BY <1>1 DEF Answer, OK, Shown
    <2>2. jobs'[j] = jobs[j]
      BY <1>1, VisibleIsOwnAndFresh DEF Reap
    <2> QED BY <1>1, <2>1, <2>2, VisibleIsOwnAndFresh DEF AnswersAreOwnAndFresh
  <1>2. CASE ~Visible(j, a)
    BY <1>2 DEF Answer, NotFound, AnswersAreOwnAndFresh
  <1> QED BY <1>1, <1>2

(* Every answer is made in the step that reaped, from what was left. *)
LEMMA AnswersKeep ==
    ASSUME IInv, AnswersAreOwnAndFresh, [Next]_vars
    PROVE  AnswersAreOwnAndFresh'
  <1>1. StoreTypeOK /\ WaiterTypeOK
    BY DEF IInv, JobInv, JobTypeOK
  <1>2. ASSUME NEW a \in Account, NEW j \in Job, Submit(a, j)
        PROVE  AnswersAreOwnAndFresh'
    <2>1. jobs'[j] = NewJob(a) /\ now' = now
      BY <1>1, <1>2, ReapedType DEF Submit, Create
    <2>2. reply'.to = a /\ \A s \in reply'.shown : s.id = j
      BY <1>2 DEF Submit, Accepted, Shown
    <2>3. jobs'[j].account = a /\ jobs'[j].created = now /\ now \in Int
      BY <1>1, <2>1 DEF NewJob, StoreTypeOK
    <2>4. now < now + TTL
      BY <2>3
    <2> QED BY <2>1, <2>2, <2>3, <2>4 DEF AnswersAreOwnAndFresh
  <1>3. ASSUME NEW a \in Account, NEW j \in Job, GetJob(a, j) \/ CancelOtherJob(a, j)
        PROVE  AnswersAreOwnAndFresh'
    BY <1>1, <1>3, AnswerIsOwnAndFresh DEF GetJob, CancelOtherJob
  <1>4. ASSUME NEW a \in Account, NEW j \in Job, CancelLiveJob(a, j)
        PROVE  AnswersAreOwnAndFresh'
    <2>1. Visible(j, a)
      BY <1>4 DEF CancelLiveJob, Cancellable
    <2>2. jobs' = [Reaped EXCEPT ![j].status = "cancelled"] /\ now' = now
      BY <1>4 DEF CancelLiveJob, ReapThenCancel
    <2>3. Reaped[j] = jobs[j] /\ jobs[j] \in JobRecord
      BY <1>1, <2>1, VisibleIsOwnAndFresh
    <2>4. jobs'[j].account = jobs[j].account /\ jobs'[j].created = jobs[j].created
      BY <1>1, <2>2, <2>3, ReapedType DEF JobRecord
    <2>5. reply'.to = a /\ \A s \in reply'.shown : s.id = j
      BY <1>4 DEF CancelLiveJob, OK, Shown
    <2> QED BY <1>1, <2>1, <2>2, <2>4, <2>5, VisibleIsOwnAndFresh DEF AnswersAreOwnAndFresh
  <1>5. ASSUME NEW a \in Account, NEW wanted, NEW limit, ListJobs(a, wanted, limit)
        PROVE  AnswersAreOwnAndFresh'
    <2>1. \A j \in Listed(a, wanted, limit) : j \in Job /\ Visible(j, a)
      BY DEF Listed
    <2>2. \A s \in reply'.shown : s.id \in Job /\ Visible(s.id, a)
      BY <1>5, <2>1 DEF ListJobs, OK, Shown
    <2>3. reply'.to = a /\ jobs' = Reaped /\ now' = now
      BY <1>5 DEF ListJobs, OK, Reap
    <2> QED BY <1>1, <2>2, <2>3, VisibleIsOwnAndFresh DEF AnswersAreOwnAndFresh
  <1>6. ASSUME NEW w \in Waiter, WaitReturn(w)
        PROVE  AnswersAreOwnAndFresh'
    <2>1. waiter[w].account \in Account /\ waiter[w].job \in Job
      BY <1>1, <1>6 DEF WaitReturn, WaiterTypeOK
    <2> QED BY <1>1, <1>6, <2>1, AnswerIsOwnAndFresh DEF WaitReturn
  <1>7. CASE reply' = NoReply
    BY <1>7 DEF NoReply, AnswersAreOwnAndFresh
  <1>8. CASE UNCHANGED vars
    BY <1>8 DEF vars, AnswersAreOwnAndFresh
  <1> QED BY <1>2, <1>3, <1>4, <1>5, <1>6, <1>7, <1>8
          DEF Next, WaitBegin, TaskStart, TaskCancelled, WorkSucceeds, WorkFails, WorkEnds,
              DoneCallback, Shutdown, Tick

(* Whoever is shown a job owns it, and it has not aged out.                *)
THEOREM AnswersOwnAndFresh == Spec => []AnswersAreOwnAndFresh
  <1>1. Init => AnswersAreOwnAndFresh
    BY DEF Init, NoReply, AnswersAreOwnAndFresh
  <1>2. IInv /\ AnswersAreOwnAndFresh /\ [Next]_vars => AnswersAreOwnAndFresh'
    BY AnswersKeep
  <1> QED BY <1>1, <1>2, Invariance, PTL DEF Spec

(* Only CancelLiveJob and Shutdown stop a job that nobody had stopped. *)
LEMMA StopsAreAnswered ==
    ASSUME IInv, Next, NEW j \in Job, phase' = "serving",
           jobs'[j].status = "cancelled" \/ j \in cancelling',
           jobs[j].status # "cancelled", j \notin cancelling
    PROVE  reply'.to = jobs[j].account
  <1>1. StoreTypeOK /\ NoJob.status # "cancelled"
    BY DEF IInv, JobInv, JobTypeOK, NoJob
  <1>2. Reaped[j].status # "cancelled"
    BY <1>1, ReapedType
  <1>3. CASE Reap /\ UNCHANGED runnerVars
    BY <1>2, <1>3 DEF Reap, runnerVars
  <1>4. CASE jobs' = jobs /\ cancelling' \subseteq cancelling
    BY <1>4
  <1>5. ASSUME NEW a \in Account, NEW i \in Job, Submit(a, i)
        PROVE  FALSE
    <2>1. jobs'[j] = Reaped[j] \/ jobs'[j] = NewJob(a)
      BY <1>1, <1>5, ReapedType DEF Submit, Create
    <2> QED BY <1>2, <1>5, <2>1 DEF Submit, NewJob
  <1>6. ASSUME NEW a \in Account, NEW i \in Job, CancelLiveJob(a, i)
        PROVE  reply'.to = jobs[j].account
    <2>1. Visible(i, a) /\ jobs' = [Reaped EXCEPT ![i].status = "cancelled"]
          /\ cancelling' = Marked({i}) /\ reply'.to = a
      BY <1>6 DEF CancelLiveJob, Cancellable, ReapThenCancel, OK
    <2>2. j # i => jobs'[j] = Reaped[j] /\ j \notin cancelling'
      BY <1>1, <2>1, ReapedType DEF Marked
    <2>3. j = i
      BY <1>2, <2>2
    <2> QED BY <1>1, <2>1, <2>3, VisibleIsOwnAndFresh
  <1>7. ASSUME NEW i \in Job, TaskStart(i) \/ WorkSucceeds(i) \/ WorkFails(i)
        PROVE  FALSE
    <2>1. cancelling' \subseteq cancelling
      BY <1>7 DEF TaskStart, WorkSucceeds, WorkFails, WorkEnds
    <2>2. jobs[j] \in JobRecord \cup {NoJob}
      BY <1>1 DEF StoreTypeOK
    <2>3. CASE jobs' = jobs
      BY <2>1, <2>3
    <2>4. CASE jobs' # jobs
      <3>1. CASE TaskStart(i)
        <4>1. jobs' = [k \in Job |-> IF k \in {i}
                                     THEN [jobs[k] EXCEPT !.status = "running",
                                                          !.outcome = jobs[k].outcome]
                                     ELSE jobs[k]]
          BY <2>4, <3>1 DEF TaskStart, Start, Update, storeVars
        <4> QED BY <2>1, <2>2, <4>1 DEF JobRecord, NoJob
      <3>2. CASE WorkSucceeds(i)
        <4>1. jobs' = [k \in Job |-> IF k \in {i}
                                     THEN [jobs[k] EXCEPT !.status = "succeeded",
                                                          !.outcome = "result"]
                                     ELSE jobs[k]]
          BY <2>4, <3>2 DEF WorkSucceeds, WorkEnds, Finish, Update, storeVars
        <4> QED BY <2>1, <2>2, <4>1 DEF JobRecord, NoJob
      <3>3. CASE WorkFails(i)
        <4>1. jobs' = [k \in Job |-> IF k \in {i}
                                     THEN [jobs[k] EXCEPT !.status = "failed",
                                                          !.outcome = "error"]
                                     ELSE jobs[k]]
          BY <2>4, <3>3 DEF WorkFails, WorkEnds, Fail, Update, storeVars
        <4> QED BY <2>1, <2>2, <4>1 DEF JobRecord, NoJob
      <3> QED BY <1>7, <3>1, <3>2, <3>3
    <2> QED BY <2>3, <2>4
  <1>8. CASE Shutdown
    BY <1>8 DEF Shutdown
  <1> QED BY <1>3, <1>4, <1>5, <1>6, <1>7, <1>8
          DEF Next, GetJob, CancelOtherJob, ListJobs, WaitBegin, WaitReturn, TaskCancelled,
              DoneCallback, Tick, storeVars, runnerVars

(* Between its acceptance and shutdown nobody but its owner stops a job.   *)
THEOREM OwnersStop == Spec => OnlyOwnerStops
  <1>1. IInv /\ [Next]_vars =>
           [\A j \in Job :
               /\ phase' = "serving"
               /\ jobs'[j].status = "cancelled" \/ j \in cancelling'
               /\ jobs[j].status # "cancelled" /\ j \notin cancelling
               => reply'.to = jobs[j].account]_vars
    BY StopsAreAnswered
  <1> QED BY <1>1, Invariance, PTL DEF Spec, OnlyOwnerStops

-----------------------------------------------------------------------------
(* JobRunner implements JobContract: every step is one step of the         *)
(* contract or changes nothing that a client can see.                      *)

(* The refinement mapping of Contract: what a client sees of a job.        *)
Life(j) ==
    IF task[j] = "none" THEN "unborn" ELSE IF Present(j) THEN jobs[j].status ELSE "gone"

Busy == {j \in Job : task[j] = "working"}

Seen == <<[j \in Job |-> Life(j)], [j \in Job |-> jobs[j].outcome], Busy,
          phase = "serving">>

(* uvicorn has answered every request before it lets the lifespan end: no  *)
(* long poll reaps the store of a process that takes no more requests.     *)
NobodyWaitsForTheClosed == phase # "serving" => \A w \in Waiter : waiter[w] = Idle

-----------------------------------------------------------------------------
(* What is seen. *)

(* The mapping is that of the INSTANCE. *)
LEMMA SeenIsMapped == Seen = Contract!vars
  BY DEF Seen, Contract!vars, Life, Busy

(* What the invariant says of a job's life. *)
LEMMA LifeIs ==
    ASSUME IInv, NEW j \in Job
    PROVE  /\ jobs[j] \in JobRecord \cup {NoJob}
           /\ NoJob.status = "absent" /\ NoJob.outcome = "none"
           /\ jobs[j].status \notin {"unborn", "gone"}
           /\ Present(j) => task[j] # "none" /\ jobs[j] \in JobRecord
           /\ ~Present(j) => jobs[j] = NoJob
           /\ Life(j) \in {"unborn", "gone"} <=> ~Present(j)
           /\ Present(j) => Life(j) = jobs[j].status
<1>1. jobs[j] \in JobRecord \cup {NoJob} /\ (task[j] = "none" => jobs[j] = NoJob)
  BY DEF IInv, JobInv, JobTypeOK, StoreTypeOK, TaskBeforeOutcome
<1> QED
  BY <1>1 DEF JobRecord, NoJob, Present, Life, Live, Terminal

(* What changes none of the jobs' lives, outcomes and works is not seen. *)
LEMMA Unseen ==
    ASSUME \A j \in Job : Life(j)' = Life(j) /\ jobs'[j].outcome = jobs[j].outcome,
           \A j \in Job : task'[j] = "working" <=> task[j] = "working",
           phase' = phase
    PROVE  UNCHANGED Contract!vars
<1>1. /\ [j \in Job |-> Life(j)'] = [j \in Job |-> Life(j)]
      /\ [j \in Job |-> jobs'[j].outcome] = [j \in Job |-> jobs[j].outcome]
      /\ (phase' = "serving") = (phase = "serving")
  OBVIOUS
<1>3. Busy' = Busy
  BY DEF Busy
<1>2. Seen' = Seen
  BY <1>1, <1>3 DEF Seen
<1> QED
  BY <1>2 DEF Seen, Contract!vars, Life, Busy

(* The runner begins where the contract does. *)
LEMMA InitMaps == Init => Contract!Init
<1> SUFFICES ASSUME Init PROVE Contract!Init
  OBVIOUS
<1>1. \A j \in Job : task[j] = "none" /\ jobs[j] = NoJob /\ phase = "serving"
  BY DEF Init, StoreInit
<1> QED
  BY <1>1 DEF Contract!Init, NoJob, Init

-----------------------------------------------------------------------------
(* Steps. *)

(* What has expired may be forgotten. *)
LEMMA ExpiredAreHere ==
    ASSUME IInv
    PROVE  /\ Expired \in SUBSET Contract!Here
           /\ \A j \in Expired : j \in Job /\ Present(j) /\ task[j] # "none"
<1>1. \A j \in Expired : j \in Job /\ Present(j)
  BY DEF Expired
<1>2. \A j \in Expired : task[j] # "none" /\ jobs[j].status \notin {"unborn", "gone"}
  BY <1>1, LifeIs
<1> QED
  BY <1>1, <1>2 DEF Contract!Here

(* A handler that only reads forgets the jobs that had expired, if any.    *)
LEMMA ReapMaps ==
    ASSUME IInv, Reap, UNCHANGED <<now, runnerVars, phase>>, phase = "serving"
    PROVE  Contract!Forget
<1>1. /\ \A j \in Job : j \in Expired => jobs'[j] = NoJob
      /\ \A j \in Job : j \notin Expired => jobs'[j] = jobs[j]
      /\ task' = task /\ phase' = phase
  BY ReapedType DEF IInv, JobInv, JobTypeOK, Reap, runnerVars
<1>2. NoJob.status = "absent" /\ NoJob.outcome = "none"
  BY DEF NoJob
<1>3. Contract!Forgetting(Expired, <<>>)
  BY <1>1, <1>2, ExpiredAreHere DEF Contract!Forgetting, Present
<1> QED
  BY <1>1, <1>3, ExpiredAreHere DEF Contract!Forget

(* A submission accepts its job and forgets the expired.                   *)
LEMMA SubmitMaps ==
    ASSUME IInv, NEW a \in Account, NEW j \in Job, Submit(a, j)
    PROVE  Contract!Accept(j)
<1>1. /\ phase = "serving" /\ phase' = phase /\ task[j] = "none"
      /\ task' = [task EXCEPT ![j] = "created"]
      /\ jobs' = [Reaped EXCEPT ![j] = NewJob(a)]
  BY DEF Submit, Create
<1>2. j \notin Expired /\ jobs[j].outcome = "none"
  BY <1>1, LifeIs, ExpiredAreHere
<1>3. /\ \A i \in Job : i \in Expired => jobs'[i] = NoJob
      /\ \A i \in Job : i \notin Expired /\ i # j => jobs'[i] = jobs[i]
      /\ jobs'[j].status = "pending" /\ jobs'[j].outcome = "none"
      /\ task'[j] = "created" /\ \A i \in Job : i # j => task'[i] = task[i]
  BY <1>1, <1>2, ReapedType DEF IInv, JobInv, JobTypeOK, NewJob
<1>4. NoJob.status = "absent" /\ NoJob.outcome = "none"
  BY DEF NoJob
<1>5. Contract!Forgetting(Expired, [i \in {j} |-> "pending"])
  BY <1>1, <1>2, <1>3, <1>4, ExpiredAreHere DEF Contract!Forgetting, Present
<1> QED
  BY <1>1, <1>5, ExpiredAreHere DEF Contract!Accept

(* A deletion stops its job and forgets the expired.                       *)
LEMMA CancelMaps ==
    ASSUME IInv, NEW a \in Account, NEW j \in Job, CancelLiveJob(a, j)
    PROVE  Contract!Stop(j)
<1>1. /\ phase = "serving" /\ phase' = phase /\ task' = task
      /\ Visible(j, a) /\ Reaped[j].status \in Live
      /\ jobs' = [Reaped EXCEPT ![j].status = "cancelled"]
  BY DEF CancelLiveJob, Cancellable, ReapThenCancel
<1>2. /\ Reaped[j] = jobs[j] /\ jobs[j] \in JobRecord /\ jobs[j].status \in Live
      /\ j \notin Expired /\ Present(j) /\ task[j] # "none"
  BY <1>1, VisibleIsOwnAndFresh, ReapedType, LifeIs
     DEF IInv, JobInv, JobTypeOK, NoJob, Live, Present
<1>3. /\ \A i \in Job : i \in Expired => jobs'[i] = NoJob
      /\ \A i \in Job : i \notin Expired /\ i # j => jobs'[i] = jobs[i]
      /\ jobs'[j].status = "cancelled" /\ jobs'[j].outcome = jobs[j].outcome
  BY <1>1, <1>2, ReapedType DEF IInv, JobInv, JobTypeOK, JobRecord
<1>4. NoJob.status = "absent" /\ NoJob.outcome = "none"
  BY DEF NoJob
<1>5. Contract!Forgetting(Expired, [i \in {j} |-> "cancelled"])
  BY <1>1, <1>2, <1>3, <1>4, ExpiredAreHere DEF Contract!Forgetting, Present
<1>6. Expired \in SUBSET (Contract!Here \ {j})
  BY <1>2, ExpiredAreHere
<1> QED
  BY <1>1, <1>2, <1>5, <1>6 DEF Contract!Stop, Contract!Live, Live

(* What the first and the last step of a task write, as it is seen.        *)
LEMMA TaskWrites ==
    ASSUME NEW j \in Job, NEW s, NEW o,
           \A i \in Job : i # j => task'[i] = task[i] /\ jobs'[i] = jobs[i],
           task'[j] # "none", s # "absent",
           jobs'[j].status = s, jobs'[j].outcome = o
    PROVE  /\ [i \in Job |-> Life(i)'] = [[i \in Job |-> Life(i)] EXCEPT ![j] = s]
           /\ [i \in Job |-> jobs'[i].outcome] =
                 [[i \in Job |-> jobs[i].outcome] EXCEPT ![j] = o]
<1>1. Life(j)' = s
  BY DEF Life, Present
<1>2. \A i \in Job : i # j => Life(i)' = Life(i)
  BY DEF Life, Present
<1> HIDE DEF Life
<1> QED
  BY <1>1, <1>2

(* A job whose task is not over is there in the status of its task, or has *)
(* been reaped, or was cancelled and its task is marked.                   *)
LEMMA UnmarkedTaskStatus ==
    ASSUME IInv, NEW j \in Job, j \notin cancelling, Unfinished(j), Present(j)
    PROVE  jobs[j].status = IF task[j] = "created" THEN "pending" ELSE "running"
<1>1. jobs[j] \in JobRecord /\ jobs[j].status \notin {"succeeded", "failed", "cancelled"}
  BY LifeIs DEF IInv, JobInv, TaskBeforeOutcome, CancelStopsTheWork
<1>2. jobs[j].status \in {"pending", "running"}
  BY <1>1 DEF JobRecord, Live, Terminal
<1> QED
  BY <1>2 DEF IInv, JobInv, NoZombie, Live

(* Work under way is that of a job that runs, was cancelled or is gone.    *)
LEMMA UnfinishedStatus ==
    ASSUME IInv, NEW j \in Job, task[j] = "working", Present(j)
    PROVE  jobs[j].status \in {"running", "cancelled"}
<1>1. jobs[j] \in JobRecord /\ jobs[j].status \notin {"succeeded", "failed"}
  BY LifeIs DEF IInv, JobInv, TaskBeforeOutcome, Unfinished
<1>2. jobs[j].status \in {"pending", "running", "cancelled"}
  BY <1>1 DEF JobRecord, Live, Terminal
<1> QED
  BY <1>2 DEF IInv, JobInv, NoZombie, Live

(* The work of a job that has been cancelled or reaped ends unrecorded.    *)
LEMMA RestMaps ==
    ASSUME IInv, NEW j \in Job, j \in Busy, Busy' = Busy \ {j}, jobs' = jobs,
           phase' = phase,
           Present(j) => Life(j) = "cancelled",
           task'[j] # "none", \A i \in Job : i # j => task'[i] = task[i]
    PROVE  Contract!Rest(j)
<1>1. task[j] # "none"
  BY DEF Busy
<1>2. \A i \in Job : Life(i)' = Life(i)
  BY <1>1 DEF Life, Present
<1>3. /\ [i \in Job |-> Life(i)'] = [i \in Job |-> Life(i)]
      /\ [i \in Job |-> jobs'[i].outcome] = [i \in Job |-> jobs[i].outcome]
      /\ (phase' = "serving") = (phase = "serving")
  BY <1>2
<1>4. Life(j) \in {"cancelled", "gone"}
  BY <1>1 DEF Life
<1> QED
  BY <1>3, <1>4 DEF Contract!Rest, Life, Busy

(* A task's first step begins its job, or finds that it has been reaped.   *)
LEMMA TaskStartMaps ==
    ASSUME IInv, NEW j \in Job, TaskStart(j)
    PROVE  Contract!Begin(j) \/ UNCHANGED Contract!vars
<1>1. /\ task[j] = "created" /\ j \notin cancelling /\ phase' = phase
      /\ task \in [Job -> TaskState]
  BY DEF TaskStart, MayRun, IInv, JobInv, JobTypeOK
<1>2. CASE Present(j)
  <2>1. /\ jobs' = [i \in Job |-> IF i \in {j}
                                  THEN [jobs[i] EXCEPT !.status = "running",
                                                       !.outcome = jobs[i].outcome]
                                  ELSE jobs[i]]
        /\ task' = [task EXCEPT ![j] = "working"]
    BY <1>2 DEF TaskStart, Start, Update
  <2>2. /\ jobs'[j].status = "running" /\ jobs'[j].outcome = jobs[j].outcome
        /\ \A i \in Job : i # j => jobs'[i] = jobs[i]
    BY <1>2, <2>1, LifeIs DEF JobRecord
  <2>3. jobs[j].status = "pending"
    BY <1>1, <1>2, UnmarkedTaskStatus DEF Unfinished
  <2>4. task'[j] # "none" /\ \A i \in Job : i # j => task'[i] = task[i]
    BY <1>1, <2>1
  <2>5. [i \in Job |-> Life(i)'] = [[i \in Job |-> Life(i)] EXCEPT ![j] = "running"]
    BY <2>2, <2>4, TaskWrites
  <2>6. [i \in Job |-> jobs'[i].outcome] = [i \in Job |-> jobs[i].outcome]
    BY <2>2
  <2>7. Life(j) = "pending"
    BY <1>2, <2>3, LifeIs
  <2>8. (phase' = "serving") = (phase = "serving") /\ Busy' = Busy \cup {j}
    BY <1>1, <2>1 DEF Busy
  <2> QED
    BY <2>5, <2>6, <2>7, <2>8 DEF Contract!Begin, Life, Busy
<1>3. CASE ~Present(j)
  <2>1. jobs' = jobs /\ task' = [task EXCEPT ![j] = "finished"]
    BY <1>3 DEF TaskStart, storeVars
  <2>2. \A i \in Job : Life(i)' = Life(i) /\ (task'[i] = "working" <=> task[i] = "working")
    BY <1>1, <2>1 DEF Life, Present
  <2> QED
    BY <1>1, <2>1, <2>2, Unseen
<1> QED
  BY <1>2, <1>3

(* work() settles its job, overturns its cancellation by failing, or finds *)
(* that the job has been reaped.                                           *)
LEMMA WorkEndsMaps ==
    ASSUME IInv, NEW j \in Job, WorkSucceeds(j) \/ WorkFails(j)
    PROVE  \/ Contract!Settle(j, "succeeded", "result")
           \/ Contract!Settle(j, "failed", "error")
           \/ Contract!Overturn(j)
           \/ Contract!Rest(j)
<1>1. /\ task[j] = "working" /\ phase' = phase
      /\ task \in [Job -> TaskState]
      /\ task' = [task EXCEPT ![j] = "finished"]
  BY DEF WorkSucceeds, WorkFails, WorkEnds, IInv, JobInv, JobTypeOK
<1>2. task'[j] # "none" /\ \A i \in Job : i # j => task'[i] = task[i]
  BY <1>1
<1>3. /\ (phase' = "serving") = (phase = "serving")
      /\ j \in Busy /\ Busy' = Busy \ {j}
  BY <1>1 DEF Busy
<1>4. Present(j) => /\ Life(j) = "running" \/ Life(j) = "cancelled"
                    /\ j \notin cancelling => Life(j) = "running"
  BY <1>1, UnfinishedStatus, UnmarkedTaskStatus, LifeIs DEF Unfinished
<1>5. CASE Present(j) /\ WorkSucceeds(j)
  <2>1. jobs' = [i \in Job |-> IF i \in {j}
                               THEN [jobs[i] EXCEPT !.status = "succeeded",
                                                    !.outcome = "result"]
                               ELSE jobs[i]]
    BY <1>5 DEF WorkSucceeds, WorkEnds, Finish, Update
  <2>2. /\ jobs'[j].status = "succeeded" /\ jobs'[j].outcome = "result"
        /\ \A i \in Job : i # j => jobs'[i] = jobs[i]
    BY <1>5, <2>1, LifeIs DEF JobRecord
  <2>3. /\ [i \in Job |-> Life(i)'] = [[i \in Job |-> Life(i)] EXCEPT ![j] = "succeeded"]
        /\ [i \in Job |-> jobs'[i].outcome] =
              [[i \in Job |-> jobs[i].outcome] EXCEPT ![j] = "result"]
    BY <1>2, <2>2, TaskWrites
  <2>4. Life(j) = "running"
    BY <1>4, <1>5 DEF WorkSucceeds, MayRun
  <2> QED
    BY <1>3, <2>3, <2>4 DEF Contract!Settle, Contract!Records, Life, Busy
<1>6. CASE Present(j) /\ WorkFails(j)
  <2>1. jobs' = [i \in Job |-> IF i \in {j}
                               THEN [jobs[i] EXCEPT !.status = "failed",
                                                    !.outcome = "error"]
                               ELSE jobs[i]]
    BY <1>6 DEF WorkFails, WorkEnds, Fail, Update
  <2>2. /\ jobs'[j].status = "failed" /\ jobs'[j].outcome = "error"
        /\ \A i \in Job : i # j => jobs'[i] = jobs[i]
    BY <1>6, <2>1, LifeIs DEF JobRecord
  <2>3. /\ [i \in Job |-> Life(i)'] = [[i \in Job |-> Life(i)] EXCEPT ![j] = "failed"]
        /\ [i \in Job |-> jobs'[i].outcome] =
              [[i \in Job |-> jobs[i].outcome] EXCEPT ![j] = "error"]
    BY <1>2, <2>2, TaskWrites
  <2>4. Contract!Records(j, "failed", "error")
    BY <1>3, <2>3 DEF Contract!Records, Life, Busy
  <2> QED
    BY <1>4, <1>6, <2>4 DEF Contract!Settle, Contract!Overturn, Life
<1>7. CASE ~Present(j)
  <2>1. jobs' = jobs
    BY <1>7 DEF WorkSucceeds, WorkFails, WorkEnds, storeVars
  <2> QED
    BY <1>1, <1>2, <1>3, <1>7, <2>1, RestMaps
<1> QED
  BY <1>5, <1>6, <1>7

(* A marked task ends without a record, which is seen only as its work     *)
(* coming to rest, and a done callback is not seen at all.                 *)
LEMMA BookkeepingMaps ==
    ASSUME IInv, NEW j \in Job, TaskCancelled(j) \/ DoneCallback(j)
    PROVE  Contract!Rest(j) \/ UNCHANGED Contract!vars
<1>1. /\ jobs' = jobs /\ phase' = phase /\ task \in [Job -> TaskState]
      /\ task[j] # "none" /\ task'[j] \notin {"none", "working"}
      /\ \A i \in Job : i # j => task'[i] = task[i]
  BY DEF TaskCancelled, DoneCallback, storeVars, IInv, JobInv, JobTypeOK,
         CancelStopsTheWork, Unfinished
<1>2. CASE task[j] = "working"
  <2>1. j \in cancelling
    BY <1>2 DEF TaskCancelled, DoneCallback
  <2>2. j \in Busy /\ Busy' = Busy \ {j}
    BY <1>1, <1>2 DEF Busy
  <2>3. Present(j) => Life(j) = "cancelled"
    BY <1>2, <2>1, UnfinishedStatus, LifeIs
       DEF Unfinished, IInv, JobInv, NoZombie, Live
  <2> QED
    BY <1>1, <2>2, <2>3, RestMaps
<1>3. CASE task[j] # "working"
  <2>1. \A i \in Job : Life(i)' = Life(i) /\ (task'[i] = "working" <=> task[i] = "working")
    BY <1>1, <1>3 DEF Life, Present
  <2> QED
    BY <1>1, <2>1, Unseen
<1> QED
  BY <1>2, <1>3

(* Shutdown closes the contract, cancelling the jobs its loop reaches.     *)
LEMMA ShutdownMaps ==
    ASSUME IInv, Shutdown
    PROVE  Contract!Close
<1> DEFINE reaped  == {j \in tasks : ~Present(j)}
           reached == {j \in tasks : \A i \in reaped : j <= i}
           stopped == reached \ reaped
<1>1. /\ phase = "serving" /\ phase' # "serving" /\ task' = task
      /\ jobs' = [j \in Job |-> IF j \in stopped
                                THEN [jobs[j] EXCEPT !.status = "cancelled",
                                                     !.outcome = jobs[j].outcome]
                                ELSE jobs[j]]
  BY DEF Shutdown, CancelJobs, Update
<1>2. \A j \in stopped : j \in Job /\ Present(j) /\ task[j] # "none"
  BY LifeIs DEF IInv, JobInv, JobTypeOK
<1> HIDE DEF stopped
<1>3. \A j \in stopped : jobs'[j].status = "cancelled" /\ jobs'[j].outcome = jobs[j].outcome
  BY <1>1, <1>2, LifeIs DEF JobRecord
<1>4. \A j \in Job : j \notin stopped => jobs'[j] = jobs[j]
  BY <1>1
<1>5. \A j \in Job : Life(j)' = IF j \in stopped THEN "cancelled" ELSE Life(j)
  BY <1>1, <1>2, <1>3, <1>4 DEF Life, Present
<1>6. [j \in Job |-> jobs'[j].outcome] = [j \in Job |-> jobs[j].outcome]
  BY <1>3, <1>4
<1>7. stopped \in SUBSET Contract!Here
  BY <1>2, LifeIs DEF Contract!Here, Life
<1>8. (phase = "serving") /\ (phase' = "serving") = FALSE /\ Busy' = Busy
  BY <1>1 DEF Busy
<1>9. [j \in Job |-> Life(j)'] =
         [j \in Job |-> IF j \in stopped THEN "cancelled" ELSE Life(j)]
  BY <1>5
<1> QED
  BY <1>6, <1>7, <1>8, <1>9 DEF Contract!Close, Life, Busy

-----------------------------------------------------------------------------
(* The refinement. *)

(* Only a serving process lets a long poll begin, and it closes only when  *)
(* none is open.                                                           *)
LEMMA NobodyWaitsHolds == Spec => []NobodyWaitsForTheClosed
<1>1. Init => NobodyWaitsForTheClosed
  BY DEF Init, NobodyWaitsForTheClosed
<1>2. IInv /\ NobodyWaitsForTheClosed /\ [Next]_vars => NobodyWaitsForTheClosed'
  <2> SUFFICES ASSUME IInv, NobodyWaitsForTheClosed, [Next]_vars
               PROVE  NobodyWaitsForTheClosed'
    OBVIOUS
  <2>1. CASE UNCHANGED <<waiter, phase>>
    BY <2>1 DEF NobodyWaitsForTheClosed
  <2>2. ASSUME NEW w \in Waiter, WaitReturn(w)
        PROVE  NobodyWaitsForTheClosed'
    BY <2>2 DEF WaitReturn, NobodyWaitsForTheClosed, IInv, WaiterTypeOK
  <2>3. ASSUME NEW w \in Waiter, NEW a, NEW j, NEW t, WaitBegin(w, a, j, t)
        PROVE  NobodyWaitsForTheClosed'
    BY <2>3 DEF WaitBegin, NobodyWaitsForTheClosed
  <2>4. CASE Shutdown
    BY <2>4 DEF Shutdown, NobodyWaitsForTheClosed
  <2> QED
    BY <2>1, <2>2, <2>3, <2>4
       DEF Next, vars, Submit, GetJob, CancelLiveJob, CancelOtherJob, ListJobs, TaskStart,
           TaskCancelled, WorkSucceeds, WorkFails, WorkEnds, DoneCallback, Tick
<1> QED
  BY <1>1, <1>2, Invariance, PTL DEF Spec

(* Every step is a step of the contract or is not seen.                    *)
LEMMA NextMaps ==
    ASSUME IInv, NobodyWaitsForTheClosed, [Next]_vars
    PROVE  Contract!Next \/ UNCHANGED Contract!vars
<1>1. ASSUME NEW a \in Account, NEW j \in Job, Submit(a, j)
      PROVE  Contract!Next
  BY <1>1, SubmitMaps DEF Contract!Next
<1>2. ASSUME NEW a \in Account, NEW j \in Job, CancelLiveJob(a, j)
      PROVE  Contract!Next
  BY <1>2, CancelMaps DEF Contract!Next
<1>3. ASSUME \/ \E a \in Account, j \in Job : GetJob(a, j) \/ CancelOtherJob(a, j)
             \/ \E a \in Account, limit \in PageLimit :
                   \E wanted \in {Live \cup Terminal} \cup {{s} : s \in Live \cup Terminal} :
                      ListJobs(a, wanted, limit)
             \/ \E w \in Waiter, a \in Account, j \in Job, t \in Timeout : WaitBegin(w, a, j, t)
             \/ \E w \in Waiter : WaitReturn(w)
      PROVE  Contract!Next
  <2>1. Reap /\ UNCHANGED <<now, runnerVars, phase>>
    BY <1>3 DEF GetJob, CancelOtherJob, ListJobs, WaitBegin, WaitReturn
  <2>2. phase = "serving"
    BY <1>3 DEF GetJob, CancelOtherJob, ListJobs, WaitBegin, WaitReturn,
                NobodyWaitsForTheClosed
  <2> QED
    BY <2>1, <2>2, ReapMaps DEF Contract!Next
<1>4. ASSUME NEW j \in Job, TaskStart(j)
      PROVE  Contract!Next \/ UNCHANGED Contract!vars
  BY <1>4, TaskStartMaps DEF Contract!Next
<1>5. ASSUME NEW j \in Job, WorkSucceeds(j) \/ WorkFails(j)
      PROVE  Contract!Next \/ UNCHANGED Contract!vars
  BY <1>5, WorkEndsMaps DEF Contract!Next
<1>6. ASSUME NEW j \in Job, TaskCancelled(j) \/ DoneCallback(j)
      PROVE  Contract!Next \/ UNCHANGED Contract!vars
  BY <1>6, BookkeepingMaps DEF Contract!Next
<1>7. CASE Shutdown
  BY <1>7, ShutdownMaps DEF Contract!Next
<1>8. CASE UNCHANGED <<storeVars, runnerVars, phase>>
  <2>1. jobs' = jobs /\ task' = task /\ phase' = phase
    BY <1>8 DEF storeVars, runnerVars
  <2> QED
    BY <2>1, Unseen DEF Life, Present
<1> QED
  BY <1>1, <1>2, <1>3, <1>4, <1>5, <1>6, <1>7, <1>8
     DEF Next, Tick, vars, storeVars, runnerVars

(* What a client can learn of each job follows the contract: no job skips  *)
(* running, mixes two outcomes or comes back, no result replaces a         *)
(* cancellation, and an error does only while the work had not yet ended.  *)
THEOREM RunnerImplementsContract == Spec => ImplementsContract
<1>1. IInv /\ NobodyWaitsForTheClosed /\ [Next]_vars =>
         [Contract!Next]_(Contract!vars)
  BY NextMaps
<1> QED
  BY <1>1, InitMaps, Invariance, NobodyWaitsHolds, PTL
     DEF Spec, ImplementsContract, Contract!Spec

-----------------------------------------------------------------------------
(* What the finding about shutdown leaves of its docstring. *)

(* A shutdown that came to its end has marked every task that was not      *)
(* over; one that did not had come to a job that is no longer stored.      *)
ShutdownStopsAllOrMeetsTheReaped ==
    /\ phase = "closed" => \A j \in Job : Unfinished(j) => j \in cancelling
    /\ phase = "aborted" => \E j \in Job : task[j] # "none" /\ ~Present(j)

(* Shutdown itself. *)
LEMMA ShutdownReaches ==
    ASSUME IInv, Shutdown
    PROVE  ShutdownStopsAllOrMeetsTheReaped'
<1> DEFINE reaped  == {j \in tasks : ~Present(j)}
           reached == {j \in tasks : \A i \in reaped : j <= i}
           stopped == reached \ reaped
<1>1. /\ phase = "serving" /\ task' = task
      /\ cancelling' = Marked(reached)
      /\ phase' = IF reaped = {} THEN "closed" ELSE "aborted"
      /\ jobs' = [j \in Job |-> IF j \in stopped
                                THEN [jobs[j] EXCEPT !.status = "cancelled",
                                                     !.outcome = jobs[j].outcome]
                                ELSE jobs[j]]
  BY DEF Shutdown, CancelJobs, Update
<1>2. tasks = {j \in Job : task[j] \notin {"none", "done"}}
  BY <1>1 DEF IInv, JobInv, HeldUntilDone
<1>3. CASE reaped = {}
  <2>1. reached = tasks
    BY <1>3
  <2>2. \A j \in Job : Unfinished(j) => j \in tasks
    BY <1>2 DEF Unfinished
  <2>3. \A j \in Job : Unfinished(j)' => j \in cancelling'
    BY <1>1, <2>1, <2>2 DEF Marked, Unfinished
  <2> QED
    BY <1>1, <1>3, <2>3 DEF ShutdownStopsAllOrMeetsTheReaped
<1>4. CASE reaped # {}
  <2>1. PICK j \in reaped : TRUE
    BY <1>4
  <2>2. j \in Job /\ ~Present(j) /\ task[j] # "none" /\ j \notin stopped
    BY <1>2
  <2> HIDE DEF stopped, reaped, reached
  <2>3. jobs'[j] = jobs[j]
    BY <1>1, <2>2
  <2> QED
    BY <1>1, <1>4, <2>2, <2>3 DEF ShutdownStopsAllOrMeetsTheReaped, Present
<1> QED
  BY <1>3, <1>4

(* No task is created and no job is stored when the process has closed,    *)
(* and a mark goes only with its task.                                     *)
LEMMA NothingStartsAfterwards ==
    ASSUME IInv, NobodyWaitsForTheClosed, ShutdownStopsAllOrMeetsTheReaped, [Next]_vars,
           phase # "serving"
    PROVE  ShutdownStopsAllOrMeetsTheReaped'
<1> USE DEF ShutdownStopsAllOrMeetsTheReaped
<1>1. task \in [Job -> TaskState] /\ jobs \in [Job -> JobRecord \cup {NoJob}]
  BY DEF IInv, JobInv, JobTypeOK, StoreTypeOK
<1>2. ASSUME NEW j \in Job, TaskCancelled(j) \/ DoneCallback(j)
      PROVE  ShutdownStopsAllOrMeetsTheReaped'
  BY <1>1, <1>2 DEF TaskCancelled, DoneCallback, storeVars, Unfinished, Present
<1>3. ASSUME NEW j \in Job, TaskStart(j) \/ WorkSucceeds(j) \/ WorkFails(j)
      PROVE  ShutdownStopsAllOrMeetsTheReaped'
  <2>1. /\ Unfinished(j) /\ (j \notin cancelling \/ task'[j] = "finished")
        /\ phase' = phase /\ cancelling \ {j} \subseteq cancelling'
        /\ \A i \in Job : i # j => task'[i] = task[i]
        /\ task'[j] # "none"
    BY <1>1, <1>3 DEF TaskStart, WorkSucceeds, WorkFails, WorkEnds, MayRun, Unfinished
  <2>2. phase = "closed" => ~Unfinished(j)'
    BY <2>1 DEF Unfinished
  <2>3. \A i \in Job : ~Present(i) => ~Present(i)'
    <3>1. CASE ~Present(j)
      BY <1>3, <3>1 DEF TaskStart, WorkSucceeds, WorkFails, WorkEnds, storeVars, Present
    <3>2. CASE Present(j)
      BY <1>3, <3>2 DEF TaskStart, WorkSucceeds, WorkFails, WorkEnds, Start, Finish, Fail,
                        Update, Present
    <3> QED
      BY <3>1, <3>2
  <2> QED
    BY <2>1, <2>2, <2>3 DEF Unfinished
<1>4. CASE UNCHANGED <<storeVars, runnerVars, phase>>
  BY <1>4 DEF storeVars, runnerVars, Unfinished, Present
<1>5. ASSUME NEW w \in Waiter, WaitReturn(w)
      PROVE  FALSE
  BY <1>5 DEF WaitReturn, NobodyWaitsForTheClosed
<1> QED
  BY <1>2, <1>3, <1>4, <1>5
     DEF Next, vars, storeVars, runnerVars, Submit, GetJob, CancelLiveJob, CancelOtherJob,
         ListJobs, WaitBegin, Shutdown, Tick

(* "Cancel everything still running" (jobs/runner.py) holds of a shutdown  *)
(* that meets no job that has aged out.                                    *)
THEOREM ShutdownStops == Spec => []ShutdownStopsAllOrMeetsTheReaped
<1>1. Init => ShutdownStopsAllOrMeetsTheReaped
  BY DEF Init, ShutdownStopsAllOrMeetsTheReaped
<1>2. IInv /\ NobodyWaitsForTheClosed /\ ShutdownStopsAllOrMeetsTheReaped /\ [Next]_vars
         => ShutdownStopsAllOrMeetsTheReaped'
  <2> SUFFICES ASSUME IInv, NobodyWaitsForTheClosed, ShutdownStopsAllOrMeetsTheReaped,
                      [Next]_vars
               PROVE  ShutdownStopsAllOrMeetsTheReaped'
    OBVIOUS
  <2>1. CASE Shutdown
    BY <2>1, ShutdownReaches
  <2>2. CASE phase # "serving"
    BY <2>2, NothingStartsAfterwards
  <2>3. CASE phase = "serving" /\ phase' = phase
    BY <2>3 DEF ShutdownStopsAllOrMeetsTheReaped
  <2> QED
    BY <2>1, <2>2, <2>3
       DEF Next, vars, runnerVars, Submit, GetJob, CancelLiveJob, CancelOtherJob, ListJobs,
           WaitBegin, WaitReturn, TaskStart, TaskCancelled, WorkSucceeds, WorkFails,
           WorkEnds, DoneCallback, Tick
<1> QED
  BY <1>1, <1>2, Invariance, NobodyWaitsHolds, PTL DEF Spec
===============================================================================
