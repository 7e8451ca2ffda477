------------------------------- MODULE JobStore -------------------------------
(***************************************************************************)
(* The in-memory job store of jobs/store.py: a dict of jobs, a dict of the *)
(* asyncio.Event that is set when a job settles, and a time to live.       *)
(*                                                                         *)
(* No method of the store awaits anything while it holds the store's lock, *)
(* so on one event loop the lock is never contended and every method is a  *)
(* single step.  The methods are therefore operators that describe what    *)
(* one call does to the store; JobRunner composes them into the steps of   *)
(* the program.                                                            *)
(*                                                                         *)
(* An operator named for what it gets wrong (ExpiredOneLate, ...) is a     *)
(* faulty variant of the definition below it, kept to show that a property *)
(* can tell the two apart; nothing uses it.                                *)
(*                                                                         *)
(* A job's number is both its uuid and its place in the order of           *)
(* submission, which is the order of the two dicts.                        *)
(***************************************************************************)
EXTENDS Integers, FiniteSets

CONSTANTS MaxJobs,   \* bound: jobs submitted in one behaviour
          Account,   \* the accounts that verified tokens name
          TTL,       \* job_ttl_seconds
          MaxTime,   \* bound: the last clock reading
          NoAccount  \* the owner of a job that is not in the dict

ASSUME JobStoreAssumption ==
    /\ MaxJobs \in Nat
    /\ TTL \in Nat \ {0}
    /\ MaxTime \in Nat
    /\ NoAccount \notin Account

Job == 1..MaxJobs

Live     == {"pending", "running"}
Terminal == {"succeeded", "failed", "cancelled"}

VARIABLES now,      \* time.monotonic()
          jobs,     \* _jobs; a job that is not in the dict maps to NoJob
          settled,  \* the keys of _settled
          fired     \* the jobs whose asyncio.Event has been set

storeVars == <<jobs, settled, fired>>

-----------------------------------------------------------------------------
(* A job record keeps what decides an answer: its status, its owner, when  *)
(* it was accepted, and which of result and error it carries.              *)

NoJob == [status |-> "absent", account |-> NoAccount, created |-> 0,
          outcome |-> "none"]

NewJob(a) == [status |-> "pending", account |-> a, created |-> now,
              outcome |-> "none"]

JobRecord == [status  : Live \cup Terminal,
              account : Account,
              created : 0..MaxTime,
              outcome : {"none", "result", "error"}]

StoreTypeOK ==
    /\ now \in 0..MaxTime
    /\ jobs \in [Job -> JobRecord \cup {NoJob}]
    /\ settled \subseteq Job
    /\ fired \subseteq Job

StoreInit ==
    /\ now = 0
    /\ jobs = [j \in Job |-> NoJob]
    /\ settled = {}
    /\ fired = {}

Present(j) == jobs[j].status # "absent"

-----------------------------------------------------------------------------
(* _reap drops every job accepted at least TTL ago, whatever its status,   *)
(* and wakes whoever waits for it.                                         *)

ExpiredOneLate == {j \in Job : Present(j) /\ jobs[j].created < now - TTL}

Expired == {j \in Job : Present(j) /\ jobs[j].created <= now - TTL}

Reaped == [j \in Job |-> IF j \in Expired THEN NoJob ELSE jobs[j]]

ReapWithoutWaking ==
    /\ jobs' = Reaped
    /\ settled' = settled \ Expired
    /\ fired' = fired

Reap ==
    /\ jobs' = Reaped
    /\ settled' = settled \ Expired
    /\ fired' = fired \cup (Expired \cap settled)

(* create: reap, then file the new job with an Event of its own. *)
Create(j, a) ==
    /\ jobs' = [Reaped EXCEPT ![j] = NewJob(a)]
    /\ settled' = (settled \ Expired) \cup {j}
    /\ fired' = fired \cup (Expired \cap settled)

(* What get and wait_for_terminal find for a caller after they have        *)
(* reaped; a foreign job and one that is not there are the same answer.    *)
VisibleToAnyone(j, a) == Reaped[j].status # "absent" /\ a \in Account

Visible(j, a) == Reaped[j].status # "absent" /\ Reaped[j].account = a

(* list: one account's jobs, newest first.  The sort is stable, so jobs    *)
(* accepted at the same reading stay in the order they were submitted.     *)
Listed(a, wanted, limit) ==
    LET own == {j \in Job : Visible(j, a) /\ Reaped[j].status \in wanted}
        Before(i, j) == \/ Reaped[i].created > Reaped[j].created
                        \/ Reaped[i].created = Reaped[j].created /\ i < j
    IN  {j \in own : Cardinality({i \in own : Before(i, j)}) < limit}

(* The statuses that set a job's Event. *)
SetsEventOnceRunning(status) == status \in Terminal \cup {"running"}

SetsEvent(status) == status \in Terminal

(* _update for each job of js: a copy with the new status and, when it is  *)
(* given one, a result or an error.  A terminal status sets the job's      *)
(* Event; setdefault files a fresh one, which nobody waits for, if the key *)
(* is missing.  It raises JobNotFoundError when the job is not there,      *)
(* which is the caller's guard, and it does not reap.                      *)
Update(js, status, outcome) ==
    /\ jobs' = [j \in Job |->
                  IF j \in js
                  THEN [jobs[j] EXCEPT
                          !.status  = status,
                          !.outcome = IF outcome = "keep" THEN @ ELSE outcome]
                  ELSE jobs[j]]
    /\ IF SetsEvent(status)
       THEN settled' = settled \cup js /\ fired' = fired \cup (js \cap settled)
       ELSE UNCHANGED <<settled, fired>>

Start(j)       == Update({j}, "running", "keep")
Finish(j)      == Update({j}, "succeeded", "result")
Fail(j)        == Update({j}, "failed", "error")
CancelJobs(js) == Update(js, "cancelled", "keep")

(* Leaving it to the task to record that it was cancelled. *)
ReapAndLeaveToTask(j) == j \in Job /\ Reap

(* A get and the cancel of the job it found, in one step.                  *)
ReapThenCancel(j) ==
    /\ jobs' = [Reaped EXCEPT ![j].status = "cancelled"]
    /\ settled' = (settled \ Expired) \cup {j}
    /\ fired' = fired \cup ((Expired \cup {j}) \cap settled)
===============================================================================
