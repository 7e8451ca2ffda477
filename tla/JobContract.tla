----------------------------- MODULE JobContract -----------------------------
(***************************************************************************)
(* What the jobs API promises its clients, with no store, task, Event or   *)
(* clock: the life of each job as a caller who polls it sees it.           *)
(*                                                                         *)
(*     unborn -> pending -> running -> succeeded | failed                  *)
(*                  \__________\____-> cancelled -> failed                 *)
(*                                                                         *)
(* and from anywhere after birth to gone.  A job is begun once, settles    *)
(* once, and never returns, with two exceptions.  A job that was cancelled *)
(* while its work was under way may still turn to failed, until that work  *)
(* has come to rest: a failure that was on its way when the work was told  *)
(* to stop is recorded over the cancellation.  And closing the process     *)
(* cancels jobs together, one that settled an instant before included,     *)
(* which then keeps its result.                                            *)
(*                                                                         *)
(* This is the public contract of docs/api.md and models/jobs.py as the    *)
(* code keeps it; JobRunner is shown to implement it.                      *)
(***************************************************************************)
CONSTANT Job

VARIABLES status,   \* status[j]: what a poll of j answers
          outcome,  \* outcome[j]: whether j carries a result or an error
          busy,     \* jobs whose work has begun and has not come to rest
          open      \* the process takes requests

vars == <<status, outcome, busy, open>>

Live     == {"pending", "running"}
Terminal == {"succeeded", "failed", "cancelled"}

Here == {j \in Job : status[j] \notin {"unborn", "gone"}}

Init ==
    /\ status = [j \in Job |-> "unborn"]
    /\ outcome = [j \in Job |-> "none"]
    /\ busy = {}
    /\ open = TRUE

(* Any of the jobs that are here may be forgotten, in the same step as one *)
(* request: j is the job it accepts or stops, if it does either.           *)
Forgetting(gone, changed) ==
    /\ status' = [j \in Job |-> IF j \in DOMAIN changed THEN changed[j]
                                ELSE IF j \in gone THEN "gone" ELSE status[j]]
    /\ outcome' = [j \in Job |-> IF j \in gone THEN "none" ELSE outcome[j]]
    /\ UNCHANGED <<busy, open>>

Forget == open /\ \E gone \in SUBSET Here : Forgetting(gone, <<>>)

Accept(j) ==
    /\ open
    /\ status[j] = "unborn"
    /\ \E gone \in SUBSET Here : Forgetting(gone, [i \in {j} |-> "pending"])

Stop(j) ==
    /\ open
    /\ status[j] \in Live
    /\ \E gone \in SUBSET (Here \ {j}) :
          Forgetting(gone, [i \in {j} |-> "cancelled"])

Begin(j) ==
    /\ status[j] = "pending"
    /\ status' = [status EXCEPT ![j] = "running"]
    /\ busy' = busy \cup {j}
    /\ UNCHANGED <<outcome, open>>

Records(j, ending, carried) ==
    /\ j \in busy
    /\ status' = [status EXCEPT ![j] = ending]
    /\ outcome' = [outcome EXCEPT ![j] = carried]
    /\ busy' = busy \ {j}
    /\ UNCHANGED open

Settle(j, ending, carried) == status[j] = "running" /\ Records(j, ending, carried)

(* The failure of work that was told to stop, over the cancellation. *)
Overturn(j) == status[j] = "cancelled" /\ Records(j, "failed", "error")

(* The work of a job that was cancelled or forgotten comes to rest. *)
Rest(j) ==
    /\ j \in busy
    /\ status[j] \in {"cancelled", "gone"}
    /\ busy' = busy \ {j}
    /\ UNCHANGED <<status, outcome, open>>

Close ==
    /\ open
    /\ \E stopped \in SUBSET Here :
          status' = [j \in Job |-> IF j \in stopped THEN "cancelled" ELSE status[j]]
    /\ open' = FALSE
    /\ UNCHANGED <<outcome, busy>>

Next ==
    \/ Forget
    \/ \E j \in Job : \/ Accept(j) \/ Stop(j) \/ Begin(j) \/ Overturn(j) \/ Rest(j)
                      \/ Settle(j, "succeeded", "result")
                      \/ Settle(j, "failed", "error")
    \/ Close

Spec == Init /\ [][Next]_vars
===============================================================================
