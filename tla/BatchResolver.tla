---------------------------- MODULE BatchResolver ----------------------------
(***************************************************************************)
(* One batch lookup: the handler of api/routes/lookup.py and resolve of    *)
(* spotify/resolver.py, which starts one task per item under a semaphore   *)
(* and gathers them.  resolve makes a semaphore of its own for each batch, *)
(* so batches share nothing and one is enough.                             *)
(*                                                                         *)
(* A step ends where a task suspends.  The tasks of one gather() stand     *)
(* next to each other in the event loop's queue, so they start in one      *)
(* step and no task asks for a permit later.  What a search does inside    *)
(* (SpotifyClient) is abstract: it finds tracks or raises.                 *)
(*                                                                         *)
(* An operator named for what it gets wrong is a faulty variant of the     *)
(* definition below it, kept to show that a property can tell them apart.  *)
(***************************************************************************)
EXTENDS Integers, FiniteSets, FiniteSetsExt, Sequences

CONSTANTS Track,      \* tracks that Spotify may find
          Explicit,   \* those it marks explicit
          Unreadable, \* those whose JSON makes to_track raise
          NoTrack,    \* no track in a result
          Permits,    \* max_concurrency
          MaxItems,   \* bound: the largest batch
          MaxHits     \* bound: tracks in one search answer

(* What a search may raise: three kinds of refusal by or through keyring,  *)
(* any other ServiceError, and anything that nobody expected.              *)
Failure == {"token_rejected", "no_credential", "keyring_down", "service", "unexpected"}

ASSUME BatchResolverAssumption ==
    /\ Explicit \subseteq Track /\ Unreadable \subseteq Track
    /\ NoTrack \notin Track
    /\ Track \cap Failure = {}
    /\ Permits \in Nat \ {0}
    /\ MaxItems \in Nat \ {0}
    /\ MaxHits \in Nat

VARIABLES at,      \* where the handler has got to
          size,    \* items of the batch
          clean,   \* explicit tracks are to be passed over
          stage,   \* what the task of each item does
          marked,  \* tasks that have been told to cancel
          free,    \* permits of the semaphore that nobody holds
          outcome, \* what the search of each item came to
          result,  \* LookupResult of each item
          outer,   \* the future that gather() returned
          mark     \* the task of the handler has been told to cancel

vars == <<at, size, clean, stage, marked, free, outcome, result, outer, mark>>

Item == 1..MaxItems

Ended == {"too_large", "unavailable", "answered", "failed", "cancelled"}

-----------------------------------------------------------------------------
(* What a search comes to, and the result it gives.                        *)

Hits == UNION {[1..n -> Track] : n \in 0..MaxHits}

RequestLevelButKeyring(f) == f \in {"token_rejected", "no_credential"}

RequestLevel(f) == f \in {"token_rejected", "no_credential", "keyring_down"}

Result(status, t, withheld) == [status |-> status, track |-> t, withheld |-> withheld]

NoResult    == Result("none", NoTrack, FALSE)
ErrorResult == Result("error", NoTrack, FALSE)

FirstTrack(hits) ==
    IF hits = <<>> THEN Result("not_found", NoTrack, FALSE)
                   ELSE Result("found", hits[1], FALSE)

FirstIfClean(hits) ==
    IF hits = <<>> \/ hits[1] \in Explicit THEN Result("not_found", NoTrack, hits # <<>>)
    ELSE Result("found", hits[1], FALSE)

(* The first match that is not explicit, however far down it is, or the    *)
(* word that there were only explicit ones.                                *)
FirstCleanTrack(hits) ==
    LET cleanOnes == {k \in DOMAIN hits : hits[k] \notin Explicit}
    IN  IF cleanOnes = {} THEN Result("not_found", NoTrack, hits # <<>>)
        ELSE Result("found", hits[Min(cleanOnes)], FALSE)

-----------------------------------------------------------------------------

Init ==
    /\ at = "idle" /\ size = 0 /\ clean = FALSE
    /\ stage = [i \in Item |-> "none"]
    /\ marked = {} /\ free = Permits
    /\ outcome = [i \in Item |-> <<>>]
    /\ result = [i \in Item |-> NoResult]
    /\ outer = "pending" /\ mark = FALSE

(* The handler checks the person's cap, then whether explicit tracks are   *)
(* allowed, then resolves, which creates a task for every item.            *)
Begin(n, cap, explicit) ==
    /\ at = "idle"
    /\ size' = n /\ clean' = (explicit = "refused")
    /\ IF n > cap THEN at' = "too_large" /\ UNCHANGED stage
       ELSE IF explicit = "unknown" THEN at' = "unavailable" /\ UNCHANGED stage
       ELSE at' = "gathering" /\ stage' = [i \in Item |-> IF i <= n THEN "created" ELSE "none"]
    /\ UNCHANGED <<marked, free, outcome, result, outer, mark>>

StartUnclamped ==
    /\ \E i \in Item : stage[i] = "created"
    /\ stage' = [i \in Item |-> IF stage[i] # "created" THEN stage[i]
                               ELSE IF i <= Permits THEN "searching" ELSE "queued"]
    /\ free' = Permits - size
    /\ UNCHANGED <<at, size, clean, marked, outcome, result, outer, mark>>

(* The tasks start, in order: the first ones get the permits.  A task that *)
(* was cancelled before it started ends before its first line.             *)
Start ==
    /\ \E i \in Item : stage[i] = "created"
    /\ IF marked # {}
       THEN /\ stage' = [i \in Item |-> IF stage[i] = "created" THEN "cancelled" ELSE stage[i]]
            /\ UNCHANGED free
       ELSE /\ stage' = [i \in Item |-> IF stage[i] # "created" THEN stage[i]
                                        ELSE IF i <= Permits THEN "searching" ELSE "queued"]
            /\ free' = IF size <= Permits THEN Permits - size ELSE 0
    /\ UNCHANGED <<at, size, clean, marked, outcome, result, outer, mark>>

(* Semaphore.release, on every way out of the block: the first in line     *)
(* that was not cancelled gets the permit before it runs.                  *)
InLine == {i \in Item : stage[i] = "queued" /\ i \notin marked}

LeaveUnlessRaised(i, how) ==
    IF how = "raised" \/ InLine = {}
    THEN /\ stage' = [stage EXCEPT ![i] = how]
         /\ free' = IF how = "raised" THEN free ELSE free + 1
    ELSE stage' = [stage EXCEPT ![i] = how, ![Min(InLine)] = "woken"] /\ UNCHANGED free

LeaveWakingNobody(i, how) == stage' = [stage EXCEPT ![i] = how] /\ free' = free + 1

Leave(i, how) ==
    IF InLine = {}
    THEN stage' = [stage EXCEPT ![i] = how] /\ free' = free + 1
    ELSE stage' = [stage EXCEPT ![i] = how, ![Min(InLine)] = "woken"] /\ UNCHANGED free

(* A task that was woken with a permit goes on to its search. *)
Enter(i) ==
    /\ stage[i] = "woken" /\ i \notin marked
    /\ stage' = [stage EXCEPT ![i] = "searching"]
    /\ UNCHANGED <<at, size, clean, marked, free, outcome, result, outer, mark>>

Searched(i, what, how, r) ==
    /\ stage[i] = "searching" /\ i \notin marked
    /\ outcome' = [outcome EXCEPT ![i] = what]
    /\ result' = [result EXCEPT ![i] = r]
    /\ Leave(i, how)
    /\ UNCHANGED <<at, size, clean, marked, outer, mark>>

(* Spotify answered.  One hit is asked for unless some may be passed over. *)
(* The track is read outside the block that catches what an item raises.   *)
SearchSucceeds(i, hits) ==
    LET best == IF clean THEN FirstCleanTrack(hits) ELSE FirstTrack(hits)
    IN  /\ clean \/ Len(hits) <= 1
        /\ IF best.track \in Unreadable THEN Searched(i, hits, "raised", NoResult)
                                        ELSE Searched(i, hits, "returned", best)

(* What is the item's own failure is its result, what is the request's is  *)
(* raised.                                                                 *)
SearchFails(i, f) ==
    IF RequestLevel(f) THEN Searched(i, <<f>>, "raised", NoResult)
                       ELSE Searched(i, <<f>>, "returned", ErrorResult)

(* A cancelled task is thrown out of where it waits.  One that was woken   *)
(* with a permit or is searching hands the permit on; a queued one has     *)
(* none.                                                                   *)
TaskCancelled(i) ==
    /\ i \in marked
    /\ IF stage[i] = "queued"
       THEN stage' = [stage EXCEPT ![i] = "cancelled"] /\ UNCHANGED free
       ELSE stage[i] \in {"woken", "searching"} /\ Leave(i, "cancelled")
    /\ UNCHANGED <<at, size, clean, marked, outcome, result, outer, mark>>

-----------------------------------------------------------------------------
(* gather() and the handler.                                               *)

Unfinished == {i \in Item : stage[i] \in {"created", "queued", "woken", "searching"}}

(* The callback of a task that has ended: the first that raised or was     *)
(* cancelled decides, and the others are left running.                     *)
Gathered ==
    /\ at = "gathering" /\ outer = "pending"
    /\ \/ /\ \E i \in Item : stage[i] = "raised"
          /\ outer' = "raised"
       \/ /\ \E i \in Item : stage[i] = "cancelled"
          /\ outer' = "cancelled"
       \/ /\ \A i \in 1..size : stage[i] = "returned"
          /\ outer' = "results"
    /\ UNCHANGED <<at, size, clean, stage, marked, free, outcome, result, mark>>

(* The handler, or the job that runs it, goes on. *)
Answer ==
    /\ at = "gathering" /\ outer # "pending"
    /\ at' = IF mark \/ outer = "cancelled" THEN "cancelled"
             ELSE IF outer = "raised" THEN "failed" ELSE "answered"
    /\ UNCHANGED <<size, clean, stage, marked, free, outcome, result, outer, mark>>

(* The job is cancelled: its task waits for the gather, which cancels      *)
(* every task that is left.  If it has nothing to cancel, the job's task   *)
(* is thrown out when it next runs.                                        *)
Cancel ==
    /\ at = "gathering"
    /\ IF outer = "pending" /\ Unfinished # {}
       THEN marked' = marked \cup Unfinished /\ UNCHANGED mark
       ELSE mark' = TRUE /\ UNCHANGED marked
    /\ UNCHANGED <<at, size, clean, stage, free, outcome, result, outer>>

Task(i) ==
    \/ Enter(i)
    \/ \E hits \in Hits : SearchSucceeds(i, hits)
    \/ \E f \in Failure : SearchFails(i, f)
    \/ TaskCancelled(i)

Next ==
    \/ \E n \in Item, cap \in Item, e \in {"allowed", "refused", "unknown"} : Begin(n, cap, e)
    \/ Start \/ \E i \in Item : Task(i)
    \/ Gathered \/ Answer \/ Cancel

Spec == Init /\ [][Next]_vars

(* The event loop runs what is ready, and a search ends: its requests have *)
(* timeouts and a bound.  Nobody has to send or cancel a batch.            *)
Fairness ==
    /\ WF_vars(Start) /\ WF_vars(Gathered) /\ WF_vars(Answer)
    /\ \A i \in Item : WF_vars(Task(i))

FairSpec == Spec /\ Fairness

-----------------------------------------------------------------------------

(* Every variable has its type. *)
TypeOK ==
    /\ at \in {"idle", "gathering"} \cup Ended
    /\ size \in 0..MaxItems
    /\ clean \in BOOLEAN
    /\ stage \in [Item -> {"none", "created", "queued", "woken", "searching",
                           "returned", "raised", "cancelled"}]
    /\ marked \subseteq Item
    /\ free \in 0..Permits
    /\ outcome \in [Item -> Hits \cup {<<f>> : f \in Failure}]
    /\ result \in [Item -> [status   : {"none", "error", "found", "not_found"},
                            track    : Track \cup {NoTrack},
                            withheld : BOOLEAN]]
    /\ outer \in {"pending", "results", "raised", "cancelled"}
    /\ mark \in BOOLEAN

(* However searches end, the permits in use and those left are as many as  *)
(* the configuration says, so that the searches in flight never exceed it, *)
(* and none lies idle while an item waits.                                 *)
PermitsAreExact ==
    /\ free + Cardinality({i \in Item : stage[i] \in {"woken", "searching"}}) = Permits
    /\ free > 0 => InLine = {}

RefusedWhole == {<<"token_rejected">>, <<"no_credential">>, <<"keyring_down">>}

(* Partial success: a batch is answered only when every item has a result, *)
(* and a search that goes wrong fails it only for a reason that is no      *)
(* single item's: a refused token, a missing credential or an unreachable  *)
(* keyring; or because one of its matches cannot be mapped, the one way in *)
(* which a single item fails its batch.  No reason that fails a batch is   *)
(* ever answered as if it were the items'.                                 *)
PartialSuccess ==
    /\ at = "answered" => \A i \in 1..size :
          /\ result[i].status # "none"
          /\ result[i].status = "error" <=> outcome[i] \in {<<"service">>, <<"unexpected">>}
    /\ at = "failed" => \E i \in 1..size :
          /\ stage[i] = "raised"
          /\ outcome[i] \in RefusedWhole \/ \E k \in DOMAIN outcome[i] : outcome[i][k] \in Unreadable

(* A person who refuses explicit tracks is given none, gets the best of    *)
(* the others wherever it stands, and is told that something was withheld  *)
(* exactly when there was nothing else.                                    *)
OnlyCleanTracks ==
    clean => \A i \in Item : result[i].status \in {"found", "not_found"} =>
        LET hits == outcome[i]
        IN  /\ result[i].withheld <=> hits # <<>> /\ \A k \in DOMAIN hits : hits[k] \in Explicit
            /\ result[i].status = "found" => \E k \in DOMAIN hits :
                  /\ result[i].track = hits[k] /\ hits[k] \notin Explicit
                  /\ \A j \in 1..(k - 1) : hits[j] \in Explicit
            /\ result[i].status = "not_found" => result[i].withheld \/ hits = <<>>

(* A batch ends, and so does every lookup it started, those left running   *)
(* after it failed or was cancelled included: no permit stays behind.      *)
EveryLookupEnds ==
    at = "gathering" ~> at \in Ended /\ Unfinished = {} /\ free = Permits
===============================================================================
