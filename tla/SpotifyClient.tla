---------------------------- MODULE SpotifyClient ----------------------------
(***************************************************************************)
(* The retry ladder of spotify/client.py: SpotifyClient.request, run by    *)
(* several coroutines at once over one CredentialCache.                    *)
(*                                                                         *)
(* A call resolves a credential, sends, and on what Spotify answers it     *)
(* returns, raises, sleeps and tries again, or, once, drops the credential *)
(* and resolves a new one.  Its steps are cut at its awaits: the lock, the *)
(* fetch from keyring, the request to Spotify and the backoff sleep.  A    *)
(* call can be cancelled at any of them.                                   *)
(*                                                                         *)
(* An operator named for what it gets wrong (TransientOneMore) is a faulty *)
(* variant of the definition below it, kept to show that a property can    *)
(* tell the two apart; so are TTLIgnoringSkew, NeverRelease and the like   *)
(* in CredentialCache.                                                     *)
(***************************************************************************)
EXTENDS CredentialCache

CONSTANT Budget  \* max_retries

ASSUME SpotifyClientAssumption == Budget \in Nat

VARIABLE call  \* call[c]: the request coroutine c is making, or has made

vars == <<now, cache, holder, queue, outrun, call>>

-----------------------------------------------------------------------------

Waiting  == {"queued", "fetching", "sending", "sleeping"}
Finished == {"returned", "raised", "cancelled"}

CallRecord == [at      : {"new"} \cup Waiting \cup Finished,
               who     : Who,                \* context
               with    : Who \cup {NoCall},  \* whose credential it last sent
               attempt : Nat,
               reauth  : BOOLEAN,            \* reauthenticated
               sent    : Nat]                \* requests sent to Spotify

Unused == [at |-> "new", who |-> CHOOSE who \in Who : TRUE, with |-> NoCall, attempt |-> 0,
           reauth |-> FALSE, sent |-> 0]

KeyOfCall(c) == KeyOf(call[c].who)

Init == CacheInit /\ call = [c \in Call |-> Unused]

(* Sending: the credential goes into the request. *)
Sending(r, whose) == [r EXCEPT !.at = "sending", !.with = whose, !.sent = @ + 1]

(* Without a fresh entry: fetching if the lock is free, else queued. *)
Blocked(r) == [r EXCEPT !.at = IF Free(KeyOf(r.who)) THEN "fetching" ELSE "queued"]

(* resolve() up to its first await, for a call whose record is then r. *)
Resolve(c, r) ==
    LET k == KeyOf(r.who)
    IN  IF Fresh(cache[k])
        THEN /\ call' = [call EXCEPT ![c] = Sending(r, cache[k].of)]
             /\ UNCHANGED <<holder, queue>>
        ELSE /\ TakeOrQueue(c, k)
             /\ call' = [call EXCEPT ![c] = Blocked(r)]

-----------------------------------------------------------------------------

Begin(c, who) ==
    /\ call[c].at \in {"new"} \cup Finished
    /\ Resolve(c, [Unused EXCEPT !.who = who])
    /\ UNCHANGED <<now, cache, outrun>>

(* The lock is handed to the first waiter, which looks at the cache again. *)
Granted(c) ==
    LET k == KeyOfCall(c)
    IN  /\ holder[k] = NoCall
        /\ queue[k] # <<>> /\ Head(queue[k]) = c
        /\ Leave(k)
        /\ IF Fresh(cache[k])
           THEN /\ call' = [call EXCEPT ![c] = Sending(@, cache[k].of)]
                /\ UNCHANGED holder
           ELSE /\ call' = [call EXCEPT ![c].at = "fetching"]
                /\ holder' = [holder EXCEPT ![k] = c]
        /\ UNCHANGED <<now, cache, outrun>>

(* keyring answered: file the credential, release the lock, send. *)
FetchSucceeds(c, life) ==
    LET k == KeyOfCall(c)
        expiry == IF life = Unknown THEN Unknown ELSE now + life
    IN  /\ call[c].at = "fetching"
        /\ cache' = [cache EXCEPT ![k] = Filed(k, call[c].who, expiry)]
        /\ Release(k)
        /\ call' = [call EXCEPT ![c] = Sending(@, @.who)]
        /\ UNCHANGED <<now, queue>>

(* keyring refused, failed or could not be reached: the call raises.       *)
(* Nothing is cached, so the next in the queue asks again.                 *)
FetchFails(c) ==
    /\ call[c].at = "fetching"
    /\ Release(KeyOfCall(c))
    /\ call' = [call EXCEPT ![c].at = "raised"]
    /\ UNCHANGED <<now, cache, queue>>

-----------------------------------------------------------------------------
(* What Spotify answers. *)

(* 2xx with a body that parses, or with none. *)
Accepted(c) ==
    /\ call[c].at = "sending"
    /\ call' = [call EXCEPT ![c].at = "returned"]
    /\ UNCHANGED <<now, cacheVars>>

(* The first 401: drop the cached credential, resolve again, keep the      *)
(* budget.                                                                 *)
FirstUnauthorized(c) ==
    LET r == [call[c] EXCEPT !.reauth = TRUE]
    IN  /\ call[c].at = "sending" /\ ~call[c].reauth
        /\ Invalidate(KeyOf(r.who))
        /\ TakeOrQueue(c, KeyOf(r.who))
        /\ call' = [call EXCEPT ![c] = Blocked(r)]
        /\ UNCHANGED now

(* A second 401, any other 4xx but 429, or an answer that does not parse.  *)
Refused(c) ==
    /\ call[c].at = "sending"
    /\ call' = [call EXCEPT ![c].at = "raised"]
    /\ UNCHANGED <<now, cacheVars>>

(* 429, 5xx or no answer: sleep while the budget lasts, then raise. *)
Retried(r) == [r EXCEPT !.at = "sleeping", !.attempt = @ + 1]

TransientOneMore(c) ==
    /\ call[c].at = "sending"
    /\ call' = [call EXCEPT ![c] =
                  IF @.attempt > Budget THEN [@ EXCEPT !.at = "raised"]
                  ELSE Retried(@)]
    /\ UNCHANGED <<now, cacheVars>>

Transient(c) ==
    /\ call[c].at = "sending"
    /\ call' = [call EXCEPT ![c] =
                  IF @.attempt >= Budget THEN [@ EXCEPT !.at = "raised"]
                  ELSE Retried(@)]
    /\ UNCHANGED <<now, cacheVars>>

(* The backoff is over: round the loop, which resolves again. *)
WakeUp(c) ==
    /\ call[c].at = "sleeping"
    /\ Resolve(c, call[c])
    /\ UNCHANGED <<now, cache, outrun>>

(* CancelledError at whichever await the call is suspended in. *)
Cancel(c) ==
    LET k == KeyOfCall(c)
    IN  /\ call[c].at \in Waiting
        /\ IF call[c].at = "queued" THEN Withdraw(c, k) ELSE UNCHANGED queue
        /\ IF call[c].at = "fetching" THEN Release(k) ELSE UNCHANGED <<holder, outrun>>
        /\ call' = [call EXCEPT ![c].at = "cancelled"]
        /\ UNCHANGED <<now, cache>>

Tick ==
    /\ now < MaxTime
    /\ now' = now + 1
    /\ UNCHANGED <<cacheVars, call>>

Next ==
    \/ \E c \in Call :
          \/ \E who \in Who : Begin(c, who)
          \/ Granted(c)
          \/ \E life \in Lifetime : FetchSucceeds(c, life)
          \/ FetchFails(c)
          \/ Accepted(c) \/ FirstUnauthorized(c) \/ Refused(c) \/ Transient(c)
          \/ WakeUp(c)
          \/ Cancel(c)
    \/ Tick

Spec == Init /\ [][Next]_vars

(* Each HTTP call has a timeout, sleeps end, and the event loop runs the   *)
(* waiter that the lock has woken.  Nothing is assumed of how Spotify or   *)
(* keyring answer, of callers, or of the clock.                            *)
Fairness ==
    \A c \in Call :
        /\ WF_vars(Granted(c))
        /\ WF_vars((\E life \in Lifetime : FetchSucceeds(c, life)) \/ FetchFails(c))
        /\ WF_vars(Accepted(c) \/ FirstUnauthorized(c) \/ Refused(c) \/ Transient(c))
        /\ WF_vars(WakeUp(c))

FairSpec == Spec /\ Fairness

-----------------------------------------------------------------------------

(* Every variable has its type. *)
TypeOK == CacheTypeOK /\ call \in [Call -> CallRecord]

(* The lock of a key is held exactly by the call that is fetching for it,  *)
(* so a key has at most one fetch in flight, and exactly the calls that    *)
(* wait for it are in its queue, once each; a cancelled or failed call     *)
(* leaves nothing behind.                                                  *)
LockFollowsCalls ==
    /\ \A c \in Call, k \in Key :
          holder[k] = c <=> call[c].at = "fetching" /\ KeyOfCall(c) = k
    /\ \A c \in Call, k \in Key :
          Cardinality({i \in 1..Len(queue[k]) : queue[k][i] = c})
             = IF call[c].at = "queued" /\ KeyOfCall(c) = k THEN 1 ELSE 0

(* A request carries the credential of the user and profile it is made     *)
(* for, whichever call fetched it and wherever it waited.                  *)
OwnCredentialOnly ==
    \A c \in Call : call[c].at = "sending" => call[c].with = call[c].who

(* A credential that the cache would hand out is good for longer than the  *)
(* skew, so it does not expire on its way to Spotify.                      *)
FreshMeansGood ==
    \A k \in Key : Fresh(cache[k]) /\ cache[k].expiry # Unknown
                      => now + Skew < cache[k].expiry

(* A call sends at most one request, Budget retries of it, and one more    *)
(* with a new credential.                                                  *)
RequestsAreBounded == \A c \in Call : call[c].sent <= Budget + 2

(* Every call ends, however Spotify and keyring answer and whoever else    *)
(* waits for, holds or is cancelled at the lock.                           *)
EveryCallEnds == \A c \in Call : call[c].at \in Waiting ~> call[c].at \in Finished

-----------------------------------------------------------------------------
(* A claim of a docstring that the code does not keep; see the README.     *)

(* "Drop the cached credential, so the next resolve asks keyring again"    *)
(* (credentials/keyring.py): what is cached was asked for after the last   *)
(* invalidate.                                                             *)
InvalidateSticks == \A k \in Key : ~cache[k].outrun
===============================================================================
