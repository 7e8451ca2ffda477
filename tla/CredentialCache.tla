--------------------------- MODULE CredentialCache ---------------------------
(***************************************************************************)
(* The credential provider of credentials/keyring.py: a cache of resolved  *)
(* Spotify credentials, one entry and one asyncio.Lock per user token and  *)
(* profile, filled from keyring over HTTP.                                 *)
(*                                                                         *)
(* resolve() awaits in two places only, the lock and the fetch, so it is   *)
(* split there: Resolve up to the first await, Granted when the lock is    *)
(* handed over, FetchSucceeds and FetchFails when keyring has answered.    *)
(* SpotifyClient composes these with the request that needs a credential.  *)
(*                                                                         *)
(* asyncio.Lock is first come, first served: release() wakes the first     *)
(* waiter, and a newcomer queues behind it even before it has run.         *)
(***************************************************************************)
EXTENDS Integers, Sequences, FiniteSets

CONSTANTS Call,        \* the coroutines that may be inside resolve() at once
          NoCall,      \* nobody holds the lock
          Token,       \* user tokens
          Profile,     \* keyring profiles
          DefaultTTL,  \* credential_cache_default_ttl_seconds
          Skew,        \* credential_cache_skew_seconds
          Lifetime,    \* how long keyring may say a credential is still good
          Unknown,     \* keyring gave no expiry, or none that parses
          MaxTime      \* bound: the last clock reading

ASSUME CredentialCacheAssumption ==
    /\ NoCall \notin Call
    /\ Token # {} /\ Profile # {}
    /\ DefaultTTL \in Nat
    /\ Skew \in Nat
    /\ Lifetime \subseteq Int \cup {Unknown}
    /\ Unknown \notin Int
    /\ MaxTime \in Nat

VARIABLES now,     \* the clock; the monotonic and the wall clock run together
          cache,   \* _cache
          holder,  \* who holds the lock of a key; it is fetching
          queue,   \* who waits for the lock of a key, in order
          outrun   \* history: the fetch in flight was asked before an invalidate

cacheVars == <<cache, holder, queue, outrun>>

-----------------------------------------------------------------------------

(* On whose behalf a call is made: a UserContext. *)
Who == Token \X Profile

(* _key: the hash of the token and the profile together name an entry, so  *)
(* the entries of two users, or of two profiles of one, never meet.        *)
Key == Token \X Profile

KeyOfProfileAlone(who) == <<CHOOSE t \in Token : TRUE, who[2]>>

KeyOf(who) == who

NoEntry == [of |-> NoCall, expiry |-> Unknown, until |-> 0, outrun |-> FALSE]

(* A _CacheEntry: whose credential it holds, when the provider says it ends,  *)
(* and until when it may be used.                                          *)
Entry == [of     : Who,
          expiry : Int \cup {Unknown},
          until  : Nat,
          outrun : BOOLEAN]

CacheTypeOK ==
    /\ now \in 0..MaxTime
    /\ cache \in [Key -> Entry \cup {NoEntry}]
    /\ holder \in [Key -> Call \cup {NoCall}]
    /\ queue \in [Key -> Seq(Call)]
    /\ outrun \in [Key -> BOOLEAN]

CacheInit ==
    /\ now = 0
    /\ cache = [k \in Key |-> NoEntry]
    /\ holder = [k \in Key |-> NoCall]
    /\ queue = [k \in Key |-> <<>>]
    /\ outrun = [k \in Key |-> FALSE]

(* _fresh. *)
Fresh(entry) == entry # NoEntry /\ now < entry.until

(* _ttl_for: up to a margin before the expiry, and never longer than       *)
(* twelve times the default; the default when there is no expiry.          *)
AtLeastZero(n) == IF n < 0 THEN 0 ELSE n
AtMost(n, cap) == IF n < cap THEN n ELSE cap

TTLIgnoringSkew(expiry) ==
    IF expiry = Unknown THEN DefaultTTL ELSE AtLeastZero(expiry - now)

TTLBelowZero(expiry) ==
    IF expiry = Unknown THEN DefaultTTL ELSE AtMost(expiry - now - Skew, 12 * DefaultTTL)

TTLFor(expiry) ==
    IF expiry = Unknown THEN DefaultTTL
    ELSE AtLeastZero(AtMost(expiry - now - Skew, 12 * DefaultTTL))

-----------------------------------------------------------------------------
(* The lock of a key. *)

Free(k) == holder[k] = NoCall /\ queue[k] = <<>>

(* acquire(): take a free lock in this step, or wait behind the others.    *)
TakeOrQueue(c, k) ==
    IF Free(k)
    THEN holder' = [holder EXCEPT ![k] = c] /\ UNCHANGED queue
    ELSE queue' = [queue EXCEPT ![k] = Append(@, c)] /\ UNCHANGED holder

(* The first waiter runs again: it has left the queue and holds the lock,  *)
(* unless it finds that it need not fetch and releases it at once.         *)
Leave(k) == queue' = [queue EXCEPT ![k] = Tail(@)]

(* Leaving the async with, by returning or by an exception. *)
NeverRelease(k) == UNCHANGED <<holder, outrun>>

Release(k) ==
    /\ holder' = [holder EXCEPT ![k] = NoCall]
    /\ outrun' = [outrun EXCEPT ![k] = FALSE]

(* A cancelled waiter leaves the queue wherever it stands. *)
Without(s, i) == SubSeq(s, 1, i - 1) \o SubSeq(s, i + 1, Len(s))

Withdraw(c, k) ==
    \E i \in 1..Len(queue[k]) : /\ queue[k][i] = c
                               /\ queue' = [queue EXCEPT ![k] = Without(@, i)]

-----------------------------------------------------------------------------
(* The cache. *)

(* The entry filed under k when keyring answers a fetch made for who.      *)
Filed(k, who, expiry) ==
    [of |-> who, expiry |-> expiry, until |-> now + TTLFor(expiry), outrun |-> outrun[k]]

(* invalidate: drop the entry.  A fetch already in flight is not recalled. *)
Invalidate(k) ==
    /\ cache' = [cache EXCEPT ![k] = NoEntry]
    /\ outrun' = [outrun EXCEPT ![k] = holder[k] # NoCall]
===============================================================================
