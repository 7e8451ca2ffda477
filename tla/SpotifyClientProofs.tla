------------------------- MODULE SpotifyClientProofs -------------------------
(***************************************************************************)
(* Proofs about SpotifyClient and the CredentialCache under it, for every  *)
(* number of calls, tokens and profiles, every lifetime and every budget.  *)
(***************************************************************************)
EXTENDS SpotifyClient, FiniteSetTheorems, SequenceTheorems, TLAPS

USE CredentialCacheAssumption, SpotifyClientAssumption

(* Who fetches for a key. *)
HolderFetches ==
    \A c \in Call, k \in Key : holder[k] = c <=> call[c].at = "fetching" /\ call[c].who = k

(* Who waits for the lock of a key, once each. *)
QueueWaits ==
    /\ \A c \in Call, k \in Key :
          (\E i \in 1..Len(queue[k]) : queue[k][i] = c)
             <=> call[c].at = "queued" /\ call[c].who = k
    /\ \A k \in Key : \A i, j \in 1..Len(queue[k]) : queue[k][i] = queue[k][j] => i = j

(* What is filed under a key was fetched for it, and is used no longer     *)
(* than a margin before its end, or not at all any more.                   *)
EntriesKeepTheirWord ==
    \A k \in Key : cache[k] # NoEntry =>
        /\ cache[k].of = k
        /\ cache[k].expiry # Unknown =>
              \/ cache[k].until <= now
              \/ cache[k].until + Skew <= cache[k].expiry

(* Each request but the first was paid for: from the budget, or with the   *)
(* one re-authentication.                                                  *)
Paid(r) ==
    /\ r.attempt <= Budget
    /\ r.sent <= r.attempt
                   + (IF r.reauth THEN 1 ELSE 0)
                   + (IF r.at \in {"sending"} \cup Finished THEN 1 ELSE 0)

RequestsArePaid == \A c \in Call : Paid(call[c])

(* The parts of the inductive invariant, by what disturbs them. *)
LockInv ==
    /\ call \in [Call -> CallRecord]
    /\ holder \in [Key -> Call \cup {NoCall}]
    /\ queue \in [Key -> Seq(Call)]
    /\ HolderFetches
    /\ QueueWaits

CacheInv ==
    /\ now \in 0..MaxTime
    /\ cache \in [Key -> Entry \cup {NoEntry}]
    /\ outrun \in [Key -> BOOLEAN]
    /\ EntriesKeepTheirWord

CallInv == OwnCredentialOnly /\ RequestsArePaid

(* The inductive invariant. *)
IInv == LockInv /\ CacheInv /\ CallInv

(* The types are part of the invariant. *)
LEMMA IInvHasTypes == IInv => TypeOK
  BY DEF IInv, LockInv, CacheInv, TypeOK, CacheTypeOK

-----------------------------------------------------------------------------
(* The lock. *)

(* A step of call c and of no other. *)
StepOf(c) ==
    /\ call \in [Call -> CallRecord]
    /\ call' \in [Call -> CallRecord]
    /\ \A d \in Call \ {c} : call'[d] = call[d]

AtLock == {"queued", "fetching"}

(* A call that does not wait before or after its step leaves the queues,    *)
(* and one that does not fetch before or after leaves the holders.         *)
LEMMA SameQueues ==
    ASSUME LockInv, NEW c \in Call, StepOf(c),
           call[c].at # "queued", call'[c].at # "queued", UNCHANGED queue
    PROVE  QueueWaits'
<1>1. ASSUME NEW d \in Call, NEW l \in Key
      PROVE  (\E i \in 1..Len(queue'[l]) : queue'[l][i] = d)
                <=> call'[d].at = "queued" /\ call'[d].who = l
  <2>1. CASE d = c
    BY <2>1 DEF LockInv, QueueWaits
  <2>2. CASE d # c
    BY <2>2 DEF LockInv, QueueWaits, StepOf
  <2> QED
    BY <2>1, <2>2
<1>2. ASSUME NEW l \in Key
      PROVE  \A i, j \in 1..Len(queue'[l]) : queue'[l][i] = queue'[l][j] => i = j
  BY DEF LockInv, QueueWaits
<1> QED
  BY <1>1, <1>2 DEF QueueWaits

(* A call that neither gets the lock of its key nor gives it up leaves the holders. *)
LEMMA SameHolders ==
    ASSUME LockInv, NEW c \in Call, StepOf(c),
           call[c].at # "fetching", call'[c].at # "fetching", UNCHANGED holder
    PROVE  HolderFetches'
<1> SUFFICES ASSUME NEW d \in Call, NEW l \in Key
             PROVE  holder'[l] = d <=> call'[d].at = "fetching" /\ call'[d].who = l
  BY DEF HolderFetches
<1>1. CASE d = c
  BY <1>1 DEF LockInv, HolderFetches
<1>2. CASE d # c
  BY <1>2 DEF LockInv, HolderFetches, StepOf
<1> QED
  BY <1>1, <1>2

(* A call that is not at a lock before or after its step leaves it alone. *)
LEMMA LockUntouched ==
    ASSUME LockInv, NEW c \in Call, StepOf(c),
           call[c].at \notin AtLock, call'[c].at \notin AtLock,
           UNCHANGED <<holder, queue>>
    PROVE  LockInv'
  BY SameQueues, SameHolders DEF LockInv, StepOf, AtLock

(* acquire() takes the lock or the last place in its queue. *)
LEMMA LockTaken ==
    ASSUME LockInv, NEW c \in Call, NEW k \in Key, StepOf(c),
           call[c].at \notin AtLock,
           call'[c].who = k,
           call'[c].at = IF Free(k) THEN "fetching" ELSE "queued",
           TakeOrQueue(c, k)
    PROVE  LockInv'
<1>1. CASE Free(k)
  <2>1. holder' = [holder EXCEPT ![k] = c] /\ queue' = queue
    BY <1>1 DEF TakeOrQueue
  <2>2. call'[c].at = "fetching"
    BY <1>1
  <2>3. holder' \in [Key -> Call \cup {NoCall}]
    BY <2>1 DEF LockInv
  <2>4. HolderFetches'
    <3> SUFFICES ASSUME NEW d \in Call, NEW l \in Key
                 PROVE  holder'[l] = d <=> call'[d].at = "fetching" /\ call'[d].who = l
      BY DEF HolderFetches
    <3>1. holder'[l] = IF l = k THEN c ELSE holder[l]
      BY <2>1 DEF LockInv
    <3>2. holder[k] = NoCall
      BY <1>1 DEF Free
    <3>3. holder[l] = d <=> call[d].at = "fetching" /\ call[d].who = l
      BY DEF LockInv, HolderFetches
    <3>4. holder[k] = d <=> call[d].at = "fetching" /\ call[d].who = k
      BY DEF LockInv, HolderFetches
    <3>5. CASE d = c
      BY <3>1, <3>3, <3>5, <2>2 DEF AtLock
    <3>6. CASE d # c
      BY <3>1, <3>2, <3>3, <3>4, <3>6 DEF StepOf
    <3> QED
      BY <3>5, <3>6
  <2>5. QueueWaits'
    BY <2>1, <2>2, SameQueues DEF AtLock
  <2> QED
    BY <2>1, <2>3, <2>4, <2>5 DEF LockInv, StepOf
<1>2. CASE ~Free(k)
  <2>1. queue' = [queue EXCEPT ![k] = Append(queue[k], c)] /\ holder' = holder
    BY <1>2 DEF TakeOrQueue
  <2>2. call'[c].at = "queued"
    BY <1>2
  <2>3. /\ Append(queue[k], c) \in Seq(Call)
        /\ Len(queue[k]) \in Nat
        /\ Len(Append(queue[k], c)) = Len(queue[k]) + 1
        /\ \A i \in 1..Len(queue[k]) : Append(queue[k], c)[i] = queue[k][i]
        /\ Append(queue[k], c)[Len(queue[k]) + 1] = c
    BY AppendProperties, LenProperties DEF LockInv
  <2>4. queue' \in [Key -> Seq(Call)]
    BY <2>1, <2>3 DEF LockInv
  <2>5. HolderFetches'
    BY <2>1, <2>2, SameHolders DEF AtLock
  <2>6. ~ \E l \in Key : \E i \in 1..Len(queue[l]) : queue[l][i] = c
    BY DEF LockInv, QueueWaits, AtLock
  <2>7. QueueWaits'
    <3>1. ASSUME NEW d \in Call, NEW l \in Key
          PROVE  (\E i \in 1..Len(queue'[l]) : queue'[l][i] = d)
                    <=> call'[d].at = "queued" /\ call'[d].who = l
      <4>1. CASE l # k
        BY <4>1, <2>1, <2>2, <2>6 DEF LockInv, QueueWaits, StepOf
      <4>2. CASE l = k
        <5>1. queue'[l] = Append(queue[k], c)
          BY <4>2, <2>1 DEF LockInv
        <5>2. (\E i \in 1..Len(queue'[l]) : queue'[l][i] = d)
                 <=> d = c \/ \E i \in 1..Len(queue[k]) : queue[k][i] = d
          BY <5>1, <2>3
        <5> QED
          BY <5>2, <4>2, <2>2 DEF LockInv, QueueWaits, StepOf
      <4> QED
        BY <4>1, <4>2
    <3>2. ASSUME NEW l \in Key, NEW i \in 1..Len(queue'[l]), NEW j \in 1..Len(queue'[l]),
                 queue'[l][i] = queue'[l][j]
          PROVE  i = j
      <4>1. CASE l # k
        <5>1. queue'[l] = queue[l]
          BY <4>1, <2>1 DEF LockInv
        <5>2. \A m, n \in 1..Len(queue[l]) : queue[l][m] = queue[l][n] => m = n
          BY DEF LockInv, QueueWaits
        <5> QED
          BY <5>1, <5>2, <3>2
      <4>2. CASE l = k
        <5>1. queue'[l] = Append(queue[k], c)
          BY <4>2, <2>1 DEF LockInv
        <5>2. \A m, n \in 1..Len(queue[k]) : queue[k][m] = queue[k][n] => m = n
          BY DEF LockInv, QueueWaits
        <5> QED
          BY <5>1, <5>2, <3>2, <2>3, <2>6
      <4> QED
        BY <4>1, <4>2
    <3> QED
      BY <3>1, <3>2 DEF QueueWaits
  <2> QED
    BY <2>4, <2>5, <2>7, <2>1 DEF LockInv, StepOf
<1> QED
  BY <1>1, <1>2

(* The holder leaves the lock, by returning or by an exception. *)
LEMMA LockReleased ==
    ASSUME LockInv, NEW c \in Call, StepOf(c),
           call[c].at = "fetching", call'[c].at \notin AtLock,
           holder' = [holder EXCEPT ![call[c].who] = NoCall],
           UNCHANGED queue
    PROVE  LockInv'
<1>1. call[c].who \in Key
  BY DEF LockInv, CallRecord, Who, Key
<1>2. holder' \in [Key -> Call \cup {NoCall}]
  BY <1>1 DEF LockInv
<1>3. HolderFetches'
  BY <1>1, <1>2 DEF LockInv, StepOf, AtLock, HolderFetches
<1>4. QueueWaits'
  BY SameQueues DEF AtLock
<1> QED
  BY <1>2, <1>3, <1>4 DEF LockInv, StepOf

(* The first waiter leaves the queue with the lock or, when it need not     *)
(* fetch, without it.                                                      *)
LEMMA LockGranted ==
    ASSUME LockInv, NEW c \in Call, NEW k \in Key, StepOf(c),
           holder[k] = NoCall, queue[k] # <<>>, Head(queue[k]) = c,
           Leave(k),
           \/ /\ call'[c].at = "fetching" /\ call'[c].who = call[c].who
              /\ holder' = [holder EXCEPT ![k] = c]
           \/ /\ call'[c].at \notin AtLock
              /\ holder' = holder
    PROVE  LockInv'
<1>1. /\ Len(queue[k]) \in Nat \ {0}
      /\ queue[k][1] = c
      /\ Tail(queue[k]) \in Seq(Call)
      /\ Len(Tail(queue[k])) = Len(queue[k]) - 1
      /\ \A i \in 1..Len(Tail(queue[k])) : Tail(queue[k])[i] = queue[k][i + 1]
  <2>1. queue[k] \in Seq(Call)
    BY DEF LockInv
  <2> QED
    BY <2>1, HeadTailProperties, EmptySeq
<1>2. call[c].at = "queued" /\ call[c].who = k
  BY <1>1 DEF LockInv, QueueWaits
<1>3. \A i, j \in 1..Len(queue[k]) : queue[k][i] = queue[k][j] => i = j
  BY DEF LockInv, QueueWaits
<1>4. queue' = [queue EXCEPT ![k] = Tail(queue[k])]
  BY DEF Leave
<1>5. queue' \in [Key -> Seq(Call)] /\ holder' \in [Key -> Call \cup {NoCall}]
  BY <1>1, <1>4 DEF LockInv
<1>6. HolderFetches'
  <2> SUFFICES ASSUME NEW d \in Call, NEW l \in Key
               PROVE  holder'[l] = d <=> call'[d].at = "fetching" /\ call'[d].who = l
    BY DEF HolderFetches
  <2>1. holder[l] = d <=> call[d].at = "fetching" /\ call[d].who = l
    BY DEF LockInv, HolderFetches
  <2>2. holder'[l] = holder[l] \/ (l = k /\ holder'[l] = c /\ call'[c].at = "fetching"
                                   /\ call'[c].who = call[c].who)
    BY DEF LockInv
  <2>3. call'[c].at = "fetching" => holder'[k] = c /\ call'[c].who = k
    BY <1>2 DEF LockInv, AtLock
  <2>4. CASE d = c
    BY <2>1, <2>2, <2>3, <2>4, <1>2
  <2>5. CASE d # c
    BY <2>1, <2>2, <2>5 DEF StepOf
  <2> QED
    BY <2>4, <2>5
<1>7. QueueWaits'
  <2>1. ASSUME NEW d \in Call, NEW l \in Key
        PROVE  (\E i \in 1..Len(queue'[l]) : queue'[l][i] = d)
                  <=> call'[d].at = "queued" /\ call'[d].who = l
    <3>1. (\E i \in 1..Len(queue[l]) : queue[l][i] = d)
             <=> call[d].at = "queued" /\ call[d].who = l
      BY DEF LockInv, QueueWaits
    <3>2. call'[c].at # "queued"
      BY DEF AtLock
    <3>3. (\E i \in 1..Len(queue'[l]) : queue'[l][i] = d)
             <=> d # c /\ \E i \in 1..Len(queue[l]) : queue[l][i] = d
      <4>1. CASE l # k
        <5>1. queue'[l] = queue[l]
          BY <4>1, <1>4 DEF LockInv
        <5> QED
          BY <5>1, <3>1, <1>2, <4>1
      <4>2. CASE l = k
        <5>1. queue'[l] = Tail(queue[k])
          BY <4>2, <1>4 DEF LockInv
        <5>2. ASSUME NEW i \in 1..Len(Tail(queue[k]))
              PROVE  /\ i + 1 \in 1..Len(queue[k])
                     /\ Tail(queue[k])[i] # c
          BY <1>1, <1>3
        <5>3. ASSUME NEW i \in 1..Len(queue[k]), queue[k][i] # c
              PROVE  /\ i - 1 \in 1..Len(Tail(queue[k]))
                     /\ Tail(queue[k])[i - 1] = queue[k][i]
          BY <1>1, <5>3
        <5>4. ASSUME NEW i \in 1..Len(queue'[l]), queue'[l][i] = d
              PROVE  d # c /\ \E j \in 1..Len(queue[l]) : queue[l][j] = d
          BY <5>1, <5>2, <5>4, <4>2, <1>1
        <5>5. ASSUME NEW i \in 1..Len(queue[l]), queue[l][i] = d, d # c
              PROVE  \E j \in 1..Len(queue'[l]) : queue'[l][j] = d
          <6>1. /\ i - 1 \in 1..Len(Tail(queue[k]))
                /\ Tail(queue[k])[i - 1] = d
            BY <5>3, <5>5, <4>2
          <6> QED
            BY <6>1, <5>1
        <5> QED
          BY <5>4, <5>5
      <4> QED
        BY <4>1, <4>2
    <3>4. CASE d = c
      BY <3>2, <3>3, <3>4
    <3>5. CASE d # c
      BY <3>1, <3>3, <3>5 DEF StepOf
    <3> QED
      BY <3>4, <3>5
  <2>2. ASSUME NEW l \in Key, NEW i \in 1..Len(queue'[l]), NEW j \in 1..Len(queue'[l]),
               queue'[l][i] = queue'[l][j]
        PROVE  i = j
    <3>1. CASE l # k
      <4>1. queue'[l] = queue[l]
        BY <3>1, <1>4 DEF LockInv
      <4>2. \A m, n \in 1..Len(queue[l]) : queue[l][m] = queue[l][n] => m = n
        BY DEF LockInv, QueueWaits
      <4> QED
        BY <4>1, <4>2, <2>2
    <3>2. CASE l = k
      <4>1. queue'[l] = Tail(queue[k])
        BY <3>2, <1>4 DEF LockInv
      <4>2. /\ i + 1 \in 1..Len(queue[k]) /\ j + 1 \in 1..Len(queue[k])
            /\ queue[k][i + 1] = queue[k][j + 1]
        BY <4>1, <2>2, <1>1
      <4>3. i + 1 = j + 1
        BY <4>2, <1>3
      <4>4. i \in Nat /\ j \in Nat
        BY <4>1, <1>1
      <4> QED
        BY <4>3, <4>4
    <3> QED
      BY <3>1, <3>2
  <2> QED
    BY <2>1, <2>2 DEF QueueWaits
<1> QED
  BY <1>5, <1>6, <1>7 DEF LockInv, StepOf

(* A cancelled waiter leaves the queue wherever it stands. *)
LEMMA RemovalKeepsTheRest ==
    ASSUME NEW S, NEW s \in Seq(S), NEW n \in 1..Len(s)
    PROVE  /\ Without(s, n) \in Seq(S)
           /\ Len(s) \in Nat
           /\ Len(Without(s, n)) = Len(s) - 1
           /\ \A i \in 1..(n - 1) : Without(s, n)[i] = s[i]
           /\ \A i \in n..(Len(s) - 1) : Without(s, n)[i] = s[i + 1]
<1>1. Len(s) \in Nat /\ n \in Nat /\ 1 <= n /\ n <= Len(s)
  BY LenProperties
<1>2. \A i \in 1..Len(s) : s[i] \in S
  BY ElementOfSeq
<1>3. /\ SubSeq(s, 1, n - 1) \in Seq(S)
      /\ Len(SubSeq(s, 1, n - 1)) = n - 1
      /\ \A i \in 1..(n - 1) : SubSeq(s, 1, n - 1)[i] = s[i]
  <2>1. \A i \in 1..(n - 1) : s[i] \in S
    BY <1>1, <1>2
  <2>2. /\ SubSeq(s, 1, n - 1) \in Seq(S)
        /\ Len(SubSeq(s, 1, n - 1)) = IF 1 <= n - 1 THEN n - 1 - 1 + 1 ELSE 0
        /\ \A i \in 1..(n - 1 - 1 + 1) : SubSeq(s, 1, n - 1)[i] = s[1 + i - 1]
    BY <1>1, <2>1, SubSeqProperties
  <2> QED
    BY <1>1, <2>2
<1>4. /\ SubSeq(s, n + 1, Len(s)) \in Seq(S)
      /\ Len(SubSeq(s, n + 1, Len(s))) = Len(s) - n
      /\ \A i \in 1..(Len(s) - n) : SubSeq(s, n + 1, Len(s))[i] = s[n + i]
  <2>1. \A i \in (n + 1)..Len(s) : s[i] \in S
    BY <1>1, <1>2
  <2>2. /\ SubSeq(s, n + 1, Len(s)) \in Seq(S)
        /\ Len(SubSeq(s, n + 1, Len(s))) =
              IF n + 1 <= Len(s) THEN Len(s) - (n + 1) + 1 ELSE 0
        /\ \A i \in 1..(Len(s) - (n + 1) + 1) :
              SubSeq(s, n + 1, Len(s))[i] = s[n + 1 + i - 1]
    BY <1>1, <2>1, SubSeqProperties
  <2> QED
    BY <1>1, <2>2
<1> DEFINE a == SubSeq(s, 1, n - 1)
           b == SubSeq(s, n + 1, Len(s))
<1>5. /\ a \o b \in Seq(S)
      /\ Len(a \o b) = Len(a) + Len(b)
      /\ \A i \in 1..(Len(a) + Len(b)) : (a \o b)[i] = IF i <= Len(a) THEN a[i] ELSE b[i - Len(a)]
  BY <1>3, <1>4, ConcatProperties
<1>6. Without(s, n) = a \o b
  BY DEF Without
<1> HIDE DEF a, b
<1>7. Len(a) = n - 1 /\ Len(b) = Len(s) - n
  BY <1>3, <1>4 DEF a, b
<1>8. \A i \in 1..(n - 1) : (a \o b)[i] = s[i]
  <2>1. \A i \in 1..(n - 1) : a[i] = s[i]
    BY <1>3 DEF a
  <2> QED
    BY <1>1, <1>5, <1>7, <2>1
<1>9. \A i \in n..(Len(s) - 1) : (a \o b)[i] = s[i + 1]
  <2> SUFFICES ASSUME NEW i \in n..(Len(s) - 1)
               PROVE  (a \o b)[i] = s[i + 1]
    OBVIOUS
  <2>1. /\ i \in 1..(Len(a) + Len(b)) /\ ~ i <= Len(a)
        /\ i - (n - 1) \in 1..(Len(s) - n)
        /\ n + (i - (n - 1)) = i + 1
    BY <1>1, <1>7
  <2>2. \A j \in 1..(Len(s) - n) : b[j] = s[n + j]
    BY <1>4 DEF b
  <2> QED
    BY <1>5, <1>7, <2>1, <2>2
<1>10. a \o b \in Seq(S) /\ Len(a \o b) = Len(s) - 1
  BY <1>1, <1>5, <1>7
<1> HIDE DEF Without
<1> QED
  BY <1>1, <1>6, <1>8, <1>9, <1>10

(* A call that stops waiting leaves the queue, and nobody else does. *)
LEMMA WaiterLeaves ==
    ASSUME LockInv, NEW c \in Call, StepOf(c),
           call[c].at = "queued", call'[c].at \notin AtLock,
           Withdraw(c, call[c].who),
           UNCHANGED holder
    PROVE  LockInv'
<1> DEFINE k == call[c].who
<1>1. k \in Key
  BY DEF LockInv, CallRecord, Who, Key
<1>2. PICK n \in 1..Len(queue[k]) : /\ queue[k][n] = c
                                    /\ queue' = [queue EXCEPT ![k] = Without(queue[k], n)]
  BY DEF Withdraw
<1> DEFINE s == queue[k]
           t == Without(queue[k], n)
<1>3. s \in Seq(Call)
  BY <1>1 DEF LockInv
<1>4. /\ t \in Seq(Call)
      /\ Len(s) \in Nat
      /\ Len(t) = Len(s) - 1
      /\ \A i \in 1..(n - 1) : t[i] = s[i]
      /\ \A i \in n..(Len(s) - 1) : t[i] = s[i + 1]
  BY <1>2, <1>3, RemovalKeepsTheRest
<1>5. queue'[k] = t /\ (\A l \in Key : l # k => queue'[l] = queue[l])
      /\ queue' \in [Key -> Seq(Call)]
  BY <1>1, <1>2, <1>4 DEF LockInv
<1>6. \A i, j \in 1..Len(s) : s[i] = s[j] => i = j
  BY <1>1 DEF LockInv, QueueWaits
<1>7. \A d \in Call, l \in Key :
         (\E i \in 1..Len(queue[l]) : queue[l][i] = d) <=> call[d].at = "queued" /\ call[d].who = l
  BY DEF LockInv, QueueWaits
<1>8. HolderFetches'
  BY SameHolders DEF AtLock
<1>9. n \in 1..Len(s) /\ s[n] = c
  BY <1>2
<1>10. call'[c].at # "queued"
  BY DEF AtLock
<1>11. call[c].who = k
  OBVIOUS
<1> HIDE DEF k, s, t
<1>12. ASSUME NEW i \in 1..Len(t)
       PROVE  \E j \in 1..Len(s) : j # n /\ t[i] = s[j] /\ j = IF i < n THEN i ELSE i + 1
  <2>1. CASE i < n
    BY <1>4, <1>9, <2>1
  <2>2. CASE ~ i < n
    BY <1>4, <1>9, <2>2
  <2> QED
    BY <2>1, <2>2
<1>13. ASSUME NEW j \in 1..Len(s), j # n
       PROVE  \E i \in 1..Len(t) : t[i] = s[j]
  <2>1. CASE j < n
    <3>1. j \in 1..Len(t) /\ j \in 1..(n - 1)
      BY <1>4, <1>9, <2>1
    <3> QED
      BY <3>1, <1>4
  <2>2. CASE ~ j < n
    <3>1. j - 1 \in 1..Len(t) /\ j - 1 \in n..(Len(s) - 1) /\ (j - 1) + 1 = j
      BY <1>4, <1>9, <2>2, <1>13
    <3> QED
      BY <3>1, <1>4
  <2> QED
    BY <2>1, <2>2
<1>14. QueueWaits'
  <2>1. ASSUME NEW d \in Call, NEW l \in Key
        PROVE  (\E i \in 1..Len(queue'[l]) : queue'[l][i] = d)
                  <=> call'[d].at = "queued" /\ call'[d].who = l
    <3>1. (\E i \in 1..Len(queue'[l]) : queue'[l][i] = d)
             <=> d # c /\ \E i \in 1..Len(queue[l]) : queue[l][i] = d
      <4>1. CASE l # k
        <5>1. queue'[l] = queue[l]
          BY <4>1, <1>5
        <5> QED
          BY <5>1, <1>7, <1>11, <4>1
      <4>2. CASE l = k
        <5>1. queue'[l] = t /\ queue[l] = s
          BY <4>2, <1>5 DEF s, k
        <5>2. \A i \in 1..Len(t) : t[i] # c
          BY <1>6, <1>9, <1>12
        <5>3. ASSUME NEW i \in 1..Len(t), t[i] = d
              PROVE  d # c /\ \E j \in 1..Len(s) : s[j] = d
          BY <5>2, <5>3, <1>12
        <5>4. ASSUME NEW j \in 1..Len(s), s[j] = d, d # c
              PROVE  \E i \in 1..Len(t) : t[i] = d
          BY <5>4, <1>9, <1>13
        <5> QED
          BY <5>1, <5>3, <5>4
      <4> QED
        BY <4>1, <4>2
    <3>2. CASE d = c
      BY <3>1, <3>2, <1>10
    <3>3. CASE d # c
      BY <3>1, <3>3, <1>7 DEF StepOf
    <3> QED
      BY <3>2, <3>3
  <2>2. ASSUME NEW l \in Key, NEW i \in 1..Len(queue'[l]), NEW j \in 1..Len(queue'[l]),
               queue'[l][i] = queue'[l][j]
        PROVE  i = j
    <3>1. CASE l # k
      <4>1. queue'[l] = queue[l]
        BY <3>1, <1>5
      <4>2. \A m, o \in 1..Len(queue[l]) : queue[l][m] = queue[l][o] => m = o
        BY DEF LockInv, QueueWaits
      <4> QED
        BY <4>1, <4>2, <2>2
    <3>2. CASE l = k
      <4>1. i \in 1..Len(t) /\ j \in 1..Len(t) /\ t[i] = t[j]
        BY <3>2, <1>5, <2>2
      <4>2. PICK p \in 1..Len(s) : p # n /\ t[i] = s[p] /\ p = IF i < n THEN i ELSE i + 1
        BY <4>1, <1>12
      <4>3. PICK q \in 1..Len(s) : q # n /\ t[j] = s[q] /\ q = IF j < n THEN j ELSE j + 1
        BY <4>1, <1>12
      <4>4. p = q
        BY <4>1, <4>2, <4>3, <1>6
      <4> QED
        BY <4>1, <4>2, <4>3, <4>4, <1>4, <1>9
    <3> QED
      BY <3>1, <3>2
  <2> QED
    BY <2>1, <2>2 DEF QueueWaits
<1> QED
  BY <1>5, <1>8, <1>14 DEF LockInv, StepOf

-----------------------------------------------------------------------------
(* The cache. *)

(* A credential is kept no longer than a margin before its end. *)
LEMMA TTLWithinExpiry ==
    ASSUME now \in Nat, NEW expiry \in Int \cup {Unknown}
    PROVE  /\ TTLFor(expiry) \in Nat
           /\ expiry # Unknown => \/ TTLFor(expiry) = 0
                                  \/ now + TTLFor(expiry) + Skew <= expiry
<1>1. CASE expiry = Unknown
  BY <1>1 DEF TTLFor
<1>2. CASE expiry # Unknown
  <2> DEFINE left == expiry - now - Skew
             most == AtMost(left, 12 * DefaultTTL)
  <2>1. expiry \in Int /\ left \in Int /\ 12 * DefaultTTL \in Nat
    BY <1>2
  <2>2. most \in Int /\ most <= left
    BY <2>1 DEF AtMost
  <2>3. TTLFor(expiry) = AtLeastZero(most)
    BY <1>2 DEF TTLFor
  <2>4. now + left + Skew = expiry
    BY <2>1
  <2> HIDE DEF left, most
  <2>5. AtLeastZero(most) \in Nat /\ (AtLeastZero(most) = 0 \/ AtLeastZero(most) = most)
    BY <2>2 DEF AtLeastZero
  <2> QED
    BY <1>2, <2>1, <2>2, <2>3, <2>4, <2>5
<1> QED
  BY <1>1, <1>2

(* An entry keeps its word while time passes. *)
LEMMA CacheUntouched ==
    ASSUME CacheInv, now' \in 0..MaxTime, now <= now', UNCHANGED cache,
           outrun' \in [Key -> BOOLEAN]
    PROVE  CacheInv'
<1>1. EntriesKeepTheirWord'
  <2> SUFFICES ASSUME NEW k \in Key, cache[k] # NoEntry
               PROVE  /\ cache[k].of = k
                      /\ cache[k].expiry # Unknown =>
                            \/ cache[k].until <= now'
                            \/ cache[k].until + Skew <= cache[k].expiry
    BY DEF EntriesKeepTheirWord
  <2>1. cache[k] \in Entry
    BY DEF CacheInv
  <2>2. cache[k].until \in Nat /\ now \in Int /\ now' \in Int
    BY <2>1 DEF CacheInv, Entry
  <2> QED
    BY <2>2 DEF CacheInv, EntriesKeepTheirWord
<1> QED
  BY <1>1 DEF CacheInv

(* What is filed is its key's, and ends in time. *)
LEMMA FiledKeeps ==
    ASSUME CacheInv, NEW k \in Key, NEW expiry \in Int \cup {Unknown},
           cache' = [cache EXCEPT ![k] = Filed(k, k, expiry)],
           outrun' \in [Key -> BOOLEAN], UNCHANGED now
    PROVE  CacheInv'
<1> DEFINE e == Filed(k, k, expiry)
<1>1. now \in Nat
  BY DEF CacheInv
<1>2. /\ now + TTLFor(expiry) \in Nat
      /\ expiry # Unknown => \/ now + TTLFor(expiry) <= now
                             \/ now + TTLFor(expiry) + Skew <= expiry
  BY <1>1, TTLWithinExpiry
<1>3. /\ e.of = k /\ e.expiry = expiry /\ e.until = now + TTLFor(expiry)
      /\ e \in Entry
  BY <1>2 DEF Filed, Entry, CacheInv, Key, Who
<1>4. \A l \in Key : cache'[l] = IF l = k THEN e ELSE cache[l]
  BY DEF CacheInv
<1> HIDE DEF e
<1>5. cache' \in [Key -> Entry \cup {NoEntry}]
  <2>1. cache' = [cache EXCEPT ![k] = e]
    BY DEF e
  <2> QED
    BY <2>1, <1>3 DEF CacheInv
<1>6. EntriesKeepTheirWord'
  <2> SUFFICES ASSUME NEW l \in Key, cache'[l] # NoEntry
               PROVE  /\ cache'[l].of = l
                      /\ cache'[l].expiry # Unknown =>
                            \/ cache'[l].until <= now'
                            \/ cache'[l].until + Skew <= cache'[l].expiry
    BY DEF EntriesKeepTheirWord
  <2>1. CASE l = k
    BY <2>1, <1>2, <1>3, <1>4
  <2>2. CASE l # k
    BY <2>2, <1>4 DEF CacheInv, EntriesKeepTheirWord
  <2> QED
    BY <2>1, <2>2
<1> QED
  BY <1>5, <1>6 DEF CacheInv

(* What was dropped has nothing to keep. *)
LEMMA InvalidateKeeps ==
    ASSUME CacheInv, NEW k \in Key, Invalidate(k), UNCHANGED now
    PROVE  CacheInv'
<1>1. \A l \in Key : cache'[l] = IF l = k THEN NoEntry ELSE cache[l]
  BY DEF CacheInv, Invalidate
<1>2. cache' \in [Key -> Entry \cup {NoEntry}]
  BY DEF CacheInv, Invalidate
<1>3. outrun' \in [Key -> BOOLEAN]
  BY DEF CacheInv, Invalidate
<1>4. EntriesKeepTheirWord'
  BY <1>1 DEF CacheInv, EntriesKeepTheirWord
<1> QED
  BY <1>2, <1>3, <1>4 DEF CacheInv

(* resolve() hands out the credential of whoever asks. *)
LEMMA ServedIsOwn ==
    ASSUME CacheInv, NEW k \in Key, Fresh(cache[k])
    PROVE  cache[k].of = k
  BY DEF CacheInv, EntriesKeepTheirWord, Fresh

-----------------------------------------------------------------------------
(* The calls. *)

(* A step of one call keeps what is said of each call if the call keeps it. *)
LEMMA OneCallKeeps ==
    ASSUME CallInv, NEW c \in Call, StepOf(c), Paid(call'[c]),
           call'[c].at = "sending" => call'[c].with = call'[c].who
    PROVE  CallInv'
  BY DEF CallInv, OwnCredentialOnly, RequestsArePaid, StepOf

(* What sending and moving on change in the record of a call. *)
LEMMA SendingRecord ==
    ASSUME NEW r \in CallRecord, NEW whose \in Who
    PROVE  /\ Sending(r, whose) \in CallRecord
           /\ Sending(r, whose).at = "sending"
           /\ Sending(r, whose).with = whose
           /\ Sending(r, whose).who = r.who
           /\ Sending(r, whose).attempt = r.attempt
           /\ Sending(r, whose).reauth = r.reauth
           /\ Sending(r, whose).sent = r.sent + 1
<1>1. ASSUME NEW x \in CallRecord
      PROVE  /\ [x EXCEPT !.at = "sending"] \in CallRecord
             /\ [x EXCEPT !.with = whose] \in CallRecord
             /\ [x EXCEPT !.sent = @ + 1] \in CallRecord
  BY DEF CallRecord, Waiting
<1>2. [[[r EXCEPT !.at = "sending"] EXCEPT !.with = whose] EXCEPT !.sent = @ + 1] \in CallRecord
  <2> DEFINE s == [r EXCEPT !.at = "sending"]
             t == [s EXCEPT !.with = whose]
             u == [t EXCEPT !.sent = @ + 1]
  <2>1. s \in CallRecord
    BY <1>1
  <2> HIDE DEF s
  <2>2. t \in CallRecord
    BY <1>1, <2>1
  <2> HIDE DEF t
  <2>3. u \in CallRecord
    BY <1>1, <2>2
  <2> QED
    BY <2>3 DEF s, t
<1>3. Sending(r, whose) \in CallRecord
  BY <1>2 DEF Sending
<1>4. /\ Sending(r, whose).at = "sending"
      /\ Sending(r, whose).with = whose
      /\ Sending(r, whose).who = r.who
      /\ Sending(r, whose).attempt = r.attempt
      /\ Sending(r, whose).reauth = r.reauth
      /\ Sending(r, whose).sent = r.sent + 1
  BY DEF Sending, CallRecord
<1> QED
  BY <1>3, <1>4

(* Moving on changes nothing of a call but where it is. *)
LEMMA MovedRecord ==
    ASSUME NEW r \in CallRecord, NEW to \in {"new"} \cup Waiting \cup Finished
    PROVE  /\ [r EXCEPT !.at = to] \in CallRecord
           /\ [r EXCEPT !.at = to].at = to
           /\ [r EXCEPT !.at = to].with = r.with
           /\ [r EXCEPT !.at = to].who = r.who
           /\ [r EXCEPT !.at = to].attempt = r.attempt
           /\ [r EXCEPT !.at = to].reauth = r.reauth
           /\ [r EXCEPT !.at = to].sent = r.sent
  BY DEF CallRecord

(* A request more is paid for by whoever was not counted as having one.    *)
LEMMA PaidWhenSent ==
    ASSUME NEW r \in CallRecord, NEW whose \in Who, Paid(r),
           r.at \notin {"sending"} \cup Finished
    PROVE  Paid(Sending(r, whose))
<1> DEFINE s == Sending(r, whose)
<1>1. /\ s.at = "sending" /\ s.attempt = r.attempt
      /\ s.reauth = r.reauth /\ s.sent = r.sent + 1
  BY SendingRecord
<1>2. r.sent \in Nat /\ r.attempt \in Nat
  BY DEF CallRecord
<1>3. r.attempt <= Budget /\ r.sent <= r.attempt + (IF r.reauth THEN 1 ELSE 0)
  BY <1>2 DEF Paid
<1> HIDE DEF s
<1>4. Paid(s)
  BY <1>1, <1>2, <1>3 DEF Paid
<1> QED
  BY <1>4 DEF s

(* Moving on costs nothing, but for a call that would no longer be counted  *)
(* as having sent one.                                                     *)
LEMMA PaidWhenMoved ==
    ASSUME NEW r \in CallRecord, NEW to \in {"new"} \cup Waiting \cup Finished, Paid(r),
           r.at \in {"sending"} \cup Finished => to \in {"sending"} \cup Finished
    PROVE  Paid([r EXCEPT !.at = to])
<1> DEFINE s == [r EXCEPT !.at = to]
<1>1. /\ s.at = to /\ s.attempt = r.attempt /\ s.reauth = r.reauth /\ s.sent = r.sent
  BY MovedRecord
<1>2. r.sent \in Nat /\ r.attempt \in Nat
  BY DEF CallRecord
<1> HIDE DEF s
<1>3. Paid(s)
  BY <1>1, <1>2 DEF Paid
<1> QED
  BY <1>3 DEF s

(* The one re-authentication pays for the request before it. *)
LEMMA ReauthenticationPays ==
    ASSUME NEW r \in CallRecord, Paid(r), ~r.reauth
    PROVE  LET s == [r EXCEPT !.reauth = TRUE]
           IN  /\ s \in CallRecord
               /\ s.who = r.who /\ s.at = r.at
               /\ \A to \in {"queued", "fetching"} : Paid([s EXCEPT !.at = to])
<1> DEFINE s == [r EXCEPT !.reauth = TRUE]
<1>1. /\ s \in CallRecord
      /\ s.who = r.who /\ s.at = r.at /\ s.attempt = r.attempt
      /\ s.reauth = TRUE /\ s.sent = r.sent
  BY DEF CallRecord
<1>2. r.sent \in Nat /\ r.attempt \in Nat
  BY DEF CallRecord
<1> HIDE DEF s
<1>3. ASSUME NEW to \in {"queued", "fetching"}
      PROVE  Paid([s EXCEPT !.at = to])
  <2> DEFINE t == [s EXCEPT !.at = to]
  <2>1. /\ t.at = to /\ t.attempt = r.attempt /\ t.reauth = TRUE /\ t.sent = r.sent
    BY <1>1, MovedRecord DEF Waiting
  <2> HIDE DEF t
  <2>2. r.attempt <= Budget /\ r.sent <= r.attempt + 1
    BY <1>2 DEF Paid
  <2>3. to \notin {"sending"} \cup Finished
    BY DEF Finished
  <2>4. Paid(t)
    BY <2>1, <2>2, <2>3, <1>2 DEF Paid
  <2> QED
    BY <2>4 DEF t
<1>4. /\ s \in CallRecord
      /\ s.who = r.who /\ s.at = r.at
      /\ \A to \in {"queued", "fetching"} : Paid([s EXCEPT !.at = to])
  BY <1>1, <1>3
<1> QED
  BY <1>4 DEF s

(* A retry is paid for from the budget. *)
LEMMA RetryPays ==
    ASSUME NEW r \in CallRecord, Paid(r), r.attempt < Budget
    PROVE  /\ Retried(r) \in CallRecord
           /\ Retried(r).at = "sleeping"
           /\ Paid(Retried(r))
<1> DEFINE s == Retried(r)
<1>1. ASSUME NEW x \in CallRecord
      PROVE  /\ [x EXCEPT !.at = "sleeping"] \in CallRecord
             /\ [x EXCEPT !.attempt = @ + 1] \in CallRecord
  BY DEF CallRecord, Waiting
<1>2. [[r EXCEPT !.at = "sleeping"] EXCEPT !.attempt = @ + 1] \in CallRecord
  <2> DEFINE t == [r EXCEPT !.at = "sleeping"]
             u == [t EXCEPT !.attempt = @ + 1]
  <2>1. t \in CallRecord
    BY <1>1
  <2> HIDE DEF t
  <2>2. u \in CallRecord
    BY <1>1, <2>1
  <2> QED
    BY <2>2 DEF t
<1>3. /\ s.at = "sleeping" /\ s.attempt = r.attempt + 1
      /\ s.reauth = r.reauth /\ s.sent = r.sent
  BY DEF CallRecord, Retried
<1>4. r.sent \in Nat /\ r.attempt \in Nat
  BY DEF CallRecord
<1>5. s \in CallRecord
  BY <1>2 DEF Retried
<1> HIDE DEF s
<1>6. "sleeping" \notin {"sending"} \cup Finished
  BY DEF Finished
<1>7. r.sent <= r.attempt + (IF r.reauth THEN 1 ELSE 0) + 1
  BY <1>4 DEF Paid
<1>8. Paid(s)
  BY <1>3, <1>4, <1>6, <1>7 DEF Paid
<1>9. s \in CallRecord /\ s.at = "sleeping" /\ Paid(s)
  BY <1>3, <1>5, <1>8
<1> QED
  BY <1>9 DEF s

-----------------------------------------------------------------------------
(* The actions. *)

(* A call that is not at a lock moves on, the lock and the cache stay. *)
LEMMA MoveKeeps ==
    ASSUME IInv, NEW c \in Call, StepOf(c),
           call[c].at \notin AtLock, call'[c].at \notin AtLock \cup {"sending"},
           Paid(call'[c]), UNCHANGED <<now, cacheVars>>
    PROVE  IInv'
<1>1. LockInv'
  BY LockUntouched DEF IInv, cacheVars
<1>2. CacheInv'
  <2>1. now \in Int /\ outrun \in [Key -> BOOLEAN] /\ CacheInv
    BY DEF IInv, CacheInv
  <2> QED
    BY <2>1, CacheUntouched DEF CacheInv, cacheVars
<1>3. CallInv'
  BY OneCallKeeps DEF IInv
<1> QED
  BY <1>1, <1>2, <1>3 DEF IInv

(* resolve() up to its first await. *)
LEMMA ResolveKeeps ==
    ASSUME IInv, NEW c \in Call, NEW r \in CallRecord,
           r.at \notin {"sending"} \cup Finished, Paid(r),
           call[c].at \notin AtLock,
           Resolve(c, r), UNCHANGED <<now, cache, outrun>>
    PROVE  IInv'
<1> DEFINE k == KeyOf(r.who)
<1>1. k \in Key /\ r.who = k /\ k \in Who
  BY DEF KeyOf, CallRecord, Who, Key
<1>2. CacheInv'
  <2>1. now \in Int /\ outrun \in [Key -> BOOLEAN] /\ CacheInv
    BY DEF IInv, CacheInv
  <2> QED
    BY <2>1, CacheUntouched DEF CacheInv
<1>3. CASE Fresh(cache[k])
  <2> DEFINE s == Sending(r, cache[k].of)
  <2>1. call' = [call EXCEPT ![c] = s] /\ UNCHANGED <<holder, queue>>
    BY <1>3 DEF Resolve
  <2>2. cache[k].of = k
    BY <1>1, <1>3, ServedIsOwn DEF IInv
  <2>3. s \in CallRecord /\ s.at = "sending" /\ s.with = s.who
    BY <1>1, <2>2, SendingRecord
  <2>4. Paid(s)
    BY <1>1, <2>2, PaidWhenSent
  <2> HIDE DEF s
  <2>5. StepOf(c) /\ call'[c] = s
    BY <2>1, <2>3 DEF IInv, LockInv, StepOf
  <2>6. LockInv'
    BY <2>1, <2>3, <2>5, LockUntouched DEF IInv, AtLock
  <2>7. CallInv'
    BY <2>3, <2>4, <2>5, OneCallKeeps DEF IInv
  <2> QED
    BY <1>2, <2>6, <2>7 DEF IInv
<1>4. CASE ~Fresh(cache[k])
  <2> DEFINE s == Blocked(r)
             to == IF Free(k) THEN "fetching" ELSE "queued"
  <2>1. call' = [call EXCEPT ![c] = s] /\ TakeOrQueue(c, k)
    BY <1>4 DEF Resolve
  <2>2. to \in {"queued", "fetching"} /\ s = [r EXCEPT !.at = to]
    BY DEF Blocked
  <2>3. s \in CallRecord /\ s.at = to /\ s.who = k
    BY <1>1, <2>2, MovedRecord DEF Waiting
  <2>4. Paid(s)
    <3>1. to \in {"new"} \cup Waiting \cup Finished
      BY DEF Waiting
    <3> QED
      BY <3>1, <2>2, PaidWhenMoved
  <2> HIDE DEF s
  <2>5. StepOf(c) /\ call'[c] = s
    BY <2>1, <2>3 DEF IInv, LockInv, StepOf
  <2>6. LockInv'
    BY <1>1, <2>1, <2>3, <2>5, LockTaken DEF IInv
  <2>7. CallInv'
    BY <2>2, <2>3, <2>4, <2>5, OneCallKeeps DEF IInv
  <2> QED
    BY <1>2, <2>6, <2>7 DEF IInv
<1> QED
  BY <1>3, <1>4

(* A coroutine that has not called yet owes nothing. *)
LEMMA UnusedIsPaid ==
    /\ Unused \in CallRecord /\ Unused.at = "new" /\ Paid(Unused)
    /\ \A who \in Who : LET r == [Unused EXCEPT !.who = who]
                       IN  r \in CallRecord /\ r.at = "new" /\ Paid(r)
<1> DEFINE w == CHOOSE who \in Who : TRUE
           UnusedBy(who) == [at |-> "new", who |-> who, with |-> NoCall, attempt |-> 0,
                             reauth |-> FALSE, sent |-> 0]
<1>1. w \in Who
  <2>1. PICK t \in Token, p \in Profile : TRUE
    OBVIOUS
  <2>2. <<t, p>> \in Who
    BY DEF Who
  <2> QED
    BY <2>2
<1>2. Unused = UnusedBy(w)
  BY DEF Unused
<1> HIDE DEF w
<1>3. Unused \in CallRecord /\ Unused.at = "new" /\ Paid(Unused)
  BY <1>1, <1>2 DEF CallRecord, Paid, Finished
<1>4. ASSUME NEW who \in Who
      PROVE  LET r == [Unused EXCEPT !.who = who]
             IN  r \in CallRecord /\ r.at = "new" /\ Paid(r)
  BY <1>3 DEF CallRecord, Paid
<1> QED
  BY <1>3, <1>4

(* A process begins with it. *)
LEMMA InitHolds == Init => IInv
<1> SUFFICES ASSUME Init PROVE IInv
  OBVIOUS
<1>1. Unused \in CallRecord /\ Unused.at = "new" /\ Paid(Unused)
  BY UnusedIsPaid
<1>2. /\ call \in [Call -> CallRecord]
      /\ \A c \in Call : call[c] = Unused
  BY <1>1 DEF Init
<1>3. /\ holder \in [Key -> Call \cup {NoCall}] /\ \A k \in Key : holder[k] = NoCall
      /\ queue \in [Key -> Seq(Call)] /\ \A k \in Key : queue[k] = <<>>
  <2>1. <<>> \in Seq(Call)
    BY EmptySeq
  <2> QED
    BY <2>1 DEF Init, CacheInit
<1>4. LockInv
  <2>1. \A k \in Key : Len(queue[k]) = 0
    BY <1>3, EmptySeq
  <2> QED
    BY <1>1, <1>2, <1>3, <2>1 DEF LockInv, HolderFetches, QueueWaits
<1>5. CacheInv
  BY DEF Init, CacheInit, CacheInv, EntriesKeepTheirWord
<1>6. CallInv
  BY <1>1, <1>2 DEF CallInv, OwnCredentialOnly, RequestsArePaid
<1> QED
  BY <1>4, <1>5, <1>6 DEF IInv

LEMMA BeginKeeps ==
    ASSUME IInv, NEW c \in Call, NEW who \in Who, Begin(c, who)
    PROVE  IInv'
<1> DEFINE r == [Unused EXCEPT !.who = who]
<1>1. r \in CallRecord /\ r.at = "new" /\ Paid(r)
  BY UnusedIsPaid
<1>2. call[c].at \notin AtLock
  BY DEF Begin, AtLock, Finished
<1>3. Resolve(c, r) /\ UNCHANGED <<now, cache, outrun>>
  BY DEF Begin
<1>4. r.at \notin {"sending"} \cup Finished
  BY <1>1 DEF Finished
<1> HIDE DEF r
<1> QED
  BY <1>1, <1>2, <1>3, <1>4, ResolveKeeps

LEMMA GrantedKeeps ==
    ASSUME IInv, NEW c \in Call, Granted(c)
    PROVE  IInv'
<1> DEFINE r == call[c]
           k == r.who
<1>1. r \in CallRecord /\ k \in Key /\ k \in Who /\ KeyOfCall(c) = k
  BY DEF IInv, LockInv, CallRecord, Who, Key, KeyOfCall, KeyOf
<1>2. /\ holder[k] = NoCall /\ queue[k] # <<>> /\ Head(queue[k]) = c /\ Leave(k)
      /\ UNCHANGED <<now, cache, outrun>>
  BY <1>1 DEF Granted
<1>3. r.at = "queued"
  <2>1. queue[k] \in Seq(Call) /\ queue[k][1] = c
    BY <1>1, <1>2 DEF IInv, LockInv
  <2>2. 1 \in 1..Len(queue[k])
    BY <2>1, <1>2, EmptySeq
  <2> QED
    BY <1>1, <2>1, <2>2 DEF IInv, LockInv, QueueWaits
<1>4. r.at \notin {"sending"} \cup Finished /\ Paid(r)
  BY <1>3 DEF Finished, IInv, CallInv, RequestsArePaid
<1>5. CacheInv'
  <2>1. now \in Int /\ outrun \in [Key -> BOOLEAN] /\ CacheInv
    BY DEF IInv, CacheInv
  <2> QED
    BY <2>1, <1>2, CacheUntouched DEF CacheInv
<1>6. CASE Fresh(cache[k])
  <2> DEFINE s == Sending(r, cache[k].of)
  <2>1. call' = [call EXCEPT ![c] = s] /\ holder' = holder
    BY <1>1, <1>6 DEF Granted
  <2>2. cache[k].of = k
    BY <1>1, <1>6, ServedIsOwn DEF IInv
  <2>3. s \in CallRecord /\ s.at = "sending" /\ s.with = s.who
    BY <1>1, <2>2, SendingRecord
  <2>4. Paid(s)
    BY <1>1, <1>4, <2>2, PaidWhenSent
  <2> HIDE DEF s
  <2>5. StepOf(c) /\ call'[c] = s
    BY <2>1, <2>3 DEF IInv, LockInv, StepOf
  <2>6. LockInv'
    <3>1. call'[c].at \notin AtLock
      BY <2>3, <2>5 DEF AtLock
    <3> QED
      BY <1>1, <1>2, <2>1, <2>5, <3>1, LockGranted DEF IInv
  <2>7. CallInv'
    BY <2>3, <2>4, <2>5, OneCallKeeps DEF IInv
  <2> QED
    BY <1>5, <2>6, <2>7 DEF IInv
<1>7. CASE ~Fresh(cache[k])
  <2> DEFINE s == [r EXCEPT !.at = "fetching"]
  <2>1. call' = [call EXCEPT ![c] = s] /\ holder' = [holder EXCEPT ![k] = c]
    BY <1>1, <1>7 DEF Granted
  <2>2. s \in CallRecord /\ s.at = "fetching" /\ s.who = r.who
    BY <1>1, MovedRecord DEF Waiting
  <2>3. Paid(s)
    BY <1>1, <1>4, PaidWhenMoved DEF Waiting
  <2> HIDE DEF s
  <2>4. StepOf(c) /\ call'[c] = s
    BY <2>1, <2>2 DEF IInv, LockInv, StepOf
  <2>5. LockInv'
    BY <1>1, <1>2, <2>1, <2>2, <2>4, LockGranted DEF IInv
  <2>6. CallInv'
    BY <2>2, <2>3, <2>4, OneCallKeeps DEF IInv
  <2> QED
    BY <1>5, <2>5, <2>6 DEF IInv
<1> QED
  BY <1>6, <1>7

(* What a fetching call leaves the lock to. *)
LEMMA FetchingTypes ==
    ASSUME IInv, NEW c \in Call
    PROVE  /\ call[c] \in CallRecord
           /\ call[c].who \in Key /\ call[c].who \in Who
           /\ KeyOfCall(c) = call[c].who
           /\ Paid(call[c])
  BY DEF IInv, LockInv, CallRecord, Who, Key, KeyOfCall, KeyOf, CallInv, RequestsArePaid

LEMMA FetchSucceedsKeeps ==
    ASSUME IInv, NEW c \in Call, NEW life \in Lifetime, FetchSucceeds(c, life)
    PROVE  IInv'
<1> DEFINE r == call[c]
           k == r.who
           expiry == IF life = Unknown THEN Unknown ELSE now + life
           s == Sending(r, r.who)
<1>1. r \in CallRecord /\ k \in Key /\ k \in Who /\ KeyOfCall(c) = k /\ Paid(r)
  BY FetchingTypes
<1>2. /\ r.at = "fetching"
      /\ cache' = [cache EXCEPT ![k] = Filed(k, k, expiry)]
      /\ Release(k)
      /\ call' = [call EXCEPT ![c] = s]
      /\ UNCHANGED <<now, queue>>
  BY <1>1 DEF FetchSucceeds
<1>3. expiry \in Int \cup {Unknown}
  BY DEF IInv, CacheInv
<1>4. s \in CallRecord /\ s.at = "sending" /\ s.with = s.who
  BY <1>1, SendingRecord
<1>5. Paid(s)
  BY <1>1, <1>2, PaidWhenSent DEF Finished
<1> HIDE DEF s, expiry
<1>6. StepOf(c) /\ call'[c] = s
  BY <1>2, <1>4 DEF IInv, LockInv, StepOf
<1>7. LockInv'
  <2>1. call'[c].at \notin AtLock
    BY <1>4, <1>6 DEF AtLock
  <2>2. holder' = [holder EXCEPT ![call[c].who] = NoCall]
    BY <1>2 DEF Release
  <2> QED
    BY <1>2, <1>6, <2>1, <2>2, LockReleased DEF IInv
<1>8. CacheInv'
  <2>1. outrun' \in [Key -> BOOLEAN]
    BY <1>2 DEF Release, IInv, CacheInv
  <2> QED
    BY <1>1, <1>2, <1>3, <2>1, FiledKeeps DEF IInv
<1>9. CallInv'
  BY <1>4, <1>5, <1>6, OneCallKeeps DEF IInv
<1> QED
  BY <1>7, <1>8, <1>9 DEF IInv

(* A fetch that ends with no credential, by an error or by a cancel. *)
LEMMA FetchEndsKeeps ==
    ASSUME IInv, NEW c \in Call, NEW to \in {"raised", "cancelled"},
           call[c].at = "fetching",
           Release(call[c].who),
           call' = [call EXCEPT ![c].at = to],
           UNCHANGED <<now, cache, queue>>
    PROVE  IInv'
<1> DEFINE r == call[c]
           s == [r EXCEPT !.at = to]
<1>1. r \in CallRecord /\ Paid(r)
  BY FetchingTypes
<1>2. call' = [call EXCEPT ![c] = s]
  OBVIOUS
<1>3. to \in {"new"} \cup Waiting \cup Finished /\ to \in Finished /\ to \notin AtLock \cup {"sending"}
  BY DEF Finished, AtLock
<1>4. s \in CallRecord /\ s.at = to
  BY <1>1, <1>3, MovedRecord
<1>5. Paid(s)
  BY <1>1, <1>3, PaidWhenMoved
<1> HIDE DEF s
<1>6. StepOf(c) /\ call'[c] = s
  BY <1>2, <1>4 DEF IInv, LockInv, StepOf
<1>7. LockInv'
  <2>1. holder' = [holder EXCEPT ![call[c].who] = NoCall]
    BY DEF Release
  <2> QED
    BY <1>3, <1>4, <1>6, <2>1, LockReleased DEF IInv
<1>8. CacheInv'
  <2>1. outrun' \in [Key -> BOOLEAN]
    BY DEF Release, IInv, CacheInv
  <2>2. now \in 0..MaxTime /\ CacheInv
    BY DEF IInv, CacheInv
  <2>3. now \in Int
    BY <2>2
  <2> QED
    BY <2>1, <2>2, <2>3, CacheUntouched
<1>9. CallInv'
  BY <1>3, <1>4, <1>5, <1>6, OneCallKeeps DEF IInv
<1> QED
  BY <1>7, <1>8, <1>9 DEF IInv

LEMMA FetchFailsKeeps ==
    ASSUME IInv, NEW c \in Call, FetchFails(c)
    PROVE  IInv'
  BY FetchingTypes, FetchEndsKeeps DEF FetchFails

(* A request or a sleep that ends with the call. *)
LEMMA CallEndsKeeps ==
    ASSUME IInv, NEW c \in Call, NEW to \in Finished,
           call[c].at \in {"sending", "sleeping"},
           call' = [call EXCEPT ![c].at = to],
           UNCHANGED <<now, cacheVars>>
    PROVE  IInv'
<1> DEFINE r == call[c]
           s == [r EXCEPT !.at = to]
<1>1. r \in CallRecord /\ Paid(r)
  BY FetchingTypes
<1>2. call' = [call EXCEPT ![c] = s]
  OBVIOUS
<1>3. s \in CallRecord /\ s.at = to
  BY <1>1, MovedRecord
<1>4. Paid(s)
  BY <1>1, PaidWhenMoved
<1> HIDE DEF s
<1>5. StepOf(c) /\ call'[c] = s
  BY <1>2, <1>3 DEF IInv, LockInv, StepOf
<1>6. call[c].at \notin AtLock /\ to \notin AtLock \cup {"sending"}
  BY DEF Finished, AtLock
<1> QED
  BY <1>3, <1>4, <1>5, <1>6, MoveKeeps

LEMMA AcceptedKeeps ==
    ASSUME IInv, NEW c \in Call, Accepted(c)
    PROVE  IInv'
  BY CallEndsKeeps DEF Accepted, Finished

LEMMA RefusedKeeps ==
    ASSUME IInv, NEW c \in Call, Refused(c)
    PROVE  IInv'
  BY CallEndsKeeps DEF Refused, Finished

LEMMA TransientKeeps ==
    ASSUME IInv, NEW c \in Call, Transient(c)
    PROVE  IInv'
<1>1. call[c] \in CallRecord /\ Paid(call[c]) /\ call[c].attempt \in Nat
  BY FetchingTypes DEF CallRecord
<1>2. call[c].at = "sending" /\ UNCHANGED <<now, cacheVars>>
  BY DEF Transient
<1>3. CASE call[c].attempt >= Budget
  <2>1. call' = [call EXCEPT ![c].at = "raised"]
    BY <1>3 DEF Transient
  <2> QED
    BY <1>2, <2>1, CallEndsKeeps DEF Finished
<1>4. CASE ~ call[c].attempt >= Budget
  <2> DEFINE s == Retried(call[c])
  <2>1. call' = [call EXCEPT ![c] = s]
    BY <1>4 DEF Transient
  <2>2. call[c].attempt < Budget
    BY <1>1, <1>4
  <2>3. s \in CallRecord /\ s.at = "sleeping" /\ Paid(s)
    BY <1>1, <2>2, RetryPays
  <2> HIDE DEF s
  <2>4. StepOf(c) /\ call'[c] = s
    BY <2>1, <2>3 DEF IInv, LockInv, StepOf
  <2>5. call[c].at \notin AtLock /\ call'[c].at \notin AtLock \cup {"sending"}
    BY <1>2, <2>3, <2>4 DEF AtLock
  <2> QED
    BY <1>2, <2>3, <2>4, <2>5, MoveKeeps
<1> QED
  BY <1>3, <1>4

LEMMA FirstUnauthorizedKeeps ==
    ASSUME IInv, NEW c \in Call, FirstUnauthorized(c)
    PROVE  IInv'
<1> DEFINE r == [call[c] EXCEPT !.reauth = TRUE]
           k == KeyOf(r.who)
           to == IF Free(k) THEN "fetching" ELSE "queued"
           s == Blocked(r)
<1>1. /\ call[c] \in CallRecord /\ call[c].who \in Key /\ Paid(call[c])
      /\ call[c].at = "sending" /\ ~call[c].reauth
  BY FetchingTypes DEF FirstUnauthorized
<1>2. /\ Invalidate(k) /\ TakeOrQueue(c, k) /\ UNCHANGED now
      /\ call' = [call EXCEPT ![c] = s]
  BY DEF FirstUnauthorized
<1>3. /\ r \in CallRecord /\ r.who = call[c].who
      /\ \A x \in {"queued", "fetching"} : Paid([r EXCEPT !.at = x])
  BY <1>1, ReauthenticationPays
<1>4. k = call[c].who /\ k \in Key
  BY <1>1, <1>3 DEF KeyOf
<1>5. to \in {"queued", "fetching"} /\ s = [r EXCEPT !.at = to]
  BY DEF Blocked
<1> HIDE DEF r
<1>6. Paid(s)
  BY <1>3, <1>5
<1>7. s \in CallRecord /\ s.at = to /\ s.who = k
  BY <1>3, <1>4, <1>5, MovedRecord DEF Waiting
<1> HIDE DEF s, k
<1>8. StepOf(c) /\ call'[c] = s
  BY <1>2, <1>7 DEF IInv, LockInv, StepOf
<1>9. LockInv'
  BY <1>1, <1>2, <1>4, <1>7, <1>8, LockTaken DEF IInv, AtLock
<1>10. CacheInv'
  BY <1>2, <1>4, InvalidateKeeps DEF IInv
<1>11. CallInv'
  BY <1>5, <1>6, <1>7, <1>8, OneCallKeeps DEF IInv
<1> QED
  BY <1>9, <1>10, <1>11 DEF IInv

LEMMA WakeUpKeeps ==
    ASSUME IInv, NEW c \in Call, WakeUp(c)
    PROVE  IInv'
<1>1. call[c] \in CallRecord /\ Paid(call[c])
  BY FetchingTypes
<1>2. call[c].at \notin {"sending"} \cup Finished /\ call[c].at \notin AtLock
  BY DEF WakeUp, Finished, AtLock
<1> QED
  BY <1>1, <1>2, ResolveKeeps DEF WakeUp

LEMMA CancelKeeps ==
    ASSUME IInv, NEW c \in Call, Cancel(c)
    PROVE  IInv'
<1>1. /\ call[c] \in CallRecord /\ Paid(call[c])
      /\ call[c].who \in Key /\ KeyOfCall(c) = call[c].who
  BY FetchingTypes
<1>2. /\ call[c].at \in Waiting
      /\ call' = [call EXCEPT ![c].at = "cancelled"]
      /\ UNCHANGED <<now, cache>>
  BY DEF Cancel
<1>3. CASE call[c].at = "fetching"
  <2>1. UNCHANGED queue /\ Release(call[c].who)
    BY <1>1, <1>3 DEF Cancel
  <2> QED
    BY <1>2, <1>3, <2>1, FetchEndsKeeps
<1>4. CASE call[c].at = "queued"
  <2> DEFINE s == [call[c] EXCEPT !.at = "cancelled"]
  <2>1. Withdraw(c, call[c].who) /\ UNCHANGED <<holder, outrun>>
    BY <1>1, <1>4 DEF Cancel
  <2>2. call' = [call EXCEPT ![c] = s]
    BY <1>2
  <2>3. s \in CallRecord /\ s.at = "cancelled"
    BY <1>1, MovedRecord DEF Finished
  <2>4. Paid(s)
    BY <1>1, PaidWhenMoved DEF Finished
  <2> HIDE DEF s
  <2>5. StepOf(c) /\ call'[c] = s
    BY <2>2, <2>3 DEF IInv, LockInv, StepOf
  <2>6. LockInv'
    <3>1. call'[c].at \notin AtLock
      BY <2>3, <2>5 DEF AtLock
    <3> QED
      BY <1>4, <2>1, <2>5, <3>1, WaiterLeaves DEF IInv
  <2>7. CacheInv'
    <3>1. now \in Int /\ outrun \in [Key -> BOOLEAN] /\ CacheInv
      BY DEF IInv, CacheInv
    <3> QED
      BY <3>1, <1>2, <2>1, CacheUntouched DEF CacheInv
  <2>8. CallInv'
    BY <2>3, <2>4, <2>5, OneCallKeeps DEF IInv
  <2> QED
    BY <2>6, <2>7, <2>8 DEF IInv
<1>5. CASE call[c].at \in {"sending", "sleeping"}
  <2>1. UNCHANGED <<now, cacheVars>>
    BY <1>2, <1>5 DEF Cancel, cacheVars
  <2> QED
    BY <1>2, <1>5, <2>1, CallEndsKeeps DEF Finished
<1> QED
  BY <1>2, <1>3, <1>4, <1>5 DEF Waiting

(* Time passes, or nothing happens at all. *)
LEMMA NobodyMoves ==
    ASSUME IInv, now' \in 0..MaxTime, now <= now', UNCHANGED <<cacheVars, call>>
    PROVE  IInv'
<1>1. LockInv'
  BY DEF IInv, LockInv, HolderFetches, QueueWaits, cacheVars
<1>2. CacheInv'
  BY CacheUntouched DEF IInv, CacheInv, cacheVars
<1>3. CallInv'
  BY DEF IInv, CallInv, OwnCredentialOnly, RequestsArePaid
<1> QED
  BY <1>1, <1>2, <1>3 DEF IInv

(* Every step keeps the invariant. *)
LEMMA NextKeeps == IInv /\ [Next]_vars => IInv'
<1> SUFFICES ASSUME IInv, [Next]_vars PROVE IInv'
  OBVIOUS
<1>1. now \in 0..MaxTime
  BY DEF IInv, CacheInv
<1>2. CASE Tick
  BY <1>1, <1>2, NobodyMoves DEF Tick
<1>3. CASE UNCHANGED vars
  BY <1>1, <1>3, NobodyMoves DEF vars, cacheVars
<1> QED
  BY <1>2, <1>3, BeginKeeps, GrantedKeeps, FetchSucceedsKeeps, FetchFailsKeeps, AcceptedKeeps,
     FirstUnauthorizedKeeps, RefusedKeeps, TransientKeeps, WakeUpKeeps, CancelKeeps DEF Next

-----------------------------------------------------------------------------

(* So it always holds. *)
LEMMA Invariance == Spec => []IInv
  BY InitHolds, NextKeeps, PTL DEF Spec

(* Every variable of the cache and of the calls keeps its type             *)
(* (spotify/client.py, credentials/keyring.py).                            *)
THEOREM TypeCorrect == Spec => []TypeOK
<1> QED
  BY IInvHasTypes, Invariance, PTL

(* The lock of a key in resolve follows the calls: its holder is the one   *)
(* that fetches, its queue are those that wait, once each, however any     *)
(* number of them succeed, fail or are cancelled.                          *)
THEOREM LocksFollowCalls == Spec => []LockFollowsCalls
<1>1. IInv => LockFollowsCalls
  <2> SUFFICES ASSUME IInv PROVE LockFollowsCalls
    OBVIOUS
  <2>1. \A c \in Call, k \in Key : holder[k] = c <=> call[c].at = "fetching" /\ KeyOfCall(c) = k
    BY DEF IInv, LockInv, HolderFetches, KeyOfCall, KeyOf
  <2>2. ASSUME NEW c \in Call, NEW k \in Key
        PROVE  Cardinality({i \in 1..Len(queue[k]) : queue[k][i] = c})
                  = IF call[c].at = "queued" /\ KeyOfCall(c) = k THEN 1 ELSE 0
    <3> DEFINE places == {i \in 1..Len(queue[k]) : queue[k][i] = c}
    <3>1. (\E i \in 1..Len(queue[k]) : queue[k][i] = c)
             <=> call[c].at = "queued" /\ KeyOfCall(c) = k
      BY DEF IInv, LockInv, QueueWaits, KeyOfCall, KeyOf
    <3>2. CASE \E i \in 1..Len(queue[k]) : queue[k][i] = c
      <4>1. PICK i \in 1..Len(queue[k]) : queue[k][i] = c
        BY <3>2
      <4>2. places = {i}
        BY <4>1 DEF IInv, LockInv, QueueWaits
      <4>3. Cardinality({i}) = 1
        BY FS_Singleton
      <4> QED
        BY <3>1, <3>2, <4>2, <4>3
    <3>3. CASE ~ \E i \in 1..Len(queue[k]) : queue[k][i] = c
      <4>1. places = {}
        BY <3>3
      <4>2. Cardinality({}) = 0
        BY FS_EmptySet
      <4> QED
        BY <3>1, <3>3, <4>1, <4>2
    <3> QED
      BY <3>2, <3>3
  <2> QED
    BY <2>1, <2>2 DEF LockFollowsCalls
<1> QED
  BY <1>1, Invariance, PTL

(* Whoever fetched it and wherever the call waited, request() sends the    *)
(* credential of the user and profile it was called for.                   *)
THEOREM CredentialsAreOwn == Spec => []OwnCredentialOnly
<1>1. IInv => OwnCredentialOnly
  BY DEF IInv, CallInv
<1> QED
  BY <1>1, Invariance, PTL

(* _ttl_for and _fresh together hand out nothing that ends within the      *)
(* skew, whatever lifetimes keyring answers with, past ones included.      *)
THEOREM FreshIsGood == Spec => []FreshMeansGood
<1>1. IInv => FreshMeansGood
  <2> SUFFICES ASSUME IInv, NEW k \in Key, Fresh(cache[k]), cache[k].expiry # Unknown
               PROVE  now + Skew < cache[k].expiry
    BY DEF FreshMeansGood
  <2>1. cache[k] \in Entry /\ now < cache[k].until
    BY DEF IInv, CacheInv, Fresh
  <2>2. cache[k].until \in Nat /\ cache[k].expiry \in Int /\ now \in Int
    BY <2>1 DEF Entry, IInv, CacheInv
  <2>3. cache[k].until <= now \/ cache[k].until + Skew <= cache[k].expiry
    BY DEF Fresh, IInv, CacheInv, EntriesKeepTheirWord
  <2> QED
    BY <2>1, <2>2, <2>3
<1> QED
  BY <1>1, Invariance, PTL

(* The loop of request() sends one request, its retries and one more with  *)
(* a new credential, for any budget.                                       *)
THEOREM RequestsBounded == Spec => []RequestsAreBounded
<1>1. IInv => RequestsAreBounded
  <2> SUFFICES ASSUME IInv, NEW c \in Call
               PROVE  call[c].sent <= Budget + 2
    BY DEF RequestsAreBounded
  <2>1. call[c].sent \in Nat /\ call[c].attempt \in Nat /\ Paid(call[c])
    BY DEF IInv, LockInv, CallRecord, CallInv, RequestsArePaid
  <2>2. call[c].attempt <= Budget /\ call[c].sent <= call[c].attempt + 1 + 1
    BY <2>1 DEF Paid
  <2> QED
    BY <2>1, <2>2
<1> QED
  BY <1>1, Invariance, PTL
===============================================================================
