------------------------ MODULE PlaybackCommandProofs ------------------------
(***************************************************************************)
(* Proofs about PlaybackCommand, for every set of tracks, dials and        *)
(* people, every budget of retries, every timeout and interval.            *)
(***************************************************************************)
EXTENDS PlaybackCommand, SequenceTheorems, TLAPS

USE PlaybackCommandAssumption

(* What a command is made of never changes once it has begun.              *)
AskedIsReal ==
    /\ at # "idle" => request \in Request /\ person \in People
    /\ wanted = Wanted(request, person)

(* The modes that a command has to send after it. *)
Due == IF request.kind = "play" THEN ModesOf(wanted) ELSE <<>>

BeforeSending == {"idle", "checking", "reading", "issuing", "refused"}
AfterSending  == {"polling", "resting", "dialing", "confirmed", "timeout", "nodevice"}

(* What was sent and what is still to be sent together are what is due.    *)
SentThenDue ==
    /\ at \in BeforeSending => sent = <<>>
    /\ at \in AfterSending => sent # <<>>
    /\ IF sent = <<>> THEN todo = Due ELSE sent \o todo = <<"command">> \o Due
    /\ request.kind # "play" => todo = <<>>
    /\ at = "dialing" => todo # <<>> /\ request.kind = "play"

(* Nothing is sent before the tracks were looked at.                       *)
Cleared ==
    at \in {"reading", "issuing"} \/ sent # <<>> =>
        person.explicit = "allowed" \/ ~Flagged(request.uris)

(* How often the command was carried out, against how often it was tried.  *)
CountedTries ==
    /\ at \in {"idle", "checking", "reading", "refused"} => tries = 0 /\ took = 0
    /\ at = "issuing" => took <= tries
    /\ at \in AfterSending => took > 0
    /\ took <= IF Repeats(request) THEN Budget + 1 ELSE 1

(* What an earlier confirmation of a play had seen before its modes went.  *)
SeenBeforeTheModes ==
    /\ request.kind = "play" /\ Started(request, shown)
    /\ \E m \in Mode : WasSent(m)

(* A confirmation goes on only while it has seen no state with the effect, *)
(* and remembers the last one that it was shown, if it was shown any.      *)
SeenSoFar ==
    /\ sent = <<>> => shown = Nowhere /\ ~fresh
    /\ fresh <=> observed # Nowhere
    /\ fresh => observed = shown
    /\ ~fresh /\ shown # Nowhere => SeenBeforeTheModes
    /\ at \in {"polling", "resting", "timeout"} /\ observed # Nowhere => ~Goal(observed)
    /\ at \in {"timeout", "nodevice"} => left = 0
    /\ at = "timeout" => observed # Nowhere
    /\ at = "nodevice" => observed = Nowhere
    /\ at = "dialing" => observed # Nowhere /\ Started(request, observed)
    /\ at = "confirmed" => observed # Nowhere /\ Goal(observed) /\ todo = <<>>

(* Whatever was sent went to the device that the request named, if it did. *)
OneTarget == addressed \subseteq {request.device} /\ (sent = <<>> => addressed = {})

(* The inductive invariant. *)
IInv ==
    /\ TypeOK
    /\ AskedIsReal
    /\ SentThenDue
    /\ Cleared
    /\ CountedTries
    /\ SeenSoFar
    /\ OneTarget
-----------------------------------------------------------------------------
(* Requests. *)

(* What every request has, and what the simple ones leave alone. *)
LEMMA RequestShape ==
    ASSUME NEW r \in Request
    PROVE  /\ r.kind \in {"play", "pause", "skip", "set", "transfer", "queue"}
           /\ r.device \in Target
           /\ r.dial \in [Dial -> Value \cup {Unset}]
           /\ r.kind \in {"pause", "skip", "transfer", "queue"} => r.dial = NoDial
<1>1. CASE r \in PlayRequest
  BY <1>1 DEF PlayRequest
<1>2. CASE r \in PauseRequest \/ r \in SkipRequest \/ r \in TransferRequest
  BY <1>2 DEF PauseRequest, SkipRequest, TransferRequest, Plainly, NoDial
<1>3. CASE r \in SetRequest
  <2>1. PICK q \in Plainly("set"), d \in Dial, v \in Value : r = [q EXCEPT !.dial[d] = v]
    BY <1>3 DEF SetRequest
  <2>2. q.kind = "set" /\ q.dial = NoDial /\ q.device \in Target
    BY DEF Plainly
  <2>3. r.kind = "set" /\ r.dial = [NoDial EXCEPT ![d] = v] /\ r.device \in Target
    BY <2>1, <2>2 DEF Plainly
  <2> QED
    BY <2>3 DEF NoDial
<1>4. CASE r \in QueueRequest
  <2>1. PICK q \in Plainly("queue"), t \in Track : r = [q EXCEPT !.uris = <<t>>]
    BY <1>4 DEF QueueRequest
  <2> QED
    BY <2>1 DEF Plainly, NoDial
<1> QED
  BY <1>1, <1>2, <1>3, <1>4 DEF Request

(* The dials a command will set are dials, and a wish of the person counts *)
(* only for a play that starts something.                                  *)
LEMMA WantedIsDials ==
    ASSUME NEW r \in Request, NEW p \in Person
    PROVE  /\ Wanted(r, p) \in [Dial -> Value \cup {Unset}]
           /\ r.kind \in {"pause", "skip", "transfer", "queue"} => \A d \in Dial : Wanted(r, p)[d] = Unset
           /\ \A m \in Mode : Wanted(r, p)[m] # Unset /\ r.dial[m] = Unset =>
                 Wanted(r, p)[m] = On /\ StartsSomething(r)
<1>1. /\ r.dial \in [Dial -> Value \cup {Unset}]
      /\ r.kind \in {"pause", "skip", "transfer", "queue"} => r.dial = NoDial
  BY RequestShape
<1>2. \A m \in Mode : p.dial[m] \in {On, Unset}
  BY DEF Person
<1> QED
  BY <1>1, <1>2 DEF Wanted, NoDial

-----------------------------------------------------------------------------
(* Sequences. *)

(* set_modes sends what is wanted, each once. *)
LEMMA ModesOfSendsTheWanted ==
    ASSUME NEW dials
    PROVE  LET due == ModesOf(dials)
           IN  /\ due \in Seq(Mode)
               /\ \A m \in Mode : (\E i \in 1..Len(due) : due[i] = m) <=> dials[m] # Unset
               /\ \A i, k \in 1..Len(due) : due[i] = due[k] => i = k
<1> DEFINE due == ModesOf(dials)
           a == IF dials["shuffle"] # Unset THEN <<"shuffle">> ELSE <<>>
           b == IF dials["repeat"] # Unset THEN <<"repeat">> ELSE <<>>
<1>1. due = a \o b
  BY DEF ModesOf
<1>2. /\ a \in Seq(Mode) /\ b \in Seq(Mode)
      /\ dials["shuffle"] # Unset => Len(a) = 1 /\ a[1] = "shuffle"
      /\ dials["shuffle"] = Unset => Len(a) = 0
      /\ dials["repeat"] # Unset => Len(b) = 1 /\ b[1] = "repeat"
      /\ dials["repeat"] = Unset => Len(b) = 0
  <2>1. <<"shuffle">> \in Seq(Mode) /\ <<"repeat">> \in Seq(Mode) /\ <<>> \in Seq(Mode)
    BY DEF Mode
  <2> QED
    BY <2>1
<1> HIDE DEF a, b, due
<1>3. /\ due \in Seq(Mode)
      /\ Len(due) = Len(a) + Len(b)
      /\ \A i \in 1..(Len(a) + Len(b)) : due[i] = IF i <= Len(a) THEN a[i] ELSE b[i - Len(a)]
  BY <1>1, <1>2, ConcatProperties
<1>4. /\ \A m \in Mode : (\E i \in 1..Len(due) : due[i] = m) <=> dials[m] # Unset
      /\ \A i, k \in 1..Len(due) : due[i] = due[k] => i = k
  <2>1. CASE dials["shuffle"] # Unset /\ dials["repeat"] # Unset
    <3>1. Len(a) = 1 /\ Len(b) = 1 /\ a[1] = "shuffle" /\ b[1] = "repeat"
      BY <2>1, <1>2
    <3>2. due[1] = a[1] /\ due[2] = b[2 - 1]
      BY <3>1, <1>3
    <3>3. Len(due) = 2 /\ due[1] = "shuffle" /\ due[2] = "repeat"
      BY <3>1, <3>2, <1>3
    <3> QED
      BY <3>3, <2>1 DEF Mode
  <2>2. CASE dials["shuffle"] # Unset /\ dials["repeat"] = Unset
    <3>1. Len(due) = 1 /\ due[1] = "shuffle"
      BY <2>2, <1>2, <1>3
    <3> QED
      BY <3>1, <2>2 DEF Mode
  <2>3. CASE dials["shuffle"] = Unset /\ dials["repeat"] # Unset
    <3>1. Len(due) = 1 /\ due[1] = "repeat"
      BY <2>3, <1>2, <1>3
    <3> QED
      BY <3>1, <2>3 DEF Mode
  <2>4. CASE dials["shuffle"] = Unset /\ dials["repeat"] = Unset
    <3>1. Len(due) = 0
      BY <2>4, <1>2, <1>3
    <3> QED
      BY <3>1, <2>4 DEF Mode
  <2> QED
    BY <2>1, <2>2, <2>3, <2>4
<1>5. /\ due \in Seq(Mode)
      /\ \A m \in Mode : (\E i \in 1..Len(due) : due[i] = m) <=> dials[m] # Unset
      /\ \A i, k \in 1..Len(due) : due[i] = due[k] => i = k
  BY <1>3, <1>4
<1> QED
  BY <1>5 DEF due

(* What is due, at any time. *)
LEMMA DueIsSent ==
    /\ Due \in Seq(Mode)
    /\ \A m \in Mode : (\E i \in 1..Len(Due) : Due[i] = m)
                          <=> request.kind = "play" /\ wanted[m] # Unset
    /\ \A i, k \in 1..Len(Due) : Due[i] = Due[k] => i = k
<1>1. CASE request.kind = "play"
  <2>1. Due = ModesOf(wanted)
    BY <1>1 DEF Due
  <2> QED
    BY <1>1, <2>1, ModesOfSendsTheWanted
<1>2. CASE request.kind # "play"
  <2>1. Due = <<>>
    BY <1>2 DEF Due
  <2>2. <<>> \in Seq(Mode) /\ Len(<<>>) = 0
    BY EmptySeq
  <2> QED
    BY <1>2, <2>1, <2>2
<1> QED
  BY <1>1, <1>2

(* The first of what is still to be sent becomes the last that was sent.   *)
LEMMA MoveOne ==
    ASSUME NEW S, NEW s \in Seq(S), NEW t \in Seq(S), t # <<>>
    PROVE  /\ Append(s, Head(t)) \in Seq(S)
           /\ Append(s, Head(t)) # <<>>
           /\ Append(s, Head(t)) \o Tail(t) = s \o t
<1>1. /\ Head(t) \in S /\ Tail(t) \in Seq(S)
      /\ Len(t) \in Nat \ {0} /\ Len(s) \in Nat
      /\ Len(Tail(t)) = Len(t) - 1
      /\ \A i \in 1..Len(Tail(t)) : Tail(t)[i] = t[i + 1]
      /\ Head(t) = t[1]
  BY HeadTailProperties, EmptySeq, LenProperties
<1> DEFINE a == Append(s, Head(t))
           b == Tail(t)
<1>2. /\ a \in Seq(S) /\ a # <<>> /\ Len(a) = Len(s) + 1
      /\ \A i \in 1..Len(s) : a[i] = s[i]
      /\ a[Len(s) + 1] = t[1]
  BY <1>1, AppendProperties
<1>3. b \in Seq(S) /\ Len(b) = Len(t) - 1 /\ \A i \in 1..(Len(t) - 1) : b[i] = t[i + 1]
  BY <1>1
<1> HIDE DEF a, b
<1>4. /\ a \o b \in Seq(S) /\ Len(a \o b) = Len(a) + Len(b)
      /\ \A i \in 1..(Len(a) + Len(b)) : (a \o b)[i] = IF i <= Len(a) THEN a[i] ELSE b[i - Len(a)]
  <2>1. a \in Seq(S) /\ b \in Seq(S)
    BY <1>2, <1>3
  <2> QED
    BY <2>1, ConcatProperties
<1>5. /\ s \o t \in Seq(S) /\ Len(s \o t) = Len(s) + Len(t)
      /\ \A i \in 1..(Len(s) + Len(t)) : (s \o t)[i] = IF i <= Len(s) THEN s[i] ELSE t[i - Len(s)]
  BY ConcatProperties
<1>6. Len(a \o b) = Len(s \o t)
  BY <1>1, <1>2, <1>3, <1>4, <1>5
<1>7. ASSUME NEW i \in 1..Len(a \o b)
      PROVE  (a \o b)[i] = (s \o t)[i]
  <2>1. i \in Nat /\ i \in 1..(Len(a) + Len(b)) /\ i \in 1..(Len(s) + Len(t))
    BY <1>1, <1>2, <1>3, <1>4, <1>5
  <2>2. CASE i <= Len(s)
    <3>1. i <= Len(a) /\ i \in 1..Len(s)
      BY <2>1, <2>2, <1>1, <1>2
    <3> QED
      BY <2>1, <2>2, <3>1, <1>2, <1>4, <1>5
  <2>3. CASE i = Len(s) + 1
    <3>1. i <= Len(a) /\ ~ i <= Len(s) /\ i - Len(s) = 1
      BY <2>3, <1>1, <1>2
    <3> QED
      BY <2>1, <2>3, <3>1, <1>2, <1>4, <1>5
  <2>4. CASE i > Len(s) + 1
    <3>1. /\ ~ i <= Len(a) /\ ~ i <= Len(s)
          /\ i - Len(a) \in 1..(Len(t) - 1) /\ (i - Len(a)) + 1 = i - Len(s)
      BY <2>1, <2>4, <1>1, <1>2
    <3> QED
      BY <2>1, <3>1, <1>3, <1>4, <1>5
  <2> QED
    BY <2>1, <2>2, <2>3, <2>4, <1>1
<1>8. a \o b = s \o t
  BY <1>4, <1>5, <1>6, <1>7, SeqEqual
<1> QED
  BY <1>2, <1>8 DEF a, b

-----------------------------------------------------------------------------
(* The actions. *)

LEMMA InitHolds == Init => IInv
<1> SUFFICES ASSUME Init PROVE IInv
  OBVIOUS
<1>1. wanted = [d \in Dial |-> Unset] /\ wanted = Wanted(request, person)
  BY DEF Init, NoDial, Idle, Wanted
<1>2. TypeOK
  <2>1. <<>> \in Seq(Mode) /\ <<>> \in Seq({"command"} \cup Mode)
    BY EmptySeq
  <2>2. fresh \in BOOLEAN
    BY DEF Init
  <2> QED
    BY <1>1, <2>1, <2>2 DEF Init, TypeOK
<1>3. SentThenDue
  BY DEF Init, SentThenDue, BeforeSending, AfterSending, Due, Idle
<1>4. AskedIsReal /\ Cleared /\ SeenSoFar
  BY <1>1 DEF Init, AskedIsReal, Cleared, SeenSoFar
<1>5. CountedTries
  BY DEF Init, CountedTries, AfterSending, Repeats, Idle
<1>6. OneTarget
  BY DEF Init, OneTarget
<1> QED
  BY <1>2, <1>3, <1>4, <1>5, <1>6 DEF IInv

(* A person asks, and the preferences decide what becomes of it first. *)
LEMMA BeginKeeps ==
    ASSUME IInv, NEW r \in Request, NEW p \in People, Begin(r, p)
    PROVE  IInv'
<1>1. /\ at = "idle" /\ request' = r /\ person' = p /\ wanted' = Wanted(r, p)
      /\ todo' = Due'
      /\ UNCHANGED <<previous, left, nap, observed, shown, fresh, sent, addressed, tries, took>>
  BY DEF Begin, waiting, issued, Due
<1>2. /\ at' \in {"reading", "issuing", "refused", "checking"}
      /\ at' \in {"reading", "issuing"} => p.explicit = "allowed" \/ ~NamesTracks(r)
  BY DEF Begin, Outset
<1>3. sent = <<>> /\ tries = 0 /\ took = 0
  BY <1>1 DEF IInv, SentThenDue, CountedTries, BeforeSending
<1>4. TypeOK'
  <2>1. p \in Person
    OBVIOUS
  <2>2. wanted' \in [Dial -> Value \cup {Unset}]
    BY <1>1, <2>1, WantedIsDials
  <2>3. todo' \in Seq(Mode)
    <3>1. CASE r.kind = "play"
      BY <3>1, <1>1, ModesOfSendsTheWanted DEF Due
    <3>2. CASE r.kind # "play"
      BY <3>2, <1>1, EmptySeq DEF Due
    <3> QED
      BY <3>1, <3>2
  <2> QED
    BY <1>1, <1>2, <2>2, <2>3 DEF IInv, TypeOK, Waiting, Ended
<1>5. AskedIsReal'
  BY <1>1 DEF AskedIsReal
<1>6. SentThenDue'
  <2>1. request'.kind # "play" => todo' = <<>>
    BY <1>1 DEF Due
  <2> QED
    BY <1>1, <1>2, <1>3, <2>1 DEF SentThenDue, BeforeSending, AfterSending
<1>7. Cleared'
  <2>1. ~NamesTracks(r) => ~Flagged(r.uris)
    BY DEF NamesTracks, NoUris, Flagged
  <2> QED
    BY <1>1, <1>2, <1>3, <2>1 DEF Cleared
<1>8. CountedTries'
  BY <1>1, <1>2, <1>3 DEF CountedTries, AfterSending, Repeats
<1>9. SeenSoFar'
  BY <1>1, <1>2, <1>3 DEF IInv, SeenSoFar
<1>10. OneTarget'
  BY <1>1, <1>3 DEF IInv, OneTarget
<1> QED
  BY <1>4, <1>5, <1>6, <1>7, <1>8, <1>9, <1>10 DEF IInv

(* A step that changes nothing but where the command is. *)
LEMMA MoveKeeps ==
    ASSUME IInv, at # "idle",
           at' \in Waiting \cup Ended,
           at' \in BeforeSending => at \in BeforeSending,
           at' \in AfterSending => at \in AfterSending /\ at' = "polling" /\ at = "resting",
           at' \in {"reading", "issuing"} => person.explicit = "allowed" \/ ~Flagged(request.uris),
           at' \in {"checking", "reading", "issuing", "refused"} => tries = 0 /\ took = 0,
           UNCHANGED <<asked, todo, waiting, issued>>
    PROVE  IInv'
<1> USE DEF asked, waiting, issued
<1>1. TypeOK'
  BY DEF IInv, TypeOK
<1>2. AskedIsReal'
  BY DEF IInv, AskedIsReal
<1>3. SentThenDue'
  BY DEF IInv, SentThenDue, Due, BeforeSending, AfterSending
<1>4. Cleared'
  BY DEF IInv, Cleared
<1>5. CountedTries'
  BY DEF IInv, CountedTries, Repeats, BeforeSending, AfterSending, Waiting, Ended
<1>6. SeenSoFar'
  BY DEF IInv, SeenSoFar, SeenBeforeTheModes, WasSent, Goal, FirstOfTwo, AfterSending
<1>7. OneTarget'
  BY DEF IInv, OneTarget
<1> QED
  BY <1>1, <1>2, <1>3, <1>4, <1>5, <1>6, <1>7 DEF IInv

LEMMA ExplicitAnsweredKeeps ==
    ASSUME IInv, ExplicitAnswered
    PROVE  IInv'
<1>1. /\ at = "checking"
      /\ at' = IF Flagged(request.uris) THEN "refused" ELSE Outset(request)
      /\ UNCHANGED <<asked, todo, waiting, issued>>
  BY DEF ExplicitAnswered, Stop
<1>2. at' \in {"refused", "reading", "issuing"}
  BY <1>1 DEF Outset
<1>3. tries = 0 /\ took = 0
  BY <1>1 DEF IInv, CountedTries
<1> QED
  BY <1>1, <1>2, <1>3, MoveKeeps DEF Waiting, Ended, BeforeSending, AfterSending

LEMMA RequestFailsKeeps ==
    ASSUME IInv, RequestFails
    PROVE  IInv'
  BY MoveKeeps DEF RequestFails, Stop, Waiting, Ended, BeforeSending, AfterSending

LEMMA CancelledKeeps ==
    ASSUME IInv, Cancelled
    PROVE  IInv'
  BY MoveKeeps DEF Cancelled, Stop, Waiting, Ended, BeforeSending, AfterSending

LEMMA WakeUpKeeps ==
    ASSUME IInv, WakeUp
    PROVE  IInv'
  BY MoveKeeps DEF WakeUp, Stop, Waiting, Ended, BeforeSending, AfterSending

LEMMA PreviousReadKeeps ==
    ASSUME IInv, NEW p \in Player \cup {Nowhere}, PreviousRead(p)
    PROVE  IInv'
<1>1. /\ at = "reading" /\ at' = "issuing"
      /\ previous' \in Track \cup {NoTrack}
      /\ UNCHANGED <<request, person, wanted, todo, waiting, issued>>
  BY DEF PreviousRead, Player
<1> USE <1>1 DEF waiting, issued
<1>2. TypeOK'
  BY DEF IInv, TypeOK, Waiting
<1>3. AskedIsReal'
  BY DEF IInv, AskedIsReal
<1>4. SentThenDue'
  BY DEF IInv, SentThenDue, Due, BeforeSending, AfterSending
<1>5. Cleared'
  BY DEF IInv, Cleared
<1>6. CountedTries'
  BY DEF IInv, CountedTries, Repeats, AfterSending
<1>7. SeenSoFar'
  BY DEF IInv, SeenSoFar, SeenBeforeTheModes, WasSent
<1>8. OneTarget'
  BY DEF IInv, OneTarget
<1> QED
  BY <1>2, <1>3, <1>4, <1>5, <1>6, <1>7, <1>8 DEF IInv

(* The command is accepted, and a confirmation begins. *)
LEMMA AcceptedKeeps ==
    ASSUME IInv, Accepted
    PROVE  IInv'
<1>1. /\ at = "issuing" /\ at' = "polling"
      /\ sent' = Append(sent, "command")
      /\ took' = OnceMore /\ tries' = 0
      /\ addressed' = addressed \cup {request.device}
      /\ left' = Timeout /\ observed' = Nowhere /\ fresh' = FALSE
      /\ UNCHANGED <<asked, todo, nap, shown>>
  BY DEF Accepted, StartConfirming
<1>2. sent = <<>> /\ took \in Nat /\ took <= tries /\ tries \in 0..Budget
  BY <1>1 DEF IInv, SentThenDue, BeforeSending, CountedTries, TypeOK
<1>3. sent' = <<"command">>
  BY <1>1, <1>2
<1> USE <1>1 DEF asked
<1>4. took' \in 1..(Budget + 1) /\ (~Repeats(request) => took' = 1)
  BY <1>2 DEF OnceMore
<1>5. TypeOK'
  <2>1. request.device \in Target
    BY RequestShape DEF IInv, AskedIsReal
  <2>2. fresh' \in BOOLEAN
    BY <1>1
  <2>3. addressed' \subseteq Target
    BY <1>1, <2>1 DEF IInv, TypeOK
  <2>4. sent' \in Seq({"command"} \cup Mode)
    <3>1. <<"command">> \in Seq({"command"} \cup Mode)
      OBVIOUS
    <3> QED
      BY <1>3, <3>1, Zenon
  <2>5. took' \in 0..(Budget + 1) /\ tries' \in 0..Budget
    BY <1>1, <1>4
  <2> QED
    BY <2>2, <2>3, <2>4, <2>5 DEF IInv, TypeOK, Waiting
<1>6. AskedIsReal'
  BY DEF IInv, AskedIsReal
<1>7. SentThenDue'
  <2>1. todo = Due /\ Due' = Due /\ (request.kind # "play" => todo = <<>>)
    BY <1>2 DEF IInv, SentThenDue, Due
  <2>2. sent' # <<>> /\ sent' \o todo' = <<"command">> \o Due'
    <3>1. todo' = Due'
      BY <1>1, <2>1
    <3>2. sent' \o todo' = <<"command">> \o Due'
      BY <1>3, <3>1, Zenon
    <3>3. <<"command">> # <<>>
      OBVIOUS
    <3> QED
      BY <1>3, <3>2, <3>3
  <2> QED
    BY <1>1, <2>1, <2>2 DEF SentThenDue, BeforeSending
<1>8. Cleared'
  BY DEF IInv, Cleared
<1>9. CountedTries'
  BY <1>4 DEF CountedTries, Repeats, AfterSending
<1>10. SeenSoFar'
  BY <1>2 DEF IInv, SeenSoFar
<1>11. OneTarget'
  BY <1>3 DEF IInv, OneTarget
<1> QED
  BY <1>5, <1>6, <1>7, <1>8, <1>9, <1>10, <1>11 DEF IInv

(* No answer came: the command goes round again, or gives up. *)
LEMMA AnswerLostKeeps ==
    ASSUME IInv, AnswerLost
    PROVE  IInv'
<1>1. /\ at = "issuing"
      /\ took' \in {took, OnceMore}
      /\ \/ tries < Budget /\ tries' = tries + 1 /\ at' = at
         \/ at' = "failed" /\ tries' = tries
      /\ UNCHANGED <<asked, todo, waiting, sent, addressed>>
  BY DEF AnswerLost, AnswerLostRetrying
<1>2. /\ took \in Nat /\ took <= tries /\ tries \in 0..Budget
      /\ took <= IF Repeats(request) THEN Budget + 1 ELSE 1
  BY <1>1 DEF IInv, CountedTries, TypeOK
<1>3. /\ took' \in Nat /\ took' <= tries + 1
      /\ took' <= IF Repeats(request) THEN Budget + 1 ELSE 1
  BY <1>1, <1>2 DEF OnceMore
<1>4. took' \in 0..(Budget + 1) /\ tries' \in 0..Budget
  BY <1>1, <1>2, <1>3
<1> USE <1>1 DEF asked, waiting
<1>5. TypeOK'
  BY <1>4 DEF IInv, TypeOK, Ended
<1>6. AskedIsReal'
  BY DEF IInv, AskedIsReal
<1>7. SentThenDue'
  BY DEF IInv, SentThenDue, Due, BeforeSending, AfterSending
<1>8. Cleared'
  BY DEF IInv, Cleared
<1>9. CountedTries'
  <2>1. at' = "issuing" => took' <= tries'
    BY <1>2, <1>3
  <2> QED
    BY <1>3, <2>1 DEF CountedTries, AfterSending, Repeats
<1>10. SeenSoFar'
  BY DEF IInv, SeenSoFar, SeenBeforeTheModes, WasSent
<1>11. OneTarget'
  BY DEF IInv, OneTarget
<1> QED
  BY <1>5, <1>6, <1>7, <1>8, <1>9, <1>10, <1>11 DEF IInv

(* What every poll leaves alone, and what a poll has to bring about.       *)
LEMMA PollKeeps ==
    ASSUME IInv, Polling,
           at' \in {"dialing", "confirmed", "resting", "timeout", "nodevice"},
           at' = "dialing" => FirstOfTwo,
           left' = left, nap' \in 0..Interval,
           shown' \in Player \cup {Nowhere}, observed' \in Player \cup {Nowhere},
           fresh' \in BOOLEAN,
           SeenSoFar'
    PROVE  IInv'
<1> USE DEF Polling, asked, issued
<1>1. TypeOK'
  BY DEF IInv, TypeOK, Waiting, Ended
<1>2. AskedIsReal'
  BY DEF IInv, AskedIsReal
<1>3. SentThenDue'
  <2>1. FirstOfTwo => todo # <<>> /\ request.kind = "play"
    BY DEF FirstOfTwo
  <2> QED
    BY <2>1 DEF IInv, SentThenDue, Due, BeforeSending, AfterSending
<1>4. Cleared'
  BY DEF IInv, Cleared
<1>5. CountedTries'
  BY DEF IInv, CountedTries, Repeats, AfterSending
<1>6. OneTarget'
  BY DEF IInv, OneTarget
<1> QED
  BY <1>1, <1>2, <1>3, <1>4, <1>5, <1>6 DEF IInv

LEMMA PollSeesKeeps ==
    ASSUME IInv, NEW p \in Player, PollSees(p)
    PROVE  IInv'
<1>1. /\ Polling /\ shown' = p /\ fresh' = TRUE /\ observed' = p /\ left' = left
      /\ UNCHANGED <<request, wanted, previous, todo, sent>>
      /\ \/ Goal(p) /\ FirstOfTwo /\ at' = "dialing" /\ nap' = nap
         \/ Goal(p) /\ ~FirstOfTwo /\ at' = "confirmed" /\ nap' = nap
         \/ ~Goal(p) /\ left = 0 /\ at' = "timeout" /\ nap' = nap
         \/ ~Goal(p) /\ at' = "resting" /\ nap' = Interval
  <2>1. CASE Goal(p)
    BY <2>1 DEF PollSees, Polling, Satisfied, asked, issued
  <2>2. CASE ~Goal(p)
    <3>1. Polling /\ shown' = p /\ fresh' = TRUE /\ RestOrGiveUp(p)
      BY <2>2 DEF PollSees
    <3>2. p # Nowhere
      BY DEF Player
    <3> QED
      BY <2>2, <3>1, <3>2 DEF Polling, RestOrGiveUp, asked, issued
  <2> QED
    BY <2>1, <2>2
<1>2. p # Nowhere
  BY DEF Player
<1>3. Goal(p)' <=> Goal(p)
  BY <1>1 DEF Goal, FirstOfTwo
<1>4. Goal(p) /\ FirstOfTwo => Started(request, p)
  BY DEF Goal, FirstOfTwo
<1>5. at' = "confirmed" => todo = <<>>
  BY <1>1 DEF FirstOfTwo, IInv, SentThenDue
<1>6. SeenSoFar'
  <2>1. sent # <<>>
    BY <1>1 DEF IInv, SentThenDue, Polling, AfterSending
  <2> QED
    BY <1>1, <1>2, <1>3, <1>4, <1>5, <2>1 DEF SeenSoFar
<1>7. nap' \in 0..Interval
  BY <1>1 DEF IInv, TypeOK
<1> QED
  BY <1>1, <1>6, <1>7, PollKeeps

LEMMA PollSeesNothingKeeps ==
    ASSUME IInv, PollSeesNothing
    PROVE  IInv'
<1>1. /\ Polling /\ left' = left
      /\ UNCHANGED <<request, wanted, previous, todo, sent, observed, shown, fresh>>
      /\ \/ left = 0 /\ at' = "nodevice" /\ observed = Nowhere /\ nap' = nap
         \/ left = 0 /\ at' = "timeout" /\ observed # Nowhere /\ nap' = nap
         \/ at' = "resting" /\ nap' = Interval
  BY DEF PollSeesNothing, Polling, RestOrGiveUp, asked, issued
<1>2. at = "polling"
  BY <1>1 DEF Polling
<1>3. Goal(observed)' <=> Goal(observed)
  BY <1>1 DEF Goal, FirstOfTwo
<1>4. SeenSoFar'
  BY <1>1, <1>2, <1>3 DEF IInv, SeenSoFar, SeenBeforeTheModes, WasSent
<1>5. /\ nap' \in 0..Interval /\ fresh' \in BOOLEAN
      /\ shown' \in Player \cup {Nowhere} /\ observed' \in Player \cup {Nowhere}
  BY <1>1 DEF IInv, TypeOK
<1> QED
  BY <1>1, <1>4, <1>5, PollKeeps

(* One mode more, and a second confirmation after the last of them.        *)
LEMMA ModeAcceptedKeeps ==
    ASSUME IInv, ModeAccepted
    PROVE  IInv'
<1>1. /\ at = "dialing"
      /\ sent' = Append(sent, Head(todo)) /\ todo' = Tail(todo)
      /\ addressed' = addressed \cup {request.device}
      /\ UNCHANGED <<request, person, wanted, previous, tries, took, nap, shown>>
      /\ \/ /\ todo' = <<>> /\ at' = "polling" /\ left' = Timeout
            /\ observed' = Nowhere /\ fresh' = FALSE
         \/ /\ todo' # <<>> /\ at' = "dialing"
            /\ UNCHANGED <<left, observed, fresh>>
  BY DEF ModeAccepted, ModeAcceptedBy, StartConfirming, asked, waiting
<1>2. /\ todo # <<>> /\ request.kind = "play" /\ sent # <<>>
      /\ sent \o todo = <<"command">> \o Due
  BY <1>1 DEF IInv, SentThenDue, AfterSending
<1>3. /\ Tail(todo) \in Seq(Mode)
      /\ sent \in Seq({"command"} \cup Mode) /\ todo \in Seq({"command"} \cup Mode)
  <2>1. todo \in Seq(Mode) /\ sent \in Seq({"command"} \cup Mode)
    BY DEF IInv, TypeOK
  <2>2. todo \in Seq({"command"} \cup Mode)
    BY <2>1, SeqMonotonic
  <2> QED
    BY <2>1, <2>2, <1>2, HeadTailProperties
<1>4. /\ sent' \in Seq({"command"} \cup Mode) /\ sent' # <<>>
      /\ sent' \o todo' = sent \o todo
  <2>1. sent' = Append(sent, Head(todo)) /\ todo' = Tail(todo) /\ todo # <<>>
    BY <1>1, <1>2
  <2> QED
    BY <1>3, <2>1, MoveOne
<1>5. TypeOK'
  <2>1. request.device \in Target
    BY <1>1, RequestShape DEF IInv, AskedIsReal
  <2>2. fresh' \in BOOLEAN
    BY <1>1 DEF IInv, TypeOK
  <2>3. addressed' \subseteq Target
    BY <1>1, <2>1 DEF IInv, TypeOK
  <2> QED
    BY <1>1, <1>3, <1>4, <2>2, <2>3 DEF IInv, TypeOK, Waiting
<1>6. AskedIsReal'
  BY <1>1 DEF IInv, AskedIsReal
<1>7. SentThenDue'
  <2>1. Due' = Due
    BY <1>1 DEF Due
  <2> QED
    BY <1>1, <1>2, <1>4, <2>1 DEF SentThenDue, BeforeSending
<1>8. Cleared'
  BY <1>1, <1>2 DEF IInv, Cleared
<1>9. CountedTries'
  BY <1>1 DEF IInv, CountedTries, Repeats, AfterSending
<1>10. SeenSoFar'
  <2>1. fresh /\ observed = shown /\ observed # Nowhere /\ Started(request, shown)
    BY <1>1 DEF IInv, SeenSoFar
  <2>2. \E m \in Mode : WasSent(m)'
    <3>1. Head(todo) \in Mode /\ Len(sent) + 1 \in DOMAIN sent' /\ sent'[Len(sent) + 1] = Head(todo)
      <4>1. todo \in Seq(Mode) /\ sent \in Seq({"command"} \cup Mode)
        BY DEF IInv, TypeOK
      <4>2. Head(todo) \in Mode
        BY <4>1, <1>2, HeadTailProperties
      <4> QED
        BY <1>1, <4>1, <4>2, AppendProperties, LenProperties
    <3> QED
      BY <3>1 DEF WasSent
  <2>3. SeenBeforeTheModes'
    BY <1>1, <1>2, <2>1, <2>2 DEF SeenBeforeTheModes, Started
  <2> QED
    BY <1>1, <1>4, <2>1, <2>3 DEF SeenSoFar
<1>11. OneTarget'
  BY <1>1, <1>4 DEF IInv, OneTarget
<1> QED
  BY <1>5, <1>6, <1>7, <1>8, <1>9, <1>10, <1>11 DEF IInv

LEMMA TickKeeps ==
    ASSUME IInv, Tick
    PROVE  IInv'
<1>1. /\ at \in Waiting
      /\ left' = (IF left > 0 THEN left - 1 ELSE 0) /\ nap' = (IF nap > 0 THEN nap - 1 ELSE 0)
      /\ UNCHANGED <<at, request, person, wanted, previous, todo, observed, shown, fresh,
                     sent, addressed, tries, took>>
  BY DEF Tick, asked, issued
<1>2. left' \in 0..Timeout /\ nap' \in 0..Interval
  BY <1>1 DEF IInv, TypeOK
<1>3. TypeOK'
  BY <1>1, <1>2 DEF IInv, TypeOK
<1>4. AskedIsReal' /\ Cleared'
  BY <1>1 DEF IInv, AskedIsReal, Cleared
<1>5. SentThenDue'
  BY <1>1 DEF IInv, SentThenDue, Due
<1>6. CountedTries'
  BY <1>1 DEF IInv, CountedTries, Repeats
<1>7. SeenSoFar'
  BY <1>1 DEF IInv, SeenSoFar, SeenBeforeTheModes, WasSent, Goal, FirstOfTwo, Waiting
<1>8. OneTarget'
  BY <1>1 DEF IInv, OneTarget
<1> QED
  BY <1>3, <1>4, <1>5, <1>6, <1>7, <1>8 DEF IInv

(* Every step keeps the invariant. *)
LEMMA NextKeeps == IInv /\ [Next]_vars => IInv'
<1> SUFFICES ASSUME IInv, [Next]_vars PROVE IInv'
  OBVIOUS
<1>1. CASE UNCHANGED vars
  <2>1. TypeOK' /\ AskedIsReal' /\ Cleared'
    BY <1>1 DEF vars, IInv, TypeOK, AskedIsReal, Cleared
  <2>2. SentThenDue'
    BY <1>1 DEF vars, IInv, SentThenDue, Due
  <2>3. CountedTries'
    BY <1>1 DEF vars, IInv, CountedTries, Repeats
  <2>4. SeenSoFar'
    BY <1>1 DEF vars, IInv, SeenSoFar, SeenBeforeTheModes, WasSent, Goal, FirstOfTwo
  <2>5. OneTarget'
    BY <1>1 DEF vars, IInv, OneTarget
  <2> QED
    BY <2>1, <2>2, <2>3, <2>4, <2>5 DEF IInv
<1> QED
  BY <1>1, BeginKeeps, ExplicitAnsweredKeeps, PreviousReadKeeps, AcceptedKeeps, AnswerLostKeeps,
     RequestFailsKeeps, PollSeesKeeps, PollSeesNothingKeeps, WakeUpKeeps, ModeAcceptedKeeps,
     CancelledKeeps, TickKeeps DEF Next

-----------------------------------------------------------------------------

(* So it always holds. *)
LEMMA Invariance == Spec => []IInv
  BY InitHolds, NextKeeps, PTL DEF Spec

(* Every variable of a command keeps its type (api/routes/player.py,       *)
(* jobs/confirm.py).                                                       *)
THEOREM TypeCorrect == Spec => []TypeOK
<1>1. IInv => TypeOK
  BY DEF IInv
<1> QED
  BY <1>1, Invariance, PTL

(* confirm() answers with a state in which all that was asked is true at   *)
(* once, whatever other people and devices do to the player in between.    *)
THEOREM AnswersMeetRequests == Spec => []AnswerMeetsRequest
<1>1. IInv => AnswerMeetsRequest
  <2> SUFFICES ASSUME IInv, at = "confirmed" PROVE AnswerMeetsRequest
    BY DEF AnswerMeetsRequest
  <2>1. observed # Nowhere /\ Goal(observed) /\ ~FirstOfTwo
    BY DEF IInv, SeenSoFar, FirstOfTwo
  <2>2. request \in Request /\ person \in Person /\ wanted = Wanted(request, person)
    BY DEF IInv, AskedIsReal
  <2>3. /\ request.kind \in {"play", "pause", "skip", "set", "transfer", "queue"}
        /\ request.kind \in {"pause", "skip", "transfer", "queue"} => \A d \in Dial : wanted[d] = Unset
    BY <2>2, RequestShape, WantedIsDials
  <2>4. /\ request.kind = "play" => Started(request, observed) /\ Dialled(wanted, observed)
        /\ request.kind = "pause" => ~observed.playing
        /\ request.kind = "skip" => observed.item # previous
        /\ request.kind = "transfer" => observed.device = request.device
        /\ request.kind = "set" => Dialled(wanted, observed)
    BY <2>1 DEF Goal
  <2> QED
    BY <2>1, <2>3, <2>4 DEF AnswerMeetsRequest, Started, Dialled, NoUris
<1> QED
  BY <1>1, Invariance, PTL

(* What was sent, against what was due. *)
LEMMA SentAreDue ==
    ASSUME IInv
    PROVE  /\ \A m \in Mode : WasSent(m) => request.kind = "play" /\ wanted[m] # Unset
           /\ todo = <<>> /\ sent # <<>> => sent = <<"command">> \o Due
<1> DEFINE S == {"command"} \cup Mode
           cmd == <<"command">>
<1>1. /\ sent \in Seq(S) /\ todo \in Seq(S) /\ Due \in Seq(S) /\ cmd \in Seq(S)
      /\ Len(cmd) = 1 /\ cmd[1] = "command"
  <2>1. sent \in Seq(S) /\ todo \in Seq(Mode) /\ Due \in Seq(Mode)
    BY DueIsSent DEF IInv, TypeOK
  <2>2. todo \in Seq(S) /\ Due \in Seq(S)
    BY <2>1, SeqMonotonic
  <2> QED
    BY <2>1, <2>2
<1>2. sent # <<>> => sent \o todo = cmd \o Due
  BY DEF IInv, SentThenDue
<1>3. \A m \in Mode : m # "command"
  BY DEF Mode
<1> HIDE DEF S, cmd
<1>4. /\ Len(sent) \in Nat /\ Len(todo) \in Nat /\ Len(Due) \in Nat
      /\ \A i \in 1..(Len(sent) + Len(todo)) :
            (sent \o todo)[i] = IF i <= Len(sent) THEN sent[i] ELSE todo[i - Len(sent)]
      /\ Len(sent \o todo) = Len(sent) + Len(todo)
      /\ \A i \in 1..(Len(cmd) + Len(Due)) :
            (cmd \o Due)[i] = IF i <= Len(cmd) THEN cmd[i] ELSE Due[i - Len(cmd)]
      /\ Len(cmd \o Due) = Len(cmd) + Len(Due)
  <2>1. sent \in Seq(S) /\ todo \in Seq(S)
    BY <1>1
  <2>2. cmd \in Seq(S) /\ Due \in Seq(S)
    BY <1>1
  <2>3. Len(sent) \in Nat /\ Len(todo) \in Nat /\ Len(Due) \in Nat
    BY <2>1, <2>2, LenProperties
  <2>4. /\ Len(sent \o todo) = Len(sent) + Len(todo)
        /\ \A i \in 1..(Len(sent) + Len(todo)) :
              (sent \o todo)[i] = IF i <= Len(sent) THEN sent[i] ELSE todo[i - Len(sent)]
    BY <2>1, ConcatProperties
  <2>5. /\ Len(cmd \o Due) = Len(cmd) + Len(Due)
        /\ \A i \in 1..(Len(cmd) + Len(Due)) :
              (cmd \o Due)[i] = IF i <= Len(cmd) THEN cmd[i] ELSE Due[i - Len(cmd)]
    BY <2>2, ConcatProperties
  <2> QED
    BY <2>3, <2>4, <2>5
<1>5. ASSUME NEW m \in Mode, WasSent(m)
      PROVE  request.kind = "play" /\ wanted[m] # Unset
  <2>1. PICK i \in 1..Len(sent) : sent[i] = m
    BY <1>1, <1>5, LenProperties DEF WasSent
  <2>2. sent # <<>>
    BY <2>1, EmptySeq
  <2>3. Len(sent) + Len(todo) = 1 + Len(Due)
    BY <1>1, <1>2, <1>4, <2>2
  <2>4. i \in 1..(1 + Len(Due)) /\ i <= Len(sent) /\ i \in 1..(Len(sent) + Len(todo))
    BY <2>3, <1>4
  <2>5. (cmd \o Due)[i] = m
    BY <2>1, <2>2, <2>4, <1>2, <1>4
  <2>6. i # 1
    BY <2>4, <2>5, <1>1, <1>3, <1>4
  <2>7. i - 1 \in 1..Len(Due) /\ ~ i <= 1
    BY <2>4, <2>6, <1>4
  <2>8. Due[i - 1] = m
    BY <2>4, <2>5, <2>7, <1>1, <1>4
  <2> QED
    BY <2>7, <2>8, DueIsSent
<1>6. ASSUME todo = <<>>, sent # <<>>
      PROVE  sent = cmd \o Due
  BY <1>1, <1>2, <1>6, ConcatEmptySeq
<1> QED
  BY <1>5, <1>6 DEF cmd

(* A confirmed command is accepted once with each of its modes; repeating  *)
(* it in request() costs no more than the retries; a refusal is one.       *)
THEOREM AllIsSentOrReported == Spec => []AllSentOrReported
<1>1. IInv => AllSentOrReported
  <2> SUFFICES ASSUME IInv PROVE AllSentOrReported
    OBVIOUS
  <2>1. /\ took <= IF Repeats(request) THEN Budget + 1 ELSE 1
        /\ at = "refused" => sent = <<>> /\ took = 0
    BY DEF IInv, SentThenDue, CountedTries, BeforeSending
  <2>2. ASSUME at = "confirmed"
        PROVE  /\ WasSent("command") /\ took > 0
               /\ \A m \in Mode : (WasSent(m) <=> request.kind = "play" /\ wanted[m] # Unset)
               /\ \A i, k \in DOMAIN sent : sent[i] = sent[k] => i = k
    <3>1. sent # <<>> /\ todo = <<>> /\ took > 0
      BY <2>2 DEF IInv, SentThenDue, CountedTries, SeenSoFar, AfterSending
    <3>2. sent = <<"command">> \o Due
      BY <3>1, SentAreDue
    <3>3. /\ sent \in Seq({"command"} \cup Mode) /\ Due \in Seq({"command"} \cup Mode)
          /\ Due \in Seq(Mode) /\ Len(Due) \in Nat
      BY SeqMonotonic, DueIsSent, LenProperties DEF IInv, TypeOK
    <3>4. /\ Len(sent) = 1 + Len(Due) /\ DOMAIN sent = 1..(1 + Len(Due))
          /\ sent[1] = "command"
          /\ \A i \in 1..Len(Due) : i + 1 \in DOMAIN sent /\ sent[i + 1] = Due[i]
      <4> DEFINE cmd == <<"command">>
      <4>1. cmd \in Seq({"command"} \cup Mode) /\ Len(cmd) = 1 /\ cmd[1] = "command"
        OBVIOUS
      <4> HIDE DEF cmd
      <4>2. sent = cmd \o Due
        BY <3>2 DEF cmd
      <4>3. /\ Len(cmd \o Due) = Len(cmd) + Len(Due)
            /\ \A i \in 1..(Len(cmd) + Len(Due)) :
                  (cmd \o Due)[i] = IF i <= Len(cmd) THEN cmd[i] ELSE Due[i - Len(cmd)]
        <5>1. cmd \in Seq({"command"} \cup Mode) /\ Due \in Seq({"command"} \cup Mode)
          BY <4>1, <3>3
        <5> QED
          BY <5>1, ConcatProperties
      <4>4. DOMAIN sent = 1..Len(sent)
        BY <3>3, LenProperties
      <4>5. Len(sent) = 1 + Len(Due)
        BY <4>1, <4>2, <4>3
      <4>6. sent[1] = "command"
        BY <4>1, <4>2, <4>3, <3>3
      <4>7. ASSUME NEW i \in 1..Len(Due)
            PROVE  i + 1 \in DOMAIN sent /\ sent[i + 1] = Due[i]
        <5>1. i + 1 \in 1..(1 + Len(Due)) /\ ~ i + 1 <= 1 /\ (i + 1) - 1 = i
          BY <3>3
        <5> QED
          BY <5>1, <4>1, <4>2, <4>3, <4>4, <4>5
      <4> QED
        BY <4>4, <4>5, <4>6, <4>7
    <3>5. \A i \in DOMAIN sent : i = 1 \/ (i - 1 \in 1..Len(Due) /\ sent[i] = Due[i - 1])
      <4> SUFFICES ASSUME NEW i \in DOMAIN sent, i # 1
                   PROVE  i - 1 \in 1..Len(Due) /\ sent[i] = Due[i - 1]
        OBVIOUS
      <4>1. i - 1 \in 1..Len(Due) /\ (i - 1) + 1 = i
        BY <3>3, <3>4
      <4> QED
        BY <4>1, <3>4
    <3>6. WasSent("command")
      <4>1. 1 \in DOMAIN sent
        BY <3>3, <3>4
      <4> QED
        BY <4>1, <3>4 DEF WasSent
    <3>7. ASSUME NEW m \in Mode
          PROVE  WasSent(m) <=> request.kind = "play" /\ wanted[m] # Unset
      <4>1. (\E i \in 1..Len(Due) : Due[i] = m) => WasSent(m)
        BY <3>4 DEF WasSent
      <4> QED
        BY <4>1, DueIsSent, SentAreDue
    <3>8. \A i \in 1..Len(Due) : Due[i] # "command"
      <4>1. \A i \in 1..Len(Due) : Due[i] \in Mode
        BY <3>3, ElementOfSeq
      <4> QED
        BY <4>1 DEF Mode
    <3>9. ASSUME NEW i \in DOMAIN sent, NEW k \in DOMAIN sent, sent[i] = sent[k]
          PROVE  i = k
      <4>1. CASE i = 1 \/ k = 1
        BY <4>1, <3>4, <3>5, <3>8, <3>9
      <4>2. CASE i # 1 /\ k # 1
        <5>1. /\ i - 1 \in 1..Len(Due) /\ k - 1 \in 1..Len(Due)
              /\ Due[i - 1] = Due[k - 1]
          BY <4>2, <3>5, <3>9
        <5>2. i - 1 = k - 1
          BY <5>1, DueIsSent
        <5> QED
          BY <5>1, <5>2, <3>4, <3>3
      <4> QED
        BY <4>1, <4>2
    <3> QED
      BY <3>1, <3>6, <3>7, <3>9
  <2> QED
    BY <2>1, <2>2 DEF AllSentOrReported
<1> QED
  BY <1>1, Invariance, PTL

(* play() sends modes once what was asked for was seen playing, to the     *)
(* device that it sent the play to, and shuffle_for and repeat_for only    *)
(* for a play that starts something.                                       *)
THEOREM ModesAreMeant == Spec => []ModesOnlyWhenMeant
<1>1. IInv => ModesOnlyWhenMeant
  <2> SUFFICES ASSUME IInv PROVE ModesOnlyWhenMeant
    OBVIOUS
  <2>1. at = "dialing" => /\ fresh /\ shown.playing
                          /\ request.uris # NoUris => shown.item = request.uris[1]
    BY DEF IInv, SeenSoFar, Started
  <2>2. ASSUME NEW m \in Mode, WasSent(m), request.dial[m] = Unset
        PROVE  wanted[m] = On /\ StartsSomething(request)
    <3>1. wanted[m] # Unset /\ sent # <<>>
      BY <2>2, SentAreDue DEF WasSent
    <3>2. request \in Request /\ person \in Person /\ wanted = Wanted(request, person)
      BY <3>1 DEF IInv, AskedIsReal, SentThenDue, BeforeSending
    <3> QED
      BY <2>2, <3>1, <3>2, WantedIsDials
  <2>3. addressed \subseteq {request.device}
    BY DEF IInv, OneTarget
  <2> QED
    BY <2>1, <2>2, <2>3 DEF ModesOnlyWhenMeant
<1> QED
  BY <1>1, Invariance, PTL

(* refuse_explicit stands before every request that names tracks.          *)
THEOREM ExplicitIsNeverSent == Spec => []ExplicitNeverSent
<1>1. IInv => ExplicitNeverSent
  BY DEF IInv, Cleared, Flagged, ExplicitNeverSent
<1> QED
  BY <1>1, Invariance, PTL

(* confirm() gives up after its whole time and reports what it last saw:   *)
(* itself, and not what a confirmation before it did.                      *)
THEOREM GivingUpIsHonest == Spec => []GivesUpHonestly
<1>1. IInv => GivesUpHonestly
  BY DEF IInv, SeenSoFar, SeenBeforeTheModes, GivesUpHonestly
<1> QED
  BY <1>1, Invariance, PTL
===============================================================================
