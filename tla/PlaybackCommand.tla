--------------------------- MODULE PlaybackCommand ---------------------------
(***************************************************************************)
(* One playback command, from the handler of api/routes/player.py through  *)
(* PlayerResource (spotify/resources/player.py) to the confirmer of        *)
(* jobs/confirm.py.  This is the work() that JobRunner runs in the         *)
(* background, or that the handler awaits itself.                          *)
(*                                                                         *)
(* Two commands share nothing in this process, only the player at Spotify, *)
(* which people, devices and the passing of time change as well.  Nothing  *)
(* is assumed of it: a poll may find any state, so one command is enough.  *)
(* What Spotify does with the command itself is kept: it may carry it out  *)
(* and its answer be lost, and then it is asked again.                     *)
(* A step ends at each await: a request, or the pause between two polls.   *)
(* The deadline is kept as the time left; Tick may come during any await.  *)
(*                                                                         *)
(* An operator named for what it gets wrong is a faulty variant of the     *)
(* definition below it, kept to show that a property can tell them apart.  *)
(***************************************************************************)
EXTENDS Integers, Sequences

CONSTANTS Track,     \* track URIs
          Explicit,  \* those that Spotify marks explicit
          NoTrack,   \* nothing is loaded
          Dial,      \* what can be set to a value: shuffle, repeat, volume,
                     \* position
          Value,     \* the values of a dial
          On,        \* the value a preference may give shuffle or repeat
          Unset,     \* a dial that a request leaves alone
          Device,    \* what a person can play on
          Named,     \* bound: those of them that requests name
          Anywhere,  \* the device of a request that names none
          Nowhere,   \* the player state when nothing is playing on any device
          People,    \* the preferences of the people who call
          MaxUris,   \* bound: tracks named by one play
          Budget,    \* max_retries
          Timeout,   \* confirm_timeout_seconds, in clock ticks
          Interval   \* confirm_poll_interval_seconds, in clock ticks

Mode == {"shuffle", "repeat"}

(* What one person's preferences say of a play. *)
Person == [explicit : {"allowed", "refused", "unknown"},
           dial     : [Mode -> {On, Unset}]]

ASSUME PlaybackCommandAssumption ==
    /\ Explicit \subseteq Track
    /\ NoTrack \notin Track
    /\ Mode \subseteq Dial
    /\ On \in Value /\ Unset \notin Value
    /\ People \subseteq Person
    /\ MaxUris \in Nat
    /\ Budget \in Nat
    /\ Timeout \in Nat \ {0}
    /\ Interval \in Nat \ {0}
    /\ Named \subseteq Device /\ Anywhere \notin Device
    /\ Nowhere \notin [playing : BOOLEAN, item : Track \cup {NoTrack}, device : Device,
                       dial : [Dial -> Value]]

VARIABLES at,        \* where the command has got to
          request,   \* what was asked
          person,    \* by whom
          wanted,    \* the dials it will set
          previous,  \* what was loaded before a skip
          todo,      \* modes of a play that are still to be set
          left,      \* ticks until the deadline of the confirmation
          nap,       \* ticks until the next poll
          observed,  \* the last player state this confirmation remembers
          shown,     \* history: the last one that Spotify showed the command
          fresh,     \* history: whether it showed it to this confirmation
          sent,      \* the requests that Spotify has accepted, in order
          addressed, \* history: the devices they were addressed to
          tries,     \* attempts of the request under way that went unanswered
          took       \* history: how often Spotify carried the command out

asked   == <<request, person, wanted, previous>>
waiting == <<left, nap, observed, shown, fresh>>
issued  == <<sent, addressed, tries, took>>
vars    == <<at, request, person, wanted, previous, todo, left, nap, observed, shown, fresh,
             sent, addressed, tries, took>>

-----------------------------------------------------------------------------
(* Requests and player states. *)

Waiting == {"checking", "reading", "issuing", "polling", "resting", "dialing"}
Ended   == {"refused", "failed", "confirmed", "timeout", "nodevice", "cancelled"}

Player == [playing : BOOLEAN, item : Track \cup {NoTrack}, device : Device,
           dial : [Dial -> Value]]

NoDial == [d \in Dial |-> Unset]
NoUris == <<>>
Uris   == UNION {[1..n -> Track] : n \in 0..MaxUris}

(* Every command may name a device; if it does not, Spotify takes the one  *)
(* that is active.                                                         *)
Target == Named \cup {Anywhere}

(* PlayRequest accepts tracks or a context, never both; neither resumes. *)
PlayRequest ==
    {r \in [kind : {"play"}, uris : Uris, context : BOOLEAN,
            device : Target, dial : [Dial -> Value \cup {Unset}]] :
        /\ r.context => r.uris = NoUris
        /\ \A d \in Dial \ Mode : r.dial[d] = Unset}

(* What the other handlers may ask of _command, kind by kind. *)
Plainly(kind) == [kind : {kind}, uris : {NoUris}, context : {FALSE}, device : Target,
                  dial : {NoDial}]

PauseRequest == Plainly("pause")

SkipRequest == Plainly("skip")

SetRequest == {[r EXCEPT !.dial[d] = v] : r \in Plainly("set"), d \in Dial, v \in Value}

TransferRequest == {r \in Plainly("transfer") : r.device # Anywhere}

QueueRequest == {[r EXCEPT !.uris = <<t>>] : r \in Plainly("queue"), t \in Track}

Request == PlayRequest \cup PauseRequest \cup SkipRequest \cup SetRequest
               \cup TransferRequest \cup QueueRequest

StartsSomething(r) == r.context \/ r.uris # NoUris

(* shuffle_for and repeat_for: the request's own word, or on a new play    *)
(* the person's.  Any other command sets just what it names.               *)
Wanted(r, p) ==
    [d \in Dial |-> IF r.dial[d] = Unset /\ r.kind = "play" /\ StartsSomething(r) /\ d \in Mode
                    THEN p.dial[d] ELSE r.dial[d]]

(* A play of named tracks, or a queueing, is checked for explicit ones     *)
(* unless the person allows them.                                          *)
NamesTracks(r) == r.uris # NoUris

(* set_modes sets shuffle, then repeat, whichever of them is wanted. *)
ModesOf(dials) == (IF dials["shuffle"] # Unset THEN <<"shuffle">> ELSE <<>>)
                     \o (IF dials["repeat"] # Unset THEN <<"repeat">> ELSE <<>>)

-----------------------------------------------------------------------------
(* The predicates of jobs/confirm.py.  A play counts as started on whatever *)
(* device it is seen: only a transfer looks at the device.                 *)

Started(r, p) == p.playing /\ (r.uris # NoUris => p.item = r.uris[1])

Dialled(dials, p) == \A d \in Dial : dials[d] # Unset => p.dial[d] = dials[d]

(* A play with modes is confirmed twice: that it started, and, when its    *)
(* modes have been set, that it is still so with the modes as asked.       *)
FirstOfTwo == request.kind = "play" /\ todo # <<>>

GoalModesOnly(p) ==
    CASE request.kind = "play"  -> IF FirstOfTwo THEN Started(request, p) ELSE Dialled(wanted, p)
      [] request.kind = "pause" -> ~p.playing
      [] request.kind = "skip"  -> p.item # previous
      [] request.kind = "set"   -> Dialled(wanted, p)
      [] request.kind = "transfer" -> p.device = request.device
      [] request.kind = "queue" -> TRUE

Goal(p) ==
    CASE request.kind = "play"  -> Started(request, p) /\ (FirstOfTwo \/ Dialled(wanted, p))
      [] request.kind = "pause" -> ~p.playing
      [] request.kind = "skip"  -> p.item # previous
      [] request.kind = "set"   -> Dialled(wanted, p)
      [] request.kind = "transfer" -> p.device = request.device
      [] request.kind = "queue" -> TRUE

-----------------------------------------------------------------------------

Idle == [kind |-> "none", uris |-> NoUris, context |-> FALSE, device |-> Anywhere,
         dial |-> NoDial]

Nobody == [explicit |-> "unknown", dial |-> [m \in Mode |-> Unset]]

Init ==
    /\ at = "idle"
    /\ request = Idle /\ person = Nobody /\ wanted = NoDial
    /\ previous = NoTrack /\ todo = <<>>
    /\ left = 0 /\ nap = 0 /\ observed = Nowhere /\ shown = Nowhere /\ fresh = FALSE
    /\ sent = <<>> /\ addressed = {} /\ tries = 0 /\ took = 0

(* A skip reads what is loaded before it is sent; the others are sent. *)
Outset(r) == IF r.kind = "skip" THEN "reading" ELSE "issuing"

Stop(how) == at' = how /\ UNCHANGED <<asked, todo, waiting, issued>>

(* The handler reads the preferences before any work: a person whose       *)
(* answer on explicit tracks is unknown is refused when it matters.        *)
Begin(r, p) ==
    /\ at = "idle"
    /\ request' = r /\ person' = p /\ wanted' = Wanted(r, p)
    /\ todo' = IF r.kind = "play" THEN ModesOf(wanted') ELSE <<>>
    /\ at' = IF ~NamesTracks(r) \/ p.explicit = "allowed" THEN Outset(r)
             ELSE IF p.explicit = "unknown" THEN "refused" ELSE "checking"
    /\ UNCHANGED <<previous, waiting, issued>>

(* refuse_explicit looks at every track named, before anything is sent.    *)
FlaggedFirstOnly(uris) == uris[1] \in Explicit

Flagged(uris) == \E i \in DOMAIN uris : uris[i] \in Explicit

ExplicitAnswered ==
    /\ at = "checking"
    /\ Stop(IF Flagged(request.uris) THEN "refused" ELSE Outset(request))

PreviousReadUnguarded(p) ==
    /\ at = "reading"
    /\ previous' = IF p = Nowhere THEN p ELSE p.item
    /\ at' = "issuing"
    /\ UNCHANGED <<request, person, wanted, todo, waiting, issued>>

(* _current_uri, on the way to a skip; nothing playing reads as no track.  *)
PreviousRead(p) ==
    /\ at = "reading"
    /\ previous' = IF p = Nowhere THEN NoTrack ELSE p.item
    /\ at' = "issuing"
    /\ UNCHANGED <<request, person, wanted, todo, waiting, issued>>

(* confirm() begins: a deadline of its own, and it remembers nothing of    *)
(* what the confirmation before it saw.                                    *)
StartConfirming ==
    /\ at' = "polling"
    /\ left' = Timeout
    /\ observed' = Nowhere /\ fresh' = FALSE
    /\ UNCHANGED <<nap, shown>>

(* Carrying a PUT out again sets what it set before; next, previous and    *)
(* queue are POSTs, and each one that Spotify carries out is one more.     *)
Repeats(r) == r.kind \in {"skip", "queue"}

OnceMore == IF Repeats(request) THEN took + 1 ELSE 1

(* Spotify accepted the command. *)
Accepted ==
    /\ at = "issuing"
    /\ sent' = Append(sent, "command")
    /\ addressed' = addressed \cup {request.device}
    /\ took' = OnceMore /\ tries' = 0
    /\ StartConfirming
    /\ UNCHANGED <<asked, todo>>

(* The connection broke, or Spotify answered 5xx: it may have carried the  *)
(* command out all the same.  request() sends it again while its budget    *)
(* lasts, whatever the method, and then gives up.                          *)
AnswerLostRetrying(more) ==
    /\ at = "issuing"
    /\ took' \in {took, OnceMore}
    /\ IF more THEN tries' = tries + 1 /\ UNCHANGED at
               ELSE at' = "failed" /\ UNCHANGED tries
    /\ UNCHANGED <<asked, todo, waiting, sent, addressed>>

AnswerLostOnceTooOften == AnswerLostRetrying(tries <= Budget)

AnswerLost == AnswerLostRetrying(tries < Budget)

(* A request on the way was refused, or a read or a mode failed for good;  *)
(* what was sent before it stays.                                          *)
RequestFails == at \in {"checking", "reading", "issuing", "dialing"} /\ Stop("failed")

-----------------------------------------------------------------------------
(* Confirmation. *)

(* The poll did not satisfy the predicate: give up if the deadline has     *)
(* come, otherwise rest.  saw_a_device is that observed is not None.       *)
WaitForADevice(seen) ==
    /\ observed' = seen
    /\ IF left = 0 /\ seen # Nowhere
       THEN at' = "timeout" /\ UNCHANGED <<left, nap>>
       ELSE at' = "resting" /\ nap' = Interval /\ UNCHANGED left

RestOrGiveUp(seen) ==
    /\ observed' = seen
    /\ IF left = 0
       THEN at' = (IF seen = Nowhere THEN "nodevice" ELSE "timeout") /\ UNCHANGED <<left, nap>>
       ELSE at' = "resting" /\ nap' = Interval /\ UNCHANGED left

Polling == at = "polling" /\ UNCHANGED <<asked, todo, issued>>

(* The predicate holds: answer with this very state, or go on to the modes. *)
Satisfied(p) ==
    /\ observed' = p
    /\ at' = IF FirstOfTwo THEN "dialing" ELSE "confirmed"
    /\ UNCHANGED <<left, nap>>

(* Spotify described the player. *)
PollSees(p) ==
    /\ shown' = p /\ fresh' = TRUE /\ Polling
    /\ IF Goal(p) THEN Satisfied(p) ELSE RestOrGiveUp(p)

(* Nothing is playing anywhere, or the request failed, which counts as the *)
(* same; what an earlier poll saw is kept.                                 *)
PollForgets == Polling /\ RestOrGiveUp(Nowhere) /\ UNCHANGED <<shown, fresh>>

PollSeesNothing == Polling /\ RestOrGiveUp(observed) /\ UNCHANGED <<shown, fresh>>

WakeUp ==
    /\ at = "resting" /\ nap = 0
    /\ Stop("polling")

(* One of the modes of a play was accepted; after the last, confirm again. *)
(* It goes to the device that the play named, which need not be the one    *)
(* that was seen playing.                                                  *)
ModeAcceptedBy(device) ==
    /\ at = "dialing"
    /\ sent' = Append(sent, Head(todo))
    /\ addressed' = addressed \cup {device}
    /\ todo' = Tail(todo)
    /\ IF todo' = <<>> THEN StartConfirming ELSE UNCHANGED <<at, waiting>>
    /\ UNCHANGED <<asked, tries, took>>

ModeAcceptedAnywhere == ModeAcceptedBy(Anywhere)

ModeAccepted == ModeAcceptedBy(request.device)

(* DELETE /jobs/{id}, or shutdown, at any await. *)
Cancelled == at \in Waiting /\ Stop("cancelled")

Tick ==
    /\ at \in Waiting
    /\ left > 0 \/ nap > 0
    /\ left' = IF left > 0 THEN left - 1 ELSE 0
    /\ nap' = IF nap > 0 THEN nap - 1 ELSE 0
    /\ UNCHANGED <<at, asked, todo, observed, shown, fresh, issued>>

Next ==
    \/ \E r \in Request, p \in People : Begin(r, p)
    \/ ExplicitAnswered
    \/ \E p \in Player \cup {Nowhere} : PreviousRead(p)
    \/ Accepted
    \/ AnswerLost
    \/ RequestFails
    \/ \E p \in Player : PollSees(p)
    \/ PollSeesNothing
    \/ WakeUp
    \/ ModeAccepted
    \/ Cancelled
    \/ Tick

Spec == Init /\ [][Next]_vars

(* Whatever the command awaits comes to an end: a request, because the     *)
(* client bounds its retries and each HTTP call has a timeout, and a pause *)
(* between two polls.  And time passes.                                    *)
AwaitEnds ==
    \/ Accepted
    \/ AnswerLost
    \/ ModeAccepted
    \/ WakeUp
    \/ at = "reading" /\ \E p \in Player \cup {Nowhere} : PreviousRead(p)
    \/ at = "polling" /\ \E p \in Player : PollSees(p)
    \/ PollSeesNothing
    \/ ExplicitAnswered
    \/ RequestFails

Fairness == WF_vars(AwaitEnds) /\ WF_vars(Tick)

FairSpec == Spec /\ Fairness

-----------------------------------------------------------------------------

(* Every variable has its type. *)
TypeOK ==
    /\ at \in {"idle"} \cup Waiting \cup Ended
    /\ request \in Request \cup {Idle}
    /\ person \in People \cup {Nobody}
    /\ wanted \in [Dial -> Value \cup {Unset}]
    /\ previous \in Track \cup {NoTrack}
    /\ todo \in Seq(Mode)
    /\ left \in 0..Timeout /\ nap \in 0..Interval
    /\ {observed, shown} \subseteq Player \cup {Nowhere} /\ fresh \in BOOLEAN
    /\ sent \in Seq({"command"} \cup Mode) /\ addressed \subseteq Target
    /\ tries \in 0..Budget /\ took \in 0..(Budget + 1)

WasSent(what) == \E i \in DOMAIN sent : sent[i] = what

(* The state a command is answered with shows what it was to bring about,  *)
(* all at once: the very track, and every mode, even if someone changed    *)
(* one of them between the two confirmations of a play.  Nothing is said   *)
(* of the device, but for a transfer, or of the context of a play: the     *)
(* code asks for neither.                                                  *)
AnswerMeetsRequest ==
    at = "confirmed" =>
        /\ observed # Nowhere
        /\ request.kind = "play" => observed.playing
        /\ request.kind = "pause" => ~observed.playing
        /\ request.kind = "skip" => observed.item # previous
        /\ request.kind = "transfer" => observed.device = request.device
        /\ request.kind = "play" /\ request.uris # NoUris => observed.item = request.uris[1]
        /\ \A d \in Dial : wanted[d] # Unset => observed.dial[d] = wanted[d]

(* Success means that Spotify accepted every request the command stands    *)
(* for, each once, and carried the command itself out: no skip is reported *)
(* done because a track ended on its own.  An answer that was lost may     *)
(* have cost a repetition, but never more of them than there are retries.  *)
(* A refusal means that nothing was sent and nothing happened.             *)
AllSentOrReported ==
    /\ at = "confirmed" =>
          /\ WasSent("command") /\ took > 0
          /\ \A m \in Mode : (WasSent(m) <=> request.kind = "play" /\ wanted[m] # Unset)
          /\ \A i, k \in DOMAIN sent : sent[i] = sent[k] => i = k
    /\ took <= IF Repeats(request) THEN Budget + 1 ELSE 1
    /\ at = "refused" => sent = <<>> /\ took = 0

(* Shuffle and repeat are sent only when the last state that Spotify showed *)
(* is what the play names, playing, for sent any earlier they could find   *)
(* no device active; they go to the device the play itself went to, though *)
(* it may be another that was seen playing; and if the play did not ask    *)
(* for them, only because it starts something and a preference turns them  *)
(* on.                                                                     *)
ModesOnlyWhenMeant ==
    /\ at = "dialing" =>
          /\ fresh /\ shown.playing
          /\ request.uris # NoUris => shown.item = request.uris[1]
    /\ addressed \subseteq {request.device}
    /\ \A m \in Mode : WasSent(m) /\ request.dial[m] = Unset =>
          wanted[m] = On /\ StartsSomething(request)

(* Whoever has not allowed explicit tracks, or may not have, is played and *)
(* queued none: not the first track named, nor any after it.               *)
ExplicitNeverSent ==
    person.explicit # "allowed" /\ sent # <<>> =>
        \A i \in DOMAIN request.uris : request.uris[i] \notin Explicit

(* A command gives up only once the time of its confirmation is over.  A   *)
(* timeout reports the last state Spotify showed it, one that this very    *)
(* confirmation saw, and without the effect asked for, for the poll after  *)
(* the deadline still counts.  No device is reported only if this          *)
(* confirmation was shown none, and an earlier one neither, but for the    *)
(* device on which a play was seen playing what it names before its modes  *)
(* were sent.  Polls that fail erase nothing and end nothing.              *)
GivesUpHonestly ==
    /\ at \in {"timeout", "nodevice"} => left = 0
    /\ at = "timeout" => fresh /\ observed = shown /\ ~Goal(shown)
    /\ at = "nodevice" =>
          /\ ~fresh
          /\ shown # Nowhere => /\ request.kind = "play" /\ Started(request, shown)
                               /\ \E m \in Mode : WasSent(m)

(* Every command ends, whatever the player does and whoever changes it.    *)
EveryCommandEnds == at \in Waiting ~> at \in Ended

===============================================================================
