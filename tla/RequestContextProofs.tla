------------------------- MODULE RequestContextProofs -------------------------
(***************************************************************************)
(* Proofs about RequestContext, for any tokens, profiles, markets, keys,   *)
(* ceilings and answers of settings-api.                                   *)
(***************************************************************************)
EXTENDS RequestContext, TLAPS

(* What is known before the handler runs: the token that is being verified *)
(* is the one presented, the first read names what the request named, and  *)
(* the second is made only for a request that named no profile.            *)
Underway ==
    /\ at = "verifying" => Presented(headers) # NoToken
    /\ at \in {"reading", "rereading", "ready"} =>
          token = Presented(headers) /\ token # NoToken
    /\ at = "reading" => asked = named
    /\ at = "rereading" => named = NoProfile /\ asked # NoProfile

(* The invariant that every step keeps.  Underway is what the other parts  *)
(* lack to be inductive.                                                   *)
IInv ==
    /\ TypeOK
    /\ Underway
    /\ OnlyScopedAnswersApply
    /\ NothingIsGuessed
    /\ CeilingsHold

-----------------------------------------------------------------------------
(* The operators.                                                          *)

(* A token is presented in every header that carries one. *)
LEMMA PresentedInEveryHeader ==
    ASSUME NEW h \in Headers, Presented(h) # NoToken
    PROVE  /\ Presented(h) \in Token
           /\ h.auth \in {Presented(h), NoToken}
           /\ h.legacy \in {Presented(h), NoToken}
  BY RequestContextAssumption DEF Headers, Presented, Contradictory

(* No answer raises a ceiling, or brings it down to zero. *)
LEMMA NarrowedIsWithin ==
    ASSUME NEW c \in Cap, NEW v
    PROVE  Narrowed(c, v) \in 1..Ceiling[c]
  BY RequestContextAssumption DEF Narrowed

(* Whatever settings-api answers, preferences come of it. *)
LEMMA AppliedType ==
    ASSUME NEW a \in Answer
    PROVE  Applied(a) \in Preferences
<1>1. a \in AnyAnswer
  BY RequestContextAssumption
<1>2. Market(a) \in Country \cup {NoCountry}
  BY RequestContextAssumption DEF Market
<1>3. \A c \in Cap : Narrowed(c, a.cap[c]) \in Nat
  BY NarrowedIsWithin, RequestContextAssumption
<1>4. DefaultProfile(a) \in Profile \cup {NoProfile}
  BY RequestContextAssumption DEF DefaultProfile
<1>5. Explicit(a) \in {"allowed", "refused", "unknown"}
  BY DEF Explicit
<1> QED
  BY <1>2, <1>3, <1>4, <1>5 DEF Applied, Preferences

(* So do they of the configuration alone, and of an outage. *)
LEMMA FallbackType == Deployment \in Preferences /\ Outage \in Preferences
  BY RequestContextAssumption DEF Deployment, Outage, Preferences

-----------------------------------------------------------------------------
(* Proceed, the one way to a handler, from each of its sources.            *)

(* A request proceeds with preferences of its own type. *)
LEMMA ProceedType ==
    ASSUME TypeOK, NEW from \in {"deployment", "settings", "outage"},
           NEW a \in Answer \cup {NoAnswer}, NEW q \in Preferences, Proceed(from, a, q)
    PROVE  /\ source' = from /\ resolved' = a /\ prefs' = q
           /\ source' \in {"none", "deployment", "settings", "outage"}
           /\ resolved' \in Answer \cup {NoAnswer}
           /\ prefs' \in Preferences
           /\ profile' \in Profile \cup {NoProfile}
           /\ at' \in {"ready", "unavailable"}
           /\ at' = "ready" => profile' # NoProfile
           /\ profile' = IF named # NoProfile THEN named ELSE q.profile
  BY DEF Proceed, TypeOK, Preferences

(* Applying an answer that was asked for by profile keeps every part. *)
LEMMA ApplyKeeps ==
    ASSUME IInv, NEW a \in Answer, Apply(a),
           at \in {"reading", "rereading"},
           DefaultProfile(a) = NoProfile \/ asked # NoProfile
    PROVE  IInv'
<1> USE DEF IInv
<1>1. CASE MustNotBeGuessed(a)
  BY <1>1 DEF Apply, TypeOK, Underway, OnlyScopedAnswersApply, NothingIsGuessed, CeilingsHold
<1>2. CASE ~MustNotBeGuessed(a)
  <2>1. Proceed("settings", a, Applied(a))
    BY <1>2 DEF Apply
  <2>2. UNCHANGED <<configured, headers, token, named, asked>>
    BY DEF Apply
  <2>3. /\ source' = "settings" /\ resolved' = a /\ prefs' = Applied(a)
        /\ resolved' \in Answer /\ prefs' \in Preferences
        /\ profile' \in Profile \cup {NoProfile}
        /\ at' \in {"ready", "unavailable"}
        /\ at' = "ready" => profile' # NoProfile
        /\ profile' = IF named # NoProfile THEN named ELSE Applied(a).profile
    BY <2>1, AppliedType, ProceedType
  <2>4. Applied(a).profile = DefaultProfile(a)
    BY DEF Applied
  <2>5. TypeOK'
    BY <2>2, <2>3 DEF TypeOK
  <2>6. Underway'
    BY <2>2, <2>3 DEF Underway
  <2>7. OnlyScopedAnswersApply'
    BY <2>2, <2>3, <2>4 DEF OnlyScopedAnswersApply, Underway
  <2>8. NothingIsGuessed'
    <3>1. DefaultProfile(a) # NoProfile => a.profile # Refused
      BY DEF DefaultProfile
    <3>2. Applied(a).explicit = "allowed" => a.explicit \in {"yes", Missing}
      BY DEF Applied, Explicit
    <3> QED
      BY <2>2, <2>3, <2>4, <3>1, <3>2 DEF NothingIsGuessed
  <2>9. CeilingsHold'
    <3>1. \A c \in Cap : Applied(a).cap[c] \in 1..Ceiling[c]
      BY NarrowedIsWithin DEF Applied
    <3> QED
      BY <2>3, <3>1 DEF CeilingsHold
  <2> QED
    BY <2>5, <2>6, <2>7, <2>8, <2>9
<1> QED
  BY <1>1, <1>2

-----------------------------------------------------------------------------
(* One lemma per action that does more than refuse.                        *)

LEMMA ReceiveKeeps ==
    ASSUME IInv, NEW h \in Headers, NEW p \in Profile \cup {NoProfile}, Receive(h, p)
    PROVE  IInv'
  BY DEF IInv, Receive, TypeOK, Underway, OnlyScopedAnswersApply, NothingIsGuessed, CeilingsHold

LEMMA StopKeeps ==
    ASSUME IInv, NEW how \in {"unauthorized", "unavailable"}, Stop(how)
    PROVE  IInv'
  BY DEF IInv, Stop, TypeOK, Underway, OnlyScopedAnswersApply, NothingIsGuessed, CeilingsHold

LEMMA VerifiedKeeps ==
    ASSUME IInv, Verified
    PROVE  IInv'
<1> USE DEF IInv
<1>1. Presented(headers) \in Token /\ token' = Presented(headers)
  BY PresentedInEveryHeader DEF Verified, Underway, TypeOK
<1>2. token' # NoToken /\ UNCHANGED <<configured, headers, named>>
  BY <1>1, RequestContextAssumption DEF Verified
<1>3. CASE configured
  BY <1>1, <1>2, <1>3
    DEF Verified, TypeOK, Underway, OnlyScopedAnswersApply, NothingIsGuessed, CeilingsHold
<1>4. CASE ~configured
  <2>1. Proceed("deployment", NoAnswer, Deployment) /\ UNCHANGED asked
    BY <1>4 DEF Verified
  <2>2. /\ source' = "deployment" /\ resolved' = NoAnswer /\ prefs' = Deployment
        /\ prefs' \in Preferences
        /\ profile' \in Profile \cup {NoProfile}
        /\ at' \in {"ready", "unavailable"}
    BY <2>1, FallbackType, ProceedType
  <2>3. TypeOK'
    BY <1>1, <1>2, <2>1, <2>2 DEF TypeOK
  <2>4. CeilingsHold'
    BY <2>2, RequestContextAssumption DEF CeilingsHold, Deployment
  <2>5. Underway' /\ OnlyScopedAnswersApply' /\ NothingIsGuessed'
    BY <1>1, <1>2, <1>4, <2>2 DEF Underway, OnlyScopedAnswersApply, NothingIsGuessed
  <2> QED
    BY <2>3, <2>4, <2>5
<1> QED
  BY <1>3, <1>4

(* The first read: an answer is applied at once only if it was scoped, or  *)
(* if it leaves the request without a profile.                             *)
LEMMA ReadKeeps ==
    ASSUME IInv, NEW a \in Answer, Read(a)
    PROVE  IInv'
<1>1. CASE named = NoProfile /\ DefaultProfile(a) # NoProfile
  <2>1. DefaultProfile(a) \in Profile \cup {NoProfile}
    BY RequestContextAssumption DEF DefaultProfile
  <2> QED
    BY <1>1, <2>1
      DEF IInv, Read, TypeOK, Underway, OnlyScopedAnswersApply, NothingIsGuessed, CeilingsHold
<1>2. CASE ~(named = NoProfile /\ DefaultProfile(a) # NoProfile)
  <2>1. Apply(a) /\ at = "reading"
    BY <1>2 DEF Read
  <2>2. DefaultProfile(a) = NoProfile \/ asked # NoProfile
    BY <1>2, <2>1 DEF IInv, Underway
  <2> QED
    BY <2>1, <2>2, ApplyKeeps
<1> QED
  BY <1>1, <1>2

LEMMA RereadKeeps ==
    ASSUME IInv, NEW a \in Answer, Reread(a)
    PROVE  IInv'
<1>1. Apply(a) /\ at = "rereading" /\ asked # NoProfile
  BY DEF Reread, IInv, Underway
<1> QED
  BY <1>1, ApplyKeeps

(* An outage leaves the profile unknown, so only a request that names one  *)
(* goes on.                                                                *)
LEMMA SettingsUnavailableKeeps ==
    ASSUME IInv, SettingsUnavailable
    PROVE  IInv'
<1> USE DEF IInv
<1>1. /\ Proceed("outage", NoAnswer, Outage)
      /\ UNCHANGED <<configured, headers, token, named, asked>>
  BY DEF SettingsUnavailable
<1>2. /\ source' = "outage" /\ resolved' = NoAnswer /\ prefs' = Outage
      /\ prefs' \in Preferences
      /\ profile' \in Profile \cup {NoProfile}
      /\ at' \in {"ready", "unavailable"}
      /\ at' = "ready" => profile' # NoProfile
      /\ profile' = IF named # NoProfile THEN named ELSE Outage.profile
  BY <1>1, FallbackType, ProceedType
<1>3. Outage.profile = NoProfile /\ Outage.explicit = "unknown" /\ Outage.cap = Ceiling
  BY DEF Outage, Deployment
<1>4. TypeOK' /\ Underway' /\ OnlyScopedAnswersApply'
  BY <1>1, <1>2 DEF SettingsUnavailable, TypeOK, Underway, OnlyScopedAnswersApply
<1>5. NothingIsGuessed'
  BY <1>1, <1>2, <1>3 DEF NothingIsGuessed
<1>6. CeilingsHold'
  BY <1>2, <1>3, RequestContextAssumption DEF CeilingsHold
<1> QED
  BY <1>4, <1>5, <1>6

-----------------------------------------------------------------------------
(* The invariant and what follows from it.                                 *)

(* A request begins in a state of the invariant. *)
LEMMA InitEstablishes == Init => IInv
<1> SUFFICES ASSUME Init PROVE IInv
  OBVIOUS
<1>1. TypeOK
  BY FallbackType DEF Init, TypeOK, Headers
<1> QED
  BY <1>1 DEF Init, IInv, Underway, OnlyScopedAnswersApply, NothingIsGuessed, CeilingsHold

(* Every step keeps it. *)
LEMMA NextKeeps == IInv /\ [Next]_vars => IInv'
<1> SUFFICES ASSUME IInv, [Next]_vars PROVE IInv'
  OBVIOUS
<1>1. ASSUME NEW h \in Headers, NEW p \in Profile \cup {NoProfile}, Receive(h, p) PROVE IInv'
  BY <1>1, ReceiveKeeps
<1>2. CASE Verified
  BY <1>2, VerifiedKeeps
<1>3. CASE NotVerified \/ KeysUnreachable \/ SettingsRejected
  BY <1>3, StopKeeps DEF NotVerified, KeysUnreachable, SettingsRejected
<1>4. ASSUME NEW a \in Answer, Read(a) PROVE IInv'
  BY <1>4, ReadKeeps
<1>5. ASSUME NEW a \in Answer, Reread(a) PROVE IInv'
  BY <1>5, RereadKeeps
<1>6. CASE SettingsUnavailable
  BY <1>6, SettingsUnavailableKeeps
<1>7. CASE UNCHANGED vars
  BY <1>7 DEF vars, IInv, TypeOK, Underway, OnlyScopedAnswersApply, NothingIsGuessed, CeilingsHold
<1> QED
  BY <1>1, <1>2, <1>3, <1>4, <1>5, <1>6, <1>7 DEF Next

(* The inductive invariant holds throughout every request. *)
THEOREM Invariance == Spec => []IInv
  BY InitEstablishes, NextKeeps, PTL DEF Spec

(* Every variable keeps its type, whatever settings-api answers. *)
THEOREM TypeCorrect == Spec => []TypeOK
<1>1. IInv => TypeOK
  BY DEF IInv
<1> QED
  BY <1>1, Invariance, PTL

(* Settings are read and handlers run only for the one token that was      *)
(* verified.                                                               *)
THEOREM VerifiedTokenOnly == Spec => []OnlyTheVerifiedToken
<1>1. IInv => OnlyTheVerifiedToken
  BY PresentedInEveryHeader DEF IInv, Underway, TypeOK, OnlyTheVerifiedToken
<1> QED
  BY <1>1, Invariance, PTL

(* No handler runs on an answer that named no profile, and a named profile *)
(* gets its own settings.                                                  *)
THEOREM ScopedAnswersOnly == Spec => []OnlyScopedAnswersApply
<1>1. IInv => OnlyScopedAnswersApply
  BY DEF IInv
<1> QED
  BY <1>1, Invariance, PTL

(* Neither the profile nor the leave to play explicit tracks is a guess.   *)
THEOREM GuessesNothing == Spec => []NothingIsGuessed
<1>1. IInv => NothingIsGuessed
  BY DEF IInv
<1> QED
  BY <1>1, Invariance, PTL

(* The deployment's ceilings hold, whatever settings-api answers.          *)
THEOREM CeilingsKept == Spec => []CeilingsHold
<1>1. IInv => CeilingsHold
  BY DEF IInv
<1> QED
  BY <1>1, Invariance, PTL
===============================================================================
