---------------------------- MODULE RequestContext ----------------------------
(***************************************************************************)
(* How a request comes by an account, preferences and a profile, before    *)
(* its handler runs: get_user_context of api/dependencies.py and for_token *)
(* of preferences.py.                                                      *)
(*                                                                         *)
(* The steps are cut where the code awaits an answer: keyring's keys, and  *)
(* settings-api once or, when the request names no profile, twice.  What   *)
(* settings-api answers is arbitrary each time, so the person may change   *)
(* a setting in between, and each answer may come from a cache of another  *)
(* age.                                                                    *)
(*                                                                         *)
(* An operator named for what it gets wrong is a faulty variant of the     *)
(* definition below it, kept to show that a property can tell them apart.  *)
(***************************************************************************)
EXTENDS Integers

CONSTANTS Token,      \* user tokens
          NoToken,    \* no such header; of the old header, also an empty one
          NotBearer,  \* an Authorization header of any other kind, or empty
          Profile,    \* keyring profiles
          NoProfile,  \* none named, or not known
          Home,       \* keyring_default_profile
          Country,    \* market codes
          NoCountry,  \* a market of None: Spotify decides
          HomeMarket, \* default_market of the configuration
          Cap,        \* max_batch_size and confirm_timeout_seconds
          Ceiling,    \* what the configuration allows of each Cap
          Mode,       \* shuffle_on_play and repeat_mode
          Missing,    \* settings-api has no such key
          Refused,    \* reading the key raises SettingsRefused
          Garbled,    \* a value of the wrong shape
          Answer      \* what a resolve may answer

Unreadable == {Missing, Refused, Garbled}

AnyAnswer == [profile  : Profile \cup Unreadable,
              explicit : {"yes", "no"} \cup Unreadable,
              cap      : [Cap -> Nat \cup Unreadable],
              mode     : [Mode -> {"on", "off"} \cup Unreadable],
              market   : Country \cup {NoCountry} \cup Unreadable]

ASSUME RequestContextAssumption ==
    /\ NoToken \notin Token /\ NotBearer \notin Token \cup {NoToken}
    /\ NoProfile \notin Profile
    /\ Home \in Profile
    /\ HomeMarket \in Country \cup {NoCountry}
    /\ Ceiling \in [Cap -> Nat \ {0}]
    /\ Unreadable \cap (Profile \cup Country \cup {NoCountry}) = {}
    /\ Unreadable \cap Nat = {}
    /\ Unreadable \cap {"yes", "no", "on", "off"} = {}
    /\ Refused # Missing /\ Refused # Garbled /\ Missing # Garbled
    /\ Answer \subseteq AnyAnswer

VARIABLES at,         \* where the request has got to, or how it was refused
          configured, \* settings-api is configured in this deployment
          headers,    \* Authorization and the legacy header
          token,      \* the token that was verified
          named,      \* X-Keyring-Profile
          asked,      \* the profile that the last resolve named
          resolved,   \* the answer that the preferences were made from
          source,     \* history: what the preferences were made from
          prefs,      \* request.state.preferences
          profile     \* the profile of the UserContext

vars == <<at, configured, headers, token, named, asked, resolved, source, prefs, profile>>

-----------------------------------------------------------------------------
(* Which token a request presents. *)

Headers == [auth : Token \cup {NoToken, NotBearer}, legacy : Token \cup {NoToken}]

Contradictory(h) == h.auth \in Token /\ h.legacy \in Token /\ h.legacy # h.auth

PresentedFirst(h) == IF h.auth = NotBearer THEN NoToken
                     ELSE IF h.legacy \in Token THEN h.legacy ELSE h.auth

Presented(h) == IF h.auth = NotBearer \/ Contradictory(h) THEN NoToken
                ELSE IF h.auth \in Token THEN h.auth ELSE h.legacy

-----------------------------------------------------------------------------
(* Preferences made from the configuration and an answer.                  *)

Preferences == [market   : Country \cup {NoCountry},
                cap      : [Cap -> Nat],
                profile  : Profile \cup {NoProfile},
                mode     : [Mode -> BOOLEAN],
                explicit : {"allowed", "refused", "unknown"}]

Deployment == [market |-> HomeMarket, cap |-> Ceiling, profile |-> Home,
               mode |-> [m \in Mode |-> FALSE], explicit |-> "allowed"]

(* An outage: the configuration, but neither the profile nor explicit      *)
(* tracks are guessed at.                                                  *)
OutageAsDeployment == Deployment

Outage == [Deployment EXCEPT !.profile = NoProfile, !.explicit = "unknown"]

DefaultProfile(a) == IF a.profile = Refused THEN NoProfile
                     ELSE IF a.profile \in Profile THEN a.profile ELSE Home

ExplicitWhenClear(a) == IF a.explicit = "no" THEN "refused" ELSE "allowed"

Explicit(a) == IF a.explicit \in {"yes", Missing} THEN "allowed"
               ELSE IF a.explicit = "no" THEN "refused" ELSE "unknown"

MarketAsGiven(a) == IF a.market = Missing THEN HomeMarket ELSE a.market

Market(a) == IF a.market \in Country \cup {NoCountry} THEN a.market ELSE HomeMarket

(* A person may narrow a ceiling and never raise it; zero is no choice.    *)
Chosen(c, v) == IF v \in Nat \ {0} THEN v ELSE Ceiling[c]

Narrowed(c, v) == IF v \in Nat \ {0} /\ v < Ceiling[c] THEN v ELSE Ceiling[c]

(* Any key but these two refusing to be read fails the request. *)
MustNotBeGuessed(a) ==
    \/ a.market = Refused
    \/ \E c \in Cap : a.cap[c] = Refused
    \/ \E m \in Mode : a.mode[m] = Refused

Applied(a) == [market   |-> Market(a),
               cap      |-> [c \in Cap |-> Narrowed(c, a.cap[c])],
               profile  |-> DefaultProfile(a),
               mode     |-> [m \in Mode |-> a.mode[m] = "on"],
               explicit |-> Explicit(a)]

-----------------------------------------------------------------------------

NoAnswer == [profile |-> Missing, explicit |-> Missing, cap |-> [c \in Cap |-> Missing],
             mode |-> [m \in Mode |-> Missing], market |-> Missing]

Init ==
    /\ at = "idle"
    /\ configured \in BOOLEAN
    /\ headers = [auth |-> NoToken, legacy |-> NoToken]
    /\ token = NoToken /\ named = NoProfile /\ asked = NoProfile
    /\ resolved = NoAnswer /\ source = "none"
    /\ prefs = Deployment /\ profile = NoProfile

Stop(how) ==
    /\ at' = how
    /\ UNCHANGED <<configured, headers, token, named, asked, resolved, source, prefs, profile>>

(* The headers are read.  One message for every token that is refused.     *)
Receive(h, p) ==
    /\ at = "idle"
    /\ headers' = h /\ named' = p
    /\ at' = IF Presented(h) = NoToken THEN "unauthorized" ELSE "verifying"
    /\ UNCHANGED <<configured, token, asked, resolved, source, prefs, profile>>

(* The handler runs with these preferences, unless no profile is known:    *)
(* Preferences.profile.                                                    *)
Proceed(from, a, q) ==
    /\ source' = from /\ resolved' = a /\ prefs' = q
    /\ profile' = IF named # NoProfile THEN named ELSE q.profile
    /\ at' = IF profile' = NoProfile THEN "unavailable" ELSE "ready"

Verified ==
    /\ at = "verifying"
    /\ token' = Presented(headers)
    /\ IF configured
       THEN /\ at' = "reading" /\ asked' = named
            /\ UNCHANGED <<resolved, source, prefs, profile>>
       ELSE Proceed("deployment", NoAnswer, Deployment) /\ UNCHANGED asked
    /\ UNCHANGED <<configured, headers, named>>

NotVerified     == at = "verifying" /\ Stop("unauthorized")
KeysUnreachable == at = "verifying" /\ Stop("unavailable")

(* _apply. *)
Apply(a) ==
    /\ IF MustNotBeGuessed(a)
       THEN at' = "unavailable" /\ UNCHANGED <<resolved, source, prefs, profile>>
       ELSE Proceed("settings", a, Applied(a))
    /\ UNCHANGED <<configured, headers, token, named, asked>>

ReadAccountWide(a) == at = "reading" /\ Apply(a)

(* The first answer.  Without a profile in the request it only says which  *)
(* one to ask for, unless even that could not be read.                     *)
Read(a) ==
    /\ at = "reading"
    /\ IF named = NoProfile /\ DefaultProfile(a) # NoProfile
       THEN /\ at' = "rereading" /\ asked' = DefaultProfile(a)
            /\ UNCHANGED <<configured, headers, token, named, resolved, source, prefs, profile>>
       ELSE Apply(a)

(* The second answer, for the default profile that the first one gave.     *)
Reread(a) == at = "rereading" /\ Apply(a)

(* SettingsUnavailable, from either read. *)
SettingsUnavailable ==
    /\ at \in {"reading", "rereading"}
    /\ Proceed("outage", NoAnswer, Outage)
    /\ UNCHANGED <<configured, headers, token, named, asked>>

(* SettingsRejected: a 401 or 403 to this service is not an outage. *)
SettingsRejected == at \in {"reading", "rereading"} /\ Stop("unavailable")

Next ==
    \/ \E h \in Headers, p \in Profile \cup {NoProfile} : Receive(h, p)
    \/ Verified \/ NotVerified \/ KeysUnreachable
    \/ \E a \in Answer : Read(a)
    \/ \E a \in Answer : Reread(a)
    \/ SettingsUnavailable \/ SettingsRejected

Spec == Init /\ [][Next]_vars

-----------------------------------------------------------------------------

(* Every variable has its type. *)
TypeOK ==
    /\ at \in {"idle", "verifying", "reading", "rereading", "ready",
               "unauthorized", "unavailable"}
    /\ configured \in BOOLEAN
    /\ headers \in Headers
    /\ token \in Token \cup {NoToken}
    /\ named \in Profile \cup {NoProfile}
    /\ asked \in Profile \cup {NoProfile}
    /\ resolved \in Answer \cup {NoAnswer}
    /\ source \in {"none", "deployment", "settings", "outage"}
    /\ prefs \in Preferences
    /\ profile \in Profile \cup {NoProfile}

(* Settings are read, and a handler runs, only for a token that was        *)
(* verified, and a request that carries two tokens is refused: nobody is   *)
(* served under one header what was checked under the other.               *)
OnlyTheVerifiedToken ==
    at \in {"reading", "rereading", "ready"} =>
        /\ token \in Token
        /\ headers.auth \in {token, NoToken}
        /\ headers.legacy \in {token, NoToken}

(* Settings belong to profiles, and an answer to a resolve that named none *)
(* holds only defaults for them.  No handler runs on such an answer, and   *)
(* a request that names a profile gets the settings of that profile.       *)
OnlyScopedAnswersApply ==
    at = "ready" /\ source = "settings" =>
        /\ asked # NoProfile
        /\ named # NoProfile => asked = named /\ profile = named

(* Neither an outage nor a key that must not be read is answered with a    *)
(* guess: a profile that was not named comes from an answer that did not   *)
(* refuse it (one that has none, or one of the wrong shape, leaves it to   *)
(* the configuration), and explicit tracks are allowed only by an answer   *)
(* that says so or does not know the setting.                              *)
NothingIsGuessed ==
    at = "ready" /\ configured =>
        /\ named = NoProfile => source = "settings" /\ resolved.profile # Refused
        /\ prefs.explicit = "allowed" =>
              source = "settings" /\ resolved.explicit \in {"yes", Missing}

(* Whatever settings-api holds, the preferences stay within the ceilings   *)
(* of the deployment and leave a batch and a timeout that can be used.     *)
CeilingsHold ==
    at = "ready" => \A c \in Cap : prefs.cap[c] \in 1..Ceiling[c]

-----------------------------------------------------------------------------
(* A claim of the documentation that the code does not keep; see the       *)
(* README.                                                                 *)

(* "Each request is resolved for the profile it runs as"                   *)
(* (docs/operations.md).                                                   *)
ResolvedForItsProfile == at = "ready" /\ source = "settings" => asked = profile
===============================================================================
