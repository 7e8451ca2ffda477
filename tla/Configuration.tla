---------------------------- MODULE Configuration ----------------------------
(***************************************************************************)
(* config.py: from the environment of the process to its settings, or to a *)
(* refusal to start.  Pure operators; Service uses them in its first step. *)
(*                                                                         *)
(* An environment maps the variables that are set to what they are set to. *)
(* A variable SPOTIFY_API_X that names a setting is the setting's own name *)
(* here; the others are bare names of before the prefix, prefixed names of *)
(* no setting, and names of other software.  A whole number stands for     *)
(* itself, a positive fraction for the next one up, a negative one for -1; *)
(* a text is blank, or one that its setting's rule allows ("good") or not  *)
(* ("bad").                                                                *)
(***************************************************************************)
EXTENDS Integers

CONSTANTS Bare,     \* LEGACY_NAMES: read before the prefix, now refused
          Typo,     \* prefixed names of no setting
          Foreign   \* names of other software

(* The numeric settings, each with the values it may take.                 *)
Limits ==
    [keyring_timeout_seconds              |-> 1..60,
     jwks_cache_seconds                   |-> 1..86400,
     jwks_min_refetch_seconds             |-> 1..3600,
     credential_cache_skew_seconds        |-> 0..600,
     credential_cache_default_ttl_seconds |-> 0..3600,
     request_timeout_seconds              |-> 1..120,
     max_retries                          |-> 0..10,
     retry_backoff_base_seconds           |-> 0..10,
     max_concurrency                      |-> 1..64,
     max_batch_size                       |-> 1..200,
     confirm_timeout_seconds              |-> 1..300,
     confirm_poll_interval_seconds        |-> 1..30,
     job_ttl_seconds                      |-> 1..86400,
     port                                 |-> 1..65535]

Number == DOMAIN Limits

(* Texts that may be anything, and texts with a rule of their own: a token *)
(* as long as keyring wants it, an exact audience, a market of two letters,*)
(* one word of a list.                                                     *)
FreeText == {"keyring_base_url", "keyring_issuer", "keyring_default_profile",
             "settings_api_base_url", "spotify_base_url", "host"}

RuledText == {"keyring_service_token", "keyring_audience", "settings_api_token",
              "default_market", "environment", "log_level", "log_format"}

Setting == Number \cup FreeText \cup RuledText

Required == {"keyring_base_url", "keyring_service_token"}

(* A line NAME= in a .env file leaves these three as they were.            *)
BlankIsUnset == {"settings_api_base_url", "settings_api_token", "default_market"}

ASSUME ConfigurationAssumption ==
    /\ Bare \cap Setting = {} /\ Typo \cap Setting = {} /\ Foreign \cap Setting = {}
    /\ Foreign \cap (Bare \cup Typo) = {}

Given(environ, s) == s \in DOMAIN environ /\ (s \in BlankIsUnset => environ[s] # "blank")

(* check_for_unknown_env_vars, before any setting is parsed. *)
MisspelledOnly(environ) == DOMAIN environ \cap Typo

Unknown(environ) == DOMAIN environ \cap (Bare \cup Typo)

Allowed(s, raw) ==
    IF s \in Number THEN raw \in Limits[s]
    ELSE s \in FreeText \/ raw = "good" \/ (s \in BlankIsUnset /\ raw = "blank")

(* Half a settings-api configuration is refused. *)
SettingsApiIsWhole(environ) ==
    Given(environ, "settings_api_base_url") <=> Given(environ, "settings_api_token")

Accepts(environ) ==
    /\ Unknown(environ) = {}
    /\ Required \subseteq DOMAIN environ
    /\ \A s \in Setting \cap DOMAIN environ : Allowed(s, environ[s])
    /\ SettingsApiIsWhole(environ)

(* The settings that were given; the others have their defaults.           *)
InForceAsWritten(environ) == environ

InForce(environ) == [s \in {s \in Setting : Given(environ, s)} |-> environ[s]]

(* Settings.settings_api: a person's settings are read, or everybody has   *)
(* this deployment's.                                                      *)
ReadsSettings(settings) == {"settings_api_base_url", "settings_api_token"} \subseteq DOMAIN settings
===============================================================================
