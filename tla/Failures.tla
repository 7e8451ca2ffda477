------------------------------- MODULE Failures -------------------------------
(***************************************************************************)
(* What a request or a job is told of a failure elsewhere: from what       *)
(* keyring or Spotify answered to an error of errors.py (keyring.py,       *)
(* client.py), and from that to a status (api/errors.py).  Pure tables;    *)
(* RequestTrace carries them to the caller.                                *)
(***************************************************************************)

ServiceError ==
    {"batch_too_large", "confirmation_timeout", "job_not_found", "user_token_rejected",
     "credential_unavailable", "keyring_unavailable", "preferences_unavailable",
     "spotify_auth_error", "premium_required", "explicit_not_allowed", "no_active_device",
     "spotify_rate_limit_error", "spotify_unavailable_error", "track_lookup_error"}

(* keyring's answer to a fetch.  An answer whose headers are not texts, or *)
(* whose expiry has no offset, is foreseen nowhere and breaks the request. *)
KeyringError ==
    [keyring_unreachable |-> "keyring_unavailable",     \* no answer
     keyring_refuses     |-> "user_token_rejected",     \* 401, 403
     keyring_unconnected |-> "credential_unavailable",  \* 404
     keyring_unusable    |-> "credential_unavailable",  \* 503
     keyring_failing     |-> "keyring_unavailable",     \* any other failure
     keyring_garbled     |-> "keyring_unavailable",     \* no JSON, or no headers in it
     keyring_odd         |-> "broken"]

(* Spotify's last answer to a call that raises, after the retries and the  *)
(* one resolving anew.  A 404 means that no device is awake if the call    *)
(* was one to the player, or if Spotify says so.                           *)
SpotifyError ==
    [spotify_unreachable  |-> "spotify_unavailable_error",
     spotify_unauthorized |-> "spotify_auth_error",         \* 401, again
     spotify_premium      |-> "premium_required",           \* 403 that says so
     spotify_forbidden    |-> "spotify_auth_error",         \* any other 403
     spotify_no_device    |-> "no_active_device",           \* 404
     spotify_missing      |-> "spotify_unavailable_error",  \* 404 elsewhere
     spotify_limited      |-> "spotify_rate_limit_error",   \* 429
     spotify_failing      |-> "spotify_unavailable_error",  \* 5xx
     spotify_rejects      |-> "spotify_unavailable_error",  \* any other 4xx
     spotify_garbled      |-> "spotify_unavailable_error"]  \* no JSON

Cause == DOMAIN KeyringError \cup DOMAIN SpotifyError \cup {"unforeseen"}

ErrorOf(cause) ==
    CASE cause \in DOMAIN KeyringError -> KeyringError[cause]
      [] cause \in DOMAIN SpotifyError -> SpotifyError[cause]
      [] OTHER -> "broken"

(* _DOMAIN_STATUS.  An error that is not in it has no handler.             *)
StatusForgettingOne ==
    [user_token_rejected |-> 401, premium_required |-> 403, explicit_not_allowed |-> 403,
     job_not_found |-> 404, batch_too_large |-> 422,
     credential_unavailable |-> 502, track_lookup_error |-> 502,
     keyring_unavailable |-> 503, preferences_unavailable |-> 503, spotify_auth_error |-> 503,
     spotify_rate_limit_error |-> 503, spotify_unavailable_error |-> 503,
     confirmation_timeout |-> 504]

Status ==
    [user_token_rejected |-> 401, premium_required |-> 403, explicit_not_allowed |-> 403,
     job_not_found |-> 404, no_active_device |-> 409, batch_too_large |-> 422,
     credential_unavailable |-> 502, track_lookup_error |-> 502,
     keyring_unavailable |-> 503, preferences_unavailable |-> 503, spotify_auth_error |-> 503,
     spotify_rate_limit_error |-> 503, spotify_unavailable_error |-> 503,
     confirmation_timeout |-> 504]

(* What the caller can do about it, which the documents promise that the   *)
(* status tells: send another token, buy Premium, wake a device, connect   *)
(* Spotify in keyring, quote the request id, or try again.                 *)
Remedy(cause) ==
    CASE cause = "keyring_refuses" -> 401
      [] cause = "spotify_premium" -> 403
      [] cause = "spotify_no_device" -> 409
      [] cause \in {"keyring_odd", "unforeseen"} -> 500
      [] cause \in {"keyring_unconnected", "keyring_unusable"} -> 502
      [] OTHER -> 503
===============================================================================
