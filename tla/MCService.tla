------------------------------ MODULE MCService ------------------------------
(***************************************************************************)
(* Small instances of Service for TLC: two requests of two accounts that   *)
(* may bring the same id, two good environments, and environments that     *)
(* differ from a good one in one place.                                    *)
(***************************************************************************)
EXTENDS Service, TLC

CONSTANTS r1, r2, traced, noid, alice, bob, nobody

Callers == r1 :> alice @@ r2 :> bob

Plain == "keyring_base_url" :> "good" @@ "keyring_service_token" :> "good"

(* With settings-api, values at the ends of their ranges, a blank and a    *)
(* name of other software.                                                 *)
Personal ==
    Plain @@ "settings_api_base_url" :> "good" @@ "settings_api_token" :> "good"
          @@ "default_market" :> "blank" @@ "max_retries" :> 0 @@ "max_batch_size" :> 200
          @@ "PATH" :> "good"

Wrong ==
    Number \X {-1} \cup RuledText \X {"bad"}
        \cup {<<"max_retries", 11>>, <<"max_batch_size", 0>>, <<"max_batch_size", 201>>,
              <<"port", 0>>, <<"confirm_timeout_seconds", 301>>,
              <<"keyring_audience", "blank">>, <<"KEYRING_BASE_URL", "good">>,
              <<"SPOTIFY_API_MAX_RETRYS", "good">>}

Without(e, s) == [name \in DOMAIN e \ {s} |-> e[name]]

Environments ==
    {Plain, Personal}
        \cup {(w[1] :> w[2]) @@ Personal : w \in Wrong}
        \cup {Without(Personal, s) :
                s \in Required \cup {"settings_api_base_url", "settings_api_token"}}
        \cup {("settings_api_token" :> "blank") @@ Personal}

(* Paths of up to three steps. *)
Fields ==
    {field \in UNION {[1..n -> {"name", "secret", "odd", "item", "other"}] : n \in 1..3} :
        field[1] \in {"name", "secret"}}
===============================================================================
