------------------------------ MODULE Settings ------------------------------
(***************************************************************************)
(* The validation of AppSettings.  A settings value is a record with one   *)
(* field per setting some check reads.  Strings are abstracted to what the *)
(* checks tell apart, a setting that is only tested for being non-empty is *)
(* a BOOLEAN, and numbers stay numbers because the checks are about their  *)
(* ends.                                                                   *)
(*                                                                         *)
(* Pydantic runs the two `after' validators in order and stops at the      *)
(* first that raises, so the production errors are reported only once the  *)
(* errors of every environment are gone.                                   *)
(***************************************************************************)
EXTENDS Integers, FiniteSets

Environments == {"development", "test", "production"}

\* The settings the checks read, with the values of each.
SettingsType ==
    [environment : Environments,
     jwt_secret_key : {"unset", "short", "long"},
     jwt_algorithm : {"HS256", "RS256", "HS512", "none"},
     jwt_leeway_seconds : Int, jwt_issuer : BOOLEAN, jwt_audience : BOOLEAN,
     cookie_secure : BOOLEAN, cookie_samesite : {"lax", "strict", "none"},
     return_internal_tokens : BOOLEAN, redis_url : BOOLEAN,
     rate_limit_enabled : BOOLEAN, require_distributed_rate_limit : BOOLEAN,
     seed_on_startup : BOOLEAN, bootstrap_email : BOOLEAN,
     bootstrap_password : BOOLEAN, token_purge_interval_minutes : Int,
     rbac_enabled : BOOLEAN, email_backend : {"console"},
     jobs_backend : {"in_process"},
     storage_enabled : BOOLEAN, storage_backend : {"local", "s3"},
     storage_local_path : BOOLEAN, storage_s3_bucket : BOOLEAN,
     outbox_enabled : BOOLEAN, relay_interval_seconds : Int,
     claim_batch_size : Int, max_attempts : Int, retry_base_seconds : Int,
     retry_max_seconds : Int, retention_delivered_days : Int,
     retention_failed_days : Int, prune_batch_size : Int,
     enable_docs : BOOLEAN, cors_origins : SUBSET {"*", "public", "other"},
     trusted_hosts : {"listed", "wildcard"}, trusted_proxy_ips : BOOLEAN,
     public_url : {"unset", "http", "no_host", "https"},
     otel_exporter_endpoint : BOOLEAN, sampler_percent : Int,
     probe_timeout_ms : Int, shutdown_timeout_ms : Int]

\* The ceiling of the leeway, MAX_JWT_LEEWAY_SECONDS, and the accepted
\* algorithms, JWT_ALGORITHM_WHITELIST.
MaxJwtLeewaySeconds == 60
JwtAlgorithmWhitelist == {"HS256", "RS256"}

\* The errors whose condition holds: es is a set of <<name, condition>>.
Raised(es) == {e[1] : e \in {x \in es : x[2]}}

---------------------------------------------------------------------------
(* Checks of every environment. *)

StorageValidate(s) ==
    Raised({<<"local_path", s.storage_enabled /\ s.storage_backend = "local"
                            /\ ~s.storage_local_path>>,
            <<"s3_bucket", s.storage_enabled /\ s.storage_backend = "s3"
                           /\ ~s.storage_s3_bucket>>})

\* A retention of failed rows shorter than that of delivered ones is only
\* warned about.
OutboxValidate(s) ==
    Raised({<<"relay_interval", s.relay_interval_seconds <= 0>>,
            <<"claim_batch", s.claim_batch_size <= 0>>,
            <<"max_attempts", s.max_attempts <= 0>>,
            <<"retry_base", s.retry_base_seconds <= 0>>,
            <<"retry_max", s.retry_max_seconds <= 0>>,
            <<"retry_order", s.retry_max_seconds < s.retry_base_seconds>>,
            <<"retention_delivered", s.retention_delivered_days <= 0>>,
            <<"retention_failed", s.retention_failed_days <= 0>>,
            <<"prune_batch", s.prune_batch_size <= 0>>})

ObservabilityValidate(s) ==
    Raised({<<"sampler", s.sampler_percent \notin 0..100>>,
            <<"probe_timeout", ~(0 < s.probe_timeout_ms
                                 /\ s.probe_timeout_ms <= 30000)>>,
            <<"shutdown_timeout", ~(0 < s.shutdown_timeout_ms
                                    /\ s.shutdown_timeout_ms <= 300000)>>})

\* The email and jobs checks of every environment are empty.
AuthSettingsErrors(s) ==
    Raised({<<"algorithm", s.jwt_algorithm \notin JwtAlgorithmWhitelist>>,
            <<"leeway", s.jwt_leeway_seconds \notin 0..MaxJwtLeewaySeconds>>})
    \cup StorageValidate(s) \cup OutboxValidate(s) \cup ObservabilityValidate(s)

---------------------------------------------------------------------------
(* Checks of production only. *)

AuthenticationProduction(s) ==
    Raised({<<"secret", s.jwt_secret_key = "unset">>,
            <<"short_secret", s.jwt_secret_key = "short"
                              /\ s.jwt_algorithm \in {"HS256", "HS512"}>>,
            <<"issuer", ~s.jwt_issuer>>,
            <<"audience", ~s.jwt_audience>>,
            <<"cookie_secure", ~s.cookie_secure>>,
            <<"samesite", s.cookie_samesite = "none">>,
            <<"internal_tokens", s.return_internal_tokens>>,
            <<"redis", ~s.redis_url>>})

AuthorizationProduction(s) == Raised({<<"rbac", ~s.rbac_enabled>>})

EmailProduction(s) == Raised({<<"email", s.email_backend = "console">>})

JobsProduction(s) == Raised({<<"jobs", s.jobs_backend = "in_process">>})

StorageProduction(s) ==
    Raised({<<"local_storage", s.storage_enabled /\ s.storage_backend = "local">>})

OutboxProduction(s) == Raised({<<"outbox", ~s.outbox_enabled>>})

\* The host of the public URL is looked up among the origins that carry a
\* scheme: a bare "*" is not one.
ApiProduction(s) ==
    Raised({<<"cors", "*" \in s.cors_origins>>,
            <<"docs", s.enable_docs>>,
            <<"hosts", s.trusted_hosts = "wildcard">>,
            <<"proxies", ~s.trusted_proxy_ips>>,
            <<"public_url", s.public_url \in {"unset", "http", "no_host"}>>,
            <<"public_url_host", s.public_url = "https"
                                 /\ "public" \notin s.cors_origins \ {"*"}>>})

\* The users, database and observability features have no production check.
ProductionErrors(s) ==
    IF s.environment # "production" THEN {}
    ELSE AuthenticationProduction(s) \cup AuthorizationProduction(s)
         \cup EmailProduction(s) \cup JobsProduction(s) \cup StorageProduction(s)
         \cup OutboxProduction(s) \cup ApiProduction(s)

\* What constructing AppSettings reports.
SettingsErrors(s) ==
    IF AuthSettingsErrors(s) # {} THEN AuthSettingsErrors(s) ELSE ProductionErrors(s)

---------------------------------------------------------------------------
(* Values derived from the settings. *)

\* The retention of the dedup marks.
DedupRetentionSeconds(s) == 2 * s.retry_max_seconds

DivisorsOf60 == {d \in 1..60 : 60 % d = 0}

Abs(n) == IF n < 0 THEN -n ELSE n

\* The divisor of 60 the two cron builders schedule at: the nearest one, and
\* the larger of two equally near.
SnapToDivisor_Below(n) ==
    CHOOSE d \in DivisorsOf60 : d <= n /\ \A e \in DivisorsOf60 : e <= n => e <= d
SnapToDivisor(n) ==
    LET rounded == IF n < 1 THEN 1 ELSE n
        distance(d) == Abs(d - rounded)
    IN  CHOOSE d \in DivisorsOf60 :
            \A e \in DivisorsOf60 \ {d} :
                \/ distance(d) < distance(e)
                \/ distance(d) = distance(e) /\ d > e

\* The descriptors of the relay and of the maintenance sweeps, with their
\* period in seconds.
RelayCronSpecs(s) ==
    IF ~s.outbox_enabled THEN {}
    ELSE {[name |-> "outbox-relay", every |-> SnapToDivisor(s.relay_interval_seconds)],
          [name |-> "outbox-prune", every |-> 3600]}

MaintenanceCronSpecs(s) ==
    IF s.token_purge_interval_minutes <= 0 THEN {}
    ELSE {[name |-> "auth-purge-tokens",
           every |-> SnapToDivisor(s.token_purge_interval_minutes) * 60]}
=============================================================================
