------------------------------ MODULE MCProcess ------------------------------
(***************************************************************************)
(* Instance of Process: a base configuration that starts in every          *)
(* environment but production, and one setting (or one pair of settings    *)
(* that are read together) changed at a time.                              *)
(***************************************************************************)
EXTENDS Process

CONSTANTS r1, r2

MCRequests == {r1, r2}

Base(env) ==
    [environment |-> env, jwt_secret_key |-> "long", jwt_algorithm |-> "HS256",
     jwt_leeway_seconds |-> 10, jwt_issuer |-> TRUE, jwt_audience |-> TRUE,
     cookie_secure |-> TRUE, cookie_samesite |-> "strict",
     return_internal_tokens |-> FALSE, redis_url |-> TRUE, rate_limit_enabled |-> TRUE,
     require_distributed_rate_limit |-> TRUE, seed_on_startup |-> FALSE,
     bootstrap_email |-> FALSE, bootstrap_password |-> FALSE,
     token_purge_interval_minutes |-> 60, rbac_enabled |-> TRUE,
     email_backend |-> "console", jobs_backend |-> "in_process",
     storage_enabled |-> TRUE, storage_backend |-> "s3", storage_local_path |-> FALSE,
     storage_s3_bucket |-> TRUE, outbox_enabled |-> TRUE, relay_interval_seconds |-> 5,
     claim_batch_size |-> 100, max_attempts |-> 8, retry_base_seconds |-> 30,
     retry_max_seconds |-> 900, retention_delivered_days |-> 7,
     retention_failed_days |-> 30, prune_batch_size |-> 1000, enable_docs |-> FALSE,
     cors_origins |-> {"public"}, trusted_hosts |-> "listed", trusted_proxy_ips |-> TRUE,
     public_url |-> "https", otel_exporter_endpoint |-> TRUE, sampler_percent |-> 10,
     probe_timeout_ms |-> 1000, shutdown_timeout_ms |-> 30000]

\* What the builders and the serving process read.
ComposedChanges(b) ==
    {[b EXCEPT !.jwt_secret_key = k] : k \in {"unset", "short"}}
    \cup {[b EXCEPT !.redis_url = FALSE], [b EXCEPT !.otel_exporter_endpoint = FALSE],
          [b EXCEPT !.outbox_enabled = FALSE]}
    \cup {[b EXCEPT !.storage_enabled = e, !.storage_backend = k,
                    !.storage_local_path = p, !.storage_s3_bucket = ~p] :
              e \in BOOLEAN, k \in {"local", "s3"}, p \in BOOLEAN}
    \cup {[b EXCEPT !.seed_on_startup = TRUE, !.bootstrap_email = e,
                    !.bootstrap_password = p] : e \in BOOLEAN, p \in BOOLEAN}

\* What every environment checks.
CheckedChanges(b) ==
    {[b EXCEPT !.jwt_algorithm = a] : a \in {"RS256", "HS512", "none"}}
    \cup {[b EXCEPT !.jwt_leeway_seconds = n] : n \in {-1, 0, 60, 61}}
    \cup {[b EXCEPT !.claim_batch_size = 0],
          [b EXCEPT !.max_attempts = 0], [b EXCEPT !.max_attempts = 1],
          [b EXCEPT !.retry_base_seconds = 0], [b EXCEPT !.retry_base_seconds = 900],
          [b EXCEPT !.retry_base_seconds = 901],
          [b EXCEPT !.retry_base_seconds = 0, !.retry_max_seconds = 0],
          [b EXCEPT !.retention_delivered_days = 0], [b EXCEPT !.retention_failed_days = 0],
          [b EXCEPT !.retention_failed_days = 1], [b EXCEPT !.prune_batch_size = 0]}
    \cup {[b EXCEPT !.sampler_percent = n] : n \in {-1, 0, 100, 101}}
    \cup {[b EXCEPT !.probe_timeout_ms = n] : n \in {0, 30000, 30001}}
    \cup {[b EXCEPT !.shutdown_timeout_ms = n] : n \in {0, 300000, 300001}}

\* Intervals on, between and beyond the divisors of 60.
IntervalChanges(b) ==
    {[b EXCEPT !.token_purge_interval_minutes = n] : n \in {-1, 0, 1, 7, 9, 11, 45, 90}}
    \cup {[b EXCEPT !.relay_interval_seconds = n] : n \in {0, 1, 8, 13, 25, 61}}

\* What only production checks.
ProductionChanges(b) ==
    {[b EXCEPT !.jwt_issuer = FALSE], [b EXCEPT !.jwt_audience = FALSE],
     [b EXCEPT !.cookie_secure = FALSE], [b EXCEPT !.cookie_samesite = "none"],
     [b EXCEPT !.return_internal_tokens = TRUE], [b EXCEPT !.rbac_enabled = FALSE],
     [b EXCEPT !.enable_docs = TRUE], [b EXCEPT !.trusted_hosts = "wildcard"],
     [b EXCEPT !.trusted_proxy_ips = FALSE], [b EXCEPT !.cors_origins = {"*"}]}
    \cup {[b EXCEPT !.public_url = u] : u \in {"unset", "http", "no_host"}}

\* A change that only the validators and the cron builders read is offered to
\* the worker, which is built by the same settings and does not serve.
MCOffered ==
    LET dev == Base("development") prod == Base("production")
    IN  [kind : {"web", "worker"},
         settings : {dev} \cup ComposedChanges(dev) \cup {prod}]
        \cup [kind : {"worker"},
              settings : {Base("test")} \cup CheckedChanges(dev) \cup IntervalChanges(dev)
                         \cup ComposedChanges(prod) \cup CheckedChanges(prod)
                         \cup ProductionChanges(prod)]
=============================================================================
