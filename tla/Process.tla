------------------------------- MODULE Process -------------------------------
(***************************************************************************)
(* The life of one process of the application: the web process (main.py),  *)
(* composed step by step in the lifespan, served, drained and finalised,   *)
(* and the worker process (worker.py), which builds the same composition   *)
(* without a runtime and exits.  The two share the builders; Plan gives    *)
(* the order in which each calls them.                                     *)
(*                                                                         *)
(* The composition runs without an await, so nothing of the process        *)
(* interleaves with it; requests, readiness probes, the end of the drain,  *)
(* the finalizers and threads that outlive the drain do interleave.  A     *)
(* builder that raises before the yield skips the finally block.           *)
(***************************************************************************)
EXTENDS Settings, Sequences

CONSTANTS
    Offered,   \* the deployments: a kind of process and its environment
    Requests   \* requests in flight at the same time

ASSUME OfferedAssumption ==
    Offered \subseteq [kind : {"web", "worker"}, settings : SettingsType]

Jobs == {"send_email", "delete_user_assets", "erase_user"}
Templates == {"password_reset", "verify_email"}
Registries == {"email", "jobs", "authorization"}
Ports == {"revoker", "erase_user", "password_verifier", "job_queue"}
Attributes == {"container", "principal_resolver", "authorization", "auth", "users",
               "email", "jobs", "outbox", "file_storage"}
Deps == {"db", "redis", "s3"}

VARIABLES
    kind,       \* "web" or "worker"
    settings,   \* the environment, as AppSettings
    phase,      \* "starting", "serving", "draining", "closing", "exited", ...
    pc,         \* position in the plan, or in the finalizers while closing
    engine,     \* "none", "open", "disposed"
    repoClosed, \* SQLModelAuthRepository._closed
    clients,    \* open Redis clients: of the limiters, the cache, the app
    tracer,     \* a tracer provider is installed and not shut down
    templates,  \* EmailTemplateRegistry._entries
    handlers,   \* JobHandlerRegistry._handlers
    sealed,     \* the registries that are sealed
    wired,      \* collaborators injected into the users container
    app,        \* app.state: attached attributes, redis_client, engine, ready
    crons,      \* the worker's cron descriptors
    req,        \* the requests
    late,       \* requests whose thread outlived the drain
    probe,      \* the readiness probe in flight, and the dependencies it meets
    faults      \* finalizers that raised

startVars == <<engine, repoClosed, clients, tracer, templates, handlers, sealed,
               wired, app, crons>>
serveVars == <<req, late, probe, faults>>
vars == <<kind, settings, phase, pc, startVars, serveVars>>

\* The order of the builders in the lifespan and in build_worker_scaffold.
WebPlan_ReadyEarly ==
    <<"settings", "engine", "email", "jobs", "file_storage", "handlers", "auth", "wire",
      "erase_handler", "seal_jobs", "authorization", "bootstrap", "redis", "ready",
      "attach">>
WebPlan ==
    <<"settings", "engine", "email", "jobs", "file_storage", "handlers", "auth", "wire",
      "erase_handler", "seal_jobs", "authorization", "bootstrap", "attach", "redis",
      "ready">>
WorkerPlan ==
    <<"settings", "email", "jobs", "engine", "file_storage", "handlers", "wire",
      "erase_handler", "seal_jobs", "crons">>
Plan == [web |-> WebPlan, worker |-> WorkerPlan]

Finalizers_AuthFirst == <<"auth", "ready", "outbox", "jobs", "users", "authorization",
                          "redis", "tracing", "state">>
Finalizers == <<"ready", "outbox", "jobs", "users", "authorization", "auth", "redis",
                "tracing", "state">>

NoProbe == [at |-> "idle", deps |-> {}, pending |-> {}, failed |-> {}, up |-> {},
            seen |-> {}, code |-> 0]

Init ==
    /\ \E deployment \in Offered :
           kind = deployment.kind /\ settings = deployment.settings
    /\ phase = "starting" /\ pc = 1
    /\ engine = "none" /\ repoClosed = FALSE /\ clients = {} /\ tracer = FALSE
    /\ templates = {} /\ handlers = {} /\ sealed = {} /\ wired = {}
    /\ app = [attached |-> {}, redis |-> FALSE, engine |-> FALSE, ready |-> FALSE]
    /\ crons = {}
    /\ req = [r \in Requests |-> "idle"] /\ late = {} /\ probe = NoProbe
    /\ faults = {}

---------------------------------------------------------------------------
(* Composition. *)

At(step) == phase = "starting" /\ Plan[kind][pc] = step

\* The next builder runs; the worker's last one is followed by its drain.
Advance == pc' = pc + 1 /\ UNCHANGED <<kind, settings, phase, serveVars>>

\* An exception leaves the lifespan before the yield: no finalizer runs.
Raise == phase' = "failed" /\ UNCHANGED <<kind, settings, pc, startVars, serveVars>>

\* configure_tracing installs a provider only when an endpoint is configured.
TracerInstalled(s) == s.otel_exporter_endpoint

\* get_settings, then create_app configures tracing; the worker does not.
LoadSettings ==
    /\ At("settings")
    /\ IF SettingsErrors(settings) # {} THEN Raise
       ELSE /\ tracer' = (kind = "web" /\ TracerInstalled(settings))
            /\ UNCHANGED <<engine, repoClosed, clients, templates, handlers, sealed,
                           wired, app, crons>>
            /\ Advance

\* create_engine connects lazily: an unreachable database does not raise here.
BuildEngine ==
    /\ At("engine")
    /\ engine' = "open"
    /\ UNCHANGED <<repoClosed, clients, tracer, templates, handlers, sealed, wired, app,
                   crons>>
    /\ Advance

\* register_template refuses a sealed registry and a name already registered.
TemplatesRegister == "email" \notin sealed /\ templates = {}

\* Both templates are registered, then the registry is sealed.
BuildEmail ==
    /\ At("email")
    /\ IF ~TemplatesRegister THEN Raise
       ELSE /\ templates' = Templates /\ sealed' = sealed \cup {"email"}
            /\ UNCHANGED <<engine, repoClosed, clients, tracer, handlers, wired, app,
                           crons>>
            /\ Advance

\* The jobs and outbox containers: an empty registry behind the in-process queue.
BuildJobs ==
    /\ At("jobs")
    /\ handlers' = {} /\ sealed' = sealed \ {"jobs"}
    /\ UNCHANGED <<engine, repoClosed, clients, tracer, templates, wired, app, crons>>
    /\ Advance

\* The path or the bucket is required even when storage is disabled, and the
\* S3 adapter needs the boto3 extra.
BuildFileStorage ==
    /\ At("file_storage")
    /\ \/ /\ \/ settings.storage_backend = "local" /\ ~settings.storage_local_path
             \/ settings.storage_backend = "s3"
          /\ Raise
       \/ /\ IF settings.storage_backend = "local" THEN settings.storage_local_path
             ELSE settings.storage_s3_bucket
          /\ UNCHANGED startVars
          /\ Advance

\* register_handler refuses a sealed registry and a name already registered.
Registers(names) == "jobs" \notin sealed /\ names \cap handlers = {}

RegisterHandlers ==
    /\ At("handlers")
    /\ LET names == {"send_email", "delete_user_assets"}
       IN  IF ~Registers(names) THEN Raise
           ELSE /\ handlers' = handlers \cup names
                /\ UNCHANGED <<engine, repoClosed, clients, tracer, templates, sealed,
                               wired, app, crons>>
                /\ Advance

\* What build_auth_container refuses: no signing secret, tokens returned in
\* production, and in production a required distributed limiter without Redis.
AuthRefuses(s) ==
    \/ s.jwt_secret_key = "unset"
    \/ s.environment = "production" /\ s.return_internal_tokens
    \/ /\ s.environment = "production" /\ ~s.redis_url
       /\ s.rate_limit_enabled /\ s.require_distributed_rate_limit

BuildAuth ==
    /\ At("auth")
    /\ IF AuthRefuses(settings) THEN Raise
       ELSE /\ clients' = IF settings.redis_url THEN {"limiters", "cache"} ELSE {}
            /\ UNCHANGED <<engine, repoClosed, tracer, templates, handlers, sealed,
                           wired, app, crons>>
            /\ Advance

\* The worker wires the erasure only.
WireUsers ==
    /\ At("wire")
    /\ wired' = IF kind = "web" THEN Ports ELSE {"erase_user"}
    /\ UNCHANGED <<engine, repoClosed, clients, tracer, templates, handlers, sealed, app,
                   crons>>
    /\ Advance

RegisterEraseHandler ==
    /\ At("erase_handler")
    /\ IF "erase_user" \notin wired \/ ~Registers({"erase_user"}) THEN Raise
       ELSE /\ handlers' = handlers \cup {"erase_user"}
            /\ UNCHANGED <<engine, repoClosed, clients, tracer, templates, sealed, wired,
                           app, crons>>
            /\ Advance

SealJobs ==
    /\ At("seal_jobs")
    /\ sealed' = sealed \cup {"jobs"}
    /\ UNCHANGED <<engine, repoClosed, clients, tracer, templates, handlers, wired, app,
                   crons>>
    /\ Advance

BuildAuthorization ==
    /\ At("authorization")
    /\ sealed' = sealed \cup {"authorization"}
    /\ UNCHANGED <<engine, repoClosed, clients, tracer, templates, handlers, wired, app,
                   crons>>
    /\ Advance

\* Nothing without the seed flag or without both values; one value alone is an
\* error; the use case may refuse, and it raises when the database is down.
RunAuthzBootstrap ==
    LET s == settings
        bootstraps == s.seed_on_startup /\ s.bootstrap_email /\ s.bootstrap_password
    IN  /\ At("bootstrap")
        /\ \/ /\ \/ s.seed_on_startup /\ s.bootstrap_email # s.bootstrap_password
                 \/ bootstraps
              /\ Raise
           \/ /\ s.seed_on_startup => s.bootstrap_email = s.bootstrap_password
              /\ UNCHANGED startVars
              /\ Advance

AttachContainers ==
    /\ At("attach")
    /\ app' = [app EXCEPT !.attached = Attributes]
    /\ UNCHANGED <<engine, repoClosed, clients, tracer, templates, handlers, sealed,
                   wired, crons>>
    /\ Advance

\* The client for the probes; the redis package may be missing.
OpenRedis ==
    /\ At("redis")
    /\ \/ settings.redis_url /\ Raise
       \/ /\ clients' = IF settings.redis_url THEN clients \cup {"app"} ELSE clients
          /\ app' = [app EXCEPT !.redis = settings.redis_url, !.engine = TRUE]
          /\ UNCHANGED <<engine, repoClosed, tracer, templates, handlers, sealed, wired,
                         crons>>
          /\ Advance

\* ready is the last assignment before the yield.
BecomeReady ==
    /\ At("ready")
    /\ app' = [app EXCEPT !.ready = TRUE]
    /\ phase' = "serving" /\ pc' = 1
    /\ UNCHANGED <<kind, settings, engine, repoClosed, clients, tracer, templates,
                   handlers, sealed, wired, crons, serveVars>>

\* The worker collects its cron descriptors, logs them, drains what it opened
\* and returns 1.  Each step of drain_worker swallows its own exception.
FinishWorker ==
    /\ At("crons")
    /\ crons' = RelayCronSpecs(settings) \cup MaintenanceCronSpecs(settings)
    /\ \/ engine' = "disposed" /\ faults' = faults
       \/ engine' = engine /\ faults' = faults \cup {"dispose"}
    /\ tracer' = FALSE
    /\ phase' = "exited"
    /\ UNCHANGED <<kind, settings, pc, repoClosed, clients, templates, handlers, sealed,
                   wired, app, req, late, probe>>

---------------------------------------------------------------------------
(* Serving.  The server accepts requests only between the end of the       *)
(* startup and the signal to stop; it is external to the repository.       *)

\* A request arrives and its dependencies read the containers from app.state.
Accept(r) ==
    /\ phase = "serving" /\ req[r] \in {"idle", "ok"}
    /\ req' = [req EXCEPT ![r] = IF app.attached = Attributes THEN "resolved"
                                 ELSE "not_ready"]
    /\ UNCHANGED <<kind, settings, phase, pc, startVars, late, probe, faults>>

\* Every session scope of the auth repository checks _closed first.
RepositoryRefuses(repository) == repository = "auth" /\ repoClosed

\* The handler runs in a thread: it uses the auth repository or the users one
\* and may enqueue a job, which the in-process queue runs inline.  The auth
\* repository refuses once closed; the users repository holds the engine, and
\* a disposed engine opens a new pool on its next use.
Work(r, job, repository) ==
    /\ req[r] = "resolved"
    /\ phase \notin {"failed", "killed"}
    /\ LET refused == RepositoryRefuses(repository)
       IN  /\ req' = [req EXCEPT ![r] = IF refused THEN "closed"
                                        ELSE IF job \notin handlers THEN "unknown_job"
                                        ELSE "ok"]
           /\ engine' = IF refused THEN engine ELSE "open"
    /\ UNCHANGED <<kind, settings, phase, pc, repoClosed, clients, tracer, templates,
                   handlers, sealed, wired, app, crons, late, probe, faults>>

\* The dependencies /health/ready probes.
ProbedDeps_NoS3 ==
    {d \in Deps : \/ d = "db" /\ app.engine
                  \/ d = "redis" /\ app.redis}
ProbedDeps ==
    {d \in Deps : \/ d = "db" /\ app.engine
                  \/ d = "redis" /\ app.redis
                  \/ /\ d = "s3" /\ settings.storage_enabled
                     /\ settings.storage_backend = "s3" /\ settings.storage_s3_bucket}

ProbeStart(up) ==
    /\ phase = "serving" /\ probe.at = "idle"
    /\ probe' = IF ~app.ready \/ "container" \notin app.attached
                THEN [NoProbe EXCEPT !.code = 503]
                ELSE [NoProbe EXCEPT !.at = "probing", !.deps = ProbedDeps,
                                     !.pending = ProbedDeps, !.up = up, !.seen = up]
    /\ UNCHANGED <<kind, settings, phase, pc, startVars, req, late, faults>>

ProbeDependency_NoTimeout(d) ==
    /\ probe.at = "probing" /\ d \in probe.pending
    /\ d \in probe.up
    /\ probe' = [probe EXCEPT !.pending = @ \ {d}]
    /\ UNCHANGED <<kind, settings, phase, pc, startVars, req, late, faults>>

\* The probes run concurrently, each under its own timeout: a dependency that
\* is up answers or is too slow, one that is down fails or times out.
ProbeDependency(d) ==
    /\ probe.at = "probing" /\ d \in probe.pending
    /\ \/ /\ d \in probe.up
          /\ probe' = [probe EXCEPT !.pending = @ \ {d}]
       \/ probe' = [probe EXCEPT !.pending = @ \ {d}, !.failed = @ \cup {d}]
    /\ UNCHANGED <<kind, settings, phase, pc, startVars, req, late, faults>>

ProbeAnswer ==
    /\ probe.at = "probing" /\ probe.pending = {}
    /\ probe' = [probe EXCEPT !.at = "idle", !.up = {},
                             !.code = IF probe.failed = {} THEN 200 ELSE 503]
    /\ UNCHANGED <<kind, settings, phase, pc, startVars, req, late, faults>>

\* A dependency goes down or comes back while a probe waits for it; `seen'
\* records, for the properties, the ones that were up at some moment.
DependencyChanges(d) ==
    /\ probe.at = "probing" /\ d \in probe.pending
    /\ probe' = [probe EXCEPT !.up = IF d \in @ THEN @ \ {d} ELSE @ \cup {d},
                             !.seen = @ \cup {d}]
    /\ UNCHANGED <<kind, settings, phase, pc, startVars, req, late, faults>>

---------------------------------------------------------------------------
(* Shutdown. *)

Signal ==
    /\ phase = "serving"
    /\ phase' = "draining"
    /\ UNCHANGED <<kind, settings, pc, startVars, serveVars>>

Busy == {r \in Requests : req[r] = "resolved"}

\* The server leaves the drain when nothing is in flight, or when its graceful
\* timeout cancels the tasks; a thread cannot be cancelled and runs on.
Drained ==
    /\ phase = "draining" /\ Busy = {} /\ probe.at = "idle"
    /\ phase' = "closing" /\ pc' = 1
    /\ probe' = NoProbe
    /\ UNCHANGED <<kind, settings, startVars, req, late, faults>>

DrainTimeout ==
    /\ phase = "draining"
    /\ Busy # {} \/ probe.at = "probing"
    /\ phase' = "closing" /\ pc' = 1
    /\ late' = Busy
    /\ probe' = NoProbe
    /\ UNCHANGED <<kind, settings, startVars, req, faults>>

Closing(step) == phase = "closing" /\ Finalizers[pc] = step
\* safe_finalize: whatever the finalizer did or raised, the next one runs.
NextFinalizer == pc' = pc + 1 /\ UNCHANGED <<kind, settings, phase, req, late, probe>>

\* ready drops first; the hooks of outbox, jobs, users and authorization do
\* nothing today.
FinalizeNothing ==
    /\ \E step \in {"ready", "outbox", "jobs", "users", "authorization"} : Closing(step)
    /\ app' = [app EXCEPT !.ready = FALSE]
    /\ UNCHANGED <<engine, repoClosed, clients, tracer, templates, handlers, sealed,
                   wired, crons, faults>>
    /\ NextFinalizer

FinalizeAuth_Unguarded ==
    /\ Closing("auth")
    /\ \/ /\ engine' = "disposed" /\ repoClosed' = TRUE
          /\ clients' = clients \ {"limiters", "cache"} /\ faults' = faults /\ NextFinalizer
       \/ /\ faults' = faults \cup {"limiters"} /\ phase' = "exited"
          /\ engine' = "disposed" /\ repoClosed' = TRUE
          /\ UNCHANGED <<clients, kind, settings, pc, req, late, probe>>
    /\ UNCHANGED <<tracer, templates, handlers, sealed, wired, app, crons>>
\* auth.shutdown: the engine, then the limiters, then the cache, stopping at
\* the first that raises.
FinalizeAuth ==
    /\ Closing("auth")
    /\ \/ /\ engine' = "disposed" /\ repoClosed' = TRUE
          /\ clients' = clients \ {"limiters", "cache"} /\ faults' = faults
       \/ /\ faults' = faults \cup {"dispose"}
          /\ UNCHANGED <<engine, repoClosed, clients>>
       \/ /\ "limiters" \in clients /\ faults' = faults \cup {"limiters"}
          /\ engine' = "disposed" /\ repoClosed' = TRUE /\ clients' = clients
       \/ /\ "cache" \in clients /\ faults' = faults \cup {"cache"}
          /\ engine' = "disposed" /\ repoClosed' = TRUE
          /\ clients' = clients \ {"limiters"}
    /\ UNCHANGED <<tracer, templates, handlers, sealed, wired, app, crons>>
    /\ NextFinalizer

FinalizeRedis ==
    /\ Closing("redis")
    /\ \/ clients' = clients \ {"app"} /\ faults' = faults
       \/ "app" \in clients /\ clients' = clients /\ faults' = faults \cup {"redis"}
    /\ UNCHANGED <<engine, repoClosed, tracer, templates, handlers, sealed, wired, app,
                   crons>>
    /\ NextFinalizer

\* shutdown_tracing forgets the provider whether or not its flush raised.
FinalizeTracing ==
    /\ Closing("tracing")
    /\ tracer' = FALSE
    /\ UNCHANGED <<engine, repoClosed, clients, templates, handlers, sealed, wired, app,
                   crons, faults>>
    /\ NextFinalizer

ClearState ==
    /\ Closing("state")
    /\ app' = [app EXCEPT !.attached = @ \ {"container"}, !.redis = FALSE, !.engine = FALSE]
    /\ phase' = "exited"
    /\ UNCHANGED <<kind, settings, pc, engine, repoClosed, clients, tracer, templates,
                   handlers, sealed, wired, crons, serveVars>>

\* The orchestrator's grace period ends, or the machine stops.
Kill ==
    /\ phase \in {"draining", "closing"}
    /\ phase' = "killed"
    /\ UNCHANGED <<kind, settings, pc, startVars, serveVars>>

Terminated == phase \in {"exited", "failed", "killed"} /\ UNCHANGED vars

Compose ==
    \/ LoadSettings \/ BuildEngine \/ BuildEmail \/ BuildJobs \/ BuildFileStorage
    \/ RegisterHandlers \/ BuildAuth \/ WireUsers \/ RegisterEraseHandler \/ SealJobs
    \/ BuildAuthorization \/ RunAuthzBootstrap \/ AttachContainers \/ OpenRedis
    \/ BecomeReady \/ FinishWorker

Finalize ==
    \/ FinalizeNothing \/ FinalizeAuth \/ FinalizeRedis \/ FinalizeTracing \/ ClearState

Next ==
    \/ Compose
    \/ \E r \in Requests : Accept(r)
    \/ \E r \in Requests, job \in Jobs, repository \in {"auth", "users"} :
           Work(r, job, repository)
    \/ \E up \in SUBSET Deps : ProbeStart(up)
    \/ \E d \in Deps : ProbeDependency(d) \/ DependencyChanges(d)
    \/ ProbeAnswer
    \/ Signal \/ Drained \/ DrainTimeout \/ Finalize \/ Kill
    \/ Terminated

Spec == Init /\ [][Next]_vars

\* The composition and the finalizers are straight-line code, the timeouts of
\* the drain and of the probes are timers.  Nothing makes a handler finish.
FairSpec ==
    /\ Spec
    /\ WF_vars(Compose) /\ WF_vars(Finalize) /\ WF_vars(Drained) /\ WF_vars(DrainTimeout)
    /\ WF_vars(ProbeAnswer) /\ \A d \in Deps : WF_vars(ProbeDependency(d))

---------------------------------------------------------------------------
(* Properties. *)

\* What runs is completely composed: a web process that answers requests has
\* every registry sealed, every template and every job handler registered,
\* every collaborator wired, every container attached and its engine open; no
\* request meets a missing container or enqueues a job without a handler, and
\* only a thread that outlived the drain meets the closed auth repository.  The
\* worker scaffold ends with the handlers and templates of the web process,
\* whatever the order in which each process calls the builders
\* (main.py lines 383-388, worker.py lines 233-267).
ComposedBeforeUse ==
    /\ phase \in {"serving", "draining"} =>
           /\ sealed = Registries /\ wired = Ports /\ app.attached = Attributes
           /\ templates = Templates /\ handlers = Jobs
           /\ engine = "open" /\ app.ready /\ app.engine
           /\ app.redis = settings.redis_url /\ ("app" \in clients) = settings.redis_url
    /\ \A r \in Requests : /\ req[r] \notin {"not_ready", "unknown_job"}
                           /\ req[r] = "closed" => r \in late
    /\ kind = "worker" /\ phase = "exited" =>
           /\ sealed = {"email", "jobs"}
           /\ templates = Templates /\ handlers = Jobs

\* A graceful exit releases everything: readiness is down, the tracer is shut
\* down, the engine is disposed unless its own dispose raised or a late thread
\* used it again, the probe's Redis client is closed unless its close raised,
\* and the auth clients are closed unless a step of auth.shutdown raised.
CleanExit ==
    phase = "exited" =>
        /\ ~tracer /\ ~app.ready
        /\ late = {} /\ "dispose" \notin faults => engine = "disposed"
        /\ "app" \in clients => "redis" \in faults
        /\ clients \cap {"limiters", "cache"} # {} =>
               faults \cap {"dispose", "limiters", "cache"} # {}

\* What the accepted settings promise to the rest of the system.  The outbox has
\* an attempt budget, a positive backoff whose ceiling is not below its base and
\* positive batches and retentions, the dedup marks outlive the longest backoff,
\* and the shipped console and in-process backends never run in production.  In
\* the worker's schedule the relay fires at a period that divides a minute and
\* the purge at one that divides an hour, no divisor is nearer to the configured
\* interval, a tie goes to the longer period, and a sweep is absent only when its
\* switch turns it off.
SettingsSound ==
    /\ pc > 1 \/ phase \notin {"starting", "failed"} =>
           LET s == settings
           IN  /\ s.max_attempts >= 1 /\ s.claim_batch_size >= 1 /\ s.prune_batch_size >= 1
               /\ 0 < s.retry_base_seconds /\ s.retry_base_seconds <= s.retry_max_seconds
               /\ DedupRetentionSeconds(s) > s.retry_max_seconds
               /\ s.retention_delivered_days >= 1 /\ s.retention_failed_days >= 1
               /\ s.probe_timeout_ms > 0 /\ s.shutdown_timeout_ms > 0
               /\ s.environment # "production"
    /\ kind = "worker" /\ phase = "exited" =>
           LET Nearest(d, n) == /\ 60 % d = 0
                                /\ \A e \in 1..60 : 60 % e = 0 =>
                                       \/ Abs(d - n) < Abs(e - n)
                                       \/ Abs(d - n) = Abs(e - n) /\ e <= d
               Every(name) == {c.every : c \in {x \in crons : x.name = name}}
               relay == Every("outbox-relay")
               purge == Every("auth-purge-tokens")
           IN  /\ (relay = {}) = ~settings.outbox_enabled
               /\ (Every("outbox-prune") = {}) = ~settings.outbox_enabled
               /\ (purge = {}) = (settings.token_purge_interval_minutes <= 0)
               /\ \A n \in relay : Nearest(n, settings.relay_interval_seconds)
               /\ \A n \in purge : /\ n % 60 = 0
                                   /\ Nearest(n \div 60, settings.token_purge_interval_minutes)

\* A 200 from /health/ready means that every dependency the configuration names
\* was up at some moment of that very probe.
NoFalseReady ==
    probe.code = 200 =>
        LET required == {d \in Deps : \/ d = "db"
                                      \/ d = "redis" /\ settings.redis_url
                                      \/ /\ d = "s3" /\ settings.storage_enabled
                                         /\ settings.storage_backend = "s3"}
        IN  required \subseteq probe.seen

\* The shared engine is disposed only after readiness dropped, after the hooks
\* of the features that use it, and with no request in flight but the threads
\* the drain gave up on.
DisposedLast ==
    [][kind = "web" /\ engine = "open" /\ engine' = "disposed" =>
           /\ ~app.ready
           /\ \A f \in {"outbox", "jobs", "users", "authorization"} :
                  \E i \in 1..(pc - 1) : Finalizers[i] = f
           /\ Busy \subseteq late]_vars

\* Both timeouts do their work: a process that was told to stop ends even when a
\* handler never returns, and every readiness probe is answered even when a
\* dependency hangs (uvicorn's drain, _run_probe in health.py).
NothingHangs ==
    /\ phase = "draining" ~> phase \in {"exited", "killed"}
    /\ probe.at = "probing" ~> probe.at = "idle"

=============================================================================
