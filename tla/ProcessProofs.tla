---------------------------- MODULE ProcessProofs ----------------------------
(***************************************************************************)
(* Proofs about Process, for every deployment whose settings have the      *)
(* types of AppSettings and for any number of requests: what runs is       *)
(* completely composed, an exit is clean, the engine goes last, a ready    *)
(* answer is true and accepted settings are sound.                         *)
(***************************************************************************)
EXTENDS Process, TLAPS

\* The builder has run: it stands in the plan before the position p.
PastAt(k, p, step) == \E i \in 1..(p - 1) : Plan[k][i] = step
Past(step) == PastAt(kind, pc, step)

ProcessTypes ==
    /\ kind \in {"web", "worker"} /\ settings \in SettingsType
    /\ phase \in {"starting", "serving", "draining", "closing", "exited", "failed", "killed"}
    /\ pc \in Nat \ {0}
    /\ engine \in {"none", "open", "disposed"}
    /\ clients \subseteq {"limiters", "cache", "app"}
    /\ req \in [Requests -> {"idle", "ok", "resolved", "closed"}]
    /\ late \subseteq Requests
    /\ faults \subseteq {"dispose", "limiters", "cache", "redis"}

AppTypes ==
    app \in [attached : SUBSET Attributes, redis : BOOLEAN, engine : BOOLEAN, ready : BOOLEAN]

\* Whatever got past its first step runs with settings that were accepted.
AcceptedInv ==
    pc > 1 \/ phase \notin {"starting", "failed"} => SettingsErrors(settings) = {}

\* While the process is composed, each part of its state is what the builders
\* that have run made it.
MadeEngine == Past("engine") => engine = "open"
MadeTemplates == Past("email") => templates = Templates
MadeHandlers ==
    handlers = (IF Past("handlers") THEN {"send_email", "delete_user_assets"} ELSE {})
                   \cup (IF Past("erase_handler") THEN {"erase_user"} ELSE {})
MadeSealed ==
    sealed = (IF Past("email") THEN {"email"} ELSE {})
                 \cup (IF Past("seal_jobs") THEN {"jobs"} ELSE {})
                 \cup (IF Past("authorization") THEN {"authorization"} ELSE {})
MadeWired == Past("wire") /\ kind = "web" => wired = Ports
MadeClients ==
    clients = IF ~settings.redis_url THEN {}
              ELSE (IF Past("auth") THEN {"limiters", "cache"} ELSE {})
                       \cup (IF Past("redis") THEN {"app"} ELSE {})
MadeApp ==
    /\ Past("attach") => app.attached = Attributes
    /\ Past("redis") => app.engine /\ (app.redis <=> settings.redis_url)
Unserved ==
    /\ ~repoClosed /\ ~app.ready
    /\ late = {} /\ faults = {} /\ \A r \in Requests : req[r] = "idle"

StartInv ==
    phase = "starting" =>
        /\ pc <= (IF kind = "web" THEN 15 ELSE 10)
        /\ MadeEngine /\ MadeTemplates /\ MadeHandlers /\ MadeSealed /\ MadeWired
        /\ MadeClients /\ MadeApp /\ Unserved

\* A process that serves or drains is composed, and nothing of it is closed.
ServeInv ==
    phase \in {"serving", "draining"} =>
        /\ kind = "web"
        /\ sealed = Registries /\ wired = Ports /\ app.attached = Attributes
        /\ templates = Templates
        /\ engine = "open" /\ ~repoClosed /\ app.ready /\ app.engine
        /\ app.redis <=> settings.redis_url
        /\ clients = IF settings.redis_url THEN {"limiters", "cache", "app"} ELSE {}
        /\ late = {} /\ faults = {}

\* What the finalizers that have run leave behind.
Released(p) ==
    /\ p > 1 => ~app.ready
    /\ p <= 6 => engine = "open" /\ ~repoClosed
    /\ p > 6 => /\ late = {} /\ "dispose" \notin faults => engine = "disposed"
                /\ clients \cap {"limiters", "cache"} # {} =>
                       faults \cap {"dispose", "limiters", "cache"} # {}
    /\ p > 7 => ("app" \in clients => "redis" \in faults)
    /\ p > 8 => ~tracer

CloseInv ==
    /\ phase = "closing" => kind = "web" /\ pc <= 9 /\ Released(pc)
    /\ phase = "exited" => Released(10)
    /\ phase \in {"closing", "exited"} => Busy \subseteq late

\* Only a composed process has a request at work, and only a thread that
\* outlived the drain meets the closed repository.
RequestInv ==
    \A r \in Requests : /\ req[r] = "closed" => r \in late
                        /\ req[r] = "resolved" => handlers = Jobs

\* What is left of the worker.
WorkerInv ==
    kind = "worker" /\ phase = "exited" =>
        /\ sealed = {"email", "jobs"} /\ templates = Templates /\ handlers = Jobs
        /\ crons = RelayCronSpecs(settings) \cup MaintenanceCronSpecs(settings)

\* The dependencies the configuration names.
Required ==
    {d \in Deps : \/ d = "db"
                  \/ d = "redis" /\ settings.redis_url
                  \/ d = "s3" /\ settings.storage_enabled /\ settings.storage_backend = "s3"}

ProbeType ==
    [at : {"idle", "probing"}, deps : SUBSET Deps, pending : SUBSET Deps,
     failed : SUBSET Deps, up : SUBSET Deps, seen : SUBSET Deps, code : {0, 200, 503}]

\* A probe that has not failed has met every dependency it no longer waits for.
ProbeInv ==
    /\ probe \in ProbeType
    /\ probe.at = "probing" =>
           /\ Required \subseteq probe.pending \cup probe.failed \cup probe.seen
           /\ probe.up \subseteq probe.seen /\ probe.code = 0
    /\ probe.code = 200 => Required \subseteq probe.seen

ServedHandlers == phase \in {"serving", "draining", "closing"} => handlers = Jobs

ProcessInv ==
    /\ ProcessTypes /\ AppTypes /\ AcceptedInv /\ StartInv /\ ServeInv /\ CloseInv
    /\ RequestInv /\ WorkerInv /\ ProbeInv /\ ServedHandlers

-----------------------------------------------------------------------------
(* The settings.                                                           *)

\* Where no error is raised, no condition holds.
LEMMA NotRaised ==
    ASSUME NEW es, Raised(es) = {}, NEW n, NEW c \in BOOLEAN, <<n, c>> \in es
    PROVE  ~c
<1> SUFFICES ASSUME c PROVE FALSE
  OBVIOUS
<1> DEFINE x == <<n, c>>
<1>1. x \in es /\ x[1] = n /\ x[2]
  OBVIOUS
<1> HIDE DEF x
<1>2. n \in Raised(es)
  BY <1>1 DEF Raised
<1> QED
  BY <1>2

\* The fields of the settings that the builders and the properties read.
LEMMA SettingsFields ==
    ASSUME NEW s \in SettingsType
    PROVE  /\ s.redis_url \in BOOLEAN /\ s.storage_enabled \in BOOLEAN
           /\ s.storage_local_path \in BOOLEAN /\ s.storage_s3_bucket \in BOOLEAN
           /\ s.outbox_enabled \in BOOLEAN /\ s.otel_exporter_endpoint \in BOOLEAN
           /\ s.relay_interval_seconds \in Int /\ s.claim_batch_size \in Int
           /\ s.max_attempts \in Int /\ s.retry_base_seconds \in Int
           /\ s.retry_max_seconds \in Int /\ s.retention_delivered_days \in Int
           /\ s.retention_failed_days \in Int /\ s.prune_batch_size \in Int
           /\ s.probe_timeout_ms \in Int /\ s.shutdown_timeout_ms \in Int
           /\ s.token_purge_interval_minutes \in Int /\ s.email_backend = "console"
BY DEF SettingsType

\* What the validation accepts keeps what the rest of the system relies on.
LEMMA AcceptedSettings ==
    ASSUME NEW s \in SettingsType, SettingsErrors(s) = {}
    PROVE  /\ s.relay_interval_seconds >= 1 /\ s.claim_batch_size >= 1 /\ s.max_attempts >= 1
           /\ s.retry_base_seconds > 0 /\ s.retry_base_seconds <= s.retry_max_seconds
           /\ s.retention_delivered_days >= 1 /\ s.retention_failed_days >= 1
           /\ s.prune_batch_size >= 1 /\ s.probe_timeout_ms > 0 /\ s.shutdown_timeout_ms > 0
           /\ s.environment # "production"
           /\ s.storage_enabled /\ s.storage_backend = "s3" => s.storage_s3_bucket
<1>1. AuthSettingsErrors(s) = {} /\ ProductionErrors(s) = {}
  BY DEF SettingsErrors
<1>2. OutboxValidate(s) = {} /\ ObservabilityValidate(s) = {} /\ StorageValidate(s) = {}
  BY <1>1 DEF AuthSettingsErrors
<1>3. PICK es : /\ Raised(es) = {}
                /\ <<"relay_interval", s.relay_interval_seconds <= 0>> \in es
                /\ <<"claim_batch", s.claim_batch_size <= 0>> \in es
                /\ <<"max_attempts", s.max_attempts <= 0>> \in es
                /\ <<"retry_base", s.retry_base_seconds <= 0>> \in es
                /\ <<"retry_order", s.retry_max_seconds < s.retry_base_seconds>> \in es
                /\ <<"retention_delivered", s.retention_delivered_days <= 0>> \in es
                /\ <<"retention_failed", s.retention_failed_days <= 0>> \in es
                /\ <<"prune_batch", s.prune_batch_size <= 0>> \in es
  BY <1>2 DEF OutboxValidate
<1>4. \A n, c : c \in BOOLEAN /\ <<n, c>> \in es => ~c
  BY <1>3, NotRaised
<1>5. /\ ~(s.relay_interval_seconds <= 0) /\ ~(s.claim_batch_size <= 0)
      /\ ~(s.max_attempts <= 0) /\ ~(s.retry_base_seconds <= 0)
      /\ ~(s.retry_max_seconds < s.retry_base_seconds)
      /\ ~(s.retention_delivered_days <= 0) /\ ~(s.retention_failed_days <= 0)
      /\ ~(s.prune_batch_size <= 0)
  BY <1>3, <1>4, Zenon
<1>6. /\ s.relay_interval_seconds >= 1 /\ s.claim_batch_size >= 1 /\ s.max_attempts >= 1
      /\ s.retry_base_seconds > 0 /\ s.retry_base_seconds <= s.retry_max_seconds
      /\ s.retention_delivered_days >= 1 /\ s.retention_failed_days >= 1
      /\ s.prune_batch_size >= 1
  BY <1>5, SettingsFields
<1>7. s.probe_timeout_ms > 0 /\ s.shutdown_timeout_ms > 0
  <2> DEFINE a == ~(0 < s.probe_timeout_ms /\ s.probe_timeout_ms <= 30000)
             b == ~(0 < s.shutdown_timeout_ms /\ s.shutdown_timeout_ms <= 300000)
  <2>1. PICK fs : /\ Raised(fs) = {}
                  /\ <<"probe_timeout", a>> \in fs
                  /\ <<"shutdown_timeout", b>> \in fs
    BY <1>2 DEF ObservabilityValidate
  <2>2. \A n, c : c \in BOOLEAN /\ <<n, c>> \in fs => ~c
    BY <2>1, NotRaised
  <2>3. a \in BOOLEAN /\ b \in BOOLEAN
    OBVIOUS
  <2> HIDE DEF a, b
  <2>4. ~a /\ ~b
    BY <2>1, <2>2, <2>3, Zenon
  <2> QED
    BY <2>4, SettingsFields DEF a, b
<1>8. s.storage_enabled /\ s.storage_backend = "s3" => s.storage_s3_bucket
  <2>1. PICK fs : /\ Raised(fs) = {}
                  /\ <<"s3_bucket", s.storage_enabled /\ s.storage_backend = "s3"
                                    /\ ~s.storage_s3_bucket>> \in fs
    BY <1>2 DEF StorageValidate
  <2>2. \A n, c : c \in BOOLEAN /\ <<n, c>> \in fs => ~c
    BY <2>1, NotRaised
  <2> QED
    BY <2>1, <2>2, Zenon
<1>9. s.environment # "production"
  <2> SUFFICES ASSUME s.environment = "production" PROVE FALSE
    OBVIOUS
  <2>1. EmailProduction(s) = {}
    BY <1>1 DEF ProductionErrors
  <2>2. PICK fs : /\ Raised(fs) = {}
                  /\ <<"email", s.email_backend = "console">> \in fs
    BY <2>1 DEF EmailProduction
  <2>3. \A n, c : c \in BOOLEAN /\ <<n, c>> \in fs => ~c
    BY <2>2, NotRaised
  <2>4. ~(s.email_backend = "console")
    BY <2>2, <2>3, Zenon
  <2> QED
    BY <2>4, SettingsFields
<1> QED
  BY <1>6, <1>7, <1>8, <1>9

\* The divisors of 60.
LEMMA Divisors == DivisorsOf60 = {1, 2, 3, 4, 5, 6, 10, 12, 15, 20, 30, 60}
<1>1. \A d \in 1..60 : 60 % d = 0 <=> d \in {1, 2, 3, 4, 5, 6, 10, 12, 15, 20, 30, 60}
  OBVIOUS
<1> QED
  BY <1>1 DEF DivisorsOf60

\* d is the divisor of 60 the cron builders choose for n: no other is as near,
\* or only a smaller one is.
Snaps(d, n) ==
    \A e \in DivisorsOf60 \ {d} :
        Abs(d - n) < Abs(e - n) \/ (Abs(d - n) = Abs(e - n) /\ d > e)

\* Every interval has such a divisor, so the choice is one of them.
LEMMA SnapExists ==
    ASSUME NEW n \in Nat \ {0}
    PROVE  \E d \in DivisorsOf60 : Snaps(d, n)
<1>1. CASE n <= 4
  <2>1. n \in DivisorsOf60 /\ Snaps(n, n)
    BY <1>1, Divisors DEF Snaps, Abs
  <2> QED
    BY <2>1
<1>2. CASE n = 5
  <2>1. 5 \in DivisorsOf60 /\ Snaps(5, n)
    BY <1>2, Divisors DEF Snaps, Abs
  <2> QED
    BY <2>1
<1>3. CASE n \in 6..7
  <2>1. 6 \in DivisorsOf60 /\ Snaps(6, n)
    BY <1>3, Divisors DEF Snaps, Abs
  <2> QED
    BY <2>1
<1>4. CASE n \in 8..10
  <2>1. 10 \in DivisorsOf60 /\ Snaps(10, n)
    BY <1>4, Divisors DEF Snaps, Abs
  <2> QED
    BY <2>1
<1>5. CASE n \in 11..13
  <2>1. 12 \in DivisorsOf60 /\ Snaps(12, n)
    BY <1>5, Divisors DEF Snaps, Abs
  <2> QED
    BY <2>1
<1>6. CASE n \in 14..17
  <2>1. 15 \in DivisorsOf60 /\ Snaps(15, n)
    BY <1>6, Divisors DEF Snaps, Abs
  <2> QED
    BY <2>1
<1>7. CASE n \in 18..24
  <2>1. 20 \in DivisorsOf60 /\ Snaps(20, n)
    BY <1>7, Divisors DEF Snaps, Abs
  <2> QED
    BY <2>1
<1>8. CASE n \in 25..44
  <2>1. 30 \in DivisorsOf60 /\ Snaps(30, n)
    BY <1>8, Divisors DEF Snaps, Abs
  <2> QED
    BY <2>1
<1>9. CASE n >= 45
  <2>1. 60 \in DivisorsOf60 /\ Snaps(60, n)
    BY <1>9, Divisors DEF Snaps, Abs
  <2> QED
    BY <2>1
<1> QED
  BY <1>1, <1>2, <1>3, <1>4, <1>5, <1>6, <1>7, <1>8, <1>9

\* SnapToDivisor returns a divisor of 60 that no other is nearer than, and the
\* larger of two equally near.
LEMMA SnapNearest ==
    ASSUME NEW n \in Nat \ {0}
    PROVE  /\ SnapToDivisor(n) \in 1..60 /\ 60 % SnapToDivisor(n) = 0
           /\ \A e \in 1..60 : 60 % e = 0 =>
                  \/ Abs(SnapToDivisor(n) - n) < Abs(e - n)
                  \/ Abs(SnapToDivisor(n) - n) = Abs(e - n) /\ e <= SnapToDivisor(n)
<1> DEFINE d == SnapToDivisor(n)
<1>1. d = CHOOSE x \in DivisorsOf60 : Snaps(x, n)
  <2>1. ~(n < 1)
    OBVIOUS
  <2> QED
    BY <2>1 DEF SnapToDivisor, Snaps
<1>2. d \in DivisorsOf60 /\ Snaps(d, n)
  BY <1>1, SnapExists
<1> HIDE DEF d
<1>3. d \in 1..60 /\ 60 % d = 0
  BY <1>2 DEF DivisorsOf60
<1>4. ASSUME NEW e \in 1..60, 60 % e = 0
      PROVE  Abs(d - n) < Abs(e - n) \/ (Abs(d - n) = Abs(e - n) /\ e <= d)
  <2>1. e \in DivisorsOf60
    BY <1>4 DEF DivisorsOf60
  <2> QED
    BY <1>2, <1>3, <2>1 DEF Snaps
<1> QED
  BY <1>3, <1>4 DEF d

-----------------------------------------------------------------------------
(* The plans.                                                              *)

\* Where the web process calls each builder.
LEMMA WebPlaces ==
    ASSUME NEW p \in 1..15
    PROVE  /\ Plan["web"][p] = "settings" <=> p = 1
           /\ Plan["web"][p] = "engine" <=> p = 2
           /\ Plan["web"][p] = "email" <=> p = 3
           /\ Plan["web"][p] = "jobs" <=> p = 4
           /\ Plan["web"][p] = "file_storage" <=> p = 5
           /\ Plan["web"][p] = "handlers" <=> p = 6
           /\ Plan["web"][p] = "auth" <=> p = 7
           /\ Plan["web"][p] = "wire" <=> p = 8
           /\ Plan["web"][p] = "erase_handler" <=> p = 9
           /\ Plan["web"][p] = "seal_jobs" <=> p = 10
           /\ Plan["web"][p] = "authorization" <=> p = 11
           /\ Plan["web"][p] = "bootstrap" <=> p = 12
           /\ Plan["web"][p] = "attach" <=> p = 13
           /\ Plan["web"][p] = "redis" <=> p = 14
           /\ Plan["web"][p] = "ready" <=> p = 15
           /\ Plan["web"][p] # "crons"
BY DEF Plan, WebPlan

\* Where the worker calls each builder.
LEMMA WorkerPlaces ==
    ASSUME NEW p \in 1..10
    PROVE  /\ Plan["worker"][p] = "settings" <=> p = 1
           /\ Plan["worker"][p] = "email" <=> p = 2
           /\ Plan["worker"][p] = "jobs" <=> p = 3
           /\ Plan["worker"][p] = "engine" <=> p = 4
           /\ Plan["worker"][p] = "file_storage" <=> p = 5
           /\ Plan["worker"][p] = "handlers" <=> p = 6
           /\ Plan["worker"][p] = "wire" <=> p = 7
           /\ Plan["worker"][p] = "erase_handler" <=> p = 8
           /\ Plan["worker"][p] = "seal_jobs" <=> p = 9
           /\ Plan["worker"][p] = "crons" <=> p = 10
           /\ Plan["worker"][p] \notin {"auth", "authorization", "bootstrap", "attach",
                                        "redis", "ready"}
BY DEF Plan, WorkerPlan

\* Which builders of the web process have run at each position.
LEMMA WebPast ==
    ASSUME NEW p \in 1..15
    PROVE  /\ PastAt("web", p, "engine") <=> p > 2
           /\ PastAt("web", p, "email") <=> p > 3
           /\ PastAt("web", p, "handlers") <=> p > 6
           /\ PastAt("web", p, "auth") <=> p > 7
           /\ PastAt("web", p, "wire") <=> p > 8
           /\ PastAt("web", p, "erase_handler") <=> p > 9
           /\ PastAt("web", p, "seal_jobs") <=> p > 10
           /\ PastAt("web", p, "authorization") <=> p > 11
           /\ PastAt("web", p, "attach") <=> p > 13
           /\ PastAt("web", p, "redis") <=> p > 14
<1>1. \A i \in 1..(p - 1) : i \in 1..15
  OBVIOUS
<1>2. \A i \in 1..15 : i < p => i \in 1..(p - 1)
  OBVIOUS
<1> QED
  BY <1>1, <1>2, WebPlaces DEF PastAt

\* Which builders of the worker have run at each position.
LEMMA WorkerPast ==
    ASSUME NEW p \in 1..10
    PROVE  /\ PastAt("worker", p, "engine") <=> p > 4
           /\ PastAt("worker", p, "email") <=> p > 2
           /\ PastAt("worker", p, "handlers") <=> p > 6
           /\ PastAt("worker", p, "wire") <=> p > 7
           /\ PastAt("worker", p, "erase_handler") <=> p > 8
           /\ PastAt("worker", p, "seal_jobs") <=> p > 9
           /\ ~PastAt("worker", p, "auth") /\ ~PastAt("worker", p, "authorization")
           /\ ~PastAt("worker", p, "attach") /\ ~PastAt("worker", p, "redis")
<1>1. \A i \in 1..(p - 1) : i \in 1..10
  OBVIOUS
<1>2. \A i \in 1..10 : i < p => i \in 1..(p - 1)
  OBVIOUS
<1> QED
  BY <1>1, <1>2, WorkerPlaces DEF PastAt

\* The order of the finalizers.
LEMMA FinalizerPlaces ==
    ASSUME NEW p \in 1..9
    PROVE  /\ Finalizers[p] \in {"ready", "outbox", "jobs", "users", "authorization"} <=> p <= 5
           /\ Finalizers[p] = "auth" <=> p = 6
           /\ Finalizers[p] = "redis" <=> p = 7
           /\ Finalizers[p] = "tracing" <=> p = 8
           /\ Finalizers[p] = "state" <=> p = 9
           /\ Finalizers[2] = "outbox" /\ Finalizers[3] = "jobs"
           /\ Finalizers[4] = "users" /\ Finalizers[5] = "authorization"
BY DEF Finalizers

-----------------------------------------------------------------------------
(* Composition.                                                            *)

\* Every offered deployment starts in the invariant.
LEMMA ProcessStarts == Init => ProcessInv
<1> SUFFICES ASSUME Init PROVE ProcessInv
  OBVIOUS
<1>1. PICK deployment \in Offered : kind = deployment.kind /\ settings = deployment.settings
  BY DEF Init
<1>2. kind \in {"web", "worker"} /\ settings \in SettingsType
  BY <1>1, OfferedAssumption
<1>3. /\ phase = "starting" /\ pc = 1 /\ engine = "none" /\ clients = {} /\ handlers = {}
      /\ sealed = {} /\ late = {} /\ faults = {} /\ req = [r \in Requests |-> "idle"]
      /\ probe = NoProbe
      /\ app = [attached |-> {}, redis |-> FALSE, engine |-> FALSE, ready |-> FALSE]
  BY DEF Init
<1>4. ProcessTypes
  BY <1>2, <1>3 DEF ProcessTypes
<1>5. AppTypes
  BY <1>3 DEF AppTypes
<1>6. StartInv
  <2>1. \A step : ~Past(step)
    BY <1>3 DEF Past, PastAt
  <2>2. MadeEngine /\ MadeTemplates /\ MadeHandlers /\ MadeSealed /\ MadeWired /\ MadeApp
    BY <1>3, <2>1 DEF MadeEngine, MadeTemplates, MadeHandlers, MadeSealed, MadeWired, MadeApp
  <2>3. MadeClients
    BY <1>3, <2>1 DEF MadeClients
  <2>4. Unserved
    BY <1>3 DEF Unserved, Init
  <2> QED
    BY <1>3, <2>2, <2>3, <2>4 DEF StartInv
<1>7. ProbeInv
  BY <1>3 DEF ProbeInv, ProbeType, NoProbe, Deps
<1> QED
  BY <1>3, <1>4, <1>5, <1>6, <1>7
  DEF ProcessInv, AcceptedInv, ServeInv, CloseInv, RequestInv, WorkerInv, ServedHandlers

\* A builder raises: nothing changes but the phase.
LEMMA RaiseKeeps ==
    ASSUME ProcessInv, phase = "starting", Raise
    PROVE  ProcessInv'
<1>1. ProcessTypes' /\ AcceptedInv' /\ RequestInv'
  BY DEF ProcessInv, ProcessTypes, AcceptedInv, RequestInv, Raise, startVars, serveVars
<1>2. ProbeInv' /\ AppTypes'
  BY DEF ProcessInv, ProbeInv, AppTypes, Required, Raise, startVars, serveVars
<1> QED
  BY <1>1, <1>2
  DEF ProcessInv, StartInv, ServeInv, CloseInv, WorkerInv, ServedHandlers, Raise

\* A builder returns: what is left to show is what it made of the state.
LEMMA AdvanceKeeps ==
    ASSUME ProcessInv, phase = "starting", Advance, StartInv', AcceptedInv',
           engine' \in {"none", "open", "disposed"},
           clients' \subseteq {"limiters", "cache", "app"}, AppTypes'
    PROVE  ProcessInv'
<1>1. ProcessTypes'
  BY DEF ProcessInv, ProcessTypes, Advance, serveVars
<1>2. ProbeInv'
  BY DEF ProcessInv, ProbeInv, Required, Advance, serveVars
<1>3. RequestInv'
  BY DEF ProcessInv, RequestInv, StartInv, Unserved, Advance, serveVars
<1> QED
  BY <1>1, <1>2, <1>3
  DEF ProcessInv, ServeInv, CloseInv, WorkerInv, ServedHandlers, Advance

\* Where it stands, and which builders have run once it has returned.
LEMMA AdvancePast ==
    ASSUME ProcessInv, Advance
    PROVE  \A step : PastAt(kind', pc', step) <=> PastAt(kind, pc, step) \/ Plan[kind][pc] = step
<1>1. pc \in Nat \ {0} /\ pc' = pc + 1 /\ kind' = kind
  BY DEF ProcessInv, ProcessTypes, Advance
<1>2. \A i : i \in 1..(pc' - 1) <=> i \in 1..(pc - 1) \/ i = pc
  BY <1>1
<1> QED
  BY <1>1, <1>2 DEF PastAt

\* The settings are read and validated.
LEMMA LoadSettingsKeeps ==
    ASSUME ProcessInv, LoadSettings
    PROVE  ProcessInv'
<1>1. phase = "starting" /\ Plan[kind][pc] = "settings"
  BY DEF LoadSettings, At
<1>2. CASE Raise
  BY <1>1, <1>2, RaiseKeeps
<1>3. CASE ~Raise
  <2>1. /\ kind = "web" => pc = 1
        /\ kind = "worker" => pc = 1
        /\ kind \in {"web", "worker"}
    BY <1>1, WebPlaces, WorkerPlaces DEF ProcessInv, ProcessTypes, StartInv
  <2>2. /\ Advance
        /\ UNCHANGED <<engine, repoClosed, clients, templates, handlers, sealed, wired, app, crons>>
    BY <1>1, <1>3 DEF LoadSettings, TracerInstalled
  <2>3. \A step : PastAt(kind', pc', step) <=> PastAt(kind, pc, step) \/ step = "settings"
    BY <1>1, <2>2, AdvancePast
  <2>4. MadeEngine'
    BY <1>1, <2>2, <2>3 DEF ProcessInv, StartInv, MadeEngine, Past, Advance
  <2>5. MadeTemplates'
    BY <1>1, <2>2, <2>3 DEF ProcessInv, StartInv, MadeTemplates, Past, Advance
  <2>6. MadeHandlers'
    BY <1>1, <2>2, <2>3 DEF ProcessInv, StartInv, MadeHandlers, Past, Advance
  <2>7. MadeSealed'
    BY <1>1, <2>2, <2>3 DEF ProcessInv, StartInv, MadeSealed, Past, Advance
  <2>8. MadeWired'
    BY <1>1, <2>2, <2>3 DEF ProcessInv, StartInv, MadeWired, Past, Advance
  <2>9. MadeClients'
    BY <1>1, <2>2, <2>3 DEF ProcessInv, StartInv, MadeClients, Past, Advance
  <2>10. MadeApp'
    BY <1>1, <2>2, <2>3 DEF ProcessInv, StartInv, MadeApp, Past, Advance
  <2>11. Unserved'
    BY <1>1, <2>2, <2>3, <1>3 DEF ProcessInv, StartInv, Unserved, Advance, AppTypes, serveVars, LoadSettings, TracerInstalled
  <2>12. StartInv'
    BY <2>1, <2>2, <2>4, <2>5, <2>6, <2>7, <2>8, <2>9, <2>10, <2>11 DEF StartInv, Advance
  <2>13. AcceptedInv'
    BY <1>1, <1>3, <2>1, <2>2 DEF ProcessInv, AcceptedInv, Advance, LoadSettings
  <2>14. AppTypes'
    BY <1>1, <1>3, <2>2, SettingsFields DEF ProcessInv, ProcessTypes, AppTypes
  <2>15. engine' \in {"none", "open", "disposed"} /\ clients' \subseteq {"limiters", "cache", "app"}
    BY <1>1, <1>3, <2>2 DEF ProcessInv, ProcessTypes
  <2> QED
    BY <1>1, <2>2, <2>12, <2>13, <2>14, <2>15, AdvanceKeeps, Zenon
<1> QED
  BY <1>2, <1>3

\* The engine is created.
LEMMA BuildEngineKeeps ==
    ASSUME ProcessInv, BuildEngine
    PROVE  ProcessInv'
<1>1. phase = "starting" /\ Plan[kind][pc] = "engine"
  BY DEF BuildEngine, At
<1>2. /\ kind = "web" => pc = 2
      /\ kind = "worker" => pc = 4
      /\ kind \in {"web", "worker"}
  BY <1>1, WebPlaces, WorkerPlaces DEF ProcessInv, ProcessTypes, StartInv
<1>3. /\ Advance
      /\ UNCHANGED <<repoClosed, clients, tracer, templates, handlers, sealed, wired, app, crons>>
  BY <1>1 DEF BuildEngine
<1>4. \A step : PastAt(kind', pc', step) <=> PastAt(kind, pc, step) \/ step = "engine"
  BY <1>1, <1>3, AdvancePast
<1>5. MadeTemplates'
  BY <1>1, <1>3, <1>4 DEF ProcessInv, StartInv, MadeTemplates, Past, Advance
<1>6. MadeHandlers'
  BY <1>1, <1>3, <1>4 DEF ProcessInv, StartInv, MadeHandlers, Past, Advance
<1>7. MadeSealed'
  BY <1>1, <1>3, <1>4 DEF ProcessInv, StartInv, MadeSealed, Past, Advance
<1>8. MadeWired'
  BY <1>1, <1>3, <1>4 DEF ProcessInv, StartInv, MadeWired, Past, Advance
<1>9. MadeClients'
  BY <1>1, <1>3, <1>4 DEF ProcessInv, StartInv, MadeClients, Past, Advance
<1>10. MadeApp'
  BY <1>1, <1>3, <1>4 DEF ProcessInv, StartInv, MadeApp, Past, Advance
<1>11. MadeEngine'
  BY <1>1, <1>3, <1>4, <1>2 DEF ProcessInv, StartInv, MadeEngine, Past, Advance, AppTypes, BuildEngine
<1>12. Unserved'
  BY <1>1, <1>3, <1>4 DEF ProcessInv, StartInv, Unserved, Advance, AppTypes, serveVars, BuildEngine
<1>13. StartInv'
  BY <1>2, <1>3, <1>5, <1>6, <1>7, <1>8, <1>9, <1>10, <1>11, <1>12 DEF StartInv, Advance
<1>14. AcceptedInv'
  BY <1>1, <1>2, <1>3 DEF ProcessInv, AcceptedInv, Advance
<1>15. AppTypes'
  BY <1>1, <1>3, SettingsFields DEF ProcessInv, ProcessTypes, AppTypes
<1>16. engine' \in {"none", "open", "disposed"} /\ clients' \subseteq {"limiters", "cache", "app"}
  BY <1>1, <1>3 DEF ProcessInv, ProcessTypes, BuildEngine
<1> QED
  BY <1>1, <1>3, <1>13, <1>14, <1>15, <1>16, AdvanceKeeps, Zenon

\* The templates are registered and their registry is sealed.
LEMMA BuildEmailKeeps ==
    ASSUME ProcessInv, BuildEmail
    PROVE  ProcessInv'
<1>1. phase = "starting" /\ Plan[kind][pc] = "email"
  BY DEF BuildEmail, At
<1>2. CASE Raise
  BY <1>1, <1>2, RaiseKeeps
<1>3. CASE ~Raise
  <2>1. /\ kind = "web" => pc = 3
        /\ kind = "worker" => pc = 2
        /\ kind \in {"web", "worker"}
    BY <1>1, WebPlaces, WorkerPlaces DEF ProcessInv, ProcessTypes, StartInv
  <2>2. /\ Advance
        /\ UNCHANGED <<engine, repoClosed, clients, tracer, handlers, wired, app, crons>>
    BY <1>1, <1>3 DEF BuildEmail, TemplatesRegister
  <2>3. \A step : PastAt(kind', pc', step) <=> PastAt(kind, pc, step) \/ step = "email"
    BY <1>1, <2>2, AdvancePast
  <2>4. MadeEngine'
    BY <1>1, <2>2, <2>3 DEF ProcessInv, StartInv, MadeEngine, Past, Advance
  <2>5. MadeHandlers'
    BY <1>1, <2>2, <2>3 DEF ProcessInv, StartInv, MadeHandlers, Past, Advance
  <2>6. MadeWired'
    BY <1>1, <2>2, <2>3 DEF ProcessInv, StartInv, MadeWired, Past, Advance
  <2>7. MadeClients'
    BY <1>1, <2>2, <2>3 DEF ProcessInv, StartInv, MadeClients, Past, Advance
  <2>8. MadeApp'
    BY <1>1, <2>2, <2>3 DEF ProcessInv, StartInv, MadeApp, Past, Advance
  <2>9. MadeTemplates'
    BY <1>1, <2>2, <2>3, <1>3, <2>1 DEF ProcessInv, StartInv, MadeTemplates, Past, Advance, AppTypes, BuildEmail, TemplatesRegister
  <2>10. MadeSealed'
    BY <1>1, <2>2, <2>3, <1>3, <2>1 DEF ProcessInv, StartInv, MadeSealed, Past, Advance, AppTypes, BuildEmail, TemplatesRegister
  <2>11. Unserved'
    BY <1>1, <2>2, <2>3, <1>3 DEF ProcessInv, StartInv, Unserved, Advance, AppTypes, serveVars, BuildEmail, TemplatesRegister
  <2>12. StartInv'
    BY <2>1, <2>2, <2>4, <2>5, <2>6, <2>7, <2>8, <2>9, <2>10, <2>11 DEF StartInv, Advance
  <2>13. AcceptedInv'
    BY <1>1, <1>3, <2>1, <2>2 DEF ProcessInv, AcceptedInv, Advance
  <2>14. AppTypes'
    BY <1>1, <1>3, <2>2, SettingsFields DEF ProcessInv, ProcessTypes, AppTypes
  <2>15. engine' \in {"none", "open", "disposed"} /\ clients' \subseteq {"limiters", "cache", "app"}
    BY <1>1, <1>3, <2>2 DEF ProcessInv, ProcessTypes
  <2> QED
    BY <1>1, <2>2, <2>12, <2>13, <2>14, <2>15, AdvanceKeeps, Zenon
<1> QED
  BY <1>2, <1>3

\* The registry of the job handlers is created, before anything is registered in it.
LEMMA BuildJobsKeeps ==
    ASSUME ProcessInv, BuildJobs
    PROVE  ProcessInv'
<1>1. phase = "starting" /\ Plan[kind][pc] = "jobs"
  BY DEF BuildJobs, At
<1>2. /\ kind = "web" => pc = 4
      /\ kind = "worker" => pc = 3
      /\ kind \in {"web", "worker"}
  BY <1>1, WebPlaces, WorkerPlaces DEF ProcessInv, ProcessTypes, StartInv
<1>3. /\ Advance
      /\ UNCHANGED <<engine, repoClosed, clients, tracer, templates, wired, app, crons>>
  BY <1>1 DEF BuildJobs
<1>4. \A step : PastAt(kind', pc', step) <=> PastAt(kind, pc, step) \/ step = "jobs"
  BY <1>1, <1>3, AdvancePast
<1>5. /\ ~PastAt(kind, pc, "handlers") /\ ~PastAt(kind, pc, "erase_handler")
      /\ ~PastAt(kind, pc, "seal_jobs")
  BY <1>2, WebPast, WorkerPast
<1>6. MadeEngine'
  BY <1>1, <1>3, <1>4 DEF ProcessInv, StartInv, MadeEngine, Past, Advance
<1>7. MadeTemplates'
  BY <1>1, <1>3, <1>4 DEF ProcessInv, StartInv, MadeTemplates, Past, Advance
<1>8. MadeWired'
  BY <1>1, <1>3, <1>4 DEF ProcessInv, StartInv, MadeWired, Past, Advance
<1>9. MadeClients'
  BY <1>1, <1>3, <1>4 DEF ProcessInv, StartInv, MadeClients, Past, Advance
<1>10. MadeApp'
  BY <1>1, <1>3, <1>4 DEF ProcessInv, StartInv, MadeApp, Past, Advance
<1>11. MadeHandlers'
  BY <1>1, <1>3, <1>4, <1>5, <1>2 DEF ProcessInv, StartInv, MadeHandlers, Past, Advance, AppTypes, BuildJobs
<1>12. MadeSealed'
  BY <1>1, <1>3, <1>4, <1>5, <1>2 DEF ProcessInv, StartInv, MadeSealed, Past, Advance, AppTypes, BuildJobs
<1>13. Unserved'
  BY <1>1, <1>3, <1>4 DEF ProcessInv, StartInv, Unserved, Advance, AppTypes, serveVars, BuildJobs
<1>14. StartInv'
  BY <1>2, <1>3, <1>6, <1>7, <1>8, <1>9, <1>10, <1>11, <1>12, <1>13 DEF StartInv, Advance
<1>15. AcceptedInv'
  BY <1>1, <1>2, <1>3 DEF ProcessInv, AcceptedInv, Advance
<1>16. AppTypes'
  BY <1>1, <1>3, SettingsFields DEF ProcessInv, ProcessTypes, AppTypes
<1>17. engine' \in {"none", "open", "disposed"} /\ clients' \subseteq {"limiters", "cache", "app"}
  BY <1>1, <1>3 DEF ProcessInv, ProcessTypes
<1> QED
  BY <1>1, <1>3, <1>14, <1>15, <1>16, <1>17, AdvanceKeeps, Zenon

\* The storage adapter is chosen.
LEMMA BuildFileStorageKeeps ==
    ASSUME ProcessInv, BuildFileStorage
    PROVE  ProcessInv'
<1>1. phase = "starting" /\ Plan[kind][pc] = "file_storage"
  BY DEF BuildFileStorage, At
<1>2. CASE Raise
  BY <1>1, <1>2, RaiseKeeps
<1>3. CASE ~Raise
  <2>1. /\ kind = "web" => pc = 5
        /\ kind = "worker" => pc = 5
        /\ kind \in {"web", "worker"}
    BY <1>1, WebPlaces, WorkerPlaces DEF ProcessInv, ProcessTypes, StartInv
  <2>2. /\ Advance
        /\ UNCHANGED <<engine, repoClosed, clients, tracer, templates, handlers, sealed, wired, app, crons>>
    BY <1>1, <1>3 DEF BuildFileStorage, startVars
  <2>3. \A step : PastAt(kind', pc', step) <=> PastAt(kind, pc, step) \/ step = "file_storage"
    BY <1>1, <2>2, AdvancePast
  <2>4. MadeEngine'
    BY <1>1, <2>2, <2>3 DEF ProcessInv, StartInv, MadeEngine, Past, Advance
  <2>5. MadeTemplates'
    BY <1>1, <2>2, <2>3 DEF ProcessInv, StartInv, MadeTemplates, Past, Advance
  <2>6. MadeHandlers'
    BY <1>1, <2>2, <2>3 DEF ProcessInv, StartInv, MadeHandlers, Past, Advance
  <2>7. MadeSealed'
    BY <1>1, <2>2, <2>3 DEF ProcessInv, StartInv, MadeSealed, Past, Advance
  <2>8. MadeWired'
    BY <1>1, <2>2, <2>3 DEF ProcessInv, StartInv, MadeWired, Past, Advance
  <2>9. MadeClients'
    BY <1>1, <2>2, <2>3 DEF ProcessInv, StartInv, MadeClients, Past, Advance
  <2>10. MadeApp'
    BY <1>1, <2>2, <2>3 DEF ProcessInv, StartInv, MadeApp, Past, Advance
  <2>11. Unserved'
    BY <1>1, <2>2, <2>3, <1>3 DEF ProcessInv, StartInv, Unserved, Advance, AppTypes, serveVars, BuildFileStorage, startVars
  <2>12. StartInv'
    BY <2>1, <2>2, <2>4, <2>5, <2>6, <2>7, <2>8, <2>9, <2>10, <2>11 DEF StartInv, Advance
  <2>13. AcceptedInv'
    BY <1>1, <1>3, <2>1, <2>2 DEF ProcessInv, AcceptedInv, Advance
  <2>14. AppTypes'
    BY <1>1, <1>3, <2>2, SettingsFields DEF ProcessInv, ProcessTypes, AppTypes
  <2>15. engine' \in {"none", "open", "disposed"} /\ clients' \subseteq {"limiters", "cache", "app"}
    BY <1>1, <1>3, <2>2 DEF ProcessInv, ProcessTypes
  <2> QED
    BY <1>1, <2>2, <2>12, <2>13, <2>14, <2>15, AdvanceKeeps, Zenon
<1> QED
  BY <1>2, <1>3

\* The handlers of email and storage are registered, in a registry that is open.
LEMMA RegisterHandlersKeeps ==
    ASSUME ProcessInv, RegisterHandlers
    PROVE  ProcessInv'
<1>1. phase = "starting" /\ Plan[kind][pc] = "handlers"
  BY DEF RegisterHandlers, At
<1>2. CASE Raise
  BY <1>1, <1>2, RaiseKeeps
<1>3. CASE ~Raise
  <2>1. /\ kind = "web" => pc = 6
        /\ kind = "worker" => pc = 6
        /\ kind \in {"web", "worker"}
    BY <1>1, WebPlaces, WorkerPlaces DEF ProcessInv, ProcessTypes, StartInv
  <2>2. /\ Advance
        /\ UNCHANGED <<engine, repoClosed, clients, tracer, templates, sealed, wired, app, crons>>
    BY <1>1, <1>3 DEF RegisterHandlers, Registers
  <2>3. \A step : PastAt(kind', pc', step) <=> PastAt(kind, pc, step) \/ step = "handlers"
    BY <1>1, <2>2, AdvancePast
  <2>4. MadeEngine'
    BY <1>1, <2>2, <2>3 DEF ProcessInv, StartInv, MadeEngine, Past, Advance
  <2>5. MadeTemplates'
    BY <1>1, <2>2, <2>3 DEF ProcessInv, StartInv, MadeTemplates, Past, Advance
  <2>6. MadeSealed'
    BY <1>1, <2>2, <2>3 DEF ProcessInv, StartInv, MadeSealed, Past, Advance
  <2>7. MadeWired'
    BY <1>1, <2>2, <2>3 DEF ProcessInv, StartInv, MadeWired, Past, Advance
  <2>8. MadeClients'
    BY <1>1, <2>2, <2>3 DEF ProcessInv, StartInv, MadeClients, Past, Advance
  <2>9. MadeApp'
    BY <1>1, <2>2, <2>3 DEF ProcessInv, StartInv, MadeApp, Past, Advance
  <2>10. MadeHandlers'
    BY <1>1, <2>2, <2>3, <1>3, <2>1 DEF ProcessInv, StartInv, MadeHandlers, Past, Advance, AppTypes, RegisterHandlers, Registers
  <2>11. Unserved'
    BY <1>1, <2>2, <2>3, <1>3 DEF ProcessInv, StartInv, Unserved, Advance, AppTypes, serveVars, RegisterHandlers, Registers
  <2>12. StartInv'
    BY <2>1, <2>2, <2>4, <2>5, <2>6, <2>7, <2>8, <2>9, <2>10, <2>11 DEF StartInv, Advance
  <2>13. AcceptedInv'
    BY <1>1, <1>3, <2>1, <2>2 DEF ProcessInv, AcceptedInv, Advance
  <2>14. AppTypes'
    BY <1>1, <1>3, <2>2, SettingsFields DEF ProcessInv, ProcessTypes, AppTypes
  <2>15. engine' \in {"none", "open", "disposed"} /\ clients' \subseteq {"limiters", "cache", "app"}
    BY <1>1, <1>3, <2>2 DEF ProcessInv, ProcessTypes
  <2> QED
    BY <1>1, <2>2, <2>12, <2>13, <2>14, <2>15, AdvanceKeeps, Zenon
<1> QED
  BY <1>2, <1>3

\* The authentication container opens its Redis clients.
LEMMA BuildAuthKeeps ==
    ASSUME ProcessInv, BuildAuth
    PROVE  ProcessInv'
<1>1. phase = "starting" /\ Plan[kind][pc] = "auth"
  BY DEF BuildAuth, At
<1>2. CASE Raise
  BY <1>1, <1>2, RaiseKeeps
<1>3. CASE ~Raise
  <2>1. kind = "web" /\ pc = 7
    BY <1>1, WebPlaces, WorkerPlaces DEF ProcessInv, ProcessTypes, StartInv
  <2>2. /\ Advance
        /\ UNCHANGED <<engine, repoClosed, tracer, templates, handlers, sealed, wired, app, crons>>
    BY <1>1, <1>3 DEF BuildAuth
  <2>3. \A step : PastAt(kind', pc', step) <=> PastAt(kind, pc, step) \/ step = "auth"
    BY <1>1, <2>2, AdvancePast
  <2>4. ~PastAt(kind, pc, "redis")
    BY <2>1, WebPast
  <2>5. MadeEngine'
    BY <1>1, <2>2, <2>3 DEF ProcessInv, StartInv, MadeEngine, Past, Advance
  <2>6. MadeTemplates'
    BY <1>1, <2>2, <2>3 DEF ProcessInv, StartInv, MadeTemplates, Past, Advance
  <2>7. MadeHandlers'
    BY <1>1, <2>2, <2>3 DEF ProcessInv, StartInv, MadeHandlers, Past, Advance
  <2>8. MadeSealed'
    BY <1>1, <2>2, <2>3 DEF ProcessInv, StartInv, MadeSealed, Past, Advance
  <2>9. MadeWired'
    BY <1>1, <2>2, <2>3 DEF ProcessInv, StartInv, MadeWired, Past, Advance
  <2>10. MadeApp'
    BY <1>1, <2>2, <2>3 DEF ProcessInv, StartInv, MadeApp, Past, Advance
  <2>11. MadeClients'
    BY <1>1, <2>2, <2>3, <1>3, <2>4, <2>1 DEF ProcessInv, StartInv, MadeClients, Past, Advance, AppTypes, BuildAuth
  <2>12. Unserved'
    BY <1>1, <2>2, <2>3, <1>3 DEF ProcessInv, StartInv, Unserved, Advance, AppTypes, serveVars, BuildAuth
  <2>13. StartInv'
    BY <2>1, <2>2, <2>5, <2>6, <2>7, <2>8, <2>9, <2>10, <2>11, <2>12 DEF StartInv, Advance
  <2>14. AcceptedInv'
    BY <1>1, <1>3, <2>1, <2>2 DEF ProcessInv, AcceptedInv, Advance
  <2>15. AppTypes'
    BY <1>1, <1>3, <2>2, SettingsFields DEF ProcessInv, ProcessTypes, AppTypes
  <2>16. engine' \in {"none", "open", "disposed"} /\ clients' \subseteq {"limiters", "cache", "app"}
    BY <1>1, <1>3, <2>2 DEF ProcessInv, ProcessTypes, BuildAuth
  <2> QED
    BY <1>1, <2>2, <2>13, <2>14, <2>15, <2>16, AdvanceKeeps, Zenon
<1> QED
  BY <1>2, <1>3

\* The collaborators of the users container are wired.
LEMMA WireUsersKeeps ==
    ASSUME ProcessInv, WireUsers
    PROVE  ProcessInv'
<1>1. phase = "starting" /\ Plan[kind][pc] = "wire"
  BY DEF WireUsers, At
<1>2. /\ kind = "web" => pc = 8
      /\ kind = "worker" => pc = 7
      /\ kind \in {"web", "worker"}
  BY <1>1, WebPlaces, WorkerPlaces DEF ProcessInv, ProcessTypes, StartInv
<1>3. /\ Advance
      /\ UNCHANGED <<engine, repoClosed, clients, tracer, templates, handlers, sealed, app, crons>>
  BY <1>1 DEF WireUsers
<1>4. \A step : PastAt(kind', pc', step) <=> PastAt(kind, pc, step) \/ step = "wire"
  BY <1>1, <1>3, AdvancePast
<1>5. MadeEngine'
  BY <1>1, <1>3, <1>4 DEF ProcessInv, StartInv, MadeEngine, Past, Advance
<1>6. MadeTemplates'
  BY <1>1, <1>3, <1>4 DEF ProcessInv, StartInv, MadeTemplates, Past, Advance
<1>7. MadeHandlers'
  BY <1>1, <1>3, <1>4 DEF ProcessInv, StartInv, MadeHandlers, Past, Advance
<1>8. MadeSealed'
  BY <1>1, <1>3, <1>4 DEF ProcessInv, StartInv, MadeSealed, Past, Advance
<1>9. MadeClients'
  BY <1>1, <1>3, <1>4 DEF ProcessInv, StartInv, MadeClients, Past, Advance
<1>10. MadeApp'
  BY <1>1, <1>3, <1>4 DEF ProcessInv, StartInv, MadeApp, Past, Advance
<1>11. MadeWired'
  BY <1>1, <1>3, <1>4, <1>2 DEF ProcessInv, StartInv, MadeWired, Past, Advance, AppTypes, WireUsers
<1>12. Unserved'
  BY <1>1, <1>3, <1>4 DEF ProcessInv, StartInv, Unserved, Advance, AppTypes, serveVars, WireUsers
<1>13. StartInv'
  BY <1>2, <1>3, <1>5, <1>6, <1>7, <1>8, <1>9, <1>10, <1>11, <1>12 DEF StartInv, Advance
<1>14. AcceptedInv'
  BY <1>1, <1>2, <1>3 DEF ProcessInv, AcceptedInv, Advance
<1>15. AppTypes'
  BY <1>1, <1>3, SettingsFields DEF ProcessInv, ProcessTypes, AppTypes
<1>16. engine' \in {"none", "open", "disposed"} /\ clients' \subseteq {"limiters", "cache", "app"}
  BY <1>1, <1>3 DEF ProcessInv, ProcessTypes
<1> QED
  BY <1>1, <1>3, <1>13, <1>14, <1>15, <1>16, AdvanceKeeps, Zenon

\* The erasure handler is registered once its use case is wired.
LEMMA RegisterEraseHandlerKeeps ==
    ASSUME ProcessInv, RegisterEraseHandler
    PROVE  ProcessInv'
<1>1. phase = "starting" /\ Plan[kind][pc] = "erase_handler"
  BY DEF RegisterEraseHandler, At
<1>2. CASE Raise
  BY <1>1, <1>2, RaiseKeeps
<1>3. CASE ~Raise
  <2>1. /\ kind = "web" => pc = 9
        /\ kind = "worker" => pc = 8
        /\ kind \in {"web", "worker"}
    BY <1>1, WebPlaces, WorkerPlaces DEF ProcessInv, ProcessTypes, StartInv
  <2>2. /\ Advance
        /\ UNCHANGED <<engine, repoClosed, clients, tracer, templates, sealed, wired, app, crons>>
    BY <1>1, <1>3 DEF RegisterEraseHandler, Registers
  <2>3. \A step : PastAt(kind', pc', step) <=> PastAt(kind, pc, step) \/ step = "erase_handler"
    BY <1>1, <2>2, AdvancePast
  <2>4. MadeEngine'
    BY <1>1, <2>2, <2>3 DEF ProcessInv, StartInv, MadeEngine, Past, Advance
  <2>5. MadeTemplates'
    BY <1>1, <2>2, <2>3 DEF ProcessInv, StartInv, MadeTemplates, Past, Advance
  <2>6. MadeSealed'
    BY <1>1, <2>2, <2>3 DEF ProcessInv, StartInv, MadeSealed, Past, Advance
  <2>7. MadeWired'
    BY <1>1, <2>2, <2>3 DEF ProcessInv, StartInv, MadeWired, Past, Advance
  <2>8. MadeClients'
    BY <1>1, <2>2, <2>3 DEF ProcessInv, StartInv, MadeClients, Past, Advance
  <2>9. MadeApp'
    BY <1>1, <2>2, <2>3 DEF ProcessInv, StartInv, MadeApp, Past, Advance
  <2>10. MadeHandlers'
    BY <1>1, <2>2, <2>3, <1>3, <2>1 DEF ProcessInv, StartInv, MadeHandlers, Past, Advance, AppTypes, RegisterEraseHandler, Registers
  <2>11. Unserved'
    BY <1>1, <2>2, <2>3, <1>3 DEF ProcessInv, StartInv, Unserved, Advance, AppTypes, serveVars, RegisterEraseHandler, Registers
  <2>12. StartInv'
    BY <2>1, <2>2, <2>4, <2>5, <2>6, <2>7, <2>8, <2>9, <2>10, <2>11 DEF StartInv, Advance
  <2>13. AcceptedInv'
    BY <1>1, <1>3, <2>1, <2>2 DEF ProcessInv, AcceptedInv, Advance
  <2>14. AppTypes'
    BY <1>1, <1>3, <2>2, SettingsFields DEF ProcessInv, ProcessTypes, AppTypes
  <2>15. engine' \in {"none", "open", "disposed"} /\ clients' \subseteq {"limiters", "cache", "app"}
    BY <1>1, <1>3, <2>2 DEF ProcessInv, ProcessTypes
  <2> QED
    BY <1>1, <2>2, <2>12, <2>13, <2>14, <2>15, AdvanceKeeps, Zenon
<1> QED
  BY <1>2, <1>3

\* The registry of the job handlers is sealed.
LEMMA SealJobsKeeps ==
    ASSUME ProcessInv, SealJobs
    PROVE  ProcessInv'
<1>1. phase = "starting" /\ Plan[kind][pc] = "seal_jobs"
  BY DEF SealJobs, At
<1>2. /\ kind = "web" => pc = 10
      /\ kind = "worker" => pc = 9
      /\ kind \in {"web", "worker"}
  BY <1>1, WebPlaces, WorkerPlaces DEF ProcessInv, ProcessTypes, StartInv
<1>3. /\ Advance
      /\ UNCHANGED <<engine, repoClosed, clients, tracer, templates, handlers, wired, app, crons>>
  BY <1>1 DEF SealJobs
<1>4. \A step : PastAt(kind', pc', step) <=> PastAt(kind, pc, step) \/ step = "seal_jobs"
  BY <1>1, <1>3, AdvancePast
<1>5. MadeEngine'
  BY <1>1, <1>3, <1>4 DEF ProcessInv, StartInv, MadeEngine, Past, Advance
<1>6. MadeTemplates'
  BY <1>1, <1>3, <1>4 DEF ProcessInv, StartInv, MadeTemplates, Past, Advance
<1>7. MadeHandlers'
  BY <1>1, <1>3, <1>4 DEF ProcessInv, StartInv, MadeHandlers, Past, Advance
<1>8. MadeWired'
  BY <1>1, <1>3, <1>4 DEF ProcessInv, StartInv, MadeWired, Past, Advance
<1>9. MadeClients'
  BY <1>1, <1>3, <1>4 DEF ProcessInv, StartInv, MadeClients, Past, Advance
<1>10. MadeApp'
  BY <1>1, <1>3, <1>4 DEF ProcessInv, StartInv, MadeApp, Past, Advance
<1>11. MadeSealed'
  BY <1>1, <1>3, <1>4, <1>2 DEF ProcessInv, StartInv, MadeSealed, Past, Advance, AppTypes, SealJobs
<1>12. Unserved'
  BY <1>1, <1>3, <1>4 DEF ProcessInv, StartInv, Unserved, Advance, AppTypes, serveVars, SealJobs
<1>13. StartInv'
  BY <1>2, <1>3, <1>5, <1>6, <1>7, <1>8, <1>9, <1>10, <1>11, <1>12 DEF StartInv, Advance
<1>14. AcceptedInv'
  BY <1>1, <1>2, <1>3 DEF ProcessInv, AcceptedInv, Advance
<1>15. AppTypes'
  BY <1>1, <1>3, SettingsFields DEF ProcessInv, ProcessTypes, AppTypes
<1>16. engine' \in {"none", "open", "disposed"} /\ clients' \subseteq {"limiters", "cache", "app"}
  BY <1>1, <1>3 DEF ProcessInv, ProcessTypes
<1> QED
  BY <1>1, <1>3, <1>13, <1>14, <1>15, <1>16, AdvanceKeeps, Zenon

\* The authorization registry is sealed.
LEMMA BuildAuthorizationKeeps ==
    ASSUME ProcessInv, BuildAuthorization
    PROVE  ProcessInv'
<1>1. phase = "starting" /\ Plan[kind][pc] = "authorization"
  BY DEF BuildAuthorization, At
<1>2. kind = "web" /\ pc = 11
  BY <1>1, WebPlaces, WorkerPlaces DEF ProcessInv, ProcessTypes, StartInv
<1>3. /\ Advance
      /\ UNCHANGED <<engine, repoClosed, clients, tracer, templates, handlers, wired, app, crons>>
  BY <1>1 DEF BuildAuthorization
<1>4. \A step : PastAt(kind', pc', step) <=> PastAt(kind, pc, step) \/ step = "authorization"
  BY <1>1, <1>3, AdvancePast
<1>5. MadeEngine'
  BY <1>1, <1>3, <1>4 DEF ProcessInv, StartInv, MadeEngine, Past, Advance
<1>6. MadeTemplates'
  BY <1>1, <1>3, <1>4 DEF ProcessInv, StartInv, MadeTemplates, Past, Advance
<1>7. MadeHandlers'
  BY <1>1, <1>3, <1>4 DEF ProcessInv, StartInv, MadeHandlers, Past, Advance
<1>8. MadeWired'
  BY <1>1, <1>3, <1>4 DEF ProcessInv, StartInv, MadeWired, Past, Advance
<1>9. MadeClients'
  BY <1>1, <1>3, <1>4 DEF ProcessInv, StartInv, MadeClients, Past, Advance
<1>10. MadeApp'
  BY <1>1, <1>3, <1>4 DEF ProcessInv, StartInv, MadeApp, Past, Advance
<1>11. MadeSealed'
  BY <1>1, <1>3, <1>4, <1>2 DEF ProcessInv, StartInv, MadeSealed, Past, Advance, AppTypes, BuildAuthorization
<1>12. Unserved'
  BY <1>1, <1>3, <1>4 DEF ProcessInv, StartInv, Unserved, Advance, AppTypes, serveVars, BuildAuthorization
<1>13. StartInv'
  BY <1>2, <1>3, <1>5, <1>6, <1>7, <1>8, <1>9, <1>10, <1>11, <1>12 DEF StartInv, Advance
<1>14. AcceptedInv'
  BY <1>1, <1>2, <1>3 DEF ProcessInv, AcceptedInv, Advance
<1>15. AppTypes'
  BY <1>1, <1>3, SettingsFields DEF ProcessInv, ProcessTypes, AppTypes
<1>16. engine' \in {"none", "open", "disposed"} /\ clients' \subseteq {"limiters", "cache", "app"}
  BY <1>1, <1>3 DEF ProcessInv, ProcessTypes
<1> QED
  BY <1>1, <1>3, <1>13, <1>14, <1>15, <1>16, AdvanceKeeps, Zenon

\* The bootstrap of the administrator leaves the composition alone.
LEMMA RunAuthzBootstrapKeeps ==
    ASSUME ProcessInv, RunAuthzBootstrap
    PROVE  ProcessInv'
<1>1. phase = "starting" /\ Plan[kind][pc] = "bootstrap"
  BY DEF RunAuthzBootstrap, At
<1>2. CASE Raise
  BY <1>1, <1>2, RaiseKeeps
<1>3. CASE ~Raise
  <2>1. kind = "web" /\ pc = 12
    BY <1>1, WebPlaces, WorkerPlaces DEF ProcessInv, ProcessTypes, StartInv
  <2>2. /\ Advance
        /\ UNCHANGED <<engine, repoClosed, clients, tracer, templates, handlers, sealed, wired, app, crons>>
    BY <1>1, <1>3 DEF RunAuthzBootstrap, startVars
  <2>3. \A step : PastAt(kind', pc', step) <=> PastAt(kind, pc, step) \/ step = "bootstrap"
    BY <1>1, <2>2, AdvancePast
  <2>4. MadeEngine'
    BY <1>1, <2>2, <2>3 DEF ProcessInv, StartInv, MadeEngine, Past, Advance
  <2>5. MadeTemplates'
    BY <1>1, <2>2, <2>3 DEF ProcessInv, StartInv, MadeTemplates, Past, Advance
  <2>6. MadeHandlers'
    BY <1>1, <2>2, <2>3 DEF ProcessInv, StartInv, MadeHandlers, Past, Advance
  <2>7. MadeSealed'
    BY <1>1, <2>2, <2>3 DEF ProcessInv, StartInv, MadeSealed, Past, Advance
  <2>8. MadeWired'
    BY <1>1, <2>2, <2>3 DEF ProcessInv, StartInv, MadeWired, Past, Advance
  <2>9. MadeClients'
    BY <1>1, <2>2, <2>3 DEF ProcessInv, StartInv, MadeClients, Past, Advance
  <2>10. MadeApp'
    BY <1>1, <2>2, <2>3 DEF ProcessInv, StartInv, MadeApp, Past, Advance
  <2>11. Unserved'
    BY <1>1, <2>2, <2>3, <1>3 DEF ProcessInv, StartInv, Unserved, Advance, AppTypes, serveVars, RunAuthzBootstrap, startVars
  <2>12. StartInv'
    BY <2>1, <2>2, <2>4, <2>5, <2>6, <2>7, <2>8, <2>9, <2>10, <2>11 DEF StartInv, Advance
  <2>13. AcceptedInv'
    BY <1>1, <1>3, <2>1, <2>2 DEF ProcessInv, AcceptedInv, Advance
  <2>14. AppTypes'
    BY <1>1, <1>3, <2>2, SettingsFields DEF ProcessInv, ProcessTypes, AppTypes
  <2>15. engine' \in {"none", "open", "disposed"} /\ clients' \subseteq {"limiters", "cache", "app"}
    BY <1>1, <1>3, <2>2 DEF ProcessInv, ProcessTypes
  <2> QED
    BY <1>1, <2>2, <2>12, <2>13, <2>14, <2>15, AdvanceKeeps, Zenon
<1> QED
  BY <1>2, <1>3

\* The containers are attached.
LEMMA AttachContainersKeeps ==
    ASSUME ProcessInv, AttachContainers
    PROVE  ProcessInv'
<1>1. phase = "starting" /\ Plan[kind][pc] = "attach"
  BY DEF AttachContainers, At
<1>2. kind = "web" /\ pc = 13
  BY <1>1, WebPlaces, WorkerPlaces DEF ProcessInv, ProcessTypes, StartInv
<1>3. /\ Advance
      /\ UNCHANGED <<engine, repoClosed, clients, tracer, templates, handlers, sealed, wired, crons>>
  BY <1>1 DEF AttachContainers
<1>4. \A step : PastAt(kind', pc', step) <=> PastAt(kind, pc, step) \/ step = "attach"
  BY <1>1, <1>3, AdvancePast
<1>5. MadeEngine'
  BY <1>1, <1>3, <1>4 DEF ProcessInv, StartInv, MadeEngine, Past, Advance
<1>6. MadeTemplates'
  BY <1>1, <1>3, <1>4 DEF ProcessInv, StartInv, MadeTemplates, Past, Advance
<1>7. MadeHandlers'
  BY <1>1, <1>3, <1>4 DEF ProcessInv, StartInv, MadeHandlers, Past, Advance
<1>8. MadeSealed'
  BY <1>1, <1>3, <1>4 DEF ProcessInv, StartInv, MadeSealed, Past, Advance
<1>9. MadeWired'
  BY <1>1, <1>3, <1>4 DEF ProcessInv, StartInv, MadeWired, Past, Advance
<1>10. MadeClients'
  BY <1>1, <1>3, <1>4 DEF ProcessInv, StartInv, MadeClients, Past, Advance
<1>11. MadeApp'
  BY <1>1, <1>3, <1>4, <1>2 DEF ProcessInv, StartInv, MadeApp, Past, Advance, AppTypes, AttachContainers
<1>12. Unserved'
  BY <1>1, <1>3, <1>4 DEF ProcessInv, StartInv, Unserved, Advance, AppTypes, serveVars, AttachContainers
<1>13. StartInv'
  BY <1>2, <1>3, <1>5, <1>6, <1>7, <1>8, <1>9, <1>10, <1>11, <1>12 DEF StartInv, Advance
<1>14. AcceptedInv'
  BY <1>1, <1>2, <1>3 DEF ProcessInv, AcceptedInv, Advance
<1>15. AppTypes'
  BY <1>1, <1>3, SettingsFields DEF ProcessInv, ProcessTypes, AppTypes, AttachContainers
<1>16. engine' \in {"none", "open", "disposed"} /\ clients' \subseteq {"limiters", "cache", "app"}
  BY <1>1, <1>3 DEF ProcessInv, ProcessTypes
<1> QED
  BY <1>1, <1>3, <1>13, <1>14, <1>15, <1>16, AdvanceKeeps, Zenon

\* The client of the probes is opened.
LEMMA OpenRedisKeeps ==
    ASSUME ProcessInv, OpenRedis
    PROVE  ProcessInv'
<1>1. phase = "starting" /\ Plan[kind][pc] = "redis"
  BY DEF OpenRedis, At
<1>2. CASE Raise
  BY <1>1, <1>2, RaiseKeeps
<1>3. CASE ~Raise
  <2>1. kind = "web" /\ pc = 14
    BY <1>1, WebPlaces, WorkerPlaces DEF ProcessInv, ProcessTypes, StartInv
  <2>2. /\ Advance
        /\ UNCHANGED <<engine, repoClosed, tracer, templates, handlers, sealed, wired, crons>>
    BY <1>1, <1>3 DEF OpenRedis
  <2>3. \A step : PastAt(kind', pc', step) <=> PastAt(kind, pc, step) \/ step = "redis"
    BY <1>1, <2>2, AdvancePast
  <2>4. MadeEngine'
    BY <1>1, <2>2, <2>3 DEF ProcessInv, StartInv, MadeEngine, Past, Advance
  <2>5. MadeTemplates'
    BY <1>1, <2>2, <2>3 DEF ProcessInv, StartInv, MadeTemplates, Past, Advance
  <2>6. MadeHandlers'
    BY <1>1, <2>2, <2>3 DEF ProcessInv, StartInv, MadeHandlers, Past, Advance
  <2>7. MadeSealed'
    BY <1>1, <2>2, <2>3 DEF ProcessInv, StartInv, MadeSealed, Past, Advance
  <2>8. MadeWired'
    BY <1>1, <2>2, <2>3 DEF ProcessInv, StartInv, MadeWired, Past, Advance
  <2>9. MadeClients'
    BY <1>1, <2>2, <2>3, <1>3, <2>1 DEF ProcessInv, StartInv, MadeClients, Past, Advance, AppTypes, OpenRedis
  <2>10. MadeApp'
    BY <1>1, <2>2, <2>3, <1>3, <2>1, Zenon DEF ProcessInv, StartInv, MadeApp, Past, Advance, AppTypes, OpenRedis
  <2>11. Unserved'
    BY <1>1, <2>2, <2>3, <1>3, Zenon DEF ProcessInv, StartInv, Unserved, Advance, AppTypes, serveVars, OpenRedis
  <2>12. StartInv'
    BY <2>1, <2>2, <2>4, <2>5, <2>6, <2>7, <2>8, <2>9, <2>10, <2>11 DEF StartInv, Advance
  <2>13. AcceptedInv'
    BY <1>1, <1>3, <2>1, <2>2 DEF ProcessInv, AcceptedInv, Advance
  <2>14. AppTypes'
    BY <1>1, <1>3, <2>2, SettingsFields, Zenon DEF ProcessInv, ProcessTypes, AppTypes, OpenRedis
  <2>15. engine' \in {"none", "open", "disposed"} /\ clients' \subseteq {"limiters", "cache", "app"}
    BY <1>1, <1>3, <2>2 DEF ProcessInv, ProcessTypes, OpenRedis
  <2> QED
    BY <1>1, <2>2, <2>12, <2>13, <2>14, <2>15, AdvanceKeeps, Zenon
<1> QED
  BY <1>2, <1>3

\* The last builder of the web process: it serves, and it is composed.
LEMMA BecomeReadyKeeps ==
    ASSUME ProcessInv, BecomeReady
    PROVE  ProcessInv'
<1>1. /\ phase = "starting" /\ Plan[kind][pc] = "ready"
      /\ phase' = "serving" /\ pc' = 1 /\ app' = [app EXCEPT !.ready = TRUE]
      /\ UNCHANGED <<kind, settings, engine, repoClosed, clients, tracer, templates, handlers,
                     sealed, wired, crons, req, late, probe, faults>>
  BY DEF BecomeReady, At, serveVars
<1>2. kind = "web" /\ pc = 15
  BY <1>1, WebPlaces, WorkerPlaces DEF ProcessInv, ProcessTypes, StartInv
<1>3. /\ Past("engine") /\ Past("email") /\ Past("handlers") /\ Past("auth") /\ Past("wire")
      /\ Past("erase_handler") /\ Past("seal_jobs") /\ Past("authorization")
      /\ Past("attach") /\ Past("redis")
  BY <1>2, WebPast DEF Past
<1>4. /\ engine = "open" /\ templates = Templates /\ wired = Ports
      /\ handlers = {"send_email", "delete_user_assets"} \cup {"erase_user"}
      /\ sealed = {"email"} \cup {"jobs"} \cup {"authorization"}
      /\ clients = IF ~settings.redis_url THEN {} ELSE {"limiters", "cache"} \cup {"app"}
      /\ late = {} /\ faults = {}
  BY <1>1, <1>2, <1>3
  DEF ProcessInv, StartInv, MadeEngine, MadeTemplates, MadeHandlers, MadeSealed, MadeWired,
      MadeClients, Unserved
<1>5. handlers = Jobs /\ sealed = Registries
  BY <1>4 DEF Jobs, Registries
<1>6. /\ app.attached = Attributes /\ app.engine /\ (app.redis <=> settings.redis_url)
      /\ ~repoClosed
  BY <1>1, <1>3 DEF ProcessInv, StartInv, MadeApp, Unserved
<1>7. /\ AppTypes' /\ app'.attached = app.attached /\ app'.engine = app.engine
      /\ app'.redis = app.redis /\ app'.ready = TRUE
  BY <1>1, Zenon DEF ProcessInv, AppTypes
<1>8. ServeInv'
  <2>1. sealed' = Registries /\ wired' = Ports /\ app'.attached = Attributes
        /\ templates' = Templates /\ engine' = "open" /\ late' = {} /\ faults' = {}
    BY <1>1, <1>4, <1>5, <1>6, <1>7
  <2>2. clients' = IF settings'.redis_url THEN {"limiters", "cache", "app"} ELSE {}
    BY <1>1, <1>4
  <2>3. ~repoClosed' /\ app'.ready /\ app'.engine /\ (app'.redis <=> settings'.redis_url)
    BY <1>1, <1>6, <1>7
  <2> QED
    BY <1>1, <1>2, <2>1, <2>2, <2>3 DEF ServeInv
<1>9. ProcessTypes'
  BY <1>1 DEF ProcessInv, ProcessTypes
<1>10. ProbeInv'
  BY <1>1 DEF ProcessInv, ProbeInv, Required
<1>11. RequestInv'
  BY <1>1 DEF ProcessInv, RequestInv
<1>12. AcceptedInv'
  BY <1>1, <1>2 DEF ProcessInv, AcceptedInv
<1>13. StartInv' /\ CloseInv' /\ WorkerInv' /\ ServedHandlers'
  BY <1>1, <1>5 DEF StartInv, CloseInv, WorkerInv, ServedHandlers
<1> QED
  BY <1>7, <1>8, <1>9, <1>10, <1>11, <1>12, <1>13 DEF ProcessInv

\* The last builder of the worker, its drain and its exit.
LEMMA FinishWorkerKeeps ==
    ASSUME ProcessInv, FinishWorker
    PROVE  ProcessInv'
<1>1. /\ phase = "starting" /\ Plan[kind][pc] = "crons" /\ phase' = "exited"
      /\ crons' = RelayCronSpecs(settings) \cup MaintenanceCronSpecs(settings)
      /\ \/ engine' = "disposed" /\ faults' = faults
         \/ engine' = engine /\ faults' = faults \cup {"dispose"}
      /\ UNCHANGED <<kind, settings, pc, repoClosed, clients, templates, handlers, sealed, wired,
                     app, req, late, probe>>
  BY DEF FinishWorker, At
<1>2. kind = "worker" /\ pc = 10
  BY <1>1, WebPlaces, WorkerPlaces DEF ProcessInv, ProcessTypes, StartInv
<1>3. /\ Past("email") /\ Past("handlers") /\ Past("erase_handler") /\ Past("seal_jobs")
      /\ ~Past("auth") /\ ~Past("redis") /\ ~Past("authorization")
  BY <1>2, WorkerPast DEF Past
<1>4. /\ templates = Templates /\ clients = {}
      /\ handlers = {"send_email", "delete_user_assets"} \cup {"erase_user"}
      /\ sealed = {"email"} \cup {"jobs"} \cup {}
  BY <1>1, <1>3
  DEF ProcessInv, StartInv, MadeTemplates, MadeHandlers, MadeSealed, MadeClients
<1>5. handlers = Jobs
  BY <1>4 DEF Jobs
<1>6. sealed = {"email", "jobs"}
  BY <1>4
<1>7. handlers = Jobs /\ sealed = {"email", "jobs"}
  BY <1>5, <1>6
<1>8. ~app.ready /\ \A r \in Requests : req[r] = "idle"
  BY <1>1 DEF ProcessInv, StartInv, Unserved
<1>9. CloseInv'
  <2>1. Released(10)'
    <3>1. ~tracer' /\ ~app'.ready
      BY <1>1, <1>8 DEF FinishWorker
    <3>2. engine' = "disposed" \/ "dispose" \in faults'
      BY <1>1
    <3>3. clients' = {}
      BY <1>1, <1>4
    <3> QED
      BY <3>1, <3>2, <3>3 DEF Released
  <2>2. Busy' = {}
    BY <1>1, <1>8 DEF Busy
  <2> QED
    BY <1>1, <2>1, <2>2 DEF CloseInv
<1>10. ProcessTypes'
  BY <1>1, Zenon DEF ProcessInv, ProcessTypes
<1>11. ProbeInv' /\ AppTypes'
  BY <1>1 DEF ProcessInv, ProbeInv, AppTypes, Required
<1>12. RequestInv' /\ StartInv' /\ ServeInv' /\ ServedHandlers'
  BY <1>1, <1>8 DEF RequestInv, StartInv, ServeInv, ServedHandlers
<1>13. AcceptedInv'
  BY <1>1, <1>2 DEF ProcessInv, AcceptedInv
<1>14. WorkerInv'
  BY <1>1, <1>4, <1>7 DEF WorkerInv
<1> QED
  BY <1>9, <1>10, <1>11, <1>12, <1>13, <1>14 DEF ProcessInv

-----------------------------------------------------------------------------
(* Serving.                                                                *)

\* A request is accepted by a process that is composed.
LEMMA AcceptKeeps ==
    ASSUME ProcessInv, NEW r \in Requests, Accept(r)
    PROVE  ProcessInv'
<1>1. /\ phase = "serving" /\ app.attached = Attributes /\ handlers = Jobs /\ late = {}
      /\ req \in [Requests -> {"idle", "ok", "resolved", "closed"}]
      /\ \A q \in Requests : req[q] # "closed"
  BY DEF Accept, ProcessInv, ServeInv, ServedHandlers, RequestInv, ProcessTypes
<1>2. /\ req' = [req EXCEPT ![r] = "resolved"]
      /\ UNCHANGED <<kind, settings, phase, pc, engine, repoClosed, clients, tracer, templates,
                     handlers, sealed, wired, app, crons, late, probe, faults>>
  BY <1>1 DEF Accept, startVars
<1>3. req' \in [Requests -> {"idle", "ok", "resolved", "closed"}]
      /\ \A q \in Requests : req'[q] # "closed"
  BY <1>1, <1>2
<1>4. ProcessTypes'
  BY <1>2, <1>3 DEF ProcessInv, ProcessTypes
<1>5. RequestInv'
  BY <1>1, <1>2, <1>3 DEF RequestInv
<1>6. ProbeInv' /\ AppTypes'
  BY <1>2 DEF ProcessInv, ProbeInv, AppTypes, Required
<1>7. ServeInv'
  BY <1>2 DEF ProcessInv, ServeInv
<1>8. StartInv' /\ CloseInv' /\ WorkerInv' /\ ServedHandlers' /\ AcceptedInv'
  BY <1>1, <1>2
  DEF ProcessInv, StartInv, CloseInv, WorkerInv, ServedHandlers, AcceptedInv
<1> QED
  BY <1>4, <1>5, <1>6, <1>7, <1>8 DEF ProcessInv

\* A handler uses the database and enqueues a job.
LEMMA WorkKeeps ==
    ASSUME ProcessInv, NEW r \in Requests, NEW job \in Jobs, NEW repository \in {"auth", "users"},
           Work(r, job, repository)
    PROVE  ProcessInv'
<1>1. /\ req[r] = "resolved" /\ handlers = Jobs /\ phase \notin {"failed", "killed"}
      /\ req \in [Requests -> {"idle", "ok", "resolved", "closed"}]
      /\ phase # "starting"
  BY DEF Work, ProcessInv, RequestInv, ProcessTypes, StartInv, Unserved
<1>2. UNCHANGED <<kind, settings, phase, pc, repoClosed, clients, tracer, templates,
                   handlers, sealed, wired, app, crons, late, probe, faults>>
  BY DEF Work
<1>3. /\ \/ repoClosed /\ req' = [req EXCEPT ![r] = "closed"] /\ engine' = engine
         \/ req' = [req EXCEPT ![r] = "ok"] /\ engine' = "open"
  BY <1>1, Zenon DEF Work, RepositoryRefuses
<1>4. repoClosed => r \in late
  <2>1. repoClosed => phase \in {"closing", "exited"}
    BY <1>1 DEF ProcessInv, ServeInv, ProcessTypes
  <2> QED
    BY <1>1, <2>1 DEF ProcessInv, CloseInv, Busy
<1>5. /\ req' \in [Requests -> {"idle", "ok", "resolved", "closed"}]
      /\ \A q \in Requests : q # r => req'[q] = req[q]
      /\ req'[r] \in {"closed", "ok"} /\ (req'[r] = "closed" => r \in late)
  BY <1>1, <1>3, <1>4
<1>6. ProcessTypes'
  <2>1. engine' \in {"none", "open", "disposed"}
    BY <1>3 DEF ProcessInv, ProcessTypes
  <2> QED
    BY <1>2, <1>5, <2>1 DEF ProcessInv, ProcessTypes
<1>7. RequestInv'
  BY <1>1, <1>2, <1>5 DEF ProcessInv, RequestInv
<1>8. ProbeInv' /\ AppTypes'
  BY <1>2 DEF ProcessInv, ProbeInv, AppTypes, Required
<1>9. ServeInv'
  <2>1. phase \in {"serving", "draining"} => engine' = "open"
    BY <1>3 DEF ProcessInv, ServeInv
  <2> QED
    BY <1>2, <2>1 DEF ProcessInv, ServeInv
<1>10. CloseInv'
  <2>1. Busy' \subseteq Busy
    BY <1>5 DEF Busy
  <2>2. phase \in {"closing", "exited"} => late # {} /\ r \in late
    BY <1>1 DEF ProcessInv, CloseInv, Busy
  <2>3. ASSUME NEW p \in Nat, phase \in {"closing", "exited"}, Released(p) PROVE Released(p)'
    <3>1. p <= 6 => engine' = "open"
      BY <1>3, <2>3 DEF Released
    <3> QED
      BY <1>2, <2>2, <2>3, <3>1 DEF Released
  <2>4. pc \in Nat
    BY DEF ProcessInv, ProcessTypes
  <2>5. phase = "closing" => \A x : x = pc => Released(x)'
    BY <2>3, <2>4 DEF ProcessInv, CloseInv
  <2>6. phase = "exited" => Released(10)'
    BY <2>3 DEF ProcessInv, CloseInv
  <2> QED
    BY <1>2, <2>1, <2>2, <2>5, <2>6 DEF ProcessInv, CloseInv
<1>11. StartInv' /\ WorkerInv' /\ ServedHandlers' /\ AcceptedInv'
  BY <1>1, <1>2 DEF ProcessInv, StartInv, WorkerInv, ServedHandlers, AcceptedInv
<1> QED
  BY <1>6, <1>7, <1>8, <1>9, <1>10, <1>11 DEF ProcessInv

\* A step that changes nothing but the probe.
LEMMA ProbeOnly ==
    ASSUME ProcessInv, ProbeInv',
           UNCHANGED <<kind, settings, phase, pc, startVars, req, late, faults>>
    PROVE  ProcessInv'
<1>1. ProcessTypes' /\ AppTypes' /\ AcceptedInv'
  BY DEF ProcessInv, ProcessTypes, AppTypes, AcceptedInv, startVars
<1>2. StartInv'
  BY DEF ProcessInv, StartInv, MadeEngine, MadeTemplates, MadeHandlers, MadeSealed, MadeWired,
         MadeClients, MadeApp, Unserved, Past, startVars
<1>3. ServeInv' /\ RequestInv' /\ WorkerInv' /\ ServedHandlers'
  BY DEF ProcessInv, ServeInv, RequestInv, WorkerInv, ServedHandlers, startVars
<1>4. CloseInv'
  BY DEF ProcessInv, CloseInv, Released, Busy, startVars
<1> QED
  BY <1>1, <1>2, <1>3, <1>4 DEF ProcessInv

\* A probe starts: it waits for every dependency the configuration names,
\* because settings that name a bucket-less S3 are not accepted.
LEMMA ProbeStartKeeps ==
    ASSUME ProcessInv, NEW up \in SUBSET Deps, ProbeStart(up)
    PROVE  ProcessInv'
<1>1. UNCHANGED <<kind, settings, phase, pc, startVars, req, late, faults>> /\ phase = "serving"
  BY DEF ProbeStart
<1>2. Required' = Required
  BY <1>1 DEF Required
<1>3. Required \subseteq ProbedDeps
  <2>1. SettingsErrors(settings) = {} /\ settings \in SettingsType
    BY <1>1 DEF ProcessInv, AcceptedInv, ProcessTypes
  <2>2. settings.storage_enabled /\ settings.storage_backend = "s3" => settings.storage_s3_bucket
    BY <2>1, AcceptedSettings
  <2>3. app.engine /\ (app.redis <=> settings.redis_url)
    BY <1>1 DEF ProcessInv, ServeInv
  <2> QED
    BY <2>2, <2>3 DEF Required, ProbedDeps
<1>4. ProbedDeps \subseteq Deps
  BY DEF ProbedDeps
<1> DEFINE D == ProbedDeps
<1> HIDE DEF D
<1>5. \/ probe' = [NoProbe EXCEPT !.code = 503]
      \/ probe' = [NoProbe EXCEPT !.at = "probing", !.deps = D, !.pending = D, !.up = up,
                                  !.seen = up]
  BY DEF ProbeStart, D
<1>6. \/ /\ probe'.at = "idle" /\ probe'.code = 503
         /\ probe' \in ProbeType
      \/ /\ probe'.at = "probing" /\ probe'.code = 0 /\ probe'.pending = D
         /\ probe'.up = up /\ probe'.seen = up
         /\ probe' \in ProbeType
  <2>1. CASE probe' = [NoProbe EXCEPT !.code = 503]
    BY <2>1 DEF NoProbe, ProbeType
  <2>2. CASE probe' = [NoProbe EXCEPT !.at = "probing", !.deps = D, !.pending = D, !.up = up,
                                      !.seen = up]
    <3>1. probe' = [at |-> "probing", deps |-> D, pending |-> D, failed |-> {}, up |-> up,
                    seen |-> up, code |-> 0]
      BY <2>2, Zenon DEF NoProbe
    <3>2. D \subseteq Deps
      BY <1>4 DEF D
    <3> QED
      BY <3>1, <3>2 DEF ProbeType
  <2> QED
    BY <1>5, <2>1, <2>2
<1>7. ProbeInv'
  BY <1>2, <1>3, <1>6 DEF ProbeInv, D
<1> QED
  BY <1>1, <1>7, ProbeOnly

\* The steps of a probe under way.
LEMMA ProbeStepKeeps ==
    ASSUME ProcessInv,
           \/ \E d \in Deps : ProbeDependency(d) \/ DependencyChanges(d)
           \/ ProbeAnswer
    PROVE  ProcessInv'
<1>1. UNCHANGED <<kind, settings, phase, pc, startVars, req, late, faults>>
  BY Zenon DEF ProbeDependency, DependencyChanges, ProbeAnswer
<1>2. settings' = settings
  BY <1>1
<1>3. Required' = Required
  BY <1>2, Zenon DEF Required
<1>4. /\ probe \in ProbeType
      /\ probe.at = "probing"
      /\ Required \subseteq probe.pending \cup probe.failed \cup probe.seen
      /\ probe.up \subseteq probe.seen /\ probe.code = 0
  BY Zenon DEF ProcessInv, ProbeInv, ProbeDependency, DependencyChanges, ProbeAnswer
<1> DEFINE P(at, pending, failed, up, seen, code) ==
               [at |-> at, deps |-> probe.deps, pending |-> pending, failed |-> failed,
                up |-> up, seen |-> seen, code |-> code]
<1>5. /\ probe = P("probing", probe.pending, probe.failed, probe.up, probe.seen, 0)
      /\ probe.deps \subseteq Deps /\ probe.pending \subseteq Deps /\ probe.failed \subseteq Deps
      /\ probe.up \subseteq Deps /\ probe.seen \subseteq Deps
  BY <1>4 DEF ProbeType
<1>6. ASSUME NEW d \in Deps, ProbeDependency(d) PROVE ProbeInv'
  <2>1. /\ d \in probe.pending
        /\ \/ d \in probe.up /\ probe' = [probe EXCEPT !.pending = probe.pending \ {d}]
           \/ probe' = [probe EXCEPT !.pending = probe.pending \ {d},
                                     !.failed = probe.failed \cup {d}]
    BY <1>6, Zenon DEF ProbeDependency
  <2>2. PICK failed \in {probe.failed, probe.failed \cup {d}} :
            /\ probe' = P("probing", probe.pending \ {d}, failed, probe.up, probe.seen, 0)
            /\ d \in probe.up \/ d \in failed
    <3>1. [probe EXCEPT !.pending = probe.pending \ {d}]
              = P("probing", probe.pending \ {d}, probe.failed, probe.up, probe.seen, 0)
      BY <1>5
    <3>2. [P("probing", probe.pending \ {d}, probe.failed, probe.up, probe.seen, 0)
               EXCEPT !.failed = probe.failed \cup {d}]
              = P("probing", probe.pending \ {d}, probe.failed \cup {d}, probe.up, probe.seen, 0)
      OBVIOUS
    <3> HIDE DEF P
    <3> QED
      BY <2>1, <3>1, <3>2, Zenon
  <2>3. /\ probe' \in ProbeType /\ probe'.up = probe.up /\ probe'.seen = probe.seen
        /\ probe'.code = 0 /\ probe'.pending = probe.pending \ {d} /\ probe'.failed = failed
    BY <1>5, <2>2 DEF ProbeType
  <2>4. Required \subseteq probe'.pending \cup probe'.failed \cup probe'.seen
    BY <1>4, <2>2, <2>3
  <2> QED
    BY <1>3, <1>4, <2>3, <2>4 DEF ProbeInv
<1>7. ASSUME NEW d \in Deps, DependencyChanges(d) PROVE ProbeInv'
  <2>1. PICK up \in SUBSET Deps :
            /\ up \subseteq probe.up \cup {d}
            /\ probe' = [probe EXCEPT !.up = up, !.seen = probe.seen \cup {d}]
    BY <1>7, <1>5, Zenon DEF DependencyChanges
  <2>2. probe' = P("probing", probe.pending, probe.failed, up, probe.seen \cup {d}, 0)
    <3>1. [probe EXCEPT !.up = up]
              = P("probing", probe.pending, probe.failed, up, probe.seen, 0)
      BY <1>5
    <3>2. [P("probing", probe.pending, probe.failed, up, probe.seen, 0)
               EXCEPT !.seen = probe.seen \cup {d}]
              = P("probing", probe.pending, probe.failed, up, probe.seen \cup {d}, 0)
      OBVIOUS
    <3> HIDE DEF P
    <3> QED
      BY <2>1, <3>1, <3>2, Zenon
  <2>3. /\ probe' \in ProbeType /\ probe'.up = up /\ probe'.seen = probe.seen \cup {d}
        /\ probe'.code = 0 /\ probe'.pending = probe.pending /\ probe'.failed = probe.failed
    BY <1>5, <2>2 DEF ProbeType
  <2>4. /\ Required \subseteq probe'.pending \cup probe'.failed \cup probe'.seen
        /\ probe'.up \subseteq probe'.seen
    BY <1>4, <2>1, <2>3
  <2> QED
    BY <1>3, <2>3, <2>4 DEF ProbeInv
<1>8. ASSUME ProbeAnswer PROVE ProbeInv'
  <2> DEFINE code == IF probe.failed = {} THEN 200 ELSE 503
  <2>1. /\ probe.pending = {}
        /\ probe' = [probe EXCEPT !.at = "idle", !.up = {}, !.code = code]
    BY <1>8 DEF ProbeAnswer
  <2>2. code \in {200, 503} /\ (code = 200 => probe.failed = {})
    OBVIOUS
  <2> HIDE DEF code
  <2>3. probe' = P("idle", probe.pending, probe.failed, {}, probe.seen, code)
    <3>1. [probe EXCEPT !.at = "idle"]
              = P("idle", probe.pending, probe.failed, probe.up, probe.seen, 0)
      BY <1>5
    <3>2. [P("idle", probe.pending, probe.failed, probe.up, probe.seen, 0) EXCEPT !.up = {}]
              = P("idle", probe.pending, probe.failed, {}, probe.seen, 0)
      OBVIOUS
    <3>3. [P("idle", probe.pending, probe.failed, {}, probe.seen, 0) EXCEPT !.code = code]
              = P("idle", probe.pending, probe.failed, {}, probe.seen, code)
      OBVIOUS
    <3> HIDE DEF P
    <3> QED
      BY <2>1, <3>1, <3>2, <3>3, Zenon
  <2>4. probe' \in ProbeType /\ probe'.at = "idle" /\ probe'.seen = probe.seen /\ probe'.code = code
    BY <1>5, <2>2, <2>3 DEF ProbeType
  <2> QED
    BY <1>3, <1>4, <2>2, <2>4, <2>1 DEF ProbeInv
<1>9. ProbeInv'
  BY <1>6, <1>7, <1>8
<1> QED
  BY <1>1, <1>9, ProbeOnly

-----------------------------------------------------------------------------
(* Shutdown.                                                               *)

\* The server is told to stop.
LEMMA SignalKeeps ==
    ASSUME ProcessInv, Signal
    PROVE  ProcessInv'
<1>1. phase = "serving" /\ phase' = "draining" /\ UNCHANGED <<kind, settings, pc, startVars, serveVars>>
  BY DEF Signal
<1>2. ProcessTypes' /\ AppTypes' /\ AcceptedInv'
  BY <1>1 DEF ProcessInv, ProcessTypes, AppTypes, AcceptedInv, startVars, serveVars
<1>3. ServeInv' /\ RequestInv' /\ ServedHandlers'
  BY <1>1 DEF ProcessInv, ServeInv, RequestInv, ServedHandlers, startVars, serveVars
<1>4. ProbeInv'
  BY <1>1 DEF ProcessInv, ProbeInv, Required, serveVars
<1> QED
  BY <1>1, <1>2, <1>3, <1>4 DEF ProcessInv, StartInv, CloseInv, WorkerInv

\* The drain ends, with nothing in flight or with the threads it gives up on.
LEMMA DrainKeeps ==
    ASSUME ProcessInv, Drained \/ DrainTimeout
    PROVE  ProcessInv'
<1>1. /\ phase = "draining" /\ phase' = "closing" /\ pc' = 1 /\ probe' = NoProbe
      /\ UNCHANGED <<kind, settings, startVars, req, faults>>
      /\ Busy \subseteq late' /\ late' \subseteq Requests
  BY DEF Drained, DrainTimeout, ProcessInv, ProcessTypes, Busy
<1>2. /\ kind = "web" /\ engine = "open" /\ ~repoClosed /\ late = {} /\ handlers = Jobs
  BY <1>1 DEF ProcessInv, ServeInv, ServedHandlers
<1>3. Busy' = Busy
  BY <1>1 DEF Busy
<1>4. ProcessTypes'
  BY <1>1 DEF ProcessInv, ProcessTypes, startVars
<1>5. AppTypes' /\ AcceptedInv'
  BY <1>1 DEF ProcessInv, AppTypes, AcceptedInv, startVars
<1>6. RequestInv'
  BY <1>1, <1>2 DEF ProcessInv, RequestInv, startVars
<1>7. CloseInv'
  <2>1. Released(1)'
    BY <1>1, <1>2 DEF Released, startVars
  <2>2. \A x : x = 1 => Released(x)'
    BY <2>1
  <2> QED
    BY <1>1, <1>2, <1>3, <2>2 DEF CloseInv
<1>8. ProbeInv'
  BY <1>1 DEF ProbeInv, ProbeType, NoProbe, Deps
<1> QED
  BY <1>1, <1>2, <1>4, <1>5, <1>6, <1>7, <1>8
  DEF ProcessInv, StartInv, ServeInv, WorkerInv, ServedHandlers, startVars

\* A finalizer ends: what is left to show is what it released.
LEMMA FinalizerKeeps ==
    ASSUME ProcessInv, phase = "closing", NextFinalizer, pc <= 8,
           AppTypes', engine' \in {"none", "open", "disposed"}, clients' \subseteq clients,
           faults' \subseteq {"dispose", "limiters", "cache", "redis"},
           UNCHANGED <<templates, handlers, sealed, wired, crons>>,
           \A x : x = pc + 1 => Released(x)'
    PROVE  ProcessInv'
<1>1. /\ phase' = "closing" /\ pc' = pc + 1 /\ kind = "web" /\ pc \in Nat \ {0}
      /\ UNCHANGED <<kind, settings, phase, req, late, probe>>
  BY DEF NextFinalizer, ProcessInv, CloseInv, ProcessTypes
<1>2. ProcessTypes'
  BY <1>1 DEF ProcessInv, ProcessTypes
<1>3. AcceptedInv' /\ RequestInv' /\ ServedHandlers'
  BY <1>1 DEF ProcessInv, AcceptedInv, RequestInv, ServedHandlers
<1>4. ProbeInv'
  BY <1>1 DEF ProcessInv, ProbeInv, Required
<1>5. CloseInv'
  <2>1. Busy' = Busy
    BY <1>1 DEF Busy
  <2>2. \A x : x = pc' => Released(x)'
    BY <1>1
  <2> QED
    BY <1>1, <2>1, <2>2 DEF ProcessInv, CloseInv
<1> QED
  BY <1>1, <1>2, <1>3, <1>4, <1>5 DEF ProcessInv, StartInv, ServeInv, WorkerInv

\* Readiness drops, and the hooks that do nothing run.
LEMMA FinalizeNothingKeeps ==
    ASSUME ProcessInv, FinalizeNothing
    PROVE  ProcessInv'
<1>1. /\ phase = "closing" /\ NextFinalizer /\ app' = [app EXCEPT !.ready = FALSE]
      /\ UNCHANGED <<engine, repoClosed, clients, tracer, templates, handlers, sealed, wired,
                     crons, faults>>
      /\ Finalizers[pc] \in {"ready", "outbox", "jobs", "users", "authorization"}
  BY DEF FinalizeNothing, Closing
<1>2. pc \in 1..5 /\ Released(pc) /\ late' = late
  BY <1>1, FinalizerPlaces DEF ProcessInv, CloseInv, ProcessTypes, NextFinalizer
<1>3. AppTypes' /\ ~app'.ready
  BY <1>1, Zenon DEF ProcessInv, AppTypes
<1>4. engine = "open" /\ ~repoClosed /\ pc + 1 <= 6
  BY <1>2 DEF Released
<1>5. \A x : x = pc + 1 => Released(x)'
  BY <1>1, <1>2, <1>3, <1>4 DEF Released
<1>6. engine' \in {"none", "open", "disposed"} /\ clients' \subseteq clients
      /\ faults' \subseteq {"dispose", "limiters", "cache", "redis"}
  BY <1>1, <1>4 DEF ProcessInv, ProcessTypes
<1> QED
  BY <1>1, <1>2, <1>3, <1>5, <1>6, FinalizerKeeps

\* auth.shutdown, to its end or to the first of its steps that raises.
LEMMA FinalizeAuthKeeps ==
    ASSUME ProcessInv, FinalizeAuth
    PROVE  ProcessInv'
<1>1. /\ phase = "closing" /\ NextFinalizer /\ Finalizers[pc] = "auth"
      /\ UNCHANGED <<tracer, templates, handlers, sealed, wired, app, crons>>
      /\ \/ engine' = "disposed" /\ clients' = clients \ {"limiters", "cache"} /\ faults' = faults
         \/ engine' = engine /\ clients' = clients /\ faults' = faults \cup {"dispose"}
         \/ engine' = "disposed" /\ clients' = clients /\ faults' = faults \cup {"limiters"}
         \/ engine' = "disposed" /\ clients' = clients \ {"limiters"} /\ faults' = faults \cup {"cache"}
  BY DEF FinalizeAuth, Closing
<1>2. pc = 6 /\ Released(pc) /\ late' = late
  BY <1>1, FinalizerPlaces DEF ProcessInv, CloseInv, ProcessTypes, NextFinalizer
<1>3. engine = "open" /\ ~app.ready
  BY <1>2 DEF Released
<1>4. AppTypes' /\ ~app'.ready
  BY <1>1, <1>3 DEF ProcessInv, AppTypes
<1>5. /\ late' = {} /\ "dispose" \notin faults' => engine' = "disposed"
      /\ clients' \cap {"limiters", "cache"} # {} =>
             faults' \cap {"dispose", "limiters", "cache"} # {}
  BY <1>1
<1>6. \A x : x = pc + 1 => Released(x)'
  BY <1>2, <1>4, <1>5 DEF Released
<1>7. engine' \in {"none", "open", "disposed"} /\ clients' \subseteq clients
      /\ faults' \subseteq {"dispose", "limiters", "cache", "redis"}
  BY <1>1, <1>3, Zenon DEF ProcessInv, ProcessTypes
<1> QED
  BY <1>1, <1>2, <1>4, <1>6, <1>7, FinalizerKeeps

\* The client of the probes is closed, or its close raises.
LEMMA FinalizeRedisKeeps ==
    ASSUME ProcessInv, FinalizeRedis
    PROVE  ProcessInv'
<1>1. /\ phase = "closing" /\ NextFinalizer /\ Finalizers[pc] = "redis"
      /\ UNCHANGED <<engine, repoClosed, tracer, templates, handlers, sealed, wired, app, crons>>
      /\ \/ clients' = clients \ {"app"} /\ faults' = faults
         \/ clients' = clients /\ faults' = faults \cup {"redis"}
  BY DEF FinalizeRedis, Closing
<1>2. pc = 7 /\ Released(pc) /\ late' = late
  BY <1>1, FinalizerPlaces DEF ProcessInv, CloseInv, ProcessTypes, NextFinalizer
<1>3. /\ ~app.ready
      /\ late = {} /\ "dispose" \notin faults => engine = "disposed"
      /\ clients \cap {"limiters", "cache"} # {} =>
             faults \cap {"dispose", "limiters", "cache"} # {}
  BY <1>2 DEF Released
<1>4. AppTypes' /\ ~app'.ready
  BY <1>1, <1>3 DEF ProcessInv, AppTypes
<1>5. /\ late' = {} /\ "dispose" \notin faults' => engine' = "disposed"
      /\ clients' \cap {"limiters", "cache"} # {} =>
             faults' \cap {"dispose", "limiters", "cache"} # {}
      /\ "app" \in clients' => "redis" \in faults'
  BY <1>1, <1>2, <1>3
<1>6. \A x : x = pc + 1 => Released(x)'
  BY <1>2, <1>4, <1>5 DEF Released
<1>7. engine' \in {"none", "open", "disposed"} /\ clients' \subseteq clients
      /\ faults' \subseteq {"dispose", "limiters", "cache", "redis"}
  BY <1>1, Zenon DEF ProcessInv, ProcessTypes
<1> QED
  BY <1>1, <1>2, <1>4, <1>6, <1>7, FinalizerKeeps

\* The tracer is shut down.
LEMMA FinalizeTracingKeeps ==
    ASSUME ProcessInv, FinalizeTracing
    PROVE  ProcessInv'
<1>1. /\ phase = "closing" /\ NextFinalizer /\ Finalizers[pc] = "tracing" /\ ~tracer'
      /\ UNCHANGED <<engine, repoClosed, clients, templates, handlers, sealed, wired, app, crons,
                     faults>>
  BY DEF FinalizeTracing, Closing
<1>2. pc = 8 /\ Released(pc) /\ late' = late
  BY <1>1, FinalizerPlaces DEF ProcessInv, CloseInv, ProcessTypes, NextFinalizer
<1>3. AppTypes'
  BY <1>1 DEF ProcessInv, AppTypes
<1>4. \A x : x = pc + 1 => Released(x)'
  BY <1>1, <1>2 DEF Released
<1>5. engine' \in {"none", "open", "disposed"} /\ clients' \subseteq clients
      /\ faults' \subseteq {"dispose", "limiters", "cache", "redis"}
  BY <1>1 DEF ProcessInv, ProcessTypes
<1> QED
  BY <1>1, <1>2, <1>3, <1>4, <1>5, FinalizerKeeps

\* app.state is cleared and the process exits.
LEMMA ClearStateKeeps ==
    ASSUME ProcessInv, ClearState
    PROVE  ProcessInv'
<1>1. /\ phase = "closing" /\ Finalizers[pc] = "state" /\ phase' = "exited"
      /\ UNCHANGED <<kind, settings, pc, engine, repoClosed, clients, tracer, templates,
                     handlers, sealed, wired, crons, req, late, probe, faults>>
  BY DEF ClearState, Closing, serveVars
<1>2. pc = 9 /\ Released(pc) /\ kind = "web"
  BY <1>1, FinalizerPlaces DEF ProcessInv, CloseInv, ProcessTypes
<1>3. AppTypes' /\ app'.ready = app.ready
  <2>1. app = [attached |-> app.attached, redis |-> app.redis, engine |-> app.engine,
               ready |-> app.ready]
        /\ app.attached \subseteq Attributes /\ app.ready \in BOOLEAN
    BY DEF ProcessInv, AppTypes
  <2> DEFINE t == app.attached \ {"container"}
             no == FALSE
             on == app.ready
             a(at, re, en) == [attached |-> at, redis |-> re, engine |-> en, ready |-> on]
  <2>2. /\ app = a(app.attached, app.redis, app.engine)
        /\ app' = [app EXCEPT !.attached = t, !.redis = no, !.engine = no]
    BY <2>1 DEF ClearState
  <2> HIDE DEF no, on
  <2>3. \A f, g, h : [a(f, g, h) EXCEPT !.attached = t] = a(t, g, h)
    OBVIOUS
  <2>4. \A f, g, h : [a(f, g, h) EXCEPT !.redis = no] = a(f, no, h)
    OBVIOUS
  <2>5. \A f, g, h : [a(f, g, h) EXCEPT !.engine = no] = a(f, g, no)
    OBVIOUS
  <2>6. app' = a(t, no, no)
    <3> DEFINE x == app.redis
               y == app.engine
    <3>1. [a(app.attached, x, y) EXCEPT !.attached = t] = a(t, x, y)
      BY <2>3
    <3>2. [a(t, x, y) EXCEPT !.redis = no] = a(t, no, y)
      BY <2>4
    <3>3. [a(t, no, y) EXCEPT !.engine = no] = a(t, no, no)
      BY <2>5
    <3>4. app = a(app.attached, x, y)
      BY <2>2
    <3> HIDE DEF a, x, y
    <3>5. [app EXCEPT !.attached = t] = a(t, x, y)
      BY <3>1, <3>4, Zenon
    <3> QED
      BY <2>2, <3>2, <3>3, <3>5, Zenon
  <2>7. app'.attached = t /\ app'.ready = on /\ app' \in [attached : {t}, redis : {no}, engine : {no}, ready : {on}]
    BY <2>6
  <2> QED
    BY <2>1, <2>7, Zenon DEF AppTypes, no, on
<1>4. CloseInv'
  <2>1. Released(10)'
    BY <1>1, <1>2, <1>3 DEF Released
  <2>2. Busy' = Busy
    BY <1>1 DEF Busy
  <2> QED
    BY <1>1, <2>1, <2>2 DEF ProcessInv, CloseInv
<1>5. ProcessTypes'
  BY <1>1 DEF ProcessInv, ProcessTypes
<1>6. AcceptedInv' /\ RequestInv'
  BY <1>1 DEF ProcessInv, AcceptedInv, RequestInv
<1>7. ProbeInv'
  BY <1>1 DEF ProcessInv, ProbeInv, Required
<1> QED
  BY <1>1, <1>2, <1>3, <1>4, <1>5, <1>6, <1>7
  DEF ProcessInv, StartInv, ServeInv, WorkerInv, ServedHandlers

\* The process is killed: it makes no promise any more.
LEMMA KillKeeps ==
    ASSUME ProcessInv, Kill
    PROVE  ProcessInv'
<1>1. /\ phase \in {"draining", "closing"} /\ phase' = "killed"
      /\ UNCHANGED <<kind, settings, pc, startVars, serveVars>>
  BY DEF Kill
<1>2. ProcessTypes'
  BY <1>1 DEF ProcessInv, ProcessTypes, startVars, serveVars
<1>3. AppTypes' /\ AcceptedInv'
  BY <1>1 DEF ProcessInv, AppTypes, AcceptedInv, startVars
<1>4. RequestInv'
  BY <1>1 DEF ProcessInv, RequestInv, startVars, serveVars
<1>5. ProbeInv'
  BY <1>1 DEF ProcessInv, ProbeInv, Required, serveVars
<1> QED
  BY <1>1, <1>2, <1>5, <1>3, <1>4
  DEF ProcessInv, StartInv, ServeInv, CloseInv, WorkerInv, ServedHandlers

\* Every step keeps the invariant.
LEMMA ProcessStep == ProcessInv /\ [Next]_vars => ProcessInv'
<1> SUFFICES ASSUME ProcessInv, [Next]_vars PROVE ProcessInv'
  OBVIOUS
<1>1. CASE Compose
  BY <1>1, LoadSettingsKeeps, BuildEngineKeeps, BuildEmailKeeps, BuildJobsKeeps,
     BuildFileStorageKeeps, RegisterHandlersKeeps, BuildAuthKeeps, WireUsersKeeps,
     RegisterEraseHandlerKeeps, SealJobsKeeps, BuildAuthorizationKeeps, RunAuthzBootstrapKeeps,
     AttachContainersKeeps, OpenRedisKeeps, BecomeReadyKeeps, FinishWorkerKeeps DEF Compose
<1>2. ASSUME NEW r \in Requests, Accept(r) PROVE ProcessInv'
  BY <1>2, AcceptKeeps
<1>3. ASSUME NEW r \in Requests, NEW job \in Jobs, NEW repository \in {"auth", "users"},
             Work(r, job, repository)
      PROVE  ProcessInv'
  BY <1>3, WorkKeeps
<1>4. ASSUME NEW up \in SUBSET Deps, ProbeStart(up) PROVE ProcessInv'
  BY <1>4, ProbeStartKeeps
<1>5. CASE (\E d \in Deps : ProbeDependency(d) \/ DependencyChanges(d)) \/ ProbeAnswer
  BY <1>5, ProbeStepKeeps
<1>6. CASE Signal \/ Drained \/ DrainTimeout \/ Kill
  BY <1>6, SignalKeeps, DrainKeeps, KillKeeps
<1>7. CASE Finalize
  BY <1>7, FinalizeNothingKeeps, FinalizeAuthKeeps, FinalizeRedisKeeps, FinalizeTracingKeeps,
     ClearStateKeeps DEF Finalize
<1>8. CASE UNCHANGED vars
  <2>1. UNCHANGED <<kind, settings, phase, pc, startVars, req, late, faults>>
    BY <1>8 DEF vars, serveVars
  <2>2. ProbeInv'
    BY <1>8 DEF ProcessInv, ProbeInv, Required, vars, serveVars
  <2> QED
    BY <2>1, <2>2, ProbeOnly
<1> QED
  BY <1>1, <1>2, <1>3, <1>4, <1>5, <1>6, <1>7, <1>8 DEF Next, Terminated

-----------------------------------------------------------------------------
(* Theorems.                                                               *)

\* The invariant holds in every reachable state.
LEMMA ProcessInvariant == Spec => []ProcessInv
BY ProcessStarts, ProcessStep, PTL DEF Spec

\* Whatever the deployment, a web process that serves is completely composed,
\* no request meets a missing container or a job without a handler, and the
\* worker ends with the handlers and templates of the web process.
THEOREM ServesComposed == Spec => []ComposedBeforeUse
<1>1. ProcessInv => ComposedBeforeUse
  <2> SUFFICES ASSUME ProcessInv PROVE ComposedBeforeUse
    OBVIOUS
  <2>1. ASSUME phase \in {"serving", "draining"}
        PROVE  /\ sealed = Registries /\ wired = Ports /\ app.attached = Attributes
               /\ templates = Templates /\ handlers = Jobs /\ engine = "open"
               /\ clients = IF settings.redis_url THEN {"limiters", "cache", "app"} ELSE {}
    BY <2>1 DEF ProcessInv, ServeInv, ServedHandlers
  <2>2. ASSUME phase \in {"serving", "draining"}
        PROVE  app.ready /\ app.engine /\ app.redis = settings.redis_url
    <3>1. app.redis \in BOOLEAN /\ settings.redis_url \in BOOLEAN
      BY SettingsFields DEF ProcessInv, AppTypes, ProcessTypes
    <3>2. app.ready /\ app.engine /\ (app.redis <=> settings.redis_url)
      BY <2>2 DEF ProcessInv, ServeInv
    <3> QED
      BY <3>1, <3>2
  <2>3. ASSUME phase \in {"serving", "draining"}
        PROVE  ("app" \in clients) = settings.redis_url
    <3>1. settings.redis_url \in BOOLEAN
      BY SettingsFields DEF ProcessInv, ProcessTypes
    <3>2. ("app" \in clients) <=> settings.redis_url
      BY <2>1, <2>3
    <3> QED
      BY <3>1, <3>2
  <2>4. \A r \in Requests : /\ req[r] \notin {"not_ready", "unknown_job"}
                            /\ req[r] = "closed" => r \in late
    BY DEF ProcessInv, ProcessTypes, RequestInv
  <2>5. kind = "worker" /\ phase = "exited" =>
            sealed = {"email", "jobs"} /\ templates = Templates /\ handlers = Jobs
    BY DEF ProcessInv, WorkerInv
  <2> QED
    BY <2>1, <2>2, <2>3, <2>4, <2>5, Zenon DEF ComposedBeforeUse
<1> QED
  BY <1>1, ProcessInvariant, PTL

\* Whatever raised on the way down, a process that exits has dropped readiness,
\* shut its tracer down and released its engine and its Redis clients, but for
\* the ones whose own finalizer raised and an engine a late thread reopened.
THEOREM ExitsClean == Spec => []CleanExit
<1>1. ProcessInv => CleanExit
  <2> SUFFICES ASSUME ProcessInv, phase = "exited" PROVE CleanExit
    BY DEF CleanExit
  <2>1. Released(10)
    BY DEF ProcessInv, CloseInv
  <2> QED
    BY <2>1 DEF Released, CleanExit
<1> QED
  BY <1>1, ProcessInvariant, PTL

\* A 200 from /health/ready is true of that very probe, for every configuration
\* the validation accepts.
THEOREM ReadyIsTrue == Spec => []NoFalseReady
<1>1. ProcessInv => NoFalseReady
  BY DEF ProcessInv, ProbeInv, NoFalseReady, Required
<1> QED
  BY <1>1, ProcessInvariant, PTL

\* Settings that were accepted keep the promises the outbox, the probes and the
\* drain rely on, and the worker's schedule is the nearest one that divides the
\* minute or the hour, for every integer interval.
THEOREM SettingsAreSound == Spec => []SettingsSound
<1>1. ProcessInv => SettingsSound
  <2> SUFFICES ASSUME ProcessInv PROVE SettingsSound
    OBVIOUS
  <2> DEFINE s == settings
  <2>1. s \in SettingsType
    BY DEF ProcessInv, ProcessTypes
  <2>2. ASSUME pc > 1 \/ phase \notin {"starting", "failed"}
        PROVE  /\ s.max_attempts >= 1 /\ s.claim_batch_size >= 1 /\ s.prune_batch_size >= 1
               /\ 0 < s.retry_base_seconds /\ s.retry_base_seconds <= s.retry_max_seconds
               /\ DedupRetentionSeconds(s) > s.retry_max_seconds
               /\ s.retention_delivered_days >= 1 /\ s.retention_failed_days >= 1
               /\ s.probe_timeout_ms > 0 /\ s.shutdown_timeout_ms > 0
               /\ s.environment # "production"
    <3>1. SettingsErrors(s) = {}
      BY <2>2 DEF ProcessInv, AcceptedInv
    <3> QED
      BY <2>1, <3>1, AcceptedSettings, SettingsFields DEF DedupRetentionSeconds
  <2> DEFINE Nearest(d, n) == /\ 60 % d = 0
                              /\ \A e \in 1..60 : 60 % e = 0 =>
                                     \/ Abs(d - n) < Abs(e - n)
                                     \/ Abs(d - n) = Abs(e - n) /\ e <= d
             Every(name) == {c.every : c \in {x \in crons : x.name = name}}
  <2>3. ASSUME kind = "worker", phase = "exited"
        PROVE  /\ (Every("outbox-relay") = {}) = ~settings.outbox_enabled
               /\ (Every("outbox-prune") = {}) = ~settings.outbox_enabled
               /\ (Every("auth-purge-tokens") = {}) = (settings.token_purge_interval_minutes <= 0)
               /\ \A n \in Every("outbox-relay") : Nearest(n, settings.relay_interval_seconds)
               /\ \A n \in Every("auth-purge-tokens") :
                      n % 60 = 0 /\ Nearest(n \div 60, settings.token_purge_interval_minutes)
    <3> DEFINE a == SnapToDivisor(s.relay_interval_seconds)
               b == SnapToDivisor(s.token_purge_interval_minutes)
               on == s.outbox_enabled
               off == s.token_purge_interval_minutes <= 0
    <3>1. on \in BOOLEAN /\ off \in BOOLEAN /\ s.token_purge_interval_minutes \in Int
      BY <2>1, SettingsFields
    <3>2. crons = RelayCronSpecs(s) \cup MaintenanceCronSpecs(s)
      BY <2>3 DEF ProcessInv, WorkerInv
    <3>3. \A c : c \in crons <=>
              \/ on /\ c = [name |-> "outbox-relay", every |-> a]
              \/ on /\ c = [name |-> "outbox-prune", every |-> 3600]
              \/ ~off /\ c = [name |-> "auth-purge-tokens", every |-> b * 60]
      BY <3>1, <3>2 DEF RelayCronSpecs, MaintenanceCronSpecs
    <3>4. Nearest(a, s.relay_interval_seconds)
      <4>1. s.relay_interval_seconds \in Nat \ {0}
        <5>1. SettingsErrors(s) = {}
          BY <2>3 DEF ProcessInv, AcceptedInv
        <5> QED
          BY <2>1, <5>1, AcceptedSettings, SettingsFields
      <4> QED
        BY <4>1, SnapNearest
    <3>5. ~off => b \in 1..60 /\ Nearest(b, s.token_purge_interval_minutes)
      <4>1. ~off => s.token_purge_interval_minutes \in Nat \ {0}
        BY <3>1
      <4> QED
        BY <4>1, SnapNearest
    <3>6. ~off => (b * 60) % 60 = 0 /\ (b * 60) \div 60 = b
      BY <3>5
    <3> DEFINE m == b * 60
               relay == [name |-> "outbox-relay", every |-> a]
               prune == [name |-> "outbox-prune", every |-> 3600]
               purge == [name |-> "auth-purge-tokens", every |-> m]
    <3>7. /\ relay.name = "outbox-relay" /\ relay.every = a
           /\ prune.name = "outbox-prune" /\ prune.every = 3600
           /\ purge.name = "auth-purge-tokens" /\ purge.every = m
      OBVIOUS
    <3>8. \A c : c \in crons <=> (on /\ c = relay) \/ (on /\ c = prune) \/ (~off /\ c = purge)
      BY <3>3
    <3> HIDE DEF a, b, on, off, m, s, Nearest, relay, prune, purge
    <3>9. \A v : v \in Every("outbox-relay") <=> on /\ v = a
      BY <3>7, <3>8
    <3>10. \A v : v \in Every("outbox-prune") <=> on /\ v = 3600
      BY <3>7, <3>8
    <3>11. \A v : v \in Every("auth-purge-tokens") <=> ~off /\ v = m
      BY <3>7, <3>8
    <3> HIDE DEF Every
    <3>12. /\ (Every("outbox-relay") = {}) <=> ~on
           /\ (Every("outbox-prune") = {}) <=> ~on
           /\ (Every("auth-purge-tokens") = {}) <=> off
      BY <3>9, <3>10, <3>11
    <3>13. /\ (Every("outbox-relay") = {}) = ~on
           /\ (Every("outbox-prune") = {}) = ~on
           /\ (Every("auth-purge-tokens") = {}) = off
      BY <3>1, <3>12, Zenon
    <3>14. \A n \in Every("outbox-relay") : Nearest(n, s.relay_interval_seconds)
      BY <3>4, <3>9
    <3>15. \A n \in Every("auth-purge-tokens") :
               n % 60 = 0 /\ Nearest(n \div 60, s.token_purge_interval_minutes)
      <4>1. ~off => m % 60 = 0 /\ m \div 60 = b
        BY <3>6 DEF m
      <4> QED
        BY <3>5, <3>11, <4>1
    <3> QED
      BY <3>13, <3>14, <3>15 DEF on, off, s
  <2> QED
    BY <2>2, <2>3, Zenon DEF SettingsSound
<1> QED
  BY <1>1, ProcessInvariant, PTL

\* The shared engine is disposed only by auth.shutdown: after readiness dropped,
\* after the hooks of the features that use it, and with no request in flight
\* but the threads the drain gave up on.
THEOREM EngineGoesLast == Spec => DisposedLast
<1>1. ProcessInv /\ [Next]_vars =>
          (kind = "web" /\ engine = "open" /\ engine' = "disposed" =>
               /\ ~app.ready
               /\ \A f \in {"outbox", "jobs", "users", "authorization"} :
                      \E i \in 1..(pc - 1) : Finalizers[i] = f
               /\ Busy \subseteq late)
  <2> SUFFICES ASSUME ProcessInv, [Next]_vars, kind = "web", engine = "open", engine' = "disposed"
               PROVE  /\ ~app.ready
                      /\ \A f \in {"outbox", "jobs", "users", "authorization"} :
                             \E i \in 1..(pc - 1) : Finalizers[i] = f
                      /\ Busy \subseteq late
    OBVIOUS
  <2>1. ~FinishWorker
    <3> SUFFICES ASSUME FinishWorker PROVE FALSE
      OBVIOUS
    <3> QED
      BY WebPlaces DEF FinishWorker, At, ProcessInv, ProcessTypes, StartInv
  <2>2. FinalizeAuth
    BY <2>1
    DEF Next, Compose, LoadSettings, BuildEngine, BuildEmail, BuildJobs, BuildFileStorage,
        RegisterHandlers, BuildAuth, WireUsers, RegisterEraseHandler, SealJobs,
        BuildAuthorization, RunAuthzBootstrap, AttachContainers, OpenRedis, BecomeReady, Raise,
        Accept, Work, ProbeStart, ProbeDependency, DependencyChanges, ProbeAnswer, Signal,
        Drained, DrainTimeout, Finalize, FinalizeNothing, FinalizeRedis, FinalizeTracing,
        ClearState, Kill, Terminated, vars, startVars
  <2>3. phase = "closing" /\ pc = 6 /\ Released(pc) /\ Busy \subseteq late
    BY <2>2, FinalizerPlaces DEF FinalizeAuth, Closing, ProcessInv, ProcessTypes, CloseInv
  <2>4. \A f \in {"outbox", "jobs", "users", "authorization"} :
            \E i \in 1..(pc - 1) : Finalizers[i] = f
    <3>1. /\ Finalizers[2] = "outbox" /\ Finalizers[3] = "jobs"
          /\ Finalizers[4] = "users" /\ Finalizers[5] = "authorization"
      BY FinalizerPlaces
    <3>2. 2 \in 1..(pc - 1) /\ 3 \in 1..(pc - 1) /\ 4 \in 1..(pc - 1) /\ 5 \in 1..(pc - 1)
      BY <2>3
    <3> QED
      BY <3>1, <3>2, Zenon
  <2> QED
    BY <2>3, <2>4 DEF Released
<1> QED
  BY <1>1, ProcessInvariant, PTL DEF Spec, DisposedLast
=============================================================================
