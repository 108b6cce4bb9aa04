# TLA+ verification of the FastAPI starter template

The repository is a service template: HTTP features (authentication, users,
authorization, email, jobs, file storage) over one PostgreSQL database, a
transactional outbox whose relay runs background jobs, and optional Redis for
caches and rate limits. What is hard in it is seldom a single function. It is
what several requests, relay workers and sweeps do to the same rows between
their transactions, what a crash leaves behind, and in which order a process is
put together and taken apart. This directory models those parts in TLA+, checks
them with TLC on small instances and proves the central facts with TLAPS for
every instance.

Source paths below are relative to `src/src/` unless they start with `docs/` or
`alembic/`. `PROJECT.json` lists the components, the runs, the mutants that show
that each property can fail, the lines each definition translates, the findings,
the hazards and the theorems.

## 1. The parts and their modules

| part | module | state | what makes it hard |
| --- | --- | --- | --- |
| Outbox (`features/outbox`, job handlers) | `Outbox`, `OutboxContract` | `outbox_messages`, `processed_outbox_messages` | several relays, a crash between any two transactions, redelivery with handler dedup, backoff |
| Refresh tokens (`features/authentication`, account flags of `features/users`) | `Sessions`, `SessionContract` | `refresh_tokens`, `is_active`, `is_erased` | concurrent requests on one row, statement snapshots, lock order |
| Accounts: registration, login, internal tokens, bootstrap, erasure | `Accounts` | `users`, `credentials`, `auth_internal_tokens`, admin tuple, audit addresses | single use under concurrency, work split over several transactions |
| Access tokens and principal caches | `Access` | `authz_version`, issued JWTs, in-process or Redis cache and its user index | a value read in one step and stored in a later one, lost increments |
| Authorization engine | `Relationships` | registry, relationship tuples | inheritance, hierarchy, limits that count rows |
| Database schema and migrations | `Schema` | schema objects, version stamp, password columns | autocommit blocks inside a transactional migration, interrupted index builds |
| Settings and process lifecycle | `Settings`, `Process` | settings, registries, engine, clients, `app.state`, crons | order of composition, drain, failing finalizers, probes with timeouts |
| File storage, exports, asset cleanup | `UserData` | blobs, sidecars, cleanup rows | two file-system calls per operation, retries answered by a dedup mark |
| Paginated listings | `Listing` | users or audit rows, a client's walk | rows that commit behind the cursor |
| Rate limiters | `Limiter` | attempt windows | window edges, skewed clocks, unlocked read-modify-write, eviction |
| HTTP application | `Http` | one request in the middleware chain | which layer sees which answer |

How they meet. Password reset, email verification, deactivation and erasure write
their outbox row on the session of their own business transaction; the relay
later runs `send_email`, `delete_user_assets` or `erase_user` (`Outbox` is the
general mechanism, `UserData` and `Accounts` carry the part of it that their own
rows need). Erasure deletes sessions and tokens; deactivation and password reset
revoke sessions. Grants, resets, deactivation and erasure bump `authz_version`,
which an access token carries and the principal cache holds a copy of. `Process`
builds all of them in an order and takes them down again; `Settings` decides
which configurations it accepts. `Http` puts guards, limiters and use cases
behind the middleware chain.

Modules that share no variable are explored by one run with a variable `focus`
that says which of them moves (`MCAccess` for `Access` and `Relationships`,
`MCRequests` for `UserData`, `Listing`, `Limiter` and `Http`). That is sound: a
property of one component does not read the others, and every behaviour of each
component is explored.

Conventions. One action is one database transaction, or one statement of it when
a later statement depends on its result and another transaction may commit in
between (PostgreSQL READ COMMITTED). Ids, names, payloads and hashes are model
values; timestamps are small numbers. History variables record what the
properties need of the past, and no guard reads them. An operator named
`X_Change` in front of `X` is a mutant: `X` with a plausible mistake.

## 2. Modules

### Outbox

A business transaction records a side effect as a row of `outbox_messages`; the
relay runs it after the commit.

| code | model |
| --- | --- |
| `SessionSQLModelOutboxAdapter.enqueue`, `SQLModelOutboxUnitOfWork.transaction` | `Enqueue`, `CommitTx`, `RollbackTx` |
| `claim_batch` | `ClaimSelect` (rows selected and locked), `ClaimCommit` (lease stamped, locks gone), `ClaimNothing` |
| the handler, run inline by the in-process queue | `DispatchRaises`, `DedupeFirst`, `DedupeDuplicate`, `EffectDone`, `EffectFailed` |
| `mark_delivered`, `mark_retry`, `mark_failed` | actions of those names |
| process death, or an exception out of a mark | `Crash` |
| `retry_failed` | `RetryFailed` |
| `PruneOutbox.execute` | `PruneStart`, `PruneDelivered`, `PruneFailed`, `PruneMarks`, `PruneAborts` |

A claimed row is a copy (`batch`); what a worker writes back is computed from the
copy, as in `DispatchPending.execute`. `OutboxContract` is the documented state
machine: absent, pending, delivered or failed, pruned, with `retry-failed` the
only way back.

### Sessions

The refresh tokens of one user; rows of different users never meet. A statement
selects from the committed rows when it starts (`want`), then waits for row locks
(`lock`), and writes at commit. A family is named by the token its login inserted.

| code | model |
| --- | --- |
| `LoginUser.execute` | `LoginCheck` (account read), `LoginInsert` |
| `RotateRefreshToken._execute` | `RefreshLock` (`FOR UPDATE`), then `ReuseSelect` / `ReuseCommit`, `RefreshExpired`, `RefreshRefused`, or `RefreshReadUser` / `RotateCommit` |
| `LogoutUser.execute` | `LogoutRead`, then `LogoutLoad` / `LogoutCommit` in a second transaction, or `LogoutGone` |
| `revoke_user_refresh_tokens` in `LogoutAllSessions` and `DeactivateUser` | `RevokeAllSelect`, then `LogoutAllCommit`, `DeactivateRevoked` or `RevokeAllGone` |
| the second transaction of `DeactivateUser` | `Deactivate` |
| `EraseUser.execute` | `EraseSelect` (snapshot of the `DELETE`), `EraseCommit` |
| `delete_expired_refresh_tokens` | `PurgeStart`, `PurgeSelect` / `PurgeCommit` per batch, `PurgeDone` |
| row lock granted, wait cycle broken, process death | `Acquire`, `DeadlockVictim`, `Abort` |

`LogoutCommit` writes only the attributes SQLAlchemy finds changed since the load
(`Dirtied`); `RevokeAllGone` and `LogoutGone` are the flush that matches fewer
rows than it expects and raises. `SessionContract` says what a session is: opened
once, live, ended, never live again; a family maps to "live" while it has an
unrevoked token.

### Accounts

The life of an account under one email address, run by concurrent processes.

| code | model |
| --- | --- |
| `RegisterUser` | `RegisterInsert` (unique address), `RegisterCommit` |
| `LoginUser` | `LoginRead`, `LoginVerify`, `LoginOpen`, `LoginRecord`: one session each |
| `RequestPasswordReset`, `RequestEmailVerification` | actions of those names, `IssueInvalidate`, `IssueCommit` (token and outbox row) |
| `send_email` with its template | `SendEmail`, `Renders` |
| `ConfirmPasswordReset`, `ConfirmEmailVerification` | `ConfirmSelect` (`FOR UPDATE`), `ResetCommit`, `VerifyCommit` |
| `BootstrapSystemAdmin`, `register_or_lookup` | `BootstrapLookup`, `BootstrapCheck`, `BootstrapVerify`, `RegisterOrLookup`, `BootstrapCreate`, `BootstrapPassword`, `GrantRead`, `GrantCommit`, `BootstrapRecord`, `BootstrapReport` |
| `EraseUser` | `EraseRead`, `EraseCommit` |
| `delete_expired_internal_tokens`, time | `PurgeInternal`, `Age` |
| rollback or process death | `Abort` |

### Access and Relationships

`Access` follows a change of a user to the requests that user sends. Every
writing operation reads the row (`BeginWrite`, `GrantCheck`, `DeactivateRead`)
and writes it back at `Commit`, or ends in `Rollback`; `Bump` is the increment
computed from the row that was read. `ResolveHit`, `ResolveMiss`, `ResolveRead`
and `ResolvePut` are `ResolvePrincipal`; `Clear`, `Drop` and `ClearFails` are
`invalidate_user`, which on Redis is two calls; `LogoutAll` is the invalidation
that logout-all and deactivation make before they commit anything. `Tick` expires
tokens, cache entries and index sets. `MaxSize` evicts.

`Relationships` has the registry as state (`RegisterResourceType`,
`RegisterParent`, `Seal`, `WriteRelationships`, `DeleteRelationships`) and the
three questions as operators (`Check`, `LookupResources`, `LookupSubjects`).
`CheckDecides` compares the walk of `check()` with a reference definition that
closes the parent relation and the hierarchy independently of it.

### Schema

`Upgraded(r, s)` and `Downgraded(r, s)` give what each of the thirteen Alembic
revisions does to a schema (a set of tables, columns, keys, checks and indexes),
`Metadata` what the ORM models declare. A command (`Start`) works in one
transaction (`work`), commits it when it enters an autocommit block
(`EnterAutocommit`), and drops and builds the concurrent index in transactions of
their own (`DropConcurrently`, `CreateConcurrently`); the stamp follows
(`StampStep`). `Interrupt`, `InterruptDrop` and `InterruptCreate` end the process
anywhere, `Raises` is a revision that refuses. `Backfill` moves password hashes
into `credentials`.

### Settings and Process

`Settings` is the validation of `AppSettings`: the errors each feature's
`validate` reports and those of `validate_production`, and the arithmetic of the
worker's schedule (`SnapToDivisor`, `RelayCronSpecs`, `MaintenanceCronSpecs`).
`Process` takes a deployment through `LoadSettings`, the builders in the order of
`main.py` or `worker.py` (`Plan`), `BecomeReady`, requests (`Accept`, `Work`),
readiness probes (`ProbeStart`, `ProbeDependency`, `ProbeAnswer`), `Signal`,
`Drained` or `DrainTimeout`, and the finalizers, each of which may raise.

### UserData, Listing, Limiter, Http

`UserData`: uploads and exports (`WriteBlob`, `WriteSidecar`, `Sign`),
deactivation and erasure with their cleanup row (`Deactivate`, `Erase`), and the
cleanup job (`Claim`, `ClaimDeduped`, `ListAssets`, `DeleteObject` on S3,
`UnlinkFirst` / `UnlinkSecond` on disk, `CleanupFails`, `WorkerDies`).

`Listing`: a client walks `GET /admin/users` or `GET /admin/audit-log`
(`StartWalk`, `TakePage`) while rows are built with a timestamp and committed
later or never (`BuildRow`, `CommitRow`, `AbandonRow`). A cursor is what
`encode_cursor` keeps of a row.

`Limiter`: `RedisCheck` is the Lua script, atomic, with the caller's clock as an
argument; `ProcessRead` and `ProcessWrite` are the two halves of the in-process
check, which holds no lock; `ExpireKey` and `Victims` are expiry and eviction;
`Checks` is the order in which a route asks its limiters.

`Http`: `Chain` is the middleware stack that `build_fastapi_app` assembles for a
deployment. A request goes down through it (`WayIn`), meets the guards of its
route and its use case (`RouteStep`), has its exception rendered
(`RenderProblem`) or meets the outermost handler (`UnhandledException`), and comes
back out (`PassOut`, `Send`). What a use case answers is any result its route
translates.

## 3. Runs

| run | instance | distinct states | shows |
| --- | --- | --- | --- |
| `outbox_two_workers` | 2 workers, 1 row, 2 attempts, time 0..3 | 1,480,669 | `EffectAccounting`: each effect has a dedup mark of its own; `DeliveredAccountedFor`: a delivered row has its effect, or an attempt that failed or died after its mark |
| `outbox_one_worker` | 1 worker, batches of 2 rows, time 0..2, fair | 1,038,524 | `StrictLifecycle`: one worker implements `OutboxContract`; `DueIsServed`: once crashes stop, a due row is settled or rescheduled |
| `outbox_lost_effect` (violation) | 1 worker, 1 row | | the mark commits before the effect; if the effect then fails, the retry is deduped and the row is delivered without it |
| `sessions_concurrent` | 3 tokens, 2 requests at once, time 0..1 | 522,188 | `OneLivePerFamily`, `ExchangedOnce`, `LinksSound`, `SessionLifecycle` (refines `SessionContract`) |
| `sessions_sequential` | 3 tokens, 1 request at a time, time 0..3, retention 1 | 70,602 | `NoSessionLeft`, `RevocationComplete`, `PurgeKeepsRecent`: what holds when requests of a user do not overlap |
| `sessions_liveness` | 2 tokens, 2 requests, fair | 184,243 | `RequestsReturn`: every request returns, wait cycles included |
| `schema_migrations` | 2 accounts, all revisions, fair | 101,106 | `VersionMatchesSchema`, `HeadMatchesModels`, `PasswordsSurvive`, `UpgradeCompletes` |
| `process_lifecycle` | 136 deployments, 2 requests, fair | 88,584 | `ComposedBeforeUse`, `CleanExit`, `SettingsSound`, `NoFalseReady`, `DisposedLast`, `NothingHangs` |
| `accounts` | 2 user ids, 2 tokens, 2 processes, 4 requests | 476,708 | `TokenConsumedOnce`, `ReissueInvalidates`, `SessionsJustified`, `AdminGrantJustified`, `BootstrapIdempotent`, `ErasureComplete` |
| `access` | 1 user, 2 tokens, 2 processes, TTL 2, cache of 1, 2 changes; 900 registries, 64 tuple sets | 1,323,121 | `InvalidateEvicts`, `StaleBounded`, `StaleTokensDie`, `CheckDecides`, `LookupsAgree` |
| `access_lost_bump` (violation) | the same | | two overlapping bumps write the same version, and a token issued between them passes for current |
| `requests` | 2 owners, 3 files, 1 export, 2 cleanup rows, 2 hands, 1 fault; 3 rows, 2 instants, pages of 1 or 2; 2 calls at once, 3 in all, window 2, skew 1; every deployment of the chain | 3,757,094 | `StorageConsistent`, `CleanupComplete`, `WalkFaithful`, `WithinLimit`, `PolicyHeaders`, `RequestTraced`, `CookieFromTrusted` |

The comment above each property in its module states it in words. Several carry
exceptions: `InvalidateEvicts` excepts a resolution that stored late,
`SessionsJustified` a login that overlapped a reset, `ErasureComplete` an
erasure that another request overlapped, `CleanupComplete` a row answered by a
dedup mark. Each exception is a behaviour of the code (section 6) and is named
by a history variable, so that the property still covers every other case.

Bounds, and why they are enough.

- Outbox: workers meet only on a row, so one row has every race of two workers;
  two rows exercise batches and their order. The clock lets a row use all of its
  attempts, fail, be rearmed and be pruned.
- Sessions: three tokens give a login and two rotations, or two families and a
  rotation; two requests give every pairwise race. `RoomForRow` only lets a
  request that may insert a row start while an id is free.
- Accounts: two user ids let an address be registered again after an erasure;
  two tokens give a token and its replacement; two processes give every pairwise
  race; four arrivals reach a reset after a bootstrap after a registration.
- Access: two overlapping bumps are the smallest number that loses an increment;
  a cache of one entry evicts; TTL and lifetime of two ticks order expiry of
  entry, index and token in every way.
- Schema and Process are finite but for their inputs; two accounts can differ in
  when they were created and in what the migrations did to their password, and the
  136 deployments switch each setting that a builder or a validator reads.
- Requests: two hands give every overlap of two storage calls, one fault every
  place to fail; three rows at two instants give ties and rows behind the cursor;
  a skew of one in a window of two makes the shortened window matter.

Symmetry is declared for model values that are interchangeable and only where no
property with fairness is checked. Deadlock is not checked in `accounts` and
`requests`, where arrivals, faults and instants are used up and the system
rightly stops.

Fairness.

- `Outbox`: weak fairness of the clock and of every worker's ticks, since the cron
  descriptors ask the runtime to keep ticking. Nothing is assumed of producers,
  operators or the sweep, and `DueIsServed` is conditional on crashes ending. The
  runtime is not in the repository: `worker.py` builds descriptors and exits.
- `Sessions`: a started request runs on (strong fairness, because a row lock is
  handed to its waiters in turn) and PostgreSQL breaks wait cycles (weak fairness
  of `DeadlockVictim`). Nothing is assumed of arrivals, crashes or the clock.
- `Schema`: a running command goes on, and an upgrade to head is attempted again
  whenever none runs (the deployment's migrate step). `UpgradeCompletes` is
  conditional on failures and downgrades ending.
- `Process`: the lifespan coroutine, the finalizers, the server's drain with its
  timeout, and the probe's `wait_for` make progress. Handlers and dependencies
  are not assumed to return.

## 4. Proofs

TLAPS proves these for every value of the constants that satisfies the named
assumption of the module: `SettingsAssumption` (what `OutboxSettings.validate`
accepts), `SessionsAssumption`, `AccountsAssumption`, `AccessAssumption` and
`LimiterAssumption` (the "none" values lie outside their sets, durations and
limits are natural numbers), `OfferedAssumption` (deployments are records of
settings of the right types) and `NobodyAssumption` (no user is called
"nobody"). The bounds that keep TLC finite (`MaxTime`, `Arrivals`, `Changes`,
`MaxClock`, `MaxCalls`, the number of faults) are constants too, so the theorems
hold for all of their values. Proofs are in the modules named `...Proofs`, one
per component; `RequestsProofs` holds those of `UserData` and `Http`.

| theorem | statement |
| --- | --- |
| `OutboxProofs!TypeCorrect`, `BudgetKept`, `CommittedFirst` | types; pending rows have budget although counts are written back from old copies; nothing uncommitted is dispatched; any number of workers |
| `OutboxProofs!EffectsAccounted` | every effect has a dedup mark of its own |
| `OutboxProofs!DeliveredIsAccountedFor` | a row is delivered without its effect only if an attempt failed or died after its mark, or is running |
| `OutboxProofs!OneWorkerFresh`, `OneWorkerBudget`, `OneWorkerContract` | with one worker: fresh copies, a row fails exactly when its budget is spent, and the contract is implemented |
| `SessionsProofs!SessionsTypeCorrect` | types of table, locks and requests |
| `SessionsProofs!SingleLiveToken`, `SingleExchange` | one live token per session, each token exchanged once, any number of requests |
| `SessionsProofs!SessionsImplementContract` | the table implements `SessionContract` |
| `SessionsProofs!LinksSoundHolds` | a stored `replaced_by_token_id` names a kept row of the same family, any number of requests |
| `SessionsProofs!NoSessionLeftHolds`, `ChainUnbrokenHolds`, `RevocationCompleteHolds`, `PurgeKeepsRecentHolds` | when requests do not overlap (`OneRequest`): a deactivated account has no live token and an erased one no row; every rotated row keeps its link; a revocation ends what it set out to end; the sweep respects the retention window |
| `AccountsProofs!TokensAreSingleUse`, `ReissueEndsEarlierTokens` | an internal token is used once, for its purpose, and not after a later request has invalidated it |
| `AccountsProofs!SessionsAreJustified` | a session with an outdated password is a late login's or a bootstrapped account's; no unverified session where verification is required |
| `AccountsProofs!GrantsAreJustified`, `BootstrapRestartsSafely` | the three reasons for the admin tuple; a bootstrap that finds an administrator stops there |
| `AccountsProofs!ErasureLeavesNothing` | an erasure that nothing overlaps leaves nothing behind, then or later |
| `AccessProofs!AccessTypesHold`, `EntryMatchesTokenHolds` | types; a cached principal has its token's user and version and was active when read |
| `AccessProofs!StaleTokensDieHolds` | a token from before a bump never matches the row again, unless two increments of that row overlapped |
| `AccessProofs!TupleWithBumpHolds` | no step changes a user's tuples without changing the version in the same step, except one whose increment was computed from a replaced version |
| `AccessProofs!InvalidationReachesEntries` | an invalidation finds every cached principal of its user but the marked ones (a late store, a half-failed invalidation) |
| `AccessProofs!StalenessIsBounded` | an outdated principal lives at most one TTL after the last change or late store |
| `LimiterProofs!LimiterTypesHold`, `RefusedChargesNobodyHolds` | types; only a call that its address limiter admitted is charged to an account |
| `LimiterProofs!LimitHolds` | no window holds more admitted attempts than its limit, for both limiters in the form of `WithinLimit` |
| `RequestsProofs!StorageStaysConsistent`, `CleanupIsComplete` | stored bytes are listed, URLs lead somewhere and exports name their own user's files; a full cleanup removed what it saw; any number of users, files, workers and faults, both backends |
| `RequestsProofs!PolicyHeadersReachClients`, `RequestsAreTraced`, `CookiesComeFromTrusted` | headers, request ids, access lines and the origin check, for every deployment of the chain |
| `SchemaProofs!PasswordsSurviveMigrations` | no sequence of migrations, interruptions and repetitions loses a password, for any set of accounts |
| `ProcessProofs!ServesComposed`, `ExitsClean`, `EngineGoesLast` | what serves is composed, what exits is released, and the engine goes last, for every deployment |
| `ProcessProofs!ReadyIsTrue` | a 200 from the readiness route is true of that probe |
| `ProcessProofs!SettingsAreSound` | what accepted settings promise, and that the crons fire at the nearest divisor, for every integer interval |

Inductive invariants, and why the plain properties are not enough. TLC finds each
of them to hold on the instance of its component's run as well.

- `TypeInv` adds `TxInv` to the outbox's types: a claimed row belongs to a
  committed transaction. Without it a worker could write back a row that was
  never published. `PendingWithinBudget` is part of it, because the count a
  worker writes back must stay below the budget even when its copy is old.
- `FreshInv` (one worker) says that a batch holds each row once and agrees with
  the table; the contract needs it to see that a mark leaves "pending".
- `SessionInv` rests on `OwnsRow`: a refresh that has passed its `FOR UPDATE`
  owns the row, so no other request can revoke or delete it before the rotation
  commits. `ExchangedIsDead` and `FamilyNames` carry the history. All steps but
  the two inserts only shrink the set of live tokens (`Shrink`), which gives both
  the invariant and the refinement.
- `LinksInv` adds to `LinksSound` that a row outside the table has no link: the
  row a rotation inserts next must start without one. `AloneInv` and
  `SelectedInv` add what a request that runs alone still finds as it read it: a
  select followed by a commit sees the same rows, and a sweep's cutoff lies in
  the past.
- `AccountsInv` adds to the types what each process may rely on between two of
  its transactions (`ProcInv`): the locks of the token it confirms or of those it
  invalidates, the verification a login read, the reason for the grant it is
  about to write, and that the account it works on was not erased without being
  marked as overlapped. `TokenInv` relates each token to its uses and to the
  requests that found it, `AccountInv` and `SessionInv` each account to its
  history. `Frame` is what a step may not do to the processes that do not move.
- `AccessInv` adds `ProcInv` and `TokenInv`. A copy of a row from which a version
  is minted or incremented is not ahead of the row, unless an increment was lost;
  a resolution about to store holds a row that its token matches; and a token is
  not ahead of its row, and behind it once a bump has committed. `Frame` is what
  every step does to rows and tokens, so that each process but the one that moves
  keeps its part of the invariant. `CacheInv` adds `IndexOutlives`: with Redis,
  the set of a user's tokens never expires before a principal it leads to.
- `RedisInv` relates the set Redis holds to everything it admitted: an attempt
  that has left the set is older than the window less the skew, whichever
  replica's clock removed it. `WithinLimit` alone says nothing of attempts that
  were already dropped.
- `DataInv` says what each hand is in the middle of (`HandsHold`): a cleanup
  holds its row alone and deletes files of the users area only, which is why
  signed exports stay. `SeenInv` says that what a cleanup saw and is still stored
  is left on its list, or was put again or became unlisted since.
- `HttpInv` follows a request through the chain: which layers it has entered, who
  made the response, and which headers the layers it has passed on the way out
  have added. `ChainShape` gives the order of the layers for every deployment,
  which is what makes "inside" and "outside" of a layer independent of the
  optional ones.
- `PasswordInv` follows the hashes through the working copy of a migration as
  well as through the committed database: at 0009 every hash has its credential,
  so 0010 may drop the column, and the autocommit blocks stand at 0014 or 0015,
  where nothing touches a password.
- `ProcessInv` says what every step of the start leaves done (`Made...` over
  `Past`, the steps already taken) and what every finalizer leaves released
  (`Released`), so that the state at the last step is the sum of them. It also
  says what a probe still waits for, and that accepted settings passed every
  validator.

Model-checked only.

- Liveness and `ENABLED` are out of the prover's reach: `DueIsServed`,
  `RequestsReturn`, `UpgradeCompletes`, `NothingHangs`.
- `CheckDecides` and `LookupsAgree` are about what a recursive walk over the
  parent types computes, and `WalkFaithful` about pages cut from a sorted
  sequence. Both need induction over data, which the provers do not do.
- `VersionMatchesSchema` and `HeadMatchesModels` speak of the thirteen concrete
  revisions and no parameter: the run covers every case there is.

## 5. Findings

- `outbox_lost_effect`. `composition/handler_dedupe.py` commits the dedup mark in
  a session of its own before the side effect. If the effect fails, or the
  process dies in between, the retry finds the mark, returns, and the row is
  marked delivered. `docs/outbox.md:4` promises to dispatch a side effect
  "without losing or duplicating it across a process crash".
- `access_lost_bump`. `authz_version` is read, incremented in Python and written
  back without a lock, so of two overlapping bumps one is lost, and a token issued
  between the commits passes for current. `jwt_tokens.py:70-71` says the claim is
  "used to detect tokens issued before a relevant relationship change".
  `StaleTokensDie`, checked and proved, shows that the lost increment is the only
  way to it.

## 6. What does not hold

The model also shows what the code does not promise. The properties are stated so
as to except exactly these cases.

Outbox and files.

- With two workers a failed row can become delivered: a claim ignores `locked_by`
  and the marks ignore the status. `StrictLifecycle` is therefore a property of
  one worker.
- The asset cleanup stops at the first delete that fails, and the dedup mark
  answers the retry, so the other files stay although the row is delivered. The
  comment at `file_storage_user_assets/adapter.py:60-64` says that still-present
  keys are discovered again on the next attempt.
- On local storage a crash between blob and sidecar, or a `put` inside a `delete`,
  leaves bytes that no list finds. An upload that ends after the cleanup listed
  the files stays. Exports are never cleaned up, and one that overlaps an erasure
  keeps the data from before it. Two overlapping erasures queue two cleanup rows.

Sessions and accounts.

- Reuse detection that waits for a rotation misses the row that rotation inserts;
  a login or rotation in flight inserts its token after a deactivation revoked the
  others, or outside the snapshot of an erasure's `DELETE`. A rotation that
  overlaps logout-all or logout breaks `RevocationComplete` and `ChainUnbroken`,
  and a slow revoke-all may stamp an older `revoked_at` over a newer one. These
  properties are stated for requests that do not overlap.
- Two overlapping reset requests leave two usable tokens. A login that checked the
  old password and writes its session after the reset keeps it.
- A bootstrap that dies between its transactions leaves an account that later
  starts refuse to take over (`main.py:126` calls it idempotent). An address that
  registers between the bootstrap's lookup and its insert gets the grant without
  the password check. A request that overlaps an erasure can leave a session, a
  token or an address behind, and `update_email` does not look at `is_erased`.

Access.

- A resolution that read the row before a change and stores after the
  invalidation leaves the outdated principal for one TTL; `DeactivateUser`
  invalidates before it commits. The cache is keyed by token id, so a new version
  is not seen until the entry expires, unlike what the docstring of
  `test_authz_version_invalidation.py:3-5` says. `docs/operations.md:356-367`
  gives the delay as up to 30 seconds, while `:775` has a TTL of 5.
- A grant whose check saw a tuple that is deleted before it commits leaves the
  user without it.

Limiters, listings, HTTP.

- The in-process limiter drops live keys at its size limit and loses attempts of
  overlapping calls, although `rate_limit.py:106-107` says keys are never silently
  dropped. The Redis limiter trusts the replicas' clocks.
- A row that commits late with an earlier `created_at` is behind the cursor and
  missed by a forward walk; `WalkFaithful` speaks of the rows that were committed
  when the walk began.
- CORS preflights, refusals of `TrustedHost` and unhandled exceptions carry neither
  the policy headers nor a request id, although `app_factory.py:122-126` says every
  response carries the baseline. The access log writes status 0 for an unhandled
  exception, and a request refused by the size limit has no id and no access line.

Schema and settings.

- An interrupted 0015 leaves `ix_users_created_at` invalid for good, a long
  downgrade past 0010 commits part of its way before it raises
  (`docs/operations.md:257-259`), and the downgrade of 0006 does not restore three
  constraints. `VersionMatchesSchema` sets these indexes and constraints aside
  (`Transactional`).
- Production settings are refused today whatever they are, because the only email
  and job backends are development ones; `SettingsSound` includes it. Of
  `console_log_bodies` the comment at `email/composition/settings.py:26` says
  "Refused outside development", but no validator looks at it.

## 7. Not modelled

- Libraries and services: password hashing, JWT signatures, pydantic's parsing,
  SQL planning, Redis and S3 themselves, uvicorn's loop. Where the code depends on
  what they promise (row locks, READ COMMITTED snapshots, an atomic script, a
  drain with a timeout), that promise is an action or guard marked external.
- Output that no other part reads: log formatting and redaction, metrics, spans,
  rendered mail text, OpenAPI schemas, request and response models, audit rows
  other than the addresses an erasure has to scrub.
- The worker runtime: `worker.py` builds cron descriptors and exits; `Outbox`
  assumes that something runs them.
- Features that would call `register_parent`: none exists yet, so a parent lookup
  is any function.
- Branches that no start can reach, such as the 503 answers for a container that
  was not attached: `ComposedBeforeUse` shows why.
- The shared kernel and the ports, which hold no state, and the tests.
- The compositions of `Outbox` with the producers of each feature: each feature's
  module carries its own row instead, because the product of the state spaces is
  out of TLC's reach.
