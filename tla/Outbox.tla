------------------------------- MODULE Outbox -------------------------------
(***************************************************************************)
(* The transactional outbox: producers that stage a row inside a business  *)
(* transaction, relay workers that claim due rows and run the job handler  *)
(* inline, the handler-side dedup marks, the retention sweep and the       *)
(* operator's retry-failed command.                                        *)
(*                                                                         *)
(* Every database transaction of the code is one action; a worker may stop *)
(* between any two of them.  Timestamps are natural numbers read from one  *)
(* clock; a row, its id and its payload are a member of Messages.          *)
(***************************************************************************)
EXTENDS Integers, FiniteSets

CONSTANTS
    Messages,            \* ids of outbox rows, ordered like the id column
    Workers,             \* relay processes sharing the table
    BatchSize,           \* APP_OUTBOX_CLAIM_BATCH_SIZE
    MaxAttempts,         \* APP_OUTBOX_MAX_ATTEMPTS
    RetryBase,           \* APP_OUTBOX_RETRY_BASE_SECONDS
    RetryMax,            \* APP_OUTBOX_RETRY_MAX_SECONDS
    RetentionDelivered,  \* APP_OUTBOX_RETENTION_DELIVERED_DAYS
    RetentionFailed,     \* APP_OUTBOX_RETENTION_FAILED_DAYS
    PruneBatch,          \* APP_OUTBOX_PRUNE_BATCH_SIZE
    MaxTime              \* bound: the clock stops here

\* OutboxSettings.validate rejects every other configuration.
ASSUME SettingsAssumption ==
    /\ Messages \subseteq Nat /\ IsFiniteSet(Messages)
    /\ IsFiniteSet(Workers)
    /\ BatchSize \in Nat \ {0}
    /\ MaxAttempts \in Nat \ {0}
    /\ RetryBase \in Nat \ {0} /\ RetryMax \in Nat /\ RetryMax >= RetryBase
    /\ RetentionDelivered \in Nat \ {0} /\ RetentionFailed \in Nat \ {0}
    /\ PruneBatch \in Nat \ {0}
    /\ MaxTime \in Nat

VARIABLES
    clock,     \* the time every process reads
    tx,        \* outcome of the business transaction that produces a message
    row,       \* table outbox_messages
    marks,     \* table processed_outbox_messages: processed_at, or Null
    pc,        \* where a relay worker is in its tick
    now,       \* the instant a worker's tick took at its start (0 when idle)
    batch,     \* the rows a worker claimed and has not settled, as it read them
    prune,     \* which table the retention sweep is draining
    pruneNow,  \* the instant the sweep took at its start (0 when idle)
    effects,   \* history: completed side effects of a message
    aborted,   \* history: side effects that failed or died after the mark
    expired    \* history: dedup marks of a message deleted by the sweep

dbVars == <<tx, row, marks>>
relayVars == <<pc, now, batch>>
pruneVars == <<prune, pruneNow>>
history == <<effects, aborted, expired>>
vars == <<clock, dbVars, relayVars, pruneVars, history>>

Null == -1
Time == 0..MaxTime
NoWorker == "none"

Statuses == {"absent", "staged", "pending", "delivered", "failed"}
Row == [status : Statuses, attempts : 0..MaxAttempts, available_at : Int,
        locked_by : Workers \cup {NoWorker},
        delivered_at : Time \cup {Null}, failed_at : Time \cup {Null}]
FreshRow(s, t) == [status |-> s, attempts |-> 0, available_at |-> t,
                   locked_by |-> NoWorker, delivered_at |-> Null, failed_at |-> Null]
AbsentRow == FreshRow("absent", 0)
\* What the relay keeps of a claimed row; the handler sees only this copy.
Claim == [id : Messages, attempts : 0..(MaxAttempts - 1), available_at : Int]

Lesser(a, b) == IF a <= b THEN a ELSE b

Init ==
    /\ clock = 0
    /\ tx = [m \in Messages |-> "none"]
    /\ row = [m \in Messages |-> AbsentRow]
    /\ marks = [m \in Messages |-> Null]
    /\ pc = [w \in Workers |-> "idle"]
    /\ now = [w \in Workers |-> 0]
    /\ batch = [w \in Workers |-> {}]
    /\ prune = "idle"
    /\ pruneNow = 0
    /\ effects = [m \in Messages |-> 0]
    /\ aborted = [m \in Messages |-> 0]
    /\ expired = [m \in Messages |-> 0]

-----------------------------------------------------------------------------
(* Producers: the row is staged on the business transaction's session and  *)
(* becomes visible to the relay when, and only if, that commits.           *)

StagedRow == FreshRow("staged", clock)

Enqueue(m) ==
    /\ tx[m] = "none"
    /\ tx' = [tx EXCEPT ![m] = "open"]
    /\ row' = [row EXCEPT ![m] = StagedRow]
    /\ UNCHANGED <<clock, marks, relayVars, pruneVars, history>>

CommitTx(m) ==
    /\ tx[m] = "open"
    /\ tx' = [tx EXCEPT ![m] = "committed"]
    /\ row' = [row EXCEPT ![m].status = "pending"]
    /\ UNCHANGED <<clock, marks, relayVars, pruneVars, history>>

RollbackTx(m) ==
    /\ tx[m] = "open"
    /\ tx' = [tx EXCEPT ![m] = "rolledback"]
    /\ row' = [row EXCEPT ![m] = AbsentRow]
    /\ UNCHANGED <<clock, marks, relayVars, pruneVars, history>>

-----------------------------------------------------------------------------
(* claim_batch: SELECT ... FOR UPDATE SKIP LOCKED, then the locked_by      *)
(* stamp, then COMMIT, which releases the row locks.                       *)

\* Rows some claim transaction that has not committed holds locked.
RowLocks == {m \in Messages : \E w \in Workers :
                 pc[w] = "claiming" /\ \E r \in batch[w] : r.id = m}

Ready_Unclaimed(m) ==
    row[m].status = "pending" /\ row[m].available_at <= clock /\ row[m].locked_by = NoWorker

Ready(m) == row[m].status = "pending" /\ row[m].available_at <= clock

Claimable == {m \in Messages : Ready(m) /\ m \notin RowLocks}

\* ORDER BY available_at, id
Before(x, y) ==
    \/ x.available_at < y.available_at
    \/ x.available_at = y.available_at /\ x.id < y.id

Snapshot(m) == [id |-> m, attempts |-> row[m].attempts, available_at |-> row[m].available_at]

ClaimSelect(w) ==
    /\ pc[w] = "idle"
    /\ \E S \in SUBSET Claimable :
          /\ S # {}
          /\ Cardinality(S) = Lesser(BatchSize, Cardinality(Claimable))
          /\ \A x \in S, y \in Claimable \ S : Before(Snapshot(x), Snapshot(y))
          /\ batch' = [batch EXCEPT ![w] = {Snapshot(m) : m \in S}]
    /\ now' = [now EXCEPT ![w] = clock]
    /\ pc' = [pc EXCEPT ![w] = "claiming"]
    /\ UNCHANGED <<clock, dbVars, pruneVars, history>>

ClaimCommit(w) ==
    /\ pc[w] = "claiming"
    /\ row' = [m \in Messages |->
                  IF \E r \in batch[w] : r.id = m
                  THEN [row[m] EXCEPT !.locked_by = w] ELSE row[m]]
    /\ pc' = [pc EXCEPT ![w] = "dispatch"]
    /\ UNCHANGED <<clock, tx, marks, now, batch, pruneVars, history>>

\* A tick that finds nothing due returns at once.
ClaimNothing(w) ==
    /\ pc[w] = "idle"
    /\ Claimable = {}
    /\ UNCHANGED vars

-----------------------------------------------------------------------------
(* The loop over the claimed rows, in claim order.  JobQueuePort.enqueue   *)
(* runs the handler inline: dedupe in a transaction of its own, then the   *)
(* side effect.                                                            *)

IsNext(w, r) == r \in batch[w] /\ \A q \in batch[w] : q = r \/ Before(r, q)

AfterRaise_Swallowed == "ok"

\* An exception out of the job queue takes the retry path.
AfterRaise == "error"

\* No handler for the job name, or the dedup insert met a database error.
DispatchRaises(w) ==
    /\ pc[w] = "dispatch"
    /\ pc' = [pc EXCEPT ![w] = AfterRaise]
    /\ UNCHANGED <<clock, dbVars, now, batch, pruneVars, history>>

IsDuplicate_Never(m) == FALSE

IsDuplicate(m) == marks[m] # Null

\* The insert commits before the side effect starts.
DedupeFirst(w) ==
    /\ pc[w] = "dispatch"
    /\ \E r \in batch[w] :
          /\ IsNext(w, r)
          /\ ~IsDuplicate(r.id)
          /\ marks' = [marks EXCEPT ![r.id] = clock]
    /\ pc' = [pc EXCEPT ![w] = "effect"]
    /\ UNCHANGED <<clock, tx, row, now, batch, pruneVars, history>>

DedupeDuplicate(w) ==
    /\ pc[w] = "dispatch"
    /\ \E r \in batch[w] : IsNext(w, r) /\ IsDuplicate(r.id)
    /\ pc' = [pc EXCEPT ![w] = "ok"]
    /\ UNCHANGED <<clock, dbVars, now, batch, pruneVars, history>>

EffectDone(w) ==
    /\ pc[w] = "effect"
    /\ \E r \in batch[w] :
          IsNext(w, r) /\ effects' = [effects EXCEPT ![r.id] = @ + 1]
    /\ pc' = [pc EXCEPT ![w] = "ok"]
    /\ UNCHANGED <<clock, dbVars, now, batch, pruneVars, aborted, expired>>

EffectFailed(w) ==
    /\ pc[w] = "effect"
    /\ \E r \in batch[w] :
          IsNext(w, r) /\ aborted' = [aborted EXCEPT ![r.id] = @ + 1]
    /\ pc' = [pc EXCEPT ![w] = AfterRaise]
    /\ UNCHANGED <<clock, dbVars, now, batch, pruneVars, effects, expired>>

-----------------------------------------------------------------------------
(* Settling a row: one unconditional UPDATE by id per outcome, computed    *)
(* from the worker's copy.  It waits for a claim transaction that holds    *)
(* the row, and touches nothing when the sweep has deleted the row.        *)

Unlocked(x) == [x EXCEPT !.locked_by = NoWorker]

DeliveredRow(x, w) == [Unlocked(x) EXCEPT !.status = "delivered", !.delivered_at = now[w]]

Exhausted(n) == n >= MaxAttempts

\* min(retry_base * 2 ** (next_attempts - 1), retry_max)
Backoff(n) == Lesser(RetryBase * 2 ^ (n - 1), RetryMax)

RetriedRow(x, w, n) ==
    [Unlocked(x) EXCEPT !.attempts = n, !.available_at = now[w] + Backoff(n)]

FailedRow(x, w, n) ==
    [Unlocked(x) EXCEPT !.status = "failed", !.attempts = n, !.failed_at = now[w]]

Settle(w, r, new) ==
    /\ r.id \notin RowLocks
    /\ row' = [row EXCEPT ![r.id] = IF @.status = "absent" THEN @ ELSE new]
    /\ batch' = [batch EXCEPT ![w] = @ \ {r}]
    /\ pc' = [pc EXCEPT ![w] = IF batch[w] = {r} THEN "idle" ELSE "dispatch"]
    /\ now' = [now EXCEPT ![w] = IF batch[w] = {r} THEN 0 ELSE @]
    /\ UNCHANGED <<clock, tx, marks, pruneVars, history>>

MarkDelivered(w) ==
    /\ pc[w] = "ok"
    /\ \E r \in batch[w] : IsNext(w, r) /\ Settle(w, r, DeliveredRow(row[r.id], w))

MarkRetry(w) ==
    /\ pc[w] = "error"
    /\ \E r \in batch[w] :
          /\ IsNext(w, r)
          /\ ~Exhausted(r.attempts + 1)
          /\ Settle(w, r, RetriedRow(row[r.id], w, r.attempts + 1))

MarkFailed(w) ==
    /\ pc[w] = "error"
    /\ \E r \in batch[w] :
          /\ IsNext(w, r)
          /\ Exhausted(r.attempts + 1)
          /\ Settle(w, r, FailedRow(row[r.id], w, r.attempts + 1))

\* The process dies, or a claim or mark transaction raises and the tick is
\* abandoned.  An uncommitted claim rolls back; a mark that was inserted stays.
Crash(w) ==
    /\ pc[w] # "idle"
    /\ aborted' = [m \in Messages |->
           IF pc[w] = "effect" /\ \E r \in batch[w] : IsNext(w, r) /\ r.id = m
           THEN aborted[m] + 1 ELSE aborted[m]]
    /\ pc' = [pc EXCEPT ![w] = "idle"]
    /\ batch' = [batch EXCEPT ![w] = {}]
    /\ now' = [now EXCEPT ![w] = 0]
    /\ UNCHANGED <<clock, dbVars, pruneVars, effects, expired>>

-----------------------------------------------------------------------------
(* The operator's retry-failed: one UPDATE over every failed row.          *)

Rearmable_AnyRow(m) == row[m].status \in {"pending", "delivered", "failed"}

Rearmable(m) == row[m].status = "failed"

RearmedRow(x) ==
    [Unlocked(x) EXCEPT !.status = "pending", !.attempts = 0, !.available_at = clock]

RetryFailed ==
    /\ \E m \in Messages : Rearmable(m)
    /\ row' = [m \in Messages |-> IF Rearmable(m) THEN RearmedRow(row[m]) ELSE row[m]]
    /\ UNCHANGED <<clock, tx, marks, relayVars, pruneVars, history>>

-----------------------------------------------------------------------------
(* PruneOutbox: three tables drained in turn, oldest first, one bounded    *)
(* transaction per batch, with the cutoffs of the sweep's start.           *)

DedupRetention == 2 * RetryMax

PruneStart ==
    /\ prune = "idle"
    /\ prune' = "delivered"
    /\ pruneNow' = clock
    /\ UNCHANGED <<clock, dbVars, relayVars, history>>

\* The rows one batch deletes: at most PruneBatch, the oldest ones.
OldestBatch(E, at) ==
    {S \in SUBSET E : /\ Cardinality(S) = Lesser(PruneBatch, Cardinality(E))
                      /\ \A x \in S, y \in E \ S : at[x] <= at[y]}

DeliveredBefore(cutoff) ==
    {m \in Messages : /\ row[m].status = "delivered"
                      /\ row[m].delivered_at # Null /\ row[m].delivered_at < cutoff}

FailedBefore(cutoff) ==
    {m \in Messages : /\ row[m].status = "failed"
                      /\ row[m].failed_at # Null /\ row[m].failed_at < cutoff}

MarksBefore(cutoff) == {m \in Messages : marks[m] # Null /\ marks[m] < cutoff}

Delete(S) == [m \in Messages |-> IF m \in S THEN AbsentRow ELSE row[m]]

PruneDelivered ==
    /\ prune = "delivered"
    /\ LET E == DeliveredBefore(pruneNow - RetentionDelivered)
           at == [m \in Messages |-> row[m].delivered_at]
       IN  \/ E = {} /\ prune' = "failed" /\ UNCHANGED row
           \/ /\ E # {}
              /\ \E S \in OldestBatch(E, at) : row' = Delete(S)
              /\ UNCHANGED prune
    /\ UNCHANGED <<clock, tx, marks, relayVars, pruneNow, history>>

PruneFailed ==
    /\ prune = "failed"
    /\ LET E == FailedBefore(pruneNow - RetentionFailed)
           at == [m \in Messages |-> row[m].failed_at]
       IN  \/ E = {} /\ prune' = "marks" /\ UNCHANGED row
           \/ /\ E # {}
              /\ \E S \in OldestBatch(E, at) : row' = Delete(S)
              /\ UNCHANGED prune
    /\ UNCHANGED <<clock, tx, marks, relayVars, pruneNow, history>>

PruneMarks ==
    /\ prune = "marks"
    /\ LET E == MarksBefore(pruneNow - DedupRetention)
       IN  \/ E = {} /\ prune' = "idle" /\ pruneNow' = 0 /\ UNCHANGED <<marks, expired>>
           \/ /\ E # {}
              /\ \E S \in OldestBatch(E, marks) :
                    /\ marks' = [m \in Messages |-> IF m \in S THEN Null ELSE marks[m]]
                    /\ expired' = [m \in Messages |->
                                      IF m \in S THEN expired[m] + 1 ELSE expired[m]]
              /\ UNCHANGED pruneVars
    /\ UNCHANGED <<clock, tx, row, relayVars, effects, aborted>>

\* A batch raises; what earlier batches deleted stays deleted.
PruneAborts ==
    /\ prune # "idle"
    /\ prune' = "idle"
    /\ pruneNow' = 0
    /\ UNCHANGED <<clock, dbVars, relayVars, history>>

Tick ==
    /\ clock < MaxTime
    /\ clock' = clock + 1
    /\ UNCHANGED <<dbVars, relayVars, pruneVars, history>>

-----------------------------------------------------------------------------
Producer(m) == Enqueue(m) \/ CommitTx(m) \/ RollbackTx(m)

Relay(w) ==
    \/ ClaimSelect(w) \/ ClaimCommit(w) \/ ClaimNothing(w)
    \/ DispatchRaises(w) \/ DedupeFirst(w) \/ DedupeDuplicate(w)
    \/ EffectDone(w) \/ EffectFailed(w)
    \/ MarkDelivered(w) \/ MarkRetry(w) \/ MarkFailed(w)

Prune == PruneStart \/ PruneDelivered \/ PruneFailed \/ PruneMarks \/ PruneAborts

Next ==
    \/ \E m \in Messages : Producer(m)
    \/ \E w \in Workers : Relay(w) \/ Crash(w)
    \/ RetryFailed
    \/ Prune
    \/ Tick

Spec == Init /\ [][Next]_vars

\* A live deployment: the clock advances and the runtime keeps every worker's
\* ticks running.  Producers, the operator and the sweep owe nothing.
FairSpec == Spec /\ WF_vars(Tick) /\ \A w \in Workers : WF_vars(Relay(w))

-----------------------------------------------------------------------------
PCs == {"idle", "claiming", "dispatch", "effect", "ok", "error"}

\* Type invariant: every variable keeps its shape, attempts never pass the
\* budget, a claimed row still has budget, and a worker is idle exactly when it holds no claimed row.
TypeOK ==
    /\ clock \in Time
    /\ tx \in [Messages -> {"none", "open", "committed", "rolledback"}]
    /\ row \in [Messages -> Row]
    /\ marks \in [Messages -> Time \cup {Null}]
    /\ pc \in [Workers -> PCs]
    /\ now \in [Workers -> Time]
    /\ batch \in [Workers -> SUBSET Claim]
    /\ prune \in {"idle", "delivered", "failed", "marks"}
    /\ pruneNow \in Time
    /\ effects \in [Messages -> Nat]
    /\ aborted \in [Messages -> Nat]
    /\ expired \in [Messages -> Nat]
    /\ \A w \in Workers : pc[w] = "idle" <=> batch[w] = {}

\* The workers between the commit of m's dedup mark and the end of its side effect.
InEffect(m) == {w \in Workers : pc[w] = "effect" /\ \E r \in batch[w] : IsNext(w, r) /\ r.id = m}

\* How many times a dedup mark was inserted for m since m was enqueued.
MarksInserted(m) == expired[m] + (IF marks[m] # Null THEN 1 ELSE 0)

\* Handler dedup: however many workers hold a row, however often it is retried,
\* rearmed or redelivered after a crash, every completed, failed or running
\* side effect of a message has inserted a dedup mark of its own.  So the
\* effect runs at most once for each time the sweep has forgotten the message.
EffectAccounting ==
    \A m \in Messages :
        MarksInserted(m) = effects[m] + aborted[m] + Cardinality(InEffect(m))

\* At-least-once, as far as the code goes: a row says "delivered" without its
\* side effect having completed only if an attempt failed or died after its
\* mark was committed, or is still running.
DeliveredAccountedFor ==
    \A m \in Messages :
        row[m].status = "delivered" /\ effects[m] = 0
            => aborted[m] > 0 \/ InEffect(m) # {}

\* The outbox's "if": nothing is dispatched, marked or visible to the relay for
\* a message whose business transaction has not committed.
DispatchedOnlyIfCommitted ==
    \A m \in Messages :
        \/ marks[m] # Null
        \/ effects[m] > 0
        \/ row[m].status \in {"pending", "delivered", "failed"}
        => tx[m] = "committed"

\* A row out of budget is never left pending, even when several workers write
\* back counts computed from old copies: no message is retried for ever.
PendingWithinBudget ==
    \A m \in Messages : row[m].status = "pending" => row[m].attempts < MaxAttempts

\* One relay worker: the copies it works from are never stale, so the counts
\* and statuses it writes back follow from what the table holds.
SnapshotFresh ==
    \A w \in Workers : \A r \in batch[w] :
        row[r.id].status = "pending" /\ row[r.id].attempts = r.attempts

\* A row that failed has used up exactly its budget (one relay worker).
FailedUsedBudget ==
    \A m \in Messages : row[m].status = "failed" => row[m].attempts = MaxAttempts

\* The message's place in the contract: a staged row is not published yet, and
\* a committed message without a row has been deleted by the sweep.
Lifecycle ==
    [m \in Messages |->
        IF row[m].status = "staged" THEN "absent"
        ELSE IF row[m].status = "absent" /\ tx[m] = "committed" THEN "pruned"
        ELSE row[m].status]

Contract == INSTANCE OutboxContract WITH state <- Lifecycle

\* One relay worker implements the documented state machine: no message leaves
\* a terminal state except through retry-failed or the sweep, none is deleted
\* while pending, and crashes, retries and redeliveries stay inside it.
StrictLifecycle == Contract!Spec

Due(m) == row[m].status = "pending" /\ row[m].available_at <= clock

\* Once workers stop crashing, every due row is eventually settled or put back
\* for later: a lease left by a dead worker (locked_by) never hides a row.
DueIsServed ==
    <>[][~ \E w \in Workers : Crash(w)]_vars => \A m \in Messages : Due(m) ~> ~Due(m)

-----------------------------------------------------------------------------
(* A statement of the documentation about this code.                       *)

\* "dispatch ... without losing or duplicating it across a process crash"
DeliveredMeansDone ==
    \A m \in Messages : row[m].status = "delivered" => effects[m] > 0
=============================================================================
