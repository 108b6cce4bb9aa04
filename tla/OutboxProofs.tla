---------------------------- MODULE OutboxProofs ----------------------------
(***************************************************************************)
(* Theorems about Outbox, for every set of messages, any number of relay   *)
(* workers and every configuration the settings accept.                    *)
(***************************************************************************)
EXTENDS Outbox, FiniteSetTheorems, TLAPS

-----------------------------------------------------------------------------
(* Types, the retry budget and the producer's transaction.  TypeOK alone   *)
(* is not inductive: a claimed copy has budget left only because a pending *)
(* row has, and a committing row only because no worker ever touched it.   *)

\* A row is where its business transaction put it, and workers hold only
\* rows of committed ones.
TxInv ==
    /\ \A m \in Messages :
          /\ tx[m] \in {"none", "rolledback"} => row[m].status = "absent"
          /\ tx[m] = "open" => row[m].status = "staged" /\ row[m].attempts = 0
          /\ tx[m] = "committed" => row[m].status # "staged"
          /\ marks[m] # Null \/ effects[m] > 0 => tx[m] = "committed"
    /\ \A w \in Workers : \A r \in batch[w] : tx[r.id] = "committed"

TypeInv == TypeOK /\ PendingWithinBudget /\ TxInv

\* retry_base * 2 ** (n - 1) capped at retry_max is a number of seconds.
LEMMA BackoffType == ASSUME NEW n \in 1..MaxAttempts PROVE Backoff(n) \in Int
BY SettingsAssumption DEF Backoff, Lesser

\* What the settling UPDATEs and retry-failed write.
LEMMA WrittenRows ==
    ASSUME NEW x \in Row, NEW w \in Workers, now[w] \in Time, NEW n \in 1..MaxAttempts
    PROVE  /\ DeliveredRow(x, w) \in Row /\ DeliveredRow(x, w).status = "delivered"
           /\ RetriedRow(x, w, n) \in Row /\ RetriedRow(x, w, n).status = x.status
           /\ RetriedRow(x, w, n).attempts = n
           /\ FailedRow(x, w, n) \in Row /\ FailedRow(x, w, n).status = "failed"
           /\ FailedRow(x, w, n).attempts = n
<1>1. /\ "delivered" \in Statuses /\ "failed" \in Statuses
      /\ NoWorker \in Workers \cup {NoWorker} /\ now[w] \in Time \cup {Null}
      /\ n \in 0..MaxAttempts /\ now[w] + Backoff(n) \in Int
  BY SettingsAssumption, BackoffType DEF Statuses, Time
<1>2. DeliveredRow(x, w) \in Row /\ RetriedRow(x, w, n) \in Row /\ FailedRow(x, w, n) \in Row
  BY <1>1, Zenon DEF DeliveredRow, RetriedRow, FailedRow, Unlocked, Row
<1>3. /\ DeliveredRow(x, w).status = "delivered"
      /\ RetriedRow(x, w, n).status = x.status /\ RetriedRow(x, w, n).attempts = n
      /\ FailedRow(x, w, n).status = "failed" /\ FailedRow(x, w, n).attempts = n
  BY DEF DeliveredRow, RetriedRow, FailedRow, Unlocked, Row
<1> QED
  BY <1>2, <1>3

LEMMA RearmedRows ==
    ASSUME NEW x \in Row, clock \in Time
    PROVE  RearmedRow(x) \in Row /\ RearmedRow(x).status = "pending" /\ RearmedRow(x).attempts = 0
<1>1. /\ "pending" \in Statuses /\ NoWorker \in Workers \cup {NoWorker}
      /\ 0 \in 0..MaxAttempts /\ clock \in Int
  BY SettingsAssumption DEF Statuses, Time
<1>2. RearmedRow(x) \in Row
  BY <1>1, Zenon DEF RearmedRow, Unlocked, Row
<1> QED
  BY <1>2 DEF RearmedRow, Unlocked, Row

LEMMA InitTypeInv == Init => TypeInv
BY SettingsAssumption
DEF Init, TypeInv, TypeOK, PendingWithinBudget, TxInv, Row, AbsentRow, FreshRow, Statuses, Time,
    Null, PCs, NoWorker

\* What a worker knows of a row it holds.
LEMMA HeldRow ==
    ASSUME TypeInv, NEW w \in Workers, NEW r \in batch[w]
    PROVE  /\ r \in Claim /\ r.id \in Messages /\ r.id \in Nat /\ r.available_at \in Int
           /\ r.attempts + 1 \in 1..MaxAttempts /\ 1 \in 1..MaxAttempts
           /\ row[r.id] \in Row /\ now[w] \in Time /\ tx[r.id] = "committed"
           /\ batch[w] # {}
<1>1. batch \in [Workers -> SUBSET Claim]
  BY DEF TypeInv, TypeOK
<1>2. r \in Claim
  BY <1>1
<1>3. r.id \in Messages /\ r.attempts \in 0..(MaxAttempts - 1) /\ r.available_at \in Int
  BY <1>2 DEF Claim
<1>4. row[r.id] \in Row /\ now[w] \in Time
  BY <1>3 DEF TypeInv, TypeOK
<1>5. 1 \in 1..MaxAttempts /\ \A n \in 0..(MaxAttempts - 1) : n + 1 \in 1..MaxAttempts
  BY SettingsAssumption
<1>6. r.id \in Nat
  BY <1>3, SettingsAssumption, Zenon
<1> QED
  BY <1>2, <1>3, <1>4, <1>5, <1>6 DEF TypeInv, TxInv

\* One UPDATE of a row a worker has claimed keeps every row in shape.
LEMMA SettleTypeInv ==
    ASSUME TypeInv, NEW w \in Workers, pc[w] # "idle", NEW r \in batch[w], NEW new \in Row,
           new.status = "pending" => new.attempts < MaxAttempts, 
           row[r.id].status # "absent" => new.status \notin {"absent", "staged"},
           Settle(w, r, new)
    PROVE  TypeInv'
<1>1. r \in Claim /\ tx[r.id] = "committed"
  BY HeldRow
<1>2. row' \in [Messages -> Row] /\ PendingWithinBudget'
  BY <1>1 DEF TypeInv, TypeOK, Settle, PendingWithinBudget, Claim
<1>3. batch' \in [Workers -> SUBSET Claim] /\ pc' \in [Workers -> PCs] /\ now' \in [Workers -> Time]
  BY SettingsAssumption DEF TypeInv, TypeOK, Settle, PCs, Time
<1>4. \A v \in Workers : pc'[v] = "idle" <=> batch'[v] = {}
  BY DEF TypeInv, TypeOK, Settle
<1>5. TxInv'
  BY <1>1 DEF TypeInv, TypeOK, TxInv, Settle, Claim, history
<1> QED
  BY <1>2, <1>3, <1>4, <1>5 DEF TypeInv, TypeOK, Settle, pruneVars, history

\* One batch of the sweep over outbox_messages.
LEMMA DeleteTypeInv ==
    ASSUME TypeInv, NEW S \in SUBSET Messages,
           \A m \in S : row[m].status \in {"delivered", "failed"},
           row' = Delete(S) \/ UNCHANGED row,
           prune' \in {"delivered", "failed", "marks"},
           UNCHANGED <<clock, tx, marks, relayVars, pruneNow, history>>
    PROVE  TypeInv'
<1>1. row' \in [Messages -> Row]
  BY SettingsAssumption
  DEF Delete, TypeInv, TypeOK, Row, AbsentRow, FreshRow, Statuses, Null, NoWorker
<1>2. \A m \in Messages : row'[m] = row[m] \/ (tx[m] = "committed" /\ row'[m].status = "absent")
  BY DEF Delete, AbsentRow, FreshRow, TypeInv, TypeOK, TxInv
<1> QED
  BY <1>1, <1>2 DEF TypeInv, TypeOK, PendingWithinBudget, TxInv, relayVars, history

LEMMA NextTypeInv == TypeInv /\ [Next]_vars => TypeInv'
<1> SUFFICES ASSUME TypeInv, [Next]_vars PROVE TypeInv'
  OBVIOUS
<1> USE SettingsAssumption
<1>1. ASSUME NEW m \in Messages, Producer(m) PROVE TypeInv'
  <2> USE DEF TypeInv, TypeOK, PendingWithinBudget, TxInv, Row, Statuses, Time, Null, NoWorker,
          relayVars, pruneVars, history
  <2>1. CASE Enqueue(m)
    BY <2>1 DEF Enqueue, StagedRow, FreshRow
  <2>2. CASE CommitTx(m)
    BY <2>2 DEF CommitTx
  <2>3. CASE RollbackTx(m)
    BY <2>3 DEF RollbackTx, AbsentRow, FreshRow
  <2> QED
    BY <1>1, <2>1, <2>2, <2>3 DEF Producer
<1>2. ASSUME NEW w \in Workers, Relay(w) PROVE TypeInv'
  <2>1. CASE ClaimSelect(w)
    <3>1. PICK S \in SUBSET Claimable :
             S # {} /\ batch' = [batch EXCEPT ![w] = {Snapshot(m) : m \in S}]
      BY <2>1, Zenon DEF ClaimSelect
    <3>2. \A m \in S : m \in Messages /\ row[m].status = "pending"
      BY <3>1 DEF Claimable, Ready
    <3>3. ASSUME NEW m \in S PROVE Snapshot(m) \in Claim /\ tx[Snapshot(m).id] = "committed"
      <4>1. m \in Messages /\ row[m] \in Row /\ row[m].attempts < MaxAttempts
        BY <3>2, Zenon DEF TypeInv, TypeOK, PendingWithinBudget
      <4>2. row[m].attempts \in 0..(MaxAttempts - 1) /\ row[m].available_at \in Int
        BY <4>1 DEF Row
      <4>3. tx[m] = "committed"
        BY <4>1, <3>2 DEF TypeInv, TypeOK, TxInv
      <4> QED
        BY <4>1, <4>2, <4>3 DEF Snapshot, Claim
    <3>4. batch' \in [Workers -> SUBSET Claim] /\ batch'[w] # {}
      BY <3>1, <3>3 DEF TypeInv, TypeOK
    <3>5. TypeOK'
      BY <2>1, <3>4 DEF ClaimSelect, TypeInv, TypeOK, PCs, Time, dbVars, pruneVars, history
    <3>6. \A v \in Workers : \A r \in batch'[v] : tx[r.id] = "committed"
      BY <3>1, <3>3 DEF TypeInv, TypeOK, TxInv
    <3> QED
      BY <2>1, <3>5, <3>6, Zenon DEF ClaimSelect, TypeInv, PendingWithinBudget, TxInv, dbVars, history
  <2>2. CASE ClaimCommit(w)
    <3>1. /\ row' \in [Messages -> Row]
          /\ \A m \in Messages : row'[m].status = row[m].status /\ row'[m].attempts = row[m].attempts
      BY <2>2 DEF ClaimCommit, TypeInv, TypeOK, Row
    <3> QED
      BY <2>2, <3>1
      DEF ClaimCommit, TypeInv, TypeOK, PendingWithinBudget, TxInv, PCs, pruneVars, history
  <2>3. CASE ClaimNothing(w)
    BY <2>3 DEF ClaimNothing, TypeInv, TypeOK, PendingWithinBudget, TxInv, vars, dbVars, relayVars,
       pruneVars, history
  <2>4. CASE DispatchRaises(w)
    BY <2>4 DEF DispatchRaises, AfterRaise, TypeInv, TypeOK, PendingWithinBudget, TxInv, PCs, dbVars,
       pruneVars, history
  <2>5. CASE DedupeFirst(w)
    BY <2>5 DEF DedupeFirst, TypeInv, TypeOK, PendingWithinBudget, TxInv, PCs, Claim, Time,
       pruneVars, history
  <2>6. CASE DedupeDuplicate(w)
    BY <2>6 DEF DedupeDuplicate, TypeInv, TypeOK, PendingWithinBudget, TxInv, PCs, dbVars,
       pruneVars, history
  <2>7. CASE EffectDone(w)
    <3>1. PICK m \in Messages : /\ effects' = [effects EXCEPT ![m] = @ + 1]
                                /\ tx[m] = "committed" /\ batch[w] # {}
      BY <2>7, HeldRow, Zenon DEF EffectDone
    <3>2. effects' \in [Messages -> Nat] /\ \A k \in Messages : k # m => effects'[k] = effects[k]
      BY <3>1 DEF TypeInv, TypeOK
    <3> QED
      BY <2>7, <3>1, <3>2 DEF EffectDone, TypeInv, TypeOK, PendingWithinBudget, TxInv, PCs, dbVars, pruneVars
  <2>8. CASE EffectFailed(w)
    <3>1. PICK m \in Messages : aborted' = [aborted EXCEPT ![m] = @ + 1] /\ batch[w] # {}
      BY <2>8, HeldRow, Zenon DEF EffectFailed
    <3>2. aborted' \in [Messages -> Nat]
      BY <3>1 DEF TypeInv, TypeOK
    <3> QED
      BY <2>8, <3>1, <3>2
      DEF EffectFailed, AfterRaise, TypeInv, TypeOK, PendingWithinBudget, TxInv, PCs, dbVars, pruneVars
  <2>9. CASE MarkDelivered(w)
    <3>1. PICK r \in batch[w] : Settle(w, r, DeliveredRow(row[r.id], w))
      BY <2>9 DEF MarkDelivered
    <3>2. r.id \in Messages /\ row[r.id] \in Row /\ now[w] \in Time /\ 1 \in 1..MaxAttempts
      BY HeldRow
    <3>3. DeliveredRow(row[r.id], w) \in Row /\ DeliveredRow(row[r.id], w).status = "delivered"
      BY <3>2, WrittenRows
    <3> QED
      BY <2>9, <3>1, <3>3, SettleTypeInv DEF MarkDelivered
  <2>10. CASE MarkRetry(w)
    <3>1. PICK r \in batch[w] : /\ ~Exhausted(r.attempts + 1)
                                /\ Settle(w, r, RetriedRow(row[r.id], w, r.attempts + 1))
      BY <2>10 DEF MarkRetry
    <3> DEFINE n == r.attempts + 1
    <3>2. r \in Claim /\ n \in 1..MaxAttempts /\ n < MaxAttempts
      BY <3>1 DEF TypeInv, TypeOK, Claim, Exhausted
    <3>3. row[r.id] \in Row /\ now[w] \in Time
      BY <3>2, Zenon DEF TypeInv, TypeOK, Claim
    <3> HIDE DEF n
    <3>4. /\ RetriedRow(row[r.id], w, n) \in Row
          /\ RetriedRow(row[r.id], w, n).status = row[r.id].status
          /\ RetriedRow(row[r.id], w, n).attempts = n
      BY <3>2, <3>3, WrittenRows
    <3>5. row[r.id].status # "staged"
      BY <3>2, Zenon DEF TypeInv, TxInv, Claim
    <3> QED
      BY <2>10, <3>1, <3>2, <3>4, <3>5, SettleTypeInv DEF MarkRetry, n
  <2>11. CASE MarkFailed(w)
    <3>1. PICK r \in batch[w] : Settle(w, r, FailedRow(row[r.id], w, r.attempts + 1))
      BY <2>11 DEF MarkFailed
    <3> DEFINE n == r.attempts + 1
    <3>2. r.id \in Messages /\ row[r.id] \in Row /\ now[w] \in Time /\ n \in 1..MaxAttempts
      BY HeldRow
    <3> HIDE DEF n
    <3>3. FailedRow(row[r.id], w, n) \in Row /\ FailedRow(row[r.id], w, n).status = "failed"
      BY <3>2, WrittenRows
    <3> QED
      BY <2>11, <3>1, <3>3, SettleTypeInv DEF MarkFailed, n
  <2> QED
    BY <1>2, <2>1, <2>2, <2>3, <2>4, <2>5, <2>6, <2>7, <2>8, <2>9, <2>10, <2>11 DEF Relay
<1>3. ASSUME NEW w \in Workers, Crash(w) PROVE TypeInv'
  BY <1>3 DEF Crash, TypeInv, TypeOK, PendingWithinBudget, TxInv, PCs, Time, dbVars, pruneVars
<1>4. CASE RetryFailed
  <2>1. \A m \in Messages :
           /\ row'[m] \in Row
           /\ \/ row'[m] = row[m]
              \/ row[m].status = "failed" /\ row'[m].status = "pending" /\ row'[m].attempts = 0
    BY <1>4, RearmedRows, Zenon DEF RetryFailed, Rearmable, TypeInv, TypeOK
  <2>2. row' \in [Messages -> Row]
    BY <1>4, <2>1 DEF RetryFailed
  <2> QED
    BY <1>4, <2>1, <2>2
    DEF RetryFailed, TypeInv, TypeOK, PendingWithinBudget, TxInv, relayVars, pruneVars, history
<1>5. CASE Prune
  <2>1. CASE PruneStart
    BY <2>1 DEF PruneStart, TypeInv, TypeOK, PendingWithinBudget, TxInv, dbVars, relayVars, history
  <2>2. CASE PruneDelivered
    <3>1. UNCHANGED row \/ \E S \in SUBSET DeliveredBefore(pruneNow - RetentionDelivered) : row' = Delete(S)
      BY <2>2 DEF PruneDelivered, OldestBatch
    <3> QED
      BY <2>2, <3>1, DeleteTypeInv, Zenon DEF PruneDelivered, DeliveredBefore
  <2>3. CASE PruneFailed
    <3>1. UNCHANGED row \/ \E S \in SUBSET FailedBefore(pruneNow - RetentionFailed) : row' = Delete(S)
      BY <2>3 DEF PruneFailed, OldestBatch
    <3> QED
      BY <2>3, <3>1, DeleteTypeInv, Zenon DEF PruneFailed, FailedBefore
  <2>4. CASE PruneMarks
    BY <2>4 DEF PruneMarks, TypeInv, TypeOK, PendingWithinBudget, TxInv, Time, relayVars, pruneVars
  <2>5. CASE PruneAborts
    BY <2>5 DEF PruneAborts, TypeInv, TypeOK, PendingWithinBudget, TxInv, Time, dbVars, relayVars, history
  <2> QED
    BY <1>5, <2>1, <2>2, <2>3, <2>4, <2>5 DEF Prune
<1>6. CASE Tick
  BY <1>6 DEF Tick, TypeInv, TypeOK, PendingWithinBudget, TxInv, Time, dbVars, relayVars, pruneVars, history
<1>7. CASE UNCHANGED vars
  BY <1>7 DEF TypeInv, TypeOK, PendingWithinBudget, TxInv, vars, dbVars, relayVars, pruneVars, history
<1> QED
  BY <1>1, <1>2, <1>3, <1>4, <1>5, <1>6, <1>7 DEF Next

\* Every variable of the outbox keeps its type, and no attempt count passes
\* max_attempts, whatever the interleaving of workers, crashes and sweeps.
THEOREM TypeCorrect == Spec => []TypeOK
<1>1. TypeInv => TypeOK
  BY DEF TypeInv
<1> QED
  BY InitTypeInv, NextTypeInv, <1>1, PTL DEF Spec

\* A row that is still pending has attempts left: the relay retries a message
\* at most max_attempts times between two retry-failed commands.
THEOREM BudgetKept == Spec => []PendingWithinBudget
<1>1. TypeInv => PendingWithinBudget
  BY DEF TypeInv
<1> QED
  BY InitTypeInv, NextTypeInv, <1>1, PTL DEF Spec

\* Nothing is dispatched for a business transaction that did not commit.
THEOREM CommittedFirst == Spec => []DispatchedOnlyIfCommitted
<1>1. TypeInv => DispatchedOnlyIfCommitted
  BY DEF TypeInv, TypeOK, TxInv, DispatchedOnlyIfCommitted
<1> QED
  BY InitTypeInv, NextTypeInv, <1>1, PTL DEF Spec

-----------------------------------------------------------------------------
(* Effects and dedup marks.                                                *)

\* A worker is at one row of its batch at a time.
LEMMA NextRowUnique ==
    ASSUME TypeInv, NEW w \in Workers, NEW r \in batch[w], NEW q \in batch[w],
           IsNext(w, r), IsNext(w, q)
    PROVE  r = q
<1>1. r.id \in Nat /\ q.id \in Nat /\ r.available_at \in Int /\ q.available_at \in Int
  BY HeldRow
<1>2. ~(Before(r, q) /\ Before(q, r))
  BY <1>1 DEF Before
<1> QED
  BY <1>2 DEF IsNext

LEMMA InEffectFinite ==
    ASSUME NEW m \in Messages
    PROVE  IsFiniteSet(InEffect(m)) /\ Cardinality(InEffect(m)) \in Nat
<1>1. InEffect(m) \in SUBSET Workers
  BY DEF InEffect
<1> QED
  BY <1>1, FS_Subset, FS_CardinalityType, SettingsAssumption

LEMMA MarksInsertedType ==
    ASSUME TypeInv, NEW m \in Messages
    PROVE  /\ MarksInserted(m) \in Nat
           /\ marks[m] # Null => MarksInserted(m) = expired[m] + 1
           /\ marks[m] = Null => MarksInserted(m) = expired[m]
BY DEF MarksInserted, TypeInv, TypeOK

\* A step that starts and ends no side effect and touches no mark.
LEMMA AccountsUnchanged ==
    ASSUME EffectAccounting, UNCHANGED <<marks, effects, aborted, expired>>,
           \A v \in Workers : /\ pc'[v] = "effect" <=> pc[v] = "effect"
                              /\ pc[v] = "effect" => batch'[v] = batch[v]
    PROVE  EffectAccounting'
<1> SUFFICES ASSUME NEW m \in Messages
             PROVE  MarksInserted(m)' = effects'[m] + aborted'[m] + Cardinality(InEffect(m))'
  BY DEF EffectAccounting
<1>1. InEffect(m)' = InEffect(m)
  BY DEF InEffect, IsNext
<1>2. MarksInserted(m)' = MarksInserted(m)
  BY DEF MarksInserted
<1> QED
  BY <1>1, <1>2 DEF EffectAccounting

\* The end of worker w's side effect, whether it completed, failed or died.
LEMMA LeaveEffect ==
    ASSUME TypeInv, NEW w \in Workers, pc[w] = "effect", NEW r \in batch[w], IsNext(w, r),
           pc'[w] # "effect",
           \A v \in Workers \ {w} : pc'[v] = pc[v] /\ batch'[v] = batch[v]
    PROVE  /\ r.id \in Messages
           /\ Cardinality(InEffect(r.id)') = Cardinality(InEffect(r.id)) - 1
           /\ \A m \in Messages : m # r.id => InEffect(m)' = InEffect(m)
<1>1. r.id \in Messages
  BY HeldRow
<1>2. w \in InEffect(r.id)
  BY DEF InEffect
<1>3. InEffect(r.id)' = InEffect(r.id) \ {w}
  BY DEF InEffect, IsNext
<1>4. ASSUME NEW m \in Messages, m # r.id PROVE InEffect(m)' = InEffect(m)
  <2>1. w \notin InEffect(m)
    BY <1>4, NextRowUnique DEF InEffect
  <2> QED
    BY <2>1 DEF InEffect, IsNext
<1>5. IsFiniteSet(InEffect(r.id))
  BY <1>1, InEffectFinite
<1>6. Cardinality(InEffect(r.id) \ {w}) = Cardinality(InEffect(r.id)) - 1
  BY <1>2, <1>5, FS_RemoveElement, Zenon
<1> QED
  BY <1>1, <1>3, <1>4, <1>6

LEMMA EnterEffect ==
    ASSUME TypeInv, NEW w \in Workers, pc[w] = "dispatch", NEW r \in batch[w], IsNext(w, r),
           pc' = [pc EXCEPT ![w] = "effect"], batch' = batch
    PROVE  /\ r.id \in Messages
           /\ Cardinality(InEffect(r.id)') = Cardinality(InEffect(r.id)) + 1
           /\ \A m \in Messages : m # r.id => InEffect(m)' = InEffect(m)
<1>1. r.id \in Messages /\ pc'[w] = "effect" /\ \A v \in Workers \ {w} : pc'[v] = pc[v]
  BY HeldRow DEF TypeInv, TypeOK
<1>2. w \notin InEffect(r.id)
  BY DEF InEffect
<1>3. InEffect(r.id)' = InEffect(r.id) \cup {w}
  BY <1>1 DEF InEffect, IsNext
<1>4. ASSUME NEW m \in Messages, m # r.id PROVE InEffect(m)' = InEffect(m)
  <2>1. w \notin InEffect(m)'
    BY <1>4, NextRowUnique DEF InEffect, IsNext
  <2> QED
    BY <1>1, <2>1 DEF InEffect, IsNext
<1> QED
  BY <1>1, <1>2, <1>3, <1>4, InEffectFinite, FS_AddElement, Zenon

LEMMA NextAccounting ==
    ASSUME TypeInv, EffectAccounting, [Next]_vars PROVE EffectAccounting'
<1>1. ASSUME NEW w \in Workers, DedupeFirst(w) PROVE EffectAccounting'
  <2>1. PICK r \in batch[w] : /\ IsNext(w, r) /\ marks[r.id] = Null
                              /\ marks' = [marks EXCEPT ![r.id] = clock]
    BY <1>1, Zenon DEF DedupeFirst, IsDuplicate
  <2> DEFINE k == r.id
  <2>2. /\ k \in Messages
        /\ Cardinality(InEffect(k)') = Cardinality(InEffect(k)) + 1
        /\ \A m \in Messages : m # k => InEffect(m)' = InEffect(m)
    BY <1>1, <2>1, EnterEffect, Zenon DEF DedupeFirst
  <2>3. marks[k] = Null /\ marks' = [marks EXCEPT ![k] = clock]
    BY <2>1
  <2> HIDE DEF k
  <2>4. marks'[k] # Null /\ \A m \in Messages : m # k => marks'[m] = marks[m]
    BY <2>2, <2>3, SettingsAssumption DEF TypeInv, TypeOK, Time, Null
  <2>5. /\ MarksInserted(k)' = MarksInserted(k) + 1
        /\ \A m \in Messages : m # k => MarksInserted(m)' = MarksInserted(m)
    BY <1>1, <2>2, <2>3, <2>4 DEF DedupeFirst, MarksInserted, TypeInv, TypeOK, history
  <2> QED
    BY <1>1, <2>2, <2>5, InEffectFinite DEF DedupeFirst, EffectAccounting, history, TypeInv, TypeOK
<1>2. ASSUME NEW w \in Workers, EffectDone(w) PROVE EffectAccounting'
  <2>1. PICK r \in batch[w] : IsNext(w, r) /\ effects' = [effects EXCEPT ![r.id] = @ + 1]
    BY <1>2, Zenon DEF EffectDone
  <2> DEFINE k == r.id
  <2>2. /\ k \in Messages
        /\ Cardinality(InEffect(k)') = Cardinality(InEffect(k)) - 1
        /\ \A m \in Messages : m # k => InEffect(m)' = InEffect(m)
    BY <1>2, <2>1, LeaveEffect DEF EffectDone, TypeInv, TypeOK
  <2>3. effects' = [effects EXCEPT ![k] = @ + 1]
    BY <2>1
  <2>4. \A m \in Messages : MarksInserted(m)' = MarksInserted(m)
    BY <1>2 DEF EffectDone, MarksInserted, dbVars
  <2> HIDE DEF k
  <2> QED
    BY <1>2, <2>2, <2>3, <2>4, InEffectFinite DEF EffectDone, EffectAccounting, TypeInv, TypeOK
<1>3. ASSUME NEW w \in Workers, EffectFailed(w) PROVE EffectAccounting'
  <2>1. PICK r \in batch[w] : IsNext(w, r) /\ aborted' = [aborted EXCEPT ![r.id] = @ + 1]
    BY <1>3, Zenon DEF EffectFailed
  <2> DEFINE k == r.id
  <2>2. /\ k \in Messages
        /\ Cardinality(InEffect(k)') = Cardinality(InEffect(k)) - 1
        /\ \A m \in Messages : m # k => InEffect(m)' = InEffect(m)
    BY <1>3, <2>1, LeaveEffect DEF EffectFailed, AfterRaise, TypeInv, TypeOK
  <2>3. aborted' = [aborted EXCEPT ![k] = @ + 1]
    BY <2>1
  <2>4. \A m \in Messages : MarksInserted(m)' = MarksInserted(m)
    BY <1>3 DEF EffectFailed, MarksInserted, dbVars
  <2> HIDE DEF k
  <2> QED
    BY <1>3, <2>2, <2>3, <2>4, InEffectFinite DEF EffectFailed, EffectAccounting, TypeInv, TypeOK
<1>4. ASSUME NEW w \in Workers, Crash(w) PROVE EffectAccounting'
  <2>1. \A m \in Messages : MarksInserted(m)' = MarksInserted(m)
    BY <1>4 DEF Crash, MarksInserted, dbVars
  <2>2. CASE \E r \in batch[w] : pc[w] = "effect" /\ IsNext(w, r)
    <3>1. PICK r \in batch[w] : pc[w] = "effect" /\ IsNext(w, r)
      BY <2>2
    <3>2. /\ r.id \in Messages
          /\ Cardinality(InEffect(r.id)') = Cardinality(InEffect(r.id)) - 1
          /\ \A m \in Messages : m # r.id => InEffect(m)' = InEffect(m)
      BY <1>4, <3>1, LeaveEffect DEF Crash, TypeInv, TypeOK
    <3>3. \A m \in Messages : aborted'[m] = IF m = r.id THEN aborted[m] + 1 ELSE aborted[m]
      BY <1>4, <3>1, NextRowUnique DEF Crash
    <3> QED
      BY <1>4, <2>1, <3>2, <3>3, InEffectFinite DEF Crash, EffectAccounting, TypeInv, TypeOK
  <2>3. CASE ~ \E r \in batch[w] : pc[w] = "effect" /\ IsNext(w, r)
    <3>1. \A m \in Messages : InEffect(m)' = InEffect(m) /\ aborted'[m] = aborted[m]
      BY <1>4, <2>3 DEF Crash, InEffect, IsNext, TypeInv, TypeOK
    <3> QED
      BY <1>4, <2>1, <3>1 DEF Crash, EffectAccounting
  <2> QED
    BY <2>2, <2>3
<1>5. CASE PruneMarks
  <2>1. \/ UNCHANGED <<marks, expired>>
        \/ \E S \in SUBSET MarksBefore(pruneNow - DedupRetention) :
              /\ marks' = [m \in Messages |-> IF m \in S THEN Null ELSE marks[m]]
              /\ expired' = [m \in Messages |-> IF m \in S THEN expired[m] + 1 ELSE expired[m]]
    BY <1>5 DEF PruneMarks, OldestBatch
  <2>2. \A m \in Messages : MarksInserted(m)' = MarksInserted(m)
    BY <2>1 DEF MarksBefore, MarksInserted, TypeInv, TypeOK
  <2>3. \A m \in Messages : InEffect(m)' = InEffect(m)
    BY <1>5 DEF PruneMarks, InEffect, IsNext, relayVars
  <2> QED
    BY <1>5, <2>2, <2>3 DEF PruneMarks, EffectAccounting
<1> DEFINE Quiet == /\ UNCHANGED <<marks, effects, aborted, expired>>
                    /\ \A v \in Workers : /\ pc'[v] = "effect" <=> pc[v] = "effect"
                                          /\ pc[v] = "effect" => batch'[v] = batch[v]
<1>6. Quiet => EffectAccounting'
  BY AccountsUnchanged
<1>7. ASSUME NEW m \in Messages, Producer(m) PROVE Quiet
  BY <1>7 DEF Producer, Enqueue, CommitTx, RollbackTx, relayVars, history
<1>8. ASSUME NEW w \in Workers,
             ClaimSelect(w) \/ ClaimCommit(w) \/ ClaimNothing(w) \/ DispatchRaises(w) \/ DedupeDuplicate(w)
      PROVE  Quiet
  BY <1>8 DEF ClaimSelect, ClaimCommit, ClaimNothing, DispatchRaises, AfterRaise, DedupeDuplicate,
     TypeInv, TypeOK, vars, dbVars, relayVars, history
<1>9. ASSUME NEW w \in Workers, MarkDelivered(w) \/ MarkRetry(w) \/ MarkFailed(w) PROVE Quiet
  BY <1>9 DEF MarkDelivered, MarkRetry, MarkFailed, Settle, TypeInv, TypeOK, history
<1>10. RetryFailed \/ Tick \/ UNCHANGED vars => Quiet
  BY DEF RetryFailed, Tick, vars, dbVars, relayVars, history
<1>11. PruneStart \/ PruneDelivered \/ PruneFailed \/ PruneAborts => Quiet
  BY DEF PruneStart, PruneDelivered, PruneFailed, PruneAborts, dbVars, relayVars, history
<1> HIDE DEF Quiet
<1> QED
  BY <1>1, <1>2, <1>3, <1>4, <1>5, <1>6, <1>7, <1>8, <1>9, <1>10, <1>11 DEF Next, Relay, Prune

LEMMA InitAccounting == Init => EffectAccounting
<1> SUFFICES ASSUME Init, NEW m \in Messages
             PROVE  MarksInserted(m) = effects[m] + aborted[m] + Cardinality(InEffect(m))
  BY DEF EffectAccounting
<1>1. InEffect(m) = {}
  BY DEF Init, InEffect
<1> QED
  BY <1>1, FS_EmptySet DEF Init, MarksInserted

\* Every completed, failed or running side effect has inserted its own dedup
\* mark, for any number of workers: retries, redeliveries after a crash,
\* shared claims and retry-failed never run an effect a second time while its
\* mark is kept.
THEOREM EffectsAccounted == Spec => []EffectAccounting
BY InitTypeInv, NextTypeInv, InitAccounting, NextAccounting, PTL DEF Spec

\* A mark has been inserted for every delivered row and for every row whose
\* handler has just returned: mark_delivered never runs ahead of the handler.
ProcessedInv ==
    /\ \A m \in Messages : row[m].status = "delivered" => MarksInserted(m) > 0
    /\ \A w \in Workers : pc[w] = "ok" =>
          \A r \in batch[w] : IsNext(w, r) => MarksInserted(r.id) > 0

\* The accounts only ever grow.
LEMMA MarksInsertedGrows ==
    ASSUME TypeInv, [Next]_vars, NEW m \in Messages
    PROVE  MarksInserted(m)' >= MarksInserted(m) /\ MarksInserted(m) \in Nat /\ MarksInserted(m)' \in Nat
<1>1. TypeInv'
  BY NextTypeInv
<1>2. MarksInserted(m) \in Nat /\ MarksInserted(m)' \in Nat
  BY <1>1 DEF MarksInserted, TypeInv, TypeOK
<1>3. ASSUME NEW w \in Workers, DedupeFirst(w) PROVE MarksInserted(m)' >= MarksInserted(m)
  <2>1. PICK k \in Messages : marks[k] = Null /\ marks' = [marks EXCEPT ![k] = clock]
    BY <1>3, HeldRow, Zenon DEF DedupeFirst, IsDuplicate
  <2> QED
    BY <1>3, <2>1 DEF DedupeFirst, MarksInserted, TypeInv, TypeOK, history
<1>4. CASE PruneMarks
  <2>1. \/ UNCHANGED <<marks, expired>>
        \/ \E S \in SUBSET Messages :
              /\ marks' = [k \in Messages |-> IF k \in S THEN Null ELSE marks[k]]
              /\ expired' = [k \in Messages |-> IF k \in S THEN expired[k] + 1 ELSE expired[k]]
    BY <1>4, Zenon DEF PruneMarks, OldestBatch, MarksBefore
  <2> QED
    BY <2>1 DEF MarksInserted, TypeInv, TypeOK
<1>5. CASE UNCHANGED <<marks, expired>>
  BY <1>2, <1>5 DEF MarksInserted
<1>6. \/ UNCHANGED <<marks, expired>> \/ PruneMarks
      \/ \E w \in Workers : DedupeFirst(w)
  BY DEF Next, Producer, Enqueue, CommitTx, RollbackTx, Relay, ClaimSelect, ClaimCommit, ClaimNothing,
     DispatchRaises, DedupeDuplicate, EffectDone, EffectFailed, MarkDelivered, MarkRetry, MarkFailed,
     Settle, Crash, RetryFailed, Prune, PruneStart, PruneDelivered, PruneFailed, PruneAborts, Tick,
     vars, dbVars, history
<1> QED
  BY <1>2, <1>3, <1>4, <1>5, <1>6

\* Only mark_delivered, at the row whose handler returned, makes a row delivered.
LEMMA DeliveredStep ==
    ASSUME TypeInv, [Next]_vars, NEW m \in Messages, row'[m].status = "delivered"
    PROVE  \/ row[m].status = "delivered"
           \/ \E w \in Workers : pc[w] = "ok" /\ \E r \in batch[w] : IsNext(w, r) /\ r.id = m
<1> USE DEF TypeInv, TypeOK
<1>1. ASSUME NEW k \in Messages, Producer(k) PROVE row[m].status = "delivered"
  <2>1. CASE Enqueue(k)
    BY <2>1 DEF Enqueue, StagedRow, FreshRow
  <2>2. CASE CommitTx(k)
    BY <2>2 DEF CommitTx, Row
  <2>3. CASE RollbackTx(k)
    BY <2>3 DEF RollbackTx, AbsentRow, FreshRow
  <2> QED
    BY <1>1, <2>1, <2>2, <2>3 DEF Producer
<1>2. ASSUME NEW w \in Workers, ClaimCommit(w) PROVE row[m].status = "delivered"
  BY <1>2 DEF ClaimCommit, Row
<1>3. ASSUME NEW w \in Workers, NEW r \in batch[w], NEW new, Settle(w, r, new), r.id # m
      PROVE  row[m].status = "delivered"
  BY <1>3 DEF Settle
<1>4. ASSUME NEW w \in Workers, MarkDelivered(w)
      PROVE  \/ row[m].status = "delivered"
             \/ pc[w] = "ok" /\ \E r \in batch[w] : IsNext(w, r) /\ r.id = m
  BY <1>3, <1>4 DEF MarkDelivered
<1>5. ASSUME NEW w \in Workers, MarkRetry(w) PROVE row[m].status = "delivered"
  <2>1. PICK r \in batch[w] : Settle(w, r, RetriedRow(row[r.id], w, r.attempts + 1))
    BY <1>5 DEF MarkRetry
  <2> DEFINE n == r.attempts + 1
  <2>2. row[r.id] \in Row /\ now[w] \in Time /\ n \in 1..MaxAttempts /\ r.id \in Messages
    BY HeldRow
  <2> HIDE DEF n
  <2>3. RetriedRow(row[r.id], w, n).status = row[r.id].status
    BY <2>2, WrittenRows
  <2>4. CASE r.id = m
    BY <2>1, <2>3, <2>4 DEF Settle, n
  <2> QED
    BY <1>3, <2>1, <2>4
<1>6. ASSUME NEW w \in Workers, MarkFailed(w) PROVE row[m].status = "delivered"
  <2>1. PICK r \in batch[w] : Settle(w, r, FailedRow(row[r.id], w, r.attempts + 1))
    BY <1>6 DEF MarkFailed
  <2> DEFINE n == r.attempts + 1
  <2>2. row[r.id] \in Row /\ now[w] \in Time /\ n \in 1..MaxAttempts /\ r.id \in Messages
    BY HeldRow
  <2> HIDE DEF n
  <2>3. FailedRow(row[r.id], w, n).status = "failed"
    BY <2>2, WrittenRows
  <2>4. CASE r.id = m
    BY <2>1, <2>3, <2>4 DEF Settle, n
  <2> QED
    BY <1>3, <2>1, <2>4
<1>7. CASE RetryFailed
  BY <1>7, RearmedRows DEF RetryFailed
<1>8. CASE PruneDelivered \/ PruneFailed
  <2>1. row' = row \/ \E S \in SUBSET Messages : row' = Delete(S)
    BY <1>8, Zenon DEF PruneDelivered, PruneFailed, OldestBatch, DeliveredBefore, FailedBefore
  <2> QED
    BY <2>1 DEF Delete, AbsentRow, FreshRow
<1>9. ASSUME NEW w \in Workers,
             \/ ClaimSelect(w) \/ ClaimNothing(w) \/ DispatchRaises(w) \/ DedupeFirst(w)
             \/ DedupeDuplicate(w) \/ EffectDone(w) \/ EffectFailed(w) \/ Crash(w)
      PROVE  row' = row
  BY <1>9 DEF ClaimSelect, ClaimNothing, DispatchRaises, DedupeFirst, DedupeDuplicate, EffectDone,
     EffectFailed, Crash, vars, dbVars
<1>10. PruneStart \/ PruneMarks \/ PruneAborts \/ Tick \/ UNCHANGED vars => row' = row
  BY DEF PruneStart, PruneMarks, PruneAborts, Tick, vars, dbVars
<1> QED
  BY <1>1, <1>2, <1>4, <1>5, <1>6, <1>7, <1>8, <1>9, <1>10 DEF Next, Relay, Prune

\* A handler has just returned because it found a mark or finished its effect.
LEMMA HandlerReturns ==
    ASSUME TypeInv, [Next]_vars, NEW w \in Workers, pc'[w] = "ok"
    PROVE  batch'[w] = batch[w] /\ (pc[w] = "ok" \/ DedupeDuplicate(w) \/ EffectDone(w))
<1> USE DEF TypeInv, TypeOK
<1>1. ASSUME NEW v \in Workers, Relay(v)
      PROVE  batch'[w] = batch[w] /\ (pc[w] = "ok" \/ DedupeDuplicate(w) \/ EffectDone(w))
  <2>1. CASE v # w
    BY <1>1, <2>1 DEF Relay, ClaimSelect, ClaimCommit, ClaimNothing, DispatchRaises, DedupeFirst,
       DedupeDuplicate, EffectDone, EffectFailed, MarkDelivered, MarkRetry, MarkFailed, Settle,
       vars, relayVars
  <2>2. CASE v = w
    <3>1. DedupeDuplicate(w) \/ EffectDone(w) => batch' = batch
      BY DEF DedupeDuplicate, EffectDone
    <3>2. ~(\/ ClaimSelect(w) \/ ClaimCommit(w) \/ DispatchRaises(w) \/ DedupeFirst(w)
            \/ EffectFailed(w) \/ MarkDelivered(w) \/ MarkRetry(w) \/ MarkFailed(w))
      BY DEF ClaimSelect, ClaimCommit, DispatchRaises, AfterRaise, DedupeFirst, EffectFailed,
         MarkDelivered, MarkRetry, MarkFailed, Settle
    <3>3. ClaimNothing(w) => pc' = pc /\ batch' = batch
      BY DEF ClaimNothing, vars, relayVars
    <3> QED
      BY <1>1, <2>2, <3>1, <3>2, <3>3 DEF Relay
  <2> QED
    BY <2>1, <2>2
<1>2. ASSUME NEW v \in Workers, Crash(v) PROVE batch'[w] = batch[w] /\ pc[w] = "ok"
  BY <1>2 DEF Crash
<1>3. (\E m \in Messages : Producer(m)) \/ RetryFailed \/ Prune \/ Tick \/ UNCHANGED vars
      => pc' = pc /\ batch' = batch
  BY DEF Producer, Enqueue, CommitTx, RollbackTx, RetryFailed, Prune, PruneStart, PruneDelivered,
     PruneFailed, PruneMarks, PruneAborts, Tick, vars, relayVars
<1> QED
  BY <1>1, <1>2, <1>3 DEF Next

LEMMA NextProcessed ==
    ASSUME TypeInv, EffectAccounting, ProcessedInv, [Next]_vars PROVE ProcessedInv'
<1>1. ASSUME NEW m \in Messages, row'[m].status = "delivered" PROVE MarksInserted(m) > 0
  BY <1>1, DeliveredStep DEF ProcessedInv
<1>2. ASSUME NEW w \in Workers, pc'[w] = "ok", NEW r \in batch'[w], IsNext(w, r)'
      PROVE  r.id \in Messages /\ MarksInserted(r.id) > 0
  <2>1. r \in batch[w] /\ IsNext(w, r)
    BY <1>2, HandlerReturns DEF IsNext
  <2> DEFINE k == r.id
  <2>2. k \in Messages
    BY <2>1, HeldRow
  <2>3. CASE pc[w] = "ok"
    BY <2>1, <2>2, <2>3 DEF ProcessedInv
  <2>4. CASE DedupeDuplicate(w)
    <3>1. marks[k] # Null
      BY <2>1, <2>4, NextRowUnique DEF DedupeDuplicate, IsDuplicate
    <3> QED
      BY <2>2, <3>1 DEF MarksInserted, TypeInv, TypeOK
  <2>5. CASE EffectDone(w)
    <3>1. w \in InEffect(k)
      BY <2>1, <2>5 DEF EffectDone, InEffect
    <3> HIDE DEF k
    <3>2. Cardinality(InEffect(k)) \in Nat /\ Cardinality(InEffect(k)) # 0
      BY <2>2, <3>1, InEffectFinite, FS_EmptySet
    <3>3. MarksInserted(k) > 0
      BY <2>2, <3>2 DEF EffectAccounting, TypeInv, TypeOK
    <3> QED
      BY <2>2, <3>3 DEF k
  <2> QED
    BY <1>2, <2>2, <2>3, <2>4, <2>5, HandlerReturns
<1>3. ASSUME NEW m \in Messages, MarksInserted(m) > 0 PROVE MarksInserted(m)' > 0
  BY <1>3, MarksInsertedGrows
<1>4. \A m \in Messages : row'[m].status = "delivered" => MarksInserted(m)' > 0
  BY <1>1, <1>3
<1>5. ASSUME NEW w \in Workers, pc'[w] = "ok", NEW r \in batch'[w], IsNext(w, r)'
      PROVE  MarksInserted(r.id)' > 0
  BY <1>2, <1>3, <1>5
<1> QED
  BY <1>4, <1>5 DEF ProcessedInv

LEMMA InitProcessed == Init => ProcessedInv
BY DEF Init, ProcessedInv, AbsentRow, FreshRow

LEMMA ProcessedAccountedFor ==
    ASSUME TypeInv, EffectAccounting, ProcessedInv PROVE DeliveredAccountedFor
<1> SUFFICES ASSUME NEW m \in Messages, row[m].status = "delivered", effects[m] = 0,
                    InEffect(m) = {}
             PROVE  aborted[m] > 0
  BY DEF DeliveredAccountedFor
<1>1. MarksInserted(m) > 0
  BY DEF ProcessedInv
<1>2. Cardinality(InEffect(m)) = 0
  BY FS_EmptySet
<1>3. MarksInserted(m) = effects[m] + aborted[m] + Cardinality(InEffect(m))
  BY DEF EffectAccounting
<1>4. aborted[m] \in Nat
  BY DEF TypeInv, TypeOK
<1> QED
  BY <1>1, <1>2, <1>3, <1>4

\* A message is reported delivered without its effect only when an attempt
\* failed or died after its mark was committed, or is still running.
THEOREM DeliveredIsAccountedFor == Spec => []DeliveredAccountedFor
BY InitTypeInv, NextTypeInv, InitAccounting, NextAccounting, InitProcessed, NextProcessed,
   ProcessedAccountedFor, PTL DEF Spec

(***************************************************************************)
(* With one relay worker the outbox implements OutboxContract.  The proof  *)
(* rests on the worker's copies being fresh: nobody else writes a pending  *)
(* row between its claim and its settling UPDATE.                          *)
(***************************************************************************)

OneWorker == \A v, w \in Workers : v = w

\* The copies are fresh, a batch holds a row once, and the budget is spent
\* exactly when a row fails.
FreshInv ==
    /\ SnapshotFresh
    /\ FailedUsedBudget
    /\ \A w \in Workers : \A r, q \in batch[w] : r.id = q.id => r = q

\* A step that takes no new row and leaves the rows the worker keeps alone.
LEMMA FreshKept ==
    ASSUME FreshInv,
           \A w \in Workers : batch'[w] \subseteq batch[w],
           \A w \in Workers : \A r \in batch'[w] :
               row'[r.id].status = row[r.id].status /\ row'[r.id].attempts = row[r.id].attempts,
           FailedUsedBudget'
    PROVE  FreshInv'
BY DEF FreshInv, SnapshotFresh

\* The worker's row is settled and leaves its batch.
LEMMA SettleFresh ==
    ASSUME TypeInv, FreshInv, OneWorker, NEW w \in Workers, NEW r \in batch[w], NEW new,
           Settle(w, r, new), new.status = "failed" => new.attempts = MaxAttempts
    PROVE  FreshInv'
<1>1. /\ batch'[w] = batch[w] \ {r}
      /\ \A v \in Workers : v = w
  BY DEF Settle, TypeInv, TypeOK, OneWorker
<1>2. ASSUME NEW q \in batch'[w] PROVE row'[q.id] = row[q.id]
  <2>1. q \in batch[w] /\ q # r /\ q.id # r.id
    BY <1>1, <1>2 DEF FreshInv
  <2> QED
    BY <2>1, HeldRow DEF Settle, TypeInv, TypeOK
<1>3. FailedUsedBudget'
  BY HeldRow DEF FreshInv, FailedUsedBudget, Settle, TypeInv, TypeOK
<1> QED
  BY <1>1, <1>2, <1>3, FreshKept

LEMMA DeleteFresh ==
    ASSUME TypeInv, FreshInv, NEW S \in SUBSET Messages,
           \A m \in S : row[m].status # "pending",
           row' = Delete(S), batch' = batch
    PROVE  FreshInv'
<1>1. \A w \in Workers : \A r \in batch[w] : r.id \in Messages /\ r.id \notin S
  BY HeldRow DEF FreshInv, SnapshotFresh
<1>2. FailedUsedBudget'
  BY DEF FreshInv, FailedUsedBudget, Delete, AbsentRow, FreshRow
<1> QED
  BY <1>1, <1>2, FreshKept DEF Delete

LEMMA NextFresh == ASSUME OneWorker, TypeInv, FreshInv, [Next]_vars PROVE FreshInv'
<1>1. ASSUME NEW m \in Messages, Producer(m) PROVE FreshInv'
  <2>1. tx[m] # "committed" /\ batch' = batch
    BY <1>1 DEF Producer, Enqueue, CommitTx, RollbackTx, relayVars
  <2>2. \A k \in Messages : k # m => row'[k] = row[k]
    BY <1>1 DEF Producer, Enqueue, CommitTx, RollbackTx, TypeInv, TypeOK
  <2>3. \A w \in Workers : \A r \in batch[w] : r.id \in Messages /\ r.id # m
    BY <2>1, HeldRow
  <2>4. row'[m].status # "failed"
    <3>1. CASE Enqueue(m)
      BY <3>1 DEF Enqueue, StagedRow, FreshRow, TypeInv, TypeOK
    <3>2. CASE CommitTx(m)
      BY <3>2 DEF CommitTx, TypeInv, TypeOK, Row
    <3>3. CASE RollbackTx(m)
      BY <3>3 DEF RollbackTx, AbsentRow, FreshRow, TypeInv, TypeOK
    <3> QED
      BY <1>1, <3>1, <3>2, <3>3 DEF Producer
  <2>5. FailedUsedBudget'
    BY <2>2, <2>4 DEF FreshInv, FailedUsedBudget
  <2> QED
    BY <2>1, <2>2, <2>3, <2>5, FreshKept
<1>2. ASSUME NEW w \in Workers, ClaimSelect(w) PROVE FreshInv'
  <2>1. PICK S \in SUBSET Claimable : batch' = [batch EXCEPT ![w] = {Snapshot(m) : m \in S}]
    BY <1>2, Zenon DEF ClaimSelect
  <2>2. batch'[w] = {Snapshot(m) : m \in S} /\ \A v \in Workers : v = w
    BY <2>1 DEF TypeInv, TypeOK, OneWorker
  <2>3. \A m \in S : m \in Messages /\ row[m].status = "pending"
    BY DEF Claimable, Ready
  <2>4. row' = row
    BY <1>2 DEF ClaimSelect, dbVars
  <2> QED
    BY <2>2, <2>3, <2>4 DEF FreshInv, SnapshotFresh, FailedUsedBudget, Snapshot
<1>3. ASSUME NEW w \in Workers, ClaimCommit(w) PROVE FreshInv'
  <2>1. \A m \in Messages : row'[m].status = row[m].status /\ row'[m].attempts = row[m].attempts
    BY <1>3 DEF ClaimCommit, TypeInv, TypeOK, Row
  <2>2. FailedUsedBudget'
    BY <2>1 DEF FreshInv, FailedUsedBudget
  <2>3. batch' = batch
    BY <1>3 DEF ClaimCommit
  <2> QED
    BY <2>1, <2>2, <2>3, HeldRow, FreshKept
<1>4. ASSUME NEW w \in Workers, MarkDelivered(w) PROVE FreshInv'
  <2>1. PICK r \in batch[w] : Settle(w, r, DeliveredRow(row[r.id], w))
    BY <1>4 DEF MarkDelivered
  <2>2. DeliveredRow(row[r.id], w).status = "delivered"
    BY HeldRow, WrittenRows
  <2> QED
    BY <2>1, <2>2, SettleFresh
<1>5. ASSUME NEW w \in Workers, MarkRetry(w) PROVE FreshInv'
  <2>1. PICK r \in batch[w] : Settle(w, r, RetriedRow(row[r.id], w, r.attempts + 1))
    BY <1>5 DEF MarkRetry
  <2> DEFINE n == r.attempts + 1
  <2>2. row[r.id] \in Row /\ now[w] \in Time /\ n \in 1..MaxAttempts
    BY HeldRow
  <2> HIDE DEF n
  <2>3. RetriedRow(row[r.id], w, n).status = "pending"
    BY <2>2, WrittenRows DEF FreshInv, SnapshotFresh
  <2> QED
    BY <2>1, <2>3, SettleFresh DEF n
<1>6. ASSUME NEW w \in Workers, MarkFailed(w) PROVE FreshInv'
  <2>1. PICK r \in batch[w] : /\ Exhausted(r.attempts + 1)
                              /\ Settle(w, r, FailedRow(row[r.id], w, r.attempts + 1))
    BY <1>6 DEF MarkFailed
  <2> DEFINE n == r.attempts + 1
  <2>2. row[r.id] \in Row /\ now[w] \in Time /\ n \in 1..MaxAttempts /\ n >= MaxAttempts
    BY <2>1, HeldRow DEF Exhausted
  <2> HIDE DEF n
  <2>3. FailedRow(row[r.id], w, n).attempts = n /\ n = MaxAttempts
    BY <2>2, WrittenRows, SettingsAssumption
  <2> QED
    BY <2>1, <2>3, SettleFresh DEF n
<1>7. ASSUME NEW w \in Workers, Crash(w) PROVE FreshInv'
  BY <1>7 DEF Crash, FreshInv, SnapshotFresh, FailedUsedBudget, TypeInv, TypeOK, dbVars
<1>8. CASE RetryFailed
  <2>1. \A m \in Messages : row[m].status # "failed" => row'[m] = row[m]
    BY <1>8 DEF RetryFailed, Rearmable
  <2>2. \A m \in Messages : row[m].status = "failed" => row'[m].status = "pending"
    BY <1>8, RearmedRows DEF RetryFailed, Rearmable, TypeInv, TypeOK
  <2>3. FailedUsedBudget' /\ batch' = batch
    BY <1>8, <2>1, <2>2 DEF RetryFailed, relayVars, FailedUsedBudget, FreshInv
  <2>4. \A w \in Workers : \A r \in batch[w] : row'[r.id] = row[r.id]
    BY <2>1, HeldRow, Zenon DEF FreshInv, SnapshotFresh
  <2> QED
    BY <2>3, <2>4, FreshKept
<1>9. CASE row' = row /\ batch' = batch
  BY <1>9 DEF FreshInv, SnapshotFresh, FailedUsedBudget
<1>10. CASE PruneDelivered \/ PruneFailed
  <2>1. batch' = batch /\ (row' = row \/ \E S \in SUBSET Messages :
            (\A m \in S : row[m].status # "pending") /\ row' = Delete(S))
    BY <1>10, Zenon DEF PruneDelivered, PruneFailed, OldestBatch, DeliveredBefore, FailedBefore, relayVars
  <2> QED
    BY <1>9, <2>1, DeleteFresh
<1>11. ASSUME NEW w \in Workers,
              \/ ClaimNothing(w) \/ DispatchRaises(w) \/ DedupeFirst(w)
              \/ DedupeDuplicate(w) \/ EffectDone(w) \/ EffectFailed(w)
       PROVE  row' = row /\ batch' = batch
  BY <1>11 DEF ClaimNothing, DispatchRaises, DedupeFirst, DedupeDuplicate, EffectDone,
     EffectFailed, vars, dbVars, relayVars
<1>12. PruneStart \/ PruneMarks \/ PruneAborts \/ Tick \/ UNCHANGED vars => row' = row /\ batch' = batch
  BY DEF PruneStart, PruneMarks, PruneAborts, Tick, vars, dbVars, relayVars
<1> QED
  BY <1>1, <1>2, <1>3, <1>4, <1>5, <1>6, <1>7, <1>8, <1>9, <1>10, <1>11, <1>12 DEF Next, Relay, Prune

LEMMA InitFresh == Init => FreshInv
BY DEF Init, FreshInv, SnapshotFresh, FailedUsedBudget, AbsentRow, FreshRow

\* With one worker, what the relay writes back follows from what the table
\* holds: no attempt is lost and no finished row is overwritten.
THEOREM OneWorkerFresh == ASSUME OneWorker PROVE Spec => []SnapshotFresh
<1>1. FreshInv => SnapshotFresh
  BY DEF FreshInv
<1> QED
  BY <1>1, InitTypeInv, NextTypeInv, InitFresh, NextFresh, PTL DEF Spec

\* With one worker, a row fails exactly when its budget is spent.
THEOREM OneWorkerBudget == ASSUME OneWorker PROVE Spec => []FailedUsedBudget
<1>1. FreshInv => FailedUsedBudget
  BY DEF FreshInv
<1> QED
  BY <1>1, InitTypeInv, NextTypeInv, InitFresh, NextFresh, PTL DEF Spec

-----------------------------------------------------------------------------
(* The refinement.                                                         *)

\* A step after which no row has another status and no transaction another
\* outcome is a stutter of the contract.
LEMMA SameLifecycle ==
    ASSUME \A m \in Messages : row'[m].status = row[m].status /\ tx'[m] = tx[m]
    PROVE  Lifecycle' = Lifecycle
BY DEF Lifecycle

\* A step that moves the messages of S, all of them at once, to status s.
LEMMA MoveLifecycle ==
    ASSUME NEW S \in SUBSET Messages, NEW s,
           \A m \in S : Lifecycle'[m] = s,
           \A m \in Messages \ S : row'[m].status = row[m].status /\ tx'[m] = tx[m]
    PROVE  Contract!Move(S, s)
<1>1. \A m \in Messages : Lifecycle'[m] = IF m \in S THEN s ELSE Lifecycle[m]
  BY Zenon DEF Lifecycle
<1> QED
  BY <1>1 DEF Contract!Move, Lifecycle

\* The status of a committed message's row is its place in the contract.
LEMMA LifecycleOf ==
    ASSUME NEW m \in Messages
    PROVE  /\ Lifecycle[m] = IF row[m].status = "staged" THEN "absent"
                             ELSE IF row[m].status = "absent" /\ tx[m] = "committed" THEN "pruned"
                             ELSE row[m].status
           /\ Lifecycle'[m] = IF row'[m].status = "staged" THEN "absent"
                              ELSE IF row'[m].status = "absent" /\ tx'[m] = "committed" THEN "pruned"
                              ELSE row'[m].status
BY DEF Lifecycle

LEMMA SettleContract ==
    ASSUME TypeInv, FreshInv, NEW w \in Workers, NEW r \in batch[w], NEW new,
           Settle(w, r, new), new.status \in {"pending", "delivered", "failed"}
    PROVE  [Contract!Next]_Lifecycle
<1> DEFINE k == r.id
<1>1. k \in Messages /\ row[k].status = "pending"
  BY HeldRow DEF FreshInv, SnapshotFresh
<1>2. row' = [row EXCEPT ![k] = new] /\ tx' = tx
  BY <1>1 DEF Settle, TypeInv, TypeOK
<1> HIDE DEF k
<1>3. /\ row'[k].status = new.status
      /\ \A m \in Messages \ {k} : row'[m].status = row[m].status /\ tx'[m] = tx[m]
  BY <1>1, <1>2 DEF TypeInv, TypeOK
<1>4. CASE new.status = "pending"
  BY <1>1, <1>2, <1>3, <1>4, SameLifecycle
<1>5. CASE new.status \in {"delivered", "failed"}
  <2>1. Lifecycle[k] = "pending" /\ Lifecycle'[k] = new.status
    BY <1>1, <1>3, <1>5, LifecycleOf
  <2>2. Contract!Move({k}, new.status)
    BY <1>1, <1>3, <2>1, MoveLifecycle
  <2> QED
    BY <1>1, <1>5, <2>1, <2>2, Zenon DEF Contract!Next, Contract!Deliver, Contract!Fail, Contract!In
<1> QED
  BY <1>4, <1>5

\* One batch of the sweep: the deleted rows all had status s.
LEMMA DeleteContract ==
    ASSUME TypeInv, NEW s \in {"delivered", "failed"}, NEW S \in SUBSET Messages,
           \A m \in S : row[m].status = s, row' = Delete(S), tx' = tx
    PROVE  [Contract!Next]_Lifecycle
<1>1. \A m \in S : tx[m] = "committed" /\ row'[m].status = "absent"
  BY DEF TypeInv, TypeOK, TxInv, Delete, AbsentRow, FreshRow
<1>2. \A m \in S : Lifecycle[m] = s /\ Lifecycle'[m] = "pruned"
  BY <1>1, LifecycleOf
<1>3. Contract!Move(S, "pruned")
  BY <1>2, MoveLifecycle DEF Delete
<1> QED
  BY <1>2, <1>3 DEF Contract!Next, Contract!Forget, Contract!In

LEMMA NextContract ==
    ASSUME TypeInv, FreshInv, [Next]_vars PROVE [Contract!Next]_Lifecycle
<1>1. ASSUME NEW m \in Messages, Producer(m) PROVE [Contract!Next]_Lifecycle
  <2>1. \A k \in Messages \ {m} : row'[k].status = row[k].status /\ tx'[k] = tx[k]
    BY <1>1 DEF Producer, Enqueue, CommitTx, RollbackTx, TypeInv, TypeOK
  <2>2. CASE Enqueue(m)
    <3>1. row[m].status = "absent" /\ tx[m] = "none" /\ row'[m].status = "staged"
      BY <2>2 DEF Enqueue, StagedRow, FreshRow, TypeInv, TypeOK, TxInv
    <3>2. \A k \in Messages : Lifecycle'[k] = Lifecycle[k]
      BY <2>1, <3>1, LifecycleOf
    <3> QED
      BY <3>2 DEF Lifecycle
  <2>3. CASE CommitTx(m)
    <3>1. row[m].status = "staged" /\ row'[m].status = "pending"
      BY <2>3 DEF CommitTx, TypeInv, TypeOK, TxInv, Row
    <3>2. Lifecycle[m] = "absent" /\ Lifecycle'[m] = "pending"
      BY <3>1, LifecycleOf
    <3>3. Contract!Move({m}, "pending")
      BY <2>1, <3>2, MoveLifecycle
    <3> QED
      BY <3>2, <3>3 DEF Contract!Next, Contract!Publish, Contract!In
  <2>4. CASE RollbackTx(m)
    <3>1. /\ row[m].status = "staged"
          /\ row'[m].status = "absent" /\ tx'[m] = "rolledback"
      BY <2>4 DEF RollbackTx, AbsentRow, FreshRow, TypeInv, TypeOK, TxInv
    <3>2. \A k \in Messages : Lifecycle'[k] = Lifecycle[k]
      BY <2>1, <3>1, LifecycleOf
    <3> QED
      BY <3>2 DEF Lifecycle
  <2> QED
    BY <1>1, <2>2, <2>3, <2>4 DEF Producer
<1>2. ASSUME NEW w \in Workers, ClaimCommit(w) PROVE [Contract!Next]_Lifecycle
  <2>1. \A m \in Messages : row'[m].status = row[m].status /\ tx'[m] = tx[m]
    BY <1>2 DEF ClaimCommit, TypeInv, TypeOK, Row
  <2> QED
    BY <2>1, SameLifecycle
<1>3. ASSUME NEW w \in Workers, MarkDelivered(w) PROVE [Contract!Next]_Lifecycle
  <2>1. PICK r \in batch[w] : Settle(w, r, DeliveredRow(row[r.id], w))
    BY <1>3 DEF MarkDelivered
  <2>2. DeliveredRow(row[r.id], w).status = "delivered"
    BY HeldRow, WrittenRows
  <2> QED
    BY <2>1, <2>2, SettleContract
<1>4. ASSUME NEW w \in Workers, MarkRetry(w) PROVE [Contract!Next]_Lifecycle
  <2>1. PICK r \in batch[w] : Settle(w, r, RetriedRow(row[r.id], w, r.attempts + 1))
    BY <1>4 DEF MarkRetry
  <2>2. RetriedRow(row[r.id], w, r.attempts + 1).status = "pending"
    BY HeldRow, WrittenRows DEF FreshInv, SnapshotFresh
  <2> QED
    BY <2>1, <2>2, SettleContract
<1>5. ASSUME NEW w \in Workers, MarkFailed(w) PROVE [Contract!Next]_Lifecycle
  <2>1. PICK r \in batch[w] : Settle(w, r, FailedRow(row[r.id], w, r.attempts + 1))
    BY <1>5 DEF MarkFailed
  <2>2. FailedRow(row[r.id], w, r.attempts + 1).status = "failed"
    BY HeldRow, WrittenRows
  <2> QED
    BY <2>1, <2>2, SettleContract
<1>6. CASE RetryFailed
  <2> DEFINE S == {m \in Messages : row[m].status = "failed"}
  <2>1. /\ \A m \in S : row'[m].status = "pending"
        /\ \A m \in Messages \ S : row'[m] = row[m]
        /\ tx' = tx
    BY <1>6, RearmedRows DEF RetryFailed, Rearmable, TypeInv, TypeOK
  <2>2. S = Contract!In("failed")
    BY LifecycleOf DEF Contract!In
  <2>3. \A m \in S : Lifecycle'[m] = "pending"
    BY <2>1, LifecycleOf
  <2>4. Contract!Move(S, "pending")
    BY <2>1, <2>3, MoveLifecycle
  <2> QED
    BY <2>2, <2>4 DEF Contract!Next, Contract!Rearm
<1>7. CASE PruneDelivered
  <2>1. tx' = tx /\ (row' = row \/ \E S \in SUBSET Messages :
            (\A m \in S : row[m].status = "delivered") /\ row' = Delete(S))
    BY <1>7, Zenon DEF PruneDelivered, OldestBatch, DeliveredBefore
  <2> QED
    BY <2>1, SameLifecycle, DeleteContract
<1>8. CASE PruneFailed
  <2>1. tx' = tx /\ (row' = row \/ \E S \in SUBSET Messages :
            (\A m \in S : row[m].status = "failed") /\ row' = Delete(S))
    BY <1>8, Zenon DEF PruneFailed, OldestBatch, FailedBefore
  <2> QED
    BY <2>1, SameLifecycle, DeleteContract
<1>9. ASSUME NEW w \in Workers,
             \/ ClaimSelect(w) \/ ClaimNothing(w) \/ DispatchRaises(w) \/ DedupeFirst(w)
             \/ DedupeDuplicate(w) \/ EffectDone(w) \/ EffectFailed(w) \/ Crash(w)
      PROVE  row' = row /\ tx' = tx
  BY <1>9 DEF ClaimSelect, ClaimNothing, DispatchRaises, DedupeFirst, DedupeDuplicate, EffectDone,
     EffectFailed, Crash, vars, dbVars
<1>10. PruneStart \/ PruneMarks \/ PruneAborts \/ Tick \/ UNCHANGED vars => row' = row /\ tx' = tx
  BY DEF PruneStart, PruneMarks, PruneAborts, Tick, vars, dbVars
<1>11. row' = row /\ tx' = tx => [Contract!Next]_Lifecycle
  BY SameLifecycle
<1> QED
  BY <1>1, <1>2, <1>3, <1>4, <1>5, <1>6, <1>7, <1>8, <1>9, <1>10, <1>11 DEF Next, Relay, Prune

LEMMA InitContract == Init => Contract!Init
BY DEF Init, Contract!Init, Lifecycle, AbsentRow, FreshRow

\* With one relay worker the documented state machine is strict: a message is
\* published by a commit, delivered or failed once, rearmed only by the
\* operator and deleted only from a terminal state, through any sequence of
\* crashes, retries and sweeps.
THEOREM OneWorkerContract == ASSUME OneWorker PROVE Spec => StrictLifecycle
<1>1. Spec => []TypeInv
  BY InitTypeInv, NextTypeInv, PTL DEF Spec
<1>2. Spec => []FreshInv
  BY <1>1, InitFresh, NextFresh, PTL DEF Spec
<1> QED
  BY <1>1, <1>2, InitContract, NextContract, PTL DEF Spec, StrictLifecycle, Contract!Spec

=============================================================================
