--------------------------- MODULE SessionsProofs ---------------------------
(***************************************************************************)
(* Proofs about Sessions for any number of tokens and requests, and any    *)
(* lifetime, retention and batch size.                                     *)
(***************************************************************************)
EXTENDS Sessions, TLAPS

\* A request that looked a token up still knows which one, and its clock
\* reading is a time.
HasToken == \A r \in Requests :
    pc[r] \in {"locked", "rotating", "reuse", "logout", "loaded"} => tok[r] \in Tokens

\* A refresh transaction owns the row it locked, so the row stays in the
\* table, and unrevoked once it was found rotatable.
OwnsRow == \A r \in Requests :
    pc[r] \in {"locked", "rotating"} =>
        /\ tok[r] \in present
        /\ lock[tok[r]] = r
        /\ pc[r] = "rotating" => revokedAt[tok[r]] = Never

\* Family names: a row that was never inserted is its own, an inserted one
\* carries the name of an inserted row that is its own.
FamilyNames ==
    /\ \A t \in Tokens \ issued : family[t] = t
    /\ \A t \in issued : family[t] \in issued /\ family[family[t]] = family[t]

\* A token that was exchanged is not live.
ExchangedIsDead == \A t \in Tokens :
    parent[t] # NoToken => parent[t] \in issued /\ ~Live(parent[t])

RowInv == TypeOK /\ HasToken /\ OwnsRow

SessionInv == RowInv /\ FamilyNames /\ ExchangedIsDead /\ OneLivePerFamily /\ ExchangedOnce

-----------------------------------------------------------------------------
(* Types and row ownership.                                                *)

TableType ==
    /\ clock \in Time
    /\ active \in BOOLEAN /\ erased \in BOOLEAN
    /\ issued \subseteq Tokens /\ present \subseteq issued
    /\ family \in [Tokens -> Tokens]
    /\ expires \in [Tokens -> 0..(MaxTime + Lifetime)]
    /\ revokedAt \in [Tokens -> Time \cup {Never}]
    /\ replacedBy \in [Tokens -> Tokens \cup {NoToken}]
    /\ parent \in [Tokens -> Tokens \cup {NoToken}]

LocalType ==
    /\ pc \in [Requests -> Steps]
    /\ op \in [Requests -> Ops]
    /\ tok \in [Requests -> Tokens \cup {NoToken}]
    /\ now \in [Requests -> Time]
    /\ want \in [Requests -> SUBSET Tokens]
    /\ dirty \in [Requests -> SUBSET Columns]

LockType == lock \in [Tokens -> Requests \cup {Nobody}]

\* TypeOK falls into the table, the local state of requests and the locks.
LEMMA TypeParts == TypeOK <=> TableType /\ LocalType /\ LockType
  BY Zenon DEF TypeOK, TableType, LocalType, LockType

\* Locals writes well-typed local state.
LEMMA LocalsTyped ==
  ASSUME LocalType, NEW r \in Requests, NEW step \in Steps, NEW o \in Ops,
         NEW t \in Tokens \cup {NoToken}, NEW n \in Time,
         NEW W \in SUBSET Tokens, NEW D \in SUBSET Columns,
         Locals(r, step, o, t, n, W, D)
  PROVE  LocalType'
  BY DEF LocalType, Locals

\* Returning to idle, with every lock released, keeps the types.
LEMMA ReturnTyped ==
  ASSUME LocalType, LockType, NEW r \in Requests, Return(r)
  PROVE  LocalType' /\ LockType'
<1>1. LocalType'
  <2>1. /\ "idle" \in Steps /\ "none" \in Ops /\ NoToken \in Tokens \cup {NoToken}
        /\ 0 \in Time /\ {} \in SUBSET Tokens /\ {} \in SUBSET Columns
    BY SessionsAssumption DEF Steps, Ops, Time
  <2>2. Locals(r, "idle", "none", NoToken, 0, {}, {})
    BY DEF Return
  <2> QED
    BY <2>1, <2>2, LocalsTyped
<1>2. LockType'
  BY DEF LockType, Return, Release
<1> QED
  BY <1>1, <1>2

\* The rows a request needs and owns are all locked by it.
LEMMA AllHeld ==
  ASSUME NEW r, Waiting(r) = {}, NEW t \in want[r], t \in present
  PROVE  lock[t] = r
  BY DEF Waiting, Needs

\* What every action does to the rows that another transaction has locked:
\* nothing, and it takes no lock away.
OthersKeep(r) ==
    /\ \A u \in Tokens : lock[u] \in Requests \ {r} => lock'[u] = lock[u]
    /\ \A u \in present : lock[u] \in Requests \ {r} =>
          u \in present' /\ revokedAt'[u] = revokedAt[u]

\* A step of one request preserves RowInv if it keeps what others locked and
\* leaves the request itself in a state that satisfies it.
LEMMA RowStep ==
  ASSUME RowInv, TableType', LockType', NEW r \in Requests,
         NEW step \in Steps, NEW o \in Ops, NEW t \in Tokens \cup {NoToken},
         NEW n \in Time, NEW W \in SUBSET Tokens, NEW D \in SUBSET Columns,
         Locals(r, step, o, t, n, W, D),
         OthersKeep(r),
         step \in {"locked", "rotating", "reuse", "logout", "loaded"} => t \in Tokens,
         step \in {"locked", "rotating"} => t \in present' /\ lock'[t] = r,
         step = "rotating" => revokedAt'[t] = Never
  PROVE  RowInv'
<1> USE TypeParts DEF RowInv
<1>1. TypeOK'
  <2>1. LocalType'
    BY LocalsTyped
  <2> QED
    BY <2>1, Zenon DEF TypeOK, TableType, LocalType, LockType
<1>2. /\ pc'[r] = step /\ tok'[r] = t
      /\ \A q \in Requests \ {r} : pc'[q] = pc[q] /\ tok'[q] = tok[q]
  BY DEF LocalType, Locals
<1>3. HasToken'
  BY <1>2 DEF HasToken
<1>4. OwnsRow'
  <2> SUFFICES ASSUME NEW q \in Requests, pc'[q] \in {"locked", "rotating"}
               PROVE  /\ tok'[q] \in present' /\ lock'[tok'[q]] = q
                      /\ pc'[q] = "rotating" => revokedAt'[tok'[q]] = Never
    BY DEF OwnsRow
  <2>1. CASE q = r
    BY <2>1, <1>2
  <2>2. CASE q # r
    <3>1. /\ tok[q] \in present /\ lock[tok[q]] = q /\ tok[q] \in Tokens
          /\ pc[q] = "rotating" => revokedAt[tok[q]] = Never
      BY <2>2, <1>2 DEF OwnsRow, HasToken
    <3> QED
      BY <2>2, <3>1, <1>2 DEF OthersKeep
  <2> QED
    BY <2>1, <2>2
<1> QED
  BY <1>1, <1>3, <1>4

\* The same for a step that ends the request.
LEMMA RowReturn ==
  ASSUME RowInv, TableType', NEW r \in Requests, Return(r),
         \A u \in present : lock[u] \in Requests \ {r} =>
             u \in present' /\ revokedAt'[u] = revokedAt[u]
  PROVE  RowInv'
<1>1. LocalType /\ LockType
  BY TypeParts DEF RowInv
<1>2. LockType'
  BY <1>1, ReturnTyped
<1>3. OthersKeep(r)
  BY DEF OthersKeep, Return, Release
<1>4. /\ "idle" \in Steps /\ "none" \in Ops /\ NoToken \in Tokens \cup {NoToken}
      /\ 0 \in Time /\ {} \in SUBSET Tokens /\ {} \in SUBSET Columns
  BY SessionsAssumption DEF Steps, Ops, Time
<1>5. Locals(r, "idle", "none", NoToken, 0, {}, {})
  BY DEF Return
<1> QED
  BY <1>2, <1>3, <1>4, <1>5, RowStep

-----------------------------------------------------------------------------
(* The actions.  All but the two that insert a row leave every token that  *)
(* was not live not live.                                                  *)

Shrink ==
    /\ issued' = issued /\ family' = family /\ parent' = parent
    /\ \A t \in Tokens : t \in present' /\ revokedAt'[t] = Never => Live(t)

\* Steps that end a request and write no row.
LEMMA QuietReturn ==
  ASSUME RowInv, NEW r \in Requests, Return(r),
         clock' = clock, active' \in BOOLEAN, erased' = erased,
         UNCHANGED <<tableVars, parent>>
  PROVE  RowInv' /\ Shrink
<1>1. TableType'
  BY TypeParts DEF RowInv, TableType, tableVars
<1>2. RowInv'
  BY <1>1, RowReturn DEF tableVars
<1>3. Shrink
  BY DEF Shrink, tableVars, Live
<1> QED
  BY <1>2, <1>3

\* Steps that only move a request on.
LEMMA QuietMove ==
  ASSUME RowInv, NEW r \in Requests,
         NEW step \in Steps, NEW o \in Ops, NEW t \in Tokens \cup {NoToken},
         NEW n \in Time, NEW W \in SUBSET Tokens, NEW D \in SUBSET Columns,
         Locals(r, step, o, t, n, W, D),
         UNCHANGED <<clock, userVars, tableVars, lock, parent>>,
         step \in {"locked", "rotating", "reuse", "logout", "loaded"} => t \in Tokens,
         step \in {"locked", "rotating"} => t \in present /\ lock[t] = r,
         step = "rotating" => revokedAt[t] = Never
  PROVE  RowInv' /\ Shrink
<1>1. TableType' /\ LockType'
  BY TypeParts DEF RowInv, TableType, LockType, tableVars, userVars
<1>2. OthersKeep(r)
  BY DEF OthersKeep, tableVars
<1>3. /\ step \in {"locked", "rotating"} => t \in present' /\ lock'[t] = r
      /\ step = "rotating" => revokedAt'[t] = Never
  BY DEF tableVars
<1>4. RowInv'
  BY <1>1, <1>2, <1>3, RowStep
<1>5. Shrink
  BY DEF Shrink, tableVars, Live
<1> QED
  BY <1>4, <1>5

\* Steps at whose end nothing was written.
LEMMA NoWrite ==
  ASSUME RowInv, NEW r \in Requests,
         \/ Abort(r) \/ DeadlockVictim(r) \/ RefreshRefused(r) \/ LogoutGone(r)
         \/ RevokeAllGone(r) \/ PurgeDone(r) \/ Deactivate(r)
  PROVE  RowInv' /\ Shrink
<1>1. /\ Return(r) /\ clock' = clock /\ active' \in BOOLEAN /\ erased' = erased
      /\ UNCHANGED <<tableVars, parent>>
  BY TypeParts, Zenon DEF RowInv, TableType, Abort, DeadlockVictim, RefreshRefused, LogoutGone,
                   RevokeAllGone, PurgeDone, Deactivate, userVars, tableVars
<1> QED
  BY <1>1, QuietReturn

\* Reads that start a request.
LEMMA Arrivals ==
  ASSUME RowInv, NEW r \in Requests,
         \/ LoginCheck(r) \/ EraseSelect(r) \/ PurgeStart(r)
         \/ \E t \in Tokens : LogoutRead(r, t)
         \/ \E o \in {"logout_all", "deactivate"} : RevokeAllSelect(r, o)
  PROVE  RowInv' /\ Shrink
<1> DEFINE quiet == UNCHANGED <<clock, userVars, tableVars, lock, parent>>
<1>0. /\ 0 \in Time /\ clock \in Time /\ {} \in SUBSET Columns /\ {} \in SUBSET Tokens
      /\ NoToken \in Tokens \cup {NoToken} /\ present \in SUBSET Tokens
      /\ UnrevokedRows \in SUBSET Tokens /\ ErasedRows \in SUBSET Tokens
  BY SessionsAssumption, TypeParts DEF Time, RowInv, TableType, UnrevokedRows, ErasedRows
<1>1. CASE LoginCheck(r)
  <2>1. Locals(r, "login", "none", NoToken, 0, {}, {}) /\ quiet
    BY <1>1 DEF LoginCheck
  <2> QED
    BY <2>1, <1>0, QuietMove, Zenon DEF Steps, Ops
<1>2. CASE EraseSelect(r)
  <2>1. Locals(r, "erasing", "none", NoToken, 0, ErasedRows, {}) /\ quiet
    BY <1>2 DEF EraseSelect
  <2> QED
    BY <2>1, <1>0, QuietMove DEF Steps, Ops
<1>3. CASE PurgeStart(r)
  <2>1. Locals(r, "purging", "none", NoToken, clock, {}, {}) /\ quiet
    BY <1>3 DEF PurgeStart
  <2> QED
    BY <2>1, <1>0, QuietMove, Zenon DEF Steps, Ops
<1>4. ASSUME NEW t \in Tokens, LogoutRead(r, t) PROVE RowInv' /\ Shrink
  <2>1. Locals(r, "logout", "none", t, 0, {}, {}) /\ quiet
    BY <1>4 DEF LogoutRead
  <2> QED
    BY <2>1, <1>0, QuietMove DEF Steps, Ops
<1>5. ASSUME NEW o \in {"logout_all", "deactivate"}, RevokeAllSelect(r, o)
      PROVE  RowInv' /\ Shrink
  <2>1. Locals(r, "revoking", o, NoToken, clock, UnrevokedRows, {}) /\ quiet
    BY <1>5 DEF RevokeAllSelect
  <2> QED
    BY <2>1, <1>0, QuietMove DEF Steps, Ops
<1> QED
  BY <1>1, <1>2, <1>3, <1>4, <1>5

\* Reads in the middle of a request.
LEMMA Reads ==
  ASSUME RowInv, NEW r \in Requests,
         ReuseSelect(r) \/ RefreshReadUser(r) \/ LogoutLoad(r) \/ PurgeSelect(r)
  PROVE  RowInv' /\ Shrink
<1> DEFINE quiet == UNCHANGED <<clock, userVars, tableVars, lock, parent>>
<1>0. /\ clock \in Time /\ now[r] \in Time /\ {} \in SUBSET Columns /\ {} \in SUBSET Tokens
      /\ NoToken \in Tokens \cup {NoToken} /\ present \in SUBSET Tokens
  BY SessionsAssumption, TypeParts DEF RowInv, TableType, LocalType
<1>t. pc[r] \in {"locked", "logout"} => tok[r] \in Tokens
  BY DEF RowInv, HasToken
<1>1. CASE ReuseSelect(r)
  <2>1. /\ Locals(r, "reuse", "none", tok[r], now[r], FamilyRows(family[tok[r]]), {})
        /\ pc[r] = "locked" /\ quiet
    BY <1>1 DEF ReuseSelect
  <2>2. FamilyRows(family[tok[r]]) \in SUBSET Tokens
    BY <1>0 DEF FamilyRows
  <2> QED
    BY <2>1, <2>2, <1>0, <1>t, QuietMove DEF Steps, Ops
<1>2. CASE RefreshReadUser(r)
  <2>1. /\ Locals(r, "rotating", "none", tok[r], now[r], {}, {}) /\ quiet
        /\ pc[r] = "locked" /\ revokedAt[tok[r]] = Never
    BY <1>2 DEF RefreshReadUser, Rotatable
  <2>2. tok[r] \in present /\ lock[tok[r]] = r
    BY <2>1 DEF RowInv, OwnsRow
  <2> QED
    BY <2>1, <2>2, <1>0, <1>t, QuietMove DEF Steps, Ops
<1>3. CASE LogoutLoad(r)
  <2>1. /\ Locals(r, "loaded", "none", tok[r], clock, {}, Dirtied(tok[r])) /\ quiet
        /\ pc[r] = "logout"
    BY <1>3 DEF LogoutLoad
  <2>2. Dirtied(tok[r]) \in SUBSET Columns
    BY DEF Dirtied
  <2> QED
    BY <2>1, <2>2, <1>0, <1>t, QuietMove DEF Steps, Ops
<1>4. CASE PurgeSelect(r)
  <2>1. PICK S \in SUBSET Purgeable(now[r]) :
            Locals(r, "deleting", "none", NoToken, now[r], S, {})
    BY <1>4 DEF PurgeSelect
  <2>2. S \in SUBSET Tokens
    BY <1>0 DEF Purgeable
  <2>3. quiet
    BY <1>4 DEF PurgeSelect
  <2> QED
    BY <2>1, <2>2, <2>3, <1>0, QuietMove DEF Steps, Ops
<1> QED
  BY <1>1, <1>2, <1>3, <1>4

\* FOR UPDATE on the presented token.
LEMMA Lock ==
  ASSUME RowInv, NEW r \in Requests, NEW t \in Tokens, RefreshLock(r, t)
  PROVE  RowInv' /\ Shrink
<1>1. TableType'
  BY TypeParts DEF RowInv, TableType, RefreshLock, tableVars, userVars
<1>2. LockType' /\ lock'[t] = r
  BY TypeParts DEF RowInv, LockType, RefreshLock
<1>3. OthersKeep(r)
  <2>1. /\ lock[t] = Nobody /\ lock' = [lock EXCEPT ![t] = r]
        /\ present' = present /\ revokedAt' = revokedAt
    BY DEF RefreshLock, tableVars
  <2>2. lock \in [Tokens -> Requests \cup {Nobody}]
    BY TypeParts DEF RowInv, LockType
  <2> QED
    BY <2>1, <2>2, SessionsAssumption DEF OthersKeep
<1>4. Locals(r, "locked", "none", t, clock, {}, {}) /\ t \in present'
  BY DEF RefreshLock, tableVars
<1>5. clock \in Time
  BY TypeParts DEF RowInv, TableType
<1>6. RowInv'
  BY <1>1, <1>2, <1>3, <1>4, <1>5, RowStep DEF Steps, Ops
<1>7. Shrink
  BY DEF Shrink, RefreshLock, tableVars, Live
<1> QED
  BY <1>6, <1>7

\* A lock granted to a statement that waits for it.
LEMMA LockGranted ==
  ASSUME RowInv, NEW r \in Requests, Acquire(r)
  PROVE  RowInv' /\ Shrink
<1>1. PICK t \in Waiting(r) : lock[t] = Nobody /\ lock' = [lock EXCEPT ![t] = r]
  BY Zenon DEF Acquire
<1>2. /\ UNCHANGED <<clock, userVars, tableVars, parent>> /\ UNCHANGED requestVars
      /\ pc[r] \in {"reuse", "revoking", "erasing", "deleting"}
  BY DEF Acquire
<1>3. LocalType' /\ TableType' /\ LockType'
  BY <1>1, <1>2, TypeParts, Zenon DEF RowInv, LocalType, TableType, LockType, requestVars,
     userVars, tableVars
<1>4. TypeOK'
  BY <1>3, Zenon DEF TypeOK, TableType, LocalType, LockType
<1>5. HasToken'
  BY <1>2 DEF RowInv, HasToken, requestVars
<1>6. OwnsRow'
  <2> SUFFICES ASSUME NEW q \in Requests, pc[q] \in {"locked", "rotating"}
               PROVE  /\ tok[q] \in present /\ lock'[tok[q]] = q
                      /\ pc[q] = "rotating" => revokedAt[tok[q]] = Never
    BY <1>2 DEF OwnsRow, requestVars, tableVars
  <2>1. /\ tok[q] \in present /\ lock[tok[q]] = q /\ tok[q] \in Tokens
        /\ pc[q] = "rotating" => revokedAt[tok[q]] = Never
    BY DEF RowInv, OwnsRow, HasToken
  <2> QED
    BY <2>1, <1>1, TypeParts, SessionsAssumption DEF RowInv, LockType
<1>7. Shrink
  BY <1>2 DEF Shrink, tableVars, Live
<1> QED
  BY <1>4, <1>5, <1>6, <1>7 DEF RowInv

\* Revocations: they stamp only rows that their own transaction has locked,
\* or, for a logout, that nobody has.
LEMMA Revocations ==
  ASSUME RowInv, NEW r \in Requests,
         ReuseCommit(r) \/ RefreshExpired(r) \/ LogoutCommit(r)
  PROVE  RowInv' /\ Shrink
<1> USE TypeParts, SessionsAssumption
<1>0. /\ clock \in Time /\ now[r] \in Time /\ lock \in [Tokens -> Requests \cup {Nobody}]
      /\ present \subseteq Tokens /\ revokedAt \in [Tokens -> Time \cup {Never}]
      /\ TableType /\ Never \notin Time
  BY DEF RowInv, TableType, LocalType, LockType, Time, Never
<1>1. CASE ReuseCommit(r)
  <2>1. /\ Return(r) /\ Waiting(r) = {}
        /\ revokedAt' = [t \in Tokens |->
              IF t \in Needs(r) /\ revokedAt[t] = Never THEN clock ELSE revokedAt[t]]
        /\ UNCHANGED <<clock, userVars, issued, present, family, expires, replacedBy, parent>>
    BY <1>1 DEF ReuseCommit
  <2>2. TableType'
    BY <2>1, <1>0 DEF TableType, userVars
  <2>3. \A u \in present : lock[u] \in Requests \ {r} =>
            u \in present' /\ revokedAt'[u] = revokedAt[u]
    BY <2>1, <1>0 DEF Waiting
  <2>4. Shrink
    BY <2>1, <1>0 DEF Shrink, Live
  <2> QED
    BY <2>1, <2>2, <2>3, <2>4, RowReturn
<1>2. CASE RefreshExpired(r)
  <2>1. /\ Return(r) /\ pc[r] = "locked"
        /\ revokedAt' = [revokedAt EXCEPT ![tok[r]] = clock]
        /\ replacedBy' = [replacedBy EXCEPT ![tok[r]] = NoToken]
        /\ UNCHANGED <<clock, userVars, issued, present, family, expires, parent>>
    BY <1>2 DEF RefreshExpired
  <2>2. tok[r] \in Tokens /\ lock[tok[r]] = r
    BY <2>1 DEF RowInv, OwnsRow, HasToken
  <2>3. TableType'
    BY <2>1, <2>2, <1>0 DEF TableType, userVars
  <2>4. \A u \in present : lock[u] \in Requests \ {r} =>
            u \in present' /\ revokedAt'[u] = revokedAt[u]
    BY <2>1, <2>2, <1>0
  <2>5. Shrink
    BY <2>1, <2>2, <1>0 DEF Shrink, Live
  <2> QED
    BY <2>1, <2>3, <2>4, <2>5, RowReturn
<1>3. CASE LogoutCommit(r)
  <2>1. /\ Return(r) /\ pc[r] = "loaded"
        /\ dirty[r] = {} \/ lock[tok[r]] = Nobody
        /\ revokedAt' = [revokedAt EXCEPT ![tok[r]] =
                            IF "revoked_at" \in dirty[r] THEN now[r] ELSE @]
        /\ replacedBy' = [replacedBy EXCEPT ![tok[r]] =
                            IF "replaced_by_token_id" \in dirty[r] THEN NoToken ELSE @]
        /\ UNCHANGED <<clock, userVars, issued, present, family, expires, parent>>
    BY <1>3 DEF LogoutCommit
  <2>2. tok[r] \in Tokens
    BY <2>1 DEF RowInv, HasToken
  <2>3. TableType'
    BY <2>1, <2>2, <1>0 DEF TableType, userVars
  <2>4. \A u \in present : lock[u] \in Requests \ {r} =>
            u \in present' /\ revokedAt'[u] = revokedAt[u]
    BY <2>1, <2>2, <1>0
  <2>5. Shrink
    BY <2>1, <2>2, <1>0 DEF Shrink, Live
  <2> QED
    BY <2>1, <2>3, <2>4, <2>5, RowReturn
<1> QED
  BY <1>1, <1>2, <1>3

\* The commit of revoke_user_refresh_tokens, which for a deactivation is not
\* the end of the request.
LEMMA SweepCommits ==
  ASSUME RowInv, NEW r \in Requests, LogoutAllCommit(r) \/ DeactivateRevoked(r)
  PROVE  RowInv' /\ Shrink
<1> USE TypeParts, SessionsAssumption
<1>0. /\ 0 \in Time /\ now[r] \in Time /\ lock \in [Tokens -> Requests \cup {Nobody}]
      /\ present \subseteq Tokens /\ revokedAt \in [Tokens -> Time \cup {Never}]
      /\ TableType /\ Never \notin Time
  BY DEF RowInv, TableType, LocalType, LockType, Time, Never
<1>1. /\ Waiting(r) = {} /\ Release(r)
      /\ revokedAt' = [t \in Tokens |-> IF t \in Stamped(r) THEN now[r] ELSE revokedAt[t]]
      /\ UNCHANGED <<clock, userVars, issued, present, family, expires, replacedBy, parent>>
  BY DEF LogoutAllCommit, DeactivateRevoked, RevokeAllWrites
<1>2. TableType' /\ LockType'
  BY <1>0, <1>1 DEF TableType, userVars, LockType, Release
<1>3. OthersKeep(r)
  BY <1>0, <1>1 DEF OthersKeep, Release, Stamped, Waiting
<1>4. Shrink
  BY <1>0, <1>1 DEF Shrink, Live
<1>5. \E s \in {"idle", "deactivating"}, o \in {"none", "deactivate"} :
          Locals(r, s, o, NoToken, 0, {}, {})
  BY DEF LogoutAllCommit, DeactivateRevoked
<1> QED
  BY <1>0, <1>2, <1>3, <1>4, <1>5, RowStep DEF Steps, Ops

\* Deletions remove only rows their own transaction has locked.
LEMMA Deletions ==
  ASSUME RowInv, NEW r \in Requests, EraseCommit(r) \/ PurgeCommit(r)
  PROVE  RowInv' /\ Shrink
<1> USE TypeParts, SessionsAssumption
<1>0. /\ 0 \in Time /\ now[r] \in Time /\ lock \in [Tokens -> Requests \cup {Nobody}]
      /\ TableType /\ want[r] \subseteq Tokens /\ 0 \in 0..(MaxTime + Lifetime)
  BY DEF RowInv, TableType, LocalType, LockType, Time
<1>1. /\ Waiting(r) = {} /\ DeleteRows(want[r]) /\ Release(r)
      /\ clock' = clock /\ active' \in BOOLEAN /\ erased' \in BOOLEAN
      /\ UNCHANGED <<issued, family, parent>>
  BY <1>0, Zenon DEF EraseCommit, PurgeCommit, Return, userVars, TableType
<1>2. TableType' /\ LockType'
  BY <1>0, <1>1 DEF TableType, LockType, Release, DeleteRows, Unlinked
<1>3. OthersKeep(r)
  <2>1. \A u \in present : u \in want[r] => lock[u] = r
    BY <1>1, AllHeld
  <2>2. \A u \in present : u \notin want[r] => u \in present' /\ revokedAt'[u] = revokedAt[u]
    BY <1>0, <1>1 DEF DeleteRows, TableType
  <2> QED
    BY <1>1, <2>1, <2>2 DEF OthersKeep, Release
<1>4. Shrink
  BY <1>0, <1>1 DEF Shrink, Live, DeleteRows, TableType
<1>5. \E s \in {"idle", "purging"}, n \in Time : Locals(r, s, "none", NoToken, n, {}, {})
  BY <1>0 DEF EraseCommit, PurgeCommit, Return
<1> QED
  BY <1>2, <1>3, <1>4, <1>5, RowStep DEF Steps, Ops

-----------------------------------------------------------------------------
(* The two inserts.                                                        *)

\* An insert adds one live row with a fresh id; of the old rows it leaves
\* live only those that were.
Inserts(t, f) ==
    /\ t \in Tokens \ issued
    /\ issued' = issued \cup {t}
    /\ family' = [family EXCEPT ![t] = f]
    /\ t \in present' /\ revokedAt'[t] = Never
    /\ \A u \in Tokens \ {t} : u \in present' /\ revokedAt'[u] = Never => Live(u)

\* A login inserts the first row of a new family.
LEMMA LoginInserts ==
  ASSUME RowInv, NEW r \in Requests, LoginInsert(r)
  PROVE  /\ RowInv' /\ parent' = parent
         /\ \E t \in Tokens : Inserts(t, t) /\ \A u \in Tokens \ {t} : Live(u) =>
                                  u \in present' /\ revokedAt'[u] = Never
<1> USE TypeParts, SessionsAssumption
<1>0. /\ TableType /\ lock \in [Tokens -> Requests \cup {Nobody}]
      /\ Expiry(clock) \in 0..(MaxTime + Lifetime)
  BY DEF RowInv, TableType, LockType, Time, Expiry
<1>1. PICK t \in Tokens : InsertRow(t, t, clock, revokedAt)
  BY DEF LoginInsert
<1>2. Return(r) /\ UNCHANGED <<clock, userVars, replacedBy, parent>>
  BY DEF LoginInsert
<1>3. TableType'
  BY <1>0, <1>1, <1>2 DEF TableType, InsertRow, userVars
<1>4. \A u \in Tokens \ {t} : (u \in present <=> u \in present') /\ revokedAt'[u] = revokedAt[u]
  BY <1>0, <1>1 DEF TableType, InsertRow
<1>5. t \notin present /\ t \in Tokens \ issued /\ present \subseteq Tokens
  BY <1>0, <1>1 DEF TableType, InsertRow
<1>6. RowInv'
  BY <1>2, <1>3, <1>4, <1>5, RowReturn
<1>7. Inserts(t, t)
  BY <1>0, <1>1, <1>4 DEF Inserts, InsertRow, TableType, Live
<1> QED
  BY <1>2, <1>4, <1>6, <1>7 DEF Live

\* A rotation exchanges a live row, whose lock it holds, for a row of the
\* same family.
LEMMA RotationInserts ==
  ASSUME RowInv, NEW r \in Requests, RotateCommit(r)
  PROVE  /\ RowInv' /\ tok[r] \in issued /\ Live(tok[r])
         /\ ~(tok[r] \in present' /\ revokedAt'[tok[r]] = Never)
         /\ \E t \in Tokens :
               /\ Inserts(t, family[tok[r]])
               /\ parent' = [parent EXCEPT ![t] = tok[r]]
               /\ \A u \in Tokens \ {t, tok[r]} : Live(u) => u \in present' /\ revokedAt'[u] = Never
<1> USE TypeParts, SessionsAssumption
<1>0. /\ TableType /\ lock \in [Tokens -> Requests \cup {Nobody}] /\ Never \notin Time
      /\ now[r] \in Time /\ Expiry(now[r]) \in 0..(MaxTime + Lifetime)
  BY DEF RowInv, TableType, LockType, LocalType, Time, Expiry, Never
<1>1. PICK t \in Tokens :
          /\ InsertRow(t, family[tok[r]], now[r], Exchanged(tok[r]))
          /\ replacedBy' = [replacedBy EXCEPT ![tok[r]] = t]
          /\ parent' = [parent EXCEPT ![t] = tok[r]]
  BY Zenon DEF RotateCommit
<1>2. Return(r) /\ UNCHANGED <<clock, userVars>> /\ pc[r] = "rotating"
  BY DEF RotateCommit
<1>3. /\ tok[r] \in Tokens /\ tok[r] \in present /\ lock[tok[r]] = r
      /\ revokedAt[tok[r]] = Never
  BY <1>2 DEF RowInv, OwnsRow, HasToken
<1>4. t \notin present /\ t \in Tokens \ issued /\ present \subseteq Tokens /\ t # tok[r]
  BY <1>0, <1>1, <1>3 DEF TableType, InsertRow
<1>5. TableType'
  BY <1>0, <1>1, <1>2, <1>3 DEF TableType, InsertRow, Exchanged, userVars
<1>6. /\ \A u \in Tokens \ {t, tok[r]} :
             (u \in present <=> u \in present') /\ revokedAt'[u] = revokedAt[u]
      /\ revokedAt'[tok[r]] = clock /\ revokedAt'[t] = Never
      /\ tok[r] \in present' /\ t \in present'
  BY <1>0, <1>1, <1>3, <1>4 DEF TableType, InsertRow, Exchanged
<1>7. RowInv'
  BY <1>2, <1>3, <1>4, <1>5, <1>6, RowReturn
<1>8. clock \in Time /\ tok[r] \in issued
  BY <1>0, <1>3 DEF TableType
<1>9. Inserts(t, family[tok[r]])
  BY <1>0, <1>1, <1>3, <1>4, <1>6, <1>8 DEF Inserts, InsertRow, Live
<1> QED
  BY <1>0, <1>1, <1>3, <1>6, <1>7, <1>8, <1>9, Zenon DEF Live

-----------------------------------------------------------------------------
(* The invariant.                                                          *)

\* Every step keeps RowInv, and is an insert or makes no token live.
LEMMA RowNext ==
  ASSUME RowInv, [Next]_vars
  PROVE  RowInv' /\ (Shrink \/ \E r \in Requests : LoginInsert(r) \/ RotateCommit(r))
<1>1. CASE Tick
  <2>1. /\ clock' \in Time
        /\ UNCHANGED <<userVars, tableVars, lock, requestVars, parent>>
    BY <1>1, TypeParts, SessionsAssumption DEF Tick, RowInv, TableType, Time
  <2>2. TypeOK'
    BY <2>1 DEF RowInv, TypeOK, userVars, tableVars, requestVars
  <2>3. HasToken' /\ OwnsRow'
    BY <2>1 DEF RowInv, HasToken, OwnsRow, tableVars, requestVars
  <2>4. Shrink
    BY <2>1 DEF Shrink, tableVars, Live
  <2> QED
    BY <2>2, <2>3, <2>4 DEF RowInv
<1>2. ASSUME NEW r \in Requests, Arrive(r) PROVE RowInv' /\ Shrink
  <2>1. CASE \E t \in Tokens : RefreshLock(r, t)
    BY <2>1, Lock
  <2>2. CASE ~\E t \in Tokens : RefreshLock(r, t)
    <3>1. \/ LoginCheck(r) \/ EraseSelect(r) \/ PurgeStart(r)
          \/ \E t \in Tokens : LogoutRead(r, t)
          \/ \E o \in {"logout_all", "deactivate"} : RevokeAllSelect(r, o)
      BY <1>2, <2>2, Zenon DEF Arrive
    <3> QED
      BY <3>1, Arrivals
  <2> QED
    BY <2>1, <2>2
<1>3. ASSUME NEW r \in Requests, Progress(r)
      PROVE  RowInv' /\ (Shrink \/ LoginInsert(r) \/ RotateCommit(r))
  <2>1. CASE Acquire(r)
    BY <2>1, LockGranted
  <2>2. CASE LoginInsert(r)
    BY <2>2, LoginInserts
  <2>3. CASE RotateCommit(r)
    BY <2>3, RotationInserts
  <2>4. CASE ReuseSelect(r) \/ RefreshReadUser(r) \/ LogoutLoad(r) \/ PurgeSelect(r)
    BY <2>4, Reads
  <2>5. CASE \/ RefreshRefused(r) \/ LogoutGone(r) \/ RevokeAllGone(r)
              \/ PurgeDone(r) \/ Deactivate(r)
    BY <2>5, NoWrite
  <2>6. CASE ReuseCommit(r) \/ RefreshExpired(r) \/ LogoutCommit(r)
    BY <2>6, Revocations
  <2>7. CASE LogoutAllCommit(r) \/ DeactivateRevoked(r)
    BY <2>7, SweepCommits
  <2>8. CASE EraseCommit(r) \/ PurgeCommit(r)
    BY <2>8, Deletions
  <2> QED
    BY <1>3, <2>1, <2>2, <2>3, <2>4, <2>5, <2>6, <2>7, <2>8, Zenon DEF Progress
<1>4. ASSUME NEW r \in Requests, Abort(r) \/ DeadlockVictim(r) PROVE RowInv' /\ Shrink
  BY <1>4, NoWrite
<1>5. CASE UNCHANGED vars
  <2>1. UNCHANGED <<clock, userVars, tableVars, lock, requestVars, parent>>
    BY <1>5 DEF vars
  <2>2. TypeOK'
    BY <2>1 DEF RowInv, TypeOK, userVars, tableVars, requestVars
  <2>3. HasToken' /\ OwnsRow'
    BY <2>1 DEF RowInv, HasToken, OwnsRow, tableVars, requestVars
  <2>4. Shrink
    BY <2>1 DEF Shrink, tableVars, Live
  <2> QED
    BY <2>2, <2>3, <2>4 DEF RowInv
<1> QED
  BY <1>1, <1>2, <1>3, <1>4, <1>5, Zenon DEF Next

\* The initial state satisfies the invariant.
LEMMA InitSession == Init => SessionInv
<1> SUFFICES ASSUME Init PROVE SessionInv
  OBVIOUS
<1>1. 0 \in Time /\ 0 \in 0..(MaxTime + Lifetime)
  BY SessionsAssumption DEF Time
<1>2. TypeOK
  BY <1>1, Zenon DEF Init, TypeOK, Steps, Ops
<1>3. HasToken /\ OwnsRow
  BY DEF Init, HasToken, OwnsRow
<1>4. FamilyNames /\ ExchangedIsDead /\ OneLivePerFamily /\ ExchangedOnce
  BY DEF Init, FamilyNames, ExchangedIsDead, OneLivePerFamily, ExchangedOnce, Live
<1> QED
  BY <1>2, <1>3, <1>4 DEF SessionInv, RowInv

\* The invariant is inductive.
LEMMA SessionStep == SessionInv /\ [Next]_vars => SessionInv'
<1> SUFFICES ASSUME SessionInv, [Next]_vars PROVE SessionInv'
  OBVIOUS
<1>0. /\ RowInv /\ RowInv' /\ issued \subseteq Tokens /\ present \subseteq issued
      /\ family \in [Tokens -> Tokens] /\ parent \in [Tokens -> Tokens \cup {NoToken}]
      /\ NoToken \notin Tokens
  BY RowNext, SessionsAssumption DEF SessionInv, RowInv, TypeOK
<1> USE DEF SessionInv
<1>1. CASE Shrink
  <2>1. FamilyNames'
    BY <1>1 DEF FamilyNames, Shrink
  <2>2. ExchangedIsDead'
    BY <1>0, <1>1 DEF ExchangedIsDead, Shrink, Live
  <2>3. OneLivePerFamily'
    BY <1>1 DEF OneLivePerFamily, Shrink, Live
  <2>4. ExchangedOnce'
    BY <1>1 DEF ExchangedOnce, Shrink
  <2> QED
    BY <1>0, <2>1, <2>2, <2>3, <2>4
<1>2. ASSUME NEW r \in Requests, LoginInsert(r) PROVE SessionInv'
  <2>1. PICK t \in Tokens : Inserts(t, t) /\ parent' = parent
    BY <1>0, <1>2, LoginInserts
  <2>2. family' = family
    BY <1>0, <2>1 DEF FamilyNames, Inserts
  <2>3. FamilyNames'
    BY <1>0, <2>1, <2>2 DEF FamilyNames, Inserts
  <2>4. ExchangedIsDead'
    BY <1>0, <2>1 DEF ExchangedIsDead, Inserts, Live
  <2>5. OneLivePerFamily'
    BY <1>0, <2>1, <2>2 DEF OneLivePerFamily, FamilyNames, Inserts, Live
  <2>6. ExchangedOnce'
    BY <2>1 DEF ExchangedOnce
  <2> QED
    BY <1>0, <2>3, <2>4, <2>5, <2>6
<1>3. ASSUME NEW r \in Requests, RotateCommit(r) PROVE SessionInv'
  <2> DEFINE old == tok[r]
  <2>1. /\ old \in issued /\ Live(old) /\ ~(old \in present' /\ revokedAt'[old] = Never)
    BY <1>0, <1>3, RotationInserts
  <2>2. PICK t \in Tokens : Inserts(t, family[old]) /\ parent' = [parent EXCEPT ![t] = old]
    BY <1>0, <1>3, RotationInserts
  <2> HIDE DEF old
  <2>3. /\ t \notin issued /\ t # old /\ family'[t] = family[old] /\ parent'[t] = old
        /\ \A u \in Tokens \ {t} : family'[u] = family[u] /\ parent'[u] = parent[u]
        /\ issued' = issued \cup {t}
    BY <1>0, <2>1, <2>2 DEF Inserts
  <2>4. FamilyNames'
    BY <1>0, <2>1, <2>3 DEF FamilyNames
  <2>5. \A u \in Tokens \ {t, old} : u \in present' /\ revokedAt'[u] = Never => Live(u)
    BY <2>2 DEF Inserts
  <2>6. \A u \in Tokens : parent[u] # old
    BY <1>0, <2>1 DEF ExchangedIsDead
  <2>7. ExchangedIsDead'
    BY <1>0, <2>1, <2>3, <2>5 DEF ExchangedIsDead, Live
  <2>8. OneLivePerFamily'
    BY <1>0, <2>1, <2>3, <2>5 DEF OneLivePerFamily, Live
  <2>9. ExchangedOnce'
    BY <1>0, <2>3, <2>6 DEF ExchangedOnce
  <2> QED
    BY <1>0, <2>4, <2>7, <2>8, <2>9
<1> QED
  BY <1>0, <1>1, <1>2, <1>3, RowNext

\* The strengthened invariant holds in every reachable state.
LEMMA SessionAlways == Spec => []SessionInv
  BY InitSession, SessionStep, PTL DEF Spec

\* Type correctness of the token table, the locks and the local state of
\* every request.
THEOREM SessionsTypeCorrect == Spec => []TypeOK
<1>1. SessionInv => TypeOK
  BY DEF SessionInv, RowInv
<1> QED
  BY <1>1, SessionAlways, PTL

\* For any number of concurrent requests, a login session has at most one
\* unrevoked refresh token.
THEOREM SingleLiveToken == Spec => []OneLivePerFamily
<1>1. SessionInv => OneLivePerFamily
  BY DEF SessionInv
<1> QED
  BY <1>1, SessionAlways, PTL

\* For any number of concurrent requests, no refresh token is exchanged for
\* two replacements.
THEOREM SingleExchange == Spec => []ExchangedOnce
<1>1. SessionInv => ExchangedOnce
  BY DEF SessionInv
<1> QED
  BY <1>1, SessionAlways, PTL

-----------------------------------------------------------------------------
(* The table implements SessionContract.                                   *)

\* The status of a family, and of the token that names it.
LEMMA StatusOf ==
  ASSUME NEW f \in Tokens
  PROVE  /\ SessionStatus[f] = "unopened" <=> f \notin issued \/ family[f] # f
         /\ SessionStatus[f] = "live" <=> /\ f \in issued /\ family[f] = f
                                          /\ \E t \in Tokens : Live(t) /\ family[t] = f
         /\ SessionStatus[f] \in {"unopened", "live", "ended"}
  BY DEF SessionStatus

\* The same of the state after the step.
LEMMA StatusOfNext ==
  ASSUME NEW f \in Tokens
  PROVE  /\ SessionStatus'[f] = "unopened" <=> f \notin issued' \/ family'[f] # f
         /\ SessionStatus'[f] = "live" <=>
               /\ f \in issued' /\ family'[f] = f
               /\ \E t \in Tokens : t \in present' /\ revokedAt'[t] = Never /\ family'[t] = f
         /\ SessionStatus'[f] \in {"unopened", "live", "ended"}
  BY DEF SessionStatus, Live

\* Every step of the table ends sessions, opens one, or changes none.
LEMMA ContractStep ==
  ASSUME SessionInv, SessionInv', [Next]_vars
  PROVE  [Contract!Next]_SessionStatus
<1> USE DEF SessionInv
<1>0. /\ RowInv /\ issued \subseteq Tokens /\ present \subseteq issued
      /\ family \in [Tokens -> Tokens]
  BY DEF RowInv, TypeOK
<1>1. CASE Shrink
  <2> DEFINE S == {f \in Tokens : SessionStatus[f] = "live" /\ SessionStatus'[f] # "live"}
  <2>1. ASSUME NEW f \in Tokens
        PROVE  SessionStatus'[f] = IF f \in S THEN "ended" ELSE SessionStatus[f]
    <3>1. SessionStatus'[f] = "unopened" <=> SessionStatus[f] = "unopened"
      BY <1>1, StatusOf, StatusOfNext DEF Shrink
    <3>2. SessionStatus'[f] = "live" => SessionStatus[f] = "live"
      BY <1>1, StatusOf, StatusOfNext DEF Shrink, Live
    <3> QED
      BY <3>1, <3>2, StatusOf, StatusOfNext
  <2>2. SessionStatus' = [f \in Tokens |-> IF f \in S THEN "ended" ELSE SessionStatus[f]]
    BY <2>1 DEF SessionStatus
  <2>3. S \in SUBSET {f \in Tokens : SessionStatus[f] = "live"}
    OBVIOUS
  <2> HIDE DEF S
  <2> QED
    BY <2>2, <2>3 DEF Contract!Next, Contract!End
<1>2. ASSUME NEW r \in Requests, LoginInsert(r) PROVE Contract!Open
  <2>1. PICK t \in Tokens : Inserts(t, t) /\ \A u \in Tokens \ {t} : Live(u) =>
                                u \in present' /\ revokedAt'[u] = Never
    BY <1>0, <1>2, LoginInserts
  <2>2. family' = family
    BY <1>0, <2>1 DEF FamilyNames, Inserts
  <2>3. SessionStatus[t] = "unopened" /\ SessionStatus'[t] = "live"
    BY <2>1, <2>2, StatusOf, StatusOfNext DEF Inserts, FamilyNames
  <2>4. ASSUME NEW f \in Tokens \ {t} PROVE SessionStatus'[f] = SessionStatus[f]
    <3>1. \A u \in Tokens : (u \in present' /\ revokedAt'[u] = Never /\ family[u] = f)
                              <=> (Live(u) /\ family[u] = f)
      BY <1>0, <2>1, <2>2, <2>4 DEF Inserts, Live, FamilyNames
    <3>2. f \in issued' <=> f \in issued
      BY <2>1, <2>4 DEF Inserts
    <3> QED
      BY <2>2, <3>1, <3>2, StatusOf, StatusOfNext
  <2>5. /\ SessionStatus = [f \in Tokens |-> SessionStatus[f]]
        /\ SessionStatus' = [f \in Tokens |-> SessionStatus'[f]]
    BY DEF SessionStatus
  <2>6. SessionStatus' = [SessionStatus EXCEPT ![t] = "live"]
    BY <2>3, <2>4, <2>5
  <2> QED
    BY <2>3, <2>6, Zenon DEF Contract!Open
<1>3. ASSUME NEW r \in Requests, RotateCommit(r) PROVE UNCHANGED SessionStatus
  <2> DEFINE old == tok[r]
  <2>1. /\ old \in issued /\ Live(old) /\ ~(old \in present' /\ revokedAt'[old] = Never)
    BY <1>0, <1>3, RotationInserts
  <2>2. PICK t \in Tokens : Inserts(t, family[old]) /\ \A u \in Tokens \ {t, old} : Live(u) =>
                                u \in present' /\ revokedAt'[u] = Never
    BY <1>0, <1>3, RotationInserts
  <2> HIDE DEF old
  <2>3. /\ t \in Tokens \ issued /\ issued' = issued \cup {t} /\ family'[t] = family[old]
        /\ \A u \in Tokens \ {t} : family'[u] = family[u]
        /\ old \in Tokens \ {t} /\ family[old] \in issued
    BY <1>0, <2>1, <2>2 DEF Inserts, FamilyNames
  <2>4. ASSUME NEW f \in Tokens PROVE SessionStatus'[f] = SessionStatus[f]
    <3>1. SessionStatus'[f] = "unopened" <=> SessionStatus[f] = "unopened"
      BY <2>3, StatusOf, StatusOfNext
    <3>2. (\E u \in Tokens : Live(u) /\ family[u] = f)
             => \E u \in Tokens : u \in present' /\ revokedAt'[u] = Never /\ family'[u] = f
      <4>1. CASE f = family[old]
        BY <2>2, <2>3, <4>1 DEF Inserts
      <4>2. CASE f # family[old]
        BY <1>0, <2>2, <2>3, <4>2 DEF Live
      <4> QED
        BY <4>1, <4>2
    <3>3. (\E u \in Tokens : u \in present' /\ revokedAt'[u] = Never /\ family'[u] = f)
             => \E u \in Tokens : Live(u) /\ family[u] = f
      BY <2>1, <2>2, <2>3 DEF Inserts
    <3>4. SessionStatus'[f] = "live" <=> SessionStatus[f] = "live"
      BY <3>1, <3>2, <3>3, StatusOf, StatusOfNext
    <3> QED
      BY <3>1, <3>4, StatusOf, StatusOfNext
  <2> QED
    BY <2>4 DEF SessionStatus
<1> QED
  BY <1>0, <1>1, <1>2, <1>3, RowNext DEF Contract!Next

\* For every set of tokens and requests, the refresh-token table implements
\* the session contract: a family is opened by one login, and once it has no
\* unrevoked token it never has one again.
THEOREM SessionsImplementContract == Spec => SessionLifecycle
<1>1. Init => Contract!Init
  BY DEF Init, Contract!Init, SessionStatus
<1>2. SessionInv /\ SessionInv' /\ [Next]_vars => [Contract!Next]_SessionStatus
  BY ContractStep
<1> QED
  BY <1>1, <1>2, SessionAlways, PTL DEF Spec, SessionLifecycle, Contract!Spec

(***************************************************************************)
(* The chain of replaced_by_token_id under any concurrency, and what a     *)
(* deactivation, an erasure and a logout leave behind when requests of a   *)
(* user do not overlap.                                                    *)
(***************************************************************************)

-----------------------------------------------------------------------------
(* Links.                                                                  *)

\* Links are sound, and a row that is not in the table has none: the row a
\* rotation inserts next starts without one.
LinksInv ==
    /\ LinksSound
    /\ \A t \in Tokens \ present : replacedBy[t] = NoToken

\* A step that inserts and deletes no row, takes back no revocation and only
\* clears links.
LinksFade ==
    /\ present' = present /\ family' = family /\ parent' = parent
    /\ \A t \in Tokens : /\ revokedAt[t] # Never => revokedAt'[t] # Never
                         /\ replacedBy'[t] \in {replacedBy[t], NoToken}

\* Such a step keeps the links sound.
LEMMA FadeKeeps ==
  ASSUME RowInv, LinksInv, LinksFade
  PROVE  LinksInv'
<1>1. present \subseteq Tokens
  BY DEF RowInv, TypeOK
<1> QED BY <1>1 DEF LinksInv, LinksSound, LinksFade

\* A step that leaves the table alone.
LEMMA TableKept ==
  ASSUME UNCHANGED <<tableVars, parent>>
  PROVE  LinksFade
  BY DEF LinksFade, tableVars

\* A revocation stamps a time, which is not NULL.
LEMMA RevocationsFade ==
  ASSUME RowInv, NEW r \in Requests,
         \/ ReuseCommit(r) \/ RefreshExpired(r) \/ LogoutCommit(r)
         \/ LogoutAllCommit(r) \/ DeactivateRevoked(r)
  PROVE  LinksFade
<1>1. /\ clock \in Time /\ now[r] \in Time /\ Never \notin Time
      /\ revokedAt \in [Tokens -> Time \cup {Never}]
      /\ replacedBy \in [Tokens -> Tokens \cup {NoToken}]
  BY DEF RowInv, TypeOK, Time, Never
<1>2. present' = present /\ family' = family /\ parent' = parent
  BY DEF ReuseCommit, RefreshExpired, LogoutCommit, LogoutAllCommit, DeactivateRevoked,
         RevokeAllWrites
<1>3. CASE ReuseCommit(r)
  BY <1>1, <1>2, <1>3, Zenon DEF LinksFade, ReuseCommit
<1>4. CASE RefreshExpired(r)
  BY <1>1, <1>2, <1>4 DEF LinksFade, RefreshExpired
<1>5. CASE LogoutCommit(r)
  BY <1>1, <1>2, <1>5 DEF LinksFade, LogoutCommit
<1>6. CASE LogoutAllCommit(r) \/ DeactivateRevoked(r)
  BY <1>1, <1>2, <1>6 DEF LinksFade, LogoutAllCommit, DeactivateRevoked, RevokeAllWrites
<1> QED BY <1>3, <1>4, <1>5, <1>6

\* ON DELETE SET NULL: no link to a deleted row is left.
LEMMA DeletionKeepsLinks ==
  ASSUME RowInv, LinksInv, NEW T \in SUBSET Tokens, DeleteRows(T),
         family' = family, parent' = parent
  PROVE  LinksInv'
<1>1. present \subseteq Tokens /\ NoToken \notin Tokens
  BY SessionsAssumption DEF RowInv, TypeOK
<1>2. present' = present \ T
      /\ \A t \in Tokens : /\ t \in T => replacedBy'[t] = NoToken
                           /\ t \notin T => /\ revokedAt'[t] = revokedAt[t]
                                            /\ replacedBy'[t] = IF replacedBy[t] \in T
                                                  THEN NoToken ELSE replacedBy[t]
  BY DEF DeleteRows, Unlinked
<1> QED BY <1>1, <1>2 DEF LinksInv, LinksSound

\* A login inserts a row without a link.
LEMMA LoginKeepsLinks ==
  ASSUME RowInv, LinksInv, NEW r \in Requests, LoginInsert(r)
  PROVE  LinksInv'
<1>1. PICK t \in Tokens \ issued :
         /\ present' = present \cup {t} /\ family' = [family EXCEPT ![t] = t]
         /\ revokedAt' = [revokedAt EXCEPT ![t] = Never]
         /\ replacedBy' = replacedBy /\ parent' = parent
  BY Zenon DEF LoginInsert, InsertRow
<1>2. /\ present \subseteq issued /\ issued \subseteq Tokens /\ NoToken \notin Tokens
      /\ family \in [Tokens -> Tokens] /\ revokedAt \in [Tokens -> Time \cup {Never}]
  BY SessionsAssumption DEF RowInv, TypeOK
<1> QED BY <1>1, <1>2 DEF LinksInv, LinksSound

\* A rotation revokes the presented row and links it to the one it inserts.
LEMMA RotationKeepsLinks ==
  ASSUME RowInv, LinksInv, NEW r \in Requests, RotateCommit(r)
  PROVE  LinksInv'
<1> DEFINE old == tok[r]
<1>1. old \in present /\ clock \in Time /\ Never \notin Time
  BY DEF RowInv, OwnsRow, RotateCommit, TypeOK, Time, Never
<1>2. PICK t \in Tokens \ issued :
         /\ present' = present \cup {t} /\ family' = [family EXCEPT ![t] = family[old]]
         /\ revokedAt' = [Exchanged(old) EXCEPT ![t] = Never]
         /\ replacedBy' = [replacedBy EXCEPT ![old] = t]
         /\ parent' = [parent EXCEPT ![t] = old]
  BY Zenon DEF RotateCommit, InsertRow
<1>3. /\ present \subseteq issued /\ issued \subseteq Tokens /\ NoToken \notin Tokens
      /\ family \in [Tokens -> Tokens] /\ revokedAt \in [Tokens -> Time \cup {Never}]
      /\ replacedBy \in [Tokens -> Tokens \cup {NoToken}]
      /\ parent \in [Tokens -> Tokens \cup {NoToken}]
  BY SessionsAssumption DEF RowInv, TypeOK
<1>4. /\ t # old /\ revokedAt'[old] # Never /\ replacedBy'[old] = t
      /\ family'[t] = family[old] /\ parent'[t] = old /\ replacedBy'[t] = NoToken
  BY <1>1, <1>2, <1>3 DEF Exchanged, LinksInv
<1>5. \A x \in Tokens \ {t, old} :
         /\ revokedAt'[x] = revokedAt[x] /\ replacedBy'[x] = replacedBy[x]
         /\ family'[x] = family[x] /\ parent'[x] = parent[x]
  BY <1>1, <1>2, <1>3 DEF Exchanged
<1>6. family'[old] = family[old] /\ parent'[old] = parent[old]
  BY <1>2, <1>3, <1>4
<1> HIDE DEF old
<1>7. ASSUME NEW x \in present', replacedBy'[x] # NoToken
      PROVE  /\ replacedBy'[x] \in present' /\ family'[replacedBy'[x]] = family'[x]
             /\ parent'[replacedBy'[x]] = x /\ revokedAt'[x] # Never
  <2>1. CASE x = old
    BY <1>1, <1>2, <1>4, <1>6, <2>1
  <2>2. CASE x # old
    <3>1. x \in present /\ x \in Tokens \ {t, old} /\ replacedBy[x] # NoToken
      BY <1>2, <1>3, <1>4, <1>5, <1>7, <2>2
    <3>2. /\ replacedBy[x] \in present /\ family[replacedBy[x]] = family[x]
          /\ parent[replacedBy[x]] = x /\ revokedAt[x] # Never
      BY <3>1 DEF LinksInv, LinksSound
    <3>3. replacedBy[x] # t
      BY <1>2, <1>3, <3>2
    <3> QED BY <1>2, <1>3, <1>5, <1>6, <3>1, <3>2, <3>3
  <2> QED BY <2>1, <2>2
<1>8. \A x \in Tokens \ present' : replacedBy'[x] = NoToken
  BY <1>1, <1>2, <1>5 DEF LinksInv
<1> QED BY <1>7, <1>8 DEF LinksInv, LinksSound

\* A step of a request that writes no row.
Silent(r) ==
    \/ Arrive(r) \/ Acquire(r) \/ ReuseSelect(r) \/ RefreshRefused(r) \/ RefreshReadUser(r)
    \/ LogoutLoad(r) \/ LogoutGone(r) \/ RevokeAllGone(r) \/ Deactivate(r)
    \/ PurgeSelect(r) \/ PurgeDone(r) \/ Abort(r) \/ DeadlockVictim(r)

\* Such a step leaves the table alone.
LEMMA SilentKeepsTable ==
  ASSUME NEW r \in Requests, Silent(r)
  PROVE  UNCHANGED <<tableVars, parent>>
<1>1. CASE Arrive(r)
  BY <1>1, Zenon DEF Arrive, LoginCheck, RefreshLock, LogoutRead, RevokeAllSelect, EraseSelect,
     PurgeStart
<1>2. CASE ~Arrive(r)
  BY <1>2, Zenon DEF Silent, Acquire, ReuseSelect, RefreshRefused, RefreshReadUser, LogoutLoad,
     LogoutGone, RevokeAllGone, Deactivate, PurgeSelect, PurgeDone, Abort, DeadlockVictim
<1> QED BY <1>1, <1>2

\* Every step falls under one of the cases above.
LEMMA StepCases ==
  ASSUME [Next]_vars
  PROVE  \/ UNCHANGED <<tableVars, parent, userVars, requestVars>>
         \/ \E r \in Requests :
               \/ Silent(r) \/ LoginInsert(r) \/ RotateCommit(r)
               \/ ReuseCommit(r) \/ RefreshExpired(r) \/ LogoutCommit(r)
               \/ LogoutAllCommit(r) \/ DeactivateRevoked(r)
               \/ EraseCommit(r) \/ PurgeCommit(r)
<1>1. CASE Tick
  BY <1>1 DEF Tick
<1>2. CASE UNCHANGED vars
  BY <1>2 DEF vars
<1>3. ASSUME NEW r \in Requests, Arrive(r) \/ Progress(r) \/ Abort(r) \/ DeadlockVictim(r)
      PROVE  \/ Silent(r) \/ LoginInsert(r) \/ RotateCommit(r)
             \/ ReuseCommit(r) \/ RefreshExpired(r) \/ LogoutCommit(r)
             \/ LogoutAllCommit(r) \/ DeactivateRevoked(r)
             \/ EraseCommit(r) \/ PurgeCommit(r)
  BY <1>3, Zenon DEF Progress, Silent
<1> QED BY <1>1, <1>2, <1>3, Zenon DEF Next

\* Every step keeps the links sound.
LEMMA LinksStep ==
  ASSUME RowInv, LinksInv, [Next]_vars
  PROVE  LinksInv'
<1>1. CASE UNCHANGED <<tableVars, parent, userVars, requestVars>>
  BY <1>1, TableKept, FadeKeeps
<1>2. ASSUME NEW r \in Requests, Silent(r) PROVE LinksInv'
  BY <1>2, SilentKeepsTable, TableKept, FadeKeeps
<1>3. ASSUME NEW r \in Requests, LoginInsert(r) PROVE LinksInv'
  BY <1>3, LoginKeepsLinks
<1>4. ASSUME NEW r \in Requests, RotateCommit(r) PROVE LinksInv'
  BY <1>4, RotationKeepsLinks
<1>5. ASSUME NEW r \in Requests,
             \/ ReuseCommit(r) \/ RefreshExpired(r) \/ LogoutCommit(r)
             \/ LogoutAllCommit(r) \/ DeactivateRevoked(r)
      PROVE  LinksInv'
  BY <1>5, RevocationsFade, FadeKeeps
<1>6. ASSUME NEW r \in Requests, EraseCommit(r) \/ PurgeCommit(r) PROVE LinksInv'
  <2>1. DeleteRows(want[r]) /\ family' = family /\ parent' = parent
    BY <1>6 DEF EraseCommit, PurgeCommit
  <2>2. want[r] \in SUBSET Tokens
    BY DEF RowInv, TypeOK
  <2> QED BY <2>1, <2>2, DeletionKeepsLinks
<1> QED BY <1>1, <1>2, <1>3, <1>4, <1>5, <1>6, StepCases, Zenon

\* For any number of concurrent requests, a stored replaced_by_token_id points at
\* a kept row of the same family, the one the rotation created, from a revoked row.
THEOREM LinksSoundHolds == Spec => []LinksSound
<1>1. Init => LinksInv
  BY DEF Init, LinksInv, LinksSound
<1>2. SessionInv /\ LinksInv /\ [Next]_vars => LinksInv'
  BY LinksStep DEF SessionInv
<1>3. LinksInv => LinksSound
  BY DEF LinksInv
<1> QED BY <1>1, <1>2, <1>3, SessionAlways, PTL DEF Spec

-----------------------------------------------------------------------------
(* One request of the user at a time.                                      *)

OneRequest == \A q, r \in Requests : q = r

\* What a request that runs alone still finds as it read it.
Undisturbed(r) ==
    /\ pc[r] \in {"login", "rotating"} => active /\ ~erased
    /\ pc[r] = "revoking" => want[r] = UnrevokedRows
    /\ pc[r] = "deactivating" => UnrevokedRows = {}
    /\ pc[r] = "erasing" => want[r] = present
    /\ pc[r] = "logout" => Live(tok[r])
    /\ pc[r] = "loaded" => tok[r] \in present /\ dirty[r] \subseteq {"revoked_at"}

\* Every rotated row is linked, and a row not yet inserted comes from no rotation.
ChainInv ==
    /\ ChainUnbroken
    /\ \A t \in Tokens \ issued : parent[t] = NoToken

\* An account without access has no session, and an erased one has no row.
AloneInv ==
    /\ \A r \in Requests : Undisturbed(r)
    /\ ~active => UnrevokedRows = {}
    /\ erased => present = {} /\ ~active
    /\ ChainInv

\* Where a request is after Locals.
LEMMA LocalsAt ==
  ASSUME RowInv, NEW r \in Requests, NEW step, NEW o, NEW t, NEW n, NEW W, NEW D,
         Locals(r, step, o, t, n, W, D)
  PROVE  pc'[r] = step /\ tok'[r] = t /\ want'[r] = W /\ dirty'[r] = D
  BY DEF RowInv, TypeOK, Locals

\* A request that returns reads nothing any more.
LEMMA ReturnedAt ==
  ASSUME RowInv, NEW r \in Requests,
         Locals(r, "idle", "none", NoToken, 0, {}, {}) \/ Return(r)
  PROVE  Undisturbed(r)'
<1>1. pc'[r] = "idle"
  BY LocalsAt DEF Return
<1> QED BY <1>1 DEF Undisturbed

\* With one request, the invariant follows from its parts for that request.
LEMMA AloneFrom ==
  ASSUME OneRequest, NEW r \in Requests, Undisturbed(r)',
         (~active => UnrevokedRows = {})', (erased => present = {} /\ ~active)', ChainInv'
  PROVE  AloneInv'
<1>1. \A q \in Requests : Undisturbed(q)'
  BY Zenon DEF OneRequest
<1> QED BY <1>1 DEF AloneInv

\* The parts about the account and the chain survive a step that leaves the table
\* and the account alone.
LEMMA TableAndUserKept ==
  ASSUME AloneInv, UNCHANGED <<tableVars, parent, userVars>>
  PROVE  /\ (~active => UnrevokedRows = {})' /\ (erased => present = {} /\ ~active)'
         /\ ChainInv' /\ UnrevokedRows' = UnrevokedRows
  BY DEF AloneInv, ChainInv, ChainUnbroken, UnrevokedRows, Live, tableVars, userVars

\* Arrivals: the request reads the account and the rows as they are.
LEMMA AloneArrives ==
  ASSUME OneRequest, RowInv, LinksInv, AloneInv, NEW r \in Requests, Arrive(r)
  PROVE  AloneInv'
<1>1. UNCHANGED <<tableVars, parent, userVars>>
  BY Zenon DEF Arrive, LoginCheck, RefreshLock, LogoutRead, RevokeAllSelect, EraseSelect,
     PurgeStart
<1>2. /\ present' = present /\ revokedAt' = revokedAt /\ active' = active /\ erased' = erased
      /\ UnrevokedRows' = UnrevokedRows
  BY <1>1, TableAndUserKept DEF tableVars, userVars
<1>3. CASE LoginCheck(r)
  <2>1. pc'[r] = "login" /\ active /\ ~erased
    BY <1>3, LocalsAt DEF LoginCheck, MayHoldSession
  <2>2. Undisturbed(r)'
    BY <1>2, <2>1 DEF Undisturbed
  <2> QED BY <1>1, <2>2, TableAndUserKept, AloneFrom
<1>4. ASSUME NEW t \in Tokens, RefreshLock(r, t) PROVE AloneInv'
  <2>1. pc'[r] = "locked"
    BY <1>4, LocalsAt DEF RefreshLock
  <2>2. Undisturbed(r)'
    BY <2>1 DEF Undisturbed
  <2> QED BY <1>1, <2>2, TableAndUserKept, AloneFrom
<1>5. ASSUME NEW t \in Tokens, LogoutRead(r, t) PROVE AloneInv'
  <2>1. pc'[r] = "logout" /\ tok'[r] = t /\ Live(t)
    BY <1>5, LocalsAt DEF LogoutRead
  <2>2. Undisturbed(r)'
    BY <1>2, <2>1 DEF Undisturbed, Live
  <2> QED BY <1>1, <2>2, TableAndUserKept, AloneFrom
<1>6. ASSUME NEW o \in {"logout_all", "deactivate"}, RevokeAllSelect(r, o) PROVE AloneInv'
  <2>1. pc'[r] = "revoking" /\ want'[r] = UnrevokedRows
    BY <1>6, LocalsAt DEF RevokeAllSelect
  <2>2. Undisturbed(r)'
    BY <1>2, <2>1 DEF Undisturbed
  <2> QED BY <1>1, <2>2, TableAndUserKept, AloneFrom
<1>7. CASE EraseSelect(r)
  <2>1. pc'[r] = "erasing" /\ want'[r] = present
    BY <1>7, LocalsAt DEF EraseSelect, ErasedRows
  <2>2. Undisturbed(r)'
    BY <1>2, <2>1 DEF Undisturbed
  <2> QED BY <1>1, <2>2, TableAndUserKept, AloneFrom
<1>8. CASE PurgeStart(r)
  <2>1. pc'[r] = "purging"
    BY <1>8, LocalsAt DEF PurgeStart
  <2>2. Undisturbed(r)'
    BY <2>1 DEF Undisturbed
  <2> QED BY <1>1, <2>2, TableAndUserKept, AloneFrom
<1> QED BY <1>3, <1>4, <1>5, <1>6, <1>7, <1>8, Zenon DEF Arrive

\* Later steps that write no row.
LEMMA AloneReads ==
  ASSUME OneRequest, RowInv, LinksInv, AloneInv, NEW r \in Requests,
         \/ Acquire(r) \/ ReuseSelect(r) \/ RefreshRefused(r) \/ RefreshReadUser(r)
         \/ LogoutLoad(r) \/ LogoutGone(r) \/ RevokeAllGone(r)
         \/ PurgeSelect(r) \/ PurgeDone(r) \/ Abort(r) \/ DeadlockVictim(r)
  PROVE  AloneInv'
<1>1. UNCHANGED <<tableVars, parent, userVars>>
  BY Zenon DEF Acquire, ReuseSelect, RefreshRefused, RefreshReadUser, LogoutLoad, LogoutGone,
     RevokeAllGone, PurgeSelect, PurgeDone, Abort, DeadlockVictim
<1>2. /\ present' = present /\ revokedAt' = revokedAt /\ active' = active /\ erased' = erased
      /\ UnrevokedRows' = UnrevokedRows
  BY <1>1, TableAndUserKept DEF tableVars, userVars
<1> SUFFICES Undisturbed(r)'
  BY <1>1, TableAndUserKept, AloneFrom
<1>3. CASE Acquire(r)
  <2>1. pc' = pc /\ want' = want /\ tok' = tok /\ dirty' = dirty
    BY <1>3 DEF Acquire, requestVars
  <2> QED BY <1>2, <2>1 DEF AloneInv, Undisturbed, Live
<1>4. CASE ReuseSelect(r)
  <2>1. pc'[r] = "reuse"
    BY <1>4, LocalsAt, Zenon DEF ReuseSelect
  <2> QED BY <2>1, Zenon DEF Undisturbed
<1>5. CASE RefreshReadUser(r)
  <2>1. pc'[r] = "rotating" /\ active /\ ~erased
    BY <1>5, LocalsAt, Zenon DEF RefreshReadUser, MayHoldSession
  <2> QED BY <1>2, <2>1, Zenon DEF Undisturbed
<1>6. CASE LogoutLoad(r)
  <2>1. /\ pc'[r] = "loaded" /\ tok'[r] = tok[r] /\ dirty'[r] = Dirtied(tok[r])
        /\ pc[r] = "logout" /\ tok[r] \in present
    BY <1>6, LocalsAt DEF LogoutLoad
  <2>2. Live(tok[r])
    BY <2>1 DEF AloneInv, Undisturbed
  <2>3. replacedBy[tok[r]] = NoToken
    BY <2>2 DEF LinksInv, LinksSound, Live
  <2>4. dirty'[r] \subseteq {"revoked_at"}
    BY <2>1, <2>3 DEF Dirtied, Columns
  <2> QED BY <1>2, <2>1, <2>4, Zenon DEF Undisturbed
<1>7. CASE PurgeSelect(r)
  <2>1. pc'[r] = "deleting"
    BY <1>7, LocalsAt, Zenon DEF PurgeSelect
  <2> QED BY <2>1, Zenon DEF Undisturbed
<1>8. CASE Return(r)
  BY <1>8, ReturnedAt
<1> QED
  BY <1>3, <1>4, <1>5, <1>6, <1>7, <1>8, Zenon DEF RefreshRefused, LogoutGone, RevokeAllGone,
     PurgeDone, Abort, DeadlockVictim

\* Revocations leave no more sessions than there were, and the chain whole.
LEMMA AloneRevokes ==
  ASSUME OneRequest, SessionInv, LinksInv, AloneInv, NEW r \in Requests,
         \/ ReuseCommit(r) \/ RefreshExpired(r) \/ LogoutCommit(r)
         \/ LogoutAllCommit(r) \/ DeactivateRevoked(r)
  PROVE  AloneInv'
<1> USE DEF SessionInv
<1>1. LinksFade
  BY RevocationsFade
<1>2. present \subseteq Tokens /\ now[r] \in Time /\ Never \notin Time
  BY DEF RowInv, TypeOK, Time, Never
<1>3. UnrevokedRows' \subseteq UnrevokedRows
  BY <1>1, <1>2 DEF LinksFade, UnrevokedRows, Live
<1>4. active' = active /\ erased' = erased /\ issued' = issued
  BY Zenon DEF ReuseCommit, RefreshExpired, LogoutCommit, LogoutAllCommit, DeactivateRevoked,
         RevokeAllWrites, userVars
<1>5. (~active => UnrevokedRows = {})' /\ (erased => present = {} /\ ~active)'
  BY <1>1, <1>3, <1>4 DEF AloneInv, LinksFade
<1>6. ASSUME NEW t \in present, parent[t] \in present PROVE replacedBy'[parent[t]] = t
  <2>1. replacedBy[parent[t]] = t /\ parent[t] \in Tokens
    BY <1>2, <1>6 DEF AloneInv, ChainInv, ChainUnbroken
  <2>2. CASE RefreshExpired(r)
    <3>1. Live(tok[r]) /\ tok[r] \in Tokens
      BY <1>2, <2>2, Zenon DEF RefreshExpired, RowInv, OwnsRow, Live
    <3>2. parent[t] # tok[r]
      BY <1>2, <1>6, <3>1, SessionsAssumption, Zenon DEF ExchangedIsDead
    <3>3. replacedBy' = [replacedBy EXCEPT ![tok[r]] = NoToken]
      BY <2>2, Zenon DEF RefreshExpired
    <3> QED BY <2>1, <3>2, <3>3 DEF RowInv, TypeOK
  <2>3. CASE LogoutCommit(r)
    <3>1. dirty[r] \subseteq {"revoked_at"}
      BY <2>3, Zenon DEF LogoutCommit, AloneInv, Undisturbed
    <3>2. replacedBy' = [replacedBy EXCEPT ![tok[r]] = @]
      BY <2>3, <3>1, Zenon DEF LogoutCommit
    <3> QED BY <2>1, <3>2
  <2>4. CASE ReuseCommit(r) \/ LogoutAllCommit(r) \/ DeactivateRevoked(r)
    BY <2>1, <2>4, Zenon DEF ReuseCommit, LogoutAllCommit, DeactivateRevoked, RevokeAllWrites
  <2> QED BY <2>2, <2>3, <2>4
<1>7. ChainInv'
  BY <1>1, <1>4, <1>6, Zenon DEF LinksFade, AloneInv, ChainInv, ChainUnbroken
<1>8. Undisturbed(r)'
  <2>1. CASE Return(r) \/ LogoutAllCommit(r)
    BY <2>1, ReturnedAt DEF LogoutAllCommit
  <2>2. CASE DeactivateRevoked(r)
    <3>1. pc'[r] = "deactivating"
      BY <2>2, LocalsAt DEF DeactivateRevoked
    <3>2. want[r] = UnrevokedRows
      BY <2>2 DEF DeactivateRevoked, RevokeAllWrites, AloneInv, Undisturbed
    <3>3. \A t \in UnrevokedRows : revokedAt'[t] # Never
      BY <1>2, <2>2, <3>2, Zenon DEF DeactivateRevoked, RevokeAllWrites, Stamped, Needs, UnrevokedRows
    <3>4. UnrevokedRows' = {}
      BY <1>3, <3>3 DEF UnrevokedRows, Live
    <3> QED BY <3>1, <3>4 DEF Undisturbed
  <2> QED BY <2>1, <2>2 DEF ReuseCommit, RefreshExpired, LogoutCommit
<1> QED BY <1>5, <1>7, <1>8, AloneFrom

\* Deletions take rows with the links to them.
LEMMA AloneDeletes ==
  ASSUME OneRequest, SessionInv, LinksInv, AloneInv, NEW r \in Requests,
         EraseCommit(r) \/ PurgeCommit(r)
  PROVE  AloneInv'
<1> DEFINE T == want[r]
<1>1. present \subseteq Tokens /\ T \subseteq Tokens /\ RowInv
  BY DEF SessionInv, RowInv, TypeOK
<1>2. /\ present' = present \ T /\ parent' = parent /\ issued' = issued
      /\ \A t \in Tokens \ T : /\ revokedAt'[t] = revokedAt[t]
                               /\ replacedBy[t] \notin T => replacedBy'[t] = replacedBy[t]
  BY Zenon DEF EraseCommit, PurgeCommit, DeleteRows, Unlinked
<1>3. UnrevokedRows' \subseteq UnrevokedRows
  BY <1>1, <1>2 DEF UnrevokedRows, Live
<1> HIDE DEF T
<1>4. ChainInv'
  BY <1>1, <1>2 DEF AloneInv, ChainInv, ChainUnbroken
<1>5. CASE EraseCommit(r)
  <2>1. T = present
    BY <1>5 DEF EraseCommit, AloneInv, Undisturbed, T
  <2>2. present' = {} /\ active' = FALSE /\ Undisturbed(r)'
    BY <1>1, <1>2, <1>5, <2>1, ReturnedAt DEF EraseCommit
  <2>3. UnrevokedRows' = {}
    BY <2>2 DEF UnrevokedRows
  <2> QED BY <1>4, <2>2, <2>3, AloneFrom
<1>6. CASE PurgeCommit(r)
  <2>1. active' = active /\ erased' = erased /\ pc'[r] = "purging"
    BY <1>1, <1>6, LocalsAt DEF PurgeCommit, userVars
  <2>2. Undisturbed(r)'
    BY <2>1 DEF Undisturbed
  <2>3. (~active => UnrevokedRows = {})' /\ (erased => present = {} /\ ~active)'
    BY <1>2, <1>3, <2>1 DEF AloneInv
  <2> QED BY <1>4, <2>2, <2>3, AloneFrom
<1> QED BY <1>5, <1>6

\* Rows are inserted only for an account that may hold a session.
LEMMA AloneInserts ==
  ASSUME OneRequest, SessionInv, LinksInv, AloneInv, NEW r \in Requests,
         LoginInsert(r) \/ RotateCommit(r)
  PROVE  AloneInv'
<1>1. active /\ ~erased /\ RowInv
  BY DEF LoginInsert, RotateCommit, AloneInv, Undisturbed, SessionInv
<1>2. active' = active /\ erased' = erased /\ Undisturbed(r)'
  BY <1>1, ReturnedAt, Zenon DEF LoginInsert, RotateCommit, userVars
<1>3. (~active => UnrevokedRows = {})' /\ (erased => present = {} /\ ~active)'
  BY <1>1, <1>2
<1>4. /\ present \subseteq issued /\ issued \subseteq Tokens /\ NoToken \notin Tokens
      /\ replacedBy \in [Tokens -> Tokens \cup {NoToken}]
      /\ parent \in [Tokens -> Tokens \cup {NoToken}]
  BY <1>1, SessionsAssumption DEF RowInv, TypeOK
<1>5. /\ ChainUnbroken /\ \A x \in Tokens \ issued : parent[x] = NoToken
      /\ \A x \in Tokens : parent[x] # NoToken => parent[x] \in issued /\ ~Live(parent[x])
  BY DEF AloneInv, ChainInv, SessionInv, ExchangedIsDead
<1>6. CASE LoginInsert(r)
  <2>1. PICK t \in Tokens \ issued :
           /\ present' = present \cup {t} /\ issued' = issued \cup {t}
           /\ replacedBy' = replacedBy /\ parent' = parent
    BY <1>6 DEF LoginInsert, InsertRow
  <2>2. ChainInv'
    BY <1>4, <1>5, <2>1 DEF ChainInv, ChainUnbroken
  <2> QED BY <1>2, <1>3, <2>2, AloneFrom
<1>7. CASE RotateCommit(r)
  <2> DEFINE old == tok[r]
  <2>1. PICK t \in Tokens \ issued :
           /\ present' = present \cup {t} /\ issued' = issued \cup {t}
           /\ replacedBy' = [replacedBy EXCEPT ![old] = t]
           /\ parent' = [parent EXCEPT ![t] = old]
    BY <1>7, Zenon DEF RotateCommit, InsertRow
  <2>2. old \in present /\ Live(old)
    BY <1>1, <1>7, Zenon DEF RotateCommit, RowInv, OwnsRow, Live
  <2>3. ASSUME NEW x \in present', parent'[x] \in present' PROVE replacedBy'[parent'[x]] = x
    <3>1. CASE x = t
      BY <1>4, <2>1, <2>2, <3>1
    <3>2. CASE x # t
      <4>1. x \in present /\ x \in Tokens /\ parent'[x] = parent[x]
        BY <1>4, <2>1, <2>3, <3>2
      <4>2. parent[x] \in Tokens
        BY <1>4, <2>1, <2>3, <4>1
      <4>3. parent[x] \in issued /\ parent[x] # old /\ parent[x] # t
        BY <1>4, <1>5, <2>1, <2>2, <4>1, <4>2
      <4>4. parent[x] \in present
        BY <2>1, <2>3, <4>1, <4>3
      <4> QED BY <1>4, <1>5, <2>1, <4>1, <4>2, <4>3, <4>4 DEF ChainUnbroken
    <3> QED BY <3>1, <3>2
  <2>4. \A x \in Tokens \ issued' : parent'[x] = NoToken
    BY <1>4, <1>5, <2>1
  <2>5. ChainInv'
    BY <2>3, <2>4 DEF ChainInv, ChainUnbroken
  <2> QED BY <1>2, <1>3, <2>5, AloneFrom
<1> QED BY <1>6, <1>7

\* Clearing is_active comes after the revocation.
LEMMA AloneDeactivates ==
  ASSUME OneRequest, RowInv, AloneInv, NEW r \in Requests, Deactivate(r)
  PROVE  AloneInv'
<1>1. UnrevokedRows = {} /\ erased' = erased /\ active' = FALSE
  BY DEF Deactivate, AloneInv, Undisturbed
<1>2. UNCHANGED <<tableVars, parent>> /\ Undisturbed(r)'
  BY ReturnedAt DEF Deactivate
<1>3. UnrevokedRows' = {} /\ ChainInv' /\ present' = present
  BY <1>1, <1>2 DEF AloneInv, ChainInv, ChainUnbroken, UnrevokedRows, Live, tableVars
<1> QED BY <1>1, <1>2, <1>3, AloneFrom DEF AloneInv

\* Every step of a user's only request keeps the invariant.
LEMMA AloneStep ==
  ASSUME OneRequest, SessionInv, LinksInv, AloneInv, [Next]_vars
  PROVE  AloneInv'
<1>0. RowInv
  BY DEF SessionInv
<1>1. CASE UNCHANGED <<tableVars, parent, userVars, requestVars>>
  <2>1. \A r \in Requests : Undisturbed(r)'
    BY <1>1 DEF AloneInv, Undisturbed, UnrevokedRows, Live, tableVars, userVars, requestVars
  <2> QED BY <1>1, <2>1, TableAndUserKept DEF AloneInv
<1>2. ASSUME NEW r \in Requests, Silent(r) PROVE AloneInv'
  <2>1. CASE Arrive(r)
    BY <1>0, <2>1, AloneArrives
  <2>2. CASE Deactivate(r)
    BY <1>0, <2>2, AloneDeactivates
  <2>3. CASE ~Arrive(r) /\ ~Deactivate(r)
    <3>1. \/ Acquire(r) \/ ReuseSelect(r) \/ RefreshRefused(r) \/ RefreshReadUser(r)
          \/ LogoutLoad(r) \/ LogoutGone(r) \/ RevokeAllGone(r)
          \/ PurgeSelect(r) \/ PurgeDone(r) \/ Abort(r) \/ DeadlockVictim(r)
      BY <1>2, <2>3, Zenon DEF Silent
    <3> QED BY <1>0, <3>1, AloneReads
  <2> QED BY <2>1, <2>2, <2>3
<1>3. ASSUME NEW r \in Requests, LoginInsert(r) \/ RotateCommit(r) PROVE AloneInv'
  BY <1>3, AloneInserts
<1>4. ASSUME NEW r \in Requests,
             \/ ReuseCommit(r) \/ RefreshExpired(r) \/ LogoutCommit(r)
             \/ LogoutAllCommit(r) \/ DeactivateRevoked(r)
      PROVE  AloneInv'
  BY <1>4, AloneRevokes
<1>5. ASSUME NEW r \in Requests, EraseCommit(r) \/ PurgeCommit(r) PROVE AloneInv'
  BY <1>5, AloneDeletes
<1> QED BY <1>1, <1>2, <1>3, <1>4, <1>5, StepCases, Zenon

\* The invariant holds as long as requests of the user do not overlap.
LEMMA AloneAlways == ASSUME OneRequest PROVE Spec => []AloneInv
<1>1. Init => LinksInv
  BY DEF Init, LinksInv, LinksSound
<1>2. Init => AloneInv
  BY DEF Init, AloneInv, Undisturbed, UnrevokedRows, ChainInv, ChainUnbroken
<1>3. SessionInv /\ LinksInv /\ [Next]_vars => LinksInv'
  BY LinksStep DEF SessionInv
<1>4. SessionInv /\ LinksInv /\ AloneInv /\ [Next]_vars => AloneInv'
  BY AloneStep
<1> QED BY <1>1, <1>2, <1>3, <1>4, SessionAlways, PTL DEF Spec

\* Without overlapping requests a deactivated account has no live refresh token
\* and an erased one no refresh-token row.
THEOREM NoSessionLeftHolds == ASSUME OneRequest PROVE Spec => []NoSessionLeft
<1>1. AloneInv => NoSessionLeft
  BY DEF AloneInv, NoSessionLeft, UnrevokedRows
<1> QED BY <1>1, AloneAlways, PTL

\* Without overlapping requests every rotated row keeps the link to its
\* replacement for as long as both are kept.
THEOREM ChainUnbrokenHolds == ASSUME OneRequest PROVE Spec => []ChainUnbroken
<1>1. AloneInv => ChainUnbroken
  BY DEF AloneInv, ChainInv
<1> QED BY <1>1, AloneAlways, PTL
\* What a revocation or a sweep selected is still what it would select: the rows
\* of the family, and rows that passed the cutoff, which lies in the past.
Selected(r) ==
    /\ pc[r] = "reuse" => want[r] = FamilyRows(family[tok[r]])
    /\ pc[r] \in {"purging", "deleting"} => now[r] <= clock
    /\ pc[r] = "deleting" => want[r] \subseteq Purgeable(now[r])

SelectedInv == \A r \in Requests : Selected(r)

\* A request that is elsewhere has selected nothing.
LEMMA SelectedElsewhere ==
  ASSUME RowInv, NEW r \in Requests, NEW step, NEW o, NEW t, NEW n, NEW W, NEW D,
         Locals(r, step, o, t, n, W, D), step \notin {"reuse", "purging", "deleting"}
  PROVE  Selected(r)'
<1>1. pc'[r] = step
  BY LocalsAt
<1> QED BY <1>1 DEF Selected

\* The selections of a request that runs alone stay as they were made.
LEMMA SelectedSteps ==
  ASSUME RowInv, SelectedInv, NEW r \in Requests,
         Arrive(r) \/ Progress(r) \/ Abort(r) \/ DeadlockVictim(r)
  PROVE  Selected(r)'
<1> USE DEF RowInv
<1>1. CASE Acquire(r)
  <2>1. /\ pc' = pc /\ want' = want /\ tok' = tok /\ now' = now /\ clock' = clock
        /\ present' = present /\ family' = family /\ expires' = expires /\ revokedAt' = revokedAt
    BY <1>1 DEF Acquire, requestVars, tableVars
  <2> QED BY <2>1 DEF SelectedInv, Selected, FamilyRows, Purgeable
<1>2. CASE ReuseSelect(r)
  <2>1. /\ pc'[r] = "reuse" /\ tok'[r] = tok[r] /\ want'[r] = FamilyRows(family[tok[r]])
        /\ present' = present /\ family' = family
    BY <1>2, LocalsAt DEF ReuseSelect, tableVars
  <2> QED BY <2>1 DEF Selected, FamilyRows
<1>3. CASE PurgeStart(r)
  <2>1. pc'[r] = "purging" /\ now'[r] = clock /\ clock' = clock /\ clock \in Int
    BY <1>3, SessionsAssumption DEF PurgeStart, Locals, TypeOK, Time
  <2> QED BY <2>1 DEF Selected
<1>4. CASE PurgeSelect(r)
  <2>1. /\ pc'[r] = "deleting" /\ now'[r] = now[r] /\ want'[r] \subseteq Purgeable(now[r])
        /\ clock' = clock /\ pc[r] = "purging"
        /\ present' = present /\ expires' = expires /\ revokedAt' = revokedAt
    BY <1>4 DEF PurgeSelect, Locals, TypeOK, tableVars
  <2> QED BY <2>1, Zenon DEF SelectedInv, Selected, Purgeable
<1>5. CASE PurgeCommit(r)
  <2>1. /\ pc'[r] = "purging" /\ now'[r] = now[r] /\ clock' = clock /\ pc[r] = "deleting"
    BY <1>5 DEF PurgeCommit, Locals, TypeOK
  <2> QED BY <2>1, Zenon DEF SelectedInv, Selected
<1>6. CASE Return(r) \/ LogoutAllCommit(r)
  BY <1>6, SelectedElsewhere DEF Return, LogoutAllCommit
<1>7. CASE RefreshReadUser(r) \/ LogoutLoad(r) \/ DeactivateRevoked(r)
  BY <1>7, SelectedElsewhere DEF RefreshReadUser, LogoutLoad, DeactivateRevoked
<1>8. CASE Arrive(r)
  <2>1. CASE LoginCheck(r) \/ EraseSelect(r)
    BY <2>1, SelectedElsewhere DEF LoginCheck, EraseSelect
  <2>2. ASSUME NEW t \in Tokens, RefreshLock(r, t) \/ LogoutRead(r, t) PROVE Selected(r)'
    BY <2>2, SelectedElsewhere DEF RefreshLock, LogoutRead
  <2>3. ASSUME NEW o \in {"logout_all", "deactivate"}, RevokeAllSelect(r, o) PROVE Selected(r)'
    BY <2>3, SelectedElsewhere DEF RevokeAllSelect
  <2> QED BY <1>3, <1>8, <2>1, <2>2, <2>3, Zenon DEF Arrive
<1> QED
  BY <1>1, <1>2, <1>4, <1>5, <1>6, <1>7, <1>8, Zenon DEF Progress, LoginInsert, ReuseCommit,
     RefreshExpired, RefreshRefused, RotateCommit, LogoutCommit, LogoutGone, RevokeAllGone,
     Deactivate, EraseCommit, PurgeDone, Abort, DeadlockVictim

\* Without overlapping requests the selections hold throughout.
LEMMA SelectedAlways == ASSUME OneRequest PROVE Spec => []SelectedInv
<1>1. Init => SelectedInv
  BY DEF Init, SelectedInv, Selected
<1>2. SessionInv /\ SelectedInv /\ [Next]_vars => SelectedInv'
  <2> SUFFICES ASSUME SessionInv, SelectedInv, [Next]_vars PROVE SelectedInv'
    OBVIOUS
  <2>1. CASE Tick \/ UNCHANGED vars
    <3>1. /\ pc' = pc /\ want' = want /\ tok' = tok /\ now' = now
          /\ present' = present /\ family' = family /\ expires' = expires
          /\ revokedAt' = revokedAt /\ (clock' = clock \/ clock' = clock + 1)
      BY <2>1 DEF Tick, vars, requestVars, tableVars
    <3>2. clock \in Int /\ \A r \in Requests : now[r] \in Int
      BY SessionsAssumption DEF SessionInv, RowInv, TypeOK, Time
    <3> QED BY <3>1, <3>2 DEF SelectedInv, Selected, FamilyRows, Purgeable
  <2>2. ASSUME NEW r \in Requests, Arrive(r) \/ Progress(r) \/ Abort(r) \/ DeadlockVictim(r)
        PROVE  SelectedInv'
    <3>1. Selected(r)'
      BY <2>2, SelectedSteps DEF SessionInv
    <3> QED BY <3>1, Zenon DEF SelectedInv, OneRequest
  <2> QED BY <2>1, <2>2, Zenon DEF Next
<1> QED BY <1>1, <1>2, SessionAlways, PTL DEF Spec

\* Without overlapping requests, reuse detection leaves no token of the family
\* unrevoked and logout-all none of a session it selected.
THEOREM RevocationCompleteHolds == ASSUME OneRequest PROVE Spec => RevocationComplete
<1> DEFINE Complete == \A r \in Requests :
        /\ ReuseCommit(r) =>
               \A t \in present' : family[t] = family[tok[r]] => revokedAt'[t] # Never
        /\ RevokeAllWrites(r) =>
               \A t \in present', u \in want[r] : family[t] = family[u] => revokedAt'[t] # Never
<1>1. SessionInv /\ AloneInv /\ SelectedInv => Complete
  <2> SUFFICES ASSUME SessionInv, AloneInv, SelectedInv PROVE Complete
    OBVIOUS
  <2>1. /\ present \subseteq Tokens /\ clock \in Time /\ Never \notin Time
        /\ \A r \in Requests : now[r] \in Time
    BY DEF SessionInv, RowInv, TypeOK, Time, Never
  <2>2. ASSUME NEW r \in Requests, ReuseCommit(r), NEW t \in present', family[t] = family[tok[r]]
        PROVE  revokedAt'[t] # Never
    <3>1. t \in present /\ want[r] = FamilyRows(family[tok[r]])
      BY <2>2 DEF ReuseCommit, SelectedInv, Selected
    <3>2. t \in Needs(r)
      BY <2>2, <3>1 DEF FamilyRows, Needs
    <3> QED BY <2>1, <2>2, <3>1, <3>2 DEF ReuseCommit
  <2>3. ASSUME NEW r \in Requests, RevokeAllWrites(r), NEW t \in present' PROVE revokedAt'[t] # Never
    <3>1. t \in present /\ want[r] = UnrevokedRows
      BY <2>3 DEF RevokeAllWrites, AloneInv, Undisturbed
    <3>2. revokedAt[t] = Never => t \in Stamped(r)
      BY <3>1 DEF UnrevokedRows, Live, Stamped, Needs
    <3> QED BY <2>1, <2>3, <3>1, <3>2 DEF RevokeAllWrites
  <2> QED BY <2>2, <2>3, Zenon
<1>2. RevocationComplete <=> [][Complete]_vars
  BY Zenon DEF RevocationComplete
<1> QED BY <1>1, <1>2, SessionAlways, AloneAlways, SelectedAlways, PTL DEF Spec

\* Without overlapping requests the sweep removes no row before the retention
\* window is over, whatever the lifetime, the retention and the batch size.
THEOREM PurgeKeepsRecentHolds == ASSUME OneRequest PROVE Spec => PurgeKeepsRecent
<1> DEFINE Recent == \A t \in present \ present' :
        \/ erased'
        \/ expires[t] + Retention < clock
        \/ revokedAt[t] # Never /\ revokedAt[t] + Retention < clock
<1>1. SessionInv /\ SelectedInv /\ [Next]_vars => Recent
  <2> SUFFICES ASSUME SessionInv, SelectedInv, [Next]_vars, NEW t \in present \ present'
               PROVE  \/ erased'
                      \/ expires[t] + Retention < clock
                      \/ revokedAt[t] # Never /\ revokedAt[t] + Retention < clock
    OBVIOUS
  <2>1. PICK r \in Requests : EraseCommit(r) \/ PurgeCommit(r)
    <3>1. CASE UNCHANGED <<tableVars, parent, userVars, requestVars>>
      BY <3>1 DEF tableVars
    <3>2. ASSUME NEW r \in Requests, Silent(r) PROVE FALSE
      BY <3>2, SilentKeepsTable DEF tableVars
    <3>3. ASSUME NEW r \in Requests,
                 \/ LoginInsert(r) \/ RotateCommit(r)
                 \/ ReuseCommit(r) \/ RefreshExpired(r) \/ LogoutCommit(r)
                 \/ LogoutAllCommit(r) \/ DeactivateRevoked(r)
          PROVE  FALSE
      BY <3>3 DEF LoginInsert, RotateCommit, InsertRow, ReuseCommit, RefreshExpired,
         LogoutCommit, LogoutAllCommit, DeactivateRevoked, RevokeAllWrites
    <3> QED BY <3>1, <3>2, <3>3, StepCases, Zenon
  <2>2. CASE EraseCommit(r)
    BY <2>2 DEF EraseCommit
  <2>3. CASE PurgeCommit(r)
    <3>1. t \in want[r] /\ want[r] \subseteq Purgeable(now[r]) /\ now[r] <= clock
      BY <2>3, Zenon DEF PurgeCommit, DeleteRows, SelectedInv, Selected
    <3>2. /\ clock \in Int /\ now[r] \in Int /\ Retention \in Int
          /\ expires[t] \in Int /\ revokedAt[t] \in Int
      BY SessionsAssumption DEF SessionInv, RowInv, TypeOK, Time, Never
    <3> QED BY <3>1, <3>2 DEF Purgeable
  <2> QED BY <2>1, <2>2, <2>3
<1>2. PurgeKeepsRecent <=> [][Recent]_vars
  BY Zenon DEF PurgeKeepsRecent
<1> QED BY <1>1, <1>2, SessionAlways, SelectedAlways, PTL DEF Spec
=============================================================================
