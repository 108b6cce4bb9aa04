------------------------------ MODULE Sessions ------------------------------
(***************************************************************************)
(* The refresh tokens of one user: login, rotation with reuse detection,   *)
(* logout, logout-all, deactivation, erasure and the retention sweep, run  *)
(* by concurrent requests against one PostgreSQL table.                    *)
(*                                                                         *)
(* A request is a sequence of database steps.  Transactions run READ       *)
(* COMMITTED: a statement sees the rows committed when it starts, waits    *)
(* for the row locks of other transactions, and its writes become visible  *)
(* at COMMIT.  Rows of different users never meet (every statement selects *)
(* by token, family or user), so one user is enough.  A token, its hash    *)
(* and its row id are one member of Tokens; a family is named by the token *)
(* the login inserted.                                                     *)
(***************************************************************************)
EXTENDS Integers, FiniteSets

CONSTANTS
    Tokens,      \* row ids
    Requests,    \* concurrent request or job threads
    Lifetime,    \* APP_AUTH_REFRESH_TOKEN_EXPIRE_DAYS
    Retention,   \* APP_AUTH_TOKEN_RETENTION_DAYS
    PurgeBatch,  \* the LIMIT of the purge statement
    MaxTime,     \* bound: the clock stops here
    NoToken,     \* NULL in a token column
    Nobody       \* no transaction holds the row lock

ASSUME SessionsAssumption ==
    /\ Lifetime \in Nat \ {0}
    /\ Retention \in Nat
    /\ PurgeBatch \in Nat \ {0}
    /\ MaxTime \in Nat
    /\ NoToken \notin Tokens
    /\ Nobody \notin Requests
    /\ IsFiniteSet(Tokens)

VARIABLES
    clock,       \* the time every process reads
    active,      \* users.is_active
    erased,      \* users.is_erased
    issued,      \* tokens ever inserted (row ids are never reused)
    present,     \* rows of refresh_tokens
    family,      \* column family_id
    expires,     \* column expires_at
    revokedAt,   \* column revoked_at
    replacedBy,  \* column replaced_by_token_id
    lock,        \* the transaction holding a row's lock
    pc,          \* the step a request has reached
    op,          \* which use case runs revoke_user_refresh_tokens
    tok,         \* the row a request works on
    now,         \* the instant a request took
    want,        \* the rows a statement of the request selected
    dirty,       \* the attributes an ORM object will write at flush
    parent       \* history: the token a rotation exchanged for this one

userVars == <<active, erased>>
tableVars == <<issued, present, family, expires, revokedAt, replacedBy>>
requestVars == <<pc, op, tok, now, want, dirty>>
vars == <<clock, userVars, tableVars, lock, requestVars, parent>>

Never == -1
Time == 0..MaxTime
Steps == {"idle", "login", "locked", "rotating", "reuse", "logout", "loaded",
          "revoking", "deactivating", "erasing", "purging", "deleting"}
Ops == {"none", "logout_all", "deactivate"}
Columns == {"revoked_at", "replaced_by_token_id"}

Live(t) == t \in present /\ revokedAt[t] = Never

Init ==
    /\ clock = 0
    /\ active = TRUE /\ erased = FALSE
    /\ issued = {} /\ present = {}
    /\ family = [t \in Tokens |-> t]
    /\ expires = [t \in Tokens |-> 0]
    /\ revokedAt = [t \in Tokens |-> Never]
    /\ replacedBy = [t \in Tokens |-> NoToken]
    /\ lock = [t \in Tokens |-> Nobody]
    /\ pc = [r \in Requests |-> "idle"]
    /\ op = [r \in Requests |-> "none"]
    /\ tok = [r \in Requests |-> NoToken]
    /\ now = [r \in Requests |-> 0]
    /\ want = [r \in Requests |-> {}]
    /\ dirty = [r \in Requests |-> {}]
    /\ parent = [t \in Tokens |-> NoToken]

-----------------------------------------------------------------------------
(* Row locks.  FOR UPDATE, UPDATE and DELETE lock the rows they selected   *)
(* one by one, in the executor's order, and keep them until the            *)
(* transaction ends.  A row deleted in the meantime is skipped.            *)

\* ON DELETE SET NULL also updates the rows that point at a deleted one.
Referencing(T) == {t \in present : replacedBy[t] \in T}

Deleting(r) == pc[r] \in {"erasing", "deleting"}

Needs(r) == (want[r] \cup IF Deleting(r) THEN Referencing(want[r]) ELSE {}) \cap present

Waiting(r) == {t \in Needs(r) : lock[t] # r}

Acquire(r) ==
    /\ pc[r] \in {"reuse", "revoking", "erasing", "deleting"}
    /\ \E t \in Waiting(r) :
          /\ lock[t] = Nobody
          /\ lock' = [lock EXCEPT ![t] = r]
    /\ UNCHANGED <<clock, userVars, tableVars, requestVars, parent>>

Release(r) == lock' = [t \in Tokens |-> IF lock[t] = r THEN Nobody ELSE lock[t]]

\* The local state of a request that has returned, or goes on to its next step.
Locals(r, step, o, t, n, W, D) ==
    /\ pc' = [pc EXCEPT ![r] = step]
    /\ op' = [op EXCEPT ![r] = o]
    /\ tok' = [tok EXCEPT ![r] = t]
    /\ now' = [now EXCEPT ![r] = n]
    /\ want' = [want EXCEPT ![r] = W]
    /\ dirty' = [dirty EXCEPT ![r] = D]

Return(r) == Locals(r, "idle", "none", NoToken, 0, {}, {}) /\ Release(r)

\* The process dies or the connection drops: the open transaction rolls back.
Abort(r) ==
    /\ pc[r] # "idle"
    /\ Return(r)
    /\ UNCHANGED <<clock, userVars, tableVars, parent>>

\* Every row a member of D still waits for is held by a member of D.
Stuck(D) == \A r \in D :
    /\ Waiting(r) # {}
    /\ \A t \in Waiting(r) : lock[t] \in D

\* PostgreSQL cancels one transaction of a wait cycle.
DeadlockVictim(r) ==
    /\ \E D \in SUBSET Requests : r \in D /\ Stuck(D)
    /\ Return(r)
    /\ UNCHANGED <<clock, userVars, tableVars, parent>>

-----------------------------------------------------------------------------
(* Login: the account is read, then, in later transactions, the token of a *)
(* new family is inserted.                                                 *)

MayHoldSession_Any == ~erased

\* get_by_email / get_by_id hide an erased user; the use cases refuse an inactive one.
MayHoldSession == ~erased /\ active

\* Bound: a request that may insert a row finds an unused id in Tokens.
RoomForRow == Cardinality({r \in Requests : pc[r] \in {"login", "locked", "rotating"}})
                  < Cardinality(Tokens \ issued)

LoginCheck(r) ==
    /\ pc[r] = "idle"
    /\ MayHoldSession
    /\ RoomForRow
    /\ Locals(r, "login", "none", NoToken, 0, {}, {})
    /\ UNCHANGED <<clock, userVars, tableVars, lock, parent>>

Expiry(n) == n + Lifetime

\* INSERT of an unrevoked row into the table whose other rows are stamped R.
InsertRow(t, f, n, R) ==
    /\ t \in Tokens \ issued
    /\ issued' = issued \cup {t}
    /\ present' = present \cup {t}
    /\ family' = [family EXCEPT ![t] = f]
    /\ expires' = [expires EXCEPT ![t] = Expiry(n)]
    /\ revokedAt' = [R EXCEPT ![t] = Never]

LoginInsert(r) ==
    /\ pc[r] = "login"
    /\ \E t \in Tokens : InsertRow(t, t, clock, revokedAt)
    /\ Return(r)
    /\ UNCHANGED <<clock, userVars, replacedBy, parent>>

-----------------------------------------------------------------------------
(* Refresh: one transaction that holds the presented row's lock from its   *)
(* first statement.  An unknown token returns without a write.             *)

RefreshLock_NoForUpdate(r, t) ==
    /\ pc[r] = "idle"
    /\ t \in present
    /\ Live(t) => RoomForRow
    /\ Locals(r, "locked", "none", t, clock, {}, {})
    /\ UNCHANGED <<clock, userVars, tableVars, lock, parent>>

RefreshLock(r, t) ==
    /\ pc[r] = "idle"
    /\ t \in present
    /\ lock[t] = Nobody
    /\ Live(t) => RoomForRow
    /\ lock' = [lock EXCEPT ![t] = r]
    /\ Locals(r, "locked", "none", t, clock, {}, {})
    /\ UNCHANGED <<clock, userVars, tableVars, parent>>

FamilyRows_Unexpired(f) == {t \in present : family[t] = f /\ expires[t] > clock}

FamilyRows(f) == {t \in present : family[t] = f}

\* The token was revoked before: select the family's rows FOR UPDATE ...
ReuseSelect(r) ==
    /\ pc[r] = "locked"
    /\ revokedAt[tok[r]] # Never
    /\ Locals(r, "reuse", "none", tok[r], now[r], FamilyRows(family[tok[r]]), {})
    /\ UNCHANGED <<clock, userVars, tableVars, lock, parent>>

\* ... and, once every lock is granted, revoke them and commit.
ReuseCommit(r) ==
    /\ pc[r] = "reuse"
    /\ Waiting(r) = {}
    /\ revokedAt' = [t \in Tokens |->
                        IF t \in Needs(r) /\ revokedAt[t] = Never THEN clock ELSE revokedAt[t]]
    /\ Return(r)
    /\ UNCHANGED <<clock, userVars, issued, present, family, expires, replacedBy, parent>>

Expired(t, n) == expires[t] <= n

RefreshExpired(r) ==
    /\ pc[r] = "locked"
    /\ revokedAt[tok[r]] = Never
    /\ Expired(tok[r], now[r])
    /\ revokedAt' = [revokedAt EXCEPT ![tok[r]] = clock]
    /\ replacedBy' = [replacedBy EXCEPT ![tok[r]] = NoToken]
    /\ Return(r)
    /\ UNCHANGED <<clock, userVars, issued, present, family, expires, parent>>

Rotatable(r) ==
    /\ pc[r] = "locked"
    /\ revokedAt[tok[r]] = Never
    /\ ~Expired(tok[r], now[r])

RefreshRefused_KeepsLock(r) ==
    /\ Rotatable(r)
    /\ ~MayHoldSession
    /\ Locals(r, "idle", "none", NoToken, 0, {}, {})
    /\ UNCHANGED <<clock, userVars, tableVars, lock, parent>>

\* The early returns on a missing or inactive user leave the with-block.
RefreshRefused(r) ==
    /\ Rotatable(r)
    /\ ~MayHoldSession
    /\ Return(r)
    /\ UNCHANGED <<clock, userVars, tableVars, parent>>

\* The account is read on a session of its own.
RefreshReadUser(r) ==
    /\ Rotatable(r)
    /\ MayHoldSession
    /\ Locals(r, "rotating", "none", tok[r], now[r], {}, {})
    /\ UNCHANGED <<clock, userVars, tableVars, lock, parent>>

Exchanged(t) == [revokedAt EXCEPT ![t] = IF @ = Never THEN clock ELSE @]

\* The replacement and the revocation of the presented token commit together.
RotateCommit(r) ==
    /\ pc[r] = "rotating"
    /\ \E t \in Tokens :
          /\ InsertRow(t, family[tok[r]], now[r], Exchanged(tok[r]))
          /\ replacedBy' = [replacedBy EXCEPT ![tok[r]] = t]
          /\ parent' = [parent EXCEPT ![t] = tok[r]]
    /\ Return(r)
    /\ UNCHANGED <<clock, userVars>>

-----------------------------------------------------------------------------
(* Logout: the row is read, then loaded again and written by another       *)
(* transaction that takes no lock before its UPDATE.                       *)

LogoutRead(r, t) ==
    /\ pc[r] = "idle"
    /\ Live(t)
    /\ Locals(r, "logout", "none", t, 0, {}, {})
    /\ UNCHANGED <<clock, userVars, tableVars, lock, parent>>

\* A flush writes the attributes whose value changed since the load.
Dirtied(t) == {c \in Columns :
    \/ c = "revoked_at" /\ revokedAt[t] = Never
    \/ c = "replaced_by_token_id" /\ replacedBy[t] # NoToken}

LogoutLoad(r) ==
    /\ pc[r] = "logout"
    /\ tok[r] \in present
    /\ Locals(r, "loaded", "none", tok[r], clock, {}, Dirtied(tok[r]))
    /\ UNCHANGED <<clock, userVars, tableVars, lock, parent>>

LogoutCommit(r) ==
    /\ pc[r] = "loaded"
    /\ tok[r] \in present
    /\ dirty[r] = {} \/ lock[tok[r]] = Nobody
    /\ revokedAt' = [revokedAt EXCEPT ![tok[r]] = IF "revoked_at" \in dirty[r] THEN now[r] ELSE @]
    /\ replacedBy' = [replacedBy EXCEPT ![tok[r]] =
                         IF "replaced_by_token_id" \in dirty[r] THEN NoToken ELSE @]
    /\ Return(r)
    /\ UNCHANGED <<clock, userVars, issued, present, family, expires, parent>>

\* The row is gone: nothing to revoke, or the flush matches no row and raises.
LogoutGone(r) ==
    /\ pc[r] \in {"logout", "loaded"}
    /\ tok[r] \notin present
    /\ Return(r)
    /\ UNCHANGED <<clock, userVars, tableVars, parent>>

-----------------------------------------------------------------------------
(* revoke_user_refresh_tokens: an unlocked SELECT of the unrevoked rows,   *)
(* then one UPDATE by primary key for each.  Logout-all is nothing else;   *)
(* a deactivation runs it first and clears is_active in a transaction of   *)
(* its own afterwards.                                                     *)

UnrevokedRows == {t \in present : Live(t)}

RevokeAllSelect(r, o) ==
    /\ pc[r] = "idle"
    /\ o = "deactivate" => ~erased
    /\ Locals(r, "revoking", o, NoToken, clock, UnrevokedRows, {})
    /\ UNCHANGED <<clock, userVars, tableVars, lock, parent>>

\* The UPDATE stamps the loaded objects, whatever their rows hold by then.
Stamped(r) == Needs(r)

RevokeAllWrites(r) ==
    /\ pc[r] = "revoking"
    /\ Waiting(r) = {} /\ want[r] \subseteq present
    /\ revokedAt' = [t \in Tokens |-> IF t \in Stamped(r) THEN now[r] ELSE revokedAt[t]]
    /\ Release(r)
    /\ UNCHANGED <<clock, userVars, issued, present, family, expires, replacedBy, parent>>

LogoutAllCommit(r) ==
    /\ op[r] = "logout_all"
    /\ RevokeAllWrites(r)
    /\ Locals(r, "idle", "none", NoToken, 0, {}, {})

DeactivateRevoked(r) ==
    /\ op[r] = "deactivate"
    /\ RevokeAllWrites(r)
    /\ Locals(r, "deactivating", "deactivate", NoToken, 0, {}, {})

\* A selected row was deleted meanwhile: the flush matches fewer rows and raises.
RevokeAllGone(r) ==
    /\ pc[r] = "revoking"
    /\ Waiting(r) = {} /\ ~(want[r] \subseteq present)
    /\ Return(r)
    /\ UNCHANGED <<clock, userVars, tableVars, parent>>

Deactivate(r) ==
    /\ pc[r] = "deactivating"
    /\ active' = FALSE
    /\ Return(r)
    /\ UNCHANGED <<clock, erased, tableVars, parent>>

-----------------------------------------------------------------------------
(* Deletions: the erasure of the account and the batches of the sweep.     *)

Unlinked_Dangling(T) == replacedBy

\* replaced_by_token_id after the rows T are gone: ON DELETE SET NULL.
Unlinked(T) == [t \in Tokens |-> IF replacedBy[t] \in T THEN NoToken ELSE replacedBy[t]]

\* The columns of a row that is gone are those of Init.
DeleteRows(T) ==
    /\ present' = present \ T
    /\ replacedBy' = [t \in Tokens |-> IF t \in T THEN NoToken ELSE Unlinked(T)[t]]
    /\ expires' = [t \in Tokens |-> IF t \in T THEN 0 ELSE expires[t]]
    /\ revokedAt' = [t \in Tokens |-> IF t \in T THEN Never ELSE revokedAt[t]]

\* DELETE FROM refresh_tokens WHERE user_id = :uid, on the erasure's transaction.
ErasedRows == present

EraseSelect(r) ==
    /\ pc[r] = "idle"
    /\ ~erased
    /\ Locals(r, "erasing", "none", NoToken, 0, ErasedRows, {})
    /\ UNCHANGED <<clock, userVars, tableVars, lock, parent>>

EraseCommit(r) ==
    /\ pc[r] = "erasing"
    /\ Waiting(r) = {}
    /\ DeleteRows(want[r])
    /\ erased' = TRUE
    /\ active' = FALSE
    /\ Return(r)
    /\ UNCHANGED <<clock, issued, family, parent>>

\* The cutoff is taken once, before the first batch.
PurgeStart(r) ==
    /\ pc[r] = "idle"
    /\ Locals(r, "purging", "none", NoToken, clock, {}, {})
    /\ UNCHANGED <<clock, userVars, tableVars, lock, parent>>

Purgeable_AtCutoff(n) == {t \in present :
    \/ expires[t] <= n - Retention
    \/ revokedAt[t] # Never /\ revokedAt[t] <= n - Retention}

Purgeable(n) == {t \in present :
    \/ expires[t] < n - Retention
    \/ revokedAt[t] # Never /\ revokedAt[t] < n - Retention}

Lesser(a, b) == IF a <= b THEN a ELSE b

PurgeSelect(r) ==
    /\ pc[r] = "purging"
    /\ Purgeable(now[r]) # {}
    /\ \E S \in SUBSET Purgeable(now[r]) :
          /\ Cardinality(S) = Lesser(PurgeBatch, Cardinality(Purgeable(now[r])))
          /\ Locals(r, "deleting", "none", NoToken, now[r], S, {})
    /\ UNCHANGED <<clock, userVars, tableVars, lock, parent>>

PurgeCommit(r) ==
    /\ pc[r] = "deleting"
    /\ Waiting(r) = {}
    /\ DeleteRows(want[r])
    /\ Release(r)
    /\ Locals(r, "purging", "none", NoToken, now[r], {}, {})
    /\ UNCHANGED <<clock, userVars, issued, family, parent>>

PurgeDone(r) ==
    /\ pc[r] = "purging"
    /\ Purgeable(now[r]) = {}
    /\ Return(r)
    /\ UNCHANGED <<clock, userVars, tableVars, parent>>

-----------------------------------------------------------------------------

Tick ==
    /\ clock < MaxTime
    /\ clock' = clock + 1
    /\ UNCHANGED <<userVars, tableVars, lock, requestVars, parent>>

\* What a request that has started does next.
Progress(r) ==
    \/ Acquire(r)
    \/ LoginInsert(r)
    \/ ReuseSelect(r) \/ ReuseCommit(r)
    \/ RefreshExpired(r) \/ RefreshRefused(r) \/ RefreshReadUser(r) \/ RotateCommit(r)
    \/ LogoutLoad(r) \/ LogoutCommit(r) \/ LogoutGone(r)
    \/ LogoutAllCommit(r) \/ DeactivateRevoked(r) \/ RevokeAllGone(r) \/ Deactivate(r)
    \/ EraseCommit(r)
    \/ PurgeSelect(r) \/ PurgeCommit(r) \/ PurgeDone(r)

Arrive(r) ==
    \/ LoginCheck(r)
    \/ \E t \in Tokens : RefreshLock(r, t) \/ LogoutRead(r, t)
    \/ \E o \in {"logout_all", "deactivate"} : RevokeAllSelect(r, o)
    \/ EraseSelect(r)
    \/ PurgeStart(r)

Next ==
    \/ Tick
    \/ \E r \in Requests : Arrive(r) \/ Progress(r) \/ Abort(r) \/ DeadlockVictim(r)

Spec == Init /\ [][Next]_vars

\* A started request runs on, PostgreSQL hands a row lock to its waiters in
\* turn (hence strong fairness) and breaks wait cycles.  Nothing is assumed of
\* arrivals, crashes or the clock.
Fairness == \A r \in Requests : SF_vars(Progress(r)) /\ WF_vars(DeadlockVictim(r))

FairSpec == Spec /\ Fairness

-----------------------------------------------------------------------------
(* Properties.                                                             *)

\* The state is well formed: columns and local state have their types, and
\* only issued rows are in the table.
TypeOK ==
    /\ clock \in Time
    /\ active \in BOOLEAN /\ erased \in BOOLEAN
    /\ issued \subseteq Tokens /\ present \subseteq issued
    /\ family \in [Tokens -> Tokens]
    /\ expires \in [Tokens -> 0..(MaxTime + Lifetime)]
    /\ revokedAt \in [Tokens -> Time \cup {Never}]
    /\ replacedBy \in [Tokens -> Tokens \cup {NoToken}]
    /\ lock \in [Tokens -> Requests \cup {Nobody}]
    /\ pc \in [Requests -> Steps]
    /\ op \in [Requests -> Ops]
    /\ tok \in [Requests -> Tokens \cup {NoToken}]
    /\ now \in [Requests -> Time]
    /\ want \in [Requests -> SUBSET Tokens]
    /\ dirty \in [Requests -> SUBSET Columns]
    /\ parent \in [Tokens -> Tokens \cup {NoToken}]

\* However refreshes, logouts and sweeps interleave, a login session has at
\* most one unrevoked refresh token: RotateRefreshToken swaps it under the
\* row lock of get_refresh_token_for_update.
OneLivePerFamily ==
    \A t, u \in Tokens : Live(t) /\ Live(u) /\ family[t] = family[u] => t = u

\* A refresh token is exchanged at most once, for one replacement, also when
\* two requests present it at the same time.
ExchangedOnce ==
    \A t, u \in Tokens : parent[t] # NoToken /\ parent[t] = parent[u] => t = u

\* A stored replaced_by_token_id points at a row of the same family that is
\* still in the table, from a row that is revoked, and it is the row that
\* rotation created.
LinksSound ==
    \A t \in present : replacedBy[t] # NoToken =>
        /\ replacedBy[t] \in present
        /\ family[replacedBy[t]] = family[t]
        /\ parent[replacedBy[t]] = t
        /\ revokedAt[t] # Never

\* The sweep (PurgeExpiredTokens) removes a row only when it has been expired
\* or revoked for longer than the retention window, so a recently revoked
\* token is still there for reuse detection to recognise.
PurgeKeepsRecent == [][
    \A t \in present \ present' :
        \/ erased'
        \/ expires[t] + Retention < clock
        \/ revokedAt[t] # Never /\ revokedAt[t] + Retention < clock]_vars

\* A session as SessionContract sees it; only the token a login inserted
\* names a family.
SessionStatus == [f \in Tokens |->
    IF f \notin issued \/ family[f] # f THEN "unopened"
    ELSE IF \E t \in Tokens : Live(t) /\ family[t] = f THEN "live" ELSE "ended"]

Contract == INSTANCE SessionContract WITH Families <- Tokens, status <- SessionStatus

\* The table implements the contract: a family that was revoked, by logout,
\* reuse detection, logout-all or deletion, never holds an unrevoked token
\* again, whatever rotation was in flight.
SessionLifecycle == Contract!Spec

\* No request waits for ever: row locks are released on every path out of a
\* transaction, and a wait cycle between two family revocations is broken.
RequestsReturn == \A r \in Requests : pc[r] # "idle" ~> pc[r] = "idle"

\* When a revocation commits, what it set out to end is over: reuse detection
\* leaves no token of the family unrevoked, and logout-all (or a deactivation, or
\* a password reset, which revoke in the same way) no token of a session it
\* selected.
RevocationComplete == [][
    \A r \in Requests :
        /\ ReuseCommit(r) =>
               \A t \in present' : family[t] = family[tok[r]] => revokedAt'[t] # Never
        /\ RevokeAllWrites(r) =>
               \A t \in present', u \in want[r] : family[t] = family[u] => revokedAt'[t] # Never]_vars

\* A deactivated account has no live refresh token, because DeactivateUser
\* revokes them before is_active goes and neither login nor refresh makes new
\* ones, and the erasure of an account leaves no refresh-token row behind.
NoSessionLeft ==
    /\ ~active /\ ~erased => \A t \in present : ~Live(t)
    /\ erased => present = {}

\* replaced_by_token_id links every rotated row to its replacement for as
\* long as both rows are kept.
ChainUnbroken ==
    \A t \in present : parent[t] \in present => replacedBy[parent[t]] = t
=============================================================================
