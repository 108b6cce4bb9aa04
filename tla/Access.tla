------------------------------- MODULE Access -------------------------------
(***************************************************************************)
(* How a change of a user reaches the requests that user sends: JWT access *)
(* tokens that carry users.authz_version, the operations that bump it, the *)
(* cache of resolved principals with its user index, and the resolution of *)
(* a bearer token, run by concurrent processes.                            *)
(*                                                                         *)
(* A writing operation is two steps at least, the SELECT of session.get    *)
(* and the UPDATE at the flush before the commit: the ORM increments the   *)
(* version in Python and writes the number back, and READ COMMITTED lets   *)
(* another transaction commit in between.  An UPDATE writes only the       *)
(* columns that changed.  Time passes in ticks; everything that expires    *)
(* carries the ticks it has left.  A principal is the row it was built     *)
(* from.  The refresh tokens these operations also revoke are the subject  *)
(* of Sessions, the internal tokens that authorise them of Accounts.       *)
(***************************************************************************)
EXTENDS Naturals, FiniteSets

CONSTANTS
    Users,     \* ids of the users table
    Tokens,    \* jti claims, never reused
    Procs,     \* concurrent requests, job runs and process starts
    Ttl,       \* auth_principal_cache_ttl_seconds, in ticks
    Lifetime,  \* access token lifetime plus leeway, in ticks
    MaxSize,   \* maxsize of the in-process cache
    Changes,   \* bound: the operations on users that may begin
    NoUser,    \* None where a user is expected
    NoToken    \* None where a token is expected

ASSUME AccessAssumption ==
    /\ NoUser \notin Users
    /\ NoToken \notin Tokens
    /\ Ttl \in Nat \ {0}
    /\ Lifetime \in Nat \ {0}
    /\ MaxSize \in Nat \ {0}
    /\ Changes \in Nat

VARIABLES
    kind,    \* which cache the settings selected: memory or redis
    left,    \* how many operations on users may still begin
    users,   \* rows of the users table
    admins,  \* subjects of the tuple system:main#admin
    jwts,    \* the tokens handed out
    cache,   \* principals by jti
    index,   \* jtis by user: _user_index, or the sets auth:user_tokens
    procs,   \* what each process is doing
    dirty,   \* users changed since their last invalidation and not to be invalidated
    grace,   \* ticks for which a cached principal may still be outdated
    lost     \* users on whose row an increment was written from an old read

data == <<users, admins, jwts>>
caching == <<cache, index>>
marks == <<dirty, grace, lost>>
vars == <<kind, left, data, caching, procs, marks>>

Writes == {"grant", "revoke", "reset", "deactivate", "erase", "verify", "email"}
Bumping == {"grant", "revoke", "reset", "deactivate", "erase"}
Invalidating == {"grant", "reset", "verify"}
Ops == Writes \cup {"none", "issue", "resolve", "logout_all"}
Places == {"idle", "minting", "reading", "putting", "inserting", "opening", "writing",
           "clearing", "dropping"}

Rows == [ver : Nat \ {0}, active : BOOLEAN, erased : BOOLEAN, verified : BOOLEAN,
         email : {"own", "new", "erased"}]

NewRow == [ver |-> 1, active |-> TRUE, erased |-> FALSE, verified |-> FALSE,
           email |-> "own"]

Unissued == [user |-> NoUser, ver |-> 1, life |-> 0, outlived |-> FALSE]
NoEntry == [user |-> NoUser, row |-> NewRow, ttl |-> 0, mark |-> "none"]
Idle == [at |-> "idle", op |-> "none", user |-> NoUser, token |-> NoToken,
         row |-> NewRow, flag |-> FALSE, doomed |-> {}]

Init ==
    /\ kind \in {"memory", "redis"}
    /\ left = Changes
    /\ users = [u \in Users |-> NewRow]
    /\ admins = {}
    /\ jwts = [t \in Tokens |-> Unissued]
    /\ cache = [t \in Tokens |-> NoEntry]
    /\ index = [u \in Users |-> [tokens |-> {}, ttl |-> 0]]
    /\ procs = [p \in Procs |-> Idle]
    /\ dirty = [u \in Users |-> FALSE]
    /\ grace = [u \in Users |-> 0]
    /\ lost = [u \in Users |-> FALSE]

Issued(t) == jwts[t].user # NoUser
Cached(t) == cache[t].user # NoUser
Visible(u) == ~users[u].erased

Go(p, rec) == procs' = [procs EXCEPT ![p] = rec]
Return(p) == Go(p, Idle)

-----------------------------------------------------------------------------
(* Access tokens *)

\* login and refresh read the row of an active user and mint from that copy
IssueRead(p, u) ==
    /\ procs[p].at = "idle"
    /\ Visible(u) /\ users[u].active
    /\ Go(p, [Idle EXCEPT !.at = "minting", !.op = "issue", !.user = u, !.row = users[u]])
    /\ UNCHANGED <<kind, left, data, caching, marks>>

Issue(p, t) ==
    /\ procs[p].at = "minting"
    /\ ~Issued(t)
    /\ LET u == procs[p].user
           v == procs[p].row.ver
       IN  jwts' = [jwts EXCEPT ![t] = [user |-> u, ver |-> v, life |-> Lifetime,
                                        outlived |-> v # users[u].ver]]
    /\ Return(p)
    /\ UNCHANGED <<kind, left, users, admins, caching, marks>>

\* decode: signature and claims are right, and the token has not expired
Decodes(t) == Issued(t) /\ jwts[t].life > 0

-----------------------------------------------------------------------------
(* The principal cache *)

\* reading an entry leaves it as it is; a lookup does not renew it
AfterGet_Renewed(t) == [cache EXCEPT ![t].ttl = Ttl]

AfterGet(t) == cache

\* the entries that leave a full in-process cache when a new jti comes in
Evicted(t) ==
    LET held == {x \in Tokens : Cached(x)}
    IN  IF kind = "memory" /\ t \notin held /\ Cardinality(held) >= MaxSize
        THEN {{x} : x \in held} ELSE {{}}

SetIndex(t, u) ==
    [index EXCEPT ![u] = [tokens |-> @.tokens \cup {t},
                          ttl |-> IF kind = "memory" THEN 0 ELSE Ttl]]

Without(S) == [t \in Tokens |-> IF t \in S THEN NoEntry ELSE cache[t]]

-----------------------------------------------------------------------------
(* Resolving a bearer token *)

ResolveHit(p, t) ==
    /\ procs[p].at = "idle"
    /\ Decodes(t) /\ Cached(t)
    /\ cache' = AfterGet(t)
    /\ UNCHANGED <<kind, left, data, index, procs, marks>>

ResolveMiss(p, t) ==
    /\ procs[p].at = "idle"
    /\ Decodes(t) /\ ~Cached(t)
    /\ Go(p, [Idle EXCEPT !.at = "reading", !.op = "resolve", !.user = jwts[t].user,
                          !.token = t])
    /\ UNCHANGED <<kind, left, data, caching, marks>>

VersionMatches(t, row) == jwts[t].ver = row.ver

\* get_by_id: no row, an inactive one or another version refuse the token,
\* and a stale token's entry is dropped
ResolveRead(p) ==
    LET t == procs[p].token
        u == procs[p].user
    IN  /\ procs[p].at = "reading"
        /\ IF ~Visible(u) \/ ~users[u].active
           THEN Return(p) /\ UNCHANGED cache
           ELSE IF ~VersionMatches(t, users[u])
           THEN Return(p) /\ cache' = Without({t})
           ELSE /\ Go(p, [procs[p] EXCEPT !.at = "putting", !.row = users[u]])
                /\ UNCHANGED cache
        /\ UNCHANGED <<kind, left, data, index, marks>>

ResolvePut(p) ==
    LET t == procs[p].token
        u == procs[p].user
        late == procs[p].row # users[u]
    IN  /\ procs[p].at = "putting"
        /\ \E out \in Evicted(t) :
              cache' = [Without(out) EXCEPT
                           ![t] = [user |-> u, row |-> procs[p].row, ttl |-> Ttl,
                                   mark |-> IF late THEN "late" ELSE "none"]]
        /\ index' = SetIndex(t, u)
        /\ grace' = [grace EXCEPT ![u] = IF late THEN Ttl ELSE @]
        /\ Return(p)
        /\ UNCHANGED <<kind, left, data, dirty, lost>>

-----------------------------------------------------------------------------
(* invalidate_user *)

Doomed(u) == index[u].tokens

AfterClearing(p) ==
    IF procs[p].op = "deactivate"
    THEN [procs[p] EXCEPT !.at = "opening", !.doomed = {}]
    ELSE Idle

\* the in-process cache does it all under its lock; with Redis the set is
\* read and deleted in one pipeline, its principals in a call of their own
Clear(p) ==
    LET u == procs[p].user
    IN  /\ procs[p].at = "clearing"
        /\ index' = [index EXCEPT ![u] = [tokens |-> {}, ttl |-> 0]]
        /\ dirty' = [dirty EXCEPT ![u] = FALSE]
        /\ IF kind = "memory" \/ Doomed(u) = {}
           THEN cache' = Without(Doomed(u)) /\ Go(p, AfterClearing(p))
           ELSE /\ Go(p, [procs[p] EXCEPT !.at = "dropping", !.doomed = Doomed(u)])
                /\ UNCHANGED cache
        /\ UNCHANGED <<kind, left, data, grace, lost>>

Drop(p) ==
    /\ procs[p].at = "dropping"
    /\ cache' = Without(procs[p].doomed)
    /\ Go(p, AfterClearing(p))
    /\ UNCHANGED <<kind, left, data, index, marks>>

\* Redis fails: the operation ends with the exception, or with the warning
\* that the bootstrap's grant logs; what was committed stays
ClearFails(p) ==
    /\ kind = "redis"
    /\ procs[p].at \in {"clearing", "dropping"}
    /\ cache' = [t \in Tokens |-> IF t \in procs[p].doomed /\ Cached(t)
                                  THEN [cache[t] EXCEPT !.mark = "orphan"]
                                  ELSE cache[t]]
    /\ dirty' = [dirty EXCEPT ![procs[p].user] = TRUE]
    /\ Return(p)
    /\ UNCHANGED <<kind, left, data, index, grace, lost>>

-----------------------------------------------------------------------------
(* Operations on users *)

\* LogoutAllSessions, and DeactivateUser, which calls it before its own write
LogoutAll(p, u, op) ==
    /\ procs[p].at = "idle"
    /\ left > 0
    /\ left' = left - 1
    /\ op = "deactivate" => Visible(u)
    /\ Go(p, [Idle EXCEPT !.at = "clearing", !.op = op, !.user = u])
    /\ UNCHANGED <<kind, data, caching, marks>>

\* the transaction reads the row it is going to update; flag says that its
\* own statements found nothing to insert or delete in relationships
Reads(op, u, flag) ==
    [Idle EXCEPT !.at = "writing", !.op = op, !.user = u, !.row = users[u], !.flag = flag]

\* another transaction has inserted or deleted the tuple and not ended
TupleHeld(u) ==
    \E q \in Procs : procs[q].at = "writing" /\ procs[q].op \in {"grant", "revoke"}
                     /\ procs[q].user = u /\ ~procs[q].flag

\* set_active_atomically_with
DeactivateRead(p) ==
    /\ procs[p].at = "opening"
    /\ Go(p, Reads("deactivate", procs[p].user, FALSE))
    /\ UNCHANGED <<kind, left, data, caching, marks>>

\* confirm reset or verification, erasure, change of address, delete_relationships
BeginWrite(p, u, op) ==
    /\ procs[p].at = "idle"
    /\ left > 0
    /\ left' = left - 1
    /\ op \in {"erase", "email"} => Visible(u)
    /\ op = "verify" => ~users[u].verified
    /\ op = "revoke" /\ u \in admins => ~TupleHeld(u)
    /\ Go(p, Reads(op, u, op = "revoke" /\ u \notin admins))
    /\ UNCHANGED <<kind, data, caching, marks>>

\* write_relationships: the existence check of the tuple
GrantCheck(p, u) ==
    /\ procs[p].at = "idle"
    /\ left > 0
    /\ left' = left - 1
    /\ Go(p, [Idle EXCEPT !.at = "inserting", !.op = "grant", !.user = u,
                          !.flag = u \in admins])
    /\ UNCHANGED <<kind, data, caching, marks>>

\* the INSERT waits for that transaction; the unique constraint refuses a
\* tuple that is there by now and the whole call rolls back
GrantInsert(p) ==
    LET u == procs[p].user
    IN  /\ procs[p].at = "inserting"
        /\ procs[p].flag \/ ~TupleHeld(u)
        /\ IF ~procs[p].flag /\ u \in admins
           THEN Return(p)
           ELSE Go(p, Reads("grant", u, procs[p].flag))
        /\ UNCHANGED <<kind, left, data, caching, marks>>

Bump_Missing(row, seen, op) ==
    IF op \in {"grant", "reset", "erase"} THEN [row EXCEPT !.ver = seen.ver + 1] ELSE row

\* authz_version += 1 on the copy that was read
Bump(row, seen, op) ==
    IF op \in Bumping THEN [row EXCEPT !.ver = seen.ver + 1] ELSE row

Deactivated(row) == [row EXCEPT !.active = FALSE]

Scrubbed(row) == [row EXCEPT !.active = FALSE, !.erased = TRUE, !.email = "erased"]

Verified(row) == [row EXCEPT !.verified = TRUE]

Readdressed(row) == [row EXCEPT !.email = "new"]

Columns(row, op) ==
    CASE op = "deactivate" -> Deactivated(row)
      [] op = "erase" -> Scrubbed(row)
      [] op = "verify" -> Verified(row)
      [] op = "email" -> Readdressed(row)
      [] OTHER -> row

Tuples(u, op, flag) ==
    CASE op = "grant" /\ ~flag -> admins \cup {u}
      [] op = "revoke" /\ ~flag -> admins \ {u}
      [] OTHER -> admins

\* grant, reset and verify invalidate after the commit; the others do not
AfterCommit_Never(p) == Idle

AfterCommit(p) ==
    IF procs[p].op \in Invalidating
    THEN [Idle EXCEPT !.at = "clearing", !.op = procs[p].op, !.user = procs[p].user]
    ELSE Idle

Commit(p) ==
    LET u == procs[p].user
        op == procs[p].op
    IN  /\ procs[p].at = "writing"
        /\ users' = [users EXCEPT ![u] = Bump(Columns(@, op), procs[p].row, op)]
        /\ admins' = Tuples(u, op, procs[p].flag)
        /\ jwts' = [t \in Tokens |->
                       IF op \in Bumping /\ jwts[t].user = u
                       THEN [jwts[t] EXCEPT !.outlived = TRUE] ELSE jwts[t]]
        /\ dirty' = [dirty EXCEPT ![u] = @ \/ op \notin Invalidating]
        /\ grace' = [grace EXCEPT ![u] = Ttl]
        /\ lost' = [lost EXCEPT ![u] = @ \/ (op \in Bumping
                                             /\ procs[p].row.ver # users[u].ver)]
        /\ Go(p, AfterCommit(p))
        /\ UNCHANGED <<kind, left, caching>>

\* the transaction fails or its process dies: PostgreSQL rolls it back
Rollback(p) ==
    /\ procs[p].at \in {"inserting", "writing", "opening"}
    /\ Return(p)
    /\ UNCHANGED <<kind, left, data, caching, marks>>

-----------------------------------------------------------------------------
Less(n) == IF n > 0 THEN n - 1 ELSE 0

\* an entry is served while its time has not come
Aged(e) == IF e.ttl > 1 THEN [e EXCEPT !.ttl = @ - 1] ELSE NoEntry

AgedIndex(x) ==
    IF kind = "memory" THEN x
    ELSE IF x.ttl > 1 THEN [x EXCEPT !.ttl = @ - 1] ELSE [tokens |-> {}, ttl |-> 0]

Tick ==
    /\ jwts' = [t \in Tokens |-> [jwts[t] EXCEPT !.life = Less(@)]]
    /\ cache' = [t \in Tokens |-> Aged(cache[t])]
    /\ index' = [u \in Users |-> AgedIndex(index[u])]
    /\ grace' = [u \in Users |-> Less(grace[u])]
    /\ UNCHANGED <<kind, left, users, admins, procs, dirty, lost>>

Next ==
    \/ \E p \in Procs, u \in Users :
          \/ IssueRead(p, u)
          \/ GrantCheck(p, u)
          \/ \E op \in {"logout_all", "deactivate"} : LogoutAll(p, u, op)
          \/ \E op \in {"revoke", "reset", "erase", "verify", "email"} : BeginWrite(p, u, op)
    \/ \E p \in Procs, t \in Tokens :
          Issue(p, t) \/ ResolveHit(p, t) \/ ResolveMiss(p, t)
    \/ \E p \in Procs :
          \/ ResolveRead(p) \/ ResolvePut(p)
          \/ Clear(p) \/ Drop(p) \/ ClearFails(p)
          \/ DeactivateRead(p) \/ GrantInsert(p) \/ Commit(p) \/ Rollback(p)
    \/ Tick

Spec == Init /\ [][Next]_vars

-----------------------------------------------------------------------------
(* Properties *)

TypeOK ==
    /\ kind \in {"memory", "redis"}
    /\ left \in 0..Changes
    /\ users \in [Users -> Rows]
    /\ admins \in SUBSET Users
    /\ jwts \in [Tokens -> [user : Users \cup {NoUser}, ver : Nat \ {0},
                            life : 0..Lifetime, outlived : BOOLEAN]]
    /\ cache \in [Tokens -> [user : Users \cup {NoUser}, row : Rows, ttl : 0..Ttl,
                             mark : {"none", "late", "orphan"}]]
    /\ index \in [Users -> [tokens : SUBSET Tokens, ttl : 0..Ttl]]
    /\ procs \in [Procs -> [at : Places, op : Ops, user : Users \cup {NoUser},
                            token : Tokens \cup {NoToken}, row : Rows, flag : BOOLEAN,
                            doomed : SUBSET Tokens]]
    /\ dirty \in [Users -> BOOLEAN]
    /\ grace \in [Users -> 0..Ttl]
    /\ lost \in [Users -> BOOLEAN]

\* A cached principal belongs to the token it is stored under: same user, the
\* version the token carries, and an account that could use it.  execute stores
\* nothing for a token it refuses (resolve_principal.py 58-74).
EntryMatchesToken ==
    \A t \in Tokens : Cached(t) =>
        /\ Issued(t)
        /\ cache[t].user = jwts[t].user
        /\ cache[t].row.ver = jwts[t].ver
        /\ cache[t].row.active /\ ~cache[t].row.erased

Dropping(t) == \E p \in Procs : procs[p].at = "dropping" /\ t \in procs[p].doomed

Clearing(u) == \E p \in Procs : procs[p].at = "clearing" /\ procs[p].user = u

\* invalidate_user reaches every cached principal of its user: each is in the
\* user's index, or in the set a running invalidation is about to delete, or was
\* left behind by one that failed between its two Redis calls; an index that
\* expired before its entries would break it (cache.py 60-75, 131-153).  So when
\* a grant, a reset or a verification has returned, no cached principal from
\* before its commit is left, unless a resolution that had read the old row
\* stored it afterwards: any other outdated entry is about to be cleared, or its
\* user was since changed by an operation that does not invalidate (deactivation,
\* erasure, delete_relationships, a new address) or whose invalidation failed.
InvalidateEvicts ==
    \A t \in Tokens : Cached(t) =>
        /\ t \in index[cache[t].user].tokens \/ Dropping(t) \/ cache[t].mark = "orphan"
        /\ cache[t].mark = "none" /\ cache[t].row # users[cache[t].user] =>
               dirty[cache[t].user] \/ Clearing(cache[t].user) \/ Dropping(t)

\* What no operation invalidates (deactivation, erasure, a change of address,
\* a failed invalidation, a resolution that stored late) is still bounded: an
\* outdated principal is served for at most one TTL after the last change of its
\* user or, if later, after the last store by a resolution that overlapped it.
StaleBounded ==
    \A t \in Tokens :
        (Cached(t) /\ cache[t].row # users[cache[t].user])
            => cache[t].ttl <= grace[cache[t].user]

\* A token read from the row before a bump never matches the row after it: no
\* operation that must end the user's access tokens leaves one usable, as long
\* as no two bumps of that user overlap (jwt_tokens.py 70-71).
StaleTokensDie ==
    \A t \in Tokens :
        (Issued(t) /\ jwts[t].outlived /\ ~lost[jwts[t].user])
            => jwts[t].ver # users[jwts[t].user].ver

\* The same without the proviso, as the documentation of issue() has it: a
\* token issued before a relevant change is detected by its version.
OutlivedTokenDetected ==
    \A t \in Tokens :
        (Issued(t) /\ jwts[t].outlived) => jwts[t].ver # users[jwts[t].user].ver

\* A tuple and the bump of its subject commit together: whenever the tuples of a
\* user change, the version in the row changes in the same step, unless the
\* increment was computed from a version another transaction had replaced
\* (write_relationships 218-243, delete_relationships 254-278).
TupleWithBump ==
    [][\A u \in Users :
          ((u \in admins) # (u \in admins')) =>
              users'[u].ver # users[u].ver \/ lost'[u]]_vars
=============================================================================
