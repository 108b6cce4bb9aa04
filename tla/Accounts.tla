------------------------------ MODULE Accounts ------------------------------
(***************************************************************************)
(* The life of an account under one email address: registration, login,    *)
(* password reset and email verification by single-use internal tokens,    *)
(* the bootstrap of the system administrator (at every start of the web    *)
(* process and from the create-super-admin command), erasure and the purge *)
(* of internal tokens, run by concurrent processes against PostgreSQL.     *)
(*                                                                         *)
(* A process takes one step per database session or, inside a transaction, *)
(* per statement whose result a later statement depends on.  READ          *)
(* COMMITTED: what a transaction writes is visible when it commits, and a  *)
(* statement that needs a locked row waits.  A transaction whose last      *)
(* statements only write is one step: no other process can tell them       *)
(* apart.  Passwords are compared, never hashed: "boot" is the one the     *)
(* bootstrap settings hold.  authz_version, which the reset, the grant and *)
(* the erasure also bump, is the subject of Access.                        *)
(***************************************************************************)
EXTENDS Naturals, Sequences, FiniteSets

CONSTANTS
    Users,    \* ids of the users table, never reused
    Tokens,   \* ids of auth_internal_tokens, never reused
    Procs,    \* concurrent requests, job runs and process starts
    Arrivals, \* bound: the requests that arrive in one behaviour
    NoUser,   \* None where a user is expected
    NoToken,  \* None where a token is expected
    Nobody    \* no transaction holds the row lock

ASSUME AccountsAssumption ==
    /\ NoUser \notin Users
    /\ NoToken \notin Tokens
    /\ Nobody \notin Procs
    /\ Arrivals \in Nat

VARIABLES
    left,        \* how many requests may still arrive
    settings,    \* auth_bootstrap_promote_existing, auth_require_email_verification
    row,         \* users: none, live or erased
    verified,    \* users.is_verified
    password,    \* the argon2 row of credentials
    admin,       \* subjects of the tuple system:main#admin
    sessions,    \* live rows of refresh_tokens
    addresses,   \* users with an audit row that carries an IP address
    token,       \* auth_internal_tokens
    lock,        \* the transaction holding a token row's lock
    mail,        \* the send_email outbox row of a token: none, queued, sent, failed
    req,         \* what each process is doing
    history      \* facts about the past that only the properties read

vars == <<left, settings, row, verified, password, admin, sessions, addresses, token,
          lock, mail, req, history>>

Passwords == {"boot", "own"}
NoPassword == "none"
Purposes == {"password_reset", "email_verify"}
Steps == {"idle", "registering", "login", "verifying", "opening", "requesting",
          "issuing", "confirming", "erasing", "checking", "matching", "creating",
          "inserting", "initial", "granting", "tuple", "recording", "refused", "logged"}

Idle == [at |-> "idle", user |-> NoUser, tok |-> NoToken, purpose |-> "password_reset",
         pw |-> NoPassword, sees |-> {}, flag |-> FALSE, how |-> "none"]

Unissued == [here |-> FALSE, user |-> NoUser, purpose |-> "password_reset",
             used |-> "no", age |-> "valid"]

Init ==
    /\ left = Arrivals
    /\ settings \in [promote : BOOLEAN, requireVerified : BOOLEAN]
    /\ row = [u \in Users |-> "none"]
    /\ verified = [u \in Users |-> FALSE]
    /\ password = [u \in Users |-> NoPassword]
    /\ admin = {}
    /\ sessions = {}
    /\ addresses = {}
    /\ token = [t \in Tokens |-> Unissued]
    /\ lock = [t \in Tokens |-> Nobody]
    /\ mail = [t \in Tokens |-> "none"]
    /\ req = [p \in Procs |-> Idle]
    /\ history = [seen |-> [t \in Tokens |-> {}], uses |-> [t \in Tokens |-> <<>>],
                  born |-> [u \in Users |-> "none"], granted |-> [u \in Users |-> "none"],
                  erasures |-> [u \in Users |-> 0], overlapped |-> {}]

-----------------------------------------------------------------------------
(* What every process uses. *)

\* SQLModelUserRepository.get_by_email: the rows of the address, the erased ones left out
GetByEmail == {u \in Users : row[u] = "live"}

\* SQLModelUserRepository.get_by_id finds a row that is not erased
GetById(u) == row[u] = "live"

Go(p, step, changes) == req' = [req EXCEPT ![p] = [changes EXCEPT !.at = step]]

Release(p) == lock' = [t \in Tokens |-> IF lock[t] = p THEN Nobody ELSE lock[t]]
\* leaving a session scope: the locks go, the process forgets
Return(p) == req' = [req EXCEPT ![p] = Idle] /\ Release(p)

Begin(p, step, u) == req[p] = Idle /\ Go(p, step, [Idle EXCEPT !.user = u])

\* a row waits for the transaction of another process
Free(p, T) == \A t \in T : lock[t] \in {p, Nobody}

\* another registration holds the address in the unique index until it commits
Inserting(p) == \E q \in Procs \ {p} : req[q].at = "registering"

Fresh == {u \in Users : row[u] = "none" /\ \A p \in Procs : req[p].user # u}

tables == <<row, verified, password, admin, sessions, addresses, token, mail>>

\* an exception or a crash: the open transaction is rolled back, and what the
\* process had already committed stays
Abort(p) ==
    /\ req[p].at # "idle"
    /\ Return(p)
    /\ UNCHANGED <<settings, tables, history>>

-----------------------------------------------------------------------------
(* Registration: the user row, the credential and the audit event in one    *)
(* transaction.                                                             *)

\* create_user flushes the row: it waits for another insertion of the address,
\* and a committed one makes it an Err, after which nothing is written
RegisterInsert(p, pw) ==
    /\ req[p] = Idle
    /\ ~Inserting(p)
    /\ IF GetByEmail # {}
         THEN UNCHANGED req
         ELSE \E u \in Fresh : Go(p, "registering", [Idle EXCEPT !.user = u, !.pw = pw])
    /\ UNCHANGED <<settings, tables, lock, history>>

RegisterCommit(p) ==
    LET u == req[p].user IN
    /\ req[p].at = "registering"
    /\ row' = [row EXCEPT ![u] = "live"]
    /\ password' = [password EXCEPT ![u] = req[p].pw]
    /\ addresses' = addresses \cup {u}
    /\ history' = [history EXCEPT !.born[u] = "register"]
    /\ Return(p)
    /\ UNCHANGED <<settings, verified, admin, sessions, token, mail>>

-----------------------------------------------------------------------------
(* Login (LoginUser.execute).  The account, the credential, the refresh     *)
(* token and the audit event are four database sessions.                    *)

LoginRead(p, pw) ==
    /\ req[p] = Idle
    /\ \E u \in GetByEmail :
         Go(p, "login", [Idle EXCEPT !.user = u, !.pw = pw, !.flag = verified[u]])
    /\ UNCHANGED <<settings, tables, lock, history>>

\* the credential row as it is now, is_verified as LoginRead found it
LoginAllowed(p) ==
    /\ password[req[p].user] = req[p].pw
    /\ settings.requireVerified => req[p].flag

LoginVerify(p) ==
    /\ req[p].at = "login"
    /\ Go(p, IF LoginAllowed(p) THEN "opening" ELSE "logged", req[p])
    /\ UNCHANGED <<settings, tables, lock, history>>

\* create_refresh_token; late: the password it was opened with is already replaced
LoginOpen(p) ==
    LET u == req[p].user IN
    /\ req[p].at = "opening"
    /\ sessions' = sessions \cup
         {[user |-> u, pw |-> req[p].pw, late |-> password[u] # req[p].pw]}
    /\ Go(p, "logged", req[p])
    /\ UNCHANGED <<settings, row, verified, password, admin, addresses, token, mail,
                   lock, history>>

\* auth.login_succeeded or auth.login_failed, with the caller's address
LoginRecord(p) ==
    /\ req[p].at = "logged"
    /\ addresses' = addresses \cup {req[p].user}
    /\ Return(p)
    /\ UNCHANGED <<settings, row, verified, password, admin, sessions, token, mail,
                   history>>

-----------------------------------------------------------------------------
(* Internal tokens: request, mail, confirm.                                 *)

Pair(u, purpose) == {t \in Tokens :
    token[t].here /\ token[t].user = u /\ token[t].purpose = purpose}
Unused(T) == {t \in T : token[t].used = "no"}
\* bound: a request starts only when a token id is left for it
RoomForToken == Cardinality({p \in Procs : req[p].at \in {"requesting", "issuing"}})
                  < Cardinality({t \in Tokens : token[t] = Unissued})

\* the account is read before issue_internal_token_transaction opens
IssueFor(p, u, purpose) ==
    /\ req[p] = Idle
    /\ RoomForToken
    /\ Go(p, "requesting", [Idle EXCEPT !.user = u, !.purpose = purpose])
    /\ UNCHANGED <<settings, tables, lock, history>>

\* an unknown address writes nothing and answers like a known one
RequestPasswordReset(p) == \E u \in GetByEmail : IssueFor(p, u, "password_reset")

\* the caller's id may be of an account erased since; then nothing is written
RequestEmailVerification(p, u) == GetById(u) /\ IssueFor(p, u, "email_verify")

Invalidated_OtherPurpose(u, purpose) == UNION {Pair(u, q) : q \in Purposes \ {purpose}}
\* the rows the UPDATE of invalidate_unused_tokens_for selects
Invalidated(u, purpose) == Pair(u, purpose)

IssueInvalidate(p) ==
    LET T == Invalidated(req[p].user, req[p].purpose) IN
    /\ req[p].at = "requesting"
    /\ Free(p, Unused(T))
    /\ lock' = [t \in Tokens |-> IF t \in Unused(T) THEN p ELSE lock[t]]
    /\ Go(p, "issuing", [req[p] EXCEPT !.sees = Pair(req[p].user, req[p].purpose)])
    /\ UNCHANGED <<settings, tables, history>>

\* the token, the audit event with the caller's address and the send_email row
\* commit together with the invalidation
IssueCommit(p) ==
    LET r == req[p] IN
    /\ r.at = "issuing"
    /\ \E t \in Tokens :
         /\ token[t] = Unissued
         /\ token' = [s \in Tokens |->
              CASE s = t -> [Unissued EXCEPT !.here = TRUE, !.user = r.user,
                                             !.purpose = r.purpose]
                [] lock[s] = p -> [token[s] EXCEPT !.used = "yes"]
                [] OTHER -> token[s]]
         /\ mail' = [mail EXCEPT ![t] = "queued"]
         /\ history' = [history EXCEPT !.seen[t] = r.sees]
    /\ addresses' = addresses \cup {r.user}
    /\ Return(p)
    /\ UNCHANGED <<settings, row, verified, password, admin, sessions>>

Template(purpose) == IF purpose = "password_reset" THEN "authentication/password_reset"
                                                   ELSE "authentication/verify_email"

\* register_authentication_email_templates, and the variables each text names
TemplateVariables == [
    name \in {"authentication/password_reset", "authentication/verify_email"} |->
      {"app_name", "email", "expires_in_minutes",
       IF name = "authentication/password_reset" THEN "reset_url" ELSE "verify_url"}]

\* the context the request handlers put in the payload
Context(purpose) == {"app_name", "email", "expires_in_minutes",
    IF purpose = "password_reset" THEN "reset_url" ELSE "verify_url"}

\* EmailTemplateRegistry.render under StrictUndefined
Renders(name, context) ==
    name \in DOMAIN TemplateVariables /\ TemplateVariables[name] \subseteq context

\* ConsoleEmailAdapter.send turns a rendering error into an Err
Sent(t) ==
    LET purpose == token[t].purpose IN
    IF Renders(Template(purpose), Context(purpose)) THEN "sent" ELSE "failed"

\* the send_email handler: an Err raises, and does so on every delivery
SendEmail(t) ==
    /\ mail[t] = "queued"
    /\ mail' = [mail EXCEPT ![t] = Sent(t)]
    /\ UNCHANGED <<settings, row, verified, password, admin, sessions, addresses, token,
                   lock, req, history>>

\* the row get_internal_token_for_update finds, unexpired and not used
Consumable(t, purpose) ==
    /\ token[t].here /\ token[t].purpose = purpose
    /\ token[t].age = "valid"
    /\ token[t].used = "no"

ConfirmSelect_NoLock(p, t, purpose, pw) ==
    /\ req[p] = Idle
    /\ mail[t] = "sent"
    /\ IF Consumable(t, purpose)
         THEN /\ Go(p, "confirming", [Idle EXCEPT !.user = token[t].user, !.tok = t,
                                                  !.purpose = purpose, !.pw = pw])
              /\ UNCHANGED lock
         ELSE UNCHANGED <<lock, req>>
    /\ UNCHANGED <<settings, tables, history>>

\* a confirm endpoint is called with a mailed token: SELECT ... FOR UPDATE by
\* hash and purpose; a missing, expired or used row is an Err and nothing changes
ConfirmSelect(p, t, purpose, pw) ==
    /\ req[p] = Idle
    /\ mail[t] = "sent"
    /\ token[t].here => Free(p, {t})
    /\ IF Consumable(t, purpose)
         THEN /\ Go(p, "confirming", [Idle EXCEPT !.user = token[t].user, !.tok = t,
                                                  !.purpose = purpose, !.pw = pw])
              /\ lock' = [lock EXCEPT ![t] = p]
         ELSE UNCHANGED <<lock, req>>
    /\ UNCHANGED <<settings, tables, history>>

Revoked_Late(u) == {s \in sessions : s.user = u /\ s.late}
\* revoke_user_refresh_tokens
Revoked(u) == {s \in sessions : s.user = u}

Consume(p, effect) ==
    /\ token' = [token EXCEPT ![req[p].tok].used = IF @ = "no" THEN "yes" ELSE @]
    /\ history' = [history EXCEPT !.uses[req[p].tok] = Append(@, effect)]
    /\ Return(p)

\* upsert_credential: one argon2 row per user
Upserted(u, pw) == [password EXCEPT ![u] = pw]

\* upsert_credential, mark_internal_token_used and revoke_user_refresh_tokens
ResetCommit(p) ==
    LET u == req[p].user IN
    /\ req[p].at = "confirming" /\ req[p].purpose = "password_reset"
    /\ password' = Upserted(u, req[p].pw)
    /\ sessions' = sessions \ Revoked(u)
    /\ Consume(p, "password_reset")
    /\ UNCHANGED <<settings, row, verified, admin, addresses, mail>>

\* SessionSQLModelUserRepository.mark_verified
Verified(u) == [verified EXCEPT ![u] = TRUE]

VerifyCommit(p) ==
    /\ req[p].at = "confirming" /\ req[p].purpose = "email_verify"
    /\ verified' = Verified(req[p].user)
    /\ Consume(p, "email_verify")
    /\ UNCHANGED <<settings, row, password, admin, sessions, addresses, mail>>

\* the clock: a token expires, and later either mark passes the retention window
Age(t) ==
    /\ token[t].here
    /\ \/ /\ token[t].age # "old"
          /\ token' = [token EXCEPT ![t].age = IF @ = "valid" THEN "expired" ELSE "old"]
       \/ token[t].used = "yes" /\ token' = [token EXCEPT ![t].used = "old"]
    /\ UNCHANGED <<settings, row, verified, password, admin, sessions, addresses, mail,
                   lock, req, history>>

\* used_at < cutoff OR expires_at < cutoff
Purgeable(t) == token[t].used = "old" \/ token[t].age = "old"

\* a batch of delete_expired_internal_tokens, bounded to one row
PurgeInternal(t) ==
    /\ token[t].here /\ Purgeable(t) /\ lock[t] = Nobody
    /\ token' = [token EXCEPT ![t].here = FALSE]
    /\ UNCHANGED <<settings, row, verified, password, admin, sessions, addresses, mail,
                   lock, req, history>>

-----------------------------------------------------------------------------
(* BootstrapSystemAdmin.execute, by a starting web process or the command.  *)

BootstrapLookup(p) ==
    /\ req[p] = Idle
    /\ IF GetByEmail = {}
         THEN Go(p, "creating", Idle)
         ELSE \E u \in GetByEmail :
                Go(p, "checking", [Idle EXCEPT !.user = u, !.flag = u \in admin])
    /\ UNCHANGED <<settings, tables, lock, history>>

BootstrapCheck_NoIdempotence(p) ==
    /\ req[p].at = "checking"
    /\ Go(p, IF settings.promote THEN "matching" ELSE "refused", req[p])
    /\ UNCHANGED <<settings, tables, lock, history>>

\* an account that already holds the tuple is left alone
BootstrapCheck(p) ==
    /\ req[p].at = "checking"
    /\ IF req[p].user \in admin
         THEN Return(p)
         ELSE /\ Go(p, IF settings.promote THEN "matching" ELSE "refused", req[p])
              /\ UNCHANGED lock
    /\ UNCHANGED <<settings, tables, history>>

BootstrapVerify_Skipped(p) ==
    /\ req[p].at = "matching"
    /\ Go(p, "granting", req[p])
    /\ UNCHANGED <<settings, tables, lock, history>>

\* SQLModelCredentialVerifierAdapter.verify: a missing row is a mismatch
Matches(u, pw) == password[u] = pw

BootstrapVerify(p) ==
    /\ req[p].at = "matching"
    /\ IF Matches(req[p].user, "boot")
         THEN Go(p, "granting", [req[p] EXCEPT !.how = "verified"])
         ELSE Go(p, "refused", req[p])
    /\ UNCHANGED <<settings, tables, lock, history>>

\* register_or_lookup reads the address again before it creates
RegisterOrLookup(p) ==
    /\ req[p].at = "creating"
    /\ IF GetByEmail = {}
         THEN Go(p, "inserting", req[p])
         ELSE \E u \in GetByEmail : Go(p, "granting", [req[p] EXCEPT !.user = u, !.how = "raced"])
    /\ UNCHANGED <<settings, tables, lock, history>>

\* SQLModelUserRepository.create commits the row alone
Created(u) == [row EXCEPT ![u] = "live"]

\* register_or_lookup: a duplicate is resolved by reading the racer
BootstrapCreate(p) ==
    /\ req[p].at = "inserting"
    /\ ~Inserting(p)
    /\ IF GetByEmail # {}
         THEN /\ \E u \in GetByEmail :
                   Go(p, "granting", [req[p] EXCEPT !.user = u, !.how = "raced"])
              /\ UNCHANGED <<row, history>>
         ELSE \E u \in Fresh :
              /\ row' = Created(u)
              /\ history' = [history EXCEPT !.born[u] = "bootstrap"]
              /\ Go(p, "initial", [req[p] EXCEPT !.user = u])
    /\ UNCHANGED <<settings, verified, password, admin, sessions, addresses, token, mail,
                   lock>>

\* set_initial_password, a transaction of its own
BootstrapPassword(p) ==
    /\ req[p].at = "initial"
    /\ password' = Upserted(req[p].user, "boot")
    /\ Go(p, "granting", [req[p] EXCEPT !.how = "created"])
    /\ UNCHANGED <<settings, row, verified, admin, sessions, addresses, token, mail, lock,
                   history>>

\* write_relationships: the existence check, then the insert or the bump alone
GrantRead(p) ==
    /\ req[p].at = "granting"
    /\ Go(p, IF req[p].user \in admin THEN "recording" ELSE "tuple", req[p])
    /\ UNCHANGED <<settings, tables, lock, history>>

\* a tuple another writer committed meanwhile breaks the unique constraint
GrantCommit(p) ==
    LET u == req[p].user IN
    /\ req[p].at = "tuple"
    /\ IF u \in admin
         THEN Return(p) /\ UNCHANGED <<admin, history>>
         ELSE /\ admin' = admin \cup {u}
              /\ history' = [history EXCEPT !.granted[u] = req[p].how]
              /\ Go(p, "recording", req[p])
              /\ UNCHANGED lock
    /\ UNCHANGED <<settings, row, verified, password, sessions, addresses, token, mail>>

\* authz.system_admin_bootstrapped carries no address
BootstrapRecord(p) ==
    /\ req[p].at = "recording"
    /\ Return(p)
    /\ UNCHANGED <<settings, tables, history>>

\* the start fails, the command exits with status 2
BootstrapReport(p) ==
    /\ req[p].at = "refused"
    /\ Return(p)
    /\ UNCHANGED <<settings, tables, history>>

-----------------------------------------------------------------------------
(* EraseUser.execute.                                                       *)

\* get_raw_by_id: an account already erased is an Ok with nothing to do
EraseRead(p, u) ==
    /\ row[u] = "live"
    /\ Begin(p, "erasing", u)
    /\ UNCHANGED <<settings, tables, lock, history>>

Busy(p, u) == \E q \in Procs \ {p} : req[q].user = u

ErasedTokens_Unused(u) == {t \in Tokens : token[t].user = u /\ token[t].used = "no"}
\* delete_credentials_and_tokens, the internal tokens
ErasedTokens(u) == {t \in Tokens : token[t].user = u}

\* _scrub_audit_events_on_session takes the addresses out of the user's events
Scrubbed(u) == addresses \ {u}

\* _apply_erasure_scrub frees the address and keeps the row
RowScrubbed(u) == [row EXCEPT ![u] = "erased"]

\* the audit scrub, the deletes, the row scrub, user.erased and the cleanup job
EraseCommit(p) ==
    LET u == req[p].user
        T == ErasedTokens(u) IN
    /\ req[p].at = "erasing"
    /\ Free(p, T)
    /\ row' = RowScrubbed(u)
    /\ password' = [password EXCEPT ![u] = NoPassword]
    /\ sessions' = sessions \ Revoked(u)
    /\ addresses' = Scrubbed(u)
    /\ token' = [t \in Tokens |-> IF t \in T THEN [token[t] EXCEPT !.here = FALSE]
                                             ELSE token[t]]
    /\ history' = [history EXCEPT !.erasures[u] = @ + 1,
                                  !.overlapped = IF Busy(p, u) THEN @ \cup {u} ELSE @]
    /\ Return(p)
    /\ UNCHANGED <<settings, verified, admin, mail>>

-----------------------------------------------------------------------------
(* The specification. *)

Step(p) ==
    \/ RegisterCommit(p)
    \/ LoginVerify(p) \/ LoginOpen(p) \/ LoginRecord(p)
    \/ IssueInvalidate(p) \/ IssueCommit(p)
    \/ ResetCommit(p) \/ VerifyCommit(p)
    \/ BootstrapCheck(p) \/ BootstrapVerify(p) \/ RegisterOrLookup(p)
    \/ BootstrapCreate(p) \/ BootstrapPassword(p) \/ GrantRead(p) \/ GrantCommit(p)
    \/ BootstrapRecord(p) \/ BootstrapReport(p)
    \/ EraseCommit(p)

Arrive(p) ==
    \/ \E pw \in Passwords : RegisterInsert(p, pw) \/ LoginRead(p, pw)
    \/ RequestPasswordReset(p)
    \/ \E u \in Users : RequestEmailVerification(p, u) \/ EraseRead(p, u)
    \/ \E t \in Tokens, purpose \in Purposes, pw \in Passwords : ConfirmSelect(p, t, purpose, pw)
    \/ BootstrapLookup(p)

Next ==
    \/ \E p \in Procs : left > 0 /\ Arrive(p) /\ left' = left - 1
    \/ /\ \/ \E p \in Procs : Step(p) \/ Abort(p)
          \/ \E t \in Tokens : SendEmail(t) \/ Age(t) \/ PurgeInternal(t)
       /\ UNCHANGED left

Spec == Init /\ [][Next]_vars

-----------------------------------------------------------------------------
(* Properties. *)

\* The confirm handlers consume a token at most once, for the purpose it was
\* issued for, however many confirmations of it run at the same time, and
\* is_verified is only ever set by consuming one that was mailed for it.
TokenConsumedOnce ==
    /\ \A t \in Tokens : history.uses[t] \in {<<>>, <<token[t].purpose>>}
    /\ \A u \in Users : verified[u] =>
           \E t \in Tokens : token[t].user = u /\ history.uses[t] = <<"email_verify">>

\* Asking again ends the earlier tokens: a token that the invalidation of a
\* later request of the same account and purpose found is never usable once
\* that request has committed.  (Two requests that overlap do not find each
\* other's token; both stay usable.)
ReissueInvalidates == \A t \in Tokens : \A s \in history.seen[t] :
    ~token[s].here \/ token[s].used # "no"

\* A session belongs to whoever could log in.  A password reset ends the sessions
\* opened with the old password: one whose password is no longer the account's
\* belongs to a login that checked the old password before the reset committed
\* and wrote its row after it, or to an account whose reset came before the
\* bootstrap's own initial password.  Where verification is required no session
\* exists without it (LoginUser, ConfirmPasswordReset).
SessionsJustified == \A s \in sessions :
    /\ s.pw = password[s.user] \/ s.late \/ history.born[s.user] = "bootstrap"
    /\ settings.requireVerified => verified[s.user]

\* The admin tuple is only ever given to an account the bootstrap created, to
\* one whose password it checked, or to one that appeared between its lookup
\* and its own insert, which it takes over without a check.
AdminGrantJustified == \A u \in admin :
    \/ history.granted[u] = "created" /\ history.born[u] = "bootstrap"
    \/ history.granted[u] = "verified" /\ settings.promote
    \/ history.granted[u] = "raced"

\* Restarting is safe: a bootstrap whose lookup finds an administrator never
\* refuses the start and writes no second grant or audit event.
BootstrapIdempotent == \A p \in Procs :
    req[p].at \in {"matching", "granting", "tuple", "recording", "refused"} => ~req[p].flag

\* An erasure that no other request on the account overlaps leaves no password,
\* session, internal token or address behind, now or later, and is done once.
ErasureComplete == \A u \in Users : row[u] = "erased" /\ u \notin history.overlapped =>
    /\ password[u] = NoPassword
    /\ ~\E s \in sessions : s.user = u
    /\ ~\E t \in Tokens : token[t].here /\ token[t].user = u
    /\ u \notin addresses
    /\ history.erasures[u] = 1

=============================================================================
