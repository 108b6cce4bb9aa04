------------------------------- MODULE Schema -------------------------------
(***************************************************************************)
(* The database schema: what each Alembic revision creates and drops, what *)
(* the ORM models declare, and how a migration command gets from one       *)
(* revision to another when it may be interrupted anywhere.                *)
(*                                                                         *)
(* env.py opens one transaction for the whole command, so revisions and    *)
(* their version stamps commit together; the CONCURRENTLY index statements *)
(* run in autocommit blocks, which first commit everything before them.    *)
(* A schema is a set of objects <<table, kind, name, detail>>.  Column     *)
(* types, lengths and server defaults of new tables are left out.          *)
(***************************************************************************)
EXTENDS Naturals

CONSTANT Users  \* accounts that existed before the credentials table

Revisions == {3} \cup 6..17
Base == 0
Head == 17

\* down_revision, and its inverse: the chain is linear.
Down(r) == IF r = 3 THEN Base ELSE IF r = 6 THEN 3 ELSE r - 1
Up(r) == CHOOSE q \in Revisions : Down(q) = r

-----------------------------------------------------------------------------
(* Schema objects.                                                         *)

Columns(t, required, optional) ==
    {<<t, "column", c, "not null">> : c \in required}
        \cup {<<t, "column", c, "null">> : c \in optional}
Keys(t, names) == {<<t, "key", k, "">> : k \in names}
Checks(t, names) == {<<t, "check", k, "">> : k \in names}
\* An index named ix_<table>_<column> on that column.
ColumnIndexes(t, cols) == {<<t, "index", c, c>> : c \in cols}
Index(t, name, definition) == {<<t, "index", name, definition>>}

DropTable(s, tables) == {o \in s : o[1] \notin tables}
Named(s, t, kind, name) == {o \in s : o[1] = t /\ o[2] = kind /\ o[3] = name}

PendingIndex(definition) == Index("outbox_messages", "ix_outbox_pending", definition)
UsersIndex == Index("users", "ix_users_created_at", "created_at, id")

-----------------------------------------------------------------------------
(* 0003: the authentication tables and the RBAC tables.                    *)

UsersTable ==
    Columns("users", {"id", "email", "password_hash", "is_active", "is_verified",
                      "authz_version", "created_at", "updated_at"}, {"last_login_at"})
    \cup Keys("users", {"pk id", "uq_users_email"})
    \cup Checks("users", {"ck_users_authz_version_positive"})
    \cup ColumnIndexes("users", {"email"})

RbacTables ==
    Columns("roles", {"id", "name", "is_active", "created_at", "updated_at"}, {"description"})
    \cup Columns("permissions", {"id", "name", "created_at", "updated_at"}, {"description"})
    \cup Columns("user_roles", {"user_id", "role_id", "created_at"}, {})
    \cup Columns("role_permissions", {"role_id", "permission_id", "created_at"}, {})
    \cup Keys("roles", {"pk id", "uq_roles_name"})
    \cup Checks("roles", {"ck_roles_name_normalized"})
    \cup Keys("permissions", {"pk id", "uq_permissions_name"})
    \cup Keys("user_roles", {"pk user_id role_id", "fk user_id users cascade",
                             "fk role_id roles cascade"})
    \cup Keys("role_permissions", {"pk role_id permission_id", "fk role_id roles cascade",
                                   "fk permission_id permissions cascade"})
    \cup ColumnIndexes("roles", {"name"}) \cup ColumnIndexes("permissions", {"name"})
    \cup ColumnIndexes("user_roles", {"user_id", "role_id"})
    \cup ColumnIndexes("role_permissions", {"role_id", "permission_id"})

\* What 0003 puts on the RBAC tables and the downgrade of 0006 does not.
RbacExtras ==
    Checks("permissions", {"ck_permissions_name_resource_action"})
    \cup Keys("user_roles", {"uq_user_roles_user_role"})
    \cup Keys("role_permissions", {"uq_role_permissions_role_permission"})

RefreshTokensTable ==
    Columns("refresh_tokens", {"id", "user_id", "token_hash", "family_id", "expires_at", "created_at"},
            {"revoked_at", "replaced_by_token_id", "created_ip", "user_agent"})
    \cup Keys("refresh_tokens", {"pk id", "uq_refresh_tokens_hash", "fk user_id users cascade",
                                 "fk replaced_by_token_id refresh_tokens set null"})
    \cup ColumnIndexes("refresh_tokens", {"user_id", "family_id", "expires_at", "token_hash"})

AuditEventsTable ==
    Columns("auth_audit_events", {"id", "event_type", "metadata", "created_at"},
            {"user_id", "ip_address", "user_agent"})
    \cup Keys("auth_audit_events", {"pk id", "fk user_id users set null"})
    \cup ColumnIndexes("auth_audit_events", {"user_id", "event_type", "created_at"})

InternalTokensTable ==
    Columns("auth_internal_tokens", {"id", "purpose", "token_hash", "expires_at", "created_at"},
            {"user_id", "used_at", "created_ip"})
    \cup Keys("auth_internal_tokens", {"pk id", "uq_auth_internal_tokens_hash",
                                       "fk user_id users cascade"})
    \cup Checks("auth_internal_tokens", {"ck_auth_internal_tokens_purpose"})
    \cup ColumnIndexes("auth_internal_tokens", {"user_id", "purpose", "expires_at", "token_hash"})

AuthTables == {"users", "refresh_tokens", "auth_audit_events", "auth_internal_tokens"}
RbacNames == {"roles", "permissions", "user_roles", "role_permissions"}

Upgrade0003(s) == s \cup UsersTable \cup RbacTables \cup RbacExtras
                    \cup RefreshTokensTable \cup AuditEventsTable \cup InternalTokensTable
Downgrade0003(s) == DropTable(s, AuthTables \cup RbacNames)

-----------------------------------------------------------------------------
(* 0006 to 0012: relationships, the template's things, credentials.        *)

TupleColumns == {"resource_type", "resource_id", "relation", "subject_type", "subject_id"}

RelationshipsTable ==
    Columns("relationships", TupleColumns \cup {"id", "created_at"}, {})
    \cup Keys("relationships", {"pk id", "uq_relationships_tuple"})
    \cup Index("relationships", "ix_relationships_resource", "resource_type, resource_id, relation")
    \cup Index("relationships", "ix_relationships_subject",
               "subject_type, subject_id, resource_type, relation")

Upgrade0006(s) == DropTable(s, RbacNames) \cup RelationshipsTable
Downgrade0006(s) == DropTable(s, {"relationships"}) \cup RbacTables

ThingsTable ==
    Columns("things", {"id", "name", "owner_id", "created_at", "updated_at"}, {})
    \cup Keys("things", {"pk id"}) \cup Checks("things", {"things_name_not_blank"})
    \cup ColumnIndexes("things", {"owner_id"})

Upgrade0008(s) == s \cup ThingsTable
Downgrade0008(s) == DropTable(s, {"things"})

CredentialsTable ==
    Columns("credentials", {"id", "user_id", "algorithm", "hash", "last_changed_at", "created_at"}, {})
    \cup Keys("credentials", {"pk id", "fk user_id users cascade", "uq_credentials_user_id_algorithm"})
    \cup ColumnIndexes("credentials", {"user_id"})

Upgrade0009(s) == s \cup CredentialsTable
Downgrade0009(s) == DropTable(s, {"credentials"})

Upgrade0010(s) == s \ Named(s, "users", "column", "password_hash")

Upgrade0011(s) == DropTable(s, {"things"})
Downgrade0011(s) == s \cup ThingsTable

-----------------------------------------------------------------------------
(* 0012 to 0017: the outbox tables and the later columns and indexes.      *)

OutboxTable ==
    Columns("outbox_messages", {"id", "job_name", "payload", "available_at", "status",
                                "attempts", "created_at"},
            {"last_error", "locked_at", "locked_by", "dispatched_at"})
    \cup Keys("outbox_messages", {"pk id"})
    \cup Index("outbox_messages", "ix_outbox_created", "created_at")

Upgrade0012(s) == s \cup OutboxTable \cup PendingIndex("available_at")
Downgrade0012(s) == DropTable(s, {"outbox_messages"})

ProcessedTable ==
    Columns("processed_outbox_messages", {"id", "processed_at"}, {})
    \cup Keys("processed_outbox_messages", {"pk id"})

Upgrade0013(s) ==
    (s \ Named(s, "outbox_messages", "column", "dispatched_at"))
        \cup Columns("outbox_messages", {}, {"delivered_at", "failed_at"}) \cup ProcessedTable
Downgrade0013_KeepsFailedAt(s) ==
    (DropTable(s, {"processed_outbox_messages"})
        \ Named(s, "outbox_messages", "column", "delivered_at"))
        \cup Columns("outbox_messages", {}, {"dispatched_at"})
Downgrade0013(s) ==
    (DropTable(s, {"processed_outbox_messages"})
        \ (Named(s, "outbox_messages", "column", "delivered_at")
            \cup Named(s, "outbox_messages", "column", "failed_at")))
        \cup Columns("outbox_messages", {}, {"dispatched_at"})

Upgrade0016(s) == s \cup Columns("users", {"is_erased"}, {})
Downgrade0016(s) == s \ Named(s, "users", "column", "is_erased")

Upgrade0017(s) == s \cup Columns("outbox_messages", {"trace_context"}, {})
Downgrade0017(s) == s \ Named(s, "outbox_messages", "column", "trace_context")

\* 0014 swaps the pending index, 0015 adds the pagination index.
SwapPending(s, definition) ==
    (s \ Named(s, "outbox_messages", "index", "ix_outbox_pending")) \cup PendingIndex(definition)

Upgraded(r, s) ==
    CASE r = 3 -> Upgrade0003(s)   [] r = 6 -> Upgrade0006(s)   [] r = 8 -> Upgrade0008(s)
      [] r = 9 -> Upgrade0009(s)   [] r = 10 -> Upgrade0010(s)  [] r = 11 -> Upgrade0011(s)
      [] r = 12 -> Upgrade0012(s)  [] r = 13 -> Upgrade0013(s)
      [] r = 14 -> SwapPending(s, "available_at, id")           [] r = 15 -> s \cup UsersIndex
      [] r = 16 -> Upgrade0016(s)  [] r = 17 -> Upgrade0017(s)  [] OTHER -> s

Downgraded(r, s) ==
    CASE r = 3 -> Downgrade0003(s)   [] r = 6 -> Downgrade0006(s)   [] r = 8 -> Downgrade0008(s)
      [] r = 9 -> Downgrade0009(s)   [] r = 11 -> Downgrade0011(s)  [] r = 12 -> Downgrade0012(s)
      [] r = 13 -> Downgrade0013(s)  [] r = 16 -> Downgrade0016(s)  [] r = 17 -> Downgrade0017(s)
      [] OTHER -> s

\* The schema of a straight, undisturbed upgrade from an empty database.
SchemaAt[r \in Revisions \cup {Base}] ==
    IF r = Base THEN {} ELSE Upgraded(r, SchemaAt[Down(r)])

-----------------------------------------------------------------------------
(* What SQLModel.metadata declares once env.py has imported every model.   *)

UserModel ==
    (UsersTable \ Named(UsersTable, "users", "column", "password_hash"))
        \cup Columns("users", {"is_erased"}, {}) \cup UsersIndex

OutboxModels ==
    (OutboxTable \ Named(OutboxTable, "outbox_messages", "column", "dispatched_at"))
        \cup Columns("outbox_messages", {"trace_context"}, {"delivered_at", "failed_at"})
        \cup PendingIndex("available_at, id") \cup ProcessedTable

\* The models carry no CHECK on the purpose of an internal token.
AuthModels ==
    CredentialsTable \cup RefreshTokensTable \cup AuditEventsTable
        \cup (InternalTokensTable \ Checks("auth_internal_tokens", {"ck_auth_internal_tokens_purpose"}))

Metadata == UserModel \cup OutboxModels \cup AuthModels \cup RelationshipsTable

-----------------------------------------------------------------------------
(* Migration commands.                                                     *)

VARIABLES
    db,      \* what is committed
    work,    \* what the command's open transaction sees
    target,  \* the revision the running command goes to
    step,    \* "idle", "migrate", or a statement of an autocommit block
    had,     \* history: accounts whose password was once stored
    undone   \* history: a downgrade has been started

vars == <<db, work, target, step, had, undone>>

\* db: the stamped version, the objects of the schema, the indexes a broken
\* build left invalid, per user the row of users with its password_hash, and the
\* rows of credentials.
Init ==
    /\ db = [version |-> Base, schema |-> {}, invalid |-> {},
             hashes |-> [u \in Users |-> "absent"], creds |-> {}]
    /\ work = db
    /\ target = Base
    /\ step = "idle"
    /\ had = {}
    /\ undone = FALSE

NewAccount(u, hash, creds) ==
    /\ step = "idle"
    /\ db.hashes[u] = "absent" /\ u \notin had
    /\ db' = [db EXCEPT !.hashes[u] = hash, !.creds = @ \cup creds]
    /\ work' = db'
    /\ UNCHANGED <<target, step, undone>>

\* A release from before the credentials split stores an account.  0009 locks
\* users (the new foreign key) before its backfill, so none is missed.
LegacyAccount(u) ==
    /\ db.version \in {3} \cup 6..8
    /\ NewAccount(u, "hash", {})
    /\ had' = had \cup {u}

\* The release that runs on 0009 writes the credential and an empty hash.
SplitAccount(u) ==
    /\ db.version = 9
    /\ NewAccount(u, "empty", {u})
    /\ UNCHANGED had

Start(r) ==
    /\ step = "idle"
    /\ r # db.version
    /\ work' = db
    /\ target' = r
    /\ step' = "migrate"
    /\ undone' = (undone \/ r < db.version)
    /\ UNCHANGED <<db, had>>

Upgrading == step # "idle" /\ work.version < target
Downgrading == step # "idle" /\ work.version > target

Backfill_Nobody(d) == {}

\* INSERT INTO credentials SELECT ... WHERE password_hash <> ''
Backfill(d) == {u \in Users : d.hashes[u] = "hash"}

\* The rows after revision r.
UpgradedRows(r, d) ==
    CASE r = 9 -> [d EXCEPT !.creds = Backfill(d)]
      [] r = 10 -> [d EXCEPT !.hashes = [u \in Users |->
                                 IF @[u] = "absent" THEN "absent" ELSE "dropped"]]
      [] OTHER -> d

DowngradedRows(r, d) ==
    CASE r = 9 -> [d EXCEPT !.creds = {}]
      [] r = 3 -> [d EXCEPT !.hashes = [u \in Users |-> "absent"]]
      [] OTHER -> d

HasDefault_No == FALSE

\* server_default of users.is_erased: what makes ADD COLUMN ... NOT NULL
\* possible on a table that has rows.
HasDefault == TRUE

Refused(r, d) == r = 16 /\ ~HasDefault /\ \E u \in Users : d.hashes[u] # "absent"

Stamp(d, r) == [d EXCEPT !.version = r]

\* A revision whose statements all run in the command's transaction.
UpgradeStep ==
    /\ Upgrading /\ step = "migrate"
    /\ LET r == Up(work.version) IN
          /\ r \notin {14, 15}
          /\ ~Refused(r, work)
          /\ work' = [Stamp(UpgradedRows(r, work), r) EXCEPT !.schema = Upgraded(r, @)]
    /\ UNCHANGED <<db, target, step, had, undone>>

\* downgrade() raises NotImplementedError.
OneWay(r) == r = 10

DowngradeStep ==
    /\ Downgrading /\ step = "migrate"
    /\ LET r == work.version IN
          /\ r \notin {14, 15}
          /\ ~OneWay(r)
          \* op.drop_index without IF EXISTS
          /\ r = 12 => Named(work.schema, "outbox_messages", "index", "ix_outbox_pending") # {}
          /\ work' = [Stamp(DowngradedRows(r, work), Down(r)) EXCEPT !.schema = Downgraded(r, @)]
    /\ UNCHANGED <<db, target, step, had, undone>>

\* The revision being applied or undone, and the index it builds or drops.
Current == IF Upgrading THEN Up(work.version) ELSE work.version
IndexTable == IF Current = 14 THEN "outbox_messages" ELSE "users"
IndexName == IF Current = 14 THEN "ix_outbox_pending" ELSE "ix_users_created_at"
NewIndex == IF Current = 15 THEN UsersIndex
            ELSE PendingIndex(IF Upgrading THEN "available_at, id" ELSE "available_at")
Existing(d) == Named(d.schema, IndexTable, "index", IndexName)

FirstStatement_NoDrop(r) == IF Downgrading THEN "drop" ELSE "create"

\* 0014 drops and creates in both directions; 0015 creates, or drops.
FirstStatement(r) == IF r = 14 \/ Downgrading THEN "drop" ELSE "create"

\* autocommit_block commits whatever the command has done so far.
EnterAutocommit ==
    /\ step = "migrate" /\ (Upgrading \/ Downgrading)
    /\ Current \in {14, 15}
    /\ db' = work
    /\ step' = FirstStatement(Current)
    /\ UNCHANGED <<work, target, had, undone>>

\* DROP INDEX CONCURRENTLY IF EXISTS
DropConcurrently ==
    /\ step = "drop"
    /\ db' = [db EXCEPT !.schema = @ \ Existing(db), !.invalid = @ \ {IndexName}]
    /\ work' = db'
    /\ step' = IF Current = 14 THEN "create" ELSE "stamp"
    /\ UNCHANGED <<target, had, undone>>

\* CREATE INDEX CONCURRENTLY IF NOT EXISTS: skipped when any index, valid or
\* not, has the name.
CreateConcurrently ==
    /\ step = "create"
    /\ db' = IF Existing(db) = {} THEN [db EXCEPT !.schema = @ \cup NewIndex] ELSE db
    /\ work' = db'
    /\ step' = "stamp"
    /\ UNCHANGED <<target, had, undone>>

\* The version row is updated on the transaction opened after the block.
StampStep ==
    /\ step = "stamp"
    /\ work' = Stamp(work, IF Upgrading THEN Current ELSE Down(Current))
    /\ step' = "migrate"
    /\ UNCHANGED <<db, target, had, undone>>

Finish ==
    /\ step = "migrate"
    /\ work.version = target
    /\ db' = work
    /\ step' = "idle"
    /\ UNCHANGED <<work, target, had, undone>>

Aborted(d) ==
    /\ db' = d
    /\ work' = d
    /\ target' = d.version
    /\ step' = "idle"
    /\ UNCHANGED <<had, undone>>

StatementRaises ==
    /\ step = "migrate"
    /\ \/ Upgrading /\ Refused(Up(work.version), work)
       \/ Downgrading /\ OneWay(work.version)
       \/ /\ Downgrading /\ work.version = 12
          /\ Named(work.schema, "outbox_messages", "index", "ix_outbox_pending") = {}

\* A statement or downgrade() raises: the open transaction rolls back.
Raises == StatementRaises /\ Aborted(db)

\* The process dies or the connection drops between two statements ...
Interrupt ==
    /\ step # "idle"
    /\ ~StatementRaises
    /\ Aborted(db)

\* ... or within a concurrent one, which leaves an invalid index behind.
InterruptDrop ==
    /\ step = "drop"
    /\ Existing(db) # {}
    /\ Aborted([db EXCEPT !.invalid = @ \cup {IndexName}])

InterruptCreate ==
    /\ step = "create"
    /\ Existing(db) = {}
    /\ Aborted([db EXCEPT !.schema = @ \cup NewIndex, !.invalid = @ \cup {IndexName}])

Progress ==
    \/ UpgradeStep \/ DowngradeStep \/ EnterAutocommit \/ DropConcurrently
    \/ CreateConcurrently \/ StampStep \/ Finish \/ Raises

Failure == Interrupt \/ InterruptDrop \/ InterruptCreate

Next ==
    \/ \E u \in Users : LegacyAccount(u) \/ SplitAccount(u)
    \/ \E r \in Revisions \cup {Base} : Start(r)
    \/ Progress
    \/ Failure

Spec == Init /\ [][Next]_vars

\* A started command runs on, and every deployment runs "alembic upgrade head".
FairSpec == Spec /\ WF_vars(Progress) /\ WF_vars(Start(Head))

-----------------------------------------------------------------------------
(* Properties.                                                             *)

\* The part of a schema that only transactions change and every path restores.
Transactional(s) ==
    s \ (Named(s, "outbox_messages", "index", "ix_outbox_pending")
            \cup Named(s, "users", "index", "ix_users_created_at") \cup RbacExtras)

\* Wherever commands were interrupted, in whatever order they ran, the stamped
\* version and the tables, columns and constraints it stands for agree.
VersionMatchesSchema ==
    Transactional(db.schema) = Transactional(SchemaAt[db.version])

\* A database that was only ever upgraded, however often the upgrade failed
\* and was run again, has at head what the ORM models declare, and the index of
\* the relay's claim query is usable: 0014 drops before it creates, so an index
\* that a broken build left behind is never taken for the finished one.
HeadMatchesModels ==
    db.version = Head /\ ~undone =>
        /\ {o \in db.schema : o[2] # "check"} = {o \in Metadata : o[2] # "check"}
        /\ "ix_outbox_pending" \notin db.invalid

\* No password is lost on the way to the credentials table: once 0010 has
\* dropped users.password_hash, every account that had one has a credential.
PasswordsSurvive ==
    \A u \in had : db.hashes[u] = "dropped" => u \in db.creds

\* When failures and downgrades stop, repeated upgrades reach head, from
\* whatever the failures left behind.
UpgradeCompletes ==
    <>[][~Failure /\ ~ \E r \in Revisions \cup {Base} : r < db.version /\ Start(r)]_vars
        => <>(db.version = Head)
=============================================================================
