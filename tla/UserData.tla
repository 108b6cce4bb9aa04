------------------------------ MODULE UserData ------------------------------
(***************************************************************************)
(* The files a user leaves in object storage: uploads under                *)
(* users/{id}/, exports under exports/{id}/, and the delete_user_assets    *)
(* job that deactivation and erasure queue through the outbox.             *)
(*                                                                         *)
(* Two storage backends are modelled, the local directory and S3.  On the  *)
(* local one a put and a delete are two file-system calls each and a list  *)
(* reads only the sidecars, so crashes and overlaps between the two calls  *)
(* are interleavings here.  On S3 each of them is one call.                *)
(*                                                                         *)
(* A hand is whatever runs one of these calls: a web request that uploads  *)
(* or exports, or a worker that runs a cleanup job.                        *)
(***************************************************************************)
EXTENDS Integers, FiniteSets

CONSTANTS
    Owners,       \* user ids
    FileKeys,     \* the <<owner, name>> pairs a feature may upload under users/
    ExportIds,    \* the <<owner, uuid4>> pairs an export may draw
    Jobs,         \* outbox rows of delete_user_assets
    Hands,        \* requests and workers
    MaxTries,     \* APP_OUTBOX_MAX_ATTEMPTS
    MaxFaults     \* bound: storage errors and crashes in one behaviour

\* "nobody" stands for the owner of a row that is not inserted yet.
ASSUME NobodyAssumption == "nobody" \notin Owners

VARIABLES
    backend,      \* "local" or "s3", fixed at start
    account,      \* owner -> "active" | "inactive" | "erased"
    blobs,        \* keys whose bytes are stored
    sidecars,     \* keys whose *.meta.json is stored (local only)
    contents,     \* export key drawn so far -> the payload built for it
    jobs,         \* outbox rows
    hands,        \* what each hand is in the middle of
    urls,         \* export keys whose signed URL a client holds
    hidden,       \* ghost: keys a broken or overlapped call left unlisted
    faults        \* faults that may still happen

dataVars == <<backend, account, blobs, sidecars, contents, jobs, hands, urls,
              hidden, faults>>

UserKeys == {[area |-> "users", owner |-> f[1], name |-> f[2]] : f \in FileKeys}
ExportKeys == {[area |-> "exports", owner |-> e[1], name |-> e[2]] : e \in ExportIds}
Keys == UserKeys \cup ExportKeys

NoKey == [area |-> "none"]
NoJob == "no job"
Idle == [op |-> "idle", key |-> NoKey, job |-> NoJob, todo |-> {}]

\* The row before it is inserted.
Unused == [state |-> "none", owner |-> "nobody", marked |-> FALSE, tries |-> 0,
           skipped |-> FALSE, saw |-> {}]

(***************************************************************************)
(* Storage.                                                                *)
(***************************************************************************)

\* The keys that start with users/{id}/.
UserPrefix(o) == {k \in Keys : k.area = "users" /\ k.owner = o}

\* The local backend scans the sidecars.
LocalList(prefix) == sidecars \cap prefix

\* S3 pages through the objects.
S3List(prefix) == blobs \cap prefix

Listed(o) ==
    IF backend = "local" THEN LocalList(UserPrefix(o)) ELSE S3List(UserPrefix(o))

\* Only the local backend stores a sidecar next to the bytes.
KeepsSidecars == backend = "local"

\* Mutant: the sidecar goes first.
RemovalOrder_SidecarFirst == <<"sidecar", "blob">>

\* The order in which the local delete unlinks its two files.
RemovalOrder == <<"blob", "sidecar">>

\* The URL signed_url issues for k, if the object is there.
Signed(k) == {k} \cap blobs

(***************************************************************************)
(* Uploads and exports.                                                    *)
(***************************************************************************)

\* A put of k leaves whatever a cleanup already listed to a later cleanup.
Forget(k) == [j \in Jobs |-> [jobs[j] EXCEPT !.saw = @ \ {k}]]

\* A feature stores a file for an authenticated user.
StartUpload(h, k) ==
    /\ hands[h] = Idle
    /\ account[k.owner] = "active"
    /\ hands' = [hands EXCEPT ![h] = [Idle EXCEPT !.op = "put", !.key = k]]
    /\ UNCHANGED <<backend, account, blobs, sidecars, contents, jobs, urls,
                   hidden, faults>>

\* The payload holds the row as read and the keys listed, none if the list failed.
Payload(o, failed) ==
    [erased |-> account[o] = "erased", files |-> IF failed THEN {} ELSE Listed(o)]

\* GET /me/export and GET /admin/users/{id}/export up to the put: the row is
\* read raw, so an erased user is exported too.
StartExport(h, k, failed) ==
    /\ hands[h] = Idle
    /\ failed => faults > 0
    /\ k \notin DOMAIN contents
    /\ hands' = [hands EXCEPT ![h] = [Idle EXCEPT !.op = "put", !.key = k]]
    /\ contents' = [x \in DOMAIN contents \cup {k} |->
                      IF x = k THEN Payload(k.owner, failed) ELSE contents[x]]
    /\ faults' = IF failed THEN faults - 1 ELSE faults
    /\ UNCHANGED <<backend, account, blobs, sidecars, jobs, urls, hidden>>

\* What a hand does after a put that returned Ok: an export signs its URL.
AfterPut(k) ==
    IF k.area = "exports" THEN [Idle EXCEPT !.op = "sign", !.key = k] ELSE Idle

\* put: the local backend writes the bytes and then the sidecar.
WriteBlob(h) ==
    LET k == hands[h].key
    IN /\ hands[h].op = "put"
       /\ blobs' = blobs \cup {k}
       /\ hands' = [hands EXCEPT ![h] =
                      IF KeepsSidecars THEN [@ EXCEPT !.op = "sidecar"]
                                       ELSE AfterPut(k)]
       /\ jobs' = Forget(k)
       /\ UNCHANGED <<backend, account, sidecars, contents, urls, hidden, faults>>

\* put on the local backend: the sidecar makes the key listable.
WriteSidecar(h) ==
    LET k == hands[h].key
    IN /\ hands[h].op = "sidecar"
       /\ sidecars' = sidecars \cup {k}
       /\ hands' = [hands EXCEPT ![h] = AfterPut(k)]
       /\ jobs' = Forget(k)
       /\ hidden' = hidden \ {k}
       /\ UNCHANGED <<backend, account, blobs, contents, urls, faults>>

\* An OSError, a ClientError or a crash ends the put where it stands.
PutFails(h) ==
    /\ hands[h].op \in {"put", "sidecar"}
    /\ faults > 0
    /\ faults' = faults - 1
    /\ hidden' = IF hands[h].op = "sidecar" /\ hands[h].key \notin sidecars
                 THEN hidden \cup {hands[h].key} ELSE hidden
    /\ hands' = [hands EXCEPT ![h] = Idle]
    /\ UNCHANGED <<backend, account, blobs, sidecars, contents, jobs, urls>>

\* The export asks for a URL and hands it to the client, or reports the error.
Sign(h) ==
    /\ hands[h].op = "sign"
    /\ \/ urls' = urls \cup Signed(hands[h].key) /\ UNCHANGED faults
       \/ faults > 0 /\ faults' = faults - 1 /\ UNCHANGED urls
    /\ hands' = [hands EXCEPT ![h] = Idle]
    /\ UNCHANGED <<backend, account, blobs, sidecars, contents, jobs, hidden>>

(***************************************************************************)
(* Deactivation and erasure.                                               *)
(***************************************************************************)

\* The outbox row, staged on the session that changes the account.
Enqueued(j, o) ==
    [jobs EXCEPT ![j] = [Unused EXCEPT !.state = "pending", !.owner = o]]

\* DeactivateUser.  It reads the row, finds it not erased, and writes it later:
\* an erasure may commit in between, and its flag survives.  Every account was
\* once not erased, so the read guards nothing at the time of the write.
Deactivate(o, j) ==
    /\ jobs[j].state = "none"
    /\ account' = [account EXCEPT ![o] = IF @ = "erased" THEN @ ELSE "inactive"]
    /\ jobs' = Enqueued(j, o)
    /\ UNCHANGED <<backend, blobs, sidecars, contents, hands, urls, hidden, faults>>

\* EraseUser, run by the erase_user handler.  A call that reads an erased row
\* does nothing; one that read it before another erased it queues a second row.
Erase(o, j) ==
    /\ jobs[j].state = "none"
    /\ account' = [account EXCEPT ![o] = "erased"]
    /\ jobs' = Enqueued(j, o)
    /\ UNCHANGED <<backend, blobs, sidecars, contents, hands, urls, hidden, faults>>

(***************************************************************************)
(* The delete_user_assets handler.                                         *)
(***************************************************************************)

\* The relay claims the row and the handler commits the dedup mark.
Claim(h, j) ==
    /\ hands[h] = Idle
    /\ jobs[j].state = "pending"
    /\ ~jobs[j].marked
    /\ jobs' = [jobs EXCEPT ![j].state = "running", ![j].marked = TRUE]
    /\ hands' = [hands EXCEPT ![h] = [Idle EXCEPT !.op = "list", !.job = j]]
    /\ UNCHANGED <<backend, account, blobs, sidecars, contents, urls, hidden, faults>>

\* A later attempt finds the mark: the handler returns and the row is delivered.
ClaimDeduped(h, j) ==
    /\ hands[h] = Idle
    /\ jobs[j].state = "pending"
    /\ jobs[j].marked
    /\ jobs' = [jobs EXCEPT ![j].state = "delivered", ![j].skipped = TRUE]
    /\ UNCHANGED <<backend, account, blobs, sidecars, contents, hands, urls,
                   hidden, faults>>

\* The hand's next state and its row's once todo is what is left to delete.
Advance(h, todo, rows) ==
    LET j == hands[h].job
    IN IF todo = {}
       THEN /\ jobs' = [rows EXCEPT ![j].state = "delivered"]
            /\ hands' = [hands EXCEPT ![h] = Idle]
       ELSE /\ jobs' = rows
            /\ hands' = [hands EXCEPT ![h] =
                           [Idle EXCEPT !.op = "delete", !.job = j, !.todo = todo]]

\* delete_user_assets lists the prefix; an empty one is done.
ListAssets(h) ==
    LET j == hands[h].job
        o == jobs[j].owner
    IN /\ hands[h].op = "list"
       /\ Advance(h, Listed(o),
                  [jobs EXCEPT ![j].saw = (blobs \cap UserPrefix(o)) \ hidden])
       /\ UNCHANGED <<backend, account, blobs, sidecars, contents, urls, hidden, faults>>

\* Mutant: the loop returns after its first delete.
Remaining_First(todo, k) == {}

\* The keys the loop still has to delete after k.
Remaining(todo, k) == todo \ {k}

Discard(part, k) ==
    /\ blobs' = IF part = "blob" THEN blobs \ {k} ELSE blobs
    /\ sidecars' = IF part = "sidecar" THEN sidecars \ {k} ELSE sidecars

\* delete on S3: one call.
DeleteObject(h, k) ==
    /\ backend = "s3"
    /\ hands[h].op = "delete" /\ k \in hands[h].todo
    /\ Discard("blob", k)
    /\ Advance(h, Remaining(hands[h].todo, k), jobs)
    /\ UNCHANGED <<backend, account, contents, urls, hidden, faults>>

\* delete on the local backend: the first file.
UnlinkFirst(h, k) ==
    /\ backend = "local"
    /\ hands[h].op = "delete" /\ k \in hands[h].todo
    /\ Discard(RemovalOrder[1], k)
    /\ hidden' = hidden \ {k}
    /\ hands' = [hands EXCEPT ![h].op = "unlink", ![h].key = k]
    /\ UNCHANGED <<backend, account, contents, jobs, urls, faults>>

\* delete on the local backend: the second file.  Bytes that a put wrote since
\* the first one are left without the sidecar that lists them.
UnlinkSecond(h) ==
    LET k == hands[h].key
    IN /\ hands[h].op = "unlink"
       /\ Discard(RemovalOrder[2], k)
       /\ hidden' = IF k \in blobs /\ RemovalOrder[2] = "sidecar"
                    THEN hidden \cup {k} ELSE hidden
       /\ Advance(h, Remaining(hands[h].todo, k), jobs)
       /\ UNCHANGED <<backend, account, contents, urls, faults>>

\* A list or a delete returns Err: the handler raises, and the relay retries
\* the row until it has no attempt left.
CleanupFails(h) ==
    LET j == hands[h].job
    IN /\ hands[h].op \in {"list", "delete", "unlink"}
       /\ faults > 0
       /\ faults' = faults - 1
       /\ jobs' = [jobs EXCEPT ![j].tries = @ + 1,
                               ![j].state = IF jobs[j].tries + 1 >= MaxTries
                                            THEN "failed" ELSE "pending"]
       /\ hands' = [hands EXCEPT ![h] = Idle]
       /\ UNCHANGED <<backend, account, blobs, sidecars, contents, urls, hidden>>

\* The worker dies: its claim rolls back and the committed mark stays.
WorkerDies(h) ==
    /\ hands[h].op \in {"list", "delete", "unlink"}
    /\ faults > 0
    /\ faults' = faults - 1
    /\ jobs' = [jobs EXCEPT ![hands[h].job].state = "pending"]
    /\ hands' = [hands EXCEPT ![h] = Idle]
    /\ UNCHANGED <<backend, account, blobs, sidecars, contents, urls, hidden>>

(***************************************************************************)
(* The specification.                                                      *)
(***************************************************************************)

DataInit ==
    /\ backend \in {"local", "s3"}
    /\ account = [o \in Owners |-> "active"]
    /\ blobs = {} /\ sidecars = {} /\ urls = {} /\ hidden = {}
    /\ contents = [k \in {} |-> {}]
    /\ jobs = [j \in Jobs |-> Unused]
    /\ hands = [h \in Hands |-> Idle]
    /\ faults = MaxFaults

HandStep(h) ==
    \/ WriteBlob(h) \/ WriteSidecar(h) \/ PutFails(h) \/ Sign(h)
    \/ ListAssets(h) \/ UnlinkSecond(h) \/ CleanupFails(h) \/ WorkerDies(h)
    \/ \E k \in UserKeys : StartUpload(h, k)
    \/ \E k \in Keys : DeleteObject(h, k) \/ UnlinkFirst(h, k)
    \/ \E k \in ExportKeys, failed \in BOOLEAN : StartExport(h, k, failed)
    \/ \E j \in Jobs : Claim(h, j) \/ ClaimDeduped(h, j)

DataNext ==
    \/ \E h \in Hands : HandStep(h)
    \/ \E o \in Owners, j \in Jobs : Deactivate(o, j) \/ Erase(o, j)

DataSpec == DataInit /\ [][DataNext]_dataVars

(***************************************************************************)
(* Properties.                                                             *)
(***************************************************************************)

Busy(k) == \E h \in Hands : hands[h].op \in {"put", "sidecar", "unlink"} /\ hands[h].key = k

\* What the storage holds can be found.  On the local backend the only unlisted
\* bytes are those of a call that is still running, of a put that stopped between
\* its two writes, or of a put that overlapped a delete; every export URL a
\* client holds leads to a stored export, whatever cleanups run; and an export
\* names files of its own user only (LocalFileStorageAdapter, ExportUserData).
StorageConsistent ==
    /\ backend = "local" => \A k \in blobs \ sidecars : k \in hidden \/ Busy(k)
    /\ urls \subseteq blobs
    /\ \A k \in DOMAIN contents :
           contents[k].files \subseteq {f \in UserKeys : f.owner = k.owner}

\* Accounts and cleanup rows change together: exactly the accounts that are not
\* active have one.  A row that is delivered by an attempt that ran has removed
\* every file its owner had when it listed them, except one that was put again
\* since or that no list could find; a row delivered because an earlier attempt
\* left its dedup mark promises nothing (DeactivateUser, EraseUser,
\* delete_user_assets and its handler).
CleanupComplete ==
    /\ \A o \in Owners : account[o] # "active" <=> \E j \in Jobs : jobs[j].owner = o
    /\ \A j \in Jobs : jobs[j].state = "delivered" /\ ~jobs[j].skipped =>
           \A k \in jobs[j].saw \cap blobs : k \in hidden \/ Busy(k)

=============================================================================
