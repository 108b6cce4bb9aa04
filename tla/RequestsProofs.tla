--------------------------- MODULE RequestsProofs ---------------------------
(***************************************************************************)
(* Proofs about UserData and Http, for every set of users, files, rows and *)
(* workers, and for every set of deployments.                              *)
(***************************************************************************)
EXTENDS UserData, Http, SequenceTheorems, TLAPS

(***************************************************************************)
(* The inductive invariant of UserData.                                    *)
(***************************************************************************)

JobRows == [state : {"none", "pending", "running", "delivered", "failed"},
            owner : Owners \cup {"nobody"}, marked : BOOLEAN, tries : Nat,
            skipped : BOOLEAN, saw : SUBSET Keys]

Tasks == [op : {"idle", "put", "sidecar", "sign", "list", "delete", "unlink"},
          key : Keys \cup {NoKey}, job : Jobs \cup {NoJob}, todo : SUBSET Keys]

DataTypes ==
    /\ backend \in {"local", "s3"}
    /\ account \in [Owners -> {"active", "inactive", "erased"}]
    /\ blobs \subseteq Keys /\ sidecars \subseteq Keys
    /\ jobs \in [Jobs -> JobRows]
    /\ hands \in [Hands -> Tasks]

\* h runs the cleanup of its row.
Cleaning(h) == hands[h].op \in {"list", "delete", "unlink"}

\* h has listed the files of its row's owner.
Deleting(h) == hands[h].op \in {"delete", "unlink"}

\* A hand holds the key it writes, signs or unlinks; a cleanup holds a running
\* row, alone, and deletes files of users only.
HandsHold ==
    /\ \A h \in Hands : hands[h].op \in {"put", "sidecar", "sign", "unlink"} => hands[h].key \in Keys
    /\ \A h \in Hands : hands[h].op \in {"sidecar", "unlink"} => backend = "local"
    /\ \A h \in Hands : Cleaning(h) => hands[h].job \in Jobs /\ jobs[hands[h].job].state = "running"
    /\ \A h, g \in Hands : Cleaning(h) /\ Cleaning(g) /\ h # g => hands[h].job # hands[g].job
    /\ \A h \in Hands : \A k \in hands[h].todo : k.area = "users"
    /\ \A h \in Hands : hands[h].op = "unlink" => hands[h].key.area = "users"
    /\ \A h \in Hands : hands[h].op = "sign" => hands[h].key.area = "exports"

\* A put of k stands between its two writes.
Halfway(k) == \E h \in Hands : hands[h].op = "sidecar" /\ hands[h].key = k

\* No list finds k: a broken or overlapped call left it so, or a put is halfway.
Unlisted(k) == k \in hidden \/ (k \notin sidecars /\ Halfway(k))

\* On the local backend every stored key without a sidecar is known to be one.
SidecarInv ==
    backend = "local" => \A k \in blobs \ sidecars : k \in hidden \/ Halfway(k)

\* Signed exports stay: a cleanup deletes files of the users area.
UrlInv == \A k \in urls : k \in blobs /\ k.area = "exports"

\* An export names files of its own user.
ContentsInv ==
    \A k \in DOMAIN contents :
        contents[k].files \subseteq {f \in UserKeys : f.owner = k.owner}

\* A row that is not inserted has no owner; inactive accounts have a row.
OwnerInv ==
    /\ \A j \in Jobs : jobs[j].state = "none" => jobs[j].owner = "nobody"
    /\ \A o \in Owners : account[o] # "active" <=> \E j \in Jobs : jobs[j].owner = o

\* Of the files a cleanup saw, those that are still stored and were not put
\* again are left to delete or cannot be listed.
SeenInv ==
    /\ \A h \in Hands : Deleting(h) =>
           \A k \in jobs[hands[h].job].saw \cap blobs : k \in hands[h].todo \/ Unlisted(k)
    /\ \A h \in Hands : hands[h].op = "unlink" =>
           hands[h].key \notin jobs[hands[h].job].saw \cap blobs
    /\ \A j \in Jobs : jobs[j].state = "delivered" /\ ~jobs[j].skipped =>
           \A k \in jobs[j].saw \cap blobs : Unlisted(k)

DataInv ==
    /\ DataTypes /\ HandsHold /\ SidecarInv /\ UrlInv /\ ContentsInv /\ OwnerInv /\ SeenInv


\* Keys are in one of the two areas, and a user's prefix holds its own files.
LEMMA Areas ==
    /\ \A k \in UserKeys : k.area = "users" /\ k \in Keys
    /\ \A k \in ExportKeys : k.area = "exports" /\ k \in Keys
    /\ \A k \in Keys : k.area = "users" => k \in UserKeys
    /\ \A o : UserPrefix(o) \subseteq {f \in UserKeys : f.owner = o}
    /\ \A o : UserPrefix(o) \subseteq Keys
<1>1. \A k \in UserKeys : k.area = "users"
  BY DEF UserKeys
<1>2. \A k \in ExportKeys : k.area = "exports"
  BY DEF ExportKeys
<1> QED
  BY <1>1, <1>2 DEF Keys, UserPrefix

\* The initial states satisfy the invariant.
LEMMA DataStarts == DataInit => DataInv
<1> SUFFICES ASSUME DataInit PROVE DataInv
  OBVIOUS
<1>1. Idle \in Tasks /\ Unused \in JobRows
  BY DEF Idle, Unused, Tasks, JobRows, NoKey, NoJob
<1>2. DataTypes
  BY <1>1 DEF DataInit, DataTypes
<1>3. \A h \in Hands : hands[h].op = "idle" /\ hands[h].todo = {}
  BY DEF DataInit, Idle
<1>4. \A j \in Jobs : jobs[j].state = "none" /\ jobs[j].owner = "nobody"
  BY DEF DataInit, Unused
<1>5. HandsHold
  BY <1>3 DEF HandsHold, Cleaning
<1>6. OwnerInv
  BY <1>4, NobodyAssumption DEF OwnerInv, DataInit
<1>7. SeenInv
  BY <1>3, <1>4 DEF SeenInv, Deleting
<1>8. SidecarInv /\ UrlInv /\ ContentsInv
  BY DEF DataInit, SidecarInv, UrlInv, ContentsInv
<1> QED
  BY <1>2, <1>5, <1>6, <1>7, <1>8 DEF DataInv

\* A hand outside the storage calls takes up a task that is outside them too:
\* nothing that is said of the storage and of the rows changes.
LEMMA AsideHolds ==
    ASSUME DataInv, NEW h \in Hands, NEW t \in Tasks,
           hands[h].op \in {"idle", "put", "sign"},
           t.op \in {"idle", "put", "sign"}, t.op # "idle" => t.key \in Keys,
           t.op = "sign" => t.key.area = "exports", t.todo = {},
           hands' = [hands EXCEPT ![h] = t],
           UNCHANGED <<backend, account, blobs, sidecars, jobs, hidden>>
    PROVE  DataTypes' /\ HandsHold' /\ SidecarInv' /\ OwnerInv' /\ SeenInv'
<1>1. hands \in [Hands -> Tasks]
  BY DEF DataInv, DataTypes
<1>2. hands'[h] = t /\ \A g \in Hands : g # h => hands'[g] = hands[g]
  BY <1>1
<1>3. DataTypes'
  BY <1>1 DEF DataInv, DataTypes
<1>4. HandsHold'
  BY <1>2 DEF DataInv, HandsHold, Cleaning
<1>5. \A x : Halfway(x)' <=> Halfway(x)
  BY <1>2 DEF Halfway
<1>6. \A x : Unlisted(x)' <=> Unlisted(x)
  BY <1>5 DEF Unlisted
<1>7. SidecarInv' /\ OwnerInv'
  BY <1>5 DEF DataInv, SidecarInv, OwnerInv
<1>8. SeenInv'
  BY <1>2, <1>6 DEF DataInv, SeenInv, Deleting
<1> QED
  BY <1>3, <1>4, <1>7, <1>8

\* The task of a put, of a signature, and none.
LEMMA PlainTasks ==
    /\ Idle \in Tasks /\ Idle.op = "idle" /\ Idle.todo = {}
    /\ \A k \in Keys, o \in {"put", "sign"} :
          LET t == [Idle EXCEPT !.op = o, !.key = k]
          IN t \in Tasks /\ t.op = o /\ t.key = k /\ t.todo = {}
BY Zenon DEF Idle, Tasks, NoJob, NoKey

\* A feature starts to store a file.
LEMMA StartUploadKeeps ==
    ASSUME DataInv, NEW h \in Hands, NEW k \in UserKeys, StartUpload(h, k)
    PROVE  DataInv'
<1> DEFINE t == [Idle EXCEPT !.op = "put", !.key = k]
<1>1. k \in Keys
  BY Areas
<1>2. t \in Tasks /\ t.op = "put" /\ t.key = k /\ t.todo = {}
  BY <1>1, PlainTasks, Zenon
<1>3. /\ hands' = [hands EXCEPT ![h] = t] /\ hands[h].op = "idle"
      /\ UNCHANGED <<backend, account, blobs, sidecars, contents, jobs, urls, hidden>>
  BY PlainTasks, Zenon DEF StartUpload
<1> HIDE DEF t
<1>4. DataTypes' /\ HandsHold' /\ SidecarInv' /\ OwnerInv' /\ SeenInv'
  BY <1>1, <1>2, <1>3, AsideHolds, Zenon
<1>5. UrlInv' /\ ContentsInv'
  BY <1>3 DEF DataInv, UrlInv, ContentsInv
<1> QED
  BY <1>4, <1>5 DEF DataInv

\* An export builds its payload from the keys listed under its user's prefix.
LEMMA StartExportKeeps ==
    ASSUME DataInv, NEW h \in Hands, NEW k \in ExportKeys, NEW failed \in BOOLEAN,
           StartExport(h, k, failed)
    PROVE  DataInv'
<1> DEFINE t == [Idle EXCEPT !.op = "put", !.key = k]
<1>1. k \in Keys
  BY Areas
<1>2. t \in Tasks /\ t.op = "put" /\ t.key = k /\ t.todo = {}
  BY <1>1, PlainTasks, Zenon
<1>3. /\ hands' = [hands EXCEPT ![h] = t] /\ hands[h].op = "idle"
      /\ UNCHANGED <<backend, account, blobs, sidecars, jobs, urls, hidden>>
  BY PlainTasks, Zenon DEF StartExport
<1> HIDE DEF t
<1>4. DataTypes' /\ HandsHold' /\ SidecarInv' /\ OwnerInv' /\ SeenInv'
  BY <1>1, <1>2, <1>3, AsideHolds, Zenon
<1>5. UrlInv'
  BY <1>3 DEF DataInv, UrlInv
<1>6. Payload(k.owner, failed).files \subseteq {f \in UserKeys : f.owner = k.owner}
  BY Areas DEF Payload, Listed, LocalList, S3List
<1>7. ContentsInv'
  BY <1>6 DEF StartExport, DataInv, ContentsInv
<1> QED
  BY <1>4, <1>5, <1>7 DEF DataInv

\* An export asks for its URL: only a stored object is signed.
LEMMA SignKeeps ==
    ASSUME DataInv, NEW h \in Hands, Sign(h)
    PROVE  DataInv'
<1>1. /\ hands' = [hands EXCEPT ![h] = Idle] /\ hands[h].op = "sign"
      /\ UNCHANGED <<backend, account, blobs, sidecars, contents, jobs, hidden>>
  BY DEF Sign
<1>2. DataTypes' /\ HandsHold' /\ SidecarInv' /\ OwnerInv' /\ SeenInv'
  BY <1>1, PlainTasks, AsideHolds, Zenon
<1>3. hands[h].key.area = "exports"
  BY <1>1 DEF DataInv, HandsHold
<1>4. UrlInv'
  BY <1>1, <1>3 DEF Sign, Signed, DataInv, UrlInv
<1>5. ContentsInv'
  BY <1>1 DEF DataInv, ContentsInv
<1> QED
  BY <1>2, <1>4, <1>5 DEF DataInv


\* The rows after a put of k: nothing but what they saw changes.
LEMMA ForgetRows ==
    ASSUME DataInv, NEW k, jobs' = Forget(k)
    PROVE  /\ jobs' \in [Jobs -> JobRows]
           /\ \A j \in Jobs : /\ jobs'[j].state = jobs[j].state
                              /\ jobs'[j].owner = jobs[j].owner
                              /\ jobs'[j].skipped = jobs[j].skipped
                              /\ jobs'[j].saw = jobs[j].saw \ {k}
BY DEF DataInv, DataTypes, JobRows, Forget

\* put writes the bytes.  On the local backend the hand is then halfway; the
\* rows that saw the key forget it.
LEMMA WriteBlobKeeps ==
    ASSUME DataInv, NEW h \in Hands, WriteBlob(h)
    PROVE  DataInv'
<1> DEFINE k == hands[h].key
           t == IF KeepsSidecars THEN [hands[h] EXCEPT !.op = "sidecar"] ELSE AfterPut(k)
<1>1. hands \in [Hands -> Tasks] /\ hands[h].op = "put" /\ k \in Keys
  BY DEF DataInv, DataTypes, HandsHold, WriteBlob
<1>2. \A j \in Jobs : /\ jobs'[j].state = jobs[j].state
                      /\ jobs'[j].owner = jobs[j].owner
                      /\ jobs'[j].skipped = jobs[j].skipped
                      /\ jobs'[j].saw = jobs[j].saw \ {k}
  BY ForgetRows DEF WriteBlob
<1>3. jobs' \in [Jobs -> JobRows]
  BY ForgetRows DEF WriteBlob
<1>4. /\ t \in Tasks
      /\ backend = "local" => t.op = "sidecar" /\ t.key = k /\ t.todo = hands[h].todo
      /\ backend # "local" => t.op \in {"idle", "sign"} /\ t.todo = {}
      /\ t.op = "sign" => t.key = k /\ k.area = "exports"
  <2>1. CASE backend = "local"
    BY <2>1, <1>1 DEF KeepsSidecars, Tasks
  <2>2. CASE backend # "local"
    BY <2>2, <1>1, PlainTasks, Zenon DEF KeepsSidecars, AfterPut
  <2> QED
    BY <2>1, <2>2
<1>5. /\ hands' = [hands EXCEPT ![h] = t] /\ blobs' = blobs \cup {k}
      /\ UNCHANGED <<backend, account, sidecars, contents, urls, hidden>>
  BY DEF WriteBlob
<1> HIDE DEF t, k
<1>6. hands'[h] = t /\ \A g \in Hands : g # h => hands'[g] = hands[g]
  BY <1>1, <1>5
<1>7. DataTypes'
  BY <1>1, <1>3, <1>4, <1>5 DEF DataInv, DataTypes
<1>8. HandsHold'
  BY <1>1, <1>2, <1>4, <1>5, <1>6 DEF DataInv, HandsHold, Cleaning
<1>9. \A x : Halfway(x) => Halfway(x)'
  BY <1>1, <1>6 DEF Halfway
<1>10. \A x : x = k /\ backend = "local" => Halfway(x)'
  BY <1>4, <1>6 DEF Halfway
<1>11. SidecarInv'
  BY <1>5, <1>9, <1>10 DEF DataInv, SidecarInv
<1>12. UrlInv' /\ ContentsInv'
  BY <1>5 DEF DataInv, UrlInv, ContentsInv
<1>13. OwnerInv'
  BY <1>2, <1>5 DEF DataInv, OwnerInv
<1>14. \A x : Unlisted(x) => Unlisted(x)'
  BY <1>5, <1>9 DEF Unlisted
<1>15. SeenInv'
  <2>1. \A g \in Hands : Deleting(g)' => g # h /\ Deleting(g) /\ hands[g].job \in Jobs
    BY <1>4, <1>6 DEF Deleting, DataInv, HandsHold, Cleaning, DataTypes
  <2>2. \A g \in Hands : hands'[g].op = "unlink" => g # h /\ hands[g].op = "unlink" /\ hands[g].job \in Jobs
    BY <1>4, <1>6 DEF DataInv, HandsHold, Cleaning, DataTypes
  <2> QED
    BY <2>1, <2>2, <1>2, <1>5, <1>6, <1>14 DEF DataInv, SeenInv
<1> QED
  BY <1>7, <1>8, <1>11, <1>12, <1>13, <1>15 DEF DataInv

\* put writes the sidecar: the key can be listed, and the rows forget it again.
LEMMA WriteSidecarKeeps ==
    ASSUME DataInv, NEW h \in Hands, WriteSidecar(h)
    PROVE  DataInv'
<1> DEFINE k == hands[h].key
           t == AfterPut(k)
<1>1. hands \in [Hands -> Tasks] /\ hands[h].op = "sidecar" /\ k \in Keys
  BY DEF DataInv, DataTypes, HandsHold, WriteSidecar
<1>2. \A j \in Jobs : /\ jobs'[j].state = jobs[j].state
                      /\ jobs'[j].owner = jobs[j].owner
                      /\ jobs'[j].skipped = jobs[j].skipped
                      /\ jobs'[j].saw = jobs[j].saw \ {k}
  BY ForgetRows DEF WriteSidecar
<1>3. jobs' \in [Jobs -> JobRows]
  BY ForgetRows DEF WriteSidecar
<1>4. /\ t \in Tasks /\ t.op \in {"idle", "sign"} /\ t.todo = {}
      /\ t.op = "sign" => t.key = k /\ k.area = "exports"
  BY <1>1, PlainTasks, Zenon DEF AfterPut
<1>5. /\ hands' = [hands EXCEPT ![h] = t] /\ sidecars' = sidecars \cup {k}
      /\ hidden' = hidden \ {k}
      /\ UNCHANGED <<backend, account, blobs, contents, urls>>
  BY DEF WriteSidecar
<1>6. \A x : Halfway(x) => x = k \/ Halfway(x)'
  BY <1>1, <1>5 DEF Halfway
<1> HIDE DEF t, k
<1>7. hands'[h] = t /\ \A g \in Hands : g # h => hands'[g] = hands[g]
  BY <1>1, <1>5
<1>8. DataTypes'
  BY <1>1, <1>3, <1>4, <1>5 DEF DataInv, DataTypes
<1>9. HandsHold'
  BY <1>1, <1>2, <1>4, <1>5, <1>7 DEF DataInv, HandsHold, Cleaning
<1>10. SidecarInv'
  BY <1>5, <1>6 DEF DataInv, SidecarInv
<1>11. UrlInv' /\ ContentsInv'
  BY <1>5 DEF DataInv, UrlInv, ContentsInv
<1>12. OwnerInv'
  BY <1>2, <1>5 DEF DataInv, OwnerInv
<1>13. \A x : Unlisted(x) => x = k \/ Unlisted(x)'
  BY <1>5, <1>6 DEF Unlisted
<1>14. SeenInv'
  <2>1. \A g \in Hands : Deleting(g)' => g # h /\ Deleting(g) /\ hands[g].job \in Jobs
    BY <1>4, <1>7 DEF Deleting, DataInv, HandsHold, Cleaning, DataTypes
  <2>2. \A g \in Hands : hands'[g].op = "unlink" => g # h /\ hands[g].op = "unlink" /\ hands[g].job \in Jobs
    BY <1>4, <1>7 DEF DataInv, HandsHold, Cleaning, DataTypes
  <2> QED
    BY <2>1, <2>2, <1>2, <1>5, <1>7, <1>13 DEF DataInv, SeenInv
<1> QED
  BY <1>8, <1>9, <1>10, <1>11, <1>12, <1>14 DEF DataInv

\* A put stops where it stands: a key it leaves without a sidecar is hidden.
LEMMA PutFailsKeeps ==
    ASSUME DataInv, NEW h \in Hands, PutFails(h)
    PROVE  DataInv'
<1> DEFINE k == hands[h].key
<1>1. /\ hands \in [Hands -> Tasks] /\ hands[h].op \in {"put", "sidecar"} /\ k \in Keys
      /\ hands' = [hands EXCEPT ![h] = Idle]
      /\ UNCHANGED <<backend, account, blobs, sidecars, contents, jobs, urls>>
      /\ hidden' = IF hands[h].op = "sidecar" /\ k \notin sidecars THEN hidden \cup {k} ELSE hidden
  BY DEF DataInv, DataTypes, HandsHold, PutFails
<1>2. /\ hands'[h].op = "idle" /\ hands'[h].todo = {}
      /\ \A g \in Hands : g # h => hands'[g] = hands[g]
  BY <1>1, PlainTasks, Zenon
<1>3. DataTypes'
  BY <1>1, PlainTasks, Zenon DEF DataInv, DataTypes
<1>4. HandsHold'
  BY <1>1, <1>2 DEF DataInv, HandsHold, Cleaning
<1>5. \A x : Halfway(x) => Halfway(x)' \/ (x = k /\ hands[h].op = "sidecar")
  BY <1>2 DEF Halfway
<1>6. \A x : Unlisted(x) => Unlisted(x)'
  BY <1>1, <1>5 DEF Unlisted
<1>7. SidecarInv'
  BY <1>1, <1>5 DEF DataInv, SidecarInv
<1>8. UrlInv' /\ ContentsInv' /\ OwnerInv'
  BY <1>1 DEF DataInv, UrlInv, ContentsInv, OwnerInv
<1>9. SeenInv'
  BY <1>1, <1>2, <1>6 DEF DataInv, SeenInv, Deleting
<1> QED
  BY <1>3, <1>4, <1>7, <1>8, <1>9 DEF DataInv

\* Deactivation and erasure: the account and its row change together.
LEMMA ClosesKeeps ==
    ASSUME DataInv, NEW o \in Owners, NEW j \in Jobs, Deactivate(o, j) \/ Erase(o, j)
    PROVE  DataInv'
<1> DEFINE r == [Unused EXCEPT !.state = "pending", !.owner = o]
<1>1. r \in JobRows /\ r.state = "pending" /\ r.owner = o /\ r.saw = {}
  BY Zenon DEF Unused, JobRows
<1>2. /\ jobs' = [jobs EXCEPT ![j] = r] /\ jobs[j].state = "none"
      /\ UNCHANGED <<backend, blobs, sidecars, contents, hands, urls, hidden>>
  BY DEF Deactivate, Erase, Enqueued
<1> HIDE DEF r
<1>3. /\ jobs \in [Jobs -> JobRows] /\ hands \in [Hands -> Tasks]
      /\ account \in [Owners -> {"active", "inactive", "erased"}]
  BY DEF DataInv, DataTypes
<1>4. jobs'[j] = r /\ \A i \in Jobs : i # j => jobs'[i] = jobs[i]
  BY <1>2, <1>3
<1>5. /\ account' \in [Owners -> {"active", "inactive", "erased"}]
      /\ account'[o] # "active" /\ \A x \in Owners : x # o => account'[x] = account[x]
  BY <1>3 DEF Deactivate, Erase
<1>6. DataTypes'
  BY <1>1, <1>2, <1>3, <1>5 DEF DataInv, DataTypes
<1>7. \A h \in Hands : Cleaning(h) => hands[h].job # j
  BY <1>2 DEF DataInv, HandsHold
<1>8. HandsHold'
  BY <1>2, <1>4, <1>7 DEF DataInv, HandsHold, Cleaning
<1>9. \A x : Unlisted(x)' <=> Unlisted(x)
  BY <1>2 DEF Unlisted, Halfway
<1>10. SidecarInv' /\ UrlInv' /\ ContentsInv'
  BY <1>2 DEF DataInv, SidecarInv, UrlInv, ContentsInv, Halfway
<1>11. jobs[j].owner = "nobody"
  BY <1>2 DEF DataInv, OwnerInv
<1>12. OwnerInv'
  BY <1>1, <1>4, <1>5, <1>11, NobodyAssumption DEF DataInv, OwnerInv
<1>13. SeenInv'
  <2>1. \A h \in Hands : Deleting(h) => Cleaning(h)
    BY DEF Deleting, Cleaning
  <2>2. \A h \in Hands : hands[h].op = "unlink" => Cleaning(h)
    BY DEF Cleaning
  <2>3. \A h \in Hands : Cleaning(h) => hands[h].job \in Jobs
    BY DEF DataInv, HandsHold
  <2>4. \A h \in Hands : Deleting(h)' <=> Deleting(h)
    BY <1>2 DEF Deleting
  <2> QED
    BY <2>1, <2>2, <2>3, <2>4, <1>1, <1>2, <1>4, <1>7, <1>9 DEF DataInv, SeenInv
<1> QED
  BY <1>6, <1>8, <1>10, <1>12, <1>13 DEF DataInv

\* The relay claims a row for one worker.
LEMMA ClaimKeeps ==
    ASSUME DataInv, NEW h \in Hands, NEW j \in Jobs, Claim(h, j)
    PROVE  DataInv'
<1> DEFINE r == [jobs[j] EXCEPT !.state = "running", !.marked = TRUE]
           t == [Idle EXCEPT !.op = "list", !.job = j]
<1>1. jobs \in [Jobs -> JobRows] /\ hands \in [Hands -> Tasks]
  BY DEF DataInv, DataTypes
<1>2. /\ r \in JobRows /\ r.state = "running" /\ r.owner = jobs[j].owner
      /\ t \in Tasks /\ t.op = "list" /\ t.job = j /\ t.todo = {}
  BY <1>1, Zenon DEF JobRows, Tasks, Idle, NoKey
<1>3. jobs' = [jobs EXCEPT ![j] = r] /\ hands' = [hands EXCEPT ![h] = t]
  BY <1>1 DEF Claim, JobRows
<1>4. /\ jobs[j].state = "pending" /\ hands[h].op = "idle"
      /\ UNCHANGED <<backend, account, blobs, sidecars, contents, urls, hidden>>
  BY PlainTasks, Zenon DEF Claim
<1> HIDE DEF r, t
<1>5. /\ jobs'[j] = r /\ \A i \in Jobs : i # j => jobs'[i] = jobs[i]
      /\ hands'[h] = t /\ \A g \in Hands : g # h => hands'[g] = hands[g]
  BY <1>1, <1>3
<1>6. DataTypes'
  BY <1>1, <1>2, <1>3, <1>4 DEF DataInv, DataTypes
<1>7. \A g \in Hands : Cleaning(g) => hands[g].job \in Jobs /\ hands[g].job # j
  BY <1>4 DEF DataInv, HandsHold
<1>8. HandsHold'
  BY <1>2, <1>4, <1>5, <1>7 DEF DataInv, HandsHold, Cleaning
<1>9. \A x : Halfway(x)' <=> Halfway(x)
  BY <1>2, <1>4, <1>5 DEF Halfway
<1>10. \A x : Unlisted(x)' <=> Unlisted(x)
  BY <1>4, <1>9 DEF Unlisted
<1>11. SidecarInv' /\ UrlInv' /\ ContentsInv'
  BY <1>4, <1>9 DEF DataInv, SidecarInv, UrlInv, ContentsInv
<1>12. OwnerInv'
  BY <1>2, <1>4, <1>5 DEF DataInv, OwnerInv
<1>13. SeenInv'
  BY <1>2, <1>4, <1>5, <1>7, <1>10 DEF DataInv, SeenInv, Deleting, Cleaning
<1> QED
  BY <1>6, <1>8, <1>11, <1>12, <1>13 DEF DataInv

\* A row whose mark an earlier attempt left is delivered without a cleanup.
LEMMA ClaimDedupedKeeps ==
    ASSUME DataInv, NEW h \in Hands, NEW j \in Jobs, ClaimDeduped(h, j)
    PROVE  DataInv'
<1> DEFINE r == [jobs[j] EXCEPT !.state = "delivered", !.skipped = TRUE]
<1>1. jobs \in [Jobs -> JobRows]
  BY DEF DataInv, DataTypes
<1>2. /\ r \in JobRows /\ r.state = "delivered" /\ r.owner = jobs[j].owner /\ r.skipped
  BY <1>1, Zenon DEF JobRows
<1>3. jobs' = [jobs EXCEPT ![j] = r]
  BY <1>1, Zenon DEF ClaimDeduped, JobRows
<1>4. /\ jobs[j].state = "pending"
      /\ UNCHANGED <<backend, account, blobs, sidecars, contents, hands, urls, hidden>>
  BY DEF ClaimDeduped
<1> HIDE DEF r
<1>5. jobs'[j] = r /\ \A i \in Jobs : i # j => jobs'[i] = jobs[i]
  BY <1>1, <1>3
<1>6. DataTypes'
  BY <1>1, <1>2, <1>3, <1>4 DEF DataInv, DataTypes
<1>7. \A g \in Hands : Cleaning(g) => hands[g].job \in Jobs /\ hands[g].job # j
  BY <1>4 DEF DataInv, HandsHold
<1>8. HandsHold'
  BY <1>4, <1>5, <1>7 DEF DataInv, HandsHold, Cleaning
<1>9. \A x : Unlisted(x)' <=> Unlisted(x)
  BY <1>4 DEF Unlisted, Halfway
<1>10. SidecarInv' /\ UrlInv' /\ ContentsInv'
  BY <1>4 DEF DataInv, SidecarInv, UrlInv, ContentsInv, Halfway
<1>11. OwnerInv'
  BY <1>2, <1>4, <1>5 DEF DataInv, OwnerInv
<1>12. SeenInv'
  BY <1>2, <1>4, <1>5, <1>7, <1>9 DEF DataInv, SeenInv, Deleting, Cleaning
<1> QED
  BY <1>6, <1>8, <1>10, <1>11, <1>12 DEF DataInv

\* A cleanup goes on with todo, or ends and its row is delivered.
LEMMA AdvanceHolds ==
    ASSUME DataInv, NEW h \in Hands, Cleaning(h), NEW todo \in SUBSET Keys,
           \A k \in todo : k.area = "users",
           NEW rows \in [Jobs -> JobRows],
           \A i \in Jobs : i # hands[h].job => rows[i] = jobs[i],
           rows[hands[h].job].state = "running",
           rows[hands[h].job].owner = jobs[hands[h].job].owner,
           Advance(h, todo, rows), UNCHANGED <<backend, account>>
    PROVE  /\ jobs' \in [Jobs -> JobRows] /\ hands' \in [Hands -> Tasks]
           /\ \A g \in Hands : g # h => hands'[g] = hands[g]
           /\ \A i \in Jobs : i # hands[h].job => jobs'[i] = jobs[i]
           /\ jobs'[hands[h].job].saw = rows[hands[h].job].saw
           /\ todo = {} => hands'[h].op = "idle"
           /\ todo # {} => /\ hands'[h].op = "delete" /\ hands'[h].job = hands[h].job
                           /\ hands'[h].todo = todo
                           /\ jobs'[hands[h].job].state = "running"
           /\ HandsHold' /\ OwnerInv'
<1> DEFINE j == hands[h].job
           r == [rows[j] EXCEPT !.state = "delivered"]
           t == [Idle EXCEPT !.op = "delete", !.job = j, !.todo = todo]
<1>1. jobs \in [Jobs -> JobRows] /\ hands \in [Hands -> Tasks] /\ j \in Jobs
  BY DEF DataInv, DataTypes, HandsHold
<1>2. /\ r \in JobRows /\ r.state = "delivered" /\ r.owner = jobs[j].owner
      /\ r.saw = rows[j].saw
      /\ t \in Tasks /\ t.op = "delete" /\ t.job = j /\ t.todo = todo
  BY <1>1, Zenon DEF JobRows, Tasks, Idle, NoKey
<1>3. jobs' = IF todo = {} THEN [rows EXCEPT ![j] = r] ELSE rows
  BY <1>1 DEF Advance, JobRows
<1>4. hands' = [hands EXCEPT ![h] = IF todo = {} THEN Idle ELSE t]
  BY DEF Advance
<1> HIDE DEF r, t
<1>5. /\ jobs' \in [Jobs -> JobRows]
      /\ \A i \in Jobs : i # j => jobs'[i] = jobs[i]
      /\ jobs'[j] = IF todo = {} THEN r ELSE rows[j]
  BY <1>1, <1>2, <1>3
<1>6. /\ hands' \in [Hands -> Tasks]
      /\ \A g \in Hands : g # h => hands'[g] = hands[g]
      /\ todo = {} => hands'[h].op = "idle" /\ hands'[h].todo = {}
      /\ todo # {} => hands'[h] = t
  BY <1>1, <1>2, <1>4, PlainTasks, Zenon
<1>7. jobs'[j].owner = jobs[j].owner /\ jobs'[j].saw = rows[j].saw
  BY <1>2, <1>5
<1>8. jobs'[j].state \in {"running", "delivered"} /\ (todo # {} => jobs'[j].state = "running")
  BY <1>2, <1>5
<1>9. \A g \in Hands : Cleaning(g) /\ g # h => hands[g].job # j
  BY DEF DataInv, HandsHold
<1>10. \A g \in Hands : Cleaning(g) /\ g # h => hands'[g].job \in Jobs /\ jobs'[hands'[g].job].state = "running"
  BY <1>5, <1>6, <1>9 DEF DataInv, HandsHold
<1> HIDE DEF j
<1>11. HandsHold'
  BY <1>1, <1>2, <1>6, <1>8, <1>9, <1>10 DEF DataInv, HandsHold, Cleaning
<1>12. \A i \in Jobs : jobs'[i].owner = jobs[i].owner /\ (jobs'[i].state = "none" => jobs[i].state = "none")
  BY <1>5, <1>7, <1>8
<1>13. OwnerInv'
  BY <1>12 DEF DataInv, OwnerInv
<1> QED
  BY <1>2, <1>5, <1>6, <1>7, <1>8, <1>11, <1>13 DEF j

\* delete_user_assets lists the prefix: what it does not list is unlisted.
LEMMA ListAssetsKeeps ==
    ASSUME DataInv, NEW h \in Hands, ListAssets(h)
    PROVE  DataInv'
<1> DEFINE j == hands[h].job
           o == jobs[j].owner
           seen == (blobs \cap UserPrefix(o)) \ hidden
           rows == [jobs EXCEPT ![j].saw = seen]
           todo == Listed(o)
<1>1. /\ jobs \in [Jobs -> JobRows] /\ hands \in [Hands -> Tasks] /\ j \in Jobs
      /\ hands[h].op = "list" /\ Cleaning(h) /\ jobs[j].state = "running"
  BY DEF ListAssets, DataInv, DataTypes, HandsHold, Cleaning
<1>2. Advance(h, todo, rows)
  BY DEF ListAssets
<1>3. UNCHANGED <<backend, account, blobs, sidecars, contents, urls, hidden>>
  BY DEF ListAssets
<1>4. todo \in SUBSET Keys /\ \A k \in todo : k.area = "users"
  BY DEF Listed, LocalList, S3List, UserPrefix
<1>5. seen \in SUBSET Keys
  BY DEF UserPrefix
<1>6. \A k \in seen : k \in todo \/ Unlisted(k)
  BY DEF Listed, LocalList, S3List, Unlisted, DataInv, DataTypes, SidecarInv
<1> HIDE DEF seen, todo
<1>7. /\ rows \in [Jobs -> JobRows]
      /\ \A i \in Jobs : i # j => rows[i] = jobs[i]
      /\ rows[j].state = "running" /\ rows[j].owner = jobs[j].owner /\ rows[j].saw = seen
  BY <1>1, <1>5 DEF JobRows
<1> HIDE DEF rows
<1>8. /\ jobs' \in [Jobs -> JobRows] /\ hands' \in [Hands -> Tasks]
      /\ \A g \in Hands : g # h => hands'[g] = hands[g]
      /\ \A i \in Jobs : i # j => jobs'[i] = jobs[i]
      /\ jobs'[j].saw = seen
      /\ todo = {} => hands'[h].op = "idle"
      /\ todo # {} => /\ hands'[h].op = "delete" /\ hands'[h].job = j
                      /\ hands'[h].todo = todo /\ jobs'[j].state = "running"
      /\ HandsHold' /\ OwnerInv'
  BY <1>1, <1>2, <1>3, <1>4, <1>7, AdvanceHolds
<1>9. DataTypes'
  BY <1>3, <1>8 DEF DataInv, DataTypes
<1>10. \A x : Halfway(x)' <=> Halfway(x)
  BY <1>1, <1>8 DEF Halfway
<1>11. \A x : Unlisted(x)' <=> Unlisted(x)
  BY <1>3, <1>10 DEF Unlisted
<1>12. SidecarInv' /\ UrlInv' /\ ContentsInv'
  BY <1>3, <1>10 DEF DataInv, SidecarInv, UrlInv, ContentsInv
<1>13. \A g \in Hands : Cleaning(g) /\ g # h => hands[g].job \in Jobs /\ hands[g].job # j
  BY <1>1 DEF DataInv, HandsHold
<1> HIDE DEF j
<1>14. SeenInv'
  <2>1. \A g \in Hands : Deleting(g)' =>
            \A k \in jobs'[hands'[g].job].saw \cap blobs : k \in hands'[g].todo \/ Unlisted(k)
    BY <1>6, <1>8, <1>13 DEF DataInv, SeenInv, Deleting, Cleaning
  <2>2. \A g \in Hands : hands'[g].op = "unlink" =>
            hands'[g].key \notin jobs'[hands'[g].job].saw \cap blobs
    BY <1>8, <1>13 DEF DataInv, SeenInv, Cleaning
  <2>3. \A i \in Jobs : jobs'[i].state = "delivered" /\ ~jobs'[i].skipped =>
            \A k \in jobs'[i].saw \cap blobs : Unlisted(k)
    BY <1>6, <1>8 DEF DataInv, SeenInv
  <2> QED
    BY <2>1, <2>2, <2>3, <1>3, <1>11 DEF SeenInv
<1> QED
  BY <1>8, <1>9, <1>12, <1>14 DEF DataInv

\* One delete on S3.
LEMMA DeleteObjectKeeps ==
    ASSUME DataInv, NEW h \in Hands, NEW k \in Keys, DeleteObject(h, k)
    PROVE  DataInv'
<1> DEFINE j == hands[h].job
           todo == hands[h].todo \ {k}
<1>1. /\ jobs \in [Jobs -> JobRows] /\ hands \in [Hands -> Tasks] /\ j \in Jobs
      /\ hands[h].op = "delete" /\ Cleaning(h) /\ jobs[j].state = "running"
      /\ hands[h].todo \in SUBSET Keys
  BY DEF DeleteObject, DataInv, DataTypes, HandsHold, Cleaning, Tasks
<1>2. Advance(h, todo, jobs)
  BY DEF DeleteObject, Remaining
<1>3. /\ UNCHANGED <<backend, account, sidecars, contents, urls, hidden>>
      /\ blobs' = blobs \ {k} /\ backend = "s3"
  BY DEF DeleteObject, Discard
<1>4. k.area = "users" /\ todo \in SUBSET Keys /\ \A x \in todo : x.area = "users"
  BY <1>1 DEF DeleteObject, DataInv, HandsHold
<1>5. \A x \in jobs[j].saw \cap blobs : x \in hands[h].todo \/ Unlisted(x)
  BY <1>1 DEF DataInv, SeenInv, Deleting
<1>6. \A x \in jobs[j].saw \cap blobs' : x \in todo \/ Unlisted(x)
  BY <1>3, <1>5
<1> HIDE DEF todo
<1>7. /\ jobs' \in [Jobs -> JobRows] /\ hands' \in [Hands -> Tasks]
      /\ \A g \in Hands : g # h => hands'[g] = hands[g]
      /\ \A i \in Jobs : i # j => jobs'[i] = jobs[i]
      /\ jobs'[j].saw = jobs[j].saw
      /\ todo = {} => hands'[h].op = "idle"
      /\ todo # {} => /\ hands'[h].op = "delete" /\ hands'[h].job = j
                      /\ hands'[h].todo = todo /\ jobs'[j].state = "running"
      /\ HandsHold' /\ OwnerInv'
  BY <1>1, <1>2, <1>3, <1>4, AdvanceHolds
<1>8. DataTypes'
  BY <1>3, <1>7 DEF DataInv, DataTypes
<1>9. \A x : Unlisted(x)' <=> Unlisted(x)
  BY <1>1, <1>3, <1>7 DEF Unlisted, Halfway
<1>10. SidecarInv'
  BY <1>3 DEF SidecarInv
<1>11. UrlInv' /\ ContentsInv'
  BY <1>3, <1>4 DEF DataInv, UrlInv, ContentsInv
<1>12. \A g \in Hands : Cleaning(g) /\ g # h => hands[g].job \in Jobs /\ hands[g].job # j
  BY <1>1 DEF DataInv, HandsHold
<1> HIDE DEF j
<1>13. SeenInv'
  <2>1. \A g \in Hands : Deleting(g)' =>
            \A x \in jobs'[hands'[g].job].saw \cap blobs' : x \in hands'[g].todo \/ Unlisted(x)
    BY <1>3, <1>6, <1>7, <1>12 DEF DataInv, SeenInv, Deleting, Cleaning
  <2>2. \A g \in Hands : hands'[g].op = "unlink" =>
            hands'[g].key \notin jobs'[hands'[g].job].saw \cap blobs'
    BY <1>3, <1>7, <1>12 DEF DataInv, SeenInv, Cleaning
  <2>3. \A i \in Jobs : jobs'[i].state = "delivered" /\ ~jobs'[i].skipped =>
            \A x \in jobs'[i].saw \cap blobs' : Unlisted(x)
    BY <1>3, <1>6, <1>7 DEF DataInv, SeenInv
  <2> QED
    BY <2>1, <2>2, <2>3, <1>9 DEF SeenInv
<1> QED
  BY <1>7, <1>8, <1>10, <1>11, <1>13 DEF DataInv

\* The local delete unlinks the bytes.
LEMMA UnlinkFirstKeeps ==
    ASSUME DataInv, NEW h \in Hands, NEW k \in Keys, UnlinkFirst(h, k)
    PROVE  DataInv'
<1> DEFINE t == [hands[h] EXCEPT !.op = "unlink", !.key = k]
<1>1. /\ hands \in [Hands -> Tasks] /\ hands[h].op = "delete" /\ k \in hands[h].todo
      /\ hands[h].job \in Jobs /\ jobs[hands[h].job].state = "running"
  BY DEF UnlinkFirst, DataInv, DataTypes, HandsHold, Cleaning
<1>2. /\ t \in Tasks /\ t.op = "unlink" /\ t.key = k
      /\ t.job = hands[h].job /\ t.todo = hands[h].todo
  BY <1>1, Zenon DEF Tasks
<1>3. hands' = [hands EXCEPT ![h] = t]
  BY <1>1, Zenon DEF UnlinkFirst, Tasks
<1>4. /\ UNCHANGED <<backend, account, sidecars, contents, jobs, urls>>
      /\ blobs' = blobs \ {k} /\ hidden' = hidden \ {k} /\ backend = "local"
  BY DEF UnlinkFirst, Discard, RemovalOrder
<1> HIDE DEF t
<1>5. hands'[h] = t /\ \A g \in Hands : g # h => hands'[g] = hands[g]
  BY <1>1, <1>3
<1>6. DataTypes'
  BY <1>1, <1>2, <1>3, <1>4 DEF DataInv, DataTypes
<1>7. k.area = "users"
  BY <1>1 DEF DataInv, HandsHold
<1>8. HandsHold'
  BY <1>1, <1>2, <1>4, <1>5, <1>7 DEF DataInv, HandsHold, Cleaning
<1>9. \A x : Halfway(x)' <=> Halfway(x)
  BY <1>1, <1>2, <1>5 DEF Halfway
<1>10. \A x : Unlisted(x) => x = k \/ Unlisted(x)'
  BY <1>4, <1>9 DEF Unlisted
<1>11. SidecarInv'
  BY <1>4, <1>9 DEF DataInv, SidecarInv
<1>12. UrlInv' /\ ContentsInv' /\ OwnerInv'
  BY <1>4, <1>7 DEF DataInv, UrlInv, ContentsInv, OwnerInv
<1>13. SeenInv'
  BY <1>1, <1>2, <1>4, <1>5, <1>10 DEF DataInv, SeenInv, Deleting
<1> QED
  BY <1>6, <1>8, <1>11, <1>12, <1>13 DEF DataInv

\* The local delete unlinks the sidecar: bytes put in between are hidden.
LEMMA UnlinkSecondKeeps ==
    ASSUME DataInv, NEW h \in Hands, UnlinkSecond(h)
    PROVE  DataInv'
<1> DEFINE j == hands[h].job
           k == hands[h].key
           todo == hands[h].todo \ {k}
<1>1. /\ jobs \in [Jobs -> JobRows] /\ hands \in [Hands -> Tasks] /\ j \in Jobs
      /\ hands[h].op = "unlink" /\ Cleaning(h) /\ jobs[j].state = "running"
      /\ hands[h].todo \in SUBSET Keys /\ k \in Keys
  BY DEF UnlinkSecond, DataInv, DataTypes, HandsHold, Cleaning, Tasks
<1>2. Advance(h, todo, jobs)
  BY DEF UnlinkSecond, Remaining
<1>3. /\ UNCHANGED <<backend, account, blobs, contents, urls>>
      /\ sidecars' = sidecars \ {k}
      /\ hidden' = IF k \in blobs THEN hidden \cup {k} ELSE hidden
  BY DEF UnlinkSecond, Discard, RemovalOrder
<1>4. todo \in SUBSET Keys /\ \A x \in todo : x.area = "users"
  BY <1>1 DEF DataInv, HandsHold
<1>5. /\ \A x \in jobs[j].saw \cap blobs : x \in hands[h].todo \/ Unlisted(x)
      /\ k \notin jobs[j].saw \cap blobs
  BY <1>1 DEF DataInv, SeenInv, Deleting
<1>6. \A x \in jobs[j].saw \cap blobs : x \in todo \/ Unlisted(x)
  BY <1>5
<1> HIDE DEF todo
<1>7. /\ jobs' \in [Jobs -> JobRows] /\ hands' \in [Hands -> Tasks]
      /\ \A g \in Hands : g # h => hands'[g] = hands[g]
      /\ \A i \in Jobs : i # j => jobs'[i] = jobs[i]
      /\ jobs'[j].saw = jobs[j].saw
      /\ todo = {} => hands'[h].op = "idle"
      /\ todo # {} => /\ hands'[h].op = "delete" /\ hands'[h].job = j
                      /\ hands'[h].todo = todo /\ jobs'[j].state = "running"
      /\ HandsHold' /\ OwnerInv'
  BY <1>1, <1>2, <1>3, <1>4, AdvanceHolds
<1>8. DataTypes'
  BY <1>3, <1>7, Zenon DEF DataInv, DataTypes
<1>9. \A x : Halfway(x)' <=> Halfway(x)
  BY <1>1, <1>7 DEF Halfway
<1>10. \A x : Unlisted(x) => Unlisted(x)'
  BY <1>3, <1>9 DEF Unlisted
<1> HIDE DEF k
<1>11. SidecarInv'
  BY <1>3, <1>9 DEF DataInv, SidecarInv
<1>12. UrlInv' /\ ContentsInv'
  BY <1>3 DEF DataInv, UrlInv, ContentsInv
<1>13. \A g \in Hands : Cleaning(g) /\ g # h => hands[g].job \in Jobs /\ hands[g].job # j
  BY <1>1 DEF DataInv, HandsHold
<1> HIDE DEF j
<1>14. SeenInv'
  <2>1. \A g \in Hands : Deleting(g)' =>
            \A x \in jobs'[hands'[g].job].saw \cap blobs : x \in hands'[g].todo \/ Unlisted(x)
    BY <1>6, <1>7, <1>13 DEF DataInv, SeenInv, Deleting, Cleaning
  <2>2. \A g \in Hands : hands'[g].op = "unlink" =>
            hands'[g].key \notin jobs'[hands'[g].job].saw \cap blobs
    BY <1>7, <1>13 DEF DataInv, SeenInv, Cleaning
  <2>3. \A i \in Jobs : jobs'[i].state = "delivered" /\ ~jobs'[i].skipped =>
            \A x \in jobs'[i].saw \cap blobs : Unlisted(x)
    BY <1>6, <1>7 DEF DataInv, SeenInv
  <2> QED
    BY <2>1, <2>2, <2>3, <1>3, <1>10 DEF SeenInv
<1> QED
  BY <1>7, <1>8, <1>11, <1>12, <1>14 DEF DataInv

\* A cleanup stops, by an error or a crash: its row is pending or failed, and
\* promises nothing.
LEMMA CleanupStopsKeeps ==
    ASSUME DataInv, NEW h \in Hands, CleanupFails(h) \/ WorkerDies(h)
    PROVE  DataInv'
<1> DEFINE j == hands[h].job
           n == IF CleanupFails(h) THEN jobs[j].tries + 1 ELSE jobs[j].tries
           s == IF CleanupFails(h) /\ jobs[j].tries + 1 >= MaxTries THEN "failed" ELSE "pending"
           r == [jobs[j] EXCEPT !.tries = n, !.state = s]
<1>1. /\ jobs \in [Jobs -> JobRows] /\ hands \in [Hands -> Tasks] /\ j \in Jobs
      /\ Cleaning(h) /\ jobs[j].state = "running"
  BY DEF CleanupFails, WorkerDies, DataInv, DataTypes, HandsHold, Cleaning
<1>2. n \in Nat /\ s \in {"pending", "failed"}
  BY <1>1 DEF JobRows
<1>3. jobs' = [jobs EXCEPT ![j] = r]
  <2>1. CASE CleanupFails(h)
    BY <2>1, <1>1 DEF CleanupFails, JobRows
  <2>2. CASE ~CleanupFails(h)
    BY <2>2, <1>1, Zenon DEF WorkerDies, JobRows
  <2> QED
    BY <2>1, <2>2
<1> HIDE DEF n, s
<1>4. r \in JobRows /\ r.state \in {"pending", "failed"} /\ r.owner = jobs[j].owner
  BY <1>1, <1>2, Zenon DEF JobRows
<1> HIDE DEF r
<1>5. /\ UNCHANGED <<backend, account, blobs, sidecars, contents, urls, hidden>>
      /\ hands' = [hands EXCEPT ![h] = Idle]
  BY DEF CleanupFails, WorkerDies
<1>6. /\ jobs'[j] = r /\ \A i \in Jobs : i # j => jobs'[i] = jobs[i]
      /\ hands'[h].op = "idle" /\ hands'[h].todo = {}
      /\ \A g \in Hands : g # h => hands'[g] = hands[g]
  BY <1>1, <1>3, <1>5, PlainTasks, Zenon
<1>7. DataTypes'
  BY <1>1, <1>3, <1>4, <1>5, PlainTasks, Zenon DEF DataInv, DataTypes
<1>8. \A g \in Hands : Cleaning(g) /\ g # h => hands[g].job \in Jobs /\ hands[g].job # j
  BY <1>1 DEF DataInv, HandsHold
<1> HIDE DEF j
<1>9. HandsHold'
  BY <1>5, <1>6, <1>8 DEF DataInv, HandsHold, Cleaning
<1>10. \A x : Halfway(x)' <=> Halfway(x)
  BY <1>1, <1>6 DEF Halfway, Cleaning
<1>11. \A x : Unlisted(x)' <=> Unlisted(x)
  BY <1>5, <1>10 DEF Unlisted
<1>12. SidecarInv' /\ UrlInv' /\ ContentsInv'
  BY <1>5, <1>10 DEF DataInv, SidecarInv, UrlInv, ContentsInv
<1>13. OwnerInv'
  BY <1>4, <1>5, <1>6 DEF DataInv, OwnerInv
<1>14. SeenInv'
  BY <1>4, <1>5, <1>6, <1>8, <1>11 DEF DataInv, SeenInv, Deleting, Cleaning
<1> QED
  BY <1>7, <1>9, <1>12, <1>13, <1>14 DEF DataInv

\* Every step keeps the invariant.
LEMMA DataStep == DataInv /\ [DataNext]_dataVars => DataInv'
<1> SUFFICES ASSUME DataInv, [DataNext]_dataVars PROVE DataInv'
  OBVIOUS
<1>1. CASE UNCHANGED dataVars
  BY <1>1 DEF dataVars, DataInv, DataTypes, HandsHold, Cleaning, SidecarInv, Halfway, UrlInv,
              ContentsInv, OwnerInv, SeenInv, Deleting, Unlisted
<1>2. ASSUME NEW o \in Owners, NEW j \in Jobs, Deactivate(o, j) \/ Erase(o, j)
      PROVE  DataInv'
  BY <1>2, ClosesKeeps
<1>3. ASSUME NEW h \in Hands, HandStep(h) PROVE DataInv'
  BY <1>3, WriteBlobKeeps, WriteSidecarKeeps, PutFailsKeeps, SignKeeps, ListAssetsKeeps,
     UnlinkSecondKeeps, CleanupStopsKeeps, StartUploadKeeps, DeleteObjectKeeps,
     UnlinkFirstKeeps, StartExportKeeps, ClaimKeeps, ClaimDedupedKeeps DEF HandStep
<1> QED
  BY <1>1, <1>2, <1>3 DEF DataNext

\* The inductive invariant of the storage and its cleanup always holds.
LEMMA DataAlways == DataSpec => []DataInv
BY DataStarts, DataStep, PTL DEF DataSpec

\* Whatever puts, deletes, crashes and cleanups overlap, on either backend: the
\* only unlisted bytes are those of a running or a broken call, a signed URL
\* leads to a stored export, and an export names files of its own user.
THEOREM StorageStaysConsistent == DataSpec => []StorageConsistent
<1>1. DataInv => StorageConsistent
  BY DEF DataInv, SidecarInv, UrlInv, ContentsInv, StorageConsistent, Halfway, Busy
<1> QED
  BY <1>1, DataAlways, PTL

\* Exactly the accounts that are not active have a cleanup row, and a row that
\* a full attempt delivered has removed every file it saw, except those put
\* again since or that no list could find, for any number of users, files,
\* rows, workers and retries.
THEOREM CleanupIsComplete == DataSpec => []CleanupComplete
<1>1. DataInv => CleanupComplete
  BY DEF DataInv, OwnerInv, SeenInv, CleanupComplete, Unlisted, Halfway, Busy
<1> QED
  BY <1>1, DataAlways, PTL

(***************************************************************************)
(* The HTTP application.                                                   *)
(***************************************************************************)

\* The length of the chain.
ChainLength == Len(Chain)

\* s has five inner layers, those of core, and up to k - 5 others, all of T.
Grown(s, core, S, T, k) ==
    /\ s \in Seq(S) /\ Len(s) \in 5..k
    /\ \A i \in 1..5 : s[i] = core[i]
    /\ \A i \in 6..Len(s) : s[i] \in T

\* At most one layer of T is put behind five inner layers and others of T.
LEMMA OneMore ==
    ASSUME NEW S, NEW s, NEW core, NEW t, NEW T, NEW k \in Nat,
           Grown(s, core, S, T, k), t \in Seq(S), Len(t) \in 0..1, Len(t) = 1 => t[1] \in T
    PROVE  Grown(s \o t, core, S, T, k + 1)
<1> DEFINE c == s \o t
           m == Len(s)
           n == Len(t)
<1>1. m \in 5..k /\ n \in 0..1 /\ s \in Seq(S)
  BY DEF Grown
<1>2. c \in Seq(S) /\ Len(c) = m + n
  BY <1>1, ConcatProperties
<1>3. \A i \in 1..(m + n) : c[i] = IF i <= m THEN s[i] ELSE t[i - m]
  BY <1>1, ConcatProperties
<1>4. \A i \in 6..m : s[i] \in T
  BY DEF Grown
<1>5. n = 1 => t[1] \in T
  OBVIOUS
<1> HIDE DEF c, m, n
<1>6. \A i \in 1..5 : c[i] = core[i]
  BY <1>1, <1>3 DEF Grown
<1>7. ASSUME NEW i \in 6..(m + n) PROVE c[i] \in T
  <2>1. CASE i <= m
    BY <1>1, <1>3, <1>4, <2>1
  <2>2. CASE ~(i <= m)
    <3>1. i = m + 1 /\ n = 1 /\ i - m = 1
      BY <1>1, <2>2
    <3> QED
      BY <1>1, <1>3, <1>5, <2>2, <3>1
  <2> QED
    BY <2>1, <2>2
<1>8. m + n \in 5..(k + 1)
  BY <1>1
<1> QED
  BY <1>2, <1>6, <1>7, <1>8 DEF Grown, c, m, n

\* A sequence of one layer, or of none.
LEMMA AtMostOne ==
    ASSUME NEW S, NEW l \in S, NEW q, q = <<l>> \/ q = <<>>
    PROVE  q \in Seq(S) /\ Len(q) \in 0..1 /\ (Len(q) = 1 => q[1] = l)
<1>1. <<l>> \in Seq(S) /\ Len(<<l>>) \in 0..1 /\ <<l>>[1] = l
  OBVIOUS
<1>2. <<>> \in Seq(S) /\ Len(<<>>) \in 0..1 /\ Len(<<>>) # 1
  OBVIOUS
<1>3. CASE q = <<l>>
  BY <1>1, <1>3, Zenon
<1>4. CASE q = <<>>
  BY <1>2, <1>4, Zenon
<1> QED
  BY <1>3, <1>4

\* The five innermost layers are those of every deployment, in this order; the
\* layers outside them neither write the policy headers nor name the request.
LEMMA ChainShape ==
    LET n == ChainLength
    IN /\ n \in 5..8
       /\ Chain[n - 4] = "SecurityHeaders" /\ Chain[n - 3] = "GZip"
       /\ Chain[n - 2] = "ContentSizeLimit" /\ Chain[n - 1] = "RequestContext"
       /\ Chain[n] = "AccessLog"
       /\ \A i \in 1..(n - 5) : Chain[i] \in {"TrustedHost", "Cors", "ProxyHeaders"}
<1> DEFINE Names == {"AccessLog", "RequestContext", "ContentSizeLimit", "GZip", "SecurityHeaders",
                     "TrustedHost", "Cors", "ProxyHeaders"}
           x == IF deploy.environment # "development" THEN <<"TrustedHost">> ELSE <<>>
           y == IF deploy.cors # "none" THEN <<"Cors">> ELSE <<>>
           z == IF deploy.proxied THEN <<"ProxyHeaders">> ELSE <<>>
           core == <<"AccessLog", "RequestContext", "ContentSizeLimit", "GZip", "SecurityHeaders">>
           all == ((core \o x) \o y) \o z
           Outer == {"TrustedHost", "Cors", "ProxyHeaders"}
<1>1. /\ core \in Seq(Names) /\ Len(core) = 5
      /\ core[1] = "AccessLog" /\ core[2] = "RequestContext" /\ core[3] = "ContentSizeLimit"
      /\ core[4] = "GZip" /\ core[5] = "SecurityHeaders"
  OBVIOUS
<1>2. Chain = Reverse(all)
  BY DEF Chain, Added
<1>3. /\ "TrustedHost" \in Names /\ "Cors" \in Names /\ "ProxyHeaders" \in Names
      /\ "TrustedHost" \in Outer /\ "Cors" \in Outer /\ "ProxyHeaders" \in Outer
  OBVIOUS
<1>4. x = <<"TrustedHost">> \/ x = <<>>
  OBVIOUS
<1>5. y = <<"Cors">> \/ y = <<>>
  OBVIOUS
<1>6. z = <<"ProxyHeaders">> \/ z = <<>>
  OBVIOUS
<1> HIDE DEF Names, Outer, x, y, z, core
<1>7. x \in Seq(Names) /\ Len(x) \in 0..1 /\ (Len(x) = 1 => x[1] \in Outer)
  BY <1>3, <1>4, AtMostOne, Zenon
<1>8. y \in Seq(Names) /\ Len(y) \in 0..1 /\ (Len(y) = 1 => y[1] \in Outer)
  BY <1>3, <1>5, AtMostOne, Zenon
<1>9. z \in Seq(Names) /\ Len(z) \in 0..1 /\ (Len(z) = 1 => z[1] \in Outer)
  BY <1>3, <1>6, AtMostOne, Zenon
<1>10. PICK u : u = core \o x
  BY Zenon
<1>11. PICK v : v = u \o y
  BY Zenon
<1>12. PICK w : w = v \o z
  BY Zenon
<1>13. Grown(core, core, Names, Outer, 5)
  BY <1>1 DEF Grown
<1>14. Grown(u, core, Names, Outer, 5 + 1)
  BY <1>7, <1>10, <1>13, OneMore
<1>15. Grown(v, core, Names, Outer, 6 + 1)
  BY <1>8, <1>11, <1>14, OneMore
<1>16. Grown(w, core, Names, Outer, 7 + 1)
  BY <1>9, <1>12, <1>15, OneMore
<1>17. /\ w \in Seq(Names) /\ Len(w) \in 5..8 /\ \A i \in 1..5 : w[i] = core[i]
       /\ \A i \in 6..Len(w) : w[i] \in Outer
  BY <1>16 DEF Grown
<1>18. Chain = Reverse(w)
  BY <1>2, <1>10, <1>11, <1>12
<1>19. Len(Chain) = Len(w) /\ \A i \in 1..Len(w) : Chain[i] = w[(Len(w) - i) + 1]
  BY <1>17, <1>18 DEF Reverse
<1>20. PICK n \in 5..8 : n = Len(w)
  BY <1>17
<1>21. ChainLength = n /\ \A i \in 1..n : Chain[i] = w[(n - i) + 1]
  BY <1>19, <1>20 DEF ChainLength
<1>22. \A i \in 1..(n - 5) : Chain[i] \in Outer
  <2> TAKE i \in 1..(n - 5)
  <2>1. (n - i) + 1 \in 6..n /\ i \in 1..n
    OBVIOUS
  <2> QED
    BY <2>1, <1>17, <1>20, <1>21
<1>23. /\ Chain[n - 4] = w[5] /\ Chain[n - 3] = w[4] /\ Chain[n - 2] = w[3]
       /\ Chain[n - 1] = w[2] /\ Chain[n] = w[1]
  BY <1>21
<1>24. /\ Chain[n - 4] = core[5] /\ Chain[n - 3] = core[4] /\ Chain[n - 2] = core[3]
       /\ Chain[n - 1] = core[2] /\ Chain[n] = core[1]
  BY <1>23, <1>17
<1> QED
  BY <1>1, <1>21, <1>22, <1>24 DEF Outer


(***************************************************************************)
(* The inductive invariant of Http: what is known of the request and of    *)
(* the response at each depth of the chain.                                *)
(***************************************************************************)

TraceIds == {"valid", "generated", "malformed"}

Requests == [origin : Headers \cup {"unread"}, referer : Headers \cup {"unread", "malformed"},
             cookie : BOOLEAN, route : AppRoutes \cup {"unread"},
             id : {"none", "valid", "generated"}]

HttpTypes ==
    /\ stage \in {"down", "guard", "handle", "up", "sent"}
    /\ depth \in 0..ChainLength
    /\ request \in Requests
    /\ handled \in BOOLEAN
    /\ response = Answer(response.status, response.by, response.headers, response.body)

\* On the way in nothing is answered, logged or reported, and the request is
\* named once it is inside RequestContext.
WayInInv ==
    stage \in {"down", "guard", "handle"} =>
        /\ stage = "down" => depth < ChainLength /\ raised = NoException /\ ~handled
        /\ stage # "down" => depth = ChainLength
        /\ request.id = "none" <=> depth <= ChainLength - 2
        /\ logged = <<>> /\ reported = <<>>
        /\ raised.headers \cap TraceIds = {}

\* The use case of a cookie route ran for a request whose provenance holds.
HandledInv ==
    handled => /\ stage \in {"handle", "up", "sent"}
               /\ request.route \in CookieRoutes => Provenance(request, deploy)

\* The response of a route on its way out: logged by the innermost layer, named
\* by the next, and given the policy headers by the fifth.
RouteOut ==
    /\ request.id # "none" /\ reported = <<>>
    /\ logged = IF depth = ChainLength THEN <<>> ELSE <<response.status>>
    /\ depth <= ChainLength - 2 => request.id \in response.headers
    /\ raised.kind \notin {"none", "unknown_action"} => request.id \in response.body

\* The response of a layer on its way out: the request never got a name.
LayerOut ==
    /\ depth <= ChainLength - 3 /\ request.id = "none"
    /\ logged = <<>> /\ reported = <<>>

\* The response to an unhandled exception, made outside every layer.
ServerOut == depth = 0 /\ logged = <<0>> /\ reported = <<request.id>>

WayOutInv ==
    stage \in {"up", "sent"} =>
        /\ stage = "sent" => depth = 0
        /\ \/ response.by = "route" /\ RouteOut
           \/ response.by \in {"ContentSizeLimit", "Cors", "TrustedHost"} /\ LayerOut
           \/ response.by = "server" /\ ServerOut
        /\ (response.headers \cup response.body) \cap TraceIds \subseteq {request.id}
        /\ response.by \in {"route", "ContentSizeLimit"} /\ depth <= ChainLength - 5 =>
              /\ "baseline" \in response.headers
              /\ deploy.environment = "production" => "hsts" \in response.headers

HttpInv == HttpTypes /\ WayInInv /\ HandledInv /\ WayOutInv

\* Where the layers that answer or name the request stand.
LEMMA Positions ==
    /\ ChainLength \in 5..8
    /\ \A i \in 1..ChainLength :
          /\ Chain[i] = "RequestContext" <=> i = ChainLength - 1
          /\ Chain[i] = "AccessLog" <=> i = ChainLength
          /\ Chain[i] = "SecurityHeaders" <=> i = ChainLength - 4
          /\ Chain[i] = "ContentSizeLimit" <=> i = ChainLength - 2
          /\ Chain[i] \in {"Cors", "TrustedHost"} => i <= ChainLength - 5
<1>1. PICK n \in 5..8 : n = ChainLength
  BY ChainShape
<1>2. /\ Chain[n - 4] = "SecurityHeaders" /\ Chain[n - 3] = "GZip"
      /\ Chain[n - 2] = "ContentSizeLimit" /\ Chain[n - 1] = "RequestContext"
      /\ Chain[n] = "AccessLog"
      /\ \A i \in 1..(n - 5) : Chain[i] \in {"TrustedHost", "Cors", "ProxyHeaders"}
  BY <1>1, ChainShape
<1>3. ASSUME NEW i \in 1..n
      PROVE  /\ Chain[i] = "RequestContext" <=> i = n - 1
             /\ Chain[i] = "AccessLog" <=> i = n
             /\ Chain[i] = "SecurityHeaders" <=> i = n - 4
             /\ Chain[i] = "ContentSizeLimit" <=> i = n - 2
             /\ Chain[i] \in {"Cors", "TrustedHost"} => i <= n - 5
  <2>1. i = n - 4 \/ i = n - 3 \/ i = n - 2 \/ i = n - 1 \/ i = n \/ i \in 1..(n - 5)
    OBVIOUS
  <2> QED
    BY <2>1, <1>2
<1> QED
  BY <1>1, <1>3

\* The chain is that of the deployment.
LEMMA SameChain ==
    ASSUME deploy' = deploy
    PROVE  ChainLength' = ChainLength /\ Chain' = Chain
BY DEF ChainLength, Chain

\* A request that has been read nothing of is a request.
LEMMA FreshRequest == Fresh \in Requests /\ Fresh.id = "none"
BY DEF Fresh, Requests

\* The initial states satisfy the invariant.
LEMMA HttpStarts == HttpInit => HttpInv
<1> SUFFICES ASSUME HttpInit PROVE HttpInv
  OBVIOUS
<1>1. HttpTypes
  <2>1. response = Answer(response.status, response.by, response.headers, response.body)
    BY DEF HttpInit, NoResponse, Answer
  <2>2. 0 \in 0..ChainLength
    BY Positions
  <2> QED
    BY <2>1, <2>2, FreshRequest, Zenon DEF HttpInit, HttpTypes
<1>2. raised.headers \cap TraceIds = {}
  BY DEF HttpInit, NoException
<1>3. WayInInv
  BY <1>2, FreshRequest, Positions DEF HttpInit, WayInInv
<1>4. HandledInv /\ WayOutInv
  BY DEF HttpInit, HandledInv, WayOutInv
<1> QED
  BY <1>1, <1>3, <1>4 DEF HttpInv

\* The request goes one layer in; RequestContext gives it its name.
LEMMA EnterHolds ==
    ASSUME HttpInv, stage = "down", NEW r \in Requests, Enter(r),
           Layer = "RequestContext" => r.id # "none",
           Layer # "RequestContext" => r.id = request.id
    PROVE  HttpInv'
<1> DEFINE n == ChainLength
<1>1. n \in 5..8 /\ ChainLength' = n /\ depth \in 0..n /\ depth < n
  BY Positions, SameChain DEF HttpInv, HttpTypes, WayInInv, Enter
<1>2. depth' = depth + 1 /\ request' = r /\ stage' = IF depth + 1 = n THEN "guard" ELSE "down"
  BY <1>1 DEF Enter, ChainLength
<1>3. UNCHANGED <<deploy, response, raised, handled, logged, reported>>
  BY DEF Enter
<1>4. Layer = "RequestContext" <=> depth = n - 2
  BY <1>1, Positions DEF Layer
<1>5. /\ request.id = "none" <=> depth <= n - 2
      /\ logged = <<>> /\ reported = <<>> /\ raised = NoException /\ ~handled
      /\ raised.headers \cap TraceIds = {}
  BY DEF HttpInv, WayInInv
<1> HIDE DEF n
<1>6. HttpTypes'
  BY <1>1, <1>2, <1>3 DEF HttpInv, HttpTypes, Answer
<1>7. r.id = "none" <=> depth + 1 <= n - 2
  BY <1>1, <1>4, <1>5
<1>8. WayInInv'
  BY <1>1, <1>2, <1>3, <1>5, <1>7 DEF WayInInv, NoException, TraceIds
<1>9. HandledInv' /\ WayOutInv'
  BY <1>2, <1>3, <1>5 DEF HandledInv, WayOutInv
<1> QED
  BY <1>6, <1>8, <1>9 DEF HttpInv

\* A layer outside RequestContext answers by itself.
LEMMA StopHolds ==
    ASSUME HttpInv, stage = "down", NEW status, NEW body, Stop(status, body),
           Layer \in {"ContentSizeLimit", "Cors", "TrustedHost"},
           body \cap TraceIds \subseteq {request.id}
    PROVE  HttpInv'
<1> DEFINE n == ChainLength
<1>1. n \in 5..8 /\ ChainLength' = n /\ depth \in 0..n /\ depth < n
  BY Positions, SameChain DEF HttpInv, HttpTypes, WayInInv, Stop
<1>2. UNCHANGED <<deploy, request, depth, raised, handled, logged, reported>> /\ stage' = "up"
  BY DEF Stop
<1>3. /\ response' = Answer(status, Layer, {}, body)
      /\ response'.by = Layer /\ response'.headers = {} /\ response'.body = body
      /\ response'.status = status
  BY DEF Stop, Answer
<1>4. depth <= n - 3 /\ (Layer = "ContentSizeLimit" => depth = n - 3)
  BY <1>1, Positions DEF Layer
<1>5. request.id = "none" /\ logged = <<>> /\ reported = <<>> /\ ~handled
  BY <1>1, <1>4 DEF HttpInv, WayInInv
<1> HIDE DEF n
<1>6. HttpTypes'
  BY <1>1, <1>2, <1>3 DEF HttpInv, HttpTypes
<1>7. WayInInv' /\ HandledInv'
  BY <1>2, <1>5 DEF WayInInv, HandledInv
<1>8. LayerOut'
  BY <1>1, <1>2, <1>4, <1>5 DEF LayerOut
<1>9. WayOutInv'
  BY <1>1, <1>2, <1>3, <1>4, <1>8 DEF WayOutInv
<1> QED
  BY <1>6, <1>7, <1>9 DEF HttpInv

\* The way in, layer by layer.
LEMMA WayInKeeps == ASSUME HttpInv, WayIn PROVE HttpInv'
<1>1. request \in Requests
  BY DEF HttpInv, HttpTypes
<1>2. CASE PassThrough
  BY <1>1, <1>2, EnterHolds DEF PassThrough
<1>3. ASSUME NEW o \in Headers, NEW p \in BOOLEAN, CorsLayer(o, p) PROVE HttpInv'
  <2> DEFINE r == [request EXCEPT !.origin = o]
  <2>1. r \in Requests /\ r.id = request.id
    BY <1>1 DEF Requests
  <2>2. stage = "down" /\ Layer = "Cors"
    BY <1>3 DEF CorsLayer
  <2>3. Enter(r) \/ \E s : Stop(s, {})
    BY <1>3 DEF CorsLayer
  <2> HIDE DEF r
  <2> QED
    BY <2>1, <2>2, <2>3, EnterHolds, StopHolds
<1>4. ASSUME NEW known \in BOOLEAN, TrustedHostLayer(known) PROVE HttpInv'
  BY <1>1, <1>4, EnterHolds, StopHolds DEF TrustedHostLayer
<1>5. ASSUME NEW l, NEW c \in BOOLEAN, ContentSizeLayer(l, c) PROVE HttpInv'
  <2> DEFINE b == {"problem"} \cup (IF request.id = "none" THEN {} ELSE {request.id})
  <2>1. stage = "down" /\ Layer = "ContentSizeLimit"
    BY <1>5 DEF ContentSizeLayer
  <2>2. Enter(request) \/ \E s : Stop(s, b)
    BY <1>5 DEF ContentSizeLayer
  <2>3. b \cap TraceIds \subseteq {request.id}
    BY DEF TraceIds
  <2> HIDE DEF b
  <2> QED
    BY <1>1, <2>1, <2>2, <2>3, EnterHolds, StopHolds
<1>6. ASSUME NEW sent, RequestContextLayer(sent) PROVE HttpInv'
  <2> DEFINE r == [request EXCEPT !.id = ResolvedId(sent)]
  <2>1. r \in Requests /\ r.id # "none"
    BY <1>1 DEF Requests, ResolvedId
  <2>2. stage = "down" /\ Layer = "RequestContext" /\ Enter(r)
    BY <1>6 DEF RequestContextLayer
  <2> HIDE DEF r
  <2> QED
    BY <2>1, <2>2, EnterHolds
<1> QED
  BY <1>2, <1>3, <1>4, <1>5, <1>6 DEF WayIn

\* No exception of a guard or of a route carries a header that names a request.
LEMMA ExceptionHeaders ==
    /\ \A r : \A e \in GuardRefusals(r) : e.headers \cap TraceIds = {}
    /\ \A r : \A e \in RouteErrors(r) : e.headers = {}
    /\ \A k, s : Exception(k, s, {}).headers = {} /\ Exception(k, s, {}).kind = k
<1>1. \A k, s, h : Exception(k, s, h).headers = h /\ Exception(k, s, h).kind = k
  BY DEF Exception
<1>2. \A e : FromAuthError(e).headers = {} /\ FromUserError(e).headers = {}
  BY <1>1 DEF FromAuthError, FromUserError
<1>3. \A r : \A e \in RouteErrors(r) : e.headers = {}
  BY <1>2 DEF RouteErrors
<1>4. \A e \in PlatformRefusals \cup AuthRefusals \cup AdminRefusals : e.headers \cap TraceIds = {}
  BY <1>1, <1>2 DEF PlatformRefusals, AuthRefusals, AdminRefusals, TraceIds
<1>5. \A e \in {Unrouted, Invalid, BadCursor, WrongPassword, TooManyRequests} : e.headers \cap TraceIds = {}
  BY <1>1 DEF Unrouted, Invalid, BadCursor, WrongPassword, TooManyRequests, TraceIds
<1>6. \A r : \A e \in GuardRefusals(r) : e.headers \cap TraceIds = {}
  BY <1>4, <1>5 DEF GuardRefusals
<1> QED
  BY <1>1, <1>3, <1>6

\* The route is matched, a guard or the use case raises, or the use case runs.
LEMMA InsideKeeps ==
    ASSUME HttpInv, stage \in {"guard", "handle"}, stage' \in {"guard", "handle"},
           NEW r \in Requests, request' = r, r.id = request.id,
           raised'.headers \cap TraceIds = {},
           handled' \in BOOLEAN,
           handled' => /\ stage' = "handle"
                       /\ r.route \in CookieRoutes => Provenance(r, deploy),
           UNCHANGED <<deploy, depth, response, logged, reported>>
    PROVE  HttpInv'
<1>1. ChainLength' = ChainLength /\ ChainLength \in 5..8
  BY SameChain, Positions
<1>2. HttpTypes'
  BY <1>1 DEF HttpInv, HttpTypes, Answer
<1>3. WayInInv'
  BY <1>1 DEF HttpInv, WayInInv
<1>4. HandledInv'
  BY DEF HandledInv
<1>5. WayOutInv'
  BY DEF WayOutInv
<1> QED
  BY <1>2, <1>3, <1>4, <1>5 DEF HttpInv

\* The application answers from inside every layer.
LEMMA AnswerHolds ==
    ASSUME HttpInv, stage \in {"guard", "handle"}, stage' = "up",
           NEW status, NEW headers, NEW body,
           response' = Answer(status, "route", headers, body),
           headers \cap TraceIds = {}, body \cap TraceIds \subseteq {request.id},
           raised.kind \notin {"none", "unknown_action"} => request.id \in body,
           UNCHANGED <<deploy, request, depth, raised, handled, logged, reported>>
    PROVE  HttpInv'
<1>1. ChainLength' = ChainLength /\ ChainLength \in 5..8
  BY SameChain, Positions
<1>2. /\ response'.by = "route" /\ response'.headers = headers /\ response'.body = body
      /\ response'.status = status
  BY DEF Answer
<1>3. depth = ChainLength /\ request.id # "none" /\ logged = <<>> /\ reported = <<>>
  BY <1>1 DEF HttpInv, WayInInv
<1>4. HttpTypes'
  BY <1>1, <1>2 DEF HttpInv, HttpTypes
<1>5. WayInInv'
  BY DEF WayInInv
<1>6. HandledInv'
  BY DEF HttpInv, HandledInv
<1>7. RouteOut'
  BY <1>1, <1>2, <1>3 DEF RouteOut
<1>8. WayOutInv'
  BY <1>1, <1>2, <1>3, <1>7 DEF WayOutInv
<1> QED
  BY <1>4, <1>5, <1>6, <1>8 DEF HttpInv

\* The route, its guards and its handler.
LEMMA RouteStepKeeps == ASSUME HttpInv, RouteStep PROVE HttpInv'
<1>1. request \in Requests /\ handled \in BOOLEAN
  BY DEF HttpInv, HttpTypes
<1>2. stage \in {"guard", "handle"} => raised.headers \cap TraceIds = {}
  BY DEF HttpInv, WayInInv
<1>3. stage = "guard" => ~handled
  BY <1>1 DEF HttpInv, HandledInv
<1>4. ASSUME NEW t \in AppRoutes, NEW o \in Headers, NEW f \in Headers \cup {"malformed"},
             NEW c \in BOOLEAN, MatchRoute(t, o, f, c)
      PROVE  HttpInv'
  <2> DEFINE r == [request EXCEPT !.route = t, !.origin = o, !.referer = f, !.cookie = c]
  <2>1. r \in Requests /\ r.id = request.id
    BY <1>1, Zenon DEF Requests
  <2>2. /\ request' = r /\ stage = "guard"
        /\ UNCHANGED <<deploy, stage, depth, response, raised, handled, logged, reported>>
    BY <1>4 DEF MatchRoute
  <2> HIDE DEF r
  <2> QED
    BY <1>1, <1>2, <1>3, <2>1, <2>2, InsideKeeps
<1>5. ASSUME NEW e \in GuardRefusals(request), GuardRaises(e) PROVE HttpInv'
  <2>1. e.headers \cap TraceIds = {}
    BY ExceptionHeaders
  <2> QED
    BY <1>1, <1>3, <1>5, <2>1, InsideKeeps DEF GuardRaises
<1>6. CASE CookieRefused
  <2>1. raised'.headers \cap TraceIds = {}
    BY <1>6, ExceptionHeaders DEF CookieRefused
  <2> QED
    BY <1>1, <1>3, <1>6, <2>1, InsideKeeps DEF CookieRefused
<1>7. CASE CallUseCase
  BY <1>1, <1>2, <1>7, InsideKeeps DEF CallUseCase
<1>8. CASE HandlerReturns
  <2>1. SetsCookie(request.route) \cap TraceIds = {}
    BY DEF SetsCookie, TraceIds
  <2>2. raised.kind = "none"
    BY <1>8 DEF HandlerReturns, NoException
  <2> QED
    BY <1>8, <2>1, <2>2, AnswerHolds DEF HandlerReturns
<1>9. ASSUME NEW e \in RouteErrors(request.route) \cup {Exception("unhandled", 500, {})},
             HandlerRaises(e)
      PROVE  HttpInv'
  <2>1. e.headers \cap TraceIds = {}
    BY ExceptionHeaders
  <2>2. handled /\ request.route \in CookieRoutes => Provenance(request, deploy)
    BY DEF HttpInv, HandledInv
  <2> QED
    BY <1>1, <1>9, <2>1, <2>2, InsideKeeps DEF HandlerRaises
<1> QED
  BY <1>4, <1>5, <1>6, <1>7, <1>8, <1>9 DEF RouteStep

\* An exception handler writes the problem of a raised exception.
LEMMA RenderProblemKeeps == ASSUME HttpInv, RenderProblem PROVE HttpInv'
<1> DEFINE b == IF raised.kind = "unknown_action" THEN {"problem"} ELSE {"problem", request.id}
<1>1. b \cap TraceIds \subseteq {request.id}
  BY DEF TraceIds
<1>2. raised.kind # "unknown_action" => request.id \in b
  OBVIOUS
<1>3. ProblemHeaders(raised) \cap TraceIds = {}
  BY DEF HttpInv, WayInInv, RenderProblem, ProblemHeaders
<1>4. /\ response' = Answer(raised.status, "route", ProblemHeaders(raised), b)
      /\ stage \in {"guard", "handle"} /\ stage' = "up"
      /\ UNCHANGED <<deploy, request, depth, raised, handled, logged, reported>>
  BY DEF RenderProblem
<1> HIDE DEF b
<1> QED
  BY <1>1, <1>2, <1>3, <1>4, AnswerHolds

\* An unhandled exception leaves every layer and is reported outside them.
LEMMA UnhandledKeeps == ASSUME HttpInv, UnhandledException PROVE HttpInv'
<1>1. ChainLength' = ChainLength /\ ChainLength \in 5..8
  BY SameChain, Positions DEF UnhandledException
<1>2. /\ response' = Answer(500, "server", {}, {"problem", request.id})
      /\ stage = "handle" /\ stage' = "up" /\ depth' = 0
      /\ UNCHANGED <<deploy, request, raised, handled>>
  BY DEF UnhandledException
<1>3. /\ response'.by = "server" /\ response'.headers = {}
      /\ response'.body = {"problem", request.id} /\ response'.status = 500
  BY <1>2 DEF Answer
<1>4. logged = <<>> /\ reported = <<>>
  BY <1>2 DEF HttpInv, WayInInv
<1>5. logged' = <<0>> /\ reported' = <<request.id>>
  BY <1>4 DEF UnhandledException
<1>6. HttpTypes'
  BY <1>1, <1>2, <1>3 DEF HttpInv, HttpTypes
<1>7. WayInInv'
  BY <1>2 DEF WayInInv
<1>8. HandledInv'
  BY <1>2 DEF HttpInv, HandledInv
<1>9. ServerOut'
  BY <1>2, <1>5 DEF ServerOut
<1>10. (response'.headers \cup response'.body) \cap TraceIds \subseteq {request'.id}
  BY <1>2, <1>3 DEF TraceIds
<1>11. WayOutInv'
  BY <1>2, <1>3, <1>9, <1>10 DEF WayOutInv, TraceIds
<1> QED
  BY <1>6, <1>7, <1>8, <1>11 DEF HttpInv

\* What the layer at i adds: RequestContext alone names the request, and
\* SecurityHeaders adds the policy headers.
LEMMA AddedHeaders ==
    ASSUME NEW i \in 1..ChainLength
    PROVE  /\ i # ChainLength - 1 => LayerHeaders(Chain[i]) \cap TraceIds = {}
           /\ i = ChainLength - 1 => LayerHeaders(Chain[i]) = {request.id}
           /\ i = ChainLength - 4 =>
                 /\ "baseline" \in LayerHeaders(Chain[i])
                 /\ deploy.environment = "production" => "hsts" \in LayerHeaders(Chain[i])
<1>1. PICK l : l = Chain[i]
  OBVIOUS
<1>2. /\ l = "RequestContext" <=> i = ChainLength - 1
      /\ l = "SecurityHeaders" <=> i = ChainLength - 4
  BY <1>1, Positions
<1>3. ChainLength \in 5..8
  BY Positions
<1>4. l = "SecurityHeaders" => /\ LayerHeaders(l) \cap TraceIds = {}
                               /\ "baseline" \in LayerHeaders(l)
                               /\ deploy.environment = "production" => "hsts" \in LayerHeaders(l)
  BY DEF LayerHeaders, TraceIds
<1>5. l = "RequestContext" => LayerHeaders(l) = {request.id}
  BY DEF LayerHeaders
<1>6. l \notin {"SecurityHeaders", "RequestContext"} => LayerHeaders(l) \cap TraceIds = {}
  BY DEF LayerHeaders, TraceIds
<1> QED
  BY <1>1, <1>2, <1>3, <1>4, <1>5, <1>6

\* The response passes one layer outwards.
LEMMA PassOutKeeps == ASSUME HttpInv, PassOut PROVE HttpInv'
<1> DEFINE n == ChainLength
           add == LayerHeaders(Chain[depth])
<1>1. ChainLength' = n /\ n \in 5..8 /\ depth \in 1..n /\ depth' = depth - 1
  BY SameChain, Positions DEF PassOut, HttpInv, HttpTypes
<1>2. stage = "up" /\ UNCHANGED <<deploy, request, stage, raised, handled, reported>>
  BY DEF PassOut
<1>3. /\ response' = [response EXCEPT !.headers = @ \cup add]
      /\ response = Answer(response.status, response.by, response.headers, response.body)
  BY DEF PassOut, HttpInv, HttpTypes
<1>4. /\ depth # n - 1 => add \cap TraceIds = {}
      /\ depth = n - 1 => add = {request.id}
      /\ depth = n - 4 => /\ "baseline" \in add
                          /\ deploy.environment = "production" => "hsts" \in add
  BY <1>1, AddedHeaders
<1>5. logged' = IF depth = n THEN Append(logged, response.status) ELSE logged
  BY <1>1, Positions DEF PassOut
<1> HIDE DEF add, n
<1>6. /\ response' = Answer(response'.status, response'.by, response'.headers, response'.body)
      /\ response'.by = response.by /\ response'.status = response.status
      /\ response'.body = response.body /\ response'.headers = response.headers \cup add
  BY <1>3 DEF Answer
<1>7. HttpTypes'
  BY <1>1, <1>2, <1>6 DEF HttpInv, HttpTypes
<1>8. WayInInv'
  BY <1>2 DEF WayInInv
<1>9. HandledInv'
  BY <1>2 DEF HttpInv, HandledInv
<1>10. (response'.headers \cup response'.body) \cap TraceIds \subseteq {request'.id}
  BY <1>2, <1>4, <1>6 DEF HttpInv, WayOutInv
<1>11. CASE response.by = "route"
  <2>1. /\ RouteOut
        /\ depth <= n - 5 => /\ "baseline" \in response.headers
                             /\ deploy.environment = "production" => "hsts" \in response.headers
    BY <1>2, <1>11 DEF HttpInv, WayOutInv, n
  <2>2. logged = IF depth = n THEN <<>> ELSE <<response.status>>
    BY <2>1 DEF RouteOut, n
  <2>3. logged' = <<response.status>>
    BY <1>5, <2>2
  <2>4. depth - 1 # n /\ depth - 1 <= n - 1
    BY <1>1
  <2>5. RouteOut'
    BY <1>1, <1>2, <1>4, <1>6, <2>1, <2>3, <2>4 DEF RouteOut, n
  <2>6. depth - 1 <= n - 5 => /\ "baseline" \in response'.headers
                              /\ deploy.environment = "production" => "hsts" \in response'.headers
    BY <1>1, <1>4, <1>6, <2>1
  <2>7. WayOutInv'
    BY <1>1, <1>2, <1>6, <1>10, <1>11, <2>5, <2>6 DEF WayOutInv
  <2> QED
    BY <1>7, <1>8, <1>9, <2>7 DEF HttpInv
<1>12. CASE response.by \in {"ContentSizeLimit", "Cors", "TrustedHost"}
  <2>1. /\ LayerOut
        /\ response.by = "ContentSizeLimit" /\ depth <= n - 5 =>
              /\ "baseline" \in response.headers
              /\ deploy.environment = "production" => "hsts" \in response.headers
    BY <1>2, <1>12 DEF HttpInv, WayOutInv, n
  <2>2. LayerOut'
    BY <1>1, <1>2, <1>5, <2>1 DEF LayerOut, n
  <2>3. response.by = "ContentSizeLimit" /\ depth - 1 <= n - 5 =>
              /\ "baseline" \in response'.headers
              /\ deploy.environment = "production" => "hsts" \in response'.headers
    BY <1>1, <1>4, <1>6, <2>1
  <2>4. WayOutInv'
    BY <1>1, <1>2, <1>6, <1>10, <1>12, <2>2, <2>3 DEF WayOutInv
  <2> QED
    BY <1>7, <1>8, <1>9, <2>4 DEF HttpInv
<1>13. response.by \in {"route", "ContentSizeLimit", "Cors", "TrustedHost"}
  BY <1>1, <1>2 DEF HttpInv, WayOutInv, ServerOut
<1> QED
  BY <1>11, <1>12, <1>13

\* The response is sent.
LEMMA SendKeeps == ASSUME HttpInv, Send PROVE HttpInv'
<1>1. ChainLength' = ChainLength
  BY SameChain DEF Send
<1>2. /\ UNCHANGED <<deploy, request, depth, response, raised, handled, logged, reported>>
      /\ depth = 0 /\ stage = "up" /\ stage' = "sent"
  BY DEF Send
<1>3. HttpTypes'
  BY <1>1, <1>2 DEF HttpInv, HttpTypes, Answer
<1>4. WayInInv' /\ HandledInv'
  BY <1>2 DEF HttpInv, WayInInv, HandledInv
<1>5. WayOutInv'
  BY <1>1, <1>2 DEF HttpInv, WayOutInv, RouteOut, LayerOut, ServerOut
<1> QED
  BY <1>3, <1>4, <1>5 DEF HttpInv

\* The connection's next request starts afresh.
LEMMA NextRequestKeeps == ASSUME HttpInv, NextRequest PROVE HttpInv'
<1>1. ChainLength' = ChainLength /\ ChainLength \in 5..8
  BY SameChain, Positions DEF NextRequest
<1>2. depth = 0 /\ depth' = 0
  BY DEF HttpInv, WayOutInv, NextRequest
<1>3. /\ request' = Fresh /\ stage' = "down" /\ response' = NoResponse
      /\ raised' = NoException /\ handled' = FALSE /\ logged' = <<>> /\ reported' = <<>>
  BY DEF NextRequest
<1>4. response' = Answer(response'.status, response'.by, response'.headers, response'.body)
  BY <1>3 DEF NoResponse, Answer
<1>5. HttpTypes'
  <2>1. Fresh \in Requests'
    BY FreshRequest DEF Requests, AppRoutes
  <2>2. depth' \in 0..ChainLength'
    BY <1>1, <1>2
  <2> QED
    BY <1>3, <1>4, <2>1, <2>2, Zenon DEF HttpTypes
<1>6. raised'.headers \cap TraceIds = {}
  BY <1>3 DEF NoException
<1>7. WayInInv'
  BY <1>1, <1>2, <1>3, <1>6, FreshRequest DEF WayInInv, TraceIds
<1>8. HandledInv' /\ WayOutInv'
  BY <1>3 DEF HandledInv, WayOutInv
<1> QED
  BY <1>5, <1>7, <1>8 DEF HttpInv

\* Every step keeps the invariant.
LEMMA HttpStep == HttpInv /\ [HttpNext]_httpVars => HttpInv'
<1> SUFFICES ASSUME HttpInv, [HttpNext]_httpVars PROVE HttpInv'
  OBVIOUS
<1>1. CASE UNCHANGED httpVars
  <2>1. ChainLength' = ChainLength
    BY <1>1, SameChain DEF httpVars
  <2> QED
    BY <1>1, <2>1 DEF httpVars, HttpInv, HttpTypes, Answer, WayInInv, HandledInv, WayOutInv,
                      RouteOut, LayerOut, ServerOut
<1> QED
  BY <1>1, WayInKeeps, RouteStepKeeps, RenderProblemKeeps, UnhandledKeeps, PassOutKeeps,
     SendKeeps, NextRequestKeeps DEF HttpNext

\* The inductive invariant of the application always holds.
LEMMA HttpAlways == HttpSpec => []HttpInv
BY HttpStarts, HttpStep, PTL DEF HttpSpec

\* Whatever a deployment adds to the chain, every response made at or inside
\* the size limit carries the policy headers, and HSTS in production.
THEOREM PolicyHeadersReachClients == HttpSpec => []PolicyHeaders
<1>1. HttpInv => PolicyHeaders
  BY Positions DEF HttpInv, WayOutInv, PolicyHeaders
<1> QED
  BY <1>1, HttpAlways, PTL

\* Whatever a deployment adds to the chain, the header, the problem body, the
\* report and the access line of a request agree on its id and its status.
THEOREM RequestsAreTraced == HttpSpec => []RequestTraced
<1>1. HttpInv => RequestTraced
  <2> SUFFICES ASSUME HttpInv, stage = "sent" PROVE RequestTraced
    BY DEF RequestTraced
  <2>1. ChainLength \in 5..8 /\ depth = 0 /\ request.id \in {"none", "valid", "generated"}
    BY Positions DEF HttpInv, WayOutInv, HttpTypes, Requests
  <2>2. (response.headers \cup response.body) \cap TraceIds \subseteq {request.id}
    BY DEF HttpInv, WayOutInv
  <2>3. "malformed" \notin response.headers \cup response.body
    BY <2>1, <2>2 DEF TraceIds
  <2>4. CASE response.by = "route"
    <3>1. RouteOut
      BY <2>4 DEF HttpInv, WayOutInv
    <3>2. logged = <<response.status>>
      BY <2>1, <3>1 DEF RouteOut
    <3> QED
      BY <2>1, <2>2, <2>3, <2>4, <3>1, <3>2 DEF RouteOut, RequestTraced, TraceIds
  <2>5. CASE response.by \in {"ContentSizeLimit", "Cors", "TrustedHost"}
    <3>1. LayerOut
      BY <2>5 DEF HttpInv, WayOutInv
    <3> QED
      BY <2>2, <2>3, <2>5, <3>1 DEF LayerOut, RequestTraced, TraceIds
  <2>6. CASE response.by = "server"
    <3>1. ServerOut
      BY <2>6 DEF HttpInv, WayOutInv
    <3> QED
      BY <2>2, <2>3, <2>6, <3>1 DEF ServerOut, RequestTraced, TraceIds
  <2> QED
    BY <2>4, <2>5, <2>6 DEF HttpInv, WayOutInv
<1> QED
  BY <1>1, HttpAlways, PTL

\* No deployment executes a refresh or a logout for a request that carries the
\* cookie and comes from an origin it does not list.
THEOREM CookiesComeFromTrusted == HttpSpec => []CookieFromTrusted
<1>1. HttpInv => CookieFromTrusted
  <2> SUFFICES ASSUME HttpInv, handled, request.route \in CookieRoutes, request.cookie,
                      deploy.cors # "wildcard"
               PROVE  /\ deploy.cors = "listed"
                      /\ \/ request.origin = "trusted"
                         \/ request.origin = "absent" /\ request.referer = "trusted"
    BY DEF CookieFromTrusted
  <2>1. Provenance(request, deploy)
    BY DEF HttpInv, HandledInv
  <2> QED
    BY <2>1 DEF Provenance, Trusts
<1> QED
  BY <1>1, HttpAlways, PTL
=============================================================================
