---------------------------- MODULE SchemaProofs ----------------------------
(***************************************************************************)
(* Proofs about Schema, for any number of accounts: what the migrations do *)
(* to the stored passwords, however often they are interrupted, undone and *)
(* run again.                                                              *)
(***************************************************************************)
EXTENDS Schema, TLAPS

Versions == Revisions \cup {Base}

\* d has the fields of a database.
Database(d) ==
    /\ d = [version |-> d.version, schema |-> d.schema, invalid |-> d.invalid,
            hashes |-> d.hashes, creds |-> d.creds]
    /\ d.version \in Versions
    /\ d.hashes \in [Users -> {"absent", "hash", "empty", "dropped"}]

\* What the version of d says of its passwords: up to 0009 no hash is dropped,
\* at 0009 every hash has its credential, and from 0010 on every hash is dropped
\* and every account that had one has a credential.
Passwords(d) ==
    /\ \A u \in had : d.hashes[u] # "empty"
    /\ d.version <= 9 => \A u \in Users : d.hashes[u] # "dropped"
    /\ d.version = 9 => \A u \in had : d.hashes[u] = "hash" => u \in d.creds
    /\ d.version >= 10 => \A u \in Users : d.hashes[u] \in {"absent", "dropped"}
    /\ d.version >= 10 => \A u \in had : d.hashes[u] = "dropped" => u \in d.creds

\* Between its statements an autocommit block has committed all that was done,
\* and stands at 0014 or 0015.
InAutocommit ==
    step \in {"drop", "create", "stamp"} =>
        /\ db.version = work.version
        /\ \/ work.version < target /\ work.version \in 13..14
           \/ work.version > target /\ work.version \in 14..15

PasswordInv ==
    /\ Database(db) /\ Database(work)
    /\ target \in Versions /\ had \subseteq Users
    /\ Passwords(db) /\ Passwords(work)
    /\ step = "idle" => work = db
    /\ InAutocommit


\* The chain of revisions is linear: what comes before and after a version.
LEMMA Chained ==
    /\ \A r \in Revisions : Down(r) \in Versions /\ Down(r) < r
    /\ \A r \in Versions : r < Head => Up(r) \in Revisions /\ Down(Up(r)) = r
<1>1. \A r \in Revisions : Down(r) \in Versions /\ Down(r) < r
  BY DEF Revisions, Versions, Base, Down
<1>2. ASSUME NEW r \in Versions, r < Head PROVE Up(r) \in Revisions /\ Down(Up(r)) = r
  <2>1. \E q \in Revisions : Down(q) = r
    <3>1. CASE r = 0
      <4>1. 3 \in Revisions /\ Down(3) = r
        BY <3>1 DEF Revisions, Down, Base
      <4> QED
        BY <4>1
    <3>2. CASE r = 3
      <4>1. 6 \in Revisions /\ Down(6) = r
        BY <3>2 DEF Revisions, Down, Base
      <4> QED
        BY <4>1
    <3>3. CASE r \in 6..16
      <4>1. r + 1 \in Revisions /\ Down(r + 1) = r
        BY <3>3 DEF Revisions, Down, Base
      <4> QED
        BY <4>1
    <3> QED
      BY <1>2, <3>1, <3>2, <3>3 DEF Versions, Revisions, Base, Head
  <2> QED
    BY <2>1 DEF Up
<1> QED
  BY <1>1, <1>2

\* d with other schema objects and other invalid indexes.
Indexed(d, s, i) ==
    [version |-> d.version, schema |-> s, invalid |-> i, hashes |-> d.hashes, creds |-> d.creds]

\* Statements that change neither the rows nor the version leave the passwords
\* as they were.
LEMMA SchemaOnly ==
    ASSUME NEW d, Database(d), Passwords(d), NEW s, NEW i
    PROVE  /\ Database(Indexed(d, s, i)) /\ Passwords(Indexed(d, s, i))
           /\ Indexed(d, s, i).version = d.version
<1> DEFINE e == Indexed(d, s, i)
<1>1. /\ e = [version |-> e.version, schema |-> e.schema, invalid |-> e.invalid,
              hashes |-> e.hashes, creds |-> e.creds]
      /\ e.version = d.version /\ e.hashes = d.hashes /\ e.creds = d.creds
  BY DEF Indexed
<1> HIDE DEF e
<1>2. Database(e) /\ Passwords(e) /\ e.version = d.version
  BY <1>1 DEF Database, Passwords
<1> QED
  BY <1>2 DEF e

\* The initial state satisfies the invariant.
LEMMA PasswordsStart == Init => PasswordInv
<1> SUFFICES ASSUME Init PROVE PasswordInv
  OBVIOUS
<1>1. Database(db) /\ db.version = Base /\ db.hashes = [u \in Users |-> "absent"]
  BY DEF Init, Database, Versions
<1>2. Passwords(db)
  BY <1>1 DEF Passwords, Init, Base
<1> QED
  BY <1>1, <1>2 DEF Init, PasswordInv, InAutocommit, Versions

\* A release stores an account: one that predates the split with its hash, the
\* one that runs on 0009 with a credential.
LEMMA AccountKeeps ==
    ASSUME PasswordInv, NEW u \in Users, LegacyAccount(u) \/ SplitAccount(u)
    PROVE  PasswordInv'
<1>1. PICK hash \in {"hash", "empty"}, creds \in SUBSET Users :
          /\ NewAccount(u, hash, creds)
          /\ \/ hash = "hash" /\ db.version <= 8 /\ had' = had \cup {u}
             \/ hash = "empty" /\ db.version = 9 /\ had' = had
  BY DEF LegacyAccount, SplitAccount
<1>2. /\ Database(db) /\ Passwords(db) /\ had \subseteq Users /\ step = "idle" /\ u \notin had
      /\ db.hashes[u] = "absent"
      /\ db' = [db EXCEPT !.hashes[u] = hash, !.creds = @ \cup creds] /\ work' = db'
      /\ UNCHANGED <<target, step, undone>>
  BY <1>1 DEF PasswordInv, NewAccount
<1> DEFINE f == [db.hashes EXCEPT ![u] = hash]
<1>3. /\ f \in [Users -> {"absent", "hash", "empty", "dropped"}]
      /\ f[u] = hash /\ \A v \in Users : v # u => f[v] = db.hashes[v]
  BY <1>2 DEF Database
<1>4. /\ db' = [version |-> db.version, schema |-> db.schema, invalid |-> db.invalid,
                hashes |-> f, creds |-> db.creds \cup creds]
  BY <1>2, Zenon DEF Database
<1> HIDE DEF f
<1>5. /\ db'.version = db.version /\ db'.hashes = f /\ db'.creds = db.creds \cup creds
      /\ db' = [version |-> db'.version, schema |-> db'.schema, invalid |-> db'.invalid,
                hashes |-> db'.hashes, creds |-> db'.creds]
  BY <1>4
<1>6. Database(db')
  <2>1. db.version \in Versions
    BY <1>2 DEF Database
  <2> HIDE <1>4
  <2> QED
    BY <2>1, <1>3, <1>5 DEF Database
<1>7. db.version \in Nat
  BY <1>2 DEF Database, Versions, Revisions, Base
<1>8. Passwords(db)'
  BY <1>1, <1>2, <1>3, <1>5, <1>7 DEF Passwords
<1>9. Passwords(work)' /\ Database(work)' /\ Database(db)'
  BY <1>2, <1>6, <1>8 DEF Passwords, Database
<1> QED
  BY <1>1, <1>2, <1>8, <1>9 DEF PasswordInv, InAutocommit

\* A command is started.
LEMMA StartKeeps ==
    ASSUME PasswordInv, NEW r \in Versions, Start(r)
    PROVE  PasswordInv'
BY DEF PasswordInv, Start, Database, Passwords, InAutocommit

\* Applying a revision: 0009 copies every hash into credentials, 0010 drops the
\* hashes.
LEMMA UpgradeKeeps ==
    ASSUME PasswordInv, UpgradeStep
    PROVE  PasswordInv'
<1> DEFINE r == Up(work.version)
           e == UpgradedRows(r, work)
<1>1. /\ Database(work) /\ Passwords(work) /\ had \subseteq Users /\ step = "migrate"
      /\ work' = [Stamp(e, r) EXCEPT !.schema = Upgraded(r, Stamp(e, r).schema)]
      /\ UNCHANGED <<db, target, step, had, undone>>
      /\ work.version \in Versions /\ target \in Versions /\ work.version < target
  BY DEF PasswordInv, UpgradeStep, Upgrading, Database
<1>2. r \in Revisions /\ Down(r) = work.version
  <2>1. work.version < Head
    BY <1>1 DEF Versions, Revisions, Base, Head
  <2> QED
    BY <1>1, <2>1, Chained
<1> HIDE DEF r
<1>3. /\ e = [version |-> work.version, schema |-> work.schema, invalid |-> work.invalid,
              hashes |-> e.hashes, creds |-> e.creds]
      /\ r \notin {9, 10} => e.hashes = work.hashes /\ e.creds = work.creds
      /\ r = 9 => e.hashes = work.hashes /\ e.creds = Backfill(work)
      /\ r = 10 => /\ e.hashes = [u \in Users |-> IF work.hashes[u] = "absent" THEN "absent" ELSE "dropped"]
                   /\ e.creds = work.creds
  <2>1. CASE r \notin {9, 10}
    <3>1. e = work
      BY <2>1 DEF UpgradedRows
    <3> QED
      BY <1>1, <2>1, <3>1 DEF Database
  <2>2. CASE r = 9
    <3>1. e = [work EXCEPT !.creds = Backfill(work)]
      BY <2>2 DEF UpgradedRows
    <3> HIDE DEF e
    <3> QED
      BY <1>1, <2>2, <3>1 DEF Database
  <2>3. CASE r = 10
    <3>1. e = [work EXCEPT !.hashes = [u \in Users |-> IF work.hashes[u] = "absent" THEN "absent" ELSE "dropped"]]
      BY <2>3 DEF UpgradedRows
    <3> HIDE DEF e
    <3> QED
      BY <1>1, <2>3, <3>1 DEF Database
  <2> QED
    BY <2>1, <2>2, <2>3
<1> HIDE DEF e
<1>4. /\ work' = [version |-> work'.version, schema |-> work'.schema, invalid |-> work'.invalid,
                  hashes |-> work'.hashes, creds |-> work'.creds]
      /\ work'.version = r /\ work'.hashes = e.hashes /\ work'.creds = e.creds
  BY <1>1, <1>3, Zenon DEF Stamp
<1>5. work.hashes \in [Users -> {"absent", "hash", "empty", "dropped"}]
  BY <1>1 DEF Database
<1>6. e.hashes \in [Users -> {"absent", "hash", "empty", "dropped"}]
  BY <1>3, <1>5
<1>7. Database(work)'
  BY <1>2, <1>4, <1>6 DEF Database, Versions
<1>8. Passwords(work)'
  <2>1. CASE r <= 8
    <3>1. work.version <= 8 /\ e.hashes = work.hashes /\ r \in Nat /\ work.version \in Nat
      BY <1>1, <1>2, <1>3, <2>1 DEF Revisions, Versions, Down, Base
    <3> QED
      BY <1>1, <1>4, <2>1, <3>1 DEF Passwords
  <2>2. CASE r = 9
    <3>1. work.version <= 9 /\ e.hashes = work.hashes /\ e.creds = Backfill(work)
      BY <1>2, <1>3, <2>2 DEF Down, Base
    <3> QED
      BY <1>1, <1>4, <2>2, <3>1 DEF Passwords, Backfill
  <2>3. CASE r = 10
    <3>1. work.version = 9 /\ e.creds = work.creds
      BY <1>2, <1>3, <2>3 DEF Down, Base
    <3>2. \A u \in Users : e.hashes[u] = IF work.hashes[u] = "absent" THEN "absent" ELSE "dropped"
      BY <1>3, <2>3, Zenon
    <3> QED
      BY <1>1, <1>4, <1>5, <2>3, <3>1, <3>2 DEF Passwords
  <2>4. CASE r >= 11
    <3>1. /\ work.version >= 10 /\ e.hashes = work.hashes /\ e.creds = work.creds
          /\ r \in Nat /\ work.version \in Nat
      BY <1>1, <1>2, <1>3, <2>4 DEF Revisions, Versions, Down, Base
    <3> QED
      BY <1>1, <1>4, <2>4, <3>1 DEF Passwords
  <2> QED
    BY <1>2, <2>1, <2>2, <2>3, <2>4 DEF Revisions
<1>9. Database(db)' /\ Passwords(db)'
  BY <1>1 DEF PasswordInv, Database, Passwords
<1> QED
  BY <1>1, <1>7, <1>8, <1>9 DEF PasswordInv, InAutocommit

\* Undoing a revision: 0009 empties credentials while the hashes are still
\* there, 0003 removes the accounts, and 0010 cannot be undone.
LEMMA DowngradeKeeps ==
    ASSUME PasswordInv, DowngradeStep
    PROVE  PasswordInv'
<1> DEFINE r == work.version
           e == DowngradedRows(r, work)
<1>1. /\ Database(work) /\ Passwords(work) /\ had \subseteq Users /\ step = "migrate"
      /\ work' = [Stamp(e, Down(r)) EXCEPT !.schema = Downgraded(r, Stamp(e, Down(r)).schema)]
      /\ UNCHANGED <<db, target, step, had, undone>>
      /\ r \in Versions /\ target \in Versions /\ target < r /\ r # 10
  BY DEF PasswordInv, DowngradeStep, Downgrading, Database, OneWay
<1>2. r \in Revisions /\ Down(r) \in Versions
  <2>1. r \in Revisions
    BY <1>1 DEF Versions, Revisions, Base
  <2> QED
    BY <2>1, Chained
<1>3. /\ e = [version |-> work.version, schema |-> work.schema, invalid |-> work.invalid,
              hashes |-> e.hashes, creds |-> e.creds]
      /\ r \notin {9, 3} => e.hashes = work.hashes /\ e.creds = work.creds
      /\ r = 9 => e.hashes = work.hashes
      /\ r = 3 => e.hashes = [u \in Users |-> "absent"]
  <2>1. CASE r \notin {9, 3}
    <3>1. e = work
      BY <2>1 DEF DowngradedRows
    <3> QED
      BY <1>1, <2>1, <3>1 DEF Database
  <2>2. CASE r = 9
    <3>1. e = [work EXCEPT !.creds = {}]
      BY <2>2 DEF DowngradedRows
    <3> HIDE DEF e
    <3> QED
      BY <1>1, <2>2, <3>1 DEF Database
  <2>3. CASE r = 3
    <3>1. e = [work EXCEPT !.hashes = [u \in Users |-> "absent"]]
      BY <2>3 DEF DowngradedRows
    <3> HIDE DEF e
    <3> QED
      BY <1>1, <2>3, <3>1 DEF Database
  <2> QED
    BY <2>1, <2>2, <2>3
<1> HIDE DEF e
<1>4. /\ work' = [version |-> work'.version, schema |-> work'.schema, invalid |-> work'.invalid,
                  hashes |-> work'.hashes, creds |-> work'.creds]
      /\ work'.version = Down(r) /\ work'.hashes = e.hashes /\ work'.creds = e.creds
  BY <1>1, <1>3, Zenon DEF Stamp
<1>5. work.hashes \in [Users -> {"absent", "hash", "empty", "dropped"}]
  BY <1>1 DEF Database
<1>6. e.hashes \in [Users -> {"absent", "hash", "empty", "dropped"}]
  BY <1>3, <1>5
<1>7. Database(work)'
  BY <1>2, <1>4, <1>6 DEF Database
<1>8. Passwords(work)'
  <2>1. CASE r = 3
    <3>1. \A u \in Users : e.hashes[u] = "absent"
      BY <1>3, <2>1, Zenon
    <3>2. Down(r) = 0
      BY <2>1 DEF Down, Base
    <3> QED
      BY <1>1, <1>4, <3>1, <3>2 DEF Passwords
  <2>2. CASE r \in 6..9
    <3>1. Down(r) <= 8 /\ e.hashes = work.hashes
      BY <1>3, <2>2 DEF Down
    <3>2. Down(r) \in Nat
      BY <2>2 DEF Down
    <3> QED
      BY <1>1, <1>4, <2>2, <3>1, <3>2 DEF Passwords
  <2>3. CASE r \in 11..17
    <3>1. Down(r) >= 10 /\ Down(r) \in Nat /\ e.hashes = work.hashes /\ e.creds = work.creds
      BY <1>3, <2>3 DEF Down
    <3> QED
      BY <1>1, <1>4, <2>3, <3>1 DEF Passwords
  <2> QED
    BY <1>1, <1>2, <2>1, <2>2, <2>3 DEF Revisions
<1>9. Database(db)' /\ Passwords(db)'
  BY <1>1 DEF PasswordInv, Database, Passwords
<1> QED
  BY <1>1, <1>7, <1>8, <1>9 DEF PasswordInv, InAutocommit

\* autocommit_block commits what the transaction holds.
LEMMA EnterKeeps ==
    ASSUME PasswordInv, EnterAutocommit
    PROVE  PasswordInv'
<1>1. /\ Database(work) /\ Passwords(work) /\ had \subseteq Users /\ target \in Versions
      /\ db' = work /\ UNCHANGED <<work, target, had, undone>>
      /\ step' \in {"drop", "create"} /\ work.version \in Versions
  BY DEF PasswordInv, EnterAutocommit, FirstStatement, Database
<1>2. /\ step # "idle"
      /\ \/ work.version < target /\ Current = Up(work.version)
         \/ work.version > target /\ Current = work.version
      /\ Current \in {14, 15}
  <2>1. step # "idle" /\ work.version \in Nat /\ target \in Nat
    BY <1>1 DEF EnterAutocommit, Versions, Revisions, Base
  <2> QED
    BY <2>1 DEF EnterAutocommit, Current, Upgrading, Downgrading
<1>3. CASE work.version < target /\ Current = Up(work.version)
  <2>1. work.version < Head
    BY <1>1, <1>3 DEF Versions, Revisions, Base, Head
  <2>2. Up(work.version) \in Revisions /\ Down(Up(work.version)) = work.version
    BY <1>1, <2>1, Chained
  <2>3. work.version \in 13..14
    BY <1>2, <1>3, <2>2 DEF Down
  <2> QED
    BY <1>1, <1>3, <2>3 DEF PasswordInv, InAutocommit, Database, Passwords
<1>4. CASE work.version > target /\ Current = work.version
  BY <1>1, <1>2, <1>4 DEF PasswordInv, InAutocommit, Database, Passwords
<1> QED
  BY <1>2, <1>3, <1>4

\* The statements of an autocommit block change indexes only.
LEMMA BlockKeeps ==
    ASSUME PasswordInv, DropConcurrently \/ CreateConcurrently
    PROVE  PasswordInv'
<1>1. PICK s, i : db' = Indexed(db, s, i)
  <2>1. Database(db)
    BY DEF PasswordInv
  <2>2. CASE DropConcurrently
    <3>1. PICK s, i : db' = [db EXCEPT !.schema = s, !.invalid = i]
      BY <2>2, Zenon DEF DropConcurrently
    <3>2. [db EXCEPT !.schema = s] = Indexed(db, s, db.invalid)
      BY <2>1 DEF Database, Indexed
    <3>3. [db EXCEPT !.schema = s, !.invalid = i] = [Indexed(db, s, db.invalid) EXCEPT !.invalid = i]
      BY <3>2, Zenon
    <3>4. [Indexed(db, s, db.invalid) EXCEPT !.invalid = i] = Indexed(db, s, i)
      BY DEF Indexed
    <3> QED
      BY <3>1, <3>3, <3>4, Zenon
  <2>3. CASE CreateConcurrently
    <3>1. PICK s : db' = db \/ db' = [db EXCEPT !.schema = s]
      BY <2>3 DEF CreateConcurrently
    <3>2. db = Indexed(db, db.schema, db.invalid)
      BY <2>1 DEF Database, Indexed
    <3>3. [db EXCEPT !.schema = s] = Indexed(db, s, db.invalid)
      BY <2>1 DEF Database, Indexed
    <3> QED
      BY <3>1, <3>2, <3>3, Zenon
  <2> QED
    BY <2>2, <2>3
<1>2. /\ step \in {"drop", "create"} /\ step' \in {"create", "stamp"} /\ work' = db'
      /\ UNCHANGED <<target, had, undone>>
  BY DEF DropConcurrently, CreateConcurrently
<1>3. /\ Database(db) /\ Passwords(db) /\ had' = had
  BY <1>2 DEF PasswordInv
<1> DEFINE e == Indexed(db, s, i)
<1>4. Database(e) /\ Passwords(e) /\ e.version = db.version
  BY <1>3, SchemaOnly, Zenon
<1>5. db' = e
  BY <1>1
<1> HIDE DEF e
<1>6. Database(db') /\ Passwords(db)' /\ db'.version = db.version
  BY <1>2, <1>4, <1>5 DEF Passwords
<1>7. Database(db)' /\ Database(work)' /\ Passwords(work)'
  BY <1>2, <1>6 DEF Database, Passwords
<1> QED
  BY <1>2, <1>6, <1>7 DEF PasswordInv, InAutocommit

\* The stamp after an autocommit block moves between 0013 and 0015, where the
\* passwords are all in credentials.
LEMMA StampKeeps ==
    ASSUME PasswordInv, StampStep
    PROVE  PasswordInv'
<1> DEFINE v == IF Upgrading THEN Current ELSE Down(Current)
<1>1. /\ Database(work) /\ Passwords(work) /\ had \subseteq Users /\ target \in Versions
      /\ work' = Stamp(work, v) /\ step' = "migrate"
      /\ UNCHANGED <<db, target, had, undone>>
      /\ \/ work.version < target /\ work.version \in 13..14
         \/ work.version > target /\ work.version \in 14..15
      /\ work.version \in Versions
  BY DEF PasswordInv, StampStep, InAutocommit, Database
<1>2. v \in 13..15
  <2>1. CASE work.version < target /\ work.version \in 13..14
    <3>1. Up(work.version) \in Revisions /\ Down(Up(work.version)) = work.version
      BY <1>1, <2>1, Chained DEF Head
    <3>2. Up(work.version) \in 14..15
      BY <2>1, <3>1 DEF Revisions, Down, Base
    <3> QED
      BY <2>1, <3>2 DEF StampStep, Upgrading, Current
  <2>2. CASE work.version > target /\ work.version \in 14..15
    <3>1. ~(work.version < target)
      BY <1>1, <2>2 DEF Versions, Revisions, Base
    <3> QED
      BY <2>2, <3>1 DEF Upgrading, Current, Down
  <2> QED
    BY <1>1, <2>1, <2>2
<1> HIDE DEF v
<1>3. /\ work' = [version |-> work'.version, schema |-> work'.schema, invalid |-> work'.invalid,
                  hashes |-> work'.hashes, creds |-> work'.creds]
      /\ work'.version = v /\ work'.hashes = work.hashes /\ work'.creds = work.creds
  BY <1>1 DEF Database, Stamp
<1>4. Database(work)'
  BY <1>1, <1>2, <1>3 DEF Database, Versions, Revisions
<1>5. Passwords(work)'
  <2>1. work.version >= 10 /\ v >= 10 /\ ~(v <= 9) /\ v # 9
    BY <1>1, <1>2
  <2> QED
    BY <1>1, <1>3, <2>1 DEF Passwords
<1>6. Database(db)' /\ Passwords(db)'
  BY <1>1 DEF PasswordInv, Database, Passwords
<1> QED
  BY <1>1, <1>4, <1>5, <1>6 DEF PasswordInv, InAutocommit

\* A command ends: its transaction commits.
LEMMA FinishKeeps ==
    ASSUME PasswordInv, Finish
    PROVE  PasswordInv'
BY DEF PasswordInv, Finish, Database, Passwords, InAutocommit

\* A command fails: what is committed stays, apart from the index of a broken
\* concurrent statement.
LEMMA AbortKeeps ==
    ASSUME PasswordInv, Raises \/ Failure
    PROVE  PasswordInv'
<1>1. PICK s, i : Aborted(Indexed(db, s, i))
  <2>1. Database(db)
    BY DEF PasswordInv
  <2>2. CASE Aborted(db)
    <3>1. db = Indexed(db, db.schema, db.invalid)
      BY <2>1 DEF Database, Indexed
    <3> QED
      BY <2>2, <3>1, Zenon
  <2>3. CASE InterruptDrop
    <3>1. PICK i : Aborted([db EXCEPT !.invalid = i])
      BY <2>3, Zenon DEF InterruptDrop
    <3>2. [db EXCEPT !.invalid = i] = Indexed(db, db.schema, i)
      BY <2>1 DEF Database, Indexed
    <3> QED
      BY <3>1, <3>2, Zenon
  <2>4. CASE InterruptCreate
    <3>1. PICK s, i : Aborted([db EXCEPT !.schema = s, !.invalid = i])
      BY <2>4, Zenon DEF InterruptCreate
    <3>2. [db EXCEPT !.schema = s] = Indexed(db, s, db.invalid)
      BY <2>1 DEF Database, Indexed
    <3>3. [db EXCEPT !.schema = s, !.invalid = i] = [Indexed(db, s, db.invalid) EXCEPT !.invalid = i]
      BY <3>2, Zenon
    <3>4. [Indexed(db, s, db.invalid) EXCEPT !.invalid = i] = Indexed(db, s, i)
      BY DEF Indexed
    <3>5. [db EXCEPT !.schema = s, !.invalid = i] = Indexed(db, s, i)
      BY <3>3, <3>4, Zenon
    <3>6. Aborted(Indexed(db, s, i))
      BY <3>1, <3>5, Zenon
    <3> QED
      BY <3>6, Zenon
  <2> QED
    BY <2>2, <2>3, <2>4 DEF Raises, Failure, Interrupt
<1> DEFINE e == Indexed(db, s, i)
<1>2. /\ db' = e /\ work' = e /\ target' = e.version /\ step' = "idle" /\ had' = had
      /\ Database(db) /\ Passwords(db) /\ had \subseteq Users
  BY <1>1 DEF Aborted, PasswordInv
<1>3. Database(e) /\ Passwords(e)
  BY <1>2, SchemaOnly, Zenon
<1> HIDE DEF e
<1>4. Database(db)' /\ Database(work)' /\ Passwords(db)' /\ Passwords(work)'
  BY <1>2, <1>3 DEF Database, Passwords
<1>5. target' \in Versions
  BY <1>2, <1>3 DEF Database
<1> QED
  BY <1>2, <1>4, <1>5 DEF PasswordInv, InAutocommit

\* Every step keeps the invariant.
LEMMA PasswordStep == PasswordInv /\ [Next]_vars => PasswordInv'
<1> SUFFICES ASSUME PasswordInv, [Next]_vars PROVE PasswordInv'
  OBVIOUS
<1>1. ASSUME NEW u \in Users, LegacyAccount(u) \/ SplitAccount(u) PROVE PasswordInv'
  BY <1>1, AccountKeeps
<1>2. ASSUME NEW r \in Versions, Start(r) PROVE PasswordInv'
  BY <1>2, StartKeeps
<1>3. CASE Progress
  BY <1>3, UpgradeKeeps, DowngradeKeeps, EnterKeeps, BlockKeeps, StampKeeps, FinishKeeps,
     AbortKeeps DEF Progress
<1>4. CASE Failure
  BY <1>4, AbortKeeps
<1>5. CASE UNCHANGED vars
  BY <1>5 DEF vars, PasswordInv, Database, Passwords, InAutocommit
<1> QED
  BY <1>1, <1>2, <1>3, <1>4, <1>5 DEF Next, Versions

\* No password is lost between users.password_hash and credentials, whatever
\* revisions are applied, undone, interrupted and run again: PasswordsSurvive for
\* any set of accounts.
THEOREM PasswordsSurviveMigrations == Spec => []PasswordsSurvive
<1>1. PasswordInv => PasswordsSurvive
  <2> SUFFICES ASSUME PasswordInv, NEW u \in had, db.hashes[u] = "dropped"
               PROVE  u \in db.creds
    BY DEF PasswordsSurvive
  <2>1. ~(db.version <= 9) /\ db.version \in Nat
    BY DEF PasswordInv, Passwords, Database, Versions, Revisions, Base
  <2> QED
    BY <2>1 DEF PasswordInv, Passwords
<1> QED
  BY <1>1, PasswordsStart, PasswordStep, PTL DEF Spec
=============================================================================
