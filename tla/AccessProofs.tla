---------------------------- MODULE AccessProofs ----------------------------
(***************************************************************************)
(* Proofs about Access for any number of users, tokens and processes, any  *)
(* lifetime of tokens and cache entries and any cache size.                *)
(***************************************************************************)
EXTENDS Access, TLAPS

ProcRec == [at : Places, op : Ops, user : Users \cup {NoUser},
            token : Tokens \cup {NoToken}, row : Rows, flag : BOOLEAN,
            doomed : SUBSET Tokens]
TokenRec == [user : Users \cup {NoUser}, ver : Nat \ {0}, life : 0..Lifetime,
             outlived : BOOLEAN]
EntryRec == [user : Users \cup {NoUser}, row : Rows, ttl : 0..Ttl,
             mark : {"none", "late", "orphan"}]
IndexRec == [tokens : SUBSET Tokens, ttl : 0..Ttl]

\* A process at work has a user.  A resolution has a token that was handed out to
\* that user and, once it read the row, a row the token matches.  A copy from
\* which a version is minted or incremented is not ahead of the row, unless an
\* increment on that row was lost.
RecOK(rec, us, js, lo) ==
    /\ rec.at # "idle" => rec.user \in Users
    /\ rec.at = "writing" => rec.op \in Writes
    /\ rec.at \in {"reading", "putting"} =>
          /\ rec.token \in Tokens
          /\ js[rec.token].user = rec.user
    /\ rec.at = "putting" =>
          /\ rec.row.ver = js[rec.token].ver
          /\ rec.row.active /\ ~rec.row.erased
    /\ rec.at \in {"minting", "writing"} /\ ~lo[rec.user] =>
          rec.row.ver <= us[rec.user].ver

ProcInv == \A p \in Procs : RecOK(procs[p], users, jwts, lost)

\* A token is not ahead of its user's row, and behind it once a bump has
\* committed, unless an increment on that row was lost.
TokenInv ==
    \A t \in Tokens : Issued(t) /\ ~lost[jwts[t].user] =>
        /\ jwts[t].ver <= users[jwts[t].user].ver
        /\ jwts[t].outlived => jwts[t].ver < users[jwts[t].user].ver

AccessInv == TypeOK /\ ProcInv /\ TokenInv /\ EntryMatchesToken

\* What every step does to the rows and the tokens: versions of a row without a
\* lost increment only grow, and a token keeps its claims.
Frame ==
    /\ \A u \in Users : /\ lost[u] => lost'[u]
                        /\ ~lost'[u] => users[u].ver <= users'[u].ver
    /\ \A t \in Tokens : Issued(t) => /\ jwts'[t].user = jwts[t].user
                                      /\ jwts'[t].ver = jwts[t].ver

-----------------------------------------------------------------------------
(* Types.                                                                  *)

DataType ==
    /\ kind \in {"memory", "redis"} /\ left \in 0..Changes
    /\ users \in [Users -> Rows] /\ admins \in SUBSET Users
    /\ jwts \in [Tokens -> TokenRec]
    /\ dirty \in [Users -> BOOLEAN] /\ grace \in [Users -> 0..Ttl]
    /\ lost \in [Users -> BOOLEAN]

CacheType == cache \in [Tokens -> EntryRec] /\ index \in [Users -> IndexRec]

ProcType == procs \in [Procs -> ProcRec]

\* TypeOK falls into the tables, the cache and the processes.
LEMMA TypeParts == TypeOK <=> DataType /\ CacheType /\ ProcType
  BY Zenon DEF TypeOK, DataType, CacheType, ProcType, TokenRec, EntryRec, IndexRec, ProcRec

\* The same of the next state.
LEMMA TypePartsNext == DataType' /\ CacheType' /\ ProcType' => TypeOK'
  BY Zenon DEF TypeOK, DataType, CacheType, ProcType, TokenRec, EntryRec, IndexRec, ProcRec

\* The new row, the empty entry and the idle process are well typed.
LEMMA ConstantsTyped ==
  /\ NewRow \in Rows /\ NewRow.ver = 1
  /\ NoEntry \in EntryRec /\ NoEntry.user = NoUser
  /\ Unissued \in TokenRec /\ Unissued.user = NoUser
  /\ Idle \in ProcRec /\ Idle.at = "idle"
  BY AccessAssumption DEF NewRow, Rows, NoEntry, EntryRec, Unissued, TokenRec, Idle, ProcRec,
                          Places, Ops

\* An update writes the columns of its operation, and the version it counted up.
LEMMA UpdateTyped ==
  ASSUME NEW row \in Rows, NEW seen \in Rows, NEW op \in Writes
  PROVE  /\ Bump(Columns(row, op), seen, op) \in Rows
         /\ Bump(Columns(row, op), seen, op).ver =
               IF op \in Bumping THEN seen.ver + 1 ELSE row.ver
<1>1. /\ Columns(row, op) \in Rows
      /\ Columns(row, op).ver = row.ver
  BY Zenon DEF Columns, Deactivated, Scrubbed, Verified, Readdressed, Rows
<1>2. seen.ver + 1 \in Nat \ {0}
  BY DEF Rows
<1> DEFINE mid == Columns(row, op)
<1> HIDE DEF mid
<1>3. mid \in Rows /\ mid.ver = row.ver
  BY <1>1 DEF mid
<1>4. Bump(mid, seen, op) \in Rows
      /\ Bump(mid, seen, op).ver = IF op \in Bumping THEN seen.ver + 1 ELSE row.ver
  BY <1>2, <1>3 DEF Bump, Rows
<1> QED BY <1>4 DEF mid

-----------------------------------------------------------------------------
(* What a step does to the processes and to the cache.                     *)

\* If one process moves to a record that is sound, the others stay sound.
LEMMA ProcessesKept ==
  ASSUME AccessInv, Frame, NEW p \in Procs, NEW rec \in ProcRec,
         procs' = [procs EXCEPT ![p] = rec], RecOK(rec, users', jwts', lost'),
         users' \in [Users -> Rows]
  PROVE  ProcType' /\ ProcInv'
<1>1. procs \in [Procs -> ProcRec] /\ users \in [Users -> Rows]
  BY TypeParts DEF AccessInv, ProcType, DataType
<1>2. ProcType'
  BY <1>1 DEF ProcType
<1>3. ASSUME NEW q \in Procs PROVE RecOK(procs'[q], users', jwts', lost')
  <2>1. CASE q = p
    BY <1>1, <2>1
  <2>2. CASE q # p
    <3>1. procs'[q] = procs[q] /\ RecOK(procs[q], users, jwts, lost) /\ procs[q] \in ProcRec
      BY <1>1, <2>2 DEF AccessInv, ProcInv
    <3>2. NoUser \notin Users /\ \A u \in Users : users[u].ver \in Nat /\ users'[u].ver \in Nat
      BY <1>1, AccessAssumption DEF Rows
    <3>3. procs[q].row.ver \in Nat
      BY <3>1 DEF ProcRec, Rows
    <3> QED BY <3>1, <3>2, <3>3 DEF RecOK, Frame, Issued
  <2> QED BY <2>1, <2>2
<1> QED BY <1>2, <1>3 DEF ProcInv

\* A cache whose entries are old ones keeps matching the tokens.
LEMMA EntriesKept ==
  ASSUME EntryMatchesToken, Frame,
         \A t \in Tokens : cache'[t].user # NoUser =>
             cache'[t].user = cache[t].user /\ cache'[t].row = cache[t].row
  PROVE  EntryMatchesToken'
  BY DEF EntryMatchesToken, Frame, Cached, Issued

-----------------------------------------------------------------------------
(* Steps that leave the rows and the tokens alone.                         *)

\* A step that changes only the caches, their marks and one process.
LEMMA CacheStepKeeps ==
  ASSUME AccessInv, NEW p \in Procs, NEW rec \in ProcRec,
         procs' = [procs EXCEPT ![p] = rec], RecOK(rec, users, jwts, lost),
         left' \in 0..Changes, UNCHANGED <<kind, data, lost>>,
         dirty' \in [Users -> BOOLEAN], grace' \in [Users -> 0..Ttl], CacheType',
         EntryMatchesToken'
  PROVE  AccessInv'
<1>1. DataType /\ TokenInv
  BY TypeParts DEF AccessInv
<1>2. users' = users /\ admins' = admins /\ jwts' = jwts /\ lost' = lost /\ kind' = kind
  BY DEF data
<1>3. DataType'
  BY <1>1, <1>2 DEF DataType
<1>4. Frame
  <2>1. \A u \in Users : users[u].ver <= users[u].ver
    BY <1>1 DEF DataType, Rows
  <2> QED BY <1>2, <2>1 DEF Frame
<1>5. TokenInv'
  BY <1>1, <1>2 DEF TokenInv, Issued
<1>6. RecOK(rec, users', jwts', lost') /\ users' \in [Users -> Rows]
  BY <1>1, <1>2 DEF DataType
<1>7. ProcType' /\ ProcInv'
  BY <1>4, <1>6, ProcessesKept, Zenon
<1> QED BY <1>3, <1>5, <1>7, TypePartsNext DEF AccessInv

\* A step that changes only one process and counts an operation.
LEMMA QuietKeeps ==
  ASSUME AccessInv, NEW p \in Procs, NEW rec \in ProcRec,
         procs' = [procs EXCEPT ![p] = rec], RecOK(rec, users, jwts, lost),
         left' \in 0..Changes, UNCHANGED <<kind, data, caching, marks>>
  PROVE  AccessInv'
<1>1. /\ dirty' = dirty /\ grace' = grace /\ lost' = lost /\ cache' = cache /\ index' = index
      /\ jwts' = jwts
  BY DEF marks, caching, data
<1>2. DataType /\ CacheType /\ EntryMatchesToken
  BY TypeParts DEF AccessInv
<1>3. /\ dirty' \in [Users -> BOOLEAN] /\ grace' \in [Users -> 0..Ttl]
      /\ CacheType' /\ EntryMatchesToken'
  BY <1>1, <1>2 DEF DataType, CacheType, EntryMatchesToken, Issued, Cached
<1> QED BY <1>1, <1>3, CacheStepKeeps, Zenon

\* The facts about one process that the steps below start from.
LEMMA ProcFacts ==
  ASSUME AccessInv, NEW p \in Procs
  PROVE  /\ procs[p] \in ProcRec /\ RecOK(procs[p], users, jwts, lost)
         /\ procs[p].user \in Users \cup {NoUser} /\ procs[p].token \in Tokens \cup {NoToken}
         /\ procs[p].row \in Rows /\ procs[p].op \in Ops /\ procs[p].flag \in BOOLEAN
         /\ procs[p].doomed \in SUBSET Tokens
         /\ left \in 0..Changes /\ users \in [Users -> Rows] /\ jwts \in [Tokens -> TokenRec]
<1>1. procs[p] \in ProcRec
  BY TypeParts DEF AccessInv, ProcType
<1> QED BY <1>1, TypeParts DEF AccessInv, ProcInv, ProcRec, DataType

\* A version is not ahead of itself, and an idle process is sound.
LEMMA Trivia ==
  ASSUME AccessInv
  PROVE  /\ \A u \in Users : users[u] \in Rows /\ users[u].ver <= users[u].ver
         /\ Idle \in ProcRec /\ \A us, js, lo : RecOK(Idle, us, js, lo)
<1>1. users \in [Users -> Rows]
  BY TypeParts DEF AccessInv, DataType
<1>2. Idle.at = "idle" /\ Idle \in ProcRec
  BY ConstantsTyped
<1>3. \A us, js, lo : RecOK(Idle, us, js, lo)
  BY <1>2 DEF RecOK
<1>4. \A u \in Users : users[u] \in Rows /\ users[u].ver <= users[u].ver
  BY <1>1 DEF Rows
<1> QED BY <1>2, <1>3, <1>4

\* login and refresh read the row they mint from.
LEMMA IssueReadKeeps ==
  ASSUME AccessInv, NEW p \in Procs, NEW u \in Users, IssueRead(p, u)
  PROVE  AccessInv'
<1> DEFINE rec == [Idle EXCEPT !.at = "minting", !.op = "issue", !.user = u, !.row = users[u]]
<1>1. users[u] \in Rows /\ users[u].ver <= users[u].ver
  BY Trivia
<1>2. rec \in ProcRec /\ RecOK(rec, users, jwts, lost)
  BY <1>1, ConstantsTyped, Zenon DEF Idle, ProcRec, Places, Ops, RecOK
<1> HIDE DEF rec
<1>3. /\ procs' = [procs EXCEPT ![p] = rec] /\ left' \in 0..Changes
      /\ UNCHANGED <<kind, data, caching, marks>>
  BY ProcFacts DEF IssueRead, Go, rec
<1> QED BY <1>2, <1>3, QuietKeeps, Zenon

\* A token that is not cached is looked up for its subject.
LEMMA ResolveMissKeeps ==
  ASSUME AccessInv, NEW p \in Procs, NEW t \in Tokens, ResolveMiss(p, t)
  PROVE  AccessInv'
<1> DEFINE rec == [Idle EXCEPT !.at = "reading", !.op = "resolve", !.user = jwts[t].user,
                               !.token = t]
<1>1. jwts[t].user \in Users
  BY ProcFacts DEF ResolveMiss, Decodes, Issued, TokenRec
<1>2. rec \in ProcRec /\ RecOK(rec, users, jwts, lost)
  BY <1>1, ConstantsTyped, Zenon DEF Idle, ProcRec, Places, Ops, RecOK
<1> HIDE DEF rec
<1>3. /\ procs' = [procs EXCEPT ![p] = rec] /\ left' \in 0..Changes
      /\ UNCHANGED <<kind, data, caching, marks>>
  BY ProcFacts DEF ResolveMiss, Go, rec
<1> QED BY <1>2, <1>3, QuietKeeps, Zenon

\* A bounded counter above zero can be counted down.
LEMMA LeftTyped ==
  ASSUME AccessInv, left > 0, left' = left - 1
  PROVE  left' \in 0..Changes
  BY TypeParts, AccessAssumption DEF AccessInv, DataType

\* An operation that starts with an invalidation.
LEMMA LogoutAllKeeps ==
  ASSUME AccessInv, NEW p \in Procs, NEW u \in Users,
         NEW op \in {"logout_all", "deactivate"}, LogoutAll(p, u, op)
  PROVE  AccessInv'
<1> DEFINE rec == [Idle EXCEPT !.at = "clearing", !.op = op, !.user = u]
<1>1. rec \in ProcRec /\ RecOK(rec, users, jwts, lost)
  BY ConstantsTyped, Zenon DEF Idle, ProcRec, Places, Ops, Writes, RecOK
<1> HIDE DEF rec
<1>2. /\ procs' = [procs EXCEPT ![p] = rec] /\ left' \in 0..Changes
      /\ UNCHANGED <<kind, data, caching, marks>>
  BY LeftTyped DEF LogoutAll, Go, rec
<1> QED BY <1>1, <1>2, QuietKeeps, Zenon

\* The existence check of the tuple.
LEMMA GrantCheckKeeps ==
  ASSUME AccessInv, NEW p \in Procs, NEW u \in Users, GrantCheck(p, u)
  PROVE  AccessInv'
<1> DEFINE rec == [Idle EXCEPT !.at = "inserting", !.op = "grant", !.user = u,
                               !.flag = u \in admins]
<1>1. (u \in admins) \in BOOLEAN
  BY DEF GrantCheck
<1>2. rec \in ProcRec /\ RecOK(rec, users, jwts, lost)
  BY <1>1, ConstantsTyped, Zenon DEF Idle, ProcRec, Places, Ops, Writes, RecOK
<1> HIDE DEF rec
<1>3. /\ procs' = [procs EXCEPT ![p] = rec] /\ left' \in 0..Changes
      /\ UNCHANGED <<kind, data, caching, marks>>
  BY LeftTyped DEF GrantCheck, Go, rec
<1> QED BY <1>2, <1>3, QuietKeeps, Zenon

\* The copy a transaction read is the row itself.
LEMMA ReadsTyped ==
  ASSUME AccessInv, NEW u \in Users, NEW op \in Writes, NEW flag \in BOOLEAN
  PROVE  Reads(op, u, flag) \in ProcRec /\ RecOK(Reads(op, u, flag), users, jwts, lost)
<1>1. users[u] \in Rows /\ users[u].ver <= users[u].ver
  BY Trivia
<1> QED BY <1>1, ConstantsTyped, Zenon DEF Reads, Idle, ProcRec, Places, Ops, RecOK

\* A transaction reads the row it is going to update.
LEMMA BeginWriteKeeps ==
  ASSUME AccessInv, NEW p \in Procs, NEW u \in Users,
         NEW op \in {"revoke", "reset", "erase", "verify", "email"}, BeginWrite(p, u, op)
  PROVE  AccessInv'
<1> DEFINE flag == op = "revoke" /\ u \notin admins
<1>1. flag \in BOOLEAN /\ op \in Writes
  BY DEF Writes
<1>2. procs' = [procs EXCEPT ![p] = Reads(op, u, flag)]
  BY DEF BeginWrite, Go
<1> HIDE DEF flag
<1>3. Reads(op, u, flag) \in ProcRec /\ RecOK(Reads(op, u, flag), users, jwts, lost)
  BY <1>1, ReadsTyped
<1>4. left' \in 0..Changes /\ UNCHANGED <<kind, data, caching, marks>>
  BY LeftTyped DEF BeginWrite
<1> QED BY <1>2, <1>3, <1>4, QuietKeeps, Zenon

\* The second transaction of a deactivation reads the row.
LEMMA DeactivateReadKeeps ==
  ASSUME AccessInv, NEW p \in Procs, DeactivateRead(p)
  PROVE  AccessInv'
<1> DEFINE u == procs[p].user
<1>1. u \in Users
  BY ProcFacts DEF DeactivateRead, RecOK
<1>2. procs' = [procs EXCEPT ![p] = Reads("deactivate", u, FALSE)]
  BY DEF DeactivateRead, Go
<1> HIDE DEF u
<1>3. Reads("deactivate", u, FALSE) \in ProcRec
      /\ RecOK(Reads("deactivate", u, FALSE), users, jwts, lost)
  BY <1>1, ReadsTyped, Zenon DEF Writes
<1>4. left' \in 0..Changes /\ UNCHANGED <<kind, data, caching, marks>>
  BY ProcFacts DEF DeactivateRead
<1> QED BY <1>2, <1>3, <1>4, QuietKeeps, Zenon

\* A step after which the process is idle and nothing else has changed.
LEMMA ReturnKeeps ==
  ASSUME AccessInv, NEW p \in Procs, Return(p), UNCHANGED <<kind, left, data, caching, marks>>
  PROVE  AccessInv'
<1>1. procs' = [procs EXCEPT ![p] = Idle] /\ left' \in 0..Changes
      /\ UNCHANGED <<kind, data, caching, marks>>
  BY ProcFacts DEF Return, Go
<1> QED BY <1>1, Trivia, QuietKeeps, Zenon

\* The INSERT of the tuple, or its refusal by the unique constraint.
LEMMA GrantInsertKeeps ==
  ASSUME AccessInv, NEW p \in Procs, GrantInsert(p)
  PROVE  AccessInv'
<1>1. UNCHANGED <<kind, left, data, caching, marks>>
  BY DEF GrantInsert
<1>2. CASE Return(p)
  BY <1>1, <1>2, ReturnKeeps
<1>3. CASE Go(p, Reads("grant", procs[p].user, procs[p].flag))
  <2> DEFINE u == procs[p].user
             flag == procs[p].flag
  <2>1. u \in Users /\ flag \in BOOLEAN
    BY ProcFacts DEF GrantInsert, RecOK
  <2>2. procs' = [procs EXCEPT ![p] = Reads("grant", u, flag)]
    BY <1>3 DEF Go
  <2> HIDE DEF u, flag
  <2>3. Reads("grant", u, flag) \in ProcRec /\ RecOK(Reads("grant", u, flag), users, jwts, lost)
    BY <2>1, ReadsTyped DEF Writes
  <2>4. left' \in 0..Changes /\ UNCHANGED <<kind, data, caching, marks>>
    BY <1>1, ProcFacts
  <2> QED BY <2>2, <2>3, <2>4, QuietKeeps, Zenon
<1> QED BY <1>2, <1>3 DEF GrantInsert

-----------------------------------------------------------------------------
(* Steps on the cache.                                                     *)

\* Removing entries keeps the cache typed and every other entry as it was.
LEMMA WithoutKeeps ==
  ASSUME AccessInv, NEW S \in SUBSET Tokens
  PROVE  /\ Without(S) \in [Tokens -> EntryRec]
         /\ \A t \in Tokens : Without(S)[t] = NoEntry \/ Without(S)[t] = cache[t]
<1>1. cache \in [Tokens -> EntryRec]
  BY TypeParts DEF AccessInv, CacheType
<1> QED BY <1>1, ConstantsTyped DEF Without

\* A step that removes entries, possibly none, and moves one process.
LEMMA EvictingKeeps ==
  ASSUME AccessInv, NEW p \in Procs, NEW rec \in ProcRec, NEW S \in SUBSET Tokens,
         procs' = [procs EXCEPT ![p] = rec], RecOK(rec, users, jwts, lost),
         UNCHANGED <<kind, left, data, lost, grace>>,
         cache' = Without(S), index' \in [Users -> IndexRec], dirty' \in [Users -> BOOLEAN]
  PROVE  AccessInv'
<1>1. /\ cache' \in [Tokens -> EntryRec]
      /\ \A t \in Tokens : cache'[t] = NoEntry \/ cache'[t] = cache[t]
  BY WithoutKeeps
<1>2. jwts' = jwts /\ users' = users /\ lost' = lost /\ grace' = grace /\ left' = left
  BY DEF data
<1>3. DataType /\ EntryMatchesToken
  BY TypeParts DEF AccessInv
<1>4. EntryMatchesToken'
  BY <1>1, <1>2, <1>3, ConstantsTyped DEF EntryMatchesToken, Cached, Issued
<1>5. CacheType' /\ grace' \in [Users -> 0..Ttl] /\ left' \in 0..Changes
  BY <1>1, <1>2, <1>3 DEF CacheType, DataType
<1>6. UNCHANGED <<kind, data, lost>>
  OBVIOUS
<1> QED BY <1>4, <1>5, <1>6, CacheStepKeeps, Zenon

\* The second step of a resolution: refuse, drop, or keep the row for the cache.
LEMMA ResolveReadKeeps ==
  ASSUME AccessInv, NEW p \in Procs, ResolveRead(p)
  PROVE  AccessInv'
<1> DEFINE t == procs[p].token
           u == procs[p].user
<1>1. UNCHANGED <<kind, left, data, index, marks>> /\ procs[p].at = "reading"
  BY DEF ResolveRead
<1>2. t \in Tokens /\ u \in Users /\ jwts[t].user = u
  BY <1>1, ProcFacts DEF RecOK
<1>3. CASE Return(p) /\ UNCHANGED cache
  BY <1>1, <1>3, ReturnKeeps DEF caching
<1>4. CASE Return(p) /\ cache' = Without({t})
  <2>1. DataType /\ CacheType
    BY TypeParts DEF AccessInv
  <2>2. /\ index' \in [Users -> IndexRec] /\ dirty' \in [Users -> BOOLEAN]
        /\ UNCHANGED <<kind, left, data, lost, grace>>
    BY <1>1, <2>1 DEF marks, DataType, CacheType
  <2>3. {t} \in SUBSET Tokens /\ procs' = [procs EXCEPT ![p] = Idle]
    BY <1>2, <1>4 DEF Return, Go
  <2> HIDE DEF t, u
  <2> QED BY <1>4, <2>2, <2>3, Trivia, EvictingKeeps, Zenon
<1>5. CASE /\ ~(~Visible(u) \/ ~users[u].active) /\ VersionMatches(t, users[u])
           /\ Go(p, [procs[p] EXCEPT !.at = "putting", !.row = users[u]]) /\ UNCHANGED cache
  <2> DEFINE rec == [procs[p] EXCEPT !.at = "putting", !.row = users[u]]
  <2>1. users[u] \in Rows /\ users[u].active /\ ~users[u].erased /\ users[u].ver = jwts[t].ver
    BY <1>2, <1>5, Trivia DEF Visible, VersionMatches
  <2>2. rec \in ProcRec
    BY <2>1, ProcFacts, Zenon DEF ProcRec, Places
  <2>3. /\ rec.at = "putting" /\ rec.token = t /\ rec.user = u /\ rec.row = users[u]
    BY ProcFacts DEF ProcRec
  <2>4. procs' = [procs EXCEPT ![p] = rec]
    BY <1>5 DEF Go
  <2>5. left' \in 0..Changes /\ UNCHANGED <<kind, data, caching, marks>>
    BY <1>1, <1>5, ProcFacts DEF caching
  <2> HIDE DEF rec
  <2>6. RecOK(rec, users, jwts, lost)
    BY <1>2, <2>1, <2>3 DEF RecOK
  <2> QED BY <2>2, <2>4, <2>5, <2>6, QuietKeeps, Zenon
<1>6. \/ Return(p) /\ UNCHANGED cache
      \/ Return(p) /\ cache' = Without({t})
      \/ /\ ~(~Visible(u) \/ ~users[u].active) /\ VersionMatches(t, users[u])
         /\ Go(p, [procs[p] EXCEPT !.at = "putting", !.row = users[u]]) /\ UNCHANGED cache
  BY DEF ResolveRead
<1> QED BY <1>3, <1>4, <1>5, <1>6

\* The last step of a resolution stores a principal its token matches.
LEMMA ResolvePutKeeps ==
  ASSUME AccessInv, NEW p \in Procs, ResolvePut(p)
  PROVE  AccessInv'
<1> DEFINE t == procs[p].token
           u == procs[p].user
           late == procs[p].row # users[u]
           e == [user |-> u, row |-> procs[p].row, ttl |-> Ttl,
                 mark |-> IF late THEN "late" ELSE "none"]
<1>1. t \in Tokens /\ u \in Users /\ jwts[t].user = u /\ procs[p].row \in Rows
      /\ procs[p].row.ver = jwts[t].ver /\ procs[p].row.active /\ ~procs[p].row.erased
  BY ProcFacts DEF ResolvePut, RecOK
<1>2. DataType /\ CacheType /\ EntryMatchesToken
  BY TypeParts DEF AccessInv
<1>3. e \in EntryRec /\ e.user = u /\ e.row = procs[p].row
  BY <1>1, AccessAssumption DEF EntryRec
<1>4. PICK out \in Evicted(t) : cache' = [Without(out) EXCEPT ![t] = e]
  BY Zenon DEF ResolvePut
<1>5. out \in SUBSET Tokens
  BY DEF Evicted
<1>6. /\ Without(out) \in [Tokens -> EntryRec]
      /\ \A x \in Tokens : Without(out)[x] = NoEntry \/ Without(out)[x] = cache[x]
  BY <1>5, WithoutKeeps
<1>7. UNCHANGED <<kind, left, data, dirty, lost>> /\ procs' = [procs EXCEPT ![p] = Idle]
      /\ grace' = [grace EXCEPT ![u] = IF late THEN Ttl ELSE @] /\ index' = SetIndex(t, u)
  BY DEF ResolvePut, Return, Go
<1>8. index' \in [Users -> IndexRec]
  BY <1>1, <1>2, <1>7, AccessAssumption DEF SetIndex, CacheType, IndexRec
<1>9. grace' \in [Users -> 0..Ttl] /\ dirty' \in [Users -> BOOLEAN] /\ left' \in 0..Changes
      /\ jwts' = jwts
  BY <1>1, <1>2, <1>7, AccessAssumption DEF DataType, data
<1> HIDE DEF e, late
<1>10. cache' \in [Tokens -> EntryRec]
       /\ cache'[t] = e /\ \A x \in Tokens \ {t} : cache'[x] = NoEntry \/ cache'[x] = cache[x]
  BY <1>1, <1>3, <1>4, <1>6
<1>11. EntryMatchesToken'
  <2> SUFFICES ASSUME NEW x \in Tokens, cache'[x].user # NoUser
               PROVE  /\ jwts[x].user # NoUser /\ cache'[x].user = jwts[x].user
                      /\ cache'[x].row.ver = jwts[x].ver
                      /\ cache'[x].row.active /\ ~cache'[x].row.erased
    BY <1>9 DEF EntryMatchesToken, Cached, Issued
  <2>1. CASE x = t
    BY <1>1, <1>3, <1>10, <2>1, AccessAssumption
  <2>2. CASE x # t
    BY <1>2, <1>10, <2>2, ConstantsTyped DEF EntryMatchesToken, Cached, Issued
  <2> QED BY <2>1, <2>2
<1>12. CacheType' /\ UNCHANGED <<kind, data, lost>>
  BY <1>7, <1>8, <1>10 DEF CacheType
<1> HIDE DEF t, u
<1> QED BY <1>7, <1>9, <1>11, <1>12, Trivia, CacheStepKeeps, Zenon

\* What a process does once its invalidation is over.
LEMMA AfterClearingTyped ==
  ASSUME AccessInv, NEW p \in Procs, procs[p].at \in {"clearing", "dropping"}
  PROVE  AfterClearing(p) \in ProcRec /\ RecOK(AfterClearing(p), users, jwts, lost)
<1>1. CASE procs[p].op = "deactivate"
  <2> DEFINE rec == [procs[p] EXCEPT !.at = "opening", !.doomed = {}]
  <2>1. rec \in ProcRec /\ rec.at = "opening" /\ rec.user = procs[p].user
    BY ProcFacts, Zenon DEF ProcRec, Places
  <2>2. procs[p].user \in Users
    BY ProcFacts DEF RecOK
  <2>3. AfterClearing(p) = rec
    BY <1>1 DEF AfterClearing
  <2> HIDE DEF rec
  <2> QED BY <2>1, <2>2, <2>3 DEF RecOK
<1>2. CASE procs[p].op # "deactivate"
  BY <1>2, Trivia DEF AfterClearing
<1> QED BY <1>1, <1>2

\* The first call of an invalidation, the only one of the in-process cache.
LEMMA ClearKeeps ==
  ASSUME AccessInv, NEW p \in Procs, Clear(p)
  PROVE  AccessInv'
<1> DEFINE u == procs[p].user
<1>1. /\ procs[p].at = "clearing" /\ UNCHANGED <<kind, left, data, grace, lost>>
      /\ index' = [index EXCEPT ![u] = [tokens |-> {}, ttl |-> 0]]
      /\ dirty' = [dirty EXCEPT ![u] = FALSE]
  BY DEF Clear
<1>2. u \in Users /\ DataType /\ CacheType /\ EntryMatchesToken
  BY <1>1, ProcFacts, TypeParts DEF AccessInv, RecOK
<1>3. index' \in [Users -> IndexRec] /\ dirty' \in [Users -> BOOLEAN]
  <2>1. [tokens |-> {}, ttl |-> 0] \in IndexRec
    BY AccessAssumption DEF IndexRec
  <2> QED BY <1>1, <1>2, <2>1 DEF CacheType, DataType
<1>4. Doomed(u) \in SUBSET Tokens
  BY <1>2 DEF Doomed, CacheType, IndexRec
<1>5. CASE cache' = Without(Doomed(u)) /\ Go(p, AfterClearing(p))
  <2>1. AfterClearing(p) \in ProcRec /\ RecOK(AfterClearing(p), users, jwts, lost)
    BY <1>1, AfterClearingTyped
  <2>2. procs' = [procs EXCEPT ![p] = AfterClearing(p)]
    BY <1>5 DEF Go
  <2> HIDE DEF u
  <2> QED BY <1>1, <1>3, <1>4, <1>5, <2>1, <2>2, EvictingKeeps, Zenon
<1>6. CASE Go(p, [procs[p] EXCEPT !.at = "dropping", !.doomed = Doomed(u)]) /\ UNCHANGED cache
  <2> DEFINE rec == [procs[p] EXCEPT !.at = "dropping", !.doomed = Doomed(u)]
  <2>1. rec \in ProcRec /\ rec.at = "dropping" /\ rec.user = u
    BY <1>4, ProcFacts, Zenon DEF ProcRec, Places
  <2>2. procs' = [procs EXCEPT ![p] = rec]
    BY <1>6 DEF Go
  <2> HIDE DEF rec
  <2>3. RecOK(rec, users, jwts, lost)
    BY <1>2, <2>1 DEF RecOK
  <2>4. /\ left' \in 0..Changes /\ grace' \in [Users -> 0..Ttl] /\ CacheType'
        /\ EntryMatchesToken' /\ UNCHANGED <<kind, data, lost>>
    BY <1>1, <1>2, <1>3, <1>6 DEF DataType, CacheType, EntryMatchesToken, Cached, Issued, data
  <2> QED BY <1>3, <2>1, <2>2, <2>3, <2>4, CacheStepKeeps, Zenon
<1> QED BY <1>5, <1>6 DEF Clear

\* The second call: the principals go.
LEMMA DropKeeps ==
  ASSUME AccessInv, NEW p \in Procs, Drop(p)
  PROVE  AccessInv'
<1>1. AfterClearing(p) \in ProcRec /\ RecOK(AfterClearing(p), users, jwts, lost)
  BY AfterClearingTyped DEF Drop
<1>2. /\ procs' = [procs EXCEPT ![p] = AfterClearing(p)] /\ cache' = Without(procs[p].doomed)
      /\ procs[p].doomed \in SUBSET Tokens /\ UNCHANGED <<kind, left, data, lost, grace>>
      /\ index' = index /\ dirty' = dirty
  BY ProcFacts DEF Drop, Go, marks
<1>3. index' \in [Users -> IndexRec] /\ dirty' \in [Users -> BOOLEAN]
  BY <1>2, TypeParts DEF AccessInv, CacheType, DataType
<1> QED BY <1>1, <1>2, <1>3, EvictingKeeps, Zenon

\* Redis fails between or before the two calls: entries are only marked.
LEMMA ClearFailsKeeps ==
  ASSUME AccessInv, NEW p \in Procs, ClearFails(p)
  PROVE  AccessInv'
<1>1. DataType /\ CacheType /\ EntryMatchesToken /\ procs[p].user \in Users
  BY ProcFacts, TypeParts DEF AccessInv, ClearFails, RecOK
<1>2. UNCHANGED <<kind, data, lost>> /\ index' = index /\ grace' = grace /\ left' = left
      /\ jwts' = jwts /\ dirty' = [dirty EXCEPT ![procs[p].user] = TRUE]
      /\ procs' = [procs EXCEPT ![p] = Idle]
  BY DEF ClearFails, Return, Go, data
<1>3. ASSUME NEW t \in Tokens
      PROVE  /\ cache'[t] \in EntryRec
             /\ cache'[t].user = cache[t].user /\ cache'[t].row = cache[t].row
  <2>1. cache[t] \in EntryRec
    BY <1>1 DEF CacheType
  <2>2. cache'[t] = [cache[t] EXCEPT !.mark = "orphan"] \/ cache'[t] = cache[t]
    BY DEF ClearFails
  <2> QED BY <2>1, <2>2 DEF EntryRec
<1>4. cache' \in [Tokens -> EntryRec]
  <2>1. cache' = [t \in Tokens |-> cache'[t]]
    BY DEF ClearFails
  <2> QED BY <1>3, <2>1
<1>5. EntryMatchesToken'
  BY <1>1, <1>2, <1>3 DEF EntryMatchesToken, Cached, Issued
<1>6. CacheType' /\ grace' \in [Users -> 0..Ttl] /\ dirty' \in [Users -> BOOLEAN]
      /\ left' \in 0..Changes
  BY <1>1, <1>2, <1>4 DEF CacheType, DataType
<1> QED BY <1>2, <1>5, <1>6, Trivia, CacheStepKeeps, Zenon

-----------------------------------------------------------------------------
(* Steps on the tokens and the rows.                                       *)

\* A token is minted from the copy of the row, which is not ahead of it.
LEMMA IssueKeeps ==
  ASSUME AccessInv, NEW p \in Procs, NEW t \in Tokens, Issue(p, t)
  PROVE  AccessInv'
<1> DEFINE u == procs[p].user
           v == procs[p].row.ver
           tok == [user |-> u, ver |-> v, life |-> Lifetime, outlived |-> v # users[u].ver]
<1>1. /\ jwts' = [jwts EXCEPT ![t] = tok] /\ procs' = [procs EXCEPT ![p] = Idle]
      /\ UNCHANGED <<kind, left, users, admins, caching, marks>> /\ ~Issued(t)
  BY DEF Issue, Return, Go
<1>2. u \in Users /\ v \in Nat \ {0} /\ (~lost[u] => v <= users[u].ver)
      /\ users[u].ver \in Nat \ {0}
  BY ProcFacts DEF Issue, RecOK, Rows
<1>3. DataType /\ CacheType /\ EntryMatchesToken /\ TokenInv
  BY TypeParts DEF AccessInv
<1>4. tok \in TokenRec /\ tok.user = u /\ tok.ver = v /\ tok.outlived = (v # users[u].ver)
  BY <1>2, AccessAssumption DEF TokenRec
<1> HIDE DEF tok
<1>5. /\ jwts' \in [Tokens -> TokenRec] /\ jwts'[t] = tok
      /\ \A x \in Tokens \ {t} : jwts'[x] = jwts[x]
  BY <1>1, <1>3, <1>4 DEF DataType
<1>6. users' = users /\ lost' = lost /\ cache' = cache /\ index' = index /\ dirty' = dirty
      /\ grace' = grace /\ kind' = kind /\ left' = left /\ admins' = admins
  BY <1>1 DEF caching, marks
<1>7. DataType' /\ CacheType'
  BY <1>3, <1>5, <1>6 DEF DataType, CacheType
<1>8. Frame
  <2>1. \A x \in Users : users'[x].ver = users[x].ver /\ users[x].ver <= users[x].ver
    BY <1>6, Trivia
  <2> QED BY <1>1, <1>5, <1>6, <2>1 DEF Frame, Issued
<1>9. TokenInv'
  <2> SUFFICES ASSUME NEW x \in Tokens, jwts'[x].user # NoUser, ~lost[jwts'[x].user]
               PROVE  /\ jwts'[x].ver <= users[jwts'[x].user].ver
                      /\ jwts'[x].outlived => jwts'[x].ver < users[jwts'[x].user].ver
    BY <1>6 DEF TokenInv, Issued
  <2>1. CASE x = t
    <3>1. /\ jwts'[x].user = u /\ jwts'[x].ver = v
          /\ jwts'[x].outlived = (v # users[u].ver) /\ ~lost[u]
      BY <1>4, <1>5, <2>1
    <3>2. v <= users[u].ver /\ (v # users[u].ver => v < users[u].ver)
      BY <1>2, <3>1
    <3> QED BY <3>1, <3>2, Zenon
  <2>2. CASE x # t
    BY <1>3, <1>5, <2>2 DEF TokenInv, Issued
  <2> QED BY <2>1, <2>2
<1>10. EntryMatchesToken'
  BY <1>3, <1>6, <1>8, EntriesKept
<1>11. users' \in [Users -> Rows]
  BY <1>3, <1>6 DEF DataType
<1>12. ProcType' /\ ProcInv'
  BY <1>1, <1>8, <1>11, Trivia, ProcessesKept, Zenon
<1> QED BY <1>7, <1>9, <1>10, <1>12, TypePartsNext DEF AccessInv

\* What a process does after its commit.
LEMMA AfterCommitTyped ==
  ASSUME AccessInv, NEW p \in Procs, procs[p].at = "writing", NEW us, NEW js, NEW lo
  PROVE  AfterCommit(p) \in ProcRec /\ RecOK(AfterCommit(p), us, js, lo)
<1>1. CASE procs[p].op \in Invalidating
  <2> DEFINE rec == [Idle EXCEPT !.at = "clearing", !.op = procs[p].op, !.user = procs[p].user]
  <2>1. procs[p].user \in Users /\ procs[p].op \in Ops
    BY ProcFacts DEF RecOK
  <2>2. rec \in ProcRec /\ rec.at = "clearing" /\ rec.user = procs[p].user
    BY <2>1, ConstantsTyped, Zenon DEF Idle, ProcRec, Places
  <2>3. AfterCommit(p) = rec
    BY <1>1 DEF AfterCommit
  <2> HIDE DEF rec
  <2> QED BY <2>1, <2>2, <2>3 DEF RecOK
<1>2. CASE procs[p].op \notin Invalidating
  BY <1>2, Trivia DEF AfterCommit
<1> QED BY <1>1, <1>2

\* The commit writes one row.  If the operation counts up and the copy it
\* counted from was the current row, the version grows; if it was not, the row is
\* one with a lost increment; other operations leave the version.
LEMMA CommitRow ==
  ASSUME AccessInv, NEW p \in Procs, Commit(p)
  PROVE  LET u == procs[p].user
             op == procs[p].op
         IN  /\ u \in Users /\ op \in Writes
             /\ users' \in [Users -> Rows] /\ lost' \in [Users -> BOOLEAN]
             /\ \A x \in Users \ {u} : users'[x] = users[x] /\ lost'[x] = lost[x]
             /\ lost[u] => lost'[u]
             /\ users'[u].ver = IF op \in Bumping THEN procs[p].row.ver + 1 ELSE users[u].ver
             /\ op \in Bumping /\ ~lost'[u] => procs[p].row.ver = users[u].ver
<1> DEFINE u == procs[p].user
           op == procs[p].op
           row == procs[p].row
           new == Bump(Columns(users[u], op), row, op)
           gone == lost[u] \/ (op \in Bumping /\ row.ver # users[u].ver)
<1>1. DataType /\ procs[p].at = "writing"
  BY TypeParts DEF AccessInv, Commit
<1>2. u \in Users /\ op \in Writes /\ row \in Rows /\ users[u] \in Rows
  BY <1>1, ProcFacts DEF RecOK
<1>3. new \in Rows /\ new.ver = IF op \in Bumping THEN row.ver + 1 ELSE users[u].ver
  BY <1>2, UpdateTyped, Zenon
<1>4. gone \in BOOLEAN
  BY <1>1, <1>2 DEF DataType
<1>5. users' = [users EXCEPT ![u] = new] /\ lost' = [lost EXCEPT ![u] = gone]
  BY DEF Commit
<1> HIDE DEF new
<1>6. users' \in [Users -> Rows] /\ users'[u] = new /\ \A x \in Users \ {u} : users'[x] = users[x]
  BY <1>1, <1>2, <1>3, <1>5 DEF DataType
<1>7. lost' \in [Users -> BOOLEAN] /\ lost'[u] = gone
      /\ \A x \in Users \ {u} : lost'[x] = lost[x]
  <2> HIDE DEF gone
  <2> QED BY <1>1, <1>2, <1>4, <1>5 DEF DataType
<1>8. (lost[u] => lost'[u]) /\ (op \in Bumping /\ ~lost'[u] => row.ver = users[u].ver)
  BY <1>7, Zenon
<1> QED BY <1>2, <1>3, <1>6, <1>7, <1>8

\* The commit keeps every token's claims and marks those of its user.
LEMMA CommitTokens ==
  ASSUME AccessInv, NEW p \in Procs, Commit(p)
  PROVE  /\ jwts' \in [Tokens -> TokenRec]
         /\ \A t \in Tokens :
               /\ jwts'[t].user = jwts[t].user /\ jwts'[t].ver = jwts[t].ver
               /\ jwts'[t].outlived => \/ jwts[t].outlived
                                       \/ /\ procs[p].op \in Bumping
                                          /\ jwts[t].user = procs[p].user
<1>1. ASSUME NEW t \in Tokens
      PROVE  /\ jwts'[t] \in TokenRec
             /\ jwts'[t].user = jwts[t].user /\ jwts'[t].ver = jwts[t].ver
             /\ jwts'[t].outlived => \/ jwts[t].outlived
                                     \/ procs[p].op \in Bumping /\ jwts[t].user = procs[p].user
  <2>1. jwts[t] \in TokenRec
    BY ProcFacts
  <2>2. \/ jwts'[t] = jwts[t]
        \/ /\ jwts'[t] = [jwts[t] EXCEPT !.outlived = TRUE]
           /\ procs[p].op \in Bumping /\ jwts[t].user = procs[p].user
    BY DEF Commit
  <2> QED BY <2>1, <2>2, Zenon DEF TokenRec
<1>2. jwts' = [t \in Tokens |-> jwts'[t]]
  BY DEF Commit
<1> QED BY <1>1, <1>2

\* The commit of a writing operation.
LEMMA CommitKeeps ==
  ASSUME AccessInv, NEW p \in Procs, Commit(p)
  PROVE  AccessInv'
<1> DEFINE u == procs[p].user
           op == procs[p].op
<1>1. /\ u \in Users /\ op \in Writes
      /\ users' \in [Users -> Rows] /\ lost' \in [Users -> BOOLEAN]
      /\ \A x \in Users \ {u} : users'[x] = users[x] /\ lost'[x] = lost[x]
      /\ lost[u] => lost'[u]
      /\ users'[u].ver = IF op \in Bumping THEN procs[p].row.ver + 1 ELSE users[u].ver
      /\ op \in Bumping /\ ~lost'[u] => procs[p].row.ver = users[u].ver
  BY CommitRow
<1>2. /\ jwts' \in [Tokens -> TokenRec]
      /\ \A t \in Tokens :
            /\ jwts'[t].user = jwts[t].user /\ jwts'[t].ver = jwts[t].ver
            /\ jwts'[t].outlived => jwts[t].outlived \/ (op \in Bumping /\ jwts[t].user = u)
  BY CommitTokens
<1>3. DataType /\ CacheType /\ EntryMatchesToken /\ TokenInv
  BY TypeParts DEF AccessInv
<1>4. /\ kind' = kind /\ left' = left /\ cache' = cache /\ index' = index
      /\ admins' = Tuples(u, op, procs[p].flag)
      /\ dirty' = [dirty EXCEPT ![u] = @ \/ op \notin Invalidating]
      /\ grace' = [grace EXCEPT ![u] = Ttl]
      /\ procs' = [procs EXCEPT ![p] = AfterCommit(p)] /\ procs[p].at = "writing"
  BY DEF Commit, Go, caching
<1>5. DataType'
  <2>1. admins' \in SUBSET Users
    BY <1>1, <1>3, <1>4 DEF Tuples, DataType
  <2>2. dirty' \in [Users -> BOOLEAN]
    BY <1>1, <1>3, <1>4 DEF DataType
  <2>3. grace' \in [Users -> 0..Ttl]
    BY <1>1, <1>3, <1>4, AccessAssumption DEF DataType
  <2> QED BY <1>1, <1>2, <1>3, <1>4, <2>1, <2>2, <2>3 DEF DataType
<1>6. \A x \in Users : users[x].ver \in Nat /\ users'[x].ver \in Nat
  BY <1>1, <1>3 DEF DataType, Rows
<1>7. \A x \in Users : /\ lost[x] => lost'[x]
                       /\ ~lost'[x] => users[x].ver <= users'[x].ver
                       /\ ~lost'[x] /\ x = u /\ op \in Bumping => users[x].ver < users'[x].ver
  BY <1>1, <1>6
<1>8. Frame
  BY <1>2, <1>7 DEF Frame
<1>9. TokenInv'
  <2> SUFFICES ASSUME NEW t \in Tokens, jwts[t].user # NoUser, ~lost'[jwts[t].user]
               PROVE  /\ jwts[t].ver <= users'[jwts[t].user].ver
                      /\ jwts'[t].outlived => jwts[t].ver < users'[jwts[t].user].ver
    BY <1>2 DEF TokenInv, Issued
  <2> DEFINE x == jwts[t].user
  <2>1. x \in Users /\ jwts[t].ver \in Nat
    BY <1>3 DEF DataType, TokenRec
  <2>2. /\ ~lost[x] /\ jwts[t].ver <= users[x].ver
        /\ jwts[t].outlived => jwts[t].ver < users[x].ver
    BY <1>3, <1>7, <2>1 DEF TokenInv, Issued
  <2> QED BY <1>2, <1>6, <1>7, <2>1, <2>2
<1>10. EntryMatchesToken'
  BY <1>3, <1>4, <1>8, EntriesKept
<1>11. AfterCommit(p) \in ProcRec /\ RecOK(AfterCommit(p), users', jwts', lost')
  BY <1>4, AfterCommitTyped
<1>12. ProcType' /\ ProcInv'
  BY <1>1, <1>4, <1>8, <1>11, ProcessesKept, Zenon
<1>13. CacheType'
  BY <1>3, <1>4 DEF CacheType
<1> QED BY <1>5, <1>9, <1>10, <1>12, <1>13, TypePartsNext DEF AccessInv

\* Time passes: lifetimes shrink, and what runs out is no longer served.
LEMMA TickKeeps ==
  ASSUME AccessInv, Tick
  PROVE  AccessInv'
<1>1. DataType /\ CacheType /\ ProcType /\ EntryMatchesToken /\ TokenInv /\ ProcInv
  BY TypeParts DEF AccessInv
<1>2. kind' = kind /\ left' = left /\ users' = users /\ admins' = admins /\ procs' = procs
      /\ dirty' = dirty /\ lost' = lost
  BY DEF Tick
<1>3. ASSUME NEW t \in Tokens
      PROVE  /\ jwts'[t] \in TokenRec /\ jwts'[t].user = jwts[t].user
             /\ jwts'[t].ver = jwts[t].ver /\ jwts'[t].outlived = jwts[t].outlived
             /\ cache'[t] \in EntryRec
             /\ cache'[t] = NoEntry \/ (cache'[t].user = cache[t].user
                                        /\ cache'[t].row = cache[t].row)
  <2>1. jwts[t] \in TokenRec /\ cache[t] \in EntryRec
    BY <1>1 DEF DataType, CacheType
  <2>2. jwts'[t] = [jwts[t] EXCEPT !.life = Less(@)] /\ cache'[t] = Aged(cache[t])
    BY DEF Tick
  <2>3. Less(jwts[t].life) \in 0..Lifetime
    BY <2>1, AccessAssumption DEF Less, TokenRec
  <2>4. /\ jwts'[t] \in TokenRec /\ jwts'[t].user = jwts[t].user
        /\ jwts'[t].ver = jwts[t].ver /\ jwts'[t].outlived = jwts[t].outlived
    BY <2>1, <2>2, <2>3 DEF TokenRec
  <2>5. CASE cache[t].ttl > 1
    BY <2>1, <2>2, <2>4, <2>5, AccessAssumption DEF Aged, EntryRec
  <2>6. CASE ~(cache[t].ttl > 1)
    BY <2>2, <2>4, <2>6, ConstantsTyped DEF Aged
  <2> QED BY <2>5, <2>6
<1>4. jwts' \in [Tokens -> TokenRec] /\ cache' \in [Tokens -> EntryRec]
  <2>1. jwts' = [t \in Tokens |-> jwts'[t]] /\ cache' = [t \in Tokens |-> cache'[t]]
    BY DEF Tick
  <2> QED BY <1>3, <2>1
<1>5. index' \in [Users -> IndexRec] /\ grace' \in [Users -> 0..Ttl]
  <2>1. \A u \in Users : AgedIndex(index[u]) \in IndexRec
    BY <1>1, AccessAssumption DEF AgedIndex, CacheType, IndexRec
  <2>2. \A u \in Users : Less(grace[u]) \in 0..Ttl
    BY <1>1, AccessAssumption DEF Less, DataType
  <2> QED BY <2>1, <2>2 DEF Tick
<1>6. DataType' /\ CacheType' /\ ProcType'
  BY <1>1, <1>2, <1>4, <1>5 DEF DataType, CacheType, ProcType
<1>7. TokenInv'
  BY <1>1, <1>2, <1>3 DEF TokenInv, Issued
<1>8. Frame
  <2>1. \A u \in Users : users[u].ver <= users[u].ver
    BY Trivia
  <2> QED BY <1>2, <1>3, <2>1 DEF Frame
<1>9. EntryMatchesToken'
  BY <1>1, <1>3, <1>8, ConstantsTyped, EntriesKept
<1>10. ProcInv'
  <2> SUFFICES ASSUME NEW p \in Procs PROVE RecOK(procs[p], users, jwts', lost)
    BY <1>2 DEF ProcInv
  <2> QED BY <1>1, <1>3 DEF ProcInv, RecOK
<1> QED BY <1>6, <1>7, <1>9, <1>10, TypePartsNext DEF AccessInv

-----------------------------------------------------------------------------
(* The invariant and the theorems.                                         *)

\* The invariant holds when the service starts with new rows and no token.
LEMMA AccessStarts == Init => AccessInv
<1> SUFFICES ASSUME Init PROVE AccessInv
  OBVIOUS
<1> USE ConstantsTyped, AccessAssumption
<1>1. DataType
  BY DEF Init, DataType
<1>2. CacheType
  <2>1. [tokens |-> {}, ttl |-> 0] \in IndexRec
    BY DEF IndexRec
  <2> QED BY <2>1 DEF Init, CacheType
<1>3. ProcType
  BY DEF Init, ProcType
<1>4. ProcInv
  BY DEF Init, ProcInv, RecOK
<1>5. TokenInv
  BY DEF Init, TokenInv, Issued
<1>6. EntryMatchesToken
  BY DEF Init, EntryMatchesToken, Cached
<1> QED BY <1>1, <1>2, <1>3, <1>4, <1>5, <1>6, TypeParts DEF AccessInv

\* Nothing changes when the variables do not.
LEMMA AccessStutters ==
  ASSUME AccessInv, UNCHANGED vars
  PROVE  AccessInv'
<1>1. /\ kind' = kind /\ left' = left /\ users' = users /\ admins' = admins /\ jwts' = jwts
      /\ cache' = cache /\ index' = index /\ procs' = procs /\ dirty' = dirty
      /\ grace' = grace /\ lost' = lost
  BY DEF vars, data, caching, marks
<1>2. DataType /\ CacheType /\ ProcType /\ ProcInv /\ TokenInv /\ EntryMatchesToken
  BY TypeParts DEF AccessInv
<1>3. DataType' /\ CacheType' /\ ProcType'
  BY <1>1, <1>2 DEF DataType, CacheType, ProcType
<1>4. ProcInv' /\ TokenInv' /\ EntryMatchesToken'
  BY <1>1, <1>2 DEF ProcInv, TokenInv, EntryMatchesToken, Cached, Issued
<1> QED BY <1>3, <1>4, TypePartsNext DEF AccessInv

\* Every step of the service keeps the invariant.
LEMMA AccessStep == AccessInv /\ [Next]_vars => AccessInv'
<1> SUFFICES ASSUME AccessInv, [Next]_vars PROVE AccessInv'
  OBVIOUS
<1>1. ASSUME NEW p \in Procs, NEW u \in Users, IssueRead(p, u) PROVE AccessInv'
  BY <1>1, IssueReadKeeps
<1>2. ASSUME NEW p \in Procs, NEW u \in Users, GrantCheck(p, u) PROVE AccessInv'
  BY <1>2, GrantCheckKeeps
<1>3. ASSUME NEW p \in Procs, NEW u \in Users, NEW op \in {"logout_all", "deactivate"},
             LogoutAll(p, u, op)
      PROVE  AccessInv'
  BY <1>3, LogoutAllKeeps
<1>4. ASSUME NEW p \in Procs, NEW u \in Users,
             NEW op \in {"revoke", "reset", "erase", "verify", "email"}, BeginWrite(p, u, op)
      PROVE  AccessInv'
  BY <1>4, BeginWriteKeeps
<1>5. ASSUME NEW p \in Procs, NEW t \in Tokens, Issue(p, t) PROVE AccessInv'
  BY <1>5, IssueKeeps
<1>6. ASSUME NEW p \in Procs, NEW t \in Tokens, ResolveHit(p, t) PROVE AccessInv'
  <2>1. UNCHANGED vars
    BY <1>6 DEF ResolveHit, AfterGet, vars, caching
  <2> QED BY <2>1, AccessStutters
<1>7. ASSUME NEW p \in Procs, NEW t \in Tokens, ResolveMiss(p, t) PROVE AccessInv'
  BY <1>7, ResolveMissKeeps
<1>8. ASSUME NEW p \in Procs, ResolveRead(p) PROVE AccessInv'
  BY <1>8, ResolveReadKeeps
<1>9. ASSUME NEW p \in Procs, ResolvePut(p) PROVE AccessInv'
  BY <1>9, ResolvePutKeeps
<1>10. ASSUME NEW p \in Procs, Clear(p) PROVE AccessInv'
  BY <1>10, ClearKeeps
<1>11. ASSUME NEW p \in Procs, Drop(p) PROVE AccessInv'
  BY <1>11, DropKeeps
<1>12. ASSUME NEW p \in Procs, ClearFails(p) PROVE AccessInv'
  BY <1>12, ClearFailsKeeps
<1>13. ASSUME NEW p \in Procs, DeactivateRead(p) PROVE AccessInv'
  BY <1>13, DeactivateReadKeeps
<1>14. ASSUME NEW p \in Procs, GrantInsert(p) PROVE AccessInv'
  BY <1>14, GrantInsertKeeps
<1>15. ASSUME NEW p \in Procs, Commit(p) PROVE AccessInv'
  BY <1>15, CommitKeeps
<1>16. ASSUME NEW p \in Procs, Rollback(p) PROVE AccessInv'
  BY <1>16, ReturnKeeps DEF Rollback
<1>17. CASE Tick
  BY <1>17, TickKeeps
<1>18. CASE UNCHANGED vars
  BY <1>18, AccessStutters
<1> QED
  BY Zenon, <1>1, <1>2, <1>3, <1>4, <1>5, <1>6, <1>7, <1>8, <1>9, <1>10, <1>11, <1>12, <1>13,
     <1>14, <1>15, <1>16, <1>17, <1>18 DEF Next

\* The invariant holds in every reachable state.
LEMMA AccessAlways == Spec => []AccessInv
  BY AccessStarts, AccessStep, PTL DEF Spec

\* The tables, the tokens and the cache stay well formed under every interleaving
\* of requests, transactions and Redis failures.
THEOREM AccessTypesHold == Spec => []TypeOK
<1>1. AccessInv => TypeOK
  BY DEF AccessInv
<1> QED BY <1>1, AccessAlways, PTL

\* A principal is cached only under a token of the same user and version, whose
\* account was active when it was read (resolve_principal.py 58-74).
THEOREM EntryMatchesTokenHolds == Spec => []EntryMatchesToken
<1>1. AccessInv => EntryMatchesToken
  BY DEF AccessInv
<1> QED BY <1>1, AccessAlways, PTL

\* A token that a bump should have ended matches its user's row never again, for
\* every user on whose row no two increments overlapped (jwt_tokens.py 70-71).
THEOREM StaleTokensDieHolds == Spec => []StaleTokensDie
<1>1. AccessInv => StaleTokensDie
  <2> SUFFICES ASSUME AccessInv, NEW t \in Tokens, Issued(t), jwts[t].outlived,
                      ~lost[jwts[t].user]
               PROVE  jwts[t].ver # users[jwts[t].user].ver
    BY DEF StaleTokensDie
  <2>1. jwts[t].ver < users[jwts[t].user].ver
    BY DEF AccessInv, TokenInv
  <2>2. jwts[t].user \in Users /\ jwts[t].ver \in Nat /\ users[jwts[t].user].ver \in Nat
    BY TypeParts DEF AccessInv, DataType, TokenRec, Rows, Issued
  <2> QED BY <2>1, <2>2
<1> QED BY <1>1, AccessAlways, PTL

\* Only the commit of a grant or a revocation changes the tuples of a user, and it
\* writes the counted-up version in the same step (write_relationships 218-243,
\* delete_relationships 254-278).
LEMMA TupleStep ==
  ASSUME AccessInv, [Next]_vars, NEW u \in Users, (u \in admins) # (u \in admins')
  PROVE  users'[u].ver # users[u].ver \/ lost'[u]
<1>1. admins' # admins
  OBVIOUS
<1>2. PICK p \in Procs : Commit(p)
  BY Zenon, <1>1 DEF Next, vars, data, IssueRead, GrantCheck, LogoutAll, BeginWrite, Issue,
     ResolveHit, ResolveMiss, ResolveRead, ResolvePut, Clear, Drop, ClearFails,
     DeactivateRead, GrantInsert, Rollback, Tick
<1>3. admins' = Tuples(procs[p].user, procs[p].op, procs[p].flag)
  BY <1>2 DEF Commit
<1>4. u = procs[p].user /\ procs[p].op \in Bumping
  BY <1>3 DEF Tuples, Bumping
<1>5. CASE ~lost'[u]
  <2>1. users'[u].ver = procs[p].row.ver + 1 /\ procs[p].row.ver = users[u].ver
    BY <1>2, <1>4, <1>5, CommitRow
  <2>2. users[u].ver \in Nat
    BY Trivia DEF Rows
  <2> QED BY <2>1, <2>2
<1> QED BY <1>5

\* A tuple and the bump of its subject commit together.
THEOREM TupleWithBumpHolds == Spec => TupleWithBump
<1>1. AccessInv /\ [Next]_vars =>
        [\A u \in Users : ((u \in admins) # (u \in admins')) =>
              users'[u].ver # users[u].ver \/ lost'[u]]_vars
  BY TupleStep
<1> QED BY <1>1, AccessAlways, PTL DEF Spec, TupleWithBump

-----------------------------------------------------------------------------
(* The invalidation of cached principals.                                  *)

\* With Redis, the set of a user's tokens outlives every principal it leads to.
IndexOutlives ==
    kind = "redis" => \A t \in Tokens :
        Cached(t) /\ t \in index[cache[t].user].tokens => cache[t].ttl <= index[cache[t].user].ttl

CacheInv == InvalidateEvicts /\ StaleBounded /\ IndexOutlives

\* The invalidations under way stay under way, the one of p perhaps excepted.
LEMMA InvalidationsGoOn ==
  ASSUME AccessInv, NEW p \in Procs, NEW rec, procs' = [procs EXCEPT ![p] = rec]
  PROVE  /\ procs'[p] = rec
         /\ \A t : Dropping(t) => Dropping(t)' \/ (procs[p].at = "dropping" /\ t \in procs[p].doomed)
         /\ \A u : Clearing(u) => Clearing(u)' \/ (procs[p].at = "clearing" /\ procs[p].user = u)
<1>1. procs \in [Procs -> ProcRec]
  BY TypeParts DEF AccessInv, ProcType
<1>2. procs'[p] = rec /\ \A q \in Procs \ {p} : procs'[q] = procs[q]
  BY <1>1
<1> QED BY <1>2 DEF Dropping, Clearing

\* Entries that only leave, while the rest stays as it is and no invalidation ends.
LEMMA LeavingKeeps ==
  ASSUME AccessInv, CacheInv,
         kind' = kind, users' = users, index' = index, dirty' = dirty, grace' = grace,
         \A t \in Tokens : cache'[t].user = NoUser \/ cache'[t] = cache[t],
         \A t : Dropping(t) => Dropping(t)' \/ cache'[t].user = NoUser,
         \A u : Clearing(u) => Clearing(u)'
  PROVE  CacheInv'
<1>1. InvalidateEvicts'
  BY DEF CacheInv, InvalidateEvicts, Cached
<1>2. StaleBounded'
  BY DEF CacheInv, StaleBounded, Cached
<1>3. IndexOutlives'
  BY DEF CacheInv, IndexOutlives, Cached
<1> QED BY <1>1, <1>2, <1>3 DEF CacheInv

\* A process that invalidates nothing leaves the cache alone.
LEMMA AsideKeeps ==
  ASSUME AccessInv, CacheInv, NEW p \in Procs, NEW rec, procs' = [procs EXCEPT ![p] = rec],
         procs[p].at \notin {"clearing", "dropping"},
         kind' = kind, users' = users, cache' = cache, index' = index, dirty' = dirty,
         grace' = grace
  PROVE  CacheInv'
<1>1. /\ \A t : Dropping(t) => Dropping(t)' \/ (procs[p].at = "dropping" /\ t \in procs[p].doomed)
      /\ \A u : Clearing(u) => Clearing(u)' \/ (procs[p].at = "clearing" /\ procs[p].user = u)
  BY InvalidationsGoOn, Zenon
<1> QED BY <1>1, LeavingKeeps

\* The operations that move one process and leave the cache and the rows alone.
LEMMA AsideSteps ==
  ASSUME AccessInv, CacheInv, NEW p \in Procs,
         \/ \E u \in Users :
              \/ IssueRead(p, u) \/ GrantCheck(p, u)
              \/ \E op \in {"logout_all", "deactivate"} : LogoutAll(p, u, op)
              \/ \E op \in {"revoke", "reset", "erase", "verify", "email"} : BeginWrite(p, u, op)
         \/ \E t \in Tokens : Issue(p, t) \/ ResolveMiss(p, t)
         \/ DeactivateRead(p) \/ GrantInsert(p) \/ Rollback(p)
  PROVE  CacheInv'
<1>1. /\ procs[p].at \notin {"clearing", "dropping"}
      /\ kind' = kind /\ users' = users /\ cache' = cache /\ index' = index /\ dirty' = dirty
      /\ grace' = grace
  BY Zenon DEF IssueRead, GrantCheck, LogoutAll, BeginWrite, Issue, ResolveMiss, DeactivateRead,
         GrantInsert, Rollback, data, caching, marks
<1>2. \E rec : procs' = [procs EXCEPT ![p] = rec]
  BY Zenon DEF IssueRead, GrantCheck, LogoutAll, BeginWrite, Issue, ResolveMiss, DeactivateRead,
         GrantInsert, Rollback, Go, Return
<1> QED BY <1>1, <1>2, AsideKeeps, Zenon

\* The read of a resolution, which drops the entry of a stale token.
LEMMA ResolveReadCache ==
  ASSUME AccessInv, CacheInv, NEW p \in Procs, ResolveRead(p)
  PROVE  CacheInv'
<1>1. /\ procs[p].at = "reading"
      /\ kind' = kind /\ users' = users /\ index' = index /\ dirty' = dirty /\ grace' = grace
  BY DEF ResolveRead, data, marks
<1>2. \E rec : procs' = [procs EXCEPT ![p] = rec]
  BY DEF ResolveRead, Go, Return
<1>3. cache' = cache \/ cache' = Without({procs[p].token})
  BY DEF ResolveRead
<1>4. \A t \in Tokens : cache'[t].user = NoUser \/ cache'[t] = cache[t]
  BY <1>3, ConstantsTyped DEF Without
<1>5. /\ \A t : Dropping(t) => Dropping(t)' \/ (procs[p].at = "dropping" /\ t \in procs[p].doomed)
      /\ \A u : Clearing(u) => Clearing(u)' \/ (procs[p].at = "clearing" /\ procs[p].user = u)
  BY <1>2, InvalidationsGoOn, Zenon
<1> QED BY <1>1, <1>4, <1>5, LeavingKeeps

\* A resolution stores the principal it read, and its token in the user's index.
LEMMA ResolvePutCache ==
  ASSUME AccessInv, CacheInv, NEW p \in Procs, ResolvePut(p)
  PROVE  CacheInv'
<1> DEFINE t == procs[p].token
           u == procs[p].user
           late == procs[p].row # users[u]
           new == [user |-> u, row |-> procs[p].row, ttl |-> Ttl,
                   mark |-> IF late THEN "late" ELSE "none"]
<1>1. procs[p].at = "putting" /\ t \in Tokens /\ u \in Users
  BY ProcFacts DEF ResolvePut, RecOK
<1>2. PICK out \in Evicted(t) : cache' = [Without(out) EXCEPT ![t] = new]
  BY Zenon DEF ResolvePut
<1>3. /\ index' = [index EXCEPT ![u] = [tokens |-> index[u].tokens \cup {t},
                                        ttl |-> IF kind = "memory" THEN 0 ELSE Ttl]]
      /\ grace' = [grace EXCEPT ![u] = IF late THEN Ttl ELSE @]
      /\ procs' = [procs EXCEPT ![p] = Idle]
      /\ kind' = kind /\ users' = users /\ dirty' = dirty
  BY Zenon DEF ResolvePut, SetIndex, Return, Go, data
<1>4. /\ new.user = u /\ new.row = procs[p].row /\ new.ttl = Ttl
      /\ new.mark = IF late THEN "late" ELSE "none"
      /\ late <=> procs[p].row # users[u]
  OBVIOUS
<1>5. /\ cache \in [Tokens -> EntryRec] /\ index \in [Users -> IndexRec]
      /\ grace \in [Users -> 0..Ttl] /\ kind \in {"memory", "redis"}
  BY TypeParts DEF AccessInv, CacheType, DataType
<1> HIDE DEF t, u, late, new
<1>6. cache'[t] = new /\ \A s \in Tokens \ {t} : cache'[s].user = NoUser \/ cache'[s] = cache[s]
  BY <1>1, <1>2, ConstantsTyped DEF Without
<1>7. /\ \A x \in Users \ {u} : index'[x] = index[x] /\ grace'[x] = grace[x]
      /\ index'[u].tokens = index[u].tokens \cup {t}
      /\ kind = "redis" => index'[u].ttl = Ttl
      /\ late => grace'[u] = Ttl
      /\ ~late => grace'[u] = grace[u]
  BY <1>1, <1>3, <1>5
<1>8. /\ \A s : Dropping(s) => Dropping(s)' \/ (procs[p].at = "dropping" /\ s \in procs[p].doomed)
      /\ \A x : Clearing(x) => Clearing(x)' \/ (procs[p].at = "clearing" /\ procs[p].user = x)
  BY <1>3, InvalidationsGoOn, Zenon
<1>9. /\ Ttl \in Nat /\ NoUser \notin Users
      /\ \A s \in Tokens : cache[s].ttl \in 0..Ttl /\ cache[s].user \in Users \cup {NoUser}
  BY <1>5, AccessAssumption DEF EntryRec
<1>10. InvalidateEvicts'
  <2> SUFFICES ASSUME NEW s \in Tokens, cache'[s].user # NoUser
               PROVE  /\ s \in index'[cache'[s].user].tokens \/ Dropping(s)' \/ cache'[s].mark = "orphan"
                      /\ cache'[s].mark = "none" /\ cache'[s].row # users'[cache'[s].user] =>
                            dirty'[cache'[s].user] \/ Clearing(cache[s].user)' \/ Dropping(s)'
    BY DEF InvalidateEvicts, Cached
  <2>1. CASE s = t
    BY <1>3, <1>4, <1>6, <1>7, <2>1
  <2>2. CASE s # t
    <3>1. cache'[s] = cache[s] /\ cache[s].user \in Users
      BY <1>6, <1>9, <2>2
    <3>2. index[cache[s].user].tokens \subseteq index'[cache[s].user].tokens
      BY <1>7, <3>1
    <3> QED BY <1>1, <1>3, <1>8, <3>1, <3>2 DEF CacheInv, InvalidateEvicts, Cached
  <2> QED BY <2>1, <2>2
<1>11. StaleBounded'
  <2> SUFFICES ASSUME NEW s \in Tokens, cache'[s].user # NoUser,
                      cache'[s].row # users'[cache'[s].user]
               PROVE  cache'[s].ttl <= grace'[cache'[s].user]
    BY DEF StaleBounded, Cached
  <2>1. CASE s = t
    BY <1>3, <1>4, <1>6, <1>7, <1>9, <2>1
  <2>2. CASE s # t
    <3>1. cache'[s] = cache[s] /\ cache[s].user \in Users
      BY <1>6, <1>9, <2>2
    <3>2. cache[s].ttl <= grace[cache[s].user]
      BY <1>3, <3>1 DEF CacheInv, StaleBounded, Cached
    <3> QED BY <1>7, <1>9, <3>1, <3>2
  <2> QED BY <2>1, <2>2
<1>12. IndexOutlives'
  <2> SUFFICES ASSUME kind = "redis", NEW s \in Tokens, cache'[s].user # NoUser,
                      s \in index'[cache'[s].user].tokens
               PROVE  cache'[s].ttl <= index'[cache'[s].user].ttl
    BY <1>3 DEF IndexOutlives, Cached
  <2>1. CASE s = t
    BY <1>4, <1>6, <1>7, <1>9, <2>1
  <2>2. CASE s # t
    <3>1. cache'[s] = cache[s] /\ cache[s].user \in Users
      BY <1>6, <1>9, <2>2
    <3>2. CASE cache[s].user = u
      BY <1>7, <1>9, <3>1, <3>2
    <3>3. CASE cache[s].user # u
      BY <1>7, <3>1, <3>3 DEF CacheInv, IndexOutlives, Cached
    <3> QED BY <3>2, <3>3
  <2> QED BY <2>1, <2>2
<1> QED BY <1>10, <1>11, <1>12 DEF CacheInv

\* invalidate_user takes the user's index, and with it every indexed principal.
LEMMA ClearCache ==
  ASSUME AccessInv, CacheInv, NEW p \in Procs, Clear(p)
  PROVE  CacheInv'
<1> DEFINE u == procs[p].user
           rec == IF kind = "memory" \/ Doomed(u) = {} THEN AfterClearing(p)
                  ELSE [procs[p] EXCEPT !.at = "dropping", !.doomed = Doomed(u)]
<1>1. procs[p].at = "clearing" /\ u \in Users /\ procs[p] \in ProcRec
  BY ProcFacts DEF Clear, RecOK
<1>2. /\ index' = [index EXCEPT ![u] = [tokens |-> {}, ttl |-> 0]]
      /\ dirty' = [dirty EXCEPT ![u] = FALSE]
      /\ kind' = kind /\ users' = users /\ grace' = grace
  BY DEF Clear, data
<1>3. procs' = [procs EXCEPT ![p] = rec]
  BY DEF Clear, Go
<1>4. cache' = cache \/ cache' = Without(Doomed(u))
  BY DEF Clear
<1>5. /\ cache \in [Tokens -> EntryRec] /\ index \in [Users -> IndexRec]
      /\ dirty \in [Users -> BOOLEAN] /\ NoUser \notin Users
      /\ \A s \in Tokens : cache[s].user \in Users \cup {NoUser}
  BY TypeParts, AccessAssumption DEF AccessInv, CacheType, DataType, EntryRec
<1>6. \A t \in Tokens : t \in Doomed(u) => cache'[t].user = NoUser \/ Dropping(t)'
  <2>1. CASE kind = "memory" \/ Doomed(u) = {}
    BY <2>1, ConstantsTyped DEF Clear, Without
  <2>2. CASE ~(kind = "memory" \/ Doomed(u) = {})
    <3>1. rec.at = "dropping" /\ rec.doomed = Doomed(u)
      BY <1>1, <2>2 DEF ProcRec
    <3> HIDE DEF rec
    <3>2. procs'[p] = rec
      BY <1>3, InvalidationsGoOn, Zenon
    <3> QED BY <3>1, <3>2 DEF Dropping
  <2> QED BY <2>1, <2>2
<1> HIDE DEF rec
<1>7. /\ \A s : Dropping(s) => Dropping(s)'
      /\ \A x : Clearing(x) => Clearing(x)' \/ x = u
  BY <1>1, <1>3, InvalidationsGoOn, Zenon
<1>8. Doomed(u) = index[u].tokens
  BY DEF Doomed
<1> HIDE DEF u
<1>9. \A s \in Tokens : cache'[s].user # NoUser => cache'[s] = cache[s] /\ cache[s].user \in Users
  BY <1>4, <1>5, ConstantsTyped DEF Without
<1>10. /\ index'[u].tokens = {} /\ ~dirty'[u]
       /\ \A x \in Users \ {u} : index'[x] = index[x] /\ dirty'[x] = dirty[x]
  BY <1>1, <1>2, <1>5
<1>11. InvalidateEvicts'
  <2> SUFFICES ASSUME NEW s \in Tokens, cache'[s].user # NoUser
               PROVE  /\ s \in index'[cache'[s].user].tokens \/ Dropping(s)' \/ cache'[s].mark = "orphan"
                      /\ cache'[s].mark = "none" /\ cache'[s].row # users'[cache'[s].user] =>
                            dirty'[cache'[s].user] \/ Clearing(cache[s].user)' \/ Dropping(s)'
    BY DEF InvalidateEvicts, Cached
  <2>1. cache'[s] = cache[s] /\ cache[s].user \in Users
    BY <1>9
  <2>2. /\ s \in index[cache[s].user].tokens \/ Dropping(s) \/ cache[s].mark = "orphan"
        /\ cache[s].mark = "none" /\ cache[s].row # users[cache[s].user] =>
              dirty[cache[s].user] \/ Clearing(cache[s].user) \/ Dropping(s)
    BY <2>1 DEF CacheInv, InvalidateEvicts, Cached
  <2>3. CASE cache[s].user = u
    BY <1>6, <1>7, <1>8, <2>1, <2>2, <2>3
  <2>4. CASE cache[s].user # u
    BY <1>2, <1>7, <1>10, <2>1, <2>2, <2>4
  <2> QED BY <2>3, <2>4
<1>12. StaleBounded'
  BY <1>2, <1>9 DEF CacheInv, StaleBounded, Cached
<1>13. IndexOutlives'
  BY <1>2, <1>9, <1>10 DEF CacheInv, IndexOutlives, Cached
<1> QED BY <1>11, <1>12, <1>13 DEF CacheInv

\* The second call to Redis deletes the principals of the set the first one took.
LEMMA DropCache ==
  ASSUME AccessInv, CacheInv, NEW p \in Procs, Drop(p)
  PROVE  CacheInv'
<1>1. /\ procs[p].at = "dropping" /\ cache' = Without(procs[p].doomed)
      /\ procs' = [procs EXCEPT ![p] = AfterClearing(p)]
      /\ kind' = kind /\ users' = users /\ index' = index /\ dirty' = dirty /\ grace' = grace
  BY DEF Drop, Go, data, marks
<1>2. /\ \A t \in Tokens : cache'[t].user = NoUser \/ cache'[t] = cache[t]
      /\ \A t \in Tokens : t \in procs[p].doomed => cache'[t].user = NoUser
  BY <1>1, ConstantsTyped DEF Without
<1>3. /\ \A t : Dropping(t) => Dropping(t)' \/ (procs[p].at = "dropping" /\ t \in procs[p].doomed)
      /\ \A u : Clearing(u) => Clearing(u)' \/ (procs[p].at = "clearing" /\ procs[p].user = u)
  BY <1>1, InvalidationsGoOn, Zenon
<1>4. procs[p].doomed \in SUBSET Tokens
  BY ProcFacts
<1>5. \A t : Dropping(t) => Dropping(t)' \/ cache'[t].user = NoUser
  BY <1>2, <1>3, <1>4
<1>6. \A u : Clearing(u) => Clearing(u)'
  BY <1>1, <1>3
<1> QED BY <1>1, <1>2, <1>5, <1>6, LeavingKeeps

\* An invalidation that fails leaves orphans, and its user marked.
LEMMA ClearFailsCache ==
  ASSUME AccessInv, CacheInv, NEW p \in Procs, ClearFails(p)
  PROVE  CacheInv'
<1> DEFINE u == procs[p].user
           D == procs[p].doomed
<1>1. procs[p].at \in {"clearing", "dropping"} /\ u \in Users /\ D \in SUBSET Tokens
  BY ProcFacts DEF ClearFails, RecOK
<1>2. /\ cache' = [t \in Tokens |-> IF t \in D /\ Cached(t)
                                    THEN [cache[t] EXCEPT !.mark = "orphan"] ELSE cache[t]]
      /\ dirty' = [dirty EXCEPT ![u] = TRUE]
      /\ procs' = [procs EXCEPT ![p] = Idle]
      /\ kind' = kind /\ users' = users /\ index' = index /\ grace' = grace
  BY DEF ClearFails, Return, Go, data
<1>3. /\ cache \in [Tokens -> EntryRec] /\ dirty \in [Users -> BOOLEAN] /\ NoUser \notin Users
      /\ \A s \in Tokens : cache[s].user \in Users \cup {NoUser}
  BY TypeParts, AccessAssumption DEF AccessInv, CacheType, DataType, EntryRec
<1>4. /\ \A t : Dropping(t) => Dropping(t)' \/ t \in D
      /\ \A x : Clearing(x) => Clearing(x)' \/ x = u
  BY <1>1, <1>2, InvalidationsGoOn, Zenon
<1> HIDE DEF u, D
<1>5. \A s \in Tokens : /\ cache'[s].user = cache[s].user /\ cache'[s].row = cache[s].row
                        /\ cache'[s].ttl = cache[s].ttl
                        /\ s \in D /\ cache[s].user # NoUser => cache'[s].mark = "orphan"
                        /\ s \notin D => cache'[s].mark = cache[s].mark
                        /\ cache'[s].mark \in {cache[s].mark, "orphan"}
  BY <1>2, <1>3 DEF Cached, EntryRec
<1>6. dirty'[u] /\ \A x \in Users \ {u} : dirty'[x] = dirty[x]
  BY <1>1, <1>2, <1>3
<1>7. InvalidateEvicts'
  <2> SUFFICES ASSUME NEW s \in Tokens, cache'[s].user # NoUser
               PROVE  /\ s \in index'[cache'[s].user].tokens \/ Dropping(s)' \/ cache'[s].mark = "orphan"
                      /\ cache'[s].mark = "none" /\ cache'[s].row # users'[cache'[s].user] =>
                            dirty'[cache'[s].user] \/ Clearing(cache[s].user)' \/ Dropping(s)'
    BY DEF InvalidateEvicts, Cached
  <2>1. cache'[s].user = cache[s].user /\ cache[s].user \in Users
    BY <1>3, <1>5
  <2>2. /\ s \in index[cache[s].user].tokens \/ Dropping(s) \/ cache[s].mark = "orphan"
        /\ cache[s].mark = "none" /\ cache[s].row # users[cache[s].user] =>
              dirty[cache[s].user] \/ Clearing(cache[s].user) \/ Dropping(s)
    BY <2>1 DEF CacheInv, InvalidateEvicts, Cached
  <2>3. CASE s \in D
    BY <1>5, <2>1, <2>3
  <2>4. CASE s \notin D
    BY <1>2, <1>4, <1>5, <1>6, <2>1, <2>2, <2>4
  <2> QED BY <2>3, <2>4
<1>8. StaleBounded'
  BY <1>2, <1>5 DEF CacheInv, StaleBounded, Cached
<1>9. IndexOutlives'
  BY <1>2, <1>5 DEF CacheInv, IndexOutlives, Cached
<1> QED BY <1>7, <1>8, <1>9 DEF CacheInv

\* A commit starts the grace of its user, and invalidates next or marks the user.
LEMMA CommitCache ==
  ASSUME AccessInv, CacheInv, NEW p \in Procs, Commit(p)
  PROVE  CacheInv'
<1> DEFINE u == procs[p].user
           op == procs[p].op
<1>1. procs[p].at = "writing" /\ u \in Users
  BY ProcFacts DEF Commit, RecOK
<1>2. /\ dirty' = [dirty EXCEPT ![u] = @ \/ op \notin Invalidating]
      /\ grace' = [grace EXCEPT ![u] = Ttl]
      /\ procs' = [procs EXCEPT ![p] = AfterCommit(p)]
      /\ kind' = kind /\ cache' = cache /\ index' = index
  BY DEF Commit, Go, caching
<1>3. \A x \in Users \ {u} : users'[x] = users[x]
  BY TypeParts DEF Commit, AccessInv, DataType
<1>4. op \in Invalidating => AfterCommit(p).at = "clearing" /\ AfterCommit(p).user = u
  BY DEF AfterCommit, Idle
<1>5. /\ cache \in [Tokens -> EntryRec] /\ dirty \in [Users -> BOOLEAN]
      /\ grace \in [Users -> 0..Ttl] /\ NoUser \notin Users /\ Ttl \in Nat
      /\ \A s \in Tokens : cache[s].user \in Users \cup {NoUser} /\ cache[s].ttl \in 0..Ttl
  BY TypeParts, AccessAssumption DEF AccessInv, CacheType, DataType, EntryRec
<1>6. /\ procs'[p] = AfterCommit(p)
      /\ \A t : Dropping(t) => Dropping(t)'
      /\ \A x : Clearing(x) => Clearing(x)'
  BY <1>1, <1>2, InvalidationsGoOn, Zenon
<1>7. op \in Invalidating => \E q \in Procs : procs'[q].at = "clearing" /\ procs'[q].user = u
  BY <1>4, <1>6
<1> HIDE DEF u, op
<1>8. /\ grace'[u] = Ttl /\ \A x \in Users \ {u} : grace'[x] = grace[x] /\ dirty'[x] = dirty[x]
      /\ op \notin Invalidating => dirty'[u]
  BY <1>1, <1>2, <1>5, Zenon
<1>9. InvalidateEvicts'
  <2> SUFFICES ASSUME NEW s \in Tokens, cache'[s].user # NoUser
               PROVE  /\ s \in index'[cache'[s].user].tokens \/ Dropping(s)' \/ cache'[s].mark = "orphan"
                      /\ cache'[s].mark = "none" /\ cache'[s].row # users'[cache'[s].user] =>
                            dirty'[cache'[s].user] \/ Clearing(cache[s].user)' \/ Dropping(s)'
    BY DEF InvalidateEvicts, Cached
  <2>1. /\ cache[s].user \in Users
        /\ s \in index[cache[s].user].tokens \/ Dropping(s) \/ cache[s].mark = "orphan"
        /\ cache[s].mark = "none" /\ cache[s].row # users[cache[s].user] =>
              dirty[cache[s].user] \/ Clearing(cache[s].user) \/ Dropping(s)
    BY <1>2, <1>5 DEF CacheInv, InvalidateEvicts, Cached
  <2>2. CASE cache[s].user = u
    <3>1. op \in Invalidating => Clearing(cache[s].user)'
      BY <1>2, <1>7, <2>2 DEF Clearing
    <3> QED BY <1>2, <1>6, <1>8, <2>1, <2>2, <3>1
  <2>3. CASE cache[s].user # u
    <3>1. Clearing(cache[s].user) => Clearing(cache[s].user)'
      BY <1>2, <1>6, Zenon DEF Clearing
    <3> QED BY <1>2, <1>3, <1>6, <1>8, <2>1, <2>3, <3>1
  <2> QED BY <2>2, <2>3
<1>10. StaleBounded'
  BY <1>2, <1>3, <1>5, <1>8 DEF CacheInv, StaleBounded, Cached
<1>11. IndexOutlives'
  BY <1>2 DEF CacheInv, IndexOutlives, Cached
<1> QED BY <1>9, <1>10, <1>11 DEF CacheInv

\* The clock ages entries, sets and graces alike.
LEMMA TickCache ==
  ASSUME AccessInv, CacheInv, Tick
  PROVE  CacheInv'
<1>1. /\ cache' = [t \in Tokens |-> Aged(cache[t])] /\ index' = [u \in Users |-> AgedIndex(index[u])]
      /\ grace' = [u \in Users |-> Less(grace[u])]
      /\ kind' = kind /\ users' = users /\ procs' = procs /\ dirty' = dirty
  BY DEF Tick
<1>2. /\ cache \in [Tokens -> EntryRec] /\ index \in [Users -> IndexRec]
      /\ grace \in [Users -> 0..Ttl] /\ kind \in {"memory", "redis"} /\ Ttl \in Nat
      /\ NoUser \notin Users
  BY TypeParts, AccessAssumption DEF AccessInv, CacheType, DataType
<1>3. \A s \in Tokens : cache'[s].user # NoUser =>
        /\ cache'[s].user = cache[s].user /\ cache'[s].row = cache[s].row
        /\ cache'[s].mark = cache[s].mark
        /\ cache[s].user \in Users /\ cache[s].ttl \in 2..Ttl /\ cache'[s].ttl = cache[s].ttl - 1
  <2> SUFFICES ASSUME NEW s \in Tokens, cache'[s].user # NoUser
               PROVE  /\ cache'[s].user = cache[s].user /\ cache'[s].row = cache[s].row
                      /\ cache'[s].mark = cache[s].mark
                      /\ cache[s].user \in Users /\ cache[s].ttl \in 2..Ttl
                      /\ cache'[s].ttl = cache[s].ttl - 1
    OBVIOUS
  <2> DEFINE e == cache[s]
  <2>1. e \in EntryRec /\ cache'[s] = Aged(e)
    BY <1>1, <1>2
  <2> HIDE DEF e
  <2>2. e.ttl > 1
    BY <2>1, ConstantsTyped DEF Aged
  <2>3. Aged(e) = [e EXCEPT !.ttl = @ - 1]
    BY <2>2 DEF Aged
  <2> QED BY <1>2, <2>1, <2>2, <2>3 DEF EntryRec, e
<1>4. \A u \in Users :
        /\ kind = "memory" => index'[u] = index[u]
        /\ kind = "redis" /\ index[u].ttl > 1 =>
              index'[u].tokens = index[u].tokens /\ index'[u].ttl = index[u].ttl - 1
        /\ kind = "redis" /\ ~(index[u].ttl > 1) => index'[u].tokens = {}
        /\ index[u].ttl \in 0..Ttl
  <2> SUFFICES ASSUME NEW u \in Users
               PROVE  /\ kind = "memory" => index'[u] = index[u]
                      /\ kind = "redis" /\ index[u].ttl > 1 =>
                            index'[u].tokens = index[u].tokens /\ index'[u].ttl = index[u].ttl - 1
                      /\ kind = "redis" /\ ~(index[u].ttl > 1) => index'[u].tokens = {}
                      /\ index[u].ttl \in 0..Ttl
    OBVIOUS
  <2>1. index'[u] = AgedIndex(index[u]) /\ index[u] \in IndexRec
    BY <1>1, <1>2
  <2> QED BY <2>1 DEF AgedIndex, IndexRec
<1>5. \A u \in Users : /\ grace[u] \in 0..Ttl
                       /\ grace[u] > 0 => grace'[u] = grace[u] - 1
  BY <1>1, <1>2 DEF Less
<1>6. /\ \A t : Dropping(t)' <=> Dropping(t)
      /\ \A u : Clearing(u)' <=> Clearing(u)
  BY <1>1 DEF Dropping, Clearing
<1>7. ASSUME NEW s \in Tokens, cache'[s].user # NoUser, s \in index[cache[s].user].tokens
      PROVE  s \in index'[cache[s].user].tokens
             /\ (kind = "redis" => cache'[s].ttl <= index'[cache[s].user].ttl)
  <2>1. cache[s].user \in Users /\ cache[s].ttl \in 2..Ttl /\ cache'[s].ttl = cache[s].ttl - 1
        /\ cache[s].user # NoUser
    BY <1>2, <1>3, <1>7
  <2>2. CASE kind = "memory"
    BY <1>4, <1>7, <2>1, <2>2
  <2>3. CASE kind = "redis"
    <3>1. cache[s].ttl <= index[cache[s].user].ttl
      BY <1>7, <2>1, <2>3 DEF CacheInv, IndexOutlives, Cached
    <3> QED BY <1>2, <1>4, <1>7, <2>1, <2>3, <3>1
  <2> QED BY <1>2, <2>2, <2>3
<1>8. InvalidateEvicts'
  <2> SUFFICES ASSUME NEW s \in Tokens, cache'[s].user # NoUser
               PROVE  /\ s \in index'[cache'[s].user].tokens \/ Dropping(s)' \/ cache'[s].mark = "orphan"
                      /\ cache'[s].mark = "none" /\ cache'[s].row # users'[cache'[s].user] =>
                            dirty'[cache'[s].user] \/ Clearing(cache[s].user)' \/ Dropping(s)'
    BY DEF InvalidateEvicts, Cached
  <2>1. /\ cache'[s].user = cache[s].user /\ cache'[s].row = cache[s].row
        /\ cache'[s].mark = cache[s].mark /\ cache[s].user # NoUser
    BY <1>2, <1>3
  <2>2. /\ s \in index[cache[s].user].tokens \/ Dropping(s) \/ cache[s].mark = "orphan"
        /\ cache[s].mark = "none" /\ cache[s].row # users[cache[s].user] =>
              dirty[cache[s].user] \/ Clearing(cache[s].user) \/ Dropping(s)
    BY <2>1 DEF CacheInv, InvalidateEvicts, Cached
  <2> QED BY <1>1, <1>6, <1>7, <2>1, <2>2
<1>9. StaleBounded'
  <2> SUFFICES ASSUME NEW s \in Tokens, cache'[s].user # NoUser,
                      cache'[s].row # users'[cache'[s].user]
               PROVE  cache'[s].ttl <= grace'[cache'[s].user]
    BY DEF StaleBounded, Cached
  <2>1. /\ cache'[s].user = cache[s].user /\ cache'[s].row = cache[s].row
        /\ cache[s].user \in Users /\ cache[s].ttl \in 2..Ttl /\ cache'[s].ttl = cache[s].ttl - 1
    BY <1>3
  <2>2. cache[s].ttl <= grace[cache[s].user]
    BY <1>1, <1>2, <2>1 DEF CacheInv, StaleBounded, Cached
  <2> QED BY <1>2, <1>5, <2>1, <2>2
<1>10. IndexOutlives'
  <2> SUFFICES ASSUME kind = "redis", NEW s \in Tokens, cache'[s].user # NoUser,
                      s \in index'[cache'[s].user].tokens
               PROVE  cache'[s].ttl <= index'[cache'[s].user].ttl
    BY <1>1 DEF IndexOutlives, Cached
  <2>1. cache'[s].user = cache[s].user /\ cache[s].user \in Users
    BY <1>3
  <2>2. s \in index[cache[s].user].tokens
    BY <1>4, <2>1
  <2> QED BY <1>7, <2>1, <2>2
<1> QED BY <1>8, <1>9, <1>10 DEF CacheInv

\* Every step keeps the invariant of the cache.
LEMMA CacheStep == AccessInv /\ CacheInv /\ [Next]_vars => CacheInv'
<1> SUFFICES ASSUME AccessInv, CacheInv, [Next]_vars PROVE CacheInv'
  OBVIOUS
<1>1. ASSUME NEW p \in Procs, NEW u \in Users,
             \/ IssueRead(p, u) \/ GrantCheck(p, u)
             \/ \E op \in {"logout_all", "deactivate"} : LogoutAll(p, u, op)
             \/ \E op \in {"revoke", "reset", "erase", "verify", "email"} : BeginWrite(p, u, op)
      PROVE  CacheInv'
  BY <1>1, AsideSteps
<1>2. ASSUME NEW p \in Procs, NEW t \in Tokens, Issue(p, t) \/ ResolveMiss(p, t)
      PROVE  CacheInv'
  BY <1>2, AsideSteps
<1>3. ASSUME NEW p \in Procs, DeactivateRead(p) \/ GrantInsert(p) \/ Rollback(p)
      PROVE  CacheInv'
  BY <1>3, AsideSteps
<1>4. ASSUME NEW p \in Procs, NEW t \in Tokens, ResolveHit(p, t) PROVE CacheInv'
  <2>1. /\ kind' = kind /\ users' = users /\ cache' = cache /\ index' = index /\ dirty' = dirty
        /\ grace' = grace /\ procs' = procs
    BY <1>4 DEF ResolveHit, AfterGet, data, marks
  <2> QED BY <2>1, LeavingKeeps DEF Dropping, Clearing
<1>5. ASSUME NEW p \in Procs, ResolveRead(p) \/ ResolvePut(p) \/ Clear(p) \/ Drop(p)
                              \/ ClearFails(p) \/ Commit(p)
      PROVE  CacheInv'
  BY <1>5, ResolveReadCache, ResolvePutCache, ClearCache, DropCache, ClearFailsCache, CommitCache
<1>6. CASE Tick
  BY <1>6, TickCache
<1>7. CASE UNCHANGED vars
  <2>1. /\ kind' = kind /\ users' = users /\ cache' = cache /\ index' = index /\ dirty' = dirty
        /\ grace' = grace /\ procs' = procs
    BY <1>7 DEF vars, data, caching, marks
  <2> QED BY <2>1, LeavingKeeps DEF Dropping, Clearing
<1> QED BY <1>1, <1>2, <1>3, <1>4, <1>5, <1>6, <1>7 DEF Next

\* The invariant of the cache holds throughout: at the start nothing is cached.
LEMMA CacheAlways == Spec => []CacheInv
<1>1. Init => CacheInv
  BY ConstantsTyped DEF Init, CacheInv, InvalidateEvicts, StaleBounded, IndexOutlives, Cached
<1> QED BY <1>1, CacheStep, AccessAlways, PTL DEF Spec

\* For any number of users, tokens and processes and any cache size, an
\* invalidation reaches every cached principal of its user (cache.py 60-75, 131-153).
THEOREM InvalidationReachesEntries == Spec => []InvalidateEvicts
<1>1. CacheInv => InvalidateEvicts
  BY DEF CacheInv
<1> QED BY <1>1, CacheAlways, PTL

\* For any TTL, an outdated principal is served for at most that long after the
\* last change of its user or the last late store.
THEOREM StalenessIsBounded == Spec => []StaleBounded
<1>1. CacheInv => StaleBounded
  BY DEF CacheInv
<1> QED BY <1>1, CacheAlways, PTL
=============================================================================
