--------------------------- MODULE AccountsProofs ---------------------------
(***************************************************************************)
(* Proofs about Accounts for any number of users, tokens, concurrent       *)
(* processes and arriving requests.                                        *)
(***************************************************************************)
EXTENDS Accounts, TLAPS

\* Most leaves are first-order facts about sets and records, which Zenon proves;
\* the others name SMT.
USE Zenon

-----------------------------------------------------------------------------
(* Types.                                                                  *)

ReqRec == [at : Steps, user : Users \cup {NoUser}, tok : Tokens \cup {NoToken},
           purpose : Purposes, pw : Passwords \cup {NoPassword}, sees : SUBSET Tokens,
           flag : BOOLEAN, how : {"none", "verified", "raced", "created"}]
TokenRec == [here : BOOLEAN, user : Users \cup {NoUser}, purpose : Purposes,
             used : {"no", "yes", "old"}, age : {"valid", "expired", "old"}]
SessionRec == [user : Users, pw : Passwords \cup {NoPassword}, late : BOOLEAN]
HistoryRec == [seen : [Tokens -> SUBSET Tokens], uses : [Tokens -> Seq(Purposes)],
               born : [Users -> {"none", "register", "bootstrap"}],
               granted : [Users -> {"none", "verified", "raced", "created"}],
               erasures : [Users -> Nat], overlapped : SUBSET Users]

TableType ==
    /\ settings \in [promote : BOOLEAN, requireVerified : BOOLEAN]
    /\ row \in [Users -> {"none", "live", "erased"}]
    /\ verified \in [Users -> BOOLEAN]
    /\ password \in [Users -> Passwords \cup {NoPassword}]
    /\ admin \in SUBSET Users /\ addresses \in SUBSET Users
    /\ sessions \in SUBSET SessionRec

TokenType ==
    /\ token \in [Tokens -> TokenRec]
    /\ lock \in [Tokens -> Procs \cup {Nobody}]

Types == TableType /\ TokenType /\ req \in [Procs -> ReqRec] /\ history \in HistoryRec

-----------------------------------------------------------------------------
(* The inductive invariant.                                                *)

\* the row of an erasure that no other request overlapped
Gone(u) == row[u] = "erased" /\ u \notin history.overlapped

\* nobody can consume the token any more
Dead(t) == ~token[t].here \/ token[t].used # "no"

\* what makes a grant legitimate
Justified(u, how) ==
    \/ how = "created" /\ history.born[u] = "bootstrap"
    \/ how = "verified" /\ settings.promote
    \/ how = "raced"

\* A process at work has an account.  The row of a registration is not there yet
\* and nobody else has its id; every other account a process holds has a row, and
\* not one of an undisturbed erasure.
HoldsAccount(p, r) ==
    /\ r.at \notin {"idle", "creating", "inserting"} => r.user \in Users
    /\ r.user \in Users =>
          /\ ~Gone(r.user)
          /\ r.at = "registering" <=> row[r.user] = "none"
    /\ r.at = "registering" => \A q \in Procs \ {p} : req[q].user # r.user

\* A login goes on only with what its reads found.
HoldsLogin(p, r) ==
    /\ r.at \in {"login", "opening"} /\ r.flag => verified[r.user]
    /\ r.at = "opening" /\ settings.requireVerified => r.flag

\* A confirmation holds the lock of the token it is going to consume; an issue
\* holds the lock of every usable token its invalidation selected.
HoldsTokens(p, r) ==
    /\ r.at = "confirming" =>
          /\ r.tok \in Tokens /\ lock[r.tok] = p
          /\ token[r.tok].user = r.user /\ token[r.tok].purpose = r.purpose
    /\ r.at = "issuing" =>
          \A t \in r.sees : token[t].user \in Users /\ (Dead(t) \/ lock[t] = p)

\* A bootstrap carries the reason of its grant, and looked up no administrator.
HoldsGrant(p, r) ==
    /\ r.at = "checking" /\ r.flag => r.user \in admin
    /\ r.at \in {"creating", "inserting", "initial", "matching", "granting", "tuple",
                 "recording", "refused"} => ~r.flag
    /\ r.at = "initial" => history.born[r.user] = "bootstrap"
    /\ r.at = "matching" => settings.promote
    /\ r.at \in {"granting", "tuple"} => Justified(r.user, r.how)

RecOK(p, r) ==
    HoldsAccount(p, r) /\ HoldsLogin(p, r) /\ HoldsTokens(p, r) /\ HoldsGrant(p, r)
ProcOK(p) == RecOK(p, req[p])

\* A token belongs to an account with a row; a locked one is usable; a used one
\* was used once, for its purpose; what its issue found is dead.
TokenOK(t) ==
    /\ token[t].here => token[t].user \in Users
    /\ token[t].user \in Users => row[token[t].user] # "none"
    /\ lock[t] # Nobody => ~Dead(t)
    /\ token[t].used = "no" => history.uses[t] = <<>>
    /\ history.uses[t] \in {<<>>, <<token[t].purpose>>}
    /\ \A s \in history.seen[t] : token[s].user \in Users /\ Dead(s)

\* An undisturbed erasure left nothing.
Emptied(u) ==
    /\ password[u] = NoPassword
    /\ \A s \in sessions : s.user # u
    /\ \A t \in Tokens : ~(token[t].here /\ token[t].user = u)
    /\ u \notin addresses
    /\ history.erasures[u] = 1

VerifiedBy(u, t) == token[t].user = u /\ history.uses[t] = <<"email_verify">>

AccountOK(u) ==
    /\ verified[u] => \E t \in Tokens : VerifiedBy(u, t)
    /\ u \in admin => Justified(u, history.granted[u])
    /\ history.born[u] # "none" => row[u] # "none"
    /\ row[u] # "erased" => history.erasures[u] = 0
    /\ Gone(u) => Emptied(u)

SessionOK(s) ==
    /\ row[s.user] # "none"
    /\ s.pw = password[s.user] \/ s.late \/ history.born[s.user] = "bootstrap"
    /\ settings.requireVerified => verified[s.user]

ProcInv == \A p \in Procs : ProcOK(p)
TokenInv == \A t \in Tokens : TokenOK(t)
AccountInv == \A u \in Users : AccountOK(u)
SessionInv == \A s \in sessions : SessionOK(s)

AccountsInv == Types /\ ProcInv /\ TokenInv /\ AccountInv /\ SessionInv

\* What a step of the processes in S may not do to the others: forget a row, a
\* verification or an administrator, take away a lock, revive a token, or erase,
\* or make a row for, an account another process holds.
Frame(S) ==
    /\ settings' = settings /\ admin \subseteq admin'
    /\ \A u \in Users :
          /\ row[u] # "none" => row'[u] # "none"
          /\ verified[u] => verified'[u]
          /\ history.born[u] = "bootstrap" => history'.born[u] = "bootstrap"
    /\ \A q \in Procs \ S : req[q].user \in Users =>
          /\ row[req[q].user] = "none" => row'[req[q].user] = "none"
          /\ row'[req[q].user] = "erased" /\ req[q].user \notin history'.overlapped =>
                Gone(req[q].user)
    /\ \A t \in Tokens :
          /\ token[t].user \in Users =>
                /\ token'[t].user = token[t].user
                /\ token'[t].purpose = token[t].purpose
                /\ Dead(t) => ~token'[t].here \/ token'[t].used # "no"
          /\ lock[t] \in Procs \ S => lock'[t] = lock[t]

-----------------------------------------------------------------------------
(* Constants, and the parts of the invariant.                              *)

\* The idle process and the token nobody asked for are well typed.
LEMMA ConstantsTyped ==
  /\ Idle \in ReqRec /\ Idle.at = "idle" /\ Idle.user = NoUser /\ NoUser \notin Users
  /\ Unissued \in TokenRec /\ Unissued.user = NoUser /\ ~Unissued.here
  BY AccountsAssumption DEF Idle, ReqRec, Steps, Purposes, Unissued, TokenRec, Passwords, NoPassword

\* An idle process is sound.
LEMMA IdleOK == ASSUME NEW p PROVE RecOK(p, Idle)
  BY ConstantsTyped DEF RecOK, HoldsAccount, HoldsLogin, HoldsTokens, HoldsGrant

\* The facts about one process that the steps below start from.
LEMMA ProcFacts ==
  ASSUME AccountsInv, NEW p \in Procs
  PROVE  /\ req[p] \in ReqRec
         /\ HoldsAccount(p, req[p]) /\ HoldsLogin(p, req[p])
         /\ HoldsTokens(p, req[p]) /\ HoldsGrant(p, req[p])
  BY DEF AccountsInv, Types, ProcInv, ProcOK, RecOK

\* A locked token is usable.
LEMMA LockedAlive ==
  ASSUME AccountsInv, NEW t \in Tokens, lock[t] # Nobody
  PROVE  ~Dead(t)
<1>1. TokenOK(t)
  BY DEF AccountsInv, TokenInv
<1> QED BY <1>1 DEF TokenOK

-----------------------------------------------------------------------------
(* What a step of one process does to the others.                          *)

\* A process that does not move stays sound, if the moving one does not take the
\* id of its registration.
LEMMA OtherKept ==
  ASSUME AccountsInv, NEW S, Frame(S), NEW q \in Procs \ S, req'[q] = req[q],
         req[q].at = "registering" => \A p \in Procs \ {q} : req'[p].user # req[q].user
  PROVE  ProcOK(q)'
<1>0. /\ req[q] \in ReqRec /\ HoldsAccount(q, req[q]) /\ HoldsLogin(q, req[q])
      /\ HoldsTokens(q, req[q]) /\ HoldsGrant(q, req[q])
  BY ProcFacts
<1>1. HoldsAccount(q, req[q])'
  BY <1>0 DEF HoldsAccount, Frame, Gone
<1>2. HoldsLogin(q, req[q])'
  BY <1>0 DEF HoldsLogin, Frame, HoldsAccount
<1>3. HoldsTokens(q, req[q])'
  BY <1>0, SMT DEF HoldsTokens, HoldsAccount, Frame, Dead, ReqRec
<1>4. HoldsGrant(q, req[q])'
  BY <1>0 DEF HoldsGrant, HoldsAccount, Frame, Justified
<1> QED BY <1>1, <1>2, <1>3, <1>4 DEF ProcOK, RecOK

\* If one process moves to a record that is sound, all processes stay sound.
LEMMA MoveKept ==
  ASSUME AccountsInv, NEW p \in Procs, NEW rec \in ReqRec, req' = [req EXCEPT ![p] = rec],
         Frame({p}), ProcOK(p)'
  PROVE  req' \in [Procs -> ReqRec] /\ ProcInv'
<1>1. req \in [Procs -> ReqRec]
  BY DEF AccountsInv, Types
<1>2. req' \in [Procs -> ReqRec]
  BY <1>1
<1>3. ASSUME NEW q \in Procs \ {p} PROVE ProcOK(q)'
  <2>1. req'[q] = req[q] /\ req'[p] = rec /\ \A x \in Procs \ {p} : req'[x] = req[x]
    BY <1>1
  <2>2. ASSUME req[q].at = "registering", NEW x \in Procs \ {q}
        PROVE  req'[x].user # req[q].user
    <3>1. /\ req[q].user \in Users /\ row[req[q].user] = "none"
          /\ \A y \in Procs \ {q} : req[y].user # req[q].user
      BY <2>2, ProcFacts DEF HoldsAccount
    <3>2. row'[req[q].user] = "none"
      BY <3>1 DEF Frame
    <3>3. CASE x # p
      BY <2>1, <3>1, <3>3
    <3>4. CASE x = p
      <4>1. HoldsAccount(p, req[p])'
        BY DEF ProcOK, RecOK
      <4> QED BY <2>1, <3>1, <3>2, <3>4, <4>1 DEF HoldsAccount
    <3> QED BY <3>3, <3>4
  <2> QED BY <2>1, <2>2, OtherKept
<1> QED BY <1>2, <1>3 DEF ProcInv

\* Tables that stay as they are keep their invariants while locks are given back.
LEMMA TablesKept ==
  ASSUME AccountsInv, UNCHANGED <<settings, tables, history>>,
         lock' \in [Tokens -> Procs \cup {Nobody}],
         \A t \in Tokens : lock'[t] # Nobody => ~Dead(t)
  PROVE  TableType' /\ TokenType' /\ history' \in HistoryRec
         /\ TokenInv' /\ AccountInv' /\ SessionInv'
<1>1. /\ settings' = settings /\ row' = row /\ verified' = verified /\ password' = password
      /\ admin' = admin /\ sessions' = sessions /\ addresses' = addresses /\ token' = token
      /\ history' = history
  BY DEF tables
<1>2. TableType' /\ TokenType' /\ history' \in HistoryRec
  BY <1>1 DEF AccountsInv, Types, TableType, TokenType
<1>3. TokenInv'
  BY <1>1 DEF AccountsInv, TokenInv, TokenOK, Dead
<1>4. AccountInv'
  BY <1>1, SMT DEF AccountsInv, AccountInv, AccountOK, VerifiedBy, Justified, Gone, Emptied
<1>5. SessionInv'
  BY <1>1 DEF AccountsInv, SessionInv, SessionOK
<1> QED BY <1>2, <1>3, <1>4, <1>5

\* Such a step is harmless to the other processes if it leaves their locks.
LEMMA TablesFrame ==
  ASSUME NEW S, UNCHANGED <<settings, tables, history>>,
         \A t \in Tokens : lock[t] \in Procs \ S => lock'[t] = lock[t]
  PROVE  Frame(S)
<1>1. /\ settings' = settings /\ row' = row /\ verified' = verified
      /\ admin' = admin /\ token' = token /\ history' = history
  BY DEF tables
<1> QED BY <1>1 DEF Frame, Dead, Gone

\* A step that only moves one process.
LEMMA QuietKeeps ==
  ASSUME AccountsInv, NEW p \in Procs, NEW rec \in ReqRec, req' = [req EXCEPT ![p] = rec],
         UNCHANGED <<settings, tables, lock, history>>, RecOK(p, rec)
  PROVE  AccountsInv'
<1>1. lock' = lock /\ UNCHANGED <<settings, tables, history>>
  OBVIOUS
<1>2. TableType' /\ TokenType' /\ history' \in HistoryRec
      /\ TokenInv' /\ AccountInv' /\ SessionInv'
  BY <1>1, TablesKept DEF AccountsInv, Types, TokenType, TokenInv, TokenOK
<1>3. Frame({p})
  BY <1>1, TablesFrame
<1>4. req'[p] = rec /\ \A q \in Procs \ {p} : req'[q] = req[q]
  BY DEF AccountsInv, Types
<1>5. ProcOK(p)'
  <2>1. /\ settings' = settings /\ row' = row /\ verified' = verified
        /\ admin' = admin /\ token' = token /\ history' = history
    BY <1>1 DEF tables
  <2>2. HoldsAccount(p, req[p])'
    BY <1>4, <2>1 DEF RecOK, HoldsAccount, Gone
  <2>3. HoldsLogin(p, req[p])'
    BY <1>4, <2>1 DEF RecOK, HoldsLogin
  <2>4. HoldsTokens(p, req[p])'
    BY <1>1, <1>4, <2>1 DEF RecOK, HoldsTokens, Dead
  <2>5. HoldsGrant(p, req[p])'
    BY <1>4, <2>1, SMT DEF RecOK, HoldsGrant, Justified
  <2> QED BY <2>2, <2>3, <2>4, <2>5 DEF ProcOK, RecOK
<1>6. req' \in [Procs -> ReqRec] /\ ProcInv'
  BY <1>3, <1>5, MoveKept
<1> QED BY <1>2, <1>6 DEF AccountsInv, Types

\* What leaving a session scope does: the process is idle and holds no lock.
LEMMA ReturnFacts ==
  ASSUME AccountsInv, NEW p \in Procs, Return(p)
  PROVE  /\ req' = [req EXCEPT ![p] = Idle] /\ req'[p] = Idle /\ Idle \in ReqRec
         /\ ProcOK(p)'
         /\ lock' \in [Tokens -> Procs \cup {Nobody}]
         /\ \A t \in Tokens : /\ lock[t] = p => lock'[t] = Nobody
                              /\ lock[t] # p => lock'[t] = lock[t]
<1>1. req \in [Procs -> ReqRec] /\ lock \in [Tokens -> Procs \cup {Nobody}]
  BY DEF AccountsInv, Types, TokenType
<1>2. req' = [req EXCEPT ![p] = Idle] /\ Release(p)
  BY DEF Return
<1>3. req'[p] = Idle
  BY <1>1, <1>2
<1>4. ProcOK(p)'
  BY <1>3, ConstantsTyped DEF ProcOK, RecOK, HoldsAccount, HoldsLogin, HoldsTokens, HoldsGrant
<1> QED BY <1>1, <1>2, <1>3, <1>4, ConstantsTyped DEF Release

\* A step after which the process is idle and nothing else has changed.
LEMMA ReturnKeeps ==
  ASSUME AccountsInv, NEW p \in Procs, Return(p), UNCHANGED <<settings, tables, history>>
  PROVE  AccountsInv'
<1>1. /\ req' = [req EXCEPT ![p] = Idle] /\ Idle \in ReqRec /\ ProcOK(p)'
      /\ lock' \in [Tokens -> Procs \cup {Nobody}]
      /\ \A t \in Tokens : /\ lock[t] = p => lock'[t] = Nobody
                           /\ lock[t] # p => lock'[t] = lock[t]
  BY ReturnFacts
<1>2. \A t \in Tokens : lock'[t] # Nobody => ~Dead(t)
  BY <1>1 DEF AccountsInv, TokenInv, TokenOK
<1>3. TableType' /\ TokenType' /\ history' \in HistoryRec
      /\ TokenInv' /\ AccountInv' /\ SessionInv'
  BY <1>1, <1>2, TablesKept
<1>4. Frame({p})
  BY <1>1, TablesFrame
<1>5. req' \in [Procs -> ReqRec] /\ ProcInv'
  BY <1>1, <1>4, MoveKept
<1> QED BY <1>3, <1>5 DEF AccountsInv, Types

\* The mail of a token is not part of the invariant.
LEMMA StillKeeps ==
  ASSUME AccountsInv,
         UNCHANGED <<settings, row, verified, password, admin, sessions, addresses, token,
                     lock, req, history>>
  PROVE  AccountsInv'
<1>1. Types'
  BY DEF AccountsInv, Types, TableType, TokenType
<1>2. ProcInv'
  BY SMT DEF AccountsInv, ProcInv, ProcOK, RecOK, HoldsAccount, HoldsLogin, HoldsTokens,
         HoldsGrant, Gone, Dead, Justified
<1>3. TokenInv'
  BY DEF AccountsInv, TokenInv, TokenOK, Dead
<1>4. AccountInv'
  BY SMT DEF AccountsInv, AccountInv, AccountOK, VerifiedBy, Justified, Gone, Emptied
<1>5. SessionInv'
  BY DEF AccountsInv, SessionInv, SessionOK
<1> QED BY <1>1, <1>2, <1>3, <1>4, <1>5 DEF AccountsInv

-----------------------------------------------------------------------------
(* Steps that only move one process.                                       *)

\* An account with a row that is not erased can be taken by a process.
LEMMA LiveFacts ==
  ASSUME NEW u \in Users, row[u] = "live"
  PROVE  ~Gone(u) /\ row[u] # "none"
  BY DEF Gone

\* create_user flushes the new row, or finds the address taken.
LEMMA RegisterInsertKeeps ==
  ASSUME AccountsInv, NEW p \in Procs, NEW pw \in Passwords, RegisterInsert(p, pw)
  PROVE  AccountsInv'
<1>1. UNCHANGED <<settings, tables, lock, history>>
  BY DEF RegisterInsert
<1>2. CASE UNCHANGED req
  BY <1>1, <1>2, StillKeeps DEF tables
<1>3. ASSUME NEW u \in Fresh, Go(p, "registering", [Idle EXCEPT !.user = u, !.pw = pw])
      PROVE  AccountsInv'
  <2> DEFINE rec == [[Idle EXCEPT !.user = u, !.pw = pw] EXCEPT !.at = "registering"]
  <2>1. u \in Users /\ row[u] = "none" /\ ~Gone(u) /\ \A q \in Procs : req[q].user # u
    BY DEF Fresh, Gone
  <2>2. rec \in ReqRec /\ rec.at = "registering" /\ rec.user = u
    BY <2>1, ConstantsTyped DEF Idle, ReqRec, Steps, Passwords
  <2>3. req' = [req EXCEPT ![p] = rec]
    BY <1>3 DEF Go
  <2> HIDE DEF rec
  <2>4. RecOK(p, rec)
    BY <2>1, <2>2 DEF RecOK, HoldsAccount, HoldsLogin, HoldsTokens, HoldsGrant
  <2> QED BY <1>1, <2>2, <2>3, <2>4, QuietKeeps
<1> QED BY <1>2, <1>3 DEF RegisterInsert

\* A login reads the account.
LEMMA LoginReadKeeps ==
  ASSUME AccountsInv, NEW p \in Procs, NEW pw \in Passwords, LoginRead(p, pw)
  PROVE  AccountsInv'
<1>1. PICK u \in GetByEmail :
        Go(p, "login", [Idle EXCEPT !.user = u, !.pw = pw, !.flag = verified[u]])
  BY DEF LoginRead
<1> DEFINE rec == [[Idle EXCEPT !.user = u, !.pw = pw, !.flag = verified[u]] EXCEPT !.at = "login"]
<1>2. u \in Users /\ ~Gone(u) /\ row[u] # "none" /\ verified[u] \in BOOLEAN
  BY LiveFacts DEF GetByEmail, AccountsInv, Types, TableType
<1>3. rec \in ReqRec /\ rec.at = "login" /\ rec.user = u /\ rec.flag = verified[u]
  BY <1>2, ConstantsTyped DEF Idle, ReqRec, Steps, Passwords
<1>4. req' = [req EXCEPT ![p] = rec] /\ UNCHANGED <<settings, tables, lock, history>>
  BY <1>1 DEF Go, LoginRead
<1> HIDE DEF rec
<1>5. RecOK(p, rec)
  BY <1>2, <1>3 DEF RecOK, HoldsAccount, HoldsLogin, HoldsTokens, HoldsGrant
<1> QED BY <1>3, <1>4, <1>5, QuietKeeps

\* The record a process goes on with when only its step changes.
LEMMA GoOn ==
  ASSUME AccountsInv, NEW p \in Procs, NEW step \in Steps, Go(p, step, req[p])
  PROVE  \E rec \in ReqRec :
            /\ req' = [req EXCEPT ![p] = rec] /\ rec.at = step
            /\ rec.user = req[p].user /\ rec.tok = req[p].tok /\ rec.purpose = req[p].purpose
            /\ rec.pw = req[p].pw /\ rec.flag = req[p].flag /\ rec.how = req[p].how
<1> DEFINE rec == [req[p] EXCEPT !.at = step]
<1>1. req[p] \in ReqRec
  BY ProcFacts
<1>2. /\ rec \in ReqRec /\ rec.at = step
      /\ rec.user = req[p].user /\ rec.tok = req[p].tok /\ rec.purpose = req[p].purpose
      /\ rec.pw = req[p].pw /\ rec.flag = req[p].flag /\ rec.how = req[p].how
  BY <1>1 DEF ReqRec
<1>3. req' = [req EXCEPT ![p] = rec]
  BY DEF Go
<1> QED BY <1>2, <1>3

\* The credential check of a login.
LEMMA LoginVerifyKeeps ==
  ASSUME AccountsInv, NEW p \in Procs, LoginVerify(p)
  PROVE  AccountsInv'
<1> DEFINE step == IF LoginAllowed(p) THEN "opening" ELSE "logged"
<1>1. req[p].at = "login" /\ UNCHANGED <<settings, tables, lock, history>> /\ Go(p, step, req[p])
  BY DEF LoginVerify
<1>2. step \in Steps /\ (step = "opening" \/ step = "logged")
      /\ (step = "opening" => (settings.requireVerified => req[p].flag))
  BY DEF LoginAllowed, Steps
<1> HIDE DEF step
<1>3. PICK rec \in ReqRec :
        /\ req' = [req EXCEPT ![p] = rec] /\ rec.at = step
        /\ rec.user = req[p].user /\ rec.flag = req[p].flag
  BY <1>1, <1>2, GoOn
<1>4. HoldsAccount(p, req[p]) /\ HoldsLogin(p, req[p])
  BY ProcFacts
<1>5. RecOK(p, rec)
  BY <1>1, <1>2, <1>3, <1>4 DEF RecOK, HoldsAccount, HoldsLogin, HoldsTokens, HoldsGrant
<1> QED BY <1>1, <1>3, <1>5, QuietKeeps

\* A request for a token reads the account.
LEMMA IssueForKeeps ==
  ASSUME AccountsInv, NEW p \in Procs, NEW u \in Users, row[u] = "live",
         NEW purpose \in Purposes, IssueFor(p, u, purpose)
  PROVE  AccountsInv'
<1> DEFINE rec == [[Idle EXCEPT !.user = u, !.purpose = purpose] EXCEPT !.at = "requesting"]
<1>1. ~Gone(u) /\ row[u] # "none"
  BY LiveFacts
<1>2. rec \in ReqRec /\ rec.at = "requesting" /\ rec.user = u
  BY ConstantsTyped DEF Idle, ReqRec, Steps
<1>3. req' = [req EXCEPT ![p] = rec] /\ UNCHANGED <<settings, tables, lock, history>>
  BY DEF Go, IssueFor
<1> HIDE DEF rec
<1>4. RecOK(p, rec)
  BY <1>1, <1>2 DEF RecOK, HoldsAccount, HoldsLogin, HoldsTokens, HoldsGrant
<1> QED BY <1>2, <1>3, <1>4, QuietKeeps

\* An erasure reads the account.
LEMMA EraseReadKeeps ==
  ASSUME AccountsInv, NEW p \in Procs, NEW u \in Users, EraseRead(p, u)
  PROVE  AccountsInv'
<1> DEFINE rec == [[Idle EXCEPT !.user = u] EXCEPT !.at = "erasing"]
<1>1. ~Gone(u) /\ row[u] # "none"
  BY LiveFacts DEF EraseRead
<1>2. rec \in ReqRec /\ rec.at = "erasing" /\ rec.user = u
  BY ConstantsTyped DEF Idle, ReqRec, Steps
<1>3. req' = [req EXCEPT ![p] = rec] /\ UNCHANGED <<settings, tables, lock, history>>
  BY DEF Go, EraseRead, Begin
<1> HIDE DEF rec
<1>4. RecOK(p, rec)
  BY <1>1, <1>2 DEF RecOK, HoldsAccount, HoldsLogin, HoldsTokens, HoldsGrant
<1> QED BY <1>2, <1>3, <1>4, QuietKeeps

\* The bootstrap looks the address up.
LEMMA BootstrapLookupKeeps ==
  ASSUME AccountsInv, NEW p \in Procs, BootstrapLookup(p)
  PROVE  AccountsInv'
<1>1. UNCHANGED <<settings, tables, lock, history>>
  BY DEF BootstrapLookup
<1>2. CASE Go(p, "creating", Idle)
  <2> DEFINE rec == [Idle EXCEPT !.at = "creating"]
  <2>1. rec \in ReqRec /\ rec.at = "creating" /\ rec.user \notin Users /\ ~rec.flag
    BY ConstantsTyped DEF Idle, ReqRec, Steps
  <2>2. req' = [req EXCEPT ![p] = rec]
    BY <1>2 DEF Go
  <2> HIDE DEF rec
  <2>3. RecOK(p, rec)
    BY <2>1 DEF RecOK, HoldsAccount, HoldsLogin, HoldsTokens, HoldsGrant
  <2> QED BY <1>1, <2>1, <2>2, <2>3, QuietKeeps
<1>3. ASSUME NEW u \in GetByEmail,
             Go(p, "checking", [Idle EXCEPT !.user = u, !.flag = u \in admin])
      PROVE  AccountsInv'
  <2> DEFINE flag == u \in admin
             rec == [[Idle EXCEPT !.user = u, !.flag = flag] EXCEPT !.at = "checking"]
  <2>1. u \in Users /\ ~Gone(u) /\ row[u] # "none" /\ flag \in BOOLEAN
    BY LiveFacts, SMT DEF GetByEmail
  <2>2. req' = [req EXCEPT ![p] = rec]
    BY <1>3 DEF Go
  <2>3. flag => u \in admin
    OBVIOUS
  <2> HIDE DEF flag
  <2>4. rec \in ReqRec /\ rec.at = "checking" /\ rec.user = u /\ rec.flag = flag
    BY <2>1, ConstantsTyped DEF Idle, ReqRec, Steps
  <2> HIDE DEF rec
  <2>5. RecOK(p, rec)
    BY <2>1, <2>3, <2>4 DEF RecOK, HoldsAccount, HoldsLogin, HoldsTokens, HoldsGrant
  <2> QED BY <1>1, <2>2, <2>4, <2>5, QuietKeeps
<1> QED BY <1>2, <1>3 DEF BootstrapLookup

\* An administrator is left alone; another account is checked or refused.
LEMMA BootstrapCheckKeeps ==
  ASSUME AccountsInv, NEW p \in Procs, BootstrapCheck(p)
  PROVE  AccountsInv'
<1> DEFINE step == IF settings.promote THEN "matching" ELSE "refused"
<1>1. req[p].at = "checking" /\ UNCHANGED <<settings, tables, history>>
  BY DEF BootstrapCheck
<1>2. CASE req[p].user \in admin
  BY <1>1, <1>2, ReturnKeeps DEF BootstrapCheck
<1>3. CASE req[p].user \notin admin
  <2>1. Go(p, step, req[p]) /\ UNCHANGED <<settings, tables, lock, history>>
    BY <1>1, <1>3 DEF BootstrapCheck
  <2>2. step \in Steps /\ (step = "matching" \/ step = "refused")
        /\ (step = "matching" => settings.promote)
    BY DEF Steps
  <2> HIDE DEF step
  <2>3. PICK rec \in ReqRec :
          /\ req' = [req EXCEPT ![p] = rec] /\ rec.at = step
          /\ rec.user = req[p].user /\ rec.flag = req[p].flag
    BY <2>1, <2>2, GoOn, SMT
  <2>4. HoldsAccount(p, req[p]) /\ HoldsGrant(p, req[p])
    BY ProcFacts
  <2>5. RecOK(p, rec)
    BY <1>1, <1>3, <2>2, <2>3, <2>4
       DEF RecOK, HoldsAccount, HoldsLogin, HoldsTokens, HoldsGrant
  <2> QED BY <2>1, <2>3, <2>5, QuietKeeps
<1> QED BY <1>2, <1>3

\* The bootstrap checks the password of the account it is going to promote.
LEMMA BootstrapVerifyKeeps ==
  ASSUME AccountsInv, NEW p \in Procs, BootstrapVerify(p)
  PROVE  AccountsInv'
<1>1. /\ req[p].at = "matching" /\ UNCHANGED <<settings, tables, lock, history>>
      /\ req[p] \in ReqRec /\ HoldsAccount(p, req[p]) /\ HoldsGrant(p, req[p])
  BY ProcFacts DEF BootstrapVerify
<1>2. CASE Go(p, "granting", [req[p] EXCEPT !.how = "verified"])
  <2> DEFINE rec == [[req[p] EXCEPT !.how = "verified"] EXCEPT !.at = "granting"]
  <2>1. /\ rec \in ReqRec /\ rec.at = "granting" /\ rec.user = req[p].user
        /\ rec.flag = req[p].flag /\ rec.how = "verified"
    BY <1>1 DEF ReqRec, Steps
  <2>2. req' = [req EXCEPT ![p] = rec]
    BY <1>2 DEF Go
  <2> HIDE DEF rec
  <2>3. RecOK(p, rec)
    BY <1>1, <2>1 DEF RecOK, HoldsAccount, HoldsLogin, HoldsTokens, HoldsGrant, Justified
  <2> QED BY <1>1, <2>1, <2>2, <2>3, QuietKeeps
<1>3. CASE Go(p, "refused", req[p])
  <2>1. PICK rec \in ReqRec :
          /\ req' = [req EXCEPT ![p] = rec] /\ rec.at = "refused"
          /\ rec.user = req[p].user /\ rec.flag = req[p].flag
    BY <1>3, GoOn, SMT DEF Steps
  <2>2. RecOK(p, rec)
    BY <1>1, <2>1 DEF RecOK, HoldsAccount, HoldsLogin, HoldsTokens, HoldsGrant
  <2> QED BY <1>1, <2>1, <2>2, QuietKeeps
<1> QED BY <1>2, <1>3 DEF BootstrapVerify

\* A bootstrap that finds an account where it saw none takes it over.
LEMMA RacedKeeps ==
  ASSUME AccountsInv, NEW p \in Procs, req[p].at \in {"creating", "inserting"},
         NEW u \in GetByEmail, Go(p, "granting", [req[p] EXCEPT !.user = u, !.how = "raced"]),
         UNCHANGED <<settings, tables, lock, history>>
  PROVE  AccountsInv'
<1> DEFINE rec == [[req[p] EXCEPT !.user = u, !.how = "raced"] EXCEPT !.at = "granting"]
<1>1. u \in Users /\ ~Gone(u) /\ row[u] # "none" /\ req[p] \in ReqRec /\ HoldsGrant(p, req[p])
  BY LiveFacts, ProcFacts DEF GetByEmail
<1>2. /\ rec \in ReqRec /\ rec.at = "granting" /\ rec.user = u
      /\ rec.flag = req[p].flag /\ rec.how = "raced"
  BY <1>1 DEF ReqRec, Steps
<1>3. req' = [req EXCEPT ![p] = rec]
  BY DEF Go
<1> HIDE DEF rec
<1>4. RecOK(p, rec)
  BY <1>1, <1>2 DEF RecOK, HoldsAccount, HoldsLogin, HoldsTokens, HoldsGrant, Justified
<1> QED BY <1>2, <1>3, <1>4, QuietKeeps

\* register_or_lookup reads the address again.
LEMMA RegisterOrLookupKeeps ==
  ASSUME AccountsInv, NEW p \in Procs, RegisterOrLookup(p)
  PROVE  AccountsInv'
<1>1. req[p].at = "creating" /\ UNCHANGED <<settings, tables, lock, history>>
  BY DEF RegisterOrLookup
<1>2. CASE Go(p, "inserting", req[p])
  <2>1. PICK rec \in ReqRec :
          /\ req' = [req EXCEPT ![p] = rec] /\ rec.at = "inserting"
          /\ rec.user = req[p].user /\ rec.flag = req[p].flag
    BY <1>2, GoOn, SMT DEF Steps
  <2>2. HoldsAccount(p, req[p]) /\ HoldsGrant(p, req[p])
    BY ProcFacts
  <2>3. RecOK(p, rec)
    BY <1>1, <2>1, <2>2 DEF RecOK, HoldsAccount, HoldsLogin, HoldsTokens, HoldsGrant
  <2> QED BY <1>1, <2>1, <2>3, QuietKeeps
<1>3. CASE \E u \in GetByEmail : Go(p, "granting", [req[p] EXCEPT !.user = u, !.how = "raced"])
  BY <1>1, <1>3, RacedKeeps
<1> QED BY <1>2, <1>3 DEF RegisterOrLookup

\* write_relationships looks for the tuple.
LEMMA GrantReadKeeps ==
  ASSUME AccountsInv, NEW p \in Procs, GrantRead(p)
  PROVE  AccountsInv'
<1> DEFINE step == IF req[p].user \in admin THEN "recording" ELSE "tuple"
<1>1. req[p].at = "granting" /\ UNCHANGED <<settings, tables, lock, history>> /\ Go(p, step, req[p])
  BY DEF GrantRead
<1>2. step \in Steps /\ (step = "recording" \/ step = "tuple")
  BY DEF Steps
<1> HIDE DEF step
<1>3. PICK rec \in ReqRec :
        /\ req' = [req EXCEPT ![p] = rec] /\ rec.at = step
        /\ rec.user = req[p].user /\ rec.flag = req[p].flag /\ rec.how = req[p].how
  BY <1>1, <1>2, GoOn, SMT
<1>4. HoldsAccount(p, req[p]) /\ HoldsGrant(p, req[p])
  BY ProcFacts
<1>5. RecOK(p, rec)
  BY <1>1, <1>2, <1>3, <1>4 DEF RecOK, HoldsAccount, HoldsLogin, HoldsTokens, HoldsGrant
<1> QED BY <1>1, <1>3, <1>5, QuietKeeps

-----------------------------------------------------------------------------
(* Registration, login and the audit addresses.                            *)

\* The row, the password and the audit event of a registration.
LEMMA RegisterCommitKeeps ==
  ASSUME AccountsInv, NEW p \in Procs, RegisterCommit(p)
  PROVE  AccountsInv'
<1> DEFINE u == req[p].user
<1>1. /\ req[p].at = "registering" /\ u \in Users /\ row[u] = "none"
      /\ \A q \in Procs \ {p} : req[q].user # u
      /\ req[p].pw \in Passwords \cup {NoPassword}
  BY ProcFacts DEF RegisterCommit, HoldsAccount, ReqRec
<1>2. /\ row' = [row EXCEPT ![u] = "live"] /\ password' = [password EXCEPT ![u] = req[p].pw]
      /\ addresses' = addresses \cup {u} /\ history' = [history EXCEPT !.born[u] = "register"]
      /\ Return(p) /\ UNCHANGED <<settings, verified, admin, sessions, token, mail>>
  BY DEF RegisterCommit
<1>3. TableType /\ TokenType /\ history \in HistoryRec
  BY DEF AccountsInv, Types
<1>4. /\ history' \in HistoryRec /\ history'.seen = history.seen /\ history'.uses = history.uses
      /\ history'.born[u] = "register" /\ \A x \in Users \ {u} : history'.born[x] = history.born[x]
      /\ history'.granted = history.granted /\ history'.erasures = history.erasures
      /\ history'.overlapped = history.overlapped
  BY <1>1, <1>2, <1>3 DEF HistoryRec
<1>5. /\ row'[u] = "live" /\ \A x \in Users \ {u} : row'[x] = row[x] /\ password'[x] = password[x]
      /\ TableType'
  BY <1>1, <1>2, <1>3 DEF TableType
<1>6. /\ req' = [req EXCEPT ![p] = Idle] /\ Idle \in ReqRec /\ ProcOK(p)'
      /\ lock' \in [Tokens -> Procs \cup {Nobody}]
      /\ \A t \in Tokens : /\ lock[t] = p => lock'[t] = Nobody
                           /\ lock[t] # p => lock'[t] = lock[t]
  BY <1>2, ReturnFacts
<1>7. TokenType' /\ token' = token /\ verified' = verified /\ settings' = settings
      /\ admin' = admin /\ sessions' = sessions
  BY <1>2, <1>3, <1>6 DEF TokenType
<1>8. history.born[u] = "none" /\ history.erasures[u] = 0
  BY <1>1 DEF AccountsInv, AccountInv, AccountOK
<1> HIDE DEF u
<1>9. Frame({p})
  BY <1>1, <1>4, <1>5, <1>6, <1>7, <1>8 DEF Frame, Dead, Gone
<1>10. TokenInv'
  BY <1>4, <1>5, <1>6, <1>7, SMT DEF AccountsInv, TokenInv, TokenOK, Dead
<1>11. AccountInv'
  <2> SUFFICES ASSUME NEW x \in Users PROVE AccountOK(x)'
    BY DEF AccountInv
  <2>1. AccountOK(x)
    BY DEF AccountsInv, AccountInv
  <2>2. CASE x = u
    BY <1>1, <1>4, <1>5, <1>7, <1>8, <2>1, <2>2
       DEF AccountOK, VerifiedBy, Justified, Gone
  <2>3. CASE x # u
    BY <1>2, <1>4, <1>5, <1>7, <2>1, <2>3, SMT
       DEF AccountOK, VerifiedBy, Justified, Gone, Emptied
  <2> QED BY <2>2, <2>3
<1>12. SessionInv'
  BY <1>1, <1>4, <1>5, <1>7, SMT DEF AccountsInv, SessionInv, SessionOK, Types, TableType, SessionRec
<1>13. req' \in [Procs -> ReqRec] /\ ProcInv'
  BY <1>6, <1>9, MoveKept
<1> QED BY <1>4, <1>5, <1>7, <1>10, <1>11, <1>12, <1>13 DEF AccountsInv, Types

\* create_refresh_token opens a session.
LEMMA LoginOpenKeeps ==
  ASSUME AccountsInv, NEW p \in Procs, LoginOpen(p)
  PROVE  AccountsInv'
<1> DEFINE u == req[p].user
           late == password[u] # req[p].pw
           new == [user |-> u, pw |-> req[p].pw, late |-> late]
<1>1. /\ req[p].at = "opening" /\ req[p] \in ReqRec
      /\ HoldsAccount(p, req[p]) /\ HoldsLogin(p, req[p])
  BY ProcFacts DEF LoginOpen
<1>2. u \in Users /\ ~Gone(u) /\ row[u] # "none" /\ (settings.requireVerified => verified[u])
  BY <1>1 DEF HoldsAccount, HoldsLogin
<1>3. /\ sessions' = sessions \cup {new} /\ Go(p, "logged", req[p])
      /\ settings' = settings /\ row' = row /\ verified' = verified /\ password' = password
      /\ admin' = admin /\ addresses' = addresses /\ token' = token /\ lock' = lock
      /\ history' = history
  BY DEF LoginOpen
<1>4. PICK rec \in ReqRec :
        req' = [req EXCEPT ![p] = rec] /\ rec.at = "logged" /\ rec.user = u
  BY <1>3, GoOn, SMT DEF Steps
<1>5. late \in BOOLEAN /\ req[p].pw \in Passwords \cup {NoPassword}
  BY <1>1 DEF ReqRec
<1>6. new.pw = password[new.user] \/ new.late
  OBVIOUS
<1> HIDE DEF late
<1>7. new \in SessionRec /\ new.user = u
  BY <1>2, <1>5 DEF SessionRec
<1> HIDE DEF new, u
<1>8. TableType' /\ TokenType' /\ history' \in HistoryRec
  BY <1>3, <1>7 DEF AccountsInv, Types, TableType, TokenType
<1>9. Frame({p})
  BY <1>3 DEF Frame, Dead, Gone
<1>10. req'[p] = rec
  BY <1>4 DEF AccountsInv, Types
<1>11. ProcOK(p)'
  BY <1>2, <1>3, <1>4, <1>10
     DEF ProcOK, RecOK, HoldsAccount, HoldsLogin, HoldsTokens, HoldsGrant, Gone
<1>12. req' \in [Procs -> ReqRec] /\ ProcInv'
  BY <1>4, <1>9, <1>11, MoveKept
<1>13. TokenInv'
  BY <1>3 DEF AccountsInv, TokenInv, TokenOK, Dead
<1>14. AccountInv'
  BY <1>2, <1>3, <1>7, SMT
     DEF AccountsInv, AccountInv, AccountOK, VerifiedBy, Justified, Gone, Emptied
<1>15. SessionInv'
  <2> SUFFICES ASSUME NEW s \in sessions' PROVE SessionOK(s)'
    BY DEF SessionInv
  <2>1. CASE s \in sessions
    BY <1>3, <2>1 DEF AccountsInv, SessionInv, SessionOK
  <2>2. CASE s = new
    BY <1>2, <1>3, <1>6, <1>7, <2>2 DEF SessionOK
  <2> QED BY <1>3, <2>1, <2>2
<1> QED BY <1>8, <1>12, <1>13, <1>14, <1>15 DEF AccountsInv, Types

\* The audit event of a login carries the address.
LEMMA LoginRecordKeeps ==
  ASSUME AccountsInv, NEW p \in Procs, LoginRecord(p)
  PROVE  AccountsInv'
<1> DEFINE u == req[p].user
<1>1. u \in Users /\ ~Gone(u)
  BY ProcFacts DEF LoginRecord, HoldsAccount
<1>2. /\ addresses' = addresses \cup {u} /\ Return(p)
      /\ settings' = settings /\ row' = row /\ verified' = verified /\ password' = password
      /\ admin' = admin /\ sessions' = sessions /\ token' = token /\ history' = history
  BY DEF LoginRecord
<1>3. /\ req' = [req EXCEPT ![p] = Idle] /\ Idle \in ReqRec /\ ProcOK(p)'
      /\ lock' \in [Tokens -> Procs \cup {Nobody}]
      /\ \A t \in Tokens : /\ lock[t] = p => lock'[t] = Nobody
                           /\ lock[t] # p => lock'[t] = lock[t]
  BY <1>2, ReturnFacts
<1> HIDE DEF u
<1>4. TableType' /\ TokenType' /\ history' \in HistoryRec
  BY <1>1, <1>2, <1>3 DEF AccountsInv, Types, TableType, TokenType
<1>5. Frame({p})
  BY <1>2, <1>3 DEF Frame, Dead, Gone
<1>6. req' \in [Procs -> ReqRec] /\ ProcInv'
  BY <1>3, <1>5, MoveKept
<1>7. TokenInv'
  BY <1>2, <1>3 DEF AccountsInv, TokenInv, TokenOK, Dead
<1>8. AccountInv'
  BY <1>1, <1>2, SMT DEF AccountsInv, AccountInv, AccountOK, VerifiedBy, Justified, Gone, Emptied
<1>9. SessionInv'
  BY <1>2 DEF AccountsInv, SessionInv, SessionOK
<1> QED BY <1>4, <1>6, <1>7, <1>8, <1>9 DEF AccountsInv, Types

-----------------------------------------------------------------------------
(* Internal tokens.                                                        *)

\* invalidate_unused_tokens_for selects and locks the usable tokens of the pair.
LEMMA IssueInvalidateKeeps ==
  ASSUME AccountsInv, NEW p \in Procs, IssueInvalidate(p)
  PROVE  AccountsInv'
<1> DEFINE u == req[p].user
           T == Pair(u, req[p].purpose)
           rec == [[req[p] EXCEPT !.sees = T] EXCEPT !.at = "issuing"]
<1>1. /\ req[p].at = "requesting" /\ req[p] \in ReqRec /\ HoldsAccount(p, req[p])
      /\ Free(p, Unused(T)) /\ UNCHANGED <<settings, tables, history>>
      /\ lock' = [t \in Tokens |-> IF t \in Unused(T) THEN p ELSE lock[t]]
      /\ req' = [req EXCEPT ![p] = rec]
  BY ProcFacts DEF IssueInvalidate, Invalidated, Go
<1>2. /\ T \in SUBSET Tokens /\ Unused(T) \in SUBSET T
      /\ \A t \in T : token[t].here /\ token[t].user = u
      /\ \A t \in T : t \in Unused(T) <=> token[t].used = "no"
  BY DEF Pair, Unused
<1>3. rec \in ReqRec /\ rec.at = "issuing" /\ rec.user = u /\ rec.sees = T
  BY <1>1, <1>2 DEF ReqRec, Steps
<1>4. /\ settings' = settings /\ row' = row /\ verified' = verified /\ admin' = admin
      /\ token' = token /\ history' = history
  BY <1>1 DEF tables
<1>5. u \in Users /\ ~Gone(u) /\ row[u] # "none"
  BY <1>1 DEF HoldsAccount
<1> HIDE DEF T, u, rec
<1>6. lock \in [Tokens -> Procs \cup {Nobody}]
  BY DEF AccountsInv, Types, TokenType
<1>7. /\ lock' \in [Tokens -> Procs \cup {Nobody}]
      /\ \A t \in Unused(T) : lock'[t] = p
      /\ \A t \in Tokens \ Unused(T) : lock'[t] = lock[t]
  BY <1>1, <1>2, <1>6
<1>8. ASSUME NEW t \in Tokens, lock'[t] # Nobody PROVE ~Dead(t)
  <2>1. CASE t \in Unused(T)
    BY <1>2, <2>1 DEF Dead
  <2>2. CASE t \notin Unused(T)
    BY <1>7, <1>8, <2>2, LockedAlive
  <2> QED BY <2>1, <2>2
<1>9. TableType' /\ TokenType' /\ history' \in HistoryRec
      /\ TokenInv' /\ AccountInv' /\ SessionInv'
  BY <1>1, <1>7, <1>8, TablesKept
<1>10. \A t \in Tokens : lock[t] \in Procs \ {p} => lock'[t] = lock[t]
  BY <1>1, <1>7, AccountsAssumption DEF Free
<1>11. Frame({p})
  BY <1>1, <1>10, TablesFrame
<1>12. req'[p] = rec
  BY <1>1 DEF AccountsInv, Types
<1>13. ProcOK(p)'
  <2>1. HoldsTokens(p, req[p])'
    BY <1>2, <1>3, <1>4, <1>5, <1>7, <1>12 DEF HoldsTokens, Dead
  <2> QED BY <1>3, <1>4, <1>5, <1>12, <2>1
       DEF ProcOK, RecOK, HoldsAccount, HoldsLogin, HoldsGrant, Gone
<1>14. req' \in [Procs -> ReqRec] /\ ProcInv'
  BY <1>1, <1>3, <1>11, <1>13, MoveKept
<1> QED BY <1>9, <1>14 DEF AccountsInv, Types

\* The new token, the invalidation and the audit event commit together.
LEMMA IssueCommitKeeps ==
  ASSUME AccountsInv, NEW p \in Procs, IssueCommit(p)
  PROVE  AccountsInv'
<1> DEFINE u == req[p].user
           sees == req[p].sees
           new == [Unissued EXCEPT !.here = TRUE, !.user = u, !.purpose = req[p].purpose]
<1>1. /\ req[p].at = "issuing" /\ req[p] \in ReqRec
      /\ HoldsAccount(p, req[p]) /\ HoldsTokens(p, req[p])
  BY ProcFacts DEF IssueCommit
<1>2. /\ u \in Users /\ ~Gone(u) /\ row[u] # "none" /\ sees \in SUBSET Tokens
      /\ \A t \in sees : token[t].user \in Users /\ (Dead(t) \/ lock[t] = p)
  BY <1>1 DEF HoldsAccount, HoldsTokens, ReqRec
<1>3. PICK t \in Tokens :
        /\ token[t] = Unissued
        /\ token' = [s \in Tokens |->
              CASE s = t -> new
                [] lock[s] = p -> [token[s] EXCEPT !.used = "yes"]
                [] OTHER -> token[s]]
        /\ history' = [history EXCEPT !.seen[t] = sees]
  BY DEF IssueCommit
<1>4. /\ addresses' = addresses \cup {u} /\ Return(p) /\ settings' = settings /\ row' = row
      /\ verified' = verified /\ password' = password /\ admin' = admin /\ sessions' = sessions
  BY DEF IssueCommit
<1>5. /\ req' = [req EXCEPT ![p] = Idle] /\ Idle \in ReqRec /\ ProcOK(p)'
      /\ lock' \in [Tokens -> Procs \cup {Nobody}]
      /\ \A s \in Tokens : /\ lock[s] = p => lock'[s] = Nobody
                           /\ lock[s] # p => lock'[s] = lock[s]
  BY <1>4, ReturnFacts
<1>6. TableType /\ TokenType /\ history \in HistoryRec
  BY DEF AccountsInv, Types
<1>7. new \in TokenRec /\ new.here /\ new.user = u /\ new.used = "no"
  BY <1>1, <1>2 DEF Unissued, TokenRec, ReqRec
<1>8. token[t].user = NoUser /\ token[t].used = "no" /\ ~token[t].here /\ NoUser \notin Users
  BY <1>3, ConstantsTyped, SMT DEF Unissued
<1> HIDE DEF new
<1>9. ASSUME NEW s \in Tokens \ {t}
      PROVE  /\ token'[s] \in TokenRec /\ token'[s].here = token[s].here
             /\ token'[s].user = token[s].user /\ token'[s].purpose = token[s].purpose
             /\ lock[s] = p => token'[s].used = "yes"
             /\ lock[s] # p => token'[s] = token[s]
  <2>1. token[s] \in TokenRec
    BY <1>6 DEF TokenType
  <2>2. CASE lock[s] = p
    <3>1. token'[s] = [token[s] EXCEPT !.used = "yes"]
      BY <1>3, <2>2
    <3> QED BY <2>1, <2>2, <3>1 DEF TokenRec
  <2>3. CASE lock[s] # p
    BY <1>3, <2>1, <2>3
  <2> QED BY <2>2, <2>3
<1>10. token'[t] = new
  <2>1. lock[t] = Nobody
    BY <1>8, LockedAlive DEF Dead
  <2> QED BY <1>3, <2>1, AccountsAssumption
<1>11. TokenType'
  <2>1. token' = [s \in Tokens |-> token'[s]]
    BY <1>3, SMT
  <2>2. \A s \in Tokens : token'[s] \in TokenRec
    BY <1>7, <1>9, <1>10
  <2> QED BY <1>5, <2>1, <2>2 DEF TokenType
<1>12. /\ history' \in HistoryRec /\ history'.seen[t] = sees
       /\ \A s \in Tokens \ {t} : history'.seen[s] = history.seen[s]
       /\ history'.uses = history.uses /\ history'.born = history.born
       /\ history'.granted = history.granted /\ history'.erasures = history.erasures
       /\ history'.overlapped = history.overlapped
  BY <1>2, <1>3, <1>6 DEF HistoryRec
<1>13. TableType'
  BY <1>2, <1>4, <1>6 DEF TableType
<1>14. \A s \in Tokens : token[s].user \in Users =>
          s # t /\ (Dead(s) \/ lock[s] = p => Dead(s)')
  BY <1>8, <1>9 DEF Dead
<1> HIDE DEF u, sees
<1>15. Frame({p})
  BY <1>4, <1>5, <1>9, <1>12, <1>14 DEF Frame, Gone, Dead
<1>16. req' \in [Procs -> ReqRec] /\ ProcInv'
  BY <1>5, <1>15, MoveKept
<1>17. TokenInv'
  <2> SUFFICES ASSUME NEW s \in Tokens PROVE TokenOK(s)'
    BY DEF TokenInv
  <2>1. TokenOK(s) /\ TokenOK(t)
    BY DEF AccountsInv, TokenInv
  <2>2. history.seen[s] \in SUBSET Tokens
    BY <1>6 DEF HistoryRec
  <2>3. \A x \in history'.seen[s] : x \in Tokens /\ token[x].user \in Users
                                    /\ (Dead(x) \/ lock[x] = p)
    BY <1>2, <1>12, <2>1, <2>2 DEF TokenOK
  <2>4. \A x \in history'.seen[s] : token'[x].user \in Users /\ Dead(x)'
    BY <1>9, <1>14, <2>3
  <2>5. CASE s = t
    <3>1. lock[t] = Nobody
      BY <1>8, LockedAlive DEF Dead
    <3>2. lock'[t] = Nobody
      BY <1>5, <3>1
    <3>3. history'.uses[t] = <<>>
      BY <1>8, <1>12, <2>1 DEF TokenOK
    <3> QED BY <1>2, <1>4, <1>7, <1>10, <2>4, <2>5, <3>2, <3>3 DEF TokenOK
  <2>6. CASE s # t
    BY <1>4, <1>5, <1>9, <1>12, <2>1, <2>4, <2>6 DEF TokenOK, Dead
  <2> QED BY <2>5, <2>6
<1>18. AccountInv'
  <2> SUFFICES ASSUME NEW x \in Users PROVE AccountOK(x)'
    BY DEF AccountInv
  <2>1. AccountOK(x)
    BY DEF AccountsInv, AccountInv
  <2>2. verified[x] => \E s \in Tokens : VerifiedBy(x, s)'
    <3>1. ASSUME NEW s \in Tokens, VerifiedBy(x, s) PROVE VerifiedBy(x, s)'
      BY <1>8, <1>9, <1>12, <3>1 DEF VerifiedBy
    <3> QED BY <2>1, <3>1 DEF AccountOK
  <2>3. Gone(x) => x # u /\ Emptied(x)'
    BY <1>2, <1>4, <1>7, <1>9, <1>10, <1>12, <2>1, SMT DEF AccountOK, Emptied
  <2> QED BY <1>4, <1>12, <2>1, <2>2, <2>3 DEF AccountOK, Justified, Gone
<1>19. SessionInv'
  BY <1>4, <1>12 DEF AccountsInv, SessionInv, SessionOK
<1> QED BY <1>11, <1>12, <1>13, <1>16, <1>17, <1>18, <1>19 DEF AccountsInv, Types

\* A confirmation locks the usable token it was called with.
LEMMA ConfirmSelectKeeps ==
  ASSUME AccountsInv, NEW p \in Procs, NEW t \in Tokens, NEW purpose \in Purposes,
         NEW pw \in Passwords, ConfirmSelect(p, t, purpose, pw)
  PROVE  AccountsInv'
<1>1. UNCHANGED <<settings, tables, history>>
  BY DEF ConfirmSelect
<1>2. CASE ~Consumable(t, purpose)
  <2>1. UNCHANGED <<lock, req>>
    BY <1>2 DEF ConfirmSelect
  <2> QED BY <1>1, <2>1, StillKeeps DEF tables
<1>3. CASE Consumable(t, purpose)
  <2> DEFINE u == token[t].user
             rec == [[Idle EXCEPT !.user = u, !.tok = t, !.purpose = purpose, !.pw = pw]
                        EXCEPT !.at = "confirming"]
  <2>1. /\ token[t].here /\ token[t].used = "no" /\ token[t].purpose = purpose
        /\ lock[t] \in {p, Nobody}
        /\ lock' = [lock EXCEPT ![t] = p] /\ req' = [req EXCEPT ![p] = rec]
    BY <1>3 DEF Consumable, ConfirmSelect, Free, Go
  <2>2. TokenOK(t) /\ ~Dead(t)
    BY <2>1 DEF AccountsInv, TokenInv, Dead
  <2>3. u \in Users /\ row[u] # "none"
    BY <2>1, <2>2 DEF TokenOK
  <2>4. ~Gone(u)
    BY <2>1, <2>3 DEF AccountsInv, AccountInv, AccountOK, Emptied
  <2>5. /\ rec \in ReqRec /\ rec.at = "confirming" /\ rec.user = u /\ rec.tok = t
        /\ rec.purpose = purpose
    BY <2>3, ConstantsTyped DEF Idle, ReqRec, Steps
  <2> HIDE DEF rec, u
  <2>6. lock \in [Tokens -> Procs \cup {Nobody}]
    BY DEF AccountsInv, Types, TokenType
  <2>7. /\ lock' \in [Tokens -> Procs \cup {Nobody}] /\ lock'[t] = p
        /\ \A s \in Tokens \ {t} : lock'[s] = lock[s]
    BY <2>1, <2>6
  <2>8. \A s \in Tokens : lock'[s] # Nobody => ~Dead(s)
    BY <2>2, <2>7, LockedAlive
  <2>9. TableType' /\ TokenType' /\ history' \in HistoryRec
        /\ TokenInv' /\ AccountInv' /\ SessionInv'
    BY <1>1, <2>7, <2>8, TablesKept
  <2>10. \A s \in Tokens : lock[s] \in Procs \ {p} => lock'[s] = lock[s]
    BY <2>1, <2>7, AccountsAssumption
  <2>11. Frame({p})
    BY <1>1, <2>10, TablesFrame
  <2>12. req'[p] = rec /\ token' = token /\ row' = row /\ history' = history
    BY <1>1, <2>1 DEF AccountsInv, Types, tables
  <2>13. token[t].user = u
    BY DEF u
  <2>14. ProcOK(p)'
    BY <2>1, <2>3, <2>4, <2>5, <2>7, <2>12, <2>13, SMT
       DEF ProcOK, RecOK, HoldsAccount, HoldsLogin, HoldsTokens, HoldsGrant, Gone
  <2>15. req' \in [Procs -> ReqRec] /\ ProcInv'
    BY <2>1, <2>5, <2>11, <2>14, MoveKept
  <2> QED BY <2>9, <2>15 DEF AccountsInv, Types
<1> QED BY <1>2, <1>3

\* mark_internal_token_used: the locked token is used for the first time, and for
\* the purpose it was issued for.
LEMMA ConsumeFacts ==
  ASSUME AccountsInv, NEW p \in Procs, req[p].at = "confirming",
         NEW effect \in Purposes, effect = req[p].purpose, Consume(p, effect), row' = row
  PROVE  LET k == req[p].tok IN
         /\ k \in Tokens /\ token[k].user = req[p].user /\ TokenInv' /\ TokenType'
         /\ \A t \in Tokens : /\ token'[t].here = token[t].here
                              /\ token'[t].user = token[t].user
                              /\ token'[t].purpose = token[t].purpose
                              /\ Dead(t) => Dead(t)'
         /\ history' \in HistoryRec /\ history'.uses[k] = <<effect>>
         /\ \A t \in Tokens : history.uses[t] # <<>> => history'.uses[t] = history.uses[t]
         /\ history'.born = history.born /\ history'.granted = history.granted
         /\ history'.erasures = history.erasures /\ history'.overlapped = history.overlapped
<1> DEFINE k == req[p].tok
<1>1. k \in Tokens /\ lock[k] = p /\ token[k].user = req[p].user /\ token[k].purpose = effect
  BY ProcFacts DEF HoldsTokens
<1>2. TokenType /\ history \in HistoryRec /\ TokenOK(k)
  BY <1>1 DEF AccountsInv, Types, TokenInv
<1>3. token[k].here /\ token[k].used = "no"
  BY <1>1, LockedAlive, AccountsAssumption DEF Dead
<1>4. history.uses[k] = <<>>
  BY <1>2, <1>3 DEF TokenOK
<1>5. /\ token' = [token EXCEPT ![k].used = IF @ = "no" THEN "yes" ELSE @]
      /\ history' = [history EXCEPT !.uses[k] = Append(@, effect)] /\ Return(p)
  BY DEF Consume
<1>6. /\ lock' \in [Tokens -> Procs \cup {Nobody}]
      /\ \A t \in Tokens : /\ lock[t] = p => lock'[t] = Nobody
                           /\ lock[t] # p => lock'[t] = lock[t]
  BY <1>5, ReturnFacts
<1> HIDE DEF k
<1>7. /\ token'[k].here = token[k].here /\ token'[k].user = token[k].user
      /\ token'[k].purpose = token[k].purpose /\ token'[k].used = "yes"
      /\ token' \in [Tokens -> TokenRec]
      /\ \A t \in Tokens \ {k} : token'[t] = token[t]
  BY <1>1, <1>2, <1>3, <1>5 DEF TokenType, TokenRec
<1>8. Append(history.uses[k], effect) = <<effect>> /\ <<effect>> \in Seq(Purposes)
  BY <1>4, SMT
<1>9. /\ history' \in HistoryRec /\ history'.uses[k] = <<effect>>
      /\ \A t \in Tokens \ {k} : history'.uses[t] = history.uses[t]
      /\ history'.seen = history.seen
      /\ history'.born = history.born /\ history'.granted = history.granted
      /\ history'.erasures = history.erasures /\ history'.overlapped = history.overlapped
  <2> DEFINE new == Append(history.uses[k], effect)
  <2>1. history' = [history EXCEPT !.uses[k] = new] /\ new = <<effect>> /\ new \in Seq(Purposes)
    BY <1>5, <1>8
  <2> HIDE DEF new
  <2> QED BY <1>1, <1>2, <2>1 DEF HistoryRec
<1>10. \A t \in Tokens : Dead(t) => Dead(t)'
  BY <1>7 DEF Dead
<1>11. TokenInv'
  <2> SUFFICES ASSUME NEW t \in Tokens PROVE TokenOK(t)'
    BY DEF TokenInv
  <2>1. TokenOK(t) /\ history.seen[t] \in SUBSET Tokens
    BY <1>2 DEF AccountsInv, TokenInv, HistoryRec
  <2>2. \A s \in history'.seen[t] : token'[s].user \in Users /\ Dead(s)'
    BY <1>7, <1>9, <1>10, <2>1 DEF TokenOK
  <2>3. CASE t = k
    BY <1>1, <1>2, <1>6, <1>7, <1>9, <2>2, <2>3 DEF TokenOK
  <2>4. CASE t # k
    BY <1>6, <1>7, <1>9, <2>1, <2>2, <2>4 DEF TokenOK, Dead
  <2> QED BY <2>3, <2>4
<1>12. \A t \in Tokens : history.uses[t] # <<>> => history'.uses[t] = history.uses[t]
  BY <1>4, <1>9
<1>13. TokenType'
  BY <1>6, <1>7 DEF TokenType
<1> QED BY <1>1, <1>7, <1>9, <1>10, <1>11, <1>12, <1>13 DEF k

\* A consumption is harmless to the other processes.
LEMMA ConsumeFrame ==
  ASSUME AccountsInv, NEW p \in Procs, Return(p),
         settings' = settings, row' = row, admin' = admin,
         \A u \in Users : verified[u] => verified'[u],
         \A t \in Tokens : /\ token'[t].user = token[t].user
                           /\ token'[t].purpose = token[t].purpose
                           /\ Dead(t) => Dead(t)',
         history'.born = history.born, history'.overlapped = history.overlapped
  PROVE  req' \in [Procs -> ReqRec] /\ ProcInv'
<1>1. /\ req' = [req EXCEPT ![p] = Idle] /\ Idle \in ReqRec /\ ProcOK(p)'
      /\ \A t \in Tokens : lock[t] # p => lock'[t] = lock[t]
  BY ReturnFacts
<1>2. Frame({p})
  BY <1>1 DEF Frame, Gone, Dead
<1> QED BY <1>1, <1>2, MoveKept

\* upsert_credential, the consumption and the revocation of the sessions.
LEMMA ResetCommitKeeps ==
  ASSUME AccountsInv, NEW p \in Procs, ResetCommit(p)
  PROVE  AccountsInv'
<1> DEFINE u == req[p].user
           k == req[p].tok
<1>1. /\ req[p].at = "confirming" /\ req[p].purpose = "password_reset"
      /\ password' = [password EXCEPT ![u] = req[p].pw]
      /\ sessions' = {s \in sessions : s.user # u}
      /\ Consume(p, "password_reset") /\ settings' = settings /\ row' = row
      /\ verified' = verified /\ admin' = admin /\ addresses' = addresses
  BY DEF ResetCommit, Upserted, Revoked
<1>2. /\ k \in Tokens /\ token[k].user = u /\ TokenInv' /\ TokenType'
      /\ \A t \in Tokens : /\ token'[t].here = token[t].here
                           /\ token'[t].user = token[t].user
                           /\ token'[t].purpose = token[t].purpose
                           /\ Dead(t) => Dead(t)'
      /\ history' \in HistoryRec
      /\ \A t \in Tokens : history.uses[t] # <<>> => history'.uses[t] = history.uses[t]
      /\ history'.born = history.born /\ history'.granted = history.granted
      /\ history'.erasures = history.erasures /\ history'.overlapped = history.overlapped
  BY <1>1, ConsumeFacts DEF Purposes
<1>3. u \in Users /\ ~Gone(u) /\ row[u] # "none" /\ req[p].pw \in Passwords \cup {NoPassword}
  BY <1>1, ProcFacts DEF HoldsAccount, ReqRec
<1>4. TableType
  BY DEF AccountsInv, Types
<1> HIDE DEF u, k
<1>5. TableType' /\ \A x \in Users \ {u} : password'[x] = password[x]
  BY <1>1, <1>3, <1>4 DEF TableType
<1>6. req' \in [Procs -> ReqRec] /\ ProcInv'
  BY <1>1, <1>2, ConsumeFrame DEF Consume
<1>7. AccountInv'
  <2> SUFFICES ASSUME NEW x \in Users PROVE AccountOK(x)'
    BY DEF AccountInv
  <2>1. AccountOK(x)
    BY DEF AccountsInv, AccountInv
  <2>2. verified[x] => \E s \in Tokens : VerifiedBy(x, s)'
    <3>1. ASSUME NEW s \in Tokens, VerifiedBy(x, s) PROVE VerifiedBy(x, s)'
      <4>1. token[s].user = x /\ history.uses[s] = <<"email_verify">>
        BY <3>1 DEF VerifiedBy
      <4>2. <<"email_verify">> # <<>>
        OBVIOUS
      <4>3. history.uses[s] # <<>>
        BY <4>1, <4>2
      <4>4. history'.uses[s] = history.uses[s] /\ token'[s].user = token[s].user
        BY <1>2, <4>3
      <4> QED BY <4>1, <4>4 DEF VerifiedBy
    <3> QED BY <2>1, <3>1 DEF AccountOK
  <2>3. Gone(x) => Emptied(x)'
    BY <1>1, <1>2, <1>3, <1>5, <2>1, SMT DEF AccountOK, Emptied
  <2> QED BY <1>1, <1>2, <2>1, <2>2, <2>3 DEF AccountOK, Justified, Gone
<1>8. SessionInv'
  BY <1>1, <1>2, <1>4, <1>5, SMT DEF AccountsInv, SessionInv, SessionOK, TableType, SessionRec
<1> QED BY <1>2, <1>5, <1>6, <1>7, <1>8 DEF AccountsInv, Types

\* mark_verified and the consumption.
LEMMA VerifyCommitKeeps ==
  ASSUME AccountsInv, NEW p \in Procs, VerifyCommit(p)
  PROVE  AccountsInv'
<1> DEFINE u == req[p].user
           k == req[p].tok
<1>1. /\ req[p].at = "confirming" /\ req[p].purpose = "email_verify"
      /\ verified' = [verified EXCEPT ![u] = TRUE]
      /\ Consume(p, "email_verify") /\ settings' = settings /\ row' = row
      /\ password' = password /\ admin' = admin /\ addresses' = addresses
      /\ sessions' = sessions
  BY DEF VerifyCommit, Verified
<1>2. /\ k \in Tokens /\ token[k].user = u /\ TokenInv' /\ TokenType'
      /\ \A t \in Tokens : /\ token'[t].here = token[t].here
                           /\ token'[t].user = token[t].user
                           /\ token'[t].purpose = token[t].purpose
                           /\ Dead(t) => Dead(t)'
      /\ history' \in HistoryRec /\ history'.uses[k] = <<"email_verify">>
      /\ \A t \in Tokens : history.uses[t] # <<>> => history'.uses[t] = history.uses[t]
      /\ history'.born = history.born /\ history'.granted = history.granted
      /\ history'.erasures = history.erasures /\ history'.overlapped = history.overlapped
  BY <1>1, ConsumeFacts DEF Purposes
<1>3. u \in Users /\ TableType
  BY <1>1, ProcFacts DEF HoldsAccount, AccountsInv, Types
<1> HIDE DEF u, k
<1>4. TableType' /\ verified'[u] /\ \A x \in Users \ {u} : verified'[x] = verified[x]
  BY <1>1, <1>3 DEF TableType
<1>5. \A x \in Users : verified[x] => verified'[x]
  BY <1>4
<1>6. req' \in [Procs -> ReqRec] /\ ProcInv'
  BY <1>1, <1>2, <1>5, ConsumeFrame DEF Consume
<1>7. AccountInv'
  <2> SUFFICES ASSUME NEW x \in Users PROVE AccountOK(x)'
    BY DEF AccountInv
  <2>1. AccountOK(x)
    BY DEF AccountsInv, AccountInv
  <2>2. verified'[x] => \E s \in Tokens : VerifiedBy(x, s)'
    <3>1. ASSUME NEW s \in Tokens, VerifiedBy(x, s) PROVE VerifiedBy(x, s)'
      <4>1. token[s].user = x /\ history.uses[s] = <<"email_verify">>
        BY <3>1 DEF VerifiedBy
      <4>2. <<"email_verify">> # <<>>
        OBVIOUS
      <4>3. history.uses[s] # <<>>
        BY <4>1, <4>2
      <4>4. history'.uses[s] = history.uses[s] /\ token'[s].user = token[s].user
        BY <1>2, <4>3
      <4> QED BY <4>1, <4>4 DEF VerifiedBy
    <3>2. ASSUME x = u PROVE \E s \in Tokens : VerifiedBy(x, s)'
      <4>1. PICK s \in Tokens : s = k
        BY <1>2
      <4>2. token'[s].user = x /\ history'.uses[s] = <<"email_verify">>
        BY <1>2, <3>2, <4>1
      <4> QED BY <4>2 DEF VerifiedBy
    <3> QED BY <1>4, <2>1, <3>1, <3>2 DEF AccountOK
  <2>3. Gone(x) => Emptied(x)'
    BY <1>1, <1>2, <2>1 DEF AccountOK, Emptied
  <2> QED BY <1>1, <1>2, <2>1, <2>2, <2>3 DEF AccountOK, Justified, Gone
<1>8. SessionInv'
  BY <1>1, <1>2, <1>3, <1>5 DEF AccountsInv, SessionInv, SessionOK, TableType, SessionRec
<1> QED BY <1>2, <1>4, <1>6, <1>7, <1>8 DEF AccountsInv, Types

\* A step of the clock or of the purge on one token: its claims stay, it does not
\* come back to life, and only an unlocked one dies.
LEMMA TokenStepKeeps ==
  ASSUME AccountsInv, NEW k \in Tokens, NEW new \in TokenRec, token' = [token EXCEPT ![k] = new],
         new.user = token[k].user, new.purpose = token[k].purpose,
         new.here => token[k].here, new.used = "no" <=> token[k].used = "no",
         ~new.here => lock[k] = Nobody \/ ~token[k].here,
         UNCHANGED <<settings, row, verified, password, admin, sessions, addresses, lock, req,
                     history>>
  PROVE  AccountsInv'
<1>1. TokenType /\ TableType /\ history \in HistoryRec /\ req \in [Procs -> ReqRec]
  BY DEF AccountsInv, Types
<1>2. /\ token'[k] = new /\ \A t \in Tokens \ {k} : token'[t] = token[t]
      /\ TokenType'
  BY <1>1 DEF TokenType
<1>3. \A t \in Tokens : /\ token'[t].user = token[t].user /\ token'[t].purpose = token[t].purpose
                        /\ token'[t].here => token[t].here
                        /\ token'[t].used = "no" <=> token[t].used = "no"
                        /\ Dead(t) => Dead(t)'
                        /\ lock[t] # Nobody => ~Dead(t)'
  <2> SUFFICES ASSUME NEW t \in Tokens
               PROVE  /\ token'[t].user = token[t].user /\ token'[t].purpose = token[t].purpose
                      /\ token'[t].here => token[t].here
                      /\ token'[t].used = "no" <=> token[t].used = "no"
                      /\ Dead(t) => Dead(t)'
                      /\ lock[t] # Nobody => ~Dead(t)'
    OBVIOUS
  <2>1. lock[t] # Nobody => ~Dead(t)
    BY LockedAlive
  <2>2. CASE t = k
    BY <1>2, <2>1, <2>2 DEF Dead
  <2>3. CASE t # k
    BY <1>2, <2>1, <2>3 DEF Dead
  <2> QED BY <2>2, <2>3
<1>4. TableType' /\ history' \in HistoryRec /\ req' \in [Procs -> ReqRec]
  BY <1>1 DEF TableType
<1>5. Frame({})
  BY <1>3 DEF Frame, Gone, Dead
<1>6. ProcInv'
  <2> SUFFICES ASSUME NEW q \in Procs PROVE ProcOK(q)'
    BY DEF ProcInv
  <2>1. q \in Procs \ {} /\ req'[q] = req[q]
    OBVIOUS
  <2>2. req[q].at = "registering" => \A x \in Procs \ {q} : req'[x].user # req[q].user
    BY ProcFacts DEF HoldsAccount
  <2> QED BY <1>5, <2>1, <2>2, OtherKept
<1>7. TokenInv'
  <2> SUFFICES ASSUME NEW t \in Tokens PROVE TokenOK(t)'
    BY DEF TokenInv
  <2>1. TokenOK(t) /\ history.seen[t] \in SUBSET Tokens
    BY <1>1 DEF AccountsInv, TokenInv, HistoryRec
  <2>2. \A s \in history.seen[t] : token'[s].user \in Users /\ Dead(s)'
    BY <1>3, <2>1 DEF TokenOK
  <2> QED BY <1>3, <2>1, <2>2 DEF TokenOK
<1>8. AccountInv'
  <2> SUFFICES ASSUME NEW x \in Users PROVE AccountOK(x)'
    BY DEF AccountInv
  <2>1. AccountOK(x)
    BY DEF AccountsInv, AccountInv
  <2>2. verified[x] => \E s \in Tokens : VerifiedBy(x, s)'
    <3>1. ASSUME NEW s \in Tokens, VerifiedBy(x, s) PROVE VerifiedBy(x, s)'
      BY <1>3, <3>1 DEF VerifiedBy
    <3> QED BY <2>1, <3>1 DEF AccountOK
  <2>3. Gone(x) => Emptied(x)'
    BY <1>3, <2>1 DEF AccountOK, Emptied
  <2> QED BY <2>1, <2>2, <2>3 DEF AccountOK, Justified, Gone
<1>9. SessionInv'
  BY DEF AccountsInv, SessionInv, SessionOK
<1> QED BY <1>2, <1>4, <1>6, <1>7, <1>8, <1>9 DEF AccountsInv, Types

\* A token expires, or a mark on it passes the retention window.
LEMMA AgeKeeps ==
  ASSUME AccountsInv, NEW t \in Tokens, Age(t)
  PROVE  AccountsInv'
<1>1. token[t] \in TokenRec
  BY DEF AccountsInv, Types, TokenType
<1>2. UNCHANGED <<settings, row, verified, password, admin, sessions, addresses, lock, req,
                  history>> /\ token[t].here
  BY DEF Age
<1>3. CASE token' = [token EXCEPT ![t].age = IF @ = "valid" THEN "expired" ELSE "old"]
  <2> DEFINE new == [token[t] EXCEPT !.age = IF @ = "valid" THEN "expired" ELSE "old"]
  <2>1. new \in TokenRec /\ new.user = token[t].user /\ new.purpose = token[t].purpose
        /\ new.here = token[t].here /\ new.used = token[t].used
    BY <1>1 DEF TokenRec
  <2>2. token' = [token EXCEPT ![t] = new]
    BY <1>3
  <2> HIDE DEF new
  <2> QED BY <1>2, <2>1, <2>2, TokenStepKeeps
<1>4. CASE token[t].used = "yes" /\ token' = [token EXCEPT ![t].used = "old"]
  <2> DEFINE new == [token[t] EXCEPT !.used = "old"]
  <2>1. new \in TokenRec /\ new.user = token[t].user /\ new.purpose = token[t].purpose
        /\ new.here = token[t].here /\ new.used = "old"
    BY <1>1 DEF TokenRec
  <2>2. token' = [token EXCEPT ![t] = new]
    BY <1>4
  <2> HIDE DEF new
  <2> QED BY <1>2, <1>4, <2>1, <2>2, TokenStepKeeps
<1> QED BY <1>3, <1>4 DEF Age

\* The purge deletes an unlocked token.
LEMMA PurgeInternalKeeps ==
  ASSUME AccountsInv, NEW t \in Tokens, PurgeInternal(t)
  PROVE  AccountsInv'
<1> DEFINE new == [token[t] EXCEPT !.here = FALSE]
<1>1. token[t] \in TokenRec
  BY DEF AccountsInv, Types, TokenType
<1>2. UNCHANGED <<settings, row, verified, password, admin, sessions, addresses, lock, req,
                  history>> /\ lock[t] = Nobody /\ token' = [token EXCEPT ![t] = new]
  BY DEF PurgeInternal
<1>3. new \in TokenRec /\ new.user = token[t].user /\ new.purpose = token[t].purpose
      /\ ~new.here /\ new.used = token[t].used
  BY <1>1 DEF TokenRec
<1> HIDE DEF new
<1> QED BY <1>2, <1>3, TokenStepKeeps

\* The bootstrap creates its account, or takes over one it finds.
LEMMA BootstrapCreateKeeps ==
  ASSUME AccountsInv, NEW p \in Procs, BootstrapCreate(p)
  PROVE  AccountsInv'
<1>1. /\ req[p].at = "inserting"
      /\ settings' = settings /\ verified' = verified /\ password' = password /\ admin' = admin
      /\ sessions' = sessions /\ addresses' = addresses /\ token' = token /\ mail' = mail
      /\ lock' = lock
  BY DEF BootstrapCreate
<1>2. ASSUME NEW u \in GetByEmail,
             Go(p, "granting", [req[p] EXCEPT !.user = u, !.how = "raced"]),
             UNCHANGED <<row, history>>
      PROVE  AccountsInv'
  <2>1. UNCHANGED <<settings, tables, lock, history>>
    BY <1>1, <1>2 DEF tables
  <2> QED BY <1>1, <1>2, <2>1, RacedKeeps
<1>3. ASSUME NEW u \in Fresh, row' = Created(u),
             history' = [history EXCEPT !.born[u] = "bootstrap"],
             Go(p, "initial", [req[p] EXCEPT !.user = u])
      PROVE  AccountsInv'
  <2> DEFINE rec == [[req[p] EXCEPT !.user = u] EXCEPT !.at = "initial"]
  <2>1. u \in Users /\ row[u] = "none" /\ \A q \in Procs : req[q].user # u
    BY DEF Fresh
  <2>2. /\ TableType /\ TokenType /\ history \in HistoryRec /\ req \in [Procs -> ReqRec]
        /\ req[p] \in ReqRec /\ ~req[p].flag
    BY <1>1, ProcFacts DEF AccountsInv, Types, HoldsGrant
  <2>3. rec \in ReqRec /\ rec.at = "initial" /\ rec.user = u /\ rec.flag = req[p].flag
    BY <2>1, <2>2 DEF ReqRec, Steps
  <2>4. req' = [req EXCEPT ![p] = rec]
    BY <1>3 DEF Go
  <2> HIDE DEF rec
  <2>5. /\ history' \in HistoryRec /\ history'.seen = history.seen /\ history'.uses = history.uses
        /\ history'.born[u] = "bootstrap"
        /\ \A x \in Users \ {u} : history'.born[x] = history.born[x]
        /\ history'.granted = history.granted /\ history'.erasures = history.erasures
        /\ history'.overlapped = history.overlapped
    BY <1>3, <2>1, <2>2 DEF HistoryRec
  <2>6. /\ row'[u] = "live" /\ \A x \in Users \ {u} : row'[x] = row[x]
        /\ TableType' /\ TokenType' /\ req'[p] = rec
    BY <1>1, <1>3, <2>1, <2>2, <2>4 DEF TableType, TokenType, Created
  <2>7. history.born[u] = "none" /\ history.erasures[u] = 0
    BY <2>1 DEF AccountsInv, AccountInv, AccountOK
  <2>8. Frame({p})
    BY <1>1, <2>1, <2>5, <2>6 DEF Frame, Dead, Gone
  <2>9. ProcOK(p)'
    BY <2>1, <2>2, <2>3, <2>5, <2>6
       DEF ProcOK, RecOK, HoldsAccount, HoldsLogin, HoldsTokens, HoldsGrant, Gone
  <2>10. req' \in [Procs -> ReqRec] /\ ProcInv'
    BY <2>3, <2>4, <2>8, <2>9, MoveKept
  <2>11. TokenInv'
    BY <1>1, <2>5, <2>6 DEF AccountsInv, TokenInv, TokenOK, Dead
  <2>12. AccountInv'
    <3> SUFFICES ASSUME NEW x \in Users PROVE AccountOK(x)'
      BY DEF AccountInv
    <3>1. AccountOK(x)
      BY DEF AccountsInv, AccountInv
    <3>2. CASE x = u
      BY <1>1, <2>5, <2>6, <2>7, <3>1, <3>2 DEF AccountOK, VerifiedBy, Justified, Gone
    <3>3. CASE x # u
      BY <1>1, <2>5, <2>6, <3>1, <3>3 DEF AccountOK, VerifiedBy, Justified, Gone, Emptied
    <3> QED BY <3>2, <3>3
  <2>13. SessionInv'
    BY <1>1, <2>1, <2>2, <2>5, <2>6, SMT
       DEF AccountsInv, SessionInv, SessionOK, TableType, SessionRec
  <2> QED BY <2>5, <2>6, <2>10, <2>11, <2>12, <2>13 DEF AccountsInv, Types
<1> QED BY <1>2, <1>3 DEF BootstrapCreate

\* set_initial_password of the account the bootstrap created.
LEMMA BootstrapPasswordKeeps ==
  ASSUME AccountsInv, NEW p \in Procs, BootstrapPassword(p)
  PROVE  AccountsInv'
<1> DEFINE u == req[p].user
           rec == [[req[p] EXCEPT !.how = "created"] EXCEPT !.at = "granting"]
<1>1. /\ req[p].at = "initial" /\ password' = [password EXCEPT ![u] = "boot"]
      /\ req' = [req EXCEPT ![p] = rec]
      /\ settings' = settings /\ row' = row /\ verified' = verified /\ admin' = admin
      /\ sessions' = sessions /\ addresses' = addresses /\ token' = token
      /\ lock' = lock /\ history' = history
  BY DEF BootstrapPassword, Upserted, Go
<1>2. /\ req[p] \in ReqRec /\ u \in Users /\ ~Gone(u) /\ row[u] # "none" /\ ~req[p].flag
      /\ history.born[u] = "bootstrap"
  BY <1>1, ProcFacts DEF HoldsAccount, HoldsGrant
<1>3. /\ rec \in ReqRec /\ rec.at = "granting" /\ rec.user = u /\ rec.flag = req[p].flag
      /\ rec.how = "created"
  BY <1>2 DEF ReqRec, Steps
<1>4. TableType /\ TokenType /\ history \in HistoryRec /\ req \in [Procs -> ReqRec]
  BY DEF AccountsInv, Types
<1> HIDE DEF u, rec
<1>5. /\ TableType' /\ TokenType' /\ history' \in HistoryRec /\ req'[p] = rec
      /\ \A x \in Users \ {u} : password'[x] = password[x]
  BY <1>1, <1>2, <1>4 DEF TableType, TokenType, Passwords
<1>6. Frame({p})
  BY <1>1 DEF Frame, Dead, Gone
<1>7. ProcOK(p)'
  BY <1>1, <1>2, <1>3, <1>5
     DEF ProcOK, RecOK, HoldsAccount, HoldsLogin, HoldsTokens, HoldsGrant, Gone, Justified
<1>8. req' \in [Procs -> ReqRec] /\ ProcInv'
  BY <1>1, <1>3, <1>6, <1>7, MoveKept
<1>9. TokenInv'
  BY <1>1 DEF AccountsInv, TokenInv, TokenOK, Dead
<1>10. AccountInv'
  BY <1>1, <1>2, <1>5, SMT
     DEF AccountsInv, AccountInv, AccountOK, VerifiedBy, Justified, Gone, Emptied
<1>11. SessionInv'
  BY <1>1, <1>2, <1>4, <1>5 DEF AccountsInv, SessionInv, SessionOK, TableType, SessionRec
<1> QED BY <1>5, <1>8, <1>9, <1>10, <1>11 DEF AccountsInv, Types

\* The admin tuple, with the reason the bootstrap carries.
LEMMA GrantCommitKeeps ==
  ASSUME AccountsInv, NEW p \in Procs, GrantCommit(p)
  PROVE  AccountsInv'
<1> DEFINE u == req[p].user
<1>1. /\ req[p].at = "tuple"
      /\ settings' = settings /\ row' = row /\ verified' = verified /\ password' = password
      /\ sessions' = sessions /\ addresses' = addresses /\ token' = token /\ mail' = mail
  BY DEF GrantCommit
<1>2. CASE Return(p) /\ UNCHANGED <<admin, history>>
  <2>1. UNCHANGED <<settings, tables, history>>
    BY <1>1, <1>2 DEF tables
  <2> QED BY <1>2, <2>1, ReturnKeeps
<1>3. CASE /\ admin' = admin \cup {u} /\ history' = [history EXCEPT !.granted[u] = req[p].how]
           /\ Go(p, "recording", req[p]) /\ lock' = lock
  <2>1. PICK rec \in ReqRec : /\ req' = [req EXCEPT ![p] = rec] /\ rec.at = "recording"
                              /\ rec.user = u /\ rec.flag = req[p].flag
    BY <1>3, GoOn, SMT DEF Steps
  <2>2. /\ req[p] \in ReqRec /\ u \in Users /\ ~Gone(u) /\ row[u] # "none" /\ ~req[p].flag
        /\ Justified(u, req[p].how)
    BY <1>1, ProcFacts DEF HoldsAccount, HoldsGrant
  <2>3. TableType /\ TokenType /\ history \in HistoryRec /\ req \in [Procs -> ReqRec]
    BY DEF AccountsInv, Types
  <2>4. req[p].how \in {"none", "verified", "raced", "created"}
    BY <2>2 DEF ReqRec
  <2> HIDE DEF u
  <2>5. /\ history' \in HistoryRec /\ history'.seen = history.seen /\ history'.uses = history.uses
        /\ history'.born = history.born /\ history'.granted[u] = req[p].how
        /\ \A x \in Users \ {u} : history'.granted[x] = history.granted[x]
        /\ history'.erasures = history.erasures /\ history'.overlapped = history.overlapped
    BY <1>3, <2>2, <2>3, <2>4 DEF HistoryRec
  <2>6. TableType' /\ TokenType' /\ req'[p] = rec
    BY <1>1, <1>3, <2>1, <2>2, <2>3 DEF TableType, TokenType
  <2>7. Frame({p})
    BY <1>1, <1>3, <2>5 DEF Frame, Dead, Gone
  <2>8. ProcOK(p)'
    BY <1>1, <2>1, <2>2, <2>5, <2>6
       DEF ProcOK, RecOK, HoldsAccount, HoldsLogin, HoldsTokens, HoldsGrant, Gone
  <2>9. req' \in [Procs -> ReqRec] /\ ProcInv'
    BY <2>1, <2>7, <2>8, MoveKept
  <2>10. TokenInv'
    BY <1>1, <1>3, <2>5 DEF AccountsInv, TokenInv, TokenOK, Dead
  <2>11. AccountInv'
    <3> SUFFICES ASSUME NEW x \in Users PROVE AccountOK(x)'
      BY DEF AccountInv
    <3>1. AccountOK(x)
      BY DEF AccountsInv, AccountInv
    <3>2. x \in admin' => Justified(x, history'.granted[x])
      BY <1>3, <2>2, <2>5, <3>1 DEF AccountOK
    <3>3. x \in admin' => Justified(x, history.granted[x])'
      BY <1>1, <2>5, <3>2 DEF Justified
    <3> QED BY <1>1, <2>5, <3>1, <3>3 DEF AccountOK, VerifiedBy, Gone, Emptied
  <2>12. SessionInv'
    BY <1>1, <2>5 DEF AccountsInv, SessionInv, SessionOK
  <2> QED BY <2>5, <2>6, <2>9, <2>10, <2>11, <2>12 DEF AccountsInv, Types
<1> QED BY <1>2, <1>3 DEF GrantCommit

\* The transaction of an erasure.
LEMMA EraseCommitKeeps ==
  ASSUME AccountsInv, NEW p \in Procs, EraseCommit(p)
  PROVE  AccountsInv'
<1> DEFINE u == req[p].user
           over == IF Busy(p, u) THEN history.overlapped \cup {u} ELSE history.overlapped
<1>1. /\ req[p].at = "erasing"
      /\ \A t \in Tokens : token[t].user = u => lock[t] \in {p, Nobody}
      /\ row' = [row EXCEPT ![u] = "erased"] /\ password' = [password EXCEPT ![u] = NoPassword]
      /\ sessions' = {s \in sessions : s.user # u} /\ addresses' = addresses \ {u}
      /\ Return(p)
      /\ settings' = settings /\ verified' = verified /\ admin' = admin
  BY DEF EraseCommit, RowScrubbed, Revoked, Scrubbed, Free, ErasedTokens
<1>2. token' = [t \in Tokens |-> IF token[t].user = u THEN [token[t] EXCEPT !.here = FALSE]
                                                      ELSE token[t]]
  BY DEF EraseCommit, ErasedTokens
<1>3. history' = [history EXCEPT !.erasures[u] = history.erasures[u] + 1, !.overlapped = over]
  BY DEF EraseCommit
<1>4. /\ TableType /\ TokenType /\ history \in HistoryRec /\ req \in [Procs -> ReqRec]
  BY DEF AccountsInv, Types
<1>5. u \in Users /\ ~Gone(u) /\ row[u] # "none"
  BY <1>1, ProcFacts DEF HoldsAccount
<1>6. /\ over \in SUBSET Users /\ history.overlapped \subseteq over
      /\ \A x \in Users \ {u} : x \in over <=> x \in history.overlapped
      /\ \A q \in Procs \ {p} : req[q].user = u => u \in over
  BY <1>4, <1>5 DEF Busy, HistoryRec
<1> HIDE DEF u, over
<1>7. /\ history' \in HistoryRec /\ history'.seen = history.seen /\ history'.uses = history.uses
      /\ history'.born = history.born /\ history'.granted = history.granted
      /\ history'.erasures[u] = history.erasures[u] + 1
      /\ \A x \in Users \ {u} : history'.erasures[x] = history.erasures[x]
      /\ history'.overlapped = over
  <2> DEFINE n == history.erasures[u] + 1
             e == [history.erasures EXCEPT ![u] = n]
  <2>1. history.erasures \in [Users -> Nat] /\ n \in Nat
    BY <1>4, <1>5, SMT DEF HistoryRec
  <2>2. e \in [Users -> Nat] /\ e[u] = n /\ \A x \in Users \ {u} : e[x] = history.erasures[x]
    BY <1>5, <2>1
  <2>3. history' = [[history EXCEPT !.erasures = e] EXCEPT !.overlapped = over]
    BY <1>3, <1>4 DEF HistoryRec
  <2>4. n = history.erasures[u] + 1
    OBVIOUS
  <2> HIDE DEF n, e
  <2>5. /\ history' \in HistoryRec /\ history'.seen = history.seen
        /\ history'.uses = history.uses /\ history'.born = history.born
        /\ history'.granted = history.granted /\ history'.erasures = e
        /\ history'.overlapped = over
    BY <1>4, <1>6, <2>2, <2>3 DEF HistoryRec
  <2> QED BY <2>2, <2>4, <2>5
<1>8. /\ token' \in [Tokens -> TokenRec]
      /\ \A t \in Tokens : /\ token'[t].user = token[t].user
                           /\ token'[t].purpose = token[t].purpose
                           /\ token'[t].used = token[t].used
                           /\ token'[t].here <=> token[t].here /\ token[t].user # u
  BY <1>2, <1>4 DEF TokenType, TokenRec
<1>9. /\ req' = [req EXCEPT ![p] = Idle] /\ Idle \in ReqRec /\ ProcOK(p)'
      /\ lock' \in [Tokens -> Procs \cup {Nobody}]
      /\ \A t \in Tokens : /\ lock[t] = p => lock'[t] = Nobody
                           /\ lock[t] # p => lock'[t] = lock[t]
  BY <1>1, ReturnFacts
<1>10. /\ row'[u] = "erased" /\ password'[u] = NoPassword
       /\ \A x \in Users \ {u} : row'[x] = row[x] /\ password'[x] = password[x]
       /\ TableType' /\ TokenType'
  BY <1>1, <1>4, <1>5, <1>8, <1>9 DEF TableType, TokenType
<1>11. \A t \in Tokens : Dead(t) => ~token'[t].here \/ token'[t].used # "no"
  BY <1>8 DEF Dead
<1>12. Frame({p})
  <2>1. \A q \in Procs \ {p} : req[q].user \in Users =>
          /\ row[req[q].user] = "none" => row'[req[q].user] = "none"
          /\ row'[req[q].user] = "erased" /\ req[q].user \notin history'.overlapped =>
                Gone(req[q].user)
    BY <1>5, <1>6, <1>7, <1>10, SMT DEF Gone
  <2> QED BY <1>1, <1>5, <1>7, <1>8, <1>9, <1>10, <1>11, <2>1 DEF Frame
<1>13. req' \in [Procs -> ReqRec] /\ ProcInv'
  BY <1>9, <1>12, MoveKept
<1>14. TokenInv'
  <2> SUFFICES ASSUME NEW t \in Tokens PROVE TokenOK(t)'
    BY DEF TokenInv
  <2>1. TokenOK(t) /\ history.seen[t] \in SUBSET Tokens
    BY <1>4 DEF AccountsInv, TokenInv, HistoryRec
  <2>2. \A s \in history'.seen[t] : token'[s].user \in Users /\ Dead(s)'
    BY <1>7, <1>8, <1>11, <2>1 DEF TokenOK, Dead
  <2>3. lock'[t] # Nobody => ~(~token'[t].here \/ token'[t].used # "no")
    <3>1. lock'[t] # Nobody => lock'[t] = lock[t] /\ token[t].user # u
      BY <1>1, <1>9
    <3>2. lock[t] # Nobody => token[t].here /\ token[t].used = "no"
      BY LockedAlive DEF Dead
    <3> QED BY <1>8, <3>1, <3>2
  <2>4. token'[t].user \in Users => row'[token'[t].user] # "none"
    BY <1>8, <1>10, <2>1 DEF TokenOK
  <2> QED BY <1>7, <1>8, <2>1, <2>2, <2>3, <2>4 DEF TokenOK, Dead
<1>15. AccountInv'
  <2> SUFFICES ASSUME NEW x \in Users PROVE AccountOK(x)'
    BY DEF AccountInv
  <2>1. AccountOK(x) /\ history.erasures[x] \in Nat
    BY <1>4 DEF AccountsInv, AccountInv, HistoryRec
  <2>2. verified'[x] => \E t \in Tokens : VerifiedBy(x, t)'
    BY <1>1, <1>7, <1>8, <2>1 DEF AccountOK, VerifiedBy
  <2>3. x \in admin' => Justified(x, history.granted[x])'
    BY <1>1, <1>7, <2>1 DEF AccountOK, Justified
  <2>4. CASE x = u
    <3>1. Gone(x)' => history.erasures[x] = 0
      BY <1>5, <1>6, <1>7, <2>1, <2>4 DEF Gone, AccountOK
    <3>2. Gone(x)' => history'.erasures[x] = 1
      BY <1>7, <2>4, <3>1, SMT
    <3>3. Gone(x)' => Emptied(x)'
      BY <1>1, <1>8, <1>10, <2>4, <3>2 DEF Emptied
    <3> QED BY <1>10, <2>2, <2>3, <2>4, <3>3 DEF AccountOK
  <2>5. CASE x # u
    <3>1. Gone(x)' => Emptied(x)'
      BY <1>1, <1>6, <1>7, <1>8, <1>10, <2>1, <2>5, SMT DEF Emptied, AccountOK, Gone
    <3> QED BY <1>7, <1>10, <2>1, <2>2, <2>3, <2>5, <3>1 DEF AccountOK
  <2> QED BY <2>4, <2>5
<1>16. SessionInv'
  BY <1>1, <1>4, <1>7, <1>10, SMT DEF AccountsInv, SessionInv, SessionOK, TableType, SessionRec
<1> QED BY <1>7, <1>10, <1>13, <1>14, <1>15, <1>16 DEF AccountsInv, Types

-----------------------------------------------------------------------------
(* The invariant, and what it says.                                        *)

\* Before the first request there is no account, no token and no process at work.
LEMMA AccountsStarts == Init => AccountsInv
<1> SUFFICES ASSUME Init PROVE AccountsInv
  OBVIOUS
<1>1. /\ settings \in [promote : BOOLEAN, requireVerified : BOOLEAN]
      /\ row = [u \in Users |-> "none"] /\ verified = [u \in Users |-> FALSE]
      /\ password = [u \in Users |-> NoPassword] /\ admin = {} /\ sessions = {}
      /\ addresses = {} /\ token = [t \in Tokens |-> Unissued]
      /\ lock = [t \in Tokens |-> Nobody] /\ req = [p \in Procs |-> Idle]
  BY DEF Init
<1>2. /\ history.seen = [t \in Tokens |-> {}] /\ history.uses = [t \in Tokens |-> <<>>]
      /\ history.born = [u \in Users |-> "none"] /\ history.granted = [u \in Users |-> "none"]
      /\ history.erasures = [u \in Users |-> 0] /\ history.overlapped = {}
      /\ history \in HistoryRec
  BY SMT DEF Init, HistoryRec
<1>3. Types
  BY <1>1, <1>2, ConstantsTyped DEF Types, TableType, TokenType
<1>4. ProcInv
  BY <1>1, IdleOK DEF ProcInv, ProcOK
<1>5. TokenInv
  <2> SUFFICES ASSUME NEW t \in Tokens PROVE TokenOK(t)
    BY DEF TokenInv
  <2>1. token[t] = Unissued /\ lock[t] = Nobody /\ history.seen[t] = {} /\ history.uses[t] = <<>>
    BY <1>1, <1>2
  <2> QED BY <2>1, ConstantsTyped DEF TokenOK
<1>6. AccountInv
  BY <1>1, <1>2 DEF AccountInv, AccountOK, Gone
<1>7. SessionInv
  BY <1>1 DEF SessionInv
<1> QED BY <1>3, <1>4, <1>5, <1>6, <1>7 DEF AccountsInv

\* An arriving request keeps the invariant.
LEMMA ArriveKeeps ==
  ASSUME AccountsInv, NEW p \in Procs, Arrive(p)
  PROVE  AccountsInv'
<1>1. ASSUME NEW pw \in Passwords, RegisterInsert(p, pw) PROVE AccountsInv'
  BY <1>1, RegisterInsertKeeps
<1>2. ASSUME NEW pw \in Passwords, LoginRead(p, pw) PROVE AccountsInv'
  BY <1>2, LoginReadKeeps
<1>3. CASE RequestPasswordReset(p)
  BY <1>3, IssueForKeeps DEF RequestPasswordReset, GetByEmail, Purposes
<1>4. ASSUME NEW u \in Users, RequestEmailVerification(p, u) PROVE AccountsInv'
  BY <1>4, IssueForKeeps DEF RequestEmailVerification, GetById, Purposes
<1>5. ASSUME NEW u \in Users, EraseRead(p, u) PROVE AccountsInv'
  BY <1>5, EraseReadKeeps
<1>6. ASSUME NEW t \in Tokens, NEW purpose \in Purposes, NEW pw \in Passwords,
             ConfirmSelect(p, t, purpose, pw)
      PROVE  AccountsInv'
  BY <1>6, ConfirmSelectKeeps
<1>7. CASE BootstrapLookup(p)
  BY <1>7, BootstrapLookupKeeps
<1> QED BY <1>1, <1>2, <1>3, <1>4, <1>5, <1>6, <1>7 DEF Arrive

\* A step of a request keeps the invariant.
LEMMA ProcessStepKeeps ==
  ASSUME AccountsInv, NEW p \in Procs, Step(p)
  PROVE  AccountsInv'
<1>1. CASE RegisterCommit(p) \/ LoginVerify(p) \/ LoginOpen(p) \/ LoginRecord(p)
  BY <1>1, RegisterCommitKeeps, LoginVerifyKeeps, LoginOpenKeeps, LoginRecordKeeps
<1>2. CASE IssueInvalidate(p) \/ IssueCommit(p) \/ ResetCommit(p) \/ VerifyCommit(p)
  BY <1>2, IssueInvalidateKeeps, IssueCommitKeeps, ResetCommitKeeps, VerifyCommitKeeps
<1>3. CASE BootstrapCheck(p) \/ BootstrapVerify(p) \/ RegisterOrLookup(p) \/ BootstrapCreate(p)
  BY <1>3, BootstrapCheckKeeps, BootstrapVerifyKeeps, RegisterOrLookupKeeps,
     BootstrapCreateKeeps
<1>4. CASE BootstrapPassword(p) \/ GrantRead(p) \/ GrantCommit(p) \/ EraseCommit(p)
  BY <1>4, BootstrapPasswordKeeps, GrantReadKeeps, GrantCommitKeeps, EraseCommitKeeps
<1>5. CASE BootstrapRecord(p) \/ BootstrapReport(p)
  BY <1>5, ReturnKeeps DEF BootstrapRecord, BootstrapReport
<1> QED BY <1>1, <1>2, <1>3, <1>4, <1>5 DEF Step

\* Every step keeps the invariant.
LEMMA AccountsStep == AccountsInv /\ [Next]_vars => AccountsInv'
<1> SUFFICES ASSUME AccountsInv, [Next]_vars PROVE AccountsInv'
  OBVIOUS
<1>1. ASSUME NEW p \in Procs, Arrive(p) PROVE AccountsInv'
  BY <1>1, ArriveKeeps
<1>2. ASSUME NEW p \in Procs, Step(p) PROVE AccountsInv'
  BY <1>2, ProcessStepKeeps
<1>3. ASSUME NEW p \in Procs, Abort(p) PROVE AccountsInv'
  BY <1>3, ReturnKeeps DEF Abort
<1>4. ASSUME NEW t \in Tokens, SendEmail(t) PROVE AccountsInv'
  BY <1>4, StillKeeps DEF SendEmail
<1>5. ASSUME NEW t \in Tokens, Age(t) PROVE AccountsInv'
  BY <1>5, AgeKeeps
<1>6. ASSUME NEW t \in Tokens, PurgeInternal(t) PROVE AccountsInv'
  BY <1>6, PurgeInternalKeeps
<1>7. CASE UNCHANGED vars
  BY <1>7, StillKeeps DEF vars
<1> QED BY <1>1, <1>2, <1>3, <1>4, <1>5, <1>6, <1>7 DEF Next

\* The invariant holds throughout.
LEMMA AccountsAlways == Spec => []AccountsInv
  BY AccountsStarts, AccountsStep, PTL DEF Spec

\* For any number of users, tokens and concurrent requests, the confirm handlers
\* use a token once, for its purpose, and nothing else marks an account verified.
THEOREM TokensAreSingleUse == Spec => []TokenConsumedOnce
<1>1. AccountsInv => TokenConsumedOnce
  <2> SUFFICES ASSUME AccountsInv PROVE TokenConsumedOnce
    OBVIOUS
  <2>1. \A t \in Tokens : history.uses[t] \in {<<>>, <<token[t].purpose>>}
    BY DEF AccountsInv, TokenInv, TokenOK
  <2>2. \A u \in Users : verified[u] =>
           \E t \in Tokens : token[t].user = u /\ history.uses[t] = <<"email_verify">>
    BY DEF AccountsInv, AccountInv, AccountOK, VerifiedBy
  <2> QED BY <2>1, <2>2 DEF TokenConsumedOnce
<1> QED BY <1>1, AccountsAlways, PTL

\* For any number of requests, a token that the invalidation of a later request
\* found is never usable once that request has committed.
THEOREM ReissueEndsEarlierTokens == Spec => []ReissueInvalidates
<1>1. AccountsInv => ReissueInvalidates
  BY DEF AccountsInv, TokenInv, TokenOK, Dead, ReissueInvalidates
<1> QED BY <1>1, AccountsAlways, PTL

\* For any number of logins, resets and bootstraps, a session with a password that
\* is not the account's is a late login's or that of a bootstrapped account, and
\* no session of an unverified account exists where verification is required.
THEOREM SessionsAreJustified == Spec => []SessionsJustified
<1>1. AccountsInv => SessionsJustified
  BY DEF AccountsInv, SessionInv, SessionOK, SessionsJustified
<1> QED BY <1>1, AccountsAlways, PTL

\* For any number of bootstraps racing registrations, the admin tuple is only
\* given for one of the three reasons BootstrapSystemAdmin has.
THEOREM GrantsAreJustified == Spec => []AdminGrantJustified
<1>1. AccountsInv => AdminGrantJustified
  BY DEF AccountsInv, Types, TableType, AccountInv, AccountOK, Justified, AdminGrantJustified
<1> QED BY <1>1, AccountsAlways, PTL

\* For any number of restarts, a bootstrap that looked up an administrator goes no
\* further: it neither refuses the start nor writes a grant.
THEOREM BootstrapRestartsSafely == Spec => []BootstrapIdempotent
<1>1. AccountsInv => BootstrapIdempotent
  BY ProcFacts DEF HoldsGrant, BootstrapIdempotent
<1> QED BY <1>1, AccountsAlways, PTL

\* For any number of accounts and requests, an erasure that nothing on the account
\* overlaps leaves nothing behind, ever, and happens once.
THEOREM ErasureLeavesNothing == Spec => []ErasureComplete
<1>1. AccountsInv => ErasureComplete
  BY DEF AccountsInv, AccountInv, AccountOK, Gone, Emptied, ErasureComplete
<1> QED BY <1>1, AccountsAlways, PTL
=============================================================================
