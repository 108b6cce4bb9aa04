---------------------------- MODULE LimiterProofs ----------------------------
(***************************************************************************)
(* Proofs about Limiter for any set of calls, routes, clients and accounts,*)
(* any window, limits, clock skew and cache size.                          *)
(***************************************************************************)
EXTENDS Limiter, FiniteSetTheorems, TLAPS

CallRec == [todo : Seq(LimitKeys), n : 0 .. MaxCalls, reading : BOOLEAN,
            at : 0 .. MaxClock, seen : SUBSET Attempt]

\* Call number n was admitted by a per-address limiter.
PassedAddress(n) ==
    \E x \in LimitKeys : x.scope = "address" /\ \E d \in admitted[x] : d.n = n

\* What a call may still have to ask: nothing, everything, or its account
\* limiter after its address limiter admitted it.
CallShape(c) ==
    \/ calls[c].todo = <<>>
    \/ /\ \E r \in Routes, i \in Addresses, e \in Emails : calls[c].todo = Checks(r, i, e)
       /\ calls[c].n \in 1 .. MaxCalls
    \/ /\ \E r \in Routes \ {"reset"}, e \in Emails : calls[c].todo = <<AccountKey(r, e)>>
       /\ calls[c].n \in 1 .. MaxCalls
       /\ PassedAddress(calls[c].n)

\* A call that read a list is going to write it, and read a finite one.
ReadShape(c) ==
    /\ calls[c].reading => calls[c].todo # <<>>
    /\ IsFiniteSet(calls[c].seen)

CallInv == \A c \in Calls : CallShape(c) /\ ReadShape(c)

FiniteInv == \A k \in LimitKeys : IsFiniteSet(live[k]) /\ IsFiniteSet(admitted[k])

BaseInv == LimiterTypeOK /\ CallInv /\ FiniteInv

-----------------------------------------------------------------------------
(* The keys a call asks.                                                   *)

\* The limits are positive.
LEMMA LimitPositive == \A k : Limit(k) \in Nat /\ Limit(k) > 0
  BY LimiterAssumption DEF Limit

\* A route asks its address limiter first and at most its account limiter after.
LEMMA ChecksShape ==
  ASSUME NEW r \in Routes, NEW i \in Addresses, NEW e \in Emails
  PROVE  /\ Checks(r, i, e) \in Seq(LimitKeys)
         /\ Checks(r, i, e) # <<>>
         /\ Head(Checks(r, i, e)) \in LimitKeys
         /\ Head(Checks(r, i, e)).scope = "address"
         /\ \/ Tail(Checks(r, i, e)) = <<>>
            \/ r # "reset" /\ Tail(Checks(r, i, e)) = <<AccountKey(r, e)>>
<1>1. AddressKey(r, i, e) \in LimitKeys /\ AddressKey(r, i, e).scope = "address"
  BY DEF LimitKeys, AddressKey
<1>2. r # "reset" => AccountKey(r, e) \in LimitKeys
  BY DEF LimitKeys
<1> DEFINE A == AddressKey(r, i, e)
           B == AccountKey(r, e)
<1>3. A \in LimitKeys /\ A.scope = "address" /\ (r # "reset" => B \in LimitKeys)
  BY <1>1, <1>2
<1>4. Checks(r, i, e) = IF r = "reset" THEN <<A>> ELSE <<A, B>>
  BY Zenon DEF Checks
<1> HIDE DEF A, B
<1>5. CASE r = "reset"
  <2>1. Checks(r, i, e) = <<A>>
    BY <1>4, <1>5
  <2> QED BY <2>1, <1>3
<1>6. CASE r # "reset"
  <2>1. Checks(r, i, e) = <<A, B>>
    BY <1>4, <1>6
  <2>2. Tail(<<A, B>>) = <<B>> /\ Head(<<A, B>>) = A /\ <<A, B>> # <<>>
    OBVIOUS
  <2>3. <<A, B>> \in Seq(LimitKeys)
    BY <1>3, <1>6
  <2> QED BY <2>1, <2>2, <2>3, <1>3, <1>6 DEF B
<1> QED BY <1>5, <1>6

\* The next limiter of a call: its key, what comes after it, and that an account
\* is asked only after an address.
LEMMA NextCheck ==
  ASSUME BaseInv, NEW c \in Calls, calls[c].todo # <<>>
  PROVE  /\ Head(calls[c].todo) \in LimitKeys
         /\ Tail(calls[c].todo) \in Seq(LimitKeys)
         /\ calls[c].n \in 1 .. MaxCalls
         /\ Head(calls[c].todo).scope = "account" => PassedAddress(calls[c].n)
         /\ \/ Tail(calls[c].todo) = <<>>
            \/ /\ Head(calls[c].todo).scope = "address"
               /\ \E r \in Routes \ {"reset"}, e \in Emails :
                     Tail(calls[c].todo) = <<AccountKey(r, e)>>
<1>1. CallShape(c) /\ calls[c].todo \in Seq(LimitKeys)
  BY DEF BaseInv, CallInv, LimiterTypeOK
<1>2. Head(calls[c].todo) \in LimitKeys /\ Tail(calls[c].todo) \in Seq(LimitKeys)
  BY <1>1
<1>3. CASE /\ \E r \in Routes, i \in Addresses, e \in Emails : calls[c].todo = Checks(r, i, e)
           /\ calls[c].n \in 1 .. MaxCalls
  <2>1. PICK r \in Routes, i \in Addresses, e \in Emails : calls[c].todo = Checks(r, i, e)
    BY <1>3
  <2>2. /\ Head(calls[c].todo).scope = "address"
        /\ \/ Tail(calls[c].todo) = <<>>
           \/ r # "reset" /\ Tail(calls[c].todo) = <<AccountKey(r, e)>>
    BY Zenon, <2>1, ChecksShape
  <2>3. "address" # "account"
    OBVIOUS
  <2> QED BY Zenon, <1>2, <1>3, <2>2, <2>3
<1>4. CASE /\ \E r \in Routes \ {"reset"}, e \in Emails : calls[c].todo = <<AccountKey(r, e)>>
           /\ calls[c].n \in 1 .. MaxCalls
           /\ PassedAddress(calls[c].n)
  <2>1. PICK r \in Routes \ {"reset"}, e \in Emails : calls[c].todo = <<AccountKey(r, e)>>
    BY <1>4
  <2>2. Tail(calls[c].todo) = <<>>
    BY <2>1
  <2> QED BY <1>2, <1>4, <2>2
<1> QED BY <1>1, <1>3, <1>4 DEF CallShape

-----------------------------------------------------------------------------
(* Types.                                                                  *)

\* A call in its initial state is well typed.
LEMMA WaitingTyped ==
  /\ Waiting \in CallRec
  /\ Waiting.todo = <<>> /\ Waiting.reading = FALSE /\ Waiting.seen = {}
  BY LimiterAssumption DEF Waiting, CallRec

\* LimiterTypeOK with the record of a call named.
LEMMA CallsTyped == LimiterTypeOK => calls \in [Calls -> CallRec]
  BY DEF LimiterTypeOK, CallRec

\* Replacing one call by a well-typed record keeps the type of the calls and
\* leaves the others alone.
LEMMA CallUpdate ==
  ASSUME LimiterTypeOK, NEW c \in Calls, NEW R \in CallRec,
         calls' = [calls EXCEPT ![c] = R]
  PROVE  /\ calls' \in [Calls -> CallRec]
         /\ calls'[c] = R
         /\ \A b \in Calls \ {c} : calls'[b] = calls[b]
  BY CallsTyped

\* What is recorded of an admitted call is an attempt.
LEMMA NewTyped ==
  ASSUME NEW s \in 0 .. MaxClock + MaxSkew, NEW a \in 0 .. MaxClock, NEW n \in 1 .. MaxCalls
  PROVE  [score |-> s, at |-> a, n |-> n] \in Attempt
  BY Zenon DEF Attempt

\* An instant is also a score, whatever the skew.
LEMMA ScoreTyped ==
  ASSUME NEW a \in 0 .. MaxClock, NEW d \in 0 .. MaxSkew
  PROVE  a + d \in 0 .. MaxClock + MaxSkew /\ a \in 0 .. MaxClock + MaxSkew
  BY LimiterAssumption

\* The record of a call after each kind of step.
LEMMA ProceedTyped ==
  ASSUME BaseInv, NEW c \in Calls, calls[c].todo # <<>>
  PROVE  LET R == [Waiting EXCEPT !.todo = Tail(calls[c].todo), !.n = calls[c].n]
         IN  /\ R \in CallRec
             /\ R.todo = Tail(calls[c].todo) /\ R.n = calls[c].n
             /\ R.reading = FALSE /\ R.seen = {}
<1>1. Tail(calls[c].todo) \in Seq(LimitKeys) /\ calls[c].n \in 1 .. MaxCalls
  BY NextCheck
<1>2. calls[c].n \in 0 .. MaxCalls /\ 0 \in 0 .. MaxClock
  BY <1>1, LimiterAssumption
<1> QED BY <1>1, <1>2, Zenon DEF Waiting, CallRec

\* The record of a call that has just arrived.
LEMMA ArriveTyped ==
  ASSUME LimiterTypeOK, serial < MaxCalls,
         NEW r \in Routes, NEW i \in Addresses, NEW e \in Emails
  PROVE  LET R == [Waiting EXCEPT !.todo = Checks(r, i, e), !.n = serial + 1]
         IN  /\ R \in CallRec
             /\ R.todo = Checks(r, i, e) /\ R.n = serial + 1 /\ R.n \in 1 .. MaxCalls
             /\ R.reading = FALSE /\ R.seen = {}
<1>1. Checks(r, i, e) \in Seq(LimitKeys)
  BY ChecksShape
<1>2. serial + 1 \in 1 .. MaxCalls /\ serial + 1 \in 0 .. MaxCalls /\ 0 \in 0 .. MaxClock
  BY LimiterAssumption DEF LimiterTypeOK
<1> QED BY <1>1, <1>2, Zenon DEF Waiting, CallRec

-----------------------------------------------------------------------------
(* What a step does to the calls.                                          *)

\* What was admitted stays admitted.
Grows == \A k \in LimitKeys : admitted[k] \subseteq admitted'[k]

\* If one call changes and nothing admitted is forgotten, the other calls keep
\* their shape.
LEMMA OthersKeepShape ==
  ASSUME BaseInv, NEW c \in Calls, Grows,
         \A b \in Calls \ {c} : calls'[b] = calls[b],
         CallShape(c)', ReadShape(c)'
  PROVE  CallInv'
<1> SUFFICES ASSUME NEW b \in Calls, b # c
             PROVE  CallShape(b)' /\ ReadShape(b)'
  BY DEF CallInv
<1>1. CallShape(b) /\ ReadShape(b) /\ calls'[b] = calls[b]
  BY DEF BaseInv, CallInv
<1>2. PassedAddress(calls[b].n) => PassedAddress(calls[b].n)'
  BY <1>1 DEF PassedAddress, Grows
<1>3. ReadShape(b)'
  BY <1>1 DEF ReadShape
<1>4. CallShape(b)'
  BY Zenon, <1>1, <1>2 DEF CallShape
<1> QED BY <1>3, <1>4

\* A call that is refused asks nothing any more.
LEMMA RefuseKeepsShape ==
  ASSUME BaseInv, NEW c \in Calls, Grows, calls' = Refuse(c)
  PROVE  CallInv' /\ calls' \in [Calls -> CallRec]
<1>1. calls' = [calls EXCEPT ![c] = Waiting]
  BY DEF Refuse
<1>2. /\ calls' \in [Calls -> CallRec] /\ calls'[c] = Waiting
      /\ \A b \in Calls \ {c} : calls'[b] = calls[b]
  BY <1>1, WaitingTyped, CallUpdate, Zenon DEF BaseInv
<1>3. CallShape(c)'
  BY Zenon, <1>2, WaitingTyped DEF CallShape
<1>4. ReadShape(c)'
  BY <1>2, WaitingTyped, FS_EmptySet DEF ReadShape
<1> QED BY <1>2, <1>3, <1>4, OthersKeepShape

\* A call that is admitted goes on to its account limiter or to its use case.
LEMMA ProceedKeepsShape ==
  ASSUME BaseInv, NEW c \in Calls, calls[c].todo # <<>>, calls' = Proceed(c),
         NEW new \in Attempt, new.n = calls[c].n,
         admitted' = [admitted EXCEPT ![Head(calls[c].todo)] = @ \cup {new}]
  PROVE  CallInv' /\ calls' \in [Calls -> CallRec] /\ Grows
<1> DEFINE k == Head(calls[c].todo)
           R == [Waiting EXCEPT !.todo = Tail(calls[c].todo), !.n = calls[c].n]
<1>1. /\ k \in LimitKeys /\ calls[c].n \in 1 .. MaxCalls
      /\ \/ Tail(calls[c].todo) = <<>>
         \/ /\ k.scope = "address"
            /\ \E r \in Routes \ {"reset"}, e \in Emails :
                  Tail(calls[c].todo) = <<AccountKey(r, e)>>
  BY NextCheck
<1>2. /\ R \in CallRec /\ R.todo = Tail(calls[c].todo) /\ R.n = calls[c].n
      /\ R.reading = FALSE /\ R.seen = {}
  BY ProceedTyped, Zenon
<1>3. calls' = [calls EXCEPT ![c] = R]
  BY DEF Proceed
<1> HIDE DEF R
<1>4. /\ calls' \in [Calls -> CallRec] /\ calls'[c] = R
      /\ \A b \in Calls \ {c} : calls'[b] = calls[b]
  BY <1>2, <1>3, CallUpdate, Zenon DEF BaseInv
<1>5. Grows /\ new \in admitted'[k]
  BY <1>1 DEF BaseInv, LimiterTypeOK, Grows
<1>6. CallShape(c)'
  <2>1. CASE R.todo = <<>>
    BY Zenon, <2>1, <1>4 DEF CallShape
  <2>2. CASE /\ k.scope = "address"
             /\ \E r \in Routes \ {"reset"}, e \in Emails : R.todo = <<AccountKey(r, e)>>
    <3>1. calls'[c].n = calls[c].n /\ calls'[c].todo = R.todo
      BY <1>2, <1>4
    <3>2. PassedAddress(calls[c].n)'
      BY <1>1, <1>5, <2>2, <3>1 DEF PassedAddress
    <3> QED BY Zenon, <1>1, <2>2, <3>1, <3>2 DEF CallShape
  <2> QED BY Zenon, <1>1, <1>2, <2>1, <2>2
<1>7. ReadShape(c)'
  BY <1>2, <1>4, FS_EmptySet, Zenon DEF ReadShape
<1> QED BY <1>4, <1>5, <1>6, <1>7, OthersKeepShape

-----------------------------------------------------------------------------
(* The base invariant.                                                     *)

\* No call is in flight and nothing was admitted yet.
LEMMA BaseInit == LimiterInit => BaseInv
<1> SUFFICES ASSUME LimiterInit PROVE BaseInv
  OBVIOUS
<1>1. calls \in [Calls -> CallRec] /\ \A c \in Calls : calls[c] = Waiting
  BY WaitingTyped DEF LimiterInit
<1>2. LimiterTypeOK
  BY <1>1, LimiterAssumption DEF LimiterInit, LimiterTypeOK, CallRec
<1>3. CallInv
  BY <1>1, WaitingTyped, FS_EmptySet DEF CallInv, CallShape, ReadShape
<1>4. FiniteInv
  BY FS_EmptySet DEF FiniteInv, LimiterInit
<1> QED BY <1>2, <1>3, <1>4 DEF BaseInv

\* A check that admits records the attempt for its key.
LEMMA AdmitKeeps ==
  ASSUME BaseInv, NEW c \in Calls, calls[c].todo # <<>>,
         NEW new \in Attempt, new.n = calls[c].n,
         admitted' = [admitted EXCEPT ![Head(calls[c].todo)] = @ \cup {new}]
  PROVE  /\ admitted' \in [LimitKeys -> SUBSET Attempt]
         /\ \A k \in LimitKeys : IsFiniteSet(admitted'[k])
         /\ RefusedChargesNobody => RefusedChargesNobody'
<1> DEFINE k == Head(calls[c].todo)
<1>1. k \in LimitKeys /\ (k.scope = "account" => PassedAddress(new.n))
  BY NextCheck
<1> HIDE DEF k
<1>2. /\ admitted' = [admitted EXCEPT ![k] = @ \cup {new}]
      /\ admitted \in [LimitKeys -> SUBSET Attempt]
  BY DEF k, BaseInv, LimiterTypeOK
<1>3. admitted' \in [LimitKeys -> SUBSET Attempt]
  BY <1>2, Zenon
<1>4. ASSUME NEW j \in LimitKeys PROVE IsFiniteSet(admitted'[j])
  <2>1. IsFiniteSet(admitted[j]) /\ IsFiniteSet(admitted[j] \cup {new})
    BY FS_AddElement, Zenon DEF BaseInv, FiniteInv
  <2>2. admitted'[j] = admitted[j] \/ admitted'[j] = admitted[j] \cup {new}
    BY <1>1, <1>2
  <2> QED BY <2>1, <2>2, Zenon
<1>5. ASSUME RefusedChargesNobody PROVE RefusedChargesNobody'
  <2> SUFFICES ASSUME NEW j \in LimitKeys, NEW e \in admitted'[j], j.scope = "account"
               PROVE  \E x \in LimitKeys : x.scope = "address" /\ \E d \in admitted'[x] : d.n = e.n
    BY DEF RefusedChargesNobody
  <2>1. \A x \in LimitKeys : admitted[x] \subseteq admitted'[x]
    BY <1>1, <1>2
  <2>2. \E x \in LimitKeys : x.scope = "address" /\ \E d \in admitted[x] : d.n = e.n
    <3>1. CASE e \in admitted[j]
      BY <3>1, <1>5 DEF RefusedChargesNobody
    <3>2. CASE e \notin admitted[j]
      <4>1. j = k /\ e = new
        BY <1>1, <1>2, <3>2
      <4> QED BY <4>1, <1>1 DEF PassedAddress
    <3> QED BY <3>1, <3>2
  <2> QED BY <2>1, <2>2
<1> QED BY <1>3, <1>4, <1>5, Zenon

\* What every step has to keep.
Kept == BaseInv' /\ (RefusedChargesNobody => RefusedChargesNobody')

\* A step that admits nothing keeps RefusedChargesNobody.
LEMMA SameAdmitted ==
  ASSUME admitted' = admitted, RefusedChargesNobody
  PROVE  RefusedChargesNobody'
  BY DEF RefusedChargesNobody

\* A request reaches its route.
LEMMA ArriveKeeps ==
  ASSUME BaseInv, NEW c \in Calls, NEW r \in Routes, NEW i \in Addresses, NEW e \in Emails,
         Arrive(c, r, i, e)
  PROVE  Kept
<1> DEFINE R == [Waiting EXCEPT !.todo = Checks(r, i, e), !.n = serial + 1]
<1>1. /\ R \in CallRec /\ R.todo = Checks(r, i, e) /\ R.n \in 1 .. MaxCalls
      /\ R.reading = FALSE /\ R.seen = {}
  BY ArriveTyped, Zenon DEF Arrive, BaseInv
<1>2. calls' = [calls EXCEPT ![c] = R]
  BY DEF Arrive
<1> HIDE DEF R
<1>3. /\ calls' \in [Calls -> CallRec] /\ calls'[c] = R
      /\ \A b \in Calls \ {c} : calls'[b] = calls[b]
  BY <1>1, <1>2, CallUpdate, Zenon DEF BaseInv
<1>4. CallShape(c)'
  <2>1. calls'[c].todo = Checks(r, i, e) /\ calls'[c].n \in 1 .. MaxCalls
    BY <1>1, <1>3
  <2> QED BY Zenon, <2>1 DEF CallShape
<1>5. ReadShape(c)'
  BY <1>1, <1>3, FS_EmptySet, Zenon DEF ReadShape
<1>6. Grows /\ admitted' = admitted
  BY DEF Arrive, Grows
<1>7. CallInv'
  BY <1>3, <1>4, <1>5, <1>6, OthersKeepShape
<1>8. LimiterTypeOK'
  BY <1>3, LimiterAssumption DEF BaseInv, LimiterTypeOK, Arrive, CallRec
<1>9. FiniteInv'
  BY DEF BaseInv, FiniteInv, Arrive
<1> QED BY <1>6, <1>7, <1>8, <1>9, SameAdmitted DEF Kept, BaseInv

\* The script admits or refuses.
LEMMA RedisKeeps ==
  ASSUME BaseInv, NEW c \in Calls, RedisCheck(c)
  PROVE  Kept
<1> DEFINE k == Head(calls[c].todo)
           t == clock + Skew[c]
           kept == {e \in live[k] : InWindow(e, t)}
           new == [score |-> t, at |-> clock, n |-> calls[c].n]
<1>1. k \in LimitKeys /\ calls[c].n \in 1 .. MaxCalls /\ calls[c].todo # <<>>
  BY NextCheck DEF RedisCheck
<1>2. new \in Attempt /\ new.n = calls[c].n
  <2>1. clock \in 0 .. MaxClock /\ Skew[c] \in 0 .. MaxSkew
    BY LimiterAssumption DEF BaseInv, LimiterTypeOK
  <2>2. t \in 0 .. MaxClock + MaxSkew
    BY <2>1, ScoreTyped
  <2> HIDE DEF t
  <2> QED BY <1>1, <2>1, <2>2, NewTyped
<1>3. /\ IsFiniteSet(kept) /\ IsFiniteSet(kept \cup {new})
      /\ kept \in SUBSET Attempt /\ kept \cup {new} \in SUBSET Attempt
  <2>1. kept \in SUBSET live[k] /\ IsFiniteSet(live[k]) /\ live[k] \in SUBSET Attempt
    BY <1>1 DEF BaseInv, FiniteInv, LimiterTypeOK
  <2> HIDE DEF kept, new
  <2> QED BY <1>2, <2>1, FS_Subset, FS_AddElement
<1>4. live' = [live EXCEPT ![k] = kept] \/ live' = [live EXCEPT ![k] = kept \cup {new}]
  BY DEF RedisCheck
<1>5. \/ calls' = Refuse(c) /\ admitted' = admitted
      \/ /\ calls' = Proceed(c)
         /\ admitted' = [admitted EXCEPT ![k] = @ \cup {new}]
  BY DEF RedisCheck
<1> HIDE DEF kept, new
<1>6. live' \in [LimitKeys -> SUBSET Attempt] /\ \A j \in LimitKeys : IsFiniteSet(live'[j])
  BY <1>1, <1>3, <1>4, Zenon DEF BaseInv, LimiterTypeOK, FiniteInv
<1>7. /\ CallInv' /\ calls' \in [Calls -> CallRec]
      /\ admitted' \in [LimitKeys -> SUBSET Attempt]
      /\ \A j \in LimitKeys : IsFiniteSet(admitted'[j])
      /\ RefusedChargesNobody => RefusedChargesNobody'
  <2>1. CASE calls' = Refuse(c) /\ admitted' = admitted
    BY <2>1, RefuseKeepsShape, SameAdmitted DEF Grows, BaseInv, FiniteInv, LimiterTypeOK
  <2>2. CASE calls' = Proceed(c) /\ admitted' = [admitted EXCEPT ![k] = @ \cup {new}]
    BY <1>1, <1>2, <2>2, ProceedKeepsShape, AdmitKeeps, Zenon
  <2> QED BY <1>5, <2>1, <2>2
<1>8. LimiterTypeOK'
  BY <1>6, <1>7 DEF RedisCheck, BaseInv, LimiterTypeOK, CallRec
<1> QED BY <1>6, <1>7, <1>8 DEF Kept, BaseInv, FiniteInv

\* A call in the process reads the list of its key.
LEMMA ReadKeeps ==
  ASSUME BaseInv, NEW c \in Calls, ProcessRead(c)
  PROVE  Kept
<1> DEFINE k == Head(calls[c].todo)
           S == {e \in live[k] : e.score >= clock - Window}
           R == [calls[c] EXCEPT !.reading = TRUE, !.at = clock, !.seen = S]
<1>1. k \in LimitKeys /\ calls[c].todo # <<>>
  BY NextCheck DEF ProcessRead
<1>2. S \in SUBSET Attempt /\ IsFiniteSet(S)
  <2>1. S \in SUBSET live[k] /\ IsFiniteSet(live[k]) /\ live[k] \in SUBSET Attempt
    BY <1>1 DEF BaseInv, FiniteInv, LimiterTypeOK
  <2> HIDE DEF S
  <2> QED BY <2>1, FS_Subset
<1>3. calls' = [calls EXCEPT ![c] = R]
  BY CallsTyped, Zenon DEF ProcessRead, BaseInv, CallRec
<1> HIDE DEF S, k
<1>4. /\ R \in CallRec /\ R.todo = calls[c].todo /\ R.n = calls[c].n /\ R.seen = S
  BY <1>2, CallsTyped, Zenon DEF BaseInv, CallRec, LimiterTypeOK
<1> HIDE DEF R
<1>5. /\ calls' \in [Calls -> CallRec] /\ calls'[c] = R
      /\ \A b \in Calls \ {c} : calls'[b] = calls[b]
  BY <1>3, <1>4, CallUpdate, Zenon DEF BaseInv
<1>6. admitted' = admitted /\ Grows
  BY DEF ProcessRead, Grows
<1>7. CallShape(c)'
  <2>1. CallShape(c) /\ calls'[c].todo = calls[c].todo /\ calls'[c].n = calls[c].n
    BY <1>4, <1>5 DEF BaseInv, CallInv
  <2>2. PassedAddress(calls[c].n) => PassedAddress(calls[c].n)'
    BY <1>6, <2>1 DEF PassedAddress
  <2> QED BY Zenon, <2>1, <2>2 DEF CallShape
<1>8. ReadShape(c)'
  BY <1>1, <1>2, <1>4, <1>5 DEF ReadShape
<1>9. CallInv'
  BY <1>5, <1>6, <1>7, <1>8, OthersKeepShape
<1>10. LimiterTypeOK' /\ FiniteInv'
  BY <1>5, Zenon DEF ProcessRead, BaseInv, LimiterTypeOK, CallRec, FiniteInv
<1> QED BY <1>6, <1>9, <1>10, SameAdmitted DEF Kept, BaseInv

\* A call in the process writes the list back.
LEMMA WriteKeeps ==
  ASSUME BaseInv, NEW c \in Calls, ProcessWrite(c)
  PROVE  Kept
<1> DEFINE k == Head(calls[c].todo)
           seen == calls[c].seen
           new == [score |-> calls[c].at, at |-> calls[c].at, n |-> calls[c].n]
           written == IF AtLimit(seen, k) THEN seen ELSE seen \cup {new}
<1>1. /\ calls[c].todo # <<>> /\ calls[c] \in CallRec /\ IsFiniteSet(seen)
  BY CallsTyped DEF ProcessWrite, BaseInv, CallInv, ReadShape
<1>2. k \in LimitKeys /\ calls[c].n \in 1 .. MaxCalls
  BY <1>1, NextCheck
<1>3. new \in Attempt /\ new.n = calls[c].n
  <2>1. calls[c].at \in 0 .. MaxClock /\ 0 \in 0 .. MaxSkew
    BY <1>1, LimiterAssumption DEF CallRec
  <2>2. calls[c].at \in 0 .. MaxClock + MaxSkew
    BY <2>1, ScoreTyped
  <2> QED BY <1>2, <2>1, <2>2, NewTyped
<1>4. written \in SUBSET Attempt /\ IsFiniteSet(written)
  <2>1. seen \in SUBSET Attempt
    BY <1>1 DEF CallRec
  <2> HIDE DEF seen, new
  <2> QED BY <1>1, <1>3, <2>1, FS_AddElement
<1>5. PICK gone \in Victims(k) :
        /\ live' = [x \in LimitKeys |-> IF x = k THEN written
                                        ELSE IF x \in gone THEN {} ELSE live[x]]
        /\ disturbed' = disturbed \cup gone \cup
              (IF \E e \in admitted[k] \ seen : e.at >= calls[c].at - Window
               THEN {k} ELSE {})
  BY DEF ProcessWrite
<1>6. gone \subseteq LimitKeys
  BY DEF Victims
<1>7. \/ calls' = Refuse(c) /\ admitted' = [admitted EXCEPT ![k] = @]
      \/ calls' = Proceed(c) /\ admitted' = [admitted EXCEPT ![k] = @ \cup {new}]
  BY Zenon DEF ProcessWrite
<1> HIDE DEF written, new, seen
<1>8. live' \in [LimitKeys -> SUBSET Attempt] /\ \A j \in LimitKeys : IsFiniteSet(live'[j])
  BY <1>4, <1>5, FS_EmptySet DEF BaseInv, LimiterTypeOK, FiniteInv
<1>9. disturbed' \subseteq LimitKeys
  BY <1>2, <1>5, <1>6 DEF BaseInv, LimiterTypeOK
<1>10. /\ CallInv' /\ calls' \in [Calls -> CallRec]
       /\ admitted' \in [LimitKeys -> SUBSET Attempt]
       /\ \A j \in LimitKeys : IsFiniteSet(admitted'[j])
       /\ RefusedChargesNobody => RefusedChargesNobody'
  <2>1. CASE calls' = Refuse(c) /\ admitted' = [admitted EXCEPT ![k] = @]
    <3>1. admitted' = admitted
      BY <1>2, <2>1 DEF BaseInv, LimiterTypeOK
    <3> QED
      BY <2>1, <3>1, RefuseKeepsShape, SameAdmitted, Zenon DEF Grows, BaseInv, FiniteInv, LimiterTypeOK
  <2>2. CASE calls' = Proceed(c) /\ admitted' = [admitted EXCEPT ![k] = @ \cup {new}]
    BY <1>1, <1>2, <1>3, <2>2, ProceedKeepsShape, AdmitKeeps, Zenon
  <2> QED BY <1>7, <2>1, <2>2
<1>11. LimiterTypeOK'
  BY <1>8, <1>9, <1>10 DEF ProcessWrite, BaseInv, LimiterTypeOK, CallRec
<1> QED BY <1>8, <1>10, <1>11 DEF Kept, BaseInv, FiniteInv

\* A key expires, or time passes.
LEMMA QuietKeeps ==
  ASSUME BaseInv, (\E k \in LimitKeys : ExpireKey(k)) \/ PassSecond
  PROVE  Kept
<1>1. calls' = calls /\ admitted' = admitted
  BY DEF ExpireKey, PassSecond
<1>2. live' \in [LimitKeys -> SUBSET Attempt] /\ \A j \in LimitKeys : IsFiniteSet(live'[j])
  BY FS_EmptySet, Zenon DEF BaseInv, LimiterTypeOK, FiniteInv, ExpireKey, PassSecond
<1>3. LimiterTypeOK'
  <2>1. clock' \in 0 .. MaxClock
    BY LimiterAssumption DEF BaseInv, LimiterTypeOK, ExpireKey, PassSecond
  <2> QED BY <1>1, <1>2, <2>1 DEF BaseInv, LimiterTypeOK, ExpireKey, PassSecond
<1>4. CallInv'
  BY <1>1 DEF BaseInv, CallInv, CallShape, ReadShape, PassedAddress
<1>5. FiniteInv'
  BY <1>1, <1>2 DEF BaseInv, FiniteInv
<1> QED BY <1>1, <1>3, <1>4, <1>5, SameAdmitted DEF Kept, BaseInv

\* Every step keeps the base invariant.
LEMMA BaseStep ==
  ASSUME BaseInv, [LimiterNext]_limitVars
  PROVE  Kept
<1>1. CASE \E c \in Calls, r \in Routes, i \in Addresses, e \in Emails : Arrive(c, r, i, e)
  BY <1>1, ArriveKeeps
<1>2. CASE \E c \in Calls : RedisCheck(c) \/ ProcessRead(c) \/ ProcessWrite(c)
  BY <1>2, RedisKeeps, ReadKeeps, WriteKeeps
<1>3. CASE (\E k \in LimitKeys : ExpireKey(k)) \/ PassSecond
  BY <1>3, QuietKeeps
<1>4. CASE UNCHANGED limitVars
  BY <1>4 DEF limitVars, Kept, BaseInv, LimiterTypeOK, CallInv, CallShape, ReadShape,
              PassedAddress, FiniteInv, RefusedChargesNobody
<1> QED BY Zenon, <1>1, <1>2, <1>3, <1>4 DEF LimiterNext

\* The types of the limiter, in every reachable state.
THEOREM LimiterTypesHold == LimiterSpec => []LimiterTypeOK
<1>1. LimiterInit => BaseInv
  BY BaseInit
<1>2. BaseInv /\ [LimiterNext]_limitVars => BaseInv'
  BY BaseStep DEF Kept
<1>3. BaseInv => LimiterTypeOK
  BY DEF BaseInv
<1> QED BY <1>1, <1>2, <1>3, PTL DEF LimiterSpec

\* An account is charged only for a call that its address limiter admitted
\* (the order of the two checks in the routes of auth.py).
THEOREM RefusedChargesNobodyHolds == LimiterSpec => []RefusedChargesNobody
<1>1. LimiterInit => BaseInv /\ RefusedChargesNobody
  BY BaseInit DEF LimiterInit, RefusedChargesNobody
<1>2. BaseInv /\ RefusedChargesNobody /\ [LimiterNext]_limitVars
        => BaseInv' /\ RefusedChargesNobody'
  BY BaseStep DEF Kept
<1> QED BY <1>1, <1>2, PTL DEF LimiterSpec

-----------------------------------------------------------------------------
(* The limit on Redis.                                                     *)

\* What the script relies on, for one key: it holds only what it admitted; an
\* admitted attempt carries a time that was right up to the skew; and one it
\* dropped left the shortened window before now.
RedisKey(k) ==
    /\ live[k] \subseteq admitted[k]
    /\ \A e \in admitted[k] : e.at <= clock /\ e.at <= e.score
    /\ \A e \in admitted[k] \ live[k] : e.at + (Window - MaxSkew) <= clock
    /\ \A s \in 0 .. MaxClock : Cardinality(Between(k, s, Window - MaxSkew)) <= Limit(k)

RedisInv == limiter = "redis" => \A k \in LimitKeys : RedisKey(k)

\* If every attempt of the set S that lies in a stretch is one of T, and T has
\* room, then one more attempt still fits the stretch.
LEMMA OneMoreFits ==
  ASSUME NEW T, IsFiniteSet(T), NEW x, NEW B, B \subseteq T \cup {x},
         NEW n \in Nat, Cardinality(T) < n
  PROVE  Cardinality(B) <= n
<1>1. IsFiniteSet(T \cup {x}) /\ Cardinality(T) \in Nat
      /\ Cardinality(T \cup {x}) \in {Cardinality(T), Cardinality(T) + 1}
  BY FS_AddElement, FS_CardinalityType
<1>2. IsFiniteSet(B) /\ Cardinality(B) <= Cardinality(T \cup {x}) /\ Cardinality(B) \in Nat
  BY <1>1, FS_Subset, FS_CardinalityType
<1> QED BY <1>1, <1>2

\* An attempt whose time is in the past keeps satisfying RedisKey when only the
\* clock and the set the limiter holds change.
LEMMA RedisDrop ==
  ASSUME BaseInv, NEW k \in LimitKeys, RedisKey(k), admitted'[k] = admitted[k],
         clock' \in 0 .. MaxClock, clock <= clock', live'[k] \subseteq live[k],
         \A e \in live[k] \ live'[k] : e.at + (Window - MaxSkew) <= clock'
  PROVE  RedisKey(k)'
<1>1. /\ admitted[k] \in SUBSET Attempt /\ clock \in 0 .. MaxClock
      /\ Window \in Nat /\ MaxSkew \in Nat /\ MaxClock \in Nat
  BY LimiterAssumption DEF BaseInv, LimiterTypeOK
<1>2. \A e \in admitted[k] : e.at \in Nat /\ e.score \in Nat
  BY <1>1, LimiterAssumption DEF Attempt
<1>3. \A s : Between(k, s, Window - MaxSkew)' = Between(k, s, Window - MaxSkew)
  BY DEF Between
<1>4. \A e \in admitted'[k] : e.at <= clock' /\ e.at <= e.score
  BY <1>1, <1>2 DEF RedisKey
<1>5. \A e \in admitted'[k] \ live'[k] : e.at + (Window - MaxSkew) <= clock'
  BY <1>1, <1>2 DEF RedisKey
<1>6. \A s \in 0 .. MaxClock : Cardinality(Between(k, s, Window - MaxSkew)') <= Limit(k)
  BY <1>3 DEF RedisKey
<1> QED BY <1>4, <1>5, <1>6 DEF RedisKey

\* The script keeps RedisKey, for the key it is run on and for the others.
LEMMA RedisCheckKeeps ==
  ASSUME BaseInv, NEW c \in Calls, RedisCheck(c), NEW j \in LimitKeys, RedisKey(j)
  PROVE  RedisKey(j)'
<1> DEFINE k == Head(calls[c].todo)
           t == clock + Skew[c]
           kept == {e \in live[k] : InWindow(e, t)}
           new == [score |-> t, at |-> clock, n |-> calls[c].n]
           w == Window - MaxSkew
<1>1. k \in LimitKeys
  BY NextCheck DEF RedisCheck
<1>2. /\ clock \in 0 .. MaxClock /\ Skew[c] \in 0 .. MaxSkew /\ clock' = clock
      /\ Window \in Nat /\ MaxSkew \in Nat /\ MaxClock \in Nat
      /\ admitted \in [LimitKeys -> SUBSET Attempt] /\ live \in [LimitKeys -> SUBSET Attempt]
  BY LimiterAssumption DEF BaseInv, LimiterTypeOK, RedisCheck
<1>3. t \in Nat /\ clock <= t /\ t <= clock + MaxSkew /\ w \in Int
  BY <1>2
<1>4. \A e \in admitted[j] : e.at \in Nat /\ e.score \in Nat /\ e.at <= clock /\ e.at <= e.score
  BY <1>2, LimiterAssumption DEF Attempt, RedisKey
<1>5. \A e \in live[k] \ kept : e.score <= t - Window
  <2>1. \A e \in live[k] : e.score \in Nat
    BY <1>1, <1>2, LimiterAssumption DEF Attempt
  <2> QED BY <1>2, <1>3, <2>1 DEF InWindow
<1>6. \/ live' = [live EXCEPT ![k] = kept] /\ admitted' = admitted
      \/ /\ Cardinality(kept) < Limit(k)
         /\ live' = [live EXCEPT ![k] = kept \cup {new}]
         /\ admitted' = [admitted EXCEPT ![k] = @ \cup {new}]
  BY DEF RedisCheck
<1>7. kept \subseteq live[k] /\ new.at = clock /\ new.score = t
  OBVIOUS
<1>8. k = j => \A e \in live[j] \ kept : e.at + w <= clock
  BY <1>2, <1>3, <1>4, <1>5 DEF RedisKey
<1> HIDE DEF kept, new, t, k, w
<1>9. CASE j # k
  <2>1. live'[j] = live[j] /\ admitted'[j] = admitted[j]
    BY <1>1, <1>2, <1>6, <1>9
  <2> QED BY <1>2, <2>1, RedisDrop
<1>10. CASE j = k /\ admitted' = admitted /\ live' = [live EXCEPT ![k] = kept]
  <2>1. live'[j] = kept /\ admitted'[j] = admitted[j]
    BY <1>1, <1>2, <1>10
  <2> QED BY <1>2, <1>7, <1>8, <1>10, <2>1, RedisDrop DEF w
<1>11. CASE /\ j = k /\ Cardinality(kept) < Limit(k)
            /\ live' = [live EXCEPT ![k] = kept \cup {new}]
            /\ admitted' = [admitted EXCEPT ![k] = @ \cup {new}]
  <2>1. live'[j] = kept \cup {new} /\ admitted'[j] = admitted[j] \cup {new}
    BY <1>1, <1>2, <1>11
  <2>2. live'[j] \subseteq admitted'[j]
    BY <1>7, <1>11, <2>1 DEF RedisKey
  <2>3. \A e \in admitted'[j] : e.at <= clock' /\ e.at <= e.score
    BY <1>2, <1>3, <1>4, <1>7, <2>1
  <2>4. \A e \in admitted[j] \ kept : e.at + w <= clock
    BY <1>8, <1>11 DEF RedisKey, w
  <2>5. \A e \in admitted'[j] \ live'[j] : e.at + w <= clock'
    BY <1>2, <2>1, <2>4
  <2>6. ASSUME NEW s \in 0 .. MaxClock
        PROVE  Cardinality(Between(j, s, w)') <= Limit(j)
    <3> DEFINE old == Between(j, s, w)
               more == Between(j, s, w)'
    <3>1. more = {e \in admitted'[j] : s <= e.at /\ e.at < s + w}
      BY DEF Between, w
    <3>2. old = {e \in admitted[j] : s <= e.at /\ e.at < s + w}
      BY DEF Between
    <3>3. CASE s <= clock /\ clock < s + w
      <4>1. old \subseteq kept
        BY <1>2, <1>3, <1>4, <2>4, <3>2, <3>3
      <4>2. more \subseteq kept \cup {new}
        BY <2>1, <3>1, <3>2, <4>1
      <4>3. IsFiniteSet(kept)
        BY <1>1, <1>7, FS_Subset DEF BaseInv, FiniteInv
      <4> HIDE DEF old, more
      <4> QED BY <1>11, <4>2, <4>3, OneMoreFits, LimitPositive, Zenon DEF more
    <3>4. CASE ~(s <= clock /\ clock < s + w)
      <4>1. more = old
        BY <1>7, <2>1, <3>1, <3>2, <3>4
      <4> QED BY <4>1 DEF RedisKey, w
    <3> QED BY <3>3, <3>4
  <2> QED BY <2>2, <2>3, <2>5, <2>6 DEF RedisKey, w
<1> QED BY <1>6, <1>9, <1>10, <1>11

\* Every step keeps RedisInv.
LEMMA RedisStep ==
  ASSUME BaseInv, RedisInv, [LimiterNext]_limitVars
  PROVE  RedisInv'
<1> SUFFICES ASSUME limiter' = "redis", NEW k \in LimitKeys
             PROVE  RedisKey(k)'
  BY DEF RedisInv
<1>1. limiter = "redis"
  BY Zenon DEF LimiterNext, Arrive, RedisCheck, ProcessRead, ProcessWrite, ExpireKey, PassSecond,
         limitVars
<1>2. RedisKey(k) /\ clock \in 0 .. MaxClock /\ clock' \in 0 .. MaxClock
  BY <1>1, BaseStep DEF RedisInv, Kept, BaseInv, LimiterTypeOK
<1>3. CASE \E c \in Calls : RedisCheck(c)
  BY <1>2, <1>3, RedisCheckKeeps
<1>4. CASE \E j \in LimitKeys : ExpireKey(j)
  <2>1. PICK j \in LimitKeys : ExpireKey(j)
    BY <1>4
  <2>2. /\ admitted'[k] = admitted[k] /\ clock' = clock
        /\ live' = [live EXCEPT ![j] = {}] /\ live \in [LimitKeys -> SUBSET Attempt]
        /\ \A e \in live[j] : e.at + Window <= clock
    BY <1>1, <2>1 DEF ExpireKey, KeyLife, BaseInv, LimiterTypeOK
  <2>3. \A e \in live[j] : e.at + (Window - MaxSkew) <= clock
    <3>1. \A e \in live[j] : e.at \in Nat
      BY <2>2, LimiterAssumption DEF Attempt
    <3> QED BY <1>2, <2>2, <3>1, LimiterAssumption
  <2>4. live'[k] \subseteq live[k] /\ (live'[k] # live[k] => k = j)
    BY <2>2
  <2> QED BY <1>2, <2>2, <2>3, <2>4, RedisDrop
<1>5. CASE \/ \E c \in Calls, r \in Routes, i \in Addresses, e \in Emails : Arrive(c, r, i, e)
           \/ PassSecond
           \/ UNCHANGED limitVars
  <2>1. admitted' = admitted /\ live' = live /\ clock' \in {clock, clock + 1}
    BY <1>5, Zenon DEF Arrive, PassSecond, limitVars
  <2>2. clock <= clock'
    BY <1>2, <2>1, LimiterAssumption
  <2> QED BY <1>2, <2>1, <2>2, RedisDrop
<1>6. ASSUME NEW c \in Calls PROVE ~ProcessRead(c) /\ ~ProcessWrite(c)
  BY <1>1 DEF ProcessRead, ProcessWrite
<1> QED BY Zenon, <1>3, <1>4, <1>5, <1>6 DEF LimiterNext

\* However the calls of any number of replicas interleave, the script admits at
\* most its limit in any window, shortened by the skew of their clocks
\* (RedisRateLimiter.check).
THEOREM RedisLimitHolds == LimiterSpec => []RedisWithinLimit
<1>1. LimiterInit => BaseInv /\ RedisInv
  <2> SUFFICES ASSUME LimiterInit, NEW k \in LimitKeys PROVE RedisKey(k)
    BY BaseInit DEF RedisInv
  <2>1. live[k] = {} /\ admitted[k] = {}
    BY DEF LimiterInit
  <2>2. \A s : Between(k, s, Window - MaxSkew) = {}
    BY <2>1 DEF Between
  <2>3. Cardinality({}) <= Limit(k)
    BY FS_EmptySet, LimitPositive
  <2> QED BY <2>1, <2>2, <2>3 DEF RedisKey
<1>2. BaseInv /\ RedisInv /\ [LimiterNext]_limitVars => BaseInv' /\ RedisInv'
  BY BaseStep, RedisStep DEF Kept
<1>3. RedisInv => RedisWithinLimit
  BY DEF RedisInv, RedisKey, RedisWithinLimit
<1> QED BY <1>1, <1>2, <1>3, PTL DEF LimiterSpec

-----------------------------------------------------------------------------
(* The limit in the process.                                               *)

\* Every step keeps ProcessWithinLimit.
LEMMA ProcessStep ==
  ASSUME BaseInv, ProcessWithinLimit, [LimiterNext]_limitVars
  PROVE  ProcessWithinLimit'
<1> SUFFICES ASSUME limiter' = "process", NEW j \in LimitKeys, j \notin disturbed',
                    NEW s \in 0 .. MaxClock
             PROVE  Cardinality(Between(j, s, Window + 1)') <= Limit(j)
  BY DEF ProcessWithinLimit
<1>1. limiter = "process"
  BY Zenon DEF LimiterNext, Arrive, RedisCheck, ProcessRead, ProcessWrite, ExpireKey, PassSecond,
         limitVars
<1>2. ASSUME admitted'[j] = admitted[j], j \notin disturbed
      PROVE  Cardinality(Between(j, s, Window + 1)') <= Limit(j)
  <2>1. Between(j, s, Window + 1)' = Between(j, s, Window + 1)
    BY <1>2 DEF Between
  <2> QED BY <1>1, <1>2, <2>1 DEF ProcessWithinLimit
<1>3. CASE \E c \in Calls : ProcessWrite(c)
  <2>1. PICK c \in Calls : ProcessWrite(c)
    BY <1>3
  <2> DEFINE k == Head(calls[c].todo)
             seen == calls[c].seen
             a == calls[c].at
             new == [score |-> a, at |-> a, n |-> calls[c].n]
             more == Between(j, s, Window + 1)'
  <2>2. calls[c] \in CallRec /\ calls[c].todo # <<>> /\ IsFiniteSet(seen)
    BY <2>1, CallsTyped DEF ProcessWrite, BaseInv, CallInv, ReadShape
  <2>3. k \in LimitKeys /\ a \in Nat /\ new.at = a /\ Window \in Nat
    BY <2>2, NextCheck, LimiterAssumption DEF CallRec
  <2>4. /\ \A e \in admitted[j] : e.at \in Nat
        /\ admitted \in [LimitKeys -> SUBSET Attempt]
    BY LimiterAssumption DEF BaseInv, LimiterTypeOK, Attempt
  <2>5. /\ disturbed \subseteq disturbed'
        /\ (\E e \in admitted[k] \ seen : e.at >= a - Window) => k \in disturbed'
    BY <2>1 DEF ProcessWrite
  <2>6. admitted' = [admitted EXCEPT ![k] = IF AtLimit(seen, k) THEN @ ELSE @ \cup {new}]
    BY <2>1 DEF ProcessWrite
  <2> HIDE DEF k, new, seen
  <2>7. CASE j # k \/ AtLimit(seen, k)
    BY <1>2, <2>3, <2>4, <2>5, <2>6, <2>7
  <2>8. CASE j = k /\ ~AtLimit(seen, k)
    <3>1. admitted'[j] = admitted[j] \cup {new}
      BY <2>3, <2>4, <2>6, <2>8
    <3>2. more = {e \in admitted'[j] : s <= e.at /\ e.at < s + (Window + 1)}
      BY DEF Between
    <3>3. CASE s <= a /\ a < s + (Window + 1)
      <4>1. \A e \in admitted[j] \ seen : e.at < a - Window
        BY <2>3, <2>4, <2>5, <2>8
      <4>2. more \subseteq seen \cup {new}
        BY <2>3, <2>4, <3>1, <3>2, <3>3, <4>1
      <4>3. Cardinality(seen) < Limit(j)
        BY <2>2, <2>8, LimitPositive, FS_CardinalityType DEF AtLimit
      <4> HIDE DEF more
      <4> QED BY <2>2, <4>2, <4>3, OneMoreFits, LimitPositive, Zenon DEF more
    <3>4. CASE ~(s <= a /\ a < s + (Window + 1))
      <4>1. more = Between(j, s, Window + 1)
        BY <2>3, <3>1, <3>2, <3>4 DEF Between
      <4> QED BY <1>1, <2>5, <4>1 DEF ProcessWithinLimit
    <3> QED BY <3>3, <3>4
  <2> QED BY <2>7, <2>8
<1>4. ASSUME NEW c \in Calls PROVE ~RedisCheck(c)
  BY <1>1 DEF RedisCheck
<1>5. CASE \/ \E c \in Calls, r \in Routes, i \in Addresses, e \in Emails : Arrive(c, r, i, e)
           \/ \E c \in Calls : ProcessRead(c)
           \/ \E k \in LimitKeys : ExpireKey(k)
           \/ PassSecond
           \/ UNCHANGED limitVars
  <2>1. admitted' = admitted /\ disturbed' = disturbed
    BY <1>5, Zenon DEF Arrive, ProcessRead, ExpireKey, PassSecond, limitVars
  <2> QED BY <1>2, <2>1
<1> QED BY Zenon, <1>3, <1>4, <1>5 DEF LimiterNext

\* The limiter in the process admits at most its limit in any closed window of a
\* key that was neither evicted nor checked by two threads at once
\* (FixedWindowRateLimiter.check).
THEOREM ProcessLimitHolds == LimiterSpec => []ProcessWithinLimit
<1>1. LimiterInit => BaseInv /\ ProcessWithinLimit
  <2> SUFFICES ASSUME LimiterInit, NEW k \in LimitKeys, NEW s \in 0 .. MaxClock
               PROVE  Cardinality(Between(k, s, Window + 1)) <= Limit(k)
    BY BaseInit DEF ProcessWithinLimit
  <2>1. Between(k, s, Window + 1) = {}
    BY DEF LimiterInit, Between
  <2> QED BY <2>1, FS_EmptySet, LimitPositive
<1>2. BaseInv /\ ProcessWithinLimit /\ [LimiterNext]_limitVars
        => BaseInv' /\ ProcessWithinLimit'
  BY BaseStep, ProcessStep DEF Kept
<1> QED BY <1>1, <1>2, PTL DEF LimiterSpec

\* Whichever limiter the deployment builds, no window holds more admitted
\* attempts than its limit, in the form of WithinLimit (build_auth_container).
THEOREM LimitHolds == LimiterSpec => []WithinLimit
<1>1. RedisWithinLimit /\ ProcessWithinLimit => WithinLimit
  BY DEF WithinLimit
<1> QED BY <1>1, RedisLimitHolds, ProcessLimitHolds, PTL
=============================================================================
