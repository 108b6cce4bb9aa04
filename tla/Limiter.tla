------------------------------- MODULE Limiter -------------------------------
(***************************************************************************)
(* The rate limiters in front of the authentication routes: the sliding    *)
(* window kept in Redis, the window kept in the process, and the order in  *)
(* which a route asks its per-address and its per-account limiter.         *)
(*                                                                         *)
(* A Redis check is one script, atomic, with the caller's wall clock as an *)
(* argument: replicas disagree by up to MaxSkew.  The check in the process *)
(* reads the list of attempts and writes it back without a lock, in routes *)
(* that run in a thread pool, over a cache of bounded size.                *)
(***************************************************************************)
EXTENDS Integers, FiniteSets, Sequences

CONSTANTS
    Calls,        \* requests in flight at the same time
    Routes,       \* rate-limited routes
    Addresses,    \* client addresses
    Emails,       \* account identifiers
    Window,       \* window_seconds
    MaxPerAddress, MaxPerAccount,
    MaxKeys,      \* _FIXED_WINDOW_MAX_KEYS
    Skew,         \* call -> how far its replica's clock is ahead
    MaxSkew,
    MaxClock,     \* bound: the last instant
    MaxCalls      \* bound: calls in one behaviour

ASSUME LimiterAssumption ==
    /\ Window \in Nat /\ MaxSkew \in Nat /\ MaxSkew <= Window
    /\ MaxPerAddress \in Nat \ {0} /\ MaxPerAccount \in Nat \ {0}
    /\ Skew \in [Calls -> 0 .. MaxSkew]
    /\ MaxClock \in Nat /\ MaxCalls \in Nat

VARIABLES
    limiter,      \* "redis" or "process"
    clock,
    live,         \* key -> the attempts the limiter still holds
    admitted,     \* key -> ghost: every attempt it ever admitted
    calls,        \* what each call is in the middle of
    serial,       \* calls so far
    disturbed     \* ghost: keys whose list was overwritten or evicted

limitVars == <<limiter, clock, live, admitted, calls, serial, disturbed>>

(***************************************************************************)
(* Keys.                                                                   *)
(***************************************************************************)

\* The action whose per-account budget a route spends; reset has none.
AccountAction(route) ==
    CASE route \in {"register", "login"} -> "login"
      [] route = "forgot" -> "reset"
      [] route = "verify" -> "verify"

\* path:ip:key, where a registration is counted whatever the address book says.
AddressKey(route, ip, email) ==
    [scope |-> "address", name |-> route, from |-> ip,
     who |-> IF route = "register" THEN "registration" ELSE email]

\* per_account:action:identifier, whatever the path and the client.
AccountKey(route, email) ==
    [scope |-> "account", name |-> AccountAction(route), from |-> "anywhere",
     who |-> email]

\* The limiters a route asks, in order.
Checks(route, ip, email) ==
    IF route = "reset" THEN <<AddressKey(route, ip, email)>>
    ELSE <<AddressKey(route, ip, email), AccountKey(route, email)>>

LimitKeys ==
    {AddressKey(r, i, e) : r \in Routes, i \in Addresses, e \in Emails}
    \cup {AccountKey(r, e) : r \in Routes \ {"reset"}, e \in Emails}

Limit(k) == IF k.scope = "address" THEN MaxPerAddress ELSE MaxPerAccount

Attempt == [score : 0 .. MaxClock + MaxSkew, at : 0 .. MaxClock, n : 1 .. MaxCalls]

Waiting == [todo |-> <<>>, n |-> 0, reading |-> FALSE, at |-> 0, seen |-> {}]

(***************************************************************************)
(* Steps.                                                                  *)
(***************************************************************************)

\* A request reaches its route.
Arrive(c, route, ip, email) ==
    /\ calls[c].todo = <<>>
    /\ serial < MaxCalls
    /\ serial' = serial + 1
    /\ calls' = [calls EXCEPT ![c] =
                   [Waiting EXCEPT !.todo = Checks(route, ip, email), !.n = serial + 1]]
    /\ UNCHANGED <<limiter, clock, live, admitted, disturbed>>

\* The call goes on to its next limiter, or to the use case.
Proceed(c) == [calls EXCEPT ![c] = [Waiting EXCEPT !.todo = Tail(calls[c].todo),
                                                   !.n = calls[c].n]]

\* 429: the call ends.
Refuse(c) == [calls EXCEPT ![c] = Waiting]

\* Mutant: attempts are dropped a unit of time early.
InWindow_Short(e, t) == e.score > t - Window + 1

\* What ZREMRANGEBYSCORE leaves at time t.
InWindow(e, t) == e.score > t - Window

\* The script: drop what left the window, refuse at the limit, else record.
RedisCheck(c) ==
    LET k == Head(calls[c].todo)
        t == clock + Skew[c]
        kept == {e \in live[k] : InWindow(e, t)}
        new == [score |-> t, at |-> clock, n |-> calls[c].n]
    IN /\ limiter = "redis"
       /\ calls[c].todo # <<>>
       /\ \/ /\ Cardinality(kept) >= Limit(k)
             /\ live' = [live EXCEPT ![k] = kept]
             /\ calls' = Refuse(c)
             /\ UNCHANGED admitted
          \/ /\ Cardinality(kept) < Limit(k)
             /\ live' = [live EXCEPT ![k] = kept \cup {new}]
             /\ admitted' = [admitted EXCEPT ![k] = @ \cup {new}]
             /\ calls' = Proceed(c)
       /\ UNCHANGED <<limiter, clock, serial, disturbed>>

\* How long a key is kept after its last attempt: one window on Redis (EXPIRE),
\* longer in the process (the TTL has a slack).
KeyLife == IF limiter = "redis" THEN Window ELSE Window + 1

\* The key is dropped, at some time after its life is over.
ExpireKey(k) ==
    /\ live[k] # {}
    /\ \A e \in live[k] : e.at + KeyLife <= clock
    /\ live' = [live EXCEPT ![k] = {}]
    /\ UNCHANGED <<limiter, clock, admitted, calls, serial, disturbed>>

\* FixedWindowRateLimiter.check: time and list are read,
ProcessRead(c) ==
    /\ limiter = "process"
    /\ calls[c].todo # <<>> /\ ~calls[c].reading
    /\ calls' = [calls EXCEPT
                   ![c].reading = TRUE, ![c].at = clock,
                   ![c].seen = {e \in live[Head(calls[c].todo)] : e.score >= clock - Window}]
    /\ UNCHANGED <<limiter, clock, live, admitted, serial, disturbed>>

AtLimit(seen, k) == Cardinality(seen) >= Limit(k)

\* The keys a full cache may give up for k.  Which one is the library's choice.
Victims(k) ==
    LET held == {x \in LimitKeys \ {k} : live[x] # {}}
    IN IF Cardinality(held) >= MaxKeys THEN {{x} : x \in held} ELSE {{}}

\* and the list is written back, with the attempt if the limit allows it.
ProcessWrite(c) ==
    LET k == Head(calls[c].todo)
        seen == calls[c].seen
        new == [score |-> calls[c].at, at |-> calls[c].at, n |-> calls[c].n]
        written == IF AtLimit(seen, k) THEN seen ELSE seen \cup {new}
    IN /\ limiter = "process"
       /\ calls[c].reading
       /\ \E gone \in Victims(k) :
             /\ live' = [x \in LimitKeys |-> IF x = k THEN written
                                             ELSE IF x \in gone THEN {} ELSE live[x]]
             /\ disturbed' = disturbed \cup gone \cup
                   (IF \E e \in admitted[k] \ seen : e.at >= calls[c].at - Window
                    THEN {k} ELSE {})
       /\ admitted' = [admitted EXCEPT ![k] = IF AtLimit(seen, k) THEN @ ELSE @ \cup {new}]
       /\ calls' = IF AtLimit(seen, k) THEN Refuse(c) ELSE Proceed(c)
       /\ UNCHANGED <<limiter, clock, serial>>

PassSecond ==
    /\ clock < MaxClock
    /\ clock' = clock + 1
    /\ UNCHANGED <<limiter, live, admitted, calls, serial, disturbed>>

LimiterInit ==
    /\ limiter \in {"redis", "process"}
    /\ clock = 0 /\ serial = 0 /\ disturbed = {}
    /\ live = [k \in LimitKeys |-> {}]
    /\ admitted = [k \in LimitKeys |-> {}]
    /\ calls = [c \in Calls |-> Waiting]

LimiterNext ==
    \/ \E c \in Calls, r \in Routes, i \in Addresses, e \in Emails : Arrive(c, r, i, e)
    \/ \E c \in Calls : RedisCheck(c) \/ ProcessRead(c) \/ ProcessWrite(c)
    \/ \E k \in LimitKeys : ExpireKey(k)
    \/ PassSecond

LimiterSpec == LimiterInit /\ [][LimiterNext]_limitVars

(***************************************************************************)
(* Properties.                                                             *)
(***************************************************************************)

\* The types of the limiter, the attempts and the calls.
LimiterTypeOK ==
    /\ limiter \in {"redis", "process"}
    /\ clock \in 0 .. MaxClock
    /\ live \in [LimitKeys -> SUBSET Attempt]
    /\ admitted \in [LimitKeys -> SUBSET Attempt]
    /\ calls \in [Calls -> [todo : Seq(LimitKeys), n : 0 .. MaxCalls, reading : BOOLEAN,
                            at : 0 .. MaxClock, seen : SUBSET Attempt]]
    /\ serial \in 0 .. MaxCalls
    /\ disturbed \subseteq LimitKeys

\* The attempts at key k admitted from instant s on and before instant s + w.
Between(k, s, w) == {e \in admitted[k] : s <= e.at /\ e.at < s + w}

\* However calls of several replicas interleave, the Redis limiter admits at
\* most its limit in any stretch of one window, shortened by what the replicas'
\* clocks may disagree (RedisRateLimiter.check and its script).
RedisWithinLimit ==
    limiter = "redis" =>
        \A k \in LimitKeys : \A s \in 0 .. MaxClock :
            Cardinality(Between(k, s, Window - MaxSkew)) <= Limit(k)

\* The limiter in the process admits at most its limit in any closed window of
\* a key that was neither evicted nor checked by two threads at once
\* (FixedWindowRateLimiter.check).
ProcessWithinLimit ==
    limiter = "process" =>
        \A k \in LimitKeys \ disturbed : \A s \in 0 .. MaxClock :
            Cardinality(Between(k, s, Window + 1)) <= Limit(k)

\* Neither limiter of build_auth_container admits more than its limit in a window,
\* each in the form that its implementation can promise.
WithinLimit == RedisWithinLimit /\ ProcessWithinLimit

\* Only a call that its per-address limiter admitted is charged to an account:
\* a client that is refused cannot use up the account's budget (the order of
\* _check_rate_limit and _check_per_account_rate_limit in the routes).
RefusedChargesNobody ==
    \A k \in LimitKeys : \A e \in admitted[k] : k.scope = "account" =>
        \E x \in LimitKeys : x.scope = "address" /\ \E d \in admitted[x] : d.n = e.n
=============================================================================
