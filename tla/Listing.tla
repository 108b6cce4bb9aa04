------------------------------- MODULE Listing -------------------------------
(***************************************************************************)
(* The two paginated admin listings, GET /admin/users and                  *)
(* GET /admin/audit-log, walked page by page while rows keep arriving.     *)
(*                                                                         *)
(* Both page by key (created_at, id).  The users walk goes forward, the    *)
(* audit walk backward and under filters.  created_at is taken by the      *)
(* process before its transaction commits, so rows become visible out of   *)
(* key order; ids are uuid4 values, so rows of one instant are ordered     *)
(* unlike their arrival.                                                   *)
(***************************************************************************)
EXTENDS Integers, FiniteSets, Sequences, SequencesExt

CONSTANTS
    RowIds,       \* ids, naturals in the order PostgreSQL compares them
    RowOwners,    \* values of the user_id column
    MaxInstant,   \* bound: the last created_at
    PageSizes     \* the limits a client asks for, within the route's 1..500

VARIABLES
    table,        \* "users" or "audit", the listing walked
    instant,      \* utc_now
    pending,      \* rows built but not yet committed
    stored,       \* committed rows
    walk          \* the client's walk

listVars == <<table, instant, pending, stored, walk>>

Rows == [at : 0 .. MaxInstant, id : RowIds, owner : RowOwners]
AnyOwner == "any"

\* A token is a set of at most one cursor: the first page has none.
NoToken == {}

\* base is a ghost: the rows committed when the walk began.
Resting == [state |-> "off", limit |-> 1, token |-> NoToken, only |-> AnyOwner,
            since |-> 0, got |-> <<>>, base |-> {}]

\* The row comparison of the two keysets.
KeyBelow(a, b) == a.at < b.at \/ (a.at = b.at /\ a.id < b.id)

\* The order of the listing: users oldest first, audit events newest first.
Ahead(a, b) == IF table = "users" THEN KeyBelow(a, b) ELSE KeyBelow(b, a)

\* encode_cursor and decode_cursor: a token carries exactly these two fields.
EncodeCursor(row) == [created_at |-> row.at, id |-> row.id]
DecodeCursor(token) == [at |-> token.created_at, id |-> token.id]

\* The WHERE clause of list_audit_events, and of list_paginated without filters.
Selected(w) ==
    {r \in stored : /\ w.only \in {AnyOwner, r.owner}
                    /\ r.at >= w.since
                    /\ \A t \in w.token : Ahead(DecodeCursor(t), r)}

\* ORDER BY and LIMIT, with the limit the use case clamps to 1..500.
PageOf(w) ==
    LET sorted == SetToSortSeq(Selected(w), Ahead)
        bounded == IF w.limit < 1 THEN 1 ELSE IF w.limit > 500 THEN 500 ELSE w.limit
    IN SubSeq(sorted, 1, IF Len(sorted) < bounded THEN Len(sorted) ELSE bounded)

\* Mutant: a page is taken for the last one while it is full.
NextToken_Eager(page, limit) ==
    IF Len(page) > limit THEN {EncodeCursor(page[Len(page)])} ELSE NoToken

\* A full page carries the key of its tail, a partial one carries nothing.
NextToken(page, limit) ==
    IF Len(page) = limit /\ page # <<>> THEN {EncodeCursor(page[Len(page)])} ELSE NoToken

\* A client asks for the first page; the users route takes no filter.
StartWalk(limit, only, since) ==
    /\ walk.state = "off"
    /\ table = "users" => only = AnyOwner /\ since = 0
    /\ walk' = [Resting EXCEPT !.state = "on", !.limit = limit, !.only = only,
                               !.since = since, !.base = stored]
    /\ UNCHANGED <<table, instant, pending, stored>>

\* admin_list_users and admin_list_audit_events: one page.
TakePage ==
    LET page == PageOf(walk)
        token == NextToken(page, walk.limit)
    IN /\ walk.state = "on"
       /\ walk' = [walk EXCEPT !.got = @ \o page, !.token = token,
                               !.state = IF token = NoToken THEN "end" ELSE "on"]
       /\ UNCHANGED <<table, instant, pending, stored>>

\* A registration or an audited operation builds its row.
BuildRow(id, owner) ==
    /\ \A r \in stored \cup pending : r.id # id
    /\ pending' = pending \cup {[at |-> instant, id |-> id, owner |-> owner]}
    /\ UNCHANGED <<table, instant, stored, walk>>

\* Its transaction commits, or rolls back.
CommitRow(r) ==
    /\ pending' = pending \ {r}
    /\ stored' = stored \cup {r}
    /\ UNCHANGED <<table, instant, walk>>

AbandonRow(r) ==
    /\ pending' = pending \ {r}
    /\ UNCHANGED <<table, instant, stored, walk>>

PassInstant ==
    /\ instant < MaxInstant
    /\ instant' = instant + 1
    /\ UNCHANGED <<table, pending, stored, walk>>

ListingInit ==
    /\ table \in {"users", "audit"}
    /\ instant = 0 /\ pending = {} /\ stored = {}
    /\ walk = Resting

ListingNext ==
    \/ \E n \in PageSizes, only \in RowOwners \cup {AnyOwner}, since \in 0 .. MaxInstant :
          StartWalk(n, only, since)
    \/ TakePage
    \/ \E id \in RowIds, owner \in RowOwners : BuildRow(id, owner)
    \/ \E r \in pending : CommitRow(r) \/ AbandonRow(r)
    \/ PassInstant

ListingSpec == ListingInit /\ [][ListingNext]_listVars

\* However rows arrive between two pages, the pages of one walk put together are
\* in key order, so no row is listed twice, and a walk that ends without a cursor
\* has listed every matching row that was committed when it began
\* (list_paginated, list_audit_events and the cursor rules of the routes).
WalkFaithful ==
    /\ \A i, j \in 1 .. Len(walk.got) : i < j => Ahead(walk.got[i], walk.got[j])
    /\ walk.state = "end" =>
           \A r \in walk.base : (walk.only \in {AnyOwner, r.owner} /\ r.at >= walk.since)
               => \E i \in 1 .. Len(walk.got) : walk.got[i] = r
==============================================================================
