---------------------------- MODULE Relationships ----------------------------
(***************************************************************************)
(* The relationship-based authorization engine: the registry in which the  *)
(* features declare their resource types, the store of relationship        *)
(* tuples, and the three questions the engine answers from both (check,    *)
(* lookup_resources, lookup_subjects).                                     *)
(*                                                                         *)
(* A leaf type owns tuples and brings an action map and a hierarchy of     *)
(* relations; an inherited type brings a lookup from its ids to ids of the *)
(* type it inherits from.  The features that call register_parent are not  *)
(* part of the repository yet, so a lookup is any function into the type   *)
(* its feature names.  Resource ids are numbers, which gives them the      *)
(* order ORDER BY needs.                                                   *)
(***************************************************************************)
EXTENDS Naturals, FiniteSets

CONSTANTS
    Ids,        \* resource ids, numbers
    People,     \* subjects of type user
    Services,   \* subjects of another type
    MaxLimit,   \* LOOKUP_MAX_LIMIT
    Batches     \* bound: the lists of tuples that callers write or delete

VARIABLES
    entries,    \* what the registry knows of each resource type
    sealed,     \* whether seal() has been called
    tuples      \* rows of the relationships table

registering == <<entries, sealed, tuples>>

Types == {"system", "thing", "part"}
Gone == 0       \* a parent lookup's None
Unknown == "UnknownActionError"

System == [actions |-> [a \in {"manage_users"} |-> {"admin"}],
           hierarchy |-> [r \in {"admin"} |-> {"admin"}]]

Thing == [actions |-> [a \in {"read", "delete"} |->
                          IF a = "read" THEN {"reader"} ELSE {"owner"}],
          hierarchy |-> [r \in {"reader", "owner"} |->
                            IF r = "reader" THEN {"reader", "owner"} ELSE {"owner"}]]

Declarations == {System, Thing}
Actions == {"manage_users", "read", "delete"}
Relations == {"admin", "reader", "owner"}

Absent == [kind |-> "absent"]
Leaf(d) == [kind |-> "leaf", decl |-> d]
Inherited(from, f) == [kind |-> "inherited", from |-> from, parent |-> f]

Tuple == [type : Types, id : Ids, relation : Relations, subject : People \cup Services]

\* what one call of write_relationships or delete_relationships may name
ASSUME BatchesAssumption == Batches \subseteq SUBSET Tuple

\* build_authorization_container registers system before any feature
RegistryInit ==
    /\ entries = [t \in Types |-> IF t = "system" THEN Leaf(System) ELSE Absent]
    /\ sealed = FALSE
    /\ tuples = {}

-----------------------------------------------------------------------------
(* Registration *)

\* _guard_unique
Free(t) == entries[t].kind = "absent"

RegisterResourceType(t, d) ==
    /\ ~sealed /\ Free(t)
    /\ entries' = [entries EXCEPT ![t] = Leaf(d)]
    /\ UNCHANGED <<sealed, tuples>>

RegisterParent(t, from, f) ==
    /\ ~sealed /\ Free(t)
    /\ entries' = [entries EXCEPT ![t] = Inherited(from, f)]
    /\ UNCHANGED <<sealed, tuples>>

Seal ==
    /\ ~sealed
    /\ sealed' = TRUE
    /\ UNCHANGED <<entries, tuples>>

-----------------------------------------------------------------------------
(* What the engine reads from the registry *)

HasStoredRelations(t) == entries[t].kind = "leaf"

\* nearest_leaf_type: along inherits_from, with the types already seen
RECURSIVE NearestLeafFrom(_, _)
NearestLeafFrom(t, seen) ==
    IF HasStoredRelations(t) THEN t
    ELSE IF t \in seen \/ entries[t].kind = "absent" THEN Unknown
    ELSE NearestLeafFrom(entries[t].from, seen \cup {t})

NearestLeafType(t) == NearestLeafFrom(t, {})

RelationsFor(t, a) ==
    LET leaf == NearestLeafType(t)
    IN  IF leaf = Unknown \/ a \notin DOMAIN entries[leaf].decl.actions
        THEN {Unknown}
        ELSE entries[leaf].decl.actions[a]

ExpandRelations_Flat(t, rels) == rels

ExpandRelations(t, rels) ==
    LET leaf == NearestLeafType(t)
    IN  IF leaf = Unknown \/ ~(rels \subseteq DOMAIN entries[leaf].decl.hierarchy)
        THEN {Unknown}
        ELSE UNION {entries[leaf].decl.hierarchy[r] : r \in rels}

ParentOf(t, i) == entries[t].parent[i]

\* the walk of check(): parent by parent to a type with stored tuples
RECURSIVE Walk(_, _)
Walk(t, i) ==
    IF i = Gone THEN [type |-> t, id |-> Gone]
    ELSE IF HasStoredRelations(t) THEN [type |-> t, id |-> i]
    ELSE Walk(entries[t].from, ParentOf(t, i))

-----------------------------------------------------------------------------
(* The questions *)

\* rows of the WHERE clause: type, relation among the expanded ones, user subjects
Matching(t, rels) ==
    {x \in tuples : x.type = t /\ x.relation \in rels /\ x.subject \in People}

Check(u, a, t, i) ==
    LET required == RelationsFor(t, a)
        at == Walk(t, i)
        rels == ExpandRelations(at.type, required)
    IN  IF required = {Unknown} THEN Unknown
        ELSE IF at.id = Gone THEN "denied"
        ELSE IF rels = {Unknown} THEN Unknown
        ELSE IF \E x \in Matching(at.type, rels) : x.id = at.id /\ x.subject = u
        THEN "allowed" ELSE "denied"

Capped(limit) == IF limit < 1 THEN 1 ELSE IF limit > MaxLimit THEN MaxLimit ELSE limit

FirstIds_Descending(rows, n) ==
    {x.id : x \in {y \in rows : Cardinality({z \in rows : z.id > y.id}) < n}}

\* ORDER BY resource_id LIMIT n, then the ids without repetition: a row is among
\* the first n if fewer than n rows come before its id
FirstIds(rows, n) ==
    {x.id : x \in {y \in rows : Cardinality({z \in rows : z.id < y.id}) < n}}

LookupResources(u, a, t, limit) ==
    LET rels == ExpandRelations(NearestLeafType(t), RelationsFor(t, a))
    IN  FirstIds({x \in Matching(NearestLeafType(t), rels) : x.subject = u},
                 Capped(limit))

\* LIMIT with no ORDER BY: any choice of that many rows
LookupSubjects(t, i, r, limit) ==
    LET rows == {x \in Matching(t, ExpandRelations(t, {r})) : x.id = i}
        n == IF Cardinality(rows) < Capped(limit) THEN Cardinality(rows) ELSE Capped(limit)
    IN  {{x.subject : x \in S} : S \in {S \in SUBSET rows : Cardinality(S) = n}}

-----------------------------------------------------------------------------
(* Writing tuples, once the registry is sealed and the process serves *)

AfterWrite(batch) == tuples \cup batch

WriteRelationships(batch) ==
    /\ sealed /\ batch # {}
    /\ tuples' = AfterWrite(batch)
    /\ UNCHANGED <<entries, sealed>>

DeleteRelationships(batch) ==
    /\ sealed /\ batch # {}
    /\ tuples' = tuples \ batch
    /\ UNCHANGED <<entries, sealed>>

RegistryNext ==
    \/ \E t \in Types :
          \/ \E d \in Declarations : RegisterResourceType(t, d)
          \/ \E from \in Types, f \in [Ids -> Ids \cup {Gone}] : RegisterParent(t, from, f)
    \/ Seal
    \/ \E batch \in Batches : WriteRelationships(batch) \/ DeleteRelationships(batch)

-----------------------------------------------------------------------------
(* Properties *)

Resources == [type : Types, id : Ids]

\* one step up: what the resources of S are part of
Up(S) ==
    S \cup {y \in Resources : \E x \in S :
                /\ entries[x.type].kind = "inherited"
                /\ y = [type |-> entries[x.type].from, id |-> entries[x.type].parent[x.id]]}

UpTypes(S) ==
    S \cup {t \in Types : \E s \in S : entries[s].kind = "inherited" /\ entries[s].from = t}

\* the resources whose tuples decide about x: as many steps up as there are types
Above(x) == {y \in Up(Up(Up({x}))) : entries[y.type].kind = "leaf"}

\* u holds, on such a resource, a relation that includes one the action asks for
MayReference(u, a, above) ==
    \E y \in above : \E have \in tuples :
        /\ have.type = y.type /\ have.id = y.id /\ have.subject = u
        /\ LET d == entries[y.type].decl
           IN  \E need \in d.actions[a] : have.relation \in d.hierarchy[need]

Declared(a, t) ==
    \E s \in UpTypes(UpTypes(UpTypes({t}))) :
        entries[s].kind = "leaf" /\ a \in DOMAIN entries[s].decl.actions

\* The walk of check() decides what the declarations mean, once main.py has
\* sealed the registry and requests come in: a user may act on a resource
\* exactly if they hold, on the leaf resource it belongs to, a relation that
\* includes one the action requires; a resource whose parent is gone is denied;
\* and an action no leaf above the type declares is a configuration
\* error, never a silent answer, also when inherits_from runs in a circle
\* (adapter.py 90-118, registry.py 121-193).
CheckDecides ==
    sealed => \A x \in Resources :
        LET above == Above(x)
        IN  \A a \in Actions : LET declared == Declared(a, x.type) IN
               \A u \in People :
                   Check(u, a, x.type, x.id) =
                       IF ~declared THEN Unknown
                       ELSE IF MayReference(u, a, above) THEN "allowed" ELSE "denied"

\* The lookups agree with check() on leaf types.  Every id lookup_resources
\* returns is allowed, and the allowed ids it leaves out come after all of those,
\* so a truncated answer is a prefix although the limit counts rows and not ids.
\* lookup_subjects returns only holders of the relation or a superior one, and
\* all of them unless the limit cut it (adapter.py 120-199).
LookupsAgree ==
    sealed => \A t \in {s \in Types : HasStoredRelations(s)}, limit \in 0..MaxLimit + 1 :
        \A a \in DOMAIN entries[t].decl.actions :
            /\ \A u \in People :
                  LET got == LookupResources(u, a, t, limit)
                      may == {i \in Ids : Check(u, a, t, i) = "allowed"}
                  IN  /\ got \subseteq may
                      /\ may # {} => got # {}
                      /\ \A i \in may \ got, j \in got : i > j
            /\ \A i \in Ids, r \in entries[t].decl.actions[a] :
                  \A got \in LookupSubjects(t, i, r, limit) :
                      LET may == {u \in People : Check(u, a, t, i) = "allowed"}
                      IN  /\ got \subseteq may
                          /\ Cardinality(got) < Capped(limit) =>
                                \/ got = may
                                \/ \E u \in got : Cardinality(
                                      {x \in tuples : x.subject = u /\ x.id = i}) > 1

=============================================================================
