----------------------------- MODULE MCRequests -----------------------------
(* UserData, Listing, Limiter and Http on small instances.  They share no    *)
(* variable, so each is explored with the others at rest: focus says which   *)
(* one moves.                                                                *)
EXTENDS UserData, Listing, Limiter, Http, TLC

CONSTANTS c1, c2, o1, o2

VARIABLE focus

mcVars == <<dataVars, listVars, limitVars, httpVars, focus>>

AllInit ==
    /\ focus \in {"data", "listing", "limiter", "http"}
    /\ DataInit /\ ListingInit /\ LimiterInit /\ HttpInit
    /\ focus # "data" => backend = "s3"
    /\ focus # "listing" => table = "users"
    /\ focus # "limiter" => limiter = "redis"
    /\ focus # "http" => deploy = CHOOSE d \in Deployments : TRUE

AllNext ==
    /\ UNCHANGED focus
    /\ \/ focus = "data" /\ DataNext /\ UNCHANGED <<listVars, limitVars, httpVars>>
       \/ focus = "listing" /\ ListingNext /\ UNCHANGED <<dataVars, limitVars, httpVars>>
       \/ focus = "limiter" /\ LimiterNext /\ UNCHANGED <<dataVars, listVars, httpVars>>
       \/ focus = "http" /\ HttpNext /\ UNCHANGED <<dataVars, listVars, limitVars>>

AllSpec == AllInit /\ [][AllNext]_mcVars

\* outbox rows and hands are interchangeable
Symmetry == Permutations(Jobs) \cup Permutations(Hands)

\* two files of one user, one of another
SomeFiles == {<<o1, "photo">>, <<o1, "letter">>, <<o2, "photo">>}

\* one export
SomeExports == {<<o1, "export">>}

\* one replica's clock runs ahead
SomeSkew == (c1 :> 0) @@ (c2 :> 1)

\* what the settings of Settings.tla let through: production lists its origins
\* and its proxies
SomeDeployments ==
    {d \in [environment : {"development", "test", "production"},
            cors : {"none", "listed", "wildcard"}, proxied : BOOLEAN, limited : BOOLEAN] :
        d.environment = "production" => d.cors # "wildcard" /\ d.proxied}
=============================================================================
