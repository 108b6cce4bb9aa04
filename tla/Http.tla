-------------------------------- MODULE Http --------------------------------
(***************************************************************************)
(* One request through the HTTP application: the middleware chain that     *)
(* build_fastapi_app assembles, the dependencies and guards of the route,  *)
(* its handler, the exception handlers, and the response on its way back   *)
(* out.  The headers of the request are chosen when a layer first reads    *)
(* them.  Use cases answer with any result their routes translate.         *)
(***************************************************************************)
EXTENDS Integers, FiniteSets, Sequences, SequencesExt

CONSTANT Deployments  \* settings the application may be built with

VARIABLES
    deploy,       \* [environment, cors, docs, proxied, limited]
    request,      \* what has been read of the request
    stage,        \* "down", "guard", "handle", "up", "sent"
    depth,        \* layers of the chain the request is inside of
    response,     \* the response so far
    raised,       \* the exception a route raised, as [kind, status, headers]
    handled,      \* the handler's use case was executed
    logged,       \* status codes of the access log lines of this request
    reported      \* what the error reporter captured

httpVars == <<deploy, request, stage, depth, response, raised, handled, logged, reported>>

(***************************************************************************)
(* The chain.                                                              *)
(***************************************************************************)

\* Mutant: the size limit is added outside the security headers.
Added_SizeOutside(d) ==
    <<"AccessLog", "RequestContext", "GZip", "SecurityHeaders", "ContentSizeLimit">>
    \o (IF d.environment # "development" THEN <<"TrustedHost">> ELSE <<>>)
    \o (IF d.cors # "none" THEN <<"Cors">> ELSE <<>>)
    \o (IF d.proxied THEN <<"ProxyHeaders">> ELSE <<>>)

\* The add_middleware calls, in order.
Added(d) ==
    <<"AccessLog", "RequestContext", "ContentSizeLimit", "GZip", "SecurityHeaders">>
    \o (IF d.environment # "development" THEN <<"TrustedHost">> ELSE <<>>)
    \o (IF d.cors # "none" THEN <<"Cors">> ELSE <<>>)
    \o (IF d.proxied THEN <<"ProxyHeaders">> ELSE <<>>)

\* Starlette runs the last one added first.
Chain == Reverse(Added(deploy))

Layer == Chain[depth + 1]

NoException == [kind |-> "none", status |-> 0, headers |-> {}]
NoResponse == [status |-> 0, by |-> "nobody", headers |-> {}, body |-> {}]
Fresh == [origin |-> "unread", referer |-> "unread", cookie |-> FALSE, route |-> "unread",
          id |-> "none"]

Answer(status, by, headers, body) ==
    [status |-> status, by |-> by, headers |-> headers, body |-> body]

Enter(r) ==
    /\ depth' = depth + 1
    /\ request' = r
    /\ stage' = IF depth' = Len(Chain) THEN "guard" ELSE "down"
    /\ UNCHANGED <<deploy, response, raised, handled, logged, reported>>

\* A layer answers by itself; the layers outside it still see the response.
Stop(status, body) ==
    /\ response' = Answer(status, Layer, {}, body)
    /\ stage' = "up"
    /\ UNCHANGED <<deploy, request, depth, raised, handled, logged, reported>>

\* ProxyHeaders rewrites the client address, GZip passes the request on.
PassThrough ==
    /\ stage = "down" /\ Layer \in {"ProxyHeaders", "GZip", "SecurityHeaders", "AccessLog"}
    /\ Enter(request)

\* cors_origins lists the origin, or is the wildcard.
Trusts(d, origin) == d.cors = "wildcard" \/ (d.cors = "listed" /\ origin = "trusted")

\* CORSMiddleware answers a preflight itself.
CorsLayer(origin, preflight) ==
    /\ stage = "down" /\ Layer = "Cors"
    /\ preflight => origin # "absent"
    /\ IF preflight
       THEN Stop(IF Trusts(deploy, origin) THEN 200 ELSE 400, {})
       ELSE Enter([request EXCEPT !.origin = origin])

\* TrustedHostMiddleware refuses a host that is not listed.
TrustedHostLayer(known) ==
    /\ stage = "down" /\ Layer = "TrustedHost"
    /\ IF known THEN Enter(request) ELSE Stop(400, {})

\* The status ContentSizeLimitMiddleware refuses with, or 0.
SizeVerdict(length, chunked) ==
    CASE length = "garbage" -> 400
      [] length = "over" -> 413
      [] length = "absent" /\ chunked -> 411
      [] OTHER -> 0

ContentSizeLayer(length, chunked) ==
    /\ stage = "down" /\ Layer = "ContentSizeLimit"
    /\ IF SizeVerdict(length, chunked) = 0
       THEN Enter(request)
       ELSE Stop(SizeVerdict(length, chunked),
                 {"problem"} \cup (IF request.id = "none" THEN {} ELSE {request.id}))

\* Mutant: whatever the client sends is taken for the request id.
ResolvedId_Unchecked(sent) == IF sent = "absent" THEN "generated" ELSE sent

\* A well-formed X-Request-ID is kept, anything else is replaced.
ResolvedId(sent) == IF sent = "valid" THEN "valid" ELSE "generated"

RequestContextLayer(sent) ==
    /\ stage = "down" /\ Layer = "RequestContext"
    /\ Enter([request EXCEPT !.id = ResolvedId(sent)])

(***************************************************************************)
(* Routes: what stands between the router and the use case.                *)
(***************************************************************************)

CookieRoutes == {"refresh", "logout"}
LimitedRoutes == {"register", "login", "forgot", "reset", "verify_request"}
AuthBearerRoutes == {"logout_all", "auth_me", "verify_request"}
MeRoutes == {"get_me", "patch_me", "delete_me", "erase_me", "export_me"}
AdminRoutes == {"list_users", "erase_user", "export_user", "audit_log"}
OpenRoutes == {"verify_email", "root", "missing"}
AppRoutes == CookieRoutes \cup LimitedRoutes \cup AuthBearerRoutes \cup MeRoutes
             \cup AdminRoutes \cup OpenRoutes

Exception(kind, status, headers) == [kind |-> kind, status |-> status, headers |-> headers]

\* Statuses of raise_http_from_auth_error; only the rate limit carries a header.
AuthErrorStatus ==
    [DuplicateEmail |-> 409, InvalidCredentials |-> 401, StaleToken |-> 401,
     InvalidToken |-> 401, InactiveUser |-> 403, EmailNotVerified |-> 403,
     PermissionDenied |-> 403, NotFound |-> 404, TokenAlreadyUsed |-> 400,
     Conflict |-> 409, Configuration |-> 503, Other |-> 400]

FromAuthError(e) == Exception("application", AuthErrorStatus[e], {})

TooManyRequests == Exception("application", 429, {"Retry-After"})

\* Statuses of raise_http_from_user_error.
UserErrorStatus == [UserNotFound |-> 404, UserAlreadyExists |-> 409, Other |-> 400]

FromUserError(e) == Exception("application", UserErrorStatus[e], {})

\* get_current_principal of the platform: no token, or one the resolver refuses.
PlatformRefusals == {Exception("application", 401, {})}

\* get_current_principal of the authentication feature.
AuthRefusals ==
    {Exception("http", 401, {"WWW-Authenticate"})}
    \cup {FromAuthError(e) : e \in {"InvalidToken", "StaleToken", "InactiveUser"}}

\* require_authorization: the principal first, then the check, which raises on
\* an action nobody registered.
AdminRefusals ==
    PlatformRefusals \cup {Exception("application", 403, {}),
                           Exception("unknown_action", 500, {})}

\* A body, a query or a path parameter that does not validate.
Invalid == Exception("validation", 422, {})
ValidatedRoutes == {"register", "login", "forgot", "reset", "verify_email",
                    "patch_me", "erase_me"} \cup AdminRoutes

\* The two listings refuse a cursor they cannot decode.
BadCursor == Exception("application", 400, {})

\* erase_me asks for the password again.
WrongPassword == Exception("application", 401, {})

\* No route has the path and the method.
Unrouted == Exception("http", 404, {})

\* Mutant: without an Origin header nothing is asked.
Provenance_OriginOnly(r, d) == r.origin # "absent" => Trusts(d, r.origin)

\* _enforce_cookie_origin: Origin decides, then Referer, then the cookie.
Provenance(r, d) ==
    \/ r.origin # "absent" /\ Trusts(d, r.origin)
    \/ r.origin = "absent" /\ r.referer \notin {"absent", "malformed"} /\ Trusts(d, r.referer)
    \/ r.origin = "absent" /\ r.referer = "absent" /\ ~r.cookie

\* What a dependency or the body of the route may raise before its use case.
GuardRefusals(r) ==
    (CASE r.route \in AdminRoutes -> AdminRefusals
       [] r.route \in MeRoutes -> PlatformRefusals
       [] r.route \in AuthBearerRoutes -> AuthRefusals
       [] r.route = "missing" -> {Unrouted}
       [] OTHER -> {})
    \cup (IF r.route \in ValidatedRoutes THEN {Invalid} ELSE {})
    \cup (IF r.route \in {"list_users", "audit_log"} THEN {BadCursor} ELSE {})
    \cup (IF r.route = "erase_me" THEN {WrongPassword} ELSE {})
    \cup (IF r.route \in LimitedRoutes /\ deploy.limited THEN {TooManyRequests} ELSE {})

\* The route is matched and its headers read.
MatchRoute(route, origin, referer, cookie) ==
    /\ stage = "guard" /\ request.route = "unread"
    /\ request.origin \in {"unread", origin}
    /\ route \notin CookieRoutes => referer = "absent" /\ ~cookie
    /\ request' = [request EXCEPT !.route = route, !.origin = origin,
                                  !.referer = referer, !.cookie = cookie]
    /\ UNCHANGED <<deploy, stage, depth, response, raised, handled, logged, reported>>

\* A guard raises.
GuardRaises(exc) ==
    /\ stage = "guard" /\ request.route # "unread" /\ raised = NoException
    /\ exc \in GuardRefusals(request)
    /\ raised' = exc
    /\ UNCHANGED <<deploy, request, stage, depth, response, handled, logged, reported>>

\* The cookie routes ask for the provenance of the request.
CookieRefused ==
    /\ stage = "guard" /\ request.route \in CookieRoutes /\ raised = NoException
    /\ ~Provenance(request, deploy)
    /\ raised' = Exception("http", 403, {})
    /\ UNCHANGED <<deploy, request, stage, depth, response, handled, logged, reported>>

\* Every guard passed: the use case runs.
CallUseCase ==
    /\ stage = "guard" /\ request.route # "unread" /\ raised = NoException
    /\ request.route # "missing"
    /\ request.route \in CookieRoutes => Provenance(request, deploy)
    /\ handled' = TRUE
    /\ stage' = "handle"
    /\ UNCHANGED <<deploy, request, depth, response, raised, logged, reported>>

\* Errors a use case returns to its route.
RouteErrors(route) ==
    CASE route \in {"root", "logout", "auth_me", "erase_me", "erase_user"} -> {}
      [] route \in (MeRoutes \ {"erase_me"}) \cup {"list_users", "export_user"} ->
            {FromUserError(e) : e \in DOMAIN UserErrorStatus}
      [] OTHER -> {FromAuthError(e) : e \in DOMAIN AuthErrorStatus}

\* The cookie headers of the routes' success responses.
SetsCookie(route) ==
    CASE route \in {"login", "refresh"} -> {"Set-Cookie"}
      [] route \in {"logout", "logout_all", "delete_me"} -> {"Delete-Cookie"}
      [] route \in {"erase_me", "erase_user"} -> {"Location"}
      [] OTHER -> {}

SuccessStatus(route) ==
    CASE route = "register" -> 201
      [] route \in {"forgot", "verify_request", "erase_me", "erase_user"} -> 202
      [] route = "delete_me" -> 204
      [] OTHER -> 200

HandlerReturns ==
    /\ stage = "handle" /\ raised = NoException
    /\ response' = Answer(SuccessStatus(request.route), "route",
                          SetsCookie(request.route), {})
    /\ stage' = "up"
    /\ UNCHANGED <<deploy, request, depth, raised, handled, logged, reported>>

HandlerRaises(exc) ==
    /\ stage = "handle" /\ raised = NoException
    /\ exc \in RouteErrors(request.route) \cup {Exception("unhandled", 500, {})}
    /\ raised' = exc
    /\ UNCHANGED <<deploy, request, stage, depth, response, handled, logged, reported>>

(***************************************************************************)
(* Exception handlers and the way out.                                     *)
(***************************************************************************)

\* problem_json_response keeps the headers the exception carries.
ProblemHeaders(exc) == exc.headers

\* The handlers ExceptionMiddleware runs, inside every layer.  The two of the
\* authorization feature write their own body.
RenderProblem ==
    /\ raised.kind \notin {"none", "unhandled"}
    /\ stage \in {"guard", "handle"}
    /\ response' = Answer(raised.status, "route", ProblemHeaders(raised),
                          IF raised.kind = "unknown_action" THEN {"problem"}
                          ELSE {"problem", request.id})
    /\ stage' = "up"
    /\ UNCHANGED <<deploy, request, depth, raised, handled, logged, reported>>

\* An unhandled exception leaves every layer before ServerErrorMiddleware,
\* outside all of them, runs its handler: it is reported and answered there.
UnhandledException ==
    /\ raised.kind = "unhandled" /\ stage = "handle"
    /\ reported' = Append(reported, request.id)
    /\ logged' = Append(logged, 0)
    /\ response' = Answer(500, "server", {}, {"problem", request.id})
    /\ stage' = "up" /\ depth' = 0
    /\ UNCHANGED <<deploy, request, raised, handled>>

\* What a layer adds to a response that passes it.
LayerHeaders(layer) ==
    CASE layer = "SecurityHeaders" ->
            {"baseline"} \cup (IF deploy.environment = "production" THEN {"hsts"} ELSE {})
      [] layer = "RequestContext" -> {request.id}
      [] layer = "Cors" -> IF Trusts(deploy, request.origin) /\ request.origin # "absent"
                           THEN {"cors"} ELSE {}
      [] OTHER -> {}

\* The response passes one layer outwards.
PassOut ==
    LET layer == Chain[depth]
    IN /\ stage = "up" /\ depth > 0
       /\ response' = [response EXCEPT !.headers = @ \cup LayerHeaders(layer)]
       /\ logged' = IF layer = "AccessLog" THEN Append(logged, response.status) ELSE logged
       /\ depth' = depth - 1
       /\ UNCHANGED <<deploy, request, stage, raised, handled, reported>>

Send ==
    /\ stage = "up" /\ depth = 0
    /\ stage' = "sent"
    /\ UNCHANGED <<deploy, request, depth, response, raised, handled, logged, reported>>

\* The connection's next request.
NextRequest ==
    /\ stage = "sent"
    /\ request' = Fresh /\ stage' = "down" /\ response' = NoResponse
    /\ raised' = NoException /\ handled' = FALSE /\ logged' = <<>> /\ reported' = <<>>
    /\ UNCHANGED <<deploy, depth>>

Headers == {"absent", "trusted", "untrusted"}

HttpInit ==
    /\ deploy \in Deployments
    /\ request = Fresh /\ stage = "down" /\ depth = 0
    /\ response = NoResponse /\ raised = NoException
    /\ handled = FALSE /\ logged = <<>> /\ reported = <<>>

WayIn ==
    \/ PassThrough
    \/ \E o \in Headers, p \in BOOLEAN : CorsLayer(o, p)
    \/ \E known \in BOOLEAN : TrustedHostLayer(known)
    \/ \E n \in {"absent", "fits", "over", "garbage"}, c \in BOOLEAN : ContentSizeLayer(n, c)
    \/ \E id \in {"absent", "valid", "malformed"} : RequestContextLayer(id)

RouteStep ==
    \/ \E r \in AppRoutes, o \in Headers, f \in Headers \cup {"malformed"}, c \in BOOLEAN :
          MatchRoute(r, o, f, c)
    \/ \E e \in GuardRefusals(request) : GuardRaises(e)
    \/ CookieRefused \/ CallUseCase \/ HandlerReturns
    \/ stage = "handle" /\ \E e \in RouteErrors(request.route)
                                    \cup {Exception("unhandled", 500, {})} : HandlerRaises(e)

HttpNext ==
    \/ WayIn \/ RouteStep
    \/ RenderProblem \/ UnhandledException \/ PassOut \/ Send \/ NextRequest

HttpSpec == HttpInit /\ [][HttpNext]_httpVars

(***************************************************************************)
(* Properties.                                                             *)
(***************************************************************************)

\* Every response made at or inside the size limit carries the policy headers,
\* and HSTS in production; only a preflight, a refused host and an unhandled
\* exception are answered outside of them (the order of add_middleware).
PolicyHeaders ==
    stage = "sent" /\ response.by \notin {"Cors", "TrustedHost", "server"} =>
        /\ "baseline" \in response.headers
        /\ deploy.environment = "production" => "hsts" \in response.headers

\* One request can be followed through its traces.  The header, the problem body
\* and the error report name the same id, and never one the client sent
\* malformed; the size limit and the unregistered-action handler name none.  A
\* request that got past the size limit has exactly one access line, with the
\* status the client saw, or 0 when an unhandled exception passed by
\* (RequestContextMiddleware, AccessLogMiddleware and problem_json_response).
RequestTraced ==
    stage = "sent" =>
        /\ (response.headers \cup response.body) \cap {"valid", "generated", "malformed"}
             \subseteq {request.id}
        /\ "malformed" \notin response.headers \cup response.body
        /\ response.by = "route" => request.id \in response.headers
        /\ response.by = "route" /\ raised.kind \notin {"none", "unknown_action"} =>
              request.id \in response.body
        /\ reported = IF response.by = "server" THEN <<request.id>> ELSE <<>>
        /\ logged = CASE response.by = "route" -> <<response.status>>
                      [] response.by = "server" -> <<0>>
                      [] OTHER -> <<>>

\* No refresh or logout is executed for a request that carries the cookie
\* unless it comes from a listed origin or every origin is listed
\* (_enforce_cookie_origin).
CookieFromTrusted ==
    handled /\ request.route \in CookieRoutes /\ request.cookie /\ deploy.cors # "wildcard" =>
        /\ deploy.cors = "listed"
        /\ request.origin = "trusted" \/ (request.origin = "absent" /\ request.referer = "trusted")

=============================================================================
