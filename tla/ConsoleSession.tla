--------------------------- MODULE ConsoleSession ---------------------------
(***************************************************************************)
(* The signed-in session of the control-plane console: the four cookies a  *)
(* browser holds, the Next.js routes that read and rewrite them while they *)
(* talk to the control plane, the middleware that decides which page a     *)
(* role is served, and AuthContext, which every page asks who is signed in. *)
(*                                                                         *)
(* A request carries the cookies the jar held when it was sent; each await *)
(* of a route is a step of its own; the answer's Set-Cookie is applied when *)
(* the browser receives it, so answers may rewrite the jar in any order.   *)
(* Token pairs of a session are numbered: /token/refresh replaces pair n   *)
(* by pair n + 1 and the refresh token of pair n is worthless from then on. *)
(***************************************************************************)
EXTENDS Naturals

CONSTANTS
    MaxSessions,    \* sessions the control plane issues
    MaxVisits,      \* pages the user types in or reloads
    MaxMishaps,     \* upstream calls that fail or come back garbled, jwts that expire
    Targets         \* pages the user asks for

None == "none"
Login == "/sign-up-login-screen"
Roles == {"admin", "operator", "viewer"}

\* Requests under way at a time: one of AuthContext, one of the page and its user.
Slots == {"auth", "page"}

VARIABLES
    jar,        \* the browser's cookies: jwt, refresh token, session id, role
    sessions,   \* external: the control plane's auth_tokens rows, by session id
    issued,     \* external: how many sessions were issued
    req,        \* the request in each slot, and how far its route has come
    user,       \* AuthContext: the role of the signed-in user, or None
    loading,    \* AuthContext: the first /me has not been answered
    page,       \* the path the browser shows
    going,      \* a full page load started by window.location.href, or None
    form,       \* the sign-in form: a right code is being turned into a session
    visits, mishaps

vars == <<jar, sessions, issued, req, user, loading, page, going, form, visits, mishaps>>

-----------------------------------------------------------------------------
\* lib/auth.ts

normalizeRole(value) ==
    IF value \in Roles THEN value ELSE IF value = "user" THEN "viewer" ELSE None

roleHomePath(role) ==
    CASE role = "admin" -> "/dashboard"
      [] role = "operator" -> "/operator-console"
      [] OTHER -> "/viewer-console"

OPERATOR_ALLOWED_PREFIXES ==
    {"/operator-console", "/device-management", "/mobile-devices",
     "/device-detail", "/command-dispatch", "/command-results",
     "/command-history", "/command-scheduling", "/alerts", "/notifications",
     "/telemetry-monitoring", "/compliance", "/audit", "/webhooks", "/profile"}

VIEWER_ALLOWED_PREFIXES ==
    {"/viewer-console", "/device-management", "/mobile-devices",
     "/device-detail", "/notifications", "/compliance", "/audit", "/profile"}

\* Sidebar.tsx: the links a role is offered, /profile in the footer included.
NavPaths(role) ==
    LET everyone == {"/device-management", "/mobile-devices", "/notifications",
                     "/compliance", "/audit", "/profile"}
        command == {"/command-dispatch", "/command-results", "/command-history",
                    "/command-scheduling", "/alerts", "/telemetry-monitoring",
                    "/webhooks"}
    IN  CASE role = "admin" -> everyone \cup command
                    \cup {"/dashboard", "/system-health", "/settings"}
          [] role = "operator" -> everyone \cup command \cup {"/operator-console"}
          [] OTHER -> everyone \cup {"/viewer-console"}

\* Mutant: the sign-in page leads home before the cookies are looked at.
middlewareHomeFirst(path, j) ==
    LET role == normalizeRole(j.role)
        allowed == IF role = "operator" THEN OPERATOR_ALLOWED_PREFIXES
                                        ELSE VIEWER_ALLOWED_PREFIXES
    IN  IF path \in {"/", Login} THEN roleHomePath(role)
        ELSE IF j.jwt = 0 \/ role = None THEN Login
        ELSE IF role = "admin" \/ path \in allowed THEN path
        ELSE roleHomePath(role)

\* middleware.ts: where one request for path is sent; itself when it is served.
middleware(path, j) ==
    LET role == normalizeRole(j.role)
        allowed == IF role = "operator" THEN OPERATOR_ALLOWED_PREFIXES
                                        ELSE VIEWER_ALLOWED_PREFIXES
    IN  IF j.jwt = 0 \/ role = None THEN Login
        ELSE IF path \notin {"/", Login} /\ (role = "admin" \/ path \in allowed) THEN path
        ELSE roleHomePath(role)

\* The page a browser ends on when it asks for path and follows one redirect.
Land(path) == middleware(middleware(path, jar), jar)

-----------------------------------------------------------------------------
\* api/auth/_shared.ts: what a response does to the jar

NoCookies == [jwt |-> 0, refresh |-> 0, sid |-> 0, role |-> None]

attachAuthCookies(j, c) == c

attachTokenCookies(j, c) ==
    [j EXCEPT !.jwt = c.jwt, !.refresh = c.refresh, !.sid = c.sid,
              !.role = IF c.role # None THEN c.role ELSE @]

\* Mutant: the role cookie is not cleared.
clearTokenCookies(j) == [NoCookies EXCEPT !.role = j.role]

clearAuthCookies(j) == NoCookies

\* The Set-Cookie headers of an answer, applied when the browser receives it.
SetCookies(j, answer) ==
    CASE answer.set = "keep" -> j
      [] answer.set = "clear" -> clearAuthCookies(j)
      [] answer.set = "token" -> attachTokenCookies(j, answer.cookies)
      [] OTHER -> attachAuthCookies(j, answer.cookies)

Idle == [kind |-> None]
Kinds == {"me", "loginMe", "proxy", "pair", "logout"}

Request(kind) == [kind |-> kind, cookies |-> jar, pair |-> jar.jwt, st |-> "sent"]

Answered(r, status, set, cookies) ==
    [kind |-> r.kind, st |-> "answered", status |-> status, set |-> set,
     cookies |-> IF set = "keep" THEN NoCookies ELSE cookies]

\* External: VerifyJWT lets pair p of session s through.
Accepts(s, p) == s # 0 /\ ~sessions[s].revoked /\ p > sessions[s].expired

\* External: the session's row once an accepted call of this kind has run;
\* POST /pair/confirm makes a viewer an operator.
AfterCall(kind, row) ==
    IF kind = "pair" /\ normalizeRole(row.role) = "viewer"
    THEN [row EXCEPT !.role = "operator", !.granted = @ \cup {"operator"}]
    ELSE row

\* /me answers with the cookies it was sent, or the refreshed ones, every time.
MeAnswer(r, row) ==
    Answered(r, 200, "token",
             [jwt |-> r.pair, refresh |-> r.pair, sid |-> r.cookies.sid,
              role |-> normalizeRole(row.role)])

\* Mutant: an answer that names no role is taken for a viewer's.
ProxyAnswerAsViewer(r, row) ==
    LET payloadRole == IF r.kind = "pair" THEN normalizeRole(row.role) ELSE None
        didRefresh == r.pair # r.cookies.jwt
    IN  Answered(r, 200, IF didRefresh \/ payloadRole # None THEN "token" ELSE "keep",
                 [jwt |-> r.pair, refresh |-> r.pair, sid |-> r.cookies.sid,
                  role |-> IF payloadRole # None THEN payloadRole ELSE "viewer"])

\* proxyAuthedRequest: cookies are rewritten only after a refresh, or when the
\* payload names the user's role (the answer of /pair/confirm does).
ProxyAnswer(r, row) ==
    LET payloadRole == IF r.kind = "pair" THEN normalizeRole(row.role) ELSE None
        didRefresh == r.pair # r.cookies.jwt
    IN  Answered(r, 200, IF didRefresh \/ payloadRole # None THEN "token" ELSE "keep",
                 [jwt |-> r.pair, refresh |-> r.pair, sid |-> r.cookies.sid,
                  role |-> IF payloadRole # None THEN payloadRole ELSE r.cookies.role])

Success(r, row) == IF r.kind \in {"me", "loginMe"} THEN MeAnswer(r, row)
                                                    ELSE ProxyAnswer(r, row)

\* Mutant: a 401 leaves the cookies alone.
UnauthenticatedKeeps(r) == Answered(r, 401, "keep", NoCookies)

Unauthenticated(r) == Answered(r, 401, "clear", NoCookies)

-----------------------------------------------------------------------------
\* The routes, one step per await. What a route step leaves alone:

RouteStep == UNCHANGED <<jar, issued, user, loading, page, going, form, visits>>

\* The upstream fetch, with the cookies' jwt or, after a refresh, with the new
\* one: an accepted call is answered, a 401 leads to the refresh the first time.
UpstreamFetch(i) ==
    LET r == req[i]
        s == r.cookies.sid IN
    /\ r.kind \in Kinds \ {"logout"} /\ r.st \in {"sent", "retry"}
    /\ IF r.cookies.jwt # 0 /\ Accepts(s, r.pair)
       THEN /\ sessions' = [sessions EXCEPT ![s] = AfterCall(r.kind, @)]
            /\ req' = [req EXCEPT ![i] = Success(r, sessions'[s])]
       ELSE /\ req' = [req EXCEPT ![i] =
                          IF r.st = "sent" /\ r.cookies.jwt # 0 /\ r.cookies.refresh # 0 /\ s # 0
                          THEN [r EXCEPT !.st = "refresh"] ELSE Unauthenticated(r)]
            /\ UNCHANGED sessions
    /\ RouteStep /\ UNCHANGED mishaps

\* refreshJwt: POST /token/refresh with the refresh token of the request.
\* The control plane (external) looks only at the token's hash: it rotates the
\* pair even of a revoked session. A refusal leaves the 401 standing.
RefreshJwt(i) ==
    LET r == req[i]
        s == r.cookies.sid IN
    /\ r.kind # None /\ r.st = "refresh"
    /\ IF r.cookies.refresh = sessions[s].pair
       THEN /\ sessions' = [sessions EXCEPT ![s].pair = @ + 1]
            /\ req' = [req EXCEPT ![i] = [r EXCEPT !.pair = sessions[s].pair + 1,
                                                   !.st = "retry"]]
       ELSE /\ req' = [req EXCEPT ![i] = Unauthenticated(r)]
            /\ UNCHANGED sessions
    /\ RouteStep /\ UNCHANGED mishaps

\* The upstream cannot be reached (503 of /me, an unhandled error of the
\* proxy): cookies are kept, even when a refresh has already rotated the pair.
UpstreamUnreachable(i) ==
    /\ mishaps < MaxMishaps
    /\ req[i].kind \in Kinds \ {"logout"} /\ req[i].st \in {"sent", "refresh", "retry"}
    /\ req[i].cookies.jwt # 0
    /\ req' = [req EXCEPT ![i] = Answered(@, 503, "keep", NoCookies)]
    /\ mishaps' = mishaps + 1
    /\ RouteStep /\ UNCHANGED sessions

\* /me's upstream answers 200 with a body that is no user: 502, cookies cleared.
MeGarbled(i) ==
    /\ mishaps < MaxMishaps
    /\ req[i].kind \in {"me", "loginMe"} /\ req[i].st \in {"sent", "retry"}
    /\ Accepts(req[i].cookies.sid, req[i].pair)
    /\ req' = [req EXCEPT ![i] = Answered(@, 502, "clear", NoCookies)]
    /\ mishaps' = mishaps + 1
    /\ RouteStep /\ UNCHANGED sessions

\* POST /api/auth/logout: the upstream call may fail, the answer is the same.
LogoutRoute(i) ==
    LET r == req[i] IN
    /\ r.kind = "logout" /\ r.st = "sent"
    /\ \/ /\ sessions' = IF r.cookies.sid # 0 /\ Accepts(r.cookies.sid, r.cookies.jwt)
                         THEN [sessions EXCEPT ![r.cookies.sid].revoked = TRUE]
                         ELSE sessions
          /\ UNCHANGED mishaps
       \/ /\ mishaps < MaxMishaps /\ mishaps' = mishaps + 1
          /\ UNCHANGED sessions
    /\ req' = [req EXCEPT ![i] = Answered(r, 200, "clear", NoCookies)]
    /\ RouteStep

-----------------------------------------------------------------------------
\* The browser

Free(i) == req[i] = Idle

Send(i, kind) == req' = [req EXCEPT ![i] = Request(kind)]

\* A page asks for its data (polls, exports and the pairing confirmation).
Fetch(kind) ==
    /\ Free("page") /\ page # Login
    /\ Send("page", kind)
    /\ UNCHANGED <<jar, sessions, issued, user, loading, page, going, form, visits, mishaps>>

\* refreshUser after the pairing modal closes (ViewerDashboard).
RefreshUser ==
    /\ Free("auth") /\ page = "/viewer-console"
    /\ Send("auth", "me")
    /\ UNCHANGED <<jar, sessions, issued, user, loading, page, going, form, visits, mishaps>>

\* handleLogout of AppLayout.
Logout ==
    /\ Free("page") /\ page # Login
    /\ Send("page", "logout")
    /\ UNCHANGED <<jar, sessions, issued, user, loading, page, going, form, visits, mishaps>>

\* Mutant: loading ends only when somebody is signed in.
ReceiveUnlessRefused(i) ==
    LET r == req[i] IN
    /\ r.kind # None /\ r.st = "answered"
    /\ jar' = SetCookies(jar, r)
    /\ req' = [req EXCEPT ![i] = Idle]
    /\ user' = CASE r.kind = "me" -> IF r.status = 200 THEN r.cookies.role ELSE None
                 [] r.kind = "logout" -> None
                 [] OTHER -> user
    /\ loading' = (loading /\ ~(r.kind = "me" /\ r.status = 200))
    /\ going' = CASE r.kind = "logout" -> Login
                  [] r.kind = "loginMe" ->
                        roleHomePath(IF r.status = 200 THEN r.cookies.role ELSE form.role)
                  [] OTHER -> going
    /\ form' = IF r.kind = "loginMe" THEN [form EXCEPT !.verifying = FALSE] ELSE form
    /\ UNCHANGED <<sessions, issued, page, visits, mishaps>>

\* The browser receives an answer: its cookies, then what awaited it.
Receive(i) ==
    LET r == req[i] IN
    /\ r.kind # None /\ r.st = "answered"
    /\ jar' = SetCookies(jar, r)
    /\ req' = [req EXCEPT ![i] = Idle]
    /\ user' = CASE r.kind = "me" -> IF r.status = 200 THEN r.cookies.role ELSE None
                 [] r.kind = "logout" -> None
                 [] OTHER -> user
    /\ loading' = (loading /\ r.kind # "me")
    /\ going' = CASE r.kind = "logout" -> Login
                  [] r.kind = "loginMe" ->
                        roleHomePath(IF r.status = 200 THEN r.cookies.role ELSE form.role)
                  [] OTHER -> going
    /\ form' = IF r.kind = "loginMe" THEN [form EXCEPT !.verifying = FALSE] ELSE form
    /\ UNCHANGED <<sessions, issued, page, visits, mishaps>>

\* A document is loaded: requests of the old one are dropped, AuthProvider
\* mounts and asks /me who is signed in.
Load(path) ==
    /\ page' = Land(path)
    /\ going' = None
    /\ user' = None
    /\ loading' = TRUE
    /\ form' = [verifying |-> FALSE, role |-> None]
    /\ req' = [i \in Slots |-> IF i = "auth" THEN Request("me") ELSE Idle]
    /\ UNCHANGED <<jar, sessions, issued, mishaps>>

Arrive == going # None /\ Load(going) /\ UNCHANGED visits

Visit(path) ==
    /\ going = None /\ visits < MaxVisits
    /\ visits' = visits + 1
    /\ Load(path)

\* next/link: middleware decides, the document and its requests stay.
FollowLink(path) ==
    /\ going = None
    /\ path \in NavPaths(IF user # None THEN user ELSE "viewer") \cap Targets
    /\ page # Login
    /\ page' = Land(path)
    /\ UNCHANGED <<jar, sessions, issued, req, user, loading, going, form, visits, mishaps>>

\* LoginContent's effect: somebody already signed in goes to the role's home.
LoginRedirect ==
    /\ page = Login /\ ~loading /\ user # None /\ going = None
    /\ going' = roleHomePath(user)
    /\ UNCHANGED <<jar, sessions, issued, req, user, loading, page, form, visits, mishaps>>

-----------------------------------------------------------------------------
\* Signing in

NewSession(role) ==
    /\ issued < MaxSessions
    /\ issued' = issued + 1
    /\ sessions' = [sessions EXCEPT ![issued + 1] =
           [pair |-> 1, expired |-> 0, revoked |-> FALSE, role |-> role,
            granted |-> {normalizeRole(role)}]]

\* authCookiesFromPayload of the new session.
SessionCookies(s, role) ==
    [jwt |-> 1, refresh |-> 1, sid |-> s, role |-> normalizeRole(role)]

\* verifyOtp, up to the answer of /api/auth/verify-otp: a right code brings the
\* session's cookies and the call of /me that follows, a wrong one a toast.
VerifyOtp(role) ==
    /\ page = Login /\ ~form.verifying /\ Free("page")
    /\ NewSession(role)
    /\ jar' = attachAuthCookies(jar, SessionCookies(issued + 1, role))
    /\ form' = [form EXCEPT !.verifying = TRUE, !.role = normalizeRole(role)]
    /\ req' = [req EXCEPT !.page = [kind |-> "loginMe", cookies |-> jar', pair |-> 1,
                                  st |-> "sent"]]
    /\ UNCHANGED <<user, loading, page, going, visits, mishaps>>

-----------------------------------------------------------------------------
\* External: time passes at the control plane.
JwtExpires(s) ==
    /\ s \in 1 .. issued /\ sessions[s].expired < sessions[s].pair
    /\ mishaps < MaxMishaps /\ mishaps' = mishaps + 1
    /\ sessions' = [sessions EXCEPT ![s].expired = sessions[s].pair]
    /\ UNCHANGED <<jar, issued, req, user, loading, page, going, form, visits>>

Init ==
    /\ jar = NoCookies
    /\ sessions = [s \in 1 .. MaxSessions |->
           [pair |-> 0, expired |-> 0, revoked |-> FALSE, role |-> None, granted |-> {}]]
    /\ issued = 0
    /\ req = [i \in Slots |-> IF i = "auth" THEN [kind |-> "me", cookies |-> NoCookies,
                                              pair |-> 0, st |-> "sent"] ELSE Idle]
    /\ user = None /\ loading = TRUE
    /\ page = Login /\ going = None
    /\ form = [verifying |-> FALSE, role |-> None]
    /\ visits = 0 /\ mishaps = 0

RouteNext(i) ==
    \/ UpstreamFetch(i) \/ RefreshJwt(i) \/ UpstreamUnreachable(i)
    \/ MeGarbled(i) \/ LogoutRoute(i) \/ Receive(i)

Next ==
    \/ \E i \in Slots : RouteNext(i)
    \/ RefreshUser \/ Logout
    \/ \E kind \in {"proxy", "pair"} : Fetch(kind)
    \/ \E role \in {"admin", "user"} : VerifyOtp(role)
    \/ \E path \in Targets : Visit(path) \/ FollowLink(path)
    \/ Arrive \/ LoginRedirect
    \/ \E s \in 1 .. MaxSessions : JwtExpires(s)

RouteGoesOn(i) == UpstreamFetch(i) \/ RefreshJwt(i) \/ LogoutRoute(i) \/ Receive(i)

Fairness ==
    /\ \A i \in Slots : WF_vars(RouteGoesOn(i))
    /\ WF_vars(Arrive) /\ WF_vars(LoginRedirect)
    /\ WF_vars(Fetch("proxy"))

Spec == Init /\ [][Next]_vars /\ Fairness

-----------------------------------------------------------------------------
\* Properties

AllPaths == UNION {NavPaths(role) : role \in Roles} \cup {"/", Login, "/device-detail"}

\* The four cookies are there together or not at all, whatever the order in
\* which answers that set and answers that clear them arrive: no route ever sees
\* a token without its session or a session without a role.
JarWhole ==
    \/ jar = NoCookies
    \/ jar.jwt # 0 /\ jar.refresh = jar.jwt /\ jar.sid # 0 /\ jar.role # None

\* The role cookie, which middleware trusts, is one the control plane granted
\* to the very session whose token lies beside it, also when one account signs
\* in while answers for another are still under way.
RoleIsGranted == jar.sid # 0 => jar.role \in sessions[jar.sid].granted

\* Middleware never sends a browser round in circles: whatever the jar holds,
\* one redirect leads to a page that is served, and every link the sidebar
\* offers a role is served as it stands.
RedirectsSettle ==
    /\ \A path \in AllPaths : middleware(Land(path), jar) = Land(path)
    /\ jar.jwt # 0 => \A path \in NavPaths(jar.role) : middleware(path, jar) = path

\* A browser left with the cookies of a revoked session (an answer of /me that
\* was under way put them back after logout) gets rid of them.
RevokedCookiesDropped == []<>(jar.sid # 0 => ~sessions[jar.sid].revoked)
=============================================================================
