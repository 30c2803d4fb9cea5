---------------------------- MODULE AccessProofs ----------------------------
(***************************************************************************)
(* Who gets in, and which device.  The cookies of the console, for any     *)
(* number of sessions, visits, links and mishaps: they stay whole, and the *)
(* role beside a token is one the control plane granted to the token's     *)
(* session.  The pairing modal, for any set of devices and any number of   *)
(* sessions, presentations, overlapping polls and lost answers: the token  *)
(* it would confirm is the token of the device it shows, and modal and     *)
(* control plane together implement PairingPromise.                        *)
(***************************************************************************)
EXTENDS ConsoleSession, DevicePairing, TLAPS

-----------------------------------------------------------------------------
(* Sessions and cookies *)

CookieJar == [jwt : Nat, refresh : Nat, sid : Nat, role : Roles \cup {None}]
SessionRow == [pair : Nat, expired : Nat, revoked : BOOLEAN,
               role : Roles \cup {"user", None}, granted : SUBSET Roles]

\* Cookies of one of the first n sessions, with a role granted to it.
Backed(c, rows, n) ==
    /\ c \in CookieJar
    /\ c.jwt # 0 /\ c.refresh = c.jwt /\ c.sid \in 1 .. n
    /\ c.role # None /\ c.role \in rows[c.sid].granted
Sound(c, rows, n) == c = NoCookies \/ Backed(c, rows, n)

Underway == [kind : Kinds, cookies : CookieJar, pair : Nat, st : {"sent", "refresh", "retry"}]
Replied == [kind : Kinds, st : {"answered"}, status : Nat, set : {"keep", "clear", "token"}, cookies : CookieJar]

\* A request carries sound cookies, backed ones once its route refreshes them; an answer that writes cookies backed ones.
RequestSound(r, rows, n) ==
    \/ r = Idle
    \/ r \in Underway /\ Sound(r.cookies, rows, n) /\ (r.st = "refresh" => Backed(r.cookies, rows, n))
    \/ r \in Replied /\ (r.set = "token" => Backed(r.cookies, rows, n))

\* The role the control plane holds for a session is among those it granted.
RowsSound(rows, n) ==
    /\ rows \in [1 .. MaxSessions -> SessionRow]
    /\ n \in 0 .. MaxSessions
    /\ \A s \in 1 .. n : normalizeRole(rows[s].role) \in rows[s].granted

\* The inductive invariant: jar and requests need each other, since a request
\* takes its cookies from the jar and an answer gives them back.
JarInv ==
    /\ RowsSound(sessions, issued)
    /\ Sound(jar, sessions, issued)
    /\ req = [i \in Slots |-> req[i]]
    /\ \A i \in Slots : RequestSound(req[i], sessions, issued)

-----------------------------------------------------------------------------
(* Lemmas *)

\* The rows of issued sessions keep what they granted from one step to the next.
Grows(old, new, n) == \A s \in 1 .. n : old[s].granted \subseteq new[s].granted

\* What is sound stays so when sessions are added and grants grow.
LEMMA SoundKept ==
    ASSUME NEW old, NEW new, NEW n \in Nat, NEW m \in Nat, n <= m, Grows(old, new, n)
    PROVE  /\ \A c : Backed(c, old, n) => Backed(c, new, m)
           /\ \A c : Sound(c, old, n) => Sound(c, new, m)
           /\ \A r : RequestSound(r, old, n) => RequestSound(r, new, m)
  <1>1. \A c : Backed(c, old, n) => Backed(c, new, m)
    BY DEF Backed, Grows, CookieJar
  <1>2. \A c : Sound(c, old, n) => Sound(c, new, m)
    BY <1>1 DEF Sound
  <1> QED
    BY <1>1, <1>2 DEF RequestSound

\* Roles the console writes are roles.
LEMMA NormalRoles == \A v : normalizeRole(v) \in Roles \cup {None}
  BY DEF normalizeRole, Roles, None

\* No cookies are sound, and a jar.
LEMMA NoCookiesSound == NoCookies \in CookieJar /\ \A rows, n : Sound(NoCookies, rows, n)
  BY DEF NoCookies, CookieJar, Sound

\* An answer that keeps or clears the cookies is sound.
LEMMA KeepingSound ==
    ASSUME NEW r \in Underway, NEW status \in Nat, NEW set \in {"keep", "clear"}, NEW rows, NEW n
    PROVE  RequestSound(Answered(r, status, set, NoCookies), rows, n)
  <1>1. Answered(r, status, set, NoCookies) \in Replied
    BY NoCookiesSound DEF Answered, Replied, Underway
  <1>2. Answered(r, status, set, NoCookies).set # "token"
    BY DEF Answered
  <1> QED
    BY <1>1, <1>2 DEF RequestSound

\* What an answer does to a sound jar.
LEMMA SetCookiesSound ==
    ASSUME NEW rows, NEW n, NEW j, Sound(j, rows, n), NEW r \in Replied, RequestSound(r, rows, n)
    PROVE  Sound(SetCookies(j, r), rows, n)
  <1>1. CASE r.set = "keep"
    BY <1>1 DEF SetCookies
  <1>2. CASE r.set = "clear"
    BY <1>2, NoCookiesSound DEF SetCookies, clearAuthCookies
  <1>3. CASE r.set = "token"
    <2>1. Backed(r.cookies, rows, n)
      BY <1>3 DEF RequestSound, Idle, Underway, Replied
    <2>2. j \in CookieJar
      BY NoCookiesSound DEF Sound, Backed
    <2>3. SetCookies(j, r) = attachTokenCookies(j, r.cookies)
      BY <1>3 DEF SetCookies
    <2>4. Backed(attachTokenCookies(j, r.cookies), rows, n)
      BY <2>1, <2>2 DEF attachTokenCookies, Backed, CookieJar
    <2> QED
      BY <2>3, <2>4 DEF Sound
  <1> QED
    BY <1>1, <1>2, <1>3 DEF Replied

\* The answer to a call the control plane accepted: its cookies, if it writes
\* any, are the session's, with a role of the row it was answered from.
LEMMA SuccessSound ==
    ASSUME NEW rows, NEW n \in Nat, NEW r \in Underway, r.kind # "logout",
           Backed(r.cookies, rows, n), r.pair # 0, NEW row,
           row = rows[r.cookies.sid], normalizeRole(row.role) \in row.granted,
           normalizeRole(row.role) # None
    PROVE  RequestSound(Success(r, row), rows, n)
  <1> DEFINE c(role) == [jwt |-> r.pair, refresh |-> r.pair, sid |-> r.cookies.sid, role |-> role]
  <1>1. ASSUME NEW role \in Roles, role \in row.granted
        PROVE  Backed(c(role), rows, n)
    BY <1>1 DEF Backed, CookieJar, Underway, Roles, None
  <1>2. ASSUME NEW role \in Roles, role \in row.granted, NEW set \in {"keep", "token"}
        PROVE  RequestSound(Answered(r, 200, set, c(role)), rows, n)
    <2>1. CASE set = "token"
      <3>1. Answered(r, 200, set, c(role)) \in Replied
        BY <1>1, <1>2, <2>1 DEF Answered, Replied, Underway, Backed
      <3>2. Answered(r, 200, set, c(role)).cookies = c(role)
        BY <2>1 DEF Answered
      <3> QED
        BY <1>1, <1>2, <3>1, <3>2 DEF RequestSound
    <2>2. CASE set = "keep"
      <3>1. Answered(r, 200, set, c(role)) = Answered(r, 200, set, NoCookies)
        BY <2>2 DEF Answered
      <3> QED
        BY <2>2, <3>1, KeepingSound
    <2> QED
      BY <1>2, <2>1, <2>2
  <1>3. normalizeRole(row.role) \in Roles /\ r.cookies.role \in Roles /\ r.cookies.role \in row.granted
    BY NormalRoles DEF Backed, CookieJar
  <1>4. RequestSound(MeAnswer(r, row), rows, n)
    BY <1>2, <1>3 DEF MeAnswer
  <1>5. RequestSound(ProxyAnswer(r, row), rows, n)
    <2>1. PICK set \in {"keep", "token"}, role \in {normalizeRole(row.role), r.cookies.role} :
              ProxyAnswer(r, row) = Answered(r, 200, set, c(role))
      BY DEF ProxyAnswer
    <2> QED
      BY <1>2, <1>3, <2>1
  <1> QED
    BY <1>4, <1>5 DEF Success
-----------------------------------------------------------------------------
(* The inductive invariant *)

\* A step that leaves one slot with a sound request, the jar sound and the rows
\* grown at most, preserves the invariant.
LEMMA SlotStep ==
    ASSUME JarInv, NEW i \in Slots, NEW x, req' = [req EXCEPT ![i] = x],
           RowsSound(sessions', issued'), issued <= issued', Grows(sessions, sessions', issued),
           Sound(jar', sessions', issued'), RequestSound(x, sessions', issued')
    PROVE  JarInv'
  <1>1. issued \in Nat /\ issued' \in Nat
    BY DEF JarInv, RowsSound
  <1>2. \A k \in Slots : RequestSound(req'[k], sessions', issued')
    <2>1. \A k \in Slots : RequestSound(req[k], sessions', issued')
      BY <1>1, SoundKept DEF JarInv
    <2> QED
      BY <2>1 DEF JarInv
  <1>3. req' = [k \in Slots |-> req'[k]]
    BY DEF JarInv
  <1> QED
    BY <1>2, <1>3 DEF JarInv

\* The rows stay sound, and grow, when they stay the same.
LEMMA SameRows ==
    ASSUME JarInv, UNCHANGED <<sessions, issued>>
    PROVE  RowsSound(sessions', issued') /\ issued <= issued' /\ Grows(sessions, sessions', issued)
  BY DEF JarInv, RowsSound, Grows

\* A request sent now carries the cookies of the jar.
LEMMA SentSound ==
    ASSUME JarInv, NEW kind \in Kinds
    PROVE  Request(kind) \in Underway /\ RequestSound(Request(kind), sessions, issued)
  <1>1. jar \in CookieJar /\ Sound(jar, sessions, issued)
    BY NoCookiesSound DEF JarInv, Sound, Backed
  <1>2. Request(kind) \in Underway /\ Request(kind).cookies = jar /\ Request(kind).st = "sent"
    BY <1>1 DEF Request, Underway, CookieJar
  <1> QED
    BY <1>1, <1>2 DEF RequestSound

\* The empty browser: no cookies, no sessions, /me under way without cookies.
LEMMA JarInvInit ==
    ASSUME MaxSessions \in Nat
    PROVE  Init => JarInv
  <1> SUFFICES ASSUME Init PROVE JarInv
    OBVIOUS
  <1>1. RowsSound(sessions, issued) /\ Sound(jar, sessions, issued)
    BY NoCookiesSound DEF Init, RowsSound, SessionRow, Roles, None
  <1>2. [kind |-> "me", cookies |-> NoCookies, pair |-> 0, st |-> "sent"] \in Underway
    BY NoCookiesSound DEF Underway, Kinds
  <1>3. \A i \in Slots : RequestSound(req[i], sessions, issued)
    BY <1>2, NoCookiesSound DEF Init, RequestSound
  <1>4. req = [i \in Slots |-> req[i]]
    BY DEF Init
  <1> QED
    BY <1>1, <1>3, <1>4 DEF JarInv
\* A row that changes and keeps its grants and a granted role leaves the rows sound.
LEMMA RowStep ==
    ASSUME MaxSessions \in Nat, JarInv, NEW s \in 1 .. issued, NEW row \in SessionRow,
           sessions' = [sessions EXCEPT ![s] = row], issued' = issued,
           sessions[s].granted \subseteq row.granted, normalizeRole(row.role) \in row.granted
    PROVE  RowsSound(sessions', issued') /\ issued <= issued' /\ Grows(sessions, sessions', issued)
  <1>1. issued \in 0 .. MaxSessions /\ sessions \in [1 .. MaxSessions -> SessionRow] /\ issued <= issued'
    BY DEF JarInv, RowsSound
  <1>2. \A t \in 1 .. issued : sessions'[t] = IF t = s THEN row ELSE sessions[t]
    BY <1>1
  <1>3. Grows(sessions, sessions', issued)
    BY <1>2 DEF Grows
  <1>4. RowsSound(sessions', issued')
    BY <1>1, <1>2 DEF JarInv, RowsSound
  <1> QED
    BY <1>1, <1>3, <1>4

\* The steps of the routes, one slot each.
LEMMA RouteSound ==
    ASSUME MaxSessions \in Nat, JarInv, NEW i \in Slots, RouteNext(i)
    PROVE  JarInv'
  <1>0. /\ RequestSound(req[i], sessions, issued) /\ Sound(jar, sessions, issued)
        /\ sessions \in [1 .. MaxSessions -> SessionRow] /\ issued \in 0 .. MaxSessions
        /\ \A s \in 1 .. issued : normalizeRole(sessions[s].role) \in sessions[s].granted
    BY DEF JarInv, RowsSound
  <1>1. ASSUME req[i].kind # None, req[i].st # "answered"
        PROVE  /\ req[i] \in Underway /\ Sound(req[i].cookies, sessions, issued)
               /\ req[i].st = "refresh" => Backed(req[i].cookies, sessions, issued)
    BY <1>0, <1>1 DEF RequestSound, Idle, Replied
  <1>k. \A kind \in Kinds : kind # None
    BY DEF Kinds, None
  <1>2. CASE UpstreamFetch(i)
    <2> DEFINE r == req[i]
               s == r.cookies.sid
    <2>1. r \in Underway /\ Sound(r.cookies, sessions, issued) /\ jar' = jar /\ issued' = issued
      BY <1>1, <1>2, <1>k DEF UpstreamFetch, RouteStep
    <2>2. CASE r.cookies.jwt # 0 /\ Accepts(s, r.pair)
      <3>1. /\ sessions' = [sessions EXCEPT ![s] = AfterCall(r.kind, sessions[s])]
            /\ req' = [req EXCEPT ![i] = Success(r, sessions'[s])] /\ r.kind # "logout"
        BY <1>2, <2>2 DEF UpstreamFetch
      <3>2. Backed(r.cookies, sessions, issued) /\ s \in 1 .. issued /\ s \in 1 .. MaxSessions
        BY <1>0, <2>1, <2>2 DEF Sound, NoCookies, Backed
      <3>3. sessions[s] \in SessionRow /\ normalizeRole(sessions[s].role) \in sessions[s].granted
        BY <1>0, <3>2
      <3>4. /\ AfterCall(r.kind, sessions[s]) \in SessionRow
            /\ sessions[s].granted \subseteq AfterCall(r.kind, sessions[s]).granted
            /\ normalizeRole(AfterCall(r.kind, sessions[s]).role) \in AfterCall(r.kind, sessions[s]).granted
        BY <3>3 DEF AfterCall, SessionRow, normalizeRole, Roles
      <3>5. RowsSound(sessions', issued') /\ issued <= issued' /\ Grows(sessions, sessions', issued)
        BY <2>1, <3>1, <3>2, <3>4, RowStep
      <3>6. sessions'[s] = AfterCall(r.kind, sessions[s])
        BY <1>0, <3>1, <3>2
      <3>7. Backed(r.cookies, sessions', issued') /\ Sound(jar', sessions', issued')
        BY <1>0, <2>1, <3>2, <3>5, SoundKept
      <3>8. r.pair # 0
        BY <2>1, <2>2, <3>3 DEF Accepts, Underway, SessionRow
      <3>9. normalizeRole(sessions'[s].role) # None
        BY <3>4, <3>6 DEF SessionRow, Roles, None
      <3>10. RequestSound(Success(r, sessions'[s]), sessions', issued')
        <4>1. issued' \in Nat
          BY <1>0, <2>1
        <4>2. normalizeRole(sessions'[s].role) \in sessions'[s].granted
          BY <3>4, <3>6
        <4> QED
          BY <2>1, <3>1, <3>7, <3>8, <3>9, <4>1, <4>2, SuccessSound
      <3> QED
        BY <3>1, <3>5, <3>7, <3>10, SlotStep
    <2>3. CASE ~(r.cookies.jwt # 0 /\ Accepts(s, r.pair))
      <3>1. PICK x : /\ req' = [req EXCEPT ![i] = x]
                     /\ \/ x = [r EXCEPT !.st = "refresh"] /\ r.cookies.refresh # 0
                        \/ x = Unauthenticated(r)
        BY <1>2, <2>3 DEF UpstreamFetch
      <3>2. ASSUME r.cookies.refresh # 0 PROVE RequestSound([r EXCEPT !.st = "refresh"], sessions, issued)
        <4>1. Backed(r.cookies, sessions, issued)
          BY <2>1, <3>2 DEF Sound, NoCookies
        <4> QED
          BY <2>1, <4>1 DEF RequestSound, Underway
      <3>3. RequestSound(Unauthenticated(r), sessions, issued)
        BY <2>1, KeepingSound DEF Unauthenticated
      <3>4. sessions' = sessions
        BY <1>2, <2>3 DEF UpstreamFetch
      <3> QED
        BY <1>0, <2>1, <3>1, <3>2, <3>3, <3>4, SameRows, SlotStep
    <2> QED
      BY <2>2, <2>3
  <1>3. CASE RefreshJwt(i)
    <2> DEFINE r == req[i]
               s == r.cookies.sid
    <2>1. r \in Underway /\ Sound(r.cookies, sessions, issued) /\ jar' = jar /\ issued' = issued
      BY <1>1, <1>3 DEF RefreshJwt, RouteStep
    <2>s. s \in 1 .. issued
      BY <1>1, <1>3 DEF RefreshJwt, Backed
    <2>2. CASE r.cookies.refresh = sessions[s].pair
      <3> DEFINE row == [sessions[s] EXCEPT !.pair = @ + 1]
                 x == [r EXCEPT !.pair = sessions[s].pair + 1, !.st = "retry"]
      <3>1. s \in 1 .. MaxSessions /\ sessions[s] \in SessionRow /\ sessions[s].pair + 1 \in Nat
        BY <1>0, <2>s DEF SessionRow
      <3>2. sessions' = [sessions EXCEPT ![s] = row] /\ req' = [req EXCEPT ![i] = x]
        BY <1>3, <2>2 DEF RefreshJwt
      <3>3. row \in SessionRow /\ row.granted = sessions[s].granted /\ row.role = sessions[s].role
        BY <3>1 DEF SessionRow
      <3>4. RowsSound(sessions', issued') /\ issued <= issued' /\ Grows(sessions, sessions', issued)
        BY <1>0, <2>1, <2>s, <3>2, <3>3, RowStep
      <3>5. Sound(r.cookies, sessions', issued') /\ Sound(jar', sessions', issued')
        BY <1>0, <2>1, <3>4, SoundKept
      <3>6. x \in Underway /\ x.cookies = r.cookies /\ x.st = "retry"
        BY <2>1, <3>1 DEF Underway
      <3>7. RequestSound(x, sessions', issued')
        BY <3>5, <3>6 DEF RequestSound
      <3> QED
        BY <3>2, <3>4, <3>5, <3>7, SlotStep
    <2>3. CASE r.cookies.refresh # sessions[s].pair
      <3>1. req' = [req EXCEPT ![i] = Unauthenticated(r)] /\ sessions' = sessions
        BY <1>3, <2>3 DEF RefreshJwt
      <3>2. RequestSound(Unauthenticated(r), sessions, issued)
        BY <2>1, KeepingSound DEF Unauthenticated
      <3> QED
        BY <1>0, <2>1, <3>1, <3>2, SameRows, SlotStep
    <2> QED
      BY <2>2, <2>3
  <1>4. CASE UpstreamUnreachable(i) \/ MeGarbled(i)
    <2>1. req[i] \in Underway /\ UNCHANGED <<jar, issued, sessions>>
      BY <1>1, <1>4, <1>k DEF UpstreamUnreachable, MeGarbled, RouteStep, None
    <2>2. CASE UpstreamUnreachable(i)
      <3>1. req' = [req EXCEPT ![i] = Answered(req[i], 503, "keep", NoCookies)]
        BY <2>2 DEF UpstreamUnreachable
      <3>2. RequestSound(Answered(req[i], 503, "keep", NoCookies), sessions', issued')
        BY <2>1, KeepingSound
      <3> QED
        BY <1>0, <2>1, <3>1, <3>2, SameRows, SlotStep
    <2>3. CASE MeGarbled(i)
      <3>1. req' = [req EXCEPT ![i] = Answered(req[i], 502, "clear", NoCookies)]
        BY <2>3 DEF MeGarbled
      <3>2. RequestSound(Answered(req[i], 502, "clear", NoCookies), sessions', issued')
        BY <2>1, KeepingSound
      <3> QED
        BY <1>0, <2>1, <3>1, <3>2, SameRows, SlotStep
    <2> QED
      BY <1>4, <2>2, <2>3
  <1>5. CASE LogoutRoute(i)
    <2> DEFINE r == req[i]
               s == r.cookies.sid
    <2>1. /\ r \in Underway /\ Sound(r.cookies, sessions, issued) /\ jar' = jar /\ issued' = issued
          /\ req' = [req EXCEPT ![i] = Answered(r, 200, "clear", NoCookies)]
      BY <1>1, <1>5, <1>k DEF LogoutRoute, RouteStep, None
    <2>2. RowsSound(sessions', issued') /\ issued <= issued' /\ Grows(sessions, sessions', issued)
      <3>1. CASE sessions' = sessions
        BY <2>1, <3>1, SameRows
      <3>2. CASE sessions' # sessions
        <4>1. sessions' = [sessions EXCEPT ![s].revoked = TRUE] /\ s # 0
          BY <1>5, <3>2 DEF LogoutRoute
        <4>2. s \in 1 .. issued /\ s \in 1 .. MaxSessions
          BY <1>0, <2>1, <4>1 DEF Sound, NoCookies, Backed
        <4>3. sessions[s] \in SessionRow /\ normalizeRole(sessions[s].role) \in sessions[s].granted
          BY <1>0, <4>2
        <4> DEFINE row == [sessions[s] EXCEPT !.revoked = TRUE]
        <4>4. row \in SessionRow /\ row.granted = sessions[s].granted /\ row.role = sessions[s].role
          BY <4>3 DEF SessionRow
        <4>5. sessions' = [sessions EXCEPT ![s] = row]
          BY <4>1
        <4> HIDE DEF row
        <4> QED
          BY <2>1, <4>2, <4>3, <4>4, <4>5, RowStep
      <3> QED
        BY <3>1, <3>2
    <2>3. Sound(jar', sessions', issued') /\ RequestSound(Answered(r, 200, "clear", NoCookies), sessions', issued')
      BY <1>0, <2>1, <2>2, SoundKept, KeepingSound
    <2> QED
      BY <2>1, <2>2, <2>3, SlotStep
  <1>6. CASE Receive(i)
    <2>1. req[i] \in Replied
      BY <1>0, <1>6 DEF Receive, RequestSound, Idle, Underway
    <2>2. Sound(jar', sessions', issued') /\ UNCHANGED <<sessions, issued>> /\ req' = [req EXCEPT ![i] = Idle]
      BY <1>0, <1>6, <2>1, SetCookiesSound DEF Receive
    <2>3. RequestSound(Idle, sessions', issued')
      BY DEF RequestSound
    <2> QED
      BY <2>2, <2>3, SameRows, SlotStep
  <1> QED
    BY <1>2, <1>3, <1>4, <1>5, <1>6 DEF RouteNext
\* The steps of the browser, its user and the control plane's clock.
LEMMA BrowserSound ==
    ASSUME MaxSessions \in Nat, JarInv,
           \/ RefreshUser \/ Logout \/ Arrive \/ LoginRedirect
           \/ \E kind \in {"proxy", "pair"} : Fetch(kind)
           \/ \E path \in Targets : Visit(path) \/ FollowLink(path)
    PROVE  JarInv'
  <1>0. Sound(jar, sessions, issued) /\ UNCHANGED <<jar, sessions, issued>>
    BY DEF JarInv, RefreshUser, Logout, Arrive, LoginRedirect, Fetch, Visit, FollowLink, Load
  <1>1. ASSUME NEW i \in Slots, NEW kind \in Kinds, Send(i, kind) PROVE JarInv'
    BY <1>0, <1>1, SentSound, SameRows, SlotStep DEF Send
  <1>2. CASE RefreshUser \/ Logout \/ \E kind \in {"proxy", "pair"} : Fetch(kind)
    BY <1>1, <1>2 DEF RefreshUser, Logout, Fetch, Slots, Kinds
  <1>3. ASSUME NEW path, Load(path) PROVE JarInv'
    <2>1. req' = [i \in Slots |-> IF i = "auth" THEN Request("me") ELSE Idle]
      BY <1>3 DEF Load
    <2>2. RequestSound(Request("me"), sessions', issued') /\ RequestSound(Idle, sessions', issued')
      BY <1>0, SentSound DEF Kinds, RequestSound
    <2>3. \A i \in Slots : RequestSound(req'[i], sessions', issued')
      BY <2>1, <2>2
    <2>4. req' = [i \in Slots |-> req'[i]]
      BY <2>1
    <2> QED
      BY <1>0, <2>3, <2>4, SameRows DEF JarInv
  <1>4. CASE req' = req
    BY <1>0, <1>4 DEF JarInv
  <1> QED
    BY <1>2, <1>3, <1>4 DEF Arrive, Visit, LoginRedirect, FollowLink

\* Signing in: a new row, and its cookies in the jar and in the call of /me.
LEMMA SignInSound ==
    ASSUME MaxSessions \in Nat, JarInv, NEW role \in {"admin", "user"}, VerifyOtp(role)
    PROVE  JarInv'
  <1> DEFINE n == issued + 1
             row == [pair |-> 1, expired |-> 0, revoked |-> FALSE, role |-> role, granted |-> {normalizeRole(role)}]
             c == SessionCookies(n, role)
             x == [kind |-> "loginMe", cookies |-> c, pair |-> 1, st |-> "sent"]
  <1>1. /\ issued < MaxSessions /\ issued' = n /\ sessions' = [sessions EXCEPT ![n] = row]
        /\ jar' = c /\ req' = [req EXCEPT !["page"] = x]
    BY DEF VerifyOtp, NewSession, attachAuthCookies
  <1>2. issued \in Nat /\ n \in 1 .. MaxSessions /\ sessions \in [1 .. MaxSessions -> SessionRow]
    BY <1>1 DEF JarInv, RowsSound
  <1>3. normalizeRole(role) \in Roles /\ normalizeRole(role) # None
    BY DEF normalizeRole, Roles, None
  <1>4. row \in SessionRow
    <2>1. {normalizeRole(role)} \in SUBSET Roles /\ role \in Roles \cup {"user", None}
      BY <1>3 DEF Roles
    <2> QED
      BY <2>1 DEF SessionRow
  <1>5. \A t \in 1 .. MaxSessions : sessions'[t] = IF t = n THEN row ELSE sessions[t]
    BY <1>1, <1>2
  <1>6. Grows(sessions, sessions', issued) /\ issued <= issued'
    BY <1>1, <1>2, <1>5 DEF Grows
  <1>7. RowsSound(sessions', issued')
    <2>1. sessions' \in [1 .. MaxSessions -> SessionRow] /\ issued' \in 0 .. MaxSessions
      BY <1>1, <1>2, <1>4
    <2>2. ASSUME NEW t \in 1 .. issued' PROVE normalizeRole(sessions'[t].role) \in sessions'[t].granted
      <3>1. CASE t = n
        BY <1>2, <1>5, <3>1
      <3>2. CASE t # n
        <4>1. t \in 1 .. issued /\ t \in 1 .. MaxSessions
          BY <1>1, <1>2, <3>2
        <4> QED
          BY <1>5, <3>2, <4>1 DEF JarInv, RowsSound
      <3> QED
        BY <3>1, <3>2
    <2> QED
      BY <2>1, <2>2 DEF RowsSound
  <1>8. Backed(c, sessions', issued')
    <2>1. c \in CookieJar /\ c.jwt = 1 /\ c.refresh = 1 /\ c.sid = n /\ c.role = normalizeRole(role)
      BY <1>2, <1>3 DEF SessionCookies, CookieJar
    <2>2. sessions'[n].granted = {normalizeRole(role)}
      BY <1>2, <1>5
    <2> QED
      BY <1>1, <1>2, <1>3, <2>1, <2>2 DEF Backed
  <1>9. x \in Underway /\ x.cookies = c /\ x.st = "sent"
    BY <1>8 DEF Underway, Kinds, Backed
  <1>10. Sound(c, sessions', issued') /\ RequestSound(x, sessions', issued')
    BY <1>8, <1>9 DEF Sound, RequestSound
  <1> QED
    BY <1>1, <1>6, <1>7, <1>10, SlotStep DEF Slots

\* Time passes: a jwt expires, no grant changes.
LEMMA ExpirySound ==
    ASSUME MaxSessions \in Nat, JarInv, NEW s \in 1 .. MaxSessions, JwtExpires(s)
    PROVE  JarInv'
  <1> DEFINE row == [sessions[s] EXCEPT !.expired = sessions[s].pair]
  <1>1. /\ s \in 1 .. issued /\ sessions' = [sessions EXCEPT ![s] = row]
        /\ UNCHANGED <<jar, issued, req>>
    BY DEF JwtExpires
  <1>2. sessions[s] \in SessionRow /\ normalizeRole(sessions[s].role) \in sessions[s].granted
    BY <1>1 DEF JarInv, RowsSound
  <1>3. row \in SessionRow /\ row.granted = sessions[s].granted /\ row.role = sessions[s].role
    BY <1>2 DEF SessionRow
  <1> HIDE DEF row
  <1>4. RowsSound(sessions', issued') /\ issued <= issued' /\ Grows(sessions, sessions', issued)
    BY <1>1, <1>2, <1>3, RowStep
  <1>5. issued \in Nat /\ Sound(jar, sessions, issued) /\ \A i \in Slots : RequestSound(req[i], sessions, issued)
    BY DEF JarInv, RowsSound
  <1>6. Sound(jar', sessions', issued') /\ \A i \in Slots : RequestSound(req'[i], sessions', issued')
    BY <1>1, <1>4, <1>5, SoundKept
  <1> QED
    BY <1>1, <1>4, <1>6 DEF JarInv

-----------------------------------------------------------------------------
(* The theorems *)

\* The invariant holds in every reachable state.
LEMMA JarInvAlways ==
    ASSUME MaxSessions \in Nat
    PROVE  Spec => []JarInv
  <1>1. Init => JarInv
    BY JarInvInit
  <1>2. JarInv /\ [Next]_vars => JarInv'
    <2> SUFFICES ASSUME JarInv, [Next]_vars PROVE JarInv'
      OBVIOUS
    <2>1. CASE UNCHANGED vars
      BY <2>1 DEF vars, JarInv
    <2> QED
      BY <2>1, RouteSound, BrowserSound, SignInSound, ExpirySound DEF Next
  <1> QED
    BY <1>1, <1>2, PTL DEF Spec

\* The four cookies are there together or not at all, in whatever order the
\* answers that set and that clear them (_shared.ts) reach the browser.
THEOREM JarIsWhole ==
    ASSUME MaxSessions \in Nat
    PROVE  Spec => []JarWhole
  <1>1. JarInv => JarWhole
    BY DEF JarInv, JarWhole, Sound, Backed, RowsSound
  <1> QED
    BY <1>1, JarInvAlways, PTL

\* The role cookie middleware trusts is one the control plane granted to the
\* session of the token beside it, for any number of sessions and sign-ins.
THEOREM RoleIsAlwaysGranted ==
    ASSUME MaxSessions \in Nat
    PROVE  Spec => []RoleIsGranted
  <1>1. JarInv => RoleIsGranted
    BY DEF JarInv, RoleIsGranted, Sound, Backed, NoCookies
  <1> QED
    BY <1>1, JarInvAlways, PTL
\* What middleware serves a role, and where it sends the role otherwise.
LEMMA MiddlewareServes ==
    ASSUME NEW j \in CookieJar, j.jwt # 0, NEW role \in Roles, j.role = role
    PROVE  /\ \A path : middleware(path, j) \in {path, roleHomePath(role)}
           /\ \A path : path = roleHomePath(role) => middleware(path, j) = path
           /\ \A path \in NavPaths(role) : middleware(path, j) = path
  <1>1. normalizeRole(j.role) = role /\ role # None
    BY DEF normalizeRole, Roles, None
  <1>2. CASE role = "admin"
    BY <1>1, <1>2 DEF middleware, roleHomePath, NavPaths, Login
  <1>3. CASE role = "operator"
    BY <1>1, <1>3 DEF middleware, roleHomePath, NavPaths, Login, OPERATOR_ALLOWED_PREFIXES
  <1>4. CASE role = "viewer"
    BY <1>1, <1>4 DEF middleware, roleHomePath, NavPaths, Login, VIEWER_ALLOWED_PREFIXES
  <1> QED
    BY <1>2, <1>3, <1>4 DEF Roles

\* Middleware never sends a browser round in circles, and serves every link the
\* sidebar offers the role in the cookie (middleware.ts, Sidebar.tsx).
THEOREM RedirectsAlwaysSettle ==
    ASSUME MaxSessions \in Nat
    PROVE  Spec => []RedirectsSettle
  <1>1. JarInv => RedirectsSettle
    <2> SUFFICES ASSUME JarInv PROVE RedirectsSettle
      OBVIOUS
    <2>1. CASE jar = NoCookies
      <3>1. \A path : middleware(path, jar) = Login
        BY <2>1 DEF middleware, NoCookies
      <3> QED
        BY <2>1, <3>1 DEF RedirectsSettle, Land, NoCookies
    <2>2. CASE Backed(jar, sessions, issued)
      <3>1. jar \in CookieJar /\ jar.jwt # 0 /\ jar.role \in Roles
        BY <2>2 DEF Backed, CookieJar
      <3>2. \A path : middleware(Land(path), jar) = Land(path)
        BY <3>1, MiddlewareServes DEF Land
      <3>3. \A path \in NavPaths(jar.role) : middleware(path, jar) = path
        BY <3>1, MiddlewareServes
      <3> QED
        BY <3>2, <3>3 DEF RedirectsSettle
    <2> QED
      BY <2>1, <2>2 DEF JarInv, Sound
  <1> QED
    BY <1>1, JarInvAlways, PTL

-----------------------------------------------------------------------------
(* Pairing *)

\* What a cache entry, and so the answer of a poll, looks like.
PairSession == [status : Pending \cup {"gone"}, token : Nat, device : Devices \cup {NoDevice}]

\* Token and device of an entry came from one presentation of the code: an
\* entry that waits for confirmation has both, one that waits for an agent none.
Consistent(e, tokens) ==
    /\ e.token \in 0 .. Len(tokens)
    /\ e.token # 0 => tokens[e.token] = e.device
    /\ e.status = "pending_confirmation" => e.token # 0
    /\ e.status = "pending_agent" => e.token = 0 /\ e.device = NoDevice

\* A confirmation under way carries the token of a device whose challenge was
\* answered.
Confirmation == [session : Nat, token : Nat, answer : {NoDevice, "2xx", "401"}, live : BOOLEAN]

SessionsTyped ==
    /\ opened \in Nat /\ inits \subseteq 0 .. MaxPairSessions /\ pairSessionId \in 0 .. MaxPairSessions
    /\ tokenOf \in Seq(Devices)
    /\ cache \in [1 .. MaxPairSessions -> PairSession] /\ polls \subseteq PairSession

EntriesConsistent ==
    /\ \A s \in 1 .. MaxPairSessions : Consistent(cache[s], tokenOf)
    /\ \A a \in polls : Consistent(a, tokenOf)

ShownConsistent ==
    /\ pairToken \in 0 .. Len(tokenOf)
    /\ pairToken # 0 => tokenOf[pairToken] = pendingDevice

TokensPresented == \A i \in 1 .. Len(tokenOf) : tokenOf[i] \in presented

ConfirmsChallenged ==
    \A c \in confirms :
        c \in Confirmation /\ c.token \in 1 .. Len(tokenOf) /\ tokenOf[c.token] \in challenged

PInv == SessionsTyped /\ EntriesConsistent /\ ShownConsistent /\ TokensPresented /\ ConfirmsChallenged

-----------------------------------------------------------------------------
(* Lemmas *)

\* A token that was issued keeps its device when another one is issued.
LEMMA AppendKeeps ==
    ASSUME NEW tokens \in Seq(Devices), NEW d \in Devices
    PROVE  /\ Append(tokens, d) \in Seq(Devices)
           /\ Len(Append(tokens, d)) = Len(tokens) + 1
           /\ Append(tokens, d)[Len(tokens) + 1] = d
           /\ \A i \in 1 .. Len(tokens) : Append(tokens, d)[i] = tokens[i]
  OBVIOUS

\* An entry stays consistent when a token is issued.
LEMMA ConsistentKept ==
    ASSUME NEW tokens \in Seq(Devices), NEW d \in Devices, NEW e, Consistent(e, tokens)
    PROVE  Consistent(e, Append(tokens, d))
  <1>1. Len(tokens) \in Nat
    OBVIOUS
  <1> QED
    BY <1>1, AppendKeeps DEF Consistent

\* A fresh session, waiting or gone, is consistent.
LEMMA NewIsConsistent ==
    ASSUME NEW s, NEW tokens \in Seq(Devices)
    PROVE  /\ NewCache(s) \in PairSession /\ Consistent(NewCache(s), tokens)
           /\ [NewCache(s) EXCEPT !.status = "gone"] \in PairSession
           /\ Consistent([NewCache(s) EXCEPT !.status = "gone"], tokens)
  <1>1. Len(tokens) \in Nat
    OBVIOUS
  <1> QED
    BY <1>1 DEF NewCache, PairSession, Consistent, Pending, NoDevice

-----------------------------------------------------------------------------
(* The inductive invariant *)

\* The modal closed and no session opened: nothing is inconsistent.
LEMMA PInvInit ==
    ASSUME MaxPairSessions \in Nat
    PROVE  PairingInit => PInv
  <1> SUFFICES ASSUME PairingInit PROVE PInv
    OBVIOUS
  <1>1. tokenOf \in Seq(Devices) /\ Len(tokenOf) = 0
    BY DEF PairingInit
  <1>2. \A s \in 1 .. MaxPairSessions : cache[s] \in PairSession /\ Consistent(cache[s], tokenOf)
    BY <1>1, NewIsConsistent DEF PairingInit
  <1>3. cache \in [1 .. MaxPairSessions -> PairSession]
    BY <1>2 DEF PairingInit

  <1> QED
    BY <1>1, <1>2, <1>3 DEF PairingInit, PInv, SessionsTyped, EntriesConsistent, ShownConsistent,
                            TokensPresented, ConfirmsChallenged
\* A step of the modal that leaves sessions, tokens and polls as they are, takes
\* back what it shows or keeps it, and sends no confirmation.
Shows(token, device) == pairToken' = token /\ pendingDevice' = device

\* Polls may be dropped, confirmations answered or dropped; none of it hurts.
LEMMA Receding ==
    ASSUME PInv, UNCHANGED <<tokenOf, cache, presented, challenged>>,
           opened' = opened, inits' \subseteq 0 .. MaxPairSessions, pairSessionId' \in 0 .. MaxPairSessions,
           polls' \subseteq polls,
           Shows(pairToken, pendingDevice) \/ Shows(0, NoDevice),
           \A c \in confirms' : c \in Confirmation /\ \E b \in confirms : c.token = b.token
    PROVE  PInv'
  <1>1. SessionsTyped' /\ EntriesConsistent' /\ TokensPresented' /\ ConfirmsChallenged'
    BY DEF PInv, SessionsTyped, EntriesConsistent, TokensPresented, ConfirmsChallenged
  <1>2. Len(tokenOf) \in Nat
    BY DEF PInv, SessionsTyped
  <1>3. ShownConsistent'
    BY <1>2 DEF PInv, ShownConsistent, Shows
  <1> QED
    BY <1>1, <1>3 DEF PInv

\* The control plane ends sessions (an expiry, a confirmation) and touches
\* nothing else; what was read of them before stays what it was.
LEMMA Ended ==
    ASSUME PInv, NEW s,
           UNCHANGED <<opened, inits, pairSessionId, pairToken, pendingDevice, polls, tokenOf, presented, challenged>>,
           cache' = cache \/ cache' = [cache EXCEPT ![s].status = "gone"],
           confirms' = confirms \/ \A c \in confirms' : c \in Confirmation /\ \E b \in confirms : c.token = b.token
    PROVE  PInv'
  <1>1. SessionsTyped' /\ \A t \in 1 .. MaxPairSessions : Consistent(cache'[t], tokenOf)
    <2>1. ASSUME NEW e \in PairSession, Consistent(e, tokenOf)
          PROVE  [e EXCEPT !.status = "gone"] \in PairSession /\ Consistent([e EXCEPT !.status = "gone"], tokenOf)
      BY <2>1 DEF PairSession, Consistent
    <2>2. cache' \in [1 .. MaxPairSessions -> PairSession] /\ \A t \in 1 .. MaxPairSessions : Consistent(cache'[t], tokenOf)
      BY <2>1 DEF PInv, SessionsTyped, EntriesConsistent
    <2> QED
      BY <2>2 DEF PInv, SessionsTyped
  <1>2. EntriesConsistent'
    BY <1>1 DEF PInv, EntriesConsistent
  <1>3. ShownConsistent' /\ TokensPresented' /\ ConfirmsChallenged'
    BY DEF PInv, ShownConsistent, TokensPresented, ConfirmsChallenged
  <1> QED
    BY <1>1, <1>2, <1>3 DEF PInv

\* Every step of the modal and of the control plane preserves the invariant.
LEMMA PInvNext ==
    ASSUME MaxPairSessions \in Nat, PInv, [PairingNext]_pairingVars
    PROVE  PInv'
  <1>0. /\ tokenOf \in Seq(Devices) /\ Len(tokenOf) \in Nat
        /\ inits \subseteq 0 .. MaxPairSessions /\ pairSessionId \in 0 .. MaxPairSessions
        /\ \A c \in confirms : c \in Confirmation
    BY DEF PInv, SessionsTyped, ConfirmsChallenged
  <1>1. CASE Open
    BY <1>0, <1>1, Receding DEF Open, SetStep, server, Shows
  <1>2. CASE Close
    <2>1. \A c \in confirms' : c \in Confirmation /\ \E b \in confirms : c.token = b.token
      BY <1>0, <1>2 DEF Close, Confirmation
    <2> QED
      BY <1>0, <1>2, <2>1, Receding DEF Close, SetStep, resetState, server, Shows
  <1>3. CASE CountdownEnds
    BY <1>0, <1>3, Receding DEF CountdownEnds, SetStep, server, Shows
  <1>4. CASE TypeChallenge
    BY <1>0, <1>4, Receding DEF TypeChallenge, server, Shows
  <1>5. ASSUME NEW s \in inits, InitAnswer(s) PROVE PInv'
    BY <1>0, <1>5, Receding DEF InitAnswer, SetStep, server, Shows
  <1>6. ASSUME NEW a \in polls, PollFails(a) PROVE PInv'
    BY <1>0, <1>6, Receding DEF PollFails, modal, server, Shows
  <1>7. ASSUME NEW c \in confirms, ConfirmAnswer(c) PROVE PInv'
    BY <1>0, <1>7, Receding DEF ConfirmAnswer, SetStep, server, Shows
  <1>8. ASSUME NEW c \in confirms, ConfirmLost(c) PROVE PInv'
    BY <1>0, <1>8, Receding DEF ConfirmLost, server, Shows
  <1>9. CASE PollRead
    <2>1. cache[pairSessionId] \in PairSession /\ Consistent(cache[pairSessionId], tokenOf)
      BY <1>9 DEF PollRead, PInv, SessionsTyped, EntriesConsistent
    <2> QED
      BY <1>9, <2>1 DEF PollRead, modal, server, PInv, SessionsTyped, EntriesConsistent,
                        ShownConsistent, TokensPresented, ConfirmsChallenged
  <1>10. ASSUME NEW a \in polls, PollAnswer(a) PROVE PInv'
    <2>1. a \in PairSession /\ Consistent(a, tokenOf)
      BY DEF PInv, SessionsTyped, EntriesConsistent
    <2>2. SessionsTyped' /\ EntriesConsistent' /\ TokensPresented' /\ ConfirmsChallenged'
      BY <1>10 DEF PollAnswer, server, PInv, SessionsTyped, EntriesConsistent, TokensPresented, ConfirmsChallenged
    <2>3. ShownConsistent'
      BY <1>0, <1>10, <2>1 DEF PollAnswer, server, PInv, ShownConsistent, Consistent, PairSession, Pending
    <2> QED
      BY <2>2, <2>3 DEF PInv
  <1>11. CASE handleConfirm
    <2>1. pairToken \in 1 .. Len(tokenOf) /\ tokenOf[pairToken] = typed
      BY <1>0, <1>11 DEF handleConfirm, PInv, ShownConsistent
    <2>2. SessionsTyped' /\ EntriesConsistent' /\ TokensPresented' /\ ShownConsistent'
      BY <1>11 DEF handleConfirm, server, PInv, SessionsTyped, EntriesConsistent, TokensPresented, ShownConsistent
    <2>3. ConfirmsChallenged'
      <3> DEFINE new == [session |-> pairSessionId, token |-> pairToken, answer |-> NoDevice, live |-> TRUE]
      <3>1. confirms' = confirms \cup {new} /\ tokenOf' = tokenOf /\ challenged' = challenged \cup {typed}
        BY <1>11 DEF handleConfirm, server
      <3>2. pairSessionId \in Nat /\ pairToken \in Nat
        BY <1>0, <2>1
      <3>3. new \in Confirmation /\ new.token = pairToken
        BY <3>2 DEF Confirmation
      <3> QED
        BY <2>1, <3>1, <3>3 DEF PInv, ConfirmsChallenged
    <2> QED
      BY <2>2, <2>3 DEF PInv
  <1>12. ASSUME NEW ok \in BOOLEAN, Generate(ok) \/ handleRestart(ok) PROVE PInv'
    <2>1. /\ UNCHANGED <<tokenOf, presented, confirms, challenged>> /\ polls' \subseteq polls
          /\ pairSessionId' \in 0 .. MaxPairSessions /\ (Shows(pairToken, pendingDevice) \/ Shows(0, NoDevice))
          /\ startPairing(ok)
      BY <1>0, <1>12 DEF Generate, handleRestart, SetStep, resetState, Shows
    <2>2. CASE inits' = inits \cup {0} /\ UNCHANGED <<opened, cache>>
      BY <1>0, <2>1, <2>2, Receding
    <2>3. CASE /\ opened < MaxPairSessions /\ opened' = opened + 1 /\ inits' = inits \cup {opened + 1}
               /\ cache' = [cache EXCEPT ![opened + 1] = NewCache(opened + 1)]
      <3>1. SessionsTyped'
        <4>1. opened + 1 \in 0 .. MaxPairSessions /\ opened' \in Nat
          BY <2>3 DEF PInv, SessionsTyped
        <4>2. cache' \in [1 .. MaxPairSessions -> PairSession]
          BY <1>0, <2>3, NewIsConsistent DEF PInv, SessionsTyped
        <4> QED
          BY <1>0, <2>1, <2>3, <4>1, <4>2 DEF PInv, SessionsTyped
      <3>2. EntriesConsistent'
        BY <1>0, <2>1, <2>3, NewIsConsistent DEF PInv, SessionsTyped, EntriesConsistent
      <3>3. ShownConsistent' /\ TokensPresented' /\ ConfirmsChallenged'
        BY <1>0, <2>1 DEF PInv, ShownConsistent, TokensPresented, ConfirmsChallenged, Shows
      <3> QED
        BY <3>1, <3>2, <3>3 DEF PInv
    <2> QED
      BY <2>1, <2>2, <2>3 DEF startPairing
  <1>13. ASSUME NEW d \in Devices, NEW s \in 1 .. opened, PairRequest(d, s) PROVE PInv'
    <2> DEFINE entry == [status |-> "pending_confirmation", token |-> Len(tokenOf) + 1, device |-> d]
    <2>1. tokenOf' = Append(tokenOf, d) /\ cache' = [cache EXCEPT ![s] = entry]
      BY <1>13 DEF PairRequest
    <2>2. entry \in PairSession /\ Consistent(entry, tokenOf')
      BY <1>0, <2>1, AppendKeeps DEF PairSession, Consistent, Pending
    <2>3. SessionsTyped'
      <3>1. cache' \in [1 .. MaxPairSessions -> PairSession]
        BY <2>1, <2>2 DEF PInv, SessionsTyped
      <3>2. tokenOf' \in Seq(Devices)
        BY <1>0, <2>1, AppendKeeps
      <3> QED
        BY <1>13, <3>1, <3>2 DEF PairRequest, modal, PInv, SessionsTyped
    <2>4. EntriesConsistent'
      <3>1. ASSUME NEW t \in 1 .. MaxPairSessions PROVE Consistent(cache'[t], tokenOf')
        <4>1. CASE t = s
          BY <2>1, <2>2, <4>1 DEF PInv, SessionsTyped
        <4>2. CASE t # s
          BY <1>0, <2>1, <4>2, ConsistentKept DEF PInv, SessionsTyped, EntriesConsistent
        <4> QED
          BY <4>1, <4>2
      <3>2. \A a \in polls' : Consistent(a, tokenOf')
        BY <1>0, <1>13, <2>1, ConsistentKept DEF PairRequest, PInv, EntriesConsistent
      <3> QED
        BY <3>1, <3>2 DEF EntriesConsistent
    <2>5. ShownConsistent'
      BY <1>0, <1>13, <2>1, AppendKeeps DEF PairRequest, modal, PInv, ShownConsistent
    <2>6. TokensPresented'
      BY <1>0, <1>13, <2>1, AppendKeeps DEF PairRequest, PInv, TokensPresented
    <2>7. ConfirmsChallenged'
      BY <1>0, <1>13, <2>1, AppendKeeps DEF PairRequest, PInv, ConfirmsChallenged
    <2> QED
      BY <2>3, <2>4, <2>5, <2>6, <2>7 DEF PInv
  <1>14. ASSUME NEW s \in 1 .. opened, SessionExpires(s) PROVE PInv'
    BY <1>14, Ended DEF SessionExpires, modal, server
  <1>15. ASSUME NEW c \in confirms, ConfirmRoute(c) PROVE PInv'
    <2>1. \A b \in confirms' : b \in Confirmation /\ \E x \in confirms : b.token = x.token
      <3>1. PICK x \in {"2xx", "401"} : confirms' = (confirms \ {c}) \cup {[c EXCEPT !.answer = x]}
        BY <1>15 DEF ConfirmRoute
      <3>2. [c EXCEPT !.answer = x] \in Confirmation /\ [c EXCEPT !.answer = x].token = c.token
        BY <1>0 DEF Confirmation
      <3> QED
        BY <1>0, <3>1, <3>2
    <2> QED
      BY <1>15, <2>1, Ended DEF ConfirmRoute, modal
  <1>16. CASE UNCHANGED pairingVars
    BY <1>16 DEF pairingVars, modal, server, PInv, SessionsTyped, EntriesConsistent, ShownConsistent,
                 TokensPresented, ConfirmsChallenged
  <1> QED
    BY <1>1, <1>2, <1>3, <1>4, <1>5, <1>6, <1>7, <1>8, <1>9, <1>10, <1>11, <1>12, <1>13, <1>14,
       <1>15, <1>16 DEF PairingNext, ModalNext, ServerNext

-----------------------------------------------------------------------------
(* The theorems *)

\* The invariant holds in every reachable state.
LEMMA PInvAlways ==
    ASSUME MaxPairSessions \in Nat
    PROVE  PairingSpec => []PInv
  <1>1. PairingInit => PInv
    BY PInvInit
  <1>2. PInv /\ [PairingNext]_pairingVars => PInv'
    BY PInvNext
  <1> QED
    BY <1>1, <1>2, PTL DEF PairingSpec

\* The token the modal would confirm belongs to the device whose challenge it
\* shows (pollOnce sets both from one answer), for any number of devices that
\* replace each other on a code and any number of overlapping polls.
THEOREM TokenIsOfDeviceShown ==
    ASSUME MaxPairSessions \in Nat
    PROVE  PairingSpec => []TokenOfDeviceShown
  <1>1. PInv => TokenOfDeviceShown
    BY DEF PInv, ShownConsistent, TokenOfDeviceShown
  <1> QED
    BY <1>1, PInvAlways, PTL

\* Modal and control plane implement PairingPromise: a device becomes the
\* user's only by the confirmation of a challenge answered for that device,
\* after it presented the code (handleConfirm, PairingController.confirm).
THEOREM PairingKeepsPromise ==
    ASSUME MaxPairSessions \in Nat
    PROVE  PairingSpec => KeepsPromise
  <1>1. PairingInit => Promise!Init
    BY DEF PairingInit, Promise!Init
  <1>2. PInv /\ [PairingNext]_pairingVars => [Promise!Next]_Promise!vars
    <2> SUFFICES ASSUME PInv, [PairingNext]_pairingVars
                 PROVE  Promise!Next \/ UNCHANGED <<presented, challenged, owned>>
      BY DEF Promise!vars
    <2>1. ASSUME NEW d \in Devices, NEW s \in 1 .. opened, PairRequest(d, s) PROVE Promise!Next
      BY <2>1 DEF PairRequest, Promise!Next, Promise!Present
    <2>2. CASE handleConfirm
      <3>1. typed \in Devices /\ typed \in presented
        BY <2>2 DEF handleConfirm, PInv, SessionsTyped, ShownConsistent, TokensPresented
      <3> QED
        BY <2>2, <3>1 DEF handleConfirm, server, Promise!Next, Promise!Challenge
    <2>3. ASSUME NEW c \in confirms, ConfirmRoute(c) PROVE Promise!Next \/ UNCHANGED <<presented, challenged, owned>>
      <3>1. tokenOf[c.token] \in Devices /\ tokenOf[c.token] \in challenged
        BY DEF PInv, SessionsTyped, ConfirmsChallenged
      <3> QED
        BY <2>3, <3>1 DEF ConfirmRoute, Promise!Next, Promise!Own
    <2>4. CASE Open \/ Close \/ CountdownEnds \/ PollRead \/ TypeChallenge
      BY <2>4 DEF Open, Close, CountdownEnds, PollRead, TypeChallenge, server
    <2>5. CASE \E ok \in BOOLEAN : Generate(ok) \/ handleRestart(ok)
      BY <2>5 DEF Generate, handleRestart
    <2>6. CASE \E s \in inits : InitAnswer(s)
      BY <2>6 DEF InitAnswer, server
    <2>7. CASE \E a \in polls : PollAnswer(a) \/ PollFails(a)
      BY <2>7 DEF PollAnswer, PollFails, server
    <2>8. CASE \E c \in confirms : ConfirmAnswer(c) \/ ConfirmLost(c)
      BY <2>8 DEF ConfirmAnswer, ConfirmLost, server
    <2>9. CASE \E s \in 1 .. opened : SessionExpires(s)
      BY <2>9 DEF SessionExpires
    <2>10. CASE UNCHANGED pairingVars
      BY <2>10 DEF pairingVars, server
    <2> QED
      BY <2>1, <2>2, <2>3, <2>4, <2>5, <2>6, <2>7, <2>8, <2>9, <2>10 DEF PairingNext, ModalNext, ServerNext
  <1> QED
    BY <1>1, <1>2, PInvAlways, PTL DEF PairingSpec, KeepsPromise, Promise!Spec
=============================================================================
