----------------------------- MODULE ListProofs -----------------------------
(***************************************************************************)
(* The dashboard and the queue of commands: what holds of them in every    *)
(* state, and what their steps keep.                                       *)
(***************************************************************************)
EXTENDS ListPages, FiniteSetTheorems, WellFoundedInduction, TLAPS

\* A load aborts the one before it, so there is one at a time.
Single(loads) == \A a, b \in loads : a = b

-----------------------------------------------------------------------------
(* The dashboard *)

\* The seconds of the commands, in the order in which they were queued.
Log(q) ==
    /\ q \in Seq(0 .. LastSecond)
    /\ \A i, j \in 1 .. Len(q) : i <= j => q[i] <= q[j]

\* Of the first n commands, each is among the rows, shares its second with one
\* of them, or was queued before t.
Accounted(q, n, rows, t) ==
    \A i \in 1 .. n : i \in rows \/ q[i] < t \/ \E j \in rows : q[j] = q[i]

Progress == {"sent", "ok", "failed"}
HomeLoads ==
    [parts : [Home!Parts -> Progress], commands : Progress, rows : SUBSET Nat, pages : Nat,
     before : Nat, known : Nat, log : Nat]

\* A load accounts for the commands down to its cursor, and once it has ended
\* for those of the window, unless it was cut at MaxPages.
HomeLoadInv(l) ==
    /\ l \in HomeLoads
    /\ l.known <= Home!Arrived /\ l.rows \subseteq 1 .. Home!Arrived /\ ui.data.known <= l.known
    /\ l.commands = "sent" => Accounted(server.queued, l.known, l.rows, l.before)
    /\ l.commands = "ok" => l.pages = MaxPages \/ Accounted(server.queued, l.known, l.rows, WindowStart)

HomeShape ==
    /\ DOMAIN ui = {"data", "errors", "loading", "refreshing", "overruns"}
    /\ DOMAIN server = {"queued", "failures"} /\ DOMAIN calls = {"loads"}

HomeData ==
    /\ ui.data.known \in 0 .. Home!Arrived /\ ui.data.commands \subseteq 1 .. Home!Arrived
    /\ ~ui.loading /\ "commands" \notin ui.errors =>
          ui.data.capped \/ Accounted(server.queued, ui.data.known, ui.data.commands, WindowStart)

HomeInv ==
    /\ HomeShape
    /\ Log(server.queued)
    /\ Single(calls.loads)
    /\ HomeData
    /\ \A l \in calls.loads : HomeLoadInv(l)

LEMMA LeastMember ==
    ASSUME NEW S, S \subseteq Nat, S # {}
    PROVE  \E m \in S : \A n \in S : m <= n
<1> DEFINE Less == {ss \in Nat \X Nat : ss[1] < ss[2]}
<1>1. IsWellFoundedOn(Less, Nat)
  BY NatLessThanWellFounded, Zenon DEF OpToRel
<1>2. \E m \in S : \A n \in S : ~(<<n, m>> \in Less)
  <2> HIDE DEF Less
  <2> QED BY <1>1, WFMin, Zenon
<1>3. PICK m \in S : \A n \in S : ~(<<n, m>> \in Less)
  BY <1>2, Zenon
<1>4. ASSUME NEW n \in S PROVE m <= n
  <2>1. n \in Nat /\ m \in Nat /\ ~(<<n, m>> \in Less)
    BY <1>3
  <2> QED BY <2>1
<1> QED BY <1>4

\* A set of numbers up to n has a greatest member.
LEMMA GreatestMember ==
    ASSUME NEW n \in Nat, NEW S, S \subseteq 1 .. n, S # {}
    PROVE  \E m \in S : \A k \in S : k <= m
<1> DEFINE Gaps == {g \in Nat : n - g \in S}
<1>1. Gaps \subseteq Nat
  OBVIOUS
<1>2. Gaps # {}
  <2>1. PICK k \in S : TRUE
    OBVIOUS
  <2>2. k \in 1 .. n
    OBVIOUS
  <2>3. n - k \in Nat /\ n - (n - k) = k
    BY <2>2
  <2> QED BY <2>3
<1>3. PICK g \in Gaps : \A h \in Gaps : g <= h
  <2> HIDE DEF Gaps
  <2> QED BY <1>1, <1>2, LeastMember
<1>4. ASSUME NEW k \in S PROVE k <= n - g
  <2>1. k \in 1 .. n /\ g \in Nat
    OBVIOUS
  <2>2. n - k \in Nat /\ n - (n - k) = k
    BY <2>1
  <2>3. g <= n - k
    BY <1>3, <2>2
  <2> QED BY <2>1, <2>3
<1> QED BY <1>4

LEMMA HomeCardinality == \A S : Home!Cardinality(S) = Cardinality(S)
BY Zenon DEF Cardinality, Home!Cardinality

\* The order of the listing is the order in which the commands came.
LEMMA NewerIsLater ==
    ASSUME Log(server.queued), NEW i \in 1 .. Home!Arrived, NEW j \in 1 .. Home!Arrived
    PROVE  Home!Newer(i, j) <=> i > j
<1>1. server.queued[i] \in Nat /\ server.queued[j] \in Nat /\ i \in Nat /\ j \in Nat
  BY PagesAssumption DEF Log, Home!Arrived
<1>2. i <= j => server.queued[i] <= server.queued[j]
  BY DEF Log, Home!Arrived
<1>3. j <= i => server.queued[j] <= server.queued[i]
  BY DEF Log, Home!Arrived
<1> QED BY <1>1, <1>2, <1>3 DEF Home!Newer

LEMMA BeforeIsFinite ==
    ASSUME Log(server.queued), NEW t
    PROVE  Home!Before(t) \subseteq 1 .. Home!Arrived /\ IsFiniteSet(Home!Before(t)) /\ Home!Arrived \in Nat
<1>1. Home!Before(t) \subseteq 1 .. Home!Arrived /\ Home!Arrived \in Nat
  BY DEF Home!Before, Log, Home!Arrived
<1>2. IsFiniteSet(1 .. Home!Arrived)
  BY <1>1, FS_Interval
<1> QED BY <1>1, <1>2, FS_Subset, Zenon

\* A command a page leaves out came before all the page shows.
LEMMA LeftOutIsOlder ==
    ASSUME Log(server.queued), NEW t, NEW i \in Home!Before(t), i \notin Home!Page(t), NEW j \in Home!Page(t)
    PROVE  i < j
<1> DEFINE Newest(k) == {m \in Home!Before(t) : Home!Newer(m, k)}
<1>1. j \in Home!Before(t) /\ Cardinality(Newest(j)) < PageSize /\ ~(Cardinality(Newest(i)) < PageSize)
  BY HomeCardinality DEF Home!Page
<1>2. i \in 1 .. Home!Arrived /\ j \in 1 .. Home!Arrived /\ i \in Nat /\ j \in Nat
  BY <1>1, BeforeIsFinite
<1>3. SUFFICES ASSUME j <= i PROVE FALSE
  BY <1>2
<1>4. ASSUME NEW m \in Home!Before(t), Home!Newer(m, i) PROVE Home!Newer(m, j)
  <2>1. m \in 1 .. Home!Arrived /\ m \in Nat
    BY BeforeIsFinite
  <2>2. m > i
    BY <1>2, <1>4, <2>1, NewerIsLater
  <2>3. m > j
    BY <1>2, <1>3, <2>1, <2>2
  <2> QED BY <1>2, <2>1, <2>3, NewerIsLater
<1>5. Newest(i) \subseteq Newest(j)
  BY <1>4
<1>6. IsFiniteSet(Newest(j))
  <2>1. Newest(j) \subseteq Home!Before(t)
    OBVIOUS
  <2> HIDE DEF Newest
  <2> QED BY <2>1, BeforeIsFinite, FS_Subset, Zenon
<1> HIDE DEF Newest
<1>7. /\ IsFiniteSet(Newest(i)) /\ Cardinality(Newest(i)) \in Nat /\ Cardinality(Newest(j)) \in Nat
      /\ Cardinality(Newest(i)) <= Cardinality(Newest(j))
  BY <1>5, <1>6, FS_Subset, FS_CardinalityType, Zenon
<1> QED BY <1>1, <1>7, PagesAssumption

\* The page after a cursor is empty only when nothing lies behind it.
LEMMA EmptyPageIsLast ==
    ASSUME Log(server.queued), NEW t, Home!Page(t) = {}
    PROVE  Home!Before(t) = {}
<1>1. SUFFICES ASSUME Home!Before(t) # {} PROVE FALSE
  OBVIOUS
<1>2. PICK m \in Home!Before(t) : \A k \in Home!Before(t) : k <= m
  BY <1>1, BeforeIsFinite, GreatestMember
<1>3. ASSUME NEW k \in Home!Before(t) PROVE ~Home!Newer(k, m)
  <2>1. k \in 1 .. Home!Arrived /\ m \in 1 .. Home!Arrived /\ k <= m
    BY <1>2, BeforeIsFinite
  <2> QED BY <2>1, NewerIsLater
<1>4. {k \in Home!Before(t) : Home!Newer(k, m)} = {}
  BY <1>3
<1>5. Home!Cardinality({}) = 0
  BY HomeCardinality, FS_EmptySet
<1>6. m \in Home!Page(t)
  BY <1>4, <1>5, PagesAssumption DEF Home!Page
<1> QED BY <1>6

LEMMA OldestIsFirst ==
    ASSUME Log(server.queued), NEW rows, rows \subseteq 1 .. Home!Arrived, rows # {}
    PROVE  \E o \in rows : Home!Oldest(rows) = server.queued[o] /\ \A j \in rows : o <= j
<1> DEFINE IsOldest(i) == \A j \in rows : i = j \/ Home!Newer(j, i)
<1>0. rows \subseteq Nat
  OBVIOUS
<1>1. PICK o \in rows : \A j \in rows : o <= j
  BY <1>0, LeastMember, Zenon
<1>2. IsOldest(o)
  <2> SUFFICES ASSUME NEW j \in rows, o # j PROVE Home!Newer(j, o)
    OBVIOUS
  <2>1. o \in 1 .. Home!Arrived /\ j \in 1 .. Home!Arrived /\ o <= j
    BY <1>1
  <2> QED BY <2>1, NewerIsLater
<1>3. PICK c : c = CHOOSE i \in rows : IsOldest(i)
  OBVIOUS
<1>4. c \in rows /\ IsOldest(c)
  BY <1>2, <1>3
<1>5. Home!Oldest(rows) = server.queued[c]
  BY <1>3 DEF Home!Oldest
<1>6. ASSUME NEW j \in rows PROVE c <= j
  <2>1. c = j \/ Home!Newer(j, c)
    BY <1>4
  <2>2. c \in 1 .. Home!Arrived /\ j \in 1 .. Home!Arrived
    BY <1>4
  <2> QED BY <2>1, <2>2, NewerIsLater
<1> QED BY <1>4, <1>5, <1>6

\* One more page: the rows account for the commands down to the new cursor.
LEMMA PageAccounts ==
    ASSUME Log(server.queued), NEW n \in Nat, n <= Home!Arrived, NEW rows, NEW t \in Nat,
           Accounted(server.queued, n, rows, t), Home!Page(t) # {}
    PROVE  /\ Home!Oldest(Home!Page(t)) \in Nat
           /\ Accounted(server.queued, n, rows \cup Home!Page(t), Home!Oldest(Home!Page(t)))
<1>1. Home!Page(t) \subseteq Home!Before(t) /\ Home!Page(t) \subseteq 1 .. Home!Arrived
  BY BeforeIsFinite DEF Home!Page
<1>2. PICK o \in Home!Page(t) :
          Home!Oldest(Home!Page(t)) = server.queued[o] /\ \A j \in Home!Page(t) : o <= j
  BY <1>1, OldestIsFirst
<1>3. server.queued[o] \in Nat /\ o \in 1 .. Home!Arrived
  BY <1>1, PagesAssumption DEF Log, Home!Arrived
<1>4. ASSUME NEW i \in 1 .. n
      PROVE  \/ i \in rows \cup Home!Page(t) \/ server.queued[i] < server.queued[o]
             \/ \E j \in rows \cup Home!Page(t) : server.queued[j] = server.queued[i]
  <2>1. i \in 1 .. Home!Arrived /\ server.queued[i] \in Nat
    BY PagesAssumption DEF Log, Home!Arrived
  <2>2. CASE i \in rows \/ \E j \in rows : server.queued[j] = server.queued[i]
    BY <2>2
  <2>3. CASE server.queued[i] < t /\ i \notin Home!Page(t)
    <3>1. i \in Home!Before(t)
      BY <2>1, <2>3 DEF Home!Before
    <3>2. i < o
      BY <2>3, <3>1, LeftOutIsOlder
    <3>3. server.queued[i] <= server.queued[o]
      BY <1>3, <2>1, <3>2 DEF Log, Home!Arrived
    <3> QED BY <1>3, <2>1, <3>3
  <2> QED BY <2>2, <2>3 DEF Accounted
<1> QED BY <1>2, <1>3, <1>4 DEF Accounted

\* fetchCommands: the next page is merged, and the cursor moves to its oldest.
LEMMA FetchedPage ==
    ASSUME Log(server.queued), NEW l, HomeLoadInv(l), l.commands = "sent"
    PROVE  HomeLoadInv(Home!fetchCommands(l))
<1> DEFINE rows == Home!Page(l.before)
           ended == rows = {} \/ l.pages + 1 = MaxPages \/ Home!Oldest(rows) < WindowStart
<1>1. PICK r : r = Home!fetchCommands(l)
  OBVIOUS
<1>2. /\ l.known \in Nat /\ l.before \in Nat /\ l.pages \in Nat /\ l.known <= Home!Arrived
      /\ Accounted(server.queued, l.known, l.rows, l.before) /\ l \in HomeLoads
  BY DEF HomeLoadInv, HomeLoads
<1>3. rows \subseteq 1 .. Home!Arrived /\ rows \subseteq Nat
  BY BeforeIsFinite DEF Home!Page
<1>4. r = [l EXCEPT !.commands = IF ended THEN "ok" ELSE "sent", !.rows = l.rows \cup rows, !.pages = l.pages + 1,
                    !.before = IF rows = {} THEN l.before ELSE Home!Oldest(rows)]
  BY <1>1 DEF Home!fetchCommands
<1>5. /\ r.commands = (IF ended THEN "ok" ELSE "sent") /\ r.rows = l.rows \cup rows /\ r.pages = l.pages + 1
      /\ r.before = (IF rows = {} THEN l.before ELSE Home!Oldest(rows)) /\ r.known = l.known
  <2> HIDE DEF rows, ended
  <2> QED BY <1>2, <1>4 DEF HomeLoads
<1>6. rows # {} => /\ Home!Oldest(rows) \in Nat
                   /\ Accounted(server.queued, l.known, l.rows \cup rows, Home!Oldest(rows))
  BY <1>2, PageAccounts
<1>7. r \in HomeLoads
  <2>1. l.rows \cup rows \in SUBSET Nat /\ l.pages + 1 \in Nat
    BY <1>2, <1>3 DEF HomeLoads
  <2>2. (IF rows = {} THEN l.before ELSE Home!Oldest(rows)) \in Nat
    BY <1>2, <1>6
  <2>3. (IF ended THEN "ok" ELSE "sent") \in Progress
    BY DEF Progress
  <2> HIDE DEF rows, ended
  <2> QED BY <1>2, <1>4, <2>1, <2>2, <2>3 DEF HomeLoads
<1>8. r.rows \subseteq 1 .. Home!Arrived /\ ui.data.known <= r.known /\ r.known <= Home!Arrived
  BY <1>3, <1>5 DEF HomeLoadInv
<1>9. r.commands = "sent" => Accounted(server.queued, r.known, r.rows, r.before)
  BY <1>5, <1>6
<1>10. ASSUME r.commands = "ok"
       PROVE  r.pages = MaxPages \/ Accounted(server.queued, r.known, r.rows, WindowStart)
  <2>0. ended
    BY <1>5, <1>10
  <2>1. CASE rows = {}
    <3>1. Home!Before(l.before) = {}
      BY <2>1, EmptyPageIsLast
    <3>2. ASSUME NEW i \in 1 .. l.known PROVE ~(server.queued[i] < l.before)
      <4>1. i \in 1 .. Home!Arrived
        BY <1>2 DEF Log, Home!Arrived
      <4> QED BY <3>1, <4>1 DEF Home!Before
    <3> QED BY <1>2, <1>5, <2>1, <3>2 DEF Accounted
  <2>2. CASE l.pages + 1 = MaxPages
    BY <1>5, <2>2
  <2>3. CASE rows # {} /\ Home!Oldest(rows) < WindowStart
    <3>1. \A i \in 1 .. l.known : server.queued[i] \in Nat
      BY <1>2, PagesAssumption DEF Log, Home!Arrived
    <3>2. PICK o : o = Home!Oldest(rows)
      OBVIOUS
    <3>3. o \in Nat /\ o < WindowStart /\ WindowStart \in Nat /\ Accounted(server.queued, r.known, r.rows, o) /\ r.known = l.known
      BY <1>5, <1>6, <2>3, <3>2, PagesAssumption
    <3>4. Accounted(server.queued, r.known, r.rows, WindowStart)
      <4> HIDE DEF rows, ended
      <4> QED BY <3>1, <3>3 DEF Accounted
    <3> QED BY <3>4
  <2> QED BY <2>0, <2>1, <2>2, <2>3
<1> HIDE DEF rows, ended
<1> QED BY <1>1, <1>7, <1>8, <1>9, <1>10 DEF HomeLoadInv

\* A load that goes on: the others, if there were any, would be the same one.
LEMMA HomeLoadGoesOn ==
    ASSUME HomeInv, NEW l \in calls.loads, NEW r, HomeLoadInv(r), Home!Becomes(l, r),
           server'.queued = server.queued, DOMAIN server' = DOMAIN server
    PROVE  HomeInv' /\ Home!CommandsNeverLost
<1>1. ui' = ui /\ calls' = [calls EXCEPT !.loads = (calls.loads \ {l}) \cup {r}]
  BY DEF Home!Becomes
<1>2. calls'.loads = {r} /\ DOMAIN calls' = {"loads"}
  BY <1>1 DEF HomeInv, HomeShape, Single
<1>3. HomeShape' /\ Log(server.queued)' /\ Single(calls.loads)'
  BY <1>1, <1>2 DEF HomeInv, HomeShape, Log, Single
<1>4. HomeData'
  BY <1>1 DEF HomeInv, HomeData, Home!Arrived, Accounted
<1>5. HomeLoadInv(r)'
  BY <1>1 DEF HomeLoadInv, Home!Arrived, Accounted
<1>6. Home!CommandsNeverLost
  BY <1>1 DEF Home!CommandsNeverLost, HomeInv, HomeData, Home!Arrived, Log
<1> QED BY <1>2, <1>3, <1>4, <1>5, <1>6 DEF HomeInv

LEMMA HomeServerFails ==
    ASSUME HomeShape, server' = server \/ Home!Failure
    PROVE  server'.queued = server.queued /\ DOMAIN server' = DOMAIN server
BY DEF HomeShape, Home!Failure

LEMMA HomeFetchPart ==
    ASSUME HomeInv, NEW l \in calls.loads, NEW p \in Home!Parts, Home!FetchPart(l, p)
    PROVE  HomeInv' /\ Home!CommandsNeverLost
<1>1. HomeLoadInv(l) /\ l \in HomeLoads
  BY DEF HomeInv, HomeLoadInv
<1>2. server'.queued = server.queued /\ DOMAIN server' = DOMAIN server
  BY HomeServerFails DEF HomeInv, Home!FetchPart
<1>3. PICK st \in Progress, n \in Nat :
          Home!Becomes(l, [l EXCEPT !.parts = [l.parts EXCEPT ![p] = st], !.log = n])
  <2>1. l.log \in Nat /\ Home!Arrived \in Nat
    BY <1>1 DEF HomeLoads, HomeInv, Log, Home!Arrived
  <2>2. CASE Home!Becomes(l, [l EXCEPT !.parts[p] = "ok", !.log = IF p = "audit" THEN Home!Arrived ELSE @])
    BY <2>1, <2>2 DEF Progress
  <2>3. CASE Home!Becomes(l, [l EXCEPT !.parts[p] = "failed"])
    <3>1. [l EXCEPT !.parts[p] = "failed"] = [l EXCEPT !.parts = [l.parts EXCEPT ![p] = "failed"], !.log = l.log]
      BY <1>1 DEF HomeLoads
    <3> QED BY <2>1, <2>3, <3>1 DEF Progress
  <2> QED BY <2>2, <2>3 DEF Home!FetchPart
<1>4. PICK r : r = [l EXCEPT !.parts = [l.parts EXCEPT ![p] = st], !.log = n]
  OBVIOUS
<1>5. r \in HomeLoads
  BY <1>1, <1>4 DEF HomeLoads
<1>6. /\ r.known = l.known /\ r.rows = l.rows /\ r.commands = l.commands /\ r.pages = l.pages
      /\ r.before = l.before
  BY <1>1, <1>4 DEF HomeLoads
<1>7. HomeLoadInv(r)
  BY <1>1, <1>5, <1>6 DEF HomeLoadInv
<1> QED BY <1>2, <1>3, <1>4, <1>7, HomeLoadGoesOn

LEMMA HomeFetchCommands ==
    ASSUME HomeInv, NEW l \in calls.loads, Home!FetchCommands(l)
    PROVE  HomeInv' /\ Home!CommandsNeverLost
<1>1. HomeLoadInv(l) /\ l \in HomeLoads /\ l.commands = "sent" /\ Log(server.queued)
  BY DEF HomeInv, HomeLoadInv, Home!FetchCommands
<1>2. server'.queued = server.queued /\ DOMAIN server' = DOMAIN server
  BY HomeServerFails DEF HomeInv, Home!FetchCommands
<1>3. CASE Home!Becomes(l, Home!fetchCommands(l))
  <2>1. PICK r : r = Home!fetchCommands(l)
    OBVIOUS
  <2>2. HomeLoadInv(r)
    BY <1>1, <2>1, FetchedPage
  <2> QED BY <1>2, <1>3, <2>1, <2>2, HomeLoadGoesOn
<1>4. CASE Home!Becomes(l, [l EXCEPT !.commands = "failed", !.rows = {}])
  <2>1. PICK r : r = [l EXCEPT !.commands = "failed", !.rows = {}]
    OBVIOUS
  <2>2. r \in HomeLoads
    BY <1>1, <2>1 DEF HomeLoads, Progress
  <2>3. r.known = l.known /\ r.rows = {} /\ r.commands = "failed"
    BY <1>1, <2>1 DEF HomeLoads
  <2>4. HomeLoadInv(r)
    BY <1>1, <2>2, <2>3 DEF HomeLoadInv
  <2> QED BY <1>2, <1>4, <2>1, <2>4, HomeLoadGoesOn
<1> QED BY <1>3, <1>4 DEF Home!FetchCommands

LEMMA HomeSettle ==
    ASSUME HomeInv, NEW l \in calls.loads, Home!Settle(l)
    PROVE  HomeInv' /\ Home!CommandsNeverLost
<1>1. HomeLoadInv(l) /\ l \in HomeLoads /\ l.commands \in {"ok", "failed"}
  BY DEF HomeInv, HomeLoadInv, Home!Settle, HomeLoads, Progress
<1>2. PICK e : e = {p \in Home!Parts : l.parts[p] = "failed"} \cup (IF l.commands = "failed" THEN {"commands"} ELSE {})
  OBVIOUS
<1>3. PICK d : d = Home!Snapshot(l)
  OBVIOUS
<1>4. d.commands = l.rows /\ d.known = l.known
  BY <1>3 DEF Home!Snapshot
<1>5. d.capped <=> l.pages = MaxPages
  BY <1>3, Zenon DEF Home!Snapshot
<1>6. ui' = [ui EXCEPT !.errors = e, !.data = d, !.loading = FALSE, !.refreshing = FALSE]
  BY <1>2, <1>3, Zenon DEF Home!Settle
<1>7. /\ ui'.errors = e /\ ui'.data = d
      /\ DOMAIN ui' = {"data", "errors", "loading", "refreshing", "overruns"}
  BY <1>6 DEF HomeInv, HomeShape
<1>8. server' = server /\ calls'.loads = {} /\ DOMAIN calls' = {"loads"}
  BY DEF Home!Settle, HomeInv, HomeShape, Single
<1>9. HomeShape' /\ Log(server.queued)' /\ Single(calls.loads)'
  BY <1>7, <1>8 DEF HomeInv, HomeShape, Log, Single
<1>10. "commands" \notin ui'.errors => l.commands = "ok"
  BY <1>1, <1>2, <1>7
<1>11. d.known \in 0 .. Home!Arrived /\ d.commands \subseteq 1 .. Home!Arrived /\ ui.data.known <= d.known
  BY <1>1, <1>4 DEF HomeLoadInv, HomeLoads, HomeInv, Log, Home!Arrived
<1>12. l.commands = "ok" => d.capped \/ Accounted(server.queued, d.known, d.commands, WindowStart)
  BY <1>1, <1>4, <1>5, Zenon DEF HomeLoadInv
<1>13. Home!Arrived' = Home!Arrived /\ server'.queued = server.queued
  BY <1>8 DEF Home!Arrived
<1>14. HomeData'
  <2>1. ui'.data.known \in 0 .. Home!Arrived' /\ ui'.data.commands \subseteq 1 .. Home!Arrived'
    BY <1>7, <1>11, <1>13
  <2>2. "commands" \notin ui'.errors =>
          ui'.data.capped \/ Accounted(server'.queued, ui'.data.known, ui'.data.commands, WindowStart)
    BY <1>7, <1>10, <1>12, <1>13, Zenon
  <2> QED BY <2>1, <2>2, Zenon DEF HomeData, Accounted
<1>15. Home!CommandsNeverLost
  BY <1>7, <1>11 DEF Home!CommandsNeverLost
<1> QED BY <1>8, <1>9, <1>14, <1>15 DEF HomeInv

\* A new load has seen nothing and its cursor lies behind every command.
LEMMA HomeNewLoad ==
    ASSUME Log(server.queued), ui.data.known \in 0 .. Home!Arrived
    PROVE  HomeLoadInv(Home!NewLoad)
<1>1. PICK r : r = Home!NewLoad
  OBVIOUS
<1>2. LastSecond \in Nat /\ Home!Arrived \in Nat /\ Home!Never \in Nat
  BY PagesAssumption DEF Log, Home!Arrived, Home!Never
<1>3. r \in HomeLoads
  BY <1>1, <1>2 DEF Home!NewLoad, HomeLoads, Progress
<1>4. r.known = Home!Arrived /\ r.rows = {} /\ r.commands = "sent" /\ r.before = Home!Never
  BY <1>1 DEF Home!NewLoad
<1>5. \A i \in 1 .. Home!Arrived : server.queued[i] < Home!Never
  BY <1>2 DEF Log, Home!Arrived, Home!Never
<1> QED BY <1>1, <1>2, <1>3, <1>4, <1>5 DEF HomeLoadInv, Accounted

LEMMA HomeRefresh ==
    ASSUME HomeInv, Home!Refresh
    PROVE  HomeInv' /\ Home!CommandsNeverLost
<1>1. PICK r : r = Home!NewLoad
  OBVIOUS
<1>2. HomeLoadInv(r)
  BY <1>1, HomeNewLoad DEF HomeInv, HomeData
<1>3. calls'.loads = {r} /\ DOMAIN calls' = {"loads"} /\ server' = server
  BY <1>1 DEF Home!Refresh, Home!load, HomeInv, HomeShape
<1>4. PICK n : ui' = [ui EXCEPT !.refreshing = TRUE, !.overruns = n]
  BY Zenon DEF Home!Refresh
<1>5. /\ ui'.data = ui.data /\ ui'.errors = ui.errors /\ ui'.loading = ui.loading
      /\ DOMAIN ui' = {"data", "errors", "loading", "refreshing", "overruns"}
  BY <1>4 DEF HomeInv, HomeShape
<1>6. HomeShape' /\ Log(server.queued)' /\ Single(calls.loads)'
  BY <1>3, <1>5 DEF HomeInv, HomeShape, Log, Single
<1>7. Home!Arrived' = Home!Arrived /\ server'.queued = server.queued
  BY <1>3 DEF Home!Arrived
<1>8. HomeData'
  <2>1. Accounted(server'.queued, ui'.data.known, ui'.data.commands, WindowStart)
          <=> Accounted(server.queued, ui.data.known, ui.data.commands, WindowStart)
    BY <1>5, <1>7
  <2> QED BY <1>5, <1>7, <2>1, Zenon DEF HomeInv, HomeData
<1>9. HomeLoadInv(r)'
  BY <1>2, <1>5, <1>7 DEF HomeLoadInv
<1>10. Home!CommandsNeverLost
  BY <1>5 DEF Home!CommandsNeverLost, HomeInv, HomeData, Home!Arrived, Log
<1> QED BY <1>3, <1>6, <1>8, <1>9, <1>10 DEF HomeInv

\* A command that arrives leaves the seconds of the others alone.
LEMMA AccountedStays ==
    ASSUME NEW q, Log(q), NEW t, NEW n \in Nat, n <= Len(q), NEW rows, rows \subseteq 1 .. Len(q), NEW w,
           Accounted(q, n, rows, w)
    PROVE  Accounted(Append(q, t), n, rows, w)
<1>1. \A i \in 1 .. Len(q) : Append(q, t)[i] = q[i]
  BY DEF Log
<1>2. Len(q) \in Nat
  BY DEF Log
<1> QED BY <1>1, <1>2 DEF Accounted

LEMMA HomeCommandQueued ==
    ASSUME HomeInv, Home!CommandQueued
    PROVE  HomeInv' /\ Home!CommandsNeverLost
<1>1. ui' = ui /\ calls' = calls
  BY DEF Home!CommandQueued
<1>2. PICK q : q = server.queued
  OBVIOUS
<1>3. PICK t \in 0 .. LastSecond :
        /\ \A i \in 1 .. Len(q) : q[i] <= t
        /\ server' = [server EXCEPT !.queued = Append(q, t)]
  BY <1>2 DEF Home!CommandQueued, Home!Arrived
<1>4. server'.queued = Append(q, t) /\ DOMAIN server' = {"queued", "failures"}
  BY <1>3 DEF HomeInv, HomeShape
<1>5. Log(q) /\ Len(q) \in Nat
  BY <1>2 DEF HomeInv, Log
<1>6. t \in 0 .. LastSecond /\ \A i \in 1 .. Len(q) : q[i] <= t
  BY <1>3
<1>7. Len(Append(q, t)) = Len(q) + 1 /\ Append(q, t) \in Seq(0 .. LastSecond)
  BY <1>5, <1>6 DEF Log
<1>8. Log(Append(q, t))
  <2> SUFFICES ASSUME NEW i \in 1 .. Len(q) + 1, NEW j \in 1 .. Len(q) + 1, i <= j
               PROVE  Append(q, t)[i] <= Append(q, t)[j]
    BY <1>5, <1>7 DEF Log
  <2>1. CASE j <= Len(q)
    <3>1. i \in 1 .. Len(q) /\ j \in 1 .. Len(q)
      BY <1>5, <2>1
    <3>2. Append(q, t)[i] = q[i] /\ Append(q, t)[j] = q[j]
      BY <1>5, <3>1 DEF Log
    <3> QED BY <1>5, <3>1, <3>2 DEF Log
  <2>2. CASE j = Len(q) + 1 /\ i <= Len(q)
    <3>1. i \in 1 .. Len(q)
      BY <1>5, <2>2
    <3>2. Append(q, t)[i] = q[i] /\ Append(q, t)[j] = t
      BY <1>5, <2>2, <3>1 DEF Log
    <3> QED BY <1>6, <3>1, <3>2
  <2>3. CASE i = Len(q) + 1 /\ j = Len(q) + 1
    <3>1. Append(q, t)[i] = t /\ Append(q, t)[j] = t
      BY <1>5, <2>3 DEF Log
    <3> QED BY <1>6, <3>1, PagesAssumption
  <2> QED BY <1>5, <2>1, <2>2, <2>3
<1>9. HomeShape' /\ Log(server.queued)' /\ Single(calls.loads)'
  BY <1>1, <1>4, <1>8 DEF HomeInv, HomeShape, Log, Single
<1>10. Home!Arrived = Len(q) /\ Home!Arrived' = Len(q) + 1
  BY <1>2, <1>4, <1>7 DEF Home!Arrived
<1>11. HomeData'
  <2>1. ui'.data.known \in 0 .. Home!Arrived' /\ ui'.data.commands \subseteq 1 .. Home!Arrived'
    BY <1>1, <1>5, <1>10 DEF HomeInv, HomeData
  <2>2. Accounted(server.queued, ui.data.known, ui.data.commands, WindowStart)
          => Accounted(server'.queued, ui'.data.known, ui'.data.commands, WindowStart)
    BY <1>1, <1>2, <1>4, <1>5, <1>10, AccountedStays DEF HomeInv, HomeData
  <2> QED BY <1>1, <2>1, <2>2, Zenon DEF HomeInv, HomeData
<1>12. ASSUME NEW l \in calls'.loads PROVE HomeLoadInv(l)'
  <2>1. HomeLoadInv(l)
    BY <1>1, <1>12 DEF HomeInv
  <2>2. l \in HomeLoads /\ l.known \in Nat /\ l.known <= Len(q) /\ l.rows \subseteq 1 .. Len(q)
    BY <1>10, <2>1 DEF HomeLoadInv, HomeLoads
  <2>3. \A w : Accounted(server.queued, l.known, l.rows, w) => Accounted(server'.queued, l.known, l.rows, w)
    BY <1>2, <1>4, <1>5, <2>2, AccountedStays
  <2>4. l.known <= Len(q) + 1 /\ l.rows \subseteq 1 .. Len(q) + 1
    BY <1>5, <2>2
  <2> QED BY <1>1, <1>10, <2>1, <2>3, <2>4 DEF HomeLoadInv
<1>13. Home!CommandsNeverLost
  BY <1>1 DEF Home!CommandsNeverLost, HomeInv, HomeData, Home!Arrived, Log
<1> QED BY <1>9, <1>11, <1>12, <1>13 DEF HomeInv

LEMMA HomeStarts == Home!Init => HomeInv
<1> SUFFICES ASSUME Home!Init PROVE HomeInv
  OBVIOUS
<1>1. Log(server.queued) /\ DOMAIN server = {"queued", "failures"}
  BY PagesAssumption DEF Home!Init, Log
<1>2. /\ ui = [data |-> Home!EMPTY_SNAPSHOT, errors |-> {}, loading |-> TRUE, refreshing |-> FALSE, overruns |-> 0]
      /\ calls = [loads |-> {Home!NewLoad}]
  BY DEF Home!Init
<1>3. /\ DOMAIN ui = {"data", "errors", "loading", "refreshing", "overruns"} /\ ui.data = Home!EMPTY_SNAPSHOT
      /\ calls.loads = {Home!NewLoad} /\ DOMAIN calls = {"loads"}
  BY <1>2
<1>4. ui.loading
  BY <1>2, Zenon
<1>5. ui.data.known = 0 /\ ui.data.commands = {}
  BY <1>3 DEF Home!EMPTY_SNAPSHOT
<1>6. Home!Arrived \in Nat
  BY <1>1 DEF Log, Home!Arrived
<1>7. HomeData
  BY <1>4, <1>5, <1>6 DEF HomeData
<1>8. HomeLoadInv(Home!NewLoad)
  BY <1>1, <1>5, <1>6, HomeNewLoad
<1> QED BY <1>1, <1>3, <1>7, <1>8 DEF HomeInv, HomeShape, Single

LEMMA HomeStep ==
    ASSUME HomeInv, Home!Next
    PROVE  HomeInv' /\ Home!CommandsNeverLost
<1>1. CASE Home!LoadStep
  BY <1>1, HomeSettle, HomeFetchCommands, HomeFetchPart, Zenon DEF Home!LoadStep
<1>2. CASE Home!Refresh
  BY <1>2, HomeRefresh
<1>3. CASE Home!CommandQueued
  BY <1>3, HomeCommandQueued
<1> QED BY <1>1, <1>2, <1>3 DEF Home!Next

LEMMA HomeImplies == HomeInv => Home!MissedOnlyTies
BY DEF HomeInv, HomeData, Home!MissedOnlyTies, Accounted

-----------------------------------------------------------------------------
(* The dispatch page *)

RowStates == {"none", "queued", "completed", "failed"}
Ended == {"completed", "failed"}
QueueFields == {"rows", "loading", "error", "selected", "retrying", "panel", "retried", "acts", "overruns"}

\* The commands the control plane holds are numbered as they came.
Numbered == \E k \in 0 .. MaxRows : Queue!Listed(server.rows) = 1 .. k

QueueShape ==
    /\ DOMAIN ui = QueueFields /\ ui.rows \in [Queue!Commands -> RowStates]
    /\ DOMAIN server = {"rows", "retries", "failures"} /\ server.rows \in [Queue!Commands -> RowStates]
    /\ DOMAIN calls = {"loads", "posts"}
    /\ Numbered

\* A command shown as ended has ended, that way.
EndsAreTrue(rows) == \A c \in Queue!Commands : rows[c] \in Ended => server.rows[c] = rows[c]

\* A list that came in ends no fewer commands than the screen.
QueueLoadInv(l) ==
    /\ DOMAIN l = {"mode", "phase", "rows"} /\ l.rows \in [Queue!Commands -> RowStates]
    /\ l.phase = "ok" =>
          EndsAreTrue(l.rows) /\ \A c \in Queue!Commands : ui.rows[c] \in Ended => l.rows[c] = ui.rows[c]

QueueInv ==
    /\ QueueShape
    /\ EndsAreTrue(ui.rows)
    /\ Single(calls.loads)
    /\ \A l \in calls.loads : QueueLoadInv(l)

\* Queue's own copy of the cardinality is the library's.
LEMMA QueueCardinality == ASSUME NEW S PROVE Queue!Cardinality(S) = Cardinality(S)
BY Zenon DEF Cardinality, Queue!Cardinality

\* The next command has no row yet, and its row extends the numbering.
LEMMA NextIsNew ==
    ASSUME QueueShape, Queue!NextId \in Queue!Commands,
           NEW rows, rows = [server.rows EXCEPT ![Queue!NextId] = "queued"]
    PROVE  /\ rows \in [Queue!Commands -> RowStates]
           /\ \E k \in 0 .. MaxRows : Queue!Listed(rows) = 1 .. k
           /\ \A c \in Queue!Commands : server.rows[c] \in Ended => rows[c] = server.rows[c]
<1>1. PICK k \in 0 .. MaxRows : Queue!Listed(server.rows) = 1 .. k
  BY DEF QueueShape, Numbered
<1>2. MaxRows \in Nat /\ k \in Nat
  BY <1>1, RowsAssumption
<1>3. Cardinality(1 .. k) = k
  BY <1>2, FS_Interval
<1>4. Queue!NextId = k + 1
  BY <1>1, <1>3, QueueCardinality DEF Queue!NextId
<1>5. k + 1 \in 1 .. MaxRows
  BY <1>4 DEF Queue!Commands
<1>6. server.rows \in [1 .. MaxRows -> RowStates] /\ rows = [server.rows EXCEPT ![k + 1] = "queued"]
  BY <1>4 DEF QueueShape, Queue!Commands
<1>7. server.rows[k + 1] = "none"
  <2>1. k + 1 \notin 1 .. k
    BY <1>2
  <2> QED BY <1>1, <1>5, <2>1 DEF Queue!Listed, Queue!Commands
<1>8. rows \in [1 .. MaxRows -> RowStates]
  BY <1>5, <1>6 DEF RowStates
<1>9. \A c \in 1 .. MaxRows : rows[c] = IF c = k + 1 THEN "queued" ELSE server.rows[c]
  BY <1>5, <1>6
<1>10. Queue!Listed(rows) = 1 .. (k + 1)
  <2>1. \A c \in 1 .. MaxRows : rows[c] # "none" <=> c = k + 1 \/ c \in 1 .. k
    BY <1>1, <1>7, <1>9 DEF Queue!Listed, Queue!Commands
  <2>2. Queue!Listed(rows) = {c \in 1 .. MaxRows : rows[c] # "none"}
    BY DEF Queue!Listed, Queue!Commands
  <2>3. \A c \in 1 .. (k + 1) : c \in 1 .. MaxRows /\ (c = k + 1 \/ c \in 1 .. k)
    BY <1>2, <1>5
  <2>4. \A c \in 1 .. MaxRows : c = k + 1 \/ c \in 1 .. k => c \in 1 .. (k + 1)
    BY <1>2, <1>5
  <2> QED BY <2>1, <2>2, <2>3, <2>4, Zenon
<1>11. k + 1 \in 0 .. MaxRows
  BY <1>2, <1>5
<1>12. \A c \in 1 .. MaxRows : server.rows[c] \in Ended => rows[c] = server.rows[c]
  BY <1>7, <1>9 DEF Ended
<1> QED BY <1>8, <1>10, <1>11, <1>12 DEF Queue!Commands

\* A step that leaves the list alone and ends no command anew.
LEMMA QueueGoesOn ==
    ASSUME QueueInv, QueueShape', ui'.rows = ui.rows,
           \A c \in Queue!Commands : server.rows[c] \in Ended => server'.rows[c] = server.rows[c],
           \/ calls'.loads = calls.loads
           \/ \E mode : calls'.loads = {[mode |-> mode, phase |-> "sent", rows |-> Queue!NoRows]}
    PROVE  QueueInv' /\ Queue!EndsAreKept
<1>1. Queue!EndsAreKept
  BY DEF Queue!EndsAreKept
<1>3. EndsAreTrue(ui.rows)'
  BY DEF EndsAreTrue, QueueInv
<1>4. CASE calls'.loads = calls.loads
  <2>1. ASSUME NEW l \in calls.loads PROVE QueueLoadInv(l)'
    <3>1. QueueLoadInv(l)
      BY DEF QueueInv
    <3> QED BY <3>1 DEF QueueLoadInv, EndsAreTrue
  <2> QED BY <1>1, <1>3, <1>4, <2>1 DEF QueueInv, Single
<1>5. ASSUME NEW mode, calls'.loads = {[mode |-> mode, phase |-> "sent", rows |-> Queue!NoRows]}
      PROVE  QueueInv' /\ Queue!EndsAreKept
  <2>1. PICK r : r = [mode |-> mode, phase |-> "sent", rows |-> Queue!NoRows]
    OBVIOUS
  <2>2. QueueLoadInv(r)'
    BY <2>1 DEF QueueLoadInv, Queue!NoRows, RowStates
  <2> QED BY <1>1, <1>3, <1>5, <2>1, <2>2 DEF QueueInv, Single
<1> QED BY <1>4, <1>5

\* The shape, from its parts.
LEMMA QueueShapeStays ==
    ASSUME QueueShape, DOMAIN ui' = QueueFields, ui'.rows = ui.rows,
           DOMAIN server' = {"rows", "retries", "failures"}, server'.rows = server.rows,
           DOMAIN calls' = {"loads", "posts"}
    PROVE  QueueShape'
BY DEF QueueShape, Numbered, Queue!Listed, Queue!Commands

LEMMA QueueReloading ==
    ASSUME NEW u, DOMAIN u = QueueFields, NEW mode, NEW v, v = Queue!Reloading(u, mode)
    PROVE  DOMAIN v = QueueFields /\ v.rows = u.rows
<1>1. PICK b : v = [u EXCEPT !.loading = b]
  BY Zenon DEF Queue!Reloading
<1> QED BY <1>1 DEF QueueFields

\* A load of the page as it stands, whatever the control plane did meanwhile.
LEMMA QueueReloads ==
    ASSUME QueueInv, DOMAIN ui' = QueueFields, ui'.rows = ui.rows,
           NEW cs, DOMAIN cs = {"loads", "posts"}, NEW mode, calls' = Queue!fetchCommands(cs, mode),
           server' = server
    PROVE  QueueInv' /\ Queue!EndsAreKept
<1>1. /\ calls'.loads = {[mode |-> mode, phase |-> "sent", rows |-> Queue!NoRows]}
      /\ DOMAIN calls' = {"loads", "posts"}
  BY DEF Queue!fetchCommands
<1>2. QueueShape'
  BY <1>1, QueueShapeStays DEF QueueInv, QueueShape
<1> QED BY <1>1, <1>2, QueueGoesOn, Zenon

\* A step of the page alone: the requests on their way may change, the loads do not.
LEMMA QueueLooks ==
    ASSUME QueueInv, DOMAIN ui' = QueueFields, ui'.rows = ui.rows,
           DOMAIN server' = DOMAIN server, server'.rows = server.rows,
           DOMAIN calls' = DOMAIN calls, calls'.loads = calls.loads
    PROVE  QueueInv' /\ Queue!EndsAreKept
<1>1. QueueShape'
  BY QueueShapeStays DEF QueueInv, QueueShape
<1> QED BY <1>1, QueueGoesOn

LEMMA QueueLoadRead ==
    ASSUME QueueInv, NEW l \in calls.loads, Queue!LoadRead(l)
    PROVE  QueueInv' /\ Queue!EndsAreKept
<1>1. QueueLoadInv(l) /\ l.phase = "sent" /\ ui' = ui
  BY DEF QueueInv, Queue!LoadRead
<1>2. PICK r : /\ calls' = [calls EXCEPT !.loads = (calls.loads \ {l}) \cup {r}]
               /\ r \in {[l EXCEPT !.phase = "ok", !.rows = server.rows], [l EXCEPT !.phase = "failed"]}
  BY Zenon DEF Queue!LoadRead
<1>3. calls'.loads = {r} /\ DOMAIN calls' = {"loads", "posts"}
  BY <1>2 DEF QueueInv, QueueShape, Single
<1>4. server'.rows = server.rows /\ DOMAIN server' = DOMAIN server
  BY DEF Queue!LoadRead, Queue!Failure, QueueInv, QueueShape
<1>5. QueueShape'
  BY <1>1, <1>3, <1>4, QueueShapeStays DEF QueueInv, QueueShape
<1>6. EndsAreTrue(ui.rows)' /\ Queue!EndsAreKept
  BY <1>1, <1>4 DEF QueueInv, EndsAreTrue, Queue!EndsAreKept
<1>7. QueueLoadInv(r)'
  <2>1. CASE r = [l EXCEPT !.phase = "failed"]
    BY <1>1, <2>1 DEF QueueLoadInv
  <2>2. CASE r = [l EXCEPT !.phase = "ok", !.rows = server.rows]
    <3>1. DOMAIN r = {"mode", "phase", "rows"} /\ r.rows = server.rows
      BY <1>1, <2>2 DEF QueueLoadInv
    <3> QED BY <1>1, <1>4, <3>1 DEF QueueLoadInv, EndsAreTrue, QueueInv, QueueShape
  <2> QED BY <1>2, <2>1, <2>2
<1> QED BY <1>3, <1>5, <1>6, <1>7 DEF QueueInv, Single

LEMMA QueueLoadAnswer ==
    ASSUME QueueInv, NEW l \in calls.loads, Queue!LoadAnswer(l)
    PROVE  QueueInv' /\ Queue!EndsAreKept
<1>1. QueueLoadInv(l) /\ server' = server
  BY DEF QueueInv, Queue!LoadAnswer
<1>2. calls'.loads = {} /\ DOMAIN calls' = {"loads", "posts"}
  BY DEF QueueInv, QueueShape, Single, Queue!LoadAnswer
<1>3. PICK rows, sel, e, b : /\ ui' = [ui EXCEPT !.rows = rows, !.selected = sel, !.error = e, !.loading = b]
                             /\ (l.phase = "ok" /\ rows = l.rows) \/ rows = Queue!NoRows \/ rows = ui.rows
  <2>0. DOMAIN ui = QueueFields
    BY DEF QueueInv, QueueShape
  <2>1. CASE l.phase = "ok"
    <3>1. PICK sel, e, b : ui' = [ui EXCEPT !.rows = l.rows, !.selected = sel, !.error = e, !.loading = b]
      <4>1. l.phase # "failed"
        BY <2>1
      <4>2. ui' = [ui EXCEPT !.rows = l.rows, !.selected = ui.selected \cap Queue!Listed(l.rows), !.error = FALSE,
                             !.loading = ui.loading /\ l.mode # "initial"]
        BY <4>1, Zenon DEF Queue!LoadAnswer
      <4> QED BY <4>2, Zenon
    <3> QED BY <2>1, <3>1
  <2>2. CASE l.phase # "ok"
    <3>1. PICK e, b : ui' = [ui EXCEPT !.rows = IF l.mode = "initial" THEN Queue!NoRows ELSE ui.rows, !.error = e,
                                       !.loading = b]
      BY <2>2, Zenon DEF Queue!LoadAnswer
    <3>2. PICK rows : rows = IF l.mode = "initial" THEN Queue!NoRows ELSE ui.rows
      OBVIOUS
    <3>3. ui' = [ui EXCEPT !.rows = rows, !.selected = ui.selected, !.error = e, !.loading = b]
      BY <2>0, <3>1, <3>2 DEF QueueFields
    <3> QED BY <3>2, <3>3
  <2> QED BY <2>1, <2>2
<1>4. DOMAIN ui' = QueueFields /\ ui'.rows = rows
  BY <1>3 DEF QueueInv, QueueShape, QueueFields
<1>5. rows \in [Queue!Commands -> RowStates] /\ EndsAreTrue(rows)
  BY <1>1, <1>3 DEF QueueInv, QueueShape, QueueLoadInv, EndsAreTrue, Queue!NoRows, RowStates, Ended
<1>6. Queue!EndsAreKept
  BY <1>1, <1>3, <1>4 DEF Queue!EndsAreKept, QueueLoadInv, Queue!NoRows, Ended
<1>7. Numbered'
  BY <1>1 DEF QueueInv, QueueShape, Numbered, Queue!Listed
<1>8. QueueShape'
  BY <1>1, <1>2, <1>4, <1>5, <1>7 DEF QueueInv, QueueShape
<1>9. EndsAreTrue(ui.rows)'
  BY <1>1, <1>4, <1>5 DEF EndsAreTrue
<1> QED BY <1>2, <1>6, <1>8, <1>9 DEF QueueInv, Single

\* A command that is queued: from the dialog or by a retry.
LEMMA QueueQueued ==
    ASSUME QueueInv, Queue!NextId \in Queue!Commands,
           DOMAIN server' = {"rows", "retries", "failures"},
           server'.rows = [server.rows EXCEPT ![Queue!NextId] = "queued"],
           DOMAIN ui' = QueueFields, ui'.rows = ui.rows, DOMAIN calls' = {"loads", "posts"}
    PROVE  /\ QueueShape'
           /\ \A c \in Queue!Commands : server.rows[c] \in Ended => server'.rows[c] = server.rows[c]
<1>1. PICK rows : rows = [server.rows EXCEPT ![Queue!NextId] = "queued"]
  OBVIOUS
<1>2. QueueShape
  BY DEF QueueInv
<1>3. /\ rows \in [Queue!Commands -> RowStates]
      /\ \E k \in 0 .. MaxRows : Queue!Listed(rows) = 1 .. k
      /\ \A c \in Queue!Commands : server.rows[c] \in Ended => rows[c] = server.rows[c]
  BY <1>1, <1>2, NextIsNew
<1>4. server'.rows = rows
  BY <1>1
<1>5. Numbered'
  <2>1. PICK k \in 0 .. MaxRows : Queue!Listed(rows) = 1 .. k
    BY <1>3
  <2>2. Queue!Listed(server.rows)' = 1 .. k
    BY <1>4, <2>1 DEF Queue!Listed
  <2> QED BY <2>2 DEF Numbered
<1> QED BY <1>2, <1>3, <1>4, <1>5 DEF QueueShape

LEMMA QueueCloseDispatchModal ==
    ASSUME QueueInv, Queue!CloseDispatchModal
    PROVE  QueueInv' /\ Queue!EndsAreKept
<1>0. DOMAIN ui = QueueFields /\ DOMAIN calls = {"loads", "posts"} /\ DOMAIN server = {"rows", "retries", "failures"}
  BY DEF QueueInv, QueueShape
<1>1. PICK b : ui' = [[ui EXCEPT !.loading = b] EXCEPT !.acts = @ + 1]
  BY Zenon DEF Queue!CloseDispatchModal, Queue!Acting, Queue!Reloading
<1>2. DOMAIN ui' = QueueFields /\ ui'.rows = ui.rows
  BY <1>0, <1>1 DEF QueueFields
<1>3. /\ calls'.loads = {[mode |-> "initial", phase |-> "sent", rows |-> Queue!NoRows]}
      /\ DOMAIN calls' = {"loads", "posts"}
  BY <1>0 DEF Queue!CloseDispatchModal, Queue!fetchCommands
<1>4. CASE server' = server
  <2>1. QueueShape'
    BY <1>0, <1>2, <1>3, <1>4, QueueShapeStays DEF QueueInv
  <2> QED BY <1>2, <1>3, <1>4, <2>1, QueueGoesOn
<1>5. CASE server' # server
  <2>1. Queue!NextId \in Queue!Commands /\ server' = [server EXCEPT !.rows[Queue!NextId] = "queued"]
    BY <1>5 DEF Queue!CloseDispatchModal
  <2>2. DOMAIN server' = DOMAIN server /\ server'.rows = [server.rows EXCEPT ![Queue!NextId] = "queued"]
    BY <1>0, <2>1
  <2> QED BY <1>0, <1>2, <1>3, <2>1, <2>2, QueueQueued, QueueGoesOn
<1> QED BY <1>4, <1>5

LEMMA QueueDispatchRetry ==
    ASSUME QueueInv, NEW p \in calls.posts, Queue!dispatchRetry(p)
    PROVE  QueueInv' /\ Queue!EndsAreKept
<1>0. DOMAIN ui = QueueFields /\ DOMAIN calls = {"loads", "posts"} /\ DOMAIN server = {"rows", "retries", "failures"}
  BY DEF QueueInv, QueueShape
<1>1. ui' = ui
  BY DEF Queue!dispatchRetry
<1>2. PICK how : calls' = [calls EXCEPT !.posts = (calls.posts \ {p}) \cup {[p EXCEPT !.phase = how]}]
  BY Zenon DEF Queue!dispatchRetry
<1>3. calls'.loads = calls.loads /\ DOMAIN calls' = {"loads", "posts"}
  BY <1>0, <1>2
<1>4. CASE DOMAIN server' = DOMAIN server /\ server'.rows = server.rows
  BY <1>0, <1>1, <1>3, <1>4, QueueLooks
<1>5. CASE /\ Queue!NextId \in Queue!Commands /\ DOMAIN server' = DOMAIN server
           /\ server'.rows = [server.rows EXCEPT ![Queue!NextId] = "queued"]
  BY <1>0, <1>1, <1>3, <1>5, QueueQueued, QueueGoesOn
<1>6. \/ Queue!NextId \in Queue!Commands
         /\ server' = [server EXCEPT !.rows[Queue!NextId] = "queued", !.retries = @ + 1]
      \/ server' = [server EXCEPT !.failures = @ + 1]
      \/ Queue!NextId \in Queue!Commands
         /\ server' = [[server EXCEPT !.rows[Queue!NextId] = "queued", !.retries = @ + 1] EXCEPT !.failures = @ + 1]
      \/ server' = server
  BY Zenon DEF Queue!dispatchRetry, Queue!Failure
<1> QED BY <1>0, <1>4, <1>5, <1>6

LEMMA QueueCommandEnds ==
    ASSUME QueueInv, NEW c \in Queue!Commands, Queue!CommandEnds(c)
    PROVE  QueueInv' /\ Queue!EndsAreKept
<1>1. ui' = ui /\ calls' = calls /\ server.rows[c] = "queued"
  BY DEF Queue!CommandEnds
<1>2. PICK s \in Ended : server' = [server EXCEPT !.rows[c] = s]
  BY DEF Queue!CommandEnds, Ended
<1>3. DOMAIN server' = DOMAIN server /\ server'.rows = [server.rows EXCEPT ![c] = s]
  BY <1>2 DEF QueueInv, QueueShape
<1>4. server.rows \in [Queue!Commands -> RowStates]
  BY DEF QueueInv, QueueShape
<1>5. \A d \in Queue!Commands : server'.rows[d] = IF d = c THEN s ELSE server.rows[d]
  BY <1>3, <1>4
<1>6. Queue!Listed(server.rows)' = Queue!Listed(server.rows)
  BY <1>1, <1>5 DEF Queue!Listed, Queue!Commands, Ended
<1>7. Numbered'
  BY <1>6 DEF QueueInv, QueueShape, Numbered
<1>8. QueueShape'
  BY <1>1, <1>3, <1>4, <1>7 DEF QueueInv, QueueShape, RowStates, Ended
<1>9. \A d \in Queue!Commands : server.rows[d] \in Ended => server'.rows[d] = server.rows[d]
  BY <1>1, <1>5 DEF Ended
<1> QED BY <1>1, <1>8, <1>9, QueueGoesOn

LEMMA QueueStep ==
    ASSUME QueueInv, Queue!Next
    PROVE  QueueInv' /\ Queue!EndsAreKept
<1>0. DOMAIN ui = QueueFields /\ DOMAIN calls = {"loads", "posts"} /\ DOMAIN server = {"rows", "retries", "failures"}
  BY DEF QueueInv, QueueShape
<1>1. CASE Queue!LoadStep
  BY <1>1, QueueLoadRead, QueueLoadAnswer, Zenon DEF Queue!LoadStep
<1>2. CASE Queue!Poll
  <2>1. PICK u : u = [ui EXCEPT !.overruns = IF calls.loads = {} THEN @ ELSE @ + 1]
    OBVIOUS
  <2>2. DOMAIN u = QueueFields /\ u.rows = ui.rows
    BY <1>0, <2>1 DEF QueueFields
  <2>3. ui' = Queue!Reloading(u, "silent") /\ calls' = Queue!fetchCommands(calls, "silent") /\ server' = server
    BY <1>2, <2>1, Zenon DEF Queue!Poll
  <2>4. PICK v : v = Queue!Reloading(u, "silent")
    BY Zenon
  <2>5. DOMAIN v = QueueFields /\ v.rows = u.rows
    BY <2>2, <2>4, QueueReloading, Zenon
  <2>6. DOMAIN ui' = QueueFields /\ ui'.rows = ui.rows
    BY <2>2, <2>3, <2>4, <2>5, Zenon
  <2>7. PICK cs : cs = calls
    OBVIOUS
  <2>8. DOMAIN cs = {"loads", "posts"} /\ calls' = Queue!fetchCommands(cs, "silent")
    BY <1>0, <2>3, <2>7
  <2> QED BY <2>3, <2>6, <2>8, QueueReloads
<1>3. CASE Queue!RefreshButton
  <2>1. PICK b : ui' = [[ui EXCEPT !.loading = b] EXCEPT !.acts = @ + 1]
    BY <1>3, Zenon DEF Queue!RefreshButton, Queue!Acting, Queue!Reloading
  <2>2. DOMAIN ui' = QueueFields /\ ui'.rows = ui.rows
    BY <1>0, <2>1 DEF QueueFields
  <2>3. PICK cs : cs = calls
    OBVIOUS
  <2>4. DOMAIN cs = {"loads", "posts"} /\ calls' = Queue!fetchCommands(cs, "refresh") /\ server' = server
    BY <1>0, <1>3, <2>3 DEF Queue!RefreshButton
  <2> QED BY <2>2, <2>4, QueueReloads
<1>4. CASE Queue!CloseDispatchModal
  BY <1>4, QueueCloseDispatchModal
<1>5. CASE Queue!ClosePanel \/ Queue!SelectAll \/ Queue!ClearSelection
  <2>1. ui'.rows = ui.rows /\ DOMAIN ui' = QueueFields /\ server' = server /\ calls' = calls
    BY <1>0, <1>5 DEF Queue!ClosePanel, Queue!SelectAll, Queue!ClearSelection, QueueFields
  <2> QED BY <2>1, QueueLooks
<1>6. CASE Queue!retrySelected
  <2>1. PICK b : ui' = [[ui EXCEPT !.retrying = b] EXCEPT !.acts = @ + 1]
    BY <1>6, Zenon DEF Queue!retrySelected, Queue!Acting
  <2>2. DOMAIN ui' = QueueFields /\ ui'.rows = ui.rows
    BY <1>0, <2>1 DEF QueueFields
  <2>3. server' = server /\ calls'.loads = calls.loads /\ DOMAIN calls' = DOMAIN calls
    BY <1>0, <1>6 DEF Queue!retrySelected
  <2> QED BY <2>2, <2>3, QueueLooks
<1>7. CASE Queue!SelectionRetried
  <2>1. PICK u, cs, d, b, n : /\ u = [ui EXCEPT !.retrying = b, !.selected = {}, !.retried = n]
                              /\ cs = [calls EXCEPT !.posts = d]
                              /\ ui' = Queue!Reloading(u, "refresh")
                              /\ calls' = Queue!fetchCommands(cs, "refresh")
    BY <1>7, Zenon DEF Queue!SelectionRetried
  <2>2. DOMAIN u = QueueFields /\ u.rows = ui.rows /\ DOMAIN cs = {"loads", "posts"}
    BY <1>0, <2>1 DEF QueueFields
  <2>3. PICK v : v = Queue!Reloading(u, "refresh")
    BY Zenon
  <2>4. DOMAIN v = QueueFields /\ v.rows = u.rows
    BY <2>2, <2>3, QueueReloading, Zenon
  <2>5. DOMAIN ui' = QueueFields /\ ui'.rows = ui.rows
    BY <2>1, <2>2, <2>3, <2>4, Zenon
  <2>6. server' = server
    BY <1>7 DEF Queue!SelectionRetried
  <2>7. calls' = Queue!fetchCommands(cs, "refresh") /\ DOMAIN cs = {"loads", "posts"}
    BY <2>1, <2>2, Zenon
  <2> QED BY <2>5, <2>6, <2>7, QueueReloads
<1>8. CASE Queue!RowRetried
  <2>1. PICK u, cs, d, n : /\ u = [ui EXCEPT !.retried = n]
                           /\ cs = [calls EXCEPT !.posts = d]
                           /\ ui' = Queue!Reloading(u, "refresh")
                           /\ calls' = Queue!fetchCommands(cs, "refresh")
    BY <1>8, Zenon DEF Queue!RowRetried
  <2>2. DOMAIN u = QueueFields /\ u.rows = ui.rows /\ DOMAIN cs = {"loads", "posts"}
    BY <1>0, <2>1 DEF QueueFields
  <2>3. PICK v : v = Queue!Reloading(u, "refresh")
    BY Zenon
  <2>4. DOMAIN v = QueueFields /\ v.rows = u.rows
    BY <2>2, <2>3, QueueReloading, Zenon
  <2>5. DOMAIN ui' = QueueFields /\ ui'.rows = ui.rows
    BY <2>1, <2>2, <2>3, <2>4, Zenon
  <2>6. server' = server
    BY <1>8 DEF Queue!RowRetried
  <2>7. calls' = Queue!fetchCommands(cs, "refresh") /\ DOMAIN cs = {"loads", "posts"}
    BY <2>1, <2>2, Zenon
  <2> QED BY <2>5, <2>6, <2>7, QueueReloads
<1>9. ASSUME NEW p \in calls.posts, Queue!dispatchRetry(p)
      PROVE  QueueInv' /\ Queue!EndsAreKept
  BY <1>9, QueueDispatchRetry
<1>10. ASSUME NEW c \in Queue!Commands, Queue!toggleSelect(c) \/ Queue!OpenPanel(c) \/ Queue!retrySingle(c)
       PROVE  QueueInv' /\ Queue!EndsAreKept
  <2>1. ui'.rows = ui.rows /\ DOMAIN ui' = QueueFields /\ server' = server
    BY <1>0, <1>10 DEF Queue!toggleSelect, Queue!OpenPanel, Queue!retrySingle, Queue!Acting, QueueFields
  <2>2. calls'.loads = calls.loads /\ DOMAIN calls' = DOMAIN calls
    BY <1>0, <1>10 DEF Queue!toggleSelect, Queue!OpenPanel, Queue!retrySingle
  <2> QED BY <2>1, <2>2, QueueLooks
<1>11. ASSUME NEW c \in Queue!Commands, Queue!CommandEnds(c)
       PROVE  QueueInv' /\ Queue!EndsAreKept
  BY <1>11, QueueCommandEnds
<1> QED BY <1>1, <1>2, <1>3, <1>4, <1>5, <1>6, <1>7, <1>8, <1>9, <1>10, <1>11, Zenon DEF Queue!Next, Queue!PostStep

LEMMA QueueStarts == Queue!Init => QueueInv
<1> SUFFICES ASSUME Queue!Init PROVE QueueInv
  OBVIOUS
<1>1. MaxRows \in Nat /\ 1 \in 1 .. MaxRows
  BY RowsAssumption
<1>2. Queue!NoRows \in [1 .. MaxRows -> RowStates] /\ \A c \in 1 .. MaxRows : Queue!NoRows[c] = "none"
  BY DEF Queue!NoRows, Queue!Commands, RowStates
<1>3. /\ DOMAIN ui = QueueFields /\ ui.rows = Queue!NoRows
      /\ DOMAIN server = {"rows", "retries", "failures"} /\ server.rows = [Queue!NoRows EXCEPT ![1] = "failed"]
      /\ DOMAIN calls = {"loads", "posts"}
      /\ calls.loads = {[mode |-> "initial", phase |-> "sent", rows |-> Queue!NoRows]}
  BY DEF Queue!Init, QueueFields
<1>4. server.rows \in [1 .. MaxRows -> RowStates] /\ \A c \in 1 .. MaxRows : server.rows[c] # "none" <=> c = 1
  BY <1>1, <1>2, <1>3 DEF RowStates
<1>5. Numbered
  <2>1. Queue!Listed(server.rows) = 1 .. 1
    BY <1>1, <1>4 DEF Queue!Listed, Queue!Commands
  <2> QED BY <1>1, <2>1 DEF Numbered
<1>6. EndsAreTrue(ui.rows)
  BY <1>2, <1>3 DEF EndsAreTrue, Queue!Commands, Ended
<1>7. PICK r : r = [mode |-> "initial", phase |-> "sent", rows |-> Queue!NoRows]
  OBVIOUS
<1>8. QueueLoadInv(r)
  BY <1>2, <1>7 DEF QueueLoadInv, Queue!Commands
<1>9. QueueShape
  BY <1>2, <1>3, <1>4, <1>5 DEF QueueShape, Queue!Commands
<1> QED BY <1>3, <1>6, <1>7, <1>8, <1>9 DEF QueueInv, Single
=============================================================================
