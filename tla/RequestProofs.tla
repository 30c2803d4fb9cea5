---------------------------- MODULE RequestProofs ---------------------------
(* Nothing is sent that the user did not mean, for any number of openings, *)
(* clicks, navigations, failures and lapses.  Each page has an inductive   *)
(* invariant of its own.                                                   *)
EXTENDS RequestPages, FiniteSetTheorems, TLAPS

-----------------------------------------------------------------------------
(* The file explorer *)

\* A folder that was browsed once more than its five minutes ended is in the
\* gate.
ExplorerInv ==
    /\ server.asked \in [Files!Folders -> Nat]
    /\ server.lapses \in [Files!Folders -> Nat]
    /\ \A p \in Files!Folders :
          server.asked[p] <= server.lapses[p] + IF p \in ui.gate THEN 1 ELSE 0

ExplorerFields ==
    {"snapshot", "partial", "auto", "mount", "moves", "entries", "cur", "sel", "back", "fwd",
     "hydrating", "error", "hydrated", "attempted", "gate", "blocked"}
ExplorerShape ==
    /\ DOMAIN ui = ExplorerFields
    /\ DOMAIN server = {"asked", "lapses", "failures"}

\* One more in a table of counts.
LEMMA Counted ==
    ASSUME NEW S, NEW f \in [S -> Nat], NEW p
    PROVE  [f EXCEPT ![p] = @ + 1] \in [S -> Nat]
<1>1. CASE p \in S
  BY <1>1
<1>2. CASE p \notin S
  <2>1. [f EXCEPT ![p] = @ + 1] = f
    BY <1>2
  <2> QED BY <2>1, Zenon
<1> QED BY <1>1, <1>2

\* What hydratePath does to the counts: the folder was not in the gate.
LEMMA HydrateStep ==
    ASSUME ExplorerInv, NEW u, NEW cs, NEW srv, NEW p,
           u.gate = ui.gate, srv.asked = server.asked, srv.lapses = server.lapses,
           DOMAIN u = ExplorerFields, DOMAIN srv = {"asked", "lapses", "failures"},
           Files!MayHydrate(u, p), Files!Becomes(Files!hydratePath(u, cs, srv, p))
    PROVE  ExplorerInv' /\ ExplorerShape'
<1>1. ui' = [u EXCEPT !.attempted = @ \cup {p}, !.gate = @ \cup {p}, !.hydrating = p, !.error = FALSE]
  BY DEF Files!Becomes, Files!hydratePath, Files!Page
<1>2. server' = [srv EXCEPT !.asked = [srv.asked EXCEPT ![p] = @ + 1]]
  BY DEF Files!Becomes, Files!hydratePath, Files!Page
<1>3. ui'.gate = ui.gate \cup {p} /\ DOMAIN ui' = ExplorerFields
  BY <1>1 DEF ExplorerFields
<1>4. /\ server'.asked = [server.asked EXCEPT ![p] = @ + 1] /\ server'.lapses = server.lapses
      /\ DOMAIN server' = {"asked", "lapses", "failures"}
  BY <1>2
<1>5. p \notin ui.gate
  BY DEF Files!MayHydrate
<1>6. server'.asked \in [Files!Folders -> Nat]
  BY <1>4, Counted DEF ExplorerInv
<1>7. ASSUME NEW q \in Files!Folders
      PROVE  server'.asked[q] <= server'.lapses[q] + IF q \in ui'.gate THEN 1 ELSE 0
  <2>1. /\ server.asked[q] \in Nat /\ server.lapses[q] \in Nat
        /\ server.asked[q] <= server.lapses[q] + IF q \in ui.gate THEN 1 ELSE 0
    BY DEF ExplorerInv
  <2>2. CASE q = p
    <3>1. server'.asked[q] = server.asked[q] + 1
      BY <1>4, <2>2 DEF ExplorerInv
    <3> QED BY <1>3, <1>4, <1>5, <2>1, <2>2, <3>1
  <2>3. CASE q # p
    <3>1. server'.asked[q] = server.asked[q]
      BY <1>4, <2>3 DEF ExplorerInv
    <3>2. q \in ui'.gate <=> q \in ui.gate
      BY <1>3, <2>3
    <3> QED BY <1>4, <2>1, <3>1, <3>2
  <2> QED BY <2>2, <2>3
<1> QED BY <1>3, <1>4, <1>6, <1>7 DEF ExplorerInv, ExplorerShape

\* A step that leaves the gate and the counts alone.
LEMMA ExplorerFrame ==
    ASSUME ExplorerInv, ui'.gate = ui.gate,
           server'.asked = server.asked, server'.lapses = server.lapses
    PROVE  ExplorerInv'
BY DEF ExplorerInv

\* The effect that runs after a handler.
LEMMA RenderStep ==
    ASSUME ExplorerInv, NEW u, NEW cs, NEW srv,
           u.gate = ui.gate, srv.asked = server.asked, srv.lapses = server.lapses,
           DOMAIN u = ExplorerFields, DOMAIN srv = {"asked", "lapses", "failures"},
           Files!Becomes(Files!Rendered(u, cs, srv))
    PROVE  ExplorerInv' /\ ExplorerShape'
<1>1. CASE Files!WantsContents(u) /\ Files!MayHydrate(u, u.cur)
  <2>1. Files!Becomes(Files!hydratePath(u, cs, srv, u.cur))
    BY <1>1 DEF Files!Rendered
  <2> QED BY <1>1, <2>1, HydrateStep
<1>2. CASE ~(Files!WantsContents(u) /\ Files!MayHydrate(u, u.cur))
  <2>1. ui' = u /\ server' = srv
    BY <1>2 DEF Files!Rendered, Files!Becomes, Files!Page
  <2> QED BY <2>1, ExplorerFrame DEF ExplorerShape
<1> QED BY <1>1, <1>2

\* navigateTo, goBack, goForward and Reopen: the gate is the tab's.
LEMMA MovedStep ==
    ASSUME ExplorerInv, ExplorerShape, NEW v, v.gate = ui.gate, DOMAIN v = ExplorerFields,
           Files!Moved(v)
    PROVE  ExplorerInv' /\ ExplorerShape'
<1> DEFINE u == [v EXCEPT !.moves = @ + 1]
<1>1. u.gate = ui.gate /\ DOMAIN u = ExplorerFields
  OBVIOUS
<1>2. Files!Becomes(Files!Rendered(u, calls, server))
  BY DEF Files!Moved
<1> HIDE DEF u
<1> QED BY <1>1, <1>2, RenderStep DEF ExplorerShape

\* An answer, of the explorer that is shown or of one that is gone.
LEMMA AnsweredStep ==
    ASSUME ExplorerInv, ExplorerShape, NEW c, NEW u, NEW srv,
           u.gate = ui.gate, srv.asked = server.asked, srv.lapses = server.lapses,
           DOMAIN u = ExplorerFields, DOMAIN srv = {"asked", "lapses", "failures"},
           Files!Answered(c, u, srv)
    PROVE  ExplorerInv' /\ ExplorerShape'
<1>1. CASE c.mount = ui.mount
  <2> DEFINE v == [u EXCEPT !.hydrating = IF @ = c.path THEN Files!None ELSE @]
  <2>1. v.gate = ui.gate /\ DOMAIN v = ExplorerFields
    OBVIOUS
  <2>2. Files!Becomes(Files!Rendered(v, calls \ {c}, srv))
    BY <1>1 DEF Files!Answered, Files!Released
  <2> HIDE DEF v
  <2> QED BY <2>1, <2>2, RenderStep
<1>2. CASE c.mount # ui.mount
  <2>1. ui' = [ui EXCEPT !.blocked = u.blocked] /\ server' = srv
    BY <1>2 DEF Files!Answered, Files!Becomes, Files!Page
  <2>2. ui'.gate = ui.gate /\ DOMAIN ui' = ExplorerFields
    BY <2>1 DEF ExplorerShape
  <2> QED BY <2>1, <2>2, ExplorerFrame DEF ExplorerShape
<1> QED BY <1>1, <1>2

LEMMA ExplorerStep ==
    ASSUME ExplorerInv, ExplorerShape, Files!Next
    PROVE  ExplorerInv' /\ ExplorerShape'
<1> DEFINE Good == ExplorerInv' /\ ExplorerShape'
<1>0. DOMAIN ui = ExplorerFields /\ DOMAIN server = {"asked", "lapses", "failures"}
  BY DEF ExplorerShape
<1>1. ASSUME NEW p, Files!navigateTo(p) PROVE Good
  <2> DEFINE v == [ui EXCEPT !.back = Append(@, ui.cur), !.fwd = <<>>, !.cur = p, !.sel = Files!None]
  <2>1. v.gate = ui.gate /\ DOMAIN v = ExplorerFields
    BY <1>0
  <2>2. Files!Moved(v)
    BY <1>1 DEF Files!navigateTo, Files!Visited
  <2> HIDE DEF v
  <2> QED BY <2>1, <2>2, MovedStep
<1>2. ASSUME Files!goBack PROVE Good
  <2> DEFINE v == [ui EXCEPT !.back = SubSeq(@, 1, Len(@) - 1), !.fwd = Append(@, ui.cur),
                             !.cur = ui.back[Len(ui.back)], !.sel = Files!None]
  <2>1. v.gate = ui.gate /\ DOMAIN v = ExplorerFields
    BY <1>0
  <2>2. Files!Moved(v)
    BY <1>2 DEF Files!goBack
  <2> HIDE DEF v
  <2> QED BY <2>1, <2>2, MovedStep
<1>3. ASSUME Files!goForward PROVE Good
  <2> DEFINE v == [ui EXCEPT !.fwd = SubSeq(@, 1, Len(@) - 1), !.back = Append(@, ui.cur),
                             !.cur = ui.fwd[Len(ui.fwd)], !.sel = Files!None]
  <2>1. v.gate = ui.gate /\ DOMAIN v = ExplorerFields
    BY <1>0
  <2>2. Files!Moved(v)
    BY <1>3 DEF Files!goForward
  <2> HIDE DEF v
  <2> QED BY <2>1, <2>2, MovedStep
<1>4. ASSUME Files!SelectEntry PROVE Good
  <2>1. PICK e : ui' = [ui EXCEPT !.sel = e] /\ server' = server
    BY <1>4, Zenon DEF Files!SelectEntry
  <2>2. ui'.gate = ui.gate /\ DOMAIN ui' = ExplorerFields
    BY <1>0, <2>1
  <2> QED BY <1>0, <2>1, <2>2, ExplorerFrame DEF ExplorerShape
<1>5. ASSUME Files!LoadNow PROVE Good
  <2> DEFINE u == [ui EXCEPT !.moves = @ + 1]
  <2>1. u.gate = ui.gate /\ DOMAIN u = ExplorerFields
    BY <1>0
  <2>2. Files!Becomes(Files!hydratePath(u, calls, server, ui.cur))
    BY <1>5 DEF Files!LoadNow
  <2>3. Files!MayHydrate(u, ui.cur)
    BY <1>0, <1>5 DEF Files!LoadNow, Files!MayHydrate, ExplorerFields
  <2> HIDE DEF u
  <2> QED BY <1>0, <2>1, <2>2, <2>3, HydrateStep
<1>6. ASSUME Files!Reopen PROVE Good
  <2> DEFINE w == [ui EXCEPT !.mount = @ + 1]
  <2>1. w.gate = ui.gate /\ DOMAIN w = ExplorerFields
    BY <1>0
  <2> HIDE DEF w
  <2>2. Files!Booted(w).gate = ui.gate /\ DOMAIN Files!Booted(w) = ExplorerFields
    BY <2>1, Zenon DEF Files!Booted, ExplorerFields
  <2>3. Files!Moved(Files!Booted(w))
    BY <1>6 DEF Files!Reopen, w
  <2> QED BY <2>2, <2>3, MovedStep
<1>7. ASSUME Files!GateLapses PROVE Good
  <2>1. PICK p \in ui.gate : /\ ui' = [ui EXCEPT !.gate = @ \ {p}]
                             /\ server' = [server EXCEPT !.lapses = [server.lapses EXCEPT ![p] = @ + 1]]
    BY <1>7, Zenon DEF Files!GateLapses
  <2>2. ui'.gate = ui.gate \ {p} /\ DOMAIN ui' = ExplorerFields
    BY <1>0, <2>1 DEF ExplorerFields
  <2>3. /\ server'.asked = server.asked /\ server'.lapses = [server.lapses EXCEPT ![p] = @ + 1]
        /\ DOMAIN server' = {"asked", "lapses", "failures"}
    BY <1>0, <2>1
  <2>4. server'.lapses \in [Files!Folders -> Nat]
    BY <2>3, Counted DEF ExplorerInv
  <2>5. ASSUME NEW q \in Files!Folders
        PROVE  server'.asked[q] <= server'.lapses[q] + IF q \in ui'.gate THEN 1 ELSE 0
    <3>1. /\ server.asked[q] \in Nat /\ server.lapses[q] \in Nat
          /\ server.asked[q] <= server.lapses[q] + IF q \in ui.gate THEN 1 ELSE 0
      BY DEF ExplorerInv
    <3>2. CASE q = p
      <4>1. server'.lapses[q] = server.lapses[q] + 1
        BY <2>3, <3>2 DEF ExplorerInv
      <4> QED BY <2>2, <2>3, <3>1, <3>2, <4>1
    <3>3. CASE q # p
      <4>1. server'.lapses[q] = server.lapses[q]
        BY <2>3, <3>3 DEF ExplorerInv
      <4>2. q \in ui'.gate <=> q \in ui.gate
        BY <2>2, <3>3
      <4> QED BY <2>3, <3>1, <4>1, <4>2
    <3> QED BY <3>2, <3>3
  <2> QED BY <2>2, <2>3, <2>4, <2>5 DEF ExplorerInv, ExplorerShape
<1>8. ASSUME NEW c, Files!BrowseAccepted(c) PROVE Good
  BY <1>8 DEF Files!BrowseAccepted, ExplorerInv, ExplorerShape
<1>9. /\ Files!Failed.asked = server.asked /\ Files!Failed.lapses = server.lapses
      /\ DOMAIN Files!Failed = {"asked", "lapses", "failures"}
  BY <1>0 DEF Files!Failed
<1>10. ASSUME NEW c, Files!BrowseRefused(c) PROVE Good
  <2>1. PICK invalid : Files!Answered(c, [ui EXCEPT !.error = TRUE,
                          !.blocked = IF invalid THEN @ \cup {c.path} ELSE @], Files!Failed)
    BY <1>10, Zenon DEF Files!BrowseRefused
  <2> DEFINE u == [ui EXCEPT !.error = TRUE, !.blocked = IF invalid THEN @ \cup {c.path} ELSE @]
  <2>2. u.gate = ui.gate /\ DOMAIN u = ExplorerFields
    BY <1>0
  <2>3. Files!Answered(c, u, Files!Failed)
    BY <2>1
  <2> HIDE DEF u
  <2> QED BY <1>9, <2>2, <2>3, AnsweredStep, Zenon
<1>11. ASSUME NEW c, NEW incoming
       PROVE  /\ Files!Merged(ui, c, incoming).gate = ui.gate
              /\ DOMAIN Files!Merged(ui, c, incoming) = ExplorerFields
  BY <1>0 DEF Files!Merged
<1>12. ASSUME NEW c, Files!BrowseCompleted(c) PROVE Good
  <2>1. Files!Answered(c, Files!Merged(ui, c, Files!Listing(c.path)), server)
    BY <1>12 DEF Files!BrowseCompleted
  <2> QED BY <1>0, <1>11, <2>1, AnsweredStep
<1>13. ASSUME NEW c, Files!BrowseEmpty(c) PROVE Good
  <2>1. Files!Answered(c, Files!Merged(ui, c, ui.snapshot), Files!Failed)
    BY <1>13 DEF Files!BrowseEmpty
  <2> QED BY <1>9, <1>11, <2>1, AnsweredStep
<1> HIDE DEF Good
<1>14. ASSUME Files!BrowseStep PROVE Good
  BY <1>8, <1>10, <1>12, <1>13, <1>14, Zenon DEF Files!BrowseStep
<1>15. ASSUME Files!Navigate PROVE Good
  BY <1>1, <1>15, Zenon DEF Files!Navigate
<1>16. ASSUME Files!goUp PROVE Good
  BY <1>1, <1>16, Zenon DEF Files!goUp
<1>17. Good
  BY <1>2, <1>3, <1>4, <1>5, <1>6, <1>7, <1>14, <1>15, <1>16, Zenon DEF Files!Next
<1> QED BY <1>17 DEF Good

\* The first effect of the explorer may already browse the folder shown.
LEMMA ExplorerInit ==
    ASSUME Files!Init
    PROVE  ExplorerInv /\ ExplorerShape
<1>1. PICK s \in Files!Snapshots, partial \in BOOLEAN, auto \in BOOLEAN :
         LET first == Files!Rendered(Files!Mounted(s, partial, auto), {}, Files!Unasked)
         IN  ui = first.ui /\ server = first.server
  BY Zenon DEF Files!Init
<1>2. PICK u : u = Files!Mounted(s, partial, auto)
  OBVIOUS
<1>3. u.gate = {} /\ DOMAIN u = ExplorerFields
  BY <1>2, Zenon DEF Files!Mounted, Files!Booted, ExplorerFields
<1>4. PICK srv : srv = Files!Unasked
  OBVIOUS
<1>5. /\ srv.asked = [p \in Files!Folders |-> 0] /\ srv.lapses = [p \in Files!Folders |-> 0]
      /\ DOMAIN srv = {"asked", "lapses", "failures"}
  BY <1>4 DEF Files!Unasked
<1>6. CASE Files!WantsContents(u) /\ Files!MayHydrate(u, u.cur)
  <2>1. /\ ui = [u EXCEPT !.attempted = @ \cup {u.cur}, !.gate = @ \cup {u.cur},
                          !.hydrating = u.cur, !.error = FALSE]
        /\ server = [srv EXCEPT !.asked = [srv.asked EXCEPT ![u.cur] = @ + 1]]
    BY <1>1, <1>2, <1>4, <1>6 DEF Files!Rendered, Files!hydratePath, Files!Page
  <2>2. ui.gate = {u.cur} /\ DOMAIN ui = ExplorerFields
    BY <1>3, <2>1 DEF ExplorerFields
  <2>3. /\ server.asked = [srv.asked EXCEPT ![u.cur] = @ + 1] /\ server.lapses = srv.lapses
        /\ DOMAIN server = {"asked", "lapses", "failures"}
    BY <1>5, <2>1
  <2>4. srv.asked \in [Files!Folders -> Nat] /\ server.lapses \in [Files!Folders -> Nat]
    BY <1>5, <2>3
  <2>5. server.asked \in [Files!Folders -> Nat]
    BY <2>3, <2>4, Counted
  <2>6. ASSUME NEW q \in Files!Folders
        PROVE  server.asked[q] <= server.lapses[q] + IF q \in ui.gate THEN 1 ELSE 0
    <3>1. srv.asked[q] = 0 /\ server.lapses[q] = 0
      BY <1>5, <2>3
    <3>2. server.asked[q] = IF q = u.cur THEN 1 ELSE 0
      BY <1>5, <2>3, <3>1
    <3> QED BY <2>2, <3>1, <3>2
  <2> QED BY <2>2, <2>3, <2>4, <2>5, <2>6 DEF ExplorerInv, ExplorerShape
<1>7. CASE ~(Files!WantsContents(u) /\ Files!MayHydrate(u, u.cur))
  <2>1. ui = u /\ server = srv
    BY <1>1, <1>2, <1>4, <1>7 DEF Files!Rendered, Files!Page
  <2> QED BY <1>3, <1>5, <2>1 DEF ExplorerInv, ExplorerShape
<1> QED BY <1>6, <1>7

\* BrowsesAreSpaced: the gate holds at most one browse more than the lapses.
LEMMA ExplorerSafe ==
    ASSUME ExplorerInv
    PROVE  Files!BrowsesAreSpaced
BY DEF ExplorerInv, Files!BrowsesAreSpaced


-----------------------------------------------------------------------------
(* The alerts page *)

\* A post under way and a pause of the drawer are for an alert Ack was pressed
\* for, and so is what the control plane has acknowledged.
AlarmInv ==
    /\ DOMAIN server.alerts = Alarms!Alerts
    /\ \A p \in calls.posts : p.alert \in ui.asked
    /\ \A w \in calls.pauses : w.alert \in ui.asked
    /\ Alarms!AckWasAsked

AlarmFields ==
    {"alerts", "loading", "refreshing", "error", "acknowledgeIds", "drawer", "asked", "acts", "overruns"}
AlarmShape ==
    /\ DOMAIN ui = AlarmFields
    /\ DOMAIN server = {"alerts", "failures"}
    /\ DOMAIN calls = {"loads", "posts", "pauses"}

\* What is asked stays asked; a step that acknowledges nothing and sends or
\* pauses only for alerts that were asked for.
LEMMA AlarmFrame ==
    ASSUME AlarmInv, ui.asked \subseteq ui'.asked, server'.alerts = server.alerts,
           \A p \in calls'.posts : p \in calls.posts \/ p.alert \in ui'.asked,
           \A w \in calls'.pauses : w \in calls.pauses \/ w.alert \in ui'.asked
    PROVE  AlarmInv'
BY DEF AlarmInv, Alarms!AckWasAsked

LEMMA AlarmStep ==
    ASSUME AlarmInv, AlarmShape, Alarms!Next
    PROVE  AlarmInv' /\ AlarmShape'
<1> DEFINE Good == AlarmInv' /\ AlarmShape'
<1>0. /\ DOMAIN ui = AlarmFields /\ DOMAIN server = {"alerts", "failures"}
      /\ DOMAIN calls = {"loads", "posts", "pauses"}
  BY DEF AlarmShape
<1>1. ASSUME Alarms!Failure
      PROVE  server'.alerts = server.alerts /\ DOMAIN server' = {"alerts", "failures"}
  BY <1>0, <1>1 DEF Alarms!Failure
<1>2. ASSUME NEW l, Alarms!FetchLoad(l) PROVE Good
  <2>1. PICK r : calls' = [calls EXCEPT !.loads = (@ \ {l}) \cup {r}]
    BY <1>2, Zenon DEF Alarms!FetchLoad
  <2>2. ui' = ui /\ server'.alerts = server.alerts /\ DOMAIN server' = {"alerts", "failures"}
    BY <1>0, <1>1, <1>2 DEF Alarms!FetchLoad
  <2>3. calls'.posts = calls.posts /\ calls'.pauses = calls.pauses /\ DOMAIN calls' = DOMAIN calls
    BY <1>0, <2>1
  <2> QED BY <1>0, <2>2, <2>3, AlarmFrame DEF AlarmShape
<1>3. ASSUME NEW l, Alarms!LoadAnswer(l) PROVE Good
  <2>1. server' = server /\ calls' = [calls EXCEPT !.loads = @ \ {l}]
    BY <1>3 DEF Alarms!LoadAnswer
  <2>2. ui'.asked = ui.asked /\ DOMAIN ui' = DOMAIN ui
    BY <1>0, <1>3, Zenon DEF Alarms!LoadAnswer, AlarmFields
  <2>3. calls'.posts = calls.posts /\ calls'.pauses = calls.pauses /\ DOMAIN calls' = DOMAIN calls
    BY <1>0, <2>1
  <2> QED BY <1>0, <2>1, <2>2, <2>3, AlarmFrame DEF AlarmShape
<1>4. ASSUME Alarms!Poll PROVE Good
  <2>1. PICK l : calls' = [calls EXCEPT !.loads = @ \cup {l}]
    BY <1>4, Zenon DEF Alarms!Poll
  <2>2. server' = server /\ ui'.asked = ui.asked /\ DOMAIN ui' = DOMAIN ui
    BY <1>0, <1>4 DEF Alarms!Poll, AlarmFields
  <2>3. calls'.posts = calls.posts /\ calls'.pauses = calls.pauses /\ DOMAIN calls' = DOMAIN calls
    BY <1>0, <2>1
  <2> QED BY <1>0, <2>2, <2>3, AlarmFrame DEF AlarmShape
<1>5. ASSUME NEW p \in calls.posts, Alarms!AckServed(p) PROVE Good
  <2>1. PICK got : calls' = [calls EXCEPT !.posts = (@ \ {p}) \cup {[p EXCEPT !.got = got]}]
    BY <1>5 DEF Alarms!AckServed
  <2>2. ui' = ui
    BY <1>5 DEF Alarms!AckServed
  <2>3. calls'.posts = (calls.posts \ {p}) \cup {[p EXCEPT !.got = got]} /\ calls'.pauses = calls.pauses
    BY <1>0, <2>1
  <2>4. DOMAIN calls' = DOMAIN calls
    BY <1>0, <2>1
  <2>5. [p EXCEPT !.got = got].alert = p.alert /\ p.alert \in ui.asked
    BY DEF AlarmInv
  <2>6. ASSUME server'.alerts = server.alerts, DOMAIN server' = {"alerts", "failures"} PROVE Good
    BY <1>0, <2>2, <2>3, <2>4, <2>5, <2>6, AlarmFrame, Zenon DEF AlarmShape
  <2>7. ASSUME server'.alerts = [server.alerts EXCEPT ![p.alert] = "acknowledged"],
               DOMAIN server' = {"alerts", "failures"}
        PROVE  Good
    <3>1. ASSUME NEW a \in Alarms!Alerts, server'.alerts[a] = "acknowledged" PROVE a \in ui.asked
      <4>1. CASE a = p.alert
        BY <2>5, <4>1
      <4>2. CASE a # p.alert
        BY <2>7, <3>1, <4>2 DEF AlarmInv, Alarms!AckWasAsked
      <4> QED BY <4>1, <4>2
    <3>2. DOMAIN server'.alerts = Alarms!Alerts
      BY <2>7 DEF AlarmInv
    <3> QED BY <1>0, <2>2, <2>3, <2>4, <2>5, <2>7, <3>1, <3>2, Zenon DEF AlarmInv, AlarmShape, Alarms!AckWasAsked
  <2>8. \/ server' = [server EXCEPT !.alerts = [server.alerts EXCEPT ![p.alert] = "acknowledged"]]
        \/ Alarms!Failure
        \/ server' = [[server EXCEPT !.alerts = [server.alerts EXCEPT ![p.alert] = "acknowledged"]]
                        EXCEPT !.failures = @ + 1]
    BY <1>5 DEF Alarms!AckServed
  <2>9. \/ /\ server'.alerts = [server.alerts EXCEPT ![p.alert] = "acknowledged"]
           /\ DOMAIN server' = {"alerts", "failures"}
        \/ server'.alerts = server.alerts /\ DOMAIN server' = {"alerts", "failures"}
    BY <1>0, <1>1, <2>8, Zenon
  <2> QED BY <2>6, <2>7, <2>9
<1>6. ASSUME NEW p \in calls.posts, Alarms!AckAnswer(p) PROVE Good
  <2>1. server' = server /\ calls' = [calls EXCEPT !.posts = @ \ {p}]
    BY <1>6 DEF Alarms!AckAnswer
  <2>2. ui'.asked = ui.asked /\ DOMAIN ui' = DOMAIN ui
    BY <1>0, <1>6 DEF Alarms!AckAnswer, AlarmFields
  <2>3. calls'.posts \subseteq calls.posts /\ calls'.pauses = calls.pauses /\ DOMAIN calls' = DOMAIN calls
    BY <1>0, <2>1
  <2> QED BY <1>0, <2>1, <2>2, <2>3, AlarmFrame DEF AlarmShape
<1>7. ASSUME NEW w \in calls.pauses, Alarms!PauseEnds(w) PROVE Good
  <2>1. server' = server /\ ui'.asked = ui.asked /\ DOMAIN ui' = DOMAIN ui
    BY <1>0, <1>7, Zenon DEF Alarms!PauseEnds, AlarmFields
  <2>2. PICK n : calls' = [calls EXCEPT !.pauses = @ \ {w},
                             !.posts = @ \cup {[alert |-> w.alert, got |-> "sent", no |-> n]}]
    BY <1>7, Zenon DEF Alarms!PauseEnds, Alarms!Sent
  <2>3. /\ calls'.posts = calls.posts \cup {[alert |-> w.alert, got |-> "sent", no |-> n]}
        /\ calls'.pauses \subseteq calls.pauses /\ DOMAIN calls' = DOMAIN calls
    BY <1>0, <2>2
  <2>4. w.alert \in ui.asked
    BY DEF AlarmInv
  <2> QED BY <1>0, <2>1, <2>3, <2>4, AlarmFrame DEF AlarmShape

<1>8. ASSUME ui'.asked = ui.asked, DOMAIN ui' = DOMAIN ui, server' = server, calls' = calls PROVE Good
  BY <1>0, <1>8, AlarmFrame DEF AlarmShape
<1>9. ASSUME Alarms!CloseDrawer PROVE Good
  <2>1. ui'.asked = ui.asked /\ DOMAIN ui' = DOMAIN ui
    BY <1>0, <1>9 DEF Alarms!CloseDrawer, AlarmFields
  <2> QED BY <1>8, <1>9, <2>1 DEF Alarms!CloseDrawer
<1>10. ASSUME Alarms!TypeRationale PROVE Good
  <2>1. PICK d : ui' = [ui EXCEPT !.drawer = d] /\ server' = server /\ calls' = calls
    BY <1>10, Zenon DEF Alarms!TypeRationale
  <2>2. ui'.asked = ui.asked /\ DOMAIN ui' = DOMAIN ui
    BY <1>0, <2>1 DEF AlarmFields
  <2> QED BY <1>8, <2>1, <2>2
<1>11. ASSUME NEW a, Alarms!RowClick(a) PROVE Good
  <2>1. PICK d : ui' = [ui EXCEPT !.drawer = d] /\ server' = server /\ calls' = calls
    BY <1>11, Zenon DEF Alarms!RowClick
  <2>2. ui'.asked = ui.asked /\ DOMAIN ui' = DOMAIN ui
    BY <1>0, <2>1 DEF AlarmFields
  <2> QED BY <1>8, <2>1, <2>2
<1>12. ASSUME Alarms!DrawerAck PROVE Good
  <2>1. PICK d : ui' = [[ui EXCEPT !.drawer = d, !.asked = @ \cup {ui.drawer.alert}] EXCEPT !.acts = @ + 1]
    BY <1>12, Zenon DEF Alarms!DrawerAck, Alarms!Acted
  <2>2. ui'.asked = ui.asked \cup {ui.drawer.alert} /\ DOMAIN ui' = DOMAIN ui
    BY <1>0, <2>1 DEF AlarmFields
  <2>3. PICK n : calls' = [calls EXCEPT !.pauses = @ \cup {[alert |-> ui.drawer.alert, no |-> n]}]
    BY <1>12, Zenon DEF Alarms!DrawerAck
  <2>4. /\ calls'.posts = calls.posts /\ DOMAIN calls' = DOMAIN calls
        /\ calls'.pauses = calls.pauses \cup {[alert |-> ui.drawer.alert, no |-> n]}
    BY <1>0, <2>3
  <2>5. server' = server
    BY <1>12 DEF Alarms!DrawerAck
  <2> QED BY <1>0, <2>2, <2>4, <2>5, AlarmFrame DEF AlarmShape
<1>13. ASSUME NEW a, Alarms!RowAck(a) PROVE Good
  <2>1. ui' = [[ui EXCEPT !.acknowledgeIds = @ \cup {a}, !.asked = @ \cup {a}] EXCEPT !.acts = @ + 1]
    BY <1>13 DEF Alarms!RowAck, Alarms!Acted
  <2>2. ui'.asked = ui.asked \cup {a} /\ DOMAIN ui' = DOMAIN ui
    BY <1>0, <2>1 DEF AlarmFields
  <2>3. PICK n : calls' = [calls EXCEPT !.posts = @ \cup {[alert |-> a, got |-> "sent", no |-> n]}]
    BY <1>13, Zenon DEF Alarms!RowAck, Alarms!Sent
  <2>4. /\ calls'.posts = calls.posts \cup {[alert |-> a, got |-> "sent", no |-> n]}
        /\ calls'.pauses = calls.pauses /\ DOMAIN calls' = DOMAIN calls
    BY <1>0, <2>3
  <2>5. server' = server
    BY <1>13 DEF Alarms!RowAck
  <2> QED BY <1>0, <2>2, <2>4, <2>5, AlarmFrame DEF AlarmShape
<1>14. ASSUME Alarms!RefreshButton PROVE Good
  <2>1. ui' = [[ui EXCEPT !.refreshing = TRUE] EXCEPT !.acts = @ + 1] /\ server' = server
    BY <1>14 DEF Alarms!RefreshButton, Alarms!Acted
  <2>2. ui'.asked = ui.asked /\ DOMAIN ui' = DOMAIN ui
    BY <1>0, <2>1 DEF AlarmFields
  <2>3. PICK l : calls' = [calls EXCEPT !.loads = @ \cup {l}]
    BY <1>14, Zenon DEF Alarms!RefreshButton
  <2>4. calls'.posts = calls.posts /\ calls'.pauses = calls.pauses /\ DOMAIN calls' = DOMAIN calls
    BY <1>0, <2>3
  <2> QED BY <1>0, <2>1, <2>2, <2>4, AlarmFrame DEF AlarmShape
<1>15. ASSUME Alarms!Raise PROVE Good
  <2>1. /\ server' = [server EXCEPT !.alerts = [server.alerts EXCEPT ![2] = "active"]]
        /\ ui' = ui /\ calls' = calls
    BY <1>15 DEF Alarms!Raise
  <2>2. /\ server'.alerts = [server.alerts EXCEPT ![2] = "active"]
        /\ DOMAIN server' = {"alerts", "failures"}
    BY <1>0, <2>1
  <2>3. \A a \in Alarms!Alerts : server'.alerts[a] = "acknowledged" => a \in ui.asked
    BY <2>2 DEF AlarmInv, Alarms!AckWasAsked
  <2>4. DOMAIN server'.alerts = Alarms!Alerts
    BY <2>2 DEF AlarmInv
  <2> QED BY <1>0, <2>1, <2>2, <2>3, <2>4 DEF AlarmInv, AlarmShape, Alarms!AckWasAsked
<1> HIDE DEF Good
<1>16. ASSUME Alarms!LoadStep PROVE Good
  BY <1>2, <1>3, <1>16, Zenon DEF Alarms!LoadStep
<1>17. ASSUME Alarms!PostStep PROVE Good
  BY <1>5, <1>6, <1>17, Zenon DEF Alarms!PostStep
<1>18. ASSUME Alarms!PauseStep PROVE Good
  BY <1>7, <1>18, Zenon DEF Alarms!PauseStep
<1>19. Good
  BY <1>4, <1>9, <1>10, <1>11, <1>12, <1>13, <1>14, <1>15, <1>16, <1>17, <1>18, Zenon DEF Alarms!Next
<1> QED BY <1>19 DEF Good

LEMMA AlarmInit ==
    ASSUME Alarms!Init
    PROVE  AlarmInv /\ AlarmShape
<1>1. /\ server.alerts = <<"active", "none">> /\ calls.posts = {} /\ calls.pauses = {}
      /\ DOMAIN server = {"alerts", "failures"} /\ DOMAIN calls = {"loads", "posts", "pauses"}
  BY DEF Alarms!Init
<1>2. DOMAIN ui = AlarmFields
  BY DEF Alarms!Init, AlarmFields
<1>3. DOMAIN server.alerts = 1 .. 2 /\ server.alerts[1] = "active" /\ server.alerts[2] = "none"
  BY <1>1
<1> QED BY <1>1, <1>2, <1>3 DEF AlarmInv, AlarmShape, Alarms!AckWasAsked, Alarms!Alerts

-----------------------------------------------------------------------------
(* The dialogs that dispatch a command *)

\* The commands that opening n of the dialog created, and their number.
CreatedBy(n) == {i \in DOMAIN server.created : server.created[i].n = n}
Commands(n) == Cardinality(CreatedBy(n))

\* The opening may still create a command without a further failure: it is to
\* come, or its form waits for the button, or its post has not succeeded.
MayCreate(n) ==
    \/ n > ui.opens
    \/ n = ui.opens /\ ui.form.open /\ ~ui.form.submitted /\ ~ui.form.loading
    \/ \E p \in calls.posts : p.n = n /\ p.phase # "ok"

Yes == {TRUE}
PostSet == [n : Nat, named : Yes, coded : Yes, phase : {"sent", "ok", "failed"}]

\* The form is off while the post of its opening is under way, and every failure
\* pays for at most one command too many.
DialogInv ==
    /\ ui.opens \in Nat /\ server.failures \in Nat
    /\ server.created \in Seq(PostSet)
    /\ calls.posts \subseteq PostSet
    /\ \A p \in calls.posts : p.n <= ui.opens
    /\ \A p, q \in calls.posts : p.n = q.n => p = q
    /\ ui.form.open /\ ~ui.form.loading => \A p \in calls.posts : p.n # ui.opens
    /\ \A n \in Nat : /\ Commands(n) <= 1 + server.failures
                      /\ MayCreate(n) => Commands(n) <= server.failures

FormFields ==
    {"open", "data", "device", "method", "params", "name", "code", "step", "loading", "submitted"}
DialogShape ==
    /\ DOMAIN ui = {"which", "opens", "form"} /\ DOMAIN ui.form = FormFields
    /\ DOMAIN server = {"created", "failures"}
    /\ DOMAIN calls = {"posts", "timers"}

\* The commands of an opening can be counted.
LEMMA CommandsType ==
    ASSUME server.created \in Seq(PostSet), NEW n
    PROVE  IsFiniteSet(CreatedBy(n)) /\ Commands(n) \in Nat
<1>1. IsFiniteSet(1 .. Len(server.created))
  BY FS_Interval
<1>2. CreatedBy(n) \in SUBSET (1 .. Len(server.created))
  BY DEF CreatedBy
<1>3. IsFiniteSet(CreatedBy(n))
  BY <1>1, <1>2, FS_Subset, Zenon
<1> QED BY <1>3, FS_CardinalityType DEF Commands

\* A command more is one more of its own opening only.
LEMMA CommandsGrow ==
    ASSUME server.created \in Seq(PostSet), NEW q \in PostSet,
           server'.created = Append(server.created, q), NEW n
    PROVE  Commands(n)' = Commands(n) + IF q.n = n THEN 1 ELSE 0
<1> DEFINE k == Len(server.created) + 1
<1>1. k \notin CreatedBy(n) /\ DOMAIN server'.created = DOMAIN server.created \cup {k}
  BY DEF CreatedBy
<1>2. server'.created[k] = q /\ \A i \in DOMAIN server.created : server'.created[i] = server.created[i]
  OBVIOUS
<1> HIDE DEF k
<1>3. CASE q.n = n
  <2>1. CreatedBy(n)' = CreatedBy(n) \cup {k}
    BY <1>1, <1>2, <1>3 DEF CreatedBy
  <2>2. IsFiniteSet(CreatedBy(n))
    BY CommandsType
  <2>3. Cardinality(CreatedBy(n) \cup {k}) = Cardinality(CreatedBy(n)) + 1
    BY <1>1, <2>2, FS_AddElement, Zenon
  <2> QED BY <1>3, <2>1, <2>3 DEF Commands
<1>4. CASE q.n # n
  <2>1. CreatedBy(n)' = CreatedBy(n)
    BY <1>1, <1>2, <1>4 DEF CreatedBy
  <2>2. Commands(n)' = Commands(n)
    BY <2>1 DEF Commands
  <2> QED BY <1>4, <2>2, CommandsType
<1> QED BY <1>3, <1>4

\* A step that touches neither the posts nor what was created: the form closes,
\* or goes on with the flags it had.
LEMMA FormStep ==
    ASSUME DialogInv,
           ui'.opens = ui.opens, server'.created = server.created, calls'.posts = calls.posts,
           server'.failures \in {server.failures, server.failures + 1},
           ui'.form.open => /\ ui.form.open
                            /\ ui'.form.loading = ui.form.loading
                            /\ ui'.form.submitted = ui.form.submitted
    PROVE  DialogInv'
<1>1. \A n : Commands(n)' = Commands(n)
  BY DEF Commands, CreatedBy
<1>2. \A n : MayCreate(n)' => MayCreate(n)
  BY DEF MayCreate
<1>3. ASSUME NEW n \in Nat
      PROVE  Commands(n)' <= 1 + server'.failures /\ (MayCreate(n)' => Commands(n)' <= server'.failures)
  <2>1. /\ Commands(n) <= 1 + server.failures /\ (MayCreate(n) => Commands(n) <= server.failures)
        /\ server.failures \in Nat
    BY DEF DialogInv
  <2>2. Commands(n) \in Nat
    BY CommandsType, SMTT(20) DEF DialogInv
  <2>3. Commands(n) <= 1 + server'.failures
    BY <2>1, <2>2
  <2>4. MayCreate(n)' => Commands(n) <= server'.failures
    BY <1>2, <2>1, <2>2
  <2> QED BY <1>1, <2>3, <2>4
<1>4. (ui.opens \in Nat /\ server.failures \in Nat)'
  BY DEF DialogInv
<1>5. (ui.form.open /\ ~ui.form.loading => \A p \in calls.posts : p.n # ui.opens)'
  BY DEF DialogInv
<1> QED BY <1>3, <1>4, <1>5 DEF DialogInv

\* A form that is filled in keeps its flags.
LEMMA FillStep ==
    ASSUME DialogInv, DialogShape, NEW f, DOMAIN f = FormFields, f.open = ui.form.open,
           f.loading = ui.form.loading, f.submitted = ui.form.submitted,
           ui' = [ui EXCEPT !.form = f], server' = server, calls' = calls
    PROVE  DialogInv' /\ DialogShape'
<1>1. ui'.form = f /\ ui'.opens = ui.opens /\ DOMAIN ui' = DOMAIN ui
  BY DEF DialogShape
<1>2. DialogShape'
  BY <1>1 DEF DialogShape
<1>3. server.failures = server'.failures
  OBVIOUS
<1> QED BY <1>1, <1>2, <1>3, FormStep

\* The dialog closes, or stays as it is.
LEMMA ShutStep ==
    ASSUME DialogInv, DialogShape, ui' = Dialogs!Shut(ui),
           server' = server, calls'.posts = calls.posts, DOMAIN calls' = DOMAIN calls
    PROVE  DialogInv' /\ DialogShape'
<1>1. PICK f : f = [Dialogs!Fresh(Dialogs!Blank) EXCEPT !.open = FALSE]
  BY Zenon
<1>2. f.open = FALSE /\ DOMAIN f = FormFields
  BY <1>1 DEF Dialogs!Fresh, FormFields
<1>3. ui' = [ui EXCEPT !.form = f]
  BY <1>1 DEF Dialogs!Shut
<1>4. ui'.form = f /\ ui'.opens = ui.opens /\ DOMAIN ui' = DOMAIN ui
  BY <1>3 DEF DialogShape
<1>5. DialogShape'
  BY <1>2, <1>4 DEF DialogShape
<1> QED BY <1>2, <1>4, <1>5, FormStep

\* A new opening has created nothing and has no post.
LEMMA OpenStep ==
    ASSUME DialogInv, DialogShape, NEW d, Dialogs!Open(d)
    PROVE  DialogInv' /\ DialogShape'
<1>1. PICK f : f = Dialogs!Fresh(d)
  OBVIOUS
<1>2. DOMAIN f = FormFields
  BY <1>1 DEF Dialogs!Fresh, FormFields
<1>3. ui' = [ui EXCEPT !.opens = @ + 1, !.form = f] /\ server' = server /\ calls' = calls
  BY <1>1 DEF Dialogs!Open
<1>4. ui'.form = f /\ ui'.opens = ui.opens + 1 /\ DOMAIN ui' = DOMAIN ui
  BY <1>3 DEF DialogShape
<1>5. DialogShape'
  BY <1>2, <1>3, <1>4 DEF DialogShape
<1>6. \A n : Commands(n)' = Commands(n)
  BY <1>3 DEF Commands, CreatedBy
<1>7. ui.opens \in Nat /\ \A p \in calls.posts : p.n \in Nat /\ p.n <= ui.opens
  <2>1. \A p \in PostSet : p.n \in Nat
    BY DEF PostSet
  <2> QED BY <2>1 DEF DialogInv
<1>8. \A n \in Nat : MayCreate(n)' => MayCreate(n)
  BY <1>3, <1>4, <1>7 DEF MayCreate
<1>9. \A p \in calls.posts : p.n <= ui'.opens /\ p.n # ui'.opens
  BY <1>4, <1>7
<1>10. ui'.opens \in Nat
  BY <1>4, <1>7
<1>11. \A n \in Nat : /\ Commands(n)' <= 1 + server'.failures
                      /\ MayCreate(n)' => Commands(n)' <= server'.failures
  BY <1>3, <1>6, <1>8 DEF DialogInv
<1>12. DialogInv'
  BY <1>3, <1>9, <1>10, <1>11 DEF DialogInv
<1> QED BY <1>5, <1>12

\* The button is pressed: the form of this opening waits, and what is posted was
\* named and coded.
LEMMA SendStep ==
    ASSUME DialogInv, DialogShape, ui.form.open, ~ui.form.loading, ~ui.form.submitted,
           Dialogs!Named, Dialogs!Coded, Dialogs!Send
    PROVE  DialogInv' /\ DialogShape'
<1>1. PICK q : q = Dialogs!Post
  OBVIOUS
<1>2. q = [n |-> ui.opens, named |-> TRUE, coded |-> TRUE, phase |-> "sent"]
  <2>1. Dialogs!Named = TRUE
    BY Zenon DEF Dialogs!Named
  <2>2. Dialogs!Coded = TRUE
    BY Zenon DEF Dialogs!Coded
  <2> QED BY <1>1, <2>1, <2>2, Zenon DEF Dialogs!Post
<1>3. q \in PostSet /\ q.n = ui.opens /\ q.phase = "sent"
  <2>1. PICK yes \in Yes : q = [n |-> ui.opens, named |-> yes, coded |-> yes, phase |-> "sent"]
    BY <1>2, Zenon DEF Yes
  <2> QED BY <2>1 DEF DialogInv, PostSet
<1>4. PICK f : f = [ui.form EXCEPT !.loading = TRUE]
  BY Zenon
<1>5. /\ f.loading /\ f.open = ui.form.open /\ f.submitted = ui.form.submitted
      /\ DOMAIN f = FormFields
  <2>1. f.loading
    BY <1>4, Zenon DEF DialogShape, FormFields
  <2>2. f.open = ui.form.open
    BY <1>4, Zenon DEF DialogShape, FormFields
  <2>3. f.submitted = ui.form.submitted
    BY <1>4, Zenon DEF DialogShape, FormFields
  <2>4. DOMAIN f = FormFields
    BY <1>4, Zenon DEF DialogShape
  <2> QED BY <2>1, <2>2, <2>3, <2>4
<1>6. /\ ui' = [ui EXCEPT !.form = f] /\ server' = server
      /\ calls' = [calls EXCEPT !.posts = calls.posts \cup {q}]
  BY <1>1, <1>4 DEF Dialogs!Send
<1>7. ui'.form = f /\ ui'.opens = ui.opens /\ DOMAIN ui' = DOMAIN ui
  BY <1>6 DEF DialogShape
<1>8. calls'.posts = calls.posts \cup {q} /\ DOMAIN calls' = DOMAIN calls
  BY <1>6 DEF DialogShape
<1>9. DialogShape'
  BY <1>5, <1>6, <1>7, <1>8 DEF DialogShape
<1>10. \A n : Commands(n)' = Commands(n)
  BY <1>6 DEF Commands, CreatedBy
<1>11. ASSUME NEW n, MayCreate(n)' PROVE MayCreate(n)
  BY <1>3, <1>5, <1>7, <1>8, <1>11 DEF MayCreate
<1>12. \A p \in calls.posts : p.n # q.n
  BY <1>3 DEF DialogInv
<1>13. \A n \in Nat : /\ Commands(n)' <= 1 + server'.failures
                      /\ MayCreate(n)' => Commands(n)' <= server'.failures
  BY <1>6, <1>10, <1>11 DEF DialogInv
<1>14. ui.opens <= ui.opens
  BY DEF DialogInv
<1>15. (\A p \in calls.posts : p.n <= ui.opens) /\ ui.opens \in Nat /\ server.failures \in Nat
  BY DEF DialogInv
<1>16. (\A p \in calls.posts : p.n <= ui.opens)'
  BY <1>3, <1>7, <1>8, <1>14, <1>15
<1>17. (\A p, r \in calls.posts : p.n = r.n => p = r)'
  BY <1>8, <1>12 DEF DialogInv
<1>18. (calls.posts \subseteq PostSet /\ server.created \in Seq(PostSet))'
  BY <1>3, <1>6, <1>8 DEF DialogInv
<1>19. DialogInv'
  BY <1>5, <1>6, <1>7, <1>13, <1>15, <1>16, <1>17, <1>18, SMTT(20) DEF DialogInv
<1> QED BY <1>9, <1>19

\* A post keeps its opening and what was confirmed when its phase changes.
LEMMA PhaseChange ==
    ASSUME NEW p \in PostSet, NEW how \in {"sent", "ok", "failed"}, NEW q, q = [p EXCEPT !.phase = how]
    PROVE  q \in PostSet /\ q.n = p.n /\ q.phase = how /\ p.n \in Nat
<1>1. p = [n |-> p.n, named |-> p.named, coded |-> p.coded, phase |-> p.phase]
  BY DEF PostSet
<1>2. p.n \in Nat /\ p.named \in Yes /\ p.coded \in Yes
  BY DEF PostSet
<1>3. q = [n |-> p.n, named |-> p.named, coded |-> p.coded, phase |-> how]
  BY <1>1
<1> QED BY <1>2, <1>3 DEF PostSet

\* The control plane serves a post: one command more, or one failure more, or both.
LEMMA ServedStep ==
    ASSUME DialogInv, DialogShape, NEW p \in calls.posts, Dialogs!PostServed(p)
    PROVE  DialogInv' /\ DialogShape'
<1>1. p \in PostSet /\ p.phase = "sent" /\ ui' = ui
  BY DEF DialogInv, Dialogs!PostServed
<1>2. PICK how \in {"ok", "failed"} :
         /\ calls' = [calls EXCEPT !.posts = (@ \ {p}) \cup {[p EXCEPT !.phase = how]}]
         /\ \/ how = "ok" /\ server' = [server EXCEPT !.created = Append(server.created, p)]
            \/ how = "failed" /\ server' = [server EXCEPT !.failures = @ + 1]
            \/ how = "failed" /\ server' = [server EXCEPT !.created = Append(server.created, p),
                                                          !.failures = @ + 1]
  BY DEF Dialogs!PostServed, Dialogs!Failure, Dialogs!Created
<1>3. PICK q : q = [p EXCEPT !.phase = how]
  BY Zenon
<1>4. q \in PostSet /\ q.n = p.n /\ q.phase = how /\ p.n \in Nat
  BY <1>1, <1>2, <1>3, PhaseChange
<1>5. calls'.posts = (calls.posts \ {p}) \cup {q} /\ DOMAIN calls' = DOMAIN calls
  BY <1>2, <1>3 DEF DialogShape
<1>6. /\ DOMAIN server' = DOMAIN server
      /\ \/ how = "ok" /\ server'.created = Append(server.created, p) /\ server'.failures = server.failures
         \/ /\ how = "failed" /\ server'.failures = server.failures + 1
            /\ server'.created \in {server.created, Append(server.created, p)}
  <2>1. CASE how = "ok" /\ server' = [server EXCEPT !.created = Append(server.created, p)]
    BY <2>1 DEF DialogShape
  <2>2. CASE how = "failed" /\ server' = [server EXCEPT !.failures = @ + 1]
    BY <2>2 DEF DialogShape
  <2>3. CASE how = "failed" /\ server' = [server EXCEPT !.created = Append(server.created, p),
                                                         !.failures = @ + 1]
    BY <2>3 DEF DialogShape
  <2> QED BY <1>2, <2>1, <2>2, <2>3
<1>7. /\ ui.opens \in Nat /\ server.failures \in Nat /\ server.created \in Seq(PostSet) /\ p.n \in Nat
      /\ \A r \in calls.posts : r.n = p.n => r = p
      /\ \A r \in calls.posts : r.n <= ui.opens
      /\ ui.form.open /\ ~ui.form.loading => p.n # ui.opens
  BY <1>1, <1>4 DEF DialogInv
<1>8. server'.failures \in Nat /\ server'.created \in Seq(PostSet)
  <2>1. Append(server.created, p) \in Seq(PostSet)
    BY <1>1, <1>7
  <2>2. server'.failures \in Nat
    BY <1>6, <1>7
  <2>3. server'.created = server.created \/ server'.created = Append(server.created, p)
    BY <1>6
  <2> QED BY <1>7, <2>1, <2>2, <2>3, Zenon
<1>9. \A n : MayCreate(n)' => MayCreate(n)
  BY <1>1, <1>4, <1>5, SMTT(20) DEF MayCreate
<1>10. how = "ok" => ~MayCreate(p.n)'
  BY <1>1, <1>4, <1>5, <1>7, SMTT(20) DEF MayCreate
<1>11. MayCreate(p.n)
  BY <1>1 DEF MayCreate
<1>12. ASSUME NEW n \in Nat
       PROVE  Commands(n)' <= 1 + server'.failures /\ (MayCreate(n)' => Commands(n)' <= server'.failures)
  <2>1. Commands(n) \in Nat /\ Commands(p.n) \in Nat
    BY <1>7, CommandsType
  <2>2. /\ Commands(n) <= 1 + server.failures /\ (MayCreate(n) => Commands(n) <= server.failures)
        /\ Commands(p.n) <= server.failures
    BY <1>7, <1>11 DEF DialogInv
  <2>3. Commands(n)' \in {Commands(n), Commands(n) + IF p.n = n THEN 1 ELSE 0}
    <3>1. CASE server'.created = server.created
      BY <3>1 DEF Commands, CreatedBy
    <3>2. CASE server'.created = Append(server.created, p)
      BY <1>1, <1>7, <3>2, CommandsGrow, SMTT(20)
    <3> QED BY <1>6, <3>1, <3>2
  <2>4. CASE p.n = n
    <3>1. CASE how = "ok"
      BY <1>6, <1>7, <1>10, <2>1, <2>2, <2>3, <2>4, <3>1, SMTT(20)
    <3>2. CASE how = "failed"
      BY <1>6, <1>7, <2>1, <2>2, <2>3, <2>4, <3>2, SMTT(20)
    <3> QED BY <3>1, <3>2
  <2>5. CASE p.n # n
    <3>1. Commands(n)' = Commands(n)
      BY <2>1, <2>3, <2>5
    <3>2. server'.failures >= server.failures
      BY <1>6, <1>7
    <3> QED BY <1>7, <1>8, <1>9, <2>1, <2>2, <3>1, <3>2, SMTT(20)
  <2> QED BY <2>4, <2>5
<1>13. (\A r \in calls.posts : r.n <= ui.opens)'
  BY <1>1, <1>4, <1>5, <1>7
<1>14. (\A r, t \in calls.posts : r.n = t.n => r = t)'
  BY <1>4, <1>5, <1>7, SMTT(20) DEF DialogInv
<1>15. (ui.form.open /\ ~ui.form.loading => \A r \in calls.posts : r.n # ui.opens)'
  BY <1>1, <1>4, <1>5, <1>7 DEF DialogInv
<1>16. (calls.posts \subseteq PostSet)'
  BY <1>4, <1>5 DEF DialogInv
<1>17. DialogInv'
  BY <1>1, <1>7, <1>8, <1>12, <1>13, <1>14, <1>15, <1>16, SMTT(20) DEF DialogInv
<1>18. DialogShape'
  BY <1>1, <1>5, <1>6 DEF DialogShape
<1> QED BY <1>17, <1>18

\* An answer finds its own opening, another, or none.
LEMMA AnswerStep ==
    ASSUME DialogInv, DialogShape, NEW p \in calls.posts, Dialogs!PostAnswer(p)
    PROVE  DialogInv' /\ DialogShape'
<1>1. /\ p.phase \in {"ok", "failed"} /\ server' = server
      /\ calls' = [calls EXCEPT !.posts = @ \ {p}, !.timers = IF p.phase = "ok" THEN @ + 1 ELSE @]
  BY DEF Dialogs!PostAnswer
<1>2. calls'.posts = calls.posts \ {p} /\ DOMAIN calls' = DOMAIN calls
  BY <1>1 DEF DialogShape
<1>3. /\ \A r \in calls.posts : r.n = p.n => r = p
      /\ ui.opens \in Nat /\ p.n \in Nat /\ p.n <= ui.opens
  <2>1. \A r \in PostSet : r.n \in Nat
    BY DEF PostSet
  <2> QED BY <2>1 DEF DialogInv
<1>4. \A n : Commands(n)' = Commands(n)
  BY <1>1 DEF Commands, CreatedBy
<1>5. /\ ui'.opens = ui.opens /\ DOMAIN ui' = DOMAIN ui /\ DOMAIN ui'.form = FormFields
      /\ \/ ui' = ui /\ ~(ui.form.open /\ p.n = ui.opens)
         \/ /\ ui.form.open /\ p.n = ui.opens
            /\ ~ui'.form.loading /\ (ui'.form.submitted <=> p.phase = "ok")
  <2>1. CASE ui.form.open /\ p.n = ui.opens
    <3>1. PICK f : f = [ui.form EXCEPT !.loading = FALSE, !.submitted = p.phase = "ok"]
      BY Zenon
    <3>2. ui' = [ui EXCEPT !.form = f]
      BY <2>1, <3>1, Zenon DEF Dialogs!PostAnswer
    <3>3. ui'.form = f /\ ui'.opens = ui.opens /\ DOMAIN ui' = DOMAIN ui
      BY <3>2 DEF DialogShape
    <3>4. DOMAIN f = FormFields
      BY <3>1, Zenon DEF DialogShape
    <3>5. ~f.loading
      BY <3>1, Zenon DEF DialogShape, FormFields
    <3>6. f.submitted <=> p.phase = "ok"
      BY <3>1, Zenon DEF DialogShape, FormFields
    <3> QED BY <2>1, <3>3, <3>4, <3>5, <3>6
  <2>2. CASE ~(ui.form.open /\ p.n = ui.opens)
    BY <2>2 DEF Dialogs!PostAnswer, DialogShape
  <2> QED BY <2>1, <2>2
<1>6. \A n : MayCreate(n)' => MayCreate(n)
  BY <1>1, <1>2, <1>3, <1>5 DEF MayCreate
<1>7. \A n \in Nat : /\ Commands(n)' <= 1 + server'.failures
                     /\ MayCreate(n)' => Commands(n)' <= server'.failures
  BY <1>1, <1>4, <1>6 DEF DialogInv
<1>8. (ui.form.open /\ ~ui.form.loading => \A r \in calls.posts : r.n # ui.opens)'
  BY <1>2, <1>3, <1>5 DEF DialogInv
<1>9. DialogInv'
  BY <1>1, <1>2, <1>5, <1>7, <1>8 DEF DialogInv
<1>10. DialogShape'
  BY <1>1, <1>2, <1>5 DEF DialogShape
<1> QED BY <1>9, <1>10

LEMMA DialogStep ==
    ASSUME DialogInv, DialogShape, Dialogs!Next
    PROVE  DialogInv' /\ DialogShape'
<1> DEFINE Good == DialogInv' /\ DialogShape'
<1>0. /\ DOMAIN ui = {"which", "opens", "form"} /\ DOMAIN ui.form = FormFields
      /\ DOMAIN server = {"created", "failures"} /\ DOMAIN calls = {"posts", "timers"}
  BY DEF DialogShape
<1>1. ASSUME Dialogs!Close PROVE Good
  BY <1>1, ShutStep DEF Dialogs!Close
<1>2. ASSUME Dialogs!CloseTimer PROVE Good
  <2>1. /\ calls' = [calls EXCEPT !.timers = @ - 1] /\ server' = server
        /\ ui' = Dialogs!Shut(ui) \/ ui' = ui
    BY <1>2 DEF Dialogs!CloseTimer
  <2>2. calls'.posts = calls.posts /\ DOMAIN calls' = DOMAIN calls
    BY <1>0, <2>1
  <2>3. CASE ui' = Dialogs!Shut(ui)
    BY <2>1, <2>2, <2>3, ShutStep
  <2>4. CASE ui' = ui
    BY <2>1, <2>2, <2>4, FormStep DEF DialogShape
  <2> QED BY <2>1, <2>3, <2>4
<1>3. ASSUME Dialogs!DataLoaded PROVE Good
  <2>1. PICK data : /\ ui' = [ui EXCEPT !.form = [ui.form EXCEPT !.data = data]]
                    /\ server' = server \/ Dialogs!Failure
                    /\ calls' = calls
    BY <1>3 DEF Dialogs!DataLoaded
  <2>2. PICK f : f = [ui.form EXCEPT !.data = data]
    BY Zenon
  <2>3. /\ f.open = ui.form.open /\ f.loading = ui.form.loading /\ f.submitted = ui.form.submitted
        /\ DOMAIN f = FormFields
    BY <1>0, <2>2 DEF FormFields
  <2>4. ui'.form = f /\ ui'.opens = ui.opens /\ DOMAIN ui' = DOMAIN ui
    BY <1>0, <2>1, <2>2
  <2>5. /\ server'.created = server.created /\ DOMAIN server' = DOMAIN server
        /\ server'.failures \in {server.failures, server.failures + 1}
    BY <1>0, <2>1 DEF Dialogs!Failure
  <2>6. DialogInv'
    BY <2>1, <2>3, <2>4, <2>5, FormStep
  <2>7. DialogShape'
    BY <2>1, <2>3, <2>4, <2>5 DEF DialogShape
  <2> QED BY <2>6, <2>7
<1>4. ASSUME NEW d, Dialogs!SelectDevice(d) PROVE Good
  <2>1. PICK f : f = [ui.form EXCEPT !.device = d]
    BY Zenon
  <2>2. /\ f.open = ui.form.open /\ f.loading = ui.form.loading /\ f.submitted = ui.form.submitted
        /\ DOMAIN f = FormFields
    BY <1>0, <2>1 DEF FormFields
  <2>3. Dialogs!Fill(f)
    BY <1>4, <2>1, Zenon DEF Dialogs!SelectDevice
  <2> QED BY <2>2, <2>3, FillStep DEF Dialogs!Fill
<1>5. ASSUME NEW m, Dialogs!SelectMethod(m) PROVE Good
  <2>1. PICK c : Dialogs!Fill([ui.form EXCEPT !.method = m, !.params = "valid", !.code = c])
    BY <1>5, Zenon DEF Dialogs!SelectMethod
  <2>2. PICK f : f = [ui.form EXCEPT !.method = m, !.params = "valid", !.code = c]
    BY Zenon
  <2>3. /\ f.open = ui.form.open /\ f.loading = ui.form.loading /\ f.submitted = ui.form.submitted
        /\ DOMAIN f = FormFields
    BY <1>0, <2>2 DEF FormFields
  <2>4. Dialogs!Fill(f)
    BY <2>1, <2>2, Zenon
  <2> QED BY <2>3, <2>4, FillStep DEF Dialogs!Fill
<1>6. ASSUME Dialogs!EditParams PROVE Good
  <2>1. PICK f : f = [ui.form EXCEPT !.params = "invalid"]
    BY Zenon
  <2>2. /\ f.open = ui.form.open /\ f.loading = ui.form.loading /\ f.submitted = ui.form.submitted
        /\ DOMAIN f = FormFields
    BY <1>0, <2>1 DEF FormFields
  <2>3. Dialogs!Fill(f)
    BY <1>6, <2>1, Zenon DEF Dialogs!EditParams
  <2> QED BY <2>2, <2>3, FillStep DEF Dialogs!Fill
<1>7. ASSUME NEW d, Dialogs!TypeName(d) PROVE Good
  <2>1. PICK f : f = [ui.form EXCEPT !.name = d]
    BY Zenon
  <2>2. /\ f.open = ui.form.open /\ f.loading = ui.form.loading /\ f.submitted = ui.form.submitted
        /\ DOMAIN f = FormFields
    BY <1>0, <2>1 DEF FormFields
  <2>3. Dialogs!Fill(f)
    BY <1>7, <2>1, Zenon DEF Dialogs!TypeName
  <2> QED BY <2>2, <2>3, FillStep DEF Dialogs!Fill
<1>8. ASSUME Dialogs!TypeCode PROVE Good
  <2>1. PICK c : Dialogs!Fill([ui.form EXCEPT !.code = c])
    BY <1>8, Zenon DEF Dialogs!TypeCode
  <2>2. PICK f : f = [ui.form EXCEPT !.code = c]
    BY Zenon
  <2>3. /\ f.open = ui.form.open /\ f.loading = ui.form.loading /\ f.submitted = ui.form.submitted
        /\ DOMAIN f = FormFields
    BY <1>0, <2>2 DEF FormFields
  <2>4. Dialogs!Fill(f)
    BY <2>1, <2>2, Zenon
  <2> QED BY <2>3, <2>4, FillStep DEF Dialogs!Fill
<1>9. ASSUME Dialogs!Back PROVE Good
  <2>1. PICK f : f = [ui.form EXCEPT !.step = "compose"]
    BY Zenon
  <2>2. /\ f.open = ui.form.open /\ f.loading = ui.form.loading /\ f.submitted = ui.form.submitted
        /\ DOMAIN f = FormFields
    BY <1>0, <2>1 DEF FormFields
  <2>3. Dialogs!Fill(f)
    BY <1>9, <2>1, Zenon DEF Dialogs!Back
  <2> QED BY <2>2, <2>3, FillStep DEF Dialogs!Fill
<1>10. ASSUME Dialogs!Filling, ~ui.form.loading, Dialogs!Named, Dialogs!Coded, Dialogs!Send PROVE Good
  BY <1>10, SendStep DEF Dialogs!Filling

\* Every method with a second factor is one of high risk.
<1>11. ASSUME Dialogs!Confirmed PROVE Dialogs!Named /\ Dialogs!Coded
  <2>1. Dialogs!requires2fa(ui.form.method) => Dialogs!needsConfirm(ui.form.method)
    BY DEF Dialogs!requires2fa, Dialogs!needsConfirm, Dialogs!methodRisk,
           Dialogs!HIGH_RISK_METHODS, Dialogs!TWO_FACTOR_METHODS
  <2> QED BY <1>11, <2>1, Zenon DEF Dialogs!Confirmed, Dialogs!Named, Dialogs!Coded
<1>12. ASSUME Dialogs!handleProceed PROVE Good
  <2>1. CASE Dialogs!needsConfirm(ui.form.method)
    <3>1. PICK f : f = [ui.form EXCEPT !.step = "confirm"]
      BY Zenon
    <3>2. /\ f.open = ui.form.open /\ f.loading = ui.form.loading /\ f.submitted = ui.form.submitted
          /\ DOMAIN f = FormFields
      BY <1>0, <3>1 DEF FormFields
    <3>3. ui' = [ui EXCEPT !.form = f] /\ server' = server /\ calls' = calls
      BY <1>12, <2>1, <3>1 DEF Dialogs!handleProceed
    <3> QED BY <3>2, <3>3, FillStep
  <2>2. CASE ~Dialogs!needsConfirm(ui.form.method)
    <3>1. Dialogs!Filling /\ ~ui.form.loading /\ Dialogs!Confirmed /\ Dialogs!Send
      BY <1>12, <2>2 DEF Dialogs!handleProceed, Dialogs!handleDispatch
    <3> QED BY <1>10, <1>11, <3>1
  <2> QED BY <2>1, <2>2
<1>13. ASSUME Dialogs!Execute PROVE Good
  <2>1. Dialogs!Filling /\ ~ui.form.loading /\ Dialogs!Confirmed /\ Dialogs!Send
    BY <1>13 DEF Dialogs!Execute, Dialogs!handleDispatch
  <2> QED BY <1>10, <1>11, <2>1
<1>14. ASSUME Dialogs!onSubmit PROVE Good
  <2>1. Dialogs!Filling /\ ~ui.form.loading /\ Dialogs!Coded /\ Dialogs!Send /\ ui.which = "dispatch"
    BY <1>14 DEF Dialogs!onSubmit
  <2>2. Dialogs!Named
    BY <2>1 DEF Dialogs!Named
  <2> QED BY <1>10, <2>1, <2>2
<1>15. ASSUME NEW d, Dialogs!Open(d) PROVE Good
  BY <1>15, OpenStep
<1>16. ASSUME NEW p \in calls.posts, Dialogs!PostServed(p) PROVE Good
  BY <1>16, ServedStep
<1>17. ASSUME NEW p \in calls.posts, Dialogs!PostAnswer(p) PROVE Good
  BY <1>17, AnswerStep
<1> HIDE DEF Good
<1>18. ASSUME Dialogs!PostStep PROVE Good
  BY <1>16, <1>17, <1>18, Zenon DEF Dialogs!PostStep
<1>19. Good
  BY <1>1, <1>2, <1>3, <1>4, <1>5, <1>6, <1>7, <1>8, <1>9, <1>12, <1>13, <1>14, <1>15, <1>18,
     Zenon DEF Dialogs!Next
<1> QED BY <1>19 DEF Good

LEMMA DialogInit ==
    ASSUME Dialogs!Init
    PROVE  DialogInv /\ DialogShape
<1>1. /\ server.created = <<>> /\ server.failures = 0 /\ DOMAIN server = {"created", "failures"}
      /\ calls.posts = {} /\ DOMAIN calls = {"posts", "timers"}
  BY DEF Dialogs!Init
<1>2. ui.opens = 0 /\ DOMAIN ui = {"which", "opens", "form"} /\ DOMAIN ui.form = FormFields
  BY DEF Dialogs!Init, FormFields
<1>3. ~ui.form.open
  <2>1. PICK f : f = ui.form /\ f.open = FALSE
    BY DEF Dialogs!Init
  <2> QED BY <2>1, Zenon
<1>4. \A n : CreatedBy(n) = {}
  BY <1>1 DEF CreatedBy
<1>5. \A n : Commands(n) = 0
  BY <1>4, FS_EmptySet DEF Commands
<1> QED BY <1>1, <1>2, <1>3, <1>5 DEF DialogInv, DialogShape

\* The dialogs count with the same Cardinality.
LEMMA SameCount == \A S : Dialogs!Cardinality(S) = Cardinality(S)
BY Zenon DEF Cardinality, Dialogs!Cardinality

\* What is created was a post, confirmed when it was sent.
LEMMA DialogSafe ==
    ASSUME DialogInv
    PROVE  Dialogs!SensitiveIsConfirmed /\ Dialogs!OneCommandPerOpening
<1>1. ASSUME NEW i \in DOMAIN server.created
      PROVE  server.created[i].named /\ server.created[i].coded
  <2>1. server.created[i] \in PostSet
    BY DEF DialogInv
  <2>2. server.created[i].named \in Yes /\ server.created[i].coded \in Yes
    BY <2>1 DEF PostSet
  <2> QED BY <2>2, Zenon DEF Yes
<1>2. Dialogs!SensitiveIsConfirmed
  BY <1>1, Zenon DEF Dialogs!SensitiveIsConfirmed
<1>3. \A n \in 1 .. MaxOpens : n \in Nat
  OBVIOUS
<1>4. Dialogs!OneCommandPerOpening
  <2>1. \A n \in Nat : Commands(n) <= 1 + server.failures
    BY DEF DialogInv
  <2>2. \A n \in 1 .. MaxOpens : Commands(n) <= 1 + server.failures
    BY <1>3, <2>1
  <2> QED BY <2>2, SameCount, Zenon DEF Commands, CreatedBy, Dialogs!OneCommandPerOpening
<1> QED BY <1>2, <1>4

-----------------------------------------------------------------------------
(* The page that is open *)

\* The page that is open has its invariant, and the shape of its state.
PageInv ==
    /\ On("dialogs") => DialogInv /\ DialogShape
    /\ On("alerts") => AlarmInv /\ AlarmShape
    /\ On("files") => ExplorerInv /\ ExplorerShape

LEMMA PageStep ==
    ASSUME PageInv, [RequestStep /\ UNCHANGED view]_vars
    PROVE  PageInv'
<1>1. CASE UNCHANGED vars
  <2>1. view' = view /\ ui' = ui /\ server' = server /\ calls' = calls
    BY <1>1 DEF vars
  <2>2. DialogInv /\ DialogShape => DialogInv' /\ DialogShape'
    BY <2>1, FormStep DEF DialogShape
  <2>3. AlarmInv /\ AlarmShape => AlarmInv' /\ AlarmShape'
    BY <2>1, Zenon DEF AlarmInv, AlarmShape, Alarms!AckWasAsked
  <2>4. ExplorerInv /\ ExplorerShape => ExplorerInv' /\ ExplorerShape'
    BY <2>1, Zenon DEF ExplorerInv, ExplorerShape
  <2> QED BY <2>1, <2>2, <2>3, <2>4, Zenon DEF PageInv, On
<1>2. CASE On("dialogs") /\ Dialogs!Next /\ UNCHANGED view
  BY <1>2, DialogStep DEF PageInv, On
<1>3. CASE On("alerts") /\ Alarms!Next /\ UNCHANGED view
  BY <1>3, AlarmStep DEF PageInv, On
<1>4. CASE On("files") /\ Files!Next /\ UNCHANGED view
  BY <1>4, ExplorerStep DEF PageInv, On
<1> QED BY <1>1, <1>2, <1>3, <1>4 DEF RequestStep

\* The invariant of the page that is open, along every behaviour.
THEOREM PageInvariance == RequestSpec => []PageInv
<1>1. RequestInit => PageInv
  BY DialogInit, AlarmInit, ExplorerInit DEF RequestInit, PageInv, On
<1>2. PageInv /\ [RequestStep /\ UNCHANGED view]_vars => PageInv'
  BY PageStep
<1> QED BY <1>1, <1>2, PTL DEF RequestSpec

\* Nothing is sent that the user did not mean, however often a dialog is opened,
\* a drawer left during its pause or the explorer folded and unfolded, and
\* whatever fails: a sensitive command has its name and its code, an opening
\* creates one command more than there were failures at most, only an alert Ack
\* was pressed for is acknowledged, and a folder is browsed again only after its
\* five minutes (handleDispatch, onSubmit, handleAcknowledge, hydratePath).
THEOREM RequestsAreAlwaysMeant == RequestSpec => []RequestsAreMeant
<1>1. PageInv => RequestsAreMeant
  BY DialogSafe, ExplorerSafe DEF PageInv, RequestsAreMeant, AlarmInv
<1> QED BY <1>1, PageInvariance, PTL

=============================================================================
