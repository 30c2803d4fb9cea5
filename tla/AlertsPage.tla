----------------------------- MODULE AlertsPage -----------------------------
(* The alerts page (AlertsContent.tsx) and its drawer (AlertDetailDrawer.tsx): *)
(* loads nothing puts in order, acknowledgements from a row or, after a pause  *)
(* that outlives the drawer, from the drawer, and a poll.                      *)
EXTENDS Naturals, FiniteSets

CONSTANTS
    MaxActs,       \* clicks that send something
    MaxFailures,   \* requests that fail
    MaxOverruns    \* polls that start before the load before them has answered

VARIABLES ui, server, calls

alertVars == <<ui, server, calls>>

Alerts == 1 .. 2
Nothing == [a \in Alerts |-> "none"]
Closed == [alert |-> 0, status |-> "none", rationale |-> FALSE, acknowledging |-> FALSE]

CanFail == server.failures < MaxFailures
Failure == server' = [server EXCEPT !.failures = @ + 1]
Fresh(set) == CHOOSE k \in 1 .. Cardinality(set) + 1 : \A r \in set : r.no # k

-----------------------------------------------------------------------------
(* loadAlerts *)

NewLoad(mode, loads) == [mode |-> mode, got |-> "sent", rows |-> Nothing, no |-> Fresh(loads)]

FetchLoad(l) ==
    LET Becomes(r) == calls' = [calls EXCEPT !.loads = (@ \ {l}) \cup {r}] IN
    /\ l.got = "sent"
    /\ \/ Becomes([l EXCEPT !.got = "ok", !.rows = server.alerts]) /\ UNCHANGED server
       \/ CanFail /\ Failure /\ Becomes([l EXCEPT !.got = "failed"])
    /\ UNCHANGED ui

LoadAnswer(l) ==
    /\ l.got # "sent"
    /\ ui' = [ui EXCEPT !.alerts = IF l.got = "ok" THEN l.rows ELSE @,
                        !.error = l.got = "failed",
                        !.loading = @ /\ l.mode # "initial",
                        !.refreshing = @ /\ l.mode # "refresh"]
    /\ calls' = [calls EXCEPT !.loads = @ \ {l}]
    /\ UNCHANGED server

LoadStep == \E l \in calls.loads : FetchLoad(l) \/ LoadAnswer(l)

\* The timer, every 30 s.
Poll ==
    /\ calls.loads = {} \/ ui.overruns < MaxOverruns
    /\ ui' = [ui EXCEPT !.overruns = IF calls.loads = {} THEN @ ELSE @ + 1]
    /\ calls' = [calls EXCEPT !.loads = @ \cup {NewLoad("silent", @)}]
    /\ UNCHANGED server

-----------------------------------------------------------------------------
(* handleAcknowledge *)

Sent(posts, a) == posts \cup {[alert |-> a, got |-> "sent", no |-> Fresh(posts)]}

AckServed(p) ==
    LET Becomes(got) == calls' = [calls EXCEPT !.posts = (@ \ {p}) \cup {[p EXCEPT !.got = got]}]
        done == [server EXCEPT !.alerts[p.alert] = "acknowledged"] IN
    /\ p.got = "sent"
    /\ \/ server' = done /\ Becomes("ok")
       \/ CanFail /\ Failure /\ Becomes("failed")
       \/ CanFail /\ server' = [done EXCEPT !.failures = @ + 1] /\ Becomes("failed")
    /\ UNCHANGED ui

\* The row is changed if it is there; its button comes back even when another
\* acknowledgement of the same alert is still out.
AckAnswer(p) ==
    /\ p.got # "sent"
    /\ ui' = [ui EXCEPT !.acknowledgeIds = @ \ {p.alert},
                        !.alerts[p.alert] = IF p.got = "ok" /\ @ # "none" THEN "acknowledged" ELSE @]
    /\ calls' = [calls EXCEPT !.posts = @ \ {p}]
    /\ UNCHANGED server

PostStep == \E p \in calls.posts : AckServed(p) \/ AckAnswer(p)

-----------------------------------------------------------------------------
(* The rows, the drawer and the buttons *)

Acted(u) == ui.acts < MaxActs /\ ui' = [u EXCEPT !.acts = @ + 1]
RowShown(a) == ~ui.loading /\ ~ui.error /\ ui.alerts[a] # "none" /\ ui.drawer = Closed

RowAck(a) ==
    /\ RowShown(a) /\ ui.alerts[a] = "active" /\ a \notin ui.acknowledgeIds
    /\ Acted([ui EXCEPT !.acknowledgeIds = @ \cup {a}, !.asked = @ \cup {a}])
    /\ calls' = [calls EXCEPT !.posts = Sent(@, a)]
    /\ UNCHANGED server

RowClick(a) ==
    /\ RowShown(a)
    /\ ui' = [ui EXCEPT !.drawer = [Closed EXCEPT !.alert = a, !.status = ui.alerts[a]]]
    /\ UNCHANGED <<server, calls>>

CloseDrawer == ui.drawer # Closed /\ ui' = [ui EXCEPT !.drawer = Closed] /\ UNCHANGED <<server, calls>>

TypeRationale ==
    /\ ui.drawer.status = "active"
    /\ ui' = [ui EXCEPT !.drawer.rationale = ~@]
    /\ UNCHANGED <<server, calls>>

\* The drawer shows the alert as it was when it was opened, and goes on after
\* 800 ms whether it is still mounted or not.
DrawerButton == ui.drawer.status = "active" /\ ui.drawer.rationale /\ ~ui.drawer.acknowledging
DrawerAck ==
    /\ DrawerButton
    /\ Acted([ui EXCEPT !.drawer.acknowledging = TRUE, !.asked = @ \cup {ui.drawer.alert}])
    /\ calls' = [calls EXCEPT !.pauses = @ \cup {[alert |-> ui.drawer.alert, no |-> Fresh(@)]}]
    /\ UNCHANGED server

\* Mutant: the alert acknowledged is the one the drawer shows by then.
PauseEndsOnShown(w) ==
    LET alert == IF ui.drawer = Closed THEN w.alert ELSE ui.drawer.alert IN
    /\ ui' = [ui EXCEPT !.acknowledgeIds = @ \cup {alert}, !.drawer = Closed]
    /\ calls' = [calls EXCEPT !.pauses = @ \ {w}, !.posts = Sent(@, alert)]
    /\ UNCHANGED server

\* onAcknowledge with the alert of the drawer, then onClose of whatever is open.
PauseEnds(w) ==
    /\ ui' = [ui EXCEPT !.acknowledgeIds = @ \cup {w.alert}, !.drawer = Closed]
    /\ calls' = [calls EXCEPT !.pauses = @ \ {w}, !.posts = Sent(@, w.alert)]
    /\ UNCHANGED server

PauseStep == \E w \in calls.pauses : PauseEnds(w)

RefreshButton ==
    /\ ui.drawer = Closed
    /\ Acted([ui EXCEPT !.refreshing = TRUE])
    /\ calls' = [calls EXCEPT !.loads = @ \cup {NewLoad("refresh", @)}]
    /\ UNCHANGED server

\* The control plane raises the second alert.
Raise ==
    /\ server.alerts[2] = "none"
    /\ server' = [server EXCEPT !.alerts[2] = "active"]
    /\ UNCHANGED <<ui, calls>>

-----------------------------------------------------------------------------
Init ==
    /\ ui = [alerts |-> Nothing, loading |-> TRUE, refreshing |-> FALSE, error |-> FALSE, acknowledgeIds |-> {},
             drawer |-> Closed, asked |-> {}, acts |-> 0, overruns |-> 0]
    /\ server = [alerts |-> <<"active", "none">>, failures |-> 0]
    /\ calls = [loads |-> {NewLoad("initial", {})}, posts |-> {}, pauses |-> {}]

Next ==
    \/ LoadStep \/ Poll \/ PostStep \/ PauseStep
    \/ CloseDrawer \/ TypeRationale \/ DrawerAck \/ RefreshButton \/ Raise
    \/ \E a \in Alerts : RowAck(a) \/ RowClick(a)

FairStep(i) ==
    \/ i = 1 /\ LoadStep
    \/ i = 2 /\ Poll
    \/ i = 3 /\ PostStep
    \/ i = 4 /\ PauseStep

Spec == Init /\ [][Next]_alertVars /\ \A i \in 1 .. 4 : WF_alertVars(FairStep(i))

-----------------------------------------------------------------------------
(* Properties *)

\* The control plane has an alert acknowledged only if Ack was pressed for that
\* very alert: the pause of a drawer that was closed, and another opened since,
\* still acknowledges the alert it was pressed for and no other.
AckWasAsked == \A a \in Alerts : server.alerts[a] = "acknowledged" => a \in ui.asked

\* Once nothing new is clicked the page shows the alerts as they are and no
\* button stays disabled, though a load read before an acknowledgement may show
\* the alert active again for a while.
AlertsAgree ==
    /\ ~ui.loading /\ ~ui.refreshing /\ ~ui.error
    /\ ui.acknowledgeIds = {} /\ ui.alerts = server.alerts
=============================================================================
