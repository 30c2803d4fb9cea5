---------------------------- MODULE WebhooksPage ----------------------------
(* The webhooks page (WebhooksContent.tsx): endpoints, deliveries, inbound   *)
(* events and signing secrets.  Nothing polls: a list is loaded by the       *)
(* effect of its filter or of the selected endpoint, and by the handlers     *)
(* after they changed something.  No load cancels or outranks another.  The  *)
(* three lists do not touch each other, so a behaviour follows the loads of  *)
(* one of them, ui.watch.                                                    *)
EXTENDS Naturals, FiniteSets

CONSTANTS
    MaxActs,      \* handlers, cards and filters used in one visit
    MaxFailures   \* calls answered by an error

VARIABLES ui, server, calls

webhooksVars == <<ui, server, calls>>

Ids == 1 .. 3                  \* two endpoints at first, and one to create
NoId == 0
Gone == [status |-> "gone", secret |-> 0]
Endpoint(s, n) == [status |-> s, secret |-> n]
Filters == 0 .. 1              \* all, or one endpoint, status or event type
NoLog == [filter |-> 0, log |-> 0]

Present(eps) == {e \in Ids : eps[e] # Gone}
FirstOf(eps) == IF Present(eps) = {} THEN NoId
                ELSE CHOOSE e \in Present(eps) : \A f \in Present(eps) : e <= f

\* Loads under way: what they fetch, the selection or filter of the render that
\* started them, the handler (0: an effect) that waits, and the answer.
Load(what, arg, by) == [what |-> what, arg |-> arg, by |-> by, phase |-> "sent"]
loadEndpoints(sel, by) == Load("endpoints", sel, by)
loadDeliveries(f, by) == Load("deliveries", f, by)
loadInbound(f, by) == Load("inbound", f, by)
Watched(loads) == {l \in loads : l.what = ui.watch}

\* Mutant: the endpoints are not reloaded.
refreshLogs(by) == {loadDeliveries(ui.filter, by), loadInbound(ui.filter, by)}

refreshAll(by) == {loadEndpoints(ui.selected, by), loadDeliveries(ui.filter, by), loadInbound(ui.filter, by)}

CanFail == server.failures < MaxFailures
Failure == server' = [server EXCEPT !.failures = @ + 1]
Quiet == calls.loads = {} /\ calls.ops = {}

-----------------------------------------------------------------------------
(* Loads *)

LoadRead(l) ==
    LET Told(x) == calls' = [calls EXCEPT !.loads = (@ \ {l}) \cup
                         {[what |-> l.what, arg |-> l.arg, by |-> l.by, phase |-> "answered", data |-> x]}]
    IN /\ l.phase = "sent"
       /\ \/ Told(IF l.what = "endpoints" THEN server.endpoints ELSE server.log) /\ UNCHANGED server
          \/ CanFail /\ Failure   \* requestJson throws; the toast is all there is
             /\ calls' = [calls EXCEPT !.loads = @ \ {l}]
       /\ UNCHANGED ui

\* The endpoint kept by the closure, not the selected one, is looked up; a new
\* selection runs the effect of loadEndpoints again.
ShowEndpoints(l) ==
    LET sel == IF l.arg = NoId \/ l.data[l.arg] = Gone THEN FirstOf(l.data) ELSE ui.selected
    IN /\ l.what = "endpoints"
       /\ ui' = [ui EXCEPT !.endpoints = l.data, !.selected = sel]
       /\ calls' = [calls EXCEPT !.loads = (@ \ {l}) \cup
                       Watched(IF sel # ui.selected THEN {loadEndpoints(sel, 0)} ELSE {})]

ShowDeliveries(l) ==
    /\ l.what = "deliveries"
    /\ ui' = [ui EXCEPT !.deliveries = [filter |-> l.arg, log |-> l.data]]
    /\ calls' = [calls EXCEPT !.loads = @ \ {l}]

ShowInbound(l) ==
    /\ l.what = "inbound"
    /\ ui' = [ui EXCEPT !.inbound = [filter |-> l.arg, log |-> l.data]]
    /\ calls' = [calls EXCEPT !.loads = @ \ {l}]

LoadAnswer(l) ==
    /\ l.phase = "answered"
    /\ ShowEndpoints(l) \/ ShowDeliveries(l) \/ ShowInbound(l)
    /\ UNCHANGED server

-----------------------------------------------------------------------------
(* Clicks that load *)

Click(u, loads) ==
    /\ ui.acts < MaxActs
    /\ ui' = [u EXCEPT !.acts = @ + 1, !.serial = @ /\ Quiet]
    /\ calls' = [calls EXCEPT !.loads = @ \cup Watched(loads)]
    /\ UNCHANGED server

\* A second click on the card deselects it, and the effect selects the first.
SelectEndpoint(e) ==
    LET sel == IF ui.selected = e THEN NoId ELSE e IN
    /\ e \in Present(ui.endpoints) /\ ui.watch = "endpoints"
    /\ Click([ui EXCEPT !.selected = sel], {loadEndpoints(sel, 0)})

\* The filters of the deliveries tab, or the one of the inbound tab.
SetFilter(f) ==
    /\ f # ui.filter /\ ui.watch # "endpoints"
    /\ Click([ui EXCEPT !.filter = f], {loadDeliveries(f, 0), loadInbound(f, 0)})

RefreshTab == ui.watch # "endpoints" /\ Click(ui, {loadDeliveries(ui.filter, 0), loadInbound(ui.filter, 0)})

-----------------------------------------------------------------------------
(* Handlers: one call each, then what they reload *)

Send(kind, e) ==
    /\ ui.acts < MaxActs
    /\ ui' = [ui EXCEPT !.acts = @ + 1, !.serial = @ /\ Quiet]
    /\ calls' = [calls EXCEPT !.ops = @ \cup {[phase |-> "sent", n |-> ui.acts + 1, kind |-> kind, id |-> e]}]
    /\ UNCHANGED server

Selected == ui.watch = "endpoints" /\ ui.selected \in Present(ui.endpoints)
handleCreateEndpoint == ui.watch = "endpoints" /\ server.endpoints[3] = Gone /\ Send("create", 3)
handleUpdateEndpoint == Selected /\ Send("update", ui.selected)
handleDeleteEndpoint == Selected /\ Send("delete", ui.selected)
handleToggleEndpoint ==
    Selected /\ Send(IF ui.endpoints[ui.selected].status = "paused" THEN "resume" ELSE "pause", ui.selected)
handleTestEndpoint == ui.watch = "deliveries" /\ Send("test", ui.selected)
handleReplayDelivery == ui.watch = "deliveries" /\ ui.deliveries.log > 0 /\ Send("replay", NoId)
handleRotateSecret == Selected /\ Send("rotate", ui.selected)

\* Hides the secret at once when it is shown, and asks for it otherwise.
handleRevealSecret ==
    /\ Selected
    /\ \/ ui.revealed[ui.selected] = 0 /\ Send("reveal", ui.selected)
       \/ /\ ui.revealed[ui.selected] # 0 /\ ui.acts < MaxActs
          /\ ui' = [ui EXCEPT !.revealed[ui.selected] = 0, !.acts = @ + 1]
          /\ UNCHANGED <<server, calls>>

\* The control plane; every call but create and replay is 404 on a deleted endpoint.
Stored(op) ==
    LET e == op.id
        ep == server.endpoints[e]
    IN CASE op.kind = "create" -> [server EXCEPT !.endpoints[e] = Endpoint("active", 1)]
         [] op.kind = "delete" -> [server EXCEPT !.endpoints[e] = Gone]
         [] op.kind = "pause"  -> [server EXCEPT !.endpoints[e].status = "paused"]
         [] op.kind = "resume" -> [server EXCEPT !.endpoints[e].status = "active"]
         [] op.kind = "rotate" -> [server EXCEPT !.endpoints[e].secret = @ + 1]
         [] op.kind \in {"test", "replay"} -> [server EXCEPT !.log = @ + 1]
         [] OTHER -> server

Serve(op) ==
    LET There == IF op.kind \in {"create", "replay"} THEN TRUE ELSE server.endpoints[op.id] # Gone
        secret == IF op.kind \in {"create", "rotate", "reveal"} THEN Stored(op).endpoints[op.id].secret ELSE 0
        Told(ok) == calls' = [calls EXCEPT !.ops = (@ \ {op}) \cup
                        {[phase |-> "answered", n |-> op.n, kind |-> op.kind, id |-> op.id,
                          ok |-> ok, secret |-> IF ok THEN secret ELSE 0]}]
    IN /\ op.phase = "sent"
       /\ \/ There /\ server' = Stored(op) /\ Told(TRUE)
          \/ ~There /\ Told(FALSE) /\ UNCHANGED server
          \/ CanFail /\ Failure /\ Told(FALSE)
       /\ UNCHANGED ui

Reloads(op) ==
    CASE op.kind \in {"create", "update", "delete", "pause", "resume"} -> refreshAll(op.n)
      [] op.kind \in {"test", "replay"} -> {loadDeliveries(ui.filter, op.n)}
      [] op.kind = "rotate" -> {loadEndpoints(ui.selected, op.n)}
      [] OTHER -> {}

\* An error rejects the handler: nothing is reloaded.
OpAnswer(op) ==
    /\ op.phase = "answered"
    /\ IF ~op.ok
       THEN UNCHANGED ui /\ calls' = [calls EXCEPT !.ops = @ \ {op}]
       ELSE /\ ui' = CASE op.kind \in {"create", "rotate", "reveal"} -> [ui EXCEPT !.revealed[op.id] = op.secret]
                       [] op.kind = "delete" -> [ui EXCEPT !.revealed[op.id] = 0]
                       [] OTHER -> ui
            /\ calls' = [loads |-> calls.loads \cup Watched(Reloads(op)),
                         ops |-> (calls.ops \ {op}) \cup
                             {[phase |-> "reloading", n |-> op.n, kind |-> op.kind, id |-> op.id]}]
    /\ UNCHANGED server

\* The awaited loads are over; a created endpoint becomes the selected one.
OpEnds(op) ==
    LET sel == IF op.kind = "create" THEN op.id ELSE ui.selected
    IN /\ op.phase = "reloading" /\ \A l \in calls.loads : l.by # op.n
       /\ ui' = [ui EXCEPT !.selected = sel]
       /\ calls' = [ops |-> calls.ops \ {op}, loads |-> calls.loads \cup
                       Watched(IF sel # ui.selected THEN {loadEndpoints(sel, 0)} ELSE {})]
       /\ UNCHANGED server

-----------------------------------------------------------------------------
Init ==
    /\ server = [endpoints |-> [e \in Ids |-> IF e = 3 THEN Gone ELSE Endpoint("active", 1)],
                 log |-> 1, failures |-> 0]
    /\ \E w \in {"endpoints", "deliveries", "inbound"} :
          LET shown == IF w = "endpoints" THEN [e \in Ids |-> Gone] ELSE server.endpoints
          IN ui = [watch |-> w, endpoints |-> shown, selected |-> FirstOf(shown), filter |-> 0,
                   deliveries |-> NoLog, inbound |-> NoLog, revealed |-> [e \in Ids |-> 0],
                   acts |-> 0, serial |-> TRUE]
    /\ calls = [loads |-> Watched({loadEndpoints(NoId, 0), loadDeliveries(0, 0), loadInbound(0, 0)}), ops |-> {}]

LoadStep == \E l \in calls.loads : LoadRead(l) \/ LoadAnswer(l)
OpStep == \E op \in calls.ops : Serve(op) \/ OpAnswer(op) \/ OpEnds(op)

Next ==
    \/ LoadStep \/ OpStep
    \/ \E e \in Ids : SelectEndpoint(e)
    \/ \E f \in Filters : SetFilter(f)
    \/ RefreshTab
    \/ handleCreateEndpoint \/ handleUpdateEndpoint \/ handleDeleteEndpoint \/ handleToggleEndpoint
    \/ handleTestEndpoint \/ handleReplayDelivery \/ handleRotateSecret \/ handleRevealSecret

FairStep(i) ==
    \/ i = 1 /\ LoadStep
    \/ i = 2 /\ OpStep

Spec == Init /\ [][Next]_webhooksVars /\ \A i \in 1 .. 2 : WF_webhooksVars(FairStep(i))

-----------------------------------------------------------------------------
(* Properties *)

\* Whoever waits for the page between clicks, and meets no error, sees what the
\* control plane has: every handler reloads each list it changed, and no
\* rotated or deleted secret stays on the screen; the detail pane shows an
\* endpoint as long as there is one.
SerialPageIsTrue ==
    (ui.serial /\ server.failures = 0 /\ Quiet) =>
        /\ ui.watch = "endpoints" =>
              /\ ui.endpoints = server.endpoints
              /\ Selected \/ Present(ui.endpoints) = {}
              /\ \A e \in Ids : ui.revealed[e] \in {0, server.endpoints[e].secret}
        /\ ui.watch = "deliveries" => ui.deliveries = [filter |-> ui.filter, log |-> server.log]
        /\ ui.watch = "inbound" => ui.inbound.filter = ui.filter

\* The page comes to rest: selecting reloads the endpoints and reloading may
\* select again, but the two never chase each other.
PageRests == Quiet
=============================================================================
