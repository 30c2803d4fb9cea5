-------------------------- MODULE DeviceManagement --------------------------
(* The fleet page (DeviceManagementContent.tsx): a list that every load      *)
(* replaces, a drawer opened from a row and enriched by a second request,    *)
(* a selection of rows and the commands sent to all of it at once.  A device *)
(* is told apart by the version of its record; version 0 is no record.       *)
EXTENDS Naturals, FiniteSets

CONSTANTS
    Linked,        \* devices the address may name, or NoDevice
    MaxActs,       \* clicks that send a request
    MaxFailures,   \* requests that fail
    MaxOverruns,   \* loads the timer overtakes
    MaxChanges     \* changes of a device's record

VARIABLES ui, server, calls

fleetVars == <<ui, server, calls>>

Devices == 1 .. 2
NoDevice == 0
NoRows == [d \in Devices |-> 0]
Listed(rows) == {d \in Devices : rows[d] # 0}

CanFail == server.failures < MaxFailures
Failure == server' = [server EXCEPT !.failures = @ + 1]
\* The drawer's backdrop covers the page.
Uncovered == ui.drawer.id = NoDevice
Acting(u) == Uncovered /\ ui.acts < MaxActs /\ ui' = [u EXCEPT !.acts = @ + 1]

-----------------------------------------------------------------------------
(* fetchDevices *)

\* A load aborts the one before, whose finally block ends its spinner.
fetchDevices(c, mode) == [c EXCEPT !.lists = {[mode |-> mode, phase |-> "sent", rows |-> NoRows]}]
Ended(u, mode) ==
    [u EXCEPT !.loading = @ /\ mode # "initial", !.batch = IF mode = "batch" THEN 0 ELSE @]
Aborting(u) ==
    LET modes == {l.mode : l \in calls.lists} IN
    [u EXCEPT !.loading = @ /\ "initial" \notin modes, !.batch = IF "batch" \in modes THEN 0 ELSE @]

ListRead(l) ==
    LET Becomes(r) == calls' = [calls EXCEPT !.lists = (@ \ {l}) \cup {r}] IN
    /\ l.phase = "sent"
    /\ \/ UNCHANGED server /\ Becomes([l EXCEPT !.phase = "ok", !.rows = server.devices])
       \/ CanFail /\ Failure /\ Becomes([l EXCEPT !.phase = "failed"])
    /\ UNCHANGED ui

\* Mutant: devices that left the list stay selected.
ShowListKeepsSelection(u, rows) == [u EXCEPT !.rows = rows]

ShowList(u, rows) == [u EXCEPT !.rows = rows, !.selected = @ \cap Listed(rows)]

\* The device named in the address is opened once there are rows to find it in.
pendingOpen(u, c) ==
    LET open == u.pending # NoDevice /\ Listed(u.rows) # {}
        found == open /\ u.pending \in Listed(u.rows)
    IN /\ ui' = [u EXCEPT !.pending = IF open THEN NoDevice ELSE @,
                          !.opened = IF found THEN u.pending ELSE @,
                          !.drawer = IF found THEN [id |-> u.pending, row |-> u.rows[u.pending]] ELSE @]
       /\ calls' = IF found THEN [c EXCEPT !.details = {[id |-> u.pending, phase |-> "sent", row |-> 0]}] ELSE c

ListAnswer(l) ==
    LET rest == [calls EXCEPT !.lists = @ \ {l}] IN
    /\ \/ l.phase = "ok" /\ pendingOpen(Ended([ShowList(ui, l.rows) EXCEPT !.error = FALSE], l.mode), rest)
       \/ /\ l.phase = "failed"
          /\ pendingOpen(Ended([(IF l.mode = "initial" THEN ShowList(ui, NoRows) ELSE ui) EXCEPT !.error = TRUE],
                               l.mode), rest)
    /\ UNCHANGED server

ListStep == \E l \in calls.lists : ListRead(l) \/ ListAnswer(l)

\* The timer, every 5 s or, hidden, 30 s.
Poll ==
    /\ calls.lists = {} \/ ui.overruns < MaxOverruns
    /\ ui' = Aborting([ui EXCEPT !.overruns = IF calls.lists = {} THEN @ ELSE @ + 1])
    /\ calls' = fetchDevices(calls, "silent")
    /\ UNCHANGED server

RefreshButton == Acting(Aborting(ui)) /\ calls' = fetchDevices(calls, "refresh") /\ UNCHANGED server

-----------------------------------------------------------------------------
(* The drawer *)

Rows == Uncovered /\ ~ui.loading /\ ~ui.error

\* Mutant: the detail asked for before is still awaited.
openDeviceBeside(d) ==
    /\ Rows /\ d \in Listed(ui.rows)
    /\ Acting([ui EXCEPT !.drawer = [id |-> d, row |-> ui.rows[d]], !.opened = d])
    /\ calls' = [calls EXCEPT !.details = @ \cup {[id |-> d, phase |-> "sent", row |-> 0]}]
    /\ UNCHANGED server

openDeviceWithDetail(d) ==
    /\ Rows /\ d \in Listed(ui.rows)
    /\ Acting([ui EXCEPT !.drawer = [id |-> d, row |-> ui.rows[d]], !.opened = d])
    /\ calls' = [calls EXCEPT !.details = {[id |-> d, phase |-> "sent", row |-> 0]}]
    /\ UNCHANGED server

\* A device without a record is answered by an error, like a request that fails.
DetailRead(r) ==
    LET Becomes(x) == calls' = [calls EXCEPT !.details = (@ \ {r}) \cup {x}] IN
    /\ r.phase = "sent"
    /\ \/ /\ server.devices[r.id] # 0
          /\ UNCHANGED server /\ Becomes([r EXCEPT !.phase = "ok", !.row = server.devices[r.id]])
       \/ server.devices[r.id] = 0 /\ UNCHANGED server /\ Becomes([r EXCEPT !.phase = "failed"])
       \/ CanFail /\ Failure /\ Becomes([r EXCEPT !.phase = "failed"])
    /\ UNCHANGED ui

\* The merged record goes into the row, if it is still listed, and the drawer,
\* which opens again when it was closed meanwhile.
mergeDeviceDetail(u, r) ==
    [u EXCEPT !.rows[r.id] = IF @ = 0 THEN 0 ELSE r.row, !.drawer = [id |-> r.id, row |-> r.row]]

DetailAnswer(r) ==
    /\ r.phase \in {"ok", "failed"}
    /\ ui' = IF r.phase = "ok" THEN mergeDeviceDetail(ui, r) ELSE ui
    /\ calls' = [calls EXCEPT !.details = @ \ {r}]
    /\ UNCHANGED server

DetailStep == \E r \in calls.details : DetailRead(r) \/ DetailAnswer(r)

CloseDrawer ==
    /\ ~Uncovered
    /\ ui' = [ui EXCEPT !.drawer = [id |-> NoDevice, row |-> 0]]
    /\ UNCHANGED <<server, calls>>

-----------------------------------------------------------------------------
(* The selection *)

toggleSelect(d) ==
    /\ Rows /\ d \in Listed(ui.rows)
    /\ ui' = [ui EXCEPT !.selected = IF d \in @ THEN @ \ {d} ELSE @ \cup {d}]
    /\ UNCHANGED <<server, calls>>

\* The header's box; it compares the sizes of the selection and of the list.
toggleAll ==
    /\ Uncovered
    /\ ui' = [ui EXCEPT !.selected = IF Cardinality(@) = Cardinality(Listed(ui.rows)) THEN {} ELSE Listed(ui.rows)]
    /\ UNCHANGED <<server, calls>>

ClearSelection == Uncovered /\ ui' = [ui EXCEPT !.selected = {}] /\ UNCHANGED <<server, calls>>

BatchBar == ui.selected # {} /\ ui.batch = 0

dispatchBatch ==
    /\ BatchBar
    /\ Acting([ui EXCEPT !.batch = ui.acts + 1])
    /\ calls' = [calls EXCEPT !.posts = @ \cup {[batch |-> ui.acts + 1, id |-> d, phase |-> "sent"] : d \in ui.selected}]
    /\ UNCHANGED server

\* Says how many were refreshed whether or not the load came in.
handleBatchRefresh ==
    /\ BatchBar
    /\ Acting([Aborting(ui) EXCEPT !.batch = ui.acts + 1])
    /\ calls' = fetchDevices(calls, "batch")
    /\ UNCHANGED server

\* A post left behind by a batch that has ended is answered to nobody.
dispatchCommandToDevice(p) ==
    LET Answer(how) == calls' = [calls EXCEPT !.posts =
            (@ \ {p}) \cup (IF p.batch = ui.batch THEN {[p EXCEPT !.phase = how]} ELSE {})]
        created == [server EXCEPT !.created = @ \cup {<<p.batch, p.id>>}]
    IN /\ p.phase = "sent"
       /\ \/ server.devices[p.id] # 0 /\ server' = created /\ Answer("ok")
          \/ server.devices[p.id] = 0 /\ UNCHANGED server /\ Answer("refused")
          \/ CanFail /\ Failure /\ Answer("lost")
          \/ CanFail /\ server' = [created EXCEPT !.failures = @ + 1] /\ Answer("lost")
       /\ UNCHANGED ui

\* Mutant: refused commands are counted as sent.
BatchAnswerCountsAll ==
    LET posts == {p \in calls.posts : p.batch = ui.batch}
        Of(how) == {p \in posts : p.phase = how}
    IN /\ posts # {}
       /\ Of("lost") # {} \/ Of("sent") = {}
       /\ ui' = [ui EXCEPT !.batch = 0,
                           !.reports = IF Of("lost") # {} THEN @
                                       ELSE @ \cup {[batch |-> ui.batch, ok |-> Cardinality(posts)]}]
       /\ calls' = [calls EXCEPT !.posts = @ \ {p \in posts : p.phase # "sent"}]
       /\ UNCHANGED server

\* Promise.all: the first post that is lost ends the batch, the others are
\* waited for; only a batch whose posts were all answered is counted.
BatchAnswer ==
    LET posts == {p \in calls.posts : p.batch = ui.batch}
        Of(how) == {p \in posts : p.phase = how}
    IN /\ posts # {}
       /\ Of("lost") # {} \/ Of("sent") = {}
       /\ ui' = [ui EXCEPT !.batch = 0,
                           !.reports = IF Of("lost") # {} THEN @
                                       ELSE @ \cup {[batch |-> ui.batch, ok |-> Cardinality(Of("ok"))]}]
       /\ calls' = [calls EXCEPT !.posts = @ \ {p \in posts : p.phase # "sent"}]
       /\ UNCHANGED server

PostStep == BatchAnswer \/ \E p \in calls.posts : dispatchCommandToDevice(p)

-----------------------------------------------------------------------------
\* The record of a device changes or is removed.
DeviceChanges ==
    /\ server.changes < MaxChanges
    /\ \E v \in {0, server.changes + 2} : server' = [server EXCEPT !.devices[1] = v, !.changes = @ + 1]
    /\ UNCHANGED <<ui, calls>>

Init ==
    /\ \E d \in Linked :
         ui = [rows |-> NoRows, loading |-> TRUE, error |-> FALSE, selected |-> {}, pending |-> d, opened |-> NoDevice,
               drawer |-> [id |-> NoDevice, row |-> 0], batch |-> 0, reports |-> {}, acts |-> 0, overruns |-> 0]
    /\ server = [devices |-> [d \in Devices |-> 1], created |-> {}, changes |-> 0, failures |-> 0]
    /\ calls = [lists |-> {[mode |-> "initial", phase |-> "sent", rows |-> NoRows]}, details |-> {}, posts |-> {}]

Next ==
    \/ ListStep \/ Poll \/ RefreshButton \/ DetailStep \/ CloseDrawer \/ toggleAll \/ ClearSelection
    \/ dispatchBatch \/ handleBatchRefresh \/ PostStep \/ DeviceChanges
    \/ \E d \in Devices : openDeviceWithDetail(d) \/ toggleSelect(d)

FairStep(i) ==
    \/ i = 1 /\ ListStep
    \/ i = 2 /\ Poll
    \/ i = 3 /\ DetailStep
    \/ i = 4 /\ PostStep

Spec == Init /\ [][Next]_fleetVars /\ \A i \in 1 .. 4 : WF_fleetVars(FairStep(i))

-----------------------------------------------------------------------------
(* Properties *)

\* What a batch goes out to is on the list: no load, failure or merge leaves a
\* selected device behind that the page no longer shows (fetchDevices filters
\* the selection).
SelectionIsListed == ui.selected \subseteq Listed(ui.rows)

\* The drawer shows the device opened last, however late the detail of another
\* one is answered; opening a device aborts the request of the one before.
DrawerIsLastOpened == ui.drawer.id \in {NoDevice, ui.opened}

\* A count the page reports for a batch is the number of its commands that the
\* control plane created.
BatchReportIsTrue ==
    \A r \in ui.reports : r.ok = Cardinality({c \in server.created : c[1] = r.batch})

\* The batch buttons come back, after lost posts and aborted loads as well.
BatchRests == ui.batch = 0

\* The list ends up as the control plane has it: a detail read before a change
\* that a load has already shown goes into the row, until the next load.
FleetAgrees == ui.rows = server.devices /\ ~ui.loading /\ ~ui.error
=============================================================================
