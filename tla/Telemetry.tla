------------------------------ MODULE Telemetry -----------------------------
(* The telemetry page (TelemetryContent.tsx).  A load lists the devices,     *)
(* settles which one it is for, makes that the selected one and fetches its  *)
(* bundle; no load cancels another, and a change of the selection starts one *)
(* more.  A deep network snapshot posts two commands.                        *)
EXTENDS Naturals, FiniteSets

CONSTANTS
    MaxActs,       \* clicks in one visit, and devices removed meanwhile
    MaxFailures,   \* requests that fail, and devices removed
    MaxLoads       \* loads under way when the timer starts one more

VARIABLES ui, server, calls

telemetryVars == <<ui, server, calls>>

Devices == 1 .. 2
NoDevice == 0
Methods == {"network_info", "list_connections"}
First(list) == IF list = {} THEN NoDevice ELSE CHOOSE d \in list : \A e \in list : d <= e

CanFail == server.failures < MaxFailures
Failure == server' = [server EXCEPT !.failures = @ + 1]
Quiet == calls.loads = {} /\ calls.posts = {}

-----------------------------------------------------------------------------
(* loadTelemetryBundle *)

\* A load keeps the device that was selected in the render it was made in (and
\* the time window, which changes nothing but the from of the history).
Load(mode, d) == [mode |-> mode, device |-> d, phase |-> "sent"]
Started(u, mode) ==
    IF mode = "silent" THEN u
    ELSE [u EXCEPT !.loading = @ \/ mode = "initial", !.error = FALSE]
Ended(u, mode) ==
    [u EXCEPT !.loading = @ /\ mode # "initial", !.dispatch = IF mode = "snapshot" THEN "idle" ELSE @]
Without(l, new) == calls' = [calls EXCEPT !.loads = (@ \ {l}) \cup new]

\* Mutant: the flags are cleared only when the load succeeds.
LoadFailsLoading(l) ==
    /\ CanFail /\ Failure
    /\ Without(l, {})
    /\ ui' = [ui EXCEPT !.error = TRUE]

\* Device list, latest or history failed: the data of before stay, with an error.
LoadFails(l) ==
    /\ CanFail /\ Failure
    /\ Without(l, {})
    /\ ui' = Ended([ui EXCEPT !.error = TRUE], l.mode)

loadDevices(l) ==
    /\ l.phase = "sent"
    /\ \/ LoadFails(l)
       \/ Without(l, {[mode |-> l.mode, device |-> l.device, phase |-> "listed", list |-> server.devices]})
          /\ UNCHANGED <<ui, server>>

\* Mutant: the bundle is fetched for the device asked for, listed or not.
EffectiveOfAsked(l) ==
    LET d == IF l.device \in l.list THEN l.device ELSE First(l.list)
        u == [ui EXCEPT !.devices = l.list, !.selected = d]
        effect == IF d = ui.selected THEN {} ELSE {Load("initial", d)}
        fetching == [mode |-> l.mode, device |-> l.device, phase |-> "fetching"]
        chosen == IF effect = {} THEN u ELSE Started(u, "initial")
    IN /\ l.phase = "listed"
       /\ IF d = NoDevice
          THEN Without(l, effect) /\ ui' = Ended([chosen EXCEPT !.shown = NoDevice], l.mode)
          ELSE Without(l, effect \cup {fetching}) /\ ui' = chosen
       /\ UNCHANGED server

\* setSelectedDevice(effectiveDevice) overrides a choice made meanwhile; what
\* changes the selection runs the effect again.
Effective(l) ==
    LET d == IF l.device \in l.list THEN l.device ELSE First(l.list)
        u == [ui EXCEPT !.devices = l.list, !.selected = d]
        effect == IF d = ui.selected THEN {} ELSE {Load("initial", d)}
        fetching == [mode |-> l.mode, device |-> d, phase |-> "fetching"]
        chosen == IF effect = {} THEN u ELSE Started(u, "initial")
    IN /\ l.phase = "listed"
       /\ IF d = NoDevice
          THEN Without(l, effect) /\ ui' = Ended([chosen EXCEPT !.shown = NoDevice], l.mode)
          ELSE Without(l, effect \cup {fetching}) /\ ui' = chosen
       /\ UNCHANGED server

\* Activity and commands may fail on their own: those panels say so.
ShowBundle(l) ==
    /\ l.phase = "fetching"
    /\ \/ LoadFails(l)
       \/ Without(l, {}) /\ ui' = Ended([ui EXCEPT !.shown = l.device], l.mode) /\ UNCHANGED server

Poll ==
    /\ Cardinality(calls.loads) < MaxLoads
    /\ calls' = [calls EXCEPT !.loads = @ \cup {Load("silent", ui.selected)}]
    /\ UNCHANGED <<ui, server>>

-----------------------------------------------------------------------------
(* The page *)

Click(u, loads) ==
    /\ ui.acts < MaxActs
    /\ ui' = [u EXCEPT !.acts = @ + 1, !.serial = @ /\ Quiet]
    /\ calls' = [calls EXCEPT !.loads = @ \cup loads]
    /\ UNCHANGED server

setSelectedDevice(d) ==
    /\ d \in ui.devices \ {ui.selected}
    /\ Click(Started([ui EXCEPT !.selected = d], "initial"), {Load("initial", d)})
setTimeWindow == Click(Started(ui, "initial"), {Load("initial", ui.selected)})
Refresh == Click(Started(ui, "refresh"), {Load("refresh", ui.selected)})

dispatchNetworkSnapshot ==
    /\ ui.dispatch = "idle" /\ ui.selected # NoDevice /\ ui.acts < MaxActs
    /\ ui' = [ui EXCEPT !.dispatch = "posting", !.toast = "none", !.acts = @ + 1, !.n = @ + 1,
                        !.asked = ui.selected, !.serial = @ /\ Quiet]
    /\ calls' = [calls EXCEPT !.posts = @ \cup {[n |-> ui.n + 1, method |-> m, phase |-> "sent"] : m \in Methods}]
    /\ UNCHANGED server

\* The answer to a post nobody waits for any more is forgotten.
Awaited(p) == p.n = ui.n /\ ui.dispatch = "posting"
Answered(p, how) ==
    calls' = [calls EXCEPT !.posts = (@ \ {p}) \cup (IF Awaited(p) THEN {[p EXCEPT !.phase = how]} ELSE {})]
Created(p) == server.created \cup {<<p.n, p.method>>}
PostServed(p) ==
    /\ p.phase = "sent"
    /\ \/ server' = [server EXCEPT !.created = Created(p)] /\ Answered(p, "ok")
       \/ CanFail /\ Failure /\ (Answered(p, "refused") \/ Answered(p, "lost"))
       \/ CanFail /\ server' = [server EXCEPT !.created = Created(p), !.failures = @ + 1] /\ Answered(p, "lost")
    /\ UNCHANGED ui

\* Promise.all waits for both answers, or for the first request that throws.
Posts == {p \in calls.posts : p.n = ui.n}

\* Mutant: one accepted post is enough.
DispatchAnswerAny ==
    /\ ui.dispatch = "posting"
    /\ \/ /\ \E p \in Posts : p.phase = "ok"
          /\ ui' = [ui EXCEPT !.toast = "dispatched", !.dispatch = "reloading"]
          /\ calls' = [calls EXCEPT !.posts = @ \ Posts, !.loads = @ \cup {Load("snapshot", ui.asked)}]
       \/ /\ \A p \in Posts : p.phase \in {"lost", "refused"}
          /\ ui' = [ui EXCEPT !.toast = "error", !.dispatch = "idle"]
          /\ calls' = [calls EXCEPT !.posts = {}]
    /\ UNCHANGED server

DispatchAnswer ==
    /\ ui.dispatch = "posting"
    /\ \/ /\ \A p \in Posts : p.phase = "ok"
          /\ ui' = [ui EXCEPT !.toast = "dispatched", !.dispatch = "reloading"]
          /\ calls' = [calls EXCEPT !.posts = @ \ Posts, !.loads = @ \cup {Load("snapshot", ui.asked)}]
       \/ /\ \/ \E p \in Posts : p.phase = "lost"
             \/ (\E p \in Posts : p.phase = "refused") /\ \A p \in Posts : p.phase # "sent"
          /\ ui' = [ui EXCEPT !.toast = "error", !.dispatch = "idle"]
          /\ calls' = [calls EXCEPT !.posts = {p \in @ : p.phase = "sent"}]
    /\ UNCHANGED server

DeviceRemoved ==
    /\ ui.acts < MaxActs /\ CanFail
    /\ \E d \in server.devices : server' = [server EXCEPT !.devices = @ \ {d}, !.failures = @ + 1]
    /\ ui' = [ui EXCEPT !.acts = @ + 1, !.serial = @ /\ Quiet]
    /\ UNCHANGED calls

-----------------------------------------------------------------------------
Init ==
    /\ \E d \in {NoDevice, 2} :     \* the ?device= of the link, if any
          /\ ui = [devices |-> {}, selected |-> d, shown |-> NoDevice, loading |-> TRUE,
                   error |-> FALSE, dispatch |-> "idle", toast |-> "none", n |-> 0,
                   asked |-> d, acts |-> 0, serial |-> TRUE]
          /\ calls = [loads |-> {Load("initial", d)}, posts |-> {}]
    /\ \E list \in {{}, Devices} : server = [devices |-> list, created |-> {}, failures |-> 0]

ListStep == \E l \in calls.loads : loadDevices(l) \/ Effective(l)
BundleStep(modes) == \E l \in calls.loads : l.mode \in modes /\ ShowBundle(l)
PostStep == DispatchAnswer \/ \E p \in calls.posts : PostServed(p)

Next ==
    \/ ListStep \/ BundleStep({"initial", "refresh", "silent", "snapshot"}) \/ PostStep
    \/ Poll \/ Refresh \/ setTimeWindow \/ dispatchNetworkSnapshot \/ DeviceRemoved
    \/ \E d \in Devices : setSelectedDevice(d)

\* Every request is answered: the lists, the bundles of each kind of load, the
\* posts, and a snapshot's own load whatever other loads come and go.
FairStep(i) ==
    \/ i = 1 /\ ListStep
    \/ i = 2 /\ BundleStep({"initial"})
    \/ i = 3 /\ BundleStep({"refresh", "silent"})
    \/ i = 4 /\ BundleStep({"snapshot"})
    \/ i = 5 /\ PostStep
    \/ i = 6 /\ \E l \in calls.loads : l.mode = "snapshot" /\ (loadDevices(l) \/ Effective(l))

Spec == Init /\ [][Next]_telemetryVars /\ \A i \in 1 .. 6 : WF_telemetryVars(FairStep(i))

-----------------------------------------------------------------------------
(* Properties *)

\* The charts are those of the device that is selected, once all has been
\* answered, if every choice and removal came after the answers before it
\* (loads that overlap may leave the bundle of another device, up to the next
\* poll) and no error is up.  It holds for a device removed while it is shown.
SerialDeviceIsShown ==
    ui.serial /\ calls.loads = {} /\ ~ui.error => ui.shown = ui.selected

\* "Network snapshot commands dispatched" is said only when both commands exist,
\* whatever order the answers of the two posts come in.
SnapshotIsWhole == ui.toast = "dispatched" => \A m \in Methods : <<ui.n, m>> \in server.created

\* The deep snapshot button comes back and the page is not left loading, though
\* two loads may keep setting the selection back and forth between them.
TelemetryRests == ui.dispatch = "idle"
LoadingRests == ~ui.loading
=============================================================================
