----------------------------- MODULE LoadProofs -----------------------------
(***************************************************************************)
(* The pages whose loads overtake each other: the scheduling page, the     *)
(* operator console and the file explorer, and all of them together.       *)
(***************************************************************************)
EXTENDS LoadPages, ListProofs, TLAPS

-----------------------------------------------------------------------------
(* The scheduling page *)

JobsShape ==
    /\ DOMAIN ui = {"jobs", "runs", "selected", "loading", "error", "modal", "saving", "acts", "overruns"}
    /\ DOMAIN server = {"jobs", "runs", "failures"} /\ DOMAIN calls = {"loads", "ops"}

\* An answer on its way knows the runs on the screen; before the first one there
\* are none.
JobsInv ==
    /\ JobsShape
    /\ ui.runs \in Nat /\ server.runs \in Nat /\ ui.runs <= server.runs
    /\ Single(calls.loads)
    /\ \A l \in calls.loads :
          /\ l.mode = "initial" => ui.runs = 0
          /\ l.phase = "ok" => l.data.runs \in Nat /\ ui.runs <= l.data.runs /\ l.data.runs <= server.runs

\* A step that leaves the history on the screen alone and the load as it is, or
\* aborts it for a new one.
LEMMA JobsFrame ==
    ASSUME JobsInv, JobsShape', ui'.runs = ui.runs, server'.runs \in Nat, server.runs <= server'.runs,
           \/ calls'.loads = calls.loads
           \/ calls'.loads = {[phase |-> "sent", mode |-> "silent"]}
           \/ calls'.loads = {[phase |-> "sent", mode |-> "refresh"]}
    PROVE  JobsInv' /\ Jobs!HistoryGrows
<1>1. Jobs!HistoryGrows
  BY DEF Jobs!HistoryGrows, JobsInv
<1>2. CASE calls'.loads = calls.loads
  BY <1>1, <1>2 DEF JobsInv, Single
<1>3. CASE calls'.loads = {[phase |-> "sent", mode |-> "silent"]} \/ calls'.loads = {[phase |-> "sent", mode |-> "refresh"]}
  <2>1. /\ Single(calls'.loads)
        /\ \A l \in calls'.loads : l.mode # "initial" /\ l.phase = "sent"
    BY <1>3 DEF Single
  <2> QED BY <1>1, <2>1 DEF JobsInv
<1> QED BY <1>2, <1>3

LEMMA JobsLoadRead ==
    ASSUME JobsInv, NEW l \in calls.loads, Jobs!LoadRead(l)
    PROVE  JobsInv' /\ Jobs!HistoryGrows
<1>1. ui' = ui
  BY DEF Jobs!LoadRead
<1>2. server'.runs = server.runs /\ DOMAIN server' = DOMAIN server
  BY DEF Jobs!LoadRead, Jobs!Failure, JobsInv, JobsShape
<1>3. PICK r : /\ calls' = [calls EXCEPT !.loads = (calls.loads \ {l}) \cup {r}]
               /\ r.mode = l.mode
               /\ r.phase = "ok" => r.data.runs = server.runs
  <2> DEFINE Becomes(r) == calls' = [calls EXCEPT !.loads = (calls.loads \ {l}) \cup {r}]
  <2>1. ASSUME Becomes([phase |-> "ok", mode |-> l.mode, data |-> Jobs!Data])
        PROVE  \E r : Becomes(r) /\ r.mode = l.mode /\ (r.phase = "ok" => r.data.runs = server.runs)
    <3>1. PICK r : r = [phase |-> "ok", mode |-> l.mode, data |-> Jobs!Data]
      OBVIOUS
    <3>2. r.mode = l.mode /\ (r.phase = "ok" => r.data.runs = server.runs)
      BY <3>1 DEF Jobs!Data
    <3> QED BY <2>1, <3>1, <3>2, Zenon
  <2>2. ASSUME Becomes([phase |-> "failed", mode |-> l.mode])
        PROVE  \E r : Becomes(r) /\ r.mode = l.mode /\ (r.phase = "ok" => r.data.runs = server.runs)
    <3>1. PICK r : r = [phase |-> "failed", mode |-> l.mode]
      OBVIOUS
    <3>2. r.mode = l.mode /\ (r.phase = "ok" => r.data.runs = server.runs)
      BY <3>1
    <3> QED BY <2>2, <3>1, <3>2, Zenon
  <2> QED BY <2>1, <2>2, Zenon DEF Jobs!LoadRead
<1>4. calls'.loads = {r} /\ DOMAIN calls' = DOMAIN calls
  BY <1>3 DEF JobsInv, JobsShape, Single
<1>5. r.mode = "initial" => ui.runs = 0
  BY <1>3 DEF JobsInv
<1> QED BY <1>1, <1>2, <1>3, <1>4, <1>5 DEF JobsInv, JobsShape, Single, Jobs!HistoryGrows

LEMMA JobsLoadAnswer ==
    ASSUME JobsInv, NEW l \in calls.loads, Jobs!LoadAnswer(l)
    PROVE  JobsInv' /\ Jobs!HistoryGrows
<1>1. server' = server /\ calls'.loads = {} /\ DOMAIN calls' = DOMAIN calls
  BY DEF Jobs!LoadAnswer, JobsInv, JobsShape, Single
<1>2. CASE l.phase = "ok"
  <2>1. ui'.runs = l.data.runs /\ DOMAIN ui' = DOMAIN ui
    BY <1>2 DEF Jobs!LoadAnswer, JobsInv, JobsShape
  <2>2. l.data.runs \in Nat /\ ui.runs <= l.data.runs /\ l.data.runs <= server.runs
    BY <1>2 DEF JobsInv
  <2> QED BY <1>1, <2>1, <2>2 DEF JobsInv, JobsShape, Single, Jobs!HistoryGrows
<1>3. CASE l.phase = "failed"
  <2>1. CASE l.mode = "initial"
    <3>1. ui'.runs = 0 /\ DOMAIN ui' = DOMAIN ui
      BY <1>3, <2>1 DEF Jobs!LoadAnswer, JobsInv, JobsShape
    <3>2. ui.runs = 0
      BY <2>1 DEF JobsInv
    <3> QED BY <1>1, <3>1, <3>2 DEF JobsInv, JobsShape, Single, Jobs!HistoryGrows
  <2>2. CASE l.mode # "initial"
    <3>1. ui'.runs = ui.runs /\ DOMAIN ui' = DOMAIN ui
      BY <1>3, <2>2 DEF Jobs!LoadAnswer, JobsInv, JobsShape
    <3> QED BY <1>1, <3>1 DEF JobsInv, JobsShape, Single, Jobs!HistoryGrows
  <2> QED BY <2>1, <2>2
<1> QED BY <1>2, <1>3 DEF Jobs!LoadAnswer

\* The handlers and the timer.
LEMMA JobsHandler ==
    ASSUME JobsInv,
           \/ Jobs!Poll \/ Jobs!RefreshButton \/ Jobs!ToggleModal \/ Jobs!createSchedule
           \/ \E j \in Jobs!Ids : Jobs!SelectJob(j) \/ Jobs!toggleJobStatus(j) \/ Jobs!deleteJob(j) \/ Jobs!runNow(j)
    PROVE  JobsInv' /\ Jobs!HistoryGrows
<1>0. /\ DOMAIN ui = {"jobs", "runs", "selected", "loading", "error", "modal", "saving", "acts", "overruns"}
      /\ DOMAIN server = {"jobs", "runs", "failures"} /\ DOMAIN calls = {"loads", "ops"}
      /\ server.runs \in Nat
  BY DEF JobsInv, JobsShape
<1>1. CASE Jobs!Poll
  <2>1. ui'.runs = ui.runs /\ DOMAIN ui' = DOMAIN ui
    BY <1>0, <1>1 DEF Jobs!Poll, Jobs!Aborting
  <2>2. calls'.loads = {[phase |-> "sent", mode |-> "silent"]} /\ DOMAIN calls' = DOMAIN calls /\ server' = server
    BY <1>0, <1>1 DEF Jobs!Poll, Jobs!loadData
  <2> QED BY <1>0, <2>1, <2>2, JobsFrame DEF JobsShape
<1>2. CASE Jobs!RefreshButton
  <2>1. ui'.runs = ui.runs /\ DOMAIN ui' = DOMAIN ui
    BY <1>0, <1>2 DEF Jobs!RefreshButton, Jobs!Click, Jobs!Aborting
  <2>2. calls'.loads = {[phase |-> "sent", mode |-> "refresh"]} /\ DOMAIN calls' = DOMAIN calls /\ server' = server
    BY <1>0, <1>2 DEF Jobs!RefreshButton, Jobs!loadData
  <2> QED BY <1>0, <2>1, <2>2, JobsFrame DEF JobsShape
<1>3. CASE Jobs!ToggleModal
  <2>1. PICK b : ui' = [ui EXCEPT !.modal = b]
    BY <1>3, Zenon DEF Jobs!ToggleModal
  <2>2. ui'.runs = ui.runs /\ DOMAIN ui' = DOMAIN ui /\ server' = server /\ calls' = calls
    BY <1>0, <1>3, <2>1 DEF Jobs!ToggleModal
  <2> QED BY <1>0, <2>2, JobsFrame DEF JobsShape
<1>4. CASE Jobs!createSchedule
  <2>1. ui'.runs = ui.runs /\ DOMAIN ui' = DOMAIN ui
    BY <1>0, <1>4 DEF Jobs!createSchedule, Jobs!Click
  <2>2. calls'.loads = calls.loads /\ DOMAIN calls' = DOMAIN calls /\ server' = server
    BY <1>0, <1>4 DEF Jobs!createSchedule, Jobs!Sent
  <2> QED BY <1>0, <2>1, <2>2, JobsFrame DEF JobsShape
<1>5. ASSUME NEW j \in Jobs!Ids, Jobs!SelectJob(j)
      PROVE  JobsInv' /\ Jobs!HistoryGrows
  <2>1. ui'.runs = ui.runs /\ DOMAIN ui' = DOMAIN ui /\ server' = server /\ calls' = calls
    BY <1>0, <1>5 DEF Jobs!SelectJob
  <2> QED BY <1>0, <2>1, JobsFrame DEF JobsShape
<1>6. ASSUME NEW j \in Jobs!Ids, Jobs!toggleJobStatus(j) \/ Jobs!deleteJob(j)
      PROVE  JobsInv' /\ Jobs!HistoryGrows
  <2>1. ui'.runs = ui.runs /\ DOMAIN ui' = DOMAIN ui /\ server' = server
    BY <1>0, <1>6 DEF Jobs!toggleJobStatus, Jobs!deleteJob, Jobs!Click
  <2>2. calls'.loads = calls.loads /\ DOMAIN calls' = DOMAIN calls
    BY <1>0, <1>6 DEF Jobs!toggleJobStatus, Jobs!deleteJob, Jobs!Sent
  <2> QED BY <1>0, <2>1, <2>2, JobsFrame DEF JobsShape
<1>7. ASSUME NEW j \in Jobs!Ids, Jobs!runNow(j)
      PROVE  JobsInv' /\ Jobs!HistoryGrows
  <2>1. ui'.runs = ui.runs /\ DOMAIN ui' = DOMAIN ui /\ server' = server
    BY <1>0, <1>7 DEF Jobs!runNow, Jobs!Click, Jobs!Aborting
  <2>2. calls'.loads = {[phase |-> "sent", mode |-> "refresh"]} /\ DOMAIN calls' = DOMAIN calls
    BY <1>0, <1>7 DEF Jobs!runNow, Jobs!Sent, Jobs!loadData
  <2> QED BY <1>0, <2>1, <2>2, JobsFrame DEF JobsShape
<1> QED BY <1>1, <1>2, <1>3, <1>4, <1>5, <1>6, <1>7, Zenon

LEMMA JobsServe ==
    ASSUME JobsInv, NEW s \in Jobs!Slots, Jobs!Serve(s)
    PROVE  JobsInv' /\ Jobs!HistoryGrows
<1>0. /\ DOMAIN server = {"jobs", "runs", "failures"} /\ DOMAIN calls = {"loads", "ops"} /\ server.runs \in Nat
  BY DEF JobsInv, JobsShape
<1>1. ui' = ui
  BY DEF Jobs!Serve
<1>2. calls'.loads = calls.loads /\ DOMAIN calls' = DOMAIN calls
  BY <1>0 DEF Jobs!Serve, Jobs!Answered
<1>3. PICK srv : srv = Jobs!Stored(calls.ops[s])
  OBVIOUS
<1>4. srv.runs \in {server.runs, server.runs + 1} /\ DOMAIN srv = DOMAIN server
  BY <1>0, <1>3 DEF Jobs!Stored
<1>5. server' \in {server, srv, [server EXCEPT !.failures = @ + 1], [srv EXCEPT !.failures = @ + 1]}
  BY <1>3 DEF Jobs!Serve, Jobs!Failure
<1>6. server'.runs \in {server.runs, server.runs + 1} /\ DOMAIN server' = DOMAIN server
  BY <1>0, <1>4, <1>5
<1> QED BY <1>0, <1>1, <1>2, <1>6, JobsFrame DEF JobsInv, JobsShape

LEMMA JobsOpAnswer ==
    ASSUME JobsInv, NEW s \in Jobs!Slots, Jobs!OpAnswer(s)
    PROVE  JobsInv' /\ Jobs!HistoryGrows
<1>0. /\ DOMAIN ui = {"jobs", "runs", "selected", "loading", "error", "modal", "saving", "acts", "overruns"}
      /\ DOMAIN calls = {"loads", "ops"}
  BY DEF JobsInv, JobsShape
<1>1. PICK u : u = Jobs!Settled(calls.ops[s])
  OBVIOUS
<1>2. u.runs = ui.runs /\ DOMAIN u = DOMAIN ui
  <2>1. PICK b : u \in {[ui EXCEPT !.saving = FALSE, !.modal = b], [ui EXCEPT !.selected = Jobs!NoJob], ui}
    BY <1>1, Zenon DEF Jobs!Settled
  <2> QED BY <1>0, <2>1
<1>3. ui' \in {u, [u EXCEPT !.loading = FALSE]}
  BY <1>1 DEF Jobs!OpAnswer, Jobs!Aborting
<1>4. ui'.runs = ui.runs /\ DOMAIN ui' = DOMAIN ui
  BY <1>0, <1>2, <1>3
<1>5. /\ calls'.loads = calls.loads \/ calls'.loads = {[phase |-> "sent", mode |-> "refresh"]}
      /\ DOMAIN calls' = DOMAIN calls /\ server' = server
  BY <1>0 DEF Jobs!OpAnswer, Jobs!loadData
<1> QED BY <1>0, <1>4, <1>5, JobsFrame DEF JobsInv, JobsShape

LEMMA JobsStep ==
    ASSUME JobsInv, Jobs!Next
    PROVE  JobsInv' /\ Jobs!HistoryGrows
<1>1. CASE Jobs!LoadStep
  BY <1>1, JobsLoadRead, JobsLoadAnswer, Zenon DEF Jobs!LoadStep
<1>2. ASSUME NEW s \in Jobs!Slots, Jobs!Serve(s) \/ Jobs!OpAnswer(s)
      PROVE  JobsInv' /\ Jobs!HistoryGrows
  BY <1>2, JobsServe, JobsOpAnswer
<1> QED BY <1>1, <1>2, JobsHandler, Zenon DEF Jobs!Next

LEMMA JobsStarts == Jobs!Init => JobsInv
BY DEF Jobs!Init, JobsInv, JobsShape, Single

-----------------------------------------------------------------------------
(* The operator console *)

OperatorFields == {"commands", "alerts", "loading", "error", "acking", "acts", "overruns"}
OperatorShape ==
    /\ DOMAIN ui = OperatorFields
    /\ DOMAIN server = {"commands", "alerts", "failures"} /\ DOMAIN calls = {"loads", "acks"}

\* Commands that came in are no fewer than those on the screen.
OperatorLoadInv(l) ==
    /\ DOMAIN l = {"mode", "parts", "commands", "alerts"}
    /\ l.parts \in [Operator!Parts -> Progress]
    /\ l.parts["commands"] = "ok" =>
          l.commands \in Nat /\ ui.commands <= l.commands /\ l.commands <= server.commands

OperatorInv ==
    /\ OperatorShape
    /\ ui.commands \in Nat /\ server.commands \in Nat /\ ui.commands <= server.commands
    /\ Single(calls.loads)
    /\ \A l \in calls.loads : OperatorLoadInv(l)

\* A load that is shown, with whatever error.
LEMMA OperatorShown ==
    ASSUME NEW u, DOMAIN u = OperatorFields, NEW l, NEW e,
           NEW v, v = Operator!Ended([Operator!Shown(u, l) EXCEPT !.error = e], l)
    PROVE  /\ DOMAIN v = OperatorFields
           /\ v.commands = IF l.parts["commands"] = "ok" THEN l.commands ELSE u.commands
<1>1. PICK w : w = Operator!Shown(u, l)
  OBVIOUS
<1>2. DOMAIN w = OperatorFields /\ w.commands = IF l.parts["commands"] = "ok" THEN l.commands ELSE u.commands
  BY <1>1 DEF Operator!Shown, OperatorFields
<1>3. PICK b : v = [[w EXCEPT !.error = e] EXCEPT !.loading = b]
  BY <1>1, Zenon DEF Operator!Ended
<1>4. PICK x : x = [w EXCEPT !.error = e]
  OBVIOUS
<1>5. DOMAIN x = OperatorFields /\ x.commands = w.commands
  BY <1>2, <1>4 DEF OperatorFields
<1> QED BY <1>2, <1>3, <1>4, <1>5 DEF OperatorFields

LEMMA OperatorEnded ==
    ASSUME NEW u, DOMAIN u = OperatorFields, NEW l, NEW v, v = Operator!Ended(u, l)
    PROVE  DOMAIN v = OperatorFields /\ v.commands = u.commands
<1>1. PICK b : v = [u EXCEPT !.loading = b]
  BY Zenon DEF Operator!Ended
<1> QED BY <1>1 DEF OperatorFields

\* A step that leaves loads and the screen's count alone.
LEMMA OperatorFrame ==
    ASSUME OperatorInv, OperatorShape', ui'.commands = ui.commands, server'.commands = server.commands,
           calls'.loads = calls.loads
    PROVE  OperatorInv' /\ Operator!OperatorNeverGoesBack
BY DEF OperatorInv, OperatorLoadInv, Single, Operator!OperatorNeverGoesBack

\* A load that aborts the one before: what that one had is shown now or never.
LEMMA OperatorReloads ==
    ASSUME OperatorInv, NEW u, DOMAIN u = OperatorFields, u.commands = ui.commands, NEW mode,
           Operator!Reloading(u, calls, mode),
           DOMAIN server' = DOMAIN server, server'.commands \in Nat, server.commands <= server'.commands
    PROVE  OperatorInv' /\ Operator!OperatorNeverGoesBack
<1>1. /\ DOMAIN ui' = OperatorFields /\ ui'.commands \in Nat
      /\ ui.commands <= ui'.commands /\ ui'.commands <= server.commands
  <2>1. CASE calls.loads = {}
    <3>1. ui' = u
      BY <2>1 DEF Operator!Reloading
    <3> QED BY <3>1 DEF OperatorInv
  <2>2. CASE calls.loads # {}
    <3>1. PICK l \in calls.loads : ui' \in Operator!Aborted(u, l)
      BY <2>2 DEF Operator!Reloading
    <3>2. OperatorLoadInv(l)
      BY DEF OperatorInv
    <3>3. CASE ui' = Operator!Ended(u, l)
      <4>1. PICK v : v = Operator!Ended(u, l)
        OBVIOUS
      <4>2. DOMAIN v = OperatorFields /\ v.commands = u.commands
        BY <4>1, OperatorEnded
      <4> QED BY <3>3, <4>1, <4>2 DEF OperatorInv
    <3>4. CASE ui' = Operator!Ended([Operator!Shown(u, l) EXCEPT !.error = TRUE], l)
      <4>1. PICK e : ui' = Operator!Ended([Operator!Shown(u, l) EXCEPT !.error = e], l)
        BY <3>4, Zenon
      <4>2. PICK v : v = Operator!Ended([Operator!Shown(u, l) EXCEPT !.error = e], l)
        OBVIOUS
      <4>3. DOMAIN v = OperatorFields /\ v.commands = IF l.parts["commands"] = "ok" THEN l.commands ELSE u.commands
        BY <4>2, OperatorShown
      <4>4. ui' = v
        BY <4>1, <4>2
      <4> QED BY <3>2, <4>3, <4>4 DEF OperatorInv, OperatorLoadInv
    <3> QED BY <3>1, <3>3, <3>4, Zenon DEF Operator!Aborted
  <2> QED BY <2>1, <2>2
<1>2. PICK r : r = Operator!NewLoad(mode)
  OBVIOUS
<1>3. calls'.loads = {r} /\ DOMAIN calls' = {"loads", "acks"}
  BY <1>2 DEF Operator!Reloading, OperatorInv, OperatorShape
<1>4. /\ DOMAIN r = {"mode", "parts", "commands", "alerts"} /\ r.parts \in [Operator!Parts -> Progress]
      /\ r.parts["commands"] = "sent"
  BY <1>2 DEF Operator!NewLoad, Operator!Parts, Progress
<1>5. Operator!OperatorNeverGoesBack
  BY <1>1 DEF Operator!OperatorNeverGoesBack, OperatorInv
<1>6. OperatorLoadInv(r)'
  BY <1>4 DEF OperatorLoadInv
<1> QED BY <1>1, <1>3, <1>5, <1>6 DEF OperatorInv, OperatorShape, Single

LEMMA OperatorFetchPart ==
    ASSUME OperatorInv, NEW l \in calls.loads, NEW p \in Operator!Parts, Operator!FetchPart(l, p)
    PROVE  OperatorInv' /\ Operator!OperatorNeverGoesBack
<1>1. OperatorLoadInv(l)
  BY DEF OperatorInv
<1>2. ui' = ui /\ server'.commands = server.commands /\ DOMAIN server' = DOMAIN server
  BY DEF Operator!FetchPart, Operator!Failure, OperatorInv, OperatorShape
<1> DEFINE Fetched(r) ==
             \/ p = "commands" /\ r = [l EXCEPT !.parts = [l.parts EXCEPT ![p] = "ok"], !.commands = server.commands]
             \/ p # "commands" /\ r = [l EXCEPT !.parts = [l.parts EXCEPT ![p] = "ok"], !.alerts = server.alerts]
             \/ r = [l EXCEPT !.parts = [l.parts EXCEPT ![p] = "failed"]]
<1>3. PICK r : calls' = [calls EXCEPT !.loads = (calls.loads \ {l}) \cup {r}] /\ Fetched(r)
  BY Zenon DEF Operator!FetchPart
<1>4. calls'.loads = {r} /\ DOMAIN calls' = DOMAIN calls
  <2> HIDE DEF Fetched
  <2> QED BY <1>3 DEF OperatorInv, OperatorShape, Single
<1>5. /\ DOMAIN r = {"mode", "parts", "commands", "alerts"} /\ r.parts \in [Operator!Parts -> Progress]
      /\ r.commands \in {l.commands, server.commands}
      /\ r.parts["commands"] = "ok" /\ r.commands # server.commands => l.parts["commands"] = "ok"
  <2>1. PICK d, m, k, n : r = [l EXCEPT !.parts = d, !.commands = k, !.alerts = n]
                          /\ d = [l.parts EXCEPT ![p] = m] /\ m \in {"ok", "failed"} /\ k \in {l.commands, server.commands}
                          /\ (p = "commands" /\ m = "ok" => k = server.commands)
    <3>1. DOMAIN l = {"mode", "parts", "commands", "alerts"}
      BY <1>1 DEF OperatorLoadInv
    <3>2. CASE p = "commands" /\ r = [l EXCEPT !.parts = [l.parts EXCEPT ![p] = "ok"], !.commands = server.commands]
      <4>1. r = [l EXCEPT !.parts = [l.parts EXCEPT ![p] = "ok"], !.commands = server.commands, !.alerts = l.alerts]
        BY <3>1, <3>2
      <4> QED BY <4>1, Zenon
    <3>3. CASE p # "commands" /\ r = [l EXCEPT !.parts = [l.parts EXCEPT ![p] = "ok"], !.alerts = server.alerts]
      <4>1. r = [l EXCEPT !.parts = [l.parts EXCEPT ![p] = "ok"], !.commands = l.commands, !.alerts = server.alerts]
        BY <3>1, <3>3
      <4> QED BY <3>3, <4>1, Zenon
    <3>4. CASE r = [l EXCEPT !.parts = [l.parts EXCEPT ![p] = "failed"]]
      <4>1. r = [l EXCEPT !.parts = [l.parts EXCEPT ![p] = "failed"], !.commands = l.commands, !.alerts = l.alerts]
        BY <3>1, <3>4
      <4>2. "failed" # "ok"
        OBVIOUS
      <4> QED BY <4>1, <4>2, Zenon
    <3> QED BY <1>3, <3>2, <3>3, <3>4
  <2> HIDE DEF Fetched
  <2>2. DOMAIN r = {"mode", "parts", "commands", "alerts"} /\ r.parts = d /\ r.commands = k
    BY <1>1, <2>1 DEF OperatorLoadInv
  <2>3. d \in [Operator!Parts -> Progress] /\ d["commands"] = IF p = "commands" THEN m ELSE l.parts["commands"]
    BY <1>1, <2>1 DEF OperatorLoadInv, Progress, Operator!Parts
  <2> QED BY <2>1, <2>2, <2>3
<1>6. OperatorLoadInv(r)'
  BY <1>1, <1>2, <1>5 DEF OperatorLoadInv, OperatorInv
<1>7. Operator!OperatorNeverGoesBack
  BY <1>2 DEF Operator!OperatorNeverGoesBack, OperatorInv
<1> HIDE DEF Fetched
<1> QED BY <1>2, <1>4, <1>6, <1>7 DEF OperatorInv, OperatorShape, Single

LEMMA OperatorSettle ==
    ASSUME OperatorInv, NEW l \in calls.loads, Operator!Settle(l)
    PROVE  OperatorInv' /\ Operator!OperatorNeverGoesBack
<1>1. OperatorLoadInv(l)
  BY DEF OperatorInv
<1>2. server' = server /\ calls'.loads = {} /\ DOMAIN calls' = DOMAIN calls
  BY DEF Operator!Settle, OperatorInv, OperatorShape, Single
<1>3. PICK e : ui' = Operator!Ended([Operator!Shown(ui, l) EXCEPT !.error = e], l)
  BY Zenon DEF Operator!Settle
<1>4. PICK u : u = ui
  OBVIOUS
<1>5. DOMAIN u = OperatorFields
  BY <1>4 DEF OperatorInv, OperatorShape
<1>6. PICK v : v = Operator!Ended([Operator!Shown(u, l) EXCEPT !.error = e], l)
  OBVIOUS
<1>7. DOMAIN v = OperatorFields /\ v.commands = IF l.parts["commands"] = "ok" THEN l.commands ELSE u.commands
  BY <1>5, <1>6, OperatorShown
<1>8. ui' = v
  BY <1>3, <1>4, <1>6, Zenon
<1> QED BY <1>1, <1>2, <1>4, <1>7, <1>8 DEF OperatorInv, OperatorShape, OperatorLoadInv, Single, Operator!OperatorNeverGoesBack

LEMMA OperatorStep ==
    ASSUME OperatorInv, Operator!Next
    PROVE  OperatorInv' /\ Operator!OperatorNeverGoesBack
<1>0. /\ DOMAIN ui = OperatorFields /\ server.commands \in Nat
      /\ DOMAIN server = {"commands", "alerts", "failures"} /\ DOMAIN calls = {"loads", "acks"}
  BY DEF OperatorInv, OperatorShape
<1>1. CASE Operator!LoadStep
  BY <1>1, OperatorSettle, OperatorFetchPart, Zenon DEF Operator!LoadStep
<1>2. CASE Operator!Poll
  <2>1. PICK u : u = [ui EXCEPT !.overruns = IF calls.loads = {} THEN @ ELSE @ + 1]
    OBVIOUS
  <2>2. DOMAIN u = OperatorFields /\ u.commands = ui.commands
    BY <1>0, <2>1 DEF OperatorFields
  <2>3. server' = server /\ Operator!Reloading(u, calls, "silent")
    BY <1>2, <2>1 DEF Operator!Poll
  <2> QED BY <1>0, <2>2, <2>3, OperatorReloads
<1>3. CASE Operator!RefreshButton \/ Operator!OnDispatched
  <2>1. PICK u : u = [ui EXCEPT !.acts = @ + 1]
    OBVIOUS
  <2>2. DOMAIN u = OperatorFields /\ u.commands = ui.commands
    BY <1>0, <2>1 DEF OperatorFields
  <2>3. Operator!Reloading(u, calls, "refresh")
    BY <1>3, <2>1 DEF Operator!RefreshButton, Operator!OnDispatched
  <2>4. DOMAIN server' = DOMAIN server /\ server'.commands \in {server.commands, server.commands + 1}
    BY <1>0, <1>3 DEF Operator!RefreshButton, Operator!OnDispatched
  <2> QED BY <1>0, <2>2, <2>3, <2>4, OperatorReloads
<1>4. ASSUME NEW a \in Operator!Alerts, Operator!AckServed(a)
      PROVE  OperatorInv' /\ Operator!OperatorNeverGoesBack
  <2>1. ui' = ui /\ calls'.loads = calls.loads /\ DOMAIN calls' = DOMAIN calls
    BY <1>0, <1>4 DEF Operator!AckServed
  <2>2. server'.commands = server.commands /\ DOMAIN server' = DOMAIN server
    BY <1>0, <1>4 DEF Operator!AckServed, Operator!Failure
  <2> QED BY <1>0, <2>1, <2>2, OperatorFrame DEF OperatorShape
<1>5. ASSUME NEW a \in Operator!Alerts, Operator!AckAnswer(a) \/ Operator!acknowledgeAlert(a)
      PROVE  OperatorInv' /\ Operator!OperatorNeverGoesBack
  <2>1. ui'.commands = ui.commands /\ DOMAIN ui' = OperatorFields
    BY <1>0, <1>5 DEF Operator!AckAnswer, Operator!acknowledgeAlert, OperatorFields
  <2>2. server' = server /\ calls'.loads = calls.loads /\ DOMAIN calls' = DOMAIN calls
    BY <1>0, <1>5 DEF Operator!AckAnswer, Operator!acknowledgeAlert
  <2> QED BY <1>0, <2>1, <2>2, OperatorFrame DEF OperatorShape
<1> QED BY <1>1, <1>2, <1>3, <1>4, <1>5, Zenon DEF Operator!Next, Operator!AckStep

LEMMA OperatorStarts == Operator!Init => OperatorInv
<1> SUFFICES ASSUME Operator!Init PROVE OperatorInv
  OBVIOUS
<1>1. /\ DOMAIN ui = OperatorFields /\ ui.commands = 0 /\ server.commands = 1
      /\ DOMAIN server = {"commands", "alerts", "failures"} /\ DOMAIN calls = {"loads", "acks"}
      /\ calls.loads = {Operator!NewLoad("initial")}
  BY DEF Operator!Init, OperatorFields
<1>2. OperatorLoadInv(Operator!NewLoad("initial"))
  BY DEF OperatorLoadInv, Operator!NewLoad, Operator!Parts, Progress
<1> QED BY <1>1, <1>2 DEF OperatorInv, OperatorShape, Single

-----------------------------------------------------------------------------
(* The file explorer *)

ExplorerFields ==
    {"snapshot", "partial", "auto", "mount", "moves", "entries", "cur", "sel", "back", "fwd", "hydrating", "error",
     "hydrated", "attempted", "gate", "blocked"}

MountInv == DOMAIN ui = ExplorerFields /\ ui.mount \in Nat

\* The effect that may hydrate the folder adds no entries and takes none.
LEMMA FilesRendered ==
    ASSUME NEW u, DOMAIN u = ExplorerFields, NEW cs, NEW srv, Files!Becomes(Files!Rendered(u, cs, srv))
    PROVE  DOMAIN ui' = ExplorerFields /\ ui'.mount = u.mount /\ ui'.entries = u.entries
<1>1. CASE ui' = u
  BY <1>1
<1>2. ASSUME NEW a, NEW g, NEW p, NEW e,
             ui' = [u EXCEPT !.attempted = a, !.gate = g, !.hydrating = p, !.error = e]
      PROVE  DOMAIN ui' = ExplorerFields /\ ui'.mount = u.mount /\ ui'.entries = u.entries
  BY <1>2 DEF ExplorerFields
<1>3. ui' = Files!Rendered(u, cs, srv).ui
  BY Zenon DEF Files!Becomes
<1>4. CASE Files!WantsContents(u) /\ Files!MayHydrate(u, u.cur)
  <2>1. Files!Rendered(u, cs, srv) = Files!hydratePath(u, cs, srv, u.cur)
    BY <1>4, Zenon DEF Files!Rendered
  <2>2. PICK a, g, p, e, x, y :
           Files!hydratePath(u, cs, srv, u.cur)
             = [ui |-> [u EXCEPT !.attempted = a, !.gate = g, !.hydrating = p, !.error = e], calls |-> x, server |-> y]
    BY Zenon DEF Files!hydratePath, Files!Page
  <2>3. ui' = [u EXCEPT !.attempted = a, !.gate = g, !.hydrating = p, !.error = e]
    BY <1>3, <2>1, <2>2
  <2> QED BY <1>2, <2>3, Zenon
<1>5. CASE ~(Files!WantsContents(u) /\ Files!MayHydrate(u, u.cur))
  <2>1. Files!Rendered(u, cs, srv) = [ui |-> u, calls |-> cs, server |-> srv]
    BY <1>5, Zenon DEF Files!Rendered, Files!Page
  <2>2. ui' = u
    BY <1>3, <2>1
  <2> QED BY <1>1, <2>2
<1> QED BY <1>4, <1>5

\* A fresh explorer, of the same mount.
LEMMA FilesBooted ==
    ASSUME NEW w, DOMAIN w = ExplorerFields, NEW u, u = Files!Booted(w)
    PROVE  DOMAIN u = ExplorerFields /\ u.mount = w.mount
<1>1. PICK e : e = FALSE
  BY Zenon
<1>2. PICK start, materialized : start = Files!usersCandidatePath(w.snapshot)
                                 /\ materialized = {Files!Parent[x] : x \in w.snapshot}
  BY Zenon
<1>3. PICK trail : trail = IF start # Files!root THEN <<Files!root>> ELSE <<>>
  BY Zenon
<1>4. u = [w EXCEPT !.entries = w.snapshot, !.cur = start, !.sel = Files!None, !.back = trail, !.fwd = <<>>,
                    !.hydrating = Files!None, !.error = e, !.hydrated = materialized, !.attempted = materialized]
  BY <1>1, <1>2, <1>3, Zenon DEF Files!Booted
<1> QED BY <1>4 DEF ExplorerFields

LEMMA FilesMoved ==
    ASSUME MountInv, NEW u, DOMAIN u = ExplorerFields, u.mount \in Nat, Files!Moved(u),
           u.mount = ui.mount => ui.entries \subseteq u.entries
    PROVE  MountInv' /\ Files!EntriesNeverLost
<1>1. PICK v : v = [u EXCEPT !.moves = @ + 1]
  OBVIOUS
<1>2. DOMAIN v = ExplorerFields /\ v.mount = u.mount /\ v.entries = u.entries
  BY <1>1 DEF ExplorerFields
<1>3. Files!Becomes(Files!Rendered(v, calls, server))
  BY <1>1, Zenon DEF Files!Moved
<1>4. PICK cs, srv : cs = calls /\ srv = server
  BY Zenon
<1>5. Files!Becomes(Files!Rendered(v, cs, srv))
  BY <1>3, <1>4, Zenon
<1>6. DOMAIN ui' = ExplorerFields /\ ui'.mount = v.mount /\ ui'.entries = v.entries
  BY <1>2, <1>5, FilesRendered, Zenon
<1> QED BY <1>2, <1>6 DEF MountInv, Files!EntriesNeverLost

LEMMA FilesAnswered ==
    ASSUME MountInv, NEW c, NEW u, NEW srv, DOMAIN u = ExplorerFields, u.mount = ui.mount,
           ui.entries \subseteq u.entries, Files!Answered(c, u, srv)
    PROVE  MountInv' /\ Files!EntriesNeverLost
<1>1. CASE c.mount = ui.mount
  <2>1. PICK v : v = Files!Released(u, c)
    OBVIOUS
  <2>2. DOMAIN v = ExplorerFields /\ v.mount = u.mount /\ v.entries = u.entries
    BY <2>1 DEF Files!Released, ExplorerFields
  <2>3. PICK cs : cs = calls \ {c}
    OBVIOUS
  <2>4. Files!Becomes(Files!Rendered(v, cs, srv))
    BY <1>1, <2>1, <2>3, Zenon DEF Files!Answered
  <2>5. DOMAIN ui' = ExplorerFields /\ ui'.mount = v.mount /\ ui'.entries = v.entries
    BY <2>2, <2>4, FilesRendered, Zenon
  <2> QED BY <2>2, <2>5 DEF MountInv, Files!EntriesNeverLost
<1>2. CASE c.mount # ui.mount
  <2>1. ui' = [ui EXCEPT !.blocked = u.blocked]
    BY <1>2 DEF Files!Answered, Files!Becomes, Files!Page
  <2> QED BY <2>1 DEF MountInv, Files!EntriesNeverLost, ExplorerFields
<1> QED BY <1>1, <1>2

LEMMA FilesStep ==
    ASSUME MountInv, Files!Next
    PROVE  MountInv' /\ Files!EntriesNeverLost
<1>0. DOMAIN ui = ExplorerFields /\ ui.mount \in Nat
  BY DEF MountInv
<1>1. ASSUME NEW p, Files!navigateTo(p) PROVE MountInv' /\ Files!EntriesNeverLost
  <2>1. PICK u : u = Files!Visited(ui, p)
    OBVIOUS
  <2>2. DOMAIN u = ExplorerFields /\ u.mount = ui.mount /\ u.entries = ui.entries
    BY <1>0, <2>1 DEF Files!Visited, ExplorerFields
  <2>3. Files!Moved(u)
    BY <1>1, <2>1, Zenon DEF Files!navigateTo
  <2> QED BY <1>0, <2>2, <2>3, FilesMoved
<1>2. CASE Files!goBack
  <2>1. PICK u : u = [ui EXCEPT !.back = SubSeq(@, 1, Len(@) - 1), !.fwd = Append(@, ui.cur),
                              !.cur = ui.back[Len(ui.back)], !.sel = Files!None]
    OBVIOUS
  <2>2. DOMAIN u = ExplorerFields /\ u.mount = ui.mount /\ u.entries = ui.entries
    BY <1>0, <2>1 DEF ExplorerFields
  <2>3. Files!Moved(u)
    BY <1>2, <2>1 DEF Files!goBack
  <2> QED BY <1>0, <2>2, <2>3, FilesMoved
<1>3. CASE Files!goForward
  <2>1. PICK u : u = [ui EXCEPT !.fwd = SubSeq(@, 1, Len(@) - 1), !.back = Append(@, ui.cur),
                              !.cur = ui.fwd[Len(ui.fwd)], !.sel = Files!None]
    OBVIOUS
  <2>2. DOMAIN u = ExplorerFields /\ u.mount = ui.mount /\ u.entries = ui.entries
    BY <1>0, <2>1 DEF ExplorerFields
  <2>3. Files!Moved(u)
    BY <1>3, <2>1 DEF Files!goForward
  <2> QED BY <1>0, <2>2, <2>3, FilesMoved
<1>4. CASE Files!SelectEntry
  BY <1>0, <1>4 DEF Files!SelectEntry, MountInv, Files!EntriesNeverLost, ExplorerFields
<1>5. CASE Files!LoadNow
  <2>1. PICK u : u = [ui EXCEPT !.moves = @ + 1]
    OBVIOUS
  <2>2. DOMAIN u = ExplorerFields /\ u.mount = ui.mount /\ u.entries = ui.entries
    BY <1>0, <2>1 DEF ExplorerFields
  <2>3. ui' = Files!hydratePath(u, calls, server, ui.cur).ui
    BY <1>5, <2>1, Zenon DEF Files!LoadNow, Files!Becomes
  <2>4. PICK a, g, p, e, x, y :
           Files!hydratePath(u, calls, server, ui.cur)
             = [ui |-> [u EXCEPT !.attempted = a, !.gate = g, !.hydrating = p, !.error = e], calls |-> x, server |-> y]
    BY Zenon DEF Files!hydratePath, Files!Page
  <2>5. ui' = [u EXCEPT !.attempted = a, !.gate = g, !.hydrating = p, !.error = e]
    BY <2>3, <2>4
  <2> QED BY <1>0, <2>2, <2>5 DEF MountInv, Files!EntriesNeverLost, ExplorerFields
<1>6. CASE Files!Reopen
  <2>1. PICK w : w = [ui EXCEPT !.mount = @ + 1]
    OBVIOUS
  <2>2. DOMAIN w = ExplorerFields /\ w.mount = ui.mount + 1
    BY <1>0, <2>1 DEF ExplorerFields
  <2>3. PICK u : u = Files!Booted(w)
    OBVIOUS
  <2>4. DOMAIN u = ExplorerFields /\ u.mount = w.mount
    BY <2>2, <2>3, FilesBooted
  <2>5. Files!Moved(u)
    BY <1>6, <2>1, <2>3, Zenon DEF Files!Reopen
  <2> QED BY <1>0, <2>2, <2>4, <2>5, FilesMoved
<1>7. CASE Files!GateLapses
  BY <1>0, <1>7 DEF Files!GateLapses, MountInv, Files!EntriesNeverLost, ExplorerFields
<1>8. ASSUME NEW c \in calls, Files!BrowseAccepted(c) PROVE MountInv' /\ Files!EntriesNeverLost
  BY <1>8 DEF Files!BrowseAccepted, MountInv, Files!EntriesNeverLost
<1>9. ASSUME NEW c \in calls, Files!BrowseRefused(c) PROVE MountInv' /\ Files!EntriesNeverLost
  <2>1. PICK e, b, u : u = [ui EXCEPT !.error = e, !.blocked = b] /\ Files!Answered(c, u, Files!Failed)
    BY <1>9, Zenon DEF Files!BrowseRefused
  <2>2. DOMAIN u = ExplorerFields /\ u.mount = ui.mount /\ u.entries = ui.entries
    BY <1>0, <2>1 DEF ExplorerFields
  <2>3. PICK srv : srv = Files!Failed
    OBVIOUS
  <2>4. Files!Answered(c, u, srv)
    BY <2>1, <2>3, Zenon
  <2> QED BY <2>2, <2>4, FilesAnswered
<1>10. ASSUME NEW c \in calls, Files!BrowseCompleted(c) \/ Files!BrowseEmpty(c)
      PROVE  MountInv' /\ Files!EntriesNeverLost
  <2>1. PICK incoming, srv, u : u = Files!Merged(ui, c, incoming) /\ Files!Answered(c, u, srv)
    BY <1>10, Zenon DEF Files!BrowseCompleted, Files!BrowseEmpty
  <2>2. DOMAIN u = ExplorerFields /\ u.mount = ui.mount /\ ui.entries \subseteq u.entries
    BY <1>0, <2>1 DEF ExplorerFields, Files!Merged
  <2> QED BY <2>1, <2>2, FilesAnswered
<1> QED BY <1>1, <1>2, <1>3, <1>4, <1>5, <1>6, <1>7, <1>8, <1>9, <1>10, Zenon
        DEF Files!Next, Files!Navigate, Files!goUp, Files!BrowseStep

LEMMA FilesStarts == Files!Init => MountInv
<1> SUFFICES ASSUME Files!Init PROVE MountInv
  OBVIOUS
<1>1. PICK s \in Files!Snapshots, partial \in BOOLEAN, auto \in BOOLEAN :
         ui = Files!Rendered(Files!Mounted(s, partial, auto), {}, Files!Unasked).ui
  BY Zenon DEF Files!Init
<1>2. PICK e : e = FALSE
  BY Zenon
<1>3. PICK w : w = [snapshot |-> s, partial |-> partial, auto |-> auto, mount |-> 0, moves |-> 0,
                    entries |-> {}, cur |-> Files!root, sel |-> Files!None, back |-> <<>>, fwd |-> <<>>,
                    hydrating |-> Files!None, error |-> e, hydrated |-> {}, attempted |-> {},
                    gate |-> {}, blocked |-> {}]
  BY Zenon
<1>4. DOMAIN w = ExplorerFields /\ w.mount = 0
  BY <1>3 DEF ExplorerFields
<1>5. PICK u : u = Files!Booted(w)
  OBVIOUS
<1>6. DOMAIN u = ExplorerFields /\ u.mount = 0
  BY <1>4, <1>5, FilesBooted
<1>7. Files!Mounted(s, partial, auto) = u
  BY <1>2, <1>3, <1>5, Zenon DEF Files!Mounted
<1>8. ui = Files!Rendered(u, {}, Files!Unasked).ui
  BY <1>1, <1>7, Zenon
<1>9. CASE ui = u
  BY <1>6, <1>9 DEF MountInv
<1>10. CASE ui = Files!hydratePath(u, {}, Files!Unasked, u.cur).ui
  <2>1. PICK a, g, p, x, y, f :
           Files!hydratePath(u, {}, Files!Unasked, u.cur)
             = [ui |-> [u EXCEPT !.attempted = a, !.gate = g, !.hydrating = p, !.error = f], calls |-> x, server |-> y]
    BY Zenon DEF Files!hydratePath, Files!Page
  <2>2. ui = [u EXCEPT !.attempted = a, !.gate = g, !.hydrating = p, !.error = f]
    BY <1>10, <2>1
  <2> QED BY <1>6, <2>2 DEF MountInv, ExplorerFields
<1>11. ui = u \/ ui = Files!hydratePath(u, {}, Files!Unasked, u.cur).ui
  <2>1. CASE Files!WantsContents(u) /\ Files!MayHydrate(u, u.cur)
    BY <1>8, <2>1, Zenon DEF Files!Rendered
  <2>2. CASE ~(Files!WantsContents(u) /\ Files!MayHydrate(u, u.cur))
    <3>1. Files!Rendered(u, {}, Files!Unasked) = [ui |-> u, calls |-> {}, server |-> Files!Unasked]
      BY <2>2, Zenon DEF Files!Rendered, Files!Page
    <3> QED BY <1>8, <3>1
  <2> QED BY <2>1, <2>2
<1> QED BY <1>9, <1>10, <1>11

-----------------------------------------------------------------------------
(* The pages together *)

LoadInv ==
    /\ On("scheduling") => JobsInv
    /\ On("dashboard") => HomeInv
    /\ On("operator") => OperatorInv
    /\ On("queue") => QueueInv
    /\ On("files") => MountInv

\* What a step never takes back, whichever page is open.
TakesNothingBack ==
    /\ On("scheduling") => Jobs!HistoryGrows
    /\ On("dashboard") => Home!CommandsNeverLost
    /\ On("operator") => Operator!OperatorNeverGoesBack
    /\ On("queue") => Queue!EndsAreKept
    /\ On("files") => Files!EntriesNeverLost

LoadOrBrowse == (LoadStep \/ (On("files") /\ Files!Next)) /\ UNCHANGED view

LEMMA LoadStarts == LoadInit \/ (On("files") /\ Files!Init) => LoadInv
<1>1. CASE On("scheduling") /\ Jobs!Init
  BY <1>1, JobsStarts DEF LoadInv, On
<1>2. CASE On("dashboard") /\ Home!Init
  BY <1>2, HomeStarts DEF LoadInv, On
<1>3. CASE On("operator") /\ Operator!Init
  BY <1>3, OperatorStarts DEF LoadInv, On
<1>4. CASE On("queue") /\ Queue!Init
  BY <1>4, QueueStarts DEF LoadInv, On
<1>5. CASE On("files") /\ Files!Init
  BY <1>5, FilesStarts DEF LoadInv, On
<1> QED BY <1>1, <1>2, <1>3, <1>4, <1>5 DEF LoadInit

LEMMA LoadGoesOn ==
    ASSUME LoadInv, LoadOrBrowse
    PROVE  LoadInv' /\ TakesNothingBack
<1>1. view' = view
  BY DEF LoadOrBrowse
<1>2. CASE On("scheduling") /\ Jobs!Next
  <2>1. JobsInv' /\ Jobs!HistoryGrows
    BY <1>2, JobsStep DEF LoadInv
  <2> QED BY <1>1, <1>2, <2>1 DEF LoadInv, TakesNothingBack, On
<1>3. CASE On("dashboard") /\ Home!Next
  <2>1. HomeInv' /\ Home!CommandsNeverLost
    BY <1>3, HomeStep DEF LoadInv
  <2> QED BY <1>1, <1>3, <2>1 DEF LoadInv, TakesNothingBack, On
<1>4. CASE On("operator") /\ Operator!Next
  <2>1. OperatorInv' /\ Operator!OperatorNeverGoesBack
    BY <1>4, OperatorStep DEF LoadInv
  <2> QED BY <1>1, <1>4, <2>1 DEF LoadInv, TakesNothingBack, On
<1>5. CASE On("queue") /\ Queue!Next
  <2>1. QueueInv' /\ Queue!EndsAreKept
    BY <1>5, QueueStep DEF LoadInv
  <2> QED BY <1>1, <1>5, <2>1 DEF LoadInv, TakesNothingBack, On
<1>6. CASE On("files") /\ Files!Next
  <2>1. MountInv' /\ Files!EntriesNeverLost
    BY <1>6, FilesStep DEF LoadInv
  <2> QED BY <1>1, <1>6, <2>1 DEF LoadInv, TakesNothingBack, On
<1> QED BY <1>2, <1>3, <1>4, <1>5, <1>6, Zenon DEF LoadOrBrowse, LoadStep

\* A step that changes nothing keeps every page as it is.
LEMMA LoadStutters == ASSUME LoadInv, UNCHANGED vars PROVE LoadInv'
<1>1. view' = view /\ ui' = ui /\ server' = server /\ calls' = calls
  BY DEF vars
<1>2. JobsInv => JobsInv'
  BY <1>1 DEF JobsInv, JobsShape
<1>3. HomeInv => HomeInv'
  BY <1>1, Zenon DEF HomeInv, HomeShape, HomeData, HomeLoadInv, Home!Arrived
<1>4. OperatorInv => OperatorInv'
  BY <1>1 DEF OperatorInv, OperatorShape, OperatorLoadInv, Single
<1>5. QueueInv => QueueInv'
  BY <1>1 DEF QueueInv, QueueShape, QueueLoadInv, EndsAreTrue, Single, Numbered, Queue!Listed
<1>6. MountInv => MountInv'
  BY <1>1 DEF MountInv
<1> QED BY <1>1, <1>2, <1>3, <1>4, <1>5, <1>6 DEF LoadInv, On

\* The inductive invariant of the pages whose loads could overtake each other.
THEOREM LoadInvariance == LoadSpec => []LoadInv
<1>1. LoadInit \/ (On("files") /\ Files!Init) => LoadInv
  BY LoadStarts
<1>2. LoadInv /\ [LoadOrBrowse]_vars => LoadInv'
  BY LoadGoesOn, LoadStutters
<1> QED BY <1>1, <1>2, PTL DEF LoadSpec, LoadOrBrowse

\* The paging of the dashboard (fetchCommandsForDashboard) misses a command only
\* where another of its second is on the page before, or where it stops at
\* COMMAND_FETCH_MAX_PAGES: for every page size, number of pages, window and
\* queue of commands, with loads that fail or are aborted by the next one.
THEOREM MissedAreOnlyTies == LoadSpec => []MissedOnlyTies
<1>1. LoadInv => MissedOnlyTies
  BY HomeImplies DEF LoadInv, MissedOnlyTies
<1> QED BY <1>1, LoadInvariance, PTL

\* A load that was aborted or overtaken takes nothing back from the screen, on
\* any page that loads: one request is on its way at a time (the abort of the
\* one before), so what an answer shows was read after what it replaces.
THEOREM NothingEverGoesBack == LoadSpec => NothingGoesBack
<1>1. LoadInv /\ [LoadOrBrowse]_vars => [TakesNothingBack]_vars
  BY LoadGoesOn
<1> QED BY <1>1, LoadInvariance, PTL DEF LoadSpec, LoadOrBrowse, NothingGoesBack, TakesNothingBack
=============================================================================
