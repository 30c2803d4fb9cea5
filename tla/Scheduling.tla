----------------------------- MODULE Scheduling -----------------------------
(* The scheduling page (CommandSchedulingContent.tsx).  Every load aborts    *)
(* the one before it; a timer loads the page again and the handlers do after *)
(* their call.  ui is the page, server the schedules and their runs, calls   *)
(* the load and the handlers' requests under way.                            *)
EXTENDS Naturals

CONSTANTS
    MaxActs,      \* handlers used in one visit
    MaxFailures,  \* calls answered by an error or not at all
    MaxOverruns   \* loads a poll overtakes: the timer does not wait for them

VARIABLES ui, server, calls

schedulingVars == <<ui, server, calls>>

Ids == 1 .. 2                    \* one schedule at first, and one to create
NoJob == 0
Slots == 1 .. MaxActs
Idle == [phase |-> "idle"]
Data == [jobs |-> server.jobs, runs |-> server.runs]
Listed(jobs) == {j \in Ids : jobs[j] # "gone"}
mapScheduleStatus(enabled) == IF enabled THEN "active" ELSE "paused"

CanFail == server.failures < MaxFailures
Failure == server' = [server EXCEPT !.failures = @ + 1]

-----------------------------------------------------------------------------
(* loadData *)

\* Mutant: a load no longer aborts the one before it.
loadDataBeside(c, mode) == [c EXCEPT !.loads = @ \cup {[phase |-> "sent", mode |-> mode]}]

\* A load aborts the one under way, whose finally block ends the loading screen.
loadData(c, mode) == [c EXCEPT !.loads = {[phase |-> "sent", mode |-> mode]}]
Aborting(u) == [u EXCEPT !.loading = FALSE]

\* The four reads answer as one; schedules and runs must both be there.
LoadRead(l) ==
    LET Becomes(r) == calls' = [calls EXCEPT !.loads = (@ \ {l}) \cup {r}] IN
    /\ l.phase = "sent"
    /\ \/ UNCHANGED server /\ Becomes([phase |-> "ok", mode |-> l.mode, data |-> Data])
       \/ CanFail /\ Failure /\ Becomes([phase |-> "failed", mode |-> l.mode])
    /\ UNCHANGED ui

\* Mutant: the selection survives the schedule.
LoadAnswerKeepsSelection(l) ==
    /\ \/ /\ l.phase = "ok"
          /\ ui' = [ui EXCEPT !.jobs = l.data.jobs, !.runs = l.data.runs, !.error = FALSE, !.loading = FALSE]
       \/ /\ l.phase = "failed"
          /\ ui' = IF l.mode = "initial"
                   THEN [ui EXCEPT !.jobs = [j \in Ids |-> "gone"], !.runs = 0, !.error = TRUE, !.loading = FALSE]
                   ELSE [ui EXCEPT !.error = TRUE]
    /\ calls' = [calls EXCEPT !.loads = @ \ {l}]
    /\ UNCHANGED server

LoadAnswer(l) ==
    /\ \/ /\ l.phase = "ok"
          /\ ui' = [ui EXCEPT !.jobs = l.data.jobs, !.runs = l.data.runs, !.error = FALSE, !.loading = FALSE,
                              !.selected = IF @ \in Listed(l.data.jobs) THEN @ ELSE NoJob]
       \/ /\ l.phase = "failed"
          /\ ui' = IF l.mode = "initial"
                   THEN [ui EXCEPT !.jobs = [j \in Ids |-> "gone"], !.runs = 0, !.error = TRUE, !.loading = FALSE]
                   ELSE [ui EXCEPT !.error = TRUE]
    /\ calls' = [calls EXCEPT !.loads = @ \ {l}]
    /\ UNCHANGED server

LoadStep == \E l \in calls.loads : LoadRead(l) \/ LoadAnswer(l)

\* The timer, every 10 s or, hidden, 30 s.
Poll ==
    /\ \/ calls.loads = {} /\ ui' = ui
       \/ calls.loads # {} /\ ui.overruns < MaxOverruns
          /\ ui' = Aborting([ui EXCEPT !.overruns = @ + 1])
    /\ calls' = loadData(calls, "silent")
    /\ UNCHANGED server

-----------------------------------------------------------------------------
(* The page *)

Click(u) == ui.acts < MaxActs /\ ui' = [u EXCEPT !.acts = @ + 1]

RefreshButton ==
    /\ Click(Aborting(ui))
    /\ calls' = loadData(calls, "refresh")
    /\ UNCHANGED server

\* A card of the jobs tab; a second click on it closes the details.
SelectJob(j) ==
    /\ ~ui.loading /\ j \in Listed(ui.jobs)
    /\ ui' = [ui EXCEPT !.selected = IF @ = j THEN NoJob ELSE j]
    /\ UNCHANGED <<server, calls>>

Sent(kind, j) == [calls EXCEPT !.ops[ui.acts + 1] = [phase |-> "sent", kind |-> kind, id |-> j]]
Detail(j) == ~ui.loading /\ j # NoJob /\ ui.selected = j

toggleJobStatus(j) ==
    /\ Detail(j) /\ Click(ui)
    /\ calls' = Sent(IF ui.jobs[j] = mapScheduleStatus(TRUE) THEN "pause" ELSE "resume", j)
    /\ UNCHANGED server

deleteJob(j) == Detail(j) /\ Click(ui) /\ calls' = Sent("delete", j) /\ UNCHANGED server

\* The page is loaded again at once, not when the run was accepted.
runNow(j) ==
    /\ Detail(j) /\ Click(Aborting(ui))
    /\ calls' = loadData(Sent("run", j), "refresh")
    /\ UNCHANGED server

ToggleModal == ui' = [ui EXCEPT !.modal = ~@] /\ UNCHANGED <<server, calls>>

createSchedule ==
    /\ ui.modal /\ ~ui.saving /\ server.jobs[2] = "gone"
    /\ Click([ui EXCEPT !.saving = TRUE])
    /\ calls' = Sent("create", 2)
    /\ UNCHANGED server

-----------------------------------------------------------------------------
(* The calls of the handlers *)

\* A schedule that is gone, and one created meanwhile, are answered by an error.
Stored(op) ==
    CASE op.kind = "create" -> [server EXCEPT !.jobs[op.id] = mapScheduleStatus(TRUE)]
      [] op.kind = "delete" -> [server EXCEPT !.jobs[op.id] = "gone"]
      [] op.kind = "run"    -> [server EXCEPT !.runs = @ + 1]
      [] OTHER -> [server EXCEPT !.jobs[op.id] = mapScheduleStatus(op.kind = "resume")]

Answered(s, how) == calls' = [calls EXCEPT !.ops[s].phase = how]
Serve(s) ==
    LET op == calls.ops[s]
        gone == server.jobs[op.id] = "gone"
    IN /\ op.phase = "sent"
       /\ \/ gone = (op.kind = "create") /\ server' = Stored(op) /\ Answered(s, "ok")
          \/ gone # (op.kind = "create") /\ UNCHANGED server /\ Answered(s, "failed")
          \/ CanFail /\ Failure /\ Answered(s, "failed")             \* refused, or lost on its way
          \/ CanFail /\ gone = (op.kind = "create") /\ Answered(s, "failed")
             /\ server' = [Stored(op) EXCEPT !.failures = @ + 1]     \* done, and the answer lost
       /\ UNCHANGED ui

\* The id deleted is the one the handler's own render had selected, so whatever
\* is selected now is deselected.
Settled(op) ==
    IF op.kind = "create" THEN [ui EXCEPT !.saving = FALSE, !.modal = @ /\ op.phase # "ok"]
    ELSE IF op.kind = "delete" /\ op.phase = "ok" THEN [ui EXCEPT !.selected = NoJob] ELSE ui

OpAnswer(s) ==
    LET op == calls.ops[s]
        done == [calls EXCEPT !.ops[s] = Idle]
        again == op.phase = "ok" /\ op.kind # "run"
    IN /\ op.phase \in {"ok", "failed"}
       /\ ui' = IF again THEN Aborting(Settled(op)) ELSE Settled(op)
       /\ calls' = IF again THEN loadData(done, "refresh") ELSE done
       /\ UNCHANGED server

-----------------------------------------------------------------------------
Init ==
    /\ ui = [jobs |-> [j \in Ids |-> "gone"], runs |-> 0, selected |-> NoJob, loading |-> TRUE, error |-> FALSE,
             modal |-> FALSE, saving |-> FALSE, acts |-> 0, overruns |-> 0]
    /\ server = [jobs |-> [j \in Ids |-> IF j = 1 THEN "active" ELSE "gone"], runs |-> 1, failures |-> 0]
    /\ calls = [loads |-> {[phase |-> "sent", mode |-> "initial"]}, ops |-> [s \in Slots |-> Idle]]

Next ==
    \/ LoadStep \/ Poll \/ RefreshButton
    \/ \E j \in Ids : SelectJob(j) \/ toggleJobStatus(j) \/ deleteJob(j) \/ runNow(j)
    \/ ToggleModal \/ createSchedule
    \/ \E s \in Slots : Serve(s) \/ OpAnswer(s)

\* Requests end, and the timer of a page that is open fires.
FairStep(i) ==
    \/ i = 1 /\ LoadStep
    \/ i = 2 /\ (\E s \in Slots : Serve(s) \/ OpAnswer(s))
    \/ i = 3 /\ Poll

Spec == Init /\ [][Next]_schedulingVars /\ \A i \in 1 .. 3 : WF_schedulingVars(FairStep(i))

-----------------------------------------------------------------------------
(* Properties *)

\* Details are shown of a schedule that is listed: whatever loads, deletions and
\* clicks came in whatever order, selectedJob is never a schedule the list lost.
SelectionIsListed == ui.selected # NoJob => ui.selected \in Listed(ui.jobs)

\* The run history never goes back: loads abort their predecessors, so no answer
\* read before a run shows up after the run did (a failed first load, which
\* empties the page, comes before anything was shown).
HistoryGrows == ui'.runs >= ui.runs

\* The page ends up showing the schedules and runs there are, without an error,
\* though runNow reloads before its run exists and answers get lost: the timer
\* makes up for it, as long as not every load is overtaken by the next.
PageAgrees == ~ui.loading /\ ~ui.error /\ ui.jobs = server.jobs /\ ui.runs = server.runs
=============================================================================
