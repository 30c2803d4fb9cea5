------------------------------ MODULE Dashboard -----------------------------
(* The data of the admin dashboard (useDashboardData.ts): four fetches that  *)
(* settle on their own, the commands page by page with a queued_at cursor    *)
(* (CommandQueryController::index), a timer, and loads that abort the load   *)
(* before.  Command i was queued in second server.queued[i].                 *)
EXTENDS Naturals, Sequences, FiniteSets

CONSTANTS
    Queues,        \* the seconds in which the first commands were queued
    LastSecond,    \* when the last command may be queued
    MaxCommands,
    PageSize,      \* PAGE_SIZE
    MaxPages,      \* COMMAND_FETCH_MAX_PAGES
    WindowStart,   \* the second in which COMMAND_WINDOW_DAYS began
    MaxFailures,   \* fetches that fail
    MaxOverruns    \* loads aborted by the next one before they end

VARIABLES ui, server, calls

dashboardVars == <<ui, server, calls>>

Parts == {"devices", "alerts", "audit"}   \* fetched in one go
Never == LastSecond + 1

CanFail == server.failures < MaxFailures
Failure == server' = [server EXCEPT !.failures = @ + 1]
Arrived == Len(server.queued)

-----------------------------------------------------------------------------
(* The commands, newest first, a page at a time *)

Newer(i, j) == server.queued[i] > server.queued[j] \/ (server.queued[i] = server.queued[j] /\ i > j)
Before(t) == {i \in 1 .. Arrived : server.queued[i] < t}
Page(t) == {i \in Before(t) : Cardinality({j \in Before(t) : Newer(j, i)}) < PageSize}
Oldest(rows) == server.queued[CHOOSE i \in rows : \A j \in rows : i = j \/ Newer(j, i)]

\* Mutant: the cursor is a second too early.
fetchCommandsSkipping(l) ==
    LET rows == Page(l.before)
        ended == rows = {} \/ l.pages + 1 = MaxPages \/ Oldest(rows) < WindowStart
    IN [l EXCEPT !.commands = IF ended THEN "ok" ELSE "sent", !.rows = @ \cup rows, !.pages = @ + 1,
                 !.before = IF rows = {} THEN @ ELSE Oldest(rows) - 1]

\* The next page of a load; it is the last when it is empty, reaches back
\* before the window, or is page MaxPages.
fetchCommands(l) ==
    LET rows == Page(l.before)
        ended == rows = {} \/ l.pages + 1 = MaxPages \/ Oldest(rows) < WindowStart
    IN [l EXCEPT !.commands = IF ended THEN "ok" ELSE "sent", !.rows = @ \cup rows, !.pages = @ + 1,
                 !.before = IF rows = {} THEN @ ELSE Oldest(rows)]

-----------------------------------------------------------------------------
(* load *)

NewLoad == [parts |-> [p \in Parts |-> "sent"], commands |-> "sent", rows |-> {}, pages |-> 0,
            before |-> Never, known |-> Arrived, log |-> 0]

\* Mutant: a load no longer aborts the one before it.
loadBeside(c) == [c EXCEPT !.loads = @ \cup {NewLoad}]

load(c) == [c EXCEPT !.loads = {NewLoad}]

Becomes(l, r) == calls' = [calls EXCEPT !.loads = (@ \ {l}) \cup {r}] /\ UNCHANGED ui

FetchPart(l, p) ==
    /\ l.parts[p] = "sent"
    /\ \/ UNCHANGED server
          /\ Becomes(l, [l EXCEPT !.parts[p] = "ok", !.log = IF p = "audit" THEN Arrived ELSE @])
       \/ CanFail /\ Failure /\ Becomes(l, [l EXCEPT !.parts[p] = "failed"])

FetchCommands(l) ==
    /\ l.commands = "sent"
    /\ \/ UNCHANGED server /\ Becomes(l, fetchCommands(l))
       \/ CanFail /\ Failure /\ Becomes(l, [l EXCEPT !.commands = "failed", !.rows = {}])

\* buildSnapshot gets [] for what failed, and makes up the audit entries from
\* commands and alerts when the audit log is what failed.
Snapshot(l) ==
    [devices |-> l.parts["devices"] = "ok", alerts |-> l.parts["alerts"] = "ok",
     commands |-> l.rows, capped |-> l.pages = MaxPages, known |-> l.known,
     audit |-> IF l.parts["audit"] = "ok" THEN l.log ELSE Cardinality(l.rows)]

\* allSettled: setErrors, setData, and both flags cleared.
Settle(l) ==
    /\ \A p \in Parts : l.parts[p] # "sent"
    /\ l.commands # "sent"
    /\ ui' = [ui EXCEPT !.errors = {p \in Parts : l.parts[p] = "failed"}
                                   \cup (IF l.commands = "failed" THEN {"commands"} ELSE {}),
                        !.data = Snapshot(l), !.loading = FALSE, !.refreshing = FALSE]
    /\ calls' = [calls EXCEPT !.loads = @ \ {l}]
    /\ UNCHANGED server

LoadStep == \E l \in calls.loads : Settle(l) \/ FetchCommands(l) \/ \E p \in Parts : FetchPart(l, p)

\* The timer of 30 s and the Refresh button: load('refresh').
Refresh ==
    /\ calls.loads = {} \/ ui.overruns < MaxOverruns
    /\ ui' = [ui EXCEPT !.refreshing = TRUE, !.overruns = IF calls.loads = {} THEN @ ELSE @ + 1]
    /\ calls' = load(calls)
    /\ UNCHANGED server

CommandQueued ==
    /\ Arrived < MaxCommands
    /\ \E t \in 0 .. LastSecond :
          /\ \A i \in 1 .. Arrived : server.queued[i] <= t
          /\ server' = [server EXCEPT !.queued = Append(@, t)]
    /\ UNCHANGED <<ui, calls>>

-----------------------------------------------------------------------------
EMPTY_SNAPSHOT == [devices |-> FALSE, alerts |-> FALSE, commands |-> {}, capped |-> FALSE, known |-> 0, audit |-> 0]

Init ==
    /\ \E q \in Queues : server = [queued |-> q, failures |-> 0]
    /\ ui = [data |-> EMPTY_SNAPSHOT, errors |-> {}, loading |-> TRUE, refreshing |-> FALSE, overruns |-> 0]
    /\ calls = [loads |-> {NewLoad}]

Next == LoadStep \/ Refresh \/ CommandQueued

FairStep(i) ==
    \/ i = 1 /\ LoadStep
    \/ i = 2 /\ Refresh

Spec == Init /\ [][Next]_dashboardVars /\ \A i \in 1 .. 2 : WF_dashboardVars(FairStep(i))

-----------------------------------------------------------------------------
(* Properties *)

\* A command the KPIs and charts miss, though it was queued before the load and
\* in the window, was queued in the same second as one they show (the cursor is
\* strict and has a second's precision), or lies behind COMMAND_FETCH_MAX_PAGES.
\* Commands that arrive between two pages push nothing out.
MissedOnlyTies ==
    ~ui.loading /\ "commands" \notin ui.errors =>
        \A i \in (1 .. ui.data.known) \ ui.data.commands :
            \/ ui.data.capped
            \/ server.queued[i] < WindowStart
            \/ \E j \in ui.data.commands : server.queued[j] = server.queued[i]

\* Commands never disappear from the dashboard while no fetch fails: an aborted
\* load returns before setData, so an older answer never replaces a newer one.
CommandsNeverLost == ui'.errors = {} => ui.data.known <= ui'.data.known

\* The dashboard ends up with every command known, without errors and with no
\* flag set, as long as not every load is overtaken by the next one.
DashboardCatchesUp ==
    /\ ui.errors = {} /\ ~ui.loading
    /\ ui.data.known = Arrived /\ ui.data.audit = Arrived

\* The spinner of the Refresh button stops, also when the load it was for is
\* aborted: its early return skips the flag, and the next load clears it.
RefreshEnds == ~ui.refreshing
=============================================================================
