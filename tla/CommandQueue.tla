---------------------------- MODULE CommandQueue ----------------------------
(* The dispatch page (CommandDispatchContent.tsx) and its detail panel: the  *)
(* list of commands, the selection sent again in one go, a single command    *)
(* sent again from its row or its panel, and the dialog that loads the list  *)
(* when it closes.  A retry is a new command: it has a message id of its own.*)
EXTENDS Naturals, FiniteSets

CONSTANTS
    MaxCommands,   \* commands the control plane can hold; the first is there at the start
    MaxActs,       \* clicks that send a request
    MaxFailures,   \* requests that fail
    MaxOverruns    \* loads the timer overtakes

VARIABLES ui, server, calls

queueVars == <<ui, server, calls>>

Commands == 1 .. MaxCommands
NoCommand == [id |-> 0, state |-> "none"]
NoRows == [c \in Commands |-> "none"]
Listed(rows) == {c \in Commands : rows[c] # "none"}
NextId == Cardinality(Listed(server.rows)) + 1

CanFail == server.failures < MaxFailures
Failure == server' = [server EXCEPT !.failures = @ + 1]

-----------------------------------------------------------------------------
(* fetchCommands *)

\* Mutant: a load no longer aborts the one before it.
fetchCommandsBeside(c, mode) == [c EXCEPT !.loads = @ \cup {[mode |-> mode, phase |-> "sent", rows |-> NoRows]}]

fetchCommands(c, mode) == [c EXCEPT !.loads = {[mode |-> mode, phase |-> "sent", rows |-> NoRows]}]

\* What a load makes of the page that it overtakes: an aborted load ends only
\* its own spinner, and the first one sets the loading screen.
Reloading(u, mode) ==
    [u EXCEPT !.loading = mode = "initial" \/ (@ /\ \A l \in calls.loads : l.mode # "initial")]

LoadRead(l) ==
    LET Becomes(r) == calls' = [calls EXCEPT !.loads = (@ \ {l}) \cup {r}] IN
    /\ l.phase = "sent"
    /\ \/ UNCHANGED server /\ Becomes([l EXCEPT !.phase = "ok", !.rows = server.rows])
       \/ CanFail /\ Failure /\ Becomes([l EXCEPT !.phase = "failed"])
    /\ UNCHANGED ui

\* A first load that fails empties the list; the selection stays.
LoadAnswer(l) ==
    /\ \/ /\ l.phase = "ok"
          /\ ui' = [ui EXCEPT !.rows = l.rows, !.selected = @ \cap Listed(l.rows), !.error = FALSE,
                              !.loading = @ /\ l.mode # "initial"]
       \/ /\ l.phase = "failed"
          /\ ui' = [ui EXCEPT !.rows = IF l.mode = "initial" THEN NoRows ELSE @, !.error = TRUE,
                              !.loading = @ /\ l.mode # "initial"]
    /\ calls' = [calls EXCEPT !.loads = @ \ {l}]
    /\ UNCHANGED server

LoadStep == \E l \in calls.loads : LoadRead(l) \/ LoadAnswer(l)

\* The timer, every 10 s or, hidden, 30 s.
Poll ==
    /\ calls.loads = {} \/ ui.overruns < MaxOverruns
    /\ ui' = Reloading([ui EXCEPT !.overruns = IF calls.loads = {} THEN @ ELSE @ + 1], "silent")
    /\ calls' = fetchCommands(calls, "silent")
    /\ UNCHANGED server

-----------------------------------------------------------------------------
(* The page *)

\* The panel's backdrop covers the page.
Uncovered == ui.panel = NoCommand
Acting(u) == ui.acts < MaxActs /\ ui' = [u EXCEPT !.acts = @ + 1]

RefreshButton ==
    /\ Uncovered /\ Acting(Reloading(ui, "refresh"))
    /\ calls' = fetchCommands(calls, "refresh")
    /\ UNCHANGED server

\* The dialog may have queued a command; closing it loads the page anew.
CloseDispatchModal ==
    /\ Uncovered /\ Acting(Reloading(ui, "initial"))
    /\ server' \in {server} \cup {[server EXCEPT !.rows[c] = "queued"] : c \in {NextId} \cap Commands}
    /\ calls' = fetchCommands(calls, "initial")

Rows == Uncovered /\ ~ui.loading

toggleSelect(c) ==
    /\ Rows /\ c \in Listed(ui.rows)
    /\ ui' = [ui EXCEPT !.selected = IF c \in @ THEN @ \ {c} ELSE @ \cup {c}]
    /\ UNCHANGED <<server, calls>>

\* The header's box; it compares the sizes of the selection and of the list.
SelectAll ==
    /\ Uncovered
    /\ LET all == Listed(ui.rows) IN
       ui' = [ui EXCEPT !.selected = IF Cardinality(@) = Cardinality(all) THEN {} ELSE all]
    /\ UNCHANGED <<server, calls>>

ClearSelection == Uncovered /\ ui' = [ui EXCEPT !.selected = {}] /\ UNCHANGED <<server, calls>>

\* The panel keeps the row it was opened with.
OpenPanel(c) ==
    /\ Rows /\ c \in Listed(ui.rows)
    /\ ui' = [ui EXCEPT !.panel = [id |-> c, state |-> ui.rows[c]]]
    /\ UNCHANGED <<server, calls>>

ClosePanel == ~Uncovered /\ ui' = [ui EXCEPT !.panel = NoCommand] /\ UNCHANGED <<server, calls>>

-----------------------------------------------------------------------------
(* Retries *)

Post(of, c) == [n |-> ui.acts, of |-> of, id |-> c, phase |-> "sent"]

\* Whatever the states of the selected commands; the rows are those of the list.
retrySelected ==
    /\ Uncovered /\ ui.selected # {} /\ ~ui.retrying
    /\ Acting([ui EXCEPT !.retrying = TRUE])
    /\ calls' = [calls EXCEPT !.posts = @ \cup {Post("selection", c) : c \in ui.selected \cap Listed(ui.rows)}]
    /\ UNCHANGED server

\* On a row or in the panel, for a command shown as failed.
retrySingle(c) ==
    /\ IF Uncovered THEN Rows /\ ui.rows[c] = "failed" ELSE ui.panel = [id |-> c, state |-> "failed"]
    /\ Acting(ui)
    /\ calls' = [calls EXCEPT !.posts = @ \cup {Post("row", c)}]
    /\ UNCHANGED server

\* A lost answer counts as a failure, also when the command was queued.
dispatchRetry(p) ==
    LET Answer(how) == calls' = [calls EXCEPT !.posts = (@ \ {p}) \cup {[p EXCEPT !.phase = how]}]
        queued == [server EXCEPT !.rows[NextId] = "queued", !.retries = @ + 1]
    IN /\ p.phase = "sent"
       /\ \/ NextId \in Commands /\ server' = queued /\ Answer("ok")
          \/ CanFail /\ Failure /\ Answer("failed")
          \/ NextId \in Commands /\ CanFail /\ server' = [queued EXCEPT !.failures = @ + 1] /\ Answer("failed")
          \/ NextId \notin Commands /\ UNCHANGED server /\ Answer("failed")
       /\ UNCHANGED ui

\* Every post of the selection is waited for.
SelectionRetried ==
    LET posts == {p \in calls.posts : p.of = "selection"} IN
    /\ ui.retrying /\ \A p \in posts : p.phase # "sent"
    /\ ui' = Reloading([ui EXCEPT !.retrying = FALSE, !.selected = {},
                                  !.retried = @ + Cardinality({p \in posts : p.phase = "ok"})], "refresh")
    /\ calls' = fetchCommands([calls EXCEPT !.posts = @ \ posts], "refresh")
    /\ UNCHANGED server

\* Mutant: a retry is reported whatever the answer.
RowRetriedAnyway == \E p \in calls.posts :
    /\ p.of = "row" /\ p.phase # "sent"
    /\ ui' = Reloading([ui EXCEPT !.retried = @ + 1], "refresh")
    /\ calls' = fetchCommands([calls EXCEPT !.posts = @ \ {p}], "refresh")
    /\ UNCHANGED server

RowRetried == \E p \in calls.posts :
    /\ p.of = "row" /\ p.phase # "sent"
    /\ ui' = Reloading([ui EXCEPT !.retried = IF p.phase = "ok" THEN @ + 1 ELSE @], "refresh")
    /\ calls' = fetchCommands([calls EXCEPT !.posts = @ \ {p}], "refresh")
    /\ UNCHANGED server

PostStep == SelectionRetried \/ RowRetried \/ \E p \in calls.posts : dispatchRetry(p)

-----------------------------------------------------------------------------
\* A command runs to its end.
CommandEnds(c) ==
    /\ server.rows[c] = "queued"
    /\ \E s \in {"completed", "failed"} : server' = [server EXCEPT !.rows[c] = s]
    /\ UNCHANGED <<ui, calls>>

Init ==
    /\ ui = [rows |-> NoRows, loading |-> TRUE, error |-> FALSE, selected |-> {}, retrying |-> FALSE,
             panel |-> NoCommand, retried |-> 0, acts |-> 0, overruns |-> 0]
    /\ server = [rows |-> [NoRows EXCEPT ![1] = "failed"], retries |-> 0, failures |-> 0]
    /\ calls = [loads |-> {[mode |-> "initial", phase |-> "sent", rows |-> NoRows]}, posts |-> {}]

Next ==
    \/ LoadStep \/ Poll \/ RefreshButton \/ CloseDispatchModal \/ ClosePanel \/ SelectAll \/ ClearSelection \/ retrySelected \/ PostStep
    \/ \E c \in Commands : toggleSelect(c) \/ OpenPanel(c) \/ retrySingle(c) \/ CommandEnds(c)

FairStep(i) ==
    \/ i = 1 /\ LoadStep
    \/ i = 2 /\ Poll
    \/ i = 3 /\ PostStep

Spec == Init /\ [][Next]_queueVars /\ \A i \in 1 .. 3 : WF_queueVars(FairStep(i))

-----------------------------------------------------------------------------
(* Properties *)

\* Every retry the page reports as queued is a command the control plane has,
\* and without failures it reports all of them once the posts are answered.
RetriesAreBacked ==
    /\ ui.retried <= server.retries
    /\ server.failures = 0 /\ calls.posts = {} => ui.retried = server.retries

\* A command that has ended is never shown as queued again, by a load that was
\* read before another one answered.
EndsAreKept ==
    \A c \in Commands : ui.rows[c] \in {"completed", "failed"} => ui'.rows[c] \in {ui.rows[c], "none"}

\* The Retry All button comes back, whatever became of the posts.
RetryRests == ~ui.retrying

\* The list ends up as the control plane has it, selection included: what a
\* failed reload left selected is listed again or gone.
QueueAgrees ==
    ui.rows = server.rows /\ ~ui.loading /\ ~ui.error /\ ui.selected \subseteq Listed(ui.rows)
=============================================================================
