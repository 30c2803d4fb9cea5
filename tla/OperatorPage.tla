---------------------------- MODULE OperatorPage ----------------------------
(* The operator console (OperatorDashboard.tsx): four fetches that settle on *)
(* their own and keep what they had on failure, loads that abort the load    *)
(* before, alerts acknowledged locally after the post, and the reloads after *)
(* a dispatched command or a paired device.                                  *)
EXTENDS Naturals

CONSTANTS
    MaxActs,       \* clicks, and commands or devices that come from a dialog
    MaxFailures,   \* requests that fail
    MaxOverruns    \* loads the timer overtakes

VARIABLES ui, server, calls

operatorVars == <<ui, server, calls>>

Parts == {"commands", "alerts"}      \* devices and capabilities go the same way
Alerts == 1 .. 2
NoAlert == [a \in Alerts |-> "unknown"]

CanFail == server.failures < MaxFailures
Failure == server' = [server EXCEPT !.failures = @ + 1]

-----------------------------------------------------------------------------
(* fetchDashboardData *)

NewLoad(mode) == [mode |-> mode, parts |-> [p \in Parts |-> "sent"], commands |-> 0, alerts |-> NoAlert]

\* A part that came in is shown, one that did not stays as it was.
Shown(u, l) ==
    [u EXCEPT !.commands = IF l.parts["commands"] = "ok" THEN l.commands ELSE @,
              !.alerts = IF l.parts["alerts"] = "ok" THEN l.alerts ELSE @]
Ended(u, l) == [u EXCEPT !.loading = @ /\ l.mode # "initial"]

\* Aborting a load settles it: its pending parts reject, and unless reading a
\* part throws AbortError the parts that came in are shown, with the error.
Aborted(u, l) == {Ended(u, l), Ended([Shown(u, l) EXCEPT !.error = TRUE], l)}

\* Mutant: a load no longer aborts the one before it.
ReloadingBeside(u, c, mode) ==
    ui' = u /\ calls' = [c EXCEPT !.loads = @ \cup {NewLoad(mode)}]

Reloading(u, c, mode) ==
    /\ ui' \in (IF c.loads = {} THEN {u} ELSE UNION {Aborted(u, l) : l \in c.loads})
    /\ calls' = [c EXCEPT !.loads = {NewLoad(mode)}]

FetchPart(l, p) ==
    LET Becomes(r) == calls' = [calls EXCEPT !.loads = (@ \ {l}) \cup {r}] IN
    /\ l.parts[p] = "sent"
    /\ \/ UNCHANGED server
          /\ Becomes(IF p = "commands" THEN [l EXCEPT !.parts[p] = "ok", !.commands = server.commands]
                                       ELSE [l EXCEPT !.parts[p] = "ok", !.alerts = server.alerts])
       \/ CanFail /\ Failure /\ Becomes([l EXCEPT !.parts[p] = "failed"])
    /\ UNCHANGED ui

Settle(l) ==
    /\ \A p \in Parts : l.parts[p] # "sent"
    /\ ui' = Ended([Shown(ui, l) EXCEPT !.error = \E p \in Parts : l.parts[p] = "failed"], l)
    /\ calls' = [calls EXCEPT !.loads = @ \ {l}]
    /\ UNCHANGED server

LoadStep == \E l \in calls.loads : Settle(l) \/ \E p \in Parts : FetchPart(l, p)

\* The timer, every 10 s or, hidden, 30 s.
Poll ==
    /\ calls.loads = {} \/ ui.overruns < MaxOverruns
    /\ Reloading([ui EXCEPT !.overruns = IF calls.loads = {} THEN @ ELSE @ + 1], calls, "silent")
    /\ UNCHANGED server

-----------------------------------------------------------------------------
(* The page *)

Acting == ui.acts < MaxActs
RefreshButton == Acting /\ Reloading([ui EXCEPT !.acts = @ + 1], calls, "refresh") /\ UNCHANGED server

\* onDispatched and onPaired: the dialog's post was accepted, and the page loads.
OnDispatched ==
    /\ Acting
    /\ server' = [server EXCEPT !.commands = @ + 1]
    /\ Reloading([ui EXCEPT !.acts = @ + 1], calls, "refresh")

acknowledgeAlert(a) ==
    /\ Acting /\ ~ui.loading /\ ui.alerts[a] = "raised" /\ a \notin ui.acking
    /\ ui' = [ui EXCEPT !.acts = @ + 1, !.acking = @ \cup {a}]
    /\ calls' = [calls EXCEPT !.acks[a] = "sent"]
    /\ UNCHANGED server

AckServed(a) ==
    LET done == [server EXCEPT !.alerts[a] = "acked"] IN
    /\ calls.acks[a] = "sent"
    /\ \/ server' = done /\ calls' = [calls EXCEPT !.acks[a] = "ok"]
       \/ CanFail /\ Failure /\ calls' = [calls EXCEPT !.acks[a] = "failed"]
       \/ CanFail /\ server' = [done EXCEPT !.failures = @ + 1] /\ calls' = [calls EXCEPT !.acks[a] = "failed"]
    /\ UNCHANGED ui

\* Mutant: the alert is marked whatever the answer.
AckAnswerOptimistic(a) ==
    /\ calls.acks[a] \in {"ok", "failed"}
    /\ ui' = [ui EXCEPT !.acking = @ \ {a}, !.alerts[a] = "acked"]
    /\ calls' = [calls EXCEPT !.acks[a] = "none"]
    /\ UNCHANGED server

AckAnswer(a) ==
    /\ calls.acks[a] \in {"ok", "failed"}
    /\ ui' = [ui EXCEPT !.acking = @ \ {a}, !.alerts[a] = IF calls.acks[a] = "ok" THEN "acked" ELSE @]
    /\ calls' = [calls EXCEPT !.acks[a] = "none"]
    /\ UNCHANGED server

-----------------------------------------------------------------------------
Init ==
    /\ ui = [commands |-> 0, alerts |-> NoAlert, loading |-> TRUE, error |-> FALSE, acking |-> {},
             acts |-> 0, overruns |-> 0]
    /\ server = [commands |-> 1, alerts |-> [a \in Alerts |-> "raised"], failures |-> 0]
    /\ calls = [loads |-> {NewLoad("initial")}, acks |-> [a \in Alerts |-> "none"]]

AckStep == \E a \in Alerts : AckServed(a) \/ AckAnswer(a)

Next ==
    \/ LoadStep \/ Poll \/ RefreshButton \/ OnDispatched \/ AckStep
    \/ \E a \in Alerts : acknowledgeAlert(a)

FairStep(i) ==
    \/ i = 1 /\ LoadStep
    \/ i = 2 /\ Poll
    \/ i = 3 /\ AckStep

Spec == Init /\ [][Next]_operatorVars /\ \A i \in 1 .. 3 : WF_operatorVars(FairStep(i))

-----------------------------------------------------------------------------
(* Properties *)

\* The count of commands never falls back: a load that was aborted shows what it
\* had before the next one answers, never after.
OperatorNeverGoesBack == ui'.commands >= ui.commands

\* An alert is shown acknowledged only when the control plane has it so; the
\* local change waits for the answer of the post.
AckIsBacked == \A a \in Alerts : ui.alerts[a] = "acked" => server.alerts[a] = "acked"

\* The console ends up with the commands and the alerts as they are and without
\* the error an aborted load leaves behind, though a load read before the
\* acknowledgement may show the alert raised again for a while.
OperatorAgrees ==
    /\ ~ui.loading /\ ~ui.error /\ ui.acking = {}
    /\ ui.commands = server.commands /\ ui.alerts = server.alerts
=============================================================================
