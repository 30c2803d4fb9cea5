---------------------------- MODULE CommandModals ---------------------------
(* The two dialogs that dispatch a command: the operator's, in two steps     *)
(* (OperatorDashboard.tsx), and the one of the dispatch page                 *)
(* (DispatchCommandModal.tsx).  ui is the dialog of the visit, which opens   *)
(* and closes; server has the commands that were created, in their order;    *)
(* calls holds the posts under way and the timers that close the dialog.     *)
EXTENDS Naturals, Sequences, FiniteSets

CONSTANTS
    MaxOpens,      \* times the dialog is opened
    MaxFailures    \* posts refused or lost, and loads of the dialog that fail

VARIABLES ui, server, calls

modalVars == <<ui, server, calls>>

Devices == 1 .. 2
Blank == 0
Methods == {"ping", "lock_screen", "delete_file"}
MEDIUM_RISK_METHODS == {"lock_screen"}
HIGH_RISK_METHODS == {"delete_file"}
TWO_FACTOR_METHODS == {"delete_file"}
methodRisk(m) ==
    IF m \in HIGH_RISK_METHODS THEN "high" ELSE IF m \in MEDIUM_RISK_METHODS THEN "medium" ELSE "low"
needsConfirm(m) == methodRisk(m) \in {"medium", "high"}
requires2fa(m) == m \in TWO_FACTOR_METHODS
validateCommandParams(m, p) == m = "ping" \/ m = "lock_screen" \/ p = "valid"

CanFail == server.failures < MaxFailures
Failure == server' = [server EXCEPT !.failures = @ + 1]

-----------------------------------------------------------------------------
(* Opening and closing *)

\* A dialog that opens starts afresh; the row's button of the operator console
\* fills in its device.
Fresh(d) == [open |-> TRUE, data |-> IF ui.which = "operator" THEN "loaded" ELSE "loading", device |-> d, method |-> "none", params |-> "valid",
             name |-> Blank, code |-> FALSE, step |-> "compose", loading |-> FALSE, submitted |-> FALSE]

Open(d) ==
    /\ ~ui.form.open /\ ui.opens < MaxOpens
    /\ d # Blank => ui.which = "operator"
    /\ ui' = [ui EXCEPT !.opens = @ + 1, !.form = Fresh(d)]
    /\ UNCHANGED <<server, calls>>

Shut(u) == [u EXCEPT !.form = [Fresh(Blank) EXCEPT !.open = FALSE]]
Close == ui.form.open /\ ui' = Shut(ui) /\ UNCHANGED <<server, calls>>

\* window.setTimeout(onClose, 1200): closes the dialog that is open by then.
CloseTimer ==
    /\ calls.timers > 0
    /\ calls' = [calls EXCEPT !.timers = @ - 1]
    /\ ui' = IF ui.form.open THEN Shut(ui) ELSE ui
    /\ UNCHANGED server

\* The dispatch page's dialog loads devices and methods when it mounts; without
\* them there is nothing to do but close it.
DataLoaded ==
    /\ ui.form.open /\ ui.form.data = "loading"
    /\ \/ ui' = [ui EXCEPT !.form.data = "loaded"] /\ UNCHANGED server
       \/ CanFail /\ Failure /\ ui' = [ui EXCEPT !.form.data = "failed"]
    /\ UNCHANGED calls

-----------------------------------------------------------------------------
(* Filling in *)

Filling == ui.form.open /\ ui.form.data = "loaded" /\ ~ui.form.submitted
Fill(f) == Filling /\ ui' = [ui EXCEPT !.form = f] /\ UNCHANGED <<server, calls>>
Composing == ui.form.step = "compose"

\* A new method brings its template; the operator's dialog drops the code too.
SelectDevice(d) == Composing /\ Fill([ui.form EXCEPT !.device = d])
SelectMethod(m) ==
    /\ Composing /\ m # ui.form.method
    /\ Fill([ui.form EXCEPT !.method = m, !.params = "valid", !.code = @ /\ ui.which = "dispatch"])
EditParams == Composing /\ ui.form.method # "none" /\ Fill([ui.form EXCEPT !.params = "invalid"])
TypeName(d) == ~Composing /\ Fill([ui.form EXCEPT !.name = d])     \* the name and the id suffix of d
TypeCode ==
    /\ requires2fa(ui.form.method) /\ ui.which = "operator" => ~Composing
    /\ requires2fa(ui.form.method) /\ Fill([ui.form EXCEPT !.code = TRUE])
Back == ~Composing /\ Fill([ui.form EXCEPT !.step = "compose"])

-----------------------------------------------------------------------------
(* Dispatching *)

Chosen == ui.form.device # Blank /\ ui.form.method # "none"
Named == ui.which = "operator" /\ needsConfirm(ui.form.method) => ui.form.name = ui.form.device
Coded == requires2fa(ui.form.method) => ui.form.code
Post == [n |-> ui.opens, named |-> Named, coded |-> Coded, phase |-> "sent"]
Send == /\ ui' = [ui EXCEPT !.form.loading = TRUE]
        /\ calls' = [calls EXCEPT !.posts = @ \cup {Post}]
        /\ UNCHANGED server

\* The checks of handleDispatch before it posts.  What was typed in the second
\* step outlives a step back and a new choice of device.
Confirmed ==
    needsConfirm(ui.form.method) => ui.form.name = ui.form.device /\ Coded

\* Mutant: the name typed is not compared again.
handleDispatchUnconfirmed ==
    /\ Chosen /\ validateCommandParams(ui.form.method, ui.form.params)
    /\ Send

handleDispatch ==
    /\ Chosen /\ validateCommandParams(ui.form.method, ui.form.params) /\ Confirmed
    /\ Send

handleProceed ==
    /\ ui.which = "operator" /\ Filling /\ Composing /\ Chosen /\ ~ui.form.loading
    /\ validateCommandParams(ui.form.method, ui.form.params)
    /\ IF needsConfirm(ui.form.method)
       THEN ui' = [ui EXCEPT !.form.step = "confirm"] /\ UNCHANGED <<server, calls>>
       ELSE handleDispatch

\* Execute Command, enabled with both fields and the code filled in.
Execute ==
    /\ ui.which = "operator" /\ Filling /\ ~Composing /\ ~ui.form.loading
    /\ ui.form.name # Blank /\ Coded
    /\ handleDispatch

\* The form's rules stand in for the second step here.
onSubmit ==
    /\ ui.which = "dispatch" /\ Filling /\ Chosen /\ ~ui.form.loading
    /\ Coded
    /\ validateCommandParams(ui.form.method, ui.form.params)
    /\ Send

\* Every post has its own client_message_id, so each one that arrives creates a
\* command, and the answer may still get lost.
Created(p) == Append(server.created, p)
PostServed(p) ==
    LET Becomes(how) == calls' = [calls EXCEPT !.posts = (@ \ {p}) \cup {[p EXCEPT !.phase = how]}] IN
    /\ p.phase = "sent"
    /\ \/ server' = [server EXCEPT !.created = Created(p)] /\ Becomes("ok")
       \/ CanFail /\ Failure /\ Becomes("failed")
       \/ CanFail /\ server' = [server EXCEPT !.created = Created(p), !.failures = @ + 1] /\ Becomes("failed")
    /\ UNCHANGED ui

\* Mutant: the dialog does not leave the form after success.
PostAnswerStaysOpen(p) ==
    LET mine == ui.form.open /\ p.n = ui.opens IN
    /\ p.phase \in {"ok", "failed"}
    /\ ui' = IF mine THEN [ui EXCEPT !.form.loading = FALSE] ELSE ui
    /\ calls' = [calls EXCEPT !.posts = @ \ {p}, !.timers = IF p.phase = "ok" THEN @ + 1 ELSE @]
    /\ UNCHANGED server

\* The answer finds its own opening, or another, or none.
PostAnswer(p) ==
    LET mine == ui.form.open /\ p.n = ui.opens IN
    /\ p.phase \in {"ok", "failed"}
    /\ ui' = IF mine THEN [ui EXCEPT !.form.loading = FALSE, !.form.submitted = p.phase = "ok"] ELSE ui
    /\ calls' = [calls EXCEPT !.posts = @ \ {p}, !.timers = IF p.phase = "ok" THEN @ + 1 ELSE @]
    /\ UNCHANGED server

-----------------------------------------------------------------------------
Init ==
    /\ \E which \in {"operator", "dispatch"} :
          ui = [which |-> which, opens |-> 0,
                form |-> [open |-> FALSE, data |-> IF which = "operator" THEN "loaded" ELSE "loading", device |-> Blank, method |-> "none",
                          params |-> "valid", name |-> Blank, code |-> FALSE, step |-> "compose",
                          loading |-> FALSE, submitted |-> FALSE]]
    /\ server = [created |-> <<>>, failures |-> 0]
    /\ calls = [posts |-> {}, timers |-> 0]

PostStep == \E p \in calls.posts : PostServed(p) \/ PostAnswer(p)

Next ==
    \/ \E d \in Devices \cup {Blank} : Open(d)
    \/ Close \/ CloseTimer \/ DataLoaded
    \/ \E d \in Devices : SelectDevice(d) \/ TypeName(d)
    \/ \E m \in Methods : SelectMethod(m)
    \/ EditParams \/ TypeCode \/ Back
    \/ handleProceed \/ Execute \/ onSubmit \/ PostStep

FairStep(i) ==
    \/ i = 1 /\ PostStep
    \/ i = 2 /\ CloseTimer

Spec == Init /\ [][Next]_modalVars /\ \A i \in 1 .. 2 : WF_modalVars(FairStep(i))

-----------------------------------------------------------------------------
(* Properties *)

\* No command of medium or high risk is created for a device whose name and id
\* were not typed into the operator's dialog, and none that needs a second
\* factor without a code in either, also when the user went back, chose another
\* device or method and came forward again.
SensitiveIsConfirmed ==
    \A i \in DOMAIN server.created : server.created[i].named /\ server.created[i].coded

\* One opening of a dialog creates one command: the button is off while the post
\* is under way and gone after its answer.  A lost answer, which the dialog
\* shows as a failure, is what can make it two.
OneCommandPerOpening ==
    \A n \in 1 .. MaxOpens :
        Cardinality({i \in DOMAIN server.created : server.created[i].n = n}) <= 1 + server.failures

\* A dialog does not keep dispatching, and one that succeeded closes.
DispatchRests == ~ui.form.loading /\ ~ui.form.submitted
=============================================================================
