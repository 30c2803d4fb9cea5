------------------------------ MODULE Settings ------------------------------
(* The settings page (SettingsContent.tsx): loadAll, which the mount, a      *)
(* timer, the visibility change and the Refresh button start and inFlightRef *)
(* lets through one at a time, and the handlers of its tabs, which call the  *)
(* API and patch the list on the screen with the answer.  The tabs share     *)
(* loadAll and nothing else, so a visit works on one of them.                *)
EXTENDS Naturals, Sequences, SequencesExt

CONSTANTS
    MaxOps,       \* calls the tab's handlers may make in one visit
    MaxEdits,     \* changes to drafts in one visit
    MaxFailures   \* calls answered by an error

VARIABLES ui, server, calls

settingsVars == <<ui, server, calls>>

TAB_ITEMS == {"alert-rules", "policy-editor", "compliance-thresholds", "roles-permissions", "team-members"}

Ids == 1 .. MaxOps + 1              \* row 1 is there from the start
Slots == 1 .. MaxOps
Idle == [phase |-> "idle"]
Reading == [phase |-> "reading"]

\* A row: its switch (enabled, a permission, the account) and, for a member,
\* one device that may be granted.
Value(on, granted) == [on |-> on, granted |-> granted]
Absent == [absent |-> TRUE]
Row(id, v) == [id |-> id, val |-> v]
Listed(rows) == {Row(id, rows[id]) : id \in {i \in Ids : rows[i] # Absent}}

CanFail == server.failures < MaxFailures
Failure == server' = [server EXCEPT !.failures = @ + 1]

-----------------------------------------------------------------------------
(* loadAll *)

loadAll ==
    /\ ~ui.inFlight
    /\ ui' = [ui EXCEPT !.inFlight = TRUE]
    /\ calls' = [calls EXCEPT !.load = Reading]
    /\ UNCHANGED server

\* The timer and the return to the tab; the Refresh button does the same.
Poll == loadAll
RefreshButton == loadAll

\* requestJson throws on an answer that is not ok, and Promise.all with it.
LoadRead ==
    LET Told(ok) == calls' = [calls EXCEPT !.load = [phase |-> "answered", ok |-> ok, rows |-> server.rows]]
    IN /\ calls.load.phase = "reading"
       /\ \/ Told(TRUE) /\ UNCHANGED server
          \/ CanFail /\ Failure /\ Told(FALSE)
       /\ UNCHANGED ui

\* Mutant: a load shows its rows and keeps the old drafts.
LoadAnswerKeepsDrafts ==
    LET load == calls.load IN
    /\ load.phase = "answered"
    /\ ui' = IF load.ok
             THEN [ui EXCEPT !.list = SetToSeq(Listed(load.rows)), !.inFlight = FALSE, !.loading = FALSE]
             ELSE [ui EXCEPT !.inFlight = FALSE, !.loading = FALSE]
    /\ calls' = [calls EXCEPT !.load = Idle]
    /\ UNCHANGED server

\* The answer replaces the lists and every draft but an open policy editor.
LoadAnswer ==
    LET load == calls.load IN
    /\ load.phase = "answered"
    /\ ui' = IF load.ok
             THEN [ui EXCEPT !.list = SetToSeq(Listed(load.rows)), !.inFlight = FALSE, !.loading = FALSE,
                             !.drafts = IF ui.tab = "policy-editor" THEN @ ELSE load.rows]
             ELSE [ui EXCEPT !.inFlight = FALSE, !.loading = FALSE]
    /\ calls' = [calls EXCEPT !.load = Idle]
    /\ UNCHANGED server

-----------------------------------------------------------------------------
(* The handlers' calls.  Sending closes an open policy editor, which is the  *)
(* only draft of its tab.                                                    *)

Send(kind, id, v) ==
    /\ ~ui.loading /\ ui.ops < MaxOps
    /\ ui' = [ui EXCEPT !.ops = @ + 1,
                        !.drafts = IF ui.tab = "policy-editor" THEN [@ EXCEPT ![id] = Absent] ELSE @]
    /\ calls' = [calls EXCEPT !.ops[ui.ops + 1] = [phase |-> "sent", kind |-> kind, id |-> id, val |-> v]]
    /\ UNCHANGED server

handleCreateAlertRule == ui.tab = "alert-rules" /\ Send("create", 0, Value(TRUE, FALSE))
handleCreateThreshold == ui.tab = "compliance-thresholds" /\ Send("create", 0, Value(TRUE, FALSE))
handleCreateMember == ui.tab = "team-members" /\ Send("create", 0, Value(FALSE, FALSE))

\* The row's switch sends the opposite of what is shown ...
Toggle(k) == Send("update", ui.list[k].id, [ui.list[k].val EXCEPT !.on = ~@])
ToggleAlertRule(k) == ui.tab = "alert-rules" /\ Toggle(k)
ToggleThreshold(k) == ui.tab = "compliance-thresholds" /\ Toggle(k)
ToggleRow == \E k \in DOMAIN ui.list : ToggleAlertRule(k) \/ ToggleThreshold(k)

\* ... and its editor the draft.
handleUpdateAlertRule(id) == ui.tab = "alert-rules" /\ Send("update", id, ui.drafts[id])
handleUpdateThreshold(id) == ui.tab = "compliance-thresholds" /\ Send("update", id, ui.drafts[id])
handleUpdatePolicy(id) == ui.tab = "policy-editor" /\ ui.drafts[id] # Absent /\ Send("update", id, ui.drafts[id])
handleSaveRolePermissions(id) == ui.tab = "roles-permissions" /\ Send("update", id, ui.drafts[id])
handleSaveMember(id) == ui.tab = "team-members" /\ ui.drafts[id] # Absent /\ Send("update", id, ui.drafts[id])
SaveDraft(id) ==
    /\ \E k \in DOMAIN ui.list : ui.list[k].id = id
    /\ \/ handleUpdateAlertRule(id) \/ handleUpdateThreshold(id) \/ handleUpdatePolicy(id)
       \/ handleSaveRolePermissions(id) \/ handleSaveMember(id)

handleDeleteAlertRule(id) == ui.tab = "alert-rules" /\ Send("delete", id, Absent)
handleDeleteThreshold(id) == ui.tab = "compliance-thresholds" /\ Send("delete", id, Absent)
DeleteRow ==
    \E k \in DOMAIN ui.list : handleDeleteAlertRule(ui.list[k].id) \/ handleDeleteThreshold(ui.list[k].id)

\* A member shows one of the two buttons, by the status on the screen.
handleActivateMember(k) == ~ui.list[k].val.on /\ Send("activate", ui.list[k].id, Absent)
handleDeactivateMember(k) == ui.list[k].val.on /\ Send("deactivate", ui.list[k].id, Absent)
MemberStatus ==
    /\ ui.tab = "team-members"
    /\ \E k \in DOMAIN ui.list : handleActivateMember(k) \/ handleDeactivateMember(k)

Edit(id, v) ==
    /\ ~ui.loading /\ ui.edits < MaxEdits
    /\ ui' = [ui EXCEPT !.drafts[id] = v, !.edits = @ + 1]
    /\ UNCHANGED <<server, calls>>

handleTogglePermission(id) == ui.tab = "roles-permissions" /\ Edit(id, [ui.drafts[id] EXCEPT !.on = ~@])
updateMemberDraft(id) == ui.tab = "team-members" /\ Edit(id, [ui.drafts[id] EXCEPT !.on = ~@])
toggleMemberDevice(id) == ui.tab = "team-members" /\ Edit(id, [ui.drafts[id] EXCEPT !.granted = ~@])
EditAlertRule(id) == ui.tab = "alert-rules" /\ Edit(id, [ui.drafts[id] EXCEPT !.on = ~@])
EditThreshold(id) == ui.tab = "compliance-thresholds" /\ Edit(id, [ui.drafts[id] EXCEPT !.on = ~@])
EditPolicy(k) == ui.tab = "policy-editor" /\ Edit(ui.list[k].id, [ui.list[k].val EXCEPT !.on = ~@])
EditDraft ==
    \E k \in DOMAIN ui.list :
        LET id == ui.list[k].id IN
        \/ /\ ui.drafts[id] # Absent
           /\ \/ handleTogglePermission(id) \/ updateMemberDraft(id) \/ toggleMemberDevice(id)
              \/ EditAlertRule(id) \/ EditThreshold(id)
        \/ EditPolicy(k)

\* The control plane: a call on a row that is gone is answered 404.
Serve(s) ==
    LET op == calls.ops[s]
        id == IF op.kind = "create" THEN server.next ELSE op.id
        v == CASE op.kind \in {"create", "update", "delete"} -> op.val
               [] op.kind = "activate" -> [server.rows[id] EXCEPT !.on = TRUE]
               [] op.kind = "deactivate" -> [server.rows[id] EXCEPT !.on = FALSE]
        Told(ok) == calls' = [calls EXCEPT !.ops[s] = [phase |-> "answered", kind |-> op.kind,
                                                       id |-> id, val |-> IF ok THEN v ELSE Absent, ok |-> ok]]
    IN /\ op.phase = "sent"
       /\ \/ /\ op.kind = "create" \/ server.rows[id] # Absent
             /\ server' = [server EXCEPT !.rows[id] = v, !.next = IF op.kind = "create" THEN @ + 1 ELSE @]
             /\ Told(TRUE)
          \/ op.kind # "create" /\ server.rows[id] = Absent /\ Told(FALSE) /\ UNCHANGED server
          \/ CanFail /\ Failure /\ Told(FALSE)
       /\ UNCHANGED ui

\* What the handlers do with the answer: a created row goes to one end of the
\* list (both look the same here), an updated one replaces its rows, a deleted
\* one leaves; roles and members also get a new draft, and so do the row
\* editors of rules and thresholds when their row changes.
Applied(op) ==
    LET others == SelectSeq(ui.list, LAMBDA r : r.id # op.id) IN
    CASE op.kind = "create" -> <<Row(op.id, op.val)>> \o ui.list
      [] op.kind = "delete" -> others
      [] OTHER -> [k \in DOMAIN ui.list |-> IF ui.list[k].id = op.id THEN Row(op.id, op.val) ELSE ui.list[k]]

OpAnswer(s) ==
    LET op == calls.ops[s] IN
    /\ op.phase = "answered"
    /\ ui' = IF op.ok
             THEN [ui EXCEPT !.list = Applied(op),
                             !.drafts[op.id] = IF ui.tab = "policy-editor" THEN @ ELSE op.val]
             ELSE ui
    /\ calls' = [calls EXCEPT !.ops[s] = Idle]
    /\ UNCHANGED server

-----------------------------------------------------------------------------
NoRows == [id \in Ids |-> Absent]

Init ==
    /\ server = [rows |-> [NoRows EXCEPT ![1] = Value(TRUE, FALSE)], next |-> 2, failures |-> 0]
    /\ \E t \in TAB_ITEMS :
          ui = [tab |-> t, list |-> <<>>, drafts |-> NoRows, loading |-> TRUE, inFlight |-> TRUE,
                ops |-> 0, edits |-> 0]
    /\ calls = [load |-> Reading, ops |-> [s \in Slots |-> Idle]]

Next ==
    \/ Poll \/ RefreshButton \/ LoadRead \/ LoadAnswer
    \/ handleCreateAlertRule \/ handleCreateThreshold \/ handleCreateMember
    \/ ToggleRow \/ DeleteRow \/ MemberStatus \/ EditDraft
    \/ \E id \in Ids : SaveDraft(id)
    \/ \E s \in Slots : Serve(s) \/ OpAnswer(s)

FairStep(i) ==
    \/ i = 1 /\ Poll
    \/ i = 2 /\ (LoadRead \/ LoadAnswer)
    \/ i \in 3 .. MaxOps + 2 /\ (Serve(i - 2) \/ OpAnswer(i - 2))

Spec == Init /\ [][Next]_settingsVars /\ \A i \in 1 .. MaxOps + 2 : WF_settingsVars(FairStep(i))

-----------------------------------------------------------------------------
(* Properties *)

\* Whatever order polls and answers come in - a created row listed twice, an
\* update undone on the screen by an older load - the page ends at what the
\* control plane stores, drafts included.
SettingsAgree ==
    /\ Len(ui.list) = Len(SetToSeq(Listed(server.rows))) /\ ToSet(ui.list) = Listed(server.rows)
    /\ ui.tab # "policy-editor" => \A r \in Listed(server.rows) : ui.drafts[r.id] = r.val

\* Save Member returns silently without a draft; no listed member lacks one.
SaveHasDraft ==
    ui.tab \in {"team-members", "roles-permissions"} =>
        \A k \in DOMAIN ui.list : ui.drafts[ui.list[k].id] # Absent
=============================================================================
