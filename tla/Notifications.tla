---------------------------- MODULE Notifications ----------------------------
(* The notifications page (NotificationsContent.tsx): receipts changed on the *)
(* screen before the control plane has them, loads nothing puts in order, and *)
(* a poll that brings back what the control plane really holds.               *)
EXTENDS Naturals, FiniteSets

CONSTANTS
    MaxActs,       \* clicks
    MaxFailures,   \* requests that fail
    MaxOverruns    \* polls that start before the load before them has answered

VARIABLES ui, server, calls

notificationVars == <<ui, server, calls>>

Notes == 1 .. 2
typeOf == <<"alert", "command">>
Nothing == [n \in Notes |-> "gone"]

Unread(rows) == Cardinality({n \in Notes : rows[n] = "unread"})

\* buildNotifications: what was dismissed, or not raised yet, is not listed.
Listed(receipts) == [n \in Notes |-> IF receipts[n] \in {"unread", "read"} THEN receipts[n] ELSE "gone"]

CanFail == server.failures < MaxFailures
Failure == server' = [server EXCEPT !.failures = @ + 1]

-----------------------------------------------------------------------------
(* loadNotifications *)

NewLoad(mode, loads) ==
    [mode |-> mode, got |-> "sent", rows |-> Nothing,
     no |-> CHOOSE k \in 1 .. Cardinality(loads) + 1 : \A l \in loads : l.no # k]

FetchLoad(l) ==
    LET Becomes(r) == calls' = [calls EXCEPT !.loads = (@ \ {l}) \cup {r}] IN
    /\ l.got = "sent"
    /\ \/ Becomes([l EXCEPT !.got = "ok", !.rows = Listed(server.receipts)]) /\ UNCHANGED server
       \/ CanFail /\ Failure /\ Becomes([l EXCEPT !.got = "failed"])
    /\ UNCHANGED ui

\* Mutant: a load that succeeds leaves the error up.
LoadAnswerKeepsError(l) ==
    /\ l.got # "sent"
    /\ ui' = [ui EXCEPT !.events = IF l.got = "ok" THEN l.rows ELSE @,
                        !.unread = IF l.got = "ok" THEN Unread(l.rows) ELSE @,
                        !.error = @ \/ l.got = "failed",
                        !.loading = @ /\ l.mode # "initial",
                        !.refreshing = @ /\ l.mode # "refresh"]
    /\ calls' = [calls EXCEPT !.loads = @ \ {l}]
    /\ UNCHANGED server

\* A failed load keeps the rows and hides them behind the error.
LoadAnswer(l) ==
    /\ l.got # "sent"
    /\ ui' = [ui EXCEPT !.events = IF l.got = "ok" THEN l.rows ELSE @,
                        !.unread = IF l.got = "ok" THEN Unread(l.rows) ELSE @,
                        !.error = l.got = "failed",
                        !.loading = @ /\ l.mode # "initial",
                        !.refreshing = @ /\ l.mode # "refresh"]
    /\ calls' = [calls EXCEPT !.loads = @ \ {l}]
    /\ UNCHANGED server

LoadStep == \E l \in calls.loads : FetchLoad(l) \/ LoadAnswer(l)

\* The timer, every 15 s.
Poll ==
    /\ calls.loads = {} \/ ui.overruns < MaxOverruns
    /\ ui' = [ui EXCEPT !.overruns = IF calls.loads = {} THEN @ ELSE @ + 1]
    /\ calls' = [calls EXCEPT !.loads = @ \cup {NewLoad("silent", @)}]
    /\ UNCHANGED server

-----------------------------------------------------------------------------
(* The rows and the buttons *)

OfType(n) == ui.type \in {"all", typeOf[n]}
filtered == {n \in Notes : ui.events[n] # "gone" /\ OfType(n) /\ (ui.read = "unread" => ui.events[n] = "unread")}
RowShown(n) == ~ui.loading /\ ~ui.error /\ n \in filtered

\* One request for every set of notifications in sets.
Post(kind, sets) ==
    /\ ui.acts < MaxActs
    /\ calls' = [calls EXCEPT !.posts =
                    @ \cup {[kind |-> kind, ids |-> s, act |-> ui.acts, got |-> "sent"] : s \in sets}]
    /\ UNCHANGED server
Acted(u) == ui' = [u EXCEPT !.acts = @ + 1]

\* Mutant: a row already read counts down the badge.
markReadAgain(n) ==
    /\ RowShown(n)
    /\ Acted([ui EXCEPT !.events[n] = "read", !.unread = IF @ = 0 THEN 0 ELSE @ - 1])
    /\ Post("read", {{n}})

markRead(n) ==
    /\ RowShown(n) /\ ui.events[n] = "unread"
    /\ Acted([ui EXCEPT !.events[n] = "read", !.unread = IF @ = 0 THEN 0 ELSE @ - 1])
    /\ Post("read", {{n}})

\* The post carries the filter of the type; the answer marks every row.
markAllRead == Post("all", {{n \in Notes : OfType(n)}}) /\ Acted(ui)

dismiss(n) == RowShown(n) /\ Acted([ui EXCEPT !.events[n] = "gone"]) /\ Post("dismiss", {{n}})

\* The button is offered, and filtered filled, behind the error as well.
bulkDismiss ==
    /\ filtered # {}
    /\ Acted([ui EXCEPT !.events = [n \in Notes |-> IF n \in filtered THEN "gone" ELSE @[n]]])
    /\ Post("bulk", {{n} : n \in filtered})

Filters ==
    /\ ui.acts < MaxActs
    /\ \E t \in {"all", "alert"}, r \in {"all", "unread"} :
         /\ t = ui.type \/ r = ui.read \/ (t = "all" /\ r = "all")
         /\ Acted([ui EXCEPT !.type = t, !.read = r])
    /\ UNCHANGED <<server, calls>>

RefreshButton ==
    /\ ui.acts < MaxActs
    /\ Acted([ui EXCEPT !.refreshing = TRUE])
    /\ calls' = [calls EXCEPT !.loads = @ \cup {NewLoad("refresh", @)}]
    /\ UNCHANGED server

-----------------------------------------------------------------------------
(* The control plane, and the answers *)

Raise(n) ==
    /\ server.receipts[n] = "none"
    /\ server' = [server EXCEPT !.receipts[n] = "unread"]
    /\ UNCHANGED <<ui, calls>>

\* A dismissed notification counts as read and stays dismissed.
Receipt(p, r) ==
    [n \in Notes |-> IF n \notin p.ids \/ r[n] \notin {"unread", "read"} THEN r[n]
                     ELSE IF p.kind \in {"read", "all"} THEN "read" ELSE "dismissed"]

ServePost(p) ==
    LET Becomes(got) == calls' = [calls EXCEPT !.posts = (@ \ {p}) \cup {[p EXCEPT !.got = got]}]
        done == [server EXCEPT !.receipts = Receipt(p, @)] IN
    /\ p.got = "sent"
    /\ \/ server' = done /\ Becomes("ok")
       \/ CanFail /\ Failure /\ (Becomes("refused") \/ Becomes("thrown"))
       \/ CanFail /\ server' = [done EXCEPT !.failures = @ + 1] /\ Becomes("thrown")
    /\ UNCHANGED ui

\* The catch of the handlers: the page loads again.
Reloaded == calls.loads \cup {NewLoad("silent", calls.loads)}
Settled(p) ==
    /\ p.got # "sent"
    /\ calls' = [loads |-> IF p.got = "ok" THEN calls.loads ELSE Reloaded, posts |-> calls.posts \ {p}]
    /\ UNCHANGED server

ReadAnswer(p) == p.kind = "read" /\ Settled(p) /\ UNCHANGED ui

AllAnswer(p) ==
    /\ p.kind = "all" /\ Settled(p)
    /\ ui' = IF p.got # "ok" THEN ui
             ELSE [ui EXCEPT !.events = [n \in Notes |-> IF @[n] = "unread" THEN "read" ELSE @[n]], !.unread = 0]

DismissAnswer(p) == p.kind = "dismiss" /\ Settled(p) /\ UNCHANGED ui

\* Promise.all rejects at the first request that throws and hears no other;
\* an answer that is not ok is taken for a success.
Batch(p) == {q \in calls.posts : q.kind = "bulk" /\ q.act = p.act}
BulkAnswer(p) ==
    /\ p.kind \in {"bulk", "unheard"} /\ p.got # "sent"
    /\ calls' = IF p.kind = "bulk" /\ p.got = "thrown"
                THEN [loads |-> Reloaded,
                      posts |-> (calls.posts \ Batch(p)) \cup {[q EXCEPT !.kind = "unheard"] : q \in Batch(p) \ {p}}]
                ELSE [calls EXCEPT !.posts = @ \ {p}]
    /\ UNCHANGED <<ui, server>>

PostStep ==
    \E p \in calls.posts : ServePost(p) \/ ReadAnswer(p) \/ AllAnswer(p) \/ DismissAnswer(p) \/ BulkAnswer(p)

-----------------------------------------------------------------------------
Init ==
    /\ ui = [events |-> Nothing, unread |-> 0, loading |-> TRUE, refreshing |-> FALSE, error |-> FALSE,
             type |-> "all", read |-> "all", acts |-> 0, overruns |-> 0]
    /\ server = [receipts |-> <<"unread", "none">>, failures |-> 0]
    /\ calls = [loads |-> {NewLoad("initial", {})}, posts |-> {}]

Next ==
    \/ LoadStep \/ Poll \/ PostStep
    \/ markAllRead \/ bulkDismiss \/ Filters \/ RefreshButton
    \/ \E n \in Notes : markRead(n) \/ dismiss(n) \/ Raise(n)

FairStep(i) ==
    \/ i = 1 /\ LoadStep
    \/ i = 2 /\ Poll
    \/ i = 3 /\ PostStep

Spec == Init /\ [][Next]_notificationVars /\ \A i \in 1 .. 3 : WF_notificationVars(FairStep(i))

-----------------------------------------------------------------------------
(* Properties *)

\* The badge never counts fewer than the unread rows on the page, whatever order
\* the optimistic changes and the answers come in; it may count more, because
\* dismissing an unread row leaves it as it was.
BadgeCoversUnread == Unread(ui.events) <= ui.unread

\* Once nothing new is clicked the page shows the receipts the control plane
\* holds: also after a refused delete that bulkDismiss reported as done, after
\* "Mark All Read" marked rows its filter left out, and after a load read before
\* a change was shown after it.
NotificationsAgree ==
    /\ ~ui.loading /\ ~ui.refreshing /\ ~ui.error
    /\ ui.events = Listed(server.receipts) /\ ui.unread = Unread(ui.events)
=============================================================================
