------------------------------- MODULE Copilot -------------------------------
(* The device health copilot panel (DeviceHealthCopilotPanel.tsx) with its   *)
(* client (copilot/api.ts): the effect that restores the stored conversation *)
(* and runs again when the device's name changes on the page, and submitAsk, *)
(* which that effect does not cancel.                                        *)
EXTENDS Naturals, Sequences

CONSTANTS
    MaxAsks,      \* questions of one visit
    MaxRenames,   \* times the page's poll changes the hostname it passes down
    MaxFailures   \* calls answered by an error

VARIABLES ui, server, calls

copilotVars == <<ui, server, calls>>

Asks == 1 .. MaxAsks
Earlier == MaxAsks + 1              \* a conversation of an earlier visit
Idle == [phase |-> "idle"]
Item(type, q) == [type |-> type, q |-> q]
Spinner == "loading"                \* the system_status item of a running ask
Errors == {"scope_failure", "unavailable"}

NoItems == <<>>
Errored(code) == [error |-> code]
IsError(x) == "error" \in DOMAIN x

CanFail == server.failures < MaxFailures
Failure == server' = [server EXCEPT !.failures = @ + 1]

-----------------------------------------------------------------------------
(* Restoring the conversation *)

\* The effect of the mount and of every later hostname: whatever is shown goes,
\* and the stored conversation, if there is one, is fetched.
Restore ==
    /\ ui' = [ui EXCEPT !.conversation = 0, !.transcript = NoItems, !.error = "none",
                        !.loading = ui.stored # 0, !.renames = @ + 1]
    /\ calls' = [calls EXCEPT !.load = IF ui.stored = 0 THEN Idle
                                       ELSE [phase |-> "sent", id |-> ui.stored]]
    /\ UNCHANGED server

HostnameChanges == ui.renames < MaxRenames /\ Restore

LoadRead ==
    LET load == calls.load
        Told(x) == calls' = [calls EXCEPT !.load = [phase |-> "answered", id |-> load.id, body |-> x]]
    IN /\ load.phase = "sent"
       /\ \/ Told([items |-> server.conversations[load.id]]) /\ UNCHANGED server
          \/ CanFail /\ Failure /\ \E e \in Errors : Told(Errored(e))
       /\ UNCHANGED ui

LoadAnswer ==
    LET load == calls.load IN
    /\ load.phase = "answered"
    /\ ui' = IF IsError(load.body)
             THEN [ui EXCEPT !.error = load.body.error, !.loading = FALSE]
             ELSE [ui EXCEPT !.conversation = load.id, !.transcript = load.body.items, !.loading = FALSE]
    /\ calls' = [calls EXCEPT !.load = Idle]
    /\ UNCHANGED server

-----------------------------------------------------------------------------
(* Asking *)

submitAsk ==
    /\ ~ui.sending /\ ui.asked < MaxAsks
    /\ ui' = [ui EXCEPT !.sending = TRUE, !.error = "none", !.asked = @ + 1,
                 !.transcript = @ \o <<Item("user_message", ui.asked + 1), Item(Spinner, ui.asked + 1)>>]
    /\ calls' = [calls EXCEPT !.ask = [phase |-> "sent", q |-> ui.asked + 1, id |-> ui.conversation]]
    /\ UNCHANGED server

Compose == ~ui.loading /\ ui.error # "scope_failure" /\ submitAsk

\* The prompts of an empty panel look at neither the scope error nor the load.
QuickPrompt == ~ui.loading /\ ui.transcript = NoItems /\ submitAsk

\* POST /api/ai/copilot/ask.  The question is stored, in a new conversation when
\* none was named, before the sidecar is asked; a denied scope stores nothing.
AskServed ==
    LET ask == calls.ask
        id == IF ask.id = 0 THEN ask.q ELSE ask.id
        Told(x) == calls' = [calls EXCEPT !.ask = [phase |-> "asked", q |-> ask.q, id |-> id, body |-> x]]
        Stored(items) == [server EXCEPT !.conversations[id] = @ \o items]
        question == Item("user_message", ask.q)
    IN /\ ask.phase = "sent"
       /\ \/ /\ server' = Stored(<<question, Item("answer_artifact", ask.q)>>)
             /\ Told([ok |-> TRUE])
          \/ /\ CanFail
             /\ server' = [Stored(<<question>>) EXCEPT !.failures = @ + 1]
             /\ Told(Errored("unavailable"))
          \/ CanFail /\ Failure /\ Told(Errored("scope_failure"))
       /\ UNCHANGED ui

\* Mutant: the catch appends the notice and forgets the spinner.
AskFailsSpinning(q, code) ==
    /\ ui' = [ui EXCEPT !.error = code, !.sending = FALSE,
                 !.transcript = Append(@, Item("unavailable_notice", q))]
    /\ calls' = [calls EXCEPT !.ask = Idle]

\* Mutant: the catch takes the spinner away and adds nothing.
AskFailsSilently(q, code) ==
    /\ ui' = [ui EXCEPT !.error = code, !.sending = FALSE,
                 !.transcript = SelectSeq(@, LAMBDA it : it # Item(Spinner, q))]
    /\ calls' = [calls EXCEPT !.ask = Idle]

\* The catch of submitAsk: the spinner makes room for a notice.
AskFails(q, code) ==
    /\ ui' = [ui EXCEPT !.error = code, !.sending = FALSE,
                 !.transcript = Append(SelectSeq(@, LAMBDA it : it # Item(Spinner, q)),
                                       Item("unavailable_notice", q))]
    /\ calls' = [calls EXCEPT !.ask = Idle]

\* The id is stored at once; then the conversation is read back.
AskAnswer ==
    LET ask == calls.ask IN
    /\ ask.phase = "asked"
    /\ \/ IsError(ask.body) /\ AskFails(ask.q, ask.body.error)
       \/ /\ ~IsError(ask.body)
          /\ ui' = [ui EXCEPT !.stored = ask.id]
          /\ calls' = [calls EXCEPT !.ask = [phase |-> "reading", q |-> ask.q, id |-> ask.id]]
    /\ UNCHANGED server

CanonicalRead ==
    LET ask == calls.ask
        Told(x) == calls' = [calls EXCEPT !.ask = [phase |-> "told", q |-> ask.q, id |-> ask.id, body |-> x]]
    IN /\ ask.phase = "reading"
       /\ \/ Told([items |-> server.conversations[ask.id]]) /\ UNCHANGED server
          \/ CanFail /\ Failure /\ \E e \in Errors : Told(Errored(e))
       /\ UNCHANGED ui

CanonicalAnswer ==
    LET ask == calls.ask IN
    /\ ask.phase = "told"
    /\ \/ IsError(ask.body) /\ AskFails(ask.q, ask.body.error)
       \/ /\ ~IsError(ask.body)
          /\ ui' = [ui EXCEPT !.conversation = ask.id, !.transcript = ask.body.items, !.sending = FALSE]
          /\ calls' = [calls EXCEPT !.ask = Idle]
    /\ UNCHANGED server

-----------------------------------------------------------------------------
Init ==
    /\ server = [conversations |-> [c \in 1 .. Earlier |->
                    IF c = Earlier THEN <<Item("user_message", 0), Item("answer_artifact", 0)>> ELSE NoItems],
                 failures |-> 0]
    /\ \E kept \in {0, Earlier} :
          /\ ui = [conversation |-> 0, transcript |-> NoItems, error |-> "none", loading |-> kept # 0,
                   sending |-> FALSE, stored |-> kept, asked |-> 0, renames |-> 0]
          /\ calls = [load |-> IF kept = 0 THEN Idle ELSE [phase |-> "sent", id |-> kept], ask |-> Idle]

AskStep == AskServed \/ AskAnswer \/ CanonicalRead \/ CanonicalAnswer

Next == HostnameChanges \/ LoadRead \/ LoadAnswer \/ Compose \/ QuickPrompt \/ AskStep

FairStep(i) ==
    \/ i = 1 /\ (LoadRead \/ LoadAnswer)
    \/ i = 2 /\ AskStep

Spec == Init /\ [][Next]_copilotVars /\ \A i \in 1 .. 2 : WF_copilotVars(FairStep(i))

-----------------------------------------------------------------------------
(* Properties *)

Shows(u, type, q) == \E k \in 1 .. Len(u.transcript) : u.transcript[k] = Item(type, q)

\* A question never just disappears: when the panel stops waiting for it, the
\* transcript holds its answer, or holds the notice and the panel the error.
AskEndsVisibly ==
    (ui.sending /\ ~ui'.sending) =>
        \/ Shows(ui', "answer_artifact", ui.asked)
        \/ Shows(ui', "unavailable_notice", ui.asked) /\ ui'.error # "none"

\* At most one spinner, and only for the question that is being asked: a
\* restored or failed transcript never keeps one from an earlier question.
SpinnerIsCurrent ==
    \A k \in 1 .. Len(ui.transcript) :
        ui.transcript[k].type = Spinner => ui.sending /\ ui.transcript[k].q = ui.asked

\* The composer always comes back.
CopilotSettles == ~ui.sending /\ ~ui.loading
=============================================================================
