--------------------------- MODULE AppLockManager ---------------------------
(* The fleet's app lock policy in the settings (AppLockManagerSection.tsx):  *)
(* a copy edited on the page, reloaded, saved and cleared as a whole.  The   *)
(* page starts from DEFAULT_BUNDLE, not from the policy in force.            *)
EXTENDS Naturals

CONSTANTS
    MaxActs,       \* clicks in one visit
    MaxFailures    \* requests that fail

VARIABLES ui, server, calls

managerVars == <<ui, server, calls>>

\* A rule blocks an app by a name, typed with or without .exe, or by a path.
Rule(type, form) == [type |-> type, form |-> form]
Typed == {Rule("basename", "exe"), Rule("basename", "bare"), Rule("full_path", "path"), Rule("basename", "blank")}
normalizeBasename(form) == IF form = "bare" THEN "exe" ELSE form
normalizeRuleValue(r) == IF r.type = "basename" THEN [r EXCEPT !.form = normalizeBasename(@)] ELSE r
Bundle(on, rules) == [enabled |-> on, rules |-> rules]
DEFAULT_BUNDLE == Bundle(FALSE, {})
Idle == [phase |-> "idle"]

CanFail == server.failures < MaxFailures
Failure == server' = [server EXCEPT !.failures = @ + 1]
Quiet == calls.load = Idle /\ calls.save = Idle
Loading == calls.load # Idle     \* the loading and saving flags of the buttons
Saving == calls.save # Idle

\* "Is this app blocked?", of a name typed into the check.
blockedCheck(r) ==
    ui.bundle.enabled /\ \E s \in ui.bundle.rules : normalizeRuleValue(s) = normalizeRuleValue(r)

-----------------------------------------------------------------------------
Click(u) == ui.acts < MaxActs /\ ui' = [u EXCEPT !.acts = @ + 1, !.serial = @ /\ Quiet]
Edit(b) == Click([ui EXCEPT !.bundle = b, !.edited = TRUE]) /\ UNCHANGED <<server, calls>>

Enforcement == Edit([ui.bundle EXCEPT !.enabled = ~@])

\* Mutant: rules are compared and stored as typed.
addRuleAsTyped(r) ==
    /\ r.form # "blank"
    /\ r \notin ui.bundle.rules
    /\ Edit([ui.bundle EXCEPT !.rules = @ \cup {r}])

addRule(r) ==
    /\ r.form # "blank"
    /\ \A s \in ui.bundle.rules : normalizeRuleValue(s) # normalizeRuleValue(r)
    /\ Edit([ui.bundle EXCEPT !.rules = @ \cup {normalizeRuleValue(r)}])
removeRule(r) == r \in ui.bundle.rules /\ Edit([ui.bundle EXCEPT !.rules = @ \ {r}])

loadPolicy ==
    /\ ~Loading
    /\ Click(ui) /\ calls' = [calls EXCEPT !.load = [phase |-> "sent"]] /\ UNCHANGED server

Put(b) == calls' = [calls EXCEPT !.save = [phase |-> "sent", bundle |-> b]] /\ UNCHANGED server
savePolicy ==
    /\ ~Saving
    /\ Click([ui EXCEPT !.edited = FALSE])
    /\ Put(Bundle(ui.bundle.enabled, {normalizeRuleValue(r) : r \in ui.bundle.rules}))
clearPolicy == ~Saving /\ Click([ui EXCEPT !.edited = FALSE]) /\ Put(DEFAULT_BUNDLE)

-----------------------------------------------------------------------------
LoadRead ==
    /\ calls.load.phase = "sent"
    /\ \/ UNCHANGED server /\ calls' = [calls EXCEPT !.load = [phase |-> "ok", bundle |-> server.bundle]]
       \/ CanFail /\ Failure /\ calls' = [calls EXCEPT !.load = [phase |-> "failed"]]
    /\ UNCHANGED ui

\* The policy is stored before it is pushed, and a push that fails answers 502.
SaveServed ==
    LET stored == [server EXCEPT !.bundle = calls.save.bundle] IN
    /\ calls.save.phase = "sent"
    /\ \/ server' = stored /\ calls' = [calls EXCEPT !.save.phase = "ok"]
       \/ CanFail /\ (Failure \/ server' = [stored EXCEPT !.failures = @ + 1])
          /\ calls' = [calls EXCEPT !.save.phase = "failed"]
    /\ UNCHANGED ui

\* An answer replaces whatever was edited since; a failure leaves the page as it is.
Shows(b) == [ui EXCEPT !.bundle = b, !.edited = FALSE, !.seen = TRUE]
LoadAnswer ==
    /\ calls.load.phase \in {"ok", "failed"}
    /\ ui' = IF calls.load.phase = "ok" THEN Shows(calls.load.bundle) ELSE ui
    /\ calls' = [calls EXCEPT !.load = Idle]
    /\ UNCHANGED server

\* Mutant: the status of the answer is not looked at.
SaveAnswerTrusting ==
    /\ calls.save.phase \in {"ok", "failed"}
    /\ ui' = Shows(calls.save.bundle)
    /\ calls' = [calls EXCEPT !.save = Idle]
    /\ UNCHANGED server

SaveAnswer ==
    /\ calls.save.phase \in {"ok", "failed"}
    /\ ui' = IF calls.save.phase = "ok" THEN Shows(calls.save.bundle) ELSE [ui EXCEPT !.edited = TRUE]
    /\ calls' = [calls EXCEPT !.save = Idle]
    /\ UNCHANGED server

Init ==
    /\ ui = [bundle |-> DEFAULT_BUNDLE, edited |-> FALSE, seen |-> FALSE, acts |-> 0, serial |-> TRUE]
    /\ server = [bundle |-> Bundle(TRUE, {Rule("basename", "exe")}), failures |-> 0]
    /\ calls = [load |-> Idle, save |-> Idle]

CallStep == LoadRead \/ SaveServed \/ LoadAnswer \/ SaveAnswer
Next ==
    \/ Enforcement \/ loadPolicy \/ savePolicy \/ clearPolicy \/ CallStep
    \/ \E r \in Typed : addRule(r) \/ removeRule(r)

FairStep(i) == i = 1 /\ CallStep

Spec == Init /\ [][Next]_managerVars /\ WF_managerVars(FairStep(1))

-----------------------------------------------------------------------------
(* Properties *)

\* What the page shows is the policy in force, once something was loaded or
\* saved, nothing is left unsaved, and clicks waited for the answers: an answer
\* that fails, the 502 of a policy stored but not pushed included, counts as
\* unsaved.
SerialPolicyIsShown ==
    ui.serial /\ Quiet /\ ui.seen /\ ~ui.edited => ui.bundle = server.bundle

\* A rule that leaves the page unblocks its app, says the check field: addRule
\* normalizes what was typed before it compares and stores it, so no app is
\* blocked twice, under its name as typed and as normalized.
RemovalUnblocks == \A r \in ui.bundle.rules \ ui'.bundle.rules : ~blockedCheck(r)'

\* Reload and Save come back.
ManagerRests == Quiet
=============================================================================
