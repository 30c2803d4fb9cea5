---------------------------- MODULE AppLockPanel ----------------------------
(* The device's app lock panel (DeviceAppLockQuickPanel.tsx).  Each button   *)
(* computes a whole new policy from the one on the screen and PUTs it; only  *)
(* the button whose key is being saved is disabled, so saves overlap, and    *)
(* the control plane keeps whichever it stored last.  A device without a     *)
(* policy of its own has the global one.                                     *)
EXTENDS Naturals, FiniteSets

CONSTANTS
    Apps,          \* applications a rule can name
    Processes,     \* rows of the list_processes result: [app, name, path]
    GlobalBundles, \* the global policy an administrator may have left
    Typed,         \* what the custom input may hold: [kind, app, form]
    MaxSaves,      \* buttons pressed in one visit
    MaxFailures    \* calls that are answered by an error

VARIABLES ui, server, calls

panelVars == <<ui, server, calls>>

Slots == 1 .. 2                        \* saves under way together
Idle == [phase |-> "idle"]
Failed == [enabled |-> FALSE, rules |-> {}, failed |-> TRUE]
NoPolicy == [enabled |-> FALSE, rules |-> {}, unset |-> TRUE]
NoKey == [button |-> "none", app |-> "none"]
DEFAULT_BUNDLE == [enabled |-> FALSE, rules |-> {}]

-----------------------------------------------------------------------------
(* Names.  A value is an application and the form it is written in: "exe"    *)
(* (name.exe), "bare" (no dot), "dotted" (another extension), "blank", a     *)
(* "path" in lower case with backslashes, or a "rawpath".                    *)

\* The last segment of a path is taken first, and the paths here end in .exe.
normalizeBasename(form, allowImplicitExe) ==
    IF form \in {"exe", "path", "rawpath"} \/ (form = "bare" /\ allowImplicitExe) THEN "exe" ELSE ""

normalizePath(form) == IF form = "blank" THEN "" ELSE "path"

normalizeRuleValue(kind, form) ==
    IF kind = "basename" THEN normalizeBasename(form, TRUE) ELSE normalizePath(form)

\* A row without a usable name in either column is skipped; rows of one name merge.
extractDiscoveredApps ==
    LET Usable(p) == \/ normalizeBasename(p.name, FALSE) # ""
                     \/ normalizeBasename(p.path, FALSE) # ""
        rows == {p \in Processes : Usable(p)}
    IN {[app |-> a, paths |-> {normalizePath(p.path) : p \in {q \in rows : q.app = a /\ q.path # "blank"}}]
            : a \in {p.app : p \in rows}}

ruleMatches(rule, kind, app, form) ==
    /\ rule.kind = kind /\ rule.app = app
    /\ normalizeRuleValue(kind, rule.form) = normalizeRuleValue(kind, form)

appIsBlocked(bundle, found) ==
    /\ bundle.enabled
    /\ \E rule \in bundle.rules :
          /\ rule.app = found.app
          /\ \/ rule.kind = "basename" /\ normalizeRuleValue("basename", rule.form) = "exe"
             \/ rule.kind = "full_path" /\ normalizeRuleValue("full_path", rule.form) \in found.paths

ruleIsBlocked(bundle, kind, app, form) ==
    /\ bundle.enabled
    /\ normalizeRuleValue(kind, form) # ""
    /\ \E rule \in bundle.rules : ruleMatches(rule, kind, app, form)

\* coerceBundle: rules without a value are dropped.
coerceBundle(bundle) == [enabled |-> bundle.enabled,
                         rules |-> {r \in bundle.rules : r.form # "blank"}]

\* What every button sends: the policy is on exactly when a rule is left.
NextBundle(rules) ==
    [enabled |-> rules # {},
     rules |-> {[r EXCEPT !.form = normalizeRuleValue(r.kind, @)] : r \in rules}]

-----------------------------------------------------------------------------
(* The control plane *)

Effective == IF server.device = NoPolicy THEN server.global ELSE server.device

CanFail == server.failures < MaxFailures
Failure == server' = [server EXCEPT !.failures = @ + 1]

ShowPolicy ==
    /\ calls.load.phase = "sent"
    /\ \/ calls' = [calls EXCEPT !.load = [phase |-> "answered", policy |-> Effective]]
          /\ UNCHANGED server
       \/ CanFail /\ Failure
          /\ calls' = [calls EXCEPT !.load = [phase |-> "answered", policy |-> Failed]]
    /\ UNCHANGED ui

\* The policy is stored before it is pushed: a failed push answers 502, with
\* the new policy in force.  A call that never arrives stores nothing.
StorePolicy(s) ==
    LET save == calls.saves[s]
        Answer(p) == calls' = [calls EXCEPT !.saves[s] = [phase |-> "answered", policy |-> p]]
    IN /\ save.phase = "sent"
       /\ \/ server' = [server EXCEPT !.device = save.next] /\ Answer(save.next)
          \/ CanFail /\ Answer(Failed)
             /\ server' = [server EXCEPT !.device = save.next, !.failures = @ + 1]
          \/ CanFail /\ Failure /\ Answer(Failed)
       /\ UNCHANGED ui

-----------------------------------------------------------------------------
(* The panel *)

\* The effect of the mount and the Refresh button.
loadPolicy ==
    /\ ~ui.loadingPolicy
    /\ ui' = [ui EXCEPT !.loadingPolicy = TRUE, !.serial = @ /\ calls.saves = [s \in Slots |-> Idle]]
    /\ calls' = [calls EXCEPT !.load = [phase |-> "sent"]]
    /\ UNCHANGED server

LoadAnswer ==
    LET p == calls.load.policy IN
    /\ calls.load.phase = "answered"
    /\ ui' = [ui EXCEPT !.bundle = IF p = Failed THEN @ ELSE coerceBundle(p), !.loadingPolicy = FALSE]
    /\ calls' = [calls EXCEPT !.load = Idle]
    /\ UNCHANGED server

\* found: the application whose status the button means to change, or None.
persistPolicy(rules, key, found) ==
    /\ ui.saves < MaxSaves /\ ui.savingKey # key
    /\ \E s \in Slots :
          /\ calls.saves[s] = Idle /\ \A t \in 1 .. s - 1 : calls.saves[t] # Idle
          /\ calls' = [calls EXCEPT !.saves[s] =
                 [phase |-> "sent", base |-> ui.bundle, next |-> NextBundle(rules), found |-> found]]
    /\ ui' = [ui EXCEPT !.savingKey = key, !.saves = @ + 1,
                        !.serial = @ /\ calls = [load |-> Idle, saves |-> [s \in Slots |-> Idle]]]
    /\ UNCHANGED server

\* Mutant: the answer is not read back into the panel.
SaveAnswerUnread(s) ==
    /\ calls.saves[s].phase = "answered"
    /\ ui' = [ui EXCEPT !.savingKey = NoKey]
    /\ calls' = [calls EXCEPT !.saves[s] = Idle]
    /\ UNCHANGED server

SaveAnswer(s) ==
    LET p == calls.saves[s].policy IN
    /\ calls.saves[s].phase = "answered"
    /\ ui' = [ui EXCEPT !.bundle = IF p = Failed THEN @ ELSE coerceBundle(p), !.savingKey = NoKey]
    /\ calls' = [calls EXCEPT !.saves[s] = Idle]
    /\ UNCHANGED server

\* Mutant: Unlock takes away the rules by name only.
toggleDiscoveredName(found) ==
    LET rules == ui.bundle.rules
        Names(r) == r.kind = "basename" /\ r.app = found.app /\ normalizeRuleValue("basename", r.form) = "exe"
    IN persistPolicy(
           IF appIsBlocked(ui.bundle, found) THEN {r \in rules : ~Names(r)}
           ELSE IF \E r \in rules : Names(r) THEN rules
           ELSE rules \cup {[kind |-> "basename", app |-> found.app, form |-> "exe"]},
           [button |-> "app", app |-> found.app], found)

toggleDiscoveredApp(found) ==
    LET rules == ui.bundle.rules
        Names(r) == r.kind = "basename" /\ r.app = found.app /\ normalizeRuleValue("basename", r.form) = "exe"
        Reaches(r) == r.kind = "full_path" /\ r.app = found.app
                        /\ normalizeRuleValue("full_path", r.form) \in found.paths
    IN persistPolicy(
           IF appIsBlocked(ui.bundle, found) THEN {r \in rules : ~Names(r) /\ ~Reaches(r)}
           ELSE IF \E r \in rules : Names(r) THEN rules
           ELSE rules \cup {[kind |-> "basename", app |-> found.app, form |-> "exe"]},
           [button |-> "app", app |-> found.app], found)

ToggleRule(kind, app, form, key) ==
    LET others == {r \in ui.bundle.rules : ~ruleMatches(r, kind, app, form)}
        one == [kind |-> kind, app |-> app, form |-> normalizeRuleValue(kind, form)]
    IN persistPolicy(IF ruleIsBlocked(ui.bundle, kind, app, form) THEN others ELSE others \cup {one},
                     key, [app |-> app, paths |-> {}])

toggleCustomRule(v) ==
    /\ normalizeRuleValue(v.kind, v.form) # ""
    /\ ToggleRule(v.kind, v.app, v.form, [button |-> "custom", app |-> v.app])

togglePreset(app) == ToggleRule("basename", app, "exe", [button |-> "preset", app |-> app])

removeRule(rule) ==
    persistPolicy(ui.bundle.rules \ {rule}, [button |-> "remove", app |-> rule.app],
                  [app |-> rule.app, paths |-> {}])

-----------------------------------------------------------------------------
Init ==
    /\ server \in [global : GlobalBundles, device : {NoPolicy}, failures : {0}]
    /\ ui = [bundle |-> DEFAULT_BUNDLE, loadingPolicy |-> TRUE, savingKey |-> NoKey,
             saves |-> 0, serial |-> TRUE]
    /\ calls = [load |-> [phase |-> "sent"], saves |-> [s \in Slots |-> Idle]]

Next ==
    \/ loadPolicy \/ ShowPolicy \/ LoadAnswer
    \/ \E s \in Slots : StorePolicy(s) \/ SaveAnswer(s)
    \/ \E found \in extractDiscoveredApps : toggleDiscoveredApp(found)
    \/ \E v \in Typed : toggleCustomRule(v)
    \/ \E app \in Apps : togglePreset(app)
    \/ \E rule \in ui.bundle.rules : removeRule(rule)

\* Calls are answered, if only by an error.
FairStep(i) ==
    \/ i = 1 /\ (ShowPolicy \/ LoadAnswer)
    \/ i \in 2 .. 3 /\ (StorePolicy(i - 1) \/ SaveAnswer(i - 1))

Spec == Init /\ [][Next]_panelVars /\ \A i \in 1 .. 3 : WF_panelVars(FairStep(i))

-----------------------------------------------------------------------------
(* Properties *)

Blocks(bundle, app) == appIsBlocked(bundle, [app |-> app, paths |-> {"path"}])

\* A save that lands on the policy it was computed from does what its button
\* said: the row's application changes sides and, while the policy was on,
\* no other application does.
RowFlipsItsApp ==
    \A s \in Slots :
        LET save == calls.saves[s] IN
        (save.phase = "sent" /\ save.found.paths # {} /\ coerceBundle(Effective) = save.base
           /\ calls'.saves[s].phase = "answered" /\ server'.device = save.next)
        => \A app \in Apps :
             IF app = save.found.app
             THEN appIsBlocked(server'.device, save.found) # appIsBlocked(save.base, save.found)
             ELSE save.base.enabled => Blocks(server'.device, app) = Blocks(save.base, app)

\* Whoever waits for each answer before the next click, and meets no error,
\* sees the policy the device has.
SerialPanelIsTrue ==
    (ui.serial /\ server.failures = 0 /\ calls.load = Idle /\ \A s \in Slots : calls.saves[s] = Idle)
        => ui.bundle = coerceBundle(Effective)

\* Every button comes back: no error path leaves a key or the spinner set.
PanelSettles == ui.savingKey = NoKey /\ ~ui.loadingPolicy
=============================================================================
