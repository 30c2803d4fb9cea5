------------------------------ MODULE MCConsole ------------------------------
(***************************************************************************)
(* The pages, panels and dialogs of the console, each with the part of the *)
(* control plane it talks to.  One of them is open in a behaviour: a page  *)
(* of Next.js is unmounted, with all its state, before another is shown.   *)
(***************************************************************************)
EXTENDS RequestPages, LoadPages

\* Dashboard: commands of one second, and of different ones.
SomeQueues == {<<0, 1, 1>>, <<0, 1, 2>>, <<1, 2, 2>>}

-----------------------------------------------------------------------------
(* Instances: the other pages, with their bounds *)

Detail == INSTANCE DeviceDetail WITH
    MaxCommands <- 2, OutcomeOf <- <<"completed", "failed">>, PageLoads <- 1, MaxPolls <- 1, MaxFailures <- 1

\* One application reports a path and a name, the other a path and a name that
\* is none; the policy of the fleet locks the first by its path only.
Panel == INSTANCE AppLockPanel WITH
    Apps <- {"a", "b"},
    Processes <- {[app |-> "a", name |-> "exe", path |-> "rawpath"],
                  [app |-> "b", name |-> "dotted", path |-> "rawpath"]},
    GlobalBundles <- {[enabled |-> FALSE, rules |-> {[kind |-> "full_path", app |-> "a", form |-> "rawpath"],
                                                     [kind |-> "basename", app |-> "b", form |-> "exe"]}],
                      [enabled |-> TRUE, rules |-> {[kind |-> "full_path", app |-> "a", form |-> "rawpath"]}]},
    Typed <- {[kind |-> "basename", app |-> "a", form |-> "bare"],
              [kind |-> "full_path", app |-> "b", form |-> "blank"]},
    MaxSaves <- 2, MaxFailures <- 1

Ask == INSTANCE Copilot WITH MaxAsks <- 2, MaxRenames <- 2, MaxFailures <- 2
Admin == INSTANCE Settings WITH MaxOps <- 2, MaxEdits <- 1, MaxFailures <- 1
Lock == INSTANCE AppLockManager WITH MaxActs <- 4, MaxFailures <- 1
Hooks == INSTANCE WebhooksPage WITH MaxActs <- 2, MaxFailures <- 1
Charts == INSTANCE Telemetry WITH MaxActs <- 2, MaxFailures <- 1, MaxLoads <- 1
Fleet == INSTANCE DeviceManagement WITH
    Linked <- {1}, MaxActs <- 1, MaxFailures <- 1, MaxOverruns <- 1, MaxChanges <- 1
Inbox == INSTANCE Notifications WITH MaxActs <- 2, MaxFailures <- 1, MaxOverruns <- 0
Result == INSTANCE ResultRenderer WITH
    RowLimit <- 2,
    Methods <- {"collect_system_info", "ping", "process-list", "list_services", "list_mounts", "netstat",
                "network_info", "get_active_window", "filesystem", "download_file", "screenshot", "reboot_device"},
    States <- {"executing", "completed", "failed", "unknown"}

-----------------------------------------------------------------------------
(* The console *)

Init ==
    \/ RequestInit
    \/ LoadInit
    \/ On("detail") /\ Detail!Init
    \/ On("panel") /\ Panel!Init
    \/ On("copilot") /\ Ask!Init
    \/ On("settings") /\ Admin!Init
    \/ On("applock") /\ Lock!Init
    \/ On("webhooks") /\ Hooks!Init
    \/ On("telemetry") /\ Charts!Init
    \/ On("fleet") /\ Fleet!Init
    \/ On("notifications") /\ Inbox!Init
    \/ On("result") /\ Result!Init

Step ==
    \/ RequestStep
    \/ LoadStep
    \/ On("detail") /\ Detail!Next
    \/ On("panel") /\ Panel!Next
    \/ On("copilot") /\ Ask!Next
    \/ On("settings") /\ Admin!Next
    \/ On("applock") /\ Lock!Next
    \/ On("webhooks") /\ Hooks!Next
    \/ On("telemetry") /\ Charts!Next
    \/ On("fleet") /\ Fleet!Next
    \/ On("notifications") /\ Inbox!Next
    \/ On("result") /\ Result!Next

Next == Step /\ UNCHANGED view

FairStep(i) ==
    /\ \/ On("detail") /\ Detail!FairStep(i)
       \/ On("panel") /\ Panel!FairStep(i)
       \/ On("copilot") /\ Ask!FairStep(i)
       \/ On("settings") /\ Admin!FairStep(i)
       \/ On("applock") /\ Lock!FairStep(i)
       \/ On("webhooks") /\ Hooks!FairStep(i)
       \/ On("scheduling") /\ Jobs!FairStep(i)
       \/ On("dashboard") /\ Home!FairStep(i)
       \/ On("telemetry") /\ Charts!FairStep(i)
       \/ On("dialogs") /\ Dialogs!FairStep(i)
       \/ On("operator") /\ Operator!FairStep(i)
       \/ On("fleet") /\ Fleet!FairStep(i)
       \/ On("queue") /\ Queue!FairStep(i)
       \/ On("files") /\ Files!FairStep(i)
       \/ On("notifications") /\ Inbox!FairStep(i)
       \/ On("alerts") /\ Alarms!FairStep(i)
    /\ UNCHANGED view

\* No page has more than six things that must go on.
Spec == Init /\ [][Next]_vars /\ \A i \in 1 .. 6 : WF_vars(FairStep(i))

-----------------------------------------------------------------------------
(* Safety: invariants *)

\* What a page reports is what the control plane has, however late or in
\* whatever order the answers come: an outcome in the Trace tab (a polling loop
\* that gives up invents none), "Network snapshot commands dispatched" (both
\* commands exist), an acknowledged alert, the count of a batch, the retries
\* queued, and a badge that never counts fewer than the unread rows.
ReportsAreBacked ==
    /\ On("detail") => Detail!OutcomeIsBacked
    /\ On("telemetry") => Charts!SnapshotIsWhole
    /\ On("operator") => Operator!AckIsBacked
    /\ On("fleet") => Fleet!BatchReportIsTrue
    /\ On("queue") => Queue!RetriesAreBacked
    /\ On("notifications") => Inbox!BadgeCoversUnread

\* Whoever waits for each answer, and meets no error, sees what is in force: the
\* merged policy in the app lock panel; the fleet's policy in the manager, where
\* a policy stored but not pushed stays unsaved; endpoints and secrets on the
\* webhooks page; the charts of the device that is selected.
SerialPagesAreTrue ==
    /\ On("panel") => Panel!SerialPanelIsTrue
    /\ On("applock") => Lock!SerialPolicyIsShown
    /\ On("webhooks") => Hooks!SerialPageIsTrue
    /\ On("telemetry") => Charts!SerialDeviceIsShown

\* What a page points at is there and current, whatever order loads, deletions,
\* answers and clicks come in: the spinner of the copilot, the draft Save Member
\* looks for, the selected schedule, the devices of a batch, the device in the
\* drawer, the entry selected in a folder, the step Back and Forward go to.
PointersAreCurrent ==
    /\ On("copilot") => Ask!SpinnerIsCurrent
    /\ On("settings") => Admin!SaveHasDraft
    /\ On("scheduling") => Jobs!SelectionIsListed
    /\ On("fleet") => Fleet!SelectionIsListed /\ Fleet!DrawerIsLastOpened
    /\ On("files") => Files!SelectionIsHere /\ Files!TrailHasNoRepeats

\* Command results, for every method, state and payload: the Diagnostics tab
\* reports an error exactly for a command that failed, was rejected or expired;
\* what the device or the table cut is told; a capture without its file and a
\* window nobody saw are told, and one that came is not called missing.
ResultsAreHonest ==
    On("result") => Result!FailureIsTold /\ Result!CutIsTold /\ Result!GapsAreTold

-----------------------------------------------------------------------------
(* Safety: what a step never does *)

\* A click does what its label says and no more: a save that lands on the policy
\* it was computed from moves the application of its row and no other; a rule
\* that leaves the manager unblocks its application; a question to the copilot
\* ends with its answer, or with the notice and the error.
ClicksDoWhatTheySay ==
    [][/\ On("panel") => Panel!RowFlipsItsApp
       /\ On("applock") => Lock!RemovalUnblocks
       /\ On("copilot") => Ask!AskEndsVisibly]_vars

-----------------------------------------------------------------------------
(* Liveness *)

\* Once clicks and failures are over, every page that polls comes to show what
\* the control plane holds and goes on showing it: no late answer, refused
\* request or aborted load is on the screen for ever.
PagesAgree ==
    <>[]/\ On("detail") => Detail!HistoryCatchesUp
        /\ On("settings") => Admin!SettingsAgree
        /\ On("scheduling") => Jobs!PageAgrees
        /\ On("dashboard") => Home!DashboardCatchesUp
        /\ On("operator") => Operator!OperatorAgrees
        /\ On("fleet") => Fleet!FleetAgrees
        /\ On("queue") => Queue!QueueAgrees
        /\ On("notifications") => Inbox!NotificationsAgree
        /\ On("alerts") => Alarms!AlertsAgree

\* Whatever fails, no spinner turns and no button stays disabled for ever: every
\* path through a handler, an abort or a lost answer included, clears the flag
\* the handler set.  The telemetry page also stops loading, though two loads may
\* set the selection back and forth between them.
FlagsClear ==
    /\ []<>(/\ On("detail") => Detail!DispatchEnds
            /\ On("panel") => Panel!PanelSettles
            /\ On("copilot") => Ask!CopilotSettles
            /\ On("webhooks") => Hooks!PageRests
            /\ On("dashboard") => Home!RefreshEnds
            /\ On("telemetry") => Charts!TelemetryRests
            /\ On("applock") => Lock!ManagerRests
            /\ On("dialogs") => Dialogs!DispatchRests
            /\ On("fleet") => Fleet!BatchRests
            /\ On("queue") => Queue!RetryRests
            /\ On("files") => Files!HydrationRests)
    /\ []<>(On("telemetry") => Charts!LoadingRests)
=============================================================================
