----------------------------- MODULE DeviceDetail -----------------------------
(* One visit of the device detail page (DeviceDetailPageContent.tsx): the    *)
(* seven fetches of loadDeviceData, started by the mount, the Refresh        *)
(* button, the polling timer and the end of every dispatch; dispatchCommand  *)
(* with its polling loop; and the commands of the device in the control      *)
(* plane.  Answers return in any order and nothing cancels an older load.    *)
EXTENDS Naturals, FiniteSets

CONSTANTS
    MaxCommands,  \* commands this visit may create
    OutcomeOf,    \* the state each of them ends in
    PageLoads,    \* loads of the page itself under way together
    MaxPolls,     \* rounds of the polling loop that fit into its 90 seconds
    MaxFailures   \* answers of the console's API that are not ok

VARIABLES
    ui,      \* the page's React state
    server,  \* the control plane: the device's commands and its presence
    calls    \* calls.loads: loads under way; calls.loops: one per dispatch

detailVars == <<ui, server, calls>>

Terminal == {"completed", "failed"}
CommandStates == {"none", "queued"} \cup Terminal
Commands == 1 .. MaxCommands   \* numbered as the page sends them
PageCallers == MaxCommands + 1 .. MaxCommands + PageLoads
Callers == Commands \cup PageCallers
NoLive == [command |-> 0, state |-> "none"]
Idle == [phase |-> "idle"]
Loop(p, s, n) == [phase |-> p, state |-> s, round |-> n]

isTerminalState(s) == s \in Terminal

\* What a load shows of the device: getFallbackDevice when its answer is not ok.
getFallbackDevice == "offline"

\* The list of the device's commands, emptied when its answer is not ok.
NoHistory == [c \in Commands |-> "none"]

Fails(n) == server.failures + n <= MaxFailures

-----------------------------------------------------------------------------
(* loadDeviceData *)

Reading == [phase |-> "reading"]

StartLoad(s) ==
    /\ calls.loads[s] = Idle
    /\ calls' = [calls EXCEPT !.loads[s] = Reading]
    /\ UNCHANGED <<ui, server>>

\* The seven answers are in: each is what the control plane said when it was
\* asked, or a failure of its own, which costs the page that part only.
LoadRead(s) ==
    /\ calls.loads[s] = Reading
    /\ \E dev, hist, caps \in BOOLEAN :
          LET lost == Cardinality({p \in {<<1, dev>>, <<2, hist>>, <<3, caps>>} : ~p[2]})
          IN /\ Fails(lost)
             /\ server' = [server EXCEPT !.failures = @ + lost]
             /\ calls' = [calls EXCEPT !.loads[s] =
                    [phase |-> "answered", caps |-> caps,
                     device |-> IF dev THEN server.presence ELSE getFallbackDevice,
                     history |-> IF hist THEN server.commands ELSE NoHistory]]
    /\ UNCHANGED ui

\* Every part is written over what is shown, however long ago it was read (the
\* newest row may have waited for its detail); the dispatch that awaited it ends.
LoadApply(s) ==
    LET load == calls.loads[s] IN
    /\ load # Idle /\ load.phase = "answered"
    /\ ui' = [ui EXCEPT !.device = load.device, !.history = load.history, !.capabilities = load.caps,
                        !.dispatching = IF s \in Commands THEN FALSE ELSE @]
    /\ calls' = [loads |-> [calls.loads EXCEPT ![s] = Idle],
                 loops |-> IF s \in Commands THEN [calls.loops EXCEPT ![s] = Idle]
                                             ELSE calls.loops]
    /\ UNCHANGED server

Refresh == \E s \in PageCallers : StartLoad(s)

\* The interval of the visibility effect, 5 s or 30 s apart.
Poll == \E s \in PageCallers : StartLoad(s)

-----------------------------------------------------------------------------
(* dispatchCommand *)

getCommandBlockReason == IF ui.capabilities THEN "none" ELSE "unknown_command"

dispatchCommand(c) ==
    /\ c = ui.sent + 1
    /\ getCommandBlockReason = "none"
    /\ ui' = [ui EXCEPT !.dispatching = TRUE, !.sent = c]
    /\ calls' = [calls EXCEPT !.loops[c] = Loop("posting", "none", 0)]
    /\ UNCHANGED server

\* The Execute button of the Commands tab.
Execute(c) ==
    /\ ~ui.dispatching /\ ui.device = "online"
    /\ dispatchCommand(c)

\* The Replay button of a row of the History tab looks at the block reason only.
Replay(c) ==
    /\ \E d \in Commands : ui.history[d] # "none"
    /\ dispatchCommand(c)

\* POST /api/commands is answered with the new command: the Trace tab opens.
PostAnswer(c) ==
    /\ calls.loops[c] = Loop("posting", "none", 0)
    /\ server' = [server EXCEPT !.commands[c] = "queued"]
    /\ ui' = [ui EXCEPT !.live = [command |-> c, state |-> "queued"]]
    /\ calls' = [calls EXCEPT !.loops[c] = Loop("asking", "none", 0)]

\* Mutant: the catch leaves the dispatch button disabled.
DispatchFailsDisabled(c) ==
    /\ calls.loops[c] # Idle /\ calls.loops[c].phase \in {"posting", "asking"}
    /\ Fails(1)
    /\ server' = [server EXCEPT !.failures = @ + 1]
    /\ calls' = [calls EXCEPT !.loops[c] = Idle]
    /\ UNCHANGED ui

\* A post, or a round of the loop, that is not ok throws; finally ends the dispatch.
DispatchFails(c) ==
    /\ calls.loops[c] # Idle /\ calls.loops[c].phase \in {"posting", "asking"}
    /\ Fails(1)
    /\ server' = [server EXCEPT !.failures = @ + 1]
    /\ ui' = [ui EXCEPT !.dispatching = FALSE]
    /\ calls' = [calls EXCEPT !.loops[c] = Idle]

\* GET /api/commands/{id} reads the state, ...
PollRead(c) ==
    /\ calls.loops[c] # Idle /\ calls.loops[c].phase = "asking"
    /\ calls' = [calls EXCEPT !.loops[c].phase = "told", !.loops[c].state = server.commands[c]]
    /\ UNCHANGED <<ui, server>>

\* ... which setLiveResults writes over whatever the Trace tab shows, keeping
\* the command id that is there.  A terminal state ends the loop with a load.
PollAnswer(c) ==
    LET loop == calls.loops[c] IN
    /\ loop # Idle /\ loop.phase = "told"
    /\ LET live == IF ui.live = NoLive THEN c ELSE ui.live.command IN
       IF isTerminalState(loop.state)
       THEN /\ calls' = [loads |-> [calls.loads EXCEPT ![c] = Reading],
                         loops |-> [calls.loops EXCEPT ![c] = Loop("loading", loop.state, 0)]]
            /\ ui' = [ui EXCEPT !.live = [command |-> live, state |-> loop.state]]
       ELSE /\ calls' = [calls EXCEPT !.loops[c] = Loop("sleeping", "none", loop.round)]
            /\ ui' = [ui EXCEPT !.live = [command |-> live, state |-> loop.state]]
    /\ UNCHANGED server

\* Mutant: a loop that gives up reports the command failed.
PollWakesInFailure(c) ==
    LET loop == calls.loops[c] IN
    /\ loop # Idle /\ loop.phase = "sleeping"
    /\ IF loop.round < MaxPolls
       THEN /\ calls' = [calls EXCEPT !.loops[c] = Loop("asking", "none", loop.round + 1)]
            /\ UNCHANGED ui
       ELSE /\ calls' = [calls EXCEPT !.loops[c] = Idle]
            /\ ui' = [ui EXCEPT !.dispatching = FALSE, !.live.state = "failed"]
    /\ UNCHANGED server

\* Two seconds later: another round, or the error of the 90 second limit.
PollWakes(c) ==
    LET loop == calls.loops[c] IN
    /\ loop # Idle /\ loop.phase = "sleeping"
    /\ IF loop.round < MaxPolls
       THEN /\ calls' = [calls EXCEPT !.loops[c] = Loop("asking", "none", loop.round + 1)]
            /\ UNCHANGED ui
       ELSE /\ calls' = [calls EXCEPT !.loops[c] = Idle]
            /\ ui' = [ui EXCEPT !.dispatching = FALSE]
    /\ UNCHANGED server

-----------------------------------------------------------------------------
\* The device works on a command (the control plane's own life cycle).
Progress(c) ==
    /\ server.commands[c] = "queued"
    /\ server' = [server EXCEPT !.commands[c] = OutcomeOf[c]]
    /\ UNCHANGED <<ui, calls>>

Init ==
    /\ server = [commands |-> NoHistory, presence |-> "online", failures |-> 0]
    /\ ui = [device |-> getFallbackDevice, history |-> NoHistory, capabilities |-> FALSE,
             live |-> NoLive, dispatching |-> FALSE, sent |-> 0]
    /\ calls = [loads |-> [s \in Callers |->
                   IF s = MaxCommands + 1 THEN Reading ELSE Idle],
                loops |-> [c \in Commands |-> Idle]]

LoadStep(s) == LoadRead(s) \/ LoadApply(s)

LoopStep(c) ==
    PostAnswer(c) \/ DispatchFails(c) \/ PollRead(c) \/ PollAnswer(c) \/ PollWakes(c)

Next ==
    \/ Refresh
    \/ Poll
    \/ \E s \in Callers : LoadStep(s)
    \/ \E c \in Commands : Execute(c) \/ Replay(c) \/ LoopStep(c) \/ Progress(c)

\* Fetches are answered or fail and timers fire; the device owes no progress.
FairStep(i) ==
    \/ i = 1 /\ Poll
    \/ \E s \in Callers : i = 1 + s /\ LoadStep(s)
    \/ \E c \in Commands : i = 1 + MaxCommands + PageLoads + c /\ LoopStep(c)

Spec == Init /\ [][Next]_detailVars
             /\ \A i \in 1 .. 1 + 2 * MaxCommands + PageLoads : WF_detailVars(FairStep(i))

-----------------------------------------------------------------------------
(* Properties *)

\* An outcome in the Trace tab is backed by a command of this visit that has it:
\* a late round of a loop may show another command's outcome, never an invented one.
OutcomeIsBacked ==
    isTerminalState(ui.live.state) =>
        \E c \in Commands : server.commands[c] = ui.live.state

\* The buttons never stay locked: a dispatch ends by an outcome, an error or
\* the loop's 90 second limit.
DispatchEnds == ~ui.dispatching

\* Once answers stop failing the page tells the truth for good: the history it
\* shows is the control plane's, and no older load overtakes it any more.
HistoryCatchesUp == ui.history = server.commands
=============================================================================
