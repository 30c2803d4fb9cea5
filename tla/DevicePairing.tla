---------------------------- MODULE DevicePairing ----------------------------
(***************************************************************************)
(* The pairing modal of the console against the pairing sessions of the    *)
(* control plane: a code is shown, a device presents it, the user answers  *)
(* the ownership challenge, the device becomes theirs.                     *)
(*                                                                         *)
(* The modal polls every three seconds without waiting for the previous    *)
(* answer, counts down a clock of its own, may be restarted or closed while*)
(* a confirmation is under way, and several devices may present the code.  *)
(* A poll's answer is what the session held when the control plane read it;*)
(* answers arrive in any order.                                            *)
(***************************************************************************)
EXTENDS Naturals, FiniteSets, Sequences

CONSTANTS
    Devices,
    MaxPairSessions, \* pairing sessions opened
    MaxRequests,    \* times devices present a code
    MaxPolls,       \* poll answers under way at a time
    MaxLost         \* answers lost in transit

NoDevice == "none"
Pending == {"pending_agent", "pending_confirmation"}

VARIABLES
    step,           \* the modal's step, "closed" when it is not mounted
    pairSessionId,  \* the session the modal shows, 0 when none
    pairToken,      \* the token the last answer brought, 0 when none
    pendingDevice,  \* the device the last answer brought, or NoDevice
    typed,          \* the device whose name and suffix are in the inputs
    busy,           \* POST /pair/init is under way
    confirming,     \* the modal waits for POST /pair/confirm
    polls,          \* poll answers under way for the running poll effect
    inits,          \* pair/init answers under way: session numbers, 0 a failure
    confirms,       \* confirmations under way
    cache,          \* the control plane's pair_session_ cache entries
    opened,         \* sessions opened so far
    tokenOf,        \* the device each pair token was issued to
    lost,           \* answers lost so far
    presented,      \* history: devices that presented a code
    challenged,     \* history: devices whose challenge was answered
    owned           \* devices that belong to the user

modal == <<step, pairSessionId, pairToken, pendingDevice, typed, busy, confirming>>
server == <<cache, opened, tokenOf, presented, owned>>
pairingVars == <<modal, polls, inits, confirms, server, lost, challenged>>

-----------------------------------------------------------------------------
\* The control plane (PairingController)

\* init: a session that waits for an agent.
NewCache(s) == [status |-> "pending_agent", token |-> 0, device |-> NoDevice]

\* request: a device presents the code of session s; the latest one counts.
PairRequest(d, s) ==
    /\ s \in 1 .. opened /\ cache[s].status \in Pending
    /\ Len(tokenOf) < MaxRequests
    /\ tokenOf' = Append(tokenOf, d)
    /\ cache' = [cache EXCEPT ![s] = [status |-> "pending_confirmation",
                                      token |-> Len(tokenOf) + 1, device |-> d]]
    /\ presented' = presented \cup {d}
    /\ UNCHANGED <<modal, polls, inits, confirms, opened, owned, lost, challenged>>

\* The cache entry of a session reaches its expiry.
SessionExpires(s) ==
    /\ s \in 1 .. opened /\ cache[s].status \in Pending
    /\ cache' = [cache EXCEPT ![s].status = "gone"]
    /\ UNCHANGED <<modal, polls, inits, confirms, opened, tokenOf, presented, owned,
                   lost, challenged>>

\* confirm: an entry that is gone is reported with status 200, a token that is
\* not the session's with 401; the session's own token makes the device the
\* user's and ends the session.
ConfirmRoute(c) ==
    /\ c \in confirms /\ c.answer = NoDevice
    /\ LET entry == cache[c.session]
           ok == entry.status # "gone" /\ entry.token = c.token
       IN  /\ confirms' = (confirms \ {c}) \cup
                  {[c EXCEPT !.answer = IF ok \/ entry.status = "gone" THEN "2xx" ELSE "401"]}
           /\ owned' = IF ok THEN owned \cup {tokenOf[c.token]} ELSE owned
           /\ cache' = IF ok THEN [cache EXCEPT ![c.session].status = "gone"] ELSE cache
    /\ UNCHANGED <<modal, polls, inits, opened, tokenOf, presented, lost, challenged>>

-----------------------------------------------------------------------------
\* The modal

\* Both effects depend on the step: a new step cancels the running polls.
SetStep(next) ==
    /\ step' = next
    /\ polls' = IF next = step THEN polls ELSE {}

Open ==
    /\ step = "closed"
    /\ SetStep("init")
    /\ UNCHANGED <<pairSessionId, pairToken, pendingDevice, typed, busy, confirming,
                   inits, confirms, server, lost, challenged>>

\* resetState, apart from the step.
resetState ==
    /\ pairSessionId' = 0 /\ pairToken' = 0 /\ pendingDevice' = NoDevice
    /\ typed' = NoDevice /\ confirming' = FALSE

\* onClose: the component unmounts; what it awaits no longer reaches it.
Close ==
    /\ step # "closed"
    /\ SetStep("closed") /\ resetState
    /\ busy' = FALSE
    /\ inits' = {}
    /\ confirms' = {[c EXCEPT !.live = FALSE] : c \in confirms}
    /\ UNCHANGED <<server, lost, challenged>>

\* startPairing up to its await; the control plane opens a session, or fails.
startPairing(ok) ==
    /\ busy' = TRUE
    /\ \/ /\ ok /\ opened < MaxPairSessions
          /\ opened' = opened + 1
          /\ cache' = [cache EXCEPT ![opened + 1] = NewCache(opened + 1)]
          /\ inits' = inits \cup {opened + 1}
          /\ UNCHANGED lost
       \/ /\ ~ok /\ lost < MaxLost /\ lost' = lost + 1
          /\ inits' = inits \cup {0}
          /\ UNCHANGED <<opened, cache>>

\* "Generate Pair Code", disabled while busy.
Generate(ok) ==
    /\ step = "init" /\ ~busy
    /\ startPairing(ok)
    /\ UNCHANGED <<step, pairSessionId, pairToken, pendingDevice, typed, confirming,
                   polls, confirms, tokenOf, presented, owned, challenged>>

\* handleRestart, offered by the challenge and by the expired and error steps.
\* It is not disabled while a confirmation is under way.
handleRestart(ok) ==
    /\ step \in {"pending_confirmation", "expired", "error"}
    /\ SetStep("init") /\ resetState
    /\ startPairing(ok)
    /\ UNCHANGED <<confirms, tokenOf, presented, owned, challenged>>

\* startPairing after its await.
InitAnswer(s) ==
    /\ s \in inits
    /\ inits' = inits \ {s}
    /\ busy' = FALSE
    /\ IF s # 0
       THEN /\ SetStep("pending_agent")
            /\ pairSessionId' = s /\ pairToken' = 0 /\ pendingDevice' = NoDevice
            /\ typed' = NoDevice
       ELSE /\ SetStep("error")
            /\ UNCHANGED <<pairSessionId, pairToken, pendingDevice, typed>>
    /\ UNCHANGED <<confirming, confirms, server, lost, challenged>>

\* The countdown reaches zero on the browser's clock.
CountdownEnds ==
    /\ step \in Pending
    /\ SetStep("expired")
    /\ UNCHANGED <<pairSessionId, pairToken, pendingDevice, typed, busy, confirming,
                   inits, confirms, server, lost, challenged>>

\* The control plane reads the session for a poll (session).
PollRead ==
    /\ step \in Pending /\ pairSessionId # 0
    /\ Cardinality(polls) < MaxPolls
    /\ polls' = polls \cup {cache[pairSessionId]}
    /\ UNCHANGED <<modal, inits, confirms, server, lost, challenged>>

\* Mutant: the token is taken from the first answer only.
PollAnswerFirstToken(a) ==
    /\ a \in polls
    /\ step' = IF a.status = "gone" THEN "expired"
               ELSE IF a.device # NoDevice THEN "pending_confirmation" ELSE step
    /\ polls' = IF step' = step THEN polls \ {a} ELSE {}
    /\ pairToken' = IF a.status # "gone" /\ pairToken = 0 THEN a.token ELSE pairToken
    /\ pendingDevice' = IF a.status = "pending_confirmation" THEN a.device ELSE pendingDevice
    /\ UNCHANGED <<pairSessionId, typed, busy, confirming, inits, confirms, server,
                   lost, challenged>>

\* Mutant: a 404 is taken for an error that passes.
PollAnswerIgnoresGone(a) ==
    /\ a \in polls
    /\ step' = IF a.status # "gone" /\ a.device # NoDevice THEN "pending_confirmation" ELSE step
    /\ polls' = IF step' = step THEN polls \ {a} ELSE {}
    /\ pairToken' = IF a.status # "gone" /\ a.token # 0 THEN a.token ELSE pairToken
    /\ pendingDevice' = IF a.status = "pending_confirmation" THEN a.device ELSE pendingDevice
    /\ UNCHANGED <<pairSessionId, typed, busy, confirming, inits, confirms, server,
                   lost, challenged>>

\* pollOnce after its await: token and device come from one answer. An entry
\* that is gone is a 404.
PollAnswer(a) ==
    /\ a \in polls
    /\ step' = IF a.status = "gone" THEN "expired"
               ELSE IF a.device # NoDevice THEN "pending_confirmation" ELSE step
    /\ polls' = IF step' = step THEN polls \ {a} ELSE {}
    /\ pairToken' = IF a.status # "gone" /\ a.token # 0 THEN a.token ELSE pairToken
    /\ pendingDevice' = IF a.status = "pending_confirmation" THEN a.device ELSE pendingDevice
    /\ UNCHANGED <<pairSessionId, typed, busy, confirming, inits, confirms, server,
                   lost, challenged>>

\* A poll is answered with another error, or not at all: the modal goes on.
PollFails(a) ==
    /\ a \in polls /\ lost < MaxLost
    /\ lost' = lost + 1
    /\ polls' = polls \ {a}
    /\ UNCHANGED <<modal, inits, confirms, server, challenged>>

\* The user copies name and suffix of the device shown into the inputs.
TypeChallenge ==
    /\ step = "pending_confirmation" /\ typed # pendingDevice
    /\ typed' = pendingDevice
    /\ UNCHANGED <<step, pairSessionId, pairToken, pendingDevice, busy, confirming,
                   polls, inits, confirms, server, lost, challenged>>

\* Mutant: any name in the inputs will do.
handleConfirmAny ==
    /\ step = "pending_confirmation" /\ ~confirming
    /\ typed # NoDevice /\ pairToken # 0
    /\ confirming' = TRUE
    /\ confirms' = confirms \cup {[session |-> pairSessionId, token |-> pairToken,
                                   answer |-> NoDevice, live |-> TRUE]}
    /\ challenged' = challenged \cup {typed}
    /\ UNCHANGED <<step, pairSessionId, pairToken, pendingDevice, typed, busy, polls,
                   inits, server, lost>>

\* handleConfirm up to its await: the inputs must name the device shown now.
handleConfirm ==
    /\ step = "pending_confirmation" /\ ~confirming
    /\ typed # NoDevice /\ typed = pendingDevice /\ pairToken # 0
    /\ confirming' = TRUE
    /\ confirms' = confirms \cup {[session |-> pairSessionId, token |-> pairToken,
                                   answer |-> NoDevice, live |-> TRUE]}
    /\ challenged' = challenged \cup {typed}
    /\ UNCHANGED <<step, pairSessionId, pairToken, pendingDevice, typed, busy, polls,
                   inits, server, lost>>

\* handleConfirm after its await: any 2xx is taken for success.
ConfirmAnswer(c) ==
    /\ c \in confirms /\ c.answer # NoDevice
    /\ confirms' = confirms \ {c}
    /\ confirming' = (confirming /\ ~c.live)
    /\ IF c.live /\ c.answer = "2xx" THEN SetStep("paired") ELSE UNCHANGED <<step, polls>>
    /\ UNCHANGED <<pairSessionId, pairToken, pendingDevice, typed, busy, inits, server,
                   lost, challenged>>

\* The answer is lost: fetch throws, the modal shows the error and stays.
ConfirmLost(c) ==
    /\ c \in confirms /\ c.answer # NoDevice /\ lost < MaxLost
    /\ lost' = lost + 1
    /\ confirms' = confirms \ {c}
    /\ confirming' = (confirming /\ ~c.live)
    /\ UNCHANGED <<step, pairSessionId, pairToken, pendingDevice, typed, busy, polls,
                   inits, server, challenged>>

-----------------------------------------------------------------------------
PairingInit ==
    /\ step = "closed" /\ pairSessionId = 0 /\ pairToken = 0 /\ pendingDevice = NoDevice
    /\ typed = NoDevice /\ busy = FALSE /\ confirming = FALSE
    /\ polls = {} /\ inits = {} /\ confirms = {}
    /\ cache = [s \in 1 .. MaxPairSessions |-> [NewCache(s) EXCEPT !.status = "gone"]]
    /\ opened = 0 /\ tokenOf = <<>> /\ lost = 0
    /\ presented = {} /\ challenged = {} /\ owned = {}

ModalNext ==
    \/ Open \/ Close \/ CountdownEnds \/ PollRead \/ TypeChallenge \/ handleConfirm
    \/ \E ok \in BOOLEAN : Generate(ok) \/ handleRestart(ok)
    \/ \E s \in inits : InitAnswer(s)
    \/ \E a \in polls : PollAnswer(a) \/ PollFails(a)
    \/ \E c \in confirms : ConfirmAnswer(c) \/ ConfirmLost(c)

ServerNext ==
    \/ \E d \in Devices, s \in 1 .. opened : PairRequest(d, s)
    \/ \E s \in 1 .. opened : SessionExpires(s)
    \/ \E c \in confirms : ConfirmRoute(c)

PairingNext == ModalNext \/ ServerNext

\* The browser keeps polling and receives answers, the control plane answers
\* and its cache entries expire. The user and the devices may stop at any time,
\* and the countdown is not relied on: a browser throttles timers.
PairingFairness ==
    /\ WF_pairingVars(PollRead) /\ WF_pairingVars(\E a \in polls : PollAnswer(a))
    /\ WF_pairingVars(\E c \in confirms : ConfirmRoute(c))
    /\ WF_pairingVars(\E c \in confirms : ConfirmAnswer(c))
    /\ WF_pairingVars(\E s \in inits : InitAnswer(s))
    /\ \A s \in 1 .. MaxPairSessions : WF_pairingVars(SessionExpires(s))

PairingSpec == PairingInit /\ [][PairingNext]_pairingVars /\ PairingFairness

-----------------------------------------------------------------------------
\* Properties

\* The token the modal would confirm belongs to the device whose challenge it
\* shows, although polls overlap, devices replace each other on the same code
\* and the modal is restarted: the user never answers for one device and sends
\* the token of another.
TokenOfDeviceShown ==
    pairToken # 0 /\ pendingDevice # NoDevice => tokenOf[pairToken] = pendingDevice

\* Modal and control plane together keep the pairing promise: a device becomes
\* the user's only after it presented a code and its challenge was answered.
Promise == INSTANCE PairingPromise WITH
    Devices <- Devices, presented <- presented, challenged <- challenged, owned <- owned
KeepsPromise == Promise!Spec

\* A modal that shows a code or a challenge does not stall: it leaves both
\* even if its own countdown never fires, because the polls find the session
\* confirmed or expired.
PairingEnds == []<>(step \notin Pending)

\* "The UI should avoid stale or optimistic completion states that are not
\* backed by runtime evidence": the modal says paired only of an owned device.
PairedIsBacked == step = "paired" /\ pendingDevice # NoDevice => pendingDevice \in owned
=============================================================================
