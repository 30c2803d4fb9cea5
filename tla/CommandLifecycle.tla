------------------------- MODULE CommandLifecycle -------------------------
(***************************************************************************)
(* The life of one command row in the control plane (quoodle-control-      *)
(* plane): CommandService creates it, the queue job DispatchCommandTo-     *)
(* FastApi hands it to the gateway, ack and result webhooks move it on,    *)
(* and three writers expire it (ExpireCommandJob, commands:reconcile-stale *)
(* and CommandQueryController::expireIfNeeded).                            *)
(*                                                                         *)
(* No writer holds a lock.  Each loads the row, decides on that copy, and  *)
(* later calls $command->update, which writes only the attributes whose    *)
(* new value differs from the loaded copy (Eloquent's dirty attributes).   *)
(* So every writer is cut between its load and its update; the dispatch    *)
(* job also at its HTTP call, a webhook also at the insert of its          *)
(* idempotency key.  The one conditional update in the code (a "received"  *)
(* ack) is a single step on the row itself.                                *)
(*                                                                         *)
(* Rows share nothing the model needs, so there is one row.  The columns   *)
(* kept are state and execution_state.  The gateway and the agents are the *)
(* environment: the gateway may take the command at each post, and for     *)
(* each time it took it the device may answer once.                        *)
(***************************************************************************)
EXTENDS Naturals, FiniteSets

CONSTANTS
    Handlers,     \* web processes that serve the ack and result webhooks
    Outcomes,     \* what a device may make of a delivery
    MaxTries,     \* DispatchCommandToFastApi::$tries (120 in the code)
    MaxExpiring,  \* bound on expiry writers between load and update
    MaxCrashes    \* bound on processes killed between two statements

ASSUME LifecycleAssumption ==
    /\ Outcomes \subseteq {"completed", "failed", "refused"}
    /\ MaxTries \in Nat \ {0}
    /\ MaxExpiring \in Nat
    /\ MaxCrashes \in Nat

Terminal == {"completed", "failed", "expired", "rejected"}
Open == {"queued", "dispatched", "ack_received"}
States == Terminal \cup Open \cup {"absent"}
Execs == Terminal \cup {"queued", "dispatched", "executing", "absent"}
Rows == [state : States, exec : Execs]

Acks == {"received", "rejected"}
Results == {"executing", "completed", "failed"}
\* The event id is a hash of the payload with its timestamp: the events of
\* each delivery to the device have keys of their own.
Rounds == 1..MaxTries
Events == [kind : Acks \cup Results, round : Rounds]
NoEvent == [kind |-> "none", round |-> 0]
NoRow == [state |-> "absent", exec |-> "absent"]

Expirers == {"job", "reconcile", "show"}

VARIABLES
    row,         \* commands.state and commands.execution_state
    clock,       \* 0: before expires_at, 1: after it, 2: after the grace too
    job,         \* the dispatch job on the queue
    expirer,     \* the three expiry writers
    handler,     \* the webhook handlers
    deliveries,  \* how often the gateway took the command
    answered,    \* the deliveries the device has answered
    sent,        \* webhook events the gateway may post, again and again
    processed,   \* processed_webhook_events
    published,   \* outcomes handed to OutboundWebhookPublisher
    applied,     \* history: events whose handler reached its update
    crashes

vars == <<row, clock, job, expirer, handler, deliveries, answered, sent,
          processed, published, applied, crashes>>

outside == <<deliveries, answered, sent>>

Idle == [phase |-> "idle", loaded |-> NoRow]
NoJob == [phase |-> "gone", tries |-> 0, loaded |-> NoRow, answer |-> "none"]

Init ==
    /\ row = NoRow
    /\ clock = 0
    /\ job = NoJob
    /\ expirer = [x \in Expirers |-> IF x = "job" THEN [Idle EXCEPT !.phase = "gone"]
                                                  ELSE Idle]
    /\ handler = [h \in Handlers |-> [phase |-> "idle", loaded |-> NoRow,
                                      event |-> NoEvent]]
    /\ deliveries = 0
    /\ answered = {}
    /\ sent = {}
    /\ processed = {}
    /\ published = [o \in {"completed", "failed"} |-> 0]
    /\ applied = [e \in Events |-> 0]
    /\ crashes = 0

\* $command->update(['state' => s, 'execution_state' => x]) on a model loaded
\* as r: an attribute equal to the loaded one is not written.
Update(r, s, x) ==
    row' = [state |-> IF s # r.state THEN s ELSE row.state,
            exec |-> IF x # r.exec THEN x ELSE row.exec]

-----------------------------------------------------------------------------
(* CommandService::enqueue, past its checks.                               *)

Created == [state |-> "queued", exec |-> "queued"]
Queued == [NoJob EXCEPT !.phase = "ready"]

Enqueue ==
    /\ row = NoRow
    /\ row' = Created
    /\ job' = Queued
    /\ expirer' = [expirer EXCEPT !["job"] = Idle]
    /\ UNCHANGED <<clock, handler, outside, processed, published, applied, crashes>>

\* The request dies after the insert, before one or both jobs are dispatched.
\* A resubmission finds the row and returns it without dispatching anything.
EnqueueDies ==
    /\ row = NoRow
    /\ crashes < MaxCrashes
    /\ crashes' = crashes + 1
    /\ row' = Created
    /\ job' \in {NoJob, Queued}
    /\ UNCHANGED <<clock, expirer, handler, outside, processed, published, applied>>

-----------------------------------------------------------------------------
(* DispatchCommandToFastApi::handle and FastAPIDispatcher::dispatch.       *)

\* The job goes back to the queue, or to failed_jobs after its last try.
Requeue(j) == IF j.tries < MaxTries THEN [j EXCEPT !.phase = "ready",
                                                  !.loaded = NoRow,
                                                  !.answer = "none"]
                                    ELSE [NoJob EXCEPT !.tries = j.tries]

\* A worker takes the job, loads the command (whatever its state is) and posts.
DispatchPost ==
    /\ job.phase = "ready"
    /\ job' = [job EXCEPT !.phase = "posting", !.tries = @ + 1, !.loaded = row]
    /\ UNCHANGED <<row, clock, expirer, handler, outside, processed, published,
                   applied, crashes>>

\* The gateway's answer: it sent the command or stored it for an offline device
\* (taken), blocked it, or replied with something other than 200.
GatewayAnswers(a) ==
    /\ job.phase = "posting"
    /\ job' = [job EXCEPT !.phase = "answered", !.answer = a]
    /\ deliveries' = IF a \in {"dispatched", "queued_offline"} THEN deliveries + 1
                                                               ELSE deliveries
    /\ UNCHANGED <<row, clock, expirer, handler, answered, sent, processed,
                   published, applied, crashes>>

\* Connection refused or 5 s timeout: the client throws and the job is retried.
\* After a timeout the gateway may have taken the command all the same.
PostThrows(taken) ==
    /\ job.phase = "posting"
    /\ job' = Requeue(job)
    /\ deliveries' = IF taken THEN deliveries + 1 ELSE deliveries
    /\ UNCHANGED <<row, clock, expirer, handler, answered, sent, processed,
                   published, applied, crashes>>

\* Mutant: an answer the match does not name is stored as it came.
StateForRaw(a) ==
    CASE a = "blocked" -> "rejected"
      [] a = "queued_offline" -> "queued"
      [] OTHER -> a

StateFor(a) ==
    CASE a = "dispatched" -> "dispatched"
      [] a = "blocked" -> "rejected"
      [] OTHER -> "queued"

DispatchWrite ==
    /\ job.phase = "answered"
    /\ Update(job.loaded, StateFor(job.answer), StateFor(job.answer))
    /\ job' = [job EXCEPT !.phase = "written"]
    /\ UNCHANGED <<clock, expirer, handler, outside, processed, published,
                   applied, crashes>>

\* release(5) while the device is offline and the TTL lasts, else deleted.
DispatchEnds ==
    /\ job.phase = "written"
    /\ job' = IF job.answer = "queued_offline" /\ clock = 0
              THEN Requeue(job)
              ELSE [NoJob EXCEPT !.tries = job.tries]
    /\ UNCHANGED <<row, clock, expirer, handler, outside, processed, published,
                   applied, crashes>>

\* The worker is killed: the reserved job is handed out again (retry_after).
WorkerDies ==
    /\ job.phase \in {"posting", "answered", "written"}
    /\ crashes < MaxCrashes
    /\ crashes' = crashes + 1
    /\ job' = Requeue(job)
    /\ UNCHANGED <<row, clock, expirer, handler, outside, processed, published,
                   applied>>

-----------------------------------------------------------------------------
(* The environment: time, and the device behind the gateway.               *)

Tick ==
    /\ row # NoRow
    /\ clock < 2
    /\ clock' = clock + 1
    /\ UNCHANGED <<row, job, expirer, handler, outside, processed, published,
                   applied, crashes>>

\* What the device makes of one delivery: it acknowledges and executes (a
\* Windows agent reports progress first), or refuses a stale command.
Answers(o) ==
    IF o = "refused" THEN {"rejected", "failed"} ELSE {"received", "executing", o}

DeviceAnswers(r, o) ==
    /\ r <= deliveries
    /\ r \notin answered
    /\ answered' = answered \cup {r}
    /\ sent' = sent \cup [kind : Answers(o), round : {r}]
    /\ UNCHANGED <<row, clock, job, expirer, handler, deliveries, processed,
                   published, applied, crashes>>

-----------------------------------------------------------------------------
(* CommandAckWebhookController::store, CommandResultWebhookController::store *)
(* and WebhookIdempotency::isDuplicate.                                      *)

Free(h) == handler' = [handler EXCEPT ![h] = [phase |-> "idle", loaded |-> NoRow,
                                              event |-> NoEvent]]

\* A post of an event arrives (the outbox posts at least once): load the row.
WebhookLoads(h, e) ==
    /\ handler[h].phase = "idle"
    /\ handler' = [handler EXCEPT ![h] = [phase |-> "loaded", loaded |-> row,
                                          event |-> e]]
    /\ UNCHANGED <<row, clock, job, expirer, outside, processed, published,
                   applied, crashes>>

\* Mutant: the key is looked up but never stored.
WebhookClaimsNothing(h) ==
    /\ handler[h].phase = "loaded"
    /\ handler[h].event \notin processed
    /\ handler[h].loaded.state \notin Terminal
    /\ handler' = [handler EXCEPT ![h].phase = "claimed"]
    /\ UNCHANGED <<row, clock, job, expirer, outside, processed, published,
                   applied, crashes>>

\* Mutant: a result for a row that has its outcome already is not turned away.
WebhookClaimsOnFinalRow(h) ==
    /\ handler[h].phase = "loaded"
    /\ handler[h].event \notin processed
    /\ processed' = processed \cup {handler[h].event}
    /\ handler' = [handler EXCEPT ![h].phase = "claimed"]
    /\ UNCHANGED <<row, clock, job, expirer, outside, published, applied, crashes>>

\* isDuplicate inserts the event key and finds it new; the loaded row is open.
WebhookClaims(h) ==
    /\ handler[h].phase = "loaded"
    /\ handler[h].event \notin processed
    /\ handler[h].loaded.state \notin Terminal
    /\ processed' = processed \cup {handler[h].event}
    /\ handler' = [handler EXCEPT ![h].phase = "claimed"]
    /\ UNCHANGED <<row, clock, job, expirer, outside, published, applied, crashes>>

\* The key is new, but the loaded row has its outcome already: answer 200.
WebhookIsLate(h) ==
    /\ handler[h].phase = "loaded"
    /\ handler[h].event \notin processed
    /\ handler[h].loaded.state \in Terminal
    /\ processed' = processed \cup {handler[h].event}
    /\ Free(h)
    /\ UNCHANGED <<row, clock, job, expirer, outside, published, applied, crashes>>

\* The key exists: "idempotent", answer 200.
WebhookIsDuplicate(h) ==
    /\ handler[h].phase = "loaded"
    /\ handler[h].event \in processed
    /\ Free(h)
    /\ UNCHANGED <<row, clock, job, expirer, outside, processed, published,
                   applied, crashes>>

\* A "received" ack: one conditional UPDATE on the row as it is now. (The
\* loaded execution_state is checked first.)
AckReceived(h) ==
    LET moves == /\ handler[h].loaded.exec \notin {"completed", "failed", "expired"}
                 /\ row.state \in {"queued", "dispatched"}
                 /\ row.exec \notin {"completed", "failed", "expired"}
    IN  /\ handler[h].phase = "claimed"
        /\ handler[h].event.kind = "received"
        /\ row' = IF moves THEN [row EXCEPT !.state = "ack_received"] ELSE row
        /\ applied' = [applied EXCEPT ![handler[h].event] = @ + 1]
        /\ Free(h)
        /\ UNCHANGED <<clock, job, expirer, outside, processed, published, crashes>>

\* Any other ack fails the command, from the loaded copy.
AckRejected(h) ==
    LET skip == handler[h].loaded.exec \in {"completed", "failed", "expired"}
    IN  /\ handler[h].phase = "claimed"
        /\ handler[h].event.kind = "rejected"
        /\ IF skip THEN UNCHANGED <<row, published>>
                   ELSE /\ Update(handler[h].loaded, "failed", "failed")
                        /\ published' = [published EXCEPT !["failed"] = @ + 1]
        /\ applied' = [applied EXCEPT ![handler[h].event] = @ + 1]
        /\ Free(h)
        /\ UNCHANGED <<clock, job, expirer, outside, processed, crashes>>

\* Mutant: a progress report is taken for the final result.
StateOfResultEager(k) == IF k = "failed" THEN "failed" ELSE "completed"

StateOfResult(k) == IF k = "executing" THEN "ack_received" ELSE k

ResultApplies(h) ==
    LET k == handler[h].event.kind
    IN  /\ handler[h].phase = "claimed"
        /\ k \in Results
        /\ Update(handler[h].loaded, StateOfResult(k), k)
        /\ published' = IF k = "executing" THEN published
                        ELSE [published EXCEPT ![k] = @ + 1]
        /\ applied' = [applied EXCEPT ![handler[h].event] = @ + 1]
        /\ Free(h)
        /\ UNCHANGED <<clock, job, expirer, outside, processed, crashes>>

\* The request dies: no 200, so the gateway's outbox posts the event again.
WebhookDies(h) ==
    /\ handler[h].phase # "idle"
    /\ crashes < MaxCrashes
    /\ crashes' = crashes + 1
    /\ Free(h)
    /\ UNCHANGED <<row, clock, job, expirer, outside, processed, published, applied>>

-----------------------------------------------------------------------------
(* Expiry: ExpireCommandJob::handle, commands:reconcile-stale and           *)
(* CommandQueryController::expireIfNeeded.                                  *)

Loads(x) ==
    /\ Cardinality({y \in Expirers : expirer[y].phase = "loaded"}) < MaxExpiring
    /\ expirer' = [expirer EXCEPT ![x] = [phase |-> "loaded", loaded |-> row]]

\* The queued job is delayed until the grace is over; it loads an open row.
ExpireJobLoads ==
    /\ expirer["job"].phase = "idle"
    /\ clock = 2
    /\ row.state \notin Terminal
    /\ Loads("job")
    /\ UNCHANGED <<row, clock, job, handler, outside, processed, published,
                   applied, crashes>>

\* It finds an outcome and returns.
ExpireJobReturns ==
    /\ expirer["job"].phase = "idle"
    /\ clock = 2
    /\ row.state \in Terminal
    /\ expirer' = [expirer EXCEPT !["job"].phase = "gone"]
    /\ UNCHANGED <<row, clock, job, handler, outside, processed, published,
                   applied, crashes>>

\* Mutant: commands the device has acknowledged are not candidates.
ReconcileSkipsAcked ==
    /\ expirer["reconcile"].phase = "idle"
    /\ clock = 2
    /\ row.state \in Open \ {"ack_received"}
    /\ Loads("reconcile")
    /\ UNCHANGED <<row, clock, job, handler, outside, processed, published,
                   applied, crashes>>

\* The scheduler runs every minute, never twice at a time.
ReconcileLoads ==
    /\ expirer["reconcile"].phase = "idle"
    /\ clock = 2
    /\ row.state \in Open
    /\ Loads("reconcile")
    /\ UNCHANGED <<row, clock, job, handler, outside, processed, published,
                   applied, crashes>>

\* Mutant: the grace period is not waited for.
ShowLoadsEarly ==
    /\ expirer["show"].phase = "idle"
    /\ clock >= 1
    /\ row.state \in Open
    /\ Loads("show")
    /\ UNCHANGED <<row, clock, job, handler, outside, processed, published,
                   applied, crashes>>

\* A client reads an open command past its grace.
ShowLoads ==
    /\ expirer["show"].phase = "idle"
    /\ clock = 2
    /\ row.state \in Open
    /\ Loads("show")
    /\ UNCHANGED <<row, clock, job, handler, outside, processed, published,
                   applied, crashes>>

Expires(x) ==
    /\ expirer[x].phase = "loaded"
    /\ Update(expirer[x].loaded, "expired", "expired")
    /\ expirer' = [expirer EXCEPT ![x] = IF x = "job" THEN [Idle EXCEPT !.phase = "gone"]
                                                      ELSE Idle]
    /\ UNCHANGED <<clock, job, handler, outside, processed, published, applied,
                   crashes>>

\* The process is killed before its update; all three run again later.
ExpirerDies(x) ==
    /\ expirer[x].phase = "loaded"
    /\ crashes < MaxCrashes
    /\ crashes' = crashes + 1
    /\ expirer' = [expirer EXCEPT ![x] = Idle]
    /\ UNCHANGED <<row, clock, job, handler, outside, processed, published, applied>>

-----------------------------------------------------------------------------
Next ==
    \/ Enqueue
    \/ EnqueueDies
    \/ DispatchPost
    \/ \E a \in {"dispatched", "queued_offline", "blocked", "backpressure"} :
          GatewayAnswers(a)
    \/ \E taken \in BOOLEAN : PostThrows(taken)
    \/ DispatchWrite
    \/ DispatchEnds
    \/ WorkerDies
    \/ Tick
    \/ \E r \in Rounds, o \in Outcomes : DeviceAnswers(r, o)
    \/ \E h \in Handlers, e \in sent : WebhookLoads(h, e)
    \/ \E h \in Handlers : WebhookClaims(h)
    \/ \E h \in Handlers : WebhookIsLate(h)
    \/ \E h \in Handlers : WebhookIsDuplicate(h)
    \/ \E h \in Handlers : AckReceived(h)
    \/ \E h \in Handlers : AckRejected(h)
    \/ \E h \in Handlers : ResultApplies(h)
    \/ \E h \in Handlers : WebhookDies(h)
    \/ ExpireJobLoads
    \/ ExpireJobReturns
    \/ ReconcileLoads
    \/ ShowLoads
    \/ \E x \in Expirers : Expires(x)
    \/ \E x \in Expirers : ExpirerDies(x)

Spec == Init /\ [][Next]_vars

\* Time passes, the scheduler (schedule:work, restarted by its container)
\* keeps running commands:reconcile-stale, and an expiry that has loaded the
\* row runs to its update. Nothing else is assumed to run.
Fairness ==
    /\ WF_vars(Tick)
    /\ WF_vars(ReconcileLoads)
    /\ \A x \in Expirers : WF_vars(Expires(x))

FairSpec == Spec /\ Fairness

-----------------------------------------------------------------------------
Jobs == [phase : {"ready", "posting", "answered", "written", "gone"},
         tries : Nat, loaded : Rows,
         answer : {"none", "dispatched", "queued_offline", "blocked", "backpressure"}]
Expiries == [phase : {"idle", "loaded", "gone"}, loaded : Rows]
Requests == [phase : {"idle"}, loaded : Rows, event : {NoEvent}]
            \cup [phase : {"loaded", "claimed"}, loaded : Rows, event : Events]

\* The types of the row, the queue and the writers; the state column holds
\* only values the rest of the control plane knows, whatever the gateway
\* answers.
TypeOK ==
    /\ row \in Rows
    /\ clock \in 0..2
    /\ job \in Jobs
    /\ expirer \in [Expirers -> Expiries]
    /\ handler \in [Handlers -> Requests]
    /\ deliveries \in Nat
    /\ answered \in SUBSET Rounds
    /\ sent \in SUBSET Events
    /\ processed \in SUBSET Events
    /\ published \in [{"completed", "failed"} -> Nat]
    /\ applied \in [Events -> Nat]
    /\ crashes \in Nat

\* The effect of a webhook event on the row happens at most once, however
\* often the outbox posts it, however its handlers interleave and wherever
\* they die: isDuplicate inserts the key before the handler goes on.
EffectOnce == \A e \in Events : applied[e] <= 1

\* A row says "completed" only when the device reported a completed execution
\* and the control plane has taken that report; a progress report, an ack or
\* the dispatch job's stale copy never produces it.
CompletedWasReported ==
    row.state = "completed" => \E e \in processed : e.kind = "completed"

\* No writer expires a command before its TTL and the grace are over.
ExpiredAfterGrace == row.state = "expired" => clock = 2

\* Nobody is left who read the row while it was open, and the dispatch job,
\* which does not look at the state, is done.
Quiet ==
    /\ job.phase \in {"written", "gone"}
    /\ \A x \in Expirers : expirer[x].phase = "loaded" => expirer[x].loaded.state \in Terminal
    /\ \A h \in Handlers : handler[h].phase # "idle" => handler[h].loaded.state \in Terminal

\* Once an outcome is recorded and every writer that had loaded the open row
\* is through, no late, repeated or reordered webhook, no expiry run and no
\* reader changes the row again.
QuietOutcomeIsFinal == [][Quiet /\ row.state \in Terminal => UNCHANGED row]_vars

\* A handler works on an event only while it alone has claimed it, and only if
\* it loaded an open row; whatever was applied or is being applied has its key.
ClaimsAreExclusive ==
    /\ \A h \in Handlers : handler[h].phase = "claimed" =>
          /\ handler[h].event \in processed
          /\ applied[handler[h].event] = 0
          /\ handler[h].loaded.state \notin Terminal
          /\ \A g \in Handlers : handler[g].phase = "claimed"
                                   /\ handler[g].event = handler[h].event => g = h
    /\ \A e \in Events : applied[e] > 0 => e \in processed

\* An expiry writer that has loaded the row loaded it open, after the grace.
ExpirersWaited ==
    \A x \in Expirers : expirer[x].phase = "loaded" =>
        clock = 2 /\ expirer[x].loaded.state \notin Terminal

\* The inductive invariant behind the safety properties.
LifecycleInv ==
    /\ TypeOK
    /\ EffectOnce
    /\ ClaimsAreExclusive
    /\ ExpirersWaited
    /\ ExpiredAfterGrace
    /\ CompletedWasReported

\* Every accepted command gets an outcome: a lost job, a silent device, a
\* dropped webhook or a reopened row ends in expiry at the latest.
EventuallyTerminal == row.state \in Open ~> row.state \in Terminal

\* "Webhook and result handlers are designed to tolerate retries without
\* duplicating logical state transitions" (README of the control plane): the
\* outcome of a command is published once.
OutcomePublishedOnce == published["completed"] + published["failed"] <= 1

\* "Returns true if this webhook payload was already processed"
\* (WebhookIdempotency::isDuplicate): an event answered as a duplicate has had
\* its effect, or its handler found the row final.
DuplicateWasProcessed ==
    \A h \in Handlers :
        (handler[h].phase = "loaded" /\ handler[h].event \in processed
           /\ \A g \in Handlers \ {h} : handler[g].event # handler[h].event)
        => applied[handler[h].event] = 1 \/ row.state \in Terminal

\* "control->gateway is durable through queue/retry" (README): while the TTL
\* and the tries last, a command the gateway has not taken has a dispatch job.
QueuedKeepsItsJob ==
    (row.state = "queued" /\ clock = 0 /\ deliveries = 0
        /\ job.tries \in 1..(MaxTries - 1))
    => job.phase # "gone"
=============================================================================
