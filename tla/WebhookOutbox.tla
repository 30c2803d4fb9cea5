--------------------------- MODULE WebhookOutbox ---------------------------
(***************************************************************************)
(* The gateway's webhook outbox (quoodle-gateway/app/services/             *)
(* webhook_outbox.py): an SQLite table of webhook events, the coroutines   *)
(* that call enqueue_and_send, and the one background retry worker.        *)
(*                                                                         *)
(* The gateway is one asyncio process: the code between two awaits is      *)
(* atomic, and SQLite calls are synchronous.  The only await inside the    *)
(* outbox is the HTTP post in _deliver, so every operation is cut there:   *)
(* a poster (a coroutine or the worker) first has its post in flight, and  *)
(* then resumes and marks the row.  Other posters run in between.          *)
(*                                                                         *)
(* The table survives a crash; posts in flight, the batch the worker has   *)
(* fetched and the fault-injection counter do not.                         *)
(***************************************************************************)
EXTENDS Naturals, FiniteSets

CONSTANTS
    EventIds,      \* event ids (primary keys of the table)
    Senders,       \* coroutines that call enqueue_and_send
    Worker,        \* the run_worker task
    NoPost,        \* "not posting"
    MaxAttempts,   \* OutboxConfig.max_attempts
    BatchLimit,    \* the LIMIT of _fetch_due
    MaxFaults,     \* bound on the injected fault count
    MaxEnqueues,   \* bound on calls of enqueue_and_send
    MaxRestarts    \* bound on process restarts

ASSUME OutboxAssumption ==
    /\ Worker \notin Senders
    /\ NoPost \notin EventIds
    /\ MaxAttempts \in Nat \ {0}
    /\ BatchLimit \in Nat \ {0}
    /\ MaxFaults \in Nat
    /\ MaxEnqueues \in Nat
    /\ MaxRestarts \in Nat

Posters == Senders \cup {Worker}

VARIABLES
    status,     \* webhook_outbox.status, "absent" before the INSERT
    attempts,   \* webhook_outbox.attempts
    due,        \* next_retry_at <= now
    posting,    \* the event each poster has a post in flight for
    handled,    \* the receiver has processed the poster's post
    batch,      \* fetched rows the worker has not reached yet
    snapshot,   \* the attempts column as the worker fetched it
    faults,     \* _fault_remaining while _fault_mode is "timeout"
    enqueues, restarts,
    received,   \* history: events the receiver has processed at least once
    failures    \* history: failed deliveries of each event

table == <<status, attempts, due>>
tasks == <<posting, handled, batch, snapshot, faults>>
history == <<received, failures>>
outboxVars == <<table, tasks, enqueues, restarts, history>>

OutboxInit ==
    /\ status = [e \in EventIds |-> "absent"]
    /\ attempts = [e \in EventIds |-> 0]
    /\ due = [e \in EventIds |-> FALSE]
    /\ posting = [p \in Posters |-> NoPost]
    /\ handled = [p \in Posters |-> FALSE]
    /\ batch = {}
    /\ snapshot = [e \in EventIds |-> 0]
    /\ faults = 0
    /\ enqueues = 0
    /\ restarts = 0
    /\ received = {}
    /\ failures = [e \in EventIds |-> 0]

-----------------------------------------------------------------------------
(* The row updates. They are unconditional on the row's current status.    *)

\* Mutant: the row is inserted with a status no query knows.
InsertUnknownStatus(e) ==
    IF status[e] = "absent"
    THEN /\ status' = [status EXCEPT ![e] = "queued"]
         /\ due' = [due EXCEPT ![e] = TRUE]
    ELSE UNCHANGED <<status, due>>

\* INSERT OR IGNORE: a row that exists is left as it is.
Insert(e) ==
    IF status[e] = "absent"
    THEN /\ status' = [status EXCEPT ![e] = "pending"]
         /\ due' = [due EXCEPT ![e] = TRUE]
    ELSE UNCHANGED <<status, due>>

MarkDelivered(e) ==
    /\ status' = [status EXCEPT ![e] = "delivered"]
    /\ UNCHANGED <<attempts, due, failures>>

\* Mutant: two attempts are charged for one failure.
MarkRetryTwice(e, n) ==
    /\ failures' = [failures EXCEPT ![e] = @ + 1]
    /\ IF n + 2 >= MaxAttempts
       THEN /\ status' = [status EXCEPT ![e] = "dlq"]
            /\ UNCHANGED <<attempts, due>>
       ELSE /\ status' = [status EXCEPT ![e] = "pending"]
            /\ attempts' = [attempts EXCEPT ![e] = n + 2]
            /\ due' = [due EXCEPT ![e] = FALSE]

\* n is the number of attempts the caller believes were made before this one.
MarkRetry(e, n) ==
    /\ failures' = [failures EXCEPT ![e] = @ + 1]
    /\ IF n + 1 >= MaxAttempts
       THEN /\ status' = [status EXCEPT ![e] = "dlq"]
            /\ UNCHANGED <<attempts, due>>
       ELSE /\ status' = [status EXCEPT ![e] = "pending"]
            /\ attempts' = [attempts EXCEPT ![e] = n + 1]
            /\ due' = [due EXCEPT ![e] = FALSE]

\* enqueue_and_send reads the column again, the worker passes its snapshot.
AttemptsSeenBy(p, e) == IF p = Worker THEN snapshot[e] ELSE attempts[e]

-----------------------------------------------------------------------------
\* run_worker goes from _fetch_due to the first row's post, and from marking a
\* row to the next row's post, without an await: until that post is under way
\* no other coroutine runs.
LoopIsFree == batch = {} \/ posting[Worker] # NoPost

\* enqueue_and_send up to its await: the row is inserted, the post under way.
EnqueueAndSend(s, e) ==
    /\ LoopIsFree
    /\ posting[s] = NoPost
    /\ enqueues < MaxEnqueues
    /\ faults = 0
    /\ enqueues' = enqueues + 1
    /\ Insert(e)
    /\ posting' = [posting EXCEPT ![s] = e]
    /\ handled' = [handled EXCEPT ![s] = FALSE]
    /\ UNCHANGED <<attempts, batch, snapshot, faults, restarts, history>>

\* With a fault injected (or when signing fails) _deliver returns without
\* awaiting, so the insert and the retry mark are one step.
EnqueueAndFail(s, e) ==
    /\ LoopIsFree
    /\ posting[s] = NoPost
    /\ enqueues < MaxEnqueues
    /\ faults' = IF faults > 0 THEN faults - 1 ELSE 0
    /\ enqueues' = enqueues + 1
    /\ MarkRetry(e, attempts[e])
    /\ UNCHANGED <<posting, handled, batch, snapshot, restarts, received>>

\* The receiver processes a post that is in flight; its answer is not back yet.
Receive(p) ==
    /\ posting[p] # NoPost
    /\ ~handled[p]
    /\ handled' = [handled EXCEPT ![p] = TRUE]
    /\ received' = received \cup {posting[p]}
    /\ UNCHANGED <<table, posting, batch, snapshot, faults, enqueues, restarts,
                   failures>>

\* Mutant: any answer counts as a delivery.
DeliverOkOnAnyAnswer(p) ==
    /\ LoopIsFree
    /\ posting[p] # NoPost
    /\ MarkDelivered(posting[p])
    /\ posting' = [posting EXCEPT ![p] = NoPost]
    /\ UNCHANGED <<handled, batch, snapshot, faults, enqueues, restarts, received>>

\* A 2xx answer arrives and the poster resumes.
DeliverOk(p) ==
    /\ LoopIsFree
    /\ posting[p] # NoPost
    /\ handled[p]
    /\ MarkDelivered(posting[p])
    /\ posting' = [posting EXCEPT ![p] = NoPost]
    /\ UNCHANGED <<handled, batch, snapshot, faults, enqueues, restarts, received>>

\* A non-2xx answer, a refused connection or a timeout. After a timeout the
\* receiver may or may not have processed the post.
DeliverFail(p) ==
    /\ LoopIsFree
    /\ posting[p] # NoPost
    /\ MarkRetry(posting[p], AttemptsSeenBy(p, posting[p]))
    /\ posting' = [posting EXCEPT ![p] = NoPost]
    /\ UNCHANGED <<handled, batch, snapshot, faults, enqueues, restarts, received>>

-----------------------------------------------------------------------------
(* run_worker: fetch a batch, then post its rows one by one.               *)

\* Mutant: the query leaves out rows that are on their last attempt.
DueBeforeLast == {e \in EventIds : status[e] = "pending" /\ due[e]
                                  /\ attempts[e] + 1 < MaxAttempts}

Due == {e \in EventIds : status[e] = "pending" /\ due[e]}

FetchDue ==
    /\ posting[Worker] = NoPost
    /\ batch = {}
    /\ Due # {}
    /\ \E rows \in SUBSET Due :
          /\ rows = Due \/ Cardinality(rows) = BatchLimit
          /\ Cardinality(rows) <= BatchLimit
          /\ batch' = rows
          /\ snapshot' = [e \in EventIds |-> IF e \in rows THEN attempts[e] ELSE 0]
    /\ UNCHANGED <<table, posting, handled, faults, enqueues, restarts, history>>

WorkerSend(e) ==
    /\ posting[Worker] = NoPost
    /\ e \in batch
    /\ faults = 0
    /\ batch' = batch \ {e}
    /\ posting' = [posting EXCEPT ![Worker] = e]
    /\ handled' = [handled EXCEPT ![Worker] = FALSE]
    /\ UNCHANGED <<table, snapshot, faults, enqueues, restarts, history>>

WorkerFail(e) ==
    /\ posting[Worker] = NoPost
    /\ e \in batch
    /\ faults' = IF faults > 0 THEN faults - 1 ELSE 0
    /\ batch' = batch \ {e}
    /\ MarkRetry(e, snapshot[e])
    /\ UNCHANGED <<posting, handled, snapshot, enqueues, restarts, received>>

-----------------------------------------------------------------------------
\* The back-off of a row runs out.
RetryDue(e) ==
    /\ status[e] # "absent"
    /\ ~due[e]
    /\ due' = [due EXCEPT ![e] = TRUE]
    /\ UNCHANGED <<status, attempts, tasks, enqueues, restarts, history>>

SetFaultMode(n) ==
    /\ LoopIsFree
    /\ faults' = n
    /\ UNCHANGED <<table, posting, handled, batch, snapshot, enqueues, restarts,
                   history>>

\* The process dies or is shut down, and starts again on the same table.
Restart ==
    /\ restarts < MaxRestarts
    /\ restarts' = restarts + 1
    /\ posting' = [p \in Posters |-> NoPost]
    /\ handled' = [p \in Posters |-> FALSE]
    /\ batch' = {}
    /\ snapshot' = [e \in EventIds |-> 0]
    /\ faults' = 0
    /\ UNCHANGED <<table, enqueues, history>>

OutboxNext ==
    \/ \E s \in Senders, e \in EventIds : EnqueueAndSend(s, e)
    \/ \E s \in Senders, e \in EventIds : EnqueueAndFail(s, e)
    \/ \E p \in Posters : Receive(p)
    \/ \E p \in Posters : DeliverOk(p)
    \/ \E p \in Posters : DeliverFail(p)
    \/ FetchDue
    \/ \E e \in EventIds : WorkerSend(e)
    \/ \E e \in EventIds : WorkerFail(e)
    \/ \E e \in EventIds : RetryDue(e)
    \/ \E n \in 0..MaxFaults : SetFaultMode(n)
    \/ Restart

OutboxSpec == OutboxInit /\ [][OutboxNext]_outboxVars

\* The scheduling the code relies on: the event loop keeps running the worker,
\* every post ends (httpx timeout=5.0), and time passes.
OutboxFairness ==
    /\ \A p \in Posters : WF_outboxVars(DeliverOk(p) \/ DeliverFail(p))
    /\ WF_outboxVars(FetchDue)
    /\ WF_outboxVars(\E e \in EventIds : WorkerSend(e) \/ WorkerFail(e))
    /\ \A e \in EventIds : WF_outboxVars(RetryDue(e))

OutboxFairSpec == OutboxSpec /\ OutboxFairness

-----------------------------------------------------------------------------
\* The types of the table's columns and of the tasks' state; the status column
\* holds only the three values the code's queries know.
OutboxTypeOK ==
    /\ status \in [EventIds -> {"absent", "pending", "delivered", "dlq"}]
    /\ attempts \in [EventIds -> Nat]
    /\ due \in [EventIds -> BOOLEAN]
    /\ posting \in [Posters -> EventIds \cup {NoPost}]
    /\ handled \in [Posters -> BOOLEAN]
    /\ batch \in SUBSET EventIds
    /\ snapshot \in [EventIds -> Nat]
    /\ faults \in Nat
    /\ enqueues \in Nat
    /\ restarts \in Nat
    /\ received \in SUBSET EventIds
    /\ failures \in [EventIds -> Nat]

\* A row is marked delivered only when the receiver really processed the
\* event (_mark_delivered runs only after a 2xx answer), whatever the worker,
\* duplicate senders and restarts do to the row in between.
DeliveredWasReceived ==
    \A e \in EventIds : status[e] = "delivered" => e \in received

\* A row reaches the dead-letter state only after max_attempts deliveries of
\* it failed: neither the worker's stale copy of the attempts column nor a
\* second sender of the same event makes _mark_retry give up early.
DlqOnlyAfterMaxAttempts ==
    \A e \in EventIds : status[e] = "dlq" => failures[e] >= MaxAttempts

\* Every attempt the table (or the worker's copy of it) counts is a delivery
\* that failed; counting may lag behind, it never runs ahead.
AttemptsAreFailures ==
    \A e \in EventIds : attempts[e] <= failures[e] /\ snapshot[e] <= failures[e]

\* A post the receiver has processed is of an event it has processed: the link
\* between a poster's answer and the receiver that DeliveredWasReceived needs.
HandledWasReceived ==
    \A p \in Posters : posting[p] # NoPost /\ handled[p] => posting[p] \in received

\* The inductive invariant behind the two safety properties.
OutboxInv ==
    /\ OutboxTypeOK
    /\ DeliveredWasReceived
    /\ HandledWasReceived
    /\ AttemptsAreFailures
    /\ DlqOnlyAfterMaxAttempts

\* A stored event does not stay pending for ever: the worker retries it until
\* it is delivered or dead-lettered, across restarts of the gateway.
EventuallySettled ==
    \A e \in EventIds : status[e] = "pending" ~> status[e] \in {"delivered", "dlq"}
=============================================================================
