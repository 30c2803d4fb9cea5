--------------------------- MODULE OfflineDelivery ---------------------------
(***************************************************************************)
(* How the gateway gets commands to one device: the connection table       *)
(* (ws/connection_manager.py), POST /command/dispatch (api_controller.py), *)
(* the queue for offline devices (services/offline_queue.py) over Redis    *)
(* with its in-memory fallback (services/redis_service.py), and the part   *)
(* of the WebSocket handler that registers a session, drains the queue and *)
(* unregisters (main.py).                                                  *)
(*                                                                         *)
(* All of it runs in one asyncio loop: an action is the code between two   *)
(* suspensions, and every Redis call and every send is one.                *)
(***************************************************************************)
EXTENDS Naturals, FiniteSets, Sequences, Filtering

CONSTANTS
    Sessions,     \* WebSocket sessions of the device; each is used once
    Requests,     \* dispatch requests for the device
    Max,          \* max_per_device
    MaxOutages,   \* bound: times Redis becomes unreachable
    MaxRestarts,  \* bound: restarts of the gateway
    None          \* no session

ASSUME DeliveryAssumption ==
    /\ Max \in Nat \ {0}
    /\ MaxOutages \in Nat
    /\ MaxRestarts \in Nat
    /\ None \notin Sessions

VARIABLES
    store,      \* the device's list in Redis and in RedisService._fallback_store
    reachable,  \* Redis answers
    current,    \* active_connections: the device's session, or None
    phase,      \* where each session's handler is
    live,       \* the sessions whose socket works
    batch,      \* the drained messages a handler has not sent yet
    source,     \* the store a handler's batch was read from
    request,    \* the dispatch requests
    expired,    \* requests whose ttl has passed
    newest,     \* history: the session registered last
    delivered,  \* history: how often each request was written to a live socket
    copies,     \* history: failed Redis calls that left a second copy
    outages,    \* outages so far
    restarts    \* restarts so far

session == <<phase, live, batch, source>>
bounds == <<outages, restarts>>
vars == <<store, reachable, current, session, request, expired, newest, delivered, copies, bounds>>

Stores == {"redis", "memory"}
Phases == {"new", "greeting", "read", "sending", "open", "closed"}
RequestPhases == {"new", "llen", "lpop", "rpush", "queued", "dispatched", "failed"}

Init ==
    /\ store = [k \in Stores |-> <<>>]
    /\ reachable = TRUE
    /\ current = None
    /\ phase = [s \in Sessions |-> "new"]
    /\ live = Sessions
    /\ batch = [s \in Sessions |-> <<>>]
    /\ source = [s \in Sessions |-> "redis"]
    /\ request = [r \in Requests |-> "new"]
    /\ expired = {}
    /\ newest = None
    /\ delivered = [r \in Requests |-> 0]
    /\ copies = 0
    /\ outages = 0 /\ restarts = 0

-----------------------------------------------------------------------------
(* RedisService: a call that raises is logged and done on the fallback     *)
(* store instead.  A call that timed out may have been executed as well.   *)

\* The store a read is answered from.
Answering == IF reachable THEN "redis" ELSE "memory"

\* The stores a write may change.
Targets == IF reachable THEN {{"redis"}} ELSE {{"memory"}, {"redis", "memory"}}

\* What delete and lpop make of a list.
Delete(q) == <<>>
Lpop(q) == IF q = <<>> THEN q ELSE Tail(q)

Write(T, Op(_)) == store' = [k \in Stores |-> IF k \in T THEN Op(store[k]) ELSE store[k]]

Outage ==
    /\ reachable /\ outages < MaxOutages
    /\ reachable' = FALSE /\ outages' = outages + 1
    /\ UNCHANGED <<store, current, session, request, expired, newest, delivered, copies, restarts>>

Recovery ==
    /\ ~reachable
    /\ reachable' = TRUE
    /\ UNCHANGED <<store, current, session, request, expired, newest, delivered, copies, bounds>>

-----------------------------------------------------------------------------
(* The WebSocket handler, agent_ws.                                        *)

\* ConnectionManager.register: the new entry replaces the old one, and the
\* superseded socket is closed before the handler goes on.
\* Mutant: the superseded socket stays open.
RegisterOnly(s) ==
    /\ phase[s] = "new"
    /\ current' = s
    /\ phase' = [phase EXCEPT ![s] = "greeting"]
    /\ newest' = s
    /\ UNCHANGED <<live, batch, source, store, reachable, request, expired, delivered, copies, bounds>>

Register(s) ==
    /\ phase[s] = "new"
    /\ current' = s
    /\ phase' = [phase EXCEPT ![s] = "greeting"]
    /\ live' = live \ {current}
    /\ newest' = s
    /\ UNCHANGED <<batch, source, store, reachable, request, expired, delivered, copies, bounds>>

\* AUTH_ACK, policy and OTA have been sent; drain reads the list.  By then
\* the socket may be dead again.
DrainRead(s) ==
    /\ phase[s] = "greeting"
    /\ phase' = [phase EXCEPT ![s] = IF store[Answering] = <<>> THEN "open" ELSE "read"]
    /\ batch' = [batch EXCEPT ![s] = store[Answering]]
    /\ source' = [source EXCEPT ![s] = Answering]
    /\ UNCHANGED <<live, store, reachable, current, request, expired, newest, delivered, copies, bounds>>

\* drain deletes the list and leaves out what has expired; the sort by
\* priority is stable and every message has priority 0.
Unexpired(q) == Kept(q, {i \in DOMAIN q : q[i] \notin expired})
DrainTo(s, T) ==
    /\ batch' = [batch EXCEPT ![s] = Unexpired(@)]
    /\ phase' = [phase EXCEPT ![s] = IF Unexpired(batch[s]) = <<>> THEN "open" ELSE "sending"]
    /\ copies' = IF source[s] \in T THEN copies ELSE copies + 1
    /\ UNCHANGED <<live, source, reachable, current, request, expired, newest, delivered, bounds>>

\* Mutant: the list is read and not deleted.
DrainKeeps(s) ==
    /\ phase[s] = "read"
    /\ DrainTo(s, Stores)
    /\ UNCHANGED store

DrainDelete(s) ==
    /\ phase[s] = "read"
    /\ \E T \in Targets : Write(T, Delete) /\ DrainTo(s, T)

DrainSend(s) ==
    /\ phase[s] = "sending" /\ s \in live
    /\ delivered' = [delivered EXCEPT ![Head(batch[s])] = @ + 1]
    /\ batch' = [batch EXCEPT ![s] = Tail(@)]
    /\ phase' = [phase EXCEPT ![s] = IF Len(batch[s]) = 1 THEN "open" ELSE "sending"]
    /\ UNCHANGED <<live, source, store, reachable, current, request, expired, newest, copies, bounds>>

\* The peer goes away; the handler notices at its next send or receive.
PeerGone(s) ==
    /\ phase[s] \in {"greeting", "read", "sending", "open"} /\ s \in live
    /\ live' = live \ {s}
    /\ UNCHANGED <<phase, batch, source, store, reachable, current, request, expired, newest, delivered, copies, bounds>>

\* The finally block: ConnectionManager.unregister ignores a session that is
\* not the current one.  Whatever the handler had not sent is gone.
\* Mutant: the device's entry is removed whoever holds it.
UnregisterAny(s) ==
    /\ phase[s] \in {"greeting", "sending", "open"} /\ s \notin live
    /\ phase' = [phase EXCEPT ![s] = "closed"]
    /\ batch' = [batch EXCEPT ![s] = <<>>]
    /\ current' = None
    /\ UNCHANGED <<live, source, store, reachable, request, expired, newest, delivered, copies, bounds>>

Unregister(s) ==
    /\ phase[s] \in {"greeting", "sending", "open"} /\ s \notin live
    /\ phase' = [phase EXCEPT ![s] = "closed"]
    /\ batch' = [batch EXCEPT ![s] = <<>>]
    /\ current' = IF current = s THEN None ELSE current
    /\ UNCHANGED <<live, source, store, reachable, request, expired, newest, delivered, copies, bounds>>

-----------------------------------------------------------------------------
(* POST /command/dispatch and OfflineQueue.enqueue.                        *)

RequestGoes(r, next) == request' = [request EXCEPT ![r] = next]

\* The device has an entry: the command is written to its socket, which
\* raises when the socket is dead.
\* Mutant: the exception is passed on as an answer of its own.
DispatchRaises(r) ==
    /\ request[r] = "new" /\ current # None
    /\ IF current \in live
       THEN RequestGoes(r, "dispatched") /\ delivered' = [delivered EXCEPT ![r] = @ + 1]
       ELSE RequestGoes(r, "raised") /\ UNCHANGED delivered
    /\ UNCHANGED <<store, reachable, current, session, expired, newest, copies, bounds>>

DispatchSends(r) ==
    /\ request[r] = "new" /\ current # None
    /\ IF current \in live
       THEN RequestGoes(r, "dispatched") /\ delivered' = [delivered EXCEPT ![r] = @ + 1]
       ELSE RequestGoes(r, "failed") /\ UNCHANGED delivered
    /\ UNCHANGED <<store, reachable, current, session, expired, newest, copies, bounds>>

DispatchQueues(r) ==
    /\ request[r] = "new" /\ current = None
    /\ RequestGoes(r, "llen")
    /\ UNCHANGED <<store, reachable, current, session, expired, newest, delivered, copies, bounds>>

EnqueueLlen(r) ==
    /\ request[r] = "llen"
    /\ RequestGoes(r, IF Len(store[Answering]) >= Max THEN "lpop" ELSE "rpush")
    /\ UNCHANGED <<store, reachable, current, session, expired, newest, delivered, copies, bounds>>

EnqueueLpop(r) ==
    /\ request[r] = "lpop"
    /\ \E T \in Targets : Write(T, Lpop)
    /\ RequestGoes(r, "rpush")
    /\ UNCHANGED <<reachable, current, session, expired, newest, delivered, copies, bounds>>

EnqueueRpush(r) ==
    /\ request[r] = "rpush"
    /\ \E T \in Targets : /\ Write(T, LAMBDA q : Append(q, r))
                          /\ copies' = IF T = Stores THEN copies + 1 ELSE copies
    /\ RequestGoes(r, "queued")
    /\ UNCHANGED <<reachable, current, session, expired, newest, delivered, bounds>>

TtlPasses(r) ==
    /\ r \notin expired
    /\ expired' = expired \cup {r}
    /\ UNCHANGED <<store, reachable, current, session, request, newest, delivered, copies, bounds>>

\* The gateway restarts: Redis keeps its list, everything else is gone.
Restart ==
    /\ restarts < MaxRestarts
    /\ restarts' = restarts + 1
    /\ store' = [store EXCEPT !["memory"] = <<>>]
    /\ current' = None
    /\ phase' = [s \in Sessions |-> IF phase[s] = "new" THEN "new" ELSE "closed"]
    /\ live' = {s \in live : phase[s] = "new"}
    /\ batch' = [s \in Sessions |-> <<>>]
    /\ request' = [r \in Requests |-> IF request[r] \in {"llen", "lpop", "rpush"} THEN "failed" ELSE request[r]]
    /\ UNCHANGED <<source, reachable, expired, newest, delivered, copies, outages>>

Next ==
    \/ \E s \in Sessions : Register(s) \/ DrainRead(s) \/ DrainDelete(s) \/ DrainSend(s)
                           \/ PeerGone(s) \/ Unregister(s)
    \/ \E r \in Requests : DispatchSends(r) \/ DispatchQueues(r)
                           \/ EnqueueLlen(r) \/ EnqueueLpop(r) \/ EnqueueRpush(r) \/ TtlPasses(r)
    \/ Outage \/ Recovery \/ Restart

Spec == Init /\ [][Next]_vars

-----------------------------------------------------------------------------
(* Properties.                                                             *)

Lists == Seq(Requests)

\* The types of the connection table, the lists and the handlers.
TypeOK ==
    /\ store \in [Stores -> Lists]
    /\ reachable \in BOOLEAN
    /\ current \in Sessions \cup {None}
    /\ phase \in [Sessions -> Phases]
    /\ live \subseteq Sessions
    /\ batch \in [Sessions -> Lists]
    /\ source \in [Sessions -> Stores]
    /\ request \in [Requests -> RequestPhases]
    /\ expired \subseteq Requests
    /\ newest \in Sessions \cup {None}
    /\ delivered \in [Requests -> Nat]
    /\ copies \in Nat
    /\ outages \in 0..MaxOutages
    /\ restarts \in 0..MaxRestarts

Running(s) == phase[s] \in {"greeting", "read", "sending", "open"}

\* The connection table points at the session registered last for as long as
\* its handler runs, and never at another one: the late unregister of a
\* superseded session does not remove its successor (unregister's "Ignore
\* stale disconnects from older sessions/sockets").
CurrentIsNewest ==
    /\ newest # None /\ Running(newest) => current = newest
    /\ current # None => current = newest

\* Whoever still has a live socket is the session registered last: register
\* closes the socket it supersedes before the new handler goes on, so a
\* drain that lost its place writes nothing.
OneLiveSession == \A s \in Sessions : Running(s) /\ s \in live => s = newest

\* A dispatch request reaches the device at most once, though a superseded
\* and a new session may have read the same list; only a failed Redis call
\* that left a copy behind (a delete or a push done on the fallback store)
\* allows one more.
DeliveredOnce == \A r \in Requests : delivered[r] <= 1 + copies

\* What a reader of offline_queue.py expects of "Stores messages for offline
\* devices until they reconnect": a queued message that has not expired is
\* in the queue, in the hands of a session that drains it, or delivered, as
\* long as no connection was lost.
In(r, q) == \E i \in DOMAIN q : q[i] = r
StoredUntilDrained ==
    live = Sessions =>
        \A r \in Requests \ expired : request[r] = "queued" =>
            \/ \E k \in Stores : In(r, store[k])
            \/ \E s \in Sessions : In(r, batch[s])
            \/ delivered[r] > 0
=============================================================================
