----------------------------- MODULE EventProofs -----------------------------
(***************************************************************************)
(* The events of commands at both ends: the control plane, which applies   *)
(* them to a command, for any set of handlers and any bounds; and the      *)
(* gateway's webhook outbox, which stores and posts them, for any number   *)
(* of events, senders, attempts and restarts.                              *)
(***************************************************************************)
EXTENDS CommandLifecycle, WebhookOutbox, TLAPS

\* $command->update keeps the row well typed.
LEMMA UpdateTypes ==
    ASSUME row \in Rows, NEW r, NEW s \in States, NEW x \in Execs, Update(r, s, x)
    PROVE  row' \in Rows
BY DEF Update, Rows

\* The job records the dispatch code builds are jobs.
LEMMA JobTypes ==
    /\ NoJob \in Jobs
    /\ Queued \in Jobs
    /\ \A j \in Jobs : Requeue(j) \in Jobs /\ [NoJob EXCEPT !.tries = j.tries] \in Jobs
BY DEF Jobs, Queued, Requeue, NoJob, NoRow, Rows, States, Execs

\* The records the expiry writers build are expiries.
LEMMA ExpiryTypes ==
    /\ Idle \in Expiries
    /\ [Idle EXCEPT !.phase = "gone"] \in Expiries
BY DEF Idle, Expiries, NoRow, Rows, States, Execs

\* A handler that is not idle holds an event and a loaded row; claiming the
\* event or finishing the request keeps the handlers well typed.
LEMMA RequestTypes ==
    ASSUME handler \in [Handlers -> Requests], NEW h \in Handlers
    PROVE  /\ Free(h) => handler' \in [Handlers -> Requests]
           /\ handler[h].phase # "idle" =>
                 /\ handler[h].event \in Events
                 /\ handler[h].loaded \in Rows
                 /\ [handler EXCEPT ![h].phase = "claimed"] \in [Handlers -> Requests]
<1>1. [phase |-> "idle", loaded |-> NoRow, event |-> NoEvent] \in Requests
  BY DEF Requests, NoRow, Rows, States, Execs
<1>2. Free(h) => handler' \in [Handlers -> Requests]
  BY <1>1 DEF Free
<1>3. handler[h] \in Requests
  OBVIOUS
<1>4. handler[h].phase # "idle" => [handler[h] EXCEPT !.phase = "claimed"] \in Requests
  BY <1>3 DEF Requests
<1>5. handler[h].phase # "idle" => [handler EXCEPT ![h].phase = "claimed"] \in [Handlers -> Requests]
  BY <1>4
<1>6. handler[h].phase # "idle" => handler[h].event \in Events /\ handler[h].loaded \in Rows
  BY <1>3 DEF Requests
<1> QED BY <1>2, <1>5, <1>6

\* Every step keeps the types.
LEMMA TypeStep == TypeOK /\ [Next]_vars => TypeOK'
<1> SUFFICES ASSUME TypeOK, [Next]_vars PROVE TypeOK'
  OBVIOUS
<1>0. Created \in Rows
  BY DEF Created, Rows, States, Execs, Open
<1>1. CASE Enqueue
  <2>1. job' \in Jobs /\ Idle \in Expiries
    BY <1>1, JobTypes, ExpiryTypes DEF Enqueue
  <2> QED BY <1>0, <1>1, <2>1 DEF Enqueue, TypeOK, outside
<1>2. CASE EnqueueDies
  <2>1. job' \in Jobs
    BY <1>2, JobTypes DEF EnqueueDies
  <2> QED BY <1>0, <1>2, <2>1 DEF EnqueueDies, TypeOK, outside
<1>3. CASE DispatchPost
  <2>1. job' = [phase |-> "posting", tries |-> job.tries + 1, loaded |-> row,
                answer |-> job.answer]
    BY <1>3 DEF DispatchPost, TypeOK, Jobs
  <2>2. job' \in Jobs
    BY <2>1 DEF TypeOK, Jobs
  <2> QED BY <1>3, <2>2 DEF DispatchPost, TypeOK, outside
<1>4. ASSUME NEW a \in {"dispatched", "queued_offline", "blocked", "backpressure"},
             GatewayAnswers(a)
      PROVE  TypeOK'
  <2>1. job' \in Jobs
    BY <1>4 DEF GatewayAnswers, TypeOK, Jobs
  <2> QED BY <1>4, <2>1 DEF GatewayAnswers, TypeOK
<1>5. ASSUME NEW taken \in BOOLEAN, PostThrows(taken)
      PROVE  TypeOK'
  <2>1. job' \in Jobs
    BY <1>5, JobTypes DEF PostThrows, TypeOK
  <2>2. deliveries' \in Nat
    BY <1>5 DEF PostThrows, TypeOK
  <2> QED BY <1>5, <2>1, <2>2 DEF PostThrows, TypeOK
<1>6. CASE DispatchWrite
  <2>1. StateFor(job.answer) \in States \cap Execs
    BY DEF StateFor, States, Execs, Terminal, Open
  <2>2. row' \in Rows
    BY <1>6, <2>1, UpdateTypes DEF DispatchWrite, TypeOK
  <2> QED BY <1>6, <2>2 DEF DispatchWrite, TypeOK, outside, Jobs
<1>7. CASE DispatchEnds
  BY <1>7, JobTypes DEF DispatchEnds, TypeOK, outside
<1>8. CASE WorkerDies
  <2>1. job' \in Jobs
    BY <1>8, JobTypes DEF WorkerDies, TypeOK
  <2> QED BY <1>8, <2>1 DEF WorkerDies, TypeOK, outside
<1>9. CASE Tick
  BY <1>9 DEF Tick, TypeOK, outside
<1>10. ASSUME NEW r \in Rounds, NEW o \in Outcomes, DeviceAnswers(r, o)
       PROVE  TypeOK'
  <2>1. [kind : Answers(o), round : {r}] \subseteq Events
    BY LifecycleAssumption DEF Answers, Events, Acks, Results
  <2> QED BY <1>10, <2>1 DEF DeviceAnswers, TypeOK
<1>11. ASSUME NEW h \in Handlers, NEW e \in sent, WebhookLoads(h, e)
       PROVE  TypeOK'
  <2>1. [phase |-> "loaded", loaded |-> row, event |-> e] \in Requests
    BY DEF TypeOK, Requests
  <2> QED BY <1>11, <2>1 DEF WebhookLoads, TypeOK, outside
<1>12. ASSUME NEW h \in Handlers, WebhookClaims(h)
       PROVE  TypeOK'
  BY <1>12, RequestTypes DEF WebhookClaims, TypeOK, outside
<1>13. ASSUME NEW h \in Handlers, WebhookIsLate(h)
       PROVE  TypeOK'
  BY <1>13, RequestTypes DEF WebhookIsLate, TypeOK, outside
<1>14. ASSUME NEW h \in Handlers, WebhookIsDuplicate(h)
       PROVE  TypeOK'
  BY <1>14, RequestTypes DEF WebhookIsDuplicate, TypeOK, outside
<1>15. ASSUME NEW h \in Handlers, AckReceived(h)
       PROVE  TypeOK'
  <2>1. row' \in Rows
    <3>1. [row EXCEPT !.state = "ack_received"] \in Rows
      BY DEF TypeOK, Rows, States, Open
    <3> QED BY <1>15, <3>1 DEF AckReceived, TypeOK
  <2>2. applied' \in [Events -> Nat]
    <3>1. handler[h].event \in Events
      BY <1>15, RequestTypes DEF AckReceived, TypeOK
    <3> QED BY <1>15, <3>1 DEF AckReceived, TypeOK
  <2> QED BY <1>15, <2>1, <2>2, RequestTypes DEF AckReceived, TypeOK, outside
<1>16. ASSUME NEW h \in Handlers, AckRejected(h)
       PROVE  TypeOK'
  <2>1. row' \in Rows
    <3>1. "failed" \in States /\ "failed" \in Execs
      BY DEF States, Execs, Terminal
    <3>2. CASE UNCHANGED row
      BY <3>2 DEF TypeOK
    <3>3. CASE Update(handler[h].loaded, "failed", "failed")
      BY <3>1, <3>3, UpdateTypes DEF TypeOK
    <3> QED BY <1>16, <3>2, <3>3 DEF AckRejected
  <2>2. applied' \in [Events -> Nat]
    <3>1. handler[h].event \in Events
      BY <1>16, RequestTypes DEF AckRejected, TypeOK
    <3> QED BY <1>16, <3>1 DEF AckRejected, TypeOK
  <2>3. published' \in [{"completed", "failed"} -> Nat]
    BY <1>16 DEF AckRejected, TypeOK
  <2> QED BY <1>16, <2>1, <2>2, <2>3, RequestTypes DEF AckRejected, TypeOK, outside
<1>17. ASSUME NEW h \in Handlers, ResultApplies(h)
       PROVE  TypeOK'
  <2>1. /\ handler[h].event.kind \in Execs
        /\ StateOfResult(handler[h].event.kind) \in States
    BY <1>17 DEF ResultApplies, Results, Execs, States, Terminal, Open, StateOfResult
  <2>2. row' \in Rows
    BY <1>17, <2>1, UpdateTypes DEF ResultApplies, TypeOK
  <2>3. applied' \in [Events -> Nat]
    <3>1. handler[h].event \in Events
      BY <1>17, RequestTypes DEF ResultApplies, TypeOK
    <3> QED BY <1>17, <3>1 DEF ResultApplies, TypeOK
  <2>4. published' \in [{"completed", "failed"} -> Nat]
    BY <1>17 DEF ResultApplies, TypeOK, Results
  <2> QED BY <1>17, <2>2, <2>3, <2>4, RequestTypes DEF ResultApplies, TypeOK, outside
<1>18. ASSUME NEW h \in Handlers, WebhookDies(h)
       PROVE  TypeOK'
  <2>1. handler' \in [Handlers -> Requests]
    BY <1>18, RequestTypes DEF WebhookDies, TypeOK
  <2> QED BY <1>18, <2>1 DEF WebhookDies, TypeOK, outside
<1>19. CASE ExpireJobLoads
  BY <1>19 DEF ExpireJobLoads, Loads, TypeOK, outside, Expiries
<1>20. CASE ExpireJobReturns
  BY <1>20 DEF ExpireJobReturns, TypeOK, outside, Expiries, Expirers
<1>21. CASE ReconcileLoads
  BY <1>21 DEF ReconcileLoads, Loads, TypeOK, outside, Expiries
<1>22. CASE ShowLoads
  BY <1>22 DEF ShowLoads, Loads, TypeOK, outside, Expiries
<1>23. ASSUME NEW x \in Expirers, Expires(x)
       PROVE  TypeOK'
  <2>1. row' \in Rows
    BY <1>23, UpdateTypes DEF Expires, TypeOK, States, Execs, Terminal
  <2> QED BY <1>23, <2>1, ExpiryTypes DEF Expires, TypeOK, outside
<1>24. ASSUME NEW x \in Expirers, ExpirerDies(x)
       PROVE  TypeOK'
  BY <1>24, ExpiryTypes DEF ExpirerDies, TypeOK, outside
<1>25. CASE UNCHANGED vars
  BY <1>25 DEF vars, TypeOK
<1> QED
  BY <1>1, <1>2, <1>3, <1>4, <1>5, <1>6, <1>7, <1>8, <1>9, <1>10, <1>11, <1>12,
     <1>13, <1>14, <1>15, <1>16, <1>17, <1>18, <1>19, <1>20, <1>21, <1>22, <1>23,
     <1>24, <1>25 DEF Next

\* The initial state is well typed.
LEMMA TypeInit == Init => TypeOK
<1> SUFFICES ASSUME Init PROVE TypeOK
  OBVIOUS
<1>1. NoRow \in Rows
  BY DEF NoRow, Rows, States, Execs
<1>2. handler \in [Handlers -> Requests]
  BY <1>1 DEF Init, Requests
<1> QED BY <1>1, <1>2, JobTypes, ExpiryTypes, LifecycleAssumption DEF Init, TypeOK

\* Every variable of the command lifecycle keeps its type: in particular the
\* states the dirty-attribute updates leave in the row are those of the code.
THEOREM TypeCorrect == Spec => []TypeOK
BY TypeInit, TypeStep, PTL DEF Spec

-----------------------------------------------------------------------------
\* An update leaves the state it writes or the state that was there.
LEMMA UpdateState ==
    ASSUME NEW r, NEW s, NEW x, Update(r, s, x)
    PROVE  row'.state = s \/ row'.state = row.state
BY DEF Update

\* What no row update disturbs: a step that leaves the handlers, the keys and
\* the applied events alone keeps the claims exclusive.
LEMMA ClaimsFrame ==
    ASSUME EffectOnce, ClaimsAreExclusive, UNCHANGED <<handler, processed, applied>>
    PROVE  EffectOnce' /\ ClaimsAreExclusive'
BY DEF EffectOnce, ClaimsAreExclusive

\* A step that leaves the expiry writers and the clock alone keeps their promise.
LEMMA ExpirersFrame ==
    ASSUME ExpirersWaited, UNCHANGED <<expirer, clock>>
    PROVE  ExpirersWaited'
BY DEF ExpirersWaited

\* A step that leaves the row's state alone, or writes a state that is neither
\* "expired" nor "completed", keeps both outcomes justified.
LEMMA RowFrame ==
    ASSUME ExpiredAfterGrace, CompletedWasReported, UNCHANGED clock,
           processed \subseteq processed',
           row'.state = row.state \/ row'.state \notin {"expired", "completed"}
    PROVE  ExpiredAfterGrace' /\ CompletedWasReported'
BY DEF ExpiredAfterGrace, CompletedWasReported

\* A handler that ends its request without applying anything keeps the claims
\* of the others exclusive.
LEMMA FreeKeepsClaims ==
    ASSUME TypeOK, EffectOnce, ClaimsAreExclusive, NEW h \in Handlers, Free(h),
           UNCHANGED applied, processed \subseteq processed'
    PROVE  EffectOnce' /\ ClaimsAreExclusive'
<1>1. \A g \in Handlers : handler'[g].phase = "claimed" => g # h /\ handler'[g] = handler[g]
  BY DEF Free, TypeOK
<1> QED BY <1>1 DEF EffectOnce, ClaimsAreExclusive

\* A handler that applies the event it has claimed: that was the first time,
\* and nobody else is about to.
LEMMA ApplyKeepsClaims ==
    ASSUME TypeOK, EffectOnce, ClaimsAreExclusive, NEW h \in Handlers, Free(h),
           handler[h].phase = "claimed",
           applied' = [applied EXCEPT ![handler[h].event] = @ + 1],
           UNCHANGED processed
    PROVE  EffectOnce' /\ ClaimsAreExclusive'
<1>1. \A g \in Handlers : handler'[g].phase = "claimed" => g # h /\ handler'[g] = handler[g]
  BY DEF Free, TypeOK
<1>2. handler[h].event \in Events
  BY RequestTypes DEF TypeOK
<1>3. applied[handler[h].event] = 0 /\ handler[h].event \in processed
  BY DEF ClaimsAreExclusive
<1>4. /\ applied'[handler[h].event] = 1
      /\ \A e \in Events : e # handler[h].event => applied'[e] = applied[e]
  BY <1>2, <1>3 DEF TypeOK
<1>5. EffectOnce'
  BY <1>2, <1>4 DEF EffectOnce
<1>6. \A g \in Handlers : handler'[g].phase = "claimed" =>
          handler[g].event \in Events /\ handler[g].event # handler[h].event
  BY <1>1, RequestTypes DEF TypeOK, ClaimsAreExclusive
<1>7. ClaimsAreExclusive'
  <2>1. \A e \in Events : applied'[e] > 0 => e \in processed'
    BY <1>3, <1>4 DEF ClaimsAreExclusive
  <2>2. \A g \in Handlers : handler'[g].phase = "claimed" => applied'[handler'[g].event] = 0
    BY <1>1, <1>4, <1>6 DEF ClaimsAreExclusive
  <2> QED BY <1>1, <2>1, <2>2 DEF ClaimsAreExclusive
<1> QED BY <1>5, <1>7

\* Every step keeps the inductive invariant: one case per action.
LEMMA LifecycleStep == LifecycleInv /\ [Next]_vars => LifecycleInv'
<1> SUFFICES ASSUME LifecycleInv, [Next]_vars PROVE LifecycleInv'
  OBVIOUS
<1>t. TypeOK /\ TypeOK'
  BY TypeStep DEF LifecycleInv
<1>i. EffectOnce /\ ClaimsAreExclusive /\ ExpirersWaited /\ ExpiredAfterGrace
      /\ CompletedWasReported
  BY DEF LifecycleInv
<1>q. /\ EffectOnce' /\ ClaimsAreExclusive'
      /\ ExpirersWaited'
      /\ ExpiredAfterGrace' /\ CompletedWasReported'
      => LifecycleInv'
  BY <1>t DEF LifecycleInv
<1>1. CASE DispatchPost
  <2>1. UNCHANGED <<row, clock, expirer, handler, processed, applied>>
    BY <1>1 DEF DispatchPost, outside
  <2> QED BY <1>i, <1>q, <2>1, ClaimsFrame, ExpirersFrame, RowFrame
<1>2. ASSUME NEW a \in {"dispatched", "queued_offline", "blocked", "backpressure"},
             GatewayAnswers(a)
      PROVE  LifecycleInv'
  <2>1. UNCHANGED <<row, clock, expirer, handler, processed, applied>>
    BY <1>2 DEF GatewayAnswers
  <2> QED BY <1>i, <1>q, <2>1, ClaimsFrame, ExpirersFrame, RowFrame
<1>3. ASSUME NEW taken \in BOOLEAN, PostThrows(taken)
      PROVE  LifecycleInv'
  <2>1. UNCHANGED <<row, clock, expirer, handler, processed, applied>>
    BY <1>3 DEF PostThrows
  <2> QED BY <1>i, <1>q, <2>1, ClaimsFrame, ExpirersFrame, RowFrame
<1>4. CASE DispatchEnds
  <2>1. UNCHANGED <<row, clock, expirer, handler, processed, applied>>
    BY <1>4 DEF DispatchEnds, outside
  <2> QED BY <1>i, <1>q, <2>1, ClaimsFrame, ExpirersFrame, RowFrame
<1>5. CASE WorkerDies
  <2>1. UNCHANGED <<row, clock, expirer, handler, processed, applied>>
    BY <1>5 DEF WorkerDies, outside
  <2> QED BY <1>i, <1>q, <2>1, ClaimsFrame, ExpirersFrame, RowFrame
<1>6. ASSUME NEW r \in Rounds, NEW o \in Outcomes, DeviceAnswers(r, o)
      PROVE  LifecycleInv'
  <2>1. UNCHANGED <<row, clock, expirer, handler, processed, applied>>
    BY <1>6 DEF DeviceAnswers
  <2> QED BY <1>i, <1>q, <2>1, ClaimsFrame, ExpirersFrame, RowFrame
<1>7. CASE Enqueue
  <2>1. /\ UNCHANGED <<clock, handler, processed, applied>>
        /\ row'.state = "queued"
    BY <1>7 DEF Enqueue, Created
  <2>2. ExpirersWaited'
    BY <1>7, <1>i, <1>t DEF Enqueue, ExpirersWaited, TypeOK, Idle
  <2> QED BY <1>i, <1>q, <2>1, <2>2, ClaimsFrame, RowFrame
<1>8. CASE EnqueueDies
  <2>1. /\ UNCHANGED <<clock, handler, processed, applied>>
        /\ row'.state = "queued"
    BY <1>8 DEF EnqueueDies, Created
  <2>2. ExpirersWaited'
    BY <1>8, <1>i, <1>t DEF EnqueueDies, ExpirersWaited, TypeOK, Idle
  <2> QED BY <1>i, <1>q, <2>1, <2>2, ClaimsFrame, RowFrame
<1>9. CASE DispatchWrite
  <2>1. /\ UNCHANGED <<clock, expirer, handler, processed, applied>>
        /\ Update(job.loaded, StateFor(job.answer), StateFor(job.answer))
    BY <1>9 DEF DispatchWrite
  <2>2. StateFor(job.answer) \notin {"expired", "completed"}
    BY DEF StateFor
  <2>3. row'.state = row.state \/ row'.state \notin {"expired", "completed"}
    BY <2>1, <2>2, UpdateState
  <2> QED BY <1>i, <1>q, <2>1, <2>3, ClaimsFrame, ExpirersFrame, RowFrame
<1>10. CASE Tick
  <2>1. /\ UNCHANGED <<row, expirer, handler, processed, applied>>
        /\ clock # 2
    BY <1>10 DEF Tick
  <2>2. ExpirersWaited' /\ ExpiredAfterGrace' /\ CompletedWasReported'
    BY <1>i, <2>1 DEF ExpirersWaited, ExpiredAfterGrace, CompletedWasReported
  <2> QED BY <1>i, <1>q, <2>1, <2>2, ClaimsFrame
<1>11. ASSUME NEW h \in Handlers, NEW e \in sent, WebhookLoads(h, e)
      PROVE  LifecycleInv'
  <2>1. /\ UNCHANGED <<row, clock, expirer, processed, applied>>
        /\ handler' = [handler EXCEPT ![h] = [phase |-> "loaded", loaded |-> row,
                                              event |-> e]]
    BY <1>11 DEF WebhookLoads
  <2>2. \A g \in Handlers : handler'[g].phase = "claimed" => handler'[g] = handler[g]
    BY <1>t, <2>1 DEF TypeOK
  <2>3. EffectOnce' /\ ClaimsAreExclusive'
    BY <1>i, <2>1, <2>2 DEF EffectOnce, ClaimsAreExclusive
  <2> QED BY <1>i, <1>q, <2>1, <2>3, ExpirersFrame, RowFrame
<1>12. ASSUME NEW h \in Handlers, WebhookClaims(h)
      PROVE  LifecycleInv'
  <2>1. /\ UNCHANGED <<row, clock, expirer, applied>>
        /\ handler[h].phase = "loaded"
        /\ handler[h].event \notin processed
        /\ handler[h].loaded.state \notin Terminal
        /\ processed' = processed \cup {handler[h].event}
        /\ handler' = [handler EXCEPT ![h].phase = "claimed"]
    BY <1>12 DEF WebhookClaims
  <2>2. \A g \in Handlers : g # h => handler'[g] = handler[g]
    BY <1>t, <2>1 DEF TypeOK
  <2>3. /\ handler'[h].phase = "claimed"
        /\ handler'[h].event = handler[h].event
        /\ handler'[h].loaded = handler[h].loaded
    BY <1>t, <2>1 DEF TypeOK, Requests
  <2>4. handler[h].event \in Events
    BY <1>t, <2>1, RequestTypes DEF TypeOK
  <2>5. applied[handler[h].event] = 0
    BY <1>i, <1>t, <2>1, <2>4 DEF ClaimsAreExclusive, TypeOK
  <2>6. \A g \in Handlers : g # h /\ handler[g].phase = "claimed" =>
            handler[g].event # handler[h].event
    BY <1>i, <2>1 DEF ClaimsAreExclusive
  <2>7. EffectOnce' /\ ClaimsAreExclusive'
    BY <1>i, <2>1, <2>2, <2>3, <2>5, <2>6 DEF EffectOnce, ClaimsAreExclusive
  <2> QED BY <1>i, <1>q, <2>1, <2>7, ExpirersFrame, RowFrame
<1>13. ASSUME NEW h \in Handlers, WebhookIsLate(h)
      PROVE  LifecycleInv'
  <2>1. /\ UNCHANGED <<row, clock, expirer, applied>>
        /\ processed \subseteq processed'
        /\ Free(h)
    BY <1>13 DEF WebhookIsLate
  <2>2. EffectOnce' /\ ClaimsAreExclusive'
    BY <1>t, <1>i, <2>1, FreeKeepsClaims
  <2> QED BY <1>i, <1>q, <2>1, <2>2, ExpirersFrame, RowFrame
<1>14. ASSUME NEW h \in Handlers, WebhookIsDuplicate(h)
      PROVE  LifecycleInv'
  <2>1. /\ UNCHANGED <<row, clock, expirer, applied>>
        /\ processed \subseteq processed'
        /\ Free(h)
    BY <1>14 DEF WebhookIsDuplicate
  <2>2. EffectOnce' /\ ClaimsAreExclusive'
    BY <1>t, <1>i, <2>1, FreeKeepsClaims
  <2> QED BY <1>i, <1>q, <2>1, <2>2, ExpirersFrame, RowFrame
<1>15. ASSUME NEW h \in Handlers, WebhookDies(h)
      PROVE  LifecycleInv'
  <2>1. /\ UNCHANGED <<row, clock, expirer, applied>>
        /\ processed \subseteq processed'
        /\ Free(h)
    BY <1>15 DEF WebhookDies
  <2>2. EffectOnce' /\ ClaimsAreExclusive'
    BY <1>t, <1>i, <2>1, FreeKeepsClaims
  <2> QED BY <1>i, <1>q, <2>1, <2>2, ExpirersFrame, RowFrame
<1>16. ASSUME NEW h \in Handlers, AckReceived(h)
      PROVE  LifecycleInv'
  <2>1. /\ UNCHANGED <<clock, expirer, processed>>
        /\ handler[h].phase = "claimed"
        /\ applied' = [applied EXCEPT ![handler[h].event] = @ + 1]
        /\ Free(h)
    BY <1>16 DEF AckReceived
  <2>2. EffectOnce' /\ ClaimsAreExclusive'
    BY <1>t, <1>i, <2>1, ApplyKeepsClaims
  <2>3. row'.state = row.state \/ row'.state = "ack_received"
    BY <1>16, <1>t DEF AckReceived, TypeOK, Rows
  <2> QED BY <1>i, <1>q, <2>1, <2>2, <2>3, ExpirersFrame, RowFrame
<1>17. ASSUME NEW h \in Handlers, AckRejected(h)
      PROVE  LifecycleInv'
  <2>1. /\ UNCHANGED <<clock, expirer, processed>>
        /\ handler[h].phase = "claimed"
        /\ applied' = [applied EXCEPT ![handler[h].event] = @ + 1]
        /\ Free(h)
    BY <1>17 DEF AckRejected
  <2>2. EffectOnce' /\ ClaimsAreExclusive'
    BY <1>t, <1>i, <2>1, ApplyKeepsClaims
  <2>3. UNCHANGED row \/ Update(handler[h].loaded, "failed", "failed")
    BY <1>17 DEF AckRejected
  <2>4. row'.state = row.state \/ row'.state = "failed"
    BY <2>3, UpdateState
  <2> QED BY <1>i, <1>q, <2>1, <2>2, <2>4, ExpirersFrame, RowFrame
<1>18. ASSUME NEW h \in Handlers, ResultApplies(h)
      PROVE  LifecycleInv'
  <2>1. /\ UNCHANGED <<clock, expirer, processed>>
        /\ handler[h].phase = "claimed"
        /\ applied' = [applied EXCEPT ![handler[h].event] = @ + 1]
        /\ Free(h)
    BY <1>18 DEF ResultApplies
  <2>2. EffectOnce' /\ ClaimsAreExclusive'
    BY <1>t, <1>i, <2>1, ApplyKeepsClaims
  <2>3. /\ handler[h].event.kind \in Results
        /\ row'.state \in {StateOfResult(handler[h].event.kind), row.state}
    BY <1>18, UpdateState DEF ResultApplies
  <2>4. CASE row'.state = "completed" /\ handler[h].event.kind = "completed"
    <3>1. handler[h].event \in processed'
      BY <1>i, <2>1 DEF ClaimsAreExclusive
    <3>2. ExpiredAfterGrace' /\ CompletedWasReported'
      BY <2>4, <3>1 DEF ExpiredAfterGrace, CompletedWasReported
    <3> QED BY <1>i, <1>q, <2>1, <2>2, <3>2, ExpirersFrame
  <2>5. CASE row'.state = row.state \/ row'.state \notin {"expired", "completed"}
    BY <1>i, <1>q, <2>1, <2>2, <2>5, ExpirersFrame, RowFrame
  <2> QED BY <2>3, <2>4, <2>5 DEF StateOfResult, Results
<1>19. CASE ExpireJobLoads
  <2>1. UNCHANGED <<row, clock, handler, processed, applied>>
    BY <1>19 DEF ExpireJobLoads
  <2>2. ExpirersWaited'
    BY <1>19, <1>i, <1>t DEF ExpireJobLoads, Loads, ExpirersWaited, TypeOK, Open, Terminal
  <2> QED BY <1>i, <1>q, <2>1, <2>2, ClaimsFrame, RowFrame
<1>20. CASE ReconcileLoads
  <2>1. UNCHANGED <<row, clock, handler, processed, applied>>
    BY <1>20 DEF ReconcileLoads
  <2>2. ExpirersWaited'
    BY <1>20, <1>i, <1>t DEF ReconcileLoads, Loads, ExpirersWaited, TypeOK, Open, Terminal
  <2> QED BY <1>i, <1>q, <2>1, <2>2, ClaimsFrame, RowFrame
<1>21. CASE ShowLoads
  <2>1. UNCHANGED <<row, clock, handler, processed, applied>>
    BY <1>21 DEF ShowLoads
  <2>2. ExpirersWaited'
    BY <1>21, <1>i, <1>t DEF ShowLoads, Loads, ExpirersWaited, TypeOK, Open, Terminal
  <2> QED BY <1>i, <1>q, <2>1, <2>2, ClaimsFrame, RowFrame
<1>22. CASE ExpireJobReturns
  <2>1. UNCHANGED <<row, clock, handler, processed, applied>>
    BY <1>22 DEF ExpireJobReturns
  <2>2. \A y \in Expirers : expirer'[y].phase = "loaded" => expirer'[y] = expirer[y]
    <3>1. expirer' = [expirer EXCEPT !["job"] = [expirer["job"] EXCEPT !.phase = "gone"]]
      BY <1>22 DEF ExpireJobReturns
    <3>2. [expirer["job"] EXCEPT !.phase = "gone"].phase = "gone"
      BY <1>t DEF TypeOK, Expirers, Expiries
    <3> QED BY <1>t, <3>1, <3>2 DEF TypeOK
  <2>3. ExpirersWaited'
    BY <1>i, <2>1, <2>2 DEF ExpirersWaited
  <2> QED BY <1>i, <1>q, <2>1, <2>3, ClaimsFrame, RowFrame
<1>23. ASSUME NEW x \in Expirers, Expires(x)
      PROVE  LifecycleInv'
  <2>1. /\ UNCHANGED <<clock, handler, processed, applied>>
        /\ Update(expirer[x].loaded, "expired", "expired")
        /\ clock = 2
    BY <1>23, <1>i DEF Expires, ExpirersWaited
  <2>2. \A y \in Expirers : expirer'[y].phase = "loaded" => expirer'[y] = expirer[y]
    BY <1>23, <1>t DEF Expires, TypeOK, Idle
  <2>3. ExpirersWaited'
    BY <1>i, <2>1, <2>2 DEF ExpirersWaited
  <2>4. row'.state = "expired" \/ row'.state = row.state
    BY <2>1, UpdateState
  <2>5. ExpiredAfterGrace' /\ CompletedWasReported'
    BY <1>i, <2>1, <2>4 DEF ExpiredAfterGrace, CompletedWasReported
  <2> QED BY <1>i, <1>q, <2>1, <2>3, <2>5, ClaimsFrame
<1>24. ASSUME NEW x \in Expirers, ExpirerDies(x)
      PROVE  LifecycleInv'
  <2>1. UNCHANGED <<row, clock, handler, processed, applied>>
    BY <1>24 DEF ExpirerDies
  <2>2. ExpirersWaited'
    BY <1>24, <1>i, <1>t DEF ExpirerDies, ExpirersWaited, TypeOK, Idle
  <2> QED BY <1>i, <1>q, <2>1, <2>2, ClaimsFrame, RowFrame
<1>25. CASE UNCHANGED vars
  <2>1. UNCHANGED <<row, clock, expirer, handler, processed, applied>>
    BY <1>25 DEF vars
  <2> QED BY <1>i, <1>q, <2>1, ClaimsFrame, ExpirersFrame, RowFrame
<1> QED
  BY <1>1, <1>2, <1>3, <1>4, <1>5, <1>6, <1>7, <1>8, <1>9, <1>10, <1>11,
     <1>12, <1>13, <1>14, <1>15, <1>16, <1>17, <1>18, <1>19, <1>20, <1>21, <1>22,
     <1>23, <1>24, <1>25 DEF Next

\* The inductive invariant holds of every reachable state.
THEOREM LifecycleInvariance == Spec => []LifecycleInv
<1>1. Init => TypeOK
  BY TypeInit
<1>2. Init => EffectOnce /\ ClaimsAreExclusive /\ ExpirersWaited /\ ExpiredAfterGrace
              /\ CompletedWasReported
  BY DEF Init, EffectOnce, ClaimsAreExclusive, ExpirersWaited, ExpiredAfterGrace,
         CompletedWasReported, NoRow, Idle
<1>3. Init => LifecycleInv
  BY <1>1, <1>2 DEF LifecycleInv
<1> QED BY <1>3, LifecycleStep, PTL DEF Spec

\* However often the outbox posts an event, however its handlers interleave and
\* wherever they die, the event changes the row at most once.
THEOREM EventsApplyOnce == Spec => []EffectOnce
BY LifecycleInvariance, PTL DEF LifecycleInv

\* A "completed" row goes back to a completed report of the device.
THEOREM CompletedIsReported == Spec => []CompletedWasReported
BY LifecycleInvariance, PTL DEF LifecycleInv

\* No command expires before its TTL and the grace period are over.
THEOREM ExpiryWaits == Spec => []ExpiredAfterGrace
BY LifecycleInvariance, PTL DEF LifecycleInv

\* Once every writer that loaded the open row is through, the outcome is final.
THEOREM OutcomeIsFinal == Spec => QuietOutcomeIsFinal
<1>1. LifecycleInv /\ [Next]_vars => [Quiet /\ row.state \in Terminal => UNCHANGED row]_vars
  <2> SUFFICES ASSUME LifecycleInv, Next, Quiet, row.state \in Terminal
               PROVE  UNCHANGED row
    BY DEF vars
  <2>1. row # NoRow
    BY DEF NoRow, Terminal
  <2>2. \A h \in Handlers : handler[h].phase # "claimed"
    BY DEF LifecycleInv, ClaimsAreExclusive, Quiet
  <2>3. \A x \in Expirers : expirer[x].phase # "loaded"
    BY DEF LifecycleInv, ExpirersWaited, Quiet
  <2>4. job.phase # "answered"
    BY DEF Quiet
  <2>5. ~ Enqueue /\ ~ EnqueueDies /\ ~ DispatchWrite
    BY <2>1, <2>4 DEF Enqueue, EnqueueDies, DispatchWrite
  <2>6. \A h \in Handlers : ~ AckReceived(h) /\ ~ AckRejected(h) /\ ~ ResultApplies(h)
    BY <2>2 DEF AckReceived, AckRejected, ResultApplies
  <2>7. \A x \in Expirers : ~ Expires(x)
    BY <2>3 DEF Expires
  <2> QED
    BY <2>5, <2>6, <2>7
    DEF Next, DispatchPost, GatewayAnswers, PostThrows, DispatchEnds, WorkerDies, Tick,
        DeviceAnswers, WebhookLoads, WebhookClaims, WebhookIsLate, WebhookIsDuplicate,
        WebhookDies, ExpireJobLoads, ExpireJobReturns, ReconcileLoads, ShowLoads,
        ExpirerDies
<1> QED BY <1>1, LifecycleInvariance, PTL DEF Spec, QuietOutcomeIsFinal

-----------------------------------------------------------------------------
(* The webhook outbox *)

\* INSERT OR IGNORE and _mark_retry write well-typed rows.
LEMMA InsertTypes ==
  ASSUME OutboxTypeOK, NEW e \in EventIds, Insert(e)
  PROVE  /\ status' \in [EventIds -> {"absent", "pending", "delivered", "dlq"}]
         /\ due' \in [EventIds -> BOOLEAN]
<1>1. CASE status[e] = "absent"
  BY <1>1 DEF OutboxTypeOK, Insert
<1>2. CASE status[e] # "absent"
  BY <1>2 DEF OutboxTypeOK, Insert
<1> QED BY <1>1, <1>2

LEMMA MarkRetryTypes ==
  ASSUME OutboxTypeOK, NEW e \in EventIds, NEW n \in Nat, MarkRetry(e, n)
  PROVE  /\ status' \in [EventIds -> {"absent", "pending", "delivered", "dlq"}]
         /\ attempts' \in [EventIds -> Nat]
         /\ due' \in [EventIds -> BOOLEAN]
         /\ failures' \in [EventIds -> Nat]
<1>1. CASE n + 1 >= MaxAttempts
  BY <1>1 DEF OutboxTypeOK, MarkRetry
<1>2. CASE ~(n + 1 >= MaxAttempts)
  <2>1. /\ status' = [status EXCEPT ![e] = "pending"]
        /\ attempts' = [attempts EXCEPT ![e] = n + 1]
        /\ due' = [due EXCEPT ![e] = FALSE]
        /\ failures' = [failures EXCEPT ![e] = failures[e] + 1]
    BY <1>2 DEF MarkRetry
  <2> QED BY <2>1 DEF OutboxTypeOK
<1> QED BY <1>1, <1>2

\* No action leaves the types of the outbox's table, tasks and history.
THEOREM OutboxTypeCorrect == OutboxSpec => []OutboxTypeOK
<1>1. OutboxInit => OutboxTypeOK
  BY OutboxAssumption DEF OutboxInit, OutboxTypeOK, Posters
<1>2. OutboxTypeOK /\ [OutboxNext]_outboxVars => OutboxTypeOK'
  <2> SUFFICES ASSUME OutboxTypeOK, [OutboxNext]_outboxVars PROVE OutboxTypeOK'
    OBVIOUS
  <2> USE OutboxAssumption DEF OutboxTypeOK, Posters, table, tasks, history
  <2>1. ASSUME NEW s \in Senders, NEW e \in EventIds, EnqueueAndSend(s, e) PROVE OutboxTypeOK'
    BY <2>1, InsertTypes DEF EnqueueAndSend
  <2>2. ASSUME NEW s \in Senders, NEW e \in EventIds, EnqueueAndFail(s, e) PROVE OutboxTypeOK'
    <3>1. attempts[e] \in Nat
      OBVIOUS
    <3> QED BY <2>2, <3>1, MarkRetryTypes DEF EnqueueAndFail
  <2>3. ASSUME NEW p \in Posters, Receive(p) PROVE OutboxTypeOK'
    BY <2>3 DEF Receive
  <2>4. ASSUME NEW p \in Posters, DeliverOk(p) PROVE OutboxTypeOK'
    BY <2>4 DEF DeliverOk, MarkDelivered
  <2>5. ASSUME NEW p \in Posters, DeliverFail(p) PROVE OutboxTypeOK'
    <3>1. posting[p] \in EventIds
      BY <2>5 DEF DeliverFail
    <3>2. AttemptsSeenBy(p, posting[p]) \in Nat
      BY <3>1 DEF AttemptsSeenBy
    <3> QED BY <2>5, <3>1, <3>2, MarkRetryTypes DEF DeliverFail
  <2>6. CASE FetchDue
    BY <2>6 DEF FetchDue, Due
  <2>7. ASSUME NEW e \in EventIds, WorkerSend(e) PROVE OutboxTypeOK'
    BY <2>7 DEF WorkerSend
  <2>8. ASSUME NEW e \in EventIds, WorkerFail(e) PROVE OutboxTypeOK'
    <3>1. snapshot[e] \in Nat
      OBVIOUS
    <3> QED BY <2>8, <3>1, MarkRetryTypes DEF WorkerFail
  <2>9. ASSUME NEW e \in EventIds, RetryDue(e) PROVE OutboxTypeOK'
    BY <2>9 DEF RetryDue
  <2>10. ASSUME NEW n \in 0..MaxFaults, SetFaultMode(n) PROVE OutboxTypeOK'
    BY <2>10 DEF SetFaultMode
  <2>11. CASE Restart
    BY <2>11 DEF Restart
  <2>12. CASE UNCHANGED outboxVars
    BY <2>12 DEF outboxVars
  <2> QED
    BY <2>1, <2>2, <2>3, <2>4, <2>5, <2>6, <2>7, <2>8, <2>9, <2>10, <2>11, <2>12 DEF OutboxNext
<1> QED
  BY <1>1, <1>2, PTL DEF OutboxSpec

-----------------------------------------------------------------------------
\* The four facts of OutboxInv that are not about types.
Facts == DeliveredWasReceived /\ HandledWasReceived /\ AttemptsAreFailures /\ DlqOnlyAfterMaxAttempts

\* _mark_retry keeps the counting facts when the caller's idea of the number of
\* earlier attempts does not exceed the failures so far.
LEMMA MarkRetryKeepsCounts ==
  ASSUME OutboxTypeOK, AttemptsAreFailures, DlqOnlyAfterMaxAttempts,
         NEW e \in EventIds, NEW n \in Nat, n <= failures[e],
         MarkRetry(e, n), UNCHANGED snapshot
  PROVE  AttemptsAreFailures' /\ DlqOnlyAfterMaxAttempts'
BY OutboxAssumption DEF OutboxTypeOK, AttemptsAreFailures, DlqOnlyAfterMaxAttempts, MarkRetry

\* _mark_retry never claims a delivery.
LEMMA MarkRetryKeepsDelivered ==
  ASSUME OutboxTypeOK, DeliveredWasReceived,
         NEW e \in EventIds, NEW n \in Nat, MarkRetry(e, n), UNCHANGED received
  PROVE  DeliveredWasReceived'
BY DEF OutboxTypeOK, DeliveredWasReceived, MarkRetry

\* OutboxInv is inductive.
LEMMA OutboxStep == OutboxInv /\ OutboxTypeOK' /\ [OutboxNext]_outboxVars => Facts'
<1> SUFFICES ASSUME OutboxInv, OutboxTypeOK', [OutboxNext]_outboxVars PROVE Facts'
  OBVIOUS
<1> USE OutboxAssumption DEF OutboxInv, Facts
<1>a. \A e \in EventIds : attempts[e] \in Nat /\ snapshot[e] \in Nat
  BY DEF OutboxTypeOK
<1>1. ASSUME NEW s \in Senders, NEW e \in EventIds, EnqueueAndSend(s, e) PROVE Facts'
  <2>1. DeliveredWasReceived' /\ DlqOnlyAfterMaxAttempts'
    BY <1>1 DEF EnqueueAndSend, Insert, OutboxTypeOK, DeliveredWasReceived, DlqOnlyAfterMaxAttempts, history
  <2>2. HandledWasReceived'
    BY <1>1 DEF EnqueueAndSend, OutboxTypeOK, HandledWasReceived, Posters, history
  <2>3. AttemptsAreFailures'
    BY <1>1 DEF EnqueueAndSend, AttemptsAreFailures, history
  <2> QED BY <2>1, <2>2, <2>3
<1>2. ASSUME NEW s \in Senders, NEW e \in EventIds, EnqueueAndFail(s, e) PROVE Facts'
  <2>1. DeliveredWasReceived'
    BY <1>2, <1>a, MarkRetryKeepsDelivered DEF EnqueueAndFail
  <2>2. AttemptsAreFailures' /\ DlqOnlyAfterMaxAttempts'
    <3>1. attempts[e] <= failures[e] /\ attempts[e] \in Nat
      BY <1>a DEF AttemptsAreFailures
    <3> QED BY <1>2, <3>1, MarkRetryKeepsCounts DEF EnqueueAndFail
  <2>3. HandledWasReceived'
    BY <1>2 DEF EnqueueAndFail, HandledWasReceived
  <2> QED BY <2>1, <2>2, <2>3
<1>3. ASSUME NEW p \in Posters, Receive(p) PROVE Facts'
  <2>1. DeliveredWasReceived' /\ AttemptsAreFailures' /\ DlqOnlyAfterMaxAttempts'
    BY <1>3 DEF Receive, table, DeliveredWasReceived, AttemptsAreFailures, DlqOnlyAfterMaxAttempts
  <2>2. HandledWasReceived'
    BY <1>3 DEF Receive, HandledWasReceived, OutboxTypeOK
  <2> QED BY <2>1, <2>2
<1>4. ASSUME NEW p \in Posters, DeliverOk(p) PROVE Facts'
  <2>1. posting[p] \in EventIds /\ posting[p] \in received
    BY <1>4 DEF DeliverOk, HandledWasReceived, OutboxTypeOK
  <2>2. DeliveredWasReceived' /\ DlqOnlyAfterMaxAttempts'
    BY <1>4, <2>1 DEF DeliverOk, MarkDelivered, OutboxTypeOK, DeliveredWasReceived, DlqOnlyAfterMaxAttempts
  <2>3. AttemptsAreFailures'
    BY <1>4 DEF DeliverOk, MarkDelivered, AttemptsAreFailures
  <2>4. HandledWasReceived'
    BY <1>4 DEF DeliverOk, HandledWasReceived, OutboxTypeOK
  <2> QED BY <2>2, <2>3, <2>4
<1>5. ASSUME NEW p \in Posters, DeliverFail(p) PROVE Facts'
  <2>1. posting[p] \in EventIds
    BY <1>5 DEF DeliverFail, OutboxTypeOK
  <2>2. /\ AttemptsSeenBy(p, posting[p]) \in Nat
        /\ AttemptsSeenBy(p, posting[p]) <= failures[posting[p]]
    BY <1>a, <2>1 DEF AttemptsSeenBy, AttemptsAreFailures
  <2>3. DeliveredWasReceived'
    BY <1>5, <2>1, <2>2, MarkRetryKeepsDelivered DEF DeliverFail
  <2>4. AttemptsAreFailures' /\ DlqOnlyAfterMaxAttempts'
    BY <1>5, <2>1, <2>2, MarkRetryKeepsCounts DEF DeliverFail
  <2>5. HandledWasReceived'
    BY <1>5 DEF DeliverFail, HandledWasReceived, OutboxTypeOK
  <2> QED BY <2>3, <2>4, <2>5
<1>6. CASE FetchDue
  <2>1. PICK rows \in SUBSET EventIds :
          snapshot' = [e \in EventIds |-> IF e \in rows THEN attempts[e] ELSE 0]
    BY <1>6 DEF FetchDue, Due
  <2>2. AttemptsAreFailures'
    BY <1>6, <2>1 DEF FetchDue, table, history, AttemptsAreFailures, OutboxTypeOK
  <2>3. DeliveredWasReceived' /\ HandledWasReceived' /\ DlqOnlyAfterMaxAttempts'
    BY <1>6 DEF FetchDue, table, history, DeliveredWasReceived, HandledWasReceived, DlqOnlyAfterMaxAttempts
  <2> QED BY <2>2, <2>3
<1>7. ASSUME NEW e \in EventIds, WorkerSend(e) PROVE Facts'
  <2>1. HandledWasReceived'
    BY <1>7 DEF WorkerSend, OutboxTypeOK, HandledWasReceived, Posters, history
  <2>2. DeliveredWasReceived' /\ AttemptsAreFailures' /\ DlqOnlyAfterMaxAttempts'
    BY <1>7 DEF WorkerSend, table, history, DeliveredWasReceived, AttemptsAreFailures, DlqOnlyAfterMaxAttempts
  <2> QED BY <2>1, <2>2
<1>8. ASSUME NEW e \in EventIds, WorkerFail(e) PROVE Facts'
  <2>1. DeliveredWasReceived'
    BY <1>8, <1>a, MarkRetryKeepsDelivered DEF WorkerFail
  <2>2. AttemptsAreFailures' /\ DlqOnlyAfterMaxAttempts'
    <3>1. snapshot[e] <= failures[e] /\ snapshot[e] \in Nat
      BY <1>a DEF AttemptsAreFailures
    <3> QED BY <1>8, <3>1, MarkRetryKeepsCounts DEF WorkerFail
  <2>3. HandledWasReceived'
    BY <1>8 DEF WorkerFail, HandledWasReceived
  <2> QED BY <2>1, <2>2, <2>3
<1>9. ASSUME NEW e \in EventIds, RetryDue(e) PROVE Facts'
  BY <1>9 DEF RetryDue, tasks, history, DeliveredWasReceived, HandledWasReceived,
              AttemptsAreFailures, DlqOnlyAfterMaxAttempts
<1>10. ASSUME NEW n \in 0..MaxFaults, SetFaultMode(n) PROVE Facts'
  BY <1>10 DEF SetFaultMode, table, history, DeliveredWasReceived, HandledWasReceived,
               AttemptsAreFailures, DlqOnlyAfterMaxAttempts
<1>11. CASE Restart
  <2>1. HandledWasReceived'
    BY <1>11 DEF Restart, HandledWasReceived
  <2>2. AttemptsAreFailures'
    BY <1>11 DEF Restart, table, history, AttemptsAreFailures, OutboxTypeOK
  <2>3. DeliveredWasReceived' /\ DlqOnlyAfterMaxAttempts'
    BY <1>11 DEF Restart, table, history, DeliveredWasReceived, DlqOnlyAfterMaxAttempts
  <2> QED BY <2>1, <2>2, <2>3
<1>12. CASE UNCHANGED outboxVars
  BY <1>12 DEF outboxVars, table, tasks, history, DeliveredWasReceived, HandledWasReceived,
               AttemptsAreFailures, DlqOnlyAfterMaxAttempts
<1> QED
  BY <1>1, <1>2, <1>3, <1>4, <1>5, <1>6, <1>7, <1>8, <1>9, <1>10, <1>11, <1>12 DEF OutboxNext

LEMMA OutboxInvariance == OutboxSpec => []OutboxInv
<1>1. OutboxInit => OutboxInv
  <2> SUFFICES ASSUME OutboxInit PROVE OutboxInv
    OBVIOUS
  <2>1. OutboxTypeOK
    BY OutboxAssumption DEF OutboxInit, OutboxTypeOK, Posters
  <2>2. DeliveredWasReceived /\ HandledWasReceived /\ AttemptsAreFailures /\ DlqOnlyAfterMaxAttempts
    BY DEF OutboxInit, DeliveredWasReceived, HandledWasReceived, AttemptsAreFailures, DlqOnlyAfterMaxAttempts
  <2> QED BY <2>1, <2>2 DEF OutboxInv
<1>2. OutboxInv /\ OutboxTypeOK' /\ [OutboxNext]_outboxVars => OutboxInv'
  BY OutboxStep DEF OutboxInv, Facts
<1> QED
  BY <1>1, <1>2, OutboxTypeCorrect, PTL DEF OutboxSpec

\* For any number of senders, restarts and retries: a row marked delivered was
\* processed by the receiver.
THEOREM DeliveredIsReceived == OutboxSpec => []DeliveredWasReceived
<1>1. OutboxInv => DeliveredWasReceived
  BY DEF OutboxInv
<1> QED BY <1>1, OutboxInvariance, PTL

\* For any max_attempts: a dead letter had at least max_attempts failures.
THEOREM DlqIsExhausted == OutboxSpec => []DlqOnlyAfterMaxAttempts
<1>1. OutboxInv => DlqOnlyAfterMaxAttempts
  BY DEF OutboxInv
<1> QED BY <1>1, OutboxInvariance, PTL

\* For any number of posters and restarts: the attempts column, and the copy of
\* it the worker took before its request, never count a delivery that has not
\* failed (_mark_retry with the worker's stale row).
THEOREM AttemptsNeverRunAhead == OutboxSpec => []AttemptsAreFailures
<1>1. OutboxInv => AttemptsAreFailures
  BY DEF OutboxInv
<1> QED BY <1>1, OutboxInvariance, PTL
==============================================================================
