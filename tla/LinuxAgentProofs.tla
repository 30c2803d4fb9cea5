-------------------------- MODULE LinuxAgentProofs --------------------------
(* What the Linux agent sends, for any number of commands, deliveries,     *)
(* frames and crashes and any size of the table of processed commands: it  *)
(* reports before it remembers, acknowledges before it reports, repeats    *)
(* its answers and never reuses a sequence number.                         *)
EXTENDS LinuxAgentMemory

-----------------------------------------------------------------------------
(* The inductive invariant, on top of KeepInv.                             *)

\* What is popped has been written.
ReportInv ==
    /\ RememberedIsReported
    /\ todo = EndRemember => Reported(work.cmd)
    /\ todo = FlushPop => Head(outbox) \in wire

\* The acknowledgement of c is on the wire or in the outbox before position i.
AckedBefore(i, c) ==
    \/ Written("ack", c)
    \/ \E j \in DOMAIN outbox : j < i /\ outbox[j].type = "ack" /\ outbox[j].cmd = c
OrderInv ==
    /\ AckPrecedesResult
    /\ \A i \in DOMAIN outbox : outbox[i].type = "result" => AckedBefore(i, outbox[i].cmd)
    /\ todo \in {FreshExecute, EndResult, CachedResult} => AckedBefore(Len(outbox) + 1, work.cmd)

\* A number is saved before it is used.
SequenceInv ==
    /\ top <= saved_seq
    /\ up => sequence = saved_seq
    /\ todo \in {FlushSend, BeatSend} => top < sequence

AgentInv == KeepInv /\ ReportInv /\ OrderInv /\ SequenceInv

-----------------------------------------------------------------------------
(* Reports.                                                                *)

\* An item that was in the outbox or on the wire still is.
LEMMA ReportFrame ==
    ASSUME ReportInv, UNCHANGED processed,
           Range(outbox) \cup wire \subseteq Range(outbox') \cup wire',
           todo' = EndRemember => Reported(work.cmd)',
           todo' = FlushPop => Head(outbox') \in wire'
    PROVE  ReportInv'
<1>1. \A c \in Commands : Reported(c) => Reported(c)'
  BY DEF Reported
<1> QED BY <1>1 DEF ReportInv, RememberedIsReported, Remembers

\* The step changes neither the outbox nor the wire nor the table, and neither
\* RememberCommand nor a pop is next.
LEMMA ReportQuiet ==
    ASSUME ReportInv, UNCHANGED <<processed, outbox, wire>>, todo' \notin {EndRemember, FlushPop}
    PROVE  ReportInv'
BY ReportFrame

\* The same, when an item was enqueued.
LEMMA ReportEnqueue ==
    ASSUME TypeOK, ReportInv, NEW item \in Items, Enqueue(item), todo' # FlushPop,
           todo' = EndRemember => item.type = "result" /\ item.cmd = work.cmd
    PROVE  ReportInv'
<1>1. outbox' = Append(outbox, item) /\ outbox \in Seq(Items)
  BY DEF Enqueue, TypeOK
<1>2. /\ DOMAIN outbox = 1 .. Len(outbox) /\ DOMAIN outbox' = 1 .. Len(outbox) + 1
      /\ \A i \in 1 .. Len(outbox) : outbox'[i] = outbox[i]
      /\ outbox'[Len(outbox) + 1] = item
      /\ Len(outbox) \in Nat
  BY <1>1
<1>3. Range(outbox) \subseteq Range(outbox') /\ item \in Range(outbox')
  BY <1>2 DEF Range
<1>4. UNCHANGED <<processed, wire, work>>
  BY DEF Enqueue, history
<1>5. todo' = EndRemember => Reported(work.cmd)'
  BY <1>3, <1>4 DEF Reported
<1> QED BY <1>3, <1>4, <1>5, ReportFrame

LEMMA ReportRemember ==
    ASSUME TypeOK, ControlInv, MemoryInv, ReportInv, Remember
    PROVE  ReportInv'
<1>1. todo = EndRemember /\ todo' = Flush
  BY MoveRemember DEF Remember, ControlInv
<1>2. work \in Works /\ work.outcome \in Outcomes /\ ~Remembers(work.cmd)
  BY <1>1 DEF ControlInv, MemoryInv, CommandRuns, EndRuns
<1>3. \A i \in DOMAIN processed' :
         processed'[i] = Answer \/ \E j \in DOMAIN processed : processed'[i] = processed[j]
  BY <1>2, RememberTable
<1>4. \A c : Reported(c)' <=> Reported(c)
  BY DEF Reported, Remember
<1>5. ASSUME NEW c \in Commands, Remembers(c)' PROVE Reported(c)'
  <2>1. c = work.cmd \/ Remembers(c)
    BY <1>3, <1>5 DEF Remembers, Answer
  <2> QED BY <1>1, <1>4, <2>1 DEF ReportInv, RememberedIsReported
<1> QED BY <1>1, <1>5, RunsDiffer DEF ReportInv, RememberedIsReported

LEMMA ReportPop ==
    ASSUME TypeOK, ControlInv, ReportInv, PopFront
    PROVE  ReportInv'
<1>1. todo = FlushPop /\ todo' = Flush
  BY MovePop DEF PopFront, ControlInv
<1>2. outbox \in Seq(Items) /\ outbox # <<>> /\ outbox' = Tail(outbox) /\ wire' = wire
  BY <1>1 DEF TypeOK, ControlInv, FlushRuns, PopFront, history
<1>3. outbox[1] \in wire
  BY <1>1, <1>2 DEF ReportInv
<1>4. /\ DOMAIN outbox = 1 .. Len(outbox) /\ DOMAIN outbox' = 1 .. Len(outbox) - 1
      /\ \A i \in 1 .. Len(outbox) - 1 : outbox'[i] = outbox[i + 1]
      /\ Len(outbox) \in Nat \ {0}
  BY <1>2
<1>5. ASSUME NEW i \in DOMAIN outbox PROVE outbox[i] \in Range(outbox') \cup wire'
  <2>1. CASE i = 1
    BY <1>2, <1>3, <2>1
  <2>2. CASE i # 1
    <3>1. i - 1 \in DOMAIN outbox' /\ outbox'[i - 1] = outbox[i]
      BY <1>4, <2>2
    <3> QED BY <3>1 DEF Range
  <2> QED BY <2>1, <2>2
<1>6. Range(outbox) \cup wire \subseteq Range(outbox') \cup wire'
  BY <1>2, <1>5 DEF Range
<1> QED BY <1>1, <1>6, ReportFrame, RunsDiffer DEF PopFront

LEMMA ReportStep ==
    ASSUME TypeOK, ControlInv, MemoryInv, ReportInv, [Next]_vars
    PROVE  ReportInv'
<1>0. todo \in Runs
  BY DEF ControlInv
<1>1. CASE Start
  BY <1>1, RunsDiffer, ReportQuiet DEF Start, Flush
<1>2. ASSUME NEW d \in Deliveries, Deliver(d) PROVE ReportInv'
  BY <1>2, DeliverCases, RunsDiffer, ReportQuiet DEF Deliver, saved, history
<1>3. ASSUME NEW steps \in {HandleUpdateAnnounce, Heartbeat, SendTelemetry}, Report(steps)
      PROVE  ReportInv'
  <2>1. todo' \in {UpdateStatus, BeatSeq, Sample}
    BY <1>3, Programs, Zenon DEF Report
  <2>2. UNCHANGED <<processed, outbox, wire>>
    BY <1>3 DEF Report, saved, history
  <2> QED BY <2>1, <2>2, RunsDiffer, ReportQuiet
<1>4. ASSUME NEW c \in Commands, TtlPasses(c) PROVE ReportInv'
  BY <1>4 DEF TtlPasses, saved, volatile, history, ReportInv, RememberedIsReported, Remembers, Reported
<1>5. CASE Exit
  BY <1>5, RunsDiffer, ReportQuiet DEF Exit, saved
<1>6. CASE SetLastDeliveryId
  BY <1>0, <1>6, MoveLast, RunsDiffer, ReportQuiet DEF SetLastDeliveryId, history
<1>7. CASE EnqueueAck
  <2>1. /\ todo' \notin {EndRemember, FlushPop}
        /\ work \in Works
    BY <1>0, <1>7, MoveAck, RunsDiffer
       DEF EnqueueAck, ControlInv, CommandRuns, FreshRuns, ExpiredRuns, CachedRuns
  <2>2. [type |-> "ack", cmd |-> work.cmd, value |-> work.ack] \in Items
    BY <2>1 DEF Items, Works
  <2> QED BY <1>7, <2>1, <2>2, ReportEnqueue DEF EnqueueAck
<1>8. CASE EnqueueResult
  <2>1. /\ todo' # FlushPop
        /\ work \in Works /\ work.outcome \in Outcomes
    BY <1>0, <1>8, MoveResult, RunsDiffer
       DEF EnqueueResult, ControlInv, MemoryInv, CommandRuns, EndRuns, CachedRuns
  <2>2. [type |-> "result", cmd |-> work.cmd, value |-> work.outcome] \in Items
    BY <2>1 DEF Items, Works
  <2> QED BY <1>8, <2>1, <2>2, ReportEnqueue DEF EnqueueResult
<1>9. CASE EnqueueUpdateStatus
  <2>1. todo' \notin {EndRemember, FlushPop}
    BY <1>0, <1>9, MoveUpdate, RunsDiffer DEF EnqueueUpdateStatus
  <2>2. Plain("update") \in Items
    BY DEF Plain, Items
  <2> QED BY <1>9, <2>1, <2>2, ReportEnqueue DEF EnqueueUpdateStatus
<1>10. CASE EnqueueTelemetry
  <2>1. todo' \notin {EndRemember, FlushPop}
    BY <1>0, <1>10, MoveTelemetry, RunsDiffer DEF EnqueueTelemetry
  <2>2. Range(outbox) = {}
    BY <1>10, SampleIsAlone DEF Range
  <2> QED BY <1>10, <2>1, <2>2, ReportFrame DEF EnqueueTelemetry, history
<1>11. CASE ExecuteFails \/ \E o \in Outcomes : Execute(o)
  <2>1. todo' = EndResult
    BY <1>0, <1>11, MoveExecute DEF Execute, ExecuteFails
  <2>2. UNCHANGED <<processed, outbox, wire>>
    BY <1>11 DEF Execute, ExecuteFails, history
  <2> QED BY <2>1, <2>2, RunsDiffer, ReportQuiet
<1>12. CASE Remember
  BY <1>12, ReportRemember
<1>13. CASE FlushNext
  BY <1>0, <1>13, MoveFlush, RunsDiffer, ReportQuiet DEF FlushNext, saved, history
<1>14. CASE NextSequence
  BY <1>0, <1>14, MoveSeq, RunsDiffer, ReportQuiet DEF NextSequence, history
<1>15. CASE SendSigned
  <2>1. todo' = FlushPop
    BY <1>0, <1>15, MoveSend DEF SendSigned
  <2> QED BY <1>15, <2>1, RunsDiffer, ReportFrame DEF SendSigned, saved
<1>16. CASE SendHeartbeat
  BY <1>0, <1>16, MoveHeartbeat, RunsDiffer, ReportQuiet DEF SendHeartbeat, saved
<1>17. CASE PopFront
  BY <1>17, ReportPop
<1>18. CASE UNCHANGED vars
  BY <1>18 DEF vars, saved, volatile, history, ReportInv, RememberedIsReported, Remembers, Reported
<1> QED
  BY <1>1, <1>2, <1>3, <1>4, <1>5, <1>6, <1>7, <1>8, <1>9, <1>10, <1>11, <1>12, <1>13,
     <1>14, <1>15, <1>16, <1>17, <1>18 DEF Next, HandlerStep

-----------------------------------------------------------------------------
(* The order of acknowledgements and results.                              *)

\* The step changes neither the outbox nor the wire, and the handler does not
\* come to owe a result it did not owe.
LEMMA OrderFrame ==
    ASSUME OrderInv, UNCHANGED <<outbox, wire>>,
           todo' \in {FreshExecute, EndResult, CachedResult} =>
               /\ todo \in {FreshExecute, EndResult, CachedResult}
               /\ work'.cmd = work.cmd
    PROVE  OrderInv'
BY DEF OrderInv, AckPrecedesResult, AckedBefore, Written

LEMMA OrderEnqueue ==
    ASSUME TypeOK, OrderInv, NEW item \in Items, Enqueue(item),
           item.type = "result" => AckedBefore(Len(outbox) + 1, item.cmd),
           todo' \in {FreshExecute, EndResult, CachedResult} => item.type = "ack" /\ item.cmd = work.cmd
    PROVE  OrderInv'
<1>1. outbox' = Append(outbox, item) /\ outbox \in Seq(Items) /\ wire' = wire /\ work' = work
  BY DEF Enqueue, TypeOK, history
<1>2. /\ DOMAIN outbox = 1 .. Len(outbox) /\ DOMAIN outbox' = 1 .. Len(outbox) + 1
      /\ \A i \in 1 .. Len(outbox) : outbox'[i] = outbox[i]
      /\ outbox'[Len(outbox) + 1] = item
      /\ Len(outbox) \in Nat /\ Len(outbox') = Len(outbox) + 1
  BY <1>1
<1>3. \A i, c : AckedBefore(i, c) => AckedBefore(i, c)'
  BY <1>1, <1>2 DEF AckedBefore, Written
<1>4. ASSUME NEW i \in DOMAIN outbox', outbox'[i].type = "result"
      PROVE  AckedBefore(i, outbox[i].cmd)'
  <2>1. CASE i = Len(outbox) + 1
    BY <1>2, <1>3, <1>4, <2>1
  <2>2. CASE i # Len(outbox) + 1
    <3>1. i \in DOMAIN outbox /\ outbox'[i] = outbox[i]
      BY <1>2, <2>2
    <3> QED BY <1>3, <1>4, <3>1 DEF OrderInv
  <2> QED BY <2>1, <2>2
<1>5. ASSUME todo' \in {FreshExecute, EndResult, CachedResult}
      PROVE  AckedBefore(Len(outbox) + 1, work.cmd)'
  <2>1. Len(outbox) + 1 \in DOMAIN outbox' /\ Len(outbox) + 1 < Len(outbox') + 1
    BY <1>2
  <2> QED BY <1>1, <1>2, <1>5, <2>1 DEF AckedBefore
<1>6. AckPrecedesResult'
  BY <1>1 DEF OrderInv, AckPrecedesResult, Written
<1> QED BY <1>4, <1>5, <1>6 DEF OrderInv

LEMMA OrderSend ==
    ASSUME TypeOK, ControlInv, OrderInv, SendSigned
    PROVE  OrderInv'
<1>1. todo = FlushSend /\ todo' = FlushPop
  BY MoveSend DEF SendSigned, ControlInv
<1>2. outbox \in Seq(Items) /\ outbox # <<>> /\ outbox' = outbox /\ wire' = wire \cup {Head(outbox)}
  BY <1>1 DEF TypeOK, ControlInv, FlushRuns, SendSigned, saved
<1>3. 1 \in DOMAIN outbox /\ Head(outbox) = outbox[1] /\ ~\E j \in DOMAIN outbox : j < 1
  BY <1>2
<1>4. \A t, c : Written(t, c) => Written(t, c)'
  BY <1>2 DEF Written
<1>5. \A i, c : AckedBefore(i, c) => AckedBefore(i, c)'
  BY <1>2, <1>4 DEF AckedBefore
<1>6. ASSUME NEW c \in Commands, Written("result", c)' PROVE Written("ack", c)'
  <2>1. Written("result", c) \/ (outbox[1].type = "result" /\ outbox[1].cmd = c)
    BY <1>2, <1>3, <1>6 DEF Written
  <2>2. CASE Written("result", c)
    BY <1>4, <2>2 DEF OrderInv, AckPrecedesResult
  <2>3. CASE outbox[1].type = "result" /\ outbox[1].cmd = c
    <3>1. AckedBefore(1, c)
      BY <1>3, <2>3 DEF OrderInv
    <3>2. Written("ack", c)
      BY <1>3, <3>1 DEF AckedBefore
    <3> QED BY <1>4, <3>2
  <2> QED BY <2>1, <2>2, <2>3
<1>7. AckPrecedesResult'
  BY <1>6 DEF AckPrecedesResult
<1>8. \A i \in DOMAIN outbox' : outbox'[i].type = "result" => AckedBefore(i, outbox[i].cmd)'
  BY <1>2, <1>5 DEF OrderInv
<1> QED BY <1>1, <1>7, <1>8, RunsDiffer DEF OrderInv

LEMMA OrderPop ==
    ASSUME TypeOK, ControlInv, ReportInv, OrderInv, PopFront
    PROVE  OrderInv'
<1>1. todo = FlushPop /\ todo' = Flush
  BY MovePop DEF PopFront, ControlInv
<1>2. outbox \in Seq(Items) /\ outbox # <<>> /\ outbox' = Tail(outbox) /\ wire' = wire
  BY <1>1 DEF TypeOK, ControlInv, FlushRuns, PopFront, history
<1>3. outbox[1] \in wire
  BY <1>1, <1>2 DEF ReportInv
<1>4. /\ DOMAIN outbox = 1 .. Len(outbox) /\ DOMAIN outbox' = 1 .. Len(outbox) - 1
      /\ \A i \in 1 .. Len(outbox) - 1 : outbox'[i] = outbox[i + 1]
      /\ Len(outbox) \in Nat \ {0}
  BY <1>2
<1>5. ASSUME NEW i \in DOMAIN outbox', outbox'[i].type = "result"
      PROVE  AckedBefore(i, outbox[i].cmd)'
  <2> SUFFICES ASSUME NEW c, c = outbox'[i].cmd PROVE AckedBefore(i, c)'
    BY DEF AckedBefore, Written
  <2>1. i + 1 \in DOMAIN outbox /\ outbox'[i] = outbox[i + 1]
    BY <1>4
  <2>2. AckedBefore(i + 1, c)
    BY <1>5, <2>1 DEF OrderInv
  <2>3. CASE Written("ack", c)
    BY <1>2, <2>3 DEF AckedBefore, Written
  <2>4. ASSUME NEW j \in DOMAIN outbox, j < i + 1, outbox[j].type = "ack", outbox[j].cmd = c
        PROVE  AckedBefore(i, c)'
    <3>1. CASE j = 1
      BY <1>2, <1>3, <2>4, <3>1 DEF AckedBefore, Written
    <3>2. CASE j # 1
      <4>1. j - 1 \in DOMAIN outbox' /\ outbox'[j - 1] = outbox[j] /\ j - 1 < i
        BY <1>4, <2>4, <3>2
      <4> QED BY <2>4, <4>1 DEF AckedBefore
    <3> QED BY <3>1, <3>2
  <2> QED BY <2>2, <2>3, <2>4 DEF AckedBefore
<1>6. AckPrecedesResult'
  BY <1>2 DEF OrderInv, AckPrecedesResult, Written
<1> QED BY <1>1, <1>5, <1>6, RunsDiffer DEF OrderInv

LEMMA OrderStep ==
    ASSUME TypeOK, ControlInv, MemoryInv, ReportInv, OrderInv, [Next]_vars
    PROVE  OrderInv'
<1>0. todo \in Runs
  BY DEF ControlInv
<1>1. CASE Start
  BY <1>1, RunsDiffer, OrderFrame DEF Start, Flush
<1>2. ASSUME NEW d \in Deliveries, Deliver(d) PROVE OrderInv'
  BY <1>2, DeliverCases, RunsDiffer, OrderFrame DEF Deliver, saved, history
<1>3. ASSUME NEW steps \in {HandleUpdateAnnounce, Heartbeat, SendTelemetry}, Report(steps)
      PROVE  OrderInv'
  <2>1. todo' \in {UpdateStatus, BeatSeq, Sample}
    BY <1>3, Programs, Zenon DEF Report
  <2>2. UNCHANGED <<outbox, wire>>
    BY <1>3 DEF Report, saved, history
  <2> QED BY <2>1, <2>2, RunsDiffer, OrderFrame
<1>4. ASSUME NEW c \in Commands, TtlPasses(c) PROVE OrderInv'
  BY <1>4, OrderFrame DEF TtlPasses, saved, volatile, history
<1>5. CASE Exit
  BY <1>5, RunsDiffer, OrderFrame DEF Exit, saved
<1>6. CASE SetLastDeliveryId
  BY <1>0, <1>6, MoveLast, RunsDiffer, OrderFrame DEF SetLastDeliveryId, history
<1>7. CASE EnqueueAck
  <2> DEFINE item == [type |-> "ack", cmd |-> work.cmd, value |-> work.ack]
  <2>1. work \in Works
    BY <1>0, <1>7, MoveAck DEF EnqueueAck, ControlInv, CommandRuns, FreshRuns, ExpiredRuns, CachedRuns
  <2>2. item \in Items
    BY <2>1 DEF Items, Works
  <2>3. item.type = "ack" /\ item.cmd = work.cmd /\ Enqueue(item)
    BY <1>7 DEF EnqueueAck
  <2> HIDE DEF item
  <2> QED BY <2>2, <2>3, OrderEnqueue
<1>8. CASE EnqueueResult
  <2> DEFINE item == [type |-> "result", cmd |-> work.cmd, value |-> work.outcome]
  <2>1. /\ work \in Works /\ work.outcome \in Outcomes
        /\ todo' \notin {FreshExecute, EndResult, CachedResult}
        /\ AckedBefore(Len(outbox) + 1, work.cmd)
    BY <1>0, <1>8, MoveResult, RunsDiffer
       DEF EnqueueResult, ControlInv, MemoryInv, OrderInv, CommandRuns, EndRuns, CachedRuns
  <2>2. item \in Items
    BY <2>1 DEF Items, Works
  <2>3. item.cmd = work.cmd /\ Enqueue(item)
    BY <1>8 DEF EnqueueResult
  <2> HIDE DEF item
  <2> QED BY <2>1, <2>2, <2>3, OrderEnqueue
<1>9. CASE EnqueueUpdateStatus
  <2>1. todo' = Flush
    BY <1>0, <1>9, MoveUpdate DEF EnqueueUpdateStatus
  <2>2. Plain("update") \in Items /\ Plain("update").type # "result"
    BY DEF Plain, Items
  <2> QED BY <1>9, <2>1, <2>2, RunsDiffer, OrderEnqueue DEF EnqueueUpdateStatus
<1>10. CASE EnqueueTelemetry
  <2>1. todo' = Flush /\ wire' = wire
    BY <1>0, <1>10, MoveTelemetry DEF EnqueueTelemetry, history
  <2>2. \A i \in DOMAIN outbox' : outbox'[i].type # "result"
    BY <1>10, SampleIsAlone DEF Plain
  <2> QED BY <2>1, <2>2, RunsDiffer DEF OrderInv, AckPrecedesResult, Written
<1>11. CASE ExecuteFails \/ \E o \in Outcomes : Execute(o)
  <2>1. todo = FreshExecute /\ todo' = EndResult
    BY <1>0, <1>11, MoveExecute DEF Execute, ExecuteFails
  <2>2. UNCHANGED <<outbox, wire>> /\ work'.cmd = work.cmd
    BY <1>11, <2>1 DEF Execute, ExecuteFails, history, ControlInv, CommandRuns, FreshRuns, Works
  <2> QED BY <2>1, <2>2, OrderFrame
<1>12. CASE Remember
  BY <1>0, <1>12, MoveRemember, RunsDiffer, OrderFrame DEF Remember
<1>13. CASE FlushNext
  BY <1>0, <1>13, MoveFlush, RunsDiffer, OrderFrame DEF FlushNext, saved, history
<1>14. CASE NextSequence
  BY <1>0, <1>14, MoveSeq, RunsDiffer, OrderFrame DEF NextSequence, history
<1>15. CASE SendSigned
  BY <1>15, OrderSend
<1>16. CASE SendHeartbeat
  BY <1>0, <1>16, MoveHeartbeat, RunsDiffer, OrderFrame DEF SendHeartbeat, saved
<1>17. CASE PopFront
  BY <1>17, OrderPop
<1>18. CASE UNCHANGED vars
  BY <1>18, OrderFrame DEF vars, saved, volatile, history
<1> QED
  BY <1>1, <1>2, <1>3, <1>4, <1>5, <1>6, <1>7, <1>8, <1>9, <1>10, <1>11, <1>12, <1>13,
     <1>14, <1>15, <1>16, <1>17, <1>18 DEF Next, HandlerStep

-----------------------------------------------------------------------------
(* Sequence numbers.                                                       *)

LEMMA SequenceFrame ==
    ASSUME SequenceInv, UNCHANGED <<sequence, saved_seq, top, up>>,
           todo' \in {FlushSend, BeatSend} => todo \in {FlushSend, BeatSend}
    PROVE  SequenceInv'
BY DEF SequenceInv

LEMMA SequenceStep ==
    ASSUME TypeOK, ControlInv, SequenceInv, [Next]_vars
    PROVE  SequenceInv'
<1>0. todo \in Runs /\ sequence \in Nat /\ saved_seq \in Nat /\ top \in Nat
      /\ (todo # <<>> => up)
  BY DEF ControlInv, TypeOK
<1>1. CASE Start
  <2>1. todo' \notin {FlushSend, BeatSend}
    BY <1>1, RunsDiffer DEF Start, Flush
  <2> QED BY <1>0, <1>1, <2>1 DEF Start, SequenceInv
<1>2. ASSUME NEW d \in Deliveries, Deliver(d) PROVE SequenceInv'
  BY <1>2, DeliverCases, RunsDiffer, SequenceFrame DEF Deliver, saved, history
<1>3. ASSUME NEW steps \in {HandleUpdateAnnounce, Heartbeat, SendTelemetry}, Report(steps)
      PROVE  SequenceInv'
  <2>1. todo' \in {UpdateStatus, BeatSeq, Sample}
    BY <1>3, Programs, Zenon DEF Report
  <2>2. UNCHANGED <<sequence, saved_seq, top, up>>
    BY <1>3 DEF Report, saved, history
  <2> QED BY <2>1, <2>2, RunsDiffer, SequenceFrame
<1>4. ASSUME NEW c \in Commands, TtlPasses(c) PROVE SequenceInv'
  BY <1>4, SequenceFrame DEF TtlPasses, saved, volatile, history
<1>5. CASE Exit
  <2>1. todo' \notin {FlushSend, BeatSend}
    BY <1>5, RunsDiffer DEF Exit
  <2> QED BY <1>5, <2>1 DEF Exit, SequenceInv, saved
<1>6. CASE SetLastDeliveryId
  BY <1>0, <1>6, MoveLast, RunsDiffer, SequenceFrame DEF SetLastDeliveryId, history
<1>7. CASE EnqueueAck
  BY <1>0, <1>7, MoveAck, RunsDiffer, SequenceFrame DEF EnqueueAck, Enqueue, history
<1>8. CASE EnqueueResult
  BY <1>0, <1>8, MoveResult, RunsDiffer, SequenceFrame DEF EnqueueResult, Enqueue, history
<1>9. CASE EnqueueUpdateStatus
  BY <1>0, <1>9, MoveUpdate, RunsDiffer, SequenceFrame DEF EnqueueUpdateStatus, Enqueue, history
<1>10. CASE EnqueueTelemetry
  BY <1>0, <1>10, MoveTelemetry, RunsDiffer, SequenceFrame DEF EnqueueTelemetry, history
<1>11. CASE ExecuteFails \/ \E o \in Outcomes : Execute(o)
  <2>1. todo # <<>> /\ todo' \notin {FlushSend, BeatSend}
    BY <1>0, <1>11, MoveExecute, RunsDiffer DEF Execute, ExecuteFails
  <2>2. sequence' \in {sequence, sequence + 1} /\ saved_seq' = sequence' /\ top' = top
    BY <1>11 DEF Execute, ExecuteFails, history
  <2> QED BY <1>0, <2>1, <2>2 DEF SequenceInv
<1>12. CASE Remember
  BY <1>0, <1>12, MoveRemember, RunsDiffer, SequenceFrame DEF Remember
<1>13. CASE FlushNext
  BY <1>0, <1>13, MoveFlush, RunsDiffer, SequenceFrame DEF FlushNext, saved, history
<1>14. CASE NextSequence
  <2>1. up
    BY <1>0, <1>14 DEF NextSequence, Does
  <2>2. sequence' = sequence + 1 /\ saved_seq' = sequence' /\ top' = top
    BY <1>14 DEF NextSequence, history
  <2> QED BY <1>0, <2>1, <2>2 DEF SequenceInv
<1>15. CASE SendSigned
  <2>1. up /\ todo' = FlushPop
    BY <1>0, <1>15, MoveSend DEF SendSigned, Does
  <2>2. todo' \notin {FlushSend, BeatSend}
    BY <2>1, RunsDiffer
  <2> QED BY <1>0, <1>15, <2>1, <2>2 DEF SendSigned, SequenceInv, saved
<1>16. CASE SendHeartbeat
  <2>1. up /\ todo' = Flush
    BY <1>0, <1>16, MoveHeartbeat DEF SendHeartbeat, Does
  <2>2. todo' \notin {FlushSend, BeatSend}
    BY <2>1, RunsDiffer
  <2> QED BY <1>0, <1>16, <2>1, <2>2 DEF SendHeartbeat, SequenceInv, saved
<1>17. CASE PopFront
  BY <1>0, <1>17, MovePop, RunsDiffer, SequenceFrame DEF PopFront, history
<1>18. CASE UNCHANGED vars
  BY <1>18, SequenceFrame DEF vars, saved, volatile, history
<1> QED
  BY <1>1, <1>2, <1>3, <1>4, <1>5, <1>6, <1>7, <1>8, <1>9, <1>10, <1>11, <1>12, <1>13,
     <1>14, <1>15, <1>16, <1>17, <1>18 DEF Next, HandlerStep

-----------------------------------------------------------------------------
(* Theorems.                                                               *)

\* The invariant holds in every state of every behaviour of the agent.
THEOREM AgentInvariance == Spec => []AgentInv
<1>1. Init => AgentInv
  <2> SUFFICES ASSUME Init PROVE AgentInv
    OBVIOUS
  <2>1. KeepInv
    BY KeepInit
  <2>2. todo \notin CommandRuns /\ todo \notin {FlushSend, BeatSend, FlushPop}
    BY RunsDiffer DEF Init, CommandRuns, FreshRuns, ExpiredRuns, EndRuns, CachedRuns
  <2>3. ReportInv
    BY <2>2 DEF Init, ReportInv, RememberedIsReported, Remembers, CommandRuns, EndRuns
  <2>4. OrderInv
    BY <2>2 DEF Init, OrderInv, AckPrecedesResult, Written, CommandRuns, FreshRuns, EndRuns, CachedRuns
  <2>5. SequenceInv
    BY <2>2 DEF Init, SequenceInv
  <2> QED BY <2>1, <2>3, <2>4, <2>5 DEF AgentInv
<1>2. AgentInv /\ [Next]_vars => AgentInv'
  <2> SUFFICES ASSUME AgentInv, [Next]_vars PROVE AgentInv'
    OBVIOUS
  <2>0. KeepInv /\ TypeOK /\ ControlInv /\ MemoryInv /\ ReportInv /\ OrderInv /\ SequenceInv
    BY DEF AgentInv, KeepInv
  <2>1. KeepInv'
    BY <2>0, KeepStep
  <2>2. ReportInv' /\ OrderInv' /\ SequenceInv'
    BY <2>0, ReportStep, OrderStep, SequenceStep
  <2> QED BY <2>1, <2>2 DEF AgentInv
<1> QED BY <1>1, <1>2, PTL DEF Spec

\* A remembered command has its result in the outbox file or on the wire,
\* wherever the process dies (CommandProcessor::Handle saves the result first).
THEOREM ResultPrecedesMemory == Spec => []RememberedIsReported
<1>1. AgentInv => RememberedIsReported
  BY DEF AgentInv, ReportInv
<1> QED BY <1>1, AgentInvariance, PTL

\* The acknowledgement of a command is on the wire before its result, across
\* crashes and redeliveries (EnqueueAck, EnqueueResult, FlushOutbox).
THEOREM AckComesFirst == Spec => []AckPrecedesResult
<1>1. AgentInv => AckPrecedesResult
  BY DEF AgentInv, OrderInv
<1> QED BY <1>1, AgentInvariance, PTL

\* Every frame carries a larger number than the frames before it, restarts
\* included (NextSequence saves before the frame is written).
THEOREM NumbersNeverRepeat == Spec => SequenceIsFresh
<1>1. AgentInv /\ [Next]_vars => [top' # top => top' > top]_vars
  <2> SUFFICES ASSUME AgentInv, [Next]_vars, top' # top PROVE top' > top
    OBVIOUS
  <2>0. TypeOK /\ ControlInv /\ SequenceInv /\ todo \in Runs
    BY DEF AgentInv, KeepInv, ControlInv
  <2>1. top' = saved_seq + 1 \/ (top' = sequence /\ todo \in {FlushSend, BeatSend})
    <3>1. CASE Start
      BY <3>1 DEF Start
    <3>2. CASE SendSigned
      BY <2>0, <3>2, MoveSend DEF SendSigned
    <3>3. CASE SendHeartbeat
      BY <2>0, <3>3, MoveHeartbeat DEF SendHeartbeat
    <3>4. \/ Start \/ SendSigned \/ SendHeartbeat
      BY DEF Next, HandlerStep, Deliver, Report, TtlPasses, Exit, SetLastDeliveryId, EnqueueAck,
             EnqueueResult, EnqueueUpdateStatus, Enqueue, EnqueueTelemetry, Execute, ExecuteFails,
             Remember, FlushNext, NextSequence, PopFront, vars, history
    <3> QED BY <3>1, <3>2, <3>3, <3>4
  <2> QED BY <2>0, <2>1 DEF SequenceInv, TypeOK
<1> QED BY <1>1, AgentInvariance, PTL DEF Spec, SequenceIsFresh

\* In a table without duplicates the entry found for a command is the only one.
LEMMA EntryOf ==
    ASSUME NEW q, \A i, j \in DOMAIN q : q[i].cmd = q[j].cmd => i = j,
           NEW c, NEW k \in DOMAIN q, q[k].cmd = c
    PROVE  q[CHOOSE i \in DOMAIN q : q[i].cmd = c] = q[k]
<1> DEFINE m == CHOOSE i \in DOMAIN q : q[i].cmd = c
<1>1. m \in DOMAIN q /\ q[m].cmd = c
  OBVIOUS
<1>2. m = k
  BY <1>1
<1> QED BY <1>2

\* A result that is new in the outbox was put there by EnqueueResult.
LEMMA NewResult ==
    ASSUME AgentInv, [Next]_vars,
           NEW item \in Range(outbox') \ Range(outbox), item.type = "result"
    PROVE  EnqueueResult /\ item = [type |-> "result", cmd |-> work.cmd, value |-> work.outcome]
<1>0. TypeOK /\ ControlInv /\ outbox \in Seq(Items)
  BY DEF AgentInv, KeepInv, TypeOK
<1>1. ASSUME NEW new, outbox' = Append(outbox, new) PROVE item = new
  <2>1. /\ DOMAIN outbox = 1 .. Len(outbox) /\ Len(outbox) \in Nat
        /\ DOMAIN outbox' = 1 .. Len(outbox) + 1
        /\ \A i \in 1 .. Len(outbox) : outbox'[i] = outbox[i]
        /\ outbox'[Len(outbox) + 1] = new
    BY <1>0, <1>1
  <2>2. PICK i \in DOMAIN outbox' : item = outbox'[i]
    BY DEF Range
  <2>3. i \notin DOMAIN outbox
    BY <2>1, <2>2 DEF Range
  <2> QED BY <2>1, <2>2, <2>3
<1>2. CASE EnqueueAck
  BY <1>1, <1>2 DEF EnqueueAck, Enqueue
<1>3. CASE EnqueueResult
  BY <1>1, <1>3 DEF EnqueueResult, Enqueue
<1>4. CASE EnqueueUpdateStatus
  BY <1>1, <1>4 DEF EnqueueUpdateStatus, Enqueue, Plain
<1>5. CASE EnqueueTelemetry
  <2>1. outbox' = <<Plain("telemetry")>>
    BY <1>0, <1>5, SampleIsAlone
  <2> QED BY <2>1 DEF Range, Plain
<1>6. CASE PopFront
  <2>1. todo = FlushPop
    BY <1>0, <1>6, MovePop DEF PopFront, ControlInv
  <2>2. outbox # <<>> /\ outbox' = Tail(outbox)
    BY <1>0, <1>6, <2>1 DEF ControlInv, FlushRuns, PopFront
  <2>3. /\ DOMAIN outbox = 1 .. Len(outbox) /\ DOMAIN outbox' = 1 .. Len(outbox) - 1
        /\ \A i \in 1 .. Len(outbox) - 1 : outbox'[i] = outbox[i + 1]
        /\ Len(outbox) \in Nat \ {0}
    BY <1>0, <2>2
  <2>4. PICK i \in DOMAIN outbox' : item = outbox'[i]
    BY DEF Range
  <2>5. i + 1 \in DOMAIN outbox /\ item = outbox[i + 1]
    BY <2>3, <2>4
  <2> QED BY <2>5 DEF Range
<1>7. \/ EnqueueAck \/ EnqueueResult \/ EnqueueUpdateStatus \/ EnqueueTelemetry \/ PopFront
      \/ outbox' = outbox
  BY DEF Next, HandlerStep, Start, Deliver, Report, TtlPasses, Exit, SetLastDeliveryId, Execute,
         ExecuteFails, Remember, FlushNext, NextSequence, SendSigned, SendHeartbeat, vars, saved
<1> QED BY <1>2, <1>3, <1>4, <1>5, <1>6, <1>7

\* RememberCommand leaves the answers of the other commands as they are.
LEMMA AnswersAreKept ==
    ASSUME AgentInv, [Next]_vars, NEW c \in Commands, Remembers(c), Remembers(c)'
    PROVE  Remembered(c)' = Remembered(c)
<1>0. TypeOK /\ ControlInv /\ MemoryInv
  BY DEF AgentInv, KeepInv
<1>1. CASE processed' = processed
  BY <1>1 DEF Remembered
<1>2. CASE Remember
  <2>1. todo = EndRemember
    BY <1>0, <1>2, MoveRemember DEF Remember, ControlInv
  <2>2. work \in Works /\ work.outcome \in Outcomes /\ ~Remembers(work.cmd)
    BY <1>0, <2>1 DEF ControlInv, MemoryInv, CommandRuns, EndRuns
  <2>3. PICK i \in DOMAIN processed : processed[i].cmd = c
    BY DEF Remembers
  <2>4. PICK k \in DOMAIN processed' : processed'[k].cmd = c
    BY DEF Remembers
  <2>5. processed'[k] # Answer
    BY <2>2, <2>4 DEF Answer
  <2>6. PICK j \in DOMAIN processed : processed'[k] = processed[j]
    BY <1>0, <1>2, <2>2, <2>5, RememberTable
  <2>7. \A m, n \in DOMAIN processed : processed[m].cmd = processed[n].cmd => m = n
    BY <1>0 DEF TypeOK
  <2>8. \A m, n \in DOMAIN processed' : processed'[m].cmd = processed'[n].cmd => m = n
    BY <1>0, <1>2, <2>2, RememberTable
  <2>9. i = j
    BY <2>3, <2>4, <2>6, <2>7, Zenon
  <2>10. Remembered(c) = processed[i]
    BY <2>3, <2>7, EntryOf DEF Remembered
  <2>11. Remembered(c)' = processed'[k]
    BY <2>4, <2>8, EntryOf DEF Remembered
  <2> QED BY <2>6, <2>9, <2>10, <2>11
<1>3. processed' = processed \/ Remember
  BY Zenon DEF Next, HandlerStep, Start, Deliver, Report, TtlPasses, Exit, SetLastDeliveryId, EnqueueAck,
         EnqueueResult, EnqueueUpdateStatus, Enqueue, EnqueueTelemetry, Execute, ExecuteFails,
         FlushNext, NextSequence, SendSigned, SendHeartbeat, PopFront, vars, saved, volatile, history
<1> QED BY <1>1, <1>2, <1>3

\* While a command is remembered its answer does not change, and every result
\* enqueued for it repeats that answer, also after its ttl
\* (HandleCommandDelivery looks at the table before the ttl).
THEOREM AnswersNeverChange == Spec => AnswerIsStable
<1> DEFINE Stable(c) ==
             Remembers(c) =>
                /\ Remembers(c)' => Remembered(c)' = Remembered(c)
                /\ \A i \in Range(outbox') \ Range(outbox) :
                      i.type = "result" /\ i.cmd = c => i.value = Remembered(c).outcome
<1>1. AgentInv /\ AgentInv' /\ [Next]_vars => [\A c \in Commands : Stable(c)]_vars
  <2> SUFFICES ASSUME AgentInv, AgentInv', [Next]_vars, NEW c \in Commands, Remembers(c)
               PROVE  Stable(c)
    OBVIOUS
  <2>0. TypeOK /\ ControlInv /\ MemoryInv
    BY DEF AgentInv, KeepInv
  <2>1. Remembers(c)' => Remembered(c)' = Remembered(c)
    BY <2>0, AnswersAreKept
  <2>2. ASSUME NEW i \in Range(outbox') \ Range(outbox), i.type = "result", i.cmd = c
        PROVE  i.value = Remembered(c).outcome
    <3>1. EnqueueResult /\ i.cmd = work.cmd /\ i.value = work.outcome
      BY <2>2, NewResult
    <3>2. todo = CachedResult
      <4>1. todo \in {EndResult, CachedResult}
        BY <2>0, <3>1, MoveResult DEF EnqueueResult, ControlInv
      <4>2. todo # EndResult
        BY <2>0, <2>2, <3>1 DEF MemoryInv, EndRuns
      <4> QED BY <4>1, <4>2
    <3>3. PICK k \in DOMAIN processed : processed[k] = Answer
      BY <2>0, <3>2 DEF MemoryInv, CachedRuns
    <3>4. processed[k].cmd = c
      BY <2>2, <3>1, <3>3 DEF Answer
    <3>5. \A m, n \in DOMAIN processed : processed[m].cmd = processed[n].cmd => m = n
      BY <2>0 DEF TypeOK
    <3>6. Remembered(c) = processed[k]
      BY <3>4, <3>5, EntryOf DEF Remembered
    <3> QED BY <3>1, <3>3, <3>6 DEF Answer
  <2> QED BY <2>1, <2>2
<1> QED BY <1>1, AgentInvariance, PTL DEF Spec, AnswerIsStable

=============================================================================
