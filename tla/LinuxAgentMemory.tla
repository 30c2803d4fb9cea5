-------------------------- MODULE LinuxAgentMemory --------------------------
(* What the Linux agent remembers, for any number of commands, deliveries, *)
(* frames and crashes and any size of the table of processed commands: the *)
(* table is bounded and free of duplicates, and a command is executed once *)
(* per memory.                                                             *)
EXTENDS LinuxAgent, TLAPS

-----------------------------------------------------------------------------
(* Where a handler can be: what it has left to do.                         *)

FreshLast == <<"last", "ack", "execute", "result", "remember", "flush">>
FreshAck == <<"ack", "execute", "result", "remember", "flush">>
FreshExecute == <<"execute", "result", "remember", "flush">>
ExpiredLast == <<"last", "ack", "result", "remember", "flush">>
ExpiredAck == <<"ack", "result", "remember", "flush">>
EndResult == <<"result", "remember", "flush">>
EndRemember == <<"remember", "flush">>
CachedAck == <<"ack", "result", "last", "flush">>
CachedResult == <<"result", "last", "flush">>
CachedLast == <<"last", "flush">>
UpdateStatus == <<"update", "flush">>
BeatSeq == <<"seq", "heartbeat", "flush">>
BeatSend == <<"heartbeat", "flush">>
Sample == <<"telemetry", "flush">>
Flush == <<"flush">>
FlushSeq == <<"seq", "send", "pop", "flush">>
FlushSend == <<"send", "pop", "flush">>
FlushPop == <<"pop", "flush">>

FreshRuns == {FreshLast, FreshAck, FreshExecute}
ExpiredRuns == {ExpiredLast, ExpiredAck}
EndRuns == {EndResult, EndRemember}
CachedRuns == {CachedAck, CachedResult, CachedLast}
CommandRuns == FreshRuns \cup ExpiredRuns \cup EndRuns \cup CachedRuns
QuietRuns == {<<>>, UpdateStatus, BeatSeq, BeatSend, Sample}
FlushRuns == {FlushSeq, FlushSend, FlushPop}
Runs == CommandRuns \cup QuietRuns \cup FlushRuns \cup {Flush}

-----------------------------------------------------------------------------
(* The inductive invariant.                                                *)

\* Between two frames the outbox is empty, and a flush has something to write.
ControlInv ==
    /\ todo \in Runs
    /\ todo \in CommandRuns => work \in Works
    /\ todo = <<>> => work = NoWork
    /\ ~up => todo = <<>>
    /\ up /\ todo \in QuietRuns => outbox = <<>>
    /\ todo \in FlushRuns => outbox # <<>>

\* A command that is being processed is not remembered; one whose answer is
\* repeated is, with that answer.
MemoryInv ==
    /\ todo \in FreshRuns \cup ExpiredRuns \cup EndRuns => ~Remembers(work.cmd)
    /\ todo \in ExpiredRuns \cup EndRuns \cup CachedRuns => work.outcome \in Outcomes
    /\ todo \in CachedRuns => \E i \in DOMAIN processed : processed[i] = Answer

\* An execution is accounted for by the table, by the handler that has yet to
\* remember it, or by forgotten.
AccountedFor(c) == Remembers(c) \/ (todo \in EndRuns /\ work.cmd = c)
CountInv ==
    \A c \in Commands : executed[c] <= forgotten[c] + IF AccountedFor(c) THEN 1 ELSE 0

KeepInv == TypeOK /\ ControlInv /\ MemoryInv /\ CountInv

-----------------------------------------------------------------------------
(* Programs.                                                               *)

LEMMA OneMore ==
    ASSUME NEW S, NEW s \in Seq(S), NEW e \in S, NEW t \in Seq(S),
           Len(t) = Len(s) + 1, t[Len(s) + 1] = e, \A i \in 1 .. Len(s) : t[i] = s[i]
    PROVE  s \o <<e>> = t
OBVIOUS

\* Every frame's program ends with a flush.
LEMMA Programs ==
    /\ Fresh \o <<"flush">> = FreshLast
    /\ Expired \o <<"flush">> = ExpiredLast
    /\ Cached \o <<"flush">> = CachedAck
    /\ HandleUpdateAnnounce \o <<"flush">> = UpdateStatus
    /\ Heartbeat \o <<"flush">> = BeatSeq
    /\ SendTelemetry \o <<"flush">> = Sample
<1>0. "flush" \in Steps
  BY DEF Steps
<1>1. Fresh \o <<"flush">> = FreshLast
  <2>1. Fresh \in Seq(Steps) /\ FreshLast \in Seq(Steps)
    BY DEF Fresh, FreshLast, Steps
  <2>2. Len(FreshLast) = Len(Fresh) + 1 /\ FreshLast[Len(Fresh) + 1] = "flush"
        /\ \A i \in 1 .. Len(Fresh) : FreshLast[i] = Fresh[i]
    BY DEF Fresh, FreshLast
  <2> QED BY <1>0, <2>1, <2>2, OneMore
<1>2. Expired \o <<"flush">> = ExpiredLast
  <2>1. Expired \in Seq(Steps) /\ ExpiredLast \in Seq(Steps)
    BY DEF Expired, ExpiredLast, Steps
  <2>2. Len(ExpiredLast) = Len(Expired) + 1 /\ ExpiredLast[Len(Expired) + 1] = "flush"
        /\ \A i \in 1 .. Len(Expired) : ExpiredLast[i] = Expired[i]
    BY DEF Expired, ExpiredLast
  <2> QED BY <1>0, <2>1, <2>2, OneMore
<1>3. Cached \o <<"flush">> = CachedAck
  <2>1. Cached \in Seq(Steps) /\ CachedAck \in Seq(Steps)
    BY DEF Cached, CachedAck, Steps
  <2>2. Len(CachedAck) = Len(Cached) + 1 /\ CachedAck[Len(Cached) + 1] = "flush"
        /\ \A i \in 1 .. Len(Cached) : CachedAck[i] = Cached[i]
    BY DEF Cached, CachedAck
  <2> QED BY <1>0, <2>1, <2>2, OneMore
<1>4. HandleUpdateAnnounce \o <<"flush">> = UpdateStatus
  <2>1. HandleUpdateAnnounce \in Seq(Steps) /\ UpdateStatus \in Seq(Steps)
    BY DEF HandleUpdateAnnounce, UpdateStatus, Steps
  <2>2. Len(UpdateStatus) = Len(HandleUpdateAnnounce) + 1 /\ UpdateStatus[Len(HandleUpdateAnnounce) + 1] = "flush"
        /\ \A i \in 1 .. Len(HandleUpdateAnnounce) : UpdateStatus[i] = HandleUpdateAnnounce[i]
    BY DEF HandleUpdateAnnounce, UpdateStatus
  <2> QED BY <1>0, <2>1, <2>2, OneMore
<1>5. Heartbeat \o <<"flush">> = BeatSeq
  <2>1. Heartbeat \in Seq(Steps) /\ BeatSeq \in Seq(Steps)
    BY DEF Heartbeat, BeatSeq, Steps
  <2>2. Len(BeatSeq) = Len(Heartbeat) + 1 /\ BeatSeq[Len(Heartbeat) + 1] = "flush"
        /\ \A i \in 1 .. Len(Heartbeat) : BeatSeq[i] = Heartbeat[i]
    BY DEF Heartbeat, BeatSeq
  <2> QED BY <1>0, <2>1, <2>2, OneMore
<1>6. SendTelemetry \o <<"flush">> = Sample
  <2>1. SendTelemetry \in Seq(Steps) /\ Sample \in Seq(Steps)
    BY DEF SendTelemetry, Sample, Steps
  <2>2. Len(Sample) = Len(SendTelemetry) + 1 /\ Sample[Len(SendTelemetry) + 1] = "flush"
        /\ \A i \in 1 .. Len(SendTelemetry) : Sample[i] = SendTelemetry[i]
    BY DEF SendTelemetry, Sample
  <2> QED BY <1>0, <2>1, <2>2, OneMore
<1> QED BY <1>1, <1>2, <1>3, <1>4, <1>5, <1>6, Zenon

LEMMA PairsDiffer ==
    /\ FreshLast \notin {FreshAck, FreshExecute, ExpiredLast, ExpiredAck, EndResult, EndRemember,
                         CachedAck, CachedResult, CachedLast, UpdateStatus, BeatSeq, BeatSend,
                         Sample, Flush, FlushSeq, FlushSend, FlushPop, <<>>}
    /\ FreshAck \notin {FreshExecute, ExpiredLast, ExpiredAck, EndResult, EndRemember, CachedAck,
                        CachedResult, CachedLast, UpdateStatus, BeatSeq, BeatSend, Sample, Flush,
                        FlushSeq, FlushSend, FlushPop, <<>>}
    /\ FreshExecute \notin {ExpiredLast, ExpiredAck, EndResult, EndRemember, CachedAck,
                            CachedResult, CachedLast, UpdateStatus, BeatSeq, BeatSend, Sample,
                            Flush, FlushSeq, FlushSend, FlushPop, <<>>}
    /\ ExpiredLast \notin {ExpiredAck, EndResult, EndRemember, CachedAck, CachedResult,
                           CachedLast, UpdateStatus, BeatSeq, BeatSend, Sample, Flush, FlushSeq,
                           FlushSend, FlushPop, <<>>}
    /\ ExpiredAck \notin {EndResult, EndRemember, CachedAck, CachedResult, CachedLast,
                          UpdateStatus, BeatSeq, BeatSend, Sample, Flush, FlushSeq, FlushSend,
                          FlushPop, <<>>}
    /\ EndResult \notin {EndRemember, CachedAck, CachedResult, CachedLast, UpdateStatus, BeatSeq,
                         BeatSend, Sample, Flush, FlushSeq, FlushSend, FlushPop, <<>>}
    /\ EndRemember \notin {CachedAck, CachedResult, CachedLast, UpdateStatus, BeatSeq, BeatSend,
                           Sample, Flush, FlushSeq, FlushSend, FlushPop, <<>>}
    /\ CachedAck \notin {CachedResult, CachedLast, UpdateStatus, BeatSeq, BeatSend, Sample, Flush,
                         FlushSeq, FlushSend, FlushPop, <<>>}
    /\ CachedResult \notin {CachedLast, UpdateStatus, BeatSeq, BeatSend, Sample, Flush, FlushSeq,
                            FlushSend, FlushPop, <<>>}
    /\ CachedLast \notin {UpdateStatus, BeatSeq, BeatSend, Sample, Flush, FlushSeq, FlushSend,
                          FlushPop, <<>>}
    /\ UpdateStatus \notin {BeatSeq, BeatSend, Sample, Flush, FlushSeq, FlushSend, FlushPop, <<>>}
    /\ BeatSeq \notin {BeatSend, Sample, Flush, FlushSeq, FlushSend, FlushPop, <<>>}
    /\ BeatSend \notin {Sample, Flush, FlushSeq, FlushSend, FlushPop, <<>>}
    /\ Sample \notin {Flush, FlushSeq, FlushSend, FlushPop, <<>>}
    /\ Flush \notin {FlushSeq, FlushSend, FlushPop, <<>>}
    /\ FlushSeq \notin {FlushSend, FlushPop, <<>>}
    /\ FlushSend \notin {FlushPop, <<>>}
    /\ FlushPop \notin {<<>>}
BY DEF FreshLast, FreshAck, FreshExecute, ExpiredLast, ExpiredAck, EndResult, EndRemember,
       CachedAck, CachedResult, CachedLast, UpdateStatus, BeatSeq, BeatSend, Sample, Flush,
       FlushSeq, FlushSend, FlushPop

\* What is left to do has a name, and so no two of the programs are the same.
NameOf(r) ==
    IF r = FreshLast THEN "FreshLast"
    ELSE IF r = FreshAck THEN "FreshAck"
    ELSE IF r = FreshExecute THEN "FreshExecute"
    ELSE IF r = ExpiredLast THEN "ExpiredLast"
    ELSE IF r = ExpiredAck THEN "ExpiredAck"
    ELSE IF r = EndResult THEN "EndResult"
    ELSE IF r = EndRemember THEN "EndRemember"
    ELSE IF r = CachedAck THEN "CachedAck"
    ELSE IF r = CachedResult THEN "CachedResult"
    ELSE IF r = CachedLast THEN "CachedLast"
    ELSE IF r = UpdateStatus THEN "UpdateStatus"
    ELSE IF r = BeatSeq THEN "BeatSeq"
    ELSE IF r = BeatSend THEN "BeatSend"
    ELSE IF r = Sample THEN "Sample"
    ELSE IF r = Flush THEN "Flush"
    ELSE IF r = FlushSeq THEN "FlushSeq"
    ELSE IF r = FlushSend THEN "FlushSend"
    ELSE IF r = FlushPop THEN "FlushPop"
    ELSE "nothing"

LEMMA RunsDiffer ==
    /\ NameOf(<<>>) = "nothing"
    /\ NameOf(FreshLast) = "FreshLast"
    /\ NameOf(FreshAck) = "FreshAck"
    /\ NameOf(FreshExecute) = "FreshExecute"
    /\ NameOf(ExpiredLast) = "ExpiredLast"
    /\ NameOf(ExpiredAck) = "ExpiredAck"
    /\ NameOf(EndResult) = "EndResult"
    /\ NameOf(EndRemember) = "EndRemember"
    /\ NameOf(CachedAck) = "CachedAck"
    /\ NameOf(CachedResult) = "CachedResult"
    /\ NameOf(CachedLast) = "CachedLast"
    /\ NameOf(UpdateStatus) = "UpdateStatus"
    /\ NameOf(BeatSeq) = "BeatSeq"
    /\ NameOf(BeatSend) = "BeatSend"
    /\ NameOf(Sample) = "Sample"
    /\ NameOf(Flush) = "Flush"
    /\ NameOf(FlushSeq) = "FlushSeq"
    /\ NameOf(FlushSend) = "FlushSend"
    /\ NameOf(FlushPop) = "FlushPop"
BY PairsDiffer, Zenon DEF NameOf

LEMMA Tails ==
    /\ Tail(FreshLast) = FreshAck
    /\ Tail(FreshAck) = FreshExecute
    /\ Tail(FreshExecute) = EndResult
    /\ Tail(ExpiredLast) = ExpiredAck
    /\ Tail(ExpiredAck) = EndResult
    /\ Tail(EndResult) = EndRemember
    /\ Tail(EndRemember) = Flush
    /\ Tail(CachedAck) = CachedResult
    /\ Tail(CachedResult) = CachedLast
    /\ Tail(CachedLast) = Flush
    /\ Tail(UpdateStatus) = Flush
    /\ Tail(BeatSeq) = BeatSend
    /\ Tail(BeatSend) = Flush
    /\ Tail(Sample) = Flush
    /\ Tail(Flush) = <<>>
    /\ Tail(FlushSeq) = FlushSend
    /\ Tail(FlushSend) = FlushPop
    /\ Tail(FlushPop) = Flush
BY DEF FreshLast, FreshAck, FreshExecute, ExpiredLast, ExpiredAck, EndResult, EndRemember,
       CachedAck, CachedResult, CachedLast, UpdateStatus, BeatSeq, BeatSend, Sample, Flush,
       FlushSeq, FlushSend, FlushPop

LEMMA Heads ==
    /\ Head(FreshLast) = "last"
    /\ Head(FreshAck) = "ack"
    /\ Head(FreshExecute) = "execute"
    /\ Head(ExpiredLast) = "last"
    /\ Head(ExpiredAck) = "ack"
    /\ Head(EndResult) = "result"
    /\ Head(EndRemember) = "remember"
    /\ Head(CachedAck) = "ack"
    /\ Head(CachedResult) = "result"
    /\ Head(CachedLast) = "last"
    /\ Head(UpdateStatus) = "update"
    /\ Head(BeatSeq) = "seq"
    /\ Head(BeatSend) = "heartbeat"
    /\ Head(Sample) = "telemetry"
    /\ Head(Flush) = "flush"
    /\ Head(FlushSeq) = "seq"
    /\ Head(FlushSend) = "send"
    /\ Head(FlushPop) = "pop"
BY DEF FreshLast, FreshAck, FreshExecute, ExpiredLast, ExpiredAck, EndResult, EndRemember,
       CachedAck, CachedResult, CachedLast, UpdateStatus, BeatSeq, BeatSend, Sample, Flush,
       FlushSeq, FlushSend, FlushPop

LEMMA RunsAreSteps == Runs \subseteq Seq(Steps)
BY DEF Runs, CommandRuns, FreshRuns, ExpiredRuns, EndRuns, CachedRuns, QuietRuns, FlushRuns,
       FreshLast, FreshAck, FreshExecute, ExpiredLast, ExpiredAck, EndResult, EndRemember,
       CachedAck, CachedResult, CachedLast, UpdateStatus, BeatSeq, BeatSend, Sample, Flush,
       FlushSeq, FlushSend, FlushPop, Steps

(* What a step leaves to do. *)

LEMMA MoveLast ==
    ASSUME todo \in Runs, Does("last", Tail(todo))
    PROVE  \/ todo = FreshLast /\ todo' = FreshAck
           \/ todo = ExpiredLast /\ todo' = ExpiredAck
           \/ todo = CachedLast /\ todo' = Flush
BY Heads, Tails, Zenon DEF Does, Runs, CommandRuns, FreshRuns, ExpiredRuns, EndRuns, CachedRuns, QuietRuns, FlushRuns

LEMMA MoveAck ==
    ASSUME todo \in Runs, Does("ack", Tail(todo))
    PROVE  \/ todo = FreshAck /\ todo' = FreshExecute
           \/ todo = ExpiredAck /\ todo' = EndResult
           \/ todo = CachedAck /\ todo' = CachedResult
BY Heads, Tails, Zenon DEF Does, Runs, CommandRuns, FreshRuns, ExpiredRuns, EndRuns, CachedRuns, QuietRuns, FlushRuns

LEMMA MoveExecute ==
    ASSUME todo \in Runs, Does("execute", Tail(todo))
    PROVE  todo = FreshExecute /\ todo' = EndResult
BY Heads, Tails, Zenon DEF Does, Runs, CommandRuns, FreshRuns, ExpiredRuns, EndRuns, CachedRuns, QuietRuns, FlushRuns

LEMMA MoveResult ==
    ASSUME todo \in Runs, Does("result", Tail(todo))
    PROVE  \/ todo = EndResult /\ todo' = EndRemember
           \/ todo = CachedResult /\ todo' = CachedLast
BY Heads, Tails, Zenon DEF Does, Runs, CommandRuns, FreshRuns, ExpiredRuns, EndRuns, CachedRuns, QuietRuns, FlushRuns

LEMMA MoveRemember ==
    ASSUME todo \in Runs, Does("remember", Tail(todo))
    PROVE  todo = EndRemember /\ todo' = Flush
BY Heads, Tails, Zenon DEF Does, Runs, CommandRuns, FreshRuns, ExpiredRuns, EndRuns, CachedRuns, QuietRuns, FlushRuns

LEMMA MoveUpdate ==
    ASSUME todo \in Runs, Does("update", Tail(todo))
    PROVE  todo = UpdateStatus /\ todo' = Flush
BY Heads, Tails, Zenon DEF Does, Runs, CommandRuns, FreshRuns, ExpiredRuns, EndRuns, CachedRuns, QuietRuns, FlushRuns

LEMMA MoveSeq ==
    ASSUME todo \in Runs, Does("seq", Tail(todo))
    PROVE  \/ todo = BeatSeq /\ todo' = BeatSend
           \/ todo = FlushSeq /\ todo' = FlushSend
BY Heads, Tails, Zenon DEF Does, Runs, CommandRuns, FreshRuns, ExpiredRuns, EndRuns, CachedRuns, QuietRuns, FlushRuns

LEMMA MoveHeartbeat ==
    ASSUME todo \in Runs, Does("heartbeat", Tail(todo))
    PROVE  todo = BeatSend /\ todo' = Flush
BY Heads, Tails, Zenon DEF Does, Runs, CommandRuns, FreshRuns, ExpiredRuns, EndRuns, CachedRuns, QuietRuns, FlushRuns

LEMMA MoveTelemetry ==
    ASSUME todo \in Runs, Does("telemetry", Tail(todo))
    PROVE  todo = Sample /\ todo' = Flush
BY Heads, Tails, Zenon DEF Does, Runs, CommandRuns, FreshRuns, ExpiredRuns, EndRuns, CachedRuns, QuietRuns, FlushRuns

LEMMA MoveFlush ==
    ASSUME todo \in Runs, FlushNext
    PROVE  todo = Flush /\ todo' = IF outbox = <<>> THEN <<>> ELSE FlushSeq
BY Heads DEF FlushNext, FlushSeq, Does, Runs, CommandRuns, FreshRuns, ExpiredRuns, EndRuns, CachedRuns, QuietRuns, FlushRuns

LEMMA MoveSend ==
    ASSUME todo \in Runs, Does("send", Tail(todo))
    PROVE  todo = FlushSend /\ todo' = FlushPop
BY Heads, Tails, Zenon DEF Does, Runs, CommandRuns, FreshRuns, ExpiredRuns, EndRuns, CachedRuns, QuietRuns, FlushRuns

LEMMA MovePop ==
    ASSUME todo \in Runs, Does("pop", Tail(todo))
    PROVE  todo = FlushPop /\ todo' = Flush
BY Heads, Tails, Zenon DEF Does, Runs, CommandRuns, FreshRuns, ExpiredRuns, EndRuns, CachedRuns, QuietRuns, FlushRuns

-----------------------------------------------------------------------------
(* The control of the loop.                                                *)

\* GetProcessedCommand returns the entry of the command.
LEMMA RememberedEntry ==
    ASSUME NEW c, Remembers(c)
    PROVE  \E i \in DOMAIN processed : processed[i] = Remembered(c) /\ Remembered(c).cmd = c
BY Zenon DEF Remembers, Remembered

LEMMA WorkForType ==
    ASSUME TypeOK, NEW d \in Deliveries
    PROVE  /\ CommandOf[d] \in Commands
           /\ WorkFor(d, ReceivedAnswer) \in Works
           /\ WorkFor(d, ExpiredAnswer) \in Works
           /\ Remembers(CommandOf[d]) => WorkFor(d, Remembered(CommandOf[d])) \in Works
<1>1. CommandOf[d] \in Commands
  BY AgentAssumption
<1>2. WorkFor(d, ReceivedAnswer) \in Works /\ WorkFor(d, ExpiredAnswer) \in Works
  BY <1>1 DEF WorkFor, ReceivedAnswer, ExpiredAnswer, Works, AckStatuses, Outcomes
<1>3. ASSUME Remembers(CommandOf[d]) PROVE WorkFor(d, Remembered(CommandOf[d])) \in Works
  <2>1. Remembered(CommandOf[d]) \in Answers
    BY <1>3, RememberedEntry DEF TypeOK
  <2> QED BY <1>1, <2>1 DEF WorkFor, Works, Answers
<1> QED BY <1>1, <1>2, <1>3

\* The four branches of HandleCommandDelivery.
LEMMA DeliverCases ==
    ASSUME NEW d, Deliver(d)
    PROVE  \/ todo' = Flush /\ work' = work
           \/ /\ Remembers(CommandOf[d]) /\ todo' = CachedAck
              /\ work' = WorkFor(d, Remembered(CommandOf[d]))
           \/ /\ ~Remembers(CommandOf[d]) /\ todo' = ExpiredLast
              /\ work' = WorkFor(d, ExpiredAnswer)
           \/ /\ ~Remembers(CommandOf[d]) /\ todo' = FreshLast
              /\ work' = WorkFor(d, ReceivedAnswer)
<1> DEFINE c == CommandOf[d]
<1>1. HandleCommandDelivery(d)
  BY DEF Deliver
<1>2. CASE last = d
  BY <1>1, <1>2 DEF HandleCommandDelivery, Flush
<1>3. CASE last # d /\ Remembers(c)
  <2>1. todo' = Cached \o <<"flush">> /\ work' = WorkFor(d, Remembered(c))
    BY <1>1, <1>3, Zenon DEF HandleCommandDelivery
  <2> QED BY <1>3, <2>1, Programs, Zenon
<1>4. CASE last # d /\ ~Remembers(c) /\ c \in expired
  <2>1. todo' = Expired \o <<"flush">> /\ work' = WorkFor(d, ExpiredAnswer)
    BY <1>1, <1>4, Zenon DEF HandleCommandDelivery
  <2> QED BY <1>4, <2>1, Programs, Zenon
<1>5. CASE last # d /\ ~Remembers(c) /\ c \notin expired
  <2>1. todo' = Fresh \o <<"flush">> /\ work' = WorkFor(d, ReceivedAnswer)
    BY <1>1, <1>5, Zenon DEF HandleCommandDelivery
  <2> QED BY <1>5, <2>1, Programs, Zenon
<1> QED BY <1>2, <1>3, <1>4, <1>5

LEMMA ControlStep ==
    ASSUME TypeOK, ControlInv, [Next]_vars
    PROVE  ControlInv'
<1> USE DEF Runs, CommandRuns, FreshRuns, ExpiredRuns, EndRuns, CachedRuns, QuietRuns, FlushRuns
<1>0. todo \in Runs
  BY DEF ControlInv
<1>1. CASE Start
  BY <1>1, RunsDiffer DEF ControlInv, Start, Flush
<1>2. ASSUME NEW d \in Deliveries, Deliver(d) PROVE ControlInv'
  <2>1. up /\ up' /\ outbox' = outbox
    BY <1>2 DEF Deliver, Idle, saved
  <2>2. \/ todo' = Flush /\ work' = work
        \/ todo' \in {CachedAck, ExpiredLast, FreshLast} /\ work' \in Works
    BY <1>2, DeliverCases, WorkForType
  <2> QED BY <2>1, <2>2, RunsDiffer DEF ControlInv
<1>3. ASSUME NEW steps \in {HandleUpdateAnnounce, Heartbeat, SendTelemetry}, Report(steps)
      PROVE  ControlInv'
  <2>1. todo' \in {UpdateStatus, BeatSeq, Sample}
    BY <1>3, Programs, Zenon DEF Report
  <2>2. up /\ up' /\ todo = <<>> /\ outbox' = outbox /\ work' = work
    BY <1>3 DEF Report, Idle, saved
  <2> QED BY <2>1, <2>2, RunsDiffer DEF ControlInv
<1>4. ASSUME NEW c \in Commands, TtlPasses(c) PROVE ControlInv'
  BY <1>4 DEF ControlInv, TtlPasses, saved, volatile
<1>5. CASE Exit
  BY <1>5, RunsDiffer DEF ControlInv, Exit
<1>6. CASE SetLastDeliveryId
  BY <1>0, <1>6, MoveLast, RunsDiffer DEF ControlInv, SetLastDeliveryId
<1>7. CASE EnqueueAck
  BY <1>0, <1>7, MoveAck, RunsDiffer DEF ControlInv, EnqueueAck, Enqueue
<1>8. CASE EnqueueResult
  BY <1>0, <1>8, MoveResult, RunsDiffer DEF ControlInv, EnqueueResult, Enqueue
<1>9. CASE EnqueueUpdateStatus
  BY <1>0, <1>9, MoveUpdate, RunsDiffer DEF ControlInv, EnqueueUpdateStatus, Enqueue
<1>10. CASE EnqueueTelemetry
  BY <1>0, <1>10, MoveTelemetry, RunsDiffer DEF ControlInv, EnqueueTelemetry
<1>11. ASSUME NEW o \in Outcomes, Execute(o) PROVE ControlInv'
  <2>1. todo = FreshExecute /\ todo' = EndResult
    BY <1>0, <1>11, MoveExecute DEF Execute
  <2>2. work' \in Works
    BY <1>11, <2>1 DEF ControlInv, Execute, Works
  <2> QED BY <1>11, <2>1, <2>2, RunsDiffer DEF ControlInv, Execute
<1>12. CASE ExecuteFails
  <2>1. todo = FreshExecute /\ todo' = EndResult
    BY <1>0, <1>12, MoveExecute DEF ExecuteFails
  <2>2. work' \in Works
    BY <1>12, <2>1 DEF ControlInv, ExecuteFails, Works, Outcomes
  <2> QED BY <1>12, <2>1, <2>2, RunsDiffer DEF ControlInv, ExecuteFails
<1>13. CASE Remember
  BY <1>0, <1>13, MoveRemember, RunsDiffer DEF ControlInv, Remember
<1>14. CASE FlushNext
  BY <1>0, <1>14, MoveFlush, RunsDiffer DEF ControlInv, FlushNext, saved
<1>15. CASE NextSequence
  BY <1>0, <1>15, MoveSeq, RunsDiffer DEF ControlInv, NextSequence
<1>16. CASE SendSigned
  BY <1>0, <1>16, MoveSend, RunsDiffer DEF ControlInv, SendSigned, saved
<1>17. CASE SendHeartbeat
  BY <1>0, <1>17, MoveHeartbeat, RunsDiffer DEF ControlInv, SendHeartbeat, saved
<1>18. CASE PopFront
  BY <1>0, <1>18, MovePop, RunsDiffer DEF ControlInv, PopFront
<1>19. CASE UNCHANGED vars
  BY <1>19 DEF ControlInv, vars, saved, volatile
<1> QED
  BY <1>1, <1>2, <1>3, <1>4, <1>5, <1>6, <1>7, <1>8, <1>9, <1>10, <1>11, <1>12, <1>13,
     <1>14, <1>15, <1>16, <1>17, <1>18, <1>19 DEF Next, HandlerStep

-----------------------------------------------------------------------------
(* RememberCommand and the outbox.                                         *)

\* RememberCommand with a command that is not remembered: the table stays
\* within its limit and free of duplicates, and holds the new answer beside
\* the old ones, of which it drops at most the oldest, counting it.
LEMMA RememberTable ==
    ASSUME TypeOK, Remember, ~Remembers(work.cmd), work \in Works, work.outcome \in Outcomes
    PROVE  /\ processed' \in Seq(Answers)
           /\ Len(processed') <= MaxProcessed
           /\ \A i, j \in DOMAIN processed' : processed'[i].cmd = processed'[j].cmd => i = j
           /\ \E i \in DOMAIN processed' : processed'[i] = Answer
           /\ \A i \in DOMAIN processed' :
                 processed'[i] = Answer \/ \E j \in DOMAIN processed : processed'[i] = processed[j]
           /\ \/ /\ forgotten' = forgotten
                 /\ \A j \in DOMAIN processed : \E i \in DOMAIN processed' : processed'[i] = processed[j]
              \/ /\ processed # <<>>
                 /\ forgotten' = [forgotten EXCEPT ![processed[1].cmd] = @ + 1]
                 /\ \A j \in DOMAIN processed \ {1} :
                       \E i \in DOMAIN processed' : processed'[i] = processed[j]
                 /\ \A i \in DOMAIN processed' : processed'[i].cmd # processed[1].cmd
<1>1. Answer \in Answers
  BY DEF Answer, Answers, Works
<1>2. \A j \in DOMAIN processed : processed[j].cmd # Answer.cmd
  BY DEF Remembers, Answer
<1>3. processed \in Seq(Answers) /\ Len(processed) <= MaxProcessed
      /\ \A i, j \in DOMAIN processed : processed[i].cmd = processed[j].cmd => i = j
  BY DEF TypeOK
<1>4. CASE Len(processed) < MaxProcessed
  <2>1. processed' = Append(processed, Answer) /\ forgotten' = forgotten
    BY <1>4 DEF Remember
  <2>2. /\ processed' \in Seq(Answers)
        /\ Len(processed') = Len(processed) + 1
        /\ \A i \in 1 .. Len(processed) : processed'[i] = processed[i]
        /\ processed'[Len(processed) + 1] = Answer
    BY <1>1, <1>3, <2>1
  <2>3. Len(processed') <= MaxProcessed
    BY <1>3, <1>4, <2>2, AgentAssumption
  <2>4. DOMAIN processed' = 1 .. Len(processed) + 1 /\ DOMAIN processed = 1 .. Len(processed)
    BY <1>3, <2>2
  <2>5. \A i, j \in DOMAIN processed' : processed'[i].cmd = processed'[j].cmd => i = j
    BY <1>2, <1>3, <2>2, <2>4
  <2> QED BY <1>3, <2>1, <2>2, <2>3, <2>4, <2>5
<1>5. CASE ~(Len(processed) < MaxProcessed)
  <2>1. /\ processed' = Append(Tail(processed), Answer)
        /\ forgotten' = [forgotten EXCEPT ![Head(processed).cmd] = @ + 1]
    BY <1>5 DEF Remember
  <2>2. Len(processed) = MaxProcessed /\ processed # <<>> /\ Len(processed) \in Nat \ {0}
    BY <1>3, <1>5, AgentAssumption
  <2>3. /\ Tail(processed) \in Seq(Answers)
        /\ Len(Tail(processed)) = Len(processed) - 1
        /\ \A i \in 1 .. Len(Tail(processed)) : Tail(processed)[i] = processed[i + 1]
        /\ Head(processed) = processed[1]
    BY <1>3, <2>2
  <2>4. /\ processed' \in Seq(Answers)
        /\ Len(processed') = Len(processed)
        /\ \A i \in 1 .. Len(processed) - 1 : processed'[i] = processed[i + 1]
        /\ processed'[Len(processed)] = Answer
    BY <1>1, <2>1, <2>2, <2>3
  <2>5. DOMAIN processed' = 1 .. Len(processed) /\ DOMAIN processed = 1 .. Len(processed)
    BY <1>3, <2>4
  <2>a. \A i \in DOMAIN processed' :
           \/ i + 1 \in DOMAIN processed /\ processed'[i] = processed[i + 1]
           \/ i = Len(processed) /\ processed'[i] = Answer
    BY <2>2, <2>4, <2>5
  <2>6. \A i, j \in DOMAIN processed' : processed'[i].cmd = processed'[j].cmd => i = j
    <3> SUFFICES ASSUME NEW i \in DOMAIN processed', NEW j \in DOMAIN processed',
                        processed'[i].cmd = processed'[j].cmd
                 PROVE  i = j
      OBVIOUS
    <3>1. CASE i = Len(processed) /\ processed'[i] = Answer
      BY <1>2, <2>a, <3>1
    <3>2. CASE i + 1 \in DOMAIN processed /\ processed'[i] = processed[i + 1]
      <4>1. j + 1 \in DOMAIN processed /\ processed'[j] = processed[j + 1]
        BY <1>2, <2>a, <3>2
      <4>2. i + 1 = j + 1
        BY <1>3, <3>2, <4>1
      <4> QED BY <2>5, <4>2
    <3> QED BY <2>a, <3>1, <3>2
  <2>7. \A j \in DOMAIN processed \ {1} : \E i \in DOMAIN processed' : processed'[i] = processed[j]
    <3> TAKE j \in DOMAIN processed \ {1}
    <3>1. j - 1 \in 1 .. Len(processed) - 1 /\ processed'[j - 1] = processed[j]
      BY <2>2, <2>4, <2>5
    <3> QED BY <2>2, <2>5, <3>1
  <2>8. \A i \in DOMAIN processed' : processed'[i].cmd # processed[1].cmd
    <3> TAKE i \in DOMAIN processed'
    <3>1. 1 \in DOMAIN processed /\ i + 1 # 1
      BY <2>2, <2>5
    <3> QED BY <1>2, <1>3, <2>a, <3>1
  <2>9. \A i \in DOMAIN processed' :
           processed'[i] = Answer \/ \E j \in DOMAIN processed : processed'[i] = processed[j]
    BY <2>2, <2>4, <2>5
  <2>10. Len(processed) \in DOMAIN processed'
    BY <2>2, <2>5
  <2> QED BY <1>3, <2>1, <2>2, <2>3, <2>4, <2>6, <2>7, <2>8, <2>9, <2>10
<1> QED BY <1>4, <1>5

\* Nothing has no elements: Cardinality unfolds to a function on the subsets.
LEMMA NoneKept == Cardinality({}) = 0
<1> DEFINE F(CS) == [T \in SUBSET {} |-> IF T = {} THEN 0 ELSE 1 + CS[T \ {CHOOSE x : x \in T}]]
<1> DEFINE none == [T \in SUBSET {} |-> 0]
<1>1. none = F(none)
  OBVIOUS
<1>2. \E CS : CS = F(CS)
  BY <1>1
<1>3. (CHOOSE CS : CS = F(CS)) = F(CHOOSE CS : CS = F(CS))
  BY <1>2, Zenon
<1>4. Cardinality({}) = (CHOOSE CS : CS = F(CS))[{}]
  BY Zenon DEF Cardinality
<1>5. \A h : h = F(h) => h[{}] = 0
  OBVIOUS
<1> QED BY <1>3, <1>4, <1>5, Zenon

\* A telemetry sample is enqueued into an empty outbox.
LEMMA SampleIsAlone ==
    ASSUME ControlInv, EnqueueTelemetry
    PROVE  outbox = <<>> /\ outbox' = <<Plain("telemetry")>>
<1>1. todo = Sample
  BY MoveTelemetry DEF ControlInv, EnqueueTelemetry
<1>2. outbox = <<>>
  BY <1>1, RunsDiffer DEF ControlInv, QuietRuns
<1>3. {i \in DOMAIN outbox : outbox[i].type # "telemetry"} = {}
  BY <1>2
<1>4. Kept(outbox, {}) = <<>>
  BY NoneKept DEF Kept
<1>5. outbox' = Append(<<>>, Plain("telemetry"))
  BY <1>3, <1>4, Zenon DEF EnqueueTelemetry
<1> QED BY <1>2, <1>5

-----------------------------------------------------------------------------
(* Types, and what the running handler knows of the table.                 *)

LEMMA CountUp ==
    ASSUME NEW f \in [Commands -> Nat], NEW c \in Commands
    PROVE  [f EXCEPT ![c] = @ + 1] \in [Commands -> Nat]
OBVIOUS

LEMMA TypeStep ==
    ASSUME TypeOK, ControlInv, MemoryInv, ControlInv', [Next]_vars
    PROVE  TypeOK'
<1> USE DEF CommandRuns, FreshRuns, ExpiredRuns, EndRuns, CachedRuns
<1>0. todo \in Runs /\ todo' \in Seq(Steps)
  BY RunsAreSteps DEF ControlInv
<1>1. CASE Start
  BY <1>0, <1>1 DEF TypeOK, Start
<1>2. ASSUME NEW d \in Deliveries, Deliver(d) PROVE TypeOK'
  <2>0. work' = work \/ work' \in Works
    BY <1>2, DeliverCases, WorkForType
  <2>1. work' \in Works \cup {NoWork}
    BY <2>0 DEF TypeOK
  <2>2. frames' \in 0 .. MaxFrames
    BY <1>2, AgentAssumption DEF Deliver, Idle, TypeOK
  <2> QED BY <1>0, <1>2, <2>1, <2>2 DEF TypeOK, Deliver, saved, history
<1>3. ASSUME NEW steps, Report(steps) PROVE TypeOK'
  <2>1. frames' \in 0 .. MaxFrames
    BY <1>3, AgentAssumption DEF Report, Idle, TypeOK
  <2> QED BY <1>0, <1>3, <2>1 DEF TypeOK, Report, saved, history
<1>4. ASSUME NEW c \in Commands, TtlPasses(c) PROVE TypeOK'
  BY <1>4 DEF TypeOK, TtlPasses, saved, volatile, history
<1>5. CASE Exit
  <2>1. crashes' \in 0 .. MaxCrashes
    BY <1>5, AgentAssumption DEF Exit, TypeOK
  <2>2. forgotten' \in [Commands -> Nat]
    <3>1. \/ forgotten' = forgotten
          \/ work # NoWork /\ forgotten' = [forgotten EXCEPT ![work.cmd] = @ + 1]
      BY <1>5 DEF Exit
    <3>3. work # NoWork => work.cmd \in Commands
      BY DEF TypeOK, Works
    <3>2. forgotten \in [Commands -> Nat]
      BY DEF TypeOK
    <3> QED BY <3>1, <3>2, <3>3, CountUp
  <2>3. work' = NoWork /\ sequence' = 0
    BY <1>5 DEF Exit
  <2>5. up' \in BOOLEAN
    BY <1>5, Zenon DEF Exit
  <2>4. UNCHANGED <<outbox, processed, last, saved_seq, wire, top, executed, expired, frames>>
    BY <1>5 DEF Exit, saved
  <2> QED BY <1>0, <2>1, <2>2, <2>3, <2>4, <2>5 DEF TypeOK
<1>6. CASE SetLastDeliveryId
  <2>1. last' \in Deliveries \cup {None}
    BY <1>0, <1>6, MoveLast DEF SetLastDeliveryId, ControlInv, Works
  <2> QED BY <1>0, <1>6, <2>1 DEF TypeOK, SetLastDeliveryId, history
<1>7. CASE EnqueueAck
  <2>1. work \in Works
    BY <1>0, <1>7, MoveAck DEF EnqueueAck, ControlInv
  <2>2. [type |-> "ack", cmd |-> work.cmd, value |-> work.ack] \in Items
    BY <2>1 DEF Items, Works
  <2>3. outbox' \in Seq(Items)
    BY <1>7, <2>2 DEF EnqueueAck, Enqueue, TypeOK
  <2> QED BY <1>0, <1>7, <2>3 DEF TypeOK, EnqueueAck, Enqueue, history
<1>8. CASE EnqueueResult
  <2>1. work \in Works /\ work.outcome \in Outcomes
    BY <1>0, <1>8, MoveResult DEF EnqueueResult, ControlInv, MemoryInv
  <2>2. [type |-> "result", cmd |-> work.cmd, value |-> work.outcome] \in Items
    BY <2>1 DEF Items, Works
  <2>3. outbox' \in Seq(Items)
    BY <1>8, <2>2 DEF EnqueueResult, Enqueue, TypeOK
  <2> QED BY <1>0, <1>8, <2>3 DEF TypeOK, EnqueueResult, Enqueue, history
<1>9. CASE EnqueueUpdateStatus
  <2>1. Plain("update") \in Items
    BY DEF Plain, Items
  <2>2. outbox' \in Seq(Items)
    BY <1>9, <2>1 DEF EnqueueUpdateStatus, Enqueue, TypeOK
  <2> QED BY <1>0, <1>9, <2>2 DEF TypeOK, EnqueueUpdateStatus, Enqueue, history
<1>10. CASE EnqueueTelemetry
  <2>1. Plain("telemetry") \in Items
    BY DEF Plain, Items
  <2>2. outbox' \in Seq(Items)
    <3>1. outbox' = <<Plain("telemetry")>>
      BY <1>10, SampleIsAlone
    <3> QED BY <2>1, <3>1
  <2> QED BY <1>0, <1>10, <2>2 DEF TypeOK, EnqueueTelemetry, history
<1>11. ASSUME NEW o \in Outcomes, Execute(o) PROVE TypeOK'
  <2>1. work \in Works
    BY <1>0, <1>11, MoveExecute DEF Execute, ControlInv
  <2>2. work' \in Works
    BY <1>11, <2>1 DEF Execute, Works
  <2>3. executed' \in [Commands -> Nat]
    <3>1. executed \in [Commands -> Nat] /\ executed' = [executed EXCEPT ![work.cmd] = @ + 1]
      BY <1>11 DEF Execute, TypeOK
    <3> QED BY <2>1, <3>1, CountUp DEF Works
  <2>4. sequence' \in Nat /\ saved_seq' \in Nat
    BY <1>11 DEF Execute, TypeOK
  <2> QED BY <1>0, <1>11, <2>2, <2>3, <2>4 DEF TypeOK, Execute
<1>12. CASE ExecuteFails
  <2>1. work \in Works
    BY <1>0, <1>12, MoveExecute DEF ExecuteFails, ControlInv
  <2>2. work' \in Works
    BY <1>12, <2>1 DEF ExecuteFails, Works, Outcomes
  <2> QED BY <1>0, <1>12, <2>2 DEF TypeOK, ExecuteFails, history
<1>13. CASE Remember
  <2>1. work \in Works /\ work.outcome \in Outcomes /\ ~Remembers(work.cmd)
    BY <1>0, <1>13, MoveRemember DEF Remember, ControlInv, MemoryInv
  <2>2. /\ processed' \in Seq(Answers)
        /\ Len(processed') <= MaxProcessed
        /\ \A i, j \in DOMAIN processed' : processed'[i].cmd = processed'[j].cmd => i = j
    BY <1>13, <2>1, RememberTable
  <2>3. forgotten' \in [Commands -> Nat]
    BY <1>13 DEF TypeOK, Remember
  <2> QED BY <1>0, <1>13, <2>2, <2>3 DEF TypeOK, Remember
<1>14. CASE FlushNext
  BY <1>0, <1>14 DEF TypeOK, FlushNext, saved, history
<1>15. CASE NextSequence
  BY <1>0, <1>15 DEF TypeOK, NextSequence, history
<1>16. CASE SendSigned
  <2>1. outbox # <<>>
    BY <1>0, <1>16, MoveSend DEF SendSigned, ControlInv, FlushRuns
  <2>2. Head(outbox) \in Items
    BY <2>1 DEF TypeOK
  <2> QED BY <1>0, <1>16, <2>2 DEF TypeOK, SendSigned, saved
<1>17. CASE SendHeartbeat
  BY <1>0, <1>17 DEF TypeOK, SendHeartbeat, saved
<1>18. CASE PopFront
  <2>1. outbox # <<>>
    BY <1>0, <1>18, MovePop DEF PopFront, ControlInv, FlushRuns
  <2>2. outbox' \in Seq(Items)
    BY <1>18, <2>1 DEF PopFront, TypeOK
  <2> QED BY <1>0, <1>18, <2>2 DEF TypeOK, PopFront, history
<1>19. CASE UNCHANGED vars
  BY <1>19 DEF TypeOK, vars, saved, volatile, history
<1> QED
  BY <1>1, <1>2, <1>3, <1>4, <1>5, <1>6, <1>7, <1>8, <1>9, <1>10, <1>11, <1>12, <1>13,
     <1>14, <1>15, <1>16, <1>17, <1>18, <1>19 DEF Next, HandlerStep

\* A handler that goes on with the same command and the same table.
LEMMA MemoryFrame ==
    ASSUME MemoryInv, UNCHANGED <<processed, work>>,
           todo' \in FreshRuns \cup ExpiredRuns \cup EndRuns
               => todo \in FreshRuns \cup ExpiredRuns \cup EndRuns,
           todo' \in ExpiredRuns \cup EndRuns \cup CachedRuns
               => todo \in ExpiredRuns \cup EndRuns \cup CachedRuns,
           todo' \in CachedRuns => todo \in CachedRuns
    PROVE  MemoryInv'
BY DEF MemoryInv, Remembers, Answer

\* What is left to do is not the processing of a command.
LEMMA MemoryIdle ==
    ASSUME todo' \notin CommandRuns
    PROVE  MemoryInv'
BY DEF MemoryInv, CommandRuns

LEMMA MemoryStep ==
    ASSUME TypeOK, ControlInv, MemoryInv, [Next]_vars
    PROVE  MemoryInv'
<1> USE DEF CommandRuns, FreshRuns, ExpiredRuns, EndRuns, CachedRuns
<1>0. todo \in Runs
  BY DEF ControlInv
<1>1. CASE Start
  <2>1. todo' = Flush
    BY <1>1 DEF Start, Flush
  <2> QED BY <2>1, MemoryIdle, RunsDiffer
<1>2. ASSUME NEW d \in Deliveries, Deliver(d) PROVE MemoryInv'
  <2> DEFINE c == CommandOf[d]
  <2>1. HandleCommandDelivery(d) /\ processed' = processed
    BY <1>2 DEF Deliver, saved
  <2>2. CASE todo' = Flush
    BY <2>2, MemoryIdle, RunsDiffer
  <2>3. CASE Remembers(c) /\ todo' = CachedAck /\ work' = WorkFor(d, Remembered(c))
    <3>1. PICK i \in DOMAIN processed : processed[i] = Remembered(c) /\ Remembered(c).cmd = c
      BY <2>3, RememberedEntry
    <3>2. processed[i] \in Answers
      BY DEF TypeOK
    <3>3. processed'[i] = Answer'
      BY <2>1, <2>3, <3>1, <3>2 DEF Answer, WorkFor, Answers
    <3>4. work'.outcome \in Outcomes
      BY <2>3, <3>1, <3>2 DEF WorkFor, Answers
    <3> QED BY <2>1, <2>3, <3>3, <3>4, RunsDiffer DEF MemoryInv
  <2>4. CASE ~Remembers(c) /\ todo' = ExpiredLast /\ work' = WorkFor(d, ExpiredAnswer)
    <3>1. work'.cmd = c /\ work'.outcome \in Outcomes
      BY <2>4 DEF WorkFor, ExpiredAnswer, Outcomes
    <3>2. ~Remembers(work.cmd)'
      BY <2>1, <2>4, <3>1 DEF Remembers
    <3> QED BY <2>4, <3>1, <3>2, RunsDiffer DEF MemoryInv
  <2>5. CASE ~Remembers(c) /\ todo' = FreshLast /\ work' = WorkFor(d, ReceivedAnswer)
    <3>1. work'.cmd = c
      BY <2>5 DEF WorkFor
    <3>2. ~Remembers(work.cmd)'
      BY <2>1, <2>5, <3>1 DEF Remembers
    <3> QED BY <2>5, <3>2, RunsDiffer DEF MemoryInv
  <2> QED BY <1>2, <2>2, <2>3, <2>4, <2>5, DeliverCases
<1>3. ASSUME NEW steps \in {HandleUpdateAnnounce, Heartbeat, SendTelemetry}, Report(steps)
      PROVE  MemoryInv'
  <2>1. todo' \in {UpdateStatus, BeatSeq, Sample}
    BY <1>3, Programs, Zenon DEF Report
  <2> QED BY <2>1, MemoryIdle, RunsDiffer
<1>4. ASSUME NEW e \in Commands, TtlPasses(e) PROVE MemoryInv'
  BY <1>4, MemoryFrame DEF TtlPasses, saved, volatile
<1>5. CASE Exit
  BY <1>5, MemoryIdle, RunsDiffer DEF Exit
<1>6. CASE SetLastDeliveryId
  BY <1>0, <1>6, MoveLast, MemoryFrame, RunsDiffer DEF SetLastDeliveryId
<1>7. CASE EnqueueAck
  BY <1>0, <1>7, MoveAck, MemoryFrame, RunsDiffer DEF EnqueueAck, Enqueue
<1>8. CASE EnqueueResult
  BY <1>0, <1>8, MoveResult, MemoryFrame, RunsDiffer DEF EnqueueResult, Enqueue
<1>9. CASE EnqueueUpdateStatus
  BY <1>0, <1>9, MoveUpdate, MemoryIdle, RunsDiffer DEF EnqueueUpdateStatus
<1>10. CASE EnqueueTelemetry
  BY <1>0, <1>10, MoveTelemetry, MemoryIdle, RunsDiffer DEF EnqueueTelemetry
<1>11. CASE ExecuteFails \/ \E o \in Outcomes : Execute(o)
  <2>1. todo = FreshExecute /\ todo' = EndResult
    BY <1>0, <1>11, MoveExecute DEF Execute, ExecuteFails
  <2>2. work'.cmd = work.cmd /\ work'.outcome \in Outcomes /\ processed' = processed
    BY <1>11, <2>1 DEF Execute, ExecuteFails, ControlInv, Works, Outcomes
  <2>3. ~Remembers(work.cmd)'
    BY <2>1, <2>2 DEF MemoryInv, Remembers
  <2> QED BY <2>1, <2>2, <2>3, RunsDiffer DEF MemoryInv
<1>12. CASE Remember
  BY <1>0, <1>12, MoveRemember, MemoryIdle, RunsDiffer DEF Remember
<1>13. CASE FlushNext
  BY <1>0, <1>13, MoveFlush, MemoryIdle, RunsDiffer
<1>14. CASE NextSequence
  BY <1>0, <1>14, MoveSeq, MemoryIdle, RunsDiffer DEF NextSequence
<1>15. CASE SendSigned
  BY <1>0, <1>15, MoveSend, MemoryIdle, RunsDiffer DEF SendSigned
<1>16. CASE SendHeartbeat
  BY <1>0, <1>16, MoveHeartbeat, MemoryIdle, RunsDiffer DEF SendHeartbeat
<1>17. CASE PopFront
  BY <1>0, <1>17, MovePop, MemoryIdle, RunsDiffer DEF PopFront
<1>18. CASE UNCHANGED vars
  BY <1>18, MemoryFrame DEF vars, saved, volatile
<1> QED
  BY <1>1, <1>2, <1>3, <1>4, <1>5, <1>6, <1>7, <1>8, <1>9, <1>10, <1>11, <1>12, <1>13,
     <1>14, <1>15, <1>16, <1>17, <1>18 DEF Next, HandlerStep

-----------------------------------------------------------------------------
(* Executions.                                                             *)

\* Nothing is executed or forgotten, and what was accounted for still is.
LEMMA CountFrame ==
    ASSUME TypeOK, CountInv, UNCHANGED <<executed, forgotten>>,
           \A c \in Commands : AccountedFor(c) => AccountedFor(c)'
    PROVE  CountInv'
<1>1. executed \in [Commands -> Nat] /\ forgotten \in [Commands -> Nat]
  BY DEF TypeOK
<1> QED BY <1>1 DEF CountInv

\* The same, for a step that does not touch the table and takes the handler
\* out of the two states between Execute and RememberCommand only if it was
\* not there.
LEMMA CountMoves ==
    ASSUME TypeOK, CountInv, UNCHANGED <<executed, forgotten, processed>>,
           todo \in EndRuns => todo' \in EndRuns /\ work' = work
    PROVE  CountInv'
<1>1. \A c \in Commands : AccountedFor(c) => AccountedFor(c)'
  BY DEF AccountedFor, Remembers
<1> QED BY <1>1, CountFrame

LEMMA CountExit ==
    ASSUME TypeOK, ControlInv, CountInv, Exit
    PROVE  CountInv'
<1>1. executed \in [Commands -> Nat] /\ forgotten \in [Commands -> Nat]
  BY DEF TypeOK
<1>2. executed' = executed /\ processed' = processed
  BY DEF Exit, saved
<1>3. CASE todo \in EndRuns
  <2>1. work \in Works
    BY <1>3 DEF ControlInv, CommandRuns
  <2>2. work # NoWork /\ work.cmd \in Commands
    BY <2>1 DEF Works, NoWork, AckStatuses, None
  <2>3. "execute" \notin Range(todo) /\ "remember" \in Range(todo)
    BY <1>3 DEF EndRuns, EndResult, EndRemember, Range
  <2>4. forgotten' = [forgotten EXCEPT ![work.cmd] = @ + 1]
    BY <2>2, <2>3 DEF Exit
  <2>5. ASSUME NEW c \in Commands
        PROVE  executed'[c] <= forgotten'[c] + IF AccountedFor(c)' THEN 1 ELSE 0
    <3>1. executed[c] <= forgotten[c] + IF AccountedFor(c) THEN 1 ELSE 0
      BY DEF CountInv
    <3>2. CASE c = work.cmd
      BY <1>1, <1>2, <2>4, <3>1, <3>2
    <3>3. CASE c # work.cmd
      <4>1. AccountedFor(c) => AccountedFor(c)'
        BY <1>2, <3>3 DEF AccountedFor, Remembers
      <4> QED BY <1>1, <1>2, <2>4, <3>1, <3>3, <4>1
    <3> QED BY <3>2, <3>3
  <2> QED BY <2>5 DEF CountInv
<1>4. CASE todo \notin EndRuns
  <2>1. \/ forgotten' = forgotten
        \/ work # NoWork /\ forgotten' = [forgotten EXCEPT ![work.cmd] = @ + 1]
    BY DEF Exit
  <2>2. work # NoWork => work.cmd \in Commands
    BY DEF TypeOK, Works
  <2>3. \A c \in Commands : forgotten'[c] \in Nat /\ forgotten[c] <= forgotten'[c]
    BY <1>1, <2>1, <2>2
  <2>4. \A c \in Commands : AccountedFor(c) => AccountedFor(c)'
    BY <1>2, <1>4 DEF AccountedFor, Remembers
  <2> QED BY <1>1, <1>2, <2>3, <2>4 DEF CountInv
<1> QED BY <1>3, <1>4

LEMMA CountExecute ==
    ASSUME TypeOK, ControlInv, MemoryInv, CountInv, NEW o, Execute(o)
    PROVE  CountInv'
<1>1. executed \in [Commands -> Nat] /\ forgotten \in [Commands -> Nat]
  BY DEF TypeOK
<1>2. todo = FreshExecute /\ todo' = EndResult
  BY MoveExecute DEF Execute, ControlInv
<1>3. work \in Works /\ work'.cmd = work.cmd /\ ~Remembers(work.cmd)
  BY <1>2 DEF ControlInv, MemoryInv, CommandRuns, FreshRuns, Execute, Works
<1>4. /\ executed' = [executed EXCEPT ![work.cmd] = @ + 1]
      /\ forgotten' = forgotten /\ processed' = processed
  BY DEF Execute
<1>5. ASSUME NEW c \in Commands
      PROVE  executed'[c] <= forgotten'[c] + IF AccountedFor(c)' THEN 1 ELSE 0
  <2>1. executed[c] <= forgotten[c] + IF AccountedFor(c) THEN 1 ELSE 0
    BY DEF CountInv
  <2>2. CASE c = work.cmd
    <3>1. ~AccountedFor(c) /\ AccountedFor(c)'
      BY <1>2, <1>3, <2>2, RunsDiffer DEF AccountedFor, EndRuns
    <3> QED BY <1>1, <1>4, <2>1, <2>2, <3>1
  <2>3. CASE c # work.cmd
    <3>1. AccountedFor(c) => AccountedFor(c)'
      BY <1>2, <1>4, RunsDiffer DEF AccountedFor, Remembers, EndRuns
    <3> QED BY <1>1, <1>4, <2>1, <2>3, <3>1
  <2> QED BY <2>2, <2>3
<1> QED BY <1>5 DEF CountInv

LEMMA CountRemember ==
    ASSUME TypeOK, ControlInv, MemoryInv, CountInv, Remember
    PROVE  CountInv'
<1>1. executed \in [Commands -> Nat] /\ forgotten \in [Commands -> Nat]
  BY DEF TypeOK
<1>2. todo = EndRemember
  BY MoveRemember DEF Remember, ControlInv
<1>3. work \in Works /\ work.outcome \in Outcomes /\ ~Remembers(work.cmd)
  BY <1>2 DEF ControlInv, MemoryInv, CommandRuns, EndRuns
<1>4. executed' = executed
  BY DEF Remember
<1>5. AccountedFor(work.cmd)'
  <2>1. PICK i \in DOMAIN processed' : processed'[i] = Answer
    BY <1>3, RememberTable
  <2> QED BY <2>1 DEF AccountedFor, Remembers, Answer, Remember
<1>6. CASE /\ forgotten' = forgotten
           /\ \A j \in DOMAIN processed : \E i \in DOMAIN processed' : processed'[i] = processed[j]
  <2>1. \A c \in Commands : AccountedFor(c) => AccountedFor(c)'
    BY <1>5, <1>6 DEF AccountedFor, Remembers, Remember
  <2> QED BY <1>4, <1>6, <2>1, CountFrame
<1>7. CASE /\ processed # <<>>
           /\ forgotten' = [forgotten EXCEPT ![processed[1].cmd] = @ + 1]
           /\ \A j \in DOMAIN processed \ {1} :
                 \E i \in DOMAIN processed' : processed'[i] = processed[j]
  <2>1. processed[1].cmd \in Commands
    <3>1. processed \in Seq(Answers) /\ processed # <<>>
      BY <1>7 DEF TypeOK
    <3>2. processed[1] \in Answers
      BY <3>1
    <3> QED BY <3>2 DEF Answers
  <2>2. ASSUME NEW c \in Commands
        PROVE  executed'[c] <= forgotten'[c] + IF AccountedFor(c)' THEN 1 ELSE 0
    <3>1. executed[c] <= forgotten[c] + IF AccountedFor(c) THEN 1 ELSE 0
      BY DEF CountInv
    <3>2. CASE c = processed[1].cmd
      BY <1>1, <1>4, <1>7, <3>1, <3>2
    <3>3. CASE c # processed[1].cmd
      <4>1. AccountedFor(c) => AccountedFor(c)'
        BY <1>5, <1>7, <3>3 DEF AccountedFor, Remembers, Remember
      <4> QED BY <1>1, <1>4, <1>7, <2>1, <3>1, <3>3, <4>1
    <3> QED BY <3>2, <3>3
  <2> QED BY <2>2 DEF CountInv
<1> QED BY <1>3, <1>6, <1>7, RememberTable

LEMMA CountStep ==
    ASSUME TypeOK, ControlInv, MemoryInv, CountInv, [Next]_vars
    PROVE  CountInv'
<1> USE DEF EndRuns
<1>0. todo \in Runs
  BY DEF ControlInv
<1>1. CASE Start
  BY <1>1, RunsDiffer, CountMoves DEF Start, ControlInv
<1>2. ASSUME NEW d \in Deliveries, Deliver(d) PROVE CountInv'
  BY <1>2, RunsDiffer, CountMoves DEF Deliver, Idle, saved, history
<1>3. ASSUME NEW steps, Report(steps) PROVE CountInv'
  BY <1>3, RunsDiffer, CountMoves DEF Report, Idle, saved, history
<1>4. ASSUME NEW c \in Commands, TtlPasses(c) PROVE CountInv'
  BY <1>4, CountMoves DEF TtlPasses, saved, volatile, history
<1>5. CASE Exit
  BY <1>5, CountExit
<1>6. CASE SetLastDeliveryId
  BY <1>0, <1>6, MoveLast, RunsDiffer, CountMoves DEF SetLastDeliveryId, history
<1>7. CASE EnqueueAck
  BY <1>0, <1>7, MoveAck, RunsDiffer, CountMoves DEF EnqueueAck, Enqueue, history
<1>8. CASE EnqueueResult
  BY <1>0, <1>8, MoveResult, RunsDiffer, CountMoves DEF EnqueueResult, Enqueue, history
<1>9. CASE EnqueueUpdateStatus
  BY <1>0, <1>9, MoveUpdate, RunsDiffer, CountMoves DEF EnqueueUpdateStatus, Enqueue, history
<1>10. CASE EnqueueTelemetry
  BY <1>0, <1>10, MoveTelemetry, RunsDiffer, CountMoves DEF EnqueueTelemetry, history
<1>11. ASSUME NEW o \in Outcomes, Execute(o) PROVE CountInv'
  BY <1>11, CountExecute
<1>12. CASE ExecuteFails
  BY <1>0, <1>12, MoveExecute, RunsDiffer, CountMoves DEF ExecuteFails, history
<1>13. CASE Remember
  BY <1>13, CountRemember
<1>14. CASE FlushNext
  BY <1>0, <1>14, MoveFlush, RunsDiffer, CountMoves DEF FlushNext, saved, history
<1>15. CASE NextSequence
  BY <1>0, <1>15, MoveSeq, RunsDiffer, CountMoves DEF NextSequence, history
<1>16. CASE SendSigned
  BY <1>0, <1>16, MoveSend, RunsDiffer, CountMoves DEF SendSigned, saved
<1>17. CASE SendHeartbeat
  BY <1>0, <1>17, MoveHeartbeat, RunsDiffer, CountMoves DEF SendHeartbeat, saved
<1>18. CASE PopFront
  BY <1>0, <1>18, MovePop, RunsDiffer, CountMoves DEF PopFront, history
<1>19. CASE UNCHANGED vars
  BY <1>19, CountMoves DEF vars, saved, volatile, history
<1> QED
  BY <1>1, <1>2, <1>3, <1>4, <1>5, <1>6, <1>7, <1>8, <1>9, <1>10, <1>11, <1>12, <1>13,
     <1>14, <1>15, <1>16, <1>17, <1>18, <1>19 DEF Next, HandlerStep

-----------------------------------------------------------------------------
(* Theorems.                                                               *)

LEMMA KeepInit ==
    ASSUME Init
    PROVE  KeepInv
<1>1. TypeOK
  <2>1. up \in BOOLEAN
    BY Zenon DEF Init
  <2>2. /\ outbox = <<>> /\ processed = <<>> /\ todo = <<>> /\ last = None /\ work = NoWork
        /\ saved_seq = 0 /\ sequence = 0 /\ top = 0 /\ expired = {} /\ wire = {}
        /\ frames = 0 /\ crashes = 0
    BY DEF Init
  <2>3. executed \in [Commands -> Nat] /\ forgotten \in [Commands -> Nat]
    BY DEF Init
  <2> QED BY <2>1, <2>2, <2>3, AgentAssumption DEF TypeOK
<1>2. ControlInv
  BY RunsDiffer DEF Init, ControlInv, Runs, QuietRuns, CommandRuns, FreshRuns, ExpiredRuns, EndRuns,
                    CachedRuns, FlushRuns
<1>3. todo \notin CommandRuns
  BY RunsDiffer DEF Init, CommandRuns, FreshRuns, ExpiredRuns, EndRuns, CachedRuns
<1>4. MemoryInv
  BY <1>3 DEF MemoryInv, CommandRuns
<1>5. CountInv
  BY DEF Init, CountInv
<1> QED BY <1>1, <1>2, <1>4, <1>5 DEF KeepInv

LEMMA KeepStep ==
    ASSUME KeepInv, [Next]_vars
    PROVE  KeepInv'
<1>0. TypeOK /\ ControlInv /\ MemoryInv /\ CountInv
  BY DEF KeepInv
<1>1. ControlInv'
  BY <1>0, ControlStep
<1>2. TypeOK'
  BY <1>0, <1>1, TypeStep
<1>3. MemoryInv' /\ CountInv'
  BY <1>0, MemoryStep, CountStep
<1> QED BY <1>1, <1>2, <1>3 DEF KeepInv

\* The invariant holds in every state of every behaviour of the agent.
THEOREM KeepInvariance == Spec => []KeepInv
<1>1. Init => KeepInv
  BY KeepInit
<1>2. KeepInv /\ [Next]_vars => KeepInv'
  BY KeepStep
<1> QED BY <1>1, <1>2, PTL DEF Spec

\* For any size of the table: the files have the shapes the code gives them,
\* and RememberCommand keeps the table within k_max_processed_commands and
\* free of duplicates.
THEOREM AgentTypes == Spec => []TypeOK
<1>1. KeepInv => TypeOK
  BY DEF KeepInv
<1> QED BY <1>1, KeepInvariance, PTL

\* No redelivery executes a remembered command, and no interleaving of
\* deliveries, expiries and crashes executes one more often than its execution
\* was forgotten (HandleCommandDelivery, RememberCommand).
THEOREM ExecutionIsRemembered == Spec => []ExecutedOncePerMemory
<1>1. KeepInv => ExecutedOncePerMemory
  <2> SUFFICES ASSUME KeepInv, NEW c \in Commands PROVE executed[c] <= 1 + forgotten[c]
    BY DEF ExecutedOncePerMemory
  <2>1. executed[c] \in Nat /\ forgotten[c] \in Nat
    BY DEF KeepInv, TypeOK
  <2>2. executed[c] <= forgotten[c] + IF AccountedFor(c) THEN 1 ELSE 0
    BY DEF KeepInv, CountInv
  <2> QED BY <2>1, <2>2
<1> QED BY <1>1, KeepInvariance, PTL

=============================================================================
