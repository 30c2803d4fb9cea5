----------------------------- MODULE LinuxAgent -----------------------------
(***************************************************************************)
(* The Linux agent's handling of command deliveries: the durable outbox    *)
(* (outbox.cpp), the state file with its table of processed commands       *)
(* (state_store.cpp), the command processor (command_processor.cpp) and    *)
(* the single-threaded loop that ties them together (wss_client.cpp).      *)
(*                                                                         *)
(* Every EnqueueX, PopFront, RememberCommand, SetLastDeliveryId and        *)
(* NextSequence ends with a Save that replaces the file atomically         *)
(* (write to .tmp, rename), so the files always equal the objects in       *)
(* memory and a crash falls between two Saves.  A handler is therefore a   *)
(* program of such steps: todo holds what is left of it, work what it      *)
(* works on, and a crash loses both.                                       *)
(***************************************************************************)
EXTENDS Naturals, FiniteSets, Sequences, Functions, Filtering

CONSTANTS
    Commands,      \* command ids (the envelope's message_id)
    Deliveries,    \* delivery ids (the frame's message_id)
    CommandOf,     \* the command each delivery carries
    MaxProcessed,  \* k_max_processed_commands
    MaxFrames,     \* bound: inbound frames and telemetry samples
    MaxCrashes     \* bound: exits and crashes of the process

ASSUME AgentAssumption ==
    /\ CommandOf \in [Deliveries -> Commands]
    /\ MaxProcessed \in Nat \ {0}
    /\ MaxFrames \in Nat
    /\ MaxCrashes \in Nat

VARIABLES
    outbox,     \* outbox.json: the pending items, oldest first
    processed,  \* state.json: processed_commands, oldest first
    last,       \* state.json: last_delivery_id
    saved_seq,  \* state.json: sequence
    sequence,   \* sequence_ in memory
    up,         \* the process runs and its session is authenticated
    todo,       \* the steps left of the handler that is running
    work,       \* the command the handler works on
    expired,    \* the commands whose ttl has passed
    wire,       \* history: the items written to the socket
    top,        \* history: the sequence number of the last frame written
    executed,   \* history: how often each command was executed
    forgotten,  \* history: how often an execution was not, or no longer, remembered
    frames,     \* frames and samples so far
    crashes     \* exits and crashes so far

saved == <<outbox, processed, last, saved_seq>>
volatile == <<sequence, up, todo, work>>
history == <<wire, top, executed, forgotten>>
vars == <<saved, volatile, history, expired, frames, crashes>>

None == "none"
Outcomes == {"completed", "failed"}
AckStatuses == {"received", "rejected"}

\* A ProcessedCommand; it is also what the running handler works on.
Answers == [cmd : Commands, ack : AckStatuses, outcome : Outcomes]
Works == [cmd : Commands, delivery : Deliveries, ack : AckStatuses,
          outcome : Outcomes \cup {None}]
NoWork == [cmd |-> None, delivery |-> None, ack |-> None, outcome |-> None]

\* An OutboxItem; telemetry and update status carry no command.
Items == [type : {"ack"}, cmd : Commands, value : AckStatuses]
         \cup [type : {"result"}, cmd : Commands, value : Outcomes]
         \cup [type : {"telemetry", "update"}, cmd : {None}, value : {None}]
Plain(t) == [type |-> t, cmd |-> None, value |-> None]

Init ==
    /\ outbox = <<>> /\ processed = <<>> /\ last = None
    /\ saved_seq = 0 /\ sequence = 0
    /\ up = FALSE /\ todo = <<>> /\ work = NoWork
    /\ expired = {}
    /\ wire = {} /\ top = 0
    /\ executed = [c \in Commands |-> 0]
    /\ forgotten = [c \in Commands |-> 0]
    /\ frames = 0 /\ crashes = 0

-----------------------------------------------------------------------------
(* The programs of HandleCommandDelivery.                                  *)

\* GetProcessedCommand.
Remembers(c) == \E i \in DOMAIN processed : processed[i].cmd = c
Remembered(c) == processed[CHOOSE i \in DOMAIN processed : processed[i].cmd = c]

\* CommandProcessor::Handle.  The mutant remembers before it reports; the
\* second one acknowledges last.
FreshRemembersFirst == <<"last", "ack", "execute", "remember", "result">>
FreshAcksLast == <<"last", "execute", "result", "ack", "remember">>
Fresh == <<"last", "ack", "execute", "result", "remember">>

\* The branch for a command whose ttl has passed: nothing is executed.
Expired == <<"last", "ack", "result", "remember">>

\* The branch for a command that is remembered: its answer is sent again.
Cached == <<"ack", "result", "last">>

\* The other handlers: an update is answered with "not supported", a heartbeat
\* is written at once, a telemetry sample goes through the outbox.
HandleUpdateAnnounce == <<"update">>
Heartbeat == <<"seq", "heartbeat">>
SendTelemetry == <<"telemetry">>

\* Which program a delivery runs, and on what.
WorkFor(d, a) == [cmd |-> CommandOf[d], delivery |-> d, ack |-> a.ack, outcome |-> a.outcome]
ReceivedAnswer == [ack |-> "received", outcome |-> None]
ExpiredAnswer == [ack |-> "rejected", outcome |-> "failed"]

\* Mutant: the ttl is looked at before the table of processed commands.
HandleExpiryFirst(d) ==
    LET c == CommandOf[d] IN
    IF c \in expired THEN /\ todo' = Expired \o <<"flush">>
                          /\ work' = WorkFor(d, ExpiredAnswer)
    ELSE IF Remembers(c) THEN /\ todo' = Cached \o <<"flush">>
                              /\ work' = WorkFor(d, Remembered(c))
    ELSE /\ todo' = Fresh \o <<"flush">>
         /\ work' = WorkFor(d, ReceivedAnswer)

\* Mutant: only the last delivery id is compared, not the command.
HandleByDelivery(d) ==
    LET c == CommandOf[d] IN
    IF last = d THEN todo' = <<"flush">> /\ UNCHANGED work
    ELSE IF c \in expired THEN /\ todo' = Expired \o <<"flush">>
                               /\ work' = WorkFor(d, ExpiredAnswer)
    ELSE /\ todo' = Fresh \o <<"flush">>
         /\ work' = WorkFor(d, ReceivedAnswer)

HandleCommandDelivery(d) ==
    LET c == CommandOf[d] IN
    IF last = d THEN todo' = <<"flush">> /\ UNCHANGED work
    ELSE IF Remembers(c) THEN /\ todo' = Cached \o <<"flush">>
                              /\ work' = WorkFor(d, Remembered(c))
    ELSE IF c \in expired THEN /\ todo' = Expired \o <<"flush">>
                               /\ work' = WorkFor(d, ExpiredAnswer)
    ELSE /\ todo' = Fresh \o <<"flush">>
         /\ work' = WorkFor(d, ReceivedAnswer)

-----------------------------------------------------------------------------
(* The process and the frames it reads.                                    *)

\* Mutant: what waits in the outbox is left there until the next frame.
StartWithoutFlush ==
    /\ ~up
    /\ up' = TRUE /\ todo' = <<>>
    /\ sequence' = saved_seq + 1 /\ saved_seq' = sequence'
    /\ top' = sequence'
    /\ UNCHANGED <<outbox, processed, last, work, wire, executed, forgotten, expired, frames, crashes>>

\* systemd starts the process, main loads both files, Run connects and reads
\* AUTH_ACK, after which the outbox is flushed.  SendAuth is the first frame
\* to take a sequence number.
Start ==
    /\ ~up
    /\ up' = TRUE /\ todo' = <<"flush">>
    /\ sequence' = saved_seq + 1 /\ saved_seq' = sequence'
    /\ top' = sequence'
    /\ UNCHANGED <<outbox, processed, last, work, wire, executed, forgotten, expired, frames, crashes>>

\* Run is between two frames.
Idle == up /\ todo = <<>> /\ frames < MaxFrames

Deliver(d) ==
    /\ Idle
    /\ HandleCommandDelivery(d)
    /\ frames' = frames + 1
    /\ UNCHANGED <<saved, sequence, up, history, expired, crashes>>

\* An update frame is read, or the interval of a heartbeat or of telemetry has
\* passed.  A flush follows.
Report(steps) ==
    /\ Idle
    /\ todo' = steps \o <<"flush">>
    /\ frames' = frames + 1
    /\ UNCHANGED <<saved, sequence, up, work, history, expired, crashes>>

TtlPasses(c) ==
    /\ c \notin expired
    /\ expired' = expired \cup {c}
    /\ UNCHANGED <<saved, volatile, history, frames, crashes>>

\* A crash, a lost connection or a frame that Run does not accept: the
\* process ends and what the running handler had left to do is lost.
Exit ==
    /\ up
    /\ crashes < MaxCrashes
    /\ crashes' = crashes + 1
    /\ up' = FALSE /\ todo' = <<>> /\ work' = NoWork /\ sequence' = 0
    /\ forgotten' = IF work # NoWork /\ "execute" \notin Range(todo) /\ "remember" \in Range(todo)
                    THEN [forgotten EXCEPT ![work.cmd] = @ + 1]
                    ELSE forgotten
    /\ UNCHANGED <<saved, wire, top, executed, expired, frames>>

-----------------------------------------------------------------------------
(* The steps of a handler.  Each ends with the Save of one file.           *)

\* The next step is op, and it is done; rest is what follows it.
Does(op, rest) == todo # <<>> /\ Head(todo) = op /\ todo' = rest

SetLastDeliveryId ==
    /\ Does("last", Tail(todo))
    /\ last' = work.delivery
    /\ UNCHANGED <<outbox, processed, saved_seq, sequence, up, work, history, expired, frames, crashes>>

Enqueue(item) ==
    /\ outbox' = Append(outbox, item)
    /\ UNCHANGED <<processed, last, saved_seq, sequence, up, work, history, expired, frames, crashes>>

EnqueueAck ==
    /\ Does("ack", Tail(todo))
    /\ Enqueue([type |-> "ack", cmd |-> work.cmd, value |-> work.ack])

EnqueueResult ==
    /\ Does("result", Tail(todo))
    /\ Enqueue([type |-> "result", cmd |-> work.cmd, value |-> work.outcome])

EnqueueUpdateStatus ==
    /\ Does("update", Tail(todo))
    /\ Enqueue(Plain("update"))

\* EnqueueTelemetry keeps only the newest sample.
EnqueueTelemetry ==
    /\ Does("telemetry", Tail(todo))
    /\ outbox' = Append(Kept(outbox, {i \in DOMAIN outbox : outbox[i].type # "telemetry"}),
                        Plain("telemetry"))
    /\ UNCHANGED <<processed, last, saved_seq, sequence, up, work, history, expired, frames, crashes>>

\* PrivilegedClient::Execute: the request takes a sequence number and the
\* service executes it; a method the agent handles itself takes none.  A
\* method that is not supported, a request that cannot be signed or a service
\* that cannot be reached fails and executes nothing.
Execute(o) ==
    /\ Does("execute", Tail(todo))
    /\ sequence' = sequence + 1 \/ (o = "completed" /\ sequence' = sequence)
    /\ saved_seq' = sequence'
    /\ work' = [work EXCEPT !.outcome = o]
    /\ executed' = [executed EXCEPT ![work.cmd] = @ + 1]
    /\ UNCHANGED <<outbox, processed, last, up, wire, top, forgotten, expired, frames, crashes>>

ExecuteFails ==
    /\ Does("execute", Tail(todo))
    /\ sequence' \in {sequence, sequence + 1} /\ saved_seq' = sequence'
    /\ work' = [work EXCEPT !.outcome = "failed"]
    /\ UNCHANGED <<outbox, processed, last, up, history, expired, frames, crashes>>

\* RememberCommand: a known command is overwritten in place, a new one is
\* appended and the oldest ones beyond the limit are dropped.
Answer == [cmd |-> work.cmd, ack |-> work.ack, outcome |-> work.outcome]

\* Mutant: nothing is ever dropped from the table.
RememberForever ==
    /\ Does("remember", Tail(todo))
    /\ processed' = Append(processed, Answer)
    /\ UNCHANGED <<outbox, last, saved_seq, sequence, up, work, history, expired, frames, crashes>>

Remember ==
    /\ Does("remember", Tail(todo))
    /\ IF Remembers(work.cmd)
       THEN /\ processed' = [i \in DOMAIN processed |->
                               IF processed[i].cmd = work.cmd THEN Answer ELSE processed[i]]
            /\ UNCHANGED forgotten
       ELSE IF Len(processed) < MaxProcessed
       THEN processed' = Append(processed, Answer) /\ UNCHANGED forgotten
       ELSE /\ processed' = Append(Tail(processed), Answer)
            /\ forgotten' = [forgotten EXCEPT ![Head(processed).cmd] = @ + 1]
    /\ UNCHANGED <<outbox, last, saved_seq, sequence, up, work, wire, top, executed, expired, frames, crashes>>

\* FlushOutbox: while an item is pending, take a sequence number (saved),
\* write the frame, and pop the item (saved).
FlushNext ==
    /\ Does("flush", IF outbox = <<>> THEN <<>> ELSE <<"seq", "send", "pop", "flush">>)
    /\ work' = IF outbox = <<>> THEN NoWork ELSE work
    /\ UNCHANGED <<saved, sequence, up, history, expired, frames, crashes>>

\* Mutant: the number is taken and not saved.
NextSequenceUnsaved ==
    /\ Does("seq", Tail(todo))
    /\ sequence' = sequence + 1
    /\ UNCHANGED <<saved, up, work, history, expired, frames, crashes>>

NextSequence ==
    /\ Does("seq", Tail(todo))
    /\ sequence' = sequence + 1 /\ saved_seq' = sequence'
    /\ UNCHANGED <<outbox, processed, last, up, work, history, expired, frames, crashes>>

SendSigned ==
    /\ Does("send", Tail(todo))
    /\ wire' = wire \cup {Head(outbox)}
    /\ top' = sequence
    /\ UNCHANGED <<saved, sequence, up, work, executed, forgotten, expired, frames, crashes>>

SendHeartbeat ==
    /\ Does("heartbeat", Tail(todo))
    /\ top' = sequence
    /\ UNCHANGED <<saved, sequence, up, work, wire, executed, forgotten, expired, frames, crashes>>

PopFront ==
    /\ Does("pop", Tail(todo))
    /\ outbox' = Tail(outbox)
    /\ UNCHANGED <<processed, last, saved_seq, sequence, up, work, history, expired, frames, crashes>>

HandlerStep ==
    \/ SetLastDeliveryId \/ EnqueueAck \/ EnqueueResult
    \/ EnqueueUpdateStatus \/ EnqueueTelemetry
    \/ (\E o \in Outcomes : Execute(o)) \/ ExecuteFails
    \/ Remember
    \/ FlushNext \/ NextSequence \/ SendSigned \/ SendHeartbeat \/ PopFront

Next ==
    \/ Start
    \/ \E d \in Deliveries : Deliver(d)
    \/ \E steps \in {HandleUpdateAnnounce, Heartbeat, SendTelemetry} : Report(steps)
    \/ \E c \in Commands : TtlPasses(c)
    \/ Exit
    \/ HandlerStep

Spec == Init /\ [][Next]_vars

\* systemd restarts the process (Restart=always) and a thread that can run
\* runs; nothing promises further frames.
FairSpec == Spec /\ WF_vars(Start) /\ WF_vars(HandlerStep)

-----------------------------------------------------------------------------
(* Properties.                                                             *)

Steps == {"last", "ack", "execute", "result", "remember", "telemetry", "update",
          "heartbeat", "flush", "seq", "send", "pop"}

\* The saved files and the handler's state have the shapes the code gives
\* them; the table of processed commands holds each command once and no more
\* than k_max_processed_commands of them (RememberCommand).
TypeOK ==
    /\ outbox \in Seq(Items)
    /\ processed \in Seq(Answers)
    /\ Len(processed) <= MaxProcessed
    /\ \A i, j \in DOMAIN processed : processed[i].cmd = processed[j].cmd => i = j
    /\ last \in Deliveries \cup {None}
    /\ saved_seq \in Nat /\ sequence \in Nat
    /\ up \in BOOLEAN
    /\ todo \in Seq(Steps)
    /\ work \in Works \cup {NoWork}
    /\ expired \subseteq Commands
    /\ wire \subseteq Items
    /\ top \in Nat
    /\ executed \in [Commands -> Nat]
    /\ forgotten \in [Commands -> Nat]
    /\ frames \in 0..MaxFrames
    /\ crashes \in 0..MaxCrashes

Reported(c) == \E i \in Range(outbox) \cup wire : i.type = "result" /\ i.cmd = c
Written(t, c) == \E i \in wire : i.type = t /\ i.cmd = c

\* A command is executed again only when its execution was forgotten: the
\* process ended between Execute and RememberCommand, or the table of
\* processed commands dropped it.  No redelivery, whatever its delivery id,
\* executes a remembered command (HandleCommandDelivery).
ExecutedOncePerMemory == \A c \in Commands : executed[c] <= 1 + forgotten[c]

\* A command that is remembered as processed has its result in the outbox
\* file or on the wire: Handle saves the result before it remembers, so no
\* crash leaves a command that will not be executed again and whose result
\* exists nowhere.
RememberedIsReported == \A c \in Commands : Remembers(c) => Reported(c)

\* The gateway reads a command's acknowledgement before its result, across
\* crashes and redeliveries (order of EnqueueAck and EnqueueResult, and the
\* outbox is first-in first-out).
AckPrecedesResult == \A c \in Commands : Written("result", c) => Written("ack", c)

\* While a command is remembered its answer does not change and every result
\* enqueued for it repeats that answer, also when the redelivery comes after
\* the ttl (HandleCommandDelivery looks at the table before the ttl).
AnswerIsStable ==
    [][\A c \in Commands : Remembers(c) =>
          /\ Remembers(c)' => Remembered(c)' = Remembered(c)
          /\ \A i \in Range(outbox') \ Range(outbox) :
                i.type = "result" /\ i.cmd = c => i.value = Remembered(c).outcome]_vars

\* Every frame written carries a larger sequence number than the frames
\* before it, restarts included (NextSequence saves before the frame is
\* written; the gateway refuses a number it has seen).
SequenceIsFresh == [][top' # top => top' > top]_vars

\* What is remembered as processed is eventually on the wire: the outbox is
\* flushed after a restart, and it is empty again after every frame.
RememberedReachesTheWire ==
    \A c \in Commands : Remembers(c) ~> Written("result", c)

=============================================================================
