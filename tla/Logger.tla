------------------------------- MODULE Logger -------------------------------
(***************************************************************************)
(* The asynchronous log: code/log/log.{h,cpp} and its bounded queue,       *)
(* code/log/blockqueue.h.  Threads log messages, a flush thread moves them *)
(* through write_buffer_ to the file, and the main thread shuts the log    *)
(* down while others may still be logging.  Every operation of the queue   *)
(* is one critical section of its mutex, and so one step; the accesses to  *)
(* Logger::is_running_ and to the queue's size are steps of their own.     *)
(***************************************************************************)
EXTENDS Integers, Sequences, FiniteSets

CONSTANTS
    Loggers,     \* the threads that call log()
    Main,        \* the one of them that calls shutdown()
    capacity,    \* BlockDeque::capacity_
    FlushSize,   \* how many messages make 4096 bytes
    MaxMsgs      \* per thread: how many messages the model lets it log

ASSUME LoggerAssumption ==
    /\ Main \in Loggers /\ IsFiniteSet(Loggers)
    /\ capacity \in Nat \ {0} /\ FlushSize \in Nat \ {0}
    /\ MaxMsgs \in [Loggers -> Nat]

VARIABLES
    is_running,     \* Logger::is_running_
    deq,            \* BlockDeque::deq_
    deq_running,    \* BlockDeque::is_running_
    write_buffer,   \* write_buffer_, as a sequence of messages
    file,           \* history: what was written to the stream, in order
    printed,        \* history: the messages log() sent to stdout
    due,            \* LEAST_FLUSH_SEC_GAP has passed since the last flush
    count,          \* per thread: how many messages it has begun to log
    pc,             \* per thread that logs
    worker          \* the program counter of log_worker_thread

vars == <<is_running, deq, deq_running, write_buffer, file, printed, due,
          count, pc, worker>>

queueVars == <<deq, deq_running>>
diskVars  == <<write_buffer, file, due>>

Messages   == UNION {[from : {t}, n : 1 .. MaxMsgs[t]] : t \in Loggers}
Current(t) == [from |-> t, n |-> count[t]]

Init ==
    /\ is_running = TRUE
    /\ deq = << >> /\ deq_running = TRUE
    /\ write_buffer = << >> /\ file = << >> /\ printed = {} /\ due = FALSE
    /\ count = [t \in Loggers |-> 0]
    /\ pc = [t \in Loggers |-> "idle"]
    /\ worker = "test"

Goto(t, l)   == pc' = [pc EXCEPT ![t] = l]
InPush       == {t \in Loggers : pc[t] = "push"}
WaitForSpace == {t \in Loggers : pc[t] = "waitSpace"}

-----------------------------------------------------------------------------
(* Logger::log and BlockDeque::push_back.                                  *)

\* Once the log is shut down a message goes to stdout.
Log(t) ==
    /\ pc[t] = "idle" /\ count[t] < MaxMsgs[t]
    /\ count' = [count EXCEPT ![t] = @ + 1]
    /\ IF is_running
       THEN Goto(t, "push") /\ UNCHANGED printed
       ELSE printed' = printed \cup {Current(t)'} /\ UNCHANGED pc
    /\ UNCHANGED <<is_running, queueVars, diskVars, worker>>

Full == Len(deq) >= capacity

PushWaits(t) ==
    /\ pc[t] = "push" /\ Full
    /\ Goto(t, "waitSpace")
    /\ UNCHANGED <<is_running, queueVars, diskVars, printed, count, worker>>

\* Mutant: push_front for push_back.
enqueueFront(m) == deq' = <<m>> \o deq

enqueue(m) == deq' = Append(deq, m)

\* condConsumer_.notify_one(): the flush thread is its only waiter.
NotifyConsumer == worker' = IF worker = "waitItem" THEN "woken" ELSE worker

Push(t) ==
    /\ pc[t] = "push" /\ ~Full
    /\ enqueue(Current(t))
    /\ NotifyConsumer
    /\ Goto(t, "idle")
    /\ UNCHANGED <<is_running, deq_running, diskVars, printed, count>>

-----------------------------------------------------------------------------
(* log_worker_thread, BlockDeque::pop with a timeout, flush_if_need.       *)

WorkerAt(from, to) == worker \in from /\ worker' = to

\* The second half of the loop's condition, read after is_running_.
more == deq # << >>

Test ==
    /\ \/ is_running /\ WorkerAt({"test"}, "pop")
       \/ ~is_running /\ WorkerAt({"test"}, "testSize")
       \/ more /\ WorkerAt({"testSize"}, "pop")
       \/ ~more /\ WorkerAt({"testSize"}, "final")
    /\ UNCHANGED <<is_running, queueVars, diskVars, printed, count, pc>>

\* Mutant: the flush thread calls pop without a timeout.
PopFailsWoken ==
    /\ ~deq_running /\ WorkerAt({"woken"}, "flush")
    /\ UNCHANGED <<is_running, queueVars, diskVars, printed, count, pc>>

\* pop returns false: it timed out, or it was woken and the queue is stopped.
PopFails ==
    /\ \/ WorkerAt({"waitItem"}, "flush")
       \/ ~deq_running /\ WorkerAt({"woken"}, "flush")
    /\ UNCHANGED <<is_running, queueVars, diskVars, printed, count, pc>>

\* The thread is at the loop of pop with the mutex in its hands.
Popping == worker = "pop" \/ (worker = "woken" /\ deq_running)

PopWaits ==
    /\ Popping /\ deq = << >>
    /\ worker' = "waitItem"
    /\ UNCHANGED <<is_running, queueVars, diskVars, printed, count, pc>>

\* Mutant: pop does not notify.
wakeNobody == {pc}

\* condProducer_.notify_one(): a woken producer tests the length again.
wakeProducer ==
    IF WaitForSpace = {} THEN {pc}
    ELSE {[pc EXCEPT ![t] = "push"] : t \in WaitForSpace}

Pop ==
    /\ Popping /\ deq # << >>
    /\ write_buffer' = Append(write_buffer, Head(deq))
    /\ deq' = Tail(deq)
    /\ pc' \in wakeProducer
    /\ worker' = "flush"
    /\ UNCHANGED <<is_running, deq_running, file, printed, due, count>>

\* Mutant: flush() resets the buffer of a stream it did not write.
writtenNot(f, b) == f

written(f, b) == f \o b

\* Mutant: only a full buffer is flushed.
flushWhenFull == Len(write_buffer) >= FlushSize

flushNeeded == write_buffer # << >> /\ (Len(write_buffer) >= FlushSize \/ due)

flush ==
    /\ file' = written(file, write_buffer)
    /\ write_buffer' = << >>
    /\ due' = FALSE

flush_if_need ==
    /\ WorkerAt({"flush"}, "test")
    /\ IF flushNeeded THEN flush ELSE UNCHANGED diskVars
    /\ UNCHANGED <<is_running, queueVars, printed, count, pc>>

\* After the loop.
LastFlush ==
    /\ WorkerAt({"final"}, "exited")
    /\ flush
    /\ UNCHANGED <<is_running, queueVars, printed, count, pc>>

TimePasses ==
    /\ ~due /\ worker # "exited"
    /\ due' = TRUE
    /\ UNCHANGED <<is_running, queueVars, write_buffer, file, printed, count,
                   pc, worker>>

-----------------------------------------------------------------------------
(* Logger::shutdown and BlockDeque::stop.                                  *)

Shutdown ==
    /\ pc[Main] = "idle" /\ is_running
    /\ is_running' = FALSE
    /\ Goto(Main, "stop")
    /\ UNCHANGED <<queueVars, diskVars, printed, count, worker>>

\* stop() clears the queue, messages and all.
Stop ==
    /\ pc[Main] = "stop"
    /\ deq' = << >> /\ deq_running' = FALSE
    /\ Goto(Main, "notifyConsumer")
    /\ UNCHANGED <<is_running, diskVars, printed, count, worker>>

StopNotifiesConsumer ==
    /\ pc[Main] = "notifyConsumer"
    /\ NotifyConsumer
    /\ Goto(Main, "notifyProducers")
    /\ UNCHANGED <<is_running, queueVars, diskVars, printed, count>>

\* Mutant: stop() notifies one producer.
wokenOne ==
    IF WaitForSpace = {} THEN {} ELSE {CHOOSE t \in WaitForSpace : TRUE}

wokenByStop == WaitForSpace

StopNotifiesProducers ==
    /\ pc[Main] = "notifyProducers"
    /\ pc' = [t \in Loggers |-> IF t = Main THEN "join"
                                ELSE IF t \in wokenByStop THEN "push"
                                ELSE pc[t]]
    /\ UNCHANGED <<is_running, queueVars, diskVars, printed, count, worker>>

\* worker_thread_.join(), then the stream is closed.
Join ==
    /\ pc[Main] = "join" /\ worker = "exited"
    /\ Goto(Main, "stopped")
    /\ UNCHANGED <<is_running, queueVars, diskVars, printed, count, worker>>

-----------------------------------------------------------------------------
WorkerStep ==
    Test \/ PopFails \/ PopWaits \/ Pop \/ flush_if_need \/ LastFlush

LoggerStep(t) == PushWaits(t) \/ Push(t)

ShutdownStep == Stop \/ StopNotifiesConsumer \/ StopNotifiesProducers \/ Join

\* The log is down and no thread has anything left to say.
Silence ==
    /\ pc[Main] = "stopped"
    /\ \A t \in Loggers \ {Main} : pc[t] = "idle" /\ count[t] = MaxMsgs[t]
    /\ UNCHANGED vars

Next ==
    \/ \E t \in Loggers : Log(t) \/ LoggerStep(t)
    \/ WorkerStep \/ TimePasses
    \/ Shutdown \/ ShutdownStep
    \/ Silence

Spec == Init /\ [][Next]_vars

\* The scheduler runs every thread that can run, and time passes. Nobody is
\* obliged to log or to shut the log down.
Fairness ==
    /\ WF_vars(WorkerStep) /\ WF_vars(TimePasses) /\ WF_vars(ShutdownStep)
    /\ \A t \in Loggers : WF_vars(LoggerStep(t))

FairSpec == Spec /\ Fairness

-----------------------------------------------------------------------------
(* Properties.                                                             *)

\* The variables have their types, and push_back keeps to the capacity.
TypeOK ==
    /\ is_running \in BOOLEAN /\ deq_running \in BOOLEAN /\ due \in BOOLEAN
    /\ deq \in Seq(Messages) /\ Len(deq) <= capacity
    /\ write_buffer \in Seq(Messages) /\ file \in Seq(Messages)
    /\ printed \subseteq Messages
    /\ count \in [Loggers -> Nat] /\ \A t \in Loggers : count[t] <= MaxMsgs[t]
    /\ pc \in [Loggers -> {"idle", "push", "waitSpace", "stop",
                           "notifyConsumer", "notifyProducers", "join",
                           "stopped"}]
    /\ worker \in {"test", "testSize", "pop", "waitItem", "woken", "flush",
                   "final", "exited"}

Pipeline == file \o write_buffer \o deq
InPipeline == {Pipeline[i] : i \in DOMAIN Pipeline}

\* From the queue to the file the messages of one thread stay in the order it
\* logged them, and none is there twice.
InOrder ==
    \A i, j \in DOMAIN Pipeline :
        i < j /\ Pipeline[i].from = Pipeline[j].from =>
            Pipeline[i].n < Pipeline[j].n

\* The messages of the calls of log() that returned.
Logged == {m \in Messages :
              m.n <= count[m.from]
              /\ ~(m = Current(m.from) /\ pc[m.from] \in {"push", "waitSpace"})}

\* Until shutdown stops the queue every message logged is queued, buffered,
\* written or printed.
NothingLost == deq_running => Logged \subseteq InPipeline \cup printed

\* A producer waits only if every free place already has a thread that was
\* woken, or came, to take it (between the two halves of stop() the queue is
\* empty and its waiters not yet woken).
NoLostWakeup ==
    pc[Main] \in {"notifyConsumer", "notifyProducers"}
    \/ WaitForSpace = {}
    \/ capacity - Len(deq) <= Cardinality(InPush)

\* shutdown() writes all messages logged before it returns: the comment at
\* log.h:46.
AllWrittenAtShutdown ==
    pc[Main] = "stopped" =>
        Logged \subseteq printed \cup {file[i] : i \in DOMAIN file}

\* A queued message reaches the file, unless the log is shut down.
QueuedIsWritten ==
    \A m \in Messages :
        (m \in InPipeline) ~>
            \/ m \in {file[i] : i \in DOMAIN file}
            \/ ~is_running

\* A call of log() returns, even if it meets a full queue or a shutdown.
LogReturns == \A t \in Loggers : (pc[t] = "push") ~> (pc[t] = "idle")

\* shutdown() returns: the flush thread leaves its loop.
ShutdownReturns == (pc[Main] = "stop") ~> (pc[Main] = "stopped")
=============================================================================
