----------------------------- MODULE ThreadPool -----------------------------
(***************************************************************************)
(* code/pool/threadpool.{h,cpp}: a mutex, a condition variable and a FIFO  *)
(* of tasks.  One thread (the reactor's main thread) submits tasks and in  *)
(* the end destroys the pool; the workers run NewThread.  The mutex is     *)
(* explicit, because whether a notification can be lost depends on which   *)
(* accesses it covers.                                                     *)
(***************************************************************************)
EXTENDS Integers, Sequences

CONSTANTS Workers,    \* the threads of workers_
          Main,       \* the thread that submits and destroys
          Nobody,     \* the owner of a free mutex
          NumTasks    \* how many tasks the model lets Main submit

Threads == Workers \cup {Main}
Tasks   == 1 .. NumTasks

ASSUME ThreadPoolAssumption ==
    /\ Workers # {} /\ Main \notin Workers /\ Nobody \notin Threads
    /\ NumTasks \in Nat

VARIABLES
    mtx,            \* the owner of mtx_
    tasks_queue,    \* tasks_queue_
    is_running,     \* is_running_
    submitted,      \* history: how many tasks have been submitted
    finished,       \* history: the tasks that ran to their end
    pc,             \* per thread
    task            \* per worker: the task it runs, 0 if none

vars == <<mtx, tasks_queue, is_running, submitted, finished, pc, task>>

Init ==
    /\ mtx = Nobody /\ tasks_queue = << >> /\ is_running = TRUE
    /\ submitted = 0 /\ finished = {}
    /\ pc = [t \in Threads |-> IF t = Main THEN "idle" ELSE "lock"]
    /\ task = [w \in Workers |-> 0]

Goto(t, l) == pc' = [pc EXCEPT ![t] = l]
Waiters    == {w \in Workers : pc[w] = "waiting"}

-----------------------------------------------------------------------------
(* submit(). Its test of is_running_ always succeeds: only the destructor  *)
(* clears the flag, and the same thread runs both.                         *)

Submit ==
    /\ pc[Main] = "idle" /\ submitted < NumTasks
    /\ mtx = Nobody
    /\ mtx' = Main
    /\ Goto(Main, "emplace")
    /\ UNCHANGED <<tasks_queue, is_running, submitted, finished, task>>

\* The lock_guard's block, and its end.
Emplace ==
    /\ pc[Main] = "emplace"
    /\ submitted' = submitted + 1
    /\ tasks_queue' = Append(tasks_queue, submitted')
    /\ mtx' = Nobody
    /\ Goto(Main, "notifyOne")
    /\ UNCHANGED <<is_running, finished, task>>

\* Mutant: submit() does not notify.
wakeNobody == {pc}

\* A notified worker competes for the mutex; a notification nobody waits for
\* is lost.
wakeOne == IF Waiters = {} THEN {pc}
           ELSE {[pc EXCEPT ![w] = "lock"] : w \in Waiters}

NotifyOne ==
    /\ pc[Main] = "notifyOne"
    /\ \E woken \in wakeOne : pc' = [woken EXCEPT ![Main] = "idle"]
    /\ UNCHANGED <<mtx, tasks_queue, is_running, submitted, finished, task>>

-----------------------------------------------------------------------------
(* ~ThreadPool().                                                          *)

\* Mutant: is_running_ is cleared without the mutex.
destructorMay == TRUE

\* The destructor clears is_running_ under the mutex.
mayStop == mtx = Nobody

Stop ==
    /\ pc[Main] = "idle"
    /\ mayStop
    /\ is_running' = FALSE
    /\ Goto(Main, "notifyAll")
    /\ UNCHANGED <<mtx, tasks_queue, submitted, finished, task>>

NotifyAll ==
    /\ pc[Main] = "notifyAll"
    /\ pc' = [t \in Threads |-> IF t = Main THEN "join"
                                ELSE IF t \in Waiters THEN "lock" ELSE pc[t]]
    /\ UNCHANGED <<mtx, tasks_queue, is_running, submitted, finished, task>>

Join ==
    /\ pc[Main] = "join"
    /\ \A w \in Workers : pc[w] = "exited"
    /\ Goto(Main, "destroyed")
    /\ UNCHANGED <<mtx, tasks_queue, is_running, submitted, finished, task>>

-----------------------------------------------------------------------------
(* NewThread().                                                            *)

\* Take the mutex, first or after a notification, and evaluate the predicate
\* of cv_.wait.
Lock(w) ==
    /\ pc[w] = "lock"
    /\ mtx = Nobody
    /\ mtx' = w
    /\ Goto(w, IF tasks_queue # << >> \/ ~is_running THEN "test" ELSE "sleep")
    /\ UNCHANGED <<tasks_queue, is_running, submitted, finished, task>>

\* The predicate was false: release the mutex and block, in one step.
Sleep(w) ==
    /\ pc[w] = "sleep"
    /\ mtx' = Nobody
    /\ Goto(w, "waiting")
    /\ UNCHANGED <<tasks_queue, is_running, submitted, finished, task>>

Spurious(w) ==
    /\ pc[w] = "waiting"
    /\ Goto(w, "lock")
    /\ UNCHANGED <<mtx, tasks_queue, is_running, submitted, finished, task>>

mayExit == ~is_running /\ tasks_queue = << >>

Exit(w) ==
    /\ pc[w] = "test"
    /\ mayExit
    /\ mtx' = Nobody
    /\ Goto(w, "exited")
    /\ UNCHANGED <<tasks_queue, is_running, submitted, finished, task>>

\* Mutant: the task is left in the queue.
restKept == tasks_queue

rest == Tail(tasks_queue)

Pop(w) ==
    /\ pc[w] = "test"
    /\ ~mayExit
    /\ task' = [task EXCEPT ![w] = Head(tasks_queue)]
    /\ tasks_queue' = rest
    /\ mtx' = Nobody
    /\ Goto(w, "run")
    /\ UNCHANGED <<is_running, submitted, finished>>

Run(w) ==
    /\ pc[w] = "run"
    /\ finished' = finished \cup {task[w]}
    /\ task' = [task EXCEPT ![w] = 0]
    /\ Goto(w, "lock")
    /\ UNCHANGED <<mtx, tasks_queue, is_running, submitted>>

-----------------------------------------------------------------------------
MainStep == Submit \/ Emplace \/ NotifyOne \/ Stop \/ NotifyAll \/ Join

WorkerStep(w) == Lock(w) \/ Sleep(w) \/ Exit(w) \/ Pop(w) \/ Run(w)

\* A destroyed pool is the intended end.
Destroyed == pc[Main] = "destroyed" /\ UNCHANGED vars

Next == MainStep \/ Destroyed \/ \E w \in Workers : WorkerStep(w) \/ Spurious(w)

Spec == Init /\ [][Next]_vars

\* Nobody holds the mutex for ever and the system lets every thread that waits
\* for it have it in the end; tasks end.  Main need not submit nor stop.
Fairness ==
    /\ WF_vars(Emplace) /\ WF_vars(NotifyOne) /\ WF_vars(NotifyAll)
    /\ WF_vars(Join)
    /\ \A w \in Workers :
          SF_vars(Lock(w)) /\ WF_vars(Sleep(w) \/ Exit(w) \/ Pop(w) \/ Run(w))

FairSpec == Spec /\ Fairness

-----------------------------------------------------------------------------
(* Properties.                                                             *)

TypeOK ==
    /\ mtx \in Threads \cup {Nobody}
    /\ tasks_queue \in Seq(Tasks) /\ is_running \in BOOLEAN
    /\ submitted \in 0 .. NumTasks /\ finished \subseteq Tasks
    /\ pc \in [Threads -> {"idle", "emplace", "notifyOne", "notifyAll", "join",
                           "destroyed", "lock", "test", "sleep", "waiting",
                           "run", "exited"}]
    /\ task \in [Workers -> Tasks \cup {0}]

\* No wakeup is lost: while tasks are queued, either a worker is awake and on
\* its way to the queue, or the notification is still to come; and once the
\* destructor has notified, no worker sleeps or is about to, so join does not
\* wait for one that nobody will wake.
NoLostWakeup ==
    /\ tasks_queue # << >> =>
          \/ pc[Main] = "notifyOne"
          \/ \E w \in Workers : pc[w] \in {"lock", "test", "run"}
    /\ pc[Main] \in {"join", "destroyed"} =>
          \A w \in Workers : pc[w] \notin {"sleep", "waiting"}

\* The pool is a queue that runs every task once, in order of submission, and
\* to its end before the pool is gone.
Queue == INSTANCE TaskQueue WITH
    queue  <- tasks_queue,
    active <- {task[w] : w \in Workers} \ {0},
    gone   <- pc[Main] = "destroyed"

ImplementsTaskQueue == Queue!FairSpec

\* The destructor returns.
JoinReturns == pc[Main] = "notifyAll" ~> pc[Main] = "destroyed"
==============================================================================
