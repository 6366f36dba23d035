--------------------------- MODULE ThreadPoolProofs ---------------------------
(* Theorems about ThreadPool, for any number of workers and tasks.           *)
EXTENDS ThreadPool, TLAPS

\* Which labels each thread uses, and when a worker has a task.
Labels ==
    /\ pc[Main] \in {"idle", "emplace", "notifyOne", "notifyAll", "join", "destroyed"}
    /\ \A w \in Workers :
          /\ pc[w] \in {"lock", "test", "sleep", "waiting", "run", "exited"}
          /\ task[w] # 0 <=> pc[w] = "run"

\* Whoever looks at the queue or the flag, or is about to sleep, has the mutex,
\* and what the predicate of cv_.wait said still holds.
MutexInv ==
    /\ pc[Main] = "emplace" => mtx = Main /\ submitted < NumTasks
    /\ \A w \in Workers :
          /\ pc[w] \in {"test", "sleep"} => mtx = w
          /\ pc[w] = "test" => tasks_queue # << >> \/ ~is_running
          /\ pc[w] = "sleep" => tasks_queue = << >> /\ is_running

\* The destructor has begun when the flag is down, and no worker leaves before.
StopInv ==
    /\ ~is_running <=> pc[Main] \in {"notifyAll", "join", "destroyed"}
    /\ \A w \in Workers : pc[w] = "exited" => ~is_running

PoolInv == Labels /\ MutexInv /\ StopInv /\ NoLostWakeup

\* How many tasks have left the queue.
started == submitted - Len(tasks_queue)

\* The queue holds the last tasks submitted, in order; the ones before are
\* finished or with one worker each.
FifoInv ==
    /\ started \in Nat
    /\ \A i \in 1 .. Len(tasks_queue) : tasks_queue[i] = started + i
    /\ \A n \in finished : n <= started
    /\ \A w \in Workers :
          /\ task[w] <= started
          /\ \A v \in Workers : task[v] = task[w] /\ task[w] # 0 => v = w
-----------------------------------------------------------------------------
LEMMA TypeInit == Init => TypeOK
BY ThreadPoolAssumption DEF Init, TypeOK, Threads, Tasks

LEMMA TypeNext == TypeOK /\ PoolInv /\ [Next]_vars => TypeOK'
<1>. SUFFICES ASSUME TypeOK, PoolInv, [Next]_vars PROVE TypeOK'
  OBVIOUS
<1>. USE ThreadPoolAssumption DEF TypeOK, Threads
<1>1. CASE Submit
  BY <1>1 DEF Submit, Goto
<1>2. CASE Emplace
  <2>1. submitted + 1 \in Tasks /\ submitted' = submitted + 1
    BY <1>2 DEF Emplace, PoolInv, MutexInv, Tasks
  <2>2. tasks_queue' \in Seq(Tasks)
    BY <1>2, <2>1 DEF Emplace
  <2>. QED BY <1>2, <2>1, <2>2 DEF Emplace, Goto, Tasks
<1>3. CASE NotifyOne
  BY <1>3 DEF NotifyOne, wakeOne, Waiters
<1>4. CASE Stop
  BY <1>4 DEF Stop, Goto
<1>5. CASE NotifyAll
  BY <1>5 DEF NotifyAll, Waiters
<1>6. CASE Join
  BY <1>6 DEF Join, Goto
<1>7. ASSUME NEW w \in Workers, Lock(w) PROVE TypeOK'
  BY <1>7 DEF Lock, Goto
<1>8. ASSUME NEW w \in Workers, Sleep(w) \/ Spurious(w) \/ Exit(w) PROVE TypeOK'
  BY <1>8 DEF Sleep, Spurious, Exit, Goto
<1>9. ASSUME NEW w \in Workers, Pop(w) PROVE TypeOK'
  <2>1. tasks_queue # << >>
    BY <1>9 DEF Pop, mayExit, PoolInv, MutexInv
  <2>2. Head(tasks_queue) \in Tasks /\ Tail(tasks_queue) \in Seq(Tasks)
    BY <2>1
  <2>. QED BY <1>9, <2>2 DEF Pop, rest, Goto
<1>10. ASSUME NEW w \in Workers, Run(w) PROVE TypeOK'
  <2>1. task[w] \in Tasks
    BY <1>10 DEF Run, PoolInv, Labels
  <2>. QED BY <1>10, <2>1 DEF Run, Goto
<1>11. CASE UNCHANGED vars
  BY <1>11 DEF vars
<1>. QED
  BY <1>1, <1>2, <1>3, <1>4, <1>5, <1>6, <1>7, <1>8, <1>9, <1>10, <1>11
     DEF Next, MainStep, WorkerStep, Destroyed

-----------------------------------------------------------------------------
(* Nobody sleeps through work.                                             *)

LEMMA PoolInit == Init => PoolInv
BY ThreadPoolAssumption
   DEF Init, PoolInv, Labels, MutexInv, StopInv, NoLostWakeup, Threads

\* submit: the queue grows under the mutex, and a worker is awake or woken.
LEMMA PoolSubmits ==
    ASSUME TypeOK, PoolInv, Submit \/ Emplace \/ NotifyOne
    PROVE  PoolInv'
<1>. USE ThreadPoolAssumption DEF PoolInv, TypeOK, Threads
<1>1. CASE Submit
  BY <1>1 DEF Submit, Goto, Labels, MutexInv, StopInv, NoLostWakeup
<1>2. CASE Emplace
  BY <1>2 DEF Emplace, Goto, Labels, MutexInv, StopInv, NoLostWakeup
<1>3. CASE NotifyOne
  <2>1. is_running /\ pc[Main] = "notifyOne"
    BY <1>3 DEF NotifyOne, StopInv
  <2>2. PICK woken \in wakeOne : pc' = [woken EXCEPT ![Main] = "idle"]
    BY <1>3 DEF NotifyOne
  <2>3. CASE Waiters = {}
    <3>1. pc' = [pc EXCEPT ![Main] = "idle"]
      BY <2>2, <2>3 DEF wakeOne
    <3>2. tasks_queue # << >> => \E w \in Workers : pc[w] \in {"lock", "test", "run"}
      BY <2>1, <2>3 DEF Waiters, Labels, MutexInv, StopInv
    <3>. QED BY <1>3, <2>1, <3>1, <3>2
             DEF NotifyOne, Labels, MutexInv, StopInv, NoLostWakeup
  <2>4. ASSUME NEW v \in Waiters, pc' = [[pc EXCEPT ![v] = "lock"] EXCEPT ![Main] = "idle"]
        PROVE  PoolInv'
    <3>1. v \in Workers /\ pc[v] = "waiting"
      BY DEF Waiters
    <3>2. /\ pc'[Main] = "idle" /\ pc'[v] = "lock"
          /\ \A w \in Workers \ {v} : pc'[w] = pc[w]
      BY <2>4, <3>1
    <3>3. Labels' /\ MutexInv'
      BY <1>3, <3>1, <3>2 DEF NotifyOne, Labels, MutexInv
    <3>4. StopInv' /\ NoLostWakeup'
      BY <1>3, <2>1, <3>1, <3>2 DEF NotifyOne, StopInv, NoLostWakeup
    <3>. QED BY <3>3, <3>4
  <2>. QED BY <2>2, <2>3, <2>4 DEF wakeOne
<1>. QED BY <1>1, <1>2, <1>3

\* The destructor: when it lowers the flag, with the mutex free, nobody is about
\* to sleep, and its notification wakes the others.
LEMMA PoolStops ==
    ASSUME TypeOK, PoolInv, Stop \/ NotifyAll \/ Join
    PROVE  PoolInv'
<1>. USE ThreadPoolAssumption DEF PoolInv, TypeOK, Threads
<1>1. CASE Stop
  BY <1>1 DEF Stop, mayStop, Goto, Labels, MutexInv, StopInv, NoLostWakeup
<1>2. CASE NotifyAll
  <2>1. /\ pc'[Main] = "join" /\ ~is_running
        /\ \A w \in Workers : pc'[w] = IF pc[w] = "waiting" THEN "lock" ELSE pc[w]
    BY <1>2 DEF NotifyAll, Waiters, StopInv
  <2>2. Labels' /\ MutexInv' /\ StopInv'
    BY <1>2, <2>1 DEF NotifyAll, Labels, MutexInv, StopInv
  <2>3. NoLostWakeup'
    BY <1>2, <2>1 DEF NotifyAll, Labels, MutexInv, StopInv, NoLostWakeup
  <2>. QED BY <2>2, <2>3
<1>3. CASE Join
  BY <1>3 DEF Join, Goto, Labels, MutexInv, StopInv, NoLostWakeup
<1>. QED BY <1>1, <1>2, <1>3

LEMMA PoolWorks ==
    ASSUME TypeOK, PoolInv, NEW w \in Workers, WorkerStep(w) \/ Spurious(w)
    PROVE  PoolInv'
<1>. USE ThreadPoolAssumption DEF PoolInv, TypeOK, Threads, Goto
<1>1. CASE Lock(w)
  BY <1>1 DEF Lock, Labels, MutexInv, StopInv, NoLostWakeup
<1>2. CASE Sleep(w)
  BY <1>2 DEF Sleep, Labels, MutexInv, StopInv, NoLostWakeup
<1>3. CASE Spurious(w)
  BY <1>3 DEF Spurious, Labels, MutexInv, StopInv, NoLostWakeup
<1>4. CASE Exit(w)
  BY <1>4 DEF Exit, mayExit, Labels, MutexInv, StopInv, NoLostWakeup
<1>5. CASE Pop(w)
  <2>1. tasks_queue # << >> /\ Head(tasks_queue) \in Tasks
    BY <1>5 DEF Pop, mayExit, MutexInv
  <2>2. Head(tasks_queue) # 0
    BY <2>1 DEF Tasks
  <2>. QED BY <1>5, <2>2 DEF Pop, Labels, MutexInv, StopInv, NoLostWakeup
<1>6. CASE Run(w)
  BY <1>6 DEF Run, Labels, MutexInv, StopInv, NoLostWakeup
<1>. QED BY <1>1, <1>2, <1>3, <1>4, <1>5, <1>6 DEF WorkerStep

LEMMA PoolNext == TypeOK /\ PoolInv /\ [Next]_vars => PoolInv'
<1>. SUFFICES ASSUME TypeOK, PoolInv, [Next]_vars PROVE PoolInv'
  OBVIOUS
<1>1. CASE UNCHANGED vars
  BY <1>1 DEF vars, PoolInv, Labels, MutexInv, StopInv, NoLostWakeup
<1>. QED BY <1>1, PoolSubmits, PoolStops, PoolWorks DEF Next, MainStep, Destroyed

LEMMA PoolInvariant == Spec => [](TypeOK /\ PoolInv)
BY TypeInit, TypeNext, PoolInit, PoolNext, PTL DEF Spec

\* Every variable keeps its type, for any number of workers and tasks.
THEOREM TypeCorrect == Spec => []TypeOK
BY PoolInvariant, PTL

\* However many workers wait, a task that is queued has a worker on its way or
\* a notification to come, and the destructor's notification finds them all.
THEOREM NoWakeupIsLost == Spec => []NoLostWakeup
BY PoolInvariant, PTL DEF PoolInv
-----------------------------------------------------------------------------
(* The pool is a queue.                                                    *)

LEMMA FifoInit == Init => FifoInv
BY ThreadPoolAssumption DEF Init, FifoInv, started

\* What Emplace appends is the number after the last.
LEMMA EmplaceAppends ==
    ASSUME TypeOK, FifoInv, Emplace
    PROVE  /\ tasks_queue' = Append(tasks_queue, submitted + 1)
           /\ started' = started /\ FifoInv'
<1>1. /\ tasks_queue \in Seq(Tasks) /\ submitted \in Nat
      /\ submitted' = submitted + 1 /\ tasks_queue' = Append(tasks_queue, submitted + 1)
      /\ UNCHANGED <<finished, task>>
  BY DEF Emplace, TypeOK
<1>2. Len(tasks_queue') = Len(tasks_queue) + 1 /\ Len(tasks_queue) \in Nat
  BY <1>1
<1>3. started' = started
  BY <1>1, <1>2 DEF started
<1>4. ASSUME NEW i \in 1 .. Len(tasks_queue') PROVE tasks_queue'[i] = started + i
  <2>1. CASE i \in 1 .. Len(tasks_queue)
    <3>1. tasks_queue'[i] = tasks_queue[i]
      BY <1>1, <2>1
    <3>. QED BY <2>1, <3>1 DEF FifoInv
  <2>2. CASE i = Len(tasks_queue) + 1
    <3>1. tasks_queue'[i] = submitted + 1
      BY <1>1, <2>2
    <3>. QED BY <1>1, <1>2, <2>2, <3>1 DEF started
  <2>. QED BY <1>2, <2>1, <2>2
<1>. QED BY <1>1, <1>3, <1>4 DEF FifoInv

\* What Pop takes is the first number in the queue, which nobody has had.
LEMMA PopTakes ==
    ASSUME TypeOK, PoolInv, FifoInv, NEW w \in Workers, Pop(w)
    PROVE  /\ tasks_queue # << >> /\ Head(tasks_queue) = started + 1
           /\ tasks_queue' = Tail(tasks_queue) /\ started' = started + 1
           /\ task[w] = 0 /\ task' = [task EXCEPT ![w] = started + 1]
           /\ UNCHANGED <<submitted, finished>> /\ FifoInv'
<1>1. /\ tasks_queue \in Seq(Tasks) /\ submitted \in Nat /\ tasks_queue # << >>
      /\ tasks_queue' = Tail(tasks_queue) /\ UNCHANGED <<submitted, finished>>
      /\ task' = [task EXCEPT ![w] = Head(tasks_queue)] /\ task[w] = 0
      /\ task \in [Workers -> Tasks \cup {0}]
  BY DEF Pop, rest, mayExit, TypeOK, PoolInv, MutexInv, Labels
<1>2. /\ Len(tasks_queue) \in Nat \ {0} /\ Head(tasks_queue) = tasks_queue[1]
      /\ Len(Tail(tasks_queue)) = Len(tasks_queue) - 1
      /\ \A i \in 1 .. Len(tasks_queue) - 1 : Tail(tasks_queue)[i] = tasks_queue[i + 1]
  BY <1>1
<1>3. started' = started + 1 /\ started \in Nat
  BY <1>1, <1>2 DEF started, FifoInv
<1>4. Head(tasks_queue) = started + 1
  BY <1>2 DEF FifoInv
<1>5. ASSUME NEW i \in 1 .. Len(tasks_queue') PROVE tasks_queue'[i] = started' + i
  <2>1. i + 1 \in 1 .. Len(tasks_queue) /\ tasks_queue'[i] = tasks_queue[i + 1]
    BY <1>1, <1>2
  <2>2. tasks_queue[i + 1] = started + (i + 1)
    BY <2>1 DEF FifoInv
  <2>. QED BY <1>3, <2>1, <2>2
<1>6. \A n \in finished' : n <= started'
  BY <1>1, <1>3 DEF FifoInv, TypeOK, Tasks
<1>7. ASSUME NEW u \in Workers
      PROVE  /\ task'[u] <= started'
             /\ \A v \in Workers : task'[v] = task'[u] /\ task'[u] # 0 => v = u
  <2>1. \A v \in Workers : task[v] <= started /\ task[v] \in Nat
    BY <1>1 DEF FifoInv, Tasks
  <2>2. \A v \in Workers : task'[v] = IF v = w THEN started + 1 ELSE task[v]
    BY <1>1, <1>4
  <2>. QED BY <1>3, <2>1, <2>2 DEF FifoInv
<1>8. started' \in Nat
  BY <1>3
<1>9. FifoInv'
  BY <1>5, <1>6, <1>7, <1>8 DEF FifoInv
<1>. QED BY <1>1, <1>3, <1>4, <1>9

LEMMA FifoNext == TypeOK /\ PoolInv /\ FifoInv /\ [Next]_vars => FifoInv'
<1>. SUFFICES ASSUME TypeOK, PoolInv, FifoInv, [Next]_vars PROVE FifoInv'
  OBVIOUS
<1>1. CASE Emplace
  BY <1>1, EmplaceAppends
<1>2. ASSUME NEW w \in Workers, Pop(w) PROVE FifoInv'
  BY <1>2, PopTakes
<1>3. ASSUME NEW w \in Workers, Run(w) PROVE FifoInv'
  <2>1. \A v \in Workers : task'[v] = IF v = w THEN 0 ELSE task[v]
    BY <1>3 DEF Run, TypeOK
  <2>2. finished' = finished \cup {task[w]} /\ UNCHANGED <<submitted, tasks_queue>>
    BY <1>3 DEF Run
  <2>. QED BY <2>1, <2>2 DEF FifoInv, started
<1>4. CASE UNCHANGED <<submitted, tasks_queue, finished, task>>
  BY <1>4 DEF FifoInv, started
<1>. QED
  BY <1>1, <1>2, <1>3, <1>4
     DEF Next, MainStep, WorkerStep, Destroyed, vars, Submit, NotifyOne, Stop, NotifyAll,
         Join, Lock, Sleep, Spurious, Exit

\* What the mapping gives TaskQueue for its active tasks.
active == {task[w] : w \in Workers} \ {0}

LEMMA QueueInit == Init => Queue!Init
BY ThreadPoolAssumption DEF Init, Queue!Init, Threads

\* Each step of the pool is one of the queue or none: a task enters with
\* Emplace, starts with Pop, ends with Run, and Join leaves none behind.
LEMMA QueueNext ==
    TypeOK /\ TypeOK' /\ PoolInv /\ FifoInv /\ [Next]_vars
        => [Queue!Next]_(Queue!vars)
<1>. SUFFICES ASSUME TypeOK, TypeOK', PoolInv, FifoInv, [Next]_vars
              PROVE  [Queue!Next]_(Queue!vars)
  OBVIOUS
<1>. USE ThreadPoolAssumption
<1>1. CASE Emplace
  <2>1. /\ tasks_queue' = Append(tasks_queue, submitted + 1) /\ submitted \in Nat
        /\ submitted + 1 \in Tasks /\ UNCHANGED <<task, finished>>
        /\ pc[Main] = "emplace" /\ pc'[Main] = "notifyOne"
    BY <1>1, EmplaceAppends
       DEF Emplace, TypeOK, PoolInv, MutexInv, Tasks, Goto, Threads
  <2>2. ASSUME NEW i \in DOMAIN tasks_queue PROVE tasks_queue[i] # submitted + 1
    <3>1. i \in 1 .. Len(tasks_queue) /\ Len(tasks_queue) \in Nat
      BY DEF TypeOK
    <3>2. tasks_queue[i] = started + i
      BY <3>1 DEF FifoInv
    <3>. QED BY <2>1, <3>1, <3>2 DEF started
  <2>3. submitted + 1 \notin finished
    BY <2>1 DEF FifoInv, started, TypeOK
  <2>4. ASSUME NEW w \in Workers PROVE task[w] # submitted + 1
    BY <2>1 DEF FifoInv, started, TypeOK
  <2>5. Queue!Submit(submitted + 1)
    BY <2>1, <2>2, <2>3, <2>4 DEF Queue!Submit, Queue!Waiting
  <2>. QED BY <2>1, <2>5 DEF Queue!Next
<1>2. ASSUME NEW w \in Workers, Pop(w) PROVE Queue!Next
  <2>1. /\ tasks_queue # << >> /\ Head(tasks_queue) = started + 1
        /\ tasks_queue' = Tail(tasks_queue)
        /\ task[w] = 0 /\ task' = [task EXCEPT ![w] = started + 1]
        /\ UNCHANGED finished /\ started \in Nat
    BY <1>2, PopTakes DEF FifoInv
  <2>2. active' = active \cup {started + 1}
    <3>1. \A v \in Workers : task'[v] = IF v = w THEN started + 1 ELSE task[v]
      BY <2>1 DEF TypeOK
    <3>2. started + 1 # 0
      BY <2>1
    <3>. QED BY <2>1, <3>1, <3>2 DEF active
  <2>3. (pc[Main] = "destroyed")' = (pc[Main] = "destroyed")
    BY <1>2 DEF Pop, Goto, TypeOK
  <2>4. Queue!Start
    BY <2>1, <2>2, <2>3 DEF Queue!Start, active
  <2>. QED BY <2>4 DEF Queue!Next
<1>3. ASSUME NEW w \in Workers, Run(w) PROVE Queue!Next
  <2>1. /\ task[w] \in Tasks /\ task[w] # 0 /\ UNCHANGED tasks_queue
        /\ finished' = finished \cup {task[w]}
        /\ \A v \in Workers : task'[v] = IF v = w THEN 0 ELSE task[v]
    BY <1>3 DEF Run, PoolInv, Labels, TypeOK
  <2>2. active' = active \ {task[w]} /\ task[w] \in active
    BY <2>1 DEF FifoInv, active
  <2>3. (pc[Main] = "destroyed")' = (pc[Main] = "destroyed")
    BY <1>3 DEF Run, Goto, TypeOK
  <2>4. PICK n \in Tasks : n = task[w]
    BY <2>1
  <2>5. Queue!Finish(n)
    BY <2>1, <2>2, <2>3, <2>4 DEF Queue!Finish, active
  <2>. QED BY <2>5 DEF Queue!Next
<1>4. CASE Join
  <2>1. /\ pc[Main] = "join" /\ pc'[Main] = "destroyed" /\ UNCHANGED <<tasks_queue, task, finished>>
        /\ \A w \in Workers : pc[w] = "exited"
    BY <1>4 DEF Join, Goto, TypeOK, Threads
  <2>2. tasks_queue = << >>
    BY <2>1 DEF PoolInv, NoLostWakeup
  <2>3. active = {}
    BY <2>1 DEF PoolInv, Labels, active
  <2>4. Queue!Vanish
    BY <2>1, <2>2, <2>3 DEF Queue!Vanish, active
  <2>. QED BY <2>4 DEF Queue!Next
<1>5. CASE /\ UNCHANGED <<tasks_queue, task, finished>>
           /\ (pc[Main] = "destroyed")' = (pc[Main] = "destroyed")
  BY <1>5 DEF Queue!vars
<1>6. ASSUME Submit \/ NotifyOne \/ Stop \/ NotifyAll
      PROVE  (pc[Main] = "destroyed")' = (pc[Main] = "destroyed")
  <2>1. CASE NotifyOne
    BY <2>1 DEF NotifyOne, wakeOne, Waiters, TypeOK, Threads
  <2>. QED BY <1>6, <2>1 DEF Submit, Stop, NotifyAll, Goto, TypeOK, Threads
<1>7. ASSUME NEW w \in Workers, Lock(w) \/ Sleep(w) \/ Spurious(w) \/ Exit(w)
      PROVE  (pc[Main] = "destroyed")' = (pc[Main] = "destroyed")
  <2>1. PICK l \in {"test", "sleep", "waiting", "lock", "exited"} :
           pc' = [pc EXCEPT ![w] = l]
    BY <1>7 DEF Lock, Sleep, Spurious, Exit, Goto
  <2>. QED BY <2>1 DEF TypeOK
<1>8. CASE Submit \/ NotifyOne \/ Stop \/ NotifyAll
  BY <1>5, <1>6, <1>8 DEF Submit, NotifyOne, Stop, NotifyAll
<1>9. ASSUME NEW w \in Workers, Lock(w) \/ Sleep(w) \/ Spurious(w) \/ Exit(w)
      PROVE  [Queue!Next]_(Queue!vars)
  BY <1>5, <1>7, <1>9 DEF Lock, Sleep, Spurious, Exit
<1>10. CASE UNCHANGED vars
  BY <1>5, <1>10 DEF vars
<1>. QED
  BY <1>1, <1>2, <1>3, <1>4, <1>8, <1>9, <1>10
     DEF Next, MainStep, WorkerStep, Destroyed

LEMMA FifoInvariant == Spec => []FifoInv
BY PoolInvariant, FifoInit, FifoNext, PTL DEF Spec

\* The pool runs each task once and in the order of submission, and all of them
\* before it is gone: the safety part of ImplementsTaskQueue.
THEOREM RunsAsQueue == Spec => Queue!Spec
BY PoolInvariant, FifoInvariant, QueueInit, QueueNext, PTL DEF Spec, Queue!Spec
==============================================================================
