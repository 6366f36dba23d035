---------------------------- MODULE ReactorProofs ----------------------------
(* Theorems about Reactor, for every value of its constants: its handlers,  *)
(* descriptors and timers, then its connections.                            *)
EXTENDS ReactorLife, FiniteSetTheorems, TLAPS

\* Which labels each thread uses, and when it works for a connection.
Labels ==
    /\ pc[Main] \in MainLabels \cup CloseLabels
    /\ \A w \in Workers : pc[w] \in WorkerLabels \cup CloseLabels
    /\ \A t \in Threads : job[t] = NoJob <=> pc[t] \in {"batch", "accept", "idle"}

\* Only open descriptors are registered.
Bound == \A fd \in Fds : fdTable[fd] = NoConn => epoll[fd] = "absent"

Typing == TypeOK /\ Labels /\ Bound

LEMMA RespondType ==
    ASSUME NEW u \in HttpConnect, NEW r \in RequestKinds
    PROVE  respond(u, r) \in HttpConnect
BY DEF respond, HttpConnect, RequestKinds

LEMMA WrittenType ==
    ASSUME NEW u \in HttpConnect, NEW all \in BOOLEAN
    PROVE  /\ written(u, all) \in HttpConnect
           /\ afterWrite(u) \in {"rearmOut", "process", "delFd"}
           /\ afterWrite(written(u, all)) \in {"rearmOut", "process", "delFd"}
BY DEF written, afterWrite, HttpConnect

LEMMA FilledType ==
    ASSUME NEW u \in HttpConnect, NEW some \in BOOLEAN
    PROVE  filled(u, some) \in HttpConnect /\ initConn(u) \in HttpConnect
BY DEF filled, initConn, HttpConnect

LEMMA TypingInit == Init => Typing
<1> SUFFICES ASSUME Init PROVE Typing
  OBVIOUS
<1>1. TypeOK
  <2>1. NewHttpConnect \in HttpConnect
    BY DEF NewHttpConnect, HttpConnect
  <2>2. users \in [Fds -> HttpConnect]
    BY <2>1 DEF Init
  <2>3. pc \in [Threads -> MainLabels \cup WorkerLabels \cup CloseLabels]
    BY DEF Init, MainLabels, WorkerLabels
  <2>4. job \in [Threads -> Events \cup {NoJob}]
    BY DEF Init
  <2>5. tasks_queue \in Seq(Events)
    BY DEF Init
  <2>6. /\ sock \in [Conns -> {"new", "backlog", "open", "closed"}]
        /\ fdTable \in [Fds -> Conns \cup {NoConn}]
        /\ epoll \in [Fds -> {"absent", "off", "in", "out"}]
    BY DEF Init
  <2>7. /\ gone \subseteq Conns /\ data \subseteq Conns /\ batch \subseteq Events
        /\ timers \subseteq Fds
    BY DEF Init
  <2>8. edge \in BOOLEAN /\ acceptDue \in BOOLEAN
    BY DEF Init
  <2>9. server \in {"running", "aborted", "killed"} /\ user_count \in Int
    BY DEF Init
  <2>10. overtaken \in BOOLEAN /\ refused \subseteq [fd : Fds, conn : Conns]
    BY DEF Init
  <2>. QED BY <2>2, <2>3, <2>4, <2>5, <2>6, <2>7, <2>8, <2>9, <2>10 DEF TypeOK
<1>2. Labels
  BY ReactorAssumption
     DEF Init, Labels, Threads, MainLabels, WorkerLabels, CloseLabels
<1>3. Bound
  BY DEF Init, Bound
<1>. QED BY <1>1, <1>2, <1>3 DEF Typing

LEMMA TypingClients == ASSUME Typing, Clients PROVE Typing'
BY DEF Typing, Clients, Connect, Send, Leave, TypeOK, Labels, Bound, heapVars,
       loopVars, threadVars, historyVars, kernelVars

LEMMA TypingMain == ASSUME Typing, MainStep PROVE Typing'
<1>. USE ReactorAssumption DEF Typing
<1>. USE DEF netVars, kernelVars, heapVars, loopVars, threadVars, historyVars, At, Goto, Threads,
             MainLabels, WorkerLabels, CloseLabels
<1>1. CASE EpollWait
  <2>. PICK writable \in SUBSET OutArmed :
          LET ready == HupReady \cup InReady \cup writable IN
          /\ batch' = Report(HupReady, "hup") \cup Report(InReady, "in")
                         \cup Report(writable, "out")
          /\ epoll' = [fd \in Fds |->
                           IF fd \in ready THEN reported(fd) ELSE epoll[fd]]
    BY <1>1 DEF EpollWait
  <2>1. ASSUME NEW fds \in SUBSET Fds, NEW k \in Kinds,
               \A fd \in fds : fdTable[fd] \in Conns
        PROVE  Report(fds, k) \subseteq Events
    BY <2>1 DEF Report, Events
  <2>2. HupReady \subseteq Fds /\ \A fd \in HupReady : fdTable[fd] \in Conns
    BY DEF HupReady, TypeOK
  <2>3. InReady \subseteq Fds /\ \A fd \in InReady : fdTable[fd] \in Conns
    BY DEF InReady, TypeOK
  <2>4. writable \subseteq Fds /\ \A fd \in writable : fdTable[fd] \in Conns
    BY DEF OutArmed, TypeOK, Bound
  <2>5. batch' \subseteq Events
    BY <2>1, <2>2, <2>3, <2>4 DEF Kinds
  <2>6. TypeOK'
    BY <1>1, <2>5 DEF EpollWait, TypeOK, reported, ListenReady
  <2>7. Bound'
    BY <1>1, <2>2, <2>3, <2>4, ReactorAssumption DEF EpollWait, Bound, TypeOK
  <2>8. Labels'
    BY <1>1 DEF EpollWait, Labels
  <2>. QED BY <2>6, <2>7, <2>8
<1>2. ASSUME NEW e \in batch, HandleReadWrite_(e) PROVE Typing'
  <2>1. Append(tasks_queue, e) \in Seq(Events)
    BY DEF TypeOK
  <2>2. tasks_queue' \in Seq(Events) /\ server' \in {"running", "aborted", "killed"}
    BY <1>2, <2>1 DEF HandleReadWrite_, TypeOK
  <2>. QED BY <1>2, <2>2 DEF HandleReadWrite_, TypeOK, Labels, Bound
<1>3. ASSUME NEW e \in batch, HandleHup(e) PROVE Typing'
  BY <1>3 DEF HandleHup, TypeOK, Labels, Bound
<1>4. CASE HandleListen_
  BY <1>4 DEF HandleListen_, TypeOK, Labels, Bound
<1>5. CASE AcceptFails
  BY <1>5 DEF AcceptFails, Ends, TypeOK, Labels, Bound
<1>6. CASE AcceptRefused
  BY <1>6 DEF AcceptRefused, Ends, TypeOK, Labels, Bound
<1>7. CASE Accept
  <2>1. PICK c \in Backlog, fd \in FreeFds :
          /\ sock' = [sock EXCEPT ![c] = "open"]
          /\ fdTable' = [fdTable EXCEPT ![fd] = c]
          /\ users' = [users EXCEPT ![fd] = initConn(users[fd])]
          /\ job' = [job EXCEPT ![Main] = [fd |-> fd, conn |-> c, kind |-> "new"]]
          /\ overtaken' = (overtaken \/ \E e \in Held : e.fd = fd)
    BY <1>7 DEF Accept
  <2>2. c \in Conns /\ fd \in Fds /\ [fd |-> fd, conn |-> c, kind |-> "new"] \in Events
    BY DEF Backlog, FreeFds, Events, Kinds
  <2>3. users' \in [Fds -> HttpConnect]
    BY <2>1, <2>2, FilledType DEF TypeOK
  <2>4. overtaken' \in BOOLEAN
    BY <2>1
  <2>5. TypeOK'
    BY <1>7, <2>1, <2>2, <2>3, <2>4 DEF Accept, TypeOK
  <2>6. Labels'
    BY <1>7, <2>1, <2>2 DEF Accept, TypeOK, Labels
  <2>7. Bound'
    BY <1>7, <2>1, <2>2 DEF Accept, TypeOK, Bound
  <2>. QED BY <2>5, <2>6, <2>7
<1>8. CASE AddFdFails
  <2>1. job[Main] \in Events
    BY <1>8 DEF AddFdFails, TypeOK, Labels
  <2>2. refused' \subseteq [fd : Fds, conn : Conns]
    BY <1>8, <2>1 DEF AddFdFails, TypeOK, Events
  <2>3. TypeOK'
    BY <1>8, <2>2 DEF AddFdFails, SysClose, Ends, Accepted, TypeOK
  <2>. QED BY <1>8, <2>3 DEF AddFdFails, SysClose, Ends, Accepted, TypeOK, Labels, Bound
<1>9. CASE AddFd
  BY <1>9 DEF AddFd, TypeOK, Labels, Bound
<1>10. CASE AddTimer
  BY <1>10 DEF AddTimer, add, Accepted, TypeOK, Labels, Bound, Events
<1>11. CASE RefuseSigpipe
  BY <1>11 DEF RefuseSigpipe, TypeOK, Labels, Bound
<1>. QED
  BY <1>1, <1>2, <1>3, <1>4, <1>5, <1>6, <1>7, <1>8, <1>9, <1>10, <1>11 DEF MainStep

LEMMA TypingWorker ==
    ASSUME Typing, NEW w \in Workers, WorkerStep(w) PROVE Typing'
<1>. USE ReactorAssumption DEF Typing
<1>. USE DEF netVars, kernelVars, heapVars, loopVars, threadVars, historyVars, At, Goto, Threads,
             MainLabels, WorkerLabels, CloseLabels
<1>1. CASE Take(w)
  <2>1. /\ Head(tasks_queue) \in Events
        /\ Tail(tasks_queue) \in Seq(Events)
    BY <1>1 DEF Take, TypeOK
  <2>. QED BY <1>1, <2>1 DEF Take, TypeOK, Labels, Bound
<1>2. CASE ReadFails(w)
  <2>1. users' \in [Fds -> HttpConnect]
    <3>1. job[w] \in Events
      BY <1>2 DEF ReadFails, TypeOK, Labels
    <3>2. users[job[w].fd] \in HttpConnect
      BY <3>1 DEF Events, TypeOK
    <3>3. filled(users[job[w].fd], FALSE) \in HttpConnect
      BY <3>2, FilledType
    <3>. QED BY <1>2, <3>3 DEF ReadFails, TypeOK
  <2>. QED BY <1>2, <2>1 DEF ReadFails, TypeOK, Labels, Bound
<1>3. CASE Read(w)
  <2>1. users' \in [Fds -> HttpConnect]
    <3>1. job[w] \in Events
      BY <1>3 DEF Read, TypeOK, Labels
    <3>2. users[job[w].fd] \in HttpConnect
      BY <3>1 DEF Events, TypeOK
    <3>3. ASSUME NEW some \in BOOLEAN
          PROVE  filled(users[job[w].fd], some) \in HttpConnect
      BY <3>2, FilledType
    <3>4. (fdTable[job[w].fd] \in data) \in BOOLEAN
      OBVIOUS
    <3>5. filled(users[job[w].fd], fdTable[job[w].fd] \in data) \in HttpConnect
      BY <3>3, <3>4
    <3>. QED BY <1>3, <3>5 DEF Read, TypeOK
  <2>. QED BY <1>3, <2>1 DEF Read, TypeOK, Labels, Bound
<1>4. CASE ProcessNothing(w)
  BY <1>4 DEF ProcessNothing, TypeOK, Labels, Bound
<1>5. CASE Process(w)
  <2>1. users' \in [Fds -> HttpConnect]
    <3>1. job[w] \in Events
      BY <1>5 DEF Process, TypeOK, Labels
    <3>2. users[job[w].fd] \in HttpConnect
      BY <3>1 DEF Events, TypeOK
    <3>3. PICK r \in Requests :
             users' = [users EXCEPT ![job[w].fd] = respond(@, r)]
      BY <1>5 DEF Process
    <3>4. respond(users[job[w].fd], r) \in HttpConnect
      BY <3>2, RespondType
    <3>. QED BY <3>3, <3>4 DEF TypeOK
  <2>. QED BY <1>5, <2>1 DEF Process, TypeOK, Labels, Bound
<1>6. CASE Rearm(w)
  BY <1>6 DEF Rearm, mod_fd, Done, TypeOK, Labels, Bound
<1>7. CASE WriteNothing(w)
  <2>1. afterWrite(users[job[w].fd]) \in {"rearmOut", "process", "delFd"}
    BY DEF afterWrite
  <2>. QED BY <1>7, <2>1 DEF WriteNothing, TypeOK, Labels, Bound
<1>8. CASE Write(w)
  <2>1. PICK all \in BOOLEAN :
          /\ users' = [users EXCEPT ![job[w].fd] = written(@, all)]
          /\ Goto(w, afterWrite(written(users[job[w].fd], all)))
    BY <1>8 DEF Write
  <2>2. users' \in [Fds -> HttpConnect]
    BY <2>1, WrittenType DEF TypeOK
  <2>3. afterWrite(written(users[job[w].fd], all)) \in {"rearmOut", "process", "delFd"}
    BY DEF afterWrite
  <2>. QED BY <1>8, <2>1, <2>2, <2>3 DEF Write, TypeOK, Labels, Bound
<1>9. CASE WriteFails(w)
  BY <1>9 DEF WriteFails, TypeOK, Labels, Bound
<1>10. CASE WriteSigpipe(w)
  BY <1>10 DEF WriteSigpipe, TypeOK, Labels, Bound
<1>. QED
  BY <1>1, <1>2, <1>3, <1>4, <1>5, <1>6, <1>7, <1>8, <1>9, <1>10 DEF WorkerStep

LEMMA TypingClose ==
    ASSUME Typing, NEW t \in Threads, CloseStep(t) PROVE Typing'
<1>. USE ReactorAssumption DEF Typing
<1>. USE DEF netVars, kernelVars, heapVars, loopVars, threadVars, historyVars, At, Goto, Threads,
             MainLabels, WorkerLabels, CloseLabels
<1>1. CASE DelFd(t)
  BY <1>1 DEF DelFd, TypeOK, Labels, Bound
<1>2. CASE DelTimer(t)
  BY <1>2 DEF DelTimer, do_work, TypeOK, Labels, Bound
<1>3. CASE CloseLoad(t)
  BY <1>3 DEF CloseLoad, Done, TypeOK, Labels, Bound
<1>4. CASE CloseStop(t)
  <2>0. job[t] \in Events
    BY <1>4 DEF CloseStop, TypeOK, Labels
  <2>1. users[job[t].fd] \in HttpConnect
    BY <2>0 DEF TypeOK, Events
  <2>2. [users[job[t].fd] EXCEPT !.is_running = FALSE] \in HttpConnect
    BY <2>1 DEF HttpConnect
  <2>3. users' = [users EXCEPT ![job[t].fd] = [users[job[t].fd] EXCEPT !.is_running = FALSE]]
    BY <1>4 DEF CloseStop, stopped
  <2>4. users' \in [Fds -> HttpConnect]
    BY <2>2, <2>3 DEF TypeOK
  <2>5. pc' \in {[pc EXCEPT ![t] = "closeCount"], [pc EXCEPT ![t] = "failCount"]}
    BY <1>4 DEF CloseStop
  <2>. QED BY <1>4, <2>4, <2>5 DEF CloseStop, TypeOK, Labels, Bound
<1>5. CASE CloseCount(t)
  BY <1>5 DEF CloseCount, countLowered, TypeOK, Labels, Bound
<1>6. CASE CloseFd(t)
  <2>1. /\ sock' \in [Conns -> {"new", "backlog", "open", "closed"}]
        /\ gone' \subseteq Conns /\ data' \subseteq Conns
        /\ fdTable' \in [Fds -> Conns \cup {NoConn}]
        /\ epoll' \in [Fds -> {"absent", "off", "in", "out"}]
        /\ Bound'
    BY <1>6 DEF CloseFd, SysClose, Ends, TypeOK, Bound
  <2>2. /\ \/ pc' = [pc EXCEPT ![t] = IF t = Main THEN "batch" ELSE "idle"]
              /\ job' = [job EXCEPT ![t] = NoJob]
           \/ pc' = [pc EXCEPT ![t] = "delFd"] /\ job' = job
        /\ pc[t] \in {"closeFd", "failFd"}
    BY <1>6 DEF CloseFd, Done
  <2>3. Labels'
    BY <2>2 DEF TypeOK, Labels
  <2>4. TypeOK'
    BY <1>6, <2>1, <2>2 DEF CloseFd, TypeOK
  <2>. QED BY <2>1, <2>3, <2>4
<1>. QED BY <1>1, <1>2, <1>3, <1>4, <1>5, <1>6 DEF CloseStep

LEMMA TypingStutter == ASSUME Typing, UNCHANGED vars PROVE Typing'
BY DEF Typing, TypeOK, Labels, Bound, vars, netVars, kernelVars, heapVars, loopVars,
       threadVars, historyVars

LEMMA TypingInvariant == Spec => []Typing
<1>1. Typing /\ [Next]_vars => Typing'
  BY TypingClients, TypingMain, TypingWorker, TypingClose, TypingStutter DEF Next
<1>. QED BY TypingInit, <1>1, PTL DEF Spec

\* The variables keep their types (Reactor!TypeOK), whatever clients, threads
\* and the kernel do.
THEOREM TypeCorrect == Spec => []TypeOK
BY TypingInvariant, PTL DEF Typing

-----------------------------------------------------------------------------
(* The serialisation of handlers.  A thread whose writev failed closes the  *)
(* descriptor and then runs CloseConn_ on its number.  Nothing below        *)
(* excludes that: what is proved of the handlers holds until accept returns *)
(* a number that such a thread still uses (overtaken).                      *)

\* A reported event that nobody has begun to handle, or a handler before
\* CloseConn_: the descriptor is disarmed and has its timer.
Reported(fd) == epoll[fd] = "off" /\ (TimeoutOn => fd \in timers)

\* The labels of a handler before it removes the descriptor, after it did (or
\* before it adds it), and between is_running_ = false and close(2).
HandlingLabels == {"read", "process", "rearmIn", "rearmOut", "write",
                   "failLoad", "failStop", "failCount", "failFd"}
ClosingLabels  == {"addEpoll", "closeLoad", "closeStop", "closeCount", "closeFd"}
StoppedLabels  == {"closeCount", "closeFd", "failCount", "failFd"}

\* A thread in CloseConn_ whose failed write has closed the descriptor: its
\* HttpConnect does not run, so that nothing will be closed again.
Left(t) == /\ fdTable[job[t].fd] = NoConn
           /\ pc[t] \in {"delFd", "delTimer", "closeLoad"}
           /\ ~users[job[t].fd].is_running

\* What the connection of a held event is.
Fresh ==
    /\ \A e \in batch \cup Tasks : fdTable[e.fd] = e.conn
    /\ \A t \in Threads :
          job[t] # NoJob => fdTable[job[t].fd] = job[t].conn \/ Left(t)

\* What thread t may rely on at each step of its handler.
HandlerAt(t) ==
    /\ pc[t] \in HandlingLabels => Reported(job[t].fd)
    /\ pc[t] = "delFd" => Reported(job[t].fd) \/ fdTable[job[t].fd] = NoConn
    /\ pc[t] = "delTimer" => epoll[job[t].fd] = "absent"
    /\ pc[t] \in ClosingLabels =>
          epoll[job[t].fd] = "absent" /\ job[t].fd \notin timers
    /\ pc[t] = "addTimer" => epoll[job[t].fd] = "in"
    /\ pc[t] \in StoppedLabels => ~users[job[t].fd].is_running

\* What a held event says of its descriptor.
HolderInv ==
    /\ \A e \in batch : Reported(e.fd)
    /\ \A i \in DOMAIN tasks_queue : Reported(tasks_queue[i].fd)
    /\ \A t \in Threads : HandlerAt(t)

\* Who is between the two steps that add or remove a registration and a timer.
Adding(fd)   == pc[Main] = "addTimer" /\ job[Main].fd = fd
Removing(fd) ==
    \E t \in Threads :
        /\ job[t] # NoJob /\ job[t].fd = fd
        /\ \/ pc[t] = "delTimer"
           \/ pc[t] = "delFd" /\ fdTable[fd] = NoConn

TimerAt(fd) ==
    /\ epoll[fd] # "absent" => (TimeoutOn => fd \in timers) \/ Adding(fd)
    /\ fd \in timers => TimeoutOn /\ (epoll[fd] # "absent" \/ Removing(fd))

TimerInv == \A fd \in Fds : TimerAt(fd)

HandlerInv == Exclusive /\ Fresh /\ HolderInv /\ TimerInv /\ NoAbort

LEMMA HandlerInit == Init => HandlerInv
<1> SUFFICES ASSUME Init PROVE HandlerInv
  OBVIOUS
<1>. USE ReactorAssumption DEF Init
<1>1. Exclusive
  BY DEF Exclusive, Held, Tasks, Jobs, Threads
<1>2. Fresh
  BY DEF Fresh, Tasks, Threads
<1>3. HolderInv
  BY DEF HolderInv, HandlerAt, Reported, HandlingLabels, ClosingLabels,
         StoppedLabels, Threads
<1>4. TimerInv
  BY DEF TimerInv, TimerAt
<1>5. NoAbort
  BY DEF NoAbort
<1>. QED BY <1>1, <1>2, <1>3, <1>4, <1>5 DEF HandlerInv

LEMMA HeldType == Typing => \A e \in Held : e \in Events /\ e.fd \in Fds
<1> SUFFICES ASSUME Typing PROVE Held \subseteq Events
  BY DEF Events
<1>1. \A i \in DOMAIN tasks_queue : tasks_queue[i] \in Events
  BY DEF Typing, TypeOK
<1>2. Tasks \subseteq Events
  BY <1>1 DEF Tasks
<1>3. \A t \in Threads : job[t] \in Events \cup {NoJob}
  BY DEF Typing, TypeOK
<1>4. Jobs \subseteq Events
  BY <1>3 DEF Jobs
<1>. QED BY <1>2, <1>4 DEF Held, Typing, TypeOK

\* A thread that works for a connection has its descriptor to itself.
LEMMA JobFacts ==
    ASSUME Typing, HandlerInv, NEW t \in Threads, job[t] # NoJob
    PROVE  /\ job[t] \in Events /\ job[t].fd \in Fds /\ job[t].conn \in Conns
           /\ fdTable[job[t].fd] = job[t].conn \/ Left(t)
           /\ \A e \in batch : e.fd # job[t].fd
           /\ \A i \in DOMAIN tasks_queue : tasks_queue[i].fd # job[t].fd
           /\ \A u \in Threads : u # t /\ job[u] # NoJob => job[u].fd # job[t].fd
<1>1. job[t] \in Events
  BY DEF Typing, TypeOK
<1>. QED BY <1>1 DEF Events, HandlerInv, Exclusive, Fresh

\* Until CloseConn_ its descriptor stands for its connection.
LEMMA JobConn ==
    ASSUME Typing, HandlerInv, NEW t \in Threads, job[t] # NoJob,
           pc[t] \notin {"delFd", "delTimer", "closeLoad"}
    PROVE  fdTable[job[t].fd] = job[t].conn /\ fdTable[job[t].fd] \in Conns
BY JobFacts DEF Left

\* Steps that touch no descriptor and no event.
LEMMA HandlerElsewhere ==
    ASSUME Typing, HandlerInv,
           UNCHANGED <<fdTable, epoll, users, timers, batch, tasks_queue, job>>,
           server' # "aborted",
           \A t \in Threads : \/ pc'[t] = pc[t]
                              \/ job[t] = NoJob /\ pc'[t] \in {"batch", "accept"},
           pc'[Main] = pc[Main] \/ job[Main] = NoJob
    PROVE  HandlerInv'
<1>. USE DEF HandlerInv
<1>1. Held' = Held /\ Tasks' = Tasks
  BY DEF Held, Tasks, Jobs
<1>2. job[Main] = NoJob => pc[Main] # "addTimer"
  BY DEF Typing, Labels, Threads
<1>3. Exclusive'
  BY <1>1, <1>2 DEF Exclusive
<1>4. Fresh'
  BY <1>1 DEF Fresh, Left
<1>5. HolderInv'
  BY DEF HolderInv, HandlerAt, Reported, HandlingLabels, ClosingLabels, StoppedLabels
<1>6. TimerInv'
  <2>1. ASSUME NEW fd PROVE Removing(fd) => Removing(fd)'
    BY DEF Removing
  <2>2. ASSUME NEW fd PROVE Adding(fd) => Adding(fd)'
    BY <1>2 DEF Adding
  <2>. QED BY <2>1, <2>2 DEF TimerInv, TimerAt
<1>7. NoAbort'
  BY DEF NoAbort
<1>. QED BY <1>3, <1>4, <1>5, <1>6, <1>7

\* Steps of thread t that touch the descriptor of its job only, and the job only
\* to drop it: what the other holders rely on stays.
LEMMA HandlerStep ==
    ASSUME Typing, HandlerInv, NEW t \in Threads, job[t] # NoJob,
           NEW f \in Fds, f = job[t].fd,
           UNCHANGED <<batch, tasks_queue>>, server' # "aborted",
           job' = job \/ job' = [job EXCEPT ![t] = NoJob],
           \A u \in Threads : u # t => pc'[u] = pc[u],
           \A fd \in Fds : fd # f =>
               /\ fdTable'[fd] = fdTable[fd] /\ epoll'[fd] = epoll[fd]
               /\ users'[fd] = users[fd] /\ (fd \in timers' <=> fd \in timers),
           job'[t] # NoJob =>
               /\ fdTable'[f] = job[t].conn \/ Left(t)'
               /\ epoll'[f] \in {"in", "out"} => pc'[Main] = "addTimer",
           HandlerAt(t)', TimerAt(f)'
    PROVE  HandlerInv'
<1>. USE DEF HandlerInv
<1>1. /\ f \in Fds /\ \A e \in batch : e.fd # f
      /\ \A i \in DOMAIN tasks_queue : tasks_queue[i].fd # f
      /\ \A u \in Threads : u # t /\ job[u] # NoJob => job[u].fd # f
  BY JobFacts
<1>2. \A u \in Threads : u # t => job'[u] = job[u]
  BY DEF Typing, TypeOK
<1>3. job'[t] = job[t] \/ job'[t] = NoJob
  BY DEF Typing, TypeOK
<1>4. /\ \A e \in batch : e.fd \in Fds
      /\ \A i \in DOMAIN tasks_queue : tasks_queue[i].fd \in Fds
      /\ \A u \in Threads : job[u] # NoJob => job[u].fd \in Fds
  BY HeldType DEF Held, Tasks, Jobs
<1>5. \A e \in batch : Reported(e.fd)'
  BY <1>1, <1>4 DEF HolderInv, Reported
<1>6. \A i \in DOMAIN tasks_queue : Reported(tasks_queue[i].fd)'
  BY <1>1, <1>4 DEF HolderInv, Reported
<1>7. ASSUME NEW u \in Threads, u # t PROVE HandlerAt(u)'
  <2>1. CASE job[u] = NoJob
    <3>1. pc'[u] \in {"batch", "accept", "idle"}
      BY <1>7, <2>1 DEF Typing, Labels
    <3>. QED BY <3>1 DEF HandlerAt, HandlingLabels, ClosingLabels, StoppedLabels
  <2>2. CASE job[u] # NoJob
    <3>1. job[u].fd # f /\ job[u].fd \in Fds /\ job'[u] = job[u]
      BY <1>1, <1>2, <1>4, <1>7, <2>2
    <3>2. HandlerAt(u) /\ pc'[u] = pc[u]
      BY <1>7 DEF HolderInv
    <3>. QED BY <3>1, <3>2 DEF HandlerAt, Reported
  <2>. QED BY <2>1, <2>2
<1>8. HolderInv'
  BY <1>5, <1>6, <1>7 DEF HolderInv
<1>9. Fresh'
  <2>1. \A e \in batch : fdTable'[e.fd] = e.conn
    BY <1>1, <1>4 DEF Fresh
  <2>2. \A i \in DOMAIN tasks_queue : tasks_queue[i] \in Tasks
    BY DEF Tasks
  <2>3. \A i \in DOMAIN tasks_queue : fdTable'[tasks_queue[i].fd] = tasks_queue[i].conn
    BY <1>1, <1>4, <2>2 DEF Fresh
  <2>4. ASSUME NEW u \in Threads, job'[u] # NoJob
        PROVE  fdTable'[job'[u].fd] = job'[u].conn \/ Left(u)'
    <3>1. CASE u = t
      BY <1>3, <2>4, <3>1
    <3>2. CASE u # t
      <4>1. job'[u] = job[u] /\ pc'[u] = pc[u] /\ job[u].fd # f /\ job[u].fd \in Fds
        BY <1>1, <1>2, <1>4, <2>4, <3>2
      <4>2. fdTable[job[u].fd] = job[u].conn \/ Left(u)
        BY <2>4, <4>1 DEF Fresh
      <4>. QED BY <4>1, <4>2 DEF Left
    <3>. QED BY <3>1, <3>2
  <2>. QED BY <2>1, <2>3, <2>4 DEF Fresh, Tasks
<1>10. Exclusive'
  <2>1. ASSUME NEW e \in Held', epoll'[e.fd] \in {"in", "out"}
        PROVE  pc'[Main] = "addTimer"
    <3>1. CASE e \in batch
      BY <1>5, <2>1, <3>1 DEF Reported
    <3>2. ASSUME NEW i \in DOMAIN tasks_queue, e = tasks_queue[i]
          PROVE  pc'[Main] = "addTimer"
      BY <1>6, <2>1, <3>2 DEF Reported
    <3>3. ASSUME NEW u \in Threads, job'[u] # NoJob, e = job'[u]
          PROVE  pc'[Main] = "addTimer"
      <4>1. CASE u = t
        BY <1>3, <2>1, <3>3, <4>1
      <4>2. CASE u # t
        <5>1. /\ job'[u] = job[u] /\ pc'[u] = pc[u] /\ job[u].fd \in Fds
              /\ epoll'[job[u].fd] = epoll[job[u].fd] /\ job[u] \in Held
          BY <1>1, <1>2, <1>4, <3>3, <4>2 DEF Held, Jobs
        <5>2. pc[Main] = "addTimer"
          BY <2>1, <3>3, <5>1 DEF Exclusive
        <5>3. CASE u = Main
          BY <4>2, <5>1, <5>2, <5>3
        <5>4. CASE u # Main
          \* Only the main thread holds an armed descriptor.
          <6>1. HandlerAt(u) /\ epoll[job[u].fd] \in {"in", "out"} /\ u \in Workers
            BY <2>1, <3>3, <5>1, <5>4 DEF HolderInv, Threads
          <6>2. pc[u] \in HandlingLabels \cup ClosingLabels \cup {"delFd", "delTimer"}
            BY <3>3, <5>1, <6>1 DEF Typing, Labels, WorkerLabels, CloseLabels,
                                    HandlingLabels, ClosingLabels, Threads
          <6>. QED BY <5>1, <6>1, <6>2 DEF HandlerAt, Reported, Typing, Bound
        <5>. QED BY <5>3, <5>4
      <4>. QED BY <4>1, <4>2
    <3>. QED BY <3>1, <3>2, <3>3 DEF Held, Tasks, Jobs
  <2>2. \A u, v \in Threads :
           job'[u] # NoJob /\ job'[v] # NoJob /\ job'[u].fd = job'[v].fd => u = v
    BY <1>2, <1>3 DEF Exclusive
  <2>3. /\ \A d \in batch, u \in Threads : job'[u] # NoJob => d.fd # job'[u].fd
        /\ \A i \in DOMAIN tasks_queue, u \in Threads :
              job'[u] # NoJob => tasks_queue[i].fd # job'[u].fd
    BY <1>2, <1>3 DEF Exclusive
  <2>. QED BY <2>1, <2>2, <2>3 DEF Exclusive
<1>11. ASSUME NEW fd \in Fds PROVE TimerAt(fd)'
  <2>1. CASE fd = f
    BY <2>1
  <2>2. CASE fd # f
    <3>1. Adding(fd) => Adding(fd)'
      <4>1. Adding(fd) => job[Main] # NoJob
        BY DEF Adding, Typing, Labels, Threads
      <4>2. Main \in Threads
        BY DEF Threads
      <4>. QED BY <1>2, <2>2, <4>1, <4>2 DEF Adding
    <3>2. ASSUME Removing(fd) PROVE Removing(fd)'
      <4>1. PICK u \in Threads :
              /\ job[u] # NoJob /\ job[u].fd = fd
              /\ \/ pc[u] = "delTimer"
                 \/ pc[u] = "delFd" /\ fdTable[fd] = NoConn
        BY <3>2 DEF Removing
      <4>2. u # t
        BY <2>2, <4>1
      <4>. QED BY <1>2, <2>2, <4>1, <4>2 DEF Removing
    <3>. QED BY <2>2, <3>1, <3>2 DEF TimerInv, TimerAt
  <2>. QED BY <2>1, <2>2
<1>12. TimerInv'
  BY <1>11 DEF TimerInv
<1>13. NoAbort'
  BY DEF NoAbort
<1>. QED BY <1>8, <1>9, <1>10, <1>12, <1>13

LEMMA HandlerClients ==
    ASSUME Typing, HandlerInv, Clients PROVE HandlerInv'
<1>1. /\ UNCHANGED <<fdTable, epoll, users, timers, batch, tasks_queue, job, pc>>
      /\ server' = server
  BY DEF Clients, Connect, Send, Leave, heapVars, loopVars, threadVars, kernelVars
<1>2. server # "aborted"
  BY DEF HandlerInv, NoAbort
<1>. QED BY <1>1, <1>2, HandlerElsewhere

LEMMA HandlerWorker ==
    ASSUME Typing, HandlerInv, NEW w \in Workers, WorkerStep(w)
    PROVE  HandlerInv'
<1>. USE ReactorAssumption
<1>. USE DEF netVars, kernelVars, heapVars, loopVars, threadVars, historyVars, At, Goto
<1>0. w \in Threads /\ w # Main
  BY DEF Threads
<1>1. CASE Take(w)
  <2>. USE DEF Typing, TypeOK, Labels, Bound, HandlerInv, Threads
  <2>1. Exclusive'
    BY <1>1 DEF Take, Exclusive, Held, Tasks, Jobs
  <2>2. Fresh'
    <3>1. tasks_queue \in Seq(Events) /\ tasks_queue # << >> /\ Head(tasks_queue) \in Events
      BY <1>1 DEF Take
    <3>2. \A i \in DOMAIN Tail(tasks_queue) : Tail(tasks_queue)[i] \in Tasks
      BY <3>1 DEF Tasks
    <3>3. Tasks' \subseteq Tasks /\ batch' = batch /\ Head(tasks_queue) \in Tasks
      BY <1>1, <3>1, <3>2 DEF Take, Tasks
    <3>4. \A e \in (batch \cup Tasks)' : fdTable'[e.fd] = e.conn
      BY <1>1, <3>3 DEF Take, Fresh
    <3>5. \A t \in Threads : job'[t] # NoJob => fdTable'[job'[t].fd] = job'[t].conn \/ Left(t)'
      BY <1>1, <3>3 DEF Take, Fresh, Left
    <3>. QED BY <3>4, <3>5 DEF Fresh
  <2>3. HolderInv'
    <3>1. /\ \A e \in batch' : Reported(e.fd)'
          /\ \A i \in DOMAIN tasks_queue' : Reported(tasks_queue[i].fd)'
      BY <1>1 DEF Take, HolderInv, Reported
    <3>2. HandlerAt(w)'
      BY <1>1 DEF Take, HolderInv, HandlerAt, Reported, HandlingLabels, ClosingLabels,
                  StoppedLabels
    <3>3. ASSUME NEW t \in Threads, t # w PROVE HandlerAt(t)'
      BY <1>1, <3>3 DEF Take, HolderInv, HandlerAt, Reported
    <3>. QED BY <3>1, <3>2, <3>3 DEF HolderInv
  <2>4. TimerInv'
    BY <1>1 DEF Take, TimerInv, TimerAt, Adding, Removing
  <2>5. NoAbort'
    BY <1>1 DEF Take, NoAbort
  <2>. QED BY <2>1, <2>2, <2>3, <2>4, <2>5
<1>2. ASSUME pc[w] # "idle"
      PROVE  /\ job[w] # NoJob /\ job[w].fd \in Fds /\ HandlerAt(w)
             /\ pc[w] \notin {"delFd", "delTimer", "closeLoad"} =>
                   fdTable[job[w].fd] = job[w].conn
             /\ TimerAt(job[w].fd) /\ server # "aborted"
  <2>1. job[w] # NoJob
    BY <1>0, <1>2 DEF Typing, Labels, WorkerLabels, CloseLabels
  <2>. QED BY <1>0, <2>1, JobFacts, JobConn DEF HandlerInv, HolderInv, TimerInv, NoAbort
\* Most steps of a worker change its HttpConnect and its label only.
<1>3. ASSUME UNCHANGED <<fdTable, epoll, timers, batch, tasks_queue, job>>,
             server' = server \/ server' = "killed",
             pc[w] \in HandlingLabels \ StoppedLabels,
             pc' = [pc EXCEPT ![w] = pc'[w]],
             pc'[w] \in (HandlingLabels \ StoppedLabels) \cup {"delFd"},
             \A fd \in Fds : fd # job[w].fd => users'[fd] = users[fd]
      PROVE  HandlerInv'
  <2>1. pc[w] # "idle"
    BY <1>3 DEF HandlingLabels
  <2>2. \A u \in Threads : u # w => pc'[u] = pc[u]
    BY <1>3 DEF Typing, TypeOK
  <2>3. pc[w] \notin {"delFd", "delTimer", "closeLoad"}
    BY <1>3 DEF HandlingLabels
  <2>4. HandlerAt(w)'
    BY <1>2, <1>3, <2>1 DEF HandlerAt, Reported, HandlingLabels, ClosingLabels, StoppedLabels
  <2>5. epoll[job[w].fd] = "off"
    BY <1>2, <1>3, <2>1 DEF HandlerAt, Reported
  <2>6. PICK f \in Fds : f = job[w].fd
    BY <1>2, <2>1
  <2>7. TimerAt(f)'
    BY <1>0, <1>2, <1>3, <2>1, <2>2, <2>5, <2>6, ReactorAssumption DEF TimerAt, Adding, Threads
  <2>8. server' # "aborted"
    BY <1>2, <1>3, <2>1
  <2>. QED BY <1>0, <1>2, <1>3, <2>1, <2>2, <2>3, <2>4, <2>5, <2>6, <2>7, <2>8, HandlerStep
<1>4. ASSUME NEW l, pc' = [pc EXCEPT ![w] = l] PROVE pc'[w] = l /\ pc' = [pc EXCEPT ![w] = pc'[w]]
  BY <1>0, <1>4 DEF Typing, TypeOK
<1>5. ASSUME NEW v, users' = [users EXCEPT ![job[w].fd] = v]
      PROVE  \A fd \in Fds : fd # job[w].fd => users'[fd] = users[fd]
  BY <1>5 DEF Typing, TypeOK
<1>6. CASE ReadFails(w)
  <2>1. /\ UNCHANGED <<fdTable, epoll, timers, batch, tasks_queue, job, server>>
        /\ pc[w] = "read" /\ pc' = [pc EXCEPT ![w] = "delFd"]
        /\ users' = users \/ \E v : users' = [users EXCEPT ![job[w].fd] = v]
    BY <1>6 DEF ReadFails
  <2>. QED BY <1>3, <1>4, <1>5, <2>1 DEF HandlingLabels, StoppedLabels
<1>7. CASE Read(w)
  <2>1. /\ UNCHANGED <<fdTable, epoll, timers, batch, tasks_queue, job, server>>
        /\ pc[w] = "read" /\ pc' = [pc EXCEPT ![w] = "process"]
        /\ \E v : users' = [users EXCEPT ![job[w].fd] = v]
    BY <1>7 DEF Read
  <2>. QED BY <1>3, <1>4, <1>5, <2>1 DEF HandlingLabels, StoppedLabels
<1>8. CASE ProcessNothing(w)
  <2>1. /\ UNCHANGED <<fdTable, epoll, timers, batch, tasks_queue, job, server, users>>
        /\ pc[w] = "process" /\ pc' = [pc EXCEPT ![w] = "rearmIn"]
    BY <1>8 DEF ProcessNothing
  <2>. QED BY <1>3, <1>4, <2>1 DEF HandlingLabels, StoppedLabels
<1>9. CASE Process(w)
  <2>1. /\ UNCHANGED <<fdTable, epoll, timers, batch, tasks_queue, job, server>>
        /\ pc[w] = "process"
        /\ \E l \in {"rearmIn", "rearmOut"} : pc' = [pc EXCEPT ![w] = l]
        /\ \E v : users' = [users EXCEPT ![job[w].fd] = v]
    BY <1>9 DEF Process
  <2>. QED BY <1>3, <1>4, <1>5, <2>1 DEF HandlingLabels, StoppedLabels
<1>10. CASE WriteNothing(w)
  <2>1. /\ UNCHANGED <<fdTable, epoll, timers, batch, tasks_queue, job, server, users>>
        /\ pc[w] = "write"
        /\ \E l \in {"rearmOut", "process", "delFd"} : pc' = [pc EXCEPT ![w] = l]
    BY <1>10 DEF WriteNothing, afterWrite
  <2>. QED BY <1>3, <1>4, <2>1 DEF HandlingLabels, StoppedLabels
<1>11. CASE Write(w)
  <2>1. /\ UNCHANGED <<fdTable, epoll, timers, batch, tasks_queue, job, server>>
        /\ pc[w] = "write"
        /\ \E all : /\ users' = [users EXCEPT ![job[w].fd] = written(@, all)]
                    /\ pc' = [pc EXCEPT ![w] = afterWrite(written(users[job[w].fd], all))]
    BY <1>11 DEF Write
  <2>2. \E l \in {"rearmOut", "process", "delFd"} : pc' = [pc EXCEPT ![w] = l]
    BY <2>1 DEF afterWrite
  <2>. QED BY <1>3, <1>4, <1>5, <2>1, <2>2 DEF HandlingLabels, StoppedLabels
<1>12. CASE WriteFails(w)
  <2>1. /\ UNCHANGED <<fdTable, epoll, timers, batch, tasks_queue, job, server, users>>
        /\ pc[w] = "write" /\ pc' = [pc EXCEPT ![w] = "failLoad"]
    BY <1>12 DEF WriteFails
  <2>. QED BY <1>3, <1>4, <2>1 DEF HandlingLabels, StoppedLabels
<1>13. CASE WriteSigpipe(w)
  <2>1. /\ UNCHANGED <<fdTable, epoll, timers, batch, tasks_queue, job, users, pc>>
        /\ pc[w] = "write" /\ server' = "killed"
    BY <1>13 DEF WriteSigpipe
  <2>2. pc' = [pc EXCEPT ![w] = pc'[w]]
    BY <1>0, <2>1 DEF Typing, TypeOK
  <2>. QED BY <1>3, <2>1, <2>2 DEF HandlingLabels, StoppedLabels
<1>14. CASE Rearm(w)
  <2>1. /\ UNCHANGED <<fdTable, timers, batch, tasks_queue, users, server>>
        /\ pc[w] \in {"rearmIn", "rearmOut"} /\ pc' = [pc EXCEPT ![w] = "idle"]
        /\ job' = [job EXCEPT ![w] = NoJob]
        /\ mod_fd(job[w].fd, IF pc[w] = "rearmIn" THEN "in" ELSE "out")
    BY <1>0, <1>14 DEF Rearm, Done
  <2>2. PICK f \in Fds : f = job[w].fd
    BY <1>2, <2>1
  <2>3. Reported(f) /\ TimerAt(f) /\ job[w] # NoJob /\ server # "aborted"
    BY <1>2, <2>1, <2>2 DEF HandlerAt, HandlingLabels
  <2>4. /\ pc'[w] = "idle" /\ \A u \in Threads : u # w => pc'[u] = pc[u]
        /\ job'[w] = NoJob
        /\ \A fd \in Fds : fd # f => epoll'[fd] = epoll[fd]
        /\ epoll'[f] \in {"in", "out"}
    BY <1>0, <2>1, <2>2, <2>3 DEF mod_fd, Typing, TypeOK, Reported
  <2>5. HandlerAt(w)'
    BY <2>4 DEF HandlerAt, HandlingLabels, ClosingLabels, StoppedLabels
  <2>6. TimerAt(f)'
    BY <2>1, <2>3, <2>4 DEF TimerAt, Reported
  <2>. QED BY <1>0, <2>1, <2>2, <2>3, <2>4, <2>5, <2>6, HandlerStep
<1>. QED
  BY <1>1, <1>6, <1>7, <1>8, <1>9, <1>10, <1>11, <1>12, <1>13, <1>14 DEF WorkerStep

LEMMA HandlerClose ==
    ASSUME Typing, HandlerInv, NEW t \in Threads, CloseStep(t)
    PROVE  HandlerInv'
<1>. USE ReactorAssumption
<1>. USE DEF netVars, kernelVars, heapVars, loopVars, threadVars, historyVars, At, Goto
<1>0. pc[t] \in CloseLabels \cup {"failLoad", "failStop", "failCount", "failFd"}
  BY DEF CloseStep, DelFd, DelTimer, CloseLoad, CloseStop, CloseCount, CloseFd, CloseLabels
<1>1. job[t] # NoJob
  BY <1>0 DEF Typing, Labels, CloseLabels
<1>2. PICK f \in Fds : f = job[t].fd
  BY <1>1, JobFacts
<1>3. /\ HandlerAt(t) /\ TimerAt(f) /\ server # "aborted"
      /\ epoll[f] \in {"in", "out"} => pc[Main] = "addTimer"
      /\ fdTable[f] = job[t].conn \/ Left(t)
      /\ pc[t] \notin {"delFd", "delTimer", "closeLoad"} => fdTable[f] = job[t].conn
      /\ fdTable[f] = NoConn => epoll[f] = "absent"
      /\ job[t].conn # NoConn
  BY <1>1, <1>2, JobFacts, JobConn
     DEF HandlerInv, HolderInv, TimerInv, NoAbort, Exclusive, Held, Jobs, Typing, Bound
<1>4. CASE DelFd(t)
  <2>1. /\ UNCHANGED <<fdTable, timers, users, server, batch, tasks_queue, job>>
        /\ pc[t] = "delFd" /\ pc' = [pc EXCEPT ![t] = "delTimer"]
        /\ epoll' = [epoll EXCEPT ![f] = "absent"]
    BY <1>2, <1>4 DEF DelFd
  <2>2. /\ pc'[t] = "delTimer" /\ \A u \in Threads : u # t => pc'[u] = pc[u]
        /\ epoll'[f] = "absent" /\ \A fd \in Fds : fd # f => epoll'[fd] = epoll[fd]
    BY <2>1 DEF Typing, TypeOK
  <2>3. HandlerAt(t)'
    BY <1>2, <2>1, <2>2 DEF HandlerAt, HandlingLabels, ClosingLabels, StoppedLabels
  <2>4. TimerAt(f)'
    BY <1>1, <1>2, <1>3, <2>1, <2>2 DEF TimerAt, Removing
  <2>5. fdTable'[f] = job[t].conn \/ Left(t)'
    BY <1>2, <1>3, <2>1, <2>2 DEF Left
  <2>. QED BY <1>1, <1>2, <1>3, <2>1, <2>2, <2>3, <2>4, <2>5, HandlerStep
<1>5. CASE DelTimer(t)
  <2>1. /\ UNCHANGED <<fdTable, epoll, users, server, batch, tasks_queue, job>>
        /\ pc[t] = "delTimer" /\ pc' = [pc EXCEPT ![t] = "closeLoad"]
        /\ timers' = timers \ {f}
    BY <1>2, <1>5 DEF DelTimer, do_work
  <2>2. pc'[t] = "closeLoad" /\ \A u \in Threads : u # t => pc'[u] = pc[u]
    BY <2>1 DEF Typing, TypeOK
  <2>3. epoll[f] = "absent"
    BY <1>2, <1>3, <2>1 DEF HandlerAt
  <2>4. HandlerAt(t)'
    BY <1>2, <2>1, <2>2, <2>3 DEF HandlerAt, HandlingLabels, ClosingLabels, StoppedLabels
  <2>5. TimerAt(f)'
    BY <2>1, <2>3 DEF TimerAt
  <2>6. fdTable'[f] = job[t].conn \/ Left(t)'
    BY <1>2, <1>3, <2>1, <2>2 DEF Left
  <2>. QED BY <1>1, <1>2, <1>3, <2>1, <2>2, <2>3, <2>4, <2>5, <2>6, HandlerStep
<1>6. CASE CloseLoad(t)
  <2>1. /\ UNCHANGED <<fdTable, epoll, users, timers, server, batch, tasks_queue>>
        /\ pc[t] \in {"closeLoad", "failLoad"}
    BY <1>6 DEF CloseLoad
  <2>2. TimerAt(f)
    BY <1>3
  <2>3. CASE users[f].is_running \/ pc[t] = "failLoad"
    <3>1. PICK l : /\ job' = job /\ pc' = [pc EXCEPT ![t] = l]
                   /\ pc[t] = "closeLoad" => l = "closeStop" /\ users[f].is_running
                   /\ pc[t] = "failLoad" => l \in {"failStop", "delFd"}
      BY <1>2, <1>6, <2>1, <2>3 DEF CloseLoad
    <3>2. pc'[t] = l /\ \A u \in Threads : u # t => pc'[u] = pc[u]
      BY <3>1 DEF Typing, TypeOK
    <3>3. HandlerAt(t)'
      BY <1>2, <1>3, <2>1, <3>1, <3>2
         DEF HandlerAt, Reported, HandlingLabels, ClosingLabels, StoppedLabels
    <3>4. Left(t) => pc[t] # "failLoad" /\ ~users[f].is_running
      BY <1>2 DEF Left
    <3>5. fdTable'[f] = job[t].conn
      BY <1>3, <2>1, <2>3, <3>4
    <3>6. TimerAt(f)'
      <4>1. epoll[f] # "absent" => epoll[f] = "off"
        BY <1>2, <1>3, <2>1 DEF HandlerAt, Reported, HandlingLabels, ClosingLabels
      <4>2. epoll[f] = "absent" => f \notin timers
        BY <1>2, <1>3, <2>1 DEF HandlerAt, Reported, HandlingLabels, ClosingLabels
      <4>3. epoll[f] # "absent" => (TimeoutOn => f \in timers)
        BY <1>2, <1>3, <2>1 DEF HandlerAt, Reported, HandlingLabels, ClosingLabels
      <4>4. f \in timers => TimeoutOn
        BY <1>3 DEF TimerAt
      <4>. QED BY <2>1, <4>2, <4>3, <4>4 DEF TimerAt
    <3>7. epoll'[f] \notin {"in", "out"}
      BY <1>2, <1>3, <2>1 DEF HandlerAt, Reported, HandlingLabels, ClosingLabels
    <3>. QED BY <1>1, <1>2, <1>3, <2>1, <3>1, <3>2, <3>3, <3>5, <3>6, <3>7, HandlerStep
  <2>4. CASE ~users[f].is_running /\ pc[t] = "closeLoad"
    <3>1. /\ pc' = [pc EXCEPT ![t] = IF t = Main THEN "batch" ELSE "idle"]
          /\ job' = [job EXCEPT ![t] = NoJob]
      BY <1>2, <1>6, <2>4 DEF CloseLoad, Done
    <3>2. /\ pc'[t] \in {"batch", "idle"} /\ \A u \in Threads : u # t => pc'[u] = pc[u]
          /\ job'[t] = NoJob
      BY <3>1 DEF Typing, TypeOK
    <3>3. HandlerAt(t)'
      BY <3>2 DEF HandlerAt, HandlingLabels, ClosingLabels, StoppedLabels
    <3>4. epoll[f] = "absent" /\ f \notin timers
      BY <1>2, <1>3, <2>4 DEF HandlerAt, ClosingLabels
    <3>5. TimerAt(f)'
      BY <2>1, <3>4 DEF TimerAt
    <3>. QED BY <1>1, <1>2, <1>3, <2>1, <3>1, <3>2, <3>3, <3>5, HandlerStep
  <2>. QED BY <2>1, <2>3, <2>4
<1>7. CASE CloseStop(t) \/ CloseCount(t)
  <2>1. /\ UNCHANGED <<fdTable, epoll, timers, server, batch, tasks_queue, job>>
        /\ \/ /\ pc[t] \in {"closeStop", "failStop"}
              /\ users' = [users EXCEPT ![f].is_running = FALSE]
           \/ pc[t] \in {"closeCount", "failCount"} /\ users' = users
    BY <1>2, <1>7 DEF CloseStop, CloseCount, stopped
  <2>2. PICK l : /\ pc' = [pc EXCEPT ![t] = l]
                 /\ pc[t] \in {"closeStop", "closeCount"} => l \in {"closeCount", "closeFd"}
                 /\ pc[t] \in {"failStop", "failCount"} => l \in {"failCount", "failFd"}
    BY <1>7 DEF CloseStop, CloseCount
  <2>3. pc'[t] = l /\ \A u \in Threads : u # t => pc'[u] = pc[u]
    BY <2>2 DEF Typing, TypeOK
  <2>4. \A fd \in Fds : fd # f => users'[fd] = users[fd]
    BY <2>1 DEF Typing, TypeOK
  <2>5. ~users'[f].is_running
    <3>1. CASE users' = users /\ pc[t] \in {"closeCount", "failCount"}
      BY <1>2, <1>3, <3>1 DEF HandlerAt, StoppedLabels
    <3>2. CASE users' = [users EXCEPT ![f].is_running = FALSE]
      BY <3>2 DEF Typing, TypeOK, HttpConnect
    <3>. QED BY <2>1, <3>1, <3>2
  <2>6. HandlerAt(t)'
    BY <1>2, <1>3, <2>1, <2>2, <2>3, <2>5
       DEF HandlerAt, Reported, HandlingLabels, ClosingLabels, StoppedLabels
  <2>7. TimerAt(f)'
    <3>1. /\ epoll[f] = "absent" => f \notin timers
          /\ epoll[f] # "absent" => (TimeoutOn => f \in timers)
      BY <1>2, <1>3, <2>1 DEF HandlerAt, Reported, HandlingLabels, ClosingLabels
    <3>2. f \in timers => TimeoutOn
      BY <1>3 DEF TimerAt
    <3>. QED BY <2>1, <3>1, <3>2 DEF TimerAt
  <2>8. epoll'[f] \notin {"in", "out"} /\ fdTable'[f] = job[t].conn
    BY <1>2, <1>3, <2>1 DEF HandlerAt, Reported, HandlingLabels, ClosingLabels
  <2>. QED BY <1>1, <1>2, <1>3, <2>1, <2>3, <2>4, <2>6, <2>7, <2>8, HandlerStep
<1>8. CASE CloseFd(t)
  <2>1. /\ pc[t] \in {"closeFd", "failFd"}
        /\ UNCHANGED <<timers, users, server, batch, tasks_queue>>
        /\ fdTable' = [fdTable EXCEPT ![f] = NoConn]
        /\ epoll' = [epoll EXCEPT ![f] = "absent"]
    BY <1>2, <1>3, <1>8 DEF CloseFd, SysClose
  <2>2. /\ fdTable'[f] = NoConn /\ epoll'[f] = "absent"
        /\ \A fd \in Fds : fd # f => fdTable'[fd] = fdTable[fd] /\ epoll'[fd] = epoll[fd]
    BY <2>1 DEF Typing, TypeOK
  <2>3. ~users[f].is_running
    BY <1>2, <1>3, <2>1 DEF HandlerAt, StoppedLabels
  <2>4. CASE pc[t] = "closeFd"
    <3>1. /\ pc' = [pc EXCEPT ![t] = IF t = Main THEN "batch" ELSE "idle"]
          /\ job' = [job EXCEPT ![t] = NoJob]
      BY <1>8, <2>4 DEF CloseFd, Done
    <3>2. /\ pc'[t] \in {"batch", "idle"} /\ \A u \in Threads : u # t => pc'[u] = pc[u]
          /\ job'[t] = NoJob
      BY <3>1 DEF Typing, TypeOK
    <3>3. HandlerAt(t)'
      BY <3>2 DEF HandlerAt, HandlingLabels, ClosingLabels, StoppedLabels
    <3>4. f \notin timers
      BY <1>2, <1>3, <2>4 DEF HandlerAt, ClosingLabels
    <3>5. TimerAt(f)'
      BY <2>1, <2>2, <3>4 DEF TimerAt
    <3>. QED BY <1>1, <1>2, <1>3, <2>1, <2>2, <3>1, <3>2, <3>3, <3>5, HandlerStep
  \* writeResponse has closed the descriptor; CloseConn_ follows.
  <2>5. CASE pc[t] = "failFd"
    <3>1. pc' = [pc EXCEPT ![t] = "delFd"] /\ job' = job
      BY <1>8, <2>5 DEF CloseFd
    <3>2. pc'[t] = "delFd" /\ \A u \in Threads : u # t => pc'[u] = pc[u]
      BY <3>1 DEF Typing, TypeOK
    <3>3. HandlerAt(t)'
      BY <1>2, <2>2, <3>1, <3>2 DEF HandlerAt, HandlingLabels, ClosingLabels, StoppedLabels
    <3>4. Left(t)'
      BY <1>2, <2>1, <2>2, <2>3, <3>1, <3>2 DEF Left
    <3>5. TimerAt(f)'
      BY <1>1, <1>2, <1>3, <2>1, <2>2, <3>1, <3>2 DEF TimerAt, Removing
    <3>. QED BY <1>1, <1>2, <1>3, <2>1, <2>2, <3>1, <3>2, <3>3, <3>4, <3>5, HandlerStep
  <2>. QED BY <2>1, <2>4, <2>5
<1>. QED BY <1>4, <1>5, <1>6, <1>7, <1>8 DEF CloseStep

\* An event taken from the batch to be queued: e is a member of batch.
LEMMA HandlerReadWrite ==
    ASSUME Typing, HandlerInv, NEW e \in batch, HandleReadWrite_(e)
    PROVE  HandlerInv'
<1>. USE DEF Typing, TypeOK, Labels, Bound, HandlerInv
<1>. USE DEF kernelVars, heapVars, threadVars, historyVars
\* A reported descriptor has its timer: the assertion holds.
<1>1. ~ExtendTimeFails(e.fd)
  BY DEF ExtendTimeFails, HolderInv, Reported
<1>2. /\ batch' = batch \ {e} /\ tasks_queue' = Append(tasks_queue, e)
      /\ UNCHANGED <<server, fdTable, epoll, timers, users, pc, job>>
  BY <1>1 DEF HandleReadWrite_
<1>3. /\ DOMAIN tasks_queue' = 1 .. Len(tasks_queue) + 1
      /\ DOMAIN tasks_queue = 1 .. Len(tasks_queue)
      /\ \A i \in DOMAIN tasks_queue : tasks_queue'[i] = tasks_queue[i]
      /\ tasks_queue'[Len(tasks_queue) + 1] = e
      /\ Len(tasks_queue) \in Nat
  BY <1>2
<1>4. ASSUME NEW i \in DOMAIN tasks_queue'
      PROVE  \/ i \in DOMAIN tasks_queue /\ tasks_queue'[i] = tasks_queue[i]
             \/ /\ i \notin DOMAIN tasks_queue /\ i = Len(tasks_queue) + 1
                /\ tasks_queue'[i] = e
  BY <1>3
<1>5. (batch \cup Tasks)' \subseteq batch \cup Tasks
  BY <1>2, <1>4 DEF Tasks
<1>6. Held' \subseteq Held
  BY <1>2, <1>5 DEF Held, Jobs
<1>7. Exclusive'
  <2>1. \A i, j \in DOMAIN tasks_queue' :
           tasks_queue'[i].fd = tasks_queue'[j].fd => i = j
    BY <1>4 DEF Exclusive
  <2>2. \A d \in batch', i \in DOMAIN tasks_queue' : d.fd # tasks_queue'[i].fd
    BY <1>2, <1>4 DEF Exclusive
  <2>3. \A i \in DOMAIN tasks_queue', t \in Threads :
           job[t] # NoJob => tasks_queue'[i].fd # job[t].fd
    BY <1>4 DEF Exclusive
  <2>4. \A d \in Held' : epoll[d.fd] \in {"in", "out"} => pc[Main] = "addTimer"
    BY <1>6 DEF Exclusive
  <2>. QED BY <1>2, <2>1, <2>2, <2>3, <2>4 DEF Exclusive
<1>8. Fresh'
  BY <1>2, <1>5 DEF Fresh, Left
<1>9. HolderInv'
  BY <1>2, <1>4 DEF HolderInv, HandlerAt, Reported
<1>10. TimerInv'
  BY <1>2 DEF TimerInv, TimerAt, Adding, Removing
<1>11. NoAbort'
  BY <1>2 DEF NoAbort
<1>. QED BY <1>7, <1>8, <1>9, <1>10, <1>11

LEMMA HandlerReport ==
    ASSUME Typing, HandlerInv, EpollWait
    PROVE  HandlerInv'
<1>. USE ReactorAssumption DEF Typing, TypeOK, Labels, Bound, HandlerInv
<1>. USE DEF netVars, kernelVars, heapVars, loopVars, threadVars, historyVars, At, Threads
<1>1. PICK writable \in SUBSET OutArmed :
        LET ready == HupReady \cup InReady \cup writable IN
        /\ batch' = Report(HupReady, "hup") \cup Report(InReady, "in")
                       \cup Report(writable, "out")
        /\ epoll' = [fd \in Fds |->
                         IF fd \in ready THEN reported(fd) ELSE epoll[fd]]
  BY DEF EpollWait
<1>2. /\ pc[Main] = "batch" /\ batch = {} /\ server' = server
      /\ UNCHANGED <<fdTable, timers, users, tasks_queue, pc, job>>
  BY DEF EpollWait
<1>. DEFINE ready == HupReady \cup InReady \cup writable
<1>3. \A fd \in Fds : epoll'[fd] = IF fd \in ready THEN "off" ELSE epoll[fd]
  BY <1>1 DEF reported
<1>4. \A fd \in ready : fd \in Fds /\ epoll[fd] \in {"in", "out"}
  BY <1>1 DEF HupReady, InReady, OutArmed
<1>5. \A e \in batch' : /\ e.fd \in ready /\ e.conn = fdTable[e.fd]
                        /\ e.kind = "hup" <=> e.fd \in HupReady
                        /\ e.kind = "in" <=> e.fd \in InReady
                        /\ e.kind \in {"hup", "in", "out"}
  <2>1. \A fd \in InReady : fd \notin HupReady
    BY DEF HupReady, InReady
  <2>2. \A fd \in writable : fd \notin HupReady /\ fd \notin InReady
    BY <1>1 DEF HupReady, InReady, OutArmed
  <2>. QED BY <1>1, <2>1, <2>2 DEF Report
<1>6. \A d, e \in batch' : d.fd = e.fd => d = e
  BY <1>1, <1>5 DEF Report
<1>7. \A e \in Held : e.fd \notin ready
  BY <1>2, <1>4 DEF Exclusive
<1>8. Held' = batch' \cup Held
  BY <1>2 DEF Held, Tasks, Jobs
<1>9. \A i \in DOMAIN tasks_queue : tasks_queue[i] \in Events /\ tasks_queue[i] \in Held
  BY DEF Held, Tasks
<1>10. \A t \in Threads : job[t] # NoJob => job[t] \in Events /\ job[t] \in Held
  BY DEF Held, Jobs
<1>11. Exclusive'
  <2>1. \A d \in batch', i \in DOMAIN tasks_queue : d.fd # tasks_queue[i].fd
    BY <1>5, <1>7, <1>9
  <2>2. \A d \in batch', t \in Threads : job[t] # NoJob => d.fd # job[t].fd
    BY <1>5, <1>7, <1>10
  <2>3. \A e \in Held' : epoll'[e.fd] \notin {"in", "out"}
    <3>1. \A e \in batch' : epoll'[e.fd] = "off"
      BY <1>3, <1>4, <1>5
    <3>2. \A e \in Held : e.fd \in Fds
      BY HeldType
    <3>3. \A e \in Held : epoll'[e.fd] = epoll[e.fd]
      BY <1>3, <1>7, <3>2
    <3>4. \A e \in Held : epoll[e.fd] \notin {"in", "out"}
      BY <1>2 DEF Exclusive
    <3>. QED BY <1>8, <3>1, <3>3, <3>4
  <2>. QED BY <1>2, <1>6, <2>1, <2>2, <2>3 DEF Exclusive
<1>12. Fresh'
  BY <1>2, <1>5 DEF Fresh, Left, Tasks
<1>13. HolderInv'
  <2>1. \A e \in batch' : Reported(e.fd)'
    BY <1>2, <1>3, <1>4, <1>5 DEF Reported, TimerInv, TimerAt, Adding
  <2>2. \A i \in DOMAIN tasks_queue : Reported(tasks_queue[i].fd)'
    BY <1>2, <1>3, <1>7, <1>9 DEF HolderInv, Reported, Events
  <2>3. ASSUME NEW t \in Threads PROVE HandlerAt(t)'
    <3>1. CASE job[t] = NoJob
      BY <1>2, <3>1 DEF HandlerAt, HandlingLabels, ClosingLabels, StoppedLabels
    <3>2. CASE job[t] # NoJob
      <4>1. job[t].fd \in Fds /\ epoll'[job[t].fd] = epoll[job[t].fd]
        BY <1>3, <1>7, <1>10, <3>2 DEF Events
      <4>. QED BY <1>2, <4>1 DEF HolderInv, HandlerAt, Reported
    <3>. QED BY <3>1, <3>2
  <2>. QED BY <1>2, <2>1, <2>2, <2>3 DEF HolderInv
<1>14. TimerInv'
  <2>1. \A fd \in Fds : epoll'[fd] = "absent" <=> epoll[fd] = "absent"
    BY <1>3, <1>4
  <2>. QED BY <1>2, <2>1 DEF TimerInv, TimerAt, Adding, Removing
<1>15. NoAbort'
  BY <1>2 DEF NoAbort
<1>. QED BY <1>11, <1>12, <1>13, <1>14, <1>15

\* accept returns a number that no event names: the one step that may end what
\* is proved here (overtaken), and does not in this lemma.
LEMMA HandlerAccept ==
    ASSUME Typing, HandlerInv, Accept, ~overtaken'
    PROVE  HandlerInv'
<1>. USE ReactorAssumption DEF Typing, TypeOK, Labels, Bound, HandlerInv
<1>. USE DEF loopVars, At, Goto, Threads
<1>1. PICK c \in Conns, fd \in Fds :
        /\ fdTable[fd] = NoConn
        /\ fdTable' = [fdTable EXCEPT ![fd] = c]
        /\ users' = [users EXCEPT ![fd] = initConn(users[fd])]
        /\ job' = [job EXCEPT ![Main] = [fd |-> fd, conn |-> c, kind |-> "new"]]
        /\ overtaken' = (overtaken \/ \E e \in Held : e.fd = fd)
  <2>1. Backlog \subseteq Conns /\ \A fd \in FreeFds : fd \in Fds /\ fdTable[fd] = NoConn
    BY DEF Backlog, FreeFds
  <2>2. PICK c \in Backlog, fd \in FreeFds :
          /\ sock' = [sock EXCEPT ![c] = "open"]
          /\ fdTable' = [fdTable EXCEPT ![fd] = c]
          /\ users' = [users EXCEPT ![fd] = initConn(users[fd])]
          /\ job' = [job EXCEPT ![Main] = [fd |-> fd, conn |-> c, kind |-> "new"]]
          /\ overtaken' = (overtaken \/ \E e \in Held : e.fd = fd)
    BY Zenon DEF Accept
  <2>. QED BY <2>1, <2>2, Zenon
<1>2. /\ pc' = [pc EXCEPT ![Main] = "addEpoll"] /\ pc[Main] = "accept"
      /\ UNCHANGED <<epoll, timers, server, batch, tasks_queue>>
  BY DEF Accept
<1>. DEFINE new == [fd |-> fd, conn |-> c, kind |-> "new"]
<1>3. \A e \in Held : e.fd # fd /\ e.fd \in Fds
  BY <1>1, HeldType
<1>4. \A e \in Held' : e \in Held \/ e = new
  BY <1>1, <1>2 DEF Held, Tasks, Jobs
<1>5. /\ \A e \in batch : e \in Held
      /\ \A i \in DOMAIN tasks_queue : tasks_queue[i] \in Held
      /\ \A t \in Threads : job[t] # NoJob => job[t] \in Held
  BY DEF Held, Tasks, Jobs
<1>6. \A t \in Threads : job'[t] = IF t = Main THEN new ELSE job[t]
  BY <1>1
<1>7. epoll[fd] = "absent"
  BY <1>1
<1>8. fd \notin timers
  <2>1. ~Removing(fd)
    BY <1>3, <1>5 DEF Removing
  <2>. QED BY <1>7, <2>1 DEF TimerInv, TimerAt
<1>9. Exclusive'
  <2>1. \A t, u \in Threads : job'[t] # NoJob /\ job'[u] # NoJob
                              /\ job'[t].fd = job'[u].fd => t = u
    BY <1>3, <1>5, <1>6 DEF Exclusive
  <2>2. \A d \in batch, t \in Threads : job'[t] # NoJob => d.fd # job'[t].fd
    BY <1>3, <1>5, <1>6 DEF Exclusive
  <2>3. \A i \in DOMAIN tasks_queue, t \in Threads :
           job'[t] # NoJob => tasks_queue[i].fd # job'[t].fd
    BY <1>3, <1>5, <1>6 DEF Exclusive
  <2>4. \A e \in Held' : epoll[e.fd] \notin {"in", "out"}
    BY <1>2, <1>4, <1>7 DEF Exclusive
  <2>. QED BY <1>2, <2>1, <2>2, <2>3, <2>4 DEF Exclusive
<1>10. Fresh'
  <2>1. \A e \in (batch \cup Tasks)' : fdTable'[e.fd] = e.conn
    BY <1>1, <1>2, <1>3, <1>5 DEF Fresh, Tasks
  <2>2. ASSUME NEW t \in Threads, job'[t] # NoJob
        PROVE  fdTable'[job'[t].fd] = job'[t].conn \/ Left(t)'
    <3>1. CASE t = Main
      BY <1>1, <3>1
    <3>2. CASE t # Main
      <4>1. /\ job'[t] = job[t] /\ job[t].fd # fd /\ job[t].fd \in Fds
            /\ job[t] # NoJob /\ pc'[t] = pc[t]
        BY <1>2, <1>3, <1>5, <1>6, <2>2, <3>2
      <4>2. /\ fdTable'[job[t].fd] = fdTable[job[t].fd]
            /\ users'[job[t].fd] = users[job[t].fd]
        BY <1>1, <4>1
      <4>3. fdTable[job[t].fd] = job[t].conn \/ Left(t)
        BY <4>1 DEF Fresh
      <4>. QED BY <4>1, <4>2, <4>3 DEF Left
    <3>. QED BY <3>1, <3>2
  <2>. QED BY <2>1, <2>2 DEF Fresh
<1>11. HolderInv'
  <2>1. HandlerAt(Main)'
    BY <1>1, <1>2, <1>6, <1>7, <1>8 DEF HandlerAt, HandlingLabels, ClosingLabels, StoppedLabels
  <2>2. ASSUME NEW t \in Threads, t # Main PROVE HandlerAt(t)'
    <3>1. job'[t] = job[t] /\ pc'[t] = pc[t] /\ HandlerAt(t)
      BY <1>2, <1>6, <2>2 DEF HolderInv
    <3>2. CASE job[t] = NoJob
      BY <3>1, <3>2 DEF HandlerAt, HandlingLabels, ClosingLabels, StoppedLabels
    <3>3. CASE job[t] # NoJob
      <4>1. job[t].fd # fd /\ job[t].fd \in Fds
        BY <1>3, <1>5, <3>3
      <4>2. /\ fdTable'[job[t].fd] = fdTable[job[t].fd]
            /\ users'[job[t].fd] = users[job[t].fd]
        BY <1>1, <4>1
      <4>. QED BY <1>2, <3>1, <4>2 DEF HandlerAt, Reported
    <3>. QED BY <3>2, <3>3
  <2>. QED BY <1>2, <2>1, <2>2 DEF HolderInv, Reported
<1>12. TimerInv'
  <2>1. ASSUME NEW x \in Fds, Removing(x) PROVE x = fd \/ Removing(x)'
    <3>1. PICK t \in Threads :
            /\ job[t] # NoJob /\ job[t].fd = x
            /\ \/ pc[t] = "delTimer"
               \/ pc[t] = "delFd" /\ fdTable[x] = NoConn
      BY <2>1 DEF Removing
    <3>2. t # Main
      BY <1>2, <3>1
    <3>. QED BY <1>1, <1>2, <1>6, <3>1, <3>2 DEF Removing
  <2>2. TimerAt(fd)'
    BY <1>2, <1>7, <1>8 DEF TimerAt
  <2>. QED BY <1>2, <2>1, <2>2 DEF TimerInv, TimerAt, Adding
<1>13. NoAbort'
  BY <1>2 DEF NoAbort
<1>. QED BY <1>9, <1>10, <1>11, <1>12, <1>13

LEMMA HandlerMain ==
    ASSUME Typing, HandlerInv, MainStep, ~overtaken'
    PROVE  HandlerInv'
<1>. USE DEF netVars, kernelVars, heapVars, loopVars, threadVars, historyVars, At, Goto
<1>0. Main \in Threads
  BY DEF Threads
<1>1. CASE EpollWait
  BY <1>1, HandlerReport
<1>2. ASSUME NEW e \in batch, HandleReadWrite_(e) PROVE HandlerInv'
  BY <1>2, HandlerReadWrite
<1>3. ASSUME NEW e \in batch, HandleHup(e) PROVE HandlerInv'
  <2>. USE ReactorAssumption DEF Typing, TypeOK, Labels, Bound, HandlerInv, Threads
  <2>1. Exclusive'
    BY <1>3 DEF HandleHup, Exclusive, Held, Tasks, Jobs
  <2>2. Fresh'
    BY <1>3 DEF HandleHup, Fresh, Left, Tasks
  <2>3. HolderInv'
    BY <1>3 DEF HandleHup, HolderInv, HandlerAt, Reported, HandlingLabels, ClosingLabels,
                StoppedLabels
  <2>4. TimerInv'
    BY <1>3 DEF HandleHup, TimerInv, TimerAt, Adding, Removing
  <2>5. NoAbort'
    BY <1>3 DEF HandleHup, NoAbort
  <2>. QED BY <2>1, <2>2, <2>3, <2>4, <2>5
<1>4. CASE HandleListen_ \/ AcceptFails \/ AcceptRefused \/ RefuseSigpipe
  <2>1. /\ UNCHANGED <<fdTable, epoll, users, timers, batch, tasks_queue, job>>
        /\ server' = server \/ server' = "killed"
        /\ pc[Main] \in {"batch", "accept"}
        /\ \/ pc' = pc
           \/ \E l \in {"batch", "accept"} : pc' = [pc EXCEPT ![Main] = l]
    BY <1>4 DEF HandleListen_, AcceptFails, AcceptRefused, RefuseSigpipe
  <2>2. job[Main] = NoJob /\ server # "aborted"
    BY <1>0, <2>1 DEF Typing, Labels, HandlerInv, NoAbort
  <2>3. \A t \in Threads : \/ pc'[t] = pc[t]
                           \/ job[t] = NoJob /\ pc'[t] \in {"batch", "accept"}
    BY <2>1, <2>2 DEF Typing, TypeOK
  <2>. QED BY <2>1, <2>2, <2>3, HandlerElsewhere
<1>5. CASE Accept
  BY <1>5, HandlerAccept
<1>6. ASSUME pc[Main] \in {"addEpoll", "addTimer"}
      PROVE  /\ job[Main] # NoJob /\ job[Main].fd \in Fds /\ HandlerAt(Main)
             /\ fdTable[job[Main].fd] = job[Main].conn /\ job[Main].conn \in Conns
             /\ server # "aborted" /\ TimerAt(job[Main].fd)
  <2>1. job[Main] # NoJob
    BY <1>0, <1>6 DEF Typing, Labels
  <2>. QED BY <1>0, <1>6, <2>1, JobFacts, JobConn DEF HandlerInv, HolderInv, TimerInv, NoAbort
<1>7. CASE AddFdFails
  <2>1. PICK f \in Fds : f = job[Main].fd
    BY <1>6, <1>7 DEF AddFdFails
  <2>2. fdTable[f] # NoConn /\ job[Main] # NoJob /\ server # "aborted"
    BY <1>6, <1>7, <2>1, ReactorAssumption DEF AddFdFails
  <2>3. /\ job' = [job EXCEPT ![Main] = NoJob]
        /\ fdTable' = [fdTable EXCEPT ![f] = NoConn]
        /\ epoll' = [epoll EXCEPT ![f] = "absent"]
        /\ pc' = [pc EXCEPT ![Main] = IF ListenET THEN "accept" ELSE "batch"]
        /\ UNCHANGED <<server, timers, users, batch, tasks_queue>>
    BY <1>7, <2>1, <2>2 DEF AddFdFails, SysClose, Accepted
  <2>4. /\ job'[Main] = NoJob /\ pc'[Main] \in {"accept", "batch"} /\ epoll'[f] = "absent"
        /\ \A u \in Threads : u # Main => pc'[u] = pc[u]
        /\ \A fd \in Fds : fd # f => fdTable'[fd] = fdTable[fd] /\ epoll'[fd] = epoll[fd]
    BY <1>0, <2>3 DEF Typing, TypeOK
  <2>5. HandlerAt(Main)'
    BY <2>4 DEF HandlerAt, HandlingLabels, ClosingLabels, StoppedLabels
  <2>6. f \notin timers
    BY <1>6, <1>7, <2>1 DEF AddFdFails, HandlerAt, ClosingLabels
  <2>7. TimerAt(f)'
    BY <2>3, <2>4, <2>6 DEF TimerAt
  <2>. QED BY <1>0, <2>1, <2>2, <2>3, <2>4, <2>5, <2>7, HandlerStep
<1>8. CASE AddFd
  <2>1. PICK f \in Fds : f = job[Main].fd
    BY <1>6, <1>8 DEF AddFd
  <2>2. /\ job[Main] # NoJob /\ server # "aborted"
        /\ fdTable[f] = job[Main].conn /\ f \notin timers
    BY <1>6, <1>8, <2>1 DEF AddFd, HandlerAt, ClosingLabels
  <2>3. /\ epoll' = [epoll EXCEPT ![f] = "in"]
        /\ pc' = [pc EXCEPT ![Main] = "addTimer"]
        /\ UNCHANGED <<fdTable, server, timers, users, batch, tasks_queue, job>>
    BY <1>8, <2>1 DEF AddFd
  <2>4. /\ pc'[Main] = "addTimer" /\ epoll'[f] = "in"
        /\ \A u \in Threads : u # Main => pc'[u] = pc[u]
        /\ \A fd \in Fds : fd # f => epoll'[fd] = epoll[fd]
    BY <1>0, <2>3 DEF Typing, TypeOK
  <2>5. HandlerAt(Main)'
    BY <2>1, <2>3, <2>4 DEF HandlerAt, HandlingLabels, ClosingLabels, StoppedLabels
  <2>6. TimerAt(f)'
    BY <2>1, <2>2, <2>3, <2>4 DEF TimerAt, Adding
  <2>. QED BY <1>0, <2>1, <2>2, <2>3, <2>4, <2>5, <2>6, HandlerStep
<1>9. CASE AddTimer
  <2>1. PICK f \in Fds : f = job[Main].fd
    BY <1>6, <1>9 DEF AddTimer
  <2>2. job[Main] # NoJob /\ server # "aborted" /\ epoll[f] = "in" /\ TimerAt(f)
    BY <1>6, <1>9, <2>1 DEF AddTimer, HandlerAt
  <2>3. /\ job' = [job EXCEPT ![Main] = NoJob]
        /\ timers' = IF TimeoutOn THEN timers \cup {f} ELSE timers
        /\ pc' = [pc EXCEPT ![Main] = IF ListenET THEN "accept" ELSE "batch"]
        /\ UNCHANGED <<fdTable, epoll, server, users, batch, tasks_queue>>
    BY <1>9, <2>1 DEF AddTimer, add, Accepted
  <2>4. /\ job'[Main] = NoJob /\ pc'[Main] \in {"accept", "batch"}
        /\ \A u \in Threads : u # Main => pc'[u] = pc[u]
        /\ \A fd \in Fds : fd # f => (fd \in timers' <=> fd \in timers)
    BY <1>0, <2>3 DEF Typing, TypeOK
  <2>5. HandlerAt(Main)'
    BY <2>4 DEF HandlerAt, HandlingLabels, ClosingLabels, StoppedLabels
  <2>6. TimerAt(f)'
    BY <2>2, <2>3 DEF TimerAt
  <2>. QED BY <1>0, <2>1, <2>2, <2>3, <2>4, <2>5, <2>6, HandlerStep
<1>. QED
  BY <1>1, <1>2, <1>3, <1>4, <1>5, <1>7, <1>8, <1>9 DEF MainStep

LEMMA HandlerStutter == ASSUME HandlerInv, UNCHANGED vars PROVE HandlerInv'
<1>. USE DEF HandlerInv, vars, netVars, kernelVars, heapVars, loopVars, threadVars, historyVars
<1>1. Exclusive'
  BY DEF Exclusive, Held, Tasks, Jobs
<1>2. Fresh'
  BY DEF Fresh, Left, Tasks
<1>3. HolderInv'
  BY DEF HolderInv, HandlerAt, Reported
<1>4. TimerInv'
  BY DEF TimerInv, TimerAt, Adding, Removing
<1>5. NoAbort'
  BY DEF NoAbort
<1>. QED BY <1>1, <1>2, <1>3, <1>4, <1>5

\* A number once overtaken stays so.
LEMMA OvertakenStays == ASSUME Typing, [Next]_vars, ~overtaken' PROVE ~overtaken
<1>. USE DEF historyVars
<1>1. CASE Clients
  BY <1>1 DEF Clients, Connect, Send, Leave
<1>2. CASE MainStep
  BY <1>2 DEF MainStep, EpollWait, HandleReadWrite_, HandleHup, HandleListen_, AcceptFails,
              AcceptRefused, RefuseSigpipe, Accept, AddFdFails, AddFd, AddTimer
<1>3. ASSUME NEW w \in Workers, WorkerStep(w) PROVE ~overtaken
  BY <1>3 DEF WorkerStep, Take, ReadFails, Read, ProcessNothing, Process, Rearm,
              WriteNothing, Write, WriteFails, WriteSigpipe
<1>4. ASSUME NEW t \in Threads, CloseStep(t) PROVE ~overtaken
  BY <1>4 DEF CloseStep, DelFd, DelTimer, CloseLoad, CloseStop, CloseCount, CloseFd
<1>5. CASE UNCHANGED vars
  BY <1>5 DEF vars
<1>. QED BY <1>1, <1>2, <1>3, <1>4, <1>5 DEF Next

LEMMA HandlerInvariant == Spec => [](~overtaken => HandlerInv)
<1>1. Init => (~overtaken => HandlerInv)
  BY HandlerInit
<1>2. Typing /\ (~overtaken => HandlerInv) /\ [Next]_vars => (~overtaken => HandlerInv)'
  <2> SUFFICES ASSUME Typing, HandlerInv, [Next]_vars, ~overtaken' PROVE HandlerInv'
    BY OvertakenStays
  <2>1. CASE Clients
    BY <2>1, HandlerClients
  <2>2. CASE MainStep
    BY <2>2, HandlerMain
  <2>3. ASSUME NEW w \in Workers, WorkerStep(w) PROVE HandlerInv'
    BY <2>3, HandlerWorker
  <2>4. ASSUME NEW t \in Threads, CloseStep(t) PROVE HandlerInv'
    BY <2>4, HandlerClose
  <2>5. CASE UNCHANGED vars
    BY <2>5, HandlerStutter
  <2>. QED BY <2>1, <2>2, <2>3, <2>4, <2>5 DEF Next
<1>. QED BY <1>1, <1>2, TypingInvariant, PTL DEF Spec

\* EPOLLONESHOT serialises the handlers of a descriptor across the event batch,
\* the task queue and the threads, for any number of each (Reactor!OneHandler):
\* until accept returns a number that a thread is still closing after its
\* failed write, and whatever read, write, accept, epoll_ctl and the clients do.
THEOREM HandlersAreExclusive == Spec => []OneHandler
<1>1. (~overtaken => HandlerInv) => OneHandler
  BY DEF HandlerInv, OneHandler
<1>. QED BY HandlerInvariant, <1>1, PTL

\* Until then no handler works on a descriptor that stands for another
\* connection than the one its event was reported for; only a thread whose own
\* failed write closed the descriptor works on a free number
\* (Reactor!NoStaleDescriptor).
THEOREM DescriptorsAreFresh == Spec => []NoStaleDescriptor
<1>1. (~overtaken => HandlerInv) => NoStaleDescriptor
  <2> SUFFICES ASSUME HandlerInv, NEW e \in Held
               PROVE  fdTable[e.fd] = e.conn \/ Abandoned(e.fd)
    BY DEF NoStaleDescriptor
  <2>1. CASE e \in batch \cup Tasks
    BY <2>1 DEF HandlerInv, Fresh
  <2>2. ASSUME NEW t \in Threads, job[t] # NoJob, e = job[t]
        PROVE  fdTable[e.fd] = e.conn \/ Abandoned(e.fd)
    BY <2>2 DEF HandlerInv, Fresh, Left, Abandoned
  <2>. QED BY <2>1, <2>2 DEF Held, Jobs
<1>. QED BY HandlerInvariant, <1>1, PTL

\* The assertion of HeapTimer::adjust can fail under ExtentTime_ only in a
\* process in which accept has returned such a number (Reactor!AbortNeedsReuse).
THEOREM AssertionHolds == Spec => []AbortNeedsReuse
<1>1. Typing /\ (~overtaken => HandlerInv) => AbortNeedsReuse
  BY DEF HandlerInv, NoAbort, AbortNeedsReuse
<1>. QED BY HandlerInvariant, TypingInvariant, <1>1, PTL

\* Timers and epoll registrations come and go together but for the steps that
\* add or remove one after the other, on the same terms (Reactor!TimersMatch).
THEOREM TimersFollowRegistrations == Spec => []TimersMatch
<1>1. Typing /\ (~overtaken => HandlerInv) => TimersMatch
  <2> SUFFICES ASSUME Typing, HandlerInv, TimeoutOn, NEW fd \in Fds,
                      ~InTransit(fd, {"addTimer", "delTimer"}),
                      ~(fdTable[fd] = NoConn /\ InTransit(fd, {"delFd"}))
               PROVE  (fd \in timers) <=> (epoll[fd] # "absent")
    BY DEF TimersMatch
  <2>1. ~Adding(fd)
    <3>1. pc[Main] = "addTimer" => job[Main] # NoJob /\ Main \in Threads
      BY DEF Typing, Labels, Threads
    <3>. QED BY <3>1 DEF InTransit, Adding
  <2>2. ~Removing(fd)
    BY DEF InTransit, Removing
  <2>3. TimerAt(fd)
    BY DEF HandlerInv, TimerInv
  <2>. QED BY <2>1, <2>2, <2>3 DEF TimerAt
<1>. QED BY HandlerInvariant, TypingInvariant, <1>1, PTL
-----------------------------------------------------------------------------
(* The connections: how many there are, what they leave behind, and that   *)
(* each of them lives as ConnLife says.                                    *)

HeldFd(fd) == \E e \in Held : e.fd = fd

\* A descriptor stands for an open connection, and no two for the same one.
Sockets ==
    /\ \A fd \in Fds : fdTable[fd] # NoConn => sock[fdTable[fd]] = "open"
    /\ \A fd, gd \in Fds :
          fdTable[fd] = fdTable[gd] /\ fdTable[fd] # NoConn => fd = gd

\* Who processes, or goes on with close(), works on a running HttpConnect; one
\* that stopped running with its connection open is not kept alive, or is on
\* its way through close().
RunningLabels == {"process", "closeStop", "failStop"}
Standing ==
    /\ \A t \in Threads : pc[t] \in RunningLabels => users[job[t].fd].is_running
    /\ \A fd \in Fds : fdTable[fd] # NoConn /\ ~users[fd].is_running =>
           ~users[fd].isKeepAlive \/ InTransit(fd, StoppedLabels)

\* A disarmed descriptor is in some handler's hands; an unregistered one is, or
\* its HttpConnect stopped running.
Watched ==
    \A fd \in Fds :
        /\ epoll[fd] = "off" => HeldFd(fd)
        /\ fdTable[fd] # NoConn /\ epoll[fd] = "absent"
              => HeldFd(fd) \/ ~users[fd].is_running

ConnInv == Sockets /\ Standing /\ Watched
-----------------------------------------------------------------------------
(* How a step changes the events on their way.                             *)

LEMMA JobHeld ==
    ASSUME NEW t \in Threads, job[t] # NoJob
    PROVE  job[t] \in Held /\ HeldFd(job[t].fd)
BY DEF Held, Jobs, HeldFd

LEMMA HeldSame ==
    ASSUME UNCHANGED <<batch, tasks_queue>>,
           \A t \in Threads : job'[t] = job[t]
    PROVE  Held' = Held
<1>1. Tasks' = Tasks
  BY DEF Tasks
<1>2. Jobs' = Jobs
  BY DEF Jobs
<1>. QED BY <1>1, <1>2 DEF Held

\* A handler that ends gives up its event and no other.
LEMMA HeldDone ==
    ASSUME Typing, HandlerInv, NEW t \in Threads, job[t] # NoJob,
           UNCHANGED <<batch, tasks_queue>>, job' = [job EXCEPT ![t] = NoJob]
    PROVE  /\ \A e \in Held' : e \in Held /\ e.fd # job[t].fd
           /\ \A e \in Held : e \in Held' \/ e = job[t]
<1>1. \A u \in Threads : job'[u] = IF u = t THEN NoJob ELSE job[u]
  BY DEF Typing, TypeOK
<1>2. Tasks' = Tasks
  BY DEF Tasks
<1>3. /\ \A e \in batch : e.fd # job[t].fd
      /\ \A i \in DOMAIN tasks_queue : tasks_queue[i].fd # job[t].fd
      /\ \A u \in Threads : u # t /\ job[u] # NoJob => job[u].fd # job[t].fd
  BY JobFacts
<1>4. ASSUME NEW e \in Jobs' PROVE e \in Jobs /\ e.fd # job[t].fd
  BY <1>1, <1>3 DEF Jobs
<1>5. ASSUME NEW e \in Jobs PROVE e \in Jobs' \/ e = job[t]
  BY <1>1 DEF Jobs
<1>6. \A e \in Tasks : e.fd # job[t].fd
  BY <1>3 DEF Tasks
<1>. QED BY <1>2, <1>3, <1>4, <1>5, <1>6 DEF Held

\* A task goes from the queue to a worker.
LEMMA HeldTake ==
    ASSUME Typing, NEW w \in Workers, Take(w)
    PROVE  Held' = Held
<1>1. /\ tasks_queue \in Seq(Events) /\ tasks_queue # << >> /\ job[w] = NoJob
      /\ job' = [job EXCEPT ![w] = Head(tasks_queue)]
      /\ tasks_queue' = Tail(tasks_queue) /\ batch' = batch
      /\ job \in [Threads -> Events \cup {NoJob}] /\ w \in Threads
  BY DEF Take, At, Typing, TypeOK, Labels, Threads
<1>2. PICK q \in Seq(Events) : q = tasks_queue
  BY <1>1
<1>. DEFINE h == Head(q)
            r == Tail(q)
<1>3. /\ h = q[1] /\ h \in Events
      /\ Len(q) \in Nat \ {0} /\ DOMAIN q = 1 .. Len(q) /\ DOMAIN r = 1 .. Len(q) - 1
      /\ \A i \in 1 .. Len(q) - 1 : r[i] = q[i + 1]
  BY <1>1, <1>2
<1>. HIDE DEF h, r
<1>4. Tasks = {q[i] : i \in DOMAIN q} /\ Tasks' = {r[i] : i \in DOMAIN r}
  BY <1>1, <1>2 DEF Tasks, r
<1>5. \A u \in Threads : job'[u] = IF u = w THEN h ELSE job[u]
  BY <1>1, <1>2 DEF h
<1>6. Jobs' = Jobs \cup {h}
  <2>1. h # NoJob
    BY <1>3, ReactorAssumption
  <2>. QED BY <1>1, <1>5, <2>1 DEF Jobs
<1>7. ASSUME NEW i \in DOMAIN q PROVE q[i] \in Tasks' \cup {h}
  <2>1. CASE i = 1
    BY <1>3, <2>1
  <2>2. CASE i # 1
    <3>1. i - 1 \in DOMAIN r /\ r[i - 1] = q[i]
      BY <1>3, <2>2
    <3>. QED BY <1>4, <3>1
  <2>. QED BY <2>1, <2>2
<1>8. ASSUME NEW i \in DOMAIN r PROVE r[i] \in Tasks
  <2>1. i + 1 \in DOMAIN q /\ r[i] = q[i + 1]
    BY <1>3
  <2>. QED BY <1>4, <2>1
<1>9. h \in Tasks
  <2>1. 1 \in DOMAIN q
    BY <1>3
  <2>. QED BY <1>3, <1>4, <2>1
<1>10. Tasks' \cup {h} = Tasks
  BY <1>4, <1>7, <1>8, <1>9
<1>. QED BY <1>1, <1>6, <1>10 DEF Held

\* An event goes from the batch to the queue, or to the main thread itself.
LEMMA HeldDispatch ==
    ASSUME Typing, HandlerInv, NEW e \in batch, HandleReadWrite_(e) \/ HandleHup(e)
    PROVE  Held' = Held /\ UNCHANGED <<fdTable, users, sock, epoll>>
<1>1. CASE HandleReadWrite_(e)
  <2>1. ~ExtendTimeFails(e.fd)
    BY DEF ExtendTimeFails, HandlerInv, HolderInv, Reported
  <2>2. /\ batch' = batch \ {e} /\ tasks_queue' = Append(tasks_queue, e) /\ job' = job
        /\ UNCHANGED <<fdTable, users, sock, epoll>>
    BY <1>1, <2>1 DEF HandleReadWrite_, threadVars, netVars, kernelVars, heapVars
  <2>3. /\ DOMAIN tasks_queue' = 1 .. Len(tasks_queue) + 1
        /\ DOMAIN tasks_queue = 1 .. Len(tasks_queue)
        /\ \A i \in DOMAIN tasks_queue : tasks_queue'[i] = tasks_queue[i]
        /\ tasks_queue'[Len(tasks_queue) + 1] = e
        /\ Len(tasks_queue) \in Nat
    BY <2>2 DEF Typing, TypeOK
  <2>4. Tasks' = Tasks \cup {e}
    BY <2>3 DEF Tasks
  <2>5. Jobs' = Jobs
    BY <2>2 DEF Jobs
  <2>. QED BY <2>2, <2>4, <2>5 DEF Held
<1>2. CASE HandleHup(e)
  <2>1. /\ batch' = batch \ {e} /\ tasks_queue' = tasks_queue
        /\ job' = [job EXCEPT ![Main] = e] /\ job[Main] = NoJob
        /\ UNCHANGED <<fdTable, users, sock, epoll>>
    BY <1>2 DEF HandleHup, At, Typing, Labels, Threads, netVars, kernelVars, heapVars
  <2>2. e # NoJob /\ Main \in Threads
    BY ReactorAssumption DEF Typing, TypeOK, Threads
  <2>3. \A u \in Threads : job'[u] = IF u = Main THEN e ELSE job[u]
    BY <2>1, <2>2 DEF Typing, TypeOK
  <2>4. Jobs' = Jobs \cup {e}
    BY <2>1, <2>2, <2>3 DEF Jobs
  <2>5. Tasks' = Tasks
    BY <2>1 DEF Tasks
  <2>. QED BY <2>1, <2>4, <2>5 DEF Held
<1>. QED BY <1>1, <1>2

-----------------------------------------------------------------------------
(* The invariant of connections.                                           *)

LEMMA ConnInit == Init => ConnInv
<1>. SUFFICES ASSUME Init PROVE ConnInv
  OBVIOUS
<1>1. Sockets
  BY DEF Init, Sockets
<1>2. Standing
  BY DEF Init, Standing, RunningLabels
<1>3. Watched
  BY DEF Init, Watched
<1>. QED BY <1>1, <1>2, <1>3 DEF ConnInv

\* A step that changes no HttpConnect and opens and closes nothing, lets go of
\* no event, and disarms only what somebody holds.
LEMMA ConnElsewhere ==
    ASSUME ConnInv, UNCHANGED <<fdTable, users>>,
           \A c \in Conns : sock[c] = "open" => sock'[c] = "open",
           fdTable \in [Fds -> Conns \cup {NoConn}],
           \A fd \in Fds : epoll'[fd] = epoll[fd] \/ (epoll'[fd] = "off" /\ HeldFd(fd)'),
           \A fd \in Fds : HeldFd(fd) => HeldFd(fd)',
           \A t \in Threads : pc'[t] \in RunningLabels => users[job'[t].fd].is_running,
           \A t \in Threads : pc[t] \in StoppedLabels => pc'[t] = pc[t] /\ job'[t] = job[t]
    PROVE  ConnInv'
<1>1. Sockets'
  BY DEF ConnInv, Sockets
<1>2. Standing'
  <2>1. ASSUME NEW fd, InTransit(fd, StoppedLabels) PROVE InTransit(fd, StoppedLabels)'
    BY <2>1 DEF InTransit
  <2>. QED BY <2>1 DEF ConnInv, Standing
<1>3. Watched'
  BY DEF ConnInv, Watched
<1>. QED BY <1>1, <1>2, <1>3 DEF ConnInv

\* A step of a handler on its own descriptor: it may close it, change its
\* HttpConnect and its registration, and let go of it.
LEMMA ConnStep ==
    ASSUME Typing, HandlerInv, ConnInv, NEW t \in Threads, job[t] # NoJob,
           NEW f \in Fds, f = job[t].fd,
           UNCHANGED <<batch, tasks_queue>>,
           job' = job \/ job' = [job EXCEPT ![t] = NoJob],
           \A u \in Threads : u # t => pc'[u] = pc[u],
           \A fd \in Fds : fd # f =>
               /\ fdTable'[fd] = fdTable[fd] /\ epoll'[fd] = epoll[fd]
               /\ users'[fd] = users[fd],
           \/ fdTable'[f] = fdTable[f] /\ sock' = sock
           \/ fdTable'[f] = NoConn /\ sock' = [sock EXCEPT ![fdTable[f]] = "closed"],
           pc'[t] \in RunningLabels => job' = job /\ users'[f].is_running,
           fdTable'[f] # NoConn /\ ~users'[f].is_running =>
               ~users'[f].isKeepAlive \/ (job' = job /\ pc'[t] \in StoppedLabels),
           \/ job' = job
           \/ /\ epoll'[f] # "off"
              /\ fdTable'[f] # NoConn /\ epoll'[f] = "absent" => ~users'[f].is_running
    PROVE  ConnInv'
<1>1. \A u \in Threads : u # t => job'[u] = job[u]
  BY DEF Typing, TypeOK
<1>2. fdTable \in [Fds -> Conns \cup {NoConn}] /\ NoConn \notin Conns
      /\ sock \in [Conns -> {"new", "backlog", "open", "closed"}]
  BY ReactorAssumption DEF Typing, TypeOK
<1>3. \A u \in Threads : u # t /\ job[u] # NoJob => job[u].fd # f /\ job[u].fd \in Fds
  BY JobFacts
<1>4. Sockets'
  <2>1. ASSUME NEW fd \in Fds, fdTable'[fd] # NoConn PROVE sock'[fdTable'[fd]] = "open"
    <3>1. fdTable'[fd] = fdTable[fd] /\ sock[fdTable[fd]] = "open"
      BY <2>1 DEF ConnInv, Sockets
    <3>2. CASE sock' = sock
      BY <3>1, <3>2
    <3>3. CASE fdTable'[f] = NoConn /\ sock' = [sock EXCEPT ![fdTable[f]] = "closed"]
      <4>1. fd # f /\ fdTable[fd] # fdTable[f] /\ fdTable[fd] \in Conns
        BY <1>2, <2>1, <3>1, <3>3 DEF ConnInv, Sockets
      <4>. QED BY <1>2, <3>1, <3>3, <4>1
    <3>. QED BY <3>2, <3>3
  <2>2. ASSUME NEW fd \in Fds, NEW gd \in Fds, fdTable'[fd] = fdTable'[gd],
               fdTable'[fd] # NoConn
        PROVE  fd = gd
    BY <2>2 DEF ConnInv, Sockets
  <2>. QED BY <2>1, <2>2 DEF Sockets
<1>5. Standing'
  <2>1. ASSUME NEW u \in Threads, pc'[u] \in RunningLabels
        PROVE  users'[job'[u].fd].is_running
    <3>1. CASE u = t
      BY <2>1, <3>1
    <3>2. CASE u # t
      <4>1. pc[u] \in RunningLabels /\ job[u] # NoJob
        BY <2>1, <3>2 DEF Typing, Labels, RunningLabels
      <4>. QED BY <1>1, <1>3, <3>2, <4>1 DEF ConnInv, Standing
    <3>. QED BY <3>1, <3>2
  <2>2. ASSUME NEW fd \in Fds, fdTable'[fd] # NoConn, ~users'[fd].is_running
        PROVE  ~users'[fd].isKeepAlive \/ InTransit(fd, StoppedLabels)'
    <3>1. CASE fd = f
      BY <2>2, <3>1 DEF InTransit
    <3>2. CASE fd # f
      <4>1. ~users[fd].isKeepAlive \/ InTransit(fd, StoppedLabels)
        BY <2>2, <3>2 DEF ConnInv, Standing
      <4>2. ASSUME InTransit(fd, StoppedLabels) PROVE InTransit(fd, StoppedLabels)'
        BY <1>1, <3>2, <4>2 DEF InTransit
      <4>. QED BY <3>2, <4>1, <4>2
    <3>. QED BY <3>1, <3>2
  <2>. QED BY <2>1, <2>2 DEF Standing
<1>6. Watched'
  <2>1. \A fd \in Fds : fd # f /\ HeldFd(fd) => HeldFd(fd)'
    <3>1. CASE job' = job
      BY <3>1, HeldSame DEF HeldFd
    <3>2. CASE job' = [job EXCEPT ![t] = NoJob]
      BY <3>2, HeldDone DEF HeldFd
    <3>. QED BY <3>1, <3>2
  <2>2. job' = job => HeldFd(f)'
    BY JobHeld, HeldSame DEF HeldFd
  <2>3. ASSUME NEW fd \in Fds, fd # f
        PROVE  /\ epoll'[fd] = "off" => HeldFd(fd)'
               /\ fdTable'[fd] # NoConn /\ epoll'[fd] = "absent"
                     => HeldFd(fd)' \/ ~users'[fd].is_running
    BY <2>1, <2>3 DEF ConnInv, Watched
  <2>. QED BY <2>2, <2>3 DEF Watched
<1>. QED BY <1>4, <1>5, <1>6 DEF ConnInv

LEMMA ConnClients == ASSUME Typing, ConnInv, Clients PROVE ConnInv'
<1>. USE DEF kernelVars, heapVars, loopVars, threadVars
<1>1. /\ UNCHANGED <<fdTable, users, epoll, pc, job, batch, tasks_queue>>
      /\ \A c \in Conns : sock[c] = "open" => sock'[c] = "open"
  BY DEF Clients, Connect, Send, Leave, Typing, TypeOK
<1>2. Held' = Held
  BY <1>1, HeldSame
<1>3. \A fd \in Fds : HeldFd(fd)' <=> HeldFd(fd)
  BY <1>2 DEF HeldFd
<1>4. \A t \in Threads : pc'[t] \in RunningLabels => users[job'[t].fd].is_running
  BY <1>1 DEF ConnInv, Standing
<1>. QED BY <1>1, <1>3, <1>4, ConnElsewhere DEF Typing, TypeOK

\* A handler that is not within close() knows its HttpConnect.
LEMMA OwnStanding ==
    ASSUME Typing, HandlerInv, ConnInv, NEW t \in Threads, job[t] # NoJob,
           pc[t] \notin StoppedLabels, fdTable[job[t].fd] # NoConn,
           ~users[job[t].fd].is_running
    PROVE  ~users[job[t].fd].isKeepAlive
<1>1. job[t].fd \in Fds /\ ~InTransit(job[t].fd, StoppedLabels)
  BY JobFacts DEF InTransit
<1>. QED BY <1>1 DEF ConnInv, Standing

LEMMA ConnWorker ==
    ASSUME Typing, HandlerInv, ConnInv, NEW w \in Workers, WorkerStep(w)
    PROVE  ConnInv'
<1>. USE DEF netVars, kernelVars, heapVars, loopVars, threadVars, historyVars, At, Goto
<1>0. w \in Threads /\ w # Main
  BY ReactorAssumption DEF Threads
<1>1. CASE Take(w)
  <2>1. Held' = Held
    BY <1>1, HeldTake
  <2>2. \A fd \in Fds : HeldFd(fd)' <=> HeldFd(fd)
    BY <2>1 DEF HeldFd
  <2>3. /\ UNCHANGED <<fdTable, users, sock, epoll>>
        /\ pc'[w] \in {"read", "write"} /\ pc[w] = "idle"
        /\ \A v \in Threads : v # w => pc'[v] = pc[v] /\ job'[v] = job[v]
    BY <1>0, <1>1 DEF Take, Typing, TypeOK
  <2>4. \A t \in Threads : pc'[t] \in RunningLabels => users[job'[t].fd].is_running
    BY <2>3 DEF ConnInv, Standing, RunningLabels
  <2>5. \A t \in Threads : pc[t] \in StoppedLabels => pc'[t] = pc[t] /\ job'[t] = job[t]
    BY <2>3 DEF StoppedLabels
  <2>. QED BY <2>2, <2>3, <2>4, <2>5, ConnElsewhere DEF Typing, TypeOK
\* What the steps after Take know.
<1>2. ASSUME pc[w] \in {"read", "process", "rearmIn", "rearmOut", "write"}
      PROVE  /\ job[w] # NoJob /\ job[w].fd \in Fds
             /\ fdTable[job[w].fd] \in Conns /\ fdTable[job[w].fd] # NoConn
             /\ users[job[w].fd] \in HttpConnect
             /\ ~users[job[w].fd].is_running => ~users[job[w].fd].isKeepAlive
             /\ pc[w] = "process" => users[job[w].fd].is_running
             /\ epoll[job[w].fd] = "off"
  <2>1. job[w] # NoJob
    BY <1>0, <1>2 DEF Typing, Labels
  <2>2. /\ job[w].fd \in Fds /\ fdTable[job[w].fd] \in Conns /\ fdTable[job[w].fd] # NoConn
    BY <1>0, <1>2, <2>1, JobFacts, JobConn, ReactorAssumption
  <2>3. ~users[job[w].fd].is_running => ~users[job[w].fd].isKeepAlive
    BY <1>0, <1>2, <2>1, <2>2, OwnStanding DEF StoppedLabels
  <2>4. epoll[job[w].fd] = "off"
    BY <1>0, <1>2 DEF HandlerInv, HolderInv, HandlerAt, HandlingLabels, Reported
  <2>5. pc[w] = "process" => users[job[w].fd].is_running
    BY <1>0 DEF ConnInv, Standing, RunningLabels
  <2>. QED BY <2>1, <2>2, <2>3, <2>4, <2>5 DEF Typing, TypeOK
<1>. DEFINE f == job[w].fd
            u == users[f]
\* Most steps change the HttpConnect and the label only.
<1>3. ASSUME pc[w] \in {"read", "process", "write"},
             \A t \in Threads : t # w => pc'[t] = pc[t],
             \A fd \in Fds : fd # f => users'[fd] = users[fd],
             pc'[w] \notin {"closeStop", "failStop"},
             pc'[w] = "process" => users'[f].is_running,
             ~users'[f].is_running => ~users'[f].isKeepAlive,
             UNCHANGED <<fdTable, sock, epoll, batch, tasks_queue, job>>
      PROVE  ConnInv'
  <2>1. job[w] # NoJob /\ f \in Fds
    BY <1>2, <1>3
  <2>2. pc'[w] \in RunningLabels => pc'[w] = "process"
    BY <1>3 DEF RunningLabels
  <2>3. \A fd \in Fds : fd # f =>
            /\ fdTable'[fd] = fdTable[fd] /\ epoll'[fd] = epoll[fd]
            /\ users'[fd] = users[fd]
    BY <1>3
  <2>4. PICK g \in Fds : g = f
    BY <2>1
  <2>. QED BY <1>0, <1>3, <2>1, <2>2, <2>3, <2>4, ConnStep
<1>11. ASSUME NEW l, pc' = [pc EXCEPT ![w] = l]
       PROVE  pc'[w] = l /\ \A t \in Threads : t # w => pc'[t] = pc[t]
  BY <1>0, <1>11 DEF Typing, TypeOK
<1>12. ASSUME NEW v, f \in Fds, users' = [users EXCEPT ![f] = v]
       PROVE  users'[f] = v /\ \A fd \in Fds : fd # f => users'[fd] = users[fd]
  BY <1>12 DEF Typing, TypeOK
<1>4. CASE ReadFails(w)
  <2>1. /\ pc[w] = "read" /\ pc' = [pc EXCEPT ![w] = "delFd"]
        /\ users' = IF u.is_running THEN [users EXCEPT ![f] = filled(u, FALSE)] ELSE users
        /\ UNCHANGED <<fdTable, sock, epoll, batch, tasks_queue, job>>
    BY <1>4 DEF ReadFails
  <2>2. f \in Fds /\ u \in HttpConnect /\ (~u.is_running => ~u.isKeepAlive)
    BY <1>2, <2>1
  <2>3. pc'[w] = "delFd" /\ \A t \in Threads : t # w => pc'[t] = pc[t]
    BY <1>11, <2>1
  <2>4. CASE u.is_running
    <3>1. users'[f] = filled(u, FALSE) /\ \A fd \in Fds : fd # f => users'[fd] = users[fd]
      BY <1>12, <2>1, <2>2, <2>4
    <3>2. users'[f].is_running
      BY <2>2, <2>4, <3>1 DEF filled, HttpConnect
    <3>. QED BY <1>3, <2>1, <2>3, <3>1, <3>2
  <2>5. CASE ~u.is_running
    BY <1>3, <2>1, <2>2, <2>3, <2>5
  <2>. QED BY <2>4, <2>5
<1>5. CASE ProcessNothing(w) \/ WriteFails(w) \/ WriteSigpipe(w)
  <2>1. /\ pc[w] \in {"process", "write"}
        /\ \E l \in {"rearmIn", "failLoad", "write"} : pc' = [pc EXCEPT ![w] = l]
        /\ UNCHANGED <<fdTable, sock, epoll, batch, tasks_queue, job, users>>
    BY <1>0, <1>5 DEF ProcessNothing, WriteFails, WriteSigpipe, Typing, TypeOK
  <2>2. /\ pc'[w] \in {"rearmIn", "failLoad", "write"}
        /\ \A t \in Threads : t # w => pc'[t] = pc[t]
    BY <1>11, <2>1
  <2>. QED BY <1>2, <1>3, <2>1, <2>2
<1>6. CASE WriteNothing(w)
  <2>1. /\ pc[w] = "write" /\ pc' = [pc EXCEPT ![w] = afterWrite(u)]
        /\ UNCHANGED <<fdTable, users, sock, epoll, batch, tasks_queue, job>>
    BY <1>6 DEF WriteNothing
  <2>2. u \in HttpConnect /\ (~u.is_running => ~u.isKeepAlive)
    BY <1>2, <2>1
  <2>3. /\ afterWrite(u) \notin {"closeStop", "failStop"}
        /\ afterWrite(u) = "process" => u.isKeepAlive
    BY DEF afterWrite
  <2>4. pc'[w] = afterWrite(u) /\ \A t \in Threads : t # w => pc'[t] = pc[t]
    BY <1>11, <2>1
  <2>5. afterWrite(u) = "process" => u.is_running
    BY <2>2, <2>3 DEF HttpConnect
  <2>. QED BY <1>3, <2>1, <2>2, <2>3, <2>4, <2>5
<1>7. CASE Rearm(w)
  <2>1. /\ pc[w] \in {"rearmIn", "rearmOut"} /\ job' = [job EXCEPT ![w] = NoJob]
        /\ mod_fd(f, IF pc[w] = "rearmIn" THEN "in" ELSE "out")
        /\ pc' = [pc EXCEPT ![w] = "idle"]
        /\ UNCHANGED <<fdTable, users, sock, batch, tasks_queue>>
    BY <1>0, <1>7 DEF Rearm, Done
  <2>2. /\ job[w] # NoJob /\ f \in Fds /\ epoll[f] = "off"
        /\ ~users[f].is_running => ~users[f].isKeepAlive
    BY <1>2, <2>1
  <2>3. PICK g \in Fds : g = f
    BY <2>2
  <2>4. epoll'[g] \in {"in", "out"} /\ \A fd \in Fds : fd # g => epoll'[fd] = epoll[fd]
    BY <2>1, <2>2, <2>3 DEF mod_fd, Typing, TypeOK
  <2>5. pc'[w] = "idle" /\ \A v \in Threads : v # w => pc'[v] = pc[v]
    BY <1>0, <2>1 DEF Typing, TypeOK
  <2>. QED BY <1>0, <2>1, <2>2, <2>3, <2>4, <2>5, ConnStep DEF RunningLabels
<1>8. CASE Read(w)
  <2>1. /\ pc[w] = "read" /\ users' = [users EXCEPT ![f] = filled(u, fdTable[f] \in data)]
        /\ pc' = [pc EXCEPT ![w] = "process"] /\ u.is_running
        /\ UNCHANGED <<fdTable, sock, epoll, batch, tasks_queue, job>>
    BY <1>8 DEF Read
  <2>2. f \in Fds /\ u \in HttpConnect
    BY <1>2, <2>1
  <2>3. /\ users'[f] = filled(u, fdTable[f] \in data)
        /\ \A fd \in Fds : fd # f => users'[fd] = users[fd]
    BY <1>12, <2>1, <2>2
  <2>4. users'[f].is_running
    BY <2>1, <2>2, <2>3 DEF filled, HttpConnect
  <2>5. pc'[w] = "process" /\ \A t \in Threads : t # w => pc'[t] = pc[t]
    BY <1>11, <2>1
  <2>. QED BY <1>3, <2>1, <2>3, <2>4, <2>5
<1>9. CASE Process(w)
  <2>1. PICK r \in Requests :
          /\ users' = [users EXCEPT ![f] = respond(u, r)]
          /\ pc' = [pc EXCEPT ![w] = IF r.ok THEN "rearmOut" ELSE "rearmIn"]
    BY <1>9 DEF Process
  <2>2. pc[w] = "process" /\ UNCHANGED <<fdTable, sock, epoll, batch, tasks_queue, job>>
    BY <1>9 DEF Process
  <2>3. f \in Fds /\ u.is_running /\ u \in HttpConnect
    BY <1>2, <2>2
  <2>4. users'[f] = respond(u, r) /\ \A fd \in Fds : fd # f => users'[fd] = users[fd]
    BY <1>12, <2>1, <2>3
  <2>5. users'[f].is_running
    BY <2>3, <2>4 DEF respond, HttpConnect
  <2>6. pc'[w] \in {"rearmOut", "rearmIn"} /\ \A t \in Threads : t # w => pc'[t] = pc[t]
    BY <1>11, <2>1
  <2>. QED BY <1>3, <2>2, <2>4, <2>5, <2>6
<1>10. CASE Write(w)
  <2>1. PICK all \in BOOLEAN :
          /\ users' = [users EXCEPT ![f] = written(u, all)]
          /\ pc' = [pc EXCEPT ![w] = afterWrite(written(u, all))]
    BY <1>10 DEF Write
  <2>2. /\ pc[w] = "write" /\ u.is_running
        /\ UNCHANGED <<fdTable, sock, epoll, batch, tasks_queue, job>>
    BY <1>10 DEF Write, CanWrite
  <2>3. f \in Fds /\ u \in HttpConnect
    BY <1>2, <2>2
  <2>4. /\ users'[f] = written(u, all)
        /\ \A fd \in Fds : fd # f => users'[fd] = users[fd]
        /\ pc'[w] = afterWrite(users'[f]) /\ \A t \in Threads : t # w => pc'[t] = pc[t]
    BY <1>11, <1>12, <2>1, <2>3
  <2>5. users'[f] \in HttpConnect /\ users'[f].is_running = users'[f].isKeepAlive
    BY <2>2, <2>3, <2>4 DEF written, HttpConnect
  <2>6. /\ pc'[w] \notin {"closeStop", "failStop"}
        /\ pc'[w] = "process" => users'[f].isKeepAlive
    BY <2>4 DEF afterWrite
  <2>7. /\ pc'[w] = "process" => users'[f].is_running
        /\ ~users'[f].is_running => ~users'[f].isKeepAlive
    BY <2>5, <2>6 DEF HttpConnect
  <2>. QED BY <1>3, <2>2, <2>4, <2>6, <2>7
<1>. QED BY <1>1, <1>4, <1>5, <1>6, <1>7, <1>8, <1>9, <1>10 DEF WorkerStep

LEMMA ConnClose ==
    ASSUME Typing, HandlerInv, ConnInv, NEW t \in Threads, CloseStep(t)
    PROVE  ConnInv'
<1>. USE DEF netVars, kernelVars, heapVars, loopVars, threadVars, historyVars, At, Goto
<1>0. pc[t] \in CloseLabels \cup {"failLoad", "failStop", "failCount", "failFd"}
  BY DEF CloseStep, DelFd, DelTimer, CloseLoad, CloseStop, CloseCount, CloseFd, CloseLabels
<1>1. job[t] # NoJob
  BY <1>0 DEF Typing, Labels, CloseLabels
<1>2. PICK f \in Fds : f = job[t].fd
  BY <1>1, JobFacts
<1>3. /\ pc[t] \notin {"delFd", "delTimer", "closeLoad"} =>
             fdTable[f] = job[t].conn /\ fdTable[f] \in Conns /\ fdTable[f] # NoConn
      /\ pc[t] \in {"closeLoad", "closeStop", "closeCount", "closeFd"} => epoll[f] = "absent"
      /\ users[f] \in HttpConnect
  BY <1>1, <1>2, JobConn, ReactorAssumption
     DEF HandlerInv, HolderInv, HandlerAt, ClosingLabels, Typing, TypeOK
\* Before the object stops.
<1>4. ASSUME pc[t] \notin StoppedLabels, fdTable[f] # NoConn
      PROVE  ~users[f].is_running => ~users[f].isKeepAlive
  BY <1>1, <1>2, <1>4, OwnStanding
<1>5. CASE DelFd(t) \/ DelTimer(t)
  <2>1. /\ pc' \in {[pc EXCEPT ![t] = "delTimer"], [pc EXCEPT ![t] = "closeLoad"]}
        /\ UNCHANGED <<fdTable, users, sock, batch, tasks_queue, job>>
        /\ epoll' = epoll \/ epoll' = [epoll EXCEPT ![f] = "absent"]
        /\ pc[t] \in {"delFd", "delTimer"}
    BY <1>2, <1>5 DEF DelFd, DelTimer
  <2>2. /\ pc'[t] \in {"delTimer", "closeLoad"}
        /\ \A u \in Threads : u # t => pc'[u] = pc[u]
        /\ \A fd \in Fds : fd # f => epoll'[fd] = epoll[fd]
    BY <2>1 DEF Typing, TypeOK
  <2>3. fdTable[f] # NoConn => (~users[f].is_running => ~users[f].isKeepAlive)
    BY <1>4, <2>1 DEF StoppedLabels
  <2>. QED BY <1>1, <1>2, <2>1, <2>2, <2>3, ConnStep DEF RunningLabels
<1>6. CASE CloseLoad(t)
  <2>1. /\ pc[t] \in {"closeLoad", "failLoad"}
        /\ UNCHANGED <<fdTable, users, sock, epoll, batch, tasks_queue>>
    BY <1>6 DEF CloseLoad
  <2>2. fdTable[f] # NoConn => (~users[f].is_running => ~users[f].isKeepAlive)
    BY <1>4, <2>1 DEF StoppedLabels
  <2>3. CASE ~users[f].is_running /\ pc[t] = "closeLoad"
    <3>1. /\ pc' = [pc EXCEPT ![t] = IF t = Main THEN "batch" ELSE "idle"]
          /\ job' = [job EXCEPT ![t] = NoJob]
      BY <1>2, <1>6, <2>3 DEF CloseLoad, Done
    <3>2. pc'[t] \in {"batch", "idle"} /\ \A u \in Threads : u # t => pc'[u] = pc[u]
      BY <3>1 DEF Typing, TypeOK
    <3>3. epoll[f] = "absent"
      BY <1>3, <2>3
    <3>. QED BY <1>1, <1>2, <2>1, <2>2, <2>3, <3>1, <3>2, <3>3, ConnStep DEF RunningLabels
  <2>4. CASE users[f].is_running \/ pc[t] = "failLoad"
    <3>1. PICK l : /\ pc' = [pc EXCEPT ![t] = l] /\ job' = job
                   /\ \/ l \in {"closeStop", "failStop"} /\ users[f].is_running
                      \/ l = "delFd"
      BY <1>2, <1>6, <2>1, <2>4 DEF CloseLoad
    <3>2. pc'[t] = l /\ \A u \in Threads : u # t => pc'[u] = pc[u]
      BY <3>1 DEF Typing, TypeOK
    <3>. QED BY <1>1, <1>2, <2>1, <2>2, <3>1, <3>2, ConnStep DEF RunningLabels
  <2>. QED BY <2>1, <2>3, <2>4
<1>7. CASE CloseStop(t) \/ CloseCount(t)
  <2>1. /\ UNCHANGED <<fdTable, sock, epoll, batch, tasks_queue, job>>
        /\ users' = users \/ users' = [users EXCEPT ![f].is_running = FALSE]
    BY <1>2, <1>7 DEF CloseStop, CloseCount, stopped
  <2>2. PICK l \in StoppedLabels : pc' = [pc EXCEPT ![t] = l]
    BY <1>7 DEF CloseStop, CloseCount, StoppedLabels
  <2>3. /\ pc'[t] = l /\ \A u \in Threads : u # t => pc'[u] = pc[u]
        /\ \A fd \in Fds : fd # f => users'[fd] = users[fd]
    BY <2>1, <2>2 DEF Typing, TypeOK
  <2>4. l \notin RunningLabels
    BY DEF StoppedLabels, RunningLabels
  <2>. QED BY <1>1, <1>2, <2>1, <2>3, <2>4, ConnStep
<1>8. CASE CloseFd(t)
  <2>1. /\ pc[t] \in {"closeFd", "failFd"} /\ fdTable[f] # NoConn
        /\ fdTable' = [fdTable EXCEPT ![f] = NoConn]
        /\ epoll' = [epoll EXCEPT ![f] = "absent"]
        /\ sock' = [sock EXCEPT ![fdTable[f]] = "closed"]
        /\ UNCHANGED <<users, batch, tasks_queue>>
    BY <1>2, <1>3, <1>8 DEF CloseFd, SysClose, Ends
  <2>2. PICK l \in {"batch", "idle", "delFd"} :
           /\ pc' = [pc EXCEPT ![t] = l]
           /\ job' = job \/ job' = [job EXCEPT ![t] = NoJob]
    BY <1>8 DEF CloseFd, Done
  <2>3. /\ pc'[t] = l /\ \A u \in Threads : u # t => pc'[u] = pc[u]
        /\ \A fd \in Fds : fd # f => fdTable'[fd] = fdTable[fd] /\ epoll'[fd] = epoll[fd]
        /\ fdTable'[f] = NoConn /\ epoll'[f] = "absent"
    BY <2>1, <2>2 DEF Typing, TypeOK
  <2>. QED BY <1>1, <1>2, <2>1, <2>2, <2>3, ConnStep DEF RunningLabels
<1>. QED BY <1>5, <1>6, <1>7, <1>8 DEF CloseStep

LEMMA ConnMain ==
    ASSUME Typing, HandlerInv, ConnInv, MainStep, ~overtaken' PROVE ConnInv'
<1>. USE ReactorAssumption
         DEF netVars, kernelVars, heapVars, loopVars, threadVars, historyVars, At, Goto
<1>0. /\ fdTable \in [Fds -> Conns \cup {NoConn}] /\ Main \in Threads
      /\ \A t \in Threads : pc[t] \in RunningLabels => users[job[t].fd].is_running
  BY DEF Typing, TypeOK, ConnInv, Standing, Threads
<1>1. CASE EpollWait
  <2>1. /\ UNCHANGED <<fdTable, users, sock, pc, job, tasks_queue>> /\ batch = {}
        /\ Tasks' = Tasks /\ Jobs' = Jobs
    BY <1>1 DEF EpollWait, Tasks, Jobs
  <2>2. PICK writable \in SUBSET OutArmed :
          LET ready == HupReady \cup InReady \cup writable IN
          /\ batch' = Report(HupReady, "hup") \cup Report(InReady, "in")
                         \cup Report(writable, "out")
          /\ epoll' = [fd \in Fds |->
                           IF fd \in ready THEN reported(fd) ELSE epoll[fd]]
    BY <1>1 DEF EpollWait
  <2>3. Held' = Held \cup batch'
    BY <2>1 DEF Held
  <2>4. ASSUME NEW fd \in Fds, NEW S, NEW k, fd \in S, Report(S, k) \subseteq batch'
        PROVE  HeldFd(fd)'
    <3>1. [fd |-> fd, conn |-> fdTable[fd], kind |-> k] \in Report(S, k)
      BY <2>4 DEF Report
    <3>. QED BY <2>3, <2>4, <3>1 DEF HeldFd
  <2>5. ASSUME NEW fd \in Fds, epoll'[fd] # epoll[fd] PROVE epoll'[fd] = "off" /\ HeldFd(fd)'
    <3>1. fd \in HupReady \/ fd \in InReady \/ fd \in writable
      BY <2>2, <2>5
    <3>2. epoll'[fd] = "off"
      BY <2>2, <2>5 DEF reported
    <3>. QED BY <2>2, <2>4, <3>1, <3>2
  <2>6. \A fd \in Fds : HeldFd(fd) => HeldFd(fd)'
    BY <2>3 DEF HeldFd
  <2>. QED BY <1>0, <2>1, <2>5, <2>6, ConnElsewhere
<1>2. ASSUME NEW e \in batch, HandleReadWrite_(e) \/ HandleHup(e) PROVE ConnInv'
  <2>1. Held' = Held /\ UNCHANGED <<fdTable, users, sock, epoll>>
    BY <1>2, HeldDispatch
  <2>2. \A fd \in Fds : HeldFd(fd)' <=> HeldFd(fd)
    BY <2>1 DEF HeldFd
  <2>3. \A t \in Threads : pc'[t] \in RunningLabels =>
           pc[t] \in RunningLabels /\ job'[t] = job[t]
    BY <1>2 DEF HandleReadWrite_, HandleHup, Typing, TypeOK, RunningLabels
  <2>4. \A t \in Threads : pc[t] \in StoppedLabels => pc'[t] = pc[t] /\ job'[t] = job[t]
    BY <1>2 DEF HandleReadWrite_, HandleHup, Typing, TypeOK, StoppedLabels
  <2>. QED BY <1>0, <2>1, <2>2, <2>3, <2>4, ConnElsewhere
<1>3. CASE HandleListen_ \/ AcceptFails \/ AcceptRefused \/ RefuseSigpipe
  <2>1. /\ UNCHANGED <<fdTable, users, epoll, batch, tasks_queue, job>>
        /\ pc' \in {pc, [pc EXCEPT ![Main] = "accept"], [pc EXCEPT ![Main] = "batch"]}
        /\ pc[Main] \in {"batch", "accept"}
    BY <1>3 DEF HandleListen_, AcceptFails, AcceptRefused, RefuseSigpipe
  <2>2. \A c \in Conns : sock[c] = "open" => sock'[c] = "open"
    <3>1. sock' = sock \/ \E c \in Backlog : sock' = [sock EXCEPT ![c] = "closed"]
      BY <1>3 DEF HandleListen_, AcceptFails, AcceptRefused, RefuseSigpipe, Ends
    <3>. QED BY <3>1 DEF Backlog, Typing, TypeOK
  <2>3. Held' = Held
    BY <2>1, HeldSame
  <2>4. \A fd \in Fds : HeldFd(fd)' <=> HeldFd(fd)
    BY <2>3 DEF HeldFd
  <2>5. \A t \in Threads :
           \/ pc'[t] = pc[t]
           \/ pc[t] \in {"batch", "accept"} /\ pc'[t] \in {"batch", "accept"}
    BY <2>1 DEF Typing, TypeOK
  <2>. QED BY <1>0, <2>1, <2>2, <2>4, <2>5, ConnElsewhere DEF RunningLabels, StoppedLabels
<1>4. CASE Accept
  <2>0. /\ Backlog \subseteq Conns /\ \A c \in Backlog : sock[c] = "backlog"
        /\ \A fd \in FreeFds : fd \in Fds /\ fdTable[fd] = NoConn
    BY DEF Backlog, FreeFds
  <2>1. PICK c \in Backlog, fd \in FreeFds :
          /\ sock' = [sock EXCEPT ![c] = "open"]
          /\ fdTable' = [fdTable EXCEPT ![fd] = c]
          /\ users' = [users EXCEPT ![fd] = initConn(users[fd])]
          /\ job' = [job EXCEPT ![Main] = [fd |-> fd, conn |-> c, kind |-> "new"]]
          /\ overtaken' = (overtaken \/ \E e \in Held : e.fd = fd)
    BY <1>4 DEF Accept
  <2>2. /\ pc' = [pc EXCEPT ![Main] = "addEpoll"] /\ pc[Main] = "accept"
        /\ UNCHANGED <<epoll, batch, tasks_queue>>
        /\ c \in Conns /\ fd \in Fds /\ fdTable[fd] = NoConn /\ sock[c] = "backlog"
    BY <1>4, <2>0 DEF Accept
  <2>. DEFINE new == [fd |-> fd, conn |-> c, kind |-> "new"]
  <2>3. job[Main] = NoJob /\ new # NoJob /\ new.fd = fd
    BY <1>0, <2>2 DEF Typing, Labels, Events, Kinds
  <2>. HIDE DEF new
  <2>4. \A t \in Threads : job'[t] = IF t = Main THEN new ELSE job[t]
    BY <2>1 DEF Typing, TypeOK, new
  <2>5. Jobs' = Jobs \cup {new}
    BY <1>0, <2>3, <2>4 DEF Jobs
  <2>6. Held' = Held \cup {new}
    BY <2>2, <2>5 DEF Held, Tasks
  <2>7. /\ \A gd \in Fds : fdTable'[gd] = IF gd = fd THEN c ELSE fdTable[gd]
        /\ \A d \in Conns : sock'[d] = IF d = c THEN "open" ELSE sock[d]
        /\ \A gd \in Fds : gd # fd => users'[gd] = users[gd]
        /\ users'[fd].is_running
    BY <2>1, <2>2 DEF Typing, TypeOK, initConn, HttpConnect
  <2>8. Sockets'
    <3>1. \A gd \in Fds : fdTable[gd] # NoConn => fdTable[gd] \in Conns /\ fdTable[gd] # c
      BY <1>0, <2>2 DEF ConnInv, Sockets
    <3>2. ASSUME NEW gd \in Fds, fdTable'[gd] # NoConn PROVE sock'[fdTable'[gd]] = "open"
      BY <2>2, <2>7, <3>1, <3>2 DEF ConnInv, Sockets
    <3>3. ASSUME NEW gd \in Fds, NEW hd \in Fds, fdTable'[gd] = fdTable'[hd],
                 fdTable'[gd] # NoConn
          PROVE  gd = hd
      BY <2>7, <3>1, <3>3 DEF ConnInv, Sockets
    <3>. QED BY <3>2, <3>3 DEF Sockets
  <2>9. Standing'
    <3>1. ASSUME NEW t \in Threads, pc'[t] \in RunningLabels
          PROVE  users'[job'[t].fd].is_running
      <4>1. t # Main /\ pc[t] \in RunningLabels /\ job'[t] = job[t]
        BY <1>0, <2>2, <2>4, <3>1 DEF Typing, TypeOK, RunningLabels
      <4>2. job[t] # NoJob /\ job[t].fd \in Fds /\ users[job[t].fd].is_running
        BY <1>0, <4>1, JobFacts DEF Typing, Labels, RunningLabels
      <4>3. CASE job[t].fd = fd
        BY <2>7, <4>1, <4>3
      <4>4. CASE job[t].fd # fd
        BY <2>7, <4>1, <4>2, <4>4
      <4>. QED BY <4>3, <4>4
    <3>2. ASSUME NEW gd \in Fds, fdTable'[gd] # NoConn, ~users'[gd].is_running
          PROVE  ~users'[gd].isKeepAlive \/ InTransit(gd, StoppedLabels)'
      <4>1. gd # fd /\ fdTable[gd] # NoConn /\ users'[gd] = users[gd]
        BY <2>7, <3>2
      <4>2. ~users[gd].isKeepAlive \/ InTransit(gd, StoppedLabels)
        BY <3>2, <4>1 DEF ConnInv, Standing
      <4>3. ASSUME InTransit(gd, StoppedLabels) PROVE InTransit(gd, StoppedLabels)'
        <5>1. PICK t \in Threads : pc[t] \in StoppedLabels /\ job[t] # NoJob /\ job[t].fd = gd
          BY <4>3 DEF InTransit
        <5>2. t # Main /\ job'[t] = job[t] /\ pc'[t] = pc[t]
          BY <2>2, <2>4, <5>1 DEF StoppedLabels, Typing, TypeOK
        <5>. QED BY <5>1, <5>2 DEF InTransit
      <4>. QED BY <4>1, <4>2, <4>3
    <3>. QED BY <3>1, <3>2 DEF Standing
  <2>10. Watched'
    <3>1. HeldFd(fd)' /\ \A gd \in Fds : HeldFd(gd) => HeldFd(gd)'
      BY <2>3, <2>6 DEF HeldFd
    <3>2. ASSUME NEW gd \in Fds
          PROVE  /\ epoll'[gd] = "off" => HeldFd(gd)'
                 /\ fdTable'[gd] # NoConn /\ epoll'[gd] = "absent"
                       => HeldFd(gd)' \/ ~users'[gd].is_running
      <4>1. CASE gd = fd
        BY <3>1, <4>1
      <4>2. CASE gd # fd
        BY <2>2, <2>7, <3>1, <4>2 DEF ConnInv, Watched
      <4>. QED BY <4>1, <4>2
    <3>. QED BY <3>2 DEF Watched
  <2>. QED BY <2>8, <2>9, <2>10 DEF ConnInv
\* What AddClient_ knows of the connection it adds.
<1>5. ASSUME pc[Main] \in {"addEpoll", "addTimer"}
      PROVE  /\ job[Main] # NoJob /\ job[Main].fd \in Fds
             /\ fdTable[job[Main].fd] = job[Main].conn /\ fdTable[job[Main].fd] # NoConn
             /\ ~users[job[Main].fd].is_running => ~users[job[Main].fd].isKeepAlive
  <2>1. job[Main] # NoJob /\ pc[Main] \notin StoppedLabels
    BY <1>0, <1>5 DEF Typing, Labels, StoppedLabels
  <2>. QED BY <1>0, <1>5, <2>1, JobFacts, JobConn, OwnStanding
<1>6. CASE AddFdFails
  <2>1. PICK f \in Fds : f = job[Main].fd
    BY <1>5, <1>6 DEF AddFdFails
  <2>2. job[Main] # NoJob /\ fdTable[f] # NoConn
    BY <1>5, <1>6, <2>1 DEF AddFdFails
  <2>3. /\ job' = [job EXCEPT ![Main] = NoJob]
        /\ fdTable' = [fdTable EXCEPT ![f] = NoConn]
        /\ epoll' = [epoll EXCEPT ![f] = "absent"]
        /\ sock' = [sock EXCEPT ![fdTable[f]] = "closed"]
        /\ pc' = [pc EXCEPT ![Main] = IF ListenET THEN "accept" ELSE "batch"]
        /\ UNCHANGED <<users, batch, tasks_queue>>
    BY <1>6, <2>1, <2>2 DEF AddFdFails, SysClose, Ends, Accepted
  <2>4. /\ pc'[Main] \in {"accept", "batch"} /\ \A u \in Threads : u # Main => pc'[u] = pc[u]
        /\ \A fd \in Fds : fd # f => fdTable'[fd] = fdTable[fd] /\ epoll'[fd] = epoll[fd]
        /\ fdTable'[f] = NoConn /\ epoll'[f] = "absent"
    BY <1>0, <2>3 DEF Typing, TypeOK
  <2>. QED BY <1>0, <2>1, <2>2, <2>3, <2>4, ConnStep DEF RunningLabels
<1>7. CASE AddFd
  <2>1. PICK f \in Fds : f = job[Main].fd
    BY <1>5, <1>7 DEF AddFd
  <2>2. job[Main] # NoJob /\ (~users[f].is_running => ~users[f].isKeepAlive)
    BY <1>5, <1>7, <2>1 DEF AddFd
  <2>3. /\ pc' = [pc EXCEPT ![Main] = "addTimer"] /\ epoll' = [epoll EXCEPT ![f] = "in"]
        /\ UNCHANGED <<fdTable, users, sock, batch, tasks_queue, job>>
    BY <1>7, <2>1 DEF AddFd
  <2>4. /\ pc'[Main] = "addTimer" /\ \A u \in Threads : u # Main => pc'[u] = pc[u]
        /\ \A fd \in Fds : fd # f => epoll'[fd] = epoll[fd]
    BY <1>0, <2>3 DEF Typing, TypeOK
  <2>. QED BY <1>0, <2>1, <2>2, <2>3, <2>4, ConnStep DEF RunningLabels
<1>8. CASE AddTimer
  <2>1. PICK f \in Fds : f = job[Main].fd
    BY <1>5, <1>8 DEF AddTimer
  <2>2. job[Main] # NoJob /\ (~users[f].is_running => ~users[f].isKeepAlive)
    BY <1>5, <1>8, <2>1 DEF AddTimer
  <2>3. /\ job' = [job EXCEPT ![Main] = NoJob]
        /\ pc' = [pc EXCEPT ![Main] = IF ListenET THEN "accept" ELSE "batch"]
        /\ UNCHANGED <<fdTable, users, sock, epoll, batch, tasks_queue>>
    BY <1>8 DEF AddTimer, Accepted
  <2>4. pc'[Main] \in {"accept", "batch"} /\ \A u \in Threads : u # Main => pc'[u] = pc[u]
    BY <1>0, <2>3 DEF Typing, TypeOK
  <2>5. epoll'[f] = "in"
    BY <1>0, <1>8, <2>1, <2>3 DEF AddTimer, HandlerInv, HolderInv, HandlerAt
  <2>. QED BY <1>0, <2>1, <2>2, <2>3, <2>4, <2>5, ConnStep DEF RunningLabels
<1>. QED BY <1>1, <1>2, <1>3, <1>4, <1>6, <1>7, <1>8 DEF MainStep

LEMMA ConnInvariant == Spec => [](~overtaken => ConnInv)
<1>1. Init => (~overtaken => ConnInv)
  BY ConnInit
<1>2. Typing /\ (~overtaken => HandlerInv) /\ (~overtaken => ConnInv) /\ [Next]_vars
        => (~overtaken => ConnInv)'
  <2> SUFFICES ASSUME Typing, HandlerInv, ConnInv, [Next]_vars, ~overtaken' PROVE ConnInv'
    BY OvertakenStays
  <2>1. CASE Clients
    BY <2>1, ConnClients
  <2>2. CASE MainStep
    BY <2>2, ConnMain
  <2>3. ASSUME NEW w \in Workers, WorkerStep(w) PROVE ConnInv'
    BY <2>3, ConnWorker
  <2>4. ASSUME NEW t \in Threads, CloseStep(t) PROVE ConnInv'
    BY <2>4, ConnClose
  <2>5. CASE UNCHANGED vars
    <3>. USE <2>5 DEF vars, netVars, kernelVars, heapVars, loopVars, threadVars
    <3>1. Sockets' /\ Standing'
      BY DEF ConnInv, Sockets, Standing, InTransit
    <3>2. Watched'
      BY DEF ConnInv, Watched, HeldFd, Held, Tasks, Jobs
    <3>. QED BY <3>1, <3>2 DEF ConnInv
  <2>. QED BY <2>1, <2>2, <2>3, <2>4, <2>5 DEF Next
<1>. QED BY <1>1, <1>2, TypingInvariant, HandlerInvariant, PTL DEF Spec

\* Only a connection without keep-alive can be forgotten open (CloseConn_ after
\* HttpConnect::close found it not running), until accept returns a number that
\* a thread is still closing after its failed write (Reactor!OrphansAreShort).
THEOREM OrphansOnlyShort == Spec => []OrphansAreShort
<1>1. Typing /\ (~overtaken => ConnInv) => OrphansAreShort
  <2> SUFFICES ASSUME Typing, ConnInv, NEW fd \in Fds, Orphan(fd)
               PROVE  ~users[fd].is_running /\ ~users[fd].isKeepAlive
    BY DEF OrphansAreShort
  <2>1. ~HeldFd(fd) /\ fdTable[fd] # NoConn /\ epoll[fd] = "absent"
    BY DEF Orphan, HeldFd
  <2>2. ~InTransit(fd, StoppedLabels)
    BY <2>1, JobHeld DEF InTransit
  <2>. QED BY <2>1, <2>2 DEF ConnInv, Standing, Watched
<1>. QED BY ConnInvariant, TypingInvariant, <1>1, PTL

-----------------------------------------------------------------------------
(* Counting the connections.  The count is lowered before the descriptor is *)
(* closed (Closing), and not at all for a connection that epoll refused to  *)
(* watch (refused): AddClient_ closes it without HttpConnect::close, and    *)
(* leaves its HttpConnect running.                                          *)

Counts ==
    /\ user_count + Cardinality(Closing)
           = Cardinality(OpenConns) + Cardinality(refused)
    /\ \A r \in refused : sock[r.conn] = "closed"
    /\ \A fd \in Fds : fdTable[fd] = NoConn /\ users[fd].is_running
                           => \E r \in refused : r.fd = fd

LEMMA CountFinite ==
    ASSUME Typing
    PROVE  /\ IsFiniteSet(OpenConns) /\ Cardinality(OpenConns) \in Nat
           /\ IsFiniteSet(Closing) /\ Cardinality(Closing) \in Nat
           /\ IsFiniteSet(refused) /\ Cardinality(refused) \in Nat
<1>1. IsFiniteSet(Conns) /\ IsFiniteSet(Fds) /\ IsFiniteSet(Threads)
  BY ReactorAssumption, FS_Union, FS_Singleton DEF Threads
<1>2. OpenConns \subseteq Conns /\ Closing \subseteq Threads
  BY DEF OpenConns, Closing
<1>3. refused \subseteq [fd : Fds, conn : Conns]
  BY DEF Typing, TypeOK
<1>4. IsFiniteSet(refused)
  <2>. DEFINE pairs == Fds \X Conns
              g == [r \in refused |-> <<r.fd, r.conn>>]
  <2>1. IsFiniteSet(pairs)
    BY <1>1, FS_Product
  <2>2. g \in Injection(refused, pairs)
    BY <1>3 DEF Injection, IsInjective
  <2>. HIDE DEF pairs, g
  <2>. QED BY <2>1, <2>2, FS_Injection
<1>. QED BY <1>1, <1>2, <1>4, FS_Subset, FS_CardinalityType

LEMMA CountInit == Init => Counts
<1>. SUFFICES ASSUME Init PROVE Counts
  OBVIOUS
<1>1. OpenConns = {} /\ Closing = {} /\ refused = {}
  BY DEF Init, OpenConns, Closing
<1>2. user_count + Cardinality(Closing) = Cardinality(OpenConns) + Cardinality(refused)
  BY <1>1, FS_EmptySet DEF Init
<1>. QED BY <1>1, <1>2 DEF Init, Counts, NewHttpConnect

\* A step that opens, closes and counts nothing, and starts no HttpConnect of a
\* free descriptor.
LEMMA CountElsewhere ==
    ASSUME Counts, UNCHANGED <<fdTable, user_count, refused>>,
           \A c \in Conns : /\ sock'[c] = "open" <=> sock[c] = "open"
                            /\ sock[c] = "closed" => sock'[c] = "closed",
           refused \subseteq [fd : Fds, conn : Conns],
           \A t \in Threads : pc'[t] \in {"closeFd", "failFd"} <=> pc[t] \in {"closeFd", "failFd"},
           \A fd \in Fds : fdTable[fd] = NoConn /\ users'[fd].is_running => users[fd].is_running
    PROVE  Counts'
<1>1. OpenConns' = OpenConns /\ Closing' = Closing
  BY DEF OpenConns, Closing
<1>2. \A r \in refused : r.conn \in Conns
  OBVIOUS
<1>. QED BY <1>1, <1>2 DEF Counts

\* close(2) on a descriptor that a thread works for.
LEMMA CountClosed ==
    ASSUME Typing, HandlerInv, ConnInv, NEW t \in Threads, job[t] # NoJob,
           fdTable[job[t].fd] # NoConn, SysClose(job[t].fd)
    PROVE  /\ Cardinality(OpenConns') = Cardinality(OpenConns) - 1
           /\ fdTable[job[t].fd] \in Conns /\ sock[fdTable[job[t].fd]] = "open"
           /\ sock' = [sock EXCEPT ![fdTable[job[t].fd]] = "closed"]
           /\ fdTable' = [fdTable EXCEPT ![job[t].fd] = NoConn]
<1>1. job[t].fd \in Fds
  BY JobFacts
<1>2. fdTable[job[t].fd] \in Conns /\ sock[fdTable[job[t].fd]] = "open"
  BY <1>1 DEF ConnInv, Sockets, Typing, TypeOK
<1>3. /\ sock' = [sock EXCEPT ![fdTable[job[t].fd]] = "closed"]
      /\ fdTable' = [fdTable EXCEPT ![job[t].fd] = NoConn]
  BY DEF SysClose, Ends
<1>4. OpenConns' = OpenConns \ {fdTable[job[t].fd]} /\ fdTable[job[t].fd] \in OpenConns
  BY <1>2, <1>3 DEF OpenConns, Typing, TypeOK
<1>5. Cardinality(OpenConns') = Cardinality(OpenConns) - 1
  BY <1>4, CountFinite, FS_RemoveElement
<1>. QED BY <1>2, <1>3, <1>5

LEMMA CountMain ==
    ASSUME Typing, HandlerInv, ConnInv, Counts, MainStep, ~overtaken'
    PROVE  Counts'
<1>. USE ReactorAssumption
         DEF netVars, kernelVars, heapVars, loopVars, threadVars, historyVars, At, Goto
<1>0. /\ Cardinality(OpenConns) \in Nat /\ user_count \in Int /\ Main \in Threads
      /\ Cardinality(Closing) \in Nat /\ Cardinality(refused) \in Nat
      /\ refused \subseteq [fd : Fds, conn : Conns]
  BY CountFinite DEF Typing, TypeOK, Threads
<1>1. CASE \/ EpollWait \/ HandleListen_ \/ AddFd \/ AddTimer
           \/ \E e \in batch : HandleReadWrite_(e) \/ HandleHup(e)
           \/ AcceptFails \/ AcceptRefused \/ RefuseSigpipe
  <2>1. UNCHANGED <<fdTable, users, user_count, refused>>
    BY <1>1 DEF EpollWait, HandleListen_, AcceptFails, AcceptRefused, RefuseSigpipe, AddFd,
                AddTimer, HandleReadWrite_, HandleHup
  <2>2. /\ pc' = pc \/ \E l \in MainLabels \cup {"delFd"} : pc' = [pc EXCEPT ![Main] = l]
        /\ pc[Main] \in MainLabels
    BY <1>1 DEF EpollWait, HandleListen_, AcceptFails, AcceptRefused, RefuseSigpipe, AddFd,
                AddTimer, HandleReadWrite_, HandleHup, Accepted, MainLabels
  <2>3. \A t \in Threads :
           pc'[t] \in {"closeFd", "failFd"} <=> pc[t] \in {"closeFd", "failFd"}
    BY <1>0, <2>2 DEF Typing, TypeOK, MainLabels
  <2>4. sock' = sock \/ \E c \in Backlog : sock' = [sock EXCEPT ![c] = "closed"]
    BY <1>1 DEF EpollWait, HandleListen_, AcceptFails, AcceptRefused, RefuseSigpipe, AddFd,
                AddTimer, HandleReadWrite_, HandleHup, Ends
  <2>5. \A c \in Conns : /\ sock'[c] = "open" <=> sock[c] = "open"
                         /\ sock[c] = "closed" => sock'[c] = "closed"
    BY <2>4 DEF Backlog, Typing, TypeOK
  <2>. QED BY <1>0, <2>1, <2>3, <2>5, CountElsewhere
<1>2. CASE Accept
  <2>0. /\ Backlog \subseteq Conns /\ \A c \in Backlog : sock[c] = "backlog"
        /\ \A fd \in FreeFds : fd \in Fds /\ fdTable[fd] = NoConn
    BY DEF Backlog, FreeFds
  <2>1. PICK c \in Backlog, fd \in FreeFds :
          /\ sock' = [sock EXCEPT ![c] = "open"]
          /\ fdTable' = [fdTable EXCEPT ![fd] = c]
          /\ users' = [users EXCEPT ![fd] = initConn(users[fd])]
          /\ job' = [job EXCEPT ![Main] = [fd |-> fd, conn |-> c, kind |-> "new"]]
          /\ overtaken' = (overtaken \/ \E e \in Held : e.fd = fd)
    BY <1>2 DEF Accept
  <2>2. /\ pc' = [pc EXCEPT ![Main] = "addEpoll"] /\ pc[Main] = "accept"
        /\ refused' = refused /\ user_count' = user_count + 1
        /\ c \in Conns /\ fd \in Fds /\ sock[c] = "backlog"
    BY <1>2, <2>0 DEF Accept
  <2>3. OpenConns' = OpenConns \cup {c} /\ c \notin OpenConns
    BY <2>1, <2>2 DEF OpenConns, Typing, TypeOK
  <2>4. Cardinality(OpenConns') = Cardinality(OpenConns) + 1
    BY <2>3, CountFinite, FS_AddElement
  <2>5. Closing' = Closing
    BY <1>0, <2>2 DEF Closing, Typing, TypeOK
  <2>6. /\ \A gd \in Fds : fdTable'[gd] = IF gd = fd THEN c ELSE fdTable[gd]
        /\ \A gd \in Fds : gd # fd => users'[gd] = users[gd]
        /\ \A r \in refused : r.conn \in Conns /\ r.conn # c
    BY <1>0, <2>1, <2>2 DEF Counts, Typing, TypeOK
  <2>7. user_count' + Cardinality(Closing') = Cardinality(OpenConns') + Cardinality(refused')
    BY <1>0, <2>2, <2>4, <2>5 DEF Counts
  <2>8. \A r \in refused' : sock'[r.conn] = "closed"
    BY <2>1, <2>2, <2>6 DEF Counts, Typing, TypeOK
  <2>9. ASSUME NEW gd \in Fds, fdTable'[gd] = NoConn, users'[gd].is_running
        PROVE  \E r \in refused' : r.fd = gd
    <3>1. gd # fd /\ fdTable[gd] = NoConn /\ users[gd].is_running
      BY <2>2, <2>6, <2>9
    <3>. QED BY <2>2, <3>1 DEF Counts
  <2>. QED BY <2>7, <2>8, <2>9 DEF Counts
<1>3. CASE AddFdFails
  <2>1. job[Main] # NoJob /\ pc[Main] = "addEpoll"
    BY <1>0, <1>3 DEF AddFdFails, Typing, Labels
  <2>2. PICK f \in Fds, c \in Conns :
           f = job[Main].fd /\ c = job[Main].conn /\ fdTable[f] = c
    BY <1>0, <2>1, JobFacts, JobConn
  <2>3. /\ Cardinality(OpenConns') = Cardinality(OpenConns) - 1 /\ sock[c] = "open"
        /\ sock' = [sock EXCEPT ![c] = "closed"] /\ fdTable' = [fdTable EXCEPT ![f] = NoConn]
    BY <1>0, <1>3, <2>1, <2>2, CountClosed DEF AddFdFails
  <2>4. /\ refused' = refused \cup {[fd |-> f, conn |-> c]}
        /\ UNCHANGED <<users, user_count>>
        /\ pc' = [pc EXCEPT ![Main] = IF ListenET THEN "accept" ELSE "batch"]
    BY <1>3, <2>2 DEF AddFdFails, Accepted
  <2>5. [fd |-> f, conn |-> c] \notin refused
    BY <2>3 DEF Counts
  <2>6. Cardinality(refused') = Cardinality(refused) + 1
    BY <2>4, <2>5, CountFinite, FS_AddElement
  <2>7. Closing' = Closing
    BY <1>0, <2>1, <2>4 DEF Closing, Typing, TypeOK
  <2>8. user_count' + Cardinality(Closing') = Cardinality(OpenConns') + Cardinality(refused')
    BY <1>0, <2>3, <2>4, <2>6, <2>7 DEF Counts
  <2>9. \A r \in refused' : sock'[r.conn] = "closed"
    BY <1>0, <2>3, <2>4 DEF Counts, Typing, TypeOK
  <2>10. ASSUME NEW gd \in Fds, fdTable'[gd] = NoConn, users'[gd].is_running
         PROVE  \E r \in refused' : r.fd = gd
    <3>1. CASE gd = f
      <4>. DEFINE r == [fd |-> f, conn |-> c]
      <4>1. r \in refused' /\ r.fd = f
        BY <2>4
      <4>. QED BY <3>1, <4>1
    <3>2. CASE gd # f
      <4>1. fdTable[gd] = NoConn /\ users[gd].is_running
        BY <2>3, <2>4, <2>10, <3>2
      <4>. QED BY <2>4, <4>1 DEF Counts
    <3>. QED BY <3>1, <3>2
  <2>. QED BY <2>8, <2>9, <2>10 DEF Counts
<1>. QED BY <1>1, <1>2, <1>3 DEF MainStep

LEMMA CountWorker ==
    ASSUME Typing, HandlerInv, ConnInv, Counts, NEW w \in Workers, WorkerStep(w)
    PROVE  Counts'
<1>. USE ReactorAssumption
         DEF netVars, kernelVars, heapVars, loopVars, threadVars, historyVars, At, Goto
<1>0. w \in Threads /\ w # Main /\ refused \subseteq [fd : Fds, conn : Conns]
  BY DEF Threads, Typing, TypeOK
<1>1. UNCHANGED <<fdTable, user_count, refused, sock>>
  BY DEF WorkerStep, Take, ReadFails, Read, ProcessNothing, Process, Rearm, WriteNothing,
         Write, WriteFails, WriteSigpipe
<1>2. /\ pc[w] \notin {"closeFd", "failFd"}
      /\ pc' = pc \/ \E l \in WorkerLabels \cup {"delFd"} :
                        pc' = [pc EXCEPT ![w] = l] /\ l # "failFd"
  <2>1. ASSUME NEW u PROVE afterWrite(u) \in {"rearmOut", "process", "delFd"}
    BY DEF afterWrite
  <2>. QED
    BY <1>0, <2>1 DEF WorkerStep, Take, ReadFails, Read, ProcessNothing, Process, Rearm, Done,
                 WriteNothing, Write, WriteFails, WriteSigpipe, WorkerLabels
<1>3. \A t \in Threads : pc'[t] \in {"closeFd", "failFd"} <=> pc[t] \in {"closeFd", "failFd"}
  BY <1>0, <1>2 DEF Typing, TypeOK, WorkerLabels
\* A handler changes the HttpConnect of its own descriptor only, which is open.
<1>4. \A fd \in Fds : fdTable[fd] = NoConn => users'[fd] = users[fd]
  <2>1. CASE users' = users
    BY <2>1
  <2>2. CASE ReadFails(w) \/ Read(w) \/ Process(w) \/ Write(w)
    <3>1. pc[w] \in {"read", "process", "write"}
      BY <2>2 DEF ReadFails, Read, Process, Write
    <3>2. job[w] # NoJob
      BY <1>0, <3>1 DEF Typing, Labels
    <3>3. fdTable[job[w].fd] # NoConn /\ job[w].fd \in Fds
      BY <1>0, <3>1, <3>2, JobFacts, JobConn
    <3>4. users' = users \/ \E v : users' = [users EXCEPT ![job[w].fd] = v]
      BY <2>2 DEF ReadFails, Read, Process, Write
    <3>. QED BY <3>3, <3>4 DEF Typing, TypeOK
  <2>3. CASE \/ Take(w) \/ ProcessNothing(w) \/ Rearm(w)
             \/ WriteNothing(w) \/ WriteFails(w) \/ WriteSigpipe(w)
    BY <2>3 DEF Take, ProcessNothing, Rearm, WriteNothing, WriteFails, WriteSigpipe
  <2>. QED BY <2>2, <2>3 DEF WorkerStep
<1>. QED BY <1>0, <1>1, <1>3, <1>4, CountElsewhere

LEMMA CountClose ==
    ASSUME Typing, HandlerInv, ConnInv, Counts, NEW t \in Threads, CloseStep(t)
    PROVE  Counts'
<1>. USE ReactorAssumption
         DEF netVars, kernelVars, heapVars, loopVars, threadVars, historyVars, At, Goto
<1>0. /\ Cardinality(OpenConns) \in Nat /\ user_count \in Int
      /\ Cardinality(Closing) \in Nat /\ Cardinality(refused) \in Nat
      /\ refused \subseteq [fd : Fds, conn : Conns]
  BY CountFinite DEF Typing, TypeOK
<1>1. CASE DelFd(t) \/ DelTimer(t) \/ CloseLoad(t) \/ CloseStop(t)
  <2>1. /\ UNCHANGED <<fdTable, user_count, refused, sock>>
        /\ users' = users \/ users' = stopped(job[t].fd)
    BY <1>1 DEF DelFd, DelTimer, CloseLoad, CloseStop
  <2>2. /\ pc[t] \notin {"closeFd", "failFd"}
        /\ \E l : pc' = [pc EXCEPT ![t] = l] /\ l \notin {"closeFd", "failFd"}
    BY <1>1 DEF DelFd, DelTimer, CloseLoad, CloseStop, Done
  <2>3. \A u \in Threads :
           pc'[u] \in {"closeFd", "failFd"} <=> pc[u] \in {"closeFd", "failFd"}
    BY <2>2 DEF Typing, TypeOK
  <2>4. ASSUME NEW fd \in Fds, users'[fd].is_running PROVE users[fd].is_running
    <3>1. CASE users' = users
      BY <2>4, <3>1
    <3>2. CASE users' = stopped(job[t].fd)
      <4>1. \/ users'[fd] = users[fd]
            \/ users'[fd] = [users[fd] EXCEPT !.is_running = FALSE]
        BY <3>2 DEF stopped, Typing, TypeOK
      <4>2. users[fd] \in HttpConnect
        BY DEF Typing, TypeOK
      <4>. QED BY <2>4, <4>1, <4>2 DEF HttpConnect
    <3>. QED BY <2>1, <3>1, <3>2
  <2>. QED BY <1>0, <2>1, <2>3, <2>4, CountElsewhere
<1>2. CASE CloseCount(t)
  <2>1. /\ UNCHANGED <<fdTable, refused, sock, users>> /\ user_count' = user_count - 1
        /\ pc[t] \in {"closeCount", "failCount"}
        /\ \E l \in {"closeFd", "failFd"} : pc' = [pc EXCEPT ![t] = l]
    BY <1>2 DEF CloseCount, countLowered
  <2>2. Closing' = Closing \cup {t} /\ t \notin Closing
    BY <2>1 DEF Closing, Typing, TypeOK
  <2>3. Cardinality(Closing') = Cardinality(Closing) + 1
    BY <2>2, CountFinite, FS_AddElement
  <2>4. OpenConns' = OpenConns
    BY <2>1 DEF OpenConns
  <2>. QED BY <1>0, <2>1, <2>3, <2>4 DEF Counts
<1>3. CASE CloseFd(t)
  <2>1. /\ pc[t] \in {"closeFd", "failFd"} /\ SysClose(job[t].fd)
        /\ UNCHANGED <<refused, users, user_count>>
        /\ \E l \in {"batch", "idle", "delFd"} : pc' = [pc EXCEPT ![t] = l]
    BY <1>3 DEF CloseFd, Done
  <2>2. job[t] # NoJob
    BY <2>1 DEF Typing, Labels
  <2>3. fdTable[job[t].fd] # NoConn
    BY <2>1, <2>2, JobConn
  <2>4. PICK f \in Fds : f = job[t].fd
    BY <2>2, JobFacts
  <2>5. /\ Cardinality(OpenConns') = Cardinality(OpenConns) - 1
        /\ sock' = [sock EXCEPT ![fdTable[f]] = "closed"]
        /\ fdTable' = [fdTable EXCEPT ![f] = NoConn]
    BY <2>1, <2>2, <2>3, <2>4, CountClosed
  <2>6. Closing' = Closing \ {t} /\ t \in Closing
    BY <2>1 DEF Closing, Typing, TypeOK
  <2>7. Cardinality(Closing') = Cardinality(Closing) - 1
    BY <2>6, CountFinite, FS_RemoveElement
  <2>8. ~users[f].is_running
    BY <2>1, <2>4 DEF HandlerInv, HolderInv, HandlerAt, StoppedLabels
  <2>9. \A r \in refused : sock'[r.conn] = "closed"
    BY <1>0, <2>5 DEF Counts, Typing, TypeOK
  <2>10. \A fd \in Fds : fdTable'[fd] = NoConn /\ users'[fd].is_running
                             => \E r \in refused : r.fd = fd
    BY <2>1, <2>5, <2>8 DEF Counts
  <2>. QED BY <1>0, <2>1, <2>5, <2>7, <2>9, <2>10 DEF Counts
<1>. QED BY <1>1, <1>2, <1>3 DEF CloseStep

LEMMA CountInvariant == Spec => [](~overtaken => Counts)
<1>1. Init => (~overtaken => Counts)
  BY CountInit
<1>2. Typing /\ (~overtaken => HandlerInv /\ ConnInv /\ Counts) /\ [Next]_vars
        => (~overtaken => Counts)'
  <2> SUFFICES ASSUME Typing, HandlerInv, ConnInv, Counts, [Next]_vars, ~overtaken'
               PROVE  Counts'
    BY OvertakenStays
  <2>0. refused \subseteq [fd : Fds, conn : Conns]
    BY DEF Typing, TypeOK
  <2>1. CASE Clients
    <3>1. UNCHANGED <<fdTable, users, user_count, refused, pc>>
      BY <2>1 DEF Clients, Connect, Send, Leave, heapVars, threadVars, historyVars, kernelVars
    <3>2. \A c \in Conns : /\ sock'[c] = "open" <=> sock[c] = "open"
                           /\ sock[c] = "closed" => sock'[c] = "closed"
      BY <2>1 DEF Clients, Connect, Send, Leave, Typing, TypeOK
    <3>. QED BY <2>0, <3>1, <3>2, CountElsewhere
  <2>2. CASE MainStep
    BY <2>2, CountMain
  <2>3. ASSUME NEW w \in Workers, WorkerStep(w) PROVE Counts'
    BY <2>3, CountWorker
  <2>4. ASSUME NEW t \in Threads, CloseStep(t) PROVE Counts'
    BY <2>4, CountClose
  <2>5. CASE UNCHANGED vars
    BY <2>0, <2>5, CountElsewhere DEF vars, netVars, kernelVars, heapVars, threadVars, historyVars
  <2>. QED BY <2>1, <2>2, <2>3, <2>4, <2>5 DEF Next
<1>. QED BY <1>1, <1>2, TypingInvariant, HandlerInvariant, ConnInvariant, PTL DEF Spec

\* user_count and the threads that have lowered it and not yet closed their
\* descriptor are together the open connections and those epoll refused to
\* watch, until accept returns a number that a thread is still closing after
\* its failed write (Reactor!UserCountExact).
THEOREM CountIsExact == Spec => []UserCountExact
<1>1. (~overtaken => Counts) => UserCountExact
  BY DEF Counts, UserCountExact
<1>. QED BY CountInvariant, <1>1, PTL

\* A descriptor given back to the kernel has no registration, no timer once its
\* handler is done, and no running HttpConnect that the next connection of that
\* number would inherit, unless epoll refused to watch it, on the same terms
\* (Reactor!FreeFdIsClean).
THEOREM FreeIsClean == Spec => []FreeFdIsClean
<1>1. Typing /\ (~overtaken => HandlerInv /\ Counts) => FreeFdIsClean
  <2>. SUFFICES ASSUME Typing, HandlerInv, Counts, NEW fd \in Fds, fdTable[fd] = NoConn
                PROVE  /\ epoll[fd] = "absent"
                       /\ fd \in timers => InTransit(fd, {"delFd", "delTimer"})
                       /\ users[fd].is_running => \E r \in refused : r.fd = fd
    BY DEF FreeFdIsClean, FreeFds
  <2>1. epoll[fd] = "absent"
    BY DEF Typing, Bound
  <2>2. users[fd].is_running => \E r \in refused : r.fd = fd
    BY DEF Counts
  <2>3. fd \in timers => Removing(fd)
    BY <2>1 DEF HandlerInv, TimerInv, TimerAt
  <2>. QED BY <2>1, <2>2, <2>3 DEF Removing, InTransit
<1>. QED BY CountInvariant, TypingInvariant, HandlerInvariant, <1>1, PTL
-----------------------------------------------------------------------------
(* The refinement: what every step does to the stage of every connection.  *)

\* The invariant the steps are considered under.
LifeInv == Typing /\ HandlerInv /\ ConnInv

LEMMA ClosingHolds ==
    ASSUME Typing, NEW t \in Closing
    PROVE  t \in Threads /\ job[t] # NoJob
BY DEF Closing, Typing, Labels

LEMMA StageOpen ==
    ASSUME LifeInv, NEW c \in Conns, sock[c] = "open"
    PROVE  /\ BeingClosed(c) => Stage(c) = "closing"
           /\ ~BeingClosed(c) /\ Served(c) => Stage(c) = "served"
           /\ ~Served(c) /\ Registered(c, {"in", "out"}) => Stage(c) = "watched"
           /\ ~Served(c) /\ ~Registered(c, {"in", "out"}) => Stage(c) = "dropped"
<1>1. ASSUME Registered(c, {"off"}) PROVE Served(c)
  <2>1. PICK fd \in Fds : fdTable[fd] = c /\ epoll[fd] = "off"
    BY <1>1 DEF Registered
  <2>2. PICK e \in Held : e.fd = fd
    BY <2>1 DEF LifeInv, ConnInv, Watched, HeldFd
  <2>. QED BY <2>1, <2>2 DEF Served
<1>2. BeingClosed(c) => Served(c)
  <2>1. ASSUME NEW t \in Closing, fdTable[job[t].fd] = c PROVE Served(c)
    BY <2>1, ClosingHolds, JobHeld DEF LifeInv, Served
  <2>. QED BY <2>1 DEF BeingClosed
<1>3. Stage(c) = IF BeingClosed(c) THEN "closing"
                 ELSE IF Served(c) THEN "served"
                 ELSE IF Registered(c, {"in", "out"}) THEN "watched"
                 ELSE IF Registered(c, {"off"}) THEN "lost" ELSE "dropped"
  BY DEF Stage
<1>. QED BY <1>1, <1>2, <1>3

LEMMA StageClosed ==
    ASSUME NEW c \in Conns
    PROVE  /\ sock[c] = "new" => Stage(c) = "new"
           /\ sock[c] = "backlog" => Stage(c) = "queued"
           /\ sock[c] = "closed" => Stage(c) = "closed"
BY DEF Stage

\* The stage of a connection stays when its socket, its handler and, if nobody
\* has it, its registration do.
LEMMA StageSame ==
    ASSUME NEW c \in Conns, sock'[c] = sock[c], Served(c)' <=> Served(c),
           BeingClosed(c)' <=> BeingClosed(c),
           Served(c) \/ \A fd \in Fds : /\ fdTable'[fd] = c <=> fdTable[fd] = c
                                        /\ fdTable[fd] = c => epoll'[fd] = epoll[fd]
    PROVE  Stage(c)' = Stage(c)
<1>1. Stage(c) = CASE sock[c] = "new" -> "new" [] sock[c] = "backlog" -> "queued"
                   [] sock[c] = "closed" -> "closed"
                   [] sock[c] = "open" ->
                        IF BeingClosed(c) THEN "closing"
                        ELSE IF Served(c) THEN "served"
                        ELSE IF Registered(c, {"in", "out"}) THEN "watched"
                        ELSE IF Registered(c, {"off"}) THEN "lost" ELSE "dropped"
  BY DEF Stage
<1>2. Stage(c)' = CASE sock'[c] = "new" -> "new" [] sock'[c] = "backlog" -> "queued"
                   [] sock'[c] = "closed" -> "closed"
                   [] sock'[c] = "open" ->
                        IF BeingClosed(c)' THEN "closing"
                        ELSE IF Served(c)' THEN "served"
                        ELSE IF Registered(c, {"in", "out"})' THEN "watched"
                        ELSE IF Registered(c, {"off"})' THEN "lost" ELSE "dropped"
  BY DEF Stage
<1>3. CASE Served(c)
  BY <1>1, <1>2, <1>3
<1>4. CASE ~Served(c)
  <2>1. Registered(c, {"in", "out"})' <=> Registered(c, {"in", "out"})
    BY <1>4 DEF Registered
  <2>2. Registered(c, {"off"})' <=> Registered(c, {"off"})
    BY <1>4 DEF Registered
  <2>. QED BY <1>1, <1>2, <2>1, <2>2
<1>. QED BY <1>3, <1>4

\* Nobody comes to or from the step before close(2).
ClosingStays ==
    \A t \in Threads :
        /\ pc'[t] \in {"closeFd", "failFd"} <=> pc[t] \in {"closeFd", "failFd"}
        /\ pc[t] \in {"closeFd", "failFd"} => job'[t] = job[t]

LEMMA SameBeingClosed ==
    ASSUME ClosingStays, NEW c \in Conns,
           \A t \in Threads : pc[t] \in {"closeFd", "failFd"} =>
               (fdTable'[job[t].fd] = c <=> fdTable[job[t].fd] = c)
    PROVE  BeingClosed(c)' <=> BeingClosed(c)
BY DEF ClosingStays, BeingClosed, Closing

\* All stages stay when the sockets, the table and the events do, and only
\* descriptors in somebody's hands are registered anew.
LEMMA LifeSame ==
    ASSUME LifeInv, UNCHANGED <<fdTable, sock>>, Held' = Held, ClosingStays,
           \A fd \in Fds : epoll'[fd] = epoll[fd] \/ HeldFd(fd)
    PROVE  stages' = stages
<1>1. ASSUME NEW c \in Conns PROVE Stage(c)' = Stage(c)
  <2>1. Served(c)' <=> Served(c)
    BY DEF Served
  <2>2. ASSUME NEW fd \in Fds, fdTable[fd] = c, HeldFd(fd) PROVE Served(c)
    BY <2>2 DEF HeldFd, Served
  <2>3. BeingClosed(c)' <=> BeingClosed(c)
    BY SameBeingClosed
  <2>. QED BY <2>1, <2>2, <2>3, StageSame
<1>. QED BY <1>1 DEF stages

\* One connection changes its stage.
LEMMA LifeMoves ==
    ASSUME NEW c \in Conns, NEW to, Stage(c)' = to,
           \A d \in Conns : d # c => Stage(d)' = Stage(d)
    PROVE  stages' = [stages EXCEPT ![c] = to]
BY DEF stages

\* A connection that is not open is seen by nobody.
LEMMA LifeOutside ==
    ASSUME LifeInv, NEW k \in Conns, NEW to, UNCHANGED <<fdTable, epoll>>,
           Held' = Held, ClosingStays, sock' = [sock EXCEPT ![k] = to]
    PROVE  sock'[k] = to /\ \A c \in Conns : c # k => Stage(c)' = Stage(c)
<1>1. sock'[k] = to /\ \A c \in Conns : c # k => sock'[c] = sock[c]
  BY DEF LifeInv, Typing, TypeOK
<1>2. ASSUME NEW c \in Conns, c # k PROVE Stage(c)' = Stage(c)
  <2>1. Served(c)' <=> Served(c)
    BY DEF Served
  <2>2. BeingClosed(c)' <=> BeingClosed(c)
    BY SameBeingClosed
  <2>. QED BY <1>1, <1>2, <2>1, <2>2, StageSame
<1>. QED BY <1>1, <1>2

\* A handler works on its own descriptor: the other connections notice nothing,
\* and its own is in its hands alone.
LEMMA LifeHandler ==
    ASSUME LifeInv, NEW t \in Threads, job[t] # NoJob, NEW f \in Fds, f = job[t].fd,
           UNCHANGED <<batch, tasks_queue>>,
           job' = job \/ job' = [job EXCEPT ![t] = NoJob],
           pc'[t] \in {"closeFd", "failFd"} => job' = job,
           \A u \in Threads : u # t => pc'[u] = pc[u],
           \A c \in Conns : c # fdTable[f] => sock'[c] = sock[c],
           \A fd \in Fds : fd # f => fdTable'[fd] = fdTable[fd] /\ epoll'[fd] = epoll[fd],
           fdTable'[f] \in {fdTable[f], NoConn}
    PROVE  /\ \A c \in Conns : c # fdTable[f] => Stage(c)' = Stage(c)
           /\ fdTable[f] # NoConn =>
                /\ fdTable[f] \in Conns /\ sock[fdTable[f]] = "open"
                /\ \A fd \in Fds : fdTable[fd] = fdTable[f] => fd = f
                /\ Stage(fdTable[f]) =
                      IF pc[t] \in {"closeFd", "failFd"} THEN "closing" ELSE "served"
<1>0. /\ Typing /\ HandlerInv /\ Sockets
      /\ fdTable[f] \in Conns \cup {NoConn} /\ NoConn \notin Conns
  BY ReactorAssumption DEF LifeInv, ConnInv, Typing, TypeOK
<1>1. /\ \A e \in Held' : e \in Held
      /\ \A e \in Held : e \in Held' \/ e.fd = f
  <2>1. CASE job' = job
    BY <2>1, HeldSame
  <2>2. CASE job' = [job EXCEPT ![t] = NoJob]
    BY <1>0, <2>2, HeldDone
  <2>. QED BY <2>1, <2>2
<1>2. \A e \in Held : e.fd \in Fds
  BY <1>0, HeldType
<1>3. \A u \in Threads : u # t => job'[u] = job[u]
  BY <1>0 DEF Typing, TypeOK
<1>4. \A u \in Threads :
         u # t /\ pc[u] \in {"closeFd", "failFd"} => job[u].fd # f /\ job[u].fd \in Fds
  <2>1. \A u \in Threads : pc[u] \in {"closeFd", "failFd"} => job[u] # NoJob
    BY <1>0 DEF Typing, Labels
  <2>. QED BY <1>0, <2>1, JobFacts
<1>5. ASSUME NEW c \in Conns, c # fdTable[f] PROVE Stage(c)' = Stage(c)
  <2>1. \A fd \in Fds : /\ fdTable'[fd] = c <=> fdTable[fd] = c
                        /\ fdTable[fd] = c => epoll'[fd] = epoll[fd] /\ fd # f
    BY <1>0, <1>5
  <2>2. Served(c)' <=> Served(c)
    BY <1>1, <1>2, <2>1 DEF Served
  <2>3. ASSUME NEW u \in Threads
        PROVE  (u \in Closing' /\ fdTable'[job'[u].fd] = c)
                  <=> (u \in Closing /\ fdTable[job[u].fd] = c)
    <3>1. CASE u = t
      BY <2>1, <3>1 DEF Closing
    <3>2. CASE u # t
      BY <1>3, <1>4, <2>1, <3>2 DEF Closing
    <3>. QED BY <3>1, <3>2
  <2>4. BeingClosed(c)' <=> BeingClosed(c)
    BY <2>3 DEF BeingClosed, Closing
  <2>. QED BY <1>5, <2>1, <2>2, <2>4, StageSame
<1>6. ASSUME fdTable[f] # NoConn
      PROVE  /\ fdTable[f] \in Conns /\ sock[fdTable[f]] = "open"
             /\ \A fd \in Fds : fdTable[fd] = fdTable[f] => fd = f
  BY <1>0, <1>6 DEF Sockets
<1>7. ASSUME fdTable[f] # NoConn
      PROVE  Stage(fdTable[f]) = IF pc[t] \in {"closeFd", "failFd"} THEN "closing" ELSE "served"
  <2>1. Served(fdTable[f])
    BY JobHeld DEF Served
  <2>2. BeingClosed(fdTable[f]) <=> pc[t] \in {"closeFd", "failFd"}
    BY <1>4, <1>6, <1>7 DEF BeingClosed, Closing
  <2>. QED BY <1>6, <1>7, <2>1, <2>2, StageOpen
<1>. QED BY <1>5, <1>6, <1>7

\* close(2) ends the stages of a connection.
LEMMA LifeEnds ==
    ASSUME LifeInv, NEW t \in Threads, job[t] # NoJob,
           fdTable[job[t].fd] # NoConn, SysClose(job[t].fd),
           UNCHANGED <<batch, tasks_queue>>,
           job' = job \/ job' = [job EXCEPT ![t] = NoJob],
           pc'[t] \notin {"closeFd", "failFd"},
           \A u \in Threads : u # t => pc'[u] = pc[u]
    PROVE  \E c \in Conns :
              /\ Stage(c) = IF pc[t] \in {"closeFd", "failFd"} THEN "closing" ELSE "served"
              /\ stages' = [stages EXCEPT ![c] = "closed"]
<1>0. Typing /\ HandlerInv
  BY DEF LifeInv
<1>1. PICK f \in Fds, k \in Conns : f = job[t].fd /\ k = fdTable[f]
  BY <1>0, JobFacts DEF Typing, TypeOK
<1>2. /\ fdTable' = [fdTable EXCEPT ![f] = NoConn]
      /\ epoll' = [epoll EXCEPT ![f] = "absent"]
      /\ sock' = [sock EXCEPT ![k] = "closed"]
  BY <1>1 DEF SysClose, Ends
<1>3. /\ sock'[k] = "closed" /\ \A c \in Conns : c # k => sock'[c] = sock[c]
      /\ fdTable'[f] = NoConn
      /\ \A fd \in Fds : fd # f => fdTable'[fd] = fdTable[fd] /\ epoll'[fd] = epoll[fd]
  BY <1>0, <1>2 DEF Typing, TypeOK
<1>4. /\ Stage(k) = IF pc[t] \in {"closeFd", "failFd"} THEN "closing" ELSE "served"
      /\ \A c \in Conns : c # k => Stage(c)' = Stage(c)
  BY <1>1, <1>3, LifeHandler
<1>5. Stage(k)' = "closed"
  BY <1>3 DEF Stage
<1>6. stages' = [stages EXCEPT ![k] = "closed"]
  BY <1>4, <1>5, LifeMoves
<1>. QED BY <1>4, <1>6

\* A handler lets go of its connection, or of a number it had closed already.
LEMMA LifeReleases ==
    ASSUME LifeInv, NEW t \in Threads, job[t] # NoJob, NEW f \in Fds, f = job[t].fd,
           UNCHANGED <<batch, tasks_queue, fdTable, sock>>,
           job' = [job EXCEPT ![t] = NoJob],
           pc[t] \notin {"closeFd", "failFd"}, pc'[t] \notin {"closeFd", "failFd"},
           \A u \in Threads : u # t => pc'[u] = pc[u],
           \A fd \in Fds : fd # f => epoll'[fd] = epoll[fd],
           epoll'[f] \in {"in", "out", "absent"}
    PROVE  stages' = stages \/ \E c \in Conns : Life!Release(c)
<1>0. Typing /\ HandlerInv
  BY DEF LifeInv
<1>1. CASE fdTable[f] = NoConn
  <2>1. \A c \in Conns : c # fdTable[f]
    BY <1>1, ReactorAssumption
  <2>2. \A c \in Conns : Stage(c)' = Stage(c)
    BY <2>1, LifeHandler
  <2>. QED BY <2>2 DEF stages
<1>2. CASE fdTable[f] # NoConn
  <2>0. /\ fdTable[f] \in Conns /\ sock[fdTable[f]] = "open"
        /\ \A fd \in Fds : fdTable[fd] = fdTable[f] => fd = f
        /\ Stage(fdTable[f]) = "served"
        /\ \A c \in Conns : c # fdTable[f] => Stage(c)' = Stage(c)
    BY <1>2, LifeHandler
  <2>1. PICK k \in Conns :
          /\ k = fdTable[f] /\ sock[k] = "open" /\ Stage(k) = "served"
          /\ \A fd \in Fds : fdTable[fd] = k => fd = f
          /\ \A c \in Conns : c # k => Stage(c)' = Stage(c)
    BY <2>0
  <2>2. \A e \in Held' : e \in Held /\ e.fd # f /\ e.fd \in Fds
    BY <1>0, HeldDone, HeldType
  <2>3. ~Served(k)'
    BY <2>1, <2>2 DEF Served
  <2>4. ~BeingClosed(k)'
    <3>1. \A u \in Threads : u # t => job'[u] = job[u]
      BY <1>0 DEF Typing, TypeOK
    <3>2. ~BeingClosed(k)
      BY <2>1, StageOpen
    <3>. QED BY <3>1, <3>2 DEF BeingClosed, Closing
  <2>5. Registered(k, {"in", "out"})' <=> epoll'[f] \in {"in", "out"}
    BY <2>1 DEF Registered
  <2>6. Registered(k, {"off"})' <=> epoll'[f] = "off"
    BY <2>1 DEF Registered
  <2>7. Stage(k)' \in {"watched", "dropped"}
    BY <2>1, <2>3, <2>4, <2>5, <2>6 DEF Stage
  <2>8. PICK to \in {"watched", "dropped"} : Stage(k)' = to
    BY <2>7
  <2>9. stages' = [stages EXCEPT ![k] = to]
    BY <2>1, <2>8, LifeMoves
  <2>. QED BY <2>1, <2>8, <2>9 DEF Life!Release, Life!Moves, stages
<1>. QED BY <1>1, <1>2

LEMMA LifeWorker ==
    ASSUME LifeInv, NEW w \in Workers, WorkerStep(w)
    PROVE  stages' = stages \/ \E c \in Conns : Life!Release(c)
<1>. USE DEF netVars, kernelVars, heapVars, loopVars, threadVars, At, Goto
<1>0. Typing /\ HandlerInv /\ w \in Threads
  BY DEF LifeInv, Threads
<1>1. ASSUME pc[w] # "idle" PROVE job[w] # NoJob
  BY <1>0, <1>1 DEF Typing, Labels, WorkerLabels, CloseLabels
<1>2. CASE Take(w)
  <2>1. Held' = Held /\ UNCHANGED <<fdTable, sock, epoll>>
    BY <1>0, <1>2, HeldTake DEF Take
  <2>2. /\ pc[w] = "idle" /\ pc'[w] \in {"read", "write"}
        /\ \A t \in Threads : t # w => pc'[t] = pc[t] /\ job'[t] = job[t]
    BY <1>0, <1>2 DEF Take, Typing, TypeOK
  <2>3. ClosingStays
    BY <2>2 DEF ClosingStays
  <2>. QED BY <2>1, <2>3, LifeSame
<1>3. CASE \/ ReadFails(w) \/ ProcessNothing(w) \/ WriteNothing(w) \/ WriteSigpipe(w)
           \/ Read(w) \/ Process(w) \/ Write(w) \/ WriteFails(w)
  <2>1. UNCHANGED <<fdTable, sock, epoll, batch, tasks_queue, job>>
    BY <1>3 DEF ReadFails, ProcessNothing, WriteNothing, WriteSigpipe, Read, Process, Write,
                WriteFails
  <2>2. Held' = Held
    BY <2>1, HeldSame
  <2>3. \A u, all : afterWrite(u) \in {"rearmOut", "process", "delFd"}
    BY DEF afterWrite
  <2>4. /\ pc[w] \in {"read", "process", "write"}
        /\ pc' = pc \/ \E l \in {"read", "delFd", "process", "rearmIn", "rearmOut", "failLoad"} :
                           pc' = [pc EXCEPT ![w] = l]
    BY <1>3, <2>3 DEF ReadFails, ProcessNothing, WriteNothing, WriteSigpipe, Read, Process, Write,
                      WriteFails
  <2>5. /\ pc'[w] \notin {"closeFd", "failFd"}
        /\ \A t \in Threads : t # w => pc'[t] = pc[t]
    BY <1>0, <2>4 DEF Typing, TypeOK
  <2>6. ClosingStays
    BY <2>1, <2>4, <2>5 DEF ClosingStays
  <2>. QED BY <2>1, <2>2, <2>6, LifeSame
<1>4. CASE Rearm(w)
  <2>1. /\ pc[w] \in {"rearmIn", "rearmOut"} /\ job' = [job EXCEPT ![w] = NoJob]
        /\ mod_fd(job[w].fd, IF pc[w] = "rearmIn" THEN "in" ELSE "out")
        /\ pc' = [pc EXCEPT ![w] = IF w = Main THEN "batch" ELSE "idle"]
        /\ UNCHANGED <<fdTable, sock, batch, tasks_queue>>
    BY <1>4 DEF Rearm, Done
  <2>2. job[w] # NoJob
    BY <1>1, <2>1
  <2>3. PICK f \in Fds : f = job[w].fd
    BY <1>0, <2>2, JobFacts
  <2>4. epoll[f] = "off"
    BY <1>0, <2>1, <2>3 DEF HandlerInv, HolderInv, HandlerAt, HandlingLabels, Reported
  <2>5. epoll'[f] \in {"in", "out"} /\ \A fd \in Fds : fd # f => epoll'[fd] = epoll[fd]
    BY <1>0, <2>1, <2>3, <2>4 DEF mod_fd, Typing, TypeOK
  <2>6. /\ pc'[w] \notin {"closeFd", "failFd"}
        /\ \A t \in Threads : t # w => pc'[t] = pc[t]
    BY <1>0, <2>1 DEF Typing, TypeOK
  <2>. QED BY <1>0, <2>1, <2>2, <2>3, <2>5, <2>6, LifeReleases
<1>. QED BY <1>2, <1>3, <1>4 DEF WorkerStep

LEMMA LifeClose ==
    ASSUME LifeInv, NEW t \in Threads, CloseStep(t)
    PROVE  stages' = stages \/ \E c \in Conns : Life!Release(c) \/ Life!Finish(c)
<1>. USE DEF netVars, kernelVars, heapVars, loopVars, threadVars, At, Goto
<1>0. Typing /\ HandlerInv
  BY DEF LifeInv
<1>1. job[t] # NoJob
  BY <1>0 DEF CloseStep, DelFd, DelTimer, CloseLoad, CloseStop, CloseCount, CloseFd, Typing, Labels
<1>2. PICK f \in Fds : f = job[t].fd /\ HeldFd(f)
  BY <1>0, <1>1, JobFacts, JobHeld
<1>3. ASSUME \/ DelFd(t) \/ DelTimer(t) \/ CloseStop(t)
             \/ CloseLoad(t) /\ (users[f].is_running \/ pc[t] # "closeLoad")
      PROVE  stages' = stages
  <2>1. /\ UNCHANGED <<fdTable, sock, batch, tasks_queue, job>>
        /\ epoll' = epoll \/ epoll' = [epoll EXCEPT ![f] = "absent"]
    BY <1>2, <1>3 DEF DelFd, DelTimer, CloseStop, CloseLoad
  <2>2. Held' = Held
    BY <2>1, HeldSame
  <2>3. \A fd \in Fds : epoll'[fd] = epoll[fd] \/ HeldFd(fd)
    BY <1>0, <1>2, <2>1 DEF Typing, TypeOK
  <2>4. /\ pc[t] \notin {"closeFd", "failFd"}
        /\ \E l \in {"delTimer", "closeLoad", "closeStop", "failStop", "closeCount",
                     "failCount", "delFd"} : pc' = [pc EXCEPT ![t] = l]
    BY <1>2, <1>3 DEF DelFd, DelTimer, CloseStop, CloseLoad
  <2>5. /\ pc'[t] \notin {"closeFd", "failFd"}
        /\ \A u \in Threads : u # t => pc'[u] = pc[u]
    BY <1>0, <2>4 DEF Typing, TypeOK
  <2>6. ClosingStays
    BY <2>1, <2>4, <2>5 DEF ClosingStays
  <2>. QED BY <2>1, <2>2, <2>3, <2>6, LifeSame
<1>4. ASSUME CloseLoad(t), ~users[f].is_running, pc[t] = "closeLoad"
      PROVE  stages' = stages \/ \E c \in Conns : Life!Release(c)
  <2>1. /\ UNCHANGED <<fdTable, sock, epoll, batch, tasks_queue>>
        /\ job' = [job EXCEPT ![t] = NoJob]
        /\ pc' = [pc EXCEPT ![t] = IF t = Main THEN "batch" ELSE "idle"]
    BY <1>2, <1>4 DEF CloseLoad, Done
  <2>2. epoll[f] = "absent"
    BY <1>0, <1>2, <1>4 DEF HandlerInv, HolderInv, HandlerAt, ClosingLabels
  <2>3. /\ pc'[t] \notin {"closeFd", "failFd"}
        /\ \A u \in Threads : u # t => pc'[u] = pc[u]
    BY <1>0, <2>1 DEF Typing, TypeOK
  <2>. QED BY <1>1, <1>2, <1>4, <2>1, <2>2, <2>3, LifeReleases
<1>5. CASE CloseCount(t)
  <2>1. /\ UNCHANGED <<fdTable, sock, epoll, batch, tasks_queue, job>>
        /\ pc[t] \in {"closeCount", "failCount"}
        /\ \E l \in {"closeFd", "failFd"} : pc' = [pc EXCEPT ![t] = l]
    BY <1>5 DEF CloseCount
  <2>2. /\ pc'[t] \in {"closeFd", "failFd"}
        /\ \A u \in Threads : u # t => pc'[u] = pc[u]
    BY <1>0, <2>1 DEF Typing, TypeOK
  <2>3. fdTable[f] \in Conns
    BY <1>0, <1>1, <1>2, <2>1, JobConn
  <2>4. PICK k \in Conns : k = fdTable[f]
    BY <2>3
  <2>5. sock[k] = "open" /\ Stage(k) = "served" /\ \A c \in Conns : c # k => Stage(c)' = Stage(c)
    BY <1>1, <1>2, <2>1, <2>2, <2>4, ReactorAssumption, LifeHandler
  <2>6. BeingClosed(k)'
    BY <1>2, <2>1, <2>2, <2>4 DEF BeingClosed, Closing
  <2>7. Stage(k)' = "closing"
    BY <2>1, <2>5, <2>6 DEF Stage
  <2>8. stages' = [stages EXCEPT ![k] = "closing"]
    BY <2>5, <2>7, LifeMoves
  <2>. QED BY <2>5, <2>8 DEF Life!Release, Life!Moves, stages
<1>6. CASE CloseFd(t)
  <2>1. /\ pc[t] \in {"closeFd", "failFd"} /\ SysClose(job[t].fd)
        /\ UNCHANGED <<batch, tasks_queue>>
        /\ job' = job \/ job' = [job EXCEPT ![t] = NoJob]
        /\ \E l \in {"batch", "idle", "delFd"} : pc' = [pc EXCEPT ![t] = l]
    BY <1>6 DEF CloseFd, Done
  <2>2. /\ pc'[t] \notin {"closeFd", "failFd"}
        /\ \A u \in Threads : u # t => pc'[u] = pc[u]
    BY <1>0, <2>1 DEF Typing, TypeOK
  <2>3. fdTable[job[t].fd] # NoConn
    BY <1>0, <1>1, <2>1, JobConn, ReactorAssumption
  <2>4. PICK k \in Conns : Stage(k) = "closing" /\ stages' = [stages EXCEPT ![k] = "closed"]
    BY <1>1, <2>1, <2>2, <2>3, LifeEnds
  <2>. QED BY <2>4 DEF Life!Finish, Life!Moves, stages
<1>. QED BY <1>3, <1>4, <1>5, <1>6 DEF CloseStep

LEMMA LifeClients ==
    ASSUME LifeInv, Clients
    PROVE  stages' = stages \/ \E c \in Conns : Life!Arrive(c)
<1>. USE DEF netVars, kernelVars, heapVars, loopVars, threadVars
<1>1. PICK k \in Conns : Connect(k) \/ Send(k) \/ Leave(k)
  BY DEF Clients
<1>2. Held' = Held /\ UNCHANGED <<fdTable, epoll>> /\ ClosingStays
  <2>1. UNCHANGED <<fdTable, epoll, batch, tasks_queue, job, pc>>
    BY <1>1 DEF Connect, Send, Leave
  <2>2. ClosingStays
    BY <2>1 DEF ClosingStays
  <2>. QED BY <2>1, <2>2, HeldSame
<1>3. CASE Connect(k)
  <2>1. sock[k] = "new" /\ sock' = [sock EXCEPT ![k] = "backlog"]
    BY <1>3 DEF Connect
  <2>2. sock'[k] = "backlog" /\ \A c \in Conns : c # k => Stage(c)' = Stage(c)
    BY <1>2, <2>1, LifeOutside
  <2>3. Stage(k) = "new" /\ Stage(k)' = "queued"
    BY <2>1, <2>2 DEF Stage
  <2>4. stages' = [stages EXCEPT ![k] = "queued"]
    BY <2>2, <2>3, LifeMoves
  <2>. QED BY <2>3, <2>4 DEF Life!Arrive, Life!Moves, stages
<1>4. CASE Send(k) \/ Leave(k)
  <2>1. UNCHANGED sock
    BY <1>4 DEF Send, Leave
  <2>. QED BY <1>2, <2>1, LifeSame
<1>. QED BY <1>1, <1>3, <1>4

\* epoll_wait reports connections that were watched; they are served from then on.
LEMMA LifeReport ==
    ASSUME LifeInv, EpollWait
    PROVE  Life!Report
<1>. USE DEF netVars, kernelVars, heapVars, loopVars, threadVars, At
<1>0. Typing /\ HandlerInv /\ Sockets
  BY DEF LifeInv, ConnInv
<1>1. /\ UNCHANGED <<fdTable, sock, pc, job>> /\ batch = {} /\ pc[Main] = "batch"
      /\ Tasks' = Tasks /\ Jobs' = Jobs
  BY DEF EpollWait, Tasks, Jobs
<1>2. PICK writable \in SUBSET OutArmed :
        LET ready == HupReady \cup InReady \cup writable IN
        /\ batch' = Report(HupReady, "hup") \cup Report(InReady, "in")
                       \cup Report(writable, "out")
        /\ epoll' = [fd \in Fds |->
                         IF fd \in ready THEN reported(fd) ELSE epoll[fd]]
  BY DEF EpollWait
<1>3. PICK ready \in SUBSET Fds : ready = HupReady \cup InReady \cup writable
  BY DEF HupReady, InReady, OutArmed
<1>4. \A fd \in ready : epoll[fd] \in {"in", "out"} /\ fdTable[fd] \in Conns
  BY <1>0, <1>3 DEF HupReady, InReady, OutArmed, Typing, TypeOK, Bound
<1>5. Held' = Held \cup batch'
  BY <1>1 DEF Held
<1>6. /\ \A e \in batch' : e.fd \in ready
      /\ \A fd \in ready : \E e \in batch' : e.fd = fd
  <2>1. \A T, k : \A e \in Report(T, k) : e.fd \in T
    BY DEF Report
  <2>2. ASSUME NEW T, NEW k, NEW fd \in T PROVE \E e \in Report(T, k) : e.fd = fd
    <3>1. [fd |-> fd, conn |-> fdTable[fd], kind |-> k] \in Report(T, k)
      BY DEF Report
    <3>. QED BY <3>1
  <2>3. \A T, k : \A fd \in T : \E e \in Report(T, k) : e.fd = fd
    BY <2>2
  <2>. QED BY <1>2, <1>3, <2>1, <2>3
<1>7. PICK S \in SUBSET Conns : S = {fdTable[fd] : fd \in ready}
  BY <1>4
<1>8. ASSUME NEW c \in Conns PROVE Served(c)' <=> Served(c) \/ c \in S
  BY <1>1, <1>5, <1>6, <1>7 DEF Served
<1>9. ASSUME NEW c \in Conns PROVE BeingClosed(c)' <=> BeingClosed(c)
  BY <1>1 DEF BeingClosed, Closing
<1>10. ASSUME NEW c \in S PROVE Stage(c) = "watched" /\ Stage(c)' = "served"
  <2>1. PICK fd \in ready : fdTable[fd] = c
    BY <1>7
  <2>2. epoll[fd] \in {"in", "out"} /\ sock[c] = "open" /\ c \in Conns
    BY <1>0, <1>4, <2>1, ReactorAssumption DEF Sockets
  <2>3. ASSUME NEW e \in Held, fdTable[e.fd] = c PROVE FALSE
    <3>1. e.fd \in Fds
      BY <1>0, HeldType
    <3>2. e.fd = fd
      BY <1>0, <2>1, <2>2, <2>3, <3>1, ReactorAssumption DEF Sockets
    <3>. QED BY <1>0, <1>1, <2>2, <3>2 DEF HandlerInv, Exclusive
  <2>4. ~Served(c) /\ Registered(c, {"in", "out"})
    BY <2>1, <2>2, <2>3 DEF Served, Registered
  <2>5. Stage(c) = "watched"
    BY <2>2, <2>4, StageOpen
  <2>6. ~BeingClosed(c)
    BY <2>2, <2>5, StageOpen
  <2>7. sock'[c] = "open" /\ Served(c)' /\ ~BeingClosed(c)'
    BY <1>1, <1>8, <1>9, <2>2, <2>6
  <2>8. Stage(c)' = "served"
    BY <2>7 DEF Stage
  <2>. QED BY <2>5, <2>8
<1>11. ASSUME NEW c \in Conns, c \notin S PROVE Stage(c)' = Stage(c)
  <2>1. Served(c)' <=> Served(c)
    BY <1>8, <1>11
  <2>2. \A fd \in Fds : fdTable[fd] = c => epoll'[fd] = epoll[fd]
    BY <1>2, <1>3, <1>7, <1>11
  <2>. QED BY <1>1, <1>9, <2>1, <2>2, StageSame
<1>12. /\ \A c \in S : stages[c] = "watched"
       /\ stages' = [c \in Conns |-> IF c \in S THEN "served" ELSE stages[c]]
  BY <1>10, <1>11 DEF stages
<1>. QED BY <1>12 DEF Life!Report, stages

\* ConnLife has its own copy of the standard operator.
LEMMA SameCardinality == ASSUME NEW S PROVE Life!Cardinality(S) = Cardinality(S)
BY DEF Life!Cardinality, Cardinality

\* The connections that take up room in the abstraction: those that are open
\* but for the ones a thread is about to close, one for each such thread.
LEMMA LifeOpen ==
    ASSUME LifeInv
    PROVE  Cardinality(Life!Open) = Cardinality(OpenConns) - Cardinality(Closing)
<1>0. Typing /\ HandlerInv /\ Sockets
  BY DEF LifeInv, ConnInv
<1>. DEFINE g == [t \in Closing |-> fdTable[job[t].fd]]
            T == {fdTable[job[t].fd] : t \in Closing}
<1>1. ASSUME NEW t \in Closing
      PROVE  /\ t \in Threads /\ job[t] # NoJob /\ job[t].fd \in Fds
             /\ fdTable[job[t].fd] \in OpenConns
             /\ \A u \in Closing : fdTable[job[u].fd] = fdTable[job[t].fd] => u = t
  <2>1. ASSUME NEW u \in Closing
        PROVE  /\ u \in Threads /\ job[u] # NoJob /\ job[u].fd \in Fds
               /\ fdTable[job[u].fd] \in Conns /\ fdTable[job[u].fd] # NoConn
               /\ sock[fdTable[job[u].fd]] = "open"
    <3>1. u \in Threads /\ job[u] # NoJob /\ pc[u] \in {"closeFd", "failFd"}
      BY <1>0, ClosingHolds DEF Closing
    <3>2. job[u].fd \in Fds
      BY <1>0, <3>1, JobFacts
    <3>3. fdTable[job[u].fd] \in Conns /\ fdTable[job[u].fd] # NoConn
      BY <1>0, <3>1, JobConn, ReactorAssumption
    <3>. QED BY <1>0, <3>1, <3>2, <3>3 DEF Sockets
  <2>2. ASSUME NEW u \in Closing, fdTable[job[u].fd] = fdTable[job[t].fd] PROVE u = t
    <3>1. job[u].fd = job[t].fd
      BY <1>0, <2>1, <2>2 DEF Sockets
    <3>. QED BY <1>0, <2>1, <3>1, JobFacts
  <2>. QED BY <2>1, <2>2 DEF OpenConns
<1>2. g \in Bijection(Closing, T)
  BY <1>1 DEF Bijection, Injection, Surjection, IsInjective
<1>3. Cardinality(T) = Cardinality(Closing)
  <2>. HIDE DEF g, T
  <2>. QED BY <1>0, <1>2, CountFinite, FS_Bijection DEF ExistsBijection
<1>4. T \subseteq OpenConns
  BY <1>1
<1>5. Life!Open = OpenConns \ T
  <2>1. ASSUME NEW c \in Conns
        PROVE  stages[c] \in {"watched", "served", "dropped"} <=> sock[c] = "open" /\ c \notin T
    <3>1. BeingClosed(c) <=> c \in T
      BY DEF BeingClosed
    <3>2. CASE sock[c] = "open"
      BY <3>1, <3>2, StageOpen DEF stages
    <3>3. CASE sock[c] \in {"new", "backlog", "closed"}
      <4>1. Stage(c) \in {"new", "queued", "closed"}
        BY <3>3, StageClosed
      <4>. QED BY <3>3, <4>1 DEF stages
    <3>. QED BY <1>0, <3>2, <3>3 DEF Typing, TypeOK
  <2>. QED BY <2>1 DEF Life!Open, OpenConns, stages
<1>6. /\ IsFiniteSet(OpenConns)
      /\ Cardinality(OpenConns) \in Nat /\ Cardinality(Closing) \in Nat
  BY <1>0, CountFinite
<1>7. Cardinality(OpenConns \ T) = Cardinality(OpenConns) - Cardinality(T)
  <2>. HIDE DEF T
  <2>1. OpenConns \cap T = T
    BY <1>4
  <2>. QED BY <1>6, <2>1, FS_Difference
<1>. QED BY <1>3, <1>5, <1>7

LEMMA LifeMain ==
    ASSUME LifeInv, Counts, MainStep
    PROVE  \/ stages' = stages \/ Life!Report
           \/ \E c \in Conns : Life!Refuse(c) \/ Life!Admit(c) \/ Life!Release(c)
<1>. USE ReactorAssumption
         DEF netVars, kernelVars, heapVars, loopVars, threadVars, At, Goto
<1>0. Typing /\ HandlerInv /\ Sockets /\ Main \in Threads
  BY DEF LifeInv, ConnInv, Threads
<1>1. CASE EpollWait
  BY <1>1, LifeReport
<1>2. ASSUME NEW e \in batch, HandleReadWrite_(e) \/ HandleHup(e) PROVE stages' = stages
  <2>1. Held' = Held /\ UNCHANGED <<fdTable, sock, epoll>>
    BY <1>0, <1>2, HeldDispatch
  <2>2. /\ pc[Main] = "batch" /\ pc'[Main] \in {"batch", "delFd"}
        /\ \A t \in Threads : t # Main => pc'[t] = pc[t] /\ job'[t] = job[t]
    BY <1>0, <1>2 DEF HandleReadWrite_, HandleHup, Typing, TypeOK
  <2>3. ClosingStays
    BY <2>2 DEF ClosingStays
  <2>. QED BY <2>1, <2>3, LifeSame
<1>3. ASSUME HandleListen_ \/ AcceptFails \/ AcceptRefused \/ RefuseSigpipe
      PROVE  Held' = Held /\ ClosingStays /\ UNCHANGED <<fdTable, epoll>>
  <2>1. /\ UNCHANGED <<fdTable, epoll, batch, tasks_queue, job>>
        /\ pc[Main] \in {"batch", "accept"}
        /\ pc' = pc \/ \E l \in {"batch", "accept"} : pc' = [pc EXCEPT ![Main] = l]
    BY <1>3 DEF HandleListen_, AcceptFails, AcceptRefused, RefuseSigpipe
  <2>2. pc'[Main] \in {"batch", "accept"} /\ \A t \in Threads : t # Main => pc'[t] = pc[t]
    BY <1>0, <2>1 DEF Typing, TypeOK
  <2>3. ClosingStays
    BY <2>1, <2>2 DEF ClosingStays
  <2>. QED BY <2>1, <2>3, HeldSame
<1>4. ASSUME HandleListen_ \/ AcceptFails \/ AcceptRefused \/ RefuseSigpipe, UNCHANGED sock
      PROVE  stages' = stages
  BY <1>3, <1>4, LifeSame
<1>5. ASSUME AcceptFails \/ AcceptRefused, NEW k \in Conns, sock[k] = "backlog",
             sock' = [sock EXCEPT ![k] = "closed"]
      PROVE  Life!Refuse(k)
  <2>1. sock'[k] = "closed" /\ \A c \in Conns : c # k => Stage(c)' = Stage(c)
    BY <1>3, <1>5, LifeOutside
  <2>2. Stage(k) = "queued" /\ Stage(k)' = "closed"
    BY <1>5, <2>1 DEF Stage
  <2>3. stages' = [stages EXCEPT ![k] = "closed"]
    BY <2>1, <2>2, LifeMoves
  <2>. QED BY <2>2, <2>3 DEF Life!Refuse, Life!Moves, stages
<1>6. ASSUME AcceptFails \/ AcceptRefused
      PROVE  \/ UNCHANGED sock
             \/ \E k \in Conns : sock[k] = "backlog" /\ sock' = [sock EXCEPT ![k] = "closed"]
  BY <1>6 DEF AcceptFails, AcceptRefused, Ends, Backlog
<1>7. ASSUME HandleListen_ \/ RefuseSigpipe PROVE UNCHANGED sock
  BY <1>7 DEF HandleListen_, RefuseSigpipe
<1>8. CASE HandleListen_ \/ AcceptFails \/ AcceptRefused \/ RefuseSigpipe
  BY <1>4, <1>5, <1>6, <1>7, <1>8
<1>9. CASE Accept
  <2>1. PICK k \in Conns, f \in Fds :
          /\ fdTable[f] = NoConn /\ sock[k] = "backlog"
          /\ sock' = [sock EXCEPT ![k] = "open"]
          /\ fdTable' = [fdTable EXCEPT ![f] = k]
          /\ job' = [job EXCEPT ![Main] = [fd |-> f, conn |-> k, kind |-> "new"]]
    BY <1>9 DEF Accept, Backlog, FreeFds
  <2>2. /\ pc[Main] = "accept" /\ user_count < MAX_FD
        /\ pc' = [pc EXCEPT ![Main] = "addEpoll"]
        /\ UNCHANGED <<epoll, batch, tasks_queue>>
    BY <1>9 DEF Accept
  <2>3. PICK new \in Events : new = [fd |-> f, conn |-> k, kind |-> "new"]
    BY DEF Events, Kinds
  <2>4. job[Main] = NoJob /\ new # NoJob /\ new.fd = f
    BY <1>0, <2>2, <2>3 DEF Typing, Labels
  <2>5. \A t \in Threads : job'[t] = IF t = Main THEN new ELSE job[t]
    BY <1>0, <2>1, <2>3 DEF Typing, TypeOK
  <2>6. Jobs' = Jobs \cup {new}
    BY <1>0, <2>4, <2>5 DEF Jobs
  <2>7. Held' = Held \cup {new}
    BY <2>2, <2>6 DEF Held, Tasks
  <2>8. /\ \A fd \in Fds : fdTable'[fd] = IF fd = f THEN k ELSE fdTable[fd]
        /\ \A c \in Conns : sock'[c] = IF c = k THEN "open" ELSE sock[c]
    BY <1>0, <2>1 DEF Typing, TypeOK
  <2>9. \A e \in Held : e.fd \in Fds
    BY <1>0, HeldType
  <2>10. Served(k)' /\ \A c \in Conns : c # k => (Served(c)' <=> Served(c))
    BY <2>1, <2>4, <2>7, <2>8, <2>9 DEF Served
  <2>11. /\ pc'[Main] = "addEpoll"
         /\ \A t \in Threads : t # Main => pc'[t] = pc[t] /\ job'[t] = job[t]
    BY <1>0, <2>2, <2>5 DEF Typing, TypeOK
  <2>12. ClosingStays
    BY <2>2, <2>11 DEF ClosingStays
  <2>13. \A t \in Threads : pc[t] \in {"closeFd", "failFd"} =>
             job[t].fd # f /\ fdTable'[job[t].fd] = fdTable[job[t].fd]
    <3>1. ASSUME NEW t \in Threads, pc[t] \in {"closeFd", "failFd"}
          PROVE  job[t].fd \in Fds /\ fdTable[job[t].fd] \in Conns
      <4>1. job[t] # NoJob
        BY <1>0, <3>1, ClosingHolds DEF Closing
      <4>. QED BY <1>0, <3>1, <4>1, JobFacts, JobConn
    <3>. QED BY <2>1, <2>8, <3>1
  <2>14. \A c \in Conns : BeingClosed(c)' <=> BeingClosed(c)
    BY <2>12, <2>13, SameBeingClosed
  <2>15. ~BeingClosed(k)
    <3>1. ASSUME NEW t \in Closing, fdTable[job[t].fd] = k PROVE FALSE
      <4>1. job[t] # NoJob /\ t \in Threads /\ job[t].fd \in Fds
        BY <1>0, ClosingHolds, JobFacts
      <4>. QED BY <1>0, <2>1, <3>1, <4>1 DEF Sockets
    <3>. QED BY <3>1 DEF BeingClosed
  <2>16. Stage(k) = "queued"
    BY <2>1 DEF Stage
  <2>17. Stage(k)' = "served"
    BY <2>8, <2>10, <2>14, <2>15 DEF Stage
  <2>18. ASSUME NEW c \in Conns, c # k PROVE Stage(c)' = Stage(c)
    <3>1. \A fd \in Fds : /\ fdTable'[fd] = c <=> fdTable[fd] = c
                          /\ fdTable[fd] = c => epoll'[fd] = epoll[fd]
      BY <2>1, <2>2, <2>8, <2>18
    <3>. QED BY <2>8, <2>10, <2>14, <2>18, <3>1, StageSame
  <2>19. stages' = [stages EXCEPT ![k] = "served"]
    BY <2>17, <2>18, LifeMoves
  <2>20. Cardinality(Life!Open) < MAX_FD
    <3>1. user_count \in Int
      BY <1>0 DEF Typing, TypeOK
    <3>2. /\ Cardinality(refused) \in Nat
          /\ Cardinality(OpenConns) \in Nat /\ Cardinality(Closing) \in Nat
      BY <1>0, CountFinite
    <3>3. user_count + Cardinality(Closing) = Cardinality(OpenConns) + Cardinality(refused)
      BY DEF Counts
    <3>. QED BY <2>2, <3>1, <3>2, <3>3, LifeOpen
  <2>21. Life!Moves(k, {"queued"}, "served")
    BY <2>16, <2>19 DEF Life!Moves, stages
  <2>22. Life!Admit(k)
    BY <2>20, <2>21, SameCardinality DEF Life!Admit
  <2>. QED BY <2>22
<1>10. CASE AddFd \/ AddTimer \/ AddFdFails
  <2>1. pc[Main] \in {"addEpoll", "addTimer"} /\ job[Main] # NoJob
    BY <1>0, <1>10 DEF AddFd, AddTimer, AddFdFails, Typing, Labels
  <2>2. PICK f \in Fds : f = job[Main].fd /\ HeldFd(f) /\ fdTable[f] # NoConn
    BY <1>0, <2>1, JobHeld, JobFacts, JobConn
  <2>3. /\ \A l \in {"accept", "batch", "addTimer"} :
              pc' = [pc EXCEPT ![Main] = l] => pc'[Main] = l
        /\ \A t \in Threads : t # Main => pc'[t] = pc[t]
        /\ pc'[Main] \in {"accept", "batch", "addTimer"}
    BY <1>0, <1>10 DEF AddFd, AddTimer, AddFdFails, Accepted, Typing, TypeOK
  <2>4. CASE AddFd
    <3>1. /\ epoll' = [epoll EXCEPT ![f] = "in"]
          /\ UNCHANGED <<fdTable, sock, batch, tasks_queue, job>>
      BY <2>2, <2>4 DEF AddFd
    <3>2. Held' = Held
      BY <3>1, HeldSame
    <3>3. \A fd \in Fds : epoll'[fd] = epoll[fd] \/ HeldFd(fd)
      BY <1>0, <2>2, <3>1 DEF Typing, TypeOK
    <3>4. ClosingStays
      BY <2>1, <2>3, <3>1 DEF ClosingStays
    <3>. QED BY <3>1, <3>2, <3>3, <3>4, LifeSame
  <2>5. CASE AddTimer
    <3>1. /\ job' = [job EXCEPT ![Main] = NoJob]
          /\ UNCHANGED <<fdTable, sock, epoll, batch, tasks_queue>>
      BY <2>5 DEF AddTimer, Accepted
    <3>2. epoll[f] = "in"
      BY <1>0, <2>2, <2>5 DEF AddTimer, HandlerInv, HolderInv, HandlerAt
    <3>. QED BY <1>0, <2>1, <2>2, <2>3, <3>1, <3>2, LifeReleases
  <2>6. CASE AddFdFails
    <3>1. /\ job' = [job EXCEPT ![Main] = NoJob] /\ SysClose(job[Main].fd)
          /\ UNCHANGED <<batch, tasks_queue>>
      BY <2>6 DEF AddFdFails, Accepted
    <3>2. PICK k \in Conns : Stage(k) = "served" /\ stages' = [stages EXCEPT ![k] = "closed"]
      BY <1>0, <2>1, <2>2, <2>3, <3>1, LifeEnds
    <3>. QED BY <3>2 DEF Life!Release, Life!Moves, stages
  <2>. QED BY <1>10, <2>4, <2>5, <2>6
<1>. QED BY <1>1, <1>2, <1>8, <1>9, <1>10 DEF MainStep

LEMMA LifeNext ==
    ASSUME LifeInv, Counts, [Next]_vars PROVE [Life!Next]_stages
<1>1. CASE UNCHANGED vars
  <2>1. UNCHANGED <<fdTable, sock, epoll, batch, tasks_queue, job, pc>>
    BY <1>1 DEF vars, netVars, kernelVars, loopVars, threadVars
  <2>2. Held' = Held /\ ClosingStays
    BY <2>1, HeldSame DEF ClosingStays
  <2>. QED BY <2>1, <2>2, LifeSame
<1>2. CASE Next
  BY <1>2, LifeClients, LifeMain, LifeWorker, LifeClose DEF Next, Life!Next
<1>. QED BY <1>1, <1>2

\* Until accept gives out a number that a thread is still closing after its
\* failed write, the reactor implements ConnLife: a connection is in the hands
\* of one handler at a time, which re-arms, closes or drops it, nobody else
\* moves it, and one is admitted only while fewer than MAX_FD are open, those a
\* thread is about to close not counted.
THEOREM LivesAsConnLife == Spec => FollowsConnLife
<1>1. Init => Life!Init
  <2>. SUFFICES ASSUME Init PROVE Life!Init
    OBVIOUS
  <2>1. \A c \in Conns : Stage(c) = "new"
    BY DEF Init, Stage
  <2>. QED BY <2>1 DEF Life!Init, stages
<1>2. ASSUME Typing, ~overtaken => HandlerInv, ~overtaken => ConnInv, ~overtaken => Counts,
             [Next]_vars
      PROVE  [~overtaken => [Life!Next]_stages]_vars
  BY <1>2, LifeNext DEF LifeInv
<1>. QED
  BY <1>1, <1>2, TypingInvariant, HandlerInvariant, ConnInvariant, CountInvariant,
     PTL DEF Spec, FollowsConnLife
-----------------------------------------------------------------------------
(* The limit HandleListen_ puts on user_count.                             *)

Limit == user_count <= MAX_FD

LEMMA LimitNext == ASSUME Typing, Limit, [Next]_vars PROVE Limit'
<1>. USE DEF vars, heapVars
<1>0. user_count \in Int /\ MAX_FD \in Nat
  BY ReactorAssumption DEF Typing, TypeOK
<1>1. \/ user_count' = user_count
      \/ user_count < MAX_FD /\ user_count' = user_count + 1
      \/ user_count' = user_count - 1
  <2>1. CASE Clients
    BY <2>1 DEF Clients, Connect, Send, Leave
  <2>2. CASE MainStep
    BY <2>2 DEF MainStep, EpollWait, HandleReadWrite_, HandleHup, HandleListen_, AcceptFails,
                AcceptRefused, RefuseSigpipe, Accept, AddFdFails, AddFd, AddTimer
  <2>3. ASSUME NEW w \in Workers, WorkerStep(w) PROVE user_count' = user_count
    BY <2>3 DEF WorkerStep, Take, ReadFails, Read, ProcessNothing, Process, Rearm,
                WriteNothing, Write, WriteFails, WriteSigpipe
  <2>4. ASSUME NEW t \in Threads, CloseStep(t)
        PROVE  user_count' = user_count \/ user_count' = user_count - 1
    BY <2>4 DEF CloseStep, DelFd, DelTimer, CloseLoad, CloseStop, CloseCount, CloseFd,
                countLowered
  <2>. QED BY <2>1, <2>2, <2>3, <2>4 DEF Next
<1>. QED BY <1>0, <1>1 DEF Limit

\* No more than MAX_FD connections are open at a time but for one for each
\* thread between fetch_sub and close(2), whatever the kernel refuses and
\* however many connections wait.
THEOREM OpenBounded ==
    Spec => [](~overtaken => Cardinality(OpenConns) <= MAX_FD + Cardinality(Closing))
<1>1. Init => Limit
  BY ReactorAssumption DEF Init, Limit
<1>2. ASSUME Typing, Counts, Limit
      PROVE  Cardinality(OpenConns) <= MAX_FD + Cardinality(Closing)
  BY <1>2, CountFinite, ReactorAssumption DEF Counts, Limit, Typing, TypeOK
<1>. QED BY <1>1, <1>2, LimitNext, TypingInvariant, CountInvariant, PTL DEF Spec
-----------------------------------------------------------------------------
(* Afterwards.  Once a thread in CloseConn_ has been overtaken, it works on *)
(* another connection's number, and HandlerInv is lost.  What is left holds *)
(* of every behaviour.                                                      *)

\* The steps at which a handler has a descriptor that it will still re-arm or
\* remove, and those at which it has removed it or not yet registered it.
OwingLabels   == HandlingLabels \cup {"delFd"}
RemovedLabels == ClosingLabels \cup {"delTimer"}

\* An event of the descriptor waits for the main thread or for a worker.
Waiting(fd) == \/ \E e \in batch : e.fd = fd
               \/ \E i \in DOMAIN tasks_queue : tasks_queue[i].fd = fd

\* A disarmed descriptor is owed a step that re-arms or removes it.
Owed == server # "aborted" =>
            \A fd \in Fds :
                epoll[fd] = "off" => Waiting(fd) \/ InTransit(fd, OwingLabels)

\* An open connection outside epoll is about to be registered or closed, or its
\* object does not run.
Unregistered ==
    \A fd \in Fds :
        fdTable[fd] # NoConn /\ epoll[fd] = "absent" =>
            InTransit(fd, RemovedLabels) \/ ~users[fd].is_running

\* Nothing but close() and a response without keep-alive can make the server
\* forget a connection: one that is open is watched by epoll, or somebody
\* has an event of it, or its object was stopped.
NoneForgotten ==
    server # "aborted" =>
        \A fd \in Fds :
            fdTable[fd] # NoConn =>
                \/ epoll[fd] \in {"in", "out"}
                \/ \E e \in Held : e.fd = fd
                \/ ~users[fd].is_running

LEMMA HandlerJob ==
    ASSUME Typing, NEW t \in Threads, pc[t] \notin {"batch", "accept", "idle"}
    PROVE  job[t] \in Events /\ job[t] # NoJob /\ job[t].fd \in Fds
<1>1. t = Main \/ t \in Workers
  BY DEF Threads
<1>2. job[t] # NoJob
  BY DEF Typing, Labels
<1>. QED BY <1>2 DEF Typing, TypeOK, Events

\* What a step of thread t must do to keep Owed: take nothing off the queues,
\* disarm nothing, and leave its handler only with the descriptor re-armed or gone.
LEMMA OwedStep ==
    ASSUME Typing, Owed, NEW t \in Threads,
           batch' = batch, tasks_queue' = tasks_queue,
           server' # "aborted" => server # "aborted",
           \A u \in Threads : u # t => pc'[u] = pc[u] /\ job'[u] = job[u],
           \A fd \in Fds : epoll'[fd] = "off" => epoll[fd] = "off",
           pc[t] \in OwingLabels =>
               \/ pc'[t] \in OwingLabels /\ job'[t] = job[t]
               \/ epoll'[job[t].fd] # "off"
    PROVE  Owed'
<1> SUFFICES ASSUME server' # "aborted", NEW fd \in Fds, epoll'[fd] = "off"
             PROVE  Waiting(fd)' \/ InTransit(fd, OwingLabels)'
  BY DEF Owed
<1>1. Waiting(fd) \/ InTransit(fd, OwingLabels)
  BY DEF Owed
<1>2. CASE Waiting(fd)
  BY <1>2 DEF Waiting
<1>3. CASE InTransit(fd, OwingLabels)
  <2>1. PICK u \in Threads : pc[u] \in OwingLabels /\ job[u] # NoJob /\ job[u].fd = fd
    BY <1>3 DEF InTransit
  <2>2. pc'[u] \in OwingLabels /\ job'[u] = job[u]
    BY <2>1
  <2>. QED BY <2>1, <2>2 DEF InTransit
<1>. QED BY <1>1, <1>2, <1>3

\* The same for Unregistered: a connection t opens or removes is in its hands, and
\* t lets go of it only when the object does not run or the descriptor is closed
\* or registered.
LEMMA UnregisteredStep ==
    ASSUME Typing, Unregistered, NEW t \in Threads,
           \A u \in Threads : u # t => pc'[u] = pc[u] /\ job'[u] = job[u],
           \A fd \in Fds :
               fdTable'[fd] # NoConn /\ epoll'[fd] = "absent" =>
                   \/ /\ fdTable[fd] # NoConn /\ epoll[fd] = "absent"
                      /\ users'[fd].is_running => users[fd].is_running
                   \/ pc'[t] \in RemovedLabels /\ job'[t] # NoJob /\ job'[t].fd = fd,
           pc[t] \in RemovedLabels =>
               \/ pc'[t] \in RemovedLabels /\ job'[t] = job[t]
               \/ ~users'[job[t].fd].is_running
               \/ fdTable'[job[t].fd] = NoConn \/ epoll'[job[t].fd] # "absent"
    PROVE  Unregistered'
<1> SUFFICES ASSUME NEW fd \in Fds, fdTable'[fd] # NoConn, epoll'[fd] = "absent",
                    users'[fd].is_running
             PROVE  InTransit(fd, RemovedLabels)'
  BY DEF Unregistered
<1>1. CASE pc'[t] \in RemovedLabels /\ job'[t] # NoJob /\ job'[t].fd = fd
  BY <1>1 DEF InTransit
<1>2. CASE ~(pc'[t] \in RemovedLabels /\ job'[t] # NoJob /\ job'[t].fd = fd)
  <2>1. InTransit(fd, RemovedLabels)
    BY <1>2 DEF Unregistered
  <2>2. PICK u \in Threads : pc[u] \in RemovedLabels /\ job[u] # NoJob /\ job[u].fd = fd
    BY <2>1 DEF InTransit
  <2>3. pc'[u] \in RemovedLabels /\ job'[u] = job[u]
    BY <2>2
  <2>. QED BY <2>2, <2>3 DEF InTransit
<1>. QED BY <1>1, <1>2

LEMMA StaysStopped ==
    ASSUME NEW u \in HttpConnect, NEW r, NEW all
    PROVE  /\ respond(u, r).is_running = u.is_running
           /\ filled(u, all).is_running = u.is_running
           /\ written(u, all).is_running => u.is_running
BY DEF respond, filled, written, HttpConnect

OpenInv == Owed /\ Unregistered

LEMMA OpenInit == Init => OpenInv
BY DEF Init, OpenInv, Owed, Unregistered

LEMMA OpenClients == ASSUME OpenInv, Clients PROVE OpenInv'
<1>. USE DEF Clients, Connect, Send, Leave, heapVars, loopVars, threadVars, kernelVars
<1>1. Owed'
  BY DEF OpenInv, Owed, Waiting, InTransit
<1>2. Unregistered'
  BY DEF OpenInv, Unregistered, InTransit
<1>. QED BY <1>1, <1>2 DEF OpenInv

LEMMA OpenWorker ==
    ASSUME Typing, OpenInv, NEW w \in Workers, WorkerStep(w) PROVE OpenInv'
<1>. DEFINE f == job[w].fd
<1>0. w \in Threads /\ Owed /\ Unregistered
  BY DEF Threads, OpenInv
<1>. USE DEF netVars, kernelVars, heapVars, loopVars, threadVars, At, Goto
<1>1. CASE Take(w)
  <2>0. tasks_queue # << >> /\ tasks_queue \in Seq(Events)
    BY <1>1 DEF Take, Typing, TypeOK
  <2>1. /\ pc[w] = "idle" /\ job' = [job EXCEPT ![w] = Head(tasks_queue)]
        /\ pc' = [pc EXCEPT ![w] = IF Head(tasks_queue).kind = "in" THEN "read" ELSE "write"]
        /\ tasks_queue' = Tail(tasks_queue)
        /\ UNCHANGED <<batch, epoll, fdTable, users, server>>
    BY <1>1 DEF Take
  <2>2. /\ job'[w] = Head(tasks_queue) /\ pc'[w] \in {"read", "write"}
        /\ \A u \in Threads : u # w => pc'[u] = pc[u] /\ job'[u] = job[u]
    BY <1>0, <2>1 DEF Typing, TypeOK
  <2>3. Unregistered'
    BY <1>0, <2>1, <2>2, UnregisteredStep DEF RemovedLabels, ClosingLabels
  <2>4. ASSUME NEW fd \in Fds, Waiting(fd) \/ InTransit(fd, OwingLabels)
        PROVE  Waiting(fd)' \/ InTransit(fd, OwingLabels)'
    <3>1. CASE InTransit(fd, OwingLabels)
      <4>1. PICK u \in Threads : pc[u] \in OwingLabels /\ job[u] # NoJob /\ job[u].fd = fd
        BY <3>1 DEF InTransit
      <4>2. pc'[u] \in OwingLabels /\ job'[u] = job[u]
        BY <2>1, <2>2, <4>1 DEF OwingLabels, HandlingLabels
      <4>. QED BY <4>1, <4>2 DEF InTransit
    <3>2. CASE \E e \in batch : e.fd = fd
      BY <2>1, <3>2 DEF Waiting
    <3>3. ASSUME NEW i \in DOMAIN tasks_queue, tasks_queue[i].fd = fd
          PROVE  Waiting(fd)' \/ InTransit(fd, OwingLabels)'
      <4>1. CASE i = 1
        <5>1. Head(tasks_queue) = tasks_queue[1] /\ tasks_queue[1] \in Events
          BY <2>0
        <5>2. job'[w].fd = fd /\ job'[w] # NoJob /\ pc'[w] \in OwingLabels
          BY <2>2, <3>3, <4>1, <5>1, ReactorAssumption DEF OwingLabels, HandlingLabels
        <5>. QED BY <1>0, <5>2 DEF InTransit
      <4>2. CASE i # 1
        <5>1. i - 1 \in DOMAIN Tail(tasks_queue) /\ Tail(tasks_queue)[i - 1] = tasks_queue[i]
          BY <2>0, <4>2
        <5>. QED BY <2>1, <3>3, <5>1 DEF Waiting
      <4>. QED BY <4>1, <4>2
    <3>. QED BY <2>4, <3>1, <3>2, <3>3 DEF Waiting
  <2>5. Owed'
    BY <1>0, <2>1, <2>4 DEF Owed
  <2>. QED BY <2>3, <2>5 DEF OpenInv
<1>2. ASSUME pc[w] \in OwingLabels, pc'[w] \in OwingLabels,
             UNCHANGED <<batch, tasks_queue, epoll, fdTable, job>>,
             server' # "aborted" => server # "aborted",
             \A u \in Threads : u # w => pc'[u] = pc[u],
             \A fd \in Fds : users'[fd].is_running => users[fd].is_running
      PROVE  OpenInv'
  <2>1. Owed'
    BY <1>0, <1>2, OwedStep
  <2>2. Unregistered'
    BY <1>0, <1>2, UnregisteredStep DEF RemovedLabels, ClosingLabels, OwingLabels, HandlingLabels
  <2>. QED BY <2>1, <2>2 DEF OpenInv
<1>3. CASE ReadFails(w)
  <2>1. /\ pc[w] = "read" /\ pc' = [pc EXCEPT ![w] = "delFd"]
        /\ users' = users \/ users' = [users EXCEPT ![f] = filled(@, FALSE)]
        /\ UNCHANGED <<batch, tasks_queue, epoll, fdTable, server, job>>
    BY <1>3 DEF ReadFails
  <2>2. pc'[w] = "delFd" /\ \A u \in Threads : u # w => pc'[u] = pc[u]
    BY <1>0, <2>1 DEF Typing, TypeOK
  <2>3. ASSUME NEW fd \in Fds PROVE users'[fd].is_running => users[fd].is_running
    <3>1. users[fd] \in HttpConnect
      BY DEF Typing, TypeOK
    <3>2. users'[fd] \in {users[fd], filled(users[fd], FALSE)}
      BY <2>1 DEF Typing, TypeOK
    <3>. QED BY <3>1, <3>2, StaysStopped
  <2>. QED BY <1>2, <2>1, <2>2, <2>3 DEF OwingLabels, HandlingLabels
<1>4. CASE Read(w)
  <2>1. /\ pc[w] = "read" /\ pc' = [pc EXCEPT ![w] = "process"]
        /\ users' = [users EXCEPT ![f] = filled(@, fdTable[f] \in data)]
        /\ UNCHANGED <<batch, tasks_queue, epoll, fdTable, server, job>>
    BY <1>4 DEF Read
  <2>2. pc'[w] = "process" /\ \A u \in Threads : u # w => pc'[u] = pc[u]
    BY <1>0, <2>1 DEF Typing, TypeOK
  <2>3. ASSUME NEW fd \in Fds PROVE users'[fd].is_running => users[fd].is_running
    <3>1. users[fd] \in HttpConnect
      BY DEF Typing, TypeOK
    <3>2. users'[fd] \in {users[fd], filled(users[fd], fdTable[f] \in data)}
      BY <2>1 DEF Typing, TypeOK
    <3>. QED BY <3>1, <3>2, StaysStopped
  <2>. QED BY <1>2, <2>1, <2>2, <2>3 DEF OwingLabels, HandlingLabels
<1>5. CASE ProcessNothing(w)
  <2>1. /\ pc[w] = "process" /\ pc' = [pc EXCEPT ![w] = "rearmIn"]
        /\ UNCHANGED <<batch, tasks_queue, epoll, fdTable, users, server, job>>
    BY <1>5 DEF ProcessNothing
  <2>2. pc'[w] = "rearmIn" /\ \A u \in Threads : u # w => pc'[u] = pc[u]
    BY <1>0, <2>1 DEF Typing, TypeOK
  <2>. QED BY <1>2, <2>1, <2>2 DEF OwingLabels, HandlingLabels
<1>6. CASE Process(w)
  <2>1. PICK r \in Requests :
          /\ users' = [users EXCEPT ![f] = respond(@, r)]
          /\ pc' = [pc EXCEPT ![w] = IF r.ok THEN "rearmOut" ELSE "rearmIn"]
    BY <1>6 DEF Process
  <2>2. pc[w] = "process" /\ UNCHANGED <<batch, tasks_queue, epoll, fdTable, server, job>>
    BY <1>6 DEF Process
  <2>3. pc'[w] \in {"rearmIn", "rearmOut"} /\ \A u \in Threads : u # w => pc'[u] = pc[u]
    BY <1>0, <2>1 DEF Typing, TypeOK
  <2>4. ASSUME NEW fd \in Fds PROVE users'[fd].is_running => users[fd].is_running
    <3>1. users[fd] \in HttpConnect
      BY DEF Typing, TypeOK
    <3>2. users'[fd] \in {users[fd], respond(users[fd], r)}
      BY <2>1 DEF Typing, TypeOK
    <3>. QED BY <3>1, <3>2, StaysStopped
  <2>. QED BY <1>2, <2>2, <2>3, <2>4 DEF OwingLabels, HandlingLabels
<1>7. CASE Rearm(w)
  <2>1. /\ pc[w] \in {"rearmIn", "rearmOut"} /\ pc' = [pc EXCEPT ![w] = IF w = Main THEN "batch" ELSE "idle"]
        /\ job' = [job EXCEPT ![w] = NoJob]
        /\ mod_fd(f, IF pc[w] = "rearmIn" THEN "in" ELSE "out")
        /\ UNCHANGED <<batch, tasks_queue, fdTable, users, server>>
    BY <1>7 DEF Rearm, Done
  <2>2. \A u \in Threads : u # w => pc'[u] = pc[u] /\ job'[u] = job[u]
    BY <1>0, <2>1
  <2>3. f \in Fds
    BY <1>0, <2>1, HandlerJob
  <2>4. \A fd \in Fds : /\ epoll'[fd] = "absent" => epoll[fd] = "absent"
                        /\ epoll'[fd] = "off" => epoll[fd] = "off"
    BY <2>1, <2>3 DEF mod_fd, Typing, TypeOK
  <2>5. epoll'[f] # "off"
    BY <2>1, <2>3 DEF mod_fd, Typing, TypeOK
  <2>6. Owed'
    BY <1>0, <2>1, <2>2, <2>4, <2>5, OwedStep
  <2>7. Unregistered'
    BY <1>0, <2>1, <2>2, <2>4, UnregisteredStep DEF RemovedLabels, ClosingLabels
  <2>. QED BY <2>6, <2>7 DEF OpenInv
<1>8. CASE WriteNothing(w)
  <2>1. /\ pc[w] = "write" /\ pc' = [pc EXCEPT ![w] = afterWrite(users[f])]
        /\ UNCHANGED <<batch, tasks_queue, epoll, fdTable, users, server, job>>
    BY <1>8 DEF WriteNothing
  <2>2. /\ pc'[w] \in {"rearmOut", "process", "delFd"}
        /\ \A u \in Threads : u # w => pc'[u] = pc[u]
    BY <1>0, <2>1 DEF afterWrite, Typing, TypeOK
  <2>. QED BY <1>2, <2>1, <2>2 DEF OwingLabels, HandlingLabels
<1>9. CASE Write(w)
  <2>1. PICK all \in BOOLEAN :
          /\ users' = [users EXCEPT ![f] = written(@, all)]
          /\ pc' = [pc EXCEPT ![w] = afterWrite(written(users[f], all))]
    BY <1>9 DEF Write
  <2>2. pc[w] = "write" /\ UNCHANGED <<batch, tasks_queue, epoll, fdTable, server, job>>
    BY <1>9 DEF Write
  <2>3. /\ pc'[w] \in {"rearmOut", "process", "delFd"}
        /\ \A u \in Threads : u # w => pc'[u] = pc[u]
    BY <1>0, <2>1 DEF afterWrite, Typing, TypeOK
  <2>4. ASSUME NEW fd \in Fds PROVE users'[fd].is_running => users[fd].is_running
    <3>1. users[fd] \in HttpConnect
      BY DEF Typing, TypeOK
    <3>2. users'[fd] \in {users[fd], written(users[fd], all)}
      BY <2>1 DEF Typing, TypeOK
    <3>. QED BY <3>1, <3>2, StaysStopped
  <2>. QED BY <1>2, <2>2, <2>3, <2>4 DEF OwingLabels, HandlingLabels
<1>10. CASE WriteFails(w)
  <2>1. /\ pc[w] = "write" /\ pc' = [pc EXCEPT ![w] = "failLoad"]
        /\ UNCHANGED <<batch, tasks_queue, epoll, fdTable, users, server, job>>
    BY <1>10 DEF WriteFails
  <2>2. pc'[w] = "failLoad" /\ \A u \in Threads : u # w => pc'[u] = pc[u]
    BY <1>0, <2>1 DEF Typing, TypeOK
  <2>. QED BY <1>2, <2>1, <2>2 DEF OwingLabels, HandlingLabels
<1>11. CASE WriteSigpipe(w)
  <2>1. /\ pc[w] = "write" /\ server = "running"
        /\ UNCHANGED <<batch, tasks_queue, epoll, fdTable, users, pc, job>>
    BY <1>11 DEF WriteSigpipe
  <2>. QED BY <1>2, <2>1 DEF OwingLabels, HandlingLabels
<1>. QED
  BY <1>1, <1>3, <1>4, <1>5, <1>6, <1>7, <1>8, <1>9, <1>10, <1>11 DEF WorkerStep

LEMMA OpenClose ==
    ASSUME Typing, OpenInv, NEW t \in Threads, CloseStep(t) PROVE OpenInv'
<1>. DEFINE f == job[t].fd
<1>0. Owed /\ Unregistered
  BY DEF OpenInv
<1>. USE DEF netVars, kernelVars, heapVars, loopVars, threadVars, At, Goto
<1>1. CASE DelFd(t)
  <2>1. /\ pc[t] = "delFd" /\ pc' = [pc EXCEPT ![t] = "delTimer"]
        /\ epoll' = [epoll EXCEPT ![f] = "absent"]
        /\ UNCHANGED <<batch, tasks_queue, fdTable, users, server, job>>
    BY <1>1 DEF DelFd
  <2>2. pc'[t] = "delTimer" /\ \A u \in Threads : u # t => pc'[u] = pc[u]
    BY <2>1 DEF Typing, TypeOK
  <2>3. f \in Fds /\ job[t] # NoJob
    BY <2>1, HandlerJob
  <2>4. epoll'[f] = "absent" /\ \A fd \in Fds : fd # f => epoll'[fd] = epoll[fd]
    BY <2>1, <2>3 DEF Typing, TypeOK
  <2>5. Owed'
    BY <1>0, <2>1, <2>2, <2>4, OwedStep
  <2>6. Unregistered'
    BY <1>0, <2>1, <2>2, <2>3, <2>4, UnregisteredStep DEF RemovedLabels, ClosingLabels
  <2>. QED BY <2>5, <2>6 DEF OpenInv
<1>2. CASE DelTimer(t)
  <2>1. /\ pc[t] = "delTimer" /\ pc' = [pc EXCEPT ![t] = "closeLoad"]
        /\ UNCHANGED <<batch, tasks_queue, epoll, fdTable, users, server, job>>
    BY <1>2 DEF DelTimer
  <2>2. pc'[t] = "closeLoad" /\ \A u \in Threads : u # t => pc'[u] = pc[u]
    BY <2>1 DEF Typing, TypeOK
  <2>3. Owed'
    BY <1>0, <2>1, <2>2, OwedStep DEF OwingLabels, HandlingLabels
  <2>4. Unregistered'
    BY <1>0, <2>1, <2>2, UnregisteredStep DEF RemovedLabels, ClosingLabels
  <2>. QED BY <2>3, <2>4 DEF OpenInv
<1>3. CASE CloseLoad(t)
  <2>0. /\ pc[t] \in {"closeLoad", "failLoad"}
        /\ UNCHANGED <<batch, tasks_queue, epoll, fdTable, users, server>>
    BY <1>3 DEF CloseLoad
  <2>1. CASE pc[t] = "failLoad"
    <3>1. /\ job' = job
          /\ pc' = [pc EXCEPT ![t] = IF users[f].is_running THEN "failStop" ELSE "delFd"]
      BY <1>3, <2>1 DEF CloseLoad
    <3>2. pc'[t] \in {"failStop", "delFd"} /\ \A u \in Threads : u # t => pc'[u] = pc[u]
      BY <3>1 DEF Typing, TypeOK
    <3>3. Owed'
      BY <1>0, <2>0, <3>1, <3>2, OwedStep DEF OwingLabels, HandlingLabels
    <3>4. Unregistered'
      BY <1>0, <2>0, <2>1, <3>1, <3>2, UnregisteredStep DEF RemovedLabels, ClosingLabels
    <3>. QED BY <3>3, <3>4 DEF OpenInv
  <2>2. CASE pc[t] = "closeLoad" /\ users[f].is_running
    <3>1. job' = job /\ pc' = [pc EXCEPT ![t] = "closeStop"]
      BY <1>3, <2>2 DEF CloseLoad
    <3>2. pc'[t] = "closeStop" /\ \A u \in Threads : u # t => pc'[u] = pc[u]
      BY <3>1 DEF Typing, TypeOK
    <3>3. Owed'
      BY <1>0, <2>0, <2>2, <3>1, <3>2, OwedStep DEF OwingLabels, HandlingLabels
    <3>4. Unregistered'
      BY <1>0, <2>0, <2>2, <3>1, <3>2, UnregisteredStep DEF RemovedLabels, ClosingLabels
    <3>. QED BY <3>3, <3>4 DEF OpenInv
  <2>3. CASE pc[t] = "closeLoad" /\ ~users[f].is_running
    <3>0. /\ pc' = [pc EXCEPT ![t] = IF t = Main THEN "batch" ELSE "idle"]
          /\ job' = [job EXCEPT ![t] = NoJob]
      BY <1>3, <2>3 DEF CloseLoad, Done
    <3>1. \A u \in Threads : u # t => pc'[u] = pc[u] /\ job'[u] = job[u]
      BY <3>0 DEF Typing, TypeOK
    <3>2. ~users'[f].is_running
      BY <2>0, <2>3
    <3>3. Owed'
      BY <1>0, <2>0, <2>3, <3>1, OwedStep DEF OwingLabels, HandlingLabels
    <3>4. Unregistered'
      BY <1>0, <2>0, <2>3, <3>1, <3>2, UnregisteredStep
    <3>. QED BY <3>3, <3>4 DEF OpenInv
  <2>. QED BY <2>0, <2>1, <2>2, <2>3
<1>4. CASE CloseStop(t) \/ CloseCount(t)
  <2>1. /\ \/ pc[t] \in {"closeStop", "closeCount"} /\ pc'[t] \in {"closeCount", "closeFd"}
           \/ pc[t] \in {"failStop", "failCount"} /\ pc'[t] \in {"failCount", "failFd"}
        /\ \A u \in Threads : u # t => pc'[u] = pc[u]
        /\ users' = users \/ users' = [users EXCEPT ![f].is_running = FALSE]
        /\ UNCHANGED <<batch, tasks_queue, epoll, fdTable, server, job>>
    BY <1>4 DEF CloseStop, CloseCount, stopped, Typing, TypeOK
  <2>2. f \in Fds
    BY <2>1, HandlerJob
  <2>3. ASSUME NEW fd \in Fds PROVE users'[fd].is_running => users[fd].is_running
    <3>1. users \in [Fds -> HttpConnect] /\ users[f] \in HttpConnect
      BY <2>2 DEF Typing, TypeOK
    <3>2. CASE fd = f
      BY <2>1, <3>1, <3>2 DEF HttpConnect
    <3>3. CASE fd # f
      BY <2>1, <3>1, <3>3
    <3>. QED BY <3>2, <3>3
  <2>4. Owed'
    BY <1>0, <2>1, OwedStep DEF OwingLabels, HandlingLabels
  <2>5. Unregistered'
    BY <1>0, <2>1, <2>3, UnregisteredStep DEF RemovedLabels, ClosingLabels
  <2>. QED BY <2>4, <2>5 DEF OpenInv
<1>5. CASE CloseFd(t)
  <2>1. /\ pc[t] \in {"closeFd", "failFd"} /\ SysClose(f)
        /\ UNCHANGED <<batch, tasks_queue, server, users>>
    BY <1>5 DEF CloseFd
  <2>2. /\ \/ pc' = [pc EXCEPT ![t] = IF t = Main THEN "batch" ELSE "idle"]
           \/ pc' = [pc EXCEPT ![t] = "delFd"]
        /\ job' = [job EXCEPT ![t] = NoJob] \/ job' = job
    BY <1>5 DEF CloseFd, Done
  <2>3. \A u \in Threads : u # t => pc'[u] = pc[u] /\ job'[u] = job[u]
    BY <2>2 DEF Typing, TypeOK
  <2>4. f \in Fds
    BY <2>1, HandlerJob
  <2>5. /\ fdTable'[f] = NoConn /\ epoll'[f] = "absent"
        /\ \A fd \in Fds : fd # f => fdTable'[fd] = fdTable[fd] /\ epoll'[fd] = epoll[fd]
    BY <2>1, <2>4 DEF SysClose, Typing, TypeOK, Bound
  <2>6. Owed'
    BY <1>0, <2>1, <2>3, <2>5, OwedStep
  <2>7. Unregistered'
    <3>1. \A fd \in Fds :
             fdTable'[fd] # NoConn /\ epoll'[fd] = "absent" =>
                /\ fdTable[fd] # NoConn /\ epoll[fd] = "absent"
                /\ users'[fd].is_running => users[fd].is_running
      BY <2>1, <2>5
    <3>. QED BY <1>0, <2>3, <2>5, <3>1, UnregisteredStep
  <2>. QED BY <2>6, <2>7 DEF OpenInv
<1>. QED BY <1>1, <1>2, <1>3, <1>4, <1>5 DEF CloseStep

LEMMA OpenMain == ASSUME Typing, OpenInv, MainStep PROVE OpenInv'
<1>. DEFINE f == job[Main].fd
<1>0. Main \in Threads /\ Owed /\ Unregistered
  BY DEF Threads, OpenInv
<1>. USE DEF netVars, kernelVars, heapVars, loopVars, threadVars, At, Goto
<1>1. CASE EpollWait
  <2>1. PICK writable \in SUBSET OutArmed :
          /\ batch' = Report(HupReady, "hup") \cup Report(InReady, "in")
                         \cup Report(writable, "out")
          /\ epoll' = [fd \in Fds |-> IF fd \in HupReady \cup InReady \cup writable
                                      THEN reported(fd) ELSE epoll[fd]]
    BY <1>1 DEF EpollWait
  <2>2. batch = {} /\ UNCHANGED <<fdTable, users, server, tasks_queue, pc, job>>
    BY <1>1 DEF EpollWait
  <2>3. \A fd \in HupReady \cup InReady \cup writable :
           \E e \in batch' : e.fd = fd
    <3>1. ASSUME NEW fds, NEW k, NEW fd \in fds
          PROVE  \E e \in Report(fds, k) : e.fd = fd
      <4>1. [fd |-> fd, conn |-> fdTable[fd], kind |-> k] \in Report(fds, k)
        BY <3>1 DEF Report
      <4>. QED BY <4>1
    <3>. QED BY <2>1, <3>1
  <2>4. ASSUME NEW fd \in Fds, epoll'[fd] = "off"
        PROVE  epoll[fd] = "off" \/ Waiting(fd)'
    BY <2>1, <2>3, <2>4 DEF Waiting
  <2>5. ASSUME server' # "aborted", NEW fd \in Fds, epoll'[fd] = "off"
        PROVE  Waiting(fd)' \/ InTransit(fd, OwingLabels)'
    <3>1. CASE Waiting(fd)'
      BY <3>1
    <3>2. CASE epoll[fd] = "off"
      <4>1. Waiting(fd) \/ InTransit(fd, OwingLabels)
        BY <1>0, <2>2, <2>5, <3>2 DEF Owed
      <4>. QED BY <2>2, <4>1 DEF Waiting, InTransit
    <3>. QED BY <2>4, <2>5, <3>1, <3>2
  <2>6. Owed'
    BY <2>5 DEF Owed
  <2>7. \A fd \in Fds : epoll'[fd] = "absent" => epoll[fd] = "absent"
    BY <2>1 DEF reported
  <2>8. Unregistered'
    BY <1>0, <2>2, <2>7 DEF Unregistered, InTransit
  <2>. QED BY <2>6, <2>8 DEF OpenInv
<1>2. ASSUME NEW e \in batch, HandleReadWrite_(e) PROVE OpenInv'
  <2>1. /\ batch' = batch \ {e} /\ UNCHANGED <<epoll, fdTable, users, pc, job>>
        /\ \/ server' = "aborted"
           \/ tasks_queue' = Append(tasks_queue, e) /\ server' = server
    BY <1>2 DEF HandleReadWrite_
  <2>2. Unregistered'
    BY <1>0, <2>1 DEF Unregistered, InTransit
  <2>3. ASSUME server' # "aborted", NEW fd \in Fds, Waiting(fd) PROVE Waiting(fd)'
    <3>1. tasks_queue' = Append(tasks_queue, e) /\ tasks_queue \in Seq(Events)
      BY <2>1, <2>3 DEF Typing, TypeOK
    <3>2. /\ Len(tasks_queue) + 1 \in DOMAIN tasks_queue'
          /\ tasks_queue'[Len(tasks_queue) + 1] = e
          /\ \A i \in DOMAIN tasks_queue :
                i \in DOMAIN tasks_queue' /\ tasks_queue'[i] = tasks_queue[i]
      BY <3>1
    <3>. QED BY <2>1, <2>3, <3>2 DEF Waiting
  <2>4. Owed'
    BY <1>0, <2>1, <2>3 DEF Owed, InTransit
  <2>. QED BY <2>2, <2>4 DEF OpenInv
<1>3. ASSUME NEW e \in batch, HandleHup(e) PROVE OpenInv'
  <2>0. e \in Events
    BY DEF Typing, TypeOK
  <2>1. /\ batch' = batch \ {e} /\ pc[Main] = "batch"
        /\ job' = [job EXCEPT ![Main] = e] /\ pc' = [pc EXCEPT ![Main] = "delFd"]
        /\ UNCHANGED <<epoll, fdTable, users, server, tasks_queue>>
    BY <1>3 DEF HandleHup
  <2>2. /\ pc'[Main] = "delFd" /\ job'[Main] = e
        /\ \A u \in Threads : u # Main => pc'[u] = pc[u] /\ job'[u] = job[u]
    BY <1>0, <2>1 DEF Typing, TypeOK
  <2>3. Unregistered'
    BY <1>0, <2>1, <2>2, UnregisteredStep DEF RemovedLabels, ClosingLabels
  <2>4. ASSUME NEW fd \in Fds, Waiting(fd) \/ InTransit(fd, OwingLabels)
        PROVE  Waiting(fd)' \/ InTransit(fd, OwingLabels)'
    <3>1. CASE e.fd = fd
      <4>1. e # NoJob /\ "delFd" \in OwingLabels
        BY <2>0, ReactorAssumption DEF OwingLabels, HandlingLabels
      <4>. QED BY <1>0, <2>2, <3>1, <4>1 DEF InTransit
    <3>2. CASE e.fd # fd /\ Waiting(fd)
      BY <2>1, <3>2 DEF Waiting
    <3>3. CASE InTransit(fd, OwingLabels)
      <4>1. PICK u \in Threads : pc[u] \in OwingLabels /\ job[u] # NoJob /\ job[u].fd = fd
        BY <3>3 DEF InTransit
      <4>2. u # Main
        BY <2>1, <4>1 DEF OwingLabels, HandlingLabels
      <4>. QED BY <2>2, <4>1, <4>2 DEF InTransit
    <3>. QED BY <2>4, <3>1, <3>2, <3>3
  <2>5. Owed'
    BY <1>0, <2>1, <2>4 DEF Owed
  <2>. QED BY <2>3, <2>5 DEF OpenInv
<1>4. CASE HandleListen_ \/ AcceptFails \/ AcceptRefused
  <2>0. /\ pc[Main] \in {"batch", "accept"}
        /\ pc' = [pc EXCEPT ![Main] = "accept"] \/ pc' = [pc EXCEPT ![Main] = "batch"]
        /\ UNCHANGED <<epoll, fdTable, users, server, batch, tasks_queue, job>>
    BY <1>4 DEF HandleListen_, AcceptFails, AcceptRefused
  <2>1. \A u \in Threads : u # Main => pc'[u] = pc[u]
    BY <2>0 DEF Typing, TypeOK
  <2>2. Owed'
    BY <1>0, <2>0, <2>1, OwedStep DEF OwingLabels, HandlingLabels
  <2>3. Unregistered'
    BY <1>0, <2>0, <2>1, UnregisteredStep DEF RemovedLabels, ClosingLabels
  <2>. QED BY <2>2, <2>3 DEF OpenInv
<1>5. CASE Accept
  <2>1. PICK c \in Backlog, fd \in FreeFds :
          /\ fdTable' = [fdTable EXCEPT ![fd] = c]
          /\ users' = [users EXCEPT ![fd] = initConn(users[fd])]
          /\ job' = [job EXCEPT ![Main] = [fd |-> fd, conn |-> c, kind |-> "new"]]
    BY <1>5 DEF Accept
  <2>2. /\ pc[Main] = "accept" /\ pc' = [pc EXCEPT ![Main] = "addEpoll"]
        /\ UNCHANGED <<epoll, server, batch, tasks_queue>>
    BY <1>5 DEF Accept
  <2>3. /\ pc'[Main] = "addEpoll" /\ job'[Main] = [fd |-> fd, conn |-> c, kind |-> "new"]
        /\ \A u \in Threads : u # Main => pc'[u] = pc[u] /\ job'[u] = job[u]
    BY <1>0, <2>1, <2>2 DEF Typing, TypeOK
  <2>4. job'[Main] \in Events /\ job'[Main] # NoJob /\ job'[Main].fd = fd
    BY <2>3, ReactorAssumption DEF Events, Kinds, Backlog, FreeFds
  <2>5. \A g \in Fds : g # fd => users'[g] = users[g] /\ fdTable'[g] = fdTable[g]
    BY <2>1 DEF Typing, TypeOK
  <2>6. Owed'
    BY <1>0, <2>2, <2>3, OwedStep DEF OwingLabels, HandlingLabels
  <2>7. Unregistered'
    BY <1>0, <2>2, <2>3, <2>4, <2>5, UnregisteredStep DEF RemovedLabels, ClosingLabels
  <2>. QED BY <2>6, <2>7 DEF OpenInv
<1>6. CASE AddFdFails
  <2>1. /\ pc[Main] = "addEpoll" /\ SysClose(f)
        /\ UNCHANGED <<users, server, batch, tasks_queue>>
    BY <1>6 DEF AddFdFails
  <2>2. \A u \in Threads : u # Main => pc'[u] = pc[u] /\ job'[u] = job[u]
    BY <1>0, <1>6 DEF AddFdFails, Accepted
  <2>3. f \in Fds
    BY <1>0, <2>1, HandlerJob
  <2>4. /\ fdTable'[f] = NoConn /\ epoll'[f] = "absent"
        /\ \A fd \in Fds : fd # f => fdTable'[fd] = fdTable[fd] /\ epoll'[fd] = epoll[fd]
    BY <2>1, <2>3 DEF SysClose, Typing, TypeOK, Bound
  <2>5. Owed'
    BY <1>0, <2>1, <2>2, <2>4, OwedStep
  <2>6. Unregistered'
    BY <1>0, <2>1, <2>2, <2>4, UnregisteredStep
  <2>. QED BY <2>5, <2>6 DEF OpenInv
<1>7. CASE AddFd
  <2>1. /\ pc[Main] = "addEpoll" /\ pc' = [pc EXCEPT ![Main] = "addTimer"]
        /\ epoll' = [epoll EXCEPT ![f] = "in"]
        /\ UNCHANGED <<fdTable, users, server, batch, tasks_queue, job>>
    BY <1>7 DEF AddFd
  <2>2. \A u \in Threads : u # Main => pc'[u] = pc[u]
    BY <1>0, <2>1
  <2>3. f \in Fds
    BY <1>0, <2>1, HandlerJob
  <2>4. epoll'[f] = "in" /\ \A fd \in Fds : fd # f => epoll'[fd] = epoll[fd]
    BY <2>1, <2>3 DEF Typing, TypeOK
  <2>5. Owed'
    BY <1>0, <2>1, <2>2, <2>4, OwedStep
  <2>6. Unregistered'
    BY <1>0, <2>1, <2>2, <2>4, UnregisteredStep
  <2>. QED BY <2>5, <2>6 DEF OpenInv
<1>8. CASE AddTimer
  <2>1. /\ pc[Main] = "addTimer"
        /\ UNCHANGED <<epoll, fdTable, users, server, batch, tasks_queue>>
    BY <1>8 DEF AddTimer
  <2>2. \A u \in Threads : u # Main => pc'[u] = pc[u] /\ job'[u] = job[u]
    BY <1>0, <1>8 DEF AddTimer, Accepted
  <2>3. Owed'
    BY <1>0, <2>1, <2>2, OwedStep DEF OwingLabels, HandlingLabels
  <2>4. Unregistered'
    BY <1>0, <2>1, <2>2, UnregisteredStep DEF RemovedLabels, ClosingLabels
  <2>. QED BY <2>3, <2>4 DEF OpenInv
<1>9. CASE RefuseSigpipe
  <2>1. server = "running" /\ UNCHANGED <<epoll, fdTable, users, batch, tasks_queue, pc, job>>
    BY <1>9 DEF RefuseSigpipe
  <2>2. Owed'
    BY <1>0, <2>1 DEF Owed, Waiting, InTransit
  <2>3. Unregistered'
    BY <1>0, <2>1 DEF Unregistered, InTransit
  <2>. QED BY <2>2, <2>3 DEF OpenInv
<1>. QED BY <1>1, <1>2, <1>3, <1>4, <1>5, <1>6, <1>7, <1>8, <1>9 DEF MainStep

\* An open connection is watched, or in somebody's hands, or its object was
\* stopped, whatever the kernel reports and even after a number was given out
\* while it was still being closed: the test of is_running_ in
\* HttpConnect::close is the only way to forget one.
THEOREM OnlyStoppedForgotten == Spec => []NoneForgotten
<1>1. ASSUME OpenInv, UNCHANGED vars PROVE OpenInv'
  <2>. USE <1>1 DEF vars, netVars, kernelVars, heapVars, loopVars, threadVars
  <2>1. Owed'
    BY DEF OpenInv, Owed, Waiting, InTransit
  <2>2. Unregistered'
    BY DEF OpenInv, Unregistered, InTransit
  <2>. QED BY <2>1, <2>2 DEF OpenInv
<1>2. Typing /\ OpenInv /\ [Next]_vars => OpenInv'
  BY <1>1, OpenClients, OpenMain, OpenWorker, OpenClose DEF Next
<1>3. Typing /\ OpenInv => NoneForgotten
  <2>. SUFFICES ASSUME Typing, OpenInv, server # "aborted",
                       NEW fd \in Fds, fdTable[fd] # NoConn,
                       epoll[fd] \notin {"in", "out"}, users[fd].is_running
                PROVE  \E e \in Held : e.fd = fd
    BY DEF NoneForgotten
  <2>1. ASSUME NEW labels, InTransit(fd, labels) PROVE \E e \in Held : e.fd = fd
    <3>1. PICK t \in Threads : job[t] # NoJob /\ job[t].fd = fd
      BY <2>1 DEF InTransit
    <3>. QED BY <3>1 DEF Held, Jobs
  <2>2. Waiting(fd) => \E e \in Held : e.fd = fd
    BY DEF Waiting, Held, Tasks
  <2>3. epoll[fd] \in {"absent", "off"}
    BY DEF Typing, TypeOK
  <2>4. InTransit(fd, RemovedLabels) \/ Waiting(fd) \/ InTransit(fd, OwingLabels)
    BY <2>3 DEF OpenInv, Owed, Unregistered
  <2>. QED BY <2>1, <2>2, <2>4
<1>. QED BY OpenInit, <1>2, <1>3, TypingInvariant, PTL DEF Spec
=============================================================================
