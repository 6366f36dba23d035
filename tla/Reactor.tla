------------------------------- MODULE Reactor -------------------------------
(***************************************************************************)
(* The reactor of code/server/webserver.cpp: the main thread waits in      *)
(* epoll_wait, accepts connections and hands ready descriptors to the      *)
(* worker threads of the pool, which read, process, write and close.       *)
(* Descriptors are reused by the kernel, and users_[fd] (an HttpConnect)   *)
(* is reused with them, so the module keeps descriptors and connections    *)
(* apart: fdTable says which connection a descriptor stands for.           *)
(*                                                                         *)
(* One step is one system call or one access to state that another thread  *)
(* can see.  Bytes are abstracted to "some": what a request says is left   *)
(* to HttpRequest, how many bytes of a response went out to HttpConnect.   *)
(***************************************************************************)
EXTENDS Integers, Sequences, FiniteSets

CONSTANTS
    Conns,         \* the connections clients open during a behaviour
    Fds,           \* the descriptors the process may use for connections
    Workers,       \* the threads of the pool
    Main,          \* the thread that runs WebServer::start
    NoConn,        \* the value of a descriptor that is not open
    NoJob,         \* the job of a thread that works for no connection
    MAX_FD,        \* the limit HandleListen_ puts on user_count
    ListenET,      \* the listening socket is edge-triggered
    ConnET,        \* connections are edge-triggered
    TimeoutOn,     \* timeoutMS_ > 0
    Requests       \* what process() may find in the read buffer

Threads == Workers \cup {Main}

\* An event epoll_wait reported and the work done for it. conn is a history
\* variable: the connection the descriptor stood for at the time.
Kinds  == {"hup", "in", "out", "new"}
Events == [fd : Fds, conn : Conns, kind : Kinds]

\* A request parses or not, asks for keep-alive, is answered with a file, and
\* leaves bytes in the read buffer.
RequestKinds == {r \in [ok : BOOLEAN, keep : BOOLEAN, file : BOOLEAN,
                        rest : BOOLEAN] : r.keep => r.ok}

MainLabels   == {"batch", "accept", "addEpoll", "addTimer"}
WorkerLabels == {"idle", "read", "process", "rearmIn", "rearmOut", "write",
                 "failLoad", "failStop", "failCount", "failFd"}
CloseLabels  == {"delFd", "delTimer", "closeLoad", "closeStop", "closeCount",
                 "closeFd"}

ASSUME ReactorAssumption ==
    /\ Main \notin Workers
    /\ NoConn \notin Conns
    /\ NoJob \notin Events
    /\ IsFiniteSet(Conns) /\ IsFiniteSet(Fds) /\ IsFiniteSet(Workers)
    /\ MAX_FD \in Nat
    /\ ListenET \in BOOLEAN /\ ConnET \in BOOLEAN /\ TimeoutOn \in BOOLEAN
    /\ Requests \subseteq RequestKinds

VARIABLES
    \* the network and the kernel
    sock,          \* [Conns -> {"new", "backlog", "open", "closed"}]
    gone,          \* the connections whose peer closed or reset
    data,          \* the connections with request bytes to read
    edge,          \* a connection arrived since the listener was reported
    fdTable,       \* [Fds -> Conns \cup {NoConn}]
    epoll,         \* [Fds -> {"absent", "off", "in", "out"}]
    \* the process
    server,        \* "running", "aborted" by an assert, "killed" by a signal
    users,         \* users_: what the HttpConnect of each descriptor holds
    user_count,    \* HttpConnect::user_count
    timers,        \* the descriptors in HeapTimer::map_
    acceptDue,     \* the batch holds an event of the listener
    batch,         \* the events of connections still to be dispatched
    tasks_queue,   \* ThreadPool::tasks_queue_
    pc, job,       \* per thread: the next step, and the event it works for
    \* what has happened, which no guard reads
    overtaken,     \* accept returned a number some event still named
    refused        \* the descriptors and connections epoll refused to watch

netVars    == <<sock, gone, data>>
kernelVars == <<edge, fdTable, epoll>>
heapVars   == <<users, user_count, timers>>
loopVars   == <<acceptDue, batch, tasks_queue>>
threadVars == <<pc, job>>
historyVars == <<overtaken, refused>>
vars == <<netVars, kernelVars, server, heapVars, loopVars, threadVars,
          historyVars>>

-----------------------------------------------------------------------------
\* What the rest of the server sees of an HttpConnect. resp: bytes within
\* iovcnt_ are unsent; stale: iov[1].iov_len is what read() left there, which
\* no response replaced (to_write_bytes() counts it, writeResponse does not).
HttpConnect == [is_running : BOOLEAN, isKeepAlive : BOOLEAN,
                readBuff : BOOLEAN, resp : BOOLEAN, stale : BOOLEAN]

NewHttpConnect == [is_running |-> FALSE, isKeepAlive |-> FALSE,
                   readBuff |-> FALSE, resp |-> FALSE, stale |-> FALSE]

Init ==
    /\ sock = [c \in Conns |-> "new"]
    /\ gone = {} /\ data = {} /\ edge = FALSE
    /\ fdTable = [fd \in Fds |-> NoConn]
    /\ epoll = [fd \in Fds |-> "absent"]
    /\ server = "running"
    /\ users = [fd \in Fds |-> NewHttpConnect]
    /\ user_count = 0 /\ timers = {}
    /\ acceptDue = FALSE /\ batch = {} /\ tasks_queue = << >>
    /\ pc = [t \in Threads |-> IF t = Main THEN "batch" ELSE "idle"]
    /\ job = [t \in Threads |-> NoJob]
    /\ overtaken = FALSE /\ refused = {}

Tasks == {tasks_queue[i] : i \in DOMAIN tasks_queue}
Jobs  == {job[t] : t \in Threads} \ {NoJob}
\* The events on their way from epoll_wait to the end of their handler.
Held  == batch \cup Tasks \cup Jobs

\* Thread t is about to take the step l of a process that still runs.
At(t, l) == server = "running" /\ pc[t] = l

Goto(t, l) == pc' = [pc EXCEPT ![t] = l]

\* The thread has done with its event: a worker asks the pool for the next
\* task, the main thread goes on with the batch.
Done(t) ==
    /\ Goto(t, IF t = Main THEN "batch" ELSE "idle")
    /\ job' = [job EXCEPT ![t] = NoJob]

\* The kernel forgets a connection, its unread data and its peer's FIN.
Ends(c) ==
    /\ sock' = [sock EXCEPT ![c] = "closed"]
    /\ gone' = gone \ {c}
    /\ data' = data \ {c}

\* close(2): the kernel drops the epoll registration and ends the connection.
\* EBADF (nothing changes) if the descriptor is not open.
SysClose(fd) ==
    IF fdTable[fd] = NoConn
    THEN UNCHANGED <<netVars, fdTable, epoll>>
    ELSE /\ fdTable' = [fdTable EXCEPT ![fd] = NoConn]
         /\ epoll' = [epoll EXCEPT ![fd] = "absent"]
         /\ Ends(fdTable[fd])

\* Mutant: a connection is left disarmed when it should wait for its next
\* request.
mod_fdOutOnly(fd, interest) ==
    epoll' = [epoll EXCEPT ![fd] = IF interest = "out" THEN "out" ELSE @]

\* epoll_ctl(MOD): fails with ENOENT, unnoticed, on an unregistered descriptor.
mod_fd(fd, interest) ==
    epoll' = [epoll EXCEPT ![fd] = IF @ = "absent" THEN @ ELSE interest]

-----------------------------------------------------------------------------
(* The clients.                                                            *)

Connect(c) ==
    /\ sock[c] = "new"
    /\ sock' = [sock EXCEPT ![c] = "backlog"]
    /\ edge' = TRUE
    /\ UNCHANGED <<gone, data, fdTable, epoll, server, heapVars, loopVars,
                   threadVars, historyVars>>

Send(c) ==
    /\ sock[c] \in {"backlog", "open"} /\ c \notin gone
    /\ data' = data \cup {c}
    /\ UNCHANGED <<sock, gone, kernelVars, server, heapVars, loopVars,
                   threadVars, historyVars>>

\* FIN or RST from the peer.
Leave(c) ==
    /\ sock[c] \in {"backlog", "open"}
    /\ gone' = gone \cup {c}
    /\ UNCHANGED <<sock, data, kernelVars, server, heapVars, loopVars,
                   threadVars, historyVars>>

-----------------------------------------------------------------------------
(* The main thread: WebServer::start.                                      *)

ListenReady == IF ListenET THEN edge ELSE \E c \in Conns : sock[c] = "backlog"

\* Mutant: EPOLLRDHUP is not asked for while a response is being written.
HupReadyReading ==
    {fd \in Fds : epoll[fd] = "in" /\ fdTable[fd] \in gone}

\* start() tests EPOLLRDHUP before EPOLLIN before EPOLLOUT.
HupReady == {fd \in Fds : epoll[fd] \in {"in", "out"} /\ fdTable[fd] \in gone}
InReady  == {fd \in Fds : epoll[fd] = "in" /\ fdTable[fd] \in data \ gone}
OutArmed == {fd \in Fds : epoll[fd] = "out" /\ fdTable[fd] \notin gone}

Report(fds, kind) ==
    {[fd |-> fd, conn |-> fdTable[fd], kind |-> kind] : fd \in fds}

\* Mutant: connEvent_ without EPOLLONESHOT.
reportedAgain(fd) == epoll[fd]

\* connEvent_ has EPOLLONESHOT: a reported descriptor is disarmed.
reported(fd) == "off"

\* With the previous batch dispatched, epoll_wait returns what is ready and
\* disarms it. The send buffers of any subset of the connections waiting to
\* write have room. A return without events changes nothing.
EpollWait ==
    /\ At(Main, "batch") /\ batch = {} /\ ~acceptDue
    /\ \E writable \in SUBSET OutArmed :
          LET ready == HupReady \cup InReady \cup writable IN
          /\ ListenReady \/ ready # {}
          /\ batch' = Report(HupReady, "hup") \cup Report(InReady, "in")
                         \cup Report(writable, "out")
          /\ epoll' = [fd \in Fds |->
                           IF fd \in ready THEN reported(fd) ELSE epoll[fd]]
    /\ acceptDue' = ListenReady
    /\ edge' = FALSE
    /\ UNCHANGED <<netVars, fdTable, server, heapVars, tasks_queue,
                   threadVars, historyVars>>

\* ExtentTime_ asserts that the descriptor has a timer.
ExtendTimeFails(fd) == TimeoutOn /\ fd \notin timers

\* HandleRead_ and HandleWrite_: extend the timer, submit OnRead_ or OnWrite_.
HandleReadWrite_(e) ==
    /\ At(Main, "batch")
    /\ e \in batch /\ e.kind \in {"in", "out"}
    /\ batch' = batch \ {e}
    /\ IF ExtendTimeFails(e.fd)
       THEN /\ server' = "aborted"
            /\ UNCHANGED tasks_queue
       ELSE /\ tasks_queue' = Append(tasks_queue, e)
            /\ UNCHANGED server
    /\ UNCHANGED <<netVars, kernelVars, heapVars, acceptDue, threadVars,
                   historyVars>>

\* An exceptional event: the main thread itself runs CloseConn_.
HandleHup(e) ==
    /\ At(Main, "batch")
    /\ e \in batch /\ e.kind = "hup"
    /\ batch' = batch \ {e}
    /\ job' = [job EXCEPT ![Main] = e]
    /\ Goto(Main, "delFd")
    /\ UNCHANGED <<netVars, kernelVars, server, heapVars, acceptDue,
                   tasks_queue, historyVars>>

HandleListen_ ==
    /\ At(Main, "batch")
    /\ acceptDue
    /\ acceptDue' = FALSE
    /\ Goto(Main, "accept")
    /\ UNCHANGED <<netVars, kernelVars, server, heapVars, batch, tasks_queue,
                   job, historyVars>>

Backlog == {c \in Conns : sock[c] = "backlog"}
FreeFds == {fd \in Fds : fdTable[fd] = NoConn}

\* accept fails, with whatever errno: HandleListen_ returns, edge-triggered or
\* not. The backlog stays as it is (EAGAIN, EMFILE, EINTR, ENOMEM, ...), or
\* the kernel passes on the error of a connection whose peer is gone.
AcceptFails ==
    /\ At(Main, "accept")
    /\ \/ UNCHANGED netVars
       \/ \E c \in Backlog \cap gone : Ends(c)
    /\ Goto(Main, "batch")
    /\ UNCHANGED <<kernelVars, server, heapVars, loopVars, job, historyVars>>

\* The limit is reached: SendError_ closes the descriptor just accepted, and
\* HandleListen_ returns, edge-triggered or not.
AcceptRefused ==
    /\ At(Main, "accept")
    /\ FreeFds # {}
    /\ user_count >= MAX_FD
    /\ \E c \in Backlog : Ends(c)
    /\ Goto(Main, "batch")
    /\ UNCHANGED <<kernelVars, server, heapVars, loopVars, job, historyVars>>

\* The send of SendError_ raises SIGPIPE, as writev may (WriteSigpipe).
RefuseSigpipe ==
    /\ At(Main, "accept")
    /\ FreeFds # {} /\ Backlog \cap gone # {}
    /\ user_count >= MAX_FD
    /\ server' = "killed"
    /\ UNCHANGED <<netVars, kernelVars, heapVars, loopVars, threadVars,
                   historyVars>>

\* users_[fd].init(fd, addr). isKeepAlive_ and iov keep what they had.
initConn(u) == [u EXCEPT !.is_running = TRUE, !.readBuff = FALSE]

\* accept, the test of the limit, then the first half of AddClient_. One step:
\* no other thread gives out descriptors or raises user_count, and one that
\* lowers the count or closes a descriptor meanwhile might have come first.
Accept ==
    /\ At(Main, "accept")
    /\ user_count < MAX_FD
    /\ \E c \in Backlog, fd \in FreeFds :
          /\ sock' = [sock EXCEPT ![c] = "open"]
          /\ fdTable' = [fdTable EXCEPT ![fd] = c]
          /\ users' = [users EXCEPT ![fd] = initConn(users[fd])]
          /\ job' = [job EXCEPT ![Main] =
                        [fd |-> fd, conn |-> c, kind |-> "new"]]
          /\ overtaken' = (overtaken \/ \E e \in Held : e.fd = fd)
    /\ user_count' = user_count + 1
    /\ Goto(Main, "addEpoll")
    /\ UNCHANGED <<gone, data, edge, epoll, server, timers, loopVars, refused>>

\* Where HandleListen_ goes after AddClient_: its loop runs when ET.
Accepted ==
    /\ Goto(Main, IF ListenET THEN "accept" ELSE "batch")
    /\ job' = [job EXCEPT ![Main] = NoJob]

\* epoller_->add_fd fails (no memory, the limit on watches, a descriptor
\* closed meanwhile): AddClient_ closes the descriptor and returns, without
\* HttpConnect::close.
AddFdFails ==
    /\ At(Main, "addEpoll")
    /\ SysClose(job[Main].fd)
    /\ Accepted
    /\ refused' = refused \cup {[fd |-> job[Main].fd, conn |-> job[Main].conn]}
    /\ UNCHANGED <<edge, server, heapVars, loopVars, overtaken>>

AddFd ==
    /\ At(Main, "addEpoll")
    /\ fdTable[job[Main].fd] # NoConn
    /\ epoll' = [epoll EXCEPT ![job[Main].fd] = "in"]
    /\ Goto(Main, "addTimer")
    /\ UNCHANGED <<netVars, edge, fdTable, server, heapVars, loopVars, job,
                   historyVars>>

\* Mutant: AddClient_ adds no timer.
addNothing(fd) == timers

\* timer_->add, when there is a timeout.
add(fd) == IF TimeoutOn THEN timers \cup {fd} ELSE timers

AddTimer ==
    /\ At(Main, "addTimer")
    /\ timers' = add(job[Main].fd)
    /\ Accepted
    /\ UNCHANGED <<netVars, kernelVars, server, users, user_count, loopVars,
                   historyVars>>

-----------------------------------------------------------------------------
(* The worker threads: ThreadPool::NewThread, OnRead_, OnProcess, OnWrite_.*)

Take(w) ==
    /\ At(w, "idle")
    /\ tasks_queue # << >>
    /\ LET e == Head(tasks_queue) IN
          /\ job' = [job EXCEPT ![w] = e]
          /\ Goto(w, IF e.kind = "in" THEN "read" ELSE "write")
    /\ tasks_queue' = Tail(tasks_queue)
    /\ UNCHANGED <<netVars, kernelVars, server, heapVars, acceptDue, batch,
                   historyVars>>

\* Both entries of iov are left describing the buffers readv was given.
filled(u, some) ==
    [u EXCEPT !.resp = TRUE, !.stale = TRUE, !.readBuff = @ \/ some]

\* HttpConnect::read returns 0 or -1 and errno is not EAGAIN: the object is
\* not running, or readv fails or finds the end of the stream. With the
\* descriptor closed or the peer gone it must (when edge-triggered, even after
\* data was read in the same call); any other errno may come at any time.
ReadFails(w) ==
    LET fd == job[w].fd IN
    /\ At(w, "read")
    /\ users' = IF users[fd].is_running
                THEN [users EXCEPT ![fd] = filled(@, FALSE)] ELSE users
    /\ Goto(w, "delFd")
    /\ UNCHANGED <<netVars, kernelVars, server, user_count, timers, loopVars,
                   job, historyVars>>

\* HttpConnect::read returns data, or EAGAIN when there was none.
Read(w) ==
    LET fd == job[w].fd
        c  == fdTable[fd] IN
    /\ At(w, "read")
    /\ users[fd].is_running /\ c # NoConn
    /\ c \in gone => ~ConnET /\ c \in data
    /\ data' = data \ {c}
    /\ users' = [users EXCEPT ![fd] = filled(@, c \in data)]
    /\ Goto(w, "process")
    /\ UNCHANGED <<sock, gone, kernelVars, server, user_count, timers,
                   loopVars, job, historyVars>>

\* HttpConnect::process with an empty read buffer.
ProcessNothing(w) ==
    /\ At(w, "process")
    /\ ~users[job[w].fd].readBuff
    /\ Goto(w, "rearmIn")
    /\ UNCHANGED <<netVars, kernelVars, server, heapVars, loopVars, job,
                   historyVars>>

\* A response is ready: response headers in iov[0]; with a file iov[1] is its
\* mapping, without one iov[1] is left as it was.
respond(u, r) ==
    [u EXCEPT !.isKeepAlive = r.keep, !.readBuff = r.rest, !.resp = TRUE,
              !.stale = @ /\ ~r.file]

\* HttpConnect::process on what the buffer holds.
Process(w) ==
    LET fd == job[w].fd IN
    /\ At(w, "process")
    /\ users[fd].readBuff
    /\ \E r \in Requests :
          /\ users' = [users EXCEPT ![fd] = respond(@, r)]
          /\ Goto(w, IF r.ok THEN "rearmOut" ELSE "rearmIn")
    /\ UNCHANGED <<netVars, kernelVars, server, user_count, timers, loopVars,
                   job, historyVars>>

\* epoller_->mod_fd, the last step of OnProcess and of OnWrite_.
Rearm(w) ==
    /\ At(w, "rearmIn") \/ At(w, "rearmOut")
    /\ mod_fd(job[w].fd, IF pc[w] = "rearmIn" THEN "in" ELSE "out")
    /\ Done(w)
    /\ UNCHANGED <<netVars, edge, fdTable, server, heapVars, loopVars,
                   historyVars>>

\* writeResponse has something to send and somewhere to send it.
CanWrite(u) == u.is_running /\ u.resp

\* OnWrite_ after writeResponse: write again, serve the next request, close.
afterWrite(u) ==
    IF u.resp \/ u.stale THEN "rearmOut"
    ELSE IF u.isKeepAlive THEN "process" ELSE "delFd"

\* Mutant: writeResponse stops the object whatever isKeepAlive_ says.
writtenAndStopped(u, all) == [u EXCEPT !.resp = ~all, !.is_running = FALSE]

\* What writeResponse leaves behind when it sent some or all of the response:
\* without keep-alive the object is marked not running.
written(u, all) ==
    [u EXCEPT !.resp = ~all, !.is_running = @ /\ u.isKeepAlive]

WriteNothing(w) ==
    LET fd == job[w].fd IN
    /\ At(w, "write")
    /\ CanWrite(users[fd]) => fdTable[fd] # NoConn
    /\ Goto(w, afterWrite(users[fd]))
    /\ UNCHANGED <<netVars, kernelVars, server, heapVars, loopVars, job,
                   historyVars>>

Write(w) ==
    LET fd == job[w].fd IN
    /\ At(w, "write")
    /\ CanWrite(users[fd]) /\ fdTable[fd] # NoConn
    /\ \E all \in BOOLEAN :
          /\ users' = [users EXCEPT ![fd] = written(@, all)]
          /\ Goto(w, afterWrite(written(users[fd], all)))
    /\ UNCHANGED <<netVars, kernelVars, server, user_count, timers, loopVars,
                   job, historyVars>>

\* writev fails, with any errno but EAGAIN and whether or not the peer is
\* there: writeResponse runs HttpConnect::close before CloseConn_ does.
WriteFails(w) ==
    /\ At(w, "write")
    /\ CanWrite(users[job[w].fd])
    /\ Goto(w, "failLoad")
    /\ UNCHANGED <<netVars, kernelVars, server, heapVars, loopVars, job,
                   historyVars>>

\* writev on a socket shut down by its peer raises SIGPIPE, which main() does
\* not ignore.
WriteSigpipe(w) ==
    /\ At(w, "write")
    /\ CanWrite(users[job[w].fd])
    /\ fdTable[job[w].fd] \in gone
    /\ server' = "killed"
    /\ UNCHANGED <<netVars, kernelVars, heapVars, loopVars, threadVars,
                   historyVars>>

-----------------------------------------------------------------------------
(* WebServer::CloseConn_ and HttpConnect::close, by a worker or by main.   *)

DelFd(t) ==
    /\ At(t, "delFd")
    /\ epoll' = [epoll EXCEPT ![job[t].fd] = "absent"]
    /\ Goto(t, "delTimer")
    /\ UNCHANGED <<netVars, edge, fdTable, server, heapVars, loopVars, job,
                   historyVars>>

\* Mutant: CloseConn_ does not remove the timer.
do_workKept(fd) == timers

\* timer_->do_work removes the timer; its callback is erased before it could
\* be called.
do_work(fd) == timers \ {fd}

DelTimer(t) ==
    /\ At(t, "delTimer")
    /\ timers' = do_work(job[t].fd)
    /\ Goto(t, "closeLoad")
    /\ UNCHANGED <<netVars, kernelVars, server, users, user_count, loopVars,
                   job, historyVars>>

\* HttpConnect::close, access by access. The labels "fail..." are those of the
\* call writeResponse makes, after which CloseConn_ follows.
CloseLoad(t) ==
    /\ At(t, "closeLoad") \/ At(t, "failLoad")
    /\ IF users[job[t].fd].is_running
       THEN /\ Goto(t, IF pc[t] = "closeLoad" THEN "closeStop" ELSE "failStop")
            /\ UNCHANGED job
       ELSE IF pc[t] = "closeLoad" THEN Done(t)
       ELSE Goto(t, "delFd") /\ UNCHANGED job
    /\ UNCHANGED <<netVars, kernelVars, server, heapVars, loopVars,
                   historyVars>>

\* Mutant: close() leaves the object running.
stoppedNot(fd) == users

stopped(fd) == [users EXCEPT ![fd].is_running = FALSE]

CloseStop(t) ==
    /\ At(t, "closeStop") \/ At(t, "failStop")
    /\ users' = stopped(job[t].fd)
    /\ Goto(t, IF pc[t] = "closeStop" THEN "closeCount" ELSE "failCount")
    /\ UNCHANGED <<netVars, kernelVars, server, user_count, timers, loopVars,
                   job, historyVars>>

\* Mutant: close() does not count the connection.
countKept == user_count

countLowered == user_count - 1

CloseCount(t) ==
    /\ At(t, "closeCount") \/ At(t, "failCount")
    /\ user_count' = countLowered
    /\ Goto(t, IF pc[t] = "closeCount" THEN "closeFd" ELSE "failFd")
    /\ UNCHANGED <<netVars, kernelVars, server, users, timers, loopVars, job,
                   historyVars>>

CloseFd(t) ==
    /\ At(t, "closeFd") \/ At(t, "failFd")
    /\ SysClose(job[t].fd)
    /\ IF pc[t] = "closeFd" THEN Done(t)
       ELSE Goto(t, "delFd") /\ UNCHANGED job
    /\ UNCHANGED <<edge, server, heapVars, loopVars, historyVars>>

-----------------------------------------------------------------------------
\* What clients do once the process is dead is not followed.
Clients == /\ server = "running"
           /\ \E c \in Conns : Connect(c) \/ Send(c) \/ Leave(c)

MainStep ==
    \/ EpollWait
    \/ \E e \in batch : HandleReadWrite_(e) \/ HandleHup(e)
    \/ HandleListen_ \/ AcceptFails \/ AcceptRefused \/ RefuseSigpipe \/ Accept
    \/ AddFdFails \/ AddFd \/ AddTimer

WorkerStep(w) ==
    \/ Take(w)
    \/ ReadFails(w) \/ Read(w)
    \/ ProcessNothing(w) \/ Process(w) \/ Rearm(w)
    \/ WriteNothing(w) \/ Write(w) \/ WriteFails(w) \/ WriteSigpipe(w)

CloseStep(t) ==
    \/ DelFd(t) \/ DelTimer(t)
    \/ CloseLoad(t) \/ CloseStop(t) \/ CloseCount(t) \/ CloseFd(t)

Next ==
    \/ Clients
    \/ MainStep
    \/ \E w \in Workers : WorkerStep(w)
    \/ \E t \in Threads : CloseStep(t)

Spec == Init /\ [][Next]_vars

\* The operating system schedules every thread that can run; clients owe
\* nothing to anyone.
Fairness ==
    /\ WF_vars(MainStep)
    /\ WF_vars(CloseStep(Main))
    /\ \A w \in Workers : WF_vars(WorkerStep(w) \/ CloseStep(w))

FairSpec == Spec /\ Fairness
-----------------------------------------------------------------------------
(* Properties.                                                             *)

\* The states have the shape their declarations say.
TypeOK ==
    /\ sock \in [Conns -> {"new", "backlog", "open", "closed"}]
    /\ gone \subseteq Conns /\ data \subseteq Conns /\ edge \in BOOLEAN
    /\ fdTable \in [Fds -> Conns \cup {NoConn}]
    /\ epoll \in [Fds -> {"absent", "off", "in", "out"}]
    /\ server \in {"running", "aborted", "killed"}
    /\ users \in [Fds -> HttpConnect]
    /\ user_count \in Int /\ timers \subseteq Fds
    /\ acceptDue \in BOOLEAN /\ batch \subseteq Events
    /\ tasks_queue \in Seq(Events)
    /\ pc \in [Threads -> MainLabels \cup WorkerLabels \cup CloseLabels]
    /\ job \in [Threads -> Events \cup {NoJob}]
    /\ overtaken \in BOOLEAN
    /\ refused \subseteq [fd : Fds, conn : Conns]

\* The properties below hold until accept returns a number that a thread is
\* still closing after its writev failed (overtaken): from then on that thread
\* takes the new connection for its own.

\* An event that is dispatched, queued or worked on is the only one of its
\* descriptor, and the descriptor is not armed meanwhile (it is from add_fd on
\* while AddClient_ still has to add the timer, but nothing is reported then).
Exclusive ==
    /\ \A d, e \in batch : d.fd = e.fd => d = e
    /\ \A i, j \in DOMAIN tasks_queue :
          tasks_queue[i].fd = tasks_queue[j].fd => i = j
    /\ \A t, u \in Threads :
          job[t] # NoJob /\ job[u] # NoJob /\ job[t].fd = job[u].fd => t = u
    /\ \A d \in batch, i \in DOMAIN tasks_queue : d.fd # tasks_queue[i].fd
    /\ \A d \in batch, t \in Threads : job[t] # NoJob => d.fd # job[t].fd
    /\ \A i \in DOMAIN tasks_queue, t \in Threads :
          job[t] # NoJob => tasks_queue[i].fd # job[t].fd
    /\ \A e \in Held : epoll[e.fd] \in {"in", "out"} => pc[Main] = "addTimer"

\* EPOLLONESHOT serialises the handlers of a connection, from epoll_wait to
\* the end of the handler.
OneHandler == ~overtaken => Exclusive

\* A thread in CloseConn_ on a descriptor that its own failed write has closed.
Abandoned(fd) ==
    /\ fdTable[fd] = NoConn
    /\ \E t \in Threads : /\ job[t] # NoJob /\ job[t].fd = fd
                          /\ pc[t] \in {"delFd", "delTimer", "closeLoad"}

\* An event always speaks of the connection its descriptor stands for, from
\* epoll_wait to the end of its handler. The one exception is where H2 begins:
\* after a failed write the number is free while CloseConn_ still uses it.
NoStaleDescriptor ==
    ~overtaken =>
        \A e \in Held : fdTable[e.fd] = e.conn \/ Abandoned(e.fd)

\* The assertion of HeapTimer::adjust, that the descriptor has a timer, can
\* fail only after a number was given out while it was still being closed:
\* neither clients that leave, nor errors of read, write, accept or epoll_ctl,
\* nor the limit alone make ExtentTime_ abort the server.
AbortNeedsReuse == server = "aborted" => overtaken

\* What the assertion itself says (heaptimer.cpp:86). The code violates it.
NoAbort == server # "aborted"

\* The threads between fetch_sub and close(2).
Closing == {t \in Threads : pc[t] \in {"closeFd", "failFd"}}
OpenConns == {c \in Conns : sock[c] = "open"}

\* user_count is the number of connections accepted and not closed, once the
\* threads that have lowered it do close, and but for the connections that
\* epoll refused to watch: they stay counted for ever.
UserCountExact ==
    ~overtaken =>
        user_count + Cardinality(Closing)
            = Cardinality(OpenConns) + Cardinality(refused)

\* What httpconnect.h:59 says of user_count, on the same terms. The code
\* violates it.
UserCountIsOpen ==
    ~overtaken => user_count + Cardinality(Closing) = Cardinality(OpenConns)

InTransit(fd, labels) ==
    \E t \in Threads : pc[t] \in labels /\ job[t] # NoJob /\ job[t].fd = fd

\* A descriptor has a timer exactly while it is registered with epoll, except
\* between the two steps that add or remove both, and after a failed write
\* (close(2) ends the registration) until CloseConn_ removes the timer.
TimersMatch ==
    TimeoutOn /\ ~overtaken =>
        \A fd \in Fds :
            \/ (fd \in timers) <=> (epoll[fd] # "absent")
            \/ InTransit(fd, {"addTimer", "delTimer"})
            \/ fdTable[fd] = NoConn /\ InTransit(fd, {"delFd"})

\* A descriptor given back to the kernel leaves nothing behind that the next
\* connection with the same number would inherit: no registration, no timer
\* once its handler is done, and no running HttpConnect unless epoll refused
\* to watch it.
FreeFdIsClean ==
    ~overtaken =>
        \A fd \in FreeFds :
            /\ epoll[fd] = "absent"
            /\ fd \in timers => InTransit(fd, {"delFd", "delTimer"})
            /\ users[fd].is_running => \E r \in refused : r.fd = fd

\* An open connection nothing will ever look at again.
Orphan(fd) == /\ fdTable[fd] # NoConn /\ epoll[fd] = "absent"
              /\ \A e \in Held : e.fd # fd

\* Only a connection without keep-alive whose response went out (in part)
\* can be forgotten open: one with keep-alive is watched, handled or closed.
OrphansAreShort ==
    ~overtaken =>
        \A fd \in Fds :
            Orphan(fd) => ~users[fd].is_running /\ ~users[fd].isKeepAlive

\* No connection is forgotten open: what the comments at webserver.cpp:100
\* and :234 say of short connections and of failed ones.
NoOrphan == \A fd \in Fds : ~Orphan(fd)

\* A connection whose peer is gone is closed, or is an orphan, unless the
\* process ends first.
GoneIsDropped ==
    \A c \in Conns :
        (c \in gone /\ sock[c] = "open") ~>
            \/ sock[c] = "closed"
            \/ \E fd \in Fds : fdTable[fd] = c /\ Orphan(fd)
            \/ server # "running"

\* Every connection that arrives is accepted or refused. The code violates it
\* when the listener is edge-triggered: a refusal or an error of accept ends
\* the loop with the rest of the backlog waiting.
AllAccepted ==
    \A c \in Conns :
        (sock[c] = "backlog") ~> (sock[c] # "backlog" \/ server # "running")
=============================================================================
