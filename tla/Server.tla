------------------------------- MODULE Server -------------------------------
(***************************************************************************)
(* The life of the process (code/main.cpp, the constructor and destructor  *)
(* of WebServer, InitSocket_, start, stop): it is configured, comes up,    *)
(* serves, is interrupted by SIGINT at any moment, and takes itself apart  *)
(* while the workers of its thread pool may still be in a handler.  What   *)
(* handlers do is reduced to the objects they use; Reactor, SqlConnPool,   *)
(* ThreadPool and Logger say more of each part.                            *)
(***************************************************************************)
EXTENDS Integers, Sequences

CONSTANTS
    Workers,      \* the threads of the pool
    Connections,  \* the numbers of database connections Init may get
    Ports,        \* what may stand behind "port =" or -p, the negative aside
    MaxTasks,     \* how many tasks the model lets the pool's queue hold
    MaxSignals    \* how many times it lets the user press Ctrl-C

ASSUME ServerAssumption ==
    /\ Connections \subseteq Nat /\ Ports \subseteq Nat
    /\ MaxTasks \in Nat /\ MaxSignals \in Nat

VARIABLES
    pc,           \* where the main thread is
    destroyed,    \* how many members ~WebServer has destroyed
    c_port,       \* Config::c_port
    listenFd,     \* listenFd_: "garbage", "none" (-1), "open" or "closed"
    g_server,     \* whether the signal handler finds the server
    is_running,   \* WebServer::is_running_
    logging,      \* the main thread holds the mutex of the log's queue
    missed,       \* a signal came after the test of is_running_ and before the
                  \* epoll_wait that follows it
    signals,      \* history: how many there have been
    alive,        \* the objects handlers use, as long as they exist
    tasks,        \* the length of tasks_queue_
    pool_running, \* ThreadPool::is_running_
    connQue,      \* the length of SqlConnPool's queue
    at,           \* per worker: where it is
    dangling,     \* history: objects a handler used when they were gone
    badClose      \* history: ~WebServer closed what was not its socket

mainVars   == <<pc, destroyed, c_port, listenFd, g_server, is_running, missed, badClose>>
workerVars == <<tasks, at, connQue, dangling>>
vars == <<mainVars, logging, signals, alive, pool_running, workerVars>>

Objects == {"srcDir", "connections", "users", "epoller", "timer"}

Init ==
    /\ pc = "configure" /\ destroyed = 0 /\ c_port = 0
    /\ listenFd = "garbage" /\ g_server = FALSE /\ is_running = FALSE
    /\ logging = FALSE /\ missed = FALSE /\ signals = 0
    /\ alive = {} /\ tasks = 0 /\ pool_running = FALSE /\ connQue = 0
    /\ at = [w \in Workers |-> "gone"]
    /\ dangling = {} /\ badClose = FALSE

-----------------------------------------------------------------------------
(* Coming up.                                                              *)

uint16(n) == n % (2^16)
int16(n)  == ((n + 2^15) % (2^16)) - 2^15

\* The port of the file, or of -p, which refuses 0 and ends the program, or
\* neither: c_port is 0 then.
Configure ==
    /\ pc = "configure"
    /\ \/ \E p \in Ports : c_port' = p /\ pc' = "construct"
       \/ \E p \in Ports : IF uint16(p) = 0 THEN pc' = "exited" /\ UNCHANGED c_port
                           ELSE c_port' = uint16(p) /\ pc' = "construct"
       \/ pc' = "construct" /\ UNCHANGED c_port
    /\ UNCHANGED <<destroyed, listenFd, g_server, is_running, missed, badClose,
                   logging, signals, alive, pool_running, workerVars>>

\* The constructor up to InitSocket_: the members, the log and the connections
\* to the database there are to be had.
Construct ==
    /\ pc = "construct" /\ pc' = "initSocket"
    /\ is_running' = TRUE /\ alive' = Objects
    /\ pool_running' = TRUE /\ at' = [w \in Workers |-> "idle"]
    /\ connQue' \in Connections
    /\ UNCHANGED <<destroyed, c_port, listenFd, g_server, missed, badClose,
                   logging, signals, tasks, dangling>>

\* port_ is an int16_t.
port == int16(c_port)

portRefused == port > 65535 \/ port < 1024

\* InitSocket_: the port is refused, socket() fails, one of the calls after it
\* does, or the server listens.
InitSocket_ ==
    /\ pc = "initSocket" /\ pc' = "publish"
    /\ IF portRefused THEN UNCHANGED listenFd
       ELSE listenFd' \in {"none", "closed", "open"}
    /\ is_running' = (listenFd' = "open")
    /\ UNCHANGED <<destroyed, c_port, g_server, missed, badClose,
                   logging, signals, alive, pool_running, workerVars>>

Publish ==
    /\ pc = "publish" /\ pc' = "start"
    /\ g_server' = TRUE
    /\ UNCHANGED <<destroyed, c_port, listenFd, is_running, missed, badClose,
                   logging, signals, alive, pool_running, workerVars>>

-----------------------------------------------------------------------------
(* WebServer::start.                                                       *)

idleVars == <<destroyed, c_port, listenFd, is_running, badClose,
              signals, alive, pool_running, workerVars>>

\* start() says so in the log, if the server is running, and enters its loop.
Start ==
    /\ pc = "start" /\ ~logging /\ pc' = "test"
    /\ UNCHANGED <<idleVars, g_server, missed, logging>>

\* Mutant: the loop does not look at is_running_.
goesOnAlways == TRUE
goesOn == is_running

Test ==
    /\ pc = "test"
    /\ IF goesOn THEN pc' = "toWait" /\ UNCHANGED g_server
       ELSE pc' = "close" /\ g_server' = FALSE
    /\ UNCHANGED <<idleVars, missed, logging>>

\* epoll_wait begins, after get_next_tick.
Wait ==
    /\ pc = "toWait" /\ ~logging /\ pc' = "wait"
    /\ UNCHANGED <<idleVars, g_server, missed, logging>>

\* There are events, or the next timer is due.
Wake ==
    /\ pc = "wait" /\ pc' = "handle"
    /\ missed' = FALSE
    /\ UNCHANGED <<idleVars, g_server, logging>>

\* The main thread logs before its loop, in get_next_tick and when it handles
\* events.
LogBegins ==
    /\ pc \in {"toWait", "handle"} \/ (pc = "start" /\ is_running)
    /\ ~logging
    /\ logging' = TRUE
    /\ UNCHANGED <<mainVars, signals, alive, pool_running, workerVars>>

LogEnds ==
    /\ logging /\ pc # "deadlocked"
    /\ logging' = FALSE
    /\ UNCHANGED <<mainVars, signals, alive, pool_running, workerVars>>

Submit ==
    /\ pc = "handle" /\ ~logging
    /\ tasks < MaxTasks
    /\ tasks' = tasks + 1
    /\ UNCHANGED <<mainVars, logging, signals, alive, pool_running, at, connQue, dangling>>

Handled ==
    /\ pc = "handle" /\ ~logging
    /\ pc' = "test"
    /\ UNCHANGED <<idleVars, g_server, missed, logging>>

\* SIGINT, whose handler the main thread runs wherever it is: stop() clears
\* is_running_ and logs, which locks a mutex this thread may hold. epoll_wait
\* returns EINTR.
Signal ==
    /\ pc \notin {"exited", "deadlocked"}
    /\ signals < MaxSignals
    /\ signals' = signals + 1
    /\ is_running' = (is_running /\ ~g_server)
    /\ missed' = (missed \/ (g_server /\ pc = "toWait"))
    /\ pc' = CASE g_server /\ logging -> "deadlocked"
               [] pc = "wait"         -> "test"
               [] OTHER               -> pc
    /\ UNCHANGED <<destroyed, c_port, listenFd, g_server, badClose,
                   logging, alive, pool_running, workerVars>>
-----------------------------------------------------------------------------
(* ~WebServer and the destruction of its members.                          *)

endVars == <<c_port, g_server, missed, logging, signals>>

\* It closes listenFd_, whatever is in it.
Close ==
    /\ pc = "close" /\ pc' = "closePool"
    /\ badClose' = (listenFd \in {"garbage", "closed"})
    /\ listenFd' = "closed"
    /\ is_running' = FALSE
    /\ alive' = alive \ {"srcDir"}
    /\ UNCHANGED <<endVars, destroyed, pool_running, workerVars>>

\* Then it sleeps and shuts down the log (which ends: module Logger).
ClosePool ==
    /\ pc = "closePool" /\ pc' = "members"
    /\ connQue' = 0
    /\ alive' = alive \ {"connections"}
    /\ UNCHANGED <<endVars, destroyed, listenFd, is_running, badClose,
                   pool_running, tasks, at, dangling>>

\* Mutant: the members are destroyed in the order of their declaration.
membersDeclared == <<"timer", "threadpool", "epoller", "users">>

\* Members are destroyed in the reverse order of their declaration.
members == <<"users", "epoller", "threadpool", "timer">>

DestroyMember ==
    /\ pc = "members"
    /\ LET m == members[destroyed + 1] IN
       \/ /\ m # "threadpool"
          /\ alive' = alive \ {m}
          /\ destroyed' = destroyed + 1
          /\ UNCHANGED pool_running
       \/ /\ m = "threadpool" /\ pool_running
          /\ pool_running' = FALSE
          /\ UNCHANGED <<alive, destroyed>>
       \/ /\ m = "threadpool" /\ ~pool_running
          /\ \A w \in Workers : at[w] = "gone"
          /\ destroyed' = destroyed + 1
          /\ UNCHANGED <<alive, pool_running>>
    /\ pc' = IF destroyed' = Len(members) THEN "exited" ELSE pc
    /\ UNCHANGED <<endVars, listenFd, is_running, badClose, workerVars>>

-----------------------------------------------------------------------------
(* The workers.                                                            *)

Goto(w, l) == at' = [at EXCEPT ![w] = l]
Uses(objects) == dangling' = dangling \cup (objects \ alive)
othersUnchanged == UNCHANGED <<mainVars, logging, signals, alive, pool_running>>

\* NewThread: a task, or the end when there is none and the pool stops.
NewThread(w) ==
    /\ at[w] = "idle"
    /\ \/ tasks > 0 /\ tasks' = tasks - 1 /\ Goto(w, "client")
       \/ tasks = 0 /\ ~pool_running /\ Goto(w, "gone") /\ UNCHANGED tasks
    /\ othersUnchanged /\ UNCHANGED <<connQue, dangling>>

\* OnRead_ or OnWrite_ uses its HttpConnect, and then closes the connection,
\* arms it again, or processes a request, which may need the database.
UseClient(w) ==
    /\ at[w] = "client"
    /\ \E l \in {"closeConn", "arm", "respond", "getConnection"} : Goto(w, l)
    /\ Uses({"users"})
    /\ othersUnchanged /\ UNCHANGED <<tasks, connQue>>

\* SqlConnPool::getConnection waits until there is one; the guard that got it
\* gives it back, and only then it is used (module SqlConnPool).
GetConnection(w) ==
    /\ at[w] = "getConnection" /\ connQue > 0
    /\ connQue' = connQue - 1
    /\ Goto(w, "freeConnection")
    /\ othersUnchanged /\ UNCHANGED <<tasks, dangling>>

FreeConnection(w) ==
    /\ at[w] = "freeConnection"
    /\ connQue' = connQue + 1
    /\ Goto(w, "query")
    /\ othersUnchanged /\ UNCHANGED <<tasks, dangling>>

Query(w) ==
    /\ at[w] = "query" /\ Goto(w, "respond")
    /\ Uses({"connections", "users"})
    /\ othersUnchanged /\ UNCHANGED <<tasks, connQue>>

\* process() makes the response from a file under srcDir.
Respond(w) ==
    /\ at[w] = "respond" /\ Goto(w, "arm")
    /\ Uses({"srcDir", "users"})
    /\ othersUnchanged /\ UNCHANGED <<tasks, connQue>>

Arm(w) ==
    /\ at[w] = "arm" /\ Goto(w, "idle")
    /\ Uses({"epoller", "users"})
    /\ othersUnchanged /\ UNCHANGED <<tasks, connQue>>

\* CloseConn_: epoll, the timer, the connection itself.
CloseConn_(w) ==
    /\ \/ at[w] = "closeConn" /\ Uses({"epoller", "users"}) /\ Goto(w, "doWork")
       \/ at[w] = "doWork" /\ Uses({"timer", "users"}) /\ Goto(w, "idle")
    /\ othersUnchanged /\ UNCHANGED <<tasks, connQue>>

WorkerStep(w) ==
    \/ NewThread(w) \/ UseClient(w) \/ GetConnection(w) \/ FreeConnection(w)
    \/ Query(w) \/ Respond(w) \/ Arm(w) \/ CloseConn_(w)

-----------------------------------------------------------------------------
\* What the main thread does by itself.
MainStep ==
    \/ Configure \/ Construct \/ InitSocket_ \/ Publish
    \/ Start \/ Test \/ Wait \/ LogEnds \/ Handled
    \/ Close \/ ClosePool \/ DestroyMember

Next ==
    \/ MainStep \/ Wake \/ LogBegins \/ Submit \/ Signal
    \/ \E w \in Workers : WorkerStep(w)

Spec == Init /\ [][Next]_vars

\* Threads are scheduled, and the main thread logs finitely often between two
\* calls of epoll_wait, whose events are finitely many; that there ever are
\* events, or that the user interrupts, is not assumed.
FairSpec ==
    /\ Spec
    /\ WF_vars(MainStep)
    /\ SF_vars(Start) /\ SF_vars(Wait) /\ SF_vars(Handled)
    /\ \A w \in Workers : WF_vars(WorkerStep(w))

-----------------------------------------------------------------------------
(* Properties.                                                             *)

TypeOK ==
    /\ pc \in {"configure", "construct", "initSocket", "publish", "start", "test", "toWait",
               "wait", "handle", "deadlocked", "close", "closePool", "members", "exited"}
    /\ destroyed \in 0 .. Len(members) /\ c_port \in Nat
    /\ listenFd \in {"garbage", "none", "open", "closed"}
    /\ g_server \in BOOLEAN /\ is_running \in BOOLEAN /\ logging \in BOOLEAN
    /\ missed \in BOOLEAN /\ signals \in 0 .. MaxSignals
    /\ alive \subseteq Objects /\ tasks \in 0 .. MaxTasks
    /\ pool_running \in BOOLEAN /\ connQue \in Nat
    /\ at \in [Workers -> {"idle", "client", "getConnection", "freeConnection", "query",
                           "respond", "arm", "closeConn", "doWork", "gone"}]
    /\ dangling \subseteq Objects /\ badClose \in BOOLEAN

\* The timer is there as long as a worker is: a handler that outlives the loop
\* may find other members gone, but never works on a destroyed heap.
TimerOutlivesWorkers ==
    /\ "timer" \notin dangling
    /\ (\E w \in Workers : at[w] # "gone") => "timer" \in alive

\* A worker waits for a connection and none will come: the queue is empty, as
\* there never was one or the pool was closed, and nobody will give one back.
WaitsForConnection(w) ==
    /\ at[w] = "getConnection" /\ connQue = 0
    /\ \A v \in Workers : at[v] # "freeConnection"

\* The three ways a stop may hang: in the handler's log, in an epoll_wait that
\* nothing wakes, in the join of a worker that waits for the database.
HangsInLog  == pc = "deadlocked"
HangsInWait == pc = "wait" /\ missed
HangsInJoin == pc = "members" /\ ~pool_running /\ \E w \in Workers : WaitsForConnection(w)

\* Once the server is told to stop the process ends, handlers and tasks
\* finished, unless it hangs in one of three ways.
StopEnds ==
    (g_server /\ ~is_running) ~> (pc = "exited" \/ HangsInLog \/ HangsInWait \/ HangsInJoin)

\* No handler uses an object that is gone.
AliveWhenUsed == dangling = {}

\* An interrupt ends the process ("Server stop signal received.",
\* webserver.cpp:85).
SignalHeard == (signals > 0) ~> (pc = "exited")

\* A port is refused only if it is out of the range that InitSocket_ tests for
\* (webserver.cpp:250).
PortServed == pc = "publish" /\ listenFd = "garbage" => c_port \notin 1024 .. 65535

\* ~WebServer closes a socket it has opened and not closed yet.
ClosesOwnSocket == ~badClose
=============================================================================
