# A verification project for Oxy-WebServer

Oxy-WebServer (C++14, `code/`) is an HTTP/1.1 server: one main thread waits in
`epoll_wait` and hands ready connections to a pool of worker threads. This
directory holds TLA+ models of its parts, the TLC configurations that check
them on small instances, and proofs that the TLA+ proof system checks for all
instances. Every definition is translated from the code; `PROJECT.json` gives,
for each, the lines it stands for.

All paths below are relative to the root of the repository. To check something:

    tlc -config ReactorET.cfg MCReactor      (the module of each run is in PROJECT.json)
    tlapm ReactorProofs.tla

1. [The system](#1-the-system)
2. [Modules](#2-modules)
3. [Runs](#3-runs)
4. [Fairness](#4-fairness)
5. [Proofs](#5-proofs)
6. [Disagreements found](#6-disagreements-found)
7. [What is not modelled](#7-what-is-not-modelled)
8. [Plan](#8-plan)

## 1. The system

| Component | State | Operations | Talks to |
|---|---|---|---|
| `WebServer`, `Epoller` (`code/server`) | `users_` (descriptor to `HttpConnect`), the interest list in the kernel, the events of the current batch | `start` (the loop), `HandleListen_`, `AddClient_`, `HandleRead_`, `HandleWrite_`, `OnRead_`, `OnProcess`, `OnWrite_`, `CloseConn_` | everything |
| `HttpConnect` (`code/http`) | `iov_`, `iovcnt_`, `readBuff_`, `isKeepAlive_`, `is_running_`, the static `user_count` and `is_edge_trigger` | `init`, `read`, `process`, `writeResponse`, `close` | `HttpRequest`, `HttpResponse`, `Buffer`; called by main and workers |
| `HttpRequest` | parser state, headers, form | `parse` and its parts, `UserVerify` | `SqlConnPool` |
| `HttpResponse` | `code_`, `path_`, `mmFile_` and the `stat` it was mapped with | `Init`, `MakeResponse`, `ErrorHtml_`, `AddBody_`, `UnmapFile` | file system; called by `HttpConnect` |
| `Buffer` (`code/buffer`) | `read_ptr_` and `write_ptr_` into `buffer_`, a vector that grows | `append`, `retrieve`, `read_from_socket`, `compact`, `expand`, `reset`, `clear` | filled by `HttpConnect::read`, emptied by the parser |
| `ThreadPool` (`code/pool`) | `tasks_queue_`, `is_running_`, mutex, condition | `submit`, `NewThread`, destructor | runs `OnRead_`, `OnWrite_` |
| `SqlConnPool`, `SqlConnRAII` | `connQue_`, `freeCount_`, `useCount_` | `Init`, `getConnection`, `freeConnection`, `ClosePool` | MySQL; called by workers |
| `HeapTimer` (`code/timer`) | `heap_`, `map_`, `cb_map_` | `add`, `adjust`, `do_work`, `tick`, `pop`, `clear`, `get_next_tick` | called by main, and by workers from `CloseConn_` |
| `Logger`, `BlockDeque` (`code/log`) | the bounded queue, the write buffer, the flags | `log`, the flush thread, `shutdown` | called by all threads |
| `Config`, `main` | the settings, `g_server` | parsing of file and arguments; construction and destruction of the server; the handler of SIGINT | `WebServer` |

How they interact. `start` waits, then walks through the batch of events.
Reads and writes go through `ThreadPool::submit` to a worker; accepting and
exceptional events are handled by the main thread itself. Nothing but
`EPOLLONESHOT` keeps two threads off one connection: a reported descriptor is
disarmed, and whoever handles the event arms it again (`mod_fd`) or removes it
(`CloseConn_`). Descriptor numbers are reused by the kernel while events and
tasks that name them are under way. `HttpConnect::user_count` and
`is_running_` are atomics read by every thread; `HeapTimer` has no lock at all.
Messages of every thread go through the bounded queue of the log, and a worker
that serves a login waits for a database connection.

What is hard, and what makes each part correct:

* Reactor: at most one handler per connection, never on a number that means
  another connection by now; a handler always re-arms or removes; timers,
  registrations, `user_count` and open sockets agree; everyone who connects is
  accepted or refused; a connection whose peer has left is closed.
* HttpConnect: a response cut into pieces by short writes arrives once, whole
  and in order, and then the next request is served.
* HttpResponse: the announced length is the length that is sent, whatever
  happens to the file between `stat` and `open`; a file stays mapped as long as
  it is being written, and no longer than the connection needs it.
* Buffer: bytes come out as they went in, through growth, compaction and reads
  that overflow into a temporary buffer; the positions stay within the vector.
* HttpRequest: requests that arrive whole are understood as they were sent, and
  nothing of one reaches the next through the buffer; the decoders of bodies
  find the fields that were put into them.
* ThreadPool: no notification is lost, no task is lost or run twice, the
  destructor finishes what was submitted and returns.
* HeapTimer: order and index survive each operation; what the heap does is
  what a map of deadlines would do.
* SqlConnPool: a connection is in one place, used by one thread; counters
  match; nobody waits while a connection is free.
* Logger: order, no loss, no lost wakeup, termination of producers and of the
  flush thread, a shutdown that loses nothing.
* main and shutdown: an interrupt at any moment ends the process, and no
  handler uses an object that is gone; a port that is allowed is served.

`PROJECT.json` lists the hazards one by one with the lines where they bite.

## 2. Modules

| Module | Models | Kind |
|---|---|---|
| `Reactor` | event loop, handlers, connection life, kernel side of epoll and descriptors | detailed |
| `ConnLife` | what the reactor promises about a connection | abstract |
| `ReactorLife` | the refinement mapping from `Reactor` to `ConnLife` | composition |
| `ReactorProofs` | theorems about `Reactor`: handlers, descriptors, timers, connections, and the refinement of `ConnLife` | proofs |
| `HttpConnect` | a response on its way from `process` through `writev`, with the handlers that drive it | detailed |
| `HttpResponse` | status, page and mapping of a response, extended by `HttpConnect` | operators |
| `HttpConnectProofs` | theorems about both | proofs |
| `Buffer` | the two positions in the vector, and how `HttpConnect::read` fills it | detailed |
| `ByteQueue` | a queue of bytes | abstract |
| `BufferProofs` | theorems about `Buffer` | proofs |
| `ThreadPool` | mutex, condition variable, queue, destructor | detailed |
| `TaskQueue` | a FIFO that runs each task once | abstract |
| `ThreadPoolProofs` | theorems about `ThreadPool`, and the refinement of `TaskQueue` | proofs |
| `HeapTimer` | the heap, its index, the callbacks | detailed |
| `TimerMap` | a map of deadlines | abstract |
| `HeapTimerProofs` | theorems about `HeapTimer`, the refinement of `TimerMap`, and theorems about `Server` | proofs |
| `HttpRequest` | the parser, on streams of requests cut into segments | detailed |
| `HttpForm` | the decoders of form and JSON bodies, used by `HttpRequest` | operators |
| `HttpRequestProofs` | theorems about `HttpRequest` | proofs |
| `SqlConnPool` | pool, guard and `UserVerify`'s queries | detailed |
| `SqlConnPoolProofs` | theorems about `SqlConnPool` | proofs |
| `Logger` | the queue, the flush thread, the file, shutdown | detailed |
| `LoggerProofs` | theorems about `Logger` | proofs |
| `Server` | configuration of the port, coming up, SIGINT, destruction under running workers | detailed |
| `MC...` | instances for TLC | |

**Reactor.** A step is one system call or one access to state another thread
can see. Connections and descriptors are different things: `fdTable` is the
kernel's table, `sock` the life of a connection, `epoll[fd]` is `absent`,
`off` (registered, disarmed by `EPOLLONESHOT`), `in` or `out`. `users[fd]`
holds only what other parts of the server can tell apart: `is_running_`,
`isKeepAlive_`, whether the read buffer holds something, whether part of the
response is unsent, and whether `iov[1]` still has the length `read` left
there. `batch` are the events of the last `epoll_wait` that are still to be
dispatched, `tasks_queue` the tasks of the pool (that the pool is a FIFO is
shown in `ThreadPool`). `job[t]` is the event a thread works for and records,
as history, the connection its descriptor stood for when it was reported.
`pc` is where a thread stands:

| `pc` | Code |
|---|---|
| `batch` | `start`, webserver.cpp:92-116 |
| `accept`, `addEpoll`, `addTimer` | `HandleListen_`, `AddClient_` |
| `read`, `process`, `rearmIn`, `rearmOut` | `OnRead_`, `OnProcess` |
| `write` | `OnWrite_`, `writeResponse` |
| `failLoad`, `failStop`, `failCount`, `failFd` | the `close()` inside `writeResponse` after an error, httpconnect.cpp:176 |
| `delFd`, `delTimer` | `CloseConn_` |
| `closeLoad`, `closeStop`, `closeCount`, `closeFd` | `HttpConnect::close` access by access: the test of `is_running_`, the flag, `fetch_sub`, `::close` (httpconnect.cpp:33-36) |

Clients connect, send and leave at any time; writability is chosen by
`epoll_wait`. The kernel may fail any call: `writev` with any errno but
`EAGAIN`, whether or not the peer is there (`WriteFails`; a mapped file that became
shorter gives `EFAULT` to a live one), or with `SIGPIPE`, which kills the process
(`WriteSigpipe`, and `RefuseSigpipe` for the `send` of `SendError_`); `readv` with any
errno (`ReadFails`); `accept` with any errno, the backlog unchanged or shorter by a
connection whose peer is gone (`AcceptFails`); `epoll_ctl` when a connection is
added (`AddFdFails`). `EpollWait` supposes that all ready events fit in the `events_`
array (1024 by default). The modes of the two sockets are the constants `ListenET`
and `ConnET`.

Two variables are history and no guard reads them. `refused` holds the
connections that `add_fd` refused, with their numbers. `overtaken` is set when
`accept` returns a number that some event on its way still names. After a failed write
`writeResponse` has closed the descriptor and the same thread still runs
`CloseConn_` on its number; that the kernel gives the number to a new connection in
between is the fault of section 6, and from then on two threads work on one
connection. The properties of handlers and descriptors therefore begin with
`~overtaken`: they hold up to that very step. They also say that no other behaviour
leads to it: while `NoStaleDescriptor` holds, an event whose descriptor is free is that
of a thread after its failed write (`Abandoned`), so it can be overtaken in no other
way.

`ConnLife` has a stage `closing` for a connection that gave up its room
(`fetch_sub`) and is not closed yet: the main thread may admit the next one meanwhile.

**HttpConnect** and **HttpResponse.** Positions, not contents: `iov` holds two
lengths and a count, `wire` counts what `writev` took of the response, whose
lengths and announced length are in `reply`. The module covers `process`,
`writeResponse` (with its local variables, since a bug hides in them),
`to_write_bytes`, `OnRead_`, `OnProcess` and `OnWrite_`. An error of `writev`
closes the connection from within the loop (`WritevFails`). It is sequential because
`Reactor` shows that the handlers of a connection are, until a descriptor is reused
after such an error. `is_edge_trigger` is
chosen by `Init` and never changes.

`MakeResponse` is three steps (`Stat`, `ErrorHtml`, `AddBody_`), because between
`stat`, the `stat` of an error page and `open` anybody may change the files:
`disk` holds what is at the two paths that matter, and `DiskChanges` replaces it
at any time. `HttpResponse` has the operations as functions from one state of
the object to the next; `response.mapped` is history and counts the bytes that
are mapped. MIME types and status texts are left out.

**Buffer.** The operations are functions from records of the three members to
such records; an action applies one. `HttpConnect::read` lets `readv` write
behind `write_ptr_` and then appends from there to itself; `read_from_socket`
moves `write_ptr_` over what is there already. Both are in `read`. What stands
behind `write_ptr_` is therefore part of the state. `thrown` says that `resize`
was asked for more than there can be, which nobody catches.

**HttpRequest.** A stream is a sequence of pieces (a target, a version, a name, a
value, CR, LF, a body), each marked with its request; a read brings any number of
them. `Parsed` is the loop of `parse`, `Process` what `HttpConnect::process`
makes of the read buffer, and the response is taken as written at once (how it is
written is `HttpConnect`'s matter). CR and LF are pieces of their own because a
read may end between them. `cut` records that some read brought anything other than
the rest of one request or its target; `parse` has no way to handle that. The loop
(`Parsed`) is a recursive function of the number of its turns, each a `Turn`, and the
bytes of the buffer bound that number. Its values are sets of one state, so that TLC
evaluates a turn once.

`content` is what the body of the posts of a session is: nothing in particular, or
the fields of a form or of a JSON object, which are then written out as bytes, and
whose decoding by `HttpForm` must give the fields back. The code hands the
decoders whatever the line holds; the model does so when that is exactly the
body, and leaves out what part of a body, or a body with a line break, decodes to.

**HttpForm.** Bodies are sequences of bytes, positions count from 0.
`ParseFromUrlencoded_` keeps three positions and two partial strings; a turn of its
loop is one operator (`formStep`, and `memberStep` in the other decoder), and the loop
a function of the number of turns as in `HttpRequest`. `ParseFromJson_` takes strings up to their quote, with
their escapes as they are, and numbers and literals up to the next comma, brace or
space; what it stored before an error stays.

The last part says what clients send. A form has keys of ordinary bytes (no symbol of
the encoding) and values of tokens, each an ordinary byte, a plus or an escape. A JSON
string is made of units, each a byte or a backslash with the byte it protects; a number
or literal begins as one and holds nothing that ends it; the same space, possibly none,
stands at every place that allows space. Strings hold no CR and no LF, space no CR:
a body with a CR LF is not one line to the parser, and only its first line is decoded.

**ThreadPool.** The mutex is a variable, for whether a notification can be lost
depends on what it covers. `Lock` takes it and evaluates the predicate of
`cv_.wait`; `Sleep` releases and blocks at once, as the standard says; `Spurious`
wakes without reason.

**HeapTimer.** The operations are functions from records of the three members
to such records; an action applies one. Places count from 1. `do_work` looks up
the callback after the node and the callback were erased, as the code does, and
`Ticked` removes the root a second time, as the code does. `TimerMap` says what
heaptimer.cpp:145 and the tests say: those that are due go, all of them, and no
others. The code does not implement that; `ImplementsTimerMap` is about every step
but those of `tick` that take a timer too early, which are what `TickTakesOnlyDue`
forbids (section 6). `ServerNext` is the part that `WebServer`
calls. A turn of each of the three loops is an operator (`Lifted` in `shift_up_`,
`Sunk` in `shift_down_`, `Worked` in `tick`) that changes nothing once the loop is
over, and the loop a function of the number of its turns, which the number of nodes
bounds.

**SqlConnPool.** `getConnection`, `freeConnection` and `ClosePool` are actions
because each holds the mutex throughout, apart from the wait. The guard in
`UserVerify` is a temporary, so `release` follows at once and the queries run
with a pointer the pool considers free. What the client library does with one
`MYSQL*` in two threads is undefined: `mixed` records that it happened, and a
query may then report anything.

**Logger.** `log` tests `is_running_` and pushes in two steps; the flush thread
reads `is_running_` and the length of the queue one after the other;
`BlockDeque::stop` is three steps, because its notifications are sent without the
mutex. `due` is the flush interval. `Silence` is the intended end.

**Server.** The process from `main` to its end. What a handler does is reduced to
the objects it uses, one step for each group (`UseClient`, `GetConnection`,
`Query`, `Respond`, `Arm`, `CloseConn_`), and `alive` says which objects exist;
`dangling` records one that was used when it was gone. `Signal` is SIGINT: its
handler runs in the main thread wherever that stands (between the test of
`is_running_` and `epoll_wait`, or while it holds the mutex of the log's queue:
`logging`, which it may do before its loop, in `get_next_tick` and when it handles
events). `members` is the reverse order of declaration of the members of
`WebServer`. A port has three widths on its way: an `int` of `Config`, 16 bits
without a sign behind `-p`, and 16 bits with one in `port_`.

## 3. Runs

Passing runs:

| Run | Configuration | Shows |
|---|---|---|
| `reactor_et` | both sockets edge-triggered (the configured mode), 3 connections, 2 descriptors, 2 workers, any call may fail | `OneHandler`, `NoStaleDescriptor`, `AbortNeedsReuse`, `UserCountExact`, `TimersMatch`, `FreeFdIsClean`, `OrphansAreShort` |
| `reactor_lt` | both level-triggered, 2 connections, room for one at a time, 2 descriptors, 2 workers, no timers, three kinds of request, any call may fail | `ImplementsConnLife`: the reactor implements `ConnLife`, safety (for one connection: one handler, an end only in its hands; in all: never more than `MAX_FD` that take up room) and liveness (a handler lets go); `GoneIsDropped` |
| `http` | both modes, four kinds of request (file or `/health`, keep-alive or not, malformed), up to two per read, six kinds of file and an error page that may be missing, all changing at any time | `Accounting`, `LengthTrue`, `MappingHeld`, `KeepAliveSent`, `FileReadsAgain` |
| `buffer` | a vector of 2 bytes, a scratch buffer, a limit of 8, inputs of up to 3 bytes | `TypeOK`, `ImplementsByteQueue` |
| `thread_pool` | 3 workers, 4 tasks, a destructor at any moment | `NoLostWakeup`, `ImplementsTaskQueue`, `JoinReturns` |
| `http_request` | 80 streams of 2 or 3 requests, GET and POST with up to two headers, cut anywhere; single posts of about a thousand forms and a thousand JSON objects | `WholeUnderstood`, `AnsweredInOrder`, `FormDecoded`, `JsonDecoded`, `WholeAnswered` |
| `timer_heap` | 6 timers, 3 timeouts, a clock that ticks twice | `HeapOrdered`, `MapExact`, `ImplementsTimerMap`, `WaitsForEarliest` |
| `sql_pool` | 3 threads, 2 connections, 1 name, a `ClosePool` at any moment | `EachOnce`, `NoLostWakeup`, `RegisteredOnce` |
| `logger` | 3 threads, 2 places, 5 messages, a shutdown at any moment | `InOrder`, `NothingLost`, `NoLostWakeup`, `QueuedIsWritten`, `LogReturns`, `ShutdownReturns` |
| `server` | 2 workers, 2 tasks, 0 or 1 database connections, 7 ports, SIGINT twice at any moment | `TimerOutlivesWorkers`, `StopEnds` |

TLC refutes the runs `reactor_leak` and `reactor_abort` (section 6).

Why the bounds are enough to meet the cases that matter:

* Reactor: three connections on two descriptors make every number be reused
  while the other is busy; two workers and the main thread are three handlers
  for two descriptors. `Conns`, `Fds` and `Workers` are interchangeable in
  `reactor_et`, which therefore uses symmetry; the run with liveness does not.
  `reactor_et` does not go on from a state that is `overtaken` (`UntilOvertaken`):
  it checks it, but such a state stays so and its invariants say nothing of it.
  In `reactor_lt` one of two connections is refused or comes later, or both are open
  because the first is between `fetch_sub` and `close`; without timers nothing can
  abort, so behaviours go on after a descriptor was reused, and `GoneIsDropped` has to
  survive them. There `MAX_FD` is below the number of descriptors, in `reactor_et`
  equal to it.
* HttpConnect: headers of 2 bytes and files of up to 3 let a write end
  before, at and after the border between the two entries, several times in one
  response; a directory, an unreadable file, an empty and a missing one are all
  the cases `MakeResponse` and `AddBody_` tell apart, and two sizes let a file
  change between them. `SCRATCH` (65535 in the code) is larger than any response.
* Buffer: an input that fits, one that fills the vector, one that makes it
  double and one for which doubling is not enough; the limit is met after two
  growths. The theorems (section 5) are about any numbers.
* ThreadPool: more tasks than workers, and workers that sleep, run and compete
  for the mutex at the same time.
* HeapTimer: six nodes are the fewest with which the node that fills a hole comes from
  another subtree and has to move up; equal, earlier and later deadlines occur.
* HttpRequest: a third request meets what the second left in the buffer; a
  header before and after `Connection` and a POST with a body are all the kinds of line
  the loop distinguishes, and segments may hold one piece or all of them. Forms
  have one or two fields, with values of up to three bytes out of an ordinary one, a
  space, and two that must be escaped, in upper and lower case; JSON objects
  have up to two members, with escaped quotes and backslashes in keys and
  values, a number, literals, and white space in between.
* SqlConnPool: one connection fewer than threads. `MaxAnswers` bounds the
  number of successful registrations that are counted.
* Server: with two workers one may be anywhere in a handler when the main
  thread waits for the other; the ports are both sides of every boundary
  (1024, 2^15, 2^16); a second SIGINT meets the server that is already stopping.
* Logger: with two places and four messages of two other threads both of these can wait for
  space while the main thread stops the log. The capacity must not be smaller than the
  number of other threads: a thread that has passed the test of
  `is_running_` pushes into the stopped queue, and with too few places it waits there
  for ever, which is a weakness of the code that the server (1024 places) does
  not meet.

Every property of a passing run has a mutant: an alternative form of a
definition, written before it in its module, that breaks the property. The
type invariants are proved (section 5), and only `Buffer`'s is in a run.

Configurations that are kept to be run by hand show the counterexamples to
other statements of the repository (section 6): `ReactorRefuted`,
`ReactorRefuse`, `HttpConnectRefuted`, `HttpRequestRefuted`, `HeapTimerRefuted`,
`HeapTimerIdle`, `LoggerLost`, `SqlConnPoolNone`, `SqlConnPoolShared`,
`BufferGrows`, `ServerDangling`, `ServerSignal`, `ServerPort`. Those that hold
several properties are for `tlc -continue`, which shows that each of them fails;
`HttpConnectRefuted` names two temporal properties to put in the place of its own.

## 4. Fairness

* Reactor: weak fairness of the main thread's steps and of every worker: the
  operating system runs threads that can run, and no handler of this program
  blocks except on the log and the database, which are separate models.
  Clients owe nothing: they need not send, read or leave.
* HttpConnect: the handlers run; strong fairness of `WritevSome` says that a
  client that reads makes room again and again. Nothing is claimed for a client
  that does not. That files change is not assumed.
* HttpRequest: what the client has left to send arrives, and the handlers run.
* ThreadPool: a thread that waits for the mutex gets it in the end if it is
  free again and again (strong fairness of `Lock`), and tasks end. The main
  thread need not submit or stop.
* HeapTimer: only `HeapTimerIdle` uses fairness: the loop turns, time passes.
* Logger: threads run, time passes; nobody need log or shut down.
* Server: the main thread's own steps and each worker are weakly fair, and the
  main thread logs finitely often before its loop, before an `epoll_wait` and while it
  handles one batch (strong fairness of `Start`, `Wait` and `Handled`, which logging
  interrupts again and again). That there are events, or that the user
  interrupts, is not assumed: an `epoll_wait` may last for ever.
* Buffer: safety only.

## 5. Proofs

Eight modules of proofs. The properties they state are those of the runs, for
every value of the constants that satisfies the assumption of the module
(`ReactorAssumption` and its like), which asks for types, for finite sets where a
number is counted, and for distinct marks. Further assumptions are named below.
The form is the same throughout: the inductive invariant was first checked by TLC on
the instance of the run, then proved with one step for each action; the theorem
follows from it.

**`ReactorProofs`**: any number of connections, descriptors and workers, any limit,
both modes.

| Theorem | Says |
|---|---|
| `TypeCorrect` | `Spec => []TypeOK` |
| `HandlersAreExclusive` | `Spec => []OneHandler` |
| `DescriptorsAreFresh` | `Spec => []NoStaleDescriptor` |
| `AssertionHolds` | `Spec => []AbortNeedsReuse` |
| `TimersFollowRegistrations` | `Spec => []TimersMatch` |
| `OrphansOnlyShort` | `Spec => []OrphansAreShort` |
| `CountIsExact` | `Spec => []UserCountExact` |
| `FreeIsClean` | `Spec => []FreeFdIsClean` |
| `LivesAsConnLife` | `Spec => FollowsConnLife`: until a descriptor is reused while it is being closed, `Reactor` implements `ConnLife` |
| `OpenBounded` | until then, at most `MAX_FD` connections are open and those that a thread is about to close after it has lowered the count |
| `OnlyStoppedForgotten` | `Spec => []NoneForgotten`: until the process aborts, every open connection whose object still runs is armed in epoll, or in an event that is dispatched, queued or handled |

Nothing is assumed of the environment: every theorem is about the behaviours in which
writes, reads, `accept` and `epoll_ctl` fail at any time with any errno. All but the
first and the last speak of a behaviour up to the step in which `accept` returns a
number that some event still names (`overtaken`), and need that: `reactor_abort` and
`ReactorRefuted` show what happens after it. By `DescriptorsAreFresh` this step happens
in one way only, the one the finding in section 6 describes; so the theorems say that
everything that goes wrong with handlers, descriptors, timers and counts begins there.
The last theorem says what is left afterwards.

The argument. `Typing` adds to the types which labels a thread can be at and
that only open descriptors are registered; it is inductive by itself. The others hold
each other up and are proved together, as
`HandlerInv == Exclusive /\ Fresh /\ HolderInv /\ TimerInv /\ NoAbort`, an invariant
as long as nobody was overtaken (`OvertakenStays`: who was stays so):
a handler's descriptor cannot be closed and reused under it, because only the
holder of an event closes (`HolderInv`: while an event is under way its descriptor is
registered and disarmed, unless its handler has already removed or closed it), so no
second event of it can be reported, so no second handler can start. `Fresh` says of a
thread whose descriptor is closed that it is in `CloseConn_` after a failed write, and
that its `HttpConnect` does not run, so it closes nothing again (`Left`). A
descriptor that can be reported has its timer because the timer comes and goes with the
registration in the hands of one thread (`TimerInv`), so the assertion in
`HeapTimer::adjust` finds it. There is one lemma per group of actions
(`HandlerMain`, `HandlerWorker`, `HandlerClose`, `HandlerClients`).

`ConnInv` says of open connections what `HandlerInv` says of events:
a descriptor stands for one open connection (`Sockets`); who goes on with `close()`
found the object running, and an object that stopped running with its connection open is
not kept alive or is on its way through `close()` (`Standing`); a descriptor that epoll
will not report is in somebody's hands, or its object stopped running (`Watched`).
`OrphansAreShort` is a consequence. `Counts` adds the threads between `fetch_sub` and
`close` to `user_count`, and the connections that epoll refused to the open ones; the
test in `close()` cannot count a connection twice because by `Standing` only one handler
gets past it. Such a refused connection leaves the only object that runs without
a descriptor. `OpenBounded` follows from `Counts` and `user_count <= MAX_FD` (`Limit`),
which holds whatever happens. For the
refinement, `StageOpen` shows that no connection is in the stage "lost" (disarmed and in
nobody's hands); `LifeSame`, `LifeMoves`, `LifeReleases` and `LifeReport` say what a
step does to all stages from what it does to a descriptor; `LifeMain`, `LifeWorker`,
`LifeClose` and `LifeClients` go through the actions. `Admit` needs
`Counts`: the code compares `user_count` with the limit, `ConnLife` the number of
connections that take up room.

`OnlyStoppedForgotten` stands on `OpenInv == Owed /\ Unregistered` alone, without
`HandlerInv`: who takes a descriptor out of epoll or has it disarmed goes on to arm it
again or to stop its object, whosever connection the number stands for by then. So no
failure and no reuse makes the server lose sight of a connection whose object runs.

**`HttpConnectProofs`**: any lengths, files, pages and requests, any way of cutting
writes, both modes.

| Theorem | Says |
|---|---|
| `TypeCorrect` | `Spec => []TypeOK` |
| `BytesAccounted` | `Spec => []Accounting` |
| `LengthAnnounced` | `Spec => []LengthTrue` |
| `MappingsHeld` | `Spec => []MappingHeld` |

The argument. First what the operations of `HttpResponse` return (`UnmapReturns` and
the lemmas after it), then
`ReplyInv == Phases /\ MappedIsSent /\ LoopInv /\ Accounting /\ LengthTrue /\ MappingHeld`:
the phases of a handler and what `epoll` knows agree; `iov` has a second entry
exactly for the bytes that are mapped; in the loop of `writeResponse` the local
`total_to_write` is what is left, and level-triggered it is the first turn, which is
why the comparison in httpconnect.cpp:181 drops nothing there. A write that fails leaves
the loop with the file unmapped and the descriptor out of epoll, which is why a
closed connection keeps no mapping on that way either.

**`ThreadPoolProofs`**: any number of workers and tasks.

| Theorem | Says |
|---|---|
| `TypeCorrect` | `Spec => []TypeOK` |
| `NoWakeupIsLost` | `Spec => []NoLostWakeup` |
| `RunsAsQueue` | `Spec => Queue!Spec`: the pool implements `TaskQueue` |

The argument. `PoolInv` ties the owner of the mutex to the labels and contains
`NoLostWakeup`, which it makes inductive. `FifoInv` says that the queue holds the last
tasks submitted, in order, and that those before them are finished or with one worker
each; every step then maps to a step of `TaskQueue` or a stutter (`QueueNext`).

**`LoggerProofs`**: any number of threads, places and messages.

| Theorem | Says |
|---|---|
| `TypeCorrect` | `Spec => []TypeOK` |
| `MessagesInOrder` | `Spec => []InOrder` |
| `MessagesKept` | `Spec => []NothingLost` |
| `NoWakeupIsLost` | `Spec => []NoLostWakeup` |

The argument. `PipelineInv` follows a message through queue, write buffer and
file as one sequence: what a thread still has to push comes after all it pushed, so an
append keeps the order, and a message leaves one part only for the next. The
lost-wakeup property is inductive over the types alone: whoever takes a message notifies one
producer, and whoever is woken counts as on its way.

**`SqlConnPoolProofs`**: any number of threads, connections, names and
answers, with `ClosePool` or without.

| Theorem | Says |
|---|---|
| `TypeCorrect` | `Spec => []TypeOK` |
| `ConnectionsOnce` | `Spec => []EachOnce` |
| `RegistersOnce` | `Spec => []RegisteredOnce` |
| `NoWakeupIsLost` | `Spec => []NoLostWakeup` |

The argument. `EachOnce` counts, which a prover dislikes; `PoolInv` says the same
without counting (`Placed`: the queue repeats nothing, guards are disjoint from each
other, from the queue and from what is closed, and together they are everything) and
keeps the two counters (`Counted`); `PlacedOnce` derives the sum. The two bounds of
`TypeOK` on the counters come out of `Placed` and the cardinality theorems.
`RegistersOnce` has the invariant `Kept` over names, rows and answers of the
server; `NoLostWakeup` is inductive with `PoolInv`.

**`BufferProofs`**: any bytes, capacity, scratch size, limit and inputs.

| Theorem | Says |
|---|---|
| `PositionsInOrder` | `Spec => []TypeOK` |
| `BytesInOrder` | `Spec => ImplementsByteQueue` |

The argument. `Inv` says of the buffer what `TypeOK` says, as the predicate
`Ordered` on a record, so that it can be said of the intermediate buffers of an
operation too. There is one lemma per operation, of the form: from an ordered
buffer the operation makes an ordered one, and what there is to read is this.
Copies are described by `CopyOf` (what stays before the copy, what stands
after it), and two lemmas say what a slice that ends at the copy and one that
ends with it hold; `append`, growth and compaction follow from them. For a read,
`AppendedKeeps` says that the append of the first part does not grow the vector,
since `readv` took only what fits, so that the bytes are copied onto themselves; the
second part is an ordinary append. `NextStep` combines the lemmas: every step keeps `Inv`
and is a step of `ByteQueue` or a stutter (compacting, growing and throwing
are stutters). `TypeOK` is inductive, and the refinement needs it: `Put` and
`Take` are right only of buffers whose positions are in order.

**`HeapTimerProofs`**: any number of timers, any timeouts, any length of time, every
operation of the class, those only its tests call included (`ServerIsSpec`: what
`WebServer` does is among them).

| Theorem | Says |
|---|---|
| `TypeCorrect` | `Spec => []TypeOK` |
| `Ordered` | `Spec => []HeapOrdered` |
| `Exact` | `Spec => []MapExact` |
| `Waits` | `Spec => WaitsForEarliest` |
| `CallsNothing` | `Spec => [](ran = {})`: no callback is ever called |
| `ImplementsMap` | `Spec => ImplementsTimerMap`: every step but a `tick` that takes a timer too early is a step of `TimerMap` or a stutter |

The argument. `HeapInv` says that the three members are an object in order
(`Heaps`: the index exact, the keys `Sorted`). It holds between operations and not
within them: while a node moves up, its own place is the only one where the order may
be broken, and what is below it is not smaller than what is above it (`Lifting`);
while one moves down, only its children may be smaller than it (`Sinking`). A change of
one key, or the last node in the place of a deleted one, is the beginning of `Lifting`
whichever way the node has to go (`ChangedKeys`), the end of `shift_up_` is the
beginning of `Sinking`, and the end of `shift_down_` is `Sorted`; this is why `adjust`
and `del_` must call both. `Moved`, `SetTo` and `Removed` say what became of
the deadlines, as maps, and `Swap` is the only place where index and vector change
together.

These loops need induction, and no theorem of the library for it can be applied
here, since those take an operator. `Least` gets a least element of a set of numbers
from the well-foundedness of `<`, which is stated about sets, and `Induct` is
induction for a set of numbers. With these, `Runs` constructs the function that
follows a loop turn by turn, `Loop` shows that it stands still after `N` turns when
each turn lowers a number that was `N`, and `SameRun` that the function of the model is
this one. The loops of `shift_up_`, `shift_down_` and `tick` are three uses of them.
`Ticking` is the invariant of the last one: either an even number of timers was taken,
all due; or none is left, and all were due; or all that were due, an odd number,
and an earliest of the others. In the last case a timer that was not due went
(`TakesEarly`), and in the other two the whole loop is `TimerMap`'s `Expire`.
`RootLeast`, that the root has the least key, is again by `Least`.

**`Server`**, in the last section of `HeapTimerProofs`: any number of workers,
connections, ports, tasks and signals.

| Theorem | Says |
|---|---|
| `LifeTypeCorrect` | `LifeAssumption => (Life!Spec => []Life!TypeOK)` |
| `TimerOutlives` | `LifeAssumption => (Life!Spec => []Life!TimerOutlivesWorkers)` |

The argument. `InTurn` says that the members go one after the other once the loop has
ended, and that it is the turn of the timer, the last one, only when the pool has joined
its threads. `Life` is an instance of `Server`; an instance does not bring along what
its module assumes, so `LifeAssumption` repeats `ServerAssumption`, which TLC
evaluates, as a hypothesis.

**`HttpRequestProofs`**: any requests with any headers, cut into reads anywhere,
pipelined or not, any contents of the two types (section 3, `HttpForm`). No request
says both content types (`OneContentType`).

| Theorem | Says |
|---|---|
| `InOrder` | `Spec => []AnsweredInOrder` |
| `UnderstoodWhole` | `Spec => []WholeUnderstood` |
| `FormsDecoded` | `Spec => []FormDecoded` |
| `JsonsDecoded` | `Spec => []JsonDecoded` |

The argument. The number by which a request is understood is that of the first version
in its line, so `OrderInv` speaks of versions: in what the server has and what is
still to come their numbers rise (`Rising`), and are above those of all
answers (`Fresh`), except that the request being answered may still be in the buffer if
its response ends the connection. Why a response that goes on has
taken its version out: such a request has a `Connection` header, the parser sees headers
only in later turns than the request line, and each turn takes its line away. That is
the invariant of the loop (`Begun`, `Read` and `Past`, of the state after any number of
turns), carried from turn to turn by `BegunOnward`, `ReadOnward` and `PastOnward`.
`ParseIs` and `ProcessIs` state the outcome for every buffer, `ProcessKeeps` the step.
Initially, `FlattenIs` says what a concatenation of sequences is, by its partial
results, and `AllArrives` that the stream has one version for each request, in order.
Inductions are by `Least` and `Induct`, as in `HeapTimerProofs`.

`WholeUnderstood` needs a second invariant, `WholeInv`: as long as all reads were gentle
and all answered requests were GETs, the server is in step with the stream
(`InStep`, `InHand`): it has nothing of the next request or its target, nothing while it
writes, and the rest is still to come. `TailsExist` gives what follows the first n
requests, `ReadsWhole` says that a gentle read leaves a target in the buffer or makes one
request whole, and `WholeProcess` that a whole request is understood as sent. The
last follows the loop turn by turn, from the request line (`TargetTurn`) through the
headers (`HeaderTurn`, by induction on their number: `AtHeader`) and the blank line
(`BlankTurn`) to the body (`BodyTurn`). A target alone makes `process` wait
(`NothingYet`). A POST leaves its body in the buffer: once one was answered nothing more
is said (`PostAnswered`).

By `WholeInv` the answer to such a POST stores what the decoder of its content type
makes of the body, and by `ContentInv` there is one such decoder. That it gives the
fields back, `ParseFromUrlencoded_(Body(c)) = Fields(c)` and
`ParseFromJson_(Body(c)) = Fields(c)`, is `FormRun` and `JsonRun`: statements about
bodies with any number of fields and texts of any length, so each has inductions within
inductions, over the fields, over the tokens or units of a text, and over the bytes of a
key. All are inductions over how much of the body was used. `FollowsExist` gives what
follows the first n of several texts, `From(b, i, r)` says that r is what stands in b
from position i on, and the function of the loop, which has as many turns as there are
bytes, stands where the induction wants it because a turn uses a byte (`Comes`).

For a form, `ValueAt` is the invariant within a value: what was collected, with
the bytes not used yet, spells the tokens so far, and bytes are unused only
behind an ordinary one. `TokenTurn` takes it over one token, `ValueRun` to the end of
the value, `FieldRun` over a field, and at the ampersand, or at the end of the body
(`FormEnd`), the value is stored. This is where the last token must be an ordinary byte
(`EndsInBytes`): else nothing is unused, and the code stores nothing.

For JSON, `UntilIs` and `SkipIs` say where a scan stops. The search for the end of a
string goes on, the same, behind every unit of it (`UnitPassed`), so it ends at its own
quote whatever is escaped (`StringIs`). `MemberTurn` stores one member, `NextMember`
and `LastMember` go on behind a comma or the last member, and at the closing brace, where
no key begins, the loop ends with what it has (`MembersEnd`).

Every invariant of a passing run is proved. Only model-checked:

* Liveness: out of the reach of the proof system, as is `ENABLED`. This includes
  `HandlersLetGo` in `ImplementsConnLife` and the fairness in `ImplementsTaskQueue`, whose
  safety parts are the theorems `LivesAsConnLife` and `RunsAsQueue`, and `GoneIsDropped`.

## 6. Disagreements found

The refuted runs. `reactor_leak`: a response without keep-alive clears `is_running_`
(httpconnect.cpp:212), so the `close()` in `CloseConn_` does nothing
(line 33): the descriptor leaks, counted for ever. webserver.cpp:234 says the
connection is closed.

`reactor_abort`: a write fails, with any errno but `EAGAIN` and with the peer gone or
not; `writeResponse` closes the descriptor (httpconnect.cpp:176) and `OnWrite_` still
runs `CloseConn_` on its number (webserver.cpp:225). If `accept` has reused it in
between, the new connection loses its registration and its timer, and an event of it
that was already reported makes the assertion of heaptimer.cpp:86 fail.

The last column is the statement, or what makes the behaviour wrong where there is
none. Refuted by the configurations kept to be run by hand:

| Configuration | Property | The code | The statement |
|---|---|---|---|
| `ReactorRefuted` | `UserCountIsOpen` | webserver.cpp:147: `add_fd` fails, the connection stays counted | httpconnect.h:59 |
| `ReactorRefuse` | `AllAccepted` | webserver.cpp:160, 171: edge-triggered, one refusal or one error of `accept` ends the loop with the rest of the backlog waiting | webserver.cpp:174 |
| `HttpConnectRefuted` | `DoneMeansSent` | httpconnect.cpp:181: edge-triggered, after two short writes in one call the sum written is compared with what was left before the last one, and the rest is dropped | httpconnect.cpp:183 |
| `HttpConnectRefuted` | `ShortSent` | httpconnect.cpp:212: a short write without keep-alive stops the object | httpconnect.cpp:211 |
| `HttpConnectRefuted` | `ReadsAgain` | httpconnect.h:44: the length `read` left in `iov[1]` counts as unsent | webserver.cpp:229 |
| `HttpConnectRefuted` | `BadRequestAnswered` | webserver.cpp:215: the 400 response waits for nobody | test_httpconnect.cpp:612, httpconnect.cpp:227 |
| `HttpRequestRefuted` | `AllAnswered` | httprequest.cpp:60: a request cut after its request line is answered from its first part, without keep-alive | httprequest.cpp:37 |
| `HttpRequestRefuted` | `FormsRead` | httprequest.cpp:60: the body of a POST stays in the buffer and garbles the next method | README.md:29 |
| `HttpRequestRefuted` | `AllFormsDecoded` | httprequest.cpp:263, 282: a value that ends in a sign or an escape is lost, or becomes the start of the next | README.md:29 |
| `BufferGrows` | `GrowsOnlyWhenFull` | buffer.cpp:66: `expand` compacts only if there is room without it, so a vector grows although its read part has room | buffer.cpp:67, README.md:38 |
| `SqlConnPoolShared` | `OneUser` | httprequest.cpp:329: the guard is a temporary, and the connection is back in the pool before the first query | httprequest.cpp:387, sqlconnRAII.h:6 |
| `LoggerLost` | `AllWrittenAtShutdown` | blockqueue.h:81: `stop` clears the queue | log.h:46 |
| `SqlConnPoolNone` | `VerifyReturns` | sqlconnpool.cpp:55: no connection, a wait for ever | sqlconnpool.cpp:44 |
| `HeapTimerRefuted` | `TickTakesOnlyDue` | heaptimer.cpp:150: `pop` after `do_work` | heaptimer.cpp:145 |
| `HeapTimerRefuted` | `WorkRunsCallback` | heaptimer.cpp:102: the callback is erased, then looked up | heaptimer.cpp:103, test_heaptimer.cpp:195 |
| `HeapTimerIdle` | `DueIsHandled` | webserver.cpp:92: nobody calls `tick` | README.md:16 |
| `ServerSignal` | `SignalHeard` | main.cpp:13: an interrupt during start-up finds no server; one just before `epoll_wait` is noticed at the next event; one during a log call deadlocks | webserver.cpp:85 |
| `ServerPort` | `PortServed` | webserver.h:50: `port_` has 16 bits with a sign, so ports from 32768 on are negative and refused, and larger ones wrap | webserver.cpp:250 |
| `ServerPort` | `ClosesOwnSocket` | webserver.cpp:61: the destructor closes `listenFd_` though it was never set, or closed already | closing what is not its own |
| `ServerDangling` | `AliveWhenUsed` | webserver.cpp:60-68: the path, the database and the table of connections go before the threads that use them are joined | use after destruction |

A setting has no default: `Config`'s members are static and zero, so a server
without a port in its file or arguments gets port 0, and refuses it.

Where a passing property would be false because of one of these, it says so in
its name or its comment (`~overtaken` in the properties of `Reactor` and
`AbortNeedsReuse` for `NoAbort`, `refused` in `UserCountExact` for `UserCountIsOpen`,
`OrphansAreShort` for `NoOrphan`, `TakesEarly` in `ImplementsTimerMap`, the level-triggered
part of `Accounting` for `DoneMeansSent`, `FileReadsAgain` for `ReadsAgain`,
`~mixed` in `RegisteredOnce`, `~cut` and the GETs of `WholeUnderstood`, the three
hangs of `StopEnds`, the last characters in `FormDecoded`). `StopEnds` does not exclude
those hangs, which the code has: it says that a stop can hang nowhere else, and
`HangsInJoin` holds only of a worker whose connection nobody will give back.

## 7. What is not modelled

* The race of main and workers on `HeapTimer`: undefined behaviour on a vector
  and a hash map can be anything. `Reactor` takes its operations as atomic.
  `shift_up_(0)` computes `(0 - 1) / 2` in `size_t` and reads far outside the
  heap before it stops, which changes nothing if it does not crash.
* `ParsePath_` and the choice of the page after a login; MIME types and status
  texts: none of them decides what is modelled.
* A file that is truncated while it is mapped: in `HttpConnect` the mapping keeps its
  length, and `writev` may fail at any time, which covers the `EFAULT` that this gives;
  what a short write of the pages that are left puts on the wire is counted as any other.
* `Config`: splitting a line of the file into key and value. Its numbers are the
  constants of the modules that use them; the port is in `Server`.
* The working directory with the name of the resources appended in a buffer of
  256 bytes (webserver.cpp:21-23), whose outcome depends on where the server is started.
* Mutexes other than the log's that the main thread holds when the signal comes;
  the destruction of static objects after `main`; `Logger`, `SqlConnPool` and
  `ThreadPool` each let their part of the shutdown come at any moment.
* What the program never calls: `HttpConnect::write`, `contains` and
  `find_substr` of `Buffer`, the unused operations of `BlockDeque`. Levels,
  timestamps and texts of the log.
* Assets, the vendored benchmark, deployment files. Tests are read as
  statements about the code.

## 8. Plan

The model is complete as far as section 7 allows, and every invariant of a run is a
theorem. What is left is `Config`: lines of the file into settings, as a function over
short lines.
