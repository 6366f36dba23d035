------------------------------ MODULE HeapTimer ------------------------------
(***************************************************************************)
(* code/timer/heaptimer.cpp: a binary heap of deadlines with an index from *)
(* descriptors to places.  Places count from 1 here: the father of node i  *)
(* is i \div 2.  (The code counts from 0 and computes (0 - 1) / 2 for the  *)
(* father of the root, in unsigned arithmetic; the entry it then reads     *)
(* lies outside the vector, swap_node_ refuses the index, and the heap is  *)
(* unchanged whatever was read, which is what ShiftUp says of the root.)   *)
(* The operations are sequential, as the class has no lock.                *)
(***************************************************************************)
EXTENDS Integers, Sequences, FiniteSets, Functions

CONSTANTS Fds,       \* the descriptors that may have a timer
          Timeouts,  \* the timeouts add and adjust are called with
          MaxTime    \* how far the model lets the clock run

ASSUME HeapTimerAssumption ==
    Timeouts \subseteq Nat /\ MaxTime \in Nat /\ IsFiniteSet(Fds)

VARIABLES
    heap_,     \* Seq of [expire : Nat, fd : Fds]
    map_,      \* descriptor -> its place in heap_
    cb_map_,   \* the descriptors with a callback
    now,       \* get_ms_timestamp()
    ran,       \* the descriptors whose callback the last operation called
    timeMS     \* what start() last passed to epoll_wait

vars == <<heap_, map_, cb_map_, now, ran, timeMS>>

Init ==
    /\ heap_ = << >> /\ map_ = << >> /\ cb_map_ = {}
    /\ now = 0 /\ ran = {} /\ timeMS = -1

-----------------------------------------------------------------------------
(* The operations, on records of the three members and of the callbacks    *)
(* called so far.                                                          *)

State == [heap |-> heap_, map |-> map_, cbs |-> cb_map_, ran |-> {}]

Become(s) ==
    /\ heap_' = s.heap /\ map_' = s.map /\ cb_map_' = s.cbs /\ ran' = s.ran
    /\ UNCHANGED <<now, timeMS>>

\* f with f[x] = y, whether or not x was in its domain.
With(f, x, y) == [z \in DOMAIN f \cup {x} |-> IF z = x THEN y ELSE f[z]]
Drop(f, x)    == Restrict(f, DOMAIN f \ {x})

\* Mutant: map_ is not told.
swap_node_heap(s, x, y) ==
    [s EXCEPT !.heap = [s.heap EXCEPT ![x] = s.heap[y], ![y] = s.heap[x]]]

swap_node_(s, x, y) ==
    [s EXCEPT !.heap = [s.heap EXCEPT ![x] = s.heap[y], ![y] = s.heap[x]],
              !.map  = [s.map EXCEPT ![s.heap[y].fd] = x,
                                     ![s.heap[x].fd] = y]]

\* A turn of the loop of shift_up_: the node at p.at changes places with its
\* father.  The turn that would change nothing is where the loop breaks.
Lifted(p) ==
    IF p.at = 1 \/ p.s.heap[p.at].expire >= p.s.heap[p.at \div 2].expire THEN p
    ELSE [s |-> swap_node_(p.s, p.at, p.at \div 2), at |-> p.at \div 2]

\* The loop ends within i turns.
ShiftUp(s, i) ==
    LET up[n \in 0 .. i] == IF n = 0 THEN [s |-> s, at |-> i] ELSE Lifted(up[n - 1])
    IN  up[i].s

\* The smaller child of node i, the left one when they are equal.
MinChild(h, i) ==
    IF 2*i + 1 <= Len(h) /\ h[2*i + 1].expire < h[2*i].expire
    THEN 2*i + 1 ELSE 2*i

\* A turn of the loop of shift_down_.
Sunk(p) ==
    LET child == MinChild(p.s.heap, p.at) IN
    IF 2*p.at > Len(p.s.heap) \/ p.s.heap[p.at].expire <= p.s.heap[child].expire THEN p
    ELSE [s |-> swap_node_(p.s, p.at, child), at |-> child]

\* The loop ends within as many turns as there are nodes.
ShiftDown(s, i) ==
    LET down[n \in 0 .. Len(s.heap)] ==
            IF n = 0 THEN [s |-> s, at |-> i] ELSE Sunk(down[n - 1])
    IN  down[Len(s.heap)].s

\* Mutant: the node that takes a deleted place can only sink.
AdjustedDown(s, i) == IF i > Len(s.heap) THEN s ELSE ShiftDown(s, i)

\* shift_up_(i), shift_down_(i); nothing if there is no node i.
Adjusted(s, i) ==
    IF i > Len(s.heap) THEN s ELSE ShiftDown(ShiftUp(s, i), i)

\* The last node, fd's, leaves the vector and both maps.
popBack(s, fd) ==
    [s EXCEPT !.heap = SubSeq(@, 1, Len(@) - 1),
              !.map = Drop(@, fd), !.cbs = @ \ {fd}]

del_(s, i) ==
    LET last == Len(s.heap)
        fd   == s.heap[i].fd IN
    IF i = last THEN popBack(s, fd)
    ELSE Adjusted(popBack(swap_node_(s, i, last), fd), i)

pop_(s) == IF s.heap = << >> THEN s ELSE del_(s, 1)

\* The callback is looked up after del_ has erased it.
do_work_(s, fd) ==
    IF fd \notin DOMAIN s.map THEN s
    ELSE LET d == del_(s, s.map[fd]) IN
         [d EXCEPT !.ran = IF fd \in d.cbs THEN @ \cup {fd} ELSE @]

\* tick() pops after do_work, which has already removed the root.
afterDoWork(s) == pop_(s)

\* Mutant: a timer that is due this very millisecond is left.
WorkedLate(s) ==
    IF s.heap = << >> \/ s.heap[1].expire >= now THEN s
    ELSE afterDoWork(do_work_(s, s.heap[1].fd))

\* A turn of the loop of tick(), and the loop: each turn takes the root away.
Worked(s) ==
    IF s.heap = << >> \/ s.heap[1].expire > now THEN s
    ELSE afterDoWork(do_work_(s, s.heap[1].fd))

Ticked(s) ==
    LET after[n \in 0 .. Len(s.heap)] == IF n = 0 THEN s ELSE Worked(after[n - 1])
    IN  after[Len(s.heap)]

-----------------------------------------------------------------------------
\* A timer that exists is updated, and moved both ways.
add(fd, timeout) ==
    LET e == [expire |-> now + timeout, fd |-> fd]
        n == Len(heap_) + 1 IN
    Become(IF fd \in DOMAIN map_
           THEN Adjusted([State EXCEPT !.heap[map_[fd]] = e], map_[fd])
           ELSE ShiftUp([State EXCEPT !.heap = Append(@, e),
                                      !.map = With(@, fd, n),
                                      !.cbs = @ \cup {fd}], n))

\* Callers make sure that fd has a timer: an assertion.
adjust(fd, timeout) ==
    /\ fd \in DOMAIN map_
    /\ Become(Adjusted([State EXCEPT !.heap[map_[fd]].expire = now + timeout],
                       map_[fd]))

do_work(fd) == Become(do_work_(State, fd))
tick        == Become(Ticked(State))
pop         == Become(pop_(State))

clear == Become([heap |-> << >>, map |-> << >>, cbs |-> {}, ran |-> {}])

\* Mutant: the sign of a deadline that has passed is kept.
tickSigned == IF heap_ = << >> THEN -1 ELSE heap_[1].expire - now

get_next_tick ==
    IF heap_ = << >> THEN -1
    ELSE IF heap_[1].expire > now THEN heap_[1].expire - now ELSE 0

\* One turn of the loop of WebServer::start: it asks when the next timer is
\* due and waits; it calls no tick().
Turn ==
    /\ timeMS' = get_next_tick
    /\ UNCHANGED <<heap_, map_, cb_map_, now, ran>>

Tock ==
    /\ now < MaxTime
    /\ now' = now + 1
    /\ UNCHANGED <<heap_, map_, cb_map_, ran, timeMS>>

\* What WebServer calls, and what only the tests of the class call.
ServerNext ==
    \/ \E fd \in Fds, t \in Timeouts : add(fd, t) \/ adjust(fd, t)
    \/ \E fd \in Fds : do_work(fd)
    \/ Turn \/ Tock

Next == ServerNext \/ tick \/ pop \/ clear

Spec == Init /\ [][Next]_vars

\* The server's loop turns and the clock runs.
ServerSpec == Init /\ [][ServerNext]_vars /\ WF_vars(Turn) /\ WF_vars(Tock)

-----------------------------------------------------------------------------
(* Properties.                                                             *)

\* The members have the types their declarations give.
TypeOK ==
    /\ heap_ \in Seq([expire : Nat, fd : Fds])
    /\ DOMAIN map_ \subseteq Fds /\ cb_map_ \subseteq Fds /\ ran \subseteq Fds
    /\ now \in 0 .. MaxTime /\ timeMS \in Nat \cup {-1}

\* No node is earlier than its father.
HeapOrdered ==
    \A i \in 2 .. Len(heap_) : heap_[i].expire >= heap_[i \div 2].expire

\* map_ says of every descriptor where its only node is, and the descriptors
\* with a node are those with a callback.
MapExact ==
    /\ \A i \in DOMAIN heap_ :
          heap_[i].fd \in DOMAIN map_ /\ map_[heap_[i].fd] = i
    /\ \A fd \in DOMAIN map_ : map_[fd] \in DOMAIN heap_ /\ heap_[map_[fd]].fd = fd
    /\ cb_map_ = DOMAIN map_

\* epoll_wait is told to wait for the earliest deadline: not for ever (-1)
\* when there is one, and not beyond it.
WaitsForEarliest ==
    [][Turn => \/ heap_ = << >> /\ timeMS' = -1
               \/ /\ timeMS' >= 0
                  /\ \A i \in DOMAIN heap_ :
                        \/ heap_[i].expire >= now + timeMS'
                        \/ timeMS' = 0 /\ heap_[i].expire <= now]_vars

deadlines == [fd \in DOMAIN map_ |-> heap_[map_[fd]].expire]

Timers == INSTANCE TimerMap WITH deadline <- deadlines

\* tick() removes only timers that are due: the comment at heaptimer.cpp:145.
\* The code violates it.
TickTakesOnlyDue ==
    [][tick => \A fd \in DOMAIN map_ \ DOMAIN map_' :
                   heap_[map_[fd]].expire <= now]_vars

TakesEarly ==
    tick /\ \E fd \in DOMAIN map_ \ DOMAIN map_' : heap_[map_[fd]].expire > now

\* The heap implements a map of deadlines, whatever the order of the calls. A
\* tick() that takes a timer too early does not: that is what TickTakesOnlyDue
\* reports.
ImplementsTimerMap ==
    Timers!Init /\ [][[Timers!Next]_<<deadlines, now>> \/ TakesEarly]_vars

\* do_work() runs the callback of the timer it removes: heaptimer.cpp:103, and
\* test_heaptimer.cpp:195.
WorkRunsCallback ==
    [][\A fd \in cb_map_ : do_work(fd) => fd \in ran']_vars

\* A timer that is due is removed or extended: README.md:16 says that idle
\* connections are closed.
DueIsHandled ==
    \A fd \in Fds :
        (fd \in DOMAIN map_ /\ heap_[map_[fd]].expire <= now) ~>
            ~(fd \in DOMAIN map_ /\ heap_[map_[fd]].expire <= now)
=============================================================================
