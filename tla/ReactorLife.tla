----------------------------- MODULE ReactorLife -----------------------------
(* Reactor implements ConnLife: the refinement mapping. *)
EXTENDS Reactor

Registered(c, how) == \E fd \in Fds : fdTable[fd] = c /\ epoll[fd] \in how

\* A handler has the connection, from the event that reported it (or from
\* accept) until it is re-armed, closed or removed from epoll.
Served(c) == \E e \in Held : fdTable[e.fd] = c

\* A thread is between fetch_sub and close(2) of the connection.
BeingClosed(c) == \E t \in Closing : fdTable[job[t].fd] = c

\* The stage of a connection. One that stays registered, disarmed and in
\* nobody's hands would be lost, which is no stage of ConnLife.
Stage(c) ==
    CASE sock[c] = "new"     -> "new"
      [] sock[c] = "backlog" -> "queued"
      [] sock[c] = "closed"  -> "closed"
      [] sock[c] = "open"    ->
            IF BeingClosed(c)                    THEN "closing"
            ELSE IF Served(c)                    THEN "served"
            ELSE IF Registered(c, {"in", "out"}) THEN "watched"
            ELSE IF Registered(c, {"off"})       THEN "lost"
            ELSE "dropped"

stages == [c \in Conns |-> Stage(c)]

Life == INSTANCE ConnLife WITH Capacity <- MAX_FD, life <- stages

\* Until accept gives out a number still being closed, every step of the
\* reactor is a step of ConnLife or leaves every connection where it was: one
\* handler at a time, which re-arms what it does not remove; connections end
\* only in the hands of their handler, and accept admits one only while fewer
\* than MAX_FD are open, those a thread is about to close not counted.
FollowsConnLife == Life!Init /\ [][~overtaken => [Life!Next]_stages]_vars

\* A handler always lets go of its connection: it closes it, watches it again
\* or drops it, unless the process ends.
HandlersLetGo ==
    \A c \in Conns :
        Stage(c) \in {"served", "closing"} ~>
            \/ Stage(c) \notin {"served", "closing"}
            \/ overtaken \/ server # "running"

ImplementsConnLife == FollowsConnLife /\ HandlersLetGo
==============================================================================
