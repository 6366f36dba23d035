------------------------------ MODULE ConnLife ------------------------------
(***************************************************************************)
(* What the reactor promises about a connection, without descriptors,      *)
(* threads, events or timers.  A connection waits in the backlog, is       *)
(* admitted while there is room, and then is in turn watched (epoll will   *)
(* report it) and served (exactly one handler has it); it ends in the      *)
(* hands of a handler, which closes it or drops it, or is refused.  A      *)
(* handler gives up the room of a connection before it closes it.          *)
(* Reactor implements this specification (module ReactorLife).             *)
(***************************************************************************)
EXTENDS Naturals, FiniteSets

CONSTANTS Conns,      \* the connections
          Capacity    \* the limit (WebServer::MAX_FD), a natural number

VARIABLE life         \* where each connection is

Stages == {"new", "queued", "watched", "served", "dropped", "closing",
           "closed"}

\* The connections that take up room: one that is closing no longer does.
Open == {c \in Conns : life[c] \in {"watched", "served", "dropped"}}

Init == life = [c \in Conns |-> "new"]

\* c goes from one of the stages in from to the stage to.
Moves(c, from, to) ==
    /\ life[c] \in from
    /\ life' = [life EXCEPT ![c] = to]

Arrive(c) == Moves(c, {"new"}, "queued")
Refuse(c) == Moves(c, {"queued"}, "closed")
Admit(c)  == Cardinality(Open) < Capacity /\ Moves(c, {"queued"}, "served")

\* One epoll_wait can report several connections.
Report == \E S \in SUBSET Conns :
    /\ \A c \in S : life[c] = "watched"
    /\ life' = [c \in Conns |-> IF c \in S THEN "served" ELSE life[c]]

\* The handler watches the connection again, closes it (at once or in two
\* steps), or loses it.
Release(c) == \E to \in {"watched", "closing", "closed", "dropped"} :
    Moves(c, {"served"}, to)
Finish(c) == Moves(c, {"closing"}, "closed")

Next == \/ Report
        \/ \E c \in Conns : \/ Arrive(c) \/ Refuse(c) \/ Admit(c)
                            \/ Release(c) \/ Finish(c)

Spec == Init /\ [][Next]_life

TypeOK == life \in [Conns -> Stages]

\* At most Capacity connections take up room.
WithinCapacity == Cardinality(Open) <= Capacity
=============================================================================
