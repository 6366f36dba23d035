------------------------------ MODULE TaskQueue ------------------------------
(* What ThreadPool promises: tasks start in the order they were submitted,  *)
(* each once; all are finished before the pool is gone.                     *)
EXTENDS Naturals, Sequences

CONSTANT Tasks

VARIABLES queue, active, finished, gone

vars == <<queue, active, finished, gone>>

Init == queue = << >> /\ active = {} /\ finished = {} /\ gone = FALSE

Waiting == {queue[i] : i \in DOMAIN queue}

Submit(t) == /\ ~gone /\ t \notin Waiting \cup active \cup finished
             /\ queue' = Append(queue, t)
             /\ UNCHANGED <<active, finished, gone>>

Start == /\ queue # << >>
         /\ active' = active \cup {Head(queue)}
         /\ queue' = Tail(queue)
         /\ UNCHANGED <<finished, gone>>

Finish(t) == /\ t \in active
             /\ active' = active \ {t}
             /\ finished' = finished \cup {t}
             /\ UNCHANGED <<queue, gone>>

Vanish == /\ queue = << >> /\ active = {} /\ ~gone
          /\ gone' = TRUE
          /\ UNCHANGED <<queue, active, finished>>

Next == Start \/ Vanish \/ \E t \in Tasks : Submit(t) \/ Finish(t)

Spec == Init /\ [][Next]_vars

FairSpec == Spec /\ WF_vars(Start) /\ \A t \in Tasks : WF_vars(Finish(t))
==============================================================================
