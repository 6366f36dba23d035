------------------------------- MODULE TimerMap -------------------------------
(***************************************************************************)
(* What HeapTimer promises, without the heap: a deadline per descriptor,   *)
(* and that only timers whose deadline has come expire, all of them.       *)
(***************************************************************************)
EXTENDS Integers, FiniteSets, Functions

CONSTANTS Fds, Timeouts

VARIABLES deadline, now

Active   == DOMAIN deadline
Due      == {fd \in Active : deadline[fd] <= now}
Earliest(S) == {fd \in S : \A g \in S : deadline[fd] <= deadline[g]}

Without(S) == deadline' = Restrict(deadline, Active \ S)

Init == deadline = << >> /\ now = 0

Set(fd) ==
    /\ \E t \in Timeouts :
          deadline' = [g \in Active \cup {fd} |->
                           IF g = fd THEN now + t ELSE deadline[g]]
    /\ UNCHANGED now

Remove(fd) == fd \in Active /\ Without({fd}) /\ UNCHANGED now

RemoveEarliest ==
    /\ \E fd \in Earliest(Active) : Without({fd})
    /\ UNCHANGED now

Expire == Due # {} /\ Without(Due) /\ UNCHANGED now

Clear == Without(Active) /\ UNCHANGED now

Tock == now' = now + 1 /\ UNCHANGED deadline

Next ==
    \/ \E fd \in Fds : Set(fd) \/ Remove(fd)
    \/ RemoveEarliest \/ Expire \/ Clear \/ Tock

Spec == Init /\ [][Next]_<<deadline, now>>
=============================================================================
