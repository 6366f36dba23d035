----------------------------- MODULE ByteQueue -----------------------------
(***************************************************************************)
(* What class Buffer promises (code/buffer/buffer.h:10-14): a queue of     *)
(* bytes of any length.                                                    *)
(***************************************************************************)
EXTENDS Integers, Sequences

CONSTANT Chunks   \* the sequences of bytes that are put in at a time

VARIABLES
    queue,  \* the bytes to be read
    taken   \* the bytes the last reader got

Init == queue = << >> /\ taken = << >>

Put(s) == queue' = queue \o s /\ UNCHANGED taken

Take(n) ==
    /\ taken' = SubSeq(queue, 1, n)
    /\ queue' = SubSeq(queue, n + 1, Len(queue))

Empty == queue' = << >> /\ UNCHANGED taken

Next ==
    \/ \E s \in Chunks : Put(s)
    \/ \E n \in 1 .. Len(queue) : Take(n)
    \/ Empty

Spec == Init /\ [][Next]_<<queue, taken>>
=============================================================================
