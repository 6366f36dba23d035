------------------------------- MODULE Buffer -------------------------------
(***************************************************************************)
(* Class Buffer (code/buffer) and the way HttpConnect::read fills it: two  *)
(* positions in a vector that grows.  The operations are functions from    *)
(* records of the three members to such records, an action applies one.    *)
(* HttpConnect::read lets readv write behind write_ptr_ and then appends   *)
(* what arrived from there to itself, so what is behind write_ptr_ counts. *)
(***************************************************************************)
EXTENDS Integers, Sequences

CONSTANTS
    Byte, NUL,          \* bytes, and the one that resize() fills in
    INITIAL_CAPACITY,
    SCRATCH,            \* sizeof(temp_buff), sizeof(temp_buffer)
    INT_MAX,            \* the largest int: expand() computes with one
    Inputs              \* what a peer or a caller may bring at a time

ASSUME BufferAssumption ==
    /\ NUL \in Byte
    /\ INITIAL_CAPACITY \in Nat \ {0} /\ SCRATCH \in Nat \ {0}
    /\ INT_MAX \in Nat /\ INITIAL_CAPACITY <= INT_MAX
    /\ Inputs \subseteq Seq(Byte)

VARIABLES
    b,      \* the members
    taken,  \* history: what the last retrieve, skip or write took
    thrown  \* resize() threw, nobody catches it, and the process ends

vars == <<b, taken, thrown>>

Zeros(n) == [i \in 1 .. n |-> NUL]

Init ==
    /\ b = [buffer_ |-> Zeros(INITIAL_CAPACITY), read_ptr_ |-> 0, write_ptr_ |-> 0]
    /\ taken = << >> /\ thrown = FALSE

capacity(v)      == Len(v.buffer_)
readable_size(v) == v.write_ptr_ - v.read_ptr_
writable_size(v) == capacity(v) - v.write_ptr_
readable(v)      == SubSeq(v.buffer_, v.read_ptr_ + 1, v.write_ptr_)

\* The storage s with the bytes d from position at + 1 on.
Copied(s, at, d) ==
    [i \in DOMAIN s |-> IF i - at \in DOMAIN d THEN d[i - at] ELSE s[i]]

-----------------------------------------------------------------------------
\* Mutant: the bytes stay where they are.
compactedNot(v) == [v EXCEPT !.read_ptr_ = 0, !.write_ptr_ = readable_size(v)]

\* compact(): memmove to the front.
compacted(v) ==
    [buffer_    |-> Copied(v.buffer_, 0, readable(v)),
     read_ptr_  |-> 0,
     write_ptr_ |-> readable_size(v)]

\* Mutant: at least the double, whatever is asked for.
newCapacityDouble(v, len) == 2 * capacity(v)

newCapacity(v, len) ==
    capacity(v) + (IF len > capacity(v) THEN len ELSE capacity(v))

\* expand(len) compacts when there is room, and only then: it never makes room
\* by that.
compactedFirst(v, len) == IF writable_size(v) >= len THEN compacted(v) ELSE v

Grows(v, len)    == writable_size(v) < len
Throws(v, len)   == Grows(v, len) /\ newCapacity(v, len) > INT_MAX

expanded(v, len) ==
    LET c == compactedFirst(v, len) IN
    IF ~Grows(c, len) THEN c
    ELSE [c EXCEPT !.buffer_ = @ \o Zeros(newCapacity(c, len) - capacity(c))]

appended(v, d) ==
    LET e == IF Grows(v, Len(d)) THEN expanded(v, Len(d)) ELSE v IN
    [e EXCEPT !.buffer_ = Copied(@, e.write_ptr_, d), !.write_ptr_ = @ + Len(d)]

\* What of d a readv puts into the buffer, and what into the temporary one.
fits(v, d)  == IF Len(d) <= writable_size(v) THEN Len(d) ELSE writable_size(v)
inside(v, d)  == SubSeq(d, 1, fits(v, d))
outside(v, d) == SubSeq(d, fits(v, d) + 1, Len(d))

\* readv writes behind write_ptr_.
scattered(v, d) == [v EXCEPT !.buffer_ = Copied(@, v.write_ptr_, inside(v, d))]

\* HttpConnect::read appends both parts, the first from the buffer itself: it
\* fits, so the bytes are copied onto themselves and the vector stays.
afterRead(v, d) == appended(appended(scattered(v, d), inside(v, d)), outside(v, d))

\* read_from_socket sets write_ptr_ and appends the second part.
afterReadFromSocket(v, d) ==
    appended([scattered(v, d) EXCEPT !.write_ptr_ = @ + fits(v, d)], outside(v, d))

-----------------------------------------------------------------------------
\* The operation leads to v, or resize() throws.
Becomes(v, throws) ==
    /\ ~thrown /\ UNCHANGED taken
    /\ thrown' = throws
    /\ b' = IF throws THEN b ELSE v

append(d) == Becomes(appended(b, d), Throws(b, Len(d)))

\* One readv of HttpConnect::read, or of read_from_socket.
read(d) ==
    LET full == [b EXCEPT !.write_ptr_ = capacity(b)] IN
    /\ d # << >> /\ Len(d) <= writable_size(b) + SCRATCH
    /\ \E v \in {afterRead(b, d), afterReadFromSocket(b, d)} :
          Becomes(v, outside(b, d) # << >> /\ Throws(full, Len(outside(b, d))))

\* retrieve, retrieve_until and skip, and what is skipped when write() took n
\* bytes of it.
retrieve(n) ==
    /\ ~thrown /\ UNCHANGED thrown
    /\ taken' = SubSeq(b.buffer_, b.read_ptr_ + 1, b.read_ptr_ + n)
    /\ b' = [b EXCEPT !.read_ptr_ = @ + n]

reset == Becomes([b EXCEPT !.read_ptr_ = 0, !.write_ptr_ = 0], FALSE)

clear == Becomes([buffer_ |-> Zeros(INITIAL_CAPACITY),
                  read_ptr_ |-> 0, write_ptr_ |-> 0], FALSE)

compact     == Becomes(compacted(b), FALSE)
expand(len) == Becomes(expanded(b, len), Throws(b, len))

Next ==
    \/ \E d \in Inputs : append(d) \/ read(d) \/ expand(Len(d))
    \/ \E n \in 1 .. readable_size(b) : retrieve(n)
    \/ reset \/ clear \/ compact

Spec == Init /\ [][Next]_vars

-----------------------------------------------------------------------------
(* Properties.                                                             *)

\* The positions are in order and within the vector, which never holds more
\* than an int can say.
TypeOK ==
    /\ b \in [buffer_ : Seq(Byte), read_ptr_ : Nat, write_ptr_ : Nat]
    /\ b.read_ptr_ <= b.write_ptr_ /\ b.write_ptr_ <= capacity(b)
    /\ capacity(b) <= INT_MAX
    /\ taken \in Seq(Byte) /\ thrown \in BOOLEAN

\* Whatever mixture of appends, reads that overflow into the temporary buffer,
\* partial retrieves, compactions and growth: bytes come out as they went in.
Queue == INSTANCE ByteQueue WITH Chunks <- Inputs, queue <- readable(b)

ImplementsByteQueue == Queue!Spec

\* "如果通过整理可以腾出足够空间，先整理" (if compacting makes enough room,
\* compact first, buffer.cpp:67), and README.md:38 speaks of a circular buffer:
\* the vector grows only if the bytes that are kept leave no room.
GrowsOnlyWhenFull ==
    [][\A d \in Inputs :
          append(d) /\ capacity(b') > capacity(b)
              => readable_size(b) + Len(d) > capacity(b)]_vars
=============================================================================
