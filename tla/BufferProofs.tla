---------------------------- MODULE BufferProofs ----------------------------
(* Theorems about Buffer, for every value of its constants. *)
EXTENDS Buffer, SequenceTheorems, TLAPS

Members == [buffer_ : Seq(Byte), read_ptr_ : Nat, write_ptr_ : Nat]

\* The positions are in order and within the vector.
Ordered(v) ==
    /\ v \in Members
    /\ v.read_ptr_ <= v.write_ptr_ /\ v.write_ptr_ <= Len(v.buffer_)

LEMMA ZerosType ==
    ASSUME NEW n \in Nat
    PROVE  Zeros(n) \in Seq(Byte) /\ Len(Zeros(n)) = n
BY BufferAssumption DEF Zeros

\* t is s with a copy of d behind the first k bytes, which stay.
CopyOf(t, s, k, d) ==
    /\ t \in Seq(Byte) /\ Len(t) = Len(s)
    /\ \A i \in 1 .. k : t[i] = s[i]
    /\ \A i \in 1 .. Len(d) : t[k + i] = d[i]

LEMMA CopiedType ==
    ASSUME NEW s \in Seq(Byte), NEW at \in Nat, NEW d \in Seq(Byte),
           at + Len(d) <= Len(s)
    PROVE  CopyOf(Copied(s, at, d), s, at, d)
<1>1. DOMAIN s = 1 .. Len(s) /\ DOMAIN d = 1 .. Len(d) /\ Len(s) \in Nat
  OBVIOUS
<1>2. \A i \in 1 .. Len(s) :
         (IF i - at \in DOMAIN d THEN d[i - at] ELSE s[i]) \in Byte
  BY <1>1
<1>3. Copied(s, at, d) = [i \in 1 .. Len(s) |->
                             IF i - at \in DOMAIN d THEN d[i - at] ELSE s[i]]
  BY <1>1 DEF Copied
<1>4. Copied(s, at, d) \in [1 .. Len(s) -> Byte]
  BY <1>2, <1>3
<1>5. \A i \in 1 .. at : Copied(s, at, d)[i] = s[i]
  BY <1>1, <1>3
<1>6. \A i \in 1 .. Len(d) : Copied(s, at, d)[at + i] = d[i]
  BY <1>1, <1>3
<1>. QED BY <1>1, <1>4, <1>5, <1>6 DEF CopyOf

LEMMA JoinedType ==
    ASSUME NEW s \in Seq(Byte), NEW t \in Seq(Byte)
    PROVE  /\ s \o t \in Seq(Byte) /\ Len(s \o t) = Len(s) + Len(t)
           /\ \A i \in 1 .. Len(s) : (s \o t)[i] = s[i]
           /\ \A i \in 1 .. Len(t) : (s \o t)[Len(s) + i] = t[i]
OBVIOUS

Slice(s, m, n) == SubSeq(s, m + 1, n)

LEMMA SliceType ==
    ASSUME NEW s \in Seq(Byte), NEW m \in Nat, NEW n \in Nat, m <= n, n <= Len(s)
    PROVE  /\ Slice(s, m, n) \in Seq(Byte)
           /\ Len(Slice(s, m, n)) = n - m
           /\ \A i \in 1 .. n - m : Slice(s, m, n)[i] = s[m + i]
BY DEF Slice

\* k is n behind m.  (Sums are kept folded: the provers match variables only.)
Behind(m, n, k) == k = m + n

\* SliceType with a name for the length.
LEMMA SliceLength ==
    ASSUME NEW s \in Seq(Byte), NEW m \in Nat, NEW k \in Nat, NEW j \in Nat,
           Behind(m, j, k), k <= Len(s)
    PROVE  /\ Slice(s, m, k) \in Seq(Byte) /\ Len(Slice(s, m, k)) = j
           /\ \A i \in 1 .. j : Slice(s, m, k)[i] = s[m + i]
<1>1. m <= k /\ j = k - m
  BY DEF Behind
<1>2. /\ Slice(s, m, k) \in Seq(Byte) /\ Len(Slice(s, m, k)) = k - m
      /\ \A i \in 1 .. k - m : Slice(s, m, k)[i] = s[m + i]
  BY <1>1, SliceType
<1>. QED BY <1>1, <1>2, Zenon

LEMMA MakesOrdered ==
    ASSUME NEW s \in Seq(Byte), NEW m \in Nat, NEW k \in Nat, m <= k, k <= Len(s),
           NEW v, v = [buffer_ |-> s, read_ptr_ |-> m, write_ptr_ |-> k]
    PROVE  Ordered(v) /\ capacity(v) = Len(s) /\ readable(v) = Slice(s, m, k)
BY DEF Ordered, Members, capacity, readable, Slice

\* What there is to read: as many bytes as lie between the positions.
LEMMA ReadableType ==
    ASSUME NEW v, Ordered(v)
    PROVE  /\ readable(v) \in Seq(Byte)
           /\ Len(readable(v)) = v.write_ptr_ - v.read_ptr_
           /\ \A i \in 1 .. v.write_ptr_ - v.read_ptr_ :
                 readable(v)[i] = v.buffer_[v.read_ptr_ + i]
BY SliceType DEF readable, Slice, Ordered, Members

\* The bytes between the positions are all that counts.
LEMMA ReadableIs ==
    ASSUME NEW v, Ordered(v), NEW q \in Seq(Byte),
           Len(q) = v.write_ptr_ - v.read_ptr_,
           \A i \in 1 .. Len(q) : v.buffer_[v.read_ptr_ + i] = q[i]
    PROVE  readable(v) = q
<1>1. /\ readable(v) \in Seq(Byte) /\ Len(readable(v)) = Len(q)
      /\ \A i \in 1 .. Len(q) : readable(v)[i] = q[i]
  BY ReadableType
<1>. QED BY <1>1, SeqEqual

\* Compacting moves what there is to read, and keeps it.
LEMMA CompactedKeeps ==
    ASSUME NEW v, Ordered(v)
    PROVE  /\ Ordered(compacted(v))
           /\ capacity(compacted(v)) = capacity(v)
           /\ readable(compacted(v)) = readable(v)
<1>. SUFFICES ASSUME NEW r, r = readable(v), NEW c, c = compacted(v)
              PROVE  Ordered(c) /\ capacity(c) = capacity(v) /\ readable(c) = r
  OBVIOUS
<1>1. /\ v.buffer_ \in Seq(Byte) /\ v.read_ptr_ \in Nat /\ v.write_ptr_ \in Nat
      /\ v.read_ptr_ <= v.write_ptr_ /\ v.write_ptr_ <= Len(v.buffer_)
      /\ Len(v.buffer_) \in Nat
  BY DEF Ordered, Members
<1>2. r \in Seq(Byte) /\ Len(r) = v.write_ptr_ - v.read_ptr_
  BY ReadableType
<1>3. c = [buffer_ |-> Copied(v.buffer_, 0, r), read_ptr_ |-> 0, write_ptr_ |-> Len(r)]
  BY <1>2 DEF compacted, readable_size
<1>4. /\ c.buffer_ \in Seq(Byte) /\ Len(c.buffer_) = Len(v.buffer_)
      /\ \A i \in 1 .. Len(r) : c.buffer_[0 + i] = r[i]
  <2>1. 0 + Len(r) <= Len(v.buffer_)
    BY <1>1, <1>2
  <2>2. CopyOf(Copied(v.buffer_, 0, r), v.buffer_, 0, r)
    BY <1>1, <1>2, <2>1, CopiedType
  <2>3. CopyOf(c.buffer_, v.buffer_, 0, r)
    BY <1>3, <2>2
  <2>. QED BY <2>3, Zenon DEF CopyOf
<1>5. Ordered(c)
  BY <1>1, <1>2, <1>3, <1>4 DEF Ordered, Members
<1>6. readable(c) = r
  BY <1>2, <1>3, <1>4, <1>5, ReadableIs
<1>. QED BY <1>4, <1>5, <1>6 DEF capacity

LEMMA SliceSame ==
    ASSUME NEW s \in Seq(Byte), NEW t \in Seq(Byte), NEW m \in Nat, NEW k \in Nat,
           m <= k, k <= Len(s), k <= Len(t), \A i \in 1 .. k : t[i] = s[i]
    PROVE  Slice(t, m, k) = Slice(s, m, k)
<1>1. /\ Slice(s, m, k) \in Seq(Byte) /\ Len(Slice(s, m, k)) = k - m
      /\ \A i \in 1 .. k - m : Slice(s, m, k)[i] = s[m + i]
  BY SliceType
<1>2. /\ Slice(t, m, k) \in Seq(Byte) /\ Len(Slice(t, m, k)) = k - m
      /\ \A i \in 1 .. k - m : Slice(t, m, k)[i] = t[m + i]
  BY SliceType
<1>3. \A i \in 1 .. k - m : t[m + i] = s[m + i]
  OBVIOUS
<1>. QED BY <1>1, <1>2, <1>3, SeqEqual

\* A vector that grew by n bytes.
Grown(v, n) == [v EXCEPT !.buffer_ = @ \o Zeros(n)]

LEMMA GrownKeeps ==
    ASSUME NEW v, Ordered(v), NEW n \in Nat, NEW e, e = Grown(v, n)
    PROVE  /\ Ordered(e) /\ capacity(e) = capacity(v) + n
           /\ e.read_ptr_ = v.read_ptr_ /\ e.write_ptr_ = v.write_ptr_
           /\ readable(e) = readable(v)
<1>1. PICK s \in Seq(Byte), m \in Nat, k \in Nat :
         /\ v = [buffer_ |-> s, read_ptr_ |-> m, write_ptr_ |-> k]
         /\ m <= k /\ k <= Len(s)
  BY DEF Ordered, Members
<1>2. PICK z \in Seq(Byte) : z = Zeros(n) /\ Len(z) = n
  BY ZerosType
<1>0. PICK t \in Seq(Byte) : t = s \o z
  <2>1. s \o z \in Seq(Byte)
    BY JoinedType
  <2>. QED BY <2>1
<1>3. /\ Len(t) = Len(s) + n /\ Len(s) \in Nat
      /\ \A i \in 1 .. Len(s) : t[i] = s[i]
  <2>1. /\ Len(s \o z) = Len(s) + Len(z)
        /\ \A i \in 1 .. Len(s) : (s \o z)[i] = s[i]
    BY JoinedType
  <2>2. /\ Len(t) = Len(s) + Len(z)
        /\ \A i \in 1 .. Len(s) : t[i] = s[i]
    BY <1>0, <2>1, Zenon
  <2>. QED BY <1>2, <2>2
<1>4. e = [buffer_ |-> t, read_ptr_ |-> m, write_ptr_ |-> k]
  BY <1>0, <1>1, <1>2 DEF Grown
<1>5. k <= Len(t)
  BY <1>1, <1>3
<1>6. Ordered(e) /\ capacity(e) = capacity(v) + n
  <2>1. Ordered(e) /\ capacity(e) = Len(t)
    BY <1>1, <1>3, <1>4, <1>5, MakesOrdered
  <2>. QED BY <1>1, <1>3, <2>1 DEF capacity
<1>7. Slice(t, m, k) = Slice(s, m, k)
  <2>1. \A i \in 1 .. k : t[i] = s[i]
    BY <1>1, <1>3
  <2>2. m <= k /\ k <= Len(s)
    BY <1>1
  <2>. QED BY <1>3, <1>5, <2>1, <2>2, SliceSame
<1>. QED BY <1>1, <1>4, <1>6, <1>7 DEF readable, Slice

\* expand() keeps what there is to read, makes room, and fits an int unless it
\* throws.
LEMMA ExpandedKeeps ==
    ASSUME NEW v, Ordered(v), NEW len \in Nat,
           NEW e, e = expanded(v, len)
    PROVE  /\ Ordered(e)
           /\ readable(e) = readable(v)
           /\ writable_size(e) >= len
           /\ capacity(v) <= INT_MAX /\ ~Throws(v, len) => capacity(e) <= INT_MAX
<1>. DEFINE room == writable_size(v) >= len
<1>1. capacity(v) \in Nat /\ writable_size(v) \in Int
  BY DEF capacity, writable_size, Ordered, Members
<1>2. CASE room
  <2>1. Ordered(compacted(v)) /\ capacity(compacted(v)) = capacity(v)
        /\ readable(compacted(v)) = readable(v)
    BY CompactedKeeps
  <2>2. writable_size(compacted(v)) >= len
    <3>1. compacted(v).write_ptr_ = v.write_ptr_ - v.read_ptr_
      BY DEF compacted, readable_size
    <3>. QED BY <1>2, <2>1, <3>1 DEF writable_size, capacity, Ordered, Members
  <2>3. writable_size(compacted(v)) \in Int
    BY <2>1 DEF writable_size, capacity, Ordered, Members
  <2>4. compactedFirst(v, len) = compacted(v) /\ ~Grows(compacted(v), len)
    BY <1>2, <2>2, <2>3 DEF compactedFirst, Grows
  <2>5. e = compacted(v)
    BY <2>4, Zenon DEF expanded
  <2>. QED BY <1>1, <2>1, <2>2, <2>5, BufferAssumption
<1>3. CASE ~room
  <2>1. compactedFirst(v, len) = v /\ Grows(v, len)
    BY <1>1, <1>3 DEF compactedFirst, Grows
  <2>2. PICK n \in Nat : n >= len /\ n = newCapacity(v, len) - capacity(v)
    BY <1>1 DEF newCapacity
  <2>3. e = Grown(v, n)
    BY <2>1, <2>2, Zenon DEF expanded, Grown
  <2>4. /\ Ordered(e) /\ capacity(e) = capacity(v) + n
        /\ e.write_ptr_ = v.write_ptr_ /\ readable(e) = readable(v)
    BY <2>2, <2>3, GrownKeeps
  <2>5. writable_size(e) >= len
    BY <1>1, <2>2, <2>4 DEF writable_size, Ordered, Members, capacity
  <2>6. ~Throws(v, len) => capacity(e) <= INT_MAX
    BY <1>1, <2>1, <2>2, <2>4, BufferAssumption DEF Throws, newCapacity
  <2>. QED BY <2>4, <2>5, <2>6
<1>. QED BY <1>2, <1>3

\* A slice that ends where d was copied to, and one that has d at its end.
LEMMA SliceWithCopy ==
    ASSUME NEW s \in Seq(Byte), NEW t \in Seq(Byte), NEW d \in Seq(Byte),
           NEW m \in Nat, NEW k \in Nat, NEW h \in Nat,
           Behind(k, Len(d), h), m <= k, h <= Len(s), CopyOf(t, s, k, d)
    PROVE  Slice(t, m, h) = Slice(s, m, k) \o d
<1>a. PICK n \in Nat : n = Len(d) /\ Behind(k, n, h)
  OBVIOUS
<1>0. /\ Len(t) = Len(s) /\ \A i \in 1 .. k : t[i] = s[i]
      /\ \A i \in 1 .. n : t[k + i] = d[i]
  BY <1>a DEF CopyOf
<1>1. PICK r : r = Slice(s, m, k)
  OBVIOUS
<1>2. PICK q : q = Slice(t, m, h)
  OBVIOUS
<1>3. PICK j \in Nat : j = k - m
  OBVIOUS
<1>4. r \in Seq(Byte) /\ Len(r) = j /\ \A i \in 1 .. j : r[i] = s[m + i]
  <2>1. k <= Len(s) /\ Behind(m, j, k)
    BY <1>3, <1>a DEF Behind
  <2>2. /\ Slice(s, m, k) \in Seq(Byte) /\ Len(Slice(s, m, k)) = j
        /\ \A i \in 1 .. j : Slice(s, m, k)[i] = s[m + i]
    BY <2>1, SliceLength
  <2>. QED BY <1>1, <2>2, Zenon
<1>5. q \in Seq(Byte) /\ Len(q) = j + n /\ \A i \in 1 .. j + n : q[i] = t[m + i]
  <2>0. PICK g \in Nat : g = j + n
    OBVIOUS
  <2>1. Behind(m, g, h) /\ h <= Len(t)
    BY <1>0, <1>3, <1>a, <2>0 DEF Behind
  <2>2. /\ Slice(t, m, h) \in Seq(Byte) /\ Len(Slice(t, m, h)) = g
        /\ \A i \in 1 .. g : Slice(t, m, h)[i] = t[m + i]
    BY <2>1, SliceLength
  <2>. QED BY <1>2, <2>0, <2>2, Zenon
<1>6. \A i \in 1 .. j : q[i] = r[i]
  <2>. TAKE i \in 1 .. j
  <2>1. m + i \in 1 .. k /\ i \in 1 .. j + n
    BY <1>3
  <2>. QED BY <1>0, <1>4, <1>5, <2>1
<1>7. \A i \in 1 .. n : q[j + i] = d[i]
  <2>. TAKE i \in 1 .. n
  <2>1. j + i \in 1 .. j + n /\ m + (j + i) = k + i
    BY <1>3
  <2>2. q[j + i] = t[m + (j + i)]
    BY <1>5, <2>1
  <2>. QED BY <1>0, <2>1, <2>2
<1>8. /\ r \o d \in Seq(Byte) /\ Len(r \o d) = j + n
      /\ \A i \in 1 .. j : (r \o d)[i] = r[i]
      /\ \A i \in 1 .. n : (r \o d)[j + i] = d[i]
  <2>1. /\ r \o d \in Seq(Byte) /\ Len(r \o d) = Len(r) + Len(d)
        /\ \A i \in 1 .. Len(r) : (r \o d)[i] = r[i]
        /\ \A i \in 1 .. Len(d) : (r \o d)[Len(r) + i] = d[i]
    BY <1>4, JoinedType
  <2>. QED BY <1>4, <1>a, <2>1
<1>9. PICK p : p = r \o d
  OBVIOUS
<1>10. \A i \in 1 .. j + n : q[i] = p[i]
  <2>. TAKE i \in 1 .. j + n
  <2>1. CASE i <= j
    BY <1>6, <1>8, <1>9, <2>1
  <2>2. CASE ~(i <= j)
    <3>1. PICK l \in 1 .. n : i = j + l
      <4>1. i - j \in 1 .. n /\ i = j + (i - j)
        BY <2>2
      <4>. QED BY <4>1
    <3>. QED BY <1>7, <1>8, <1>9, <3>1
  <2>. QED BY <2>1, <2>2
<1>11. q = p
  BY <1>5, <1>8, <1>9, <1>10, SeqEqual
<1>. QED BY <1>1, <1>2, <1>9, <1>11

LEMMA SliceBeforeCopy ==
    ASSUME NEW s \in Seq(Byte), NEW t \in Seq(Byte), NEW d \in Seq(Byte),
           NEW m \in Nat, NEW k \in Nat, m <= k, k <= Len(s), CopyOf(t, s, k, d)
    PROVE  Slice(t, m, k) = Slice(s, m, k)
<1>1. Len(t) = Len(s) /\ \A i \in 1 .. k : t[i] = s[i]
  BY DEF CopyOf
<1>. QED BY <1>1, SliceSame

\* d behind write_ptr_, where there is room for it.
Filled(v, d) ==
    [v EXCEPT !.buffer_ = Copied(@, v.write_ptr_, d), !.write_ptr_ = @ + Len(d)]

LEMMA FilledKeeps ==
    ASSUME NEW v, Ordered(v), NEW d \in Seq(Byte), Len(d) <= writable_size(v),
           NEW e, e = Filled(v, d)
    PROVE  /\ Ordered(e) /\ capacity(e) = capacity(v)
           /\ e.write_ptr_ = v.write_ptr_ + Len(d)
           /\ readable(e) = readable(v) \o d
<1>1. PICK s \in Seq(Byte), m \in Nat, k \in Nat :
         /\ v = [buffer_ |-> s, read_ptr_ |-> m, write_ptr_ |-> k]
         /\ m <= k /\ k <= Len(s)
  BY DEF Ordered, Members
<1>2. PICK h \in Nat : h = k + Len(d)
  OBVIOUS
<1>3. PICK t : t = Copied(s, k, d)
  OBVIOUS
<1>4. m <= h /\ h <= Len(s)
  BY <1>1, <1>2 DEF writable_size, capacity
<1>5. t \in Seq(Byte) /\ Len(t) = Len(s) /\ Slice(t, m, h) = Slice(s, m, k) \o d
  <2>1. CopyOf(t, s, k, d) /\ t \in Seq(Byte)
    BY <1>2, <1>3, <1>4, CopiedType DEF CopyOf
  <2>2. m <= k
    BY <1>1
  <2>3. Behind(k, Len(d), h)
    BY <1>2 DEF Behind
  <2>4. Slice(t, m, h) = Slice(s, m, k) \o d
    BY <1>4, <2>1, <2>2, <2>3, SliceWithCopy
  <2>. QED BY <2>1, <2>4 DEF CopyOf
<1>6. e = [buffer_ |-> t, read_ptr_ |-> m, write_ptr_ |-> h]
  BY <1>1, <1>2, <1>3 DEF Filled
<1>7. Ordered(e) /\ capacity(e) = Len(s) /\ readable(e) = Slice(t, m, h)
  BY <1>4, <1>5, <1>6, MakesOrdered
<1>8. capacity(v) = Len(s) /\ readable(v) = Slice(s, m, k)
  BY <1>1, MakesOrdered
<1>9. e.write_ptr_ = v.write_ptr_ + Len(d)
  BY <1>1, <1>2, <1>6
<1>. QED BY <1>5, <1>7, <1>8, <1>9

\* append(d), whether the vector grows for it or not.
LEMMA AppendedKeeps ==
    ASSUME NEW v, Ordered(v), NEW d \in Seq(Byte), NEW a, a = appended(v, d)
    PROVE  /\ Ordered(a)
           /\ readable(a) = readable(v) \o d
           /\ capacity(v) <= INT_MAX /\ ~Throws(v, Len(d)) => capacity(a) <= INT_MAX
           /\ ~Grows(v, Len(d)) => a = Filled(v, d)
<1>1. PICK e : e = IF Grows(v, Len(d)) THEN expanded(v, Len(d)) ELSE v
  OBVIOUS
<1>2. a = Filled(e, d)
  BY <1>1, Zenon DEF appended, Filled
<1>3. Len(d) \in Nat /\ capacity(v) \in Nat /\ writable_size(v) \in Int
  BY DEF capacity, writable_size, Ordered, Members
<1>4. /\ Ordered(e) /\ readable(e) = readable(v) /\ Len(d) <= writable_size(e)
      /\ capacity(v) <= INT_MAX /\ ~Throws(v, Len(d)) => capacity(e) <= INT_MAX
  <2>1. CASE Grows(v, Len(d))
    <3>1. e = expanded(v, Len(d))
      BY <1>1, <2>1
    <3>2. /\ Ordered(e) /\ readable(e) = readable(v) /\ writable_size(e) >= Len(d)
          /\ capacity(v) <= INT_MAX /\ ~Throws(v, Len(d)) => capacity(e) <= INT_MAX
      BY <1>3, <3>1, ExpandedKeeps
    <3>3. writable_size(e) \in Int
      BY <3>2 DEF capacity, writable_size, Ordered, Members
    <3>. QED BY <1>3, <3>2, <3>3
  <2>2. CASE ~Grows(v, Len(d))
    <3>1. e = v
      BY <1>1, <2>2
    <3>2. Len(d) <= writable_size(v)
      BY <1>3, <2>2 DEF Grows
    <3>. QED BY <3>1, <3>2
  <2>. QED BY <2>1, <2>2
<1>5. Ordered(a) /\ capacity(a) = capacity(e) /\ readable(a) = readable(e) \o d
  BY <1>2, <1>4, FilledKeeps
<1>. QED BY <1>1, <1>2, <1>4, <1>5

\* The two parts of what a readv brought.
LEMMA PartsType ==
    ASSUME NEW v, Ordered(v), NEW d \in Seq(Byte)
    PROVE  /\ fits(v, d) \in Nat /\ fits(v, d) <= writable_size(v)
           /\ inside(v, d) \in Seq(Byte) /\ Len(inside(v, d)) = fits(v, d)
           /\ outside(v, d) \in Seq(Byte)
           /\ outside(v, d) # << >> => fits(v, d) = writable_size(v)
           /\ inside(v, d) \o outside(v, d) = d
<1>1. PICK n \in Nat : n = fits(v, d)
  BY DEF fits, writable_size, capacity, Ordered, Members
<1>2. /\ n <= Len(d) /\ n <= writable_size(v)
      /\ n < Len(d) => n = writable_size(v)
  BY <1>1 DEF fits, writable_size, capacity, Ordered, Members
<1>3. SubSeq(d, 1, n) \in Seq(Byte) /\ Len(SubSeq(d, 1, n)) = n
  BY <1>2
<1>4. SubSeq(d, n + 1, Len(d)) \in Seq(Byte)
      /\ (n = Len(d) => SubSeq(d, n + 1, Len(d)) = << >>)
  BY <1>2
<1>5. SubSeq(d, 1, n) \o SubSeq(d, n + 1, Len(d)) = d
  <2>1. 1 \in 1 .. Len(d) + 1 /\ n \in 1 - 1 .. Len(d) /\ Len(d) \in n .. Len(d)
    BY <1>2
  <2>2. SubSeq(d, 1, n) \o SubSeq(d, n + 1, Len(d)) = SubSeq(d, 1, Len(d))
    BY <2>1, ConcatAdjacentSubSeq
  <2>. QED BY <2>2, SubSeqFull
<1>. QED BY <1>1, <1>2, <1>3, <1>4, <1>5 DEF inside, outside

\* What is written behind write_ptr_ is not yet to be read.
LEMMA BehindKeeps ==
    ASSUME NEW v, Ordered(v), NEW d \in Seq(Byte), Len(d) <= writable_size(v),
           NEW e, e = [v EXCEPT !.buffer_ = Copied(@, v.write_ptr_, d)]
    PROVE  /\ Ordered(e) /\ capacity(e) = capacity(v)
           /\ e.write_ptr_ = v.write_ptr_
           /\ readable(e) = readable(v)
<1>1. PICK s \in Seq(Byte), m \in Nat, k \in Nat :
         /\ v = [buffer_ |-> s, read_ptr_ |-> m, write_ptr_ |-> k]
         /\ m <= k /\ k <= Len(s)
  BY DEF Ordered, Members
<1>2. PICK h \in Nat : h = k + Len(d)
  OBVIOUS
<1>3. PICK t : t = Copied(s, k, d)
  OBVIOUS
<1>4. m <= k /\ h <= Len(s)
  BY <1>1, <1>2 DEF writable_size, capacity
<1>5. t \in Seq(Byte) /\ Len(t) = Len(s) /\ Slice(t, m, k) = Slice(s, m, k)
  <2>1. CopyOf(t, s, k, d) /\ t \in Seq(Byte)
    BY <1>2, <1>3, <1>4, CopiedType DEF CopyOf
  <2>2. m <= k /\ k <= Len(s)
    BY <1>1
  <2>3. Slice(t, m, k) = Slice(s, m, k)
    BY <2>1, <2>2, SliceBeforeCopy
  <2>. QED BY <2>1, <2>3 DEF CopyOf
<1>6. e = [buffer_ |-> t, read_ptr_ |-> m, write_ptr_ |-> k]
  BY <1>1, <1>3
<1>7. Ordered(e) /\ capacity(e) = Len(s) /\ readable(e) = Slice(t, m, k)
  BY <1>1, <1>5, <1>6, MakesOrdered
<1>8. capacity(v) = Len(s) /\ readable(v) = Slice(s, m, k)
  BY <1>1, MakesOrdered
<1>9. e.write_ptr_ = v.write_ptr_
  BY <1>1, <1>6
<1>. QED BY <1>5, <1>7, <1>8, <1>9

\* The first part of a readv is to be read when write_ptr_ moves over it.
LEMMA ScatteredKeeps ==
    ASSUME NEW v, Ordered(v), NEW d \in Seq(Byte)
    PROVE  /\ Ordered(scattered(v, d)) /\ readable(scattered(v, d)) = readable(v)
           /\ capacity(scattered(v, d)) = capacity(v)
           /\ scattered(v, d).write_ptr_ = v.write_ptr_
<1>1. inside(v, d) \in Seq(Byte) /\ Len(inside(v, d)) <= writable_size(v)
  BY PartsType
<1>2. scattered(v, d) = [v EXCEPT !.buffer_ = Copied(@, v.write_ptr_, inside(v, d))]
  BY DEF scattered
<1>. QED BY <1>1, <1>2, BehindKeeps

LEMMA Associates ==
    ASSUME NEW r \in Seq(Byte), NEW i \in Seq(Byte), NEW o \in Seq(Byte)
    PROVE  (r \o i) \o o = r \o (i \o o)
BY ConcatAssociative

LEMMA TwoParts ==
    ASSUME NEW v, Ordered(v), NEW d \in Seq(Byte)
    PROVE  (readable(v) \o inside(v, d)) \o outside(v, d) = readable(v) \o d
<1>1. /\ readable(v) \in Seq(Byte)
      /\ inside(v, d) \in Seq(Byte) /\ outside(v, d) \in Seq(Byte)
      /\ inside(v, d) \o outside(v, d) = d
  BY ReadableType, PartsType
<1>2. (readable(v) \o inside(v, d)) \o outside(v, d)
         = readable(v) \o (inside(v, d) \o outside(v, d))
  BY <1>1, Associates, Zenon
<1>. QED BY <1>1, <1>2, Zenon

\* The second append of a read, to x, which has got the first part.
LEMMA RestKeeps ==
    ASSUME NEW v, Ordered(v), capacity(v) <= INT_MAX, NEW d \in Seq(Byte),
           NEW x, Ordered(x), readable(x) = readable(v) \o inside(v, d),
           capacity(x) = capacity(v), x.write_ptr_ = v.write_ptr_ + fits(v, d),
           NEW full, full = [v EXCEPT !.write_ptr_ = capacity(v)],
           ~(outside(v, d) # << >> /\ Throws(full, Len(outside(v, d)))),
           NEW a, a = appended(x, outside(v, d))
    PROVE  Ordered(a) /\ readable(a) = readable(v) \o d /\ capacity(a) <= INT_MAX
<1>1. PICK o \in Seq(Byte) : o = outside(v, d)
  BY PartsType
<1>2. PICK i \in Seq(Byte) : i = inside(v, d)
  BY PartsType
<1>3. /\ Ordered(a) /\ readable(a) = readable(x) \o o
      /\ ~Throws(x, Len(o)) => capacity(a) <= INT_MAX
  BY <1>1, AppendedKeeps
<1>4. ~Throws(x, Len(o))
  <2>1. CASE o = << >>
    <3>1. writable_size(x) \in Nat /\ Len(o) = 0
      BY <2>1 DEF writable_size, capacity, Ordered, Members
    <3>. QED BY <3>1 DEF Throws, Grows
  <2>2. CASE o # << >>
    <3>0. fits(v, d) = writable_size(v)
      BY <1>1, <2>2, PartsType
    <3>1. x.write_ptr_ = capacity(v) /\ writable_size(x) = 0
      BY <3>0 DEF writable_size, capacity, Ordered, Members
    <3>2. full.write_ptr_ = capacity(v) /\ capacity(full) = capacity(v)
          /\ writable_size(full) = 0
      BY DEF writable_size, capacity, Ordered, Members
    <3>. QED BY <1>1, <2>2, <3>1, <3>2 DEF Throws, Grows, newCapacity
  <2>. QED BY <2>1, <2>2
<1>5. readable(a) = (readable(v) \o inside(v, d)) \o outside(v, d)
  BY <1>1, <1>3
<1>6. readable(a) = readable(v) \o d
  BY <1>5, TwoParts
<1>. QED BY <1>3, <1>4, <1>6

\* Both ways to read: HttpConnect::read appends the first part to where it is,
\* read_from_socket moves write_ptr_ over it.
LEMMA ReadKeeps ==
    ASSUME NEW v, Ordered(v), capacity(v) <= INT_MAX, NEW d \in Seq(Byte),
           NEW full, full = [v EXCEPT !.write_ptr_ = capacity(v)],
           ~(outside(v, d) # << >> /\ Throws(full, Len(outside(v, d)))),
           NEW a, a \in {afterRead(v, d), afterReadFromSocket(v, d)}
    PROVE  Ordered(a) /\ readable(a) = readable(v) \o d /\ capacity(a) <= INT_MAX
<1>1. /\ inside(v, d) \in Seq(Byte) /\ Len(inside(v, d)) = fits(v, d)
      /\ Len(inside(v, d)) <= writable_size(v)
  BY PartsType
<1>2. PICK e : e = scattered(v, d)
  OBVIOUS
<1>3. /\ Ordered(e) /\ readable(e) = readable(v) /\ capacity(e) = capacity(v)
      /\ e.write_ptr_ = v.write_ptr_
  BY <1>2, ScatteredKeeps
<1>4. CASE a = afterRead(v, d)
  <2>1. PICK x : x = appended(e, inside(v, d))
    OBVIOUS
  <2>2. Len(inside(v, d)) <= writable_size(e) /\ writable_size(e) \in Int
    BY <1>1, <1>3 DEF writable_size, capacity, Ordered, Members
  <2>3. ~Grows(e, Len(inside(v, d)))
    BY <1>1, <2>2 DEF Grows
  <2>4. x = Filled(e, inside(v, d))
    BY <1>1, <1>3, <2>1, <2>3, AppendedKeeps
  <2>5. /\ Ordered(x) /\ readable(x) = readable(e) \o inside(v, d)
        /\ capacity(x) = capacity(e)
        /\ x.write_ptr_ = e.write_ptr_ + Len(inside(v, d))
    BY <1>1, <1>3, <2>2, <2>4, FilledKeeps
  <2>6. a = appended(x, outside(v, d))
    BY <1>2, <1>4, <2>1 DEF afterRead
  <2>. QED BY <1>1, <1>3, <2>5, <2>6, RestKeeps
<1>5. CASE a = afterReadFromSocket(v, d)
  <2>1. PICK x : x = [e EXCEPT !.write_ptr_ = @ + fits(v, d)]
    OBVIOUS
  <2>2. x = Filled(v, inside(v, d))
    BY <1>1, <1>2, <2>1 DEF Filled, scattered, Ordered, Members
  <2>3. /\ Ordered(x) /\ readable(x) = readable(v) \o inside(v, d)
        /\ capacity(x) = capacity(v)
        /\ x.write_ptr_ = v.write_ptr_ + Len(inside(v, d))
    BY <1>1, <2>2, FilledKeeps
  <2>4. a = appended(x, outside(v, d))
    BY <1>2, <1>5, <2>1 DEF afterReadFromSocket
  <2>. QED BY <1>1, <2>3, <2>4, RestKeeps
<1>. QED BY <1>4, <1>5

\* A part of a slice, and the rest of it.
LEMMA SliceSplit ==
    ASSUME NEW s \in Seq(Byte), NEW m \in Nat, NEW k \in Nat, NEW h \in Nat,
           NEW n \in Nat, Behind(m, n, h), NEW l \in Nat, Behind(h, l, k),
           k <= Len(s)
    PROVE  /\ Slice(s, m, h) = SubSeq(Slice(s, m, k), 1, n)
           /\ Slice(s, h, k) = SubSeq(Slice(s, m, k), n + 1, Len(Slice(s, m, k)))
<1>1. PICK j \in Nat : Behind(n, l, j) /\ Behind(m, j, k) /\ n <= j
  BY DEF Behind
<1>2. PICK q \in Seq(Byte) : q = Slice(s, m, k) /\ Len(q) = j
  BY <1>1, SliceLength
<1>3. \A i \in 1 .. j : q[i] = s[m + i]
  <2>1. \A i \in 1 .. j : Slice(s, m, k)[i] = s[m + i]
    BY <1>1, SliceLength
  <2>. QED BY <1>2, <2>1, Zenon
<1>4. h <= Len(s)
  BY DEF Behind
<1>5. Slice(s, m, h) = SubSeq(q, 1, n)
  <2>1. /\ Slice(s, m, h) \in Seq(Byte) /\ Len(Slice(s, m, h)) = n
        /\ \A i \in 1 .. n : Slice(s, m, h)[i] = s[m + i]
    BY <1>4, SliceLength
  <2>2. n <= Len(q)
    BY <1>1, <1>2
  <2>3. /\ SubSeq(q, 1, n) \in Seq(Byte) /\ Len(SubSeq(q, 1, n)) = n
        /\ \A i \in 1 .. n : SubSeq(q, 1, n)[i] = q[i]
    BY <2>2
  <2>4. \A i \in 1 .. n : q[i] = s[m + i]
    BY <1>1, <1>3
  <2>. QED BY <2>1, <2>3, <2>4, SeqEqual
<1>6. Slice(s, h, k) = SubSeq(q, n + 1, Len(q))
  <2>1. /\ Slice(s, h, k) \in Seq(Byte) /\ Len(Slice(s, h, k)) = l
        /\ \A i \in 1 .. l : Slice(s, h, k)[i] = s[h + i]
    BY SliceLength
  <2>2. /\ Slice(q, n, j) \in Seq(Byte) /\ Len(Slice(q, n, j)) = l
        /\ \A i \in 1 .. l : Slice(q, n, j)[i] = q[n + i]
    <3>1. j <= Len(q)
      BY <1>2
    <3>. QED BY <1>1, <3>1, SliceLength
  <2>3. \A i \in 1 .. l : q[n + i] = s[h + i]
    <3>. TAKE i \in 1 .. l
    <3>1. n + i \in 1 .. j /\ m + (n + i) = h + i
      BY <1>1 DEF Behind
    <3>2. q[n + i] = s[m + (n + i)]
      BY <1>3, <3>1
    <3>. QED BY <3>1, <3>2
  <2>4. Slice(s, h, k) = Slice(q, n, j)
    BY <2>1, <2>2, <2>3, SeqEqual
  <2>. QED BY <1>2, <2>4 DEF Slice
<1>. QED BY <1>2, <1>5, <1>6

-----------------------------------------------------------------------------
\* What every step keeps: TypeOK, with the members as one predicate.
Inv ==
    /\ Ordered(b) /\ capacity(b) <= INT_MAX
    /\ taken \in Seq(Byte) /\ thrown \in BOOLEAN

\* The vector of an empty buffer, for Init and clear().
LEMMA EmptyBuffer ==
    ASSUME NEW s \in Seq(Byte), NEW v,
           v = [buffer_ |-> s, read_ptr_ |-> 0, write_ptr_ |-> 0]
    PROVE  Ordered(v) /\ readable(v) = << >> /\ capacity(v) = Len(s)
<1>1. Ordered(v) /\ capacity(v) = Len(s) /\ readable(v) = Slice(s, 0, 0)
  BY MakesOrdered
<1>2. Slice(s, 0, 0) = << >>
  BY DEF Slice
<1>. QED BY <1>1, <1>2

LEMMA InitStep == Init => Inv /\ Queue!Init
<1>. SUFFICES ASSUME Init PROVE Inv /\ Queue!Init
  OBVIOUS
<1>1. /\ Zeros(INITIAL_CAPACITY) \in Seq(Byte)
      /\ Len(Zeros(INITIAL_CAPACITY)) = INITIAL_CAPACITY
  BY ZerosType, BufferAssumption
<1>2. Ordered(b) /\ readable(b) = << >> /\ capacity(b) = INITIAL_CAPACITY
  BY <1>1, EmptyBuffer DEF Init
<1>3. taken \in Seq(Byte) /\ thrown \in BOOLEAN
  <2>1. taken = << >> /\ thrown = FALSE
    BY DEF Init
  <2>2. << >> \in Seq(Byte)
    OBVIOUS
  <2>. QED BY <2>1, <2>2, Zenon
<1>4. Inv
  BY <1>2, <1>3, BufferAssumption, Zenon DEF Inv
<1>. QED BY <1>2, <1>4 DEF Init, Queue!Init

\* An operation that leads to v: what is to be shown of v, unless it throws.
LEMMA BecomesStep ==
    ASSUME Inv, NEW v, NEW t \in BOOLEAN, Becomes(v, t),
           ~t => Ordered(v) /\ capacity(v) <= INT_MAX
    PROVE  /\ Inv' /\ taken' = taken
           /\ (readable(b)' = readable(b) \/ (~t /\ readable(b)' = readable(v)))
<1>1. CASE t
  <2>1. b' = b /\ taken' = taken /\ thrown' \in BOOLEAN
    BY <1>1 DEF Becomes
  <2>. QED BY <2>1 DEF Inv, readable, capacity, Ordered
<1>2. CASE ~t
  <2>1. b' = v /\ taken' = taken /\ thrown' \in BOOLEAN
    BY <1>2 DEF Becomes
  <2>. QED BY <1>2, <2>1 DEF Inv, readable, capacity, Ordered
<1>. QED BY <1>1, <1>2

\* One step keeps the invariant, and is a step of the byte queue or a stutter.
LEMMA NextStep ==
    Inv /\ [Next]_vars => Inv' /\ [Queue!Next]_<<readable(b), taken>>
<1>. SUFFICES ASSUME Inv, [Next]_vars
              PROVE  Inv' /\ [Queue!Next]_<<readable(b), taken>>
  OBVIOUS
<1>0. /\ Ordered(b) /\ capacity(b) <= INT_MAX
      /\ capacity(b) \in Nat /\ writable_size(b) \in Nat
  BY DEF Inv, capacity, writable_size, Ordered, Members
<1>1. ASSUME NEW d \in Inputs, append(d) PROVE Inv' /\ [Queue!Next]_<<readable(b), taken>>
  <2>1. PICK v : v = appended(b, d)
    OBVIOUS
  <2>2. d \in Seq(Byte) /\ Throws(b, Len(d)) \in BOOLEAN
    BY BufferAssumption DEF Throws
  <2>3. /\ Ordered(v) /\ readable(v) = readable(b) \o d
        /\ ~Throws(b, Len(d)) => capacity(v) <= INT_MAX
    BY <1>0, <2>1, <2>2, AppendedKeeps
  <2>4. Becomes(v, Throws(b, Len(d)))
    BY <1>1, <2>1 DEF append
  <2>5. Inv' /\ taken' = taken
        /\ (readable(b)' = readable(b) \/ readable(b)' = readable(v))
    BY <2>2, <2>3, <2>4, BecomesStep
  <2>. QED BY <2>3, <2>5 DEF Queue!Next, Queue!Put
<1>2. ASSUME NEW d \in Inputs, read(d) PROVE Inv' /\ [Queue!Next]_<<readable(b), taken>>
  <2>. DEFINE full == [b EXCEPT !.write_ptr_ = capacity(b)]
              fails == outside(b, d) # << >> /\ Throws(full, Len(outside(b, d)))
  <2>1. PICK v \in {afterRead(b, d), afterReadFromSocket(b, d)} : Becomes(v, fails)
    BY <1>2 DEF read
  <2>2. d \in Seq(Byte) /\ fails \in BOOLEAN
    BY BufferAssumption DEF Throws
  <2>3. ~fails => /\ Ordered(v) /\ capacity(v) <= INT_MAX
                  /\ readable(v) = readable(b) \o d
    BY <1>0, <2>1, <2>2, ReadKeeps
  <2>. HIDE DEF fails
  <2>4. Inv' /\ taken' = taken
        /\ (readable(b)' = readable(b) \/ (~fails /\ readable(b)' = readable(v)))
    BY <2>1, <2>2, <2>3, BecomesStep
  <2>. QED BY <2>3, <2>4 DEF Queue!Next, Queue!Put
<1>3. ASSUME NEW d \in Inputs, expand(Len(d)) PROVE Inv' /\ [Queue!Next]_<<readable(b), taken>>
  <2>1. PICK v : v = expanded(b, Len(d))
    OBVIOUS
  <2>2. Len(d) \in Nat /\ Throws(b, Len(d)) \in BOOLEAN
    BY BufferAssumption DEF Throws
  <2>3. /\ Ordered(v) /\ readable(v) = readable(b)
        /\ ~Throws(b, Len(d)) => capacity(v) <= INT_MAX
    BY <1>0, <2>1, <2>2, ExpandedKeeps
  <2>4. Becomes(v, Throws(b, Len(d)))
    BY <1>3, <2>1 DEF expand
  <2>5. Inv' /\ taken' = taken
        /\ (readable(b)' = readable(b) \/ readable(b)' = readable(v))
    BY <2>2, <2>3, <2>4, BecomesStep
  <2>. QED BY <2>3, <2>5
<1>4. ASSUME NEW n \in 1 .. readable_size(b), retrieve(n)
      PROVE  Inv' /\ [Queue!Next]_<<readable(b), taken>>
  <2>1. PICK s \in Seq(Byte), m \in Nat, k \in Nat :
           /\ b = [buffer_ |-> s, read_ptr_ |-> m, write_ptr_ |-> k]
           /\ m <= k /\ k <= Len(s)
    BY <1>0 DEF Ordered, Members
  <2>2. n \in Nat /\ n <= k - m
    BY <2>1 DEF readable_size
  <2>3. PICK h \in Nat, l \in Nat : h = m + n /\ k = h + l
    <3>1. m + n \in Nat /\ k - (m + n) \in Nat /\ k = (m + n) + (k - (m + n))
      BY <2>1, <2>2
    <3>. QED BY <3>1
  <2>4. b' = [buffer_ |-> s, read_ptr_ |-> h, write_ptr_ |-> k]
    BY <1>4, <2>1, <2>3 DEF retrieve
  <2>5. taken' = Slice(s, m, h) /\ thrown' = thrown
    BY <1>4, <2>1, <2>3 DEF retrieve, Slice
  <2>6. h <= k /\ h <= Len(s) /\ m <= h
    BY <2>1, <2>2, <2>3
  <2>7. Ordered(b') /\ capacity(b') = Len(s) /\ readable(b') = Slice(s, h, k)
    BY <2>1, <2>4, <2>6, MakesOrdered
  <2>8. capacity(b) = Len(s) /\ readable(b) = Slice(s, m, k)
    BY <2>1, MakesOrdered
  <2>9. Slice(s, m, h) \in Seq(Byte)
    BY <2>6, SliceType
  <2>10. Inv'
    BY <1>0, <2>5, <2>7, <2>8, <2>9 DEF Inv
  <2>11. /\ taken' = SubSeq(readable(b), 1, n)
         /\ readable(b)' = SubSeq(readable(b), n + 1, Len(readable(b)))
    <3>1. Behind(m, n, h) /\ Behind(h, l, k) /\ k <= Len(s)
      BY <2>1, <2>3 DEF Behind
    <3>2. /\ Slice(s, m, h) = SubSeq(Slice(s, m, k), 1, n)
          /\ Slice(s, h, k)
                = SubSeq(Slice(s, m, k), n + 1, Len(Slice(s, m, k)))
      BY <2>2, <3>1, SliceSplit
    <3>. QED BY <2>5, <2>7, <2>8, <3>2, Zenon
  <2>12. n \in 1 .. Len(readable(b))
    BY <1>0, <2>1, ReadableType DEF readable_size
  <2>. QED BY <2>10, <2>11, <2>12 DEF Queue!Next, Queue!Take
<1>5. ASSUME reset PROVE Inv' /\ [Queue!Next]_<<readable(b), taken>>
  <2>1. PICK v : v = [b EXCEPT !.read_ptr_ = 0, !.write_ptr_ = 0]
    OBVIOUS
  <2>2. PICK s \in Seq(Byte) : s = b.buffer_
    BY <1>0 DEF Ordered, Members
  <2>3. v = [buffer_ |-> s, read_ptr_ |-> 0, write_ptr_ |-> 0]
    BY <1>0, <2>1, <2>2 DEF Ordered, Members
  <2>4. Ordered(v) /\ readable(v) = << >> /\ capacity(v) = capacity(b)
    BY <2>2, <2>3, EmptyBuffer DEF capacity
  <2>5. Becomes(v, FALSE)
    BY <1>5, <2>1 DEF reset
  <2>6. Inv' /\ taken' = taken
        /\ (readable(b)' = readable(b) \/ readable(b)' = readable(v))
    BY <1>0, <2>4, <2>5, BecomesStep
  <2>. QED BY <2>4, <2>6 DEF Queue!Next, Queue!Empty
<1>6. ASSUME clear PROVE Inv' /\ [Queue!Next]_<<readable(b), taken>>
  <2>1. PICK v : v = [buffer_ |-> Zeros(INITIAL_CAPACITY),
                      read_ptr_ |-> 0, write_ptr_ |-> 0]
    OBVIOUS
  <2>2. PICK s \in Seq(Byte) : s = Zeros(INITIAL_CAPACITY) /\ Len(s) <= INT_MAX
    BY ZerosType, BufferAssumption
  <2>3. Ordered(v) /\ readable(v) = << >> /\ capacity(v) <= INT_MAX
    BY <2>1, <2>2, EmptyBuffer
  <2>4. Becomes(v, FALSE)
    BY <1>6, <2>1 DEF clear
  <2>5. Inv' /\ taken' = taken
        /\ (readable(b)' = readable(b) \/ readable(b)' = readable(v))
    BY <2>3, <2>4, BecomesStep
  <2>. QED BY <2>3, <2>5 DEF Queue!Next, Queue!Empty
<1>7. ASSUME compact PROVE Inv' /\ [Queue!Next]_<<readable(b), taken>>
  <2>1. PICK v : v = compacted(b)
    OBVIOUS
  <2>2. Ordered(v) /\ readable(v) = readable(b) /\ capacity(v) <= INT_MAX
    BY <1>0, <2>1, CompactedKeeps
  <2>3. Becomes(v, FALSE)
    BY <1>7, <2>1 DEF compact
  <2>4. Inv' /\ taken' = taken
        /\ (readable(b)' = readable(b) \/ readable(b)' = readable(v))
    BY <2>2, <2>3, BecomesStep
  <2>. QED BY <2>2, <2>4
<1>8. ASSUME UNCHANGED vars PROVE Inv' /\ [Queue!Next]_<<readable(b), taken>>
  <2>1. b' = b /\ taken' = taken /\ thrown' = thrown
    BY <1>8 DEF vars
  <2>. QED BY <2>1 DEF Inv, readable, capacity, Ordered
<1>. QED BY <1>1, <1>2, <1>3, <1>4, <1>5, <1>6, <1>7, <1>8 DEF Next

\* The invariant says what TypeOK says.
LEMMA InvTypeOK == Inv => TypeOK
BY DEF Inv, TypeOK, Ordered, Members, capacity

\* The positions stay in order and within the vector, and the vector within an
\* int, whatever is appended, read, taken and moved (buffer.cpp).
THEOREM PositionsInOrder == Spec => []TypeOK
<1>1. Init => Inv
  BY InitStep
<1>2. Inv /\ [Next]_vars => Inv'
  BY NextStep
<1>. QED BY <1>1, <1>2, InvTypeOK, PTL DEF Spec

\* Bytes come out as they went in, for every capacity, scratch size and input
\* (buffer.h:10-14).
THEOREM BytesInOrder == Spec => ImplementsByteQueue
<1>1. Init => Inv /\ Queue!Init
  BY InitStep
<1>2. Inv /\ [Next]_vars => Inv' /\ [Queue!Next]_<<readable(b), taken>>
  BY NextStep
<1>. QED BY <1>1, <1>2, PTL DEF Spec, ImplementsByteQueue, Queue!Spec
=============================================================================
