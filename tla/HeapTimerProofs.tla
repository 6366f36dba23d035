-------------------------- MODULE HeapTimerProofs --------------------------
(* Theorems about HeapTimer and about Server, whose workers the timer has *)
(* to outlive, for every value of their constants.                        *)
EXTENDS HeapTimer, FiniteSetTheorems, WellFoundedInduction, TLAPS

-----------------------------------------------------------------------------
(* Loops.  A loop is a recursive function of the number of its turns; that  *)
(* it computes anything at all, and what, is proved by induction over that  *)
(* number.                                                                  *)

LEMMA Least ==
    ASSUME NEW T, T \subseteq Nat, T # {}
    PROVE  \E m \in T : \A n \in T : m <= n
<1>1. PICK m \in T : \A n \in T : ~ (<<n, m>> \in OpToRel(<, Nat))
  BY NatLessThanWellFounded, WFMin
<1>2. ASSUME NEW n \in T PROVE m <= n
  <2>1. ~ (<<n, m>> \in OpToRel(<, Nat))
    BY <1>1
  <2>2. ~ (n < m)
    BY <2>1 DEF OpToRel
  <2>. QED BY <2>2
<1>. QED BY <1>2

LEMMA Induct ==
    ASSUME NEW N \in Nat, NEW S, 0 \in S,
           \A n \in 0 .. N - 1 : n \in S => n + 1 \in S
    PROVE  \A n \in 0 .. N : n \in S
<1>. DEFINE Bad == {n \in 0 .. N : n \notin S}
<1>. SUFFICES ASSUME Bad # {} PROVE FALSE
  OBVIOUS
<1>1. PICK m \in Bad : \A n \in Bad : m <= n
  <2>1. Bad \subseteq Nat
    OBVIOUS
  <2>. HIDE DEF Bad
  <2>. QED BY <2>1, Least
<1>2. m # 0 /\ m \in 0 .. N
  OBVIOUS
<1>3. m - 1 \notin Bad /\ m - 1 \in 0 .. N - 1
  BY <1>1, <1>2
<1>4. m - 1 \in S
  BY <1>3
<1>5. m - 1 + 1 \in S
  BY <1>3, <1>4
<1>. QED BY <1>2, <1>5

\* g is N turns of a loop from a, F being a turn.
Run(g, D, F, a, N) ==
    /\ g \in [0 .. N -> D] /\ g[0] = a
    /\ \A n \in 1 .. N : g[n] = F[g[n - 1]]

LEMMA Runs ==
    ASSUME NEW D, NEW F \in [D -> D], NEW a \in D, NEW N \in Nat
    PROVE  \E g : Run(g, D, F, a, N)
<1>. DEFINE S == {k \in 0 .. N : \E g : Run(g, D, F, a, k)}
<1>1. 0 \in S
  <2>. DEFINE h == [n \in 0 .. 0 |-> a]
  <2>1. h \in [0 .. 0 -> D] /\ h[0] = a /\ 1 .. 0 = {}
    OBVIOUS
  <2>2. Run(h, D, F, a, 0)
    <3>. HIDE DEF h
    <3>. QED BY <2>1 DEF Run
  <2>. QED BY <2>2
<1>2. ASSUME NEW k \in 0 .. N - 1, k \in S PROVE k + 1 \in S
  <2>1. PICK g : Run(g, D, F, a, k)
    BY <1>2
  <2>. DEFINE h == [n \in 0 .. k + 1 |-> IF n <= k THEN g[n] ELSE F[g[k]]]
  <2>2. h \in [0 .. k + 1 -> D]
    BY <2>1 DEF Run
  <2>3. h[0] = a
    BY <2>1 DEF Run
  <2>4. ASSUME NEW n \in 1 .. k + 1 PROVE h[n] = F[h[n - 1]]
    BY <2>1 DEF Run
  <2>5. Run(h, D, F, a, k + 1)
    BY <2>2, <2>3, <2>4 DEF Run
  <2>. QED BY <2>5
<1>3. \A k \in 0 .. N : k \in S
  <2>. HIDE DEF S
  <2>. QED BY <1>1, <1>2, Induct
<1>4. N \in S
  BY <1>3
<1>. QED BY <1>4

\* The turns bring the loop nearer to its end, by some measure, or change nothing
\* any more; from a there are no more than N of them.
Ends(D, F, a, N) ==
    \E left \in [D -> Nat] :
        left[a] <= N /\ \A x \in D : F[x] = x \/ left[F[x]] < left[x]

\* Then it has come to its end after N turns.
LEMMA Loop ==
    ASSUME NEW D, NEW F \in [D -> D], NEW a \in D, NEW N \in Nat, Ends(D, F, a, N)
    PROVE  \E g : Run(g, D, F, a, N) /\ g[N] \in D /\ F[g[N]] = g[N]
<1>1. PICK g : Run(g, D, F, a, N)
  BY Runs
<1>2. PICK left \in [D -> Nat] :
          left[a] <= N /\ \A x \in D : F[x] = x \/ left[F[x]] < left[x]
  BY DEF Ends
<1>3. g \in [0 .. N -> D] /\ g[0] = a /\ \A n \in 1 .. N : g[n] = F[g[n - 1]]
  BY <1>1 DEF Run
<1>. DEFINE S == {n \in 0 .. N : F[g[n]] = g[n] \/ left[g[n]] + n <= N}
<1>4. 0 \in S
  BY <1>3, <1>2
<1>5. ASSUME NEW n \in 0 .. N - 1, n \in S PROVE n + 1 \in S
  <2>1. g[n + 1] = F[g[n]] /\ g[n] \in D /\ g[n + 1] \in D
    BY <1>3
  <2>2. CASE F[g[n]] = g[n]
    BY <2>1, <2>2
  <2>3. CASE F[g[n]] # g[n]
    <3>1. left[g[n + 1]] < left[g[n]] /\ left[g[n]] + n <= N
      BY <1>5, <1>2, <2>1, <2>3
    <3>2. left[g[n + 1]] \in Nat /\ left[g[n]] \in Nat
      BY <2>1
    <3>. QED BY <3>1, <3>2
  <2>. QED BY <2>2, <2>3
<1>6. N \in S
  <2>. HIDE DEF S
  <2>1. \A n \in 0 .. N : n \in S
    BY <1>4, <1>5, Induct
  <2>. QED BY <2>1
<1>7. F[g[N]] = g[N]
  <2>1. g[N] \in D /\ F[g[N]] \in D
    BY <1>3
  <2>2. left[g[N]] \in Nat /\ left[F[g[N]]] \in Nat
    BY <2>1
  <2>3. F[g[N]] = g[N] \/ left[g[N]] = 0
    BY <1>6, <2>2
  <2>. QED BY <1>2, <2>1, <2>2, <2>3
<1>. QED BY <1>1, <1>3, <1>7

\* Two runs of the same loop are the same.
LEMMA SameRun ==
    ASSUME NEW N \in Nat, NEW f, NEW g, f[0] = g[0],
           \A n \in 1 .. N : f[n - 1] = g[n - 1] => f[n] = g[n]
    PROVE  f[N] = g[N]
<1>. DEFINE S == {n \in 0 .. N : f[n] = g[n]}
<1>1. 0 \in S
  OBVIOUS
<1>2. ASSUME NEW n \in 0 .. N - 1, n \in S PROVE n + 1 \in S
  <2>1. n + 1 \in 1 .. N /\ n + 1 - 1 = n
    OBVIOUS
  <2>. QED BY <1>2, <2>1
<1>3. \A n \in 0 .. N : n \in S
  <2>. HIDE DEF S
  <2>. QED BY <1>1, <1>2, Induct
<1>. QED BY <1>3
-----------------------------------------------------------------------------
(* The object: what its members are, and what a swap of two nodes keeps.   *)

Node == [expire : Nat, fd : Fds]
Maps == UNION {[S -> Nat] : S \in SUBSET Fds}
Members == [heap : Seq(Node), map : Maps, cbs : SUBSET Fds, ran : SUBSET Fds]

\* What MapExact says of the variables.
Indexed(s) ==
    /\ \A i \in DOMAIN s.heap :
          s.heap[i].fd \in DOMAIN s.map /\ s.map[s.heap[i].fd] = i
    /\ \A fd \in DOMAIN s.map :
          s.map[fd] \in DOMAIN s.heap /\ s.heap[s.map[fd]].fd = fd
    /\ s.cbs = DOMAIN s.map

Objects == {s \in Members : Indexed(s)}

\* The deadline of fd.
Deadline(s, fd) == s.heap[s.map[fd]].expire

\* t has the same timers as s, possibly at other places.
Moved(s, t) ==
    /\ DOMAIN t.map = DOMAIN s.map
    /\ \A fd \in DOMAIN s.map : Deadline(t, fd) = Deadline(s, fd)
    /\ Len(t.heap) = Len(s.heap) /\ t.cbs = s.cbs /\ t.ran = s.ran

LEMMA MapType ==
    ASSUME NEW m
    PROVE  m \in Maps <=> /\ m = [fd \in DOMAIN m |-> m[fd]]
                          /\ DOMAIN m \subseteq Fds
                          /\ \A fd \in DOMAIN m : m[fd] \in Nat
<1>1. ASSUME m \in Maps
      PROVE  /\ m = [fd \in DOMAIN m |-> m[fd]]
             /\ DOMAIN m \subseteq Fds
             /\ \A fd \in DOMAIN m : m[fd] \in Nat
  <2>1. PICK S \in SUBSET Fds : m \in [S -> Nat]
    BY <1>1 DEF Maps
  <2>. QED BY <2>1
<1>2. ASSUME m = [fd \in DOMAIN m |-> m[fd]], DOMAIN m \subseteq Fds,
             \A fd \in DOMAIN m : m[fd] \in Nat
      PROVE  m \in Maps
  <2>1. m \in [DOMAIN m -> Nat]
    BY <1>2
  <2>. QED BY <1>2, <2>1 DEF Maps
<1>. QED BY <1>1, <1>2

LEMMA ObjectFacts ==
    ASSUME NEW s \in Objects
    PROVE  /\ s \in Members /\ Indexed(s)
           /\ s = [heap |-> s.heap, map |-> s.map, cbs |-> s.cbs, ran |-> s.ran]
           /\ s.heap \in Seq(Node) /\ s.map \in Maps
           /\ s.cbs \subseteq Fds /\ s.ran \subseteq Fds
           /\ Len(s.heap) \in Nat /\ DOMAIN s.heap = 1 .. Len(s.heap)
           /\ \A i \in 1 .. Len(s.heap) : s.heap[i].expire \in Nat /\ s.heap[i].fd \in Fds
<1>1. s \in Members /\ Indexed(s)
  BY DEF Objects
<1>2. /\ s = [heap |-> s.heap, map |-> s.map, cbs |-> s.cbs, ran |-> s.ran]
      /\ s.heap \in Seq(Node) /\ s.map \in Maps
      /\ s.cbs \subseteq Fds /\ s.ran \subseteq Fds
  BY <1>1 DEF Members
<1>3. /\ Len(s.heap) \in Nat /\ DOMAIN s.heap = 1 .. Len(s.heap)
      /\ \A i \in 1 .. Len(s.heap) : s.heap[i] \in Node
  BY <1>2
<1>. QED BY <1>1, <1>2, <1>3 DEF Node

LEMMA Swap ==
    ASSUME NEW s \in Objects, NEW x \in 1 .. Len(s.heap), NEW y \in 1 .. Len(s.heap), x # y,
           NEW t, t = swap_node_(s, x, y)
    PROVE  /\ t \in Objects /\ Moved(s, t)
           /\ t.heap[x] = s.heap[y] /\ t.heap[y] = s.heap[x]
           /\ \A j \in 1 .. Len(s.heap) : j # x /\ j # y => t.heap[j] = s.heap[j]
<1>1. PICK h \in Seq(Node), m \in Maps : h = s.heap /\ m = s.map
  BY ObjectFacts
<1>. DEFINE fx == h[x].fd
            fy == h[y].fd
            k == [h EXCEPT ![x] = h[y], ![y] = h[x]]
            n == [m EXCEPT ![fy] = x, ![fx] = y]
<1>2. t = [heap |-> k, map |-> n, cbs |-> s.cbs, ran |-> s.ran]
  <2>1. t = [s EXCEPT !.heap = k, !.map = n]
    BY <1>1 DEF swap_node_
  <2>2. s = [heap |-> s.heap, map |-> s.map, cbs |-> s.cbs, ran |-> s.ran]
    BY ObjectFacts
  <2>. HIDE DEF k, n
  <2>. QED BY <2>1, <2>2
<1>3. /\ Len(h) \in Nat /\ DOMAIN h = 1 .. Len(h) /\ x \in 1 .. Len(h) /\ y \in 1 .. Len(h)
      /\ \A i \in 1 .. Len(h) : h[i] \in Node
  BY <1>1
<1>4. /\ k \in Seq(Node) /\ Len(k) = Len(h) /\ DOMAIN k = 1 .. Len(h)
      /\ \A j \in 1 .. Len(h) : k[j] = IF j = y THEN h[x] ELSE IF j = x THEN h[y] ELSE h[j]
  BY <1>3
<1>5. /\ \A i \in 1 .. Len(h) : h[i].fd \in DOMAIN m /\ m[h[i].fd] = i
      /\ \A fd \in DOMAIN m : m[fd] \in 1 .. Len(h) /\ h[m[fd]].fd = fd
      /\ s.cbs = DOMAIN m
  BY <1>1, <1>3, ObjectFacts DEF Indexed
<1>6. /\ fx \in DOMAIN m /\ fy \in DOMAIN m /\ fx # fy /\ m[fx] = x /\ m[fy] = y
  BY <1>3, <1>5
<1>7. /\ m = [fd \in DOMAIN m |-> m[fd]] /\ DOMAIN m \subseteq Fds
      /\ \A fd \in DOMAIN m : m[fd] \in Nat
  BY MapType
<1>8. /\ DOMAIN n = DOMAIN m /\ n = [fd \in DOMAIN n |-> n[fd]]
      /\ \A fd \in DOMAIN m : n[fd] = IF fd = fx THEN y ELSE IF fd = fy THEN x ELSE m[fd]
  BY <1>6, <1>7
<1>. HIDE DEF k, n, fx, fy
<1>9. n \in Maps
  <2>1. \A fd \in DOMAIN n : n[fd] \in Nat
    BY <1>3, <1>7, <1>8
  <2>. QED BY <1>7, <1>8, <2>1, MapType
<1>10. \A j \in 1 .. Len(h) : k[j].fd \in DOMAIN m /\ n[k[j].fd] = j
  <2>. SUFFICES ASSUME NEW j \in 1 .. Len(h) PROVE k[j].fd \in DOMAIN m /\ n[k[j].fd] = j
    OBVIOUS
  <2>1. CASE j = y
    BY <1>4, <1>6, <1>8, <2>1 DEF fx
  <2>2. CASE j = x /\ j # y
    BY <1>4, <1>6, <1>8, <2>2 DEF fy
  <2>3. CASE j # x /\ j # y
    <3>1. h[j].fd \in DOMAIN m /\ m[h[j].fd] = j
      BY <1>5
    <3>2. h[j].fd # fx /\ h[j].fd # fy
      BY <1>6, <2>3, <3>1
    <3>. QED BY <1>4, <1>8, <2>3, <3>1, <3>2
  <2>. QED BY <2>1, <2>2, <2>3
<1>11. \A fd \in DOMAIN m : n[fd] \in 1 .. Len(h) /\ k[n[fd]] = h[m[fd]]
  <2>. SUFFICES ASSUME NEW fd \in DOMAIN m
                PROVE  n[fd] \in 1 .. Len(h) /\ k[n[fd]] = h[m[fd]]
    OBVIOUS
  <2>1. CASE fd = fx
    BY <1>3, <1>4, <1>6, <1>8, <2>1
  <2>2. CASE fd = fy
    BY <1>3, <1>4, <1>6, <1>8, <2>2
  <2>3. CASE fd # fx /\ fd # fy
    <3>1. n[fd] = m[fd] /\ m[fd] \in 1 .. Len(h) /\ m[fd] # x /\ m[fd] # y
      BY <1>5, <1>8, <2>3 DEF fx, fy
    <3>. QED BY <1>4, <3>1
  <2>. QED BY <2>1, <2>2, <2>3
<1>12. t \in Members
  BY <1>2, <1>4, <1>9, ObjectFacts DEF Members
<1>13. Indexed(t)
  <2>1. t.heap = k /\ t.map = n /\ t.cbs = s.cbs
    BY <1>2
  <2>2. ASSUME NEW fd \in DOMAIN n PROVE n[fd] \in DOMAIN k /\ k[n[fd]].fd = fd
    BY <1>4, <1>5, <1>8, <1>11
  <2>. QED BY <1>4, <1>5, <1>8, <1>10, <2>1, <2>2 DEF Indexed
<1>14. Moved(s, t)
  <2>1. t.heap = k /\ t.map = n /\ t.cbs = s.cbs /\ t.ran = s.ran
    BY <1>2
  <2>. QED BY <1>1, <1>4, <1>8, <1>11, <2>1 DEF Moved, Deadline
<1>15. t.heap = k
  BY <1>2
<1>. QED BY <1>1, <1>3, <1>4, <1>12, <1>13, <1>14, <1>15 DEF Objects

LEMMA MovedTrans ==
    ASSUME NEW r, NEW s, NEW t, Moved(r, s), Moved(s, t)
    PROVE  Moved(r, t)
BY DEF Moved

LEMMA MovedSelf == ASSUME NEW s PROVE Moved(s, s)
BY DEF Moved

-----------------------------------------------------------------------------
(* The order of the heap, of which only the keys matter.                   *)

\* The father of a node of the heap.
LEMMA Father ==
    ASSUME NEW j \in Nat, j >= 2
    PROVE  /\ j \div 2 \in Nat /\ 1 <= j \div 2 /\ j \div 2 < j
           /\ j = 2 * (j \div 2) \/ j = 2 * (j \div 2) + 1
OBVIOUS

\* shift_up_, started at i, has come to c.
Lifting(e, L, i, c) ==
    /\ \A j \in 2 .. L : j # c /\ j \div 2 # c => e[j \div 2] <= e[j]
    /\ c > 1 => \A j \in 2 .. L : j \div 2 = c => e[c \div 2] <= e[j]
    /\ c = i \/ \A j \in 2 .. L : j \div 2 = c => e[c] <= e[j]

\* shift_down_ has come to c.
Sinking(e, L, c) ==
    /\ \A j \in 2 .. L : j \div 2 # c => e[j \div 2] <= e[j]
    /\ c > 1 => \A j \in 2 .. L : j \div 2 = c => e[c \div 2] <= e[j]

Sorted(e, L) == \A j \in 2 .. L : e[j \div 2] <= e[j]

\* Of the L keys, g has that of node y, the smaller one, swapped with that of x.
Swapped(e, g, L, x, y) ==
    /\ e \in [1 .. L -> Nat] /\ g \in [1 .. L -> Nat]
    /\ e[y] < e[x] /\ g[x] = e[y] /\ g[y] = e[x]
    /\ \A j \in 1 .. L : j # x /\ j # y => g[j] = e[j]

\* No child of node c is smaller; no sibling of node m is; its father is not larger.
AboveChildren(e, L, c) == \A j \in 2 .. L : j \div 2 = c => e[c] <= e[j]
SmallestChild(e, L, m) == \A j \in 2 .. L : j \div 2 = m \div 2 => e[m] <= e[j]
BelowFather(e, c)      == c = 1 \/ e[c \div 2] <= e[c]

LEMMA LiftKeys ==
    ASSUME NEW L \in Nat, NEW e, NEW g, NEW c \in 2 .. L, NEW f \in Nat, f = c \div 2,
           Swapped(e, g, L, f, c),
           NEW i \in 1 .. L, Lifting(e, L, i, c)
    PROVE  Lifting(g, L, i, f)
<1>0. /\ f \in 1 .. L /\ f < c
      /\ e \in [1 .. L -> Nat] /\ g \in [1 .. L -> Nat]
      /\ e[c] < e[f] /\ g[f] = e[c] /\ g[c] = e[f]
  BY Father DEF Swapped
<1>1. ASSUME NEW j \in 1 .. L, j # c, j # f PROVE g[j] = e[j]
  BY <1>1 DEF Swapped
<1>2. ASSUME NEW j \in 2 .. L, j # c, j \div 2 # c PROVE e[j \div 2] <= e[j]
  BY <1>2 DEF Lifting
<1>3. ASSUME NEW j \in 2 .. L PROVE j \div 2 \in 1 .. L /\ j \div 2 < j
  BY Father
<1>4. ASSUME NEW j \in 2 .. L, j # f, j \div 2 # f PROVE g[j \div 2] <= g[j]
  <2>1. j # c /\ g[j] = e[j]
    BY <1>1, <1>4
  <2>2. CASE j \div 2 = c
    <3>1. e[f] <= e[j]
      BY <2>2 DEF Lifting
    <3>. QED BY <1>0, <2>1, <2>2, <3>1
  <2>3. CASE j \div 2 # c
    <3>1. g[j \div 2] = e[j \div 2]
      BY <1>1, <1>3, <1>4, <2>3
    <3>. QED BY <1>2, <2>1, <2>3, <3>1
  <2>. QED BY <2>2, <2>3
<1>5. ASSUME NEW j \in 2 .. L, j \div 2 = f, j # c PROVE e[f] <= e[j] /\ g[j] = e[j]
  <2>1. f # c /\ j # f
    BY <1>0, <1>3, <1>5
  <2>2. g[j] = e[j]
    BY <1>1, <1>5, <2>1
  <2>3. e[j \div 2] <= e[j]
    BY <1>2, <1>5, <2>1
  <2>. QED BY <1>5, <2>2, <2>3
<1>6. ASSUME f > 1, NEW j \in 2 .. L, j \div 2 = f PROVE g[f \div 2] <= g[j]
  <2>1. f \in 2 .. L
    BY <1>0, <1>6
  <2>2. f \div 2 \in 1 .. L /\ f \div 2 # f /\ f # c /\ f \div 2 # c
    BY <1>0, <1>3, <2>1
  <2>3. e[f \div 2] <= e[f] /\ g[f \div 2] = e[f \div 2]
    BY <1>1, <1>2, <2>1, <2>2
  <2>4. CASE j = c
    BY <1>0, <2>3, <2>4
  <2>5. CASE j # c
    <3>1. e[f] <= e[j] /\ g[j] = e[j]
      BY <1>5, <1>6, <2>5
    <3>. QED BY <1>0, <2>2, <2>3, <3>1
  <2>. QED BY <2>4, <2>5
<1>7. ASSUME NEW j \in 2 .. L, j \div 2 = f PROVE g[f] <= g[j]
  <2>1. CASE j = c
    BY <1>0, <2>1
  <2>2. CASE j # c
    <3>1. e[f] <= e[j] /\ g[j] = e[j]
      BY <1>5, <1>7, <2>2
    <3>. QED BY <1>0, <3>1
  <2>. QED BY <2>1, <2>2
<1>. QED BY <1>4, <1>6, <1>7 DEF Lifting

\* Where shift_up_ ends, shift_down_ can start, where shift_up_ did.
LEMMA LiftedKeys ==
    ASSUME NEW L \in Nat, NEW e \in [1 .. L -> Nat],
           NEW i \in 1 .. L, NEW c \in 1 .. L, Lifting(e, L, i, c),
           BelowFather(e, c)
    PROVE  Sinking(e, L, i) /\ (c = i \/ Sorted(e, L))
<1>. USE DEF BelowFather
<1>1. CASE c = i
  <2>1. ASSUME NEW j \in 2 .. L, j \div 2 # i PROVE e[j \div 2] <= e[j]
    <3>1. CASE j = c
      BY <3>1, Father
    <3>2. CASE j # c
      BY <1>1, <2>1, <3>2 DEF Lifting
    <3>. QED BY <3>1, <3>2
  <2>. QED BY <1>1, <2>1 DEF Lifting, Sinking
<1>2. CASE c # i
  <2>1. ASSUME NEW j \in 2 .. L PROVE e[j \div 2] <= e[j]
    <3>1. CASE j = c
      BY <3>1, Father
    <3>2. CASE j # c
      BY <1>2, <2>1, <3>2 DEF Lifting
    <3>. QED BY <3>1, <3>2
  <2>2. ASSUME i > 1, NEW j \in 2 .. L, j \div 2 = i PROVE e[i \div 2] <= e[j]
    <3>1. i \div 2 \in 1 .. L /\ i \in 2 .. L
      BY <2>2, Father
    <3>2. e[i \div 2] <= e[i] /\ e[i] <= e[j]
      BY <2>1, <2>2, <3>1
    <3>. QED BY <3>1, <3>2
  <2>. QED BY <2>1, <2>2 DEF Sinking, Sorted
<1>. QED BY <1>1, <1>2

LEMMA SinkKeys ==
    ASSUME NEW L \in Nat, NEW e, NEW g, NEW c \in 1 .. L, NEW m \in 2 .. L, m \div 2 = c,
           Swapped(e, g, L, c, m), Sinking(e, L, c), SmallestChild(e, L, m)
    PROVE  Sinking(g, L, m)
<1>. USE DEF Swapped, SmallestChild
<1>0. c < m
  BY Father
<1>1. ASSUME NEW j \in 2 .. L, j \div 2 # m PROVE g[j \div 2] <= g[j]
  <2>1. j \div 2 \in 1 .. L /\ j \div 2 < j
    BY Father
  <2>2. CASE j = c
    <3>1. e[c \div 2] <= e[m]
      BY <2>2 DEF Sinking
    <3>2. j \div 2 # c
      BY <2>1, <2>2
    <3>3. g[j \div 2] = e[c \div 2]
      BY <1>1, <2>1, <2>2, <3>2
    <3>. QED BY <2>2, <3>1, <3>3
  <2>3. CASE j = m
    <3>1. j \div 2 = c /\ e[m] <= e[c]
      BY <2>3
    <3>. QED BY <2>3, <3>1
  <2>4. CASE j # c /\ j # m /\ j \div 2 = c
    <3>1. g[j \div 2] = e[m] /\ g[j] = e[j] /\ e[m] <= e[j]
      BY <2>4
    <3>. QED BY <3>1
  <2>5. CASE j # c /\ j # m /\ j \div 2 # c
    <3>1. e[j \div 2] <= e[j]
      BY <2>5 DEF Sinking
    <3>2. g[j] = e[j]
      BY <2>5
    <3>3. g[j \div 2] = e[j \div 2]
      BY <1>1, <2>1, <2>5
    <3>. QED BY <3>1, <3>2, <3>3
  <2>. QED BY <2>2, <2>3, <2>4, <2>5
<1>2. ASSUME NEW j \in 2 .. L, j \div 2 = m PROVE g[m \div 2] <= g[j]
  <2>1. m < j
    BY <1>2, Father
  <2>2. e[m] <= e[j]
    BY <1>0, <1>2 DEF Sinking
  <2>. QED BY <1>0, <2>1, <2>2
<1>. QED BY <1>1, <1>2 DEF Sinking

\* Where shift_down_ ends everything is in order.
LEMMA SunkKeys ==
    ASSUME NEW L \in Nat, NEW e \in [1 .. L -> Nat], NEW c \in 1 .. L, Sinking(e, L, c),
           AboveChildren(e, L, c)
    PROVE  Sorted(e, L)
BY DEF Sinking, Sorted, AboveChildren
-----------------------------------------------------------------------------
(* The two loops that restore the order.                                   *)

Keys(s) == [i \in 1 .. Len(s.heap) |-> s.heap[i].expire]

LEMMA KeysType ==
    ASSUME NEW s \in Objects
    PROVE  Keys(s) \in [1 .. Len(s.heap) -> Nat]
BY ObjectFacts DEF Keys

LEMMA LiftTurn ==
    ASSUME NEW s \in Objects, NEW i \in 1 .. Len(s.heap), NEW c \in 1 .. Len(s.heap),
           Lifting(Keys(s), Len(s.heap), i, c),
           NEW q, q = Lifted([s |-> s, at |-> c])
    PROVE  \/ /\ q = [s |-> s, at |-> c]
              /\ BelowFather(Keys(s), c)
           \/ /\ q.s \in Objects /\ q.at \in 1 .. Len(s.heap) /\ q = [s |-> q.s, at |-> q.at]
              /\ q.at < c /\ Moved(s, q.s)
              /\ Lifting(Keys(q.s), Len(s.heap), i, q.at)
<1>0. PICK L \in Nat : L = Len(s.heap) /\ i \in 1 .. L /\ c \in 1 .. L
  BY ObjectFacts
<1>1. CASE c = 1
  BY <1>1 DEF Lifted, BelowFather
<1>2. CASE c # 1
  <2>1. PICK f \in Nat : f = c \div 2 /\ f \in 1 .. L /\ f < c /\ c \in 2 .. L
    BY <1>0, <1>2, Father
  <2>2. Keys(s)[c] = s.heap[c].expire /\ Keys(s)[f] = s.heap[f].expire
    BY <2>1 DEF Keys
  <2>3. CASE s.heap[c].expire >= s.heap[f].expire
    BY <2>1, <2>2, <2>3 DEF Lifted, BelowFather
  <2>4. CASE ~(s.heap[c].expire >= s.heap[f].expire)
    <3>1. PICK t : t = swap_node_(s, c, f)
      OBVIOUS
    <3>2. q = [s |-> t, at |-> f]
      BY <1>2, <2>1, <2>4, <3>1 DEF Lifted
    <3>3. /\ t \in Objects /\ Moved(s, t)
          /\ t.heap[c] = s.heap[f] /\ t.heap[f] = s.heap[c]
          /\ \A j \in 1 .. L : j # c /\ j # f => t.heap[j] = s.heap[j]
      BY <1>0, <2>1, <3>1, Swap
    <3>4. PICK e \in [1 .. L -> Nat], g \in [1 .. L -> Nat] : e = Keys(s) /\ g = Keys(t)
      <4>1. Len(t.heap) = L
        BY <1>0, <3>3 DEF Moved
      <4>. QED BY <1>0, <3>3, <4>1, KeysType
    <3>5. /\ \A j \in 1 .. L : e[j] = s.heap[j].expire /\ g[j] = t.heap[j].expire
      BY <3>3, <3>4 DEF Keys, Moved
    <3>6. Swapped(e, g, L, f, c)
      <4>1. e[c] \in Nat /\ e[f] \in Nat /\ ~(e[c] >= e[f])
        BY <1>0, <2>1, <2>4, <3>5
      <4>2. e[c] < e[f]
        BY <4>1
      <4>3. g[c] = e[f] /\ g[f] = e[c]
        BY <1>0, <2>1, <3>3, <3>5
      <4>4. \A j \in 1 .. L : j # c /\ j # f => g[j] = e[j]
        BY <3>3, <3>5
      <4>. QED BY <4>2, <4>3, <4>4 DEF Swapped
    <3>7. Lifting(g, L, i, f)
      <4>1. Lifting(e, L, i, c)
        BY <1>0, <3>4
      <4>. QED BY <1>0, <2>1, <3>6, <4>1, LiftKeys
    <3>. QED BY <1>0, <2>1, <3>2, <3>3, <3>4, <3>7
  <2>. QED BY <2>3, <2>4
<1>. QED BY <1>1, <1>2

\* shift_up_ moves timers and leaves the heap fit for shift_down_, from the same
\* place; where the node has no children it leaves it in order.
LEMMA Lift ==
    ASSUME NEW s \in Objects, NEW i \in 1 .. Len(s.heap),
           Lifting(Keys(s), Len(s.heap), i, i),
           NEW t, t = ShiftUp(s, i)
    PROVE  /\ t \in Objects /\ Moved(s, t) /\ Sinking(Keys(t), Len(s.heap), i)
           /\ 2 * i > Len(s.heap) => Sorted(Keys(t), Len(s.heap))
<1>0. PICK L \in Nat : L = Len(s.heap) /\ i \in 1 .. L
  BY ObjectFacts
<1>. DEFINE D == {p \in [s : Objects, at : 1 .. L] :
                    Moved(s, p.s) /\ Lifting(Keys(p.s), L, i, p.at)}
            F == [p \in D |-> Lifted(p)]
            left == [p \in D |-> p.at]
            a == [s |-> s, at |-> i]
            up == CHOOSE f : f = [n \in 0 .. i |-> IF n = 0 THEN a ELSE Lifted(f[n - 1])]
<1>1. a \in D
  BY <1>0, MovedSelf
<1>2. ASSUME NEW p \in D
      PROVE  /\ Lifted(p) \in D
             /\ \/ Lifted(p) = p /\ BelowFather(Keys(p.s), p.at)
                \/ Lifted(p).at < p.at
  <2>1. PICK r, c : /\ p = [s |-> r, at |-> c] /\ r \in Objects /\ c \in 1 .. L
                    /\ Moved(s, r) /\ Lifting(Keys(r), L, i, c)
    OBVIOUS
  <2>2. Len(r.heap) = L
    BY <1>0, <2>1 DEF Moved
  <2>3. PICK q : q = Lifted([s |-> r, at |-> c])
    OBVIOUS
  <2>4. \/ q = [s |-> r, at |-> c] /\ BelowFather(Keys(r), c)
        \/ /\ q.s \in Objects /\ q.at \in 1 .. L /\ q = [s |-> q.s, at |-> q.at]
           /\ q.at < c /\ Moved(r, q.s) /\ Lifting(Keys(q.s), L, i, q.at)
    BY <1>0, <2>1, <2>2, <2>3, LiftTurn
  <2>5. CASE q = [s |-> r, at |-> c] /\ BelowFather(Keys(r), c)
    BY <2>1, <2>3, <2>5
  <2>6. CASE /\ q.s \in Objects /\ q.at \in 1 .. L /\ q = [s |-> q.s, at |-> q.at]
             /\ q.at < c /\ Moved(r, q.s) /\ Lifting(Keys(q.s), L, i, q.at)
    <3>1. Moved(s, q.s)
      BY <2>1, <2>6, MovedTrans
    <3>2. q \in D
      BY <2>6, <3>1
    <3>. QED BY <2>1, <2>3, <2>6, <3>2
  <2>. QED BY <2>4, <2>5, <2>6
<1>3. /\ F \in [D -> D] /\ left \in [D -> Nat] /\ left[a] <= i
      /\ \A p \in D : F[p] = p \/ left[F[p]] < left[p]
  <2>1. left \in [D -> Nat] /\ left[a] <= i
    BY <1>0, <1>1
  <2>2. F \in [D -> D]
    BY <1>2
  <2>3. ASSUME NEW p \in D PROVE F[p] = p \/ left[F[p]] < left[p]
    BY <1>2
  <2>. QED BY <2>1, <2>2, <2>3
<1>4. PICK g : Run(g, D, F, a, i) /\ g[i] \in D /\ F[g[i]] = g[i]
  <2>. HIDE DEF D, F, left, a
  <2>1. Ends(D, F, a, i)
    BY <1>3 DEF Ends
  <2>. QED BY <1>0, <1>1, <1>3, <2>1, Loop
<1>5. g = [n \in 0 .. i |-> IF n = 0 THEN a ELSE Lifted(g[n - 1])]
  <2>1. g \in [0 .. i -> D] /\ g[0] = a
    BY <1>4 DEF Run
  <2>2. ASSUME NEW n \in 1 .. i PROVE g[n] = Lifted(g[n - 1])
    <3>1. g[n] = F[g[n - 1]] /\ g[n - 1] \in D
      <4>. HIDE DEF D, F
      <4>1. n - 1 \in 0 .. i
        OBVIOUS
      <4>. QED BY <1>4, <2>1, <4>1 DEF Run
    <3>. QED BY <3>1
  <2>. HIDE DEF D, a
  <2>. QED BY <2>1, <2>2
<1>6. up = [n \in 0 .. i |-> IF n = 0 THEN a ELSE Lifted(up[n - 1])]
  <2>. HIDE DEF a
  <2>. QED BY <1>5
<1>7. up[i] = g[i]
  <2>. HIDE DEF a, up
  <2>1. up[0] = a /\ g[0] = a
    BY <1>0, <1>5, <1>6
  <2>2. ASSUME NEW n \in 1 .. i PROVE up[n] = Lifted(up[n - 1]) /\ g[n] = Lifted(g[n - 1])
    <3>1. n \in 0 .. i /\ n # 0
      OBVIOUS
    <3>. QED BY <1>5, <1>6, <3>1
  <2>3. \A n \in 1 .. i : up[n - 1] = g[n - 1] => up[n] = g[n]
    BY <2>2
  <2>4. i \in Nat /\ up[0] = g[0]
    BY <1>0, <2>1
  <2>. QED BY <2>3, <2>4, SameRun
<1>8. t = g[i].s
  BY <1>7 DEF ShiftUp
<1>9. PICK r, c : /\ g[i] = [s |-> r, at |-> c] /\ r \in Objects /\ c \in 1 .. L
                  /\ Moved(s, r) /\ Lifting(Keys(r), L, i, c) /\ BelowFather(Keys(r), c)
  <2>1. g[i] \in D /\ Lifted(g[i]) = g[i]
    BY <1>4
  <2>2. BelowFather(Keys(g[i].s), g[i].at) /\ g[i].at \in Nat
    BY <1>0, <1>2, <2>1
  <2>. QED BY <2>1, <2>2
<1>10. t = r
  BY <1>8, <1>9
<1>11. PICK e \in [1 .. L -> Nat] : e = Keys(r)
  <2>1. Len(r.heap) = L
    BY <1>0, <1>9 DEF Moved
  <2>. QED BY <1>9, <2>1, KeysType
<1>12. Sinking(e, L, i) /\ (c = i \/ Sorted(e, L))
  BY <1>0, <1>9, <1>11, LiftedKeys
<1>13. ASSUME 2 * i > L PROVE Sorted(e, L)
  <2>1. \A j \in 2 .. L : j \div 2 # i
    BY <1>0, <1>13, Father
  <2>. QED BY <1>12, <2>1 DEF Sinking, Sorted
<1>. QED BY <1>0, <1>9, <1>10, <1>11, <1>12, <1>13

LEMMA SinkTurn ==
    ASSUME NEW s \in Objects, NEW c \in 1 .. Len(s.heap), Sinking(Keys(s), Len(s.heap), c),
           NEW q, q = Sunk([s |-> s, at |-> c])
    PROVE  \/ /\ q = [s |-> s, at |-> c]
              /\ AboveChildren(Keys(s), Len(s.heap), c)
           \/ /\ q.s \in Objects /\ q.at \in 1 .. Len(s.heap) /\ q = [s |-> q.s, at |-> q.at]
              /\ q.at > c /\ Moved(s, q.s)
              /\ Sinking(Keys(q.s), Len(s.heap), q.at)
<1>0. PICK L \in Nat : L = Len(s.heap) /\ c \in 1 .. L
  BY ObjectFacts
<1>1. PICK e \in [1 .. L -> Nat] : e = Keys(s) /\ \A j \in 1 .. L : e[j] = s.heap[j].expire
  BY <1>0, KeysType DEF Keys
<1>3. CASE 2 * c > L
  <2>1. \A j \in 2 .. L : j \div 2 # c
    BY <1>0, <1>3, Father
  <2>2. AboveChildren(e, L, c)
    BY <2>1 DEF AboveChildren
  <2>3. q = [s |-> s, at |-> c]
    BY <1>0, <1>3 DEF Sunk
  <2>. QED BY <1>0, <1>1, <2>2, <2>3
<1>4. CASE ~(2 * c > L)
  <2>0. PICK l \in Nat, r \in Nat : l = 2 * c /\ r = 2 * c + 1
    BY <1>0
  <2>1. /\ l \in 2 .. L /\ l \div 2 = c /\ c < l
        /\ r <= L => r \in 2 .. L /\ r \div 2 = c /\ c < r
        /\ \A j \in 2 .. L : j \div 2 = c => j = l \/ j = r
    <3>1. l \in 2 .. L /\ l \div 2 = c /\ c < l
      BY <1>0, <1>4, <2>0
    <3>2. r <= L => r \in 2 .. L /\ r \div 2 = c /\ c < r
      BY <1>0, <2>0
    <3>3. \A j \in 2 .. L : j \div 2 = c => j = l \/ j = r
      BY <1>0, <2>0, Father
    <3>. QED BY <3>1, <3>2, <3>3
  <2>2. PICK m \in 2 .. L : /\ m = MinChild(s.heap, c) /\ m \div 2 = c /\ c < m
                            /\ SmallestChild(e, L, m)
    <3>1. MinChild(s.heap, c) =
              IF r <= L /\ s.heap[r].expire < s.heap[l].expire THEN r ELSE l
      BY <1>0, <2>0 DEF MinChild
    <3>2. CASE r <= L /\ s.heap[r].expire < s.heap[l].expire
      <4>1. e[l] = s.heap[l].expire /\ e[r] = s.heap[r].expire
        BY <1>1, <2>1, <3>2
      <4>2. e[r] < e[l]
        BY <3>2, <4>1
      <4>3. r \in 1 .. L /\ l \in 1 .. L
        BY <2>1, <3>2
      <4>4. e[r] <= e[l]
        BY <4>2, <4>3
      <4>5. ASSUME NEW j \in 2 .. L, j \div 2 = r \div 2 PROVE e[r] <= e[j]
        <5>1. CASE j = r
          BY <4>3, <5>1
        <5>2. CASE j = l
          BY <4>4, <5>2
        <5>. QED BY <2>1, <3>2, <4>5, <5>1, <5>2
      <4>6. SmallestChild(e, L, r)
        BY <4>5 DEF SmallestChild
      <4>. QED BY <2>1, <3>1, <3>2, <4>6
    <3>3. CASE ~(r <= L /\ s.heap[r].expire < s.heap[l].expire)
      <4>1. l \in 1 .. L
        BY <2>1
      <4>2. ASSUME r <= L PROVE e[l] <= e[r]
        <5>1. r \in 1 .. L
          BY <2>1, <4>2
        <5>2. e[l] = s.heap[l].expire /\ e[r] = s.heap[r].expire
          BY <1>1, <4>1, <5>1
        <5>3. ~(e[r] < e[l])
          BY <3>3, <4>2, <5>2
        <5>. QED BY <4>1, <5>1, <5>3
      <4>3. ASSUME NEW j \in 2 .. L, j \div 2 = l \div 2 PROVE e[l] <= e[j]
        <5>1. CASE j = l
          BY <4>1, <5>1
        <5>2. CASE j = r
          BY <4>2, <5>2
        <5>. QED BY <2>1, <4>3, <5>1, <5>2
      <4>4. SmallestChild(e, L, l)
        BY <4>3 DEF SmallestChild
      <4>. QED BY <2>1, <3>1, <3>3, <4>4
    <3>. QED BY <3>2, <3>3
  <2>3. e[c] = s.heap[c].expire /\ e[m] = s.heap[m].expire /\ e[c] \in Nat /\ e[m] \in Nat
    BY <1>0, <1>1, <2>2
  <2>4. CASE s.heap[c].expire <= s.heap[m].expire
    <3>1. q = [s |-> s, at |-> c]
      BY <2>2, <2>4 DEF Sunk
    <3>2. ASSUME NEW j \in 2 .. L, j \div 2 = c PROVE e[c] <= e[j]
      <4>1. e[m] <= e[j] /\ e[c] <= e[m]
        BY <2>2, <2>3, <2>4, <3>2 DEF SmallestChild
      <4>. QED BY <2>3, <4>1
    <3>3. AboveChildren(e, L, c)
      BY <3>2 DEF AboveChildren
    <3>. QED BY <1>0, <1>1, <3>1, <3>3
  <2>5. CASE ~(s.heap[c].expire <= s.heap[m].expire)
    <3>1. PICK t : t = swap_node_(s, c, m)
      OBVIOUS
    <3>2. q = [s |-> t, at |-> m]
      BY <1>0, <1>4, <2>2, <2>5, <3>1 DEF Sunk
    <3>3. /\ t \in Objects /\ Moved(s, t)
          /\ t.heap[c] = s.heap[m] /\ t.heap[m] = s.heap[c]
          /\ \A j \in 1 .. L : j # c /\ j # m => t.heap[j] = s.heap[j]
      BY <1>0, <2>2, <3>1, Swap
    <3>4. PICK g \in [1 .. L -> Nat] : g = Keys(t)
      <4>1. Len(t.heap) = L
        BY <1>0, <3>3 DEF Moved
      <4>. QED BY <3>3, <4>1, KeysType
    <3>5. \A j \in 1 .. L : g[j] = t.heap[j].expire
      BY <1>0, <3>3, <3>4 DEF Keys, Moved
    <3>6. Swapped(e, g, L, c, m)
      <4>1. e[m] < e[c]
        BY <2>3, <2>5
      <4>2. g[c] = e[m] /\ g[m] = e[c]
        BY <1>0, <1>1, <2>2, <3>3, <3>5
      <4>3. \A j \in 1 .. L : j # c /\ j # m => g[j] = e[j]
        BY <1>1, <3>3, <3>5
      <4>. QED BY <4>1, <4>2, <4>3 DEF Swapped
    <3>7. Sinking(g, L, m)
      <4>1. Sinking(e, L, c)
        BY <1>0, <1>1
      <4>. QED BY <1>0, <2>2, <3>6, <4>1, SinkKeys
    <3>. QED BY <1>0, <2>2, <3>2, <3>3, <3>4, <3>7
  <2>. QED BY <2>4, <2>5
<1>. QED BY <1>3, <1>4

\* shift_down_ moves timers and leaves the heap in order.
LEMMA Sink ==
    ASSUME NEW s \in Objects, NEW i \in 1 .. Len(s.heap), Sinking(Keys(s), Len(s.heap), i),
           NEW t, t = ShiftDown(s, i)
    PROVE  t \in Objects /\ Moved(s, t) /\ Sorted(Keys(t), Len(s.heap))
<1>0. PICK L \in Nat : L = Len(s.heap) /\ i \in 1 .. L
  BY ObjectFacts
<1>. DEFINE D == {p \in [s : Objects, at : 1 .. L] :
                    Moved(s, p.s) /\ Sinking(Keys(p.s), L, p.at)}
            F == [p \in D |-> Sunk(p)]
            left == [p \in D |-> L - p.at]
            a == [s |-> s, at |-> i]
            down == CHOOSE f : f = [n \in 0 .. L |-> IF n = 0 THEN a ELSE Sunk(f[n - 1])]
<1>1. a \in D
  BY <1>0, MovedSelf
<1>2. ASSUME NEW p \in D
      PROVE  /\ Sunk(p) \in D
             /\ \/ Sunk(p) = p /\ AboveChildren(Keys(p.s), L, p.at)
                \/ Sunk(p).at > p.at
  <2>1. PICK r, c : /\ p = [s |-> r, at |-> c] /\ r \in Objects /\ c \in 1 .. L
                    /\ Moved(s, r) /\ Sinking(Keys(r), L, c)
    OBVIOUS
  <2>2. Len(r.heap) = L
    BY <1>0, <2>1 DEF Moved
  <2>3. PICK q : q = Sunk([s |-> r, at |-> c])
    OBVIOUS
  <2>4. \/ q = [s |-> r, at |-> c] /\ AboveChildren(Keys(r), L, c)
        \/ /\ q.s \in Objects /\ q.at \in 1 .. L /\ q = [s |-> q.s, at |-> q.at]
           /\ q.at > c /\ Moved(r, q.s) /\ Sinking(Keys(q.s), L, q.at)
    BY <1>0, <2>1, <2>2, <2>3, SinkTurn
  <2>5. CASE q = [s |-> r, at |-> c] /\ AboveChildren(Keys(r), L, c)
    BY <2>1, <2>3, <2>5
  <2>6. CASE /\ q.s \in Objects /\ q.at \in 1 .. L /\ q = [s |-> q.s, at |-> q.at]
             /\ q.at > c /\ Moved(r, q.s) /\ Sinking(Keys(q.s), L, q.at)
    <3>1. Moved(s, q.s)
      BY <2>1, <2>6, MovedTrans
    <3>2. q \in D
      BY <2>6, <3>1
    <3>. QED BY <2>1, <2>3, <2>6, <3>2
  <2>. QED BY <2>4, <2>5, <2>6
<1>3. /\ F \in [D -> D] /\ left \in [D -> Nat] /\ left[a] <= L
      /\ \A p \in D : F[p] = p \/ left[F[p]] < left[p]
  <2>1. left \in [D -> Nat] /\ left[a] <= L
    BY <1>0, <1>1
  <2>2. F \in [D -> D]
    BY <1>2
  <2>3. ASSUME NEW p \in D PROVE F[p] = p \/ left[F[p]] < left[p]
    BY <1>2
  <2>. QED BY <2>1, <2>2, <2>3
<1>4. PICK g : Run(g, D, F, a, L) /\ g[L] \in D /\ F[g[L]] = g[L]
  <2>. HIDE DEF D, F, left, a
  <2>1. Ends(D, F, a, L)
    BY <1>3 DEF Ends
  <2>. QED BY <1>0, <1>1, <1>3, <2>1, Loop
<1>5. g = [n \in 0 .. L |-> IF n = 0 THEN a ELSE Sunk(g[n - 1])]
  <2>1. g \in [0 .. L -> D] /\ g[0] = a
    BY <1>4 DEF Run
  <2>2. ASSUME NEW n \in 1 .. L PROVE g[n] = Sunk(g[n - 1])
    <3>1. g[n] = F[g[n - 1]] /\ g[n - 1] \in D
      <4>. HIDE DEF D, F
      <4>1. n - 1 \in 0 .. L
        OBVIOUS
      <4>. QED BY <1>4, <2>1, <4>1 DEF Run
    <3>. QED BY <3>1
  <2>. HIDE DEF D, a
  <2>. QED BY <2>1, <2>2
<1>6. down = [n \in 0 .. L |-> IF n = 0 THEN a ELSE Sunk(down[n - 1])]
  <2>. HIDE DEF a
  <2>. QED BY <1>5
<1>7. down[L] = g[L]
  <2>. HIDE DEF a, down
  <2>1. down[0] = a /\ g[0] = a
    BY <1>0, <1>5, <1>6
  <2>2. ASSUME NEW n \in 1 .. L PROVE down[n] = Sunk(down[n - 1]) /\ g[n] = Sunk(g[n - 1])
    <3>1. n \in 0 .. L /\ n # 0
      OBVIOUS
    <3>. QED BY <1>5, <1>6, <3>1
  <2>3. \A n \in 1 .. L : down[n - 1] = g[n - 1] => down[n] = g[n]
    BY <2>2
  <2>4. L \in Nat /\ down[0] = g[0]
    BY <1>0, <2>1
  <2>. QED BY <2>3, <2>4, SameRun
<1>8. t = g[L].s
  BY <1>0, <1>7 DEF ShiftDown
<1>9. PICK r, c : /\ g[L] = [s |-> r, at |-> c] /\ r \in Objects /\ c \in 1 .. L
                  /\ Moved(s, r) /\ Sinking(Keys(r), L, c) /\ AboveChildren(Keys(r), L, c)
  <2>1. g[L] \in D /\ Sunk(g[L]) = g[L]
    BY <1>4
  <2>2. AboveChildren(Keys(g[L].s), L, g[L].at) /\ g[L].at \in Nat
    BY <1>0, <1>2, <2>1
  <2>. QED BY <2>1, <2>2
<1>10. t = r
  BY <1>8, <1>9
<1>11. PICK e \in [1 .. L -> Nat] : e = Keys(r)
  <2>1. Len(r.heap) = L
    BY <1>0, <1>9 DEF Moved
  <2>. QED BY <1>9, <2>1, KeysType
<1>12. Sorted(e, L)
  BY <1>0, <1>9, <1>11, SunkKeys
<1>. QED BY <1>0, <1>9, <1>10, <1>11, <1>12

-----------------------------------------------------------------------------
(* The operations, on objects in order.                                    *)

Heaps == {s \in Objects : Sorted(Keys(s), Len(s.heap))}

\* t is s without the timers of S; t is s with fd's deadline set to x.
Removed(s, t, S) ==
    /\ DOMAIN t.map = DOMAIN s.map \ S
    /\ \A g \in DOMAIN t.map : Deadline(t, g) = Deadline(s, g)
    /\ t.ran = s.ran

SetTo(s, t, fd, x) ==
    /\ DOMAIN t.map = DOMAIN s.map \cup {fd} /\ Deadline(t, fd) = x
    /\ \A g \in DOMAIN s.map \ {fd} : Deadline(t, g) = Deadline(s, g)
    /\ t.ran = s.ran

\* A heap of which the key of one node changes, and the last keys go.
LEMMA ChangedKeys ==
    ASSUME NEW L \in Nat, NEW M \in 0 .. L, NEW e \in [1 .. L -> Nat], Sorted(e, L),
           NEW g \in [1 .. M -> Nat], NEW i \in 1 .. M,
           \A j \in 1 .. M : j # i => g[j] = e[j]
    PROVE  Lifting(g, M, i, i)
<1>1. ASSUME NEW j \in 2 .. M PROVE j \in 2 .. L /\ j \div 2 \in 1 .. M /\ j \div 2 < j
  BY Father
<1>2. ASSUME NEW j \in 2 .. M, j # i, j \div 2 # i PROVE g[j \div 2] <= g[j]
  <2>1. e[j \div 2] <= e[j]
    BY <1>1 DEF Sorted
  <2>2. g[j] = e[j] /\ g[j \div 2] = e[j \div 2]
    BY <1>1, <1>2
  <2>. QED BY <2>1, <2>2
<1>3. ASSUME i > 1, NEW j \in 2 .. M, j \div 2 = i PROVE g[i \div 2] <= g[j]
  <2>1. i \in 2 .. M /\ j # i
    BY <1>1, <1>3
  <2>2. i \div 2 \in 1 .. M /\ i \div 2 # i
    BY <1>1, <2>1
  <2>3. e[i \div 2] <= e[i] /\ e[i] <= e[j]
    BY <1>1, <1>3, <2>1 DEF Sorted
  <2>4. g[i \div 2] = e[i \div 2] /\ g[j] = e[j]
    BY <2>1, <2>2
  <2>5. e[i \div 2] \in Nat /\ e[i] \in Nat /\ e[j] \in Nat
    BY <1>1, <2>2
  <2>. QED BY <2>3, <2>4, <2>5
<1>. QED BY <1>2, <1>3 DEF Lifting

LEMMA SortedPrefix ==
    ASSUME NEW L \in Nat, NEW M \in 0 .. L, NEW e \in [1 .. L -> Nat], Sorted(e, L),
           NEW g \in [1 .. M -> Nat], \A j \in 1 .. M : g[j] = e[j]
    PROVE  Sorted(g, M)
<1>1. ASSUME NEW j \in 2 .. M PROVE g[j \div 2] <= g[j]
  <2>1. j \in 2 .. L /\ j \div 2 \in 1 .. M /\ j \in 1 .. M
    BY Father
  <2>2. e[j \div 2] <= e[j]
    BY <2>1 DEF Sorted
  <2>. QED BY <2>1, <2>2
<1>. QED BY <1>1 DEF Sorted

\* What is known of an object in order, about its keys.
LEMMA HeapFacts ==
    ASSUME NEW s \in Heaps
    PROVE  /\ s \in Objects /\ Len(s.heap) \in Nat
           /\ \E e \in [1 .. Len(s.heap) -> Nat] :
                 /\ e = Keys(s) /\ Sorted(e, Len(s.heap))
                 /\ \A j \in 1 .. Len(s.heap) : e[j] = s.heap[j].expire
<1>1. s \in Objects /\ Sorted(Keys(s), Len(s.heap))
  BY DEF Heaps
<1>2. Len(s.heap) \in Nat /\ Keys(s) \in [1 .. Len(s.heap) -> Nat]
  BY <1>1, ObjectFacts, KeysType
<1>3. \A j \in 1 .. Len(s.heap) : Keys(s)[j] = s.heap[j].expire
  BY DEF Keys
<1>. QED BY <1>1, <1>2, <1>3

LEMMA AdjustedHeap ==
    ASSUME NEW s \in Objects, NEW i \in 1 .. Len(s.heap),
           Lifting(Keys(s), Len(s.heap), i, i),
           NEW t, t = Adjusted(s, i)
    PROVE  t \in Heaps /\ Moved(s, t)
<1>0. PICK L \in Nat : L = Len(s.heap) /\ i \in 1 .. L
  BY ObjectFacts
<1>1. PICK r : r = ShiftUp(s, i)
  OBVIOUS
<1>2. r \in Objects /\ Moved(s, r) /\ Sinking(Keys(r), L, i)
  BY <1>0, <1>1, Lift
<1>3. Len(r.heap) = L
  BY <1>0, <1>2 DEF Moved
<1>4. t = ShiftDown(r, i)
  BY <1>0, <1>1 DEF Adjusted
<1>5. t \in Objects /\ Moved(r, t) /\ Sorted(Keys(t), L)
  BY <1>0, <1>2, <1>3, <1>4, Sink
<1>6. Len(t.heap) = L
  BY <1>3, <1>5 DEF Moved
<1>. QED BY <1>2, <1>5, <1>6, MovedTrans DEF Heaps

LEMMA DropFacts ==
    ASSUME NEW m \in Maps, NEW fd
    PROVE  /\ Drop(m, fd) \in Maps /\ DOMAIN Drop(m, fd) = DOMAIN m \ {fd}
           /\ \A g \in DOMAIN m \ {fd} : Drop(m, fd)[g] = m[g]
<1>. DEFINE n == Drop(m, fd)
<1>1. /\ DOMAIN n = DOMAIN m \ {fd} /\ n = [g \in DOMAIN n |-> n[g]]
      /\ \A g \in DOMAIN m \ {fd} : n[g] = m[g]
  BY DEF Drop, Restrict
<1>. HIDE DEF n
<1>2. DOMAIN n \subseteq Fds /\ \A g \in DOMAIN n : n[g] \in Nat
  BY <1>1, MapType
<1>3. n \in Maps
  BY <1>1, <1>2, MapType
<1>. QED BY <1>1, <1>3 DEF n

\* The last node, fd's, goes.
LEMMA PopBack ==
    ASSUME NEW s \in Objects, s.heap # << >>, NEW fd, fd = s.heap[Len(s.heap)].fd,
           NEW t, t = popBack(s, fd)
    PROVE  /\ t \in Objects /\ fd \in DOMAIN s.map /\ Removed(s, t, {fd})
           /\ Len(t.heap) = Len(s.heap) - 1 /\ Len(s.heap) - 1 \in Nat
           /\ \A j \in 1 .. Len(s.heap) - 1 : t.heap[j] = s.heap[j]
<1>1. PICK h \in Seq(Node), m \in Maps, L \in Nat \ {0} :
          h = s.heap /\ m = s.map /\ L = Len(h)
  <2>1. s.heap \in Seq(Node) /\ s.map \in Maps
    BY ObjectFacts
  <2>2. Len(s.heap) \in Nat \ {0}
    BY <2>1
  <2>. QED BY <2>1, <2>2
<1>. DEFINE k == SubSeq(h, 1, L - 1)
            n == Drop(m, fd)
<1>2. t = [heap |-> k, map |-> n, cbs |-> s.cbs \ {fd}, ran |-> s.ran]
  <2>1. t = [s EXCEPT !.heap = k, !.map = n, !.cbs = s.cbs \ {fd}]
    BY <1>1 DEF popBack
  <2>2. s = [heap |-> s.heap, map |-> s.map, cbs |-> s.cbs, ran |-> s.ran]
    BY ObjectFacts
  <2>. HIDE DEF k, n
  <2>. QED BY <2>1, <2>2
<1>3. /\ DOMAIN h = 1 .. L /\ \A i \in 1 .. L : h[i] \in Node
  BY <1>1
<1>4. /\ k \in Seq(Node) /\ Len(k) = L - 1 /\ L - 1 \in Nat /\ DOMAIN k = 1 .. L - 1
      /\ \A j \in 1 .. L - 1 : k[j] = h[j]
  BY <1>1, <1>3
<1>5. /\ \A i \in 1 .. L : h[i].fd \in DOMAIN m /\ m[h[i].fd] = i
      /\ \A g \in DOMAIN m : m[g] \in 1 .. L /\ h[m[g]].fd = g
      /\ s.cbs = DOMAIN m
  BY <1>1, <1>3, ObjectFacts DEF Indexed
<1>6. fd \in DOMAIN m /\ m[fd] = L
  BY <1>1, <1>5
<1>7. /\ n \in Maps /\ DOMAIN n = DOMAIN m \ {fd}
      /\ \A g \in DOMAIN m \ {fd} : n[g] = m[g]
  BY DropFacts
<1>. HIDE DEF k, n
<1>8. ASSUME NEW j \in 1 .. L - 1 PROVE k[j].fd \in DOMAIN n /\ n[k[j].fd] = j
  <2>1. j \in 1 .. L /\ j # L
    BY <1>1
  <2>2. h[j].fd \in DOMAIN m /\ m[h[j].fd] = j
    BY <1>5, <2>1
  <2>3. h[j].fd # fd
    BY <1>6, <2>1, <2>2
  <2>. QED BY <1>4, <1>7, <2>2, <2>3
<1>9. ASSUME NEW g \in DOMAIN n PROVE n[g] \in 1 .. L - 1 /\ k[n[g]] = h[m[g]] /\ n[g] = m[g]
  <2>1. g \in DOMAIN m /\ g # fd /\ n[g] = m[g] /\ m[g] \in 1 .. L /\ h[m[g]].fd = g
    BY <1>5, <1>7
  <2>2. m[g] # L
    BY <1>1, <1>5, <1>6, <2>1
  <2>3. m[g] \in 1 .. L - 1
    BY <2>1, <2>2
  <2>. QED BY <1>4, <2>1, <2>3
<1>10. t \in Members
  <2>1. s.cbs \ {fd} \subseteq Fds /\ s.ran \subseteq Fds
    BY ObjectFacts
  <2>. QED BY <1>2, <1>4, <1>7, <2>1 DEF Members
<1>11. t.heap = k /\ t.map = n /\ t.cbs = s.cbs \ {fd} /\ t.ran = s.ran
  BY <1>2
<1>12. Indexed(t)
  <2>1. ASSUME NEW g \in DOMAIN n PROVE n[g] \in DOMAIN k /\ k[n[g]].fd = g
    BY <1>4, <1>5, <1>7, <1>9
  <2>. QED BY <1>4, <1>5, <1>7, <1>8, <1>11, <2>1 DEF Indexed
<1>13. Removed(s, t, {fd})
  BY <1>1, <1>7, <1>9, <1>11 DEF Removed, Deadline
<1>. QED BY <1>1, <1>4, <1>6, <1>10, <1>11, <1>12, <1>13 DEF Objects

LEMMA MovedRemoved ==
    ASSUME NEW r, NEW s, NEW t, NEW S, \/ Moved(r, s) /\ Removed(s, t, S)
                                       \/ Removed(r, s, S) /\ Moved(s, t)
    PROVE  Removed(r, t, S)
BY DEF Moved, Removed

\* The last node goes, and the others are in order.
LEMMA DeletedLast ==
    ASSUME NEW s \in Heaps, s.heap # << >>, NEW fd, fd = s.heap[Len(s.heap)].fd,
           NEW t, t = popBack(s, fd)
    PROVE  t \in Heaps /\ Len(t.heap) = Len(s.heap) - 1 /\ Removed(s, t, {fd})
<1>1. PICK L \in Nat : s \in Objects /\ L = Len(s.heap)
  BY HeapFacts
<1>2. PICK e \in [1 .. L -> Nat] :
          e = Keys(s) /\ Sorted(e, L) /\ \A j \in 1 .. L : e[j] = s.heap[j].expire
  BY <1>1, HeapFacts
<1>3. /\ t \in Objects /\ Removed(s, t, {fd}) /\ Len(t.heap) = Len(s.heap) - 1
      /\ Len(s.heap) - 1 \in Nat
      /\ \A j \in 1 .. Len(s.heap) - 1 : t.heap[j] = s.heap[j]
  BY <1>1, PopBack
<1>4. PICK M \in 0 .. L : M = L - 1 /\ Len(t.heap) = M
  <2>1. L - 1 \in Nat /\ Len(t.heap) = L - 1
    BY <1>1, <1>3
  <2>2. L - 1 \in 0 .. L
    BY <2>1
  <2>. QED BY <2>1, <2>2
<1>5. PICK g \in [1 .. M -> Nat] : g = Keys(t)
  BY <1>3, <1>4, KeysType
<1>6. \A j \in 1 .. M : g[j] = e[j]
  BY <1>1, <1>3, <1>4, <1>5, <1>2 DEF Keys
<1>7. Sorted(g, M)
  BY <1>6, <1>2, SortedPrefix
<1>. QED BY <1>1, <1>3, <1>4, <1>5, <1>7 DEF Heaps

\* del_ takes the timer of node i away, and leaves the heap in order.
LEMMA Deleted ==
    ASSUME NEW s \in Heaps, NEW i \in 1 .. Len(s.heap), NEW t, t = del_(s, i)
    PROVE  /\ t \in Heaps /\ Len(t.heap) = Len(s.heap) - 1
           /\ s.heap[i].fd \in DOMAIN s.map /\ Removed(s, t, {s.heap[i].fd})
<1>1. PICK fd : fd = s.heap[i].fd
  OBVIOUS
<1>2. PICK L \in Nat : s \in Objects /\ L = Len(s.heap) /\ i \in 1 .. L
  BY HeapFacts
<1>3. PICK e \in [1 .. L -> Nat] :
          e = Keys(s) /\ Sorted(e, L) /\ \A j \in 1 .. L : e[j] = s.heap[j].expire
  BY <1>2, HeapFacts
<1>4. /\ s \in Objects /\ L = Len(s.heap) /\ i \in 1 .. L /\ e = Keys(s) /\ Sorted(e, L)
      /\ \A j \in 1 .. L : e[j] = s.heap[j].expire
  BY <1>2, <1>3
<1>5. PICK M \in 0 .. L : M = L - 1 /\ L \in 1 .. L /\ s.heap # << >>
  BY <1>4, ObjectFacts
<1>6. fd \in DOMAIN s.map
  BY <1>4, <1>1, ObjectFacts DEF Indexed
<1>7. CASE i = L
  <2>1. t = popBack(s, fd)
    BY <1>4, <1>7, <1>1 DEF del_
  <2>2. s.heap # << >> /\ fd = s.heap[Len(s.heap)].fd
    BY <1>4, <1>5, <1>7, <1>1
  <2>3. t \in Heaps /\ Len(t.heap) = Len(s.heap) - 1 /\ Removed(s, t, {fd})
    BY <2>1, <2>2, DeletedLast
  <2>. QED BY <1>6, <1>1, <2>3
<1>8. CASE i # L
  <2>1. PICK w : w = swap_node_(s, i, L)
    OBVIOUS
  <2>2. PICK v : v = popBack(w, fd)
    OBVIOUS
  <2>3. t = Adjusted(v, i)
    BY <1>4, <1>8, <1>1, <2>1, <2>2 DEF del_
  <2>4. /\ w \in Objects /\ Moved(s, w) /\ w.heap[i] = s.heap[L] /\ w.heap[L] = s.heap[i]
        /\ \A j \in 1 .. L : j # i /\ j # L => w.heap[j] = s.heap[j]
    BY <1>4, <1>5, <1>8, <2>1, Swap
  <2>5. Len(w.heap) = L /\ w.heap # << >> /\ fd = w.heap[Len(w.heap)].fd
    <3>1. Len(w.heap) = L
      BY <1>4, <2>4 DEF Moved
    <3>2. w.heap \in Seq(Node)
      BY <2>4, ObjectFacts
    <3>. QED BY <1>4, <1>5, <1>1, <2>4, <3>1, <3>2
  <2>6. /\ v \in Objects /\ Removed(w, v, {fd}) /\ Len(v.heap) = M
        /\ \A j \in 1 .. M : v.heap[j] = w.heap[j]
    <3>1. /\ v \in Objects /\ Removed(w, v, {fd}) /\ Len(v.heap) = Len(w.heap) - 1
          /\ \A j \in 1 .. Len(w.heap) - 1 : v.heap[j] = w.heap[j]
      BY <2>2, <2>4, <2>5, PopBack
    <3>. QED BY <1>5, <2>5, <3>1
  <2>7. PICK g \in [1 .. M -> Nat] : g = Keys(v)
    BY <1>5, <2>6, KeysType
  <2>8. \A j \in 1 .. M : j # i => g[j] = e[j]
    <3>. SUFFICES ASSUME NEW j \in 1 .. M, j # i PROVE g[j] = e[j]
      OBVIOUS
    <3>1. j \in 1 .. L /\ j # L
      BY <1>5
    <3>2. v.heap[j] = s.heap[j]
      BY <2>4, <2>6, <3>1
    <3>. QED BY <1>4, <2>6, <2>7, <3>1, <3>2 DEF Keys
  <2>9. i \in 1 .. M
    BY <1>4, <1>5, <1>8
  <2>10. Lifting(g, M, i, i)
    BY <1>4, <2>8, <2>9, ChangedKeys
  <2>11. t \in Heaps /\ Moved(v, t)
    BY <2>3, <2>6, <2>7, <2>9, <2>10, AdjustedHeap
  <2>12. Removed(s, t, {fd})
    BY <2>4, <2>6, <2>11, MovedRemoved
  <2>13. Len(t.heap) = M
    BY <2>6, <2>11 DEF Moved
  <2>. QED BY <1>4, <1>5, <1>6, <1>1, <2>11, <2>12, <2>13
<1>. QED BY <1>7, <1>8

\* The root of a heap has the least key.
LEMMA RootLeast ==
    ASSUME NEW L \in Nat, NEW e \in [1 .. L -> Nat], Sorted(e, L), NEW j \in 1 .. L
    PROVE  e[1] <= e[j]
<1>. DEFINE T == {k \in 1 .. L : e[k] < e[1]}
<1>1. SUFFICES ASSUME T # {} PROVE FALSE
  <2>1. CASE T = {}
    <3>1. ~ (e[j] < e[1]) /\ e[j] \in Nat /\ e[1] \in Nat
      BY <2>1
    <3>. QED BY <3>1
  <2>. QED BY <2>1
<1>2. PICK m \in T : \A k \in T : m <= k
  <2>1. T \subseteq Nat
    OBVIOUS
  <2>. HIDE DEF T
  <2>. QED BY <1>1, <2>1, Least
<1>3. m \in 2 .. L /\ e[m] < e[1]
  <2>1. m \in 1 .. L /\ e[m] < e[1] /\ e[1] \in Nat
    BY <1>2
  <2>2. m # 1
    BY <2>1
  <2>. QED BY <2>1, <2>2
<1>4. m \div 2 \in 1 .. L /\ m \div 2 < m /\ e[m \div 2] <= e[m]
  BY <1>3, Father DEF Sorted
<1>5. e[m \div 2] < e[1]
  <2>1. e[m \div 2] \in Nat /\ e[m] \in Nat /\ e[1] \in Nat
    BY <1>3, <1>4
  <2>. QED BY <1>3, <1>4, <2>1
<1>6. m \div 2 \in T
  BY <1>4, <1>5
<1>7. m <= m \div 2
  <2>. HIDE DEF T
  <2>. QED BY <1>2, <1>6
<1>. QED BY <1>3, <1>4, <1>7

\* The timer at the root is one with the earliest deadline.
LEMMA Root ==
    ASSUME NEW s \in Heaps, s.heap # << >>
    PROVE  /\ 1 \in 1 .. Len(s.heap) /\ s.heap[1].fd \in DOMAIN s.map
           /\ Deadline(s, s.heap[1].fd) = s.heap[1].expire /\ s.heap[1].expire \in Nat
           /\ \A g \in DOMAIN s.map : Deadline(s, g) \in Nat /\ s.heap[1].expire <= Deadline(s, g)
<1>1. PICK L \in Nat : s \in Objects /\ L = Len(s.heap)
  BY HeapFacts
<1>2. PICK e \in [1 .. L -> Nat] :
          e = Keys(s) /\ Sorted(e, L) /\ \A j \in 1 .. L : e[j] = s.heap[j].expire
  BY <1>1, HeapFacts
<1>3. 1 \in 1 .. L
  <2>1. s.heap \in Seq(Node)
    BY <1>1, ObjectFacts
  <2>. QED BY <1>1, <2>1
<1>4. /\ DOMAIN s.heap = 1 .. L
      /\ \A i \in DOMAIN s.heap : s.heap[i].fd \in DOMAIN s.map /\ s.map[s.heap[i].fd] = i
      /\ \A g \in DOMAIN s.map : s.map[g] \in DOMAIN s.heap
  BY <1>1, ObjectFacts DEF Indexed
<1>5. s.heap[1].fd \in DOMAIN s.map /\ Deadline(s, s.heap[1].fd) = s.heap[1].expire
  BY <1>3, <1>4 DEF Deadline
<1>6. ASSUME NEW g \in DOMAIN s.map
      PROVE  Deadline(s, g) \in Nat /\ s.heap[1].expire <= Deadline(s, g)
  <2>1. PICK k \in 1 .. L : k = s.map[g]
    BY <1>4
  <2>2. e[1] <= e[k]
    BY <1>2, RootLeast
  <2>3. e[k] = Deadline(s, g) /\ e[1] = s.heap[1].expire
    BY <1>2, <1>3, <2>1 DEF Deadline
  <2>. QED BY <2>2, <2>3
<1>7. s.heap[1].expire \in Nat
  BY <1>2, <1>3
<1>. QED BY <1>1, <1>3, <1>5, <1>6, <1>7

\* An object has no node exactly when it has no timer.
LEMMA NoTimers ==
    ASSUME NEW s \in Objects
    PROVE  s.heap = << >> <=> DOMAIN s.map = {}
<1>1. /\ DOMAIN s.heap = 1 .. Len(s.heap) /\ Len(s.heap) \in Nat /\ s.heap \in Seq(Node)
      /\ \A i \in DOMAIN s.heap : s.heap[i].fd \in DOMAIN s.map
      /\ \A g \in DOMAIN s.map : s.map[g] \in DOMAIN s.heap
  BY ObjectFacts DEF Indexed
<1>2. ASSUME s.heap = << >> PROVE DOMAIN s.map = {}
  <2>1. Len(s.heap) = 0
    BY <1>2
  <2>. QED BY <1>1, <2>1
<1>3. ASSUME s.heap # << >> PROVE DOMAIN s.map # {}
  <2>1. 1 \in DOMAIN s.heap
    BY <1>1, <1>3
  <2>. QED BY <1>1, <2>1
<1>. QED BY <1>2, <1>3

\* do_work_ takes fd's timer away; it calls nothing, as del_ has erased the
\* callback it then looks for.
LEMMA WorkDone ==
    ASSUME NEW s \in Heaps, NEW fd \in DOMAIN s.map, NEW t, t = do_work_(s, fd)
    PROVE  t \in Heaps /\ Len(t.heap) = Len(s.heap) - 1 /\ Removed(s, t, {fd})
<1>1. PICK i \in 1 .. Len(s.heap) : i = s.map[fd] /\ s.heap[i].fd = fd
  BY HeapFacts, ObjectFacts DEF Indexed
<1>2. PICK d : d = del_(s, i)
  OBVIOUS
<1>3. d \in Heaps /\ Len(d.heap) = Len(s.heap) - 1 /\ Removed(s, d, {s.heap[i].fd})
  BY <1>2, Deleted
<1>4. Removed(s, d, {fd})
  BY <1>1, <1>3
<1>5. fd \notin d.cbs
  <2>1. d.cbs = DOMAIN d.map
    BY <1>3, HeapFacts, ObjectFacts DEF Indexed
  <2>. QED BY <1>4, <2>1 DEF Removed
<1>6. t = [d EXCEPT !.ran = d.ran]
  BY <1>1, <1>2, <1>5 DEF do_work_
<1>7. d = [heap |-> d.heap, map |-> d.map, cbs |-> d.cbs, ran |-> d.ran]
  BY <1>3, HeapFacts, ObjectFacts
<1>8. t = d
  BY <1>6, <1>7
<1>. QED BY <1>3, <1>4, <1>8

LEMMA Popped ==
    ASSUME NEW s \in Heaps, s.heap # << >>, NEW t, t = pop_(s)
    PROVE  t \in Heaps /\ Len(t.heap) = Len(s.heap) - 1 /\ Removed(s, t, {s.heap[1].fd})
<1>1. PICK i \in 1 .. Len(s.heap) : i = 1
  BY Root
<1>2. t = del_(s, i)
  BY <1>1 DEF pop_
<1>3. t \in Heaps /\ Len(t.heap) = Len(s.heap) - 1 /\ Removed(s, t, {s.heap[i].fd})
  BY <1>2, Deleted
<1>. QED BY <1>1, <1>3
LEMMA MovedSetTo ==
    ASSUME NEW s, NEW u, NEW t, NEW fd, NEW x, SetTo(s, u, fd, x), Moved(u, t)
    PROVE  SetTo(s, t, fd, x)
BY DEF SetTo, Moved

\* A timer's node is overwritten, and moved to where it belongs.
LEMMA Updated ==
    ASSUME NEW s \in Heaps, NEW fd \in DOMAIN s.map, NEW x \in Nat,
           NEW t, t = Adjusted([s EXCEPT !.heap[s.map[fd]] = [expire |-> x, fd |-> fd]],
                               s.map[fd])
    PROVE  t \in Heaps /\ SetTo(s, t, fd, x)
<1>1. PICK L \in Nat : s \in Objects /\ L = Len(s.heap)
  BY HeapFacts
<1>2. PICK e \in [1 .. L -> Nat] :
          e = Keys(s) /\ Sorted(e, L) /\ \A j \in 1 .. L : e[j] = s.heap[j].expire
  BY <1>1, HeapFacts
<1>3. PICK h \in Seq(Node), m \in Maps : h = s.heap /\ m = s.map
  BY <1>1, ObjectFacts
<1>4. /\ DOMAIN h = 1 .. L /\ \A j \in 1 .. L : h[j] \in Node
      /\ \A j \in 1 .. L : h[j].fd \in DOMAIN m /\ m[h[j].fd] = j
      /\ \A g \in DOMAIN m : m[g] \in 1 .. L /\ h[m[g]].fd = g
      /\ s.cbs = DOMAIN m
  BY <1>1, <1>3, ObjectFacts DEF Indexed
<1>5. PICK i \in 1 .. L : i = m[fd] /\ h[i].fd = fd /\ fd \in Fds
  <2>1. fd \in DOMAIN m /\ DOMAIN m \subseteq Fds
    BY <1>3, MapType
  <2>. QED BY <1>4, <2>1
<1>6. PICK k : k = [h EXCEPT ![i] = [expire |-> x, fd |-> fd]]
  OBVIOUS
<1>7. /\ k \in Seq(Node) /\ Len(k) = L /\ DOMAIN k = 1 .. L
      /\ k[i].expire = x /\ k[i].fd = fd
      /\ \A j \in 1 .. L : j # i => k[j] = h[j]
  <2>1. [expire |-> x, fd |-> fd] \in Node
    BY <1>5 DEF Node
  <2>2. h \in Seq(Node) /\ Len(h) = L
    BY <1>1, <1>3
  <2>. QED BY <1>4, <1>6, <2>1, <2>2
<1>8. PICK u : u = [s EXCEPT !.heap = k]
  OBVIOUS
<1>9. u = [heap |-> k, map |-> m, cbs |-> s.cbs, ran |-> s.ran]
  <2>1. s = [heap |-> s.heap, map |-> s.map, cbs |-> s.cbs, ran |-> s.ran]
    BY <1>1, ObjectFacts
  <2>. QED BY <1>3, <1>8, <2>1
<1>10. u.heap = k /\ u.map = m /\ u.cbs = s.cbs /\ u.ran = s.ran
  BY <1>9
<1>11. t = Adjusted(u, i)
  BY <1>3, <1>5, <1>6, <1>8
<1>12. u \in Members
  <2>1. s.cbs \subseteq Fds /\ s.ran \subseteq Fds
    BY <1>1, ObjectFacts
  <2>. QED BY <1>7, <1>9, <2>1 DEF Members
<1>13. Indexed(u)
  <2>1. ASSUME NEW j \in 1 .. L PROVE k[j].fd \in DOMAIN m /\ m[k[j].fd] = j
    <3>1. h[j].fd \in DOMAIN m /\ m[h[j].fd] = j /\ k[j].fd = h[j].fd
      BY <1>4, <1>5, <1>7
    <3>. QED BY <3>1
  <2>2. ASSUME NEW g \in DOMAIN m PROVE m[g] \in 1 .. L /\ k[m[g]].fd = g
    BY <1>4, <1>5, <1>7
  <2>. QED BY <1>4, <1>7, <1>10, <2>1, <2>2 DEF Indexed
<1>14. SetTo(s, u, fd, x)
  <2>1. Deadline(u, fd) = x
    BY <1>5, <1>7, <1>10 DEF Deadline
  <2>2. ASSUME NEW g \in DOMAIN m \ {fd} PROVE Deadline(u, g) = Deadline(s, g)
    <3>1. m[g] \in 1 .. L /\ m[g] # i
      BY <1>4, <1>5
    <3>. QED BY <1>3, <1>7, <1>10, <3>1 DEF Deadline
  <2>3. DOMAIN u.map = DOMAIN s.map \cup {fd}
    BY <1>3, <1>10
  <2>. QED BY <1>3, <1>10, <2>1, <2>2, <2>3 DEF SetTo
<1>15. PICK g \in [1 .. L -> Nat] : g = Keys(u)
  BY <1>7, <1>10, <1>12, <1>13, KeysType DEF Objects
<1>16. \A j \in 1 .. L : j # i => g[j] = e[j]
  BY <1>2, <1>3, <1>7, <1>10, <1>15 DEF Keys
<1>17. Lifting(g, L, i, i)
  <2>1. PICK M \in 0 .. L : M = L
    BY <1>1
  <2>. QED BY <1>2, <1>5, <1>15, <1>16, <2>1, ChangedKeys
<1>18. t \in Heaps /\ Moved(u, t)
  BY <1>7, <1>10, <1>11, <1>12, <1>13, <1>15, <1>17, AdjustedHeap DEF Objects
<1>. QED BY <1>14, <1>18, MovedSetTo

\* A new timer's node comes last, and moves up to where it belongs.
LEMMA Appended ==
    ASSUME NEW s \in Heaps, NEW fd \in Fds \ DOMAIN s.map, NEW x \in Nat, NEW L,
           L = Len(s.heap) + 1,
           NEW t, t = ShiftUp([s EXCEPT !.heap = Append(@, [expire |-> x, fd |-> fd]),
                                        !.map = With(@, fd, L),
                                        !.cbs = @ \cup {fd}], L)
    PROVE  t \in Heaps /\ SetTo(s, t, fd, x)
<1>1. PICK M \in Nat : s \in Objects /\ M = Len(s.heap)
  BY HeapFacts
<1>2. PICK e \in [1 .. M -> Nat] :
          e = Keys(s) /\ Sorted(e, M) /\ \A j \in 1 .. M : e[j] = s.heap[j].expire
  BY <1>1, HeapFacts
<1>3. PICK h \in Seq(Node), m \in Maps : h = s.heap /\ m = s.map
  BY <1>1, ObjectFacts
<1>4. /\ DOMAIN h = 1 .. M /\ \A j \in 1 .. M : h[j] \in Node
      /\ \A j \in 1 .. M : h[j].fd \in DOMAIN m /\ m[h[j].fd] = j
      /\ \A g \in DOMAIN m : m[g] \in 1 .. M /\ h[m[g]].fd = g
      /\ s.cbs = DOMAIN m
  BY <1>1, <1>3, ObjectFacts DEF Indexed
<1>5. L \in Nat /\ L = M + 1 /\ L \in 1 .. L /\ L \notin 1 .. M /\ 1 .. L = (1 .. M) \cup {L}
  BY <1>1
<1>6. PICK k : k = Append(h, [expire |-> x, fd |-> fd])
  OBVIOUS
<1>7. /\ k \in Seq(Node) /\ Len(k) = L /\ DOMAIN k = 1 .. L
      /\ k[L].expire = x /\ k[L].fd = fd
      /\ \A j \in 1 .. M : k[j] = h[j]
  <2>1. PICK y \in Node : y = [expire |-> x, fd |-> fd]
    BY DEF Node
  <2>2. h \in Seq(Node) /\ Len(h) = M
    BY <1>1, <1>3
  <2>3. k \in Seq(Node) /\ Len(k) = L /\ k[L] = y
    BY <1>5, <1>6, <2>1, <2>2
  <2>4. ASSUME NEW j \in 1 .. M PROVE k[j] = h[j]
    BY <1>5, <1>6, <2>1, <2>2
  <2>5. y.expire = x /\ y.fd = fd
    BY <2>1
  <2>. QED BY <2>3, <2>4, <2>5
<1>8. PICK n : n = With(m, fd, L)
  OBVIOUS
<1>9. /\ n \in Maps /\ DOMAIN n = DOMAIN m \cup {fd} /\ n[fd] = L
      /\ \A g \in DOMAIN m : n[g] = m[g]
  <2>1. /\ n = [g \in DOMAIN n |-> n[g]] /\ DOMAIN n = DOMAIN m \cup {fd} /\ n[fd] = L
        /\ \A g \in DOMAIN m : n[g] = m[g]
    BY <1>3, <1>8 DEF With
  <2>2. DOMAIN n \subseteq Fds /\ \A g \in DOMAIN n : n[g] \in Nat
    BY <1>5, <2>1, MapType
  <2>. QED BY <2>1, <2>2, MapType
<1>10. PICK u : u = [s EXCEPT !.heap = k, !.map = n, !.cbs = s.cbs \cup {fd}]
  OBVIOUS
<1>11. u = [heap |-> k, map |-> n, cbs |-> s.cbs \cup {fd}, ran |-> s.ran]
  <2>1. s = [heap |-> s.heap, map |-> s.map, cbs |-> s.cbs, ran |-> s.ran]
    BY <1>1, ObjectFacts
  <2>. QED BY <1>10, <2>1
<1>12. u.heap = k /\ u.map = n /\ u.cbs = s.cbs \cup {fd} /\ u.ran = s.ran
  BY <1>11
<1>13. t = ShiftUp(u, L)
  BY <1>3, <1>6, <1>8, <1>10
<1>14. u \in Members
  <2>1. s.cbs \cup {fd} \subseteq Fds /\ s.ran \subseteq Fds
    BY <1>1, ObjectFacts
  <2>. QED BY <1>7, <1>9, <1>11, <2>1 DEF Members
<1>15. Indexed(u)
  <2>1. ASSUME NEW j \in 1 .. L PROVE k[j].fd \in DOMAIN n /\ n[k[j].fd] = j
    <3>1. CASE j = L
      BY <1>7, <1>9, <3>1
    <3>2. CASE j \in 1 .. M
      BY <1>4, <1>7, <1>9, <3>2
    <3>. QED BY <1>5, <3>1, <3>2
  <2>2. ASSUME NEW g \in DOMAIN n PROVE n[g] \in 1 .. L /\ k[n[g]].fd = g
    <3>1. CASE g = fd
      BY <1>5, <1>7, <1>9, <3>1
    <3>2. CASE g \in DOMAIN m
      BY <1>4, <1>5, <1>7, <1>9, <3>2
    <3>. QED BY <1>9, <3>1, <3>2
  <2>. QED BY <1>4, <1>7, <1>9, <1>12, <2>1, <2>2 DEF Indexed
<1>16. SetTo(s, u, fd, x)
  <2>1. Deadline(u, fd) = x
    BY <1>7, <1>9, <1>12 DEF Deadline
  <2>2. ASSUME NEW g \in DOMAIN m \ {fd} PROVE Deadline(u, g) = Deadline(s, g)
    <3>1. n[g] = m[g] /\ m[g] \in 1 .. M
      BY <1>4, <1>9
    <3>2. k[n[g]] = h[m[g]]
      BY <1>7, <3>1
    <3>. QED BY <1>3, <1>12, <3>2 DEF Deadline
  <2>. QED BY <1>3, <1>9, <1>12, <2>1, <2>2 DEF SetTo
<1>17. PICK g \in [1 .. L -> Nat] : g = Keys(u)
  BY <1>7, <1>12, <1>14, <1>15, KeysType DEF Objects
<1>18. \A j \in 1 .. M : g[j] = e[j]
  BY <1>2, <1>3, <1>5, <1>7, <1>12, <1>17 DEF Keys
<1>19. Lifting(g, L, L, L)
  <2>1. ASSUME NEW j \in 2 .. L PROVE j \in 1 .. L /\ j \div 2 \in 1 .. M /\ j \div 2 # L
    BY <1>1, <1>5, Father
  <2>2. ASSUME NEW j \in 2 .. L, j # L PROVE g[j \div 2] <= g[j]
    <3>1. j \in 2 .. M
      BY <1>1, <1>5, <2>2
    <3>2. e[j \div 2] <= e[j]
      BY <1>2, <3>1 DEF Sorted
    <3>. QED BY <1>18, <2>1, <3>1, <3>2
  <2>. QED BY <2>1, <2>2 DEF Lifting
<1>20. t \in Objects /\ Moved(u, t) /\ Sorted(Keys(t), Len(u.heap))
  <2>1. L \in 1 .. Len(u.heap) /\ 2 * L > Len(u.heap)
    BY <1>1, <1>5, <1>7, <1>12
  <2>. QED BY <1>7, <1>12, <1>13, <1>14, <1>15, <1>17, <1>19, <2>1, Lift DEF Objects
<1>21. t \in Heaps
  BY <1>20 DEF Heaps, Moved
<1>. QED BY <1>16, <1>20, <1>21, MovedSetTo

LEMMA Cleared ==
    ASSUME NEW t, t = [heap |-> << >>, map |-> << >>, cbs |-> {}, ran |-> {}]
    PROVE  t \in Heaps /\ DOMAIN t.map = {} /\ t.ran = {}
<1>1. << >> \in Maps /\ DOMAIN << >> = {} /\ << >> \in Seq(Node) /\ Len(<< >>) = 0
  <2>1. << >> = [fd \in {} |-> 0]
    OBVIOUS
  <2>2. [fd \in {} |-> 0] \in [{} -> Nat]
    OBVIOUS
  <2>. QED BY <2>1, <2>2 DEF Maps
<1>2. t \in Members
  BY <1>1 DEF Members
<1>3. Indexed(t)
  BY <1>1 DEF Indexed
<1>4. Sorted(Keys(t), Len(t.heap))
  BY <1>1 DEF Sorted
<1>. QED BY <1>1, <1>2, <1>3, <1>4 DEF Objects, Heaps
-----------------------------------------------------------------------------
(* The loop of tick(): what do_work takes away is due, what the pop after  *)
(* it takes away may not be.                                               *)

DueIn(s)    == {g \in DOMAIN s.map : Deadline(s, g) <= now}
Taken(s, r) == DOMAIN s.map \ DOMAIN r.map

\* x is an earliest of the timers of s that are not due.
NextIn(s, x) ==
    /\ x \in DOMAIN s.map \ DueIn(s)
    /\ \A y \in DOMAIN s.map \ DueIn(s) : Deadline(s, x) <= Deadline(s, y)

\* The loop, which began with s, has come to r.
Ticking(s, r) ==
    /\ r \in Heaps /\ Removed(s, r, Taken(s, r))
    /\ \/ Taken(s, r) \subseteq DueIn(s) /\ Cardinality(Taken(s, r)) % 2 = 0
       \/ DOMAIN r.map = {} /\ DueIn(s) = DOMAIN s.map
       \/ \E x : /\ NextIn(s, x) /\ Taken(s, r) = DueIn(s) \cup {x}
                 /\ Cardinality(DueIn(s)) % 2 = 1

\* A timer of r is taken as well.
LEMMA TakenMore ==
    ASSUME NEW s, NEW r, Removed(s, r, Taken(s, r)), NEW f \in DOMAIN r.map,
           NEW t, Removed(r, t, {f})
    PROVE  /\ Removed(s, t, Taken(s, t)) /\ Taken(s, t) = Taken(s, r) \cup {f}
           /\ f \notin Taken(s, r) /\ f \in DOMAIN s.map
           /\ Deadline(r, f) = Deadline(s, f)
BY DEF Removed, Taken

LEMMA FiniteTaken ==
    ASSUME NEW s \in Heaps, NEW r PROVE IsFiniteSet(Taken(s, r))
<1>1. s.map \in Maps
  BY HeapFacts, ObjectFacts
<1>2. DOMAIN s.map \subseteq Fds
  BY <1>1, MapType
<1>3. IsFiniteSet(Fds) /\ Taken(s, r) \subseteq Fds
  BY <1>2, HeapTimerAssumption DEF Taken
<1>. QED BY <1>3, FS_Subset

LEMMA Counted ==
    ASSUME NEW S, IsFiniteSet(S), NEW f, f \notin S
    PROVE  /\ Cardinality(S) \in Nat /\ Cardinality(S \cup {f}) = Cardinality(S) + 1
           /\ IsFiniteSet(S \cup {f})
BY FS_AddElement, FS_CardinalityType

\* A turn of the loop takes one timer or two, or the loop is over.
LEMMA TickTurn ==
    ASSUME now \in Nat, NEW s \in Heaps, NEW r, Ticking(s, r), NEW t, t = Worked(r)
    PROVE  /\ Ticking(s, t)
           /\ \/ t = r /\ (r.heap = << >> \/ r.heap[1].expire > now)
              \/ Len(t.heap) < Len(r.heap)
<1>0. r \in Heaps /\ Removed(s, r, Taken(s, r)) /\ Len(r.heap) \in Nat
  BY HeapFacts DEF Ticking
<1>1. CASE r.heap = << >> \/ r.heap[1].expire > now
  BY <1>1 DEF Worked
<1>2. CASE ~ (r.heap = << >> \/ r.heap[1].expire > now)
  <2>1. PICK f \in DOMAIN r.map : f = r.heap[1].fd /\ Deadline(r, f) <= now
    <3>1. /\ r.heap[1].fd \in DOMAIN r.map /\ r.heap[1].expire \in Nat
          /\ Deadline(r, r.heap[1].fd) = r.heap[1].expire
      BY <1>0, <1>2, Root
    <3>2. r.heap[1].expire <= now
      BY <1>2, <3>1
    <3>. QED BY <3>1, <3>2
  <2>2. PICK d : d = do_work_(r, f)
    OBVIOUS
  <2>3. t = pop_(d)
    BY <1>2, <2>1, <2>2 DEF Worked, afterDoWork
  <2>4. d \in Heaps /\ Len(d.heap) = Len(r.heap) - 1 /\ Removed(r, d, {f})
    BY <1>0, <2>2, WorkDone
  <2>5. /\ Removed(s, d, Taken(s, d)) /\ Taken(s, d) = Taken(s, r) \cup {f}
        /\ f \notin Taken(s, r) /\ f \in DOMAIN s.map /\ Deadline(r, f) = Deadline(s, f)
    <3>1. f \in DOMAIN r.map
      OBVIOUS
    <3>2. Removed(r, d, {f}) /\ Removed(s, r, Taken(s, r))
      BY <1>0, <2>4
    <3>. QED BY <3>1, <3>2, TakenMore
  <2>6. f \in DueIn(s)
    BY <2>1, <2>5 DEF DueIn
  <2>7. Taken(s, r) \subseteq DueIn(s) /\ Cardinality(Taken(s, r)) % 2 = 0
    <3>1. DOMAIN r.map # {}
      OBVIOUS
    <3>2. \A x : Taken(s, r) # DueIn(s) \cup {x}
      BY <2>5, <2>6
    <3>. QED BY <3>1, <3>2 DEF Ticking
  <2>8. Taken(s, d) \subseteq DueIn(s)
    BY <2>5, <2>6, <2>7
  <2>9. IsFiniteSet(Taken(s, r))
    BY FiniteTaken
  <2>10. /\ Cardinality(Taken(s, r)) \in Nat /\ IsFiniteSet(Taken(s, d))
         /\ Cardinality(Taken(s, d)) = Cardinality(Taken(s, r)) + 1
    BY <2>5, <2>9, Counted
  <2>11. CASE d.heap = << >>
    <3>1. t = d
      BY <2>3, <2>11 DEF pop_
    <3>2. DOMAIN d.map = {}
      BY <2>4, <2>11, NoTimers, HeapFacts
    <3>3. Taken(s, d) = DOMAIN s.map
      BY <3>2 DEF Taken
    <3>4. DueIn(s) = DOMAIN s.map
      BY <2>8, <3>3 DEF DueIn
    <3>5. Ticking(s, d)
      BY <2>4, <2>5, <3>2, <3>4 DEF Ticking
    <3>6. Len(d.heap) < Len(r.heap)
      BY <1>0, <2>4
    <3>. QED BY <3>1, <3>5, <3>6
  <2>12. CASE d.heap # << >>
    <3>1. PICK g \in DOMAIN d.map :
              /\ g = d.heap[1].fd
              /\ \A y \in DOMAIN d.map :
                    /\ Deadline(d, g) \in Nat /\ Deadline(d, y) \in Nat
                    /\ Deadline(d, g) <= Deadline(d, y)
      BY <2>4, <2>12, Root
    <3>2. t \in Heaps /\ Len(t.heap) = Len(d.heap) - 1 /\ Removed(d, t, {g})
      BY <2>3, <2>4, <2>12, <3>1, Popped
    <3>3. /\ Removed(s, t, Taken(s, t)) /\ Taken(s, t) = Taken(s, d) \cup {g}
          /\ g \notin Taken(s, d) /\ g \in DOMAIN s.map /\ Deadline(d, g) = Deadline(s, g)
      BY <2>5, <3>2, TakenMore
    <3>4. Len(t.heap) < Len(r.heap)
      BY <1>0, <2>4, <3>2
    <3>5. CASE g \in DueIn(s)
      <4>1. Taken(s, t) \subseteq DueIn(s)
        BY <2>8, <3>3, <3>5
      <4>2. Cardinality(Taken(s, t)) = Cardinality(Taken(s, d)) + 1
        BY <2>10, <3>3, Counted
      <4>3. Cardinality(Taken(s, t)) % 2 = 0
        BY <2>7, <2>10, <4>2
      <4>. QED BY <3>2, <3>3, <3>4, <4>1, <4>3 DEF Ticking
    <3>6. CASE g \notin DueIn(s)
      <4>1. ~ (Deadline(d, g) <= now)
        BY <3>3, <3>6 DEF DueIn
      <4>2. \A y \in DOMAIN d.map : Deadline(d, y) = Deadline(s, y)
        BY <2>5 DEF Removed
      <4>3. \A y \in DOMAIN d.map : y \notin DueIn(s)
        <5>1. ASSUME NEW y \in DOMAIN d.map PROVE ~ (Deadline(s, y) <= now)
          <6>1. Deadline(d, y) = Deadline(s, y)
            BY <4>2
          <6>2. Deadline(d, g) \in Nat /\ Deadline(d, y) \in Nat /\ Deadline(d, g) <= Deadline(d, y)
            BY <3>1
          <6>. QED BY <4>1, <6>1, <6>2
        <5>. QED BY <5>1 DEF DueIn
      <4>4. DueIn(s) = Taken(s, d) /\ DOMAIN s.map \ DueIn(s) = DOMAIN d.map
        <5>1. DOMAIN d.map \subseteq DOMAIN s.map
          BY <2>5 DEF Removed
        <5>2. DueIn(s) \subseteq DOMAIN s.map
          BY DEF DueIn
        <5>. QED BY <2>8, <4>3, <5>1, <5>2 DEF Taken
      <4>5. Cardinality(DueIn(s)) % 2 = 1
        BY <2>7, <2>10, <4>4
      <4>6. NextIn(s, g)
        BY <3>1, <4>2, <4>4 DEF NextIn
      <4>. QED BY <3>2, <3>3, <3>4, <4>4, <4>5, <4>6 DEF Ticking
    <3>. QED BY <3>5, <3>6
  <2>. QED BY <2>11, <2>12
<1>. QED BY <1>1, <1>2
\* The loop ends, with every timer that is due taken, and no root that is due.
LEMMA Ticks ==
    ASSUME now \in Nat, NEW s \in Heaps, NEW t, t = Ticked(s)
    PROVE  Ticking(s, t) /\ (t.heap = << >> \/ t.heap[1].expire > now)
<1>0. PICK L \in Nat : L = Len(s.heap)
  BY HeapFacts
<1>. DEFINE D == {r \in Heaps : Ticking(s, r)}
            F == [r \in D |-> Worked(r)]
            left == [r \in D |-> Len(r.heap)]
            after == CHOOSE f : f = [n \in 0 .. L |-> IF n = 0 THEN s ELSE Worked(f[n - 1])]
<1>1. s \in D
  <2>1. Taken(s, s) = {}
    BY DEF Taken
  <2>2. Removed(s, s, Taken(s, s))
    BY <2>1 DEF Removed
  <2>3. Cardinality({}) = 0 /\ 0 % 2 = 0
    BY FS_EmptySet
  <2>. QED BY <2>1, <2>2, <2>3 DEF Ticking
<1>2. ASSUME NEW r \in D
      PROVE  /\ Worked(r) \in D
             /\ \/ Worked(r) = r /\ (r.heap = << >> \/ r.heap[1].expire > now)
                \/ Len(Worked(r).heap) < Len(r.heap)
  <2>1. PICK w : w = Worked(r)
    OBVIOUS
  <2>2. /\ Ticking(s, w)
        /\ \/ w = r /\ (r.heap = << >> \/ r.heap[1].expire > now)
           \/ Len(w.heap) < Len(r.heap)
    <3>1. Ticking(s, r)
      OBVIOUS
    <3>. QED BY <2>1, <3>1, TickTurn
  <2>3. w \in D
    BY <2>2 DEF Ticking
  <2>. QED BY <2>1, <2>2, <2>3
<1>3. /\ F \in [D -> D] /\ left \in [D -> Nat] /\ left[s] <= L
      /\ \A r \in D : F[r] = r \/ left[F[r]] < left[r]
  <2>1. left \in [D -> Nat]
    <3>1. \A r \in D : Len(r.heap) \in Nat
      BY HeapFacts
    <3>. QED BY <3>1
  <2>2. left[s] <= L
    BY <1>0, <1>1
  <2>3. F \in [D -> D]
    BY <1>2
  <2>4. ASSUME NEW r \in D PROVE F[r] = r \/ left[F[r]] < left[r]
    BY <1>2
  <2>. QED BY <2>1, <2>2, <2>3, <2>4
<1>4. PICK g : Run(g, D, F, s, L) /\ g[L] \in D /\ F[g[L]] = g[L]
  <2>. HIDE DEF D, F, left
  <2>1. Ends(D, F, s, L)
    BY <1>3 DEF Ends
  <2>. QED BY <1>0, <1>1, <1>3, <2>1, Loop
<1>5. g = [n \in 0 .. L |-> IF n = 0 THEN s ELSE Worked(g[n - 1])]
  <2>1. g \in [0 .. L -> D] /\ g[0] = s
    BY <1>4 DEF Run
  <2>2. ASSUME NEW n \in 1 .. L PROVE g[n] = Worked(g[n - 1])
    <3>1. g[n] = F[g[n - 1]] /\ g[n - 1] \in D
      <4>. HIDE DEF D, F
      <4>1. n - 1 \in 0 .. L
        OBVIOUS
      <4>. QED BY <1>4, <2>1, <4>1 DEF Run
    <3>. QED BY <3>1
  <2>. HIDE DEF D
  <2>. QED BY <2>1, <2>2
<1>6. after = [n \in 0 .. L |-> IF n = 0 THEN s ELSE Worked(after[n - 1])]
  BY <1>5
<1>7. after[L] = g[L]
  <2>. HIDE DEF after
  <2>1. after[0] = s /\ g[0] = s
    BY <1>0, <1>5, <1>6
  <2>2. ASSUME NEW n \in 1 .. L
        PROVE  after[n] = Worked(after[n - 1]) /\ g[n] = Worked(g[n - 1])
    <3>1. n \in 0 .. L /\ n # 0
      OBVIOUS
    <3>. QED BY <1>5, <1>6, <3>1
  <2>3. \A n \in 1 .. L : after[n - 1] = g[n - 1] => after[n] = g[n]
    BY <2>2
  <2>4. L \in Nat /\ after[0] = g[0]
    BY <1>0, <2>1
  <2>. QED BY <2>3, <2>4, SameRun
<1>8. t = g[L]
  BY <1>0, <1>7 DEF Ticked
<1>9. t \in D /\ Worked(t) = t
  BY <1>4, <1>8
<1>10. Len(t.heap) \in Nat
  BY <1>9, HeapFacts
<1>. QED BY <1>2, <1>9, <1>10

\* So tick() takes every timer that is due and, when their number is odd and
\* others are left, an earliest of those: what TimerMap says of Expire.
LEMMA TickTakes ==
    ASSUME now \in Nat, NEW s \in Heaps, NEW t, t = Ticked(s)
    PROVE  /\ t \in Heaps /\ t.ran = s.ran
           /\ \/ /\ Removed(s, t, DueIn(s))
                 /\ Cardinality(DueIn(s)) % 2 = 0 \/ DueIn(s) = DOMAIN s.map
              \/ \E x : /\ NextIn(s, x) /\ Removed(s, t, DueIn(s) \cup {x})
                        /\ Cardinality(DueIn(s)) % 2 # 0
<1>1. Ticking(s, t) /\ (t.heap = << >> \/ t.heap[1].expire > now)
  BY Ticks
<1>2. t \in Heaps /\ Removed(s, t, Taken(s, t)) /\ t.ran = s.ran
  BY <1>1 DEF Ticking, Removed
<1>3. CASE Taken(s, t) \subseteq DueIn(s) /\ Cardinality(Taken(s, t)) % 2 = 0
  <2>1. ASSUME NEW g \in DOMAIN t.map PROVE g \notin DueIn(s)
    <3>1. t.heap # << >>
      BY <1>2, NoTimers, HeapFacts
    <3>2. /\ t.heap[1].expire \in Nat /\ Deadline(t, g) \in Nat
          /\ t.heap[1].expire <= Deadline(t, g)
      BY <1>2, <3>1, Root
    <3>3. Deadline(t, g) = Deadline(s, g)
      BY <1>2 DEF Removed
    <3>4. ~ (Deadline(s, g) <= now)
      BY <1>1, <3>1, <3>2, <3>3
    <3>. QED BY <3>4 DEF DueIn
  <2>2. Taken(s, t) = DueIn(s)
    BY <1>3, <2>1 DEF Taken, DueIn
  <2>. QED BY <1>2, <1>3, <2>2
<1>4. CASE DOMAIN t.map = {} /\ DueIn(s) = DOMAIN s.map
  <2>1. Taken(s, t) = DueIn(s)
    BY <1>4 DEF Taken
  <2>. QED BY <1>2, <1>4, <2>1
<1>5. CASE \E x : /\ NextIn(s, x) /\ Taken(s, t) = DueIn(s) \cup {x}
                  /\ Cardinality(DueIn(s)) % 2 = 1
  <2>1. PICK x : /\ NextIn(s, x) /\ Taken(s, t) = DueIn(s) \cup {x}
                 /\ Cardinality(DueIn(s)) % 2 = 1
    BY <1>5
  <2>2. Removed(s, t, DueIn(s) \cup {x})
    BY <1>2, <2>1
  <2>3. Cardinality(DueIn(s)) % 2 # 0
    BY <2>1
  <2>. QED BY <1>2, <2>1, <2>2, <2>3
<1>. QED BY <1>1, <1>3, <1>4, <1>5 DEF Ticking
-----------------------------------------------------------------------------
(* The invariant, and the operations on it.                                *)

\* The members are an object in order; the rest has its types.
HeapInv ==
    /\ State \in Heaps /\ ran = {}
    /\ now \in 0 .. MaxTime /\ timeMS \in Nat \cup {-1}

\* What every operation ends with.
LEMMA Becomes ==
    ASSUME NEW t \in Heaps, t.ran = {}, Become(t)
    PROVE  State' = t /\ State' \in Heaps /\ ran' = {} /\ UNCHANGED <<now, timeMS>>
<1>1. t = [heap |-> t.heap, map |-> t.map, cbs |-> t.cbs, ran |-> t.ran]
  BY HeapFacts, ObjectFacts
<1>2. State' = [heap |-> heap_', map |-> map_', cbs |-> cb_map_', ran |-> {}]
  BY DEF State
<1>. QED BY <1>1, <1>2 DEF Become

LEMMA StateFacts ==
    /\ State.heap = heap_ /\ State.map = map_ /\ State.cbs = cb_map_ /\ State.ran = {}
    /\ \A fd : Deadline(State, fd) = heap_[map_[fd]].expire
BY DEF State, Deadline

\* add() and adjust() set the deadline of fd, and of nothing else.
LEMMA AddSets ==
    ASSUME HeapInv, NEW fd \in Fds, NEW timeout \in Timeouts, add(fd, timeout)
    PROVE  /\ State' \in Heaps /\ SetTo(State, State', fd, now + timeout)
           /\ ran' = {} /\ UNCHANGED <<now, timeMS>>
<1>1. PICK s \in Heaps : s = State
  BY DEF HeapInv
<1>2. s.heap = heap_ /\ s.map = map_ /\ s.ran = {}
  BY <1>1, StateFacts
<1>3. PICK x \in Nat : x = now + timeout
  BY HeapTimerAssumption DEF HeapInv
<1>4. CASE fd \in DOMAIN map_
  <2>1. PICK t : t = Adjusted([s EXCEPT !.heap[s.map[fd]] = [expire |-> x, fd |-> fd]],
                              s.map[fd])
    OBVIOUS
  <2>2. Become(t)
    BY <1>1, <1>2, <1>3, <1>4, <2>1 DEF add
  <2>3. fd \in DOMAIN s.map
    BY <1>2, <1>4
  <2>4. t \in Heaps /\ SetTo(s, t, fd, x)
    BY <2>1, <2>3, Updated
  <2>5. t.ran = {}
    BY <1>2, <2>4 DEF SetTo
  <2>6. State' = t /\ ran' = {} /\ UNCHANGED <<now, timeMS>>
    BY <2>2, <2>4, <2>5, Becomes
  <2>. QED BY <1>1, <1>3, <2>4, <2>6
<1>5. CASE fd \notin DOMAIN map_
  <2>1. PICK n : n = Len(s.heap) + 1
    OBVIOUS
  <2>2. PICK t : t = ShiftUp([s EXCEPT !.heap = Append(@, [expire |-> x, fd |-> fd]),
                                       !.map = With(@, fd, n),
                                       !.cbs = @ \cup {fd}], n)
    OBVIOUS
  <2>3. Become(t)
    BY <1>1, <1>2, <1>3, <1>5, <2>1, <2>2 DEF add
  <2>4. fd \in Fds \ DOMAIN s.map
    BY <1>2, <1>5
  <2>5. t \in Heaps /\ SetTo(s, t, fd, x)
    BY <2>1, <2>2, <2>4, Appended
  <2>6. t.ran = {}
    BY <1>2, <2>5 DEF SetTo
  <2>7. State' = t /\ ran' = {} /\ UNCHANGED <<now, timeMS>>
    BY <2>3, <2>5, <2>6, Becomes
  <2>. QED BY <1>1, <1>3, <2>5, <2>7
<1>. QED BY <1>4, <1>5

LEMMA AdjustSets ==
    ASSUME HeapInv, NEW fd \in Fds, NEW timeout \in Timeouts, adjust(fd, timeout)
    PROVE  /\ State' \in Heaps /\ SetTo(State, State', fd, now + timeout)
           /\ ran' = {} /\ UNCHANGED <<now, timeMS>>
<1>1. PICK s \in Heaps : s = State
  BY DEF HeapInv
<1>2. s.heap = heap_ /\ s.map = map_ /\ s.ran = {}
  BY <1>1, StateFacts
<1>3. PICK x \in Nat : x = now + timeout
  BY HeapTimerAssumption DEF HeapInv
<1>4. fd \in DOMAIN s.map
  BY <1>2 DEF adjust
<1>5. PICK i \in 1 .. Len(s.heap) : i = s.map[fd] /\ s.heap[i] \in Node /\ s.heap[i].fd = fd
  <2>1. /\ s.heap \in Seq(Node) /\ DOMAIN s.heap = 1 .. Len(s.heap)
        /\ s.map[fd] \in DOMAIN s.heap /\ s.heap[s.map[fd]].fd = fd
    BY <1>4, HeapFacts, ObjectFacts DEF Indexed
  <2>. QED BY <2>1
<1>6. [s.heap[i] EXCEPT !.expire = x] = [expire |-> x, fd |-> fd]
  BY <1>5 DEF Node
<1>7. PICK t : t = Adjusted([s EXCEPT !.heap[s.map[fd]] = [expire |-> x, fd |-> fd]],
                            s.map[fd])
  OBVIOUS
<1>8. Become(t)
  <2>1. Become(Adjusted([s EXCEPT !.heap[i].expire = x], i))
    BY <1>1, <1>2, <1>3, <1>5 DEF adjust
  <2>2. [s EXCEPT !.heap[i].expire = x] = [s EXCEPT !.heap[i] = [expire |-> x, fd |-> fd]]
    BY <1>6
  <2>. QED BY <1>5, <1>7, <2>1, <2>2
<1>9. t \in Heaps /\ SetTo(s, t, fd, x)
  BY <1>4, <1>7, Updated
<1>10. t.ran = {}
  BY <1>2, <1>9 DEF SetTo
<1>11. State' = t /\ ran' = {} /\ UNCHANGED <<now, timeMS>>
  BY <1>8, <1>9, <1>10, Becomes
<1>. QED BY <1>1, <1>3, <1>9, <1>11

\* do_work() removes the timer it is given, pop() an earliest one.
LEMMA WorkRemoves ==
    ASSUME HeapInv, NEW fd \in Fds, do_work(fd)
    PROVE  /\ State' \in Heaps /\ ran' = {} /\ UNCHANGED <<now, timeMS>>
           /\ IF fd \in DOMAIN map_ THEN Removed(State, State', {fd}) ELSE State' = State
<1>1. PICK s \in Heaps : s = State
  BY DEF HeapInv
<1>2. s.map = map_ /\ s.ran = {}
  BY <1>1, StateFacts
<1>3. PICK t : t = do_work_(s, fd)
  OBVIOUS
<1>4. Become(t)
  BY <1>1, <1>3 DEF do_work
<1>5. t \in Heaps /\ t.ran = {} /\ IF fd \in DOMAIN map_ THEN Removed(s, t, {fd}) ELSE t = s
  <2>1. CASE fd \in DOMAIN map_
    <3>1. fd \in DOMAIN s.map
      BY <1>2, <2>1
    <3>2. t \in Heaps /\ Removed(s, t, {fd})
      BY <1>3, <3>1, WorkDone
    <3>. QED BY <1>2, <2>1, <3>2 DEF Removed
  <2>2. CASE fd \notin DOMAIN map_
    BY <1>2, <1>3, <2>2 DEF do_work_
  <2>. QED BY <2>1, <2>2
<1>6. State' = t /\ ran' = {} /\ UNCHANGED <<now, timeMS>>
  BY <1>4, <1>5, Becomes
<1>. QED BY <1>1, <1>5, <1>6

LEMMA PopRemoves ==
    ASSUME HeapInv, pop
    PROVE  /\ State' \in Heaps /\ ran' = {} /\ UNCHANGED <<now, timeMS>>
           /\ IF heap_ # << >> THEN Removed(State, State', {heap_[1].fd}) ELSE State' = State
<1>1. PICK s \in Heaps : s = State
  BY DEF HeapInv
<1>2. s.heap = heap_ /\ s.ran = {}
  BY <1>1, StateFacts
<1>3. PICK t : t = pop_(s)
  OBVIOUS
<1>4. Become(t)
  BY <1>1, <1>3 DEF pop
<1>5. /\ t \in Heaps /\ t.ran = {}
      /\ IF heap_ # << >> THEN Removed(s, t, {heap_[1].fd}) ELSE t = s
  <2>1. CASE s.heap # << >>
    <3>1. t \in Heaps /\ Removed(s, t, {s.heap[1].fd})
      BY <1>3, <2>1, Popped
    <3>. QED BY <1>2, <2>1, <3>1 DEF Removed
  <2>2. CASE s.heap = << >>
    BY <1>2, <1>3, <2>2 DEF pop_
  <2>. QED BY <2>1, <2>2
<1>6. State' = t /\ ran' = {} /\ UNCHANGED <<now, timeMS>>
  BY <1>4, <1>5, Becomes
<1>. QED BY <1>1, <1>5, <1>6

LEMMA TickRemoves ==
    ASSUME HeapInv, tick
    PROVE  /\ State' \in Heaps /\ ran' = {} /\ UNCHANGED <<now, timeMS>>
           /\ \/ /\ Removed(State, State', DueIn(State))
                 /\ Cardinality(DueIn(State)) % 2 = 0 \/ DueIn(State) = DOMAIN map_
              \/ \E x : /\ NextIn(State, x) /\ Removed(State, State', DueIn(State) \cup {x})
                        /\ Cardinality(DueIn(State)) % 2 # 0
<1>1. PICK s \in Heaps : s = State
  BY DEF HeapInv
<1>2. s.map = map_ /\ s.ran = {} /\ now \in Nat
  BY <1>1, StateFacts DEF HeapInv
<1>3. PICK t : t = Ticked(s)
  OBVIOUS
<1>4. Become(t)
  BY <1>1, <1>3 DEF tick
<1>5. /\ t \in Heaps /\ t.ran = s.ran
      /\ \/ /\ Removed(s, t, DueIn(s))
            /\ Cardinality(DueIn(s)) % 2 = 0 \/ DueIn(s) = DOMAIN s.map
         \/ \E x : /\ NextIn(s, x) /\ Removed(s, t, DueIn(s) \cup {x})
                   /\ Cardinality(DueIn(s)) % 2 # 0
  BY <1>2, <1>3, TickTakes
<1>6. State' = t /\ ran' = {} /\ UNCHANGED <<now, timeMS>>
  BY <1>2, <1>4, <1>5, Becomes
<1>. QED BY <1>1, <1>2, <1>5, <1>6

LEMMA ClearRemoves ==
    ASSUME clear
    PROVE  State' \in Heaps /\ ran' = {} /\ UNCHANGED <<now, timeMS>> /\ DOMAIN map_' = {}
<1>1. PICK t : t = [heap |-> << >>, map |-> << >>, cbs |-> {}, ran |-> {}]
  OBVIOUS
<1>2. t \in Heaps /\ DOMAIN t.map = {} /\ t.ran = {}
  BY <1>1, Cleared
<1>3. Become(t)
  BY <1>1 DEF clear
<1>4. State' = t /\ ran' = {} /\ UNCHANGED <<now, timeMS>>
  BY <1>2, <1>3, Becomes
<1>. QED BY <1>2, <1>3, <1>4 DEF Become
LEMMA InitInv == Init => HeapInv
<1>. SUFFICES ASSUME Init PROVE HeapInv
  OBVIOUS
<1>1. PICK s : s = State
  OBVIOUS
<1>2. s = [heap |-> << >>, map |-> << >>, cbs |-> {}, ran |-> {}]
  BY <1>1 DEF State, Init
<1>3. State \in Heaps
  BY <1>1, <1>2, Cleared
<1>4. now \in 0 .. MaxTime /\ timeMS \in Nat \cup {-1} /\ ran = {}
  BY HeapTimerAssumption, SMT DEF Init
<1>. QED BY <1>3, <1>4 DEF HeapInv

\* What epoll_wait is told: the time to the earliest deadline, or -1.
LEMMA NextTick ==
    ASSUME HeapInv
    PROVE  /\ heap_ = << >> => get_next_tick = -1
           /\ heap_ # << >> =>
                /\ get_next_tick \in Nat
                /\ \A i \in DOMAIN heap_ :
                      \/ heap_[i].expire >= now + get_next_tick
                      \/ get_next_tick = 0 /\ heap_[i].expire <= now
<1>1. ASSUME heap_ # << >>
      PROVE  /\ get_next_tick \in Nat
             /\ \A i \in DOMAIN heap_ :
                   \/ heap_[i].expire >= now + get_next_tick
                   \/ get_next_tick = 0 /\ heap_[i].expire <= now
  <2>1. PICK s \in Heaps : s = State
    BY DEF HeapInv
  <2>2. s.heap = heap_ /\ s.map = map_ /\ now \in Nat
    BY <2>1, StateFacts DEF HeapInv
  <2>3. /\ s.heap[1].expire \in Nat
        /\ \A g \in DOMAIN s.map : Deadline(s, g) \in Nat /\ s.heap[1].expire <= Deadline(s, g)
    BY <1>1, <2>2, Root
  <2>4. \A i \in DOMAIN s.heap : s.heap[i].fd \in DOMAIN s.map /\ s.map[s.heap[i].fd] = i
    BY HeapFacts, ObjectFacts DEF Indexed
  <2>5. \A i \in DOMAIN s.heap : s.heap[i].expire = Deadline(s, s.heap[i].fd)
    BY <2>4 DEF Deadline
  <2>6. PICK r \in Nat : r = heap_[1].expire
    BY <2>2, <2>3
  <2>7. \A i \in DOMAIN heap_ : heap_[i].expire \in Nat /\ r <= heap_[i].expire
    BY <2>2, <2>3, <2>4, <2>5, <2>6
  <2>8. get_next_tick = IF r > now THEN r - now ELSE 0
    BY <1>1, <2>6 DEF get_next_tick
  <2>9. CASE r > now
    <3>1. get_next_tick = r - now /\ r - now \in Nat
      BY <2>2, <2>8, <2>9
    <3>2. ASSUME NEW i \in DOMAIN heap_ PROVE heap_[i].expire >= now + get_next_tick
      <4>1. heap_[i].expire \in Nat /\ r <= heap_[i].expire
        BY <2>7
      <4>. QED BY <2>2, <3>1, <4>1
    <3>. QED BY <3>1, <3>2
  <2>10. CASE ~ (r > now)
    <3>1. get_next_tick = 0
      BY <2>8, <2>10
    <3>2. ASSUME NEW i \in DOMAIN heap_
          PROVE  heap_[i].expire >= now + get_next_tick \/ heap_[i].expire <= now
      <4>1. heap_[i].expire \in Nat
        BY <2>7
      <4>. QED BY <2>2, <3>1, <4>1
    <3>. QED BY <3>1, <3>2
  <2>. QED BY <2>9, <2>10
<1>2. heap_ = << >> => get_next_tick = -1
  BY DEF get_next_tick
<1>. QED BY <1>1, <1>2

LEMMA NextInv == HeapInv /\ [Next]_vars => HeapInv'
<1>. SUFFICES ASSUME HeapInv, [Next]_vars PROVE HeapInv'
  OBVIOUS
<1>0. ASSUME State' \in Heaps, ran' = {}, UNCHANGED <<now, timeMS>>
      PROVE  HeapInv'
  <2>1. now' \in 0 .. MaxTime /\ timeMS' \in Nat \cup {-1}
    <3>1. now' = now /\ timeMS' = timeMS
      BY <1>0
    <3>. QED BY <3>1 DEF HeapInv
  <2>. QED BY <1>0, <2>1 DEF HeapInv
<1>1. ASSUME NEW fd \in Fds, NEW timeout \in Timeouts, add(fd, timeout)
      PROVE  HeapInv'
  BY <1>0, <1>1, AddSets
<1>2. ASSUME NEW fd \in Fds, NEW timeout \in Timeouts, adjust(fd, timeout)
      PROVE  HeapInv'
  BY <1>0, <1>2, AdjustSets
<1>3. ASSUME NEW fd \in Fds, do_work(fd) PROVE HeapInv'
  BY <1>0, <1>3, WorkRemoves
<1>4. CASE tick
  BY <1>0, <1>4, TickRemoves
<1>5. CASE pop
  BY <1>0, <1>5, PopRemoves
<1>6. CASE clear
  BY <1>0, <1>6, ClearRemoves
<1>7. CASE Turn
  <2>1. State' = State /\ ran' = ran /\ now' = now
    BY <1>7 DEF Turn, State
  <2>2. timeMS' \in Nat \cup {-1}
    BY <1>7, NextTick DEF Turn
  <2>. QED BY <2>1, <2>2 DEF HeapInv
<1>8. CASE Tock
  <2>1. State' = State /\ ran' = ran /\ timeMS' = timeMS
    BY <1>8 DEF Tock, State
  <2>2. now' \in 0 .. MaxTime
    BY <1>8, HeapTimerAssumption DEF Tock, HeapInv
  <2>. QED BY <2>1, <2>2 DEF HeapInv
<1>9. CASE UNCHANGED vars
  <2>1. State' = State /\ UNCHANGED <<ran, now, timeMS>>
    BY <1>9 DEF vars, State
  <2>. QED BY <2>1 DEF HeapInv
<1>. QED BY <1>1, <1>2, <1>3, <1>4, <1>5, <1>6, <1>7, <1>8, <1>9 DEF Next, ServerNext

\* The heap, its index and its callbacks stay one object in order.
THEOREM Invariant == Spec => []HeapInv
<1>1. Init => HeapInv
  BY InitInv
<1>2. HeapInv /\ [Next]_vars => HeapInv'
  BY NextInv
<1>. QED BY <1>1, <1>2, PTL DEF Spec

LEMMA HeapInvImplies == HeapInv => TypeOK /\ HeapOrdered /\ MapExact
<1>. SUFFICES ASSUME HeapInv PROVE TypeOK /\ HeapOrdered /\ MapExact
  OBVIOUS
<1>1. PICK s \in Heaps : s = State
  BY DEF HeapInv
<1>2. s.heap = heap_ /\ s.map = map_ /\ s.cbs = cb_map_
  BY <1>1, StateFacts
<1>3. PICK L \in Nat : s \in Objects /\ L = Len(s.heap)
  BY HeapFacts
<1>4. TypeOK
  <2>1. s.heap \in Seq(Node) /\ s.map \in Maps /\ s.cbs \subseteq Fds
    BY <1>3, ObjectFacts
  <2>2. DOMAIN s.map \subseteq Fds
    BY <2>1, MapType
  <2>3. heap_ \in Seq([expire : Nat, fd : Fds])
    BY <1>2, <2>1 DEF Node
  <2>4. ran \subseteq Fds /\ now \in 0 .. MaxTime /\ timeMS \in Nat \cup {-1}
    BY DEF HeapInv
  <2>5. DOMAIN map_ \subseteq Fds /\ cb_map_ \subseteq Fds
    BY <1>2, <2>1, <2>2
  <2>. QED BY <2>3, <2>4, <2>5 DEF TypeOK
<1>5. HeapOrdered
  <2>1. PICK e \in [1 .. L -> Nat] :
            e = Keys(s) /\ Sorted(e, L) /\ \A j \in 1 .. L : e[j] = s.heap[j].expire
    BY <1>3, HeapFacts
  <2>2. ASSUME NEW i \in 2 .. Len(heap_)
        PROVE  heap_[i].expire >= heap_[i \div 2].expire
    <3>1. i \in 2 .. L
      BY <1>2, <1>3
    <3>2. i \in 1 .. L /\ i \div 2 \in 1 .. L
      BY <3>1, Father
    <3>3. e[i \div 2] <= e[i]
      BY <2>1, <3>1 DEF Sorted
    <3>4. e[i] = heap_[i].expire /\ e[i \div 2] = heap_[i \div 2].expire
      BY <1>2, <2>1, <3>2
    <3>5. e[i] \in Nat /\ e[i \div 2] \in Nat
      BY <3>2
    <3>. QED BY <3>3, <3>4, <3>5
  <2>. QED BY <2>2 DEF HeapOrdered
<1>6. MapExact
  BY <1>2, <1>3, ObjectFacts DEF Indexed, MapExact
<1>. QED BY <1>4, <1>5, <1>6

\* The members keep their types: TypeOK.
THEOREM TypeCorrect == Spec => []TypeOK
BY Invariant, HeapInvImplies, PTL

\* Whatever the operations and their order, no node is earlier than its
\* father: HeapOrdered, what shift_up_ and shift_down_ are for.
THEOREM Ordered == Spec => []HeapOrdered
BY Invariant, HeapInvImplies, PTL

\* map_ says of every descriptor where its only node is: MapExact, what
\* swap_node_ and del_ keep up to date.
THEOREM Exact == Spec => []MapExact
BY Invariant, HeapInvImplies, PTL

\* No operation ever calls a callback: do_work looks for it where del_ has
\* just erased it (heaptimer.cpp:102).
THEOREM CallsNothing == Spec => [](ran = {})
<1>1. HeapInv => ran = {}
  BY DEF HeapInv
<1>. QED BY <1>1, Invariant, PTL

\* What the server does with the class is among the behaviours of Spec.
THEOREM ServerIsSpec == ServerSpec => Spec
<1>1. [ServerNext]_vars => [Next]_vars
  BY DEF Next
<1>. QED BY <1>1, PTL DEF ServerSpec, Spec

\* epoll_wait is told to wait for the earliest deadline: WaitsForEarliest, what
\* get_next_tick reads off the root.
THEOREM Waits == Spec => WaitsForEarliest
<1>1. HeapInv => (Turn => \/ heap_ = << >> /\ timeMS' = -1
                          \/ /\ timeMS' >= 0
                             /\ \A i \in DOMAIN heap_ :
                                   \/ heap_[i].expire >= now + timeMS'
                                   \/ timeMS' = 0 /\ heap_[i].expire <= now)
  <2>. SUFFICES ASSUME HeapInv, Turn
                PROVE  \/ heap_ = << >> /\ timeMS' = -1
                       \/ /\ timeMS' >= 0
                          /\ \A i \in DOMAIN heap_ :
                                \/ heap_[i].expire >= now + timeMS'
                                \/ timeMS' = 0 /\ heap_[i].expire <= now
    OBVIOUS
  <2>1. timeMS' = get_next_tick
    BY DEF Turn
  <2>2. CASE heap_ = << >>
    BY <2>1, <2>2, NextTick
  <2>3. CASE heap_ # << >>
    <3>1. /\ timeMS' \in Nat
          /\ \A i \in DOMAIN heap_ :
                \/ heap_[i].expire >= now + timeMS'
                \/ timeMS' = 0 /\ heap_[i].expire <= now
      BY <2>1, <2>3, NextTick
    <3>2. timeMS' >= 0
      BY <3>1
    <3>. QED BY <3>1, <3>2
  <2>. QED BY <2>2, <2>3
<1>. QED BY <1>1, Invariant, PTL DEF WaitsForEarliest
-----------------------------------------------------------------------------
(* The heap implements a map of deadlines: the operations, as steps of      *)
(* TimerMap.                                                                *)

\* What TimerMap sees of the heap.
LEMMA Seen ==
    /\ Timers!Active = DOMAIN map_ /\ DueIn(State) = Timers!Due
    /\ DueIn(State) \subseteq DOMAIN map_
    /\ \A fd \in DOMAIN map_ : Deadline(State, fd) = heap_[map_[fd]].expire
<1>1. State.map = map_ /\ \A fd : Deadline(State, fd) = heap_[map_[fd]].expire
  BY StateFacts
<1>2. Timers!Active = DOMAIN map_
  BY DEF Timers!Active, deadlines
<1>3. DueIn(State) = Timers!Due
  BY <1>1, <1>2 DEF DueIn, Timers!Due, deadlines
<1>. QED BY <1>1, <1>2, <1>3 DEF DueIn

LEMMA SeenNext ==
    /\ State'.map = map_'
    /\ \A fd : Deadline(State', fd) = heap_'[map_'[fd]].expire
BY DEF State, Deadline

LEMMA SetStep ==
    ASSUME NEW fd \in Fds, NEW timeout \in Timeouts,
           SetTo(State, State', fd, now + timeout), now' = now
    PROVE  Timers!Set(fd)
<1>1. /\ DOMAIN map_' = DOMAIN map_ \cup {fd}
      /\ heap_'[map_'[fd]].expire = now + timeout
      /\ \A g \in DOMAIN map_ \ {fd} : heap_'[map_'[g]].expire = heap_[map_[g]].expire
  BY StateFacts, SeenNext DEF SetTo
<1>2. [g \in DOMAIN map_' |-> heap_'[map_'[g]].expire]
        = [g \in DOMAIN map_ \cup {fd} |->
              IF g = fd THEN now + timeout
              ELSE deadlines[g]]
  BY <1>1 DEF deadlines
<1>. QED BY <1>2, Seen DEF Timers!Set, deadlines

LEMMA WithoutStep ==
    ASSUME NEW S, Removed(State, State', S)
    PROVE  Timers!Without(S)
<1>1. /\ DOMAIN map_' = DOMAIN map_ \ S
      /\ \A g \in DOMAIN map_' : heap_'[map_'[g]].expire = heap_[map_[g]].expire
  BY StateFacts, SeenNext DEF Removed
<1>2. [g \in DOMAIN map_' |-> heap_'[map_'[g]].expire]
        = [g \in DOMAIN map_ \ S |-> deadlines[g]]
  BY <1>1 DEF deadlines
<1>. QED BY <1>2, Seen DEF Timers!Without, Timers!Restrict, deadlines

\* A tick takes the timers that are due, or one too many.
LEMMA ExpireStep ==
    ASSUME HeapInv, tick, DueIn(State) # {}
    PROVE  Timers!Expire \/ TakesEarly
<1>1. /\ now' = now
      /\ \/ Removed(State, State', DueIn(State))
         \/ \E x : NextIn(State, x) /\ Removed(State, State', DueIn(State) \cup {x})
  BY TickRemoves
<1>2. CASE Removed(State, State', DueIn(State))
  <2>1. Timers!Without(DueIn(State))
    BY <1>2, WithoutStep
  <2>. QED BY <1>1, <2>1, Seen DEF Timers!Expire
<1>3. ASSUME NEW x, NextIn(State, x), Removed(State, State', DueIn(State) \cup {x})
      PROVE  TakesEarly
  <2>1. x \in DOMAIN map_ /\ x \notin DueIn(State)
    BY <1>3, StateFacts DEF NextIn
  <2>2. x \notin DOMAIN map_'
    BY <1>3, StateFacts, SeenNext DEF Removed
  <2>3. heap_[map_[x]].expire > now
    <3>1. ~(heap_[map_[x]].expire <= now)
      BY <2>1, Seen DEF DueIn, State, Deadline
    <3>2. heap_[map_[x]].expire \in Nat /\ now \in Nat
      <4>1. PICK s \in Heaps : s = State
        BY DEF HeapInv
      <4>2. s.heap = heap_ /\ s.map = map_ /\ now \in Nat
        BY <4>1, StateFacts DEF HeapInv
      <4>3. s.map[x] \in 1 .. Len(s.heap)
        BY <2>1, <4>2, HeapFacts, ObjectFacts DEF Indexed
      <4>. QED BY <4>2, <4>3, HeapFacts, ObjectFacts
    <3>. QED BY <3>1, <3>2
  <2>. QED BY <2>1, <2>2, <2>3 DEF TakesEarly
<1>. QED BY <1>1, <1>2, <1>3

LEMMA EarliestStep ==
    ASSUME HeapInv, pop, heap_ # << >>
    PROVE  Timers!RemoveEarliest
<1>1. Removed(State, State', {heap_[1].fd}) /\ now' = now
  BY PopRemoves
<1>2. PICK s \in Heaps : s = State
  BY DEF HeapInv
<1>3. s.heap = heap_ /\ s.map = map_
  BY <1>2, StateFacts
<1>4. PICK fd \in DOMAIN map_ : /\ fd = heap_[1].fd
                                /\ \A g \in DOMAIN map_ : Deadline(s, fd) <= Deadline(s, g)
  BY <1>3, Root
<1>5. \A g \in DOMAIN map_ : heap_[map_[fd]].expire <= heap_[map_[g]].expire
  BY <1>2, <1>4, Seen
<1>6. fd \in Timers!Earliest(Timers!Active)
  BY <1>4, <1>5, Seen DEF Timers!Earliest, deadlines
<1>7. Timers!Without({fd})
  BY <1>1, <1>4, WithoutStep
<1>. QED BY <1>1, <1>6, <1>7 DEF Timers!RemoveEarliest

\* Nothing that TimerMap sees has changed.
LEMMA SeenSame ==
    ASSUME State' = State, now' = now
    PROVE  UNCHANGED <<deadlines, now>>
<1>1. map_' = map_ /\ heap_' = heap_
  BY StateFacts DEF State
<1>. QED BY <1>1 DEF deadlines

\* Every step of the heap is a step of the map of deadlines, changes nothing
\* in it, or is a tick that takes a timer too early.
LEMMA MapStep ==
    HeapInv /\ [Next]_vars => [Timers!Next]_<<deadlines, now>> \/ TakesEarly
<1>. SUFFICES ASSUME HeapInv, [Next]_vars
              PROVE  \/ Timers!Next \/ TakesEarly
                     \/ UNCHANGED <<deadlines, now>>
  OBVIOUS
<1>1. ASSUME NEW fd \in Fds, NEW timeout \in Timeouts, add(fd, timeout) \/ adjust(fd, timeout)
      PROVE  Timers!Next
  <2>1. SetTo(State, State', fd, now + timeout) /\ now' = now
    BY <1>1, AddSets, AdjustSets
  <2>2. Timers!Set(fd)
    BY <2>1, SetStep
  <2>. QED BY <2>2 DEF Timers!Next
<1>2. ASSUME NEW fd \in Fds, do_work(fd)
      PROVE  \/ Timers!Next
             \/ UNCHANGED <<deadlines, now>>
  <2>1. CASE fd \in DOMAIN map_
    <3>1. Removed(State, State', {fd}) /\ now' = now
      BY <1>2, <2>1, WorkRemoves
    <3>2. Timers!Without({fd})
      BY <3>1, WithoutStep
    <3>3. Timers!Remove(fd)
      BY <2>1, <3>1, <3>2, Seen DEF Timers!Remove
    <3>. QED BY <3>3 DEF Timers!Next
  <2>2. CASE fd \notin DOMAIN map_
    <3>1. State' = State /\ now' = now
      BY <1>2, <2>2, WorkRemoves
    <3>. QED BY <3>1, SeenSame
  <2>. QED BY <2>1, <2>2
<1>3. CASE tick
  <2>1. CASE DueIn(State) # {}
    BY <1>3, <2>1, ExpireStep DEF Timers!Next
  <2>2. CASE DueIn(State) = {}
    <3>1. now' = now /\ Removed(State, State', {})
      <4>1. Cardinality(DueIn(State)) % 2 = 0
        <5>1. Cardinality(DueIn(State)) = 0
          BY <2>2, FS_EmptySet
        <5>. QED BY <5>1
      <4>. QED BY <1>3, <2>2, <4>1, TickRemoves
    <3>2. /\ DOMAIN map_' = DOMAIN map_
          /\ \A g \in DOMAIN map_ : heap_'[map_'[g]].expire = heap_[map_[g]].expire
      BY <3>1, StateFacts, SeenNext DEF Removed
    <3>. QED BY <3>1, <3>2 DEF deadlines
  <2>. QED BY <2>1, <2>2
<1>4. CASE pop
  <2>1. CASE heap_ # << >>
    BY <1>4, <2>1, EarliestStep DEF Timers!Next
  <2>2. CASE heap_ = << >>
    <3>1. State' = State /\ now' = now
      BY <1>4, <2>2, PopRemoves
    <3>. QED BY <3>1, SeenSame
  <2>. QED BY <2>1, <2>2
<1>5. CASE clear
  <2>1. DOMAIN map_' = {} /\ now' = now
    BY <1>5, ClearRemoves
  <2>2. Removed(State, State', DOMAIN map_)
    BY <1>5, <2>1, StateFacts, SeenNext DEF Removed, State
  <2>3. Timers!Without(Timers!Active)
    <3>1. PICK W : W = DOMAIN map_
      OBVIOUS
    <3>2. Timers!Without(W)
      BY <2>2, <3>1, WithoutStep
    <3>. QED BY <3>1, <3>2, Seen DEF Timers!Without
  <2>. QED BY <2>1, <2>3 DEF Timers!Clear, Timers!Next
<1>6. CASE Turn
  <2>1. State' = State /\ now' = now
    BY <1>6 DEF Turn, State
  <2>. QED BY <2>1, SeenSame
<1>7. CASE Tock
  BY <1>7 DEF Tock, Timers!Tock, Timers!Next, deadlines
<1>8. CASE UNCHANGED vars
  <2>1. State' = State /\ now' = now
    BY <1>8 DEF vars, State
  <2>. QED BY <2>1, SeenSame
<1>. QED BY <1>1, <1>2, <1>3, <1>4, <1>5, <1>6, <1>7, <1>8 DEF Next, ServerNext

LEMMA MapInit == Init => Timers!Init
<1>. SUFFICES ASSUME Init PROVE Timers!Init
  OBVIOUS
<1>1. map_ = << >> /\ now = 0
  BY DEF Init
<1>2. deadlines = << >>
  BY <1>1 DEF deadlines
<1>. QED BY <1>1, <1>2 DEF Timers!Init

\* The heap implements a map of deadlines: ImplementsTimerMap.  For a heap of
\* any size every operation does to the deadlines what TimerMap says, and the
\* one that does not is the tick whose second pop finds a timer that is not due.
THEOREM ImplementsMap == Spec => ImplementsTimerMap
<1>1. Init => Timers!Init
  BY MapInit
<1>2. HeapInv /\ [Next]_vars => [Timers!Next]_<<deadlines, now>> \/ TakesEarly
  BY MapStep
<1>. QED BY <1>1, <1>2, Invariant, PTL DEF Spec, ImplementsTimerMap

-----------------------------------------------------------------------------
(* The life of the process (module Server) around the timer, for any       *)
(* workers, ports, connections and signals.                                *)

CONSTANTS Workers, Connections, Ports, MaxTasks, MaxSignals

VARIABLES pc, destroyed, c_port, listenFd, g_server, is_running, logging, missed, signals,
          alive, tasks, pool_running, connQue, at, dangling, badClose

Life == INSTANCE Server

\* What Server assumes of its constants.
LifeAssumption ==
    /\ Connections \subseteq Nat /\ Ports \subseteq Nat
    /\ MaxTasks \in Nat /\ MaxSignals \in Nat

Gone == \A w \in Workers : at[w] = "gone"

\* The members go one after the other, from the end of the loop on, and the
\* timer, the last, only when the pool has joined its threads.
InTurn ==
    /\ pc \notin {"members", "exited", "deadlocked"} => destroyed = 0
    /\ pc = "members" => destroyed < Len(Life!members)
    /\ pc = "members" /\ destroyed = Len(Life!members) - 1 => Gone

LifeInv == Life!TypeOK /\ InTurn /\ Life!TimerOutlivesWorkers
-----------------------------------------------------------------------------
(* What the definitions say.                                               *)

LEMMA MembersAre ==
    /\ Len(Life!members) = 4
    /\ Life!members[1] = "users" /\ Life!members[2] = "epoller"
    /\ Life!members[3] = "threadpool" /\ Life!members[4] = "timer"
BY DEF Life!members

LEMMA PortIsNat ==
    ASSUME NEW n \in Nat
    PROVE  Life!uint16(n) \in Nat
BY DEF Life!uint16

\* No step of a worker wakes one that has ended, and none uses the timer
\* without being there.
LEMMA UseReturns ==
    ASSUME LifeInv, NEW w \in Workers, at[w] # "gone",
           NEW objects \in SUBSET Life!Objects, Life!Uses(objects)
    PROVE  dangling' \subseteq Life!Objects /\ "timer" \notin dangling'
<1>1. "timer" \in alive
  BY DEF LifeInv, Life!TimerOutlivesWorkers
<1>. QED BY <1>1 DEF Life!Uses, LifeInv, Life!TypeOK, Life!TimerOutlivesWorkers
-----------------------------------------------------------------------------
(* Invariance.                                                             *)

LEMMA LifeInit == LifeAssumption /\ Life!Init => LifeInv
<1>. SUFFICES ASSUME LifeAssumption, Life!Init PROVE LifeInv
  OBVIOUS
<1>1. Life!TypeOK
  <2>1. /\ 0 \in 0 .. MaxTasks /\ 0 \in 0 .. MaxSignals /\ 0 \in 0 .. Len(Life!members)
        /\ [w \in Workers |-> "gone"] \in [Workers -> {"gone"}]
    BY MembersAre DEF LifeAssumption
  <2>. QED BY <2>1 DEF Life!Init, Life!TypeOK
<1>2. InTurn
  BY MembersAre DEF Life!Init, InTurn
<1>3. Life!TimerOutlivesWorkers
  BY DEF Life!Init, Life!TimerOutlivesWorkers
<1>. QED BY <1>1, <1>2, <1>3 DEF LifeInv

\* The main thread up to the end of the loop, and the signal.
LEMMA RunKeeps ==
    ASSUME LifeAssumption, LifeInv,
           \/ Life!InitSocket_ \/ Life!Publish \/ Life!Start \/ Life!Test \/ Life!Wait \/ Life!Wake
           \/ Life!LogBegins \/ Life!LogEnds \/ Life!Submit \/ Life!Handled \/ Life!Signal
    PROVE  LifeInv'
<1>. USE DEF LifeAssumption, Life!mainVars, Life!workerVars, Life!idleVars
<1>1. UNCHANGED <<destroyed, c_port, badClose, alive, pool_running, connQue, at, dangling>>
  BY DEF Life!InitSocket_, Life!Publish, Life!Start, Life!Test, Life!Wait, Life!Wake, Life!LogBegins,
         Life!LogEnds, Life!Submit, Life!Handled, Life!Signal
<1>2. /\ pc' \in {"initSocket", "publish", "start", "test", "toWait", "wait", "handle", "close"}
         \/ pc' = pc \/ pc' = "deadlocked"
      /\ pc' = "members" => pc = "members"
      /\ pc' \notin {"members", "exited", "deadlocked"}
            => pc \notin {"members", "exited", "deadlocked"}
  BY DEF Life!InitSocket_, Life!Publish, Life!Start, Life!Test, Life!Wait, Life!Wake, Life!LogBegins,
         Life!LogEnds, Life!Submit, Life!Handled, Life!Signal
<1>3. Life!TypeOK'
  <2>1. /\ listenFd' \in {"garbage", "none", "open", "closed"}
        /\ g_server' \in BOOLEAN /\ is_running' \in BOOLEAN /\ logging' \in BOOLEAN
        /\ missed' \in BOOLEAN
    BY DEF LifeInv, Life!TypeOK,
           Life!InitSocket_, Life!Publish, Life!Start, Life!Test, Life!Wait, Life!Wake, Life!LogBegins,
           Life!LogEnds, Life!Submit, Life!Handled, Life!Signal
  <2>2. signals' \in 0 .. MaxSignals /\ tasks' \in 0 .. MaxTasks
    BY DEF LifeInv, Life!TypeOK,
           Life!InitSocket_, Life!Publish, Life!Start, Life!Test, Life!Wait, Life!Wake, Life!LogBegins,
           Life!LogEnds, Life!Submit, Life!Handled, Life!Signal
  <2>. QED BY <1>1, <1>2, <2>1, <2>2 DEF LifeInv, Life!TypeOK
<1>4. InTurn'
  BY <1>1, <1>2 DEF LifeInv, InTurn, Gone
<1>5. Life!TimerOutlivesWorkers'
  BY <1>1 DEF LifeInv, Life!TimerOutlivesWorkers
<1>. QED BY <1>3, <1>4, <1>5 DEF LifeInv

LEMMA WorkerKeeps ==
    ASSUME LifeAssumption, LifeInv, NEW w \in Workers, Life!WorkerStep(w)
    PROVE  LifeInv'
<1>. USE DEF LifeAssumption, Life!mainVars, Life!othersUnchanged
<1>1. UNCHANGED <<Life!mainVars, logging, signals, alive, pool_running>>
  BY DEF Life!WorkerStep, Life!NewThread, Life!UseClient, Life!GetConnection,
         Life!FreeConnection, Life!Query, Life!Respond,
         Life!Arm, Life!CloseConn_
<1>2. at[w] # "gone"
  BY DEF Life!WorkerStep, Life!NewThread, Life!UseClient, Life!GetConnection,
         Life!FreeConnection, Life!Query, Life!Respond,
         Life!Arm, Life!CloseConn_
<1>3. PICK l \in {"idle", "client", "getConnection", "freeConnection", "query",
                  "respond", "arm", "closeConn", "doWork", "gone"} :
         at' = [at EXCEPT ![w] = l]
  BY DEF Life!WorkerStep, Life!NewThread, Life!UseClient, Life!GetConnection,
         Life!FreeConnection, Life!Query, Life!Respond,
         Life!Arm, Life!CloseConn_, Life!Goto
<1>4. tasks' \in 0 .. MaxTasks /\ connQue' \in Nat
  BY DEF LifeInv, Life!TypeOK, Life!WorkerStep, Life!NewThread, Life!UseClient,
         Life!GetConnection, Life!FreeConnection,
         Life!Query, Life!Respond, Life!Arm, Life!CloseConn_
<1>5. dangling' \subseteq Life!Objects /\ "timer" \notin dangling'
  <2>1. UNCHANGED dangling \/ \E objects \in SUBSET Life!Objects : Life!Uses(objects)
    BY DEF Life!WorkerStep, Life!NewThread, Life!UseClient, Life!GetConnection,
           Life!FreeConnection, Life!Query, Life!Respond,
           Life!Arm, Life!CloseConn_, Life!Objects
  <2>. QED BY <1>2, <2>1, UseReturns DEF LifeInv, Life!TypeOK, Life!TimerOutlivesWorkers
<1>6. Life!TypeOK'
  BY <1>1, <1>3, <1>4, <1>5 DEF LifeInv, Life!TypeOK
<1>7. InTurn'
  BY <1>1, <1>2 DEF LifeInv, InTurn, Gone
<1>8. Life!TimerOutlivesWorkers'
  BY <1>1, <1>2, <1>5 DEF LifeInv, Life!TimerOutlivesWorkers
<1>. QED BY <1>6, <1>7, <1>8 DEF LifeInv

\* One member more is gone; the pool's threads have ended before the timer's turn.
LEMMA DestroyKeeps == LifeInv /\ Life!DestroyMember => LifeInv'
<1>. SUFFICES ASSUME LifeInv, Life!DestroyMember PROVE LifeInv'
  OBVIOUS
<1>. USE MembersAre DEF Life!workerVars, Life!endVars
<1>1. /\ pc = "members" /\ destroyed \in 0 .. 3 /\ alive \subseteq Life!Objects
      /\ UNCHANGED <<Life!endVars, listenFd, is_running, badClose, Life!workerVars>>
      /\ pc' = IF destroyed' = 4 THEN "exited" ELSE "members"
  BY DEF Life!DestroyMember, LifeInv, Life!TypeOK, InTurn
<1>. DEFINE m == Life!members[destroyed + 1]
<1>2. /\ destroyed = 0 => m = "users"
      /\ destroyed = 1 => m = "epoller"
      /\ destroyed = 2 => m = "threadpool"
      /\ destroyed = 3 => m = "timer"
  BY <1>1
<1>. HIDE DEF m
<1>3. CASE m # "threadpool" /\ alive' = alive \ {m} /\ destroyed' = destroyed + 1
           /\ UNCHANGED pool_running
  <2>1. Life!TypeOK'
    BY <1>1, <1>3 DEF LifeInv, Life!TypeOK
  <2>2. InTurn'
    BY <1>1, <1>2, <1>3 DEF InTurn
  <2>3. Life!TimerOutlivesWorkers'
    BY <1>1, <1>2, <1>3 DEF LifeInv, InTurn, Gone, Life!TimerOutlivesWorkers
  <2>. QED BY <2>1, <2>2, <2>3 DEF LifeInv
<1>4. CASE pool_running' = FALSE /\ UNCHANGED <<alive, destroyed>>
  <2>1. Life!TypeOK'
    BY <1>1, <1>4 DEF LifeInv, Life!TypeOK
  <2>2. InTurn'
    BY <1>1, <1>4 DEF LifeInv, InTurn, Gone
  <2>3. Life!TimerOutlivesWorkers'
    BY <1>1, <1>4 DEF LifeInv, Life!TimerOutlivesWorkers
  <2>. QED BY <2>1, <2>2, <2>3 DEF LifeInv
<1>5. CASE Gone /\ destroyed' = destroyed + 1 /\ UNCHANGED <<alive, pool_running>>
  <2>1. Life!TypeOK'
    BY <1>1, <1>5 DEF LifeInv, Life!TypeOK
  <2>2. InTurn'
    BY <1>1, <1>5 DEF InTurn, Gone
  <2>3. Life!TimerOutlivesWorkers'
    BY <1>1, <1>5 DEF LifeInv, Life!TimerOutlivesWorkers
  <2>. QED BY <2>1, <2>2, <2>3 DEF LifeInv
<1>. QED BY <1>3, <1>4, <1>5 DEF Life!DestroyMember, m, Gone

LEMMA LifeNext == LifeAssumption /\ LifeInv /\ [Life!Next]_(Life!vars) => LifeInv'
<1>. SUFFICES ASSUME LifeAssumption, LifeInv, [Life!Next]_(Life!vars) PROVE LifeInv'
  OBVIOUS
<1>. USE MembersAre DEF LifeAssumption, Life!mainVars, Life!workerVars, Life!endVars
<1>1. CASE Life!Configure
  <2>1. c_port' \in Nat /\ pc' \in {"construct", "exited"} /\ pc = "configure"
    BY <1>1, PortIsNat DEF Life!Configure, LifeInv, Life!TypeOK
  <2>2. Life!TypeOK'
    BY <1>1, <2>1 DEF Life!Configure, LifeInv, Life!TypeOK
  <2>3. InTurn' /\ Life!TimerOutlivesWorkers'
    BY <1>1, <2>1 DEF Life!Configure, LifeInv, InTurn, Life!TimerOutlivesWorkers
  <2>. QED BY <2>2, <2>3 DEF LifeInv
<1>2. CASE Life!Construct
  <2>1. Life!TypeOK'
    BY <1>2 DEF Life!Construct, LifeInv, Life!TypeOK
  <2>2. InTurn' /\ Life!TimerOutlivesWorkers'
    BY <1>2 DEF Life!Construct, LifeInv, InTurn, Life!TimerOutlivesWorkers, Life!Objects
  <2>. QED BY <2>1, <2>2 DEF LifeInv
<1>3. CASE \/ Life!InitSocket_ \/ Life!Publish \/ Life!Start \/ Life!Test \/ Life!Wait \/ Life!Wake
           \/ Life!LogBegins \/ Life!LogEnds \/ Life!Submit \/ Life!Handled \/ Life!Signal
  BY <1>3, RunKeeps
<1>4. CASE Life!Close \/ Life!ClosePool
  <2>1. /\ pc \in {"close", "closePool"} /\ pc' \in {"closePool", "members"}
        /\ UNCHANGED <<Life!endVars, destroyed, pool_running, tasks, at, dangling>>
        /\ "timer" \in alive => "timer" \in alive'
    BY <1>4 DEF Life!Close, Life!ClosePool
  <2>2. /\ listenFd' \in {"garbage", "none", "open", "closed"} /\ is_running' \in BOOLEAN
        /\ badClose' \in BOOLEAN /\ connQue' \in Nat
        /\ alive' \subseteq Life!Objects
    <3>1. CASE Life!Close
      <4>1. badClose' \in BOOLEAN
        BY <3>1 DEF Life!Close
      <4>. QED BY <3>1, <4>1 DEF Life!Close, LifeInv, Life!TypeOK
    <3>2. CASE Life!ClosePool
      BY <3>2 DEF Life!ClosePool, LifeInv, Life!TypeOK
    <3>. QED BY <1>4, <3>1, <3>2
  <2>3. InTurn' /\ Life!TimerOutlivesWorkers'
    BY <2>1 DEF LifeInv, InTurn, Life!TimerOutlivesWorkers
  <2>4. Life!TypeOK'
    BY <2>1, <2>2 DEF LifeInv, Life!TypeOK
  <2>. QED BY <2>3, <2>4 DEF LifeInv
<1>5. CASE Life!DestroyMember
  BY <1>5, DestroyKeeps
<1>6. ASSUME NEW w \in Workers, Life!WorkerStep(w) PROVE LifeInv'
  BY <1>6, WorkerKeeps
<1>7. CASE UNCHANGED Life!vars
  BY <1>7 DEF Life!vars, LifeInv, Life!TypeOK, InTurn, Gone, Life!TimerOutlivesWorkers
<1>. QED BY <1>1, <1>2, <1>3, <1>4, <1>5, <1>6, <1>7 DEF Life!Next, Life!MainStep

LEMMA LifeInvariant == LifeAssumption => (Life!Spec => []LifeInv)
<1>. SUFFICES ASSUME LifeAssumption PROVE Life!Spec => []LifeInv
  OBVIOUS
<1>1. Life!Init => LifeInv
  BY LifeInit
<1>2. LifeInv /\ [Life!Next]_(Life!vars) => LifeInv'
  BY LifeNext
<1>. QED BY <1>1, <1>2, PTL DEF Life!Spec

\* The variables keep their types.
THEOREM LifeTypeCorrect == LifeAssumption => (Life!Spec => []Life!TypeOK)
BY LifeInvariant, PTL DEF LifeInv

\* The timer is there as long as a worker is, and no handler works on a
\* destroyed heap: the members go in the reverse order of their declaration in
\* webserver.h, and the pool joins its threads before the timer's turn.
THEOREM TimerOutlives == LifeAssumption => (Life!Spec => []Life!TimerOutlivesWorkers)
BY LifeInvariant, PTL DEF LifeInv
=============================================================================
