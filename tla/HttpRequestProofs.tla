-------------------------- MODULE HttpRequestProofs --------------------------
(* Theorems about HttpRequest, for streams of any length, cut anywhere.     *)
EXTENDS HttpRequest, SequenceTheorems, WellFoundedInduction, TLAPS

-----------------------------------------------------------------------------
(* Loops: induction over their turns.                                      *)

LEMMA Least ==
    ASSUME NEW T, T \subseteq Nat, T # {}
    PROVE  \E m \in T : \A n \in T : m <= n
<1>1. PICK m \in T : \A n \in T : ~ (<<n, m>> \in OpToRel(<, Nat))
  BY NatLessThanWellFounded, WFMin
<1>2. ASSUME NEW n \in T PROVE m <= n
  <2>1. ~ (<<n, m>> \in OpToRel(<, Nat))
    BY <1>1
  <2>2. ~ (n < m)
    BY <2>1 DEF OpToRel
  <2>. QED BY <2>2
<1>. QED BY <1>2

LEMMA Induct ==
    ASSUME NEW N \in Nat, NEW S, 0 \in S,
           \A n \in 0 .. N - 1 : n \in S => n + 1 \in S
    PROVE  \A n \in 0 .. N : n \in S
<1>. DEFINE Bad == {n \in 0 .. N : n \notin S}
<1>. SUFFICES ASSUME Bad # {} PROVE FALSE
  OBVIOUS
<1>1. PICK m \in Bad : \A n \in Bad : m <= n
  <2>1. Bad \subseteq Nat
    OBVIOUS
  <2>. HIDE DEF Bad
  <2>. QED BY <2>1, Least
<1>2. m # 0 /\ m \in 0 .. N
  OBVIOUS
<1>3. m - 1 \notin Bad /\ m - 1 \in 0 .. N - 1
  BY <1>1, <1>2
<1>4. m - 1 \in S
  BY <1>3
<1>5. m - 1 + 1 \in S
  BY <1>3, <1>4
<1>. QED BY <1>2, <1>5

\* The set of one is told by its member.
LEMMA TheOne == ASSUME NEW x PROVE The({x}) = x
BY DEF The

-----------------------------------------------------------------------------
(* FlattenSeq, turn by turn.                                               *)

\* f[n] is what the first n of the sequences ss make together.
Joins(f, ss, N) ==
    /\ DOMAIN f = 0 .. N /\ f[0] = << >>
    /\ \A n \in 1 .. N : f[n] = f[n - 1] \o ss[n]

LEMMA JoinsExist ==
    ASSUME NEW ss, NEW N \in Nat PROVE \E f : Joins(f, ss, N)
<1>. DEFINE S == {k \in 0 .. N : \E f : Joins(f, ss, k)}
<1>1. 0 \in S
  <2>. DEFINE h == [n \in 0 .. 0 |-> << >>]
  <2>1. DOMAIN h = 0 .. 0 /\ h[0] = << >> /\ 1 .. 0 = {}
    OBVIOUS
  <2>2. Joins(h, ss, 0)
    <3>. HIDE DEF h
    <3>. QED BY <2>1 DEF Joins
  <2>. QED BY <2>2
<1>2. ASSUME NEW k \in 0 .. N - 1, k \in S PROVE k + 1 \in S
  <2>1. PICK f : Joins(f, ss, k)
    BY <1>2
  <2>. DEFINE h == [n \in 0 .. k + 1 |-> IF n <= k THEN f[n] ELSE f[k] \o ss[k + 1]]
  <2>2. DOMAIN h = 0 .. k + 1 /\ h[0] = << >>
    BY <2>1 DEF Joins
  <2>3. ASSUME NEW n \in 1 .. k + 1 PROVE h[n] = h[n - 1] \o ss[n]
    <3>1. CASE n <= k
      <4>1. h[n] = f[n] /\ h[n - 1] = f[n - 1] /\ n \in 1 .. k
        BY <3>1
      <4>. QED BY <2>1, <4>1 DEF Joins
    <3>2. CASE n = k + 1
      <4>0. k \in 0 .. k + 1 /\ k + 1 \in 0 .. k + 1 /\ k <= k /\ ~ (k + 1 <= k)
        OBVIOUS
      <4>1. h[k + 1] = f[k] \o ss[k + 1] /\ h[k] = f[k]
        BY <4>0
      <4>2. n = k + 1 /\ n - 1 = k
        BY <3>2
      <4>. HIDE DEF h
      <4>. QED BY <4>1, <4>2
    <3>3. n <= k \/ n = k + 1
      OBVIOUS
    <3>. HIDE DEF h
    <3>. QED BY <3>1, <3>2, <3>3
  <2>4. Joins(h, ss, k + 1)
    <3>. HIDE DEF h
    <3>. QED BY <2>2, <2>3 DEF Joins
  <2>. QED BY <2>4
<1>3. \A k \in 0 .. N : k \in S
  <2>. HIDE DEF S
  <2>. QED BY <1>1, <1>2, Induct
<1>. QED BY <1>3

LEMMA FlattenIs ==
    ASSUME NEW A, NEW ss \in Seq(Seq(A)), NEW f, Joins(f, ss, Len(ss))
    PROVE  /\ FlattenSeq(ss) = f[Len(ss)]
           /\ \A n \in 0 .. Len(ss) : f[n] \in Seq(A)
<1>. DEFINE N == Len(ss)
<1>0. N \in Nat /\ \A n \in 1 .. N : ss[n] \in Seq(A)
  OBVIOUS
<1>a. \A n \in 1 .. N : f[n] = f[n - 1] \o ss[n]
  BY DEF Joins
<1>1. \A n \in 0 .. N : f[n] \in Seq(A)
  <2>. DEFINE S == {n \in 0 .. N : f[n] \in Seq(A)}
  <2>1. 0 \in S
    BY DEF Joins
  <2>2. ASSUME NEW n \in 0 .. N - 1, n \in S PROVE n + 1 \in S
    <3>1. n + 1 \in 1 .. N /\ n + 1 - 1 = n
      OBVIOUS
    <3>0. PICK m \in 1 .. N : m = n + 1 /\ m - 1 = n
      BY <3>1
    <3>2. f[m] = f[m - 1] \o ss[m]
      BY <1>a
    <3>3. f[n] \in Seq(A) /\ ss[m] \in Seq(A)
      BY <1>0, <2>2
    <3>4. f[m] \in Seq(A)
      BY <3>0, <3>2, <3>3
    <3>. QED BY <3>0, <3>4
  <2>3. \A n \in 0 .. N : n \in S
    <3>. HIDE DEF S
    <3>. QED BY <1>0, <2>1, <2>2, Induct
  <2>. QED BY <2>3
<1>2. CASE N = 0
  <2>1. ss = << >>
    BY <1>2
  <2>. QED BY <1>1, <1>2, <2>1 DEF FlattenSeq, Joins
<1>3. CASE N # 0
  <2>. DEFINE Is(g) == g = [i \in 1 .. N |-> IF i = 1 THEN ss[i] ELSE g[i - 1] \o ss[i]]
              g == [i \in 1 .. N |-> f[i]]
              flat == CHOOSE h : Is(h)
  <2>1. ASSUME NEW i \in 1 .. N
        PROVE  f[i] = IF i = 1 THEN ss[i] ELSE f[i - 1] \o ss[i]
    <3>1. f[i] = f[i - 1] \o ss[i] /\ f[0] = << >>
      BY DEF Joins
    <3>2. ss[i] \in Seq(A)
      BY <1>0
    <3>3. << >> \o ss[i] = ss[i]
      BY <3>2
    <3>4. CASE i = 1
      <4>1. i - 1 = 0
        BY <3>4
      <4>. QED BY <3>1, <3>3, <3>4, <4>1
    <3>. QED BY <3>1, <3>4
  <2>2. Is(g)
    BY <2>1
  <2>3. Is(flat)
    <3>. HIDE DEF Is, g
    <3>. QED BY <2>2
  <2>4. FlattenSeq(ss) = flat[N]
    BY <1>3 DEF FlattenSeq
  <2>5. \A i \in 1 .. N : flat[i] = f[i]
    <3>. DEFINE S == {i \in 0 .. N : i = 0 \/ flat[i] = f[i]}
    <3>. HIDE DEF flat
    <3>1. \A i \in 1 .. N : flat[i] = IF i = 1 THEN ss[i] ELSE flat[i - 1] \o ss[i]
      BY <2>3
    <3>2. ASSUME NEW n \in 0 .. N - 1, n \in S PROVE n + 1 \in S
      <4>1. n + 1 \in 1 .. N /\ n + 1 - 1 = n
        OBVIOUS
      <4>2. flat[n + 1] = IF n + 1 = 1 THEN ss[n + 1] ELSE flat[n] \o ss[n + 1]
        BY <3>1, <4>1
      <4>3. f[n + 1] = IF n + 1 = 1 THEN ss[n + 1] ELSE f[n] \o ss[n + 1]
        BY <2>1, <4>1
      <4>. QED BY <3>2, <4>1, <4>2, <4>3
    <3>3. 0 \in S
      OBVIOUS
    <3>4. \A n \in 0 .. N : n \in S
      <4>. HIDE DEF S
      <4>. QED BY <1>0, <3>2, <3>3, Induct
    <3>. QED BY <3>4
  <2>. HIDE DEF flat
  <2>6. flat[N] = f[N]
    <3>1. N \in 1 .. N
      BY <1>0, <1>3
    <3>. QED BY <2>5, <3>1
  <2>. QED BY <1>1, <2>4, <2>6
<1>. QED BY <1>0, <1>2, <1>3

-----------------------------------------------------------------------------
(* What a request is, piece by piece.                                      *)

Requests  == Seq([method : {"GET", "POST"}, headers : Seq(Names)])
PiecesOf(i) == [req : {i}, is : Pieces]
Of(i, s)  == [k \in DOMAIN s |-> Piece(i, s[k])]

HeaderLine(i, name) == Of(i, <<name, "value", "CR", "LF">>)

\* u is s, of length m, and then t, of length n; all are sequences over A.
IsCat(A, u, s, m, t, n) ==
    /\ s \in Seq(A) /\ t \in Seq(A) /\ u = s \o t /\ Len(s) = m /\ Len(t) = n

LEMMA Cat ==
    ASSUME NEW A, NEW u, NEW s, NEW m, NEW t, NEW n, IsCat(A, u, s, m, t, n)
    PROVE  /\ u \in Seq(A) /\ Len(u) = m + n
           /\ \A k \in 1 .. m : u[k] = s[k]
           /\ \A k \in 1 .. n : u[m + k] = t[k]
<1>1. s \in Seq(A) /\ t \in Seq(A) /\ u = s \o t /\ Len(s) = m /\ Len(t) = n
  BY DEF IsCat
<1>2. u \in Seq(A) /\ Len(u) = m + n
  <2>1. s \in Seq(A) /\ t \in Seq(A)
    BY <1>1
  <2>2. s \o t \in Seq(A)
    BY <2>1
  <2>3. Len(s \o t) = Len(s) + Len(t)
    BY <2>1
  <2>. QED BY <1>1, <2>2, <2>3
<1>3. \A k \in 1 .. m : u[k] = s[k]
  BY <1>1
<1>4. \A k \in 1 .. n : u[m + k] = t[k]
  BY <1>1
<1>. QED BY <1>2, <1>3, <1>4

LEMMA FunctionIsSeq ==
    \A A, s : \A n \in Nat : s \in [1 .. n -> A] => s \in Seq(A) /\ Len(s) = n
OBVIOUS

\* g[n] is what follows the first n of the sequences ss over A.
Follows(g, ss, A) ==
    /\ g[Len(ss)] = << >>
    /\ \A n \in 0 .. Len(ss) : g[n] \in Seq(A)
    /\ \A n \in 1 .. Len(ss) : g[n - 1] = ss[n] \o g[n]

LEMMA FollowsExist ==
    ASSUME NEW A, NEW ss \in Seq(Seq(A))
    PROVE  \E g : Follows(g, ss, A) /\ g[0] = FlattenSeq(ss)
<1>. DEFINE N == Len(ss)
<1>1. N \in Nat
  OBVIOUS
<1>2. \A i \in 1 .. N : ss[i] \in Seq(A)
  OBVIOUS
<1>4. PICK f : Joins(f, ss, N)
  BY <1>1, JoinsExist
<1>5. FlattenSeq(ss) = f[N] /\ \A n \in 0 .. N : f[n] \in Seq(A)
  BY <1>4, FlattenIs
<1>. HIDE DEF N
<1>. DEFINE Back(g, k) ==
                /\ g[N] = << >> /\ f[N] = f[k] \o g[k]
                /\ \A n \in k .. N : g[n] \in Seq(A)
                /\ \A n \in k + 1 .. N : g[n - 1] = ss[n] \o g[n]
            S == {j \in 0 .. N : \E g : Back(g, N - j)}
<1>6. 0 \in S
  <2>. DEFINE h == [n \in 0 .. N |-> << >>]
  <2>1. h[N] = << >> /\ N \in 0 .. N
    BY <1>1
  <2>2. f[N] = f[N] \o << >>
    <3>1. f[N] \in Seq(A)
      BY <1>5, <2>1
    <3>. QED BY <3>1, ConcatEmptySeq
  <2>3. << >> \in Seq(A) /\ N .. N = {N} /\ N + 1 .. N = {} /\ N - 0 = N
    BY <1>1
  <2>. HIDE DEF h
  <2>4. Back(h, N - 0)
    BY <2>1, <2>2, <2>3
  <2>. HIDE DEF Back
  <2>. QED BY <1>1, <2>4
<1>7. ASSUME NEW j \in 0 .. N - 1, j \in S PROVE j + 1 \in S
  <2>1. PICK g : Back(g, N - j)
    BY <1>7
  <2>2. PICK k, l : k = N - j /\ l = k - 1
    OBVIOUS
  <2>3. k \in 1 .. N /\ l \in 0 .. N - 1 /\ l = N - (j + 1) /\ l + 1 = k /\ l # N /\ l \in 0 .. N
    BY <1>1, <2>2
  <2>. DEFINE h == [n \in 0 .. N |-> IF n = l THEN ss[k] \o g[k] ELSE g[n]]
  <2>4. h[l] = ss[k] \o g[k] /\ \A n \in k .. N : h[n] = g[n]
    <3>1. ASSUME NEW n \in k .. N PROVE n \in 0 .. N /\ n # l
      BY <1>1, <2>3
    <3>. QED BY <2>3, <3>1
  <2>. HIDE DEF h
  <2>5. /\ g[N] = << >> /\ f[N] = f[k] \o g[k]
        /\ \A n \in k .. N : g[n] \in Seq(A)
        /\ \A n \in k + 1 .. N : g[n - 1] = ss[n] \o g[n]
    BY <2>1, <2>2
  <2>6. k \in k .. N /\ N \in k .. N
    BY <1>1, <2>3
  <2>7. /\ ss[k] \in Seq(A) /\ g[k] \in Seq(A) /\ f[l] \in Seq(A)
        /\ f[k] = f[l] \o ss[k]
    BY <1>2, <1>4, <1>5, <2>2, <2>3, <2>5, <2>6 DEF Joins
  <2>8. f[N] = f[l] \o h[l]
    <3>1. PICK x, y, z : x = f[l] /\ y = ss[k] /\ z = g[k]
      OBVIOUS
    <3>2. x \in Seq(A) /\ y \in Seq(A) /\ z \in Seq(A)
      BY <2>7, <3>1
    <3>3. (x \o y) \o z = x \o (y \o z)
      BY <3>2, ConcatAssociative
    <3>. QED BY <2>4, <2>5, <2>7, <3>1, <3>3
  <2>9. h[l] \in Seq(A)
    BY <2>4, <2>7, ConcatProperties
  <2>10. ASSUME NEW n \in l .. N PROVE h[n] \in Seq(A)
    <3>1. n = l \/ n \in k .. N
      BY <1>1, <2>3
    <3>. QED BY <2>4, <2>5, <2>9, <3>1
  <2>11. ASSUME NEW n \in l + 1 .. N PROVE h[n - 1] = ss[n] \o h[n]
    <3>1. CASE n = k
      <4>1. n - 1 = l
        BY <2>3, <3>1
      <4>. QED BY <2>4, <2>6, <3>1, <4>1
    <3>2. CASE n # k
      <4>1. n \in k + 1 .. N /\ n - 1 \in k .. N /\ n \in k .. N
        BY <1>1, <2>3, <3>2
      <4>. QED BY <2>4, <2>5, <4>1
    <3>. QED BY <3>1, <3>2
  <2>12. h[N] = << >>
    BY <2>4, <2>5, <2>6
  <2>13. Back(h, l)
    BY <2>8, <2>10, <2>11, <2>12
  <2>14. j + 1 \in 0 .. N
    BY <1>1
  <2>. HIDE DEF Back
  <2>. QED BY <2>3, <2>13, <2>14
<1>8. \A j \in 0 .. N : j \in S
  <2>. HIDE DEF S
  <2>. QED BY <1>1, <1>6, <1>7, Induct
<1>9. PICK g : Back(g, 0)
  <2>1. N \in 0 .. N /\ N - N = 0
    BY <1>1
  <2>2. N \in S
    <3>. HIDE DEF S
    <3>. QED BY <1>8, <2>1
  <2>. HIDE DEF Back
  <2>. QED BY <2>1, <2>2<1>10. g[0] = f[N]
  <2>1. f[0] = << >> /\ g[0] \in Seq(A)
    BY <1>1, <1>4, <1>9 DEF Joins
  <2>. QED BY <1>9, <2>1, ConcatEmptySeq
<1>11. Follows(g, ss, A)
  <2>1. ASSUME NEW n \in 1 .. N PROVE g[n - 1] = ss[n] \o g[n]
    <3>1. n \in 0 + 1 .. N
      OBVIOUS
    <3>. QED BY <1>9, <3>1
  <2>. QED BY <1>9, <2>1 DEF Follows, N
<1>. QED BY <1>5, <1>10, <1>11

LEMMA OfFour ==
    ASSUME NEW i, NEW a \in Pieces, NEW b \in Pieces, NEW c \in Pieces, NEW d \in Pieces,
           NEW s, s = Of(i, <<a, b, c, d>>)
    PROVE  /\ s \in Seq(PiecesOf(i)) /\ Len(s) = 4
           /\ s[1] = Piece(i, a) /\ s[2] = Piece(i, b)
           /\ s[3] = Piece(i, c) /\ s[4] = Piece(i, d)
<1>1. s = [k \in 1 .. 4 |-> Piece(i, <<a, b, c, d>>[k])]
  BY DEF Of
<1>2. /\ s[1] = Piece(i, a) /\ s[2] = Piece(i, b)
      /\ s[3] = Piece(i, c) /\ s[4] = Piece(i, d)
  BY <1>1
<1>3. \A k \in 1 .. 4 : s[k] \in PiecesOf(i)
  <2>1. \A x \in Pieces : Piece(i, x) \in PiecesOf(i)
    BY DEF Piece, PiecesOf
  <2>2. ASSUME NEW k \in 1 .. 4 PROVE s[k] \in PiecesOf(i)
    <3>1. k = 1 \/ k = 2 \/ k = 3 \/ k = 4
      OBVIOUS
    <3>. QED BY <1>2, <2>1, <3>1
  <2>. QED BY <2>2
<1>4. s \in [1 .. 4 -> PiecesOf(i)]
  BY <1>1, <1>3
<1>5. s \in Seq(PiecesOf(i)) /\ Len(s) = 4
  BY <1>4, FunctionIsSeq
<1>. QED BY <1>2, <1>5

LEMMA OfTwo ==
    ASSUME NEW i, NEW a \in Pieces, NEW b \in Pieces, NEW s, s = Of(i, <<a, b>>)
    PROVE  /\ s \in Seq(PiecesOf(i)) /\ Len(s) = 2
           /\ s[1] = Piece(i, a) /\ s[2] = Piece(i, b)
<1>1. s = [k \in 1 .. 2 |-> Piece(i, <<a, b>>[k])]
  BY DEF Of
<1>2. s[1] = Piece(i, a) /\ s[2] = Piece(i, b)
  BY <1>1
<1>3. \A k \in 1 .. 2 : s[k] \in PiecesOf(i)
  BY <1>2 DEF Piece, PiecesOf
<1>4. s \in [1 .. 2 -> PiecesOf(i)]
  BY <1>1, <1>3
<1>5. s \in Seq(PiecesOf(i)) /\ Len(s) = 2
  BY <1>4, FunctionIsSeq
<1>. QED BY <1>2, <1>5

LEMMA OfOne ==
    ASSUME NEW i, NEW a \in Pieces, NEW s, s = Of(i, <<a>>)
    PROVE  s \in Seq(PiecesOf(i)) /\ Len(s) = 1 /\ s[1] = Piece(i, a)
<1>1. s = [k \in 1 .. 1 |-> Piece(i, <<a>>[k])]
  BY DEF Of
<1>2. s[1] = Piece(i, a)
  BY <1>1
<1>3. \A k \in 1 .. 1 : s[k] \in PiecesOf(i)
  BY <1>2 DEF Piece, PiecesOf
<1>4. s \in [1 .. 1 -> PiecesOf(i)]
  BY <1>1, <1>3
<1>5. s \in Seq(PiecesOf(i)) /\ Len(s) = 1
  BY <1>4, FunctionIsSeq
<1>. QED BY <1>2, <1>5

\* The header lines one after the other, n of them.
HeadersAre(s, i, names, n) ==
    /\ s \in Seq(PiecesOf(i)) /\ Len(s) = 4 * n
    /\ \A h \in 0 .. n - 1 :
          /\ s[4 * h + 1] = Piece(i, names[h + 1]) /\ s[4 * h + 2] = Piece(i, "value")
          /\ s[4 * h + 3] = Piece(i, "CR") /\ s[4 * h + 4] = Piece(i, "LF")

LEMMA HeadersFlatten ==
    ASSUME NEW i, NEW names \in Seq(Names)
    PROVE  HeadersAre(FlattenSeq([h \in DOMAIN names |-> HeaderLine(i, names[h])]),
                      i, names, Len(names))
<1>. DEFINE H  == Len(names)
            ss == [h \in DOMAIN names |-> HeaderLine(i, names[h])]
<1>1. H \in Nat /\ DOMAIN names = 1 .. H /\ \A h \in 1 .. H : names[h] \in Names
  OBVIOUS
<1>2. ASSUME NEW h \in 1 .. H
      PROVE  /\ ss[h] \in Seq(PiecesOf(i)) /\ Len(ss[h]) = 4
             /\ ss[h][1] = Piece(i, names[h]) /\ ss[h][2] = Piece(i, "value")
             /\ ss[h][3] = Piece(i, "CR") /\ ss[h][4] = Piece(i, "LF")
  <2>1. ss[h] = Of(i, <<names[h], "value", "CR", "LF">>)
    BY <1>1 DEF HeaderLine
  <2>2. names[h] \in Pieces /\ "value" \in Pieces /\ "CR" \in Pieces /\ "LF" \in Pieces
    BY <1>1 DEF Pieces
  <2>. HIDE DEF ss
  <2>3. PICK a, b, c, d, s : /\ a = names[h] /\ b = "value" /\ c = "CR" /\ d = "LF"
                             /\ s = ss[h]
    OBVIOUS
  <2>4. /\ a \in Pieces /\ b \in Pieces /\ c \in Pieces /\ d \in Pieces
        /\ s = Of(i, <<a, b, c, d>>)
    BY <2>1, <2>2, <2>3
  <2>5. /\ s \in Seq(PiecesOf(i)) /\ Len(s) = 4
        /\ s[1] = Piece(i, a) /\ s[2] = Piece(i, b)
        /\ s[3] = Piece(i, c) /\ s[4] = Piece(i, d)
    BY <2>4, OfFour
  <2>. QED BY <2>3, <2>5
<1>3. ss \in Seq(Seq(PiecesOf(i))) /\ Len(ss) = H
  <2>1. ss \in [1 .. H -> Seq(PiecesOf(i))]
    BY <1>1, <1>2
  <2>. QED BY <1>1, <2>1
<1>. HIDE DEF ss
<1>4. PICK f : Joins(f, ss, H)
  BY <1>1, JoinsExist
<1>5. FlattenSeq(ss) = f[H] /\ \A n \in 0 .. H : f[n] \in Seq(PiecesOf(i))
  BY <1>3, <1>4, FlattenIs
<1>. DEFINE S == {n \in 0 .. H : HeadersAre(f[n], i, names, n)}
<1>6. 0 \in S
  <2>1. f[0] = << >> /\ Len(<< >>) = 0 /\ 0 .. 0 - 1 = {}
    BY <1>4 DEF Joins
  <2>2. f[0] \in Seq(PiecesOf(i)) /\ Len(f[0]) = 4 * 0
    BY <1>1, <1>5, <2>1
  <2>3. HeadersAre(f[0], i, names, 0)
    BY <2>1, <2>2 DEF HeadersAre
  <2>. QED BY <1>1, <2>3
<1>7. ASSUME NEW n \in 0 .. H - 1, n \in S PROVE n + 1 \in S
  <2>1. PICK m \in 1 .. H : m = n + 1 /\ m - 1 = n
    BY <1>1
  <2>2. f[m] = f[n] \o ss[m]
    BY <1>4, <2>1 DEF Joins
  <2>3. f[n] \in Seq(PiecesOf(i)) /\ Len(f[n]) = 4 * n
    BY <1>7 DEF HeadersAre
  <2>a. PICK s, t, u, l : s = f[n] /\ t = ss[m] /\ u = f[m] /\ l = 4 * n
    OBVIOUS
  <2>b. IsCat(PiecesOf(i), u, s, l, t, 4)
    BY <1>2, <2>2, <2>3, <2>a DEF IsCat
  <2>c. /\ u \in Seq(PiecesOf(i)) /\ Len(u) = l + 4
        /\ \A k \in 1 .. l : u[k] = s[k]
        /\ \A k \in 1 .. 4 : u[l + k] = t[k]
    BY <2>b, Cat
  <2>4. /\ f[m] \in Seq(PiecesOf(i)) /\ Len(f[m]) = 4 * n + 4
        /\ \A k \in 1 .. 4 * n : f[m][k] = f[n][k]
        /\ \A k \in 1 .. 4 : f[m][4 * n + k] = ss[m][k]
    BY <2>a, <2>c
  <2>5. /\ f[m][4 * n + 1] = Piece(i, names[m]) /\ f[m][4 * n + 2] = Piece(i, "value")
        /\ f[m][4 * n + 3] = Piece(i, "CR") /\ f[m][4 * n + 4] = Piece(i, "LF")
    <3>1. 1 \in 1 .. 4 /\ 2 \in 1 .. 4 /\ 3 \in 1 .. 4 /\ 4 \in 1 .. 4
      OBVIOUS
    <3>2. /\ f[m][4 * n + 1] = ss[m][1] /\ f[m][4 * n + 2] = ss[m][2]
          /\ f[m][4 * n + 3] = ss[m][3] /\ f[m][4 * n + 4] = ss[m][4]
      BY <2>4, <3>1
    <3>. QED BY <1>2, <3>2
  <2>6. ASSUME NEW h \in 0 .. m - 1
        PROVE  /\ f[m][4 * h + 1] = Piece(i, names[h + 1])
               /\ f[m][4 * h + 2] = Piece(i, "value")
               /\ f[m][4 * h + 3] = Piece(i, "CR") /\ f[m][4 * h + 4] = Piece(i, "LF")
    <3>1. CASE h = n
      BY <2>1, <2>5, <3>1
    <3>2. CASE h # n
      <4>1. h \in 0 .. n - 1
        BY <2>1, <3>2
      <4>2. /\ 4 * h + 1 \in 1 .. 4 * n /\ 4 * h + 2 \in 1 .. 4 * n
            /\ 4 * h + 3 \in 1 .. 4 * n /\ 4 * h + 4 \in 1 .. 4 * n
        BY <4>1
      <4>. QED BY <1>7, <2>4, <4>1, <4>2 DEF HeadersAre
    <3>. QED BY <3>1, <3>2
  <2>7. HeadersAre(f[m], i, names, m)
    BY <2>1, <2>4, <2>6 DEF HeadersAre
  <2>. QED BY <2>1, <2>7
<1>8. H \in S
  <2>. HIDE DEF S
  <2>1. \A n \in 0 .. H : n \in S
    BY <1>1, <1>6, <1>7, Induct
  <2>. QED BY <1>1, <2>1
<1>. QED BY <1>5, <1>8 DEF ss

\* Request number i, with its method and the names of its headers.
IsRequest(b, i, method, names) ==
    /\ b \in Seq(PiecesOf(i))
    /\ Len(b) = 4 * Len(names) + (IF method = "POST" THEN 7 ELSE 6)
    /\ b[1] = Piece(i, "target") /\ b[2] = Piece(i, "version")
    /\ b[3] = Piece(i, "CR") /\ b[4] = Piece(i, "LF")
    /\ \A h \in 1 .. Len(names) :
          /\ b[4 * h + 1] = Piece(i, names[h]) /\ b[4 * h + 2] = Piece(i, "value")
          /\ b[4 * h + 3] = Piece(i, "CR") /\ b[4 * h + 4] = Piece(i, "LF")
    /\ b[4 * Len(names) + 5] = Piece(i, "CR") /\ b[4 * Len(names) + 6] = Piece(i, "LF")
    /\ method = "POST" => b[4 * Len(names) + 7] = Piece(i, "body")

LEMMA RequestIs ==
    ASSUME NEW rs \in Requests, NEW i \in DOMAIN rs
    PROVE  IsRequest(Request(rs, i), i, rs[i].method, rs[i].headers)
<1>. DEFINE names == rs[i].headers
            H  == Len(names)
            l1 == Of(i, <<"target", "version", "CR", "LF">>)
            hs == FlattenSeq([h \in DOMAIN names |-> HeaderLine(i, names[h])])
            l2 == Of(i, <<"CR", "LF">>)
            l3 == IF rs[i].method = "POST" THEN Of(i, <<"body">>) ELSE << >>
            A  == PiecesOf(i)
<1>0. names \in Seq(Names) /\ H \in Nat /\ rs[i].method \in {"GET", "POST"}
  <2>1. \A R : \A s \in Seq(R) : \A k \in DOMAIN s : s[k] \in R
    OBVIOUS
  <2>2. rs[i] \in [method : {"GET", "POST"}, headers : Seq(Names)]
    BY <2>1 DEF Requests
  <2>. QED BY <2>2
<1>1. Request(rs, i) = l1 \o hs \o l2 \o l3
  BY DEF Request, Of, HeaderLine
<1>2. /\ "target" \in Pieces /\ "version" \in Pieces /\ "CR" \in Pieces /\ "LF" \in Pieces
      /\ "body" \in Pieces
  BY DEF Pieces
<1>3. /\ l1 \in Seq(A) /\ Len(l1) = 4
      /\ l1[1] = Piece(i, "target") /\ l1[2] = Piece(i, "version")
      /\ l1[3] = Piece(i, "CR") /\ l1[4] = Piece(i, "LF")
  <2>1. l1 = Of(i, <<"target", "version", "CR", "LF">>)
    OBVIOUS
  <2>. HIDE DEF l1
  <2>. QED BY <1>2, <2>1, OfFour
<1>4. HeadersAre(hs, i, names, H)
  BY <1>0, HeadersFlatten
<1>5. l2 \in Seq(A) /\ Len(l2) = 2 /\ l2[1] = Piece(i, "CR") /\ l2[2] = Piece(i, "LF")
  BY <1>2, OfTwo
<1>6. /\ l3 \in Seq(A) /\ Len(l3) = IF rs[i].method = "POST" THEN 1 ELSE 0
      /\ rs[i].method = "POST" => l3[1] = Piece(i, "body")
  <2>1. CASE rs[i].method = "POST"
    <3>1. l3 = Of(i, <<"body">>)
      BY <2>1
    <3>. HIDE DEF l3
    <3>. QED BY <1>2, <2>1, <3>1, OfOne
  <2>2. CASE rs[i].method # "POST"
    BY <2>2
  <2>. QED BY <2>1, <2>2
<1>. HIDE DEF l1, l2, l3, hs, names, A
<1>00. H \in Nat
  BY <1>0
<1>7. /\ hs \in Seq(A) /\ Len(hs) = 4 * H
      /\ \A h \in 0 .. H - 1 :
            /\ hs[4 * h + 1] = Piece(i, names[h + 1]) /\ hs[4 * h + 2] = Piece(i, "value")
            /\ hs[4 * h + 3] = Piece(i, "CR") /\ hs[4 * h + 4] = Piece(i, "LF")
  BY <1>4 DEF HeadersAre, A
<1>. DEFINE x == l1 \o hs
            y == x \o l2
            z == y \o l3
<1>8. /\ x \in Seq(A) /\ Len(x) = 4 + 4 * H
      /\ \A k \in 1 .. 4 : x[k] = l1[k]
      /\ \A k \in 1 .. 4 * H : x[4 + k] = hs[k]
  <2>1. IsCat(A, x, l1, 4, hs, 4 * H)
    BY <1>3, <1>7 DEF IsCat
  <2>. HIDE DEF x
  <2>. QED BY <2>1, Cat
<1>. HIDE DEF x
<1>9. /\ y \in Seq(A) /\ Len(y) = 6 + 4 * H
      /\ \A k \in 1 .. 4 + 4 * H : y[k] = x[k]
      /\ \A k \in 1 .. 2 : y[4 + 4 * H + k] = l2[k]
  <2>1. IsCat(A, y, x, 4 + 4 * H, l2, 2)
    BY <1>5, <1>8 DEF IsCat, A
  <2>. HIDE DEF y
  <2>2. Len(y) = 4 + 4 * H + 2
    BY <2>1, Cat
  <2>3. /\ y \in Seq(A)
        /\ \A k \in 1 .. 4 + 4 * H : y[k] = x[k]
    BY <2>1, Cat
  <2>4. \A k \in 1 .. 2 : y[4 + 4 * H + k] = l2[k]
    BY <2>1, Cat
  <2>. QED BY <1>00, <2>2, <2>3, <2>4
<1>. HIDE DEF y
<1>10. /\ z \in Seq(A) /\ Len(z) = 6 + 4 * H + Len(l3)
       /\ \A k \in 1 .. 6 + 4 * H : z[k] = y[k]
       /\ \A k \in 1 .. Len(l3) : z[6 + 4 * H + k] = l3[k]
  <2>1. IsCat(A, z, y, 6 + 4 * H, l3, Len(l3))
    BY <1>6, <1>9 DEF IsCat
  <2>. HIDE DEF z
  <2>. QED BY <2>1, Cat
<1>11. z = Request(rs, i)
  BY <1>1 DEF x, y
<1>. HIDE DEF z, H
<1>12. H \in Nat
  BY <1>0 DEF H
<1>13. \A k \in 1 .. 4 : z[k] = l1[k]
  BY <1>8, <1>9, <1>10, <1>12
<1>14. ASSUME NEW k \in 1 .. 4 * H PROVE z[4 + k] = hs[k]
  <2>1. 4 + k \in 1 .. 4 + 4 * H /\ 4 + k \in 1 .. 6 + 4 * H
    BY <1>12
  <2>. QED BY <1>8, <1>9, <1>10, <2>1
<1>15. z[4 * H + 5] = l2[1] /\ z[4 * H + 6] = l2[2]
  <2>1. /\ 4 * H + 5 = 4 + 4 * H + 1 /\ 4 * H + 6 = 4 + 4 * H + 2
        /\ 4 * H + 5 \in 1 .. 6 + 4 * H /\ 4 * H + 6 \in 1 .. 6 + 4 * H
    BY <1>12
  <2>. QED BY <1>9, <1>10, <2>1
<1>16. ASSUME NEW h \in 1 .. H
       PROVE  /\ z[4 * h + 1] = Piece(i, names[h]) /\ z[4 * h + 2] = Piece(i, "value")
              /\ z[4 * h + 3] = Piece(i, "CR") /\ z[4 * h + 4] = Piece(i, "LF")
  <2>1. PICK g \in 0 .. H - 1 : g + 1 = h
    <3>1. h - 1 \in 0 .. H - 1 /\ h - 1 + 1 = h
      BY <1>12
    <3>. QED BY <3>1
  <2>2. /\ 4 * g + 1 \in 1 .. 4 * H /\ 4 * h + 1 = 4 + (4 * g + 1)
        /\ 4 * g + 2 \in 1 .. 4 * H /\ 4 * h + 2 = 4 + (4 * g + 2)
        /\ 4 * g + 3 \in 1 .. 4 * H /\ 4 * h + 3 = 4 + (4 * g + 3)
        /\ 4 * g + 4 \in 1 .. 4 * H /\ 4 * h + 4 = 4 + (4 * g + 4)
    BY <1>12, <2>1
  <2>3. /\ z[4 * h + 1] = hs[4 * g + 1] /\ z[4 * h + 2] = hs[4 * g + 2]
        /\ z[4 * h + 3] = hs[4 * g + 3] /\ z[4 * h + 4] = hs[4 * g + 4]
    BY <1>14, <2>2
  <2>. QED BY <1>7, <2>1, <2>3
<1>17. Len(z) = 4 * H + (IF rs[i].method = "POST" THEN 7 ELSE 6)
  BY <1>6, <1>10, <1>12
<1>18. rs[i].method = "POST" => z[4 * H + 7] = Piece(i, "body")
  <2>. SUFFICES ASSUME rs[i].method = "POST" PROVE z[4 * H + 7] = Piece(i, "body")
    OBVIOUS
  <2>1. 4 * H + 7 = 6 + 4 * H + 1 /\ Len(l3) = 1
    BY <1>6, <1>12
  <2>. QED BY <1>6, <1>10, <2>1
<1>19. /\ z[1] = Piece(i, "target") /\ z[2] = Piece(i, "version")
       /\ z[3] = Piece(i, "CR") /\ z[4] = Piece(i, "LF")
  BY <1>3, <1>13
<1>20. IsRequest(z, i, rs[i].method, names)
  BY <1>5, <1>10, <1>15, <1>16, <1>17, <1>18, <1>19 DEF IsRequest, H, A
<1>. QED BY <1>11, <1>20 DEF names

-----------------------------------------------------------------------------
(* The lines of a buffer.                                                  *)

AllPieces == [req : Nat, is : Pieces]

LEMMA LineIs ==
    ASSUME NEW A, NEW b \in Seq(A)
    PROVE  /\ LineLength(b) \in 0 .. Len(b)
           /\ LineEnds(b) = {} => LineLength(b) = Len(b)
           /\ LineEnds(b) # {} =>
                 /\ LineLength(b) + 1 \in LineEnds(b)
                 /\ \A j \in LineEnds(b) : LineLength(b) + 1 <= j
<1>1. Len(b) \in Nat /\ LineEnds(b) \subseteq 1 .. Len(b) - 1
  BY DEF LineEnds
<1>2. CASE LineEnds(b) = {}
  BY <1>1, <1>2 DEF LineLength
<1>3. CASE LineEnds(b) # {}
  <2>. DEFINE Ends == LineEnds(b)
              First(k) == \A j \in Ends : k <= j
              e == CHOOSE k \in Ends : First(k)
  <2>1. \E k \in Ends : First(k)
    <3>1. Ends \subseteq Nat /\ Ends # {}
      BY <1>1, <1>3
    <3>. HIDE DEF Ends
    <3>. QED BY <3>1, Least
  <2>2. e \in Ends /\ First(e)
    <3>. HIDE DEF Ends, First
    <3>. QED BY <2>1
  <2>3. LineLength(b) = e - 1
    BY <1>3 DEF LineLength
  <2>. HIDE DEF e
  <2>. QED BY <1>1, <1>3, <2>2, <2>3
<1>. QED BY <1>2, <1>3

\* The places of versions, and the first of them.
Versions(line) == {k \in 1 .. Len(line) : line[k].is = "version"}

LEMMA MinIs ==
    ASSUME NEW S, S \subseteq Nat, S # {}
    PROVE  Min(S) \in S
<1>1. \E m \in S : \A n \in S : m <= n
  BY Least
<1>. QED BY <1>1 DEF Min

LEMMA FirstVersion ==
    ASSUME NEW A, NEW line \in Seq(A), Has(line, "version")
    PROVE  LET v == SelectInSeq(line, LAMBDA p : p.is = "version") IN v \in Versions(line)
<1>1. Versions(line) # {} /\ Versions(line) \subseteq Nat
  BY DEF Has, Versions
<1>2. Min(Versions(line)) \in Versions(line)
  BY <1>1, MinIs
<1>3. SelectInSeq(line, LAMBDA p : p.is = "version")
        = IF Versions(line) # {} THEN Min(Versions(line)) ELSE 0
  BY Zenon DEF SelectInSeq, Versions
<1>. QED BY <1>1, <1>2, <1>3

-----------------------------------------------------------------------------
(* The parser, line by line.                                               *)

\* What a turn makes of a request has the fields of one.
IsOut(s) ==
    /\ s = [state |-> s.state, ok |-> s.ok, req |-> s.req, method |-> s.method,
            header |-> s.header, form |-> s.form, post |-> s.post]
    /\ s.ok \in BOOLEAN

LEMMA RequestLineStep ==
    ASSUME NEW s, IsOut(s), NEW A, NEW line \in Seq(A)
    PROVE  LET t == ParseRequestLine_(s, line) IN
           \/ ~t.ok
           \/ /\ IsOut(t) /\ t.ok = s.ok /\ t.state = "HEADERS" /\ t.header = s.header
              /\ \E v \in Versions(line) : t.req = line[v].req
<1>. DEFINE t == ParseRequestLine_(s, line)
<1>1. CASE ~(Has(line, "target") /\ Has(line, "version"))
  <2>1. t = [s EXCEPT !.ok = FALSE]
    BY <1>1 DEF ParseRequestLine_
  <2>2. t.ok = FALSE
    BY <2>1 DEF IsOut
  <2>. QED BY <2>2
<1>2. CASE Has(line, "target") /\ Has(line, "version")
  <2>. DEFINE v == SelectInSeq(line, LAMBDA p : p.is = "version")
              m == IF Head(line).is = "target" THEN requests[line[v].req].method ELSE "garbled"
  <2>1. v \in Versions(line)
    BY <1>2, FirstVersion
  <2>2. t = [s EXCEPT !.state = "HEADERS", !.req = line[v].req, !.method = m]
    BY <1>2, Zenon DEF ParseRequestLine_
  <2>. HIDE DEF v, m, t
  <2>3. t = [state |-> "HEADERS", ok |-> s.ok, req |-> line[v].req, method |-> m,
             header |-> s.header, form |-> s.form, post |-> s.post]
    BY <2>2 DEF IsOut
  <2>4. IsOut(t) /\ t.ok = s.ok /\ t.state = "HEADERS" /\ t.header = s.header
        /\ t.req = line[v].req
    BY <2>3 DEF IsOut
  <2>. QED BY <2>1, <2>4 DEF t
<1>. QED BY <1>1, <1>2

LEMMA HeaderStep ==
    ASSUME NEW s, IsOut(s), s.state = "HEADERS", NEW line, NEW b
    PROVE  LET t == headersEnd(ParseHeader_(s, line), b) IN
           /\ IsOut(t) /\ t.ok = s.ok /\ t.req = s.req
           /\ t.state \in {"HEADERS", "BODY", "FINISH"}
<1>. DEFINE u == ParseHeader_(s, line)
            t == headersEnd(u, b)
<1>1. IsOut(u) /\ u.ok = s.ok /\ u.req = s.req /\ u.state \in {"HEADERS", "BODY"}
  <2>1. CASE Has(line, "value")
    <3>. DEFINE h == s.header \cup (IF Len(line) = 2 THEN {line[1].is} ELSE {})
    <3>1. u = [s EXCEPT !.header = h]
      BY <2>1 DEF ParseHeader_
    <3>. HIDE DEF u, h
    <3>. QED BY <3>1 DEF IsOut
  <2>2. CASE ~Has(line, "value")
    <3>1. u = [s EXCEPT !.state = "BODY"]
      BY <2>2 DEF ParseHeader_
    <3>. HIDE DEF u
    <3>. QED BY <3>1 DEF IsOut
  <2>. QED BY <2>1, <2>2
<1>2. t = u \/ t = [u EXCEPT !.state = "FINISH"]
  BY DEF headersEnd
<1>. HIDE DEF u, t
<1>3. IsOut(t) /\ t.ok = u.ok /\ t.req = u.req /\ t.state \in {u.state, "FINISH"}
  <2>1. CASE t = u
    BY <1>1, <2>1
  <2>2. CASE t = [u EXCEPT !.state = "FINISH"]
    BY <1>1, <2>2 DEF IsOut
  <2>. QED BY <1>2, <2>1, <2>2
<1>. QED BY <1>1, <1>3 DEF t, u

LEMMA BodyStep ==
    ASSUME NEW s, IsOut(s), NEW line
    PROVE  LET t == ParseBody_(s, line) IN
           /\ IsOut(t) /\ t.ok = s.ok /\ t.req = s.req /\ t.header = s.header
           /\ t.state = "FINISH"
<1>. DEFINE t == ParseBody_(s, line)
<1>1. \E f, p : t = [s EXCEPT !.state = "FINISH", !.form = f, !.post = p]
  <2>1. CASE s.method = "POST"
    BY <2>1 DEF ParseBody_
  <2>2. CASE s.method # "POST"
    <3>1. t = [s EXCEPT !.state = "FINISH"]
      BY <2>2 DEF ParseBody_
    <3>2. t = [s EXCEPT !.state = "FINISH", !.form = s.form, !.post = s.post]
      BY <3>1 DEF IsOut
    <3>. QED BY <3>2
  <2>. QED BY <2>1, <2>2
<1>2. PICK f, p : t = [s EXCEPT !.state = "FINISH", !.form = f, !.post = p]
  BY <1>1
<1>. HIDE DEF t
<1>3. IsOut(t) /\ t.ok = s.ok /\ t.req = s.req /\ t.header = s.header /\ t.state = "FINISH"
  BY <1>2 DEF IsOut
<1>. QED BY <1>3 DEF t

-----------------------------------------------------------------------------
(* The loop of parse.                                                      *)

\* The request line of the version at v is behind the loop, which stands at m,
\* behind that line if it goes on or has seen that the connection is kept.
Read(p, b, v, m) ==
    /\ IsOut(p.out) /\ p.out.ok /\ p.out.req = b[v].req
    /\ p.rest = SubSeq(b, m, Len(b)) /\ p.more \in BOOLEAN
    /\ p.more => p.out.state \in {"HEADERS", "BODY"}
    /\ p.more \/ "Connection" \in p.out.header => v < m

Begun(p, b) == p.out = NewRequest /\ p.rest = b /\ p.more = TRUE

\* What the loop may have made of the buffer b once it has begun.
Past(p, b) ==
    \/ ~p.more /\ ~p.out.ok
    \/ \E v \in Versions(b), m \in 1 .. Len(b) + 1 : Read(p, b, v, m)

LEMMA SubSeqOf ==
    ASSUME NEW A, NEW b \in Seq(A), NEW m \in 1 .. Len(b) + 1
    PROVE  /\ SubSeq(b, m, Len(b)) \in Seq(A)
           /\ Len(SubSeq(b, m, Len(b))) = Len(b) - m + 1
           /\ \A k \in 1 .. Len(b) - m + 1 : SubSeq(b, m, Len(b))[k] = b[m + k - 1]
OBVIOUS

LEMMA SubSeqTwice ==
    ASSUME NEW A, NEW b \in Seq(A), NEW m \in 1 .. Len(b) + 1, NEW c, c = SubSeq(b, m, Len(b)),
           NEW n \in 1 .. Len(c) + 1
    PROVE  SubSeq(c, n, Len(c)) = SubSeq(b, m + n - 1, Len(b))
<1>1. c \in Seq(A) /\ Len(c) = Len(b) - m + 1 /\ \A k \in 1 .. Len(c) : c[k] = b[m + k - 1]
  BY SubSeqOf
<1>. DEFINE x == SubSeq(c, n, Len(c))
            y == SubSeq(b, m + n - 1, Len(b))
<1>2. x \in Seq(A) /\ Len(x) = Len(c) - n + 1 /\ \A k \in 1 .. Len(c) - n + 1 : x[k] = c[n + k - 1]
  BY <1>1, SubSeqOf
<1>3. m + n - 1 \in 1 .. Len(b) + 1
  BY <1>1
<1>4. /\ y \in Seq(A) /\ Len(y) = Len(b) - (m + n - 1) + 1
      /\ \A k \in 1 .. Len(b) - (m + n - 1) + 1 : y[k] = b[m + n - 1 + k - 1]
  BY <1>3, SubSeqOf
<1>5. Len(x) = Len(y)
  BY <1>1, <1>2, <1>4
<1>6. ASSUME NEW k \in 1 .. Len(x) PROVE x[k] = y[k]
  <2>1. /\ n + k - 1 \in 1 .. Len(c) /\ m + (n + k - 1) - 1 = m + n - 1 + k - 1
        /\ k \in 1 .. Len(c) - n + 1 /\ k \in 1 .. Len(b) - (m + n - 1) + 1
    BY <1>1, <1>2
  <2>2. x[k] = c[n + k - 1] /\ y[k] = b[m + n - 1 + k - 1]
    BY <1>2, <1>4, <2>1
  <2>3. c[n + k - 1] = b[m + (n + k - 1) - 1]
    BY <1>1, <2>1
  <2>. QED BY <2>1, <2>2, <2>3
<1>. HIDE DEF x, y
<1>7. x = y
  BY <1>2, <1>4, <1>5, <1>6, SeqEqual
<1>. QED BY <1>7 DEF x, y

\* A turn takes a line and its CRLF away, or it is the last.
LEMMA TurnIs ==
    ASSUME NEW p, p.more = TRUE, NEW q, q = Turn(p), NEW t, t = parseLine(p.out, p.rest)
    PROVE  /\ q.out = t
           /\ ~t.ok \/ LineEnds(p.rest) = {} => q.rest = p.rest /\ q.more = FALSE
           /\ ~(~t.ok \/ LineEnds(p.rest) = {}) =>
                 /\ q.rest = retrieved(p.rest)
                 /\ q.more = (q.rest # << >> /\ t.state # "FINISH")
<1>1. CASE ~t.ok \/ LineEnds(p.rest) = {}
  <2>1. q = [out |-> t, rest |-> p.rest, more |-> FALSE]
    BY <1>1 DEF Turn, turned
  <2>2. q.out = t /\ q.rest = p.rest /\ q.more = FALSE
    BY <2>1
  <2>. QED BY <1>1, <2>2, Zenon
<1>2. CASE ~(~t.ok \/ LineEnds(p.rest) = {})
  <2>. DEFINE left == retrieved(p.rest)
              more == left # << >> /\ t.state # "FINISH"
  <2>1. q = [out |-> t, rest |-> left, more |-> more]
    BY <1>2, Zenon DEF Turn, turned
  <2>. HIDE DEF left, more
  <2>2. q.out = t /\ q.rest = left /\ q.more = more
    BY <2>1
  <2>. QED BY <1>2, <2>2 DEF left, more
<1>. QED BY <1>1, <1>2

LEMMA BegunOnward ==
    ASSUME NEW b \in Seq(AllPieces), NEW p, Begun(p, b)
    PROVE  Past(Turn(p), b)
<1>. DEFINE L    == LineLength(b)
            line == FirstLine(b)
            t    == parseLine(p.out, p.rest)
            q    == Turn(p)
<1>1. p.out = NewRequest /\ p.rest = b /\ p.more = TRUE
  BY DEF Begun
<1>2. IsOut(NewRequest) /\ NewRequest.ok = TRUE /\ NewRequest.header = {}
      /\ NewRequest.state = "REQUEST_LINE"
  BY DEF NewRequest, IsOut
<1>3. t = ParseRequestLine_(NewRequest, line)
  BY <1>1, <1>2, Zenon DEF parseLine
<1>4. /\ L \in 0 .. Len(b)
      /\ LineEnds(b) # {} => L + 3 \in 1 .. Len(b) + 1
  <2>1. LineEnds(b) # {} => L + 1 \in 1 .. Len(b) - 1
    BY LineIs DEF LineEnds
  <2>. QED BY <2>1, LineIs
<1>5. line \in Seq(AllPieces) /\ Len(line) = L /\ \A k \in 1 .. L : line[k] = b[k]
  BY <1>4 DEF FirstLine
<1>. HIDE DEF line, t
<1>6. /\ q.out = t
      /\ ~t.ok \/ LineEnds(b) = {} => q.rest = b /\ q.more = FALSE
      /\ ~(~t.ok \/ LineEnds(b) = {}) =>
            /\ q.rest = retrieved(b)
            /\ q.more = (q.rest # << >> /\ t.state # "FINISH")
  <2>1. /\ q.out = t
        /\ ~t.ok \/ LineEnds(p.rest) = {} => q.rest = p.rest /\ q.more = FALSE
        /\ ~(~t.ok \/ LineEnds(p.rest) = {}) =>
              /\ q.rest = retrieved(p.rest)
              /\ q.more = (q.rest # << >> /\ t.state # "FINISH")
    BY <1>1, TurnIs DEF t
  <2>. QED BY <1>1, <2>1, Zenon
<1>. HIDE DEF q
<1>7. ASSUME ~t.ok PROVE Past(q, b)
  BY <1>6, <1>7 DEF Past
<1>8. ASSUME t.ok PROVE Past(q, b)
  <2>1. /\ IsOut(t) /\ t.state = "HEADERS" /\ t.header = {}
        /\ \E v \in Versions(line) : t.req = line[v].req
    BY <1>2, <1>3, <1>5, <1>8, RequestLineStep
  <2>2. PICK v \in Versions(line) : t.req = line[v].req
    BY <2>1
  <2>3. v \in 1 .. L /\ v \in Versions(b) /\ t.req = b[v].req
    BY <1>4, <1>5, <2>2 DEF Versions
  <2>4. CASE LineEnds(b) = {}
    <3>1. SubSeq(b, 1, Len(b)) = b /\ 1 \in 1 .. Len(b) + 1
      OBVIOUS
    <3>2. Read(q, b, v, 1)
      BY <1>6, <1>8, <2>1, <2>3, <2>4, <3>1 DEF Read
    <3>. QED BY <2>3, <3>1, <3>2 DEF Past
  <2>5. CASE LineEnds(b) # {}
    <3>1. q.rest = SubSeq(b, L + 3, Len(b)) /\ q.more \in BOOLEAN
      BY <1>6, <1>8, <2>5 DEF retrieved
    <3>2. v < L + 3 /\ L + 3 \in 1 .. Len(b) + 1
      BY <1>4, <2>3, <2>5
    <3>3. Read(q, b, v, L + 3)
      BY <1>6, <1>8, <2>1, <2>3, <3>1, <3>2 DEF Read
    <3>. QED BY <2>3, <3>2, <3>3 DEF Past
  <2>. QED BY <2>4, <2>5
<1>. QED BY <1>7, <1>8 DEF q

LEMMA ReadOnward ==
    ASSUME NEW b \in Seq(AllPieces), NEW p, p.more = TRUE,
           NEW v \in Versions(b), NEW m \in 1 .. Len(b) + 1, Read(p, b, v, m)
    PROVE  Past(Turn(p), b)
<1>. DEFINE s    == p.out
            c    == p.rest
            L    == LineLength(c)
            t    == parseLine(s, c)
            q    == Turn(p)
<1>1. IsOut(s) /\ s.ok /\ s.req = b[v].req /\ s.state \in {"HEADERS", "BODY"} /\ v < m
  BY DEF Read
<1>2. IsOut(t) /\ t.ok /\ t.req = s.req /\ t.state \in {"HEADERS", "BODY", "FINISH"}
  <2>1. CASE s.state = "HEADERS"
    <3>1. t = headersEnd(ParseHeader_(s, FirstLine(c)), c)
      BY <2>1, Zenon DEF parseLine
    <3>. QED BY <1>1, <2>1, <3>1, HeaderStep
  <2>2. CASE s.state = "BODY"
    <3>1. t = ParseBody_(s, FirstLine(c))
      BY <2>2, Zenon DEF parseLine
    <3>. QED BY <1>1, <2>2, <3>1, BodyStep
  <2>. QED BY <1>1, <2>1, <2>2
<1>. HIDE DEF t
<1>3. c = SubSeq(b, m, Len(b)) /\ c \in Seq(AllPieces) /\ Len(c) = Len(b) - m + 1
  BY SubSeqOf DEF Read
<1>4. /\ q.out = t
      /\ LineEnds(c) = {} => q.rest = c /\ q.more = FALSE
      /\ LineEnds(c) # {} =>
            /\ q.rest = retrieved(c)
            /\ q.more = (q.rest # << >> /\ t.state # "FINISH")
  BY <1>2, TurnIs DEF t
<1>. HIDE DEF q
<1>5. ASSUME LineEnds(c) = {} PROVE Past(q, b)
  <2>1. Read(q, b, v, m)
    BY <1>1, <1>2, <1>3, <1>4, <1>5 DEF Read
  <2>. QED BY <2>1 DEF Past
<1>6. ASSUME LineEnds(c) # {} PROVE Past(q, b)
  <2>1. L + 1 \in 1 .. Len(c) - 1
    BY <1>3, <1>6, LineIs DEF LineEnds
  <2>0. Len(b) \in Nat /\ v \in 1 .. Len(b) /\ L \in 0 .. Len(c)
    <3>1. L \in 0 .. Len(c)
      BY <1>3, LineIs
    <3>. QED BY <3>1 DEF Versions
  <2>2. L + 3 \in 1 .. Len(c) + 1 /\ m + (L + 3) - 1 = m + L + 2
        /\ m + L + 2 \in 1 .. Len(b) + 1 /\ v < m + L + 2
    <3>1. PICK l, d : l = L /\ d = Len(c)
      OBVIOUS
    <3>2. l \in 0 .. d /\ l + 1 \in 1 .. d - 1 /\ d = Len(b) - m + 1
      BY <1>3, <2>0, <2>1, <3>1
    <3>3. l + 3 \in 1 .. d + 1 /\ m + (l + 3) - 1 = m + l + 2
          /\ m + l + 2 \in 1 .. Len(b) + 1 /\ v < m + l + 2
      BY <1>1, <2>0, <3>2
    <3>. QED BY <3>1, <3>3
  <2>3. SubSeq(c, L + 3, Len(c)) = SubSeq(b, m + (L + 3) - 1, Len(b))
    <3>1. PICK n, e : n = L + 3 /\ e = c
      OBVIOUS
    <3>2. e = SubSeq(b, m, Len(b)) /\ n \in 1 .. Len(e) + 1
      BY <1>3, <2>2, <3>1
    <3>3. SubSeq(e, n, Len(e)) = SubSeq(b, m + n - 1, Len(b))
      BY <3>2, SubSeqTwice
    <3>. QED BY <3>1, <3>3
  <2>4. q.rest = SubSeq(b, m + L + 2, Len(b)) /\ q.more \in BOOLEAN
    BY <1>4, <1>6, <2>2, <2>3 DEF retrieved
  <2>5. Read(q, b, v, m + L + 2)
    BY <1>1, <1>2, <1>4, <1>6, <2>2, <2>4 DEF Read
  <2>. QED BY <2>2, <2>5 DEF Past
<1>. QED BY <1>5, <1>6 DEF q

LEMMA PastOnward ==
    ASSUME NEW b \in Seq(AllPieces), NEW p, Past(p, b)
    PROVE  Past(Turn(p), b)
<1>1. CASE ~p.more
  BY <1>1 DEF Turn
<1>2. ASSUME p.more, NEW v \in Versions(b), NEW m \in 1 .. Len(b) + 1, Read(p, b, v, m)
      PROVE  Past(Turn(p), b)
  <2>1. p.more = TRUE
    BY <1>2 DEF Read
  <2>. QED BY <1>2, <2>1, ReadOnward
<1>. QED BY <1>1, <1>2 DEF Past

\* after[n] is what N turns of the loop make of x, in sets of one.
Turns(after, x, N) ==
    after = [n \in 0 .. N |-> IF n = 0 THEN {x} ELSE {Turn(p) : p \in after[n - 1]}]

LEMMA TurnsExist ==
    ASSUME NEW x, NEW N \in Nat PROVE \E after : Turns(after, x, N)
<1>. DEFINE S == {k \in 0 .. N : \E f : Turns(f, x, k)}
<1>1. 0 \in S
  <2>. DEFINE f == [n \in 0 .. 0 |-> {x}]
  <2>1. f = [n \in 0 .. 0 |-> IF n = 0 THEN {x} ELSE {Turn(p) : p \in f[n - 1]}]
    OBVIOUS
  <2>2. Turns(f, x, 0)
    BY <2>1 DEF Turns
  <2>. HIDE DEF f
  <2>. QED BY <2>2
<1>2. ASSUME NEW k \in 0 .. N - 1, k \in S PROVE k + 1 \in S
  <2>1. PICK f : Turns(f, x, k)
    BY <1>2
  <2>2. PICK l \in 1 .. N : l = k + 1 /\ l - 1 = k
    BY <1>2
  <2>. DEFINE g == [n \in 0 .. l |-> IF n = 0 THEN {x} ELSE {Turn(p) : p \in f[n - 1]}]
  <2>3. \A n \in 0 .. k : f[n] = IF n = 0 THEN {x} ELSE {Turn(p) : p \in f[n - 1]}
    BY <2>1 DEF Turns
  <2>4. ASSUME NEW n \in 0 .. k PROVE g[n] = f[n]
    <3>1. n \in 0 .. l
      BY <2>2
    <3>2. g[n] = IF n = 0 THEN {x} ELSE {Turn(p) : p \in f[n - 1]}
      BY <3>1, Zenon
    <3>3. f[n] = IF n = 0 THEN {x} ELSE {Turn(p) : p \in f[n - 1]}
      BY <2>3
    <3>. QED BY <3>2, <3>3, Zenon
  <2>5. ASSUME NEW n \in 0 .. l, n # 0 PROVE {Turn(p) : p \in f[n - 1]} = {Turn(p) : p \in g[n - 1]}
    <3>1. n - 1 \in 0 .. k
      BY <2>2, <2>5
    <3>. QED BY <2>4, <3>1
  <2>. DEFINE h == [n \in 0 .. l |-> IF n = 0 THEN {x} ELSE {Turn(p) : p \in g[n - 1]}]
  <2>6. g = h
    BY <2>5
  <2>7. Turns(g, x, l)
    BY <2>6 DEF Turns
  <2>. QED BY <2>2, <2>7
<1>3. \A k \in 0 .. N : k \in S
  <2>. HIDE DEF S
  <2>. QED BY <1>1, <1>2, Induct
<1>. QED BY <1>3

\* Parsed, as the loop from its beginning.
LEMMA ParsedIs ==
    ASSUME NEW b, Len(b) \in Nat
    PROVE  \E after :
              /\ Turns(after, [out |-> NewRequest, rest |-> b, more |-> b # << >>], Len(b))
              /\ Parsed(b) = The(after[Len(b)])
<1>. DEFINE x == [out |-> NewRequest, rest |-> b, more |-> b # << >>]
            N == Len(b)
            after == CHOOSE f : Turns(f, x, N)
<1>1. Turns(after, x, N)
  <2>1. \E f : Turns(f, x, N)
    <3>. HIDE DEF x
    <3>. QED BY TurnsExist
  <2>. HIDE DEF x, N
  <2>. QED BY <2>1
<1>2. Parsed(b) = The(after[N])
  BY Zenon DEF Parsed, Turns
<1>. HIDE DEF after
<1>. QED BY <1>1, <1>2

LEMMA ParsedTurns ==
    ASSUME NEW b \in Seq(AllPieces)
    PROVE  \E after, x :
              /\ x.out = NewRequest /\ x.rest = b /\ x.more = (b # << >>)
              /\ after[0] = {x} /\ Parsed(b) = The(after[Len(b)])
              /\ \A n \in 0 .. Len(b) - 1 : after[n + 1] = {Turn(p) : p \in after[n]}
<1>. DEFINE x == [out |-> NewRequest, rest |-> b, more |-> b # << >>]
            N == Len(b)
<1>1. N \in Nat
  OBVIOUS
<1>2. PICK after : Turns(after, x, N) /\ Parsed(b) = The(after[N])
  BY <1>1, ParsedIs
<1>3. after[0] = {x}
  <2>. HIDE DEF x
  <2>. QED BY <1>1, <1>2 DEF Turns
<1>4. ASSUME NEW n \in 0 .. N - 1 PROVE after[n + 1] = {Turn(p) : p \in after[n]}
  <2>1. PICK m \in 0 .. N : m = n + 1 /\ m - 1 = n /\ m # 0
    OBVIOUS
  <2>. HIDE DEF x, N
  <2>2. after[m] = {Turn(p) : p \in after[m - 1]}
    BY <1>2, <2>1 DEF Turns
  <2>. QED BY <2>1, <2>2
<1>5. x.out = NewRequest /\ x.rest = b /\ x.more = (b # << >>)
  OBVIOUS
<1>. HIDE DEF x
<1>. QED BY <1>2, <1>3, <1>4, <1>5

LEMMA ParseIs ==
    ASSUME NEW b \in Seq(AllPieces)
    PROVE  /\ b = << >> => parse(b).rest = b
           /\ b # << >> => Past(parse(b), b)
<1>. DEFINE N == Len(b)
<1>1. N \in Nat
  OBVIOUS
<1>2. PICK after, x :
         /\ x.out = NewRequest /\ x.rest = b /\ x.more = (b # << >>)
         /\ after[0] = {x} /\ Parsed(b) = The(after[N])
         /\ \A n \in 0 .. N - 1 : after[n + 1] = {Turn(p) : p \in after[n]}
  BY ParsedTurns
<1>5. CASE b = << >>
  <2>1. N = 0
    BY <1>5
  <2>2. Parsed(b) = x
    BY <1>2, <2>1, TheOne
  <2>. QED BY <1>2, <1>5, <2>2 DEF parse
<1>6. CASE b # << >>
  <2>1. Begun(x, b) /\ N # 0
    <3>1. x.more = TRUE
      BY <1>2, <1>6, Zenon
    <3>. QED BY <1>2, <1>6, <3>1 DEF Begun
  <2>. DEFINE S == {n \in 0 .. N : n # 0 => \E p : after[n] = {p} /\ Past(p, b)}
  <2>2. ASSUME NEW n \in 0 .. N - 1, n \in S PROVE n + 1 \in S
    <3>1. after[n + 1] = {Turn(p) : p \in after[n]} /\ n + 1 \in 0 .. N
      <4>1. n + 1 \in 0 .. N
        BY <1>1, <2>2
      <4>2. after[n + 1] = {Turn(p) : p \in after[n]}
        <5>. HIDE DEF N, S
        <5>. QED BY <1>2, <2>2
      <4>. QED BY <4>1, <4>2
    <3>2. PICK p : after[n] = {p} /\ Past(Turn(p), b)
      <4>1. CASE n = 0
        BY <1>2, <2>1, <4>1, BegunOnward
      <4>2. CASE n # 0
        <5>1. PICK p : after[n] = {p} /\ Past(p, b)
          BY <2>2, <4>2
        <5>. QED BY <5>1, PastOnward
      <4>. QED BY <4>1, <4>2
    <3>3. after[n + 1] = {Turn(p)}
      BY <3>1, <3>2
    <3>. QED BY <3>1, <3>2, <3>3
  <2>3. \A n \in 0 .. N : n \in S
    <3>1. 0 \in S
      BY <1>1
    <3>. HIDE DEF S
    <3>. QED BY <1>1, <2>2, <3>1, Induct
  <2>4. PICK p : after[N] = {p} /\ Past(p, b)
    BY <1>1, <2>1, <2>3
  <2>5. Parsed(b) = p
    BY <1>2, <2>4, TheOne
  <2>. QED BY <1>6, <2>4, <2>5 DEF parse
<1>. QED BY <1>5, <1>6

\* What process makes of the buffer: nothing, or an answer to a request whose
\* version is there, and not any longer if the connection is kept.
LEMMA ProcessIs ==
    ASSUME NEW b \in Seq(AllPieces), NEW r, r = Process(b)
    PROVE  \/ r.success = FALSE /\ r.rest = b
           \/ /\ r.success = TRUE
              /\ \E v \in Versions(b), m \in 1 .. Len(b) + 1 :
                    /\ r.answer.req = b[v].req /\ r.rest = SubSeq(b, m, Len(b))
                    /\ r.answer.keep => v < m
<1>. DEFINE p == parse(b)
            a == [req |-> p.out.req, method |-> p.out.method,
                  form |-> p.out.form, post |-> p.out.post, keep |-> IsKeepAlive(p.out)]
<1>1. /\ r.success = (b # << >> /\ p.out.ok) /\ r.answer = a
      /\ r.rest = IF p.out.ok THEN p.rest ELSE b
  BY DEF Process, processed, refused
<1>2. a.req = p.out.req /\ a.keep = ("Connection" \in p.out.header)
  BY DEF IsKeepAlive
<1>. HIDE DEF a, p
<1>3. CASE b = << >>
  <2>1. p.rest = b
    BY <1>3, ParseIs DEF p
  <2>. QED BY <1>1, <1>3, <2>1
<1>4. CASE b # << >> /\ ~p.out.ok
  BY <1>1, <1>4
<1>5. CASE b # << >> /\ p.out.ok
  <2>1. PICK v \in Versions(b), m \in 1 .. Len(b) + 1 : Read(p, b, v, m)
    BY <1>5, ParseIs DEF p, Past
  <2>2. p.out.req = b[v].req /\ p.rest = SubSeq(b, m, Len(b))
        /\ ("Connection" \in p.out.header => v < m)
    BY <2>1 DEF Read
  <2>. QED BY <1>1, <1>2, <1>5, <2>2
<1>. QED BY <1>3, <1>4, <1>5

-----------------------------------------------------------------------------
(* The order of the answers.                                               *)

\* The versions of a stream, and so its requests, have rising numbers, and
\* those of what is still to be read are above every answer.
Rising(w) == \A j, k \in Versions(w) : j < k => w[j].req < w[k].req
Fresh(w)  == \A k \in DOMAIN answers : \A v \in Versions(w) : answers[k].req < w[v].req

Stream == readBuff \o unsent

\* A connection that goes on has taken the request line it answered out of its
\* buffer; one that closes does not parse the buffer again.
OrderInv ==
    /\ readBuff \in Seq(AllPieces) /\ unsent \in Seq(AllPieces)
    /\ \E A : answers \in Seq(A)
    /\ Rising(Stream)
    /\ conn = "reading" => Fresh(Stream)
    /\ conn = "writing" => answers # << >> /\ (Last(answers).keep => Fresh(Stream))
    /\ AnsweredInOrder

\* x is what is left of w, that is b and u, when m - 1 pieces of b are taken out.
IsLeft(b, u, m, w, x) ==
    /\ b \in Seq(AllPieces) /\ u \in Seq(AllPieces) /\ m \in 1 .. Len(b) + 1
    /\ w = b \o u /\ x = SubSeq(b, m, Len(b)) \o u

LEMMA LeftIs ==
    ASSUME NEW b, NEW u, NEW m, NEW w, NEW x, IsLeft(b, u, m, w, x), NEW k \in Versions(x)
    PROVE  k + m - 1 \in Versions(w) /\ x[k] = w[k + m - 1]
<1>. DEFINE c == SubSeq(b, m, Len(b))
<1>0. /\ b \in Seq(AllPieces) /\ u \in Seq(AllPieces) /\ m \in 1 .. Len(b) + 1
      /\ w = b \o u /\ x = c \o u
  BY DEF IsLeft
<1>1. c \in Seq(AllPieces) /\ Len(c) = Len(b) - m + 1 /\ \A i \in 1 .. Len(c) : c[i] = b[m + i - 1]
  BY <1>0, SubSeqOf
<1>. HIDE DEF c
<1>2. /\ Len(w) = Len(b) + Len(u)
      /\ \A i \in 1 .. Len(b) + Len(u) : w[i] = IF i <= Len(b) THEN b[i] ELSE u[i - Len(b)]
  BY <1>0, ConcatProperties
<1>3. /\ Len(x) = Len(c) + Len(u)
      /\ \A i \in 1 .. Len(c) + Len(u) : x[i] = IF i <= Len(c) THEN c[i] ELSE u[i - Len(c)]
  BY <1>0, <1>1, ConcatProperties
<1>4. k \in 1 .. Len(x) /\ x[k].is = "version"
  BY DEF Versions
<1>5. Len(b) \in Nat /\ Len(u) \in Nat /\ Len(c) \in Nat
  BY <1>0, <1>1
<1>6. k + m - 1 \in 1 .. Len(w) /\ k \in 1 .. Len(c) + Len(u)
      /\ k + m - 1 \in 1 .. Len(b) + Len(u)
  BY <1>0, <1>1, <1>2, <1>3, <1>4, <1>5
<1>7. x[k] = w[k + m - 1]
  <2>1. CASE k <= Len(c)
    <3>1. k \in 1 .. Len(c) /\ k + m - 1 <= Len(b) /\ k + m - 1 = m + k - 1
      BY <1>0, <1>1, <1>4, <1>5, <1>6, <2>1
    <3>2. x[k] = c[k] /\ w[k + m - 1] = b[k + m - 1] /\ c[k] = b[m + k - 1]
      BY <1>1, <1>2, <1>3, <1>6, <3>1
    <3>. QED BY <3>1, <3>2
  <2>2. CASE ~(k <= Len(c))
    <3>1. ~(k + m - 1 <= Len(b)) /\ k + m - 1 - Len(b) = k - Len(c)
      BY <1>0, <1>1, <1>4, <1>5, <1>6, <2>2
    <3>2. x[k] = u[k - Len(c)]
      BY <1>3, <1>6, <2>2
    <3>3. PICK e : e = k + m - 1
      OBVIOUS
    <3>4. e \in 1 .. Len(b) + Len(u) /\ ~(e <= Len(b)) /\ e - Len(b) = k - Len(c)
      BY <1>0, <1>1, <1>4, <1>5, <1>6, <2>2, <3>1, <3>3
    <3>5. w[e] = u[e - Len(b)]
      BY <1>2, <3>4
    <3>. QED BY <3>2, <3>3, <3>4, <3>5
  <2>. QED BY <2>1, <2>2
<1>. QED BY <1>4, <1>6, <1>7 DEF Versions

LEMMA ProcessKeeps ==
    ASSUME NEW b \in Seq(AllPieces), NEW u \in Seq(AllPieces), NEW A, answers \in Seq(A),
           Rising(b \o u), Fresh(b \o u), AnsweredInOrder, OnProcess(b), unsent' = u
    PROVE  OrderInv'
<1>. DEFINE r == Process(b)
            w == b \o u
<1>0. /\ answers' = IF r.success THEN Append(answers, r.answer) ELSE answers
      /\ readBuff' = r.rest
      /\ conn' = IF r.success THEN "writing" ELSE "reading"
  BY DEF OnProcess, OnProcessed
<1>1. \/ r.success = FALSE /\ r.rest = b
      \/ /\ r.success = TRUE
         /\ \E v \in Versions(b), m \in 1 .. Len(b) + 1 :
               /\ r.answer.req = b[v].req /\ r.rest = SubSeq(b, m, Len(b))
               /\ r.answer.keep => v < m
  BY ProcessIs
<1>. HIDE DEF r
<1>2. CASE r.success = FALSE /\ r.rest = b
  <2>1. answers' = answers /\ readBuff' = b /\ conn' = "reading"
    BY <1>0, <1>2
  <2>. QED BY <2>1 DEF OrderInv, Stream, Fresh, AnsweredInOrder
<1>3. ASSUME r.success = TRUE, NEW v \in Versions(b), NEW m \in 1 .. Len(b) + 1,
             r.answer.req = b[v].req, r.rest = SubSeq(b, m, Len(b)),
             r.answer.keep => v < m
      PROVE  OrderInv'
  <2>. DEFINE a == r.answer
              N == Len(answers)
              B == A \cup {a}
              c == SubSeq(b, m, Len(b))
              x == c \o u
  <2>1. answers' = Append(answers, a) /\ readBuff' = c /\ conn' = "writing" /\ Stream' = x
    BY <1>0, <1>3 DEF Stream
  <2>2. N \in Nat /\ answers \in Seq(B) /\ a \in B /\ DOMAIN answers = 1 .. N
    BY SeqMonotonic
  <2>3. /\ answers' \in Seq(B) /\ Len(answers') = N + 1 /\ answers' # << >>
        /\ \A i \in 1 .. N : answers'[i] = answers[i]
        /\ answers'[N + 1] = a
    <3>. HIDE DEF a, B
    <3>1. PICK s, e : s = answers /\ e = a
      OBVIOUS
    <3>2. s \in Seq(B) /\ e \in B
      BY <2>2, <3>1
    <3>3. /\ Append(s, e) \in Seq(B) /\ Append(s, e) # << >> /\ Len(Append(s, e)) = Len(s) + 1
          /\ \A i \in 1 .. Len(s) : Append(s, e)[i] = s[i]
          /\ Append(s, e)[Len(s) + 1] = e
      BY <3>2, AppendProperties
    <3>. QED BY <2>1, <3>1, <3>3
  <2>4. DOMAIN answers' = 1 .. N + 1 /\ Last(answers') = a
    BY <2>2, <2>3 DEF Last
  <2>. HIDE DEF a, N, B
  <2>5. v \in Versions(w) /\ w[v] = b[v] /\ c \in Seq(AllPieces) /\ x \in Seq(AllPieces)
    <3>1. /\ Len(w) = Len(b) + Len(u)
          /\ \A i \in 1 .. Len(b) + Len(u) : w[i] = IF i <= Len(b) THEN b[i] ELSE u[i - Len(b)]
      BY ConcatProperties
    <3>2. v \in 1 .. Len(b) + Len(u) /\ v <= Len(b) /\ b[v].is = "version"
      BY DEF Versions
    <3>3. w[v] = b[v]
      BY <3>1, <3>2
    <3>4. c \in Seq(AllPieces)
      BY SubSeqOf
    <3>. HIDE DEF w, c
    <3>. QED BY <3>1, <3>2, <3>3, <3>4, ConcatProperties DEF Versions
  <2>6. \A k \in Versions(x) : k + m - 1 \in Versions(w) /\ x[k] = w[k + m - 1]
    <3>1. m \in 1 .. Len(b) + 1
      BY <1>3
    <3>2. IsLeft(b, u, m, w, x)
      BY <3>1 DEF IsLeft
    <3>. HIDE DEF w, c, x
    <3>. QED BY <3>2, LeftIs
  <2>. HIDE DEF w, c, x
  <2>7. Rising(x)
    <3>1. ASSUME NEW j \in Versions(x), NEW k \in Versions(x), j < k
          PROVE  x[j].req < x[k].req
      <4>1. j \in Int /\ k \in Int /\ m \in Int
        BY DEF Versions
      <4>2. j + m - 1 < k + m - 1
        BY <3>1, <4>1
      <4>. QED BY <2>6, <3>1, <4>2 DEF Rising, w
    <3>. QED BY <3>1 DEF Rising
  <2>8. \A k \in 1 .. N : answers[k].req < a.req
    BY <1>3, <2>2, <2>5 DEF Fresh, w, a
  <2>9. ASSUME a.keep
        PROVE  \A i \in DOMAIN answers' : \A k \in Versions(x) : answers'[i].req < x[k].req
    <3>1. ASSUME NEW k \in Versions(x) PROVE a.req < x[k].req
      <4>1. k \in 1 .. Len(x) /\ v \in Int /\ m \in Int /\ v < m
        BY <1>3, <2>9 DEF Versions, a
      <4>2. v < k + m - 1
        BY <4>1
      <4>. QED BY <1>3, <2>5, <2>6, <4>2 DEF Rising, w, a
    <3>2. ASSUME NEW k \in Versions(x), NEW i \in 1 .. N PROVE answers[i].req < x[k].req
      BY <2>2, <2>6 DEF Fresh, w
    <3>3. ASSUME NEW i \in 1 .. N + 1, NEW k \in Versions(x) PROVE answers'[i].req < x[k].req
      <4>1. CASE i = N + 1
        BY <2>3, <3>1, <4>1
      <4>2. CASE i # N + 1
        <5>1. i \in 1 .. N
          BY <2>2, <4>2
        <5>. QED BY <2>3, <3>2, <5>1
      <4>. QED BY <4>1, <4>2
    <3>. QED BY <2>4, <3>3
  <2>10. AnsweredInOrder'
    <3>1. ASSUME NEW j \in 1 .. N + 1, NEW k \in 1 .. N + 1, j < k
          PROVE  answers'[j].req < answers'[k].req
      <4>1. CASE k = N + 1
        <5>1. j \in 1 .. N
          BY <2>2, <3>1, <4>1
        <5>. QED BY <2>3, <2>8, <4>1, <5>1
      <4>2. CASE k # N + 1
        <5>1. j \in 1 .. N /\ k \in 1 .. N
          BY <2>2, <3>1, <4>2
        <5>. QED BY <2>2, <2>3, <3>1, <5>1 DEF AnsweredInOrder
      <4>. QED BY <4>1, <4>2
    <3>. QED BY <2>4, <3>1 DEF AnsweredInOrder
  <2>. QED BY <2>1, <2>3, <2>4, <2>5, <2>7, <2>9, <2>10 DEF OrderInv, Fresh
<1>. QED BY <1>1, <1>2, <1>3

-----------------------------------------------------------------------------
(* What arrives.                                                           *)

LEMMA InFours ==
    ASSUME NEW k \in Nat, NEW H \in Nat, 4 < k, k <= 4 * H + 4
    PROVE  \E h \in 1 .. H : k = 4 * h + 1 \/ k = 4 * h + 2 \/ k = 4 * h + 3 \/ k = 4 * h + 4
<1>. DEFINE h == (k - 1) \div 4
<1>1. h \in Int /\ 4 * h <= k - 1 /\ k - 1 < 4 * h + 4
  OBVIOUS
<1>. HIDE DEF h
<1>2. h \in 1 .. H
  BY <1>1
<1>3. k = 4 * h + 1 \/ k = 4 * h + 2 \/ k = 4 * h + 3 \/ k = 4 * h + 4
  BY <1>1
<1>. QED BY <1>2, <1>3

\* A request has one target and one version, at its front.
LEMMA FrontOfRequest ==
    ASSUME NEW b, NEW i, NEW method, NEW names \in Seq(Names), IsRequest(b, i, method, names)
    PROVE  /\ Len(b) \in Nat /\ 6 <= Len(b) /\ b[1].is = "target" /\ b[2].is = "version"
           /\ \A k \in 3 .. Len(b) : b[k].is \notin {"target", "version"}
<1>. DEFINE H == Len(names)
<1>1. H \in Nat /\ \A h \in 1 .. H : names[h] \in Names
  OBVIOUS
<1>2. /\ Len(b) = 4 * H + (IF method = "POST" THEN 7 ELSE 6)
      /\ b[1].is = "target" /\ b[2].is = "version" /\ b[3].is = "CR" /\ b[4].is = "LF"
      /\ b[4 * H + 5].is = "CR" /\ b[4 * H + 6].is = "LF"
      /\ method = "POST" => b[4 * H + 7].is = "body"
  BY DEF IsRequest, Piece
<1>3. ASSUME NEW h \in 1 .. H
      PROVE  /\ b[4 * h + 1].is \notin {"target", "version"}
             /\ b[4 * h + 2].is \notin {"target", "version"}
             /\ b[4 * h + 3].is \notin {"target", "version"}
             /\ b[4 * h + 4].is \notin {"target", "version"}
  <2>1. /\ b[4 * h + 1] = Piece(i, names[h]) /\ b[4 * h + 2] = Piece(i, "value")
        /\ b[4 * h + 3] = Piece(i, "CR") /\ b[4 * h + 4] = Piece(i, "LF")
    BY DEF IsRequest
  <2>2. names[h] \notin {"target", "version"}
    BY <1>1 DEF Names
  <2>. QED BY <2>1, <2>2 DEF Piece
<1>4. ASSUME NEW k \in 3 .. Len(b) PROVE b[k].is \notin {"target", "version"}
  <2>1. CASE k <= 4
    <3>1. k = 3 \/ k = 4
      BY <1>1, <1>2, <2>1
    <3>. QED BY <1>2, <3>1
  <2>2. CASE 4 < k /\ k <= 4 * H + 4
    <3>1. PICK h \in 1 .. H : k = 4 * h + 1 \/ k = 4 * h + 2 \/ k = 4 * h + 3 \/ k = 4 * h + 4
      <4>1. k \in Nat /\ H \in Nat
        BY <1>1
      <4>. HIDE DEF H
      <4>. QED BY <2>2, <4>1, InFours
    <3>. QED BY <1>3, <3>1
  <2>3. CASE 4 * H + 4 < k
    <3>0. \/ method = "POST" /\ k \in 1 .. 4 * H + 7
          \/ k \in 1 .. 4 * H + 6
      BY <1>2
    <3>1. \/ k = 4 * H + 5 \/ k = 4 * H + 6
          \/ method = "POST" /\ k = 4 * H + 7
      BY <1>1, <2>3, <3>0
    <3>. QED BY <1>2, <3>1
  <2>. QED BY <1>1, <2>1, <2>2, <2>3
<1>5. Len(b) \in Nat /\ 6 <= Len(b)
  BY <1>1, <1>2
<1>. QED BY <1>2, <1>4, <1>5

LEMMA VersionOfRequest ==
    ASSUME NEW b, NEW i, NEW method, NEW names \in Seq(Names), IsRequest(b, i, method, names)
    PROVE  Versions(b) = {2}
<1>1. /\ Len(b) \in Nat /\ 6 <= Len(b) /\ b[1].is = "target" /\ b[2].is = "version"
      /\ \A k \in 3 .. Len(b) : b[k].is \notin {"target", "version"}
  BY FrontOfRequest
<1>2. ASSUME NEW k \in Versions(b) PROVE k = 2
  <2>1. k \in 1 .. Len(b) /\ b[k].is = "version"
    BY DEF Versions
  <2>2. k \notin 3 .. Len(b) /\ k # 1
    BY <1>1, <2>1
  <2>. QED BY <1>1, <2>1, <2>2
<1>3. 2 \in Versions(b)
  BY <1>1 DEF Versions
<1>. QED BY <1>2, <1>3

\* The pieces of the first n requests.
Arrives(w, n) ==
    /\ w \in Seq(AllPieces) /\ Rising(w)
    /\ \A k \in Versions(w) : w[k].req <= n

LEMMA ArrivesNext ==
    ASSUME NEW w, NEW n \in Nat, Arrives(w, n), NEW i, i = n + 1,
           NEW b \in Seq(PiecesOf(i)), Versions(b) = {2}
    PROVE  Arrives(w \o b, i)
<1>. DEFINE x == w \o b
            M == Len(w)
<1>1. w \in Seq(AllPieces) /\ M \in Nat /\ b \in Seq(AllPieces) /\ Len(b) \in Nat
  <2>1. PiecesOf(i) \subseteq AllPieces
    BY DEF PiecesOf, AllPieces
  <2>. QED BY <2>1, SeqMonotonic DEF Arrives
<1>2. /\ x \in Seq(AllPieces) /\ Len(x) = M + Len(b)
      /\ \A k \in 1 .. M + Len(b) : x[k] = IF k <= M THEN w[k] ELSE b[k - M]
  BY <1>1, ConcatProperties
<1>. HIDE DEF x, M
<1>3. ASSUME NEW k \in Versions(x)
      PROVE  \/ k \in Versions(w) /\ k <= M /\ x[k].req = w[k].req
             \/ k = M + 2 /\ x[k].req = i
  <2>1. k \in 1 .. M + Len(b) /\ x[k].is = "version"
    BY <1>2 DEF Versions
  <2>2. CASE k <= M
    BY <1>2, <2>1, <2>2 DEF Versions, M
  <2>3. CASE ~(k <= M)
    <3>1. PICK l : l = k - M
      OBVIOUS
    <3>2. l \in 1 .. Len(b) /\ x[k] = b[l] /\ k = M + l
      BY <1>1, <1>2, <2>1, <2>3, <3>1
    <3>3. l = 2 /\ b[l] \in PiecesOf(i)
      BY <2>1, <3>2 DEF Versions
    <3>. QED BY <3>2, <3>3 DEF PiecesOf
  <2>. QED BY <2>2, <2>3
<1>4. ASSUME NEW k \in Versions(w) PROVE w[k].req <= n /\ w[k].req \in Nat
  <2>1. k \in 1 .. Len(w)
    BY DEF Versions
  <2>2. w[k] \in AllPieces
    BY <1>1, <2>1, ElementOfSeq
  <2>. QED BY <2>2 DEF Arrives, AllPieces
<1>5. \A k \in Versions(x) : x[k].req <= i
  BY <1>3, <1>4
<1>6. Rising(x)
  <2>1. ASSUME NEW j \in Versions(x), NEW k \in Versions(x), j < k PROVE x[j].req < x[k].req
    <3>1. CASE k = M + 2 /\ x[k].req = i
      <4>0. j # M + 2
        BY <1>1, <2>1, <3>1
      <4>1. j \in Versions(w) /\ x[j].req = w[j].req
        BY <1>3, <4>0
      <4>. QED BY <1>4, <3>1, <4>1
    <3>2. CASE k \in Versions(w) /\ k <= M /\ x[k].req = w[k].req
      <4>1. j \in Versions(w) /\ x[j].req = w[j].req
        BY <1>1, <1>3, <2>1, <3>2 DEF Versions
      <4>. QED BY <2>1, <3>2, <4>1 DEF Arrives, Rising
    <3>. QED BY <1>3, <3>1, <3>2
  <2>. QED BY <2>1 DEF Rising
<1>7. Arrives(x, i)
  BY <1>2, <1>5, <1>6 DEF Arrives
<1>. QED BY <1>7 DEF x

LEMMA AllArrives ==
    ASSUME NEW rs \in Requests
    PROVE  Arrives(FlattenSeq([i \in DOMAIN rs |-> Request(rs, i)]), Len(rs))
<1>. DEFINE N  == Len(rs)
            ss == [i \in DOMAIN rs |-> Request(rs, i)]
<1>1. N \in Nat /\ DOMAIN rs = 1 .. N
  BY DEF Requests
<1>2. ASSUME NEW i \in 1 .. N
      PROVE  ss[i] \in Seq(PiecesOf(i)) /\ Versions(ss[i]) = {2} /\ ss[i] \in Seq(AllPieces)
  <2>1. IsRequest(Request(rs, i), i, rs[i].method, rs[i].headers)
    BY <1>1, RequestIs
  <2>2. \A R : \A s \in Seq(R) : \A k \in DOMAIN s : s[k] \in R
    OBVIOUS
  <2>3. rs[i] \in [method : {"GET", "POST"}, headers : Seq(Names)]
    BY <1>1, <2>2 DEF Requests
  <2>4. PICK b : b = ss[i]
    OBVIOUS
  <2>5. IsRequest(b, i, rs[i].method, rs[i].headers)
    BY <1>1, <2>1, <2>4
  <2>6. b \in Seq(PiecesOf(i)) /\ Versions(b) = {2}
    BY <2>3, <2>5, VersionOfRequest DEF IsRequest
  <2>7. PiecesOf(i) \subseteq AllPieces
    BY DEF PiecesOf, AllPieces
  <2>8. b \in Seq(AllPieces)
    BY <2>6, <2>7, SeqMonotonic
  <2>. QED BY <2>4, <2>6, <2>8
<1>3. ss \in Seq(Seq(AllPieces)) /\ Len(ss) = N
  <2>1. ss \in [1 .. N -> Seq(AllPieces)]
    BY <1>1, <1>2
  <2>. QED BY <1>1, <2>1, FunctionIsSeq
<1>. HIDE DEF ss
<1>4. PICK f : Joins(f, ss, N)
  BY <1>1, JoinsExist
<1>5. FlattenSeq(ss) = f[N]
  BY <1>3, <1>4, FlattenIs
<1>. DEFINE S == {n \in 0 .. N : Arrives(f[n], n)}
<1>6. 0 \in S
  <2>1. f[0] = << >>
    BY <1>4 DEF Joins
  <2>2. Versions(<< >>) = {} /\ << >> \in Seq(AllPieces)
    BY DEF Versions
  <2>3. Arrives(f[0], 0)
    BY <2>1, <2>2 DEF Arrives, Rising
  <2>. QED BY <1>1, <2>3
<1>7. ASSUME NEW n \in 0 .. N - 1, n \in S PROVE n + 1 \in S
  <2>1. PICK m \in 1 .. N : m = n + 1 /\ m - 1 = n
    BY <1>1
  <2>2. f[m] = f[n] \o ss[m]
    BY <1>4, <2>1 DEF Joins
  <2>3. PICK w, b : w = f[n] /\ b = ss[m]
    OBVIOUS
  <2>4. Arrives(w, n) /\ b \in Seq(PiecesOf(m)) /\ Versions(b) = {2} /\ n \in Nat
    <3>1. Arrives(f[n], n)
      BY <1>7
    <3>2. ss[m] \in Seq(PiecesOf(m)) /\ Versions(ss[m]) = {2}
      BY <1>2
    <3>. QED BY <2>3, <3>1, <3>2
  <2>5. Arrives(w \o b, m)
    BY <2>1, <2>4, ArrivesNext
  <2>6. Arrives(f[m], m) /\ m \in 0 .. N
    BY <2>2, <2>3, <2>5
  <2>7. m \in S
    BY <2>6
  <2>. QED BY <2>1, <2>7
<1>8. N \in S
  <2>1. \A n \in 0 .. N : n \in S
    <3>. HIDE DEF S
    <3>. QED BY <1>1, <1>6, <1>7, Induct
  <2>. QED BY <1>1, <2>1
<1>. QED BY <1>5, <1>8 DEF ss

-----------------------------------------------------------------------------
(* Invariance.                                                             *)

LEMMA OrderInit == Init => OrderInv
<1>. SUFFICES ASSUME Init PROVE OrderInv
  OBVIOUS
<1>1. requests \in Requests
  <2>1. PICK s \in Sessions : requests = s.requests
    BY DEF Init
  <2>2. s \in [requests : Requests, content : Contents]
    BY HttpRequestAssumption DEF Requests
  <2>. QED BY <2>1, <2>2
<1>2. Arrives(unsent, Len(requests))
  BY <1>1, AllArrives DEF Init
<1>3. readBuff = << >> /\ answers = << >> /\ conn = "reading" /\ unsent \in Seq(AllPieces)
  BY <1>2 DEF Init, Arrives
<1>4. Stream = unsent
  BY <1>3, ConcatEmptySeq DEF Stream
<1>5. answers \in Seq({}) /\ DOMAIN answers = {}
  BY <1>3
<1>6. Rising(Stream)
  BY <1>2, <1>4 DEF Arrives
<1>7. Fresh(Stream) /\ AnsweredInOrder
  BY <1>5 DEF Fresh, AnsweredInOrder
<1>. QED BY <1>3, <1>5, <1>6, <1>7 DEF OrderInv

LEMMA ReadKeeps == OrderInv /\ OnRead_ => OrderInv'
<1>. SUFFICES ASSUME OrderInv, OnRead_ PROVE OrderInv'
  OBVIOUS
<1>1. PICK n \in 1 .. Len(unsent) :
         /\ OnProcess(readBuff \o SubSeq(unsent, 1, n))
         /\ unsent' = SubSeq(unsent, n + 1, Len(unsent))
  BY DEF OnRead_
<1>2. conn = "reading" /\ readBuff \in Seq(AllPieces) /\ unsent \in Seq(AllPieces)
  BY DEF OnRead_, OrderInv
<1>3. PICK r, x, u : /\ r = readBuff /\ x = SubSeq(unsent, 1, n)
                     /\ u = SubSeq(unsent, n + 1, Len(unsent))
  OBVIOUS
<1>4. /\ r \in Seq(AllPieces) /\ x \in Seq(AllPieces) /\ u \in Seq(AllPieces)
      /\ x \o u = unsent
  <2>1. PICK w : w = unsent
    OBVIOUS
  <2>2. w \in Seq(AllPieces) /\ n \in 1 .. Len(w) /\ Len(w) \in Nat
    BY <1>2, <2>1
  <2>3. SubSeq(w, 1, n) \in Seq(AllPieces) /\ SubSeq(w, n + 1, Len(w)) \in Seq(AllPieces)
    BY <2>2
  <2>4. SubSeq(w, 1, n) \o SubSeq(w, n + 1, Len(w)) = SubSeq(w, 1, Len(w))
    BY <2>2, ConcatAdjacentSubSeq
  <2>5. SubSeq(w, 1, Len(w)) = w
    BY <2>2, SubSeqFull
  <2>. QED BY <1>2, <1>3, <2>1, <2>3, <2>4, <2>5
<1>5. (r \o x) \o u = Stream /\ r \o x \in Seq(AllPieces)
  <2>1. r \o x \in Seq(AllPieces)
    BY <1>4, ConcatProperties
  <2>2. (r \o x) \o u = r \o (x \o u)
    <3>1. r \in Seq(AllPieces) /\ x \in Seq(AllPieces) /\ u \in Seq(AllPieces)
      BY <1>4
    <3>. QED BY <3>1, ConcatAssociative
  <2>3. r \o (x \o u) = Stream
    BY <1>3, <1>4 DEF Stream
  <2>. QED BY <2>1, <2>2, <2>3
<1>6. PICK b : b = r \o x
  OBVIOUS
<1>7. /\ b \in Seq(AllPieces) /\ b \o u = Stream
      /\ OnProcess(b) /\ unsent' = u
  BY <1>1, <1>3, <1>5, <1>6
<1>8. PICK A : answers \in Seq(A)
  BY DEF OrderInv
<1>9. Rising(b \o u) /\ Fresh(b \o u) /\ AnsweredInOrder
  BY <1>2, <1>7 DEF OrderInv
<1>. QED BY <1>4, <1>7, <1>8, <1>9, ProcessKeeps

LEMMA WriteKeeps == OrderInv /\ OnWrite_ => OrderInv'
<1>. SUFFICES ASSUME OrderInv, OnWrite_ PROVE OrderInv'
  OBVIOUS
<1>1. conn = "writing" /\ unsent' = unsent
  BY DEF OnWrite_
<1>2. CASE Last(answers).keep
  <2>1. PICK b, u : b = readBuff /\ u = unsent
    OBVIOUS
  <2>2. PICK A : answers \in Seq(A)
    BY DEF OrderInv
  <2>3. /\ b \in Seq(AllPieces) /\ u \in Seq(AllPieces) /\ b \o u = Stream
        /\ Fresh(Stream) /\ Rising(Stream) /\ AnsweredInOrder
    BY <1>1, <1>2, <2>1 DEF OrderInv, Stream
  <2>4. OnProcess(b) /\ unsent' = u
    BY <1>1, <1>2, <2>1 DEF OnWrite_
  <2>5. Rising(b \o u) /\ Fresh(b \o u)
    BY <2>3
  <2>. QED BY <2>2, <2>3, <2>4, <2>5, ProcessKeeps
<1>3. CASE ~Last(answers).keep
  <2>1. conn' = "closed" /\ UNCHANGED <<readBuff, answers, unsent>>
    BY <1>1, <1>3 DEF OnWrite_
  <2>2. Rising(Stream)' /\ AnsweredInOrder'
    BY <2>1 DEF OrderInv, Stream, Rising, Versions, AnsweredInOrder
  <2>. QED BY <2>1, <2>2 DEF OrderInv
<1>. QED BY <1>2, <1>3

LEMMA OrderInvariant == Spec => []OrderInv
<1>1. OrderInv /\ UNCHANGED vars => OrderInv'
  <2>. SUFFICES ASSUME OrderInv, UNCHANGED vars PROVE OrderInv'
    OBVIOUS
  <2>1. Stream' = Stream
    BY DEF vars, Stream
  <2>. QED BY <2>1 DEF vars, OrderInv, Rising, Fresh, Versions, AnsweredInOrder
<1>2. OrderInv /\ [Next]_vars => OrderInv'
  BY <1>1, ReadKeeps, WriteKeeps DEF Next
<1>. QED BY <1>2, OrderInit, PTL DEF Spec

\* However the stream is cut into reads, and whether requests are pipelined or
\* not, no request is answered twice and none before an earlier one: parse
\* takes the request line out of the read buffer before it can find that the
\* connection is kept, and a connection that is not kept parses no more.
THEOREM InOrder == Spec => []AnsweredInOrder
BY OrderInvariant, PTL DEF OrderInv

-----------------------------------------------------------------------------
(* A whole request, line by line.                                          *)

\* The line at m has d pieces, and CR and LF behind them.
LineAt(b, m, d) ==
    /\ b \in Seq(AllPieces) /\ m \in 1 .. Len(b) /\ d \in Nat /\ m + d + 1 <= Len(b)
    /\ \A k \in 1 .. d : b[m + k - 1].is # "CR"
    /\ b[m + d].is = "CR" /\ b[m + d + 1].is = "LF"

\* c is b from m on.
IsRest(c, b, m) == c = SubSeq(b, m, Len(b))

LEMMA LineAtIs ==
    ASSUME NEW b, NEW m, NEW d, LineAt(b, m, d), NEW c, IsRest(c, b, m)
    PROVE  /\ LineEnds(c) # {} /\ c \in Seq(AllPieces) /\ Len(c) = Len(b) - m + 1
           /\ FirstLine(c) \in Seq(AllPieces) /\ Len(FirstLine(c)) = d
           /\ \A k \in 1 .. d : FirstLine(c)[k] = b[m + k - 1]
           /\ retrieved(c) = SubSeq(b, m + d + 2, Len(b))
<1>1. /\ b \in Seq(AllPieces) /\ m \in 1 .. Len(b) + 1 /\ m \in 1 .. Len(b)
      /\ Len(b) \in Nat /\ d \in Nat /\ m + d + 1 <= Len(b)
  BY DEF LineAt
<1>2. /\ c \in Seq(AllPieces) /\ Len(c) = Len(b) - m + 1
      /\ \A k \in 1 .. Len(b) - m + 1 : c[k] = b[m + k - 1]
  BY <1>1, SubSeqOf DEF IsRest
<1>3. d + 1 \in LineEnds(c)
  <2>1. d + 1 \in 1 .. Len(c) - 1 /\ d + 2 \in 1 .. Len(b) - m + 1
        /\ d + 1 \in 1 .. Len(b) - m + 1
    BY <1>1, <1>2
  <2>2. m + (d + 1) - 1 = m + d /\ m + (d + 2) - 1 = m + d + 1 /\ d + 1 + 1 = d + 2
    BY <1>1
  <2>3. c[d + 1] = b[m + d] /\ c[d + 2] = b[m + d + 1]
    BY <1>2, <2>1, <2>2
  <2>. QED BY <2>1, <2>2, <2>3 DEF LineAt, LineEnds
<1>4. LineLength(c) = d
  <2>1. LineLength(c) \in 0 .. Len(c) /\ LineLength(c) + 1 \in LineEnds(c)
        /\ LineLength(c) + 1 <= d + 1
    BY <1>2, <1>3, LineIs
  <2>2. PICK l : l = LineLength(c)
    OBVIOUS
  <2>3. l \in Nat /\ l <= d /\ c[l + 1].is = "CR"
    BY <1>1, <1>2, <2>1, <2>2 DEF LineEnds
  <2>4. ASSUME l < d PROVE FALSE
    <3>1. l + 1 \in 1 .. d /\ l + 1 \in 1 .. Len(b) - m + 1
      BY <1>1, <2>3, <2>4
    <3>2. c[l + 1] = b[m + (l + 1) - 1] /\ b[m + (l + 1) - 1].is # "CR"
      BY <1>2, <3>1 DEF LineAt
    <3>. QED BY <2>3, <3>2
  <2>. QED BY <1>1, <2>2, <2>3, <2>4
<1>5. /\ FirstLine(c) \in Seq(AllPieces) /\ Len(FirstLine(c)) = d
      /\ \A k \in 1 .. d : FirstLine(c)[k] = b[m + k - 1]
  <2>1. d <= Len(c) /\ \A k \in 1 .. d : k \in 1 .. Len(b) - m + 1
    BY <1>1, <1>2
  <2>2. /\ SubSeq(c, 1, d) \in Seq(AllPieces) /\ Len(SubSeq(c, 1, d)) = d
        /\ \A k \in 1 .. d : SubSeq(c, 1, d)[k] = c[k]
    BY <1>1, <1>2, <2>1
  <2>. QED BY <1>2, <1>4, <2>1, <2>2 DEF FirstLine
<1>6. retrieved(c) = SubSeq(b, m + d + 2, Len(b))
  <2>1. PICK n : n = d + 3
    OBVIOUS
  <2>2. n \in 1 .. Len(c) + 1 /\ m + n - 1 = m + d + 2
    BY <1>1, <1>2, <2>1
  <2>3. SubSeq(c, n, Len(c)) = SubSeq(b, m + n - 1, Len(b))
    BY <1>1, <2>2, SubSeqTwice DEF IsRest
  <2>. QED BY <1>4, <2>1, <2>2, <2>3 DEF retrieved
<1>. QED BY <1>2, <1>3, <1>5, <1>6

LEMMA FirstLineIs ==
    ASSUME NEW b, NEW m, NEW d, LineAt(b, m, d), NEW c, IsRest(c, b, m),
           NEW line, line = FirstLine(c)
    PROVE  /\ line \in Seq(AllPieces) /\ Len(line) = d
           /\ \A k \in 1 .. d : line[k] = b[m + k - 1]
BY LineAtIs

\* A turn on the buffer c which does not fail, and makes t of the line.
Goes(p, c, q, t) ==
    p.more = TRUE /\ p.rest = c /\ q = Turn(p) /\ t = parseLine(p.out, c) /\ t.ok = TRUE

\* What comes of it, when the line is at m in b and has d pieces.
Went(b, m, d, q, t) ==
    /\ q.out = t /\ q.rest = SubSeq(b, m + d + 2, Len(b))
    /\ m + d + 1 < Len(b) /\ t.state # "FINISH" => q.more = TRUE
    /\ m + d + 1 = Len(b) => q.rest = << >> /\ q.more = FALSE

LEMMA LineTurn ==
    ASSUME NEW b, NEW m, NEW d, LineAt(b, m, d), NEW c, IsRest(c, b, m),
           NEW p, NEW q, NEW t, Goes(p, c, q, t)
    PROVE  Went(b, m, d, q, t)
<1>1. LineEnds(c) # {} /\ retrieved(c) = SubSeq(b, m + d + 2, Len(b))
  BY LineAtIs
<1>2. /\ q.out = t /\ q.rest = SubSeq(b, m + d + 2, Len(b))
      /\ q.more = (q.rest # << >> /\ t.state # "FINISH")
  <2>1. t = parseLine(p.out, p.rest) /\ p.rest = c /\ p.more = TRUE /\ q = Turn(p) /\ t.ok
    BY DEF Goes
  <2>2. /\ q.out = t
        /\ ~(~t.ok \/ LineEnds(p.rest) = {}) =>
              /\ q.rest = retrieved(p.rest)
              /\ q.more = (q.rest # << >> /\ t.state # "FINISH")
    BY <2>1, TurnIs
  <2>. QED BY <1>1, <2>1, <2>2, Zenon
<1>3. PICK n, e : n = m + d + 2 /\ e = SubSeq(b, n, Len(b))
  OBVIOUS
<1>4. b \in Seq(AllPieces) /\ n \in 1 .. Len(b) + 1 /\ Len(b) \in Nat /\ m \in Nat /\ d \in Nat
  BY <1>3 DEF LineAt
<1>5. e \in Seq(AllPieces) /\ Len(e) = Len(b) - n + 1
  BY <1>3, <1>4, SubSeqOf
<1>6. q.rest = e
  BY <1>2, <1>3
<1>7. m + d + 1 < Len(b) => e # << >>
  <2>1. m + d + 1 < Len(b) => Len(e) # 0
    BY <1>3, <1>4, <1>5
  <2>2. Len(<< >>) = 0
    OBVIOUS
  <2>. QED BY <2>1, <2>2
<1>8. m + d + 1 = Len(b) => e = << >>
  BY <1>3, <1>4, <1>5, EmptySeq
<1>. QED BY <1>2, <1>6, <1>7, <1>8 DEF Went

-----------------------------------------------------------------------------
\* What the parser has understood of request i after h of its headers.
Knows(s, state, i, names, h, form) ==
    /\ IsOut(s) /\ s.state = state /\ s.ok = TRUE /\ s.req = i
    /\ s.method = requests[i].method
    /\ s.header = {names[k] : k \in 1 .. h} /\ s.form = form

\* What is stored of its body is what the decoder makes of it.
Decoded(s) == s.post = ParsePost_(s, s.form)

LEMMA KnowsTarget ==
    ASSUME NEW i, NEW names, NEW line \in Seq(AllPieces), Len(line) = 2,
           line[1].is = "target", line[2].is = "version", line[2].req = i
    PROVE  Knows(ParseRequestLine_(NewRequest, line), "HEADERS", i, names, 0, << >>)
<1>. DEFINE v == SelectInSeq(line, LAMBDA p : p.is = "version")
            m == IF Head(line).is = "target" THEN requests[line[v].req].method ELSE "garbled"
            t == ParseRequestLine_(NewRequest, line)
<1>1. Has(line, "target") /\ Has(line, "version")
  <2>1. 1 \in DOMAIN line /\ 2 \in DOMAIN line
    OBVIOUS
  <2>. QED BY <2>1 DEF Has
<1>2. v = 2
  <2>1. v \in Versions(line)
    BY <1>1, FirstVersion
  <2>2. ASSUME NEW k \in Versions(line) PROVE k = 2
    <3>1. k \in 1 .. 2 /\ line[k].is = "version"
      BY DEF Versions
    <3>. QED BY <3>1
  <2>. HIDE DEF v
  <2>. QED BY <2>1, <2>2
<1>3. m = requests[i].method
  <2>1. Head(line) = line[1]
    OBVIOUS
  <2>. HIDE DEF v
  <2>. QED BY <1>2, <2>1
<1>4. t = [NewRequest EXCEPT !.state = "HEADERS", !.req = line[v].req, !.method = m]
  BY <1>1, Zenon DEF ParseRequestLine_
<1>. HIDE DEF v, m, t
<1>5. t = [state |-> "HEADERS", ok |-> TRUE, req |-> i, method |-> requests[i].method,
           header |-> {}, form |-> << >>, post |-> NoFields]
  BY <1>2, <1>3, <1>4 DEF NewRequest
<1>6. {names[k] : k \in 1 .. 0} = {}
  OBVIOUS
<1>7. Knows(t, "HEADERS", i, names, 0, << >>)
  BY <1>5, <1>6 DEF Knows, IsOut
<1>. QED BY <1>7 DEF t

LEMMA KnowsHeader ==
    ASSUME NEW s, NEW i, NEW names, NEW h \in Nat, Knows(s, "HEADERS", i, names, h, << >>),
           NEW line \in Seq(AllPieces), Len(line) = 2,
           line[1].is = names[h + 1], line[2].is = "value", NEW c, Len(c) \in Nat, 2 < Len(c)
    PROVE  Knows(headersEnd(ParseHeader_(s, line), c), "HEADERS", i, names, h + 1, << >>)
<1>. DEFINE t == headersEnd(ParseHeader_(s, line), c)
            g == s.header \cup {line[1].is}
<1>1. Has(line, "value")
  <2>1. 2 \in DOMAIN line
    OBVIOUS
  <2>. QED BY <2>1 DEF Has
<1>2. ParseHeader_(s, line) = [s EXCEPT !.header = g]
  BY <1>1 DEF ParseHeader_
<1>3. t = ParseHeader_(s, line)
  <2>1. ~ atMostCRLF(c)
    BY DEF atMostCRLF
  <2>. QED BY <2>1 DEF headersEnd
<1>4. g = {names[k] : k \in 1 .. h + 1}
  <2>1. s.header = {names[k] : k \in 1 .. h}
    BY DEF Knows
  <2>2. 1 .. h + 1 = (1 .. h) \cup {h + 1}
    OBVIOUS
  <2>. QED BY <2>1, <2>2
<1>. HIDE DEF t, g
<1>5. t = [s EXCEPT !.header = g]
  BY <1>2, <1>3
<1>6. Knows(t, "HEADERS", i, names, h + 1, << >>)
  <2>1. IsOut(t) /\ t.state = s.state /\ t.ok = s.ok /\ t.req = s.req /\ t.method = s.method
        /\ t.header = g /\ t.form = s.form
    BY <1>5 DEF Knows, IsOut
  <2>. QED BY <1>4, <2>1, Zenon DEF Knows
<1>. QED BY <1>6 DEF t

LEMMA KnowsHeaders ==
    ASSUME NEW s, NEW i, NEW names, NEW h, Knows(s, "HEADERS", i, names, h, << >>),
           NEW line \in Seq(AllPieces), Len(line) = 0, NEW c
    PROVE  /\ atMostCRLF(c) =>
                  Knows(headersEnd(ParseHeader_(s, line), c), "FINISH", i, names, h, << >>)
           /\ ~ atMostCRLF(c) =>
                  Knows(headersEnd(ParseHeader_(s, line), c), "BODY", i, names, h, << >>)
<1>. DEFINE u == ParseHeader_(s, line)
<1>1. ~ Has(line, "value")
  BY DEF Has
<1>2. u = [s EXCEPT !.state = "BODY"]
  BY <1>1 DEF ParseHeader_
<1>. HIDE DEF u
<1>3. Knows(u, "BODY", i, names, h, << >>)
  <2>1. IsOut(u) /\ u.state = "BODY" /\ u.ok = s.ok /\ u.req = s.req /\ u.method = s.method
        /\ u.header = s.header /\ u.form = s.form
    BY <1>2 DEF Knows, IsOut
  <2>. QED BY <2>1, Zenon DEF Knows
<1>4. ASSUME NEW t, t = [u EXCEPT !.state = "FINISH"] PROVE Knows(t, "FINISH", i, names, h, << >>)
  <2>1. IsOut(t) /\ t.state = "FINISH" /\ t.ok = u.ok /\ t.req = u.req /\ t.method = u.method
        /\ t.header = u.header /\ t.form = u.form
    BY <1>3, <1>4 DEF Knows, IsOut
  <2>. QED BY <1>3, <2>1, Zenon DEF Knows
<1>. QED BY <1>3, <1>4 DEF headersEnd, u

LEMMA KnowsBody ==
    ASSUME NEW s, NEW i, NEW names, NEW h, Knows(s, "BODY", i, names, h, << >>),
           requests[i].method = "POST", NEW line, NEW t, t = ParseBody_(s, line)
    PROVE  Knows(t, "FINISH", i, names, h, line) /\ Decoded(t)
<1>. DEFINE f == ParsePost_(s, line)
<1>1. t = [s EXCEPT !.state = "FINISH", !.form = line, !.post = f]
  BY DEF ParseBody_, Knows
<1>. HIDE DEF f
<1>2. IsOut(t) /\ t.state = "FINISH" /\ t.ok = s.ok /\ t.req = s.req /\ t.method = s.method
      /\ t.header = s.header /\ t.form = line /\ t.post = f
  BY <1>1 DEF Knows, IsOut
<1>3. Knows(t, "FINISH", i, names, h, line)
  BY <1>2, Zenon DEF Knows
<1>4. ParsePost_(t, t.form) = f
  BY <1>2, Zenon DEF ParsePost_, f
<1>. QED BY <1>2, <1>3, <1>4 DEF Decoded

-----------------------------------------------------------------------------
\* b is the whole request i, with these headers.
IsWhole(b, i, names) ==
    /\ i \in Nat /\ names \in Seq(Names) /\ requests[i].method \in {"GET", "POST"}
    /\ IsRequest(b, i, requests[i].method, names)

\* The loop behind h of its headers, in front of its body, and at its end.
AtHeader(p, b, i, names, h) ==
    /\ p.more = TRUE /\ IsRest(p.rest, b, 4 * h + 5)
    /\ Knows(p.out, "HEADERS", i, names, h, << >>)

AtBody(p, b, i, names) ==
    /\ p.more = TRUE /\ IsRest(p.rest, b, 4 * Len(names) + 7)
    /\ requests[i].method = "POST" /\ Knows(p.out, "BODY", i, names, Len(names), << >>)

AtEnd(p, i, names) ==
    /\ p.more = FALSE
    /\ requests[i].method = "POST" =>
          Knows(p.out, "FINISH", i, names, Len(names), <<Piece(i, "body")>>) /\ Decoded(p.out)
    /\ requests[i].method # "POST" =>
          p.rest = << >> /\ Knows(p.out, "FINISH", i, names, Len(names), << >>)

LEMMA WholeLines ==
    ASSUME NEW b, NEW i, NEW names, IsWhole(b, i, names)
    PROVE  /\ b \in Seq(AllPieces) /\ Len(names) \in Nat
           /\ Len(b) = 4 * Len(names) + (IF requests[i].method = "POST" THEN 7 ELSE 6)
           /\ LineAt(b, 1, 2)
           /\ \A h \in 1 .. Len(names) : LineAt(b, 4 * h + 1, 2)
           /\ LineAt(b, 4 * Len(names) + 5, 0)
<1>. DEFINE H == Len(names)
<1>1. H \in Nat /\ \A h \in 1 .. H : names[h] \in Names
  BY DEF IsWhole
<1>2. /\ Len(b) = 4 * H + (IF requests[i].method = "POST" THEN 7 ELSE 6)
      /\ b[1].is = "target" /\ b[2].is = "version" /\ b[3].is = "CR" /\ b[4].is = "LF"
      /\ b[4 * H + 5].is = "CR" /\ b[4 * H + 6].is = "LF"
  BY DEF IsWhole, IsRequest, Piece
<1>3. b \in Seq(AllPieces)
  <2>1. PiecesOf(i) \subseteq AllPieces
    BY DEF PiecesOf, AllPieces, IsWhole
  <2>. QED BY <2>1, SeqMonotonic DEF IsWhole, IsRequest
<1>4. ASSUME NEW h \in 1 .. H
      PROVE  /\ b[4 * h + 1].is = names[h] /\ b[4 * h + 2].is = "value"
             /\ b[4 * h + 3].is = "CR" /\ b[4 * h + 4].is = "LF"
  <2>1. /\ b[4 * h + 1] = Piece(i, names[h]) /\ b[4 * h + 2] = Piece(i, "value")
        /\ b[4 * h + 3] = Piece(i, "CR") /\ b[4 * h + 4] = Piece(i, "LF")
    BY DEF IsWhole, IsRequest
  <2>. QED BY <2>1 DEF Piece
<1>. HIDE DEF H
<1>5. Len(b) \in {4 * H + 6, 4 * H + 7}
  BY <1>2
<1>6. LineAt(b, 1, 2)
  <2>1. 1 \in 1 .. Len(b) /\ 1 + 2 + 1 <= Len(b)
    BY <1>1, <1>5
  <2>2. ASSUME NEW k \in 1 .. 2 PROVE b[1 + k - 1].is # "CR"
    <3>1. 1 + k - 1 = 1 \/ 1 + k - 1 = 2
      OBVIOUS
    <3>. QED BY <1>2, <3>1
  <2>. QED BY <1>2, <1>3, <2>1, <2>2 DEF LineAt
<1>7. ASSUME NEW h \in 1 .. H PROVE LineAt(b, 4 * h + 1, 2)
  <2>1. 4 * h + 1 \in 1 .. Len(b) /\ 4 * h + 1 + 2 + 1 <= Len(b)
    BY <1>1, <1>5
  <2>2. ASSUME NEW k \in 1 .. 2 PROVE b[4 * h + 1 + k - 1].is # "CR"
    <3>1. \/ k = 1 /\ 4 * h + 1 + k - 1 = 4 * h + 1
          \/ k = 2 /\ 4 * h + 1 + k - 1 = 4 * h + 2
      BY <1>1
    <3>2. names[h] # "CR"
      BY <1>1 DEF Names
    <3>. QED BY <1>4, <3>1, <3>2
  <2>3. 4 * h + 1 + 2 = 4 * h + 3 /\ 4 * h + 1 + 2 + 1 = 4 * h + 4
    BY <1>1
  <2>. QED BY <1>3, <1>4, <2>1, <2>2, <2>3 DEF LineAt
<1>8. LineAt(b, 4 * H + 5, 0)
  <2>1. 4 * H + 5 \in 1 .. Len(b) /\ 4 * H + 5 + 0 + 1 <= Len(b)
    BY <1>1, <1>5
  <2>2. 4 * H + 5 + 0 = 4 * H + 5 /\ 4 * H + 5 + 0 + 1 = 4 * H + 6 /\ 1 .. 0 = {}
    BY <1>1
  <2>. QED BY <1>2, <1>3, <2>1, <2>2 DEF LineAt
<1>. QED BY <1>1, <1>2, <1>3, <1>6, <1>7, <1>8 DEF H

LEMMA TargetTurn ==
    ASSUME NEW b, NEW i, NEW names, IsWhole(b, i, names), NEW p, Begun(p, b), NEW q, q = Turn(p)
    PROVE  AtHeader(q, b, i, names, 0)
<1>. DEFINE t == parseLine(p.out, b)
            line == FirstLine(b)
<1>1. p.out = NewRequest /\ p.rest = b /\ p.more = TRUE
  BY DEF Begun
<1>0. PICK m, d : m = 1 /\ d = 2
  OBVIOUS
<1>a. b \in Seq(AllPieces) /\ LineAt(b, 1, 2) /\ IsRest(b, b, 1)
  BY WholeLines DEF IsRest
<1>2. LineAt(b, m, d) /\ IsRest(b, b, m)
  BY <1>0, <1>a
<1>3. line \in Seq(AllPieces) /\ Len(line) = 2 /\ line[1] = b[1] /\ line[2] = b[2]
  <2>0. line = FirstLine(b)
    OBVIOUS
  <2>. HIDE DEF line
  <2>1. /\ line \in Seq(AllPieces) /\ Len(line) = d
        /\ \A k \in 1 .. d : line[k] = b[m + k - 1]
    BY <1>2, <2>0, FirstLineIs
  <2>. QED BY <1>0, <2>1
<1>4. line[1].is = "target" /\ line[2].is = "version" /\ line[2].req = i
  BY <1>3 DEF IsWhole, IsRequest, Piece
<1>5. t = ParseRequestLine_(NewRequest, line)
  <2>1. NewRequest.state = "REQUEST_LINE"
    BY DEF NewRequest
  <2>. QED BY <1>1, <2>1, Zenon DEF parseLine
<1>. HIDE DEF line, t
<1>6. Knows(t, "HEADERS", i, names, 0, << >>)
  BY <1>3, <1>4, <1>5, KnowsTarget
<1>7. t.ok = TRUE /\ t.state = "HEADERS"
  BY <1>6 DEF Knows
<1>8. /\ q.out = t /\ q.rest = SubSeq(b, m + d + 2, Len(b))
      /\ m + d + 1 < Len(b) /\ t.state # "FINISH" => q.more = TRUE
  <2>1. Goes(p, b, q, t)
    BY <1>1, <1>7 DEF t, Goes
  <2>2. PICK c : c = b
    OBVIOUS
  <2>3. LineAt(b, m, d) /\ IsRest(c, b, m) /\ Goes(p, c, q, t)
    BY <1>2, <2>1, <2>2
  <2>4. Went(b, m, d, q, t)
    BY <2>3, LineTurn
  <2>. QED BY <2>4 DEF Went
<1>9. m + d + 1 < Len(b) /\ m + d + 2 = 4 * 0 + 5
  BY <1>0, WholeLines
<1>. QED BY <1>6, <1>7, <1>8, <1>9 DEF AtHeader, IsRest

LEMMA HeaderTurn ==
    ASSUME NEW b, NEW i, NEW names, IsWhole(b, i, names),
           NEW h \in 0 .. Len(names) - 1, NEW p, AtHeader(p, b, i, names, h), NEW q, q = Turn(p)
    PROVE  AtHeader(q, b, i, names, h + 1)
<1>. DEFINE c    == p.rest
            t    == parseLine(p.out, c)
            line == FirstLine(c)
<1>1. PICK H : H = Len(names)
  OBVIOUS
<1>2. /\ H \in Nat /\ h \in 0 .. H - 1 /\ Len(b) \in {4 * H + 6, 4 * H + 7}
      /\ b \in Seq(AllPieces)
  BY <1>1, WholeLines
<1>3. PICK g \in 1 .. H : g = h + 1
  BY <1>2
<1>4. PICK m, d : m = 4 * g + 1 /\ d = 2
  OBVIOUS
<1>5. m = 4 * h + 5 /\ m + 1 = 4 * g + 2 /\ m + d + 2 = 4 * (h + 1) + 5 /\ m + d + 1 < Len(b)
      /\ m \in Nat
  BY <1>2, <1>3, <1>4
<1>6. LineAt(b, m, d) /\ IsRest(c, b, m) /\ p.more = TRUE
  <2>1. LineAt(b, 4 * g + 1, 2)
    BY <1>1, WholeLines
  <2>2. IsRest(c, b, 4 * h + 5) /\ p.more = TRUE
    BY DEF AtHeader
  <2>. QED BY <1>4, <1>5, <2>1, <2>2
<1>7. /\ line \in Seq(AllPieces) /\ Len(line) = 2 /\ line[1] = b[m] /\ line[2] = b[m + 1]
      /\ Len(c) \in Nat /\ 2 < Len(c)
  <2>0. line = FirstLine(c)
    OBVIOUS
  <2>. HIDE DEF line, c
  <2>1. /\ line \in Seq(AllPieces) /\ Len(line) = d
        /\ \A k \in 1 .. d : line[k] = b[m + k - 1]
    BY <1>6, <2>0, FirstLineIs
  <2>a. Len(c) = Len(b) - m + 1
    BY <1>6, LineAtIs
  <2>2. m + 1 - 1 = m /\ m + 2 - 1 = m + 1
    BY <1>5
  <2>3. Len(c) \in Nat /\ 2 < Len(c)
    <3>1. m + 3 < Len(b) /\ m \in Nat /\ Len(b) \in Nat
      BY <1>2, <1>4, <1>5
    <3>. QED BY <2>a, <3>1
  <2>. QED BY <1>4, <2>1, <2>2, <2>3
<1>8. line[1].is = names[h + 1] /\ line[2].is = "value"
  <2>1. b[4 * g + 1] = Piece(i, names[g]) /\ b[4 * g + 2] = Piece(i, "value")
    BY <1>1 DEF IsWhole, IsRequest
  <2>. QED BY <1>3, <1>4, <1>5, <1>7, <2>1 DEF Piece
<1>9. t = headersEnd(ParseHeader_(p.out, line), c)
  BY Zenon DEF parseLine, AtHeader, Knows
<1>10. Knows(p.out, "HEADERS", i, names, h, << >>)
  BY DEF AtHeader
<1>. HIDE DEF line, t, c
<1>11. Knows(t, "HEADERS", i, names, h + 1, << >>)
  BY <1>2, <1>7, <1>8, <1>9, <1>10, KnowsHeader
<1>12. t.ok = TRUE /\ t.state = "HEADERS"
  BY <1>11 DEF Knows
<1>13. q.out = t /\ q.rest = SubSeq(b, m + d + 2, Len(b)) /\ q.more = TRUE
  <2>1. Goes(p, c, q, t)
    BY <1>6, <1>12 DEF c, t, Goes
  <2>2. Went(b, m, d, q, t)
    BY <1>6, <2>1, LineTurn
  <2>. QED BY <1>5, <1>12, <2>2 DEF Went
<1>14. q.rest = SubSeq(b, 4 * (h + 1) + 5, Len(b))
  BY <1>5, <1>13
<1>. QED BY <1>11, <1>13, <1>14 DEF AtHeader, IsRest

LEMMA BlankTurn ==
    ASSUME NEW b, NEW i, NEW names, IsWhole(b, i, names),
           NEW p, AtHeader(p, b, i, names, Len(names)), NEW q, q = Turn(p)
    PROVE  /\ requests[i].method = "POST" => AtBody(q, b, i, names)
           /\ requests[i].method # "POST" => AtEnd(q, i, names)
<1>. DEFINE c    == p.rest
            t    == parseLine(p.out, c)
            line == FirstLine(c)
<1>1. PICK H : H = Len(names)
  OBVIOUS
<1>2. /\ H \in Nat /\ b \in Seq(AllPieces)
      /\ Len(b) = 4 * H + (IF requests[i].method = "POST" THEN 7 ELSE 6)
  BY <1>1, WholeLines
<1>3. PICK m, d : m = 4 * H + 5 /\ d = 0
  OBVIOUS
<1>4. LineAt(b, m, d) /\ IsRest(c, b, m) /\ p.more = TRUE
      /\ Knows(p.out, "HEADERS", i, names, H, << >>)
  <2>1. LineAt(b, 4 * H + 5, 0)
    BY <1>1, WholeLines
  <2>2. IsRest(c, b, 4 * H + 5) /\ p.more = TRUE /\ Knows(p.out, "HEADERS", i, names, H, << >>)
    BY <1>1 DEF AtHeader
  <2>. QED BY <1>3, <2>1, <2>2
<1>5. t = headersEnd(ParseHeader_(p.out, line), c)
  BY <1>4, Zenon DEF parseLine, Knows
<1>6. line \in Seq(AllPieces) /\ Len(line) = 0
  <2>0. line = FirstLine(c)
    OBVIOUS
  <2>. HIDE DEF line, c
  <2>1. line \in Seq(AllPieces) /\ Len(line) = d
    BY <1>4, <2>0, FirstLineIs
  <2>. QED BY <1>3, <2>1
<1>. HIDE DEF line, t, c
<1>7. /\ c \in Seq(AllPieces) /\ Len(c) = Len(b) - m + 1
      /\ \A k \in 1 .. Len(b) - m + 1 : c[k] = b[m + k - 1]
  <2>1. m \in 1 .. Len(b) + 1
    BY <1>2, <1>3
  <2>. QED BY <1>2, <1>4, <2>1, SubSeqOf DEF IsRest
<1>8. atMostCRLF(c) <=> requests[i].method # "POST"
  <2>1. CASE requests[i].method = "POST"
    <3>1. Len(c) = 3
      BY <1>2, <1>3, <1>7, <2>1
    <3>. QED BY <2>1, <3>1 DEF atMostCRLF
  <2>2. CASE requests[i].method # "POST"
    <3>1. Len(c) = 2 /\ Len(b) - m + 1 = 2
      BY <1>2, <1>3, <1>7, <2>2
    <3>2. c[1] = b[m] /\ c[2] = b[m + 1]
      <4>1. m + 1 - 1 = m /\ m + 2 - 1 = m + 1
        BY <1>2, <1>3
      <4>. QED BY <1>7, <3>1, <4>1
    <3>3. b[m].is = "CR" /\ b[m + 1].is = "LF"
      <4>1. m + d = m /\ m + d + 1 = m + 1
        BY <1>2, <1>3
      <4>. QED BY <1>4, <4>1 DEF LineAt
    <3>4. ASSUME NEW k \in DOMAIN c PROVE c[k].is \in {"CR", "LF"}
      <4>1. k = 1 \/ k = 2
        BY <1>7, <3>1
      <4>. QED BY <3>2, <3>3, <4>1
    <3>. QED BY <2>2, <3>1, <3>4 DEF atMostCRLF
  <2>. QED BY <2>1, <2>2
<1>9. /\ requests[i].method = "POST" => Knows(t, "BODY", i, names, H, << >>)
      /\ requests[i].method # "POST" => Knows(t, "FINISH", i, names, H, << >>)
  <2>1. /\ atMostCRLF(c) =>
               Knows(headersEnd(ParseHeader_(p.out, line), c), "FINISH", i, names, H, << >>)
        /\ ~ atMostCRLF(c) =>
               Knows(headersEnd(ParseHeader_(p.out, line), c), "BODY", i, names, H, << >>)
    BY <1>4, <1>6, KnowsHeaders
  <2>. QED BY <1>5, <1>8, <2>1
<1>10. /\ q.out = t /\ q.rest = SubSeq(b, m + d + 2, Len(b))
       /\ m + d + 1 < Len(b) /\ t.state # "FINISH" => q.more = TRUE
       /\ m + d + 1 = Len(b) => q.rest = << >> /\ q.more = FALSE
  <2>1. t.ok = TRUE
    BY <1>9 DEF Knows
  <2>2. Goes(p, c, q, t)
    BY <1>4, <2>1 DEF c, t, Goes
  <2>3. Went(b, m, d, q, t)
    BY <1>4, <2>2, LineTurn
  <2>. QED BY <2>3 DEF Went
<1>11. CASE requests[i].method = "POST"
  <2>1. m + d + 1 < Len(b) /\ m + d + 2 = 4 * H + 7
    BY <1>2, <1>3, <1>11
  <2>2. t.state # "FINISH"
    BY <1>9, <1>11 DEF Knows
  <2>. QED BY <1>1, <1>9, <1>10, <1>11, <2>1, <2>2 DEF AtBody, IsRest
<1>12. CASE requests[i].method # "POST"
  <2>1. m + d + 1 = Len(b)
    BY <1>2, <1>3, <1>12
  <2>. QED BY <1>1, <1>9, <1>10, <1>12, <2>1 DEF AtEnd
<1>. QED BY <1>11, <1>12

LEMMA BodyTurn ==
    ASSUME NEW b, NEW i, NEW names, IsWhole(b, i, names),
           NEW p, AtBody(p, b, i, names), NEW q, q = Turn(p)
    PROVE  AtEnd(q, i, names)
<1>. DEFINE c    == p.rest
            t    == parseLine(p.out, c)
            line == FirstLine(c)
            body == Piece(i, "body")
<1>1. PICK H : H = Len(names)
  OBVIOUS
<1>2. /\ p.more = TRUE /\ IsRest(c, b, 4 * H + 7) /\ requests[i].method = "POST"
      /\ Knows(p.out, "BODY", i, names, H, << >>)
  BY <1>1 DEF AtBody
<1>3. H \in Nat /\ b \in Seq(AllPieces) /\ Len(b) = 4 * H + 7 /\ b[4 * H + 7] = body
  BY <1>1, <1>2, WholeLines DEF IsWhole, IsRequest
<1>4. c = <<body>> /\ c \in Seq(AllPieces)
  <2>1. PICK m : m = 4 * H + 7
    OBVIOUS
  <2>2. m \in 1 .. Len(b) + 1 /\ Len(b) - m + 1 = 1 /\ m + 1 - 1 = m
    BY <1>3, <2>1
  <2>3. /\ c \in Seq(AllPieces) /\ Len(c) = Len(b) - m + 1
        /\ \A k \in 1 .. Len(b) - m + 1 : c[k] = b[m + k - 1]
    BY <1>2, <1>3, <2>1, <2>2, SubSeqOf DEF IsRest
  <2>4. c \in Seq(AllPieces) /\ Len(c) = 1 /\ c[1] = body
    BY <1>3, <2>1, <2>2, <2>3
  <2>. HIDE DEF c, body
  <2>. QED BY <2>4
<1>5. LineEnds(c) = {}
  <2>. HIDE DEF c
  <2>1. Len(c) = 1
    BY <1>4
  <2>. QED BY <2>1 DEF LineEnds
<1>6. line = <<body>>
  <2>. HIDE DEF c, body
  <2>1. line = SubSeq(c, 1, Len(c)) /\ Len(c) = 1
    BY <1>4, <1>5 DEF FirstLine, LineLength
  <2>. HIDE DEF line
  <2>2. SubSeq(c, 1, Len(c)) = c
    BY <1>4, SubSeqFull
  <2>. QED BY <1>4, <2>1, <2>2
<1>7. t = ParseBody_(p.out, line)
  BY <1>2, Zenon DEF parseLine, Knows
<1>. HIDE DEF line, t
<1>8. Knows(t, "FINISH", i, names, H, line) /\ Decoded(t)
  BY <1>2, <1>7, KnowsBody
<1>9. q.out = t /\ q.more = FALSE
  <2>1. p.more = TRUE /\ q = Turn(p) /\ t = parseLine(p.out, p.rest) /\ LineEnds(p.rest) = {}
    BY <1>2, <1>5 DEF t
  <2>2. q.out = t /\ (~t.ok \/ LineEnds(p.rest) = {} => q.rest = p.rest /\ q.more = FALSE)
    BY <2>1, TurnIs
  <2>. QED BY <2>1, <2>2
<1>. QED BY <1>1, <1>2, <1>6, <1>8, <1>9 DEF AtEnd

\* Parsed whole, a request is understood as it was sent.
LEMMA WholeParsed ==
    ASSUME NEW b, NEW i, NEW names, IsWhole(b, i, names)
    PROVE  AtEnd(parse(b), i, names)
<1>. DEFINE N == Len(b)
            H == Len(names)
            Stage(p, n) ==
                \/ n = 0 /\ Begun(p, b)
                \/ \E h \in 0 .. H : n = h + 1 /\ AtHeader(p, b, i, names, h)
                \/ n = H + 2 /\ AtBody(p, b, i, names)
                \/ n >= H + 2 /\ AtEnd(p, i, names)
<1>1. b \in Seq(AllPieces) /\ H \in Nat /\ N \in Nat /\ H + 3 <= N
  BY WholeLines
<1>2. PICK after, x :
         /\ x.out = NewRequest /\ x.rest = b /\ x.more = (b # << >>)
         /\ after[0] = {x} /\ Parsed(b) = The(after[N])
         /\ \A n \in 0 .. N - 1 : after[n + 1] = {Turn(p) : p \in after[n]}
  BY <1>1, ParsedTurns
<1>3. Begun(x, b)
  <2>1. b # << >>
    BY <1>1
  <2>2. x.more = TRUE
    BY <1>2, <2>1, Zenon
  <2>. QED BY <1>2, <2>2 DEF Begun
<1>4. ASSUME NEW n \in Nat, NEW p, Stage(p, n), NEW q, q = Turn(p) PROVE Stage(q, n + 1)
  <2>1. CASE n = 0 /\ Begun(p, b)
    <3>1. AtHeader(q, b, i, names, 0)
      BY <1>4, <2>1, TargetTurn
    <3>. QED BY <1>1, <2>1, <3>1
  <2>2. ASSUME NEW h \in 0 .. H, n = h + 1, AtHeader(p, b, i, names, h)
        PROVE  Stage(q, n + 1)
    <3>1. CASE h = H
      <4>1. AtHeader(p, b, i, names, Len(names))
        BY <2>2, <3>1
      <4>2. AtBody(q, b, i, names) \/ AtEnd(q, i, names)
        BY <1>4, <4>1, BlankTurn
      <4>3. n + 1 = H + 2 /\ n + 1 >= H + 2
        BY <1>1, <2>2, <3>1
      <4>. QED BY <4>2, <4>3
    <3>2. CASE h # H
      <4>1. h \in 0 .. Len(names) - 1 /\ h + 1 \in 0 .. H /\ n + 1 = h + 1 + 1
        BY <1>1, <2>2, <3>2
      <4>2. AtHeader(q, b, i, names, h + 1)
        BY <1>4, <2>2, <4>1, HeaderTurn
      <4>. QED BY <4>1, <4>2
    <3>. QED BY <3>1, <3>2
  <2>3. CASE n = H + 2 /\ AtBody(p, b, i, names)
    <3>1. AtEnd(q, i, names)
      BY <1>4, <2>3, BodyTurn
    <3>. QED BY <1>1, <2>3, <3>1
  <2>4. CASE n >= H + 2 /\ AtEnd(p, i, names)
    <3>1. q = p
      BY <1>4, <2>4 DEF AtEnd, Turn
    <3>. QED BY <1>1, <2>4, <3>1
  <2>. QED BY <1>4, <2>1, <2>2, <2>3, <2>4
<1>. HIDE DEF Stage
<1>5. \A n \in 0 .. N : \E p : after[n] = {p} /\ Stage(p, n)
  <2>. DEFINE T == {n \in 0 .. N : \E p : after[n] = {p} /\ Stage(p, n)}
  <2>1. 0 \in T
    BY <1>1, <1>2, <1>3 DEF Stage
  <2>2. ASSUME NEW n \in 0 .. N - 1, n \in T PROVE n + 1 \in T
    <3>1. PICK p : after[n] = {p} /\ Stage(p, n)
      BY <2>2
    <3>2. PICK q : q = Turn(p)
      OBVIOUS
    <3>3. after[n + 1] = {q} /\ n \in Nat /\ n + 1 \in 0 .. N
      BY <1>1, <1>2, <3>1, <3>2
    <3>4. Stage(q, n + 1)
      BY <1>4, <3>1, <3>2, <3>3
    <3>. QED BY <3>3, <3>4
  <2>3. \A n \in 0 .. N : n \in T
    <3>. HIDE DEF T, N
    <3>. QED BY <1>1, <2>1, <2>2, Induct
  <2>. QED BY <2>3
<1>6. PICK p : after[N] = {p} /\ Stage(p, N)
  BY <1>1, <1>5
<1>7. AtEnd(p, i, names)
  <2>1. N # 0 /\ N # H + 2 /\ \A h \in 0 .. H : N # h + 1
    BY <1>1
  <2>. HIDE DEF N, H
  <2>. QED BY <1>6, <2>1 DEF Stage
<1>8. parse(b) = p
  BY <1>2, <1>6, TheOne DEF parse
<1>. QED BY <1>7, <1>8

\* What the decoder chosen by its headers makes of the body of request i.
DecodedBody(i) ==
    ParsePost_([req |-> i, header |-> Range(requests[i].headers)], <<Piece(i, "body")>>)

\* What is known of the answer to a whole request.
AnswersTo(a, i) ==
    /\ i \in DOMAIN requests /\ Request_(a) = Understood(i)
    /\ requests[i].method = "POST" => a.post = DecodedBody(i)

\* The decoder looks at the number and the headers only.
LEMMA SameBody ==
    ASSUME NEW s, NEW t, s.req = t.req, s.header = t.header, NEW line
    PROVE  ParsePost_(s, line) = ParsePost_(t, line)
<1>. DEFINE Post(r, h) ==
                IF line # <<Piece(r, "body")>> THEN NoFields
                ELSE CASE "form" \in h -> ParseFromUrlencoded_(Body(content))
                       [] "json" \in h -> ParseFromJson_(Body(content))
                       [] OTHER        -> NoFields
<1>1. ParsePost_(s, line) = Post(s.req, s.header) /\ ParsePost_(t, line) = Post(t.req, t.header)
  BY Zenon DEF ParsePost_
<1>. HIDE DEF Post
<1>. QED BY <1>1

LEMMA WholeProcess ==
    ASSUME NEW b, NEW i, NEW names, IsWhole(b, i, names), requests[i].headers = names,
           i \in DOMAIN requests, NEW r, r = Process(b)
    PROVE  /\ r.success = TRUE /\ AnswersTo(r.answer, i)
           /\ requests[i].method = "GET" => r.rest = << >>
<1>. DEFINE p == parse(b)
            a == [req |-> p.out.req, method |-> p.out.method,
                  form |-> p.out.form, post |-> p.out.post, keep |-> IsKeepAlive(p.out)]
            form == IF requests[i].method = "POST" THEN <<Piece(i, "body")>> ELSE << >>
<1>1. /\ r.success = (b # << >> /\ p.out.ok) /\ r.answer = a
      /\ r.rest = IF p.out.ok THEN p.rest ELSE b
  BY DEF Process, processed, refused
<1>2. /\ a.req = p.out.req /\ a.method = p.out.method /\ a.form = p.out.form
      /\ a.keep = ("Connection" \in p.out.header) /\ a.post = p.out.post
  BY DEF IsKeepAlive
<1>. HIDE DEF a, p
<1>3. AtEnd(p, i, names)
  BY WholeParsed DEF p
<1>4. Knows(p.out, "FINISH", i, names, Len(names), form)
      /\ (requests[i].method # "POST" => p.rest = << >>)
  BY <1>3 DEF AtEnd
<1>. HIDE DEF form
<1>5. b # << >>
  BY WholeLines
<1>6. /\ p.out.ok = TRUE /\ p.out.req = i /\ p.out.method = requests[i].method
      /\ p.out.header = {names[k] : k \in 1 .. Len(names)} /\ p.out.form = form
  BY <1>4 DEF Knows
<1>7. r.success = TRUE
  BY <1>1, <1>5, <1>6, Zenon
<1>8. p.out.header = Range(requests[i].headers)
  <2>1. DOMAIN names = 1 .. Len(names)
    BY DEF IsWhole
  <2>. QED BY <1>6, <2>1 DEF Range
<1>9. Request_(a) = [req |-> i, method |-> requests[i].method, form |-> form,
                     keep |-> "Connection" \in Range(requests[i].headers)]
  BY <1>2, <1>6, <1>8 DEF Request_
<1>10. Request_(a) = Understood(i)
  BY <1>9 DEF Understood, form
<1>11. ASSUME requests[i].method = "POST" PROVE a.post = DecodedBody(i)
  <2>1. Decoded(p.out) /\ p.out.form = <<Piece(i, "body")>>
    BY <1>3, <1>6, <1>11 DEF AtEnd, form
  <2>2. PICK s : s = [req |-> i, header |-> Range(requests[i].headers)]
    OBVIOUS
  <2>3. s.req = p.out.req /\ s.header = p.out.header
    BY <1>6, <1>8, <2>2
  <2>4. ParsePost_(p.out, p.out.form) = ParsePost_(s, p.out.form)
    BY <2>3, SameBody
  <2>. QED BY <1>2, <2>1, <2>2, <2>4 DEF Decoded, DecodedBody
<1>. QED BY <1>1, <1>4, <1>6, <1>7, <1>10, <1>11 DEF AnswersTo

-----------------------------------------------------------------------------
(* Whole requests, one after the other.                                    *)

\* g[n] is what follows the first n requests.
Tails(g, rs) ==
    /\ g[Len(rs)] = << >>
    /\ \A n \in 0 .. Len(rs) : g[n] \in Seq(AllPieces)
    /\ \A n \in 1 .. Len(rs) : g[n - 1] = Request(rs, n) \o g[n]

LEMMA RequestsAre ==
    ASSUME NEW rs \in Requests
    PROVE  /\ Len(rs) \in Nat /\ DOMAIN rs = 1 .. Len(rs)
           /\ \A i \in 1 .. Len(rs) :
                 /\ rs[i].method \in {"GET", "POST"} /\ rs[i].headers \in Seq(Names)
                 /\ IsRequest(Request(rs, i), i, rs[i].method, rs[i].headers)
                 /\ Request(rs, i) \in Seq(AllPieces)
<1>1. Len(rs) \in Nat /\ DOMAIN rs = 1 .. Len(rs)
  BY DEF Requests
<1>2. ASSUME NEW i \in 1 .. Len(rs)
      PROVE  /\ rs[i].method \in {"GET", "POST"} /\ rs[i].headers \in Seq(Names)
             /\ IsRequest(Request(rs, i), i, rs[i].method, rs[i].headers)
             /\ Request(rs, i) \in Seq(AllPieces)
  <2>1. \A R : \A s \in Seq(R) : \A k \in DOMAIN s : s[k] \in R
    OBVIOUS
  <2>2. rs[i] \in [method : {"GET", "POST"}, headers : Seq(Names)]
    BY <1>1, <2>1 DEF Requests
  <2>3. IsRequest(Request(rs, i), i, rs[i].method, rs[i].headers)
    BY <1>1, RequestIs
  <2>4. PiecesOf(i) \subseteq AllPieces
    BY DEF PiecesOf, AllPieces
  <2>5. Request(rs, i) \in Seq(AllPieces)
    BY <2>3, <2>4, SeqMonotonic DEF IsRequest
  <2>. QED BY <2>2, <2>3, <2>5
<1>. QED BY <1>1, <1>2

LEMMA TailsExist ==
    ASSUME NEW rs \in Requests
    PROVE  \E g : Tails(g, rs) /\ g[0] = FlattenSeq([i \in DOMAIN rs |-> Request(rs, i)])
<1>. DEFINE ss == [i \in DOMAIN rs |-> Request(rs, i)]
<1>1. PICK N : N = Len(rs)
  OBVIOUS
<1>2. N \in Nat /\ DOMAIN rs = 1 .. N
  BY <1>1, RequestsAre
<1>3. \A i \in 1 .. N : ss[i] = Request(rs, i) /\ ss[i] \in Seq(AllPieces)
  BY <1>1, <1>2, RequestsAre
<1>4. ss \in Seq(Seq(AllPieces)) /\ Len(ss) = N
  <2>1. ss \in [1 .. N -> Seq(AllPieces)]
    BY <1>2, <1>3
  <2>. QED BY <1>2, <2>1, FunctionIsSeq
<1>. HIDE DEF ss
<1>5. PICK g : Follows(g, ss, AllPieces) /\ g[0] = FlattenSeq(ss)
  BY <1>4, FollowsExist
<1>6. Tails(g, rs)
  BY <1>1, <1>3, <1>4, <1>5 DEF Follows, Tails
<1>. QED BY <1>5, <1>6 DEF ss

\* What follows the first K requests begins with the target of the next.
LEMMA TailBegins ==
    ASSUME NEW rs \in Requests, NEW g, Tails(g, rs), NEW K \in 0 .. Len(rs), g[K] # << >>
    PROVE  /\ K + 1 \in 1 .. Len(rs) /\ g[K] = Request(rs, K + 1) \o g[K + 1]
           /\ g[K][1] = Piece(K + 1, "target")
<1>1. K # Len(rs)
  BY DEF Tails
<1>2. PICK i : i = K + 1
  OBVIOUS
<1>3. i \in 1 .. Len(rs) /\ i \in 0 .. Len(rs) /\ i - 1 = K
  BY <1>1, <1>2, RequestsAre
<1>4. g[i - 1] = Request(rs, i) \o g[i] /\ g[i] \in Seq(AllPieces)
  BY <1>3 DEF Tails
<1>5. PICK R, x, w : R = Request(rs, i) /\ x = g[i] /\ w = g[K]
  OBVIOUS
<1>6. R \in Seq(AllPieces) /\ R[1] = Piece(i, "target") /\ Len(R) \in Nat /\ 6 <= Len(R)
  <2>1. IsRequest(R, i, rs[i].method, rs[i].headers) /\ rs[i].headers \in Seq(Names)
        /\ R \in Seq(AllPieces)
    BY <1>3, <1>5, RequestsAre
  <2>2. Len(R) \in Nat /\ 6 <= Len(R)
    BY <2>1, FrontOfRequest
  <2>. QED BY <2>1, <2>2 DEF IsRequest
<1>7. w[1] = R[1]
  <2>1. IsCat(AllPieces, w, R, Len(R), x, Len(x))
    BY <1>3, <1>4, <1>5, <1>6 DEF IsCat
  <2>2. \A k \in 1 .. Len(R) : w[k] = R[k]
    BY <2>1, Cat
  <2>. QED BY <1>6, <2>2
<1>. QED BY <1>2, <1>3, <1>4, <1>5, <1>6, <1>7

\* The next n pieces of u are what is left of one request, or its target.
Gentle(u, n) ==
    /\ \A k \in 1 .. n : u[k].req = u[1].req
    /\ \/ u[n].is = "target"
       \/ n = Len(u)
       \/ n < Len(u) /\ u[n + 1].req # u[1].req

\* The server has nothing of request i or its target, in r, and the rest of w
\* is still to come, as u.
InHand(w, r, u, i) ==
    /\ r \in Seq(AllPieces) /\ u \in Seq(AllPieces) /\ w = r \o u
    /\ r = << >> \/ r = <<Piece(i, "target")>>

\* A read of n pieces makes b of r and leaves v of u.
Brings(r, u, n, b, v) ==
    n \in 1 .. Len(u) /\ b = r \o SubSeq(u, 1, n) /\ v = SubSeq(u, n + 1, Len(u))

LEMMA BringsIs ==
    ASSUME NEW w, NEW r, NEW u, NEW i, InHand(w, r, u, i), NEW n, NEW b, NEW v,
           Brings(r, u, n, b, v)
    PROVE  /\ b \in Seq(AllPieces) /\ v \in Seq(AllPieces) /\ b \o v = w
           /\ Len(r) \in {0, 1} /\ n \in 1 .. Len(u) /\ Len(b) = Len(r) + n
           /\ Len(w) = Len(r) + Len(u) /\ Len(w) = Len(b) + Len(v)
           /\ \A k \in 1 .. Len(u) : u[k] = w[Len(r) + k]
           /\ \A k \in 1 .. Len(b) : b[k] = w[k]
           /\ \A k \in 1 .. Len(v) : v[k] = w[Len(b) + k]
<1>1. r \in Seq(AllPieces) /\ u \in Seq(AllPieces) /\ w = r \o u /\ n \in 1 .. Len(u)
  BY DEF InHand, Brings
<1>2. Len(r) \in {0, 1}
  BY DEF InHand
<1>3. PICK x : x = SubSeq(u, 1, n)
  OBVIOUS
<1>4. x \in Seq(AllPieces) /\ Len(x) = n /\ v \in Seq(AllPieces) /\ b = r \o x /\ x \o v = u
  <2>1. SubSeq(u, 1, n) \in Seq(AllPieces) /\ Len(SubSeq(u, 1, n)) = n
        /\ SubSeq(u, n + 1, Len(u)) \in Seq(AllPieces)
    BY <1>1
  <2>2. SubSeq(u, 1, n) \o SubSeq(u, n + 1, Len(u)) = SubSeq(u, 1, Len(u))
    BY <1>1, ConcatAdjacentSubSeq
  <2>3. SubSeq(u, 1, Len(u)) = u
    BY <1>1, SubSeqFull
  <2>. QED BY <1>3, <2>1, <2>2, <2>3 DEF Brings
<1>5. b \in Seq(AllPieces) /\ b \o v = w
  <2>0. r \in Seq(AllPieces) /\ x \in Seq(AllPieces) /\ v \in Seq(AllPieces)
    BY <1>1, <1>4
  <2>1. (r \o x) \o v = r \o (x \o v)
    BY <2>0, ConcatAssociative
  <2>. QED BY <1>1, <1>4, <2>1, ConcatProperties
<1>6. /\ Len(w) = Len(r) + Len(u)
      /\ \A k \in 1 .. Len(u) : w[Len(r) + k] = u[k]
  <2>1. IsCat(AllPieces, w, r, Len(r), u, Len(u))
    BY <1>1 DEF IsCat
  <2>. QED BY <2>1, Cat
<1>7. Len(b) = Len(r) + n
  <2>1. IsCat(AllPieces, b, r, Len(r), x, n)
    BY <1>1, <1>4 DEF IsCat
  <2>. QED BY <2>1, Cat
<1>8. /\ Len(w) = Len(b) + Len(v)
      /\ \A k \in 1 .. Len(b) : w[k] = b[k]
      /\ \A k \in 1 .. Len(v) : w[Len(b) + k] = v[k]
  <2>1. IsCat(AllPieces, w, b, Len(b), v, Len(v))
    BY <1>4, <1>5 DEF IsCat
  <2>. QED BY <2>1, Cat
<1>. QED BY <1>1, <1>2, <1>4, <1>5, <1>6, <1>7, <1>8

\* A gentle read leaves a target in the buffer, or makes a request whole.
LEMMA ReadsWhole ==
    ASSUME NEW rs \in Requests, NEW g, Tails(g, rs), NEW K \in 0 .. Len(rs), NEW i, i = K + 1,
           NEW r, NEW u, InHand(g[K], r, u, i), NEW n, Gentle(u, n),
           NEW b, NEW v, Brings(r, u, n, b, v)
    PROVE  \/ InHand(g[K], b, v, i) /\ Len(b) = 1
           \/ i \in 1 .. Len(rs) /\ b = Request(rs, i) /\ v = g[i]
<1>1. PICK w : w = g[K]
  OBVIOUS
<1>2. InHand(w, r, u, i)
  BY <1>1
<1>3. /\ b \in Seq(AllPieces) /\ v \in Seq(AllPieces) /\ b \o v = w
      /\ Len(r) \in {0, 1} /\ n \in 1 .. Len(u) /\ Len(b) = Len(r) + n
      /\ Len(w) = Len(r) + Len(u) /\ Len(w) = Len(b) + Len(v)
      /\ \A k \in 1 .. Len(u) : u[k] = w[Len(r) + k]
      /\ \A k \in 1 .. Len(b) : b[k] = w[k]
      /\ \A k \in 1 .. Len(v) : v[k] = w[Len(b) + k]
  BY <1>2, BringsIs
<1>4. PICK a, e, lv, lu : a = Len(r) /\ e = Len(b) /\ lv = Len(v) /\ lu = Len(u)
  OBVIOUS
<1>5. /\ a \in {0, 1} /\ n \in 1 .. lu /\ e = a + n /\ lu \in Nat /\ lv \in Nat /\ e \in Nat
      /\ a + lu = e + lv
  <2>1. lu \in Nat /\ lv \in Nat
    BY <1>2, <1>3, <1>4 DEF InHand
  <2>2. a \in {0, 1} /\ n \in 1 .. lu /\ e = a + n /\ Len(w) = a + lu /\ Len(w) = e + lv
    BY <1>3, <1>4
  <2>. QED BY <2>1, <2>2
<1>6. i \in 1 .. Len(rs) /\ w = Request(rs, i) \o g[i] /\ g[i] \in Seq(AllPieces)
  <2>1. g[K] # << >>
    <3>1. Len(w) # 0
      BY <1>3, <1>4, <1>5
    <3>. QED BY <1>1, <3>1
  <2>2. K + 1 \in 1 .. Len(rs) /\ g[K] = Request(rs, K + 1) \o g[K + 1]
    BY <2>1, TailBegins
  <2>3. i \in 0 .. Len(rs)
    BY <2>2
  <2>. QED BY <1>1, <2>2, <2>3 DEF Tails
<1>7. PICK R, x : R = Request(rs, i) /\ x = g[i]
  OBVIOUS
<1>8. PICK l, lx : l = Len(R) /\ lx = Len(x)
  OBVIOUS
<1>9. /\ R \in Seq(AllPieces) /\ x \in Seq(AllPieces) /\ l \in Nat /\ 6 <= l /\ lx \in Nat
      /\ R[1] = Piece(i, "target")
      /\ \A k \in 1 .. l : R[k].req = i
      /\ \A k \in 2 .. l : R[k].is # "target"
  <2>1. IsRequest(R, i, rs[i].method, rs[i].headers) /\ rs[i].headers \in Seq(Names)
        /\ R \in Seq(AllPieces)
    BY <1>6, <1>7, RequestsAre
  <2>2. /\ l \in Nat /\ 6 <= l /\ R[2].is = "version"
        /\ \A k \in 3 .. l : R[k].is \notin {"target", "version"}
    BY <1>8, <2>1, FrontOfRequest
  <2>3. R \in Seq(PiecesOf(i)) /\ R[1] = Piece(i, "target")
    BY <2>1 DEF IsRequest
  <2>4. \A k \in 1 .. l : R[k].req = i
    <3>1. ASSUME NEW k \in 1 .. Len(R) PROVE R[k] \in PiecesOf(i)
      BY <2>3
    <3>. QED BY <1>8, <3>1 DEF PiecesOf
  <2>5. ASSUME NEW k \in 2 .. l PROVE R[k].is # "target"
    <3>1. k = 2 \/ k \in 3 .. l
      BY <2>2
    <3>. QED BY <2>2, <3>1
  <2>6. x \in Seq(AllPieces) /\ lx \in Nat
    BY <1>6, <1>7, <1>8
  <2>. QED BY <2>1, <2>2, <2>3, <2>4, <2>5, <2>6
<1>10. /\ Len(w) = l + lx
       /\ \A k \in 1 .. l : w[k] = R[k]
       /\ \A k \in 1 .. lx : w[l + k] = x[k]
  <2>1. IsCat(AllPieces, w, R, l, x, lx)
    BY <1>6, <1>7, <1>8, <1>9 DEF IsCat
  <2>. QED BY <2>1, Cat
<1>11. l + lx = e + lv
  BY <1>3, <1>4, <1>10
<1>12. u[1].req = i
  <2>1. a + 1 \in 1 .. l /\ 1 \in 1 .. lu
    BY <1>5, <1>9
  <2>2. u[1] = w[a + 1] /\ w[a + 1] = R[a + 1]
    BY <1>3, <1>4, <1>10, <2>1
  <2>. QED BY <1>9, <2>1, <2>2
<1>13. e <= l
  <2>. SUFFICES ASSUME ~(e <= l) PROVE FALSE
    OBVIOUS
  <2>1. PICK k : k = l + 1 - a
    OBVIOUS
  <2>2. k \in 1 .. n /\ k \in 1 .. lu /\ a + k = l + 1 /\ 1 \in 1 .. lx /\ lx # 0
    BY <1>5, <1>9, <1>11, <2>1
  <2>3. u[k] = x[1]
    <3>1. u[k] = w[a + k]
      BY <1>3, <1>4, <2>2
    <3>2. w[l + 1] = x[1]
      BY <1>10, <2>2
    <3>. QED BY <2>2, <3>1, <3>2
  <2>4. x[1] = Piece(i + 1, "target")
    <3>1. g[i] # << >> /\ i \in 0 .. Len(rs)
      BY <1>6, <1>7, <1>8, <2>2
    <3>. QED BY <1>7, <3>1, TailBegins
  <2>5. u[k].req = i
    BY <1>12, <2>2 DEF Gentle
  <2>6. i + 1 = i
    BY <2>3, <2>4, <2>5 DEF Piece
  <2>. QED BY <1>6, <2>6
<1>14. ASSUME e = l PROVE b = Request(rs, i) /\ v = g[i]
  <2>1. lv = lx
    BY <1>5, <1>9, <1>11, <1>14
  <2>2. ASSUME NEW k \in 1 .. Len(b) PROVE b[k] = R[k]
    BY <1>3, <1>4, <1>10, <1>14
  <2>3. ASSUME NEW k \in 1 .. Len(v) PROVE v[k] = x[k]
    <3>1. v[k] = w[l + k]
      BY <1>3, <1>4, <1>14
    <3>2. k \in 1 .. lx
      BY <1>4, <2>1
    <3>3. w[l + k] = x[k]
      BY <1>10, <3>2
    <3>. QED BY <3>1, <3>3
  <2>4. Len(b) = Len(R) /\ Len(v) = Len(x)
    BY <1>4, <1>8, <1>14, <2>1
  <2>5. b = R
    BY <1>3, <1>9, <2>2, <2>4, SeqEqual
  <2>6. v = x
    BY <1>3, <1>9, <2>3, <2>4, SeqEqual
  <2>. QED BY <1>7, <2>5, <2>6
<1>15. CASE u[n].is = "target"
  <2>1. e \in 1 .. l /\ n \in 1 .. lu
    BY <1>5, <1>13
  <2>2. u[n] = R[e]
    BY <1>3, <1>4, <1>5, <1>10, <2>1
  <2>3. e = 1
    <3>1. e \notin 2 .. l
      BY <1>9, <1>15, <2>2
    <3>. QED BY <1>9, <2>1, <3>1
  <2>4. b = <<Piece(i, "target")>>
    <3>1. Len(b) = 1 /\ b[1] = Piece(i, "target")
      BY <1>3, <1>4, <1>9, <1>10, <2>1, <2>3
    <3>2. PICK z : z = Piece(i, "target")
      OBVIOUS
    <3>3. b \in Seq(AllPieces) /\ Len(b) = 1 /\ b[1] = z
      BY <1>3, <3>1, <3>2
    <3>4. b = <<z>>
      BY <3>3
    <3>. QED BY <3>2, <3>4
  <2>. QED BY <1>1, <1>3, <1>4, <2>3, <2>4 DEF InHand
<1>16. CASE n = Len(u)
  <2>1. e = l
    BY <1>4, <1>5, <1>9, <1>11, <1>13, <1>16
  <2>. QED BY <1>6, <1>14, <2>1
<1>17. CASE n < Len(u) /\ u[n + 1].req # u[1].req
  <2>1. n + 1 \in 1 .. lu /\ a + (n + 1) = e + 1
    BY <1>4, <1>5, <1>17
  <2>2. u[n + 1] = w[e + 1]
    BY <1>3, <1>4, <2>1
  <2>3. e + 1 \notin 1 .. l
    BY <1>9, <1>10, <1>12, <1>17, <2>2
  <2>4. e = l
    BY <1>5, <1>9, <1>13, <2>3
  <2>. QED BY <1>6, <1>14, <2>4
<1>. QED BY <1>15, <1>16, <1>17 DEF Gentle

-----------------------------------------------------------------------------
AllGets == \A k \in DOMAIN answers : requests[k].method = "GET"

\* The server has nothing, or the target, of the request that comes next, and
\* nothing while it writes.
InStepBy(g) ==
    /\ Tails(g, requests) /\ Len(answers) \in 0 .. Len(requests)
    /\ InHand(g[Len(answers)], readBuff, unsent, Len(answers) + 1)
    /\ conn = "writing" => readBuff = << >>

InStep == \E g : InStepBy(g)

\* WholeUnderstood, and what the decoders make of the bodies.
WholeAnswers ==
    ~cut => \A k \in DOMAIN answers :
        (\A j \in 1 .. k - 1 : requests[j].method = "GET") => AnswersTo(answers[k], k)

WholeInv ==
    /\ requests \in Requests
    /\ WholeAnswers
    /\ ~cut /\ AllGets /\ conn # "closed" => InStep

LEMMA Answered ==
    ASSUME NEW A, NEW t \in Seq(A), NEW a, NEW s, s = Append(t, a), NEW K, K = Len(t)
    PROVE  /\ K \in Nat /\ DOMAIN t = 1 .. K /\ DOMAIN s = 1 .. K + 1 /\ Len(s) = K + 1
           /\ \A k \in 1 .. K : s[k] = t[k]
           /\ s[K + 1] = a
<1>1. PICK B : B = A \cup {a}
  OBVIOUS
<1>2. t \in Seq(B) /\ a \in B
  BY <1>1, SeqMonotonic
<1>3. /\ s \in Seq(B) /\ Len(s) = Len(t) + 1 /\ \A k \in 1 .. Len(t) : s[k] = t[k]
      /\ s[Len(t) + 1] = a
  BY <1>2, AppendProperties
<1>. QED BY <1>2, <1>3

\* What is said of an answer does not change.
LEMMA SameAnswers ==
    ASSUME requests' = requests, content' = content
    PROVE  \A k : AnswersTo(answers[k], k)' = AnswersTo(answers'[k], k)
BY DEF AnswersTo, Understood, DecodedBody, ParsePost_

\* Nothing is said of the answers once a read has cut a request, and the same as
\* before while there are no more.
LEMMA WholeAnswersStay ==
    ASSUME requests' = requests, content' = content, WholeAnswers,
           answers' = answers, cut => cut'
    PROVE  WholeAnswers'
<1>1. \A k : AnswersTo(answers[k], k)' = AnswersTo(answers[k], k)
  BY SameAnswers
<1>. QED BY <1>1 DEF WholeAnswers

\* Once a POST was answered nothing more is said.
LEMMA PostAnswered ==
    ASSUME OrderInv, WholeAnswers, ~cut, ~AllGets, requests' = requests, content' = content,
           ~cut',
           \/ answers' = answers
           \/ \E a : answers' = Append(answers, a)
    PROVE  WholeAnswers' /\ ~AllGets'
<1>1. PICK A : answers \in Seq(A)
  BY DEF OrderInv
<1>2. PICK K : K = Len(answers)
  OBVIOUS
<1>3. CASE answers' = answers
  <2>1. WholeAnswers'
    BY <1>3, WholeAnswersStay
  <2>2. ~AllGets'
    BY <1>3 DEF AllGets
  <2>. QED BY <2>1, <2>2
<1>4. ASSUME NEW a, answers' = Append(answers, a) PROVE WholeAnswers' /\ ~AllGets'
  <2>1. /\ K \in Nat /\ DOMAIN answers = 1 .. K /\ DOMAIN answers' = 1 .. K + 1
        /\ \A k \in 1 .. K : answers'[k] = answers[k]
    BY <1>1, <1>2, <1>4, Answered
  <2>2. PICK l \in 1 .. K : requests[l].method # "GET"
    BY <2>1 DEF AllGets
  <2>3. ~AllGets'
    BY <2>1, <2>2 DEF AllGets
  <2>4. ASSUME NEW k \in 1 .. K + 1, \A j \in 1 .. k - 1 : requests[j].method = "GET"
        PROVE  AnswersTo(answers[k], k)'
    <3>1. k \in 1 .. K
      <4>1. l \notin 1 .. k - 1
        BY <2>2, <2>4
      <4>. QED BY <2>1, <4>1
    <3>2. AnswersTo(answers[k], k)
      BY <2>1, <2>4, <3>1 DEF WholeAnswers
    <3>3. AnswersTo(answers[k], k)' = AnswersTo(answers'[k], k)
      BY SameAnswers
    <3>. QED BY <2>1, <3>1, <3>2, <3>3
  <2>5. WholeAnswers'
    BY <2>1, <2>4 DEF WholeAnswers
  <2>. QED BY <2>3, <2>5
<1>. QED BY <1>3, <1>4

\* A buffer without a version waits for more.
LEMMA NothingYet ==
    ASSUME NEW b \in Seq(AllPieces), Versions(b) = {}, OnProcess(b)
    PROVE  answers' = answers /\ readBuff' = b /\ conn' = "reading"
<1>1. PICK r : r = Process(b)
  OBVIOUS
<1>2. r.success = FALSE /\ r.rest = b
  BY <1>1, ProcessIs
<1>. QED BY <1>1, <1>2 DEF OnProcess, OnProcessed

\* A step that waits for more.
LEMMA WaitsForMore ==
    ASSUME WholeInv, NEW g, Tails(g, requests), Len(answers) \in 0 .. Len(requests),
           NEW b, NEW v, InHand(g[Len(answers)], b, v, Len(answers) + 1), OnProcess(b),
           unsent' = v, requests' = requests, content' = content, ~cut, ~cut'
    PROVE  WholeInv'
<1>1. b \in Seq(AllPieces) /\ Versions(b) = {}
  <2>1. b \in Seq(AllPieces) /\ (b = << >> \/ b = <<Piece(Len(answers) + 1, "target")>>)
    BY DEF InHand
  <2>2. CASE b = << >>
    BY <2>1, <2>2 DEF Versions
  <2>3. CASE b = <<Piece(Len(answers) + 1, "target")>>
    <3>1. PICK z : z = Piece(Len(answers) + 1, "target")
      OBVIOUS
    <3>2. Len(b) = 1 /\ b[1] = z
      BY <2>3, <3>1
    <3>3. z.is # "version"
      BY <3>1 DEF Piece
    <3>4. ASSUME NEW k \in Versions(b) PROVE FALSE
      <4>1. k \in 1 .. 1 /\ b[k].is = "version"
        BY <3>2 DEF Versions
      <4>2. k = 1
        BY <4>1
      <4>. QED BY <3>2, <3>3, <4>1, <4>2
    <3>. QED BY <2>1, <3>4
  <2>. QED BY <2>1, <2>2, <2>3
<1>2. answers' = answers /\ readBuff' = b /\ conn' = "reading"
  BY <1>1, NothingYet
<1>3. WholeAnswers'
  BY <1>2, WholeAnswersStay DEF WholeInv
<1>4. InStep'
  BY <1>2 DEF InStep, InStepBy
<1>. QED BY <1>3, <1>4 DEF WholeInv

\* A step on a whole request.
LEMMA AnswersWhole ==
    ASSUME WholeInv, OrderInv, NEW g, Tails(g, requests), NEW i, i = Len(answers) + 1,
           i \in 1 .. Len(requests), NEW b, b = Request(requests, i), OnProcess(b),
           unsent' = g[i], requests' = requests, content' = content, ~cut, AllGets, ~cut'
    PROVE  WholeInv'
<1>1. PICK A : answers \in Seq(A)
  BY DEF OrderInv
<1>2. PICK K, r, a, names :
         K = Len(answers) /\ r = Process(b) /\ a = r.answer /\ names = requests[i].headers
  OBVIOUS
<1>3. requests \in Requests
  BY DEF WholeInv
<1>4. IsWhole(b, i, names)
  <2>1. /\ requests[i].method \in {"GET", "POST"} /\ requests[i].headers \in Seq(Names)
        /\ IsRequest(Request(requests, i), i, requests[i].method, requests[i].headers)
    BY <1>3, RequestsAre
  <2>. QED BY <1>2, <2>1 DEF IsWhole
<1>5. /\ r.success = TRUE /\ AnswersTo(a, i)
      /\ requests[i].method = "GET" => r.rest = << >>
  <2>1. i \in DOMAIN requests
    BY <1>3, RequestsAre
  <2>. QED BY <1>2, <1>4, <2>1, WholeProcess
<1>6. answers' = Append(answers, a) /\ readBuff' = r.rest /\ conn' = "writing"
  BY <1>2, <1>5 DEF OnProcess, OnProcessed
<1>7. /\ K \in Nat /\ DOMAIN answers = 1 .. K /\ DOMAIN answers' = 1 .. K + 1
      /\ Len(answers') = K + 1
      /\ \A k \in 1 .. K : answers'[k] = answers[k]
      /\ answers'[K + 1] = a
  BY <1>1, <1>2, <1>6, Answered
<1>8. WholeAnswers'
  <2>1. ASSUME NEW k \in 1 .. K + 1, \A j \in 1 .. k - 1 : requests[j].method = "GET"
        PROVE  AnswersTo(answers'[k], k)
    <3>1. CASE k = K + 1
      BY <1>2, <1>5, <1>7, <3>1
    <3>2. CASE k # K + 1
      <4>1. k \in 1 .. K
        BY <1>7, <3>2
      <4>. QED BY <1>7, <2>1, <4>1 DEF WholeInv, WholeAnswers
    <3>. QED BY <3>1, <3>2
  <2>2. \A k : AnswersTo(answers[k], k)' = AnswersTo(answers'[k], k)
    BY SameAnswers
  <2>. QED BY <1>7, <2>1, <2>2 DEF WholeAnswers
<1>9. ASSUME AllGets' PROVE InStep'
  <2>1. requests[i].method = "GET"
    BY <1>2, <1>7, <1>9 DEF AllGets
  <2>2. readBuff' = << >>
    BY <1>5, <1>6, <2>1
  <2>3. Len(answers') = i /\ i \in 0 .. Len(requests)
    BY <1>2, <1>7
  <2>4. InHand(g[i], << >>, g[i], i + 1)
    <3>1. g[i] \in Seq(AllPieces)
      BY <2>3 DEF Tails
    <3>. QED BY <3>1, ConcatEmptySeq DEF InHand
  <2>. QED BY <2>2, <2>3, <2>4 DEF InStep, InStepBy
<1>. QED BY <1>3, <1>8, <1>9 DEF WholeInv

LEMMA WholeInit == Init => WholeInv
<1>. SUFFICES ASSUME Init PROVE WholeInv
  OBVIOUS
<1>1. requests \in Requests
  <2>1. PICK s \in Sessions : requests = s.requests
    BY DEF Init
  <2>2. s \in [requests : Requests, content : Contents]
    BY HttpRequestAssumption DEF Requests
  <2>. QED BY <2>1, <2>2
<1>2. readBuff = << >> /\ answers = << >> /\ conn = "reading"
      /\ unsent = FlattenSeq([i \in DOMAIN requests |-> Request(requests, i)])
  BY DEF Init
<1>3. DOMAIN answers = {} /\ Len(answers) = 0
  BY <1>2
<1>4. WholeAnswers
  BY <1>3 DEF WholeAnswers
<1>5. PICK g : Tails(g, requests) /\ g[0] = unsent
  BY <1>1, <1>2, TailsExist
<1>6. Len(requests) \in Nat
  BY <1>1, RequestsAre
<1>7. InHand(g[0], readBuff, unsent, Len(answers) + 1)
  <2>1. 0 \in 0 .. Len(requests)
    BY <1>6
  <2>2. g[0] \in Seq(AllPieces)
    BY <1>5, <2>1 DEF Tails
  <2>3. << >> \o g[0] = g[0]
    BY <2>2, ConcatEmptySeq
  <2>. QED BY <1>2, <1>5, <2>2, <2>3 DEF InHand
<1>8. InStep
  BY <1>2, <1>3, <1>5, <1>6, <1>7 DEF InStep, InStepBy
<1>. QED BY <1>1, <1>4, <1>8 DEF WholeInv

\* What a step makes of the answers.
LEMMA Answering ==
    ASSUME NEW b, OnProcess(b)
    PROVE  (answers' = answers \/ \E a : answers' = Append(answers, a)) /\ conn' # "closed"
BY DEF OnProcess, OnProcessed

LEMMA WholeRead == WholeInv /\ OrderInv /\ OnRead_ => WholeInv'
<1>. SUFFICES ASSUME WholeInv, OrderInv, OnRead_ PROVE WholeInv'
  OBVIOUS
<1>1. PICK n \in 1 .. Len(unsent) :
         /\ OnProcess(readBuff \o SubSeq(unsent, 1, n))
         /\ unsent' = SubSeq(unsent, n + 1, Len(unsent))
         /\ cut' = (cut \/ ~Harmless(n))
  BY DEF OnRead_
<1>2. requests' = requests /\ content' = content /\ requests \in Requests /\ conn = "reading"
  BY DEF OnRead_, WholeInv
<1>3. CASE cut'
  BY <1>2, <1>3 DEF WholeInv, WholeAnswers
<1>4. CASE ~cut'
  <2>1. ~cut /\ Harmless(n)
    BY <1>1, <1>4
  <2>2. PICK b, v : b = readBuff \o SubSeq(unsent, 1, n) /\ v = SubSeq(unsent, n + 1, Len(unsent))
    OBVIOUS
  <2>3. OnProcess(b) /\ unsent' = v
    BY <1>1, <2>2
  <2>4. CASE ~AllGets
    <3>1. WholeAnswers' /\ ~AllGets'
      BY <1>2, <1>4, <2>1, <2>3, <2>4, Answering, PostAnswered DEF WholeInv
    <3>. QED BY <1>2, <3>1 DEF WholeInv
  <2>5. CASE AllGets
    <3>0. PICK g : InStepBy(g)
      <4>1. InStep
        BY <1>2, <2>1, <2>5 DEF WholeInv
      <4>. QED BY <4>1 DEF InStep
    <3>1. /\ Tails(g, requests) /\ Len(answers) \in 0 .. Len(requests)
          /\ InHand(g[Len(answers)], readBuff, unsent, Len(answers) + 1)
      BY <3>0 DEF InStepBy
    <3>2. PICK K, i, r, u : K = Len(answers) /\ i = K + 1 /\ r = readBuff /\ u = unsent
      OBVIOUS
    <3>3. K \in 0 .. Len(requests) /\ InHand(g[K], r, u, i) /\ Gentle(u, n) /\ Brings(r, u, n, b, v)
      BY <2>1, <2>2, <3>1, <3>2 DEF Harmless, Gentle, Brings
    <3>4. \/ InHand(g[K], b, v, i)
          \/ i \in 1 .. Len(requests) /\ b = Request(requests, i) /\ v = g[i]
      BY <1>2, <3>1, <3>2, <3>3, ReadsWhole
    <3>5. CASE InHand(g[K], b, v, i)
      <4>1. InHand(g[Len(answers)], b, v, Len(answers) + 1)
        BY <3>2, <3>5
      <4>. QED BY <1>2, <1>4, <2>1, <2>3, <3>1, <4>1, WaitsForMore
    <3>6. CASE i \in 1 .. Len(requests) /\ b = Request(requests, i) /\ v = g[i]
      BY <1>2, <1>4, <2>1, <2>3, <2>5, <3>1, <3>2, <3>6, AnswersWhole
    <3>. QED BY <3>4, <3>5, <3>6
  <2>. QED BY <2>4, <2>5
<1>. QED BY <1>3, <1>4

LEMMA WholeWrite == WholeInv /\ OrderInv /\ OnWrite_ => WholeInv'
<1>. SUFFICES ASSUME WholeInv, OrderInv, OnWrite_ PROVE WholeInv'
  OBVIOUS
<1>1. /\ requests' = requests /\ content' = content /\ requests \in Requests /\ conn = "writing"
      /\ unsent' = unsent /\ cut' = cut
  BY DEF OnWrite_, WholeInv
<1>2. CASE ~Last(answers).keep
  <2>1. conn' = "closed" /\ answers' = answers
    BY <1>2 DEF OnWrite_
  <2>2. WholeAnswers'
    BY <1>1, <2>1, WholeAnswersStay DEF WholeInv
  <2>. QED BY <1>1, <2>1, <2>2 DEF WholeInv
<1>3. CASE Last(answers).keep
  <2>1. PICK b : b = readBuff
    OBVIOUS
  <2>2. OnProcess(b)
    BY <1>3, <2>1 DEF OnWrite_
  <2>3. CASE cut
    BY <1>1, <2>3 DEF WholeInv, WholeAnswers
  <2>4. CASE ~cut /\ ~AllGets
    <3>1. WholeAnswers' /\ ~AllGets'
      BY <1>1, <2>2, <2>4, Answering, PostAnswered DEF WholeInv
    <3>. QED BY <1>1, <3>1 DEF WholeInv
  <2>5. CASE ~cut /\ AllGets
    <3>1. PICK g : InStepBy(g)
      <4>1. InStep
        BY <1>1, <2>5 DEF WholeInv
      <4>. QED BY <4>1 DEF InStep
    <3>2. /\ Tails(g, requests) /\ Len(answers) \in 0 .. Len(requests)
          /\ InHand(g[Len(answers)], b, unsent, Len(answers) + 1)
      BY <2>1, <3>1 DEF InStepBy
    <3>. QED BY <1>1, <2>2, <2>5, <3>2, WaitsForMore
  <2>. QED BY <2>3, <2>4, <2>5
<1>. QED BY <1>2, <1>3

LEMMA WholeInvariant == Spec => []WholeInv
<1>1. WholeInv /\ UNCHANGED vars => WholeInv'
  <2>. SUFFICES ASSUME WholeInv, UNCHANGED vars PROVE WholeInv'
    OBVIOUS
  <2>1. /\ requests' = requests /\ content' = content /\ answers' = answers /\ cut' = cut
        /\ conn' = conn /\ readBuff' = readBuff /\ unsent' = unsent
    BY DEF vars
  <2>2. WholeAnswers'
    BY <2>1, WholeAnswersStay DEF WholeInv
  <2>3. (~cut /\ AllGets /\ conn # "closed" => InStep)'
    BY <2>1 DEF WholeInv, AllGets, InStep, InStepBy
  <2>. QED BY <2>1, <2>2, <2>3 DEF WholeInv
<1>2. WholeInv /\ OrderInv /\ [Next]_vars => WholeInv'
  BY <1>1, WholeRead, WholeWrite DEF Next
<1>. QED BY <1>2, WholeInit, OrderInvariant, PTL DEF Spec

\* If every read brings a whole request, or cuts it no later than behind its
\* target, requests are understood one by one as they were sent, up to
\* the first POST: with their methods, bodies and wish to keep the connection,
\* and with nothing of another request.
THEOREM UnderstoodWhole == Spec => []WholeUnderstood
<1>1. WholeInv => WholeUnderstood
  BY DEF WholeInv, WholeAnswers, WholeUnderstood, AnswersTo
<1>. QED BY <1>1, WholeInvariant, PTL

-----------------------------------------------------------------------------
(* What the decoders look at.                                              *)

\* From position i on, b is r.
From(b, i, r) ==
    /\ b \in Seq(Bytes) /\ r \in Seq(Bytes) /\ i \in Nat /\ i + Len(r) = Len(b)
    /\ \A k \in 1 .. Len(r) : b[i + k] = r[k]

LEMMA FromStart ==
    ASSUME NEW b \in Seq(Bytes) PROVE From(b, 0, b)
BY DEF From

LEMMA FromOnward ==
    ASSUME NEW b, NEW i, NEW r, From(b, i, r), NEW u, NEW m, NEW v, NEW n,
           IsCat(Bytes, r, u, m, v, n)
    PROVE  /\ m \in Nat /\ i + m <= Len(b) /\ Len(b) \in Nat /\ From(b, i + m, v)
           /\ \A k \in 1 .. m : At(b, i + (k - 1)) = u[k]
<1>1. PICK l : l = Len(b)
  OBVIOUS
<1>2. /\ m \in Nat /\ n \in Nat /\ l \in Nat /\ i \in Nat /\ n = Len(v)
      /\ v \in Seq(Bytes) /\ b \in Seq(Bytes)
  <2>1. u \in Seq(Bytes) /\ v \in Seq(Bytes) /\ Len(u) = m /\ Len(v) = n
    BY DEF IsCat
  <2>2. b \in Seq(Bytes) /\ i \in Nat
    BY DEF From
  <2>. QED BY <1>1, <2>1, <2>2
<1>3. /\ Len(r) = m + n
      /\ \A k \in 1 .. m : r[k] = u[k]
      /\ \A k \in 1 .. n : r[m + k] = v[k]
  BY Cat
<1>4. i + (m + n) = l /\ \A k \in 1 .. m + n : b[i + k] = r[k]
  BY <1>1, <1>3 DEF From
<1>5. From(b, i + m, v)
  <2>1. ASSUME NEW k \in 1 .. n PROVE b[i + m + k] = v[k]
    <3>1. PICK d : d = m + k
      OBVIOUS
    <3>2. d \in 1 .. m + n /\ i + d = i + m + k
      BY <1>2, <3>1
    <3>3. b[i + d] = r[d] /\ r[d] = v[k]
      BY <1>3, <1>4, <3>1, <3>2
    <3>. QED BY <3>2, <3>3
  <2>2. PICK e : e = i + m
    OBVIOUS
  <2>3. e \in Nat /\ e + n = l
    BY <1>2, <1>4, <2>2
  <2>4. \A k \in 1 .. n : b[e + k] = v[k]
    BY <2>1, <2>2
  <2>5. From(b, e, v)
    BY <1>1, <1>2, <2>3, <2>4 DEF From
  <2>. QED BY <2>2, <2>5
<1>6. ASSUME NEW k \in 1 .. m PROVE At(b, i + (k - 1)) = u[k]
  <2>1. i + (k - 1) < Len(b) /\ i + (k - 1) + 1 = i + k /\ k \in 1 .. m + n
    BY <1>1, <1>2, <1>4
  <2>2. b[i + k] = u[k]
    BY <1>3, <1>4, <2>1
  <2>. QED BY <2>1, <2>2 DEF At
<1>. QED BY <1>1, <1>2, <1>4, <1>5, <1>6

\* s is the part of b between two positions.
Part(b, j, i, s) ==
    /\ b \in Seq(Bytes) /\ j \in Nat /\ i \in Nat /\ j <= i /\ i <= Len(b)
    /\ s = substr(b, j, i)

LEMMA PartIs ==
    ASSUME NEW b, NEW j, NEW i, NEW s, Part(b, j, i, s)
    PROVE  /\ s \in Seq(Bytes) /\ Len(s) = i - j
           /\ \A k \in 1 .. i - j : s[k] = b[j + k]
<1>0. /\ b \in Seq(Bytes) /\ j \in Nat /\ i \in Nat /\ j <= i /\ i <= Len(b)
      /\ s = substr(b, j, i)
  BY DEF Part
<1>1. PICK m : m = j + 1
  OBVIOUS
<1>2. m \in Int /\ i \in Int /\ \A k \in m .. i : b[k] \in Bytes
  BY <1>0, <1>1
<1>3. /\ SubSeq(b, m, i) \in Seq(Bytes)
      /\ Len(SubSeq(b, m, i)) = IF m <= i THEN i - m + 1 ELSE 0
      /\ \A k \in 1 .. i - m + 1 : SubSeq(b, m, i)[k] = b[m + k - 1]
  BY <1>2, SubSeqProperties
<1>4. s = SubSeq(b, m, i)
  BY <1>0, <1>1 DEF substr
<1>5. ASSUME NEW k \in 1 .. i - j PROVE s[k] = b[j + k]
  <2>1. k \in 1 .. i - m + 1 /\ m + k - 1 = j + k
    BY <1>0, <1>1
  <2>2. SubSeq(b, m, i)[k] = b[m + k - 1]
    BY <1>3, <2>1
  <2>. QED BY <1>4, <2>1, <2>2
<1>. QED BY <1>0, <1>1, <1>3, <1>4, <1>5

LEMMA SubstrOfFrom ==
    ASSUME NEW b, NEW i, NEW r, From(b, i, r), NEW u, NEW m, NEW v, NEW n,
           IsCat(Bytes, r, u, m, v, n)
    PROVE  substr(b, i, i + m) = u
<1>1. /\ m \in Nat /\ i \in Nat /\ i + m <= Len(b) /\ b \in Seq(Bytes)
      /\ \A k \in 1 .. m : At(b, i + (k - 1)) = u[k]
  <2>1. i \in Nat /\ b \in Seq(Bytes)
    BY DEF From
  <2>. QED BY <2>1, FromOnward
<1>2. PICK e, s : e = i + m /\ s = substr(b, i, e)
  OBVIOUS
<1>3. /\ s \in Seq(Bytes) /\ Len(s) = m
      /\ \A k \in 1 .. m : s[k] = b[i + k]
  <2>1. e \in Nat /\ i <= e /\ e <= Len(b) /\ e - i = m
    BY <1>1, <1>2
  <2>2. Part(b, i, e, s)
    BY <1>1, <1>2, <2>1 DEF Part
  <2>. QED BY <2>1, <2>2, PartIs
<1>4. ASSUME NEW k \in 1 .. m PROVE s[k] = u[k]
  <2>1. i + (k - 1) < Len(b) /\ i + (k - 1) + 1 = i + k
    BY <1>1
  <2>2. At(b, i + (k - 1)) = b[i + k]
    BY <2>1 DEF At
  <2>. QED BY <1>1, <1>3, <2>2
<1>5. s = u
  <2>1. u \in Seq(Bytes) /\ Len(u) = m
    BY DEF IsCat
  <2>. QED BY <1>3, <1>4, <2>1, SeqEqual
<1>. QED BY <1>2, <1>5

LEMMA SubstrNothing ==
    ASSUME NEW b, NEW i \in Nat PROVE substr(b, i, i) = << >>
BY SubSeqEmpty DEF substr

LEMMA SubstrLonger ==
    ASSUME NEW b \in Seq(Bytes), NEW j \in Nat, NEW i \in Nat, j <= i, i < Len(b)
    PROVE  substr(b, j, i + 1) = substr(b, j, i) \o <<At(b, i)>>
<1>1. PICK m, n : m = j + 1 /\ n = i + 1
  OBVIOUS
<1>2. m \in 1 .. Len(b) /\ n \in m .. Len(b) /\ n - 1 = i
  BY <1>1
<1>3. SubSeq(b, m, n) = SubSeq(b, m, n - 1) \o <<b[n]>>
  BY <1>2, SubSeqRecursiveSecond
<1>4. At(b, i) = b[n]
  BY <1>1 DEF At
<1>. QED BY <1>1, <1>2, <1>3, <1>4 DEF substr

-----------------------------------------------------------------------------
(* The loop over a form.                                                   *)

FormAt(i, j, key, value, post) == [i |-> i, j |-> j, key |-> key, value |-> value, post |-> post]
FormBegin == FormAt(0, 0, << >>, << >>, NoFields)

FormTurns(after, b, N) ==
    after = [n \in 0 .. N |-> IF n = 0 THEN {FormBegin} ELSE {formStep(b, s) : s \in after[n - 1]}]

LEMMA FormTurnsExist ==
    ASSUME NEW b, NEW N \in Nat PROVE \E after : FormTurns(after, b, N)
<1>. DEFINE S == {k \in 0 .. N : \E f : FormTurns(f, b, k)}
<1>1. 0 \in S
  <2>. DEFINE f == [n \in 0 .. 0 |-> {FormBegin}]
  <2>1. f = [n \in 0 .. 0 |-> IF n = 0 THEN {FormBegin} ELSE {formStep(b, s) : s \in f[n - 1]}]
    OBVIOUS
  <2>2. FormTurns(f, b, 0)
    BY <2>1 DEF FormTurns
  <2>. HIDE DEF f
  <2>. QED BY <2>2
<1>2. ASSUME NEW k \in 0 .. N - 1, k \in S PROVE k + 1 \in S
  <2>1. PICK f : FormTurns(f, b, k)
    BY <1>2
  <2>2. PICK l \in 1 .. N : l = k + 1 /\ l - 1 = k
    BY <1>2
  <2>. DEFINE g == [n \in 0 .. l |-> IF n = 0 THEN {FormBegin} ELSE {formStep(b, s) : s \in f[n - 1]}]
  <2>3. \A n \in 0 .. k : f[n] = IF n = 0 THEN {FormBegin} ELSE {formStep(b, s) : s \in f[n - 1]}
    BY <2>1 DEF FormTurns
  <2>4. ASSUME NEW n \in 0 .. k PROVE g[n] = f[n]
    <3>1. n \in 0 .. l
      BY <2>2
    <3>2. g[n] = IF n = 0 THEN {FormBegin} ELSE {formStep(b, s) : s \in f[n - 1]}
      BY <3>1, Zenon
    <3>3. f[n] = IF n = 0 THEN {FormBegin} ELSE {formStep(b, s) : s \in f[n - 1]}
      BY <2>3
    <3>. QED BY <3>2, <3>3, Zenon
  <2>5. ASSUME NEW n \in 0 .. l, n # 0
        PROVE {formStep(b, s) : s \in f[n - 1]} = {formStep(b, s) : s \in g[n - 1]}
    <3>1. n - 1 \in 0 .. k
      BY <2>2, <2>5
    <3>. QED BY <2>4, <3>1
  <2>. DEFINE h == [n \in 0 .. l |-> IF n = 0 THEN {FormBegin} ELSE {formStep(b, s) : s \in g[n - 1]}]
  <2>6. g = h
    BY <2>5
  <2>7. FormTurns(g, b, l)
    BY <2>6 DEF FormTurns
  <2>. QED BY <2>2, <2>7
<1>3. \A k \in 0 .. N : k \in S
  <2>. HIDE DEF S
  <2>. QED BY <1>1, <1>2, Induct
<1>. QED BY <1>3

\* after[n] is where the loop over b stands after n turns, in a set of one.
FormLoop(after, b) ==
    /\ after[0] = {FormBegin} /\ formLoop(b) = The(after[Len(b)])
    /\ \A n \in 0 .. Len(b) - 1 : after[n + 1] = {formStep(b, s) : s \in after[n]}

LEMMA FormLoopIs ==
    ASSUME NEW b \in Seq(Bytes) PROVE \E after : FormLoop(after, b)
<1>. DEFINE N == Len(b)
            after == CHOOSE f : FormTurns(f, b, N)
<1>1. N \in Nat
  OBVIOUS
<1>2. FormTurns(after, b, N)
  <2>. HIDE DEF N
  <2>. QED BY <1>1, FormTurnsExist
<1>3. formLoop(b) = The(after[N])
  BY Zenon DEF formLoop, FormTurns, FormBegin, FormAt
<1>. HIDE DEF after
<1>4. after[0] = {FormBegin}
  BY <1>1, <1>2 DEF FormTurns
<1>5. ASSUME NEW n \in 0 .. N - 1 PROVE after[n + 1] = {formStep(b, s) : s \in after[n]}
  <2>1. PICK m \in 0 .. N : m = n + 1 /\ m - 1 = n /\ m # 0
    OBVIOUS
  <2>. HIDE DEF N
  <2>2. after[m] = {formStep(b, s) : s \in after[m - 1]}
    BY <1>2, <2>1 DEF FormTurns
  <2>. QED BY <2>1, <2>2
<1>. QED BY <1>3, <1>4, <1>5 DEF FormLoop

\* The loop comes to s, with no more turns than it has used bytes.
Comes(after, b, s) == \E n \in 0 .. Len(b) : n <= s.i /\ after[n] = {s}

LEMMA ComesTo ==
    ASSUME NEW b \in Seq(Bytes), NEW after, FormLoop(after, b), NEW s, Comes(after, b, s),
           NEW t, t = formStep(b, s), s.i \in Nat, t.i \in Nat, s.i < Len(b), s.i < t.i
    PROVE  Comes(after, b, t)
<1>1. PICK n \in 0 .. Len(b) : n <= s.i /\ after[n] = {s}
  BY DEF Comes
<1>2. PICK m : m = n + 1
  OBVIOUS
<1>3. n \in 0 .. Len(b) - 1 /\ m \in 0 .. Len(b) /\ m <= t.i
  BY <1>1, <1>2
<1>4. after[n + 1] = {formStep(b, r) : r \in after[n]}
  BY <1>3 DEF FormLoop
<1>5. after[m] = {t}
  BY <1>1, <1>2, <1>4
<1>. QED BY <1>3, <1>5 DEF Comes

LEMMA ComesToEnd ==
    ASSUME NEW b \in Seq(Bytes), NEW after, FormLoop(after, b), NEW s, Comes(after, b, s),
           s.i = Len(b)
    PROVE  formLoop(b) = s
<1>1. PICK n \in 0 .. Len(b) : after[n] = {s}
  BY DEF Comes
<1>2. formStep(b, s) = s
  <2>1. At(b, s.i) = 0 /\ s.i >= Len(b)
    BY DEF At
  <2>. QED BY <2>1 DEF formStep, Equals, Plus, Ampersand, Percent
<1>. DEFINE N == Len(b) - n
            S == {k \in 0 .. N : after[n + k] = {s}}
<1>3. N \in Nat /\ 0 \in S
  BY <1>1
<1>4. ASSUME NEW k \in 0 .. N - 1, k \in S PROVE k + 1 \in S
  <2>1. PICK m : m = n + k
    OBVIOUS
  <2>2. m \in 0 .. Len(b) - 1 /\ m + 1 = n + (k + 1) /\ k + 1 \in 0 .. N
    BY <2>1
  <2>3. after[m + 1] = {formStep(b, r) : r \in after[m]}
    BY <2>2 DEF FormLoop
  <2>4. after[m] = {s}
    BY <1>4, <2>1
  <2>5. after[m + 1] = {s}
    BY <1>2, <2>3, <2>4
  <2>. QED BY <2>2, <2>5
<1>5. N \in S
  <2>1. \A k \in 0 .. N : k \in S
    <3>. HIDE DEF N, S
    <3>. QED BY <1>3, <1>4, Induct
  <2>2. N \in 0 .. N
    BY <1>3
  <2>. HIDE DEF N, S
  <2>. QED BY <2>1, <2>2
<1>6. n + N = Len(b)
  OBVIOUS
<1>7. after[Len(b)] = {s}
  BY <1>5, <1>6
<1>. QED BY <1>7, TheOne DEF FormLoop

-----------------------------------------------------------------------------
(* Its turns.                                                              *)

\* The loop stands at i, before the byte c.
Before(b, s, i, c, j, k, v, p) ==
    b \in Seq(Bytes) /\ i \in Nat /\ i < Len(b) /\ At(b, i) = c /\ s = FormAt(i, j, k, v, p)

LEMMA BeforeIs ==
    ASSUME NEW b, NEW s, NEW i, NEW c, NEW j, NEW k, NEW v, NEW p,
           Before(b, s, i, c, j, k, v, p)
    PROVE  /\ s = FormAt(i, j, k, v, p) /\ ~ (s.i >= Len(b)) /\ At(b, s.i) = c
           /\ s.i = i /\ s.j = j /\ s.key = k /\ s.value = v /\ s.post = p
           /\ i \in Nat /\ Len(b) \in Nat /\ i < Len(b)
<1>1. Len(b) \in Nat /\ i \in Nat /\ i < Len(b) /\ At(b, i) = c /\ s = FormAt(i, j, k, v, p)
  BY DEF Before
<1>2. s.i = i /\ s.j = j /\ s.key = k /\ s.value = v /\ s.post = p
  BY <1>1 DEF FormAt
<1>. QED BY <1>1, <1>2

LEMMA OrdinaryTurn ==
    ASSUME NEW b, NEW s, NEW i, NEW c \in Ordinary, NEW j, NEW k, NEW v, NEW p,
           Before(b, s, i, c, j, k, v, p)
    PROVE  formStep(b, s) = FormAt(i + 1, j, k, v, p)
<1>1. formStep(b, s) = [s EXCEPT !.i = @ + 1]
  BY BeforeIs DEF formStep, Ordinary
<1>. QED BY <1>1, BeforeIs DEF FormAt

LEMMA MovedIs ==
    ASSUME NEW i, NEW j, NEW k, NEW v, NEW p, NEW s, s = FormAt(i, j, k, v, p), NEW n
    PROVE  Moved(s, n) = FormAt(i + n, i + n, k, v, p)
<1>1. PICK m : m = i + n
  OBVIOUS
<1>2. s = [i |-> i, j |-> j, key |-> k, value |-> v, post |-> p]
  BY DEF FormAt
<1>3. s.i + n = m
  BY <1>1, <1>2
<1>4. Moved(s, n) = [s EXCEPT !.i = m, !.j = m]
  BY <1>3 DEF Moved
<1>5. PICK t : t = [s EXCEPT !.i = m]
  OBVIOUS
<1>6. t = [i |-> m, j |-> j, key |-> k, value |-> v, post |-> p]
  BY <1>2, <1>5
<1>7. [s EXCEPT !.i = m, !.j = m] = [t EXCEPT !.j = m]
  BY <1>2, <1>5
<1>8. [t EXCEPT !.j = m] = [i |-> m, j |-> m, key |-> k, value |-> v, post |-> p]
  BY <1>6
<1>. QED BY <1>1, <1>4, <1>7, <1>8 DEF FormAt

LEMMA EqualsTurn ==
    ASSUME NEW b, NEW s, NEW i, NEW j, NEW k, NEW v, NEW p,
           NEW c, c = Equals, Before(b, s, i, c, j, k, v, p),
           NEW seg, seg = substr(b, j, i), seg # << >>
    PROVE  formStep(b, s) = FormAt(i + 1, i + 1, seg, v, p)
<1>1. PICK t : t = [s EXCEPT !.key = seg]
  OBVIOUS
<1>2. formStep(b, s) = Moved(t, 1)
  BY <1>1, BeforeIs DEF formStep, Equals, Plus, Percent, Ampersand
<1>3. t = FormAt(i, j, seg, v, p)
  BY <1>1, BeforeIs DEF FormAt
<1>. QED BY <1>2, <1>3, MovedIs

LEMMA PlusTurn ==
    ASSUME NEW b, NEW s, NEW i, NEW j, NEW k, NEW v, NEW p,
           NEW c, c = Plus, Before(b, s, i, c, j, k, v, p),
           NEW seg, seg = substr(b, j, i)
    PROVE  formStep(b, s) = FormAt(i + 1, i + 1, k, v \o seg \o <<Space>>, p)
<1>0. PICK w : w = s.value \o substr(b, s.j, s.i) \o <<Space>>
  OBVIOUS
<1>1. PICK t : t = [s EXCEPT !.value = w]
  OBVIOUS
<1>2. formStep(b, s) = Moved(t, 1)
  BY <1>0, <1>1, BeforeIs DEF formStep, Equals, Plus, Percent, Ampersand
<1>3. t = FormAt(i, j, k, w, p)
  BY <1>1, BeforeIs DEF FormAt
<1>4. w = v \o seg \o <<Space>>
  BY <1>0, BeforeIs
<1>. QED BY <1>2, <1>3, <1>4, MovedIs

LEMMA AmpersandTurn ==
    ASSUME NEW b, NEW s, NEW i, NEW j, NEW k, NEW v, NEW p,
           NEW c, c = Ampersand, Before(b, s, i, c, j, k, v, p),
           NEW seg, seg = substr(b, j, i), seg # << >>, k # << >>
    PROVE  formStep(b, s) = FormAt(i + 1, i + 1, << >>, << >>, Stored(p, k, v \o seg))
<1>1. PICK t : t = pairEnd(s, seg)
  OBVIOUS
<1>2. formStep(b, s) = Moved(t, 1)
  BY <1>1, BeforeIs DEF formStep, Equals, Plus, Percent, Ampersand
<1>3. t = FormAt(i, j, << >>, << >>, Stored(p, k, v \o seg))
  <2>1. t = [s EXCEPT !.post = Stored(s.post, s.key, s.value \o seg),
                      !.key = << >>, !.value = << >>]
    BY <1>1, BeforeIs DEF pairEnd
  <2>2. PICK q : q = Stored(p, k, v \o seg)
    OBVIOUS
  <2>3. t = [s EXCEPT !.post = q, !.key = << >>, !.value = << >>]
    BY <2>1, <2>2, BeforeIs
  <2>4. s = [i |-> i, j |-> j, key |-> k, value |-> v, post |-> p]
    BY BeforeIs DEF FormAt
  <2>5. t = [i |-> i, j |-> j, key |-> << >>, value |-> << >>, post |-> q]
    BY <2>3, <2>4
  <2>. QED BY <2>2, <2>5 DEF FormAt
<1>. QED BY <1>2, <1>3, MovedIs

LEMMA HexIs ==
    ASSUME NEW n \in 0 .. 15, NEW ten \in {65, 97}
    PROVE  ConverHex(HexDigit(n, ten)) = n
<1>1. CASE n < 10
  BY <1>1 DEF ConverHex, HexDigit, Digits, Upper, Lower
<1>2. CASE n >= 10 /\ ten = 65
  BY <1>2 DEF ConverHex, HexDigit, Digits, Upper, Lower
<1>3. CASE n >= 10 /\ ten = 97
  BY <1>3 DEF ConverHex, HexDigit, Digits, Upper, Lower
<1>. QED BY <1>1, <1>2, <1>3

LEMMA Halves ==
    ASSUME NEW byte \in 0 .. 255
    PROVE  byte \div 16 \in 0 .. 15 /\ byte % 16 \in 0 .. 15
           /\ (byte \div 16) * 16 + (byte % 16) = byte
<1>1. byte \div 16 \in 0 .. 15
  OBVIOUS
<1>2. byte % 16 \in 0 .. 15
  OBVIOUS
<1>3. (byte \div 16) * 16 + (byte % 16) = byte
  OBVIOUS
<1>. QED BY <1>1, <1>2, <1>3

LEMMA EscapeTurn ==
    ASSUME NEW b, NEW s, NEW i, NEW j, NEW k, NEW v, NEW p,
           NEW c, c = Percent, Before(b, s, i, c, j, k, v, p), i + 2 < Len(b),
           NEW byte \in Bytes, NEW ten \in {65, 97},
           At(b, i + 1) = HexDigit(byte \div 16, ten), At(b, i + 2) = HexDigit(byte % 16, ten),
           NEW seg, seg = substr(b, j, i)
    PROVE  formStep(b, s) = FormAt(i + 3, i + 3, k, v \o seg \o <<byte>>, p)
<1>1. PICK high, low : high = byte \div 16 /\ low = byte % 16
  OBVIOUS
<1>2. high \in 0 .. 15 /\ low \in 0 .. 15 /\ high * 16 + low = byte
  <2>1. byte \in 0 .. 255
    BY DEF Bytes
  <2>. QED BY <1>1, <2>1, Halves
<1>3. ConverHex(At(b, i + 1)) = high /\ ConverHex(At(b, i + 2)) = low
  BY <1>1, <1>2, HexIs
<1>4. ~ (high < 0 \/ low < 0)
  BY <1>2
<1>0. PICK w : w = s.value \o substr(b, s.j, s.i) \o <<high * 16 + low>>
  OBVIOUS
<1>5. PICK t : t = [s EXCEPT !.value = w]
  OBVIOUS
<1>6. formStep(b, s) = Moved(t, 3)
  <2>1. s.i + 2 < Len(b) /\ At(b, s.i) = Percent /\ ~ (s.i >= Len(b))
        /\ ConverHex(At(b, s.i + 1)) = high /\ ConverHex(At(b, s.i + 2)) = low
    BY <1>3, BeforeIs
  <2>. DEFINE h == ConverHex(At(b, s.i + 1))
              l == ConverHex(At(b, s.i + 2))
  <2>2. PICK x : x = IF h < 0 \/ l < 0 THEN << >> ELSE <<h * 16 + l>>
    OBVIOUS
  <2>3. formStep(b, s) = Moved([s EXCEPT !.value = @ \o substr(b, s.j, s.i) \o x], 3)
    BY <2>1, <2>2 DEF formStep, Equals, Plus, Percent, Ampersand
  <2>4. x = <<high * 16 + low>>
    BY <1>4, <2>1, <2>2
  <2>5. [s EXCEPT !.value = @ \o substr(b, s.j, s.i) \o x] = t
    BY <1>0, <1>5, <2>4
  <2>. QED BY <2>3, <2>5
<1>7. t = FormAt(i, j, k, w, p)
  BY <1>5, BeforeIs DEF FormAt
<1>8. w = v \o seg \o <<byte>>
  <2>1. high * 16 + low = byte /\ s.value = v /\ s.i = i /\ s.j = j
    BY <1>2, BeforeIs
  <2>. QED BY <1>0, <2>1
<1>. QED BY <1>6, <1>7, <1>8, MovedIs

-----------------------------------------------------------------------------
(* A value, token by token.                                                *)

LEMMA TokenIs ==
    ASSUME NEW x \in Tokens
    PROVE  /\ x.byte \in Bytes
           /\ \/ x.is = "byte" /\ x.byte \in Ordinary /\ SentAs(x) = <<x.byte>>
              \/ x.is = "plus" /\ x.byte = Space /\ SentAs(x) = <<Plus>>
              \/ /\ x.is # "byte"
                 /\ \E ten \in {65, 97} : SentAs(x) = Escape(x.byte, ten)
<1>1. CASE x \in [is : {"byte"}, byte : Ordinary]
  <2>1. x.is = "byte" /\ x.byte \in Ordinary
    BY <1>1
  <2>2. SentAs(x) = <<x.byte>>
    BY <2>1 DEF SentAs
  <2>. QED BY <2>1, <2>2 DEF Ordinary
<1>2. CASE x \in [is : {"plus"}, byte : {Space}]
  <2>1. x.is = "plus" /\ x.byte = Space
    BY <1>2
  <2>2. SentAs(x) = <<Plus>>
    BY <2>1 DEF SentAs
  <2>. QED BY <2>1, <2>2 DEF Space, Bytes
<1>3. CASE x \in [is : {"upper", "lower"}, byte : Bytes]
  <2>1. x.is \in {"upper", "lower"} /\ x.byte \in Bytes
    BY <1>3
  <2>2. x.is = "upper" => SentAs(x) = Escape(x.byte, 65)
    BY DEF SentAs
  <2>3. x.is = "lower" => SentAs(x) = Escape(x.byte, 97)
    BY DEF SentAs
  <2>. QED BY <2>1, <2>2, <2>3
<1>. QED BY <1>1, <1>2, <1>3 DEF Tokens

LEMMA EscapeIs ==
    ASSUME NEW byte \in Bytes, NEW ten \in {65, 97}, NEW s, s = Escape(byte, ten)
    PROVE  /\ s \in Seq(Bytes) /\ Len(s) = 3 /\ s[1] = Percent
           /\ s[2] = HexDigit(byte \div 16, ten) /\ s[3] = HexDigit(byte % 16, ten)
<1>1. PICK high, low : high = byte \div 16 /\ low = byte % 16
  OBVIOUS
<1>2. high \in 0 .. 15 /\ low \in 0 .. 15
  <2>1. byte \in 0 .. 255
    BY DEF Bytes
  <2>. QED BY <1>1, <2>1, Halves
<1>3. PICK p, h, l : p = Percent /\ h = HexDigit(high, ten) /\ l = HexDigit(low, ten)
  OBVIOUS
<1>4. p \in Bytes /\ h \in Bytes /\ l \in Bytes
  BY <1>2, <1>3 DEF HexDigit, Percent, Bytes
<1>5. s = <<p, h, l>>
  BY <1>1, <1>3 DEF Escape
<1>. QED BY <1>1, <1>3, <1>4, <1>5

LEMMA SentIs ==
    ASSUME NEW x \in Tokens PROVE SentAs(x) \in Seq(Bytes)
<1>1. CASE x.is = "byte" /\ x.byte \in Ordinary /\ SentAs(x) = <<x.byte>>
  BY <1>1 DEF Ordinary
<1>2. CASE SentAs(x) = <<Plus>>
  BY <1>2 DEF Plus, Bytes
<1>3. CASE \E ten \in {65, 97} : SentAs(x) = Escape(x.byte, ten)
  BY <1>3, TokenIs, EscapeIs
<1>. QED BY <1>1, <1>2, <1>3, TokenIs

\* The loop has read t tokens of the value V, and w is still to come. What it
\* has of them is the value collected and the bytes not yet used, of which there
\* are some behind an ordinary byte.
ValueAt(b, s, i, j, v, w, key, post, V, t) ==
    /\ s = FormAt(i, j, key, v, post) /\ From(b, i, w)
    /\ j \in Nat /\ j <= i /\ v \in Seq(Bytes)
    /\ v \o substr(b, j, i) = SubSeq(Spelled(V), 1, t)
    /\ t # 0 /\ V[t].is = "byte" => j < i

LEMMA SpelledLonger ==
    ASSUME NEW V \in Seq(Tokens), NEW t \in 1 .. Len(V)
    PROVE  SubSeq(Spelled(V), 1, t) = SubSeq(Spelled(V), 1, t - 1) \o <<V[t].byte>>
<1>1. PICK d, n : d = Spelled(V) /\ n = Len(V)
  OBVIOUS
<1>2. \A k \in 1 .. n : V[k] \in Tokens
  BY <1>1
<1>3. \A k \in 1 .. n : V[k].byte \in Bytes
  BY <1>2, TokenIs
<1>4. d \in [1 .. n -> Bytes] /\ n \in Nat
  BY <1>1, <1>3 DEF Spelled
<1>5. d \in Seq(Bytes) /\ Len(d) = n
  BY <1>4, FunctionIsSeq
<1>6. SubSeq(d, 1, t) = SubSeq(d, 1, t - 1) \o <<d[t]>>
  <2>1. PICK m : m = 1
    OBVIOUS
  <2>2. m \in 1 .. Len(d) /\ t \in m .. Len(d)
    BY <1>1, <1>5, <2>1
  <2>3. SubSeq(d, m, t) = SubSeq(d, m, t - 1) \o <<d[t]>>
    BY <1>5, <2>2, SubSeqRecursiveSecond
  <2>. QED BY <2>1, <2>3
<1>7. d[t] = V[t].byte
  BY <1>1 DEF Spelled
<1>. QED BY <1>1, <1>6, <1>7

\* v and what follows are the first t bytes of the value.
Have(v, seg, V, t) ==
    v \in Seq(Bytes) /\ seg \in Seq(Bytes) /\ v \o seg = SubSeq(Spelled(V), 1, t)

LEMMA ValueAtIs ==
    ASSUME NEW b, NEW s, NEW i, NEW j, NEW v, NEW w, NEW key, NEW post, NEW V, NEW t,
           ValueAt(b, s, i, j, v, w, key, post, V, t), NEW seg, seg = substr(b, j, i)
    PROVE  /\ b \in Seq(Bytes) /\ Len(b) \in Nat /\ i \in Nat /\ j \in Nat /\ j <= i /\ i <= Len(b)
           /\ s.i = i /\ s = FormAt(i, j, key, v, post) /\ From(b, i, w) /\ w \in Seq(Bytes)
           /\ Have(v, seg, V, t) /\ Len(seg) = i - j
<1>1. /\ b \in Seq(Bytes) /\ Len(b) \in Nat /\ i \in Nat /\ j \in Nat /\ j <= i
      /\ w \in Seq(Bytes) /\ Len(w) \in Nat /\ i + Len(w) = Len(b)
  BY DEF ValueAt, From
<1>2. s.i = i
  BY DEF ValueAt, FormAt
<1>3. i <= Len(b)
  BY <1>1
<1>4. seg \in Seq(Bytes) /\ Len(seg) = i - j
  <2>1. Part(b, j, i, seg)
    BY <1>1, <1>3 DEF Part
  <2>. QED BY <2>1, PartIs
<1>5. Have(v, seg, V, t)
  BY <1>4 DEF ValueAt, Have
<1>. QED BY <1>1, <1>2, <1>3, <1>4, <1>5 DEF ValueAt

\* A turn of the loop takes the token t.
TokenTaken(b, u, i, w, key, post, V, t) ==
    \E k, l, x : ValueAt(b, u, k, l, x, w, key, post, V, t) /\ i < k

LEMMA ByteTaken ==
    ASSUME NEW b, NEW s, NEW i, NEW j, NEW v, NEW w, NEW key, NEW post,
           NEW V \in Seq(Tokens), NEW t \in 1 .. Len(V), NEW r,
           ValueAt(b, s, i, j, v, r, key, post, V, t - 1),
           V[t].is = "byte", NEW c \in Ordinary, c = V[t].byte, NEW n,
           IsCat(Bytes, r, <<c>>, 1, w, n), NEW u, u = formStep(b, s)
    PROVE  TokenTaken(b, u, i, w, key, post, V, t)
<1>1. PICK seg, one : seg = substr(b, j, i) /\ one = <<c>>
  OBVIOUS
<1>2. /\ b \in Seq(Bytes) /\ Len(b) \in Nat /\ i \in Nat /\ j \in Nat /\ j <= i
      /\ s = FormAt(i, j, key, v, post) /\ From(b, i, r)
      /\ v \in Seq(Bytes) /\ seg \in Seq(Bytes)
      /\ v \o seg = SubSeq(Spelled(V), 1, t - 1)
  <2>1. PICK o : o = t - 1
    OBVIOUS
  <2>2. ValueAt(b, s, i, j, v, r, key, post, V, o)
    BY <2>1
  <2>3. /\ b \in Seq(Bytes) /\ Len(b) \in Nat /\ i \in Nat /\ j \in Nat /\ j <= i
        /\ s = FormAt(i, j, key, v, post) /\ From(b, i, r) /\ Have(v, seg, V, o)
    BY <1>1, <2>2, ValueAtIs
  <2>. QED BY <2>1, <2>3 DEF Have
<1>3. PICK k, m : k = i + m /\ m = 1
  OBVIOUS
<1>4. From(b, k, w) /\ i < Len(b) /\ At(b, i) = c /\ k \in Nat
  <2>1. IsCat(Bytes, r, one, m, w, n)
    BY <1>1, <1>3
  <2>2. /\ m \in Nat /\ i + m <= Len(b) /\ From(b, i + m, w)
        /\ \A l \in 1 .. m : At(b, i + (l - 1)) = one[l]
    BY <1>2, <2>1, FromOnward
  <2>3. At(b, i) = c
    <3>1. 1 \in 1 .. m /\ i + (1 - 1) = i /\ one[1] = c
      BY <1>1, <1>2, <1>3
    <3>. QED BY <2>2, <3>1
  <2>. QED BY <1>2, <1>3, <2>2, <2>3
<1>5. u = FormAt(k, j, key, v, post)
  <2>1. Before(b, s, i, c, j, key, v, post)
    BY <1>2, <1>4 DEF Before
  <2>2. formStep(b, s) = FormAt(i + 1, j, key, v, post)
    BY <2>1, OrdinaryTurn
  <2>. QED BY <1>3, <2>2
<1>6. v \o substr(b, j, k) = SubSeq(Spelled(V), 1, t)
  <2>1. substr(b, j, k) = seg \o one
    <3>1. substr(b, j, i + 1) = substr(b, j, i) \o <<At(b, i)>>
      BY <1>2, <1>4, SubstrLonger
    <3>. QED BY <1>1, <1>3, <1>4, <3>1
  <2>2. one \in Seq(Bytes)
    BY <1>1 DEF Ordinary
  <2>3. v \o (seg \o one) = (v \o seg) \o one
    <3>1. v \in Seq(Bytes) /\ seg \in Seq(Bytes) /\ one \in Seq(Bytes)
      BY <1>2, <2>2
    <3>2. PICK x, y, z : x = v /\ y = seg /\ z = one
      OBVIOUS
    <3>3. x \in Seq(Bytes) /\ y \in Seq(Bytes) /\ z \in Seq(Bytes)
      BY <3>1, <3>2
    <3>4. (x \o y) \o z = x \o (y \o z)
      BY <3>3, ConcatAssociative
    <3>. QED BY <3>2, <3>4
  <2>4. SubSeq(Spelled(V), 1, t) = SubSeq(Spelled(V), 1, t - 1) \o one
    BY <1>1, SpelledLonger
  <2>. QED BY <1>2, <2>1, <2>3, <2>4
<1>7. j < k /\ j <= k /\ i < k
  BY <1>2, <1>3
<1>8. ValueAt(b, u, k, j, v, w, key, post, V, t)
  BY <1>2, <1>4, <1>5, <1>6, <1>7 DEF ValueAt
<1>. QED BY <1>7, <1>8 DEF TokenTaken

\* Behind any other token the value is collected up to it.
LEMMA Collected ==
    ASSUME NEW b, NEW s, NEW i, NEW j, NEW v, NEW w, NEW key, NEW post,
           NEW V \in Seq(Tokens), NEW t \in 1 .. Len(V), NEW r,
           ValueAt(b, s, i, j, v, r, key, post, V, t - 1), V[t].is # "byte",
           NEW k \in Nat, i < k, From(b, k, w), NEW x, x = V[t].byte,
           NEW seg, seg = substr(b, j, i),
           NEW u, u = FormAt(k, k, key, v \o seg \o <<x>>, post)
    PROVE  TokenTaken(b, u, i, w, key, post, V, t)
<1>1. PICK one, y : one = <<x>> /\ y = v \o seg \o one
  OBVIOUS
<1>2. one \in Seq(Bytes) /\ v \in Seq(Bytes) /\ seg \in Seq(Bytes)
      /\ v \o seg = SubSeq(Spelled(V), 1, t - 1)
  <2>1. x \in Bytes
    <3>1. V[t] \in Tokens
      OBVIOUS
    <3>. QED BY <3>1, TokenIs
  <2>2. PICK o : o = t - 1
    OBVIOUS
  <2>3. ValueAt(b, s, i, j, v, r, key, post, V, o)
    BY <2>2
  <2>4. Have(v, seg, V, o)
    BY <2>3, ValueAtIs
  <2>. QED BY <1>1, <2>1, <2>2, <2>4 DEF Have
<1>3. y = SubSeq(Spelled(V), 1, t)
  <2>1. SubSeq(Spelled(V), 1, t) = SubSeq(Spelled(V), 1, t - 1) \o one
    BY <1>1, SpelledLonger
  <2>. QED BY <1>1, <1>2, <2>1
<1>4. y \in Seq(Bytes)
  <2>1. v \o seg \in Seq(Bytes)
    BY <1>2, ConcatProperties
  <2>. QED BY <1>1, <1>2, <2>1, ConcatProperties
<1>5. y \o substr(b, k, k) = y
  BY <1>4, SubstrNothing, ConcatEmptySeq
<1>6. ValueAt(b, u, k, k, y, w, key, post, V, t)
  <2>1. u = FormAt(k, k, key, y, post) /\ k <= k
    BY <1>1
  <2>2. y \o substr(b, k, k) = SubSeq(Spelled(V), 1, t)
    BY <1>3, <1>5
  <2>3. ~ (V[t].is = "byte") /\ From(b, k, w) /\ k \in Nat
    OBVIOUS
  <2>. QED BY <1>4, <2>1, <2>2, <2>3 DEF ValueAt
<1>. QED BY <1>6 DEF TokenTaken

LEMMA PlusTaken ==
    ASSUME NEW b, NEW s, NEW i, NEW j, NEW v, NEW w, NEW key, NEW post,
           NEW V \in Seq(Tokens), NEW t \in 1 .. Len(V), NEW r,
           ValueAt(b, s, i, j, v, r, key, post, V, t - 1),
           V[t].is = "plus", V[t].byte = Space, NEW n, NEW one, one = <<Plus>>, NEW m, m = 1,
           IsCat(Bytes, r, one, m, w, n), NEW u, u = formStep(b, s)
    PROVE  TokenTaken(b, u, i, w, key, post, V, t)
<1>1. PICK seg, c, k : seg = substr(b, j, i) /\ c = Plus /\ k = i + m
  OBVIOUS
<1>2. /\ b \in Seq(Bytes) /\ Len(b) \in Nat /\ i \in Nat
      /\ s = FormAt(i, j, key, v, post) /\ From(b, i, r)
  <2>1. PICK o : o = t - 1
    OBVIOUS
  <2>2. ValueAt(b, s, i, j, v, r, key, post, V, o)
    BY <2>1
  <2>. QED BY <1>1, <2>2, ValueAtIs
<1>3. From(b, k, w) /\ i < Len(b) /\ At(b, i) = c /\ k \in Nat /\ i < k /\ k = i + 1
  <2>1. /\ m \in Nat /\ i + m <= Len(b) /\ From(b, i + m, w)
        /\ \A l \in 1 .. m : At(b, i + (l - 1)) = one[l]
    BY <1>2, FromOnward
  <2>2. 1 \in 1 .. m /\ i + (1 - 1) = i /\ one[1] = c
    BY <1>1, <1>2
  <2>3. At(b, i) = c
    BY <2>1, <2>2
  <2>. QED BY <1>1, <1>2, <2>1, <2>3
<1>4. Before(b, s, i, c, j, key, v, post)
  BY <1>2, <1>3 DEF Before
<1>5. u = FormAt(k, k, key, v \o seg \o <<Space>>, post)
  BY <1>1, <1>3, <1>4, PlusTurn
<1>. QED BY <1>1, <1>3, <1>5, Collected

IsEscape(esc, byte, ten) == esc = Escape(byte, ten)

LEMMA EscapeTaken ==
    ASSUME NEW b, NEW s, NEW i, NEW j, NEW v, NEW w, NEW key, NEW post,
           NEW V \in Seq(Tokens), NEW t \in 1 .. Len(V), NEW r,
           ValueAt(b, s, i, j, v, r, key, post, V, t - 1),
           V[t].is # "byte", NEW byte \in Bytes, byte = V[t].byte, NEW ten \in {65, 97},
           NEW n, NEW esc, IsEscape(esc, byte, ten), NEW m, m = 3,
           IsCat(Bytes, r, esc, m, w, n), NEW u, u = formStep(b, s)
    PROVE  TokenTaken(b, u, i, w, key, post, V, t)
<1>1. PICK seg, c, k : seg = substr(b, j, i) /\ c = Percent /\ k = i + m
  OBVIOUS
<1>2. /\ b \in Seq(Bytes) /\ Len(b) \in Nat /\ i \in Nat
      /\ s = FormAt(i, j, key, v, post) /\ From(b, i, r)
  <2>1. PICK o : o = t - 1
    OBVIOUS
  <2>2. ValueAt(b, s, i, j, v, r, key, post, V, o)
    BY <2>1
  <2>. QED BY <1>1, <2>2, ValueAtIs
<1>3. /\ From(b, k, w) /\ i + 2 < Len(b) /\ At(b, i) = c /\ k \in Nat /\ i < k /\ k = i + 3
      /\ At(b, i + 1) = esc[2] /\ At(b, i + 2) = esc[3] /\ i < Len(b)
  <2>1. /\ m \in Nat /\ i + m <= Len(b) /\ From(b, i + m, w)
        /\ \A l \in 1 .. m : At(b, i + (l - 1)) = esc[l]
    BY <1>2, FromOnward
  <2>2. /\ 1 \in 1 .. m /\ 2 \in 1 .. m /\ 3 \in 1 .. m
        /\ i + (1 - 1) = i /\ i + (2 - 1) = i + 1 /\ i + (3 - 1) = i + 2
    BY <1>2
  <2>3. At(b, i) = esc[1] /\ At(b, i + 1) = esc[2] /\ At(b, i + 2) = esc[3]
    BY <2>1, <2>2
  <2>4. esc[1] = c
    BY <1>1, EscapeIs DEF IsEscape
  <2>. QED BY <1>1, <1>2, <2>1, <2>3, <2>4
<1>4. Before(b, s, i, c, j, key, v, post)
  BY <1>2, <1>3 DEF Before
<1>5. esc[2] = HexDigit(byte \div 16, ten) /\ esc[3] = HexDigit(byte % 16, ten)
  BY EscapeIs DEF IsEscape
<1>6. u = FormAt(k, k, key, v \o seg \o <<byte>>, post)
  BY <1>1, <1>3, <1>4, <1>5, EscapeTurn
<1>. QED BY <1>1, <1>3, <1>6, Collected

LEMMA TokenTurn ==
    ASSUME NEW b, NEW s, NEW i, NEW j, NEW v, NEW w, NEW key, NEW post,
           NEW V \in Seq(Tokens), NEW t \in 1 .. Len(V), NEW r,
           ValueAt(b, s, i, j, v, r, key, post, V, t - 1),
           w \in Seq(Bytes), r = SentAs(V[t]) \o w, NEW u, u = formStep(b, s)
    PROVE  TokenTaken(b, u, i, w, key, post, V, t)
<1>1. PICK x, n : x = V[t] /\ n = Len(w)
  OBVIOUS
<1>2. x \in Tokens
  BY <1>1
<1>3. CASE x.is = "byte" /\ x.byte \in Ordinary /\ SentAs(x) = <<x.byte>>
  <2>1. PICK c : c = x.byte
    OBVIOUS
  <2>2. IsCat(Bytes, r, <<c>>, 1, w, n)
    BY <1>1, <1>3, <2>1 DEF IsCat, Ordinary
  <2>. QED BY <1>1, <1>3, <2>1, <2>2, ByteTaken
<1>4. CASE x.is = "plus" /\ x.byte = Space /\ SentAs(x) = <<Plus>>
  <2>1. PICK one, m : one = <<Plus>> /\ m = 1
    OBVIOUS
  <2>2. one \in Seq(Bytes) /\ Len(one) = m
    BY <2>1 DEF Plus, Bytes
  <2>3. IsCat(Bytes, r, one, m, w, n)
    BY <1>1, <1>4, <2>1, <2>2 DEF IsCat
  <2>. QED BY <1>1, <1>4, <2>1, <2>3, PlusTaken
<1>5. CASE x.is # "byte" /\ \E ten \in {65, 97} : SentAs(x) = Escape(x.byte, ten)
  <2>1. PICK ten \in {65, 97} : SentAs(x) = Escape(x.byte, ten)
    BY <1>5
  <2>2. PICK byte, esc, m : byte = x.byte /\ esc = SentAs(x) /\ m = 3
    OBVIOUS
  <2>3. byte \in Bytes /\ esc = Escape(byte, ten)
    BY <1>2, <2>1, <2>2, TokenIs
  <2>4. esc \in Seq(Bytes) /\ Len(esc) = m
    BY <2>2, <2>3, EscapeIs
  <2>5. IsCat(Bytes, r, esc, m, w, n)
    BY <1>1, <2>2, <2>4 DEF IsCat
  <2>6. V[t].is # "byte" /\ byte = V[t].byte /\ m = 3
    BY <1>1, <1>5, <2>2
  <2>7. IsEscape(esc, byte, ten)
    BY <2>3 DEF IsEscape
  <2>. QED BY <2>1, <2>3, <2>5, <2>6, <2>7, EscapeTaken
<1>. QED BY <1>2, <1>3, <1>4, <1>5, TokenIs

\* All its tokens.
SentTexts(V) == [k \in DOMAIN V |-> SentAs(V[k])]

LEMMA SentTextsAre ==
    ASSUME NEW V \in Seq(Tokens)
    PROVE  /\ SentTexts(V) \in Seq(Seq(Bytes)) /\ Len(SentTexts(V)) = Len(V)
           /\ \A k \in 1 .. Len(V) : SentTexts(V)[k] = SentAs(V[k])
<1>1. PICK ss, n : ss = SentTexts(V) /\ n = Len(V)
  OBVIOUS
<1>2. n \in Nat /\ DOMAIN V = 1 .. n /\ \A k \in 1 .. n : V[k] \in Tokens
  BY <1>1
<1>3. \A k \in 1 .. n : SentAs(V[k]) \in Seq(Bytes)
  BY <1>2, SentIs
<1>4. ss \in [1 .. n -> Seq(Bytes)] /\ \A k \in 1 .. n : ss[k] = SentAs(V[k])
  BY <1>1, <1>2, <1>3 DEF SentTexts
<1>5. ss \in Seq(Seq(Bytes)) /\ Len(ss) = n
  BY <1>2, <1>4, FunctionIsSeq
<1>. QED BY <1>1, <1>4, <1>5

\* The loop comes to where t tokens have been read.
ComesToToken(after, b, w, key, post, V, t) ==
    \E s, i, j, v : Comes(after, b, s) /\ ValueAt(b, s, i, j, v, w, key, post, V, t)

LEMMA NextToken ==
    ASSUME NEW b \in Seq(Bytes), NEW after, FormLoop(after, b), NEW w, NEW key, NEW post,
           NEW V \in Seq(Tokens), NEW t \in 1 .. Len(V), NEW r, NEW o, o = t - 1,
           ComesToToken(after, b, r, key, post, V, o), w \in Seq(Bytes), r = SentAs(V[t]) \o w
    PROVE  ComesToToken(after, b, w, key, post, V, t)
<1>1. PICK s, i, j, v : Comes(after, b, s) /\ ValueAt(b, s, i, j, v, r, key, post, V, o)
  BY DEF ComesToToken
<1>2. PICK u : u = formStep(b, s)
  OBVIOUS
<1>3. ValueAt(b, s, i, j, v, r, key, post, V, t - 1)
  BY <1>1
<1>4. TokenTaken(b, u, i, w, key, post, V, t)
  BY <1>2, <1>3, TokenTurn
<1>5. PICK k, l, x : ValueAt(b, u, k, l, x, w, key, post, V, t) /\ i < k
  BY <1>4 DEF TokenTaken
<1>6. s.i = i /\ i \in Nat
  <2>1. PICK seg : seg = substr(b, j, i)
    OBVIOUS
  <2>. QED BY <1>1, <2>1, ValueAtIs
<1>7. u.i = k /\ k \in Nat /\ k <= Len(b) /\ Len(b) \in Nat
  <2>1. PICK seg : seg = substr(b, l, k)
    OBVIOUS
  <2>. QED BY <1>5, <2>1, ValueAtIs
<1>8. Comes(after, b, u)
  <2>1. s.i \in Nat /\ u.i \in Nat /\ s.i < Len(b) /\ s.i < u.i
    BY <1>5, <1>6, <1>7
  <2>. QED BY <1>1, <1>2, <2>1, ComesTo
<1>. QED BY <1>5, <1>8 DEF ComesToToken

LEMMA ValueRun ==
    ASSUME NEW b \in Seq(Bytes), NEW after, FormLoop(after, b), NEW w \in Seq(Bytes),
           NEW key, NEW post, NEW V \in Seq(Tokens), NEW flat, flat = FlattenSeq(SentTexts(V)),
           NEW r, r = flat \o w, NEW i, From(b, i, r),
           NEW s, s = FormAt(i, i, key, << >>, post), Comes(after, b, s)
    PROVE  ComesToToken(after, b, w, key, post, V, Len(V))
<1>1. PICK ss, N : ss = SentTexts(V) /\ N = Len(V)
  OBVIOUS
<1>2. /\ ss \in Seq(Seq(Bytes)) /\ Len(ss) = N /\ N \in Nat
      /\ \A k \in 1 .. N : ss[k] = SentAs(V[k])
  BY <1>1, SentTextsAre
<1>3. PICK h : Follows(h, ss, Bytes) /\ h[0] = FlattenSeq(ss)
  BY <1>2, FollowsExist
<1>4. /\ h[N] = << >>
      /\ \A n \in 0 .. N : h[n] \in Seq(Bytes)
      /\ \A n \in 1 .. N : h[n - 1] = ss[n] \o h[n]
  BY <1>2, <1>3 DEF Follows
<1>. DEFINE S == {t \in 0 .. N : ComesToToken(after, b, h[t] \o w, key, post, V, t)}
<1>5. 0 \in S
  <2>1. PICK nil, o : nil = << >> /\ o = 0
    OBVIOUS
  <2>2. i \in Nat /\ b \in Seq(Bytes)
    BY DEF From
  <2>3. nil \o substr(b, i, i) = SubSeq(Spelled(V), 1, o)
    <3>1. substr(b, i, i) = << >>
      BY <2>2, SubstrNothing
    <3>2. SubSeq(Spelled(V), 1, o) = << >>
      BY <2>1, SubSeqEmpty
    <3>3. nil \in Seq(Bytes)
      BY <2>1
    <3>. QED BY <2>1, <3>1, <3>2
  <2>4. ValueAt(b, s, i, i, nil, r, key, post, V, o)
    BY <2>1, <2>2, <2>3 DEF ValueAt
  <2>5. ComesToToken(after, b, r, key, post, V, o)
    BY <2>4 DEF ComesToToken
  <2>6. r = h[o] \o w
    BY <1>1, <1>3, <2>1
  <2>. QED BY <1>2, <2>1, <2>5, <2>6
<1>6. ASSUME NEW n \in 0 .. N - 1, n \in S PROVE n + 1 \in S
  <2>1. PICK t \in 1 .. N : t = n + 1 /\ n = t - 1
    BY <1>2, <1>6
  <2>2. PICK x, y, z, q : x = ss[t] /\ y = h[t] /\ z = y \o w /\ q = h[n] \o w
    OBVIOUS
  <2>3. x \in Seq(Bytes) /\ y \in Seq(Bytes) /\ h[n] = x \o y /\ x = SentAs(V[t])
    <3>1. x \in Seq(Bytes) /\ x = SentAs(V[t])
      BY <1>2, <2>1, <2>2
    <3>2. t \in 0 .. N /\ h[t - 1] = ss[t] \o h[t]
      <4>1. t \in 1 .. N
        BY <2>1
      <4>2. \A m \in 1 .. N : h[m - 1] = ss[m] \o h[m]
        BY <1>4
      <4>3. h[t - 1] = ss[t] \o h[t]
        BY <4>1, <4>2
      <4>. QED BY <1>2, <4>1, <4>3
    <3>3. y \in Seq(Bytes) /\ h[n] = x \o y
      BY <1>4, <2>1, <2>2, <3>2
    <3>. QED BY <3>1, <3>3
  <2>4. z \in Seq(Bytes)
    BY <2>2, <2>3, ConcatProperties
  <2>5. q = x \o z
    <3>1. (x \o y) \o w = x \o (y \o w)
      <4>1. x \in Seq(Bytes) /\ y \in Seq(Bytes) /\ w \in Seq(Bytes)
        BY <2>3
      <4>. QED BY <4>1, ConcatAssociative
    <3>. QED BY <2>2, <2>3, <3>1
  <2>6. ComesToToken(after, b, q, key, post, V, n)
    BY <1>6, <2>2
  <2>7. ComesToToken(after, b, z, key, post, V, t)
    <3>1. t \in 1 .. Len(V) /\ q = SentAs(V[t]) \o z
      BY <1>1, <2>1, <2>3, <2>5
    <3>. QED BY <2>1, <2>4, <2>6, <3>1, NextToken
  <2>. QED BY <1>2, <2>1, <2>2, <2>7
<1>7. N \in S
  <2>1. \A t \in 0 .. N : t \in S
    <3>. HIDE DEF S
    <3>. QED BY <1>2, <1>5, <1>6, Induct
  <2>2. N \in 0 .. N
    BY <1>2
  <2>. HIDE DEF S
  <2>. QED BY <2>1, <2>2
<1>8. h[N] \o w = w
  BY <1>4, ConcatEmptySeq
<1>. QED BY <1>1, <1>7, <1>8

-----------------------------------------------------------------------------
(* A form, field by field.                                                 *)

\* The loop comes to where a key has been read.
ComesToValue(after, b, w, key, post) ==
    \E i, s : Comes(after, b, s) /\ s = FormAt(i, i, key, << >>, post) /\ From(b, i, w)

LEMMA KeyRun ==
    ASSUME NEW b \in Seq(Bytes), NEW after, FormLoop(after, b), NEW w \in Seq(Bytes),
           NEW key \in Seq(Ordinary), key # << >>, NEW post, NEW m, NEW n, NEW q, NEW r,
           q = <<Equals>> \o w, IsCat(Bytes, r, key, m, q, n), NEW i, From(b, i, r),
           NEW nil, nil = << >>, NEW s, s = FormAt(i, i, nil, nil, post), Comes(after, b, s)
    PROVE  ComesToValue(after, b, w, key, post)
<1>1. /\ m \in Nat /\ i \in Nat /\ Len(b) \in Nat /\ i + m <= Len(b) /\ From(b, i + m, q)
      /\ \A k \in 1 .. m : At(b, i + (k - 1)) = key[k]
  <2>1. i \in Nat
    BY DEF From
  <2>. QED BY <2>1, FromOnward
<1>2. m = Len(key) /\ \A k \in 1 .. m : key[k] \in Ordinary
  BY DEF IsCat
<1>3. PICK e : e = i + m
  OBVIOUS
<1>4. PICK d, o, one, eq : d = e + o /\ o = 1 /\ one = <<eq>> /\ eq = Equals
  OBVIOUS
<1>5. From(b, d, w) /\ e < Len(b) /\ At(b, e) = eq /\ e \in Nat /\ d = e + 1 /\ From(b, e, q)
  <2>1. one \in Seq(Bytes) /\ Len(one) = o /\ q = one \o w
    BY <1>4 DEF Equals, Bytes
  <2>2. PICK l : l = Len(w)
    OBVIOUS
  <2>3. IsCat(Bytes, q, one, o, w, l)
    BY <2>1, <2>2 DEF IsCat
  <2>4. From(b, e, q) /\ e \in Nat
    BY <1>1, <1>3
  <2>5. /\ o \in Nat /\ e + o <= Len(b) /\ From(b, e + o, w)
        /\ \A k \in 1 .. o : At(b, e + (k - 1)) = one[k]
    BY <2>3, <2>4, FromOnward
  <2>6. 1 \in 1 .. o /\ e + (1 - 1) = e /\ one[1] = eq
    BY <1>4, <2>4
  <2>7. At(b, e) = eq
    BY <2>5, <2>6
  <2>. QED BY <1>1, <1>4, <2>4, <2>5, <2>7
<1>. DEFINE S == {k \in 0 .. m : Comes(after, b, FormAt(i + k, i, nil, nil, post))}
<1>6. 0 \in S
  BY <1>1
<1>7. ASSUME NEW k \in 0 .. m - 1, k \in S PROVE k + 1 \in S
  <2>1. PICK x, y, z : x = i + k /\ y = x + 1 /\ z = k + 1
    OBVIOUS
  <2>2. /\ x \in Nat /\ y \in Nat /\ x < Len(b) /\ x < y /\ z \in 1 .. m
        /\ y = i + z /\ z - 1 = k /\ z \in 0 .. m
    BY <1>1, <2>1
  <2>3. PICK c, t, u : c = key[z] /\ t = FormAt(x, i, nil, nil, post) /\ u = formStep(b, t)
    OBVIOUS
  <2>4. c \in Ordinary /\ At(b, x) = c
    <3>1. At(b, i + (z - 1)) = key[z]
      BY <1>1, <2>2
    <3>. QED BY <1>2, <2>1, <2>2, <2>3, <3>1
  <2>5. Before(b, t, x, c, i, nil, nil, post)
    BY <2>2, <2>3, <2>4 DEF Before
  <2>6. u = FormAt(y, i, nil, nil, post)
    BY <2>1, <2>3, <2>4, <2>5, OrdinaryTurn
  <2>7. t.i = x /\ u.i = y
    BY <2>3, <2>6 DEF FormAt
  <2>8. Comes(after, b, t)
    BY <1>7, <2>1, <2>3
  <2>9. Comes(after, b, u)
    BY <2>2, <2>3, <2>7, <2>8, ComesTo
  <2>. QED BY <2>1, <2>2, <2>6, <2>9
<1>8. Comes(after, b, FormAt(e, i, nil, nil, post))
  <2>1. \A k \in 0 .. m : k \in S
    <3>. HIDE DEF S
    <3>. QED BY <1>1, <1>6, <1>7, Induct
  <2>2. m \in 0 .. m
    BY <1>1
  <2>3. m \in S
    <3>. HIDE DEF S
    <3>. QED BY <2>1, <2>2
  <2>. QED BY <1>3, <2>3
<1>9. PICK t, u, seg : t = FormAt(e, i, nil, nil, post) /\ u = formStep(b, t) /\ seg = substr(b, i, e)
  OBVIOUS
<1>10. seg = key
  BY <1>3, <1>9, SubstrOfFrom
<1>11. Before(b, t, e, eq, i, nil, nil, post)
  BY <1>5, <1>9 DEF Before
<1>12. u = FormAt(d, d, key, nil, post)
  <2>1. formStep(b, t) = FormAt(e + 1, e + 1, seg, nil, post)
    <3>1. seg = substr(b, i, e) /\ seg # << >> /\ eq = Equals
      BY <1>4, <1>9, <1>10
    <3>. QED BY <1>11, <3>1, EqualsTurn
  <2>. QED BY <1>5, <1>9, <1>10, <2>1
<1>13. Comes(after, b, u)
  <2>1. t.i = e /\ u.i = d
    BY <1>9, <1>12 DEF FormAt
  <2>2. t.i \in Nat /\ u.i \in Nat /\ t.i < Len(b) /\ t.i < u.i
    BY <1>5, <2>1
  <2>3. Comes(after, b, t)
    BY <1>8, <1>9
  <2>. QED BY <1>9, <2>2, <2>3, ComesTo
<1>. QED BY <1>5, <1>12, <1>13 DEF ComesToValue

\* The body of a form: its fields, and what stands between them.
FieldText(p) == p.key \o <<Equals>> \o FlattenSeq(SentTexts(p.value))

\* What follows the key of p in its field, with w behind it.
Behind(p, w, flat, x, q) ==
    flat = FlattenSeq(SentTexts(p.value)) /\ x = flat \o w /\ q = <<Equals>> \o x

InParts(p, w, flat, x, q) ==
    /\ p.key \in Seq(Ordinary) /\ p.key # << >> /\ p.value \in Seq(Tokens)
    /\ flat \in Seq(Bytes) /\ x \in Seq(Bytes) /\ q \in Seq(Bytes)
    /\ FieldText(p) \in Seq(Bytes) /\ FieldText(p) \o w = p.key \o q

LEMMA FieldIs ==
    ASSUME NEW p \in Pairs, NEW w \in Seq(Bytes), NEW flat, NEW x, NEW q,
           Behind(p, w, flat, x, q)
    PROVE  InParts(p, w, flat, x, q)
<1>1. p.key \in Seq(Ordinary) /\ p.key # << >> /\ p.value \in Seq(Tokens)
  BY DEF Pairs
<1>0. flat = FlattenSeq(SentTexts(p.value)) /\ x = flat \o w /\ q = <<Equals>> \o x
  BY DEF Behind
<1>2. flat \in Seq(Bytes)
  <2>1. PICK ss, N : ss = SentTexts(p.value) /\ N = Len(ss)
    OBVIOUS
  <2>2. ss \in Seq(Seq(Bytes)) /\ N \in Nat
    BY <1>1, <2>1, SentTextsAre
  <2>3. PICK h : Follows(h, ss, Bytes) /\ h[0] = FlattenSeq(ss)
    BY <2>2, FollowsExist
  <2>4. 0 \in 0 .. Len(ss)
    BY <2>1, <2>2
  <2>. QED BY <1>0, <2>1, <2>3, <2>4 DEF Follows
<1>3. PICK k, one : k = p.key /\ one = <<Equals>>
  OBVIOUS
<1>4. k \in Seq(Bytes) /\ one \in Seq(Bytes)
  <2>1. Ordinary \subseteq Bytes
    BY DEF Ordinary
  <2>2. k \in Seq(Bytes)
    BY <1>1, <1>3, <2>1, SeqMonotonic
  <2>. QED BY <1>3, <2>2 DEF Equals, Bytes
<1>5. x \in Seq(Bytes)
  BY <1>0, <1>2, ConcatProperties
<1>6. q \in Seq(Bytes)
  <2>1. one \o x \in Seq(Bytes)
    BY <1>4, <1>5, ConcatProperties
  <2>. QED BY <1>0, <1>3, <2>1
<1>7. PICK a : a = k \o one
  OBVIOUS
<1>8. a \in Seq(Bytes)
  BY <1>4, <1>7, ConcatProperties
<1>9. FieldText(p) = a \o flat
  BY <1>0, <1>3, <1>7 DEF FieldText
<1>10. FieldText(p) \in Seq(Bytes)
  <2>1. a \o flat \in Seq(Bytes)
    BY <1>2, <1>8, ConcatProperties
  <2>. QED BY <1>9, <2>1
<1>11. (a \o flat) \o w = a \o (flat \o w)
  <2>1. a \in Seq(Bytes) /\ flat \in Seq(Bytes) /\ w \in Seq(Bytes)
    BY <1>2, <1>8
  <2>. QED BY <2>1, ConcatAssociative
<1>12. (k \o one) \o x = k \o (one \o x)
  <2>1. k \in Seq(Bytes) /\ one \in Seq(Bytes) /\ x \in Seq(Bytes)
    BY <1>4, <1>5
  <2>. QED BY <2>1, ConcatAssociative
<1>13. FieldText(p) \o w = p.key \o q
  BY <1>0, <1>3, <1>7, <1>9, <1>11, <1>12
<1>. QED BY <1>1, <1>2, <1>5, <1>6, <1>10, <1>13 DEF InParts

\* The loop comes from the beginning of a field to its end.
LEMMA FieldRun ==
    ASSUME NEW b \in Seq(Bytes), NEW after, FormLoop(after, b), NEW w \in Seq(Bytes),
           NEW p \in Pairs, NEW post, NEW r, r = FieldText(p) \o w, NEW i, From(b, i, r),
           NEW nil, nil = << >>, NEW s, s = FormAt(i, i, nil, nil, post), Comes(after, b, s)
    PROVE  ComesToToken(after, b, w, p.key, post, p.value, Len(p.value))
<1>1. PICK key, V, flat : key = p.key /\ V = p.value /\ flat = FlattenSeq(SentTexts(V))
  OBVIOUS
<1>2. PICK x, q : x = flat \o w /\ q = <<Equals>> \o x
  OBVIOUS
<1>3. /\ key \in Seq(Ordinary) /\ key # << >> /\ V \in Seq(Tokens)
      /\ flat \in Seq(Bytes) /\ x \in Seq(Bytes) /\ q \in Seq(Bytes) /\ r = key \o q
  <2>1. Behind(p, w, flat, x, q)
    BY <1>1, <1>2 DEF Behind
  <2>2. InParts(p, w, flat, x, q)
    BY <2>1, FieldIs
  <2>. QED BY <1>1, <2>2 DEF InParts
<1>4. PICK m, n : m = Len(key) /\ n = Len(q)
  OBVIOUS
<1>5. IsCat(Bytes, r, key, m, q, n)
  <2>1. Ordinary \subseteq Bytes
    BY DEF Ordinary
  <2>2. key \in Seq(Bytes)
    BY <1>3, <2>1, SeqMonotonic
  <2>. QED BY <1>3, <1>4, <2>2 DEF IsCat
<1>6. ComesToValue(after, b, x, key, post)
  BY <1>2, <1>3, <1>5, KeyRun
<1>7. PICK k, t : Comes(after, b, t) /\ t = FormAt(k, k, key, << >>, post) /\ From(b, k, x)
  BY <1>6 DEF ComesToValue
<1>8. ComesToToken(after, b, w, key, post, V, Len(V))
  BY <1>1, <1>2, <1>3, <1>7, ValueRun
<1>. QED BY <1>1, <1>8

\* Where the loop is at the end of a value that ends in an ordinary byte.
AtValueEnd(b, s, i, j, v, seg, w, key, post, V) ==
    /\ s = FormAt(i, j, key, v, post) /\ From(b, i, w) /\ seg = substr(b, j, i)
    /\ j \in Nat /\ j < i /\ seg # << >> /\ v \o seg = Spelled(V)

LEMMA ValueEnd ==
    ASSUME NEW b \in Seq(Bytes), NEW after, NEW w, NEW key, NEW post, NEW V \in Seq(Tokens),
           NEW n, n = Len(V), V # << >>, V[n].is = "byte",
           ComesToToken(after, b, w, key, post, V, n)
    PROVE  \E s, i, j, v, seg : Comes(after, b, s) /\ AtValueEnd(b, s, i, j, v, seg, w, key, post, V)
<1>1. PICK s, i, j, v : Comes(after, b, s) /\ ValueAt(b, s, i, j, v, w, key, post, V, n)
  BY DEF ComesToToken
<1>2. PICK seg : seg = substr(b, j, i)
  OBVIOUS
<1>3. /\ s = FormAt(i, j, key, v, post) /\ From(b, i, w) /\ Have(v, seg, V, n)
      /\ Len(seg) = i - j /\ i \in Nat /\ j \in Nat
  BY <1>1, <1>2, ValueAtIs
<1>4. n \in Nat /\ n # 0
  OBVIOUS
<1>5. j < i
  BY <1>1, <1>4 DEF ValueAt
<1>6. seg # << >>
  <2>1. Len(seg) # 0
    BY <1>3, <1>5
  <2>. QED BY <2>1
<1>7. SubSeq(Spelled(V), 1, n) = Spelled(V)
  <2>1. PICK d : d = Spelled(V)
    OBVIOUS
  <2>2. \A k \in 1 .. n : V[k] \in Tokens
    OBVIOUS
  <2>3. \A k \in 1 .. n : V[k].byte \in Bytes
    BY <2>2, TokenIs
  <2>4. d \in [1 .. n -> Bytes]
    BY <2>1, <2>3 DEF Spelled
  <2>5. d \in Seq(Bytes) /\ Len(d) = n
    BY <1>4, <2>4, FunctionIsSeq
  <2>. QED BY <2>1, <2>5, SubSeqFull
<1>8. v \o seg = Spelled(V)
  BY <1>3, <1>7 DEF Have
<1>9. AtValueEnd(b, s, i, j, v, seg, w, key, post, V)
  BY <1>2, <1>3, <1>5, <1>6, <1>8 DEF AtValueEnd
<1>. QED BY <1>1, <1>9

\* The loop comes to the beginning of a field.
ComesToField(after, b, w, post) ==
    \E i, s : Comes(after, b, s) /\ s = FormAt(i, i, << >>, << >>, post) /\ From(b, i, w)

LEMMA FieldEnd ==
    ASSUME NEW b \in Seq(Bytes), NEW after, FormLoop(after, b), NEW w \in Seq(Bytes),
           NEW key, key # << >>, NEW post, NEW V \in Seq(Tokens),
           NEW n, n = Len(V), V # << >>, V[n].is = "byte",
           NEW r, r = <<Ampersand>> \o w, ComesToToken(after, b, r, key, post, V, n)
    PROVE  ComesToField(after, b, w, Stored(post, key, Spelled(V)))
<1>1. PICK s, i, j, v, seg : /\ Comes(after, b, s)
                             /\ AtValueEnd(b, s, i, j, v, seg, r, key, post, V)
  BY ValueEnd
<1>2. /\ s = FormAt(i, j, key, v, post) /\ From(b, i, r) /\ seg = substr(b, j, i)
      /\ j < i /\ seg # << >> /\ v \o seg = Spelled(V)
  BY <1>1 DEF AtValueEnd
<1>3. PICK c, one, o, l, e : c = Ampersand /\ one = <<c>> /\ o = 1 /\ l = Len(w) /\ e = i + o
  OBVIOUS
<1>4. IsCat(Bytes, r, one, o, w, l)
  <2>1. one \in Seq(Bytes) /\ Len(one) = o /\ r = one \o w
    BY <1>3 DEF Ampersand, Bytes
  <2>. QED BY <1>3, <2>1 DEF IsCat
<1>5. From(b, e, w) /\ i \in Nat /\ i < Len(b) /\ At(b, i) = c /\ e = i + 1
  <2>1. i \in Nat
    BY <1>2 DEF From
  <2>2. /\ i + o <= Len(b) /\ From(b, i + o, w) /\ Len(b) \in Nat
        /\ \A k \in 1 .. o : At(b, i + (k - 1)) = one[k]
    BY <1>2, <1>4, FromOnward
  <2>3. 1 \in 1 .. o /\ i + (1 - 1) = i /\ one[1] = c
    BY <1>3, <2>1
  <2>4. At(b, i) = c
    BY <2>2, <2>3
  <2>. QED BY <1>3, <2>1, <2>2, <2>4
<1>6. PICK u : u = formStep(b, s)
  OBVIOUS
<1>7. Before(b, s, i, c, j, key, v, post)
  BY <1>2, <1>5 DEF Before
<1>8. u = FormAt(e, e, << >>, << >>, Stored(post, key, v \o seg))
  <2>1. c = Ampersand /\ seg = substr(b, j, i) /\ seg # << >>
    BY <1>2, <1>3
  <2>2. formStep(b, s) = FormAt(i + 1, i + 1, << >>, << >>, Stored(post, key, v \o seg))
    BY <1>7, <2>1, AmpersandTurn
  <2>. QED BY <1>5, <1>6, <2>2
<1>9. Comes(after, b, u)
  <2>1. s.i = i /\ u.i = e
    BY <1>2, <1>8 DEF FormAt
  <2>2. s.i \in Nat /\ u.i \in Nat /\ s.i < Len(b) /\ s.i < u.i
    BY <1>5, <2>1
  <2>. QED BY <1>1, <1>6, <2>2, ComesTo
<1>. QED BY <1>2, <1>5, <1>8, <1>9 DEF ComesToField

LEMMA FormEnd ==
    ASSUME NEW b \in Seq(Bytes), NEW after, FormLoop(after, b), NEW w, w = << >>,
           NEW key, key # << >>, NEW post, NEW V \in Seq(Tokens),
           NEW n, n = Len(V), V # << >>, V[n].is = "byte",
           ComesToToken(after, b, w, key, post, V, n)
    PROVE  ParseFromUrlencoded_(b) = Stored(post, key, Spelled(V))
<1>1. PICK s, i, j, v, seg : /\ Comes(after, b, s)
                             /\ AtValueEnd(b, s, i, j, v, seg, w, key, post, V)
  BY ValueEnd
<1>2. /\ s = FormAt(i, j, key, v, post) /\ From(b, i, w) /\ seg = substr(b, j, i)
      /\ j < i /\ v \o seg = Spelled(V)
  BY <1>1 DEF AtValueEnd
<1>3. s.i = i /\ s.j = j /\ s.key = key /\ s.value = v /\ s.post = post
  BY <1>2 DEF FormAt
<1>4. i = Len(b)
  BY <1>2 DEF From
<1>5. formLoop(b) = s
  BY <1>1, <1>3, <1>4, ComesToEnd
<1>6. s.key # << >> /\ s.j < Len(b)
  BY <1>2, <1>3, <1>4
<1>7. ParseFromUrlencoded_(b) = Stored(s.post, s.key, s.value \o substr(b, s.j, Len(b)))
  BY <1>5, <1>6 DEF ParseFromUrlencoded_
<1>8. s.value \o substr(b, s.j, Len(b)) = Spelled(V)
  BY <1>2, <1>3, <1>4
<1>. QED BY <1>3, <1>7, <1>8

\* first[n] is what the first n fields of a content mean.
FirstFields(first, c, N) ==
    first = [n \in 0 .. N |-> IF n = 0 THEN NoFields
                              ELSE Stored(first[n - 1], Named(c, c.fields[n]), Meant(c, c.fields[n]))]

LEMMA FirstFieldsExist ==
    ASSUME NEW c, NEW N \in Nat PROVE \E first : FirstFields(first, c, N)
<1>. DEFINE Next_(f, n) == Stored(f[n - 1], Named(c, c.fields[n]), Meant(c, c.fields[n]))
            S == {k \in 0 .. N : \E f : FirstFields(f, c, k)}
<1>1. 0 \in S
  <2>. DEFINE f == [n \in 0 .. 0 |-> NoFields]
  <2>1. f = [n \in 0 .. 0 |-> IF n = 0 THEN NoFields ELSE Next_(f, n)]
    OBVIOUS
  <2>2. FirstFields(f, c, 0)
    BY <2>1 DEF FirstFields
  <2>. HIDE DEF f
  <2>. QED BY <2>2
<1>2. ASSUME NEW k \in 0 .. N - 1, k \in S PROVE k + 1 \in S
  <2>1. PICK f : FirstFields(f, c, k)
    BY <1>2
  <2>2. PICK l \in 1 .. N : l = k + 1 /\ l - 1 = k
    BY <1>2
  <2>. DEFINE g == [n \in 0 .. l |-> IF n = 0 THEN NoFields ELSE Next_(f, n)]
  <2>3. \A n \in 0 .. k : f[n] = IF n = 0 THEN NoFields ELSE Next_(f, n)
    BY <2>1 DEF FirstFields
  <2>4. ASSUME NEW n \in 0 .. k PROVE g[n] = f[n]
    <3>1. n \in 0 .. l
      BY <2>2
    <3>2. g[n] = IF n = 0 THEN NoFields ELSE Next_(f, n)
      BY <3>1, Zenon
    <3>3. f[n] = IF n = 0 THEN NoFields ELSE Next_(f, n)
      BY <2>3
    <3>. QED BY <3>2, <3>3, Zenon
  <2>5. ASSUME NEW n \in 0 .. l, n # 0 PROVE Next_(f, n) = Next_(g, n)
    <3>1. n - 1 \in 0 .. k
      BY <2>2, <2>5
    <3>2. g[n - 1] = f[n - 1]
      BY <2>4, <3>1
    <3>. HIDE DEF g
    <3>. QED BY <3>2
  <2>. DEFINE h == [n \in 0 .. l |-> IF n = 0 THEN NoFields ELSE Next_(g, n)]
  <2>6. g = h
    BY <2>5
  <2>7. FirstFields(g, c, l)
    BY <2>6 DEF FirstFields
  <2>. QED BY <2>2, <2>7
<1>3. \A k \in 0 .. N : k \in S
  <2>. HIDE DEF S
  <2>. QED BY <1>1, <1>2, Induct
<1>. QED BY <1>3

LEMMA FieldsAre ==
    ASSUME NEW c, NEW N \in Nat, N = Len(c.fields)
    PROVE  \E first : /\ Fields(c) = first[N] /\ first[0] = NoFields
                      /\ \A n \in 1 .. N : first[n] = Stored(first[n - 1], Named(c, c.fields[n]),
                                                             Meant(c, c.fields[n]))
<1>. DEFINE first == CHOOSE f : FirstFields(f, c, N)
<1>1. FirstFields(first, c, N)
  BY FirstFieldsExist
<1>2. Fields(c) = first[N]
  BY Zenon DEF Fields, FirstFields
<1>. HIDE DEF first
<1>3. first[0] = NoFields
  BY <1>1 DEF FirstFields
<1>4. ASSUME NEW n \in 1 .. N
      PROVE  first[n] = Stored(first[n - 1], Named(c, c.fields[n]), Meant(c, c.fields[n]))
  <2>1. n \in 0 .. N /\ n # 0
    OBVIOUS
  <2>. QED BY <1>1, <2>1 DEF FirstFields
<1>. QED BY <1>2, <1>3, <1>4

-----------------------------------------------------------------------------
(* The whole form.                                                         *)

\* The fields of a form, each but the first behind an ampersand.
Linked(f) ==
    [k \in DOMAIN f |-> IF k = 1 THEN FieldText(f[k]) ELSE <<Ampersand>> \o FieldText(f[k])]

LEMMA FormBodyIs ==
    ASSUME NEW f \in Seq(Pairs), NEW N, N = Len(f), NEW ss, ss = Linked(f)
    PROVE  /\ FormBody(f) = FlattenSeq(ss) /\ N \in Nat
           /\ ss \in Seq(Seq(Bytes)) /\ Len(ss) = N
           /\ \A k \in 1 .. N : f[k] \in Pairs /\ FieldText(f[k]) \in Seq(Bytes)
<1>1. N \in Nat /\ DOMAIN f = 1 .. N /\ \A k \in 1 .. N : f[k] \in Pairs
  OBVIOUS
<1>2. ASSUME NEW k \in 1 .. N PROVE FieldText(f[k]) \in Seq(Bytes)
  <2>1. PICK p, w, flat, x, q : /\ p = f[k] /\ w = << >> /\ flat = FlattenSeq(SentTexts(p.value))
                                /\ x = flat \o w /\ q = <<Equals>> \o x
    OBVIOUS
  <2>2. Behind(p, w, flat, x, q) /\ p \in Pairs /\ w \in Seq(Bytes)
    BY <1>1, <2>1 DEF Behind
  <2>3. InParts(p, w, flat, x, q)
    BY <2>2, FieldIs
  <2>. QED BY <2>1, <2>3 DEF InParts
<1>3. ASSUME NEW k \in 1 .. N PROVE ss[k] \in Seq(Bytes)
  <2>1. PICK x, one : x = FieldText(f[k]) /\ one = <<Ampersand>>
    OBVIOUS
  <2>2. x \in Seq(Bytes) /\ one \in Seq(Bytes)
    BY <1>2, <2>1 DEF Ampersand, Bytes
  <2>3. one \o x \in Seq(Bytes)
    BY <2>2, ConcatProperties
  <2>4. ss[k] = IF k = 1 THEN x ELSE one \o x
    BY <1>1, <2>1 DEF Linked
  <2>. QED BY <2>2, <2>3, <2>4
<1>4. ss \in [1 .. N -> Seq(Bytes)]
  BY <1>1, <1>3 DEF Linked
<1>5. ss \in Seq(Seq(Bytes)) /\ Len(ss) = N
  BY <1>1, <1>4, FunctionIsSeq
<1>6. FormBody(f) = FlattenSeq(ss)
  <2>. DEFINE ts == [k \in DOMAIN f |-> FieldText(f[k])]
  <2>1. FormBody(f) = Joined(ts, <<Ampersand>>)
    BY DEF FormBody, FieldText, SentTexts
  <2>2. [k \in DOMAIN ts |-> IF k = 1 THEN ts[k] ELSE <<Ampersand>> \o ts[k]] = ss
    BY DEF Linked
  <2>. HIDE DEF ts
  <2>. QED BY <2>1, <2>2 DEF Joined
<1>. QED BY <1>1, <1>2, <1>5, <1>6

\* The content of a form whose values all end in ordinary bytes.
IsForm(c) == c.type = "form" /\ c.fields \in Seq(Pairs) /\ EndsInBytes(c)

LEMMA EndsAre ==
    ASSUME NEW c, IsForm(c), NEW k \in 1 .. Len(c.fields), NEW p, p = c.fields[k],
           NEW V, V = p.value, NEW n, n = Len(V)
    PROVE  /\ p \in Pairs /\ V \in Seq(Tokens) /\ V # << >> /\ V[n].is = "byte"
           /\ p.key # << >> /\ Named(c, p) = p.key /\ Meant(c, p) = Spelled(V)
<1>1. c.type = "form" /\ c.fields \in Seq(Pairs) /\ EndsInBytes(c)
  BY DEF IsForm
<1>2. p \in Pairs /\ k \in DOMAIN c.fields
  BY <1>1
<1>3. V \in Seq(Tokens) /\ p.key # << >>
  BY <1>2 DEF Pairs
<1>4. V # << >> /\ Last(V).is = "byte"
  BY <1>1, <1>2 DEF EndsInBytes
<1>. QED BY <1>1, <1>2, <1>3, <1>4 DEF Last, Meant, Named

\* The loop has read the first n fields but not stored the last of them.
ComesToFieldEnd(after, b, w, p, post) ==
    ComesToToken(after, b, w, p.key, post, p.value, Len(p.value))

LEMMA FormRun ==
    ASSUME NEW c, IsForm(c), NEW b, b = Body(c)
    PROVE  ParseFromUrlencoded_(b) = Fields(c)
<1>1. PICK f, N, ss : f = c.fields /\ N = Len(f) /\ ss = Linked(f)
  OBVIOUS
<1>2. c.type = "form" /\ f \in Seq(Pairs)
  BY <1>1 DEF IsForm
<1>3. /\ b = FlattenSeq(ss) /\ N \in Nat /\ DOMAIN f = 1 .. N
      /\ ss \in Seq(Seq(Bytes)) /\ Len(ss) = N
      /\ \A k \in 1 .. N : f[k] \in Pairs /\ FieldText(f[k]) \in Seq(Bytes)
  <2>1. b = FormBody(f)
    BY <1>1, <1>2 DEF Body
  <2>2. /\ FormBody(f) = FlattenSeq(ss) /\ N \in Nat
        /\ ss \in Seq(Seq(Bytes)) /\ Len(ss) = N
        /\ \A k \in 1 .. N : f[k] \in Pairs /\ FieldText(f[k]) \in Seq(Bytes)
    BY <1>1, <1>2, FormBodyIs
  <2>3. DOMAIN f = 1 .. N
    BY <1>1, <1>2
  <2>. QED BY <2>1, <2>2, <2>3
<1>4. PICK g : Follows(g, ss, Bytes) /\ g[0] = b
  BY <1>3, FollowsExist
<1>5. /\ g[N] = << >>
      /\ \A n \in 0 .. N : g[n] \in Seq(Bytes)
      /\ \A n \in 1 .. N : g[n - 1] = ss[n] \o g[n]
  BY <1>3, <1>4 DEF Follows
<1>6. b \in Seq(Bytes) /\ From(b, 0, b)
  <2>1. 0 \in 0 .. N
    BY <1>3
  <2>2. b \in Seq(Bytes)
    BY <1>4, <1>5, <2>1
  <2>. QED BY <2>2, FromStart
<1>7. PICK after : FormLoop(after, b)
  BY <1>6, FormLoopIs
<1>8. PICK first : /\ Fields(c) = first[N] /\ first[0] = NoFields
                   /\ \A n \in 1 .. N : first[n] = Stored(first[n - 1], Named(c, f[n]), Meant(c, f[n]))
  <2>1. N \in Nat /\ N = Len(c.fields)
    BY <1>1, <1>3
  <2>2. PICK first : /\ Fields(c) = first[N] /\ first[0] = NoFields
                     /\ \A n \in 1 .. N : first[n] = Stored(first[n - 1], Named(c, c.fields[n]),
                                                            Meant(c, c.fields[n]))
    BY <2>1, FieldsAre
  <2>. QED BY <1>1, <2>2
<1>9. Comes(after, b, FormBegin)
  <2>1. FormBegin.i = 0 /\ 0 \in 0 .. Len(b)
    BY <1>6 DEF FormBegin, FormAt
  <2>. QED BY <1>7, <2>1 DEF Comes, FormLoop
<1>10. CASE N = 0
  <2>1. Len(b) = 0
    BY <1>4, <1>5, <1>10
  <2>2. formLoop(b) = FormBegin
    <3>1. FormBegin.i = Len(b)
      BY <2>1 DEF FormBegin, FormAt
    <3>. QED BY <1>6, <1>7, <1>9, <3>1, ComesToEnd
  <2>3. FormBegin.key = << >> /\ FormBegin.post = NoFields
    BY DEF FormBegin, FormAt
  <2>4. ParseFromUrlencoded_(b) = NoFields
    BY <2>2, <2>3 DEF ParseFromUrlencoded_
  <2>. QED BY <1>8, <1>10, <2>4
<1>11. CASE N # 0
  <2>. DEFINE S == {n \in 0 .. N : n # 0 => ComesToFieldEnd(after, b, g[n], f[n], first[n - 1])}
  <2>1. 0 \in S
    BY <1>3
  <2>2. ASSUME NEW n \in 0 .. N - 1, n \in S PROVE n + 1 \in S
    <3>1. PICK m \in 1 .. N : m = n + 1 /\ m - 1 = n
      BY <1>3, <2>2
    <3>2. PICK p, x, w, y, r : p = f[m] /\ x = FieldText(p) /\ w = g[m] /\ y = x \o w /\ r = g[n]
      OBVIOUS
    <3>3. p \in Pairs /\ x \in Seq(Bytes) /\ w \in Seq(Bytes)
      <4>1. m \in 0 .. N /\ m \in 1 .. N
        BY <1>3, <3>1
      <4>. QED BY <1>3, <1>5, <3>2, <4>1
    <3>4. y \in Seq(Bytes)
      BY <3>2, <3>3, ConcatProperties
    <3>5. r = (IF m = 1 THEN x ELSE <<Ampersand>> \o x) \o w
      <4>1. m \in 1 .. N
        BY <3>1
      <4>2. g[m - 1] = ss[m] \o g[m]
        BY <1>5, <4>1
      <4>3. ss[m] = IF m = 1 THEN x ELSE <<Ampersand>> \o x
        BY <1>1, <1>3, <3>2, <4>1 DEF Linked
      <4>. QED BY <3>1, <3>2, <4>2, <4>3
    <3>6. ComesToField(after, b, y, first[n])
      <4>1. CASE n = 0
        <5>1. y = b
          <6>1. m = 1
            BY <3>1, <4>1
          <6>2. r = y
            BY <3>2, <3>5, <6>1
          <6>3. g[n] = b
            BY <1>4, <4>1
          <6>. QED BY <3>2, <6>2, <6>3
        <5>2. first[n] = NoFields
          BY <1>8, <4>1
        <5>3. PICK i : i = 0
          OBVIOUS
        <5>4. FormBegin = FormAt(i, i, << >>, << >>, first[n])
          BY <5>2, <5>3 DEF FormBegin
        <5>. QED BY <1>6, <1>9, <5>1, <5>3, <5>4 DEF ComesToField
      <4>2. CASE n # 0
        <5>1. n \in 1 .. N /\ n \in 1 .. Len(c.fields)
          BY <1>1, <1>3, <4>2
        <5>2. PICK o, V, l, post : o = f[n] /\ V = o.value /\ l = Len(V) /\ post = first[n - 1]
          OBVIOUS
        <5>3. /\ V \in Seq(Tokens) /\ V # << >> /\ V[l].is = "byte"
              /\ o.key # << >> /\ Named(c, o) = o.key /\ Meant(c, o) = Spelled(V)
          <6>1. o = c.fields[n]
            BY <1>1, <5>2
          <6>. QED BY <5>1, <5>2, <6>1, EndsAre
        <5>4. first[n] = Stored(post, o.key, Spelled(V))
          BY <1>8, <5>1, <5>2, <5>3
        <5>5. r = <<Ampersand>> \o y
          <6>1. PICK one : one = <<Ampersand>>
            OBVIOUS
          <6>2. one \in Seq(Bytes) /\ x \in Seq(Bytes) /\ w \in Seq(Bytes)
            BY <3>3, <6>1 DEF Ampersand, Bytes
          <6>3. (one \o x) \o w = one \o (x \o w)
            BY <6>2, ConcatAssociative
          <6>4. m # 1
            BY <3>1, <4>2
          <6>. QED BY <3>2, <3>5, <6>1, <6>3, <6>4
        <5>6. ComesToFieldEnd(after, b, r, o, post)
          BY <2>2, <3>2, <4>2, <5>2
        <5>7. ComesToToken(after, b, r, o.key, post, V, l)
          BY <5>2, <5>6 DEF ComesToFieldEnd
        <5>8. PICK key : key = o.key
          OBVIOUS
        <5>9. ComesToField(after, b, y, Stored(post, key, Spelled(V)))
          <6>1. ComesToToken(after, b, r, key, post, V, l) /\ key # << >>
            BY <5>3, <5>7, <5>8
          <6>. QED BY <1>6, <1>7, <3>4, <5>2, <5>3, <5>5, <6>1, FieldEnd
        <5>. QED BY <5>4, <5>8, <5>9
      <4>. QED BY <4>1, <4>2
    <3>7. ComesToFieldEnd(after, b, w, p, first[n])
      <4>1. PICK i, s : /\ Comes(after, b, s) /\ s = FormAt(i, i, << >>, << >>, first[n])
                        /\ From(b, i, y)
        BY <3>6 DEF ComesToField
      <4>2. PICK post : post = first[n]
        OBVIOUS
      <4>3. ComesToToken(after, b, w, p.key, post, p.value, Len(p.value))
        BY <1>6, <1>7, <3>2, <3>3, <4>1, <4>2, FieldRun
      <4>. QED BY <4>2, <4>3 DEF ComesToFieldEnd
    <3>. QED BY <1>3, <3>1, <3>2, <3>7
  <2>3. N \in S
    <3>1. \A n \in 0 .. N : n \in S
      <4>. HIDE DEF S
      <4>. QED BY <1>3, <2>1, <2>2, Induct
    <3>2. N \in 0 .. N
      BY <1>3
    <3>. HIDE DEF S
    <3>. QED BY <3>1, <3>2
  <2>4. ComesToFieldEnd(after, b, g[N], f[N], first[N - 1])
    BY <1>11, <2>3
  <2>5. PICK p, V, n, post, w, key : /\ p = f[N] /\ V = p.value /\ n = Len(V) /\ post = first[N - 1]
                                     /\ w = g[N] /\ key = p.key
    OBVIOUS
  <2>6. N \in 1 .. N /\ N \in 1 .. Len(c.fields)
    BY <1>1, <1>3, <1>11
  <2>7. /\ V \in Seq(Tokens) /\ V # << >> /\ V[n].is = "byte"
        /\ p.key # << >> /\ Named(c, p) = p.key /\ Meant(c, p) = Spelled(V)
    <3>1. p = c.fields[N]
      BY <1>1, <2>5
    <3>. QED BY <2>5, <2>6, <3>1, EndsAre
  <2>8. ComesToToken(after, b, w, key, post, V, n) /\ w = << >> /\ key # << >>
    BY <1>5, <2>4, <2>5, <2>7 DEF ComesToFieldEnd
  <2>9. ParseFromUrlencoded_(b) = Stored(post, key, Spelled(V))
    BY <1>6, <1>7, <2>5, <2>7, <2>8, FormEnd
  <2>10. first[N] = Stored(post, key, Spelled(V))
    BY <1>8, <2>5, <2>6, <2>7
  <2>. QED BY <1>8, <2>9, <2>10
<1>. QED BY <1>10, <1>11

-----------------------------------------------------------------------------
(* How the JSON decoder scans.                                             *)

\* n is m and x, and q is x and r.
Laps(n, m, x, q, r) ==
    m \in Seq(Bytes) /\ x \in Seq(Bytes) /\ r \in Seq(Bytes) /\ n = m \o x /\ q = x \o r

LEMMA Reassociate ==
    ASSUME NEW n, NEW m, NEW x, NEW q, NEW r, Laps(n, m, x, q, r)
    PROVE  n \o r = m \o q /\ q \in Seq(Bytes)
<1>1. m \in Seq(Bytes) /\ x \in Seq(Bytes) /\ r \in Seq(Bytes) /\ n = m \o x /\ q = x \o r
  BY DEF Laps
<1>2. (m \o x) \o r = m \o (x \o r)
  BY <1>1, ConcatAssociative
<1>. QED BY <1>1, <1>2, ConcatProperties

\* Of the bytes u in front of v none is in S, but the first of v is.
RunsUp(b, i, r, u, m, v, n, S) ==
    /\ From(b, i, r) /\ IsCat(Bytes, r, u, m, v, n) /\ v # << >>
    /\ (\A k \in 1 .. m : u[k] \notin S) /\ v[1] \in S

\* v stands at e, behind the m bytes of u at i.
Lands(b, i, u, m, v, e) ==
    /\ i \in Nat /\ m \in Nat /\ e \in Nat /\ Len(b) \in Nat /\ e = i + m
    /\ e < Len(b) /\ From(b, e, v) /\ At(b, e) = v[1]
    /\ \A k \in 1 .. m : At(b, i + (k - 1)) = u[k]

LEMMA RunsUpIs ==
    ASSUME NEW b, NEW i, NEW r, NEW u, NEW m, NEW v, NEW n, From(b, i, r),
           IsCat(Bytes, r, u, m, v, n), v # << >>
    PROVE  \E e : Lands(b, i, u, m, v, e)
<1>0. PICK e : e = i + m
  OBVIOUS
<1>1. /\ m \in Nat /\ i + m <= Len(b) /\ Len(b) \in Nat /\ From(b, i + m, v)
      /\ \A k \in 1 .. m : At(b, i + (k - 1)) = u[k]
  BY FromOnward
<1>2. i \in Nat
  BY DEF From
<1>3. /\ From(b, e, v) /\ v \in Seq(Bytes) /\ e + Len(v) = Len(b)
      /\ \A k \in 1 .. Len(v) : b[e + k] = v[k]
  BY <1>0, <1>1 DEF From
<1>4. 1 \in 1 .. Len(v) /\ Len(v) \in Nat
  BY <1>3
<1>5. e < Len(b) /\ e \in Nat
  BY <1>0, <1>1, <1>2, <1>3, <1>4
<1>6. At(b, e) = v[1]
  BY <1>3, <1>4, <1>5 DEF At
<1>7. Lands(b, i, u, m, v, e)
  BY <1>0, <1>1, <1>2, <1>3, <1>5, <1>6 DEF Lands
<1>. QED BY <1>7

\* The least of a set is its Min.
LEMMA LeastIsMin ==
    ASSUME NEW T, T \subseteq Nat, NEW e \in T, \A k \in T : e <= k
    PROVE  Min(T) = e
<1>1. \E x \in T : \A y \in T : x =< y
  OBVIOUS
<1>2. Min(T) \in T /\ \A y \in T : Min(T) =< y
  BY <1>1 DEF Min
<1>3. PICK x : x = Min(T)
  OBVIOUS
<1>4. x \in Nat /\ e \in Nat /\ x <= e /\ e <= x
  BY <1>2, <1>3
<1>. QED BY <1>3, <1>4

LEMMA UntilIs ==
    ASSUME NEW b, NEW i, NEW r, NEW u, NEW m, NEW v, NEW n, NEW S,
           RunsUp(b, i, r, u, m, v, n, S)
    PROVE  Until(b, i, S) = i + m
<1>1. PICK N : N = Len(b)
  OBVIOUS
<1>2. /\ From(b, i, r) /\ IsCat(Bytes, r, u, m, v, n) /\ v # << >>
      /\ (\A k \in 1 .. m : u[k] \notin S) /\ v[1] \in S
  BY DEF RunsUp
<1>0. PICK e : Lands(b, i, u, m, v, e)
  BY <1>2, RunsUpIs
<1>3. /\ i \in Nat /\ m \in Nat /\ e \in Nat /\ N \in Nat /\ e < N /\ At(b, e) = v[1]
      /\ e = i + m
      /\ \A k \in 1 .. m : At(b, i + (k - 1)) = u[k]
  BY <1>0, <1>1 DEF Lands
<1>. DEFINE T == {N} \cup {k \in i .. N - 1 : At(b, k) \in S}
<1>4. T \subseteq Nat /\ e \in T
  BY <1>1, <1>2, <1>3
<1>5. ASSUME NEW k \in T PROVE e <= k
  <2>1. CASE k = N
    BY <1>3, <2>1
  <2>2. CASE k \in i .. N - 1 /\ At(b, k) \in S
    <3>. SUFFICES ASSUME k < e PROVE FALSE
      BY <1>3, <2>2
    <3>1. PICK l : l = k - i + 1
      OBVIOUS
    <3>2. l \in 1 .. m /\ i + (l - 1) = k
      <4>1. k \in Int /\ i <= k /\ k < i + m /\ i \in Nat /\ m \in Nat
        BY <1>3, <2>2
      <4>2. l - 1 = k - i /\ l \in Int
        BY <3>1, <4>1
      <4>. HIDE DEF T
      <4>. QED BY <4>1, <4>2
    <3>3. At(b, k) = u[l]
      BY <1>3, <3>2
    <3>. QED BY <1>2, <2>2, <3>2, <3>3
  <2>. QED BY <2>1, <2>2
<1>6. Min(T) = e
  <2>. HIDE DEF T
  <2>. QED BY <1>4, <1>5, LeastIsMin
<1>7. Until(b, i, S) = Min(T)
  BY <1>1 DEF Until
<1>. QED BY <1>3, <1>6, <1>7

\* Skip finds the first byte that is not in S.
LEMMA SkipIsUntil ==
    ASSUME NEW b \in Seq(Bytes), NEW i \in Nat, NEW S
    PROVE  Skip(b, i, S) = Until(b, i, Bytes \ S)
<1>1. PICK N : N = Len(b) /\ N \in Nat
  OBVIOUS
<1>2. ASSUME NEW k \in i .. N - 1 PROVE At(b, k) \in Bytes
  <2>1. k + 1 \in 1 .. N /\ k < Len(b)
    BY <1>1
  <2>2. b[k + 1] \in Bytes
    BY <1>1, <2>1
  <2>. QED BY <2>1, <2>2 DEF At
<1>3. {k \in i .. N - 1 : At(b, k) \notin S} = {k \in i .. N - 1 : At(b, k) \in Bytes \ S}
  BY <1>2
<1>. QED BY <1>1, <1>3 DEF Skip, Until

\* A run of bytes of S in front of one that is not.
Skips(b, i, r, u, v, S) ==
    /\ From(b, i, r) /\ u \in Seq(Bytes \cap S) /\ v \in Seq(Bytes) /\ r = u \o v
    /\ v # << >> /\ v[1] \notin S

LEMMA SkipIs ==
    ASSUME NEW b, NEW i, NEW r, NEW u, NEW v, NEW S, Skips(b, i, r, u, v, S),
           NEW e, e = Skip(b, i, S)
    PROVE  /\ e \in Nat /\ i <= e /\ e < Len(b) /\ Len(b) \in Nat
           /\ From(b, e, v) /\ At(b, e) = v[1] /\ e = i + Len(u)
<1>1. PICK m, n, D : m = Len(u) /\ n = Len(v) /\ D = Bytes \ S
  OBVIOUS
<1>2. /\ From(b, i, r) /\ u \in Seq(Bytes \cap S) /\ v \in Seq(Bytes) /\ r = u \o v
      /\ v # << >> /\ v[1] \notin S /\ b \in Seq(Bytes) /\ i \in Nat
  BY DEF Skips, From
<1>3. u \in Seq(Bytes) /\ m \in Nat /\ \A k \in 1 .. m : u[k] \in S
  <2>1. \A k \in 1 .. m : u[k] \in Bytes \cap S
    BY <1>1, <1>2
  <2>2. Bytes \cap S \subseteq Bytes
    OBVIOUS
  <2>. QED BY <1>1, <1>2, <2>1, <2>2, SeqMonotonic
<1>4. v[1] \in D
  <2>1. 1 \in 1 .. Len(v)
    BY <1>2
  <2>. QED BY <1>1, <1>2, <2>1
<1>5. IsCat(Bytes, r, u, m, v, n)
  BY <1>1, <1>2, <1>3 DEF IsCat
<1>6. RunsUp(b, i, r, u, m, v, n, D)
  BY <1>1, <1>2, <1>3, <1>4, <1>5 DEF RunsUp
<1>7. e = i + m
  BY <1>1, <1>2, <1>6, UntilIs, SkipIsUntil
<1>8. /\ i \in Nat /\ m \in Nat /\ e \in Nat /\ Len(b) \in Nat
      /\ e < Len(b) /\ From(b, e, v) /\ At(b, e) = v[1]
  <2>1. PICK d : Lands(b, i, u, m, v, d)
    BY <1>2, <1>5, RunsUpIs
  <2>2. d = e
    BY <1>7, <2>1 DEF Lands
  <2>. QED BY <2>1, <2>2 DEF Lands
<1>. QED BY <1>1, <1>7, <1>8

\* The next byte is c, and w follows.
Leads(b, i, r, c, w, e) ==
    From(b, i, r) /\ c \in Bytes /\ w \in Seq(Bytes) /\ r = <<c>> \o w /\ e = i + 1

LEMMA NextByte ==
    ASSUME NEW b, NEW i, NEW r, NEW c, NEW w, NEW e, Leads(b, i, r, c, w, e)
    PROVE  /\ i \in Nat /\ e \in Nat /\ Len(b) \in Nat /\ i < Len(b) /\ e <= Len(b)
           /\ At(b, i) = c /\ From(b, e, w)
<1>0. From(b, i, r) /\ c \in Bytes /\ w \in Seq(Bytes) /\ r = <<c>> \o w /\ e = i + 1
  BY DEF Leads
<1>1. PICK one, o, l : one = <<c>> /\ o = 1 /\ l = Len(w)
  OBVIOUS
<1>2. one \in Seq(Bytes) /\ Len(one) = o /\ one[1] = c
  BY <1>0, <1>1
<1>3. IsCat(Bytes, r, one, o, w, l)
  BY <1>0, <1>1, <1>2 DEF IsCat
<1>4. /\ i + o <= Len(b) /\ Len(b) \in Nat /\ From(b, i + o, w)
      /\ \A k \in 1 .. o : At(b, i + (k - 1)) = one[k]
  BY <1>0, <1>3, FromOnward
<1>5. i \in Nat
  BY <1>0 DEF From
<1>6. 1 \in 1 .. o /\ i + (1 - 1) = i
  BY <1>1, <1>5
<1>7. At(b, i) = c
  BY <1>2, <1>4, <1>6
<1>. QED BY <1>0, <1>1, <1>4, <1>5, <1>7

-----------------------------------------------------------------------------
(* The strings of the JSON decoder.                                        *)

Ends == {Quote, Backslash}

LEMMA UntilWithin ==
    ASSUME NEW b \in Seq(Bytes), NEW i \in Nat, NEW S, NEW k, k = Until(b, i, S)
    PROVE  k \in Nat /\ (k < Len(b) => i <= k /\ At(b, k) \in S) /\ k <= Len(b)
<1>1. PICK N : N = Len(b) /\ N \in Nat
  OBVIOUS
<1>. DEFINE T == {N} \cup {j \in i .. N - 1 : At(b, j) \in S}
<1>2. T \subseteq Nat /\ T # {}
  BY <1>1
<1>3. Min(T) \in T
  <2>. HIDE DEF T
  <2>. QED BY <1>2, MinIs
<1>4. k = Min(T)
  BY <1>1 DEF Until
<1>5. k \in T
  BY <1>3, <1>4
<1>. QED BY <1>1, <1>5

\* f[m] is where a string ends that goes on at m.
EndsAt(f, b, i) ==
    f = [m \in i .. Len(b) + 1 |->
            LET k == Until(b, m, Ends) IN
            IF k < Len(b) /\ At(b, k) = Backslash THEN f[k + 2] ELSE k]

LEMMA EndsAtExist ==
    ASSUME NEW b \in Seq(Bytes), NEW i \in Nat, i <= Len(b) + 1
    PROVE  \E f : EndsAt(f, b, i)
<1>1. PICK L : L = Len(b) + 1 /\ L \in Nat /\ i <= L
  OBVIOUS
<1>. DEFINE Value(f, m) == LET k == Until(b, m, Ends) IN
                           IF k < Len(b) /\ At(b, k) = Backslash THEN f[k + 2] ELSE k
            N == L - i
            S == {d \in 0 .. N : \E f : EndsAt(f, b, L - d)}
<1>2. ASSUME NEW m \in Nat, NEW f, NEW g, \A k \in m + 1 .. L : f[k] = g[k]
      PROVE  Value(f, m) = Value(g, m)
  <2>1. PICK k : k = Until(b, m, Ends)
    OBVIOUS
  <2>2. k \in Nat /\ (k < Len(b) => m <= k)
    BY <1>2, <2>1, UntilWithin
  <2>3. CASE k < Len(b) /\ At(b, k) = Backslash
    <3>1. k + 2 \in m + 1 .. L
      BY <1>1, <1>2, <2>2, <2>3
    <3>2. f[k + 2] = g[k + 2]
      BY <1>2, <3>1
    <3>. QED BY <2>1, <2>3, <3>2
  <2>4. CASE ~ (k < Len(b) /\ At(b, k) = Backslash)
    BY <2>1, <2>4
  <2>. QED BY <2>3, <2>4
<1>. HIDE DEF Value
<1>3. ASSUME NEW j \in i .. L, NEW f, f = [m \in j .. L |-> Value(f, m)]
      PROVE  EndsAt(f, b, j)
  BY <1>1, <1>3 DEF EndsAt, Value
<1>4. 0 \in S
  <2>. DEFINE f == [m \in L .. L |-> Value(<< >>, m)]
  <2>1. ASSUME NEW m \in L .. L PROVE Value(<< >>, m) = Value(f, m)
    <3>1. m \in Nat /\ m + 1 .. L = {}
      BY <1>1
    <3>. HIDE DEF f
    <3>. QED BY <1>2, <3>1
  <2>2. f = [m \in L .. L |-> Value(f, m)]
    BY <2>1
  <2>3. L \in i .. L /\ 0 \in 0 .. N /\ L - 0 = L
    BY <1>1
  <2>. HIDE DEF f
  <2>4. EndsAt(f, b, L)
    BY <1>3, <2>2, <2>3
  <2>. QED BY <2>3, <2>4
<1>5. ASSUME NEW d \in 0 .. N - 1, d \in S PROVE d + 1 \in S
  <2>1. PICK f : EndsAt(f, b, L - d)
    BY <1>5
  <2>2. PICK l, j : l = L - d /\ j = l - 1
    OBVIOUS
  <2>3. l \in i .. L /\ j \in i .. L /\ j + 1 = l /\ L - (d + 1) = j /\ d + 1 \in 0 .. N /\ j < L
        /\ j \in Nat
    BY <1>1, <2>2
  <2>4. \A m \in l .. L : f[m] = Value(f, m)
    BY <1>1, <2>1, <2>2 DEF EndsAt, Value
  <2>. DEFINE g == [m \in j .. L |-> Value(f, m)]
  <2>5. ASSUME NEW m \in l .. L PROVE g[m] = f[m]
    <3>1. m \in j .. L
      BY <2>3
    <3>. QED BY <2>4, <3>1
  <2>6. ASSUME NEW m \in j .. L PROVE Value(f, m) = Value(g, m)
    <3>1. m \in Nat /\ m + 1 .. L \subseteq l .. L
      BY <2>3
    <3>2. \A k \in m + 1 .. L : f[k] = g[k]
      BY <2>5, <3>1
    <3>. HIDE DEF g
    <3>. QED BY <1>2, <3>1, <3>2
  <2>7. g = [m \in j .. L |-> Value(g, m)]
    BY <2>6
  <2>. HIDE DEF g
  <2>8. EndsAt(g, b, j)
    BY <1>3, <2>3, <2>7
  <2>. QED BY <2>3, <2>8
<1>6. N \in S
  <2>1. N \in Nat
    BY <1>1
  <2>. HIDE DEF S, N
  <2>2. \A d \in 0 .. N : d \in S
    BY <1>4, <1>5, <2>1, Induct
  <2>. QED BY <2>1, <2>2
<1>7. L - N = i
  BY <1>1
<1>. QED BY <1>6, <1>7

LEMMA StringEndIs ==
    ASSUME NEW b \in Seq(Bytes), NEW i \in Nat, i <= Len(b) + 1
    PROVE  \E f : EndsAt(f, b, i) /\ stringEnd(b, i) = f[i]
<1>. DEFINE f == CHOOSE g : EndsAt(g, b, i)
<1>1. EndsAt(f, b, i)
  BY EndsAtExist
<1>2. stringEnd(b, i) = f[i]
  BY Zenon DEF stringEnd, EndsAt, Ends
<1>. HIDE DEF f
<1>. QED BY <1>1, <1>2

\* From a byte that is not in S the search goes on behind it.
LEMMA UntilOn ==
    ASSUME NEW b \in Seq(Bytes), NEW i \in Nat, i < Len(b), NEW S, At(b, i) \notin S, NEW e, e = i + 1
    PROVE  Until(b, i, S) = Until(b, e, S)
<1>1. PICK N : N = Len(b) /\ N \in Nat
  OBVIOUS
<1>2. {k \in i .. N - 1 : At(b, k) \in S} = {k \in e .. N - 1 : At(b, k) \in S}
  <2>1. ASSUME NEW k \in i .. N - 1, At(b, k) \in S PROVE k \in e .. N - 1
    <3>1. k # i
      BY <2>1
    <3>. QED BY <1>1, <3>1
  <2>2. \A k \in e .. N - 1 : k \in i .. N - 1
    BY <1>1
  <2>. QED BY <2>1, <2>2
<1>. QED BY <1>1, <1>2 DEF Until

LEMMA UntilHere ==
    ASSUME NEW b \in Seq(Bytes), NEW i \in Nat, i < Len(b), NEW S, At(b, i) \in S
    PROVE  Until(b, i, S) = i
<1>1. PICK N : N = Len(b) /\ N \in Nat
  OBVIOUS
<1>. DEFINE T == {N} \cup {k \in i .. N - 1 : At(b, k) \in S}
<1>2. T \subseteq Nat /\ i \in T /\ \A k \in T : i <= k
  BY <1>1
<1>3. Min(T) = i
  <2>. HIDE DEF T
  <2>. QED BY <1>2, LeastIsMin
<1>. QED BY <1>1, <1>3 DEF Until

LEMMA UnitIs ==
    ASSUME NEW u \in Units
    PROVE  /\ u \in Seq(Bytes)
           /\ \/ \E c \in Bytes : u = <<c>> /\ c \notin Ends
              \/ \E c \in Bytes : u = <<Backslash, c>>
<1>1. CASE u \in Letters(Plain)
  <2>1. PICK c \in Plain : u = <<c>>
    BY <1>1 DEF Letters
  <2>2. c \in Bytes /\ c \notin Ends
    BY DEF Plain, Ends
  <2>. QED BY <2>1, <2>2
<1>2. CASE \E c \in Bytes : u = <<Backslash, c>>
  <2>1. PICK c \in Bytes : u = <<Backslash, c>>
    BY <1>2
  <2>2. Backslash \in Bytes
    BY DEF Backslash, Bytes
  <2>. QED BY <2>1, <2>2
<1>. QED BY <1>1, <1>2 DEF Units

LEMMA TextIs ==
    ASSUME NEW us \in Seq(Units) PROVE us \in Seq(Seq(Bytes)) /\ FlattenSeq(us) \in Seq(Bytes)
<1>1. us \in Seq(Seq(Bytes))
  <2>1. Units \subseteq Seq(Bytes)
    BY UnitIs
  <2>. QED BY <2>1, SeqMonotonic
<1>2. PICK N : N = Len(us) /\ N \in Nat
  OBVIOUS
<1>3. PICK f : Joins(f, us, N)
  BY <1>2, JoinsExist
<1>4. FlattenSeq(us) = f[N] /\ \A n \in 0 .. N : f[n] \in Seq(Bytes)
  BY <1>1, <1>2, <1>3, FlattenIs
<1>. QED BY <1>1, <1>2, <1>4

\* The search for the end of a string goes on behind every unit.
Onward(f, b, p, z) == \E e \in Nat : p <= e /\ From(b, e, z) /\ f[p] = f[e]

LEMMA UnitPassed ==
    ASSUME NEW b \in Seq(Bytes), NEW i \in Nat, NEW f, EndsAt(f, b, i), NEW p \in Nat, i <= p,
           NEW r, From(b, p, r), NEW u \in Units, NEW z \in Seq(Bytes), r = u \o z
    PROVE  Onward(f, b, p, z)
<1>1. p <= Len(b) /\ Len(b) \in Nat
  BY DEF From
<1>2. ASSUME NEW m \in i .. Len(b) + 1, NEW k, k = Until(b, m, Ends)
      PROVE  f[m] = IF k < Len(b) /\ At(b, k) = Backslash THEN f[k + 2] ELSE k
  BY <1>2 DEF EndsAt
<1>3. ASSUME NEW c \in Bytes, u = <<c>>, c \notin Ends PROVE Onward(f, b, p, z)
  <2>1. PICK e : e = p + 1
    OBVIOUS
  <2>2. /\ e \in Nat /\ p < Len(b) /\ e <= Len(b) /\ At(b, p) = c /\ From(b, e, z)
    <3>1. Leads(b, p, r, c, z, e)
      BY <1>3, <2>1 DEF Leads
    <3>. QED BY <3>1, NextByte
  <2>3. PICK k : k = Until(b, p, Ends)
    OBVIOUS
  <2>4. k = Until(b, e, Ends)
    BY <1>3, <2>1, <2>2, <2>3, UntilOn
  <2>5. p \in i .. Len(b) + 1 /\ e \in i .. Len(b) + 1 /\ p <= e
    BY <1>1, <2>1, <2>2
  <2>6. f[p] = f[e]
    BY <1>2, <2>3, <2>4, <2>5
  <2>. QED BY <2>2, <2>5, <2>6 DEF Onward
<1>4. ASSUME NEW c \in Bytes, u = <<Backslash, c>> PROVE Onward(f, b, p, z)
  <2>1. PICK d, one, two, y, e : /\ d = Backslash /\ one = <<d>> /\ two = <<c>>
                                 /\ y = two \o z /\ e = p + 1
    OBVIOUS
  <2>2. d \in Bytes /\ d \in Ends
    BY <2>1 DEF Backslash, Bytes, Ends
  <2>3. one \in Seq(Bytes) /\ two \in Seq(Bytes) /\ u = one \o two
    BY <1>4, <2>1, <2>2
  <2>4. y \in Seq(Bytes)
    BY <2>1, <2>3, ConcatProperties
  <2>5. r = one \o y
    <3>1. (one \o two) \o z = one \o (two \o z)
      <4>1. one \in Seq(Bytes) /\ two \in Seq(Bytes) /\ z \in Seq(Bytes)
        BY <2>3
      <4>. QED BY <4>1, ConcatAssociative
    <3>. QED BY <2>1, <2>3, <3>1
  <2>6. /\ e \in Nat /\ p < Len(b) /\ At(b, p) = d /\ From(b, e, y)
    <3>1. Leads(b, p, r, d, y, e)
      BY <2>1, <2>2, <2>4, <2>5 DEF Leads
    <3>. QED BY <3>1, NextByte
  <2>7. PICK g : g = e + 1
    OBVIOUS
  <2>8. g \in Nat /\ g <= Len(b) /\ From(b, g, z)
    <3>1. Leads(b, e, y, c, z, g)
      BY <1>4, <2>1, <2>6, <2>7 DEF Leads
    <3>. QED BY <3>1, NextByte
  <2>9. p = Until(b, p, Ends)
    BY <2>2, <2>6, UntilHere
  <2>10. p \in i .. Len(b) + 1 /\ p + 2 = g /\ p <= g
    BY <1>1, <2>1, <2>6, <2>7
  <2>11. f[p] = f[g]
    BY <1>2, <2>1, <2>6, <2>9, <2>10
  <2>. QED BY <2>8, <2>10, <2>11 DEF Onward
<1>. QED BY <1>3, <1>4, UnitIs

\* A string is read up to its quote, whatever is escaped in it.
StringRead(b, i, text, w, end) ==
    /\ i \in Nat /\ end \in Nat /\ Len(b) \in Nat /\ i <= end /\ end < Len(b)
    /\ At(b, end) = Quote /\ substr(b, i, end) = text /\ From(b, end + 1, w)

\* The string us and its quote stand at i, and w behind them.
StringAt(b, i, us, text, w, q, r, end) ==
    /\ us \in Seq(Units) /\ text = FlattenSeq(us) /\ w \in Seq(Bytes)
    /\ q = <<Quote>> \o w /\ r = text \o q /\ From(b, i, r) /\ end = stringEnd(b, i)

LEMMA StringIs ==
    ASSUME NEW b, NEW i, NEW us, NEW text, NEW w, NEW q, NEW r, NEW end,
           StringAt(b, i, us, text, w, q, r, end)
    PROVE  StringRead(b, i, text, w, end)
<1>a. /\ us \in Seq(Units) /\ text = FlattenSeq(us) /\ w \in Seq(Bytes)
      /\ q = <<Quote>> \o w /\ r = text \o q /\ From(b, i, r) /\ end = stringEnd(b, i)
  BY DEF StringAt
<1>0. PICK N : N = Len(us)
  OBVIOUS
<1>2. us \in Seq(Seq(Bytes)) /\ text \in Seq(Bytes)
  BY <1>a, TextIs
<1>1. N = Len(us) /\ N \in Nat
  BY <1>0, <1>2
<1>3. b \in Seq(Bytes) /\ i \in Nat /\ i <= Len(b) + 1 /\ Len(b) \in Nat /\ i + Len(r) = Len(b)
  BY <1>a DEF From
<1>4. PICK f : EndsAt(f, b, i) /\ end = f[i]
  BY <1>a, <1>3, StringEndIs
<1>5. PICK h : Follows(h, us, Bytes) /\ h[0] = text
  <2>1. PICK h : Follows(h, us, Bytes) /\ h[0] = FlattenSeq(us)
    BY <1>2, FollowsExist
  <2>. QED BY <1>a, <2>1
<1>6. /\ h[N] = << >>
      /\ \A n \in 0 .. N : h[n] \in Seq(Bytes)
      /\ \A n \in 1 .. N : h[n - 1] = us[n] \o h[n]
  BY <1>1, <1>5 DEF Follows
<1>7. PICK c, one : c = Quote /\ one = <<c>>
  OBVIOUS
<1>8. c \in Bytes /\ one \in Seq(Bytes) /\ q = one \o w
  BY <1>a, <1>7 DEF Quote, Bytes
<1>9. q \in Seq(Bytes)
  BY <1>a, <1>8, ConcatProperties
<1>. DEFINE S == {n \in 0 .. N : Onward(f, b, i, h[n] \o q)}
<1>10. 0 \in S
  <2>1. From(b, i, h[0] \o q)
    <3>1. h[0] \o q = r
      BY <1>a, <1>5
    <3>. QED BY <1>a, <3>1
  <2>2. i <= i
    BY <1>3
  <2>. QED BY <1>1, <1>3, <2>1, <2>2 DEF Onward
<1>11. ASSUME NEW n \in 0 .. N - 1, n \in S PROVE n + 1 \in S
  <2>1. PICK t \in 1 .. N : t = n + 1 /\ t - 1 = n
    BY <1>1, <1>11
  <2>2. PICK u, y, x, z : u = us[t] /\ y = h[t] /\ x = h[n] \o q /\ z = y \o q
    OBVIOUS
  <2>3. t \in 1 .. N /\ t \in 0 .. N
    BY <1>1, <2>1
  <2>4. u \in Units /\ y \in Seq(Bytes) /\ h[n] = u \o y
    <3>1. h[t - 1] = us[t] \o h[t] /\ h[t] \in Seq(Bytes)
      BY <1>6, <2>3
    <3>2. us[t] \in Units
      BY <1>a, <1>1, <2>3
    <3>. QED BY <2>1, <2>2, <3>1, <3>2
  <2>5. u \in Seq(Bytes) /\ z \in Seq(Bytes)
    BY <1>9, <2>2, <2>4, UnitIs, ConcatProperties
  <2>6. x = u \o z
    <3>1. PICK o : o = h[n]
      OBVIOUS
    <3>2. Laps(o, u, y, z, q)
      BY <1>9, <2>2, <2>4, <2>5, <3>1 DEF Laps
    <3>3. o \o q = u \o z
      BY <3>2, Reassociate
    <3>. QED BY <2>2, <3>1, <3>3
  <2>7. PICK e \in Nat : i <= e /\ From(b, e, x) /\ f[i] = f[e]
    BY <1>11, <2>2 DEF Onward
  <2>8. Onward(f, b, e, z)
    BY <1>3, <1>4, <2>4, <2>5, <2>6, <2>7, UnitPassed
  <2>9. PICK g \in Nat : e <= g /\ From(b, g, z) /\ f[e] = f[g]
    BY <2>8 DEF Onward
  <2>10. i <= g /\ f[i] = f[g]
    BY <1>3, <2>7, <2>9
  <2>11. Onward(f, b, i, z)
    BY <2>9, <2>10 DEF Onward
  <2>. QED BY <2>1, <2>2, <2>3, <2>11
<1>12. N \in S
  <2>. HIDE DEF S
  <2>1. \A n \in 0 .. N : n \in S
    BY <1>1, <1>10, <1>11, Induct
  <2>. QED BY <1>1, <2>1
<1>13. PICK e \in Nat : i <= e /\ From(b, e, q) /\ f[i] = f[e]
  <2>1. << >> \o q = q
    BY <1>9, ConcatEmptySeq
  <2>. QED BY <1>6, <1>12, <2>1 DEF Onward
<1>14. PICK g : g = e + 1
  OBVIOUS
<1>15. e < Len(b) /\ At(b, e) = c /\ From(b, g, w)
  <2>1. Leads(b, e, q, c, w, g)
    BY <1>a, <1>7, <1>8, <1>13, <1>14 DEF Leads
  <2>. QED BY <2>1, NextByte
<1>16. f[e] = e
  <2>1. c \in Ends /\ c # Backslash
    BY <1>7 DEF Ends, Quote, Backslash
  <2>2. Until(b, e, Ends) = e
    BY <1>3, <1>13, <1>15, <2>1, UntilHere
  <2>3. e \in i .. Len(b) + 1
    BY <1>3, <1>13, <1>15
  <2>. QED BY <1>4, <1>15, <2>1, <2>2, <2>3 DEF EndsAt
<1>17. end = e
  BY <1>4, <1>13, <1>16
<1>18. substr(b, i, e) = text
  <2>1. PICK m, n : m = Len(text) /\ n = Len(q)
    OBVIOUS
  <2>2. IsCat(Bytes, r, text, m, q, n)
    BY <1>a, <1>2, <1>9, <2>1 DEF IsCat
  <2>3. substr(b, i, i + m) = text
    BY <1>a, <2>2, SubstrOfFrom
  <2>4. Len(r) = m + n /\ m \in Nat /\ n \in Nat
    BY <1>2, <1>9, <2>1, <2>2, Cat
  <2>5. e + n = Len(b)
    BY <1>13, <2>1 DEF From
  <2>6. e = i + m
    BY <1>3, <2>4, <2>5
  <2>. QED BY <2>3, <2>6
<1>. QED BY <1>a, <1>3, <1>7, <1>13, <1>14, <1>15, <1>17, <1>18 DEF StringRead

-----------------------------------------------------------------------------
(* A member of the object.                                                 *)

JsonQuoted(us) == <<Quote>> \o FlattenSeq(us) \o <<Quote>>

\* r is the string us, in quotes, and t behind it.
QuotedIn(us, t, r, x, q) ==
    /\ us \in Seq(Units) /\ t \in Seq(Bytes) /\ r = <<Quote>> \o x
    /\ x = FlattenSeq(us) \o q /\ q = <<Quote>> \o t /\ r \in Seq(Bytes) /\ x \in Seq(Bytes)

LEMMA QuotedIs ==
    ASSUME NEW us \in Seq(Units), NEW t \in Seq(Bytes), NEW v, v = JsonQuoted(us),
           NEW r, r = v \o t
    PROVE  v \in Seq(Bytes) /\ \E x, q : QuotedIn(us, t, r, x, q)
<1>1. PICK one, text, n, m, x, q : /\ one = <<Quote>> /\ text = FlattenSeq(us) /\ n = one \o text
                                   /\ q = one \o t /\ x = text \o q /\ m = v
  OBVIOUS
<1>2. one \in Seq(Bytes) /\ text \in Seq(Bytes)
  BY <1>1, TextIs DEF Quote, Bytes
<1>3. n \in Seq(Bytes)
  BY <1>1, <1>2, ConcatProperties
<1>4. m = n \o one
  BY <1>1 DEF JsonQuoted
<1>5. Laps(m, n, one, q, t) /\ m \in Seq(Bytes)
  BY <1>1, <1>2, <1>3, <1>4, ConcatProperties DEF Laps
<1>6. m \o t = n \o q /\ q \in Seq(Bytes)
  BY <1>5, Reassociate
<1>7. Laps(n, one, text, x, q)
  BY <1>1, <1>2, <1>6 DEF Laps
<1>8. n \o q = one \o x /\ x \in Seq(Bytes)
  BY <1>7, Reassociate
<1>9. r = one \o x /\ r \in Seq(Bytes)
  BY <1>1, <1>2, <1>6, <1>8, ConcatProperties
<1>10. QuotedIn(us, t, r, x, q)
  BY <1>1, <1>8, <1>9 DEF QuotedIn
<1>. QED BY <1>1, <1>5, <1>10

LEMMA QuotedRead ==
    ASSUME NEW b, NEW i, NEW r, From(b, i, r), NEW us, NEW t, NEW x, NEW q,
           QuotedIn(us, t, r, x, q), NEW j, j = i + 1, NEW end, end = stringEnd(b, j),
           NEW text, text = FlattenSeq(us)
    PROVE  i \in Nat /\ At(b, i) = Quote /\ StringRead(b, j, text, t, end)
<1>1. PICK c : c = Quote
  OBVIOUS
<1>2. /\ us \in Seq(Units) /\ t \in Seq(Bytes) /\ r = <<c>> \o x /\ x = text \o q
      /\ q = <<Quote>> \o t /\ x \in Seq(Bytes)
  BY <1>1 DEF QuotedIn
<1>3. Leads(b, i, r, c, x, j)
  BY <1>1, <1>2 DEF Leads, Quote, Bytes
<1>4. i \in Nat /\ At(b, i) = c /\ From(b, j, x)
  BY <1>3, NextByte
<1>5. StringAt(b, j, us, text, t, q, x, end)
  BY <1>2, <1>4 DEF StringAt
<1>. QED BY <1>1, <1>4, <1>5, StringIs

\* Behind blanks u stands y, at a comma or at the end of the object.
Gap(t, u, y) ==
    /\ u \in Seq(Bytes \cap Blanks) /\ y \in Seq(Bytes) /\ y # << >>
    /\ y[1] \in {Comma, Close} /\ t = u \o y

LEMMA GapSkipped ==
    ASSUME NEW b, NEW i, NEW t, From(b, i, t), NEW u, NEW y, Gap(t, u, y),
           NEW e, e = Skip(b, i, Blanks)
    PROVE  e \in Nat /\ i <= e /\ From(b, e, y) /\ At(b, e) = y[1]
<1>1. PICK S : S = Blanks
  OBVIOUS
<1>2. y[1] \notin S
  <2>1. Comma \notin S /\ Close \notin S
    BY <1>1 DEF Blanks, Comma, Close
  <2>. QED BY <2>1 DEF Gap
<1>3. Skips(b, i, t, u, y, S)
  BY <1>1, <1>2 DEF Gap, Skips
<1>4. e = Skip(b, i, S)
  BY <1>1
<1>. QED BY <1>3, <1>4, SkipIs

\* The bytes that end a scalar.
Stops == {Comma, Close} \cup Blanks

LEMMA ScalarIs ==
    ASSUME NEW v \in Scalars, NEW text, text = FlattenSeq(v)
    PROVE  /\ text \in Seq(Bytes) /\ text # << >> /\ text[1] \in ScalarStart
           /\ \A k \in 1 .. Len(text) : text[k] \notin Stops
<1>1. PICK A, N : A = Bytes \ Stops /\ N = Len(v)
  OBVIOUS
<1>2. /\ v \in Seq(Letters(Plain \ Stops)) /\ v # << >> /\ v[1] \in Letters(ScalarStart)
  <2>1. Blanks \cup {Comma, Close} = Stops
    BY DEF Stops
  <2>. QED BY <2>1 DEF Scalars
<1>3. v \in Seq(Seq(A)) /\ N \in Nat
  <2>1. ASSUME NEW l \in Letters(Plain \ Stops) PROVE l \in Seq(A)
    <3>1. PICK c \in Plain \ Stops : l = <<c>>
      BY <2>1 DEF Letters
    <3>2. c \in A
      BY <1>1 DEF Plain
    <3>. QED BY <3>1, <3>2
  <2>2. Letters(Plain \ Stops) \subseteq Seq(A)
    BY <2>1
  <2>3. PICK L, U : L = Letters(Plain \ Stops) /\ U = Seq(A)
    OBVIOUS
  <2>4. v \in Seq(L) /\ L \subseteq U
    BY <1>2, <2>2, <2>3
  <2>5. v \in Seq(U)
    BY <2>4, SeqMonotonic
  <2>. QED BY <1>1, <2>3, <2>5
<1>4. PICK g : Follows(g, v, A) /\ g[0] = FlattenSeq(v)
  BY <1>3, FollowsExist
<1>5. 0 \in 0 .. N /\ 1 \in 0 .. N /\ 1 \in 1 .. N /\ 1 - 1 = 0
  BY <1>1, <1>2, <1>3
<1>6. text \in Seq(A) /\ g[1] \in Seq(A) /\ text = v[1] \o g[1]
  <2>1. g[0] \in Seq(A) /\ g[1] \in Seq(A) /\ g[1 - 1] = v[1] \o g[1]
    BY <1>1, <1>4, <1>5 DEF Follows
  <2>. QED BY <1>4, <1>5, <2>1
<1>7. \A k \in 1 .. Len(text) : text[k] \in A
  <2>1. PICK d : d = text
    OBVIOUS
  <2>2. d \in Seq(A)
    BY <1>6, <2>1
  <2>3. \A k \in 1 .. Len(d) : d[k] \in A
    BY <2>2
  <2>. QED BY <2>1, <2>3
<1>8. PICK c \in ScalarStart : v[1] = <<c>>
  BY <1>2 DEF Letters
<1>9. PICK one, o, w, l : one = v[1] /\ o = 1 /\ w = g[1] /\ l = Len(w)
  OBVIOUS
<1>10. one \in Seq(A)
  BY <1>1, <1>3, <1>5, <1>9
<1>11. IsCat(A, text, one, o, w, l)
  <2>1. Len(one) = o
    BY <1>8, <1>9
  <2>. QED BY <1>6, <1>9, <1>10, <2>1 DEF IsCat
<1>12. Len(text) = o + l /\ \A k \in 1 .. o : text[k] = one[k]
  BY <1>11, Cat
<1>13. text[1] = c
  BY <1>8, <1>9, <1>12
<1>14. text # << >>
  <2>1. l \in Nat
    BY <1>6, <1>9
  <2>2. Len(text) # 0
    BY <1>9, <1>12, <2>1
  <2>. QED BY <2>2
<1>15. text \in Seq(Bytes)
  <2>1. A \subseteq Bytes
    BY <1>1
  <2>. QED BY <1>6, <2>1, SeqMonotonic
<1>. QED BY <1>1, <1>7, <1>8, <1>13, <1>14, <1>15

\* The value whose text is text begins at val, y ends it, and it is stored.
ValueRead(b, key, val, s, text, y) ==
    \E next \in Nat : /\ val <= next /\ From(b, next, y) /\ At(b, next) = y[1]
                      /\ valueAt(b, key, val, s) = stored(b, key, text, next, s)

LEMMA StringValue ==
    ASSUME NEW b, NEW val, NEW r, From(b, val, r), NEW us, NEW t, NEW x, NEW q,
           QuotedIn(us, t, r, x, q), NEW u, NEW y, Gap(t, u, y), NEW key, NEW s,
           NEW text, text = FlattenSeq(us)
    PROVE  ValueRead(b, key, val, s, text, y)
<1>1. PICK j, end : j = val + 1 /\ end = stringEnd(b, j)
  OBVIOUS
<1>2. val \in Nat /\ At(b, val) = Quote /\ StringRead(b, j, text, t, end)
  BY <1>1, QuotedRead
<1>3. PICK k, next : k = end + 1 /\ next = Skip(b, k, Blanks)
  OBVIOUS
<1>4. /\ j \in Nat /\ end \in Nat /\ j <= end /\ At(b, end) = Quote
      /\ substr(b, j, end) = text /\ From(b, k, t)
  BY <1>2, <1>3 DEF StringRead
<1>5. next \in Nat /\ k <= next /\ From(b, next, y) /\ At(b, next) = y[1]
  BY <1>3, <1>4, GapSkipped
<1>6. valueAt(b, key, val, s) = stringAt(b, key, val, end, s)
  BY <1>1, <1>2 DEF valueAt
<1>7. stringAt(b, key, val, end, s) = stored(b, key, text, next, s)
  BY <1>1, <1>3, <1>4 DEF stringAt
<1>8. val <= next
  BY <1>1, <1>2, <1>3, <1>4, <1>5
<1>. QED BY <1>5, <1>6, <1>7, <1>8 DEF ValueRead

\* What stands behind a scalar ends it.
LEMMA GapStops ==
    ASSUME NEW t, NEW u, NEW y, Gap(t, u, y)
    PROVE  t \in Seq(Bytes) /\ t # << >> /\ t[1] \in Stops
<1>1. PICK m, n : m = Len(u) /\ n = Len(y)
  OBVIOUS
<1>2. /\ u \in Seq(Bytes \cap Blanks) /\ y \in Seq(Bytes) /\ y # << >>
      /\ y[1] \in {Comma, Close} /\ t = u \o y
  BY DEF Gap
<1>3. m \in Nat /\ n \in Nat /\ n # 0 /\ \A k \in 1 .. m : u[k] \in Bytes \cap Blanks
  BY <1>1, <1>2
<1>4. u \in Seq(Bytes)
  <2>1. Bytes \cap Blanks \subseteq Bytes
    OBVIOUS
  <2>. QED BY <1>2, <2>1, SeqMonotonic
<1>5. IsCat(Bytes, t, u, m, y, n)
  BY <1>1, <1>2, <1>4 DEF IsCat
<1>6. /\ t \in Seq(Bytes) /\ Len(t) = m + n
      /\ \A k \in 1 .. m : t[k] = u[k]
      /\ \A k \in 1 .. n : t[m + k] = y[k]
  BY <1>5, Cat
<1>7. t # << >>
  <2>1. Len(t) # 0
    BY <1>3, <1>6
  <2>. QED BY <2>1
<1>8. CASE m = 0
  <2>1. 1 \in 1 .. n /\ m + 1 = 1
    BY <1>3, <1>8
  <2>2. t[1] = y[1]
    BY <1>6, <2>1
  <2>. QED BY <1>2, <1>6, <1>7, <2>2 DEF Stops
<1>9. CASE m # 0
  <2>1. 1 \in 1 .. m
    BY <1>3, <1>9
  <2>2. t[1] = u[1] /\ u[1] \in Blanks
    BY <1>3, <1>6, <2>1
  <2>. QED BY <1>6, <1>7, <2>2 DEF Stops
<1>. QED BY <1>8, <1>9

LEMMA ScalarValue ==
    ASSUME NEW b, NEW val, NEW r, From(b, val, r), NEW v \in Scalars, NEW text, NEW t,
           NEW u, NEW y, Gap(t, u, y), NEW key, NEW s,
           text = FlattenSeq(v), r = text \o t
    PROVE  ValueRead(b, key, val, s, text, y)
<1>1. PICK m, n, S : m = Len(text) /\ n = Len(t) /\ S = Stops
  OBVIOUS
<1>2. /\ text \in Seq(Bytes) /\ text # << >> /\ text[1] \in ScalarStart
      /\ \A k \in 1 .. Len(text) : text[k] \notin Stops
  BY ScalarIs
<1>3. t \in Seq(Bytes) /\ t # << >> /\ t[1] \in S
  BY <1>1, GapStops
<1>4. IsCat(Bytes, r, text, m, t, n)
  BY <1>1, <1>2, <1>3 DEF IsCat
<1>5. RunsUp(b, val, r, text, m, t, n, S)
  BY <1>1, <1>2, <1>3, <1>4 DEF RunsUp
<1>6. PICK end : end = val + m
  OBVIOUS
<1>7. scalarEnd(b, val) = end
  <2>1. Until(b, val, S) = val + m
    BY <1>5, UntilIs
  <2>. QED BY <1>1, <1>6, <2>1 DEF scalarEnd, Stops
<1>8. /\ m \in Nat /\ From(b, val + m, t) /\ val \in Nat
      /\ \A k \in 1 .. m : At(b, val + (k - 1)) = text[k]
  <2>1. val \in Nat
    BY DEF From
  <2>. QED BY <1>4, <2>1, FromOnward
<1>9. substr(b, val, end) = text
  BY <1>4, <1>6, SubstrOfFrom
<1>10. PICK next : next = Skip(b, end, Blanks)
  OBVIOUS
<1>11. next \in Nat /\ end <= next /\ From(b, next, y) /\ At(b, next) = y[1]
  <2>1. From(b, end, t)
    BY <1>6, <1>8
  <2>. QED BY <1>10, <2>1, GapSkipped
<1>12. At(b, val) \in ScalarStart
  <2>1. m # 0
    BY <1>1, <1>2
  <2>2. 1 \in 1 .. m /\ val + (1 - 1) = val
    BY <1>8, <2>1
  <2>3. At(b, val) = text[1]
    BY <1>8, <2>2
  <2>. QED BY <1>2, <2>3
<1>13. At(b, val) # Quote
  BY <1>12 DEF ScalarStart, Digits, Minus, Quote
<1>14. valueAt(b, key, val, s) = scalarAt(b, key, val, end, s)
  BY <1>7, <1>13 DEF valueAt
<1>15. scalarAt(b, key, val, end, s) = stored(b, key, text, next, s)
  BY <1>9, <1>10, <1>12 DEF scalarAt
<1>16. val <= next
  BY <1>6, <1>8, <1>11
<1>. QED BY <1>11, <1>14, <1>15, <1>16 DEF ValueRead

LEMMA HeadIs ==
    ASSUME NEW c \in Bytes, NEW w \in Seq(Bytes), NEW r, r = <<c>> \o w
    PROVE  r \in Seq(Bytes) /\ r # << >> /\ r[1] = c
<1>1. PICK one, o, l, q : one = <<c>> /\ o = 1 /\ l = Len(w) /\ q = r
  OBVIOUS
<1>2. IsCat(Bytes, q, one, o, w, l) /\ l \in Nat /\ one[1] = c
  <2>1. one \in Seq(Bytes) /\ Len(one) = o /\ one[1] = c
    BY <1>1
  <2>. QED BY <1>1, <2>1 DEF IsCat
<1>3. q \in Seq(Bytes) /\ Len(q) = o + l /\ \A k \in 1 .. o : q[k] = one[k]
  BY <1>2, Cat
<1>. QED BY <1>1, <1>2, <1>3

ValueText(p) == IF p.string THEN JsonQuoted(p.value) ELSE FlattenSeq(p.value)
MemberText(p, ws) ==
    ws \o JsonQuoted(p.key) \o ws \o <<Colon>> \o ws \o ValueText(p) \o ws

\* r is the member p, and w behind it; t1 to t6 begin with its parts.
InMember(p, ws, w, r, t1, t2, t3, t4, t5, t6) ==
    /\ r = ws \o t1 /\ t1 = JsonQuoted(p.key) \o t2 /\ t2 = ws \o t3
    /\ t3 = <<Colon>> \o t4 /\ t4 = ws \o t5 /\ t5 = ValueText(p) \o t6 /\ t6 = ws \o w
    /\ t1 \in Seq(Bytes) /\ t2 \in Seq(Bytes) /\ t3 \in Seq(Bytes)
    /\ t4 \in Seq(Bytes) /\ t5 \in Seq(Bytes) /\ t6 \in Seq(Bytes)

LEMMA MemberTexts ==
    ASSUME NEW p \in JsonMembers
    PROVE  /\ JsonQuoted(p.key) \in Seq(Bytes) /\ ValueText(p) \in Seq(Bytes)
           /\ p.key \in Seq(Units)
           /\ (p.string /\ p.value \in Seq(Units)) \/ (~ p.string /\ p.value \in Scalars)
<1>1. /\ p.key \in Seq(Units)
      /\ (p.string = TRUE /\ p.value \in Seq(Units)) \/ (p.string = FALSE /\ p.value \in Scalars)
  BY DEF JsonMembers
<1>2. ASSUME NEW us \in Seq(Units) PROVE JsonQuoted(us) \in Seq(Bytes)
  <2>1. PICK v, t, r : v = JsonQuoted(us) /\ t = << >> /\ r = v \o t
    OBVIOUS
  <2>2. t \in Seq(Bytes)
    BY <2>1
  <2>. QED BY <1>2, <2>1, <2>2, QuotedIs
<1>3. CASE p.string = TRUE /\ p.value \in Seq(Units)
  BY <1>1, <1>2, <1>3 DEF ValueText
<1>4. CASE p.string = FALSE /\ p.value \in Scalars
  <2>1. PICK v, text : v = p.value /\ text = FlattenSeq(v)
    OBVIOUS
  <2>2. text \in Seq(Bytes)
    BY <1>4, <2>1, ScalarIs
  <2>. QED BY <1>1, <1>2, <1>4, <2>1, <2>2 DEF ValueText
<1>. QED BY <1>1, <1>3, <1>4

LEMMA MemberIs ==
    ASSUME NEW p \in JsonMembers, NEW ws \in Seq(Bytes), NEW w \in Seq(Bytes)
    PROVE  /\ MemberText(p, ws) \in Seq(Bytes)
           /\ \E t1, t2, t3, t4, t5, t6 :
                 InMember(p, ws, w, MemberText(p, ws) \o w, t1, t2, t3, t4, t5, t6)
<1>1. PICK k, c, v : k = JsonQuoted(p.key) /\ c = <<Colon>> /\ v = ValueText(p)
  OBVIOUS
<1>2. k \in Seq(Bytes) /\ c \in Seq(Bytes) /\ v \in Seq(Bytes)
  BY <1>1, MemberTexts DEF Colon, Bytes
<1>3. PICK a1, a2, a3, a4, a5, a6 : /\ a1 = ws \o k /\ a2 = a1 \o ws /\ a3 = a2 \o c
                                    /\ a4 = a3 \o ws /\ a5 = a4 \o v /\ a6 = a5 \o ws
  OBVIOUS
<1>4. PICK t6, t5, t4 : t6 = ws \o w /\ t5 = v \o t6 /\ t4 = ws \o t5
  OBVIOUS
<1>5. PICK t3, t2, t1 : t3 = c \o t4 /\ t2 = ws \o t3 /\ t1 = k \o t2
  OBVIOUS
<1>6. a1 \in Seq(Bytes)
  BY <1>2, <1>3, ConcatProperties
<1>7. a2 \in Seq(Bytes)
  BY <1>2, <1>3, <1>6, ConcatProperties
<1>8. a3 \in Seq(Bytes)
  BY <1>2, <1>3, <1>7, ConcatProperties
<1>9. a4 \in Seq(Bytes)
  BY <1>2, <1>3, <1>8, ConcatProperties
<1>10. a5 \in Seq(Bytes)
  BY <1>2, <1>3, <1>9, ConcatProperties
<1>11. a6 \in Seq(Bytes)
  BY <1>2, <1>3, <1>10, ConcatProperties
<1>12. Laps(a6, a5, ws, t6, w)
  BY <1>3, <1>4, <1>10 DEF Laps
<1>13. a6 \o w = a5 \o t6 /\ t6 \in Seq(Bytes)
  BY <1>12, Reassociate
<1>14. Laps(a5, a4, v, t5, t6)
  BY <1>2, <1>3, <1>4, <1>9, <1>13 DEF Laps
<1>15. a5 \o t6 = a4 \o t5 /\ t5 \in Seq(Bytes)
  BY <1>14, Reassociate
<1>16. Laps(a4, a3, ws, t4, t5)
  BY <1>3, <1>4, <1>8, <1>15 DEF Laps
<1>17. a4 \o t5 = a3 \o t4 /\ t4 \in Seq(Bytes)
  BY <1>16, Reassociate
<1>18. Laps(a3, a2, c, t3, t4)
  BY <1>2, <1>3, <1>5, <1>7, <1>17 DEF Laps
<1>19. a3 \o t4 = a2 \o t3 /\ t3 \in Seq(Bytes)
  BY <1>18, Reassociate
<1>20. Laps(a2, a1, ws, t2, t3)
  BY <1>3, <1>5, <1>6, <1>19 DEF Laps
<1>21. a2 \o t3 = a1 \o t2 /\ t2 \in Seq(Bytes)
  BY <1>20, Reassociate
<1>22. Laps(a1, ws, k, t1, t2)
  BY <1>2, <1>3, <1>5, <1>21 DEF Laps
<1>23. a1 \o t2 = ws \o t1 /\ t1 \in Seq(Bytes)
  BY <1>22, Reassociate
<1>24. a6 \o w = ws \o t1
  BY <1>13, <1>15, <1>17, <1>19, <1>21, <1>23
<1>25. MemberText(p, ws) = a6
  BY <1>1, <1>3 DEF MemberText
<1>26. PICK r : r = a6 \o w
  OBVIOUS
<1>27. InMember(p, ws, w, r, t1, t2, t3, t4, t5, t6)
  BY <1>1, <1>4, <1>5, <1>13, <1>15, <1>17, <1>19, <1>21, <1>23, <1>24, <1>26 DEF InMember
<1>. QED BY <1>11, <1>25, <1>26, <1>27

LEMMA ValueIs ==
    ASSUME NEW p \in JsonMembers, NEW t6, NEW u, NEW y, Gap(t6, u, y),
           NEW t5, t5 = ValueText(p) \o t6, NEW text, text = FlattenSeq(p.value)
    PROVE  /\ t5 \in Seq(Bytes) /\ t5 # << >> /\ t5[1] \notin Blanks
           /\ \A b, val, key, s : From(b, val, t5) => ValueRead(b, key, val, s, text, y)
<1>1. PICK v : v = p.value
  OBVIOUS
<1>2. t6 \in Seq(Bytes)
  BY GapStops
<1>3. ASSUME p.string, v \in Seq(Units)
      PROVE  /\ t5 \in Seq(Bytes) /\ t5 # << >> /\ t5[1] \notin Blanks
             /\ \A b, val, key, s : From(b, val, t5) => ValueRead(b, key, val, s, text, y)
  <2>1. PICK o, r : o = JsonQuoted(v) /\ r = t5
    OBVIOUS
  <2>2. r = o \o t6
    BY <1>1, <1>3, <2>1 DEF ValueText
  <2>3. PICK x, q : QuotedIn(v, t6, r, x, q)
    BY <1>2, <1>3, <2>1, <2>2, QuotedIs
  <2>4. PICK c : c = Quote
    OBVIOUS
  <2>5. c \in Bytes /\ x \in Seq(Bytes) /\ r = <<c>> \o x
    BY <2>3, <2>4 DEF QuotedIn, Quote, Bytes
  <2>6. r \in Seq(Bytes) /\ r # << >> /\ r[1] = c
    BY <2>5, HeadIs
  <2>7. c \notin Blanks
    BY <2>4 DEF Quote, Blanks
  <2>8. ASSUME NEW b, NEW val, NEW key, NEW s, From(b, val, r)
        PROVE  ValueRead(b, key, val, s, text, y)
    <3>1. PICK f : f = text /\ f = FlattenSeq(v)
      BY <1>1
    <3>2. ValueRead(b, key, val, s, f, y)
      BY <2>3, <2>8, <3>1, StringValue
    <3>. QED BY <3>1, <3>2
  <2>. QED BY <2>1, <2>6, <2>7, <2>8
<1>4. ASSUME ~ p.string, v \in Scalars
      PROVE  /\ t5 \in Seq(Bytes) /\ t5 # << >> /\ t5[1] \notin Blanks
             /\ \A b, val, key, s : From(b, val, t5) => ValueRead(b, key, val, s, text, y)
  <2>1. PICK f, r, m, n : /\ f = FlattenSeq(v) /\ f = text /\ r = t5
                          /\ m = Len(f) /\ n = Len(t6)
    BY <1>1
  <2>2. r = f \o t6
    BY <1>1, <1>4, <2>1 DEF ValueText
  <2>3. f \in Seq(Bytes) /\ f # << >> /\ f[1] \in ScalarStart
    BY <1>4, <2>1, ScalarIs
  <2>4. IsCat(Bytes, r, f, m, t6, n)
    BY <1>2, <2>1, <2>2, <2>3 DEF IsCat
  <2>5. r \in Seq(Bytes) /\ Len(r) = m + n /\ \A k \in 1 .. m : r[k] = f[k]
    BY <2>4, Cat
  <2>6. m \in Nat /\ m # 0 /\ n \in Nat
    BY <1>2, <2>1, <2>3
  <2>7. r # << >> /\ r[1] = f[1]
    <3>1. Len(r) # 0 /\ 1 \in 1 .. m
      BY <2>5, <2>6
    <3>. QED BY <2>5, <3>1
  <2>8. f[1] \notin Blanks
    BY <2>3 DEF ScalarStart, Digits, Minus, Blanks
  <2>9. ASSUME NEW b, NEW val, NEW key, NEW s, From(b, val, r)
        PROVE  ValueRead(b, key, val, s, f, y)
    BY <1>4, <2>1, <2>2, <2>9, ScalarValue
  <2>. QED BY <2>1, <2>5, <2>7, <2>8, <2>9
<1>. QED BY <1>1, <1>3, <1>4, MemberTexts

\* A turn of the loop stores the member and stands at y, or behind the comma.
MemberRead(b, s, i, p, y) ==
    \E next \in Nat :
       /\ i < next /\ From(b, next, y) /\ At(b, next) = y[1]
       /\ memberStep(b, s) = stored(b, FlattenSeq(p.key), FlattenSeq(p.value), next, s)

LEMMA MemberTurn ==
    ASSUME NEW b, NEW s, NEW i, i = s.i, s.more = TRUE, NEW r, From(b, i, r),
           NEW p \in JsonMembers, NEW ws \in Seq(Bytes \cap Blanks), NEW w,
           NEW t1, NEW t2, NEW t3, NEW t4, NEW t5, NEW t6,
           InMember(p, ws, w, r, t1, t2, t3, t4, t5, t6),
           NEW u, NEW y, Gap(t6, u, y)
    PROVE  MemberRead(b, s, i, p, y)
<1>1. /\ r = ws \o t1 /\ t1 = JsonQuoted(p.key) \o t2 /\ t2 = ws \o t3
      /\ t3 = <<Colon>> \o t4 /\ t4 = ws \o t5 /\ t5 = ValueText(p) \o t6
      /\ t1 \in Seq(Bytes) /\ t2 \in Seq(Bytes) /\ t3 \in Seq(Bytes)
      /\ t4 \in Seq(Bytes) /\ t5 \in Seq(Bytes)
  BY DEF InMember
<1>2. PICK us, o, key, text, S : /\ us = p.key /\ o = JsonQuoted(us) /\ key = FlattenSeq(us)
                                 /\ text = FlattenSeq(p.value) /\ S = Blanks
  OBVIOUS
<1>3. PICK x, q : QuotedIn(us, t2, t1, x, q)
  <2>1. us \in Seq(Units) /\ t1 = o \o t2
    BY <1>1, <1>2, MemberTexts
  <2>2. PICK r1 : r1 = t1
    OBVIOUS
  <2>3. PICK x, q : QuotedIn(us, t2, r1, x, q)
    BY <1>1, <1>2, <2>1, <2>2, QuotedIs
  <2>. QED BY <2>2, <2>3
<1>4. t1 # << >> /\ t1[1] \notin S
  <2>1. PICK c, r1 : c = Quote /\ r1 = t1
    OBVIOUS
  <2>2. x \in Seq(Bytes) /\ r1 = <<c>> \o x
    BY <1>3, <2>1 DEF QuotedIn
  <2>a. c \in Bytes
    BY <2>1 DEF Quote, Bytes
  <2>3. r1 # << >> /\ r1[1] = c
    BY <2>a, <2>2, HeadIs
  <2>4. c \notin S
    BY <1>2, <2>1 DEF Quote, Blanks
  <2>. QED BY <2>1, <2>3, <2>4
<1>5. PICK start : start = Skip(b, i, S)
  OBVIOUS
<1>6. start \in Nat /\ i <= start /\ From(b, start, t1)
  <2>1. Skips(b, i, r, ws, t1, S)
    BY <1>1, <1>2, <1>4 DEF Skips
  <2>. QED BY <1>5, <2>1, SkipIs
<1>7. PICK j, end : j = start + 1 /\ end = stringEnd(b, j)
  OBVIOUS
<1>8. At(b, start) = Quote /\ StringRead(b, j, key, t2, end)
  BY <1>2, <1>3, <1>6, <1>7, QuotedRead
<1>9. PICK k, colon : k = end + 1 /\ colon = Skip(b, k, S)
  OBVIOUS
<1>10. /\ j \in Nat /\ end \in Nat /\ j <= end /\ At(b, end) = Quote
       /\ substr(b, j, end) = key /\ From(b, k, t2)
  BY <1>8, <1>9 DEF StringRead
<1>11. PICK c : c = Colon
  OBVIOUS
<1>12. c \in Bytes /\ t3 # << >> /\ t3[1] = c /\ c \notin S
  <2>1. PICK r1 : r1 = t3
    OBVIOUS
  <2>2. r1 = <<c>> \o t4 /\ t4 \in Seq(Bytes)
    BY <1>1, <1>11, <2>1
  <2>a. c \in Bytes
    BY <1>11 DEF Colon, Bytes
  <2>3. r1 # << >> /\ r1[1] = c
    BY <2>a, <2>2, HeadIs
  <2>4. c \notin S
    BY <1>2, <1>11 DEF Colon, Blanks
  <2>. QED BY <2>a, <2>1, <2>3, <2>4
<1>13. colon \in Nat /\ k <= colon /\ From(b, colon, t3) /\ At(b, colon) = c
  <2>0. ws \in Seq(Bytes \cap S) /\ t3 \in Seq(Bytes) /\ t2 = ws \o t3
    BY <1>1, <1>2
  <2>1. Skips(b, k, t2, ws, t3, S)
    BY <1>10, <1>12, <2>0 DEF Skips
  <2>2. /\ colon \in Nat /\ k <= colon /\ From(b, colon, t3) /\ At(b, colon) = t3[1]
    BY <1>9, <2>1, SkipIs
  <2>. QED BY <1>12, <2>2
<1>14. PICK l, val : l = colon + 1 /\ val = Skip(b, l, S)
  OBVIOUS
<1>15. From(b, l, t4)
  <2>1. Leads(b, colon, t3, c, t4, l)
    BY <1>1, <1>11, <1>12, <1>13, <1>14 DEF Leads
  <2>. QED BY <2>1, NextByte
<1>16. /\ t5 # << >> /\ t5[1] \notin S
       /\ \A d, v, n, z : From(d, v, t5) => ValueRead(d, n, v, z, text, y)
  <2>1. PICK r1 : r1 = t5
    OBVIOUS
  <2>2. r1 = ValueText(p) \o t6
    BY <1>1, <2>1
  <2>3. /\ r1 # << >> /\ r1[1] \notin Blanks
        /\ \A d, v, n, z : From(d, v, r1) => ValueRead(d, n, v, z, text, y)
    BY <1>2, <2>2, ValueIs
  <2>. QED BY <1>2, <2>1, <2>3
<1>17. val \in Nat /\ l <= val /\ From(b, val, t5)
  <2>0. ws \in Seq(Bytes \cap S) /\ t5 \in Seq(Bytes) /\ t4 = ws \o t5
    BY <1>1, <1>2
  <2>1. Skips(b, l, t4, ws, t5, S)
    BY <1>15, <1>16, <2>0 DEF Skips
  <2>. QED BY <1>14, <2>1, SkipIs
<1>18. ValueRead(b, key, val, s, text, y)
  BY <1>16, <1>17
<1>19. memberStep(b, s) = keyAt(b, start, end, s)
  <2>1. start = Skip(b, s.i, Blanks) /\ end = stringEnd(b, start + 1)
    BY <1>2, <1>5, <1>7
  <2>. QED BY <2>1 DEF memberStep
<1>20. keyAt(b, start, end, s) = valueAt(b, key, val, s)
  <2>1. colon = Skip(b, end + 1, Blanks) /\ val = Skip(b, colon + 1, Blanks)
    BY <1>2, <1>9, <1>14
  <2>2. At(b, start) = Quote /\ At(b, end) = Quote /\ At(b, colon) = Colon
    BY <1>8, <1>10, <1>11, <1>13
  <2>3. substr(b, start + 1, end) = key
    BY <1>7, <1>10
  <2>. QED BY <2>1, <2>2, <2>3 DEF keyAt
<1>21. PICK next \in Nat : /\ val <= next /\ From(b, next, y) /\ At(b, next) = y[1]
                           /\ valueAt(b, key, val, s) = stored(b, key, text, next, s)
  BY <1>18 DEF ValueRead
<1>22. i < next
  <2>1. i \in Nat
    BY DEF From
  <2>. QED BY <1>6, <1>7, <1>9, <1>10, <1>13, <1>14, <1>17, <1>21, <2>1
<1>. QED BY <1>2, <1>19, <1>20, <1>21, <1>22 DEF MemberRead

-----------------------------------------------------------------------------
(* The loop over the members.                                              *)

JsonAt(i, post) == [i |-> i, post |-> post, more |-> TRUE]
MembersBegin(i) == JsonAt(i, NoFields)

MemberTurns(after, b, i, N) ==
    after = [n \in 0 .. N |-> IF n = 0 THEN {MembersBegin(i)}
                              ELSE {memberStep(b, s) : s \in after[n - 1]}]

LEMMA MemberTurnsExist ==
    ASSUME NEW b, NEW i, NEW N \in Nat PROVE \E after : MemberTurns(after, b, i, N)
<1>. DEFINE B == {MembersBegin(i)}
            S == {k \in 0 .. N : \E f : MemberTurns(f, b, i, k)}
<1>1. 0 \in S
  <2>. DEFINE f == [n \in 0 .. 0 |-> B]
  <2>1. f = [n \in 0 .. 0 |-> IF n = 0 THEN B ELSE {memberStep(b, s) : s \in f[n - 1]}]
    OBVIOUS
  <2>2. MemberTurns(f, b, i, 0)
    BY <2>1 DEF MemberTurns
  <2>. HIDE DEF f
  <2>. QED BY <2>2
<1>2. ASSUME NEW k \in 0 .. N - 1, k \in S PROVE k + 1 \in S
  <2>1. PICK f : MemberTurns(f, b, i, k)
    BY <1>2
  <2>2. PICK l \in 1 .. N : l = k + 1 /\ l - 1 = k
    BY <1>2
  <2>. DEFINE g == [n \in 0 .. l |-> IF n = 0 THEN B ELSE {memberStep(b, s) : s \in f[n - 1]}]
  <2>3. \A n \in 0 .. k : f[n] = IF n = 0 THEN B ELSE {memberStep(b, s) : s \in f[n - 1]}
    BY <2>1 DEF MemberTurns
  <2>4. ASSUME NEW n \in 0 .. k PROVE g[n] = f[n]
    <3>1. n \in 0 .. l
      BY <2>2
    <3>2. g[n] = IF n = 0 THEN B ELSE {memberStep(b, s) : s \in f[n - 1]}
      BY <3>1, Zenon
    <3>3. f[n] = IF n = 0 THEN B ELSE {memberStep(b, s) : s \in f[n - 1]}
      BY <2>3
    <3>. QED BY <3>2, <3>3, Zenon
  <2>5. ASSUME NEW n \in 0 .. l, n # 0
        PROVE {memberStep(b, s) : s \in f[n - 1]} = {memberStep(b, s) : s \in g[n - 1]}
    <3>1. n - 1 \in 0 .. k
      BY <2>2, <2>5
    <3>. QED BY <2>4, <3>1
  <2>. DEFINE h == [n \in 0 .. l |-> IF n = 0 THEN B ELSE {memberStep(b, s) : s \in g[n - 1]}]
  <2>6. g = h
    BY <2>5
  <2>7. MemberTurns(g, b, i, l)
    BY <2>6 DEF MemberTurns
  <2>. QED BY <2>2, <2>7
<1>3. \A k \in 0 .. N : k \in S
  <2>. HIDE DEF S
  <2>. QED BY <1>1, <1>2, Induct
<1>. QED BY <1>3

\* after[n] is where the loop over b from i on stands after n turns.
MemberLoop(after, b, i) ==
    /\ after[0] = {MembersBegin(i)} /\ Members(b, i) = The(after[Len(b)]).post
    /\ \A n \in 0 .. Len(b) - 1 : after[n + 1] = {memberStep(b, s) : s \in after[n]}

LEMMA MemberLoopIs ==
    ASSUME NEW b \in Seq(Bytes), NEW i PROVE \E after : MemberLoop(after, b, i)
<1>. DEFINE N == Len(b)
            after == CHOOSE f : MemberTurns(f, b, i, N)
<1>1. N \in Nat
  OBVIOUS
<1>2. MemberTurns(after, b, i, N)
  <2>. HIDE DEF N
  <2>. QED BY <1>1, MemberTurnsExist
<1>3. Members(b, i) = The(after[N]).post
  BY Zenon DEF Members, MemberTurns, MembersBegin, JsonAt
<1>. HIDE DEF after
<1>4. after[0] = {MembersBegin(i)}
  BY <1>1, <1>2 DEF MemberTurns
<1>5. ASSUME NEW n \in 0 .. N - 1 PROVE after[n + 1] = {memberStep(b, s) : s \in after[n]}
  <2>1. PICK m \in 0 .. N : m = n + 1 /\ m - 1 = n /\ m # 0
    OBVIOUS
  <2>. HIDE DEF N
  <2>2. after[m] = {memberStep(b, s) : s \in after[m - 1]}
    BY <1>2, <2>1 DEF MemberTurns
  <2>. QED BY <2>1, <2>2
<1>. QED BY <1>3, <1>4, <1>5 DEF MemberLoop

LEMMA MembersCome ==
    ASSUME NEW b \in Seq(Bytes), NEW i, NEW after, MemberLoop(after, b, i),
           NEW s, Comes(after, b, s), NEW t, t = memberStep(b, s),
           s.i \in Nat, t.i \in Nat, s.i < Len(b), s.i < t.i
    PROVE  Comes(after, b, t)
<1>1. PICK n \in 0 .. Len(b) : n <= s.i /\ after[n] = {s}
  BY DEF Comes
<1>2. PICK m : m = n + 1
  OBVIOUS
<1>3. n \in 0 .. Len(b) - 1 /\ m \in 0 .. Len(b) /\ m <= t.i
  BY <1>1, <1>2
<1>4. after[n + 1] = {memberStep(b, r) : r \in after[n]}
  BY <1>3 DEF MemberLoop
<1>5. after[m] = {t}
  BY <1>1, <1>2, <1>4
<1>. QED BY <1>3, <1>5 DEF Comes

\* The loop has stored post; the object ends behind blanks.
ComesToClose(after, b, post) ==
    \E i, u, y : /\ Comes(after, b, JsonAt(i, post)) /\ From(b, i, u \o y)
                 /\ Gap(u \o y, u, y) /\ y[1] = Close

LEMMA MembersEnd ==
    ASSUME NEW b \in Seq(Bytes), NEW i, NEW after, MemberLoop(after, b, i),
           NEW post, ComesToClose(after, b, post)
    PROVE  Members(b, i) = post
<1>0. PICK o, u, y : /\ Comes(after, b, JsonAt(o, post)) /\ From(b, o, u \o y)
                     /\ Gap(u \o y, u, y) /\ y[1] = Close
  BY DEF ComesToClose
<1>a. PICK s : s = [i |-> o, post |-> post, more |-> TRUE]
  OBVIOUS
<1>1. /\ Comes(after, b, s) /\ s.more = TRUE /\ s.post = post
      /\ From(b, s.i, u \o y) /\ Gap(u \o y, u, y) /\ y[1] = Close
  BY <1>0, <1>a DEF JsonAt
<1>2. PICK t, l, e, L : t = u \o y /\ l = s.i /\ e = Skip(b, l, Blanks) /\ L = Len(b)
  OBVIOUS
<1>3. At(b, e) = Close
  <2>1. From(b, l, t) /\ Gap(t, u, y)
    BY <1>1, <1>2
  <2>2. At(b, e) = y[1]
    BY <1>2, <2>1, GapSkipped
  <2>. QED BY <1>1, <2>2
<1>4. PICK f : f = failed(s)
  OBVIOUS
<1>5. memberStep(b, s) = f
  <2>1. memberStep(b, s) = keyAt(b, e, stringEnd(b, e + 1), s)
    BY <1>1, <1>2 DEF memberStep
  <2>2. At(b, e) # Quote
    BY <1>3 DEF Close, Quote
  <2>. QED BY <1>4, <2>1, <2>2 DEF keyAt
<1>6. PICK n \in 0 .. L : n <= l /\ after[n] = {s}
  BY <1>1, <1>2 DEF Comes
<1>7. n \in 0 .. L - 1 /\ L \in Nat
  <2>1. l \in Nat /\ l + Len(t) = L /\ t \in Seq(Bytes)
    BY <1>1, <1>2 DEF From
  <2>2. t # << >>
    <3>1. Gap(t, u, y)
      BY <1>1, <1>2
    <3>. QED BY <3>1, GapStops
  <2>3. Len(t) \in Nat /\ Len(t) # 0
    BY <2>1, <2>2
  <2>. QED BY <1>2, <1>6, <2>1, <2>3
<1>8. \A k \in 0 .. L - 1 : after[k + 1] = {memberStep(b, r) : r \in after[k]}
  BY <1>2 DEF MemberLoop
<1>9. PICK m : m = n + 1
  OBVIOUS
<1>10. after[m] = {f} /\ m \in 0 .. L
  BY <1>5, <1>6, <1>7, <1>8, <1>9
<1>b. f = [i |-> o, post |-> post, more |-> FALSE]
  BY <1>a, <1>4 DEF failed
<1>11. f.post = post
  BY <1>b
<1>12. memberStep(b, f) = f
  <2>1. f.more = FALSE
    BY <1>b
  <2>. QED BY <2>1 DEF memberStep
<1>. DEFINE N == L - m
            S == {k \in 0 .. N : after[m + k] = {f}}
<1>13. N \in Nat /\ 0 \in S
  BY <1>7, <1>9, <1>10
<1>14. ASSUME NEW k \in 0 .. N - 1, k \in S PROVE k + 1 \in S
  <2>1. PICK d : d = m + k
    OBVIOUS
  <2>2. d \in 0 .. L - 1 /\ d + 1 = m + (k + 1) /\ k + 1 \in 0 .. N
    BY <1>7, <1>10, <2>1
  <2>3. after[d + 1] = {memberStep(b, r) : r \in after[d]}
    BY <1>8, <2>2
  <2>4. after[d] = {f}
    BY <1>14, <2>1
  <2>5. after[d + 1] = {f}
    BY <1>12, <2>3, <2>4
  <2>. QED BY <2>2, <2>5
<1>15. N \in S
  <2>1. \A k \in 0 .. N : k \in S
    <3>. HIDE DEF N, S
    <3>. QED BY <1>13, <1>14, Induct
  <2>2. N \in 0 .. N
    BY <1>13
  <2>. HIDE DEF N, S
  <2>. QED BY <2>1, <2>2
<1>16. m + N = L
  BY <1>7, <1>10
<1>17. after[Len(b)] = {f}
  BY <1>2, <1>15, <1>16
<1>. QED BY <1>11, <1>17, TheOne DEF MemberLoop

\* The loop has stored post, and r stands where it is.
ComesToMember(after, b, r, post) ==
    \E i : Comes(after, b, JsonAt(i, post)) /\ From(b, i, r)

WithMember(post, p) == Stored(post, FlattenSeq(p.key), FlattenSeq(p.value))

\* The loop has stored p too, and y is what it found behind it.
PassedMember(after, b, p, post, y) ==
    \E next : /\ From(b, next, y)
              /\ Comes(after, b, JsonAt(IF y[1] = Comma THEN next + 1 ELSE next,
                                        WithMember(post, p)))

\* r begins with the member p, and w follows it.
Begins(p, ws, r, w) ==
    /\ p \in JsonMembers /\ ws \in Seq(Bytes \cap Blanks) /\ w \in Seq(Bytes)
    /\ r = MemberText(p, ws) \o w

LEMMA MemberPassed ==
    ASSUME NEW b \in Seq(Bytes), NEW a, NEW after, MemberLoop(after, b, a),
           NEW r, NEW post, ComesToMember(after, b, r, post),
           NEW p, NEW ws, NEW w, Begins(p, ws, r, w), NEW u, NEW y, Gap(ws \o w, u, y)
    PROVE  PassedMember(after, b, p, post, y)
<1>1. PICK i : Comes(after, b, JsonAt(i, post)) /\ From(b, i, r)
  BY DEF ComesToMember
<1>2. PICK s, L : s = [i |-> i, post |-> post, more |-> TRUE] /\ L = Len(b)
  OBVIOUS
<1>b. L \in Nat
  BY <1>2
<1>3. Comes(after, b, s) /\ s.i = i /\ s.more = TRUE /\ s.post = post
  BY <1>1, <1>2 DEF JsonAt
<1>4. /\ p \in JsonMembers /\ ws \in Seq(Bytes \cap Blanks) /\ w \in Seq(Bytes)
      /\ r = MemberText(p, ws) \o w
  BY DEF Begins
<1>5. ws \in Seq(Bytes)
  <2>1. Bytes \cap Blanks \subseteq Bytes
    OBVIOUS
  <2>. QED BY <1>4, <2>1, SeqMonotonic
<1>6. PICK t1, t2, t3, t4, t5, t6 : InMember(p, ws, w, r, t1, t2, t3, t4, t5, t6)
  <2>1. PICK t1, t2, t3, t4, t5, t6 :
           InMember(p, ws, w, MemberText(p, ws) \o w, t1, t2, t3, t4, t5, t6)
    BY <1>4, <1>5, MemberIs
  <2>. QED BY <1>4, <2>1
<1>7. Gap(t6, u, y)
  <2>1. t6 = ws \o w
    BY <1>6 DEF InMember
  <2>. QED BY <2>1
<1>8. MemberRead(b, s, i, p, y)
  BY <1>1, <1>3, <1>4, <1>6, <1>7, MemberTurn
<1>9. PICK next \in Nat :
         /\ i < next /\ From(b, next, y) /\ At(b, next) = y[1]
         /\ memberStep(b, s) = stored(b, FlattenSeq(p.key), FlattenSeq(p.value), next, s)
  BY <1>8 DEF MemberRead
<1>10. PICK j, q : j = (IF y[1] = Comma THEN next + 1 ELSE next) /\ q = WithMember(post, p)
  OBVIOUS
<1>11. PICK t : t = memberStep(b, s)
  OBVIOUS
<1>12. t = [i |-> j, post |-> q, more |-> TRUE]
  BY <1>3, <1>9, <1>10, <1>11 DEF stored, WithMember
<1>13. i \in Nat /\ L \in Nat /\ next < L
  <2>1. i \in Nat /\ next + Len(y) = L /\ y \in Seq(Bytes)
    BY <1>1, <1>2, <1>9 DEF From
  <2>2. y # << >>
    BY DEF Gap
  <2>3. Len(y) \in Nat /\ Len(y) # 0
    BY <2>1, <2>2
  <2>. QED BY <1>9, <1>b, <2>1, <2>3
<1>14. j \in Nat /\ i < j
  BY <1>9, <1>10, <1>13
<1>15. i < L
  BY <1>2, <1>9, <1>13
<1>16. s.i \in Nat /\ t.i \in Nat /\ s.i < Len(b) /\ s.i < t.i
  BY <1>2, <1>3, <1>12, <1>13, <1>14, <1>15
<1>17. Comes(after, b, t)
  BY <1>3, <1>11, <1>16, MembersCome
<1>. QED BY <1>9, <1>10, <1>12, <1>17 DEF PassedMember, JsonAt

\* Behind a comma stands the next member.
LEMMA NextMember ==
    ASSUME NEW b \in Seq(Bytes), NEW a, NEW after, MemberLoop(after, b, a),
           NEW r, NEW post, ComesToMember(after, b, r, post),
           NEW p, NEW ws, NEW w, Begins(p, ws, r, w),
           NEW q \in Seq(Bytes), w = <<Comma>> \o q
    PROVE  ComesToMember(after, b, q, WithMember(post, p))
<1>1. PICK c, y : c = Comma /\ y = w
  OBVIOUS
<1>2. c \in Bytes /\ y = <<c>> \o q
  BY <1>1 DEF Comma, Bytes
<1>3. y \in Seq(Bytes) /\ y # << >> /\ y[1] = c
  BY <1>2, HeadIs
<1>4. Gap(ws \o y, ws, y)
  BY <1>1, <1>3 DEF Gap, Begins
<1>5. Begins(p, ws, r, y)
  BY <1>1
<1>6. PassedMember(after, b, p, post, y)
  BY <1>4, <1>5, MemberPassed
<1>7. PICK next : /\ From(b, next, y)
                  /\ Comes(after, b, JsonAt(next + 1, WithMember(post, p)))
  BY <1>1, <1>3, <1>6 DEF PassedMember
<1>8. PICK j : j = next + 1
  OBVIOUS
<1>9. From(b, j, q)
  <2>1. Leads(b, next, y, c, q, j)
    BY <1>2, <1>7, <1>8 DEF Leads
  <2>. QED BY <2>1, NextByte
<1>. QED BY <1>7, <1>8, <1>9 DEF ComesToMember

\* Behind the last member the object is closed.
LEMMA LastMember ==
    ASSUME NEW b \in Seq(Bytes), NEW a, NEW after, MemberLoop(after, b, a),
           NEW r, NEW post, ComesToMember(after, b, r, post),
           NEW p, NEW ws, NEW w, Begins(p, ws, r, w),
           NEW y, y = <<Close>> \o ws, w = ws \o y
    PROVE  ComesToClose(after, b, WithMember(post, p))
<1>1. PICK c, v, x, o : c = Close /\ v = y /\ x = w /\ o = ws \o ws
  OBVIOUS
<1>2. ws \in Seq(Bytes \cap Blanks) /\ ws \in Seq(Bytes)
  <2>1. Bytes \cap Blanks \subseteq Bytes
    OBVIOUS
  <2>2. ws \in Seq(Bytes \cap Blanks)
    BY DEF Begins
  <2>. QED BY <2>1, <2>2, SeqMonotonic
<1>3. c \in Bytes /\ v = <<c>> \o ws
  BY <1>1 DEF Close, Bytes
<1>4. v \in Seq(Bytes) /\ v # << >> /\ v[1] = c
  BY <1>2, <1>3, HeadIs
<1>5. Laps(o, ws, ws, x, v)
  BY <1>1, <1>2, <1>4 DEF Laps
<1>6. o \o v = ws \o x
  BY <1>5, Reassociate
<1>7. o \in Seq(Bytes \cap Blanks)
  BY <1>1, <1>2, ConcatProperties
<1>8. Gap(ws \o x, o, v)
  BY <1>1, <1>4, <1>6, <1>7 DEF Gap
<1>9. Begins(p, ws, r, x)
  BY <1>1
<1>10. PassedMember(after, b, p, post, v)
  BY <1>8, <1>9, MemberPassed
<1>11. v[1] # Comma
  BY <1>1, <1>4 DEF Close, Comma
<1>12. PICK next : From(b, next, v) /\ Comes(after, b, JsonAt(next, WithMember(post, p)))
  BY <1>10, <1>11 DEF PassedMember
<1>13. PICK e : e = << >>
  OBVIOUS
<1>14. e \in Seq(Bytes \cap Blanks) /\ e \o v = v
  BY <1>4, <1>13, ConcatEmptySeq
<1>15. From(b, next, e \o v) /\ Gap(e \o v, e, v) /\ v[1] = Close
  BY <1>1, <1>4, <1>12, <1>14 DEF Gap
<1>. QED BY <1>12, <1>15 DEF ComesToClose

\* The members of an object, each but the first behind a comma.
JsonLinked(d, ws) ==
    [k \in DOMAIN d |-> IF k = 1 THEN MemberText(d[k], ws) ELSE <<Comma>> \o MemberText(d[k], ws)]

LEMMA LinksAre ==
    ASSUME NEW d \in Seq(JsonMembers), NEW ws \in Seq(Bytes), NEW N, N = Len(d),
           NEW ss, ss = JsonLinked(d, ws)
    PROVE  /\ N \in Nat /\ DOMAIN d = 1 .. N /\ ss \in Seq(Seq(Bytes)) /\ Len(ss) = N
           /\ \A k \in 1 .. N : d[k] \in JsonMembers /\ MemberText(d[k], ws) \in Seq(Bytes)
<1>1. N \in Nat /\ DOMAIN d = 1 .. N /\ \A k \in 1 .. N : d[k] \in JsonMembers
  OBVIOUS
<1>2. ASSUME NEW k \in 1 .. N PROVE MemberText(d[k], ws) \in Seq(Bytes)
  <2>1. PICK p, w : p = d[k] /\ w = << >>
    OBVIOUS
  <2>2. p \in JsonMembers /\ w \in Seq(Bytes)
    BY <1>1, <2>1
  <2>3. MemberText(p, ws) \in Seq(Bytes)
    BY <2>2, MemberIs
  <2>. QED BY <2>1, <2>3
<1>3. ASSUME NEW k \in 1 .. N PROVE ss[k] \in Seq(Bytes)
  <2>1. PICK x, one : x = MemberText(d[k], ws) /\ one = <<Comma>>
    OBVIOUS
  <2>2. x \in Seq(Bytes) /\ one \in Seq(Bytes)
    BY <1>2, <2>1 DEF Comma, Bytes
  <2>3. one \o x \in Seq(Bytes)
    BY <2>2, ConcatProperties
  <2>4. ss[k] = IF k = 1 THEN x ELSE one \o x
    BY <1>1, <2>1 DEF JsonLinked
  <2>. QED BY <2>2, <2>3, <2>4
<1>4. ss \in [1 .. N -> Seq(Bytes)]
  BY <1>1, <1>3 DEF JsonLinked
<1>5. ss \in Seq(Seq(Bytes)) /\ Len(ss) = N
  BY <1>1, <1>4, FunctionIsSeq
<1>. QED BY <1>1, <1>2, <1>5

\* The body of an object in parts: behind its opening brace stands t.
InObject(d, ws, b, J, c, z, t) ==
    /\ J = FlattenSeq(JsonLinked(d, ws)) /\ c = <<Close>> \o ws /\ z = ws \o c /\ t = J \o z
    /\ b = ws \o (<<Open>> \o t)
    /\ J \in Seq(Bytes) /\ c \in Seq(Bytes) /\ z \in Seq(Bytes) /\ t \in Seq(Bytes)
    /\ b \in Seq(Bytes)

LEMMA JsonBodyIs ==
    ASSUME NEW d \in Seq(JsonMembers), NEW ws \in Seq(Bytes), NEW b, b = JsonBody(d, ws)
    PROVE  \E J, c, z, t : InObject(d, ws, b, J, c, z, t)
<1>1. PICK ss, o, J, e, N : /\ ss = JsonLinked(d, ws) /\ o = <<Open>> /\ J = FlattenSeq(ss)
                            /\ e = <<Close>> /\ N = Len(d)
  OBVIOUS
<1>2. /\ ss \in Seq(Seq(Bytes)) /\ Len(ss) = N /\ N \in Nat
  BY <1>1, LinksAre
<1>3. PICK f : Joins(f, ss, N)
  BY <1>2, JoinsExist
<1>4. J \in Seq(Bytes)
  <2>1. FlattenSeq(ss) = f[N] /\ \A n \in 0 .. N : f[n] \in Seq(Bytes)
    BY <1>2, <1>3, FlattenIs
  <2>2. N \in 0 .. N
    BY <1>2
  <2>. QED BY <1>1, <2>1, <2>2
<1>5. o \in Seq(Bytes) /\ e \in Seq(Bytes)
  BY <1>1 DEF Open, Close, Bytes
<1>6. PICK a1, a2, a3, a4, a5 : /\ a1 = ws \o o /\ a2 = a1 \o J /\ a3 = a2 \o ws
                                /\ a4 = a3 \o e /\ a5 = a4 \o ws
  OBVIOUS
<1>7. PICK c, z, t, x : c = e \o ws /\ z = ws \o c /\ t = J \o z /\ x = o \o t
  OBVIOUS
<1>8. a1 \in Seq(Bytes)
  BY <1>5, <1>6, ConcatProperties
<1>9. a2 \in Seq(Bytes)
  BY <1>4, <1>6, <1>8, ConcatProperties
<1>10. a3 \in Seq(Bytes)
  BY <1>6, <1>9, ConcatProperties
<1>11. a4 \in Seq(Bytes)
  BY <1>5, <1>6, <1>10, ConcatProperties
<1>12. a5 \in Seq(Bytes)
  BY <1>6, <1>11, ConcatProperties
<1>13. Laps(a4, a3, e, c, ws)
  BY <1>5, <1>6, <1>7, <1>10 DEF Laps
<1>14. a4 \o ws = a3 \o c /\ c \in Seq(Bytes)
  BY <1>13, Reassociate
<1>15. Laps(a3, a2, ws, z, c)
  BY <1>6, <1>7, <1>9, <1>14 DEF Laps
<1>16. a3 \o c = a2 \o z /\ z \in Seq(Bytes)
  BY <1>15, Reassociate
<1>17. Laps(a2, a1, J, t, z)
  BY <1>4, <1>6, <1>7, <1>8, <1>16 DEF Laps
<1>18. a2 \o z = a1 \o t /\ t \in Seq(Bytes)
  BY <1>17, Reassociate
<1>19. Laps(a1, ws, o, x, t)
  BY <1>5, <1>6, <1>7, <1>18 DEF Laps
<1>20. a1 \o t = ws \o x
  BY <1>19, Reassociate
<1>21. a5 = ws \o x
  BY <1>6, <1>14, <1>16, <1>18, <1>20
<1>22. JsonBody(d, ws) = a5
  <2>. DEFINE ts == [k \in DOMAIN d |-> MemberText(d[k], ws)]
  <2>1. JsonBody(d, ws) = ws \o <<Open>> \o Joined(ts, <<Comma>>) \o ws \o <<Close>> \o ws
    BY DEF JsonBody, MemberText, JsonQuoted, ValueText
  <2>2. [k \in DOMAIN ts |-> IF k = 1 THEN ts[k] ELSE <<Comma>> \o ts[k]] = ss
    BY <1>1 DEF JsonLinked
  <2>3. Joined(ts, <<Comma>>) = J
    <3>. HIDE DEF ts
    <3>. QED BY <1>1, <2>2 DEF Joined
  <2>. HIDE DEF ts
  <2>. QED BY <1>1, <1>6, <2>1, <2>3
<1>23. PICK bb : bb = b /\ bb = a5
  BY <1>22
<1>24. InObject(d, ws, bb, J, c, z, t)
  BY <1>1, <1>4, <1>7, <1>12, <1>14, <1>16, <1>18, <1>21, <1>23 DEF InObject
<1>. QED BY <1>23, <1>24

-----------------------------------------------------------------------------
(* The whole object.                                                       *)

IsJson(c) ==
    c.type = "json" /\ c.fields \in Seq(JsonMembers) /\ c.space \in Seq(Blanks \ {13})

LEMMA JsonRun ==
    ASSUME NEW c, IsJson(c), NEW b, b = Body(c)
    PROVE  ParseFromJson_(b) = Fields(c)
<1>1. PICK d, ws, N, ss : d = c.fields /\ ws = c.space /\ N = Len(d) /\ ss = JsonLinked(d, ws)
  OBVIOUS
<1>2. c.type = "json" /\ d \in Seq(JsonMembers) /\ ws \in Seq(Bytes \cap Blanks) /\ ws \in Seq(Bytes)
  <2>1. Blanks \ {13} \subseteq Bytes \cap Blanks /\ Bytes \cap Blanks \subseteq Bytes
    BY DEF Blanks, Bytes
  <2>2. PICK S : S = Blanks \ {13}
    OBVIOUS
  <2>3. ws \in Seq(S)
    BY <1>1, <2>2 DEF IsJson
  <2>4. ws \in Seq(Bytes \cap Blanks)
    BY <2>1, <2>2, <2>3, SeqMonotonic
  <2>5. ws \in Seq(Bytes)
    BY <2>1, <2>4, SeqMonotonic
  <2>. QED BY <1>1, <2>4, <2>5 DEF IsJson
<1>3. /\ N \in Nat /\ DOMAIN d = 1 .. N /\ ss \in Seq(Seq(Bytes)) /\ Len(ss) = N
      /\ \A k \in 1 .. N : d[k] \in JsonMembers /\ MemberText(d[k], ws) \in Seq(Bytes)
  <2>1. d \in Seq(JsonMembers) /\ ws \in Seq(Bytes) /\ N = Len(d) /\ ss = JsonLinked(d, ws)
    BY <1>1, <1>2
  <2>2. N \in Nat /\ DOMAIN d = 1 .. N /\ ss \in Seq(Seq(Bytes)) /\ Len(ss) = N
    BY <2>1, LinksAre
  <2>3. ASSUME NEW k \in 1 .. N PROVE d[k] \in JsonMembers /\ MemberText(d[k], ws) \in Seq(Bytes)
    <3>1. \A n \in 1 .. N : d[n] \in JsonMembers /\ MemberText(d[n], ws) \in Seq(Bytes)
      BY <2>1, LinksAre, Zenon
    <3>. QED BY <3>1
  <2>. QED BY <2>2, <2>3
<1>4. PICK J, e, z, t : InObject(d, ws, b, J, e, z, t)
  <2>1. b = JsonBody(d, ws)
    BY <1>1, <1>2 DEF Body
  <2>. QED BY <1>2, <2>1, JsonBodyIs
<1>5. /\ J = FlattenSeq(ss) /\ e = <<Close>> \o ws /\ z = ws \o e /\ t = J \o z
      /\ J \in Seq(Bytes) /\ e \in Seq(Bytes) /\ z \in Seq(Bytes) /\ t \in Seq(Bytes)
      /\ b \in Seq(Bytes)
  BY <1>1, <1>4 DEF InObject
<1>6. PICK start, j : start = Skip(b, 0, Blanks) /\ j = start + 1
  OBVIOUS
<1>7. At(b, start) = Open /\ From(b, j, t) /\ j \in Nat /\ j <= Len(b)
  <2>1. PICK o, S, i, x, bb : o = Open /\ S = Blanks /\ i = 0 /\ x = <<o>> \o t /\ bb = b
    OBVIOUS
  <2>2. o \in Bytes /\ o \notin S
    BY <2>1 DEF Open, Bytes, Blanks
  <2>3. x \in Seq(Bytes) /\ x # << >> /\ x[1] = o
    BY <1>5, <2>1, <2>2, HeadIs
  <2>4. From(bb, i, bb)
    BY <1>5, <2>1, FromStart
  <2>5. bb = ws \o x
    BY <1>4, <2>1 DEF InObject
  <2>6. Skips(bb, i, bb, ws, x, S)
    BY <1>2, <2>1, <2>2, <2>3, <2>4, <2>5 DEF Skips
  <2>7. start = Skip(bb, i, S)
    BY <1>6, <2>1
  <2>8. From(bb, start, x) /\ At(bb, start) = x[1]
    BY <2>6, <2>7, SkipIs
  <2>9. Leads(bb, start, x, o, t, j)
    BY <1>5, <1>6, <2>1, <2>2, <2>8 DEF Leads
  <2>10. j \in Nat /\ j <= Len(bb) /\ From(bb, j, t)
    BY <2>9, NextByte
  <2>. QED BY <2>1, <2>3, <2>8, <2>10
<1>8. ParseFromJson_(b) = Members(b, j)
  BY <1>6, <1>7 DEF ParseFromJson_
<1>9. PICK after : MemberLoop(after, b, j)
  BY <1>5, MemberLoopIs
<1>10. Comes(after, b, JsonAt(j, NoFields))
  <2>1. after[0] = {JsonAt(j, NoFields)}
    BY <1>9 DEF MemberLoop, MembersBegin
  <2>2. JsonAt(j, NoFields).i = j
    BY DEF JsonAt
  <2>3. 0 \in 0 .. Len(b) /\ 0 <= j
    BY <1>5, <1>7
  <2>. QED BY <2>1, <2>2, <2>3 DEF Comes
<1>11. PICK g : Follows(g, ss, Bytes) /\ g[0] = J
  <2>1. PICK g : Follows(g, ss, Bytes) /\ g[0] = FlattenSeq(ss)
    BY <1>3, FollowsExist
  <2>. QED BY <1>5, <2>1
<1>12. /\ g[N] = << >>
       /\ \A n \in 0 .. N : g[n] \in Seq(Bytes)
       /\ \A n \in 1 .. N : g[n - 1] = ss[n] \o g[n]
  BY <1>3, <1>11 DEF Follows
<1>13. PICK first : /\ Fields(c) = first[N] /\ first[0] = NoFields
                    /\ \A n \in 1 .. N : first[n] = WithMember(first[n - 1], d[n])
  <2>1. N \in Nat /\ N = Len(c.fields)
    BY <1>1, <1>3
  <2>2. PICK first : /\ Fields(c) = first[N] /\ first[0] = NoFields
                     /\ \A n \in 1 .. N : first[n] = Stored(first[n - 1], Named(c, c.fields[n]),
                                                            Meant(c, c.fields[n]))
    BY <2>1, FieldsAre
  <2>3. ASSUME NEW p PROVE Named(c, p) = FlattenSeq(p.key) /\ Meant(c, p) = FlattenSeq(p.value)
    BY <1>2 DEF Named, Meant
  <2>. QED BY <1>1, <2>2, <2>3 DEF WithMember
<1>14. CASE N = 0
  <2>1. J = << >>
    BY <1>11, <1>12, <1>14
  <2>2. t = ws \o e
    <3>1. J \o z = z
      BY <1>5, <2>1, ConcatEmptySeq
    <3>. QED BY <1>5, <3>1
  <2>3. PICK o, v : o = Close /\ v = e
    OBVIOUS
  <2>4. v # << >> /\ v[1] = o
    <3>1. o \in Bytes /\ v = <<o>> \o ws
      BY <1>5, <2>3 DEF Close, Bytes
    <3>. QED BY <1>2, <3>1, HeadIs
  <2>5. Gap(ws \o v, ws, v)
    BY <1>2, <1>5, <2>3, <2>4 DEF Gap
  <2>6. From(b, j, ws \o v)
    BY <1>7, <2>2, <2>3
  <2>7. ComesToClose(after, b, NoFields)
    BY <1>10, <2>3, <2>4, <2>5, <2>6 DEF ComesToClose
  <2>8. Members(b, j) = NoFields
    BY <1>5, <1>9, <2>7, MembersEnd
  <2>. QED BY <1>8, <1>13, <1>14, <2>8
<1>15. CASE N # 0
  <2>. DEFINE Rest(n) == g[n] \o z
              S == {n \in 0 .. N : n # 0 =>
                       ComesToMember(after, b, MemberText(d[n], ws) \o Rest(n), first[n - 1])}
  <2>1. 0 \in S
    BY <1>3
  <2>2. ASSUME NEW n \in 0 .. N - 1, n \in S PROVE n + 1 \in S
    <3>1. PICK m \in 1 .. N : m = n + 1 /\ m - 1 = n
      BY <1>3, <2>2
    <3>2. PICK p, x, y, w, q : /\ p = d[m] /\ x = MemberText(p, ws) /\ y = g[m]
                               /\ w = y \o z /\ q = x \o w
      OBVIOUS
    <3>3. p \in JsonMembers /\ x \in Seq(Bytes) /\ y \in Seq(Bytes)
      <4>1. m \in 0 .. N /\ m \in 1 .. N
        BY <1>3, <3>1
      <4>. QED BY <1>3, <1>12, <3>2, <4>1
    <3>4. w \in Seq(Bytes)
      BY <1>5, <3>2, <3>3, ConcatProperties
    <3>5. q \in Seq(Bytes)
      BY <3>2, <3>3, <3>4, ConcatProperties
    <3>6. PICK l, o : l = (IF m = 1 THEN x ELSE <<Comma>> \o x) /\ o = g[n]
      OBVIOUS
    <3>7. o = l \o y
      <4>1. m \in 1 .. N
        BY <3>1
      <4>2. g[m - 1] = ss[m] \o g[m]
        BY <1>12, <4>1
      <4>3. ss[m] = l
        BY <1>1, <1>3, <3>2, <3>6, <4>1 DEF JsonLinked
      <4>. QED BY <3>1, <3>2, <3>6, <4>2, <4>3
    <3>8. ComesToMember(after, b, q, first[n])
      <4>1. CASE n = 0
        <5>1. m = 1
          BY <3>1, <4>1
        <5>2. l = x
          BY <3>6, <5>1
        <5>3. Laps(o, x, y, w, z)
          BY <1>5, <3>2, <3>3, <3>7, <5>2 DEF Laps
        <5>4. o \o z = x \o w
          BY <5>3, Reassociate
        <5>5. t = q
          <6>1. o = J
            BY <1>11, <3>6, <4>1
          <6>. QED BY <1>5, <3>2, <5>4, <6>1
        <5>6. first[n] = NoFields
          BY <1>13, <4>1
        <5>. QED BY <1>7, <1>10, <5>5, <5>6 DEF ComesToMember
      <4>2. CASE n # 0
        <5>1. n \in 1 .. N
          BY <1>3, <4>2
        <5>2. PICK f, r, post, v : /\ f = d[n] /\ post = first[n - 1] /\ v = o \o z
                                   /\ r = MemberText(f, ws) \o v
          OBVIOUS
        <5>3. PICK one, u, k : one = <<Comma>> /\ u = one \o x /\ k = y \o z
          OBVIOUS
        <5>4. l = u
          <6>1. m # 1
            BY <3>1, <4>2
          <6>. QED BY <3>6, <5>3, <6>1
        <5>5. one \in Seq(Bytes) /\ u \in Seq(Bytes)
          <6>1. one \in Seq(Bytes)
            BY <5>3 DEF Comma, Bytes
          <6>. QED BY <3>3, <5>3, <6>1, ConcatProperties
        <5>6. Laps(o, u, y, w, z)
          BY <1>5, <3>2, <3>3, <3>7, <5>4, <5>5 DEF Laps
        <5>7. o \o z = u \o w
          BY <5>6, Reassociate
        <5>8. Laps(u, one, x, q, w)
          BY <3>2, <3>3, <3>4, <5>3, <5>5 DEF Laps
        <5>9. u \o w = one \o q
          BY <5>8, Reassociate
        <5>10. v = <<Comma>> \o q
          BY <5>2, <5>3, <5>7, <5>9
        <5>11. ComesToMember(after, b, r, post)
          BY <2>2, <3>6, <4>2, <5>2
        <5>12. v \in Seq(Bytes)
          BY <3>5, <5>3, <5>5, <5>7, <5>9, <5>2, ConcatProperties
        <5>13. Begins(f, ws, r, v)
          <6>1. f \in JsonMembers
            BY <1>3, <5>1, <5>2
          <6>. QED BY <1>2, <5>2, <5>12, <6>1 DEF Begins
        <5>14. ComesToMember(after, b, q, WithMember(post, f))
          BY <1>5, <1>9, <3>5, <5>10, <5>11, <5>13, NextMember
        <5>15. first[n] = WithMember(post, f)
          BY <1>13, <5>1, <5>2
        <5>. QED BY <5>14, <5>15
      <4>. QED BY <4>1, <4>2
    <3>9. n + 1 \in 0 .. N
      BY <1>3, <3>1
    <3>10. MemberText(d[m], ws) \o Rest(m) = q
      BY <3>2
    <3>11. ComesToMember(after, b, MemberText(d[m], ws) \o Rest(m), first[m - 1])
      BY <3>1, <3>8, <3>10
    <3>. HIDE DEF Rest
    <3>. QED BY <3>1, <3>9, <3>11
  <2>3. N \in S
    <3>1. \A n \in 0 .. N : n \in S
      <4>. HIDE DEF S
      <4>. QED BY <1>3, <2>1, <2>2, Induct
    <3>2. N \in 0 .. N
      BY <1>3
    <3>. HIDE DEF S
    <3>. QED BY <3>1, <3>2
  <2>4. PICK p, r, post, w, y : /\ p = d[N] /\ post = first[N - 1] /\ w = z /\ y = e
                                /\ r = MemberText(p, ws) \o w
    OBVIOUS
  <2>5. ComesToMember(after, b, r, post)
    <3>1. ComesToMember(after, b, MemberText(d[N], ws) \o Rest(N), first[N - 1])
      BY <1>15, <2>3
    <3>2. Rest(N) = z
      <4>1. << >> \o z = z
        BY <1>5, ConcatEmptySeq
      <4>. QED BY <1>12, <4>1
    <3>. HIDE DEF Rest
    <3>. QED BY <2>4, <3>1, <3>2
  <2>6. N \in 1 .. N
    BY <1>3, <1>15
  <2>7. Begins(p, ws, r, w)
    <3>1. p \in JsonMembers
      BY <1>3, <2>4, <2>6
    <3>. QED BY <1>2, <1>5, <2>4, <3>1 DEF Begins
  <2>8. y = <<Close>> \o ws /\ w = ws \o y
    BY <1>5, <2>4
  <2>9. ComesToClose(after, b, WithMember(post, p))
    BY <1>5, <1>9, <2>5, <2>7, <2>8, LastMember
  <2>10. first[N] = WithMember(post, p)
    BY <1>13, <2>4, <2>6
  <2>11. Members(b, j) = first[N]
    BY <1>5, <1>9, <2>9, <2>10, MembersEnd
  <2>. QED BY <1>8, <1>13, <2>11
<1>. QED BY <1>14, <1>15

-----------------------------------------------------------------------------
(* What is stored of a body.                                               *)

\* A request has one content type, and the content is one a client may send.
ContentInv ==
    /\ requests \in Requests /\ content \in Contents
    /\ \A i \in DOMAIN requests : ~ ({"form", "json"} \subseteq Range(requests[i].headers))

LEMMA ContentInvariant == Spec => []ContentInv
<1>1. Init => ContentInv
  <2>. SUFFICES ASSUME Init PROVE ContentInv
    OBVIOUS
  <2>1. PICK s \in Sessions : requests = s.requests /\ content = s.content
    BY DEF Init
  <2>2. s \in [requests : Requests, content : Contents]
    BY HttpRequestAssumption DEF Requests
  <2>3. \A i \in DOMAIN s.requests : ~ ({"form", "json"} \subseteq Range(s.requests[i].headers))
    BY HttpRequestAssumption DEF OneContentType
  <2>. QED BY <2>1, <2>2, <2>3 DEF ContentInv
<1>2. ContentInv /\ [Next]_vars => ContentInv'
  <2>1. [Next]_vars => requests' = requests /\ content' = content
    BY DEF Next, OnRead_, OnWrite_, vars
  <2>. QED BY <2>1 DEF ContentInv
<1>. QED BY <1>1, <1>2, PTL DEF Spec

\* A form that arrives whole, of any number of fields with values of any length,
\* yields the fields that were put into it, signs and escapes decoded, each
\* value for itself, if every value ends in an ordinary character.
THEOREM FormsDecoded == Spec => []FormDecoded
<1>1. WholeInv /\ ContentInv => FormDecoded
  <2>. SUFFICES ASSUME WholeInv, ContentInv, ~cut, content.type = "form", EndsInBytes(content),
                       NEW k \in Posts("form")
                PROVE  answers[k].post = Fields(content)
    BY DEF FormDecoded
  <2>1. /\ k \in DOMAIN answers /\ "form" \in Range(requests[k].headers)
        /\ requests[k].method = "POST"
        /\ \A j \in 1 .. k - 1 : requests[j].method = "GET"
    BY DEF Posts
  <2>2. answers[k].post = DecodedBody(k)
    BY <2>1 DEF WholeInv, WholeAnswers, AnswersTo
  <2>3. k \in DOMAIN requests
    BY <2>1 DEF WholeInv, WholeAnswers, AnswersTo
  <2>4. "json" \notin Range(requests[k].headers)
    BY <2>1, <2>3 DEF ContentInv
  <2>5. DecodedBody(k) = ParseFromUrlencoded_(Body(content))
    BY <2>1, <2>4 DEF DecodedBody, ParsePost_
  <2>6. PICK c : c = content
    OBVIOUS
  <2>7. IsForm(c)
    BY <2>6 DEF ContentInv, Contents, IsForm
  <2>8. ParseFromUrlencoded_(Body(c)) = Fields(c)
    BY <2>7, FormRun
  <2>. QED BY <2>2, <2>5, <2>6, <2>8
<1>. QED BY <1>1, WholeInvariant, ContentInvariant, PTL

\* A JSON object of scalars that arrives whole, of any number of members with
\* keys and values of any length, yields its members wherever space is put:
\* strings end at their own quote whatever is escaped in them.
THEOREM JsonsDecoded == Spec => []JsonDecoded
<1>1. WholeInv /\ ContentInv => JsonDecoded
  <2>. SUFFICES ASSUME WholeInv, ContentInv, ~cut, NEW k \in Posts("json")
                PROVE  answers[k].post = Fields(content)
    BY DEF JsonDecoded
  <2>1. /\ k \in DOMAIN answers /\ "json" \in Range(requests[k].headers)
        /\ requests[k].method = "POST" /\ content.type = "json"
        /\ \A j \in 1 .. k - 1 : requests[j].method = "GET"
    BY DEF Posts
  <2>2. answers[k].post = DecodedBody(k)
    BY <2>1 DEF WholeInv, WholeAnswers, AnswersTo
  <2>3. k \in DOMAIN requests
    BY <2>1 DEF WholeInv, WholeAnswers, AnswersTo
  <2>4. "form" \notin Range(requests[k].headers)
    BY <2>1, <2>3 DEF ContentInv
  <2>5. DecodedBody(k) = ParseFromJson_(Body(content))
    BY <2>1, <2>4 DEF DecodedBody, ParsePost_
  <2>6. PICK c : c = content
    OBVIOUS
  <2>7. IsJson(c)
    BY <2>1, <2>6 DEF ContentInv, Contents, IsJson
  <2>8. ParseFromJson_(Body(c)) = Fields(c)
    BY <2>7, JsonRun
  <2>. QED BY <2>2, <2>5, <2>6, <2>8
<1>. QED BY <1>1, WholeInvariant, ContentInvariant, PTL
=============================================================================
