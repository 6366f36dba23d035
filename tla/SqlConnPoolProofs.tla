-------------------------- MODULE SqlConnPoolProofs --------------------------
(* Theorems about SqlConnPool, for any threads, connections and names.       *)
EXTENDS SqlConnPool, FiniteSetTheorems, TLAPS

Elements(q) == {q[i] : i \in DOMAIN q}

\* Every connection is queued, guarded or closed, and never two of these; no two
\* places of the queue and no two guards have the same.
Placed ==
    /\ \A i, j \in DOMAIN connQue : connQue[i] = connQue[j] => i = j
    /\ \A v, w \in Workers : raii[v] = raii[w] /\ raii[v] # NoSql => v = w
    /\ \A w \in Workers : raii[w] \notin Elements(connQue) \cup closed
    /\ Elements(connQue) \cap closed = {}
    /\ \A c \in Created :
          c \in Elements(connQue) \cup closed \/ \E w \in Workers : raii[w] = c

Users == {w \in Workers : raii[w] # NoSql}

\* A guard lives until its connection is given back, and the counters count.
Counted ==
    /\ \A w \in Workers : raii[w] # NoSql <=> pc[w] = "release"
    /\ useCount = Cardinality(Users)
    /\ freeCount + useCount = Cardinality(Created)
    /\ ~shut => freeCount = Len(connQue)

PoolInv == TypeOK /\ Placed /\ Counted
-----------------------------------------------------------------------------
(* The counters.                                                           *)

LEMMA UsersFinite ==
    /\ IsFiniteSet(Users) /\ Cardinality(Users) \in Nat
    /\ IsFiniteSet(Getting) /\ Cardinality(Getting) \in Nat
    /\ Cardinality(Created) \in Nat
BY SqlConnPoolAssumption, FS_Subset, FS_CardinalityType DEF Users, Getting

\* What leaves the queue is its first connection, which is nowhere else in it.
LEMMA TakeReturns ==
    ASSUME NEW q \in Seq(Created), q # << >>,
           \A i, j \in DOMAIN q : q[i] = q[j] => i = j
    PROVE  /\ Head(q) \in Created /\ Tail(q) \in Seq(Created)
           /\ Len(Tail(q)) = Len(q) - 1
           /\ \A i, j \in DOMAIN Tail(q) : Tail(q)[i] = Tail(q)[j] => i = j
           /\ Head(q) \in Elements(q) /\ Elements(Tail(q)) = Elements(q) \ {Head(q)}
<1>. DEFINE r == Tail(q)
<1>1. /\ Head(q) = q[1] /\ Head(q) \in Created /\ r \in Seq(Created)
      /\ Len(q) \in Nat \ {0} /\ Len(r) = Len(q) - 1
      /\ DOMAIN q = 1 .. Len(q) /\ DOMAIN r = 1 .. Len(q) - 1
      /\ \A i \in 1 .. Len(q) - 1 : r[i] = q[i + 1]
  OBVIOUS
<1>. HIDE DEF r
<1>2. ASSUME NEW i \in DOMAIN r, NEW j \in DOMAIN r, r[i] = r[j] PROVE i = j
  <2>1. i \in Int /\ j \in Int /\ i + 1 \in DOMAIN q /\ j + 1 \in DOMAIN q
    BY <1>1
  <2>2. q[i + 1] = q[j + 1]
    BY <1>1, <1>2
  <2>3. i + 1 = j + 1
    BY <2>1, <2>2
  <2>. QED BY <2>1, <2>3
<1>3. Head(q) \in Elements(q)
  BY <1>1 DEF Elements
<1>4. ASSUME NEW i \in DOMAIN r PROVE r[i] \in Elements(q) \ {Head(q)}
  <2>1. i + 1 \in DOMAIN q /\ i + 1 # 1 /\ 1 \in DOMAIN q /\ r[i] = q[i + 1]
    BY <1>1
  <2>. QED BY <1>1, <2>1 DEF Elements
<1>5. ASSUME NEW c \in Elements(q) \ {Head(q)} PROVE c \in Elements(r)
  <2>1. PICK i \in DOMAIN q : c = q[i]
    BY DEF Elements
  <2>2. i # 1
    BY <1>1, <2>1
  <2>3. i - 1 \in DOMAIN r /\ r[i - 1] = q[i]
    BY <1>1, <2>2
  <2>. QED BY <2>1, <2>3 DEF Elements
<1>6. Elements(r) = Elements(q) \ {Head(q)}
  BY <1>4, <1>5 DEF Elements
<1>. QED BY <1>1, <1>2, <1>3, <1>6 DEF r

\* A connection that was not in the queue is appended to it.
LEMMA GiveReturns ==
    ASSUME NEW q \in Seq(Created), NEW c \in Created, c \notin Elements(q),
           \A i, j \in DOMAIN q : q[i] = q[j] => i = j
    PROVE  /\ Append(q, c) \in Seq(Created) /\ Len(Append(q, c)) = Len(q) + 1
           /\ \A i, j \in DOMAIN Append(q, c) : Append(q, c)[i] = Append(q, c)[j] => i = j
           /\ Elements(Append(q, c)) = Elements(q) \cup {c}
<1>. DEFINE r == Append(q, c)
<1>1. /\ r \in Seq(Created) /\ Len(q) \in Nat /\ Len(r) = Len(q) + 1
      /\ DOMAIN q = 1 .. Len(q) /\ DOMAIN r = 1 .. Len(q) + 1
      /\ \A i \in 1 .. Len(q) : r[i] = q[i]
      /\ r[Len(q) + 1] = c
  OBVIOUS
<1>. HIDE DEF r
<1>2. \A i \in 1 .. Len(q) : r[i] # c
  BY <1>1 DEF Elements
<1>3. ASSUME NEW i \in DOMAIN r, NEW j \in DOMAIN r, r[i] = r[j] PROVE i = j
  <2>1. CASE i \in 1 .. Len(q) /\ j \in 1 .. Len(q)
    BY <1>1, <1>3, <2>1
  <2>2. CASE i = Len(q) + 1 \/ j = Len(q) + 1
    BY <1>1, <1>2, <1>3, <2>2
  <2>. QED BY <1>1, <2>1, <2>2
<1>4. Elements(r) \subseteq Elements(q) \cup {c}
  BY <1>1 DEF Elements
<1>5. Elements(q) \subseteq Elements(r) /\ c \in Elements(r)
  BY <1>1 DEF Elements
<1>. QED BY <1>1, <1>3, <1>4, <1>5 DEF r

-----------------------------------------------------------------------------
LEMMA PoolInit == Init => PoolInv
<1>. SUFFICES ASSUME Init PROVE PoolInv
  OBVIOUS
<1>. USE SqlConnPoolAssumption
<1>1. Cardinality(Created) \in Nat
  BY FS_CardinalityType
<1>. DEFINE n == Cardinality(Created)
<1>2. connQue \in [1 .. n -> Created] /\ \A i, j \in 1 .. n : connQue[i] = connQue[j] => i = j
  BY DEF Init, Orders
<1>. HIDE DEF n
<1>3. connQue \in Seq(Created) /\ Len(connQue) = n
  BY <1>1, <1>2 DEF n
<1>4. connQue \in Injection(1 .. n, Created)
  BY <1>2 DEF Injection, IsInjective
<1>5. IsFiniteSet(1 .. n) /\ Cardinality(1 .. n) = n
  BY <1>1, FS_Interval DEF n
<1>6. connQue \in Surjection(1 .. n, Created)
  BY <1>4, <1>5, FS_Injection DEF n
<1>7. Elements(connQue) = Created
  BY <1>2, <1>6 DEF Surjection, Elements
<1>8. Users = {} /\ Cardinality(Users) = 0
  BY FS_EmptySet DEF Init, Users
<1>9. TypeOK
  <2>1. freeCount \in 0 .. Cardinality(Created) /\ useCount \in 0 .. Cardinality(Created)
    BY <1>1 DEF Init
  <2>2. want \in [Workers -> [name : Names, isLogin : BOOLEAN]]
    <3>1. [name : Names, isLogin : {FALSE}] \subseteq [name : Names, isLogin : BOOLEAN]
      OBVIOUS
    <3>2. want \in [Workers -> [name : Names, isLogin : {FALSE}]]
      BY DEF Init
    <3>. QED BY <3>1, <3>2
  <2>3. registered \in [Names -> 0 .. MaxAnswers]
    BY DEF Init
  <2>. QED BY <1>3, <2>1, <2>2, <2>3 DEF Init, TypeOK
<1>10. Placed
  BY <1>2, <1>7 DEF Init, Placed
<1>11. Counted
  BY <1>1, <1>3, <1>8 DEF Init, Counted, n
<1>. QED BY <1>9, <1>10, <1>11 DEF PoolInv

\* Everything but taking, giving and closing leaves the pool and the guards alone.
LEMMA Elsewhere ==
    ASSUME PoolInv, TypeOK', UNCHANGED poolVars, UNCHANGED raii,
           \A w \in Workers : pc'[w] = "release" <=> pc[w] = "release"
    PROVE  PoolInv'
<1>1. Elements(connQue)' = Elements(connQue) /\ Users' = Users
  BY DEF Elements, Users, poolVars
<1>2. Placed'
  BY <1>1 DEF PoolInv, Placed, poolVars
<1>3. Counted'
  BY <1>1 DEF PoolInv, Counted, poolVars
<1>. QED BY <1>2, <1>3 DEF PoolInv

LEMMA PoolTakes ==
    ASSUME PoolInv, NEW w \in Workers, getConnection(w)
    PROVE  PoolInv'
<1>. USE SqlConnPoolAssumption
<1>. DEFINE c == Head(connQue)
<1>1. /\ connQue \in Seq(Created) /\ connQue # << >>
      /\ \A i, j \in DOMAIN connQue : connQue[i] = connQue[j] => i = j
      /\ freeCount > 0 /\ pc[w] = "get" /\ raii[w] = NoSql
      /\ connQue' = Tail(connQue) /\ freeCount' = freeCount - 1
      /\ useCount' = useCount + 1 /\ UNCHANGED <<closed, shut>>
      /\ pc' = [pc EXCEPT ![w] = "release"] /\ raii' = [raii EXCEPT ![w] = c]
  BY DEF PoolInv, TypeOK, Placed, Counted, getConnection, Available, take, Goto
<1>2. /\ c \in Created /\ connQue' \in Seq(Created) /\ Len(connQue') = Len(connQue) - 1
      /\ \A i, j \in DOMAIN connQue' : connQue'[i] = connQue'[j] => i = j
      /\ c \in Elements(connQue) /\ Elements(connQue)' = Elements(connQue) \ {c}
  <2>1. PICK q \in Seq(Created) : q = connQue
    BY <1>1
  <2>2. q # << >> /\ \A i, j \in DOMAIN q : q[i] = q[j] => i = j
    BY <1>1, <2>1
  <2>3. /\ Head(q) \in Created /\ Tail(q) \in Seq(Created) /\ Len(Tail(q)) = Len(q) - 1
        /\ \A i, j \in DOMAIN Tail(q) : Tail(q)[i] = Tail(q)[j] => i = j
        /\ Head(q) \in Elements(q) /\ Elements(Tail(q)) = Elements(q) \ {Head(q)}
    BY <2>2, TakeReturns
  <2>4. Elements(connQue)' = Elements(Tail(q))
    BY <1>1, <2>1 DEF Elements
  <2>. QED BY <1>1, <2>1, <2>3, <2>4
<1>. HIDE DEF c
<1>3. \A v \in Workers : raii'[v] = IF v = w THEN c ELSE raii[v]
  BY <1>1 DEF PoolInv, TypeOK
<1>4. Users' = Users \cup {w} /\ w \notin Users
  BY <1>1, <1>2, <1>3 DEF Users
<1>5. Cardinality(Users)' = Cardinality(Users) + 1
  BY <1>4, UsersFinite, FS_AddElement
<1>6. TypeOK'
  <2>1. freeCount' \in 0 .. Cardinality(Created) /\ useCount' \in 0 .. Cardinality(Created)
    BY <1>1, UsersFinite DEF PoolInv, TypeOK, Counted
  <2>2. sql' \in [Workers -> Created \cup {NoSql}] /\ raii' \in [Workers -> Created \cup {NoSql}]
    BY <1>1, <1>2 DEF getConnection, PoolInv, TypeOK, c
  <2>. QED BY <1>1, <1>2, <2>1, <2>2 DEF getConnection, PoolInv, TypeOK, userVars
<1>7. Placed'
  BY <1>1, <1>2, <1>3 DEF PoolInv, Placed
<1>8. Counted'
  <2>1. \A v \in Workers : raii'[v] # NoSql <=> pc'[v] = "release"
    BY <1>1, <1>2, <1>3 DEF PoolInv, TypeOK, Counted
  <2>2. useCount' = Cardinality(Users)'
    BY <1>1, <1>5 DEF PoolInv, Counted
  <2>3. freeCount' + useCount' = Cardinality(Created)
    BY <1>1, UsersFinite DEF PoolInv, TypeOK, Counted
  <2>4. ~shut => freeCount' = Len(connQue')
    BY <1>1, <1>2 DEF PoolInv, Counted
  <2>. QED BY <1>1, <2>1, <2>2, <2>3, <2>4 DEF Counted
<1>. QED BY <1>6, <1>7, <1>8 DEF PoolInv

LEMMA PoolGives ==
    ASSUME PoolInv, NEW w \in Workers, freeConnection(w)
    PROVE  PoolInv'
<1>. USE SqlConnPoolAssumption
<1>. DEFINE c == raii[w]
<1>1. /\ connQue \in Seq(Created) /\ c \in Created /\ c \notin Elements(connQue) \cup closed
      /\ \A i, j \in DOMAIN connQue : connQue[i] = connQue[j] => i = j
      /\ connQue' = Append(connQue, c) /\ freeCount' = freeCount + 1
      /\ useCount' = useCount - 1 /\ UNCHANGED <<closed, shut>>
      /\ raii' = [raii EXCEPT ![w] = NoSql]
  BY DEF PoolInv, TypeOK, Placed, Counted, freeConnection, give
<1>2. /\ connQue' \in Seq(Created) /\ Len(connQue') = Len(connQue) + 1
      /\ \A i, j \in DOMAIN connQue' : connQue'[i] = connQue'[j] => i = j
      /\ Elements(connQue)' = Elements(connQue) \cup {c}
  <2>1. PICK q \in Seq(Created), d \in Created : q = connQue /\ d = c
    BY <1>1
  <2>2. d \notin Elements(q) /\ \A i, j \in DOMAIN q : q[i] = q[j] => i = j
    BY <1>1, <2>1
  <2>3. /\ Append(q, d) \in Seq(Created) /\ Len(Append(q, d)) = Len(q) + 1
        /\ \A i, j \in DOMAIN Append(q, d) : Append(q, d)[i] = Append(q, d)[j] => i = j
        /\ Elements(Append(q, d)) = Elements(q) \cup {d}
    BY <2>2, GiveReturns
  <2>4. Elements(connQue)' = Elements(Append(q, d))
    BY <1>1, <2>1 DEF Elements
  <2>. QED BY <1>1, <2>1, <2>3, <2>4
<1>3. \A v \in Workers : raii'[v] = IF v = w THEN NoSql ELSE raii[v]
  BY <1>1 DEF PoolInv, TypeOK
<1>4. Users' = Users \ {w} /\ w \in Users
  BY <1>1, <1>3 DEF Users
<1>5. Cardinality(Users)' = Cardinality(Users) - 1
  BY <1>4, UsersFinite, FS_RemoveElement
<1>6. /\ pc' \in [Workers -> {"idle", "get", "waiting", "release", "select",
                              "selecting", "insert", "inserting"}]
       /\ pc'[w] = "select"
       /\ \A v \in Workers \ {w} : pc'[v] = "release" <=> pc[v] = "release"
  <2>1. PICK woken \in wakeOne : pc' = [woken EXCEPT ![w] = "select"]
    BY DEF freeConnection
  <2>2. CASE woken = pc
    BY <2>1, <2>2 DEF PoolInv, TypeOK
  <2>3. ASSUME NEW v \in Waiting, woken = [pc EXCEPT ![v] = "get"]
        PROVE  /\ pc' \in [Workers -> {"idle", "get", "waiting", "release", "select",
                                       "selecting", "insert", "inserting"}]
               /\ pc'[w] = "select"
               /\ \A u \in Workers \ {w} : pc'[u] = "release" <=> pc[u] = "release"
    <3>1. v \in Workers /\ pc[v] = "waiting"
      BY DEF Waiting
    <3>. QED BY <2>1, <2>3, <3>1 DEF PoolInv, TypeOK
  <2>. QED BY <2>2, <2>3 DEF wakeOne
<1>7. TypeOK'
  <2>1. freeCount' \in 0 .. Cardinality(Created) /\ useCount' \in 0 .. Cardinality(Created)
    <3>1. /\ Cardinality(Created) \in Nat /\ Cardinality(Users) \in Nat
          /\ Cardinality(Users)' \in Nat /\ useCount = Cardinality(Users)
          /\ freeCount + useCount = Cardinality(Created) /\ freeCount \in Nat
      BY <1>4, UsersFinite, FS_RemoveElement, FS_CardinalityType DEF PoolInv, TypeOK, Counted
    <3>2. Cardinality(Users) >= 1
      BY <1>5, <3>1
    <3>. QED BY <1>1, <3>1, <3>2
  <2>. QED BY <1>1, <1>2, <1>6, <2>1 DEF freeConnection, PoolInv, TypeOK, userVars
<1>8. Placed'
  <2>1. \A v \in Workers \ {w} : raii[v] # c
    BY <1>1 DEF PoolInv, Placed
  <2>2. \A v \in Workers : raii'[v] \notin Elements(connQue)' \cup closed'
    BY <1>1, <1>2, <1>3, <2>1 DEF PoolInv, Placed, TypeOK, Elements
  <2>. QED BY <1>1, <1>2, <1>3, <2>1, <2>2 DEF PoolInv, Placed
<1>9. Counted'
  <2>1. \A v \in Workers : raii'[v] # NoSql <=> pc'[v] = "release"
    BY <1>1, <1>3, <1>6 DEF PoolInv, TypeOK, Counted
  <2>2. useCount' = Cardinality(Users)'
    BY <1>1, <1>5 DEF PoolInv, Counted
  <2>3. freeCount' + useCount' = Cardinality(Created)
    BY <1>1, UsersFinite DEF PoolInv, TypeOK, Counted
  <2>4. ~shut => freeCount' = Len(connQue')
    BY <1>1, <1>2 DEF PoolInv, Counted
  <2>. QED BY <1>1, <2>1, <2>2, <2>3, <2>4 DEF Counted
<1>. QED BY <1>7, <1>8, <1>9 DEF PoolInv

LEMMA PoolCloses ==
    ASSUME PoolInv, ClosePool
    PROVE  PoolInv'
<1>1. /\ connQue' = << >> /\ closed' = closed \cup Elements(connQue) /\ shut'
      /\ UNCHANGED <<freeCount, useCount, raii, pc>>
  BY DEF ClosePool, Elements, userVars
<1>2. Elements(connQue)' = {} /\ Users' = Users
  BY <1>1 DEF Elements, Users
<1>3. Elements(connQue) \subseteq Created
  BY DEF PoolInv, TypeOK, Elements
<1>4. TypeOK'
  BY <1>1, <1>3 DEF ClosePool, PoolInv, TypeOK, userVars
<1>5. Placed'
  BY <1>1, <1>2 DEF PoolInv, Placed
<1>6. Counted'
  BY <1>1, <1>2 DEF PoolInv, Counted
<1>. QED BY <1>4, <1>5, <1>6 DEF PoolInv

-----------------------------------------------------------------------------
(* The queries and waiting.                                                *)

Labels == {"idle", "get", "waiting", "release", "select", "selecting", "insert", "inserting"}

\* The table keeps every name that a registration was told of, as long as no
\* connection was used by two.
Kept == ~mixed => \A n \in Names :
            registered[n] = 0 \/ (registered[n] = 1 /\ n \in rows)

LEMMA GotoReturns ==
    ASSUME TypeOK, NEW w \in Workers, NEW l \in Labels \ {"release"},
           pc[w] # "release", Goto(w, l)
    PROVE  /\ pc' \in [Workers -> Labels]
           /\ \A v \in Workers : pc'[v] = "release" <=> pc[v] = "release"
BY DEF TypeOK, Goto, Labels

LEMMA ReturnReturns ==
    ASSUME TypeOK, NEW w \in Workers, pc[w] # "release", Return(w)
    PROVE  /\ pc' \in [Workers -> Labels]
           /\ \A v \in Workers : pc'[v] = "release" <=> pc[v] = "release"
           /\ sql' \in [Workers -> Created \cup {NoSql}]
<1>1. /\ pc' \in [Workers -> Labels]
      /\ \A v \in Workers : pc'[v] = "release" <=> pc[v] = "release"
  <2>1. "idle" \in Labels \ {"release"}
    BY DEF Labels
  <2>. QED BY <2>1, GotoReturns DEF Return
<1>2. sql' \in [Workers -> Created \cup {NoSql}]
  BY DEF TypeOK, Return
<1>. QED BY <1>1, <1>2

LEMMA ReportReturns ==
    ASSUME TypeOK, NEW w \in Workers, report(w), registered[want[w].name] < MaxAnswers
    PROVE  /\ want[w].name \in Names
           /\ registered' \in [Names -> 0 .. MaxAnswers]
           /\ \A n \in Names :
                 registered'[n] = IF n = want[w].name THEN registered[n] + 1 ELSE registered[n]
<1>1. want[w].name \in Names
  BY DEF TypeOK
<1>2. PICK m \in Names : m = want[w].name
  BY <1>1
<1>3. registered' = [registered EXCEPT ![m] = registered[m] + 1] /\ registered[m] < MaxAnswers
  BY <1>2 DEF report
<1>4. registered[m] + 1 \in 0 .. MaxAnswers
  BY <1>3, SqlConnPoolAssumption DEF TypeOK
<1>5. registered' \in [Names -> 0 .. MaxAnswers]
  BY <1>3, <1>4 DEF TypeOK
<1>. QED BY <1>1, <1>2, <1>3, <1>5 DEF TypeOK

\* What the pool does not see: where a thread goes that takes, gives or closes
\* nothing, and what it learns.
LEMMA Quiet ==
    ASSUME TypeOK, NEW w \in Workers,
           \/ UserVerify(w) \/ GetWaits(w) \/ Begin(w) \/ QueryFails(w)
           \/ Selected(w) \/ Inserted(w) \/ Duplicate(w)
    PROVE  /\ TypeOK' /\ UNCHANGED poolVars /\ UNCHANGED raii
           /\ \A v \in Workers : pc'[v] = "release" <=> pc[v] = "release"
<1>. DEFINE Same == \A v \in Workers : pc'[v] = "release" <=> pc[v] = "release"
            Rest == /\ TypeOK' /\ UNCHANGED poolVars /\ UNCHANGED raii /\ Same
<1>. USE SqlConnPoolAssumption
<1>0. {"idle", "get", "waiting", "select", "selecting", "insert", "inserting"}
         = Labels \ {"release"}
  BY DEF Labels
<1>1. CASE UserVerify(w)
  <2>1. pc' \in [Workers -> Labels] /\ Same
    BY <1>0, <1>1, GotoReturns DEF UserVerify
  <2>2. want' \in [Workers -> [name : Names, isLogin : BOOLEAN]]
    <3>1. PICK n \in Names, l \in BOOLEAN :
             want' = [want EXCEPT ![w] = [name |-> n, isLogin |-> l]]
      BY <1>1 DEF UserVerify
    <3>2. [name |-> n, isLogin |-> l] \in [name : Names, isLogin : BOOLEAN]
      OBVIOUS
    <3>. QED BY <3>1, <3>2 DEF TypeOK
  <2>. QED BY <1>1, <2>1, <2>2 DEF UserVerify, TypeOK, poolVars, Labels
<1>2. CASE GetWaits(w)
  <2>1. pc' \in [Workers -> Labels] /\ Same
    BY <1>0, <1>2, GotoReturns DEF GetWaits
  <2>. QED BY <1>2, <2>1 DEF GetWaits, TypeOK, poolVars, userVars, Labels
<1>3. CASE Begin(w)
  <2>1. pc' \in [Workers -> Labels] /\ Same
    BY <1>0, <1>3, GotoReturns DEF Begin
  <2>2. mixed' \in BOOLEAN
    BY <1>3 DEF Begin, Clash, TypeOK
  <2>. QED BY <1>3, <2>1, <2>2 DEF Begin, TypeOK, poolVars, userVars, Labels
<1>4. CASE QueryFails(w)
  <2>1. pc' \in [Workers -> Labels] /\ Same /\ sql' \in [Workers -> Created \cup {NoSql}]
    BY <1>4, ReturnReturns DEF QueryFails, InQuery
  <2>. QED BY <1>4, <2>1 DEF QueryFails, TypeOK, poolVars, userVars, Labels
<1>5. CASE Selected(w)
  <2>1. pc[w] = "selecting" /\ (Return(w) \/ (Goto(w, "insert") /\ UNCHANGED sql))
    BY <1>5 DEF Selected
  <2>2. pc' \in [Workers -> Labels] /\ Same /\ sql' \in [Workers -> Created \cup {NoSql}]
    <3>1. CASE Return(w)
      BY <2>1, <3>1, ReturnReturns
    <3>2. CASE Goto(w, "insert") /\ UNCHANGED sql
      BY <1>0, <2>1, <3>2, GotoReturns DEF TypeOK
    <3>. QED BY <2>1, <3>1, <3>2
  <2>. QED BY <1>5, <2>2 DEF Selected, TypeOK, poolVars, userVars, Labels
<1>6. CASE Inserted(w)
  <2>1. pc' \in [Workers -> Labels] /\ Same /\ sql' \in [Workers -> Created \cup {NoSql}]
    BY <1>6, ReturnReturns DEF Inserted
  <2>2. registered' \in [Names -> 0 .. MaxAnswers] /\ rows' \subseteq Names
    BY <1>6, ReportReturns DEF Inserted, TypeOK
  <2>. QED BY <1>6, <2>1, <2>2 DEF Inserted, TypeOK, poolVars, Labels
<1>7. CASE Duplicate(w)
  <2>1. pc' \in [Workers -> Labels] /\ Same /\ sql' \in [Workers -> Created \cup {NoSql}]
    BY <1>7, ReturnReturns DEF Duplicate
  <2>. QED BY <1>7, <2>1 DEF Duplicate, insertRefused, TypeOK, poolVars, Labels
<1>. QED BY <1>1, <1>2, <1>3, <1>4, <1>5, <1>6, <1>7

LEMMA PoolNext == PoolInv /\ [Next]_vars => PoolInv'
<1>. SUFFICES ASSUME PoolInv, [Next]_vars PROVE PoolInv'
  OBVIOUS
<1>1. ASSUME NEW w \in Workers,
             \/ UserVerify(w) \/ GetWaits(w) \/ Begin(w) \/ QueryFails(w)
             \/ Selected(w) \/ Inserted(w) \/ Duplicate(w)
      PROVE  PoolInv'
  <2>1. TypeOK
    BY DEF PoolInv
  <2>2. /\ TypeOK' /\ UNCHANGED poolVars /\ UNCHANGED raii
        /\ \A v \in Workers : pc'[v] = "release" <=> pc[v] = "release"
    BY <1>1, <2>1, Quiet
  <2>. QED BY <2>2, Elsewhere
<1>2. ASSUME NEW w \in Workers, getConnection(w) PROVE PoolInv'
  BY <1>2, PoolTakes
<1>3. ASSUME NEW w \in Workers, freeConnection(w) PROVE PoolInv'
  BY <1>3, PoolGives
<1>4. CASE ClosePool
  BY <1>4, PoolCloses
<1>5. CASE UNCHANGED vars
  <2>1. TypeOK'
    BY <1>5 DEF PoolInv, TypeOK, vars, poolVars, userVars
  <2>. QED BY <1>5, <2>1, Elsewhere DEF vars
<1>. QED BY <1>1, <1>2, <1>3, <1>4, <1>5 DEF Next, WorkerStep

LEMMA PoolInvariant == Spec => []PoolInv
BY PoolInit, PoolNext, PTL DEF Spec

\* The variables keep their types; neither counter leaves 0 .. MAX_CONN_.
THEOREM TypeCorrect == Spec => []TypeOK
BY PoolInvariant, PTL DEF PoolInv

-----------------------------------------------------------------------------
(* One place for every connection.                                         *)

\* A set with at most one member, counted.
LEMMA AtMostOne ==
    ASSUME NEW S, \A x, y \in S : x = y
    PROVE  Cardinality(S) = IF S = {} THEN 0 ELSE 1
<1>1. CASE S = {}
  BY <1>1, FS_EmptySet
<1>2. CASE S # {}
  <2>1. PICK x : S = {x}
    BY <1>2
  <2>. QED BY <1>2, <2>1, FS_Singleton
<1>. QED BY <1>1, <1>2

LEMMA PlacedOnce == PoolInv => EachOnce
<1>. SUFFICES ASSUME PoolInv PROVE EachOnce
  OBVIOUS
<1>. USE SqlConnPoolAssumption DEF PoolInv
<1>1. ASSUME NEW c \in Created
      PROVE  Cardinality({i \in DOMAIN connQue : connQue[i] = c})
             + Cardinality({w \in Workers : raii[w] = c})
             + (IF c \in closed THEN 1 ELSE 0) = 1
  <2>. DEFINE inQueue == {i \in DOMAIN connQue : connQue[i] = c}
              guards  == {w \in Workers : raii[w] = c}
  <2>1. Cardinality(inQueue) = IF inQueue = {} THEN 0 ELSE 1
    <3>1. \A i, j \in inQueue : i = j
      BY DEF Placed
    <3>. HIDE DEF inQueue
    <3>. QED BY <3>1, AtMostOne
  <2>2. Cardinality(guards) = IF guards = {} THEN 0 ELSE 1
    <3>1. \A v, w \in guards : v = w
      BY DEF Placed
    <3>. HIDE DEF guards
    <3>. QED BY <3>1, AtMostOne
  <2>3. inQueue # {} <=> c \in Elements(connQue)
    BY DEF Elements
  <2>4. guards # {} <=> \E w \in Workers : raii[w] = c
    OBVIOUS
  <2>5. /\ inQueue # {} \/ c \in closed \/ guards # {}
        /\ ~(inQueue # {} /\ c \in closed)
        /\ ~(guards # {} /\ (inQueue # {} \/ c \in closed))
    BY <2>3, <2>4 DEF Placed
  <2>. HIDE DEF inQueue, guards
  <2>6. Cardinality(inQueue) + Cardinality(guards) + (IF c \in closed THEN 1 ELSE 0) = 1
    BY <2>1, <2>2, <2>5
  <2>. QED BY <2>6 DEF inQueue, guards
<1>. QED BY <1>1 DEF EachOnce, Counted, Users

\* A connection is queued once, or with one guard, or closed: none is lost and
\* none is handed out twice, and the two counters count (getConnection,
\* freeConnection, ClosePool).
THEOREM ConnectionsOnce == Spec => []EachOnce
BY PoolInvariant, PlacedOnce, PTL

-----------------------------------------------------------------------------
(* Registrations.                                                          *)

LEMMA KeptNext == PoolInv /\ Kept /\ [Next]_vars => Kept'
<1>. SUFFICES ASSUME PoolInv, Kept, [Next]_vars PROVE Kept'
  OBVIOUS
<1>1. TypeOK
  BY DEF PoolInv
<1>2. ASSUME NEW w \in Workers, Inserted(w) PROVE Kept'
  <2>1. /\ want[w].name \in Names
        /\ \A n \in Names :
              registered'[n] = IF n = want[w].name THEN registered[n] + 1 ELSE registered[n]
    BY <1>1, <1>2, ReportReturns DEF Inserted
  <2>2. /\ rows' = rows \cup {want[w].name} /\ mixed' = mixed
        /\ mixed \/ want[w].name \notin rows
    BY <1>2 DEF Inserted
  <2>. QED BY <2>1, <2>2 DEF Kept
<1>3. ASSUME UNCHANGED <<rows, registered>>, mixed => mixed' PROVE Kept'
  BY <1>3 DEF Kept
<1>4. ASSUME NEW w \in Workers, Begin(w) PROVE Kept'
  <2>1. mixed => mixed'
    BY <1>4 DEF Begin
  <2>. QED BY <1>3, <1>4, <2>1 DEF Begin, userVars
<1>5. ASSUME NEW w \in Workers,
             \/ UserVerify(w) \/ GetWaits(w) \/ getConnection(w) \/ freeConnection(w)
             \/ QueryFails(w) \/ Selected(w) \/ Duplicate(w)
      PROVE  Kept'
  <2>1. UNCHANGED <<rows, registered, mixed>>
    BY <1>5 DEF UserVerify, GetWaits, getConnection, freeConnection, QueryFails, Selected,
                Duplicate, insertRefused, userVars
  <2>. QED BY <1>3, <2>1
<1>6. CASE ClosePool
  <2>1. mixed => mixed'
    BY <1>6 DEF ClosePool
  <2>. QED BY <1>3, <1>6, <2>1 DEF ClosePool, userVars
<1>7. CASE UNCHANGED vars
  BY <1>3, <1>7 DEF vars, userVars
<1>. QED BY <1>2, <1>4, <1>5, <1>6, <1>7 DEF Next, WorkerStep

\* Of the threads that register one name at most one is told that it succeeded,
\* and then the name is in the table, as long as no connection was used by two
\* threads at a time (UserVerify: the SELECT, the INSERT and its UNIQUE key).
THEOREM RegistersOnce == Spec => []RegisteredOnce
<1>1. Init => Kept
  BY DEF Init, Kept
<1>2. Spec => []Kept
  BY <1>1, PoolInvariant, KeptNext, PTL DEF Spec
<1>3. Kept => RegisteredOnce
  BY DEF Kept, RegisteredOnce
<1>. QED BY <1>2, <1>3, PTL

-----------------------------------------------------------------------------
(* The threads that wait for a connection.                                 *)

\* Neither who waits nor who is on its way changes.
LEMMA WaitingElsewhere ==
    ASSUME NoLostWakeup, UNCHANGED <<shut, connQue>>,
           \A v \in Workers : /\ pc'[v] = "waiting" <=> pc[v] = "waiting"
                              /\ pc'[v] = "get" <=> pc[v] = "get"
    PROVE  NoLostWakeup'
<1>1. \A v \in Workers : (v \in Waiting' <=> v \in Waiting) /\ (v \in Getting' <=> v \in Getting)
  BY DEF Waiting, Getting
<1>2. Waiting \subseteq Workers /\ Waiting' \subseteq Workers
  BY DEF Waiting
<1>3. Getting \subseteq Workers /\ Getting' \subseteq Workers
  BY DEF Getting
<1>4. Waiting' = Waiting /\ Getting' = Getting
  BY <1>1, <1>2, <1>3
<1>. QED BY <1>4 DEF NoLostWakeup

LEMMA WaitingNext == PoolInv /\ NoLostWakeup /\ [Next]_vars => NoLostWakeup'
<1>. SUFFICES ASSUME PoolInv, NoLostWakeup, [Next]_vars PROVE NoLostWakeup'
  OBVIOUS
<1>1. /\ Len(connQue) \in Nat /\ connQue \in Seq(Created) /\ freeCount \in Nat
      /\ pc \in [Workers -> Labels]
      /\ ~shut => freeCount = Len(connQue)
      /\ IsFiniteSet(Getting) /\ Cardinality(Getting) \in Nat
  BY UsersFinite DEF PoolInv, TypeOK, Counted, Labels
<1>2. ASSUME NEW w \in Workers, UserVerify(w) PROVE NoLostWakeup'
  <2>1. UNCHANGED <<connQue, shut>> /\ pc[w] = "idle" /\ pc' = [pc EXCEPT ![w] = "get"]
    BY <1>2 DEF UserVerify, Goto, poolVars
  <2>2. Waiting' = Waiting
    BY <1>1, <2>1 DEF Waiting
  <2>3. Getting' = Getting \cup {w} /\ w \notin Getting
    BY <1>1, <2>1 DEF Getting
  <2>4. Cardinality(Getting') = Cardinality(Getting) + 1
    BY <1>1, <2>3, FS_AddElement
  <2>. QED BY <1>1, <2>1, <2>2, <2>4 DEF NoLostWakeup
<1>3. ASSUME NEW w \in Workers, GetWaits(w) PROVE NoLostWakeup'
  <2>1. UNCHANGED <<connQue, shut>> /\ (shut \/ Len(connQue) = 0)
    BY <1>1, <1>3 DEF GetWaits, Available, poolVars
  <2>2. Cardinality(Getting)' \in Nat
    <3>1. Getting' \subseteq Getting
      BY <1>1, <1>3 DEF GetWaits, Goto, Getting
    <3>. QED BY <1>1, <3>1, FS_Subset, FS_CardinalityType
  <2>. QED BY <2>1, <2>2 DEF NoLostWakeup
<1>4. ASSUME NEW w \in Workers, getConnection(w) PROVE NoLostWakeup'
  <2>1. /\ UNCHANGED shut /\ connQue' = Tail(connQue) /\ connQue # << >>
        /\ pc[w] = "get" /\ pc' = [pc EXCEPT ![w] = "release"]
    BY <1>4 DEF getConnection, Available, take, Goto
  <2>2. Waiting' = Waiting
    BY <1>1, <2>1 DEF Waiting
  <2>3. Getting' = Getting \ {w} /\ w \in Getting
    BY <1>1, <2>1 DEF Getting
  <2>4. Cardinality(Getting') = Cardinality(Getting) - 1
    BY <1>1, <2>3, FS_RemoveElement
  <2>5. Len(connQue') = Len(connQue) - 1
    BY <1>1, <2>1
  <2>6. Len(connQue) <= Cardinality(Getting) => Len(connQue') <= Cardinality(Getting')
    BY <1>1, <2>4, <2>5
  <2>. QED BY <2>1, <2>2, <2>6 DEF NoLostWakeup
<1>5. ASSUME NEW w \in Workers, freeConnection(w) PROVE NoLostWakeup'
  <2>1. /\ UNCHANGED shut /\ connQue' = Append(connQue, raii[w]) /\ pc[w] = "release"
        /\ raii[w] \in Created
    BY <1>5 DEF freeConnection, give, PoolInv, Counted, TypeOK
  <2>2. Len(connQue') = Len(connQue) + 1
    BY <1>1, <2>1
  <2>3. PICK woken \in wakeOne : pc' = [woken EXCEPT ![w] = "select"]
    BY <1>5 DEF freeConnection
  <2>4. CASE Waiting = {}
    <3>1. Waiting' = {}
      BY <1>1, <2>3, <2>4 DEF wakeOne, Waiting
    <3>. QED BY <3>1 DEF NoLostWakeup
  <2>5. CASE Waiting # {}
    <3>1. PICK v \in Waiting : woken = [pc EXCEPT ![v] = "get"]
      BY <2>3, <2>5 DEF wakeOne
    <3>2. v \in Workers /\ pc[v] = "waiting" /\ v # w
      BY <2>1 DEF Waiting
    <3>3. Getting' = Getting \cup {v} /\ v \notin Getting
      BY <1>1, <2>1, <2>3, <3>1, <3>2 DEF Getting
    <3>4. Cardinality(Getting') = Cardinality(Getting) + 1
      BY <1>1, <3>3, FS_AddElement
    <3>. QED BY <1>1, <2>1, <2>2, <2>5, <3>4 DEF NoLostWakeup
  <2>. QED BY <2>4, <2>5
<1>6. ASSUME NEW w \in Workers,
             Begin(w) \/ QueryFails(w) \/ Selected(w) \/ Inserted(w) \/ Duplicate(w)
      PROVE  NoLostWakeup'
  <2>1. UNCHANGED <<shut, connQue>>
    BY <1>6 DEF Begin, QueryFails, Selected, Inserted, Duplicate, poolVars
  <2>2. \E l \in Labels \ {"get", "waiting"} : pc' = [pc EXCEPT ![w] = l]
    BY <1>6 DEF Begin, QueryFails, Selected, Inserted, Duplicate, Return, Goto, Labels
  <2>3. pc[w] \notin {"get", "waiting"}
    BY <1>6 DEF Begin, QueryFails, Selected, Inserted, Duplicate, InQuery
  <2>4. \A v \in Workers : /\ pc'[v] = "waiting" <=> pc[v] = "waiting"
                           /\ pc'[v] = "get" <=> pc[v] = "get"
    BY <1>1, <2>2, <2>3
  <2>. QED BY <2>1, <2>4, WaitingElsewhere
<1>7. CASE ClosePool
  BY <1>7 DEF ClosePool, NoLostWakeup
<1>8. CASE UNCHANGED vars
  BY <1>8, WaitingElsewhere DEF vars, poolVars
<1>. QED
  BY <1>2, <1>3, <1>4, <1>5, <1>6, <1>7, <1>8 DEF Next, WorkerStep

\* While the pool is open a thread waits only if every free connection has a
\* thread on its way to take it (the wait of getConnection, the notify_one of
\* freeConnection).
THEOREM NoWakeupIsLost == Spec => []NoLostWakeup
<1>1. Init => NoLostWakeup
  BY DEF Init, NoLostWakeup, Waiting
<1>. QED BY <1>1, PoolInvariant, WaitingNext, PTL DEF Spec
=============================================================================
