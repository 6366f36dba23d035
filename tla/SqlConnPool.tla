----------------------------- MODULE SqlConnPool -----------------------------
(***************************************************************************)
(* The database connections: SqlConnPool (code/pool/sqlconnpool.cpp), the  *)
(* guard SqlConnRAII (code/pool/sqlconnRAII.h) and their one user,         *)
(* HttpRequest::UserVerify (code/http/httprequest.cpp), run by the worker  *)
(* threads.  The main thread closes the pool when the server is destroyed, *)
(* while the workers still run.                                            *)
(*                                                                         *)
(* UserVerify writes SqlConnRAII(&sql, ...) without a name: the guard is a *)
(* temporary that gives the connection back at the end of that statement,  *)
(* so the queries that follow run on a connection the pool calls free.     *)
(* What two threads get from one MYSQL* at a time is undefined; mixed says *)
(* that it has happened, and from then on a query may report anything.     *)
(***************************************************************************)
EXTENDS Integers, Sequences, FiniteSets

CONSTANTS
    Workers,    \* the threads that run UserVerify
    Created,    \* the connections Init could open
    NoSql,      \* nullptr
    Names,      \* the user names clients register or log in with
    MaxAnswers, \* how many successful registrations the model counts
    MayClose    \* the server may be destroyed

ASSUME SqlConnPoolAssumption ==
    /\ NoSql \notin Created
    /\ IsFiniteSet(Created) /\ IsFiniteSet(Workers)
    /\ MaxAnswers \in Nat
    /\ MayClose \in BOOLEAN

VARIABLES
    connQue, freeCount, useCount,   \* the members of SqlConnPool
    closed,      \* the connections mysql_close was called on
    shut,        \* ClosePool has run
    raii,        \* per worker: sql_ of the guard, while it lives
    sql,         \* per worker: UserVerify's local variable
    want,        \* per worker: the name and whether it is a login
    rows,        \* the user names of the table
    registered,  \* history: per name, the registrations reported successful
    mixed,       \* history: a connection was used by two threads at once
    pc

poolVars == <<connQue, freeCount, useCount, closed, shut>>
userVars == <<want, rows, registered>>
vars == <<poolVars, raii, sql, userVars, mixed, pc>>

Orders == {q \in [1 .. Cardinality(Created) -> Created] :
              \A i, j \in DOMAIN q : q[i] = q[j] => i = j}

Init ==
    /\ connQue \in Orders
    /\ freeCount = Cardinality(Created) /\ useCount = 0
    /\ closed = {} /\ shut = FALSE
    /\ raii = [w \in Workers |-> NoSql] /\ sql = [w \in Workers |-> NoSql]
    /\ want \in [Workers -> [name : Names, isLogin : {FALSE}]]
    /\ rows = {} /\ registered = [n \in Names |-> 0]
    /\ mixed = FALSE
    /\ pc = [w \in Workers |-> "idle"]

Goto(w, l) == pc' = [pc EXCEPT ![w] = l]
Waiting    == {w \in Workers : pc[w] = "waiting"}
Getting    == {w \in Workers : pc[w] = "get"}

-----------------------------------------------------------------------------
(* getConnection and freeConnection.                                       *)

\* A POST of a well-formed name to /login or /register.
UserVerify(w) ==
    /\ pc[w] = "idle"
    /\ \E n \in Names, l \in BOOLEAN :
          want' = [want EXCEPT ![w] = [name |-> n, isLogin |-> l]]
    /\ Goto(w, "get")
    /\ UNCHANGED <<poolVars, raii, sql, rows, registered, mixed>>

Available == freeCount > 0 /\ connQue # << >>

GetWaits(w) ==
    /\ pc[w] = "get" /\ ~Available
    /\ Goto(w, "waiting")
    /\ UNCHANGED <<poolVars, raii, sql, userVars, mixed>>

\* Mutant: the connection stays in the queue.
takeCopy ==
    UNCHANGED connQue /\ freeCount' = freeCount - 1 /\ useCount' = useCount + 1

take ==
    /\ connQue' = Tail(connQue)
    /\ freeCount' = freeCount - 1 /\ useCount' = useCount + 1

getConnection(w) ==
    /\ pc[w] = "get" /\ Available
    /\ take
    /\ raii' = [raii EXCEPT ![w] = Head(connQue)]
    /\ sql' = [sql EXCEPT ![w] = Head(connQue)]
    /\ Goto(w, "release")
    /\ UNCHANGED <<closed, shut, userVars, mixed>>

\* Mutant: freeConnection does not notify.
wakeNobody == {pc}

\* A woken thread tests the predicate again.
wakeOne == IF Waiting = {} THEN {pc}
           ELSE {[pc EXCEPT ![w] = "get"] : w \in Waiting}

give(c) ==
    /\ connQue' = Append(connQue, c)
    /\ freeCount' = freeCount + 1 /\ useCount' = useCount - 1

\* ~SqlConnRAII, at the end of the statement that built the guard.
freeConnection(w) ==
    /\ pc[w] = "release"
    /\ give(raii[w])
    /\ raii' = [raii EXCEPT ![w] = NoSql]
    /\ \E woken \in wakeOne : pc' = [woken EXCEPT ![w] = "select"]
    /\ UNCHANGED <<closed, shut, sql, userVars, mixed>>

-----------------------------------------------------------------------------
(* The queries of UserVerify.                                              *)

InQuery  == {w \in Workers : pc[w] \in {"selecting", "inserting"}}
Clash(w) == sql[w] \in closed \/ \E v \in InQuery : v # w /\ sql[v] = sql[w]

Begin(w) ==
    /\ \/ pc[w] = "select" /\ Goto(w, "selecting")
       \/ pc[w] = "insert" /\ Goto(w, "inserting")
    /\ mixed' = (mixed \/ Clash(w))
    /\ UNCHANGED <<poolVars, raii, sql, userVars>>

\* The call is over; UserVerify's variable goes out of scope.
Return(w) == Goto(w, "idle") /\ sql' = [sql EXCEPT ![w] = NoSql]

\* mysql_query fails, for a registration and for a login.
QueryFails(w) ==
    /\ w \in InQuery
    /\ Return(w)
    /\ UNCHANGED <<poolVars, raii, userVars, mixed>>

\* The rows are fetched: a login is answered, a registration goes on if the
\* name is free, or if there is no result to fetch from (mysql_store_result
\* fails), which the loop over the rows takes for a free name.
Selected(w) ==
    /\ pc[w] = "selecting"
    /\ \E found \in BOOLEAN :
          /\ found /\ ~mixed => want[w].name \in rows
          /\ IF want[w].isLogin \/ found
             THEN Return(w)
             ELSE Goto(w, "insert") /\ UNCHANGED sql
    /\ UNCHANGED <<poolVars, raii, userVars, mixed>>

report(w) == registered' = [registered EXCEPT ![want[w].name] = @ + 1]

Inserted(w) ==
    /\ pc[w] = "inserting"
    /\ registered[want[w].name] < MaxAnswers
    /\ want[w].name \notin rows \/ mixed
    /\ rows' = rows \cup {want[w].name}
    /\ report(w)
    /\ Return(w)
    /\ UNCHANGED <<poolVars, raii, want, mixed>>

\* Mutant: the failure of the INSERT leaves flag as the SELECT set it.
insertRefusedUnseen(w) == report(w)

\* flag = false when the INSERT fails.
insertRefused(w) == UNCHANGED registered

\* The table's UNIQUE key refuses a name that another thread inserted since.
Duplicate(w) ==
    /\ pc[w] = "inserting"
    /\ registered[want[w].name] < MaxAnswers
    /\ want[w].name \in rows
    /\ insertRefused(w)
    /\ Return(w)
    /\ UNCHANGED <<poolVars, raii, want, rows, mixed>>

-----------------------------------------------------------------------------
\* ClosePool, called by ~WebServer, closes what is in the queue; the counters
\* keep their values, and nobody is notified.
ClosePool ==
    /\ MayClose /\ ~shut
    /\ shut' = TRUE
    /\ connQue' = << >>
    /\ closed' = closed \cup {connQue[i] : i \in DOMAIN connQue}
    /\ mixed' = (mixed \/ \E w \in InQuery, i \in DOMAIN connQue : connQue[i] = sql[w])
    /\ UNCHANGED <<freeCount, useCount, raii, sql, userVars, pc>>

WorkerStep(w) ==
    \/ GetWaits(w) \/ getConnection(w) \/ freeConnection(w)
    \/ Begin(w) \/ QueryFails(w) \/ Selected(w) \/ Inserted(w) \/ Duplicate(w)

Next == (\E w \in Workers : UserVerify(w) \/ WorkerStep(w)) \/ ClosePool

Spec == Init /\ [][Next]_vars

\* Threads run, and the database answers.
FairSpec == Spec /\ \A w \in Workers : WF_vars(WorkerStep(w))

-----------------------------------------------------------------------------
(* Properties.                                                             *)

\* The variables have their types; neither counter leaves 0 .. MAX_CONN_.
TypeOK ==
    /\ connQue \in Seq(Created)
    /\ freeCount \in 0 .. Cardinality(Created)
    /\ useCount \in 0 .. Cardinality(Created)
    /\ closed \subseteq Created /\ shut \in BOOLEAN /\ mixed \in BOOLEAN
    /\ raii \in [Workers -> Created \cup {NoSql}]
    /\ sql \in [Workers -> Created \cup {NoSql}]
    /\ want \in [Workers -> [name : Names, isLogin : BOOLEAN]]
    /\ rows \subseteq Names /\ registered \in [Names -> 0 .. MaxAnswers]
    /\ pc \in [Workers -> {"idle", "get", "waiting", "release", "select",
                           "selecting", "insert", "inserting"}]

\* A connection is in one place: in the queue once, or with one guard, or
\* closed; none is lost and none is handed out twice. freeCount_ and useCount_
\* count the queue and the guards.
EachOnce ==
    /\ \A c \in Created :
          Cardinality({i \in DOMAIN connQue : connQue[i] = c})
          + Cardinality({w \in Workers : raii[w] = c})
          + (IF c \in closed THEN 1 ELSE 0) = 1
    /\ ~shut => freeCount = Len(connQue)
    /\ useCount = Cardinality({w \in Workers : raii[w] # NoSql})

\* While the pool is open a thread waits only if every free connection has a
\* thread on its way to take it.
NoLostWakeup ==
    shut \/ Waiting = {} \/ Len(connQue) <= Cardinality(Getting)

\* Of the threads that register one name at the same time at most one is told
\* that it succeeded, and then the name is in the table.
RegisteredOnce ==
    ~mixed => \A n \in Names :
        registered[n] <= 1 /\ (registered[n] = 1 => n \in rows)

\* A connection is used by one thread at a time: what the guard is for
\* (sqlconnRAII.h:6 and the comment at httprequest.cpp:387).
OneUser ==
    \A v, w \in InQuery : sql[v] = sql[w] => v = w

\* A request that needs the database is answered, even when there is none: the
\* warning of Init (sqlconnpool.cpp:44).
VerifyReturns == \A w \in Workers : (pc[w] = "get") ~> (pc[w] = "idle")
=============================================================================
