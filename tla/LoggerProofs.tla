---------------------------- MODULE LoggerProofs ----------------------------
(* Theorems about Logger, for any number of threads and any capacity.       *)
EXTENDS Logger, FiniteSetTheorems, SequenceTheorems, TLAPS

\* The calls of log() that have begun and not yet put their message anywhere.
Pushing(t) == pc[t] \in {"push", "waitSpace"}

Typing == TypeOK /\ \A t \in Loggers : Pushing(t) => count[t] >= 1

\* Every message on its way has been begun, and the one a thread is about to
\* push is the only one of its own that is not on its way.
Begun(m) == m.n <= count[m.from] /\ (Pushing(m.from) => m.n < count[m.from])

AllBegun == \A i \in DOMAIN Pipeline : Begun(Pipeline[i])

PipelineInv == AllBegun /\ InOrder /\ NothingLost
-----------------------------------------------------------------------------
(* Types.                                                                  *)

LEMMA MessageFields ==
    ASSUME NEW m \in Messages
    PROVE  m.from \in Loggers /\ m.n \in 1 .. MaxMsgs[m.from]
BY DEF Messages

LEMMA CurrentIsMessage ==
    ASSUME NEW t \in Loggers, count[t] \in 1 .. MaxMsgs[t]
    PROVE  Current(t) \in Messages /\ Current(t).from = t /\ Current(t).n = count[t]
BY DEF Messages, Current

LEMMA TypeInit == Init => Typing
<1>. SUFFICES ASSUME Init PROVE Typing
  OBVIOUS
<1>1. << >> \in Seq(Messages) /\ Len(<< >>) <= capacity
  BY LoggerAssumption
<1>2. \A t \in Loggers : MaxMsgs[t] \in Nat
  BY LoggerAssumption
<1>3. count \in [Loggers -> Nat] /\ \A t \in Loggers : count[t] <= MaxMsgs[t]
  BY <1>2 DEF Init
<1>4. /\ pc \in [Loggers -> {"idle", "push", "waitSpace", "stop", "notifyConsumer",
                             "notifyProducers", "join", "stopped"}]
      /\ \A t \in Loggers : ~Pushing(t)
  BY DEF Init, Pushing
<1>. QED BY <1>1, <1>3, <1>4 DEF Init, Typing, TypeOK

LEMMA TypeNext == Typing /\ [Next]_vars => Typing'
<1>. SUFFICES ASSUME Typing, [Next]_vars PROVE Typing'
  OBVIOUS
<1>. USE LoggerAssumption DEF Typing, TypeOK, queueVars, diskVars, Pushing
<1>1. ASSUME NEW t \in Loggers, Log(t) PROVE Typing'
  <2>1. /\ count' = [count EXCEPT ![t] = count[t] + 1]
        /\ count[t] + 1 \in 1 .. MaxMsgs[t]
    BY <1>1 DEF Log
  <2>2. printed' \subseteq Messages
    <3>1. [from |-> t, n |-> count'[t]] \in Messages
      BY <2>1 DEF Messages
    <3>. QED BY <1>1, <3>1 DEF Log, Current
  <2>3. /\ count' \in [Loggers -> Nat] /\ count'[t] >= 1
        /\ \A u \in Loggers : count'[u] <= MaxMsgs[u] /\ (u # t => count'[u] = count[u])
    BY <2>1
  <2>4. pc' = pc \/ pc' = [pc EXCEPT ![t] = "push"]
    BY <1>1 DEF Log, Goto
  <2>. QED BY <1>1, <2>2, <2>3, <2>4 DEF Log
<1>2. ASSUME NEW t \in Loggers, PushWaits(t) PROVE Typing'
  BY <1>2 DEF PushWaits, Goto
<1>3. ASSUME NEW t \in Loggers, Push(t) PROVE Typing'
  <2>1. deq' = Append(deq, Current(t)) /\ Current(t) \in Messages /\ Len(deq) < capacity
    BY <1>3, CurrentIsMessage DEF Push, enqueue, Full
  <2>2. deq' \in Seq(Messages) /\ Len(deq') <= capacity
    BY <2>1
  <2>. QED BY <1>3, <2>2 DEF Push, Goto, NotifyConsumer
<1>4. CASE Test \/ PopFails \/ PopWaits
  BY <1>4 DEF Test, PopFails, PopWaits, WorkerAt
<1>5. CASE Pop
  <2>1. /\ Append(write_buffer, Head(deq)) \in Seq(Messages)
        /\ Tail(deq) \in Seq(Messages) /\ Len(Tail(deq)) <= capacity
    BY <1>5 DEF Pop
  <2>2. /\ pc' \in [Loggers -> {"idle", "push", "waitSpace", "stop", "notifyConsumer",
                                "notifyProducers", "join", "stopped"}]
        /\ \A t \in Loggers : Pushing(t)' <=> Pushing(t)
    BY <1>5 DEF Pop, wakeProducer, WaitForSpace
  <2>. QED BY <1>5, <2>1, <2>2 DEF Pop
<1>6. CASE flush_if_need \/ LastFlush
  <2>1. file \o write_buffer \in Seq(Messages) /\ << >> \in Seq(Messages)
    OBVIOUS
  <2>. QED BY <1>6, <2>1 DEF flush_if_need, LastFlush, flush, written, WorkerAt
<1>7. CASE TimePasses
  BY <1>7 DEF TimePasses
<1>8. CASE Shutdown
  BY <1>8 DEF Shutdown, Goto
<1>9. CASE Stop
  <2>1. << >> \in Seq(Messages) /\ Len(<< >>) <= capacity
    OBVIOUS
  <2>. QED BY <1>9, <2>1 DEF Stop, Goto
<1>10. CASE StopNotifiesConsumer
  BY <1>10 DEF StopNotifiesConsumer, NotifyConsumer, Goto
<1>11. CASE StopNotifiesProducers
  BY <1>11 DEF StopNotifiesProducers, wokenByStop, WaitForSpace
<1>12. CASE Join
  BY <1>12 DEF Join, Goto
<1>13. CASE UNCHANGED vars
  BY <1>13 DEF vars
<1>. QED
  BY <1>1, <1>2, <1>3, <1>4, <1>5, <1>6, <1>7, <1>8, <1>9, <1>10, <1>11, <1>12, <1>13
     DEF Next, LoggerStep, WorkerStep, ShutdownStep, Silence

LEMMA TypingInvariant == Spec => []Typing
BY TypeInit, TypeNext, PTL DEF Spec

\* Every variable keeps its type and the queue its capacity.
THEOREM TypeCorrect == Spec => []TypeOK
BY TypingInvariant, PTL DEF Typing
-----------------------------------------------------------------------------
(* Order and loss.                                                         *)

Ordered(q) ==
    \A i, j \in DOMAIN q : i < j /\ q[i].from = q[j].from => q[i].n < q[j].n

Elements(q) == {q[i] : i \in DOMAIN q}

\* A message newer than those of its thread keeps the order at the end.
LEMMA AppendOrdered ==
    ASSUME NEW q \in Seq(Messages), NEW m \in Messages, Ordered(q),
           \A i \in DOMAIN q : q[i].from = m.from => q[i].n < m.n
    PROVE  Ordered(Append(q, m)) /\ Elements(Append(q, m)) = Elements(q) \cup {m}
<1>. DEFINE r == Append(q, m)
<1>1. /\ Len(q) \in Nat /\ DOMAIN q = 1 .. Len(q) /\ DOMAIN r = 1 .. Len(q) + 1
      /\ \A i \in 1 .. Len(q) : r[i] = q[i]
      /\ r[Len(q) + 1] = m
  OBVIOUS
<1>. HIDE DEF r
<1>2. ASSUME NEW i \in DOMAIN r, NEW j \in DOMAIN r, i < j, r[i].from = r[j].from
      PROVE  r[i].n < r[j].n
  <2>1. i \in 1 .. Len(q) /\ r[i] = q[i]
    BY <1>1, <1>2
  <2>2. CASE j \in 1 .. Len(q)
    BY <1>1, <1>2, <2>1, <2>2 DEF Ordered
  <2>3. CASE j = Len(q) + 1
    BY <1>1, <1>2, <2>1, <2>3
  <2>. QED BY <1>1, <2>2, <2>3
<1>3. Elements(r) = Elements(q) \cup {m}
  <2>1. Elements(r) \subseteq Elements(q) \cup {m}
    BY <1>1 DEF Elements
  <2>2. Elements(q) \subseteq Elements(r)
    BY <1>1 DEF Elements
  <2>3. m \in Elements(r)
    BY <1>1 DEF Elements
  <2>. QED BY <2>1, <2>2, <2>3
<1>. QED BY <1>2, <1>3 DEF Ordered, r

\* What is in front keeps its order when the rest is taken away.
LEMMA PrefixOrdered ==
    ASSUME NEW p \in Seq(Messages), NEW q \in Seq(Messages), Ordered(p \o q)
    PROVE  Ordered(p) /\ Elements(p) \subseteq Elements(p \o q)
<1>. DEFINE r == p \o q
<1>1. /\ Len(p) \in Nat /\ Len(q) \in Nat /\ DOMAIN p = 1 .. Len(p)
      /\ DOMAIN r = 1 .. Len(p) + Len(q)
      /\ \A i \in 1 .. Len(p) : r[i] = p[i]
  OBVIOUS
<1>. HIDE DEF r
<1>2. \A i \in DOMAIN p : i \in DOMAIN r /\ r[i] = p[i]
  BY <1>1
<1>3. Ordered(r)
  BY DEF r
<1>4. Ordered(p) /\ Elements(p) \subseteq Elements(r)
  BY <1>2, <1>3 DEF Ordered, Elements
<1>. QED BY <1>4 DEF r

LEMMA PipelineType ==
    ASSUME TypeOK
    PROVE  Pipeline \in Seq(Messages) /\ file \o write_buffer \in Seq(Messages)
BY DEF TypeOK, Pipeline

\* Pop and the flushes move messages from one stage to the next.
LEMMA MoveFirst ==
    ASSUME NEW p \in Seq(Messages), NEW q \in Seq(Messages), NEW r \in Seq(Messages),
           r # << >>
    PROVE  (p \o Append(q, Head(r))) \o Tail(r) = (p \o q) \o r
<1>. DEFINE x == <<Head(r)>>
            y == Tail(r)
            z == q \o x
<1>1. /\ x \in Seq(Messages) /\ y \in Seq(Messages) /\ p \o q \in Seq(Messages)
      /\ Append(q, Head(r)) = z
  OBVIOUS
<1>2. r = x \o y
  <2>1. x \o y \in Seq(Messages) /\ Len(x \o y) = Len(r)
    BY <1>1
  <2>2. ASSUME NEW i \in 1 .. Len(r) PROVE r[i] = (x \o y)[i]
    OBVIOUS
  <2>. QED BY <2>1, <2>2, SeqEqual
<1>. HIDE DEF x, y
<1>3. \A a, b, c \in Seq(Messages) : (a \o b) \o c = a \o (b \o c)
  BY ConcatAssociative
<1>4. (p \o q) \o (x \o y) = ((p \o q) \o x) \o y
  BY <1>1, <1>3
<1>5. (p \o q) \o x = p \o z
  BY <1>1, <1>3
<1>. QED BY <1>1, <1>2, <1>4, <1>5 DEF y

LEMMA PopMoves ==
    ASSUME TypeOK, Pop
    PROVE  Pipeline' = Pipeline
BY MoveFirst DEF Pop, TypeOK, Pipeline

LEMMA FlushMoves ==
    ASSUME TypeOK, flush, UNCHANGED deq
    PROVE  Pipeline' = Pipeline
<1>1. file \o write_buffer \in Seq(Messages)
  BY DEF TypeOK
<1>2. (file \o write_buffer) \o << >> = file \o write_buffer
  BY <1>1, ConcatEmptySeq
<1>. QED BY <1>2 DEF flush, written, Pipeline
\* A step that begins, ends and loses no message.
Quiet ==
    /\ Pipeline' = Pipeline /\ UNCHANGED <<count, printed, deq_running>>
    /\ \A t \in Loggers : Pushing(t)' <=> Pushing(t)

LEMMA QuietSteps ==
    ASSUME Typing,
           \/ \E t \in Loggers : PushWaits(t)
           \/ WorkerStep \/ TimePasses \/ Shutdown \/ StopNotifiesConsumer
           \/ StopNotifiesProducers \/ Join \/ UNCHANGED vars
    PROVE  Quiet
<1>. USE LoggerAssumption DEF Typing, queueVars, diskVars
<1>1. ASSUME NEW t \in Loggers, PushWaits(t) PROVE Quiet
  BY <1>1 DEF PushWaits, Goto, Quiet, Pushing, Pipeline, TypeOK
<1>2. CASE Test \/ PopFails \/ PopWaits
  BY <1>2 DEF Test, PopFails, PopWaits, Quiet, Pushing, Pipeline
<1>3. CASE Pop
  <2>1. \A t \in Loggers : Pushing(t)' <=> Pushing(t)
    BY <1>3 DEF Pop, wakeProducer, WaitForSpace, Pushing, TypeOK
  <2>. QED BY <1>3, <2>1, PopMoves DEF Pop, Quiet
<1>4. CASE flush_if_need \/ LastFlush
  <2>1. Pipeline' = Pipeline
    BY <1>4, FlushMoves DEF flush_if_need, LastFlush, Pipeline
  <2>. QED BY <1>4, <2>1 DEF flush_if_need, LastFlush, Quiet, Pushing
<1>5. CASE TimePasses \/ UNCHANGED vars
  BY <1>5 DEF TimePasses, vars, Quiet, Pushing, Pipeline
<1>6. CASE Shutdown \/ StopNotifiesConsumer \/ Join
  BY <1>6 DEF Shutdown, StopNotifiesConsumer, Join, Goto, Quiet, Pushing, Pipeline, TypeOK
<1>7. CASE StopNotifiesProducers
  BY <1>7 DEF StopNotifiesProducers, wokenByStop, WaitForSpace, Quiet, Pushing, Pipeline,
              TypeOK
<1>. QED BY <1>1, <1>2, <1>3, <1>4, <1>5, <1>6, <1>7 DEF WorkerStep

LEMMA PipelineInit == Init => PipelineInv
<1>. SUFFICES ASSUME Init PROVE PipelineInv
  OBVIOUS
<1>1. Pipeline = << >>
  BY DEF Init, Pipeline
<1>2. Logged = {}
  <2>1. ASSUME NEW m \in Messages PROVE ~(m.n <= count[m.from])
    BY MessageFields, LoggerAssumption DEF Init
  <2>. QED BY <2>1 DEF Logged
<1>. QED BY <1>1, <1>2 DEF PipelineInv, AllBegun, InOrder, NothingLost

\* What is ordered and begun in Pipeline, said of its elements.
LEMMA PipelineElements ==
    ASSUME TypeOK
    PROVE  /\ AllBegun <=> \A m \in Elements(Pipeline) : Begun(m)
           /\ InOrder <=> Ordered(Pipeline)
           /\ InPipeline = Elements(Pipeline) /\ Elements(Pipeline) \subseteq Messages
<1>1. \A i \in DOMAIN Pipeline : Pipeline[i] \in Messages
  BY PipelineType
<1>. QED BY <1>1 DEF AllBegun, InOrder, Ordered, InPipeline, Elements

\* Appending to the last part is appending to the whole.
LEMMA AppendLast ==
    ASSUME NEW p \in Seq(Messages), NEW q \in Seq(Messages), NEW m \in Messages
    PROVE  p \o Append(q, m) = Append(p \o q, m)
OBVIOUS

\* A message was logged if its number is no larger than that of its thread's
\* last finished call.
LEMMA LoggedIs ==
    /\ \A m : m \in Logged <=>
          m \in Messages /\ m.n <= count[m.from]
                        /\ ~(m.n = count[m.from] /\ Pushing(m.from))
    /\ \A m : m \in Logged' <=>
          m \in Messages /\ m.n <= count'[m.from]
                        /\ ~(m.n = count'[m.from] /\ Pushing(m.from)')
<1>1. \A m \in Messages : m = Current(m.from) <=> m.n = count[m.from]
  BY DEF Messages, Current
<1>2. \A m \in Messages : m = Current(m.from)' <=> m.n = count'[m.from]
  BY DEF Messages, Current
<1>. QED BY <1>1, <1>2 DEF Logged, Pushing

LEMMA PipelineNext == Typing /\ Typing' /\ PipelineInv /\ [Next]_vars => PipelineInv'
<1>. SUFFICES ASSUME Typing, Typing', PipelineInv, [Next]_vars PROVE PipelineInv'
  OBVIOUS
<1>. USE LoggerAssumption
<1>0. /\ Pipeline \in Seq(Messages) /\ Elements(Pipeline) \subseteq Messages
      /\ \A m \in Elements(Pipeline) : Begun(m)
      /\ Ordered(Pipeline) /\ (deq_running => Logged \subseteq Elements(Pipeline) \cup printed)
  BY PipelineType, PipelineElements DEF Typing, PipelineInv, NothingLost
<1>. DEFINE Goal == /\ \A m \in Elements(Pipeline)' : Begun(m)'
                    /\ Ordered(Pipeline)'
                    /\ deq_running' => Logged' \subseteq Elements(Pipeline)' \cup printed'
<1>. SUFFICES Goal
  BY DEF Typing, PipelineInv, NothingLost, AllBegun, InOrder, Ordered, InPipeline, Elements
<1>1. CASE Quiet
  <2>1. \A m \in Messages : Begun(m)' <=> Begun(m)
    BY <1>1, MessageFields DEF Quiet, Begun
  <2>2. Logged' = Logged
    BY <1>1, MessageFields DEF Quiet, Logged, Current, Pushing
  <2>3. Ordered(Pipeline)' /\ Elements(Pipeline)' = Elements(Pipeline)
    BY <1>0, <1>1 DEF Quiet, Ordered, Elements
  <2>. QED BY <1>0, <1>1, <2>1, <2>2, <2>3 DEF Quiet
<1>2. ASSUME NEW t \in Loggers, Log(t) PROVE Goal
  <2>1. /\ count' = [count EXCEPT ![t] = count[t] + 1] /\ ~Pushing(t)
        /\ Pipeline' = Pipeline /\ UNCHANGED deq_running /\ printed \subseteq printed'
        /\ \A u \in Loggers \ {t} : Pushing(u)' <=> Pushing(u)
        /\ Pushing(t)' \/ printed' = printed \cup {Current(t)'}
    BY <1>2 DEF Log, Goto, Pushing, Pipeline, queueVars, diskVars, Typing, TypeOK
  <2>2. /\ count'[t] = count[t] + 1 /\ count[t] \in Nat
        /\ \A u \in Loggers \ {t} : count'[u] = count[u]
    BY <2>1 DEF Typing, TypeOK
  <2>3. \A m \in Messages : Begun(m) => Begun(m)'
    BY <2>1, <2>2, MessageFields DEF Begun
  <2>4. \A m \in Messages : m.from = t /\ m.n = count'[t] => m = Current(t)'
    BY DEF Messages, Current
  <2>5. \A m \in Logged' : m \in Logged \/ (m.from = t /\ m.n = count'[t] /\ ~Pushing(t)')
    BY <2>1, <2>2, LoggedIs, MessageFields
  <2>6. Logged' \subseteq Logged \cup printed'
    BY <2>1, <2>4, <2>5, LoggedIs
  <2>7. Ordered(Pipeline)' /\ Elements(Pipeline)' = Elements(Pipeline)
    BY <1>0, <2>1 DEF Ordered, Elements
  <2>. QED BY <1>0, <2>1, <2>3, <2>6, <2>7
<1>3. ASSUME NEW t \in Loggers, Push(t) PROVE Goal
  <2>1. PICK m \in Messages :
           m = Current(t) /\ m.from = t /\ m.n = count[t] /\ Pushing(t)
    BY <1>3, CurrentIsMessage DEF Push, Typing, TypeOK, Pushing
  <2>2. /\ UNCHANGED <<count, printed, deq_running>> /\ ~Pushing(t)'
        /\ \A u \in Loggers \ {t} : Pushing(u)' <=> Pushing(u)
    BY <1>3 DEF Push, Goto, Pushing, Typing, TypeOK
  <2>3. Pipeline' = Append(Pipeline, m)
    <3>1. /\ file \o write_buffer \in Seq(Messages) /\ deq \in Seq(Messages)
          /\ deq' = Append(deq, m) /\ UNCHANGED <<file, write_buffer>>
      BY <1>3, <2>1, PipelineType DEF Push, enqueue, diskVars, Typing, TypeOK
    <3>. QED BY <2>1, <3>1, AppendLast DEF Pipeline
  <2>4. \A i \in DOMAIN Pipeline : Pipeline[i].from = m.from => Pipeline[i].n < m.n
    BY <1>0, <2>1 DEF Begun, Elements
  <2>5. Ordered(Append(Pipeline, m)) /\ Elements(Append(Pipeline, m)) = Elements(Pipeline) \cup {m}
    BY <1>0, <2>1, <2>4, AppendOrdered
  <2>6. Ordered(Pipeline)' /\ Elements(Pipeline)' = Elements(Pipeline) \cup {m}
    BY <2>3, <2>5 DEF Ordered, Elements
  <2>7. \A x \in Messages : Begun(x) => Begun(x)'
    BY <2>2, MessageFields DEF Begun
  <2>8. Begun(m)'
    BY <2>1, <2>2 DEF Begun, Typing, TypeOK
  <2>9. Logged' \subseteq Logged \cup {m}
    <3>1. \A x \in Messages : x.from = t /\ x.n = count[t] => x = m
      BY <2>1 DEF Messages, Current
    <3>2. \A x \in Logged' : x \in Logged \/ (x.from = t /\ x.n = count[t])
      BY <2>2, LoggedIs, MessageFields
    <3>. QED BY <3>1, <3>2, LoggedIs
  <2>. QED BY <1>0, <2>2, <2>6, <2>7, <2>8, <2>9
<1>4. CASE Stop
  <2>1. /\ Pipeline' = (file \o write_buffer) \o << >> /\ ~deq_running'
        /\ UNCHANGED count /\ \A t \in Loggers : Pushing(t)' <=> Pushing(t)
    BY <1>4 DEF Stop, Goto, diskVars, Pipeline, Pushing, Typing, TypeOK
  <2>. DEFINE q == file \o write_buffer
  <2>2. Pipeline' = q /\ q \in Seq(Messages) /\ deq \in Seq(Messages) /\ Pipeline = q \o deq
    BY <2>1, PipelineType, ConcatEmptySeq DEF Typing, TypeOK, Pipeline
  <2>. HIDE DEF q
  <2>3. Ordered(q) /\ Elements(q) \subseteq Elements(Pipeline)
    BY <1>0, <2>2, PrefixOrdered
  <2>4. Ordered(Pipeline)' /\ Elements(Pipeline)' = Elements(q)
    BY <2>2, <2>3 DEF Ordered, Elements
  <2>5. \A m \in Messages : Begun(m)' <=> Begun(m)
    BY <2>1, MessageFields DEF Begun
  <2>. QED BY <1>0, <2>1, <2>3, <2>4, <2>5
<1>. HIDE DEF Goal
<1>. QED
  BY <1>1, <1>2, <1>3, <1>4, QuietSteps DEF Next, LoggerStep, ShutdownStep, Silence
LEMMA PipelineInvariant == Spec => []PipelineInv
BY TypingInvariant, PipelineInit, PipelineNext, PTL DEF Spec

\* For any number of threads, places and messages the queue, the write buffer
\* and the file keep each thread's messages in the order it logged them.
THEOREM MessagesInOrder == Spec => []InOrder
BY PipelineInvariant, PTL DEF PipelineInv

\* And until the queue is stopped they keep all of them.
THEOREM MessagesKept == Spec => []NothingLost
BY PipelineInvariant, PTL DEF PipelineInv

-----------------------------------------------------------------------------
(* Producers.                                                              *)

Stopping == pc[Main] \in {"notifyConsumer", "notifyProducers"}

\* Free places without a thread that is to take them.
Unclaimed == capacity - Len(deq) - Cardinality(InPush)

LEMMA InPushFinite ==
    ASSUME TypeOK
    PROVE  /\ IsFiniteSet(InPush) /\ Cardinality(InPush) \in Nat
           /\ Len(deq) \in Nat /\ capacity \in Nat
BY LoggerAssumption, FS_Subset, FS_CardinalityType DEF InPush, TypeOK

LEMMA WakeupInit == Init => NoLostWakeup
BY DEF Init, NoLostWakeup, WaitForSpace

LEMMA WakeupNext == TypeOK /\ TypeOK' /\ NoLostWakeup /\ [Next]_vars => NoLostWakeup'
<1>. SUFFICES ASSUME TypeOK, TypeOK', NoLostWakeup, [Next]_vars PROVE NoLostWakeup'
  OBVIOUS
<1>. USE LoggerAssumption
<1>0. NoLostWakeup <=> Stopping \/ WaitForSpace = {} \/ Unclaimed <= 0
  BY InPushFinite DEF NoLostWakeup, Stopping, Unclaimed
<1>1. ASSUME Stopping' \/ WaitForSpace' = {} \/ Unclaimed' <= 0
      PROVE  NoLostWakeup'
  <2>1. Cardinality(InPush') \in Nat /\ Len(deq') \in Nat /\ capacity \in Nat
    BY FS_Subset, FS_CardinalityType DEF InPush, TypeOK
  <2>. QED BY <1>1, <2>1 DEF NoLostWakeup, Stopping, Unclaimed
<1>2. ASSUME InPush' = InPush, WaitForSpace' = WaitForSpace, Len(deq') = Len(deq),
             Stopping => Stopping'
      PROVE  NoLostWakeup'
  BY <1>0, <1>1, <1>2 DEF Unclaimed
\* Whoever begins to push will take a place.
<1>3. ASSUME NEW t \in Loggers, Log(t) PROVE NoLostWakeup'
  <2>1. CASE UNCHANGED pc
    BY <1>2, <1>3, <2>1 DEF Log, queueVars, InPush, WaitForSpace, Stopping
  <2>2. CASE pc' = [pc EXCEPT ![t] = "push"]
    <3>1. /\ InPush' = InPush \cup {t} /\ t \notin InPush /\ WaitForSpace' = WaitForSpace
          /\ deq' = deq /\ (Stopping => Stopping')
      BY <1>3, <2>2 DEF Log, queueVars, InPush, WaitForSpace, Stopping, TypeOK
    <3>2. Cardinality(InPush') = Cardinality(InPush) + 1
      BY <3>1, InPushFinite, FS_AddElement
    <3>. QED BY <1>0, <1>1, <3>1, <3>2, InPushFinite DEF Unclaimed
  <2>. QED BY <1>3, <2>1, <2>2 DEF Log, Goto
<1>4. ASSUME NEW t \in Loggers, PushWaits(t) PROVE NoLostWakeup'
  <2>1. Len(deq') >= capacity /\ Cardinality(InPush') \in Nat /\ Len(deq') \in Nat
    BY <1>4, FS_Subset, FS_CardinalityType DEF PushWaits, Full, queueVars, InPush, TypeOK
  <2>. QED BY <1>1, <2>1 DEF Unclaimed
\* Who has pushed took its own place.
<1>5. ASSUME NEW t \in Loggers, Push(t) PROVE NoLostWakeup'
  <2>1. /\ InPush' = InPush \ {t} /\ t \in InPush /\ WaitForSpace' = WaitForSpace
        /\ (Stopping => Stopping')
    BY <1>5 DEF Push, Goto, InPush, WaitForSpace, Stopping, TypeOK
  <2>2. Len(deq') = Len(deq) + 1
    BY <1>5 DEF Push, enqueue, TypeOK
  <2>3. Cardinality(InPush') = Cardinality(InPush) - 1
    BY <2>1, InPushFinite, FS_RemoveElement
  <2>. QED BY <1>0, <1>1, <2>1, <2>2, <2>3, InPushFinite DEF Unclaimed
<1>6. CASE Test \/ PopFails \/ PopWaits
  BY <1>2, <1>6 DEF Test, PopFails, PopWaits, queueVars, InPush, WaitForSpace, Stopping
\* The place that becomes free goes to the thread that is woken.
<1>7. CASE Pop
  <2>1. Len(deq') = Len(deq) - 1
    BY <1>7 DEF Pop, TypeOK
  <2>2. CASE WaitForSpace = {}
    <3>1. WaitForSpace' = {}
      BY <1>7, <2>2 DEF Pop, wakeProducer, WaitForSpace
    <3>. QED BY <1>1, <3>1
  <2>3. CASE WaitForSpace # {}
    <3>1. PICK t \in WaitForSpace : pc' = [pc EXCEPT ![t] = "push"]
      BY <1>7, <2>3 DEF Pop, wakeProducer
    <3>2. InPush' = InPush \cup {t} /\ t \notin InPush /\ (Stopping => Stopping')
      BY <3>1 DEF InPush, WaitForSpace, Stopping, TypeOK
    <3>3. Cardinality(InPush') = Cardinality(InPush) + 1
      BY <3>2, InPushFinite, FS_AddElement
    <3>. QED BY <1>0, <1>1, <2>1, <2>3, <3>2, <3>3, InPushFinite DEF Unclaimed
  <2>. QED BY <2>2, <2>3
<1>8. CASE flush_if_need \/ LastFlush \/ TimePasses \/ UNCHANGED vars
  BY <1>2, <1>8 DEF flush_if_need, LastFlush, TimePasses, vars, queueVars, InPush,
                    WaitForSpace, Stopping
<1>9. CASE Stop \/ StopNotifiesConsumer
  <2>1. Stopping'
    BY <1>9 DEF Stop, StopNotifiesConsumer, Goto, Stopping, TypeOK
  <2>. QED BY <1>1, <2>1
<1>10. CASE StopNotifiesProducers
  <2>1. WaitForSpace' = {}
    BY <1>10 DEF StopNotifiesProducers, wokenByStop, WaitForSpace
  <2>. QED BY <1>1, <2>1
<1>11. CASE Shutdown \/ Join
  BY <1>2, <1>11 DEF Shutdown, Join, Goto, queueVars, InPush, WaitForSpace, Stopping, TypeOK
<1>. QED
  BY <1>3, <1>4, <1>5, <1>6, <1>7, <1>8, <1>9, <1>10, <1>11
     DEF Next, LoggerStep, WorkerStep, ShutdownStep, Silence

\* However many threads share however few places, none waits for a place that
\* nobody was woken to take.
THEOREM NoWakeupIsLost == Spec => []NoLostWakeup
BY TypeCorrect, WakeupInit, WakeupNext, PTL DEF Spec
=============================================================================
