-------------------------- MODULE HttpConnectProofs --------------------------
(* Theorems about HttpConnect, for every length, file and request.          *)
EXTENDS HttpConnect, TLAPS

\* Where the handlers stand when epoll is not to report the connection, and
\* when a response is being written.
Phases ==
    /\ interest = "off" <=> pc \in {"stat", "errorHtml", "body"}
    /\ pc \in {"loop", "after"} => Answering

\* While a response is built no file is mapped. Afterwards the file's part of
\* the response is what is mapped, and iov has a second entry only for it.
MappedIsSent ==
    /\ interest = "off" => ~response.mmFile
    /\ Answering =>
          /\ reply.file = (IF response.mmFile THEN response.st_size ELSE 0)
          /\ iov.cnt = IF reply.file > 0 THEN 2 ELSE 1

\* In the loop there is something left, total_to_write knows how much, and
\* level-triggered it is the loop's first turn.
LoopInv ==
    pc = "loop" => /\ pending(iov) > 0
                   /\ total_to_write = pending(iov)
                   /\ ~is_edge_trigger => write_bytes = 0

ReplyInv == Phases /\ MappedIsSent /\ LoopInv /\ Accounting /\ LengthTrue /\ MappingHeld

-----------------------------------------------------------------------------
(* What the operations of HttpResponse return.                             *)

\* munmap takes from the history what mmap added, and leaves nothing mapped.
LEMMA UnmapReturns ==
    ASSUME NEW r \in Responses
    PROVE  /\ UnmapFile(r) \in Responses /\ ~UnmapFile(r).mmFile
           /\ UnmapFile(r).mapped = IF r.mmFile THEN r.mapped - r.st_size ELSE r.mapped
<1>. USE DEF Responses
<1>1. CASE r.mmFile
  <2>. DEFINE u == [r EXCEPT !.mmFile = FALSE, !.mapped = r.mapped - r.st_size]
  <2>1. r.mapped - r.st_size \in Int
    OBVIOUS
  <2>2. u \in Responses
    BY <2>1
  <2>3. ~u.mmFile /\ u.mapped = r.mapped - r.st_size
    OBVIOUS
  <2>. QED BY <1>1, <2>2, <2>3 DEF UnmapFile
<1>2. CASE ~r.mmFile
  BY <1>2 DEF UnmapFile
<1>. QED BY <1>1, <1>2

LEMMA InitReturns ==
    ASSUME NEW r \in Responses, NEW path \in {"file", "health"}, NEW code \in Codes
    PROVE  /\ Init_(r, path, code) \in Responses /\ ~Init_(r, path, code).mmFile
           /\ Init_(r, path, code).mapped =
                 IF r.mmFile THEN r.mapped - r.st_size ELSE r.mapped
<1>1. PICK u \in Responses :
         /\ u = UnmapFile(r) /\ ~u.mmFile
         /\ u.mapped = IF r.mmFile THEN r.mapped - r.st_size ELSE r.mapped
  BY UnmapReturns
<1>. DEFINE v == [u EXCEPT !.path = path, !.code = code, !.st_size = 0]
<1>2. v \in Responses /\ v.mmFile = u.mmFile /\ v.mapped = u.mapped
  BY DEF Responses
<1>3. Init_(r, path, code) = v
  BY <1>1 DEF Init_
<1>. HIDE DEF v
<1>. QED BY <1>1, <1>2, <1>3

LEMMA StatReturns ==
    ASSUME NEW r \in Responses, NEW f \in Files
    PROVE  /\ stat(r, f) \in Responses
           /\ stat(r, f).mmFile = r.mmFile /\ stat(r, f).mapped = r.mapped
           /\ statCode(f) \in Codes
BY DEF stat, statCode, Responses, Files, Kinds, Codes

LEMMA ErrorHtmlReturns ==
    ASSUME NEW r \in Responses, NEW f \in Files
    PROVE  /\ ErrorHtml_(r, f) \in Responses
           /\ ErrorHtml_(r, f).mmFile = r.mmFile /\ ErrorHtml_(r, f).mapped = r.mapped
<1>1. PICK u \in Responses :
         u = stat(r, f) /\ u.mmFile = r.mmFile /\ u.mapped = r.mapped
  BY StatReturns
<1>. QED BY <1>1 DEF ErrorHtml_, Responses

-----------------------------------------------------------------------------
(* What the operations on iov return.                                      *)

LEMMA PendingType == ASSUME NEW v \in Iov PROVE pending(v) \in Nat
BY DEF pending, Iov

\* A short write takes n bytes off what is left, the headers first, and leaves
\* the number of entries.
LEMMA AdvanceReturns ==
    ASSUME NEW v \in Iov, NEW n \in 1 .. pending(v)
    PROVE  /\ advance(v, n) \in Iov /\ advance(v, n).cnt = v.cnt
           /\ pending(advance(v, n)) = pending(v) - n
           /\ advance(v, n).len0 = IF n < v.len0 THEN v.len0 - n ELSE 0
           /\ advance(v, n).len1 <= v.len1
<1>. USE DEF Iov, pending
<1>1. CASE n < v.len0
  <2>. DEFINE u == [v EXCEPT !.len0 = v.len0 - n]
  <2>1. u \in Iov /\ u.cnt = v.cnt /\ u.len0 = v.len0 - n /\ u.len1 = v.len1
    BY <1>1
  <2>. QED BY <1>1, <2>1 DEF advance
<1>2. CASE n >= v.len0 /\ v.cnt > 1
  <2>. DEFINE u == [v EXCEPT !.len0 = 0, !.len1 = v.len1 - (n - v.len0)]
  <2>1. v.len1 - (n - v.len0) \in Nat
    BY <1>2
  <2>2. u \in Iov /\ u.cnt = v.cnt /\ u.len0 = 0 /\ u.len1 = v.len1 - (n - v.len0)
    BY <2>1
  <2>. QED BY <1>2, <2>1, <2>2 DEF advance
<1>3. CASE n >= v.len0 /\ ~(v.cnt > 1)
  <2>. DEFINE u == [v EXCEPT !.len0 = 0]
  <2>1. u \in Iov /\ u.cnt = v.cnt /\ u.len0 = 0 /\ u.len1 = v.len1
    BY <1>3
  <2>. QED BY <1>3, <2>1 DEF advance
<1>. QED BY <1>1, <1>2, <1>3

LEMMA EmptiedReturns ==
    ASSUME NEW v \in Iov
    PROVE  /\ emptied(v) \in Iov /\ emptied(v).cnt = v.cnt
           /\ pending(emptied(v)) = 0 /\ emptied(v).len0 = 0
           /\ emptied(v).len1 <= v.len1
<1>. USE DEF Iov, pending
<1>1. CASE v.cnt > 1
  <2>. DEFINE u == [v EXCEPT !.len0 = 0, !.len1 = 0]
  <2>1. u \in Iov /\ u.cnt = v.cnt /\ u.len0 = 0 /\ u.len1 = 0
    OBVIOUS
  <2>. QED BY <1>1, <2>1 DEF emptied
<1>2. CASE ~(v.cnt > 1)
  BY <1>2 DEF emptied
<1>. QED BY <1>1, <1>2

LEMMA ResponseIovReturns ==
    ASSUME NEW v \in Iov, NEW head \in Nat, NEW file \in Nat
    PROVE  /\ responseIov(v, head, file) \in Iov
           /\ pending(responseIov(v, head, file)) = head + file
           /\ responseIov(v, head, file).len0 = head
           /\ responseIov(v, head, file).cnt = IF file > 0 THEN 2 ELSE 1
           /\ file > 0 => responseIov(v, head, file).len1 = file
BY DEF pending, responseIov, Iov

-----------------------------------------------------------------------------
(* Types.                                                                  *)

LEMMA OnProcessTyped ==
    ASSUME TypeOK, NEW buff \in Seq(Requests), OnProcess(buff)
    PROVE  /\ interest' \in {"in", "off"} /\ readBuff' \in Seq(Requests)
           /\ parse_success' \in BOOLEAN /\ isKeepAlive' \in BOOLEAN
           /\ response' \in Responses
           /\ pc' \in {"epoll", "stat", "errorHtml", "body"}
<1>1. CASE buff = << >>
  BY <1>1 DEF OnProcess, TypeOK
<1>2. CASE buff # << >>
  <2>. DEFINE r == Head(buff)
  <2>1. r \in [ok : BOOLEAN, keep : BOOLEAN, path : {"file", "health"}]
    BY <1>2, HttpConnectAssumption
  <2>2. Tail(buff) \in Seq(Requests)
    BY <1>2
  <2>3. Init_(response, r.path, IF r.ok THEN -1 ELSE 400) \in Responses
    BY <2>1, InitReturns DEF TypeOK, Codes
  <2>4. pc' \in {"stat", "errorHtml", "body"}
    BY <1>2, <2>1 DEF OnProcess
  <2>. QED BY <1>2, <2>1, <2>2, <2>3, <2>4 DEF OnProcess
<1>. QED BY <1>1, <1>2

LEMMA AnswerTyped ==
    ASSUME TypeOK, NEW r \in Responses, NEW w \in [head : Nat, announced : Nat],
           Answer(r, w)
    PROVE  /\ response' \in Responses /\ iov' \in Iov /\ wire' \in Nat
           /\ reply' \in [head : Nat, file : Nat, announced : Nat]
           /\ interest' \in {"in", "out"} /\ pc' = "epoll"
<1>1. fileToSend(r) \in Nat
  BY DEF fileToSend, Responses
<1>2. iov' \in Iov
  BY <1>1, ResponseIovReturns DEF Answer, TypeOK
<1>. QED BY <1>1, <1>2 DEF Answer

\* The three things AddBody_ may come to, for an object it started with.
LEMMA AddBodyAnswers ==
    ASSUME TypeOK, AddBody_
    PROVE  \E r \in Responses, w \in [head : Nat, announced : Nat] :
              /\ Answer(r, w)
              /\ \/ /\ r.mmFile /\ r.st_size > 0 /\ w = FileHeaders(response)
                    /\ r.st_size = response.st_size
                    /\ r.mapped = response.mapped + response.st_size
                 \/ /\ r.mmFile = response.mmFile /\ r.mapped = response.mapped
                    /\ r.st_size = response.st_size /\ w = InlineBody
<1>1. /\ FileHeaders(response) \in [head : Nat, announced : Nat]
      /\ InlineBody \in [head : Nat, announced : Nat]
  BY HttpResponseAssumption DEF TypeOK, FileHeaders, InlineBody, Responses
<1>2. CASE Answer([response EXCEPT !.code = 200], InlineBody)
  <2>. DEFINE r == [response EXCEPT !.code = 200]
  <2>1. /\ r \in Responses /\ r.mmFile = response.mmFile
        /\ r.mapped = response.mapped /\ r.st_size = response.st_size
    BY DEF TypeOK, Responses, Codes
  <2>. QED BY <1>1, <1>2, <2>1
<1>3. ASSUME NEW f, maps(response, f), Answer(Mapped(response), FileHeaders(response))
      PROVE  \E r \in Responses :
                /\ Answer(r, FileHeaders(response)) /\ r.mmFile /\ r.st_size > 0
                /\ r.st_size = response.st_size
                /\ r.mapped = response.mapped + response.st_size
  <2>. DEFINE r == [response EXCEPT !.mmFile = TRUE,
                                    !.mapped = response.mapped + response.st_size]
  <2>1. /\ response.mapped + response.st_size \in Int
        /\ response.st_size > 0
    BY <1>3 DEF TypeOK, maps, Responses
  <2>2. r \in Responses
    BY <2>1 DEF TypeOK, Responses
  <2>3. /\ r.mmFile /\ r.st_size = response.st_size
        /\ r.mapped = response.mapped + response.st_size
    BY DEF TypeOK, Responses
  <2>4. Answer(r, FileHeaders(response))
    BY <1>3 DEF Mapped
  <2>. HIDE DEF r
  <2>. QED BY <2>1, <2>2, <2>3, <2>4
<1>4. CASE Answer(response, InlineBody)
  BY <1>1, <1>4 DEF TypeOK
<1>. QED BY <1>1, <1>2, <1>3, <1>4 DEF AddBody_

LEMMA TypeInit == Init => TypeOK
<1>. SUFFICES ASSUME Init PROVE TypeOK
  OBVIOUS
<1>1. response \in Responses
  BY DEF Init, NewResponse, Responses, Codes
<1>2. iov \in Iov /\ readBuff \in Seq(Requests)
  BY DEF Init, Iov
<1>. QED BY <1>1, <1>2 DEF Init, TypeOK

\* One lemma for all actions: a step keeps the types.
LEMMA TypeNext == TypeOK /\ [Next]_vars => TypeOK'
<1>. SUFFICES ASSUME TypeOK, [Next]_vars PROVE TypeOK'
  OBVIOUS
<1>. USE HttpConnectAssumption DEF connVars, replyVars, localVars
<1>1. ASSUME NEW arrival \in Arrivals, OnRead_(arrival), UNCHANGED is_edge_trigger
      PROVE  TypeOK'
  <2>1. readBuff \o arrival \in Seq(Requests)
    BY DEF TypeOK
  <2>2. OnProcess(readBuff \o arrival)
    BY <1>1 DEF OnRead_
  <2>3. /\ interest' \in {"in", "off"} /\ readBuff' \in Seq(Requests)
        /\ parse_success' \in BOOLEAN /\ isKeepAlive' \in BOOLEAN
        /\ response' \in Responses
        /\ pc' \in {"epoll", "stat", "errorHtml", "body"}
    BY <2>1, <2>2, OnProcessTyped
  <2>4. iov' \in Iov
    BY <1>1 DEF OnRead_, Iov, TypeOK
  <2>. QED BY <1>1, <2>3, <2>4 DEF OnRead_, TypeOK
<1>2. CASE Stat /\ UNCHANGED is_edge_trigger
  <2>. DEFINE r == stat(response, disk.file)
  <2>1. disk.file \in Files
    BY DEF TypeOK
  <2>2. r \in Responses /\ statCode(disk.file) \in Codes
    BY <2>1, StatReturns DEF TypeOK
  <2>. HIDE DEF r
  <2>3. [r EXCEPT !.code = statCode(disk.file)] \in Responses
    BY <2>2 DEF Responses
  <2>4. response' \in Responses
    BY <1>2, <2>3 DEF Stat, r
  <2>. QED BY <1>2, <2>4 DEF Stat, TypeOK
<1>3. CASE ErrorHtml /\ UNCHANGED is_edge_trigger
  <2>1. disk.error \in Files
    BY DEF TypeOK
  <2>2. ErrorHtml_(response, disk.error) \in Responses
    BY <2>1, ErrorHtmlReturns DEF TypeOK
  <2>. QED BY <1>3, <2>2 DEF ErrorHtml, TypeOK
<1>4. CASE AddBody_ /\ UNCHANGED is_edge_trigger
  <2>1. PICK r \in Responses, w \in [head : Nat, announced : Nat] : Answer(r, w)
    BY <1>4, AddBodyAnswers
  <2>2. /\ response' \in Responses /\ iov' \in Iov /\ wire' \in Nat
        /\ reply' \in [head : Nat, file : Nat, announced : Nat]
        /\ interest' \in {"in", "out"} /\ pc' = "epoll"
    BY <2>1, AnswerTyped
  <2>. QED BY <1>4, <2>2 DEF AddBody_, TypeOK
<1>5. CASE DiskChanges /\ UNCHANGED is_edge_trigger
  BY <1>5 DEF DiskChanges, TypeOK
<1>6. CASE OnWrite_ /\ UNCHANGED is_edge_trigger
  BY <1>6, PendingType DEF OnWrite_, TypeOK
<1>7. ASSUME NEW n \in 1 .. pending(iov), Writev(n), UNCHANGED is_edge_trigger
      PROVE  TypeOK'
  <2>1. pending(iov) \in Nat /\ n \in Nat
    BY PendingType DEF TypeOK
  <2>2. advance(iov, n) \in Iov /\ emptied(iov) \in Iov
    BY AdvanceReturns, EmptiedReturns DEF TypeOK
  <2>3. pending(advance(iov, n)) \in Nat
    BY <2>2, PendingType
  <2>4. iov' \in Iov /\ total_to_write' \in Nat /\ pc' \in {"loop", "after"}
    BY <1>7, <2>2, <2>3 DEF Writev, TypeOK
  <2>. QED BY <1>7, <2>1, <2>4 DEF Writev, TypeOK
<1>8. CASE WritevAgain /\ UNCHANGED is_edge_trigger
  BY <1>8 DEF WritevAgain, TypeOK
<1>9. CASE AfterWrite /\ UNCHANGED is_edge_trigger
  <2>1. is_running' \in BOOLEAN
    BY <1>9 DEF AfterWrite, stillRunning, TypeOK
  <2>2. CASE OnProcess(readBuff)
    <3>1. /\ interest' \in {"in", "off"} /\ readBuff' \in Seq(Requests)
          /\ parse_success' \in BOOLEAN /\ isKeepAlive' \in BOOLEAN
          /\ response' \in Responses
          /\ pc' \in {"epoll", "stat", "errorHtml", "body"}
      BY <2>2, OnProcessTyped DEF TypeOK
    <3>. QED BY <1>9, <2>1, <3>1 DEF AfterWrite, TypeOK
  <2>3. CASE ~OnProcess(readBuff)
    <3>1. response' \in Responses
      BY <1>9, <2>3, UnmapReturns DEF AfterWrite, TypeOK
    <3>. QED BY <1>9, <2>1, <2>3, <3>1 DEF AfterWrite, TypeOK
  <2>. QED BY <2>2, <2>3
<1>10. CASE WritevFails /\ UNCHANGED is_edge_trigger
  <2>1. response' \in Responses
    BY <1>10, UnmapReturns DEF WritevFails, TypeOK
  <2>. QED BY <1>10, <2>1 DEF WritevFails, TypeOK
<1>11. CASE UNCHANGED vars
  BY <1>11 DEF vars, TypeOK
<1>. QED
  BY <1>1, <1>2, <1>3, <1>4, <1>5, <1>6, <1>7, <1>8, <1>9, <1>10, <1>11
     DEF Next, WritevSome

\* Every variable keeps its type, whatever the files, requests and lengths are.
THEOREM TypeCorrect == Spec => []TypeOK
BY TypeInit, TypeNext, PTL DEF Spec
-----------------------------------------------------------------------------
(* The response on its way.                                                *)

Mapping == response.mapped = IF response.mmFile THEN response.st_size ELSE 0

\* A connection that is not answered owes only its mapping.
LEMMA NotAnswering ==
    ASSUME ~Answering', Phases', Mapping',
           interest' \in {"off", "absent"} => ~response'.mmFile
    PROVE  ReplyInv'
BY DEF ReplyInv, Phases, MappedIsSent, LoopInv, Accounting, LengthTrue, MappingHeld,
       Mapping, Answering

LEMMA ReplyInit == Init => ReplyInv
<1>. SUFFICES ASSUME Init PROVE ReplyInv
  OBVIOUS
<1>1. ~Answering /\ interest = "in" /\ pc = "epoll"
  BY DEF Init, Answering
<1>2. response.mapped = 0 /\ ~response.mmFile
  BY DEF Init, NewResponse
<1>. QED BY <1>1, <1>2 DEF ReplyInv, Phases, MappedIsSent, LoopInv, Accounting,
                           LengthTrue, MappingHeld

\* OnProcess lets go of the mapping before it starts a new response.
LEMMA OnProcessUnmaps ==
    ASSUME TypeOK, Mapping, NEW buff \in Seq(Requests), OnProcess(buff)
    PROVE  ReplyInv'
<1>1. CASE buff = << >>
  <2>1. ~Answering' /\ Phases' /\ Mapping'
    BY <1>1 DEF OnProcess, Answering, Phases, Mapping
  <2>2. interest' = "in"
    BY <1>1 DEF OnProcess
  <2>. QED BY <2>1, <2>2, NotAnswering
<1>2. CASE buff # << >>
  <2>. DEFINE r == Head(buff)
  <2>1. r \in [ok : BOOLEAN, keep : BOOLEAN, path : {"file", "health"}]
    BY <1>2, HttpConnectAssumption
  <2>. DEFINE code == IF r.ok THEN -1 ELSE 400
              path == r.path
  <2>2. code \in Codes /\ path \in {"file", "health"} /\ response \in Responses
    BY <2>1 DEF TypeOK, Codes
  <2>. HIDE DEF code, path
  <2>3. /\ Init_(response, path, code) \in Responses
        /\ ~Init_(response, path, code).mmFile
        /\ Init_(response, path, code).mapped =
              IF response.mmFile THEN response.mapped - response.st_size
              ELSE response.mapped
    BY <2>2, InitReturns
  <2>4. PICK u \in Responses :
           u = Init_(response, path, code) /\ ~u.mmFile /\ u.mapped = 0
    BY <2>3 DEF Mapping, TypeOK, Responses
  <2>5. response' = u
    BY <1>2, <2>4 DEF OnProcess, code, path
  <2>6. Mapping' /\ ~response'.mmFile
    BY <2>4, <2>5 DEF Mapping
  <2>7. pc' \in {"stat", "errorHtml", "body"} /\ interest' = "off"
    BY <1>2, <2>1 DEF OnProcess
  <2>8. ~Answering' /\ Phases'
    BY <2>7 DEF Answering, Phases
  <2>. QED BY <2>6, <2>8, NotAnswering
<1>. QED BY <1>1, <1>2

\* A handler that has looked at a file but not opened it has mapped nothing.
LEMMA StatMapsNothing ==
    ASSUME TypeOK, ReplyInv, Stat \/ ErrorHtml
    PROVE  ReplyInv'
<1>1. ~response.mmFile /\ response.mapped = 0 /\ interest = "off"
  BY DEF ReplyInv, Phases, MappedIsSent, MappingHeld, Stat, ErrorHtml
<1>2. disk.file \in Files /\ disk.error \in Files
  BY HttpConnectAssumption DEF TypeOK
<1>3. ~response'.mmFile /\ response'.mapped = 0
  <2>1. CASE Stat
    <3>. DEFINE r == stat(response, disk.file)
    <3>1. r \in Responses /\ ~r.mmFile /\ r.mapped = 0
      BY <1>1, <1>2, StatReturns DEF TypeOK
    <3>. HIDE DEF r
    <3>2. response' = [r EXCEPT !.code = statCode(disk.file)]
      BY <2>1 DEF Stat, r
    <3>. QED BY <3>1, <3>2 DEF Responses
  <2>2. CASE ErrorHtml
    BY <1>1, <1>2, <2>2, ErrorHtmlReturns DEF TypeOK, ErrorHtml
  <2>. QED BY <2>1, <2>2
<1>4. pc' \in {"errorHtml", "body"} /\ interest' = "off"
  BY <1>1 DEF Stat, ErrorHtml, connVars
<1>. QED BY <1>3, <1>4, NotAnswering DEF Answering, Phases, Mapping

\* A response begins with all of it in iov, nothing on the wire, and the length
\* it announces; its file is exactly what is mapped.
LEMMA AnswerBegins ==
    ASSUME TypeOK, ReplyInv, AddBody_, UNCHANGED is_edge_trigger
    PROVE  ReplyInv'
<1>1. ~response.mmFile /\ response.mapped = 0 /\ response.st_size \in Nat
  BY DEF ReplyInv, Phases, MappedIsSent, MappingHeld, AddBody_, TypeOK, Responses
<1>2. PICK r \in Responses, w \in [head : Nat, announced : Nat] :
         /\ Answer(r, w)
         /\ \/ /\ r.mmFile /\ r.st_size > 0 /\ w = FileHeaders(response)
               /\ r.st_size = response.st_size
               /\ r.mapped = response.mapped + response.st_size
            \/ /\ r.mmFile = response.mmFile /\ r.mapped = response.mapped
               /\ r.st_size = response.st_size /\ w = InlineBody
  BY AddBodyAnswers
<1>. DEFINE file == fileToSend(r)
            head == w.head
<1>3. /\ file \in Nat /\ head \in Nat
      /\ file = (IF r.mmFile THEN r.st_size ELSE 0)
      /\ r.mapped = (IF r.mmFile THEN r.st_size ELSE 0)
      /\ w.announced = (head - HEAD) + file
  BY <1>1, <1>2, HttpResponseAssumption
     DEF fileToSend, Responses, FileHeaders, InlineBody
<1>. HIDE DEF file, head
<1>4. /\ response' = r /\ wire' = 0 /\ pc' = "epoll" /\ interest' \in {"in", "out"}
      /\ reply' = [head |-> head, file |-> file, announced |-> w.announced]
      /\ iov' = responseIov(iov, head, file)
  BY <1>2 DEF Answer, file, head
<1>5. iov \in Iov /\ head \in Nat /\ file \in Nat
  BY <1>3 DEF TypeOK
<1>6. PICK u \in Iov :
         /\ u = responseIov(iov, head, file) /\ pending(u) = head + file
         /\ u.len0 = head /\ u.cnt = (IF file > 0 THEN 2 ELSE 1)
         /\ file > 0 => u.len1 = file
  <2>1. /\ responseIov(iov, head, file) \in Iov
        /\ pending(responseIov(iov, head, file)) = head + file
        /\ responseIov(iov, head, file).len0 = head
    BY <1>5, ResponseIovReturns
  <2>2. responseIov(iov, head, file).cnt = (IF file > 0 THEN 2 ELSE 1)
    BY <1>5, ResponseIovReturns
  <2>3. file > 0 => responseIov(iov, head, file).len1 = file
    BY <1>5, ResponseIovReturns
  <2>. QED BY <2>1, <2>2, <2>3
<1>7. iov' = u /\ pending(iov)' = pending(u)
  BY <1>4, <1>6 DEF pending
<1>8. reply'.head = head /\ reply'.file = file /\ reply'.announced = w.announced
  BY <1>4
<1>9. Phases' /\ LoopInv'
  BY <1>4 DEF Phases, LoopInv, Answering
<1>10. MappedIsSent'
  BY <1>3, <1>4, <1>6, <1>7, <1>8 DEF MappedIsSent
<1>11. Accounting'
  <2>1. wire' = 0 /\ size' = head + file /\ pending(iov)' = head + file
    BY <1>4, <1>6, <1>7, <1>8 DEF size
  <2>2. iov'.len0 = head
    BY <1>6, <1>7
  <2>. QED BY <1>5, <1>8, <2>1, <2>2 DEF Accounting
<1>12. LengthTrue'
  BY <1>3, <1>8 DEF LengthTrue
<1>13. MappingHeld'
  BY <1>3, <1>4, <1>6, <1>7 DEF MappingHeld
<1>. QED BY <1>9, <1>10, <1>11, <1>12, <1>13 DEF ReplyInv

\* A handler that begins to write asks for what is left, which is not nothing
\* unless it goes straight to its end.
LEMMA OnWriteBegins ==
    ASSUME TypeOK, ReplyInv, OnWrite_, UNCHANGED is_edge_trigger
    PROVE  ReplyInv'
<1>1. /\ pc' \in {"loop", "after"} /\ interest = "out" /\ interest' = "out"
      /\ pc' = "loop" => pending(iov) > 0
      /\ total_to_write' = pending(iov) /\ write_bytes' = 0
      /\ UNCHANGED <<response, reply, iov, wire, is_edge_trigger>>
  BY DEF OnWrite_, connVars, replyVars
<1>2. pending(iov)' = pending(iov) /\ size' = size /\ Answering' /\ Answering
  BY <1>1 DEF pending, size, Answering
<1>3. Phases' /\ LoopInv'
  BY <1>1, <1>2 DEF Phases, LoopInv, Answering
<1>4. MappedIsSent' /\ MappingHeld' /\ LengthTrue' /\ Accounting'
  BY <1>1, <1>2 DEF ReplyInv, MappedIsSent, MappingHeld, LengthTrue, Accounting
<1>. QED BY <1>3, <1>4 DEF ReplyInv

\* What writev takes leaves iov as it reaches the wire.
LEMMA WritevAccounts ==
    ASSUME TypeOK, ReplyInv, NEW n \in 1 .. pending(iov), Writev(n),
           UNCHANGED is_edge_trigger
    PROVE  ReplyInv'
<1>1. /\ Answering /\ pending(iov) > 0 /\ total_to_write = pending(iov)
      /\ ~is_edge_trigger => write_bytes = 0
  BY DEF Writev, ReplyInv, Phases, LoopInv
<1>2. /\ Answering' /\ UNCHANGED <<response, reply, interest>> /\ wire' = wire + n
      /\ pc' \in {"loop", "after"} /\ size' = size
  BY <1>1 DEF Writev, replyVars, connVars, Answering, size
<1>3. /\ pending(iov) \in Nat /\ n \in Nat /\ n <= pending(iov) /\ n > 0
      /\ write_bytes \in Nat /\ wire \in Nat /\ reply.head \in Nat
      /\ reply.file \in Nat /\ size = reply.head + reply.file
      /\ iov \in Iov
  BY PendingType DEF TypeOK, size
<1>4. /\ wire + pending(iov) = size
      /\ iov.len0 > 0 => wire = reply.head - iov.len0
      /\ iov.len0 = 0 => wire >= reply.head
  BY <1>1 DEF ReplyInv, Accounting
<1>5. Phases' /\ LengthTrue'
  BY <1>1, <1>2 DEF Phases, LengthTrue, ReplyInv, Answering
<1>6. CASE enough(n)
  <2>1. PICK u \in Iov :
           /\ u = emptied(iov) /\ u.cnt = iov.cnt /\ pending(u) = 0
           /\ u.len0 = 0 /\ u.len1 <= iov.len1
    BY <1>3, EmptiedReturns
  <2>2. iov' = u /\ pending(iov)' = 0 /\ pc' = "after"
    BY <1>6, <2>1 DEF Writev, pending
  <2>3. wire' <= size /\ (~is_edge_trigger => wire' = size)
    BY <1>1, <1>2, <1>3, <1>4, <1>6 DEF enough
  <2>4. Accounting'
    BY <1>2, <2>2, <2>3 DEF Accounting
  <2>5. MappedIsSent' /\ LoopInv'
    BY <1>1, <1>2, <2>1, <2>2 DEF MappedIsSent, LoopInv, ReplyInv, Answering
  <2>6. MappingHeld'
    BY <1>1, <1>2, <1>3, <2>1, <2>2 DEF MappingHeld, ReplyInv, TypeOK, Iov, Responses
  <2>. QED BY <1>5, <2>4, <2>5, <2>6 DEF ReplyInv
<1>7. CASE ~enough(n)
  <2>1. PICK u \in Iov :
           /\ u = advance(iov, n) /\ u.cnt = iov.cnt /\ pending(u) = pending(iov) - n
           /\ u.len0 = (IF n < iov.len0 THEN iov.len0 - n ELSE 0)
           /\ u.len1 <= iov.len1
    BY <1>3, AdvanceReturns
  <2>2. n < pending(iov) /\ (~is_edge_trigger => pc' = "after")
    BY <1>1, <1>3, <1>7 DEF enough, Writev
  <2>3. iov' = u /\ pending(iov)' = pending(u) /\ total_to_write' = pending(u)
    BY <1>7, <2>1 DEF Writev, pending
  <2>4. LoopInv'
    BY <1>2, <1>3, <2>1, <2>2, <2>3 DEF LoopInv
  <2>5. /\ wire' + pending(u) = size /\ pending(u) > 0
        /\ u.len0 > 0 => wire' = reply.head - u.len0
        /\ u.len0 = 0 => wire' >= reply.head
    BY <1>2, <1>3, <1>4, <2>1, <2>2 DEF Iov
  <2>6. Accounting'
    BY <1>2, <1>3, <2>1, <2>3, <2>5 DEF Accounting, TypeOK
  <2>7. MappedIsSent'
    BY <1>1, <1>2, <2>1, <2>3 DEF MappedIsSent, ReplyInv, Answering
  <2>. DEFINE mapped == response.mapped
  <2>. HIDE DEF mapped
  <2>8. /\ mapped \in Int /\ iov.len1 \in Nat /\ u.len1 \in Nat
        /\ iov.cnt = 2 => iov.len1 <= mapped
    BY <1>1, <1>3 DEF MappingHeld, ReplyInv, TypeOK, Iov, Responses, mapped
  <2>9. u.cnt = 2 => u.len1 <= response.mapped
    BY <2>1, <2>8 DEF mapped
  <2>10. MappingHeld'
    BY <1>1, <1>2, <2>3, <2>9 DEF MappingHeld, ReplyInv, Answering
  <2>. QED BY <1>5, <2>4, <2>6, <2>7, <2>10 DEF ReplyInv
<1>. QED BY <1>6, <1>7

\* A connection that is closed keeps no mapping.
LEMMA ClosedUnmaps ==
    ASSUME TypeOK, Mapping, response' = UnmapFile(response),
           interest' = "absent", pc' = "epoll"
    PROVE  ReplyInv'
<1>1. PICK u \in Responses :
         /\ u = UnmapFile(response) /\ ~u.mmFile
         /\ u.mapped = (IF response.mmFile THEN response.mapped - response.st_size
                        ELSE response.mapped)
  BY UnmapReturns DEF TypeOK
<1>2. Mapping' /\ ~response'.mmFile
  BY <1>1 DEF Mapping, TypeOK, Responses
<1>. QED BY <1>2, NotAnswering DEF Answering, Phases

\* A handler that ends waits to write the rest, starts the next request, or
\* closes and unmaps.
LEMMA AfterWriteDecides ==
    ASSUME TypeOK, ReplyInv, AfterWrite, UNCHANGED is_edge_trigger
    PROVE  ReplyInv'
<1>1. Answering /\ UNCHANGED <<reply, iov, wire>> /\ readBuff \in Seq(Requests) /\ Mapping
  BY DEF AfterWrite, ReplyInv, Phases, MappingHeld, Mapping, TypeOK
<1>2. CASE OnProcess(readBuff)
  BY <1>1, <1>2, OnProcessUnmaps
<1>3. CASE interest' = "out" /\ UNCHANGED response /\ pc' = "epoll"
  <2>1. pending(iov)' = pending(iov) /\ size' = size /\ Answering'
    BY <1>1, <1>3 DEF pending, size, Answering
  <2>2. Phases' /\ LoopInv'
    BY <1>3, <2>1 DEF Phases, LoopInv, Answering
  <2>3. MappedIsSent' /\ MappingHeld' /\ LengthTrue' /\ Accounting'
    BY <1>1, <1>3, <2>1
       DEF ReplyInv, MappedIsSent, MappingHeld, LengthTrue, Accounting
  <2>. QED BY <2>2, <2>3 DEF ReplyInv
<1>4. CASE interest' = "absent" /\ response' = UnmapFile(response) /\ pc' = "epoll"
  BY <1>1, <1>4, ClosedUnmaps
<1>. QED BY <1>2, <1>3, <1>4 DEF AfterWrite

LEMMA ReplyNext == TypeOK /\ ReplyInv /\ [Next]_vars => ReplyInv'
<1>. SUFFICES ASSUME TypeOK, ReplyInv, [Next]_vars PROVE ReplyInv'
  OBVIOUS
<1>1. ASSUME NEW arrival \in Arrivals, OnRead_(arrival)
      PROVE  ReplyInv'
  <2>1. readBuff \o arrival \in Seq(Requests) /\ Mapping
    BY HttpConnectAssumption DEF TypeOK, ReplyInv, MappingHeld, Mapping
  <2>. QED BY <1>1, <2>1, OnProcessUnmaps DEF OnRead_
<1>2. ASSUME UNCHANGED <<interest, response, reply, iov, wire, is_edge_trigger,
                         total_to_write, write_bytes>>,
             pc' = pc \/ (pc = "loop" /\ pc' = "after")
      PROVE  ReplyInv'
  <2>1. /\ pending(iov)' = pending(iov) /\ size' = size /\ Answering' = Answering
        /\ pc' = "loop" => pc = "loop"
    BY <1>2 DEF pending, size, Answering
  <2>2. Phases' /\ LoopInv'
    BY <1>2, <2>1 DEF ReplyInv, Phases, LoopInv
  <2>3. MappedIsSent' /\ MappingHeld' /\ LengthTrue' /\ Accounting'
    BY <1>2, <2>1 DEF ReplyInv, MappedIsSent, MappingHeld, LengthTrue, Accounting
  <2>. QED BY <2>2, <2>3 DEF ReplyInv
<1>3. CASE DiskChanges /\ UNCHANGED is_edge_trigger
  BY <1>2, <1>3 DEF DiskChanges, connVars, replyVars, localVars
<1>4. CASE WritevAgain /\ UNCHANGED is_edge_trigger
  BY <1>2, <1>4 DEF WritevAgain, connVars, replyVars, localVars
<1>5. CASE UNCHANGED vars
  BY <1>2, <1>5 DEF vars, connVars, replyVars, localVars
<1>6. CASE WritevFails /\ UNCHANGED is_edge_trigger
  <2>1. Mapping
    BY DEF ReplyInv, MappingHeld, Mapping
  <2>. QED BY <1>6, <2>1, ClosedUnmaps DEF WritevFails
<1>. QED
  BY <1>1, <1>3, <1>4, <1>5, <1>6, StatMapsNothing, AnswerBegins, OnWriteBegins,
     WritevAccounts, AfterWriteDecides DEF Next, WritevSome

LEMMA ReplyInvariant == Spec => []ReplyInv
BY TypeCorrect, ReplyInit, ReplyNext, PTL DEF Spec

\* Whatever the lengths, and however writev cuts them, each byte of a response
\* that is being written is on the wire or in iov, headers first, and
\* level-triggered none is dropped.
THEOREM BytesAccounted == Spec => []Accounting
BY ReplyInvariant, PTL DEF ReplyInv

\* Whatever becomes of the files, the announced length is the length sent.
THEOREM LengthAnnounced == Spec => []LengthTrue
BY ReplyInvariant, PTL DEF ReplyInv

\* What is left of a file is mapped, and a mapping is neither forgotten nor kept.
THEOREM MappingsHeld == Spec => []MappingHeld
BY ReplyInvariant, PTL DEF ReplyInv
==============================================================================
