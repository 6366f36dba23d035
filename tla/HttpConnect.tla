----------------------------- MODULE HttpConnect -----------------------------
(***************************************************************************)
(* One connection's HttpConnect (code/http/httpconnect.cpp) and the        *)
(* handlers OnRead_, OnProcess, OnWrite_ that drive it: what becomes of    *)
(* the bytes of a response while writev takes them piece by piece.         *)
(* Reactor shows that the handlers of a connection run one at a time, so   *)
(* this module is sequential: a step is a system call or the code between  *)
(* two.  HttpResponse makes the responses, from files that may change at   *)
(* any time.  Lengths are numbers; contents are not modelled, positions    *)
(* are.                                                                    *)
(***************************************************************************)
EXTENDS HttpResponse, Sequences

CONSTANTS
    Requests,   \* what clients ask: [ok, keep : BOOLEAN, path]
    FilesAt,    \* what may be found at the path of a request
    ErrorPages, \* and at the path of the page of an error
    Arrivals,   \* the sequences of requests one read may bring
    MaxBuffer,  \* how many requests the model lets the read buffer hold
    SCRATCH,    \* sizeof(temp_buff) in read()
    Modes       \* the values InitEventMode_ may give is_edge_trigger

ASSUME HttpConnectAssumption ==
    /\ Requests \subseteq [ok : BOOLEAN, keep : BOOLEAN, path : {"file", "health"}]
    /\ FilesAt \subseteq Files /\ ErrorPages \subseteq Files
    /\ Arrivals \subseteq Seq(Requests)
    /\ MaxBuffer \in Nat
    /\ SCRATCH \in Nat \ {0}
    /\ Modes \subseteq BOOLEAN

VARIABLES
    interest,        \* what epoll waits for: "in", "out", "off" or "absent"
    readBuff,        \* the requests in readBuff_
    iov,             \* [len0, len1 : Nat, cnt : 0..2]: iov[], iovcnt_
    disk,            \* what the file system holds, by path
    response,        \* response_
    reply,           \* the last response: the lengths of headers (with a body
                     \* that is made there) and file, and its Content-Length
    wire,            \* history: how many bytes of it writev has taken
    isKeepAlive,     \* isKeepAlive_
    is_running,      \* is_running_
    is_edge_trigger, \* HttpConnect::is_edge_trigger
    parse_success,   \* process's local variable
    pc,              \* "epoll"; inside process: "stat", "errorHtml", "body";
                     \* inside OnWrite_: "loop", "after"
    write_bytes,     \* writeResponse's local variables
    total_to_write

connVars  == <<interest, readBuff, isKeepAlive, is_running, parse_success>>
replyVars == <<response, reply>>
localVars == <<write_bytes, total_to_write>>
vars == <<connVars, replyVars, disk, iov, wire, is_edge_trigger, pc, localVars>>

Iov == [len0 : Nat, len1 : Nat, cnt : {0, 1, 2}]

Init ==
    /\ interest = "in" /\ readBuff = << >>
    /\ iov = [len0 |-> 0, len1 |-> 0, cnt |-> 0]
    /\ disk \in [file : FilesAt, error : ErrorPages]
    /\ response = NewResponse
    /\ reply = [head |-> 0, file |-> 0, announced |-> 0] /\ wire = 0
    /\ isKeepAlive = FALSE /\ is_running = TRUE /\ parse_success = FALSE
    /\ is_edge_trigger \in Modes
    /\ pc = "epoll" /\ write_bytes = 0 /\ total_to_write = 0

-----------------------------------------------------------------------------
\* Somebody installs, removes or replaces a file.
DiskChanges ==
    /\ disk' \in [file : FilesAt, error : ErrorPages]
    /\ UNCHANGED <<connVars, replyVars, iov, wire, pc, localVars>>

\* OnProcess on the requests in buff: process takes the first and starts its
\* response. A request that does not parse stays in the buffer.
OnProcess(buff) ==
    IF buff = << >>
    THEN /\ interest' = "in" /\ pc' = "epoll"
         /\ UNCHANGED <<response, isKeepAlive, parse_success>>
         /\ readBuff' = buff
    ELSE LET r == Head(buff) IN
         /\ interest' = "off"
         /\ parse_success' = r.ok
         /\ isKeepAlive' = (r.ok /\ r.keep)
         /\ readBuff' = IF r.ok THEN Tail(buff) ELSE buff
         /\ response' = Init_(response, r.path, IF r.ok THEN -1 ELSE 400)
         /\ pc' = CASE r.path = "health"            -> "body"
                    [] r.path # "health" /\ r.ok    -> "stat"
                    [] r.path # "health" /\ ~r.ok   -> "errorHtml"

\* MakeResponse looks at the file, for a request without a status yet.
Stat ==
    /\ pc = "stat"
    /\ response' = [stat(response, disk.file) EXCEPT !.code = statCode(disk.file)]
    /\ pc' = IF response'.code \in CODE_PATH THEN "errorHtml" ELSE "body"
    /\ UNCHANGED <<connVars, reply, disk, iov, wire, localVars>>

ErrorHtml ==
    /\ pc = "errorHtml"
    /\ response' = ErrorHtml_(response, disk.error)
    /\ pc' = "body"
    /\ UNCHANGED <<connVars, reply, disk, iov, wire, localVars>>

\* Mutants: the file counts even if it was not mapped, or if there is none.
fileToSendUnmapped(r) == r.st_size
fileToSend(r) == IF r.mmFile THEN r.st_size ELSE 0

responseIovBoth(v, head, file) ==
    [len0 |-> head, len1 |-> IF file > 0 THEN file ELSE v.len1, cnt |-> 2]

\* process() sets iov[0] to the headers and, if there is one, iov[1] to the
\* file; without a file iov[1] keeps the length it had.
responseIov(v, head, file) ==
    IF file > 0 THEN [len0 |-> head, len1 |-> file, cnt |-> 2]
    ELSE [len0 |-> head, len1 |-> v.len1, cnt |-> 1]

\* The end of process, with r for response_ and w in the write buffer, and of
\* OnProcess: the response to a request that does not parse waits for an
\* EPOLLOUT nobody asked for.
Answer(r, w) ==
    /\ response' = r
    /\ reply' = [head |-> w.head, file |-> fileToSend(r), announced |-> w.announced]
    /\ iov' = responseIov(iov, w.head, fileToSend(r))
    /\ wire' = 0
    /\ interest' = IF parse_success THEN "out" ELSE "in"
    /\ pc' = "epoll"

\* /health has its body at hand; AddBody_ opens the path, which may have changed.
AddBody_ ==
    /\ pc = "body"
    /\ \/ response.path = "health" /\ Answer([response EXCEPT !.code = 200], InlineBody)
       \/ /\ response.path # "health"
          /\ LET f == disk[response.path] IN
             \/ /\ f.kind # "none" /\ maps(response, f)
                /\ Answer(Mapped(response), FileHeaders(response))
             \/ /\ f.kind \in {"none", "secret"} \/ ~maps(response, f)
                /\ Answer(response, InlineBody)
    /\ UNCHANGED <<readBuff, isKeepAlive, is_running, parse_success, disk, localVars>>

\* read() sets both entries of iov for readv; its last call brings nothing
\* that is counted here.
OnRead_(arrival) ==
    /\ pc = "epoll" /\ interest = "in"
    /\ is_running
    /\ Len(readBuff) + Len(arrival) <= MaxBuffer
    /\ OnProcess(readBuff \o arrival)
    /\ iov' = [len0 |-> SCRATCH, len1 |-> SCRATCH, cnt |-> iov.cnt]
    /\ UNCHANGED <<is_running, reply, disk, wire, localVars>>

\* What is left within iovcnt_.
pending(v) == v.len0 + (IF v.cnt > 1 THEN v.len1 ELSE 0)

\* EPOLLOUT: OnWrite_ calls writeResponse, which enters its loop only if the
\* object is running and has something to write.
OnWrite_ ==
    /\ pc = "epoll" /\ interest = "out"
    /\ write_bytes' = 0
    /\ total_to_write' = pending(iov)
    /\ pc' = IF is_running /\ pending(iov) > 0 THEN "loop" ELSE "after"
    /\ UNCHANGED <<connVars, replyVars, disk, iov, wire>>

\* Mutant: the file's part of a short write is not subtracted.
advanceFirst(v, n) ==
    IF n >= v.len0 THEN [v EXCEPT !.len0 = 0] ELSE [v EXCEPT !.len0 = @ - n]

\* The entries of iov after a short write of n bytes.
advance(v, n) ==
    IF n < v.len0 THEN [v EXCEPT !.len0 = @ - n]
    ELSE IF v.cnt > 1 THEN [v EXCEPT !.len0 = 0, !.len1 = @ - (n - v.len0)]
    ELSE [v EXCEPT !.len0 = 0]

\* Mutant: the count is reset in place of the second length.
emptiedFirst(v) == [v EXCEPT !.len0 = 0, !.cnt = 1]

\* Everything written: the entries within iovcnt_ become empty.
emptied(v) == IF v.cnt > 1 THEN [v EXCEPT !.len0 = 0, !.len1 = 0]
              ELSE [v EXCEPT !.len0 = 0]

\* Mutant: the loop goes by what this writev took, not by the sum so far.
lastEnoughAny(n) == n > 0

\* write_bytes counts from the start of the call; total_to_write is what was
\* left before this writev.
enough(n) == write_bytes + n >= total_to_write

\* writev takes n bytes. The loop ends when all is written; a short write ends
\* it when level-triggered.
Writev(n) ==
    /\ pc = "loop"
    /\ wire' = wire + n
    /\ write_bytes' = write_bytes + n
    /\ IF enough(n)
       THEN /\ iov' = emptied(iov)
            /\ pc' = "after"
            /\ UNCHANGED total_to_write
       ELSE /\ iov' = advance(iov, n)
            /\ total_to_write' = pending(advance(iov, n))
            /\ pc' = IF is_edge_trigger THEN "loop" ELSE "after"
    /\ UNCHANGED <<connVars, replyVars, disk>>

\* EAGAIN: the send buffer is full.
WritevAgain ==
    /\ pc = "loop"
    /\ pc' = "after"
    /\ UNCHANGED <<connVars, replyVars, disk, iov, wire, localVars>>

\* Any other errno, EFAULT among them when the mapped file became shorter:
\* close() unmaps the file, and OnWrite_ goes straight to CloseConn_.
WritevFails ==
    /\ pc = "loop" /\ pc' = "epoll"
    /\ interest' = "absent"
    /\ is_running' = FALSE
    /\ response' = UnmapFile(response)
    /\ UNCHANGED <<readBuff, isKeepAlive, parse_success, reply, disk, iov, wire,
                   localVars>>

\* HttpConnect::to_write_bytes.
to_write_bytes == iov.len0 + iov.len1

\* A short connection is marked once anything was written.
stillRunning == is_running /\ (write_bytes > 0 => isKeepAlive)

\* The end of writeResponse and the rest of OnWrite_: CloseConn_ unmaps the
\* file, whatever else it does.
AfterWrite ==
    /\ pc = "after"
    /\ is_running' = stillRunning
    /\ \/ to_write_bytes = 0 /\ isKeepAlive /\ OnProcess(readBuff)
       \/ /\ \/ to_write_bytes > 0 /\ interest' = "out" /\ UNCHANGED response
             \/ /\ to_write_bytes = 0 /\ ~isKeepAlive
                /\ interest' = "absent" /\ response' = UnmapFile(response)
          /\ pc' = "epoll"
          /\ UNCHANGED <<readBuff, isKeepAlive, parse_success>>
    /\ UNCHANGED <<disk, reply, iov, wire, localVars>>

WritevSome == \E n \in 1 .. pending(iov) : Writev(n)

\* The mode is chosen once, before the server runs.
Next ==
    /\ \/ \E arrival \in Arrivals : OnRead_(arrival)
       \/ Stat \/ ErrorHtml \/ AddBody_ \/ DiskChanges
       \/ OnWrite_ \/ WritevSome \/ WritevAgain \/ WritevFails \/ AfterWrite
    /\ UNCHANGED is_edge_trigger

Spec == Init /\ [][Next]_vars

\* The handlers run, and a client that reads keeps making room: writev does
\* not answer EAGAIN for ever.
Fairness == LET Step(A) == A /\ UNCHANGED is_edge_trigger IN
            /\ WF_vars(Step(Stat \/ ErrorHtml \/ AddBody_))
            /\ WF_vars(Step(OnWrite_)) /\ WF_vars(Step(AfterWrite))
            /\ SF_vars(Step(WritevSome))
            /\ WF_vars(Step(WritevSome \/ WritevAgain \/ WritevFails))

FairSpec == Spec /\ Fairness

-----------------------------------------------------------------------------
(* Properties.                                                             *)

TypeOK ==
    /\ interest \in {"in", "out", "off", "absent"}
    /\ readBuff \in Seq(Requests)
    /\ iov \in Iov
    /\ disk \in [file : FilesAt, error : ErrorPages] /\ response \in Responses
    /\ reply \in [head : Nat, file : Nat, announced : Nat] /\ wire \in Nat
    /\ parse_success \in BOOLEAN /\ isKeepAlive \in BOOLEAN /\ is_running \in BOOLEAN
    /\ is_edge_trigger \in Modes
    /\ pc \in {"epoll", "stat", "errorHtml", "body", "loop", "after"}
    /\ write_bytes \in Nat /\ total_to_write \in Nat

\* A response was built and epoll or a handler is to write it.
Answering == interest = "out"

size == reply.head + reply.file

\* Until the response is taken for written, each of its bytes is on the wire
\* or in iov and never both, headers first: a short write resumes where the
\* last one stopped, whatever the pieces are. Nothing else is sent: the
\* temporary buffer that read() left in iov[1] never reaches the client.
\* Level-triggered nothing is dropped either.
Accounting ==
    Answering =>
        /\ wire <= size
        /\ pending(iov) > 0 =>
              /\ wire + pending(iov) = size
              /\ iov.len0 > 0 => wire = reply.head - iov.len0
              /\ iov.len0 = 0 => wire >= reply.head
        /\ pending(iov) = 0 /\ ~is_edge_trigger => wire = size

\* A response is taken for written only when all of it is
\* (httpconnect.cpp:183): nothing of it is dropped.
DoneMeansSent == Answering /\ pending(iov) = 0 => wire = size

\* The client is told how many bytes follow the headers, whether a file could
\* be opened and mapped, had an error page in its place, or vanished or changed
\* after its size was taken.
LengthTrue == Answering => reply.announced = (reply.head - HEAD) + reply.file

\* What is left of a file in iov lies in a mapping that is still there, the
\* object never forgets a mapping, and keeps none of a connection it closed.
MappingHeld ==
    /\ response.mapped = IF response.mmFile THEN response.st_size ELSE 0
    /\ Answering /\ iov.cnt = 2 => iov.len1 <= response.mapped
    /\ interest = "absent" => ~response.mmFile

\* Level-triggered, a keep-alive response reaches the client whole, however
\* short the writes, unless one of them fails: only that ends a connection
\* with keep-alive here.
KeepAliveSent ==
    (~is_edge_trigger /\ Answering /\ isKeepAlive) ~>
        (Answering /\ wire = size) \/ (interest = "absent" /\ isKeepAlive)

\* The same of a response without keep-alive ("短连接则写完数据后关闭",
\* httpconnect.cpp:211: closed after the data is written).
ShortSent == Answering /\ ~isKeepAlive ~> wire = size

\* Once a keep-alive response is written the connection is read again, or the
\* next request in the buffer answered ("数据全部写完，准备下一次读取",
\* webserver.cpp:229).
ReadsAgain ==
    (Answering /\ isKeepAlive /\ wire = size) ~> (interest = "in" \/ wire < size)

\* The same of the responses that carry a file, in both modes.
FileReadsAgain ==
    (Answering /\ isKeepAlive /\ reply.file > 0 /\ wire = size)
        ~> (interest = "in" \/ wire < size)

\* A request that does not parse is answered (test_httpconnect.cpp:612 reads
\* "400 Bad Request" back) or its connection ends (httpconnect.cpp:227).
BadRequestAnswered ==
    (readBuff # << >> /\ ~Head(readBuff).ok /\ size > 0)
        ~> (interest = "absent" \/ wire >= size)
==============================================================================
