----------------------------- MODULE HttpRequest -----------------------------
(***************************************************************************)
(* HttpRequest::parse (code/http/httprequest.cpp) under                    *)
(* HttpConnect::process: requests arrive as a stream that may be cut into  *)
(* segments anywhere, and each read is followed by a parse that starts     *)
(* anew on whatever the read buffer holds.                                 *)
(*                                                                         *)
(* The stream is a sequence of pieces.  A request is                       *)
(*    target version CR LF { name value CR LF } CR LF [body]               *)
(* where target stands for "GET /x ", version for "HTTP/1.1", and value    *)
(* begins with the colon; a header whose name is that of a content type    *)
(* stands for Content-Type with that value.  HttpForm says what is in a    *)
(* body.  CR and LF are single bytes, every other piece is longer than     *)
(* two.  Pieces are not cut inside: half a target or version is refused or *)
(* accepted like what is left of the cut, half a value is not              *)
(* "keep-alive", as one that a stray CR follows, and a body is taken for   *)
(* complete wherever it ends.                                              *)
(***************************************************************************)
EXTENDS HttpForm

CONSTANTS
    Sessions,   \* what clients may send: [requests, content], the content
                \* being that of every body
    Pipelined   \* clients send requests before the last one is answered

Names  == {"Connection", "Host", "form", "json"}
Pieces == {"target", "version", "value", "CR", "LF", "body"} \cup Names

\* No request says two content types.
OneContentType ==
    \A s \in Sessions : \A i \in DOMAIN s.requests :
        ~({"form", "json"} \subseteq Range(s.requests[i].headers))

ASSUME HttpRequestAssumption ==
    /\ Sessions \subseteq [requests : Seq([method : {"GET", "POST"}, headers : Seq(Names)]),
                           content : Contents]
    /\ OneContentType
    /\ Pipelined \in BOOLEAN

VARIABLES
    requests,   \* what the client of this connection sends
    content,    \* and what it puts into the bodies
    unsent,     \* the pieces still to arrive
    readBuff,   \* readBuff_
    answers,    \* history: the requests that were answered, as understood
    conn,       \* "reading" (EPOLLIN), "writing" (EPOLLOUT) or "closed"
    cut         \* history: a read brought less or more than a request

vars == <<requests, content, unsent, readBuff, answers, conn, cut>>

\* The pieces of request number i of the stream rs.
Piece(i, is) == [req |-> i, is |-> is]

Request(rs, i) ==
    LET Line(s) == [k \in DOMAIN s |-> Piece(i, s[k])]
        Header(name) == Line(<<name, "value", "CR", "LF">>) IN
    Line(<<"target", "version", "CR", "LF">>)
    \o FlattenSeq([h \in DOMAIN rs[i].headers |-> Header(rs[i].headers[h])])
    \o Line(<<"CR", "LF">>)
    \o (IF rs[i].method = "POST" THEN Line(<<"body">>) ELSE << >>)

Init ==
    /\ \E s \in Sessions : requests = s.requests /\ content = s.content
    /\ unsent = FlattenSeq([i \in DOMAIN requests |-> Request(requests, i)])
    /\ readBuff = << >> /\ answers = << >>
    /\ conn = "reading" /\ cut = FALSE

-----------------------------------------------------------------------------
(* The parser.                                                             *)

\* The places where CRLF is found, and the line up to the first of them.
LineEnds(b) ==
    {k \in 1 .. Len(b) - 1 : b[k].is = "CR" /\ b[k + 1].is = "LF"}
LineLength(b) ==
    IF LineEnds(b) = {} THEN Len(b)
    ELSE (CHOOSE k \in LineEnds(b) : \A j \in LineEnds(b) : k <= j) - 1
FirstLine(b) == SubSeq(b, 1, LineLength(b))

Has(line, is) == \E k \in DOMAIN line : line[k].is = is

\* HttpRequest::init.
NewRequest == [state |-> "REQUEST_LINE", ok |-> TRUE, req |-> 0,
               method |-> "", header |-> {}, form |-> << >>, post |-> NoFields]

\* Two spaces and then "HTTP/". The method is what precedes the first space,
\* so anything left in front of the line becomes part of it.
ParseRequestLine_(s, line) ==
    IF ~(Has(line, "target") /\ Has(line, "version"))
    THEN [s EXCEPT !.ok = FALSE]
    ELSE LET i == line[SelectInSeq(line, LAMBDA p : p.is = "version")].req IN
         [s EXCEPT !.state = "HEADERS", !.req = i,
                   !.method = IF Head(line).is = "target"
                              THEN requests[i].method ELSE "garbled"]

\* A line with a colon is a header, any other one ends the headers. A value
\* that a lone CR follows includes it, and is not "keep-alive".
ParseHeader_(s, line) ==
    IF Has(line, "value")
    THEN [s EXCEPT !.header = @ \cup (IF Len(line) = 2 THEN {line[1].is} ELSE {})]
    ELSE [s EXCEPT !.state = "BODY"]

\* readable_size() <= 2, with the line still in the buffer.
atMostCRLF(b) == Len(b) <= 2 /\ \A k \in DOMAIN b : b[k].is \in {"CR", "LF"}

headersEnd(s, b) == IF atMostCRLF(b) THEN [s EXCEPT !.state = "FINISH"] ELSE s

\* The decoder is chosen by Content-Type. What it makes of a line that is not
\* just the body is left out.
ParsePost_(s, line) ==
    IF line # <<Piece(s.req, "body")>> THEN NoFields
    ELSE CASE "form" \in s.header -> ParseFromUrlencoded_(Body(content))
           [] "json" \in s.header -> ParseFromJson_(Body(content))
           [] OTHER               -> NoFields

\* ParsePost_ looks at the body of a POST only.
ParseBody_(s, line) ==
    IF s.method = "POST"
    THEN [s EXCEPT !.state = "FINISH", !.form = line, !.post = ParsePost_(s, line)]
    ELSE [s EXCEPT !.state = "FINISH"]

parseLine(s, b) ==
    CASE s.state = "REQUEST_LINE" -> ParseRequestLine_(s, FirstLine(b))
      [] s.state = "HEADERS"      -> headersEnd(ParseHeader_(s, FirstLine(b)), b)
      [] s.state = "BODY"         -> ParseBody_(s, FirstLine(b))

\* Mutant: the CRLF stays in the buffer.
retrievedLine(b) == SubSeq(b, LineLength(b) + 1, Len(b))

\* retrieve_until(line_end + 2).
retrieved(b) == SubSeq(b, LineLength(b) + 3, Len(b))

\* A turn of the loop of parse, on what it made of the buffer so far, what it
\* left there, and whether it goes on: t is what the line made of it.
turned(b, t) ==
    IF ~t.ok \/ LineEnds(b) = {} THEN [out |-> t, rest |-> b, more |-> FALSE]
    ELSE [out |-> t, rest |-> retrieved(b),
          more |-> retrieved(b) # << >> /\ t.state # "FINISH"]

Turn(p) == IF p.more THEN turned(p.rest, parseLine(p.out, p.rest)) ELSE p

\* The loop: every turn but the last takes a line away.
Parsed(b) ==
    LET after[n \in 0 .. Len(b)] ==
            IF n = 0 THEN {[out |-> NewRequest, rest |-> b, more |-> b # << >>]}
            ELSE {Turn(p) : p \in after[n - 1]}
    IN  The(after[Len(b)])

\* Mutant: a parsed request stays in the buffer.
parseKept(b) == [Parsed(b) EXCEPT !.rest = b]

parse(b) == Parsed(b)

IsKeepAlive(s) == "Connection" \in s.header

-----------------------------------------------------------------------------
\* Mutant: a request that does not parse is thrown away.
refusedGone(b) == << >>

\* parse returns false before anything is retrieved.
refused(b) == b

\* process on the buffer b, of which parse makes p: whether there is a response
\* to send, the request as it was understood, and the buffer afterwards. The
\* response to a request that does not parse is not sent (module HttpConnect).
processed(b, p) ==
    [success |-> b # << >> /\ p.out.ok,
     answer  |-> [req |-> p.out.req, method |-> p.out.method,
                  form |-> p.out.form, post |-> p.out.post, keep |-> IsKeepAlive(p.out)],
     rest    |-> IF p.out.ok THEN p.rest ELSE refused(b)]

Process(b) == processed(b, parse(b))

OnProcessed(p) ==
    /\ answers' = IF p.success THEN Append(answers, p.answer) ELSE answers
    /\ readBuff' = p.rest
    /\ conn' = IF p.success THEN "writing" ELSE "reading"

OnProcess(b) == OnProcessed(Process(b))

\* The client may have sent the next n pieces by now.
Sent(n) == ~Pipelined => \A k \in 1 .. n : unsent[k].req <= Len(answers) + 1

\* The next n pieces are what is left of one request, or its target.
Harmless(n) ==
    /\ \A k \in 1 .. n : unsent[k].req = unsent[1].req
    /\ \/ unsent[n].is = "target"
       \/ n = Len(unsent)
       \/ n < Len(unsent) /\ unsent[n + 1].req # unsent[1].req

\* OnRead_: a read brings some of what was sent.
OnRead_ ==
    /\ conn = "reading"
    /\ \E n \in 1 .. Len(unsent) :
          /\ Sent(n)
          /\ OnProcess(readBuff \o SubSeq(unsent, 1, n))
          /\ unsent' = SubSeq(unsent, n + 1, Len(unsent))
          /\ cut' = (cut \/ ~Harmless(n))
    /\ UNCHANGED <<requests, content>>

\* OnWrite_ has written the response: the next request, or the end.
OnWrite_ ==
    /\ conn = "writing"
    /\ IF Last(answers).keep
       THEN OnProcess(readBuff)
       ELSE conn' = "closed" /\ UNCHANGED <<readBuff, answers>>
    /\ UNCHANGED <<requests, content, unsent, cut>>

Next == OnRead_ \/ OnWrite_

Spec == Init /\ [][Next]_vars

\* The client goes on sending, and the handlers run.
FairSpec == Spec /\ WF_vars(OnRead_) /\ WF_vars(OnWrite_)

-----------------------------------------------------------------------------
(* Properties.                                                             *)

\* What request i should be understood as, its fields aside.
Understood(i) ==
    [req |-> i, method |-> requests[i].method,
     form |-> IF requests[i].method = "POST" THEN <<Piece(i, "body")>> ELSE << >>,
     keep |-> "Connection" \in Range(requests[i].headers)]

Request_(a) == [req |-> a.req, method |-> a.method, form |-> a.form, keep |-> a.keep]

\* As long as every read brings a whole request, or cuts it no later than in
\* its request line, requests are understood one by one as they were sent:
\* nothing of one reaches another through the buffer, up to the first POST.
WholeUnderstood ==
    ~cut => \A k \in DOMAIN answers :
        (\A j \in 1 .. k - 1 : requests[j].method = "GET")
            => Request_(answers[k]) = Understood(k)

\* However the stream is cut, no request is answered twice and none before an
\* earlier one: a connection that goes on has taken its request out of the
\* buffer.
AnsweredInOrder ==
    \A j, k \in DOMAIN answers : j < k => answers[j].req < answers[k].req

\* Answers to posts of this content type, the first of their connection.
Posts(type) ==
    {k \in DOMAIN answers :
        /\ content.type = type /\ type \in Range(requests[k].headers)
        /\ requests[k].method = "POST"
        /\ \A j \in 1 .. k - 1 : requests[j].method = "GET"}

\* A form that arrives whole yields the fields that were put into it, signs and
\* escapes decoded, each value for itself, if every value ends in an ordinary
\* character.
FormDecoded ==
    ~cut /\ content.type = "form" /\ EndsInBytes(content) =>
        \A k \in Posts("form") : answers[k].post = Fields(content)

\* The same of every form with nonempty values ("完整的 POST 表单数据解析",
\* complete parsing of POST forms, README.md:29).
AllFormsDecoded ==
    ~cut /\ content.type = "form" /\ NoEmptyValue(content) =>
        \A k \in Posts("form") : answers[k].post = Fields(content)

\* A JSON object of scalars yields its members wherever space is put: strings
\* end at their own quote whatever is escaped in them.
JsonDecoded == ~cut => \A k \in Posts("json") : answers[k].post = Fields(content)

Finished == conn = "closed" \/ Len(answers) = Len(requests)

\* Requests that arrive whole are all answered, up to the first that does not
\* ask to keep the connection.
WholeAnswered == <>(cut \/ Finished)

\* The same of all requests: parse is said to return true when it needs to
\* wait for more ("数据不足需等待", httprequest.cpp:37).
AllAnswered == <>Finished

\* The body of a POST has no CRLF at its end and parse leaves it in the buffer
\* (line 60): on a connection that is kept it becomes the beginning of the next
\* method, and a second POST is answered without its form being read
\* ("完整的 POST 表单数据解析", complete parsing of POST forms, README.md:29).
FormsRead ==
    ~cut => \A k \in DOMAIN answers : answers[k].form = Understood(k).form
=============================================================================
