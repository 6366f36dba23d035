---------------------------- MODULE MCHttpRequest ----------------------------
(* Instances of HttpRequest, with the decoders of HttpForm, for TLC. *)
EXTENDS HttpRequest

Some == {[method |-> m, headers |-> h] :
            m \in {"GET", "POST"},
            h \in {<< >>, <<"Connection">>, <<"Host", "Connection">>,
                   <<"Connection", "Host">>}}

TwoRequests == {<<r, s>> : r \in Some, s \in Some}

\* A third request meets what the first two left behind.
ThreeRequests ==
    {<<r, s, r>> : r \in {q \in Some : Len(q.headers) = 1}, s \in Some}

\* "a", a plus, an escaped "=" with each case of its hex digit, an escaped "&".
SomeTokens == {[is |-> "byte", byte |-> 97], [is |-> "plus", byte |-> 32],
               [is |-> "upper", byte |-> 61], [is |-> "lower", byte |-> 61],
               [is |-> "upper", byte |-> 38]}

\* "k" and "ka", with values of up to n tokens.
FormFields(n) == [key : {<<107>>, <<107, 97>>}, value : SeqOf(SomeTokens, n)]

SomeForms == {<<f>> : f \in FormFields(3)} \cup {<<f, g>> : f \in FormFields(2), g \in FormFields(1)}

\* Strings with an escaped quote or backslash in several places, and with the
\* symbols that end other values; true, null and -1.
Each(text) == [k \in DOMAIN text |-> <<text[k]>>]
EscapedQuote == <<92, 34>>
EscapedBackslash == <<92, 92>>

SomeStrings == {<< >>, Each(<<97>>), <<EscapedQuote>>, <<<<97>>, EscapedBackslash>>,
                <<EscapedBackslash, EscapedQuote, <<97>>>>, Each(<<125, 44>>)}
SomeScalars == {Each(<<116, 114, 117, 101>>), Each(<<110, 117, 108, 108>>), Each(<<45, 49>>)}

SomeMembers == [key : SomeStrings, value : SomeStrings, string : {TRUE}]
               \cup [key : {Each(<<97>>)}, value : SomeScalars, string : {FALSE}]
SomeDocuments == {<< >>} \cup {<<p>> : p \in SomeMembers}
                 \cup {<<p, q>> : p \in SomeMembers, q \in {m \in SomeMembers : m.key = Each(<<97>>)}}

FormContents == [type : {"form"}, fields : SomeForms]
JsonContents == [type : {"json"}, fields : SomeDocuments, space : {<< >>, <<32>>, <<10, 9>>}]

Posting(c) == [method |-> "POST", headers |-> <<c.type>>]

FormSessions == [requests : {<<Posting([type |-> "form"])>>}, content : FormContents]
JsonSessions == [requests : {<<Posting([type |-> "json"])>>}, content : JsonContents]

\* The content does not matter where the type is not told.
AnyContent == [type |-> "form", fields |-> << >>]
TwoSessions == [requests : TwoRequests, content : {AnyContent}]

FormAndTwoSessions == FormSessions \cup TwoSessions

AllSessions == TwoSessions \cup [requests : ThreeRequests, content : {AnyContent}]
               \cup FormSessions \cup JsonSessions
==============================================================================
