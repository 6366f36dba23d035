------------------------------ MODULE HttpForm ------------------------------
(***************************************************************************)
(* The two decoders of the body of a POST (code/http/httprequest.cpp):     *)
(* ParseFromUrlencoded_ and ParseFromJson_, as functions from a body, a    *)
(* sequence of bytes, to the fields post_ holds afterwards, a function     *)
(* from keys to values.  Positions count from 0 as in the code.            *)
(***************************************************************************)
EXTENDS Integers, Sequences, SequencesExt, FiniteSetsExt, TLC

Bytes == 0 .. 255

\* body_[i], which is 0 at the end of the string, and body_.substr(i, j - i).
At(b, i)        == IF i < Len(b) THEN b[i + 1] ELSE 0
substr(b, i, j) == SubSeq(b, i + 1, j)

\* A loop is a recursive function of the number of its turns: the set of the
\* one state after them, so that TLC looks at each turn once.
The(S) == CHOOSE s \in S : TRUE

NoFields == << >>
Stored(post, key, value) == (key :> value) @@ post

Digits == 48 .. 57
Upper  == 65 .. 70
Lower  == 97 .. 102

-----------------------------------------------------------------------------
(* application/x-www-form-urlencoded                                       *)

Equals == 61
Plus == 43
Percent == 37
Ampersand == 38
Space == 32

ConverHex(ch) ==
    CASE ch \in Digits -> ch - 48
      [] ch \in Upper  -> ch - 65 + 10
      [] ch \in Lower  -> ch - 97 + 10
      [] OTHER         -> -1

\* Mutant: the value collected so far is not cleared.
pairEndKeeps(s, seg) ==
    IF seg # << >> /\ s.key # << >>
    THEN [s EXCEPT !.post = Stored(@, s.key, s.value \o seg), !.key = << >>]
    ELSE s

\* '&' ends a pair, if ordinary characters precede it and there is a key.
pairEnd(s, seg) ==
    IF seg # << >> /\ s.key # << >>
    THEN [s EXCEPT !.post = Stored(@, s.key, s.value \o seg),
                   !.key = << >>, !.value = << >>]
    ELSE s

\* The loop stands at i, and has not used the bytes from j on.
Moved(s, n) == [s EXCEPT !.i = s.i + n, !.j = s.i + n]

\* One turn of the loop, which changes nothing at the end of the body.
formStep(b, s) ==
    LET seg  == substr(b, s.j, s.i)
        high == ConverHex(At(b, s.i + 1))
        low  == ConverHex(At(b, s.i + 2))
        With(t) == [s EXCEPT !.value = @ \o seg \o t] IN
    CASE s.i >= Len(b)          -> s
      [] At(b, s.i) = Equals    -> Moved([s EXCEPT !.key = IF seg # << >> THEN seg ELSE @], 1)
      [] At(b, s.i) = Plus      -> Moved(With(<<Space>>), 1)
      [] At(b, s.i) = Ampersand -> Moved(pairEnd(s, seg), 1)
      [] At(b, s.i) = Percent /\ s.i + 2 < Len(b) ->
             Moved(With(IF high < 0 \/ low < 0 THEN << >> ELSE <<high * 16 + low>>), 3)
      [] OTHER                  -> [s EXCEPT !.i = @ + 1]

\* The loop ends within as many turns as there are bytes.
formLoop(b) ==
    LET after[n \in 0 .. Len(b)] ==
            IF n = 0 THEN {[i |-> 0, j |-> 0, key |-> << >>, value |-> << >>, post |-> NoFields]}
            ELSE {formStep(b, s) : s \in after[n - 1]}
    IN  The(after[Len(b)])

\* After the loop the last pair is stored, if ordinary characters end it.
ParseFromUrlencoded_(b) ==
    LET s == formLoop(b) IN
    IF s.key # << >> /\ s.j < Len(b)
    THEN Stored(s.post, s.key, s.value \o substr(b, s.j, Len(b)))
    ELSE s.post

-----------------------------------------------------------------------------
(* application/json                                                        *)

Blanks == {9, 10, 13, 32}
Quote == 34
Comma == 44
Minus == 45
Colon == 58
Backslash == 92
Open == 123
Close == 125

\* The first position from i on that holds a byte of S, or one not of S.
Until(b, i, S) == Min({Len(b)} \cup {k \in i .. Len(b) - 1 : At(b, k) \in S})
Skip(b, i, S)  == Min({Len(b)} \cup {k \in i .. Len(b) - 1 : At(b, k) \notin S})

\* Mutant: a backslash is skipped, the character it protects is not.
stringEndNoEscape(b, i) ==
    LET end[m \in i .. Len(b) + 1] ==
            LET k == Until(b, m, {Quote, Backslash}) IN
            IF k < Len(b) /\ At(b, k) = Backslash THEN end[k + 1] ELSE k
    IN  end[i]

\* Where the string that begins at i ends: at its quote, or at the end.
stringEnd(b, i) ==
    LET end[m \in i .. Len(b) + 1] ==
            LET k == Until(b, m, {Quote, Backslash}) IN
            IF k < Len(b) /\ At(b, k) = Backslash THEN end[k + 2] ELSE k
    IN  end[i]

\* The first bytes of true, false, null and the numbers.
ScalarStart == {102, 110, 116, Minus} \cup Digits
scalarEnd(b, i) == Until(b, i, {Comma, Close} \cup Blanks)

\* The loop over the members stands at s.i and has stored s.post; any error
\* ends it, and what was stored stays.
failed(s) == [s EXCEPT !.more = FALSE]

\* The value ends at next: it is stored, and a comma skipped.
stored(b, key, value, next, s) ==
    [i |-> IF At(b, next) = Comma THEN next + 1 ELSE next,
     post |-> Stored(s.post, key, value), more |-> TRUE]

\* The value of key begins at val, and would end at end.
stringAt(b, key, val, end, s) ==
    IF At(b, end) = Quote
    THEN stored(b, key, substr(b, val + 1, end), Skip(b, end + 1, Blanks), s)
    ELSE failed(s)

scalarAt(b, key, val, end, s) ==
    IF At(b, val) \in ScalarStart
    THEN stored(b, key, substr(b, val, end), Skip(b, end, Blanks), s)
    ELSE failed(s)

valueAt(b, key, val, s) ==
    IF At(b, val) = Quote THEN stringAt(b, key, val, stringEnd(b, val + 1), s)
    ELSE scalarAt(b, key, val, scalarEnd(b, val), s)

\* The key begins behind start, and would end at end.
keyAt(b, start, end, s) ==
    LET colon == Skip(b, end + 1, Blanks) IN
    IF At(b, start) = Quote /\ At(b, end) = Quote /\ At(b, colon) = Colon
    THEN valueAt(b, substr(b, start + 1, end), Skip(b, colon + 1, Blanks), s)
    ELSE failed(s)

\* A turn of the loop, and the loop from i on: every member takes some bytes.
memberStep(b, s) ==
    LET start == Skip(b, s.i, Blanks) IN
    IF s.more THEN keyAt(b, start, stringEnd(b, start + 1), s) ELSE s

Members(b, i) ==
    LET after[n \in 0 .. Len(b)] ==
            IF n = 0 THEN {[i |-> i, post |-> NoFields, more |-> TRUE]}
            ELSE {memberStep(b, s) : s \in after[n - 1]}
    IN  The(after[Len(b)]).post

ParseFromJson_(b) ==
    LET start == Skip(b, 0, Blanks) IN
    IF At(b, start) = Open THEN Members(b, start + 1) ELSE NoFields

-----------------------------------------------------------------------------
(* What clients send.                                                      *)

\* A byte of a value goes as it is, if it is no symbol of the encoding and ends
\* no line, a space as a plus, any byte as an escape.
Ordinary == Bytes \ {Equals, Plus, Percent, Ampersand, 10, 13}
Tokens == [is : {"byte"}, byte : Ordinary] \cup [is : {"plus"}, byte : {Space}]
          \cup [is : {"upper", "lower"}, byte : Bytes]

\* A form has keys without escapes, and values.
Pairs == [key : Seq(Ordinary) \ {<< >>}, value : Seq(Tokens)]

\* A JSON value is made of units, in a string each a byte or an escape, which its
\* value keeps. A true, false, null or number has neither quotes nor what ends it.
Plain   == Bytes \ {Quote, Backslash, 10, 13}
Letters(S) == {<<c>> : c \in S}
Units   == Letters(Plain) \cup {<<Backslash, c>> : c \in Bytes \ {10, 13}}
Scalars == {v \in Seq(Letters(Plain \ (Blanks \cup {Comma, Close}))) :
               v # << >> /\ v[1] \in Letters(ScalarStart)}

\* The members of an object of scalars; space stands between its symbols. With a
\* CR LF in it a body is not one line.
JsonMembers == [key : Seq(Units), value : Seq(Units), string : {TRUE}]
               \cup [key : Seq(Units), value : Scalars, string : {FALSE}]

Contents == [type : {"form"}, fields : Seq(Pairs)]
            \cup [type : {"json"}, space : Seq(Blanks \ {13}), fields : Seq(JsonMembers)]

HexDigit(n, ten)  == IF n < 10 THEN 48 + n ELSE ten + n - 10
Escape(byte, ten) == <<Percent, HexDigit(byte \div 16, ten), HexDigit(byte % 16, ten)>>

SentAs(t) ==
    CASE t.is = "byte"  -> <<t.byte>>
      [] t.is = "plus"  -> <<Plus>>
      [] t.is = "upper" -> Escape(t.byte, 65)
      [] t.is = "lower" -> Escape(t.byte, 97)

\* The texts ts with a separator between them.
Joined(ts, sep) == FlattenSeq([k \in DOMAIN ts |-> IF k = 1 THEN ts[k] ELSE sep \o ts[k]])

FormBody(f) ==
    LET Field(p) == p.key \o <<Equals>>
                    \o FlattenSeq([k \in DOMAIN p.value |-> SentAs(p.value[k])]) IN
    Joined([k \in DOMAIN f |-> Field(f[k])], <<Ampersand>>)

JsonBody(d, ws) ==
    LET Quoted(v) == <<Quote>> \o FlattenSeq(v) \o <<Quote>>
        Member(p) == ws \o Quoted(p.key) \o ws \o <<Colon>> \o ws
                     \o (IF p.string THEN Quoted(p.value) ELSE FlattenSeq(p.value)) \o ws IN
    ws \o <<Open>> \o Joined([k \in DOMAIN d |-> Member(d[k])], <<Comma>>) \o ws \o <<Close>> \o ws

Body(content) ==
    IF content.type = "form" THEN FormBody(content.fields)
    ELSE JsonBody(content.fields, content.space)

\* What it means: of several fields with one name the last one counts, and the
\* text of a JSON scalar is kept as it is, escapes included.
Spelled(v) == [k \in DOMAIN v |-> v[k].byte]
Named(content, p) == IF content.type = "form" THEN p.key ELSE FlattenSeq(p.key)
Meant(content, p) == IF content.type = "form" THEN Spelled(p.value) ELSE FlattenSeq(p.value)

Fields(content) ==
    LET f == content.fields
        first[n \in 0 .. Len(f)] ==
            IF n = 0 THEN NoFields
            ELSE Stored(first[n - 1], Named(content, f[n]), Meant(content, f[n]))
    IN  first[Len(f)]

\* Every value of the form ends in an ordinary character.
EndsInBytes(content) ==
    \A k \in DOMAIN content.fields :
        LET v == content.fields[k].value IN v # << >> /\ Last(v).is = "byte"

NoEmptyValue(content) == \A k \in DOMAIN content.fields : content.fields[k].value # << >>
=============================================================================
