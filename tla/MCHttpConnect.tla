---------------------------- MODULE MCHttpConnect ----------------------------
(* Instances of HttpConnect for TLC. *)
EXTENDS HttpConnect

Req(ok, keep, path) == [ok |-> ok, keep |-> keep, path |-> path]
File(kind, len) == [kind |-> kind, size |-> len]

KeepFile == Req(TRUE, TRUE, "file")
KeepBare == Req(TRUE, TRUE, "health")
Short    == Req(TRUE, FALSE, "file")
Bad      == Req(FALSE, FALSE, "file")

AllRequests == {KeepFile, KeepBare, Short, Bad}

\* A directory, a file others may not read, an empty one, and two to send.
AllFiles == {File("none", 0), File("dir", 2), File("secret", 2), File("file", 0),
             File("file", 1), File("file", 3)}
SomePage == {File("none", 0), File("file", 1)}

\* Files of which only the size may change.
TwoSizes == {File("file", 3), File("file", 4)}
OnePage  == {File("file", 1)}

\* One request, or two in one read.
OneOrTwo == {<<r>> : r \in Requests} \cup {<<r, s>> : r \in Requests, s \in Requests}
One      == {<<r>> : r \in Requests}
==============================================================================
