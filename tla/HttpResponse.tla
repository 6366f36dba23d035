---------------------------- MODULE HttpResponse ----------------------------
(***************************************************************************)
(* HttpResponse (code/http/httpresponse.cpp): how a path becomes headers   *)
(* and a mapped file.  Each operation is a function of the object and of   *)
(* what the file system holds when it looks; HttpConnect calls them one by *)
(* one, and the files may change between two calls.                        *)
(***************************************************************************)
EXTENDS Integers

CONSTANTS
    HEAD,   \* the length of status line and headers
    BODY    \* the length of a body made in the write buffer

ASSUME HttpResponseAssumption == HEAD \in Nat \ {0} /\ BODY \in Nat \ {0}

\* What may be found under a path. A "secret" file is one that others may not
\* read (S_IROTH); the server itself may or may not.
Kinds == {"none", "dir", "secret", "file"}
Files == [kind : Kinds, size : Nat]

Codes == {-1, 200, 400, 403, 404}
CODE_PATH == {400, 403, 404}

\* The members; mapped is history: how many bytes the object has mapped.
Responses == [code : Codes, path : {"file", "health", "error"},
              mmFile : BOOLEAN, st_size : Nat, mapped : Int]

NewResponse == [code |-> -1, path |-> "file",
                mmFile |-> FALSE, st_size |-> 0, mapped |-> 0]

\* munmap(mmFile_, st_size).
UnmapFile(r) ==
    IF r.mmFile THEN [r EXCEPT !.mmFile = FALSE, !.mapped = @ - r.st_size] ELSE r

\* Mutant: Init forgets the size before it unmaps.
InitForgets(r, path, code) ==
    [UnmapFile([r EXCEPT !.st_size = 0]) EXCEPT !.path = path, !.code = code]

Init_(r, path, code) ==
    [UnmapFile(r) EXCEPT !.path = path, !.code = code, !.st_size = 0]

\* stat() fails or fills mmFileStat_.
stat(r, f) == IF f.kind = "none" THEN r ELSE [r EXCEPT !.st_size = f.size]

\* The status of a path nothing was decided about yet.
statCode(f) ==
    CASE f.kind \in {"none", "dir"} -> 404
      [] f.kind = "secret"          -> 403
      [] f.kind = "file"            -> 200

\* ErrorHtml_: the page of the code, and its size if there is such a page.
ErrorHtml_(r, f) == [stat(r, f) EXCEPT !.path = "error"]

\* mmap refuses a directory and an empty range.
maps(r, f) == f.kind # "dir" /\ r.st_size > 0

\* AddBody_ of a file it could map, and what it sends otherwise: ErrorContent
\* ("File Not Found!", "Memory Map Failed!").
Mapped(r) == [r EXCEPT !.mmFile = TRUE, !.mapped = @ + r.st_size]

\* What is in the write buffer: its length and the Content-Length in it.
FileHeaders(r) == [head |-> HEAD, announced |-> r.st_size]
InlineBody     == [head |-> HEAD + BODY, announced |-> BODY]
=============================================================================
