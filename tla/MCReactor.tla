------------------------------ MODULE MCReactor ------------------------------
(* Instances of Reactor for TLC. *)
EXTENDS ReactorLife, TLC

\* Connections and workers are interchangeable in the safety runs; so are
\* descriptors, accept's choice among the free ones being arbitrary.
Symmetry == Permutations(Conns) \cup Permutations(Fds) \cup Permutations(Workers)

Req(ok, keep, file, rest) ==
    [ok |-> ok, keep |-> keep, file |-> file, rest |-> rest]

\* A file to a client that closes, a file to one that stays, and a
\* request that does not parse and stays in the buffer.
ThreeRequests == {Req(TRUE, FALSE, TRUE, FALSE), Req(TRUE, TRUE, TRUE, FALSE),
                  Req(FALSE, FALSE, FALSE, TRUE)}

\* The second one without a file and followed by another request.
OtherRequests == {Req(TRUE, FALSE, TRUE, FALSE), Req(TRUE, TRUE, FALSE, TRUE),
                  Req(FALSE, FALSE, FALSE, TRUE)}

\* The invariants claim nothing of a state that is overtaken, and one that is
\* stays so: TLC checks such a state and does not go on from it.
UntilOvertaken == ~overtaken
==============================================================================
