------------------------------ MODULE MCBuffer ------------------------------
(* Instances of Buffer for TLC. *)
EXTENDS Buffer

\* Up to three bytes at a time: more than the first vector holds.
UpToThree == {<< >>, <<1>>, <<1, 2>>, <<2, 1, 2>>}
=============================================================================
