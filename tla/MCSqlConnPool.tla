--------------------------- MODULE MCSqlConnPool ---------------------------
(* Instances of SqlConnPool for TLC. *)
EXTENDS SqlConnPool, TLC

Symmetry == Permutations(Workers) \cup Permutations(Created)
=============================================================================
