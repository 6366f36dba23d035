------------------------------ MODULE MCLogger ------------------------------
(* Instances of Logger for TLC. *)
EXTENDS Logger

\* The main thread logs once, the others twice.
OneAndTwo == [t \in Loggers |-> IF t = Main THEN 1 ELSE 2]
=============================================================================
