------------------------------ MODULE MCServer ------------------------------
(* Instances of Server for TLC. *)
EXTENDS Server

\* Too low, the first one, the last of 15 bits, the first beyond, the last of
\* 16, and two that are too large for them.
SomePorts == {80, 1024, 32767, 32768, 65535, 65536, 65536 + 8080}
Served    == {8080}
=============================================================================
