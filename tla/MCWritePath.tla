---------------------------- MODULE MCWritePath ----------------------------
(* WritePath with few connections. *)
EXTENDS WritePath, TLC

CONSTANTS c1, c2

\* c1 pipelines two requests, c2 has one under way next to them.
TwoAndOne == [c \in Conn |-> IF c = c1 THEN 2 ELSE 1]
OneEach == [c \in Conn |-> 1]
=============================================================================
