---------------------------- MODULE MCQuarkRaft ----------------------------
(* QuarkRaft on small clusters. *)
EXTENDS QuarkRaft, TLC

CONSTANTS s1, s2, s3, v1

Symmetry == Permutations(Server)
=============================================================================
