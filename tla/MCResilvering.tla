--------------------------- MODULE MCResilvering ---------------------------
(* A leader, a target with two threads, two attempts. *)
EXTENDS Resilvering

CONSTANTS w1, w2

Budget(timeouts, full, crashes, requests, votes) ==
    [timeouts |-> timeouts, full |-> full, crashes |-> crashes, requests |-> requests, votes |-> votes]

\* One attempt may fail: a late answer, a full disk, a crash; or the target votes.
AllBudgets == {Budget(1, 0, 0, 1, FALSE), Budget(0, 1, 0, 1, FALSE), Budget(0, 0, 1, 1, FALSE),
               Budget(0, 0, 0, 3, TRUE)}

=============================================================================
