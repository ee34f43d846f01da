--------------------------- MODULE MCReplication ---------------------------
(***************************************************************************)
(* Replication to four targets.  A scenario says which targets the leader  *)
(* reaches, what their logs hold and which faults may happen.              *)
(***************************************************************************)
EXTENDS Replication, TLC

CONSTANTS t1, t2, t3, t4

Nothing == [writes |-> 0, breaks |-> 0, timeouts |-> 0, elections |-> 0,
            reconfigurations |-> 0, time |-> 0, prevWindow |-> FALSE]

Scenario(logs, start, isFull, tracked, beating, budget) ==
    [logs |-> [t \in Target |-> IF t \in DOMAIN logs THEN logs[t] ELSE <<0>>], start |-> start,
     full |-> isFull, tracked |-> tracked, beating |-> beating, left |-> budget]

\* A target is streamed to while writes arrive and its connection breaks.
Streaming == Scenario(t1 :> <<0, 1>>, 0, {t1, t2}, {t1}, {},
                      [Nothing EXCEPT !.writes = 2, !.breaks = 1])

\* Three of five nodes get a new leader while one target is replicated to.
Deposed == Scenario(t1 :> <<0, 1>>, 0, Target, {t1}, {},
                    [Nothing EXCEPT !.elections = 1, !.timeouts = 1])

\* A target whose log disagrees, next to one that lags; one that needs resilvering.
Behind == Scenario(t1 :> <<0, 1, 1, 1>>, 0, {t1, t2}, {t1, t2}, {},
                   [Nothing EXCEPT !.timeouts = 1, !.prevWindow = TRUE])
Trimmed == Scenario(t1 :> <<0>>, 1, {t1, t2}, {t1}, {}, [Nothing EXCEPT !.breaks = 1])

\* Observers and changes of membership.
Observers == Scenario(t1 :> <<0, 1>>, 0, {}, {t1}, {},
                      [Nothing EXCEPT !.reconfigurations = 1, !.writes = 1])

\* The lease.
Leases == Scenario(<<>>, 0, {t1, t2, t3}, {t1}, {t2}, [Nothing EXCEPT !.time = 2])

AllScenarios == {Streaming, Deposed, Behind, Trimmed, Observers, Leases}

\* The window between the previous term and the commit index is open.
OpenWindow == {[Deposed EXCEPT !.left.prevWindow = TRUE]}

\* One target is streamed to, and the connection breaks once.
Hiccup == {Streaming}

=============================================================================
