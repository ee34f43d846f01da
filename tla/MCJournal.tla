----------------------------- MODULE MCJournal -----------------------------
(***************************************************************************)
(* Journals of up to four servers.                                         *)
(***************************************************************************)
EXTENDS Journal, TLC

CONSTANTS s1, s2, s3, s4

Calm == [policy |-> "sync-important-updates", elections |-> 2, writes |-> 0, changes |-> 0,
         ops |-> {"add", "remove", "promote", "demote"}, blackouts |-> 0, restarts |-> 0, applies |-> FALSE, dark |-> FALSE]

Scenario(nodes, observers, budget) ==
    [members |-> [nodes |-> nodes, observers |-> observers], left |-> budget]

\* The membership of a cluster of three and one observer changes.
Reconfigured == Scenario({s1, s2, s3}, {s4}, [Calm EXCEPT !.changes = 2])

\* Blackouts when important updates, or all of them, are synced.
Important == Scenario({s1, s2, s3}, {}, [Calm EXCEPT !.blackouts = 1, !.restarts = 1, !.dark = TRUE])
Always == Scenario({s1, s2, s3}, {}, [Calm EXCEPT !.policy = "always", !.blackouts = 1, !.writes = 1])

\* One server applies, trims and loses power.
Alone == Scenario({s1}, {}, [Calm EXCEPT !.elections = 1, !.writes = 4, !.blackouts = 1,
                                         !.applies = TRUE, !.dark = TRUE])

AllScenarios == {Reconfigured, Important, Always, Alone}

\* Two leaders of a cluster of four change its membership.
Overlapping == {Scenario({s1, s2, s3, s4}, {}, [Calm EXCEPT !.elections = 3, !.changes = 2, !.ops = {"remove"},
                                                         !.restarts = 1])}
AnyOrder == Permutations({s1, s2, s3, s4})

\* The servers are interchangeable at first.
Symmetry == Permutations({s1, s2, s3})

=============================================================================
