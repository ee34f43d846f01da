---------------------------- MODULE MCScenarios ----------------------------
(* Clusters of five, restricted to the servers, votes and requests that    *)
(* take part in one story.  Every step of a scenario is a step of          *)
(* QuarkRaft, so what a scenario reaches the specification reaches.        *)
EXTENDS QuarkRaft

CONSTANTS s1, s2, s3, s4, s5, v1, v2

\* An election that both of the voters in votes have answered, and what a leader
\* does on the links.
Elect(votes) ==
    \/ \E q \in voteReqs : <<q.candidate, q.to>> \in votes /\ RequestVote(q)
    \/ \E i \in Server :
         LET R == {r \in voteReplies : r.to = i}
         IN  Cardinality(R) = 2 /\ ConcludeElection(i, R, {})
    \/ \E i \in Server : ActivateReplicator(i)

Replicate(links) ==
    \/ \E l \in links, limit \in PayloadLimits : SendPayload(l[1], l[2], limit)
    \/ \E m \in appReqs : AppendEntries(m)
    \/ \E a \in acks : HandleAck(a)

\* s1 leads term 1 and s3 leads term 2; the tracker of s1 for s2 has tested its
\* snapshot before, and reads the commit index and the journal after s3 was elected.
\* The last answer of s2 was lost, so that the tracker sends one entry at a time.
StaleCommit ==
    \/ elections = 0 /\ BeginElection(s1)
    \/ /\ elections = 1 /\ LogSize(node[s2]) = 3 /\ tracker[s1][s2].inflight = {}
       /\ BeginElection(s3)
    \/ Elect({<<s1, s3>>, <<s1, s4>>, <<s3, s4>>, <<s3, s5>>})
    \/ Replicate({<<s1, s2>>, <<s1, s3>>, <<s1, s4>>, <<s3, s1>>, <<s3, s4>>})
    \/ AckTimeout(s1, s2, FALSE)
    \/ ServiceAppend(s1, v1)

StaleCommitSpec == Init /\ [][StaleCommit]_vars

\* s1 leads term 1, s3 term 2 and s2 term 3; a write that tested for leadership in
\* term 1 takes the lock when the journal of s1 ends with an entry of term 1 again.
StaleAppend ==
    \/ elections = 0 /\ BeginElection(s1)
    \/ /\ elections = 1 /\ LogSize(node[s2]) = 4 /\ writer[s1] # 0
       /\ BeginElection(s3)
    \/ elections >= 2 /\ LastTerm(node[s1]) = 2 /\ BeginElection(s2)
    \/ Elect({<<s1, s4>>, <<s1, s5>>, <<s3, s4>>, <<s3, s5>>, <<s2, s4>>, <<s2, s5>>})
    \/ Replicate({<<s1, s2>>, <<s1, s3>>, <<s3, s1>>, <<s2, s1>>})
    \/ ServiceBegin(s1)
    \/ LogSize(node[s1]) < 4 /\ elections = 1 /\ ServiceAppend(s1, v1)
    \/ elections = 4 /\ LastTerm(node[s1]) = 1 /\ ServiceAppend(s1, v2)

StaleAppendSpec == Init /\ [][StaleAppend]_vars
=============================================================================
