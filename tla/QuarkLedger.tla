---------------------------- MODULE QuarkLedger ----------------------------
(***************************************************************************)
(* The inductive invariant of QuarkRaft.                                   *)
(*                                                                         *)
(* The servers keep no record of who led with which log, who acknowledged  *)
(* what, and who voted on which claim; whether the present logs agree      *)
(* depends on all of it.  The invariant says that such a record exists     *)
(* which explains the present state:                                       *)
(*   L[t]         the log of the leader of term t, as long as it was when  *)
(*                that server last led; empty for a term without leader    *)
(*   A            <<server, t, k>>: in term t the server held the first k  *)
(*                entries of L[t], the last one of term t                  *)
(*   G            <<voter, t, candidate>>: the votes                       *)
(*   K[<<c, t>>]  <<index, term>>: the end of the log that candidate c     *)
(*                claimed in its vote requests of term t                   *)
(***************************************************************************)
EXTENDS QuarkRaft

-----------------------------------------------------------------------------
(* Logs *)

FirstEntry == [term |-> 0, request |-> Nobody]

Agree(s, u, k) == \A x \in 1..k : s[x] = u[x]

\* The k-th entry of s is of term t.  In a log that is backed by L this means that
\* s begins with the first k entries of L[t].
Holds(s, t, k) == k \in 1..Len(s) /\ s[k].term = t

Backed(L, s) == \A k \in 1..Len(s) : k <= Len(L[s[k].term]) /\ Agree(s, L[s[k].term], k)

Ordered(s) == \A k, l \in 1..Len(s) : k <= l => s[k].term <= s[l].term

GoodLog(L, s) == Backed(L, s) /\ Ordered(s) /\ (Len(s) > 0 => s[1] = FirstEntry)

\* A log of term t: what a server in term t may hold.
LogOfTerm(L, s, t) == GoodLog(L, s) /\ \A k \in 1..Len(s) : s[k].term <= t

\* The request carries the entries of s behind its previous index.
CutFrom(m, s) ==
    /\ m.prevIndex + 1 + Len(m.entries) <= Len(s)
    /\ s[m.prevIndex + 1].term = m.prevTerm
    /\ \A k \in 1..Len(m.entries) : m.entries[k] = s[m.prevIndex + 1 + k]

LeaderLogs(L) ==
    /\ L \in [Nat -> Seq(Entry)]
    /\ \A t \in Nat : LogOfTerm(L, L[t], t)
    /\ \A t \in Nat : Len(L[t]) > 0 => L[t][Len(L[t])].term = t
    /\ \A t \in Nat : Len(L[t]) > 0 <=> t = 0 \/ \E i \in Server : <<i, t>> \in elected

\* Whatever is in a log or under way was in the log of a leader.
LogInv(L) ==
    /\ LeaderLogs(L)
    /\ \A i \in Server : LogOfTerm(L, node[i].log, node[i].term)
    /\ \A i \in Server : node[i].status = "LEADER" => node[i].log = L[node[i].term]
    /\ \A m \in appReqs : \E t \in Nat : t <= m.term /\ CutFrom(m, L[t])

-----------------------------------------------------------------------------
(* Who leads, and which answers are awaited *)

\* Server i can no longer vote for anyone but c in term t.
Bound(i, t, c) == node[i].term > t \/ (node[i].term = t /\ node[i].votedFor = c)

ElectedInv ==
    /\ \A e \in elected : /\ e[2] > 0
                          /\ Bound(e[1], e[2], e[1])
                          /\ ~ (director[e[1]].phase = "electing" /\ director[e[1]].term = e[2])
    /\ \A i \in Server : director[i].phase # "idle" => director[i].term > 0
    /\ \A i \in Server : node[i].status = "LEADER" =>
          node[i].leader = i /\ <<i, node[i].term>> \in elected

LeaderInv ==
    /\ \A i \in Server : node[i].leader # Nobody =>
          <<node[i].leader, node[i].term>> \in elected /\ node[i].votedFor # Nobody
    /\ heartbeats \subseteq elected
    /\ \A m \in appReqs : <<m.leader, m.term>> \in elected
    /\ \A i \in Server : repl[i] # 0 => <<i, repl[i]>> \in elected

\* A tracker waits for one answer at a time, to the request it sent last.
AwaitInv ==
    /\ \A i, j \in Server : \A m \in tracker[i][j].inflight :
          /\ m.leader = i /\ m.target = j /\ m.term = repl[i] /\ repl[i] # 0
          /\ m.prevIndex + 1 = tracker[i][j].next
          /\ tracker[i][j].inflight = {m}
    /\ \A i \in Server : tracker[i][i].next <= 0
    /\ \A a \in acks :
          /\ a.req \in tracker[a.req.leader][a.req.target].inflight
          /\ a.req \notin appReqs
          /\ a.term >= a.req.term
          /\ \A b \in acks : b.req = a.req => b = a

-----------------------------------------------------------------------------
(* Acknowledgements *)

Missing(L, t, k, u) == Len(L[u]) > 0 /\ ~ Holds(L[u], t, k)

\* Node n has taken entries of a leader of term u.
MayHaveFollowed(n, u) == u < n.term \/ (u = n.term /\ n.votedFor # Nobody)

\* A server still holds what it acknowledged, unless a later leader did without.
AcksHeld(L, A) ==
    \A j \in Server, t, k \in Nat : <<j, t, k>> \in A =>
        /\ Holds(L[t], t, k)
        /\ t <= node[j].term
        /\ \/ Holds(node[j].log, t, k)
           \/ \E u \in Nat : t < u /\ MayHaveFollowed(node[j], u) /\ Missing(L, t, k, u)

\* A leader has acknowledged the entries of its own term.
LeadersAcked(L, A) ==
    \A e \in elected, k \in Nat : Holds(L[e[2]], e[2], k) => <<e[1], e[2], k>> \in A

AckInv(L, A) == AcksHeld(L, A) /\ LeadersAcked(L, A)

-----------------------------------------------------------------------------
(* Claims of candidates *)

\* A log that ends at index c[1] with term c[2] is no older than one that ends
\* with the k-th entry, of term t.
Claims(c, t, k) == c[2] > t \/ (c[2] = t /\ c[1] + 1 >= k)

SkippedBetween(L, t, k, u) == \E w \in Nat : t < w /\ w < u /\ Missing(L, t, k, w)

\* What a claim c for term u promises of a log s.
Justified(L, c, u, s) ==
    \A t, k \in Nat : t < u /\ Holds(L[t], t, k) /\ Claims(c, t, k) =>
        Holds(s, t, k) \/ SkippedBetween(L, t, k, u)

ClaimOK(L, c, u) == c[1] \in Nat /\ c[2] \in Nat /\ c[2] < u /\ c[1] + 1 <= Len(L[c[2]])

\* The election of term u can still be won by n.
Open(n, u) == n.term < u \/ (n.term = u /\ n.leader = Nobody)

\* A vote is cast on the claim of a candidate that votes for itself.
VotesOnClaims(L, G, K) ==
    \A v, c \in Server, u \in Nat : <<v, u, c>> \in G =>
        <<c, u, c>> \in G /\ ClaimOK(L, K[<<c, u>>], u)

RequestsClaim(G, K) ==
    \A q \in voteReqs : /\ <<q.candidate, q.term, q.candidate>> \in G
                        /\ K[<<q.candidate, q.term>>] = <<q.lastIndex, q.lastTerm>>

\* What a server has read of its log when it runs for leader remains true for as
\* long as it can win.
DirectorClaims(L, K, i) ==
    LET d == director[i]
        c == <<d.lastIndex, d.lastTerm>> IN
    /\ d.phase # "idle" => ClaimOK(L, c, d.term)
    /\ d.phase # "idle" /\ Open(node[i], d.term) => Justified(L, c, d.term, node[i].log)
    /\ d.phase = "electing" => K[<<i, d.term>>] = c

\* A voter has acknowledged nothing that the claim it voted for lacks.
VotersBehind(L, A, G, K) ==
    \A v, c \in Server, u, t, k \in Nat :
        v # c /\ <<v, u, c>> \in G /\ <<v, t, k>> \in A /\ t < u =>
            Claims(K[<<c, u>>], t, k) \/ SkippedBetween(L, t, k, u)

\* A leader has what it claimed, and what it had acknowledged itself.
LeadersClaim(L, G, K) ==
    \A e \in elected : <<e[1], e[2], e[1]>> \in G /\ Justified(L, K[e], e[2], L[e[2]])

LeadersKeep(L, A) ==
    \A e \in elected, t, k \in Nat : <<e[1], t, k>> \in A /\ t < e[2] =>
        Holds(L[e[2]], t, k) \/ SkippedBetween(L, t, k, e[2])

ClaimInv(L, A, G, K) ==
    /\ VotesOnClaims(L, G, K) /\ RequestsClaim(G, K) /\ \A i \in Server : DirectorClaims(L, K, i)
    /\ VotersBehind(L, A, G, K) /\ LeadersClaim(L, G, K) /\ LeadersKeep(L, A)

-----------------------------------------------------------------------------
(* Commitment *)

Chosen(A, t, k) ==
    \E Q \in SUBSET Server : Cardinality(Q) >= quorumSize /\ \A j \in Q : <<j, t, k>> \in A

\* The first c + 1 entries are covered by a choice made no later than in term u.
Covered(A, c, u, t, k) == t <= u /\ k > c /\ Chosen(A, t, k)

NodeCovered(L, A, n) ==
    n.commitIndex = 0 \/ \E t, k \in Nat : /\ Covered(A, n.commitIndex, n.term, t, k)
                                          /\ Agree(n.log, L[t], n.commitIndex + 1)

RequestCovered(A, m) == m.commitIndex = 0 \/ \E t, k \in Nat : Covered(A, m.commitIndex, m.term, t, k)

CommitInv(L, A) ==
    /\ \A i \in Server : NodeCovered(L, A, node[i])
    /\ \A m \in appReqs : RequestCovered(A, m)

-----------------------------------------------------------------------------
(* Replication by a leader whose trackers do not outlive it *)

\* Node n holds a prefix of the log of the leader of term u.
Aligned(L, u, n) == Len(n.log) <= Len(L[u]) /\ Agree(n.log, L[u], Len(n.log))

\* A request whose previous entry is the p-th starts no earlier than where n
\* departs from the log of the leader of term u.
StartsAt(L, u, n, p) ==
    /\ p \in 1..Len(L[u])
    /\ n.term < u => L[u][p].term = u
    /\ n.term = u => Aligned(L, u, n) \/
          \A x \in 1..Len(n.log) : x <= Len(L[u]) /\ n.log[x].term = L[u][x].term => x <= p

\* Server j is recorded for all entries of term u among the first k of its leader.
Recorded(L, A, u, j, k) == \A x \in 1..k : Holds(L[u], u, x) => <<j, u, x>> \in A

RequestFits(L, m) ==
    /\ CutFrom(m, L[m.term])
    /\ m.entries = <<>> => m.prevTerm = m.term
    /\ StartsAt(L, m.term, node[m.target], m.prevIndex + 1)

TrackerFits(L, A, i, j) ==
    /\ repl[i] # 0 /\ Current(node[i], repl[i]) /\ i # j /\ tracker[i][j].next > 0 =>
          StartsAt(L, repl[i], node[j], tracker[i][j].next)
    /\ tracker[i][j].match > 0 =>
          /\ Holds(L[repl[i]], repl[i], tracker[i][j].match + 1)
          /\ Recorded(L, A, repl[i], j, tracker[i][j].match + 1)

AnswerFits(L, A, a) ==
    LET u == a.req.term IN
    /\ a.term = u => StartsAt(L, u, node[a.req.target], NextIndex(a.req.prevIndex + 1, a))
    /\ a.outcome /\ lastEntryTerm(a.req) = u =>
          /\ Holds(L[u], u, a.logSize)
          /\ Recorded(L, A, u, a.req.target, a.logSize)

SendInv(L, A) ==
    /\ \A m \in appReqs : RequestFits(L, m)
    /\ \A i, j \in Server : TrackerFits(L, A, i, j)
    /\ \A a \in acks : AnswerFits(L, A, a)
=============================================================================
