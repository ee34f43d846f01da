------------------------- MODULE QuarkSafetyProofs -------------------------
(***************************************************************************)
(* What is committed stays and is the same everywhere, the trackers of a   *)
(* leader can be relied on, and no handler throws.  The record of          *)
(* QuarkLedger is carried through every step; a choice that a quorum has   *)
(* acknowledged is then in the log of every later leader.                  *)
(***************************************************************************)
EXTENDS QuarkChoiceProofs

-----------------------------------------------------------------------------
(* Commitment *)

LEMMA ChosenMore ==
    ASSUME NEW A, NEW B, A \subseteq B, NEW t, NEW k, Chosen(A, t, k)
    PROVE  Chosen(B, t, k)
BY DEF Chosen

LEMMA RequestCoveredMore ==
    ASSUME NEW A, NEW B, A \subseteq B, NEW m, RequestCovered(A, m)
    PROVE  RequestCovered(B, m)
BY ChosenMore DEF RequestCovered, Covered

LEMMA CoveredKeeps ==
    ASSUME TypeInv, TypeInv', VotesFaithful, NodesKeep, NEW L, NEW M, LedgerType(L), LedgerType(M), Grow(L, M),
           NEW A, NEW B, A \subseteq B, AcksHeld(L, A), NEW i \in Server, NodeCovered(L, A, node[i]),
           node'[i].commitIndex = node[i].commitIndex
    PROVE  NodeCovered(M, B, node'[i])
<1> DEFINE n == node[i]
           o == node'[i]
           c == node[i].commitIndex
<1>1. c \in Nat /\ n.term \in Nat /\ o.term \in Nat /\ n.term <= o.term
  BY DEF TypeInv, TypeOK, Node, Term, VotesFaithful, Faithful
<1>2. CASE c = 0
  BY <1>2 DEF NodeCovered
<1>3. CASE c # 0
  <2>1. PICK t \in Nat, k \in Nat : Covered(A, c, n.term, t, k) /\ Agree(n.log, L[t], c + 1)
    BY <1>3 DEF NodeCovered
  <2>2. t <= n.term /\ k > c /\ Chosen(A, t, k)
    BY <2>1 DEF Covered
  <2>3. k \in 1..Len(L[t]) /\ Len(L[t]) \in Nat
    BY <2>2, ChosenHeld, LedgerLen DEF Holds
  <2>4. \A x \in 1..(c + 1) : o.log[x] = n.log[x]
    BY DEF NodesKeep, Keeps
  <2>5. Agree(L[t], M[t], Len(L[t]))
    BY DEF Grow
  <2>6. Agree(o.log, M[t], c + 1)
    <3> SUFFICES ASSUME NEW x \in 1..(c + 1) PROVE o.log[x] = M[t][x]
      BY DEF Agree
    <3>1. o.log[x] = n.log[x]
      BY <2>4
    <3>2. n.log[x] = L[t][x]
      BY <2>1 DEF Agree
    <3>3. x \in 1..Len(L[t])
      BY <1>1, <2>2, <2>3
    <3>4. L[t][x] = M[t][x]
      BY <2>5, <3>3 DEF Agree
    <3> QED BY <3>1, <3>2, <3>4
  <2>7. Covered(B, c, o.term, t, k)
    BY <1>1, <2>2, ChosenMore DEF Covered
  <2> QED BY <2>6, <2>7 DEF NodeCovered
<1> QED
  BY <1>2, <1>3

\* Nothing is committed, and nothing new is sent.
LEMMA CommitQuiet ==
    ASSUME TypeInv, TypeInv', VotesFaithful, NodesKeep, NEW L, NEW M, LedgerType(L), LedgerType(M), Grow(L, M),
           NEW A, NEW B, A \subseteq B, AcksHeld(L, A), CommitInv(L, A), appReqs' \subseteq appReqs,
           \A i \in Server : node'[i].commitIndex = node[i].commitIndex
    PROVE  CommitInv(M, B)'
<1>1. ASSUME NEW i \in Server PROVE NodeCovered(M, B, node'[i])
  BY CoveredKeeps DEF CommitInv
<1>2. ASSUME NEW m \in appReqs' PROVE RequestCovered(B, m)
  BY RequestCoveredMore DEF CommitInv
<1> QED
  BY <1>1, <1>2 DEF CommitInv

LEMMA CommitSend ==
    ASSUME TypeInv, TypeInv', VotesFaithful, NodesKeep, NEW L, LogInv(L), NEW A, AcksHeld(L, A), CommitInv(L, A),
           "send" \notin Windows, NEW i \in Server, NEW j \in Server, NEW limit \in PayloadLimits,
           SendPayload(i, j, limit)
    PROVE  CommitInv(L, A)'
<1>1. PICK m : m = Sent(i, j, limit)
  OBVIOUS
<1>2. /\ node' = node /\ appReqs' = appReqs \cup {m} /\ m.term = repl[i] /\ m.commitIndex = node[i].commitIndex
      /\ Current(node[i], repl[i])
  BY <1>1 DEF SendPayload, Sent, CanSend
<1>3. RequestCovered(A, m)
  BY <1>2 DEF CommitInv, NodeCovered, RequestCovered, Covered, Current
<1> QED
  BY <1>2, <1>3 DEF CommitInv

LEMMA CommitTook ==
    ASSUME TypeInv, TypeInv', VotesFaithful, NodesKeep, NEW L, LogInv(L), NEW A, AcksHeld(L, A), Complete(L, A),
           CommitInv(L, A), SendInv(L, A), NEW m \in appReqs, AppendEntries(m), Took(L, m),
           NEW B, A \subseteq B
    PROVE  CommitInv(L, B)'
<1> DEFINE j == m.target
           n == node[j]
           o == node'[j]
           T == m.term
<1>1. /\ m \in AppReq /\ j \in Server /\ appReqs' \subseteq appReqs
      /\ \A i \in Server \ {j} : node'[i] = node[i]
  BY AppendFrame
<1>2. LedgerType(L) /\ Grow(L, L) /\ Leaders(L)
  BY LogLeaders, ItselfGrows DEF Leaders
<1>3. ASSUME NEW i \in Server, node'[i].commitIndex = node[i].commitIndex
      PROVE  NodeCovered(L, B, node'[i])
  BY <1>2, <1>3, CoveredKeeps DEF CommitInv
<1>4. ASSUME o.commitIndex # n.commitIndex
      PROVE  NodeCovered(L, B, o)
  <2> DEFINE last == Len(o.log) - 1
             d == IF last < m.commitIndex THEN last ELSE m.commitIndex
  <2>0. /\ n.commitIndex \in Nat /\ m.commitIndex \in Nat /\ T \in Nat
        /\ o.log \in Seq(Entry) /\ Len(o.log) \in Nat /\ Len(o.log) > 0
    <3>1. n.commitIndex \in Nat
      BY <1>1 DEF TypeInv, TypeOK, Node
    <3>2. m.commitIndex \in Nat /\ T \in Nat
      BY <1>1 DEF AppReq, Term
    <3>3. o.log \in Seq(Entry) /\ Len(o.log) \in Nat /\ Len(o.log) > 0
      BY <1>1 DEF TypeInv, TypeOK, Node
    <3> QED BY <3>1, <3>2, <3>3
  <2>1. o.commitIndex = d /\ n.commitIndex < d
    BY <1>4 DEF Took, Advanced
  <2>2. d \in Nat /\ d > 0 /\ d <= m.commitIndex /\ d + 1 <= Len(o.log) /\ m.commitIndex # 0
    <3> HIDE DEF n, o, j, T
    <3> QED BY <2>0, <2>1
  <2> HIDE DEF d
  <2>3. PICK t \in Nat, k \in Nat : Covered(A, m.commitIndex, T, t, k)
    BY <2>2 DEF CommitInv, RequestCovered
  <2>4. t <= T /\ k > m.commitIndex /\ Chosen(A, t, k)
    BY <2>3 DEF Covered
  <2>5. Len(o.log) <= Len(L[T]) /\ Agree(o.log, L[T], Len(o.log))
    <3>1. Aligned(L, T, o)
      BY <1>1, AlignedAfter DEF SendInv
    <3> QED BY <3>1 DEF Aligned
  <2>6. Len(L[T]) > 0
    BY <1>2, <2>0, <2>5, LeaderLog
  <2>7. Agree(L[t], L[T], k)
    BY <1>2, <2>0, <2>4, <2>6, ChosenAgree
  <2>8. Agree(o.log, L[t], d + 1)
    <3> SUFFICES ASSUME NEW x \in 1..(d + 1) PROVE o.log[x] = L[t][x]
      BY DEF Agree
    <3>1. x \in 1..Len(o.log) /\ x \in 1..k
      BY <2>0, <2>2, <2>4
    <3> QED BY <2>5, <2>7, <3>1 DEF Agree
  <2>9. Covered(B, d, o.term, t, k)
    <3>1. o.term = T
      BY DEF Took
    <3>2. k > d
      BY <2>0, <2>2, <2>4
    <3> QED BY <2>4, <3>1, <3>2, ChosenMore DEF Covered
  <2> QED BY <2>1, <2>8, <2>9 DEF NodeCovered
<1>5. ASSUME NEW i \in Server PROVE NodeCovered(L, B, node'[i])
  BY <1>1, <1>3, <1>4
<1>6. ASSUME NEW x \in appReqs' PROVE RequestCovered(B, x)
  BY <1>1, RequestCoveredMore DEF CommitInv
<1> QED
  BY <1>5, <1>6 DEF CommitInv

\* What is acknowledged and chosen is still there.
LEMMA ChosenKept ==
    ASSUME TypeInv, NEW L, LogInv(L), NEW A, AcksHeld(L, A), Complete(L, A), NEW t \in Nat, NEW k \in Nat,
           Chosen(A, t, k), NEW i \in Server, <<i, t, k>> \in A
    PROVE  Holds(node[i].log, t, k) /\ t <= node[i].term /\ Agree(node[i].log, L[t], k)
<1>1. /\ t <= node[i].term
      /\ \/ Holds(node[i].log, t, k)
         \/ \E u \in Nat : t < u /\ MayHaveFollowed(node[i], u) /\ Missing(L, t, k, u)
  BY DEF AcksHeld
<1>2. ASSUME NEW u \in Nat, t < u PROVE ~ Missing(L, t, k, u)
  BY <1>2 DEF Complete, Missing
<1>3. Holds(node[i].log, t, k)
  BY <1>1, <1>2
<1>4. LedgerType(L) /\ node[i].log \in Seq(Entry) /\ Backed(L, node[i].log)
  BY LogLeaders DEF Leaders, LogInv, LogOfTerm, GoodLog, TypeInv, TypeOK, Node
<1> QED
  BY <1>1, <1>3, <1>4, HoldsBacked

\* A target counts for the entries up to its match index.
LEMMA MatchRecorded ==
    ASSUME TypeInv, AwaitInv, NEW L, NEW A, SendInv(L, A), NEW a \in acks,
           NEW j \in Server \ {a.req.leader}, MatchAfter(a.req.leader, a)[j] > 0
    PROVE  LET T == repl[a.req.leader]
               k == MatchAfter(a.req.leader, a)[j] + 1 IN
           Holds(L[T], T, k) /\ Recorded(L, A, T, j, k)
<1> DEFINE i == a.req.leader
           T == repl[i]
<1>1. a \in Ack /\ i \in Server /\ a.req.target \in Server /\ a.logSize \in Nat
  <2>1. a \in Ack /\ a.req \in AppReq
    BY DEF TypeInv, TypeOK, Ack
  <2> QED BY <2>1 DEF Ack, AppReq
<1>2. a.req \in tracker[i][a.req.target].inflight
  BY DEF AwaitInv
<1>3. a.req.term = T
  BY <1>1, <1>2 DEF AwaitInv
<1>4. MatchAfter(i, a)[j] = IF j = a.req.target /\ a.outcome /\ lastEntryTerm(a.req) = a.req.term
                            THEN a.logSize - 1 ELSE tracker[i][j].match
  BY DEF MatchAfter
<1>5. CASE j = a.req.target /\ a.outcome /\ lastEntryTerm(a.req) = a.req.term
  <2>1. MatchAfter(i, a)[j] + 1 = a.logSize
    BY <1>1, <1>4, <1>5
  <2>2. AnswerFits(L, A, a)
    BY DEF SendInv
  <2> QED BY <1>3, <1>5, <2>1, <2>2 DEF AnswerFits
<1>6. CASE ~ (j = a.req.target /\ a.outcome /\ lastEntryTerm(a.req) = a.req.term)
  <2>1. MatchAfter(i, a)[j] = tracker[i][j].match
    BY <1>4, <1>6
  <2>2. TrackerFits(L, A, i, j)
    BY <1>1 DEF SendInv
  <2> QED BY <2>1, <2>2 DEF TrackerFits
<1> QED
  BY <1>5, <1>6

\* RaftCommitTracker: the index a leader commits is one a quorum has acknowledged.
LEMMA AckChosen ==
    ASSUME TypeInv, LeaderInv, AwaitInv, NEW L, LogInv(L), NEW A, AckInv(L, A), Complete(L, A), SendInv(L, A),
           NEW a \in acks, NEW c, c = CommitAfter(a.req.leader, a), c > 0
    PROVE  LET i == a.req.leader
               T == repl[i] IN
           /\ c \in Nat /\ T \in Nat /\ Chosen(A, T, c + 1) /\ T <= node[i].term
           /\ Agree(node[i].log, L[T], c + 1) /\ c < Len(node[i].log)
<1> DEFINE i == a.req.leader
           T == repl[i]
           match == MatchAfter(i, a)
           Q == {j \in DOMAIN match : match[j] >= c}
<1>1. /\ i \in Server /\ a.req.target \in Server \ {i} /\ T \in Nat
      /\ match \in [Server \ {i} -> Nat] /\ c \in Nat
  <2>1. a \in Ack /\ a.req \in AppReq /\ a.req.leader # a.req.target
    BY DEF TypeInv, TypeOK, Ack
  <2>2. i \in Server /\ a.req.target \in Server \ {i}
    BY <2>1 DEF AppReq
  <2> QED BY <2>2, CommitAfterType DEF TypeInv, TypeOK, Term
<1>2. c = CommitCandidate(match)
  BY DEF CommitAfter
<1> HIDE DEF match
<1>3. c \in Reached(match)
  BY <1>1, <1>2, CommitCandidateType
<1>4. /\ \E j \in Server \ {i} : match[j] = c
      /\ Cardinality(Q) + 1 >= quorumSize /\ Q \subseteq Server \ {i}
  BY <1>1, <1>3 DEF Reached
<1>5. T # 0
  <2>1. a.req \in tracker[i][a.req.target].inflight
    BY DEF AwaitInv
  <2> QED BY <1>1, <2>1 DEF AwaitInv
<1>6. \A j \in Server \ {i} : match[j] > 0 =>
          Holds(L[T], T, match[j] + 1) /\ Recorded(L, A, T, j, match[j] + 1)
  BY MatchRecorded DEF match
<1>7. Holds(L[T], T, c + 1)
  BY <1>4, <1>6
<1>8. ASSUME NEW j \in Q PROVE <<j, T, c + 1>> \in A
  <2>1. j \in Server \ {i} /\ match[j] \in Nat /\ match[j] >= c /\ match[j] > 0
    BY <1>1, <1>4
  <2>2. Recorded(L, A, T, j, match[j] + 1) /\ c + 1 \in 1..(match[j] + 1)
    BY <1>1, <1>6, <2>1
  <2> QED BY <1>7, <2>2 DEF Recorded
<1>9. <<i, T, c + 1>> \in A
  <2>1. <<i, T>> \in elected
    BY <1>1, <1>5 DEF LeaderInv
  <2>2. c + 1 \in Nat
    BY <1>1
  <2>3. <<i, T>>[1] = i /\ <<i, T>>[2] = T
    OBVIOUS
  <2>4. Holds(L[<<i, T>>[2]], <<i, T>>[2], c + 1) => <<<<i, T>>[1], <<i, T>>[2], c + 1>> \in A
    BY <2>1, <2>2 DEF AckInv, LeadersAcked
  <2> QED BY <1>7, <2>3, <2>4
<1>10. Chosen(A, T, c + 1)
  <2> DEFINE P == Q \cup {i}
  <2>1. IsFiniteSet(Q) /\ i \notin Q
    BY <1>4, ServerAssumption, FS_Subset
  <2>2. Cardinality(P) = Cardinality(Q) + 1
    BY <2>1, FS_AddElement
  <2>3. P \in SUBSET Server /\ \A j \in P : <<j, T, c + 1>> \in A
    BY <1>1, <1>4, <1>8, <1>9
  <2> HIDE DEF P
  <2>4. Cardinality(P) >= quorumSize
    BY <1>4, <2>2
  <2> QED BY <2>3, <2>4 DEF Chosen
<1>11. c + 1 \in Nat
  BY <1>1
<1>12. Holds(node[i].log, T, c + 1) /\ T <= node[i].term /\ Agree(node[i].log, L[T], c + 1)
  BY <1>1, <1>9, <1>10, <1>11, ChosenKept DEF AckInv
<1>13. c < Len(node[i].log)
  <2>1. Len(node[i].log) \in Nat
    BY <1>1 DEF TypeInv, TypeOK, Node
  <2> QED BY <1>1, <1>12, <2>1 DEF Holds
<1> QED
  BY <1>1, <1>10, <1>12, <1>13

LEMMA CommitAck ==
    ASSUME TypeInv, TypeInv', VotesFaithful, NodesKeep, LeaderInv, AwaitInv, NEW L, LogInv(L),
           NEW A, AckInv(L, A), Complete(L, A), CommitInv(L, A), SendInv(L, A), NEW a \in acks, HandleAck(a)
    PROVE  CommitInv(L, A)'
<1> DEFINE i == a.req.leader
           n == observed(node[i], a.term, Nobody)
           c == CommitAfter(i, a)
<1>1. i \in Server /\ a.term \in Nat
  <2>1. a \in Ack /\ a.req \in AppReq
    BY DEF TypeInv, TypeOK, Ack
  <2> QED BY <2>1 DEF Ack, AppReq, Term
<1>2. /\ appReqs' = appReqs /\ \A j \in Server : j # i => node'[j] = node[j]
      /\ node'[i].log = node[i].log
  BY <1>1, AckCalm DEF HandleAck, Calm
<1>3. LedgerType(L) /\ Grow(L, L) /\ AcksHeld(L, A)
  BY LogLeaders, ItselfGrows DEF Leaders, AckInv
<1>4. ASSUME NEW j \in Server, node'[j].commitIndex = node[j].commitIndex
      PROVE  NodeCovered(L, A, node'[j])
  BY <1>3, <1>4, CoveredKeeps DEF CommitInv
<1>5. ASSUME node'[i].commitIndex # node[i].commitIndex
      PROVE  NodeCovered(L, A, node'[i])
  <2>0. /\ NodeOK(node[i]) /\ node[i].commitIndex \in Nat /\ node[i].term \in Nat
        /\ node'[i].term \in Nat /\ node[i].term <= node'[i].term /\ c \in Nat
    <3>1. NodeOK(node[i]) /\ node[i].commitIndex \in Nat /\ node[i].term \in Nat
      BY <1>1 DEF TypeInv, TypeOK, NodeOK, Node, Term
    <3>2. node'[i].term \in Nat
      BY <1>1 DEF TypeInv, TypeOK, Node, Term
    <3>3. node[i].term <= node'[i].term
      BY <1>1, <3>1, <3>2 DEF VotesFaithful, Faithful
    <3> QED BY <3>1, <3>2, <3>3, CommitAfterType
  <2>1. NodeOK(n) /\ n.commitIndex = node[i].commitIndex
    <3>1. a.term \in Term /\ Nobody \in Server \cup {Nobody} /\ NodeOK(node[i])
      BY <1>1, <2>0 DEF Term
    <3> HIDE DEF i
    <3> QED BY <3>1, ObservedType
  <2>2. node'[i] = IF a.term > repl[i] THEN n ELSE setCommitIndex(n, c)
    BY <1>1 DEF HandleAck, TypeInv, TypeOK
  <2> HIDE DEF n
  <2>3. node'[i] = setCommitIndex(n, c)
    BY <1>5, <2>1, <2>2
  <2>4. node'[i].commitIndex = IF n.commitIndex < c THEN c ELSE n.commitIndex
    BY <2>1, <2>3 DEF setCommitIndex, NodeOK, Node
  <2>5. node'[i].commitIndex = c /\ c > 0
    BY <1>5, <2>0, <2>1, <2>4
  <2>6. /\ repl[i] \in Nat /\ Chosen(A, repl[i], c + 1) /\ repl[i] <= node[i].term
        /\ Agree(node[i].log, L[repl[i]], c + 1)
    BY <2>5, AckChosen
  <2> HIDE DEF c, i
  <2>7. Covered(A, c, node'[i].term, repl[i], c + 1)
    BY <2>0, <2>6 DEF Covered
  <2>8. Agree(node'[i].log, L[repl[i]], c + 1)
    BY <1>2, <2>6
  <2>9. c + 1 \in Nat
    BY <2>0
  <2> QED BY <2>5, <2>6, <2>7, <2>8, <2>9 DEF NodeCovered
<1>6. ASSUME NEW j \in Server PROVE NodeCovered(L, A, node'[j])
  BY <1>2, <1>4, <1>5
<1> QED
  BY <1>2, <1>6 DEF CommitInv

-----------------------------------------------------------------------------
(* What the record says about the present state *)

LEMMA CommittedAgreement ==
    ASSUME TypeInv, NEW L, LogInv(L), NEW A, AcksHeld(L, A), Complete(L, A), CommitInv(L, A)
    PROVE  StateMachineSafety
<1>1. Leaders(L)
  BY LogLeaders
<1>2. ASSUME NEW i \in Server, NEW j \in Server,
             NEW t \in Nat, NEW k \in Nat, Covered(A, node[i].commitIndex, node[i].term, t, k),
             Agree(node[i].log, L[t], node[i].commitIndex + 1),
             NEW u \in Nat, NEW l \in Nat, Covered(A, node[j].commitIndex, node[j].term, u, l),
             Agree(node[j].log, L[u], node[j].commitIndex + 1), t <= u,
             NEW x \in Nat, x >= 1, x <= node[i].commitIndex + 1, x <= node[j].commitIndex + 1
      PROVE  node[i].log[x] = node[j].log[x]
  <2>1. node[i].commitIndex \in Nat /\ node[j].commitIndex \in Nat
    BY DEF TypeInv, TypeOK, Node
  <2>2. Chosen(A, t, k) /\ Chosen(A, u, l) /\ k > node[i].commitIndex
    BY <1>2 DEF Covered
  <2>3. Len(L[u]) > 0
    <3>1. Holds(L[u], u, l) /\ Len(L[u]) \in Nat
      BY <1>1, <2>2, ChosenHeld, LeaderLog
    <3> QED BY <3>1 DEF Holds
  <2>4. Agree(L[t], L[u], k)
    BY <1>1, <1>2, <2>2, <2>3, ChosenAgree
  <2>5. x \in 1..(node[i].commitIndex + 1) /\ x \in 1..(node[j].commitIndex + 1) /\ x \in 1..k
    BY <1>2, <2>1, <2>2
  <2> QED BY <1>2, <2>4, <2>5 DEF Agree
<1>3. ASSUME NEW i \in Server, NEW j \in Server, NEW x \in 1..(node[i].commitIndex + 1),
             x <= node[j].commitIndex + 1
      PROVE  node[i].log[x] = node[j].log[x]
  <2>0. node[i].commitIndex \in Nat /\ node[j].commitIndex \in Nat
    BY DEF TypeInv, TypeOK, Node
  <2>1. x \in Nat /\ x >= 1 /\ x <= node[i].commitIndex + 1
    BY <2>0
  <2>2. CASE node[i].commitIndex = 0 \/ node[j].commitIndex = 0
    <3>1. x = 1
      BY <1>3, <2>0, <2>1, <2>2
    <3>2. ASSUME NEW v \in Server PROVE node[v].log[1] = FirstEntry
      <4>1. Len(node[v].log) > 0
        BY DEF TypeInv, TypeOK, Node
      <4> QED BY <4>1 DEF LogInv, LogOfTerm, GoodLog
    <3> QED BY <3>1, <3>2
  <2>3. CASE node[i].commitIndex # 0 /\ node[j].commitIndex # 0
    <3>1. PICK t \in Nat, k \in Nat : /\ Covered(A, node[i].commitIndex, node[i].term, t, k)
                                      /\ Agree(node[i].log, L[t], node[i].commitIndex + 1)
      BY <2>3 DEF CommitInv, NodeCovered
    <3>2. PICK u \in Nat, l \in Nat : /\ Covered(A, node[j].commitIndex, node[j].term, u, l)
                                      /\ Agree(node[j].log, L[u], node[j].commitIndex + 1)
      BY <2>3 DEF CommitInv, NodeCovered
    <3>3. CASE t <= u
      BY <1>2, <1>3, <2>1, <3>1, <3>2, <3>3
    <3>4. CASE u <= t
      BY <1>2, <1>3, <2>1, <3>1, <3>2, <3>4
    <3> QED BY <3>3, <3>4
  <2> QED BY <2>2, <2>3
<1> QED
  BY <1>3 DEF StateMachineSafety

LEMMA TrackersReliable ==
    ASSUME TypeInv, AwaitInv, LeaderInv, NEW L, LogInv(L), NEW A, AcksHeld(L, A), SendInv(L, A)
    PROVE  TrackersSound
<1>1. ASSUME NEW i \in Server, NEW j \in Server, repl[i] # 0, Current(node[i], repl[i])
      PROVE  tracker[i][j].next <= LogSize(node[i])
  <2>1. L[repl[i]] = node[i].log
    BY <1>1 DEF Current, LogInv
  <2>2. Len(node[i].log) \in Nat /\ tracker[i][j].next \in Nat \cup {-1}
    <3>1. Len(node[i].log) \in Nat
      BY DEF TypeInv, TypeOK, Node
    <3>2. tracker[i][j] \in Tracker
      BY DEF TypeInv, TypeOK
    <3> QED BY <3>1, <3>2 DEF Tracker
  <2>3. CASE tracker[i][j].next <= 0
    BY <2>2, <2>3 DEF LogSize
  <2>4. CASE tracker[i][j].next > 0
    <3>1. i # j
      <4>1. tracker[i][i].next <= 0
        BY DEF AwaitInv
      <4> QED BY <2>2, <2>4, <4>1
    <3>2. TrackerFits(L, A, i, j)
      BY DEF SendInv
    <3>3. StartsAt(L, repl[i], node[j], tracker[i][j].next)
      BY <1>1, <2>4, <3>1, <3>2 DEF TrackerFits
    <3>4. tracker[i][j].next \in 1..Len(L[repl[i]])
      BY <3>3 DEF StartsAt
    <3> QED BY <2>1, <2>2, <3>4 DEF LogSize
  <2> QED BY <2>2, <2>3, <2>4
<1>2. ASSUME NEW i \in Server, NEW j \in Server \ {i}, Current(node[i], repl[i]), node[j].term = repl[i],
             tracker[i][j].match > 0
      PROVE  /\ tracker[i][j].match < LogSize(node[j])
             /\ SubSeq(node[j].log, 1, tracker[i][j].match + 1)
                  = SubSeq(node[i].log, 1, tracker[i][j].match + 1)
  <2> DEFINE T == repl[i]
             k == tracker[i][j].match + 1
  <2>0. /\ T \in Nat /\ k \in Nat /\ k >= 1 /\ tracker[i][j].match = k - 1 /\ L[T] = node[i].log
        /\ node[i].log \in Seq(Entry) /\ node[j].log \in Seq(Entry)
        /\ Len(node[i].log) \in Nat /\ Len(node[j].log) \in Nat
    <3>1. tracker[i][j] \in Tracker /\ T \in Nat
      BY DEF TypeInv, TypeOK, Term
    <3>2. k \in Nat /\ k >= 1 /\ tracker[i][j].match = k - 1
      BY <3>1 DEF Tracker
    <3>3. L[T] = node[i].log
      BY <1>2 DEF Current, LogInv
    <3>4. node[i].log \in Seq(Entry) /\ node[j].log \in Seq(Entry)
      BY DEF TypeInv, TypeOK, Node
    <3> HIDE DEF k, T
    <3> QED BY <3>1, <3>2, <3>3, <3>4
  <2>1. Holds(L[T], T, k) /\ Recorded(L, A, T, j, k)
    BY <1>2 DEF SendInv, TrackerFits
  <2> HIDE DEF k
  <2>2. <<j, T, k>> \in A
    <3>1. k \in 1..k
      BY <2>0
    <3> QED BY <2>1, <3>1 DEF Recorded
  <2>3. Holds(node[j].log, T, k)
    <3>1. \/ Holds(node[j].log, T, k)
          \/ \E u \in Nat : T < u /\ MayHaveFollowed(node[j], u) /\ Missing(L, T, k, u)
      BY <2>0, <2>2 DEF AcksHeld
    <3>2. ASSUME NEW u \in Nat, T < u PROVE ~ MayHaveFollowed(node[j], u)
      BY <1>2, <2>0, <3>2 DEF MayHaveFollowed
    <3> QED BY <3>1, <3>2
  <2>4. LedgerType(L) /\ Backed(L, node[j].log)
    BY LogLeaders DEF Leaders, LogInv, LogOfTerm, GoodLog
  <2>5. k <= Len(node[j].log) /\ k <= Len(L[T]) /\ Agree(node[j].log, L[T], k)
    BY <2>0, <2>3, <2>4, HoldsBacked
  <2>6. SubSeq(node[j].log, 1, k) = SubSeq(node[i].log, 1, k)
    BY <2>0, <2>5, SamePrefix
  <2>7. tracker[i][j].match < LogSize(node[j])
    BY <2>0, <2>5 DEF LogSize
  <2> QED BY <2>6, <2>7 DEF k
<1> QED
  BY <1>1, <1>2 DEF TrackersSound, NextIndexInLog, MatchIndexSound

\* RaftDispatcher::heartbeat and appendEntries: a leader of the term that a node is
\* in is the one the node knows.
LEMMA OneLeaderKnown ==
    ASSUME TypeInv, ElectionSafety, LeaderInv, NEW j \in Server, NEW leader \in Server, NEW term \in Nat,
           <<leader, term>> \in elected
    PROVE  ~ HeartbeatCrashes(node[j], term, leader)
<1> DEFINE n == node[j]
           o == observed(n, term, leader)
<1>1. NodeOK(n) /\ n.term \in Nat /\ n.leader \in Server \cup {Nobody}
  BY DEF TypeInv, TypeOK, NodeOK, Node, Term
<1> SUFFICES ASSUME o.term = term, o.leader # leader PROVE FALSE
  BY DEF HeartbeatCrashes
<1>2. o = n \/ o.leader = leader
  BY <1>1, ObservedLeader
<1>3. n.term = term /\ n.leader # leader
  BY <1>2
<1>4. CASE n.leader = Nobody
  <2>1. ~ (term > n.term) /\ term = n.term
    BY <1>1, <1>3
  <2>2. o = IF leader # Nobody /\ n.votedFor = Nobody
            THEN updateJournal([n EXCEPT !.leader = leader, !.votedFor = Blocked])
            ELSE [n EXCEPT !.leader = leader]
    BY <1>4, <2>1 DEF observed
  <2>3. o.leader = leader
    BY <1>1, <2>2 DEF updateJournal, NodeOK, Node
  <2> QED BY <2>3
<1>5. CASE n.leader # Nobody
  <2>1. <<n.leader, n.term>> \in elected
    BY <1>5 DEF LeaderInv
  <2>2. <<n.leader, n.term>>[2] = <<leader, term>>[2]
    BY <1>3
  <2>3. <<n.leader, n.term>>[1] = <<leader, term>>[1]
    BY <2>1, <2>2 DEF ElectionSafety
  <2> QED BY <1>3, <2>3
<1> QED
  BY <1>4, <1>5

\* RaftDispatcher::appendEntries: no request differs from what is committed here.
LEMMA NoOverwrite ==
    ASSUME TypeInv, NEW L, LogInv(L), NEW A, AcksHeld(L, A), Complete(L, A), CommitInv(L, A), SendInv(L, A),
           NEW m \in appReqs, m.term >= node[m.target].term
    PROVE  ~ AppendCrashes(node[m.target], m)
<1> DEFINE n == node[m.target]
           T == m.term
           start == m.prevIndex + 1
           first == compareEntries(n, start, m.entries)
           c == n.commitIndex
<1>1. m \in AppReq /\ m.target \in Server /\ m.prevIndex \in Nat /\ m.entries \in Seq(Entry) /\ T \in Nat
  BY DEF TypeInv, TypeOK, AppReq, Term
<1>2. n \in Node /\ c \in Nat /\ c < Len(n.log) /\ Len(n.log) \in Nat /\ n.term \in Nat
  <2>1. n \in Node /\ c < Len(n.log)
    BY <1>1 DEF TypeInv, TypeOK
  <2> HIDE DEF n
  <2> QED BY <2>1 DEF Node, Term
<1> SUFFICES ASSUME matchEntries(n, m.prevIndex, m.prevTerm),
                    first - start < Len(m.entries), first <= c
             PROVE  FALSE
  BY DEF AppendCrashes
<1>3. start \in Nat /\ start <= Len(n.log) /\ start >= 1 /\ start = m.prevIndex + 1 /\ Len(m.entries) \in Nat
  BY <1>1, <1>2 DEF matchEntries, LogSize
<1> HIDE DEF start
<1>4. /\ first \in start..Len(n.log)
      /\ \/ first = Len(n.log) \/ first = start + Len(m.entries)
         \/ n.log[first + 1] # m.entries[first - start + 1]
  BY <1>1, <1>2, <1>3, CompareEntriesRange
<1> HIDE DEF first, c, n, T
<1>5. /\ first \in Nat /\ first >= start /\ first + 1 <= c + 1 /\ first - start + 1 \in 1..Len(m.entries)
      /\ n.log[first + 1] # m.entries[first - start + 1] /\ c # 0
  BY <1>2, <1>3, <1>4, SMTT(30)
<1>6. PICK t \in Nat, k \in Nat : Covered(A, c, n.term, t, k) /\ Agree(n.log, L[t], c + 1)
  <2>1. NodeCovered(L, A, n)
    BY <1>1 DEF CommitInv, n
  <2> QED BY <1>5, <2>1 DEF NodeCovered, c
<1>7. t <= n.term /\ k > c /\ Chosen(A, t, k)
  BY <1>6 DEF Covered
<1>8. RequestFits(L, m)
  BY DEF SendInv
<1>9. start \in 1..Len(L[T]) /\ CutFrom(m, L[T])
  BY <1>8 DEF RequestFits, StartsAt, start, T
<1>10. Leaders(L) /\ Len(L[T]) \in Nat /\ Len(L[T]) > 0
  <2>1. Leaders(L)
    BY LogLeaders
  <2>2. Len(L[T]) \in Nat
    BY <1>1, <2>1, LeaderLog
  <2> QED BY <1>3, <1>9, <2>1, <2>2
<1>11. t <= T
  BY <1>1, <1>2, <1>7 DEF n, T
<1>12. Agree(L[t], L[T], k)
  BY <1>1, <1>7, <1>10, <1>11, ChosenAgree
<1>13. n.log[first + 1] = L[T][first + 1]
  <2>1. first + 1 \in 1..(c + 1) /\ first + 1 \in 1..k
    BY <1>2, <1>5, <1>7
  <2> QED BY <1>6, <1>12, <2>1 DEF Agree
<1>14. m.entries[first - start + 1] = L[T][first + 1]
  <2>1. m.entries[first - start + 1] = L[T][m.prevIndex + 1 + (first - start + 1)]
    BY <1>5, <1>9 DEF CutFrom
  <2>2. m.prevIndex + 1 + (first - start + 1) = first + 1
    BY <1>1, <1>3, <1>5
  <2> QED BY <2>1, <2>2
<1> QED
  BY <1>5, <1>13, <1>14

LEMMA NothingThrows ==
    ASSUME TypeInv, ElectionSafety, LeaderInv, AwaitInv, NEW L, LogInv(L), NEW A, AckInv(L, A), Complete(L, A),
           CommitInv(L, A), SendInv(L, A)
    PROVE  NoCrash
<1>1. ASSUME NEW m \in appReqs PROVE ~ RequestCrashes(m)
  <2>1. m \in AppReq /\ m.target \in Server /\ m.leader \in Server /\ m.term \in Nat
    BY DEF TypeInv, TypeOK, AppReq, Term
  <2>2. <<m.leader, m.term>> \in elected
    BY DEF LeaderInv
  <2>3. ~ HeartbeatCrashes(node[m.target], m.term, m.leader)
    BY <2>1, <2>2, OneLeaderKnown
  <2>4. m.term >= node[m.target].term => ~ AppendCrashes(node[m.target], m)
    BY NoOverwrite DEF AckInv
  <2> QED BY <2>3, <2>4 DEF RequestCrashes
<1>2. ASSUME NEW a \in acks PROVE ~ AckCrashes(a)
  <2>1. a.req.leader \in Server
    <3>1. a \in Ack /\ a.req \in AppReq
      BY DEF TypeInv, TypeOK, Ack
    <3> QED BY <3>1 DEF AppReq
  <2>2. PICK c : c = CommitAfter(a.req.leader, a)
    OBVIOUS
  <2>3. c \in Nat
    BY <2>2, CommitAfterType
  <2>4. LogSize(node[a.req.leader]) \in Nat /\ LogSize(node[a.req.leader]) > 0
    BY <2>1 DEF TypeInv, TypeOK, Node, LogSize
  <2>5. c > 0 => c < LogSize(node[a.req.leader])
    BY <2>2, AckChosen DEF LogSize
  <2>6. ~ (c >= LogSize(node[a.req.leader]))
    BY <2>3, <2>4, <2>5
  <2> QED BY <2>2, <2>6 DEF AckCrashes
<1>3. ASSUME NEW h \in heartbeats, NEW j \in Server \ {h[1]} PROVE ~ HeartbeatCrashes(node[j], h[2], h[1])
  <2>1. h[1] \in Server /\ h[2] \in Nat /\ h = <<h[1], h[2]>>
    BY DEF TypeInv, TypeOK, Term
  <2>2. <<h[1], h[2]>> \in elected
    BY <2>1 DEF LeaderInv
  <2> QED BY <2>1, <2>2, OneLeaderKnown
<1> QED
  BY <1>1, <1>2, <1>3 DEF NoCrash

-----------------------------------------------------------------------------
(* The record is carried through every step *)

Explains(L, A, G, K) ==
    /\ Ledger(G) /\ LogInv(L) /\ AckInv(L, A) /\ ClaimInv(L, A, G, K)
    /\ CommitInv(L, A) /\ SendInv(L, A)

Explained == \E L, A, G, K : Explains(L, A, G, K)

Grounded == TypeInv /\ VoteInv /\ ElectedInv /\ LeaderInv /\ AwaitInv

Moves == Grounded /\ Grounded' /\ VotesFaithful /\ NodesKeep

LEMMA MovesParts ==
    ASSUME Moves
    PROVE  /\ TypeInv /\ VoteInv /\ ElectedInv /\ LeaderInv /\ AwaitInv
           /\ TypeInv' /\ VoteInv' /\ ElectedInv' /\ LeaderInv' /\ AwaitInv'
           /\ VotesFaithful /\ NodesKeep
BY DEF Moves, Grounded

LEMMA ExplainsSafe ==
    ASSUME TypeInv, NEW L, NEW A, NEW G, NEW K, Explains(L, A, G, K)
    PROVE  /\ Ledger(G) /\ LogInv(L) /\ AckInv(L, A) /\ ClaimInv(L, A, G, K)
           /\ CommitInv(L, A) /\ SendInv(L, A) /\ Complete(L, A) /\ AcksHeld(L, A) /\ ElectionSafety
           /\ LedgerType(L) /\ Grow(L, L)
<1>1. /\ Ledger(G) /\ LogInv(L) /\ AckInv(L, A) /\ ClaimInv(L, A, G, K)
      /\ CommitInv(L, A) /\ SendInv(L, A)
  BY DEF Explains
<1>2. Complete(L, A)
  BY <1>1, Completeness
<1>3. ElectionSafety
  BY <1>1, ElectionSafe DEF ElectionInv
<1>4. LedgerType(L) /\ Grow(L, L)
  BY <1>1, LogLeaders, ItselfGrows DEF Leaders
<1> QED
  BY <1>1, <1>2, <1>3, <1>4 DEF AckInv

\* Logs and commit indexes stay, nobody comes to lead, nothing is sent.
LEMMA StillParts ==
    ASSUME Moves, NEW L, NEW A, NEW G, NEW K, Explains(L, A, G, K), Still, appReqs' \subseteq appReqs
    PROVE  LogInv(L)' /\ AckInv(L, A)' /\ CommitInv(L, A)'
<1>1. /\ TypeInv /\ TypeInv' /\ VotesFaithful /\ NodesKeep
  BY MovesParts
<1>2. /\ LogInv(L) /\ AckInv(L, A) /\ CommitInv(L, A) /\ AcksHeld(L, A) /\ LedgerType(L) /\ Grow(L, L)
  BY <1>1, ExplainsSafe
<1>3. LogInv(L)'
  BY <1>1, <1>2, LogStill
<1>4. AckInv(L, A)'
  BY <1>1, <1>2, AckQuiet DEF Still, Calm
<1>5. CommitInv(L, A)'
  BY <1>1, <1>2, CommitQuiet DEF Still
<1> QED
  BY <1>3, <1>4, <1>5

LEMMA StillSends ==
    ASSUME Moves, NEW L, NEW A, NEW G, NEW K, Explains(L, A, G, K), Still, Unsent
    PROVE  SendInv(L, A)'
<1>1. /\ TypeInv /\ TypeInv' /\ VotesFaithful
  BY MovesParts
<1>2. LogInv(L) /\ SendInv(L, A)
  BY DEF Explains
<1> QED
  BY <1>1, <1>2, SendQuiet DEF Still, Calm

LEMMA ExplainQuiet ==
    ASSUME Moves, NEW L, NEW A, NEW G, NEW K, Explains(L, A, G, K), Still, appReqs' \subseteq appReqs,
           SendInv(L, A)', Ledger(G)', voteReqs' \subseteq voteReqs, \A i \in Server : DirectorKeeps(i)
    PROVE  Explains(L, A, G, K)'
<1>1. /\ TypeInv /\ TypeInv' /\ VotesFaithful
  BY MovesParts
<1>2. LogInv(L) /\ ClaimInv(L, A, G, K)
  BY DEF Explains
<1>3. LogInv(L)' /\ AckInv(L, A)' /\ CommitInv(L, A)'
  BY StillParts
<1>4. ClaimInv(L, A, G, K)'
  BY <1>1, <1>2, <1>3, ClaimQuiet DEF Still, Calm
<1> QED
  BY <1>3, <1>4 DEF Explains

LEMMA ExplainLeads ==
    ASSUME Moves, NEW L, NEW A, NEW G, NEW K, Explains(L, A, G, K), NEW i \in Server, Wins(i) \/ Writes(i),
           Unsent, appReqs' = appReqs, Ledger(G)', voteReqs' \subseteq voteReqs,
           \A j \in Server : DirectorKeeps(j)
    PROVE  \E M, B : Explains(M, B, G, K)'
<1> DEFINE T == node[i].term
<1>1. /\ TypeInv /\ TypeInv' /\ VotesFaithful /\ NodesKeep /\ ElectedInv /\ ElectedInv' /\ LeaderInv
  BY MovesParts
<1>2. /\ LogInv(L) /\ AckInv(L, A) /\ CommitInv(L, A) /\ AcksHeld(L, A) /\ LedgerType(L)
      /\ Ledger(G) /\ ClaimInv(L, A, G, K) /\ SendInv(L, A) /\ ElectionSafety
  BY <1>1, ExplainsSafe
<1>3. ElectionSafety'
  <2>1. ElectionInv'
    BY DEF ElectionInv
  <2> QED BY <1>1, <2>1, SafeNext
<1>4. PICK M : Records(L, M, T, node'[i].log)
  BY DEF Records
<1>5. PICK B : Appends(A, B, i)
  BY DEF Appends
<1>6. /\ LogInv(M)' /\ LeadsOn(L, M, i, T)
      /\ elected' = elected \/ (Wins(i) /\ L[T] = <<>>)
      /\ (\A e \in elected : e[2] # T) \/ node[i].status = "LEADER"
  <2>1. CASE Wins(i)
    BY <1>1, <1>2, <1>3, <1>4, <2>1, WinsLeads, FreshTerm
  <2>2. CASE Writes(i)
    <3>1. elected' = elected /\ node[i].status = "LEADER"
      BY <2>2 DEF Writes
    <3> QED BY <1>1, <1>2, <1>4, <2>2, <3>1, WritesLeads
  <2> QED BY <2>1, <2>2
<1>7. A \subseteq B
  BY <1>5 DEF Appends
<1> HIDE DEF T
<1>8. AckInv(M, B)'
  BY <1>1, <1>2, <1>5, <1>6, AckLeads
<1>9. ClaimInv(M, B, G, K)'
  BY <1>1, <1>2, <1>5, <1>6, ClaimLeads DEF T
<1>10. CommitInv(M, B)'
  <2>1. /\ LedgerType(M) /\ Grow(L, M) /\ node'[i].commitIndex = node[i].commitIndex
        /\ \A j \in Server \ {i} : node'[j] = node[j]
    BY <1>6 DEF LeadsOn
  <2>2. \A j \in Server : node'[j].commitIndex = node[j].commitIndex
    BY <2>1
  <2> QED BY <1>1, <1>2, <1>7, <2>1, <2>2, CommitQuiet
<1>11. SendInv(M, B)'
  BY <1>1, <1>2, <1>6, <1>7, SendLeads
<1>12. Explains(M, B, G, K)'
  BY <1>6, <1>8, <1>9, <1>10, <1>11 DEF Explains
<1> QED
  BY <1>12

LEMMA ExplainBegin ==
    ASSUME Moves, NEW L, NEW A, NEW G, NEW K, Explains(L, A, G, K), NEW i \in Server, BeginElection(i)
    PROVE  \E H, J : Explains(L, A, H, J)'
<1>1. /\ TypeInv /\ TypeInv' /\ VoteInv /\ VotesFaithful
  BY MovesParts
<1>2. LogInv(L) /\ Ledger(G) /\ ClaimInv(L, A, G, K)
  BY DEF Explains
<1>3. PICK H : Enters(G, H, i, i)
  BY DEF Enters
<1>4. PICK J : Files(K, J, i)
  BY DEF Files
<1>5. Ledger(H)' /\ ClaimInv(L, A, H, J)'
  BY <1>1, <1>2, <1>3, <1>4, BeginElectionLedger, ClaimBegin
<1>6. Still /\ Unsent
  BY <1>1, QuietStill, UnsentStep DEF QuietNext, UnsentNext
<1>7. LogInv(L)' /\ AckInv(L, A)' /\ CommitInv(L, A)' /\ SendInv(L, A)'
  BY <1>6, StillParts, StillSends DEF Unsent
<1>8. Explains(L, A, H, J)'
  BY <1>5, <1>7 DEF Explains
<1> QED
  BY <1>8

LEMMA ExplainVote ==
    ASSUME Moves, NEW L, NEW A, NEW G, NEW K, Explains(L, A, G, K), NEW q \in voteReqs, RequestVote(q)
    PROVE  \E H : Explains(L, A, H, K)'
<1>1. /\ TypeInv /\ TypeInv' /\ VoteInv /\ VotesFaithful
  BY MovesParts
<1>2. LogInv(L) /\ Ledger(G) /\ AckInv(L, A) /\ ClaimInv(L, A, G, K)
  BY DEF Explains
<1>3. PICK H : (H = G \/ Granted(q)) /\ (Granted(q) => Enters(G, H, q.to, q.candidate))
  BY DEF Enters
<1>4. Still /\ Unsent
  BY <1>1, QuietStill, UnsentStep DEF QuietNext, UnsentNext
<1>5. LogInv(L)' /\ AckInv(L, A)' /\ CommitInv(L, A)' /\ SendInv(L, A)'
  BY <1>4, StillParts, StillSends DEF Unsent
<1>6. Ledger(H)' /\ ClaimInv(L, A, H, K)'
  BY <1>1, <1>2, <1>3, <1>5, RequestVoteLedger, ClaimVote
<1>7. Explains(L, A, H, K)'
  BY <1>5, <1>6 DEF Explains
<1> QED
  BY <1>7

LEMMA ExplainConclude ==
    ASSUME Moves, NEW L, NEW A, NEW G, NEW K, Explains(L, A, G, K), NEW i \in Server,
           NEW R \in SUBSET {r \in voteReplies : r.to = i},
           NEW late \in SUBSET {q \in voteReqs : q.candidate = i}, ConcludeElection(i, R, late)
    PROVE  \E M, B : Explains(M, B, G, K)'
<1>1. /\ TypeInv /\ TypeInv' /\ VoteInv /\ VotesFaithful /\ LeaderInv
  BY MovesParts
<1>2. Ledger(G)'
  BY <1>1, ConcludeElectionLedger DEF Explains
<1>3. voteReqs' \subseteq voteReqs /\ \A j \in Server : DirectorKeeps(j)
  BY <1>1, ConcludeKeeps
<1>4. Unsent
  BY <1>1, UnsentStep DEF UnsentNext
<1>5. appReqs' = appReqs
  BY DEF ConcludeElection
<1>6. CASE Still
  <2>1. SendInv(L, A)'
    BY <1>4, <1>6, StillSends
  <2>2. Explains(L, A, G, K)'
    BY <1>2, <1>3, <1>5, <1>6, <2>1, ExplainQuiet
  <2> QED BY <2>2
<1>7. CASE Wins(i)
  BY <1>2, <1>3, <1>4, <1>5, <1>7, ExplainLeads
<1> QED
  BY <1>1, <1>6, <1>7, ConcludeCases

LEMMA ExplainService ==
    ASSUME Moves, NEW L, NEW A, NEW G, NEW K, Explains(L, A, G, K), "write" \notin Windows, NEW i \in Server,
           NEW v \in Value, ServiceAppend(i, v)
    PROVE  \E M, B : Explains(M, B, G, K)'
<1>1. /\ TypeInv /\ TypeInv' /\ VoteInv /\ VotesFaithful /\ LeaderInv
  BY MovesParts
<1>2. NoVoteNext
  BY DEF NoVoteNext
<1>3. Ledger(G)' /\ voteReqs' \subseteq voteReqs /\ \A j \in Server : DirectorKeeps(j)
  BY <1>1, <1>2, NoVoteLedger, DirectorsKeep DEF Explains
<1>4. Unsent
  BY <1>1, UnsentStep DEF UnsentNext
<1>5. appReqs' = appReqs
  BY DEF ServiceAppend, net
<1>6. CASE Still
  <2>1. SendInv(L, A)'
    BY <1>4, <1>6, StillSends
  <2>2. Explains(L, A, G, K)'
    BY <1>3, <1>5, <1>6, <2>1, ExplainQuiet
  <2> QED BY <2>2
<1>7. CASE Writes(i)
  BY <1>3, <1>4, <1>5, <1>7, ExplainLeads
<1> QED
  BY <1>1, <1>6, <1>7, ServiceCases

LEMMA ExplainSend ==
    ASSUME Moves, NEW L, NEW A, NEW G, NEW K, Explains(L, A, G, K), "send" \notin Windows, NEW i \in Server,
           NEW j \in Server, NEW limit \in PayloadLimits, SendPayload(i, j, limit)
    PROVE  Explains(L, A, G, K)'
<1>1. /\ TypeInv /\ TypeInv' /\ VoteInv /\ VotesFaithful /\ NodesKeep /\ ElectedInv /\ LeaderInv
  BY MovesParts
<1>2. /\ LogInv(L) /\ AckInv(L, A) /\ CommitInv(L, A) /\ AcksHeld(L, A) /\ LedgerType(L)
      /\ Ledger(G) /\ ClaimInv(L, A, G, K) /\ SendInv(L, A)
  BY <1>1, ExplainsSafe
<1>3. NoVoteNext /\ QuietNext
  BY DEF NoVoteNext, QuietNext
<1>4. Still
  BY <1>1, <1>3, QuietStill
<1>5. Ledger(G)' /\ voteReqs' \subseteq voteReqs /\ \A k \in Server : DirectorKeeps(k)
  BY <1>1, <1>2, <1>3, NoVoteLedger, DirectorsKeep
<1>6. LogInv(L)'
  <2>1. PICK m : m = Sent(i, j, limit)
    OBVIOUS
  <2>2. \E t \in Nat : t <= m.term /\ CutFrom(m, L[t])
    BY <1>1, <1>2, <2>1, SentCut
  <2>3. appReqs' = appReqs \cup {m}
    BY <2>1 DEF SendPayload, Sent
  <2>4. \A n \in appReqs' : n \in appReqs \/ \E t \in Nat : t <= n.term /\ CutFrom(n, L[t])
    BY <2>2, <2>3
  <2> QED BY <1>1, <1>2, <1>4, <2>4, LogStill
<1>7. AckInv(L, A)'
  BY <1>1, <1>2, <1>4, AckQuiet DEF Still, Calm
<1>8. ClaimInv(L, A, G, K)'
  BY <1>1, <1>2, <1>4, <1>5, <1>6, ClaimQuiet DEF Still, Calm
<1>9. CommitInv(L, A)' /\ SendInv(L, A)'
  BY <1>1, <1>2, CommitSend, SendSend
<1> QED
  BY <1>5, <1>6, <1>7, <1>8, <1>9 DEF Explains

LEMMA ExplainActivate ==
    ASSUME Moves, NEW L, NEW A, NEW G, NEW K, Explains(L, A, G, K), NEW i \in Server, ActivateReplicator(i)
    PROVE  Explains(L, A, G, K)'
<1>1. /\ TypeInv /\ TypeInv' /\ VoteInv /\ VotesFaithful /\ ElectedInv /\ LeaderInv
  BY MovesParts
<1>2. LogInv(L) /\ Ledger(G) /\ SendInv(L, A)
  BY DEF Explains
<1>3. NoVoteNext /\ QuietNext
  BY DEF NoVoteNext, QuietNext
<1>4. Still
  BY <1>1, <1>3, QuietStill
<1>5. Ledger(G)' /\ voteReqs' \subseteq voteReqs /\ \A k \in Server : DirectorKeeps(k)
  BY <1>1, <1>2, <1>3, NoVoteLedger, DirectorsKeep
<1>6. SendInv(L, A)' /\ appReqs' \subseteq appReqs
  BY <1>1, <1>2, SendActivate DEF ActivateReplicator
<1> QED
  BY <1>4, <1>5, <1>6, ExplainQuiet

LEMMA ExplainAck ==
    ASSUME Moves, NEW L, NEW A, NEW G, NEW K, Explains(L, A, G, K), NEW a \in acks, HandleAck(a)
    PROVE  Explains(L, A, G, K)'
<1>1. /\ TypeInv /\ TypeInv' /\ VoteInv /\ VotesFaithful /\ NodesKeep /\ ElectedInv /\ LeaderInv /\ AwaitInv
  BY MovesParts
<1>2. /\ LogInv(L) /\ AckInv(L, A) /\ CommitInv(L, A) /\ Complete(L, A)
      /\ Ledger(G) /\ ClaimInv(L, A, G, K) /\ SendInv(L, A)
  BY <1>1, ExplainsSafe
<1>3. NoVoteNext
  BY DEF NoVoteNext
<1>4. Ledger(G)' /\ voteReqs' \subseteq voteReqs /\ \A k \in Server : DirectorKeeps(k)
  BY <1>1, <1>2, <1>3, NoVoteLedger, DirectorsKeep
<1>5. elected' = elected /\ \A i \in Server : Calm(node[i], node'[i])
  BY <1>1, AckCalm
<1>6. appReqs' = appReqs
  BY DEF HandleAck
<1>7. LogInv(L)'
  BY <1>1, <1>2, <1>5, <1>6, LogQuiet
<1>8. AckInv(L, A)'
  BY <1>1, <1>2, <1>5, AckQuiet DEF Calm
<1>9. ClaimInv(L, A, G, K)'
  BY <1>1, <1>2, <1>4, <1>5, <1>7, ClaimQuiet DEF Calm
<1>10. CommitInv(L, A)' /\ SendInv(L, A)'
  BY <1>1, <1>2, CommitAck, SendAck
<1> QED
  BY <1>4, <1>7, <1>8, <1>9, <1>10 DEF Explains

LEMMA ExplainAppend ==
    ASSUME Moves, NEW L, NEW A, NEW G, NEW K, Explains(L, A, G, K), NEW m \in appReqs, AppendEntries(m)
    PROVE  \E B : Explains(L, B, G, K)'
<1>1. /\ TypeInv /\ TypeInv' /\ VoteInv /\ VotesFaithful /\ NodesKeep /\ LeaderInv /\ LeaderInv'
      /\ ElectedInv /\ ElectedInv'
  BY MovesParts
<1>2. /\ LogInv(L) /\ AckInv(L, A) /\ CommitInv(L, A) /\ Complete(L, A) /\ AcksHeld(L, A)
      /\ Ledger(G) /\ ClaimInv(L, A, G, K) /\ SendInv(L, A) /\ LedgerType(L) /\ Grow(L, L)
  BY <1>1, ExplainsSafe
<1>3. NoVoteNext
  BY DEF NoVoteNext
<1>4. Ledger(G)' /\ voteReqs' \subseteq voteReqs /\ \A k \in Server : DirectorKeeps(k)
  BY <1>1, <1>2, <1>3, NoVoteLedger, DirectorsKeep
<1>5. LogInv(L)'
  BY <1>1, <1>2, LogHandler
<1>6. CutFrom(m, L[m.term])
  BY <1>2 DEF SendInv, RequestFits
<1>7. /\ m \in AppReq /\ m.target \in Server /\ \A i \in Server \ {m.target} : node'[i] = node[i]
      /\ appReqs' \subseteq appReqs /\ elected' = elected /\ director' = director /\ voteReqs' = voteReqs
  BY <1>1, AppendFrame
<1>8. CASE Took(L, m) /\ \A a \in acks' \ acks : Answers(m, a) /\ a.outcome
  <2>1. PICK B : Takes(A, B, m)
    BY DEF Takes
  <2>2. A \subseteq B
    BY <2>1 DEF Takes
  <2>3. AckInv(L, B)'
    BY <1>1, <1>2, <1>5, <1>6, <1>7, <1>8, <2>1, AckTook
  <2>4. ClaimInv(L, B, G, K)'
    BY <1>1, <1>2, <1>4, <1>5, <1>6, <1>7, <1>8, <2>1, ClaimTook
  <2>5. CommitInv(L, B)'
    BY <1>1, <1>2, <1>8, <2>2, CommitTook
  <2>6. SendInv(L, B)'
    BY <1>1, <1>2, <1>5, <1>8, <2>1, SendTook
  <2>7. Explains(L, B, G, K)'
    BY <1>4, <1>5, <2>3, <2>4, <2>5, <2>6 DEF Explains
  <2> QED BY <2>7
<1>9. CASE Refused(m) /\ \A a \in acks' \ acks : Answers(m, a) /\ ~ a.outcome
  <2>1. /\ SendInv(L, A)'
        /\ \A i \in Server : node'[i].log = node[i].log /\ node'[i].commitIndex = node[i].commitIndex
    BY <1>1, <1>2, <1>9, SendRefused
  <2>2. AckInv(L, A)'
    BY <1>1, <1>2, <1>7, <2>1, AckQuiet
  <2>3. ClaimInv(L, A, G, K)'
    BY <1>1, <1>2, <1>4, <1>5, <1>7, <2>1, ClaimQuiet
  <2>4. CommitInv(L, A)'
    BY <1>1, <1>2, <1>7, <2>1, CommitQuiet
  <2>5. Explains(L, A, G, K)'
    BY <1>4, <1>5, <2>1, <2>2, <2>3, <2>4 DEF Explains
  <2> QED BY <2>5
<1> QED
  BY <1>1, <1>2, <1>6, <1>8, <1>9, HandlerCases

LEMMA ExplainRest ==
    ASSUME Moves, NEW L, NEW A, NEW G, NEW K, Explains(L, A, G, K), NoVoteNext, Still, Unsent
    PROVE  Explains(L, A, G, K)'
<1>1. /\ TypeInv /\ TypeInv' /\ VoteInv /\ VotesFaithful /\ LeaderInv
  BY MovesParts
<1>2. Ledger(G)' /\ voteReqs' \subseteq voteReqs /\ \A k \in Server : DirectorKeeps(k)
  BY <1>1, NoVoteLedger, DirectorsKeep DEF Explains
<1>3. SendInv(L, A)' /\ appReqs' \subseteq appReqs
  BY StillSends DEF Unsent
<1> QED
  BY <1>2, <1>3, ExplainQuiet

\* The steps that leave logs, votes and requests alone.
RestNext ==
    \/ \E i \in Server :
          \/ ObserveTerm(i) \/ RunForLeader(i) \/ AbandonElection(i)
          \/ DeactivateReplicator(i) \/ ServiceBegin(i)
          \/ Restart(i) \/ \E h \in heartbeats : Heartbeat(i, h)
          \/ \E j \in Server :
                \/ \E limit \in PayloadLimits : HaltReplication(i, j, limit)
                \/ \E lost \in BOOLEAN : AckTimeout(i, j, lost)
    \/ \E m \in appReqs : LoseRequest(m)

LEMMA ExplainStep ==
    ASSUME Moves, Explained, [Next]_vars, Windows \subseteq {"prevote"}
    PROVE  Explained'
<1>0. "write" \notin Windows /\ "send" \notin Windows
  OBVIOUS
<1>1. PICK L, A, G, K : Explains(L, A, G, K)
  BY DEF Explained
<1>2. TypeInv
  BY MovesParts
<1>3. ASSUME NEW M, NEW B, NEW H, NEW J, Explains(M, B, H, J)'
      PROVE  Explained'
  BY <1>3 DEF Explained
<1>4. CASE RestNext
  <2>1. NoVoteNext /\ QuietNext /\ UnsentNext
    <3>1. NoVoteNext
      BY <1>4 DEF RestNext, NoVoteNext
    <3>2. QuietNext
      BY <1>4 DEF RestNext, QuietNext
    <3>3. UnsentNext
      BY <1>4 DEF RestNext, UnsentNext
    <3> QED BY <3>1, <3>2, <3>3
  <2>2. Still /\ Unsent
    BY <1>2, <2>1, QuietStill, UnsentStep
  <2> QED BY <1>1, <1>3, <2>1, <2>2, ExplainRest
<1>5. CASE UNCHANGED vars
  <2>1. /\ node' = node /\ elected' = elected /\ appReqs' = appReqs /\ acks' = acks
        /\ tracker' = tracker /\ repl' = repl
    BY <1>5 DEF vars, net
  <2>2. Still /\ Unsent /\ NoVoteNext
    BY <1>5, <2>1, NoneStill DEF Unsent, SameTracker, NoVoteNext
  <2> QED BY <1>1, <1>3, <2>2, ExplainRest
<1>6. CASE \E i \in Server : BeginElection(i)
  BY <1>1, <1>3, <1>6, ExplainBegin
<1>7. CASE \E q \in voteReqs : RequestVote(q)
  BY <1>1, <1>3, <1>7, ExplainVote
<1>8. CASE \E i \in Server : \E R \in SUBSET {r \in voteReplies : r.to = i},
              late \in SUBSET {q \in voteReqs : q.candidate = i} : ConcludeElection(i, R, late)
  BY <1>1, <1>3, <1>8, ExplainConclude
<1>9. CASE \E i \in Server, v \in Value : ServiceAppend(i, v)
  BY <1>0, <1>1, <1>3, <1>9, ExplainService
<1>10. CASE \E i, j \in Server, limit \in PayloadLimits : SendPayload(i, j, limit)
  BY <1>0, <1>1, <1>3, <1>10, ExplainSend
<1>11. CASE \E i \in Server : ActivateReplicator(i)
  BY <1>1, <1>3, <1>11, ExplainActivate
<1>12. CASE \E m \in appReqs : AppendEntries(m)
  BY <1>1, <1>3, <1>12, ExplainAppend
<1>13. CASE \E a \in acks : HandleAck(a)
  BY <1>1, <1>3, <1>13, ExplainAck
<1> QED
  BY <1>4, <1>5, <1>6, <1>7, <1>8, <1>9, <1>10, <1>11, <1>12, <1>13 DEF Next, RestNext

LEMMA ExplainInit == Init => Grounded /\ Explained
<1> SUFFICES ASSUME Init PROVE Grounded /\ Explained
  OBVIOUS
<1> DEFINE K == [x \in Server \X Nat |-> <<0, 0>>]
<1>1. TypeInv /\ VoteInv
  BY TypeInit, VoteInit
<1>2. ElectedInv
  BY DEF Init, ElectedInv, IdleDirector, FreshNode
<1>3. LeaderInv
  BY DEF Init, LeaderInv, FreshNode
<1>4. AwaitInv
  BY DEF Init, AwaitInv, NewTracker
<1>5. Ledger({})
  BY DEF Init, Ledger, VotesHeld, OneVotePerTerm, CandidateVoted, RepliesRecorded, NoneToSelf,
         ElectedByQuorum, IdleDirector
<1>6. LogInv(FirstLogs)
  BY LogInit
<1>7. AckInv(FirstLogs, {})
  BY DEF Init, AckInv, AcksHeld, LeadersAcked
<1>8. ClaimInv(FirstLogs, {}, {}, K)
  <2>1. VotesOnClaims(FirstLogs, {}, K) /\ RequestsClaim({}, K) /\ VotersBehind(FirstLogs, {}, {}, K)
    BY DEF Init, VotesOnClaims, RequestsClaim, VotersBehind
  <2>2. \A i \in Server : DirectorClaims(FirstLogs, K, i)
    BY DEF Init, DirectorClaims, IdleDirector
  <2>3. LeadersClaim(FirstLogs, {}, K) /\ LeadersKeep(FirstLogs, {})
    BY DEF Init, LeadersClaim, LeadersKeep
  <2> QED BY <2>1, <2>2, <2>3 DEF ClaimInv
<1>9. CommitInv(FirstLogs, {})
  BY DEF Init, CommitInv, NodeCovered, FreshNode
<1>10. SendInv(FirstLogs, {})
  BY DEF Init, SendInv, TrackerFits, NewTracker
<1>11. Explains(FirstLogs, {}, {}, K)
  BY <1>5, <1>6, <1>7, <1>8, <1>9, <1>10 DEF Explains
<1> QED
  BY <1>1, <1>2, <1>3, <1>4, <1>11 DEF Grounded, Explained

LEMMA GroundedStep ==
    ASSUME Grounded, Explained, [Next]_vars, Windows \subseteq {"prevote"}
    PROVE  Grounded' /\ Explained'
<1>1. TypeInv /\ VoteInv /\ ElectedInv /\ LeaderInv /\ AwaitInv
  BY DEF Grounded
<1>2. TypeInv' /\ VoteInv' /\ VotesFaithful /\ NodesKeep
  BY <1>1, TypeStep, VoteStep, CommittedStep
<1>3. "write" \notin Windows /\ "send" \notin Windows
  OBVIOUS
<1>4. ElectedInv' /\ LeaderInv' /\ AwaitInv'
  BY <1>1, <1>2, <1>3, ElectedStep, LeaderStep, AwaitStep
<1>5. Grounded'
  BY <1>2, <1>4 DEF Grounded
<1>6. Moves
  BY <1>2, <1>5 DEF Moves
<1> QED
  BY <1>5, <1>6, ExplainStep

LEMMA SafeState ==
    ASSUME Grounded, Explained
    PROVE  StateMachineSafety /\ TrackersSound /\ NoCrash
<1>1. TypeInv /\ LeaderInv /\ AwaitInv
  BY DEF Grounded
<1>2. PICK L, A, G, K : Explains(L, A, G, K)
  BY DEF Explained
<1>3. /\ LogInv(L) /\ AckInv(L, A) /\ CommitInv(L, A) /\ SendInv(L, A)
      /\ Complete(L, A) /\ AcksHeld(L, A) /\ ElectionSafety
  BY <1>1, <1>2, ExplainsSafe
<1> QED
  BY <1>1, <1>3, CommittedAgreement, TrackersReliable, NothingThrows

LEMMA SafeInvariant ==
    Windows \subseteq {"prevote"} => (Spec => [](StateMachineSafety /\ TrackersSound /\ NoCrash))
<1> SUFFICES ASSUME Windows \subseteq {"prevote"}
             PROVE  Spec => [](StateMachineSafety /\ TrackersSound /\ NoCrash)
  OBVIOUS
<1>1. Grounded /\ Explained /\ [Next]_vars => Grounded' /\ Explained'
  BY GroundedStep
<1>2. Grounded /\ Explained => StateMachineSafety /\ TrackersSound /\ NoCrash
  BY SafeState
<1> QED
  BY <1>1, <1>2, ExplainInit, PTL DEF Spec

-----------------------------------------------------------------------------
\* RaftJournal::setCommitIndex, on leaders and followers: what two nodes consider
\* committed agrees, for any number of servers and writes, with crashes, elections,
\* time-outs, lost, late and reordered requests, and a pre-vote that others overtake.
\* service() and the trackers must not act on a snapshot that has gone stale:
\* otherwise this is not so.
THEOREM StateMachineSafetyCorrect == Windows \subseteq {"prevote"} => (Spec => []StateMachineSafety)
BY SafeInvariant, PTL

\* RaftReplicaTracker and RaftCommitTracker: next and match index of a leader's
\* tracker can be relied on, under the same conditions.
THEOREM TrackersSoundCorrect == Windows \subseteq {"prevote"} => (Spec => []TrackersSound)
BY SafeInvariant, PTL

\* RaftDispatcher::heartbeat, appendEntries and RaftJournal::setCommitIndex never run
\* into one of their exceptions, under the same conditions.
THEOREM NoCrashCorrect == Windows \subseteq {"prevote"} => (Spec => []NoCrash)
BY SafeInvariant, PTL

=============================================================================
