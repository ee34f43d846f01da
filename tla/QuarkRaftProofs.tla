--------------------------- MODULE QuarkRaftProofs ---------------------------
(***************************************************************************)
(* Types, what the operators return, and what is committed stays; votes    *)
(* are durable and final, no candidate is left behind by an election, and  *)
(* a term has at most one leader: for every cluster, every set of open     *)
(* windows and every value of the bounds.                                  *)
(***************************************************************************)
EXTENDS QuarkLedger, FiniteSetTheorems, SequenceTheorems, WellFoundedInduction, TLAPS

-----------------------------------------------------------------------------
(* Numbers *)

\* A nonempty set of naturals has a least element.
LEMMA LeastNat ==
    ASSUME NEW S, S \subseteq Nat, S # {}
    PROVE  \E x \in S : \A y \in S : x <= y
<1>1. PICK x \in S : \A y \in S : ~ (<<y, x>> \in OpToRel(<, Nat))
  BY WFMin, NatLessThanWellFounded
<1>2. \A y \in S : ~ (y < x)
  BY <1>1 DEF OpToRel
<1> QED
  BY <1>2

\* A nonempty finite set of naturals has a greatest element.
LEMMA GreatestNat ==
    ASSUME NEW S, S \subseteq Nat, S # {}, IsFiniteSet(S)
    PROVE  \E x \in S : \A y \in S : y <= x
<1> DEFINE Above(x) == {y \in S : y > x}
           Counts == {Cardinality(Above(x)) : x \in S}
<1>1. \A x \in S : IsFiniteSet(Above(x)) /\ Cardinality(Above(x)) \in Nat
  BY FS_Subset, FS_CardinalityType
<1>2. Counts \subseteq Nat /\ Counts # {}
  BY <1>1
<1> HIDE DEF Counts
<1>3. PICK c \in Counts : \A d \in Counts : c <= d
  BY <1>2, LeastNat
<1> USE DEF Counts
<1>4. PICK x \in S : c = Cardinality(Above(x))
  BY <1>3
<1>5. ASSUME NEW y \in S, y > x PROVE FALSE
  <2>0. x \in Nat /\ y \in Nat /\ y > x /\ \A z \in S : z \in Nat
    BY <1>5
  <2>a. \A z \in S : z > y => z > x
    BY <2>0
  <2>b. ~ (y > y)
    BY <2>0
  <2>1. Above(y) \subseteq Above(x) /\ y \in Above(x) /\ y \notin Above(y)
    BY <2>0, <2>a, <2>b, Zenon
  <2>2. Cardinality(Above(y)) <= Cardinality(Above(x)) /\ Above(y) # Above(x)
    BY <2>1, <1>1, FS_Subset
  <2>3. Cardinality(Above(y)) # Cardinality(Above(x))
    BY <2>1, <2>2, <1>1, FS_Subset
  <2>4. c <= Cardinality(Above(y))
    BY <1>3, <1>5
  <2> QED
    BY <2>2, <2>3, <2>4, <1>4, <1>1
<1> QED
  BY <1>5

\* A function on a finite set has finitely many values.
LEMMA FiniteValues ==
    ASSUME NEW S, IsFiniteSet(S), NEW T, NEW f \in [S -> T]
    PROVE  IsFiniteSet({f[x] : x \in S})
<1>1. f \in Surjection(S, {f[x] : x \in S})
  BY DEF Surjection
<1> QED
  BY <1>1, FS_Surjection

\* A prefix of 1..n free of Bad that cannot be extended.
LEMMA LongestPrefix ==
    ASSUME NEW n \in Nat, NEW Bad, Bad \subseteq 1..n
    PROVE  \E k \in 0..n : (\A x \in 1..k : x \notin Bad) /\ (k < n => k + 1 \in Bad)
<1>1. CASE Bad = {}
  <2>1. (\A x \in 1..n : x \notin Bad) /\ ~ (n < n) /\ n \in 0..n
    BY <1>1
  <2> QED
    BY <2>1
<1>2. CASE Bad # {}
  <2>0. Bad \subseteq Nat
    OBVIOUS
  <2>1. PICK b \in Bad : \A y \in Bad : b <= y
    BY <1>2, <2>0, LeastNat
  <2>2. b - 1 \in 0..n /\ (\A x \in 1..(b - 1) : x \notin Bad) /\ (b - 1) + 1 = b
    BY <2>1
  <2> QED
    BY <2>1, <2>2
<1> QED
  BY <1>1, <1>2

-----------------------------------------------------------------------------
(* What the operators of RaftJournal return *)

NodeOK(n) == n \in Node /\ n.commitIndex < Len(n.log)

\* m is a later state of n that has lost nothing of what n had committed.
Keeps(n, m) ==
    /\ m.commitIndex >= n.commitIndex
    /\ \A k \in 1..(n.commitIndex + 1) : m.log[k] = n.log[k]

\* The first inconsistency lies in the compared range, and everything before it
\* is equal.
LEMMA CompareEntriesRange ==
    ASSUME NEW n \in Node, NEW start \in Nat, start <= Len(n.log),
           NEW entries \in Seq(Entry)
    PROVE  LET k == compareEntries(n, start, entries)
           IN  /\ k \in start..Len(n.log)
               /\ k <= start + Len(entries)
               /\ \A x \in start..(k - 1) : n.log[x + 1] = entries[x - start + 1]
               /\ \/ k = Len(n.log) \/ k = start + Len(entries)
                  \/ n.log[k + 1] # entries[k - start + 1]
<1> DEFINE end == IF Len(n.log) < start + Len(entries)
                  THEN Len(n.log) ELSE start + Len(entries)
           Bad == {x \in 1..(end - start) : n.log[start + x] # entries[x]}
           P(k) == /\ \A x \in start..(k - 1) : n.log[x + 1] = entries[x - start + 1]
                   /\ k = end \/ n.log[k + 1] # entries[k - start + 1]
<1>1. Len(n.log) \in Nat /\ Len(entries) \in Nat
  BY DEF Node
<1>2. /\ end \in Nat /\ end - start \in Nat /\ end <= Len(n.log) /\ end <= start + Len(entries)
      /\ end = Len(n.log) \/ end = start + Len(entries)
  BY <1>1
<1>3. Bad \subseteq 1..(end - start)
  OBVIOUS
<1> HIDE DEF end
<1>4. PICK b \in 0..(end - start) :
          (\A x \in 1..b : x \notin Bad) /\ (b < end - start => b + 1 \in Bad)
  <2> HIDE DEF Bad
  <2> QED BY <1>2, <1>3, LongestPrefix
<1>5. start + b \in start..end /\ P(start + b)
  <2>1. ASSUME NEW x \in start..(start + b - 1)
        PROVE  n.log[x + 1] = entries[x - start + 1]
    <3>1. x - start + 1 \in 1..b /\ x - start + 1 \in 1..(end - start)
      BY <1>2
    <3>2. start + (x - start + 1) = x + 1
      BY <1>2
    <3> QED BY <1>4, <3>1, <3>2
  <2>2. start + b = end \/ n.log[start + b + 1] # entries[start + b - start + 1]
    <3>1. CASE b = end - start
      BY <3>1, <1>2
    <3>2. CASE b < end - start
      <4>1. n.log[start + (b + 1)] # entries[b + 1]
        BY <1>4, <3>2
      <4>2. start + (b + 1) = start + b + 1 /\ start + b - start + 1 = b + 1
        BY <1>2
      <4> QED BY <4>1, <4>2
    <3> QED BY <3>1, <3>2, <1>2
  <2>3. start + b \in start..end
    BY <1>2
  <2>4. \A x \in start..(start + b - 1) : n.log[x + 1] = entries[x - start + 1]
    BY <2>1
  <2> QED BY <2>2, <2>3, <2>4
<1>6. compareEntries(n, start, entries) = CHOOSE k \in start..end : P(k)
  BY DEF compareEntries, LogSize, end
<1> HIDE DEF P
<1>7. compareEntries(n, start, entries) \in start..end /\ P(compareEntries(n, start, entries))
  BY <1>5, <1>6
<1> QED
  BY <1>7, <1>2 DEF P

\* Accepted counts the entries up to the first one that cannot be appended.
LEMMA AcceptedRange ==
    ASSUME NEW n, NEW entries \in Seq(Entry)
    PROVE  LET k == Accepted(n, entries) IN
           /\ k \in 0..Len(entries)
           /\ k < Len(entries) =>
                 ~ CanAppend([n EXCEPT !.log = @ \o SubSeq(entries, 1, k)], entries[k + 1].term)
<1> DEFINE Ok(x) == CanAppend([n EXCEPT !.log = @ \o SubSeq(entries, 1, x - 1)], entries[x].term)
           Bad == {x \in 1..Len(entries) : ~ Ok(x)}
           Stop(k) == CanAppend([n EXCEPT !.log = @ \o SubSeq(entries, 1, k)], entries[k + 1].term)
           P(k) == (\A x \in 1..k : Ok(x)) /\ (k < Len(entries) => ~ Stop(k))
<1>1. PICK k \in 0..Len(entries) :
          (\A x \in 1..k : x \notin Bad) /\ (k < Len(entries) => k + 1 \in Bad)
  <2>1. Len(entries) \in Nat /\ Bad \subseteq 1..Len(entries)
    OBVIOUS
  <2> HIDE DEF Bad
  <2> QED BY <2>1, LongestPrefix
<1>2. \A x \in 1..k : x \in 1..Len(entries)
  OBVIOUS
<1>3. (k + 1) - 1 = k
  OBVIOUS
<1>4. Ok(k + 1) <=> Stop(k)
  BY <1>3
<1>5. P(k)
  <2> HIDE DEF Ok, Stop
  <2> QED BY <1>1, <1>2, <1>4
<1>6. Accepted(n, entries) = CHOOSE j \in 0..Len(entries) : P(j)
  BY DEF Accepted
<1> HIDE DEF P
<1>7. Accepted(n, entries) \in 0..Len(entries) /\ P(Accepted(n, entries))
  BY <1>5, <1>6
<1> QED
  BY <1>7 DEF P

-----------------------------------------------------------------------------
(* Every operation keeps a node well formed *)

LEMMA UpdateJournalType ==
    ASSUME NEW n, NodeOK(n)
    PROVE  NodeOK(updateJournal(n))
BY DEF NodeOK, Node, Term, updateJournal

LEMMA UpdateStatusType ==
    ASSUME NEW n, NodeOK(n), NEW status \in {"FOLLOWER", "CANDIDATE", "LEADER"}
    PROVE  NodeOK(updateStatus(n, status))
BY DEF NodeOK, Node, Term, updateStatus

\* What observed returns: the same node, a node in a new term, or one that has
\* only recognised a leader.
LEMMA ObservedCases ==
    ASSUME NEW n, n.term \in Nat, NEW term \in Nat, NEW leader
    PROVE  LET o == observed(n, term, leader) IN
           \/ /\ term > n.term
              /\ o = updateJournal([updateStatus(n, "FOLLOWER") EXCEPT
                        !.term = term, !.leader = leader,
                        !.votedFor = IF leader = Nobody THEN Nobody ELSE Blocked])
           \/ /\ ~ (term > n.term) /\ term = n.term /\ n.leader = Nobody
              /\ leader # Nobody /\ n.votedFor = Nobody
              /\ o = updateJournal([n EXCEPT !.leader = leader, !.votedFor = Blocked])
           \/ /\ ~ (term > n.term) /\ term = n.term /\ n.leader = Nobody
              /\ ~ (leader # Nobody /\ n.votedFor = Nobody)
              /\ o = [n EXCEPT !.leader = leader]
           \/ /\ ~ (term > n.term) /\ ~ (term = n.term /\ n.leader = Nobody)
              /\ o = n
<1>1. CASE term > n.term
  <2>1. ~ (term = n.term)
    BY <1>1
  <2> QED BY <1>1, <2>1 DEF observed
<1>2. CASE ~ (term > n.term) /\ term = n.term /\ n.leader = Nobody
  <2>1. observed(n, term, leader) =
          IF leader # Nobody /\ n.votedFor = Nobody
          THEN updateJournal([n EXCEPT !.leader = leader, !.votedFor = Blocked])
          ELSE [n EXCEPT !.leader = leader]
    BY <1>2 DEF observed
  <2> QED BY <1>2, <2>1
<1>3. CASE ~ (term > n.term) /\ ~ (term = n.term /\ n.leader = Nobody)
  BY <1>3 DEF observed
<1> QED
  BY <1>1, <1>2, <1>3

LEMMA ObservedType ==
    ASSUME NEW n, NodeOK(n), NEW term \in Term, NEW leader \in Server \cup {Nobody}
    PROVE  /\ NodeOK(observed(n, term, leader))
           /\ observed(n, term, leader).log = n.log
           /\ observed(n, term, leader).commitIndex = n.commitIndex
<1> DEFINE m1 == [updateStatus(n, "FOLLOWER") EXCEPT
                    !.term = term, !.leader = leader,
                    !.votedFor = IF leader = Nobody THEN Nobody ELSE Blocked]
           m2 == [n EXCEPT !.leader = leader, !.votedFor = Blocked]
           m3 == [n EXCEPT !.leader = leader]
<1>1. NodeOK(m1) /\ m1.log = n.log /\ m1.commitIndex = n.commitIndex
  BY DEF NodeOK, Node, Term, updateStatus
<1>2. NodeOK(m2) /\ m2.log = n.log /\ m2.commitIndex = n.commitIndex
  BY DEF NodeOK, Node, Term
<1>3. NodeOK(m3) /\ m3.log = n.log /\ m3.commitIndex = n.commitIndex
  BY DEF NodeOK, Node, Term
<1>4. ASSUME NEW m, NodeOK(m)
      PROVE  updateJournal(m).log = m.log /\ updateJournal(m).commitIndex = m.commitIndex
  BY <1>4 DEF updateJournal, NodeOK, Node
<1>5. observed(n, term, leader) \in {updateJournal(m1), updateJournal(m2), m3, n}
  <2>1. n.term \in Nat /\ term \in Nat
    BY DEF NodeOK, Node, Term
  <2> QED BY <2>1, ObservedCases, Zenon
<1> HIDE DEF m1, m2, m3
<1> QED
  BY <1>1, <1>2, <1>3, <1>4, <1>5, UpdateJournalType

LEMMA GrantVoteType ==
    ASSUME NEW n, NodeOK(n), NEW c \in Server
    PROVE  NodeOK(grantVote(n, c))
BY DEF NodeOK, Node, Term, grantVote, updateJournal

LEMMA BecomeCandidateType ==
    ASSUME NEW n, NodeOK(n), NEW i \in Server
    PROVE  NodeOK(becomeCandidate(n, i))
BY DEF NodeOK, Node, Term, becomeCandidate, updateJournal, updateStatus

LEMMA DropOutType ==
    ASSUME NEW n, NodeOK(n), NEW term \in Term
    PROVE  NodeOK(dropOut(n, term))
BY DEF NodeOK, Node, Term, dropOut, updateStatus

LEMMA AppendEntryType ==
    ASSUME NEW n, NodeOK(n), NEW term \in Term,
           NEW request \in Server \cup Value \cup {Nobody}
    PROVE  NodeOK(appendEntry(n, term, request))
<1> DEFINE e == [term |-> term, request |-> request]
<1>1. e \in Entry
  BY DEF Entry
<1>2. n.log \in Seq(Entry) /\ n.commitIndex \in Nat /\ n.commitIndex < Len(n.log)
  BY DEF NodeOK, Node
<1> HIDE DEF e
<1>3. Append(n.log, e) \in Seq(Entry) /\ Len(Append(n.log, e)) = Len(n.log) + 1
  BY <1>1, <1>2
<1>4. n.commitIndex < Len(Append(n.log, e))
  BY <1>2, <1>3
<1>5. appendEntry(n, term, request) = [n EXCEPT !.log = Append(n.log, e)]
  BY DEF appendEntry, e
<1> QED
  BY <1>3, <1>4, <1>5 DEF NodeOK, Node

LEMMA AscendType ==
    ASSUME NEW n, NodeOK(n), NEW i \in Server, NEW term \in Term
    PROVE  NodeOK(ascend(n, i, term))
<1> DEFINE m == appendEntry(n, term, i)
<1>1. NodeOK(m)
  BY AppendEntryType
<1>2. LogSize(n) \in Nat
  BY DEF NodeOK, Node, LogSize
<1>3. ascend(n, i, term) = updateStatus([m EXCEPT !.leader = i, !.leadershipMarker = LogSize(n)], "LEADER")
  BY DEF ascend
<1> HIDE DEF m
<1>4. NodeOK([m EXCEPT !.leader = i, !.leadershipMarker = LogSize(n)])
  BY <1>1, <1>2 DEF NodeOK, Node
<1> QED
  BY <1>3, <1>4, UpdateStatusType

LEMMA SetCommitIndexType ==
    ASSUME NEW n, NodeOK(n), NEW index \in Nat, index < Len(n.log)
    PROVE  NodeOK(setCommitIndex(n, index))
BY DEF NodeOK, Node, Term, setCommitIndex

\* The term observeTerms settles on is the term of a reply.
LEMMA ObserveTermsCases ==
    ASSUME NEW n, NEW R, R \subseteq VoteReply, IsFiniteSet(R)
    PROVE  \/ observeTerms(n, R) = n
           \/ \E term \in Nat : observeTerms(n, R) = observed(n, term, Nobody)
<1> DEFINE Terms == {r.term : r \in R}
<1>1. CASE R = {}
  BY <1>1 DEF observeTerms
<1>2. CASE R # {}
  <2>1. Terms # {} /\ Terms \subseteq Nat
    BY <1>2 DEF VoteReply, Term
  <2>2. IsFiniteSet(Terms)
    <3> DEFINE f == [r \in R |-> r.term]
    <3>1. Terms = {f[r] : r \in R} /\ f \in [R -> Nat]
      BY <2>1
    <3> HIDE DEF Terms, f
    <3> QED BY <3>1, FiniteValues
  <2> HIDE DEF Terms
  <2>3. PICK t \in Terms : \A y \in Terms : y <= t
    BY <2>1, <2>2, GreatestNat
  <2>4. \E r \in R : \A s \in R : s.term <= r.term
    BY <2>3 DEF Terms
  <2>5. (CHOOSE r \in R : \A s \in R : s.term <= r.term) \in R
    BY <2>4
  <2>6. (CHOOSE r \in R : \A s \in R : s.term <= r.term).term \in Nat
    BY <2>5 DEF VoteReply, Term
  <2> QED
    BY <2>6 DEF observeTerms
<1> QED
  BY <1>1, <1>2

LEMMA ObserveTermsType ==
    ASSUME NEW n, NodeOK(n), NEW R, R \subseteq VoteReply, IsFiniteSet(R)
    PROVE  NodeOK(observeTerms(n, R))
BY ObserveTermsCases, ObservedType DEF Term

\* The commit index a leader arrives at is the match index of one of its targets.
LEMMA CommitCandidateType ==
    ASSUME NEW i \in Server, NEW match \in [Server \ {i} -> Nat], Server \ {i} # {}
    PROVE  CommitCandidate(match) \in Nat /\ CommitCandidate(match) \in Reached(match)
<1> DEFINE Targets == Server \ {i}
           Values == {match[j] : j \in DOMAIN match}
           AtLeast(k) == {j \in DOMAIN match : match[j] >= k}
<1>1. IsFiniteSet(Targets) /\ Cardinality(Targets) = Cardinality(Server) - 1
      /\ Cardinality(Server) \in Nat
  BY ServerAssumption, FS_RemoveElement, FS_CardinalityType
<1>2. DOMAIN match = Targets
  OBVIOUS
<1>3. Values \subseteq Nat /\ Values # {} /\ IsFiniteSet(Values)
  <2>1. IsFiniteSet(Values)
    BY <1>1, <1>2, FiniteValues
  <2> QED BY <2>1, <1>2
<1>4. PICK least \in Values : \A y \in Values : least <= y
  <2> HIDE DEF Values
  <2> QED BY <1>3, LeastNat
<1>5. AtLeast(least) = Targets
  <2>1. \A j \in Targets : match[j] \in Nat /\ match[j] \in Values
    BY <1>2
  <2>2. least \in Nat
    BY <1>3, <1>4
  <2>3. \A j \in Targets : match[j] >= least
    BY <1>4, <2>1, <2>2
  <2> QED BY <2>3, <1>2
<1>6. Cardinality(AtLeast(least)) + 1 >= quorumSize
  <2>0. Cardinality(AtLeast(least)) = Cardinality(Server) - 1
    BY <1>1, <1>5
  <2>1. Cardinality(Targets) > 0
    <3>1. Cardinality(Targets) # 0
      BY <1>1, FS_EmptySet
    <3>2. Cardinality(Targets) \in Nat
      BY <1>1, FS_CardinalityType
    <3> QED BY <3>1, <3>2
  <2>2. Cardinality(Server) >= 2
    BY <2>1, <1>1
  <2> QED
    BY <2>0, <2>2, <1>1 DEF quorumSize
<1>7. Reached(match) = {k \in Values : Cardinality(AtLeast(k)) + 1 >= quorumSize}
  BY DEF Reached
<1>8. least \in Reached(match) /\ Reached(match) \subseteq Values
  BY <1>4, <1>6, <1>7
<1> HIDE DEF Values
<1>9. Reached(match) \subseteq Nat /\ Reached(match) # {} /\ IsFiniteSet(Reached(match))
  BY <1>3, <1>8, FS_Subset
<1>10. \E k \in Reached(match) : \A l \in Reached(match) : l <= k
  BY <1>9, GreatestNat
<1> QED
  BY <1>9, <1>10 DEF CommitCandidate

\* A request whose previous entry matches leaves its target well formed: what is
\* removed lies beyond the commit index, and the new one lies within the log.
LEMMA AppendedType ==
    ASSUME NEW n, NodeOK(n), NEW m \in AppReq,
           matchEntries(n, m.prevIndex, m.prevTerm), ~ AppendCrashes(n, m)
    PROVE  /\ NodeOK(Appended(n, m).node) /\ Appended(n, m).outcome \in BOOLEAN
           /\ Keeps(n, Appended(n, m).node)
<1> DEFINE start == m.prevIndex + 1
           first == compareEntries(n, start, m.entries)
           rest  == SubSeq(m.entries, first - m.prevIndex, Len(m.entries))
           kept  == [n EXCEPT !.log = SubSeq(@, 1, first)]
           taken == Accepted(kept, rest)
           more  == SubSeq(rest, 1, taken)
           new   == IF rest = <<>> THEN n ELSE [kept EXCEPT !.log = @ \o more]
           last  == Len(new.log) - 1
           commit == IF last < m.commitIndex THEN last ELSE m.commitIndex
<1>1. /\ n \in Node /\ n.log \in Seq(Entry) /\ Len(n.log) \in Nat
      /\ n.commitIndex \in Nat /\ n.commitIndex < Len(n.log)
  BY DEF NodeOK, Node
<1>2. /\ m.prevIndex \in Nat /\ m.entries \in Seq(Entry) /\ m.commitIndex \in Nat
      /\ Len(m.entries) \in Nat
  BY DEF AppReq
<1>3. start \in Nat /\ start <= Len(n.log)
  BY <1>1, <1>2 DEF matchEntries, LogSize
<1>4. first \in start..Len(n.log) /\ first <= start + Len(m.entries)
  <2> HIDE DEF start
  <2> QED BY <1>1, <1>2, <1>3, CompareEntriesRange
<1>5. ~ (first - start < Len(m.entries)) \/ ~ (first <= n.commitIndex)
  BY DEF AppendCrashes
<1> HIDE DEF first
<1>6. first \in Nat /\ first - m.prevIndex \in 1..(Len(m.entries) + 1)
  BY <1>1, <1>2, <1>3, <1>4
<1>7. rest \in Seq(Entry)
  BY <1>2, <1>6
<1>8. rest # <<>> => first > n.commitIndex
  <2>1. ~ (first - start < Len(m.entries)) => first - m.prevIndex > Len(m.entries)
    BY <1>2, <1>3, <1>6
  <2>2. first - m.prevIndex > Len(m.entries) => rest = <<>>
    BY <1>2, <1>6
  <2> QED BY <1>1, <1>5, <1>6, <2>1, <2>2
<1> HIDE DEF rest
<1>9. SubSeq(n.log, 1, first) \in Seq(Entry) /\ Len(SubSeq(n.log, 1, first)) = first
  BY <1>1, <1>4, <1>6
<1>10. taken \in 0..Len(rest)
  BY <1>7, AcceptedRange
<1> HIDE DEF taken
<1>11. more \in Seq(Entry) /\ Len(more) \in Nat
  BY <1>7, <1>10
<1> HIDE DEF more
<1>12. NodeOK(new) /\ Keeps(n, new)
  <2>1. CASE rest = <<>>
    BY <1>1, <2>1 DEF Keeps
  <2>2. CASE rest # <<>>
    <3> DEFINE log == SubSeq(n.log, 1, first) \o more
    <3>1. log \in Seq(Entry) /\ Len(log) = first + Len(more)
      BY <1>9, <1>11
    <3>2. n.commitIndex < Len(log)
      BY <3>1, <1>1, <1>6, <1>8, <1>11, <2>2
    <3>3. new = [n EXCEPT !.log = log]
      BY <2>2, <1>1 DEF Node
    <3>4. \A k \in 1..(n.commitIndex + 1) : log[k] = n.log[k]
      <4> SUFFICES ASSUME NEW k \in 1..(n.commitIndex + 1) PROVE log[k] = n.log[k]
        OBVIOUS
      <4>1. k \in 1..first /\ k \in 1..Len(n.log)
        BY <1>1, <1>6, <1>8, <2>2
      <4>2. SubSeq(n.log, 1, first)[k] = n.log[k]
        BY <4>1, <1>1, <1>4, <1>6
      <4>3. log[k] = SubSeq(n.log, 1, first)[k]
        <5> DEFINE s == SubSeq(n.log, 1, first)
        <5>1. s \in Seq(Entry) /\ k \in 1..Len(s)
          BY <4>1, <1>9
        <5> HIDE DEF s
        <5>2. (s \o more)[k] = s[k]
          BY <5>1, <1>11
        <5> QED BY <5>2 DEF s
      <4> QED BY <4>2, <4>3
    <3> HIDE DEF log, new
    <3>5. new.log = log /\ new.commitIndex = n.commitIndex
      BY <3>3, <1>1 DEF Node
    <3>6. NodeOK(new)
      BY <3>1, <3>2, <3>3, <1>1 DEF NodeOK, Node
    <3>7. Keeps(n, new)
      BY <3>4, <3>5, <1>1 DEF Keeps
    <3> QED BY <3>6, <3>7
  <2> QED BY <2>1, <2>2
<1> HIDE DEF new
<1>13. Len(new.log) \in Nat \ {0}
  BY <1>12 DEF NodeOK, Node
<1>14. commit \in Nat /\ commit < Len(new.log)
  BY <1>2, <1>13
<1>15. Appended(n, m) = IF taken < Len(rest) THEN [node |-> new, outcome |-> FALSE]
                        ELSE [node |-> setCommitIndex(new, commit), outcome |-> TRUE]
  BY DEF Appended, first, rest, taken, more, new, LogSize
<1> HIDE DEF commit
<1>16. Keeps(n, setCommitIndex(new, commit))
  BY <1>1, <1>12, <1>14 DEF Keeps, setCommitIndex, NodeOK, Node
<1> QED
  BY <1>12, <1>14, <1>15, <1>16, SetCommitIndexType

\* The handler keeps its node well formed unless it throws, and its answer is one
\* the tracker can read.
LEMMA AppendEntriesType ==
    ASSUME NEW n, NodeOK(n), NEW m \in AppReq,
           m.term >= n.term => ~ AppendCrashes(n, m)
    PROVE  /\ NodeOK(appendEntries(n, m).node) /\ Keeps(n, appendEntries(n, m).node)
           /\ appendEntries(n, m).ack \in Ack
           /\ appendEntries(n, m).ack.req = m
<1> DEFINE seen == observed(n, m.term, m.leader)
           res  == IF m.term = seen.term /\ matchEntries(seen, m.prevIndex, m.prevTerm)
                   THEN Appended(seen, m) ELSE [node |-> seen, outcome |-> FALSE]
<1>1. m.term \in Term /\ m.leader \in Server \cup {Nobody}
  BY DEF AppReq
<1>2. NodeOK(seen) /\ seen.log = n.log /\ seen.commitIndex = n.commitIndex
  BY <1>1, ObservedType
<1>3. m.term = seen.term => m.term >= n.term
  <2>1. n.term \in Nat /\ m.term \in Nat
    BY <1>1 DEF NodeOK, Node, Term
  <2>2. m.term < n.term => seen = n
    BY <2>1 DEF observed
  <2> QED BY <2>1, <2>2
<1> HIDE DEF seen
<1>4. AppendCrashes(seen, m) <=> AppendCrashes(n, m)
  BY <1>2 DEF AppendCrashes, compareEntries, matchEntries, LogSize
<1>5. NodeOK(res.node) /\ res.outcome \in BOOLEAN /\ Keeps(seen, res.node)
  <2>1. CASE m.term = seen.term /\ matchEntries(seen, m.prevIndex, m.prevTerm)
    BY <2>1, <1>2, <1>3, <1>4, AppendedType
  <2>2. CASE ~ (m.term = seen.term /\ matchEntries(seen, m.prevIndex, m.prevTerm))
    <3>1. res.node = seen /\ res.outcome = FALSE
      BY <2>2
    <3>2. seen.commitIndex >= seen.commitIndex
      BY <1>2 DEF NodeOK, Node
    <3> QED BY <1>2, <3>1, <3>2 DEF Keeps
  <2> QED BY <2>1, <2>2
<1>6. appendEntries(n, m) = [node |-> res.node,
         ack  |-> [req |-> m, term |-> seen.term,
                   logSize |-> LogSize(res.node), outcome |-> res.outcome]]
  BY DEF appendEntries, seen
<1> HIDE DEF res
<1>7. seen.term \in Term /\ LogSize(res.node) \in Nat \ {0}
  BY <1>2, <1>5 DEF NodeOK, Node, LogSize
<1>8. Keeps(n, res.node)
  BY <1>2, <1>5 DEF Keeps
<1> QED
  BY <1>5, <1>6, <1>7, <1>8 DEF Ack

-----------------------------------------------------------------------------
(* Type correctness *)

\* TypeOK, and the fact that only finitely many replies are under way, which
\* makes the highest term among them well defined.
TypeInv == TypeOK /\ IsFiniteSet(voteReplies)

NodesOK == node \in [Server -> Node] /\ \A i \in Server : node[i].commitIndex < Len(node[i].log)

LEMMA TypeInit == Init => TypeInv
<1> SUFFICES ASSUME Init PROVE TypeInv
  OBVIOUS
<1>1. NodeOK(FreshNode)
  BY DEF FreshNode, NodeOK, Node, Entry, Term
<1>2. NodesOK
  BY <1>1 DEF Init, NodeOK, NodesOK
<1>3. IdleDirector \in Director /\ NewTracker \in Tracker
  BY DEF IdleDirector, Director, NewTracker, Tracker, Term
<1> QED
  BY <1>2, <1>3, FS_EmptySet DEF Init, TypeInv, TypeOK, NodesOK, Term

LEMMA NodesStep ==
    ASSUME NodesOK, NEW i \in Server, NEW n, NodeOK(n), node' = [node EXCEPT ![i] = n]
    PROVE  NodesOK'
<1>1. \A j \in Server : node'[j] = IF j = i THEN n ELSE node[j]
  BY DEF NodesOK
<1>2. \A j \in Server : NodeOK(node'[j])
  BY <1>1 DEF NodesOK, NodeOK
<1>3. node' = [j \in Server |-> node'[j]]
  BY DEF NodesOK
<1> QED
  BY <1>2, <1>3 DEF NodesOK, NodeOK

LEMMA PreparedType ==
    ASSUME TypeInv, NEW i \in Server
    PROVE  Prepared(i) \in Director
<1>1. /\ node[i].log \in Seq(Entry) /\ Len(node[i].log) \in Nat /\ Len(node[i].log) > 0
      /\ node[i].term \in Nat
  BY DEF TypeInv, TypeOK, Node, Term
<1>2. node[i].log[Len(node[i].log)] \in Entry
  BY <1>1
<1>3. (Len(node[i].log) - 1) + 1 = Len(node[i].log)
  BY <1>1
<1> QED
  BY <1>1, <1>2, <1>3 DEF Prepared, Director, LogSize, LastTerm, TermAt, Entry, Term

LEMMA CommitAfterType ==
    ASSUME TypeInv, NEW a \in acks
    PROVE  /\ MatchAfter(a.req.leader, a) \in [Server \ {a.req.leader} -> Nat]
           /\ CommitAfter(a.req.leader, a) \in Nat
<1> DEFINE i == a.req.leader
<1>1. a \in Ack /\ a.req.leader # a.req.target
  BY DEF TypeInv, TypeOK
<1>2. i \in Server /\ a.req.target \in Server \ {i} /\ a.logSize \in Nat \ {0}
  BY <1>1 DEF Ack, AppReq
<1>3. \A k \in Server : tracker[i][k].match \in Nat
  BY <1>2 DEF TypeInv, TypeOK, Tracker
<1>4. MatchAfter(i, a) \in [Server \ {i} -> Nat]
  BY <1>2, <1>3 DEF MatchAfter
<1>5. CommitCandidate(MatchAfter(i, a)) \in Nat
  BY <1>2, <1>4, CommitCandidateType
<1> QED
  BY <1>4, <1>5 DEF CommitAfter

LEMMA TypeStep == TypeInv /\ [Next]_vars => TypeInv'
<1> SUFFICES ASSUME TypeInv, [Next]_vars PROVE TypeInv'
  OBVIOUS
<1>0. NodesOK /\ \A i \in Server : NodeOK(node[i])
  BY DEF TypeInv, TypeOK, NodesOK, NodeOK
<1>a. Nobody \in Server \cup {Nobody}
  OBVIOUS
<1>b. IdleDirector \in Director /\ NewTracker \in Tracker
  BY DEF IdleDirector, Director, NewTracker, Tracker, Term
<1>c. \A i \in Server : node[i].term \in Nat /\ LogSize(node[i]) \in Nat \ {0}
  BY <1>0 DEF NodeOK, Node, Term, LogSize
<1>d. \A i \in Server : Prepared(i) \in Director
  BY PreparedType
<1>1. ASSUME NEW i \in Server, ObserveTerm(i) PROVE TypeInv'
  <2>1. node[i].term + 1 \in Term
    BY <1>c DEF Term
  <2>2. NodeOK(observed(node[i], node[i].term + 1, Nobody))
    BY <1>0, <1>a, <2>1, ObservedType
  <2>3. node' = [node EXCEPT ![i] = observed(node[i], node[i].term + 1, Nobody)]
    BY <1>1 DEF ObserveTerm
  <2>4. NodesOK'
    BY <1>0, <2>2, <2>3, NodesStep
  <2> QED
    BY <1>1, <2>4 DEF ObserveTerm, TypeInv, TypeOK, NodesOK, net
<1>2. ASSUME NEW i \in Server, RunForLeader(i) PROVE TypeInv'
  BY <1>2, <1>d DEF RunForLeader, TypeInv, TypeOK, net
<1>3. ASSUME NEW i \in Server, AbandonElection(i) PROVE TypeInv'
  BY <1>3, <1>b DEF AbandonElection, TypeInv, TypeOK, net
<1>4. ASSUME NEW i \in Server, BeginElection(i) PROVE TypeInv'
  <2> DEFINE d == IF "prevote" \in Windows THEN director[i] ELSE Prepared(i)
             n == observed(node[i], d.term, Nobody)
             sent == {[term |-> d.term, candidate |-> i, to |-> j,
                       lastIndex |-> d.lastIndex, lastTerm |-> d.lastTerm] : j \in Server \ {i}}
  <2>1. d \in Director
    BY <1>d DEF TypeInv, TypeOK
  <2>2. /\ node' = [node EXCEPT ![i] = becomeCandidate(n, i)]
        /\ director' = [director EXCEPT ![i] = [d EXCEPT !.phase = "electing"]]
        /\ voteReqs' = voteReqs \cup sent
        /\ elections' = elections + 1
        /\ UNCHANGED <<writer, repl, tracker, voteReplies, heartbeats, appReqs, acks,
                       elected, faults>>
    BY <1>4 DEF BeginElection
  <2> HIDE DEF d
  <2>3. NodeOK(n)
    BY <1>0, <1>a, <2>1, ObservedType DEF Director
  <2> HIDE DEF n
  <2>4. NodesOK'
    BY <1>0, <2>2, <2>3, BecomeCandidateType, NodesStep
  <2>5. sent \subseteq VoteReq
    BY <2>1 DEF VoteReq, Director
  <2>6. [d EXCEPT !.phase = "electing"] \in Director
    BY <2>1 DEF Director
  <2> HIDE DEF sent
  <2> QED
    BY <2>2, <2>4, <2>5, <2>6 DEF TypeInv, TypeOK, NodesOK
<1>5. ASSUME NEW q \in voteReqs, RequestVote(q) PROVE TypeInv'
  <2> DEFINE n == observed(node[q.to], q.term, Nobody)
             v == VoteOn(n, q)
             r == [from |-> q.to, to |-> q.candidate, term |-> n.term, vote |-> v]
  <2>1. q \in VoteReq /\ q.to \in Server /\ q.candidate \in Server /\ q.term \in Term
    BY DEF TypeInv, TypeOK, VoteReq
  <2>2. NodeOK(n)
    BY <1>0, <1>a, <2>1, ObservedType
  <2>3. /\ node' = [node EXCEPT ![q.to] = IF v = "GRANTED" THEN grantVote(n, q.candidate) ELSE n]
        /\ voteReqs' = voteReqs \ {q}
        /\ voteReplies' = voteReplies \cup {r} \/ voteReplies' = voteReplies
        /\ UNCHANGED <<director, writer, repl, tracker, heartbeats, appReqs, acks,
                       elected, elections, faults>>
    BY <1>5 DEF RequestVote
  <2>4. v \in Vote
    BY DEF VoteOn, Vote
  <2> HIDE DEF v
  <2>5. r \in VoteReply
    BY <2>1, <2>2, <2>4 DEF VoteReply, NodeOK, Node
  <2> HIDE DEF n, r
  <2>6. NodesOK'
    <3>1. NodeOK(IF v = "GRANTED" THEN grantVote(n, q.candidate) ELSE n)
      BY <2>1, <2>2, GrantVoteType
    <3> QED BY <1>0, <2>1, <2>3, <3>1, NodesStep
  <2>7. IsFiniteSet(voteReplies')
    BY <2>3, FS_AddElement DEF TypeInv
  <2> QED
    BY <2>3, <2>5, <2>6, <2>7 DEF TypeInv, TypeOK, NodesOK
<1>6. ASSUME NEW i \in Server, NEW R \in SUBSET {r \in voteReplies : r.to = i},
             NEW late \in SUBSET {q \in voteReqs : q.candidate = i}, ConcludeElection(i, R, late)
      PROVE  TypeInv'
  <2> DEFINE d == director[i]
             n == observeTerms(node[i], R)
  <2>1. d \in Director /\ R \subseteq VoteReply /\ IsFiniteSet(R) /\ late \subseteq VoteReq
    BY FS_Subset DEF TypeInv, TypeOK
  <2>2. NodeOK(n)
    BY <1>0, <2>1, ObserveTermsType
  <2>3. \E won \in BOOLEAN :
          /\ node' = [node EXCEPT ![i] = IF won THEN ascend(n, i, d.term) ELSE dropOut(n, d.term)]
          /\ elected' = IF won THEN elected \cup {<<i, d.term>>} ELSE elected
    BY <1>6 DEF ConcludeElection
  <2>4. /\ director' = [director EXCEPT ![i] = IdleDirector]
        /\ voteReplies' = {r \in voteReplies : r.to # i}
        /\ voteReqs' = {q \in voteReqs : q.candidate # i} \cup late
        /\ UNCHANGED <<writer, repl, tracker, heartbeats, appReqs, acks, elections, faults>>
    BY <1>6 DEF ConcludeElection
  <2>5. d.term \in Term
    BY <2>1 DEF Director
  <2> HIDE DEF n, d
  <2>6. NodesOK'
    <3>1. NodeOK(ascend(n, i, d.term)) /\ NodeOK(dropOut(n, d.term))
      BY <2>2, <2>5, AscendType, DropOutType
    <3>2. \E k : NodeOK(k) /\ node' = [node EXCEPT ![i] = k]
      BY <2>3, <3>1
    <3> QED BY <1>0, <3>2, NodesStep
  <2>7. elected' \subseteq Server \X Term
    BY <2>3, <2>5 DEF TypeInv, TypeOK
  <2>8. IsFiniteSet(voteReplies')
    BY <2>4, FS_Subset DEF TypeInv
  <2> QED
    BY <2>1, <2>4, <2>6, <2>7, <2>8, <1>b DEF TypeInv, TypeOK, NodesOK
<1>7. ASSUME NEW i \in Server, ActivateReplicator(i) PROVE TypeInv'
  <2>1. \A j \in Server : [NewTracker EXCEPT !.next = IF j = i THEN 0 ELSE LogSize(node[i])] \in Tracker
    BY <1>b, <1>c DEF Tracker
  <2>2. tracker' \in [Server -> [Server -> Tracker]]
    BY <1>7, <2>1 DEF ActivateReplicator, TypeInv, TypeOK
  <2>3. <<i, node[i].term>> \in Server \X Term
    BY <1>c DEF Term
  <2> QED
    BY <1>7, <1>c, <2>2, <2>3 DEF ActivateReplicator, TypeInv, TypeOK, Term
<1>8. ASSUME NEW i \in Server, DeactivateReplicator(i) PROVE TypeInv'
  BY <1>8, <1>b DEF DeactivateReplicator, TypeInv, TypeOK, Term
<1>9. ASSUME NEW j \in Server, NEW h \in heartbeats, Heartbeat(j, h) PROVE TypeInv'
  <2>1. h[1] \in Server \cup {Nobody} /\ h[2] \in Term
    BY DEF TypeInv, TypeOK
  <2>2. NodeOK(observed(node[j], h[2], h[1]))
    BY <1>0, <2>1, ObservedType
  <2>3. node' = [node EXCEPT ![j] = observed(node[j], h[2], h[1])]
    BY <1>9 DEF Heartbeat
  <2>4. NodesOK'
    BY <1>0, <2>2, <2>3, NodesStep
  <2> QED
    BY <1>9, <2>4 DEF Heartbeat, TypeInv, TypeOK, NodesOK, net
<1>10. ASSUME NEW i \in Server, NEW j \in Server, NEW limit \in PayloadLimits, SendPayload(i, j, limit)
       PROVE  TypeInv'
  <2> DEFINE n    == node[i]
             next == tracker[i][j].next
             size == PayloadSize(n, next, limit)
             m    == [term |-> repl[i], leader |-> i, target |-> j, prevIndex |-> next - 1,
                      prevTerm |-> TermAt(n.log, next - 1), commitIndex |-> n.commitIndex,
                      entries |-> SubSeq(n.log, next + 1, next + size)]
  <2>1. /\ i # j /\ next > 0 /\ next <= LogSize(n)
        /\ tracker' = [tracker EXCEPT ![i][j].inflight = {m}]
        /\ appReqs' = appReqs \cup {m}
        /\ UNCHANGED <<node, director, writer, repl, voteReqs, voteReplies, heartbeats, acks,
                       elected, elections, faults>>
    BY <1>10 DEF SendPayload, CanSend, Readable
  <2>2. /\ n.log \in Seq(Entry) /\ n.commitIndex \in Nat /\ LogSize(n) = Len(n.log)
        /\ Len(n.log) \in Nat /\ repl[i] \in Term
    BY <1>0 DEF NodeOK, Node, LogSize, TypeInv, TypeOK
  <2>3. tracker[i][j] \in Tracker /\ next \in Nat \cup {-1} /\ limit \in Nat
    BY BoundAssumption DEF TypeInv, TypeOK, Tracker
  <2>4. next \in 1..Len(n.log) /\ (next - 1) + 1 = next /\ size \in Nat
        /\ next + size <= Len(n.log)
    BY <2>1, <2>2, <2>3 DEF PayloadSize
  <2>5. n.log[next] \in Entry
    BY <2>2, <2>4
  <2>6. TermAt(n.log, next - 1) \in Term
    BY <2>4, <2>5 DEF TermAt, Entry
  <2> HIDE DEF size
  <2>7. SubSeq(n.log, next + 1, next + size) \in Seq(Entry)
    <3> DEFINE p == next + 1
               q == next + size
    <3>1. p \in Nat /\ q \in Nat /\ 1 <= p /\ q <= Len(n.log)
      BY <2>2, <2>4
    <3> HIDE DEF p, q, n
    <3>2. \A x \in p..q : n.log[x] \in Entry
      BY <2>2, <3>1
    <3>3. SubSeq(n.log, p, q) \in Seq(Entry)
      BY <2>2, <3>1, <3>2
    <3> QED BY <3>3 DEF p, q
  <2>8. m \in AppReq /\ m.leader # m.target
    BY <2>1, <2>2, <2>4, <2>6, <2>7 DEF AppReq
  <2> HIDE DEF m
  <2>9. [tracker[i][j] EXCEPT !.inflight = {m}] \in Tracker
    BY <2>3, <2>8 DEF Tracker
  <2>10. tracker' = [tracker EXCEPT ![i] = [tracker[i] EXCEPT ![j] = [tracker[i][j] EXCEPT !.inflight = {m}]]]
    BY <2>1
  <2>11. tracker' \in [Server -> [Server -> Tracker]]
    BY <2>9, <2>10 DEF TypeInv, TypeOK
  <2>12. \A x \in appReqs' \cup {a.req : a \in acks'} : x.leader # x.target
    BY <2>1, <2>8 DEF TypeInv, TypeOK
  <2> QED
    BY <2>1, <2>8, <2>11, <2>12 DEF TypeInv, TypeOK
<1>h. ASSUME NEW i \in Server, NEW j \in Server, NEW limit \in PayloadLimits, HaltReplication(i, j, limit)
      PROVE  TypeInv'
  <2>1. /\ node' = [node EXCEPT ![i] = observed(node[i], repl[i] + 1, Nobody)]
        /\ tracker' = [tracker EXCEPT ![i][j].next = -1]
        /\ UNCHANGED <<director, writer, repl, net, elected, elections, faults>>
    BY <1>h DEF HaltReplication
  <2>2. repl[i] + 1 \in Term /\ tracker[i][j] \in Tracker
    BY DEF TypeInv, TypeOK, Term
  <2>3. NodesOK'
    BY <1>0, <1>a, <2>1, <2>2, ObservedType, NodesStep
  <2>4. [tracker[i][j] EXCEPT !.next = -1] \in Tracker
    BY <2>2 DEF Tracker
  <2>5. tracker' = [tracker EXCEPT ![i] = [tracker[i] EXCEPT ![j] = [tracker[i][j] EXCEPT !.next = -1]]]
    BY <2>1
  <2>6. tracker' \in [Server -> [Server -> Tracker]]
    BY <2>4, <2>5 DEF TypeInv, TypeOK
  <2> QED
    BY <2>1, <2>3, <2>6 DEF TypeInv, TypeOK, NodesOK, net
<1>11. ASSUME NEW m \in appReqs, AppendEntries(m) PROVE TypeInv'
  <2> DEFINE j == m.target
             r == appendEntries(node[j], m)
  <2>1. m \in AppReq /\ j \in Server /\ m.leader # m.target
    BY DEF TypeInv, TypeOK, AppReq
  <2>2. m.term >= node[j].term => ~ AppendCrashes(node[j], m)
    BY <1>11 DEF AppendEntries, RequestCrashes
  <2>3. NodeOK(r.node) /\ r.ack \in Ack /\ r.ack.req = m
    BY <1>0, <2>1, <2>2, AppendEntriesType
  <2>4. /\ node' = [node EXCEPT ![j] = r.node]
        /\ appReqs' = appReqs \ {m}
        /\ acks' = acks \cup {r.ack} \/ acks' = acks
        /\ UNCHANGED <<director, writer, repl, tracker, voteReqs, voteReplies, heartbeats,
                       elected, elections, faults>>
    BY <1>11 DEF AppendEntries
  <2> HIDE DEF r
  <2>5. NodesOK'
    BY <1>0, <2>1, <2>3, <2>4, NodesStep
  <2>6. \A x \in appReqs' \cup {a.req : a \in acks'} : x.leader # x.target
    BY <2>1, <2>3, <2>4 DEF TypeInv, TypeOK
  <2> QED
    BY <2>3, <2>4, <2>5, <2>6 DEF TypeInv, TypeOK, NodesOK
<1>12. ASSUME NEW a \in acks, HandleAck(a) PROVE TypeInv'
  <2> DEFINE i == a.req.leader
             j == a.req.target
             n == observed(node[i], a.term, Nobody)
             t == tracker[i][j]
             c == CommitAfter(i, a)
             new == IF a.term > repl[i] THEN n ELSE setCommitIndex(n, c)
             rec == [next |-> IF Current(n, repl[i]) THEN NextIndex(t.next, a) ELSE -1,
                     inflight |-> {},
                     match |-> IF a.term > repl[i] THEN t.match ELSE MatchAfter(i, a)[j]]
  <2>1. /\ a \in Ack /\ i \in Server /\ j \in Server /\ i # j /\ a.term \in Term
        /\ a.logSize \in Nat \ {0}
    <3>1. a \in Ack /\ i # j
      BY DEF TypeInv, TypeOK
    <3> QED BY <3>1 DEF Ack, AppReq
  <2>2. t \in Tracker /\ t.next \in Nat \cup {-1} /\ t.match \in Nat
    BY <2>1 DEF TypeInv, TypeOK, Tracker
  <2>4. MatchAfter(i, a) \in [Server \ {i} -> Nat] /\ c \in Nat
    BY CommitAfterType
  <2>5. NextIndex(t.next, a) \in Nat
    BY <2>1, <2>2 DEF NextIndex
  <2>6. NodeOK(n) /\ n.log = node[i].log
    BY <1>0, <1>a, <2>1, ObservedType
  <2>7. c < Len(n.log)
    <3>1. ~ (c >= LogSize(node[i]))
      BY <1>12 DEF HandleAck, AckCrashes
    <3> QED BY <1>c, <2>1, <2>4, <2>6, <3>1 DEF LogSize
  <2>8. /\ acks' = acks \ {a}
        /\ node' = [node EXCEPT ![i] = new]
        /\ tracker' = [tracker EXCEPT ![i][j] = rec]
        /\ UNCHANGED <<director, writer, repl, voteReqs, voteReplies, heartbeats, appReqs,
                       elected, elections, faults>>
    BY <1>12 DEF HandleAck
  <2>9. MatchAfter(i, a)[j] \in Nat
    BY <2>1, <2>4
  <2>10. rec \in Tracker
    BY <2>2, <2>5, <2>9 DEF Tracker
  <2> HIDE DEF rec, n, c
  <2>11. NodeOK(new)
    BY <2>4, <2>6, <2>7, SetCommitIndexType
  <2> HIDE DEF new, i, j
  <2>12. NodesOK'
    BY <1>0, <2>1, <2>8, <2>11, NodesStep
  <2>13. tracker' = [tracker EXCEPT ![i] = [tracker[i] EXCEPT ![j] = rec]]
    BY <2>8
  <2>14. tracker' \in [Server -> [Server -> Tracker]]
    BY <2>1, <2>10, <2>13 DEF TypeInv, TypeOK
  <2> QED
    BY <2>8, <2>12, <2>14 DEF TypeInv, TypeOK, NodesOK
<1>13. ASSUME NEW i \in Server, NEW j \in Server, NEW lost \in BOOLEAN, AckTimeout(i, j, lost)
       PROVE  TypeInv'
  <2> DEFINE rec == [tracker[i][j] EXCEPT !.inflight = {},
                        !.next = IF Current(node[i], repl[i]) THEN tracker[i][j].next ELSE -1]
  <2>1. tracker[i][j] \in Tracker
    BY DEF TypeInv, TypeOK
  <2>2. rec \in Tracker
    BY <2>1 DEF Tracker
  <2>3. tracker' = [tracker EXCEPT ![i] = [tracker[i] EXCEPT ![j] = rec]]
    BY <1>13, <2>1 DEF AckTimeout, TypeInv, TypeOK, Tracker
  <2> HIDE DEF rec
  <2>4. tracker' \in [Server -> [Server -> Tracker]]
    BY <2>2, <2>3 DEF TypeInv, TypeOK
  <2>5. acks' \subseteq acks /\ appReqs' \subseteq appReqs
    BY <1>13 DEF AckTimeout
  <2> QED
    BY <1>13, <2>4, <2>5 DEF AckTimeout, TypeInv, TypeOK
<1>14. ASSUME NEW m \in appReqs, LoseRequest(m) PROVE TypeInv'
  BY <1>14 DEF LoseRequest, TypeInv, TypeOK
<1>15. ASSUME NEW i \in Server, ServiceBegin(i) PROVE TypeInv'
  BY <1>15, <1>c DEF ServiceBegin, TypeInv, TypeOK, net, Term
<1>16. ASSUME NEW i \in Server, NEW v \in Value, ServiceAppend(i, v) PROVE TypeInv'
  <2> DEFINE term == IF "write" \in Windows THEN writer[i] ELSE node[i].term
  <2>1. term \in Term
    BY <1>c DEF TypeInv, TypeOK, Term
  <2>2. node' = [node EXCEPT ![i] = appendEntry(node[i], term, v)] \/ node' = node
    BY <1>16 DEF ServiceAppend
  <2>3. NodeOK(appendEntry(node[i], term, v))
    BY <1>0, <2>1, AppendEntryType
  <2> HIDE DEF term
  <2>4. NodesOK'
    <3>1. CASE node' = node
      BY <3>1, <1>0 DEF NodesOK
    <3>2. CASE node' = [node EXCEPT ![i] = appendEntry(node[i], term, v)]
      BY <3>2, <1>0, <2>3, NodesStep
    <3> QED BY <2>2, <3>1, <3>2
  <2> QED
    BY <1>16, <2>4 DEF ServiceAppend, TypeInv, TypeOK, NodesOK, net, Term
<1>17. ASSUME NEW i \in Server, Restart(i) PROVE TypeInv'
  <2> DEFINE n == [node[i] EXCEPT !.term = node[i].currentTerm, !.votedFor = node[i].journalVote,
                    !.status = "FOLLOWER", !.leader = Nobody, !.leadershipMarker = -1]
  <2>1. NodeOK(n)
    BY <1>0 DEF NodeOK, Node
  <2>2. node' = [node EXCEPT ![i] = n]
    BY <1>17 DEF Restart
  <2> HIDE DEF n
  <2>3. NodesOK'
    BY <1>0, <2>1, <2>2, NodesStep
  <2>4. IsFiniteSet(voteReplies') /\ voteReplies' \subseteq voteReplies /\ acks' \subseteq acks
    BY <1>17, FS_Subset DEF Restart, TypeInv
  <2>5. tracker' \in [Server -> [Server -> Tracker]]
    BY <1>17, <1>b DEF Restart, TypeInv, TypeOK
  <2> QED
    BY <1>17, <1>b, <2>3, <2>4, <2>5 DEF Restart, TypeInv, TypeOK, NodesOK, Term
<1>18. CASE UNCHANGED vars
  BY <1>18 DEF vars, net, TypeInv, TypeOK
<1> QED
  BY <1>1, <1>2, <1>3, <1>4, <1>5, <1>6, <1>7, <1>8, <1>9, <1>10, <1>h, <1>11, <1>12, <1>13,
     <1>14, <1>15, <1>16, <1>17, <1>18 DEF Next

\* Every variable keeps its type, a log is never emptied, and the commit index
\* never leaves it: whatever appendEntries truncates, whatever order requests,
\* acknowledgements, restarts and elections come in, for every cluster size.
THEOREM TypeCorrect == Spec => []TypeOK
<1>1. Spec => []TypeInv
  BY TypeInit, TypeStep, PTL DEF Spec
<1>2. TypeInv => TypeOK
  BY DEF TypeInv
<1> QED
  BY <1>1, <1>2, PTL

-----------------------------------------------------------------------------
(* Operations keep the committed part of a log *)

LEMMA KeepsItself ==
    ASSUME NEW n, NodeOK(n), NEW m, m.log = n.log, m.commitIndex = n.commitIndex
    PROVE  Keeps(n, m)
<1>1. n.commitIndex >= n.commitIndex
  BY DEF NodeOK, Node
<1> QED
  BY <1>1 DEF Keeps

\* Keeping the same entries one by one is keeping the same prefix.
LEMMA KeptPrefix ==
    ASSUME NEW n, NEW m, NodeOK(n), NodeOK(m), Keeps(n, m)
    PROVE  SubSeq(m.log, 1, n.commitIndex + 1) = SubSeq(n.log, 1, n.commitIndex + 1)
<1> DEFINE c == n.commitIndex + 1
<1>1. /\ n.log \in Seq(Entry) /\ m.log \in Seq(Entry) /\ c \in Nat
      /\ c <= Len(n.log) /\ c <= Len(m.log) /\ 1 <= c
  BY DEF NodeOK, Node, Keeps
<1>2. \A k \in 1..c : m.log[k] = n.log[k] /\ m.log[k] \in Entry /\ n.log[k] \in Entry
  BY <1>1 DEF Keeps
<1> HIDE DEF c
<1>3. /\ SubSeq(m.log, 1, c) \in Seq(Entry) /\ Len(SubSeq(m.log, 1, c)) = c
      /\ \A k \in 1..c : SubSeq(m.log, 1, c)[k] = m.log[k]
  BY <1>1, <1>2
<1>4. /\ SubSeq(n.log, 1, c) \in Seq(Entry) /\ Len(SubSeq(n.log, 1, c)) = c
      /\ \A k \in 1..c : SubSeq(n.log, 1, c)[k] = n.log[k]
  BY <1>1, <1>2
<1>5. SubSeq(m.log, 1, c) = SubSeq(n.log, 1, c)
  <2> DEFINE s == SubSeq(m.log, 1, c)
             t == SubSeq(n.log, 1, c)
  <2>1. s \in Seq(Entry) /\ t \in Seq(Entry) /\ Len(s) = Len(t) /\ \A k \in 1..Len(s) : s[k] = t[k]
    BY <1>2, <1>3, <1>4
  <2> HIDE DEF s, t
  <2>2. s = t
    BY <2>1, SeqEqual
  <2> QED BY <2>2 DEF s, t
<1> QED
  BY <1>5 DEF c

LEMMA AppendEntryKeeps ==
    ASSUME NEW n, NodeOK(n), NEW term \in Term,
           NEW request \in Server \cup Value \cup {Nobody}
    PROVE  Keeps(n, appendEntry(n, term, request))
<1> DEFINE e == [term |-> term, request |-> request]
<1>1. e \in Entry
  BY DEF Entry
<1>2. /\ n \in Node /\ n.log \in Seq(Entry) /\ n.commitIndex \in Nat
      /\ n.commitIndex < Len(n.log) /\ Len(n.log) \in Nat
  BY DEF NodeOK, Node
<1> HIDE DEF e
<1>3. \A k \in 1..(n.commitIndex + 1) : k \in 1..Len(n.log)
  BY <1>2
<1>4. \A k \in 1..(n.commitIndex + 1) : Append(n.log, e)[k] = n.log[k]
  BY <1>1, <1>2, <1>3
<1>5. /\ appendEntry(n, term, request).log = Append(n.log, e)
      /\ appendEntry(n, term, request).commitIndex = n.commitIndex
  BY <1>2 DEF appendEntry, e, Node
<1> QED
  BY <1>2, <1>4, <1>5 DEF Keeps

LEMMA ObserveTermsKeeps ==
    ASSUME NEW n, NodeOK(n), NEW R, R \subseteq VoteReply, IsFiniteSet(R)
    PROVE  observeTerms(n, R).log = n.log /\ observeTerms(n, R).commitIndex = n.commitIndex
BY ObserveTermsCases, ObservedType DEF Term

-----------------------------------------------------------------------------
NodesKeep == \A i \in Server : Keeps(node[i], node'[i])

LEMMA KeepStep ==
    ASSUME TypeInv, NEW i \in Server, NEW n, Keeps(node[i], n), node' = [node EXCEPT ![i] = n]
    PROVE  NodesKeep
<1>1. \A j \in Server : node'[j] = IF j = i THEN n ELSE node[j]
  BY DEF TypeInv, TypeOK
<1>2. \A j \in Server : NodeOK(node[j])
  BY DEF TypeInv, TypeOK, NodeOK
<1>3. \A j \in Server : Keeps(node[j], node[j])
  BY <1>2, KeepsItself
<1> QED
  BY <1>1, <1>3 DEF NodesKeep

LEMMA CommittedStep == TypeInv /\ [Next]_vars => NodesKeep
<1> SUFFICES ASSUME TypeInv, [Next]_vars PROVE NodesKeep
  OBVIOUS
<1>0. \A i \in Server : NodeOK(node[i]) /\ node[i].term \in Nat
  BY DEF TypeInv, TypeOK, NodeOK, Node, Term
<1>a. Nobody \in Server \cup {Nobody}
  OBVIOUS
<1>b. CASE UNCHANGED node
  <2>1. \A i \in Server : Keeps(node[i], node[i])
    BY <1>0, KeepsItself
  <2> QED BY <1>b, <2>1 DEF NodesKeep
<1>1. ASSUME NEW i \in Server, ObserveTerm(i) PROVE NodesKeep
  <2>1. node[i].term + 1 \in Term
    BY <1>0 DEF Term
  <2>2. Keeps(node[i], observed(node[i], node[i].term + 1, Nobody))
    BY <1>0, <1>a, <2>1, ObservedType, KeepsItself
  <2>3. node' = [node EXCEPT ![i] = observed(node[i], node[i].term + 1, Nobody)]
    BY <1>1 DEF ObserveTerm
  <2> QED BY <2>2, <2>3, KeepStep
<1>2. ASSUME NEW i \in Server, BeginElection(i) PROVE NodesKeep
  <2> DEFINE d == IF "prevote" \in Windows THEN director[i] ELSE Prepared(i)
             n == observed(node[i], d.term, Nobody)
  <2>1. d.term \in Term
    BY PreparedType DEF TypeInv, TypeOK, Director
  <2>2. node' = [node EXCEPT ![i] = becomeCandidate(n, i)]
    BY <1>2 DEF BeginElection
  <2> HIDE DEF d
  <2>3. NodeOK(n) /\ n.log = node[i].log /\ n.commitIndex = node[i].commitIndex
    BY <1>0, <1>a, <2>1, ObservedType
  <2> HIDE DEF n
  <2>4. becomeCandidate(n, i).log = n.log /\ becomeCandidate(n, i).commitIndex = n.commitIndex
    BY <2>3 DEF becomeCandidate, updateJournal, updateStatus, NodeOK, Node
  <2>5. Keeps(node[i], becomeCandidate(n, i))
    BY <1>0, <2>3, <2>4, KeepsItself
  <2> QED BY <2>2, <2>5, KeepStep
<1>3. ASSUME NEW q \in voteReqs, RequestVote(q) PROVE NodesKeep
  <2> DEFINE n == observed(node[q.to], q.term, Nobody)
             m == IF VoteOn(n, q) = "GRANTED" THEN grantVote(n, q.candidate) ELSE n
  <2>1. q.to \in Server /\ q.term \in Term
    BY DEF TypeInv, TypeOK, VoteReq
  <2>2. NodeOK(n) /\ n.log = node[q.to].log /\ n.commitIndex = node[q.to].commitIndex
    BY <1>0, <1>a, <2>1, ObservedType
  <2>3. node' = [node EXCEPT ![q.to] = m]
    BY <1>3 DEF RequestVote
  <2> HIDE DEF n
  <2>4. m.log = n.log /\ m.commitIndex = n.commitIndex
    BY <2>2 DEF grantVote, updateJournal, NodeOK, Node
  <2> HIDE DEF m
  <2>5. Keeps(node[q.to], m)
    BY <1>0, <2>1, <2>2, <2>4, KeepsItself
  <2> QED BY <2>1, <2>3, <2>5, KeepStep
<1>4. ASSUME NEW i \in Server, NEW R \in SUBSET {r \in voteReplies : r.to = i},
             NEW late \in SUBSET {q \in voteReqs : q.candidate = i}, ConcludeElection(i, R, late)
      PROVE  NodesKeep
  <2> DEFINE t == director[i].term
             n == observeTerms(node[i], R)
  <2>1. R \subseteq VoteReply /\ IsFiniteSet(R) /\ t \in Term
    BY FS_Subset DEF TypeInv, TypeOK, Director
  <2>2. NodeOK(n) /\ n.log = node[i].log /\ n.commitIndex = node[i].commitIndex
    BY <1>0, <2>1, ObserveTermsType, ObserveTermsKeeps
  <2>3. node' = [node EXCEPT ![i] = ascend(n, i, t)] \/ node' = [node EXCEPT ![i] = dropOut(n, t)]
    BY <1>4 DEF ConcludeElection
  <2> HIDE DEF n, t
  <2>4. dropOut(n, t).log = n.log /\ dropOut(n, t).commitIndex = n.commitIndex
    BY <2>2 DEF dropOut, updateStatus, NodeOK, Node
  <2>5. Keeps(node[i], dropOut(n, t))
    BY <1>0, <2>2, <2>4, KeepsItself
  <2>6. Keeps(node[i], ascend(n, i, t))
    <3>1. Keeps(n, appendEntry(n, t, i)) /\ NodeOK(appendEntry(n, t, i))
      BY <2>1, <2>2, AppendEntryKeeps, AppendEntryType
    <3>2. /\ ascend(n, i, t).log = appendEntry(n, t, i).log
          /\ ascend(n, i, t).commitIndex = appendEntry(n, t, i).commitIndex
      <4> DEFINE m == appendEntry(n, t, i)
      <4>1. ascend(n, i, t) = updateStatus([m EXCEPT !.leader = i, !.leadershipMarker = LogSize(n)], "LEADER")
        BY DEF ascend
      <4> HIDE DEF m
      <4>2. NodeOK(m)
        BY <3>1 DEF m
      <4>3. ascend(n, i, t).log = m.log /\ ascend(n, i, t).commitIndex = m.commitIndex
        BY <4>1, <4>2 DEF updateStatus, NodeOK, Node
      <4> QED BY <4>3 DEF m
    <3> QED BY <2>2, <3>1, <3>2 DEF Keeps
  <2>7. CASE node' = [node EXCEPT ![i] = ascend(n, i, t)]
    BY <2>6, <2>7, KeepStep
  <2>8. CASE node' = [node EXCEPT ![i] = dropOut(n, t)]
    BY <2>5, <2>8, KeepStep
  <2> QED BY <2>3, <2>7, <2>8
<1>5. ASSUME NEW j \in Server, NEW h \in heartbeats, Heartbeat(j, h) PROVE NodesKeep
  <2>1. h[1] \in Server \cup {Nobody} /\ h[2] \in Term
    BY DEF TypeInv, TypeOK
  <2>2. Keeps(node[j], observed(node[j], h[2], h[1]))
    BY <1>0, <2>1, ObservedType, KeepsItself
  <2>3. node' = [node EXCEPT ![j] = observed(node[j], h[2], h[1])]
    BY <1>5 DEF Heartbeat
  <2> QED BY <2>2, <2>3, KeepStep
<1>h. ASSUME NEW i \in Server, NEW j \in Server, NEW limit \in PayloadLimits, HaltReplication(i, j, limit)
      PROVE  NodesKeep
  <2>1. node' = [node EXCEPT ![i] = observed(node[i], repl[i] + 1, Nobody)]
    BY <1>h DEF HaltReplication
  <2>2. repl[i] + 1 \in Term
    BY DEF TypeInv, TypeOK, Term
  <2>3. Keeps(node[i], observed(node[i], repl[i] + 1, Nobody))
    BY <1>0, <1>a, <2>2, ObservedType, KeepsItself
  <2> QED BY <2>1, <2>3, KeepStep
<1>6. ASSUME NEW m \in appReqs, AppendEntries(m) PROVE NodesKeep
  <2>1. m \in AppReq /\ m.target \in Server
    BY DEF TypeInv, TypeOK, AppReq
  <2>2. m.term >= node[m.target].term => ~ AppendCrashes(node[m.target], m)
    BY <1>6 DEF AppendEntries, RequestCrashes
  <2>3. Keeps(node[m.target], appendEntries(node[m.target], m).node)
    BY <1>0, <2>1, <2>2, AppendEntriesType
  <2>4. node' = [node EXCEPT ![m.target] = appendEntries(node[m.target], m).node]
    BY <1>6 DEF AppendEntries
  <2> QED BY <2>1, <2>3, <2>4, KeepStep
<1>7. ASSUME NEW a \in acks, HandleAck(a) PROVE NodesKeep
  <2> DEFINE i == a.req.leader
             n == observed(node[i], a.term, Nobody)
             c == CommitAfter(i, a)
             new == IF a.term > repl[i] THEN n ELSE setCommitIndex(n, c)
  <2>1. i \in Server /\ a.term \in Term
    BY DEF TypeInv, TypeOK, Ack, AppReq
  <2>2. NodeOK(n) /\ n.log = node[i].log /\ n.commitIndex = node[i].commitIndex
    BY <1>0, <1>a, <2>1, ObservedType
  <2>3. node' = [node EXCEPT ![i] = new]
    BY <1>7 DEF HandleAck
  <2>4. ~ (c >= LogSize(node[i]))
    BY <1>7 DEF HandleAck, AckCrashes
  <2>5. c \in Nat
    BY <2>1, CommitAfterType
  <2> HIDE DEF n, c, i
  <2>6. Keeps(n, setCommitIndex(n, c)) /\ Keeps(n, n)
    BY <2>2, <2>5 DEF Keeps, setCommitIndex, NodeOK, Node
  <2>7. Keeps(node[i], new)
    BY <2>2, <2>6 DEF Keeps
  <2> HIDE DEF new
  <2> QED BY <2>1, <2>3, <2>7, KeepStep
<1>8. ASSUME NEW i \in Server, NEW v \in Value, ServiceAppend(i, v) PROVE NodesKeep
  <2> DEFINE term == IF "write" \in Windows THEN writer[i] ELSE node[i].term
  <2>1. term \in Term
    BY <1>0 DEF TypeInv, TypeOK, Term
  <2>2. node' = [node EXCEPT ![i] = appendEntry(node[i], term, v)] \/ node' = node
    BY <1>8 DEF ServiceAppend
  <2> HIDE DEF term
  <2>3. Keeps(node[i], appendEntry(node[i], term, v))
    BY <1>0, <2>1, AppendEntryKeeps
  <2> QED BY <1>b, <2>2, <2>3, KeepStep
<1>9. ASSUME NEW i \in Server, Restart(i) PROVE NodesKeep
  <2> DEFINE n == [node[i] EXCEPT !.term = node[i].currentTerm, !.votedFor = node[i].journalVote,
                    !.status = "FOLLOWER", !.leader = Nobody, !.leadershipMarker = -1]
  <2>1. n.log = node[i].log /\ n.commitIndex = node[i].commitIndex
    BY <1>0 DEF NodeOK, Node
  <2>2. node' = [node EXCEPT ![i] = n]
    BY <1>9 DEF Restart
  <2> HIDE DEF n
  <2>3. Keeps(node[i], n)
    BY <1>0, <2>1, KeepsItself
  <2> QED BY <2>2, <2>3, KeepStep
<1>10. ASSUME NEW i \in Server,
              \/ RunForLeader(i) \/ AbandonElection(i) \/ ActivateReplicator(i)
              \/ DeactivateReplicator(i) \/ ServiceBegin(i)
              \/ \E j \in Server :
                   \/ \E limit \in PayloadLimits : SendPayload(i, j, limit)
                   \/ \E lost \in BOOLEAN : AckTimeout(i, j, lost)
       PROVE  NodesKeep
  <2>1. UNCHANGED node
    BY <1>10 DEF RunForLeader, AbandonElection, ActivateReplicator, DeactivateReplicator,
                 ServiceBegin, SendPayload, AckTimeout
  <2> QED BY <1>b, <2>1
<1>11. ASSUME NEW m \in appReqs, LoseRequest(m) PROVE NodesKeep
  <2>1. UNCHANGED node
    BY <1>11 DEF LoseRequest
  <2> QED BY <1>b, <2>1
<1>12. CASE UNCHANGED vars
  <2>1. UNCHANGED node
    BY <1>12 DEF vars
  <2> QED BY <1>b, <2>1
<1> QED
  BY <1>1, <1>2, <1>3, <1>4, <1>5, <1>h, <1>6, <1>7, <1>8, <1>9, <1>10, <1>11,
     <1>12 DEF Next

\* No action removes or replaces an entry its own node holds as committed, and no
\* commit index goes back, for every order of requests, duplicates and restarts:
\* the skipping of entries already present in appendEntries is what makes a late
\* request harmless.
THEOREM CommittedStaysCorrect == Spec => CommittedStays
<1> DEFINE Kept == \A i \in Server :
         /\ node'[i].commitIndex >= node[i].commitIndex
         /\ node[i].commitIndex < Len(node'[i].log)
         /\ SubSeq(node'[i].log, 1, node[i].commitIndex + 1)
              = SubSeq(node[i].log, 1, node[i].commitIndex + 1)
<1>1. TypeInv /\ [Next]_vars => Kept
  <2> SUFFICES ASSUME TypeInv, [Next]_vars, NEW i \in Server
               PROVE  /\ node'[i].commitIndex >= node[i].commitIndex
                      /\ node[i].commitIndex < Len(node'[i].log)
                      /\ SubSeq(node'[i].log, 1, node[i].commitIndex + 1)
                           = SubSeq(node[i].log, 1, node[i].commitIndex + 1)
    OBVIOUS
  <2>1. Keeps(node[i], node'[i])
    BY CommittedStep DEF NodesKeep
  <2>2. TypeInv'
    BY TypeStep
  <2>3. NodeOK(node[i]) /\ NodeOK(node'[i])
    BY <2>2 DEF TypeInv, TypeOK, NodeOK
  <2>4. /\ node[i].commitIndex \in Nat /\ node'[i].commitIndex \in Nat
        /\ node'[i].commitIndex < Len(node'[i].log) /\ Len(node'[i].log) \in Nat
    BY <2>3 DEF NodeOK, Node
  <2> QED BY <2>1, <2>3, <2>4, KeptPrefix DEF Keeps
<1> HIDE DEF Kept
<1>2. Spec => []TypeInv
  BY TypeInit, TypeStep, PTL DEF Spec
<1>3. Spec => [][Kept]_vars
  BY <1>1, <1>2, PTL DEF Spec
<1> QED
  BY <1>3 DEF CommittedStays, Kept

-----------------------------------------------------------------------------
(* What each operation does to the vote of a node *)

Durable(n) == n.currentTerm = n.term /\ n.journalVote = n.votedFor

\* m is a later state of n: the term has not gone back, and a vote is kept for
\* as long as the term stays.
Faithful(n, m) ==
    /\ m.term >= n.term
    /\ m.term = n.term /\ n.votedFor # Nobody => m.votedFor = n.votedFor

\* m is a node with the term, vote and status of n.
SameVote(n, m) ==
    /\ m.term = n.term /\ m.votedFor = n.votedFor /\ m.status = n.status
    /\ m.currentTerm = n.currentTerm /\ m.journalVote = n.journalVote

\* A candidate is a candidate of old, in its old term.
NoNewCandidate(n, m) ==
    m.status = "CANDIDATE" => n.status = "CANDIDATE" /\ m.term = n.term

LEMMA UpdateJournalVote ==
    ASSUME NEW n, NodeOK(n),
           n.term > n.currentTerm \/ (n.term = n.currentTerm /\ n.journalVote = Nobody)
    PROVE  LET m == updateJournal(n) IN
           /\ Durable(m) /\ m.term = n.term /\ m.votedFor = n.votedFor
           /\ m.status = n.status /\ m.leader = n.leader
BY DEF NodeOK, Node, Term, updateJournal, Durable

LEMMA ObservedVote ==
    ASSUME NEW n, NodeOK(n), Durable(n), NEW term \in Nat, NEW leader \in Server \cup {Nobody}
    PROVE  LET o == observed(n, term, leader) IN
           /\ Durable(o) /\ Faithful(n, o) /\ NoNewCandidate(n, o)
           /\ o.term >= term /\ o.term \in {n.term, term}
<1> DEFINE m1 == [updateStatus(n, "FOLLOWER") EXCEPT
                    !.term = term, !.leader = leader,
                    !.votedFor = IF leader = Nobody THEN Nobody ELSE Blocked]
           m2 == [n EXCEPT !.leader = leader, !.votedFor = Blocked]
           m3 == [n EXCEPT !.leader = leader]
           o == observed(n, term, leader)
<1>0. n \in Node /\ n.term \in Nat /\ n.currentTerm = n.term /\ n.journalVote = n.votedFor
  BY DEF NodeOK, Node, Term, Durable
<1>1. CASE term > n.term /\ o = updateJournal(m1)
  <2>1. /\ NodeOK(m1) /\ m1.term = term /\ m1.status = "FOLLOWER"
        /\ m1.currentTerm = n.term
    BY <1>0 DEF NodeOK, Node, Term, updateStatus
  <2> HIDE DEF m1, o
  <2>2. Durable(o) /\ o.term = term /\ o.status = "FOLLOWER"
    BY <1>1, <2>1, UpdateJournalVote
  <2> QED BY <1>0, <1>1, <2>2 DEF Faithful, NoNewCandidate, o
<1>2. CASE term = n.term /\ n.votedFor = Nobody /\ o = updateJournal(m2)
  <2>1. /\ NodeOK(m2) /\ m2.term = term /\ m2.status = n.status
        /\ m2.currentTerm = term /\ m2.journalVote = Nobody
    BY <1>0, <1>2 DEF NodeOK, Node, Term
  <2> HIDE DEF m2, o
  <2>2. Durable(o) /\ o.term = term /\ o.status = n.status
    BY <1>2, <2>1, UpdateJournalVote
  <2> QED BY <1>0, <1>2, <2>2 DEF Faithful, NoNewCandidate, o
<1>3. CASE term = n.term /\ o = m3
  BY <1>0, <1>3 DEF Node, Durable, Faithful, NoNewCandidate
<1>4. CASE ~ (term > n.term) /\ o = n
  BY <1>0, <1>4 DEF Durable, Faithful, NoNewCandidate
<1> QED
  BY <1>0, <1>1, <1>2, <1>3, <1>4, ObservedCases, ZenonT(30)

LEMMA ObserveTermsVote ==
    ASSUME NEW n, NodeOK(n), Durable(n), NEW R, R \subseteq VoteReply, IsFiniteSet(R)
    PROVE  LET o == observeTerms(n, R) IN
           NodeOK(o) /\ Durable(o) /\ Faithful(n, o) /\ NoNewCandidate(n, o)
<1>1. CASE observeTerms(n, R) = n
  BY <1>1 DEF Faithful, NoNewCandidate, NodeOK, Node, Term
<1>2. CASE \E term \in Nat : observeTerms(n, R) = observed(n, term, Nobody)
  BY <1>2, ObservedVote, ObservedType DEF Term
<1> QED
  BY <1>1, <1>2, ObserveTermsCases

\* A vote is cast only where none has been cast or blocked.
LEMMA CastVote ==
    ASSUME NEW n, NodeOK(n), Durable(n), n.votedFor = Nobody, NEW c \in Server
    PROVE  /\ Durable(grantVote(n, c)) /\ grantVote(n, c).term = n.term
           /\ grantVote(n, c).votedFor = c /\ grantVote(n, c).status = n.status
<1> DEFINE m == [n EXCEPT !.votedFor = c]
<1>1. /\ NodeOK(m) /\ m.term = n.term /\ m.votedFor = c /\ m.status = n.status
      /\ m.currentTerm = m.term /\ m.journalVote = Nobody
  BY DEF NodeOK, Node, Term, Durable
<1> HIDE DEF m
<1> QED
  BY <1>1, UpdateJournalVote DEF grantVote, m

LEMMA CandidateVote ==
    ASSUME NEW n, NodeOK(n), Durable(n), n.votedFor = Nobody, NEW i \in Server
    PROVE  /\ Durable(becomeCandidate(n, i)) /\ becomeCandidate(n, i).term = n.term
           /\ becomeCandidate(n, i).votedFor = i
<1>1. becomeCandidate(n, i) = updateStatus(grantVote(n, i), "CANDIDATE")
  BY DEF becomeCandidate, grantVote
<1>2. NodeOK(grantVote(n, i))
  BY GrantVoteType
<1> QED
  BY <1>1, <1>2, CastVote DEF updateStatus, Durable, NodeOK, Node

LEMMA AscendVote ==
    ASSUME NEW n, NodeOK(n), NEW i \in Server, NEW term \in Term
    PROVE  LET m == ascend(n, i, term) IN
           /\ m.term = n.term /\ m.votedFor = n.votedFor /\ m.status = "LEADER"
           /\ m.currentTerm = n.currentTerm /\ m.journalVote = n.journalVote
BY DEF ascend, appendEntry, updateStatus, NodeOK, Node

LEMMA DropOutVote ==
    ASSUME NEW n, NodeOK(n), NEW term \in Term
    PROVE  LET m == dropOut(n, term) IN
           /\ m.term = n.term /\ m.votedFor = n.votedFor
           /\ m.currentTerm = n.currentTerm /\ m.journalVote = n.journalVote
           /\ m.status = "CANDIDATE" => n.status = "CANDIDATE" /\ n.term # term
BY DEF dropOut, updateStatus, NodeOK, Node

LEMMA AppendedVote ==
    ASSUME NEW n, NodeOK(n), NEW m
    PROVE  SameVote(n, Appended(n, m).node)
<1> DEFINE first == compareEntries(n, m.prevIndex + 1, m.entries)
           rest  == SubSeq(m.entries, first - m.prevIndex, Len(m.entries))
           kept  == [n EXCEPT !.log = SubSeq(@, 1, first)]
           taken == Accepted(kept, rest)
           new   == IF rest = <<>> THEN n
                    ELSE [kept EXCEPT !.log = @ \o SubSeq(rest, 1, taken)]
           last  == LogSize(new) - 1
           commit == IF last < m.commitIndex THEN last ELSE m.commitIndex
<1>1. Appended(n, m) = IF taken < Len(rest) THEN [node |-> new, outcome |-> FALSE]
                       ELSE [node |-> setCommitIndex(new, commit), outcome |-> TRUE]
  BY DEF Appended
<1> HIDE DEF first, rest, taken
<1>2. SameVote(n, new) /\ DOMAIN new = DOMAIN n
  BY DEF SameVote, NodeOK, Node
<1>3. SameVote(new, setCommitIndex(new, commit))
  <2>1. DOMAIN new = {"term", "status", "leader", "votedFor", "leadershipMarker",
                      "currentTerm", "journalVote", "log", "commitIndex"}
    BY <1>2 DEF NodeOK, Node
  <2> HIDE DEF new, commit
  <2> QED BY <2>1 DEF SameVote, setCommitIndex
<1> HIDE DEF new, commit
<1> QED
  BY <1>1, <1>2, <1>3 DEF SameVote

LEMMA AppendEntriesVote ==
    ASSUME NEW n, NodeOK(n), Durable(n), NEW m \in AppReq
    PROVE  LET o == appendEntries(n, m).node IN
           Durable(o) /\ Faithful(n, o) /\ NoNewCandidate(n, o)
<1> DEFINE seen == observed(n, m.term, m.leader)
           res  == IF m.term = seen.term /\ matchEntries(seen, m.prevIndex, m.prevTerm)
                   THEN Appended(seen, m) ELSE [node |-> seen, outcome |-> FALSE]
<1>1. m.term \in Nat /\ m.leader \in Server \cup {Nobody}
  BY DEF AppReq, Term
<1>2. NodeOK(seen) /\ Durable(seen) /\ Faithful(n, seen) /\ NoNewCandidate(n, seen)
  BY <1>1, ObservedVote, ObservedType DEF Term
<1>3. appendEntries(n, m).node = res.node
  BY DEF appendEntries
<1> HIDE DEF seen
<1>4. SameVote(seen, res.node)
  BY <1>2, AppendedVote DEF SameVote
<1> HIDE DEF res
<1> QED
  BY <1>2, <1>3, <1>4 DEF SameVote, Durable, Faithful, NoNewCandidate

-----------------------------------------------------------------------------
(* Votes are durable and final; elections leave no candidate behind *)

\* A candidate is the subject of the election its director is running.
CandidateInv ==
    \A i \in Server : node[i].status = "CANDIDATE" =>
        director[i].phase = "electing" /\ director[i].term = node[i].term

\* m may follow n at a server whose director does not change.
Follows(n, m) == Durable(m) /\ Faithful(n, m) /\ NoNewCandidate(n, m)

VoteInv == DurableVote /\ CandidateInv

VotesFaithful == \A i \in Server : Faithful(node[i], node'[i])

\* Steps that touch one node and no director.
LEMMA QuietStep ==
    ASSUME TypeInv, VoteInv, NEW i \in Server, NEW n, Follows(node[i], n),
           node' = [node EXCEPT ![i] = n], UNCHANGED director
    PROVE  VoteInv' /\ VotesFaithful
<1>1. \A j \in Server : node'[j] = IF j = i THEN n ELSE node[j]
  BY DEF TypeInv, TypeOK
<1>2. \A j \in Server : node[j].term \in Nat
  BY DEF TypeInv, TypeOK, Node, Term
<1>3. \A j \in Server : Follows(node[j], node'[j])
  BY <1>1, <1>2 DEF Follows, VoteInv, DurableVote, Durable, Faithful, NoNewCandidate
<1>4. DurableVote'
  BY <1>3 DEF Follows, Durable, DurableVote
<1>5. CandidateInv'
  BY <1>3 DEF Follows, NoNewCandidate, CandidateInv, VoteInv
<1> QED
  BY <1>3, <1>4, <1>5 DEF VoteInv, VotesFaithful, Follows

\* Steps that touch no node, and no director that is running an election.
LEMMA IdleStep ==
    ASSUME TypeInv, VoteInv, UNCHANGED node,
           \A i \in Server : director'[i] = director[i] \/ director[i].phase # "electing"
    PROVE  VoteInv' /\ VotesFaithful
<1>1. \A j \in Server : node[j].term \in Nat
  BY DEF TypeInv, TypeOK, Node, Term
<1> QED
  BY <1>1 DEF VoteInv, DurableVote, CandidateInv, VotesFaithful, Faithful

LEMMA VoteStep == TypeInv /\ VoteInv /\ [Next]_vars => VoteInv' /\ VotesFaithful
<1> SUFFICES ASSUME TypeInv, VoteInv, [Next]_vars PROVE VoteInv' /\ VotesFaithful
  OBVIOUS
<1>0. /\ \A i \in Server : NodeOK(node[i]) /\ Durable(node[i]) /\ node[i].term \in Nat
      /\ director \in [Server -> Director]
      /\ node \in [Server -> Node]
  BY DEF TypeInv, TypeOK, NodeOK, VoteInv, DurableVote, Durable, Node, Term
<1>a. Nobody \in Server \cup {Nobody}
  OBVIOUS
<1>1. ASSUME NEW i \in Server, ObserveTerm(i) PROVE VoteInv' /\ VotesFaithful
  <2>1. node' = [node EXCEPT ![i] = observed(node[i], node[i].term + 1, Nobody)] /\ UNCHANGED director
    BY <1>1 DEF ObserveTerm
  <2>2. node[i].term + 1 \in Nat
    BY <1>0
  <2>3. Follows(node[i], observed(node[i], node[i].term + 1, Nobody))
    BY <1>0, <1>a, <2>2, ObservedVote DEF Follows
  <2> QED BY <2>1, <2>3, QuietStep
<1>2. ASSUME NEW i \in Server, RunForLeader(i) PROVE VoteInv' /\ VotesFaithful
  <2>1. UNCHANGED node /\ director' = [director EXCEPT ![i] = Prepared(i)] /\ director[i].phase = "idle"
    BY <1>2 DEF RunForLeader, CanRun
  <2> QED BY <1>0, <2>1, IdleStep
<1>3. ASSUME NEW i \in Server, AbandonElection(i) PROVE VoteInv' /\ VotesFaithful
  <2>1. UNCHANGED node /\ director' = [director EXCEPT ![i] = IdleDirector] /\ director[i].phase = "prepared"
    BY <1>3 DEF AbandonElection
  <2> QED BY <1>0, <2>1, IdleStep
<1>4. ASSUME NEW i \in Server, BeginElection(i) PROVE VoteInv' /\ VotesFaithful
  <2> DEFINE d == IF "prevote" \in Windows THEN director[i] ELSE Prepared(i)
             n == observed(node[i], d.term, Nobody)
  <2>1. d \in Director /\ d.term \in Nat
    BY <1>0, PreparedType DEF Director, Term
  <2>2. /\ node' = [node EXCEPT ![i] = becomeCandidate(n, i)]
        /\ director' = [director EXCEPT ![i] = [d EXCEPT !.phase = "electing"]]
        /\ n.term = d.term /\ n.votedFor = Nobody
    BY <1>4 DEF BeginElection, CanBecomeCandidate
  <2> HIDE DEF d
  <2>3. NodeOK(n) /\ Durable(n) /\ Faithful(node[i], n)
    BY <1>0, <1>a, <2>1, ObservedVote, ObservedType DEF Term
  <2> HIDE DEF n
  <2>4. /\ Durable(becomeCandidate(n, i)) /\ becomeCandidate(n, i).term = n.term
        /\ becomeCandidate(n, i).votedFor = i
    BY <2>2, <2>3, CandidateVote
  <2>5. \A j \in Server : /\ node'[j] = IF j = i THEN becomeCandidate(n, i) ELSE node[j]
                          /\ j # i => director'[j] = director[j]
    BY <1>0, <2>2
  <2>6. director'[i].phase = "electing" /\ director'[i].term = d.term
    BY <1>0, <2>1, <2>2 DEF Director
  <2>7. Faithful(node[i], node'[i]) /\ Durable(node'[i])
    BY <1>0, <2>2, <2>3, <2>4, <2>5 DEF Faithful
  <2>8. VotesFaithful
    BY <1>0, <2>5, <2>7 DEF VotesFaithful, Faithful
  <2>9. DurableVote'
    BY <1>0, <2>5, <2>7 DEF DurableVote, Durable
  <2>10. CandidateInv'
    BY <2>2, <2>4, <2>5, <2>6 DEF CandidateInv, VoteInv
  <2> QED BY <2>8, <2>9, <2>10 DEF VoteInv
<1>5. ASSUME NEW q \in voteReqs, RequestVote(q) PROVE VoteInv' /\ VotesFaithful
  <2> DEFINE n == observed(node[q.to], q.term, Nobody)
             v == VoteOn(n, q)
             m == IF v = "GRANTED" THEN grantVote(n, q.candidate) ELSE n
  <2>1. q.to \in Server /\ q.candidate \in Server /\ q.term \in Nat
    BY DEF TypeInv, TypeOK, VoteReq, Term
  <2>2. NodeOK(n) /\ Follows(node[q.to], n)
    BY <1>0, <1>a, <2>1, ObservedVote, ObservedType DEF Follows, Term
  <2>3. node' = [node EXCEPT ![q.to] = m] /\ UNCHANGED director
    BY <1>5 DEF RequestVote
  <2>4. v = "GRANTED" => n.votedFor = Nobody
    BY DEF VoteOn, CanGrantVote
  <2> HIDE DEF v, n
  <2>5. Follows(node[q.to], m)
    <3>1. CASE v # "GRANTED"
      BY <2>2, <3>1
    <3>2. CASE v = "GRANTED"
      <4>1. /\ Durable(grantVote(n, q.candidate)) /\ grantVote(n, q.candidate).term = n.term
            /\ grantVote(n, q.candidate).votedFor = q.candidate
            /\ grantVote(n, q.candidate).status = n.status
        BY <2>1, <2>2, <2>4, <3>2, CastVote DEF Follows
      <4> QED BY <2>2, <2>4, <3>2, <4>1 DEF Follows, Faithful, NoNewCandidate
    <3> QED BY <3>1, <3>2
  <2> HIDE DEF m
  <2> QED BY <2>1, <2>3, <2>5, QuietStep
<1>6. ASSUME NEW i \in Server, NEW R \in SUBSET {r \in voteReplies : r.to = i},
             NEW late \in SUBSET {q \in voteReqs : q.candidate = i}, ConcludeElection(i, R, late)
      PROVE  VoteInv' /\ VotesFaithful
  <2> DEFINE d == director[i]
             n == observeTerms(node[i], R)
  <2>1. R \subseteq VoteReply /\ IsFiniteSet(R) /\ d.term \in Term
    BY <1>0, FS_Subset DEF TypeInv, TypeOK, Director
  <2>2. NodeOK(n) /\ Durable(n) /\ Faithful(node[i], n) /\ NoNewCandidate(node[i], n)
    BY <1>0, <2>1, ObserveTermsVote
  <2>3. PICK won \in BOOLEAN :
          node' = [node EXCEPT ![i] = IF won THEN ascend(n, i, d.term) ELSE dropOut(n, d.term)]
    BY <1>6 DEF ConcludeElection
  <2>4. director' = [director EXCEPT ![i] = IdleDirector]
    BY <1>6 DEF ConcludeElection
  <2>5. CandidateInv
    BY DEF VoteInv
  <2>6. node[i].status = "CANDIDATE" => node[i].term = d.term
    BY <2>5 DEF CandidateInv
  <2> HIDE DEF n, d
  <2>7. \A j \in Server : /\ j # i => node'[j] = node[j] /\ director'[j] = director[j]
                          /\ node'[i] = IF won THEN ascend(n, i, d.term) ELSE dropOut(n, d.term)
    BY <1>0, <2>3, <2>4
  <2>8. node'[i].status # "CANDIDATE" /\ Durable(node'[i]) /\ Faithful(node[i], node'[i])
    <3>1. CASE won
      BY <2>1, <2>2, <2>7, <3>1, AscendVote DEF Durable, Faithful
    <3>2. CASE ~ won
      <4>1. node'[i] = dropOut(n, d.term)
        BY <2>7, <3>2
      <4>2. /\ node'[i].term = n.term /\ node'[i].votedFor = n.votedFor
            /\ node'[i].currentTerm = n.currentTerm /\ node'[i].journalVote = n.journalVote
            /\ node'[i].status = "CANDIDATE" => n.status = "CANDIDATE" /\ n.term # d.term
        BY <2>1, <2>2, <4>1, DropOutVote
      <4> QED BY <2>2, <2>6, <4>2 DEF Durable, Faithful, NoNewCandidate
    <3> QED BY <3>1, <3>2
  <2>9. VotesFaithful
    BY <1>0, <2>7, <2>8 DEF VotesFaithful, Faithful
  <2>10. DurableVote'
    BY <1>0, <2>7, <2>8 DEF DurableVote, Durable
  <2>11. CandidateInv'
    BY <2>5, <2>7, <2>8 DEF CandidateInv
  <2> QED BY <2>9, <2>10, <2>11 DEF VoteInv
<1>7. ASSUME NEW i \in Server, ActivateReplicator(i) \/ DeactivateReplicator(i) \/ ServiceBegin(i)
      PROVE  VoteInv' /\ VotesFaithful
  <2>1. UNCHANGED node /\ UNCHANGED director
    BY <1>7 DEF ActivateReplicator, DeactivateReplicator, ServiceBegin
  <2> QED BY <2>1, IdleStep
<1>8. ASSUME NEW j \in Server, NEW h \in heartbeats, Heartbeat(j, h) PROVE VoteInv' /\ VotesFaithful
  <2>1. h[1] \in Server \cup {Nobody} /\ h[2] \in Nat
    BY DEF TypeInv, TypeOK, Term
  <2>2. node' = [node EXCEPT ![j] = observed(node[j], h[2], h[1])] /\ UNCHANGED director
    BY <1>8 DEF Heartbeat
  <2>3. Follows(node[j], observed(node[j], h[2], h[1]))
    BY <1>0, <2>1, ObservedVote DEF Follows
  <2> QED BY <2>2, <2>3, QuietStep
<1>9. ASSUME NEW i \in Server, NEW j \in Server,
             \/ \E limit \in PayloadLimits : SendPayload(i, j, limit)
             \/ \E lost \in BOOLEAN : AckTimeout(i, j, lost)
      PROVE  VoteInv' /\ VotesFaithful
  <2>1. UNCHANGED node /\ UNCHANGED director
    BY <1>9 DEF SendPayload, AckTimeout
  <2> QED BY <2>1, IdleStep
<1>h. ASSUME NEW i \in Server, NEW j \in Server, NEW limit \in PayloadLimits, HaltReplication(i, j, limit)
      PROVE  VoteInv' /\ VotesFaithful
  <2>1. node' = [node EXCEPT ![i] = observed(node[i], repl[i] + 1, Nobody)] /\ UNCHANGED director
    BY <1>h DEF HaltReplication
  <2>2. repl[i] + 1 \in Nat
    BY DEF TypeInv, TypeOK, Term
  <2>3. Follows(node[i], observed(node[i], repl[i] + 1, Nobody))
    BY <1>0, <1>a, <2>2, ObservedVote DEF Follows
  <2> QED BY <2>1, <2>3, QuietStep
<1>10. ASSUME NEW m \in appReqs, AppendEntries(m) PROVE VoteInv' /\ VotesFaithful
  <2>1. m \in AppReq /\ m.target \in Server
    BY DEF TypeInv, TypeOK, AppReq
  <2>2. node' = [node EXCEPT ![m.target] = appendEntries(node[m.target], m).node] /\ UNCHANGED director
    BY <1>10 DEF AppendEntries
  <2>3. Follows(node[m.target], appendEntries(node[m.target], m).node)
    BY <1>0, <2>1, AppendEntriesVote DEF Follows
  <2> QED BY <2>1, <2>2, <2>3, QuietStep
<1>11. ASSUME NEW m \in appReqs, LoseRequest(m) PROVE VoteInv' /\ VotesFaithful
  <2>1. UNCHANGED node /\ UNCHANGED director
    BY <1>11 DEF LoseRequest
  <2> QED BY <2>1, IdleStep
<1>12. ASSUME NEW a \in acks, HandleAck(a) PROVE VoteInv' /\ VotesFaithful
  <2> DEFINE i == a.req.leader
             n == observed(node[i], a.term, Nobody)
             c == CommitAfter(i, a)
             new == IF a.term > repl[i] THEN n ELSE setCommitIndex(n, c)
  <2>1. i \in Server /\ a.term \in Nat
    BY DEF TypeInv, TypeOK, Ack, AppReq, Term
  <2>2. NodeOK(n) /\ Follows(node[i], n)
    BY <1>0, <1>a, <2>1, ObservedVote, ObservedType DEF Follows, Term
  <2>3. node' = [node EXCEPT ![i] = new] /\ UNCHANGED director
    BY <1>12 DEF HandleAck
  <2> HIDE DEF n, c, i
  <2>4. SameVote(n, setCommitIndex(n, c)) /\ SameVote(n, n)
    BY <2>2 DEF SameVote, setCommitIndex, NodeOK, Node
  <2>5. SameVote(n, new)
    BY <2>4
  <2> HIDE DEF new
  <2>6. Follows(node[i], new)
    BY <2>2, <2>5 DEF Follows, SameVote, Durable, Faithful, NoNewCandidate
  <2> QED BY <2>1, <2>3, <2>6, QuietStep
<1>13. ASSUME NEW i \in Server, NEW v \in Value, ServiceAppend(i, v) PROVE VoteInv' /\ VotesFaithful
  <2> DEFINE term == IF "write" \in Windows THEN writer[i] ELSE node[i].term
             new == appendEntry(node[i], term, v)
  <2>1. (node' = [node EXCEPT ![i] = new] \/ node' = node) /\ UNCHANGED director
    BY <1>13 DEF ServiceAppend
  <2> HIDE DEF term
  <2>2. SameVote(node[i], new)
    BY <1>0 DEF SameVote, appendEntry, NodeOK, Node
  <2> HIDE DEF new
  <2>3. Follows(node[i], new)
    BY <1>0, <2>2 DEF Follows, SameVote, Durable, Faithful, NoNewCandidate
  <2>4. CASE node' = node
    BY <2>1, <2>4, IdleStep
  <2>5. CASE node' = [node EXCEPT ![i] = new]
    BY <2>1, <2>3, <2>5, QuietStep
  <2> QED BY <2>1, <2>4, <2>5
<1>14. ASSUME NEW i \in Server, Restart(i) PROVE VoteInv' /\ VotesFaithful
  <2> DEFINE n == [node[i] EXCEPT !.term = node[i].currentTerm, !.votedFor = node[i].journalVote,
                    !.status = "FOLLOWER", !.leader = Nobody, !.leadershipMarker = -1]
  <2>1. node' = [node EXCEPT ![i] = n] /\ director' = [director EXCEPT ![i] = IdleDirector]
    BY <1>14 DEF Restart
  <2>2. Durable(n) /\ Faithful(node[i], n) /\ n.status = "FOLLOWER"
    BY <1>0 DEF Durable, Faithful, NodeOK, Node
  <2> HIDE DEF n
  <2>3. \A j \in Server : /\ node'[j] = IF j = i THEN n ELSE node[j]
                          /\ j # i => director'[j] = director[j]
    BY <1>0, <2>1
  <2>4. VotesFaithful
    BY <1>0, <2>2, <2>3 DEF VotesFaithful, Faithful
  <2>5. DurableVote'
    BY <1>0, <2>2, <2>3 DEF DurableVote, Durable
  <2>6. CandidateInv'
    BY <2>2, <2>3 DEF CandidateInv, VoteInv
  <2> QED BY <2>4, <2>5, <2>6 DEF VoteInv
<1>15. CASE UNCHANGED vars
  <2>1. UNCHANGED node /\ UNCHANGED director
    BY <1>15 DEF vars
  <2> QED BY <2>1, IdleStep
<1> QED
  BY <1>1, <1>2, <1>3, <1>4, <1>5, <1>6, <1>7, <1>8, <1>9, <1>h, <1>10, <1>11, <1>12, <1>13,
     <1>14, <1>15 DEF Next

LEMMA VoteInit == Init => VoteInv
BY DEF Init, VoteInv, DurableVote, CandidateInv, FreshNode

LEMMA VoteInvariant == Spec => [](TypeInv /\ VoteInv)
BY TypeInit, TypeStep, VoteInit, VoteStep, PTL DEF Spec

\* setCurrentTerm's silent refusals never separate the durable term and vote
\* from the ones RaftState acts on.
THEOREM DurableVoteCorrect == Spec => []DurableVote
<1>1. VoteInv => DurableVote
  BY DEF VoteInv
<1> QED
  BY <1>1, VoteInvariant, PTL

\* However an election ends, and whatever was observed during it, its director
\* never comes back to its main loop with the node still a candidate.
THEOREM NoStrayCandidateCorrect == Spec => []NoStrayCandidate
<1>1. VoteInv => NoStrayCandidate
  BY DEF VoteInv, CandidateInv, NoStrayCandidate
<1> QED
  BY <1>1, VoteInvariant, PTL

\* Terms never go back, and a vote cast or blocked is final for its term, across
\* observations, elections and restarts.
THEOREM VoteNeverChangesCorrect == Spec => VoteNeverChanges
<1> DEFINE Kept == \A i \in Server :
         /\ node'[i].term >= node[i].term
         /\ node'[i].term = node[i].term /\ node[i].votedFor # Nobody
              => node'[i].votedFor = node[i].votedFor
<1>1. TypeInv /\ VoteInv /\ [Next]_vars => [Kept]_vars
  BY VoteStep DEF VotesFaithful, Faithful
<1> HIDE DEF Kept
<1>2. Spec => [][Kept]_vars
  BY <1>1, VoteInvariant, PTL DEF Spec
<1> QED
  BY <1>2 DEF VoteNeverChanges, Kept

-----------------------------------------------------------------------------
(* A term has at most one leader.                                          *)
(*                                                                         *)
(* The code keeps no record of the votes that made a server leader: a      *)
(* voter moves on to later terms, the replies are gone.  The invariant     *)
(* therefore asserts that a ledger G of votes exists, a set of triples     *)
(* <<voter, term, candidate>>, that explains the present state; each step  *)
(* that casts a vote extends it.                                           *)

VotesHeld(G) == \A i, c \in Server, t \in Nat : <<i, t, c>> \in G => Bound(i, t, c)

OneVotePerTerm(G) ==
    \A i, c, d \in Server, t \in Nat : <<i, t, c>> \in G /\ <<i, t, d>> \in G => c = d

CandidateVoted(G) ==
    \A c \in Server : director[c].phase = "electing" => <<c, director[c].term, c>> \in G

RepliesRecorded(G) ==
    \A r \in voteReplies :
        /\ director[r.to].phase = "electing"
        /\ r.vote = "GRANTED" => <<r.from, director[r.to].term, r.to>> \in G

NoneToSelf ==
    (\A q \in voteReqs : q.to # q.candidate) /\ (\A r \in voteReplies : r.from # r.to)

QuorumBehind(G, c, t) ==
    \E Q \in SUBSET Server :
        Cardinality(Q) >= quorumSize /\ \A i \in Q : <<i, t, c>> \in G

ElectedByQuorum(G) == \A e \in elected : QuorumBehind(G, e[1], e[2])

Ledger(G) ==
    /\ VotesHeld(G) /\ OneVotePerTerm(G) /\ CandidateVoted(G) /\ RepliesRecorded(G)
    /\ NoneToSelf /\ ElectedByQuorum(G)

ElectionInv == \E G : Ledger(G)

LEMMA QuorumsIntersect ==
    ASSUME NEW P \in SUBSET Server, NEW Q \in SUBSET Server,
           Cardinality(P) >= quorumSize, Cardinality(Q) >= quorumSize
    PROVE  P \cap Q # {}
<1>1. IsFiniteSet(P) /\ IsFiniteSet(Q)
  BY ServerAssumption, FS_Subset
<1>2. Cardinality(P) \in Nat /\ Cardinality(Q) \in Nat /\ Cardinality(Server) \in Nat
  BY <1>1, ServerAssumption, FS_CardinalityType
<1>3. Cardinality(P) + Cardinality(Q) > Cardinality(Server)
  BY <1>2 DEF quorumSize
<1> QED
  BY <1>3, ServerAssumption, FS_MajoritiesIntersect

LEMMA ElectionSafe == ASSUME TypeInv, ElectionInv PROVE ElectionSafety
<1>1. PICK G : Ledger(G)
  BY DEF ElectionInv
<1> SUFFICES ASSUME NEW e \in elected, NEW f \in elected, e[2] = f[2] PROVE e[1] = f[1]
  BY DEF ElectionSafety
<1>2. e[1] \in Server /\ f[1] \in Server /\ e[2] \in Nat
  BY DEF TypeInv, TypeOK, Term
<1>3. PICK P \in SUBSET Server : Cardinality(P) >= quorumSize /\ \A i \in P : <<i, e[2], e[1]>> \in G
  BY <1>1 DEF Ledger, ElectedByQuorum, QuorumBehind
<1>4. PICK Q \in SUBSET Server : Cardinality(Q) >= quorumSize /\ \A i \in Q : <<i, f[2], f[1]>> \in G
  BY <1>1 DEF Ledger, ElectedByQuorum, QuorumBehind
<1>5. PICK i \in Server : i \in P /\ i \in Q
  BY <1>3, <1>4, QuorumsIntersect
<1>6. <<i, e[2], e[1]>> \in G /\ <<i, e[2], f[1]>> \in G
  BY <1>3, <1>4, <1>5
<1> QED
  BY <1>1, <1>2, <1>6 DEF Ledger, OneVotePerTerm

\* A node that keeps its vote remains bound by the ledger.
LEMMA HeldStep ==
    ASSUME TypeInv, VotesFaithful, NEW G, VotesHeld(G), TypeInv'
    PROVE  VotesHeld(G)'
<1> SUFFICES ASSUME NEW i \in Server, NEW c \in Server, NEW t \in Nat, <<i, t, c>> \in G
             PROVE  Bound(i, t, c)'
  BY DEF VotesHeld
<1>1. Bound(i, t, c)
  BY DEF VotesHeld
<1>2. node[i].term \in Nat /\ node'[i].term \in Nat /\ c # Nobody
  BY NobodyAssumption DEF TypeInv, TypeOK, Node, Term
<1>3. Faithful(node[i], node'[i])
  BY DEF VotesFaithful
<1> QED
  BY <1>1, <1>2, <1>3 DEF Bound, Faithful

\* A server without a vote in its present term has no vote of that term in the
\* ledger: a new one can be entered.
LEMMA NewVote ==
    ASSUME TypeInv, TypeInv', VotesFaithful, NEW G, VotesHeld(G), OneVotePerTerm(G),
           NEW i \in Server, NEW c \in Server, NEW n, Faithful(node[i], n),
           n.votedFor = Nobody, node'[i].term = n.term, node'[i].votedFor = c
    PROVE  LET H == G \cup {<<i, n.term, c>>} IN VotesHeld(H)' /\ OneVotePerTerm(H)
<1> DEFINE H == G \cup {<<i, n.term, c>>}
<1>0. node[i].term \in Nat /\ n.term \in Nat
  BY DEF TypeInv, TypeOK, Node, Term
<1>1. \A d \in Server : <<i, n.term, d>> \notin G
  <2> SUFFICES ASSUME NEW d \in Server, <<i, n.term, d>> \in G PROVE FALSE
    OBVIOUS
  <2>1. Bound(i, n.term, d) /\ d # Nobody
    BY <1>0, NobodyAssumption DEF VotesHeld
  <2> QED
    BY <1>0, <2>1 DEF Bound, Faithful
<1>2. VotesHeld(G)'
  BY HeldStep
<1>3. VotesHeld(H)'
  <2> SUFFICES ASSUME NEW j \in Server, NEW d \in Server, NEW t \in Nat, <<j, t, d>> \in H
               PROVE  Bound(j, t, d)'
    BY DEF VotesHeld
  <2>1. CASE <<j, t, d>> \in G
    BY <1>2, <2>1 DEF VotesHeld
  <2>2. CASE <<j, t, d>> = <<i, n.term, c>>
    BY <2>2 DEF Bound
  <2> QED BY <2>1, <2>2
<1>4. OneVotePerTerm(H)
  <2> SUFFICES ASSUME NEW j \in Server, NEW d \in Server, NEW e \in Server, NEW t \in Nat,
                      <<j, t, d>> \in H, <<j, t, e>> \in H
               PROVE  d = e
    BY DEF OneVotePerTerm
  <2>1. CASE j = i /\ t = n.term
    BY <1>1, <2>1
  <2>2. CASE ~ (j = i /\ t = n.term)
    <3>1. <<j, t, d>> \in G /\ <<j, t, e>> \in G
      BY <2>2
    <3> QED BY <3>1 DEF OneVotePerTerm
  <2> QED BY <2>1, <2>2
<1> QED
  BY <1>3, <1>4

\* Steps that cast no vote and elect nobody.
LEMMA LedgerQuiet ==
    ASSUME TypeInv, TypeInv', VotesFaithful, NEW G, Ledger(G),
           voteReqs' \subseteq voteReqs, voteReplies' \subseteq voteReplies, elected' = elected,
           \A c \in Server : \/ director'[c] = director[c]
                             \/ /\ director'[c].phase # "electing"
                                /\ \A r \in voteReplies' : r.to # c
    PROVE  Ledger(G)'
<1>1. VotesHeld(G)'
  BY HeldStep DEF Ledger
<1>2. CandidateVoted(G)'
  BY DEF Ledger, CandidateVoted
<1>3. RepliesRecorded(G)'
  <2> SUFFICES ASSUME NEW r \in voteReplies'
               PROVE  /\ director'[r.to].phase = "electing"
                      /\ r.vote = "GRANTED" => <<r.from, director'[r.to].term, r.to>> \in G
    BY DEF RepliesRecorded
  <2>1. r \in voteReplies /\ r.to \in Server
    BY DEF TypeInv, TypeOK, VoteReply
  <2>2. director'[r.to] = director[r.to]
    BY <2>1
  <2> QED BY <2>1, <2>2 DEF Ledger, RepliesRecorded
<1>4. NoneToSelf'
  BY DEF Ledger, NoneToSelf
<1>5. ElectedByQuorum(G)'
  BY DEF Ledger, ElectedByQuorum, QuorumBehind
<1> QED
  BY <1>1, <1>2, <1>3, <1>4, <1>5 DEF Ledger, OneVotePerTerm

\* A bigger ledger backs whoever a smaller one does.
LEMMA QuorumGrows ==
    ASSUME NEW G, NEW H, G \subseteq H, ElectedByQuorum(G), elected' = elected
    PROVE  ElectedByQuorum(H)'
BY DEF ElectedByQuorum, QuorumBehind

\* H is G with the vote that v has just cast for c.
Enters(G, H, v, c) == H = G \cup {<<v, node'[v].term, c>>}

LEMMA BeginElectionLedger ==
    ASSUME TypeInv, VoteInv, TypeInv', VotesFaithful, NEW G, Ledger(G),
           NEW i \in Server, BeginElection(i), NEW H, Enters(G, H, i, i)
    PROVE  Ledger(H)'
<1> DEFINE d == IF "prevote" \in Windows THEN director[i] ELSE Prepared(i)
<1>n. PICK n : n = observed(node[i], d.term, Nobody)
  OBVIOUS
<1>0. NodeOK(node[i]) /\ Durable(node[i]) /\ node \in [Server -> Node] /\ director \in [Server -> Director]
  BY DEF TypeInv, TypeOK, NodeOK, VoteInv, DurableVote, Durable
<1>1. d \in Director /\ d.term \in Nat
  BY PreparedType DEF TypeInv, TypeOK, Director, Term
<1>2. /\ node' = [node EXCEPT ![i] = becomeCandidate(n, i)]
      /\ director' = [director EXCEPT ![i] = [d EXCEPT !.phase = "electing"]]
      /\ n.term = d.term /\ n.votedFor = Nobody
      /\ director[i].phase # "electing"
      /\ voteReplies' = voteReplies /\ elected' = elected
  <2>1. director[i].phase # "electing"
    BY BeginElection(i) DEF BeginElection, CanRun
  <2> QED BY <1>n, <2>1 DEF BeginElection, CanBecomeCandidate
<1>3. \A q \in voteReqs' : q.to # q.candidate
  <2>1. \A q \in voteReqs : q.to # q.candidate
    BY DEF Ledger, NoneToSelf
  <2>2. voteReqs' = voteReqs \cup
             {[term |-> d.term, candidate |-> i, to |-> j,
               lastIndex |-> d.lastIndex, lastTerm |-> d.lastTerm] : j \in Server \ {i}}
    BY DEF BeginElection
  <2> QED BY <2>1, <2>2
<1> HIDE DEF d
<1>4. NodeOK(n) /\ Durable(n) /\ Faithful(node[i], n)
  BY <1>n, <1>0, <1>1, ObservedVote, ObservedType DEF Term
<1>5. node'[i].term = n.term /\ node'[i].votedFor = i
  BY <1>0, <1>2, <1>4, CandidateVote
<1>h. H = G \cup {<<i, n.term, i>>}
  BY <1>5 DEF Enters
<1>6. VotesHeld(H)' /\ OneVotePerTerm(H)
  BY <1>h, <1>2, <1>4, <1>5, NewVote DEF Ledger
<1>7. director'[i].phase = "electing" /\ director'[i].term = n.term
      /\ \A c \in Server \ {i} : director'[c] = director[c]
  BY <1>0, <1>1, <1>2 DEF Director
<1>8. CandidateVoted(H)'
  BY <1>h, <1>7 DEF Ledger, CandidateVoted
<1>9. RepliesRecorded(H)'
  <2> SUFFICES ASSUME NEW r \in voteReplies'
               PROVE  /\ director'[r.to].phase = "electing"
                      /\ r.vote = "GRANTED" => <<r.from, director'[r.to].term, r.to>> \in H
    BY DEF RepliesRecorded
  <2>1. r \in voteReplies /\ r.to \in Server
    BY <1>2 DEF TypeInv, TypeOK, VoteReply
  <2>2. r.to # i /\ director'[r.to] = director[r.to]
    BY <1>2, <1>7, <2>1 DEF Ledger, RepliesRecorded
  <2> QED BY <1>h, <2>1, <2>2 DEF Ledger, RepliesRecorded
<1>10. ElectedByQuorum(H)'
  BY <1>h, <1>2, QuorumGrows DEF Ledger
<1>11. NoneToSelf'
  BY <1>2, <1>3 DEF Ledger, NoneToSelf
<1>12. OneVotePerTerm(H)'
  BY <1>6 DEF OneVotePerTerm
<1> QED
  BY <1>6, <1>8, <1>9, <1>10, <1>11, <1>12 DEF Ledger

\* The request q is granted when it is delivered now.
Granted(q) == VoteOn(observed(node[q.to], q.term, Nobody), q) = "GRANTED"

LEMMA RequestVoteLedger ==
    ASSUME TypeInv, VoteInv, TypeInv', VotesFaithful, NEW G, Ledger(G),
           NEW q \in voteReqs, RequestVote(q), NEW H,
           H = G \/ Granted(q), Granted(q) => Enters(G, H, q.to, q.candidate)
    PROVE  Ledger(H)'
<1> DEFINE j == q.to
           c == q.candidate
           d == director[c]
<1>n. PICK n : n = observed(node[j], q.term, Nobody)
  OBVIOUS
<1>v. PICK v : v = VoteOn(n, q)
  OBVIOUS
<1>r. PICK r : r = [from |-> j, to |-> c, term |-> n.term, vote |-> v]
  OBVIOUS
<1>1. j \in Server /\ c \in Server /\ q.term \in Nat /\ c # j
  BY DEF TypeInv, TypeOK, VoteReq, Term, Ledger, NoneToSelf
<1>0. NodeOK(node[j]) /\ Durable(node[j]) /\ node \in [Server -> Node] /\ director \in [Server -> Director]
  BY <1>1 DEF TypeInv, TypeOK, NodeOK, VoteInv, DurableVote, Durable
<1>2. /\ node' = [node EXCEPT ![j] = IF v = "GRANTED" THEN grantVote(n, c) ELSE n]
      /\ voteReqs' = voteReqs \ {q}
      /\ voteReplies' = IF d.phase = "electing" /\ d.term = q.term
                        THEN voteReplies \cup {r} ELSE voteReplies
      /\ director' = director /\ elected' = elected
  BY <1>n, <1>v, <1>r DEF RequestVote
<1>3. v = "GRANTED" => n.votedFor = Nobody /\ n.term = q.term
  BY <1>v DEF VoteOn, CanGrantVote
<1>4. NodeOK(n) /\ Durable(n) /\ Faithful(node[j], n)
  BY <1>n, <1>0, <1>1, ObservedVote, ObservedType DEF Term
<1>5. v = "GRANTED" => node'[j].term = n.term /\ node'[j].votedFor = c
  BY <1>0, <1>1, <1>2, <1>3, <1>4, CastVote
<1>h. H = IF v = "GRANTED" THEN G \cup {<<j, n.term, c>>} ELSE G
  BY <1>n, <1>v, <1>5 DEF Enters, Granted
<1>6. VotesHeld(H)' /\ OneVotePerTerm(H)
  <2>1. CASE v = "GRANTED"
    BY <1>h, <1>1, <1>3, <1>4, <1>5, <2>1, NewVote DEF Ledger
  <2>2. CASE v # "GRANTED"
    BY <1>h, <2>2, HeldStep DEF Ledger
  <2> QED BY <2>1, <2>2
<1>7. G \subseteq H
  BY <1>h
<1>8. CandidateVoted(H)'
  BY <1>2, <1>7 DEF Ledger, CandidateVoted
<1>9. RepliesRecorded(H)'
  <2> SUFFICES ASSUME NEW s \in voteReplies'
               PROVE  /\ director[s.to].phase = "electing"
                      /\ s.vote = "GRANTED" => <<s.from, director[s.to].term, s.to>> \in H
    BY <1>2 DEF RepliesRecorded
  <2>1. CASE s \in voteReplies
    BY <1>7, <2>1 DEF Ledger, RepliesRecorded
  <2>2. CASE s \notin voteReplies
    <3>1. s = r /\ d.phase = "electing" /\ d.term = q.term
      BY <1>2, <2>2
    <3>2. s.to = c /\ s.from = j /\ s.vote = v
      BY <1>r, <3>1
    <3> QED BY <1>h, <1>3, <3>1, <3>2
  <2> QED BY <2>1, <2>2
<1>10. NoneToSelf'
  BY <1>r, <1>1, <1>2 DEF Ledger, NoneToSelf
<1>11. ElectedByQuorum(H)'
  BY <1>2, <1>7, QuorumGrows DEF Ledger
<1>12. OneVotePerTerm(H)'
  BY <1>6 DEF OneVotePerTerm
<1> QED
  BY <1>6, <1>8, <1>9, <1>10, <1>11, <1>12 DEF Ledger

LEMMA ConcludeElectionLedger ==
    ASSUME TypeInv, TypeInv', VotesFaithful, NEW G, Ledger(G), NEW i \in Server,
           NEW R \in SUBSET {r \in voteReplies : r.to = i},
           NEW late \in SUBSET {q \in voteReqs : q.candidate = i}, ConcludeElection(i, R, late)
    PROVE  Ledger(G)'
<1> DEFINE t == director[i].term
           won == determineOutcome(R) = "elected" /\ CanAscend(observeTerms(node[i], R), i, t)
           P == Positives(R)
<1>1. /\ director' = [director EXCEPT ![i] = IdleDirector]
      /\ voteReplies' = {r \in voteReplies : r.to # i}
      /\ voteReqs' = {q \in voteReqs : q.candidate # i} \cup late
      /\ elected' = IF won THEN elected \cup {<<i, t>>} ELSE elected
      /\ director[i].phase = "electing"
  BY DEF ConcludeElection
<1>2. director \in [Server -> Director] /\ IdleDirector.phase # "electing"
  BY DEF TypeInv, TypeOK, IdleDirector
<1>3. VotesHeld(G)'
  BY HeldStep DEF Ledger
<1>4. \A c \in Server \ {i} : director'[c] = director[c]
  BY <1>1, <1>2
<1>5. director'[i].phase # "electing"
  BY <1>1, <1>2
<1>6. CandidateVoted(G)'
  BY <1>4, <1>5 DEF Ledger, CandidateVoted
<1>7. RepliesRecorded(G)'
  <2> SUFFICES ASSUME NEW r \in voteReplies'
               PROVE  /\ director'[r.to].phase = "electing"
                      /\ r.vote = "GRANTED" => <<r.from, director'[r.to].term, r.to>> \in G
    BY DEF RepliesRecorded
  <2>1. r \in voteReplies /\ r.to \in Server /\ r.to # i
    BY <1>1 DEF TypeInv, TypeOK, VoteReply
  <2> QED BY <1>4, <2>1 DEF Ledger, RepliesRecorded
<1>8. NoneToSelf'
  BY <1>1 DEF Ledger, NoneToSelf
<1>9. ElectedByQuorum(G)'
  <2>1. won => QuorumBehind(G, i, t)
    <3> SUFFICES ASSUME won PROVE QuorumBehind(G, i, t)
      OBVIOUS
    <3>1. Cardinality(P) + 1 >= quorumSize
      BY DEF determineOutcome
    <3>2. P \subseteq Server /\ i \notin P
      BY DEF Positives, Ledger, NoneToSelf
    <3>3. \A k \in P : <<k, t, i>> \in G
      BY DEF Positives, Ledger, RepliesRecorded
    <3>4. <<i, t, i>> \in G
      BY <1>1 DEF Ledger, CandidateVoted
    <3> HIDE DEF P
    <3>5. IsFiniteSet(P)
      BY <3>2, ServerAssumption, FS_Subset
    <3>6. Cardinality(P \cup {i}) = Cardinality(P) + 1
      BY <3>2, <3>5, FS_AddElement
    <3>7. P \cup {i} \in SUBSET Server /\ \A k \in P \cup {i} : <<k, t, i>> \in G
      BY <3>2, <3>3, <3>4
    <3> QED BY <3>1, <3>6, <3>7 DEF QuorumBehind
  <2> HIDE DEF won
  <2>2. ASSUME NEW e \in elected' PROVE QuorumBehind(G, e[1], e[2])
    <3>1. CASE e \in elected
      BY <3>1 DEF Ledger, ElectedByQuorum
    <3>2. CASE won /\ e = <<i, t>>
      BY <2>1, <3>2
    <3> QED BY <1>1, <3>1, <3>2
  <2> QED BY <2>2 DEF ElectedByQuorum, QuorumBehind
<1> QED
  BY <1>3, <1>6, <1>7, <1>8, <1>9 DEF Ledger, OneVotePerTerm

\* The steps that cast no vote and conclude no election.
NoVoteNext ==
    \/ \E i \in Server :
          \/ ObserveTerm(i) \/ RunForLeader(i) \/ AbandonElection(i)
          \/ ActivateReplicator(i) \/ DeactivateReplicator(i)
          \/ ServiceBegin(i) \/ \E v \in Value : ServiceAppend(i, v)
          \/ Restart(i) \/ \E h \in heartbeats : Heartbeat(i, h)
          \/ \E j \in Server :
               \/ \E limit \in PayloadLimits : SendPayload(i, j, limit) \/ HaltReplication(i, j, limit)
               \/ \E lost \in BOOLEAN : AckTimeout(i, j, lost)
    \/ \E m \in appReqs : AppendEntries(m) \/ LoseRequest(m)
    \/ \E a \in acks : HandleAck(a)
    \/ UNCHANGED vars

LEMMA NoVoteLedger ==
    ASSUME TypeInv, TypeInv', VotesFaithful, NEW G, Ledger(G), NoVoteNext
    PROVE  Ledger(G)'
<1>1. director \in [Server -> Director]
  BY DEF TypeInv, TypeOK
<1>2. ASSUME NEW i \in Server, RunForLeader(i) \/ AbandonElection(i) PROVE Ledger(G)'
  <2>1. /\ voteReqs' = voteReqs /\ voteReplies' = voteReplies /\ elected' = elected
        /\ \A c \in Server \ {i} : director'[c] = director[c]
        /\ director[i].phase # "electing" /\ director'[i].phase # "electing"
    BY <1>1, <1>2 DEF RunForLeader, AbandonElection, CanRun, Prepared, IdleDirector, net
  <2>2. \A r \in voteReplies' : r.to # i
    BY <2>1 DEF Ledger, RepliesRecorded
  <2> QED BY <2>1, <2>2, LedgerQuiet
<1>3. ASSUME NEW i \in Server, Restart(i) PROVE Ledger(G)'
  <2>1. /\ voteReqs' = voteReqs /\ elected' = elected
        /\ voteReplies' = {r \in voteReplies : r.to # i}
        /\ director' = [director EXCEPT ![i] = IdleDirector]
    BY <1>3 DEF Restart
  <2>2. \A c \in Server : \/ director'[c] = director[c]
                          \/ /\ director'[c].phase # "electing"
                             /\ \A r \in voteReplies' : r.to # c
    BY <1>1, <2>1 DEF IdleDirector
  <2> QED BY <2>1, <2>2, LedgerQuiet
<1>4. CASE UNCHANGED <<director, voteReqs, voteReplies, elected>>
  BY <1>4, LedgerQuiet
<1>5. ASSUME NEW i \in Server,
             \/ ObserveTerm(i) \/ ActivateReplicator(i) \/ DeactivateReplicator(i)
             \/ ServiceBegin(i) \/ \E v \in Value : ServiceAppend(i, v)
             \/ \E h \in heartbeats : Heartbeat(i, h)
             \/ \E j \in Server :
                  \/ \E limit \in PayloadLimits : SendPayload(i, j, limit) \/ HaltReplication(i, j, limit)
                  \/ \E lost \in BOOLEAN : AckTimeout(i, j, lost)
      PROVE  Ledger(G)'
  <2>1. UNCHANGED <<director, voteReqs, voteReplies, elected>>
    BY <1>5 DEF ObserveTerm, ActivateReplicator, DeactivateReplicator, ServiceBegin, ServiceAppend,
                Heartbeat, SendPayload, HaltReplication, AckTimeout, net
  <2> QED BY <1>4, <2>1
<1>6. ASSUME \/ \E m \in appReqs : AppendEntries(m) \/ LoseRequest(m)
             \/ \E a \in acks : HandleAck(a)
      PROVE  Ledger(G)'
  <2>1. UNCHANGED <<director, voteReqs, voteReplies, elected>>
    BY <1>6 DEF AppendEntries, LoseRequest, HandleAck
  <2> QED BY <1>4, <2>1
<1>7. CASE UNCHANGED vars
  <2>1. UNCHANGED <<director, voteReqs, voteReplies, elected>>
    BY <1>7 DEF vars, net
  <2> QED BY <1>4, <2>1
<1> QED
  BY <1>2, <1>3, <1>5, <1>6, <1>7 DEF NoVoteNext

LEMMA ElectionStep ==
    TypeInv /\ VoteInv /\ ElectionInv /\ [Next]_vars => ElectionInv'
<1> SUFFICES ASSUME TypeInv, VoteInv, ElectionInv, [Next]_vars PROVE ElectionInv'
  OBVIOUS
<1>0. TypeInv' /\ VotesFaithful
  BY TypeStep, VoteStep
<1>1. PICK G : Ledger(G)
  BY DEF ElectionInv
<1>2. ASSUME NEW i \in Server, BeginElection(i) PROVE ElectionInv'
  <2>1. PICK H : Enters(G, H, i, i)
    BY DEF Enters
  <2>2. Ledger(H)'
    BY <1>0, <1>1, <1>2, <2>1, BeginElectionLedger
  <2> QED BY <2>2 DEF ElectionInv
<1>3. ASSUME NEW q \in voteReqs, RequestVote(q) PROVE ElectionInv'
  <2>1. PICK H : H = IF Granted(q) THEN G \cup {<<q.to, node'[q.to].term, q.candidate>>} ELSE G
    OBVIOUS
  <2>2. (H = G \/ Granted(q)) /\ (Granted(q) => Enters(G, H, q.to, q.candidate))
    BY <2>1 DEF Enters
  <2>3. Ledger(H)'
    BY <1>0, <1>1, <1>3, <2>2, RequestVoteLedger
  <2> QED BY <2>3 DEF ElectionInv
<1>4. ASSUME NEW i \in Server, NEW R \in SUBSET {r \in voteReplies : r.to = i},
             NEW late \in SUBSET {q \in voteReqs : q.candidate = i}, ConcludeElection(i, R, late)
      PROVE  ElectionInv'
  <2>1. Ledger(G)'
    BY <1>0, <1>1, <1>4, ConcludeElectionLedger
  <2> QED BY <2>1 DEF ElectionInv
<1>5. CASE NoVoteNext
  <2>1. Ledger(G)'
    BY <1>0, <1>1, <1>5, NoVoteLedger
  <2> QED BY <2>1 DEF ElectionInv
<1> QED
  BY <1>2, <1>3, <1>4, <1>5 DEF Next, NoVoteNext

LEMMA ElectionInit == Init => ElectionInv
<1> SUFFICES ASSUME Init PROVE ElectionInv
  OBVIOUS
<1>1. Ledger({})
  BY DEF Init, Ledger, VotesHeld, OneVotePerTerm, CandidateVoted, RepliesRecorded, NoneToSelf,
         ElectedByQuorum, IdleDirector
<1> QED
  BY <1>1 DEF ElectionInv

\* Two servers never ascend in the same term, whatever votes are lost, late or
\* cast after a restart, and however long a candidate acts on its old request.
THEOREM ElectionSafetyCorrect == Spec => []ElectionSafety
<1>1. Spec => []ElectionInv
  BY ElectionInit, ElectionStep, VoteInvariant, PTL DEF Spec
<1>2. TypeInv /\ ElectionInv => ElectionSafety
  BY ElectionSafe
<1> QED
  BY <1>1, <1>2, VoteInvariant, PTL

=============================================================================
