------------------------- MODULE QuarkChoiceProofs -------------------------
(***************************************************************************)
(* Equal terms at an index mean equal logs up to there: the theorem behind *)
(* RaftJournal::matchEntries.                                              *)
(*                                                                         *)
(* What a quorum has acknowledged is in the log of every later leader: how *)
(* the acknowledgements of servers and the claims of candidates restrict   *)
(* each other.  Then which leader a server follows, which answers a        *)
(* tracker waits for, and what the requests, answers and indexes of a      *)
(* tracker say about the log of its target.                                *)
(***************************************************************************)
EXTENDS QuarkRaftProofs

-----------------------------------------------------------------------------
(* Logs backed by the logs of the leaders *)

\* The logs of M are those of L or longer, by entries of the leaders' own terms.
Grow(L, M) ==
    \A t \in Nat : /\ Len(L[t]) <= Len(M[t]) /\ Agree(L[t], M[t], Len(L[t]))
                   /\ Len(L[t]) > 0 => \A k \in (Len(L[t]) + 1)..Len(M[t]) : M[t][k].term = t

LedgerType(L) == L \in [Nat -> Seq(Entry)]

LEMMA EntryType ==
    ASSUME NEW s \in Seq(Entry), NEW k \in 1..Len(s)
    PROVE  s[k] \in Entry /\ s[k].term \in Nat
<1>1. s[k] \in Entry
  OBVIOUS
<1> QED
  BY <1>1 DEF Entry, Term

LEMMA LedgerLen ==
    ASSUME NEW L, LedgerType(L), NEW t \in Nat
    PROVE  L[t] \in Seq(Entry) /\ Len(L[t]) \in Nat
BY DEF LedgerType

\* Two backed logs with the same term at an index are the same up to there.
LEMMA BackedAgree ==
    ASSUME NEW L, NEW s \in Seq(Entry), NEW u \in Seq(Entry), Backed(L, s), Backed(L, u),
           NEW k \in 1..Len(s), k <= Len(u), s[k].term = u[k].term
    PROVE  Agree(s, u, k)
<1>1. Agree(s, L[s[k].term], k)
  BY DEF Backed
<1>2. k \in 1..Len(u)
  OBVIOUS
<1>3. Agree(u, L[s[k].term], k)
  BY <1>2 DEF Backed
<1> QED
  BY <1>1, <1>3 DEF Agree

LEMMA BackedGrows ==
    ASSUME NEW L, NEW M, LedgerType(L), LedgerType(M), Grow(L, M),
           NEW s \in Seq(Entry), Backed(L, s)
    PROVE  Backed(M, s)
<1> SUFFICES ASSUME NEW k \in 1..Len(s) PROVE k <= Len(M[s[k].term]) /\ Agree(s, M[s[k].term], k)
  BY DEF Backed
<1>1. PICK t : t = s[k].term
  OBVIOUS
<1>2. t \in Nat /\ Len(L[t]) \in Nat /\ Len(M[t]) \in Nat
  BY <1>1, EntryType, LedgerLen
<1>3. k <= Len(L[t]) /\ Agree(s, L[t], k)
  BY <1>1 DEF Backed
<1>4. Len(L[t]) <= Len(M[t]) /\ Agree(L[t], M[t], Len(L[t]))
  BY <1>2 DEF Grow
<1>5. k <= Len(M[t]) /\ Agree(s, M[t], k)
  BY <1>2, <1>3, <1>4 DEF Agree
<1> QED
  BY <1>1, <1>5

LEMMA LogGrows ==
    ASSUME NEW L, NEW M, LedgerType(L), LedgerType(M), Grow(L, M),
           NEW s \in Seq(Entry), NEW t, LogOfTerm(L, s, t)
    PROVE  LogOfTerm(M, s, t)
BY BackedGrows DEF LogOfTerm, GoodLog

\* A prefix of a log, and a log in a later term.
LEMMA LogPrefix ==
    ASSUME NEW L, NEW s \in Seq(Entry), NEW u \in Seq(Entry), NEW t \in Nat, NEW w \in Nat,
           LogOfTerm(L, s, t), Len(u) <= Len(s), Agree(u, s, Len(u)), t <= w
    PROVE  LogOfTerm(L, u, w)
<1>1. \A k \in 1..Len(u) : k \in 1..Len(s) /\ u[k] = s[k] /\ s[k].term \in Nat
  BY EntryType DEF Agree
<1>2. Backed(L, u)
  <2> SUFFICES ASSUME NEW k \in 1..Len(u) PROVE k <= Len(L[u[k].term]) /\ Agree(u, L[u[k].term], k)
    BY DEF Backed
  <2>1. k <= Len(L[s[k].term]) /\ Agree(s, L[s[k].term], k)
    BY <1>1 DEF LogOfTerm, GoodLog, Backed
  <2>2. \A x \in 1..k : x \in 1..Len(u)
    OBVIOUS
  <2> QED BY <1>1, <2>1, <2>2 DEF Agree
<1>3. Ordered(u)
  BY <1>1 DEF LogOfTerm, GoodLog, Ordered
<1>4. Len(u) > 0 => Len(s) > 0 /\ u[1] = s[1]
  BY <1>1
<1>5. \A k \in 1..Len(u) : u[k].term <= w
  BY <1>1 DEF LogOfTerm
<1> QED
  BY <1>2, <1>3, <1>4, <1>5 DEF LogOfTerm, GoodLog

\* M differs from L by the log of the leader of term t.
Records(L, M, t, s) == M = [L EXCEPT ![t] = s]

\* The leader of term t appends an entry of its own term.
LEMMA LogAppend ==
    ASSUME NEW L, LedgerType(L), NEW t \in Nat, NEW s \in Seq(Entry), Len(s) > 0, LogOfTerm(L, s, t),
           NEW e \in Entry, e.term = t, L[t] = <<>> \/ L[t] = s,
           NEW M, Records(L, M, t, Append(s, e))
    PROVE  /\ LedgerType(M) /\ Grow(L, M) /\ LogOfTerm(M, M[t], t)
           /\ M[t] = Append(s, e) /\ Len(M[t]) = Len(s) + 1 /\ M[t][Len(s) + 1] = e
           /\ Agree(s, M[t], Len(s))
<1> DEFINE a == Append(s, e)
<1>1. a \in Seq(Entry) /\ Len(a) = Len(s) + 1 /\ a[Len(s) + 1] = e /\ Len(s) \in Nat
  OBVIOUS
<1>2. \A k \in 1..Len(s) : a[k] = s[k]
  OBVIOUS
<1> HIDE DEF a
<1>3. M = [L EXCEPT ![t] = a] /\ M[t] = a /\ LedgerType(M)
  BY <1>1 DEF a, LedgerType, Records
<1>4. Grow(L, M)
  <2> SUFFICES ASSUME NEW u \in Nat
               PROVE  /\ Len(L[u]) <= Len(M[u]) /\ Agree(L[u], M[u], Len(L[u]))
                      /\ Len(L[u]) > 0 => \A k \in (Len(L[u]) + 1)..Len(M[u]) : M[u][k].term = u
    BY DEF Grow
  <2>0. Len(L[u]) \in Nat
    BY LedgerLen
  <2>1. CASE u # t
    <3>1. M[u] = L[u]
      BY <1>3, <2>1 DEF LedgerType
    <3> QED BY <2>0, <3>1 DEF Agree
  <2>2. CASE u = t /\ L[t] = <<>>
    BY <1>1, <1>3, <2>2 DEF Agree
  <2>3. CASE u = t /\ L[t] = s
    BY <1>1, <1>2, <1>3, <2>3 DEF Agree
  <2> QED BY <2>1, <2>2, <2>3
<1>5. LogOfTerm(M, s, t)
  BY <1>3, <1>4, LogGrows
<1>6. \A k \in 1..Len(a) : k \in 1..Len(s) \/ (k = Len(s) + 1 /\ a[k] = e)
  BY <1>1
<1>7. Backed(M, a)
  <2> SUFFICES ASSUME NEW k \in 1..Len(a) PROVE k <= Len(M[a[k].term]) /\ Agree(a, M[a[k].term], k)
    BY DEF Backed
  <2>1. CASE k \in 1..Len(s)
    <3>1. k <= Len(M[s[k].term]) /\ Agree(s, M[s[k].term], k)
      BY <1>5, <2>1 DEF LogOfTerm, GoodLog, Backed
    <3>2. \A x \in 1..k : x \in 1..Len(s)
      BY <2>1
    <3> QED BY <1>2, <2>1, <3>1, <3>2 DEF Agree
  <2>2. CASE a[k] = e
    BY <1>1, <1>3, <2>2 DEF Agree
  <2> QED BY <1>6, <2>1, <2>2
<1>8. \A k \in 1..Len(s) : s[k].term <= t /\ s[k].term \in Nat
  BY <1>5, EntryType DEF LogOfTerm
<1>9. Ordered(a)
  <2> SUFFICES ASSUME NEW k \in 1..Len(a), NEW l \in 1..Len(a), k <= l PROVE a[k].term <= a[l].term
    BY DEF Ordered
  <2>1. CASE l \in 1..Len(s)
    <3>1. k \in 1..Len(s)
      BY <1>1, <2>1
    <3> QED BY <1>2, <1>5, <2>1, <3>1 DEF LogOfTerm, GoodLog, Ordered
  <2>2. CASE a[l] = e
    BY <1>2, <1>6, <1>8, <2>2
  <2> QED BY <1>6, <2>1, <2>2
<1>10. a[1] = FirstEntry
  BY <1>1, <1>2, <1>5 DEF LogOfTerm, GoodLog
<1>11. \A k \in 1..Len(a) : a[k].term <= t
  BY <1>2, <1>6, <1>8
<1>12. LogOfTerm(M, a, t)
  BY <1>7, <1>9, <1>10, <1>11 DEF LogOfTerm, GoodLog
<1>13. Agree(s, a, Len(s))
  BY <1>2 DEF Agree
<1> QED
  BY <1>1, <1>3, <1>4, <1>12, <1>13 DEF a

-----------------------------------------------------------------------------
(* What a request leaves in the log of its target *)

Continues(rest, s, f) == f + Len(rest) <= Len(s) /\ \A x \in 1..Len(rest) : rest[x] = s[f + x]

NoneLater(s, k, t) == \A x \in 1..k : s[x].term <= t

\* Behind f entries of a log s, entries that continue s are all accepted.
LEMMA AcceptedAll ==
    ASSUME NEW n, NodeOK(n), NEW s \in Seq(Entry), Ordered(s), NEW f \in Nat, f \in 1..Len(s),
           Len(n.log) = f, Agree(n.log, s, f), NEW rest \in Seq(Entry), Continues(rest, s, f),
           NoneLater(s, f + Len(rest), n.currentTerm)
    PROVE  Accepted(n, rest) = Len(rest)
<1>1. PICK k \in 0..Len(rest) : k = Accepted(n, rest)
  BY AcceptedRange
<1>0. k < Len(rest) =>
         ~ CanAppend([n EXCEPT !.log = @ \o SubSeq(rest, 1, k)], rest[k + 1].term)
  BY <1>1, AcceptedRange
<1>2. k \in 0..Len(rest)
  BY <1>1, AcceptedRange
<1> SUFFICES ASSUME k < Len(rest) PROVE FALSE
  BY <1>1, <1>2
<1>3. n \in Node /\ n.log \in Seq(Entry) /\ k \in Nat /\ Len(rest) \in Nat /\ f \in Nat \ {0}
  BY <1>2 DEF NodeOK, Node
<1> DEFINE more == SubSeq(rest, 1, k)
           log == n.log \o more
<1>4. /\ more \in Seq(Entry) /\ Len(more) = k
      /\ \A x \in 1..k : more[x] = rest[x]
  BY <1>2, <1>3
<1> HIDE DEF more
<1>5. /\ log \in Seq(Entry) /\ Len(log) = f + k
      /\ \A x \in 1..(f + k) : log[x] = IF x <= f THEN n.log[x] ELSE more[x - f]
  <2>1. n.log \o more \in Seq(Entry) /\ Len(n.log \o more) = Len(n.log) + Len(more)
        /\ \A x \in 1..Len(n.log) + Len(more) :
              (n.log \o more)[x] = IF x <= Len(n.log) THEN n.log[x] ELSE more[x - Len(n.log)]
    BY <1>3, <1>4, ConcatProperties, ZenonT(30)
  <2> QED BY <1>4, <2>1
<1>c. log = n.log \o more
  OBVIOUS
<1> HIDE DEF log
<1>6. log[f + k] = s[f + k]
  <2>1. CASE k = 0
    <3>1. log[f] = n.log[f]
      BY <1>3, <1>5, <2>1
    <3> QED BY <1>3, <2>1, <3>1 DEF Agree
  <2>2. CASE k > 0
    <3>1. log[f + k] = more[k]
      BY <1>3, <1>5, <2>2
    <3>2. more[k] = rest[k] /\ rest[k] = s[f + k]
      BY <1>2, <1>3, <1>4, <2>2 DEF Continues
    <3> QED BY <3>1, <3>2
  <2> QED BY <1>3, <2>1, <2>2
<1>7. [n EXCEPT !.log = @ \o SubSeq(rest, 1, k)].log = log
      /\ [n EXCEPT !.log = @ \o SubSeq(rest, 1, k)].currentTerm = n.currentTerm
  BY <1>3, <1>c DEF more, Node
<1>8. /\ rest[k + 1] = s[f + k + 1] /\ f + k + 1 \in 1..(f + Len(rest))
      /\ f + k \in 1..Len(s) /\ f + k + 1 \in 1..Len(s)
  <2>1. k + 1 \in 1..Len(rest) /\ f + (k + 1) = f + k + 1
    BY <1>2, <1>3
  <2>2. f + Len(rest) <= Len(s) /\ Len(s) \in Nat
    BY DEF Continues
  <2>3. rest[k + 1] = s[f + (k + 1)]
    BY <2>1 DEF Continues
  <2> QED BY <1>2, <1>3, <2>1, <2>2, <2>3
<1>9. s[f + k].term <= s[f + k + 1].term /\ s[f + k + 1].term <= n.currentTerm
  BY <1>3, <1>8 DEF Ordered, NoneLater
<1>10. (f + k) - 1 + 1 = f + k
  BY <1>3
<1>11. CanAppend([n EXCEPT !.log = @ \o SubSeq(rest, 1, k)], rest[k + 1].term)
  BY <1>5, <1>6, <1>7, <1>8, <1>9, <1>10 DEF CanAppend, LastTerm, TermAt, LogSize
<1> QED
  BY <1>0, <1>11

\* Node n became new on a request cut from s: it has all of it already, or keeps
\* what agrees and takes the rest over.
Taken(n, new, m, s) ==
    LET end == m.prevIndex + 1 + Len(m.entries) IN
    \/ new.log = n.log /\ end <= Len(n.log) /\ Agree(n.log, s, end)
    \/ /\ new.log \in Seq(Entry) /\ Len(new.log) = end /\ Agree(new.log, s, end)
       /\ \E f \in (m.prevIndex + 1)..Len(n.log) :
             f < end /\ Agree(n.log, s, f) /\ (f < Len(n.log) => n.log[f + 1] # s[f + 1])

\* The commit index a node with n's arrives at when a request allows c.
Advanced(n, new, c) ==
    LET last == Len(new.log) - 1
        d == IF last < c THEN last ELSE c
    IN  new.commitIndex = IF n.commitIndex < d THEN d ELSE n.commitIndex

\* A request cut from a log s, at a node that has the part of s before it.
LEMMA AppendedLog ==
    ASSUME NEW n, NodeOK(n), NEW m \in AppReq, matchEntries(n, m.prevIndex, m.prevTerm),
           NEW s \in Seq(Entry), Ordered(s), CutFrom(m, s), Agree(n.log, s, m.prevIndex + 1),
           NEW end \in Nat, end = m.prevIndex + 1 + Len(m.entries),
           NoneLater(s, end, n.currentTerm)
    PROVE  LET r == Appended(n, m) IN
           /\ r.outcome = TRUE /\ Taken(n, r.node, m, s) /\ Advanced(n, r.node, m.commitIndex)
           /\ r.node.leader = n.leader
<1> DEFINE p == m.prevIndex + 1
           first == compareEntries(n, p, m.entries)
           rest  == SubSeq(m.entries, first - m.prevIndex, Len(m.entries))
           kept  == [n EXCEPT !.log = SubSeq(@, 1, first)]
           taken == Accepted(kept, rest)
           new   == IF rest = <<>> THEN n ELSE [kept EXCEPT !.log = @ \o SubSeq(rest, 1, taken)]
           last  == Len(new.log) - 1
           commit == IF last < m.commitIndex THEN last ELSE m.commitIndex
<1>1. /\ n \in Node /\ n.log \in Seq(Entry) /\ Len(n.log) \in Nat
      /\ n.commitIndex \in Nat /\ n.commitIndex < Len(n.log)
  BY DEF NodeOK, Node
<1>2. /\ m.prevIndex \in Nat /\ m.entries \in Seq(Entry) /\ m.commitIndex \in Nat
      /\ Len(m.entries) \in Nat
  BY DEF AppReq
<1>a. p = m.prevIndex + 1
  OBVIOUS
<1>3. p \in Nat /\ p >= 1 /\ p <= Len(n.log) /\ end = p + Len(m.entries) /\ end <= Len(s) /\ end \in Nat
  BY <1>1, <1>2 DEF matchEntries, LogSize, CutFrom
<1>4. /\ first \in p..Len(n.log) /\ first <= p + Len(m.entries)
      /\ \A x \in p..(first - 1) : n.log[x + 1] = m.entries[x - p + 1]
      /\ first = Len(n.log) \/ first = end \/ n.log[first + 1] # m.entries[first - p + 1]
  <2> HIDE DEF p
  <2> QED BY <1>1, <1>2, <1>3, CompareEntriesRange
<1>5. Appended(n, m) = IF taken < Len(rest) THEN [node |-> new, outcome |-> FALSE]
                       ELSE [node |-> setCommitIndex(new, commit), outcome |-> TRUE]
  BY DEF Appended, LogSize
<1>6. \A k \in 1..Len(m.entries) : m.entries[k] = s[p + k]
  BY DEF CutFrom
<1> HIDE DEF first, p
<1>7. first \in Nat /\ first >= 1 /\ first <= end /\ first >= p /\ first <= Len(n.log)
  BY <1>1, <1>3, <1>4
<1>b. first = Len(n.log) \/ first = end \/ n.log[first + 1] # m.entries[first - p + 1]
  BY <1>1, <1>3, <1>4
<1>8. Agree(n.log, s, first)
  <2> SUFFICES ASSUME NEW x \in 1..first PROVE n.log[x] = s[x]
    BY DEF Agree
  <2>1. CASE x <= p
    BY <1>3, <2>1 DEF Agree, p
  <2>2. CASE x > p
    <3>1. x - 1 \in p..(first - 1) /\ (x - 1) + 1 = x /\ x - 1 - p + 1 = x - p
      BY <1>3, <1>7, <2>2
    <3>2. n.log[x] = m.entries[x - p]
      BY <1>4, <3>1
    <3>3. x - p \in 1..Len(m.entries) /\ p + (x - p) = x
      BY <1>2, <1>3, <1>4, <1>7, <2>2
    <3> QED BY <1>6, <3>2, <3>3
  <2> QED BY <1>3, <1>7, <2>1, <2>2
<1>9. /\ rest \in Seq(Entry) /\ Len(rest) = end - first
      /\ \A x \in 1..Len(rest) : rest[x] = m.entries[first - m.prevIndex + x - 1]
  <2>1. PICK b \in Nat : b = first - m.prevIndex
    BY <1>2, <1>3, <1>7, <1>a
  <2>2. b \in 1..(Len(m.entries) + 1) /\ end - first = Len(m.entries) - b + 1 /\ b \in Nat
    <3>1. \A q, e, x \in Nat : x >= q + 1 /\ x <= q + 1 + e =>
             x - q \in 1..(e + 1) /\ (q + 1 + e) - x = e - (x - q) + 1
      OBVIOUS
    <3>2. end = m.prevIndex + 1 + Len(m.entries) /\ first >= m.prevIndex + 1
      BY <1>7, <1>a
    <3> QED BY <1>2, <1>7, <2>1, <3>1, <3>2, SMTT(30)
  <2>3. SubSeq(m.entries, b, Len(m.entries)) \in Seq(Entry)
    BY <1>2, <2>2
  <2>4. Len(SubSeq(m.entries, b, Len(m.entries))) = Len(m.entries) - b + 1
    BY <1>2, <2>2
  <2>5. \A x \in 1..(Len(m.entries) - b + 1) :
           SubSeq(m.entries, b, Len(m.entries))[x] = m.entries[b + x - 1]
    BY <1>2, <2>2
  <2> QED BY <2>1, <2>2, <2>3, <2>4, <2>5
<1>10. \A x \in 1..Len(rest) : rest[x] = s[first + x]
  <2> SUFFICES ASSUME NEW x \in 1..Len(rest) PROVE rest[x] = s[first + x]
    OBVIOUS
  <2>1. /\ first - m.prevIndex + x - 1 \in 1..Len(m.entries)
        /\ p + (first - m.prevIndex + x - 1) = first + x
    <3>1. Len(rest) = end - first /\ x \in Nat /\ x >= 1 /\ x <= end - first
      BY <1>3, <1>7, <1>9
    <3> HIDE DEF rest
    <3>2. \A q, e, y \in Nat : y >= q + 1 /\ y <= q + 1 + e /\ x <= (q + 1 + e) - y =>
             y - q + x - 1 \in 1..e /\ (q + 1) + (y - q + x - 1) = y + x
      BY <3>1
    <3>3. end = m.prevIndex + 1 + Len(m.entries) /\ first >= m.prevIndex + 1
      BY <1>7, <1>a
    <3> QED BY <1>2, <1>7, <1>a, <3>1, <3>2, <3>3
  <2>2. rest[x] = m.entries[first - m.prevIndex + x - 1]
    BY <1>9
  <2> QED BY <1>6, <2>1, <2>2
<1>11. first < end => (first = Len(n.log) \/ n.log[first + 1] # s[first + 1])
  <2> SUFFICES ASSUME first < end, first # Len(n.log) PROVE n.log[first + 1] # s[first + 1]
    OBVIOUS
  <2>1. n.log[first + 1] # m.entries[first - p + 1]
    BY <1>3, <1>7, <1>b
  <2>2. first - p + 1 \in 1..Len(m.entries) /\ p + (first - p + 1) = first + 1
    BY <1>2, <1>3, <1>4, <1>7
  <2> QED BY <1>6, <2>1, <2>2
<1> HIDE DEF rest
<1>12. rest = <<>> <=> first = end
  <2>1. Len(rest) = 0 <=> rest = <<>>
    BY <1>9
  <2> QED BY <1>3, <1>7, <1>9, <2>1
<1>13. /\ SubSeq(n.log, 1, first) \in Seq(Entry) /\ Len(SubSeq(n.log, 1, first)) = first
       /\ \A x \in 1..first : SubSeq(n.log, 1, first)[x] = n.log[x]
  BY <1>1, <1>4, <1>7
<1>14. taken = Len(rest)
  <2>1. CASE rest = <<>>
    <3>1. taken \in 0..Len(rest)
      BY <1>9, AcceptedRange
    <3> QED BY <2>1, <3>1
  <2>2. CASE rest # <<>>
    <3>1. first < end /\ first <= Len(n.log)
      BY <1>1, <1>3, <1>7, <1>12, <2>2
    <3>2. kept \in Node /\ kept.log = SubSeq(n.log, 1, first) /\ kept.currentTerm = n.currentTerm
      BY <1>1, <1>13 DEF Node
    <3>3. Len(kept.log) = first /\ Agree(kept.log, s, first)
      BY <1>8, <1>13, <3>2 DEF Agree
    <3>4. first \in 1..Len(s) /\ first + Len(rest) = end /\ Continues(rest, s, first)
      BY <1>3, <1>7, <1>9, <1>10 DEF Continues
    <3> DEFINE zero == [kept EXCEPT !.commitIndex = 0]
    <3>5. NodeOK(zero) /\ zero.log = kept.log /\ zero.currentTerm = kept.currentTerm
      <4>1. Len(kept.log) > 0
        BY <1>7, <3>3
      <4> HIDE DEF kept
      <4> QED BY <3>2, <4>1 DEF NodeOK, Node
    <3>6. NoneLater(s, first + Len(rest), kept.currentTerm)
      BY <3>2, <3>4
    <3>7. Accepted(zero, rest) = Len(rest)
      <4> HIDE DEF zero, kept, taken
      <4>1. Len(zero.log) = first /\ Agree(zero.log, s, first) /\ NoneLater(s, first + Len(rest), zero.currentTerm)
        BY <3>3, <3>5, <3>6
      <4> QED BY <1>7, <1>9, <3>4, <3>5, <4>1, AcceptedAll
    <3>8. Accepted(kept, rest) = Accepted(zero, rest)
      <4>1. \A k : /\ [zero EXCEPT !.log = @ \o SubSeq(rest, 1, k)].log = [kept EXCEPT !.log = @ \o SubSeq(rest, 1, k)].log
                   /\ [zero EXCEPT !.log = @ \o SubSeq(rest, 1, k)].currentTerm
                         = [kept EXCEPT !.log = @ \o SubSeq(rest, 1, k)].currentTerm
        BY <3>2, <3>5 DEF Node, NodeOK
      <4> HIDE DEF zero, kept, taken
      <4>2. \A k, t : CanAppend([zero EXCEPT !.log = @ \o SubSeq(rest, 1, k)], t)
                         <=> CanAppend([kept EXCEPT !.log = @ \o SubSeq(rest, 1, k)], t)
        BY <4>1 DEF CanAppend, LastTerm, TermAt, LogSize
      <4> QED BY <4>2 DEF Accepted
    <3> QED BY <3>7, <3>8
  <2> QED BY <2>1, <2>2
<1>15. SubSeq(rest, 1, taken) = rest
  BY <1>9, <1>14
<1> HIDE DEF taken
<1>16. Appended(n, m) = [node |-> setCommitIndex(new, commit), outcome |-> TRUE]
  <2>1. ~ (taken < Len(rest))
    BY <1>9, <1>14
  <2> HIDE DEF new, commit
  <2> QED BY <1>5, <2>1
<1>17. /\ new.commitIndex = n.commitIndex /\ new.leader = n.leader
       /\ new.log = IF rest = <<>> THEN n.log ELSE SubSeq(n.log, 1, first) \o rest
       /\ DOMAIN new = DOMAIN n
  BY <1>1, <1>15 DEF Node
<1> HIDE DEF new, kept
<1>18. /\ setCommitIndex(new, commit).log = new.log /\ setCommitIndex(new, commit).leader = new.leader
       /\ setCommitIndex(new, commit).commitIndex =
             IF new.commitIndex < commit THEN commit ELSE new.commitIndex
  <2> HIDE DEF commit
  <2>1. DOMAIN new = {"term", "status", "leader", "votedFor", "leadershipMarker",
                      "currentTerm", "journalVote", "log", "commitIndex"}
    BY <1>1, <1>17 DEF Node
  <2> QED BY <2>1 DEF setCommitIndex
<1>19. CASE rest = <<>>
  <2>1. new.log = n.log /\ end <= Len(n.log) /\ Agree(n.log, s, end)
    BY <1>1, <1>7, <1>8, <1>12, <1>17, <1>19
  <2>2. /\ Appended(n, m).node.log = n.log /\ Appended(n, m).outcome = TRUE
        /\ Appended(n, m).node.leader = n.leader
        /\ Appended(n, m).node.commitIndex = IF n.commitIndex < commit THEN commit ELSE n.commitIndex
    <3> HIDE DEF commit
    <3> QED BY <1>16, <1>17, <1>18, <2>1
  <2>3. commit = IF Len(n.log) - 1 < m.commitIndex THEN Len(n.log) - 1 ELSE m.commitIndex
    BY <2>1
  <2> HIDE DEF commit
  <2> QED BY <2>1, <2>2, <2>3 DEF Taken, Advanced
<1>20. CASE rest # <<>>
  <2> DEFINE log == SubSeq(n.log, 1, first) \o rest
             h == SubSeq(n.log, 1, first)
  <2>1. new.log = log /\ first < end
    BY <1>3, <1>7, <1>12, <1>17, <1>20, SMTT(30)
  <2>2. log \in Seq(Entry) /\ Len(log) = end /\ Agree(log, s, end)
    <3>0. h \in Seq(Entry) /\ Len(h) = first /\ \A x \in 1..first : h[x] = s[x]
      BY <1>8, <1>13 DEF Agree
    <3>a. log = h \o rest
      OBVIOUS
    <3> HIDE DEF log, h
    <3>b. rest \in Seq(Entry) /\ Len(rest) = end - first
      BY <1>9
    <3>c. /\ log \in Seq(Entry) /\ Len(log) = Len(h) + Len(rest)
          /\ \A x \in 1..(Len(h) + Len(rest)) : log[x] = IF x <= Len(h) THEN h[x] ELSE rest[x - Len(h)]
      BY <3>0, <3>a, <3>b, ConcatProperties
    <3>d. first + (end - first) = end
      BY <1>3, <1>7
    <3>1. log \in Seq(Entry) /\ Len(log) = end
      BY <3>0, <3>b, <3>c, <3>d
    <3>2. \A x \in 1..first : log[x] = s[x]
      <4>1. \A x \in 1..first : x \in 1..(first + (end - first)) /\ x <= first
        BY <1>7, <3>d
      <4> QED BY <3>0, <3>b, <3>c, <4>1
    <3>3. ASSUME NEW x \in 1..end, x > first PROVE log[x] = s[x]
      <4>1. x - first \in 1..Len(rest) /\ first + (x - first) = x
        BY <1>3, <1>7, <3>b, <3>3
      <4>2. log[x] = rest[x - first]
        BY <1>3, <1>7, <3>0, <3>b, <3>c, <3>d, <3>3, SMTT(30)
      <4> QED BY <1>10, <4>1, <4>2
    <3>4. \A x \in 1..end : x \in 1..first \/ x > first
      BY <1>7
    <3> QED BY <3>1, <3>2, <3>3, <3>4 DEF Agree
  <2> HIDE DEF log
  <2>3. first \in (m.prevIndex + 1)..Len(n.log)
    BY <1>4 DEF p
  <2>4. \E f \in (m.prevIndex + 1)..Len(n.log) :
           f < end /\ Agree(n.log, s, f) /\ (f < Len(n.log) => n.log[f + 1] # s[f + 1])
    BY <1>1, <1>7, <1>8, <1>11, <2>1, <2>3
  <2>5. /\ Appended(n, m).node.log = log /\ Appended(n, m).outcome = TRUE
        /\ Appended(n, m).node.leader = n.leader
        /\ Appended(n, m).node.commitIndex = IF n.commitIndex < commit THEN commit ELSE n.commitIndex
    <3> HIDE DEF commit
    <3> QED BY <1>16, <1>17, <1>18, <2>1
  <2>6. commit = IF Len(log) - 1 < m.commitIndex THEN Len(log) - 1 ELSE m.commitIndex
    BY <2>1
  <2> HIDE DEF commit
  <2> QED BY <2>2, <2>4, <2>5, <2>6 DEF Taken, Advanced
<1> QED
  BY <1>19, <1>20

\* The whole handler: what it does to the log when the request was cut from the
\* log of a leader no later than its own, and when it leaves it alone.
LEMMA HandlerLog ==
    ASSUME NEW n, NodeOK(n), Durable(n), NEW m \in AppReq, NEW L, LedgerType(L),
           LogOfTerm(L, n.log, n.term), NEW t \in Nat, t <= m.term, CutFrom(m, L[t]),
           LogOfTerm(L, L[t], t)
    PROVE  LET r == appendEntries(n, m)
               o == observed(n, m.term, m.leader) IN
           /\ r.ack.req = m /\ r.ack.term = o.term /\ r.ack.logSize = Len(r.node.log)
           /\ SameVote(o, r.node) /\ r.node.leader = o.leader
           /\ \/ /\ o.term = m.term /\ matchEntries(n, m.prevIndex, m.prevTerm)
                 /\ r.ack.outcome = TRUE
                 /\ Taken(n, r.node, m, L[t]) /\ Advanced(n, r.node, m.commitIndex)
              \/ /\ o.term # m.term \/ ~ matchEntries(n, m.prevIndex, m.prevTerm)
                 /\ r.ack.outcome = FALSE /\ r.node = o
<1> DEFINE o == observed(n, m.term, m.leader)
           r == appendEntries(n, m)
           res == IF m.term = o.term /\ matchEntries(o, m.prevIndex, m.prevTerm)
                  THEN Appended(o, m) ELSE [node |-> o, outcome |-> FALSE]
<1>1. m.term \in Nat /\ m.leader \in Server \cup {Nobody}
  BY DEF AppReq, Term
<1>2. NodeOK(o) /\ Durable(o) /\ o.log = n.log /\ o.commitIndex = n.commitIndex
  BY <1>1, ObservedVote, ObservedType DEF Term
<1>3. r = [node |-> res.node, ack |-> [req |-> m, term |-> o.term, logSize |-> LogSize(res.node),
                                       outcome |-> res.outcome]]
  BY DEF appendEntries
<1>4. matchEntries(o, m.prevIndex, m.prevTerm) <=> matchEntries(n, m.prevIndex, m.prevTerm)
  BY <1>2 DEF matchEntries, LogSize
<1> HIDE DEF o, res, r
<1>5. CASE o.term = m.term /\ matchEntries(n, m.prevIndex, m.prevTerm)
  <2> DEFINE p == m.prevIndex + 1
             end == p + Len(m.entries)
  <2>1. res = Appended(o, m)
    BY <1>4, <1>5 DEF res
  <2>2. /\ n.log \in Seq(Entry) /\ L[t] \in Seq(Entry) /\ m.prevIndex \in Nat
        /\ Len(n.log) \in Nat /\ Len(L[t]) \in Nat /\ Len(m.entries) \in Nat
    BY LedgerLen DEF NodeOK, Node, AppReq
  <2>3. p \in Nat /\ p >= 1 /\ p <= Len(n.log) /\ n.log[p].term = m.prevTerm
    BY <1>5, <2>2 DEF matchEntries, LogSize, TermAt
  <2>4. end \in Nat /\ end <= Len(L[t]) /\ p <= end /\ L[t][p].term = m.prevTerm
    BY <2>2, <2>3 DEF CutFrom
  <2>5. Agree(n.log, L[t], p)
    <3> HIDE DEF p
    <3>1. p \in 1..Len(n.log) /\ p <= Len(L[t])
      BY <2>2, <2>3, <2>4
    <3> QED BY <2>2, <2>3, <2>4, <3>1, BackedAgree DEF LogOfTerm, GoodLog
  <2>6. o.currentTerm = m.term
    BY <1>2, <1>5 DEF Durable
  <2>7. NoneLater(L[t], end, o.currentTerm)
    <3>1. \A x \in 1..Len(L[t]) : L[t][x].term <= t /\ L[t][x].term \in Nat
      BY <2>2, EntryType DEF LogOfTerm
    <3>2. \A x \in 1..end : x \in 1..Len(L[t])
      BY <2>2, <2>4
    <3> HIDE DEF end
    <3> QED BY <1>1, <2>6, <3>1, <3>2 DEF NoneLater
  <2>8. Ordered(L[t]) /\ matchEntries(o, m.prevIndex, m.prevTerm) /\ Agree(o.log, L[t], m.prevIndex + 1)
    BY <1>2, <1>4, <1>5, <2>5 DEF LogOfTerm, GoodLog
  <2>9. end = m.prevIndex + 1 + Len(m.entries)
    OBVIOUS
  <2> HIDE DEF end
  <2>10. /\ res.outcome = TRUE /\ Taken(o, res.node, m, L[t]) /\ Advanced(o, res.node, m.commitIndex)
         /\ res.node.leader = o.leader
    BY <1>2, <2>1, <2>2, <2>4, <2>7, <2>8, <2>9, AppendedLog
  <2>11. Taken(n, res.node, m, L[t]) /\ Advanced(n, res.node, m.commitIndex)
    BY <1>2, <2>10 DEF Taken, Advanced
  <2>12. SameVote(o, res.node)
    BY <1>2, <2>1, AppendedVote
  <2> QED BY <1>3, <1>5, <2>10, <2>11, <2>12 DEF LogSize, r, o
<1>6. CASE ~ (o.term = m.term /\ matchEntries(n, m.prevIndex, m.prevTerm))
  <2>1. res = [node |-> o, outcome |-> FALSE]
    BY <1>4, <1>6 DEF res
  <2>2. r.node = o /\ r.ack.outcome = FALSE /\ r.ack.term = o.term /\ r.ack.req = m
        /\ r.ack.logSize = Len(r.node.log)
    BY <1>3, <2>1 DEF LogSize
  <2> QED BY <1>6, <2>2 DEF SameVote, r, o
<1> QED
  BY <1>5, <1>6

-----------------------------------------------------------------------------
(* Steps by what they do to the logs *)

NoNewLeader(n, m) ==
    m.status = "LEADER" => /\ n.status = "LEADER" /\ m.term = n.term
                           /\ n.leader # Nobody => m.leader = n.leader

\* m is n with at most its term, vote, leader and status changed, and no new leader.
Calm(n, m) == m.log = n.log /\ NoNewLeader(n, m)

LEMMA CalmTrans ==
    ASSUME NEW n, NEW o, NEW m, Calm(n, o), Calm(o, m)
    PROVE  Calm(n, m)
BY DEF Calm, NoNewLeader

\* What observed may change: nothing, or the leader, perhaps together with the term.
LEMMA ObservedLeader ==
    ASSUME NEW n, NodeOK(n), NEW term \in Nat, NEW leader \in Server \cup {Nobody}
    PROVE  LET o == observed(n, term, leader) IN
           \/ o = n
           \/ /\ o.leader = leader /\ o.term = term
              /\ \/ term > n.term /\ o.status = "FOLLOWER"
                 \/ term = n.term /\ n.leader = Nobody /\ o.status = n.status
              /\ leader # Nobody => o.votedFor # Nobody
<1> DEFINE m1 == [updateStatus(n, "FOLLOWER") EXCEPT
                    !.term = term, !.leader = leader,
                    !.votedFor = IF leader = Nobody THEN Nobody ELSE Blocked]
           m2 == [n EXCEPT !.leader = leader, !.votedFor = Blocked]
           m3 == [n EXCEPT !.leader = leader]
           o == observed(n, term, leader)
<1>0. n \in Node /\ n.term \in Nat /\ Blocked # Nobody
  BY NobodyAssumption DEF NodeOK, Node, Term
<1>a. ASSUME NEW x, NodeOK(x)
      PROVE  LET y == updateJournal(x) IN
             y.leader = x.leader /\ y.term = x.term /\ y.status = x.status /\ y.votedFor = x.votedFor
  BY <1>a DEF updateJournal, NodeOK, Node
<1>1. CASE term > n.term
  <2>1. o = updateJournal(m1)
    BY <1>0, <1>1 DEF observed
  <2>2. /\ NodeOK(m1) /\ m1.term = term /\ m1.status = "FOLLOWER" /\ m1.leader = leader
        /\ leader # Nobody => m1.votedFor # Nobody
    BY <1>0 DEF NodeOK, Node, Term, updateStatus
  <2> HIDE DEF m1
  <2> QED BY <1>a, <1>1, <2>1, <2>2
<1>2. CASE ~ (term > n.term) /\ term = n.term /\ n.leader = Nobody /\ leader # Nobody /\ n.votedFor = Nobody
  <2>1. o = updateJournal(m2)
    BY <1>2 DEF observed
  <2>2. NodeOK(m2) /\ m2.term = term /\ m2.status = n.status /\ m2.leader = leader /\ m2.votedFor # Nobody
    BY <1>0, <1>2 DEF NodeOK, Node, Term
  <2> HIDE DEF m2
  <2> QED BY <1>a, <1>2, <2>1, <2>2
<1>3. CASE ~ (term > n.term) /\ term = n.term /\ n.leader = Nobody /\ ~ (leader # Nobody /\ n.votedFor = Nobody)
  <2>1. o = m3
    BY <1>3 DEF observed
  <2>2. m3.term = term /\ m3.status = n.status /\ m3.leader = leader /\ m3.votedFor = n.votedFor
    BY <1>0, <1>3 DEF Node
  <2> QED BY <1>3, <2>1, <2>2
<1>4. CASE ~ (term > n.term) /\ ~ (term = n.term /\ n.leader = Nobody)
  BY <1>4 DEF observed
<1> QED
  BY <1>1, <1>2, <1>3, <1>4

LEMMA ObservedCalm ==
    ASSUME NEW n, NodeOK(n), NEW term \in Nat, NEW leader \in Server \cup {Nobody}
    PROVE  Calm(n, observed(n, term, leader))
BY ObservedLeader, ObservedType DEF Calm, NoNewLeader, Term

LEMMA ObserveTermsCalm ==
    ASSUME NEW n, NodeOK(n), NEW R, R \subseteq VoteReply, IsFiniteSet(R)
    PROVE  /\ Calm(n, observeTerms(n, R)) /\ NodeOK(observeTerms(n, R))
           /\ observeTerms(n, R).commitIndex = n.commitIndex
BY ObserveTermsCases, ObservedCalm, ObservedType DEF Calm, NoNewLeader, Term

LEMMA VoteCalm ==
    ASSUME NEW n, NodeOK(n), NEW c \in Server, NEW t \in Term
    PROVE  /\ Calm(n, grantVote(n, c)) /\ grantVote(n, c).commitIndex = n.commitIndex
           /\ Calm(n, becomeCandidate(n, c)) /\ becomeCandidate(n, c).commitIndex = n.commitIndex
           /\ Calm(n, dropOut(n, t)) /\ dropOut(n, t).commitIndex = n.commitIndex
BY DEF NodeOK, Node, Calm, NoNewLeader, grantVote, becomeCandidate, dropOut, updateStatus, updateJournal

\* A step that appends nothing and elects nobody, and leaves the commit indexes alone.
Still ==
    /\ elected' = elected
    /\ \A i \in Server : Calm(node[i], node'[i]) /\ node'[i].commitIndex = node[i].commitIndex

\* Server i becomes leader.
Wins(i) ==
    LET n == node[i] IN
    /\ director[i].phase = "electing" /\ director[i].term = n.term
    /\ n.leader = Nobody /\ n.votedFor = i
    /\ node'[i].log = Append(n.log, [term |-> n.term, request |-> i])
    /\ node'[i].term = n.term /\ node'[i].votedFor = i /\ node'[i].leader = i
    /\ node'[i].status = "LEADER" /\ node'[i].commitIndex = n.commitIndex
    /\ elected' = elected \cup {<<i, n.term>>}
    /\ \A j \in Server \ {i} : node'[j] = node[j]

\* Leader i appends a write of a client.
Writes(i) ==
    LET n == node[i] IN
    /\ n.status = "LEADER"
    /\ \E v \in Value : node'[i].log = Append(n.log, [term |-> n.term, request |-> v])
    /\ node'[i].term = n.term /\ node'[i].votedFor = n.votedFor /\ node'[i].leader = n.leader
    /\ node'[i].status = n.status /\ node'[i].commitIndex = n.commitIndex
    /\ elected' = elected
    /\ \A j \in Server \ {i} : node'[j] = node[j]

\* The rest of Next touches no log.
QuietNext ==
    \/ \E i \in Server :
          \/ ObserveTerm(i) \/ RunForLeader(i) \/ AbandonElection(i) \/ BeginElection(i)
          \/ ActivateReplicator(i) \/ DeactivateReplicator(i) \/ ServiceBegin(i) \/ Restart(i)
          \/ \E h \in heartbeats : Heartbeat(i, h)
          \/ \E j \in Server :
                \/ \E limit \in PayloadLimits : SendPayload(i, j, limit) \/ HaltReplication(i, j, limit)
                \/ \E lost \in BOOLEAN : AckTimeout(i, j, lost)
    \/ \E q \in voteReqs : RequestVote(q)
    \/ \E m \in appReqs : LoseRequest(m)

LEMMA OneStill ==
    ASSUME TypeInv, NEW i \in Server, NEW n, Calm(node[i], n), n.commitIndex = node[i].commitIndex,
           node' = [node EXCEPT ![i] = n], elected' = elected
    PROVE  Still
<1>1. \A j \in Server : node'[j] = IF j = i THEN n ELSE node[j]
  BY DEF TypeInv, TypeOK
<1> QED
  BY <1>1 DEF Still, Calm, NoNewLeader

LEMMA NoneStill ==
    ASSUME node' = node, elected' = elected
    PROVE  Still
BY DEF Still, Calm, NoNewLeader

LEMMA QuietStill ==
    ASSUME TypeInv, QuietNext
    PROVE  Still
<1>0. \A i \in Server : NodeOK(node[i]) /\ node[i].term \in Nat
  BY DEF TypeInv, TypeOK, NodeOK, Node, Term
<1>a. Nobody \in Server \cup {Nobody}
  OBVIOUS
<1>o. ASSUME NEW i \in Server, NEW t \in Nat, NEW l \in Server \cup {Nobody}
      PROVE  /\ Calm(node[i], observed(node[i], t, l)) /\ NodeOK(observed(node[i], t, l))
             /\ observed(node[i], t, l).commitIndex = node[i].commitIndex
  BY <1>0, ObservedCalm, ObservedType DEF Term
<1>1. ASSUME NEW i \in Server, ObserveTerm(i) PROVE Still
  <2>1. node' = [node EXCEPT ![i] = observed(node[i], node[i].term + 1, Nobody)] /\ elected' = elected
    BY <1>1 DEF ObserveTerm
  <2>2. node[i].term + 1 \in Nat
    BY <1>0
  <2> QED BY <1>a, <1>o, <2>1, <2>2, OneStill
<1>2. ASSUME NEW i \in Server, BeginElection(i) PROVE Still
  <2> DEFINE d == IF "prevote" \in Windows THEN director[i] ELSE Prepared(i)
             n == observed(node[i], d.term, Nobody)
  <2>1. d.term \in Nat
    BY PreparedType DEF TypeInv, TypeOK, Director, Term
  <2>2. node' = [node EXCEPT ![i] = becomeCandidate(n, i)] /\ elected' = elected
    BY <1>2 DEF BeginElection
  <2> HIDE DEF d
  <2>3. Calm(node[i], n) /\ NodeOK(n) /\ n.commitIndex = node[i].commitIndex
    BY <1>a, <1>o, <2>1
  <2> HIDE DEF n
  <2>4. Calm(node[i], becomeCandidate(n, i)) /\ becomeCandidate(n, i).commitIndex = node[i].commitIndex
    BY <2>1, <2>3, VoteCalm, CalmTrans DEF Term
  <2> QED BY <2>2, <2>4, OneStill
<1>3. ASSUME NEW q \in voteReqs, RequestVote(q) PROVE Still
  <2> DEFINE n == observed(node[q.to], q.term, Nobody)
             m == IF VoteOn(n, q) = "GRANTED" THEN grantVote(n, q.candidate) ELSE n
  <2>1. q.to \in Server /\ q.candidate \in Server /\ q.term \in Nat
    BY DEF TypeInv, TypeOK, VoteReq, Term
  <2>2. Calm(node[q.to], n) /\ NodeOK(n) /\ n.commitIndex = node[q.to].commitIndex
    BY <1>a, <1>o, <2>1
  <2>3. node' = [node EXCEPT ![q.to] = m] /\ elected' = elected
    BY <1>3 DEF RequestVote
  <2> HIDE DEF n
  <2>4. Calm(node[q.to], m) /\ m.commitIndex = node[q.to].commitIndex
    BY <2>1, <2>2, VoteCalm, CalmTrans DEF Term
  <2> HIDE DEF m
  <2> QED BY <2>1, <2>3, <2>4, OneStill
<1>4. ASSUME NEW j \in Server, NEW h \in heartbeats, Heartbeat(j, h) PROVE Still
  <2>1. h[1] \in Server \cup {Nobody} /\ h[2] \in Nat
    BY DEF TypeInv, TypeOK, Term
  <2>2. node' = [node EXCEPT ![j] = observed(node[j], h[2], h[1])] /\ elected' = elected
    BY <1>4 DEF Heartbeat
  <2> QED BY <1>o, <2>1, <2>2, OneStill, ZenonT(30)
<1>5. ASSUME NEW i \in Server, NEW j \in Server, NEW limit \in PayloadLimits, HaltReplication(i, j, limit)
      PROVE  Still
  <2>1. node' = [node EXCEPT ![i] = observed(node[i], repl[i] + 1, Nobody)] /\ elected' = elected
    BY <1>5 DEF HaltReplication
  <2>2. repl[i] + 1 \in Nat
    BY DEF TypeInv, TypeOK, Term
  <2> QED BY <1>a, <1>o, <2>1, <2>2, OneStill
<1>6. ASSUME NEW i \in Server, Restart(i) PROVE Still
  <2> DEFINE n == [node[i] EXCEPT !.term = node[i].currentTerm, !.votedFor = node[i].journalVote,
                    !.status = "FOLLOWER", !.leader = Nobody, !.leadershipMarker = -1]
  <2>1. Calm(node[i], n) /\ n.commitIndex = node[i].commitIndex
    BY <1>0 DEF NodeOK, Node, Calm, NoNewLeader
  <2>2. node' = [node EXCEPT ![i] = n] /\ elected' = elected
    BY <1>6 DEF Restart
  <2> HIDE DEF n
  <2> QED BY <2>1, <2>2, OneStill
<1>7. ASSUME NEW i \in Server,
             \/ RunForLeader(i) \/ AbandonElection(i) \/ ActivateReplicator(i)
             \/ DeactivateReplicator(i) \/ ServiceBegin(i)
             \/ \E j \in Server :
                  \/ \E limit \in PayloadLimits : SendPayload(i, j, limit)
                  \/ \E lost \in BOOLEAN : AckTimeout(i, j, lost)
      PROVE  Still
  <2>1. node' = node /\ elected' = elected
    BY <1>7 DEF RunForLeader, AbandonElection, ActivateReplicator, DeactivateReplicator,
                ServiceBegin, SendPayload, AckTimeout
  <2> QED BY <2>1, NoneStill
<1>8. ASSUME NEW m \in appReqs, LoseRequest(m) PROVE Still
  <2>1. node' = node /\ elected' = elected
    BY <1>8 DEF LoseRequest
  <2> QED BY <2>1, NoneStill
<1> QED
  BY <1>1, <1>2, <1>3, <1>4, <1>5, <1>6, <1>7, <1>8 DEF QuietNext

LEMMA ConcludeCases ==
    ASSUME TypeInv, VoteInv, NEW i \in Server, NEW R \in SUBSET {r \in voteReplies : r.to = i},
           NEW late \in SUBSET {q \in voteReqs : q.candidate = i}, ConcludeElection(i, R, late)
    PROVE  Still \/ Wins(i)
<1> DEFINE d == director[i]
           n == observeTerms(node[i], R)
           won == determineOutcome(R) = "elected" /\ CanAscend(n, i, d.term)
<1>0. NodeOK(node[i]) /\ node[i].term \in Nat /\ Durable(node[i])
  BY DEF TypeInv, TypeOK, NodeOK, Node, Term, VoteInv, DurableVote, Durable
<1>1. R \subseteq VoteReply /\ IsFiniteSet(R) /\ d.term \in Term
  BY FS_Subset DEF TypeInv, TypeOK, Director
<1>2. Calm(node[i], n) /\ NodeOK(n) /\ n.commitIndex = node[i].commitIndex
  BY <1>0, <1>1, ObserveTermsCalm
<1>3. /\ node' = [node EXCEPT ![i] = IF won THEN ascend(n, i, d.term) ELSE dropOut(n, d.term)]
      /\ elected' = IF won THEN elected \cup {<<i, d.term>>} ELSE elected
      /\ d.phase = "electing"
  BY DEF ConcludeElection
<1>4. CASE ~ won
  <2> HIDE DEF n, d, won
  <2>1. Calm(node[i], dropOut(n, d.term)) /\ dropOut(n, d.term).commitIndex = node[i].commitIndex
    BY <1>1, <1>2, VoteCalm, CalmTrans
  <2> QED BY <1>3, <1>4, <2>1, OneStill
<1>5. CASE won
  <2>1. n.term = d.term /\ n.status = "CANDIDATE" /\ n.leader = Nobody /\ n.votedFor = i
    BY <1>5 DEF CanAscend
  <2>2. n.term = node[i].term /\ node[i].leader = Nobody /\ node[i].votedFor = i
    <3>1. CASE n = node[i]
      BY <2>1, <3>1
    <3>2. ASSUME NEW t \in Nat, n = observed(node[i], t, Nobody) PROVE n.term = node[i].term /\ node[i].leader = Nobody
      BY <1>0, <2>1, <3>2, ObservedLeader
    <3>3. n.term = node[i].term /\ node[i].leader = Nobody
      BY <1>1, <3>1, <3>2, ObserveTermsCases
    <3>4. \/ n = node[i]
          \/ \E t \in Nat : n = observed(node[i], t, Nobody)
      BY <1>1, ObserveTermsCases
    <3>5. ASSUME NEW t \in Nat, n = observed(node[i], t, Nobody) PROVE node[i].votedFor = i
      <4>1. t <= node[i].term
        BY <1>0, <3>3, <3>5, ObservedVote
      <4>2. n = node[i] \/ n = [node[i] EXCEPT !.leader = Nobody]
        BY <1>0, <3>5, <4>1 DEF observed
      <4> QED BY <1>0, <2>1, <4>2 DEF NodeOK, Node
    <3> QED BY <2>1, <3>3, <3>4, <3>5
  <2> HIDE DEF n, d, won
  <2>3. node'[i] = ascend(n, i, d.term) /\ \A j \in Server \ {i} : node'[j] = node[j]
    BY <1>3, <1>5 DEF TypeInv, TypeOK
  <2>4. /\ ascend(n, i, d.term).log = Append(n.log, [term |-> d.term, request |-> i])
        /\ ascend(n, i, d.term).commitIndex = n.commitIndex
        /\ ascend(n, i, d.term).leader = i
        /\ ascend(n, i, d.term).status = "LEADER" /\ ascend(n, i, d.term).term = n.term
        /\ ascend(n, i, d.term).votedFor = n.votedFor
    BY <1>2 DEF ascend, appendEntry, updateStatus, NodeOK, Node
  <2>5. n.log = node[i].log
    BY <1>2 DEF Calm, NoNewLeader
  <2> QED BY <1>2, <1>3, <1>5, <2>1, <2>2, <2>3, <2>4, <2>5 DEF Wins, d
<1> QED
  BY <1>4, <1>5

LEMMA ServiceCases ==
    ASSUME TypeInv, "write" \notin Windows, NEW i \in Server, NEW v \in Value, ServiceAppend(i, v)
    PROVE  Still \/ Writes(i)
<1>1. /\ node' = [node EXCEPT ![i] = appendEntry(node[i], node[i].term, v)] \/ node' = node
      /\ elected' = elected /\ node[i].status = "LEADER"
  BY DEF ServiceAppend, CanServe
<1>2. CASE node' = node
  BY <1>1, <1>2, NoneStill
<1>3. CASE node' = [node EXCEPT ![i] = appendEntry(node[i], node[i].term, v)]
  <2>1. node'[i] = appendEntry(node[i], node[i].term, v) /\ \A j \in Server \ {i} : node'[j] = node[j]
    BY <1>3 DEF TypeInv, TypeOK
  <2>2. node[i] \in Node
    BY DEF TypeInv, TypeOK
  <2> DEFINE a == appendEntry(node[i], node[i].term, v)
  <2>3. /\ a.log = Append(node[i].log, [term |-> node[i].term, request |-> v])
        /\ a.term = node[i].term /\ a.votedFor = node[i].votedFor /\ a.leader = node[i].leader
        /\ a.status = node[i].status /\ a.commitIndex = node[i].commitIndex
    BY <2>2 DEF appendEntry, Node
  <2> HIDE DEF a
  <2> QED BY <1>1, <2>1, <2>3 DEF Writes, a
<1> QED
  BY <1>1, <1>2, <1>3

LEMMA AckCalm ==
    ASSUME TypeInv, NEW a \in acks, HandleAck(a)
    PROVE  /\ elected' = elected /\ \A i \in Server : Calm(node[i], node'[i])
           /\ \A i \in Server : i # a.req.leader => node'[i] = node[i]
<1> DEFINE i == a.req.leader
           n == observed(node[i], a.term, Nobody)
           c == CommitAfter(i, a)
           new == IF a.term > repl[i] THEN n ELSE setCommitIndex(n, c)
<1>1. i \in Server /\ a.term \in Nat /\ NodeOK(node[i])
  BY DEF TypeInv, TypeOK, Ack, AppReq, Term, NodeOK
<1>2. NodeOK(n) /\ Calm(node[i], n)
  BY <1>1, ObservedCalm, ObservedType DEF Term
<1>3. node' = [node EXCEPT ![i] = new] /\ elected' = elected
  BY DEF HandleAck
<1> HIDE DEF n, c, i
<1>4. Calm(n, n) /\ Calm(n, setCommitIndex(n, c))
  BY <1>2 DEF Calm, NoNewLeader, setCommitIndex, NodeOK, Node
<1>5. Calm(node[i], new)
  BY <1>2, <1>4, CalmTrans
<1> HIDE DEF new
<1>6. \A j \in Server : node'[j] = IF j = i THEN new ELSE node[j]
  BY <1>1, <1>3 DEF TypeInv, TypeOK
<1> QED
  BY <1>3, <1>5, <1>6 DEF Calm, NoNewLeader, i

-----------------------------------------------------------------------------
(* Elections that were won stay won *)

LEMMA ElectedQuiet ==
    ASSUME TypeInv, TypeInv', VotesFaithful, ElectedInv, elected' = elected,
           \A i \in Server : NoNewLeader(node[i], node'[i]),
           \A i \in Server : \/ director'[i] = director[i]
                             \/ director'[i].phase = "idle"
                             \/ director'[i].phase = "prepared" /\ director'[i].term > 0
    PROVE  ElectedInv'
<1>1. \A i \in Server : /\ node[i].term \in Nat /\ node'[i].term \in Nat /\ i # Nobody
                        /\ Faithful(node[i], node'[i])
  BY NobodyAssumption DEF TypeInv, TypeOK, Node, Term, VotesFaithful
<1>2. \A e \in elected : e[1] \in Server /\ e[2] \in Nat
  BY DEF TypeInv, TypeOK, Term
<1>3. ASSUME NEW e \in elected
      PROVE  /\ e[2] > 0 /\ Bound(e[1], e[2], e[1])'
             /\ ~ (director'[e[1]].phase = "electing" /\ director'[e[1]].term = e[2])
  <2>1. e[2] > 0 /\ Bound(e[1], e[2], e[1])
        /\ ~ (director[e[1]].phase = "electing" /\ director[e[1]].term = e[2])
    BY DEF ElectedInv
  <2>2. Bound(e[1], e[2], e[1])'
    BY <1>1, <1>2, <2>1 DEF Bound, Faithful
  <2> QED BY <1>2, <2>1, <2>2
<1>4. \A i \in Server : director'[i].phase # "idle" => director'[i].term > 0
  BY DEF ElectedInv
<1>5. ASSUME NEW i \in Server, node'[i].status = "LEADER"
      PROVE  node'[i].leader = i /\ <<i, node'[i].term>> \in elected
  <2>1. node[i].status = "LEADER" /\ node'[i].term = node[i].term
        /\ (node[i].leader # Nobody => node'[i].leader = node[i].leader)
    BY <1>5 DEF NoNewLeader
  <2>2. node[i].leader = i /\ <<i, node[i].term>> \in elected
    BY <2>1 DEF ElectedInv
  <2> QED BY <1>1, <2>1, <2>2
<1> QED
  BY <1>3, <1>4, <1>5 DEF ElectedInv

LEMMA ElectedBegin ==
    ASSUME TypeInv, TypeInv', VoteInv, VotesFaithful, ElectedInv, NEW i \in Server, BeginElection(i)
    PROVE  ElectedInv'
<1> DEFINE d == IF "prevote" \in Windows THEN director[i] ELSE Prepared(i)
           n == observed(node[i], d.term, Nobody)
<1>1. d \in Director /\ d.term \in Nat /\ d.term > 0
  <2>1. "prevote" \in Windows => director[i].phase = "prepared"
    BY DEF BeginElection
  <2>2. Prepared(i).term > 0
    BY DEF Prepared, TypeInv, TypeOK, Node, Term
  <2> QED BY <2>1, <2>2, PreparedType DEF ElectedInv, TypeInv, TypeOK, Director, Term
<1>2. /\ director' = [director EXCEPT ![i] = [d EXCEPT !.phase = "electing"]]
      /\ n.term = d.term /\ n.votedFor = Nobody
  BY DEF BeginElection, CanBecomeCandidate
<1>3. Still
  BY QuietStill DEF QuietNext
<1>4. NodeOK(node[i]) /\ Durable(node[i]) /\ node[i].term \in Nat /\ i # Nobody
  BY NobodyAssumption DEF TypeInv, TypeOK, NodeOK, Node, Term, VoteInv, DurableVote, Durable
<1> HIDE DEF d
<1>5. <<i, d.term>> \notin elected
  <2> SUFFICES ASSUME <<i, d.term>> \in elected PROVE FALSE
    OBVIOUS
  <2>1. Bound(i, d.term, i)
    BY DEF ElectedInv
  <2>2. Faithful(node[i], n)
    BY <1>1, <1>4, ObservedVote
  <2> HIDE DEF n
  <2> QED BY <1>1, <1>2, <1>4, <2>1, <2>2 DEF Bound, Faithful
<1>6. /\ director'[i].phase = "electing" /\ director'[i].term = d.term
      /\ \A j \in Server \ {i} : director'[j] = director[j]
  BY <1>1, <1>2 DEF TypeInv, TypeOK, Director
<1>7. \A j \in Server : /\ node[j].term \in Nat /\ node'[j].term \in Nat /\ j # Nobody
                        /\ Faithful(node[j], node'[j]) /\ NoNewLeader(node[j], node'[j])
  BY <1>3, NobodyAssumption DEF TypeInv, TypeOK, Node, Term, VotesFaithful, Still, Calm
<1>8. \A e \in elected : e[1] \in Server /\ e[2] \in Nat /\ e = <<e[1], e[2]>>
  BY DEF TypeInv, TypeOK, Term
<1>9. ASSUME NEW e \in elected
      PROVE  /\ e[2] > 0 /\ Bound(e[1], e[2], e[1])'
             /\ ~ (director'[e[1]].phase = "electing" /\ director'[e[1]].term = e[2])
  <2>1. e[2] > 0 /\ Bound(e[1], e[2], e[1])
        /\ ~ (director[e[1]].phase = "electing" /\ director[e[1]].term = e[2])
    BY DEF ElectedInv
  <2>2. Bound(e[1], e[2], e[1])'
    BY <1>7, <1>8, <2>1 DEF Bound, Faithful
  <2>3. e[1] = i => e[2] # d.term
    BY <1>5, <1>8
  <2> QED BY <1>6, <1>8, <2>1, <2>2, <2>3
<1>10. \A j \in Server : director'[j].phase # "idle" => director'[j].term > 0
  BY <1>1, <1>6 DEF ElectedInv
<1>11. ASSUME NEW j \in Server, node'[j].status = "LEADER"
       PROVE  node'[j].leader = j /\ <<j, node'[j].term>> \in elected
  BY <1>7, <1>11 DEF NoNewLeader, ElectedInv
<1> QED
  BY <1>3, <1>9, <1>10, <1>11 DEF ElectedInv, Still

LEMMA ElectedWins ==
    ASSUME TypeInv, TypeInv', VotesFaithful, ElectedInv, NEW i \in Server, Wins(i),
           director' = [director EXCEPT ![i] = IdleDirector]
    PROVE  ElectedInv'
<1>1. \A j \in Server : /\ node[j].term \in Nat /\ node'[j].term \in Nat /\ j # Nobody
                        /\ Faithful(node[j], node'[j])
  BY NobodyAssumption DEF TypeInv, TypeOK, Node, Term, VotesFaithful
<1>2. \A e \in elected : e[1] \in Server /\ e[2] \in Nat
  BY DEF TypeInv, TypeOK, Term
<1>3. /\ director'[i].phase = "idle" /\ \A j \in Server \ {i} : director'[j] = director[j]
  BY DEF TypeInv, TypeOK, IdleDirector
<1>4. node[i].term > 0
  BY DEF Wins, ElectedInv
<1>5. ASSUME NEW e \in elected'
      PROVE  /\ e[2] > 0 /\ Bound(e[1], e[2], e[1])'
             /\ ~ (director'[e[1]].phase = "electing" /\ director'[e[1]].term = e[2])
  <2>1. CASE e \in elected
    <3>1. e[2] > 0 /\ Bound(e[1], e[2], e[1])
          /\ ~ (director[e[1]].phase = "electing" /\ director[e[1]].term = e[2])
      BY <2>1 DEF ElectedInv
    <3>2. Bound(e[1], e[2], e[1])'
      BY <1>1, <1>2, <2>1, <3>1 DEF Bound, Faithful
    <3> QED BY <1>2, <1>3, <2>1, <3>1, <3>2
  <2>2. CASE e = <<i, node[i].term>>
    BY <1>3, <1>4, <2>2 DEF Bound, Wins
  <2> QED BY <2>1, <2>2 DEF Wins
<1>6. \A j \in Server : director'[j].phase # "idle" => director'[j].term > 0
  BY <1>3 DEF ElectedInv
<1>7. ASSUME NEW j \in Server, node'[j].status = "LEADER"
      PROVE  node'[j].leader = j /\ <<j, node'[j].term>> \in elected'
  BY <1>7 DEF Wins, ElectedInv
<1> QED
  BY <1>5, <1>6, <1>7 DEF ElectedInv

\* An append request leaves the leadership of its target alone.
LEMMA HandlerVote ==
    ASSUME NEW n, NodeOK(n), NEW m \in AppReq
    PROVE  /\ SameVote(observed(n, m.term, m.leader), appendEntries(n, m).node)
           /\ appendEntries(n, m).node.leader = observed(n, m.term, m.leader).leader
           /\ NoNewLeader(n, appendEntries(n, m).node)
<1> DEFINE o == observed(n, m.term, m.leader)
           res == IF m.term = o.term /\ matchEntries(o, m.prevIndex, m.prevTerm)
                  THEN Appended(o, m) ELSE [node |-> o, outcome |-> FALSE]
<1>1. m.term \in Nat /\ m.leader \in Server \cup {Nobody}
  BY DEF AppReq, Term
<1>2. NodeOK(o) /\ Calm(n, o)
  BY <1>1, ObservedCalm, ObservedType DEF Term
<1>3. appendEntries(n, m).node = res.node
  BY DEF appendEntries
<1> HIDE DEF o
<1>4. SameVote(o, Appended(o, m).node) /\ Appended(o, m).node.leader = o.leader
  <2>1. SameVote(o, Appended(o, m).node)
    BY <1>2, AppendedVote
  <2> DEFINE first == compareEntries(o, m.prevIndex + 1, m.entries)
             rest  == SubSeq(m.entries, first - m.prevIndex, Len(m.entries))
             kept  == [o EXCEPT !.log = SubSeq(@, 1, first)]
             taken == Accepted(kept, rest)
             new   == IF rest = <<>> THEN o
                      ELSE [kept EXCEPT !.log = @ \o SubSeq(rest, 1, taken)]
             last  == LogSize(new) - 1
             commit == IF last < m.commitIndex THEN last ELSE m.commitIndex
  <2>2. Appended(o, m) = IF taken < Len(rest) THEN [node |-> new, outcome |-> FALSE]
                         ELSE [node |-> setCommitIndex(new, commit), outcome |-> TRUE]
    BY DEF Appended
  <2> HIDE DEF first, rest, taken
  <2>3. new.leader = o.leader /\ DOMAIN new = DOMAIN o
    BY <1>2 DEF NodeOK, Node
  <2>4. setCommitIndex(new, commit).leader = new.leader
    <3>1. DOMAIN new = {"term", "status", "leader", "votedFor", "leadershipMarker",
                        "currentTerm", "journalVote", "log", "commitIndex"}
      BY <1>2, <2>3 DEF NodeOK, Node
    <3> HIDE DEF new, commit
    <3> QED BY <3>1 DEF setCommitIndex
  <2> HIDE DEF new, commit
  <2> QED BY <2>1, <2>2, <2>3, <2>4
<1>5. SameVote(o, res.node) /\ res.node.leader = o.leader
  BY <1>4 DEF SameVote
<1> HIDE DEF res
<1> QED
  BY <1>2, <1>3, <1>5 DEF SameVote, Calm, NoNewLeader, o

LEMMA ElectedStep ==
    ASSUME TypeInv, VoteInv, ElectedInv, [Next]_vars, "write" \notin Windows
    PROVE  ElectedInv'
<1>0. TypeInv' /\ VotesFaithful
  BY TypeStep, VoteStep
<1>1. director \in [Server -> Director] /\ node \in [Server -> Node]
  BY DEF TypeInv, TypeOK
<1>2. ASSUME Still,
             \A i \in Server : \/ director'[i] = director[i]
                               \/ director'[i].phase = "idle"
                               \/ director'[i].phase = "prepared" /\ director'[i].term > 0
      PROVE  ElectedInv'
  BY <1>0, <1>2, ElectedQuiet DEF Still, Calm
<1>3. ASSUME NEW i \in Server, BeginElection(i) PROVE ElectedInv'
  BY <1>0, <1>3, ElectedBegin
<1>4. ASSUME NEW i \in Server, NEW R \in SUBSET {r \in voteReplies : r.to = i},
             NEW late \in SUBSET {q \in voteReqs : q.candidate = i}, ConcludeElection(i, R, late)
      PROVE  ElectedInv'
  <2>1. director' = [director EXCEPT ![i] = IdleDirector]
    BY <1>4 DEF ConcludeElection
  <2>2. \A j \in Server : director'[j] = director[j] \/ director'[j].phase = "idle"
    BY <1>1, <2>1 DEF IdleDirector
  <2>3. Still \/ Wins(i)
    BY <1>4, ConcludeCases
  <2> QED BY <1>0, <1>2, <2>1, <2>2, <2>3, ElectedWins
<1>5. ASSUME NEW i \in Server, NEW v \in Value, ServiceAppend(i, v) PROVE ElectedInv'
  <2>1. director' = director
    BY <1>5 DEF ServiceAppend
  <2>2. CASE Still
    BY <1>2, <2>1, <2>2
  <2>3. CASE Writes(i)
    BY <1>0, <2>1, <2>3, ElectedQuiet DEF Writes, NoNewLeader
  <2> QED BY <1>5, <2>2, <2>3, ServiceCases
<1>6. ASSUME NEW m \in appReqs, AppendEntries(m) PROVE ElectedInv'
  <2>1. m \in AppReq /\ m.target \in Server /\ NodeOK(node[m.target])
    BY DEF TypeInv, TypeOK, AppReq, NodeOK
  <2>2. /\ node' = [node EXCEPT ![m.target] = appendEntries(node[m.target], m).node]
        /\ director' = director /\ elected' = elected
    BY <1>6 DEF AppendEntries
  <2>3. NoNewLeader(node[m.target], appendEntries(node[m.target], m).node)
    BY <2>1, HandlerVote
  <2>4. \A i \in Server : NoNewLeader(node[i], node'[i])
    BY <1>1, <2>1, <2>2, <2>3 DEF NoNewLeader
  <2> QED BY <1>0, <2>2, <2>4, ElectedQuiet
<1>7. ASSUME NEW a \in acks, HandleAck(a) PROVE ElectedInv'
  <2>1. director' = director
    BY <1>7 DEF HandleAck
  <2> QED BY <1>0, <1>7, <2>1, AckCalm, ElectedQuiet DEF Calm
<1>8. ASSUME NEW i \in Server, RunForLeader(i) \/ AbandonElection(i) \/ Restart(i) PROVE ElectedInv'
  <2>1. Still
    BY <1>8, QuietStill DEF QuietNext
  <2>2. director' = [director EXCEPT ![i] = Prepared(i)] \/ director' = [director EXCEPT ![i] = IdleDirector]
    BY <1>8 DEF RunForLeader, AbandonElection, Restart
  <2>3. Prepared(i).phase = "prepared" /\ Prepared(i).term > 0 /\ IdleDirector.phase = "idle"
    BY DEF Prepared, IdleDirector, TypeInv, TypeOK, Node, Term
  <2>4. \A j \in Server : \/ director'[j] = director[j]
                          \/ director'[j].phase = "idle"
                          \/ director'[j].phase = "prepared" /\ director'[j].term > 0
    BY <1>1, <2>2, <2>3
  <2> QED BY <1>2, <2>1, <2>4
<1>9. ASSUME NEW i \in Server,
             \/ ObserveTerm(i) \/ ActivateReplicator(i) \/ DeactivateReplicator(i)
             \/ ServiceBegin(i) \/ \E h \in heartbeats : Heartbeat(i, h)
             \/ \E j \in Server :
                  \/ \E limit \in PayloadLimits : SendPayload(i, j, limit) \/ HaltReplication(i, j, limit)
                  \/ \E lost \in BOOLEAN : AckTimeout(i, j, lost)
      PROVE  ElectedInv'
  <2>1. director' = director
    BY <1>9 DEF ObserveTerm, ActivateReplicator, DeactivateReplicator, ServiceBegin,
                Heartbeat, SendPayload, HaltReplication, AckTimeout
  <2>2. Still
    BY <1>9, QuietStill DEF QuietNext
  <2> QED BY <1>2, <2>1, <2>2
<1>10. ASSUME \/ \E q \in voteReqs : RequestVote(q)
              \/ \E m \in appReqs : LoseRequest(m)
       PROVE  ElectedInv'
  <2>1. director' = director
    BY <1>10 DEF RequestVote, LoseRequest
  <2>2. Still
    BY <1>10, QuietStill DEF QuietNext
  <2> QED BY <1>2, <2>1, <2>2
<1>11. CASE UNCHANGED vars
  <2>1. director' = director /\ node' = node /\ elected' = elected
    BY <1>11 DEF vars
  <2> QED BY <1>2, <2>1, NoneStill
<1> QED
  BY <1>3, <1>4, <1>5, <1>6, <1>7, <1>8, <1>9, <1>10, <1>11 DEF Next

-----------------------------------------------------------------------------
(* Whatever is in a log was in the log of a leader *)

LEMMA CutGrows ==
    ASSUME NEW L, NEW M, LedgerType(L), LedgerType(M), Grow(L, M), NEW t \in Nat,
           NEW m \in AppReq, CutFrom(m, L[t])
    PROVE  CutFrom(m, M[t])
<1>1. Len(L[t]) \in Nat /\ Len(M[t]) \in Nat /\ m.prevIndex \in Nat /\ Len(m.entries) \in Nat
  BY LedgerLen DEF AppReq
<1>2. Len(L[t]) <= Len(M[t]) /\ \A k \in 1..Len(L[t]) : L[t][k] = M[t][k]
  BY DEF Grow, Agree
<1>3. m.prevIndex + 1 + Len(m.entries) <= Len(L[t])
  BY DEF CutFrom
<1>4. m.prevIndex + 1 \in 1..Len(L[t]) /\ \A k \in 1..Len(m.entries) : m.prevIndex + 1 + k \in 1..Len(L[t])
  BY <1>1, <1>3, SMTT(30)
<1>5. L[t][m.prevIndex + 1].term = m.prevTerm
      /\ \A k \in 1..Len(m.entries) : m.entries[k] = L[t][m.prevIndex + 1 + k]
  BY DEF CutFrom
<1>6. m.prevIndex + 1 + Len(m.entries) <= Len(M[t])
  BY <1>1, <1>2, <1>3
<1> QED
  BY <1>2, <1>4, <1>5, <1>6 DEF CutFrom

\* The logs of the leaders themselves, in a step that elects nobody.
LEMMA LogQuiet ==
    ASSUME TypeInv, TypeInv', VotesFaithful, NEW L, LogInv(L), elected' = elected,
           \A i \in Server : Calm(node[i], node'[i]),
           \A m \in appReqs' : m \in appReqs \/ \E t \in Nat : t <= m.term /\ CutFrom(m, L[t])
    PROVE  LogInv(L)'
<1>1. LeaderLogs(L)'
  BY DEF LogInv, LeaderLogs
<1>2. ASSUME NEW i \in Server PROVE LogOfTerm(L, node'[i].log, node'[i].term)
  <2>1. node[i].log \in Seq(Entry) /\ node[i].term \in Nat /\ node'[i].term \in Nat
    BY DEF TypeInv, TypeOK, Node, Term
  <2>2. LogOfTerm(L, node[i].log, node[i].term) /\ node[i].term <= node'[i].term
        /\ node'[i].log = node[i].log
    BY DEF LogInv, VotesFaithful, Faithful, Calm
  <2>3. Len(node[i].log) <= Len(node[i].log) /\ Agree(node[i].log, node[i].log, Len(node[i].log))
    BY <2>1 DEF Agree
  <2> QED BY <2>1, <2>2, <2>3, LogPrefix
<1>3. \A i \in Server : node'[i].status = "LEADER" => node'[i].log = L[node'[i].term]
  BY DEF LogInv, Calm, NoNewLeader
<1>4. \A m \in appReqs' : \E t \in Nat : t <= m.term /\ CutFrom(m, L[t])
  BY DEF LogInv
<1> QED
  BY <1>1, <1>2, <1>3, <1>4 DEF LogInv

\* Leader i appends an entry e of its term T to its log, with which it was or
\* has just been elected; M is the record that follows.
Leads(L, i, T, e) ==
    /\ e.term = T /\ node[i].term = T /\ node'[i].term = T
    /\ node'[i].log = Append(node[i].log, e) /\ \A j \in Server \ {i} : node'[j] = node[j]
    /\ L[T] = <<>> \/ L[T] = node[i].log
    /\ \A j \in Server \ {i} : node[j].status = "LEADER" => node[j].term # T
    /\ elected \subseteq elected' /\ \A f \in elected' \ elected : f[2] = T
    /\ <<i, T>> \in elected'
    /\ appReqs' \subseteq appReqs

LEMMA LogLeads ==
    ASSUME TypeInv, TypeInv', NEW L, LogInv(L), NEW i \in Server, NEW T \in Nat, NEW e \in Entry,
           Leads(L, i, T, e), NEW M, Records(L, M, T, node'[i].log)
    PROVE  /\ LogInv(M)' /\ Grow(L, M) /\ LedgerType(M)
           /\ M[T] = node'[i].log /\ \A t \in Nat \ {T} : M[t] = L[t]
           /\ Len(node'[i].log) = Len(node[i].log) + 1 /\ node'[i].log[Len(node[i].log) + 1] = e
           /\ Agree(node[i].log, node'[i].log, Len(node[i].log))
<1>0. LedgerType(L)
  BY DEF LogInv, LeaderLogs, LedgerType
<1>1. /\ node[i].log \in Seq(Entry) /\ Len(node[i].log) > 0 /\ Len(node[i].log) \in Nat
  BY DEF TypeInv, TypeOK, Node
<1>a. /\ e.term = T /\ node[i].term = T /\ node'[i].term = T
      /\ node'[i].log = Append(node[i].log, e) /\ \A j \in Server \ {i} : node'[j] = node[j]
      /\ L[T] = <<>> \/ L[T] = node[i].log
      /\ \A j \in Server \ {i} : node[j].status = "LEADER" => node[j].term # T
      /\ appReqs' \subseteq appReqs
  BY DEF Leads
<1>b. /\ elected \subseteq elected' /\ (\A f \in elected' \ elected : f[2] = T)
      /\ <<i, T>> \in elected'
  BY DEF Leads
<1>2. LogOfTerm(L, node[i].log, T)
  BY <1>a DEF LogInv
<1>3. /\ LedgerType(M) /\ Grow(L, M) /\ LogOfTerm(M, M[T], T)
      /\ M[T] = node'[i].log /\ Len(M[T]) = Len(node[i].log) + 1 /\ M[T][Len(node[i].log) + 1] = e
      /\ Agree(node[i].log, M[T], Len(node[i].log))
  <2>1. PICK s \in Seq(Entry) : s = node[i].log
    BY <1>1
  <2>2. Records(L, M, T, Append(s, e)) /\ (L[T] = <<>> \/ L[T] = s) /\ node'[i].log = Append(s, e)
    BY <1>a, <2>1
  <2>3. Len(s) > 0 /\ LogOfTerm(L, s, T)
    BY <1>1, <1>2, <2>1
  <2>4. /\ LedgerType(M) /\ Grow(L, M) /\ LogOfTerm(M, M[T], T)
        /\ M[T] = Append(s, e) /\ Len(M[T]) = Len(s) + 1 /\ M[T][Len(s) + 1] = e
        /\ Agree(s, M[T], Len(s))
    BY <1>0, <1>a, <2>2, <2>3, LogAppend
  <2> QED BY <2>1, <2>2, <2>4
<1>4. \A t \in Nat \ {T} : M[t] = L[t]
  BY <1>0 DEF LedgerType, Records
<1>5. ASSUME NEW t \in Nat PROVE LogOfTerm(M, M[t], t)
  <2>1. CASE t = T
    BY <1>3, <2>1
  <2>2. CASE t # T
    <3>1. LogOfTerm(L, L[t], t) /\ L[t] \in Seq(Entry)
      BY <1>0, LedgerLen DEF LogInv, LeaderLogs
    <3>2. LogOfTerm(M, L[t], t)
      BY <1>0, <1>3, <3>1, LogGrows
    <3> QED BY <1>4, <2>2, <3>2
  <2> QED BY <2>1, <2>2
<1>6. \A t \in Nat : Len(M[t]) > 0 => M[t][Len(M[t])].term = t
  BY <1>3, <1>4, <1>a DEF LogInv, LeaderLogs
<1>7. ASSUME NEW t \in Nat PROVE Len(M[t]) > 0 <=> t = 0 \/ \E j \in Server : <<j, t>> \in elected'
  <2>1. CASE t = T
    <3>1. Len(M[T]) > 0
      BY <1>1, <1>3
    <3> QED BY <1>b, <2>1, <3>1
  <2>2. CASE t # T
    <3>1. Len(L[t]) > 0 <=> t = 0 \/ \E j \in Server : <<j, t>> \in elected
      BY DEF LogInv, LeaderLogs
    <3>2. \A j \in Server : <<j, t>> \in elected' <=> <<j, t>> \in elected
      BY <1>b, <2>2
    <3> QED BY <1>4, <2>2, <3>1, <3>2
  <2> QED BY <2>1, <2>2
<1>8. LeaderLogs(M)'
  BY <1>3, <1>5, <1>6, <1>7 DEF LeaderLogs, LedgerType
<1>9. ASSUME NEW j \in Server
      PROVE  /\ LogOfTerm(M, node'[j].log, node'[j].term)
             /\ node'[j].status = "LEADER" => node'[j].log = M[node'[j].term]
  <2>1. CASE j = i
    BY <1>3, <1>a, <2>1
  <2>2. CASE j # i
    <3>1. node'[j] = node[j] /\ node[j].log \in Seq(Entry) /\ node[j].term \in Nat
      BY <1>a, <2>2 DEF TypeInv, TypeOK, Node, Term
    <3>2. LogOfTerm(L, node[j].log, node[j].term)
          /\ (node[j].status = "LEADER" => node[j].log = L[node[j].term] /\ node[j].term # T)
      BY <1>a, <2>2 DEF LogInv
    <3>3. LogOfTerm(M, node[j].log, node[j].term)
      BY <1>0, <1>3, <3>1, <3>2, LogGrows
    <3> QED BY <1>4, <3>1, <3>2, <3>3
  <2> QED BY <2>1, <2>2
<1>10. ASSUME NEW m \in appReqs' PROVE \E t \in Nat : t <= m.term /\ CutFrom(m, M[t])
  <2>1. m \in AppReq /\ m \in appReqs
    BY <1>a DEF TypeInv, TypeOK
  <2>2. PICK t \in Nat : t <= m.term /\ CutFrom(m, L[t])
    BY <2>1 DEF LogInv
  <2>3. CutFrom(m, M[t])
    BY <1>0, <1>3, <2>1, <2>2, CutGrows
  <2> QED BY <2>2, <2>3
<1>11. LogInv(M)'
  BY <1>8, <1>9, <1>10 DEF LogInv
<1> QED
  BY <1>3, <1>4, <1>11

\* A term that is being won has had no leader.
LEMMA FreshTerm ==
    ASSUME TypeInv, ElectedInv, ElectionSafety', NEW L, LogInv(L), NEW i \in Server, Wins(i)
    PROVE  /\ L[node[i].term] = <<>> /\ node[i].term \in Nat /\ node[i].term > 0
           /\ \A j \in Server : node[j].status = "LEADER" => node[j].term # node[i].term
           /\ \A e \in elected : e[2] # node[i].term
<1>1. node[i].term \in Nat /\ node[i].term > 0
  BY DEF Wins, ElectedInv, TypeInv, TypeOK, Node, Term
<1>2. ASSUME NEW e \in elected, e[2] = node[i].term PROVE FALSE
  <2>1. e \in elected' /\ <<i, node[i].term>> \in elected'
    BY DEF Wins
  <2>2. e[1] = i
    BY <1>2, <2>1 DEF ElectionSafety
  <2> QED BY <1>2, <2>2 DEF Wins, ElectedInv
<1>3. ~ (Len(L[node[i].term]) > 0)
  <2>1. ~ \E j \in Server : <<j, node[i].term>> \in elected
    BY <1>2
  <2>2. Len(L[node[i].term]) > 0 <=> node[i].term = 0 \/ \E j \in Server : <<j, node[i].term>> \in elected
    BY <1>1 DEF LogInv, LeaderLogs
  <2>3. node[i].term # 0
    BY <1>1
  <2> QED BY <2>1, <2>2, <2>3, Zenon
<1>4. L[node[i].term] = <<>>
  <2>1. PICK s \in Seq(Entry) : s = L[node[i].term]
    BY <1>1 DEF LogInv, LeaderLogs
  <2>2. ~ (Len(s) > 0)
    BY <1>3, <2>1
  <2>3. s = <<>>
    BY <2>2
  <2> QED BY <2>1, <2>3
<1>5. \A j \in Server : node[j].status = "LEADER" => node[j].term # node[i].term
  BY <1>2 DEF ElectedInv
<1> QED
  BY <1>1, <1>2, <1>4, <1>5

LEMMA LogWins ==
    ASSUME TypeInv, TypeInv', ElectedInv, ElectionSafety', NEW L, LogInv(L),
           NEW i \in Server, Wins(i), appReqs' = appReqs,
           NEW M, Records(L, M, node[i].term, node'[i].log)
    PROVE  /\ LogInv(M)' /\ Grow(L, M) /\ LedgerType(M)
           /\ M[node[i].term] = node'[i].log /\ \A t \in Nat \ {node[i].term} : M[t] = L[t]
           /\ Len(node'[i].log) = Len(node[i].log) + 1
           /\ node'[i].log[Len(node[i].log) + 1].term = node[i].term
           /\ Agree(node[i].log, node'[i].log, Len(node[i].log))
<1> DEFINE e == [term |-> node[i].term, request |-> i]
<1>1. /\ L[node[i].term] = <<>> /\ node[i].term \in Nat
      /\ \A j \in Server : node[j].status = "LEADER" => node[j].term # node[i].term
  BY FreshTerm
<1>2. e \in Entry /\ e.term = node[i].term
  BY <1>1 DEF Entry, Term
<1>3. /\ node'[i].log = Append(node[i].log, e) /\ node'[i].term = node[i].term
      /\ \A j \in Server \ {i} : node'[j] = node[j]
      /\ elected \subseteq elected' /\ <<i, node[i].term>> \in elected'
      /\ \A f \in elected' \ elected : f[2] = node[i].term
  BY DEF Wins
<1> HIDE DEF e
<1>4. PICK T \in Nat : T = node[i].term
  BY <1>1
<1>5. e.term = T /\ node[i].term = T /\ node'[i].term = T /\ (L[T] = <<>> \/ L[T] = node[i].log)
  BY <1>1, <1>2, <1>3, <1>4
<1>6. \A j \in Server \ {i} : node[j].status = "LEADER" => node[j].term # T
  BY <1>1, <1>4
<1>7. (\A f \in elected' \ elected : f[2] = T) /\ <<i, T>> \in elected' /\ appReqs' \subseteq appReqs
      /\ Records(L, M, T, node'[i].log)
  BY <1>3, <1>4
<1>8. /\ LogInv(M)' /\ Grow(L, M) /\ LedgerType(M)
      /\ M[T] = node'[i].log /\ \A t \in Nat \ {T} : M[t] = L[t]
      /\ Len(node'[i].log) = Len(node[i].log) + 1 /\ node'[i].log[Len(node[i].log) + 1] = e
      /\ Agree(node[i].log, node'[i].log, Len(node[i].log))
  <2>1. Leads(L, i, T, e)
    BY <1>3, <1>5, <1>6, <1>7 DEF Leads
  <2> QED BY <1>2, <1>7, <2>1, LogLeads
<1> QED
  BY <1>4, <1>5, <1>8

LEMMA LogWrites ==
    ASSUME TypeInv, TypeInv', ElectedInv, ElectionSafety, NEW L, LogInv(L),
           NEW i \in Server, Writes(i), appReqs' = appReqs,
           NEW M, Records(L, M, node[i].term, node'[i].log)
    PROVE  /\ LogInv(M)' /\ Grow(L, M) /\ LedgerType(M)
           /\ M[node[i].term] = node'[i].log /\ \A t \in Nat \ {node[i].term} : M[t] = L[t]
           /\ Len(node'[i].log) = Len(node[i].log) + 1
           /\ node'[i].log[Len(node[i].log) + 1].term = node[i].term
           /\ Agree(node[i].log, node'[i].log, Len(node[i].log))
<1>1. PICK v \in Value : node'[i].log = Append(node[i].log, [term |-> node[i].term, request |-> v])
  BY DEF Writes
<1> DEFINE e == [term |-> node[i].term, request |-> v]
<1>2. node[i].term \in Nat /\ node[i].status = "LEADER" /\ <<i, node[i].term>> \in elected
  BY DEF TypeInv, TypeOK, Node, Term, Writes, ElectedInv
<1>3. e \in Entry /\ e.term = node[i].term
  BY <1>2 DEF Entry, Term
<1>4. /\ node'[i].log = Append(node[i].log, e) /\ node'[i].term = node[i].term
      /\ \A j \in Server \ {i} : node'[j] = node[j]
  BY <1>1 DEF Writes
<1>5. L[node[i].term] = node[i].log
  BY <1>2 DEF LogInv
<1>6. ASSUME NEW j \in Server \ {i}, node[j].status = "LEADER", node[j].term = node[i].term PROVE FALSE
  <2>1. <<j, node[i].term>> \in elected
    BY <1>6 DEF ElectedInv
  <2> QED BY <1>2, <2>1 DEF ElectionSafety
<1>7. elected \subseteq elected' /\ (\A f \in elected' \ elected : f[2] = node[i].term)
      /\ <<i, node[i].term>> \in elected'
  BY <1>2 DEF Writes
<1> HIDE DEF e
<1>8. PICK T \in Nat : T = node[i].term
  BY <1>2
<1>9. e.term = T /\ node[i].term = T /\ node'[i].term = T /\ (L[T] = <<>> \/ L[T] = node[i].log)
  BY <1>3, <1>4, <1>5, <1>8
<1>10. \A j \in Server \ {i} : node[j].status = "LEADER" => node[j].term # T
  BY <1>6, <1>8
<1>11. (\A f \in elected' \ elected : f[2] = T) /\ <<i, T>> \in elected' /\ appReqs' \subseteq appReqs
      /\ Records(L, M, T, node'[i].log)
  BY <1>7, <1>8
<1>12. /\ LogInv(M)' /\ Grow(L, M) /\ LedgerType(M)
       /\ M[T] = node'[i].log /\ \A t \in Nat \ {T} : M[t] = L[t]
       /\ Len(node'[i].log) = Len(node[i].log) + 1 /\ node'[i].log[Len(node[i].log) + 1] = e
       /\ Agree(node[i].log, node'[i].log, Len(node[i].log))
  <2>1. Leads(L, i, T, e)
    BY <1>4, <1>7, <1>9, <1>10, <1>11 DEF Leads
  <2> QED BY <1>3, <1>11, <2>1, LogLeads
<1> QED
  BY <1>8, <1>9, <1>12

\* A server that has taken a request of term m.term is not leader of that term.
LEMMA NotOverLeader ==
    ASSUME TypeInv, ElectedInv, NEW m \in appReqs, AppendEntries(m),
           observed(node[m.target], m.term, m.leader).term = m.term
    PROVE  node'[m.target].status # "LEADER"
<1> DEFINE j == m.target
           o == observed(node[j], m.term, m.leader)
<1>1. m \in AppReq /\ j \in Server /\ m.leader \in Server /\ m.leader # j /\ NodeOK(node[j])
  BY DEF TypeInv, TypeOK, AppReq, NodeOK
<1>2. node'[j] = appendEntries(node[j], m).node /\ ~ HeartbeatCrashes(node[j], m.term, m.leader)
  BY <1>1 DEF AppendEntries, RequestCrashes, TypeInv, TypeOK
<1>3. o.leader = m.leader
  BY <1>2 DEF HeartbeatCrashes
<1>4. node'[j].leader = m.leader /\ NoNewLeader(node[j], node'[j])
  BY <1>1, <1>2, <1>3, HandlerVote
<1> QED
  BY <1>1, <1>4, NobodyAssumption DEF NoNewLeader, ElectedInv

LEMMA LogHandler ==
    ASSUME TypeInv, TypeInv', VoteInv, VotesFaithful, ElectedInv, NEW L, LogInv(L),
           NEW m \in appReqs, AppendEntries(m)
    PROVE  LogInv(L)'
<1> DEFINE j == m.target
           n == node[j]
           r == appendEntries(n, m)
           o == observed(n, m.term, m.leader)
<1>0. LedgerType(L) /\ \A t \in Nat : LogOfTerm(L, L[t], t)
  BY DEF LogInv, LeaderLogs, LedgerType
<1>1. /\ m \in AppReq /\ j \in Server /\ NodeOK(n) /\ Durable(n) /\ n.log \in Seq(Entry)
      /\ n.term \in Nat /\ m.term \in Nat
  BY DEF TypeInv, TypeOK, AppReq, NodeOK, VoteInv, DurableVote, Durable, Node, Term
<1>2. /\ node' = [node EXCEPT ![j] = r.node] /\ appReqs' \subseteq appReqs /\ elected' = elected
  BY DEF AppendEntries
<1>3. node'[j] = r.node /\ \A i \in Server \ {j} : node'[i] = node[i]
  BY <1>1, <1>2 DEF TypeInv, TypeOK
<1>4. PICK t \in Nat : t <= m.term /\ CutFrom(m, L[t])
  BY DEF LogInv
<1>5. LogOfTerm(L, n.log, n.term)
  BY <1>1 DEF LogInv
<1>6. /\ SameVote(o, r.node) /\ NoNewLeader(n, r.node)
      /\ \/ o.term = m.term /\ Taken(n, r.node, m, L[t])
         \/ r.node = o
  <2>1. LogOfTerm(L, L[t], t)
    BY <1>0
  <2>2. SameVote(o, r.node) /\ NoNewLeader(n, r.node)
    BY <1>1, HandlerVote
  <2>3. (o.term = m.term /\ Taken(n, r.node, m, L[t])) \/ r.node = o
    BY <1>0, <1>1, <1>4, <1>5, <2>1, HandlerLog, ZenonT(30)
  <2> QED BY <2>2, <2>3
<1>7. r.node.log = n.log \/ (o.term = m.term /\ Taken(n, r.node, m, L[t]))
  BY <1>1, <1>6, ObservedType DEF AppReq
<1>8. CASE r.node.log = n.log
  <2>1. \A i \in Server : Calm(node[i], node'[i])
    BY <1>3, <1>6, <1>8 DEF Calm, NoNewLeader
  <2> QED BY <1>2, <2>1, LogQuiet
<1>9. CASE r.node.log # n.log /\ o.term = m.term /\ Taken(n, r.node, m, L[t])
  <2>1. r.node.status # "LEADER"
    BY <1>3, <1>9, NotOverLeader
  <2>2. r.node.term = m.term
    BY <1>6, <1>9 DEF SameVote
  <2> DEFINE end == m.prevIndex + 1 + Len(m.entries)
  <2>3. r.node.log \in Seq(Entry) /\ Len(r.node.log) = end /\ Agree(r.node.log, L[t], end)
    BY <1>9 DEF Taken
  <2>4. L[t] \in Seq(Entry) /\ end <= Len(L[t])
    BY <1>0, <1>4, LedgerLen DEF CutFrom
  <2> HIDE DEF end, r, n, o
  <2>5. LogOfTerm(L, r.node.log, r.node.term)
    BY <1>0, <1>1, <1>4, <2>2, <2>3, <2>4, LogPrefix
  <2>6. LeaderLogs(L)'
    BY <1>2 DEF LogInv, LeaderLogs
  <2>7. \A i \in Server : /\ LogOfTerm(L, node'[i].log, node'[i].term)
                          /\ node'[i].status = "LEADER" => node'[i].log = L[node'[i].term]
    BY <1>3, <2>1, <2>5 DEF LogInv
  <2>8. \A q \in appReqs' : \E u \in Nat : u <= q.term /\ CutFrom(q, L[u])
    BY <1>2 DEF LogInv
  <2> QED BY <2>6, <2>7, <2>8 DEF LogInv
<1> QED
  BY <1>7, <1>8, <1>9

-----------------------------------------------------------------------------
(* Requests are cut from the logs of leaders *)

\* The request that SendPayload(i, j, limit) puts on its way.
Sent(i, j, limit) ==
    LET n    == node[i]
        next == tracker[i][j].next
    IN  [term |-> repl[i], leader |-> i, target |-> j, prevIndex |-> next - 1,
         prevTerm |-> TermAt(n.log, next - 1), commitIndex |-> n.commitIndex,
         entries |-> SubSeq(n.log, next + 1, next + PayloadSize(n, next, limit))]

\* What a request has of the log it is cut from.
LEMMA SentEntries ==
    ASSUME TypeInv, NEW i \in Server, NEW j \in Server, NEW limit \in PayloadLimits,
           SendPayload(i, j, limit)
    PROVE  LET m == Sent(i, j, limit)
               next == tracker[i][j].next
               size == PayloadSize(node[i], next, limit) IN
           /\ m.term = repl[i] /\ m.leader = i /\ m.target = j /\ m.prevIndex + 1 = next
           /\ m.commitIndex = node[i].commitIndex
           /\ m.prevTerm = node[i].log[next].term
           /\ m.entries \in Seq(Entry) /\ Len(m.entries) = size
           /\ \A k \in 1..size : m.entries[k] = node[i].log[next + k]
           /\ next \in Nat \ {0} /\ size \in Nat /\ next + size <= Len(node[i].log)
           /\ \A x \in next..(next + size) : node[i].log[x].term <= repl[i]
           /\ size = 0 => next = Len(node[i].log)
           /\ appReqs' = appReqs \cup {m} /\ i # j
<1> DEFINE m == Sent(i, j, limit)
           log == node[i].log
           next == tracker[i][j].next
           size == PayloadSize(node[i], next, limit)
<1>1. /\ log \in Seq(Entry) /\ Len(log) \in Nat /\ next \in Nat \cup {-1} /\ limit \in Nat \ {0}
  BY BoundAssumption, SMTT(30) DEF TypeInv, TypeOK, Node, Tracker
<1>2. /\ next > 0 /\ i # j /\ Readable(node[i], repl[i], next, limit) /\ appReqs' = appReqs \cup {m}
  BY DEF SendPayload, CanSend, Sent
<1>3. next \in Nat \ {0} /\ next <= Len(log)
  BY <1>1, <1>2 DEF Readable, LogSize
<1>4. size = IF limit < Len(log) - next THEN limit ELSE Len(log) - next
  BY DEF PayloadSize, LogSize
<1>5. \A k \in (next - 1)..(next - 1 + size) : log[k + 1].term <= repl[i]
  BY <1>2 DEF Readable, TermAt
<1>6. /\ m.term = repl[i] /\ m.leader = i /\ m.target = j /\ m.prevIndex = next - 1
      /\ m.commitIndex = node[i].commitIndex /\ m.prevTerm = log[next - 1 + 1].term
      /\ m.entries = SubSeq(log, next + 1, next + size)
  BY DEF Sent, TermAt
<1> HIDE DEF m, log, next, size
<1>7. size \in Nat /\ next + size <= Len(log) /\ (size = 0 => next = Len(log))
  BY <1>1, <1>3, <1>4
<1>8. next - 1 + 1 = next /\ next + 1 \in 1..(Len(log) + 1)
  BY <1>1, <1>3
<1>9. /\ SubSeq(log, next + 1, next + size) \in Seq(Entry)
      /\ Len(SubSeq(log, next + 1, next + size)) = size
      /\ \A k \in 1..size : SubSeq(log, next + 1, next + size)[k] = log[next + k]
  <2>1. \A x \in (next + 1)..(next + size) : log[x] \in Entry
    BY <1>1, <1>3, <1>7
  <2>2. /\ SubSeq(log, next + 1, next + size) \in Seq(Entry)
        /\ Len(SubSeq(log, next + 1, next + size)) =
              IF next + 1 <= next + size THEN next + size - (next + 1) + 1 ELSE 0
        /\ \A k \in 1..(next + size - (next + 1) + 1) :
              SubSeq(log, next + 1, next + size)[k] = log[next + 1 + k - 1]
    BY <1>1, <1>3, <1>7, <2>1, SubSeqProperties
  <2>3. next + size - (next + 1) + 1 = size /\ (next + 1 <= next + size <=> size > 0)
    BY <1>3, <1>7
  <2>4. \A k \in 1..size : next + 1 + k - 1 = next + k
    BY <1>3, <1>7
  <2>5. PICK sub : sub = SubSeq(log, next + 1, next + size)
    OBVIOUS
  <2>6. sub \in Seq(Entry) /\ Len(sub) = size
    BY <1>7, <2>2, <2>3, <2>5
  <2>7. \A k \in 1..size : sub[k] = log[next + k]
    BY <2>2, <2>3, <2>4, <2>5
  <2> QED BY <2>5, <2>6, <2>7
<1>10. \A x \in next..(next + size) : log[x].term <= repl[i]
  <2> SUFFICES ASSUME NEW x \in next..(next + size) PROVE log[x].term <= repl[i]
    OBVIOUS
  <2>1. x - 1 \in (next - 1)..(next - 1 + size) /\ (x - 1) + 1 = x
    BY <1>3, <1>7
  <2> QED BY <1>5, <2>1
<1> QED
  BY <1>2, <1>3, <1>6, <1>7, <1>8, <1>9, <1>10 DEF m, log, next, size

LEMMA SentCut ==
    ASSUME TypeInv, NEW L, LogInv(L), NEW i \in Server, NEW j \in Server, NEW limit \in PayloadLimits,
           SendPayload(i, j, limit), NEW m, m = Sent(i, j, limit)
    PROVE  \E t \in Nat : t <= m.term /\ CutFrom(m, L[t])
<1> DEFINE log == node[i].log
           next == tracker[i][j].next
           size == PayloadSize(node[i], next, limit)
           end == next + size
<1>1. /\ m.term = repl[i] /\ m.prevIndex + 1 = next /\ m.prevTerm = log[next].term
      /\ Len(m.entries) = size /\ (\A k \in 1..size : m.entries[k] = log[next + k])
      /\ next \in Nat \ {0} /\ size \in Nat /\ next + size <= Len(log)
      /\ \A x \in next..(next + size) : log[x].term <= repl[i]
  BY SentEntries
<1>2. log \in Seq(Entry) /\ Len(log) \in Nat /\ Backed(L, log)
  BY DEF TypeInv, TypeOK, Node, LogInv, LogOfTerm, GoodLog
<1> HIDE DEF log, next, size
<1>3. end \in 1..Len(log) /\ end \in next..(next + size)
  BY <1>1, <1>2
<1>4. PICK t \in Nat : t = log[end].term
  BY <1>2, <1>3, EntryType
<1>5. t <= m.term /\ end <= Len(L[t]) /\ Agree(log, L[t], end)
  BY <1>1, <1>2, <1>3, <1>4 DEF Backed
<1>6. next \in 1..end /\ \A k \in 1..size : next + k \in 1..end
  BY <1>1
<1>7. L[t][next] = log[next] /\ \A k \in 1..size : L[t][next + k] = log[next + k]
  BY <1>5, <1>6 DEF Agree
<1>8. CutFrom(m, L[t])
  <2>1. m.prevIndex + 1 = next /\ m.prevTerm = log[next].term /\ Len(m.entries) = size
    BY <1>1
  <2>2. next + size <= Len(L[t])
    BY <1>5
  <2>3. L[t][next].term = m.prevTerm
    BY <1>7, <2>1
  <2>4. \A k \in 1..size : m.entries[k] = L[t][next + k]
    BY <1>1, <1>7
  <2> HIDE DEF end
  <2> QED BY <2>1, <2>2, <2>3, <2>4, Zenon DEF CutFrom
<1> QED
  BY <1>5, <1>8

-----------------------------------------------------------------------------
(* The step, and the theorem *)

\* A step that leaves the logs alone, whatever it does to the requests under way.
LEMMA LogStill ==
    ASSUME TypeInv, TypeInv', VotesFaithful, NEW L, LogInv(L), Still,
           \A m \in appReqs' : m \in appReqs \/ \E t \in Nat : t <= m.term /\ CutFrom(m, L[t])
    PROVE  LogInv(L)'
BY LogQuiet DEF Still

LEMMA SafeNow == TypeInv /\ ElectionInv => ElectionSafety
BY ElectionSafe

LEMMA SafeNext == TypeInv' /\ ElectionInv' => ElectionSafety'
BY SafeNow, PTL

LEMMA LogStep ==
    ASSUME TypeInv, VoteInv, ElectionInv, ElectedInv, NEW L, LogInv(L), [Next]_vars,
           "write" \notin Windows
    PROVE  \E M : LogInv(M)'
<1>0. TypeInv' /\ VotesFaithful /\ ElectionInv'
  BY TypeStep, VoteStep, ElectionStep
<1>a. ElectionSafety /\ ElectionSafety'
  BY <1>0, SafeNow, SafeNext
<1>1. ASSUME NEW i \in Server, NEW j \in Server, NEW limit \in PayloadLimits, SendPayload(i, j, limit)
      PROVE  LogInv(L)'
  <2>1. Still
    BY <1>1, QuietStill DEF QuietNext
  <2>2. appReqs' = appReqs \cup {Sent(i, j, limit)}
    BY <1>1, SentEntries
  <2>3. \E t \in Nat : t <= Sent(i, j, limit).term /\ CutFrom(Sent(i, j, limit), L[t])
    BY <1>1, SentCut
  <2> QED BY <1>0, <2>1, <2>2, <2>3, LogStill
<1>2. ASSUME NEW i \in Server,
             \/ ObserveTerm(i) \/ RunForLeader(i) \/ AbandonElection(i) \/ BeginElection(i)
             \/ ActivateReplicator(i) \/ DeactivateReplicator(i) \/ ServiceBegin(i) \/ Restart(i)
             \/ \E h \in heartbeats : Heartbeat(i, h)
             \/ \E j \in Server : \/ \E limit \in PayloadLimits : HaltReplication(i, j, limit)
                                  \/ \E lost \in BOOLEAN : AckTimeout(i, j, lost)
      PROVE  LogInv(L)'
  <2>1. Still
    BY <1>2, QuietStill DEF QuietNext
  <2>2. appReqs' \subseteq appReqs
    BY <1>2 DEF ObserveTerm, RunForLeader, AbandonElection, BeginElection, ActivateReplicator,
                DeactivateReplicator, ServiceBegin, Restart, Heartbeat, HaltReplication, AckTimeout, net
  <2> QED BY <1>0, <2>1, <2>2, LogStill
<1>3. ASSUME \/ \E q \in voteReqs : RequestVote(q)
             \/ \E m \in appReqs : LoseRequest(m)
      PROVE  LogInv(L)'
  <2>1. Still
    BY <1>3, QuietStill DEF QuietNext
  <2>2. appReqs' \subseteq appReqs
    BY <1>3 DEF RequestVote, LoseRequest
  <2> QED BY <1>0, <2>1, <2>2, LogStill
<1>4. ASSUME NEW i \in Server, NEW R \in SUBSET {r \in voteReplies : r.to = i},
             NEW late \in SUBSET {q \in voteReqs : q.candidate = i}, ConcludeElection(i, R, late)
      PROVE  \E M : LogInv(M)'
  <2>1. appReqs' = appReqs
    BY <1>4 DEF ConcludeElection
  <2>2. CASE Still
    BY <1>0, <2>1, <2>2, LogStill
  <2>3. CASE Wins(i)
    <3>1. PICK M : Records(L, M, node[i].term, node'[i].log)
      BY DEF Records
    <3>2. LogInv(M)'
      BY <1>0, <1>a, <2>1, <2>3, <3>1, LogWins
    <3> QED BY <3>2
  <2> QED BY <1>4, <2>2, <2>3, ConcludeCases
<1>5. ASSUME NEW i \in Server, NEW v \in Value, ServiceAppend(i, v)
      PROVE  \E M : LogInv(M)'
  <2>1. appReqs' = appReqs
    BY <1>5 DEF ServiceAppend, net
  <2>2. CASE Still
    BY <1>0, <2>1, <2>2, LogStill
  <2>3. CASE Writes(i)
    <3>1. PICK M : Records(L, M, node[i].term, node'[i].log)
      BY DEF Records
    <3>2. LogInv(M)'
      BY <1>0, <1>a, <2>1, <2>3, <3>1, LogWrites
    <3> QED BY <3>2
  <2> QED BY <1>5, <2>2, <2>3, ServiceCases
<1>6. ASSUME NEW m \in appReqs, AppendEntries(m) PROVE LogInv(L)'
  BY <1>0, <1>6, LogHandler
<1>7. ASSUME NEW a \in acks, HandleAck(a) PROVE LogInv(L)'
  <2>1. appReqs' = appReqs
    BY <1>7 DEF HandleAck
  <2> QED BY <1>0, <1>7, <2>1, AckCalm, LogQuiet
<1>8. CASE UNCHANGED vars
  <2>1. node' = node /\ elected' = elected /\ appReqs' = appReqs
    BY <1>8 DEF vars, net
  <2> QED BY <1>0, <2>1, NoneStill, LogStill
<1> QED
  BY <1>1, <1>2, <1>3, <1>4, <1>5, <1>6, <1>7, <1>8 DEF Next

\* Before anyone leads, every log is the entry that the journals begin with.
FirstLogs == [t \in Nat |-> IF t = 0 THEN <<FirstEntry>> ELSE <<>>]

LEMMA LogInit == Init => LogInv(FirstLogs)
<1> SUFFICES ASSUME Init PROVE LogInv(FirstLogs)
  OBVIOUS
<1> DEFINE s == <<FirstEntry>>
<1>1. /\ FirstEntry \in Entry /\ FirstEntry.term = 0
      /\ s \in Seq(Entry) /\ Len(s) = 1 /\ s[1] = FirstEntry
  BY DEF FirstEntry, Entry, Term
<1>2. /\ FirstLogs \in [Nat -> Seq(Entry)] /\ FirstLogs[0] = s
      /\ \A t \in Nat : t # 0 => FirstLogs[t] = <<>>
  BY <1>1 DEF FirstLogs
<1> HIDE DEF s
<1>3. \A k \in 1..Len(s) : k = 1
  BY <1>1
<1>4. Backed(FirstLogs, s)
  <2>0. Agree(s, s, 1)
    BY DEF Agree
  <2>1. s[1].term = 0 /\ 1 <= Len(FirstLogs[0]) /\ Agree(s, FirstLogs[0], 1)
    <3>1. FirstLogs[0] = s /\ Len(s) = 1 /\ s[1].term = 0
      BY <1>1, <1>2
    <3>2. 1 <= Len(s)
      BY <3>1
    <3> QED BY <2>0, <3>1, <3>2
  <2> QED BY <1>3, <2>1 DEF Backed
<1>5. Ordered(s) /\ \A k \in 1..Len(s) : s[k].term <= 0
  BY <1>1, <1>3 DEF Ordered
<1>6. LogOfTerm(FirstLogs, s, 0)
  BY <1>1, <1>4, <1>5 DEF LogOfTerm, GoodLog
<1>7. ASSUME NEW t \in Nat PROVE LogOfTerm(FirstLogs, FirstLogs[t], t)
  <2>1. CASE t = 0
    BY <1>2, <1>6, <2>1
  <2>2. CASE t # 0
    BY <1>2, <2>2 DEF LogOfTerm, GoodLog, Backed, Ordered
  <2> QED BY <2>1, <2>2
<1>8. elected = {} /\ appReqs = {}
  BY DEF Init
<1>9. LeaderLogs(FirstLogs)
  <2>1. \A t \in Nat : Len(FirstLogs[t]) > 0 => FirstLogs[t][Len(FirstLogs[t])].term = t
    BY <1>1, <1>2
  <2>2. \A t \in Nat : Len(FirstLogs[t]) > 0 <=> t = 0 \/ \E i \in Server : <<i, t>> \in elected
    BY <1>1, <1>2, <1>8, SMTT(30)
  <2> QED BY <1>2, <1>7, <2>1, <2>2 DEF LeaderLogs
<1>10. \A i \in Server : node[i].log = s /\ node[i].term = 0 /\ node[i].status = "FOLLOWER"
  BY DEF Init, FreshNode, FirstEntry, s
<1> QED
  BY <1>6, <1>8, <1>9, <1>10 DEF LogInv

LEMMA SamePrefix ==
    ASSUME NEW s \in Seq(Entry), NEW u \in Seq(Entry), NEW k \in Nat,
           k <= Len(s), k <= Len(u), Agree(s, u, k)
    PROVE  SubSeq(s, 1, k) = SubSeq(u, 1, k)
<1>1. /\ SubSeq(s, 1, k) \in Seq(Entry) /\ Len(SubSeq(s, 1, k)) = k
      /\ \A x \in 1..k : SubSeq(s, 1, k)[x] = s[x]
  OBVIOUS
<1>2. /\ SubSeq(u, 1, k) \in Seq(Entry) /\ Len(SubSeq(u, 1, k)) = k
      /\ \A x \in 1..k : SubSeq(u, 1, k)[x] = u[x]
  OBVIOUS
<1> DEFINE a == SubSeq(s, 1, k)
           b == SubSeq(u, 1, k)
<1>3. a \in Seq(Entry) /\ b \in Seq(Entry) /\ Len(a) = Len(b) /\ \A x \in 1..Len(a) : a[x] = b[x]
  BY <1>1, <1>2 DEF Agree
<1> HIDE DEF a, b
<1>4. a = b
  BY <1>3, SeqEqual
<1> QED
  BY <1>4 DEF a, b

LEMMA LogsMatch ==
    ASSUME TypeInv, NEW L, LogInv(L)
    PROVE  LogMatching
<1> SUFFICES ASSUME NEW i \in Server, NEW j \in Server, NEW k \in 1..Len(node[i].log),
                    k <= Len(node[j].log), node[i].log[k].term = node[j].log[k].term
             PROVE  SubSeq(node[i].log, 1, k) = SubSeq(node[j].log, 1, k)
  BY DEF LogMatching
<1>1. PICK s \in Seq(Entry) : s = node[i].log
  BY DEF TypeInv, TypeOK, Node
<1>2. PICK u \in Seq(Entry) : u = node[j].log
  BY DEF TypeInv, TypeOK, Node
<1>3. Backed(L, s) /\ Backed(L, u)
  BY <1>1, <1>2 DEF LogInv, LogOfTerm, GoodLog
<1>4. Agree(s, u, k)
  BY <1>1, <1>2, <1>3, BackedAgree
<1>5. k \in 1..Len(s) /\ k \in 1..Len(u)
  BY <1>1, <1>2
<1>6. SubSeq(s, 1, k) = SubSeq(u, 1, k)
  BY <1>4, <1>5, SamePrefix
<1> QED
  BY <1>1, <1>2, <1>6

LogsBacked == \E L : LogInv(L)

\* Equal terms at an index mean equal logs up to there, for any number of servers,
\* restarts, lost and late requests, and stale trackers: the comparison of terms
\* that RaftJournal::matchEntries makes is enough.  A service() call that has seen
\* its term end must not append any more; otherwise this is not so.
THEOREM LogMatchingCorrect == "write" \notin Windows => (Spec => []LogMatching)
<1> SUFFICES ASSUME "write" \notin Windows PROVE Spec => []LogMatching
  OBVIOUS
<1>1. Init => ElectedInv /\ LogsBacked
  <2>1. Init => ElectedInv
    BY DEF Init, ElectedInv, IdleDirector, FreshNode
  <2> QED BY <2>1, LogInit DEF LogsBacked
<1>2. TypeInv /\ VoteInv /\ ElectionInv /\ ElectedInv /\ LogsBacked /\ [Next]_vars
        => ElectedInv' /\ LogsBacked'
  BY ElectedStep, LogStep DEF LogsBacked
<1>3. TypeInv /\ LogsBacked => LogMatching
  BY LogsMatch DEF LogsBacked
<1>4. Spec => []ElectionInv
  BY ElectionInit, ElectionStep, VoteInvariant, PTL DEF Spec
<1> QED
  BY <1>1, <1>2, <1>3, <1>4, VoteInvariant, PTL DEF Spec

-----------------------------------------------------------------------------
(* Growing logs of leaders *)

Leaders(L) ==
    /\ LedgerType(L)
    /\ \A t \in Nat : LogOfTerm(L, L[t], t) /\ (Len(L[t]) > 0 => L[t][Len(L[t])].term = t)

LEMMA LogLeaders ==
    ASSUME NEW L, LogInv(L)
    PROVE  Leaders(L)
BY DEF LogInv, LeaderLogs, Leaders, LedgerType

LEMMA LeaderLog ==
    ASSUME NEW L, Leaders(L), NEW t \in Nat
    PROVE  /\ L[t] \in Seq(Entry) /\ Len(L[t]) \in Nat /\ Backed(L, L[t]) /\ Ordered(L[t])
           /\ \A k \in 1..Len(L[t]) : L[t][k].term \in Nat /\ L[t][k].term <= t
           /\ Len(L[t]) > 0 => L[t][Len(L[t])].term = t /\ L[t][1] = FirstEntry
<1>1. L[t] \in Seq(Entry) /\ Len(L[t]) \in Nat
  BY LedgerLen DEF Leaders
<1>2. \A k \in 1..Len(L[t]) : L[t][k].term \in Nat
  BY <1>1, EntryType
<1> QED
  BY <1>1, <1>2 DEF Leaders, LogOfTerm, GoodLog

LEMMA HoldsBacked ==
    ASSUME NEW L, LedgerType(L), NEW s \in Seq(Entry), Backed(L, s), NEW t, NEW k, Holds(s, t, k)
    PROVE  /\ t \in Nat /\ k \in Nat /\ k >= 1 /\ k <= Len(s) /\ k <= Len(L[t])
           /\ Len(L[t]) \in Nat /\ Agree(s, L[t], k) /\ Holds(L[t], t, k)
<1>1. k \in 1..Len(s) /\ s[k].term = t /\ t \in Nat /\ k \in Nat
  BY EntryType DEF Holds
<1>2. k <= Len(L[t]) /\ Agree(s, L[t], k)
  BY <1>1 DEF Backed
<1>3. Len(L[t]) \in Nat
  BY <1>1, LedgerLen
<1>4. s[k] = L[t][k]
  BY <1>1, <1>2 DEF Agree
<1> QED
  BY <1>1, <1>2, <1>3, <1>4 DEF Holds

\* An entry of a term is behind all entries of earlier terms.
LEMMA HoldsOrder ==
    ASSUME NEW s \in Seq(Entry), Ordered(s), NEW t \in Nat, NEW k \in Nat, NEW u \in Nat, NEW l \in Nat,
           Holds(s, t, k), Holds(s, u, l), t < u
    PROVE  k < l
BY DEF Holds, Ordered

LEMMA GrowHolds ==
    ASSUME NEW L, LedgerType(L), NEW M, LedgerType(M), Grow(L, M), NEW w \in Nat, NEW t \in Nat, NEW k \in Nat
    PROVE  /\ Holds(L[w], t, k) => Holds(M[w], t, k)
           /\ Holds(M[w], t, k) => Holds(L[w], t, k) \/ Len(L[w]) = 0 \/ t = w
           /\ Holds(M[w], t, k) /\ ~ Holds(L[w], t, k) => k > Len(L[w])
           /\ Len(L[w]) \in Nat /\ Len(M[w]) \in Nat /\ Len(L[w]) <= Len(M[w])
<1>1. Len(L[w]) \in Nat /\ Len(M[w]) \in Nat
  BY LedgerLen
<1>2. /\ Len(L[w]) <= Len(M[w]) /\ \A x \in 1..Len(L[w]) : L[w][x] = M[w][x]
      /\ Len(L[w]) > 0 => \A x \in (Len(L[w]) + 1)..Len(M[w]) : M[w][x].term = w
  BY DEF Grow, Agree
<1>3. Holds(L[w], t, k) => Holds(M[w], t, k)
  BY <1>1, <1>2, SMTT(30) DEF Holds
<1>4. Holds(M[w], t, k) => Holds(L[w], t, k) \/ Len(L[w]) = 0 \/ t = w
  BY <1>1, <1>2, SMTT(30) DEF Holds
<1>5. Holds(M[w], t, k) /\ ~ Holds(L[w], t, k) => k > Len(L[w])
  BY <1>1, <1>2, SMTT(30) DEF Holds
<1> QED
  BY <1>1, <1>2, <1>3, <1>4, <1>5

LEMMA MissingGrows ==
    ASSUME NEW L, LedgerType(L), NEW M, LedgerType(M), Grow(L, M), NEW t \in Nat, NEW k \in Nat,
           NEW u \in Nat, t < u, Missing(L, t, k, u)
    PROVE  Missing(M, t, k, u)
<1>1. /\ Holds(M[u], t, k) => Holds(L[u], t, k) \/ Len(L[u]) = 0 \/ t = u
      /\ Len(L[u]) \in Nat /\ Len(M[u]) \in Nat /\ Len(L[u]) <= Len(M[u])
  BY GrowHolds
<1> QED
  BY <1>1 DEF Missing

LEMMA SkippedGrows ==
    ASSUME NEW L, LedgerType(L), NEW M, LedgerType(M), Grow(L, M), NEW t \in Nat, NEW k \in Nat,
           NEW u \in Nat, SkippedBetween(L, t, k, u)
    PROVE  SkippedBetween(M, t, k, u)
BY MissingGrows DEF SkippedBetween

LEMMA ClaimGrows ==
    ASSUME NEW L, LedgerType(L), NEW M, LedgerType(M), Grow(L, M), NEW c, NEW u \in Nat, ClaimOK(L, c, u)
    PROVE  ClaimOK(M, c, u)
<1>1. /\ c[1] \in Nat /\ c[2] \in Nat /\ c[2] < u /\ c[1] + 1 <= Len(L[c[2]])
  BY DEF ClaimOK
<1>2. Len(L[c[2]]) \in Nat /\ Len(M[c[2]]) \in Nat /\ Len(L[c[2]]) <= Len(M[c[2]])
  BY <1>1, LedgerLen DEF Grow
<1> QED
  BY <1>1, <1>2 DEF ClaimOK

\* The log u begins with the log s.
Extends(s, u) == Len(s) <= Len(u) /\ Agree(s, u, Len(s))

LEMMA ExtendsHolds ==
    ASSUME NEW s \in Seq(Entry), NEW u \in Seq(Entry), Extends(s, u), NEW t, NEW k, Holds(s, t, k)
    PROVE  Holds(u, t, k)
BY DEF Extends, Agree, Holds

LEMMA JustifiedGrows ==
    ASSUME NEW L, Leaders(L), NEW M, LedgerType(M), Grow(L, M), NEW c, NEW u \in Nat,
           NEW s \in Seq(Entry), NEW v \in Seq(Entry), Extends(s, v),
           ClaimOK(L, c, u), Justified(L, c, u, s)
    PROVE  Justified(M, c, u, v)
<1> SUFFICES ASSUME NEW t \in Nat, NEW k \in Nat, t < u, Holds(M[t], t, k), Claims(c, t, k)
             PROVE  Holds(v, t, k) \/ SkippedBetween(M, t, k, u)
  BY DEF Justified
<1>0. LedgerType(L)
  BY DEF Leaders
<1>1. CASE Holds(L[t], t, k)
  <2>1. Holds(s, t, k) \/ SkippedBetween(L, t, k, u)
    BY <1>1 DEF Justified
  <2>2. Holds(s, t, k) => Holds(v, t, k)
    BY ExtendsHolds
  <2>3. SkippedBetween(L, t, k, u) => SkippedBetween(M, t, k, u)
    BY <1>0, SkippedGrows
  <2> QED BY <2>1, <2>2, <2>3
<1>2. CASE ~ Holds(L[t], t, k)
  <2>1. k > Len(L[t]) /\ Len(L[t]) \in Nat
    BY <1>0, <1>2, GrowHolds
  <2>2. PICK w \in Nat : w = c[2]
    BY DEF ClaimOK
  <2>3. w < u /\ c[1] \in Nat /\ c[1] + 1 <= Len(L[w])
    BY <2>2 DEF ClaimOK
  <2>4. t < w
    BY <2>1, <2>2, <2>3 DEF Claims
  <2>5. /\ Holds(M[w], t, k) => Holds(L[w], t, k) \/ Len(L[w]) = 0 \/ t = w
        /\ Len(L[w]) \in Nat /\ Len(M[w]) \in Nat /\ Len(L[w]) <= Len(M[w])
    BY <1>0, GrowHolds
  <2>6. ~ Holds(L[w], t, k)
    <3>1. L[w] \in Seq(Entry) /\ Backed(L, L[w])
      BY LeaderLog
    <3>2. Holds(L[w], t, k) => k <= Len(L[t])
      BY <1>0, <3>1, HoldsBacked
    <3> QED BY <2>1, <3>2
  <2>7. Missing(M, t, k, w)
    BY <2>3, <2>4, <2>5, <2>6 DEF Missing
  <2> QED BY <2>3, <2>4, <2>7 DEF SkippedBetween
<1> QED
  BY <1>1, <1>2

\* The claim a server makes with its whole log is justified by that log.
LEMMA FreshClaim ==
    ASSUME NEW L, Leaders(L), NEW s \in Seq(Entry), NEW w \in Nat, LogOfTerm(L, s, w), Len(s) > 0,
           NEW u \in Nat, w < u, NEW c, c[1] = Len(s) - 1, c[2] = s[Len(s)].term
    PROVE  ClaimOK(L, c, u) /\ Justified(L, c, u, s)
<1>0. LedgerType(L) /\ Backed(L, s) /\ Ordered(s)
  BY DEF Leaders, LogOfTerm, GoodLog
<1>1. PICK p \in Nat : p = Len(s)
  OBVIOUS
<1>2. PICK z \in Nat : z = s[p].term
  BY <1>1, EntryType
<1>3. p \in 1..Len(s) /\ z < u /\ Holds(s, z, p)
  BY <1>1, <1>2 DEF LogOfTerm, Holds
<1>4. p <= Len(L[z]) /\ Agree(s, L[z], p) /\ Holds(L[z], z, p)
  BY <1>0, <1>3, HoldsBacked
<1>5. ClaimOK(L, c, u)
  BY <1>1, <1>2, <1>3, <1>4 DEF ClaimOK
<1>6. ASSUME NEW t \in Nat, NEW k \in Nat, t < u, Holds(L[t], t, k), Claims(c, t, k)
      PROVE  Holds(s, t, k) \/ SkippedBetween(L, t, k, u)
  <2>0. /\ L[z] \in Seq(Entry) /\ Len(L[z]) \in Nat /\ Ordered(L[z])
    BY LeaderLog
  <2>1. CASE t < z
    <3>1. CASE Holds(L[z], t, k)
      <4>1. k < p
        BY <1>4, <2>0, <2>1, <3>1, HoldsOrder
      <4>2. k \in 1..p /\ k \in 1..Len(s)
        BY <1>1, <3>1, <4>1 DEF Holds
      <4>3. s[k] = L[z][k]
        BY <1>4, <4>2 DEF Agree
      <4> QED BY <3>1, <4>2, <4>3 DEF Holds
    <3>2. CASE ~ Holds(L[z], t, k)
      <4>1. Missing(L, t, k, z)
        BY <1>3, <1>4, <2>0, <3>2 DEF Missing
      <4> QED BY <1>3, <2>1, <4>1 DEF SkippedBetween
    <3> QED BY <3>1, <3>2
  <2>2. CASE ~ (t < z)
    <3>1. t = z /\ k <= p
      BY <1>1, <1>2, <1>6, <2>2 DEF Claims
    <3>2. k \in 1..p /\ k \in 1..Len(s)
      BY <1>1, <1>6, <3>1 DEF Holds
    <3>3. s[k] = L[z][k]
      BY <1>4, <3>2 DEF Agree
    <3> QED BY <1>6, <3>1, <3>2, <3>3 DEF Holds
  <2> QED BY <2>1, <2>2
<1> QED
  BY <1>5, <1>6 DEF Justified

-----------------------------------------------------------------------------
(* What was chosen is in the log of every later leader *)

Complete(L, A) ==
    \A t, k, u \in Nat : Chosen(A, t, k) /\ t < u /\ Len(L[u]) > 0 => Holds(L[u], t, k)

LEMMA ChosenHeld ==
    ASSUME NEW L, NEW A, AcksHeld(L, A), NEW t \in Nat, NEW k \in Nat, Chosen(A, t, k)
    PROVE  Holds(L[t], t, k)
<1>1. PICK Q \in SUBSET Server : Cardinality(Q) >= quorumSize /\ \A j \in Q : <<j, t, k>> \in A
  BY DEF Chosen
<1>2. Q # {}
  BY <1>1, QuorumsIntersect
<1>3. PICK j \in Server : <<j, t, k>> \in A
  BY <1>1, <1>2
<1> QED
  BY <1>3 DEF AcksHeld

LEMMA Completeness ==
    ASSUME TypeInv, NEW L, LogInv(L), NEW A, AckInv(L, A), NEW G, Ledger(G), NEW K, ClaimInv(L, A, G, K)
    PROVE  Complete(L, A)
<1> SUFFICES ASSUME NEW t \in Nat, NEW k \in Nat, Chosen(A, t, k),
                    {u \in Nat : t < u /\ Missing(L, t, k, u)} # {}
             PROVE  FALSE
  BY DEF Complete, Missing
<1>1. PICK u \in Nat : /\ t < u /\ Missing(L, t, k, u)
                       /\ \A w \in Nat : t < w /\ Missing(L, t, k, w) => u <= w
  <2> DEFINE S == {w \in Nat : t < w /\ Missing(L, t, k, w)}
  <2>1. S \subseteq Nat /\ S # {}
    OBVIOUS
  <2>2. PICK x \in S : \A y \in S : x <= y
    <3> HIDE DEF S
    <3> QED BY <2>1, LeastNat
  <2> QED BY <2>2
<1>2. ~ SkippedBetween(L, t, k, u) /\ ~ Holds(L[u], t, k) /\ Len(L[u]) > 0
  BY <1>1 DEF SkippedBetween, Missing
<1>3. PICK i \in Server : <<i, u>> \in elected
  <2>1. u = 0 \/ \E i \in Server : <<i, u>> \in elected
    BY <1>2 DEF LogInv, LeaderLogs
  <2>2. u # 0
    BY <1>1
  <2> QED BY <2>1, <2>2, Zenon
<1>4. PICK P \in SUBSET Server : Cardinality(P) >= quorumSize /\ \A v \in P : <<v, u, i>> \in G
  BY <1>3 DEF Ledger, ElectedByQuorum, QuorumBehind
<1>5. PICK Q \in SUBSET Server : Cardinality(Q) >= quorumSize /\ \A v \in Q : <<v, t, k>> \in A
  BY DEF Chosen
<1>6. PICK v \in Server : <<v, u, i>> \in G /\ <<v, t, k>> \in A
  BY <1>4, <1>5, QuorumsIntersect
<1>7. CASE v = i
  <2>1. LeadersKeep(L, A)
    BY DEF ClaimInv
  <2>2. Holds(L[u], t, k) \/ SkippedBetween(L, t, k, u)
    BY <1>1, <1>3, <1>6, <1>7, <2>1 DEF LeadersKeep
  <2> QED BY <1>2, <2>2
<1>8. CASE v # i
  <2>1. VotersBehind(L, A, G, K) /\ LeadersClaim(L, G, K)
    BY DEF ClaimInv
  <2>2. Claims(K[<<i, u>>], t, k)
    BY <1>1, <1>2, <1>6, <1>8, <2>1 DEF VotersBehind
  <2>3. Justified(L, K[<<i, u>>], u, L[u])
    BY <1>3, <2>1 DEF LeadersClaim
  <2>4. Holds(L[t], t, k)
    BY ChosenHeld DEF AckInv
  <2>5. Holds(L[u], t, k) \/ SkippedBetween(L, t, k, u)
    BY <1>1, <2>2, <2>3, <2>4 DEF Justified
  <2> QED BY <1>2, <2>5
<1> QED
  BY <1>7, <1>8

\* The log of a later leader begins with what was chosen.
LEMMA ChosenAgree ==
    ASSUME NEW L, Leaders(L), NEW A, AcksHeld(L, A), Complete(L, A), NEW t \in Nat, NEW k \in Nat,
           Chosen(A, t, k), NEW u \in Nat, t <= u, Len(L[u]) > 0
    PROVE  /\ k \in Nat \ {0} /\ k <= Len(L[t]) /\ k <= Len(L[u]) /\ Agree(L[t], L[u], k)
           /\ Len(L[t]) \in Nat /\ Len(L[u]) \in Nat
<1>0. LedgerType(L) /\ L[u] \in Seq(Entry) /\ Backed(L, L[u]) /\ Len(L[u]) \in Nat /\ Len(L[t]) \in Nat
  BY LeaderLog DEF Leaders
<1>1. Holds(L[t], t, k)
  BY ChosenHeld
<1>2. Holds(L[u], t, k)
  BY <1>1 DEF Complete
<1>3. k >= 1 /\ k <= Len(L[u]) /\ k <= Len(L[t]) /\ Agree(L[u], L[t], k)
  BY <1>0, <1>2, HoldsBacked
<1> QED
  BY <1>0, <1>3 DEF Agree

-----------------------------------------------------------------------------
(* What a request leaves of the log of its target *)

\* new has what s has, except for what the leader of term T did without.
Retains(L, s, new, T) ==
    \A t, k \in Nat : Holds(s, t, k) => Holds(new, t, k) \/ (t < T /\ Missing(L, t, k, T))

LEMMA TakenRetains ==
    ASSUME NEW L, Leaders(L), NEW n, NodeOK(n), NEW T \in Nat, n.term <= T, LogOfTerm(L, n.log, n.term),
           NEW m \in AppReq, CutFrom(m, L[T]), NEW new, Taken(n, new, m, L[T])
    PROVE  Retains(L, n.log, new.log, T)
<1> SUFFICES ASSUME NEW t \in Nat, NEW k \in Nat, Holds(n.log, t, k), ~ Holds(new.log, t, k)
             PROVE  t < T /\ Missing(L, t, k, T)
  BY DEF Retains
<1> DEFINE end == m.prevIndex + 1 + Len(m.entries)
<1>1. /\ n.log \in Seq(Entry) /\ Len(n.log) \in Nat /\ Backed(L, n.log) /\ n.term \in Nat
      /\ LedgerType(L)
  BY DEF NodeOK, Node, Term, LogOfTerm, GoodLog, Leaders
<1>2. L[T] \in Seq(Entry) /\ Len(L[T]) \in Nat /\ Backed(L, L[T])
  BY LeaderLog
<1>3. m.prevIndex \in Nat /\ Len(m.entries) \in Nat /\ end \in Nat /\ end <= Len(L[T]) /\ end >= 1
  BY DEF AppReq, CutFrom
<1>4. /\ new.log \in Seq(Entry) /\ Len(new.log) = end /\ Agree(new.log, L[T], end)
      /\ \E f \in (m.prevIndex + 1)..Len(n.log) :
            f < end /\ Agree(n.log, L[T], f) /\ (f < Len(n.log) => n.log[f + 1] # L[T][f + 1])
  <2>1. new.log # n.log
    OBVIOUS
  <2> QED BY <2>1 DEF Taken
<1> HIDE DEF end
<1>5. PICK f \in (m.prevIndex + 1)..Len(n.log) :
            f < end /\ Agree(n.log, L[T], f) /\ (f < Len(n.log) => n.log[f + 1] # L[T][f + 1])
  BY <1>4
<1>6. f \in Nat /\ k \in 1..Len(n.log) /\ n.log[k].term = t
  BY <1>1, <1>3 DEF Holds
<1>7. k > f
  <2> SUFFICES ASSUME k <= f PROVE FALSE
    BY <1>6
  <2>1. k \in 1..f /\ k \in 1..end /\ k \in 1..Len(new.log)
    BY <1>3, <1>4, <1>5, <1>6
  <2>2. n.log[k] = new.log[k]
    BY <1>4, <1>5, <2>1 DEF Agree
  <2> QED BY <1>6, <2>1, <2>2 DEF Holds
<1>8. ~ Holds(L[T], t, k)
  <2> SUFFICES ASSUME Holds(L[T], t, k) PROVE FALSE
    OBVIOUS
  <2>1. k <= Len(L[T]) /\ L[T][k].term = n.log[k].term
    BY <1>2, <1>6 DEF Holds
  <2>2. Agree(n.log, L[T], k)
    BY <1>1, <1>2, <1>6, <2>1, BackedAgree
  <2>3. f + 1 \in 1..k /\ f < Len(n.log)
    BY <1>1, <1>6, <1>7
  <2> QED BY <1>5, <2>2, <2>3 DEF Agree
<1>9. t <= T
  <2>1. n.log[k].term <= n.term
    BY <1>6 DEF LogOfTerm
  <2> QED BY <1>1, <1>6, <2>1
<1>10. t # T
  <2>1. Holds(L[t], t, k)
    BY <1>1, HoldsBacked
  <2> QED BY <1>8, <2>1
<1> QED
  BY <1>2, <1>3, <1>8, <1>9, <1>10 DEF Missing

-----------------------------------------------------------------------------
(* Leaders that append *)

\* Leader i of term T has appended an entry of T; M is the record that follows L.
LeadsOn(L, M, i, T) ==
    /\ T \in Nat /\ Grow(L, M) /\ LedgerType(M) /\ M[T] = node'[i].log
    /\ \A t \in Nat \ {T} : M[t] = L[t]
    /\ node[i].term = T /\ node'[i].term = T /\ node'[i].commitIndex = node[i].commitIndex
    /\ \A j \in Server \ {i} : node'[j] = node[j]
    /\ Len(node'[i].log) = Len(node[i].log) + 1 /\ node'[i].log[Len(node'[i].log)].term = T
    /\ Extends(node[i].log, node'[i].log)
    /\ L[T] = <<>> \/ (L[T] = node[i].log /\ <<i, T>> \in elected)
    /\ elected \subseteq elected' /\ \A e \in elected' : e \in elected \/ e = <<i, T>>
    /\ \A e \in elected' : e[2] = T => e[1] = i

LEMMA WinsLeads ==
    ASSUME TypeInv, TypeInv', ElectedInv, ElectionSafety', NEW L, LogInv(L),
           NEW i \in Server, Wins(i), appReqs' = appReqs,
           NEW M, Records(L, M, node[i].term, node'[i].log)
    PROVE  LogInv(M)' /\ LeadsOn(L, M, i, node[i].term) /\ L[node[i].term] = <<>>
<1> DEFINE T == node[i].term
<1>1. /\ LogInv(M)' /\ Grow(L, M) /\ LedgerType(M)
      /\ M[T] = node'[i].log /\ (\A t \in Nat \ {T} : M[t] = L[t])
      /\ Len(node'[i].log) = Len(node[i].log) + 1
      /\ node'[i].log[Len(node[i].log) + 1].term = T
      /\ Agree(node[i].log, node'[i].log, Len(node[i].log))
  BY LogWins
<1>2. L[T] = <<>> /\ T \in Nat /\ \A e \in elected : e[2] # T
  BY FreshTerm
<1>3. Extends(node[i].log, node'[i].log)
  <2>1. Len(node[i].log) \in Nat
    BY DEF TypeInv, TypeOK, Node
  <2> QED BY <1>1, <2>1 DEF Extends
<1>4. /\ node'[i].term = T /\ node'[i].commitIndex = node[i].commitIndex
      /\ (\A j \in Server \ {i} : node'[j] = node[j]) /\ elected' = elected \cup {<<i, T>>}
  BY DEF Wins
<1>5. \A e \in elected' : e[2] = T => e[1] = i
  BY <1>2, <1>4
<1> QED
  BY <1>1, <1>2, <1>3, <1>4, <1>5 DEF LeadsOn

LEMMA WritesLeads ==
    ASSUME TypeInv, TypeInv', ElectedInv, ElectionSafety, NEW L, LogInv(L),
           NEW i \in Server, Writes(i), appReqs' = appReqs,
           NEW M, Records(L, M, node[i].term, node'[i].log)
    PROVE  LogInv(M)' /\ LeadsOn(L, M, i, node[i].term)
<1> DEFINE T == node[i].term
<1>1. /\ LogInv(M)' /\ Grow(L, M) /\ LedgerType(M)
      /\ M[T] = node'[i].log /\ (\A t \in Nat \ {T} : M[t] = L[t])
      /\ Len(node'[i].log) = Len(node[i].log) + 1
      /\ node'[i].log[Len(node[i].log) + 1].term = T
      /\ Agree(node[i].log, node'[i].log, Len(node[i].log))
  BY LogWrites
<1>2. T \in Nat /\ <<i, T>> \in elected /\ L[T] = node[i].log
  BY DEF TypeInv, TypeOK, Node, Term, Writes, ElectedInv, LogInv
<1>3. Extends(node[i].log, node'[i].log)
  <2>1. Len(node[i].log) \in Nat
    BY DEF TypeInv, TypeOK, Node
  <2> QED BY <1>1, <2>1 DEF Extends
<1>4. /\ node'[i].term = T /\ node'[i].commitIndex = node[i].commitIndex
      /\ (\A j \in Server \ {i} : node'[j] = node[j]) /\ elected' = elected
  BY DEF Writes
<1>5. \A e \in elected' : e[2] = T => e[1] = i
  BY <1>2, <1>4 DEF ElectionSafety
<1> QED
  BY <1>1, <1>2, <1>3, <1>4, <1>5 DEF LeadsOn

-----------------------------------------------------------------------------
(* Acknowledgements *)

LEMMA FollowedLater ==
    ASSUME NEW n, NEW o, n.term \in Nat, o.term \in Nat, Faithful(n, o), NEW u \in Nat, MayHaveFollowed(n, u)
    PROVE  MayHaveFollowed(o, u)
BY DEF Faithful, MayHaveFollowed

\* A server keeps its acknowledgements when its log stays, or loses only what the
\* leader it follows did without.
LEMMA AcksHeldStep ==
    ASSUME TypeInv, TypeInv', VotesFaithful, NEW L, NEW A, AcksHeld(L, A),
           \A j \in Server : \/ node'[j].log = node[j].log
                             \/ /\ Retains(L, node[j].log, node'[j].log, node'[j].term)
                                /\ node'[j].votedFor # Nobody
    PROVE  AcksHeld(L, A)'
<1> SUFFICES ASSUME NEW j \in Server, NEW t \in Nat, NEW k \in Nat, <<j, t, k>> \in A
             PROVE  /\ Holds(L[t], t, k) /\ t <= node'[j].term
                    /\ \/ Holds(node'[j].log, t, k)
                       \/ \E u \in Nat : t < u /\ MayHaveFollowed(node'[j], u) /\ Missing(L, t, k, u)
  BY DEF AcksHeld
<1>1. Faithful(node[j], node'[j]) /\ node[j].term \in Nat /\ node'[j].term \in Nat
  BY DEF VotesFaithful, TypeInv, TypeOK, Node, Term
<1>2. /\ Holds(L[t], t, k) /\ t <= node[j].term
      /\ \/ Holds(node[j].log, t, k)
         \/ \E u \in Nat : t < u /\ MayHaveFollowed(node[j], u) /\ Missing(L, t, k, u)
  BY DEF AcksHeld
<1>3. t <= node'[j].term
  BY <1>1, <1>2 DEF Faithful
<1>4. CASE \E u \in Nat : t < u /\ MayHaveFollowed(node[j], u) /\ Missing(L, t, k, u)
  BY <1>1, <1>2, <1>3, <1>4, FollowedLater
<1>5. CASE Holds(node[j].log, t, k) /\ node'[j].log = node[j].log
  BY <1>2, <1>3, <1>5
<1>6. CASE /\ Holds(node[j].log, t, k)
           /\ Retains(L, node[j].log, node'[j].log, node'[j].term) /\ node'[j].votedFor # Nobody
  <2>1. Holds(node'[j].log, t, k) \/ (t < node'[j].term /\ Missing(L, t, k, node'[j].term))
    BY <1>6 DEF Retains
  <2>2. MayHaveFollowed(node'[j], node'[j].term)
    BY <1>6 DEF MayHaveFollowed
  <2> QED BY <1>1, <1>2, <1>3, <2>1, <2>2
<1> QED
  BY <1>2, <1>4, <1>5, <1>6

LEMMA AckQuiet ==
    ASSUME TypeInv, TypeInv', VotesFaithful, NEW L, NEW A, AckInv(L, A), elected' = elected,
           \A i \in Server : node'[i].log = node[i].log
    PROVE  AckInv(L, A)'
<1>1. AcksHeld(L, A)'
  BY AcksHeldStep DEF AckInv
<1>2. LeadersAcked(L, A)'
  BY DEF AckInv, LeadersAcked
<1> QED
  BY <1>1, <1>2 DEF AckInv

\* B has, besides A, what server j acknowledges with its present log and term.
Acknowledges(A, B, j) ==
    /\ A \subseteq B
    /\ \A v \in Server, t, k \in Nat : <<v, t, k>> \in B =>
          <<v, t, k>> \in A \/ (v = j /\ t = node'[j].term /\ Holds(node'[j].log, t, k))

LEMMA AcksHeldMore ==
    ASSUME TypeInv', NEW L, LogInv(L)', NEW A, NEW B, AcksHeld(L, A)',
           NEW j \in Server, Acknowledges(A, B, j)
    PROVE  AcksHeld(L, B)'
<1> SUFFICES ASSUME NEW v \in Server, NEW t \in Nat, NEW k \in Nat, <<v, t, k>> \in B
             PROVE  /\ Holds(L[t], t, k) /\ t <= node'[v].term
                    /\ \/ Holds(node'[v].log, t, k)
                       \/ \E u \in Nat : t < u /\ MayHaveFollowed(node'[v], u) /\ Missing(L, t, k, u)
  BY DEF AcksHeld
<1>1. CASE <<v, t, k>> \in A
  BY <1>1 DEF AcksHeld
<1>2. CASE v = j /\ t = node'[j].term /\ Holds(node'[j].log, t, k)
  <2>1. /\ node'[j].log \in Seq(Entry) /\ node'[j].term \in Nat /\ LedgerType(L)
        /\ Backed(L, node'[j].log)
    BY DEF TypeInv, TypeOK, Node, Term, LogInv, LogOfTerm, GoodLog, LeaderLogs, LedgerType
  <2>2. Holds(L[t], t, k)
    BY <1>2, <2>1, HoldsBacked
  <2> QED BY <1>2, <2>1, <2>2
<1> QED
  BY <1>1, <1>2 DEF Acknowledges

\* The acknowledgement of a leader that appends.
Appends(A, B, i) == B = A \cup {<<i, node'[i].term, Len(node'[i].log)>>}

LEMMA AppendsAcknowledges ==
    ASSUME NEW L, NEW M, NEW i \in Server, NEW T, LeadsOn(L, M, i, T), TypeInv', NEW A, NEW B, Appends(A, B, i)
    PROVE  Acknowledges(A, B, i)
<1>1. node'[i].log \in Seq(Entry) /\ Len(node'[i].log) \in Nat
  BY DEF TypeInv, TypeOK, Node
<1>2. Len(node'[i].log) > 0 /\ node'[i].log[Len(node'[i].log)].term = node'[i].term
  <2>1. Len(node'[i].log) > 0
    BY <1>1 DEF TypeInv, TypeOK, Node
  <2> QED BY <2>1 DEF LeadsOn
<1>3. Holds(node'[i].log, node'[i].term, Len(node'[i].log))
  BY <1>1, <1>2 DEF Holds
<1> QED
  BY <1>3 DEF Acknowledges, Appends

LEMMA AckLeads ==
    ASSUME TypeInv, TypeInv', VotesFaithful, NEW L, LogInv(L), NEW A, AckInv(L, A),
           NEW M, LogInv(M)', NEW i \in Server, NEW T, LeadsOn(L, M, i, T), NEW B, Appends(A, B, i)
    PROVE  AckInv(M, B)'
<1>0. LedgerType(L) /\ LedgerType(M) /\ Grow(L, M) /\ T \in Nat /\ Leaders(L)
  BY LogLeaders DEF LeadsOn, Leaders
<1>1. \A j \in Server : /\ Faithful(node[j], node'[j]) /\ node[j].term \in Nat /\ node'[j].term \in Nat
                        /\ node[j].log \in Seq(Entry) /\ node'[j].log \in Seq(Entry)
  BY DEF VotesFaithful, TypeInv, TypeOK, Node, Term
<1>2. \A j \in Server : Extends(node[j].log, node'[j].log)
  BY <1>1, SMTT(30) DEF LeadsOn, Extends, Agree
<1>3. AcksHeld(M, A)'
  <2> SUFFICES ASSUME NEW j \in Server, NEW t \in Nat, NEW k \in Nat, <<j, t, k>> \in A
               PROVE  /\ Holds(M[t], t, k) /\ t <= node'[j].term
                      /\ \/ Holds(node'[j].log, t, k)
                         \/ \E u \in Nat : t < u /\ MayHaveFollowed(node'[j], u) /\ Missing(M, t, k, u)
    BY DEF AcksHeld
  <2>1. /\ Holds(L[t], t, k) /\ t <= node[j].term
        /\ \/ Holds(node[j].log, t, k)
           \/ \E u \in Nat : t < u /\ MayHaveFollowed(node[j], u) /\ Missing(L, t, k, u)
    BY DEF AckInv, AcksHeld
  <2>2. Holds(M[t], t, k)
    BY <1>0, <2>1, GrowHolds
  <2>3. t <= node'[j].term
    BY <1>1, <2>1 DEF Faithful
  <2>4. CASE Holds(node[j].log, t, k)
    BY <1>1, <1>2, <2>2, <2>3, <2>4, ExtendsHolds
  <2>5. CASE \E u \in Nat : t < u /\ MayHaveFollowed(node[j], u) /\ Missing(L, t, k, u)
    <3>1. PICK u \in Nat : t < u /\ MayHaveFollowed(node[j], u) /\ Missing(L, t, k, u)
      BY <2>5
    <3>2. MayHaveFollowed(node'[j], u)
      BY <1>1, <3>1, FollowedLater
    <3>3. Missing(M, t, k, u)
      BY <1>0, <3>1, MissingGrows
    <3> QED BY <2>2, <2>3, <3>1, <3>2, <3>3
  <2> QED BY <2>1, <2>4, <2>5
<1>4. AcksHeld(M, B)'
  BY <1>3, AppendsAcknowledges, AcksHeldMore
<1>5. LeadersAcked(M, B)'
  <2> SUFFICES ASSUME NEW e \in elected', NEW k \in Nat, Holds(M[e[2]], e[2], k)
               PROVE  <<e[1], e[2], k>> \in B
    BY DEF LeadersAcked
  <2>0. e[2] \in Nat /\ A \subseteq B
    BY DEF TypeInv, TypeOK, Term, Appends
  <2>1. CASE e[2] # T
    <3>1. M[e[2]] = L[e[2]] /\ e \in elected
      BY <2>0, <2>1 DEF LeadsOn
    <3> QED BY <2>0, <3>1 DEF AckInv, LeadersAcked
  <2>2. CASE e[2] = T
    <3>1. e[1] = i /\ M[T] = node'[i].log /\ node'[i].term = T
          /\ Len(node'[i].log) = Len(node[i].log) + 1
      BY <2>2 DEF LeadsOn
    <3>2. k \in 1..Len(node'[i].log)
      BY <2>2, <3>1 DEF Holds
    <3>3. CASE k = Len(node'[i].log)
      BY <2>2, <3>1, <3>3 DEF Appends
    <3>4. CASE k # Len(node'[i].log)
      <4>1. k \in 1..Len(node[i].log)
        BY <1>1, <3>1, <3>2, <3>4
      <4>2. node[i].log[k] = node'[i].log[k]
        BY <1>2, <4>1 DEF Extends, Agree
      <4>3. Holds(node[i].log, T, k)
        BY <2>2, <3>1, <4>1, <4>2 DEF Holds
      <4>4. Backed(L, node[i].log)
        BY DEF LogInv, LogOfTerm, GoodLog
      <4>5. Holds(L[T], T, k)
        BY <1>0, <1>1, <4>3, <4>4, HoldsBacked
      <4>6. <<i, T>> \in elected
        <5>1. L[T] # <<>>
          BY <4>5 DEF Holds
        <5> QED BY <5>1 DEF LeadsOn
      <4> QED BY <2>0, <2>2, <3>1, <4>5, <4>6 DEF AckInv, LeadersAcked
    <3> QED BY <3>3, <3>4
  <2> QED BY <2>1, <2>2
<1> QED
  BY <1>4, <1>5 DEF AckInv

-----------------------------------------------------------------------------
(* The handler of append requests *)

\* The target of m has taken the request, or refused it.
Took(L, m) ==
    LET n == node[m.target]
        new == node'[m.target] IN
    /\ n.term <= m.term /\ new.term = m.term /\ new.leader = m.leader
    /\ matchEntries(n, m.prevIndex, m.prevTerm)
    /\ Taken(n, new, m, L[m.term]) /\ Advanced(n, new, m.commitIndex)

Refused(m) ==
    LET n == node[m.target]
        new == node'[m.target] IN
    /\ new = observed(n, m.term, m.leader)
    /\ new.term = m.term => ~ matchEntries(n, m.prevIndex, m.prevTerm)

\* The answer a to m.
Answers(m, a) ==
    /\ a.req = m /\ a.term = node'[m.target].term /\ a.logSize = Len(node'[m.target].log)

LEMMA HandlerCases ==
    ASSUME TypeInv, VoteInv, NEW L, LogInv(L), NEW m \in appReqs, CutFrom(m, L[m.term]), AppendEntries(m)
    PROVE  /\ \A i \in Server \ {m.target} : node'[i] = node[i]
           /\ m \in AppReq /\ m.target \in Server /\ m.leader \in Server
           /\ \/ Took(L, m) /\ \A a \in acks' \ acks : Answers(m, a) /\ a.outcome
              \/ Refused(m) /\ \A a \in acks' \ acks : Answers(m, a) /\ ~ a.outcome
           /\ \A a \in acks' \ acks : /\ repl[m.leader] = m.term
                                      /\ m \in tracker[m.leader][m.target].inflight
<1> DEFINE j == m.target
           n == node[j]
           r == appendEntries(n, m)
           o == observed(n, m.term, m.leader)
           T == m.term
<1>1. /\ m \in AppReq /\ j \in Server /\ m.leader \in Server /\ T \in Nat
      /\ NodeOK(n) /\ Durable(n) /\ n.term \in Nat
  BY DEF TypeInv, TypeOK, AppReq, Term, NodeOK, Node, VoteInv, DurableVote, Durable
<1>2. /\ node' = [node EXCEPT ![j] = r.node] /\ ~ RequestCrashes(m)
      /\ acks' = IF repl[m.leader] = m.term /\ m \in tracker[m.leader][j].inflight
                 THEN acks \cup {r.ack} ELSE acks
  BY DEF AppendEntries
<1>3. node'[j] = r.node /\ \A i \in Server \ {j} : node'[i] = node[i]
  BY <1>1, <1>2 DEF TypeInv, TypeOK
<1>4. LedgerType(L) /\ LogOfTerm(L, L[T], T) /\ LogOfTerm(L, n.log, n.term)
  BY <1>1 DEF LogInv, LeaderLogs, LedgerType
<1>5. /\ r.ack.req = m /\ r.ack.term = o.term /\ r.ack.logSize = Len(r.node.log)
      /\ SameVote(o, r.node) /\ r.node.leader = o.leader
      /\ \/ /\ o.term = T /\ matchEntries(n, m.prevIndex, m.prevTerm) /\ r.ack.outcome = TRUE
            /\ Taken(n, r.node, m, L[T]) /\ Advanced(n, r.node, m.commitIndex)
         \/ /\ o.term # T \/ ~ matchEntries(n, m.prevIndex, m.prevTerm)
            /\ r.ack.outcome = FALSE /\ r.node = o
  <2>1. T <= m.term
    BY <1>1
  <2> QED BY <1>1, <1>4, <2>1, HandlerLog, ZenonT(30)
<1>6. r.node.term = o.term
  BY <1>5 DEF SameVote
<1>7. Answers(m, r.ack) /\ \A a \in acks' \ acks : a = r.ack
  BY <1>2, <1>3, <1>5, <1>6 DEF Answers
<1>8. o.term >= n.term
  BY <1>1, ObservedVote DEF Faithful
<1>9. CASE /\ o.term = T /\ matchEntries(n, m.prevIndex, m.prevTerm) /\ r.ack.outcome = TRUE
           /\ Taken(n, r.node, m, L[T]) /\ Advanced(n, r.node, m.commitIndex)
  <2>1. o.leader = m.leader
    BY <1>2, <1>9 DEF RequestCrashes, HeartbeatCrashes
  <2>2. n.term <= T /\ r.node.term = T /\ r.node.leader = m.leader
    BY <1>1, <1>5, <1>6, <1>8, <1>9, <2>1
  <2> HIDE DEF r, o
  <2>3. Took(L, m)
    BY <1>3, <1>9, <2>2 DEF Took
  <2> QED BY <1>1, <1>2, <1>3, <1>7, <1>9, <2>3
<1>10. CASE /\ o.term # T \/ ~ matchEntries(n, m.prevIndex, m.prevTerm)
            /\ r.ack.outcome = FALSE /\ r.node = o
  <2> HIDE DEF r
  <2>1. Refused(m)
    BY <1>3, <1>10 DEF Refused
  <2> QED BY <1>1, <1>2, <1>3, <1>7, <1>10, <2>1
<1> QED
  BY <1>5, <1>9, <1>10

\* The target acknowledges the entries of the leader's term that it now has.
Takes(A, B, m) ==
    B = A \cup {<<m.target, m.term, k>> : k \in {l \in 1..Len(node'[m.target].log) :
                                                    node'[m.target].log[l].term = m.term}}

LEMMA TakesAcknowledges ==
    ASSUME NEW L, NEW m, Took(L, m), NEW A, NEW B, Takes(A, B, m)
    PROVE  /\ Acknowledges(A, B, m.target)
           /\ \A k : Holds(node'[m.target].log, m.term, k) => <<m.target, m.term, k>> \in B
BY DEF Took, Takes, Acknowledges, Holds

LEMMA TookRetains ==
    ASSUME TypeInv, NEW L, LogInv(L), NEW m \in AppReq, m.target \in Server, CutFrom(m, L[m.term]), Took(L, m)
    PROVE  Retains(L, node[m.target].log, node'[m.target].log, m.term)
<1>1. m.term \in Nat /\ NodeOK(node[m.target]) /\ Leaders(L)
  BY LogLeaders DEF AppReq, Term, TypeInv, TypeOK, NodeOK
<1>2. LogOfTerm(L, node[m.target].log, node[m.target].term)
  BY DEF LogInv
<1>3. node[m.target].term <= m.term /\ Taken(node[m.target], node'[m.target], m, L[m.term])
  BY DEF Took
<1> QED
  BY <1>1, <1>2, <1>3, TakenRetains

LEMMA AckTook ==
    ASSUME TypeInv, TypeInv', VotesFaithful, LeaderInv', NEW L, LogInv(L), LogInv(L)',
           NEW A, AckInv(L, A), elected' = elected, NEW m \in AppReq, m.target \in Server,
           CutFrom(m, L[m.term]), Took(L, m), \A i \in Server \ {m.target} : node'[i] = node[i],
           NEW B, Takes(A, B, m)
    PROVE  AckInv(L, B)'
<1>1. node'[m.target].term = m.term /\ node'[m.target].leader = m.leader
  BY DEF Took
<1>2. node'[m.target].votedFor # Nobody
  <2>1. m.leader # Nobody
    BY NobodyAssumption DEF AppReq
  <2> QED BY <1>1, <2>1 DEF LeaderInv
<1>3. Retains(L, node[m.target].log, node'[m.target].log, node'[m.target].term)
  BY <1>1, TookRetains
<1>4. AcksHeld(L, A)'
  BY <1>2, <1>3, AcksHeldStep DEF AckInv
<1>5. Acknowledges(A, B, m.target)
  BY TakesAcknowledges
<1>6. AcksHeld(L, B)'
  BY <1>4, <1>5, AcksHeldMore
<1>7. LeadersAcked(L, B)'
  BY <1>5 DEF AckInv, LeadersAcked, Acknowledges
<1> QED
  BY <1>6, <1>7 DEF AckInv

-----------------------------------------------------------------------------
(* Claims under growing logs and new acknowledgements *)

LEMMA VotesOnClaimsGrows ==
    ASSUME NEW L, LedgerType(L), NEW M, LedgerType(M), Grow(L, M), NEW G, NEW K, VotesOnClaims(L, G, K)
    PROVE  VotesOnClaims(M, G, K)
BY ClaimGrows DEF VotesOnClaims

LEMMA VotersBehindGrows ==
    ASSUME NEW L, LedgerType(L), NEW M, LedgerType(M), Grow(L, M), NEW A, NEW G, NEW K,
           VotersBehind(L, A, G, K)
    PROVE  VotersBehind(M, A, G, K)
BY SkippedGrows DEF VotersBehind

\* A server that has voted in a later term acknowledges nothing of an earlier one.
LEMMA VotersBehindMore ==
    ASSUME TypeInv', NEW L, NEW A, NEW B, NEW G, NEW K, VotersBehind(L, A, G, K), VotesHeld(G)',
           NEW j \in Server, Acknowledges(A, B, j)
    PROVE  VotersBehind(L, B, G, K)
<1> SUFFICES ASSUME NEW v \in Server, NEW c \in Server, NEW u \in Nat, NEW t \in Nat, NEW k \in Nat,
                    v # c, <<v, u, c>> \in G, <<v, t, k>> \in B, t < u
             PROVE  Claims(K[<<c, u>>], t, k) \/ SkippedBetween(L, t, k, u)
  BY DEF VotersBehind
<1>0. node'[v].term \in Nat
  BY DEF TypeInv, TypeOK, Node, Term
<1>1. node'[v].term \in Nat /\ node'[v].term >= u
  <2>1. Bound(v, u, c)'
    BY DEF VotesHeld
  <2> QED BY <1>0, <2>1 DEF Bound
<1>2. <<v, t, k>> \in A \/ t = node'[v].term
  BY DEF Acknowledges
<1>3. <<v, t, k>> \in A
  BY <1>1, <1>2
<1> QED
  BY <1>3 DEF VotersBehind

LEMMA LeaderClaimGrows ==
    ASSUME TypeInv, NEW L, Leaders(L), NEW M, LedgerType(M), Grow(L, M), NEW G, NEW K,
           VotesOnClaims(L, G, K), LeadersClaim(L, G, K), NEW e \in elected
    PROVE  <<e[1], e[2], e[1]>> \in G /\ Justified(M, K[e], e[2], M[e[2]])
<1>1. e[1] \in Server /\ e[2] \in Nat /\ e = <<e[1], e[2]>> /\ LedgerType(L)
  BY DEF TypeInv, TypeOK, Term, Leaders
<1>2. <<e[1], e[2], e[1]>> \in G /\ Justified(L, K[e], e[2], L[e[2]])
  BY DEF LeadersClaim
<1>3. ClaimOK(L, K[<<e[1], e[2]>>], e[2])
  BY <1>1, <1>2 DEF VotesOnClaims
<1>4. /\ L[e[2]] \in Seq(Entry) /\ M[e[2]] \in Seq(Entry) /\ Extends(L[e[2]], M[e[2]])
  BY <1>1, LedgerLen DEF Grow, Extends
<1>5. ClaimOK(L, K[e], e[2])
  BY <1>1, <1>3
<1> QED
  BY <1>1, <1>2, <1>4, <1>5, JustifiedGrows

LEMMA LeaderKeepGrows ==
    ASSUME TypeInv, NEW L, LedgerType(L), NEW M, LedgerType(M), Grow(L, M), NEW A, LeadersKeep(L, A),
           NEW e \in elected, NEW t \in Nat, NEW k \in Nat, <<e[1], t, k>> \in A, t < e[2]
    PROVE  Holds(M[e[2]], t, k) \/ SkippedBetween(M, t, k, e[2])
<1>1. e[2] \in Nat
  BY DEF TypeInv, TypeOK, Term
<1>2. Holds(L[e[2]], t, k) \/ SkippedBetween(L, t, k, e[2])
  BY DEF LeadersKeep
<1> QED
  BY <1>1, <1>2, GrowHolds, SkippedGrows

LEMMA LeadersKeepMore ==
    ASSUME TypeInv', ElectedInv', NEW L, NEW A, NEW B, LeadersKeep(L, A)',
           NEW j \in Server, Acknowledges(A, B, j)
    PROVE  LeadersKeep(L, B)'
<1> SUFFICES ASSUME NEW e \in elected', NEW t \in Nat, NEW k \in Nat, <<e[1], t, k>> \in B, t < e[2]
             PROVE  Holds(L[e[2]], t, k) \/ SkippedBetween(L, t, k, e[2])
  BY DEF LeadersKeep
<1>1. e[1] \in Server /\ e[2] \in Nat /\ node'[e[1]].term \in Nat
  BY DEF TypeInv, TypeOK, Node, Term
<1>2. node'[e[1]].term >= e[2]
  BY <1>1 DEF ElectedInv, Bound
<1>3. <<e[1], t, k>> \in A \/ t = node'[e[1]].term
  BY <1>1 DEF Acknowledges
<1>4. <<e[1], t, k>> \in A
  BY <1>1, <1>2, <1>3
<1> QED
  BY <1>4 DEF LeadersKeep

-----------------------------------------------------------------------------
(* Directors *)

\* m has a leader if n has one in the same term.
NotReset(n, m) == m.term = n.term /\ n.leader # Nobody => m.leader # Nobody

\* What a step that begins no election does to the director of i.
DirectorKeeps(i) ==
    \/ director'[i].phase = "idle"
    \/ director'[i] = director[i] /\ NotReset(node[i], node'[i])
    \/ director'[i] = Prepared(i) /\ node'[i] = node[i]

LEMMA OpenBefore ==
    ASSUME NEW n, NEW m, n.term \in Nat, m.term \in Nat, Faithful(n, m), NotReset(n, m),
           NEW u \in Nat, Open(m, u)
    PROVE  Open(n, u)
BY DEF Faithful, NotReset, Open

LEMMA DirectorStep ==
    ASSUME TypeInv, TypeInv', VotesFaithful, NEW L, LogInv(L), NEW M, LedgerType(M), Grow(L, M),
           LogInv(M)', NEW K, NEW i \in Server, DirectorClaims(L, K, i), DirectorKeeps(i),
           Extends(node[i].log, node'[i].log)
    PROVE  DirectorClaims(M, K, i)'
<1> DEFINE d == director[i]
           c == <<d.lastIndex, d.lastTerm>>
<1>0. /\ Leaders(L) /\ LedgerType(L) /\ Faithful(node[i], node'[i])
      /\ node[i].term \in Nat /\ node'[i].term \in Nat /\ d.term \in Nat
      /\ node[i].log \in Seq(Entry) /\ node'[i].log \in Seq(Entry)
      /\ Len(node[i].log) \in Nat /\ Len(node[i].log) > 0
  <2>1. Leaders(L) /\ LedgerType(L) /\ Faithful(node[i], node'[i])
    BY LogLeaders DEF Leaders, VotesFaithful
  <2>2. /\ node[i].term \in Nat /\ node[i].log \in Seq(Entry)
        /\ Len(node[i].log) \in Nat /\ Len(node[i].log) > 0
    BY DEF TypeInv, TypeOK, Node, Term
  <2>3. node'[i].term \in Nat /\ node'[i].log \in Seq(Entry)
    BY DEF TypeInv, TypeOK, Node, Term
  <2>4. d.term \in Nat
    BY DEF TypeInv, TypeOK, Director, Term
  <2> QED BY <2>1, <2>2, <2>3, <2>4
<1>1. CASE director'[i].phase = "idle"
  BY <1>1 DEF DirectorClaims
<1>2. CASE director'[i] = director[i] /\ NotReset(node[i], node'[i])
  <2>1. d.phase # "idle" => ClaimOK(M, c, d.term)
    BY <1>0, ClaimGrows DEF DirectorClaims
  <2>2. ASSUME d.phase # "idle", Open(node'[i], d.term)
        PROVE  Justified(M, c, d.term, node'[i].log)
    <3>1. Open(node[i], d.term)
      BY <1>0, <1>2, <2>2, OpenBefore
    <3>2. ClaimOK(L, c, d.term) /\ Justified(L, c, d.term, node[i].log)
      BY <2>2, <3>1 DEF DirectorClaims
    <3> QED BY <1>0, <3>2, JustifiedGrows
  <2>3. d.phase = "electing" => K[<<i, d.term>>] = c
    BY DEF DirectorClaims
  <2> QED BY <1>2, <2>1, <2>2, <2>3 DEF DirectorClaims
<1>3. CASE director'[i] = Prepared(i) /\ node'[i] = node[i]
  <2> DEFINE b == <<director'[i].lastIndex, director'[i].lastTerm>>
  <2>1. /\ director'[i].term = node[i].term + 1 /\ director'[i].phase = "prepared"
        /\ b[1] = Len(node[i].log) - 1 /\ b[2] = node[i].log[Len(node[i].log)].term
    BY <1>0, <1>3 DEF Prepared, LogSize, LastTerm, TermAt
  <2>2. LogOfTerm(L, node[i].log, node[i].term)
    BY DEF LogInv
  <2>3. director'[i].term \in Nat /\ node[i].term < director'[i].term
    BY <1>0, <2>1
  <2>4. ClaimOK(L, b, director'[i].term) /\ Justified(L, b, director'[i].term, node[i].log)
    <3> HIDE DEF b
    <3> QED BY <1>0, <2>1, <2>2, <2>3, FreshClaim
  <2>5. ClaimOK(M, b, director'[i].term) /\ Justified(M, b, director'[i].term, node'[i].log)
    <3> HIDE DEF b
    <3> QED BY <1>0, <2>3, <2>4, ClaimGrows, JustifiedGrows
  <2> QED BY <2>1, <2>5 DEF DirectorClaims
<1> QED
  BY <1>1, <1>2, <1>3 DEF DirectorKeeps

LEMMA ItselfGrows ==
    ASSUME NEW L, LedgerType(L)
    PROVE  Grow(L, L)
<1>1. \A t \in Nat : Len(L[t]) \in Nat
  BY LedgerLen
<1> QED
  BY <1>1 DEF Grow, Agree

\* Steps that begin no election, cast no vote and leave the logs alone.
LEMMA ClaimQuiet ==
    ASSUME TypeInv, TypeInv', VotesFaithful, NEW L, LogInv(L), LogInv(L)', NEW A, NEW G, NEW K,
           ClaimInv(L, A, G, K), elected' = elected, voteReqs' \subseteq voteReqs,
           \A i \in Server : node'[i].log = node[i].log, \A i \in Server : DirectorKeeps(i)
    PROVE  ClaimInv(L, A, G, K)'
<1>1. \A i \in Server : DirectorClaims(L, K, i)'
  <2> TAKE i \in Server
  <2>1. LedgerType(L) /\ Grow(L, L)
    BY ItselfGrows, LogLeaders DEF Leaders
  <2>2. node[i].log \in Seq(Entry) /\ Len(node[i].log) \in Nat
    BY DEF TypeInv, TypeOK, Node
  <2>3. Extends(node[i].log, node'[i].log)
    BY <2>2 DEF Extends, Agree
  <2> QED BY <2>1, <2>3, DirectorStep DEF ClaimInv
<1>2. RequestsClaim(G, K)'
  BY DEF ClaimInv, RequestsClaim
<1>3. LeadersClaim(L, G, K)' /\ LeadersKeep(L, A)'
  BY DEF ClaimInv, LeadersClaim, LeadersKeep
<1> QED
  BY <1>1, <1>2, <1>3 DEF ClaimInv

-----------------------------------------------------------------------------
(* Claims of leaders that append *)

\* What a server that is being elected claimed, it has.
LEMMA WinnerClaims ==
    ASSUME TypeInv, TypeInv', NEW L, LogInv(L), NEW A, NEW G, Ledger(G), NEW K, ClaimInv(L, A, G, K),
           NEW i \in Server, Wins(i), NEW M, LeadsOn(L, M, i, node[i].term)
    PROVE  LET T == node[i].term IN
           <<i, T, i>> \in G /\ Justified(M, K[<<i, T>>], T, M[T])
<1> DEFINE T == node[i].term
           c == <<director[i].lastIndex, director[i].lastTerm>>
<1>1. /\ director[i].phase = "electing" /\ director[i].term = T /\ Open(node[i], T)
  BY DEF Wins, Open
<1>2. <<i, T, i>> \in G
  BY <1>1 DEF Ledger, CandidateVoted
<1>3. DirectorClaims(L, K, i)
  BY DEF ClaimInv
<1>4. ClaimOK(L, c, T) /\ Justified(L, c, T, node[i].log) /\ K[<<i, T>>] = c
  BY <1>1, <1>3 DEF DirectorClaims
<1>5. /\ Leaders(L) /\ LedgerType(M) /\ Grow(L, M) /\ T \in Nat /\ M[T] = node'[i].log
      /\ Extends(node[i].log, node'[i].log)
  BY LogLeaders DEF LeadsOn
<1>6. node[i].log \in Seq(Entry) /\ node'[i].log \in Seq(Entry)
  BY DEF TypeInv, TypeOK, Node
<1>7. Justified(M, c, T, node'[i].log)
  <2> HIDE DEF c, T
  <2> QED BY <1>4, <1>5, <1>6, JustifiedGrows
<1> QED
  BY <1>2, <1>4, <1>5, <1>7

\* A server that is being elected has what it acknowledged.
LEMMA WinnerKeeps ==
    ASSUME TypeInv, TypeInv', NEW L, LogInv(L), NEW A, AcksHeld(L, A), NEW i \in Server,
           NEW M, LeadsOn(L, M, i, node[i].term), L[node[i].term] = <<>>,
           NEW t \in Nat, NEW k \in Nat, <<i, t, k>> \in A, t < node[i].term
    PROVE  LET T == node[i].term IN Holds(M[T], t, k) \/ SkippedBetween(M, t, k, T)
<1> DEFINE T == node[i].term
<1>1. /\ LedgerType(L) /\ LedgerType(M) /\ Grow(L, M) /\ T \in Nat /\ M[T] = node'[i].log
      /\ Extends(node[i].log, node'[i].log)
  BY LogLeaders DEF LeadsOn, Leaders
<1>2. node[i].log \in Seq(Entry) /\ node'[i].log \in Seq(Entry)
  BY DEF TypeInv, TypeOK, Node
<1>3. \/ Holds(node[i].log, t, k)
      \/ \E u \in Nat : t < u /\ MayHaveFollowed(node[i], u) /\ Missing(L, t, k, u)
  BY DEF AcksHeld
<1>4. CASE Holds(node[i].log, t, k)
  BY <1>1, <1>2, <1>4, ExtendsHolds
<1>5. CASE \E u \in Nat : t < u /\ MayHaveFollowed(node[i], u) /\ Missing(L, t, k, u)
  <2>1. PICK u \in Nat : t < u /\ MayHaveFollowed(node[i], u) /\ Missing(L, t, k, u)
    BY <1>5
  <2>2. u <= T /\ u # T
    BY <1>1, <2>1 DEF MayHaveFollowed, Missing
  <2>3. SkippedBetween(L, t, k, T)
    BY <1>1, <2>1, <2>2 DEF SkippedBetween
  <2> QED BY <1>1, <2>3, SkippedGrows
<1> QED
  BY <1>3, <1>4, <1>5

LEMMA ClaimLeads ==
    ASSUME TypeInv, TypeInv', VotesFaithful, ElectedInv', NEW L, LogInv(L), NEW A, AckInv(L, A),
           NEW G, Ledger(G), Ledger(G)', NEW K, ClaimInv(L, A, G, K), voteReqs' \subseteq voteReqs,
           \A j \in Server : DirectorKeeps(j),
           NEW M, LogInv(M)', NEW i \in Server, LeadsOn(L, M, i, node[i].term),
           elected' = elected \/ (Wins(i) /\ L[node[i].term] = <<>>), NEW B, Appends(A, B, i)
    PROVE  ClaimInv(M, B, G, K)'
<1> DEFINE T == node[i].term
<1>0. /\ Leaders(L) /\ LedgerType(L) /\ LedgerType(M) /\ Grow(L, M) /\ T \in Nat
      /\ \A e \in elected' : e \in elected \/ e = <<i, T>>
      /\ \A j \in Server \ {i} : node'[j] = node[j]
      /\ Extends(node[i].log, node'[i].log)
  BY LogLeaders DEF LeadsOn, Leaders
<1>1. VotesOnClaims(M, G, K) /\ VotersBehind(M, A, G, K)
  BY <1>0, VotesOnClaimsGrows, VotersBehindGrows DEF ClaimInv
<1>2. Acknowledges(A, B, i)
  BY AppendsAcknowledges
<1>3. VotersBehind(M, B, G, K)
  <2>1. VotesHeld(G)'
    BY DEF Ledger
  <2> QED BY <1>1, <1>2, <2>1, VotersBehindMore
<1>4. RequestsClaim(G, K)'
  BY DEF ClaimInv, RequestsClaim
<1>5. \A j \in Server : DirectorClaims(M, K, j)'
  <2> TAKE j \in Server
  <2>1. node[j].log \in Seq(Entry) /\ Len(node[j].log) \in Nat
    BY DEF TypeInv, TypeOK, Node
  <2>2. Extends(node[j].log, node'[j].log)
    <3>1. CASE j = i
      BY <1>0, <3>1
    <3>2. CASE j # i
      BY <1>0, <2>1, <3>2 DEF Extends, Agree
    <3> QED BY <3>1, <3>2
  <2>3. DirectorClaims(L, K, j) /\ DirectorKeeps(j)
    BY DEF ClaimInv
  <2> QED BY <1>0, <2>2, <2>3, DirectorStep
<1>6. LeadersClaim(M, G, K)'
  <2> SUFFICES ASSUME NEW e \in elected'
               PROVE  <<e[1], e[2], e[1]>> \in G /\ Justified(M, K[e], e[2], M[e[2]])
    BY DEF LeadersClaim
  <2>1. CASE e \in elected
    BY <1>0, <2>1, LeaderClaimGrows DEF ClaimInv
  <2>2. CASE e \notin elected
    <3>1. e = <<i, T>> /\ e[1] = i /\ e[2] = T /\ Wins(i)
      BY <1>0, <2>2
    <3>2. <<i, T, i>> \in G /\ Justified(M, K[<<i, T>>], T, M[T])
      BY <3>1, WinnerClaims
    <3> QED BY <3>1, <3>2
  <2> QED BY <2>1, <2>2
<1>7. LeadersKeep(M, A)'
  <2> SUFFICES ASSUME NEW e \in elected', NEW t \in Nat, NEW k \in Nat, <<e[1], t, k>> \in A, t < e[2]
               PROVE  Holds(M[e[2]], t, k) \/ SkippedBetween(M, t, k, e[2])
    BY DEF LeadersKeep
  <2>1. CASE e \in elected
    BY <1>0, <2>1, LeaderKeepGrows DEF ClaimInv
  <2>2. CASE e \notin elected
    <3>1. e[1] = i /\ e[2] = T /\ L[T] = <<>> /\ AcksHeld(L, A)
      BY <1>0, <2>2 DEF AckInv
    <3>2. Holds(M[T], t, k) \/ SkippedBetween(M, t, k, T)
      BY <3>1, WinnerKeeps
    <3> QED BY <3>1, <3>2
  <2> QED BY <2>1, <2>2
<1>8. LeadersKeep(M, B)'
  BY <1>2, <1>7, LeadersKeepMore
<1> QED
  BY <1>1, <1>3, <1>4, <1>5, <1>6, <1>8 DEF ClaimInv

-----------------------------------------------------------------------------
(* Claims of servers that follow *)

LEMMA DirectorFollows ==
    ASSUME TypeInv, TypeInv', NEW L, LogInv(L), NEW K, NEW m \in AppReq, NEW j \in Server, m.target = j,
           CutFrom(m, L[m.term]), Took(L, m), DirectorClaims(L, K, j), director' = director
    PROVE  DirectorClaims(L, K, j)'
<1> DEFINE d == director[j]
           c == <<d.lastIndex, d.lastTerm>>
           T == m.term
<1>1. /\ node[j].term <= T /\ node'[j].term = T /\ node'[j].leader # Nobody
      /\ T \in Nat /\ node[j].term \in Nat /\ d.term \in Nat
  <2>1. m.leader # Nobody /\ T \in Nat
    BY NobodyAssumption DEF AppReq, Term
  <2>2. node[j].term \in Nat /\ d.term \in Nat
    BY DEF TypeInv, TypeOK, Node, Term, Director
  <2> QED BY <2>1, <2>2 DEF Took
<1>2. Retains(L, node[j].log, node'[j].log, T)
  BY TookRetains
<1>3. ASSUME d.phase # "idle", Open(node'[j], d.term)
      PROVE  Justified(L, c, d.term, node'[j].log)
  <2>1. T < d.term /\ Open(node[j], d.term)
    BY <1>1, <1>3 DEF Open
  <2>2. Justified(L, c, d.term, node[j].log)
    BY <1>3, <2>1 DEF DirectorClaims
  <2>3. ASSUME NEW t \in Nat, NEW k \in Nat, t < d.term, Holds(L[t], t, k), Claims(c, t, k)
        PROVE  Holds(node'[j].log, t, k) \/ SkippedBetween(L, t, k, d.term)
    <3>1. Holds(node[j].log, t, k) \/ SkippedBetween(L, t, k, d.term)
      BY <2>2, <2>3 DEF Justified
    <3>2. Holds(node[j].log, t, k) =>
              Holds(node'[j].log, t, k) \/ (t < T /\ Missing(L, t, k, T))
      BY <1>2 DEF Retains
    <3>3. t < T /\ Missing(L, t, k, T) => SkippedBetween(L, t, k, d.term)
      BY <1>1, <2>1 DEF SkippedBetween
    <3> QED BY <3>1, <3>2, <3>3
  <2> HIDE DEF c
  <2> QED BY <2>3 DEF Justified
<1> QED
  BY <1>3 DEF DirectorClaims

LEMMA ClaimTook ==
    ASSUME TypeInv, TypeInv', VotesFaithful, ElectedInv', NEW L, LogInv(L), LogInv(L)',
           NEW A, NEW G, Ledger(G)', NEW K, ClaimInv(L, A, G, K), voteReqs' = voteReqs,
           director' = director, elected' = elected, NEW m \in AppReq, m.target \in Server,
           CutFrom(m, L[m.term]), Took(L, m), \A i \in Server \ {m.target} : node'[i] = node[i],
           NEW B, Takes(A, B, m)
    PROVE  ClaimInv(L, B, G, K)'
<1>1. Acknowledges(A, B, m.target)
  BY TakesAcknowledges
<1>2. VotersBehind(L, B, G, K)
  <2>1. VotesHeld(G)'
    BY DEF Ledger
  <2> QED BY <1>1, <2>1, VotersBehindMore DEF ClaimInv
<1>3. RequestsClaim(G, K)' /\ LeadersClaim(L, G, K)' /\ LeadersKeep(L, A)'
  BY DEF ClaimInv, RequestsClaim, LeadersClaim, LeadersKeep
<1>4. LeadersKeep(L, B)'
  BY <1>1, <1>3, LeadersKeepMore
<1>5. \A j \in Server : DirectorClaims(L, K, j)'
  <2> TAKE j \in Server
  <2>0. DirectorClaims(L, K, j)
    BY DEF ClaimInv
  <2>1. CASE j = m.target
    BY <2>0, <2>1, DirectorFollows
  <2>2. CASE j # m.target
    <3>1. node'[j] = node[j] /\ director'[j] = director[j]
      BY <2>2
    <3> QED BY <2>0, <3>1 DEF DirectorClaims
  <2> QED BY <2>1, <2>2
<1> QED
  BY <1>2, <1>3, <1>4, <1>5 DEF ClaimInv

-----------------------------------------------------------------------------
(* Claims of candidates *)

\* The request that server i runs with when it begins an election now.
Candidacy(i) == IF "prevote" \in Windows THEN director[i] ELSE Prepared(i)

\* J is K with the claim of the election that i begins now.
Files(K, J, i) ==
    LET d == Candidacy(i) IN
    J = [x \in Server \X Nat |->
            IF x = <<i, d.term>> THEN <<d.lastIndex, d.lastTerm>> ELSE K[x]]

\* What server i claims when it begins an election, it has; and nobody has voted
\* for it in that term.
LEMMA BeginClaims ==
    ASSUME TypeInv, VoteInv, NEW L, LogInv(L), NEW A, NEW G, Ledger(G), NEW K, ClaimInv(L, A, G, K),
           NEW i \in Server, BeginElection(i)
    PROVE  LET d == Candidacy(i)
               c == <<d.lastIndex, d.lastTerm>> IN
           /\ d.term \in Nat /\ ClaimOK(L, c, d.term) /\ Justified(L, c, d.term, node[i].log)
           /\ node'[i].term = d.term /\ node'[i].log = node[i].log
           /\ \A j \in Server \ {i} : node'[j] = node[j]
           /\ \A v \in Server : <<v, d.term, i>> \notin G
<1> DEFINE d == Candidacy(i)
           c == <<d.lastIndex, d.lastTerm>>
           n == observed(node[i], d.term, Nobody)
<1>1. /\ node' = [node EXCEPT ![i] = becomeCandidate(n, i)] /\ CanBecomeCandidate(n, d.term)
      /\ d.phase = "prepared"
  BY DEF BeginElection, Candidacy
<1>2. /\ NodeOK(node[i]) /\ Durable(node[i]) /\ node[i].term \in Nat /\ node[i].log \in Seq(Entry)
      /\ Len(node[i].log) \in Nat /\ Len(node[i].log) > 0
  BY DEF TypeInv, TypeOK, NodeOK, Node, Term, VoteInv, DurableVote, Durable
<1>3. d.term \in Nat
  <2>1. director[i].term \in Nat
    BY DEF TypeInv, TypeOK, Director, Term
  <2> QED BY <1>2, <2>1 DEF Candidacy, Prepared
<1>4. NodeOK(n) /\ Durable(n) /\ Faithful(node[i], n) /\ Calm(node[i], n)
  <2> HIDE DEF d
  <2>1. Nobody \in Server \cup {Nobody} /\ d.term \in Term
    BY <1>3 DEF Term
  <2> QED BY <1>2, <1>3, <2>1, ObservedType, ObservedVote, ObservedCalm
<1>5. n.term = d.term /\ n.leader = Nobody /\ n.votedFor = Nobody
  BY <1>1 DEF CanBecomeCandidate
<1>6. /\ node'[i] = becomeCandidate(n, i) /\ \A j \in Server \ {i} : node'[j] = node[j]
  BY <1>1 DEF TypeInv, TypeOK
<1>7. node'[i].term = d.term /\ node'[i].log = node[i].log
  <2>1. becomeCandidate(n, i).term = n.term
    BY <1>4, <1>5, CandidateVote
  <2>2. becomeCandidate(n, i).log = n.log
    BY <1>4, VoteCalm DEF Calm, Term
  <2> QED BY <1>4, <1>5, <1>6, <2>1, <2>2 DEF Calm
<1>8. Open(node[i], d.term)
  <2> HIDE DEF d
  <2>1. \/ n = node[i]
        \/ n.leader = Nobody /\ n.term = d.term /\ (d.term > node[i].term \/ node[i].leader = Nobody)
    BY <1>2, <1>3, ObservedLeader
  <2>2. node[i].term <= d.term
    BY <1>2, <1>3, <1>4, <1>5 DEF Faithful
  <2> QED BY <1>2, <1>3, <1>5, <2>1, <2>2 DEF Open
<1>9. ClaimOK(L, c, d.term) /\ Justified(L, c, d.term, node[i].log)
  <2>1. CASE "prevote" \in Windows
    <3>1. d = director[i] /\ d.phase # "idle"
      BY <1>1, <2>1 DEF Candidacy
    <3>2. DirectorClaims(L, K, i)
      BY DEF ClaimInv
    <3> HIDE DEF d
    <3> QED BY <1>8, <3>1, <3>2 DEF DirectorClaims
  <2>2. CASE "prevote" \notin Windows
    <3>1. /\ d.term = node[i].term + 1
          /\ c[1] = Len(node[i].log) - 1 /\ c[2] = node[i].log[Len(node[i].log)].term
      BY <1>2, <2>2 DEF Candidacy, Prepared, LogSize, LastTerm, TermAt
    <3>2. Leaders(L) /\ LogOfTerm(L, node[i].log, node[i].term)
      BY LogLeaders DEF LogInv
    <3> HIDE DEF d, c
    <3> QED BY <1>2, <1>3, <3>1, <3>2, FreshClaim
  <2> QED BY <2>1, <2>2
<1>10. \A v \in Server : <<v, d.term, i>> \notin G
  <2> HIDE DEF d
  <2> SUFFICES ASSUME NEW v \in Server, <<v, d.term, i>> \in G PROVE FALSE
    OBVIOUS
  <2>1. <<i, d.term, i>> \in G
    BY <1>3 DEF ClaimInv, VotesOnClaims
  <2>2. Bound(i, d.term, i)
    BY <1>3, <2>1 DEF Ledger, VotesHeld
  <2>3. node[i].term <= d.term
    BY <1>2, <1>3, <1>4, <1>5 DEF Faithful
  <2>4. node[i].term = d.term /\ node[i].votedFor = i
    BY <1>2, <1>3, <2>2, <2>3 DEF Bound
  <2> QED BY <1>4, <1>5, <2>4, NobodyAssumption DEF Faithful
<1> QED
  BY <1>3, <1>6, <1>7, <1>9, <1>10

LEMMA ClaimBegin ==
    ASSUME TypeInv, VoteInv, NEW L, LogInv(L), NEW A, NEW G, Ledger(G), NEW K, ClaimInv(L, A, G, K),
           NEW i \in Server, BeginElection(i), NEW H, Enters(G, H, i, i), NEW J, Files(K, J, i)
    PROVE  ClaimInv(L, A, H, J)'
<1> DEFINE d == Candidacy(i)
           c == <<d.lastIndex, d.lastTerm>>
<1>1. /\ d.term \in Nat /\ ClaimOK(L, c, d.term) /\ Justified(L, c, d.term, node[i].log)
      /\ node'[i].term = d.term /\ node'[i].log = node[i].log
      /\ \A j \in Server \ {i} : node'[j] = node[j]
      /\ \A v \in Server : <<v, d.term, i>> \notin G
  BY BeginClaims
<1>2. H = G \cup {<<i, d.term, i>>}
  BY <1>1 DEF Enters
<1>3. J[<<i, d.term>>] = c
  BY <1>1 DEF Files
<1>4. \A x \in Server \X Nat : x # <<i, d.term>> => J[x] = K[x]
  BY DEF Files
<1>5. director' = [director EXCEPT ![i] = [d EXCEPT !.phase = "electing"]] /\ elected' = elected
  BY DEF BeginElection, Candidacy
<1>6. voteReqs' = voteReqs \cup
             {[term |-> d.term, candidate |-> i, to |-> j,
               lastIndex |-> d.lastIndex, lastTerm |-> d.lastTerm] : j \in Server \ {i}}
  BY DEF BeginElection, Candidacy
<1>7. /\ director'[i].phase = "electing" /\ director'[i].term = d.term
      /\ director'[i].lastIndex = d.lastIndex /\ director'[i].lastTerm = d.lastTerm
      /\ \A j \in Server \ {i} : director'[j] = director[j]
  <2>1. d \in Director
    <3>1. director[i] \in Director
      BY DEF TypeInv, TypeOK
    <3>2. Prepared(i) \in Director
      BY PreparedType
    <3> QED BY <3>1, <3>2 DEF Candidacy
  <2> HIDE DEF d
  <2> QED BY <1>5, <2>1 DEF TypeInv, TypeOK, Director
<1> HIDE DEF d
\* The claims that votes were cast on are the same as before.
<1>8. \A v, e \in Server, u \in Nat : <<v, u, e>> \in G => J[<<e, u>>] = K[<<e, u>>]
  <2> SUFFICES ASSUME NEW v \in Server, NEW e \in Server, NEW u \in Nat, <<v, u, e>> \in G
               PROVE  <<e, u>> # <<i, d.term>>
    BY <1>4
  <2> QED BY <1>1
<1>9. VotesOnClaims(L, H, J)
  <2> SUFFICES ASSUME NEW v \in Server, NEW e \in Server, NEW u \in Nat, <<v, u, e>> \in H
               PROVE  <<e, u, e>> \in H /\ ClaimOK(L, J[<<e, u>>], u)
    BY DEF VotesOnClaims
  <2>1. CASE <<v, u, e>> \in G
    BY <1>2, <1>8, <2>1 DEF ClaimInv, VotesOnClaims
  <2>2. CASE <<v, u, e>> = <<i, d.term, i>>
    <3>1. u = d.term /\ e = i
      BY <2>2
    <3> QED BY <1>1, <1>2, <1>3, <3>1
  <2> QED BY <1>2, <2>1, <2>2
<1>10. RequestsClaim(H, J)'
  <2> SUFFICES ASSUME NEW q \in voteReqs'
               PROVE  /\ <<q.candidate, q.term, q.candidate>> \in H
                      /\ J[<<q.candidate, q.term>>] = <<q.lastIndex, q.lastTerm>>
    BY DEF RequestsClaim
  <2>1. CASE q \in voteReqs
    <3>1. /\ <<q.candidate, q.term, q.candidate>> \in G
          /\ K[<<q.candidate, q.term>>] = <<q.lastIndex, q.lastTerm>>
      BY <2>1 DEF ClaimInv, RequestsClaim
    <3>2. q.candidate \in Server /\ q.term \in Nat
      BY <2>1 DEF TypeInv, TypeOK, VoteReq, Term
    <3> QED BY <1>2, <1>8, <3>1, <3>2
  <2>2. CASE q \notin voteReqs
    <3>1. /\ q.candidate = i /\ q.term = d.term
          /\ q.lastIndex = d.lastIndex /\ q.lastTerm = d.lastTerm
      BY <1>6, <2>2
    <3> QED BY <1>2, <1>3, <3>1
  <2> QED BY <2>1, <2>2
<1>11. \A j \in Server : DirectorClaims(L, J, j)'
  <2> TAKE j \in Server
  <2>1. CASE j = i
    BY <1>1, <1>3, <1>7, <2>1 DEF DirectorClaims
  <2>2. CASE j # i
    <3>1. DirectorClaims(L, K, j) /\ director'[j] = director[j] /\ node'[j] = node[j]
      BY <1>1, <1>7, <2>2 DEF ClaimInv
    <3>2. director[j].term \in Nat
      BY DEF TypeInv, TypeOK, Director, Term
    <3>3. J[<<j, director[j].term>>] = K[<<j, director[j].term>>]
      BY <1>4, <2>2, <3>2
    <3> QED BY <3>1, <3>3 DEF DirectorClaims
  <2> QED BY <2>1, <2>2
<1>12. VotersBehind(L, A, H, J)
  <2> SUFFICES ASSUME NEW v \in Server, NEW e \in Server, NEW u \in Nat, NEW t \in Nat, NEW k \in Nat,
                      v # e, <<v, u, e>> \in H, <<v, t, k>> \in A, t < u
               PROVE  Claims(J[<<e, u>>], t, k) \/ SkippedBetween(L, t, k, u)
    BY DEF VotersBehind
  <2>1. <<v, u, e>> \in G
    BY <1>2
  <2>2. J[<<e, u>>] = K[<<e, u>>]
    BY <1>8, <2>1
  <2> QED BY <2>1, <2>2 DEF ClaimInv, VotersBehind
<1>13. LeadersClaim(L, H, J)'
  <2> SUFFICES ASSUME NEW e \in elected
               PROVE  <<e[1], e[2], e[1]>> \in H /\ Justified(L, J[e], e[2], L[e[2]])
    BY <1>5 DEF LeadersClaim
  <2>1. <<e[1], e[2], e[1]>> \in G /\ Justified(L, K[e], e[2], L[e[2]])
    BY DEF ClaimInv, LeadersClaim
  <2>2. e[1] \in Server /\ e[2] \in Nat /\ e = <<e[1], e[2]>>
    BY DEF TypeInv, TypeOK, Term
  <2>3. J[e] = K[e]
    BY <1>8, <2>1, <2>2
  <2> QED BY <1>2, <2>1, <2>3
<1>14. LeadersKeep(L, A)'
  BY <1>5 DEF ClaimInv, LeadersKeep
<1> QED
  BY <1>9, <1>10, <1>11, <1>12, <1>13, <1>14 DEF ClaimInv

-----------------------------------------------------------------------------
(* Votes *)

\* What a delivered vote request finds and leaves.
LEMMA VoteCases ==
    ASSUME TypeInv, VoteInv, NEW q \in voteReqs, RequestVote(q)
    PROVE  LET j == q.to IN
           /\ q \in VoteReq /\ j \in Server /\ q.term \in Nat /\ q.candidate \in Server
           /\ \A i \in Server \ {j} : node'[i] = node[i]
           /\ node'[j].log = node[j].log /\ NotReset(node[j], node'[j])
           /\ Granted(q) => /\ node'[j].term = q.term /\ node[j].term <= q.term
                            /\ node[j].term = q.term => node[j].votedFor = Nobody
                            /\ UpToDate(node[j], q)
<1> DEFINE j == q.to
           n == observed(node[j], q.term, Nobody)
<1>1. q \in VoteReq /\ j \in Server /\ q.term \in Nat /\ q.candidate \in Server
  BY DEF TypeInv, TypeOK, VoteReq, Term
<1>2. NodeOK(node[j]) /\ Durable(node[j]) /\ node[j].term \in Nat
  BY <1>1 DEF TypeInv, TypeOK, NodeOK, Node, Term, VoteInv, DurableVote, Durable
<1>3. /\ NodeOK(n) /\ Durable(n) /\ Faithful(node[j], n) /\ n.log = node[j].log
  <2>1. Nobody \in Server \cup {Nobody} /\ q.term \in Term
    BY <1>1 DEF Term
  <2> QED BY <1>1, <1>2, <2>1, ObservedType, ObservedVote
<1>4. NotReset(node[j], n)
  <2>1. \/ n = node[j]
        \/ n.term = q.term /\ (q.term > node[j].term \/ node[j].leader = Nobody)
    BY <1>1, <1>2, ObservedLeader
  <2> QED BY <1>1, <1>2, <2>1 DEF NotReset
<1>5. /\ node' = [node EXCEPT ![j] = IF Granted(q) THEN grantVote(n, q.candidate) ELSE n]
  BY DEF RequestVote, Granted
<1>6. /\ node'[j] = IF Granted(q) THEN grantVote(n, q.candidate) ELSE n
      /\ \A i \in Server \ {j} : node'[i] = node[i]
  BY <1>1, <1>5 DEF TypeInv, TypeOK
<1>7. CASE ~ Granted(q)
  BY <1>1, <1>3, <1>4, <1>6, <1>7
<1>8. CASE Granted(q)
  <2>1. /\ n.term = q.term /\ n.votedFor = Nobody /\ UpToDate(n, q)
    BY <1>8 DEF Granted, VoteOn, CanGrantVote
  <2>2. /\ grantVote(n, q.candidate).term = n.term /\ grantVote(n, q.candidate).log = n.log
    BY <1>1, <1>3, <2>1, CastVote, VoteCalm DEF Calm, Term
  <2>3. grantVote(n, q.candidate).leader = n.leader
    BY <1>3 DEF grantVote, updateJournal, NodeOK, Node
  <2>4. node[j].term <= q.term
    BY <1>1, <1>2, <1>3, <2>1 DEF Faithful
  <2>5. node[j].term = q.term => node[j].votedFor = Nobody
    BY <1>3, <2>1 DEF Faithful
  <2>6. UpToDate(node[j], q)
    BY <1>3, <2>1 DEF UpToDate, LastTerm, LogSize, TermAt
  <2>7. NotReset(node[j], node'[j])
    BY <1>4, <1>6, <1>8, <2>2, <2>3 DEF NotReset
  <2> HIDE DEF n
  <2> QED BY <1>1, <1>3, <1>6, <1>8, <2>1, <2>2, <2>4, <2>5, <2>6, <2>7
<1> QED
  BY <1>7, <1>8

\* A log that a voter takes to be up to date claims all that the voter holds.
LEMMA UpToDateClaims ==
    ASSUME NEW n, NodeOK(n), Ordered(n.log), NEW q \in VoteReq, UpToDate(n, q),
           NEW t \in Nat, NEW k \in Nat, Holds(n.log, t, k)
    PROVE  Claims(<<q.lastIndex, q.lastTerm>>, t, k)
<1>1. n.log \in Seq(Entry) /\ Len(n.log) \in Nat /\ k \in 1..Len(n.log) /\ n.log[k].term = t
  BY DEF NodeOK, Node, Holds
<1>2. PICK p \in Nat : p = Len(n.log) /\ p \in 1..Len(n.log) /\ k <= p
  BY <1>1
<1>3. PICK z \in Nat : z = n.log[p].term
  BY <1>1, <1>2, EntryType
<1>4. t <= z
  BY <1>1, <1>2, <1>3 DEF Ordered
<1>5. q.lastTerm > z \/ (q.lastTerm = z /\ q.lastIndex >= p - 1)
  <2>1. (Len(n.log) - 1) + 1 = Len(n.log)
    BY <1>1
  <2> QED BY <1>2, <1>3, <2>1 DEF UpToDate, LastTerm, LogSize, TermAt
<1>6. q.lastTerm \in Nat /\ q.lastIndex \in Nat
  BY DEF VoteReq, Term
<1>7. q.lastTerm > t \/ (q.lastTerm = t /\ q.lastIndex + 1 >= k)
  BY <1>2, <1>3, <1>4, <1>5, <1>6
<1> QED
  BY <1>7 DEF Claims

\* A voter has acknowledged nothing that the request it grants does not claim.
LEMMA GrantClaims ==
    ASSUME TypeInv, NEW L, LogInv(L), NEW A, AcksHeld(L, A), NEW q \in VoteReq, NEW j \in Server,
           node[j].term <= q.term, node[j].term = q.term => node[j].votedFor = Nobody,
           UpToDate(node[j], q), NEW t \in Nat, NEW k \in Nat, <<j, t, k>> \in A, t < q.term
    PROVE  Claims(<<q.lastIndex, q.lastTerm>>, t, k) \/ SkippedBetween(L, t, k, q.term)
<1>0. NodeOK(node[j]) /\ Ordered(node[j].log) /\ node[j].term \in Nat /\ q.term \in Nat
  BY DEF TypeInv, TypeOK, NodeOK, Node, Term, LogInv, LogOfTerm, GoodLog, VoteReq
<1>1. \/ Holds(node[j].log, t, k)
      \/ \E u \in Nat : t < u /\ MayHaveFollowed(node[j], u) /\ Missing(L, t, k, u)
  BY DEF AcksHeld
<1>2. CASE Holds(node[j].log, t, k)
  BY <1>0, <1>2, UpToDateClaims
<1>3. CASE \E u \in Nat : t < u /\ MayHaveFollowed(node[j], u) /\ Missing(L, t, k, u)
  <2>1. PICK u \in Nat : t < u /\ MayHaveFollowed(node[j], u) /\ Missing(L, t, k, u)
    BY <1>3
  <2>2. u < q.term
    BY <1>0, <2>1 DEF MayHaveFollowed
  <2> QED BY <2>1, <2>2 DEF SkippedBetween
<1> QED
  BY <1>1, <1>2, <1>3

LEMMA ClaimVote ==
    ASSUME TypeInv, TypeInv', VoteInv, VotesFaithful, NEW L, LogInv(L), LogInv(L)',
           NEW A, AckInv(L, A), NEW G, Ledger(G), NEW K, ClaimInv(L, A, G, K),
           NEW q \in voteReqs, RequestVote(q), NEW H,
           H = G \/ Granted(q), Granted(q) => Enters(G, H, q.to, q.candidate)
    PROVE  ClaimInv(L, A, H, K)'
<1>1. /\ q \in VoteReq /\ q.to \in Server /\ q.term \in Nat /\ q.candidate \in Server
      /\ \A i \in Server \ {q.to} : node'[i] = node[i]
      /\ node'[q.to].log = node[q.to].log /\ NotReset(node[q.to], node'[q.to])
      /\ Granted(q) => /\ node'[q.to].term = q.term /\ node[q.to].term <= q.term
                       /\ node[q.to].term = q.term => node[q.to].votedFor = Nobody
                       /\ UpToDate(node[q.to], q)
  BY VoteCases
<1>2. elected' = elected /\ voteReqs' \subseteq voteReqs /\ director' = director
  BY DEF RequestVote
<1>3. ClaimInv(L, A, G, K)'
  <2>1. \A i \in Server : node'[i].log = node[i].log
    BY <1>1
  <2>2. \A i \in Server : DirectorKeeps(i)
    BY <1>1, <1>2 DEF DirectorKeeps, NotReset
  <2> QED BY <1>2, <2>1, <2>2, ClaimQuiet
<1>4. CASE H = G
  BY <1>3, <1>4
<1>5. CASE Granted(q)
  <2>1. H = G \cup {<<q.to, q.term, q.candidate>>}
    BY <1>1, <1>5 DEF Enters
  <2>2. /\ <<q.candidate, q.term, q.candidate>> \in G
        /\ K[<<q.candidate, q.term>>] = <<q.lastIndex, q.lastTerm>>
    BY DEF ClaimInv, RequestsClaim
  <2>3. VotesOnClaims(L, H, K)
    <3> SUFFICES ASSUME NEW v \in Server, NEW e \in Server, NEW u \in Nat, <<v, u, e>> \in H
                 PROVE  <<e, u, e>> \in H /\ ClaimOK(L, K[<<e, u>>], u)
      BY DEF VotesOnClaims
    <3>1. PICK w \in Server : <<w, u, e>> \in G
      BY <1>1, <2>1, <2>2
    <3> QED BY <2>1, <3>1 DEF ClaimInv, VotesOnClaims
  <2>4. RequestsClaim(H, K)' /\ LeadersClaim(L, H, K)'
    BY <1>3, <2>1 DEF ClaimInv, RequestsClaim, LeadersClaim
  <2>5. VotersBehind(L, A, H, K)
    <3> SUFFICES ASSUME NEW v \in Server, NEW e \in Server, NEW u \in Nat, NEW t \in Nat, NEW k \in Nat,
                        v # e, <<v, u, e>> \in H, <<v, t, k>> \in A, t < u
                 PROVE  Claims(K[<<e, u>>], t, k) \/ SkippedBetween(L, t, k, u)
      BY DEF VotersBehind
    <3>1. CASE <<v, u, e>> \in G
      BY <3>1 DEF ClaimInv, VotersBehind
    <3>2. CASE <<v, u, e>> \notin G
      <4>1. v = q.to /\ u = q.term /\ e = q.candidate
        BY <2>1, <3>2
      <4>2. Claims(<<q.lastIndex, q.lastTerm>>, t, k) \/ SkippedBetween(L, t, k, q.term)
        BY <1>1, <1>5, <4>1, GrantClaims DEF AckInv
      <4> QED BY <2>2, <4>1, <4>2
    <3> QED BY <3>1, <3>2
  <2> QED BY <1>3, <2>3, <2>4, <2>5 DEF ClaimInv
<1> QED
  BY <1>4, <1>5

-----------------------------------------------------------------------------
(* The leader of a node *)

\* The node n becomes m: its leader stays, is unknown in a new term, or was elected.
Tends(n, m, won) ==
    \/ m.leader = n.leader /\ m.term = n.term
    \/ m.leader = Nobody /\ m.term > n.term
    \/ m.leader # Nobody /\ <<m.leader, m.term>> \in won /\ m.votedFor # Nobody

\* m has the leader of o, and its vote if there is one.
SameLeader(o, m) ==
    m.leader = o.leader /\ m.term = o.term /\ (o.votedFor # Nobody => m.votedFor # Nobody)

LEMMA SameTends ==
    ASSUME NEW n, NEW o, NEW m, NEW won, Tends(n, o, won), SameLeader(o, m)
    PROVE  Tends(n, m, won)
BY DEF Tends, SameLeader

LEMMA ObservedTends ==
    ASSUME NEW n, NodeOK(n), NEW term \in Nat, NEW leader \in Server \cup {Nobody},
           NEW won, leader = Nobody \/ <<leader, term>> \in won
    PROVE  Tends(n, observed(n, term, leader), won)
<1>1. n.term \in Nat
  BY DEF NodeOK, Node, Term
<1> QED
  BY <1>1, ObservedLeader DEF Tends

LEMMA VoteSameLeader ==
    ASSUME NEW n, NodeOK(n), NEW c \in Server, NEW t \in Term
    PROVE  SameLeader(n, grantVote(n, c)) /\ SameLeader(n, becomeCandidate(n, c)) /\ SameLeader(n, dropOut(n, t))
<1>1. SameLeader(n, grantVote(n, c))
  BY NobodyAssumption DEF SameLeader, grantVote, updateJournal, NodeOK, Node
<1>2. SameLeader(n, becomeCandidate(n, c))
  BY NobodyAssumption DEF SameLeader, becomeCandidate, updateJournal, updateStatus, NodeOK, Node
<1>3. SameLeader(n, dropOut(n, t))
  BY DEF SameLeader, dropOut, updateStatus, NodeOK, Node
<1> QED
  BY <1>1, <1>2, <1>3

\* The leader of server i after the step; a restart forgets it, and the election
\* that was being run with it.
Tended(i) ==
    Tends(node[i], node'[i], elected') \/ (node'[i].leader = Nobody /\ director'[i].phase = "idle")

LEMMA OneTended ==
    ASSUME TypeInv, NEW i \in Server, NEW n, Tends(node[i], n, elected), elected \subseteq elected',
           node' = [node EXCEPT ![i] = n]
    PROVE  \A j \in Server : Tended(j)
<1>1. node'[i] = n /\ \A j \in Server \ {i} : node'[j] = node[j]
  BY DEF TypeInv, TypeOK
<1> QED
  BY <1>1 DEF Tended, Tends

LEMMA NoneTended ==
    ASSUME node' = node
    PROVE  \A j \in Server : Tended(j)
BY DEF Tended, Tends

\* The steps that change a node by what it observes.
LEMMA TendedObserve ==
    ASSUME TypeInv, LeaderInv, elected' = elected,
           \/ \E i \in Server : ObserveTerm(i) \/ BeginElection(i)
           \/ \E i, j \in Server, limit \in PayloadLimits : HaltReplication(i, j, limit)
           \/ \E i \in Server, h \in heartbeats : Heartbeat(i, h)
           \/ \E q \in voteReqs : RequestVote(q)
    PROVE  \A j \in Server : Tended(j)
<1>0. \A i \in Server : NodeOK(node[i]) /\ node[i].term \in Nat
  BY DEF TypeInv, TypeOK, NodeOK, Node, Term
<1>a. Nobody \in Server \cup {Nobody}
  OBVIOUS
<1>o. ASSUME NEW i \in Server, NEW t \in Nat
      PROVE  /\ Tends(node[i], observed(node[i], t, Nobody), elected)
             /\ NodeOK(observed(node[i], t, Nobody))
  BY <1>0, <1>a, ObservedTends, ObservedType DEF Term
<1>1. ASSUME NEW i \in Server, ObserveTerm(i) PROVE \A j \in Server : Tended(j)
  <2>1. node' = [node EXCEPT ![i] = observed(node[i], node[i].term + 1, Nobody)]
    BY <1>1 DEF ObserveTerm
  <2>2. node[i].term + 1 \in Nat
    BY <1>0
  <2> QED BY <1>o, <2>1, <2>2, OneTended
<1>2. ASSUME NEW i \in Server, BeginElection(i) PROVE \A j \in Server : Tended(j)
  <2> DEFINE d == IF "prevote" \in Windows THEN director[i] ELSE Prepared(i)
             n == observed(node[i], d.term, Nobody)
  <2>1. d.term \in Nat
    BY PreparedType DEF TypeInv, TypeOK, Director, Term
  <2>2. node' = [node EXCEPT ![i] = becomeCandidate(n, i)]
    BY <1>2 DEF BeginElection
  <2> HIDE DEF d
  <2>3. Tends(node[i], n, elected) /\ NodeOK(n)
    BY <1>o, <2>1
  <2> HIDE DEF n
  <2>4. Tends(node[i], becomeCandidate(n, i), elected)
    BY <2>1, <2>3, VoteSameLeader, SameTends DEF Term
  <2> QED BY <2>2, <2>4, OneTended
<1>3. ASSUME NEW q \in voteReqs, RequestVote(q) PROVE \A j \in Server : Tended(j)
  <2> DEFINE n == observed(node[q.to], q.term, Nobody)
             m == IF VoteOn(n, q) = "GRANTED" THEN grantVote(n, q.candidate) ELSE n
  <2>1. q.to \in Server /\ q.candidate \in Server /\ q.term \in Nat
    BY DEF TypeInv, TypeOK, VoteReq, Term
  <2>2. Tends(node[q.to], n, elected) /\ NodeOK(n)
    BY <1>o, <2>1
  <2>3. node' = [node EXCEPT ![q.to] = m]
    BY <1>3 DEF RequestVote
  <2> HIDE DEF n
  <2>4. Tends(node[q.to], m, elected)
    BY <2>1, <2>2, VoteSameLeader, SameTends DEF Term
  <2> HIDE DEF m
  <2> QED BY <2>1, <2>3, <2>4, OneTended
<1>4. ASSUME NEW j \in Server, NEW h \in heartbeats, Heartbeat(j, h) PROVE \A i \in Server : Tended(i)
  <2>0. h \in elected /\ h[1] \in Server /\ h[2] \in Nat /\ h = <<h[1], h[2]>>
    BY DEF TypeInv, TypeOK, Term, LeaderInv
  <2>1. h[1] \in Server \cup {Nobody} /\ h[2] \in Nat /\ <<h[1], h[2]>> \in elected
    BY <2>0
  <2>2. node' = [node EXCEPT ![j] = observed(node[j], h[2], h[1])]
    BY <1>4 DEF Heartbeat
  <2>3. Tends(node[j], observed(node[j], h[2], h[1]), elected)
    BY <1>0, <2>1, ObservedTends
  <2> QED BY <2>2, <2>3, OneTended
<1>5. ASSUME NEW i \in Server, NEW j \in Server, NEW limit \in PayloadLimits, HaltReplication(i, j, limit)
      PROVE  \A k \in Server : Tended(k)
  <2>1. node' = [node EXCEPT ![i] = observed(node[i], repl[i] + 1, Nobody)]
    BY <1>5 DEF HaltReplication
  <2>2. repl[i] + 1 \in Nat
    BY DEF TypeInv, TypeOK, Term
  <2> QED BY <1>o, <2>1, <2>2, OneTended
<1> QED
  BY <1>1, <1>2, <1>3, <1>4, <1>5

LEMMA TendedConclude ==
    ASSUME TypeInv, VoteInv, NEW i \in Server, NEW R \in SUBSET {r \in voteReplies : r.to = i},
           NEW late \in SUBSET {q \in voteReqs : q.candidate = i}, ConcludeElection(i, R, late)
    PROVE  /\ \A j \in Server : Tended(j) /\ elected \subseteq elected'
           /\ Wins(i) \/ elected' = elected
<1> DEFINE d == director[i]
           n == observeTerms(node[i], R)
           won == determineOutcome(R) = "elected" /\ CanAscend(n, i, d.term)
<1>0. NodeOK(node[i])
  BY DEF TypeInv, TypeOK, NodeOK
<1>1. R \subseteq VoteReply /\ IsFiniteSet(R) /\ d.term \in Term
  BY FS_Subset DEF TypeInv, TypeOK, Director
<1>2. /\ node' = [node EXCEPT ![i] = IF won THEN ascend(n, i, d.term) ELSE dropOut(n, d.term)]
      /\ elected' = IF won THEN elected \cup {<<i, d.term>>} ELSE elected
  BY DEF ConcludeElection
<1>3. CASE Wins(i)
  <2>1. /\ \A j \in Server \ {i} : node'[j] = node[j]
        /\ node'[i].leader = i /\ node'[i].votedFor = i /\ <<i, node'[i].term>> \in elected'
    BY <1>3 DEF Wins
  <2>2. i # Nobody
    BY NobodyAssumption
  <2> QED BY <1>2, <1>3, <2>1, <2>2 DEF Tended, Tends
<1>4. CASE ~ won
  <2>1. Tends(node[i], n, elected)
    <3>1. Tends(node[i], node[i], elected)
      BY DEF Tends
    <3>2. \A t \in Nat : Tends(node[i], observed(node[i], t, Nobody), elected)
      BY <1>0, ObservedTends
    <3> QED BY <1>1, <3>1, <3>2, ObserveTermsCases
  <2>2. NodeOK(n)
    BY <1>0, <1>1, ObserveTermsType
  <2> HIDE DEF n, d, won
  <2>3. Tends(node[i], dropOut(n, d.term), elected)
    BY <1>1, <2>1, <2>2, VoteSameLeader, SameTends
  <2> QED BY <1>2, <1>4, <2>3, OneTended
<1>5. CASE won /\ ~ Wins(i)
  <2>1. Still
    BY <1>5, ConcludeCases
  <2>2. node'[i].status = "LEADER" /\ node[i].status # "LEADER"
    <3>1. node'[i] = ascend(n, i, d.term)
      BY <1>2, <1>5 DEF TypeInv, TypeOK
    <3>2. NodeOK(n) /\ i \in Server
      BY <1>0, <1>1, ObserveTermsType
    <3>3. node'[i].status = "LEADER"
      BY <1>1, <3>1, <3>2, AscendVote
    <3>4. n.status = "CANDIDATE"
      BY <1>5 DEF CanAscend
    <3>6. observeTerms(node[i], R) = node[i] \/ \E t \in Nat : observeTerms(node[i], R) = observed(node[i], t, Nobody)
      BY <1>1, ObserveTermsCases
    <3>7. \A t \in Nat : \/ observed(node[i], t, Nobody).status = node[i].status
                         \/ observed(node[i], t, Nobody).status = "FOLLOWER"
      BY <1>0, ObservedLeader
    <3>8. node[i].status = "CANDIDATE"
      BY <3>4, <3>6, <3>7
    <3> QED BY <3>3, <3>8
  <2> QED BY <2>1, <2>2 DEF Still, Calm, NoNewLeader
<1> QED
  BY <1>2, <1>3, <1>4, <1>5

LEMMA TendedStep ==
    ASSUME TypeInv, VoteInv, LeaderInv, [Next]_vars
    PROVE  (\A j \in Server : Tended(j)) /\ elected \subseteq elected'
<1>0. \A i \in Server : NodeOK(node[i]) /\ node[i].term \in Nat
  BY DEF TypeInv, TypeOK, NodeOK, Node, Term
<1>1. CASE \/ \E i \in Server : ObserveTerm(i) \/ BeginElection(i)
           \/ \E i, j \in Server, limit \in PayloadLimits : HaltReplication(i, j, limit)
           \/ \E i \in Server, h \in heartbeats : Heartbeat(i, h)
           \/ \E q \in voteReqs : RequestVote(q)
  <2>1. elected' = elected
    BY <1>1 DEF ObserveTerm, BeginElection, HaltReplication, Heartbeat, RequestVote
  <2> QED BY <1>1, <2>1, TendedObserve
<1>2. ASSUME NEW i \in Server, NEW R \in SUBSET {r \in voteReplies : r.to = i},
             NEW late \in SUBSET {q \in voteReqs : q.candidate = i}, ConcludeElection(i, R, late)
      PROVE  (\A j \in Server : Tended(j)) /\ elected \subseteq elected'
  BY <1>2, TendedConclude
<1>3. ASSUME NEW i \in Server, NEW v \in Value, ServiceAppend(i, v)
      PROVE  (\A j \in Server : Tended(j)) /\ elected \subseteq elected'
  <2> DEFINE t == IF "write" \in Windows THEN writer[i] ELSE node[i].term
  <2>1. elected' = elected /\ (node' = node \/ node' = [node EXCEPT ![i] = appendEntry(node[i], t, v)])
    BY <1>3 DEF ServiceAppend
  <2>2. Tends(node[i], appendEntry(node[i], t, v), elected)
    BY <1>0 DEF Tends, appendEntry, NodeOK, Node
  <2> QED BY <2>1, <2>2, OneTended, NoneTended
<1>4. ASSUME NEW i \in Server, Restart(i)
      PROVE  (\A j \in Server : Tended(j)) /\ elected \subseteq elected'
  <2>1. /\ node'[i].leader = Nobody /\ director'[i].phase = "idle" /\ elected' = elected
        /\ \A j \in Server \ {i} : node'[j] = node[j]
    BY <1>0, <1>4 DEF Restart, TypeInv, TypeOK, NodeOK, Node, IdleDirector
  <2> QED BY <2>1 DEF Tended, Tends
<1>5. ASSUME NEW m \in appReqs, AppendEntries(m)
      PROVE  (\A j \in Server : Tended(j)) /\ elected \subseteq elected'
  <2> DEFINE n == node[m.target]
             r == appendEntries(n, m)
             o == observed(n, m.term, m.leader)
  <2>1. m \in AppReq /\ m.target \in Server /\ m.leader \in Server /\ m.term \in Nat
    BY DEF TypeInv, TypeOK, AppReq, Term
  <2>2. node' = [node EXCEPT ![m.target] = r.node] /\ elected' = elected
    BY <1>5 DEF AppendEntries
  <2>3. Tends(n, o, elected)
    BY <1>0, <2>1, ObservedTends DEF LeaderInv
  <2>4. SameLeader(o, r.node)
    BY <1>0, <2>1, HandlerVote DEF SameVote, SameLeader
  <2> HIDE DEF o, r
  <2>5. Tends(n, r.node, elected)
    BY <2>3, <2>4, SameTends
  <2> QED BY <2>1, <2>2, <2>5, OneTended
<1>6. ASSUME NEW a \in acks, HandleAck(a)
      PROVE  (\A j \in Server : Tended(j)) /\ elected \subseteq elected'
  <2> DEFINE i == a.req.leader
             n == observed(node[i], a.term, Nobody)
             m == IF a.term > repl[i] THEN n ELSE setCommitIndex(n, CommitAfter(i, a))
  <2>1. i \in Server /\ a.term \in Nat
    BY DEF TypeInv, TypeOK, Ack, AppReq, Term
  <2>2. node' = [node EXCEPT ![i] = m] /\ elected' = elected
    BY <1>6 DEF HandleAck
  <2>3. Tends(node[i], n, elected) /\ NodeOK(n)
    BY <1>0, <2>1, ObservedTends, ObservedType DEF Term
  <2> HIDE DEF n
  <2>4. SameLeader(n, m)
    BY <2>3 DEF SameLeader, setCommitIndex, NodeOK, Node
  <2> HIDE DEF m
  <2>5. Tends(node[i], m, elected)
    BY <2>3, <2>4, SameTends
  <2> QED BY <2>1, <2>2, <2>5, OneTended
<1>7. ASSUME NEW i \in Server,
             \/ RunForLeader(i) \/ AbandonElection(i) \/ ActivateReplicator(i)
             \/ DeactivateReplicator(i) \/ ServiceBegin(i)
             \/ \E j \in Server :
                  \/ \E limit \in PayloadLimits : SendPayload(i, j, limit)
                  \/ \E lost \in BOOLEAN : AckTimeout(i, j, lost)
      PROVE  (\A j \in Server : Tended(j)) /\ elected \subseteq elected'
  <2>1. node' = node /\ elected' = elected
    BY <1>7 DEF RunForLeader, AbandonElection, ActivateReplicator, DeactivateReplicator,
                ServiceBegin, SendPayload, AckTimeout
  <2> QED BY <2>1, NoneTended
<1>8. ASSUME NEW m \in appReqs, LoseRequest(m)
      PROVE  (\A j \in Server : Tended(j)) /\ elected \subseteq elected'
  BY <1>8, NoneTended DEF LoseRequest
<1>9. CASE UNCHANGED vars
  BY <1>9, NoneTended DEF vars
<1> QED
  BY <1>1, <1>2, <1>3, <1>4, <1>5, <1>6, <1>7, <1>8, <1>9 DEF Next

\* Who is followed, heard of or replicates was elected.
LEMMA LeaderStep ==
    ASSUME TypeInv, TypeInv', VoteInv, VotesFaithful, ElectedInv, LeaderInv, [Next]_vars,
           "send" \notin Windows
    PROVE  LeaderInv'
<1>0. (\A j \in Server : Tended(j)) /\ elected \subseteq elected'
  BY TendedStep
<1>1. ASSUME NEW i \in Server, node'[i].leader # Nobody
      PROVE  <<node'[i].leader, node'[i].term>> \in elected' /\ node'[i].votedFor # Nobody
  <2>1. Tends(node[i], node'[i], elected') /\ Faithful(node[i], node'[i])
    BY <1>0, <1>1 DEF Tended, VotesFaithful
  <2> QED BY <1>0, <1>1, <2>1 DEF Tends, Faithful, LeaderInv
<1>2. /\ heartbeats' \subseteq elected'
      /\ \A i \in Server : repl'[i] # 0 => <<i, repl'[i]>> \in elected'
      /\ \A m \in appReqs' : <<m.leader, m.term>> \in elected'
  <2>1. ASSUME NEW i \in Server, ActivateReplicator(i)
        PROVE  /\ heartbeats' \subseteq elected'
               /\ \A j \in Server : repl'[j] # 0 => <<j, repl'[j]>> \in elected'
               /\ \A m \in appReqs' : <<m.leader, m.term>> \in elected'
    <3>1. <<i, node[i].term>> \in elected
      BY <2>1 DEF ActivateReplicator, ElectedInv
    <3>2. /\ heartbeats' = heartbeats \cup {<<i, node[i].term>>} /\ appReqs' = appReqs
          /\ repl'[i] = node[i].term /\ \A j \in Server \ {i} : repl'[j] = repl[j]
      BY <2>1 DEF ActivateReplicator, TypeInv, TypeOK
    <3> QED BY <1>0, <3>1, <3>2 DEF LeaderInv
  <2>2. ASSUME NEW i \in Server, DeactivateReplicator(i) \/ Restart(i)
        PROVE  /\ heartbeats' \subseteq elected'
               /\ \A j \in Server : repl'[j] # 0 => <<j, repl'[j]>> \in elected'
               /\ \A m \in appReqs' : <<m.leader, m.term>> \in elected'
    <3>1. /\ heartbeats' = heartbeats /\ appReqs' = appReqs /\ repl'[i] = 0
          /\ \A j \in Server \ {i} : repl'[j] = repl[j]
      BY <2>2 DEF DeactivateReplicator, Restart, TypeInv, TypeOK
    <3> QED BY <1>0, <3>1 DEF LeaderInv
  <2>3. ASSUME NEW i \in Server, NEW j \in Server, NEW limit \in PayloadLimits, SendPayload(i, j, limit)
        PROVE  /\ heartbeats' \subseteq elected'
               /\ \A k \in Server : repl'[k] # 0 => <<k, repl'[k]>> \in elected'
               /\ \A m \in appReqs' : <<m.leader, m.term>> \in elected'
    <3>1. <<i, repl[i]>> \in elected
      BY <2>3 DEF SendPayload, CanSend, Current, ElectedInv
    <3>2. PICK m : appReqs' = appReqs \cup {m} /\ m.leader = i /\ m.term = repl[i]
      BY <2>3, SentEntries
    <3>3. heartbeats' = heartbeats /\ repl' = repl
      BY <2>3 DEF SendPayload
    <3> QED BY <1>0, <3>1, <3>2, <3>3 DEF LeaderInv
  <2>4. CASE heartbeats' = heartbeats /\ repl' = repl /\ appReqs' \subseteq appReqs
    BY <1>0, <2>4 DEF LeaderInv
  <2> DEFINE Same == heartbeats' = heartbeats /\ repl' = repl /\ appReqs' \subseteq appReqs
  <2>5. ASSUME NEW i \in Server,
               \/ ObserveTerm(i) \/ RunForLeader(i) \/ AbandonElection(i) \/ BeginElection(i)
               \/ ServiceBegin(i) \/ \E v \in Value : ServiceAppend(i, v)
               \/ \E h \in heartbeats : Heartbeat(i, h)
        PROVE  Same
    BY <2>5 DEF ObserveTerm, RunForLeader, AbandonElection, BeginElection, ServiceBegin, ServiceAppend,
                Heartbeat, net
  <2>6. ASSUME NEW i \in Server, NEW R \in SUBSET {r \in voteReplies : r.to = i},
               NEW late \in SUBSET {q \in voteReqs : q.candidate = i}, ConcludeElection(i, R, late)
        PROVE  Same
    BY <2>6 DEF ConcludeElection
  <2>7. ASSUME NEW i \in Server, NEW j \in Server,
               \/ \E limit \in PayloadLimits : HaltReplication(i, j, limit)
               \/ \E lost \in BOOLEAN : AckTimeout(i, j, lost)
        PROVE  Same
    BY <2>7 DEF HaltReplication, AckTimeout, net
  <2>8. ASSUME NEW q \in voteReqs, RequestVote(q) PROVE Same
    BY <2>8 DEF RequestVote
  <2>9. ASSUME NEW m \in appReqs, AppendEntries(m) \/ LoseRequest(m) PROVE Same
    BY <2>9 DEF AppendEntries, LoseRequest
  <2>10. ASSUME NEW a \in acks, HandleAck(a) PROVE Same
    BY <2>10 DEF HandleAck
  <2>11. CASE UNCHANGED vars
    BY <2>4, <2>11 DEF vars, net
  <2> HIDE DEF Same
  <2>12. Same => /\ heartbeats' \subseteq elected'
                 /\ \A i \in Server : repl'[i] # 0 => <<i, repl'[i]>> \in elected'
                 /\ \A m \in appReqs' : <<m.leader, m.term>> \in elected'
    BY <2>4 DEF Same
  <2> QED BY <2>1, <2>2, <2>3, <2>5, <2>6, <2>7, <2>8, <2>9, <2>10, <2>11, <2>12 DEF Next
<1> QED
  BY <1>1, <1>2 DEF LeaderInv

\* A step that begins no election leaves the directors alone, or puts them to rest.
LEMMA DirectorsKeep ==
    ASSUME TypeInv, VoteInv, LeaderInv, NoVoteNext
    PROVE  voteReqs' \subseteq voteReqs /\ \A i \in Server : DirectorKeeps(i)
<1>1. \A i \in Server : Tended(i)
  <2>1. [Next]_vars
    BY DEF NoVoteNext, Next
  <2> QED BY <2>1, TendedStep
<1>2. \A i \in Server : node[i].term \in Nat /\ director[i] \in Director
  BY DEF TypeInv, TypeOK, Node, Term
<1> DEFINE Same == voteReqs' = voteReqs /\ director' = director
           Rests(i) == \/ director'[i] = director[i] \/ director'[i].phase = "idle"
                       \/ director'[i] = Prepared(i) /\ node' = node
           Kept == voteReqs' = voteReqs /\ \A i \in Server : Rests(i)
<1>3. Kept
  <2>1. ASSUME NEW i \in Server, RunForLeader(i) \/ AbandonElection(i) \/ Restart(i)
        PROVE  Kept
    <3>1. CASE RunForLeader(i)
      BY <3>1 DEF RunForLeader, TypeInv, TypeOK, net
    <3>2. CASE AbandonElection(i) \/ Restart(i)
      <4>1. voteReqs' = voteReqs /\ director' = [director EXCEPT ![i] = IdleDirector]
        BY <3>2 DEF AbandonElection, Restart, net
      <4>2. \A j \in Server : director'[j] = director[j] \/ director'[j] = IdleDirector
        BY <4>1 DEF TypeInv, TypeOK
      <4>3. IdleDirector.phase = "idle"
        BY DEF IdleDirector
      <4> QED BY <4>1, <4>2, <4>3
    <3> QED BY <2>1, <3>1, <3>2
  <2>2. ASSUME NEW i \in Server,
               \/ ObserveTerm(i) \/ ActivateReplicator(i) \/ DeactivateReplicator(i)
               \/ ServiceBegin(i) \/ \E v \in Value : ServiceAppend(i, v)
               \/ \E h \in heartbeats : Heartbeat(i, h)
        PROVE  Same
    BY <2>2 DEF ObserveTerm, ActivateReplicator, DeactivateReplicator, ServiceBegin, ServiceAppend,
                Heartbeat, net
  <2>3. ASSUME NEW i \in Server, NEW j \in Server,
               \/ \E limit \in PayloadLimits : SendPayload(i, j, limit) \/ HaltReplication(i, j, limit)
               \/ \E lost \in BOOLEAN : AckTimeout(i, j, lost)
        PROVE  Same
    BY <2>3 DEF SendPayload, HaltReplication, AckTimeout, net
  <2>4. ASSUME NEW m \in appReqs, AppendEntries(m) \/ LoseRequest(m) PROVE Same
    BY <2>4 DEF AppendEntries, LoseRequest
  <2>5. ASSUME NEW a \in acks, HandleAck(a) PROVE Same
    BY <2>5 DEF HandleAck
  <2>6. CASE UNCHANGED vars
    BY <2>6 DEF vars, net
  <2>7. Same => Kept
    <3>1. director' = director => \A i \in Server : Rests(i)
      OBVIOUS
    <3> QED BY <3>1
  <2> HIDE DEF Same, Kept
  <2> QED BY <2>1, <2>2, <2>3, <2>4, <2>5, <2>6, <2>7 DEF NoVoteNext
<1>5. ASSUME NEW i \in Server PROVE DirectorKeeps(i)
  <2>1. Tends(node[i], node'[i], elected') => NotReset(node[i], node'[i])
    BY <1>2 DEF Tends, NotReset
  <2> QED BY <1>1, <1>3, <2>1, Zenon DEF Tended, DirectorKeeps
<1> QED
  BY <1>3, <1>5

LEMMA ConcludeKeeps ==
    ASSUME TypeInv, VoteInv, LeaderInv, NEW i \in Server, NEW R \in SUBSET {r \in voteReplies : r.to = i},
           NEW late \in SUBSET {q \in voteReqs : q.candidate = i}, ConcludeElection(i, R, late)
    PROVE  voteReqs' \subseteq voteReqs /\ \A j \in Server : DirectorKeeps(j)
<1>1. voteReqs' \subseteq voteReqs
  BY DEF ConcludeElection
<1>2. director' = [director EXCEPT ![i] = IdleDirector] /\ IdleDirector.phase = "idle"
  BY DEF ConcludeElection, IdleDirector
<1>3. ASSUME NEW j \in Server PROVE DirectorKeeps(j)
  <2>1. director'[j] = director[j] \/ director'[j].phase = "idle"
    BY <1>2 DEF TypeInv, TypeOK
  <2>2. Tended(j) /\ node[j].term \in Nat
    BY TendedConclude DEF TypeInv, TypeOK, Node, Term
  <2>3. Tends(node[j], node'[j], elected') => NotReset(node[j], node'[j])
    BY <2>2 DEF Tends, NotReset
  <2> QED BY <2>1, <2>2, <2>3, Zenon DEF Tended, DirectorKeeps
<1> QED
  BY <1>1, <1>3

-----------------------------------------------------------------------------
(* The answers that trackers wait for *)

\* The request m is the one that tracker t of i for j, active in term u, waits for.
Awaited(i, j, u, t, m) ==
    /\ m.leader = i /\ m.target = j /\ m.term = u /\ u # 0
    /\ m.prevIndex + 1 = t.next /\ t.inflight = {m}

TrackersAwait ==
    /\ \A i, j \in Server : \A m \in tracker[i][j].inflight : Awaited(i, j, repl[i], tracker[i][j], m)
    /\ \A i \in Server : tracker[i][i].next <= 0

Answered(a) ==
    /\ a.req \in tracker[a.req.leader][a.req.target].inflight
    /\ a.req \notin appReqs /\ a.term >= a.req.term
    /\ \A b \in acks : b.req = a.req => b = a

LEMMA AwaitParts == AwaitInv <=> TrackersAwait /\ \A a \in acks : Answered(a)
BY DEF AwaitInv, TrackersAwait, Awaited, Answered

LEMMA AwaitNext == TrackersAwait' /\ (\A a \in acks' : Answered(a)') => AwaitInv'
BY DEF AwaitInv, TrackersAwait, Awaited, Answered

\* The trackers change at most for the servers in S, from active to inactive or back.
LEMMA TrackersAwaitStep ==
    ASSUME TrackersAwait,
           \A i \in Server : repl'[i] = repl[i] \/ \A j \in Server : tracker'[i][j].inflight = {},
           \A i, j \in Server : \/ tracker'[i][j] = tracker[i][j]
                                \/ tracker'[i][j].inflight = {} /\ (i = j => tracker'[i][j].next <= 0)
                                \/ i # j /\ \A m \in tracker'[i][j].inflight :
                                              Awaited(i, j, repl'[i], tracker'[i][j], m)
    PROVE  TrackersAwait'
<1>1. ASSUME NEW i \in Server, NEW j \in Server, NEW m \in tracker'[i][j].inflight
      PROVE  Awaited(i, j, repl'[i], tracker'[i][j], m)
  <2>1. CASE tracker'[i][j] = tracker[i][j]
    <3>1. repl'[i] = repl[i] /\ m \in tracker[i][j].inflight
      BY <1>1, <2>1
    <3> QED BY <2>1, <3>1 DEF TrackersAwait
  <2>2. CASE tracker'[i][j].inflight = {}
    BY <1>1, <2>2
  <2>3. CASE i # j /\ \A n \in tracker'[i][j].inflight : Awaited(i, j, repl'[i], tracker'[i][j], n)
    BY <1>1, <2>3
  <2> QED BY <2>1, <2>2, <2>3
<1>2. \A i \in Server : tracker'[i][i].next <= 0
  BY DEF TrackersAwait
<1> QED
  BY <1>1, <1>2 DEF TrackersAwait

\* Answers stay what they were when their trackers and the requests do.
LEMMA AnswersAwaited ==
    ASSUME AwaitInv, acks' \subseteq acks,
           \A a \in acks' : tracker'[a.req.leader][a.req.target] = tracker[a.req.leader][a.req.target],
           \A a \in acks' : a.req \notin appReqs'
    PROVE  \A a \in acks' : Answered(a)'
<1> SUFFICES ASSUME NEW a \in acks' PROVE Answered(a)'
  OBVIOUS
<1>1. Answered(a)
  BY AwaitParts
<1> QED
  BY <1>1 DEF Answered

LEMMA AwaitReset ==
    ASSUME TypeInv, TypeInv', AwaitInv, NEW i \in Server, NEW u, repl' = [repl EXCEPT ![i] = u],
           NEW t, tracker' = [tracker EXCEPT ![i] = t], \A j \in Server : t[j].inflight = {},
           t[i].next <= 0, acks' = {a \in acks : a.req.leader # i}, appReqs' = appReqs
    PROVE  AwaitInv'
<1>1. /\ repl \in [Server -> Nat] /\ tracker \in [Server -> [Server -> Tracker]] /\ acks \subseteq Ack
  BY DEF TypeInv, TypeOK, Term
<1>2. /\ tracker'[i] = t /\ \A k \in Server \ {i} : tracker'[k] = tracker[k] /\ repl'[k] = repl[k]
  BY <1>1
<1>3. TrackersAwait'
  <2>1. \A k \in Server : repl'[k] = repl[k] \/ \A j \in Server : tracker'[k][j].inflight = {}
    BY <1>2
  <2>2. \A k, j \in Server : \/ tracker'[k][j] = tracker[k][j]
                             \/ tracker'[k][j].inflight = {} /\ (k = j => tracker'[k][j].next <= 0)
    BY <1>2
  <2> QED BY <2>1, <2>2, AwaitParts, TrackersAwaitStep
<1>4. \A a \in acks' : Answered(a)'
  <2>1. \A a \in acks' : a \in acks /\ a.req.leader \in Server \ {i}
    BY <1>1 DEF Ack, AppReq
  <2>2. \A a \in acks' : tracker'[a.req.leader][a.req.target] = tracker[a.req.leader][a.req.target]
    BY <1>2, <2>1
  <2>3. \A a \in acks' : a.req \notin appReqs'
    BY <2>1 DEF AwaitInv
  <2> QED BY <2>1, <2>2, <2>3, AnswersAwaited
<1> QED
  BY <1>3, <1>4, AwaitNext

\* The tracker of i for j becomes t, which waits for nothing; its answers are gone.
StopsWaiting(i, j, t) ==
    /\ tracker' = [tracker EXCEPT ![i][j] = t] /\ t.inflight = {} /\ (i = j => t.next <= 0)
    /\ acks' \subseteq acks /\ \A a \in acks' : ~ (a.req.leader = i /\ a.req.target = j)

LEMMA AwaitNoMore ==
    ASSUME TypeInv, AwaitInv, NEW i \in Server, NEW j \in Server, NEW t, StopsWaiting(i, j, t),
           repl' = repl, appReqs' \subseteq appReqs
    PROVE  AwaitInv'
<1>1. /\ tracker \in [Server -> [Server -> Tracker]] /\ acks \subseteq Ack
  BY DEF TypeInv, TypeOK, Term
<1>2. /\ tracker'[i][j] = t /\ t.inflight = {} /\ (i = j => t.next <= 0)
      /\ \A k, l \in Server : ~ (k = i /\ l = j) => tracker'[k][l] = tracker[k][l]
      /\ acks' \subseteq acks /\ \A a \in acks' : ~ (a.req.leader = i /\ a.req.target = j)
  BY <1>1 DEF StopsWaiting
<1>3. TrackersAwait'
  <2>2. \A k, l \in Server : \/ tracker'[k][l] = tracker[k][l]
                             \/ tracker'[k][l].inflight = {} /\ (k = l => tracker'[k][l].next <= 0)
    BY <1>2
  <2> QED BY <2>2, AwaitParts, TrackersAwaitStep
<1>4. \A a \in acks' : Answered(a)'
  <2>1. \A a \in acks' : a \in acks /\ a.req.leader \in Server /\ a.req.target \in Server
    BY <1>1, <1>2 DEF Ack, AppReq
  <2>2. \A a \in acks' : tracker'[a.req.leader][a.req.target] = tracker[a.req.leader][a.req.target]
    BY <1>2, <2>1
  <2>3. \A a \in acks' : a.req \notin appReqs'
    BY <2>1 DEF AwaitInv
  <2> QED BY <1>2, <2>2, <2>3, AnswersAwaited
<1> QED
  BY <1>3, <1>4, AwaitNext

LEMMA AwaitSend ==
    ASSUME TypeInv, TypeInv', AwaitInv, ElectedInv, "send" \notin Windows, NEW i \in Server, NEW j \in Server,
           NEW limit \in PayloadLimits, SendPayload(i, j, limit)
    PROVE  AwaitInv'
<1> DEFINE m == Sent(i, j, limit)
<1>1. /\ tracker \in [Server -> [Server -> Tracker]] /\ acks \subseteq Ack
  BY DEF TypeInv, TypeOK
<1>2. /\ m.term = repl[i] /\ m.leader = i /\ m.target = j /\ m.prevIndex + 1 = tracker[i][j].next
      /\ appReqs' = appReqs \cup {m} /\ i # j
  BY SentEntries
<1>3. /\ tracker' = [tracker EXCEPT ![i][j].inflight = {m}] /\ acks' = acks /\ repl' = repl
      /\ tracker[i][j].inflight = {}
  BY DEF SendPayload, CanSend, Sent
<1>4. repl[i] # 0
  <2>1. <<i, repl[i]>> \in elected
    BY DEF SendPayload, CanSend, Current, ElectedInv
  <2>2. \A e \in elected : e[2] > 0
    BY DEF ElectedInv
  <2>3. <<i, repl[i]>>[2] > 0
    BY <2>1, <2>2
  <2> QED BY <2>3
<1> HIDE DEF m
<1>5. /\ tracker'[i][j].inflight = {m} /\ tracker'[i][j].next = tracker[i][j].next
      /\ \A k, l \in Server : ~ (k = i /\ l = j) => tracker'[k][l] = tracker[k][l]
  BY <1>1, <1>3 DEF Tracker
<1>6. TrackersAwait'
  <2>1. \A n \in tracker'[i][j].inflight : Awaited(i, j, repl'[i], tracker'[i][j], n)
    BY <1>2, <1>3, <1>4, <1>5 DEF Awaited
  <2>2. \A k, l \in Server : \/ tracker'[k][l] = tracker[k][l]
                             \/ k # l /\ \A n \in tracker'[k][l].inflight :
                                           Awaited(k, l, repl'[k], tracker'[k][l], n)
    BY <1>2, <1>5, <2>1
  <2> QED BY <1>3, <2>2, AwaitParts, TrackersAwaitStep
<1>7. \A a \in acks' : Answered(a)'
  <2>1. \A a \in acks : /\ a.req.leader \in Server /\ a.req.target \in Server
                        /\ ~ (a.req.leader = i /\ a.req.target = j) /\ a.req \notin appReqs
    BY <1>1, <1>3 DEF Ack, AppReq, AwaitInv
  <2>2. \A a \in acks' : tracker'[a.req.leader][a.req.target] = tracker[a.req.leader][a.req.target]
    BY <1>3, <1>5, <2>1
  <2>3. \A a \in acks' : a.req \notin appReqs'
    BY <1>2, <1>3, <2>1
  <2> QED BY <1>3, <2>2, <2>3, AnswersAwaited
<1> QED
  BY <1>6, <1>7, AwaitNext

LEMMA AwaitAppend ==
    ASSUME TypeInv, VoteInv, AwaitInv, NEW m \in appReqs, AppendEntries(m)
    PROVE  AwaitInv'
<1> DEFINE n == node[m.target]
           r == appendEntries(n, m)
<1>1. /\ m \in AppReq /\ m.target \in Server /\ m.leader \in Server /\ m.term \in Nat
      /\ NodeOK(n) /\ Durable(n)
  BY DEF TypeInv, TypeOK, AppReq, Term, NodeOK, VoteInv, DurableVote, Durable
<1>2. /\ appReqs' = appReqs \ {m} /\ tracker' = tracker /\ repl' = repl
      /\ \/ acks' = acks
         \/ acks' = acks \cup {r.ack} /\ m \in tracker[m.leader][m.target].inflight
  BY DEF AppendEntries
<1>3. r.ack.req = m /\ r.ack.term >= m.term
  <2>1. r.ack.req = m /\ r.ack.term = observed(n, m.term, m.leader).term
    BY DEF appendEntries
  <2>2. observed(n, m.term, m.leader).term >= m.term
    BY <1>1, ObservedVote
  <2> QED BY <2>1, <2>2
<1>4. TrackersAwait'
  BY <1>2, AwaitParts DEF TrackersAwait
<1> HIDE DEF r
<1>5. ASSUME NEW a \in acks' PROVE Answered(a)'
  <2>1. \A b \in acks : Answered(b)
    BY AwaitParts
  <2>2. CASE a \in acks
    BY <1>2, <1>3, <2>1, <2>2 DEF Answered
  <2>3. CASE a \notin acks
    <3>1. a = r.ack /\ acks' = acks \cup {r.ack} /\ m \in tracker[m.leader][m.target].inflight
      BY <1>2, <2>3
    <3>2. \A b \in acks : b.req # m
      BY <2>1 DEF Answered
    <3> QED BY <1>2, <1>3, <3>1, <3>2 DEF Answered
  <2> QED BY <2>2, <2>3
<1> QED
  BY <1>4, <1>5, AwaitNext

\* The tracker that an answer is for has taken it.
LEMMA AwaitAck ==
    ASSUME TypeInv, AwaitInv, NEW a \in acks, HandleAck(a)
    PROVE  AwaitInv'
<1> DEFINE i == a.req.leader
           j == a.req.target
<1>1. i \in Server /\ j \in Server /\ i # j /\ acks \subseteq Ack
  BY DEF TypeInv, TypeOK, Ack, AppReq
<1> DEFINE n == observed(node[i], a.term, Nobody)
           t == [next |-> IF Current(n, repl[i]) THEN NextIndex(tracker[i][j].next, a) ELSE -1,
                 inflight |-> {},
                 match |-> IF a.term > repl[i] THEN tracker[i][j].match ELSE MatchAfter(i, a)[j]]
<1>2. tracker' = [tracker EXCEPT ![i][j] = t] /\ t.inflight = {}
  BY DEF HandleAck
<1>3. acks' = acks \ {a} /\ repl' = repl /\ appReqs' = appReqs
  BY DEF HandleAck
<1>4. \A b \in acks' : ~ (b.req.leader = i /\ b.req.target = j)
  <2> SUFFICES ASSUME NEW b \in acks, b.req.leader = i, b.req.target = j PROVE b = a
    BY <1>3
  <2>1. Answered(a) /\ Answered(b) /\ TrackersAwait
    BY AwaitParts
  <2>2. a.req \in tracker[i][j].inflight /\ b.req \in tracker[i][j].inflight
    BY <2>1 DEF Answered
  <2>3. tracker[i][j].inflight = {a.req}
    BY <1>1, <2>1, <2>2 DEF TrackersAwait, Awaited
  <2>4. b.req = a.req
    BY <2>2, <2>3
  <2> QED BY <2>1, <2>4 DEF Answered
<1> HIDE DEF i, j, t
<1>5. StopsWaiting(i, j, t)
  BY <1>1, <1>2, <1>3, <1>4 DEF StopsWaiting
<1> QED
  BY <1>1, <1>3, <1>5, AwaitNoMore

LEMMA AwaitStep ==
    ASSUME TypeInv, TypeInv', VoteInv, ElectedInv, AwaitInv, [Next]_vars, "send" \notin Windows
    PROVE  AwaitInv'
<1>0. /\ tracker \in [Server -> [Server -> Tracker]] /\ acks \subseteq Ack
  BY DEF TypeInv, TypeOK
<1>1. ASSUME NEW i \in Server, ActivateReplicator(i) PROVE AwaitInv'
  <2> DEFINE t == [j \in Server |-> [NewTracker EXCEPT !.next = IF j = i THEN 0 ELSE LogSize(node[i])]]
  <2>1. /\ repl' = [repl EXCEPT ![i] = node[i].term] /\ tracker' = [tracker EXCEPT ![i] = t]
        /\ acks' = acks /\ appReqs' = appReqs /\ repl[i] = 0
    BY <1>1 DEF ActivateReplicator
  <2>2. (\A j \in Server : t[j].inflight = {}) /\ t[i].next <= 0
    BY DEF NewTracker
  <2>3. \A a \in acks : a.req.leader # i
    <3>1. \A a \in acks : a.req.leader \in Server /\ a.req.target \in Server
      BY <1>0 DEF Ack, AppReq
    <3> QED BY <2>1, <3>1 DEF AwaitInv
  <2>4. acks' = {a \in acks : a.req.leader # i}
    BY <2>1, <2>3
  <2> HIDE DEF t
  <2> QED BY <2>1, <2>2, <2>4, AwaitReset
<1>2. ASSUME NEW i \in Server, DeactivateReplicator(i) \/ Restart(i) PROVE AwaitInv'
  <2> DEFINE t == [j \in Server |-> NewTracker]
  <2>1. /\ repl' = [repl EXCEPT ![i] = 0] /\ tracker' = [tracker EXCEPT ![i] = t]
        /\ acks' = {a \in acks : a.req.leader # i} /\ appReqs' = appReqs
    BY <1>2 DEF DeactivateReplicator, Restart
  <2>2. (\A j \in Server : t[j].inflight = {}) /\ t[i].next <= 0
    BY DEF NewTracker
  <2> HIDE DEF t
  <2> QED BY <2>1, <2>2, AwaitReset
<1>3. ASSUME NEW i \in Server, NEW j \in Server, NEW limit \in PayloadLimits, HaltReplication(i, j, limit)
      PROVE  AwaitInv'
  <2> DEFINE t == [tracker[i][j] EXCEPT !.next = -1]
  <2>1. /\ tracker' = [tracker EXCEPT ![i][j].next = -1] /\ tracker[i][j].inflight = {}
        /\ acks' = acks /\ appReqs' = appReqs /\ repl' = repl
    BY <1>3 DEF HaltReplication, CanSend, net
  <2>2. tracker' = [tracker EXCEPT ![i][j] = t]
    BY <1>0, <2>1 DEF Tracker
  <2>3. t.inflight = {} /\ t.next <= 0
    BY <1>0, <2>1 DEF Tracker
  <2>4. \A a \in acks' : ~ (a.req.leader = i /\ a.req.target = j)
    BY <2>1 DEF AwaitInv
  <2> HIDE DEF t
  <2>5. StopsWaiting(i, j, t)
    BY <2>1, <2>2, <2>3, <2>4 DEF StopsWaiting
  <2> QED BY <2>1, <2>5, AwaitNoMore
<1>4. ASSUME NEW i \in Server, NEW j \in Server, NEW lost \in BOOLEAN, AckTimeout(i, j, lost)
      PROVE  AwaitInv'
  <2> DEFINE t == [tracker[i][j] EXCEPT !.inflight = {},
                      !.next = IF Current(node[i], repl[i]) THEN @ ELSE -1]
  <2>1. /\ tracker' = [tracker EXCEPT ![i][j].inflight = {},
                                      ![i][j].next = IF Current(node[i], repl[i]) THEN @ ELSE -1]
        /\ acks' = {a \in acks : a.req.leader # i \/ a.req.target # j}
        /\ appReqs' \subseteq appReqs /\ repl' = repl
    BY <1>4 DEF AckTimeout
  <2>2. tracker' = [tracker EXCEPT ![i][j] = t]
    BY <1>0, <2>1 DEF Tracker
  <2>3. t.inflight = {} /\ (i = j => t.next <= 0)
    BY <1>0, <2>1 DEF Tracker, AwaitInv
  <2> HIDE DEF t
  <2>4. StopsWaiting(i, j, t)
    BY <2>1, <2>2, <2>3 DEF StopsWaiting
  <2> QED BY <2>1, <2>4, AwaitNoMore
<1>5. ASSUME NEW i \in Server, NEW j \in Server, NEW limit \in PayloadLimits, SendPayload(i, j, limit)
      PROVE  AwaitInv'
  BY <1>5, AwaitSend
<1>6. ASSUME NEW m \in appReqs, AppendEntries(m) PROVE AwaitInv'
  BY <1>6, AwaitAppend
<1>7. ASSUME NEW a \in acks, HandleAck(a) PROVE AwaitInv'
  BY <1>7, AwaitAck
<1> DEFINE Same == repl' = repl /\ tracker' = tracker /\ acks' = acks /\ appReqs' \subseteq appReqs
<1>8. CASE Same
  BY <1>8 DEF AwaitInv
<1>9. ASSUME NEW i \in Server,
             \/ ObserveTerm(i) \/ RunForLeader(i) \/ AbandonElection(i) \/ BeginElection(i)
             \/ ServiceBegin(i) \/ \E v \in Value : ServiceAppend(i, v)
             \/ \E h \in heartbeats : Heartbeat(i, h)
      PROVE  Same
  BY <1>9 DEF ObserveTerm, RunForLeader, AbandonElection, BeginElection, ServiceBegin, ServiceAppend,
              Heartbeat, net
<1>10. ASSUME NEW i \in Server, NEW R \in SUBSET {r \in voteReplies : r.to = i},
              NEW late \in SUBSET {q \in voteReqs : q.candidate = i}, ConcludeElection(i, R, late)
       PROVE  Same
  BY <1>10 DEF ConcludeElection
<1>11. ASSUME NEW q \in voteReqs, RequestVote(q) PROVE Same
  BY <1>11 DEF RequestVote
<1>12. ASSUME NEW m \in appReqs, LoseRequest(m) PROVE Same
  BY <1>12 DEF LoseRequest
<1>13. CASE UNCHANGED vars
  BY <1>8, <1>13 DEF vars, net
<1> HIDE DEF Same
<1> QED
  BY <1>1, <1>2, <1>3, <1>4, <1>5, <1>6, <1>7, <1>8, <1>9, <1>10, <1>11, <1>12, <1>13 DEF Next

-----------------------------------------------------------------------------
(* Where a tracker starts to send *)

LEMMA StartsQuiet ==
    ASSUME NEW L, Leaders(L), NEW n, NEW m, NodeOK(n), n.term \in Nat, m.term \in Nat, n.term <= m.term,
           m.log = n.log, LogOfTerm(L, n.log, n.term), NEW u \in Nat, NEW p, StartsAt(L, u, n, p)
    PROVE  StartsAt(L, u, m, p)
<1>0. /\ L[u] \in Seq(Entry) /\ Len(L[u]) \in Nat /\ Ordered(L[u])
      /\ n.log \in Seq(Entry) /\ Len(n.log) \in Nat
  BY LeaderLog DEF NodeOK, Node
<1>1. p \in 1..Len(L[u])
  BY DEF StartsAt
<1>2. m.term < u => L[u][p].term = u
  BY DEF StartsAt
<1>3. ASSUME m.term = u
      PROVE  \/ Aligned(L, u, m)
             \/ \A x \in 1..Len(m.log) : x <= Len(L[u]) /\ m.log[x].term = L[u][x].term => x <= p
  <2>1. CASE n.term = u
    BY <2>1 DEF StartsAt, Aligned
  <2>2. CASE n.term < u
    <3>1. L[u][p].term = u
      BY <2>2 DEF StartsAt
    <3>2. ASSUME NEW x \in 1..Len(n.log), x <= Len(L[u]), n.log[x].term = L[u][x].term, ~ (x <= p)
          PROVE  FALSE
      <4>1. x \in 1..Len(L[u]) /\ p <= x
        BY <1>0, <1>1, <3>2
      <4>2. L[u][p].term <= L[u][x].term
        BY <1>0, <1>1, <4>1 DEF Ordered
      <4>3. n.log[x].term <= n.term
        BY DEF LogOfTerm
      <4>4. L[u][x].term \in Nat
        BY <1>0, <4>1, EntryType
      <4> QED BY <2>2, <3>1, <3>2, <4>2, <4>3, <4>4
    <3> QED BY <3>2
  <2> QED BY <1>3, <2>1, <2>2
<1> QED
  BY <1>1, <1>2, <1>3 DEF StartsAt

\* Leader i has appended to its log of term T.
LEMMA StartsLeads ==
    ASSUME TypeInv, TypeInv', NEW L, LogInv(L), NEW M, NEW i \in Server, NEW T, LeadsOn(L, M, i, T),
           NEW j \in Server, NEW u \in Nat, NEW p, StartsAt(L, u, node[j], p)
    PROVE  StartsAt(M, u, node'[j], p)
<1>0. /\ L[u] \in Seq(Entry) /\ Len(L[u]) \in Nat /\ M[u] \in Seq(Entry) /\ Len(M[u]) \in Nat
      /\ Len(L[u]) <= Len(M[u]) /\ Agree(L[u], M[u], Len(L[u]))
      /\ Len(L[u]) > 0 => \A k \in (Len(L[u]) + 1)..Len(M[u]) : M[u][k].term = u
  BY LedgerLen, LogLeaders DEF LeadsOn, Grow, Leaders
<1>1. p \in 1..Len(L[u]) /\ p \in 1..Len(M[u])
  BY <1>0 DEF StartsAt
<1>2. L[u][p] = M[u][p]
  BY <1>0, <1>1 DEF Agree
<1>3. node'[j].term = node[j].term
  BY DEF LeadsOn
<1>4. ASSUME node'[j].term = u
      PROVE  \/ Aligned(M, u, node'[j])
             \/ \A x \in 1..Len(node'[j].log) :
                   x <= Len(M[u]) /\ node'[j].log[x].term = M[u][x].term => x <= p
  <2>1. CASE j = i
    <3>1. M[u] = node'[j].log
      BY <1>4, <2>1 DEF LeadsOn
    <3> QED BY <1>0, <3>1 DEF Aligned, Agree
  <2>2. CASE j # i
    <3>1. /\ node'[j] = node[j] /\ node[j].log \in Seq(Entry) /\ Len(node[j].log) \in Nat
          /\ LedgerType(L) /\ Backed(L, node[j].log)
      <4>1. node'[j] = node[j]
        BY <2>2 DEF LeadsOn
      <4>2. node[j].log \in Seq(Entry) /\ Len(node[j].log) \in Nat
        BY DEF TypeInv, TypeOK, Node
      <4>3. LedgerType(L) /\ Backed(L, node[j].log)
        BY LogLeaders DEF Leaders, LogInv, LogOfTerm, GoodLog
      <4> QED BY <4>1, <4>2, <4>3
    <3>2. CASE Aligned(L, u, node[j])
      <4>1. Aligned(M, u, node[j])
        BY <1>0, <3>1, <3>2 DEF Aligned, Agree
      <4> QED BY <3>1, <4>1
    <3>3. CASE ~ Aligned(L, u, node[j])
      <4>1. \A x \in 1..Len(node[j].log) : x <= Len(L[u]) /\ node[j].log[x].term = L[u][x].term => x <= p
        BY <1>3, <1>4, <3>3 DEF StartsAt
      <4>2. ASSUME NEW x \in 1..Len(node[j].log), x <= Len(M[u]), node[j].log[x].term = M[u][x].term
            PROVE  x <= p
        <5>1. CASE x <= Len(L[u])
          <6>1. L[u][x] = M[u][x]
            BY <1>0, <5>1 DEF Agree
          <6> QED BY <4>1, <4>2, <5>1, <6>1
        <5>2. CASE ~ (x <= Len(L[u]))
          <6>1. M[u][x].term = u
            <7>1. x \in (Len(L[u]) + 1)..Len(M[u]) /\ Len(L[u]) > 0
              BY <1>0, <1>1, <3>1, <4>2, <5>2
            <7> QED BY <1>0, <7>1
          <6>2. Holds(node[j].log, u, x)
            BY <4>2, <6>1 DEF Holds
          <6>3. x <= Len(L[u])
            BY <3>1, <6>2, HoldsBacked
          <6> QED BY <5>2, <6>3
        <5> QED BY <5>1, <5>2
      <4> QED BY <3>1, <4>2
    <3> QED BY <3>2, <3>3
  <2> QED BY <2>1, <2>2
<1> QED
  BY <1>1, <1>2, <1>3, <1>4 DEF StartsAt

\* A server that has taken a request has a prefix of the leader's log: it had
\* nothing behind the request, or only what the leader has too.
LEMMA AlignedAfter ==
    ASSUME TypeInv, NEW L, LogInv(L), NEW m \in AppReq, m.target \in Server, RequestFits(L, m), Took(L, m)
    PROVE  Aligned(L, m.term, node'[m.target])
<1> DEFINE n == node[m.target]
           new == node'[m.target]
           T == m.term
           p == m.prevIndex + 1
           end == m.prevIndex + 1 + Len(m.entries)
<1>0. /\ n.log \in Seq(Entry) /\ Len(n.log) \in Nat /\ n.term \in Nat /\ T \in Nat
      /\ p \in Nat /\ end \in Nat /\ p >= 1 /\ end = p + Len(m.entries) /\ Len(m.entries) \in Nat
      /\ m.prevIndex \in Nat /\ p = m.prevIndex + 1
  <2>1. /\ n.log \in Seq(Entry) /\ Len(n.log) \in Nat /\ n.term \in Nat
    BY DEF TypeInv, TypeOK, Node, Term
  <2>2. T \in Nat /\ m.prevIndex \in Nat /\ Len(m.entries) \in Nat
    BY DEF AppReq, Term
  <2> QED BY <2>1, <2>2
<1>1. /\ L[T] \in Seq(Entry) /\ Len(L[T]) \in Nat /\ end <= Len(L[T]) /\ LedgerType(L)
      /\ L[T][p].term = m.prevTerm /\ (m.entries = <<>> => m.prevTerm = T)
      /\ StartsAt(L, T, n, p) /\ n.term <= T
  BY <1>0, LeaderLog, LogLeaders DEF RequestFits, CutFrom, Leaders, Took
<1>2. p <= Len(n.log) /\ n.log[p].term = m.prevTerm
  <2>1. m.prevIndex < Len(n.log) /\ n.log[m.prevIndex + 1].term = m.prevTerm
    BY DEF Took, matchEntries, LogSize, TermAt
  <2> QED BY <1>0, <2>1
<1>3. LogOfTerm(L, n.log, n.term)
  BY DEF LogInv
<1>4. Taken(n, new, m, L[T])
  BY DEF Took
<1>5. CASE new.log = n.log /\ end <= Len(n.log) /\ Agree(n.log, L[T], end)
  <2>1. n.term = T
    <3>1. n.log[p].term <= n.term
      BY <1>0, <1>2, <1>3 DEF LogOfTerm
    <3>2. n.term < T => L[T][p].term = T
      BY <1>1 DEF StartsAt
    <3> HIDE DEF n, T, p
    <3> QED BY <1>0, <1>1, <1>2, <3>1, <3>2
  <2>2. CASE Aligned(L, T, n)
    BY <1>5, <2>2 DEF Aligned
  <2>3. CASE ~ Aligned(L, T, n)
    <3>1. \A x \in 1..Len(n.log) : x <= Len(L[T]) /\ n.log[x].term = L[T][x].term => x <= p
      BY <1>1, <2>1, <2>3 DEF StartsAt
    <3>2. n.log[end] = L[T][end] /\ end \in 1..Len(n.log)
      BY <1>0, <1>5 DEF Agree
    <3>3. end <= p
      <4> HIDE DEF n, T, p, end
      <4> QED BY <1>1, <3>1, <3>2
    <3>4. m.entries = <<>>
      <4>1. Len(m.entries) = 0
        <5> HIDE DEF p, end
        <5> QED BY <1>0, <3>3
      <4> QED BY <4>1 DEF AppReq
    <3>5. n.log[p].term = T
      BY <1>1, <1>2, <3>4
    <3>6. n.log[Len(n.log)].term = T
      <4>1. Len(n.log) \in 1..Len(n.log) /\ p \in 1..Len(n.log)
        BY <1>0, <1>2
      <4>2. n.log[p].term <= n.log[Len(n.log)].term /\ n.log[Len(n.log)].term <= n.term
        BY <1>0, <1>2, <1>3, <4>1 DEF LogOfTerm, GoodLog, Ordered
      <4>3. n.log[Len(n.log)].term \in Nat
        BY <1>0, <4>1, EntryType
      <4> HIDE DEF n, T, p
      <4> QED BY <1>0, <2>1, <3>5, <4>2, <4>3
    <3>7. Holds(n.log, T, Len(n.log)) /\ Backed(L, n.log)
      BY <1>0, <1>2, <1>3, <3>6 DEF Holds, LogOfTerm, GoodLog
    <3>8. Len(n.log) <= Len(L[T]) /\ Agree(n.log, L[T], Len(n.log))
      <4> HIDE DEF n, T
      <4> QED BY <1>0, <1>1, <3>7, HoldsBacked
    <3> QED BY <2>3, <3>8 DEF Aligned
  <2> QED BY <2>2, <2>3
<1>6. CASE Len(new.log) = end /\ Agree(new.log, L[T], end)
  BY <1>1, <1>6 DEF Aligned
<1> QED
  BY <1>4, <1>5, <1>6 DEF Taken

LEMMA StartsTook ==
    ASSUME TypeInv, TypeInv', NEW L, LogInv(L), NEW m \in AppReq, m.target \in Server, RequestFits(L, m),
           Took(L, m), NEW u \in Nat, NEW p, StartsAt(L, u, node[m.target], p)
    PROVE  StartsAt(L, u, node'[m.target], p)
<1>1. Aligned(L, m.term, node'[m.target])
  BY AlignedAfter
<1>2. node'[m.target].term = m.term /\ node[m.target].term <= m.term /\ m.term \in Nat
      /\ node[m.target].term \in Nat
  BY DEF Took, AppReq, Term, TypeInv, TypeOK, Node
<1> QED
  BY <1>1, <1>2 DEF StartsAt

-----------------------------------------------------------------------------
(* What the trackers know stays true *)

\* The servers move on: where a tracker may start it may still start, and nobody
\* becomes leader again in the term that its trackers run for.
Evolves(L, M, A, B) ==
    /\ LedgerType(L) /\ LedgerType(M) /\ Grow(L, M) /\ A \subseteq B
    /\ \A j \in Server, u, p \in Nat : StartsAt(L, u, node[j], p) => StartsAt(M, u, node'[j], p)
    /\ \A i \in Server : repl[i] # 0 /\ Current(node'[i], repl[i]) => Current(node[i], repl[i])

LEMMA StartsEvolves ==
    ASSUME NEW L, NEW M, NEW A, NEW B, Evolves(L, M, A, B), NEW j \in Server, NEW u \in Nat, NEW p,
           StartsAt(L, u, node[j], p)
    PROVE  StartsAt(M, u, node'[j], p)
<1>1. Len(L[u]) \in Nat
  BY LedgerLen DEF Evolves
<1>2. p \in Nat
  BY <1>1 DEF StartsAt
<1> QED
  BY <1>2 DEF Evolves

LEMMA RecordedEvolves ==
    ASSUME NEW L, NEW M, NEW A, NEW B, LedgerType(L), LedgerType(M), Grow(L, M), A \subseteq B,
           NEW j, NEW u \in Nat, NEW k, Holds(L[u], u, k), Recorded(L, A, u, j, k)
    PROVE  Holds(M[u], u, k) /\ Recorded(M, B, u, j, k)
<1>1. Len(L[u]) \in Nat /\ k \in 1..Len(L[u]) /\ k \in Nat
  BY LedgerLen DEF Holds
<1>2. Holds(M[u], u, k)
  BY <1>1, GrowHolds
<1>3. ASSUME NEW x \in 1..k, Holds(M[u], u, x) PROVE <<j, u, x>> \in B
  <2>1. x \in Nat /\ ~ (x > Len(L[u]))
    BY <1>1
  <2>2. Holds(L[u], u, x)
    BY <1>3, <2>1, GrowHolds
  <2> QED BY <2>2 DEF Recorded
<1> QED
  BY <1>2, <1>3 DEF Recorded

LEMMA RequestEvolves ==
    ASSUME NEW L, NEW M, NEW A, NEW B, Evolves(L, M, A, B), NEW m \in AppReq, RequestFits(L, m)
    PROVE  RequestFits(M, m)'
<1>1. m.term \in Nat /\ m.target \in Server
  BY DEF AppReq, Term
<1>2. CutFrom(m, M[m.term])
  BY <1>1, CutGrows DEF RequestFits, Evolves
<1>3. StartsAt(M, m.term, node'[m.target], m.prevIndex + 1)
  BY <1>1, StartsEvolves DEF RequestFits
<1> QED
  BY <1>2, <1>3 DEF RequestFits

LEMMA AnswerEvolves ==
    ASSUME NEW L, NEW M, NEW A, NEW B, Evolves(L, M, A, B), NEW a \in Ack, AnswerFits(L, A, a)
    PROVE  AnswerFits(M, B, a)'
<1> DEFINE u == a.req.term
           p == NextIndex(a.req.prevIndex + 1, a)
<1>1. u \in Nat /\ a.req.target \in Server
  BY DEF Ack, AppReq, Term
<1>2. a.term = u => StartsAt(M, u, node'[a.req.target], p)
  <2> HIDE DEF u, p
  <2>1. a.term = u => StartsAt(L, u, node[a.req.target], p)
    BY DEF AnswerFits, u, p
  <2> QED BY <1>1, <2>1, StartsEvolves
<1>3. a.outcome /\ lastEntryTerm(a.req) = u =>
          Holds(M[u], u, a.logSize) /\ Recorded(M, B, u, a.req.target, a.logSize)
  <2> SUFFICES ASSUME a.outcome, lastEntryTerm(a.req) = u
               PROVE  Holds(M[u], u, a.logSize) /\ Recorded(M, B, u, a.req.target, a.logSize)
    OBVIOUS
  <2>1. Holds(L[u], u, a.logSize) /\ Recorded(L, A, u, a.req.target, a.logSize)
    BY DEF AnswerFits
  <2> HIDE DEF u
  <2> QED BY <1>1, <2>1, RecordedEvolves DEF Evolves
<1> QED
  BY <1>2, <1>3 DEF AnswerFits

\* A tracker that keeps its match index, and its next index unless it stops.
SameTracker(i, j) ==
    /\ repl'[i] = repl[i] /\ tracker'[i][j].match = tracker[i][j].match
    /\ tracker'[i][j].next = tracker[i][j].next \/ ~ (tracker'[i][j].next > 0)

NoTracker(i, j) == ~ (tracker'[i][j].next > 0) /\ ~ (tracker'[i][j].match > 0)

LEMMA TrackerEvolves ==
    ASSUME TypeInv, NEW L, NEW M, NEW A, NEW B, Evolves(L, M, A, B), NEW i \in Server, NEW j \in Server,
           TrackerFits(L, A, i, j), SameTracker(i, j)
    PROVE  TrackerFits(M, B, i, j)'
<1>0. repl[i] \in Nat
  BY DEF TypeInv, TypeOK, Term
<1>1. ASSUME repl'[i] # 0, Current(node'[i], repl'[i]), i # j, tracker'[i][j].next > 0
      PROVE  StartsAt(M, repl'[i], node'[j], tracker'[i][j].next)
  <2>1. repl'[i] = repl[i] /\ tracker'[i][j].next = tracker[i][j].next
    BY <1>1 DEF SameTracker
  <2>2. Current(node[i], repl[i])
    BY <1>1, <2>1 DEF Evolves
  <2>3. StartsAt(L, repl[i], node[j], tracker[i][j].next)
    BY <1>1, <2>1, <2>2 DEF TrackerFits
  <2>4. StartsAt(M, repl[i], node'[j], tracker[i][j].next)
    BY <1>0, <2>3, StartsEvolves
  <2> QED BY <2>1, <2>4
<1>2. ASSUME tracker'[i][j].match > 0
      PROVE  /\ Holds(M[repl'[i]], repl'[i], tracker'[i][j].match + 1)
             /\ Recorded(M, B, repl'[i], j, tracker'[i][j].match + 1)
  <2>1. repl'[i] = repl[i] /\ tracker'[i][j].match = tracker[i][j].match
    BY DEF SameTracker
  <2>2. /\ Holds(L[repl[i]], repl[i], tracker[i][j].match + 1)
        /\ Recorded(L, A, repl[i], j, tracker[i][j].match + 1)
    BY <1>2, <2>1 DEF TrackerFits
  <2>3. /\ Holds(M[repl[i]], repl[i], tracker[i][j].match + 1)
        /\ Recorded(M, B, repl[i], j, tracker[i][j].match + 1)
    <3>1. LedgerType(L) /\ LedgerType(M) /\ Grow(L, M) /\ A \subseteq B
      BY DEF Evolves
    <3> QED BY <1>0, <2>2, <3>1, RecordedEvolves
  <2> QED BY <2>1, <2>3
<1> QED
  BY <1>1, <1>2 DEF TrackerFits

LEMMA SendEvolves ==
    ASSUME TypeInv, NEW L, NEW M, NEW A, NEW B, Evolves(L, M, A, B), SendInv(L, A),
           \A m \in appReqs' : m \in appReqs \/ RequestFits(M, m)',
           \A a \in acks' : a \in acks \/ AnswerFits(M, B, a)',
           \A i, j \in Server : SameTracker(i, j) \/ NoTracker(i, j) \/ TrackerFits(M, B, i, j)'
    PROVE  SendInv(M, B)'
<1>1. ASSUME NEW m \in appReqs' PROVE RequestFits(M, m)'
  <2>1. CASE m \in appReqs
    <3>1. m \in AppReq /\ RequestFits(L, m)
      BY <2>1 DEF TypeInv, TypeOK, SendInv
    <3> QED BY <3>1, RequestEvolves
  <2> QED BY <1>1, <2>1
<1>2. ASSUME NEW a \in acks' PROVE AnswerFits(M, B, a)'
  <2>1. CASE a \in acks
    <3>1. a \in Ack /\ AnswerFits(L, A, a)
      BY <2>1 DEF TypeInv, TypeOK, SendInv
    <3> QED BY <3>1, AnswerEvolves
  <2> QED BY <1>2, <2>1
<1>3. ASSUME NEW i \in Server, NEW j \in Server PROVE TrackerFits(M, B, i, j)'
  <2>1. CASE SameTracker(i, j)
    BY <2>1, TrackerEvolves DEF SendInv
  <2>2. CASE NoTracker(i, j)
    BY <2>2 DEF TrackerFits, NoTracker
  <2> QED BY <1>3, <2>1, <2>2
<1> QED
  BY <1>1, <1>2, <1>3 DEF SendInv

\* Nobody becomes leader but the winner of an election, in a term of its own.
LEMMA EvolvesQuiet ==
    ASSUME TypeInv, TypeInv', VotesFaithful, NEW L, LogInv(L), NEW A,
           \A i \in Server : node'[i].log = node[i].log /\ NoNewLeader(node[i], node'[i])
    PROVE  Evolves(L, L, A, A)
<1>1. Leaders(L) /\ LedgerType(L) /\ Grow(L, L)
  BY LogLeaders, ItselfGrows DEF Leaders
<1>2. ASSUME NEW j \in Server, NEW u \in Nat, NEW p \in Nat, StartsAt(L, u, node[j], p)
      PROVE  StartsAt(L, u, node'[j], p)
  <2>1. NodeOK(node[j]) /\ node[j].term \in Nat /\ node'[j].term \in Nat
    BY DEF NodeOK, TypeInv, TypeOK, Node, Term
  <2>2. node[j].term <= node'[j].term
    BY <2>1 DEF VotesFaithful, Faithful
  <2>3. LogOfTerm(L, node[j].log, node[j].term)
    BY DEF LogInv
  <2> QED BY <1>1, <1>2, <2>1, <2>2, <2>3, StartsQuiet
<1>3. \A i \in Server : repl[i] # 0 /\ Current(node'[i], repl[i]) => Current(node[i], repl[i])
  BY DEF NoNewLeader, Current
<1> QED
  BY <1>1, <1>2, <1>3 DEF Evolves

LEMMA EvolvesLeads ==
    ASSUME TypeInv, TypeInv', LeaderInv, NEW L, LogInv(L), NEW M, NEW i \in Server, NEW T, LeadsOn(L, M, i, T),
           NEW A, NEW B, A \subseteq B, \/ \A e \in elected : e[2] # T
                                        \/ node[i].status = "LEADER"
    PROVE  Evolves(L, M, A, B)
<1>1. LedgerType(L) /\ LedgerType(M) /\ Grow(L, M) /\ T \in Nat
  BY LogLeaders DEF Leaders, LeadsOn
<1>2. ASSUME NEW j \in Server, NEW u \in Nat, NEW p \in Nat, StartsAt(L, u, node[j], p)
      PROVE  StartsAt(M, u, node'[j], p)
  BY <1>2, StartsLeads
<1>3. ASSUME NEW j \in Server, repl[j] # 0, Current(node'[j], repl[j])
      PROVE  Current(node[j], repl[j])
  <2>1. CASE j # i
    BY <1>3, <2>1 DEF LeadsOn, Current
  <2>2. CASE j = i
    <3>1. repl[i] = T /\ node[i].term = T /\ <<i, T>> \in elected
      BY <1>3, <2>2 DEF LeadsOn, Current, LeaderInv
    <3>2. <<i, T>>[2] = T
      OBVIOUS
    <3>3. node[i].status = "LEADER"
      BY <3>1, <3>2
    <3> QED BY <2>2, <3>1, <3>3 DEF Current
  <2> QED BY <2>1, <2>2
<1> QED
  BY <1>1, <1>2, <1>3 DEF Evolves

LEMMA EvolvesTook ==
    ASSUME TypeInv, TypeInv', NEW L, LogInv(L), NEW m \in AppReq, m.target \in Server, RequestFits(L, m),
           Took(L, m), \A i \in Server \ {m.target} : node'[i] = node[i],
           \A i \in Server : NoNewLeader(node[i], node'[i]), NEW A, NEW B, A \subseteq B
    PROVE  Evolves(L, L, A, B)
<1>1. LedgerType(L) /\ Grow(L, L)
  BY LogLeaders, ItselfGrows DEF Leaders
<1>2. ASSUME NEW j \in Server, NEW u \in Nat, NEW p \in Nat, StartsAt(L, u, node[j], p)
      PROVE  StartsAt(L, u, node'[j], p)
  <2>1. CASE j = m.target
    BY <1>2, <2>1, StartsTook
  <2>2. CASE j # m.target
    BY <1>2, <2>2
  <2> QED BY <2>1, <2>2
<1>3. \A i \in Server : repl[i] # 0 /\ Current(node'[i], repl[i]) => Current(node[i], repl[i])
  BY DEF NoNewLeader, Current
<1> QED
  BY <1>1, <1>2, <1>3 DEF Evolves

-----------------------------------------------------------------------------
(* New requests, answers and trackers *)

\* A leader begins to send from the end of its log.
LEMMA FirstFits ==
    ASSUME NEW L, Leaders(L), NEW u \in Nat, Len(L[u]) > 0, NEW n
    PROVE  StartsAt(L, u, n, Len(L[u]))
<1>1. Len(L[u]) \in Nat /\ L[u][Len(L[u])].term = u
  BY LeaderLog
<1> QED
  BY <1>1 DEF StartsAt

LEMMA SendActivate ==
    ASSUME TypeInv, TypeInv', VotesFaithful, ElectedInv, NEW L, LogInv(L), NEW A, SendInv(L, A),
           NEW i \in Server, ActivateReplicator(i)
    PROVE  SendInv(L, A)'
<1> DEFINE u == node[i].term
<1>1. /\ node' = node /\ appReqs' = appReqs /\ acks' = acks
      /\ repl' = [repl EXCEPT ![i] = u] /\ node[i].status = "LEADER"
      /\ tracker' = [tracker EXCEPT ![i] =
             [j \in Server |-> [NewTracker EXCEPT !.next = IF j = i THEN 0 ELSE LogSize(node[i])]]]
  BY DEF ActivateReplicator
<1>2. /\ u \in Nat /\ L[u] = node[i].log /\ Len(L[u]) > 0
  <2>1. node[i].log = L[u]
    BY <1>1 DEF LogInv
  <2> QED BY <2>1 DEF TypeInv, TypeOK, Node, Term
<1>3. /\ repl'[i] = u /\ \A k \in Server \ {i} : repl'[k] = repl[k]
      /\ \A k \in Server \ {i}, j \in Server : tracker'[k][j] = tracker[k][j]
      /\ \A j \in Server \ {i} : tracker'[i][j].next = Len(L[u]) /\ tracker'[i][j].match = 0
      /\ tracker'[i][i].next = 0 /\ tracker'[i][i].match = 0
  BY <1>1, <1>2 DEF TypeInv, TypeOK, NewTracker, LogSize
<1>4. Evolves(L, L, A, A)
  BY <1>1, EvolvesQuiet DEF NoNewLeader
<1>5. \A k, j \in Server : SameTracker(k, j) \/ NoTracker(k, j) \/ TrackerFits(L, A, k, j)'
  <2> SUFFICES ASSUME NEW k \in Server, NEW j \in Server
               PROVE  SameTracker(k, j) \/ NoTracker(k, j) \/ TrackerFits(L, A, k, j)'
    OBVIOUS
  <2>1. CASE k # i
    BY <1>3, <2>1 DEF SameTracker
  <2>2. CASE k = i /\ j = i
    BY <1>3, <2>2 DEF NoTracker
  <2>3. CASE k = i /\ j # i
    <3>1. StartsAt(L, u, node'[j], Len(L[u]))
      BY <1>2, LogLeaders, FirstFits
    <3>2. tracker'[i][j].next = Len(L[u]) /\ tracker'[i][j].match = 0 /\ repl'[i] = u
      BY <1>3, <2>3
    <3> QED BY <2>3, <3>1, <3>2 DEF TrackerFits
  <2> QED BY <2>1, <2>2, <2>3
<1> QED
  BY <1>1, <1>4, <1>5, SendEvolves

LEMMA SentFits ==
    ASSUME TypeInv, NEW L, LogInv(L), NEW A, SendInv(L, A), ElectedInv,
           "send" \notin Windows, NEW i \in Server, NEW j \in Server, NEW limit \in PayloadLimits,
           SendPayload(i, j, limit), NEW m, m = Sent(i, j, limit)
    PROVE  RequestFits(L, m)'
<1> DEFINE T == repl[i]
           next == tracker[i][j].next
           s == node[i].log
<1>1. /\ m.term = T /\ m.leader = i /\ m.target = j /\ m.prevIndex + 1 = next
      /\ m.prevTerm = s[next].term /\ m.entries \in Seq(Entry) /\ next \in Nat \ {0} /\ i # j
  BY SentEntries
<1>2. PICK size \in Nat : /\ Len(m.entries) = size /\ next + size <= Len(s)
                          /\ \A k \in 1..size : m.entries[k] = s[next + k]
                          /\ size = 0 => next = Len(s)
  <2> DEFINE size == PayloadSize(node[i], next, limit)
  <2>1. /\ Len(m.entries) = size /\ next + size <= Len(s) /\ size \in Nat
        /\ \A k \in 1..size : m.entries[k] = s[next + k]
        /\ size = 0 => next = Len(s)
    BY SentEntries
  <2> HIDE DEF size
  <2> QED BY <2>1
<1>3. /\ node' = node /\ Current(node[i], T)
  BY DEF SendPayload, CanSend, Sent
<1>4. T \in Nat /\ L[T] = s /\ Len(L[T]) \in Nat /\ <<i, T>> \in elected
  BY <1>3, LogLeaders, LeaderLog DEF Current, LogInv, ElectedInv, TypeInv, TypeOK, Term
<1>5. T # 0
  <2>1. <<i, T>>[2] > 0
    BY <1>4 DEF ElectedInv
  <2> QED BY <2>1
<1>6. CutFrom(m, L[m.term])
  <2>1. m.prevIndex + 1 + Len(m.entries) <= Len(L[m.term])
    BY <1>1, <1>2, <1>4
  <2>2. L[m.term][m.prevIndex + 1].term = m.prevTerm
    BY <1>1, <1>4
  <2>3. \A k \in 1..Len(m.entries) : m.entries[k] = L[m.term][m.prevIndex + 1 + k]
    BY <1>1, <1>2, <1>4, ZenonT(30)
  <2> QED BY <2>1, <2>2, <2>3 DEF CutFrom
<1>7. m.entries = <<>> => m.prevTerm = m.term
  <2> SUFFICES ASSUME m.entries = <<>> PROVE m.prevTerm = m.term
    OBVIOUS
  <2>1. size = 0
    BY <1>2
  <2>2. next = Len(L[T]) /\ Len(L[T]) > 0
    BY <1>1, <1>2, <1>4, <2>1
  <2>3. L[T][Len(L[T])].term = T
    BY <1>4, <2>2, LogLeaders, LeaderLog
  <2> QED BY <1>1, <1>4, <2>2, <2>3
<1>8. StartsAt(L, T, node[j], next)
  <2>1. TrackerFits(L, A, i, j)
    BY DEF SendInv
  <2> QED BY <1>1, <1>3, <1>5, <2>1 DEF TrackerFits
<1>9. StartsAt(L, m.term, node'[m.target], m.prevIndex + 1)
  BY <1>1, <1>3, <1>8
<1> QED
  BY <1>6, <1>7, <1>9 DEF RequestFits

LEMMA SendSend ==
    ASSUME TypeInv, TypeInv', VotesFaithful, ElectedInv, NEW L, LogInv(L), NEW A, SendInv(L, A),
           "send" \notin Windows, NEW i \in Server, NEW j \in Server, NEW limit \in PayloadLimits,
           SendPayload(i, j, limit)
    PROVE  SendInv(L, A)'
<1>1. PICK m : m = Sent(i, j, limit)
  OBVIOUS
<1>2. /\ node' = node /\ acks' = acks /\ repl' = repl
      /\ tracker' = [tracker EXCEPT ![i][j].inflight = {m}] /\ appReqs' = appReqs \cup {m}
  BY <1>1 DEF SendPayload, Sent
<1>3. RequestFits(L, m)'
  BY <1>1, SentFits
<1>4. Evolves(L, L, A, A)
  BY <1>2, EvolvesQuiet DEF NoNewLeader
<1>5. \A k, l \in Server : SameTracker(k, l)
  <2> SUFFICES ASSUME NEW k \in Server, NEW l \in Server PROVE SameTracker(k, l)
    OBVIOUS
  <2>1. tracker \in [Server -> [Server -> Tracker]]
    BY DEF TypeInv, TypeOK
  <2>2. /\ k = i /\ l = j => tracker'[k][l] = [tracker[i][j] EXCEPT !.inflight = {m}]
        /\ ~ (k = i /\ l = j) => tracker'[k][l] = tracker[k][l]
    BY <1>2, <2>1
  <2>3. tracker[i][j] \in Tracker
    BY <2>1
  <2>4. tracker'[k][l].next = tracker[k][l].next /\ tracker'[k][l].match = tracker[k][l].match
    BY <2>2, <2>3 DEF Tracker
  <2> QED BY <1>2, <2>4 DEF SameTracker
<1>6. \A n \in appReqs' : n \in appReqs \/ RequestFits(L, n)'
  <2> SUFFICES ASSUME NEW n \in appReqs', n \notin appReqs PROVE RequestFits(L, n)'
    OBVIOUS
  <2>1. n = m
    BY <1>2
  <2> QED BY <1>3, <2>1
<1> QED
  BY <1>2, <1>4, <1>5, <1>6, SendEvolves

\* The answer of a server that has taken the request.
LEMMA TookAnswer ==
    ASSUME TypeInv, TypeInv', NEW L, LogInv(L), LogInv(L)', NEW m \in AppReq, m.target \in Server,
           RequestFits(L, m), Took(L, m), NEW A, NEW B, Takes(A, B, m), NEW a, Answers(m, a), a.outcome
    PROVE  AnswerFits(L, B, a)'
<1> DEFINE new == node'[m.target]
           T == m.term
           k == Len(new.log)
<1>0. /\ new.log \in Seq(Entry) /\ k \in Nat /\ k > 0 /\ T \in Nat /\ LedgerType(L)
      /\ new.term = T /\ Len(L[T]) \in Nat
  <2>1. /\ new.log \in Seq(Entry) /\ k \in Nat /\ k > 0
    BY DEF TypeInv, TypeOK, Node
  <2>2. T \in Nat /\ LedgerType(L) /\ new.term = T
    BY LogLeaders DEF AppReq, Term, Leaders, Took
  <2> QED BY <2>1, <2>2, LedgerLen
<1>1. Aligned(L, T, new)
  BY AlignedAfter
<1>2. k <= Len(L[T]) /\ Agree(new.log, L[T], k)
  BY <1>1 DEF Aligned
<1>3. a.req = m /\ a.term = T /\ a.logSize = k
  BY <1>0 DEF Answers
<1>4. StartsAt(L, T, new, NextIndex(m.prevIndex + 1, a))
  <2>1. NextIndex(m.prevIndex + 1, a) = k
    BY <1>3 DEF NextIndex
  <2> QED BY <1>0, <1>1, <1>2, <2>1 DEF StartsAt
<1>5. Recorded(L, B, T, m.target, k)
  <2> SUFFICES ASSUME NEW x \in 1..k, Holds(L[T], T, x) PROVE <<m.target, T, x>> \in B
    BY DEF Recorded
  <2>1. new.log[x] = L[T][x]
    BY <1>2 DEF Agree
  <2>2. Holds(new.log, T, x)
    BY <2>1 DEF Holds
  <2> QED BY <2>2, TakesAcknowledges
<1>6. lastEntryTerm(m) = T => Holds(L[T], T, k)
  <2> SUFFICES ASSUME lastEntryTerm(m) = T PROVE Holds(L[T], T, k)
    OBVIOUS
  <2> DEFINE len == Len(m.entries)
             end == m.prevIndex + 1 + len
  <2>1. m.entries # <<>> /\ len \in Nat /\ len > 0 /\ m.prevIndex \in Nat /\ m.entries[len].term = T
    <3>1. m.entries # <<>> /\ m.entries \in Seq(Entry) /\ m.prevIndex \in Nat
      BY <1>0 DEF lastEntryTerm, AppReq
    <3>2. len \in Nat /\ len > 0
      BY <3>1
    <3> QED BY <3>1, <3>2 DEF lastEntryTerm
  <2>2. L[T][end].term = T /\ end <= Len(L[T])
    <3>1. /\ m.prevIndex + 1 + Len(m.entries) <= Len(L[T])
          /\ \A x \in 1..Len(m.entries) : m.entries[x] = L[T][m.prevIndex + 1 + x]
      BY DEF RequestFits, CutFrom
    <3>2. len \in 1..Len(m.entries)
      BY <2>1
    <3>3. m.entries[len] = L[T][end]
      BY <3>1, <3>2
    <3> QED BY <2>1, <3>1, <3>3
  <2>3. end \in Nat /\ end >= 1 /\ end <= k
    <3>1. Taken(node[m.target], new, m, L[T])
      BY DEF Took
    <3> QED BY <1>0, <2>1, <3>1 DEF Taken
  <2> HIDE DEF end, len
  <2>4. L[T] \in Seq(Entry) /\ Ordered(L[T]) /\ L[T][k].term <= T /\ L[T][k].term \in Nat
    BY <1>0, <1>2, LogLeaders, LeaderLog
  <2>5. L[T][end].term <= L[T][k].term
    BY <1>0, <1>2, <2>2, <2>3, <2>4 DEF Ordered
  <2>6. L[T][k].term = T
    BY <1>0, <2>2, <2>4, <2>5
  <2> QED BY <1>0, <1>2, <2>6 DEF Holds
<1> HIDE DEF new, k
<1> QED
  BY <1>3, <1>4, <1>5, <1>6 DEF AnswerFits, new

\* The answer of a server that has refused the request: the place before it, or
\* the end of a shorter log.
LEMMA RefusedAnswer ==
    ASSUME TypeInv, TypeInv', NEW L, LogInv(L), NEW A, Evolves(L, L, A, A), NEW m \in AppReq, m.target \in Server,
           RequestFits(L, m), Refused(m), node'[m.target].log = node[m.target].log,
           NEW a, Answers(m, a), ~ a.outcome
    PROVE  AnswerFits(L, A, a)'
<1> DEFINE n == node[m.target]
           new == node'[m.target]
           T == m.term
           p == m.prevIndex + 1
           k == Len(n.log)
<1>0. /\ n.log \in Seq(Entry) /\ k \in Nat /\ k > 0 /\ T \in Nat /\ m.prevIndex \in Nat /\ p \in Nat
      /\ p = m.prevIndex + 1 /\ L[T] \in Seq(Entry) /\ Len(L[T]) \in Nat
  <2>1. n.log \in Seq(Entry) /\ k \in Nat /\ k > 0
    BY DEF TypeInv, TypeOK, Node
  <2>2. T \in Nat /\ m.prevIndex \in Nat /\ LedgerType(L)
    BY LogLeaders DEF AppReq, Term, Leaders
  <2> QED BY <2>1, <2>2, LedgerLen
<1>1. a.req = m /\ a.term = new.term /\ a.logSize = k
  BY DEF Answers
<1>2. ASSUME new.term = T
      PROVE  StartsAt(L, T, new, NextIndex(p, a))
  <2>1. ~ (m.prevIndex < k /\ n.log[p].term = m.prevTerm)
    BY <1>2 DEF Refused, matchEntries, LogSize, TermAt
  <2>2. StartsAt(L, T, new, p)
    BY <1>0, StartsEvolves DEF RequestFits
  <2>3. p \in 1..Len(L[T]) /\ L[T][p].term = m.prevTerm
    BY <2>2 DEF StartsAt, RequestFits, CutFrom
  <2>4. p >= 2
    <3> SUFFICES ASSUME p = 1 PROVE FALSE
      BY <1>0, <2>3
    <3>1. L[T][1] = FirstEntry
      BY <1>0, <2>3, LogLeaders, LeaderLog
    <3>2. n.log[1] = FirstEntry
      BY <1>0 DEF LogInv, LogOfTerm, GoodLog
    <3>3. n.log[p].term = m.prevTerm /\ m.prevIndex < k
      <4>1. n.log[p] = L[T][p]
        BY <3>1, <3>2
      <4>2. m.prevIndex < k
        BY <1>0
      <4> QED BY <2>3, <4>1, <4>2
    <3> QED BY <2>1, <3>3
  <2> DEFINE q == NextIndex(p, a)
  <2>5. q = IF p > k THEN k ELSE p - 1
    BY <1>0, <1>1, <2>4 DEF NextIndex
  <2>6. q \in 1..Len(L[T])
    BY <1>0, <2>3, <2>4, <2>5, SMTT(30)
  <2>7. new.term = T /\ new.log = n.log /\ Len(new.log) = k
    BY <1>2
  <2>8. Aligned(L, T, new) \/ \A x \in 1..Len(new.log) :
            x <= Len(L[T]) /\ new.log[x].term = L[T][x].term => x <= q
    <3> SUFFICES ASSUME ~ Aligned(L, T, new), NEW x \in 1..k, x <= Len(L[T]), n.log[x].term = L[T][x].term
                 PROVE  x <= q
      BY <2>7
    <3>1. x <= p
      BY <2>2, <2>7 DEF StartsAt
    <3>2. p <= k => x # p
      BY <1>0, <2>1, <2>3, SMTT(30)
    <3> HIDE DEF q, p, k
    <3> QED BY <1>0, <2>5, <3>1, <3>2
  <2> HIDE DEF q, new
  <2>9. new.term < T => L[T][q].term = T
    BY <1>0, <2>7
  <2>10. StartsAt(L, T, new, q)
    BY <2>6, <2>8, <2>9 DEF StartsAt
  <2> QED BY <2>10 DEF q
<1> HIDE DEF n, k, new
<1> QED
  BY <1>1, <1>2 DEF AnswerFits, new

LEMMA AppendFrame ==
    ASSUME TypeInv, NEW m \in appReqs, AppendEntries(m)
    PROVE  /\ m \in AppReq /\ m.target \in Server /\ m.leader \in Server
           /\ node'[m.target] = appendEntries(node[m.target], m).node
           /\ \A i \in Server \ {m.target} : node'[i] = node[i]
           /\ \A i \in Server : NoNewLeader(node[i], node'[i])
           /\ appReqs' \subseteq appReqs /\ tracker' = tracker /\ repl' = repl
           /\ elected' = elected /\ director' = director /\ voteReqs' = voteReqs
<1>1. m \in AppReq /\ m.target \in Server /\ m.leader \in Server
  BY DEF TypeInv, TypeOK, AppReq
<1>2. node' = [node EXCEPT ![m.target] = appendEntries(node[m.target], m).node] /\ node \in [Server -> Node]
  BY DEF AppendEntries, TypeInv, TypeOK
<1>3. /\ node'[m.target] = appendEntries(node[m.target], m).node
      /\ \A i \in Server \ {m.target} : node'[i] = node[i]
  BY <1>1, <1>2
<1>4. ASSUME NEW i \in Server PROVE NoNewLeader(node[i], node'[i])
  <2>1. CASE i = m.target
    <3>1. NodeOK(node[i])
      BY DEF TypeInv, TypeOK, NodeOK
    <3> QED BY <1>1, <1>3, <2>1, <3>1, HandlerVote
  <2>2. CASE i # m.target
    BY <1>3, <2>2 DEF NoNewLeader
  <2> QED BY <2>1, <2>2
<1>5. /\ appReqs' \subseteq appReqs /\ tracker' = tracker /\ repl' = repl
      /\ elected' = elected /\ director' = director /\ voteReqs' = voteReqs
  BY DEF AppendEntries
<1> QED
  BY <1>1, <1>3, <1>4, <1>5

LEMMA SendTook ==
    ASSUME TypeInv, TypeInv', NEW L, LogInv(L), LogInv(L)', NEW A, SendInv(L, A), NEW m \in appReqs,
           AppendEntries(m), Took(L, m), \A a \in acks' \ acks : Answers(m, a) /\ a.outcome,
           NEW B, Takes(A, B, m)
    PROVE  SendInv(L, B)'
<1>1. /\ m \in AppReq /\ m.target \in Server /\ \A i \in Server \ {m.target} : node'[i] = node[i]
      /\ \A i \in Server : NoNewLeader(node[i], node'[i])
      /\ appReqs' \subseteq appReqs /\ tracker' = tracker /\ repl' = repl
  BY AppendFrame
<1>2. RequestFits(L, m)
  BY DEF SendInv
<1>3. A \subseteq B
  BY DEF Takes
<1>4. Evolves(L, L, A, B)
  BY <1>1, <1>2, <1>3, EvolvesTook
<1>5. \A a \in acks' : a \in acks \/ AnswerFits(L, B, a)'
  BY <1>1, <1>2, TookAnswer
<1>6. \A i, j \in Server : SameTracker(i, j)
  BY <1>1 DEF SameTracker
<1> QED
  BY <1>1, <1>4, <1>5, <1>6, SendEvolves

LEMMA SendRefused ==
    ASSUME TypeInv, TypeInv', VotesFaithful, NEW L, LogInv(L), NEW A, SendInv(L, A), NEW m \in appReqs,
           AppendEntries(m), Refused(m), \A a \in acks' \ acks : Answers(m, a) /\ ~ a.outcome
    PROVE  SendInv(L, A)' /\ \A i \in Server : node'[i].log = node[i].log /\ node'[i].commitIndex = node[i].commitIndex
<1>1. /\ m \in AppReq /\ m.target \in Server /\ \A i \in Server \ {m.target} : node'[i] = node[i]
      /\ \A i \in Server : NoNewLeader(node[i], node'[i])
      /\ appReqs' \subseteq appReqs /\ tracker' = tracker /\ repl' = repl
  BY AppendFrame
<1>2. RequestFits(L, m)
  BY DEF SendInv
<1>3. /\ node'[m.target].log = node[m.target].log
      /\ node'[m.target].commitIndex = node[m.target].commitIndex
  <2>1. NodeOK(node[m.target]) /\ m.term \in Nat /\ m.leader \in Server
    BY <1>1 DEF TypeInv, TypeOK, NodeOK, AppReq, Term
  <2> QED BY <2>1, ObservedType DEF Refused, Term
<1>4. \A i \in Server : node'[i].log = node[i].log /\ node'[i].commitIndex = node[i].commitIndex
  BY <1>1, <1>3
<1>5. Evolves(L, L, A, A)
  BY <1>1, <1>4, EvolvesQuiet
<1>6. \A a \in acks' : a \in acks \/ AnswerFits(L, A, a)'
  BY <1>1, <1>2, <1>3, <1>5, RefusedAnswer
<1>7. \A i, j \in Server : SameTracker(i, j)
  BY <1>1 DEF SameTracker
<1>8. SendInv(L, A)'
  BY <1>1, <1>5, <1>6, <1>7, SendEvolves
<1> QED
  BY <1>4, <1>8

LEMMA SendAck ==
    ASSUME TypeInv, TypeInv', VoteInv, VotesFaithful, AwaitInv, NEW L, LogInv(L), NEW A, SendInv(L, A),
           NEW a \in acks, HandleAck(a)
    PROVE  SendInv(L, A)'
<1> DEFINE i == a.req.leader
           j == a.req.target
           T == a.req.term
           n == observed(node[i], a.term, Nobody)
           t == tracker[i][j]
           next == IF Current(n, repl[i]) THEN NextIndex(t.next, a) ELSE -1
           match == IF a.term > repl[i] THEN t.match ELSE MatchAfter(i, a)[j]
<1>1. /\ i \in Server /\ j \in Server /\ i # j /\ T \in Nat /\ a.term \in Nat /\ a.logSize \in Nat \ {0}
      /\ repl[i] \in Nat /\ t.match \in Nat
  <2>1. a \in Ack /\ a.req \in AppReq
    BY DEF TypeInv, TypeOK, Ack
  <2>2. i \in Server /\ j \in Server /\ T \in Nat /\ a.term \in Nat /\ a.logSize \in Nat \ {0}
    BY <2>1 DEF Ack, AppReq, Term
  <2>3. i # j
    BY DEF TypeInv, TypeOK
  <2>4. t \in Tracker /\ repl[i] \in Nat
    BY <2>2 DEF TypeInv, TypeOK, Term
  <2> QED BY <2>2, <2>3, <2>4 DEF Tracker
<1>2. a.req \in t.inflight /\ a.term >= T
  BY DEF AwaitInv
<1>3. T = repl[i] /\ T # 0 /\ a.req.prevIndex + 1 = t.next
  BY <1>1, <1>2 DEF AwaitInv
<1>4. /\ tracker' = [tracker EXCEPT ![i][j] = [next |-> next, inflight |-> {}, match |-> match]]
      /\ repl' = repl /\ appReqs' = appReqs /\ acks' \subseteq acks
  BY DEF HandleAck
<1>5. /\ tracker'[i][j].next = next /\ tracker'[i][j].match = match
      /\ \A k, l \in Server : ~ (k = i /\ l = j) => tracker'[k][l] = tracker[k][l]
  <2>1. tracker \in [Server -> [Server -> Tracker]]
    BY DEF TypeInv, TypeOK
  <2> HIDE DEF i, j, next, match
  <2> QED BY <1>1, <1>4, <2>1
<1>6. /\ \A k \in Server : node'[k].log = node[k].log /\ NoNewLeader(node[k], node'[k])
      /\ node'[j] = node[j]
  BY <1>1, AckCalm DEF Calm
<1>7. Evolves(L, L, A, A)
  BY <1>6, EvolvesQuiet
<1>8. AnswerFits(L, A, a) /\ TrackerFits(L, A, i, j)
  BY <1>1 DEF SendInv
<1>9. ASSUME next > 0
      PROVE  StartsAt(L, T, node[j], next)
  <2>1. Current(n, repl[i]) /\ next = NextIndex(t.next, a)
    BY <1>9
  <2>2. n.term >= a.term
    <3>1. NodeOK(node[i]) /\ Durable(node[i])
      BY <1>1 DEF TypeInv, TypeOK, NodeOK, VoteInv, DurableVote, Durable
    <3> QED BY <1>1, <3>1, ObservedVote
  <2>3. a.term = T
    BY <1>1, <1>2, <1>3, <2>1, <2>2 DEF Current
  <2>4. StartsAt(L, T, node[j], NextIndex(a.req.prevIndex + 1, a))
    BY <1>8, <2>3 DEF AnswerFits
  <2> QED BY <1>3, <2>1, <2>4
<1>10. ASSUME match > 0
       PROVE  Holds(L[T], T, match + 1) /\ Recorded(L, A, T, j, match + 1)
  <2>1. CASE match = t.match
    <3>1. t.match > 0
      BY <1>10, <2>1
    <3> QED BY <1>3, <1>8, <2>1, <3>1 DEF TrackerFits
  <2>2. CASE match # t.match
    <3>1. match = MatchAfter(i, a)[j]
      BY <2>2
    <3>2. MatchAfter(i, a)[j] = IF a.outcome /\ lastEntryTerm(a.req) = a.req.term
                                THEN a.logSize - 1 ELSE t.match
      BY <1>1 DEF MatchAfter
    <3>3. a.outcome /\ lastEntryTerm(a.req) = T /\ match = a.logSize - 1
      BY <2>2, <3>1, <3>2
    <3>4. match + 1 = a.logSize
      BY <1>1, <3>3
    <3> QED BY <1>8, <3>3, <3>4 DEF AnswerFits
  <2> QED BY <2>1, <2>2
<1> HIDE DEF next, match
<1>11. TrackerFits(L, A, i, j)'
  <2> HIDE DEF i, j, T
  <2>1. repl'[i] = T /\ T # 0 /\ node'[j] = node[j]
    BY <1>3, <1>4, <1>6
  <2> QED BY <1>5, <1>9, <1>10, <2>1 DEF TrackerFits
<1>12. \A k, l \in Server : SameTracker(k, l) \/ TrackerFits(L, A, k, l)'
  <2> SUFFICES ASSUME NEW k \in Server, NEW l \in Server
               PROVE  SameTracker(k, l) \/ TrackerFits(L, A, k, l)'
    OBVIOUS
  <2>1. CASE k = i /\ l = j
    BY <1>11, <2>1
  <2>2. CASE ~ (k = i /\ l = j)
    BY <1>4, <1>5, <2>2 DEF SameTracker
  <2> QED BY <2>1, <2>2
<1> QED
  BY <1>4, <1>7, <1>12, SendEvolves

\* Nothing new is sent or answered, and trackers at most stop.
Unsent ==
    /\ appReqs' \subseteq appReqs /\ acks' \subseteq acks
    /\ \A i, j \in Server : SameTracker(i, j) \/ NoTracker(i, j)

UnsentNext ==
    \/ \E i \in Server :
          \/ ObserveTerm(i) \/ RunForLeader(i) \/ AbandonElection(i) \/ BeginElection(i)
          \/ \E R \in SUBSET {r \in voteReplies : r.to = i},
                late \in SUBSET {q \in voteReqs : q.candidate = i} : ConcludeElection(i, R, late)
          \/ DeactivateReplicator(i) \/ ServiceBegin(i) \/ \E v \in Value : ServiceAppend(i, v)
          \/ Restart(i) \/ \E h \in heartbeats : Heartbeat(i, h)
          \/ \E j \in Server :
                \/ \E limit \in PayloadLimits : HaltReplication(i, j, limit)
                \/ \E lost \in BOOLEAN : AckTimeout(i, j, lost)
    \/ \E q \in voteReqs : RequestVote(q)
    \/ \E m \in appReqs : LoseRequest(m)

LEMMA UnsentStep ==
    ASSUME TypeInv, UnsentNext
    PROVE  Unsent
<1> DEFINE Same == tracker' = tracker /\ repl' = repl /\ acks' = acks /\ appReqs' \subseteq appReqs
<1>0. tracker \in [Server -> [Server -> Tracker]] /\ repl \in [Server -> Nat]
  BY DEF TypeInv, TypeOK, Term
<1>1. Same => Unsent
  BY DEF Unsent, SameTracker
<1>2. ASSUME NEW i \in Server,
             ObserveTerm(i) \/ RunForLeader(i) \/ AbandonElection(i) \/ BeginElection(i) \/ ServiceBegin(i)
      PROVE  Same
  BY <1>2 DEF ObserveTerm, RunForLeader, AbandonElection, BeginElection, ServiceBegin, net
<1>3. ASSUME NEW i \in Server, NEW R, NEW late, ConcludeElection(i, R, late)
      PROVE  Same
  BY <1>3 DEF ConcludeElection
<1>4. ASSUME NEW i \in Server, NEW v, ServiceAppend(i, v)
      PROVE  Same
  BY <1>4 DEF ServiceAppend, net
<1>5. ASSUME NEW i \in Server, NEW h, Heartbeat(i, h)
      PROVE  Same
  BY <1>5 DEF Heartbeat, net
<1>6. ASSUME NEW q, RequestVote(q)
      PROVE  Same
  BY <1>6 DEF RequestVote
<1>7. ASSUME NEW m, LoseRequest(m)
      PROVE  Same
  BY <1>7 DEF LoseRequest
<1>8. ASSUME NEW i \in Server, DeactivateReplicator(i) \/ Restart(i)
      PROVE  Unsent
  <2>1. /\ tracker' = [tracker EXCEPT ![i] = [j \in Server |-> NewTracker]]
        /\ repl' = [repl EXCEPT ![i] = 0] /\ acks' \subseteq acks /\ appReqs' = appReqs
    BY <1>8 DEF DeactivateReplicator, Restart
  <2>2. ASSUME NEW k \in Server, NEW l \in Server
        PROVE  SameTracker(k, l) \/ NoTracker(k, l)
    <3>1. CASE k = i
      <4>1. tracker'[k][l].next = 0 /\ tracker'[k][l].match = 0
        BY <1>0, <2>1, <3>1 DEF NewTracker
      <4> QED BY <4>1 DEF NoTracker
    <3>2. CASE k # i
      BY <1>0, <2>1, <3>2 DEF SameTracker
    <3> QED BY <3>1, <3>2
  <2> QED BY <2>1, <2>2 DEF Unsent
<1>9. ASSUME NEW i \in Server, NEW j \in Server, NEW x, HaltReplication(i, j, x) \/ AckTimeout(i, j, x)
      PROVE  Unsent
  <2>1. PICK next, waits :
          /\ next = tracker[i][j].next \/ next = -1
          /\ tracker' = [tracker EXCEPT ![i][j] = [tracker[i][j] EXCEPT !.next = next, !.inflight = waits]]
    <3>1. CASE HaltReplication(i, j, x)
      <4>1. tracker' = [tracker EXCEPT ![i][j].next = -1]
        BY <3>1 DEF HaltReplication
      <4>2. tracker[i][j] \in Tracker
        BY <1>0
      <4>3. [tracker[i][j] EXCEPT !.next = -1]
              = [tracker[i][j] EXCEPT !.next = -1, !.inflight = tracker[i][j].inflight]
        BY <4>2 DEF Tracker
      <4> QED BY <1>0, <4>1, <4>3
    <3>2. CASE AckTimeout(i, j, x)
      <4> DEFINE next == IF Current(node[i], repl[i]) THEN tracker[i][j].next ELSE -1
      <4>1. tracker' = [tracker EXCEPT ![i][j].inflight = {},
                                       ![i][j].next = IF Current(node[i], repl[i]) THEN @ ELSE -1]
        BY <3>2 DEF AckTimeout
      <4>2. tracker[i][j] \in Tracker
        BY <1>0
      <4>3. tracker' = [tracker EXCEPT ![i][j] = [tracker[i][j] EXCEPT !.next = next, !.inflight = {}]]
        BY <1>0, <4>1, <4>2 DEF Tracker
      <4>4. next = tracker[i][j].next \/ next = -1
        OBVIOUS
      <4> HIDE DEF next
      <4> QED BY <4>3, <4>4
    <3> QED BY <1>9, <3>1, <3>2
  <2>2. repl' = repl /\ acks' \subseteq acks /\ appReqs' \subseteq appReqs
    <3>1. CASE HaltReplication(i, j, x)
      BY <3>1 DEF HaltReplication, net
    <3>2. CASE AckTimeout(i, j, x)
      BY <3>2 DEF AckTimeout
    <3> QED BY <1>9, <3>1, <3>2
  <2>3. ASSUME NEW k \in Server, NEW l \in Server
        PROVE  SameTracker(k, l)
    <3>1. CASE k = i /\ l = j
      <4>1. tracker[i][j] \in Tracker
        BY <1>0
      <4>2. tracker'[i][j].next = next /\ tracker'[i][j].match = tracker[i][j].match
        BY <1>0, <2>1, <4>1 DEF Tracker
      <4>3. tracker'[i][j].next = tracker[i][j].next \/ ~ (tracker'[i][j].next > 0)
        BY <2>1, <4>2
      <4> QED BY <2>2, <3>1, <4>2, <4>3 DEF SameTracker
    <3>2. CASE ~ (k = i /\ l = j)
      BY <1>0, <2>1, <2>2, <3>2 DEF SameTracker
    <3> QED BY <3>1, <3>2
  <2> QED BY <2>2, <2>3 DEF Unsent
<1> HIDE DEF Same
<1> QED
  BY <1>1, <1>2, <1>3, <1>4, <1>5, <1>6, <1>7, <1>8, <1>9 DEF UnsentNext

LEMMA SendQuiet ==
    ASSUME TypeInv, TypeInv', VotesFaithful, NEW L, LogInv(L), NEW A, SendInv(L, A), Unsent,
           \A i \in Server : node'[i].log = node[i].log /\ NoNewLeader(node[i], node'[i])
    PROVE  SendInv(L, A)'
<1>1. Evolves(L, L, A, A)
  BY EvolvesQuiet
<1> QED
  BY <1>1, SendEvolves DEF Unsent

LEMMA SendLeads ==
    ASSUME TypeInv, TypeInv', LeaderInv, NEW L, LogInv(L), NEW A, SendInv(L, A), Unsent,
           NEW M, NEW i \in Server, NEW T, LeadsOn(L, M, i, T), NEW B, A \subseteq B,
           \/ \A e \in elected : e[2] # T
           \/ node[i].status = "LEADER"
    PROVE  SendInv(M, B)'
<1>1. Evolves(L, M, A, B)
  BY EvolvesLeads
<1> QED
  BY <1>1, SendEvolves DEF Unsent

=============================================================================
