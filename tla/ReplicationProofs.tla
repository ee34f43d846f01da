-------------------------- MODULE ReplicationProofs --------------------------
(***************************************************************************)
(* The lease of a leader is honest: whatever answers are late, lost or     *)
(* left behind on a broken connection, a contact that is counted is one    *)
(* the target knows of.  And so are its commits: what a target has         *)
(* acknowledged it stores, as long as the leader has not been deposed.     *)
(***************************************************************************)
EXTENDS Replication, Functions, FiniteSetTheorems, SequenceTheorems, WellFoundedInduction, TLAPS

-----------------------------------------------------------------------------
(* The invariant *)

IsQueue(q) == q \in Seq(Range(q))

\* A target that was last in touch at the time n.heard; the leader counts the
\* contact c, and the clock is at w.
NodeOK(n, c, w) ==
    /\ DOMAIN n = {"term", "log", "commitIndex", "heard"}
    /\ n.heard \in Nat /\ c \in Nat /\ c <= n.heard /\ n.heard <= w

\* An answer that the target gave in the leader's term was given after the request
\* was sent, so the target, last in touch at h, knows of it.
ItemOK(i, h, w) ==
    /\ DOMAIN i = {"from", "size", "sent", "answer", "lastEntryTerm"}
    /\ i.sent \in Nat /\ i.sent <= w
    /\ i.answer.state = "ok" /\ ~ (i.answer.term > T) => i.sent <= h

QueueOK(q, h, w) == IsQueue(q) /\ \A k \in 1..Len(q) : ItemOK(q[k], h, w)

BeatOK(b, h, w) ==
    /\ DOMAIN b = {"state", "sent", "term"}
    /\ b.sent \in Nat /\ b.sent <= w
    /\ b.state = "answered" /\ ~ (b.term > T) => b.sent <= h

\* Whoever waits for an answer has asked for one, and does not stream.
WaitOK(tr, q) ==
    /\ {"pc", "streaming"} \subseteq DOMAIN tr
    /\ tr.pc = "wait" => tr.streaming = "no" /\ Len(q) > 0

TargetOK(t) ==
    /\ NodeOK(node[t], contact[t], now)
    /\ QueueOK(inFlight[t], node[t].heard, now)
    /\ BeatOK(beat[t], node[t].heard, now)
    /\ WaitOK(tracker[t], inFlight[t])

LeaseInv ==
    /\ now \in Nat /\ full \subseteq Target
    /\ DOMAIN node = Target /\ DOMAIN contact = Target /\ DOMAIN inFlight = Target
    /\ DOMAIN beat = Target /\ DOMAIN tracker = Target
    /\ \A t \in Target : TargetOK(t)

-----------------------------------------------------------------------------
(* Numbers: the k-th smallest value *)

LEMMA MaxOfTwo ==
    ASSUME NEW a \in Nat, NEW b \in Nat
    PROVE  Max({a, b}) = IF a >= b THEN a ELSE b
<1>1. \E x \in {a, b} : \A y \in {a, b} : x >= y
  OBVIOUS
<1>2. Max({a, b}) \in {a, b} /\ \A y \in {a, b} : Max({a, b}) >= y
  BY <1>1 DEF Max
<1> QED
  BY <1>2

\* How many values of f over S are at most v.
UpTo(f, S, v) == {t \in S : f[t] <= v}
Below(f, S, v) == {t \in S : f[t] < v}
OneOf(f, S, v) == \E t \in S : f[t] = v

LEMMA Counted ==
    ASSUME NEW S, IsFiniteSet(S), NEW f, NEW v
    PROVE  /\ IsFiniteSet(UpTo(f, S, v)) /\ Cardinality(UpTo(f, S, v)) \in Nat
           /\ IsFiniteSet(Below(f, S, v)) /\ Cardinality(Below(f, S, v)) \in Nat
<1>1. UpTo(f, S, v) \in SUBSET S /\ Below(f, S, v) \in SUBSET S
  BY DEF UpTo, Below
<1> QED
  BY <1>1, FS_Subset, FS_CardinalityType

\* The k-th smallest value: one of the values, at most k are smaller.
LEMMA NthFacts ==
    ASSUME NEW S, IsFiniteSet(S), NEW f, \A t \in S : f[t] \in Nat,
           NEW n \in Nat, \A t \in S : f[t] <= n, NEW k \in Nat, k < Cardinality(S)
    PROVE  Nth(f, S, k) \in Nat /\ Cardinality(Below(f, S, Nth(f, S, k))) <= k /\ OneOf(f, S, Nth(f, S, k))
<1>1. PICK W : W = {x \in Nat : Cardinality(UpTo(f, S, x)) > k}
  OBVIOUS
<1>2. n \in W
  <2>1. UpTo(f, S, n) = S
    BY Zenon DEF UpTo
  <2>2. Cardinality(S) \in Nat /\ Cardinality(S) > k
    BY FS_CardinalityType
  <2> QED BY <1>1, <2>1, <2>2
<1>3. PICK x \in W : \A y \in W : ~ (<<y, x>> \in OpToRel(<, Nat))
  <2>1. W \subseteq Nat /\ W # {}
    BY <1>1, <1>2
  <2> QED BY <2>1, WFMin, NatLessThanWellFounded
<1>4. x \in Nat /\ Cardinality(UpTo(f, S, x)) > k /\ \A y \in W : ~ (y < x)
  BY <1>1, <1>3 DEF OpToRel
<1>5. Cardinality(Below(f, S, x)) <= k
  <2>1. CASE x = 0
    <3>1. \A t \in S : ~ (f[t] < x)
      BY <2>1
    <3>2. Below(f, S, x) = {}
      BY <3>1, Zenon DEF Below
    <3> QED BY <3>2, FS_EmptySet
  <2>2. CASE x > 0
    <3>1. x - 1 \in Nat /\ x - 1 \notin W
      BY <1>4, <2>2
    <3>2. ~ (Cardinality(UpTo(f, S, x - 1)) > k) /\ Cardinality(UpTo(f, S, x - 1)) \in Nat
      BY <1>1, <3>1, Counted
    <3>3. \A t \in S : f[t] < x <=> f[t] <= x - 1
      BY <1>4
    <3>4. Below(f, S, x) = UpTo(f, S, x - 1)
      BY <3>3, Zenon DEF Below, UpTo
    <3> QED BY <3>2, <3>4
  <2> QED BY <1>4, <2>1, <2>2
<1>6. x \in {f[t] : t \in S}
  <2> SUFFICES ASSUME \A t \in S : f[t] # x PROVE FALSE
    OBVIOUS
  <2>1. \A t \in S : f[t] < x <=> f[t] <= x
    BY <1>4
  <2>2. Below(f, S, x) = UpTo(f, S, x)
    BY <2>1, Zenon DEF Below, UpTo
  <2>3. Cardinality(UpTo(f, S, x)) \in Nat
    BY Counted
  <2> QED BY <1>4, <1>5, <2>2, <2>3
<1>7. \E v \in {f[t] : t \in S} : Cardinality({t \in S : f[t] < v}) <= k /\ Cardinality({t \in S : f[t] <= v}) > k
  BY <1>4, <1>5, <1>6 DEF UpTo, Below
<1>8. /\ Nth(f, S, k) \in {f[t] : t \in S}
      /\ Cardinality({t \in S : f[t] < Nth(f, S, k)}) <= k
  BY <1>7 DEF Nth
<1> QED
  BY <1>8 DEF Below, OneOf

\* A lease that counts contacts the targets know of is honest.
LEMMA HonestLease ==
    ASSUME LeaseInv PROVE LeaseHonest
<1>1. full \subseteq Target /\ IsFiniteSet(full) /\ now \in Nat /\ Lease \in Nat
  <2>1. full \in SUBSET Target /\ now \in Nat
    BY DEF LeaseInv
  <2> QED BY <2>1, ReplicationAssumption, FS_Subset
<1>2. \A t \in full : /\ contact[t] \in Nat /\ contact[t] <= now
                      /\ node[t].heard \in Nat /\ contact[t] <= node[t].heard
  BY <1>1 DEF LeaseInv, TargetOK, NodeOK
<1>3. PICK c \in Nat : c = Cardinality(full)
  BY <1>1, FS_CardinalityType
<1>4. PICK q \in Nat : q = quorumSize /\ q = (c + 1) \div 2 + 1
  BY <1>3 DEF quorumSize
<1>5. PICK H : H = {t \in full : node[t].heard + Lease >= getDeadline}
  OBVIOUS
<1>6. H \in SUBSET full
  BY <1>5
<1>7. IsFiniteSet(H) /\ Cardinality(H) \in Nat
  BY <1>1, <1>6, FS_Subset, FS_CardinalityType
<1>8. CASE full = {}
  <2>1. c = 0
    BY <1>3, <1>8, FS_EmptySet
  <2>2. q = 1
    BY <1>4, <2>1
  <2> QED BY <1>4, <1>5, <1>7, <2>2 DEF LeaseHonest
<1>9. CASE full # {}
  <2>1. c # 0
    BY <1>1, <1>3, <1>9, FS_EmptySet
  <2>2. c + 1 - q \in Nat /\ c + 1 - q < c
    BY <1>3, <1>4, <2>1
  <2>3. PICK k \in Nat : k = c + 1 - q
    BY <2>2
  <2>4. PICK v : v = Nth(contact, full, k)
    OBVIOUS
  <2>5. v \in Nat /\ Cardinality(Below(contact, full, v)) <= k
    BY <1>1, <1>2, <1>3, <2>2, <2>3, <2>4, NthFacts
  <2>6. getDeadline = v + Lease
    BY <1>3, <1>4, <1>9, <2>3, <2>4 DEF getDeadline
  <2>7. PICK B : B = Below(contact, full, v)
    OBVIOUS
  <2>8. B \in SUBSET full /\ IsFiniteSet(B) /\ Cardinality(B) \in Nat
    <3>1. B \in SUBSET full
      BY <2>7 DEF Below
    <3> QED BY <1>1, <2>7, <3>1, Counted
  <2>9. \A t \in full : t \notin B => node[t].heard + Lease >= getDeadline
    BY <1>1, <1>2, <2>5, <2>6, <2>7 DEF Below
  <2>10. full \ B \in SUBSET H
    BY <1>5, <2>9
  <2>11. Cardinality(full \ B) <= Cardinality(H)
    BY <1>7, <2>10, FS_Subset
  <2>12. full \cap B = B
    BY <2>8
  <2>13. Cardinality(full \ B) = c - Cardinality(B)
    <3>1. Cardinality(full \ B) = Cardinality(full) - Cardinality(full \cap B)
      BY <1>1, FS_Difference
    <3> QED BY <1>3, <2>12, <3>1
  <2>14. Cardinality(B) <= k
    BY <2>5, <2>7
  <2>15. Cardinality(H) + 1 >= q
    BY <1>4, <1>7, <2>3, <2>8, <2>11, <2>13, <2>14
  <2> QED BY <1>4, <1>5, <2>15 DEF LeaseHonest
<1> QED
  BY <1>8, <1>9

-----------------------------------------------------------------------------
(* Queues *)

LEMMA QueueFacts ==
    ASSUME NEW S, NEW q \in Seq(S)
    PROVE  IsQueue(q) /\ DOMAIN q = 1..Len(q) /\ Len(q) \in Nat
<1>1. Len(q) \in Nat /\ DOMAIN q = 1..Len(q) /\ q \in [1..Len(q) -> S]
  BY LenProperties
<1>2. q \in [1..Len(q) -> Range(q)]
  BY <1>1 DEF Range
<1>3. q \in Seq(Range(q))
  BY <1>1, <1>2, SeqDef
<1> QED
  BY <1>1, <1>3 DEF IsQueue

LEMMA EmptyOK ==
    ASSUME NEW h, NEW n PROVE QueueOK(<<>>, h, n)
<1>1. <<>> \in Seq({})
  OBVIOUS
<1>2. Len(<<>>) = 0 /\ 1..0 = {}
  OBVIOUS
<1> QED
  BY <1>1, <1>2, QueueFacts DEF QueueOK

LEMMA AppendOK ==
    ASSUME NEW q, NEW h, NEW n, QueueOK(q, h, n), NEW i, ItemOK(i, h, n)
    PROVE  QueueOK(Append(q, i), h, n) /\ Len(Append(q, i)) > 0
<1>1. PICK S : S = Range(q) \cup {i}
  OBVIOUS
<1>2. q \in Seq(S) /\ i \in S
  <2>1. q \in Seq(Range(q)) /\ Range(q) \subseteq S /\ i \in S
    BY <1>1 DEF QueueOK, IsQueue
  <2> QED BY <2>1, SeqMonotonic
<1>3. PICK w : w = Append(q, i)
  OBVIOUS
<1>4. w \in Seq(S) /\ Len(w) = Len(q) + 1 /\ (\A k \in 1..Len(q) : w[k] = q[k]) /\ w[Len(q) + 1] = i /\ Len(q) \in Nat
  BY <1>2, <1>3, AppendProperties, LenProperties
<1>5. \A k \in 1..Len(w) : ItemOK(w[k], h, n)
  <2> SUFFICES ASSUME NEW k \in 1..Len(w) PROVE ItemOK(w[k], h, n)
    OBVIOUS
  <2>1. k \in 1..Len(q) \/ k = Len(q) + 1
    BY <1>4
  <2> QED BY <1>4, <2>1 DEF QueueOK
<1>6. IsQueue(w) /\ Len(w) > 0
  BY <1>4, QueueFacts
<1> QED
  BY <1>3, <1>5, <1>6 DEF QueueOK

LEMMA TailOK ==
    ASSUME NEW q, NEW h, NEW n, QueueOK(q, h, n), q # <<>>
    PROVE  QueueOK(Tail(q), h, n) /\ ItemOK(Head(q), h, n)
<1>1. q \in Seq(Range(q))
  BY DEF QueueOK, IsQueue
<1>2. Len(q) \in Nat /\ Len(q) > 0
  BY <1>1, EmptySeq, LenProperties
<1>3. PICK w : w = Tail(q)
  OBVIOUS
<1>4. w \in Seq(Range(q)) /\ Len(w) = Len(q) - 1 /\ (\A k \in 1..Len(w) : w[k] = q[k + 1]) /\ Head(q) = q[1]
  BY <1>1, <1>2, <1>3, HeadTailProperties
<1>5. \A k \in 1..Len(w) : ItemOK(w[k], h, n)
  <2> SUFFICES ASSUME NEW k \in 1..Len(w) PROVE ItemOK(w[k], h, n)
    OBVIOUS
  <2>1. k + 1 \in 1..Len(q)
    BY <1>2, <1>4
  <2> QED BY <1>4, <2>1 DEF QueueOK
<1>6. ItemOK(Head(q), h, n)
  BY <1>2, <1>4 DEF QueueOK
<1> QED
  BY <1>3, <1>4, <1>5, <1>6, QueueFacts DEF QueueOK

\* A queue whose items are replaced by others.
LEMMA SameLength ==
    ASSUME NEW q, IsQueue(q), NEW w, w = [k \in DOMAIN q |-> w[k]], NEW h, NEW n, \A k \in 1..Len(q) : ItemOK(w[k], h, n)
    PROVE  QueueOK(w, h, n) /\ Len(w) = Len(q)
<1>1. Len(q) \in Nat /\ DOMAIN q = 1..Len(q)
  BY LenProperties DEF IsQueue
<1>2. w \in [1..Len(q) -> Range(w)]
  BY <1>1 DEF Range
<1>3. w \in Seq(Range(w))
  BY <1>1, <1>2, SeqDef
<1>4. DOMAIN w = 1..Len(q) /\ DOMAIN w = 1..Len(w) /\ Len(w) \in Nat
  BY <1>1, <1>2, <1>3, LenProperties
<1>5. Len(w) = Len(q)
  BY <1>1, <1>4
<1> QED
  BY <1>3, <1>5 DEF QueueOK, IsQueue

LEMMA DeliverOK ==
    ASSUME NEW q, NEW h, NEW n, QueueOK(q, h, n), NEW a, h = n \/ a.term > T
    PROVE  QueueOK(deliver(q, a), h, n) /\ Len(deliver(q, a)) = Len(q)
<1>1. PICK j : j = Min({k \in DOMAIN q : q[k].answer = Pending})
  OBVIOUS
<1>2. PICK w : w = [q EXCEPT ![j] = [q[j] EXCEPT !.answer = a]]
  OBVIOUS
<1>3. w = deliver(q, a)
  BY <1>1, <1>2 DEF deliver
<1>4. IsQueue(q) /\ DOMAIN q = 1..Len(q) /\ \A k \in 1..Len(q) : ItemOK(q[k], h, n)
  BY LenProperties DEF QueueOK, IsQueue
<1>5. w = [k \in DOMAIN q |-> w[k]]
  BY <1>2
<1>6. ASSUME NEW k \in 1..Len(q) PROVE ItemOK(w[k], h, n)
  <2>1. CASE k # j
    BY <1>2, <1>4, <2>1
  <2>2. CASE k = j
    <3>1. PICK i, i2 : i = q[j] /\ i2 = [i EXCEPT !.answer = a]
      OBVIOUS
    <3>2. w[k] = i2 /\ ItemOK(i, h, n)
      BY <1>2, <1>4, <2>2, <3>1
    <3>3. DOMAIN i2 = DOMAIN i /\ i2.sent = i.sent /\ i2.answer = a
      BY <3>1, <3>2 DEF ItemOK
    <3> QED BY <3>2, <3>3 DEF ItemOK
  <2> QED BY <2>1, <2>2
<1> QED
  BY <1>3, <1>4, <1>5, <1>6, SameLength

\* Later, when the target has been in touch again.
LEMMA LaterItem ==
    ASSUME NEW i, NEW h \in Nat, NEW n, ItemOK(i, h, n), NEW g \in Nat, h <= g
    PROVE  ItemOK(i, g, n)
BY DEF ItemOK

LEMMA LaterQueue ==
    ASSUME NEW q, NEW h \in Nat, NEW n, QueueOK(q, h, n), NEW g \in Nat, h <= g
    PROVE  QueueOK(q, g, n)
BY LaterItem DEF QueueOK

LEMMA LaterBeat ==
    ASSUME NEW b, NEW h \in Nat, NEW n, BeatOK(b, h, n), NEW g \in Nat, h <= g
    PROVE  BeatOK(b, g, n)
BY DEF BeatOK

-----------------------------------------------------------------------------
(* Steps of one target *)

Fields == {"term", "log", "commitIndex", "heard"}

\* What the target does with a request, if it is not of a later term.
LEMMA Handled ==
    ASSUME NEW n, DOMAIN n = Fields, NEW r, NEW m, m = appendEntries(n, r)
    PROVE  DOMAIN m = Fields /\ (n.term > T => m = n) /\ (~ (n.term > T) => m.heard = now)
<1>1. PICK n2 : n2 = heardFrom(n)
  OBVIOUS
<1>2. DOMAIN n2 = Fields /\ n2.heard = now
  BY <1>1 DEF heardFrom, Fields
<1>3. \A l, c : LET n3 == [[n2 EXCEPT !.log = l] EXCEPT !.commitIndex = c] IN DOMAIN n3 = Fields /\ n3.heard = now
  BY <1>2 DEF Fields
<1>4. m = n \/ m = n2 \/ \E l, c : m = [[n2 EXCEPT !.log = l] EXCEPT !.commitIndex = c]
  BY <1>1 DEF appendEntries, setCommitIndex
<1>5. n.term > T => m = n
  BY DEF appendEntries
<1>6. ~ (n.term > T) => m = n2 \/ \E l, c : m = [[n2 EXCEPT !.log = l] EXCEPT !.commitIndex = c]
  BY <1>1 DEF appendEntries, setCommitIndex
<1> QED
  BY <1>2, <1>3, <1>4, <1>5, <1>6

\* g is f, except at t.
Differs(f, g, t) == DOMAIN g = Target /\ \A u \in Target : u # t => g[u] = f[u]

LEMMA OneTarget ==
    ASSUME LeaseInv, NEW t \in Target, now' = now, full' \subseteq Target,
           Differs(node, node', t), Differs(contact, contact', t), Differs(inFlight, inFlight', t),
           Differs(beat, beat', t), Differs(tracker, tracker', t), TargetOK(t)'
    PROVE  LeaseInv'
<1>1. \A u \in Target : TargetOK(u)
  BY DEF LeaseInv
<1>2. ASSUME NEW u \in Target, u # t PROVE TargetOK(u)'
  <2>1. node'[u] = node[u] /\ contact'[u] = contact[u] /\ inFlight'[u] = inFlight[u] /\ beat'[u] = beat[u] /\ tracker'[u] = tracker[u]
    BY <1>2 DEF Differs
  <2> QED BY <1>1, <2>1 DEF TargetOK
<1> QED
  BY <1>2 DEF LeaseInv, Differs

LEMMA SameDiffers ==
    ASSUME LeaseInv, NEW t \in Target
    PROVE  /\ Differs(node, node, t) /\ Differs(contact, contact, t) /\ Differs(inFlight, inFlight, t)
           /\ Differs(beat, beat, t) /\ Differs(tracker, tracker, t)
BY DEF LeaseInv, Differs

\* Only the tracker of t, and perhaps its queue, changes.
LEMMA TrackerStep ==
    ASSUME LeaseInv, NEW t \in Target, now' = now, full' \subseteq Target, node' = node, contact' = contact, beat' = beat,
           Differs(inFlight, inFlight', t), Differs(tracker, tracker', t),
           QueueOK(inFlight'[t], node[t].heard, now), WaitOK(tracker'[t], inFlight'[t])
    PROVE  LeaseInv'
<1>1. TargetOK(t)
  BY DEF LeaseInv
<1>2. TargetOK(t)'
  BY <1>1 DEF TargetOK
<1> QED
  BY <1>2, SameDiffers, OneTarget

\* An answer is read: the leader counts the contact c2, of which the target knows.
LEMMA AnswerStep ==
    ASSUME LeaseInv, NEW t \in Target, now' = now, full' = full, node' = node,
           Differs(inFlight, inFlight', t), Differs(tracker, tracker', t), Differs(beat, beat', t),
           QueueOK(inFlight'[t], node[t].heard, now), WaitOK(tracker'[t], inFlight'[t]),
           BeatOK(beat'[t], node[t].heard, now),
           NEW sent \in Nat, contact' = contact \/ (touch(t, sent) /\ sent <= node[t].heard)
    PROVE  LeaseInv'
<1>1. TargetOK(t) /\ full \subseteq Target /\ DOMAIN contact = Target
  BY DEF LeaseInv
<1>2. contact[t] \in Nat /\ contact[t] <= node[t].heard /\ node[t].heard \in Nat
  BY <1>1 DEF TargetOK, NodeOK
<1>3. CASE contact' = contact
  <2>1. TargetOK(t)'
    BY <1>1, <1>3 DEF TargetOK
  <2> QED BY <1>1, <1>3, <2>1, SameDiffers, OneTarget
<1>4. CASE touch(t, sent) /\ sent <= node[t].heard
  <2>1. PICK c \in Nat : c = Max({contact[t], sent}) /\ c <= node[t].heard
    BY <1>2, <1>4, MaxOfTwo
  <2>2. contact' = [contact EXCEPT ![t] = c]
    BY <1>4, <2>1 DEF touch
  <2>3. Differs(contact, contact', t) /\ contact'[t] = c
    BY <1>1, <2>2 DEF Differs
  <2>4. NodeOK(node[t], c, now)
    BY <1>1, <2>1 DEF TargetOK, NodeOK
  <2>5. TargetOK(t)'
    BY <2>3, <2>4 DEF TargetOK
  <2> QED BY <1>1, <2>3, <2>5, SameDiffers, OneTarget
<1> QED
  BY <1>3, <1>4

\* The target was in touch, or changes without having been.
LEMMA TouchedTarget ==
    ASSUME LeaseInv, NEW t \in Target, now' = now, full' = full, contact' = contact, tracker' = tracker,
           Differs(node, node', t), DOMAIN node'[t] = Fields, node'[t].heard \in {node[t].heard, now},
           Differs(inFlight, inFlight', t), Differs(beat, beat', t),
           QueueOK(inFlight'[t], node'[t].heard, now), Len(inFlight'[t]) = Len(inFlight[t]),
           BeatOK(beat'[t], node'[t].heard, now)
    PROVE  LeaseInv'
<1>1. TargetOK(t) /\ full \subseteq Target /\ now \in Nat
  BY DEF LeaseInv
<1>2. contact[t] \in Nat /\ contact[t] <= node[t].heard /\ node[t].heard \in Nat /\ node[t].heard <= now
  BY <1>1 DEF TargetOK, NodeOK
<1>3. NodeOK(node'[t], contact[t], now)
  BY <1>1, <1>2 DEF NodeOK, Fields
<1>4. WaitOK(tracker[t], inFlight'[t])
  BY <1>1 DEF TargetOK, WaitOK
<1>5. TargetOK(t)'
  BY <1>3, <1>4 DEF TargetOK
<1> QED
  BY <1>1, <1>5, SameDiffers, OneTarget

\* Other nodes change, and nobody was in touch.
LEMMA NodesStep ==
    ASSUME LeaseInv, now' = now, full' = full, contact' = contact, tracker' = tracker, inFlight' = inFlight, beat' = beat,
           DOMAIN node' = Target, \A u \in Target : DOMAIN node'[u] = DOMAIN node[u] /\ node'[u].heard = node[u].heard
    PROVE  LeaseInv'
<1>1. ASSUME NEW u \in Target PROVE TargetOK(u)'
  <2>1. TargetOK(u) /\ DOMAIN node'[u] = DOMAIN node[u] /\ node'[u].heard = node[u].heard
    BY <1>1 DEF LeaseInv
  <2> QED BY <2>1 DEF TargetOK, NodeOK
<1> QED
  BY <1>1 DEF LeaseInv

LEMMA Idle ==
    ASSUME LeaseInv, now' = now, full' \subseteq Target, contact' = contact, tracker' = tracker,
           inFlight' = inFlight, beat' = beat, node' = node
    PROVE  LeaseInv'
BY DEF LeaseInv, TargetOK

-----------------------------------------------------------------------------
(* Every action *)

TrackerFields == {"pc", "streaming"}

LEMMA Facts ==
    ASSUME LeaseInv, NEW t \in Target
    PROVE  /\ DOMAIN node = Target /\ DOMAIN contact = Target /\ DOMAIN inFlight = Target
           /\ DOMAIN beat = Target /\ DOMAIN tracker = Target /\ full \subseteq Target /\ now \in Nat
           /\ DOMAIN node[t] = Fields /\ node[t].heard \in Nat /\ node[t].heard <= now
           /\ QueueOK(inFlight[t], node[t].heard, now) /\ BeatOK(beat[t], node[t].heard, now)
           /\ WaitOK(tracker[t], inFlight[t])
BY DEF LeaseInv, TargetOK, NodeOK, Fields

\* The tracker tr becomes tr2, and does not begin to wait.
Calm(tr, tr2) == DOMAIN tr2 = DOMAIN tr /\ tr2.pc # "wait"

LEMMA CalmTracker ==
    ASSUME LeaseInv, NEW t \in Target, now' = now, full' = full, node' = node, contact' = contact, beat' = beat,
           Differs(tracker, tracker', t), Calm(tracker[t], tracker'[t]),
           Differs(inFlight, inFlight', t), QueueOK(inFlight'[t], node[t].heard, now)
    PROVE  LeaseInv'
<1>1. WaitOK(tracker'[t], inFlight'[t])
  BY Facts DEF Calm, WaitOK
<1> QED
  BY <1>1, Facts, TrackerStep

LEMMA CalmTrackerOnly ==
    ASSUME LeaseInv, NEW t \in Target, now' = now, full' = full, node' = node, contact' = contact, beat' = beat,
           inFlight' = inFlight, Differs(tracker, tracker', t), Calm(tracker[t], tracker'[t])
    PROVE  LeaseInv'
BY Facts, SameDiffers, CalmTracker

LEMMA SendStep ==
    ASSUME LeaseInv, NEW t \in Target, SendPayload(t)
    PROVE  LeaseInv'
<1>1. PICK tr, es : tr = tracker[t] /\ es = Payload(t)
  OBVIOUS
<1>2. PICK item : item = [from |-> tr.next, size |-> Len(es), sent |-> SentAt, answer |-> Pending,
                          lastEntryTerm |-> IF es = <<>> THEN NoTerm ELSE es[Len(es)]]
  OBVIOUS
<1>3. tracker' = [tracker EXCEPT ![t] =
          [@ EXCEPT !.pc = IF tracker[t].streaming = "no" THEN "wait" ELSE "round",
                    !.next = IF tracker[t].streaming = "no" THEN tracker[t].next ELSE tracker[t].next + Len(Payload(t)),
                    !.prevTerm = NoTerm, !.commit = 0]]
  BY DEF SendPayload
<1>4. PICK tr2 : tr2 = tracker'[t]
  OBVIOUS
<1>5. inFlight' = [inFlight EXCEPT ![t] = Append(inFlight[t], item)]
  BY <1>1, <1>2 DEF SendPayload
<1>6. now' = now /\ full' = full /\ node' = node /\ contact' = contact /\ beat' = beat
  BY DEF SendPayload, time
<1>7. ItemOK(item, node[t].heard, now)
  <2>1. DOMAIN item = {"from", "size", "sent", "answer", "lastEntryTerm"} /\ item.sent = now /\ item.answer = Pending
    BY <1>2 DEF SentAt
  <2>2. Pending.state # "ok"
    BY DEF Pending
  <2>3. now \in Nat
    BY Facts
  <2> QED BY <2>1, <2>2, <2>3 DEF ItemOK
<1>8. PICK q : q = Append(inFlight[t], item)
  OBVIOUS
<1>9. QueueOK(q, node[t].heard, now) /\ Len(q) > 0
  BY <1>7, <1>8, Facts, AppendOK
<1>10. Differs(tracker, tracker', t) /\ Differs(inFlight, inFlight', t) /\ inFlight'[t] = q
  BY <1>3, <1>5, <1>8, Facts DEF Differs
<1>11. WaitOK(tr2, q)
  <2>1. TrackerFields \subseteq DOMAIN tr
    BY <1>1, Facts DEF WaitOK, TrackerFields
  <2>2. DOMAIN tr2 = DOMAIN tr /\ tr2.streaming = tr.streaming /\ (tr2.pc = "wait" => tr.streaming = "no")
    BY <1>1, <1>3, <1>4, <2>1, Facts DEF TrackerFields
  <2> QED BY <1>9, <2>1, <2>2 DEF WaitOK, TrackerFields
<1> QED
  BY <1>4, <1>6, <1>9, <1>10, <1>11, Facts, TrackerStep

LEMMA ForgetStep ==
    ASSUME LeaseInv, NEW t \in Target, forget(t), now' = now, full' = full, node' = node, contact' = contact, beat' = beat,
           Differs(tracker, tracker', t), Calm(tracker[t], tracker'[t])
    PROVE  LeaseInv'
<1>1. inFlight' = [inFlight EXCEPT ![t] = <<>>]
  BY DEF forget
<1>2. Differs(inFlight, inFlight', t) /\ inFlight'[t] = <<>>
  BY <1>1, Facts DEF Differs
<1> QED
  BY <1>2, EmptyOK, CalmTracker

\* The steps of the main thread that read nothing.
LEMMA MainSteps ==
    ASSUME LeaseInv, NEW t \in Target,
           StartStreaming(t) \/ BeginRound(t) \/ ReadCommitIndex(t) \/ Halt(t) \/ LeaveStreaming(t) \/ Finish(t)
             \/ \E b \in BOOLEAN : NoAnswer(t, b)
    PROVE  LeaseInv'
<1>1. PICK tr : tr = tracker[t]
  OBVIOUS
<1>2. TrackerFields \subseteq DOMAIN tr /\ DOMAIN tracker = Target
  BY <1>1, Facts DEF WaitOK, TrackerFields
<1>3. ASSUME NEW tr2, tracker' = [tracker EXCEPT ![t] = tr2], Calm(tr, tr2)
      PROVE  Differs(tracker, tracker', t) /\ Calm(tracker[t], tracker'[t])
  BY <1>1, <1>2, <1>3 DEF Differs
<1>4. CASE StartStreaming(t)
  <2>1. PICK tr2 : tr2 = [tr EXCEPT !.streaming = "yes", !.resilverer = "none"]
    OBVIOUS
  <2>2. tracker' = [tracker EXCEPT ![t] = tr2] /\ tr.pc = "round"
    BY <1>1, <1>4, <2>1 DEF StartStreaming
  <2>3. Calm(tr, tr2)
    BY <1>2, <2>1, <2>2 DEF Calm, TrackerFields
  <2>4. now' = now /\ full' = full /\ node' = node /\ contact' = contact /\ beat' = beat /\ inFlight' = inFlight
    BY <1>4 DEF StartStreaming, time, net
  <2> QED BY <1>3, <2>2, <2>3, <2>4, CalmTrackerOnly
<1>5. CASE BeginRound(t)
  <2>1. PICK tr2 : \E p, n, x, c : p # "wait" /\ tr2 = [tr EXCEPT !.pc = p, !.next = n, !.prevTerm = x, !.commit = c]
                                   /\ tracker' = [tracker EXCEPT ![t] = tr2]
    <3>1. PICK p, n, x, c : /\ p = (IF left.prevWindow THEN "prev" ELSE "commit") /\ n = RoundIndex(t)
                            /\ x = TermAt(journal.log, n - 1) /\ c = IF left.prevWindow THEN 0 ELSE journal.commitIndex
      OBVIOUS
    <3>2. tracker' = [tracker EXCEPT ![t] = [tr EXCEPT !.pc = p, !.next = n, !.prevTerm = x, !.commit = c]]
      BY <1>1, <1>5, <3>1 DEF BeginRound
    <3>3. p # "wait"
      BY <3>1
    <3> QED BY <3>2, <3>3
  <2>2. Calm(tr, tr2)
    BY <1>2, <2>1 DEF Calm, TrackerFields
  <2>3. now' = now /\ full' = full /\ node' = node /\ contact' = contact /\ beat' = beat /\ inFlight' = inFlight
    BY <1>5 DEF BeginRound, time, net
  <2> QED BY <1>3, <2>1, <2>2, <2>3, CalmTrackerOnly
<1>6. CASE ReadCommitIndex(t)
  <2>1. PICK tr2 : tr2 = [tr EXCEPT !.pc = "commit", !.commit = journal.commitIndex]
    OBVIOUS
  <2>2. tracker' = [tracker EXCEPT ![t] = tr2]
    BY <1>1, <1>6, <2>1 DEF ReadCommitIndex
  <2>3. Calm(tr, tr2)
    BY <1>2, <2>1 DEF Calm, TrackerFields
  <2>4. now' = now /\ full' = full /\ node' = node /\ contact' = contact /\ beat' = beat /\ inFlight' = inFlight
    BY <1>6 DEF ReadCommitIndex, time, net
  <2> QED BY <1>3, <2>2, <2>3, <2>4, CalmTrackerOnly
<1>7. CASE Halt(t)
  <2>1. PICK tr2 : tr2 = IF tr.streaming = "no" THEN [tr EXCEPT !.pc = "done"]
                         ELSE [tr EXCEPT !.pc = "round", !.streaming = "stop"]
    OBVIOUS
  <2>2. tracker' = [tracker EXCEPT ![t] = tr2]
    BY <1>1, <1>7, <2>1 DEF Halt
  <2>3. Calm(tr, tr2)
    BY <1>2, <2>1 DEF Calm, TrackerFields
  <2>4. now' = now /\ full' = full /\ node' = node /\ contact' = contact /\ beat' = beat /\ inFlight' = inFlight
    BY <1>7 DEF Halt, time, net
  <2> QED BY <1>3, <2>2, <2>3, <2>4, CalmTrackerOnly
<1>8. CASE LeaveStreaming(t)
  <2>1. PICK tr2 : tr2 = [tr EXCEPT !.streaming = "no", !.limit = 1, !.online = TRUE]
    OBVIOUS
  <2>2. tracker' = [tracker EXCEPT ![t] = tr2] /\ tr.pc = "round" /\ forget(t)
    BY <1>1, <1>8, <2>1 DEF LeaveStreaming
  <2>3. Calm(tr, tr2)
    BY <1>2, <2>1, <2>2 DEF Calm, TrackerFields
  <2>4. now' = now /\ full' = full /\ node' = node /\ contact' = contact /\ beat' = beat
    BY <1>8 DEF LeaveStreaming, time
  <2> QED BY <1>3, <2>2, <2>3, <2>4, ForgetStep
<1>9. CASE Finish(t)
  <2>1. PICK tr2 : tr2 = [tr EXCEPT !.pc = "done"]
    OBVIOUS
  <2>2. tracker' = [tracker EXCEPT ![t] = tr2]
    BY <1>1, <1>9, <2>1 DEF Finish
  <2>3. Calm(tr, tr2)
    BY <1>2, <2>1 DEF Calm, TrackerFields
  <2>4. now' = now /\ full' = full /\ node' = node /\ contact' = contact /\ beat' = beat /\ inFlight' = inFlight
    BY <1>9 DEF Finish, time, net
  <2> QED BY <1>3, <2>2, <2>3, <2>4, CalmTrackerOnly
<1>10. ASSUME NEW b \in BOOLEAN, NoAnswer(t, b) PROVE LeaseInv'
  <2>1. tracker' = [tracker EXCEPT ![t] = [@ EXCEPT !.pc = "round", !.online = FALSE,
                                                    !.limit = IF tracker[t].online THEN 1 ELSE tracker[t].limit]]
    BY <1>10 DEF NoAnswer
  <2>2. forget(t) /\ now' = now /\ full' = full /\ node' = node /\ contact' = contact /\ beat' = beat
    BY <1>10 DEF NoAnswer, time
  <2>3. Differs(tracker, tracker', t) /\ Calm(tracker[t], tracker'[t])
    BY <1>1, <1>2, <2>1 DEF Differs, Calm, TrackerFields
  <2> QED BY <2>2, <2>3, ForgetStep
<1> QED
  BY <1>4, <1>5, <1>6, <1>7, <1>8, <1>9, <1>10

\* The tracker after an answer has the same fields.
LEMMA AfterAnswerCalm ==
    ASSUME NEW tr, TrackerFields \subseteq DOMAIN tr, tr.pc = "round", NEW a
    PROVE  Calm(tr, AfterAnswer(tr, a))
<1>1. PICK al : al = [tr EXCEPT !.needResilvering = FALSE, !.resilverer = "none"]
  OBVIOUS
<1>2. DOMAIN al = DOMAIN tr /\ al.pc = "round"
  BY <1>1 DEF TrackerFields
<1>3. PICK x : x = AfterAnswer(tr, a)
  OBVIOUS
<1>4. \/ \E n, l, r : x = [tr EXCEPT !.next = n, !.needResilvering = TRUE, !.limit = l, !.resilverer = r]
      \/ \E n : x = [al EXCEPT !.next = n]
      \/ \E n, l : x = [al EXCEPT !.next = n, !.limit = l]
  BY <1>1, <1>3 DEF AfterAnswer
<1>5. DOMAIN x = DOMAIN tr /\ x.pc = "round"
  BY <1>2, <1>4 DEF TrackerFields
<1> QED
  BY <1>3, <1>5 DEF Calm

LEMMA ReadAnswerStep ==
    ASSUME LeaseInv, NEW t \in Target, ReadAnswer(t)
    PROVE  LeaseInv'
<1>1. PICK tr, item, a : tr = [tracker[t] EXCEPT !.online = TRUE, !.pc = "round"] /\ item = Head(inFlight[t]) /\ a = item.answer
  OBVIOUS
<1>2. tracker[t].pc = "wait" /\ a.state = "ok" /\ inFlight' = [inFlight EXCEPT ![t] = <<>>]
  BY <1>1 DEF ReadAnswer
<1>3. now' = now /\ full' = full /\ node' = node /\ beat' = beat
  BY DEF ReadAnswer
<1>4. TrackerFields \subseteq DOMAIN tracker[t] /\ Len(inFlight[t]) > 0
  BY <1>2, Facts DEF WaitOK, TrackerFields
<1>5. TrackerFields \subseteq DOMAIN tr /\ DOMAIN tr = DOMAIN tracker[t] /\ tr.pc = "round"
  BY <1>1, <1>4 DEF TrackerFields
<1>6. PICK tr2 : tr2 = IF a.term > T THEN tr ELSE AfterAnswer(tr, a)
  OBVIOUS
<1>7. tracker' = [tracker EXCEPT ![t] = tr2]
  BY <1>1, <1>6 DEF ReadAnswer
<1>8. Calm(tracker[t], tr2)
  BY <1>5, <1>6, AfterAnswerCalm DEF Calm
<1>9. Differs(tracker, tracker', t) /\ tracker'[t] = tr2 /\ Differs(inFlight, inFlight', t) /\ inFlight'[t] = <<>>
  BY <1>2, <1>7, Facts DEF Differs
<1>10. ItemOK(item, node[t].heard, now)
  <2>1. QueueOK(inFlight[t], node[t].heard, now) /\ inFlight[t] # <<>>
    BY <1>4, Facts
  <2> QED BY <1>1, <2>1, TailOK
<1>11. item.sent \in Nat /\ (~ (a.term > T) => item.sent <= node[t].heard)
  BY <1>1, <1>2, <1>10 DEF ItemOK
<1>12. contact' = contact \/ (touch(t, item.sent) /\ item.sent <= node[t].heard)
  BY <1>1, <1>11 DEF ReadAnswer
<1>13. WaitOK(tr2, <<>>) /\ QueueOK(<<>>, node[t].heard, now) /\ BeatOK(beat'[t], node[t].heard, now)
  BY <1>3, <1>4, <1>8, EmptyOK, Facts DEF Calm, WaitOK, TrackerFields
<1> QED
  BY <1>3, <1>9, <1>11, <1>12, <1>13, SameDiffers, AnswerStep

LEMMA MonitorSteps ==
    ASSUME LeaseInv, NEW t \in Target, MonitorAck(t) \/ MonitorLost(t)
    PROVE  LeaseInv'
<1>1. PICK item, a : item = Head(inFlight[t]) /\ a = item.answer
  OBVIOUS
<1>2. tracker[t].streaming = "yes" /\ inFlight[t] # <<>> /\ inFlight' = [inFlight EXCEPT ![t] = Tail(inFlight[t])]
  BY DEF MonitorAck, MonitorLost
<1>3. now' = now /\ full' = full /\ node' = node /\ beat' = beat
  BY DEF MonitorAck, MonitorLost, time
<1>4. TrackerFields \subseteq DOMAIN tracker[t] /\ tracker[t].pc # "wait"
  BY <1>2, Facts DEF WaitOK, TrackerFields
<1>5. ItemOK(item, node[t].heard, now) /\ QueueOK(Tail(inFlight[t]), node[t].heard, now)
  BY <1>1, <1>2, Facts, TailOK
<1>6. tracker' = tracker \/ tracker' = [tracker EXCEPT ![t] = [tracker[t] EXCEPT !.streaming = "stop"]]
  BY DEF MonitorAck, MonitorLost
<1>7. Differs(tracker, tracker', t) /\ Calm(tracker[t], tracker'[t])
  BY <1>4, <1>6, Facts DEF Differs, Calm, TrackerFields
<1>8. Differs(inFlight, inFlight', t) /\ inFlight'[t] = Tail(inFlight[t])
  BY <1>2, Facts DEF Differs
<1>9. item.sent \in Nat
  BY <1>5 DEF ItemOK
<1>10. contact' = contact \/ (touch(t, item.sent) /\ item.sent <= node[t].heard)
  <2>1. CASE MonitorLost(t)
    BY <2>1 DEF MonitorLost, time
  <2>2. CASE MonitorAck(t)
    <3>1. a.state = "ok" /\ (contact' = contact \/ (touch(t, item.sent) /\ a.term = T))
      BY <1>1, <2>2 DEF MonitorAck
    <3>2. ~ (T > T)
      BY DEF T
    <3>3. a.term = T => item.sent <= node[t].heard
      BY <1>1, <1>5, <3>1, <3>2 DEF ItemOK
    <3> QED BY <3>1, <3>3
  <2> QED BY <2>1, <2>2
<1>11. WaitOK(tracker'[t], inFlight'[t]) /\ QueueOK(inFlight'[t], node[t].heard, now) /\ BeatOK(beat'[t], node[t].heard, now)
  BY <1>3, <1>4, <1>5, <1>7, <1>8, Facts DEF Calm, WaitOK, TrackerFields
<1> QED
  BY <1>3, <1>7, <1>8, <1>9, <1>10, <1>11, SameDiffers, AnswerStep

LEMMA RequestStep ==
    ASSUME LeaseInv, NEW t \in Target, HandleRequest(t)
    PROVE  LeaseInv'
<1>1. PICK n, r, m, a : n = node[t] /\ r = Head(reqs[t]) /\ m = appendEntries(n, r) /\ a = answerTo(n, r)
  OBVIOUS
<1>2. node' = [node EXCEPT ![t] = m]
  BY <1>1 DEF HandleRequest
<1>3. inFlight' = inFlight \/ inFlight' = [inFlight EXCEPT ![t] = deliver(inFlight[t], a)]
  BY <1>1 DEF HandleRequest
<1>4. now' = now /\ full' = full /\ contact' = contact /\ beat' = beat /\ tracker' = tracker
  BY DEF HandleRequest, time
<1>5. DOMAIN m = Fields /\ (n.term > T => m = n) /\ (~ (n.term > T) => m.heard = now)
  BY <1>1, Facts, Handled
<1>6. n.heard \in Nat /\ n.heard <= now /\ now \in Nat
  BY <1>1, Facts
<1>7. m.heard \in {n.heard, now} /\ m.heard \in Nat /\ n.heard <= m.heard
  BY <1>5, <1>6
<1>8. Differs(node, node', t) /\ node'[t] = m
  BY <1>2, Facts DEF Differs
<1>9. m.heard = now \/ a.term > T
  <2>1. a.term = m.term
    BY <1>1 DEF answerTo
  <2> QED BY <1>5, <2>1
<1>10. QueueOK(inFlight[t], m.heard, now) /\ BeatOK(beat[t], m.heard, now)
  <2>1. QueueOK(inFlight[t], n.heard, now) /\ BeatOK(beat[t], n.heard, now)
    BY <1>1, Facts
  <2> QED BY <1>6, <1>7, <2>1, LaterQueue, LaterBeat
<1>11. /\ Differs(inFlight, inFlight', t) /\ QueueOK(inFlight'[t], m.heard, now) /\ Len(inFlight'[t]) = Len(inFlight[t])
  <2>1. CASE inFlight' = inFlight
    BY <1>10, <2>1, SameDiffers
  <2>2. CASE inFlight' = [inFlight EXCEPT ![t] = deliver(inFlight[t], a)]
    <3>1. PICK q : q = deliver(inFlight[t], a)
      OBVIOUS
    <3>2. QueueOK(q, m.heard, now) /\ Len(q) = Len(inFlight[t])
      BY <1>9, <1>10, <3>1, DeliverOK
    <3>3. Differs(inFlight, inFlight', t) /\ inFlight'[t] = q
      BY <2>2, <3>1, Facts DEF Differs
    <3> QED BY <3>2, <3>3
  <2> QED BY <1>3, <2>1, <2>2
<1>12. Differs(beat, beat', t) /\ BeatOK(beat'[t], m.heard, now)
  BY <1>4, <1>10, SameDiffers
<1>13. DOMAIN node'[t] = Fields /\ node'[t].heard \in {node[t].heard, now}
  BY <1>1, <1>5, <1>7, <1>8
<1> QED
  BY <1>4, <1>8, <1>11, <1>12, <1>13, TouchedTarget

LEMMA OldRequestStep ==
    ASSUME LeaseInv, NEW t \in Target, HandleOldRequest(t)
    PROVE  LeaseInv'
<1>1. PICK n, r, m : n = node[t] /\ r = Head(old[t]) /\ m = appendEntries(n, r)
  OBVIOUS
<1>2. node' = [node EXCEPT ![t] = m]
  BY <1>1 DEF HandleOldRequest
<1>3. now' = now /\ full' = full /\ contact' = contact /\ beat' = beat /\ tracker' = tracker /\ inFlight' = inFlight
  BY DEF HandleOldRequest, time
<1>4. DOMAIN m = Fields /\ (n.term > T => m = n) /\ (~ (n.term > T) => m.heard = now)
  BY <1>1, Facts, Handled
<1>5. n.heard \in Nat /\ n.heard <= now /\ now \in Nat
  BY <1>1, Facts
<1>6. m.heard \in {n.heard, now} /\ m.heard \in Nat /\ n.heard <= m.heard
  BY <1>4, <1>5
<1>7. Differs(node, node', t) /\ node'[t] = m
  BY <1>2, Facts DEF Differs
<1>8. QueueOK(inFlight[t], m.heard, now) /\ BeatOK(beat[t], m.heard, now)
  <2>1. QueueOK(inFlight[t], n.heard, now) /\ BeatOK(beat[t], n.heard, now)
    BY <1>1, Facts
  <2> QED BY <1>5, <1>6, <2>1, LaterQueue, LaterBeat
<1>9. DOMAIN node'[t] = Fields /\ node'[t].heard \in {node[t].heard, now}
  BY <1>1, <1>4, <1>6, <1>7
<1> QED
  BY <1>3, <1>7, <1>8, <1>9, SameDiffers, TouchedTarget

LEMMA BreakStep ==
    ASSUME LeaseInv, NEW t \in Target, NEW j, Break(t, j)
    PROVE  LeaseInv'
<1>1. PICK q, w : q = inFlight[t] /\ w = [i \in DOMAIN q |-> IF q[i].answer = Pending THEN [q[i] EXCEPT !.answer = Lost] ELSE q[i]]
  OBVIOUS
<1>2. inFlight' = [inFlight EXCEPT ![t] = w]
  BY <1>1 DEF Break
<1>3. now' = now /\ full' = full /\ contact' = contact /\ beat' = beat /\ tracker' = tracker /\ node' = node
  BY DEF Break, time
<1>4. PICK h : h = node[t].heard
  OBVIOUS
<1>5. QueueOK(q, h, now) /\ IsQueue(q) /\ DOMAIN q = 1..Len(q)
  BY <1>1, <1>4, Facts, LenProperties DEF QueueOK, IsQueue
<1>6. ASSUME NEW k \in 1..Len(q) PROVE ItemOK(w[k], h, now)
  <2>1. ItemOK(q[k], h, now)
    BY <1>5 DEF QueueOK
  <2>2. CASE w[k] = q[k]
    BY <2>1, <2>2
  <2>3. CASE w[k] = [q[k] EXCEPT !.answer = Lost]
    <3>1. PICK i, i2 : i = q[k] /\ i2 = [i EXCEPT !.answer = Lost] /\ w[k] = i2
      BY <2>3
    <3>2. DOMAIN i2 = DOMAIN i /\ i2.sent = i.sent /\ i2.answer = Lost
      BY <2>1, <3>1 DEF ItemOK
    <3>3. Lost.state # "ok"
      BY DEF Lost, Pending
    <3> QED BY <2>1, <3>1, <3>2, <3>3 DEF ItemOK
  <2> QED BY <1>1, <1>5, <2>2, <2>3
<1>7. w = [k \in DOMAIN q |-> w[k]]
  BY <1>1
<1>8. QueueOK(w, h, now) /\ Len(w) = Len(q)
  BY <1>5, <1>6, <1>7, SameLength
<1>9. Differs(inFlight, inFlight', t) /\ inFlight'[t] = w
  BY <1>2, Facts DEF Differs
<1>10. WaitOK(tracker'[t], inFlight'[t])
  BY <1>1, <1>3, <1>8, <1>9, Facts DEF WaitOK
<1> QED
  BY <1>3, <1>4, <1>8, <1>9, <1>10, Facts, SameDiffers, TrackerStep

LEMMA HeartbeatSteps ==
    ASSUME LeaseInv, NEW t \in Target, SendHeartbeat(t) \/ ReadHeartbeatReply(t) \/ LoseHeartbeat(t)
    PROVE  LeaseInv'
<1>1. now' = now /\ full' = full /\ node' = node /\ tracker' = tracker /\ inFlight' = inFlight
  BY DEF SendHeartbeat, ReadHeartbeatReply, LoseHeartbeat, net
<1>2. /\ Differs(beat, beat', t) /\ DOMAIN beat'[t] = {"state", "sent", "term"}
      /\ beat'[t].sent \in {0, now} /\ beat'[t].state # "answered"
  <2>1. CASE SendHeartbeat(t)
    BY <2>1, Facts DEF SendHeartbeat, SentAt, Differs
  <2>2. CASE ReadHeartbeatReply(t) \/ LoseHeartbeat(t)
    BY <2>2, Facts DEF ReadHeartbeatReply, LoseHeartbeat, Differs
  <2> QED BY <2>1, <2>2
<1>3. BeatOK(beat'[t], node[t].heard, now)
  BY <1>2, Facts DEF BeatOK
<1>5. PICK sent : sent = beat[t].sent
  OBVIOUS
<1>6. sent \in Nat
  BY <1>5, Facts DEF BeatOK
<1>7. contact' = contact \/ (touch(t, sent) /\ sent <= node[t].heard)
  <2>1. CASE SendHeartbeat(t) \/ LoseHeartbeat(t)
    BY <2>1 DEF SendHeartbeat, LoseHeartbeat
  <2>2. CASE ReadHeartbeatReply(t)
    BY <1>5, <2>2, Facts DEF ReadHeartbeatReply, BeatOK
  <2> QED BY <2>1, <2>2
<1> QED
  BY <1>1, <1>2, <1>3, <1>6, <1>7, Facts, SameDiffers, AnswerStep

LEMMA HeardStep ==
    ASSUME LeaseInv, NEW t \in Target, HandleHeartbeat(t)
    PROVE  LeaseInv'
<1>1. PICK n, m : n = node[t] /\ m = IF n.term > T THEN n ELSE heardFrom(n)
  OBVIOUS
<1>2. DOMAIN n = Fields /\ n.heard \in Nat /\ n.heard <= now /\ now \in Nat /\ DOMAIN node = Target
  BY <1>1, Facts
<1>3. DOMAIN m = Fields /\ m.heard \in {n.heard, now} /\ (m.heard = now \/ m.term > T)
  BY <1>1, <1>2 DEF heardFrom, Fields
<1>4. node' = node \/ node' = [node EXCEPT ![t] = heardFrom(node[t])]
  BY DEF HandleHeartbeat
<1>5. Differs(node, node', t) /\ node'[t] = m
  BY <1>1, <1>2 DEF HandleHeartbeat, Differs
<1>6. beat' = [beat EXCEPT ![t].state = "answered", ![t].term = m.term]
  BY <1>5 DEF HandleHeartbeat
<1>7. PICK b : b = beat[t]
  OBVIOUS
<1>8. DOMAIN b = {"state", "sent", "term"} /\ b.sent \in Nat /\ b.sent <= now
  BY <1>7, Facts DEF BeatOK
<1>9. /\ Differs(beat, beat', t) /\ DOMAIN beat'[t] = {"state", "sent", "term"}
      /\ beat'[t].sent = b.sent /\ beat'[t].term = m.term
  BY <1>6, <1>7, <1>8, Facts DEF Differs
<1>10. BeatOK(beat'[t], m.heard, now)
  BY <1>3, <1>8, <1>9 DEF BeatOK
<1>12. now' = now /\ full' = full /\ contact' = contact /\ tracker' = tracker /\ inFlight' = inFlight
  BY DEF HandleHeartbeat, net
<1>13. QueueOK(inFlight[t], m.heard, now)
  <2>1. m.heard \in Nat /\ n.heard <= m.heard
    BY <1>2, <1>3
  <2> QED BY <1>1, <1>2, <2>1, Facts, LaterQueue
<1> QED
  BY <1>1, <1>3, <1>5, <1>9, <1>10, <1>12, <1>13, SameDiffers, TouchedTarget

\* The exception of buildPayload ends every tracker.
LEMMA ThrowStep ==
    ASSUME LeaseInv, NEW t \in Target, PayloadThrows(t)
    PROVE  LeaseInv'
<1>1. tracker' = [s \in Target |-> [tracker[s] EXCEPT !.pc = "done"]]
  BY DEF PayloadThrows
<1>2. now' = now /\ full' = full /\ node' = node /\ contact' = contact /\ beat' = beat /\ inFlight' = inFlight
  BY DEF PayloadThrows, time, net
<1>3. ASSUME NEW u \in Target PROVE TargetOK(u)'
  <2>1. TargetOK(u) /\ tracker'[u] = [tracker[u] EXCEPT !.pc = "done"]
    BY <1>1, <1>3 DEF LeaseInv
  <2>2. WaitOK(tracker'[u], inFlight[u])
    BY <2>1 DEF TargetOK, WaitOK
  <2> QED BY <1>2, <2>1, <2>2 DEF TargetOK
<1> QED
  BY <1>1, <1>2, <1>3 DEF LeaseInv

LEMMA ResilveringStep ==
    ASSUME LeaseInv, NEW t \in Target, NEW ok \in BOOLEAN, EndResilvering(t, ok)
    PROVE  LeaseInv'
<1>1. PICK r : r = IF ok THEN "done" ELSE "failed"
  OBVIOUS
<1>2. tracker' = [tracker EXCEPT ![t].resilverer = r]
  BY <1>1 DEF EndResilvering
<1>3. node' = node \/ node' = [node EXCEPT ![t].log = journal.log, ![t].commitIndex = journal.commitIndex]
  BY DEF EndResilvering
<1>4. now' = now /\ full' = full /\ contact' = contact /\ beat' = beat /\ inFlight' = inFlight
  BY DEF EndResilvering, time, net
<1>5. Differs(node, node', t) /\ DOMAIN node'[t] = Fields /\ node'[t].heard = node[t].heard
  BY <1>3, Facts DEF Differs, Fields
<1>6. TrackerFields \subseteq DOMAIN tracker[t]
  BY Facts DEF WaitOK, TrackerFields
<1>7. /\ Differs(tracker, tracker', t) /\ DOMAIN tracker'[t] = DOMAIN tracker[t]
      /\ tracker'[t].pc = tracker[t].pc /\ tracker'[t].streaming = tracker[t].streaming
  BY <1>2, <1>6, Facts DEF Differs, TrackerFields
<1>8. TargetOK(t)
  BY DEF LeaseInv
<1>9. TargetOK(t)'
  BY <1>4, <1>5, <1>7, <1>8 DEF TargetOK, NodeOK, WaitOK, Fields
<1> QED
  BY <1>4, <1>5, <1>7, <1>9, Facts, SameDiffers, OneTarget

\* The next leader changes logs, terms and commit indexes.
LEMMA NextLeaderSteps ==
    ASSUME LeaseInv, NEW c \in Target,
           CommitNext(c) \/ (\E x \in Members : Overwrite(c, x)) \/ (\E voters \in SUBSET Members : Elect(c, voters))
    PROVE  LeaseInv'
<1>1. \A u \in Target : DOMAIN node[u] = Fields /\ DOMAIN node = Target
  BY Facts
<1>2. CASE CommitNext(c)
  <2>1. node' = [node EXCEPT ![c].commitIndex = Len(node[c].log) - 1]
    BY <1>2 DEF CommitNext
  <2>2. DOMAIN node' = Target /\ \A u \in Target : DOMAIN node'[u] = DOMAIN node[u] /\ node'[u].heard = node[u].heard
    BY <1>1, <2>1 DEF Fields
  <2>3. now' = now /\ full' = full /\ contact' = contact /\ tracker' = tracker /\ inFlight' = inFlight /\ beat' = beat
    BY <1>2 DEF CommitNext, time, net
  <2> QED BY <2>2, <2>3, NodesStep
<1>3. ASSUME NEW x \in Members, Overwrite(c, x) PROVE LeaseInv'
  <2>1. now' = now /\ full' = full /\ contact' = contact /\ tracker' = tracker /\ inFlight' = inFlight /\ beat' = beat
    BY <1>3 DEF Overwrite, time, net
  <2>2. CASE node' = node
    BY <2>1, <2>2, Facts, Idle
  <2>3. CASE x # Leader
    <3>1. PICK k, l : node' = [node EXCEPT ![x] = [[node[x] EXCEPT !.log = l, !.term = T + 1] EXCEPT !.commitIndex = k]]
      BY <1>3, <2>3 DEF Overwrite, setCommitIndex
    <3>2. x \in Target
      BY <2>3, Facts DEF Members
    <3>3. DOMAIN node' = Target /\ \A u \in Target : DOMAIN node'[u] = DOMAIN node[u] /\ node'[u].heard = node[u].heard
      BY <1>1, <3>1, <3>2 DEF Fields
    <3> QED BY <2>1, <3>3, NodesStep
  <2> QED BY <1>3, <2>2, <2>3 DEF Overwrite
<1>4. ASSUME NEW voters \in SUBSET Members, Elect(c, voters) PROVE LeaseInv'
  <2>1. node' = [x \in Target |->
          IF x = c THEN [node[x] EXCEPT !.term = T + 1, !.log = Append(@, T + 1)]
          ELSE IF x \in voters THEN [node[x] EXCEPT !.term = T + 1] ELSE node[x]]
    BY <1>4 DEF Elect
  <2>2. ASSUME NEW u \in Target PROVE DOMAIN node'[u] = DOMAIN node[u] /\ node'[u].heard = node[u].heard
    <3>1. \/ \E l : node'[u] = [node[u] EXCEPT !.term = T + 1, !.log = l]
          \/ node'[u] = [node[u] EXCEPT !.term = T + 1] \/ node'[u] = node[u]
      BY <2>1
    <3> QED BY <1>1, <3>1 DEF Fields
  <2>3. now' = now /\ full' = full /\ contact' = contact /\ tracker' = tracker /\ inFlight' = inFlight /\ beat' = beat
    BY <1>4 DEF Elect, time, net
  <2> QED BY <2>1, <2>2, <2>3, NodesStep
<1> QED
  BY <1>2, <1>3, <1>4

LEMMA TickStep ==
    ASSUME LeaseInv, Tick
    PROVE  LeaseInv'
<1>1. now' = now + 1 /\ now \in Nat
  BY DEF Tick, LeaseInv
<1>2. full' = full /\ contact' = contact /\ tracker' = tracker /\ inFlight' = inFlight /\ beat' = beat /\ node' = node
  BY DEF Tick, net
<1>3. ASSUME NEW u \in Target PROVE TargetOK(u)'
  <2>1. TargetOK(u)
    BY DEF LeaseInv
  <2>2. \A x \in Nat : x <= now => x <= now'
    BY <1>1
  <2>3. NodeOK(node[u], contact[u], now')
    BY <2>1, <2>2 DEF TargetOK, NodeOK
  <2>4. QueueOK(inFlight[u], node[u].heard, now')
    BY <2>1, <2>2 DEF TargetOK, QueueOK, ItemOK
  <2>5. BeatOK(beat[u], node[u].heard, now')
    BY <2>1, <2>2 DEF TargetOK, BeatOK
  <2> QED BY <1>2, <2>1, <2>3, <2>4, <2>5 DEF TargetOK
<1> QED
  BY <1>1, <1>2, <1>3 DEF LeaseInv

LEMMA LeaseStarts ==
    ASSUME Init PROVE LeaseInv
<1>1. PICK s \in Scenarios :
        /\ full = s.full /\ now = 0 /\ contact = [t \in Target |-> 0] /\ inFlight = [t \in Target |-> <<>>]
        /\ tracker = [t \in Target |-> newTracker(t \in s.tracked)]
        /\ node = [t \in Target |-> [term |-> T, log |-> s.logs[t], commitIndex |-> 0, heard |-> 0]]
        /\ beat = [t \in Target |-> [state |-> IF t \in s.beating THEN "none" ELSE "off", sent |-> 0, term |-> 0]]
  BY DEF Init
<1>2. full \subseteq Target
  BY <1>1, ScenariosAssumption
<1>3. ASSUME NEW t \in Target PROVE TargetOK(t)
  <2>1. NodeOK(node[t], contact[t], now)
    BY <1>1 DEF NodeOK
  <2>2. QueueOK(inFlight[t], node[t].heard, now)
    BY <1>1, EmptyOK
  <2>3. BeatOK(beat[t], node[t].heard, now)
    <3>1. beat[t] = [state |-> IF t \in s.beating THEN "none" ELSE "off", sent |-> 0, term |-> 0]
      BY <1>1
    <3>2. beat[t].sent = 0 /\ DOMAIN beat[t] = {"state", "sent", "term"} /\ beat[t].state # "answered"
      BY <3>1
    <3> QED BY <1>1, <3>2 DEF BeatOK
  <2>4. WaitOK(tracker[t], inFlight[t])
    BY <1>1 DEF WaitOK, newTracker
  <2> QED BY <2>1, <2>2, <2>3, <2>4 DEF TargetOK
<1> QED
  BY <1>1, <1>2, <1>3 DEF LeaseInv

LEMMA LeaseSteps ==
    ASSUME LeaseInv, [Next]_vars
    PROVE  LeaseInv'
<1>1. full \subseteq Target
  BY DEF LeaseInv
<1>2. ASSUME NEW t \in Target, Main(t) \/ NoAnswer(t, TRUE) PROVE LeaseInv'
  <2>1. CASE SendPayload(t)
    BY <2>1, SendStep
  <2>2. CASE PayloadThrows(t)
    BY <2>2, ThrowStep
  <2>3. CASE ReadAnswer(t)
    BY <2>3, ReadAnswerStep
  <2>4. CASE StartStreaming(t) \/ BeginRound(t) \/ ReadCommitIndex(t) \/ Halt(t) \/ LeaveStreaming(t) \/ Finish(t)
               \/ \E b \in BOOLEAN : NoAnswer(t, b)
    BY <2>4, MainSteps
  <2> QED BY <1>2, <2>1, <2>2, <2>3, <2>4 DEF Main
<1>3. ASSUME NEW t \in Target, Monitor(t) PROVE LeaseInv'
  BY <1>3, MonitorSteps DEF Monitor
<1>4. ASSUME NEW t \in Target, SendHeartbeat(t) \/ ReadHeartbeatReply(t) \/ LoseHeartbeat(t) PROVE LeaseInv'
  BY <1>4, HeartbeatSteps
<1>5. ASSUME NEW t \in Target, HandleHeartbeat(t) PROVE LeaseInv'
  BY <1>5, HeardStep
<1>6. ASSUME NEW t \in Target, HandleRequest(t) \/ HandleOldRequest(t) PROVE LeaseInv'
  BY <1>6, RequestStep, OldRequestStep
<1>7. ASSUME NEW t \in Target, NEW ok \in BOOLEAN, EndResilvering(t, ok) PROVE LeaseInv'
  BY <1>7, ResilveringStep
<1>8. ASSUME NEW t \in Target, NEW k \in 0..Len(reqs[t]), Break(t, k) PROVE LeaseInv'
  BY <1>8, BreakStep
<1>9. ASSUME NEW t \in Target, Reconfigure(t) PROVE LeaseInv'
  <2>1. /\ full' \subseteq Target /\ now' = now /\ contact' = contact /\ tracker' = tracker
        /\ inFlight' = inFlight /\ beat' = beat /\ node' = node
    BY <1>1, <1>9 DEF Reconfigure, time, net
  <2> QED BY <2>1, Idle
<1>10. ASSUME NEW t \in Target,
              CommitNext(t) \/ (\E x \in Members : Overwrite(t, x)) \/ (\E voters \in SUBSET Members : Elect(t, voters))
       PROVE  LeaseInv'
  BY <1>10, NextLeaderSteps
<1>11. ASSUME AutoCommit \/ LeaseExpired \/ Deactivate \/ Write \/ UNCHANGED vars PROVE LeaseInv'
  <2>1. /\ full' = full /\ now' = now /\ contact' = contact /\ tracker' = tracker
        /\ inFlight' = inFlight /\ beat' = beat /\ node' = node
    BY <1>11 DEF AutoCommit, LeaseExpired, Deactivate, Write, vars, time, net
  <2> QED BY <1>1, <2>1, Idle
<1>12. ASSUME Tick PROVE LeaseInv'
  BY <1>12, TickStep
<1> QED
  BY <1>2, <1>3, <1>4, <1>5, <1>6, <1>7, <1>8, <1>9, <1>10, <1>11, <1>12 DEF Next

\* RaftLease::getDeadline: for any number of targets, with observers, changes of
\* membership, heartbeats and appends that are late, lost or left behind, the lease
\* never outlives, by more than its duration, the moment at which a quorum was last in
\* touch with the leader.
THEOREM LeaseHonestCorrect == Spec => []LeaseHonest
<1>1. Init => LeaseInv
  BY LeaseStarts
<1>2. LeaseInv /\ [Next]_vars => LeaseInv'
  BY LeaseSteps
<1>3. LeaseInv => LeaseHonest
  BY HonestLease
<1> QED
  BY <1>1, <1>2, <1>3, PTL DEF Spec

-----------------------------------------------------------------------------
(* What was acknowledged is stored.                                         *)
(*                                                                         *)
(* V are the voters of the next leader, none before there is one, and L is *)
(* the log it was elected with.                                            *)

\* The log of the leader of term T.
LeaderLog(j) == j \in Seq(Nat) /\ Len(j) >= 3 /\ j[1] = 0 /\ j[2] = 1 /\ \A i \in 3..Len(j) : j[i] = T

\* The first k entries of the two logs agree.
Held(log, j, k) == k \in 1..Len(log) /\ k \in 1..Len(j) /\ \A i \in 1..k : log[i] = j[i]

\* A node has moved to the next term as a voter, or has been given the log L.
LogOK(n, j, V, L, t) ==
    \/ Plausible(n.log, j) /\ (n.term > T => t \in V)
    \/ V # {} /\ n.term > T /\ n.log = L

\* t has acknowledged k entries, the last of term T: it holds them, unless the next
\* leader, which then had no use for this vote, did without.
AckOK(k, log, j, V, L, t) ==
    /\ k \in 3..Len(j)
    /\ Held(log, j, k) \/ (V # {} /\ log = L)
    /\ t \in V => Held(L, j, k)

ReqOK(r, j) ==
    /\ DOMAIN r = {"prev", "prevTerm", "commit", "entries", "want"} /\ r.want \in BOOLEAN
    /\ r.prev \in Nat /\ r.entries \in Seq(Nat) /\ r.prev + 1 + Len(r.entries) <= Len(j)
    /\ r.prevTerm = j[r.prev + 1]
    /\ \A i \in 1..Len(r.entries) : r.entries[i] = j[r.prev + 1 + i]

ReqsOK(rs, j) == IsQueue(rs) /\ \A k \in 1..Len(rs) : ReqOK(rs[k], j)

\* The answer that item i waits for is the one to request r.
Fits(i, r) == i.lastEntryTerm = T => Len(r.entries) > 0 /\ r.entries[Len(r.entries)] = T

\* The last p items wait for the answers to the last p requests.
Waiting(q, rs, p) ==
    /\ p \in Nat /\ p <= Len(q) /\ p <= Len(rs)
    /\ \A k \in 1..Len(q) : q[k].answer = Pending <=> k > Len(q) - p
    /\ \A k \in 1..Len(rs) : rs[k].want <=> k > Len(rs) - p
    /\ \A k \in 1..p : Fits(q[Len(q) - p + k], rs[Len(rs) - p + k])

AnswerOK(i, log, j, V, L, t) ==
    /\ i.answer.logSize \in Nat
    /\ i.answer.state = "ok" /\ i.answer.outcome /\ ~ (i.answer.term > T) /\ i.lastEntryTerm = T
         => AckOK(i.answer.logSize, log, j, V, L, t)

AnswersOK(q, log, j, V, L, t) == \A k \in 1..Len(q) : AnswerOK(q[k], log, j, V, L, t)

\* One request at a time, unless the tracker streams; a request that is being put
\* together follows an entry of the leader's log.
PlanOK(tr, q, j) ==
    /\ {"pc", "streaming", "next", "limit", "prevTerm"} \subseteq DOMAIN tr
    /\ tr.next \in Nat /\ tr.limit \in Nat \ {0}
    /\ tr.streaming = "no" /\ tr.pc \in {"round", "prev", "commit"} => Len(q) = 0
    /\ tr.pc = "wait" => Len(q) = 1
    /\ tr.pc \in {"prev", "commit"} => tr.next \in 1..Len(j) /\ tr.prevTerm = j[tr.next]

SoundAt(t, V, L) ==
    /\ LogOK(node[t], journal.log, V, L, t)
    /\ match[t] \in Nat
    /\ match[t] > 0 => AckOK(match[t] + 1, node[t].log, journal.log, V, L, t)
    /\ ReqsOK(reqs[t], journal.log) /\ ReqsOK(old[t], journal.log)
    /\ AnswersOK(inFlight[t], node[t].log, journal.log, V, L, t)
    /\ \E p \in Nat : Waiting(inFlight[t], reqs[t], p)
    /\ PlanOK(tracker[t], inFlight[t], journal.log)

\* The next leader begins with an entry of its own.
NextLog(V, L) == V # {} => L \in Seq(Nat) /\ Len(L) > 0 /\ L[Len(L)] > T

VotersOK(V, L) ==
    /\ V \in SUBSET full /\ NextLog(V, L)
    /\ V # {} => Cardinality(V) = quorumSize /\ left.reconfigurations = 0
    /\ \A v \in V : node[v].term > T

Sound ==
    /\ LeaderLog(journal.log)
    /\ \E V, L : VotersOK(V, L) /\ \A t \in Target : SoundAt(t, V, L)

TermsOf(q) == \A k \in 1..Len(q) : q[k].answer.term \in Nat

Terms ==
    /\ term \in Nat /\ T <= term
    /\ DOMAIN match = Target /\ DOMAIN reqs = Target /\ DOMAIN old = Target
    /\ \A t \in Target :
          /\ node[t].term \in Nat /\ beat[t].term \in Nat
          /\ TermsOf(inFlight[t])

Budget ==
    /\ {"elections", "reconfigurations"} \subseteq DOMAIN left
    /\ left.elections \in Nat /\ left.reconfigurations \in Nat
    /\ left.elections = 0 \/ left.reconfigurations = 0

JournalOK ==
    /\ DOMAIN journal = {"log", "start", "commitIndex"}
    /\ journal.start \in Nat /\ journal.commitIndex \in Nat

\* What another leader did to the journal does not matter: this one has been deposed.
Chosen == Terms /\ Budget /\ (term = T => JournalOK /\ Sound)

ChosenInv == LeaseInv /\ Chosen

-----------------------------------------------------------------------------
(* Logs *)

LEMMA LeastNumber ==
    ASSUME NEW S, S \subseteq Nat, S # {}
    PROVE  Min(S) \in S /\ \A y \in S : Min(S) <= y
<1>1. PICK x \in S : \A y \in S : ~ (<<y, x>> \in OpToRel(<, Nat))
  BY WFMin, NatLessThanWellFounded
<1>2. x \in Nat /\ \A y \in S : y \in Nat
  OBVIOUS
<1>3. \A y \in S : ~ (y < x)
  BY <1>1, <1>2 DEF OpToRel
<1>4. \A y \in S : x <= y
  BY <1>2, <1>3
<1> QED
  BY <1>4 DEF Min

LEMMA HeldBelow ==
    ASSUME NEW log, NEW j, NEW k, Held(log, j, k), NEW m \in 1..k
    PROVE  Held(log, j, m)
BY DEF Held

\* Where a log has an entry of the leader's term, it is a part of the leader's log.
LEMMA OwnTermHeld ==
    ASSUME NEW j, LeaderLog(j), NEW log, Plausible(log, j), NEW i \in 1..Len(log), log[i] >= T
    PROVE  Held(log, j, Len(log)) /\ Len(log) >= 3
<1>1. Len(log) \in Nat /\ Len(j) \in Nat /\ log \in Seq(Nat)
  BY DEF Plausible, LeaderLog
<1>2. log[i] = T /\ log[Len(log)] = T
  BY <1>1 DEF Plausible
<1>3. Len(log) \in 1..Len(log) /\ T >= T
  BY <1>1 DEF T
<1>4. Len(log) \in 3..Len(j)
  BY <1>2, <1>3 DEF Plausible
<1>5. j[Len(log)] = T
  BY <1>4 DEF LeaderLog
<1>6. \A k \in 1..Len(log) : log[k] = j[k]
  <2>1. PICK e : e = Len(log) /\ e \in 1..Len(log) /\ e <= Len(j) /\ log[e] = j[e]
    BY <1>1, <1>2, <1>3, <1>4, <1>5
  <2>2. \A k \in 1..e : log[k] = j[k]
    BY <2>1 DEF Plausible
  <2> QED BY <2>1, <2>2
<1> QED
  BY <1>1, <1>4, <1>6 DEF Held

\* The leader's log is its own.
LEMMA LeaderPlausible ==
    ASSUME NEW j, LeaderLog(j)
    PROVE  Plausible(j, j) /\ \A k \in 1..Len(j) : Held(j, j, k)
<1>1. j \in Seq(Nat) /\ Len(j) \in Nat /\ Len(j) >= 3 /\ j[1] = 0 /\ j[2] = 1 /\ \A i \in 3..Len(j) : j[i] = T
  BY DEF LeaderLog
<1>2. \A i \in 1..Len(j) : j[i] >= T => j[i] = T /\ i \in 3..Len(j) /\ \A k \in i..Len(j) : j[k] = T
  BY <1>1 DEF T
<1> QED
  BY <1>1, <1>2 DEF Plausible, Held

\* The voter b had acknowledged k entries; whoever it votes for has them.
LEMMA VoterKnows ==
    ASSUME NEW j, LeaderLog(j), NEW a, Plausible(a, j), NEW b, Plausible(b, j),
           UpToDate(a, b), NEW k, Held(b, j, k), k \in 3..Len(j)
    PROVE  Held(a, j, k)
<1>1. Len(a) \in Nat /\ Len(b) \in Nat /\ Len(j) \in Nat /\ Len(a) > 0 /\ Len(b) > 0 /\ a \in Seq(Nat) /\ b \in Seq(Nat)
  BY DEF Plausible, LeaderLog
<1>2. k \in 1..Len(b) /\ b[k] = T
  <2>1. k \in 1..k /\ j[k] = T
    BY <1>1 DEF LeaderLog
  <2>2. k \in 1..Len(b) /\ b[k] = j[k]
    BY <2>1 DEF Held
  <2> QED BY <2>1, <2>2
<1>3. b[Len(b)] = T
  BY <1>1, <1>2 DEF Plausible, T
<1>4. a[Len(a)] \in Nat /\ a[Len(a)] >= T /\ Len(a) \in 1..Len(a)
  BY <1>1, <1>3 DEF UpToDate, T
<1>5. a[Len(a)] = T
  BY <1>4 DEF Plausible
<1>6. Len(a) >= Len(b)
  BY <1>3, <1>5 DEF UpToDate, T
<1>7. Held(a, j, Len(a))
  BY <1>4, OwnTermHeld
<1>8. k \in 1..Len(a)
  BY <1>1, <1>2, <1>6
<1> QED
  BY <1>7, <1>8, HeldBelow

LEMMA HeldAppend ==
    ASSUME NEW log \in Seq(Nat), NEW x \in Nat, NEW j, NEW k, Held(log, j, k)
    PROVE  Held(Append(log, x), j, k)
<1>1. PICK w : w = Append(log, x)
  OBVIOUS
<1>2. Len(w) = Len(log) + 1 /\ (\A i \in 1..Len(log) : w[i] = log[i]) /\ Len(log) \in Nat
  BY <1>1, AppendProperties
<1> QED
  BY <1>1, <1>2 DEF Held

\* The leader appends to its log.
LEMMA LeaderAppends ==
    ASSUME NEW j, LeaderLog(j), NEW w, w = Append(j, T)
    PROVE  /\ LeaderLog(w) /\ Len(w) = Len(j) + 1 /\ \A i \in 1..Len(j) : w[i] = j[i]
           /\ \A log : Plausible(log, j) => Plausible(log, w)
           /\ \A log, k : Held(log, j, k) => Held(log, w, k)
           /\ \A r : ReqOK(r, j) => ReqOK(r, w)
<1>1. j \in Seq(Nat) /\ Len(j) \in Nat /\ Len(j) >= 3 /\ j[1] = 0 /\ j[2] = 1 /\ \A i \in 3..Len(j) : j[i] = T
  BY DEF LeaderLog
<1>2. w \in Seq(Nat) /\ Len(w) = Len(j) + 1 /\ (\A i \in 1..Len(j) : w[i] = j[i]) /\ w[Len(j) + 1] = T
  BY <1>1, AppendProperties DEF T
<1>3. LeaderLog(w)
  <2>1. \A i \in 3..Len(w) : w[i] = T
    BY <1>1, <1>2
  <2> QED BY <1>1, <1>2, <2>1 DEF LeaderLog
<1>4. ASSUME NEW log, Plausible(log, j) PROVE Plausible(log, w)
  <2>1. log \in Seq(Nat) /\ Len(log) \in Nat /\ Len(log) > 0
    BY <1>4 DEF Plausible
  <2>2. \A i \in 1..Len(log) : log[i] >= T => log[i] = T /\ i \in 3..Len(w) /\ \A k \in i..Len(log) : log[k] = T
    <3>1. \A i \in 1..Len(log) : log[i] >= T => log[i] = T /\ i \in 3..Len(j) /\ \A k \in i..Len(log) : log[k] = T
      BY <1>4 DEF Plausible
    <3>2. \A i \in 3..Len(j) : i \in 3..Len(w)
      BY <1>1, <1>2
    <3> QED BY <3>1, <3>2
  <2>3. ASSUME NEW i \in 1..Len(log), i <= Len(w), log[i] = w[i] PROVE \A k \in 1..i : log[k] = w[k]
    <3>1. i # Len(j) + 1
      <4> SUFFICES ASSUME i = Len(j) + 1 PROVE FALSE
        OBVIOUS
      <4>1. log[i] >= T
        BY <1>2, <2>3 DEF T
      <4>2. i \in 3..Len(j)
        BY <1>4, <4>1 DEF Plausible
      <4> QED BY <1>1, <4>2
    <3>2. i <= Len(j) /\ log[i] = j[i]
      BY <1>1, <1>2, <2>3, <3>1
    <3>3. \A k \in 1..i : log[k] = j[k]
      BY <1>4, <3>2 DEF Plausible
    <3> QED BY <1>1, <1>2, <3>2, <3>3
  <2> QED BY <2>1, <2>2, <2>3 DEF Plausible
<1>5. ASSUME NEW log, NEW k, Held(log, j, k) PROVE Held(log, w, k)
  BY <1>1, <1>2, <1>5 DEF Held
<1>6. ASSUME NEW r, ReqOK(r, j) PROVE ReqOK(r, w)
  <2>1. r.prev \in Nat /\ r.entries \in Seq(Nat) /\ Len(r.entries) \in Nat /\ r.prev + 1 + Len(r.entries) <= Len(j)
    BY <1>6 DEF ReqOK
  <2>2. PICK p \in Nat, m \in Nat : p = r.prev + 1 /\ m = Len(r.entries) /\ p + m <= Len(j) /\ p > 0
    BY <2>1
  <2>3. w[p] = j[p] /\ (\A i \in 1..m : w[p + i] = j[p + i]) /\ p + m <= Len(w)
    <3>1. PICK n \in Nat : n = Len(j) /\ Len(w) = n + 1 /\ p + m <= n
      BY <1>1, <1>2, <2>2
    <3>2. p \in 1..n /\ (\A i \in 1..m : p + i \in 1..n) /\ p + m <= n + 1
      BY <2>2, <3>1
    <3> QED BY <1>2, <3>1, <3>2
  <2> QED BY <1>6, <2>2, <2>3 DEF ReqOK
<1> QED
  BY <1>2, <1>3, <1>4, <1>5, <1>6

LEMMA PrefixPlausible ==
    ASSUME NEW j, LeaderLog(j), NEW w \in Seq(Nat), Held(w, j, Len(w))
    PROVE  Plausible(w, j)
<1>1. Len(w) \in Nat /\ Len(w) > 0 /\ Len(w) <= Len(j) /\ Len(j) \in Nat /\ \A i \in 1..Len(w) : w[i] = j[i]
  BY DEF Held, LeaderLog
<1>2. ASSUME NEW i \in 1..Len(w), w[i] >= T PROVE w[i] = T /\ i \in 3..Len(j) /\ \A k \in i..Len(w) : w[k] = T
  <2>1. i \in 1..Len(j) /\ j[i] >= T
    BY <1>1, <1>2
  <2>2. i \in 3..Len(j) /\ \A k \in i..Len(j) : j[k] = T
    BY <2>1, LeaderPlausible DEF Plausible
  <2>3. \A k \in i..Len(w) : k \in i..Len(j) /\ k \in 1..Len(w)
    BY <1>1
  <2>4. i \in i..Len(w)
    BY <1>1
  <2> QED BY <1>1, <2>2, <2>3, <2>4
<1>3. \A i \in 1..Len(w) : \A k \in 1..i : w[k] = j[k]
  BY <1>1
<1> QED
  BY <1>1, <1>2, <1>3 DEF Plausible

\* The first f entries of log, then those of es from f - p, where es follows p + 1 entries.
Splice(log, es, p, f) == SubSeq(log, 1, f) \o SubSeq(es, f - p, Len(es))
Splices(w, log, es, p, f) ==
    /\ w \in Seq(Nat) /\ Len(w) = p + 1 + Len(es)
    /\ \A i \in 1..f : w[i] = log[i]
    /\ \A i \in (f + 1)..(p + 1 + Len(es)) : w[i] = es[i - p - 1]

LEMMA Spliced ==
    ASSUME NEW log \in Seq(Nat), NEW es \in Seq(Nat), NEW p \in Nat, NEW f \in Nat,
           p + 1 <= f, f <= p + Len(es), f <= Len(log),
           NEW w, w = Splice(log, es, p, f)
    PROVE  Splices(w, log, es, p, f)
<1>1. Len(es) \in Nat /\ Len(log) \in Nat
  OBVIOUS
<1>2. PICK a, b : a = SubSeq(log, 1, f) /\ b = SubSeq(es, f - p, Len(es)) /\ w = a \o b
  BY DEF Splice
<1>3. a \in Seq(Nat) /\ Len(a) = f /\ \A i \in 1..f : a[i] = log[i]
  BY <1>1, <1>2
<1>4. f - p \in 1..Len(es) /\ Len(es) - (f - p) + 1 \in Nat
  BY <1>1
<1>5. b \in Seq(Nat) /\ Len(b) = Len(es) - (f - p) + 1 /\ \A i \in 1..Len(b) : b[i] = es[f - p + i - 1]
  <2>0. PICK g, e : g = f - p /\ e = Len(es)
    OBVIOUS
  <2>1. g \in Nat /\ e \in Nat /\ g = f - p /\ e = Len(es) /\ g \in 1..e
    BY <1>1, <1>4, <2>0
  <2>2. \A i \in g..e : es[i] \in Nat
    BY <2>1
  <2>3. b = SubSeq(es, g, e)
    BY <1>2, <2>1
  <2>4. b \in Seq(Nat) /\ Len(b) = e - g + 1 /\ \A i \in 1..(e - g + 1) : b[i] = es[g + i - 1]
    BY <2>1, <2>2, <2>3, SubSeqProperties
  <2> QED BY <2>1, <2>4
<1>6. w \in Seq(Nat) /\ Len(w) = Len(a) + Len(b) /\ (\A i \in 1..Len(a) : w[i] = a[i])
      /\ \A i \in (Len(a) + 1)..(Len(a) + Len(b)) : w[i] = b[i - Len(a)]
  <2>1. w = a \o b /\ a \in Seq(Nat) /\ b \in Seq(Nat)
    BY <1>2, <1>3, <1>5
  <2>2. a \o b \in Seq(Nat) /\ Len(a \o b) = Len(a) + Len(b)
        /\ \A i \in 1..(Len(a) + Len(b)) : (a \o b)[i] = IF i <= Len(a) THEN a[i] ELSE b[i - Len(a)]
    BY <2>1, ConcatProperties
  <2>3. PICK x, y : x = Len(a) /\ y = Len(b)
    OBVIOUS
  <2>4. x \in Nat /\ y \in Nat
    BY <2>1, <2>3
  <2>5. \A i \in 1..x : i \in 1..(x + y) /\ i <= x
    BY <2>4
  <2>6. \A i \in (x + 1)..(x + y) : i \in 1..(x + y) /\ ~ (i <= x)
    BY <2>4
  <2>7. \A i \in 1..x : w[i] = a[i]
    BY <2>1, <2>2, <2>3, <2>5
  <2>8. \A i \in (x + 1)..(x + y) : w[i] = b[i - x]
    BY <2>1, <2>2, <2>3, <2>6
  <2> QED BY <2>1, <2>2, <2>3, <2>7, <2>8
<1>7. Len(w) = p + 1 + Len(es)
  BY <1>1, <1>3, <1>4, <1>5, <1>6
<1>8. ASSUME NEW i \in (f + 1)..(p + 1 + Len(es)) PROVE w[i] = es[i - p - 1]
  <2>1. i - f \in 1..Len(b) /\ i \in (Len(a) + 1)..(Len(a) + Len(b)) /\ f - p + (i - f) - 1 = i - p - 1
    BY <1>1, <1>3, <1>5, <1>8
  <2>2. w[i] = b[i - f]
    BY <1>3, <1>6, <2>1
  <2>3. b[i - f] = es[f - p + (i - f) - 1]
    BY <1>5, <2>1
  <2> QED BY <2>1, <2>2, <2>3
<1> QED
  BY <1>3, <1>6, <1>7, <1>8 DEF Splices

\* RaftDispatcher::appendEntries: a request of the leader does not take away what the
\* target holds of the leader's log, and ends with the target holding its entries.
LEMMA Appended ==
    ASSUME NEW j, LeaderLog(j), NEW n, DOMAIN n = Fields, Plausible(n.log, j), ~ (n.term > T),
           NEW r, ReqOK(r, j), Matches(n, r), NEW m, m = appendEntries(n, r)
    PROVE  /\ Plausible(m.log, j) /\ m.term = T
           /\ \A k : Held(n.log, j, k) => Held(m.log, j, k)
           /\ Held(m.log, j, r.prev + 1 + Len(r.entries))
<1>0. r.prev \in Nat /\ r.entries \in Seq(Nat) /\ r.prev + 1 + Len(r.entries) <= Len(j)
  BY DEF ReqOK
<1>01. PICK log, es : log = n.log /\ es = r.entries
  OBVIOUS
<1>02. PICK p \in Nat : p = r.prev
  BY <1>0
<1>03. es \in Seq(Nat) /\ Len(es) \in Nat
  BY <1>0, <1>01
<1>04. PICK e \in Nat : e = Len(es)
  BY <1>03
<1>1. log = n.log /\ es = r.entries /\ p = r.prev /\ e = Len(es)
  BY <1>01, <1>02, <1>04
<1>2. log \in Seq(Nat) /\ Len(log) \in Nat /\ es \in Seq(Nat) /\ p + 1 + e <= Len(j) /\ Len(j) \in Nat
  <2>1. log \in Seq(Nat) /\ j \in Seq(Nat)
    BY <1>1 DEF Plausible, LeaderLog
  <2> QED BY <1>0, <1>1, <2>1
<1>3. \A i \in 1..e : es[i] = j[p + 1 + i]
  BY <1>1 DEF ReqOK
<1>4. Held(log, j, p + 1)
  <2>1. p + 1 \in 1..Len(log) /\ p + 1 <= Len(j)
    <3>1. p < Len(log)
      BY <1>1 DEF Matches
    <3> QED BY <1>2, <3>1
  <2>2. log[p + 1] = j[p + 1]
    <3>1. r.prevTerm = j[p + 1]
      BY <1>1 DEF ReqOK
    <3> QED BY <1>1, <3>1 DEF Matches, TermAt
  <2>3. \A k \in 1..(p + 1) : log[k] = j[k]
    BY <1>1, <2>1, <2>2 DEF Plausible
  <2> QED BY <1>1, <1>2, <2>1, <2>3 DEF Held
<1>5. PICK S : S = {i \in (p + 1)..(p + 1 + e) : \/ i = p + 1 + e
                                                \/ i >= Len(log)
                                                \/ log[i + 1] # es[i - p]}
  OBVIOUS
<1>6. PICK f : f = Min(S)
  OBVIOUS
<1>7. compareEntries(n, r) = f
  BY <1>1, <1>5, <1>6 DEF compareEntries, TermAt
<1>8. f \in S /\ \A y \in S : f <= y
  <2>1. S \subseteq Nat /\ p + 1 + e \in S
    BY <1>5
  <2> QED BY <1>6, <2>1, LeastNumber
<1>9. f \in Nat /\ p + 1 <= f /\ f <= p + 1 + e /\ (f = p + 1 + e \/ f >= Len(log) \/ log[f + 1] # es[f - p])
  BY <1>5, <1>8
<1>10. \A i \in (p + 1)..(f - 1) : i < Len(log) /\ log[i + 1] = es[i - p]
  <2> SUFFICES ASSUME NEW i \in (p + 1)..(f - 1) PROVE i < Len(log) /\ log[i + 1] = es[i - p]
    OBVIOUS
  <2>1. i \notin S /\ i \in (p + 1)..(p + 1 + e)
    BY <1>8, <1>9
  <2> QED BY <1>2, <1>5, <2>1
<1>11. f <= Len(log)
  <2>1. CASE f = p + 1
    BY <1>4, <2>1 DEF Held
  <2>2. CASE f > p + 1
    <3>1. f - 1 \in (p + 1)..(f - 1)
      BY <1>9, <2>2
    <3>2. f - 1 < Len(log)
      BY <1>10, <3>1
    <3> QED BY <1>2, <1>9, <3>2
  <2> QED BY <1>9, <2>1, <2>2
<1>12. Held(log, j, f)
  <2>1. ASSUME NEW i \in 1..f PROVE log[i] = j[i]
    <3>1. CASE i <= p + 1
      BY <1>4, <2>1, <3>1 DEF Held
    <3>2. CASE i > p + 1
      <4>1. i - 1 \in (p + 1)..(f - 1) /\ i - 1 - p \in 1..e /\ p + 1 + (i - 1 - p) = i /\ i - 1 + 1 = i
        <5>1. f \in Nat /\ f <= p + 1 + e
          BY <1>9
        <5> QED BY <2>1, <3>2, <5>1
      <4>2. log[i - 1 + 1] = es[i - 1 - p]
        BY <1>10, <4>1
      <4>3. es[i - 1 - p] = j[p + 1 + (i - 1 - p)]
        BY <1>3, <4>1
      <4> QED BY <4>1, <4>2, <4>3
    <3> QED BY <2>1, <3>1, <3>2
  <2> QED BY <1>2, <1>9, <1>11, <2>1 DEF Held
<1>13. PICK w : w = IF f > p + e THEN log ELSE SubSeq(log, 1, f) \o SubSeq(es, f - p, e)
  OBVIOUS
<1>14. m.log = w /\ m.term = T
  <2>1. PICK n2 : n2 = heardFrom(n)
    OBVIOUS
  <2>2. DOMAIN n2 = Fields /\ n2.term = T
    BY <2>1 DEF heardFrom, Fields
  <2>3. \E c : m = [[n2 EXCEPT !.log = w] EXCEPT !.commitIndex = c]
    BY <1>1, <1>7, <1>13, <2>1 DEF appendEntries, setCommitIndex
  <2> QED BY <2>2, <2>3 DEF Fields
<1>15. CASE f > p + e
  <2>1. f = p + 1 + e /\ w = log
    BY <1>9, <1>13, <1>15
  <2> QED BY <1>1, <1>12, <1>14, <2>1
<1>16. CASE f <= p + e
  <2>1. w = SubSeq(log, 1, f) \o SubSeq(es, f - p, e)
    BY <1>9, <1>13, <1>16
  <2>2. /\ w \in Seq(Nat) /\ Len(w) = p + 1 + e /\ (\A i \in 1..f : w[i] = log[i])
        /\ \A i \in (f + 1)..(p + 1 + e) : w[i] = es[i - p - 1]
    <3>1. e = Len(es) /\ f <= p + e /\ p + 1 <= f /\ f \in Nat /\ f <= Len(log) /\ p \in Nat
      BY <1>1, <1>9, <1>11, <1>16
    <3>2. log \in Seq(Nat) /\ es \in Seq(Nat)
      BY <1>2
    <3>3. w = Splice(log, es, p, f) /\ f <= p + Len(es)
      BY <2>1, <3>1 DEF Splice
    <3>4. Splices(w, log, es, p, f)
      BY <3>1, <3>2, <3>3, Spliced
    <3> QED BY <3>1, <3>4 DEF Splices
  <2>3. ASSUME NEW i \in 1..Len(w) PROVE w[i] = j[i]
    <3>1. CASE i <= f
      <4>1. i \in 1..f
        BY <1>9, <2>2, <2>3, <3>1
      <4> QED BY <1>12, <2>2, <4>1 DEF Held
    <3>2. CASE i > f
      <4>1. i \in (f + 1)..(p + 1 + e) /\ i - p - 1 \in 1..e /\ p + 1 + (i - p - 1) = i
        BY <1>9, <2>2, <2>3, <3>2
      <4>2. w[i] = es[i - p - 1] /\ es[i - p - 1] = j[p + 1 + (i - p - 1)]
        BY <1>3, <2>2, <4>1
      <4> QED BY <4>1, <4>2
    <3> QED BY <1>9, <2>3, <3>1, <3>2
  <2>4. Held(w, j, Len(w))
    BY <1>2, <2>2, <2>3 DEF Held
  <2>5. ASSUME NEW k, Held(log, j, k) PROVE Held(w, j, k)
    <3>1. k \in Nat /\ k > 0 /\ k <= Len(log) /\ \A i \in 1..k : log[i] = j[i]
      <4>1. k \in 1..Len(log) /\ \A i \in 1..k : log[i] = j[i]
        BY <2>5 DEF Held
      <4>2. Len(log) \in Nat
        BY <1>2
      <4>3. k \in Nat /\ k > 0 /\ k <= Len(log)
        BY <4>1, <4>2
      <4> QED BY <4>1, <4>3
    <3>2. k <= f
      <4> SUFFICES ASSUME k > f PROVE FALSE
        BY <1>9, <3>1
      <4>1. log[f + 1] # es[f - p] /\ f - p \in 1..e /\ p + 1 + (f - p) = f + 1 /\ f + 1 \in 1..k
        BY <1>2, <1>9, <1>16, <3>1
      <4>2. es[f - p] = j[p + 1 + (f - p)]
        BY <1>3, <4>1
      <4> QED BY <3>1, <4>1, <4>2
    <3>3. k \in 1..Len(w)
      BY <1>9, <2>2, <3>1, <3>2
    <3> QED BY <2>4, <3>3, HeldBelow
  <2> QED BY <1>1, <1>14, <2>2, <2>4, <2>5, PrefixPlausible
<1> QED
  BY <1>9, <1>15, <1>16

-----------------------------------------------------------------------------
(* Requests on a connection, and the items that wait for their answers *)

Longer(w, q, i) ==
    /\ IsQueue(w) /\ Len(q) \in Nat /\ Len(w) = Len(q) + 1
    /\ (\A k \in 1..Len(q) : w[k] = q[k]) /\ w[Len(q) + 1] = i

Rest(w, q) ==
    /\ IsQueue(w) /\ Len(q) \in Nat \ {0} /\ Len(w) = Len(q) - 1
    /\ \A k \in 1..Len(w) : w[k] = q[k + 1]

LEMMA AppendedQueue ==
    ASSUME NEW q, IsQueue(q), NEW i
    PROVE  Longer(Append(q, i), q, i)
<1>1. PICK S : S = Range(q) \cup {i}
  OBVIOUS
<1>2. q \in Seq(S) /\ i \in S
  <2>1. q \in Seq(Range(q)) /\ Range(q) \subseteq S /\ i \in S
    BY <1>1 DEF IsQueue
  <2> QED BY <2>1, SeqMonotonic
<1>3. PICK w : w = Append(q, i)
  OBVIOUS
<1>4. w \in Seq(S) /\ Len(w) = Len(q) + 1 /\ (\A k \in 1..Len(q) : w[k] = q[k]) /\ w[Len(q) + 1] = i /\ Len(q) \in Nat
  BY <1>2, <1>3, AppendProperties, LenProperties
<1>5. IsQueue(w)
  BY <1>4, QueueFacts
<1> QED
  BY <1>3, <1>4, <1>5 DEF Longer

LEMMA RestOfQueue ==
    ASSUME NEW q, IsQueue(q), q # <<>>
    PROVE  Rest(Tail(q), q) /\ Head(q) = q[1]
<1>1. q \in Seq(Range(q))
  BY DEF IsQueue
<1>2. Len(q) \in Nat /\ Len(q) > 0
  BY <1>1, EmptySeq, LenProperties
<1>3. PICK w : w = Tail(q)
  OBVIOUS
<1>4. w \in Seq(Range(q)) /\ Len(w) = Len(q) - 1 /\ (\A k \in 1..Len(w) : w[k] = q[k + 1]) /\ Head(q) = q[1]
  BY <1>1, <1>2, <1>3, HeadTailProperties
<1>5. IsQueue(w)
  BY <1>4, QueueFacts
<1> QED
  BY <1>2, <1>3, <1>4, <1>5 DEF Rest

LEMMA EmptyQueue == IsQueue(<<>>) /\ Len(<<>>) = 0
<1>1. <<>> \in Seq({})
  OBVIOUS
<1>2. Len(<<>>) = 0
  OBVIOUS
<1> QED
  BY <1>1, <1>2, QueueFacts

LEMMA SameShape ==
    ASSUME NEW q, IsQueue(q), NEW w, w = [k \in DOMAIN q |-> w[k]]
    PROVE  IsQueue(w) /\ Len(w) = Len(q) /\ DOMAIN q = 1..Len(q) /\ Len(q) \in Nat
<1>1. Len(q) \in Nat /\ DOMAIN q = 1..Len(q)
  BY LenProperties DEF IsQueue
<1>2. w \in [1..Len(q) -> Range(w)]
  BY <1>1 DEF Range
<1>3. w \in Seq(Range(w))
  BY <1>1, <1>2, SeqDef
<1>4. DOMAIN w = 1..Len(q) /\ DOMAIN w = 1..Len(w) /\ Len(w) \in Nat
  BY <1>1, <1>2, <1>3, LenProperties
<1>5. Len(w) = Len(q)
  BY <1>1, <1>4
<1> QED
  BY <1>1, <1>3, <1>5 DEF IsQueue

\* A request is sent.
LEMMA SentRequest ==
    ASSUME NEW q, NEW rs, NEW p, Waiting(q, rs, p), NEW i, NEW r, i.answer = Pending, r.want, Fits(i, r),
           NEW w, Longer(w, q, i), NEW rw, Longer(rw, rs, r)
    PROVE  p + 1 \in Nat /\ Waiting(w, rw, p + 1)
<1>1. PICK a \in Nat, b \in Nat, c \in Nat : a = Len(q) /\ b = Len(rs) /\ c = p
  BY DEF Longer, Waiting
<1>2. Len(w) = a + 1 /\ Len(rw) = b + 1 /\ c <= a /\ c <= b
  BY <1>1 DEF Longer, Waiting
<1>3. ASSUME NEW k \in 1..(a + 1) PROVE w[k].answer = Pending <=> k > a + 1 - (c + 1)
  <2>1. CASE k \in 1..a
    <3>1. w[k] = q[k] /\ (q[k].answer = Pending <=> k > a - c)
      BY <1>1, <2>1 DEF Longer, Waiting
    <3> QED BY <1>1, <2>1, <3>1
  <2>2. CASE k = a + 1
    BY <1>1, <1>2, <2>2 DEF Longer
  <2> QED BY <1>3, <2>1, <2>2
<1>4. ASSUME NEW k \in 1..(b + 1) PROVE rw[k].want <=> k > b + 1 - (c + 1)
  <2>1. CASE k \in 1..b
    <3>1. rw[k] = rs[k] /\ (rs[k].want <=> k > b - c)
      BY <1>1, <2>1 DEF Longer, Waiting
    <3> QED BY <1>1, <2>1, <3>1
  <2>2. CASE k = b + 1
    BY <1>1, <1>2, <2>2 DEF Longer
  <2> QED BY <1>4, <2>1, <2>2
<1>5. ASSUME NEW k \in 1..(c + 1) PROVE Fits(w[a + 1 - (c + 1) + k], rw[b + 1 - (c + 1) + k])
  <2>1. PICK x, y : x = a - c + k /\ y = b - c + k
    OBVIOUS
  <2>2. a + 1 - (c + 1) + k = x /\ b + 1 - (c + 1) + k = y
    BY <1>5, <2>1
  <2>3. CASE k \in 1..c
    <3>1. x \in 1..a /\ y \in 1..b
      BY <1>2, <2>1, <2>3
    <3>2. w[x] = q[x] /\ rw[y] = rs[y]
      BY <1>1, <3>1 DEF Longer
    <3>3. Fits(q[x], rs[y])
      BY <1>1, <2>1, <2>3 DEF Waiting
    <3> QED BY <2>2, <3>2, <3>3
  <2>4. CASE k = c + 1
    <3>1. x = a + 1 /\ y = b + 1
      BY <2>1, <2>4
    <3> QED BY <1>1, <2>2, <3>1 DEF Longer
  <2> QED BY <1>5, <2>3, <2>4
<1>6. c + 1 \in Nat /\ c + 1 <= a + 1 /\ c + 1 <= b + 1
  BY <1>2
<1>7. Waiting(w, rw, c + 1)
  <2>1. PICK x, y, z : x = a + 1 /\ y = b + 1 /\ z = c + 1
    OBVIOUS
  <2>2. z \in Nat /\ z <= x /\ z <= y /\ x = Len(w) /\ y = Len(rw)
    BY <1>2, <1>6, <2>1
  <2>3. \A k \in 1..x : w[k].answer = Pending <=> k > x - z
    BY <1>3, <2>1
  <2>4. \A k \in 1..y : rw[k].want <=> k > y - z
    BY <1>4, <2>1
  <2>5. \A k \in 1..z : Fits(w[x - z + k], rw[y - z + k])
    BY <1>5, <2>1
  <2>6. Waiting(w, rw, z)
    BY <2>2, <2>3, <2>4, <2>5 DEF Waiting
  <2> QED BY <2>1, <2>6
<1> QED
  BY <1>1, <1>6, <1>7

\* Nobody waits any more.
LEMMA NobodyWaits ==
    ASSUME NEW rs, Len(rs) \in Nat, \A k \in 1..Len(rs) : ~ rs[k].want
    PROVE  Waiting(<<>>, rs, 0)
BY EmptyQueue DEF Waiting

\* The first item has its answer.
LEMMA ItemRead ==
    ASSUME NEW q, NEW rs, NEW p, Waiting(q, rs, p), q[1].answer # Pending, NEW w, Rest(w, q)
    PROVE  Waiting(w, rs, p)
<1>1. PICK a \in Nat, c \in Nat : a = Len(q) /\ c = p /\ a > 0 /\ c <= a
  BY DEF Rest, Waiting
<1>2. Len(w) = a - 1 /\ \A k \in 1..(a - 1) : w[k] = q[k + 1]
  BY <1>1 DEF Rest
<1>3. c <= a - 1
  <2> SUFFICES ASSUME c > a - 1 PROVE FALSE
    BY <1>1
  <2>1. 1 > a - c /\ 1 \in 1..a
    BY <1>1
  <2> QED BY <1>1, <2>1 DEF Waiting
<1>4. ASSUME NEW k \in 1..(a - 1) PROVE w[k].answer = Pending <=> k > a - 1 - c
  <2>1. k + 1 \in 1..a /\ (k + 1 > a - c <=> k > a - 1 - c)
    BY <1>1, <1>4
  <2>2. q[k + 1].answer = Pending <=> k + 1 > a - c
    BY <1>1, <2>1 DEF Waiting
  <2> QED BY <1>2, <2>1, <2>2
<1>5. ASSUME NEW k \in 1..c PROVE Fits(w[a - 1 - c + k], rs[Len(rs) - c + k])
  <2>1. PICK x : x = a - 1 - c + k
    OBVIOUS
  <2>2. x \in 1..(a - 1) /\ x + 1 = a - c + k
    BY <1>1, <1>3, <1>5, <2>1
  <2>3. Fits(q[a - c + k], rs[Len(rs) - c + k])
    BY <1>1 DEF Waiting
  <2> QED BY <1>2, <2>1, <2>2, <2>3
<1> QED
  BY <1>1, <1>2, <1>3, <1>4, <1>5 DEF Waiting

LEMMA OnlyItemRead ==
    ASSUME NEW q, NEW rs, NEW p, Waiting(q, rs, p), Len(q) = 1, q[1].answer # Pending, Len(rs) \in Nat
    PROVE  Waiting(<<>>, rs, 0)
<1>1. p = 0
  BY DEF Waiting
<1> QED
  BY <1>1, NobodyWaits DEF Waiting

\* A request that nobody wants the answer to is handled.
LEMMA UnwantedHandled ==
    ASSUME NEW q, NEW rs, NEW p, Waiting(q, rs, p), ~ rs[1].want, NEW rw, Rest(rw, rs)
    PROVE  Waiting(q, rw, p)
<1>0. Len(rs) \in Nat /\ Len(rs) > 0 /\ p \in Nat /\ p <= Len(rs)
  <2>1. Len(rs) \in Nat \ {0}
    BY DEF Rest
  <2>2. p \in Nat /\ p <= Len(rs)
    BY DEF Waiting
  <2> QED BY <2>1, <2>2
<1>1. PICK b \in Nat, c \in Nat : b = Len(rs) /\ c = p /\ b > 0 /\ c <= b
  BY <1>0
<1>2. Len(rw) = b - 1 /\ \A k \in 1..(b - 1) : rw[k] = rs[k + 1]
  BY <1>1 DEF Rest
<1>3. c <= b - 1
  <2> SUFFICES ASSUME c > b - 1 PROVE FALSE
    BY <1>1
  <2>1. 1 > b - c /\ 1 \in 1..b
    BY <1>1
  <2> QED BY <1>1, <2>1 DEF Waiting
<1>4. ASSUME NEW k \in 1..(b - 1) PROVE rw[k].want <=> k > b - 1 - c
  <2>1. k + 1 \in 1..b /\ (k + 1 > b - c <=> k > b - 1 - c)
    BY <1>1, <1>4
  <2>2. rs[k + 1].want <=> k + 1 > b - c
    BY <1>1, <2>1 DEF Waiting
  <2> QED BY <1>2, <2>1, <2>2
<1>5. ASSUME NEW k \in 1..c PROVE Fits(q[Len(q) - c + k], rw[b - 1 - c + k])
  <2>1. PICK x : x = b - 1 - c + k
    OBVIOUS
  <2>2. x \in 1..(b - 1) /\ x + 1 = b - c + k
    BY <1>1, <1>3, <1>5, <2>1
  <2>3. Fits(q[Len(q) - c + k], rs[b - c + k])
    BY <1>1 DEF Waiting
  <2> QED BY <1>2, <2>1, <2>2, <2>3
<1> QED
  BY <1>1, <1>2, <1>3, <1>4, <1>5 DEF Waiting

\* w is q with the answer a for the item at x.
Answered(w, q, x, a) ==
    /\ IsQueue(w) /\ Len(w) = Len(q) /\ x \in 1..Len(q)
    /\ w[x] = [q[x] EXCEPT !.answer = a] /\ \A k \in 1..Len(q) : k # x => w[k] = q[k]

\* The answer to the first request goes to the first item that waits.
LEMMA Delivered ==
    ASSUME NEW q, IsQueue(q), NEW rs, NEW p, Waiting(q, rs, p), rs[1].want, Len(rs) \in Nat, Len(rs) > 0, NEW a
    PROVE  \E x : Answered(deliver(q, a), q, x, a) /\ x = Len(q) - p + 1 /\ p = Len(rs) /\ Fits(q[x], rs[1])
<1>1. p = Len(rs) /\ p > 0 /\ p \in Nat
  <2>1. 1 > Len(rs) - p /\ p <= Len(rs) /\ p \in Nat
    BY DEF Waiting
  <2> QED BY <2>1
<1>2. PICK n \in Nat, c \in Nat : n = Len(q) /\ c = p /\ c <= n /\ c > 0
  <2>1. Len(q) \in Nat /\ p <= Len(q)
    BY LenProperties DEF IsQueue, Waiting
  <2> QED BY <1>1, <2>1
<1>3. DOMAIN q = 1..n
  BY <1>2, LenProperties DEF IsQueue
<1>4. PICK W : W = {k \in DOMAIN q : q[k].answer = Pending}
  OBVIOUS
<1>05. n - c + 1 \in 1..n
  BY <1>2
<1>5. PICK x \in 1..n : x = n - c + 1
  BY <1>05
<1>6. \A k \in 1..n : k \in W <=> k > n - c
  BY <1>2, <1>3, <1>4 DEF Waiting
<1>7. Min(W) = x
  <2>1. W \subseteq Nat /\ x \in W /\ \A k \in W : k \in 1..n
    BY <1>2, <1>3, <1>4, <1>5, <1>6
  <2>2. Min(W) \in W /\ Min(W) <= x
    BY <2>1, LeastNumber
  <2>3. Min(W) \in 1..n /\ Min(W) > n - c
    BY <1>6, <2>1, <2>2
  <2> QED BY <1>2, <1>5, <2>2, <2>3
<1>8. PICK w : w = [q EXCEPT ![x] = [q[x] EXCEPT !.answer = a]]
  OBVIOUS
<1>9. deliver(q, a) = w
  BY <1>4, <1>7, <1>8 DEF deliver
<1>10. w = [k \in DOMAIN q |-> w[k]]
  BY <1>8
<1>11. IsQueue(w) /\ Len(w) = Len(q)
  BY <1>10, SameShape
<1>12. w[x] = [q[x] EXCEPT !.answer = a] /\ \A k \in 1..n : k # x => w[k] = q[k]
  BY <1>3, <1>8
<1>13. Answered(w, q, x, a)
  BY <1>2, <1>11, <1>12 DEF Answered
<1>14. Fits(q[x], rs[1])
  <2>1. 1 \in 1..p /\ Len(q) - p + 1 = x /\ Len(rs) - p + 1 = 1
    BY <1>1, <1>2, <1>5
  <2>2. Fits(q[Len(q) - p + 1], rs[Len(rs) - p + 1])
    BY <2>1 DEF Waiting
  <2> QED BY <2>1, <2>2
<1> QED
  BY <1>1, <1>2, <1>5, <1>9, <1>13, <1>14

LEMMA WantedHandled ==
    ASSUME NEW q, NEW rs, NEW p, Waiting(q, rs, p), p = Len(rs), Len(q) \in Nat, NEW rw, Rest(rw, rs),
           NEW x, x = Len(q) - p + 1, NEW a, a # Pending, NEW w, Answered(w, q, x, a),
           "answer" \in DOMAIN q[x]
    PROVE  p - 1 \in Nat /\ Waiting(w, rw, p - 1)
<1>1. Len(rs) \in Nat \ {0} /\ p <= Len(q)
  BY DEF Rest, Waiting
<1>2. PICK n \in Nat, b \in Nat : n = Len(q) /\ b = Len(rs) /\ b > 0 /\ b <= n /\ x = n - b + 1 /\ p = b
  BY <1>1
<1>3. Len(w) = n /\ Len(rw) = b - 1
  BY <1>2 DEF Answered, Rest
<1>4. ASSUME NEW k \in 1..n PROVE w[k].answer = Pending <=> k > n - (b - 1)
  <2>1. CASE k = x
    <3>1. w[k].answer = a
      BY <2>1 DEF Answered
    <3> QED BY <1>2, <2>1, <3>1
  <2>2. CASE k # x
    <3>1. w[k] = q[k]
      BY <1>2, <2>2 DEF Answered
    <3>2. q[k].answer = Pending <=> k > n - b
      BY <1>2 DEF Waiting
    <3>3. k > n - b <=> k > n - (b - 1)
      BY <1>2, <1>4, <2>2
    <3> QED BY <3>1, <3>2, <3>3
  <2> QED BY <2>1, <2>2
<1>5. ASSUME NEW k \in 1..(b - 1) PROVE rw[k].want <=> k > b - 1 - (b - 1)
  <2>1. rw[k] = rs[k + 1] /\ k + 1 \in 1..b
    BY <1>2, <1>3, <1>5 DEF Rest
  <2>2. rs[k + 1].want <=> k + 1 > b - b
    BY <1>2, <2>1 DEF Waiting
  <2> QED BY <1>2, <1>5, <2>1, <2>2
<1>6. ASSUME NEW k \in 1..(b - 1) PROVE Fits(w[n - (b - 1) + k], rw[b - 1 - (b - 1) + k])
  <2>1. PICK y : y = n - (b - 1) + k
    OBVIOUS
  <2>2. y \in 1..n /\ y # x /\ y = n - b + (k + 1) /\ k + 1 \in 1..b /\ b - 1 - (b - 1) + k = k /\ b - b + (k + 1) = k + 1
    BY <1>2, <1>6, <2>1
  <2>3. w[y] = q[y] /\ rw[k] = rs[k + 1]
    BY <1>2, <1>3, <2>2 DEF Answered, Rest
  <2>4. Fits(q[n - b + (k + 1)], rs[b - b + (k + 1)])
    BY <1>2, <2>2 DEF Waiting
  <2> QED BY <2>1, <2>2, <2>3, <2>4
<1>7. PICK c \in Nat : c = b - 1 /\ c <= n
  BY <1>2
<1>8. /\ \A k \in 1..n : w[k].answer = Pending <=> k > n - c
      /\ \A k \in 1..c : rw[k].want <=> k > c - c
      /\ \A k \in 1..c : Fits(w[n - c + k], rw[c - c + k])
  BY <1>4, <1>5, <1>6, <1>7
<1>9. Waiting(w, rw, c)
  BY <1>3, <1>7, <1>8 DEF Waiting
<1> QED
  BY <1>2, <1>7, <1>9

Answerable(q) == \A k \in 1..Len(q) : "answer" \in DOMAIN q[k] /\ q[k].answer.term \in Nat
NonePending(q) == \A k \in 1..Len(q) : q[k].answer # Pending

LEMMA NothingPending ==
    ASSUME NEW w, Len(w) \in Nat, NonePending(w)
    PROVE  Waiting(w, <<>>, 0)
BY EmptyQueue DEF Waiting, NonePending

-----------------------------------------------------------------------------
(* Requests and answers stay what they are *)

LEMMA RequestsAppend ==
    ASSUME NEW j, NEW rs, ReqsOK(rs, j), NEW r, ReqOK(r, j), NEW w, Longer(w, rs, r)
    PROVE  ReqsOK(w, j)
<1>1. ASSUME NEW k \in 1..Len(w) PROVE ReqOK(w[k], j)
  <2>1. k \in 1..Len(rs) \/ k = Len(rs) + 1
    BY <1>1 DEF Longer
  <2> QED BY <2>1 DEF Longer, ReqsOK
<1> QED
  BY <1>1 DEF ReqsOK, Longer

LEMMA RequestsRest ==
    ASSUME NEW j, NEW rs, ReqsOK(rs, j), NEW w, Rest(w, rs)
    PROVE  ReqsOK(w, j)
<1>1. ASSUME NEW k \in 1..Len(w) PROVE ReqOK(w[k], j)
  <2>1. k + 1 \in 1..Len(rs) /\ w[k] = rs[k + 1]
    BY <1>1 DEF Rest
  <2> QED BY <2>1 DEF ReqsOK
<1> QED
  BY <1>1 DEF ReqsOK, Rest

LEMMA RequestsEmpty ==
    ASSUME NEW j PROVE ReqsOK(<<>>, j)
BY EmptyQueue DEF ReqsOK

\* Requests left behind.
LEMMA RequestsLeft ==
    ASSUME NEW j, NEW ol, ReqsOK(ol, j), NEW rs, ReqsOK(rs, j), NEW k \in 0..Len(rs)
    PROVE  ReqsOK(ol \o SubSeq(rs, 1, k), j)
<1>1. PICK S : S = Range(ol) \cup Range(rs)
  OBVIOUS
<1>2. ol \in Seq(S) /\ rs \in Seq(S) /\ Len(rs) \in Nat /\ Len(ol) \in Nat
  <2>1. ol \in Seq(Range(ol)) /\ rs \in Seq(Range(rs)) /\ Range(ol) \subseteq S /\ Range(rs) \subseteq S
    BY <1>1 DEF ReqsOK, IsQueue
  <2>2. ol \in Seq(S) /\ rs \in Seq(S)
    BY <2>1, SeqMonotonic
  <2> QED BY <2>2
<1>3. PICK b : b = SubSeq(rs, 1, k)
  OBVIOUS
<1>4. b \in Seq(S) /\ Len(b) = k /\ \A i \in 1..k : b[i] = rs[i]
  BY <1>2, <1>3
<1>5. PICK w : w = ol \o b
  OBVIOUS
<1>6. w \in Seq(S) /\ Len(w) = Len(ol) + Len(b) /\ \A i \in 1..(Len(ol) + Len(b)) : w[i] = IF i <= Len(ol) THEN ol[i] ELSE b[i - Len(ol)]
  BY <1>2, <1>4, <1>5, ConcatProperties
<1>7. ASSUME NEW i \in 1..Len(w) PROVE ReqOK(w[i], j)
  <2>1. CASE i <= Len(ol)
    <3>1. i \in 1..Len(ol) /\ w[i] = ol[i]
      BY <1>2, <1>4, <1>6, <1>7, <2>1
    <3> QED BY <3>1 DEF ReqsOK
  <2>2. CASE ~ (i <= Len(ol))
    <3>1. i - Len(ol) \in 1..k /\ i - Len(ol) \in 1..Len(rs)
      BY <1>2, <1>4, <1>6, <1>7, <2>2
    <3>2. w[i] = rs[i - Len(ol)]
      BY <1>2, <1>4, <1>6, <1>7, <2>2, <3>1
    <3> QED BY <3>1, <3>2 DEF ReqsOK
  <2> QED BY <2>1, <2>2
<1>8. IsQueue(w)
  BY <1>6, QueueFacts
<1> QED
  BY <1>3, <1>5, <1>7, <1>8 DEF ReqsOK

\* Answers nobody wants any more.
Forgotten(rs) == [k \in DOMAIN rs |-> [rs[k] EXCEPT !.want = FALSE]]

LEMMA RequestsForgotten ==
    ASSUME NEW j, NEW rs, ReqsOK(rs, j), NEW w, w = Forgotten(rs)
    PROVE  ReqsOK(w, j) /\ Len(w) \in Nat /\ \A k \in 1..Len(w) : ~ w[k].want
<1>1. IsQueue(rs) /\ w = [k \in DOMAIN rs |-> w[k]]
  BY DEF ReqsOK, Forgotten
<1>2. IsQueue(w) /\ Len(w) = Len(rs) /\ DOMAIN rs = 1..Len(rs) /\ Len(rs) \in Nat
  BY <1>1, SameShape
<1>3. ASSUME NEW k \in 1..Len(rs) PROVE ReqOK(w[k], j) /\ ~ w[k].want
  <2>1. PICK r, r2 : r = rs[k] /\ r2 = w[k] /\ r2 = [r EXCEPT !.want = FALSE]
    BY <1>2 DEF Forgotten
  <2>2. ReqOK(r, j)
    BY <2>1 DEF ReqsOK
  <2>3. /\ DOMAIN r2 = DOMAIN r /\ r2.want = FALSE /\ r2.prev = r.prev /\ r2.entries = r.entries /\ r2.prevTerm = r.prevTerm
    BY <2>1, <2>2 DEF ReqOK
  <2> QED BY <2>1, <2>2, <2>3 DEF ReqOK
<1> QED
  BY <1>2, <1>3 DEF ReqsOK

LEMMA RequestsGrow ==
    ASSUME NEW j, LeaderLog(j), NEW w, w = Append(j, T), NEW rs, ReqsOK(rs, j)
    PROVE  ReqsOK(rs, w)
BY LeaderAppends DEF ReqsOK

\* What t has acknowledged stays acknowledged.
AcksKept(log, j, V, L, log2, j2, V2, L2, t) ==
    \A k : AckOK(k, log, j, V, L, t) => AckOK(k, log2, j2, V2, L2, t)

LEMMA AckHeld ==
    ASSUME NEW j, NEW log, Plausible(log, j), NEW V, NEW L, NextLog(V, L), NEW t, NEW k, AckOK(k, log, j, V, L, t)
    PROVE  Held(log, j, k) /\ k \in 3..Len(j)
<1>1. ASSUME V # {}, log = L PROVE FALSE
  <2>1. Len(log) > 0 /\ log \in Seq(Nat) /\ log[Len(log)] > T
    BY <1>1 DEF NextLog
  <2>2. Len(log) \in 1..Len(log) /\ log[Len(log)] \in Nat
    BY <2>1
  <2>3. log[Len(log)] >= T
    BY <2>1, <2>2 DEF T
  <2>4. log[Len(log)] = T
    BY <2>2, <2>3 DEF Plausible
  <2> QED BY <2>1, <2>4 DEF T
<1> QED
  BY <1>1 DEF AckOK

LEMMA AcksKeptByLog ==
    ASSUME NEW j, NEW log, Plausible(log, j), NEW V, NEW L, NextLog(V, L), NEW t, NEW log2,
           \A k : Held(log, j, k) => Held(log2, j, k)
    PROVE  AcksKept(log, j, V, L, log2, j, V, L, t)
<1> SUFFICES ASSUME NEW k, AckOK(k, log, j, V, L, t) PROVE AckOK(k, log2, j, V, L, t)
  BY DEF AcksKept
<1>1. Held(log2, j, k)
  BY AckHeld
<1> QED
  BY <1>1 DEF AckOK

LEMMA AcksKeptByAppend ==
    ASSUME NEW j, LeaderLog(j), NEW w, w = Append(j, T), NEW log, NEW V, NEW L, NEW t
    PROVE  AcksKept(log, j, V, L, log, w, V, L, t)
<1> SUFFICES ASSUME NEW k, AckOK(k, log, j, V, L, t) PROVE AckOK(k, log, w, V, L, t)
  BY DEF AcksKept
<1>1. \A x, i : Held(x, j, i) => Held(x, w, i)
  BY LeaderAppends
<1>2. Len(w) = Len(j) + 1 /\ Len(j) \in Nat
  BY LeaderAppends DEF LeaderLog
<1>3. k \in 3..Len(w)
  BY <1>2 DEF AckOK
<1> QED
  BY <1>1, <1>3 DEF AckOK

LEMMA AnswersKept ==
    ASSUME NEW log, NEW j, NEW V, NEW L, NEW log2, NEW j2, NEW V2, NEW L2, NEW t,
           AcksKept(log, j, V, L, log2, j2, V2, L2, t), NEW q, AnswersOK(q, log, j, V, L, t)
    PROVE  AnswersOK(q, log2, j2, V2, L2, t)
BY DEF AcksKept, AnswersOK, AnswerOK

LEMMA AnswersAppend ==
    ASSUME NEW log, NEW j, NEW V, NEW L, NEW t, NEW q, AnswersOK(q, log, j, V, L, t), NEW i, i.answer = Pending,
           NEW w, Longer(w, q, i)
    PROVE  AnswersOK(w, log, j, V, L, t)
<1>1. AnswerOK(i, log, j, V, L, t)
  BY DEF AnswerOK, Pending
<1>2. ASSUME NEW k \in 1..Len(w) PROVE AnswerOK(w[k], log, j, V, L, t)
  <2>1. k \in 1..Len(q) \/ k = Len(q) + 1
    BY <1>2 DEF Longer
  <2> QED BY <1>1, <2>1 DEF Longer, AnswersOK
<1> QED
  BY <1>2 DEF AnswersOK

LEMMA AnswersRest ==
    ASSUME NEW log, NEW j, NEW V, NEW L, NEW t, NEW q, AnswersOK(q, log, j, V, L, t), NEW w, Rest(w, q)
    PROVE  AnswersOK(w, log, j, V, L, t) /\ AnswerOK(q[1], log, j, V, L, t)
<1>1. ASSUME NEW k \in 1..Len(w) PROVE AnswerOK(w[k], log, j, V, L, t)
  <2>1. k + 1 \in 1..Len(q) /\ w[k] = q[k + 1]
    BY <1>1 DEF Rest
  <2> QED BY <2>1 DEF AnswersOK
<1>2. 1 \in 1..Len(q)
  BY DEF Rest
<1> QED
  BY <1>1, <1>2 DEF AnswersOK

LEMMA AnswersEmpty ==
    ASSUME NEW log, NEW j, NEW V, NEW L, NEW t PROVE AnswersOK(<<>>, log, j, V, L, t)
BY EmptyQueue DEF AnswersOK

LEMMA AnswersDelivered ==
    ASSUME NEW log, NEW j, NEW V, NEW L, NEW t, NEW q, AnswersOK(q, log, j, V, L, t), NEW w, NEW x, NEW a,
           Answered(w, q, x, a), AnswerOK(w[x], log, j, V, L, t)
    PROVE  AnswersOK(w, log, j, V, L, t)
<1>1. ASSUME NEW k \in 1..Len(w) PROVE AnswerOK(w[k], log, j, V, L, t)
  <2>1. k \in 1..Len(q) /\ (k # x => w[k] = q[k])
    BY <1>1 DEF Answered
  <2> QED BY <2>1 DEF AnswersOK
<1> QED
  BY <1>1 DEF AnswersOK

\* The connection breaks.
Broken(q) == [i \in DOMAIN q |-> IF q[i].answer = Pending THEN [q[i] EXCEPT !.answer = Lost] ELSE q[i]]

LEMMA AnswersLost ==
    ASSUME NEW log, NEW j, NEW V, NEW L, NEW t, NEW q, IsQueue(q), AnswersOK(q, log, j, V, L, t), Answerable(q),
           NEW w, w = Broken(q)
    PROVE  AnswersOK(w, log, j, V, L, t) /\ Len(w) = Len(q) /\ Len(w) \in Nat /\ NonePending(w) /\ TermsOf(w)
<1>1. w = [k \in DOMAIN q |-> w[k]]
  BY DEF Broken
<1>2. IsQueue(w) /\ Len(w) = Len(q) /\ DOMAIN q = 1..Len(q) /\ Len(q) \in Nat
  BY <1>1, SameShape
<1>3. Lost.state = "lost" /\ Lost.logSize = 0 /\ Lost.term = 0 /\ Lost # Pending
  BY DEF Lost, Pending
<1>4. ASSUME NEW k \in 1..Len(q)
      PROVE  AnswerOK(w[k], log, j, V, L, t) /\ w[k].answer # Pending /\ w[k].answer.term \in Nat
  <2>1. PICK i, i2 : i = q[k] /\ i2 = w[k] /\ i2 = IF i.answer = Pending THEN [i EXCEPT !.answer = Lost] ELSE i
    BY <1>2 DEF Broken
  <2>2. CASE i.answer # Pending
    BY <2>1, <2>2 DEF AnswersOK, Answerable
  <2>3. CASE i.answer = Pending
    <3>1. i2.answer = Lost
      BY <2>1, <2>3 DEF Answerable
    <3> QED BY <1>3, <2>1, <3>1 DEF AnswerOK
  <2> QED BY <2>2, <2>3
<1> QED
  BY <1>2, <1>4 DEF AnswersOK, NonePending, TermsOf

-----------------------------------------------------------------------------
(* Steps that concern one target *)

SoundKept(t) == \A V, L : VotersOK(V, L) /\ SoundAt(t, V, L) => SoundAt(t, V, L)'

LEMMA OneTargetSound ==
    ASSUME Sound, NEW t \in Target, journal'.log = journal.log, full' = full,
           left'.reconfigurations = left.reconfigurations, full \subseteq Target,
           Differs(node, node', t), Differs(match, match', t), Differs(reqs, reqs', t), Differs(old, old', t),
           Differs(inFlight, inFlight', t), Differs(tracker, tracker', t),
           node[t].term > T => node'[t].term > T, SoundKept(t)
    PROVE  Sound'
<1>1. PICK V, L : VotersOK(V, L) /\ \A u \in Target : SoundAt(u, V, L)
  BY DEF Sound
<1>2. ASSUME NEW u \in Target PROVE SoundAt(u, V, L)'
  <2>1. CASE u = t
    BY <1>1, <2>1 DEF SoundKept
  <2>2. CASE u # t
    <3>1. /\ node'[u] = node[u] /\ match'[u] = match[u] /\ reqs'[u] = reqs[u] /\ old'[u] = old[u]
          /\ inFlight'[u] = inFlight[u] /\ tracker'[u] = tracker[u]
      BY <2>2 DEF Differs
    <3>2. SoundAt(u, V, L)
      BY <1>1
    <3> QED BY <3>1, <3>2 DEF SoundAt
  <2> QED BY <2>1, <2>2
<1>3. VotersOK(V, L)'
  <2>1. quorumSize' = quorumSize
    BY DEF quorumSize
  <2>2. \A u \in Target : node[u].term > T => node'[u].term > T
    BY DEF Differs
  <2>3. V \subseteq Target
    BY <1>1 DEF VotersOK
  <2> QED BY <1>1, <2>1, <2>2, <2>3 DEF VotersOK
<1>4. LeaderLog(journal.log)'
  BY DEF Sound
<1> QED
  BY <1>2, <1>3, <1>4 DEF Sound

Steps(t) ==
    /\ full' = full /\ left'.reconfigurations = left.reconfigurations
    /\ Differs(node, node', t) /\ Differs(match, match', t) /\ Differs(reqs, reqs', t) /\ Differs(old, old', t)
    /\ Differs(inFlight, inFlight', t) /\ Differs(tracker, tracker', t) /\ Differs(beat, beat', t)

Typed(t) ==
    /\ node'[t].term \in Nat /\ beat'[t].term \in Nat /\ TermsOf(inFlight'[t])
    /\ node[t].term > T => node'[t].term > T

LEMMA OneStep ==
    ASSUME ChosenInv, NEW t \in Target, Steps(t), Typed(t), Budget', term' \in Nat, term <= term',
           term = T /\ term' = T => journal'.log = journal.log /\ JournalOK' /\ SoundKept(t)
    PROVE  Chosen'
<1>1. full \subseteq Target /\ Terms /\ term \in Nat /\ T <= term
  BY DEF ChosenInv, LeaseInv, Chosen, Terms
<1>2. T <= term' /\ (term' = T => term = T)
  BY <1>1 DEF T
<1>3. Terms'
  <2>1. ASSUME NEW u \in Target
        PROVE  node'[u].term \in Nat /\ beat'[u].term \in Nat /\ TermsOf(inFlight'[u])
    <3>1. CASE u = t
      BY <3>1 DEF Typed
    <3>2. CASE u # t
      BY <1>1, <3>2 DEF Steps, Differs, Terms
    <3> QED BY <3>1, <3>2
  <2> QED BY <1>2, <2>1 DEF Terms, Steps, Differs
<1>4. ASSUME term' = T PROVE JournalOK' /\ Sound'
  <2>1. Sound /\ journal'.log = journal.log /\ JournalOK' /\ SoundKept(t)
    BY <1>2, <1>4 DEF ChosenInv, Chosen
  <2> QED BY <1>1, <2>1, OneTargetSound DEF Steps, Typed
<1> QED
  BY <1>3, <1>4 DEF Chosen

LEMMA ChosenFacts ==
    ASSUME ChosenInv, NEW t \in Target
    PROVE  /\ DOMAIN node = Target /\ DOMAIN inFlight = Target /\ DOMAIN beat = Target /\ DOMAIN tracker = Target
           /\ DOMAIN match = Target /\ DOMAIN reqs = Target /\ DOMAIN old = Target /\ full \subseteq Target
           /\ DOMAIN node[t] = Fields /\ node[t].term \in Nat /\ beat[t].term \in Nat
           /\ TermsOf(inFlight[t]) /\ term \in Nat /\ T <= term /\ Budget
           /\ IsQueue(inFlight[t])
           /\ \A k \in 1..Len(inFlight[t]) : DOMAIN inFlight[t][k] = {"from", "size", "sent", "answer", "lastEntryTerm"}
           /\ LeaseInv
<1>1. LeaseInv /\ Terms /\ Budget
  BY DEF ChosenInv, Chosen
<1>2. QueueOK(inFlight[t], node[t].heard, now) /\ DOMAIN node[t] = Fields
  BY <1>1, Facts
<1>3. IsQueue(inFlight[t]) /\ \A k \in 1..Len(inFlight[t]) : DOMAIN inFlight[t][k] = {"from", "size", "sent", "answer", "lastEntryTerm"}
  BY <1>2 DEF QueueOK, ItemOK
<1> QED
  BY <1>1, <1>2, <1>3 DEF LeaseInv, Terms

LEMMA Unmoved ==
    ASSUME ChosenInv, NEW t \in Target
    PROVE  /\ Differs(node, node, t) /\ Differs(match, match, t) /\ Differs(reqs, reqs, t) /\ Differs(old, old, t)
           /\ Differs(inFlight, inFlight, t) /\ Differs(tracker, tracker, t) /\ Differs(beat, beat, t)
BY ChosenFacts DEF Differs

PlanKept(t) ==
    term = T /\ term' = T /\ PlanOK(tracker[t], inFlight[t], journal.log) => PlanOK(tracker'[t], inFlight[t], journal.log)

\* Only the tracker changes.
LEMMA PlanStep ==
    ASSUME ChosenInv, NEW t \in Target, term' \in Nat, term <= term', journal' = journal, full' = full, left' = left,
           node' = node, match' = match, reqs' = reqs, old' = old, inFlight' = inFlight, beat' = beat,
           Differs(tracker, tracker', t), PlanKept(t)
    PROVE  Chosen'
<1>1. Steps(t)
  BY Unmoved DEF Steps
<1>2. Typed(t) /\ Budget'
  BY ChosenFacts DEF Typed, Budget
<1>3. ASSUME term = T, term' = T PROVE journal'.log = journal.log /\ JournalOK' /\ SoundKept(t)
  <2>1. JournalOK
    BY <1>3 DEF ChosenInv, Chosen
  <2>2. JournalOK'
    BY <2>1 DEF JournalOK
  <2>3. ASSUME NEW V, NEW L, SoundAt(t, V, L) PROVE SoundAt(t, V, L)'
    BY <1>3, <2>3 DEF SoundAt, PlanKept
  <2> QED BY <2>2, <2>3 DEF SoundKept
<1> QED
  BY <1>1, <1>2, <1>3, OneStep

LEMMA TermGrows ==
    ASSUME ChosenInv, NEW x \in Nat, observed(x)
    PROVE  term' \in Nat /\ term <= term' /\ x <= term'
<1>1. term \in Nat
  BY DEF ChosenInv, Chosen, Terms
<1> QED
  BY <1>1, MaxOfTwo DEF observed

PlanFields == {"pc", "streaming", "next", "limit", "prevTerm"}

\* The steps of the main thread that only change the tracker.
LEMMA PlanSteps ==
    ASSUME ChosenInv, NEW t \in Target, StartStreaming(t) \/ BeginRound(t) \/ ReadCommitIndex(t) \/ Finish(t) \/ Halt(t)
    PROVE  Chosen'
<1>1. PICK tr, j, q : tr = tracker[t] /\ j = journal.log /\ q = inFlight[t]
  OBVIOUS
<1>2. /\ journal' = journal /\ full' = full /\ left' = left /\ node' = node /\ match' = match /\ reqs' = reqs /\ old' = old
      /\ inFlight' = inFlight /\ beat' = beat
  BY DEF StartStreaming, BeginRound, ReadCommitIndex, Finish, Halt, net, time
<1>3. DOMAIN tracker = Target /\ term \in Nat
  BY ChosenFacts
<1>4. ASSUME NEW tr2, tracker' = [tracker EXCEPT ![t] = tr2], term' = term,
             term = T /\ PlanOK(tr, q, j) => PlanOK(tr2, q, j)
      PROVE  Chosen'
  <2>1. Differs(tracker, tracker', t) /\ tracker'[t] = tr2
    BY <1>3, <1>4 DEF Differs
  <2>2. PlanKept(t)
    BY <1>1, <1>4, <2>1 DEF PlanKept
  <2>3. term' \in Nat /\ term <= term'
    BY <1>3, <1>4
  <2> QED BY <1>2, <2>1, <2>2, <2>3, PlanStep
<1>5. CASE StartStreaming(t)
  <2>1. PICK tr2 : tr2 = [tr EXCEPT !.streaming = "yes", !.resilverer = "none"]
    OBVIOUS
  <2>2. tracker' = [tracker EXCEPT ![t] = tr2] /\ tr.pc = "round" /\ term' = term
    BY <1>1, <1>5, <2>1 DEF StartStreaming
  <2>3. ASSUME PlanOK(tr, q, j) PROVE PlanOK(tr2, q, j)
    <3>1. PlanFields \subseteq DOMAIN tr
      BY <2>3 DEF PlanOK, PlanFields
    <3>2. /\ DOMAIN tr2 = DOMAIN tr /\ tr2.streaming = "yes" /\ tr2.pc = "round" /\ tr2.next = tr.next /\ tr2.limit = tr.limit
      BY <2>1, <2>2, <3>1 DEF PlanFields
    <3> QED BY <2>3, <3>2 DEF PlanOK
  <2> QED BY <1>4, <2>2, <2>3
<1>6. CASE BeginRound(t)
  <2>1. PICK p, n, x, c : /\ p = (IF left.prevWindow THEN "prev" ELSE "commit") /\ n = RoundIndex(t)
                          /\ x = TermAt(journal.log, n - 1) /\ c = IF left.prevWindow THEN 0 ELSE journal.commitIndex
    OBVIOUS
  <2>2. PICK tr2 : tr2 = [tr EXCEPT !.pc = p, !.next = n, !.prevTerm = x, !.commit = c]
    OBVIOUS
  <2>3. tracker' = [tracker EXCEPT ![t] = tr2] /\ tr.pc = "round" /\ term' = term /\ ~ PrevUnreadable(n)
    BY <1>1, <1>6, <2>1, <2>2 DEF BeginRound, CanBegin
  <2>4. ASSUME term = T, PlanOK(tr, q, j) PROVE PlanOK(tr2, q, j)
    <3>1. PlanFields \subseteq DOMAIN tr
      BY <2>4 DEF PlanOK, PlanFields
    <3>2. /\ DOMAIN tr2 = DOMAIN tr /\ tr2.streaming = tr.streaming /\ tr2.pc = p /\ tr2.next = n /\ tr2.limit = tr.limit
          /\ tr2.prevTerm = x
      BY <2>2, <3>1 DEF PlanFields
    <3>3. JournalOK /\ LeaderLog(j)
      BY <1>1, <2>4 DEF ChosenInv, Chosen, Sound
    <3>4. Len(j) \in Nat /\ journal.start \in Nat /\ tr.next \in Nat
      BY <2>4, <3>3 DEF JournalOK, LeaderLog, PlanOK
    <3>5. n \in Nat
      BY <1>1, <2>1, <3>4 DEF RoundIndex, LogSize
    <3>6. n \in 1..Len(j)
      BY <1>1, <2>3, <3>4, <3>5 DEF PrevUnreadable, LogSize
    <3>7. x = j[n]
      <4>1. n - 1 + 1 = n
        BY <3>5
      <4> QED BY <1>1, <2>1, <4>1 DEF TermAt
    <3>8. p \in {"prev", "commit"}
      BY <2>1
    <3>9. tr.streaming = "no" => Len(q) = 0
      BY <2>3, <2>4 DEF PlanOK
    <3> QED BY <2>4, <3>2, <3>5, <3>6, <3>7, <3>8, <3>9 DEF PlanOK
  <2> QED BY <1>4, <2>3, <2>4
<1>7. CASE ReadCommitIndex(t)
  <2>1. PICK tr2 : tr2 = [tr EXCEPT !.pc = "commit", !.commit = journal.commitIndex]
    OBVIOUS
  <2>2. tracker' = [tracker EXCEPT ![t] = tr2] /\ tr.pc = "prev" /\ term' = term
    BY <1>1, <1>7, <2>1 DEF ReadCommitIndex
  <2>3. ASSUME PlanOK(tr, q, j) PROVE PlanOK(tr2, q, j)
    <3>1. PlanFields \subseteq DOMAIN tr
      BY <2>3 DEF PlanOK, PlanFields
    <3>2. /\ DOMAIN tr2 = DOMAIN tr /\ tr2.streaming = tr.streaming /\ tr2.pc = "commit" /\ tr2.next = tr.next
          /\ tr2.limit = tr.limit /\ tr2.prevTerm = tr.prevTerm
      BY <2>1, <3>1 DEF PlanFields
    <3> QED BY <2>2, <2>3, <3>2 DEF PlanOK
  <2> QED BY <1>4, <2>2, <2>3
<1>8. CASE Finish(t)
  <2>1. term # T /\ term' = term
    BY <1>8 DEF Finish, EndLoop, Current
  <2>2. PICK tr2 : tracker' = [tracker EXCEPT ![t] = tr2]
    BY <1>8 DEF Finish
  <2> QED BY <1>4, <2>1, <2>2
<1>9. CASE Halt(t)
  <2>1. PICK tr2 : tracker' = [tracker EXCEPT ![t] = tr2]
    BY <1>9 DEF Halt
  <2>2. Differs(tracker, tracker', t)
    BY <1>3, <2>1 DEF Differs
  <2>3. term' \in Nat /\ term <= term' /\ term' # T
    <3>1. T + 1 \in Nat /\ observed(T + 1)
      BY <1>9 DEF Halt, T
    <3>2. term' \in Nat /\ term <= term' /\ T + 1 <= term'
      BY <3>1, TermGrows
    <3> QED BY <3>2 DEF T
  <2>4. PlanKept(t)
    BY <2>3 DEF PlanKept
  <2> QED BY <1>2, <2>2, <2>3, <2>4, PlanStep
<1> QED
  BY <1>5, <1>6, <1>7, <1>8, <1>9

LEMMA PayloadFacts ==
    ASSUME NEW t \in Target, LeaderLog(journal.log), tracker[t].next \in Nat, tracker[t].limit \in Nat \ {0},
           tracker[t].next <= LogSize
    PROVE  /\ Payload(t) \in Seq(Nat) /\ tracker[t].next + Len(Payload(t)) <= LogSize
           /\ \A i \in 1..Len(Payload(t)) : Payload(t)[i] = journal.log[tracker[t].next + i]
<1>1. PICK j : j = journal.log /\ j \in Seq(Nat)
  BY DEF LeaderLog
<1>2. PICK n \in Nat, s \in Nat : n = tracker[t].next /\ s = Len(j) /\ n <= s
  BY <1>1 DEF LogSize
<1>3. PICK l \in Nat : l = IF tracker[t].streaming = "no" THEN tracker[t].limit ELSE StreamLimit
  BY ReplicationAssumption
<1>4. PICK m \in Nat : m = Min({l, s - n}) /\ m <= s - n
  <2>1. s - n \in Nat /\ {l, s - n} \subseteq Nat /\ {l, s - n} # {}
    BY <1>2
  <2>2. Min({l, s - n}) \in {l, s - n} /\ \A y \in {l, s - n} : Min({l, s - n}) <= y
    BY <2>1, LeastNumber
  <2> QED BY <2>1, <2>2
<1>5. n + m <= s
  BY <1>2, <1>4
<1>6. PayloadSize(t) = m
  BY <1>1, <1>2, <1>3, <1>4 DEF PayloadSize, LogSize
<1>7. PICK es : es = SubSeq(j, n + 1, n + m)
  OBVIOUS
<1>8. Payload(t) = es
  BY <1>1, <1>2, <1>6, <1>7 DEF Payload
<1>9. PICK x \in Nat, y \in Nat : x = n + 1 /\ y = n + m
  BY <1>2, <1>5
<1>10. \A i \in x..y : j[i] \in Nat
  <2>1. \A i \in 1..s : j[i] \in Nat
    BY <1>1, <1>2
  <2>2. \A i \in x..y : i \in 1..s
    BY <1>5, <1>9
  <2> QED BY <2>1, <2>2
<1>11. es \in Seq(Nat) /\ Len(es) = (IF x <= y THEN y - x + 1 ELSE 0) /\ \A i \in 1..(y - x + 1) : es[i] = j[x + i - 1]
  BY <1>7, <1>9, <1>10, SubSeqProperties
<1>12. Len(es) = m /\ y - x + 1 = m
  <2>1. y - x + 1 = m /\ (x <= y <=> m # 0)
    BY <1>9
  <2>2. CASE m # 0
    BY <1>11, <2>1, <2>2
  <2>3. CASE m = 0
    BY <1>11, <2>1, <2>3
  <2> QED BY <2>1, <2>2, <2>3
<1>13. \A i \in 1..m : es[i] = j[n + i]
  <2> SUFFICES ASSUME NEW i \in 1..m PROVE es[i] = j[n + i]
    OBVIOUS
  <2>0. y - x + 1 = m
    BY <1>12
  <2>1. x + i - 1 = n + i /\ i \in 1..(y - x + 1)
    BY <1>9, <2>0
  <2> QED BY <1>11, <2>1
<1> QED
  BY <1>1, <1>2, <1>5, <1>8, <1>11, <1>12, <1>13 DEF LogSize

LEMMA SendChosen ==
    ASSUME ChosenInv, NEW t \in Target, SendPayload(t)
    PROVE  Chosen'
<1>1. PICK tr, es, j, q, rs : tr = tracker[t] /\ es = Payload(t) /\ j = journal.log /\ q = inFlight[t] /\ rs = reqs[t]
  OBVIOUS
<1>2. PICK item : item = [from |-> tr.next, size |-> Len(es), sent |-> SentAt, answer |-> Pending,
                          lastEntryTerm |-> IF es = <<>> THEN NoTerm ELSE es[Len(es)]]
  OBVIOUS
<1>3. PICK r : r = [prev |-> tr.next - 1, prevTerm |-> tr.prevTerm, commit |-> CommitFor(t), entries |-> es, want |-> TRUE]
  OBVIOUS
<1>4. PICK q2, rs2 : q2 = Append(q, item) /\ rs2 = Append(rs, r)
  OBVIOUS
<1>5. inFlight' = [inFlight EXCEPT ![t] = q2] /\ reqs' = [reqs EXCEPT ![t] = rs2]
  BY <1>1, <1>2, <1>3, <1>4 DEF SendPayload
<1>6. /\ journal' = journal /\ term' = term /\ full' = full /\ left' = left /\ node' = node /\ match' = match
      /\ old' = old /\ beat' = beat
  BY DEF SendPayload, time
<1>7. tracker' = [tracker EXCEPT ![t] =
          [@ EXCEPT !.pc = IF tracker[t].streaming = "no" THEN "wait" ELSE "round",
                    !.next = IF tracker[t].streaming = "no" THEN tracker[t].next ELSE tracker[t].next + Len(Payload(t)),
                    !.prevTerm = NoTerm, !.commit = 0]]
  BY DEF SendPayload
<1>8. tr.pc = "commit" /\ tr.next <= LogSize
  BY <1>1 DEF SendPayload
<1>9. /\ Differs(inFlight, inFlight', t) /\ inFlight'[t] = q2 /\ Differs(reqs, reqs', t) /\ reqs'[t] = rs2
      /\ Differs(tracker, tracker', t)
  BY <1>5, <1>7, ChosenFacts DEF Differs
<1>10. Steps(t)
  BY <1>6, <1>9, Unmoved DEF Steps
<1>11. Longer(q2, q, item) /\ item.answer = Pending
  BY <1>1, <1>2, <1>4, ChosenFacts, AppendedQueue
<1>12. TermsOf(q2)
  <2>1. Pending.term = 0 /\ TermsOf(q)
    BY <1>1, ChosenFacts DEF Pending
  <2>2. ASSUME NEW k \in 1..Len(q2) PROVE q2[k].answer.term \in Nat
    <3>1. k \in 1..Len(q) \/ k = Len(q) + 1
      BY <1>11, <2>2 DEF Longer
    <3> QED BY <1>11, <2>1, <3>1 DEF Longer, TermsOf
  <2> QED BY <2>2 DEF TermsOf
<1>13. Typed(t)
  BY <1>6, <1>9, <1>12, ChosenFacts DEF Typed
<1>14. Budget' /\ term' \in Nat /\ term <= term'
  BY <1>6, ChosenFacts DEF Budget
<1>15. ASSUME term = T PROVE journal'.log = journal.log /\ JournalOK' /\ SoundKept(t)
  <2>1. JournalOK /\ LeaderLog(j)
    BY <1>1, <1>15 DEF ChosenInv, Chosen, Sound
  <2>2. JournalOK'
    BY <1>6, <2>1 DEF JournalOK
  <2>3. ASSUME NEW V, NEW L, SoundAt(t, V, L) PROVE SoundAt(t, V, L)'
    <3>1. PlanOK(tr, q, j) /\ ReqsOK(rs, j) /\ ReqsOK(old[t], j) /\ AnswersOK(q, node[t].log, j, V, L, t)
      BY <1>1, <2>3 DEF SoundAt
    <3>2. PlanFields \subseteq DOMAIN tr /\ tr.next \in Nat /\ tr.limit \in Nat \ {0} /\ tr.next \in 1..Len(j) /\ tr.prevTerm = j[tr.next]
      BY <1>8, <3>1 DEF PlanOK, PlanFields
    <3>3. es \in Seq(Nat) /\ tr.next + Len(es) <= Len(j) /\ \A i \in 1..Len(es) : es[i] = j[tr.next + i]
      BY <1>1, <1>8, <2>1, <3>2, PayloadFacts DEF LogSize
    <3>4. PICK n \in Nat : n = tr.next - 1 /\ n + 1 = tr.next
      BY <3>2
    <3>5. ReqOK(r, j) /\ r.want
      <4>1. /\ DOMAIN r = {"prev", "prevTerm", "commit", "entries", "want"} /\ r.want = TRUE /\ r.prev = n /\ r.entries = es
            /\ r.prevTerm = tr.prevTerm
        BY <1>3, <3>4
      <4> QED BY <3>2, <3>3, <3>4, <4>1 DEF ReqOK
    <3>6. Fits(item, r)
      <4>1. item.lastEntryTerm = (IF es = <<>> THEN NoTerm ELSE es[Len(es)]) /\ r.entries = es
        BY <1>2, <1>3
      <4>2. NoTerm # T
        BY DEF NoTerm, T
      <4>3. es # <<>> => Len(es) > 0
        BY <3>3
      <4> QED BY <4>1, <4>2, <4>3 DEF Fits
    <3>7. Longer(rs2, rs, r)
      BY <1>4, <3>1, AppendedQueue DEF ReqsOK
    <3>8. ReqsOK(rs2, j)
      BY <3>1, <3>5, <3>7, RequestsAppend
    <3>9. AnswersOK(q2, node[t].log, j, V, L, t)
      BY <1>11, <3>1, AnswersAppend
    <3>10. \E p \in Nat : Waiting(q2, rs2, p)
      <4>1. PICK p \in Nat : Waiting(q, rs, p)
        BY <1>1, <2>3 DEF SoundAt
      <4> QED BY <1>11, <3>5, <3>6, <3>7, <4>1, SentRequest
    <3>11. PlanOK(tracker'[t], q2, j)
      <4>1. PICK tr2 : tr2 = tracker'[t]
        OBVIOUS
      <4>2. /\ DOMAIN tr2 = DOMAIN tr /\ tr2.streaming = tr.streaming /\ tr2.limit = tr.limit
            /\ tr2.pc = (IF tr.streaming = "no" THEN "wait" ELSE "round")
            /\ tr2.next = (IF tr.streaming = "no" THEN tr.next ELSE tr.next + Len(es))
        <5>1. PICK pc, n2 : /\ pc = (IF tracker[t].streaming = "no" THEN "wait" ELSE "round")
                            /\ n2 = (IF tracker[t].streaming = "no" THEN tracker[t].next ELSE tracker[t].next + Len(Payload(t)))
          OBVIOUS
        <5>2. tracker' = [tracker EXCEPT ![t] = [tracker[t] EXCEPT !.pc = pc, !.next = n2, !.prevTerm = NoTerm, !.commit = 0]]
          BY <5>1 DEF SendPayload
        <5>3. DOMAIN tracker = Target
          BY ChosenFacts
        <5>4. tr2 = [tr EXCEPT !.pc = pc, !.next = n2, !.prevTerm = NoTerm, !.commit = 0]
          BY <1>1, <4>1, <5>2, <5>3
        <5>5. DOMAIN tr2 = DOMAIN tr /\ tr2.streaming = tr.streaming /\ tr2.limit = tr.limit /\ tr2.pc = pc /\ tr2.next = n2
          BY <3>2, <5>4 DEF PlanFields
        <5> QED BY <1>1, <5>1, <5>5
      <4>3. tr2.next \in Nat
        BY <3>2, <3>3, <4>2
      <4>4. tr.streaming = "no" => Len(q2) = 1
        BY <1>8, <1>11, <3>1 DEF PlanOK, Longer
      <4>5. PlanOK(tr2, q2, j)
        BY <3>1, <4>2, <4>3, <4>4 DEF PlanOK
      <4> QED BY <4>1, <4>5
    <3> QED BY <1>1, <1>6, <1>9, <2>3, <3>1, <3>8, <3>9, <3>10, <3>11 DEF SoundAt
  <2> QED BY <1>6, <2>2, <2>3 DEF SoundKept
<1> QED
  BY <1>10, <1>13, <1>14, <1>15, OneStep

\* The answers that are under way are given up.
LEMMA ForgetChosen ==
    ASSUME ChosenInv, NEW t \in Target, forget(t), journal' = journal, term' = term, full' = full, Budget',
           left'.reconfigurations = left.reconfigurations, node' = node, match' = match, beat' = beat,
           Differs(tracker, tracker', t), tracker'[t].pc = "round",
           PlanFields \subseteq DOMAIN tracker[t] => DOMAIN tracker'[t] = DOMAIN tracker[t] /\ tracker'[t].next = tracker[t].next
                                                     /\ tracker'[t].limit \in {1, tracker[t].limit}
    PROVE  Chosen'
<1>1. PICK rs, rs2 : rs = reqs[t] /\ rs2 = Forgotten(rs)
  OBVIOUS
<1>2. inFlight' = [inFlight EXCEPT ![t] = <<>>] /\ reqs' = [reqs EXCEPT ![t] = rs2] /\ old' = old
  BY <1>1 DEF forget, Forgotten
<1>3. Differs(inFlight, inFlight', t) /\ inFlight'[t] = <<>> /\ Differs(reqs, reqs', t) /\ reqs'[t] = rs2
  BY <1>2, ChosenFacts DEF Differs
<1>4. Steps(t)
  BY <1>2, <1>3, Unmoved DEF Steps
<1>5. TermsOf(<<>>)
  BY EmptyQueue DEF TermsOf
<1>6. Typed(t)
  BY <1>3, <1>5, ChosenFacts DEF Typed
<1>7. term' \in Nat /\ term <= term'
  BY ChosenFacts
<1>8. ASSUME term = T PROVE journal'.log = journal.log /\ JournalOK' /\ SoundKept(t)
  <2>1. JournalOK
    BY <1>8 DEF ChosenInv, Chosen
  <2>2. JournalOK'
    BY <2>1 DEF JournalOK
  <2>3. ASSUME NEW V, NEW L, SoundAt(t, V, L) PROVE SoundAt(t, V, L)'
    <3>1. PICK j : j = journal.log /\ PlanOK(tracker[t], inFlight[t], j) /\ ReqsOK(rs, j)
      BY <1>1, <2>3 DEF SoundAt
    <3>2. ReqsOK(rs2, j) /\ Len(rs2) \in Nat /\ \A k \in 1..Len(rs2) : ~ rs2[k].want
      BY <1>1, <3>1, RequestsForgotten
    <3>3. Waiting(<<>>, rs2, 0) /\ 0 \in Nat
      BY <3>2, NobodyWaits
    <3>4. AnswersOK(<<>>, node[t].log, j, V, L, t)
      BY AnswersEmpty
    <3>5. PlanOK(tracker'[t], <<>>, j)
      <4>1. PlanFields \subseteq DOMAIN tracker[t]
        BY <3>1 DEF PlanOK, PlanFields
      <4> QED BY <3>1, <4>1, EmptyQueue DEF PlanOK, PlanFields
    <3> QED BY <1>2, <1>3, <2>3, <3>1, <3>2, <3>3, <3>4, <3>5 DEF SoundAt
  <2> QED BY <2>2, <2>3 DEF SoundKept
<1> QED
  BY <1>4, <1>6, <1>7, <1>8, OneStep

LEMMA ForgetSteps ==
    ASSUME ChosenInv, NEW t \in Target, LeaveStreaming(t) \/ \E b \in BOOLEAN : NoAnswer(t, b)
    PROVE  Chosen'
<1>1. PICK tr : tr = tracker[t]
  OBVIOUS
<1>2. DOMAIN tracker = Target /\ Budget /\ {"pc", "streaming"} \subseteq DOMAIN tr
  BY <1>1, ChosenFacts, Facts DEF WaitOK
<1>3. CASE LeaveStreaming(t)
  <2>1. /\ forget(t) /\ journal' = journal /\ term' = term /\ full' = full /\ left' = left /\ node' = node /\ match' = match
        /\ beat' = beat /\ tr.pc = "round"
    BY <1>1, <1>3 DEF LeaveStreaming, time
  <2>2. tracker' = [tracker EXCEPT ![t] = [tr EXCEPT !.streaming = "no", !.limit = 1, !.online = TRUE]]
    BY <1>1, <1>3 DEF LeaveStreaming
  <2>3. Differs(tracker, tracker', t) /\ tracker'[t] = [tr EXCEPT !.streaming = "no", !.limit = 1, !.online = TRUE]
    BY <1>2, <2>2 DEF Differs
  <2>4. tracker'[t].pc = "round"
    BY <1>2, <2>1, <2>3
  <2>5. PlanFields \subseteq DOMAIN tr => DOMAIN tracker'[t] = DOMAIN tr /\ tracker'[t].next = tr.next /\ tracker'[t].limit \in {1, tr.limit}
    BY <2>3 DEF PlanFields
  <2>6. Budget' /\ left'.reconfigurations = left.reconfigurations
    BY <1>2, <2>1 DEF Budget
  <2> QED BY <1>1, <2>1, <2>3, <2>4, <2>5, <2>6, ForgetChosen
<1>4. ASSUME NEW b \in BOOLEAN, NoAnswer(t, b) PROVE Chosen'
  <2>1. /\ forget(t) /\ journal' = journal /\ term' = term /\ full' = full /\ node' = node /\ match' = match /\ beat' = beat
    BY <1>4 DEF NoAnswer, time
  <2>2. tracker' = [tracker EXCEPT ![t] = [@ EXCEPT !.pc = "round", !.online = FALSE,
                                                    !.limit = IF tracker[t].online THEN 1 ELSE tracker[t].limit]]
    BY <1>4 DEF NoAnswer
  <2>3. Differs(tracker, tracker', t) /\ tracker'[t].pc = "round"
    BY <1>1, <1>2, <2>2 DEF Differs
  <2>4. PlanFields \subseteq DOMAIN tr => DOMAIN tracker'[t] = DOMAIN tr /\ tracker'[t].next = tr.next /\ tracker'[t].limit \in {1, tr.limit}
    <3>1. PICK l : l = (IF tracker[t].online THEN 1 ELSE tracker[t].limit)
      OBVIOUS
    <3>2. tracker' = [tracker EXCEPT ![t] = [tracker[t] EXCEPT !.pc = "round", !.online = FALSE, !.limit = l]]
      BY <1>4, <3>1 DEF NoAnswer
    <3>3. tracker'[t] = [tr EXCEPT !.pc = "round", !.online = FALSE, !.limit = l]
      BY <1>1, <1>2, <3>2
    <3>4. l \in {1, tr.limit}
      BY <1>1, <3>1
    <3> QED BY <3>3, <3>4 DEF PlanFields
  <2>5. left' = left \/ left' = [left EXCEPT !.timeouts = @ - 1]
    BY <1>4 DEF NoAnswer
  <2>6. Budget' /\ left'.reconfigurations = left.reconfigurations
    BY <1>2, <2>5 DEF Budget
  <2> QED BY <1>1, <2>1, <2>3, <2>4, <2>6, ForgetChosen
<1> QED
  BY <1>3, <1>4

\* The process ends.
LEMMA ThrowChosen ==
    ASSUME ChosenInv, NEW t \in Target, PayloadThrows(t)
    PROVE  Chosen'
<1>1. tracker' = [s \in Target |-> [tracker[s] EXCEPT !.pc = "done"]]
  BY DEF PayloadThrows
<1>2. /\ journal' = journal /\ term' = term /\ full' = full /\ left' = left /\ node' = node /\ match' = match /\ beat' = beat
      /\ reqs' = reqs /\ old' = old /\ inFlight' = inFlight
  BY DEF PayloadThrows, time, net
<1>3. Terms' /\ Budget'
  BY <1>2 DEF ChosenInv, Chosen, Terms, Budget
<1>4. ASSUME term = T PROVE JournalOK' /\ Sound'
  <2>1. PICK V, L : JournalOK /\ LeaderLog(journal.log) /\ VotersOK(V, L) /\ \A u \in Target : SoundAt(u, V, L)
    BY <1>4 DEF ChosenInv, Chosen, Sound
  <2>2. JournalOK' /\ LeaderLog(journal.log)' /\ VotersOK(V, L)'
    BY <1>2, <2>1 DEF JournalOK, VotersOK, quorumSize
  <2>3. ASSUME NEW u \in Target PROVE SoundAt(u, V, L)'
    <3>1. PICK tr : tr = tracker[u] /\ PlanOK(tr, inFlight[u], journal.log)
      BY <2>1, <2>3 DEF SoundAt
    <3>2. tracker'[u] = [tr EXCEPT !.pc = "done"] /\ PlanFields \subseteq DOMAIN tr
      BY <1>1, <3>1 DEF PlanOK, PlanFields
    <3>3. /\ DOMAIN tracker'[u] = DOMAIN tr /\ tracker'[u].pc = "done" /\ tracker'[u].next = tr.next
          /\ tracker'[u].limit = tr.limit /\ tracker'[u].streaming = tr.streaming
      BY <3>2 DEF PlanFields
    <3>4. PlanOK(tracker'[u], inFlight[u], journal.log)
      BY <3>1, <3>3 DEF PlanOK
    <3>5. SoundAt(u, V, L)
      BY <2>1
    <3> QED BY <1>2, <3>4, <3>5 DEF SoundAt
  <2> QED BY <2>2, <2>3 DEF Sound
<1> QED
  BY <1>2, <1>3, <1>4 DEF Chosen

-----------------------------------------------------------------------------
(* The leader counts an acknowledgement *)

LEMMA MatchBounds ==
    ASSUME ChosenInv, term = T
    PROVE  Len(journal.log) \in Nat /\ \A u \in Target : match[u] \in Nat /\ match[u] <= Len(journal.log)
<1>1. PICK V, L : LeaderLog(journal.log) /\ \A u \in Target : SoundAt(u, V, L)
  BY DEF ChosenInv, Chosen, Sound
<1>2. Len(journal.log) \in Nat
  BY <1>1 DEF LeaderLog
<1>3. ASSUME NEW u \in Target PROVE match[u] \in Nat /\ match[u] <= Len(journal.log)
  <2>1. match[u] \in Nat /\ (match[u] > 0 => match[u] + 1 \in 3..Len(journal.log))
    BY <1>1 DEF SoundAt, AckOK
  <2> QED BY <1>2, <2>1
<1> QED
  BY <1>2, <1>3

\* The index that a quorum has reached.
LEMMA Recalculated ==
    ASSUME IsFiniteSet(full), full # {}, NEW m, NEW n \in Nat, \A u \in full : m[u] \in Nat /\ m[u] <= n
    PROVE  /\ recalculateCommitIndex(m) \in Nat
           /\ Cardinality(Below(m, full, recalculateCommitIndex(m))) + quorumSize <= Cardinality(full) + 1
           /\ OneOf(m, full, recalculateCommitIndex(m))
<1>1. PICK c \in Nat : c = Cardinality(full)
  BY FS_CardinalityType
<1>2. PICK q \in Nat : q = quorumSize /\ q = (c + 1) \div 2 + 1
  BY <1>1 DEF quorumSize
<1>3. c # 0
  BY <1>1, FS_EmptySet
<1>4. c + 1 - q \in Nat /\ c + 1 - q < c
  BY <1>1, <1>2, <1>3
<1>5. PICK k \in Nat : k = c + 1 - q /\ k < Cardinality(full)
  BY <1>1, <1>4
<1>6. Nth(m, full, k) \in Nat /\ Cardinality(Below(m, full, Nth(m, full, k))) <= k /\ OneOf(m, full, Nth(m, full, k))
  BY <1>5, NthFacts
<1>7. recalculateCommitIndex(m) = Nth(m, full, k)
  BY <1>1, <1>2, <1>5 DEF recalculateCommitIndex
<1>8. PICK b \in Nat : b = Cardinality(Below(m, full, recalculateCommitIndex(m))) /\ b <= k
  BY <1>6, <1>7, Counted
<1>9. b + q <= c + 1
  BY <1>5, <1>8
<1> QED
  BY <1>1, <1>2, <1>6, <1>7, <1>8, <1>9

LEMMA AckDiffers ==
    ASSUME ChosenInv, NEW t \in Target, NEW item, NEW index, acknowledged(t, item, index)
    PROVE  Differs(match, match', t)
<1>1. match' = match \/ match' = [match EXCEPT ![t] = index]
  BY DEF acknowledged, updateMatch
<1>2. DOMAIN match = Target
  BY ChosenFacts
<1> QED
  BY <1>1, <1>2 DEF Differs

LEMMA AckCounted ==
    ASSUME ChosenInv, term = T, NEW t \in Target, NEW item, NEW index, acknowledged(t, item, index),
           item.lastEntryTerm = T => index \in Nat /\ index + 1 \in 3..Len(journal.log)
    PROVE  /\ journal'.log = journal.log /\ JournalOK'
           /\ match'[t] = match[t] \/ (match'[t] = index /\ item.lastEntryTerm = T)
<1>1. JournalOK /\ DOMAIN match = Target /\ full \in SUBSET Target /\ IsFiniteSet(full)
  <2>1. JournalOK /\ DOMAIN match = Target /\ full \in SUBSET Target
    BY ChosenFacts DEF ChosenInv, Chosen
  <2> QED BY <2>1, ReplicationAssumption, FS_Subset
<1>2. CASE item.lastEntryTerm # T
  BY <1>1, <1>2 DEF acknowledged, JournalOK
<1>3. CASE item.lastEntryTerm = T
  <2>1. PICK m : m = [match EXCEPT ![t] = index]
    OBVIOUS
  <2>2. PICK c : c = recalculateCommitIndex(m)
    OBVIOUS
  <2>3. match' = m /\ (journal' = journal \/ (full # {} /\ journal' = setCommitIndex(journal, c)))
    BY <1>3, <2>1, <2>2 DEF acknowledged, updateMatch
  <2>4. m[t] = index
    BY <1>1, <2>1
  <2>5. CASE journal' = journal
    BY <1>1, <1>3, <2>3, <2>4, <2>5 DEF JournalOK
  <2>6. CASE full # {} /\ journal' = setCommitIndex(journal, c)
    <3>1. PICK n \in Nat : n = Len(journal.log) /\ \A u \in Target : match[u] \in Nat /\ match[u] <= n
      BY MatchBounds
    <3>2. index \in Nat /\ index <= n
      BY <1>3, <3>1
    <3>3. \A u \in full : m[u] \in Nat /\ m[u] <= n
      BY <1>1, <2>1, <3>1, <3>2
    <3>4. c \in Nat
      BY <1>1, <2>2, <2>6, <3>1, <3>3, Recalculated
    <3>5. PICK x \in Nat : x = Max({journal.commitIndex, c})
      BY <1>1, <3>4, MaxOfTwo DEF JournalOK
    <3>6. journal' = [journal EXCEPT !.commitIndex = x]
      BY <2>6, <3>5 DEF setCommitIndex
    <3>7. DOMAIN journal' = DOMAIN journal /\ journal'.log = journal.log /\ journal'.start = journal.start /\ journal'.commitIndex = x
      BY <1>1, <3>6 DEF JournalOK
    <3> QED BY <1>1, <1>3, <2>3, <2>4, <3>5, <3>7 DEF JournalOK
  <2> QED BY <2>3, <2>5, <2>6
<1> QED
  BY <1>2, <1>3

LEMMA HeadAnswer ==
    ASSUME ChosenInv, term = T, NEW t \in Target, inFlight[t] # <<>>, NEW i, i = Head(inFlight[t])
    PROVE  /\ i.answer.logSize \in Nat
           /\ i.answer.state = "ok" /\ i.answer.outcome /\ ~ (i.answer.term > T) /\ i.lastEntryTerm = T
                => i.answer.logSize \in 3..Len(journal.log)
<1>1. PICK V, L : SoundAt(t, V, L)
  BY DEF ChosenInv, Chosen, Sound
<1>2. IsQueue(inFlight[t])
  BY ChosenFacts
<1>3. i = inFlight[t][1] /\ Len(inFlight[t]) \in Nat \ {0}
  BY <1>2, RestOfQueue DEF Rest
<1>4. AnswerOK(i, node[t].log, journal.log, V, L, t)
  BY <1>1, <1>3 DEF SoundAt, AnswersOK
<1> QED
  BY <1>4 DEF AnswerOK, AckOK

\* What reading the answer of item i, the first, does to the match index.
MatchRead(t, i) ==
    \/ match'[t] = match[t]
    \/ /\ match'[t] \in Nat /\ match'[t] + 1 = i.answer.logSize
       /\ i.answer.state = "ok" /\ i.answer.outcome /\ ~ (i.answer.term > T) /\ i.lastEntryTerm = T

JournalKept == term = T /\ term' = T => journal'.log = journal.log /\ JournalOK'

PlanRead(t) ==
    term = T /\ term' = T /\ PlanOK(tracker[t], inFlight[t], journal.log)
       => Rest(inFlight'[t], inFlight[t]) /\ PlanOK(tracker'[t], inFlight'[t], journal.log)

LEMMA ReadChosen ==
    ASSUME ChosenInv, NEW t \in Target, NEW i, i = Head(inFlight[t]), inFlight[t] # <<>>, i.answer # Pending,
           Differs(inFlight, inFlight', t), TermsOf(inFlight'[t]), Differs(tracker, tracker', t), Differs(match, match', t),
           reqs' = reqs, old' = old, node' = node, full' = full, beat' = beat, left' = left,
           term' \in Nat, term <= term', JournalKept, PlanRead(t), term = T /\ term' = T => MatchRead(t, i)
    PROVE  Chosen'
<1>1. Steps(t)
  BY Unmoved DEF Steps
<1>2. Typed(t) /\ Budget'
  BY ChosenFacts DEF Typed, Budget
<1>3. ASSUME term = T, term' = T PROVE journal'.log = journal.log /\ JournalOK' /\ SoundKept(t)
  <2>1. journal'.log = journal.log /\ JournalOK'
    BY <1>3 DEF JournalKept
  <2>2. ASSUME NEW V, NEW L, SoundAt(t, V, L) PROVE SoundAt(t, V, L)'
    <3>1. PICK q, q2, j, log, rs : q = inFlight[t] /\ q2 = inFlight'[t] /\ j = journal.log /\ log = node[t].log /\ rs = reqs[t]
      OBVIOUS
    <3>2. Rest(q2, q) /\ PlanOK(tracker'[t], q2, j)
      BY <1>3, <2>2, <3>1 DEF PlanRead, SoundAt
    <3>3. q[1] = i
      BY <3>1, ChosenFacts, RestOfQueue
    <3>4. AnswersOK(q2, log, j, V, L, t) /\ AnswerOK(i, log, j, V, L, t)
      BY <2>2, <3>1, <3>2, <3>3, AnswersRest DEF SoundAt
    <3>5. \E p \in Nat : Waiting(q2, rs, p)
      <4>1. PICK p \in Nat : Waiting(q, rs, p)
        BY <2>2, <3>1 DEF SoundAt
      <4> QED BY <3>2, <3>3, <4>1, ItemRead
    <3>6. match'[t] \in Nat /\ (match'[t] > 0 => AckOK(match'[t] + 1, log, j, V, L, t))
      <4>1. CASE match'[t] = match[t]
        BY <2>2, <3>1, <4>1 DEF SoundAt
      <4>2. CASE match'[t] # match[t]
        BY <1>3, <3>4, <4>2 DEF MatchRead, AnswerOK
      <4> QED BY <4>1, <4>2
    <3> QED BY <2>1, <2>2, <3>1, <3>2, <3>4, <3>5, <3>6 DEF SoundAt
  <2> QED BY <2>1, <2>2 DEF SoundKept
<1> QED
  BY <1>1, <1>2, <1>3, OneStep

\* The fields of a plan after an answer.
LEMMA AfterAnswerPlan ==
    ASSUME NEW tr, PlanFields \subseteq DOMAIN tr, tr.pc = "round", tr.next \in Nat, tr.limit \in Nat \ {0},
           NEW a, a.logSize \in Nat, LogSize \in Nat, NEW x, x = AfterAnswer(tr, a)
    PROVE  DOMAIN x = DOMAIN tr /\ x.pc = "round" /\ x.streaming = tr.streaming /\ x.next \in Nat /\ x.limit \in Nat \ {0}
<1>1. PICK al : al = [tr EXCEPT !.needResilvering = FALSE, !.resilverer = "none"]
  OBVIOUS
<1>2. DOMAIN al = DOMAIN tr /\ al.pc = "round" /\ al.streaming = tr.streaming /\ al.next = tr.next /\ al.limit = tr.limit
  BY <1>1 DEF PlanFields
<1>3. CASE a.logSize <= journal.start
  <2>1. PICK l, r : l = (IF tr.needResilvering THEN tr.limit ELSE 1) /\ r = triggerResilvering(tr.resilverer)
    OBVIOUS
  <2>2. x = [tr EXCEPT !.next = LogSize, !.needResilvering = TRUE, !.limit = l, !.resilverer = r]
    BY <1>3, <2>1 DEF AfterAnswer
  <2>3. l \in Nat \ {0}
    BY <2>1
  <2> QED BY <2>2, <2>3 DEF PlanFields
<1>4. CASE ~ (a.logSize <= journal.start) /\ ~ a.outcome
  <2>1. PICK n : n = (IF al.next >= 2 /\ al.next <= a.logSize THEN al.next - 1
                      ELSE IF a.logSize > 0 THEN a.logSize ELSE al.next)
    OBVIOUS
  <2>2. x = [al EXCEPT !.next = n]
    BY <1>1, <1>4, <2>1 DEF AfterAnswer
  <2>3. n \in Nat
    BY <1>2, <2>1
  <2> QED BY <1>2, <2>2, <2>3 DEF PlanFields
<1>5. CASE ~ (a.logSize <= journal.start) /\ a.outcome
  <2>1. PICK l : l = 2 * al.limit
    OBVIOUS
  <2>2. x = [al EXCEPT !.next = a.logSize, !.limit = l]
    BY <1>1, <1>5, <2>1 DEF AfterAnswer
  <2>3. l \in Nat \ {0}
    BY <1>2, <2>1
  <2> QED BY <1>2, <2>2, <2>3 DEF PlanFields
<1> QED
  BY <1>3, <1>4, <1>5

LEMMA ReadAnswerChosen ==
    ASSUME ChosenInv, NEW t \in Target, ReadAnswer(t)
    PROVE  Chosen'
<1>1. PICK tr, i, a : tr = [tracker[t] EXCEPT !.online = TRUE, !.pc = "round"] /\ i = Head(inFlight[t]) /\ a = i.answer
  OBVIOUS
<1>2. tracker[t].pc = "wait" /\ a.state = "ok" /\ inFlight' = [inFlight EXCEPT ![t] = <<>>] /\ observed(a.term)
  BY <1>1 DEF ReadAnswer
<1>3. reqs' = reqs /\ old' = old /\ node' = node /\ full' = full /\ beat' = beat /\ left' = left
  BY DEF ReadAnswer
<1>4. PICK q : q = inFlight[t] /\ IsQueue(q) /\ Len(q) \in Nat \ {0} /\ q # <<>> /\ q[1] = i
  <2>1. LeaseInv /\ IsQueue(inFlight[t])
    BY ChosenFacts
  <2>2. Len(inFlight[t]) > 0
    BY <1>2, <2>1, Facts DEF WaitOK
  <2>3. inFlight[t] # <<>>
    BY <2>2, EmptyQueue
  <2> QED BY <1>1, <2>1, <2>3, RestOfQueue DEF Rest
<1>5. a.term \in Nat /\ i.answer # Pending
  <2>1. TermsOf(q)
    BY <1>4, ChosenFacts
  <2>2. Pending.state # "ok"
    BY DEF Pending
  <2> QED BY <1>1, <1>2, <1>4, <2>1, <2>2 DEF TermsOf
<1>6. term' \in Nat /\ term <= term' /\ a.term <= term'
  BY <1>2, <1>5, TermGrows
<1>7. PICK tr2 : tr2 = IF a.term > T THEN tr ELSE AfterAnswer(tr, a)
  OBVIOUS
<1>8. tracker' = [tracker EXCEPT ![t] = tr2]
  BY <1>1, <1>7 DEF ReadAnswer
<1>9. Differs(tracker, tracker', t) /\ tracker'[t] = tr2 /\ Differs(inFlight, inFlight', t) /\ inFlight'[t] = <<>>
  <2>1. DOMAIN tracker = Target /\ DOMAIN inFlight = Target
    BY ChosenFacts
  <2> QED BY <1>2, <1>8, <2>1 DEF Differs
<1>10. TermsOf(inFlight'[t])
  BY <1>9, EmptyQueue DEF TermsOf
<1>11. \/ UNCHANGED <<journal, match, committed>>
       \/ a.term <= T /\ a.logSize > journal.start /\ a.outcome /\ acknowledged(t, i, a.logSize - 1)
  BY <1>1 DEF ReadAnswer
<1>12. Differs(match, match', t)
  BY <1>11, Unmoved, AckDiffers
<1>13. ASSUME term = T, term' = T PROVE journal'.log = journal.log /\ JournalOK' /\ MatchRead(t, i)
  <2>1. JournalOK
    BY <1>13 DEF ChosenInv, Chosen
  <2>2. CASE UNCHANGED <<journal, match, committed>>
    BY <2>1, <2>2 DEF JournalOK, MatchRead
  <2>3. CASE a.term <= T /\ a.logSize > journal.start /\ a.outcome /\ acknowledged(t, i, a.logSize - 1)
    <3>1. a.logSize \in Nat /\ (i.lastEntryTerm = T => a.logSize \in 3..Len(journal.log))
      <4>1. ~ (a.term > T)
        BY <1>5, <2>3 DEF T
      <4> QED BY <1>1, <1>2, <1>4, <1>13, <2>3, <4>1, HeadAnswer
    <3>2. PICK x \in Nat : x = a.logSize - 1 /\ x + 1 = a.logSize
      BY <2>1, <2>3, <3>1 DEF JournalOK
    <3>3. /\ journal'.log = journal.log /\ JournalOK'
          /\ match'[t] = match[t] \/ (match'[t] = x /\ i.lastEntryTerm = T)
      BY <1>13, <2>3, <3>1, <3>2, AckCounted
    <3>4. ~ (a.term > T)
      BY <1>5, <2>3 DEF T
    <3> QED BY <1>1, <1>2, <2>3, <3>2, <3>3, <3>4 DEF MatchRead
  <2> QED BY <1>11, <2>2, <2>3
<1>14. JournalKept /\ (term = T /\ term' = T => MatchRead(t, i))
  BY <1>13 DEF JournalKept
<1>15. ASSUME term = T, term' = T, PlanOK(tracker[t], q, journal.log)
       PROVE  Rest(<<>>, q) /\ PlanOK(tr2, <<>>, journal.log)
  <2>1. Len(q) = 1
    BY <1>2, <1>15 DEF PlanOK
  <2>2. Rest(<<>>, q)
    BY <1>4, <2>1, EmptyQueue DEF Rest
  <2>3. ~ (a.term > T)
    BY <1>5, <1>6, <1>15 DEF T
  <2>4. PlanFields \subseteq DOMAIN tracker[t] /\ tracker[t].next \in Nat /\ tracker[t].limit \in Nat \ {0}
    BY <1>15 DEF PlanOK, PlanFields
  <2>5. PlanFields \subseteq DOMAIN tr /\ tr.pc = "round" /\ tr.next \in Nat /\ tr.limit \in Nat \ {0}
    BY <1>1, <2>4 DEF PlanFields
  <2>6. a.logSize \in Nat
    BY <1>1, <1>4, <1>15, HeadAnswer
  <2>7. LogSize \in Nat
    BY <1>15 DEF ChosenInv, Chosen, Sound, LeaderLog, LogSize
  <2>8. tr2 = AfterAnswer(tr, a)
    BY <1>7, <2>3
  <2>9. PlanFields \subseteq DOMAIN tr2 /\ tr2.pc = "round" /\ tr2.next \in Nat /\ tr2.limit \in Nat \ {0}
    BY <2>5, <2>6, <2>7, <2>8, AfterAnswerPlan
  <2>10. PlanOK(tr2, <<>>, journal.log)
    BY <2>9, EmptyQueue DEF PlanOK, PlanFields
  <2> QED BY <2>2, <2>10
<1>16. PlanRead(t)
  BY <1>4, <1>9, <1>15 DEF PlanRead
<1> QED
  BY <1>1, <1>3, <1>4, <1>5, <1>6, <1>9, <1>10, <1>12, <1>14, <1>16, ReadChosen

LEMMA MonitorChosen ==
    ASSUME ChosenInv, NEW t \in Target, MonitorAck(t) \/ MonitorLost(t)
    PROVE  Chosen'
<1>1. PICK i, a : i = Head(inFlight[t]) /\ a = i.answer
  OBVIOUS
<1>2. tracker[t].streaming = "yes" /\ inFlight[t] # <<>> /\ inFlight' = [inFlight EXCEPT ![t] = Tail(inFlight[t])]
  BY DEF MonitorAck, MonitorLost
<1>3. reqs' = reqs /\ old' = old /\ node' = node /\ full' = full /\ beat' = beat /\ left' = left
  BY DEF MonitorAck, MonitorLost, time
<1>4. PICK q, w : q = inFlight[t] /\ w = Tail(q) /\ IsQueue(q) /\ Len(q) \in Nat \ {0} /\ q[1] = i /\ Rest(w, q)
  <2>1. IsQueue(inFlight[t])
    BY ChosenFacts
  <2>2. Rest(Tail(inFlight[t]), inFlight[t]) /\ inFlight[t][1] = i
    BY <1>1, <1>2, <2>1, RestOfQueue
  <2>3. Len(inFlight[t]) \in Nat \ {0}
    BY <2>2 DEF Rest
  <2> QED BY <2>1, <2>2, <2>3
<1>5. a.term \in Nat /\ i.answer # Pending /\ TermsOf(w)
  <2>1. TermsOf(q)
    BY <1>4, ChosenFacts
  <2>2. a.state = "ok" \/ a = Lost
    BY <1>1 DEF MonitorAck, MonitorLost
  <2>3. Pending.state # "ok" /\ Pending # Lost
    BY DEF Pending, Lost
  <2>4. \A k \in 1..Len(w) : k + 1 \in 1..Len(q) /\ w[k] = q[k + 1]
    BY <1>4 DEF Rest
  <2>5. TermsOf(w)
    BY <2>1, <2>4 DEF TermsOf
  <2>6. a.term \in Nat
    BY <1>1, <1>4, <2>1 DEF TermsOf
  <2> QED BY <1>1, <2>2, <2>3, <2>5, <2>6
<1>6. term' \in Nat /\ term <= term'
  <2>1. CASE MonitorAck(t)
    <3>1. observed(a.term)
      BY <1>1, <2>1 DEF MonitorAck
    <3> QED BY <1>5, <3>1, TermGrows
  <2>2. CASE MonitorLost(t)
    BY <2>2, ChosenFacts DEF MonitorLost
  <2> QED BY <2>1, <2>2
<1>7. tracker' = tracker \/ tracker' = [tracker EXCEPT ![t].streaming = "stop"]
  BY DEF MonitorAck, MonitorLost
<1>8. Differs(tracker, tracker', t) /\ Differs(inFlight, inFlight', t) /\ inFlight'[t] = w
  <2>1. DOMAIN tracker = Target /\ DOMAIN inFlight = Target
    BY ChosenFacts
  <2> QED BY <1>2, <1>4, <1>7, <2>1 DEF Differs
<1>9. tracker'[t] = tracker[t] \/ tracker'[t] = [tracker[t] EXCEPT !.streaming = "stop"]
  <2>1. DOMAIN tracker = Target
    BY ChosenFacts
  <2> QED BY <1>7, <2>1
<1>10. \/ journal' = journal /\ match' = match
       \/ a.state = "ok" /\ a.outcome /\ a.term = T /\ acknowledged(t, i, a.logSize - 1)
  BY <1>1 DEF MonitorAck, MonitorLost
<1>11. Differs(match, match', t)
  BY <1>10, Unmoved, AckDiffers
<1>12. ASSUME term = T, term' = T PROVE journal'.log = journal.log /\ JournalOK' /\ MatchRead(t, i)
  <2>1. JournalOK
    BY <1>12 DEF ChosenInv, Chosen
  <2>2. CASE journal' = journal /\ match' = match
    BY <2>1, <2>2 DEF JournalOK, MatchRead
  <2>3. CASE a.state = "ok" /\ a.outcome /\ a.term = T /\ acknowledged(t, i, a.logSize - 1)
    <3>1. ~ (a.term > T)
      BY <2>3 DEF T
    <3>2. a.logSize \in Nat /\ (i.lastEntryTerm = T => a.logSize \in 3..Len(journal.log))
      BY <1>1, <1>2, <1>12, <2>3, <3>1, HeadAnswer
    <3>3. i.lastEntryTerm = T => a.logSize - 1 \in Nat /\ a.logSize - 1 + 1 = a.logSize
      BY <3>2
    <3>4. /\ journal'.log = journal.log /\ JournalOK'
          /\ match'[t] = match[t] \/ (match'[t] = a.logSize - 1 /\ i.lastEntryTerm = T)
      BY <1>12, <2>3, <3>2, <3>3, AckCounted
    <3> QED BY <1>1, <2>3, <3>1, <3>3, <3>4 DEF MatchRead
  <2> QED BY <1>10, <2>2, <2>3
<1>13. JournalKept /\ (term = T /\ term' = T => MatchRead(t, i))
  BY <1>12 DEF JournalKept
<1>14. ASSUME PlanOK(tracker[t], q, journal.log) PROVE PlanOK(tracker'[t], w, journal.log)
  <2>1. LeaseInv
    BY ChosenFacts
  <2>2. tracker[t].pc # "wait"
    BY <1>2, <2>1, Facts DEF WaitOK
  <2>3. PICK tr, tr2 : tr = tracker[t] /\ tr2 = tracker'[t] /\ PlanFields \subseteq DOMAIN tr
    BY <1>14 DEF PlanOK, PlanFields
  <2>4. /\ DOMAIN tr2 = DOMAIN tr /\ tr2.pc = tr.pc /\ tr2.next = tr.next /\ tr2.limit = tr.limit /\ tr2.prevTerm = tr.prevTerm
        /\ tr2.streaming # "no"
    BY <1>2, <1>9, <2>3 DEF PlanFields
  <2>5. PlanOK(tr2, w, journal.log)
    BY <1>14, <2>2, <2>3, <2>4 DEF PlanOK
  <2> QED BY <2>3, <2>5
<1>15. PlanRead(t)
  BY <1>4, <1>8, <1>14 DEF PlanRead
<1> QED
  BY <1>1, <1>2, <1>3, <1>5, <1>6, <1>8, <1>11, <1>13, <1>15, ReadChosen

-----------------------------------------------------------------------------
(* The targets *)

\* The target is given the leader's journal.
LEMMA ResilveredChosen ==
    ASSUME ChosenInv, NEW t \in Target, NEW ok \in BOOLEAN, EndResilvering(t, ok)
    PROVE  Chosen'
<1>1. /\ term = T /\ term' = term /\ journal' = journal /\ full' = full /\ match' = match /\ beat' = beat
      /\ inFlight' = inFlight /\ reqs' = reqs /\ old' = old
  BY DEF EndResilvering, Current, net, time
<1>2. PICK x : tracker' = [tracker EXCEPT ![t].resilverer = x]
  BY DEF EndResilvering
<1>3. DOMAIN tracker = Target /\ DOMAIN node = Target /\ DOMAIN node[t] = Fields /\ Budget
  BY ChosenFacts
<1>4. Differs(tracker, tracker', t) /\ tracker'[t] = [tracker[t] EXCEPT !.resilverer = x]
  BY <1>2, <1>3 DEF Differs
<1>5. Budget' /\ left'.reconfigurations = left.reconfigurations
  <2>1. left' = left \/ left' = [left EXCEPT !.breaks = @ - 1]
    BY DEF EndResilvering
  <2> QED BY <1>3, <2>1 DEF Budget
<1>6. PICK n, n2 : n = node[t] /\ n2 = node'[t]
  OBVIOUS
<1>7. /\ Differs(node, node', t) /\ n2.term = n.term
      /\ n2.log = n.log \/ (n.term = T /\ n2.log = journal.log)
  <2>1. CASE node' = node
    BY <1>3, <1>6, <2>1 DEF Differs
  <2>2. CASE node' # node
    <3>1. PICK c : node' = [node EXCEPT ![t].log = journal.log, ![t].commitIndex = c] /\ n.term = T
      BY <1>6, <2>2 DEF EndResilvering
    <3>2. Differs(node, node', t) /\ n2 = [n EXCEPT !.log = journal.log, !.commitIndex = c]
      BY <1>3, <1>6, <3>1 DEF Differs
    <3>3. n2.term = n.term /\ n2.log = journal.log
      BY <1>3, <1>6, <3>2 DEF Fields
    <3> QED BY <3>1, <3>2, <3>3
  <2> QED BY <2>1, <2>2
<1>8. Steps(t)
  BY <1>1, <1>4, <1>5, <1>7, Unmoved DEF Steps
<1>9. Typed(t)
  BY <1>1, <1>6, <1>7, ChosenFacts DEF Typed
<1>10. term' \in Nat /\ term <= term'
  BY <1>1, ChosenFacts
<1>11. JournalOK' /\ LeaderLog(journal.log)
  <2>1. JournalOK /\ LeaderLog(journal.log)
    BY <1>1 DEF ChosenInv, Chosen, Sound
  <2> QED BY <1>1, <2>1 DEF JournalOK
<1>12. ASSUME NEW V, NEW L, VotersOK(V, L), SoundAt(t, V, L) PROVE SoundAt(t, V, L)'
  <2>1. PICK j : j = journal.log
    OBVIOUS
  <2>2. LogOK(n, j, V, L, t) /\ NextLog(V, L) /\ AnswersOK(inFlight[t], n.log, j, V, L, t) /\ PlanOK(tracker[t], inFlight[t], j)
    BY <1>6, <1>12, <2>1 DEF SoundAt, VotersOK
  <2>3. LogOK(n2, j, V, L, t) /\ (n2.log = n.log \/ AcksKept(n.log, j, V, L, n2.log, j, V, L, t))
    <3>1. CASE n2.log = n.log
      BY <1>7, <2>2, <3>1 DEF LogOK
    <3>2. CASE n.term = T /\ n2.log = j
      <4>1. Plausible(n.log, j)
        BY <2>2, <3>2 DEF LogOK, T
      <4>2. Plausible(j, j) /\ \A k : Held(n.log, j, k) => Held(j, j, k)
        BY <1>11, <2>1, LeaderPlausible DEF Held
      <4>3. AcksKept(n.log, j, V, L, n2.log, j, V, L, t)
        BY <2>2, <3>2, <4>1, <4>2, AcksKeptByLog
      <4> QED BY <1>7, <3>2, <4>2, <4>3 DEF LogOK, T
    <3> QED BY <1>7, <2>1, <3>1, <3>2
  <2>4. AnswersOK(inFlight[t], n2.log, j, V, L, t) /\ (match[t] > 0 => AckOK(match[t] + 1, n2.log, j, V, L, t))
    BY <1>6, <1>12, <2>1, <2>2, <2>3, AnswersKept DEF SoundAt, AcksKept
  <2>5. PlanOK(tracker'[t], inFlight[t], j)
    <3>1. PICK tr, tr2 : tr = tracker[t] /\ tr2 = tracker'[t] /\ PlanFields \subseteq DOMAIN tr
      BY <2>2 DEF PlanOK, PlanFields
    <3>2. /\ DOMAIN tr2 = DOMAIN tr /\ tr2.pc = tr.pc /\ tr2.next = tr.next /\ tr2.limit = tr.limit /\ tr2.prevTerm = tr.prevTerm
          /\ tr2.streaming = tr.streaming
      BY <1>4, <3>1 DEF PlanFields
    <3>3. PlanOK(tr2, inFlight[t], j)
      BY <2>2, <3>1, <3>2 DEF PlanOK
    <3> QED BY <3>1, <3>3
  <2> QED BY <1>1, <1>6, <1>12, <2>1, <2>3, <2>4, <2>5 DEF SoundAt
<1>13. SoundKept(t)
  BY <1>12 DEF SoundKept
<1> QED
  BY <1>1, <1>5, <1>8, <1>9, <1>10, <1>11, <1>13, OneStep

\* Heartbeats do not touch what is replicated.
LEMMA BeatChosen ==
    ASSUME ChosenInv, NEW t \in Target, term' \in Nat, term <= term', journal' = journal, full' = full, left' = left,
           match' = match, reqs' = reqs, old' = old, inFlight' = inFlight, tracker' = tracker,
           Differs(beat, beat', t), beat'[t].term \in Nat, Differs(node, node', t), node'[t].log = node[t].log,
           node'[t].term = node[t].term \/ (~ (node[t].term > T) /\ node'[t].term = T)
    PROVE  Chosen'
<1>1. Steps(t)
  BY Unmoved DEF Steps
<1>2. node'[t].term \in Nat /\ (node'[t].term > T <=> node[t].term > T)
  BY ChosenFacts DEF T
<1>3. Typed(t) /\ Budget'
  BY <1>2, ChosenFacts DEF Typed, Budget
<1>4. ASSUME term = T PROVE journal'.log = journal.log /\ JournalOK' /\ SoundKept(t)
  <2>1. JournalOK
    BY <1>4 DEF ChosenInv, Chosen
  <2>2. JournalOK'
    BY <2>1 DEF JournalOK
  <2>3. ASSUME NEW V, NEW L, SoundAt(t, V, L) PROVE SoundAt(t, V, L)'
    <3>1. LogOK(node[t], journal.log, V, L, t)
      BY <2>3 DEF SoundAt
    <3>2. LogOK(node'[t], journal.log, V, L, t)
      BY <1>2, <3>1 DEF LogOK
    <3> QED BY <2>3, <3>2 DEF SoundAt
  <2> QED BY <2>2, <2>3 DEF SoundKept
<1> QED
  BY <1>1, <1>3, <1>4, OneStep

LEMMA HeartbeatsChosen ==
    ASSUME ChosenInv, NEW t \in Target,
           SendHeartbeat(t) \/ ReadHeartbeatReply(t) \/ LoseHeartbeat(t) \/ HandleHeartbeat(t)
    PROVE  Chosen'
<1>1. /\ journal' = journal /\ full' = full /\ left' = left /\ match' = match /\ reqs' = reqs /\ old' = old
      /\ inFlight' = inFlight /\ tracker' = tracker
  BY DEF SendHeartbeat, ReadHeartbeatReply, LoseHeartbeat, HandleHeartbeat, net
<1>2. DOMAIN beat = Target /\ DOMAIN node = Target /\ DOMAIN node[t] = Fields /\ beat[t].term \in Nat /\ node[t].term \in Nat /\ term \in Nat
  BY ChosenFacts
<1>3. Differs(node, node, t)
  BY Unmoved
<1>4. CASE SendHeartbeat(t)
  <2>1. beat' = [beat EXCEPT ![t] = [state |-> "sent", sent |-> SentAt, term |-> 0]] /\ term' = term /\ node' = node
    BY <1>4 DEF SendHeartbeat
  <2>2. Differs(beat, beat', t) /\ beat'[t].term \in Nat
    BY <1>2, <2>1 DEF Differs
  <2>3. term' \in Nat /\ term <= term'
    BY <1>2, <2>1
  <2> QED BY <1>1, <1>3, <2>1, <2>2, <2>3, BeatChosen
<1>5. CASE ReadHeartbeatReply(t)
  <2>1. beat' = [beat EXCEPT ![t] = [state |-> "none", sent |-> 0, term |-> 0]] /\ observed(beat[t].term) /\ node' = node
    BY <1>5 DEF ReadHeartbeatReply
  <2>2. Differs(beat, beat', t) /\ beat'[t].term \in Nat
    BY <1>2, <2>1 DEF Differs
  <2>3. term' \in Nat /\ term <= term'
    BY <1>2, <2>1, TermGrows
  <2> QED BY <1>1, <1>3, <2>1, <2>2, <2>3, BeatChosen
<1>6. CASE LoseHeartbeat(t)
  <2>1. beat' = [beat EXCEPT ![t] = [state |-> "none", sent |-> 0, term |-> 0]] /\ term' = term /\ node' = node
    BY <1>6 DEF LoseHeartbeat
  <2>2. Differs(beat, beat', t) /\ beat'[t].term \in Nat
    BY <1>2, <2>1 DEF Differs
  <2>3. term' \in Nat /\ term <= term'
    BY <1>2, <2>1
  <2> QED BY <1>1, <1>3, <2>1, <2>2, <2>3, BeatChosen
<1>7. CASE HandleHeartbeat(t)
  <2>1. PICK n2 : n2 = node'[t]
    OBVIOUS
  <2>2. node' = (IF node[t].term > T THEN node ELSE [node EXCEPT ![t] = heardFrom(node[t])]) /\ term' = term
    BY <1>7 DEF HandleHeartbeat
  <2>3. /\ Differs(node, node', t) /\ n2.log = node[t].log
        /\ n2.term = node[t].term \/ (~ (node[t].term > T) /\ n2.term = T)
    <3>1. CASE node[t].term > T
      BY <1>3, <2>1, <2>2, <3>1
    <3>2. CASE ~ (node[t].term > T)
      <4>1. node' = [node EXCEPT ![t] = heardFrom(node[t])]
        BY <2>2, <3>2
      <4>2. Differs(node, node', t) /\ n2 = heardFrom(node[t])
        BY <1>2, <2>1, <4>1 DEF Differs
      <4>3. n2.log = node[t].log /\ n2.term = T
        BY <1>2, <4>2 DEF heardFrom, Fields
      <4> QED BY <3>2, <4>2, <4>3
    <3> QED BY <3>1, <3>2
  <2>4. beat' = [beat EXCEPT ![t].state = "answered", ![t].term = n2.term]
    BY <1>7, <2>1 DEF HandleHeartbeat
  <2>5. "term" \in DOMAIN beat[t]
    <3>1. LeaseInv
      BY ChosenFacts
    <3> QED BY <3>1, Facts DEF BeatOK
  <2>6. Differs(beat, beat', t) /\ beat'[t].term = n2.term
    BY <1>2, <2>4, <2>5 DEF Differs
  <2>7. n2.term \in Nat
    BY <1>2, <2>3 DEF T
  <2>8. term' \in Nat /\ term <= term'
    BY <1>2, <2>2
  <2> QED BY <1>1, <2>1, <2>3, <2>6, <2>7, <2>8, BeatChosen
<1> QED
  BY <1>4, <1>5, <1>6, <1>7

\* What a target does with a request, whichever connection it came on.
LEMMA RequestHandled ==
    ASSUME NEW j, LeaderLog(j), NEW n, DOMAIN n = Fields, n.term \in Nat, NEW r, ReqOK(r, j), NEW m, m = appendEntries(n, r),
           NEW V, NEW L, NextLog(V, L), NEW t, LogOK(n, j, V, L, t), t \in V => n.term > T
    PROVE  /\ LogOK(m, j, V, L, t) /\ (m.log = n.log \/ AcksKept(n.log, j, V, L, m.log, j, V, L, t))
           /\ m.term \in Nat /\ (n.term > T <=> m.term > T)
           /\ ~ (n.term > T) /\ Matches(n, r) => Plausible(m.log, j) /\ Held(m.log, j, r.prev + 1 + Len(r.entries))
<1>1. CASE n.term > T
  <2>1. m = n
    BY <1>1 DEF appendEntries
  <2> QED BY <1>1, <2>1
<1>2. CASE ~ (n.term > T) /\ ~ Matches(n, r)
  <2>1. m = heardFrom(n)
    BY <1>2 DEF appendEntries
  <2>2. m.log = n.log /\ m.term = T
    BY <2>1 DEF heardFrom, Fields
  <2>3. Plausible(n.log, j)
    BY <1>2 DEF LogOK
  <2> QED BY <1>2, <2>2, <2>3 DEF LogOK, T
<1>3. CASE ~ (n.term > T) /\ Matches(n, r)
  <2>1. Plausible(n.log, j)
    BY <1>3 DEF LogOK
  <2>2. /\ Plausible(m.log, j) /\ m.term = T /\ Held(m.log, j, r.prev + 1 + Len(r.entries))
        /\ \A k : Held(n.log, j, k) => Held(m.log, j, k)
    BY <1>3, <2>1, Appended
  <2>3. AcksKept(n.log, j, V, L, m.log, j, V, L, t)
    BY <2>1, <2>2, AcksKeptByLog
  <2> QED BY <1>3, <2>2, <2>3 DEF LogOK, T
<1> QED
  BY <1>1, <1>2, <1>3

LEMMA HandledTerm ==
    ASSUME NEW n, DOMAIN n = Fields, ~ (n.term > T), NEW r, NEW m, m = appendEntries(n, r)
    PROVE  m.term = T
<1>1. PICK n2 : n2 = heardFrom(n)
  OBVIOUS
<1>2. DOMAIN n2 = Fields /\ n2.term = T
  BY <1>1 DEF heardFrom, Fields
<1>3. \A l, c : LET n3 == [[n2 EXCEPT !.log = l] EXCEPT !.commitIndex = c] IN n3.term = T
  BY <1>2 DEF Fields
<1>4. m = n2 \/ \E l, c : m = [[n2 EXCEPT !.log = l] EXCEPT !.commitIndex = c]
  BY <1>1 DEF appendEntries, setCommitIndex
<1> QED
  BY <1>2, <1>3, <1>4

LEMMA OldRequestChosen ==
    ASSUME ChosenInv, NEW t \in Target, HandleOldRequest(t)
    PROVE  Chosen'
<1>1. /\ term' = term /\ journal' = journal /\ full' = full /\ match' = match /\ beat' = beat /\ left' = left
      /\ inFlight' = inFlight /\ reqs' = reqs /\ tracker' = tracker
  BY DEF HandleOldRequest, time
<1>2. PICK n, m, o, o2, r : n = node[t] /\ o = old[t] /\ r = Head(o) /\ m = appendEntries(n, r) /\ o2 = Tail(o)
  OBVIOUS
<1>3. node' = [node EXCEPT ![t] = m] /\ old' = [old EXCEPT ![t] = o2] /\ o # <<>>
  BY <1>2 DEF HandleOldRequest
<1>4. DOMAIN node = Target /\ DOMAIN old = Target /\ DOMAIN n = Fields /\ n.term \in Nat /\ Budget /\ term \in Nat
  BY <1>2, ChosenFacts
<1>5. Differs(node, node', t) /\ node'[t] = m /\ Differs(old, old', t) /\ old'[t] = o2
  BY <1>3, <1>4 DEF Differs
<1>6. Steps(t)
  BY <1>1, <1>5, Unmoved DEF Steps
<1>7. m.term \in Nat /\ (n.term > T => m.term > T)
  <2>1. CASE n.term > T
    BY <1>2, <1>4, <2>1 DEF appendEntries
  <2>2. CASE ~ (n.term > T)
    <3>1. m.term = T
      BY <1>2, <1>4, <2>2, HandledTerm
    <3> QED BY <2>2, <3>1 DEF T
  <2> QED BY <2>1, <2>2
<1>8. Typed(t) /\ Budget' /\ term' \in Nat /\ term <= term'
  BY <1>1, <1>2, <1>4, <1>5, <1>7, ChosenFacts DEF Typed, Budget
<1>9. ASSUME term = T PROVE journal'.log = journal.log /\ JournalOK' /\ SoundKept(t)
  <2>1. PICK j : j = journal.log /\ JournalOK /\ LeaderLog(j)
    BY <1>9 DEF ChosenInv, Chosen, Sound
  <2>2. JournalOK'
    BY <1>1, <2>1 DEF JournalOK
  <2>3. ASSUME NEW V, NEW L, VotersOK(V, L), SoundAt(t, V, L) PROVE SoundAt(t, V, L)'
    <3>1. NextLog(V, L) /\ (t \in V => n.term > T)
      BY <1>2, <2>3 DEF VotersOK
    <3>2. LogOK(n, j, V, L, t) /\ ReqsOK(o, j) /\ AnswersOK(inFlight[t], n.log, j, V, L, t)
      BY <1>2, <2>1, <2>3 DEF SoundAt
    <3>3. Rest(o2, o) /\ o[1] = r
      BY <1>2, <1>3, <3>2, RestOfQueue DEF ReqsOK
    <3>4. ReqsOK(o2, j) /\ ReqOK(r, j)
      <4>1. ReqsOK(o2, j)
        BY <3>2, <3>3, RequestsRest
      <4>2. 1 \in 1..Len(o)
        BY <3>3 DEF Rest
      <4> QED BY <3>2, <3>3, <4>1, <4>2 DEF ReqsOK
    <3>5. LogOK(m, j, V, L, t) /\ (m.log = n.log \/ AcksKept(n.log, j, V, L, m.log, j, V, L, t))
      BY <1>2, <1>4, <2>1, <3>1, <3>2, <3>4, RequestHandled
    <3>6. AnswersOK(inFlight[t], m.log, j, V, L, t) /\ (match[t] > 0 => AckOK(match[t] + 1, m.log, j, V, L, t))
      BY <1>2, <2>1, <2>3, <3>2, <3>5, AnswersKept DEF SoundAt, AcksKept
    <3> QED BY <1>1, <1>5, <2>1, <2>3, <3>4, <3>5, <3>6 DEF SoundAt
  <2> QED BY <1>1, <2>1, <2>2, <2>3 DEF SoundKept
<1> QED
  BY <1>1, <1>6, <1>8, <1>9, OneStep

\* The answer that is given to the request r vouches for what the target now stores.
LEMMA AnswerGiven ==
    ASSUME NEW j, LeaderLog(j), NEW n, DOMAIN n = Fields, n.term \in Nat, NEW r, ReqOK(r, j), NEW m, m = appendEntries(n, r),
           NEW V, NEW L, NextLog(V, L), NEW t, LogOK(n, j, V, L, t), t \in V => n.term > T,
           NEW i, i.answer = answerTo(n, r), Fits(i, r)
    PROVE  AnswerOK(i, m.log, j, V, L, t)
<1>1. /\ LogOK(m, j, V, L, t)
      /\ ~ (n.term > T) /\ Matches(n, r) => Plausible(m.log, j) /\ Held(m.log, j, r.prev + 1 + Len(r.entries))
  BY RequestHandled
<1>2. i.answer.logSize = Len(m.log)
  BY DEF answerTo
<1>3. Len(m.log) \in Nat
  BY <1>1 DEF LogOK, Plausible, NextLog
<1>4. ASSUME i.answer.outcome, i.lastEntryTerm = T PROVE AckOK(Len(m.log), m.log, j, V, L, t)
  <2>1. ~ (n.term > T) /\ Matches(n, r) /\ t \notin V
    <3>1. i.answer.outcome = (n.term <= T /\ Matches(n, r))
      BY DEF answerTo
    <3>2. n.term <= T /\ Matches(n, r)
      BY <1>4, <3>1, Zenon
    <3> QED BY <3>2 DEF T
  <2>2. PICK e \in Nat : e = Len(r.entries) /\ e > 0 /\ r.entries[e] = T
    BY <1>4 DEF Fits, ReqOK
  <2>3. PICK k \in Nat : k = r.prev + 1 + e
    BY <2>2 DEF ReqOK
  <2>4. j[k] = T
    BY <2>2, <2>3 DEF ReqOK
  <2>5. Plausible(m.log, j) /\ Held(m.log, j, k)
    BY <1>1, <2>1, <2>2, <2>3
  <2>6. k \in 1..Len(m.log) /\ m.log[k] = T
    BY <2>4, <2>5 DEF Held
  <2>7. m.log[k] >= T
    BY <2>6 DEF T
  <2>8. Held(m.log, j, Len(m.log)) /\ Len(m.log) >= 3
    BY <2>5, <2>6, <2>7, OwnTermHeld
  <2>9. Len(m.log) \in 3..Len(j)
    BY <1>3, <2>8 DEF Held, LeaderLog
  <2> QED BY <2>1, <2>8, <2>9 DEF AckOK
<1> QED
  BY <1>2, <1>3, <1>4 DEF AnswerOK

LEMMA DeliverTerms ==
    ASSUME NEW q, IsQueue(q), TermsOf(q), NEW a, a.term \in Nat, \A k \in 1..Len(q) : "answer" \in DOMAIN q[k]
    PROVE  TermsOf(deliver(q, a))
<1>1. PICK x : x = Min({k \in DOMAIN q : q[k].answer = Pending})
  OBVIOUS
<1>2. PICK w : w = [q EXCEPT ![x] = [q[x] EXCEPT !.answer = a]]
  OBVIOUS
<1>3. w = deliver(q, a)
  BY <1>1, <1>2 DEF deliver
<1>4. w = [k \in DOMAIN q |-> w[k]]
  BY <1>2
<1>5. Len(w) = Len(q) /\ DOMAIN q = 1..Len(q)
  BY <1>4, SameShape
<1>6. ASSUME NEW k \in 1..Len(q) PROVE w[k].answer.term \in Nat
  <2>1. CASE k # x
    BY <1>2, <1>5, <2>1 DEF TermsOf
  <2>2. CASE k = x
    <3>1. w[k] = [q[k] EXCEPT !.answer = a]
      BY <1>2, <1>5, <2>2
    <3>2. w[k].answer = a
      BY <3>1
    <3> QED BY <3>2
  <2> QED BY <2>1, <2>2
<1> QED
  BY <1>3, <1>5, <1>6 DEF TermsOf

LEMMA RequestChosen ==
    ASSUME ChosenInv, NEW t \in Target, HandleRequest(t)
    PROVE  Chosen'
<1>1. /\ term' = term /\ journal' = journal /\ full' = full /\ match' = match /\ beat' = beat /\ left' = left
      /\ old' = old /\ tracker' = tracker
  BY DEF HandleRequest, time
<1>2. PICK n, m, rs, rs2, r : n = node[t] /\ rs = reqs[t] /\ r = Head(rs) /\ m = appendEntries(n, r) /\ rs2 = Tail(rs)
  OBVIOUS
<1>3. PICK a, q, q2 : a = answerTo(n, r) /\ q = inFlight[t] /\ q2 = IF r.want THEN deliver(q, a) ELSE q
  OBVIOUS
<1>4. node' = [node EXCEPT ![t] = m] /\ reqs' = [reqs EXCEPT ![t] = rs2] /\ rs # <<>>
  BY <1>2 DEF HandleRequest
<1>5. inFlight' = IF r.want THEN [inFlight EXCEPT ![t] = deliver(q, a)] ELSE inFlight
  BY <1>2, <1>3 DEF HandleRequest
<1>6. /\ DOMAIN node = Target /\ DOMAIN reqs = Target /\ DOMAIN inFlight = Target /\ DOMAIN n = Fields /\ n.term \in Nat
      /\ Budget /\ term \in Nat /\ IsQueue(q) /\ TermsOf(q)
  BY <1>2, <1>3, ChosenFacts
<1>7. \A k \in 1..Len(q) : "answer" \in DOMAIN q[k]
  BY <1>3, ChosenFacts
<1>8. Differs(node, node', t) /\ node'[t] = m /\ Differs(reqs, reqs', t) /\ reqs'[t] = rs2
  BY <1>4, <1>6 DEF Differs
<1>9. Differs(inFlight, inFlight', t) /\ inFlight'[t] = q2
  <2>1. CASE r.want
    <3>1. inFlight' = [inFlight EXCEPT ![t] = q2]
      BY <1>3, <1>5, <2>1
    <3> QED BY <1>6, <3>1 DEF Differs
  <2>2. CASE ~ r.want
    BY <1>3, <1>5, <2>2, Unmoved
  <2> QED BY <2>1, <2>2
<1>10. Steps(t)
  BY <1>1, <1>8, <1>9, Unmoved DEF Steps
<1>11. m.term \in Nat /\ (n.term > T => m.term > T)
  <2>1. CASE n.term > T
    BY <1>2, <1>6, <2>1 DEF appendEntries
  <2>2. CASE ~ (n.term > T)
    <3>1. m.term = T
      BY <1>2, <1>6, <2>2, HandledTerm
    <3> QED BY <2>2, <3>1 DEF T
  <2> QED BY <2>1, <2>2
<1>12. a.term = m.term /\ a.state = "ok"
  BY <1>2, <1>3 DEF answerTo
<1>13. TermsOf(q2)
  BY <1>3, <1>6, <1>7, <1>11, <1>12, DeliverTerms
<1>14. Typed(t) /\ Budget' /\ term' \in Nat /\ term <= term'
  BY <1>1, <1>2, <1>6, <1>8, <1>9, <1>11, <1>13, ChosenFacts DEF Typed, Budget
<1>15. ASSUME term = T PROVE journal'.log = journal.log /\ JournalOK' /\ SoundKept(t)
  <2>1. PICK j : j = journal.log /\ JournalOK /\ LeaderLog(j)
    BY <1>15 DEF ChosenInv, Chosen, Sound
  <2>2. JournalOK'
    BY <1>1, <2>1 DEF JournalOK
  <2>3. ASSUME NEW V, NEW L, VotersOK(V, L), SoundAt(t, V, L) PROVE SoundAt(t, V, L)'
    <3>1. NextLog(V, L) /\ (t \in V => n.term > T)
      BY <1>2, <2>3 DEF VotersOK
    <3>2. LogOK(n, j, V, L, t) /\ ReqsOK(rs, j) /\ AnswersOK(q, n.log, j, V, L, t) /\ PlanOK(tracker[t], q, j)
      BY <1>2, <1>3, <2>1, <2>3 DEF SoundAt
    <3>3. Rest(rs2, rs) /\ rs[1] = r
      BY <1>2, <1>4, <3>2, RestOfQueue DEF ReqsOK
    <3>4. ReqsOK(rs2, j) /\ ReqOK(r, j)
      <4>1. ReqsOK(rs2, j)
        BY <3>2, <3>3, RequestsRest
      <4>2. 1 \in 1..Len(rs)
        BY <3>3 DEF Rest
      <4> QED BY <3>2, <3>3, <4>1, <4>2 DEF ReqsOK
    <3>5. LogOK(m, j, V, L, t) /\ (m.log = n.log \/ AcksKept(n.log, j, V, L, m.log, j, V, L, t))
      BY <1>2, <1>6, <2>1, <3>1, <3>2, <3>4, RequestHandled
    <3>6. AnswersOK(q, m.log, j, V, L, t) /\ (match[t] > 0 => AckOK(match[t] + 1, m.log, j, V, L, t))
      BY <1>2, <2>1, <2>3, <3>2, <3>5, AnswersKept DEF SoundAt, AcksKept
    <3>7. PICK p \in Nat : Waiting(q, rs, p)
      BY <1>2, <1>3, <2>3 DEF SoundAt
    <3>8. AnswersOK(q2, m.log, j, V, L, t) /\ Len(q2) = Len(q) /\ \E p2 \in Nat : Waiting(q2, rs2, p2)
      <4>1. CASE ~ r.want
        <5>1. Waiting(q, rs2, p)
          BY <3>3, <3>7, <4>1, UnwantedHandled
        <5> QED BY <1>3, <3>6, <4>1, <5>1
      <4>2. CASE r.want
        <5>1. q2 = deliver(q, a) /\ Len(rs) \in Nat /\ Len(rs) > 0 /\ Len(q) \in Nat
          BY <1>3, <1>6, <3>3, <4>2, LenProperties DEF Rest, IsQueue
        <5>2. PICK x : Answered(q2, q, x, a) /\ x = Len(q) - p + 1 /\ p = Len(rs) /\ Fits(q[x], rs[1])
          BY <1>6, <3>3, <3>7, <4>2, <5>1, Delivered
        <5>3. x \in 1..Len(q) /\ Len(q2) = Len(q) /\ q2[x] = [q[x] EXCEPT !.answer = a]
          BY <5>2 DEF Answered
        <5>4. a # Pending
          BY <1>12 DEF Pending
        <5>5. p - 1 \in Nat /\ Waiting(q2, rs2, p - 1)
          BY <1>7, <3>3, <3>7, <5>1, <5>2, <5>3, <5>4, WantedHandled
        <5>6. q2[x].answer = a /\ q2[x].lastEntryTerm = q[x].lastEntryTerm
          BY <1>7, <5>3
        <5>7. Fits(q2[x], r)
          BY <3>3, <5>2, <5>6 DEF Fits
        <5>8. AnswerOK(q2[x], m.log, j, V, L, t)
          BY <1>2, <1>3, <1>6, <2>1, <3>1, <3>2, <3>4, <5>6, <5>7, AnswerGiven
        <5>9. AnswersOK(q2, m.log, j, V, L, t)
          BY <3>6, <5>2, <5>8, AnswersDelivered
        <5> QED BY <5>3, <5>5, <5>9
      <4> QED BY <4>1, <4>2
    <3>9. PlanOK(tracker[t], q2, j)
      BY <3>2, <3>8 DEF PlanOK
    <3> QED BY <1>1, <1>8, <1>9, <2>1, <2>3, <3>4, <3>5, <3>6, <3>8, <3>9 DEF SoundAt
  <2> QED BY <1>1, <2>1, <2>2, <2>3 DEF SoundKept
<1> QED
  BY <1>1, <1>10, <1>14, <1>15, OneStep

LEMMA BrokenTerms ==
    ASSUME NEW q, IsQueue(q), Answerable(q), NEW w, w = Broken(q)
    PROVE  TermsOf(w)
<1>1. w = [k \in DOMAIN q |-> w[k]]
  BY DEF Broken
<1>2. Len(w) = Len(q) /\ DOMAIN q = 1..Len(q)
  BY <1>1, SameShape
<1>3. Lost.term \in Nat
  BY DEF Lost, Pending
<1>4. ASSUME NEW k \in 1..Len(q) PROVE w[k].answer.term \in Nat
  <2>1. PICK i, i2 : i = q[k] /\ i2 = w[k] /\ i2 = IF i.answer = Pending THEN [i EXCEPT !.answer = Lost] ELSE i
    BY <1>2 DEF Broken
  <2>2. "answer" \in DOMAIN i /\ i.answer.term \in Nat
    BY <2>1 DEF Answerable
  <2>3. i2.answer = Lost \/ i2 = i
    BY <2>1, <2>2
  <2> QED BY <1>3, <2>1, <2>2, <2>3
<1> QED
  BY <1>2, <1>4 DEF TermsOf

\* The connection breaks.
LEMMA BreakChosen ==
    ASSUME ChosenInv, NEW t \in Target, NEW k \in 0..Len(reqs[t]), Break(t, k)
    PROVE  Chosen'
<1>1. /\ term' = term /\ journal' = journal /\ full' = full /\ match' = match /\ beat' = beat /\ node' = node
      /\ tracker' = tracker
  BY DEF Break, time
<1>2. PICK rs, o, o2, q, q2 : rs = reqs[t] /\ o = old[t] /\ o2 = o \o SubSeq(rs, 1, k) /\ q = inFlight[t] /\ q2 = Broken(q)
  OBVIOUS
<1>3. old' = [old EXCEPT ![t] = o2] /\ reqs' = [reqs EXCEPT ![t] = <<>>] /\ inFlight' = [inFlight EXCEPT ![t] = q2]
  BY <1>2 DEF Break, Broken
<1>4. DOMAIN old = Target /\ DOMAIN reqs = Target /\ DOMAIN inFlight = Target /\ Budget /\ term \in Nat /\ IsQueue(q) /\ TermsOf(q)
  BY <1>2, ChosenFacts
<1>5. /\ Differs(old, old', t) /\ old'[t] = o2 /\ Differs(reqs, reqs', t) /\ reqs'[t] = <<>>
      /\ Differs(inFlight, inFlight', t) /\ inFlight'[t] = q2
  BY <1>3, <1>4 DEF Differs
<1>6. Budget' /\ left'.reconfigurations = left.reconfigurations
  <2>1. left' = [left EXCEPT !.breaks = @ - 1]
    BY DEF Break
  <2> QED BY <1>4, <2>1 DEF Budget
<1>7. Steps(t)
  BY <1>1, <1>5, <1>6, Unmoved DEF Steps
<1>8. Answerable(q)
  <2>1. \A i \in 1..Len(q) : "answer" \in DOMAIN q[i]
    BY <1>2, ChosenFacts
  <2> QED BY <1>4, <2>1 DEF TermsOf, Answerable
<1>9. TermsOf(q2)
  BY <1>2, <1>4, <1>8, BrokenTerms
<1>10. Typed(t) /\ term' \in Nat /\ term <= term'
  BY <1>1, <1>4, <1>5, <1>9, ChosenFacts DEF Typed
<1>11. ASSUME term = T PROVE journal'.log = journal.log /\ JournalOK' /\ SoundKept(t)
  <2>1. PICK j : j = journal.log /\ JournalOK
    BY <1>11 DEF ChosenInv, Chosen
  <2>2. JournalOK'
    BY <1>1, <2>1 DEF JournalOK
  <2>3. ASSUME NEW V, NEW L, SoundAt(t, V, L) PROVE SoundAt(t, V, L)'
    <3>1. ReqsOK(rs, j) /\ ReqsOK(o, j) /\ AnswersOK(q, node[t].log, j, V, L, t) /\ PlanOK(tracker[t], q, j)
      BY <1>2, <2>1, <2>3 DEF SoundAt
    <3>2. ReqsOK(o2, j) /\ ReqsOK(<<>>, j)
      BY <1>2, <3>1, RequestsLeft, RequestsEmpty
    <3>3. AnswersOK(q2, node[t].log, j, V, L, t) /\ Len(q2) = Len(q) /\ Len(q2) \in Nat /\ NonePending(q2)
      BY <1>2, <1>4, <1>8, <3>1, AnswersLost
    <3>4. Waiting(q2, <<>>, 0) /\ 0 \in Nat
      BY <3>3, NothingPending
    <3>5. PlanOK(tracker[t], q2, j)
      BY <3>1, <3>3 DEF PlanOK
    <3> QED BY <1>1, <1>5, <2>1, <2>3, <3>2, <3>3, <3>4, <3>5 DEF SoundAt
  <2> QED BY <1>1, <2>2, <2>3 DEF SoundKept
<1> QED
  BY <1>1, <1>6, <1>7, <1>10, <1>11, OneStep

-----------------------------------------------------------------------------
(* Steps that concern the whole system *)

VotersKept == \A V, L : VotersOK(V, L) => VotersOK(V, L)'

\* The leader appends to its journal.
LEMMA GrowChosen ==
    ASSUME ChosenInv, term = T, term' = term, journal' = [journal EXCEPT !.log = Append(@, T)], node' = node, tracker' = tracker,
           inFlight' = inFlight, reqs' = reqs, old' = old, match' = match, beat' = beat, Budget', VotersKept
    PROVE  Chosen'
<1>1. PICK j, w : j = journal.log /\ w = Append(j, T)
  OBVIOUS
<1>2. PICK V, L : JournalOK /\ LeaderLog(j) /\ VotersOK(V, L) /\ \A u \in Target : SoundAt(u, V, L)
  BY <1>1 DEF ChosenInv, Chosen, Sound
<1>3. journal'.log = w /\ JournalOK'
  <2>1. journal' = [journal EXCEPT !.log = w] /\ DOMAIN journal = {"log", "start", "commitIndex"}
    BY <1>1, <1>2 DEF JournalOK
  <2>2. DOMAIN journal' = DOMAIN journal /\ journal'.log = w /\ journal'.start = journal.start /\ journal'.commitIndex = journal.commitIndex
    BY <2>1
  <2> QED BY <1>2, <2>2 DEF JournalOK
<1>4. /\ LeaderLog(w) /\ Len(w) = Len(j) + 1 /\ (\A i \in 1..Len(j) : w[i] = j[i]) /\ Len(j) \in Nat
  <2>1. LeaderLog(j) /\ Len(j) \in Nat
    BY <1>2 DEF LeaderLog
  <2>2. j \in Seq(Nat) /\ T \in Nat
    BY <2>1 DEF LeaderLog, T
  <2>3. Len(w) = Len(j) + 1 /\ \A i \in 1..Len(j) : w[i] = j[i]
    BY <1>1, <2>2, AppendProperties
  <2>4. LeaderLog(w)
    BY <1>1, <2>1, LeaderAppends
  <2> QED BY <2>1, <2>3, <2>4
<1>5. Terms'
  BY DEF ChosenInv, Chosen, Terms
<1>6. VotersOK(V, L)'
  BY <1>2 DEF VotersKept
<1>7. ASSUME NEW u \in Target PROVE SoundAt(u, V, L)'
  <2>1. SoundAt(u, V, L)
    BY <1>2
  <2>2. PICK log : log = node[u].log /\ AcksKept(log, j, V, L, log, w, V, L, u)
    BY <1>1, <1>2, AcksKeptByAppend
  <2>3. LogOK(node[u], w, V, L, u)
    BY <1>1, <1>2, <2>1, LeaderAppends DEF SoundAt, LogOK
  <2>4. match[u] > 0 => AckOK(match[u] + 1, log, w, V, L, u)
    BY <1>1, <2>1, <2>2 DEF SoundAt, AcksKept
  <2>5. ReqsOK(reqs[u], w) /\ ReqsOK(old[u], w)
    BY <1>1, <1>2, <2>1, RequestsGrow DEF SoundAt
  <2>6. AnswersOK(inFlight[u], log, w, V, L, u)
    BY <1>1, <2>1, <2>2, AnswersKept DEF SoundAt
  <2>7. PlanOK(tracker[u], inFlight[u], w)
    <3>1. PlanOK(tracker[u], inFlight[u], j)
      BY <1>1, <2>1 DEF SoundAt
    <3>2. \A x \in 1..Len(j) : x \in 1..Len(w) /\ w[x] = j[x]
      BY <1>4
    <3> QED BY <3>1, <3>2 DEF PlanOK
  <2> QED BY <1>3, <2>1, <2>2, <2>3, <2>4, <2>5, <2>6, <2>7 DEF SoundAt
<1>8. Sound'
  BY <1>3, <1>4, <1>6, <1>7 DEF Sound
<1> QED
  BY <1>3, <1>5, <1>8 DEF Chosen

LEMMA AppendsChosen ==
    ASSUME ChosenInv, Write \/ \E t \in Target : Reconfigure(t)
    PROVE  Chosen'
<1>1. /\ term = T /\ term' = term /\ journal' = [journal EXCEPT !.log = Append(@, T)] /\ node' = node /\ tracker' = tracker
      /\ inFlight' = inFlight /\ reqs' = reqs /\ old' = old /\ match' = match /\ beat' = beat
  BY DEF Write, Reconfigure, Current, net, time
<1>2. Budget
  BY DEF ChosenInv, Chosen
<1>3. CASE Write
  <2>1. left' = [left EXCEPT !.writes = @ - 1] /\ full' = full
    BY <1>3 DEF Write
  <2>2. Budget' /\ left'.reconfigurations = left.reconfigurations
    BY <1>2, <2>1 DEF Budget
  <2>3. VotersKept
    BY <1>1, <2>1, <2>2 DEF VotersKept, VotersOK, quorumSize
  <2> QED BY <1>1, <2>2, <2>3, GrowChosen
<1>4. CASE \E t \in Target : Reconfigure(t)
  <2>1. left.reconfigurations > 0 /\ left' = [left EXCEPT !.reconfigurations = @ - 1]
    BY <1>4 DEF Reconfigure
  <2>2. left'.reconfigurations = left.reconfigurations - 1 /\ left'.elections = left.elections /\ DOMAIN left' = DOMAIN left
    BY <1>2, <2>1 DEF Budget
  <2>3. Budget'
    BY <1>2, <2>1, <2>2 DEF Budget
  <2>4. VotersKept
    <3>1. ASSUME NEW V, NEW L, VotersOK(V, L) PROVE VotersOK(V, L)'
      <4>1. V = {}
        BY <2>1, <3>1 DEF VotersOK
      <4> QED BY <4>1 DEF VotersOK, NextLog
    <3> QED BY <3>1 DEF VotersKept
  <2> QED BY <1>1, <2>3, <2>4, GrowChosen
<1> QED
  BY <1>3, <1>4

\* Logs and terms of the targets stay.
SameLogs == DOMAIN node' = Target /\ \A u \in Target : node'[u].log = node[u].log /\ node'[u].term = node[u].term

LEMMA IdleChosen ==
    ASSUME ChosenInv, term' \in Nat, term <= term', SameLogs, tracker' = tracker, inFlight' = inFlight, reqs' = reqs, old' = old,
           beat' = beat, full' = full, Budget', left'.reconfigurations = left.reconfigurations,
           DOMAIN match' = Target, term = T /\ term' = T => match' = match, JournalKept
    PROVE  Chosen'
<1>1. Terms /\ term \in Nat /\ T <= term /\ full \subseteq Target
  BY DEF ChosenInv, Chosen, Terms, LeaseInv
<1>2. T <= term' /\ (term' = T => term = T)
  BY <1>1 DEF T
<1>3. Terms'
  BY <1>1, <1>2 DEF Terms, SameLogs
<1>4. ASSUME term' = T PROVE JournalOK' /\ Sound'
  <2>1. term = T /\ match' = match /\ journal'.log = journal.log /\ JournalOK'
    BY <1>2, <1>4 DEF JournalKept
  <2>2. PICK V, L : LeaderLog(journal.log) /\ VotersOK(V, L) /\ \A u \in Target : SoundAt(u, V, L)
    BY <2>1 DEF ChosenInv, Chosen, Sound
  <2>3. VotersOK(V, L)'
    <3>1. \A v \in V : node'[v].term > T
      BY <1>1, <2>2 DEF VotersOK, SameLogs
    <3> QED BY <2>2, <3>1 DEF VotersOK, quorumSize
  <2>4. ASSUME NEW u \in Target PROVE SoundAt(u, V, L)'
    <3>1. SoundAt(u, V, L) /\ node'[u].log = node[u].log /\ node'[u].term = node[u].term
      BY <2>2 DEF SameLogs
    <3>2. LogOK(node'[u], journal.log, V, L, u)
      BY <3>1 DEF SoundAt, LogOK
    <3> QED BY <2>1, <3>1, <3>2 DEF SoundAt
  <2> QED BY <2>1, <2>2, <2>3, <2>4 DEF Sound
<1> QED
  BY <1>3, <1>4 DEF Chosen

LEMMA IdleSteps ==
    ASSUME ChosenInv, AutoCommit \/ LeaseExpired \/ Deactivate \/ Tick \/ \E c \in Target : CommitNext(c)
    PROVE  Chosen'
<1>1. tracker' = tracker /\ inFlight' = inFlight /\ reqs' = reqs /\ old' = old /\ beat' = beat /\ full' = full
  BY DEF AutoCommit, LeaseExpired, Deactivate, Tick, CommitNext, net, time
<1>2. Budget /\ term \in Nat /\ T <= term /\ DOMAIN match = Target /\ DOMAIN node = Target
  BY DEF ChosenInv, Chosen, Terms, LeaseInv
<1>3. left' = left \/ left' = [left EXCEPT !.time = @ - 1]
  BY DEF AutoCommit, LeaseExpired, Deactivate, Tick, CommitNext
<1>4. Budget' /\ left'.reconfigurations = left.reconfigurations
  BY <1>2, <1>3 DEF Budget
<1>5. SameLogs
  <2>1. CASE node' = node
    BY <1>2, <2>1 DEF SameLogs
  <2>2. CASE \E c \in Target : CommitNext(c)
    <3>1. PICK c \in Target : \E x : node' = [node EXCEPT ![c].commitIndex = x]
      BY <2>2 DEF CommitNext
    <3>2. DOMAIN node[c] = Fields
      BY ChosenFacts
    <3>3. \A u \in Target : u # c => node'[u] = node[u]
      BY <1>2, <3>1
    <3>4. node'[c].log = node[c].log /\ node'[c].term = node[c].term
      BY <1>2, <3>1, <3>2 DEF Fields
    <3>5. DOMAIN node' = Target
      BY <1>2, <3>1
    <3> QED BY <3>3, <3>4, <3>5 DEF SameLogs
  <2> QED BY <2>1, <2>2 DEF AutoCommit, LeaseExpired, Deactivate, Tick
<1>6. term' \in Nat /\ term <= term'
  <2>1. CASE LeaseExpired
    <3>1. observed(T + 1) /\ T + 1 \in Nat
      BY <2>1 DEF LeaseExpired, T
    <3> QED BY <3>1, TermGrows
  <2>2. CASE term' = term
    BY <1>2, <2>2
  <2> QED BY <2>1, <2>2 DEF AutoCommit, Deactivate, Tick, CommitNext
<1>7. DOMAIN match' = Target /\ (term = T => match' = match)
  BY <1>2 DEF AutoCommit, LeaseExpired, Deactivate, Tick, CommitNext, Current
<1>8. JournalKept
  <2> SUFFICES ASSUME term = T, term' = T PROVE journal'.log = journal.log /\ JournalOK'
    BY DEF JournalKept
  <2>1. JournalOK /\ LeaderLog(journal.log)
    BY DEF ChosenInv, Chosen, Sound
  <2>2. CASE journal' = journal
    BY <2>1, <2>2 DEF JournalOK
  <2>3. CASE AutoCommit
    <3>1. Len(journal.log) - 1 \in Nat
      BY <2>1 DEF LeaderLog
    <3>2. PICK x \in Nat : x = Max({journal.commitIndex, Len(journal.log) - 1})
      BY <2>1, <3>1, MaxOfTwo DEF JournalOK
    <3>3. journal' = [journal EXCEPT !.commitIndex = x]
      BY <2>3, <3>2 DEF AutoCommit, setCommitIndex, LogSize
    <3>4. DOMAIN journal' = DOMAIN journal /\ journal'.log = journal.log /\ journal'.start = journal.start /\ journal'.commitIndex = x
      BY <2>1, <3>3 DEF JournalOK
    <3> QED BY <2>1, <3>4 DEF JournalOK
  <2> QED BY <2>2, <2>3 DEF LeaseExpired, Deactivate, Tick, CommitNext
<1> QED
  BY <1>1, <1>4, <1>5, <1>6, <1>7, <1>8, IdleChosen

-----------------------------------------------------------------------------
(* The next leader *)

\* The node of u changes, its acknowledgements stay good.
LEMMA NodeSound ==
    ASSUME NEW u, NEW V0, NEW L0, SoundAt(u, V0, L0), NEW V, NEW L, journal' = journal, match' = match, reqs' = reqs, old' = old,
           inFlight' = inFlight, tracker' = tracker, LogOK(node'[u], journal.log, V, L, u),
           AcksKept(node[u].log, journal.log, V0, L0, node'[u].log, journal.log, V, L, u)
    PROVE  SoundAt(u, V, L)'
<1>1. AnswersOK(inFlight[u], node'[u].log, journal.log, V, L, u)
  BY AnswersKept DEF SoundAt
<1>2. match[u] > 0 => AckOK(match[u] + 1, node'[u].log, journal.log, V, L, u)
  BY DEF SoundAt, AcksKept
<1> QED
  BY <1>1, <1>2 DEF SoundAt

\* Only the log of the next leader ends with an entry of its term.
LEMMA NextLeaderLog ==
    ASSUME NEW j, NEW n, NEW V, NEW L, NEW c, LogOK(n, j, V, L, c), n.log[Len(n.log)] = T + 1
    PROVE  V # {} /\ n.log = L
<1>1. ASSUME Plausible(n.log, j) PROVE FALSE
  <2>1. Len(n.log) \in Nat /\ Len(n.log) > 0
    BY <1>1 DEF Plausible
  <2>2. Len(n.log) \in 1..Len(n.log) /\ n.log[Len(n.log)] >= T
    BY <2>1 DEF T
  <2>3. n.log[Len(n.log)] = T
    BY <1>1, <2>2 DEF Plausible
  <2> QED BY <2>3 DEF T
<1> QED
  BY <1>1 DEF LogOK

LEMMA OverwriteChosen ==
    ASSUME ChosenInv, NEW c \in Target, NEW x \in Members, Overwrite(c, x)
    PROVE  Chosen'
<1>1. /\ tracker' = tracker /\ inFlight' = inFlight /\ reqs' = reqs /\ old' = old /\ match' = match /\ full' = full /\ beat' = beat
      /\ left' = left
  BY DEF Overwrite, net, time
<1>2. Terms /\ Budget /\ full \subseteq Target /\ DOMAIN node = Target /\ c # Leader
  BY ReplicationAssumption DEF ChosenInv, Chosen, LeaseInv
<1>3. Budget'
  BY <1>1, <1>2 DEF Budget
<1>4. CASE x = Leader
  <2>1. term' = T + 1 /\ node' = node
    BY <1>4 DEF Overwrite
  <2>2. term' \in Nat /\ T <= term' /\ term' # T
    BY <2>1 DEF T
  <2>3. Terms'
    BY <1>1, <1>2, <2>1, <2>2 DEF Terms
  <2> QED BY <1>3, <2>2, <2>3 DEF Chosen
<1>5. CASE x # Leader
  <2>1. journal' = journal /\ term' = term /\ Elected(c)
    BY <1>5 DEF Overwrite
  <2>2. x \in Target /\ DOMAIN node[x] = Fields
    <3>1. x \in Target
      BY <1>2, <1>5 DEF Members
    <3> QED BY <3>1, ChosenFacts
  <2>3. PICK k, l : l = node[c].log /\ node' = [node EXCEPT ![x] = [[node[x] EXCEPT !.log = l, !.term = T + 1] EXCEPT !.commitIndex = k]]
    BY <1>2, <1>5 DEF Overwrite, setCommitIndex, Log
  <2>4. DOMAIN node' = Target /\ \A u \in Target : u # x => node'[u] = node[u]
    BY <1>2, <2>3
  <2>5. node'[x].log = l /\ node'[x].term = T + 1
    BY <1>2, <2>2, <2>3 DEF Fields
  <2>6. T + 1 \in Nat /\ T + 1 > T
    BY DEF T
  <2>7. Terms'
    <3>1. \A u \in Target : node'[u].term \in Nat
      BY <1>2, <2>4, <2>5, <2>6 DEF Terms
    <3> QED BY <1>1, <1>2, <2>1, <3>1 DEF Terms
  <2>8. ASSUME term = T PROVE JournalOK' /\ Sound'
    <3>1. PICK V, L : JournalOK /\ LeaderLog(journal.log) /\ VotersOK(V, L) /\ \A u \in Target : SoundAt(u, V, L)
      BY <2>8 DEF ChosenInv, Chosen, Sound
    <3>2. V # {} /\ l = L
      <4>1. LogOK(node[c], journal.log, V, L, c)
        BY <3>1 DEF SoundAt
      <4> QED BY <2>1, <2>3, <4>1, NextLeaderLog DEF Elected
    <3>3. VotersOK(V, L)'
      <4>1. \A v \in V : node'[v].term > T
        BY <1>2, <2>4, <2>5, <2>6, <3>1 DEF VotersOK
      <4> QED BY <1>1, <3>1, <4>1 DEF VotersOK, quorumSize
    <3>4. ASSUME NEW u \in Target PROVE SoundAt(u, V, L)'
      <4>1. SoundAt(u, V, L)
        BY <3>1
      <4>2. CASE u # x
        BY <1>1, <2>1, <2>4, <4>1, <4>2 DEF SoundAt
      <4>3. CASE u = x
        <5>1. LogOK(node'[u], journal.log, V, L, u)
          BY <2>5, <2>6, <3>2, <4>3 DEF LogOK
        <5>2. AcksKept(node[u].log, journal.log, V, L, node'[u].log, journal.log, V, L, u)
          BY <2>5, <3>2, <4>3 DEF AcksKept, AckOK
        <5> QED BY <1>1, <2>1, <4>1, <5>1, <5>2, NodeSound
      <4> QED BY <4>2, <4>3
    <3> QED BY <2>1, <3>1, <3>3, <3>4 DEF Sound, JournalOK
  <2> QED BY <1>3, <2>1, <2>7, <2>8 DEF Chosen
<1> QED
  BY <1>4, <1>5

\* Two quorums among the targets meet.
LEMMA QuorumsMeet ==
    ASSUME IsFiniteSet(full), NEW A \in SUBSET full, NEW B \in SUBSET full, Cardinality(A) = quorumSize, Cardinality(B) + 1 >= quorumSize
    PROVE  A \cap B # {}
<1>1. PICK n \in Nat : n = Cardinality(full)
  BY FS_CardinalityType
<1>2. PICK q \in Nat : q = quorumSize /\ q = (n + 1) \div 2 + 1
  BY <1>1 DEF quorumSize
<1>3. IsFiniteSet(B)
  BY FS_Subset
<1>4. PICK b \in Nat : b = Cardinality(B)
  BY <1>3, FS_CardinalityType
<1>5. q + b > n
  BY <1>2, <1>4
<1> QED
  BY <1>1, <1>2, <1>4, <1>5, FS_MajoritiesIntersect

LEMMA ElectChosen ==
    ASSUME ChosenInv, NEW c \in Target, NEW voters \in SUBSET Members, Elect(c, voters)
    PROVE  Chosen'
<1>1. /\ tracker' = tracker /\ inFlight' = inFlight /\ reqs' = reqs /\ old' = old /\ match' = match /\ full' = full /\ beat' = beat
      /\ journal' = journal
  BY DEF Elect, net, time
<1>2. /\ Terms /\ Budget /\ full \subseteq Target /\ IsFiniteSet(full) /\ DOMAIN node = Target /\ Leader \notin Target
  <2>1. Terms /\ Budget /\ full \in SUBSET Target /\ DOMAIN node = Target
    BY DEF ChosenInv, Chosen, LeaseInv
  <2> QED BY <2>1, ReplicationAssumption, FS_Subset
<1>3. left.elections > 0 /\ left' = [left EXCEPT !.elections = @ - 1]
  BY DEF Elect
<1>4. Budget' /\ left.reconfigurations = 0 /\ left'.reconfigurations = 0
  <2>1. left'.elections = left.elections - 1 /\ left'.reconfigurations = left.reconfigurations /\ DOMAIN left' = DOMAIN left
    BY <1>2, <1>3 DEF Budget
  <2> QED BY <1>2, <1>3, <2>1 DEF Budget
<1>5. T + 1 \in Nat /\ T + 1 > T
  BY DEF T
<1>6. node' = [x \in Target |->
          IF x = c THEN [node[x] EXCEPT !.term = T + 1, !.log = Append(@, T + 1)]
          ELSE IF x \in voters THEN [node[x] EXCEPT !.term = T + 1] ELSE node[x]]
  BY DEF Elect
<1>7. PICK L2 : L2 = Append(node[c].log, T + 1)
  OBVIOUS
<1>8. node'[c].term = T + 1 /\ node'[c].log = L2
  <2>1. DOMAIN node[c] = Fields
    BY ChosenFacts
  <2> QED BY <1>6, <1>7, <2>1 DEF Fields
<1>9. ASSUME NEW u \in Target, u # c
      PROVE  node'[u].log = node[u].log /\ (u \in voters => node'[u].term = T + 1) /\ (u \notin voters => node'[u].term = node[u].term)
  <2>1. DOMAIN node[u] = Fields
    BY ChosenFacts
  <2> QED BY <1>6, <1>9, <2>1 DEF Fields
<1>10. c \in voters /\ Cardinality(voters) = quorumSize /\ \A x \in voters : TermOf(x) <= T /\ UpToDate(Log(c), Log(x))
  BY DEF Elect
<1>11. term' = IF Leader \in voters THEN T + 1 ELSE term
  BY DEF Elect
<1>12. term' \in Nat /\ T <= term' /\ (term' = T => Leader \notin voters /\ term = T)
  BY <1>2, <1>5, <1>11 DEF Terms, T
<1>13. Terms'
  <2>1. DOMAIN node' = Target
    BY <1>6
  <2>2. \A u \in Target : node'[u].term \in Nat
    BY <1>2, <1>5, <1>8, <1>9 DEF Terms
  <2> QED BY <1>1, <1>2, <1>12, <2>1, <2>2 DEF Terms
<1>14. ASSUME term' = T PROVE JournalOK' /\ Sound'
  <2>1. PICK V, L : JournalOK /\ LeaderLog(journal.log) /\ VotersOK(V, L) /\ \A u \in Target : SoundAt(u, V, L)
    BY <1>12, <1>14 DEF ChosenInv, Chosen, Sound
  <2>2. PICK j : j = journal.log
    OBVIOUS
  <2>3. voters \in SUBSET full
    BY <1>12, <1>14 DEF Members
  <2>4. \A x \in voters : x \in Target /\ ~ (node[x].term > T) /\ UpToDate(node[c].log, node[x].log)
    <3> SUFFICES ASSUME NEW x \in voters PROVE x \in Target /\ ~ (node[x].term > T) /\ UpToDate(node[c].log, node[x].log)
      OBVIOUS
    <3>1. x \in Target /\ x # Leader /\ c # Leader
      BY <1>2, <2>3
    <3>2. node[x].term <= T /\ node[x].term \in Nat
      BY <1>2, <1>10, <3>1 DEF TermOf, Terms
    <3>3. ~ (node[x].term > T)
      BY <3>2 DEF T
    <3> QED BY <1>10, <3>1, <3>3 DEF Log
  <2>5. V = {}
    <3> SUFFICES ASSUME V # {} PROVE FALSE
      OBVIOUS
    <3>1. V \in SUBSET full /\ Cardinality(V) = quorumSize
      BY <2>1 DEF VotersOK
    <3>2. Cardinality(V) + 1 >= quorumSize
      <4>1. IsFiniteSet(V)
        BY <1>2, <3>1, FS_Subset
      <4>2. Cardinality(V) \in Nat
        BY <4>1, FS_CardinalityType
      <4> QED BY <3>1, <4>2
    <3>3. PICK v : v \in voters /\ v \in V
      BY <1>2, <1>10, <2>3, <3>1, <3>2, QuorumsMeet
    <3> QED BY <2>1, <2>4, <3>3 DEF VotersOK
  <2>6. \A u \in Target : Plausible(node[u].log, j) /\ ~ (node[u].term > T)
    BY <2>1, <2>2, <2>5 DEF SoundAt, LogOK
  <2>7. node[c].log \in Seq(Nat)
    BY <2>6 DEF Plausible
  <2>8. L2 \in Seq(Nat) /\ Len(L2) > 0 /\ L2[Len(L2)] = T + 1
    BY <1>5, <1>7, <2>7, AppendProperties, LenProperties
  <2>9. VotersOK(voters, L2)'
    <3>1. \A v \in voters : node'[v].term > T
      BY <1>5, <1>8, <1>9, <2>4
    <3>2. NextLog(voters, L2)
      BY <1>5, <2>8 DEF NextLog
    <3> QED BY <1>1, <1>4, <1>10, <2>3, <3>1, <3>2 DEF VotersOK, quorumSize
  <2>10. ASSUME NEW u \in Target PROVE SoundAt(u, voters, L2)'
    <3>1. SoundAt(u, V, L) /\ Plausible(node[u].log, j)
      BY <2>1, <2>6
    <3>2. LogOK(node'[u], j, voters, L2, u)
      <4>1. CASE u = c
        BY <1>5, <1>8, <1>10, <4>1 DEF LogOK
      <4>2. CASE u # c
        BY <1>9, <2>6, <4>2 DEF LogOK
      <4> QED BY <4>1, <4>2
    <3>3. ASSUME NEW k, AckOK(k, node[u].log, j, V, L, u) PROVE AckOK(k, node'[u].log, j, voters, L2, u)
      <4>1. k \in 3..Len(j) /\ Held(node[u].log, j, k)
        BY <2>5, <3>3 DEF AckOK
      <4>2. Held(node'[u].log, j, k) \/ (voters # {} /\ node'[u].log = L2)
        BY <1>8, <1>9, <1>10, <4>1
      <4>3. ASSUME u \in voters PROVE Held(L2, j, k)
        <5>1. UpToDate(node[c].log, node[u].log) /\ Plausible(node[c].log, j)
          BY <2>4, <2>6, <4>3
        <5>2. Held(node[c].log, j, k)
          BY <2>1, <2>2, <3>1, <4>1, <5>1, VoterKnows
        <5> QED BY <1>5, <1>7, <2>7, <5>2, HeldAppend
      <4> QED BY <4>1, <4>2, <4>3 DEF AckOK
    <3>4. AcksKept(node[u].log, j, V, L, node'[u].log, j, voters, L2, u)
      BY <3>3 DEF AcksKept
    <3> QED BY <1>1, <2>2, <3>1, <3>2, <3>4, NodeSound
  <2> QED BY <1>1, <2>1, <2>9, <2>10 DEF Sound, JournalOK
<1> QED
  BY <1>4, <1>13, <1>14 DEF Chosen

-----------------------------------------------------------------------------
(* The invariant *)

LEMMA ChosenStarts ==
    ASSUME Init PROVE ChosenInv
<1>1. PICK s \in Scenarios :
        /\ journal = [log |-> <<0, 1, T>>, start |-> s.start, commitIndex |-> s.start] /\ term = T
        /\ full = s.full /\ left = s.left /\ match = [t \in Target |-> 0]
        /\ inFlight = [t \in Target |-> <<>>] /\ reqs = [t \in Target |-> <<>>] /\ old = [t \in Target |-> <<>>]
        /\ tracker = [t \in Target |-> newTracker(t \in s.tracked)]
        /\ node = [t \in Target |-> [term |-> T, log |-> s.logs[t], commitIndex |-> 0, heard |-> 0]]
        /\ beat = [t \in Target |-> [state |-> IF t \in s.beating THEN "none" ELSE "off", sent |-> 0, term |-> 0]]
  BY DEF Init
<1>2. LeaseInv
  BY LeaseStarts
<1>3. Budget
  BY <1>1, ScenariosAssumption DEF Budget
<1>4. JournalOK
  <2>1. s.start \in Nat
    BY ScenariosAssumption
  <2> QED BY <1>1, <2>1 DEF JournalOK
<1>5. T \in Nat /\ T <= T /\ ~ (T > T)
  BY DEF T
<1>6. Terms
  <2>1. ASSUME NEW t \in Target PROVE node[t].term = T /\ beat[t].term = 0 /\ TermsOf(inFlight[t])
    BY <1>1, EmptyQueue DEF TermsOf
  <2>2. DOMAIN match = Target /\ DOMAIN reqs = Target /\ DOMAIN old = Target
    BY <1>1
  <2> QED BY <1>1, <1>5, <2>1, <2>2 DEF Terms
<1>7. PICK j : j = <<0, 1, T>> /\ journal.log = j
  BY <1>1
<1>8. LeaderLog(j)
  <2>1. j \in Seq(Nat) /\ Len(j) = 3 /\ j[1] = 0 /\ j[2] = 1 /\ j[3] = T
    BY <1>5, <1>7
  <2> QED BY <2>1 DEF LeaderLog
<1>9. VotersOK({}, <<>>)
  BY DEF VotersOK, NextLog
<1>10. ASSUME NEW t \in Target PROVE SoundAt(t, {}, <<>>)
  <2>1. node[t].log = s.logs[t] /\ node[t].term = T /\ match[t] = 0 /\ reqs[t] = <<>> /\ old[t] = <<>> /\ inFlight[t] = <<>>
    BY <1>1
  <2>2. LogOK(node[t], j, {}, <<>>, t)
    BY <1>5, <1>7, <2>1, ScenariosAssumption DEF LogOK
  <2>3. ReqsOK(<<>>, j) /\ AnswersOK(<<>>, node[t].log, j, {}, <<>>, t)
    BY RequestsEmpty, AnswersEmpty
  <2>4. Waiting(<<>>, <<>>, 0)
    BY EmptyQueue DEF Waiting
  <2>5. PlanOK(tracker[t], <<>>, j)
    <3>1. PICK p \in {"round", "done"} : tracker[t] =
            [pc |-> p, next |-> 3, limit |-> 1, online |-> FALSE, needResilvering |-> FALSE, resilverer |-> "none",
             streaming |-> "no", prevTerm |-> NoTerm, commit |-> 0]
      BY <1>1 DEF newTracker
    <3>2. /\ {"pc", "streaming", "next", "limit", "prevTerm"} \subseteq DOMAIN tracker[t]
          /\ tracker[t].pc = p /\ tracker[t].next = 3 /\ tracker[t].limit = 1
      BY <3>1
    <3> QED BY <3>2, EmptyQueue DEF PlanOK
  <2> QED BY <1>7, <2>1, <2>2, <2>3, <2>4, <2>5 DEF SoundAt
<1>11. Sound
  BY <1>7, <1>8, <1>9, <1>10 DEF Sound
<1> QED
  BY <1>2, <1>3, <1>4, <1>6, <1>11 DEF ChosenInv, Chosen

LEMMA ChosenSteps ==
    ASSUME ChosenInv, [Next]_vars
    PROVE  ChosenInv'
<1>1. LeaseInv'
  BY LeaseSteps DEF ChosenInv
<1>2. ASSUME NEW t \in Target, Main(t) \/ NoAnswer(t, TRUE) PROVE Chosen'
  <2>1. CASE SendPayload(t)
    BY <2>1, SendChosen
  <2>2. CASE PayloadThrows(t)
    BY <2>2, ThrowChosen
  <2>3. CASE ReadAnswer(t)
    BY <2>3, ReadAnswerChosen
  <2>4. CASE StartStreaming(t) \/ BeginRound(t) \/ ReadCommitIndex(t) \/ Finish(t) \/ Halt(t)
    BY <2>4, PlanSteps
  <2>5. CASE LeaveStreaming(t) \/ \E b \in BOOLEAN : NoAnswer(t, b)
    BY <2>5, ForgetSteps
  <2> QED BY <1>2, <2>1, <2>2, <2>3, <2>4, <2>5 DEF Main
<1>3. ASSUME NEW t \in Target, Monitor(t) PROVE Chosen'
  BY <1>3, MonitorChosen DEF Monitor
<1>4. ASSUME NEW t \in Target, SendHeartbeat(t) \/ ReadHeartbeatReply(t) \/ LoseHeartbeat(t) \/ HandleHeartbeat(t) PROVE Chosen'
  BY <1>4, HeartbeatsChosen
<1>5. ASSUME NEW t \in Target, HandleRequest(t) \/ HandleOldRequest(t) PROVE Chosen'
  BY <1>5, RequestChosen, OldRequestChosen
<1>6. ASSUME NEW t \in Target, NEW ok \in BOOLEAN, EndResilvering(t, ok) PROVE Chosen'
  BY <1>6, ResilveredChosen
<1>7. ASSUME NEW t \in Target, NEW k \in 0..Len(reqs[t]), Break(t, k) PROVE Chosen'
  BY <1>7, BreakChosen
<1>8. ASSUME NEW t \in Target, NEW x \in Members, Overwrite(t, x) PROVE Chosen'
  BY <1>8, OverwriteChosen
<1>9. ASSUME NEW t \in Target, NEW voters \in SUBSET Members, Elect(t, voters) PROVE Chosen'
  BY <1>9, ElectChosen
<1>10. ASSUME Write \/ \E t \in Target : Reconfigure(t) PROVE Chosen'
  BY <1>10, AppendsChosen
<1>11. ASSUME AutoCommit \/ LeaseExpired \/ Deactivate \/ Tick \/ \E c \in Target : CommitNext(c) PROVE Chosen'
  BY <1>11, IdleSteps
<1>12. ASSUME UNCHANGED vars PROVE Chosen'
  <2>1. /\ journal' = journal /\ term' = term /\ tracker' = tracker /\ inFlight' = inFlight /\ reqs' = reqs /\ old' = old
        /\ node' = node /\ match' = match /\ full' = full /\ beat' = beat /\ left' = left
    BY <1>12 DEF vars
  <2>2. Budget /\ DOMAIN node = Target /\ DOMAIN match = Target /\ term \in Nat
    BY DEF ChosenInv, Chosen, Terms, LeaseInv
  <2>3. SameLogs /\ Budget'
    BY <2>1, <2>2 DEF SameLogs, Budget
  <2>4. JournalKept
    BY <2>1 DEF JournalKept, JournalOK, ChosenInv, Chosen
  <2>5. term' \in Nat /\ term <= term'
    BY <2>1, <2>2
  <2> QED BY <2>1, <2>2, <2>3, <2>4, <2>5, IdleChosen
<1>13. Chosen'
  BY <1>2, <1>3, <1>4, <1>5, <1>6, <1>7, <1>8, <1>9, <1>10, <1>11, <1>12 DEF Next
<1> QED
  BY <1>1, <1>13 DEF ChosenInv

-----------------------------------------------------------------------------
(* The leader moves its commit index *)

\* The full nodes that store the leader's log up to index c.
Storing(c) == {t \in full : Len(node[t].log) > c /\ SubSeq(node[t].log, 1, c + 1) = SubSeq(journal.log, 1, c + 1)}

ChosenAt(c) == TermAt(journal.log, c) = T /\ Cardinality(Storing(c)) + 1 >= quorumSize

\* Where a quorum of match indexes has reached, a quorum of full nodes holds the entries:
\* a vote for the next leader would have made it hold them as well.
LEMMA QuorumStores ==
    ChosenInv /\ term = T /\ full # {} /\ recalculateCommitIndex(match) > 0 => ChosenAt(recalculateCommitIndex(match))
<1> SUFFICES ASSUME ChosenInv, term = T, full # {}, recalculateCommitIndex(match) > 0
             PROVE  ChosenAt(recalculateCommitIndex(match))
  OBVIOUS
<1>1. full \in SUBSET Target /\ IsFiniteSet(full)
  <2>1. full \in SUBSET Target
    BY DEF ChosenInv, LeaseInv
  <2> QED BY <2>1, ReplicationAssumption, FS_Subset
<1>2. PICK j, V, L : j = journal.log /\ LeaderLog(j) /\ VotersOK(V, L) /\ \A u \in Target : SoundAt(u, V, L)
  BY DEF ChosenInv, Chosen, Sound
<1>3. PICK n \in Nat : n = Len(j) /\ \A u \in Target : match[u] \in Nat /\ match[u] <= n
  BY <1>2, MatchBounds
<1>4. PICK c \in Nat : c = recalculateCommitIndex(match) /\ Cardinality(Below(match, full, c)) + quorumSize <= Cardinality(full) + 1
                       /\ OneOf(match, full, c) /\ c > 0
  BY <1>1, <1>3, Recalculated
<1>5. \A u \in Target : match[u] > 0 => AckOK(match[u] + 1, node[u].log, j, V, L, u)
  BY <1>2 DEF SoundAt
<1>6. PICK k \in Nat : k = c + 1 /\ k \in 3..n /\ k \in 1..n
  <2>1. PICK u \in full : match[u] = c
    BY <1>4 DEF OneOf
  <2>2. match[u] + 1 \in 3..Len(j)
    BY <1>1, <1>4, <1>5, <2>1 DEF AckOK
  <2> QED BY <1>3, <1>4, <2>1, <2>2
<1>7. TermAt(j, c) = T
  BY <1>2, <1>3, <1>6 DEF LeaderLog, TermAt
<1>8. PICK B, A : B = Below(match, full, c) /\ A = full \ B
  OBVIOUS
<1>9. B \in SUBSET full /\ IsFiniteSet(B) /\ A \in SUBSET full
  BY <1>1, <1>8, Counted DEF Below
<1>10. Cardinality(A) \in Nat /\ Cardinality(A) + 1 >= quorumSize
  <2>1. PICK f \in Nat, b \in Nat, a \in Nat : f = Cardinality(full) /\ b = Cardinality(B) /\ a = Cardinality(A)
    <3>1. IsFiniteSet(A)
      BY <1>1, <1>9, FS_Subset
    <3> QED BY <1>1, <1>9, <3>1, FS_CardinalityType
  <2>2. a = f - b
    <3>1. full \cap B = B
      BY <1>9
    <3>2. Cardinality(full \ B) = Cardinality(full) - Cardinality(full \cap B)
      BY <1>1, FS_Difference
    <3> QED BY <1>8, <2>1, <3>1, <3>2
  <2>3. PICK q \in Nat : q = quorumSize
    BY <2>1 DEF quorumSize
  <2>4. b + q <= f + 1
    BY <1>4, <1>8, <2>1, <2>3
  <2> QED BY <2>1, <2>2, <2>3, <2>4
<1>11. ASSUME NEW u \in A
       PROVE  u \in Target /\ (u \in V => Held(L, j, k)) /\ (Held(node[u].log, j, k) \/ (V # {} /\ node[u].log = L))
  <2>1. u \in full /\ u \in Target /\ match[u] \in Nat /\ ~ (match[u] < c)
    BY <1>1, <1>3, <1>8, <1>9 DEF Below
  <2>2. match[u] > 0 /\ k \in 1..(match[u] + 1)
    BY <1>4, <1>6, <2>1
  <2>3. AckOK(match[u] + 1, node[u].log, j, V, L, u)
    BY <1>5, <2>1, <2>2
  <2> QED BY <2>1, <2>2, <2>3, HeldBelow DEF AckOK
<1>12. V # {} => Held(L, j, k)
  <2> SUFFICES ASSUME V # {} PROVE Held(L, j, k)
    OBVIOUS
  <2>1. V \in SUBSET full /\ Cardinality(V) = quorumSize
    BY <1>2 DEF VotersOK
  <2>2. V \cap A # {}
    BY <1>1, <1>9, <1>10, <2>1, QuorumsMeet
  <2>3. PICK u : u \in V /\ u \in A
    BY <2>2
  <2> QED BY <1>11, <2>3
<1>13. ASSUME NEW u \in A PROVE u \in Storing(c)
  <2>1. PICK log : log = node[u].log /\ Held(log, j, k)
    BY <1>11, <1>12
  <2>2. log \in Seq(Nat) /\ Len(log) \in Nat
    <3>1. LogOK(node[u], j, V, L, u)
      BY <1>2, <1>11 DEF SoundAt
    <3>2. log \in Seq(Nat)
      BY <1>2, <2>1, <3>1 DEF LogOK, Plausible, VotersOK, NextLog
    <3> QED BY <3>2, LenProperties
  <2>3. k \in 1..Len(log) /\ \A i \in 1..k : log[i] = j[i]
    BY <2>1 DEF Held
  <2>4. Len(log) > c
    BY <1>6, <2>2, <2>3
  <2>5. SubSeq(log, 1, c + 1) = SubSeq(j, 1, c + 1)
    <3>1. SubSeq(log, 1, k) = [i \in 1..k |-> log[i]]
      BY <2>2, <2>3
    <3>2. SubSeq(j, 1, k) = [i \in 1..k |-> j[i]]
      BY <1>2, <1>3, <1>6 DEF LeaderLog
    <3>3. [i \in 1..k |-> log[i]] = [i \in 1..k |-> j[i]]
      BY <2>3
    <3> QED BY <1>6, <3>1, <3>2, <3>3
  <2> QED BY <1>2, <1>9, <2>1, <2>4, <2>5 DEF Storing
<1>14. Cardinality(Storing(c)) + 1 >= quorumSize
  <2>1. Storing(c) \in SUBSET full /\ A \in SUBSET Storing(c)
    BY <1>13 DEF Storing
  <2>2. IsFiniteSet(Storing(c))
    BY <1>1, <2>1, FS_Subset
  <2>3. Cardinality(A) <= Cardinality(Storing(c)) /\ Cardinality(Storing(c)) \in Nat
    BY <2>1, <2>2, FS_Subset, FS_CardinalityType
  <2>4. PICK q \in Nat : q = quorumSize
    BY <1>1, FS_CardinalityType DEF quorumSize
  <2> QED BY <1>10, <2>3, <2>4
<1> QED
  BY <1>2, <1>4, <1>7, <1>14 DEF ChosenAt

\* How the commit index of a leader can grow.
Counts ==
    /\ full # {} /\ full' = full /\ node' = node /\ journal'.log = journal.log
    /\ journal'.commitIndex = recalculateCommitIndex(match') /\ journal'.commitIndex > 0

LEMMA AckMoves ==
    ASSUME ChosenInv, term = T, NEW t \in Target, NEW item, NEW index, acknowledged(t, item, index),
           item.lastEntryTerm = T => index \in Nat /\ index + 1 \in 3..Len(journal.log),
           journal'.commitIndex > journal.commitIndex, full' = full, node' = node
    PROVE  Counts
<1>1. JournalOK /\ DOMAIN match = Target /\ full \in SUBSET Target /\ IsFiniteSet(full)
  <2>1. JournalOK /\ DOMAIN match = Target /\ full \in SUBSET Target
    BY ChosenFacts DEF ChosenInv, Chosen
  <2> QED BY <2>1, ReplicationAssumption, FS_Subset
<1>2. journal' # journal
  BY <1>1 DEF JournalOK
<1>3. PICK m : m = [match EXCEPT ![t] = index]
  OBVIOUS
<1>4. PICK c : c = recalculateCommitIndex(m)
  OBVIOUS
<1>5. item.lastEntryTerm = T /\ match' = m /\ full # {} /\ journal' = setCommitIndex(journal, c)
  BY <1>2, <1>3, <1>4 DEF acknowledged, updateMatch
<1>6. c \in Nat
  <2>1. PICK n \in Nat : n = Len(journal.log) /\ \A u \in Target : match[u] \in Nat /\ match[u] <= n
    BY MatchBounds
  <2>2. index \in Nat /\ index <= n
    BY <1>5, <2>1
  <2>3. \A u \in full : m[u] \in Nat /\ m[u] <= n
    BY <1>1, <1>3, <2>1, <2>2
  <2> QED BY <1>1, <1>4, <1>5, <2>1, <2>3, Recalculated
<1>7. PICK i \in Nat, x \in Nat : i = journal.commitIndex /\ x = Max({i, c}) /\ x = IF i >= c THEN i ELSE c
  BY <1>1, <1>6, MaxOfTwo DEF JournalOK
<1>8. journal' = [journal EXCEPT !.commitIndex = x]
  BY <1>5, <1>7 DEF setCommitIndex
<1>9. journal'.log = journal.log /\ journal'.commitIndex = x
  BY <1>1, <1>8 DEF JournalOK
<1>10. x = c /\ x > 0
  BY <1>6, <1>7, <1>9
<1> QED
  BY <1>4, <1>5, <1>9, <1>10 DEF Counts

LEMMA AwaitedTerm ==
    ASSUME ChosenInv, NEW t \in Target, ReadAnswer(t) \/ MonitorAck(t), NEW i, i = Head(inFlight[t])
    PROVE  inFlight[t] # <<>> /\ i.answer.term \in Nat
<1>1. LeaseInv /\ IsQueue(inFlight[t]) /\ TermsOf(inFlight[t])
  BY ChosenFacts
<1>2. inFlight[t] # <<>>
  <2>1. CASE MonitorAck(t)
    BY <2>1 DEF MonitorAck
  <2>2. CASE ReadAnswer(t)
    <3>1. tracker[t].pc = "wait"
      BY <2>2 DEF ReadAnswer
    <3>2. Len(inFlight[t]) > 0
      BY <1>1, <3>1, Facts DEF WaitOK
    <3> QED BY <3>2, EmptyQueue
  <2> QED BY <2>1, <2>2
<1>3. inFlight[t][1] = i /\ Len(inFlight[t]) \in Nat \ {0}
  BY <1>1, <1>2, RestOfQueue DEF Rest
<1> QED
  BY <1>1, <1>2, <1>3 DEF TermsOf

LEMMA ReadMoves ==
    ASSUME ChosenInv, term = T, term' = T, NEW t \in Target, ReadAnswer(t) \/ MonitorAck(t), journal'.commitIndex > journal.commitIndex
    PROVE  Counts
<1>1. PICK i, a : i = Head(inFlight[t]) /\ a = i.answer
  OBVIOUS
<1>2. a.state = "ok" /\ full' = full /\ node' = node
  BY <1>1 DEF ReadAnswer, MonitorAck
<1>3. JournalOK
  BY DEF ChosenInv, Chosen
<1>4. journal' # journal
  BY <1>3 DEF JournalOK
<1>5. a.outcome /\ (a.term <= T \/ a.term = T) /\ acknowledged(t, i, a.logSize - 1)
  BY <1>1, <1>4 DEF ReadAnswer, MonitorAck
<1>6. inFlight[t] # <<>> /\ a.term \in Nat
  BY <1>1, AwaitedTerm
<1>7. ~ (a.term > T)
  BY <1>5, <1>6 DEF T
<1>8. a.logSize \in Nat /\ (i.lastEntryTerm = T => a.logSize \in 3..Len(journal.log))
  BY <1>1, <1>2, <1>5, <1>6, <1>7, HeadAnswer
<1>9. i.lastEntryTerm = T => a.logSize - 1 \in Nat /\ a.logSize - 1 + 1 \in 3..Len(journal.log)
  BY <1>8
<1> QED
  BY <1>2, <1>5, <1>9, AckMoves

\* A leader that is the only full node is its own quorum.
LEMMA AloneChosen ==
    ASSUME ChosenInv, AutoCommit
    PROVE  TermAt(journal'.log, journal'.commitIndex) = T /\ quorumSize = 1 /\ full = {}
<1>1. full = {} /\ term = T /\ journal.commitIndex < LogSize - 1 /\ journal' = setCommitIndex(journal, LogSize - 1)
  BY DEF AutoCommit, Current
<1>2. JournalOK /\ LeaderLog(journal.log)
  BY <1>1 DEF ChosenInv, Chosen, Sound
<1>3. PICK n \in Nat : n = LogSize - 1 /\ n + 1 \in 3..Len(journal.log)
  <2>1. PICK l \in Nat : l = LogSize /\ l = Len(journal.log) /\ l >= 3
    BY <1>2 DEF LeaderLog, LogSize
  <2>2. l - 1 \in Nat /\ l - 1 + 1 \in 3..l
    BY <2>1
  <2> QED BY <2>1, <2>2
<1>4. Max({journal.commitIndex, n}) = n
  BY <1>1, <1>2, <1>3, MaxOfTwo DEF JournalOK
<1>5. journal' = [journal EXCEPT !.commitIndex = n]
  BY <1>1, <1>3, <1>4 DEF setCommitIndex
<1>6. journal'.log = journal.log /\ journal'.commitIndex = n
  BY <1>2, <1>5 DEF JournalOK
<1>7. TermAt(journal.log, n) = T
  BY <1>2, <1>3 DEF LeaderLog, TermAt
<1>8. Cardinality(full) = 0
  BY <1>1, FS_EmptySet
<1>9. quorumSize = 1
  BY <1>8 DEF quorumSize
<1> QED
  BY <1>1, <1>6, <1>7, <1>9

\* A term that has been observed stays.
LEMMA TermNeverDrops ==
    ASSUME ChosenInv, Next, term' = T
    PROVE  term = T
<1>1. term \in Nat /\ T <= term /\ T + 1 \in Nat /\ ~ (T + 1 <= T) /\ T \in Nat
  BY DEF ChosenInv, Chosen, Terms, T
<1>2. CASE term' = term
  BY <1>2
<1>3. ASSUME NEW x \in Nat, observed(x) PROVE term = T
  <2>1. term <= term'
    BY <1>3, TermGrows
  <2> QED BY <1>1, <2>1
<1>4. CASE \E t \in Target : ReadAnswer(t) \/ MonitorAck(t)
  <2>1. PICK t \in Target : ReadAnswer(t) \/ MonitorAck(t)
    BY <1>4
  <2>2. PICK i : i = Head(inFlight[t]) /\ observed(i.answer.term)
    BY <2>1 DEF ReadAnswer, MonitorAck
  <2>3. i.answer.term \in Nat
    BY <2>1, <2>2, AwaitedTerm
  <2> QED BY <1>3, <2>2, <2>3
<1>5. CASE \E t \in Target : ReadHeartbeatReply(t)
  <2>1. PICK t \in Target : observed(beat[t].term)
    BY <1>5 DEF ReadHeartbeatReply
  <2> QED BY <1>3, <2>1, ChosenFacts
<1>6. CASE LeaseExpired \/ \E t \in Target : Halt(t)
  <2>1. observed(T + 1)
    BY <1>6 DEF LeaseExpired, Halt
  <2> QED BY <1>1, <1>3, <2>1
<1>7. CASE \E t \in Target : \E x \in Members : Overwrite(t, x)
  BY <1>1, <1>2, <1>7 DEF Overwrite
<1>8. CASE \E t \in Target : \E voters \in SUBSET Members : Elect(t, voters)
  <2>1. PICK voters : term' = IF Leader \in voters THEN T + 1 ELSE term
    BY <1>8 DEF Elect
  <2> QED BY <1>1, <1>2, <2>1
<1>9. ASSUME NEW t \in Target,
             \/ StartStreaming(t) \/ BeginRound(t) \/ ReadCommitIndex(t) \/ SendPayload(t) \/ PayloadThrows(t)
             \/ LeaveStreaming(t) \/ Finish(t) \/ (\E b \in BOOLEAN : NoAnswer(t, b)) \/ MonitorLost(t)
             \/ SendHeartbeat(t) \/ LoseHeartbeat(t) \/ HandleHeartbeat(t) \/ HandleRequest(t) \/ HandleOldRequest(t)
             \/ (\E ok \in BOOLEAN : EndResilvering(t, ok)) \/ (\E k \in 0..Len(reqs[t]) : Break(t, k))
             \/ Reconfigure(t) \/ CommitNext(t)
      PROVE  term' = term
  BY <1>9 DEF StartStreaming, BeginRound, ReadCommitIndex, SendPayload, PayloadThrows, LeaveStreaming, Finish, NoAnswer, MonitorLost,
              SendHeartbeat, LoseHeartbeat, HandleHeartbeat, HandleRequest, HandleOldRequest, EndResilvering, Break, Reconfigure, CommitNext
<1>10. ASSUME AutoCommit \/ Deactivate \/ Write \/ Tick PROVE term' = term
  BY <1>10 DEF AutoCommit, Deactivate, Write, Tick
<1>11. ASSUME NEW t \in Target, Main(t) \/ NoAnswer(t, TRUE) \/ Monitor(t) PROVE term = T
  BY <1>2, <1>4, <1>6, <1>9, <1>11 DEF Main, Monitor
<1> QED
  BY <1>2, <1>4, <1>5, <1>6, <1>7, <1>8, <1>9, <1>10, <1>11 DEF Next

\* No other step of a leader moves its commit index.
LEMMA CommitMoves ==
    ASSUME ChosenInv, [Next]_vars, term' = T, journal'.commitIndex > journal.commitIndex
    PROVE  term = T /\ (AutoCommit \/ \E t \in Target : ReadAnswer(t) \/ MonitorAck(t))
<1>1. term = T
  <2>1. CASE UNCHANGED vars
    BY <2>1 DEF vars
  <2>2. CASE Next
    BY <2>2, TermNeverDrops
  <2> QED BY <2>1, <2>2
<1>2. JournalOK
  BY <1>1 DEF ChosenInv, Chosen
<1>3. journal'.commitIndex # journal.commitIndex /\ journal' # journal
  BY <1>2 DEF JournalOK
<1>4. ASSUME NEW t \in Target, Main(t) \/ Monitor(t) \/ NoAnswer(t, TRUE)
      PROVE  ReadAnswer(t) \/ MonitorAck(t)
  BY <1>3, <1>4 DEF Main, Monitor, StartStreaming, BeginRound, ReadCommitIndex, SendPayload, Halt, PayloadThrows, LeaveStreaming,
                    Finish, NoAnswer, MonitorLost
<1>5. ASSUME NEW t \in Target,
             \/ SendHeartbeat(t) \/ ReadHeartbeatReply(t) \/ LoseHeartbeat(t) \/ HandleHeartbeat(t)
             \/ HandleRequest(t) \/ HandleOldRequest(t) \/ (\E ok \in BOOLEAN : EndResilvering(t, ok))
             \/ (\E k \in 0..Len(reqs[t]) : Break(t, k)) \/ CommitNext(t) \/ (\E voters \in SUBSET Members : Elect(t, voters))
      PROVE  FALSE
  BY <1>3, <1>5 DEF SendHeartbeat, ReadHeartbeatReply, LoseHeartbeat, HandleHeartbeat, HandleRequest, HandleOldRequest,
                    EndResilvering, Break, CommitNext, Elect
<1>6. ASSUME NEW t \in Target, NEW x \in Members, Overwrite(t, x) PROVE FALSE
  <2>1. CASE x = Leader
    <3>1. term' = T + 1
      BY <1>6, <2>1 DEF Overwrite
    <3> QED BY <3>1 DEF T
  <2>2. CASE x # Leader
    BY <1>3, <1>6, <2>2 DEF Overwrite
  <2> QED BY <2>1, <2>2
<1>7. ASSUME Write \/ \E t \in Target : Reconfigure(t) PROVE FALSE
  <2>1. PICK w : journal' = [journal EXCEPT !.log = w]
    BY <1>7 DEF Write, Reconfigure
  <2>2. journal'.commitIndex = journal.commitIndex
    BY <1>2, <2>1 DEF JournalOK
  <2> QED BY <1>3, <2>2
<1>8. ASSUME LeaseExpired \/ Deactivate \/ Tick PROVE FALSE
  BY <1>3, <1>8 DEF LeaseExpired, Deactivate, Tick
<1>9. ASSUME UNCHANGED vars PROVE FALSE
  BY <1>3, <1>9 DEF vars
<1> QED
  BY <1>1, <1>4, <1>5, <1>6, <1>7, <1>8, <1>9 DEF Next

\* What the step of CommitsOnlyChosen says.
MovesToChosen ==
    (term' = T /\ journal'.commitIndex > journal.commitIndex) =>
        LET c == journal'.commitIndex
        IN  /\ TermAt(journal'.log, c) = T
            /\ Cardinality({t \in full : Len(node[t].log) > c
                  /\ SubSeq(node[t].log, 1, c + 1) = SubSeq(journal'.log, 1, c + 1)}) + 1 >= quorumSize

LEMMA CommitSteps ==
    ASSUME ChosenInv, ChosenInv', [Next]_vars,
           (ChosenInv /\ term = T /\ full # {} /\ recalculateCommitIndex(match) > 0 => ChosenAt(recalculateCommitIndex(match)))'
    PROVE  MovesToChosen
<1> SUFFICES ASSUME term' = T, journal'.commitIndex > journal.commitIndex
             PROVE  LET c == journal'.commitIndex
                    IN  /\ TermAt(journal'.log, c) = T
                        /\ Cardinality({t \in full : Len(node[t].log) > c
                              /\ SubSeq(node[t].log, 1, c + 1) = SubSeq(journal'.log, 1, c + 1)}) + 1 >= quorumSize
  BY DEF MovesToChosen
<1>1. term = T /\ (AutoCommit \/ \E t \in Target : ReadAnswer(t) \/ MonitorAck(t))
  BY CommitMoves
<1>2. PICK c : c = journal'.commitIndex
  OBVIOUS
<1>3. CASE AutoCommit
  <2>1. TermAt(journal'.log, c) = T /\ quorumSize = 1 /\ full = {}
    BY <1>2, <1>3, AloneChosen
  <2>2. {t \in full : Len(node[t].log) > c /\ SubSeq(node[t].log, 1, c + 1) = SubSeq(journal'.log, 1, c + 1)} = {}
    BY <2>1
  <2>3. Cardinality({t \in full : Len(node[t].log) > c /\ SubSeq(node[t].log, 1, c + 1) = SubSeq(journal'.log, 1, c + 1)}) = 0
    BY <2>2, FS_EmptySet
  <2> QED BY <1>2, <2>1, <2>3
<1>4. CASE \E t \in Target : ReadAnswer(t) \/ MonitorAck(t)
  <2>1. Counts
    BY <1>1, <1>4, ReadMoves
  <2>2. full # {} /\ full' = full /\ node' = node /\ c = recalculateCommitIndex(match') /\ c > 0
    BY <1>2, <2>1 DEF Counts
  <2>3. quorumSize' = quorumSize
    BY <2>2 DEF quorumSize
  <2>4. recalculateCommitIndex(match)' = c
    BY <2>2, <2>3 DEF recalculateCommitIndex
  <2>5. ChosenAt(c)'
    BY <2>2, <2>4
  <2>6. TermAt(journal'.log, c) = T /\ Cardinality(Storing(c)') + 1 >= quorumSize
    BY <2>3, <2>5 DEF ChosenAt
  <2>7. Storing(c)' = {t \in full : Len(node[t].log) > c /\ SubSeq(node[t].log, 1, c + 1) = SubSeq(journal'.log, 1, c + 1)}
    BY <2>2 DEF Storing
  <2> QED BY <1>2, <2>6, <2>7
<1> QED
  BY <1>1, <1>3, <1>4

\* RaftCommitTracker: for any number of targets and any faults, whatever answers are
\* late, lost or left behind on broken connections, whether targets are streamed to,
\* resilvered or moved to another term, a leader moves its commit index only to an entry
\* of its own term that a quorum of the full nodes stores, with all that precedes it.
THEOREM CommitsOnlyChosenCorrect == Spec => CommitsOnlyChosen
<1>1. Init => ChosenInv
  BY ChosenStarts
<1>2. ChosenInv /\ [Next]_vars => ChosenInv'
  BY ChosenSteps
<1>3. ChosenInv /\ ChosenInv' /\ [Next]_vars
        /\ (ChosenInv /\ term = T /\ full # {} /\ recalculateCommitIndex(match) > 0 => ChosenAt(recalculateCommitIndex(match)))'
      => [MovesToChosen]_vars
  BY CommitSteps
<1>4. Spec => [][MovesToChosen]_vars
  BY <1>1, <1>2, <1>3, QuorumStores, PTL DEF Spec
<1>5. [MovesToChosen]_vars => [(term' = T /\ journal'.commitIndex > journal.commitIndex) =>
        LET c == journal'.commitIndex
        IN  /\ TermAt(journal'.log, c) = T
            /\ Cardinality({t \in full : Len(node[t].log) > c
                  /\ SubSeq(node[t].log, 1, c + 1) = SubSeq(journal'.log, 1, c + 1)}) + 1 >= quorumSize]_vars
  BY DEF MovesToChosen
<1> QED
  BY <1>4, <1>5, PTL DEF CommitsOnlyChosen

=============================================================================
