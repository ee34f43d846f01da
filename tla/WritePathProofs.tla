--------------------------- MODULE WritePathProofs ---------------------------
(***************************************************************************)
(* Theorems about WritePath for any number of connections and requests:    *)
(* queues and blocked writes, what is executed, and what is answered.      *)
(***************************************************************************)
EXTENDS WritePath, FiniteSetTheorems, SequenceTheorems, WellFoundedInduction, TLAPS

-----------------------------------------------------------------------------
(* Queues and blocked writes: the invariant *)

\* A queued request of c: a write is an entry that is not applied yet and whose
\* index leads to c; nothing else has an index.
Waits(c, p) ==
    IF p.kind = "write"
    THEN /\ lastApplied < p.index /\ p.index < LogSize
         /\ log[p.index + 1].tx = [conn |-> c, id |-> p.id]
         /\ p.index \in DOMAIN blocked /\ blocked[p.index] = c
    ELSE p.index = -1

\* A queue starts with a write, and its writes are in the order of the log.
InLine(q) ==
    /\ q # <<>> => q[1].kind = "write"
    /\ \A j, k \in 1..Len(q) :
          j < k /\ q[j].kind = "write" /\ q[k].kind = "write" => q[j].index < q[k].index

QueueInv ==
    \A c \in Conn : InLine(queue[c]) /\ \A k \in 1..Len(queue[c]) : Waits(c, queue[c][k])

\* A blocked index has its write in a queue.
BlockedInv ==
    \A index \in DOMAIN blocked :
        \E k \in 1..Len(queue[blocked[index]]) : queue[blocked[index]][k].index = index

\* The last index of a queue is applied, or still in the queue.
LastInv ==
    \A c \in Conn :
        \/ lastIndex[c] <= lastApplied
        \/ \E k \in 1..Len(queue[c]) : queue[c][k].index = lastIndex[c]

\* Nothing is blocked while appendEntries may cut the log, and the applier works
\* towards an index it has not reached.
LockInv ==
    /\ raftCommand = Handler => DOMAIN blocked = {}
    /\ applying # 0 => lastApplied < applying

PathType == TypeOK /\ blocked \in [DOMAIN blocked -> Conn]

PathInv == PathType /\ QueueInv /\ BlockedInv /\ LastInv /\ LockInv

-----------------------------------------------------------------------------
(* Answers: the invariant *)

InCall(c) == IF call[c].pc = "idle" THEN 0 ELSE 1

\* The number of requests of c that are done with.
Done(c) == issued[c] - InCall(c) - Len(queue[c])

\* The requests are done with, queued and in the call in their order; a client
\* that is there has all answers.
InOrder(sent, q, done, there, idle) ==
    /\ Len(sent) <= done
    /\ there => Len(sent) = done
    /\ ~ there => idle
    /\ \A k \in 1..Len(sent) : sent[k].id = k
    /\ \A k \in 1..Len(q) : q[k].id = done + k /\ q[k].raw.id = done + k

Numbered(c) == InOrder(answers[c], queue[c], Done(c), attached[c], call[c].pc = "idle")

OrderInv == \A c \in Conn : Numbered(c)

-----------------------------------------------------------------------------
(* Execution: the invariant *)

\* The requests of c that are not in a call any more.
Past(c) == issued[c] - InCall(c)

\* A client's entry is of one of its earlier requests, and no other entry is.
LogOnce ==
    /\ \A k \in 1..LogSize : log[k].tx # Foreign =>
          log[k].tx.conn \in Conn /\ log[k].tx.id \in 1..Past(log[k].tx.conn)
    /\ \A k, l \in 1..LogSize : log[k].tx = log[l].tx /\ log[k].tx # Foreign => k = l

\* What is queued and not a write is not in the log.
Unlogged(c, id) == \A l \in 1..LogSize : log[l].tx # [conn |-> c, id |-> id]

OnlyWrites ==
    \A c \in Conn : \A k \in 1..Len(queue[c]) :
        queue[c][k].kind # "write" => Unlogged(c, queue[c][k].id)

\* A positive answer to a write says where it is in the log.
SaysWhere(c, a) ==
    \A l \in 1..LogSize : a.ok /\ log[l].tx = [conn |-> c, id |-> a.id] => a.at = l - 1

AllSay(c, s) == \A k \in 1..Len(s) : SaysWhere(c, s[k])

AnswerAt == \A c \in Conn : AllSay(c, answers[c])

ExecInv == ExecutesLog /\ LogOnce /\ OnlyWrites /\ AnswerAt

-----------------------------------------------------------------------------
(* Reads: the invariant *)

\* No answer is ahead of the state machine, nor behind an earlier one, and only reads
\* of stale readers are executed before their turn.
Behind(s, n) == \A k \in 1..Len(s) : s[k].ok => s[k].at <= n

Monotone(s) == \A k, l \in 1..Len(s) : k < l /\ s[k].ok /\ s[l].ok => s[k].at <= s[l].at

NoneRead(q) == \A k \in 1..Len(q) : ~ q[k].raw.ok

ReadRow(c) == Behind(answers[c], lastApplied) /\ Monotone(answers[c]) /\ NoneRead(queue[c])

ReadInv == \A c \in Conn \ StaleReaders : ReadRow(c)

-----------------------------------------------------------------------------
(* What the operators return *)

\* A nonempty set of naturals has a least element.
LEMMA LeastNat ==
    ASSUME NEW S, S \subseteq Nat, S # {}
    PROVE  \E x \in S : \A y \in S : x <= y
<1>1. PICK x \in S : \A y \in S : ~ (<<y, x>> \in OpToRel(<, Nat))
  BY WFMin, NatLessThanWellFounded
<1>2. \A y \in S : ~ (y < x)
  BY <1>1 DEF OpToRel
<1> QED
  BY <1>2

\* A queue whose first write has this index, and what dispatchPending takes off it.
Due(q, index) ==
    /\ Len(q) > 0 /\ InLine(q) /\ q[1].index = index
    /\ \A k \in 1..Len(q) : q[k].index \in Int /\ (q[k].kind # "write" => q[k].index = -1)

Takes(q, index, n) ==
    /\ n \in 1..Len(q)
    /\ \A k \in 1..n : q[k].kind = "write" <=> k = 1
    /\ n < Len(q) => q[n + 1].kind = "write" /\ q[n + 1].index > index

LEMMA DispatchableTakes ==
    ASSUME NEW q, Len(q) \in Nat, NEW index \in Nat \ {0}, q # <<>>, Due(q, index)
    PROVE  Takes(q, index, Dispatchable(q, index))
<1> DEFINE P(k) == /\ \A x \in 1..k : q[x].index <= index
                   /\ k < Len(q) => q[k + 1].index > index
           Above == {x \in 1..Len(q) : q[x].index > index}
<1>1. \E k \in 0..Len(q) : P(k)
  <2>1. CASE Above = {}
    <3>1. P(Len(q))
      BY <2>1 DEF Due
    <3> QED BY <3>1
  <2>2. CASE Above # {}
    <3>0. Above \subseteq Nat
      OBVIOUS
    <3>1. PICK x \in Above : \A y \in Above : x <= y
      <4> HIDE DEF Above
      <4> QED BY <2>2, <3>0, LeastNat
    <3>2. x \in 1..Len(q) /\ q[x].index > index /\ x - 1 \in 0..Len(q) /\ (x - 1) + 1 = x
      OBVIOUS
    <3>3. \A y \in 1..(x - 1) : q[y].index <= index
      BY <3>1, <3>2 DEF Due
    <3>4. P(x - 1)
      BY <3>2, <3>3
    <3> QED BY <3>2, <3>4
  <2> QED BY <2>1, <2>2
<1>2. PICK n : n = Dispatchable(q, index)
  OBVIOUS
<1>3. n \in 0..Len(q) /\ P(n)
  BY <1>1, <1>2 DEF Dispatchable
<1>4. n # 0
  BY <1>3 DEF Due
<1>5. \A k \in 1..n : q[k].kind = "write" <=> k = 1
  <2> SUFFICES ASSUME NEW k \in 1..n PROVE q[k].kind = "write" <=> k = 1
    OBVIOUS
  <2>1. q[1].kind = "write"
    BY DEF Due, InLine
  <2>2. k # 1 => q[k].kind # "write"
    BY <1>3, <2>1 DEF Due, InLine
  <2> QED BY <2>1, <2>2
<1>6. n < Len(q) => q[n + 1].kind = "write" /\ q[n + 1].index > index
  BY <1>3 DEF Due
<1> QED
  BY <1>2, <1>3, <1>4, <1>5, <1>6 DEF Takes

\* The write at the front is executed, and the requests it was in the way of are
\* answered at its index.
LEMMA DispatchResult ==
    ASSUME NEW q, Len(q) \in Nat, NEW index \in Nat \ {0}, NEW n, n = Dispatchable(q, index), Takes(q, index, n),
           q[1].index = index
    PROVE  /\ DispatchedWrites(q, index) = {1}
           /\ ~ DispatchThrows(q, index)
           /\ Dispatched(q, index) =
                 [k \in 1..n |-> IF q[k].kind = "raw" THEN q[k].raw ELSE Ok(q[k].id, index)]
<1>1. n \in 1..Len(q) /\ 1 \in 1..n
  BY DEF Takes
<1>2. DispatchedWrites(q, index) = {1}
  BY <1>1 DEF DispatchedWrites, Takes
<1>3. ~ DispatchThrows(q, index)
  <2>1. Cardinality({1}) = 1
    BY FS_Singleton
  <2> QED BY <1>2, <2>1 DEF DispatchThrows
<1>4. \A k \in 1..n : \E x \in 1..k : q[x].kind = "write"
  <2> SUFFICES ASSUME NEW k \in 1..n PROVE \E x \in 1..k : q[x].kind = "write"
    OBVIOUS
  <2>1. 1 \in 1..k /\ q[1].kind = "write"
    BY <1>1 DEF Takes
  <2> QED BY <2>1
<1>5. Dispatched(q, index) =
         [k \in 1..n |-> IF q[k].kind = "raw" THEN q[k].raw ELSE Ok(q[k].id, index)]
  BY <1>4 DEF Dispatched
<1> QED
  BY <1>2, <1>3, <1>5

LEMMA ExecutedResult ==
    ASSUME NEW c, NEW index, DispatchedWrites(queue[c], index) = {1}
    PROVE  Executed(c, index) = <<[conn |-> c, id |-> queue[c][1].id]>>
<1>1. (CHOOSE x \in {1} : TRUE) = 1
  OBVIOUS
<1> QED
  BY <1>1 DEF Executed

\* The queue the next blocked write is in waits for it.
LEMMA NextIsDue ==
    ASSUME PathInv, lastApplied + 1 \in DOMAIN blocked
    PROVE  /\ blocked[lastApplied + 1] \in Conn
           /\ Due(queue[blocked[lastApplied + 1]], lastApplied + 1)
<1> DEFINE index == lastApplied + 1
           c == blocked[index]
           q == queue[c]
<1>1. /\ c \in Conn /\ q \in Seq(Pending) /\ Len(q) \in Nat /\ lastApplied \in Nat
  BY DEF PathInv, PathType, TypeOK, lastApplied
<1>2. /\ InLine(q) /\ \A k \in 1..Len(q) : Waits(c, q[k])
  BY <1>1 DEF PathInv, QueueInv
<1>3. PICK x \in 1..Len(q) : q[x].index = index
  BY DEF PathInv, BlockedInv
<1>4. \A k \in 1..Len(q) : q[k] \in Pending
  BY <1>1
<1> HIDE DEF q, c
<1>5. \A k \in 1..Len(q) : /\ q[k].index \in Int
                           /\ q[k].kind # "write" => q[k].index = -1
                           /\ q[k].kind = "write" => q[k].index > lastApplied
  <2> SUFFICES ASSUME NEW k \in 1..Len(q)
               PROVE  /\ q[k].index \in Int
                      /\ q[k].kind # "write" => q[k].index = -1
                      /\ q[k].kind = "write" => q[k].index > lastApplied
    OBVIOUS
  <2>1. PICK p \in Pending : p = q[k]
    BY <1>4
  <2>2. p.index \in Int
    BY DEF Pending
  <2>3. Waits(c, p)
    BY <1>2, <2>1
  <2>4. /\ p.kind # "write" => p.index = -1
        /\ p.kind = "write" => lastApplied < p.index
    BY <2>3, Zenon DEF Waits
  <2> QED BY <1>1, <2>1, <2>2, <2>4
<1>6. q[1].kind = "write" /\ q[x].kind = "write"
  BY <1>1, <1>2, <1>3, <1>5 DEF InLine
<1>7. q[1].index = index
  BY <1>1, <1>2, <1>3, <1>5, <1>6 DEF InLine
<1> QED
  BY <1>1, <1>2, <1>5, <1>7 DEF Due, q, c

-----------------------------------------------------------------------------
(* What the applier does *)

\* The entry that is executed is the next one of the log, wherever it is taken from.
Applies ==
    /\ applying # 0
    /\ lastApplied \in Nat /\ lastApplied + 1 <= applying /\ applying <= commitIndex
    /\ applied' = Append(applied, log[lastApplied + 2].tx)
    /\ Len(applied') = lastApplied + 1
    /\ applying' = IF lastApplied + 1 = applying THEN 0 ELSE applying
    /\ UNCHANGED <<raft, director, raftCommand, handlerTerm, lastIndex, attached, call, issued>>

\* The first n requests of c leave their queue.
Leaves(c, n) ==
    /\ n \in 1..Len(queue[c])
    /\ queue' \in [Conn -> Seq(Pending)]
    /\ Len(queue'[c]) = Len(queue[c]) - n
    /\ \A k \in 1..Len(queue'[c]) : queue'[c][k] = queue[c][n + k]
    /\ \A d \in Conn \ {c} : queue'[d] = queue[d]

DispatchedAnswers(c, n) ==
    [k \in 1..n |-> IF queue[c][k].kind = "raw" THEN queue[c][k].raw
                    ELSE Ok(queue[c][k].id, lastApplied + 1)]

Dispatches(c, n) ==
    /\ lastApplied + 1 \in DOMAIN blocked /\ blocked[lastApplied + 1] = c
    /\ queue[c][1].index = lastApplied + 1
    /\ Takes(queue[c], lastApplied + 1, n)
    /\ Leaves(c, n)
    /\ answers' = Send(c, DispatchedAnswers(c, n))
    /\ blocked' \in [DOMAIN blocked \ {lastApplied + 1} -> Conn]
    /\ \A x \in DOMAIN blocked \ {lastApplied + 1} : blocked'[x] = blocked[x]

LEMMA QueueFacts ==
    ASSUME PathInv, NEW c \in Conn
    PROVE  /\ queue[c] \in Seq(Pending) /\ Len(queue[c]) \in Nat /\ InLine(queue[c])
           /\ \A k \in 1..Len(queue[c]) : queue[c][k] \in Pending /\ Waits(c, queue[c][k])
<1>1. queue[c] \in Seq(Pending)
  BY DEF PathInv, PathType, TypeOK
<1>2. InLine(queue[c]) /\ \A k \in 1..Len(queue[c]) : Waits(c, queue[c][k])
  BY DEF PathInv, QueueInv
<1> QED
  BY <1>1, <1>2

LEMMA TailLeaves ==
    ASSUME queue \in [Conn -> Seq(Pending)], NEW c \in Conn, NEW n \in 1..Len(queue[c]),
           queue' = [queue EXCEPT ![c] = SubSeq(queue[c], n + 1, Len(queue[c]))]
    PROVE  Leaves(c, n)
<1>1. PICK q : q = queue[c]
  OBVIOUS
<1>2. PICK r : r = SubSeq(q, n + 1, Len(q))
  OBVIOUS
<1>3. q \in Seq(Pending) /\ Len(q) \in Nat /\ n \in 1..Len(q)
  BY <1>1
<1>4. \A i \in (n + 1)..Len(q) : q[i] \in Pending
  BY <1>3
<1>5. /\ r \in Seq(Pending)
      /\ Len(r) = IF n + 1 <= Len(q) THEN Len(q) - (n + 1) + 1 ELSE 0
      /\ \A k \in 1..(Len(q) - (n + 1) + 1) : r[k] = q[n + 1 + k - 1]
  BY <1>2, <1>3, <1>4, SubSeqProperties
<1>6. Len(r) = Len(q) - n
  BY <1>3, <1>5
<1>7. \A k \in 1..Len(r) : r[k] = q[n + k]
  <2> SUFFICES ASSUME NEW k \in 1..Len(r) PROVE r[k] = q[n + k]
    OBVIOUS
  <2>1. k \in 1..(Len(q) - (n + 1) + 1) /\ n + 1 + k - 1 = n + k
    BY <1>3, <1>6
  <2> QED BY <1>5, <2>1
<1>8. queue'[c] = r /\ \A d \in Conn \ {c} : queue'[d] = queue[d]
  BY <1>1, <1>2
<1>9. queue' \in [Conn -> Seq(Pending)]
  BY <1>1, <1>2, <1>5
<1> QED
  BY <1>1, <1>3, <1>6, <1>7, <1>8, <1>9 DEF Leaves

LEMMA ApplyResult ==
    ASSUME PathInv, ApplyCommit
    PROVE  /\ Applies
           /\ \/ UNCHANGED <<answers, queue, blocked>> /\ lastApplied + 1 \notin DOMAIN blocked
              \/ \E c \in Conn, n \in Nat : Dispatches(c, n)
<1> DEFINE index == lastApplied + 1
<1>1. /\ lastApplied \in Nat /\ applied \in Seq(Tx) /\ log \in Seq(Entry) /\ Len(log) \in Nat
      /\ applying \in 0..commitIndex /\ commitIndex \in 0..(Len(log) - 1)
      /\ DOMAIN blocked \subseteq 1..(Len(log) - 1) /\ blocked \in [DOMAIN blocked -> Conn]
      /\ queue \in [Conn -> Seq(Pending)]
  BY DEF PathInv, PathType, TypeOK, lastApplied, LogSize
<1>2. applying # 0 /\ lastApplied < applying
  BY DEF ApplyCommit, PathInv, LockInv
<1>3. log[index + 1].tx \in Tx
  <2>1. log[index + 1] \in Entry
    BY <1>1, <1>2
  <2> QED BY <2>1 DEF Entry
<1>4. ASSUME applied' = Append(applied, log[index + 1].tx) PROVE Applies
  <2>1. index + 1 = lastApplied + 2
    BY <1>1
  <2>2. Len(applied') = lastApplied + 1
    BY <1>1, <1>3, <1>4 DEF lastApplied
  <2>3. /\ applying' = IF index = applying THEN 0 ELSE applying
        /\ UNCHANGED <<raft, director, raftCommand, handlerTerm, lastIndex, attached, call, issued>>
    BY DEF ApplyCommit
  <2> QED BY <1>1, <1>2, <1>4, <2>1, <2>2, <2>3 DEF Applies
<1>5. CASE index \notin DOMAIN blocked
  <2>1. applied' = Append(applied, log[index + 1].tx) /\ UNCHANGED <<answers, queue, blocked>>
    BY <1>5 DEF ApplyCommit
  <2> QED BY <1>4, <1>5, <2>1
<1>6. CASE index \in DOMAIN blocked
  <2>1. PICK c : c = blocked[index]
    OBVIOUS
  <2>2. PICK n : n = Dispatchable(queue[c], index)
    OBVIOUS
  <2>3. c \in Conn /\ Due(queue[c], index) /\ index \in Nat \ {0}
    BY <1>1, <1>6, <2>1, NextIsDue
  <2>4. queue[c] \in Seq(Pending) /\ Len(queue[c]) \in Nat /\ queue[c] # <<>> /\ queue[c][1].index = index
    BY <1>1, <2>3 DEF Due
  <2>5. Takes(queue[c], index, n)
    BY <2>2, <2>3, <2>4, DispatchableTakes
  <2>6. /\ DispatchedWrites(queue[c], index) = {1}
        /\ Dispatched(queue[c], index) = DispatchedAnswers(c, n)
    <3>1. PICK q : q = queue[c]
      OBVIOUS
    <3>2. PICK i \in Nat \ {0} : i = index
      BY <2>3
    <3>3. Len(q) \in Nat /\ n = Dispatchable(q, i) /\ Takes(q, i, n) /\ q[1].index = i
      BY <2>2, <2>4, <2>5, <3>1, <3>2
    <3> HIDE DEF index
    <3>4. /\ DispatchedWrites(q, i) = {1}
          /\ Dispatched(q, i) =
                [k \in 1..n |-> IF q[k].kind = "raw" THEN q[k].raw ELSE Ok(q[k].id, i)]
      BY <3>3, DispatchResult
    <3> QED BY <3>1, <3>2, <3>4 DEF DispatchedAnswers, index
  <2>7. /\ applied' = applied \o Executed(c, index)
        /\ answers' = Send(c, Dispatched(queue[c], index))
        /\ queue' = [queue EXCEPT ![c] = SubSeq(queue[c], n + 1, Len(queue[c]))]
        /\ blocked' = LET popped == Restrict(blocked, DOMAIN blocked \ {index}) IN
                      IF n < Len(queue[c]) THEN insertBlocked(popped, queue[c][n + 1].index, c)
                      ELSE popped
    BY <1>6, <2>1, <2>2 DEF ApplyCommit
  <2>8. n \in 1..Len(queue[c]) /\ 1 \in 1..Len(queue[c]) /\ queue[c][1].kind = "write"
    BY <2>4, <2>5 DEF Takes
  <2>9. log[index + 1].tx = [conn |-> c, id |-> queue[c][1].id]
    BY <2>3, <2>4, <2>8, QueueFacts DEF Waits
  <2>10. applied' = Append(applied, log[index + 1].tx)
    <3>1. applied' = applied \o <<log[index + 1].tx>>
      BY <2>6, <2>7, <2>9, ExecutedResult
    <3> QED BY <1>1, <1>3, <3>1
  <2>11. Leaves(c, n)
    BY <1>1, <2>3, <2>7, <2>8, TailLeaves
  <2>12. /\ blocked' \in [DOMAIN blocked \ {index} -> Conn]
         /\ \A x \in DOMAIN blocked \ {index} : blocked'[x] = blocked[x]
    <3> DEFINE popped == Restrict(blocked, DOMAIN blocked \ {index})
    <3>1. /\ popped \in [DOMAIN blocked \ {index} -> Conn]
          /\ \A x \in DOMAIN blocked \ {index} : popped[x] = blocked[x]
      BY <1>1 DEF Restrict
    <3>2. CASE n < Len(queue[c])
      <4>1. PICK next : next = queue[c][n + 1].index
        OBVIOUS
      <4>2. n + 1 \in 1..Len(queue[c]) /\ queue[c][n + 1].kind = "write" /\ next > index
        BY <2>4, <2>5, <2>8, <3>2, <4>1 DEF Takes
      <4>3. next \in DOMAIN blocked /\ blocked[next] = c
        BY <2>3, <4>1, <4>2, QueueFacts DEF Waits
      <4>4. next # index
        BY <1>1, <4>2, <4>3
      <4>5. blocked' = insertBlocked(popped, next, c)
        BY <2>7, <3>2, <4>1
      <4> HIDE DEF popped
      <4>6. DOMAIN popped \cup {next} = DOMAIN blocked \ {index}
        BY <3>1, <4>3, <4>4
      <4> QED BY <2>3, <3>1, <4>3, <4>4, <4>5, <4>6 DEF insertBlocked
    <3>3. CASE ~ (n < Len(queue[c]))
      BY <2>7, <3>1, <3>3
    <3> QED BY <3>2, <3>3
  <2>13. Dispatches(c, n)
    BY <1>6, <2>1, <2>4, <2>5, <2>6, <2>7, <2>11, <2>12 DEF Dispatches
  <2> QED BY <1>4, <2>3, <2>8, <2>10, <2>13
<1> QED
  BY <1>5, <1>6

-----------------------------------------------------------------------------
(* The kinds of steps *)

\* A response that is ready is sent, when nothing is queued, or else waits.
RespondsNow(c, a) ==
    /\ queue[c] = <<>> /\ UNCHANGED queue
    /\ a \in Answer /\ a.id = issued[c] /\ (a.ok => a.at = lastApplied)
    /\ answers' = Send(c, <<a>>)

RespondsLater(c, p) ==
    /\ queue[c] # <<>> /\ UNCHANGED answers
    /\ p \in Pending /\ p.kind # "write" /\ p.index = -1
    /\ p.id = issued[c] /\ p.raw.id = issued[c] /\ (p.raw.ok => c \in StaleReaders)
    /\ queue' = [queue EXCEPT ![c] = Append(queue[c], p)]

Responds(c) ==
    /\ call[c].pc # "idle"
    /\ (\E a \in Answer : RespondsNow(c, a)) \/ (\E p \in Pending : RespondsLater(c, p))
    /\ Return(c)
    /\ UNCHANGED <<raft, applied, director, handlerTerm, applying, blocked,
                   lastIndex, attached, issued>>

LEMMA AppendResponseResult ==
    ASSUME PathInv, NEW c \in Conn, NEW a \in Answer, a.id = issued[c], a.ok => a.at = lastApplied /\ c \in StaleReaders,
           appendResponse(c, a)
    PROVE  RespondsNow(c, a) \/ \E p \in Pending : RespondsLater(c, p)
<1>1. CASE queue[c] = <<>>
  BY <1>1 DEF appendResponse, RespondsNow
<1>2. CASE queue[c] # <<>>
  <2>1. PICK p : p = [id |-> a.id, kind |-> "raw", index |-> -1, raw |-> a]
    OBVIOUS
  <2>2. a.id \in Nat
    BY DEF Answer
  <2>3. p \in Pending
    BY <2>1, <2>2 DEF Pending
  <2>4. queue' = [queue EXCEPT ![c] = Append(queue[c], p)] /\ UNCHANGED answers
    BY <1>2, <2>1 DEF appendResponse
  <2>5. RespondsLater(c, p)
    BY <1>2, <2>1, <2>3, <2>4 DEF RespondsLater
  <2> QED BY <2>3, <2>5
<1> QED
  BY <1>1, <1>2

LEMMA ReadResult ==
    ASSUME PathInv, NEW c \in Conn, addPendingRead(c, issued[c])
    PROVE  (\E a \in Answer : RespondsNow(c, a)) \/ (\E p \in Pending : RespondsLater(c, p))
<1>0. issued[c] \in Nat /\ lastApplied \in Nat
  BY DEF PathInv, PathType, TypeOK, lastApplied
<1>1. CASE queue[c] = <<>>
  <2>1. PICK a : a = Ok(issued[c], lastApplied)
    OBVIOUS
  <2>2. a \in Answer /\ a.id = issued[c] /\ a.at = lastApplied
    BY <1>0, <2>1 DEF Answer, Ok
  <2>3. RespondsNow(c, a)
    BY <1>1, <2>1, <2>2 DEF addPendingRead, RespondsNow
  <2> QED BY <2>2, <2>3
<1>2. CASE queue[c] # <<>>
  <2>1. PICK p : p = [id |-> issued[c], kind |-> "read", index |-> -1, raw |-> Err(issued[c])]
    OBVIOUS
  <2>2. Err(issued[c]) \in Answer /\ Err(issued[c]).id = issued[c] /\ Err(issued[c]).ok = FALSE
    BY <1>0 DEF Answer, Err
  <2>3. p \in Pending
    BY <1>0, <2>1, <2>2 DEF Pending, Kind
  <2>4. queue' = [queue EXCEPT ![c] = Append(queue[c], p)] /\ UNCHANGED answers
    BY <1>2, <2>1 DEF addPendingRead
  <2>5. RespondsLater(c, p)
    BY <1>2, <2>1, <2>2, <2>3, <2>4 DEF RespondsLater
  <2> QED BY <2>3, <2>5
<1> QED
  BY <1>1, <1>2

LEMMA ServiceResponds ==
    ASSUME PathInv, NEW c \in Conn, NotLeader(c) \/ ServeRead(c)
    PROVE  Responds(c)
<1>0. issued[c] \in Nat /\ lastApplied \in Nat
  BY DEF PathInv, PathType, TypeOK, lastApplied
<1>1. CASE ServeRead(c)
  <2>1. call[c].pc # "idle" /\ addPendingRead(c, issued[c])
    BY <1>1 DEF ServeRead, CanProceed
  <2> QED BY <1>1, <2>1, ReadResult DEF ServeRead, Responds
<1>2. CASE NotLeader(c)
  <2>1. /\ Err(issued[c]) \in Answer /\ Err(issued[c]).id = issued[c] /\ Err(issued[c]).ok = FALSE
        /\ Ok(issued[c], lastApplied) \in Answer /\ Ok(issued[c], lastApplied).id = issued[c]
        /\ Ok(issued[c], lastApplied).at = lastApplied
    BY <1>0 DEF Answer, Err, Ok
  <2>2. call[c].pc # "idle"
    BY <1>2 DEF NotLeader
  <2>3. \/ appendResponse(c, Err(issued[c]))
        \/ appendResponse(c, Ok(issued[c], lastApplied)) /\ c \in StaleReaders
    BY <1>2 DEF NotLeader
  <2>4. (\E a \in Answer : RespondsNow(c, a)) \/ (\E p \in Pending : RespondsLater(c, p))
    <3>1. CASE appendResponse(c, Err(issued[c]))
      BY <2>1, <3>1, AppendResponseResult
    <3>2. CASE appendResponse(c, Ok(issued[c], lastApplied)) /\ c \in StaleReaders
      BY <2>1, <3>2, AppendResponseResult
    <3> QED BY <2>3, <3>1, <3>2
  <2> QED BY <1>2, <2>2, <2>4 DEF NotLeader, Responds
<1> QED
  BY <1>1, <1>2

\* A flush answers and empties every queue, since what is queued waits for a write.
Flushes ==
    /\ queue' = [c \in Conn |-> <<>>]
    /\ blocked' = <<>>
    /\ lastIndex' \in [Conn -> Nat \cup {-1}] /\ \A c \in Conn : lastIndex'[c] <= lastApplied
    /\ answers' = [c \in Conn |-> IF attached[c] THEN answers[c] \o flushPending(queue[c]) ELSE answers[c]]
    /\ UNCHANGED <<raft, applied, applying, attached, call, issued>>

LEMMA FlushPendingResult ==
    ASSUME NEW q \in Seq(Pending)
    PROVE  /\ flushPending(q) \in Seq(Answer) /\ Len(flushPending(q)) = Len(q)
           /\ \A k \in 1..Len(q) : flushPending(q)[k] = IF q[k].kind = "raw" THEN q[k].raw ELSE Err(q[k].id)
<1>1. \A k \in 1..Len(q) : q[k].raw \in Answer /\ q[k].id \in Nat
  <2> SUFFICES ASSUME NEW k \in 1..Len(q) PROVE q[k].raw \in Answer /\ q[k].id \in Nat
    OBVIOUS
  <2>1. q[k] \in Pending
    OBVIOUS
  <2> QED BY <2>1 DEF Pending
<1>2. \A k \in 1..Len(q) : Err(q[k].id) \in Answer
  BY <1>1 DEF Err, Answer
<1>3. Len(q) \in Nat
  OBVIOUS
<1>4. flushPending(q) \in [1..Len(q) -> Answer]
  BY <1>1, <1>2 DEF flushPending
<1>5. flushPending(q) \in Seq(Answer) /\ Len(flushPending(q)) = Len(q)
  BY <1>3, <1>4
<1> QED
  BY <1>5 DEF flushPending

LEMMA FlushResult ==
    ASSUME PathInv, flushQueues, UNCHANGED <<raft, applied, applying, attached, call, issued>>
    PROVE  Flushes
<1>1. /\ queue \in [Conn -> Seq(Pending)] /\ answers \in [Conn -> Seq(Answer)]
      /\ lastIndex \in [Conn -> Nat \cup {-1}] /\ lastApplied \in Nat
      /\ blocked \in [DOMAIN blocked -> Conn]
  BY DEF PathInv, PathType, TypeOK, lastApplied
<1>2. \A c \in Conn : c \notin Range(blocked) => queue[c] = <<>>
  <2> SUFFICES ASSUME NEW c \in Conn, queue[c] # <<>> PROVE c \in Range(blocked)
    OBVIOUS
  <2>1. 1 \in 1..Len(queue[c]) /\ queue[c][1].kind = "write"
    BY <1>1, QueueFacts DEF InLine
  <2>2. queue[c][1].index \in DOMAIN blocked /\ blocked[queue[c][1].index] = c
    BY <2>1, QueueFacts DEF Waits
  <2> QED BY <2>2 DEF Range
<1>3. queue' = [c \in Conn |-> <<>>]
  BY <1>2 DEF flushQueues
<1>4. \A c \in Conn : lastIndex'[c] \in Nat \cup {-1} /\ lastIndex'[c] <= lastApplied
  <2> SUFFICES ASSUME NEW c \in Conn PROVE lastIndex'[c] \in Nat \cup {-1} /\ lastIndex'[c] <= lastApplied
    OBVIOUS
  <2>1. lastIndex'[c] = IF c \in Range(blocked) THEN -1 ELSE lastIndex[c]
    BY DEF flushQueues
  <2>2. CASE c \in Range(blocked)
    BY <1>1, <2>1, <2>2
  <2>3. CASE c \notin Range(blocked)
    <3>1. Len(queue[c]) = 0
      BY <1>2, <2>3
    <3>2. lastIndex[c] <= lastApplied
      BY <3>1 DEF PathInv, LastInv
    <3> QED BY <1>1, <2>1, <2>3, <3>2
  <2> QED BY <2>2, <2>3
<1>5. lastIndex' \in [Conn -> Nat \cup {-1}]
  BY <1>4 DEF flushQueues
<1>6. \A c \in Conn : answers'[c] = IF attached[c] THEN answers[c] \o flushPending(queue[c]) ELSE answers[c]
  <2> SUFFICES ASSUME NEW c \in Conn
               PROVE  answers'[c] = IF attached[c] THEN answers[c] \o flushPending(queue[c]) ELSE answers[c]
    OBVIOUS
  <2>1. answers'[c] = IF c \in Range(blocked) /\ attached[c] THEN answers[c] \o flushPending(queue[c]) ELSE answers[c]
    BY DEF flushQueues
  <2>2. CASE c \in Range(blocked)
    BY <2>1, <2>2
  <2>3. CASE c \notin Range(blocked)
    <3>1. queue[c] = <<>> /\ <<>> \in Seq(Pending)
      BY <1>2, <2>3
    <3>2. flushPending(queue[c]) \in Seq(Answer) /\ Len(flushPending(queue[c])) = 0
      BY <3>1, FlushPendingResult
    <3>3. flushPending(queue[c]) = <<>>
      BY <3>2
    <3>4. answers[c] \o <<>> = answers[c]
      BY <1>1
    <3> QED BY <2>1, <2>3, <3>3, <3>4
  <2> QED BY <2>2, <2>3
<1>7. answers' = [c \in Conn |-> IF attached[c] THEN answers[c] \o flushPending(queue[c]) ELSE answers[c]]
  <2>1. DOMAIN answers' = Conn /\ answers' = [c \in Conn |-> answers'[c]]
    BY DEF flushQueues
  <2> QED BY <1>6, <2>1
<1> QED
  BY <1>3, <1>4, <1>5, <1>7 DEF Flushes, flushQueues

\* appendEntries cuts what is not committed, and nothing waits for it.
Cuts ==
    /\ raftCommand = Handler /\ raftCommand' = Nobody
    /\ log' \in Seq(Entry) /\ commitIndex' \in commitIndex..(Len(log') - 1)
    /\ \A k \in 1..(commitIndex + 1) : log'[k] = log[k]
    /\ \A k \in 1..Len(log') : (k <= LogSize /\ log'[k] = log[k]) \/ log'[k].tx = Foreign
    /\ UNCHANGED <<applied, applying, blocked, clients>>

LEMMA CutResult ==
    ASSUME PathInv, NEW first \in (commitIndex + 1)..LogSize, NEW n \in 0..2,
           NEW index \in commitIndex..(LogSize + 1), AppendFinish(first, n, index)
    PROVE  Cuts
<1> DEFINE entries == [k \in 1..n |-> [term |-> handlerTerm, tx |-> Foreign]]
           new == IF n = 0 THEN log ELSE SubSeq(log, 1, first) \o entries
<1>1. /\ log \in Seq(Entry) /\ LogSize \in Nat /\ LogSize = Len(log) /\ commitIndex \in 0..(LogSize - 1) /\ handlerTerm \in Nat
      /\ first \in 1..LogSize
  BY DEF PathInv, PathType, TypeOK, LogSize
<1>2. [term |-> handlerTerm, tx |-> Foreign] \in Entry
  BY <1>1 DEF Entry, Tx, Foreign
<1>3. entries \in Seq(Entry) /\ Len(entries) = n /\ n \in Nat
  BY <1>2
<1>4. PICK s : s = SubSeq(log, 1, first)
  OBVIOUS
<1>5. s \in Seq(Entry) /\ Len(s) = first /\ \A k \in 1..first : s[k] = log[k]
  BY <1>1, <1>4
<1>6. PICK m : m = new
  OBVIOUS
<1>7. /\ m \in Seq(Entry)
      /\ \A k \in 1..(commitIndex + 1) : m[k] = log[k]
      /\ \A k \in 1..Len(m) : (k <= LogSize /\ m[k] = log[k]) \/ m[k].tx = Foreign
  <2>1. CASE n = 0
    BY <1>1, <1>6, <2>1
  <2>2. CASE n # 0
    <3>1. m = s \o entries
      BY <1>4, <1>6, <2>2
    <3>2. \A k \in 1..n : entries[k].tx = Foreign
      OBVIOUS
    <3> HIDE DEF entries, new
    <3>3. /\ m \in Seq(Entry) /\ Len(m) = first + n
          /\ \A k \in 1..(first + n) : m[k] = IF k <= first THEN s[k] ELSE entries[k - first]
      BY <1>1, <1>3, <1>5, <3>1, SMTT(30)
    <3>4. \A k \in 1..first : m[k] = log[k]
      BY <1>1, <1>5, <3>3
    <3>5. \A k \in 1..Len(m) : (k <= LogSize /\ m[k] = log[k]) \/ m[k].tx = Foreign
      <4> SUFFICES ASSUME NEW k \in 1..Len(m), ~ (k <= first) PROVE m[k].tx = Foreign
        BY <1>1, <3>3, <3>4
      <4>1. k - first \in 1..n
        BY <1>1, <1>3, <3>3
      <4> QED BY <3>2, <3>3, <4>1
    <3> QED BY <1>1, <3>3, <3>4, <3>5
  <2> QED BY <2>1, <2>2
<1>8. log' = m /\ commitIndex' = index /\ index < Len(m)
  BY <1>6 DEF AppendFinish
<1>9. commitIndex' \in commitIndex..(Len(log') - 1)
  BY <1>1, <1>7, <1>8
<1>10. /\ raftCommand = Handler /\ raftCommand' = Nobody
       /\ UNCHANGED <<applied, applying, blocked, clients>>
  BY DEF AppendFinish
<1> QED
  BY <1>7, <1>8, <1>9, <1>10 DEF Cuts

\* Steps that leave the queues alone: a call goes on, a request comes in, a client
\* leaves, leadership and commits change.
CallGoesOn(c) ==
    \/ /\ issued'[c] = issued[c] /\ (call'[c].pc = "idle" <=> call[c].pc = "idle")
       /\ attached'[c] = attached[c]
    \/ /\ attached[c] /\ attached'[c] = attached[c]
       /\ call[c].pc = "idle" /\ call'[c].pc # "idle" /\ issued'[c] = issued[c] + 1
    \/ /\ call[c].pc = "idle" /\ call'[c] = call[c]
       /\ issued'[c] = issued[c] /\ attached'[c] = FALSE

LogGrows ==
    /\ log' \in Seq(Entry) /\ Len(log') >= LogSize
    /\ \A k \in 1..LogSize : log'[k] = log[k]
    /\ \A k \in (LogSize + 1)..Len(log') : log'[k].tx = Foreign
    /\ commitIndex' \in commitIndex..(Len(log') - 1)

Calms ==
    /\ UNCHANGED <<queue, answers, lastIndex, blocked, applied>>
    /\ LogGrows
    /\ raftCommand' = Handler => raftCommand = Handler
    /\ applying' \in 0..commitIndex' /\ (applying' # 0 => lastApplied < applying')
    /\ \A c \in Conn : CallGoesOn(c)

LEMMA LogStays ==
    ASSUME PathInv, log' = log, commitIndex' \in commitIndex..(LogSize - 1)
    PROVE  LogGrows
<1>1. log \in Seq(Entry) /\ Len(log) \in Nat
  BY DEF PathInv, PathType, TypeOK
<1> QED
  BY <1>1 DEF LogGrows, LogSize

LEMMA CalmCalls ==
    ASSUME PathInv, NEW c \in Conn,
           \/ \E kind \in Kind : Receive(c, kind)
           \/ TakeSnapshot(c) \/ StartOver(c) \/ PrepareWrite(c) \/ RetryWrite(c) \/ Disconnect(c)
    PROVE  Calms
<1>1. /\ call \in [Conn -> Call] /\ issued \in [Conn -> Nat] /\ attached \in [Conn -> BOOLEAN]
      /\ commitIndex \in 0..(LogSize - 1) /\ applying \in 0..commitIndex
      /\ (applying # 0 => lastApplied < applying)
  BY DEF PathInv, PathType, TypeOK, LockInv
<1>2. \A d \in Conn : call[d] \in Call
  BY <1>1
<1>3. commitIndex \in commitIndex..(LogSize - 1) /\ applying <= commitIndex
  BY <1>1 DEF LogSize
<1>4. UNCHANGED <<queue, answers, lastIndex, blocked, applied, log, commitIndex, applying>>
  BY DEF Receive, TakeSnapshot, StartOver, PrepareWrite, RetryWrite, Disconnect, raft
<1>5. LogGrows
  BY <1>3, <1>4, LogStays
<1>6. raftCommand' = Handler => raftCommand = Handler
  BY ConnAssumption DEF Receive, TakeSnapshot, StartOver, PrepareWrite, RetryWrite, Disconnect
<1>7. \A d \in Conn : CallGoesOn(d)
  <2> SUFFICES ASSUME NEW d \in Conn PROVE CallGoesOn(d)
    OBVIOUS
  <2>1. CASE \E kind \in Kind : Receive(c, kind)
    <3>1. PICK kind \in Kind : Receive(c, kind)
      BY <2>1
    <3>2. PICK v : v = [NoCall EXCEPT !.pc = "service", !.kind = kind]
      OBVIOUS
    <3>3. v.pc = "service"
      BY <3>2 DEF NoCall
    <3>4. /\ call' = [call EXCEPT ![c] = v] /\ issued' = [issued EXCEPT ![c] = @ + 1]
          /\ attached' = attached /\ attached[c] /\ call[c].pc = "idle"
      BY <3>1, <3>2 DEF Receive
    <3>5. call'[c] = v /\ issued'[c] = issued[c] + 1 /\ attached'[c] = attached[c]
      BY <1>1, <3>4
    <3>6. d # c => call'[d] = call[d] /\ issued'[d] = issued[d] /\ attached'[d] = attached[d]
      BY <1>1, <3>4
    <3> QED BY <3>3, <3>4, <3>5, <3>6 DEF CallGoesOn
  <2>2. CASE TakeSnapshot(c)
    BY <1>1, <1>2, <2>2 DEF TakeSnapshot, CallGoesOn, Call
  <2>3. CASE StartOver(c)
    BY <1>1, <1>2, <2>3 DEF StartOver, CallGoesOn, Call
  <2>4. CASE PrepareWrite(c)
    BY <1>1, <1>2, <2>4 DEF PrepareWrite, CanProceed, CallGoesOn, Call
  <2>5. CASE RetryWrite(c)
    BY <1>1, <1>2, <2>5 DEF RetryWrite, CallGoesOn, Call
  <2>6. CASE Disconnect(c)
    BY <1>1, <2>6 DEF Disconnect, CallGoesOn
  <2> QED BY <2>1, <2>2, <2>3, <2>4, <2>5, <2>6
<1> QED
  BY <1>1, <1>3, <1>4, <1>5, <1>6, <1>7 DEF Calms

LEMMA CalmOthers ==
    ASSUME PathInv,
           \/ StartApplying \/ StepDown \/ LeaveLeaderLoop \/ Ascend \/ Depose
           \/ \E index \in 1..(LogSize - 1) : CommitTo(index)
    PROVE  Calms
<1>1. /\ log \in Seq(Entry) /\ LogSize \in Nat /\ LogSize = Len(log) /\ term \in Nat
      /\ commitIndex \in 0..(LogSize - 1) /\ applying \in 0..commitIndex
      /\ (applying # 0 => lastApplied < applying)
  BY DEF PathInv, PathType, TypeOK, LockInv, LogSize
<1>2. UNCHANGED <<clients, blocked, applied, raftCommand>>
  BY DEF StartApplying, StepDown, LeaveLeaderLoop, Ascend, Depose, CommitTo
<1>3. \A d \in Conn : CallGoesOn(d)
  BY <1>2 DEF CallGoesOn, clients
<1>4. LogGrows /\ applying' \in 0..commitIndex' /\ (applying' # 0 => lastApplied < applying')
  <2>1. CASE StartApplying
    <3>1. log' = log /\ commitIndex' = commitIndex /\ applying' = commitIndex /\ lastApplied < commitIndex
      BY <2>1 DEF StartApplying, raft
    <3> QED BY <1>1, <3>1, LogStays
  <2>2. CASE StepDown \/ LeaveLeaderLoop \/ Depose
    <3>1. log' = log /\ commitIndex' = commitIndex /\ applying' = applying
      BY <2>2 DEF StepDown, LeaveLeaderLoop, Depose, raft
    <3> QED BY <1>1, <3>1, LogStays
  <2>3. CASE \E index \in 1..(LogSize - 1) : CommitTo(index)
    <3>1. PICK index \in 1..(LogSize - 1) : CommitTo(index)
      BY <2>3
    <3>2. log' = log /\ commitIndex' = index /\ applying' = applying /\ commitIndex < index
      BY <3>1 DEF CommitTo
    <3> QED BY <1>1, <3>2, LogStays
  <2>4. CASE Ascend
    <3>1. PICK e : e = [term |-> term + 1, tx |-> Foreign]
      OBVIOUS
    <3>2. e \in Entry /\ e.tx = Foreign
      BY <1>1, <3>1 DEF Entry, Tx, Foreign
    <3>3. log' = Append(log, e) /\ commitIndex' = commitIndex /\ applying' = applying
      BY <2>4, <3>1 DEF Ascend
    <3>4. /\ log' \in Seq(Entry) /\ Len(log') = LogSize + 1 /\ log'[LogSize + 1] = e
          /\ \A k \in 1..LogSize : log'[k] = log[k]
      BY <1>1, <3>2, <3>3
    <3>5. LogGrows
      BY <1>1, <3>2, <3>3, <3>4 DEF LogGrows
    <3> QED BY <1>1, <3>3, <3>5
  <2> QED BY <2>1, <2>2, <2>3, <2>4
    DEF StartApplying, StepDown, LeaveLeaderLoop, Ascend, Depose
<1> QED
  BY <1>2, <1>3, <1>4 DEF Calms, clients

LEMMA StepKinds ==
    ASSUME PathInv, Next
    PROVE  \/ Calms
           \/ \E c \in Conn : Responds(c)
           \/ \E c \in Conn : AppendWrite(c)
           \/ ApplyCommit
           \/ Flushes
           \/ Cuts
<1>1. ASSUME DirectorFlush \/ AppendBegin PROVE Flushes
  BY <1>1, FlushResult DEF DirectorFlush, AppendBegin
<1> QED
  BY <1>1, CalmCalls, CalmOthers, ServiceResponds, CutResult DEF Next

-----------------------------------------------------------------------------
(* Types *)

ControlType ==
    /\ term \in Nat /\ status \in {"LEADER", "FOLLOWER"} /\ marker \in Nat \cup {-1}
    /\ director \in {"leading", "expired", "following", "ready"}
    /\ raftCommand \in Conn \cup {Nobody, Handler} /\ handlerTerm \in Nat
    /\ attached \in [Conn -> BOOLEAN] /\ call \in [Conn -> Call] /\ issued \in [Conn -> Nat]

DataType ==
    /\ log \in Seq(Entry) /\ commitIndex \in 0..(LogSize - 1)
    /\ applied \in Seq(Tx) /\ lastApplied <= commitIndex /\ applying \in 0..commitIndex
    /\ DOMAIN blocked \subseteq 1..(LogSize - 1) /\ blocked \in [DOMAIN blocked -> Conn]
    /\ queue \in [Conn -> Seq(Pending)]
    /\ lastIndex \in [Conn -> Nat \cup {-1}]
    /\ answers \in [Conn -> Seq(Answer)]

LEMMA TypeParts == PathType <=> ControlType /\ DataType
<1>1. PathType => ControlType /\ DataType
  BY DEF PathType, TypeOK, ControlType, DataType
<1>2. ControlType /\ DataType => PathType
  <2>1. blocked \in [DOMAIN blocked -> Conn] => Range(blocked) \subseteq Conn
    BY DEF Range
  <2> QED BY <2>1 DEF PathType, TypeOK, ControlType, DataType
<1> QED
  BY <1>1, <1>2

LEMMA ControlStep ==
    ASSUME PathType, Next
    PROVE  ControlType'
<1>0. ControlType /\ LogSize \in Nat
  BY TypeParts DEF PathType, TypeOK, LogSize
<1>1. NoCall \in Call
  BY DEF NoCall, Call, Kind
<1>2. ASSUME NEW c \in Conn, NEW kind \in Kind, Receive(c, kind) PROVE ControlType'
  <2>1. PICK v : v = [NoCall EXCEPT !.pc = "service", !.kind = kind]
    OBVIOUS
  <2>2. v \in Call
    BY <1>1, <2>1 DEF Call
  <2>3. call' = [call EXCEPT ![c] = v] /\ issued' = [issued EXCEPT ![c] = @ + 1]
    BY <1>2, <2>1 DEF Receive
  <2>4. call' \in [Conn -> Call] /\ issued' \in [Conn -> Nat]
    BY <1>0, <2>2, <2>3 DEF ControlType
  <2> QED BY <1>0, <1>2, <2>4 DEF Receive, ControlType, raft
<1>3. ASSUME NEW c \in Conn, TakeSnapshot(c) PROVE ControlType'
  <2>1. PICK v : v = [call[c] EXCEPT !.pc = "waiting", !.term = term, !.marker = marker]
    OBVIOUS
  <2>2. v \in Call
    BY <1>0, <2>1 DEF Call, ControlType
  <2>3. call' = [call EXCEPT ![c] = v]
    BY <1>0, <1>3, <2>1 DEF TakeSnapshot, ControlType
  <2>4. call' \in [Conn -> Call]
    BY <1>0, <2>2, <2>3 DEF ControlType
  <2> QED BY <1>0, <1>3, <2>4 DEF TakeSnapshot, ControlType, raft
<1>4. ASSUME NEW c \in Conn, NEW pc \in {"idle", "service", "waiting", "lock"},
             call' = [call EXCEPT ![c].pc = pc]
      PROVE  call' \in [Conn -> Call]
  <2>1. PICK v : v = [call[c] EXCEPT !.pc = pc]
    OBVIOUS
  <2>2. v \in Call
    BY <1>0, <2>1 DEF Call, ControlType
  <2>3. call' = [call EXCEPT ![c] = v]
    BY <1>0, <1>4, <2>1 DEF ControlType
  <2> QED BY <1>0, <2>2, <2>3 DEF ControlType
<1>5. ASSUME NEW c \in Conn, StartOver(c) \/ PrepareWrite(c) \/ RetryWrite(c) PROVE ControlType'
  <2>1. call' \in [Conn -> Call]
    BY <1>4, <1>5 DEF StartOver, PrepareWrite, RetryWrite
  <2>2. /\ raftCommand' \in {raftCommand, c}
        /\ UNCHANGED <<term, status, marker, director, handlerTerm, attached, issued>>
    BY <1>5 DEF StartOver, PrepareWrite, RetryWrite, raft
  <2> QED BY <1>0, <2>1, <2>2 DEF ControlType
<1>6. ASSUME NEW c \in Conn, NotLeader(c) \/ ServeRead(c) \/ AppendWrite(c) PROVE ControlType'
  <2>1. call' = [call EXCEPT ![c] = NoCall] /\ raftCommand' \in {raftCommand, Nobody}
    BY <1>6 DEF NotLeader, ServeRead, AppendWrite, Return
  <2>2. call' \in [Conn -> Call]
    BY <1>0, <1>1, <2>1 DEF ControlType
  <2>3. UNCHANGED <<term, status, marker, director, handlerTerm, attached, issued>>
    BY <1>6 DEF NotLeader, ServeRead, AppendWrite, raft
  <2> QED BY <1>0, <2>1, <2>2, <2>3 DEF ControlType
<1>7. ASSUME NEW c \in Conn, Disconnect(c) PROVE ControlType'
  BY <1>0, <1>7 DEF Disconnect, ControlType, raft
<1>8. ASSUME StartApplying \/ ApplyCommit \/ DirectorFlush \/ AppendBegin \/ LeaveLeaderLoop PROVE ControlType'
  <2>1. UNCHANGED <<term, status, marker, attached, call, issued>>
    BY <1>8 DEF StartApplying, ApplyCommit, DirectorFlush, AppendBegin, LeaveLeaderLoop, raft, clients
  <2>2. director' \in {director, "following", "ready"} /\ raftCommand' \in {raftCommand, Handler}
        /\ handlerTerm' \in {handlerTerm, term}
    BY <1>8 DEF StartApplying, ApplyCommit, DirectorFlush, AppendBegin, LeaveLeaderLoop
  <2> QED BY <1>0, <2>1, <2>2 DEF ControlType
<1>9. ASSUME StepDown \/ Ascend \/ Depose PROVE ControlType'
  BY <1>0, <1>9 DEF StepDown, Ascend, Depose, ControlType, clients
<1>10. ASSUME NEW index, CommitTo(index) PROVE ControlType'
  BY <1>0, <1>10 DEF CommitTo, ControlType, clients
<1>11. ASSUME NEW first, NEW n, NEW index, AppendFinish(first, n, index) PROVE ControlType'
  BY <1>0, <1>11 DEF AppendFinish, ControlType, clients
<1> QED
  BY <1>2, <1>3, <1>5, <1>6, <1>7, <1>8, <1>9, <1>10, <1>11 DEF Next

\* A request joins the queue of c; answers are sent to c, if it is still there.
Joins(c, p) ==
    /\ queue' \in [Conn -> Seq(Pending)]
    /\ Len(queue'[c]) = Len(queue[c]) + 1 /\ queue'[c][Len(queue[c]) + 1] = p
    /\ \A k \in 1..Len(queue[c]) : queue'[c][k] = queue[c][k]
    /\ \A d \in Conn \ {c} : queue'[d] = queue[d]

Sends(c, s) ==
    /\ answers' \in [Conn -> Seq(Answer)]
    /\ ~ attached[c] => answers'[c] = answers[c]
    /\ attached[c] =>
         /\ Len(answers'[c]) = Len(answers[c]) + Len(s)
         /\ \A k \in 1..Len(answers[c]) : answers'[c][k] = answers[c][k]
         /\ \A k \in 1..Len(s) : answers'[c][Len(answers[c]) + k] = s[k]
    /\ \A d \in Conn \ {c} : answers'[d] = answers[d]

LEMMA AppendJoins ==
    ASSUME queue \in [Conn -> Seq(Pending)], NEW c \in Conn, NEW p \in Pending,
           queue' = [queue EXCEPT ![c] = Append(queue[c], p)]
    PROVE  Joins(c, p)
<1>1. PICK q \in Seq(Pending) : q = queue[c]
  OBVIOUS
<1>2. PICK r : r = Append(q, p)
  OBVIOUS
<1>3. /\ r \in Seq(Pending) /\ Len(r) = Len(q) + 1 /\ r[Len(q) + 1] = p
      /\ \A k \in 1..Len(q) : r[k] = q[k]
  BY <1>2
<1>4. queue'[c] = r /\ \A d \in Conn \ {c} : queue'[d] = queue[d]
  BY <1>1, <1>2
<1>5. queue' \in [Conn -> Seq(Pending)]
  BY <1>1, <1>2, <1>3
<1> QED
  BY <1>1, <1>3, <1>4, <1>5 DEF Joins

LEMMA ConcatFacts ==
    ASSUME NEW s \in Seq(Answer), NEW t \in Seq(Answer)
    PROVE  /\ s \o t \in Seq(Answer) /\ Len(s \o t) = Len(s) + Len(t)
           /\ \A k \in 1..Len(s) : (s \o t)[k] = s[k]
           /\ \A k \in 1..Len(t) : (s \o t)[Len(s) + k] = t[k]
<1>1. Len(s) \in Nat /\ Len(t) \in Nat
  OBVIOUS
<1>2. PICK u : u = s \o t
  OBVIOUS
<1>3. /\ u \in Seq(Answer) /\ Len(u) = Len(s) + Len(t)
      /\ \A k \in 1..(Len(s) + Len(t)) : u[k] = IF k <= Len(s) THEN s[k] ELSE t[k - Len(s)]
  BY <1>2
<1>4. \A k \in 1..Len(s) : u[k] = s[k]
  BY <1>1, <1>3
<1>5. \A k \in 1..Len(t) : u[Len(s) + k] = t[k]
  <2> SUFFICES ASSUME NEW k \in 1..Len(t) PROVE u[Len(s) + k] = t[k]
    OBVIOUS
  <2>1. Len(s) + k \in 1..(Len(s) + Len(t)) /\ ~ (Len(s) + k <= Len(s)) /\ Len(s) + k - Len(s) = k
    BY <1>1
  <2> QED BY <1>3, <2>1
<1> QED
  BY <1>2, <1>3, <1>4, <1>5

LEMMA SendSends ==
    ASSUME answers \in [Conn -> Seq(Answer)], NEW c \in Conn, NEW s \in Seq(Answer), answers' = Send(c, s)
    PROVE  Sends(c, s)
<1>1. PICK a \in Seq(Answer) : a = answers[c]
  OBVIOUS
<1>2. PICK b : b = a \o s
  OBVIOUS
<1>3. /\ b \in Seq(Answer) /\ Len(b) = Len(a) + Len(s)
      /\ \A k \in 1..Len(a) : b[k] = a[k]
      /\ \A k \in 1..Len(s) : b[Len(a) + k] = s[k]
  BY <1>2, ConcatFacts
<1>4. answers' = [answers EXCEPT ![c] = IF attached[c] THEN b ELSE a]
  BY <1>1, <1>2 DEF Send
<1>5. answers'[c] = (IF attached[c] THEN b ELSE a) /\ \A d \in Conn \ {c} : answers'[d] = answers[d]
  BY <1>4
<1>6. answers' \in [Conn -> Seq(Answer)]
  BY <1>3, <1>4
<1> QED
  BY <1>1, <1>3, <1>5, <1>6 DEF Sends

\* What RaftWriteTracker::append does with a write of c.
Writes(c, p) ==
    /\ call[c].pc = "lock" /\ raftCommand = Nobody
    /\ p \in Pending /\ p.kind = "write" /\ p.index = LogSize
    /\ p.id = issued[c] /\ p.raw.id = issued[c] /\ p.raw.ok = FALSE
    /\ Joins(c, p)
    /\ log' \in Seq(Entry) /\ Len(log') = LogSize + 1
    /\ log'[LogSize + 1].tx = [conn |-> c, id |-> issued[c]]
    /\ \A k \in 1..LogSize : log'[k] = log[k]
    /\ blocked' \in [DOMAIN blocked \cup {LogSize} -> Conn] /\ blocked'[LogSize] = c
    /\ \A x \in DOMAIN blocked \ {LogSize} : blocked'[x] = blocked[x]
    /\ lastIndex' = [lastIndex EXCEPT ![c] = LogSize]
    /\ Return(c)
    /\ UNCHANGED <<commitIndex, applied, applying, attached, issued, answers>>

LEMMA WriteResult ==
    ASSUME PathType, NEW c \in Conn, AppendWrite(c)
    PROVE  \E p \in Pending : Writes(c, p)
<1>1. /\ log \in Seq(Entry) /\ LogSize \in Nat /\ LogSize = Len(log) /\ issued[c] \in Nat
      /\ call[c].term \in Nat
      /\ queue \in [Conn -> Seq(Pending)] /\ blocked \in [DOMAIN blocked -> Conn]
  BY SMTT(30) DEF PathType, TypeOK, LogSize, Call
<1>2. PICK p : p = [id |-> issued[c], kind |-> "write", index |-> LogSize, raw |-> Err(issued[c])]
  OBVIOUS
<1>3. Err(issued[c]) \in Answer /\ Err(issued[c]).id = issued[c] /\ Err(issued[c]).ok = FALSE
  BY <1>1 DEF Answer, Err
<1>4. p \in Pending
  BY <1>1, <1>2, <1>3 DEF Pending, Kind
<1>5. Joins(c, p)
  BY <1>1, <1>2, <1>4, AppendJoins DEF AppendWrite, addPendingWrite
<1>6. PICK e : e = [term |-> call[c].term, tx |-> [conn |-> c, id |-> issued[c]]]
  OBVIOUS
<1>7. e \in Entry
  BY <1>1, <1>6 DEF Entry, Tx
<1>8. log' = Append(log, e)
  BY <1>6 DEF AppendWrite
<1>9. /\ log' \in Seq(Entry) /\ Len(log') = LogSize + 1 /\ log'[LogSize + 1] = e
      /\ \A k \in 1..LogSize : log'[k] = log[k]
  BY <1>1, <1>7, <1>8
<1>10. blocked' = insertBlocked(blocked, LogSize, c)
  BY DEF AppendWrite
<1>11. /\ blocked' \in [DOMAIN blocked \cup {LogSize} -> Conn] /\ blocked'[LogSize] = c
       /\ \A x \in DOMAIN blocked \ {LogSize} : blocked'[x] = blocked[x]
  BY <1>1, <1>10 DEF insertBlocked
<1>12. /\ call[c].pc = "lock" /\ raftCommand = Nobody /\ Return(c)
       /\ lastIndex' = [lastIndex EXCEPT ![c] = LogSize]
       /\ UNCHANGED <<commitIndex, applied, applying, attached, issued, answers>>
  BY DEF AppendWrite, addPendingWrite
<1>13. log'[LogSize + 1].tx = [conn |-> c, id |-> issued[c]]
  BY <1>6, <1>9
<1>14. /\ p.kind = "write" /\ p.index = LogSize
       /\ p.id = issued[c] /\ p.raw.id = issued[c] /\ p.raw.ok = FALSE
  BY <1>2, <1>3
<1>15. Writes(c, p)
  BY <1>4, <1>5, <1>9, <1>11, <1>12, <1>13, <1>14 DEF Writes
<1> QED
  BY <1>4, <1>15

LEMMA DispatchedType ==
    ASSUME PathInv, NEW c \in Conn, NEW n \in 1..Len(queue[c])
    PROVE  DispatchedAnswers(c, n) \in Seq(Answer) /\ Len(DispatchedAnswers(c, n)) = n
<1>1. lastApplied + 1 \in Nat /\ n \in Nat
  BY DEF PathInv, PathType, TypeOK, lastApplied
<1>2. \A k \in 1..n : queue[c][k] \in Pending
  BY QueueFacts
<1>3. \A k \in 1..n : queue[c][k].raw \in Answer /\ queue[c][k].id \in Nat
  BY <1>2 DEF Pending
<1>4. \A k \in 1..n : Ok(queue[c][k].id, lastApplied + 1) \in Answer
  BY <1>1, <1>3 DEF Ok, Answer
<1>5. DispatchedAnswers(c, n) \in [1..n -> Answer]
  BY <1>3, <1>4 DEF DispatchedAnswers
<1> QED
  BY <1>1, <1>5

LEMMA DataStep ==
    ASSUME PathInv, Next
    PROVE  DataType'
<1>0. /\ DataType /\ LogSize \in Nat /\ lastApplied \in Nat
      /\ LogSize = Len(log) /\ LogSize' = Len(log') /\ lastApplied = Len(applied) /\ lastApplied' = Len(applied')
  BY TypeParts DEF PathInv, DataType, LogSize, lastApplied
<1>1. CASE Calms
  <2>1. /\ log' \in Seq(Entry) /\ Len(log') \in Nat /\ Len(log') >= LogSize
        /\ commitIndex' \in commitIndex..(Len(log') - 1)
    BY <1>1 DEF Calms, LogGrows
  <2>2. UNCHANGED <<queue, answers, lastIndex, blocked, applied>>
    BY <1>1 DEF Calms
  <2>3. applying' \in 0..commitIndex'
    BY <1>1 DEF Calms
  <2> QED BY <1>0, <2>1, <2>2, <2>3 DEF DataType
<1>2. CASE \E c \in Conn : Responds(c)
  <2>1. PICK c \in Conn : Responds(c)
    BY <1>2
  <2>2. UNCHANGED <<log, commitIndex, applied, applying, blocked, lastIndex>>
    BY <2>1 DEF Responds, raft
  <2>3. queue' \in [Conn -> Seq(Pending)] /\ answers' \in [Conn -> Seq(Answer)]
    <3>1. ASSUME NEW a \in Answer, RespondsNow(c, a)
          PROVE  queue' \in [Conn -> Seq(Pending)] /\ answers' \in [Conn -> Seq(Answer)]
      <4>1. <<a>> \in Seq(Answer)
        OBVIOUS
      <4>2. Sends(c, <<a>>)
        BY <1>0, <3>1, <4>1, SendSends DEF DataType, RespondsNow
      <4> QED BY <1>0, <3>1, <4>2 DEF DataType, RespondsNow, Sends
    <3>2. ASSUME NEW p \in Pending, RespondsLater(c, p)
          PROVE  queue' \in [Conn -> Seq(Pending)] /\ answers' \in [Conn -> Seq(Answer)]
      <4>1. Joins(c, p)
        BY <1>0, <3>2, AppendJoins DEF DataType, RespondsLater
      <4> QED BY <1>0, <3>2, <4>1 DEF DataType, RespondsLater, Joins
    <3> QED BY <2>1, <3>1, <3>2 DEF Responds
  <2> QED BY <1>0, <2>2, <2>3 DEF DataType
<1>3. CASE \E c \in Conn : AppendWrite(c)
  <2>1. PICK c \in Conn, p \in Pending : Writes(c, p)
    BY <1>3, WriteResult DEF PathInv
  <2>2. /\ queue' \in [Conn -> Seq(Pending)] /\ log' \in Seq(Entry) /\ Len(log') = LogSize + 1
        /\ blocked' \in [DOMAIN blocked \cup {LogSize} -> Conn]
        /\ lastIndex' = [lastIndex EXCEPT ![c] = LogSize]
        /\ UNCHANGED <<commitIndex, applied, applying, answers>>
    BY <2>1 DEF Writes, Joins
  <2>3. DOMAIN blocked' \subseteq 1..(LogSize' - 1) /\ blocked' \in [DOMAIN blocked' -> Conn]
    BY <1>0, <2>2, SMTT(30) DEF DataType
  <2>4. lastIndex' \in [Conn -> Nat \cup {-1}]
    BY <1>0, <2>2 DEF DataType
  <2> QED BY <1>0, <2>2, <2>3, <2>4 DEF DataType
<1>4. CASE ApplyCommit
  <2>1. Applies
    BY <1>4, ApplyResult
  <2>2. log[lastApplied + 2].tx \in Tx
    <3>1. lastApplied + 2 \in 1..Len(log)
      BY <1>0, <2>1 DEF Applies, DataType
    <3>2. log[lastApplied + 2] \in Entry
      BY <1>0, <3>1 DEF DataType
    <3> QED BY <3>2 DEF Entry
  <2>3. applied' \in Seq(Tx)
    BY <1>0, <2>1, <2>2 DEF Applies, DataType
  <2>4. /\ lastApplied' <= commitIndex /\ applying' \in 0..commitIndex
        /\ UNCHANGED <<log, commitIndex, lastIndex>>
    BY <1>0, <2>1 DEF Applies, DataType, raft
  <2>5. /\ queue' \in [Conn -> Seq(Pending)] /\ answers' \in [Conn -> Seq(Answer)]
        /\ DOMAIN blocked' \subseteq DOMAIN blocked /\ blocked' \in [DOMAIN blocked' -> Conn]
    <3>1. CASE UNCHANGED <<answers, queue, blocked>>
      BY <1>0, <3>1 DEF DataType
    <3>2. ASSUME NEW c \in Conn, NEW n \in Nat, Dispatches(c, n)
          PROVE  /\ queue' \in [Conn -> Seq(Pending)] /\ answers' \in [Conn -> Seq(Answer)]
                 /\ DOMAIN blocked' \subseteq DOMAIN blocked /\ blocked' \in [DOMAIN blocked' -> Conn]
      <4>1. n \in 1..Len(queue[c]) /\ queue' \in [Conn -> Seq(Pending)]
        BY <3>2 DEF Dispatches, Leaves
      <4>2. Sends(c, DispatchedAnswers(c, n))
        BY <1>0, <3>2, <4>1, DispatchedType, SendSends DEF DataType, Dispatches
      <4> QED BY <3>2, <4>1, <4>2 DEF Dispatches, Sends
    <3> QED BY <1>4, <3>1, <3>2, ApplyResult
  <2> QED BY <1>0, <2>3, <2>4, <2>5 DEF DataType
<1>5. CASE Flushes
  <2>1. /\ queue' \in [Conn -> Seq(Pending)]
        /\ lastIndex' \in [Conn -> Nat \cup {-1}]
        /\ UNCHANGED <<log, commitIndex, applied, applying>>
    BY <1>5 DEF Flushes, raft
  <2>2. DOMAIN blocked' = {} /\ blocked' \in [DOMAIN blocked' -> Conn]
    BY <1>5 DEF Flushes
  <2>3. \A c \in Conn : answers'[c] \in Seq(Answer)
    <3> SUFFICES ASSUME NEW c \in Conn PROVE answers'[c] \in Seq(Answer)
      OBVIOUS
    <3>1. answers[c] \in Seq(Answer) /\ flushPending(queue[c]) \in Seq(Answer)
      BY <1>0, FlushPendingResult DEF DataType
    <3>2. answers[c] \o flushPending(queue[c]) \in Seq(Answer)
      BY <3>1, ConcatFacts
    <3> QED BY <1>5, <3>1, <3>2 DEF Flushes
  <2>4. answers' \in [Conn -> Seq(Answer)]
    BY <1>5, <2>3 DEF Flushes
  <2> QED BY <1>0, <2>1, <2>2, <2>4 DEF DataType
<1>6. CASE Cuts
  <2>1. /\ log' \in Seq(Entry) /\ Len(log') \in Nat /\ commitIndex' \in commitIndex..(Len(log') - 1)
        /\ raftCommand = Handler
        /\ UNCHANGED <<applied, applying, blocked, queue, lastIndex, answers>>
    BY <1>6 DEF Cuts, clients
  <2>2. DOMAIN blocked' = {}
    BY <2>1 DEF PathInv, LockInv
  <2> QED BY <1>0, <2>1, <2>2 DEF DataType
<1> QED
  BY <1>1, <1>2, <1>3, <1>4, <1>5, <1>6, StepKinds

LEMMA TypeStep ==
    ASSUME PathInv, Next
    PROVE  PathType'
<1>1. (PathType <=> ControlType /\ DataType)'
  BY TypeParts, PTL
<1> QED
  BY <1>1, ControlStep, DataStep DEF PathInv

-----------------------------------------------------------------------------
(* Queues and blocked writes *)

WaitsNext(c, p) ==
    IF p.kind = "write"
    THEN /\ lastApplied' < p.index /\ p.index < LogSize'
         /\ log'[p.index + 1].tx = [conn |-> c, id |-> p.id]
         /\ p.index \in DOMAIN blocked' /\ blocked'[p.index] = c
    ELSE p.index = -1

LEMMA QueueNext ==
    ASSUME \A c \in Conn : /\ InLine(queue'[c])
                           /\ \A k \in 1..Len(queue'[c]) : WaitsNext(c, queue'[c][k])
    PROVE  QueueInv'
BY DEF QueueInv, InLine, Waits, WaitsNext

LEMMA StillWaits ==
    ASSUME PathInv, NEW c \in Conn, NEW p \in Pending, Waits(c, p),
           LogSize' >= LogSize /\ \A k \in 1..LogSize : log'[k] = log[k],
           p.kind = "write" => /\ lastApplied' < p.index
                               /\ p.index \in DOMAIN blocked' /\ blocked'[p.index] = blocked[p.index],
           LogSize' \in Nat
    PROVE  WaitsNext(c, p)
<1>1. lastApplied \in Nat /\ LogSize \in Nat
  BY SMTT(30) DEF PathInv, PathType, TypeOK, lastApplied, LogSize
<1>2. CASE p.kind = "write"
  <2>1. /\ p.index \in Nat \cup {-1} /\ lastApplied < p.index /\ p.index < LogSize
        /\ log[p.index + 1].tx = [conn |-> c, id |-> p.id] /\ blocked[p.index] = c
    BY <1>2 DEF Waits, Pending
  <2>2. p.index + 1 \in 1..LogSize /\ p.index < LogSize'
    BY <1>1, <2>1
  <2> QED BY <1>2, <2>1, <2>2 DEF WaitsNext
<1>3. CASE p.kind # "write"
  BY <1>3 DEF Waits, WaitsNext
<1> QED
  BY <1>2, <1>3

LEMMA CalmQueues ==
    ASSUME PathInv, Calms
    PROVE  QueueInv' /\ BlockedInv' /\ LastInv' /\ LockInv'
<1>0. /\ UNCHANGED <<queue, lastIndex, blocked, applied>> /\ lastApplied' = lastApplied
      /\ LogSize' \in Nat /\ LogSize' >= LogSize /\ \A k \in 1..LogSize : log'[k] = log[k]
  BY DEF Calms, LogGrows, lastApplied, LogSize
<1>1. \A c \in Conn : \A k \in 1..Len(queue[c]) : WaitsNext(c, queue[c][k])
  <2> SUFFICES ASSUME NEW c \in Conn, NEW k \in 1..Len(queue[c]) PROVE WaitsNext(c, queue[c][k])
    OBVIOUS
  <2>1. PICK p \in Pending : p = queue[c][k] /\ Waits(c, p)
    BY QueueFacts
  <2>2. p.kind = "write" => lastApplied' < p.index /\ p.index \in DOMAIN blocked' /\ blocked'[p.index] = blocked[p.index]
    BY <1>0, <2>1 DEF Waits
  <2> QED BY <1>0, <2>1, <2>2, StillWaits
<1>2. QueueInv'
  BY <1>0, <1>1, QueueFacts, QueueNext
<1>3. BlockedInv' /\ LastInv'
  BY <1>0 DEF PathInv, BlockedInv, LastInv
<1>4. LockInv'
  BY <1>0 DEF PathInv, LockInv, Calms
<1> QED
  BY <1>2, <1>3, <1>4

LEMMA JoinInLine ==
    ASSUME NEW q, NEW r, Len(q) \in Nat, NEW p, InLine(q), q = <<>> <=> Len(q) = 0,
           Len(r) = Len(q) + 1, r[Len(q) + 1] = p, \A k \in 1..Len(q) : r[k] = q[k],
           q = <<>> => p.kind = "write",
           p.kind = "write" => \A k \in 1..Len(q) : q[k].kind = "write" => q[k].index < p.index
    PROVE  InLine(r)
<1>1. r[1].kind = "write"
  BY DEF InLine
<1>2. ASSUME NEW j \in 1..Len(r), NEW k \in 1..Len(r), j < k, r[j].kind = "write", r[k].kind = "write"
      PROVE  r[j].index < r[k].index
  <2>1. j \in 1..Len(q)
    BY <1>2
  <2>2. CASE k \in 1..Len(q)
    BY <1>2, <2>1, <2>2 DEF InLine
  <2>3. CASE k = Len(q) + 1
    BY <1>2, <2>1, <2>3
  <2> QED BY <2>2, <2>3
<1> QED
  BY <1>1, <1>2 DEF InLine

\* RespondsLater and Writes.
LEMMA JoinedQueues ==
    ASSUME PathInv, NEW c \in Conn, NEW p \in Pending, Joins(c, p), WaitsNext(c, p),
           queue[c] = <<>> => p.kind = "write",
           p.kind = "write" => p.index = LogSize,
           \A x \in DOMAIN blocked : x \in DOMAIN blocked' /\ blocked'[x] = blocked[x],
           applied' = applied, LogSize' \in Nat,
           LogSize' >= LogSize /\ \A k \in 1..LogSize : log'[k] = log[k]
    PROVE  QueueInv'
<1>0. lastApplied' = lastApplied
  BY DEF lastApplied
<1>1. ASSUME NEW d \in Conn, NEW k \in 1..Len(queue[d]) PROVE WaitsNext(d, queue[d][k])
  <2>1. PICK w \in Pending : w = queue[d][k] /\ Waits(d, w)
    BY <1>1, QueueFacts
  <2>2. w.kind = "write" => lastApplied' < w.index /\ w.index \in DOMAIN blocked' /\ blocked'[w.index] = blocked[w.index]
    BY <1>0, <2>1 DEF Waits
  <2> QED BY <2>1, <2>2, StillWaits
<1>2. PICK q \in Seq(Pending) : q = queue[c] /\ InLine(q)
  BY QueueFacts
<1>3. PICK r : r = queue'[c]
  OBVIOUS
<1>4. Len(r) = Len(q) + 1 /\ r[Len(q) + 1] = p /\ \A k \in 1..Len(q) : r[k] = q[k]
  BY <1>2, <1>3 DEF Joins
<1>5. \A k \in 1..Len(q) : q[k].kind = "write" => q[k].index < LogSize
  BY <1>2, QueueFacts DEF Waits
<1>6. InLine(r)
  <2>1. Len(q) \in Nat /\ (q = <<>> <=> Len(q) = 0) /\ (q = <<>> => p.kind = "write")
    BY <1>2
  <2>2. p.kind = "write" => \A k \in 1..Len(q) : q[k].kind = "write" => q[k].index < p.index
    BY <1>5
  <2> QED BY <1>2, <1>4, <2>1, <2>2, JoinInLine
<1>7. \A k \in 1..Len(r) : WaitsNext(c, r[k])
  <2> SUFFICES ASSUME NEW k \in 1..Len(r) PROVE WaitsNext(c, r[k])
    OBVIOUS
  <2>1. CASE k \in 1..Len(q)
    BY <1>1, <1>2, <1>4, <2>1
  <2>2. CASE k = Len(q) + 1
    BY <1>4, <2>2
  <2> QED BY <1>4, <2>1, <2>2
<1>8. \A d \in Conn \ {c} : /\ InLine(queue'[d])
                            /\ \A k \in 1..Len(queue'[d]) : WaitsNext(d, queue'[d][k])
  BY <1>1, QueueFacts DEF Joins
<1> QED
  BY <1>3, <1>6, <1>7, <1>8, QueueNext

LEMMA JoinKeeps ==
    ASSUME queue \in [Conn -> Seq(Pending)], NEW c \in Conn, NEW p, Joins(c, p)
    PROVE  \A d \in Conn :
              /\ Len(queue[d]) \in Nat /\ Len(queue'[d]) \in Nat /\ Len(queue'[d]) >= Len(queue[d])
              /\ \A k \in 1..Len(queue[d]) : queue'[d][k] = queue[d][k]
<1> SUFFICES ASSUME NEW d \in Conn
             PROVE  /\ Len(queue[d]) \in Nat /\ Len(queue'[d]) \in Nat /\ Len(queue'[d]) >= Len(queue[d])
                    /\ \A k \in 1..Len(queue[d]) : queue'[d][k] = queue[d][k]
  OBVIOUS
<1>1. queue[d] \in Seq(Pending) /\ queue'[d] \in Seq(Pending)
  BY DEF Joins
<1>2. Len(queue[d]) \in Nat /\ Len(queue'[d]) \in Nat
  BY <1>1
<1>3. CASE d = c
  BY <1>2, <1>3 DEF Joins
<1>4. CASE d # c
  BY <1>2, <1>4 DEF Joins
<1> QED
  BY <1>3, <1>4

LEMMA RespondQueues ==
    ASSUME PathInv, NEW c \in Conn, Responds(c)
    PROVE  QueueInv' /\ BlockedInv' /\ LastInv' /\ LockInv'
<1>0. /\ UNCHANGED <<log, applied, applying, blocked, lastIndex>>
      /\ lastApplied' = lastApplied /\ LogSize' = LogSize /\ LogSize \in Nat
  BY DEF Responds, raft, lastApplied, LogSize, PathInv, PathType, TypeOK
<1>1. raftCommand' = Handler => raftCommand = Handler
  BY ConnAssumption DEF Responds, Return
<1>2. LockInv'
  BY <1>0, <1>1 DEF PathInv, LockInv
<1>3. CASE UNCHANGED queue
  <2>1. QueueInv'
    BY <1>0, <1>3 DEF PathInv, QueueInv, InLine, Waits
  <2>2. BlockedInv' /\ LastInv'
    BY <1>0, <1>3 DEF PathInv, BlockedInv, LastInv
  <2> QED BY <1>2, <2>1, <2>2
<1>4. ASSUME NEW p \in Pending, RespondsLater(c, p)
      PROVE  QueueInv' /\ BlockedInv' /\ LastInv'
  <2>1. Joins(c, p)
    BY <1>4, AppendJoins DEF RespondsLater, PathInv, PathType, TypeOK
  <2>2. p.kind # "write" /\ p.index = -1 /\ queue[c] # <<>>
    BY <1>4 DEF RespondsLater
  <2>3. WaitsNext(c, p)
    BY <2>2 DEF WaitsNext
  <2>4. QueueInv'
    BY <1>0, <2>1, <2>2, <2>3, JoinedQueues
  <2>5. \A d \in Conn : /\ Len(queue[d]) \in Nat /\ Len(queue'[d]) \in Nat /\ Len(queue'[d]) >= Len(queue[d])
                        /\ \A k \in 1..Len(queue[d]) : queue'[d][k] = queue[d][k]
    BY <2>1, JoinKeeps DEF PathInv, PathType, TypeOK
  <2>6. BlockedInv'
    <3> SUFFICES ASSUME NEW x \in DOMAIN blocked
                 PROVE  \E k \in 1..Len(queue'[blocked[x]]) : queue'[blocked[x]][k].index = x
      BY <1>0 DEF BlockedInv
    <3>1. blocked[x] \in Conn
      BY DEF PathInv, PathType
    <3>2. PICK k \in 1..Len(queue[blocked[x]]) : queue[blocked[x]][k].index = x
      BY DEF PathInv, BlockedInv
    <3> QED BY <2>5, <3>1, <3>2
  <2>7. LastInv'
    <3> SUFFICES ASSUME NEW d \in Conn, ~ (lastIndex[d] <= lastApplied)
                 PROVE  \E k \in 1..Len(queue'[d]) : queue'[d][k].index = lastIndex[d]
      BY <1>0 DEF LastInv
    <3>1. PICK k \in 1..Len(queue[d]) : queue[d][k].index = lastIndex[d]
      BY DEF PathInv, LastInv
    <3> QED BY <2>5, <3>1
  <2> QED BY <2>4, <2>6, <2>7
<1> QED
  BY <1>2, <1>3, <1>4 DEF Responds, RespondsNow

LEMMA WriteQueues ==
    ASSUME PathInv, NEW c \in Conn, NEW p \in Pending, Writes(c, p)
    PROVE  QueueInv' /\ BlockedInv' /\ LastInv' /\ LockInv'
<1>0. /\ LogSize \in Nat /\ LogSize' = LogSize + 1 /\ lastApplied \in Nat /\ lastApplied' = lastApplied
      /\ lastApplied < LogSize /\ UNCHANGED <<applied, applying>>
      /\ DOMAIN blocked \subseteq 1..(LogSize - 1)
      /\ blocked \in [DOMAIN blocked -> Conn] /\ lastIndex \in [Conn -> Nat \cup {-1}]
      /\ queue \in [Conn -> Seq(Pending)]
  BY SMTT(30) DEF Writes, PathInv, PathType, TypeOK, lastApplied, LogSize
<1>1. /\ Joins(c, p) /\ p.kind = "write" /\ p.index = LogSize /\ p.id = issued[c]
      /\ \A k \in 1..LogSize : log'[k] = log[k]
      /\ log'[LogSize + 1].tx = [conn |-> c, id |-> issued[c]]
  BY DEF Writes
<1>2. /\ DOMAIN blocked' = DOMAIN blocked \cup {LogSize} /\ blocked'[LogSize] = c
      /\ \A x \in DOMAIN blocked : x # LogSize /\ x \in DOMAIN blocked' /\ blocked'[x] = blocked[x]
  BY <1>0 DEF Writes
<1>3. WaitsNext(c, p)
  BY <1>0, <1>1, <1>2 DEF WaitsNext
<1>4. QueueInv'
  <2>1. LogSize' \in Nat /\ LogSize' >= LogSize
    BY <1>0
  <2> QED BY <1>0, <1>1, <1>2, <1>3, <2>1, JoinedQueues
<1>5. \A d \in Conn : /\ Len(queue[d]) \in Nat /\ Len(queue'[d]) \in Nat /\ Len(queue'[d]) >= Len(queue[d])
                      /\ \A k \in 1..Len(queue[d]) : queue'[d][k] = queue[d][k]
  BY <1>0, <1>1, JoinKeeps
<1>6. PICK last : last \in 1..Len(queue'[c]) /\ queue'[c][last].index = LogSize
  <2>1. Len(queue[c]) + 1 \in 1..Len(queue'[c]) /\ queue'[c][Len(queue[c]) + 1].index = LogSize
    BY <1>1, <1>5 DEF Joins
  <2> QED BY <2>1
<1>7. BlockedInv'
  <2> SUFFICES ASSUME NEW x \in DOMAIN blocked'
               PROVE  \E k \in 1..Len(queue'[blocked'[x]]) : queue'[blocked'[x]][k].index = x
    BY DEF BlockedInv
  <2>1. CASE x = LogSize
    BY <1>2, <1>6, <2>1
  <2>2. CASE x # LogSize
    <3>1. x \in DOMAIN blocked /\ blocked'[x] = blocked[x] /\ blocked[x] \in Conn
      BY <1>0, <1>2, <2>2
    <3>2. PICK k \in 1..Len(queue[blocked[x]]) : queue[blocked[x]][k].index = x
      BY <3>1 DEF PathInv, BlockedInv
    <3> QED BY <1>5, <3>1, <3>2
  <2> QED BY <2>1, <2>2
<1>8. LastInv'
  <2> SUFFICES ASSUME NEW d \in Conn, ~ (lastIndex'[d] <= lastApplied)
               PROVE  \E k \in 1..Len(queue'[d]) : queue'[d][k].index = lastIndex'[d]
    BY <1>0 DEF LastInv
  <2>0. lastIndex' = [lastIndex EXCEPT ![c] = LogSize]
    BY DEF Writes
  <2>1. CASE d = c
    BY <1>0, <1>6, <2>0, <2>1
  <2>2. CASE d # c
    <3>1. lastIndex'[d] = lastIndex[d]
      BY <1>0, <2>0, <2>2
    <3>2. PICK k \in 1..Len(queue[d]) : queue[d][k].index = lastIndex[d]
      BY <3>1 DEF PathInv, LastInv
    <3> QED BY <1>5, <3>1, <3>2
  <2> QED BY <2>1, <2>2
<1>9. LockInv'
  <2>1. raftCommand' # Handler
    BY ConnAssumption DEF Writes, Return
  <2> QED BY <1>0, <2>1 DEF PathInv, LockInv
<1> QED
  BY <1>4, <1>7, <1>8, <1>9

LEMMA EmptyQueues ==
    ASSUME \A c \in Conn : queue'[c] = <<>>, DOMAIN blocked' = {},
           \A c \in Conn : lastIndex'[c] <= lastApplied'
    PROVE  QueueInv' /\ BlockedInv' /\ LastInv'
<1>1. \A c \in Conn : InLine(queue'[c]) /\ \A k \in 1..Len(queue'[c]) : WaitsNext(c, queue'[c][k])
  BY DEF InLine
<1> QED
  BY <1>1, QueueNext DEF BlockedInv, LastInv

LEMMA FlushQueues ==
    ASSUME PathInv, Flushes
    PROVE  QueueInv' /\ BlockedInv' /\ LastInv' /\ LockInv'
<1>1. /\ \A c \in Conn : queue'[c] = <<>> /\ lastIndex'[c] <= lastApplied
      /\ DOMAIN blocked' = {} /\ applying' = applying /\ lastApplied' = lastApplied
  BY DEF Flushes, lastApplied
<1>2. LockInv'
  BY <1>1 DEF PathInv, LockInv
<1> QED
  BY <1>1, <1>2, EmptyQueues

LEMMA CutQueues ==
    ASSUME PathInv, Cuts
    PROVE  QueueInv' /\ BlockedInv' /\ LastInv' /\ LockInv'
<1>1. /\ raftCommand = Handler /\ raftCommand' = Nobody
      /\ UNCHANGED <<applied, applying, blocked, queue, lastIndex>> /\ lastApplied' = lastApplied
  BY DEF Cuts, clients, lastApplied
<1>2. DOMAIN blocked = {}
  BY <1>1 DEF PathInv, LockInv
<1>3. \A c \in Conn : queue[c] = <<>>
  <2> SUFFICES ASSUME NEW c \in Conn, queue[c] # <<>> PROVE FALSE
    OBVIOUS
  <2>1. 1 \in 1..Len(queue[c]) /\ queue[c][1].kind = "write"
    BY QueueFacts DEF InLine
  <2> QED BY <1>2, <2>1, QueueFacts DEF Waits
<1>4. \A c \in Conn : lastIndex[c] <= lastApplied
  BY <1>3 DEF PathInv, LastInv
<1>5. LockInv'
  BY <1>1, ConnAssumption DEF PathInv, LockInv
<1> QED
  BY <1>1, <1>2, <1>3, <1>4, <1>5, EmptyQueues

\* What is left in a queue, or in any queue when the next entry is in none, waits
\* for later entries.
LEMMA ApplyQueues ==
    ASSUME PathInv, ApplyCommit
    PROVE  QueueInv' /\ BlockedInv' /\ LastInv' /\ LockInv'
<1> DEFINE index == lastApplied + 1
<1>0. /\ Applies /\ lastApplied \in Nat /\ lastApplied' = index /\ LogSize \in Nat /\ LogSize' = LogSize
      /\ UNCHANGED <<log, lastIndex, raftCommand>>
      /\ blocked \in [DOMAIN blocked -> Conn] /\ queue \in [Conn -> Seq(Pending)]
      /\ lastIndex \in [Conn -> Nat \cup {-1}] /\ applying \in Int
  <2>1. Applies
    BY ApplyResult
  <2>2. /\ lastApplied \in Nat /\ LogSize \in Nat /\ applying \in Int
        /\ blocked \in [DOMAIN blocked -> Conn] /\ queue \in [Conn -> Seq(Pending)]
        /\ lastIndex \in [Conn -> Nat \cup {-1}]
    BY DEF PathInv, PathType, TypeOK, lastApplied, LogSize
  <2>3. UNCHANGED <<log, lastIndex, raftCommand>> /\ Len(applied') = lastApplied + 1
    BY <2>1 DEF Applies, raft
  <2>4. lastApplied' = index /\ LogSize' = LogSize
    BY <2>3 DEF lastApplied, LogSize
  <2> QED BY <2>1, <2>2, <2>3, <2>4
<1>1. LogSize' \in Nat /\ LogSize' >= LogSize /\ \A k \in 1..LogSize : log'[k] = log[k]
  BY <1>0
<1>2. ASSUME UNCHANGED <<answers, queue, blocked>>, index \notin DOMAIN blocked
      PROVE  QueueInv' /\ BlockedInv' /\ LastInv'
  <2>1. \A c \in Conn : \A k \in 1..Len(queue[c]) : WaitsNext(c, queue[c][k])
    <3> SUFFICES ASSUME NEW c \in Conn, NEW k \in 1..Len(queue[c]) PROVE WaitsNext(c, queue[c][k])
      OBVIOUS
    <3>1. PICK p \in Pending : p = queue[c][k] /\ Waits(c, p)
      BY QueueFacts
    <3>2. p.index \in Int
      BY DEF Pending
    <3>3. p.kind = "write" => lastApplied < p.index /\ p.index # index /\ p.index \in DOMAIN blocked
      BY <1>2, <3>1 DEF Waits
    <3>4. p.kind = "write" => lastApplied' < p.index
      BY <1>0, <3>2, <3>3
    <3> QED BY <1>1, <1>2, <3>1, <3>3, <3>4, StillWaits
  <2>2. QueueInv'
    BY <1>2, <2>1, QueueFacts, QueueNext
  <2>3. BlockedInv'
    BY <1>2 DEF PathInv, BlockedInv
  <2>4. LastInv'
    <3> SUFFICES ASSUME NEW c \in Conn, ~ (lastIndex[c] <= index)
                 PROVE  \E k \in 1..Len(queue[c]) : queue[c][k].index = lastIndex[c]
      BY <1>0, <1>2 DEF LastInv
    <3>0. lastIndex[c] \in Int
      BY <1>0
    <3>1. ~ (lastIndex[c] <= lastApplied)
      BY <1>0, <3>0
    <3> QED BY <3>1 DEF PathInv, LastInv
  <2> QED BY <2>2, <2>3, <2>4
<1>3. ASSUME NEW c \in Conn, NEW n \in Nat, Dispatches(c, n)
      PROVE  QueueInv' /\ BlockedInv' /\ LastInv'
  <2>0. /\ index \in DOMAIN blocked /\ blocked[index] = c /\ queue[c][1].index = index
        /\ Takes(queue[c], index, n) /\ Leaves(c, n)
        /\ DOMAIN blocked' = DOMAIN blocked \ {index}
        /\ \A x \in DOMAIN blocked \ {index} : blocked'[x] = blocked[x]
    BY <1>3 DEF Dispatches
  <2>1. PICK q \in Seq(Pending) : q = queue[c] /\ InLine(q)
    BY QueueFacts
  <2>2. PICK r : r = queue'[c]
    OBVIOUS
  <2>3. /\ r \in Seq(Pending) /\ n \in 1..Len(q) /\ Len(r) = Len(q) - n /\ \A k \in 1..Len(r) : r[k] = q[n + k]
        /\ \A d \in Conn \ {c} : queue'[d] = queue[d]
    BY <2>0, <2>1, <2>2 DEF Leaves
  <2>4. Len(q) \in Nat /\ Len(r) \in Nat /\ \A k \in 1..Len(r) : n + k \in 1..Len(q) /\ 1 < n + k
    BY <2>1, <2>3
  <2>5. /\ q[1].kind = "write" /\ q[1].index = index
        /\ (n < Len(q) => q[n + 1].kind = "write" /\ q[n + 1].index > index)
        /\ \A k \in 1..n : q[k].kind = "write" => k = 1
    BY <2>0, <2>1, <2>3 DEF Takes
  <2>6. InLine(r)
    <3>1. r # <<>> => r[1].kind = "write"
      <4> SUFFICES ASSUME r # <<>> PROVE r[1].kind = "write"
        OBVIOUS
      <4>1. 1 \in 1..Len(r)
        BY <2>3
      <4> QED BY <2>3, <2>4, <2>5, <4>1
    <3>2. ASSUME NEW j \in 1..Len(r), NEW k \in 1..Len(r), j < k, r[j].kind = "write", r[k].kind = "write"
          PROVE  r[j].index < r[k].index
      <4>1. n + j \in 1..Len(q) /\ n + k \in 1..Len(q) /\ n + j < n + k /\ r[j] = q[n + j] /\ r[k] = q[n + k]
        BY <2>3, <2>4, <3>2
      <4> QED BY <2>1, <3>2, <4>1 DEF InLine
    <3> QED BY <3>1, <3>2 DEF InLine
  <2>7. ASSUME NEW d \in Conn, NEW p \in Pending, Waits(d, p), p.kind = "write" => p.index # index
        PROVE  WaitsNext(d, p)
    <3>1. p.index \in Int
      BY DEF Pending
    <3>2. p.kind = "write" => lastApplied < p.index /\ p.index \in DOMAIN blocked
      BY <2>7 DEF Waits
    <3>3. p.kind = "write" => lastApplied' < p.index /\ p.index \in DOMAIN blocked' /\ blocked'[p.index] = blocked[p.index]
      BY <1>0, <2>0, <2>7, <3>1, <3>2
    <3> QED BY <1>1, <2>7, <3>3, StillWaits
  <2>8. \A k \in 1..Len(r) : WaitsNext(c, r[k])
    <3> SUFFICES ASSUME NEW k \in 1..Len(r) PROVE WaitsNext(c, r[k])
      OBVIOUS
    <3>1. n + k \in 1..Len(q) /\ 1 < n + k /\ r[k] = q[n + k] /\ 1 \in 1..Len(q)
      BY <2>3, <2>4
    <3>2. r[k] \in Pending /\ Waits(c, r[k])
      BY <2>1, <3>1, QueueFacts
    <3>3. r[k].kind = "write" => q[1].index < r[k].index
      BY <2>1, <2>5, <3>1 DEF InLine
    <3>4. r[k].index \in Int
      BY <3>2 DEF Pending
    <3>5. r[k].kind = "write" => r[k].index # index
      BY <1>0, <2>5, <3>3, <3>4
    <3> QED BY <2>7, <3>2, <3>5
  <2>9. ASSUME NEW d \in Conn \ {c}
        PROVE  InLine(queue'[d]) /\ \A k \in 1..Len(queue'[d]) : WaitsNext(d, queue'[d][k])
    <3>1. queue'[d] = queue[d] /\ InLine(queue[d])
      BY <2>3, QueueFacts
    <3>2. ASSUME NEW k \in 1..Len(queue[d]) PROVE WaitsNext(d, queue[d][k])
      <4>1. PICK p \in Pending : p = queue[d][k] /\ Waits(d, p)
        BY <3>2, QueueFacts
      <4>2. p.kind = "write" => blocked[p.index] = d
        BY <4>1 DEF Waits
      <4> QED BY <2>0, <2>7, <4>1, <4>2
    <3> QED BY <3>1, <3>2
  <2>10. QueueInv'
    BY <2>2, <2>6, <2>8, <2>9, QueueNext
  <2>11. ASSUME NEW d \in Conn, NEW x, x > index, \E k \in 1..Len(queue[d]) : queue[d][k].index = x
         PROVE  \E k \in 1..Len(queue'[d]) : queue'[d][k].index = x
    <3>1. PICK k \in 1..Len(queue[d]) : queue[d][k].index = x
      BY <2>11
    <3>2. CASE d # c
      BY <2>3, <3>1, <3>2
    <3>3. CASE d = c
      <4>1. k > n
        <5> SUFFICES ASSUME k \in 1..n PROVE FALSE
          BY <2>1, <2>3, <2>4, <3>1, <3>3
        <5>1. q[k] \in Pending /\ Waits(c, q[k]) /\ q[k].index = x
          BY <2>1, <3>1, <3>3, QueueFacts
        <5>2. q[k].kind # "write" => x = -1
          BY <5>1 DEF Waits
        <5>3. k = 1
          BY <1>0, <2>5, <2>11, <5>2
        <5> QED BY <1>0, <2>5, <2>11, <5>1, <5>3
      <4>2. k - n \in 1..Len(r) /\ n + (k - n) = k
        BY <2>1, <2>3, <2>4, <3>1, <3>3, <4>1
      <4>3. r[k - n].index = x
        BY <2>1, <2>3, <3>1, <3>3, <4>2
      <4> QED BY <2>2, <3>3, <4>2, <4>3
    <3> QED BY <3>2, <3>3
  <2>12. BlockedInv'
    <3> SUFFICES ASSUME NEW x \in DOMAIN blocked'
                 PROVE  \E k \in 1..Len(queue'[blocked'[x]]) : queue'[blocked'[x]][k].index = x
      BY DEF BlockedInv
    <3>1. x \in DOMAIN blocked /\ x # index /\ blocked'[x] = blocked[x] /\ blocked[x] \in Conn
      BY <1>0, <2>0
    <3>2. PICK k \in 1..Len(queue[blocked[x]]) : queue[blocked[x]][k].index = x
      BY <3>1 DEF PathInv, BlockedInv
    <3>3. PICK p \in Pending : p = queue[blocked[x]][k] /\ Waits(blocked[x], p)
      BY <3>1, <3>2, QueueFacts
    <3>4. x \in Int /\ x # -1
      BY <3>1 DEF PathInv, PathType, TypeOK, LogSize
    <3>5. lastApplied < x
      BY <3>2, <3>3, <3>4 DEF Waits
    <3>6. x > index
      BY <1>0, <3>1, <3>4, <3>5
    <3> QED BY <2>11, <3>1, <3>2, <3>6
  <2>13. LastInv'
    <3> SUFFICES ASSUME NEW d \in Conn, ~ (lastIndex[d] <= index)
                 PROVE  \E k \in 1..Len(queue'[d]) : queue'[d][k].index = lastIndex[d]
      BY <1>0 DEF LastInv
    <3>0. lastIndex[d] \in Int
      BY <1>0
    <3>1. lastIndex[d] > index /\ ~ (lastIndex[d] <= lastApplied)
      BY <1>0, <3>0
    <3>2. \E k \in 1..Len(queue[d]) : queue[d][k].index = lastIndex[d]
      BY <3>1 DEF PathInv, LastInv
    <3> QED BY <2>11, <3>1, <3>2
  <2> QED BY <2>10, <2>12, <2>13
<1>4. LockInv'
  <2>1. DOMAIN blocked' \subseteq DOMAIN blocked
    BY ApplyResult DEF Dispatches
  <2>2. applying' # 0 => lastApplied' < applying'
    BY <1>0 DEF Applies
  <2> QED BY <1>0, <2>1, <2>2 DEF PathInv, LockInv
<1> QED
  BY <1>2, <1>3, <1>4, ApplyResult

LEMMA PathInit == Init => PathInv
<1> SUFFICES ASSUME Init PROVE PathInv
  OBVIOUS
<1>1. /\ LogSize = 2 /\ lastApplied = 0 /\ log \in Seq(Entry)
  BY DEF Init, LogSize, lastApplied, Entry, Tx, Foreign
<1>2. NoCall \in Call
  BY DEF NoCall, Call, Kind
<1>3. DOMAIN blocked = {} /\ blocked \in [DOMAIN blocked -> Conn] /\ applied \in Seq(Tx)
  BY DEF Init
<1>4. ControlType
  BY <1>2, ConnAssumption DEF Init, ControlType
<1>5. DataType
  BY <1>1, <1>3 DEF Init, DataType
<1>6. \A c \in Conn : queue[c] = <<>> /\ lastIndex[c] = -1
  BY DEF Init
<1>7. QueueInv /\ BlockedInv /\ LastInv
  BY <1>1, <1>3, <1>6 DEF QueueInv, InLine, BlockedInv, LastInv
<1>8. LockInv
  BY <1>3 DEF Init, LockInv
<1> QED
  BY <1>4, <1>5, <1>7, <1>8, TypeParts DEF PathInv

LEMMA PathStep == PathInv /\ [Next]_vars => PathInv'
<1>1. ASSUME PathInv, Next PROVE PathInv'
  <2>1. QueueInv' /\ BlockedInv' /\ LastInv' /\ LockInv'
    BY <1>1, StepKinds, CalmQueues, RespondQueues, WriteResult, WriteQueues, ApplyQueues,
       FlushQueues, CutQueues DEF PathInv
  <2> QED BY <1>1, <2>1, TypeStep DEF PathInv
<1>2. ASSUME PathInv, UNCHANGED vars PROVE PathInv'
  <2>1. PathType'
    BY <1>2 DEF PathInv, PathType, TypeOK, LogSize, lastApplied, Range, vars, raft, clients
  <2>2. /\ UNCHANGED <<log, applied, blocked, queue, lastIndex, applying, raftCommand>>
        /\ LogSize' = LogSize /\ lastApplied' = lastApplied
    BY <1>2 DEF vars, raft, clients, LogSize, lastApplied
  <2>3. QueueInv'
    BY <1>2, <2>2 DEF PathInv, QueueInv, InLine, Waits
  <2>4. BlockedInv' /\ LastInv' /\ LockInv'
    BY <1>2, <2>2 DEF PathInv, BlockedInv, LastInv, LockInv
  <2> QED BY <2>1, <2>3, <2>4 DEF PathInv
<1> QED
  BY <1>1, <1>2

LEMMA PathSafe == PathInv => QueuesConsistent
<1> SUFFICES ASSUME PathInv PROVE QueuesConsistent
  OBVIOUS
<1>0. /\ TypeOK /\ lastApplied \in Nat /\ LogSize \in Nat /\ lastApplied < LogSize
      /\ lastIndex \in [Conn -> Nat \cup {-1}]
  BY SMTT(30) DEF PathInv, PathType, TypeOK, lastApplied, LogSize
<1>1. BlockedWritesMatch
  BY DEF PathInv, QueueInv, BlockedInv, Waits, BlockedWritesMatch
<1>2. \A c \in Conn : lastIndex[c] < LogSize
  <2> SUFFICES ASSUME NEW c \in Conn PROVE lastIndex[c] < LogSize
    OBVIOUS
  <2>1. CASE lastIndex[c] <= lastApplied
    BY <1>0, <2>1
  <2>2. ASSUME NEW k \in 1..Len(queue[c]), queue[c][k].index = lastIndex[c] PROVE lastIndex[c] < LogSize
    <3>1. Waits(c, queue[c][k])
      BY <2>2, QueueFacts
    <3>2. lastIndex[c] < LogSize \/ lastIndex[c] = -1
      BY <2>2, <3>1 DEF Waits
    <3> QED BY <1>0, <3>2
  <2> QED BY <2>1, <2>2 DEF PathInv, LastInv
<1>3. ASSUME lastApplied + 1 \in DOMAIN blocked
      PROVE  ~ DispatchThrows(queue[blocked[lastApplied + 1]], lastApplied + 1)
  <2>1. PICK i \in Nat \ {0} : i = lastApplied + 1
    BY <1>0
  <2>2. PICK c \in Conn : c = blocked[i]
    BY <1>3, <2>1, NextIsDue
  <2>3. PICK q : q = queue[c]
    OBVIOUS
  <2>4. Due(q, i) /\ Len(q) \in Nat
    BY <1>3, <2>1, <2>2, <2>3, NextIsDue, QueueFacts
  <2>5. q # <<>> /\ q[1].index = i
    BY <2>4 DEF Due
  <2>6. Takes(q, i, Dispatchable(q, i))
    BY <2>4, <2>5, DispatchableTakes
  <2>7. ~ DispatchThrows(q, i)
    BY <2>4, <2>5, <2>6, DispatchResult
  <2> QED BY <2>1, <2>2, <2>3, <2>7
<1>4. NoQueueCorruption
  BY <1>2, <1>3 DEF NoQueueCorruption
<1> QED
  BY <1>0, <1>1, <1>4 DEF QueuesConsistent

LEMMA PathAlways == Spec => []PathInv
  BY PathInit, PathStep, PTL DEF Spec

\* RaftWriteTracker, RaftBlockedWrites and PendingQueue: for any number of clients
\* and requests, journal, blocked writes and queues agree, and none of the
\* exceptions of the queues can be thrown.
THEOREM QueuesConsistentCorrect == Spec => []QueuesConsistent
  BY PathAlways, PathSafe, PTL

-----------------------------------------------------------------------------
(* Answers *)

LEMMA OrderJoins ==
    ASSUME NEW sent \in Seq(Answer), NEW q \in Seq(Pending), NEW r \in Seq(Pending), NEW done \in Int,
           NEW there \in BOOLEAN, NEW idle \in BOOLEAN, InOrder(sent, q, done, there, idle),
           NEW p, Len(r) = Len(q) + 1, r[Len(q) + 1] = p, \A k \in 1..Len(q) : r[k] = q[k],
           p.id = done + Len(q) + 1, p.raw.id = done + Len(q) + 1
    PROVE  InOrder(sent, r, done, there, TRUE)
<1>1. Len(q) \in Nat /\ Len(r) \in Nat
  OBVIOUS
<1>2. ASSUME NEW k \in 1..Len(r) PROVE r[k].id = done + k /\ r[k].raw.id = done + k
  <2>1. CASE k \in 1..Len(q)
    BY <2>1 DEF InOrder
  <2>2. CASE k = Len(q) + 1
    BY <1>1, <2>2
  <2> QED BY <1>1, <2>1, <2>2
<1> QED
  BY <1>2 DEF InOrder

\* r is q without its first n elements, now is sent and then s.
DropsFirst(q, r, n) ==
    n <= Len(q) /\ Len(r) = Len(q) - n /\ \A k \in 1..Len(r) : r[k] = q[n + k]

GoesOn(sent, now, s) ==
    /\ Len(now) = Len(sent) + Len(s)
    /\ \A k \in 1..Len(sent) : now[k] = sent[k]
    /\ \A k \in 1..Len(s) : now[Len(sent) + k] = s[k]

NumberedFrom(s, done) == \A k \in 1..Len(s) : s[k].id = done + k

LEMMA OrderSends ==
    ASSUME NEW sent \in Seq(Answer), NEW q \in Seq(Pending), NEW r \in Seq(Pending), NEW done \in Int,
           NEW there \in BOOLEAN, NEW idle \in BOOLEAN, InOrder(sent, q, done, there, idle),
           NEW n \in Nat, DropsFirst(q, r, n),
           NEW s \in Seq(Answer), Len(s) = n, NumberedFrom(s, done),
           NEW now \in Seq(Answer), ~ there => now = sent, there => GoesOn(sent, now, s)
    PROVE  InOrder(now, r, done + n, there, idle)
<1> USE DEF DropsFirst, GoesOn, NumberedFrom
<1>1. Len(q) \in Nat /\ Len(r) \in Nat /\ Len(sent) \in Nat
  OBVIOUS
<1>2. ASSUME NEW k \in 1..Len(r) PROVE r[k].id = (done + n) + k /\ r[k].raw.id = (done + n) + k
  <2>1. n + k \in 1..Len(q) /\ done + (n + k) = (done + n) + k
    BY <1>1
  <2>2. q[n + k].id = done + (n + k) /\ q[n + k].raw.id = done + (n + k)
    BY <2>1 DEF InOrder
  <2> QED BY <2>1, <2>2
<1>3. ASSUME NEW k \in 1..Len(now) PROVE now[k].id = k
  <2>0. CASE ~ there
    BY <1>3, <2>0 DEF InOrder
  <2>1. CASE there /\ k <= Len(sent)
    <3>1. k \in 1..Len(sent)
      BY <1>1, <1>3, <2>1
    <3>2. now[k] = sent[k] /\ sent[k].id = k
      BY <2>1, <3>1 DEF InOrder
    <3> QED BY <3>2
  <2>2. CASE there /\ k > Len(sent)
    <3>1. k - Len(sent) \in 1..n /\ Len(sent) + (k - Len(sent)) = k /\ Len(sent) = done
      BY <1>1, <1>3, <2>2 DEF InOrder
    <3>2. now[k] = s[k - Len(sent)] /\ s[k - Len(sent)].id = done + (k - Len(sent))
      BY <2>2, <3>1
    <3> QED BY <1>1, <3>1, <3>2
  <2> QED BY <1>1, <2>0, <2>1, <2>2
<1>4. /\ Len(now) <= done + n /\ (there => Len(now) = done + n) /\ (~ there => idle)
  BY <1>1 DEF InOrder
<1> QED
  BY <1>2, <1>3, <1>4 DEF InOrder

LEMMA OrderAnswer ==
    ASSUME NEW sent \in Seq(Answer), NEW done \in Int, InOrder(sent, <<>>, done, TRUE, FALSE),
           NEW now \in Seq(Answer), Len(now) = Len(sent) + 1,
           \A k \in 1..Len(sent) : now[k] = sent[k], now[Len(sent) + 1].id = done + 1
    PROVE  InOrder(now, <<>>, done + 1, TRUE, TRUE)
<1>1. Len(sent) \in Nat /\ Len(sent) = done
  BY DEF InOrder
<1>2. ASSUME NEW k \in 1..Len(now) PROVE now[k].id = k
  <2>1. CASE k <= Len(sent)
    BY <1>1, <2>1 DEF InOrder
  <2>2. CASE k = Len(sent) + 1
    BY <1>1, <2>2
  <2> QED BY <1>1, <2>1, <2>2
<1> QED
  BY <1>1, <1>2 DEF InOrder

LEMMA RowFacts ==
    ASSUME PathType, NEW c \in Conn
    PROVE  /\ answers[c] \in Seq(Answer) /\ queue[c] \in Seq(Pending) /\ Len(queue[c]) \in Nat
           /\ Len(answers[c]) \in Nat /\ issued[c] \in Nat /\ attached[c] \in BOOLEAN
           /\ InCall(c) \in {0, 1} /\ Done(c) \in Int
<1>1. /\ answers[c] \in Seq(Answer) /\ queue[c] \in Seq(Pending) /\ issued[c] \in Nat /\ attached[c] \in BOOLEAN
  BY DEF PathType, TypeOK
<1>2. InCall(c) \in {0, 1}
  BY DEF InCall
<1>3. Len(queue[c]) \in Nat /\ Len(answers[c]) \in Nat
  BY <1>1
<1>4. Done(c) \in Int
  BY <1>1, <1>2, <1>3 DEF Done
<1> QED
  BY <1>1, <1>2, <1>3, <1>4

\* A connection nothing happened to.
LEMMA SameRow ==
    ASSUME NEW c \in Conn, Numbered(c), answers'[c] = answers[c], queue'[c] = queue[c],
           issued'[c] = issued[c], call'[c].pc = "idle" <=> call[c].pc = "idle", attached'[c] = attached[c]
    PROVE  Numbered(c)'
<1>1. InCall(c)' = InCall(c)
  BY DEF InCall
<1>2. Done(c)' = Done(c)
  BY <1>1 DEF Done
<1> QED
  BY <1>2 DEF Numbered, InOrder

LEMMA CalmOrder ==
    ASSUME PathInv, OrderInv, Calms
    PROVE  OrderInv'
<1> SUFFICES ASSUME NEW c \in Conn PROVE Numbered(c)'
  BY DEF OrderInv
<1>0. answers'[c] = answers[c] /\ queue'[c] = queue[c] /\ CallGoesOn(c) /\ Numbered(c) /\ PathType
  BY DEF Calms, OrderInv, PathInv
<1>1. CASE issued'[c] = issued[c] /\ (call'[c].pc = "idle" <=> call[c].pc = "idle") /\ attached'[c] = attached[c]
  BY <1>0, <1>1, SameRow
<1>2. CASE /\ attached[c] /\ attached'[c] = attached[c]
           /\ call[c].pc = "idle" /\ call'[c].pc # "idle" /\ issued'[c] = issued[c] + 1
  <2>1. InCall(c) = 0 /\ InCall(c)' = 1
    BY <1>2 DEF InCall
  <2>2. Done(c)' = Done(c)
    BY <1>0, <1>2, <2>1, RowFacts DEF Done
  <2> QED BY <1>0, <1>2, <2>2 DEF Numbered, InOrder
<1>3. CASE /\ call[c].pc = "idle" /\ call'[c] = call[c]
           /\ issued'[c] = issued[c] /\ attached'[c] = FALSE
  <2>1. InCall(c)' = InCall(c) /\ Done(c)' = Done(c)
    BY <1>0, <1>3 DEF InCall, Done
  <2> QED BY <1>0, <1>3, <2>1 DEF Numbered, InOrder
<1> QED
  BY <1>0, <1>1, <1>2, <1>3 DEF CallGoesOn

\* A call that returns leaves the others alone.
LEMMA OtherRows ==
    ASSUME PathInv, OrderInv, NEW c \in Conn, Return(c), UNCHANGED <<attached, issued>>, NEW d \in Conn \ {c},
           answers'[d] = answers[d], queue'[d] = queue[d]
    PROVE  Numbered(d)'
<1>1. call' = [call EXCEPT ![c] = NoCall] /\ call \in [Conn -> Call]
  BY DEF Return, PathInv, PathType, TypeOK
<1>2. call'[d] = call[d]
  BY <1>1
<1> QED
  BY <1>2, SameRow DEF OrderInv

LEMMA ReturnedRow ==
    ASSUME PathType, NEW c \in Conn, Return(c), UNCHANGED <<attached, issued>>, call[c].pc # "idle", Numbered(c)
    PROVE  /\ call'[c].pc = "idle" /\ InCall(c) = 1 /\ InCall(c)' = 0
           /\ Done(c) = issued[c] - 1 - Len(queue[c]) /\ Done(c)' = issued[c] - Len(queue'[c])
           /\ attached[c] = TRUE /\ attached'[c] = TRUE
<1>1. call' = [call EXCEPT ![c] = NoCall] /\ call \in [Conn -> Call]
  BY DEF Return, PathType, TypeOK
<1>2. call'[c].pc = "idle"
  BY <1>1 DEF NoCall
<1>3. InCall(c) = 1 /\ InCall(c)' = 0
  BY <1>2 DEF InCall
<1>4. Done(c) = issued[c] - 1 - Len(queue[c])
  BY <1>3 DEF Done
<1>5. issued[c] \in Nat /\ attached[c] \in BOOLEAN
  BY RowFacts
<1>6. Done(c)' = issued[c] - 0 - Len(queue'[c])
  BY <1>3 DEF Done
<1>7. issued[c] - 0 = issued[c]
  BY <1>5
<1>8. attached[c] = TRUE
  BY <1>5 DEF Numbered, InOrder
<1> QED
  BY <1>2, <1>3, <1>4, <1>6, <1>7, <1>8

LEMMA JoinedOrder ==
    ASSUME PathInv, OrderInv, PathType', NEW c \in Conn, NEW p \in Pending, Joins(c, p), Return(c),
           UNCHANGED <<attached, issued, answers>>, call[c].pc # "idle", p.id = issued[c], p.raw.id = issued[c]
    PROVE  OrderInv'
<1>0. PathType /\ Numbered(c)
  BY DEF PathInv, OrderInv
<1>1. ASSUME NEW d \in Conn \ {c} PROVE Numbered(d)'
  <2>1. queue'[d] = queue[d]
    BY <1>1 DEF Joins
  <2> QED BY <1>1, <2>1, OtherRows
<1>2. Numbered(c)'
  <2>1. /\ call'[c].pc = "idle" /\ Done(c) = issued[c] - 1 - Len(queue[c])
        /\ Done(c)' = issued[c] - Len(queue'[c]) /\ attached[c] = TRUE /\ attached'[c] = TRUE
    BY <1>0, ReturnedRow
  <2>2. PICK q \in Seq(Pending), r \in Seq(Pending), sent \in Seq(Answer), done \in Int :
           q = queue[c] /\ r = queue'[c] /\ sent = answers[c] /\ done = Done(c)
    BY <1>0, RowFacts DEF Joins
  <2>3. /\ Len(r) = Len(q) + 1 /\ r[Len(q) + 1] = p /\ \A k \in 1..Len(q) : r[k] = q[k]
    BY <2>2 DEF Joins
  <2>4. Len(q) \in Nat /\ issued[c] \in Nat
    BY <1>0, <2>2, RowFacts
  <2>5. p.id = done + Len(q) + 1 /\ p.raw.id = done + Len(q) + 1 /\ Done(c)' = done
    <3>1. done = issued[c] - 1 - Len(q) /\ Done(c)' = issued[c] - Len(r)
      BY <2>1, <2>2
    <3>2. PICK i \in Nat, l \in Nat : i = issued[c] /\ l = Len(q)
      BY <2>4
    <3>3. Len(r) = l + 1 /\ done = i - 1 - l /\ Done(c)' = i - Len(r)
      BY <2>3, <3>1, <3>2
    <3>4. i = done + l + 1 /\ i - (l + 1) = done
      BY <3>3
    <3>5. Done(c)' = done
      BY <3>3, <3>4
    <3> QED BY <3>2, <3>4, <3>5
  <2>6. PICK idle \in BOOLEAN : idle = (call[c].pc = "idle")
    OBVIOUS
  <2>7. InOrder(sent, q, done, TRUE, idle)
    BY <1>0, <2>1, <2>2, <2>6 DEF Numbered
  <2>8. InOrder(sent, r, done, TRUE, TRUE)
    BY <2>3, <2>5, <2>7, OrderJoins
  <2> QED BY <2>1, <2>2, <2>5, <2>8 DEF Numbered
<1> QED
  BY <1>1, <1>2 DEF OrderInv

LEMMA RespondOrder ==
    ASSUME PathInv, OrderInv, PathType', NEW c \in Conn, Responds(c)
    PROVE  OrderInv'
<1>0. /\ PathType /\ Numbered(c) /\ call[c].pc # "idle" /\ Return(c) /\ UNCHANGED <<attached, issued>>
  BY DEF PathInv, OrderInv, Responds
<1>1. ASSUME NEW p \in Pending, RespondsLater(c, p) PROVE OrderInv'
  <2>1. Joins(c, p)
    BY <1>1, AppendJoins DEF RespondsLater, PathInv, PathType, TypeOK
  <2> QED BY <1>0, <1>1, <2>1, JoinedOrder DEF RespondsLater
<1>2. ASSUME NEW a \in Answer, RespondsNow(c, a) PROVE OrderInv'
  <2>1. <<a>> \in Seq(Answer) /\ Len(<<a>>) = 1 /\ <<a>>[1] = a
    OBVIOUS
  <2>2. Sends(c, <<a>>)
    BY <1>2, <2>1, SendSends DEF RespondsNow, PathInv, PathType, TypeOK
  <2>3. ASSUME NEW d \in Conn \ {c} PROVE Numbered(d)'
    <3>1. queue'[d] = queue[d] /\ answers'[d] = answers[d]
      BY <1>2, <2>2, <2>3 DEF RespondsNow, Sends
    <3> QED BY <1>0, <2>3, <3>1, OtherRows
  <2>4. Numbered(c)'
    <3>1. /\ call'[c].pc = "idle" /\ Done(c) = issued[c] - 1 - Len(queue[c])
          /\ Done(c)' = issued[c] - Len(queue'[c]) /\ attached[c] = TRUE /\ attached'[c] = TRUE
      BY <1>0, ReturnedRow
    <3>2. PICK sent \in Seq(Answer), now \in Seq(Answer), done \in Int :
             sent = answers[c] /\ now = answers'[c] /\ done = Done(c)
      BY <1>0, <2>2, RowFacts DEF Sends
    <3>3. /\ Len(now) = Len(sent) + 1 /\ (\A k \in 1..Len(sent) : now[k] = sent[k]) /\ now[Len(sent) + 1] = a
      <4>1. PICK s : s = <<a>>
        OBVIOUS
      <4>2. Sends(c, s) /\ Len(s) = 1 /\ s[1] = a
        BY <2>1, <2>2, <4>1
      <4> QED BY <3>1, <3>2, <4>2 DEF Sends
    <3>4. queue[c] = <<>> /\ queue'[c] = <<>> /\ Len(<<>>) = 0 /\ a.id = issued[c]
      BY <1>2 DEF RespondsNow
    <3>5. issued[c] \in Nat
      BY <1>0, RowFacts
    <3>6. a.id = done + 1 /\ Done(c)' = done + 1
      BY <3>1, <3>2, <3>4, <3>5
    <3>7. InOrder(sent, <<>>, done, TRUE, FALSE)
      BY <1>0, <3>1, <3>2, <3>4 DEF Numbered
    <3>8. InOrder(now, <<>>, done + 1, TRUE, TRUE)
      BY <3>3, <3>6, <3>7, OrderAnswer
    <3> QED BY <3>1, <3>2, <3>4, <3>6, <3>8 DEF Numbered
  <2> QED BY <2>3, <2>4 DEF OrderInv
<1> QED
  BY <1>1, <1>2 DEF Responds

\* A prefix of a queue is answered: by the applier, or by a flush.
LEMMA AnsweredOrder ==
    ASSUME PathType, PathType', NEW c \in Conn, Numbered(c), NEW n \in Nat,
           DropsFirst(queue[c], queue'[c], n),
           NEW s \in Seq(Answer), Len(s) = n, NumberedFrom(s, Done(c)), Sends(c, s),
           call'[c] = call[c], attached'[c] = attached[c], issued'[c] = issued[c]
    PROVE  Numbered(c)'
<1>1. PICK q \in Seq(Pending), r \in Seq(Pending), sent \in Seq(Answer), now \in Seq(Answer), done \in Int,
           there \in BOOLEAN, idle \in BOOLEAN :
         /\ q = queue[c] /\ r = queue'[c] /\ sent = answers[c] /\ now = answers'[c] /\ done = Done(c)
         /\ there = attached[c] /\ idle = (call[c].pc = "idle")
  <2>1. queue'[c] \in Seq(Pending) /\ answers'[c] \in Seq(Answer)
    BY DEF PathType, TypeOK
  <2> QED BY <2>1, RowFacts
<1>2. InOrder(sent, q, done, there, idle)
  BY <1>1 DEF Numbered
<1>3. DropsFirst(q, r, n) /\ NumberedFrom(s, done)
  BY <1>1
<1>4. (~ there => now = sent) /\ (there => GoesOn(sent, now, s))
  BY <1>1 DEF Sends, GoesOn
<1>5. InOrder(now, r, done + n, there, idle)
  BY <1>2, <1>3, <1>4, OrderSends
<1>6. Done(c)' = done + n
  <2>1. InCall(c)' = InCall(c)
    BY DEF InCall
  <2>2. Done(c)' = issued[c] - InCall(c) - Len(r) /\ done = issued[c] - InCall(c) - Len(q)
    BY <1>1, <2>1 DEF Done
  <2>3. issued[c] \in Nat /\ InCall(c) \in {0, 1} /\ Len(q) \in Nat
    BY <1>1, RowFacts
  <2>4. Len(r) = Len(q) - n
    BY <1>3 DEF DropsFirst
  <2> QED BY <2>2, <2>3, <2>4
<1> QED
  BY <1>1, <1>5, <1>6 DEF Numbered

LEMMA DispatchedIds ==
    ASSUME PathInv, NEW c \in Conn, Numbered(c), NEW n \in 1..Len(queue[c])
    PROVE  NumberedFrom(DispatchedAnswers(c, n), Done(c))
<1>1. Len(DispatchedAnswers(c, n)) = n
  BY DispatchedType
<1> SUFFICES ASSUME NEW k \in 1..n PROVE DispatchedAnswers(c, n)[k].id = Done(c) + k
  BY <1>1 DEF NumberedFrom
<1>2. k \in 1..Len(queue[c])
  BY QueueFacts
<1>3. queue[c][k].id = Done(c) + k /\ queue[c][k].raw.id = Done(c) + k
  BY <1>2 DEF Numbered, InOrder
<1>4. DispatchedAnswers(c, n)[k] = IF queue[c][k].kind = "raw" THEN queue[c][k].raw
                                   ELSE Ok(queue[c][k].id, lastApplied + 1)
  BY DEF DispatchedAnswers
<1>5. Ok(queue[c][k].id, lastApplied + 1).id = queue[c][k].id
  BY DEF Ok
<1> QED
  BY <1>3, <1>4, <1>5

LEMMA ApplyOrder ==
    ASSUME PathInv, PathType', OrderInv, ApplyCommit
    PROVE  OrderInv'
<1>0. UNCHANGED <<attached, call, issued>>
  BY ApplyResult DEF Applies
<1>1. CASE UNCHANGED <<answers, queue, blocked>>
  BY <1>0, <1>1, SameRow DEF OrderInv
<1>2. ASSUME NEW c \in Conn, NEW n \in Nat, Dispatches(c, n) PROVE OrderInv'
  <2>1. n \in 1..Len(queue[c]) /\ DropsFirst(queue[c], queue'[c], n) /\ \A d \in Conn \ {c} : queue'[d] = queue[d]
    BY <1>2, QueueFacts DEF Dispatches, Leaves, DropsFirst
  <2>2. PICK s \in Seq(Answer) : s = DispatchedAnswers(c, n) /\ Len(s) = n
    BY <2>1, DispatchedType
  <2>3. Sends(c, s)
    BY <1>2, <2>2, SendSends DEF Dispatches, PathInv, PathType, TypeOK
  <2>4. NumberedFrom(s, Done(c)) /\ Numbered(c)
    BY <2>1, <2>2, DispatchedIds DEF OrderInv
  <2>5. Numbered(c)'
    BY <1>0, <2>1, <2>2, <2>3, <2>4, AnsweredOrder DEF PathInv
  <2>6. ASSUME NEW d \in Conn \ {c} PROVE Numbered(d)'
    <3>1. queue'[d] = queue[d] /\ answers'[d] = answers[d]
      BY <2>1, <2>3, <2>6 DEF Sends
    <3> QED BY <1>0, <2>6, <3>1, SameRow DEF OrderInv
  <2> QED BY <2>5, <2>6 DEF OrderInv
<1> QED
  BY <1>1, <1>2, ApplyResult

LEMMA FlushOrder ==
    ASSUME PathInv, PathType', OrderInv, Flushes
    PROVE  OrderInv'
<1> SUFFICES ASSUME NEW c \in Conn PROVE Numbered(c)'
  BY DEF OrderInv
<1>0. UNCHANGED <<attached, call, issued>> /\ Numbered(c) /\ PathType
  BY DEF Flushes, OrderInv, PathInv
<1>1. PICK q \in Seq(Pending) : q = queue[c]
  BY QueueFacts
<1>2. PICK s \in Seq(Answer) : s = flushPending(q) /\ Len(s) = Len(q)
  BY FlushPendingResult
<1>3. queue'[c] = <<>> /\ Len(<<>>) = 0
  BY DEF Flushes
<1>4. Len(q) \in Nat /\ DropsFirst(queue[c], queue'[c], Len(q))
  BY <1>1, <1>3 DEF DropsFirst
<1>5. NumberedFrom(s, Done(c))
  <2> SUFFICES ASSUME NEW k \in 1..Len(q) PROVE s[k].id = Done(c) + k
    BY <1>2 DEF NumberedFrom
  <2>1. q[k].id = Done(c) + k /\ q[k].raw.id = Done(c) + k
    BY <1>0, <1>1 DEF Numbered, InOrder
  <2>2. s[k] = IF q[k].kind = "raw" THEN q[k].raw ELSE Err(q[k].id)
    BY <1>2, FlushPendingResult
  <2>3. Err(q[k].id).id = q[k].id
    BY DEF Err
  <2> QED BY <2>1, <2>2, <2>3
<1>6. PICK sent \in Seq(Answer) : sent = answers[c]
  BY <1>0, RowFacts
<1>7. answers'[c] = IF attached[c] THEN sent \o s ELSE sent
  BY <1>1, <1>2, <1>6 DEF Flushes
<1>8. GoesOn(sent, sent \o s, s)
  BY ConcatFacts DEF GoesOn
<1>9. PICK now \in Seq(Answer) : now = answers'[c]
  BY DEF PathType, TypeOK
<1>10. PICK there \in BOOLEAN, idle \in BOOLEAN, done \in Int :
          there = attached[c] /\ idle = (call[c].pc = "idle") /\ done = Done(c)
  BY <1>0, RowFacts
<1>11. (~ there => now = sent) /\ (there => GoesOn(sent, now, s))
  BY <1>7, <1>8, <1>9, <1>10
<1>12. InOrder(sent, q, done, there, idle) /\ NumberedFrom(s, done)
  BY <1>0, <1>1, <1>5, <1>6, <1>10 DEF Numbered
<1>13. <<>> \in Seq(Pending) /\ DropsFirst(q, <<>>, Len(q))
  BY <1>1, <1>3, <1>4
<1>14. InOrder(now, <<>>, done + Len(q), there, idle)
  <2>1. PICK r \in Seq(Pending), n \in Nat : r = <<>> /\ n = Len(q)
    BY <1>4, <1>13
  <2>2. DropsFirst(q, r, n) /\ Len(s) = n
    BY <1>2, <1>13, <2>1
  <2>3. InOrder(now, r, done + n, there, idle)
    BY <1>11, <1>12, <2>2, OrderSends
  <2> QED BY <2>1, <2>3
<1>15. Done(c)' = done + Len(q)
  <2>1. InCall(c)' = InCall(c)
    BY <1>0 DEF InCall
  <2>2. Done(c)' = issued[c] - InCall(c) - 0 /\ done = issued[c] - InCall(c) - Len(q)
    BY <1>0, <1>1, <1>3, <1>10, <2>1 DEF Done
  <2>3. issued[c] \in Nat /\ InCall(c) \in {0, 1} /\ Len(q) \in Nat
    BY <1>0, <1>4, RowFacts
  <2> QED BY <2>2, <2>3
<1> QED
  BY <1>0, <1>3, <1>9, <1>10, <1>14, <1>15 DEF Numbered

LEMMA OrderInit == Init => OrderInv
<1> SUFFICES ASSUME Init, NEW c \in Conn PROVE Numbered(c)
  BY DEF OrderInv
<1>1. call[c].pc = "idle" /\ Len(queue[c]) = 0 /\ Len(answers[c]) = 0 /\ issued[c] = 0
  BY DEF Init, NoCall
<1>2. Done(c) = 0
  BY <1>1 DEF Done, InCall
<1> QED
  BY <1>1, <1>2 DEF Numbered, InOrder

LEMMA OrderStep == PathInv /\ OrderInv /\ [Next]_vars => OrderInv'
<1>1. ASSUME PathInv, OrderInv, Next PROVE OrderInv'
  <2>0. PathType'
    BY <1>1, TypeStep
  <2>1. ASSUME NEW c \in Conn, AppendWrite(c) PROVE OrderInv'
    <3>1. PICK p \in Pending : Writes(c, p)
      BY <1>1, <2>1, WriteResult DEF PathInv
    <3> QED BY <1>1, <2>0, <2>1, <3>1, JoinedOrder DEF Writes
  <2>2. ASSUME Cuts PROVE OrderInv'
    BY <1>1, <2>2, SameRow DEF OrderInv, Cuts, clients
  <2> QED BY <1>1, <2>0, <2>1, <2>2, StepKinds, CalmOrder, RespondOrder, ApplyOrder, FlushOrder
<1>2. ASSUME OrderInv, UNCHANGED vars PROVE OrderInv'
  BY <1>2, SameRow DEF OrderInv, vars, clients
<1> QED
  BY <1>1, <1>2

LEMMA OrderSafe == PathInv /\ OrderInv => AnswersInOrder
<1> SUFFICES ASSUME PathInv, OrderInv PROVE AnswersInOrder
  OBVIOUS
<1> DEFINE Ids(s) == [k \in 1..Len(s) |-> s[k].id]
           inCall(c) == IF call[c].pc = "idle" THEN <<>> ELSE <<issued[c]>>
<1> SUFFICES ASSUME NEW c \in Conn, attached[c]
             PROVE  Ids(answers[c]) \o Ids(queue[c]) \o inCall(c) = [k \in 1..issued[c] |-> k]
  BY DEF AnswersInOrder
<1>0. PathType /\ Numbered(c)
  BY DEF PathInv, OrderInv
<1>1. PICK m \in Nat, n \in Nat, i \in Nat : m = Len(answers[c]) /\ n = Len(queue[c]) /\ i = issued[c]
  BY <1>0, RowFacts
<1>2. m = i - InCall(c) - n /\ InCall(c) \in {0, 1}
  BY <1>0, <1>1, RowFacts DEF Numbered, InOrder, Done
<1>3. PICK a : a = [k \in 1..m |-> k]
  OBVIOUS
<1>4. PICK b : b = [k \in 1..n |-> m + k]
  OBVIOUS
<1>5. Ids(answers[c]) = a
  BY <1>0, <1>1, <1>3 DEF Numbered, InOrder
<1>6. Ids(queue[c]) = b
  BY <1>0, <1>1, <1>4 DEF Numbered, InOrder
<1>7. a \in Seq(Nat) /\ Len(a) = m /\ b \in Seq(Nat) /\ Len(b) = n
  BY <1>3, <1>4
<1>8. PICK e : e = inCall(c)
  OBVIOUS
<1>9. e \in Seq(Nat) /\ Len(e) = InCall(c) /\ (InCall(c) = 1 => e[1] = i)
  BY <1>1, <1>8 DEF InCall
<1> HIDE DEF Ids, inCall
<1>10. PICK ab : ab = a \o b
  OBVIOUS
<1>11. /\ ab \in Seq(Nat) /\ Len(ab) = m + n
       /\ \A k \in 1..(m + n) : ab[k] = IF k <= m THEN a[k] ELSE b[k - m]
  <2>1. /\ ab \in Seq(Nat) /\ Len(ab) = Len(a) + Len(b)
        /\ \A k \in 1..(Len(a) + Len(b)) : ab[k] = IF k <= Len(a) THEN a[k] ELSE b[k - Len(a)]
    BY <1>7, <1>10, ConcatProperties
  <2> QED BY <1>7, <2>1
<1>12. \A k \in 1..(m + n) : ab[k] = k
  BY <1>3, <1>4, <1>11
<1>13. PICK all : all = ab \o e
  OBVIOUS
<1>14. /\ all \in Seq(Nat) /\ Len(all) = m + n + InCall(c)
       /\ \A k \in 1..(m + n + InCall(c)) : all[k] = IF k <= m + n THEN ab[k] ELSE e[k - (m + n)]
  BY <1>2, <1>9, <1>11, <1>13
<1>15. m + n + InCall(c) = i
  BY <1>2
<1>16. \A k \in 1..i : all[k] = k
  <2> SUFFICES ASSUME NEW k \in 1..i PROVE all[k] = k
    OBVIOUS
  <2>1. all[k] = IF k <= m + n THEN ab[k] ELSE e[k - (m + n)]
    BY <1>14, <1>15
  <2>2. CASE k <= m + n
    <3>1. k \in 1..(m + n)
      BY <2>2
    <3> QED BY <1>12, <2>1, <2>2, <3>1
  <2>3. CASE ~ (k <= m + n)
    <3>1. InCall(c) = 1 /\ k = i /\ k - (m + n) = 1
      BY <1>2, <1>15, <2>3
    <3> QED BY <1>9, <2>1, <2>3, <3>1
  <2> QED BY <2>2, <2>3
<1>17. all = [k \in 1..i |-> k]
  BY <1>14, <1>15, <1>16
<1> QED
  BY <1>1, <1>5, <1>6, <1>8, <1>10, <1>13, <1>17

LEMMA OrderAlways == Spec => []OrderInv
  BY OrderInit, OrderStep, PathAlways, PTL DEF Spec

\* PendingQueue: every client gets one answer to each request, in the order of the
\* requests, for any pipeline of reads, writes, redirections and flushes.
THEOREM AnswersInOrderCorrect == Spec => []AnswersInOrder
  BY PathAlways, OrderAlways, OrderSafe, PTL

-----------------------------------------------------------------------------
(* Execution *)

\* Steps other than a write: entries stay or are of other leaders.
LogOld ==
    \A k \in 1..LogSize' : (k \in 1..LogSize /\ log'[k] = log[k]) \/ log'[k].tx = Foreign

\* Steps other than the applier's: what is executed stays in the log.
AppliedStays ==
    applied' = applied /\ \A k \in 1..(commitIndex + 1) : log'[k] = log[k]

PastNext(c) == issued'[c] - (IF call'[c].pc = "idle" THEN 0 ELSE 1)

PastGrows == \A c \in Conn : Past(c) \in Int /\ PastNext(c) \in Int /\ PastNext(c) >= Past(c)

LEMMA LogFacts ==
    ASSUME PathInv
    PROVE  /\ log \in Seq(Entry) /\ LogSize \in Nat /\ LogSize = Len(log) /\ lastApplied \in Nat
           /\ commitIndex \in 0..(LogSize - 1) /\ lastApplied <= commitIndex
           /\ \A k \in 1..LogSize : log[k].tx \in Tx
<1>1. /\ log \in Seq(Entry) /\ LogSize \in Nat /\ LogSize = Len(log) /\ lastApplied \in Nat
      /\ commitIndex \in 0..(LogSize - 1) /\ lastApplied <= commitIndex
  BY DEF PathInv, PathType, TypeOK, LogSize, lastApplied
<1>2. \A k \in 1..LogSize : log[k] \in Entry
  BY <1>1
<1>3. \A k \in 1..LogSize : log[k].tx \in Tx
  BY <1>2 DEF Entry
<1> QED
  BY <1>1, <1>3

LEMMA NotForeign ==
    ASSUME NEW c \in Conn, NEW id
    PROVE  [conn |-> c, id |-> id] # Foreign
BY ConnAssumption DEF Foreign

LEMMA OldLogOnce ==
    ASSUME LogOnce, LogOld, PastGrows
    PROVE  LogOnce'
<1>1. ASSUME NEW k \in 1..LogSize', log'[k].tx # Foreign
      PROVE  /\ k \in 1..LogSize /\ log'[k] = log[k] /\ log'[k].tx.conn \in Conn
             /\ log'[k].tx.id \in 1..PastNext(log'[k].tx.conn)
  <2>1. k \in 1..LogSize /\ log'[k] = log[k]
    BY <1>1 DEF LogOld
  <2>2. PICK c \in Conn : c = log[k].tx.conn /\ log[k].tx.id \in 1..Past(c)
    BY <1>1, <2>1 DEF LogOnce
  <2>3. PICK m \in Int, n \in Int : m = Past(c) /\ n = PastNext(c) /\ n >= m
    BY DEF PastGrows
  <2>4. log[k].tx.id \in 1..m
    BY <2>2, <2>3
  <2>5. log[k].tx.id \in 1..n
    BY <2>3, <2>4
  <2> QED BY <2>1, <2>2, <2>3, <2>5
<1>2. ASSUME NEW k \in 1..LogSize', NEW l \in 1..LogSize', log'[k].tx = log'[l].tx, log'[k].tx # Foreign
      PROVE  k = l
  <2>1. k \in 1..LogSize /\ log'[k] = log[k] /\ l \in 1..LogSize /\ log'[l] = log[l]
    BY <1>1, <1>2
  <2> QED BY <1>2, <2>1 DEF LogOnce
<1> QED
  <2>2. \A k \in 1..LogSize' : log'[k].tx # Foreign =>
           log'[k].tx.conn \in Conn /\ log'[k].tx.id \in 1..PastNext(log'[k].tx.conn)
    BY <1>1
  <2>3. \A k, l \in 1..LogSize' : log'[k].tx = log'[l].tx /\ log'[k].tx # Foreign => k = l
    BY <1>2
  <2> QED BY <2>2, <2>3 DEF LogOnce, Past, InCall, PastNext

LEMMA OldOnlyWrites ==
    ASSUME LogOld, \A c \in Conn : \A k \in 1..Len(queue'[c]) :
                      queue'[c][k].kind # "write" => Unlogged(c, queue'[c][k].id)
    PROVE  OnlyWrites'
<1> SUFFICES ASSUME NEW c \in Conn, NEW k \in 1..Len(queue'[c]), queue'[c][k].kind # "write",
                    NEW l \in 1..LogSize', log'[l].tx = [conn |-> c, id |-> queue'[c][k].id]
             PROVE  FALSE
  BY DEF OnlyWrites, Unlogged
<1>1. log'[l].tx # Foreign
  BY NotForeign
<1>2. l \in 1..LogSize /\ log'[l] = log[l]
  BY <1>1 DEF LogOld
<1> QED
  BY <1>2 DEF Unlogged

LEMMA OldAnswerAt ==
    ASSUME LogOld, \A c \in Conn : AllSay(c, answers'[c])
    PROVE  AnswerAt'
<1> SUFFICES ASSUME NEW c \in Conn, NEW k \in 1..Len(answers'[c]), NEW l \in 1..LogSize', answers'[c][k].ok,
                    log'[l].tx = [conn |-> c, id |-> answers'[c][k].id]
             PROVE  answers'[c][k].at = l - 1
  BY DEF AnswerAt, AllSay, SaysWhere
<1>1. log'[l].tx # Foreign
  BY NotForeign
<1>2. l \in 1..LogSize /\ log'[l] = log[l]
  BY <1>1 DEF LogOld
<1> QED
  BY <1>2 DEF AllSay, SaysWhere

LEMMA KeptExecutes ==
    ASSUME PathInv, ExecutesLog, AppliedStays
    PROVE  ExecutesLog'
<1>1. lastApplied' = lastApplied
  BY DEF AppliedStays, lastApplied
<1> SUFFICES ASSUME NEW k \in 1..lastApplied PROVE applied'[k] = log'[k + 1].tx
  BY <1>1 DEF ExecutesLog
<1>2. k + 1 \in 1..(commitIndex + 1)
  BY LogFacts
<1> QED
  BY <1>2 DEF ExecutesLog, AppliedStays

\* The request in a call has no entry.
LEMMA CurrentUnlogged ==
    ASSUME PathInv, LogOnce, NEW c \in Conn, call[c].pc # "idle"
    PROVE  Unlogged(c, issued[c])
<1>1. InCall(c) = 1 /\ issued[c] \in Nat
  BY RowFacts DEF InCall, PathInv
<1>2. Past(c) = issued[c] - 1
  BY <1>1 DEF Past
<1> SUFFICES ASSUME NEW l \in 1..LogSize, log[l].tx = [conn |-> c, id |-> issued[c]] PROVE FALSE
  BY DEF Unlogged
<1>3. log[l].tx # Foreign /\ log[l].tx.conn = c /\ log[l].tx.id = issued[c]
  BY NotForeign
<1>4. issued[c] \in 1..Past(c)
  BY <1>3 DEF LogOnce
<1> QED
  BY <1>1, <1>2, <1>4

LEMMA PastStep ==
    ASSUME PathType, PathType',
           \A c \in Conn : \/ issued'[c] = issued[c] /\ (call'[c].pc = "idle" \/ call[c].pc # "idle")
                           \/ issued'[c] = issued[c] + 1
    PROVE  PastGrows
<1> SUFFICES ASSUME NEW c \in Conn
             PROVE  Past(c) \in Int /\ PastNext(c) \in Int /\ PastNext(c) >= Past(c)
  BY DEF PastGrows
<1>1. issued[c] \in Nat /\ issued'[c] \in Nat
  BY DEF PathType, TypeOK
<1> QED
  BY <1>1 DEF Past, InCall, PastNext

LEMMA ReturnPast ==
    ASSUME PathType, PathType', NEW c \in Conn, Return(c), issued' = issued
    PROVE  PastGrows
<1>1. \A d \in Conn : call'[d].pc = "idle" \/ call'[d] = call[d]
  BY DEF Return, NoCall, PathType, TypeOK
<1> QED
  BY <1>1, PastStep

LEMMA GoneOnSay ==
    ASSUME NEW c, NEW sent \in Seq(Answer), NEW now \in Seq(Answer), NEW s \in Seq(Answer),
           GoesOn(sent, now, s), AllSay(c, sent), AllSay(c, s)
    PROVE  AllSay(c, now)
<1> SUFFICES ASSUME NEW k \in 1..Len(now) PROVE SaysWhere(c, now[k])
  BY DEF AllSay
<1>1. Len(sent) \in Nat /\ Len(s) \in Nat /\ Len(now) = Len(sent) + Len(s)
  BY DEF GoesOn
<1>2. CASE k \in 1..Len(sent)
  BY <1>2 DEF GoesOn, AllSay
<1>3. CASE k \notin 1..Len(sent)
  <2>1. k - Len(sent) \in 1..Len(s) /\ Len(sent) + (k - Len(sent)) = k
    BY <1>1, <1>3
  <2>2. now[k] = s[k - Len(sent)]
    BY <2>1 DEF GoesOn
  <2> QED BY <2>1, <2>2 DEF AllSay
<1> QED
  BY <1>2, <1>3

LEMMA SentSay ==
    ASSUME PathInv, AnswerAt, NEW c \in Conn, NEW s \in Seq(Answer), Sends(c, s), AllSay(c, s)
    PROVE  \A d \in Conn : AllSay(d, answers'[d])
<1> SUFFICES ASSUME NEW d \in Conn PROVE AllSay(d, answers'[d])
  OBVIOUS
<1>0. AllSay(d, answers[d])
  BY DEF AnswerAt
<1>1. CASE d # c \/ ~ attached[c]
  BY <1>0, <1>1 DEF Sends
<1>2. CASE d = c /\ attached[c]
  <2>1. PICK sent \in Seq(Answer), now \in Seq(Answer) : sent = answers[c] /\ now = answers'[c]
    BY RowFacts DEF Sends, PathInv
  <2>2. GoesOn(sent, now, s)
    BY <1>2, <2>1 DEF Sends, GoesOn
  <2>3. AllSay(c, now)
    BY <1>0, <1>2, <2>1, <2>2, GoneOnSay
  <2> QED BY <1>2, <2>1, <2>3
<1> QED
  BY <1>1, <1>2

LEMMA CalmExec ==
    ASSUME PathInv, PathType', ExecInv, Calms
    PROVE  ExecInv'
<1>1. UNCHANGED <<queue, answers, applied>> /\ LogGrows /\ \A c \in Conn : CallGoesOn(c)
  BY DEF Calms
<1>2. LogOld /\ AppliedStays
  <2>1. LogSize' = Len(log') /\ Len(log') \in Nat
    BY <1>1 DEF LogGrows, LogSize
  <2>2. LogOld
    BY <1>1, <2>1, LogFacts DEF LogGrows, LogOld
  <2>3. AppliedStays
    BY <1>1, LogFacts DEF LogGrows, AppliedStays
  <2> QED BY <2>2, <2>3
<1>3. PastGrows
  BY <1>1, PastStep DEF PathInv, CallGoesOn
<1>4. /\ \A c \in Conn : \A k \in 1..Len(queue'[c]) : queue'[c][k].kind # "write" => Unlogged(c, queue'[c][k].id)
      /\ \A c \in Conn : AllSay(c, answers'[c])
  BY <1>1 DEF ExecInv, OnlyWrites, AnswerAt
<1> QED
  BY <1>2, <1>3, <1>4, OldLogOnce, OldOnlyWrites, OldAnswerAt, KeptExecutes DEF ExecInv

LEMMA RespondExec ==
    ASSUME PathInv, PathType', ExecInv, NEW c \in Conn, Responds(c)
    PROVE  ExecInv'
<1>1. /\ UNCHANGED <<log, applied, issued>> /\ Return(c) /\ call[c].pc # "idle" /\ LogSize' = LogSize
  BY DEF Responds, raft, LogSize
<1>2. LogOld /\ AppliedStays
  BY <1>1 DEF LogOld, AppliedStays
<1>3. PastGrows
  BY <1>1, ReturnPast DEF PathInv
<1>4. Unlogged(c, issued[c])
  BY <1>1, CurrentUnlogged DEF ExecInv
<1>5. \A d \in Conn : \A k \in 1..Len(queue[d]) : queue[d][k].kind # "write" => Unlogged(d, queue[d][k].id)
  BY DEF ExecInv, OnlyWrites
<1>6. \A d \in Conn : AllSay(d, answers[d])
  BY DEF ExecInv, AnswerAt
<1>7. ASSUME NEW p \in Pending, RespondsLater(c, p)
      PROVE  /\ \A d \in Conn : \A k \in 1..Len(queue'[d]) : queue'[d][k].kind # "write" => Unlogged(d, queue'[d][k].id)
             /\ \A d \in Conn : AllSay(d, answers'[d])
  <2>1. Joins(c, p) /\ answers' = answers /\ p.id = issued[c]
    BY <1>7, AppendJoins DEF RespondsLater, PathInv, PathType, TypeOK
  <2>2. ASSUME NEW d \in Conn, NEW k \in 1..Len(queue'[d]), queue'[d][k].kind # "write"
        PROVE  Unlogged(d, queue'[d][k].id)
    <3>1. CASE d # c
      BY <1>5, <2>1, <2>2, <3>1 DEF Joins
    <3>2. CASE d = c /\ k \in 1..Len(queue[c])
      BY <1>5, <2>1, <2>2, <3>2 DEF Joins
    <3>3. CASE d = c /\ k = Len(queue[c]) + 1
      BY <1>4, <2>1, <2>2, <3>3 DEF Joins
    <3>4. d = c => k \in 1..Len(queue[c]) \/ k = Len(queue[c]) + 1
      BY <2>1, <2>2, QueueFacts DEF Joins
    <3> QED BY <3>1, <3>2, <3>3, <3>4
  <2> QED BY <1>6, <2>1, <2>2
<1>8. ASSUME NEW a \in Answer, RespondsNow(c, a)
      PROVE  /\ \A d \in Conn : \A k \in 1..Len(queue'[d]) : queue'[d][k].kind # "write" => Unlogged(d, queue'[d][k].id)
             /\ \A d \in Conn : AllSay(d, answers'[d])
  <2>1. queue' = queue /\ a.id = issued[c]
    BY <1>8 DEF RespondsNow
  <2>2. PICK s : s = <<a>>
    OBVIOUS
  <2>3. s \in Seq(Answer) /\ Len(s) = 1 /\ s[1] = a
    BY <2>2
  <2>4. Sends(c, s)
    BY <1>8, <2>2, <2>3, SendSends DEF RespondsNow, PathInv, PathType, TypeOK
  <2>5. AllSay(c, s)
    BY <1>4, <2>1, <2>3 DEF Unlogged, AllSay, SaysWhere
  <2>6. \A d \in Conn : AllSay(d, answers'[d])
    BY <2>3, <2>4, <2>5, SentSay DEF ExecInv
  <2> QED BY <1>5, <2>1, <2>6
<1>9. /\ \A d \in Conn : \A k \in 1..Len(queue'[d]) : queue'[d][k].kind # "write" => Unlogged(d, queue'[d][k].id)
      /\ \A d \in Conn : AllSay(d, answers'[d])
  BY <1>7, <1>8, Zenon DEF Responds
<1> QED
  BY <1>2, <1>3, <1>9, OldLogOnce, OldOnlyWrites, OldAnswerAt, KeptExecutes DEF ExecInv

LEMMA CutExec ==
    ASSUME PathInv, PathType', ExecInv, Cuts
    PROVE  ExecInv'
<1>1. UNCHANGED <<queue, answers, applied, issued, call>> /\ LogSize' = Len(log') /\ log' \in Seq(Entry)
  BY DEF Cuts, clients, LogSize
<1>2. LogOld
  BY <1>1, LogFacts DEF Cuts, LogOld
<1>3. AppliedStays
  BY <1>1 DEF Cuts, AppliedStays
<1>4. PastGrows
  BY <1>1, PastStep DEF PathInv
<1>5. /\ \A c \in Conn : \A k \in 1..Len(queue'[c]) : queue'[c][k].kind # "write" => Unlogged(c, queue'[c][k].id)
      /\ \A c \in Conn : AllSay(c, answers'[c])
  BY <1>1 DEF ExecInv, OnlyWrites, AnswerAt
<1> QED
  BY <1>2, <1>3, <1>4, <1>5, OldLogOnce, OldOnlyWrites, OldAnswerAt, KeptExecutes DEF ExecInv

LEMMA FlushExec ==
    ASSUME PathInv, PathType', OrderInv, ExecInv, Flushes
    PROVE  ExecInv'
<1>1. /\ UNCHANGED <<log, applied, issued, call>> /\ LogSize' = LogSize
  BY DEF Flushes, raft, LogSize
<1>2. LogOld /\ AppliedStays
  BY <1>1 DEF LogOld, AppliedStays
<1>3. PastGrows
  BY <1>1, PastStep DEF PathInv
<1>4. \A c \in Conn : Len(queue'[c]) = 0
  BY DEF Flushes
<1>5. ASSUME NEW c \in Conn PROVE AllSay(c, answers'[c])
  <2>1. PICK q \in Seq(Pending), sent \in Seq(Answer) : q = queue[c] /\ sent = answers[c]
    BY <1>5, RowFacts DEF PathInv
  <2>2. PICK s \in Seq(Answer) : s = flushPending(q) /\ Len(s) = Len(q)
    BY FlushPendingResult
  <2>3. AllSay(c, s)
    <3> SUFFICES ASSUME NEW k \in 1..Len(q) PROVE SaysWhere(c, s[k])
      BY <2>2 DEF AllSay
    <3>1. s[k] = IF q[k].kind = "raw" THEN q[k].raw ELSE Err(q[k].id)
      BY <2>2, FlushPendingResult
    <3>2. CASE q[k].kind # "raw"
      <4>1. s[k].ok = FALSE
        BY <3>1, <3>2 DEF Err
      <4> QED BY <4>1 DEF SaysWhere
    <3>3. CASE q[k].kind = "raw"
      <4>1. Unlogged(c, q[k].id)
        BY <1>5, <2>1, <3>3 DEF ExecInv, OnlyWrites
      <4>2. s[k].id = q[k].id
        BY <1>5, <2>1, <3>1, <3>3 DEF OrderInv, Numbered, InOrder
      <4> QED BY <4>1, <4>2 DEF Unlogged, SaysWhere
    <3> QED BY <3>2, <3>3
  <2>4. answers'[c] = IF attached[c] THEN sent \o s ELSE sent
    BY <1>5, <2>1, <2>2 DEF Flushes
  <2>5. AllSay(c, sent)
    BY <1>5, <2>1 DEF ExecInv, AnswerAt
  <2>6. PICK now \in Seq(Answer) : now = sent \o s
    BY ConcatFacts
  <2>7. GoesOn(sent, now, s)
    BY <2>6, ConcatFacts DEF GoesOn
  <2>8. AllSay(c, now)
    BY <2>3, <2>5, <2>7, GoneOnSay
  <2> QED BY <2>4, <2>5, <2>6, <2>8
<1>6. \A c \in Conn : \A k \in 1..Len(queue'[c]) : queue'[c][k].kind # "write" => Unlogged(c, queue'[c][k].id)
  BY <1>4
<1> QED
  BY <1>2, <1>3, <1>5, <1>6, OldLogOnce, OldOnlyWrites, OldAnswerAt, KeptExecutes DEF ExecInv

\* The write at the front says its index, the rest of what is taken is not in the log.
LEMMA DispatchedSay ==
    ASSUME PathInv, OrderInv, ExecInv, NEW c \in Conn, NEW n \in Nat, Dispatches(c, n)
    PROVE  AllSay(c, DispatchedAnswers(c, n))
<1>0. n \in 1..Len(queue[c]) /\ Takes(queue[c], lastApplied + 1, n) /\ queue[c][1].index = lastApplied + 1
  BY DEF Dispatches, Leaves
<1>1. Len(DispatchedAnswers(c, n)) = n
  BY <1>0, DispatchedType
<1> SUFFICES ASSUME NEW k \in 1..n PROVE SaysWhere(c, DispatchedAnswers(c, n)[k])
  BY <1>1 DEF AllSay
<1>2. PICK p \in Pending : p = queue[c][k] /\ Waits(c, p)
  BY <1>0, QueueFacts
<1>3. PICK a : a = DispatchedAnswers(c, n)[k]
  OBVIOUS
<1>4. a = IF p.kind = "raw" THEN p.raw ELSE Ok(p.id, lastApplied + 1)
  BY <1>2, <1>3 DEF DispatchedAnswers
<1>5. k \in 1..Len(queue[c])
  BY <1>0, QueueFacts
<1>6. p.raw.id = p.id
  BY <1>2, <1>5 DEF OrderInv, Numbered, InOrder
<1>7. a.id = p.id
  BY <1>4, <1>6 DEF Ok
<1>8. CASE p.kind # "write"
  <2>1. Unlogged(c, p.id)
    BY <1>2, <1>5, <1>8 DEF ExecInv, OnlyWrites
  <2> QED BY <1>3, <1>7, <2>1 DEF Unlogged, SaysWhere
<1>9. CASE p.kind = "write"
  <2>1. a.at = lastApplied + 1
    BY <1>4, <1>9 DEF Ok
  <2>2. k = 1 /\ p.index = lastApplied + 1
    BY <1>0, <1>2, <1>9 DEF Takes
  <2>3. /\ lastApplied + 1 < LogSize /\ log[lastApplied + 1 + 1].tx = [conn |-> c, id |-> p.id]
    BY <1>2, <1>9, <2>2 DEF Waits
  <2>4. lastApplied + 2 \in 1..LogSize /\ lastApplied + 1 + 1 = lastApplied + 2
    BY <2>3, LogFacts
  <2> SUFFICES ASSUME NEW l \in 1..LogSize, log[l].tx = [conn |-> c, id |-> p.id] PROVE a.at = l - 1
    BY <1>3, <1>7 DEF SaysWhere
  <2>5. l = lastApplied + 2
    BY <2>3, <2>4, NotForeign DEF ExecInv, LogOnce
  <2> QED BY <2>1, <2>5, LogFacts
<1> QED
  BY <1>8, <1>9

LEMMA ApplyExec ==
    ASSUME PathInv, PathType', OrderInv, ExecInv, ApplyCommit
    PROVE  ExecInv'
<1>1. /\ Applies /\ UNCHANGED <<log, issued, call>> /\ LogSize' = LogSize
  BY ApplyResult DEF Applies, raft, LogSize
<1>2. LogOld
  BY <1>1 DEF LogOld
<1>3. PastGrows
  BY <1>1, PastStep DEF PathInv
<1>4. ExecutesLog'
  <2>1. lastApplied' = lastApplied + 1 /\ lastApplied \in Nat /\ applied' = Append(applied, log[lastApplied + 2].tx)
    BY <1>1 DEF Applies, lastApplied
  <2>2. applied \in Seq(Tx) /\ lastApplied = Len(applied)
    BY DEF PathInv, PathType, TypeOK, lastApplied
  <2>3. applied' \in Seq(Tx)
    BY DEF PathType, TypeOK
  <2> SUFFICES ASSUME NEW k \in 1..(lastApplied + 1) PROVE applied'[k] = log[k + 1].tx
    BY <1>1, <2>1 DEF ExecutesLog
  <2>4. CASE k \in 1..lastApplied
    <3>1. applied'[k] = applied[k]
      BY <2>1, <2>2, <2>4
    <3> QED BY <2>4, <3>1 DEF ExecInv, ExecutesLog
  <2>5. CASE k = lastApplied + 1
    <3>1. applied'[k] = log[lastApplied + 2].tx
      BY <2>1, <2>2, <2>5
    <3>2. k + 1 = lastApplied + 2
      BY <2>1, <2>5
    <3> QED BY <3>1, <3>2
  <2>6. lastApplied \in Nat
    BY LogFacts
  <2>7. k \in 1..lastApplied \/ k = lastApplied + 1
    BY <2>6
  <2> QED BY <2>4, <2>5, <2>7
<1>5. /\ \A d \in Conn : \A k \in 1..Len(queue'[d]) : queue'[d][k].kind # "write" => Unlogged(d, queue'[d][k].id)
      /\ \A d \in Conn : AllSay(d, answers'[d])
  <2>1. CASE UNCHANGED <<answers, queue, blocked>>
    BY <2>1 DEF ExecInv, OnlyWrites, AnswerAt
  <2>2. ASSUME NEW c \in Conn, NEW n \in Nat, Dispatches(c, n)
        PROVE  /\ \A d \in Conn : \A k \in 1..Len(queue'[d]) : queue'[d][k].kind # "write" => Unlogged(d, queue'[d][k].id)
               /\ \A d \in Conn : AllSay(d, answers'[d])
    <3>1. Leaves(c, n)
      BY <2>2 DEF Dispatches
    <3>2. ASSUME NEW d \in Conn, NEW k \in 1..Len(queue'[d]), queue'[d][k].kind # "write"
          PROVE  Unlogged(d, queue'[d][k].id)
      <4>1. CASE d # c
        BY <3>1, <3>2, <4>1 DEF Leaves, ExecInv, OnlyWrites
      <4>2. CASE d = c
        <5>1. n + k \in 1..Len(queue[c]) /\ queue'[c][k] = queue[c][n + k]
          BY <3>1, <3>2, <4>2, QueueFacts DEF Leaves
        <5> QED BY <3>2, <4>2, <5>1 DEF ExecInv, OnlyWrites
      <4> QED BY <4>1, <4>2
    <3>3. PICK s \in Seq(Answer) : s = DispatchedAnswers(c, n)
      BY <3>1, DispatchedType DEF Leaves
    <3>4. Sends(c, s)
      BY <2>2, <3>3, SendSends DEF Dispatches, PathInv, PathType, TypeOK
    <3>5. AllSay(c, s)
      BY <2>2, <3>3, DispatchedSay
    <3>6. \A d \in Conn : AllSay(d, answers'[d])
      BY <3>4, <3>5, SentSay DEF ExecInv
    <3> QED BY <3>2, <3>6
  <2> QED BY <2>1, <2>2, ApplyResult
<1> QED
  BY <1>2, <1>3, <1>4, <1>5, OldLogOnce, OldOnlyWrites, OldAnswerAt DEF ExecInv

LEMMA WriteExec ==
    ASSUME PathInv, PathType', OrderInv, ExecInv, NEW c \in Conn, NEW p \in Pending, Writes(c, p)
    PROVE  ExecInv'
<1> DEFINE tx == [conn |-> c, id |-> issued[c]]
<1>1. /\ Joins(c, p) /\ p.kind = "write" /\ UNCHANGED <<applied, issued, answers>> /\ call[c].pc # "idle" /\ Return(c)
      /\ \A k \in 1..LogSize : log'[k] = log[k]
      /\ log'[LogSize + 1].tx = tx
  BY DEF Writes
<1>2. LogSize' = LogSize + 1 /\ LogSize \in Nat
  BY LogFacts DEF Writes, LogSize
<1>3. tx # Foreign /\ tx.conn = c /\ tx.id = issued[c]
  BY NotForeign
<1>4. Unlogged(c, issued[c])
  BY <1>1, CurrentUnlogged DEF ExecInv
<1>5. \A k \in 1..LogSize : log[k].tx # tx
  BY <1>4 DEF Unlogged
<1> HIDE DEF tx
<1>6. PastGrows
  BY <1>1, ReturnPast DEF PathInv
<1>7. \A k \in 1..LogSize' : (k \in 1..LogSize /\ log'[k] = log[k]) \/ (k = LogSize + 1 /\ log'[k].tx = tx)
  BY <1>1, <1>2
<1>8. issued[c] \in 1..PastNext(c)
  <2>1. Numbered(c) /\ PathType
    BY DEF OrderInv, PathInv
  <2>2. call'[c].pc = "idle" /\ Done(c) = issued[c] - 1 - Len(queue[c])
    BY <1>1, <2>1, ReturnedRow DEF Writes
  <2>3. PICK i \in Nat, m \in Nat, n \in Nat : i = issued[c] /\ m = Len(queue[c]) /\ n = Len(answers[c])
    BY <2>1, RowFacts
  <2>4. n <= i - 1 - m
    BY <2>1, <2>2, <2>3 DEF Numbered, InOrder
  <2>5. PastNext(c) = i
    BY <1>1, <2>2, <2>3 DEF PastNext
  <2> QED BY <2>3, <2>4, <2>5
<1>9. LogOnce'
  <2>1. ASSUME NEW k \in 1..LogSize', log'[k].tx # Foreign
        PROVE  log'[k].tx.conn \in Conn /\ log'[k].tx.id \in 1..PastNext(log'[k].tx.conn)
    <3>1. CASE k = LogSize + 1 /\ log'[k].tx = tx
      BY <1>3, <1>8, <3>1
    <3>2. CASE k \in 1..LogSize /\ log'[k] = log[k]
      <4>1. PICK d \in Conn : d = log[k].tx.conn /\ log[k].tx.id \in 1..Past(d)
        BY <2>1, <3>2 DEF ExecInv, LogOnce
      <4>2. PICK m \in Int, n \in Int : m = Past(d) /\ n = PastNext(d) /\ n >= m
        BY <1>6 DEF PastGrows
      <4>3. log[k].tx.id \in 1..m
        BY <4>1, <4>2
      <4>4. log[k].tx.id \in 1..n
        BY <4>2, <4>3
      <4> QED BY <3>2, <4>1, <4>2, <4>4
    <3> QED BY <1>7, <2>1, <3>1, <3>2
  <2>2. ASSUME NEW k \in 1..LogSize', NEW l \in 1..LogSize', log'[k].tx = log'[l].tx, log'[k].tx # Foreign
        PROVE  k = l
    BY <1>5, <1>7, <2>2 DEF ExecInv, LogOnce
  <2>3. \A k \in 1..LogSize' : log'[k].tx # Foreign =>
           log'[k].tx.conn \in Conn /\ log'[k].tx.id \in 1..PastNext(log'[k].tx.conn)
    BY <2>1
  <2>4. \A k, l \in 1..LogSize' : log'[k].tx = log'[l].tx /\ log'[k].tx # Foreign => k = l
    BY <2>2
  <2> QED BY <2>3, <2>4 DEF LogOnce, Past, InCall, PastNext
<1>10. OnlyWrites'
  <2> SUFFICES ASSUME NEW d \in Conn, NEW k \in 1..Len(queue'[d]), queue'[d][k].kind # "write",
                      NEW l \in 1..LogSize', log'[l].tx = [conn |-> d, id |-> queue'[d][k].id]
               PROVE  FALSE
    BY DEF OnlyWrites, Unlogged
  <2>1. k \in 1..Len(queue[d]) /\ queue'[d][k] = queue[d][k]
    <3>1. CASE d # c
      BY <1>1, <3>1 DEF Joins
    <3>2. CASE d = c
      BY <1>1, <3>2, QueueFacts DEF Joins
    <3> QED BY <3>1, <3>2
  <2>2. Unlogged(d, queue[d][k].id)
    BY <2>1 DEF ExecInv, OnlyWrites
  <2>3. CASE l \in 1..LogSize /\ log'[l] = log[l]
    BY <2>1, <2>2, <2>3 DEF Unlogged
  <2>4. CASE l = LogSize + 1 /\ log'[l].tx = tx
    <3>1. d = c /\ queue[c][k].id = issued[c]
      <4>1. [conn |-> d, id |-> queue[d][k].id].conn = d /\ [conn |-> d, id |-> queue[d][k].id].id = queue[d][k].id
        OBVIOUS
      <4> QED BY <1>3, <2>1, <2>4, <4>1
    <3>2. Numbered(c) /\ PathType
      BY DEF OrderInv, PathInv
    <3>3. queue[c][k].id = Done(c) + k /\ Done(c) = issued[c] - 1 - Len(queue[c])
      BY <1>1, <2>1, <3>1, <3>2, ReturnedRow DEF Numbered, InOrder, Writes
    <3>4. PICK i \in Nat, m \in Nat : i = issued[c] /\ m = Len(queue[c]) /\ k \in 1..m
      BY <2>1, <3>1, <3>2, RowFacts
    <3>5. PICK done : done = Done(c)
      OBVIOUS
    <3>6. done = i - 1 - m /\ i = done + k
      BY <3>1, <3>3, <3>4, <3>5
    <3> QED BY <3>4, <3>6
  <2> QED BY <1>7, <2>3, <2>4
<1>11. AnswerAt'
  <2> SUFFICES ASSUME NEW d \in Conn, NEW k \in 1..Len(answers[d]), NEW l \in 1..LogSize', answers[d][k].ok,
                      log'[l].tx = [conn |-> d, id |-> answers[d][k].id]
               PROVE  answers[d][k].at = l - 1
    BY <1>1 DEF AnswerAt, AllSay, SaysWhere
  <2>1. CASE l \in 1..LogSize /\ log'[l] = log[l]
    BY <2>1 DEF ExecInv, AnswerAt, AllSay, SaysWhere
  <2>2. CASE l = LogSize + 1 /\ log'[l].tx = tx
    <3>1. d = c /\ answers[c][k].id = issued[c]
      <4>1. [conn |-> d, id |-> answers[d][k].id].conn = d /\ [conn |-> d, id |-> answers[d][k].id].id = answers[d][k].id
        OBVIOUS
      <4> QED BY <1>3, <2>2, <4>1
    <3>2. Numbered(c) /\ PathType
      BY DEF OrderInv, PathInv
    <3>3. answers[c][k].id = k /\ Len(answers[c]) <= issued[c] - 1 - Len(queue[c])
      BY <1>1, <3>1, <3>2, ReturnedRow DEF Numbered, InOrder, Writes
    <3>4. PICK i \in Nat, m \in Nat, n \in Nat :
             i = issued[c] /\ m = Len(queue[c]) /\ n = Len(answers[c]) /\ k \in 1..n
      BY <3>1, <3>2, RowFacts
    <3>5. i \in 1..n
      BY <3>1, <3>3, <3>4
    <3>6. n <= i - 1 - m
      BY <3>3, <3>4
    <3>7. FALSE
      BY <3>5, <3>6
    <3> QED BY <3>7
  <2> QED BY <1>7, <2>1, <2>2
<1>12. AppliedStays
  BY <1>1, LogFacts DEF AppliedStays
<1> QED
  BY <1>9, <1>10, <1>11, <1>12, KeptExecutes DEF ExecInv

LEMMA ExecInit == Init => ExecInv
<1> SUFFICES ASSUME Init PROVE ExecInv
  OBVIOUS
<1>1. LogSize = 2 /\ lastApplied = 0 /\ \A k \in 1..2 : log[k].tx = Foreign
  BY DEF Init, LogSize, lastApplied
<1>2. \A c \in Conn : Len(queue[c]) = 0 /\ Len(answers[c]) = 0
  BY DEF Init
<1> QED
  BY <1>1, <1>2 DEF ExecInv, ExecutesLog, LogOnce, OnlyWrites, AnswerAt, AllSay

LEMMA ExecStep == PathInv /\ OrderInv /\ ExecInv /\ [Next]_vars => ExecInv'
<1>1. ASSUME PathInv, OrderInv, ExecInv, Next PROVE ExecInv'
  <2>0. PathType'
    BY <1>1, TypeStep
  <2>1. ASSUME NEW c \in Conn, AppendWrite(c) PROVE ExecInv'
    BY <1>1, <2>0, <2>1, WriteResult, WriteExec DEF PathInv
  <2> QED BY <1>1, <2>0, <2>1, StepKinds, CalmExec, RespondExec, ApplyExec, FlushExec, CutExec
<1>2. ASSUME PathInv, ExecInv, UNCHANGED vars PROVE ExecInv'
  <2>1. /\ UNCHANGED <<log, applied, queue, answers, issued, call>>
        /\ LogSize' = LogSize /\ lastApplied' = lastApplied
    BY <1>2 DEF vars, raft, clients, LogSize, lastApplied
  <2>2. ExecutesLog' /\ LogOnce'
    BY <1>2, <2>1 DEF ExecInv, ExecutesLog, LogOnce, Past, InCall
  <2>3. OnlyWrites' /\ AnswerAt'
    BY <1>2, <2>1 DEF ExecInv, OnlyWrites, Unlogged, AnswerAt, AllSay, SaysWhere
  <2> QED BY <2>2, <2>3 DEF ExecInv
<1> QED
  BY <1>1, <1>2

LEMMA ExecSafe == PathInv /\ ExecInv => WritesExecuted
<1> SUFFICES ASSUME PathInv, ExecInv PROVE WritesExecuted
  OBVIOUS
<1>1. ExecutesLog
  BY DEF ExecInv
<1>2. \A k \in 1..lastApplied : k + 1 \in 1..LogSize /\ applied[k] = log[k + 1].tx
  BY <1>1, LogFacts DEF ExecutesLog
<1>3. ASSUME NEW k \in 1..lastApplied, NEW l \in 1..lastApplied, applied[k] = applied[l], applied[k] # Foreign
      PROVE  k = l
  <2>1. k + 1 = l + 1
    BY <1>2, <1>3 DEF ExecInv, LogOnce
  <2> QED BY <2>1
<1>4. ASSUME NEW c \in Conn, NEW k \in 1..lastApplied, NEW a \in Range(answers[c]),
             applied[k] = [conn |-> c, id |-> a.id], a.ok
      PROVE  a.at = k
  <2>1. answers[c] \in Seq(Answer)
    BY <1>4 DEF PathInv, PathType, TypeOK
  <2>2. PICK x \in 1..Len(answers[c]) : answers[c][x] = a
    BY <1>4, <2>1 DEF Range
  <2>3. SaysWhere(c, a)
    BY <1>4, <2>2 DEF ExecInv, AnswerAt, AllSay
  <2>4. a.at = (k + 1) - 1
    BY <1>2, <1>4, <2>3 DEF SaysWhere
  <2> QED BY <2>4
<1>5. WriteOnce
  BY <1>3, <1>4 DEF WriteOnce
<1> QED
  BY <1>1, <1>5 DEF WritesExecuted

LEMMA ExecAlways == Spec => []ExecInv
  BY ExecInit, ExecStep, PathAlways, OrderAlways, PTL DEF Spec

\* RaftWriteTracker::applySingleCommit, RaftDispatcher::service: the state machine
\* executes the log and nothing else, in its order, although it takes writes from the
\* queues; no write twice; and a positive answer names the entry it is about.
THEOREM WritesExecutedCorrect == Spec => []WritesExecuted
  BY PathAlways, ExecAlways, ExecSafe, PTL

-----------------------------------------------------------------------------
(* Reads never see the state machine go back *)

\* The answers that are given when n entries are executed.
GivenAt(s, n) == \A k \in 1..Len(s) : s[k].ok => s[k].at = n

LEMMA GoneOnReads ==
    ASSUME NEW sent \in Seq(Answer), NEW now \in Seq(Answer), NEW s \in Seq(Answer), NEW m \in Nat, NEW n \in Nat,
           m <= n, GoesOn(sent, now, s), Behind(sent, m), Monotone(sent), GivenAt(s, n)
    PROVE  Behind(now, n) /\ Monotone(now)
<1>1. Len(sent) \in Nat /\ Len(s) \in Nat /\ Len(now) = Len(sent) + Len(s)
  BY DEF GoesOn
<1>2. ASSUME NEW k \in 1..Len(now), now[k].ok, k \in 1..Len(sent)
      PROVE  now[k] = sent[k] /\ now[k].at \in Nat /\ now[k].at <= n
  <2>1. now[k] = sent[k]
    BY <1>2 DEF GoesOn
  <2>2. sent[k].at \in Nat
    <3>1. sent[k] \in Answer
      BY <1>2
    <3> QED BY <3>1 DEF Answer
  <2>3. sent[k].at <= m
    BY <1>2, <2>1 DEF Behind
  <2> QED BY <2>1, <2>2, <2>3
<1>3. ASSUME NEW k \in 1..Len(now), now[k].ok, k \notin 1..Len(sent)
      PROVE  now[k].at = n
  <2>1. k - Len(sent) \in 1..Len(s) /\ Len(sent) + (k - Len(sent)) = k
    BY <1>1, <1>3
  <2>2. now[k] = s[k - Len(sent)]
    BY <2>1 DEF GoesOn
  <2> QED BY <1>3, <2>1, <2>2 DEF GivenAt
<1>4. Behind(now, n)
  BY <1>2, <1>3 DEF Behind
<1>5. ASSUME NEW k \in 1..Len(now), NEW l \in 1..Len(now), k < l, now[k].ok, now[l].ok
      PROVE  now[k].at <= now[l].at
  <2>1. CASE l \in 1..Len(sent)
    <3>1. k \in 1..Len(sent)
      BY <1>1, <1>5, <2>1
    <3>2. now[k] = sent[k] /\ now[l] = sent[l]
      BY <2>1, <3>1 DEF GoesOn
    <3> QED BY <1>5, <2>1, <3>1, <3>2 DEF Monotone
  <2>2. CASE l \notin 1..Len(sent)
    <3>1. now[l].at = n
      BY <1>3, <1>5, <2>2
    <3>2. now[k].at <= n
      BY <1>2, <1>3, <1>5
    <3> QED BY <3>1, <3>2
  <2> QED BY <2>1, <2>2
<1>6. Monotone(now)
  BY <1>5 DEF Monotone
<1> QED
  BY <1>4, <1>6

\* ReadRow after a step.
RowNext(c) == Behind(answers'[c], lastApplied') /\ Monotone(answers'[c]) /\ NoneRead(queue'[c])

LEMMA SameReads ==
    ASSUME PathInv, NEW c \in Conn, ReadRow(c), lastApplied' \in Nat, lastApplied <= lastApplied',
           answers'[c] = answers[c], NoneRead(queue'[c])
    PROVE  RowNext(c)
<1>1. \A k \in 1..Len(answers[c]) : answers[c][k] \in Answer
  BY RowFacts DEF PathInv
<1>2. \A k \in 1..Len(answers[c]) : answers[c][k].at \in Nat
  BY <1>1 DEF Answer
<1>3. Behind(answers[c], lastApplied')
  BY <1>2, LogFacts DEF ReadRow, Behind
<1> QED
  BY <1>3 DEF ReadRow, RowNext

LEMMA SentReads ==
    ASSUME PathInv, NEW c \in Conn, NEW d \in Conn, ReadRow(d), lastApplied' \in Nat, lastApplied <= lastApplied',
           NEW s \in Seq(Answer), Sends(c, s), d = c => GivenAt(s, lastApplied'), NoneRead(queue'[d])
    PROVE  RowNext(d)
<1>1. CASE d # c \/ ~ attached[c]
  <2>1. answers'[d] = answers[d]
    BY <1>1 DEF Sends
  <2> QED BY <2>1, SameReads
<1>2. CASE d = c /\ attached[c]
  <2>1. PICK sent \in Seq(Answer), now \in Seq(Answer) : sent = answers[c] /\ now = answers'[c]
    BY RowFacts DEF Sends, PathInv
  <2>2. GoesOn(sent, now, s)
    BY <1>2, <2>1 DEF Sends, GoesOn
  <2>3. PICK m \in Nat, n \in Nat : m = lastApplied /\ n = lastApplied'
    BY LogFacts
  <2>4. Behind(sent, m) /\ Monotone(sent) /\ GivenAt(s, n) /\ m <= n
    BY <1>2, <2>1, <2>3 DEF ReadRow
  <2>5. Behind(now, n) /\ Monotone(now)
    BY <2>2, <2>4, GoneOnReads
  <2> QED BY <1>2, <2>1, <2>3, <2>5 DEF RowNext
<1> QED
  BY <1>1, <1>2

LEMMA JoinedReads ==
    ASSUME PathInv, NEW c \in Conn, NEW d \in Conn, ReadRow(d), NEW p, Joins(c, p), d = c => ~ p.raw.ok
    PROVE  NoneRead(queue'[d])
<1>0. NoneRead(queue[d])
  BY DEF ReadRow
<1> SUFFICES ASSUME NEW k \in 1..Len(queue'[d]) PROVE ~ queue'[d][k].raw.ok
  BY DEF NoneRead
<1>1. CASE d # c
  BY <1>0, <1>1 DEF Joins, NoneRead
<1>2. CASE d = c /\ k \in 1..Len(queue[c])
  BY <1>0, <1>2 DEF Joins, NoneRead
<1>3. CASE d = c /\ k = Len(queue[c]) + 1
  BY <1>3 DEF Joins
<1>4. d = c => k \in 1..Len(queue[c]) \/ k = Len(queue[c]) + 1
  BY QueueFacts DEF Joins
<1> QED
  BY <1>1, <1>2, <1>3, <1>4

LEMMA RespondReads ==
    ASSUME PathInv, NEW c \in Conn, Responds(c), NEW d \in Conn \ StaleReaders, ReadRow(d)
    PROVE  RowNext(d)
<1>1. lastApplied' = lastApplied /\ lastApplied \in Nat
  BY LogFacts DEF Responds, lastApplied
<1>2. ASSUME NEW p \in Pending, RespondsLater(c, p) PROVE RowNext(d)
  <2>1. Joins(c, p) /\ answers' = answers /\ (d = c => ~ p.raw.ok)
    BY <1>2, AppendJoins DEF RespondsLater, PathInv, PathType, TypeOK
  <2>2. NoneRead(queue'[d])
    BY <2>1, JoinedReads
  <2> QED BY <1>1, <2>1, <2>2, SameReads
<1>3. ASSUME NEW a \in Answer, RespondsNow(c, a) PROVE RowNext(d)
  <2>1. queue' = queue /\ (a.ok => a.at = lastApplied)
    BY <1>3 DEF RespondsNow
  <2>2. PICK s : s = <<a>>
    OBVIOUS
  <2>3. s \in Seq(Answer) /\ Len(s) = 1 /\ s[1] = a
    BY <2>2
  <2>4. Sends(c, s)
    BY <1>3, <2>2, <2>3, SendSends DEF RespondsNow, PathInv, PathType, TypeOK
  <2>5. GivenAt(s, lastApplied')
    BY <1>1, <2>1, <2>3 DEF GivenAt
  <2>6. NoneRead(queue'[d])
    BY <2>1 DEF ReadRow
  <2> QED BY <1>1, <2>3, <2>4, <2>5, <2>6, SentReads
<1> QED
  BY <1>2, <1>3, Zenon DEF Responds

LEMMA FlushReads ==
    ASSUME PathInv, Flushes, NEW c \in Conn, ReadRow(c)
    PROVE  RowNext(c)
<1>1. PICK n \in Nat : n = lastApplied /\ n = lastApplied'
  BY LogFacts DEF Flushes, lastApplied
<1>2. Len(queue'[c]) = 0
  BY DEF Flushes
<1>3. PICK q \in Seq(Pending), sent \in Seq(Answer) : q = queue[c] /\ sent = answers[c]
  BY RowFacts DEF PathInv
<1>4. PICK s \in Seq(Answer) : s = flushPending(q) /\ Len(s) = Len(q)
  BY FlushPendingResult
<1>5. GivenAt(s, n)
  <2> SUFFICES ASSUME NEW k \in 1..Len(q) PROVE ~ s[k].ok
    BY <1>4 DEF GivenAt
  <2>1. s[k] = IF q[k].kind = "raw" THEN q[k].raw ELSE Err(q[k].id)
    BY <1>4, FlushPendingResult
  <2>2. ~ q[k].raw.ok
    BY <1>3 DEF ReadRow, NoneRead
  <2> QED BY <2>1, <2>2 DEF Err
<1>6. answers'[c] = IF attached[c] THEN sent \o s ELSE sent
  BY <1>3, <1>4 DEF Flushes
<1>7. PICK now \in Seq(Answer) : now = sent \o s
  BY ConcatFacts
<1>8. GoesOn(sent, now, s)
  BY <1>7, ConcatFacts DEF GoesOn
<1>9. Behind(sent, n) /\ Monotone(sent)
  BY <1>1, <1>3 DEF ReadRow
<1>10. Behind(now, n) /\ Monotone(now)
  BY <1>5, <1>8, <1>9, GoneOnReads
<1>11. NoneRead(queue'[c])
  BY <1>2 DEF NoneRead
<1> QED
  BY <1>1, <1>6, <1>7, <1>9, <1>10, <1>11 DEF RowNext

LEMMA ApplyReads ==
    ASSUME PathInv, ApplyCommit, NEW d \in Conn, ReadRow(d)
    PROVE  RowNext(d)
<1>1. lastApplied' = lastApplied + 1 /\ lastApplied \in Nat
  BY ApplyResult DEF Applies, lastApplied
<1>2. lastApplied' \in Nat /\ lastApplied <= lastApplied'
  BY <1>1
<1>3. CASE UNCHANGED <<answers, queue, blocked>>
  <2>1. NoneRead(queue'[d])
    BY <1>3 DEF ReadRow
  <2> QED BY <1>2, <1>3, <2>1, SameReads
<1>4. ASSUME NEW c \in Conn, NEW n \in Nat, Dispatches(c, n) PROVE RowNext(d)
  <2>1. Leaves(c, n) /\ answers' = Send(c, DispatchedAnswers(c, n))
    BY <1>4 DEF Dispatches
  <2>2. NoneRead(queue'[d])
    <3> SUFFICES ASSUME NEW k \in 1..Len(queue'[d]) PROVE ~ queue'[d][k].raw.ok
      BY DEF NoneRead
    <3>1. CASE d # c
      BY <2>1, <3>1 DEF Leaves, ReadRow, NoneRead
    <3>2. CASE d = c
      <4>1. n + k \in 1..Len(queue[c]) /\ queue'[c][k] = queue[c][n + k]
        BY <2>1, <3>2, QueueFacts DEF Leaves
      <4> QED BY <3>2, <4>1 DEF ReadRow, NoneRead
    <3> QED BY <3>1, <3>2
  <2>3. PICK s \in Seq(Answer) : s = DispatchedAnswers(c, n) /\ Len(s) = n
    BY <2>1, DispatchedType DEF Leaves
  <2>4. Sends(c, s)
    BY <2>1, <2>3, SendSends DEF PathInv, PathType, TypeOK
  <2>5. ASSUME d = c PROVE GivenAt(s, lastApplied')
    <3> SUFFICES ASSUME NEW k \in 1..n, s[k].ok PROVE s[k].at = lastApplied + 1
      BY <1>1, <2>3 DEF GivenAt
    <3>1. s[k] = IF queue[c][k].kind = "raw" THEN queue[c][k].raw ELSE Ok(queue[c][k].id, lastApplied + 1)
      BY <2>3 DEF DispatchedAnswers
    <3>2. k \in 1..Len(queue[c])
      BY <2>1, QueueFacts DEF Leaves
    <3>3. ~ queue[c][k].raw.ok
      BY <2>5, <3>2 DEF ReadRow, NoneRead
    <3> QED BY <3>1, <3>3 DEF Ok
  <2> QED BY <1>2, <2>2, <2>4, <2>5, SentReads
<1> QED
  BY <1>3, <1>4, ApplyResult

LEMMA ReadStep == PathInv /\ ReadInv /\ [Next]_vars => ReadInv'
<1>1. ASSUME PathInv, ReadInv, Next, NEW d \in Conn \ StaleReaders PROVE RowNext(d)
  <2>1. ReadRow(d) /\ NoneRead(queue[d])
    BY <1>1 DEF ReadInv, ReadRow
  <2>2. ASSUME UNCHANGED <<answers, queue, applied>> PROVE RowNext(d)
    BY <2>1, <2>2 DEF ReadRow, RowNext, lastApplied
  <2>3. ASSUME NEW c \in Conn, AppendWrite(c) PROVE RowNext(d)
    <3>1. PICK p \in Pending : Writes(c, p)
      BY <1>1, <2>3, WriteResult DEF PathInv
    <3>2. Joins(c, p) /\ ~ p.raw.ok /\ answers' = answers /\ applied' = applied
      BY <3>1 DEF Writes
    <3>3. NoneRead(queue'[d])
      BY <1>1, <2>1, <3>2, JoinedReads
    <3>4. lastApplied' = lastApplied /\ lastApplied \in Nat
      BY <1>1, <3>2, LogFacts DEF lastApplied
    <3> QED BY <1>1, <2>1, <3>2, <3>3, <3>4, SameReads
  <2>4. CASE Calms \/ Cuts
    BY <2>2, <2>4 DEF Calms, Cuts, clients
  <2> QED BY <1>1, <2>1, <2>3, <2>4, StepKinds, RespondReads, FlushReads, ApplyReads
<1>2. ASSUME ReadInv, UNCHANGED vars, NEW d \in Conn \ StaleReaders PROVE RowNext(d)
  <2>1. UNCHANGED <<answers, queue, applied>>
    BY <1>2 DEF vars, clients
  <2> QED BY <1>2, <2>1 DEF ReadInv, ReadRow, RowNext, lastApplied
<1>3. ASSUME \A d \in Conn \ StaleReaders : RowNext(d) PROVE ReadInv'
  BY <1>3 DEF ReadInv, ReadRow, RowNext
<1> QED
  BY <1>1, <1>2, <1>3

LEMMA ReadInit == Init => ReadInv
<1> SUFFICES ASSUME Init, NEW c \in Conn
             PROVE  ReadRow(c)
  BY DEF ReadInv
<1>1. Len(queue[c]) = 0 /\ Len(answers[c]) = 0
  BY DEF Init
<1> QED
  BY <1>1 DEF ReadRow, Behind, Monotone, NoneRead

LEMMA ReadSafe == ReadInv => ReadsMonotonic
  BY DEF ReadInv, ReadRow, ReadsMonotonic, Monotone

\* RaftDispatcher::service, PendingQueue::addPendingRequest: a client that did not ask
\* for stale reads never gets an answer about an older state of the state machine
\* than the one an earlier answer was about, across lost leadership and flushes.
THEOREM ReadsMonotonicCorrect == Spec => []ReadsMonotonic
<1>1. PathInv /\ ReadInv /\ [Next]_vars => ReadInv'
  BY ReadStep
<1> QED
  BY <1>1, ReadInit, ReadSafe, PathAlways, PTL DEF Spec

=============================================================================
