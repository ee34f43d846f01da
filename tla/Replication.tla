---------------------------- MODULE Replication ----------------------------
(***************************************************************************)
(* The leader's side of replication during one term: RaftReplicator with   *)
(* one RaftReplicaTracker per target (its main thread, the monitor of      *)
(* streamed answers and the heartbeat thread), RaftCommitTracker,          *)
(* RaftLease, and the part of RaftDirector that ends the term.             *)
(*                                                                         *)
(* sendPayload reads the journal three times (previous term, commit index, *)
(* entries) and RaftDispatcher may replace the journal in between when the *)
(* node has been deposed; each read is a step, except that a scenario may  *)
(* close the window between the first two (left.prevWindow).  Requests of  *)
(* one connection are handled in order, those of a broken connection at    *)
(* any later time or never.  Log entries are their terms.  T is the term   *)
(* of the snapshot the replicator was activated with, T + 1 that of the    *)
(* next leader.                                                            *)
(***************************************************************************)
EXTENDS Integers, Sequences, FiniteSets, FiniteSetsExt

CONSTANTS
    Target,       \* the servers the leader replicates to
    Leader,       \* the node itself
    Scenarios,    \* the initial situations, with the faults each may meet
    StreamAt,     \* payload limit from which updates are streamed (8 in the code)
    StreamLimit,  \* entries in a streamed request (512)
    MaxInFlight,  \* streamed requests under way (512)
    Lease         \* leaseDuration

T == 2
NoTerm == -1

ASSUME ReplicationAssumption ==
    /\ IsFiniteSet(Target) /\ Leader \notin Target
    /\ StreamAt \in Nat \ {0} /\ StreamLimit \in Nat \ {0} /\ MaxInFlight \in Nat \ {0}
    /\ Lease \in Nat

\* A log that may stand beside the log j of the leader of term T: its terms do not
\* grow smaller after T and only the leader made entries of T; where it has an entry of
\* the same term as j, all entries below agree.
Plausible(log, j) ==
    /\ log \in Seq(Nat) /\ Len(log) > 0
    /\ \A i \in 1..Len(log) : log[i] >= T =>
          log[i] = T /\ i \in 3..Len(j) /\ \A k \in i..Len(log) : log[k] = T
    /\ \A i \in 1..Len(log) : i <= Len(j) /\ log[i] = j[i] => \A k \in 1..i : log[k] = j[k]

\* Full nodes are targets, the logs of the targets are what earlier terms may leave, and
\* a scenario has elections or changes of membership, not both: Journal has both.
ASSUME ScenariosAssumption ==
    \A s \in Scenarios :
        /\ s.full \subseteq Target /\ s.start \in 0..2
        /\ \A t \in Target : Plausible(s.logs[t], <<0, 1, T>>)
        /\ {"elections", "reconfigurations"} \subseteq DOMAIN s.left
        /\ s.left.elections \in Nat /\ s.left.reconfigurations \in Nat
        /\ s.left.elections = 0 \/ s.left.reconfigurations = 0

VARIABLES
    journal,   \* RaftJournal of the leader: log, start, commitIndex
    term,      \* RaftState::term of the leader
    tracker,   \* per target: RaftReplicaTracker::main and the values it holds
    inFlight,  \* per target: the queue of awaited answers
    reqs,      \* per target: requests on the connection
    old,       \* per target: requests left behind on a broken connection
    node,      \* per target: its term, log, commitIndex, time of the last heartbeat
    match,     \* per target: RaftMatchIndexTracker::matchIndex
    committed, \* RaftCommitTracker::commitIndex
    full,      \* the targets that are full nodes, and count for quorums
    contact,   \* per target: RaftLastContact::lastCommunication
    beat,      \* per target: the heartbeat under way
    now,       \* the clock
    director,  \* whether the replicator has been deactivated
    left       \* the faults and requests the scenario still allows

vars == <<journal, term, tracker, inFlight, reqs, old, node, match, committed, full, contact,
          beat, now, director, left>>
net  == <<inFlight, reqs, old>>
time == <<contact, beat, now>>

LogSize == Len(journal.log)
TermAt(log, i) == log[i + 1]
quorumSize == (Cardinality(full) + 1) \div 2 + 1
Current == term = T

\* The k-th smallest value (from 0) of f over S: what sorting a vector and
\* indexing it gives.
Nth(f, S, k) ==
    CHOOSE v \in {f[t] : t \in S} :
        /\ Cardinality({t \in S : f[t] < v}) <= k
        /\ Cardinality({t \in S : f[t] <= v}) > k

-----------------------------------------------------------------------------
(* RaftCommitTracker *)

\* Mutant of recalculateCommitIndex: takes the best match index.
recalculateBest(m) == Nth(m, full, Cardinality(full) - 1)

\* The index that a quorum has reached, the leader included.
recalculateCommitIndex(m) == Nth(m, full, Cardinality(full) + 1 - quorumSize)

\* RaftJournal::setCommitIndex
setCommitIndex(j, index) == [j EXCEPT !.commitIndex = Max({@, index})]

\* RaftMatchIndexTracker::update: nothing is recomputed for an index that is
\* known to be committed, and a result below the journal's is ignored.
updateMatch(t, index) ==
    LET m == [match EXCEPT ![t] = index]
        c == recalculateCommitIndex(m)
    IN  /\ match' = m
        /\ IF index <= committed \/ full = {} \/ c < journal.commitIndex
           THEN UNCHANGED <<journal, committed>>
           ELSE committed' = c /\ journal' = setCommitIndex(journal, c)

\* The commit tracker hears of an answer only once entries of the leader's own
\* term are being replicated.
acknowledged(t, item, index) ==
    IF item.lastEntryTerm = T THEN updateMatch(t, index)
    ELSE UNCHANGED <<journal, match, committed>>

-----------------------------------------------------------------------------
(* RaftLease *)

\* RaftLastContact::heartbeat
touch(t, sent) == contact' = [contact EXCEPT ![t] = Max({@, sent})]

\* Mutant of getDeadline: one node too few.
deadlineOffByOne ==
    IF full = {} THEN now + Lease
    ELSE Nth(contact, full, Cardinality(full) - 1) + Lease

\* RaftLease::getDeadline
getDeadline ==
    IF full = {} THEN now + Lease
    ELSE Nth(contact, full, Cardinality(full) + 1 - quorumSize) + Lease

-----------------------------------------------------------------------------
(* The target: RaftDispatcher::heartbeat and appendEntries *)

\* The first index of the request whose entry the target lacks or disagrees on.
compareEntries(n, r) ==
    Min({i \in (r.prev + 1)..(r.prev + 1 + Len(r.entries)) :
           \/ i = r.prev + 1 + Len(r.entries)
           \/ i >= Len(n.log)
           \/ TermAt(n.log, i) # r.entries[i - r.prev]})

Matches(n, r) == r.prev < Len(n.log) /\ TermAt(n.log, r.prev) = r.prevTerm

\* The target is asked to replace an entry it has committed (qdb_throw).
Throws(n, r) ==
    /\ n.term <= T /\ Matches(n, r)
    /\ compareEntries(n, r) - r.prev - 1 < Len(r.entries)
    /\ compareEntries(n, r) <= n.commitIndex

heardFrom(n) == [n EXCEPT !.term = T, !.heard = now]

appendEntries(n, r) ==
    LET first == compareEntries(n, r)
        keep  == SubSeq(n.log, 1, first)
        log   == IF first > r.prev + Len(r.entries) THEN n.log
                 ELSE keep \o SubSeq(r.entries, first - r.prev, Len(r.entries))
    IN  IF n.term > T THEN n
        ELSE IF ~ Matches(n, r) THEN heardFrom(n)
        ELSE setCommitIndex([heardFrom(n) EXCEPT !.log = log],
                            Min({Len(log) - 1, r.commit}))

answerTo(n, r) ==
    LET m == appendEntries(n, r)
    IN  [state |-> "ok", term |-> m.term, logSize |-> Len(m.log),
         outcome |-> n.term <= T /\ Matches(n, r)]

-----------------------------------------------------------------------------
\* What a future holds until the answer is there, or the connection breaks.
Pending == [state |-> "pending", term |-> 0, logSize |-> 0, outcome |-> FALSE]
Lost == [Pending EXCEPT !.state = "lost"]

\* The futures of a target that nobody waits for any more.
forget(t) ==
    /\ inFlight' = [inFlight EXCEPT ![t] = <<>>]
    /\ reqs' = [reqs EXCEPT ![t] = [k \in DOMAIN @ |-> [@[k] EXCEPT !.want = FALSE]]]
    /\ UNCHANGED old

\* RaftState::observed without a leader
observed(seen) == term' = Max({term, seen})

\* RaftReplicaTracker::main when it is created, for a server that can be reached;
\* the rounds of the others change nothing and are left out.
newTracker(reachable) ==
    [pc |-> IF reachable THEN "round" ELSE "done", next |-> 3, limit |-> 1, online |-> FALSE,
     needResilvering |-> FALSE, resilverer |-> "none", streaming |-> "no",
     prevTerm |-> NoTerm, commit |-> 0]

Init ==
    \E s \in Scenarios :
        /\ journal = [log |-> <<0, 1, T>>, start |-> s.start, commitIndex |-> s.start]
        /\ term = T
        /\ tracker = [t \in Target |-> newTracker(t \in s.tracked)]
        /\ inFlight = [t \in Target |-> <<>>]
        /\ reqs = [t \in Target |-> <<>>]
        /\ old = [t \in Target |-> <<>>]
        /\ node = [t \in Target |-> [term |-> T, log |-> s.logs[t], commitIndex |-> 0, heard |-> 0]]
        /\ match = [t \in Target |-> 0]
        /\ committed = 0
        /\ full = s.full
        /\ contact = [t \in Target |-> 0]
        /\ beat = [t \in Target |-> [state |-> IF t \in s.beating THEN "none" ELSE "off",
                                      sent |-> 0, term |-> 0]]
        /\ now = 0
        /\ director = "leading"
        /\ left = s.left

-----------------------------------------------------------------------------
(* The main thread of a tracker *)

\* sendPayload cannot use the entry before the next one: it is gone, or of a
\* higher term.
PrevUnreadable(next) ==
    \/ next - 1 < journal.start \/ next > LogSize
    \/ TermAt(journal.log, next - 1) > T

PayloadSize(t) ==
    Min({IF tracker[t].streaming = "no" THEN tracker[t].limit ELSE StreamLimit,
         LogSize - tracker[t].next})

Payload(t) == SubSeq(journal.log, tracker[t].next + 1, tracker[t].next + PayloadSize(t))

\* The target looks stable: streamUpdates starts its monitor.
StartStreaming(t) ==
    /\ tracker[t].pc = "round" /\ tracker[t].streaming = "no" /\ Current
    /\ tracker[t].online /\ tracker[t].limit >= StreamAt
    /\ tracker' = [tracker EXCEPT ![t].streaming = "yes", ![t].resilverer = "none"]
    /\ UNCHANGED <<journal, term, net, node, match, committed, full, time, director, left>>

\* A round may begin: the loop conditions of main and of streamUpdates.
CanBegin(t) ==
    /\ tracker[t].pc = "round" /\ Current
    /\ \/ tracker[t].streaming = "no" /\ ~ (tracker[t].online /\ tracker[t].limit >= StreamAt)
       \/ tracker[t].streaming = "yes" /\ Len(inFlight[t]) < MaxInFlight

\* Where the round begins: main, not streamUpdates, skips what has been trimmed.
RoundIndex(t) ==
    IF tracker[t].streaming = "no" /\ tracker[t].next <= journal.start THEN LogSize
    ELSE tracker[t].next

\* sendPayload up to the reading of the commit index.
BeginRound(t) ==
    LET next == RoundIndex(t)
    IN  /\ CanBegin(t)
        /\ ~ PrevUnreadable(next)
        /\ tracker' = [tracker EXCEPT ![t] =
              [@ EXCEPT !.pc = IF left.prevWindow THEN "prev" ELSE "commit", !.next = next,
                        !.prevTerm = TermAt(journal.log, next - 1),
                        !.commit = IF left.prevWindow THEN 0 ELSE journal.commitIndex]]
        /\ UNCHANGED <<journal, term, net, node, match, committed, full, time, director, left>>

ReadCommitIndex(t) ==
    /\ tracker[t].pc = "prev"
    /\ tracker' = [tracker EXCEPT ![t].pc = "commit", ![t].commit = journal.commitIndex]
    /\ UNCHANGED <<journal, term, net, node, match, committed, full, time, director, left>>

\* Mutant of CommitFor: the commit index is read after the entries.
CommitForLate(t) == journal.commitIndex

\* The commit index that goes out with the entries.
CommitFor(t) == tracker[t].commit

\* The time of contact that an answer will vouch for.
SentAt == now

\* buildPayload and the sending of the request.
SendPayload(t) ==
    LET tr   == tracker[t]
        es   == Payload(t)
        item == [from |-> tr.next, size |-> Len(es), sent |-> SentAt, answer |-> Pending,
                 lastEntryTerm |-> IF es = <<>> THEN NoTerm ELSE es[Len(es)]]
    IN  /\ tr.pc = "commit" /\ tr.next <= LogSize
        /\ \A k \in DOMAIN es : es[k] <= T
        /\ reqs' = [reqs EXCEPT ![t] = Append(@, [prev |-> tr.next - 1, prevTerm |-> tr.prevTerm,
                                     commit |-> CommitFor(t), entries |-> es, want |-> TRUE])]
        /\ inFlight' = [inFlight EXCEPT ![t] = Append(@, item)]
        /\ tracker' = [tracker EXCEPT ![t] =
              [@ EXCEPT !.pc = IF tr.streaming = "no" THEN "wait" ELSE "round",
                        !.next = IF tr.streaming = "no" THEN tr.next ELSE tr.next + Len(es),
                        !.prevTerm = NoTerm, !.commit = 0]]
        /\ UNCHANGED <<journal, term, old, node, match, committed, full, time, director, left>>

\* sendPayload gives up: the node steps down, and replication halts.
Halt(t) ==
    /\ \/ CanBegin(t) /\ PrevUnreadable(RoundIndex(t))
       \/ /\ tracker[t].pc = "commit" /\ tracker[t].next <= LogSize
          /\ \E k \in DOMAIN Payload(t) : Payload(t)[k] > T
    /\ observed(T + 1)
    /\ tracker' = [tracker EXCEPT ![t] = IF @.streaming = "no" THEN [@ EXCEPT !.pc = "done"]
                                         ELSE [@ EXCEPT !.pc = "round", !.streaming = "stop"]]
    /\ UNCHANGED <<journal, net, node, match, committed, full, time, director, left>>

\* The journal became shorter than nextIndex since it was read: the payload is
\* resized to a negative number of entries, and the exception ends the process.
PayloadThrows(t) ==
    /\ tracker[t].pc = "commit" /\ tracker[t].next > LogSize
    /\ tracker' = [s \in Target |-> [tracker[s] EXCEPT !.pc = "done"]]
    /\ director' = "crashed"
    /\ UNCHANGED <<journal, term, net, node, match, committed, full, time, left>>

\* streamUpdates returns: the monitor is joined, its queue cleared, and the
\* tracker goes back to one request at a time.
LeaveStreaming(t) ==
    /\ tracker[t].pc = "round" /\ tracker[t].streaming # "no"
    /\ tracker[t].streaming = "stop" \/ ~ Current
    /\ tracker' = [tracker EXCEPT ![t] = [@ EXCEPT !.streaming = "no", !.limit = 1, !.online = TRUE]]
    /\ forget(t)
    /\ UNCHANGED <<journal, term, node, match, committed, full, time, director, left>>

\* Mutant of EndLoop: main does not look at its snapshot.
EndLoopNever(t) == FALSE

\* main leaves its loop.
EndLoop(t) ==
    /\ tracker[t].pc = "round" /\ tracker[t].streaming = "no" /\ ~ Current

Finish(t) ==
    /\ EndLoop(t)
    /\ tracker' = [tracker EXCEPT ![t].pc = "done"]
    /\ UNCHANGED <<journal, term, net, node, match, committed, full, time, director, left>>

\* triggerResilvering: a failed attempt is repeated in the round after the next.
triggerResilvering(r) == CASE r = "inprogress" -> r [] r = "failed" -> "none" [] OTHER -> "inprogress"

\* The tracker after an answer: the target is too far behind, or disagrees, or
\* holds the entries.
AfterAnswer(tr, a) ==
    LET behind  == a.logSize <= journal.start
        aligned == [tr EXCEPT !.needResilvering = FALSE, !.resilverer = "none"]
    IN  IF behind
        THEN [tr EXCEPT !.next = LogSize, !.needResilvering = TRUE,
                        !.limit = IF tr.needResilvering THEN @ ELSE 1,
                        !.resilverer = triggerResilvering(@)]
        ELSE IF ~ a.outcome
        THEN [aligned EXCEPT !.next = IF @ >= 2 /\ @ <= a.logSize THEN @ - 1
                                      ELSE IF a.logSize > 0 THEN a.logSize ELSE @]
        ELSE [aligned EXCEPT !.next = a.logSize, !.limit = 2 * @]

\* main reads the answer it was waiting for.
ReadAnswer(t) ==
    LET item == Head(inFlight[t])
        a    == item.answer
        tr   == [tracker[t] EXCEPT !.online = TRUE, !.pc = "round"]
    IN  /\ tracker[t].pc = "wait"
        /\ a.state = "ok"
        /\ inFlight' = [inFlight EXCEPT ![t] = <<>>]
        /\ observed(a.term)
        /\ tracker' = [tracker EXCEPT ![t] = IF a.term > T THEN tr ELSE AfterAnswer(tr, a)]
        /\ IF a.term > T THEN UNCHANGED contact ELSE touch(t, item.sent)
        /\ IF a.term <= T /\ a.logSize > journal.start /\ a.outcome
           THEN acknowledged(t, item, a.logSize - 1)
           ELSE UNCHANGED <<journal, match, committed>>
        /\ UNCHANGED <<reqs, old, node, full, beat, now, director, left>>

\* No answer in half a second, or the connection broke.
NoAnswer(t, timeout) ==
    /\ tracker[t].pc = "wait"
    /\ IF timeout THEN Head(inFlight[t]).answer = Pending /\ left.timeouts > 0
       ELSE Head(inFlight[t]).answer = Lost
    /\ left' = IF timeout THEN [left EXCEPT !.timeouts = @ - 1] ELSE left
    /\ tracker' = [tracker EXCEPT ![t] = [@ EXCEPT !.pc = "round", !.online = FALSE,
                                                   !.limit = IF tracker[t].online THEN 1 ELSE tracker[t].limit]]
    /\ forget(t)
    /\ UNCHANGED <<journal, term, node, match, committed, full, time, director>>

-----------------------------------------------------------------------------
(* The other threads of the leader *)

\* monitorAckReception reads the oldest awaited answer.
MonitorAck(t) ==
    LET item == Head(inFlight[t])
        a    == item.answer
        fine == a.outcome /\ a.term = T /\ a.logSize = item.from + item.size
    IN  /\ tracker[t].streaming = "yes" /\ inFlight[t] # <<>>
        /\ a.state = "ok"
        /\ inFlight' = [inFlight EXCEPT ![t] = Tail(@)]
        /\ observed(a.term)
        /\ IF fine
           THEN /\ touch(t, item.sent)
                /\ acknowledged(t, item, a.logSize - 1)
                /\ UNCHANGED tracker
           ELSE /\ tracker' = [tracker EXCEPT ![t].streaming = "stop"]
                /\ UNCHANGED <<journal, match, committed, contact>>
        /\ UNCHANGED <<reqs, old, node, full, beat, now, director, left>>

MonitorLost(t) ==
    /\ tracker[t].streaming = "yes" /\ inFlight[t] # <<>>
    /\ Head(inFlight[t]).answer = Lost
    /\ inFlight' = [inFlight EXCEPT ![t] = Tail(@)]
    /\ tracker' = [tracker EXCEPT ![t].streaming = "stop"]
    /\ UNCHANGED <<journal, term, reqs, old, node, match, committed, full, time, director, left>>

\* RaftResilverer, as the tracker sees it: the target is given the journal.
EndResilvering(t, ok) ==
    /\ tracker[t].resilverer = "inprogress" /\ Current
    /\ ok \/ left.breaks > 0
    /\ left' = IF ok THEN left ELSE [left EXCEPT !.breaks = @ - 1]
    /\ tracker' = [tracker EXCEPT ![t].resilverer = IF ok THEN "done" ELSE "failed"]
    /\ node' = IF ok /\ node[t].term = T
               THEN [node EXCEPT ![t].log = journal.log, ![t].commitIndex = journal.commitIndex]
               ELSE node
    /\ UNCHANGED <<journal, term, net, match, committed, full, time, director>>

\* sendHeartbeats
SendHeartbeat(t) ==
    /\ beat[t].state = "none" /\ Current
    /\ beat' = [beat EXCEPT ![t] = [state |-> "sent", sent |-> SentAt, term |-> 0]]
    /\ UNCHANGED <<journal, term, tracker, net, node, match, committed, full, contact, now, director, left>>

ReadHeartbeatReply(t) ==
    /\ beat[t].state = "answered"
    /\ observed(beat[t].term)
    /\ IF beat[t].term > T THEN UNCHANGED contact ELSE touch(t, beat[t].sent)
    /\ beat' = [beat EXCEPT ![t] = [state |-> "none", sent |-> 0, term |-> 0]]
    /\ UNCHANGED <<journal, tracker, net, node, match, committed, full, now, director, left>>

\* The answer to a heartbeat does not come in time.
LoseHeartbeat(t) ==
    /\ beat[t].state \in {"sent", "answered"}
    /\ beat' = [beat EXCEPT ![t] = [state |-> "none", sent |-> 0, term |-> 0]]
    /\ UNCHANGED <<journal, term, tracker, net, node, match, committed, full, contact, now, director, left>>

\* runAutoCommit, when the leader is the only full node.
AutoCommit ==
    /\ full = {} /\ Current
    /\ journal.commitIndex < LogSize - 1
    /\ journal' = setCommitIndex(journal, LogSize - 1)
    /\ UNCHANGED <<term, tracker, net, node, match, committed, full, time, director, left>>

\* leaderLoop finds the lease expired.
LeaseExpired ==
    /\ director = "leading" /\ Current
    /\ getDeadline < now
    /\ observed(T + 1)
    /\ UNCHANGED <<journal, tracker, net, node, match, committed, full, time, director, left>>

\* leaderLoop ends: deactivate joins the threads of every tracker.
Deactivate ==
    /\ director = "leading" /\ ~ Current
    /\ \A t \in Target : tracker[t].pc = "done"
    /\ director' = "stopped"
    /\ match' = [t \in Target |-> 0] /\ committed' = 0
    /\ UNCHANGED <<journal, term, tracker, net, node, full, time, left>>

\* RaftReplicator::reconfigure after a membership entry was appended: match
\* indexes and contacts outlive it.
Reconfigure(t) ==
    /\ left.reconfigurations > 0 /\ Current
    /\ full' = IF t \in full THEN full \ {t} ELSE full \cup {t}
    /\ journal' = [journal EXCEPT !.log = Append(@, T)]
    /\ left' = [left EXCEPT !.reconfigurations = @ - 1]
    /\ UNCHANGED <<term, tracker, net, node, match, committed, time, director>>

Write ==
    /\ left.writes > 0 /\ Current
    /\ journal' = [journal EXCEPT !.log = Append(@, T)]
    /\ left' = [left EXCEPT !.writes = @ - 1]
    /\ UNCHANGED <<term, tracker, net, node, match, committed, full, time, director>>

-----------------------------------------------------------------------------
(* The targets and the network *)

\* The answer reaches the oldest request that still waits for one.
deliver(q, a) ==
    LET waiting == {k \in DOMAIN q : q[k].answer = Pending}
    IN  [q EXCEPT ![Min(waiting)].answer = a]

HandleRequest(t) ==
    LET r == Head(reqs[t])
    IN  /\ reqs[t] # <<>> /\ ~ Throws(node[t], r)
        /\ node' = [node EXCEPT ![t] = appendEntries(@, r)]
        /\ inFlight' = IF r.want THEN [inFlight EXCEPT ![t] = deliver(@, answerTo(node[t], r))]
                       ELSE inFlight
        /\ reqs' = [reqs EXCEPT ![t] = Tail(@)]
        /\ UNCHANGED <<journal, term, tracker, old, match, committed, full, time, director, left>>

HandleOldRequest(t) ==
    /\ old[t] # <<>> /\ ~ Throws(node[t], Head(old[t]))
    /\ node' = [node EXCEPT ![t] = appendEntries(@, Head(old[t]))]
    /\ old' = [old EXCEPT ![t] = Tail(@)]
    /\ UNCHANGED <<journal, term, tracker, inFlight, reqs, match, committed, full, time, director, left>>

\* The connection breaks: the requests after the k-th never arrive, no answer does.
Break(t, k) ==
    /\ left.breaks > 0 /\ inFlight[t] # <<>> /\ k <= Len(reqs[t])
    /\ left' = [left EXCEPT !.breaks = @ - 1]
    /\ old' = [old EXCEPT ![t] = @ \o SubSeq(reqs[t], 1, k)]
    /\ reqs' = [reqs EXCEPT ![t] = <<>>]
    /\ inFlight' = [inFlight EXCEPT ![t] =
          [i \in DOMAIN @ |-> IF @[i].answer = Pending THEN [@[i] EXCEPT !.answer = Lost] ELSE @[i]]]
    /\ UNCHANGED <<journal, term, tracker, node, match, committed, full, time, director>>

HandleHeartbeat(t) ==
    /\ beat[t].state = "sent"
    /\ node' = IF node[t].term > T THEN node ELSE [node EXCEPT ![t] = heardFrom(@)]
    /\ beat' = [beat EXCEPT ![t].state = "answered", ![t].term = node'[t].term]
    /\ UNCHANGED <<journal, term, tracker, net, match, committed, full, contact, now, director, left>>

Tick ==
    /\ left.time > 0
    /\ now' = now + 1
    /\ left' = [left EXCEPT !.time = @ - 1]
    /\ UNCHANGED <<journal, term, tracker, net, node, match, committed, full, contact, beat, director>>

-----------------------------------------------------------------------------
(* The next leader.  Elections are the subject of QuarkRaft; here they only *)
(* replace the journal under the trackers of the previous leader.           *)

Log(x) == IF x = Leader THEN journal.log ELSE node[x].log
TermOf(x) == IF x = Leader THEN term ELSE node[x].term
CommitOf(x) == IF x = Leader THEN journal.commitIndex ELSE node[x].commitIndex
Members == full \cup {Leader}

UpToDate(a, b) ==
    \/ a[Len(a)] > b[Len(b)]
    \/ a[Len(a)] = b[Len(b)] /\ Len(a) >= Len(b)

Elect(c, voters) ==
    /\ left.elections > 0
    /\ c \in voters /\ Cardinality(voters) = quorumSize
    /\ \A x \in voters : TermOf(x) <= T /\ UpToDate(Log(c), Log(x))
    /\ node' = [x \in Target |->
          IF x = c THEN [node[x] EXCEPT !.term = T + 1, !.log = Append(@, T + 1)]
          ELSE IF x \in voters THEN [node[x] EXCEPT !.term = T + 1] ELSE node[x]]
    /\ term' = IF Leader \in voters THEN T + 1 ELSE term
    /\ left' = [left EXCEPT !.elections = @ - 1]
    /\ UNCHANGED <<journal, tracker, net, match, committed, full, time, director>>

Elected(c) == c \in Target /\ node[c].log[Len(node[c].log)] = T + 1

\* The next leader brings a member's journal in line with its own.
Overwrite(c, x) ==
    /\ Elected(c) /\ x # c
    /\ Log(x) # Log(c) \/ CommitOf(x) < CommitOf(c)
    /\ IF x = Leader
       THEN /\ journal' = setCommitIndex([journal EXCEPT !.log = Log(c)], CommitOf(c))
            /\ term' = T + 1 /\ UNCHANGED node
       ELSE /\ node' = [node EXCEPT ![x] =
                  setCommitIndex([@ EXCEPT !.log = Log(c), !.term = T + 1], CommitOf(c))]
            /\ UNCHANGED <<journal, term>>
    /\ UNCHANGED <<tracker, net, match, committed, full, time, director, left>>

CommitNext(c) ==
    /\ Elected(c) /\ node[c].commitIndex < Len(node[c].log) - 1
    /\ Cardinality({x \in Members : Log(x) = Log(c)}) >= quorumSize
    /\ node' = [node EXCEPT ![c].commitIndex = Len(node[c].log) - 1]
    /\ UNCHANGED <<journal, term, tracker, net, match, committed, full, time, director, left>>

-----------------------------------------------------------------------------
Main(t) ==
    \/ StartStreaming(t) \/ BeginRound(t) \/ ReadCommitIndex(t) \/ SendPayload(t) \/ Halt(t)
    \/ PayloadThrows(t) \/ LeaveStreaming(t) \/ Finish(t) \/ ReadAnswer(t) \/ NoAnswer(t, FALSE)

Monitor(t) == MonitorAck(t) \/ MonitorLost(t)

Next ==
    \/ \E t \in Target :
          \/ Main(t) \/ Monitor(t) \/ NoAnswer(t, TRUE)
          \/ SendHeartbeat(t) \/ ReadHeartbeatReply(t) \/ LoseHeartbeat(t) \/ HandleHeartbeat(t)
          \/ HandleRequest(t) \/ HandleOldRequest(t)
          \/ \E ok \in BOOLEAN : EndResilvering(t, ok)
          \/ \E k \in 0..Len(reqs[t]) : Break(t, k)
          \/ Reconfigure(t)
          \/ CommitNext(t)
          \/ \E x \in Members : Overwrite(t, x)
          \/ \E voters \in SUBSET Members : Elect(t, voters)
    \/ AutoCommit \/ LeaseExpired \/ Deactivate \/ Write \/ Tick

\* Threads run, requests on a connection are handled; nothing has to break, and
\* nobody has to write, tick or be elected.
Fairness ==
    /\ \A t \in Target : WF_vars(Main(t)) /\ WF_vars(Monitor(t)) /\ WF_vars(HandleRequest(t))
    /\ WF_vars(Deactivate)

Spec == Init /\ [][Next]_vars /\ Fairness

-----------------------------------------------------------------------------
\* Every variable has its type; the commit index is always inside the journal.
TypeOK ==
    /\ journal.commitIndex \in journal.start..(LogSize - 1)
    /\ term \in T..(T + 1)
    /\ \A t \in Target :
          /\ tracker[t].pc \in {"round", "prev", "commit", "wait", "done"}
          /\ tracker[t].next \in 1..(LogSize + 6)
          /\ Len(inFlight[t]) <= MaxInFlight
          /\ node[t].commitIndex < Len(node[t].log)
          /\ match[t] < Len(node[t].log) \/ ~ Current \/ node[t].term > T
    /\ full \subseteq Target
    /\ director \in {"leading", "stopped", "crashed"}

Agree(x, y) ==
    \A i \in 0..Min({CommitOf(x), CommitOf(y)}) : TermAt(Log(x), i) = TermAt(Log(y), i)

\* RaftReplicaTracker::sendPayload, appendEntries: whatever the journal goes
\* through while trackers of a deposed leader read it, two nodes never consider
\* different entries committed, and no request makes a target replace one; the
\* types and the bounds on queues and indexes hold as well.
CommittedAgree ==
    /\ TypeOK
    /\ \A x, y \in Target \cup {Leader} : Agree(x, y)
    /\ \A t \in Target : \A q \in {reqs[t], old[t]} : q # <<>> => ~ Throws(node[t], Head(q))

\* RaftCommitTracker: a leader moves its commit index only to an entry of its
\* own term that a quorum of the full nodes stores, with all that precedes it.
CommitsOnlyChosen ==
    [][(term' = T /\ journal'.commitIndex > journal.commitIndex) =>
         LET c == journal'.commitIndex
         IN  /\ TermAt(journal'.log, c) = T
             /\ Cardinality({t \in full : Len(node[t].log) > c
                   /\ SubSeq(node[t].log, 1, c + 1) = SubSeq(journal'.log, 1, c + 1)}) + 1 >= quorumSize]_vars

\* RaftLease: the lease never outlives, by more than its duration, the moment at
\* which a quorum was last in touch with the leader.
LeaseHonest ==
    Current => Cardinality({t \in full : node[t].heard + Lease >= getDeadline}) + 1 >= quorumSize

\* RaftReplicator::deactivate: once the node is deposed, every thread of every
\* tracker ends, whatever it was waiting for, and the director goes on.
DeposedStops == (term > T) ~> (director # "leading")

\* streamUpdates, main: an entry written by a leader is committed, unless it is
\* deposed.
WrittenIsCommitted ==
    \A k \in 2..5 : (LogSize > k /\ Current) ~> (journal.commitIndex >= k \/ ~ Current)

=============================================================================
