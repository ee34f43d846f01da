------------------------------ MODULE QuarkRaft ------------------------------
(***************************************************************************)
(* The consensus core of QuarkDB: RaftState, the term, vote and log of     *)
(* RaftJournal, the handlers of RaftDispatcher, the election thread of     *)
(* RaftDirector, and the replication threads of RaftReplicator with        *)
(* RaftCommitTracker, for a cluster whose membership does not change.      *)
(*                                                                         *)
(* One action is one critical section of the code: a handler runs under    *)
(* RaftDispatcher::raftCommand, a RaftState method under RaftState::update.*)
(* What a thread reads before it waits for a lock or for the network and   *)
(* uses afterwards is state of that thread (director, writer, tracker).    *)
(* Requests are delivered at most once, in any order, or never.            *)
(*                                                                         *)
(* Three threads test a snapshot of the state and act on it later, without *)
(* a lock that spans both.  Windows names those that other threads may     *)
(* fall into; for the others test and act are one step.                    *)
(*   "prevote"  runForLeader prepares its vote request before the pre-vote *)
(*   "write"    service() tests for leadership before it takes raftCommand *)
(*   "send"     a tracker tests its snapshot before it reads the journal   *)
(***************************************************************************)
EXTENDS Integers, Sequences, FiniteSets

CONSTANTS
    Server,         \* the full nodes of the cluster
    Value,          \* the client writes
    Nobody,         \* the empty RaftServer
    Blocked,        \* RaftState::BLOCKED_VOTE
    PayloadLimits,  \* how many entries one append request may carry
    Windows,        \* the check-then-act windows that are open, see below
    MaxTerm,        \* bound on terms
    MaxLogSize,     \* bound on log sizes
    MaxElections,   \* bound on elections begun
    MaxLateVotes,   \* bound on vote requests a candidate leaves under way
    MaxFaults,      \* bound on restarts and terms observed out of the blue
    MaxAppReqs      \* bound on append requests under way at once

ASSUME ServerAssumption == IsFiniteSet(Server)
ASSUME NobodyAssumption ==
    /\ Nobody \notin Server \cup Value
    /\ Blocked \notin Server \cup {Nobody}
    /\ Server \cap Value = {}
ASSUME WindowAssumption == Windows \subseteq {"prevote", "write", "send"}
ASSUME BoundAssumption ==
    /\ PayloadLimits \subseteq Nat \ {0}
    /\ MaxTerm \in Nat /\ MaxLogSize \in Nat
    /\ MaxElections \in Nat /\ MaxLateVotes \in Nat
    /\ MaxFaults \in Nat /\ MaxAppReqs \in Nat

VARIABLES
    node,        \* per server: the fields of RaftState and of RaftJournal
    director,    \* per server: what RaftDirector::runForLeader has read
    writer,      \* per server: term of the snapshot a service() call holds, or 0
    repl,        \* per server: term the replicator is active for, or 0
    tracker,     \* per server and target: the RaftReplicaTracker
    voteReqs,    \* vote requests under way
    voteReplies, \* replies to them under way
    heartbeats,  \* <<leader, term>> of every heartbeat sent, ever
    appReqs,     \* append requests under way
    acks,        \* replies to them under way
    elected,     \* history: <<server, term>> of every successful ascend
    elections,   \* number of elections begun
    faults       \* number of faults so far

net == <<voteReqs, voteReplies, heartbeats, appReqs, acks>>
vars == <<node, director, writer, repl, tracker, net, elected, elections, faults>>

-----------------------------------------------------------------------------
(* Types.  A LogIndex k of the code is position k + 1 of the sequence.     *)

Term == Nat
Vote == {"VETO", "REFUSED", "GRANTED"}

\* RaftEntry.  The request is a client write, the server named by a
\* leadership marker, or Nobody for the initial membership entry.
Entry == [term: Term, request: Server \cup Value \cup {Nobody}]

Node == [term: Term, status: {"FOLLOWER", "CANDIDATE", "LEADER"},
         leader: Server \cup {Nobody},
         votedFor: Server \cup {Nobody, Blocked},
         leadershipMarker: Nat \cup {-1},
         currentTerm: Term, journalVote: Server \cup {Nobody, Blocked},
         log: Seq(Entry), commitIndex: Nat]

VoteReq == [term: Term, candidate: Server, to: Server,
            lastIndex: Nat, lastTerm: Term]
VoteReply == [from: Server, to: Server, term: Term, vote: Vote]

AppReq == [term: Term, leader: Server, target: Server, prevIndex: Nat,
           prevTerm: Term, commitIndex: Nat, entries: Seq(Entry)]
Ack == [req: AppReq, term: Term, logSize: Nat \ {0}, outcome: BOOLEAN]

Director == [phase: {"idle", "prepared", "electing"},
             term: Term, lastIndex: Nat, lastTerm: Term]

\* next = 0: the thread does not run; -1: it has returned.
Tracker == [next: Nat \cup {-1}, inflight: SUBSET AppReq, match: Nat]

-----------------------------------------------------------------------------
(* RaftJournal *)

LogSize(n) == Len(n.log)
TermAt(log, k) == log[k + 1].term
LastTerm(n) == TermAt(n.log, LogSize(n) - 1)

\* RaftJournal::obliterate with startIndex 0, and the RaftState built on it.
FreshNode ==
    [term |-> 0, status |-> "FOLLOWER", leader |-> Nobody, votedFor |-> Nobody,
     leadershipMarker |-> -1, currentTerm |-> 0, journalVote |-> Nobody,
     log |-> <<[term |-> 0, request |-> Nobody]>>, commitIndex |-> 0]

\* Mutant of updateJournal: nothing is saved unless the term is new.
updateJournalOncePerTerm(n) ==
    IF n.term <= n.currentTerm THEN n
    ELSE [n EXCEPT !.currentTerm = n.term, !.journalVote = n.votedFor]

\* RaftState::updateJournal through RaftJournal::setCurrentTerm, which ignores
\* a lower term, and a second vote for the same term.
updateJournal(n) ==
    IF n.term < n.currentTerm \/ (n.term = n.currentTerm /\ n.journalVote # Nobody)
    THEN n
    ELSE [n EXCEPT !.currentTerm = n.term, !.journalVote = n.votedFor]

\* The conditions of RaftJournal::appendNoLock on the term of a new entry.
CanAppend(n, term) == term <= n.currentTerm /\ term >= LastTerm(n)

appendEntry(n, term, request) ==
    [n EXCEPT !.log = Append(@, [term |-> term, request |-> request])]

\* Mutant of matchEntries: the term of the entry is not compared.
matchEntriesByIndex(n, index, term) == index < LogSize(n)

matchEntries(n, index, term) ==
    index < LogSize(n) /\ TermAt(n.log, index) = term

\* First index at which the log differs from the entries placed at start; the
\* end of the compared range when there is none.
compareEntries(n, start, entries) ==
    LET end == IF LogSize(n) < start + Len(entries)
               THEN LogSize(n) ELSE start + Len(entries)
    IN  CHOOSE k \in start..end :
            /\ \A x \in start..(k - 1) : n.log[x + 1] = entries[x - start + 1]
            /\ k = end \/ n.log[k + 1] # entries[k - start + 1]

\* Mutant of setCommitIndex: does not compare with the index it has.
setCommitIndexAnyway(n, index) == [n EXCEPT !.commitIndex = index]

\* RaftJournal::setCommitIndex ignores an index in the past.
setCommitIndex(n, index) ==
    [n EXCEPT !.commitIndex = IF @ < index THEN index ELSE @]

-----------------------------------------------------------------------------
(* RaftState *)

updateStatus(n, status) ==
    [n EXCEPT !.status = status,
              !.leadershipMarker = IF status = "LEADER" THEN @ ELSE -1]

\* Mutant of observed: recognising a leader blocks a vote already cast.
observedReblocking(n, term, leader) ==
    CASE term > n.term ->
           updateJournal([updateStatus(n, "FOLLOWER") EXCEPT
               !.term = term, !.leader = leader,
               !.votedFor = IF leader = Nobody THEN Nobody ELSE Blocked])
      [] term = n.term /\ n.leader = Nobody ->
           IF leader # Nobody
           THEN updateJournal([n EXCEPT !.leader = leader, !.votedFor = Blocked])
           ELSE n
      [] OTHER -> n

observed(n, term, leader) ==
    CASE term > n.term ->
           updateJournal([updateStatus(n, "FOLLOWER") EXCEPT
               !.term = term, !.leader = leader,
               !.votedFor = IF leader = Nobody THEN Nobody ELSE Blocked])
      [] term = n.term /\ n.leader = Nobody ->
           IF leader # Nobody /\ n.votedFor = Nobody
           THEN updateJournal([n EXCEPT !.leader = leader, !.votedFor = Blocked])
           ELSE [n EXCEPT !.leader = leader]
      [] OTHER -> n

CanBecomeCandidate(n, term) ==
    /\ n.term = term
    /\ n.status = "FOLLOWER"
    /\ n.leader = Nobody
    /\ n.votedFor = Nobody

becomeCandidate(n, i) ==
    updateStatus(updateJournal([n EXCEPT !.votedFor = i]), "CANDIDATE")

CanAscend(n, i, term) ==
    /\ n.term = term
    /\ n.status = "CANDIDATE"
    /\ n.leader = Nobody
    /\ n.votedFor = i
    /\ CanAppend(n, term)

ascend(n, i, term) ==
    updateStatus([appendEntry(n, term, i) EXCEPT
                     !.leader = i, !.leadershipMarker = LogSize(n)], "LEADER")

\* Mutant of dropOut: a candidate that has recognised a leader stays one.
dropOutUnlessLed(n, term) ==
    IF n.status = "CANDIDATE" /\ n.term = term /\ n.leader = Nobody
    THEN updateStatus(n, "FOLLOWER") ELSE n

dropOut(n, term) ==
    IF n.status = "CANDIDATE" /\ n.term = term THEN updateStatus(n, "FOLLOWER") ELSE n

CanGrantVote(n, term) ==
    /\ n.status = "FOLLOWER"
    /\ n.term = term
    /\ n.leader = Nobody
    /\ n.votedFor = Nobody

grantVote(n, candidate) == updateJournal([n EXCEPT !.votedFor = candidate])

-----------------------------------------------------------------------------
(* Voting: RaftDispatcher::requestVote, RaftVoteRegistry *)

\* Mutant of quorumSize: half of the members instead of a majority.
quorumSizeHalf == Cardinality(Server) \div 2

quorumSize == (Cardinality(Server) \div 2) + 1

\* Electing the candidate would overwrite an entry committed here.
Vetoes(n, q) ==
    /\ q.lastIndex <= n.commitIndex
    /\ \/ q.lastTerm # TermAt(n.log, q.lastIndex)
       \/ q.lastIndex + 1 <= n.commitIndex

\* Mutant of UpToDate: the length of the log is not compared.
UpToDateByTerm(n, q) == q.lastTerm >= LastTerm(n)

UpToDate(n, q) ==
    \/ q.lastTerm > LastTerm(n)
    \/ q.lastTerm = LastTerm(n) /\ q.lastIndex >= LogSize(n) - 1

\* The answer of a node that has already observed the term of the request.
VoteOn(n, q) ==
    IF Vetoes(n, q) THEN "VETO"
    ELSE IF /\ n.term = q.term
            /\ n.votedFor \in {Nobody, q.candidate}
            /\ UpToDate(n, q)
            /\ CanGrantVote(n, q.term)
         THEN "GRANTED"
    ELSE "REFUSED"

\* RaftVoteRegistry::determineOutcome over the replies that came in time; the
\* candidate's own vote is implicit.
Positives(R) == {j \in Server : \E r \in R : r.from = j /\ r.vote = "GRANTED"}

determineOutcome(R) ==
    IF \E r \in R : r.vote = "VETO" THEN "vetoed"
    ELSE IF Cardinality(Positives(R)) + 1 >= quorumSize
         THEN "elected"
    ELSE "notElected"

\* RaftVoteRegistry::observeTermsAndLeases: observing every term in turn is
\* observing the highest.
observeTerms(n, R) ==
    IF \E r \in R : r.term > n.term
    THEN observed(n, (CHOOSE r \in R : \A s \in R : s.term <= r.term).term, Nobody)
    ELSE n

-----------------------------------------------------------------------------
(* Replication: RaftReplicaTracker, RaftCommitTracker *)

NewTracker == [next |-> 0, inflight |-> {}, match |-> 0]

\* RaftState::isSnapshotCurrent for the snapshot the replicator of i runs with.
\* While that snapshot is current nothing changes term or status.
Current(n, term) == n.status = "LEADER" /\ n.term = term

\* RaftCommitTracker::recalculateCommitIndex: the highest match index that a
\* quorum has reached, counting the leader, which has everything.
Reached(match) ==
    {k \in {match[j] : j \in DOMAIN match} :
        Cardinality({j \in DOMAIN match : match[j] >= k}) + 1 >= quorumSize}

CommitCandidate(match) == CHOOSE k \in Reached(match) : \A l \in Reached(match) : l <= k

lastEntryTerm(m) == IF m.entries = <<>> THEN -1 ELSE m.entries[Len(m.entries)].term

\* RaftReplicaTracker::buildPayload: how many entries a request from next on has.
PayloadSize(n, next, limit) ==
    IF limit < LogSize(n) - next THEN limit ELSE LogSize(n) - next

\* sendPayload finds the previous entry and the payload, none of them from a
\* later term than its snapshot.
Readable(n, term, next, limit) ==
    /\ next <= LogSize(n)
    /\ \A k \in (next - 1)..(next - 1 + PayloadSize(n, next, limit)) : TermAt(n.log, k) <= term

\* Where the tracker goes next after an answer it can use.
NextIndex(next, ack) ==
    IF ack.outcome \/ next < 2 \/ next > ack.logSize THEN ack.logSize ELSE next - 1

\* Match indexes of the targets of i once the ack is taken into account.
MatchAfter(i, ack) ==
    [j \in Server \ {i} |->
        IF j = ack.req.target /\ ack.outcome /\ lastEntryTerm(ack.req) = ack.req.term
        THEN ack.logSize - 1 ELSE tracker[i][j].match]

\* RaftMatchIndexTracker::update: only an acknowledged entry of the leader's own
\* term moves the commit index.
CommitAfter(i, ack) ==
    IF ack.outcome /\ lastEntryTerm(ack.req) = ack.req.term
    THEN CommitCandidate(MatchAfter(i, ack)) ELSE 0

-----------------------------------------------------------------------------
(* The handler of append requests: RaftDispatcher::heartbeat, appendEntries *)

\* The node believes in another leader of the same term (qdb_throw).
HeartbeatCrashes(n, term, leader) ==
    LET seen == observed(n, term, leader)
    IN  seen.term = term /\ seen.leader # leader

\* The leader's entries conflict with a committed entry (qdb_throw).
AppendCrashes(n, m) ==
    LET first == compareEntries(n, m.prevIndex + 1, m.entries)
    IN  /\ matchEntries(n, m.prevIndex, m.prevTerm)
        /\ first - (m.prevIndex + 1) < Len(m.entries)
        /\ first <= n.commitIndex

\* How many of the entries the loop of journal.append calls gets through.
Accepted(n, entries) ==
    CHOOSE k \in 0..Len(entries) :
        /\ \A x \in 1..k : CanAppend([n EXCEPT !.log = @ \o SubSeq(entries, 1, x - 1)],
                                     entries[x].term)
        /\ k < Len(entries) =>
              ~ CanAppend([n EXCEPT !.log = @ \o SubSeq(entries, 1, k)], entries[k + 1].term)

\* Mutant of Appended: takes over the leader's commit index as it is.
AppendedCommitAhead(n, m) ==
    LET first == compareEntries(n, m.prevIndex + 1, m.entries)
        rest  == SubSeq(m.entries, first - m.prevIndex, Len(m.entries))
        new   == IF rest = <<>> THEN n
                 ELSE [n EXCEPT !.log = SubSeq(@, 1, first) \o rest]
    IN  [node |-> setCommitIndex(new, m.commitIndex), outcome |-> TRUE]

\* The log changes of a request whose previous entry matches: entries that are
\* here already are skipped, from the first different one on they replace the log.
Appended(n, m) ==
    LET first == compareEntries(n, m.prevIndex + 1, m.entries)
        rest  == SubSeq(m.entries, first - m.prevIndex, Len(m.entries))
        kept  == [n EXCEPT !.log = SubSeq(@, 1, first)]
        taken == Accepted(kept, rest)
        new   == IF rest = <<>> THEN n
                 ELSE [kept EXCEPT !.log = @ \o SubSeq(rest, 1, taken)]
        last  == LogSize(new) - 1
    IN  IF taken < Len(rest)
        THEN [node |-> new, outcome |-> FALSE]
        ELSE [node |-> setCommitIndex(new, IF last < m.commitIndex THEN last ELSE m.commitIndex),
              outcome |-> TRUE]

\* The handler as a whole: the new state of the node, and its answer.
appendEntries(n, m) ==
    LET seen == observed(n, m.term, m.leader)
        res  == IF m.term = seen.term /\ matchEntries(seen, m.prevIndex, m.prevTerm)
                THEN Appended(seen, m)
                ELSE [node |-> seen, outcome |-> FALSE]
    IN  [node |-> res.node,
         ack  |-> [req |-> m, term |-> seen.term,
                   logSize |-> LogSize(res.node), outcome |-> res.outcome]]

\* Delivering m to its target, or an ack to its leader, throws.
RequestCrashes(m) ==
    LET n == node[m.target] IN
    \/ HeartbeatCrashes(n, m.term, m.leader)
    \/ m.term >= n.term /\ AppendCrashes(n, m)

AckCrashes(a) == CommitAfter(a.req.leader, a) >= LogSize(node[a.req.leader])

-----------------------------------------------------------------------------
IdleDirector == [phase |-> "idle", term |-> 0, lastIndex |-> 0, lastTerm |-> 0]

Init ==
    /\ node = [i \in Server |-> FreshNode]
    /\ director = [i \in Server |-> IdleDirector]
    /\ writer = [i \in Server |-> 0]
    /\ repl = [i \in Server |-> 0]
    /\ tracker = [i \in Server |-> [j \in Server |-> NewTracker]]
    /\ voteReqs = {} /\ voteReplies = {} /\ heartbeats = {}
    /\ appReqs = {} /\ acks = {}
    /\ elected = {}
    /\ elections = 0 /\ faults = 0

\* A higher term reaches i: the raft-observe-term command, a lease that expired
\* in RaftDirector::leaderLoop, or the term of a reply to a heartbeat.  A jump of
\* several terms has the effect of single ones.
ObserveTerm(i) ==
    /\ node[i].term < MaxTerm
    /\ faults < MaxFaults
    /\ faults' = faults + 1
    /\ node' = [node EXCEPT ![i] = observed(@, @.term + 1, Nobody)]
    /\ UNCHANGED <<director, writer, repl, tracker, net, elected, elections>>

\* RaftDirector::runForLeader up to the pre-vote: heartbeats have timed out, the
\* vote request is prepared from what the journal holds now.
Prepared(i) ==
    [phase |-> "prepared", term |-> node[i].term + 1,
     lastIndex |-> LogSize(node[i]) - 1, lastTerm |-> LastTerm(node[i])]

CanRun(i) ==
    /\ director[i].phase = "idle"
    /\ repl[i] = 0
    /\ node[i].status = "FOLLOWER"
    /\ node[i].term < MaxTerm /\ elections < MaxElections

RunForLeader(i) ==
    /\ "prevote" \in Windows
    /\ CanRun(i)
    /\ director' = [director EXCEPT ![i] = Prepared(i)]
    /\ UNCHANGED <<node, writer, repl, tracker, net, elected, elections, faults>>

\* The pre-vote failed, or the state moved on meanwhile.
AbandonElection(i) ==
    /\ director[i].phase = "prepared"
    /\ director' = [director EXCEPT ![i] = IdleDirector]
    /\ UNCHANGED <<node, writer, repl, tracker, net, elected, elections, faults>>

\* The rest of runForLeader up to the broadcast of RaftElection::perform.  The
\* pre-vote gives no more than a reason to stop, and a coup skips it.
BeginElection(i) ==
    LET d == IF "prevote" \in Windows THEN director[i] ELSE Prepared(i)
        n == observed(node[i], d.term, Nobody)
    IN  /\ d.phase = "prepared"
        /\ "prevote" \in Windows \/ CanRun(i)
        /\ CanBecomeCandidate(n, d.term)
        /\ node' = [node EXCEPT ![i] = becomeCandidate(n, i)]
        /\ director' = [director EXCEPT ![i] = [d EXCEPT !.phase = "electing"]]
        /\ voteReqs' = voteReqs \cup
             {[term |-> d.term, candidate |-> i, to |-> j,
               lastIndex |-> d.lastIndex, lastTerm |-> d.lastTerm] : j \in Server \ {i}}
        /\ elections < MaxElections /\ elections' = elections + 1
        /\ UNCHANGED <<writer, repl, tracker, voteReplies, heartbeats, appReqs, acks,
                       elected, faults>>

\* RaftDispatcher::requestVote for a real (not pre-vote) request.  The answer
\* to an election that is over is dropped with the connection.
RequestVote(q) ==
    LET j == q.to
        d == director[q.candidate]
        n == observed(node[j], q.term, Nobody)
        v == VoteOn(n, q)
    IN  /\ node' = [node EXCEPT ![j] = IF v = "GRANTED" THEN grantVote(n, q.candidate) ELSE n]
        /\ voteReqs' = voteReqs \ {q}
        /\ voteReplies' = IF d.phase = "electing" /\ d.term = q.term
                          THEN voteReplies \cup
                                 {[from |-> j, to |-> q.candidate, term |-> n.term, vote |-> v]}
                          ELSE voteReplies
        /\ UNCHANGED <<director, writer, repl, tracker, heartbeats, appReqs, acks,
                       elected, elections, faults>>

\* The rest of RaftElection::perform with the replies R that arrived before the
\* deadline, and dropOut by runForLeader when the election is lost.  Requests
\* that were not delivered are lost, or are still on their way (late).
ConcludeElection(i, R, late) ==
    LET d   == director[i]
        n   == observeTerms(node[i], R)
        won == determineOutcome(R) = "elected" /\ CanAscend(n, i, d.term)
    IN  /\ d.phase = "electing"
        /\ won => LogSize(n) < MaxLogSize
        /\ node' = [node EXCEPT ![i] = IF won THEN ascend(n, i, d.term) ELSE dropOut(n, d.term)]
        /\ elected' = IF won THEN elected \cup {<<i, d.term>>} ELSE elected
        /\ director' = [director EXCEPT ![i] = IdleDirector]
        /\ voteReplies' = {r \in voteReplies : r.to # i}
        /\ Cardinality(late) <= MaxLateVotes
        /\ voteReqs' = {q \in voteReqs : q.candidate # i} \cup late
        /\ UNCHANGED <<writer, repl, tracker, heartbeats, appReqs, acks,
                       elections, faults>>

\* RaftDirector::leaderLoop starts: the replicator begins a thread per target,
\* and each starts to send heartbeats.
ActivateReplicator(i) ==
    /\ director[i].phase = "idle"
    /\ repl[i] = 0
    /\ node[i].status = "LEADER"
    /\ repl' = [repl EXCEPT ![i] = node[i].term]
    /\ tracker' = [tracker EXCEPT ![i] =
          [j \in Server |-> [NewTracker EXCEPT !.next = IF j = i THEN 0 ELSE LogSize(node[i])]]]
    /\ heartbeats' = heartbeats \cup {<<i, node[i].term>>}
    /\ UNCHANGED <<node, director, writer, voteReqs, voteReplies, appReqs, acks,
                   elected, elections, faults>>

\* leaderLoop ends: the snapshot is no longer current, the threads are joined.
DeactivateReplicator(i) ==
    /\ repl[i] # 0
    /\ ~ Current(node[i], repl[i])
    /\ repl' = [repl EXCEPT ![i] = 0]
    /\ tracker' = [tracker EXCEPT ![i] = [j \in Server |-> NewTracker]]
    /\ acks' = {a \in acks : a.req.leader # i}
    /\ UNCHANGED <<node, director, writer, voteReqs, voteReplies, heartbeats, appReqs,
                   elected, elections, faults>>

\* RaftDispatcher::heartbeat at j; no lock but that of RaftState::observed.
Heartbeat(j, h) ==
    /\ h[1] # j
    /\ ~ HeartbeatCrashes(node[j], h[2], h[1])
    /\ node' = [node EXCEPT ![j] = observed(@, h[2], h[1])]
    /\ UNCHANGED <<director, writer, repl, tracker, net, elected, elections, faults>>

\* One round of RaftReplicaTracker::main up to the request.  The loop tests the
\* snapshot before it reads the journal: it may go stale in between.
CanSend(i, j) ==
    /\ i # j
    /\ tracker[i][j].next > 0 /\ tracker[i][j].inflight = {}
    /\ Current(node[i], repl[i]) \/ "send" \in Windows

SendPayload(i, j, limit) ==
    LET n    == node[i]
        next == tracker[i][j].next
        m    == [term |-> repl[i], leader |-> i, target |-> j, prevIndex |-> next - 1,
                 prevTerm |-> TermAt(n.log, next - 1), commitIndex |-> n.commitIndex,
                 entries |-> SubSeq(n.log, next + 1, next + PayloadSize(n, next, limit))]
    IN  /\ CanSend(i, j)
        /\ Readable(n, repl[i], next, limit)
        /\ Cardinality(appReqs \cup {m}) + Cardinality(acks) <= MaxAppReqs
        /\ tracker' = [tracker EXCEPT ![i][j].inflight = {m}]
        /\ appReqs' = appReqs \cup {m}
        /\ UNCHANGED <<node, director, writer, repl, voteReqs, voteReplies, heartbeats, acks,
                       elected, elections, faults>>

\* The same round when sendPayload fails: it steps down, and the loop ends.
HaltReplication(i, j, limit) ==
    /\ CanSend(i, j)
    /\ ~ Readable(node[i], repl[i], tracker[i][j].next, limit)
    /\ node' = [node EXCEPT ![i] = observed(@, repl[i] + 1, Nobody)]
    /\ tracker' = [tracker EXCEPT ![i][j].next = -1]
    /\ UNCHANGED <<director, writer, repl, net, elected, elections, faults>>

\* RaftDispatcher::appendEntries at the target.  The answer to a request the
\* leader has given up on is dropped with the connection.
AppendEntries(m) ==
    LET j == m.target
        r == appendEntries(node[j], m)
    IN  /\ ~ RequestCrashes(m)
        /\ node' = [node EXCEPT ![j] = r.node]
        /\ appReqs' = appReqs \ {m}
        /\ acks' = IF repl[m.leader] = m.term /\ m \in tracker[m.leader][j].inflight
                   THEN acks \cup {r.ack} ELSE acks
        /\ UNCHANGED <<director, writer, repl, tracker, voteReqs, voteReplies, heartbeats,
                       elected, elections, faults>>

\* The rest of the round when the answer arrives.  A snapshot that went stale
\* ends the loop, but only after the answer has been used.
HandleAck(a) ==
    LET i   == a.req.leader
        j   == a.req.target
        n   == observed(node[i], a.term, Nobody)
        t   == tracker[i][j]
    IN  /\ ~ AckCrashes(a)
        /\ acks' = acks \ {a}
        /\ node' = [node EXCEPT ![i] =
                      IF a.term > repl[i] THEN n ELSE setCommitIndex(n, CommitAfter(i, a))]
        /\ tracker' = [tracker EXCEPT ![i][j] =
              [next |-> IF Current(n, repl[i]) THEN NextIndex(t.next, a) ELSE -1,
               inflight |-> {},
               match |-> IF a.term > repl[i] THEN t.match ELSE MatchAfter(i, a)[j]]]
        /\ UNCHANGED <<director, writer, repl, voteReqs, voteReplies, heartbeats, appReqs,
                       elected, elections, faults>>

\* The answer does not come within 500 ms: the target is taken to be offline.
\* The request is lost, or it is still on its way.
AckTimeout(i, j, lost) ==
    /\ tracker[i][j].inflight # {}
    /\ tracker' = [tracker EXCEPT ![i][j].inflight = {},
                                  ![i][j].next = IF Current(node[i], repl[i]) THEN @ ELSE -1]
    /\ acks' = {a \in acks : a.req.leader # i \/ a.req.target # j}
    /\ appReqs' = IF lost THEN appReqs \ tracker[i][j].inflight ELSE appReqs
    /\ UNCHANGED <<node, director, writer, repl, voteReqs, voteReplies, heartbeats,
                   elected, elections, faults>>

\* The network loses a request that nobody waits for any more.
LoseRequest(m) ==
    /\ m \notin tracker[m.leader][m.target].inflight
    /\ appReqs' = appReqs \ {m}
    /\ UNCHANGED <<node, director, writer, repl, tracker, voteReqs, voteReplies, heartbeats,
                   acks, elected, elections, faults>>

\* RaftDispatcher::service up to the raftCommand lock: the state snapshot says
\* leader, and the state machine has applied the leadership marker.
CanServe(i) ==
    /\ node[i].status = "LEADER"
    /\ node[i].commitIndex >= node[i].leadershipMarker

ServiceBegin(i) ==
    /\ "write" \in Windows
    /\ writer[i] = 0
    /\ CanServe(i)
    /\ LogSize(node[i]) < MaxLogSize
    /\ writer' = [writer EXCEPT ![i] = node[i].term]
    /\ UNCHANGED <<node, director, repl, tracker, net, elected, elections, faults>>

\* service under the lock: RaftWriteTracker::append with the term of the
\* snapshot; an entry the journal refuses is tried again from the start.
ServiceAppend(i, v) ==
    LET term == IF "write" \in Windows THEN writer[i] ELSE node[i].term
        accepted == CanAppend(node[i], term)
    IN  /\ IF "write" \in Windows THEN writer[i] # 0 ELSE CanServe(i)
        /\ accepted => LogSize(node[i]) < MaxLogSize
        /\ node' = IF accepted THEN [node EXCEPT ![i] = appendEntry(@, term, v)] ELSE node
        /\ writer' = [writer EXCEPT ![i] = 0]
        /\ UNCHANGED <<director, repl, tracker, net, elected, elections, faults>>

\* The process dies and starts again: RaftState is built from the journal.
Restart(i) ==
    /\ faults < MaxFaults
    /\ faults' = faults + 1
    /\ node' = [node EXCEPT ![i] =
          [@ EXCEPT !.term = node[i].currentTerm, !.votedFor = node[i].journalVote,
                    !.status = "FOLLOWER", !.leader = Nobody, !.leadershipMarker = -1]]
    /\ director' = [director EXCEPT ![i] = IdleDirector]
    /\ writer' = [writer EXCEPT ![i] = 0]
    /\ repl' = [repl EXCEPT ![i] = 0]
    /\ tracker' = [tracker EXCEPT ![i] = [j \in Server |-> NewTracker]]
    /\ acks' = {a \in acks : a.req.leader # i}
    /\ voteReplies' = {r \in voteReplies : r.to # i}
    /\ UNCHANGED <<voteReqs, heartbeats, appReqs, elected, elections>>

Next ==
    \/ \E i \in Server :
          \/ ObserveTerm(i)
          \/ RunForLeader(i)
          \/ AbandonElection(i)
          \/ BeginElection(i)
          \/ \E R \in SUBSET {r \in voteReplies : r.to = i},
                late \in SUBSET {q \in voteReqs : q.candidate = i} : ConcludeElection(i, R, late)
          \/ ActivateReplicator(i)
          \/ DeactivateReplicator(i)
          \/ ServiceBegin(i)
          \/ \E v \in Value : ServiceAppend(i, v)
          \/ Restart(i)
          \/ \E h \in heartbeats : Heartbeat(i, h)
          \/ \E j \in Server :
                \/ \E limit \in PayloadLimits : SendPayload(i, j, limit) \/ HaltReplication(i, j, limit)
                \/ \E lost \in BOOLEAN : AckTimeout(i, j, lost)
    \/ \E q \in voteReqs : RequestVote(q)
    \/ \E m \in appReqs : AppendEntries(m) \/ LoseRequest(m)
    \/ \E a \in acks : HandleAck(a)

Spec == Init /\ [][Next]_vars

-----------------------------------------------------------------------------
\* Every variable has its type; a log is never empty and holds its committed part.
TypeOK ==
    /\ node \in [Server -> Node]
    /\ \A i \in Server : node[i].commitIndex < Len(node[i].log)
    /\ director \in [Server -> Director]
    /\ writer \in [Server -> Term]
    /\ repl \in [Server -> Term]
    /\ tracker \in [Server -> [Server -> Tracker]]
    /\ voteReqs \subseteq VoteReq
    /\ voteReplies \subseteq VoteReply
    /\ heartbeats \subseteq Server \X Term
    /\ appReqs \subseteq AppReq
    /\ acks \subseteq Ack
    /\ \A m \in appReqs \cup {a.req : a \in acks} : m.leader # m.target
    /\ elected \subseteq Server \X Term
    /\ elections \in Nat /\ faults \in Nat

\* RaftState::ascend: no two servers ever become leader of the same term.
ElectionSafety ==
    \A e, f \in elected : e[2] = f[2] => e[1] = f[1]

\* The term and vote that setCurrentTerm made durable are the ones RaftState acts
\* on: its silent refusals never lose a vote that a restart would then forget.
DurableVote ==
    \A i \in Server : /\ node[i].currentTerm = node[i].term
                      /\ node[i].journalVote = node[i].votedFor

\* RaftDirector::main throws when it finds a CANDIDATE between elections: every
\* way an election can end leaves the node FOLLOWER or LEADER.
NoStrayCandidate ==
    \A i \in Server : node[i].status = "CANDIDATE" => director[i].phase = "electing"

\* matchEntries compares terms alone: equal terms at an index must mean equal
\* logs up to there, whoever appended them.
LogMatching ==
    \A i, j \in Server : \A k \in 1..Len(node[i].log) :
        (k <= Len(node[j].log) /\ node[i].log[k].term = node[j].log[k].term)
            => SubSeq(node[i].log, 1, k) = SubSeq(node[j].log, 1, k)

\* What two nodes consider committed agrees, so every state machine applies the
\* same commands.
StateMachineSafety ==
    \A i, j \in Server : \A k \in 1..(node[i].commitIndex + 1) :
        k <= node[j].commitIndex + 1 => node[i].log[k] = node[j].log[k]

\* No request or answer under way can run into a qdb_throw: two leaders of one
\* term, a committed entry overwritten, an entry committed that is not there.
NoCrash ==
    /\ \A m \in appReqs : ~ RequestCrashes(m)
    /\ \A a \in acks : ~ AckCrashes(a)
    /\ \A h \in heartbeats : \A j \in Server \ {h[1]} :
          ~ HeartbeatCrashes(node[j], h[2], h[1])

\* A tracker of a leader never points beyond the leader's journal: sendPayload
\* would not find the previous entry, and the leader would step down.
NextIndexInLog ==
    \A i, j \in Server :
        repl[i] # 0 /\ Current(node[i], repl[i]) => tracker[i][j].next <= LogSize(node[i])

\* The commit tracker counts a target only for entries the target holds: up to
\* its match index a target that is still in the leader's term has the leader's log.
MatchIndexSound ==
    \A i \in Server : \A j \in Server \ {i} :
        Current(node[i], repl[i]) /\ node[j].term = repl[i] /\ tracker[i][j].match > 0 =>
            /\ tracker[i][j].match < LogSize(node[j])
            /\ SubSeq(node[j].log, 1, tracker[i][j].match + 1)
                 = SubSeq(node[i].log, 1, tracker[i][j].match + 1)

\* RaftReplicaTracker: next and match index of a leader's tracker can be relied on,
\* after time-outs, repeated and late answers and changes of leader.
TrackersSound == NextIndexInLog /\ MatchIndexSound

\* A committed entry is never removed or replaced, whatever is appended,
\* truncated or restarted.
CommittedStays ==
    [][\A i \in Server :
         /\ node'[i].commitIndex >= node[i].commitIndex
         /\ node[i].commitIndex < Len(node'[i].log)
         /\ SubSeq(node'[i].log, 1, node[i].commitIndex + 1)
              = SubSeq(node[i].log, 1, node[i].commitIndex + 1)]_vars

\* A node's term never goes back, and within a term a vote, once cast or
\* blocked, is never taken back or changed, across restarts too.
VoteNeverChanges ==
    [][\A i \in Server :
         /\ node'[i].term >= node[i].term
         /\ node'[i].term = node[i].term /\ node[i].votedFor # Nobody
              => node'[i].votedFor = node[i].votedFor]_vars

\* The comment in RaftDispatcher::appendEntries on entries that differ from
\* committed ones: "This is a major safety violation and should never happen."
NoCommittedOverwrite ==
    \A m \in appReqs :
        m.term >= node[m.target].term => ~ AppendCrashes(node[m.target], m)

=============================================================================
