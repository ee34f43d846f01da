------------------------------ MODULE WritePath ------------------------------
(***************************************************************************)
(* How one node serves its clients: RaftDispatcher::service,               *)
(* RaftWriteTracker with RaftBlockedWrites and its commit applier, the     *)
(* PendingQueue of each Connection, and the flushes by RaftDirector and by *)
(* the handler of append requests.                                         *)
(*                                                                         *)
(* A step is what a thread does between two waits.  Three locks order the  *)
(* steps: raftCommand (variable raftCommand), RaftWriteTracker::mtx, which *)
(* the commit applier holds while applying # 0, and the mutex of a queue,  *)
(* which every step on that queue takes once.  The rest of the cluster     *)
(* (elections, commits, the entries of other leaders) is the environment;  *)
(* that it never touches a committed entry is what QuarkRaft is about.     *)
(***************************************************************************)
EXTENDS Integers, Sequences, FiniteSets, Functions

CONSTANTS
    Conn,          \* client connections
    StaleReaders,  \* the connections with raftStaleReads set
    Leaving,       \* the connections that may be closed
    Nobody,        \* no connection; also: raftCommand is free
    Handler,       \* the thread of appendEntries
    MaxTerm,       \* bound on terms
    MaxForeign,    \* bound on the log after an append request of another leader
    MaxRequests    \* bound on the requests of each connection

ASSUME ConnAssumption ==
    /\ StaleReaders \subseteq Conn /\ Leaving \subseteq Conn
    /\ Nobody \notin Conn /\ Handler \notin Conn /\ Nobody # Handler
    /\ MaxTerm \in Nat /\ MaxForeign \in Nat /\ MaxRequests \in [Conn -> Nat]

VARIABLES
    term, status, marker,   \* RaftState: term, LEADER or not, leadershipMarker
    log, commitIndex,       \* RaftJournal
    applied,                \* the state machine: what it executed, in order
    director,               \* where RaftDirector::main is
    raftCommand,            \* who holds RaftDispatcher::raftCommand
    handlerTerm,            \* term of the append request being handled
    applying,               \* commit index the applier is working towards, or 0
    blocked,                \* RaftBlockedWrites::tracker: index -> connection
    queue,                  \* PendingQueue::pending of each connection
    lastIndex,              \* PendingQueue::lastIndex
    attached,               \* whether PendingQueue::conn is set
    call,                   \* the service() call of each connection
    issued,                 \* number of requests received on each connection
    answers                 \* history: what was sent back on each connection

raft == <<term, status, marker, log, commitIndex>>
clients == <<queue, lastIndex, attached, call, issued, answers>>
vars == <<raft, applied, director, raftCommand, handlerTerm, applying, blocked, clients>>

-----------------------------------------------------------------------------
Kind == {"read", "write"}

\* A request is known by its connection and its place in the stream; markers
\* and the entries of other leaders have Nobody and 0.
Tx == [conn: Conn \cup {Nobody}, id: Nat]
Foreign == [conn |-> Nobody, id |-> 0]
Entry == [term: Nat, tx: Tx]

\* An answer: executed by the state machine, after how many entries, or an error.
Answer == [id: Nat, ok: BOOLEAN, at: Nat]
Err(id) == [id |-> id, ok |-> FALSE, at |-> 0]
Ok(id, at) == [id |-> id, ok |-> TRUE, at |-> at]

\* PendingRequest: a write with its index, a read (index -1), or a response that
\* is ready and only waits for its turn.
Pending == [id: Nat, kind: Kind \cup {"raw"}, index: Nat \cup {-1}, raw: Answer]

Call == [pc: {"idle", "service", "waiting", "lock"}, kind: Kind,
         term: Nat, marker: Nat \cup {-1}]
NoCall == [pc |-> "idle", kind |-> "read", term |-> 0, marker |-> -1]

lastApplied == Len(applied)
LogSize == Len(log)

-----------------------------------------------------------------------------
(* PendingQueue *)

\* Nothing is sent once conn is gone.
Send(c, seq) == [answers EXCEPT ![c] = IF attached[c] THEN @ \o seq ELSE @]

\* Mutant of appendResponse: does not wait behind a blocked write.
appendResponseAtOnce(c, a) ==
    /\ answers' = Send(c, <<a>>)
    /\ UNCHANGED queue

\* PendingQueue::appendResponse
appendResponse(c, a) ==
    IF queue[c] = <<>>
    THEN /\ answers' = Send(c, <<a>>)
         /\ UNCHANGED queue
    ELSE /\ queue' = [queue EXCEPT ![c] =
                Append(@, [id |-> a.id, kind |-> "raw", index |-> -1, raw |-> a])]
         /\ UNCHANGED answers

\* Mutant of addPendingRead: reads at once, and answers in turn.
addPendingReadEager(c, id) == appendResponse(c, Ok(id, lastApplied))

\* PendingQueue::addPendingTransaction for a read
addPendingRead(c, id) ==
    IF queue[c] = <<>>
    THEN /\ answers' = Send(c, <<Ok(id, lastApplied)>>)
         /\ UNCHANGED queue
    ELSE /\ queue' = [queue EXCEPT ![c] =
                Append(@, [id |-> id, kind |-> "read", index |-> -1, raw |-> Err(id)])]
         /\ UNCHANGED answers

\* PendingQueue::addPendingTransaction for a write at this index
addPendingWrite(c, id, index) ==
    /\ queue' = [queue EXCEPT ![c] =
          Append(@, [id |-> id, kind |-> "write", index |-> index, raw |-> Err(id)])]
    /\ lastIndex' = [lastIndex EXCEPT ![c] = index]

\* PendingQueue::flushPending: the error for whoever has no response yet.
flushPending(q) ==
    [k \in 1..Len(q) |-> IF q[k].kind = "raw" THEN q[k].raw ELSE Err(q[k].id)]

\* PendingQueue::dispatchPending: how many requests it takes off the queue.
Dispatchable(q, index) ==
    CHOOSE k \in 0..Len(q) : /\ \A x \in 1..k : q[x].index <= index
                             /\ k < Len(q) => q[k + 1].index > index

\* The writes among them.
DispatchedWrites(q, index) == {x \in 1..Dispatchable(q, index) : q[x].kind = "write"}

\* Its exceptions: no write with this index at the front, or more than one.
DispatchThrows(q, index) ==
    LET writes == DispatchedWrites(q, index)
    IN  \/ \E x \in writes : q[x].index # index
        \/ Cardinality(writes) > 1
        \/ writes = {} /\ Dispatchable(q, index) = Len(q)

\* What it sends, and what it has the state machine execute.
Dispatched(q, index) ==
    [k \in 1..Dispatchable(q, index) |->
        IF q[k].kind = "raw" THEN q[k].raw
        ELSE Ok(q[k].id,
                IF \E x \in 1..k : q[x].kind = "write" THEN index ELSE index - 1)]

\* At most one write, or it has thrown.
Executed(c, index) ==
    LET writes == DispatchedWrites(queue[c], index)
    IN  IF writes = {} THEN <<>>
        ELSE LET x == CHOOSE x \in writes : TRUE
             IN  <<[conn |-> c, id |-> queue[c][x].id]>>

-----------------------------------------------------------------------------
(* RaftBlockedWrites *)

insertBlocked(b, index, c) ==
    [k \in DOMAIN b \cup {index} |-> IF k = index THEN c ELSE b[k]]

\* Mutant of flushQueues: only forgets whom to answer.
flushQueuesForgetting ==
    /\ blocked' = <<>>
    /\ UNCHANGED <<answers, queue, lastIndex>>

\* RaftWriteTracker::flushQueues under its mutex: every queue that a blocked
\* write leads to is answered and emptied.
flushQueues ==
    LET hit == Range(blocked)
    IN  /\ answers' = [c \in Conn |->
              IF c \in hit /\ attached[c] THEN answers[c] \o flushPending(queue[c]) ELSE answers[c]]
        /\ queue' = [c \in Conn |-> IF c \in hit THEN <<>> ELSE queue[c]]
        /\ lastIndex' = [c \in Conn |-> IF c \in hit THEN -1 ELSE lastIndex[c]]
        /\ blocked' = <<>>

-----------------------------------------------------------------------------
Init ==
    /\ term = 1 /\ status = "LEADER" /\ marker = 1
    /\ log = <<[term |-> 0, tx |-> Foreign], [term |-> 1, tx |-> Foreign]>>
    /\ commitIndex = 0
    /\ applied = <<>>
    /\ director = "leading"
    /\ raftCommand = Nobody
    /\ handlerTerm = 0
    /\ applying = 0
    /\ blocked = <<>>
    /\ queue = [c \in Conn |-> <<>>]
    /\ lastIndex = [c \in Conn |-> -1]
    /\ attached = [c \in Conn |-> TRUE]
    /\ call = [c \in Conn |-> NoCall]
    /\ issued = [c \in Conn |-> 0]
    /\ answers = [c \in Conn |-> <<>>]

-----------------------------------------------------------------------------
(* The service() call of a connection *)

\* A request arrives and service() is called.
Receive(c, kind) ==
    /\ attached[c]
    /\ call[c].pc = "idle"
    /\ issued[c] < MaxRequests[c]
    /\ issued' = [issued EXCEPT ![c] = @ + 1]
    /\ call' = [call EXCEPT ![c] = [NoCall EXCEPT !.pc = "service", !.kind = kind]]
    /\ UNCHANGED <<raft, applied, director, raftCommand, handlerTerm, applying, blocked,
                   queue, lastIndex, attached, answers>>

\* The call returns; a retry inside the call releases raftCommand only now.
Return(c) ==
    /\ call' = [call EXCEPT ![c] = NoCall]
    /\ raftCommand' = IF raftCommand = c THEN Nobody ELSE raftCommand

\* The snapshot says leader: it is kept while the call waits.
TakeSnapshot(c) ==
    /\ call[c].pc = "service"
    /\ status = "LEADER"
    /\ call' = [call EXCEPT ![c].pc = "waiting", ![c].term = term, ![c].marker = marker]
    /\ UNCHANGED <<raft, applied, director, raftCommand, handlerTerm, applying, blocked,
                   queue, lastIndex, attached, issued, answers>>

\* It says something else: redirect, refuse, or serve a stale read.
NotLeader(c) ==
    /\ call[c].pc = "service"
    /\ status # "LEADER"
    /\ \/ appendResponse(c, Err(issued[c]))
       \/ /\ c \in StaleReaders /\ call[c].kind = "read"
          /\ appendResponse(c, Ok(issued[c], lastApplied))
    /\ Return(c)
    /\ UNCHANGED <<raft, applied, director, handlerTerm, applying, blocked,
                   lastIndex, attached, issued>>

\* waitUntilTargetLastApplied gave up and the snapshot is not current any more.
StartOver(c) ==
    /\ call[c].pc = "waiting"
    /\ lastApplied < call[c].marker
    /\ status # "LEADER" \/ term # call[c].term
    /\ call' = [call EXCEPT ![c].pc = "service"]
    /\ UNCHANGED <<raft, applied, director, raftCommand, handlerTerm, applying, blocked,
                   queue, lastIndex, attached, issued, answers>>

\* The state machine has caught up with the leadership marker.
CanProceed(c) == call[c].pc = "waiting" /\ lastApplied >= call[c].marker

ServeRead(c) ==
    /\ CanProceed(c)
    /\ call[c].kind = "read"
    /\ addPendingRead(c, issued[c])
    /\ Return(c)
    /\ UNCHANGED <<raft, applied, director, handlerTerm, applying, blocked,
                   lastIndex, attached, issued>>

PrepareWrite(c) ==
    /\ CanProceed(c)
    /\ call[c].kind = "write"
    /\ call' = [call EXCEPT ![c].pc = "lock"]
    /\ UNCHANGED <<raft, applied, director, raftCommand, handlerTerm, applying, blocked,
                   queue, lastIndex, attached, issued, answers>>

\* The conditions of RaftJournal::appendNoLock on the term of a new entry.
CanAppend(t) == t <= term /\ t >= log[LogSize].term

\* raftCommand is free, and RaftWriteTracker::append gets its mutex.
AppendWrite(c) ==
    /\ call[c].pc = "lock"
    /\ raftCommand = Nobody
    /\ applying = 0
    /\ CanAppend(call[c].term)
    /\ log' = Append(log, [term |-> call[c].term, tx |-> [conn |-> c, id |-> issued[c]]])
    /\ blocked' = insertBlocked(blocked, LogSize, c)
    /\ addPendingWrite(c, issued[c], LogSize)
    /\ Return(c)
    /\ UNCHANGED <<term, status, marker, commitIndex, applied, director, handlerTerm, applying,
                   attached, issued, answers>>

\* The journal refuses: service() calls itself, with raftCommand still locked.
RetryWrite(c) ==
    /\ call[c].pc = "lock"
    /\ raftCommand = Nobody
    /\ applying = 0
    /\ ~ CanAppend(call[c].term)
    /\ raftCommand' = c
    /\ call' = [call EXCEPT ![c].pc = "service"]
    /\ UNCHANGED <<raft, applied, director, handlerTerm, applying, blocked,
                   queue, lastIndex, attached, issued, answers>>

\* Connection::~Connection: the client is gone, its queue stays.
Disconnect(c) ==
    /\ c \in Leaving
    /\ attached[c]
    /\ call[c].pc = "idle"
    /\ attached' = [attached EXCEPT ![c] = FALSE]
    /\ UNCHANGED <<raft, applied, director, raftCommand, handlerTerm, applying, blocked,
                   queue, lastIndex, call, issued, answers>>

-----------------------------------------------------------------------------
(* The commit applier: RaftWriteTracker::applyCommits *)

\* updatedCommitIndex locks the mutex of the write tracker.
StartApplying ==
    /\ applying = 0
    /\ lastApplied < commitIndex
    /\ applying' = commitIndex
    /\ UNCHANGED <<raft, applied, director, raftCommand, handlerTerm, blocked, clients>>

\* applySingleCommit: through the queue of the connection that waits for this
\* index, whose client may be gone, or else from the journal.
ApplyCommit ==
    LET index == lastApplied + 1
        popped == Restrict(blocked, DOMAIN blocked \ {index})
        c      == blocked[index]
        q      == queue[c]
        k      == Dispatchable(q, index)
    IN  /\ applying # 0
        /\ applying' = IF index = applying THEN 0 ELSE applying
        /\ IF index \in DOMAIN blocked
           THEN /\ ~ DispatchThrows(q, index)
                /\ applied' = applied \o Executed(c, index)
                /\ answers' = Send(c, Dispatched(q, index))
                /\ queue' = [queue EXCEPT ![c] = SubSeq(q, k + 1, Len(q))]
                /\ blocked' = IF k < Len(q) THEN insertBlocked(popped, q[k + 1].index, c)
                              ELSE popped
           ELSE /\ applied' = Append(applied, log[index + 1].tx)
                /\ UNCHANGED <<answers, queue, blocked>>
        /\ UNCHANGED <<raft, director, raftCommand, handlerTerm,
                       lastIndex, attached, call, issued>>

-----------------------------------------------------------------------------
(* RaftDirector *)

\* leaderLoop: the lease has run out.
StepDown ==
    /\ director = "leading"
    /\ status = "LEADER" /\ term < MaxTerm
    /\ term' = term + 1 /\ status' = "FOLLOWER" /\ marker' = -1
    /\ director' = "expired"
    /\ UNCHANGED <<log, commitIndex, applied, raftCommand, handlerTerm, applying, blocked, clients>>

\* leaderLoop ends because the snapshot is no longer current.
LeaveLeaderLoop ==
    /\ director = "leading"
    /\ status # "LEADER"
    /\ director' = "following"
    /\ UNCHANGED <<raft, applied, raftCommand, handlerTerm, applying, blocked, clients>>

\* Mutant of DirectorFlush: followerLoop flushes once, before it waits.
DirectorFlushOnce ==
    /\ director \in {"expired", "following"}
    /\ applying = 0
    /\ director' = IF director = "expired" THEN "following" ELSE "ready"
    /\ flushQueues
    /\ UNCHANGED <<raft, applied, raftCommand, handlerTerm, applying, attached, call, issued>>

\* The flush of leaderLoop after stepping down, and the one of followerLoop,
\* again in each of its rounds.
DirectorFlush ==
    /\ director \in {"expired", "following", "ready"}
    /\ applying = 0
    /\ director' = IF director = "expired" THEN "following" ELSE "ready"
    /\ flushQueues
    /\ UNCHANGED <<raft, applied, raftCommand, handlerTerm, applying, attached, call, issued>>

\* followerLoop has timed out, and runForLeader wins: RaftState::ascend.
Ascend ==
    /\ director = "ready"
    /\ status # "LEADER" /\ term < MaxTerm
    /\ term' = term + 1 /\ status' = "LEADER" /\ marker' = LogSize
    /\ log' = Append(log, [term |-> term + 1, tx |-> Foreign])
    /\ director' = "leading"
    /\ UNCHANGED <<commitIndex, applied, raftCommand, handlerTerm, applying, blocked, clients>>

-----------------------------------------------------------------------------
(* The rest of the cluster *)

\* A higher term is observed: in a vote request, a heartbeat or an answer.
Depose ==
    /\ term < MaxTerm
    /\ term' = term + 1 /\ status' = "FOLLOWER" /\ marker' = -1
    /\ UNCHANGED <<log, commitIndex, applied, director, raftCommand, handlerTerm, applying,
                   blocked, clients>>

\* RaftCommitTracker moves the commit index of a leader.
CommitTo(index) ==
    /\ status = "LEADER"
    /\ commitIndex < index
    /\ commitIndex' = index
    /\ UNCHANGED <<term, status, marker, log, applied, director, raftCommand, handlerTerm,
                   applying, blocked, clients>>

\* Mutant of AppendBegin: the clients are not told.
AppendBeginNoFlush ==
    /\ raftCommand = Nobody /\ applying = 0
    /\ status # "LEADER"
    /\ raftCommand' = Handler /\ handlerTerm' = term
    /\ UNCHANGED <<raft, applied, director, applying, blocked, clients>>

\* appendEntries recognises the sender as leader of the current term and
\* flushes the queues.
AppendBegin ==
    /\ raftCommand = Nobody /\ applying = 0
    /\ status # "LEADER"
    /\ raftCommand' = Handler /\ handlerTerm' = term
    /\ flushQueues
    /\ UNCHANGED <<raft, applied, director, applying, attached, call, issued>>

\* The rest of appendEntries: n entries from position first on replace what is
\* there, or the request brings nothing new (n = 0).
AppendFinish(first, n, index) ==
    LET entries == [k \in 1..n |-> [term |-> handlerTerm, tx |-> Foreign]]
        new == IF n = 0 THEN log ELSE SubSeq(log, 1, first) \o entries
    IN  /\ raftCommand = Handler
        /\ n > 0 => log[first].term <= handlerTerm /\ first + n <= MaxForeign
        /\ log' = new
        /\ commitIndex <= index /\ index < Len(new)
        /\ commitIndex' = index
        /\ raftCommand' = Nobody /\ handlerTerm' = 0
        /\ UNCHANGED <<term, status, marker, applied, director, applying, blocked, clients>>

Next ==
    \/ \E c \in Conn :
          \/ \E kind \in Kind : Receive(c, kind)
          \/ TakeSnapshot(c) \/ NotLeader(c) \/ StartOver(c)
          \/ ServeRead(c) \/ PrepareWrite(c) \/ AppendWrite(c) \/ RetryWrite(c)
          \/ Disconnect(c)
    \/ StartApplying \/ ApplyCommit
    \/ StepDown \/ LeaveLeaderLoop \/ DirectorFlush \/ Ascend
    \/ Depose
    \/ \E index \in 1..(LogSize - 1) : CommitTo(index)
    \/ AppendBegin
    \/ \E first \in (commitIndex + 1)..LogSize, n \in 0..2 :
          \E index \in commitIndex..(LogSize + 1) : AppendFinish(first, n, index)

Spec == Init /\ [][Next]_vars

\* Threads do not stop: service() calls that can go on, the applier, the
\* director and the handler all get to run, and a mutex that is free again and
\* again is obtained.  The director is a single thread that either leads or
\* flushes.  A leader either commits what it has or loses its lease.
Fairness ==
    /\ \A c \in Conn :
          /\ WF_vars(TakeSnapshot(c) \/ NotLeader(c) \/ StartOver(c))
          /\ WF_vars(ServeRead(c) \/ PrepareWrite(c))
          /\ SF_vars(AppendWrite(c) \/ RetryWrite(c))
    /\ WF_vars(StartApplying) /\ WF_vars(ApplyCommit)
    /\ WF_vars(LeaveLeaderLoop) /\ SF_vars(DirectorFlush)
    /\ WF_vars(CommitTo(LogSize - 1) \/ StepDown)
    /\ WF_vars(\E first \in (commitIndex + 1)..LogSize : AppendFinish(first, 0, commitIndex))

FairSpec == Spec /\ Fairness

-----------------------------------------------------------------------------
\* Every variable has its type.
TypeOK ==
    /\ term \in Nat /\ status \in {"LEADER", "FOLLOWER"} /\ marker \in Nat \cup {-1}
    /\ log \in Seq(Entry) /\ commitIndex \in 0..(LogSize - 1)
    /\ applied \in Seq(Tx) /\ lastApplied <= commitIndex
    /\ director \in {"leading", "expired", "following", "ready"}
    /\ raftCommand \in Conn \cup {Nobody, Handler}
    /\ handlerTerm \in Nat /\ applying \in 0..commitIndex
    /\ DOMAIN blocked \subseteq 1..(LogSize - 1) /\ Range(blocked) \subseteq Conn
    /\ queue \in [Conn -> Seq(Pending)]
    /\ lastIndex \in [Conn -> Nat \cup {-1}]
    /\ attached \in [Conn -> BOOLEAN]
    /\ call \in [Conn -> Call]
    /\ issued \in [Conn -> Nat]
    /\ answers \in [Conn -> Seq(Answer)]

\* RaftBlockedWrites and the queues agree with each other and with the journal:
\* a queued write is the journal's entry at its index and the applier finds it
\* there, and a blocked index leads to a queue that waits for it.
BlockedWritesMatch ==
    /\ \A c \in Conn : \A k \in 1..Len(queue[c]) :
          queue[c][k].kind = "write" =>
             LET index == queue[c][k].index
             IN  /\ lastApplied < index /\ index < LogSize
                 /\ log[index + 1].tx = [conn |-> c, id |-> queue[c][k].id]
                 /\ index \in DOMAIN blocked /\ blocked[index] = c
    /\ \A index \in DOMAIN blocked :
          \E k \in 1..Len(queue[blocked[index]]) : queue[blocked[index]][k].index = index

\* No exception of the queues can be reached: an index that is not above the
\* last one, a queue that has not what the applier looks for.
NoQueueCorruption ==
    /\ \A c \in Conn : lastIndex[c] < LogSize
    /\ lastApplied < commitIndex /\ lastApplied + 1 \in DOMAIN blocked
         => ~ DispatchThrows(queue[blocked[lastApplied + 1]], lastApplied + 1)

\* RaftWriteTracker, RaftBlockedWrites, PendingQueue: whatever leadership changes,
\* stale appends, truncations and clients that leave do between two commits,
\* journal, blocked writes and queues agree, and the applier can go on.
QueuesConsistent == TypeOK /\ BlockedWritesMatch /\ NoQueueCorruption

\* On every connection each request gets one answer, in the order of the
\* requests, whatever mix of reads, blocked writes, redirections and flushes.
AnswersInOrder ==
    \A c \in Conn : attached[c] =>
        LET Ids(s) == [k \in 1..Len(s) |-> s[k].id]
            inCall == IF call[c].pc = "idle" THEN <<>> ELSE <<issued[c]>>
        IN  Ids(answers[c]) \o Ids(queue[c]) \o inCall = [k \in 1..issued[c] |-> k]

\* The state machine has executed exactly the log, in order, although it takes
\* the writes of this node's clients from their queues and not from the journal.
ExecutesLog ==
    \A k \in 1..lastApplied : applied[k] = log[k + 1].tx

\* A write is executed at most once, in spite of retries, flushes and a new
\* leadership, and a positive answer to it says at which index it was.
WriteOnce ==
    /\ \A k, l \in 1..lastApplied : applied[k] = applied[l] /\ applied[k] # Foreign => k = l
    /\ \A c \in Conn : \A k \in 1..lastApplied : \A a \in Range(answers[c]) :
          applied[k] = [conn |-> c, id |-> a.id] /\ a.ok => a.at = k

\* RaftWriteTracker::applySingleCommit, RaftDispatcher::service: the state machine
\* executes the log, and every client's write once, where its answer says.
WritesExecuted == ExecutesLog /\ WriteOnce

\* A client that does not ask for stale reads never sees the state machine go
\* back, and sees its own writes.
ReadsMonotonic ==
    \A c \in Conn \ StaleReaders : \A k, l \in 1..Len(answers[c]) :
        k < l /\ answers[c][k].ok /\ answers[c][l].ok => answers[c][k].at <= answers[c][l].at

\* The comment in service() after a refused append, "Let's simply retry": the
\* retry must be able to get the lock it needs.
RetryCanProceed ==
    \A c \in Conn : call[c].pc = "lock" => raftCommand # c

\* The comment on races in appendEntries, "should be harmless": a leader keeps the
\* leadership marker that its clients wait for.
LeaderKeepsMarker ==
    status = "LEADER" => marker < LogSize /\ log[marker + 1].term = term

\* Every request is answered in the end, unless the client leaves: nothing but
\* the two situations above can make a client of service() wait forever.
EveryRequestAnswered ==
    [](RetryCanProceed /\ LeaderKeepsMarker) =>
        \A c \in Conn : []<>(attached[c] => Len(answers[c]) = issued[c])

=============================================================================
