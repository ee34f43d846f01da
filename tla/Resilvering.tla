---------------------------- MODULE Resilvering ----------------------------
(***************************************************************************)
(* A leader rebuilds a target that is too far behind its trimmed journal:  *)
(* RaftResilverer takes a snapshot of the leader's ShardDirectory and      *)
(* sends it file by file; the target collects the files in an arena,       *)
(* closes its shard while requests are under way (InFlightTracker), swaps  *)
(* directories and opens the shard again.                                  *)
(*                                                                         *)
(* A database is a function on those of its two parts that exist: the      *)
(* state machine, of which the last applied index matters, and the         *)
(* journal.  Requests may be delayed past the time-out of the leader,      *)
(* which then tries again under a new identifier.                          *)
(***************************************************************************)
EXTENDS Integers, FiniteSets, Sequences

CONSTANTS
    Worker,       \* threads that serve requests on the target
    Cores,        \* number of counters of the InFlightTracker
    MaxAttempts,  \* resilvering identifiers
    MaxSize,      \* bound on the leader's log
    MaxTerm,      \* bound on terms
    Batch,        \* entries the leader commits, and applies, at a time
    KeepAtLeast, Step,  \* TrimmingConfig
    Budgets       \* initial values of left

ASSUME ResilveringAssumption ==
    /\ IsFiniteSet(Worker) /\ Cores \in Nat \ {0}
    /\ MaxAttempts \in Nat /\ MaxSize \in Nat /\ MaxTerm \in Nat
    /\ KeepAtLeast \in Nat /\ Step \in Nat \ {0} /\ Batch \in Nat \ {0}

Attempt == 1..MaxAttempts

VARIABLES
    source,    \* the database of the leader
    tracker,   \* the leader's resilverer: the last attempt, and whether it still exists
    attempt,   \* per attempt: RaftResilverer
    wire,      \* requests of resilverers that have not been handled
    disk,      \* directories of the target: current, and the arenas
    shard,     \* Shard of the target: group, threads, accepting, inFlight
    finisher,  \* the handler of QUARKDB_FINISH_RESILVERING
    worker,    \* per thread: its request
    left       \* failures that may still happen

vars == <<source, tracker, attempt, wire, disk, shard, finisher, worker, left>>

Files == {"state-machine", "raft-journal"}
Missing == [f \in {} |-> 0]
Database(applied, term, start, size, commit) ==
    [f \in Files |-> IF f = "state-machine" THEN applied
                     ELSE [term |-> term, start |-> start, size |-> size, commit |-> commit]]

Journal(db) == db["raft-journal"]
Applied(db) == IF "state-machine" \in DOMAIN db THEN db["state-machine"] ELSE 0

\* A database with one more file.
WithFile(db, f, contents) == [g \in DOMAIN db \cup {f} |-> IF g = f THEN contents ELSE db[g]]

-----------------------------------------------------------------------------
(* InFlightTracker and Shard *)

NoOne == [id |-> 0, step |-> "idle", core |-> 1]
Idle == [pc |-> "idle", core |-> 1]

setAcceptingRequests(s, value) == [s EXCEPT !.accepting = value]
up(s, c) == [s EXCEPT !.inFlight[c] = @ + 1]

down(s, c) == [s EXCEPT !.inFlight[c] = @ - 1]

\* attach and detach; a RaftGroup is spun up after it accepts requests, and its
\* threads end when it is deleted.
attach(s) == setAcceptingRequests([s EXCEPT !.group = TRUE], TRUE)
spinup(s) == [s EXCEPT !.threads = TRUE]
detach(s) == [s EXCEPT !.group = FALSE, !.threads = FALSE]

\* The process starts: getRaftJournal throws when there is no journal, and
\* getStateMachine makes an empty one when there is none.
CanOpen(db) == "raft-journal" \in DOMAIN db
Closed == [group |-> FALSE, threads |-> FALSE, accepting |-> FALSE,
           inFlight |-> [c \in 1..Cores |-> 0]]
Booted(db) == IF CanOpen(db) THEN spinup(attach(Closed)) ELSE Closed

-----------------------------------------------------------------------------
Init ==
    /\ source = Database(Step + 1, 1, Step, Step + 2, Step + 1)
    /\ tracker = [id |-> 0, alive |-> FALSE]
    /\ attempt = [a \in Attempt |-> [state |-> "none", snapshot |-> Missing, sent |-> {}, answer |-> "none"]]
    /\ wire = {}
    /\ disk = [current |-> Database(0, 1, 0, 1, 0), arena |-> [a \in Attempt |-> Missing],
               made |-> {}, supplanted |-> {}]
    /\ shard = Booted(Database(0, 1, 0, 1, 0))
    /\ finisher = NoOne
    /\ worker = [w \in Worker |-> Idle]
    /\ left \in Budgets

-----------------------------------------------------------------------------
(* The leader: its journal grows, is applied and trimmed. *)

SourceCommit ==
    /\ Journal(source).size + Batch <= MaxSize
    /\ source' = WithFile(source, "raft-journal",
          [Journal(source) EXCEPT !.size = @ + Batch, !.commit = @ + Batch])
    /\ UNCHANGED <<tracker, attempt, wire, disk, shard, finisher, worker, left>>

SourceApply ==
    /\ Applied(source) < Journal(source).commit
    /\ source' = WithFile(source, "state-machine", Journal(source).commit)
    /\ UNCHANGED <<tracker, attempt, wire, disk, shard, finisher, worker, left>>

\* Mutant of canTrimUntil: trimming blocks are not asked.
canTrimAnyway(threshold) == TRUE

\* A RaftResilverer preserves every index as long as it exists.
canTrimUntil(threshold) == ~ tracker.alive

\* One round of RaftTrimmer::main
SourceTrim ==
    LET j         == Journal(source)
        threshold == j.start + Step
    IN  /\ j.size - j.start > KeepAtLeast + Step
        /\ canTrimUntil(threshold)
        /\ j.commit > threshold /\ Applied(source) > threshold
        /\ source' = WithFile(source, "raft-journal", [j EXCEPT !.start = threshold])
        /\ UNCHANGED <<tracker, attempt, wire, disk, shard, finisher, worker, left>>

\* Mutant of Ended: a failed resilverer is kept.
EndedWell(a) == attempt[a].state = "succeeded"

Ended(a) == attempt[a].state \in {"failed", "succeeded"}

\* RaftReplicaTracker::main has an answer of the target: triggerResilvering, or
\* the end of it.
Contact ==
    LET j == Journal(source)
        behind == Journal(disk.current).size <= j.start
    IN  /\ shard.accepting /\ shard.group
        /\ Journal(disk.current).term <= j.term
        /\ \/ /\ behind /\ ~ tracker.alive /\ tracker.id < MaxAttempts
              /\ tracker' = [id |-> tracker.id + 1, alive |-> TRUE]
              /\ attempt' = [attempt EXCEPT ![tracker.id + 1].state = "starting"]
              /\ wire' = wire \cup {[id |-> tracker.id + 1, kind |-> "start", file |-> "none"]}
           \/ /\ tracker.alive /\ Ended(tracker.id)
              /\ tracker' = [tracker EXCEPT !.alive = FALSE]
              /\ UNCHANGED <<attempt, wire>>
        /\ UNCHANGED <<source, disk, shard, finisher, worker, left>>

-----------------------------------------------------------------------------
(* RaftResilverer::main of attempt a *)

\* takeSnapshot: which checkpoint is next.
takeSnapshot(snapshot) ==
    IF "state-machine" \in DOMAIN snapshot THEN "raft-journal" ELSE "state-machine"

Snapshot(a) ==
    LET s == attempt[a].snapshot
    IN  /\ attempt[a].state = "starting" /\ attempt[a].answer = "ok" /\ DOMAIN s # Files
        /\ attempt' = [attempt EXCEPT ![a].snapshot =
              WithFile(s, takeSnapshot(s), source[takeSnapshot(s)])]
        /\ UNCHANGED <<source, tracker, wire, disk, shard, finisher, worker, left>>

\* OkResponseVerifier, copyFile
Acknowledged(a) == attempt[a].answer = "ok"

\* copyDirectory sends the files one by one, then finishes.
SendNext(a) ==
    LET r == attempt[a]
        rest == Files \ r.sent
    IN  /\ \/ r.state = "starting" /\ r.answer = "ok" /\ DOMAIN r.snapshot = Files
           \/ r.state = "copying" /\ Acknowledged(a)
        /\ \/ \E f \in rest :
                /\ attempt' = [attempt EXCEPT ![a] =
                      [r EXCEPT !.state = "copying", !.sent = r.sent \cup {f}, !.answer = "none"]]
                /\ wire' = wire \cup {[id |-> a, kind |-> "copy", file |-> f]}
           \/ /\ rest = {}
              /\ attempt' = [attempt EXCEPT ![a] = [r EXCEPT !.state = "finishing", !.answer = "none"]]
              /\ wire' = wire \cup {[id |-> a, kind |-> "finish", file |-> "none"]}
        /\ UNCHANGED <<source, tracker, disk, shard, finisher, worker, left>>

Succeed(a) ==
    /\ attempt[a].state = "finishing" /\ Acknowledged(a)
    /\ attempt' = [attempt EXCEPT ![a] = [@ EXCEPT !.state = "succeeded", !.snapshot = Missing]]
    /\ UNCHANGED <<source, tracker, wire, disk, shard, finisher, worker, left>>

\* Whether an answer can still come.
Expected(a) == (\E m \in wire : m.id = a) \/ finisher.id = a

\* An error, or no answer in time: the request may still be handled later.
Fail(a) ==
    LET r == attempt[a]
    IN  /\ r.state \in {"starting", "copying", "finishing"}
        /\ \/ r.answer = "error" /\ left' = left
           \/ r.answer = "none" /\ ~ Expected(a) /\ left' = left
           \/ r.answer = "none" /\ Expected(a) /\ left.timeouts > 0
              /\ left' = [left EXCEPT !.timeouts = @ - 1]
        /\ attempt' = [attempt EXCEPT ![a] = [r EXCEPT !.state = "failed"]]
        /\ UNCHANGED <<source, tracker, wire, disk, shard, finisher, worker>>

-----------------------------------------------------------------------------
(* The target *)

\* The process has not ended.
Alive == shard.group \/ finisher # NoOne

Answer(a, res) == [attempt EXCEPT ![a].answer = IF attempt[a].state = "failed" THEN @ ELSE res]

\* resilveringStart; like the copies it does not register with the InFlightTracker.
resilveringStart(m) ==
    /\ m.kind = "start" /\ Alive
    /\ disk' = [disk EXCEPT !.made = @ \cup {m.id}]
    /\ attempt' = Answer(m.id, "ok")
    /\ wire' = wire \ {m}
    /\ UNCHANGED <<source, tracker, shard, finisher, worker, left>>

\* resilveringCopy makes the arena if need be; the disk may be full.
resilveringCopy(m, written) ==
    /\ m.kind = "copy" /\ Alive
    /\ written \/ left.full > 0
    /\ disk' = IF ~ written THEN disk
               ELSE [disk EXCEPT !.made = @ \cup {m.id},
                                 !.arena[m.id] = WithFile(@, m.file, attempt[m.id].snapshot[m.file])]
    /\ attempt' = Answer(m.id, IF written THEN "ok" ELSE "error")
    /\ left' = IF written THEN left ELSE [left EXCEPT !.full = @ - 1]
    /\ wire' = wire \ {m}
    /\ UNCHANGED <<source, tracker, shard, finisher, worker>>

\* QUARKDB_FINISH_RESILVERING takes raftGroupMtx and stops new requests.
FinishBegin(m) ==
    /\ m.kind = "finish" /\ finisher = NoOne /\ shard.group
    /\ finisher' = [id |-> m.id, step |-> "spin", core |-> 1]
    /\ shard' = setAcceptingRequests(shard, FALSE)
    /\ wire' = wire \ {m}
    /\ UNCHANGED <<source, tracker, attempt, disk, worker, left>>

\* spinUntilNoRequestsInFlight reads one counter after the other.
Spin ==
    LET c == finisher.core
    IN  /\ finisher.step = "spin"
        /\ finisher' = IF shard.inFlight[c] # 0 THEN [finisher EXCEPT !.core = 1]
                       ELSE IF c < Cores THEN [finisher EXCEPT !.core = c + 1]
                       ELSE [finisher EXCEPT !.step = "detach"]
        /\ UNCHANGED <<source, tracker, attempt, wire, disk, shard, worker, left>>

\* Shard::detach; without an arena there is nothing to swap.
Detach ==
    /\ finisher.step = "detach"
    /\ shard' = detach(shard)
    /\ finisher' = [finisher EXCEPT !.step = IF finisher.id \in disk.made THEN "supplant" ELSE "refuse"]
    /\ UNCHANGED <<source, tracker, attempt, wire, disk, worker, left>>

\* resilveringFinish: two renames.
Supplant ==
    /\ finisher.step = "supplant"
    /\ disk' = [disk EXCEPT !.supplanted = @ \cup {finisher.id}, !.current = Missing]
    /\ finisher' = [finisher EXCEPT !.step = "install"]
    /\ UNCHANGED <<source, tracker, attempt, wire, shard, worker, left>>

Install ==
    /\ finisher.step = "install"
    /\ disk' = [disk EXCEPT !.current = disk.arena[finisher.id],
                            !.arena[finisher.id] = Missing, !.made = @ \ {finisher.id}]
    /\ finisher' = [finisher EXCEPT !.step = "attach"]
    /\ UNCHANGED <<source, tracker, attempt, wire, shard, worker, left>>

\* getRaftJournal throws without a journal; Shard::start attaches, and accepts
\* requests, before it spins up the group.
Attach ==
    /\ finisher.step \in {"attach", "refuse"}
    /\ CanOpen(disk.current)
    /\ shard' = attach(shard)
    /\ finisher' = [finisher EXCEPT !.step = "spinup"]
    /\ attempt' = Answer(finisher.id, IF finisher.step = "attach" THEN "ok" ELSE "error")
    /\ UNCHANGED <<source, tracker, wire, disk, worker, left>>

Spinup ==
    /\ finisher.step = "spinup"
    /\ shard' = spinup(shard)
    /\ finisher' = NoOne
    /\ UNCHANGED <<source, tracker, attempt, wire, disk, worker, left>>

\* The target stops at any point and starts again, if it can; its connections
\* are lost.
Crash ==
    /\ left.crashes > 0 /\ Alive
    /\ left' = [left EXCEPT !.crashes = @ - 1]
    /\ shard' = Booted(disk.current)
    /\ finisher' = NoOne
    /\ wire' = {}
    /\ worker' = [w \in Worker |-> Idle]
    /\ UNCHANGED <<source, tracker, attempt, disk>>

-----------------------------------------------------------------------------
(* Requests on the target: InFlightRegistration *)

Arrive(w) ==
    /\ worker[w].pc = "idle" /\ shard.accepting /\ left.requests > 0
    /\ worker' = [worker EXCEPT ![w].pc = "accepted"]
    /\ left' = [left EXCEPT !.requests = @ - 1]
    /\ UNCHANGED <<source, tracker, attempt, wire, disk, shard, finisher>>

Register(w, c) ==
    /\ worker[w].pc = "accepted"
    /\ shard' = up(shard, c)
    /\ worker' = [worker EXCEPT ![w] = [pc |-> "registered", core |-> c]]
    /\ UNCHANGED <<source, tracker, attempt, wire, disk, finisher, left>>

\* Mutant of StillAccepting: the test is not repeated after the increment.
StillAcceptingOnce == TRUE

\* The second test of InFlightTracker::up.
StillAccepting == shard.accepting

Recheck(w) ==
    /\ worker[w].pc = "registered"
    /\ IF StillAccepting
       THEN worker' = [worker EXCEPT ![w].pc = "running"] /\ shard' = shard
       ELSE worker' = [worker EXCEPT ![w] = Idle] /\ shard' = down(shard, worker[w].core)
    /\ UNCHANGED <<source, tracker, attempt, wire, disk, finisher, left>>

\* What a request may do to the target: take the entries of the leader, or
\* vote for another candidate.
Served(db) ==
    LET j == Journal(db)
        s == Journal(source)
    IN  {db}
        \cup {WithFile(WithFile(db, "raft-journal", [j EXCEPT !.size = s.size, !.commit = s.commit]),
                       "state-machine", s.commit) :
                x \in {y \in {1} : s.start < j.size /\ j.size < s.size /\ j.term <= s.term}}
        \cup {WithFile(db, "raft-journal", [j EXCEPT !.term = t]) :
                t \in {u \in {j.term + 1} : u <= MaxTerm /\ left.votes}}

Serve(w) ==
    /\ worker[w].pc = "running"
    /\ IF CanOpen(disk.current) THEN \E db \in Served(disk.current) : disk' = [disk EXCEPT !.current = db]
       ELSE disk' = disk
    /\ shard' = down(shard, worker[w].core)
    /\ worker' = [worker EXCEPT ![w] = Idle]
    /\ UNCHANGED <<source, tracker, attempt, wire, finisher, left>>

-----------------------------------------------------------------------------
Handler ==
    \/ \E m \in wire : resilveringStart(m) \/ resilveringCopy(m, TRUE) \/ FinishBegin(m)
    \/ Spin \/ Detach \/ Supplant \/ Install \/ Attach \/ Spinup

Threads(w) == (\E c \in 1..Cores : Register(w, c)) \/ Recheck(w) \/ Serve(w)

Resilverer(a) == Snapshot(a) \/ SendNext(a) \/ Succeed(a)

Next ==
    \/ SourceCommit \/ SourceApply \/ SourceTrim \/ Contact
    \/ \E a \in Attempt : Resilverer(a) \/ Fail(a)
    \/ Handler
    \/ \E m \in wire : resilveringCopy(m, FALSE)
    \/ Crash
    \/ \E w \in Worker : Arrive(w) \/ Threads(w)

Spec == Init /\ [][Next]_vars

\* Threads run on both sides, answers arrive, and a resilverer without an
\* answer gives up in the end.
FairSpec ==
    /\ Spec /\ WF_vars(Contact) /\ WF_vars(Handler)
    /\ \A a \in Attempt : WF_vars(Resilverer(a)) /\ WF_vars(Fail(a) /\ left' = left)
    /\ \A w \in Worker : WF_vars(Threads(w))

-----------------------------------------------------------------------------
\* The state machine continues where the journal has entries, and never beyond
\* what is committed.
Usable(db) ==
    /\ Journal(db).start <= Applied(db) + 1
    /\ Applied(db) <= Journal(db).commit

\* Every variable has its type; every registered request is counted, on its core.
TypeOK ==
    /\ DOMAIN source = Files /\ DOMAIN disk.current \subseteq Files
    /\ \A a \in Attempt : attempt[a].sent \subseteq Files
    /\ finisher.id \in 0..MaxAttempts
    /\ \A c \in 1..Cores :
          shard.inFlight[c] = Cardinality({w \in Worker : worker[w].pc \in {"registered", "running"}
                                                          /\ worker[w].core = c})

\* takeSnapshot, RaftTrimmingBlock, copyDirectory, resilveringFinish: whatever the
\* leader commits, applies and trims while a snapshot is taken and sent, and
\* whichever transfers fail, an open shard has a whole database, whose journal
\* covers what its state machine has not applied; the types and the counts of
\* requests in flight hold as well.
OpenIsUsable ==
    TypeOK /\ (shard.group => Files = DOMAIN disk.current /\ Usable(disk.current))

\* InFlightTracker::up, spinUntilNoRequestsInFlight, Shard::detach: no request
\* runs on a shard that has been taken apart.
NoUseAfterDetach == \A w \in Worker : worker[w].pc = "running" => shard.group

\* triggerResilvering: unless a vote or a crash in the middle of the swap ends it,
\* the target gets back into reach of the leader's journal.
TargetCatchesUp ==
    <>(\/ CanOpen(disk.current) /\ Journal(disk.current).size > Journal(source).start
       \/ ~ Alive
       \/ CanOpen(disk.current) /\ Journal(disk.current).term > Journal(source).term)

=============================================================================
