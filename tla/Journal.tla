------------------------------ MODULE Journal ------------------------------
(***************************************************************************)
(* RaftJournal on the servers of a cluster whose membership changes: the   *)
(* membership epochs it keeps in step with its entries, what it makes      *)
(* durable and when (fsync policies, FsyncThread), trimming, and the       *)
(* commit applier that reads it.                                           *)
(*                                                                         *)
(* Every write to the journal goes to the write-ahead log of RocksDB.      *)
(* wal[i] holds the contents of the journal of i after each write since    *)
(* the last fsync: the first is what the disk is sure to hold, the last is *)
(* what the process sees, and a power blackout leaves any of them.         *)
(*                                                                         *)
(* Elections and replication are atomic here, and studied in QuarkRaft.    *)
(***************************************************************************)
EXTENDS Integers, Sequences, FiniteSets, FiniteSetsExt

CONSTANTS
    Server,     \* every server that is or may become a member
    Nobody,     \* an empty vote
    Scenarios,  \* initial memberships, fsync policies and what may happen
    MaxTerm,    \* bound on terms
    KeepAtLeast, Step,  \* TrimmingConfig
    MaxLag      \* entries the state machine may have applied and not stored

ASSUME JournalAssumption ==
    /\ IsFiniteSet(Server) /\ Nobody \notin Server
    /\ MaxTerm \in Nat
    /\ KeepAtLeast \in Nat /\ Step \in Nat \ {0}
    /\ MaxLag \in Nat

VARIABLES
    wal,      \* per server: contents of the journal since the last fsync
    leading,  \* per server: the term it is leader of, or 0
    applier,  \* per server: last applied entry of the state machine, and its stored value
    chosen,   \* history: the longest log that was ever committed
    elected,  \* history: <<term, server>> of every election
    left      \* what may still happen, and the fsync policy

vars == <<wal, leading, applier, chosen, elected, left>>

\* The contents of the journal of i.
journal(i) == wal[i][Len(wal[i])]
LogSize(j) == Len(j.log)
TermAt(j, k) == j.log[k + 1].term

NoMembers == [nodes |-> {}, observers |-> {}]
Entry(t, m) == [term |-> t, members |-> m]
quorumSize(n) == n \div 2 + 1

-----------------------------------------------------------------------------
(* RaftMembers *)

addObserver(m, s) == [m EXCEPT !.observers = @ \cup {s}]
removeMember(m, s) == [nodes |-> m.nodes \ {s}, observers |-> m.observers \ {s}]
promoteObserver(m, s) == [nodes |-> m.nodes \cup {s}, observers |-> m.observers \ {s}]
demoteToObserver(m, s) == [nodes |-> m.nodes \ {s}, observers |-> m.observers \cup {s}]

\* The memberships that the commands the operator uses lead to.
Changes(m, s) ==
    LET to(op, ok, n) == IF op \in left.ops /\ ok THEN {n} ELSE {}
    IN  to("add", s \notin m.nodes \cup m.observers, addObserver(m, s))
        \cup to("remove", s \in m.nodes \cup m.observers, removeMember(m, s))
        \cup to("promote", s \in m.observers, promoteObserver(m, s))
        \cup to("demote", s \in m.nodes, demoteToObserver(m, s))

-----------------------------------------------------------------------------
(* What is written, and what is synced *)

\* Mutant of shouldSync: important updates are treated like the others.
shouldSyncNever(important) == left.policy = "always"

shouldSync(important) ==
    left.policy = "always" \/ (left.policy = "sync-important-updates" /\ important)

\* What is not synced matters as long as a blackout may follow.
Unsynced(w, j) == IF left.blackouts = 0 THEN <<j>> ELSE Append(w, j)

\* commitBatch; set_or_die never syncs.
commitBatch(w, j, important) == IF shouldSync(important) THEN <<j>> ELSE Unsynced(w, j)
setOrDie(w, j) == IF j = w[Len(w)] THEN w ELSE Unsynced(w, j)

\* setCurrentTerm: term and vote in one synced batch.
setCurrentTerm(w, t, vote) ==
    commitBatch(w, [w[Len(w)] EXCEPT !.term = t, !.vote = vote], TRUE)

observeTerm(w, t) == IF w[Len(w)].term < t THEN setCurrentTerm(w, t, Nobody) ELSE w

\* Mutant of appendEntry: the previous membership is not remembered.
appendForgetful(j, e) ==
    IF e.members = NoMembers THEN [j EXCEPT !.log = Append(@, e)]
    ELSE [j EXCEPT !.log = Append(@, e), !.members = e.members, !.epoch = LogSize(j)]

\* appendNoLock: a membership takes effect with its entry.
appendEntry(j, e) ==
    IF e.members = NoMembers THEN [j EXCEPT !.log = Append(@, e)]
    ELSE [j EXCEPT !.log = Append(@, e), !.members = e.members, !.epoch = LogSize(j),
                   !.prevMembers = j.members, !.prevEpoch = j.epoch]

append(w, e, important) ==
    commitBatch(w, appendEntry(w[Len(w)], e), important \/ e.members # NoMembers)

\* removeEntries: an uncommitted membership is rolled back, by one.
removeEntries(j, from) ==
    LET r == [j EXCEPT !.log = SubSeq(@, 1, from)]
    IN  IF from > j.epoch THEN r
        ELSE [r EXCEPT !.members = j.prevMembers, !.epoch = j.prevEpoch]

setCommitIndex(w, k) ==
    setOrDie(w, [w[Len(w)] EXCEPT !.commitIndex = Max({@, k})])

\* obliterate: a new journal.
obliterate(members) ==
    [term |-> 0, vote |-> Nobody, log |-> <<Entry(0, members)>>, start |-> 0, commitIndex |-> 0,
     members |-> members, epoch |-> 0, prevMembers |-> NoMembers, prevEpoch |-> 0]

-----------------------------------------------------------------------------
Init ==
    \E s \in Scenarios :
        /\ wal = [i \in Server |-> <<obliterate(s.members)>>]
        /\ leading = [i \in Server |-> 0]
        /\ applier = [i \in Server |-> [applied |-> 0, stored |-> 0]]
        /\ chosen = <<Entry(0, s.members)>>
        /\ elected = {}
        /\ left = s.left

\* A server's log is no less recent than that of a voter.
UpToDate(c, v) ==
    LET lc == LogSize(journal(c)) - 1
        lv == LogSize(journal(v)) - 1
    IN  \/ TermAt(journal(c), lc) > TermAt(journal(v), lv)
        \/ TermAt(journal(c), lc) = TermAt(journal(v), lv) /\ lc >= lv

\* requestVote says no, or vetoes: the candidate would overwrite committed entries.
Refuses(v, c, t) ==
    \/ journal(v).term > t
    \/ journal(v).term = t /\ journal(v).vote \notin {Nobody, c}
    \/ ~ UpToDate(c, v)
    \/ /\ LogSize(journal(c)) - 1 <= journal(v).commitIndex
       /\ \/ LogSize(journal(c)) <= journal(v).commitIndex
          \/ TermAt(journal(c), LogSize(journal(c)) - 1) # TermAt(journal(v), LogSize(journal(c)) - 1)

\* An election, by a quorum of the full nodes the candidate knows of, and the
\* leadership marker that ends it.  Elections that fail only use up terms.
Elect(c, t, voters) ==
    LET ns == journal(c).members.nodes
    IN  /\ left.elections > 0 /\ t > journal(c).term
        /\ c \in ns /\ leading[c] = 0
        /\ voters \subseteq ns \ {c}
        /\ Cardinality(voters) + 1 = quorumSize(Cardinality(ns))
        /\ \A v \in voters : ~ Refuses(v, c, t)
        /\ wal' = [i \in Server |->
              IF i = c THEN append(setCurrentTerm(wal[c], t, c), Entry(t, NoMembers), TRUE)
              ELSE IF i \in voters THEN setCurrentTerm(wal[i], t, c)
              ELSE wal[i]]
        /\ leading' = [i \in Server |-> IF i = c THEN t ELSE IF i \in voters THEN 0 ELSE leading[i]]
        /\ elected' = elected \cup {<<t, c>>}
        /\ left' = [left EXCEPT !.elections = @ - 1]
        /\ UNCHANGED <<applier, chosen>>

\* How many entries of the two journals agree, from the first.
Common(a, b) ==
    Max({n \in 0..Min({LogSize(a), LogSize(b)}) : \A k \in 1..n : a.log[k] = b.log[k]})

\* appendEntries at a target, with the first entry it lacks or all it needs to
\* know: the log is cut where it disagrees, then extended.
Replicate(l, f) ==
    LET n   == Common(journal(l), journal(f))
        w1  == observeTerm(wal[f], leading[l])
        cut == n < LogSize(journal(l)) /\ n < LogSize(journal(f))
        w2  == IF cut THEN commitBatch(w1, removeEntries(w1[Len(w1)], n), FALSE) ELSE w1
        w3  == IF n < LogSize(journal(l)) THEN append(w2, journal(l).log[n + 1], FALSE) ELSE w2
        k   == Min({LogSize(w3[Len(w3)]) - 1, journal(l).commitIndex})
    IN  /\ leading[l] > 0 /\ f # l
        /\ f \in journal(l).members.nodes \cup journal(l).members.observers
        /\ journal(f).term <= leading[l] /\ leading[f] # leading[l]
        /\ journal(l).start < n /\ journal(f).start < n
        /\ cut => n > journal(f).commitIndex
        /\ wal' = [wal EXCEPT ![f] = setCommitIndex(w3, k)]
        /\ wal' # wal
        /\ leading' = [leading EXCEPT ![f] = 0]
        /\ UNCHANGED <<applier, chosen, elected, left>>

\* RaftCommitTracker: the entries of its term that a quorum has acknowledged.
Commit(l) ==
    LET j    == journal(l)
        has(i, k) == /\ LogSize(journal(i)) > k /\ journal(i).term = leading[l]
                     /\ SubSeq(journal(i).log, 1, k + 1) = SubSeq(j.log, 1, k + 1)
        acks(k) == {i \in j.members.nodes \ {l} : has(i, k)}
        k    == LogSize(j) - 1
    IN  /\ leading[l] > 0 /\ k > j.commitIndex
        /\ TermAt(j, k) = leading[l]
        /\ Cardinality(acks(k)) + 1 >= quorumSize(Cardinality(j.members.nodes))
        /\ wal' = [wal EXCEPT ![l] = setCommitIndex(@, k)]
        /\ chosen' = IF k + 1 >= Len(chosen) THEN j.log ELSE chosen
        /\ UNCHANGED <<leading, applier, elected, left>>

\* A client's write.
Write(l) ==
    /\ left.writes > 0 /\ leading[l] > 0
    /\ wal' = [wal EXCEPT ![l] = append(@, Entry(leading[l], NoMembers), FALSE)]
    /\ left' = [left EXCEPT !.writes = @ - 1]
    /\ UNCHANGED <<leading, applier, chosen, elected>>

\* Mutant of CanUpdate: a membership may change before the last one is committed.
CanUpdateEarly(j) == TRUE

\* membershipUpdate: the current epoch has been committed.
CanUpdate(j) == j.epoch <= j.commitIndex

\* RAFT_ADD_OBSERVER, RAFT_REMOVE_MEMBER, RAFT_PROMOTE_OBSERVER and
\* RAFT_DEMOTE_TO_OBSERVER at the leader.  Whether enough replicas look alive is
\* left open.
membershipUpdate(l, s) ==
    /\ left.changes > 0 /\ leading[l] > 0 /\ s # l
    /\ CanUpdate(journal(l))
    /\ \E m \in Changes(journal(l).members, s) :
          wal' = [wal EXCEPT ![l] = append(@, Entry(leading[l], m), TRUE)]
    /\ left' = [left EXCEPT !.changes = @ - 1]
    /\ UNCHANGED <<leading, applier, chosen, elected>>

\* FsyncThread
Fsync(i) ==
    /\ Len(wal[i]) > 1 /\ left.blackouts > 0
    /\ wal' = [wal EXCEPT ![i] = <<journal(i)>>]
    /\ UNCHANGED <<leading, applier, chosen, elected, left>>

\* The process ends and starts again: initialize() reads everything back.
Restart(i) ==
    /\ left.restarts > 0 /\ leading[i] > 0
    /\ leading' = [leading EXCEPT ![i] = 0]
    /\ left' = [left EXCEPT !.restarts = @ - 1]
    /\ UNCHANGED <<wal, applier, chosen, elected>>

\* The machine loses power: the journal keeps the first k of its recent writes,
\* the state machine at least what it has stored.
Blackout(i, k, a) ==
    /\ left.blackouts > 0 /\ k \in DOMAIN wal[i]
    /\ a \in applier[i].stored..applier[i].applied
    /\ wal' = [wal EXCEPT ![i] = <<@[k]>>]
    /\ applier' = [applier EXCEPT ![i] = [applied |-> a, stored |-> a]]
    /\ leading' = [leading EXCEPT ![i] = 0]
    /\ left' = [left EXCEPT !.blackouts = @ - 1]
    /\ UNCHANGED <<chosen, elected>>

\* The commit applier executes the next committed entry.
Apply(i) ==
    LET a == applier[i]
    IN  /\ left.applies /\ a.applied < journal(i).commitIndex
        /\ a.applied + 1 >= journal(i).start
        /\ a.applied - a.stored < MaxLag
        /\ applier' = [applier EXCEPT ![i].applied = @ + 1]
        /\ UNCHANGED <<wal, leading, chosen, elected, left>>

\* RocksDB writes the state machine out.
Store(i) ==
    /\ applier[i].stored < applier[i].applied
    /\ applier' = [applier EXCEPT ![i].stored = applier[i].applied]
    /\ UNCHANGED <<wal, leading, chosen, elected, left>>

\* Mutant of CanTrim: without the last, paranoid check.
CanTrimEagerly(i) ==
    LET j == journal(i)
    IN  LogSize(j) - j.start > KeepAtLeast + Step

\* RaftTrimmer::main
CanTrim(i) ==
    LET j == journal(i)
    IN  /\ LogSize(j) - j.start > KeepAtLeast + Step
        /\ j.commitIndex > j.start + Step /\ applier[i].applied > j.start + Step

trimUntil(i) ==
    /\ left.applies
    /\ CanTrim(i)
    /\ wal' = [wal EXCEPT ![i] = commitBatch(@, [journal(i) EXCEPT !.start = @ + Step], FALSE)]
    /\ UNCHANGED <<leading, applier, chosen, elected, left>>

Next ==
    \E i \in Server :
        \/ \E t \in 1..MaxTerm, voters \in SUBSET Server : Elect(i, t, voters)
        \/ \E f \in Server : Replicate(i, f) \/ membershipUpdate(i, f)
        \/ Commit(i) \/ Write(i) \/ Fsync(i) \/ Restart(i)
        \/ \E k \in DOMAIN wal[i], a \in 0..applier[i].applied : Blackout(i, k, a)
        \/ Apply(i) \/ Store(i) \/ trimUntil(i)

Spec == Init /\ [][Next]_vars

-----------------------------------------------------------------------------
Committed(i) == SubSeq(journal(i).log, 1, journal(i).commitIndex + 1)

\* What the cluster promises is void once power was lost on a server that does
\* not sync every write.
Weak == left.policy # "always" /\ left.dark

Agreed == INSTANCE AgreedLog WITH
    Initial <- <<Entry(0, NoMembers)>>,
    chosen <- IF Weak THEN <<Entry(0, NoMembers)>> ELSE [chosen EXCEPT ![1] = Entry(0, NoMembers)],
    view <- [i \in Server |-> IF Weak THEN <<Entry(0, NoMembers)>>
                              ELSE [Committed(i) EXCEPT ![1] = Entry(0, NoMembers)]]

\* setCommitIndex, removeEntries, membershipUpdate: through elections, changes of
\* membership and rollbacks of them, restarts, and blackouts when every write is
\* synced, the journals implement one committed log that only grows.
Implements == Agreed!Spec

\* Every variable has its type; the log holds its committed part.
TypeOK ==
    /\ \A i \in Server :
          /\ wal[i] # <<>>
          /\ \A k \in DOMAIN wal[i] :
                LET j == wal[i][k]
                IN  /\ j.term \in 0..MaxTerm
                    /\ j.vote \in Server \cup {Nobody}
                    /\ j.start <= j.commitIndex /\ j.commitIndex < LogSize(j)
                    /\ j.epoch < LogSize(j)
                    /\ j.members.nodes \cap j.members.observers = {}
          /\ leading[i] \in 0..MaxTerm
          /\ applier[i].stored <= applier[i].applied

\* The index of the last membership entry of a log.
LastMembership(j) == Max({k \in 0..(LogSize(j) - 1) : j.log[k + 1].members # NoMembers})

\* appendNoLock, removeEntries: the members and the epoch of a server, and of
\* whatever a blackout may leave of its journal, are those of the last membership
\* entry of its log, although only one previous membership is remembered; the
\* types hold as well.
MembershipFollowsLog ==
    TypeOK /\ \A i \in Server : \A k \in DOMAIN wal[i] :
        LET j == wal[i][k]
        IN  j.epoch = LastMembership(j) /\ j.members = j.log[j.epoch + 1].members

\* setCurrentTerm, shouldSync: with important updates synced, a blackout makes no
\* server forget its vote: no term ever has two leaders.
OneLeaderPerTerm ==
    left.policy # "async" => \A e, f \in elected : e[1] = f[1] => e = f

\* RaftTrimmer, RaftWriteTracker::applyCommits: whatever a blackout takes from the
\* state machine, the entries it has to apply again are still in the journal.
ApplierCanResume ==
    \A i \in Server : applier[i].stored + 1 >= journal(i).start

\* RaftDispatcher::appendEntries: two servers never hold different committed
\* entries at the same index.
CommittedAgree ==
    \A i, k \in Server : \A x \in 1..(1 + Min({journal(i).commitIndex, journal(k).commitIndex})) :
        journal(i).log[x] = journal(k).log[x]

=============================================================================
