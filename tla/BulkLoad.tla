----------------------------- MODULE BulkLoad -----------------------------
(***************************************************************************)
(* The state machine in bulkload mode, and after it.                       *)
(*                                                                         *)
(* While a new database is loaded nothing is read: every command finds an  *)
(* empty database, descriptors are not written, deletions are refused.     *)
(* QUARKDB_BULKLOAD_FINALIZE scans all entries and builds the descriptors; *)
(* the database may then be opened as any other.                           *)
(*                                                                         *)
(* A database whose load was not finalized cannot be opened, and a crash   *)
(* loses it, since there is no write-ahead log: neither is a step here.    *)
(***************************************************************************)
EXTENDS Reads

VARIABLE
    mode     \* "bulkload", "finalized": no more requests, "normal"

bulkVars == <<db, area, count, keeper, load, scan, mode>>

\* The staging area of a bulkload: commands see none of what is there.
BulkArea == [NewArea(<<>>, {}) EXCEPT !.bulk = TRUE]

\* The keys of entries that belong to type, where an index of a locality hash
\* belongs to "lhash".
OfType(loc) == IF loc[1] = "lindex" THEN "lhash" ELSE loc[1]

\* What a load may contain for the descriptors to come out right: one type to a
\* key, one hint to a field, no deques, and nothing that deletes or reads.
Loadable(s) ==
    /\ s.failure = "none"
    /\ \A a \in DOMAIN s.store, b \in DOMAIN s.store \cup DOMAIN db :
          /\ a[1] # "deque"
          /\ a[1] # "config" /\ b[1] \notin {"config", "clock"} /\ a[2] = b[2] => OfType(a) = OfType(b)
          /\ a = b /\ a[1] = "lindex" /\ b \in DOMAIN db => s.store[a] = db[b]

\* A command in bulkload mode; a batch is a command.
BulkCommand ==
    /\ mode = "bulkload"
    /\ Command
    /\ "bulkload" \in Unguarded \/ Loadable(area')
    /\ UNCHANGED <<scan, mode>>

\* StagingArea::commit, commitBatch
BulkCommit ==
    /\ mode = "bulkload"
    /\ area.failure = "none"
    /\ count > 0
    /\ db' = put([area EXCEPT !.store = db], area.store).store
    /\ area' = BulkArea
    /\ count' = 0
    /\ UNCHANGED <<keeper, load, scan, mode>>

\* The types in the order of their characters, which is the order of the scan.
TypeOrder == <<"string", "hash", "set", "deque", "lhash", "lease", "vhash">>

\* Mutant of KeyDescriptorBuilder: indexes count as fields.
KeyDescriptorBuilderAll ==
    LET Entries(k, type) == {loc \in DOMAIN db : loc[1] # "config" /\ OfType(loc) = type /\ loc[2] = k}
        TypesOf(k) == {i \in DOMAIN TypeOrder : Entries(k, TypeOrder[i]) # {}}
        Built(k) == LET type == TypeOrder[Max(TypesOf(k))]
                    IN  [NoKey EXCEPT !.type = type, !.size = Cardinality(Entries(k, type))]
    IN  [loc \in {Desc(k) : k \in {key \in Key : TypesOf(key) # {}}} |-> Built(loc[2])]

\* One descriptor for every type a key has entries of; the last one written stays.
\* The size of a string is its length; nothing tells the ends of a deque.
KeyDescriptorBuilder ==
    LET Entries(k, type) == {loc \in DOMAIN db : loc[1] # "config" /\ OfType(loc) = type /\ loc[2] = k}
        TypesOf(k) == {i \in DOMAIN TypeOrder : Entries(k, TypeOrder[i]) # {}}
        Built(k) == LET type == TypeOrder[Max(TypesOf(k))]
                        size == IF type = "string" THEN IF db[Str(k)] = "" THEN 0 ELSE 1
                                ELSE Cardinality({loc \in Entries(k, type) : loc[1] # "lindex"})
                    IN  [NoKey EXCEPT !.type = type, !.size = size]
    IN  [loc \in {Desc(k) : k \in {key \in Key : TypesOf(key) # {}}} |-> Built(loc[2])]

\* Stops accepting requests, waits for those under way, builds the descriptors.
Finalize ==
    /\ mode = "bulkload"
    /\ area.failure = "none"
    /\ count = 0
    /\ db' = put(Snapshot, KeyDescriptorBuilder).store
    /\ mode' = "finalized"
    /\ UNCHANGED <<area, count, keeper, load, scan>>

\* The database is opened in another mode.
Reopen ==
    /\ mode = "finalized"
    /\ Restart
    /\ mode' = "normal"
    /\ UNCHANGED scan

BulkInit ==
    /\ ReadInit
    /\ ~ load.bulkload
    /\ mode = "normal"

LoadInit ==
    /\ db = One(Clock, 0)
    /\ area = BulkArea
    /\ count = 0
    /\ keeper = 0
    /\ load \in {w \in Workload : w.bulkload}
    /\ scan = NoScan
    /\ mode = "bulkload"

BulkNext ==
    \/ mode = "normal" /\ ReadNext /\ UNCHANGED mode
    \/ BulkCommand \/ BulkCommit \/ Finalize \/ Reopen

BulkSpec == (BulkInit \/ LoadInit) /\ [][BulkNext]_bulkVars

=============================================================================
