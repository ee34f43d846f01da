---------------------------- MODULE StateMachine ----------------------------
(***************************************************************************)
(* The state machine: typed redis keys on top of RocksDB.                  *)
(*                                                                         *)
(* Every key has a descriptor with its type and size; the contents are     *)
(* separate RocksDB entries whose keys ("locators") begin with the type.   *)
(* The commands of a transaction work one after the other on a             *)
(* StagingArea, which shows them the database with their own changes, and  *)
(* commit together.  Leases also live in a cache in memory, ordered by     *)
(* deadline, from which the clock of the state machine expires them.       *)
(*                                                                         *)
(* A step is a command: writeMtx keeps transactions apart.                 *)
(***************************************************************************)
EXTENDS Integers, Sequences, FiniteSets, FiniteSetsExt, Functions

CONSTANTS
    Key, Field, Hint, Holder,  \* names of keys, fields, locality hints, lease holders
    Workload,      \* what the clients of a behaviour may send: the types, keys and fields
                   \* they use, the bound on the commands of a transaction, the bound on
                   \* the timestamps of lease requests
    Unguarded,     \* what clients do although the code does not guard against it:
                   \* smove within one set, set of an empty string, lease_get of another
                   \* type, a second change to a spoiled versioned hash
    MaxVersion,    \* bound on the versions of a versioned hash
    MaxDrift,      \* bound on how far a deque moves from its first index
    MaxDuration    \* bound on the duration of a lease

ASSUME BoundsAssumption ==
    /\ Unguarded \subseteq {"smove", "set", "lease_get", "vhash", "matchloc", "sismember", "bulkload"}
    /\ \A w \in Workload :
          /\ w.types \subseteq {"string", "hash", "set", "deque", "lhash", "vhash", "lease", "config", "read"}
          /\ w.keys \subseteq Key /\ w.fields \subseteq Field /\ IsFiniteSet(w.fields)
          /\ {w.commands, w.clock} \subseteq Nat
    /\ {MaxVersion, MaxDrift, MaxDuration} \subseteq Nat

VARIABLES
    db,      \* the committed database: locators to values
    area,    \* the staging area, with the expiration cache and the fate of the process
    count,   \* commands executed in the current transaction
    keeper,  \* the static clock of Timekeeper
    load     \* the workload of this behaviour

vars == <<db, area, count, keeper, load>>

-----------------------------------------------------------------------------
(* Locators and descriptors *)

Desc(k)          == <<"descriptor", k>>
Str(k)           == <<"string", k>>
Fld(type, k, f)  == <<type, k, f>>
LField(k, h, f)  == <<"lhash", k, h, f>>
LIndex(k, f)     == <<"lindex", k, f>>
Lease(k)         == <<"lease", k>>
Event(t, k)      == <<"event", t, k>>
Clock            == <<"clock">>
Config(name)     == <<"config", name>>

FieldTypes == {"hash", "set", "deque", "vhash"}

\* KeyDescriptor; index 0 stands for kIndexInitialValue, the middle of uint64_t.
NoKey == [type |-> "none", size |-> 0, start |-> 0, end |-> 0]

\* The values hincrby can parse, and those it cannot.
Val == {"num", "text"}

-----------------------------------------------------------------------------
(* StagingArea: s is the area as the commands so far have left it *)

Has(s, loc) == loc \in DOMAIN s.store

fail(s, why) == [s EXCEPT !.failure = why]

\* Writes every entry of new, a function from locators to values; in bulkload mode
\* descriptors are left for the end.
put(s, new) ==
    LET kept == {loc \in DOMAIN new : s.bulk => loc[1] # "descriptor"}
    IN  [s EXCEPT !.store = [loc \in DOMAIN @ \cup kept |-> IF loc \in kept THEN new[loc] ELSE @[loc]]]

del(s, locs) ==
    IF s.bulk /\ locs # {} THEN fail(s, "bulkload")
    ELSE [s EXCEPT !.store = Restrict(@, DOMAIN @ \ locs)]

One(loc, v) == [l \in {loc} |-> v]

Info(s, k) == IF Has(s, Desc(k)) THEN s.store[Desc(k)] ELSE NoKey

Fields(s, type, k) == {loc \in DOMAIN s.store : loc[1] = type /\ loc[2] = k}

-----------------------------------------------------------------------------
(* WriteOperation *)

valid(s, k, type) == Info(s, k).type \in {"none", type}

keyExists(s, k) == Info(s, k).type # "none"

\* The descriptor an operation starts from.
operation(s, k, type) == [Info(s, k) EXCEPT !.type = type]

\* puts: the keys whose descriptor is in the write batch.
finalize(s, k, op, newsize, force) ==
    IF newsize < 0 THEN fail(s, "size")
    ELSE IF newsize = 0 /\ op.type # "vhash"
    THEN [del(s, {Desc(k)}) EXCEPT !.puts = @ \ {k}]
    ELSE IF op.size # newsize \/ force
    THEN [put(s, One(Desc(k), [op EXCEPT !.size = newsize])) EXCEPT !.puts = @ \cup {k}]
    ELSE s

\* Writes the fields of new and adds those that were not there to the size.
writeFields(s, k, type, new) ==
    LET op      == operation(s, k, type)
        entries == [loc \in {Fld(type, k, f) : f \in DOMAIN new} |-> new[loc[3]]]
        created == {loc \in DOMAIN entries : ~ Has(s, loc)}
    IN  finalize(put(s, entries), k, op, op.size + Cardinality(created), FALSE)

deleteFields(s, k, type, fs) ==
    LET op      == operation(s, k, type)
        removed == {loc \in {Fld(type, k, f) : f \in fs} : Has(s, loc)}
    IN  finalize(del(s, removed), k, op, op.size - Cardinality(removed), FALSE)

\* remove_all_with_prefix as del uses it
removeFields(s, k, types, size) ==
    IF \E type \in types : Cardinality(Fields(s, type, k)) # size THEN fail(s, "counter")
    ELSE del(s, UNION {Fields(s, type, k) : type \in types})

-----------------------------------------------------------------------------
(* Strings, hashes, sets: one operator per command, WRONGTYPE changes nothing *)

Guarded(s, k, type, new) == IF valid(s, k, type) THEN new ELSE s

\* The size of a string is its length, 0 or 1 here.
set(s, k, length) ==
    Guarded(s, k, "string",
        finalize(put(s, One(Str(k), IF length = 0 THEN "" ELSE "text")), k,
                 operation(s, k, "string"), length, FALSE))

hmset(s, k, new) == Guarded(s, k, "hash", writeFields(s, k, "hash", new))

hsetnx(s, k, f, v) ==
    IF Has(s, Fld("hash", k, f)) THEN s ELSE hmset(s, k, One(f, v))

hincrby(s, k, f) ==
    IF Has(s, Fld("hash", k, f)) /\ s.store[Fld("hash", k, f)] # "num" THEN s
    ELSE hmset(s, k, One(f, "num"))

hdel(s, k, fs) == Guarded(s, k, "hash", deleteFields(s, k, "hash", fs))

sadd(s, k, fs) == Guarded(s, k, "set", writeFields(s, k, "set", [f \in fs |-> "1"]))

srem(s, k, fs) == Guarded(s, k, "set", deleteFields(s, k, "set", fs))

\* Two operations are open at once: the second has read its descriptor before
\* the first writes.
smove(s, source, destination, f) ==
    LET op1   == operation(s, source, "set")
        op2   == operation(s, destination, "set")
        taken == finalize(del(s, {Fld("set", source, f)}), source, op1, op1.size - 1, FALSE)
        given == put(taken, One(Fld("set", destination, f), "1"))
    IN  IF ~ valid(s, source, "set") \/ ~ valid(s, destination, "set") \/ ~ Has(s, Fld("set", source, f))
        THEN s
        ELSE IF Has(taken, Fld("set", destination, f))
        THEN finalize(taken, destination, op2, op2.size, FALSE)
        ELSE finalize(given, destination, op2, op2.size + 1, FALSE)

hclone(s, source, target) ==
    LET from == Fields(s, "hash", source)
        copy == [loc \in {Fld("hash", target, l[3]) : l \in from} |-> s.store[Fld("hash", source, loc[3])]]
    IN  IF keyExists(s, target) \/ Info(s, source).type # "hash" THEN s
        ELSE IF Cardinality(from) # Info(s, source).size THEN fail(s, "hclone")
        ELSE finalize(put(s, copy), target, operation(s, target, "hash"), Cardinality(from), FALSE)

-----------------------------------------------------------------------------
(* Deques: items at start + 1 .. end - 1 *)

Left == -1
Right == 1
flipDirection(direction) == IF direction = Left THEN Right ELSE Left

ListIndex(op, direction) == IF direction = Left THEN op.start ELSE op.end

setListIndex(op, direction, index) ==
    IF direction = Left THEN [op EXCEPT !.start = index] ELSE [op EXCEPT !.end = index]

\* Pushes n items.
dequePush(s, direction, k, n) ==
    LET op    == operation(s, k, "deque")
        index == ListIndex(op, direction)
        items == [loc \in {Fld("deque", k, index + j * direction) : j \in 0..(n - 1)} |-> "item"]
        moved == setListIndex(op, direction, index + n * direction)
    IN  Guarded(s, k, "deque",
            finalize(put(s, items), k,
                     IF op.size = 0 THEN setListIndex(moved, flipDirection(direction), index - direction) ELSE moved,
                     op.size + n, FALSE))

dequePop(s, direction, k) ==
    LET op     == operation(s, k, "deque")
        victim == ListIndex(op, direction) - direction
        loc    == Fld("deque", k, victim)
    IN  Guarded(s, k, "deque",
            IF op.size = 0 THEN finalize(s, k, op, 0, FALSE)
            ELSE IF ~ Has(s, loc) THEN fail(s, "deque")
            ELSE finalize(del(s, {loc}), k, setListIndex(op, direction, victim), op.size - 1, FALSE))

\* dequeTrimFront; dequeClear keeps 0.
dequeTrimFront(s, k, keep) ==
    LET op       == operation(s, k, "deque")
        toRemove == op.size - keep
        locs     == {Fld("deque", k, i) : i \in (op.start + 1)..(op.start + toRemove)}
        op2      == [op EXCEPT !.start = @ + toRemove]
    IN  IF ~ valid(s, k, "deque") \/ toRemove <= 0 THEN s
        ELSE IF (\E loc \in locs : ~ Has(s, loc)) \/ op2.end - op2.start - 1 # keep
        THEN fail(s, "deque")
        ELSE finalize(del(s, locs), k, op2, keep, FALSE)

-----------------------------------------------------------------------------
(* Locality hashes: a field is stored under its hint, an index tells the hint *)

\* Mutant of lhset: a changed hint leaves the old field behind.
lhsetLeaving(s, k, f, h) ==
    LET op     == operation(s, k, "lhash")
        entry  == One(LField(k, h, f), "text")
        index  == One(LIndex(k, f), h)
    IN  Guarded(s, k, "lhash",
            IF Has(s, LField(k, h, f)) THEN finalize(put(s, entry), k, op, op.size, FALSE)
            ELSE finalize(put(put(s, entry), index), k, op,
                          op.size + IF Has(s, LIndex(k, f)) THEN 0 ELSE 1, FALSE))

lhset(s, k, f, h) ==
    LET op     == operation(s, k, "lhash")
        entry  == One(LField(k, h, f), "text")
        index  == One(LIndex(k, f), h)
        old    == LField(k, s.store[LIndex(k, f)], f)
    IN  Guarded(s, k, "lhash",
            IF Has(s, LField(k, h, f)) THEN finalize(put(s, entry), k, op, op.size, FALSE)
            ELSE IF Has(s, LIndex(k, f))
            THEN IF ~ Has(s, old) THEN fail(s, "lhash")
                 ELSE finalize(put(put(del(s, {old}), entry), index), k, op, op.size, FALSE)
            ELSE finalize(put(put(s, entry), index), k, op, op.size + 1, FALSE))

lhdel(s, k, fs) ==
    LET op    == operation(s, k, "lhash")
        found == {f \in fs : Has(s, LIndex(k, f))}
        field == {LField(k, s.store[LIndex(k, f)], f) : f \in found}
    IN  Guarded(s, k, "lhash",
            IF \E loc \in field : ~ Has(s, loc) THEN fail(s, "lhash")
            ELSE finalize(del(s, field \cup {LIndex(k, f) : f \in found}), k, op,
                          op.size - Cardinality(found), FALSE))

lhlocdel(s, k, f, h) ==
    IF ~ valid(s, k, "lhash") \/ ~ Has(s, LField(k, h, f)) THEN s
    ELSE IF ~ Has(s, LIndex(k, f)) THEN fail(s, "lhash")
    ELSE lhdel(s, k, {f})

\* LHSET_AND_DEL_FALLBACK: the hash loses the field even if lhset is refused.
lhsetAndDelFallback(s, k, f, h, fallback) == hdel(lhset(s, k, f, h), fallback, {f})

lhdelWithFallback(s, k, f, fallback) ==
    IF valid(s, k, "lhash") /\ Has(s, LIndex(k, f)) THEN lhdel(s, k, {f})
    ELSE hdel(s, fallback, {f})

\* CONVERT_HASH_FIELD_TO_LHASH: field f of a hash becomes field g.
convertHashField(s, k, f, target, g, h) ==
    LET direct == Has(s, LField(target, h, g))
        index  == Has(s, LIndex(target, g))
    IN  IF ~ direct /\ index /\ ~ Has(s, LField(target, s.store[LIndex(target, g)], g)) THEN fail(s, "lhash")
        ELSE IF direct \/ index \/ ~ Has(s, Fld("hash", k, f)) \/ ~ valid(s, target, "lhash") THEN s
        ELSE hdel(lhset(s, target, g, h), k, {f})

-----------------------------------------------------------------------------
(* Versioned hashes: the version counts transactions.  spoiled is a history   *)
(* variable: the hashes that this transaction has deleted, or has touched      *)
(* with a vhdel of nothing.                                                    *)

\* VersionedHashRevision::setRevisionNumber, for the revision subscribers get.
setRevisionNumber(s, k, version) ==
    LET now == IF k \in DOMAIN s.revs THEN s.revs[k] ELSE 0
    IN  IF now # 0 /\ now # version THEN fail(s, "revision")
        ELSE [s EXCEPT !.revs = [key \in DOMAIN @ \cup {k} |-> IF key = k THEN version ELSE @[key]]]

vhset(s, k, f, v) ==
    LET op      == operation(s, k, "vhash")
        size    == op.size + IF Has(s, Fld("vhash", k, f)) THEN 0 ELSE 1
        version == op.start + IF k \in s.puts THEN 0 ELSE 1
        new     == setRevisionNumber(put(s, One(Fld("vhash", k, f), v)), k, version)
    IN  Guarded(s, k, "vhash", finalize(new, k, [op EXCEPT !.start = version], size, TRUE))

\* Mutant of vhdel: the version of a hash that loses a field stays.
vhdelUncounted(s, k, fs) ==
    LET op      == operation(s, k, "vhash")
        removed == {loc \in {Fld("vhash", k, f) : f \in fs} : Has(s, loc)}
        new     == setRevisionNumber(del(s, removed), k, op.start)
    IN  Guarded(s, k, "vhash", finalize(new, k, op, op.size - Cardinality(removed), TRUE))

vhdel(s, k, fs) ==
    LET op      == operation(s, k, "vhash")
        removed == {loc \in {Fld("vhash", k, f) : f \in fs} : Has(s, loc)}
        version == op.start + IF removed = {} \/ k \in s.puts THEN 0 ELSE 1
        new     == setRevisionNumber(del(s, removed), k, version)
    IN  Guarded(s, k, "vhash",
            finalize([new EXCEPT !.spoiled = IF removed = {} /\ k \notin s.puts THEN @ \cup {k} ELSE @],
                     k, [op EXCEPT !.start = version], op.size - Cardinality(removed), TRUE))

-----------------------------------------------------------------------------
(* Leases and the clock *)

Now(s) == s.store[Clock]

\* What lease_release expects to find of a lease.
Intact(s, k) ==
    LET end == Info(s, k).end
    IN  Has(s, Event(end, k)) /\ <<end, k>> \in s.cache /\ Has(s, Lease(k))

\* lease_release of the leases ks, after the clock has been dealt with: releases of
\* different leases have no entry in common, so their order does not matter.
releaseLeases(s, ks) ==
    LET gone == UNION {{Event(Info(s, k).end, k), Lease(k), Desc(k)} : k \in ks}
    IN  IF \E k \in ks : ~ Intact(s, k) THEN fail(s, "lease")
        ELSE [del(s, gone) EXCEPT !.puts = @ \ ks, !.cache = @ \ {<<Info(s, k).end, k>> : k \in ks}]

lease_drop(s, k) == IF Info(s, k).type # "lease" THEN s ELSE releaseLeases(s, {k})

\* advanceClock's loop over the cache: an entry that is not that of a lease would
\* remain at the front, and its second release is not ok.
expire(s, due) ==
    IF \E e \in due : Info(s, e[2]).type # "lease" \/ Info(s, e[2]).end # e[1] THEN fail(s, "expire")
    ELSE releaseLeases(s, {e[2] : e \in due})

\* Mutant of advanceClock: a lease still counts at its deadline.
advanceClockLate(s, t) == put(expire(s, {e \in s.cache : e[1] < t}), One(Clock, t))

advanceClock(s, t) == put(expire(s, {e \in s.cache : e[1] <= t}), One(Clock, t))

maybeAdvanceClock(s, t) == IF Now(s) < t THEN advanceClock(s, t) ELSE s

\* Mutant of lease_acquire: takes the lease from whoever holds it.
lease_acquireAnyway(s, k, holder, t, duration) ==
    LET s1   == maybeAdvanceClock(s, t)
        op   == operation(s1, k, "lease")
        free == [del(s1, {Event(op.end, k)}) EXCEPT !.cache = @ \ {<<op.end, k>>}]
        end  == Now(s1) + duration
        new  == put(put(free, One(Event(end, k), "1")), One(Lease(k), holder))
    IN  IF ~ valid(s1, k, "lease") THEN s1
        ELSE finalize([new EXCEPT !.cache = @ \cup {<<end, k>>}], k,
                      [op EXCEPT !.start = Now(s1), !.end = end], 1, TRUE)

\* A new lease, or one more period for its holder: then the old event goes.
lease_acquire(s, k, holder, t, duration) ==
    LET s1   == maybeAdvanceClock(s, t)
        op   == operation(s1, k, "lease")
        lost == keyExists(s1, k) /\ (<<op.end, k>> \notin s1.cache \/ ~ Has(s1, Event(op.end, k)))
        free == IF keyExists(s1, k)
                THEN [del(s1, {Event(op.end, k)}) EXCEPT !.cache = @ \ {<<op.end, k>>}]
                ELSE s1
        end  == Now(s1) + duration
        new  == put(put(free, One(Event(end, k), "1")), One(Lease(k), holder))
    IN  IF ~ valid(s1, k, "lease") THEN s1
        ELSE IF Has(s1, Lease(k)) /\ s1.store[Lease(k)] # holder THEN s1
        ELSE IF lost \/ \E e \in free.cache : e[2] = k THEN fail(s1, "lease")
        ELSE finalize([new EXCEPT !.cache = @ \cup {<<end, k>>}], k,
                      [op EXCEPT !.start = Now(s1), !.end = end], 1, TRUE)

lease_release(s, k, t) == lease_drop(maybeAdvanceClock(s, t), k)

\* With the assertion of the dispatcher that the only error is a missing key.
lease_get(s, k, t) ==
    LET s1 == maybeAdvanceClock(s, t)
    IN  IF ~ valid(s1, k, "lease") THEN fail(s1, "lease_get")
        ELSE IF keyExists(s1, k) /\ ~ Has(s1, Lease(k)) THEN fail(s1, "lease")
        ELSE s1

-----------------------------------------------------------------------------
(* Commands for all types *)

\* StateMachine::del for one key.
delKey(s, k) ==
    LET info == Info(s, k)
        gone == CASE info.type = "string"      -> IF Has(s, Str(k)) THEN del(s, {Str(k)})
                                                  ELSE fail(s, "string")
                  [] info.type \in FieldTypes  -> removeFields(s, k, {info.type}, info.size)
                  [] info.type = "lhash"       -> removeFields(s, k, {"lhash", "lindex"}, info.size)
                  [] info.type = "lease"       -> lease_drop(s, k)
    IN  IF info.type = "none" THEN s
        ELSE [del(gone, {Desc(k)}) EXCEPT !.puts = @ \ {k},
                 !.spoiled = IF info.type = "vhash" THEN @ \cup {k} ELSE @]

\* Configuration entries have no descriptor.
configSet(s, name, value) == put(s, One(Config(name), value))

\* All but the internal entries and the configuration.
flushall(s) ==
    [del(s, {loc \in DOMAIN s.store : loc[1] \notin {"clock", "config"}}) EXCEPT !.puts = {}, !.cache = {},
        !.spoiled = @ \cup {k \in Key : Info(s, k).type = "vhash"}]

-----------------------------------------------------------------------------
(* Transactions *)

\* A staging area of a process that has this in its database and its cache.
NewArea(store, cache) ==
    [store |-> store, puts |-> {}, revs |-> <<>>, spoiled |-> {}, cache |-> cache, bulk |-> FALSE,
     failure |-> "none"]

Init ==
    /\ db = One(Clock, 0)
    /\ area = NewArea(db, {})
    /\ count = 0
    /\ keeper = 0
    /\ load \in Workload

\* The next command of a transaction, of MULTI or of pipelined requests.
Execute(s) ==
    /\ area.failure = "none"
    /\ count < load.commands
    /\ area' = s
    /\ count' = count + 1
    /\ UNCHANGED <<db, keeper, load>>

Set(k, length) ==
    /\ "string" \in load.types
    /\ length = 0 => "set" \in Unguarded
    /\ Execute(set(area, k, length))

HashCommand(k, f) ==
    /\ "hash" \in load.types
    /\ \/ \E fs \in SUBSET load.fields \ {{}} : \E new \in [fs -> Val] : Execute(hmset(area, k, new))
       \/ \E v \in Val : Execute(hsetnx(area, k, f, v))
       \/ Execute(hincrby(area, k, f))
       \/ \E fs \in SUBSET load.fields \ {{}} : Execute(hdel(area, k, fs))
       \/ \E target \in load.keys : Execute(hclone(area, k, target))

SetCommand(k, f) ==
    /\ "set" \in load.types
    /\ \/ \E fs \in SUBSET load.fields \ {{}} : Execute(sadd(area, k, fs)) \/ Execute(srem(area, k, fs))
       \/ \E target \in load.keys :
             /\ target = k => "smove" \in Unguarded
             /\ Execute(smove(area, k, target, f))

DequeCommand(k, direction) ==
    /\ "deque" \in load.types
    /\ \/ \E n \in 1..2 :
             /\ Info(area, k).start >= n - MaxDrift /\ Info(area, k).end <= MaxDrift - n
             /\ Execute(dequePush(area, direction, k, n))
       \/ Execute(dequePop(area, direction, k))
       \/ \E keep \in 0..1 : Execute(dequeTrimFront(area, k, keep))

LocalityCommand(k, f, h) ==
    /\ "lhash" \in load.types
    /\ \/ Execute(lhset(area, k, f, h))
       \/ Execute(lhlocdel(area, k, f, h))
       \/ \E fs \in SUBSET load.fields \ {{}} : Execute(lhdel(area, k, fs))
       \/ \E other \in load.keys :
             \/ Execute(lhsetAndDelFallback(area, k, f, h, other))
             \/ Execute(lhdelWithFallback(area, k, f, other))
             \/ \E g \in load.fields : Execute(convertHashField(area, other, g, k, f, h))

VersionedCommand(k, f) ==
    /\ "vhash" \in load.types
    /\ k \in area.spoiled => "vhash" \in Unguarded
    /\ Info(area, k).start < MaxVersion
    /\ \/ \E v \in Val : Execute(vhset(area, k, f, v))
       \/ \E fs \in SUBSET load.fields \ {{}} : Execute(vhdel(area, k, fs))

\* t is the timestamp LeaseFilter gave the request, from the dynamic clock of
\* the leader at that time.
LeaseCommand(k, t) ==
    /\ "lease" \in load.types
    /\ \/ \E holder \in Holder, duration \in 1..MaxDuration :
             Execute(lease_acquire(area, k, holder, t, duration))
       \/ Execute(lease_release(area, k, t))
       \/ /\ ~ valid(maybeAdvanceClock(area, t), k, "lease") => "lease_get" \in Unguarded
          /\ Execute(lease_get(area, k, t))

Del(k) == Execute(delKey(area, k))

Flushall == Execute(flushall(area))

ConfigSet(name) ==
    /\ "config" \in load.types
    /\ \E value \in Val : Execute(configSet(area, name, value))

\* StagingArea::commit, and the revisions go to the publisher.
Commit ==
    /\ area.failure = "none"
    /\ count > 0
    /\ db' = area.store
    /\ area' = NewArea(area.store, area.cache)
    /\ count' = 0
    /\ UNCHANGED <<keeper, load>>

\* A leadership marker is applied: hardSynchronizeDynamicClock.
Synchronize ==
    /\ area.failure = "none"
    /\ count = 0
    /\ IF keeper <= db[Clock]
       THEN keeper' = db[Clock] /\ UNCHANGED area
       ELSE area' = fail(area, "timekeeper") /\ UNCHANGED keeper
    /\ UNCHANGED <<db, count, load>>

\* The process stops, in the middle of a transaction or because of an exception,
\* and starts again: loadExpirationCache, ensureClockSanity.
Restart ==
    /\ area' = NewArea(db, {<<loc[2], loc[3]>> : loc \in {l \in DOMAIN db : l[1] = "event"}})
    /\ count' = 0
    /\ keeper' = db[Clock]
    /\ UNCHANGED <<db, load>>

Command ==
    \/ \E k \in load.keys :
          \/ \E length \in 0..1 : Set(k, length)
          \/ \E f \in load.fields :
                \/ HashCommand(k, f) \/ SetCommand(k, f) \/ VersionedCommand(k, f)
                \/ \E h \in Hint : LocalityCommand(k, f, h)
          \/ \E direction \in {Left, Right} : DequeCommand(k, direction)
          \/ \E t \in 0..load.clock : LeaseCommand(k, t)
          \/ Del(k)
    \/ \E name \in load.fields : ConfigSet(name)
    \/ Flushall

Next == Command \/ Commit \/ Synchronize \/ Restart

Spec == Init /\ [][Next]_vars

-----------------------------------------------------------------------------
\* What a variable may be; contents are the subject of DescriptorsMatch.
TypeOK ==
    /\ Clock \in DOMAIN db /\ db[Clock] \in 0..load.clock
    /\ ~ area.bulk => Clock \in DOMAIN area.store /\ Now(area) \in 0..load.clock
    /\ \A k \in Key : LET info == Info(area, k) IN
          info.type \in load.types \cup {"none"} /\ info.size \in Nat
    /\ area.puts \subseteq Key /\ area.spoiled \subseteq Key /\ DOMAIN area.revs \subseteq Key
    /\ area.cache \subseteq (1..(load.clock + MaxDuration)) \X Key
    /\ count \in 0..load.commands /\ keeper \in 0..load.clock

\* The entries a key has in the database, by the type they belong to.
Contents(s, k) ==
    [type \in FieldTypes \cup {"string", "lhash", "lindex", "lease"} |-> Cardinality(Fields(s, type, k))]

\* Descriptor and contents of every key agree after every command: no entry of
\* another type, the size is the number of entries (the counter that del checks
\* and hlen, scard and the others answer), deques have no holes, and in a
\* locality hash fields and indexes are one to one.  In bulkload mode there are no
\* descriptors yet.
DescriptorsMatch ==
    ~ area.bulk => \A k \in Key :
        LET info == Info(area, k)
            has  == Contents(area, k)
            Of(types) == \A type \in DOMAIN has : has[type] = IF type \in types THEN info.size ELSE 0
        IN  CASE info.type = "none"   -> Of({})
              [] info.type = "lhash"  ->
                    /\ Of({"lhash", "lindex"})
                    /\ \A loc \in Fields(area, "lhash", k) :
                          Has(area, LIndex(k, loc[4])) /\ area.store[LIndex(k, loc[4])] = loc[3]
              [] info.type = "deque"  ->
                    /\ Of({"deque"})
                    /\ {loc[3] : loc \in Fields(area, "deque", k)} = (info.start + 1)..(info.end - 1)
              [] OTHER                -> Of({info.type})

\* Leases, their events in the database and the cache in memory agree after
\* every command, and no lease outlives the clock: what one replica expires, all
\* do, restarted or not.
LeasesMatch ==
    LET leases == {k \in Key : Info(area, k).type = "lease"}
        events == {<<loc[2], loc[3]>> : loc \in {l \in DOMAIN area.store : l[1] = "event"}}
    IN  /\ events = {<<Info(area, k).end, k>> : k \in leases}
        /\ area.cache = events
        /\ \A k \in leases : Info(area, k).start <= Now(area) /\ Now(area) < Info(area, k).end

\* No exception and no assertion of the commands is reached: one would stop the
\* node, and every other node that applies the same entry.  The types hold as well.
NoFailure == TypeOK /\ area.failure = "none"

\* A lease goes from one holder to another only when its deadline has passed.
LeaseChangesHands ==
    [][\A k \in Key :
         Has(area, Lease(k)) /\ Has(area, Lease(k))' /\ count' > 0
            => \/ area.store[Lease(k)] = area'.store[Lease(k)]
               \/ Info(area, k).end <= Now(area)']_vars

\* The comment in vhset, "Each transaction towards the state machine counts as a
\* single version": when a transaction changes the fields of a versioned hash its
\* version goes up by one, and that is the revision subscribers get.
VersionPerTransaction ==
    [][count > 0 /\ db' = area.store =>
         \A k \in Key :
            LET old == Info([store |-> db], k)
                new == Info(area, k)
                Vals(store) == [loc \in {l \in DOMAIN store : l[1] = "vhash" /\ l[2] = k} |-> store[loc]]
            IN  new.type = "vhash" =>
                  /\ old.type \in {"vhash", "none"} /\ Vals(db) # Vals(db') => new.start = old.start + 1
                  /\ k \in DOMAIN area.revs => area.revs[k] = new.start]_vars

=============================================================================
