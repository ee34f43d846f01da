------------------------------- MODULE Reads -------------------------------
(***************************************************************************)
(* The reads of the state machine, and scans.                              *)
(*                                                                         *)
(* A read works on a snapshot of the database, or on the staging area of   *)
(* the transaction it is part of.  A scan is a sequence of reads: every    *)
(* page is a snapshot of its own, and all that links it to the page before *)
(* is the cursor in the client's hands, while other clients go on writing. *)
(*                                                                         *)
(* Keys, fields and hints are numbers here: their order is the order in    *)
(* which RocksDB iterates over them.                                       *)
(***************************************************************************)
EXTENDS StateMachine, SequencesExt

VARIABLE
    scan     \* the scan a client is engaged in

readVars == <<db, area, count, keeper, load, scan>>

\* What a read may answer besides a value.
Null == "null"
WrongType == "wrong type"
Assertion == "assertion"

NoHint == 0

-----------------------------------------------------------------------------
(* Reads of one key *)

\* assertKeyType, isWrongType
Typed(s, k, type, answer) == IF valid(s, k, type) THEN answer ELSE WrongType

Value(s, loc) == IF Has(s, loc) THEN s.store[loc] ELSE Null

getType(s, k) == Info(s, k).type

exists(s, ks) == Cardinality({k \in ks : keyExists(s, k)})

get(s, k) == Typed(s, k, "string", Value(s, Str(k)))

\* hlen, lhlen, vhlen, scard, dequeLen
len(s, k, type) == Typed(s, k, type, Info(s, k).size)

hget(s, k, f) == Typed(s, k, "hash", Value(s, Fld("hash", k, f)))

hkeys(s, k) == Typed(s, k, "hash", {loc[3] : loc \in Fields(s, "hash", k)})

hgetall(s, k) ==
    Typed(s, k, "hash",
          [f \in {loc[3] : loc \in Fields(s, "hash", k)} |-> s.store[Fld("hash", k, f)]])

\* HVALS of another type answers nothing instead of an error.
hvals(s, k) == IF valid(s, k, "hash") THEN hgetall(s, k) ELSE <<>>

smembers(s, k) == Typed(s, k, "set", {loc[3] : loc \in Fields(s, "set", k)})

sismember(s, k, f) == Typed(s, k, "set", Has(s, Fld("set", k, f)))

\* Mutant of lhget: a wrong hint is as good as no field.
lhgetByHint(s, k, f, h) ==
    IF ~ valid(s, k, "lhash") THEN WrongType
    ELSE IF h # NoHint THEN Value(s, LField(k, h, f))
    ELSE IF Has(s, LIndex(k, f)) THEN Value(s, LField(k, s.store[LIndex(k, f)], f))
    ELSE Null

\* h is the hint of the client, or NoHint.
lhget(s, k, f, h) ==
    LET right == s.store[LIndex(k, f)]
    IN  IF ~ valid(s, k, "lhash") THEN WrongType
        ELSE IF h # NoHint /\ Has(s, LField(k, h, f)) THEN s.store[LField(k, h, f)]
        ELSE IF ~ Has(s, LIndex(k, f)) THEN Null
        ELSE IF h = right \/ ~ Has(s, LField(k, right, f)) THEN Assertion
        ELSE s.store[LField(k, right, f)]

\* LHGET_WITH_FALLBACK
lhgetWithFallback(s, k, f, h, fallback) ==
    IF lhget(s, k, f, h) = Null THEN hget(s, fallback, f) ELSE lhget(s, k, f, h)

vhgetall(s, k) ==
    IF ~ keyExists(s, k) THEN [version |-> 0, fields |-> {}]
    ELSE Typed(s, k, "vhash",
               [version |-> Info(s, k).start, fields |-> {loc[3] : loc \in Fields(s, "vhash", k)}])

configGet(s, name) == Value(s, Config(name))

configGetall(s) == {loc \in DOMAIN s.store : loc[1] = "config"}

\* LEASE_GET_PENDING_EXPIRATION_EVENTS without the dynamic clock
pendingEvents(s) ==
    [clock |-> Now(s), events |-> {<<loc[2], loc[3]>> : loc \in {l \in DOMAIN s.store : l[1] = "event"}}]

-----------------------------------------------------------------------------
(* Scans.  A cursor is the element where the next page starts, in a tuple, and *)
(* empty for the first page.                                                   *)

\* A page: what it answers, the cursor for the next, and the phase of the scan.
Page(items, cursor, phase) == [items |-> items, cursor |-> cursor, phase |-> phase]

\* The page with these items, when iteration stops before element i of all.
PageUntil(items, all, i) ==
    IF i > Len(all) THEN Page(items, <<>>, "done") ELSE Page(items, <<all[i]>>, "open")

Elements(s, kind, k) ==
    CASE kind = "scan"   -> {key \in Key : keyExists(s, key)}
      [] kind = "hscan"  -> {loc[3] : loc \in Fields(s, "hash", k)}
      [] kind = "sscan"  -> {loc[3] : loc \in Fields(s, "set", k)}
      [] kind = "lhscan" -> {<<loc[3], loc[4]>> : loc \in Fields(s, "lhash", k)}
      [] kind = "dequeScanBack" -> {loc[3] : loc \in Fields(s, "deque", k)}

TypeOf(kind) ==
    [hscan |-> "hash", sscan |-> "set", lhscan |-> "lhash", dequeScanBack |-> "deque"][kind]

Sorted(kind, elements) ==
    SetToSortSeq(elements, LAMBDA a, b :
        IF kind = "lhscan" THEN a[1] < b[1] \/ (a[1] = b[1] /\ a[2] < b[2]) ELSE a < b)

\* The elements from cursor on that RocksDB's iterator would give.
From(kind, elements, cursor) ==
    LET all == Sorted(kind, elements \cup ToSet(cursor))
        at  == IF cursor = <<>> THEN 1 ELSE CHOOSE i \in 1..Len(all) : all[i] = cursor[1]
    IN  SelectSeq(SubSeq(all, at, Len(all)), LAMBDA e : e \in elements)

\* Mutant of fieldPage: the cursor is the last element of the page.
fieldPageAgain(s, sc) ==
    LET all == From(sc.kind, Elements(s, sc.kind, sc.key), sc.cursor)
    IN  PageUntil(SubSeq(all, 1, Min({sc.count, Len(all)})), all,
                  IF Len(all) > sc.count THEN sc.count ELSE Len(all) + 1)

\* hscan, sscan
fieldPage(s, sc) ==
    LET all == From(sc.kind, Elements(s, sc.kind, sc.key), sc.cursor)
    IN  PageUntil(SubSeq(all, 1, Min({sc.count, Len(all)})), all, sc.count + 1)

\* scan: count bounds the keys looked at, matching or not.  prefix is the set of
\* keys that begin as the pattern does.
keyPage(s, sc) ==
    LET all  == From("scan", Elements(s, "scan", sc.key) \cap sc.prefix, sc.cursor)
        seen == SubSeq(all, 1, Min({sc.count, Len(all)}))
    IN  PageUntil(SelectSeq(seen, LAMBDA k : k \in sc.match), all, sc.count + 1)

\* lhscan with MATCHLOC: count bounds the matches.  With a pattern that has a
\* prefix, a cursor confines the page to the hint of the cursor.
localityPage(s, sc) ==
    LET required == IF sc.cursor = <<>> \/ sc.prefix = Hint THEN sc.prefix ELSE {sc.cursor[1][1]}
        all  == From("lhscan", {e \in Elements(s, "lhscan", sc.key) : e[1] \in required}, sc.cursor)
        Found(n) == SelectSeq(SubSeq(all, 1, n), LAMBDA e : e[1] \in sc.match)
        stop == Min({i \in 1..Len(all) : Len(Found(i - 1)) >= sc.count} \cup {Len(all) + 1})
    IN  PageUntil(Found(stop - 1), all, stop)

\* dequeScanBack: pages of indexes from the back; Assertion when one is missing.
dequePage(s, sc) ==
    LET info   == Info(s, sc.key)
        marker == Min(ToSet(sc.cursor) \cup {info.end})
        first  == Max({marker - sc.count, info.start + 1})
        items  == [i \in 1..(marker - first) |-> first + i - 1]
    IN  IF info.size = 0 THEN Page(<<>>, <<>>, "done")
        ELSE IF ~ ToSet(items) \subseteq Elements(s, "dequeScanBack", sc.key)
        THEN Page(<<>>, <<>>, Assertion)
        ELSE IF marker - sc.count <= info.start + 1 THEN Page(items, <<>>, "done")
        ELSE Page(items, <<first>>, "open")

pageOf(s, sc) ==
    IF sc.kind # "scan" /\ ~ valid(s, sc.key, TypeOf(sc.kind)) THEN Page(<<>>, <<>>, WrongType)
    ELSE CASE sc.kind = "scan"          -> keyPage(s, sc)
           [] sc.kind = "lhscan"        -> localityPage(s, sc)
           [] sc.kind = "dequeScanBack" -> dequePage(s, sc)
           [] OTHER                     -> fieldPage(s, sc)

\* KEYS: all pages in one snapshot.
keys(s) == keyPage(s, [prefix |-> Key, match |-> Key, cursor |-> <<>>, count |-> Cardinality(Key) + 1,
                       key |-> 0]).items

-----------------------------------------------------------------------------
(* A client that scans, among clients that write.  stable and ever are        *)
(* history variables: what has been there all the time since the scan began,  *)
(* and what has been there at some time.  A pattern of the workload is the set *)
(* of names that begin with its literal prefix, a range, and the ones among   *)
(* them that match; load.scans are the scans of the workload.                 *)

NoScan == [phase |-> "idle"]

Snapshot == NewArea(db, {})

BeginScan(k) ==
    /\ scan.phase = "idle"
    /\ \E kind \in load.scans, n \in 1..2, pattern \in load.patterns :
          /\ kind = "lhscan" /\ pattern.prefix # Hint /\ Cardinality(pattern.prefix) > 1
                => "matchloc" \in Unguarded
          /\ scan' = [phase |-> "open", kind |-> kind, key |-> k, count |-> n, cursor |-> <<>>,
                      prefix |-> pattern.prefix, match |-> pattern.match, got |-> <<>>,
                      stable |-> Elements(Snapshot, kind, k), ever |-> Elements(Snapshot, kind, k)]
    /\ UNCHANGED vars

TakePage ==
    /\ scan.phase = "open"
    /\ LET page == pageOf(Snapshot, scan)
       IN  scan' = [scan EXCEPT
                      !.got = @ \o page.items, !.cursor = page.cursor, !.phase = page.phase]
    /\ UNCHANGED vars

EndScan ==
    /\ scan.phase \notin {"idle", "open", Assertion}
    /\ scan' = NoScan
    /\ UNCHANGED vars

\* A read as a command of a transaction that writes too: sismember asks the
\* snapshot that only a read-only staging area has.
readInTransaction(s, read) == IF read = "sismember" THEN fail(s, "sismember") ELSE s

ReadCommand ==
    /\ "read" \in load.types
    /\ \E read \in {"lhget"} \cup (Unguarded \cap {"sismember"}) : Execute(readInTransaction(area, read))

Observe ==
    scan' = IF scan.phase # "open" THEN scan
            ELSE LET now == Elements(NewArea(db', {}), scan.kind, scan.key)
                 IN  [scan EXCEPT !.stable = @ \cap now, !.ever = @ \cup now]

ReadInit == Init /\ scan = NoScan

ReadNext ==
    \/ Next /\ Observe
    \/ ReadCommand /\ UNCHANGED scan
    \/ \E k \in load.keys : BeginScan(k)
    \/ TakePage \/ EndScan

-----------------------------------------------------------------------------
\* A scan that has come to its end has answered everything that matched and was
\* there all the time, nothing twice, and nothing that was never there; and no
\* page runs into the assertion on the indexes of a deque.  Writers add and
\* remove elements, delete the key and create it again between two pages.
ScanComplete ==
    /\ scan.phase # Assertion
    /\ scan.phase = "done" =>
          LET Matches(e) == CASE scan.kind = "scan"   -> e \in scan.match
                              [] scan.kind = "lhscan" -> e[1] \in scan.match
                              [] OTHER                -> TRUE
          IN  /\ \A e \in scan.stable : Matches(e) => e \in ToSet(scan.got)
              /\ IsInjective(scan.got)
              /\ \A e \in ToSet(scan.got) : e \in scan.ever /\ Matches(e)

\* Reads of one snapshot, or of one point of a transaction, agree with one another:
\* the length with the listing, the listing with the lookups, a lookup with a
\* hint, a wrong hint and no hint, EXISTS with TYPE with KEYS, leases with the
\* events pending for them.
ReadsAgree ==
    LET Agree(s) ==
          /\ ToSet(keys(s)) = {k \in Key : getType(s, k) # "none"}
          /\ exists(s, Key) = Len(keys(s))
          /\ \A name \in Field : configGet(s, name) # Null <=> Config(name) \in configGetall(s)
          /\ \A k \in Key :
                /\ valid(s, k, "hash") =>
                      /\ len(s, k, "hash") = Cardinality(hkeys(s, k))
                      /\ DOMAIN hgetall(s, k) = hkeys(s, k) /\ hvals(s, k) = hgetall(s, k)
                      /\ \A f \in Field : hget(s, k, f) # Null <=> f \in hkeys(s, k)
                /\ valid(s, k, "set") =>
                      /\ len(s, k, "set") = Cardinality(smembers(s, k))
                      /\ \A f \in Field : sismember(s, k, f) <=> f \in smembers(s, k)
                /\ valid(s, k, "vhash") => len(s, k, "vhash") = Cardinality(vhgetall(s, k).fields)
                /\ valid(s, k, "lhash") =>
                      /\ len(s, k, "lhash") = Cardinality({f \in Field : lhget(s, k, f, NoHint) # Null})
                      /\ \A f \in Field, h \in Hint :
                            /\ lhget(s, k, f, h) = lhget(s, k, f, NoHint) /\ lhget(s, k, f, h) # Assertion
                            /\ lhgetWithFallback(s, k, f, h, k) \in {lhget(s, k, f, h), WrongType}
                /\ getType(s, k) = "lease" <=> \E e \in pendingEvents(s).events : e[2] = k
                /\ get(s, k) \notin {Null, WrongType} <=> getType(s, k) = "string"
    IN  ~ area.bulk => Agree(area)

=============================================================================
