------------------------- MODULE StateMachineProofs -------------------------
(***************************************************************************)
(* The commands of the state machine keep descriptors and contents, leases *)
(* and their events in step, for every set of keys and fields, and none of *)
(* their assertions is reached.                                            *)
(***************************************************************************)
EXTENDS StateMachine, FiniteSetTheorems, TLAPS

-----------------------------------------------------------------------------
(* The staging area *)

IsArea(s) ==
    s = [store |-> s.store, puts |-> s.puts, revs |-> s.revs, spoiled |-> s.spoiled, cache |-> s.cache,
         bulk |-> s.bulk, failure |-> s.failure]

\* No bulkload, and nothing has failed.
Sound(s) == IsArea(s) /\ s.bulk = FALSE /\ s.failure = "none"

\* The same entry, or none, in both.
Same(s, s2, loc) ==
    /\ loc \in DOMAIN s2.store <=> loc \in DOMAIN s.store
    /\ loc \in DOMAIN s.store => s2.store[loc] = s.store[loc]

\* Only the entries differ.
Kept(s, s2) == s2.puts = s.puts /\ s2.revs = s.revs /\ s2.spoiled = s.spoiled /\ s2.cache = s.cache

Wrote(s, s2, new) ==
    /\ Sound(s2) /\ Kept(s, s2)
    /\ DOMAIN s2.store = DOMAIN s.store \cup DOMAIN new
    /\ \A loc \in DOMAIN new : s2.store[loc] = new[loc]
    /\ \A loc : loc \notin DOMAIN new => Same(s, s2, loc)

Erased(s, s2, locs) ==
    /\ Sound(s2) /\ Kept(s, s2)
    /\ DOMAIN s2.store = DOMAIN s.store \ locs
    /\ \A loc : loc \notin locs => Same(s, s2, loc)

WithStore(s, a) == [s EXCEPT !.store = a]
WithPuts(s, a) == [s EXCEPT !.puts = a]
WithRevs(s, a) == [s EXCEPT !.revs = a]
WithSpoiled(s, a) == [s EXCEPT !.spoiled = a]
WithCache(s, a) == [s EXCEPT !.cache = a]

LEMMA StoreField ==
    ASSUME NEW s, Sound(s), NEW a
    PROVE  Sound(WithStore(s, a)) /\ WithStore(s, a).store = a /\ Kept(s, WithStore(s, a))
BY DEF Sound, IsArea, Kept, WithStore

LEMMA PutsField ==
    ASSUME NEW s, Sound(s), NEW a
    PROVE  /\ Sound(WithPuts(s, a)) /\ WithPuts(s, a).puts = a /\ WithPuts(s, a).store = s.store
           /\ WithPuts(s, a).revs = s.revs /\ WithPuts(s, a).spoiled = s.spoiled
           /\ WithPuts(s, a).cache = s.cache
BY DEF Sound, IsArea, WithPuts

LEMMA RevsField ==
    ASSUME NEW s, Sound(s), NEW a
    PROVE  /\ Sound(WithRevs(s, a)) /\ WithRevs(s, a).revs = a /\ WithRevs(s, a).store = s.store
           /\ WithRevs(s, a).puts = s.puts /\ WithRevs(s, a).spoiled = s.spoiled
           /\ WithRevs(s, a).cache = s.cache
BY DEF Sound, IsArea, WithRevs

LEMMA SpoiledField ==
    ASSUME NEW s, Sound(s), NEW a
    PROVE  /\ Sound(WithSpoiled(s, a)) /\ WithSpoiled(s, a).spoiled = a /\ WithSpoiled(s, a).store = s.store
           /\ WithSpoiled(s, a).puts = s.puts /\ WithSpoiled(s, a).revs = s.revs
           /\ WithSpoiled(s, a).cache = s.cache
BY DEF Sound, IsArea, WithSpoiled

LEMMA CacheField ==
    ASSUME NEW s, Sound(s), NEW a
    PROVE  /\ Sound(WithCache(s, a)) /\ WithCache(s, a).cache = a /\ WithCache(s, a).store = s.store
           /\ WithCache(s, a).puts = s.puts /\ WithCache(s, a).revs = s.revs
           /\ WithCache(s, a).spoiled = s.spoiled
BY DEF Sound, IsArea, WithCache

LEMMA PutFacts ==
    ASSUME NEW s, Sound(s), NEW new
    PROVE  Wrote(s, put(s, new), new)
<1>1. {loc \in DOMAIN new : s.bulk => loc[1] # "descriptor"} = DOMAIN new
  BY DEF Sound
<1>2. PICK a : a = [loc \in DOMAIN s.store \cup DOMAIN new |-> IF loc \in DOMAIN new THEN new[loc] ELSE s.store[loc]]
  OBVIOUS
<1>3. put(s, new) = WithStore(s, a)
  BY <1>1, <1>2 DEF put, WithStore
<1>4. Sound(put(s, new)) /\ put(s, new).store = a /\ Kept(s, put(s, new))
  BY <1>3, StoreField
<1>5. DOMAIN a = DOMAIN s.store \cup DOMAIN new
  BY <1>2
<1>6. \A loc \in DOMAIN new : a[loc] = new[loc]
  BY <1>2
<1>7. \A loc : loc \notin DOMAIN new => Same(s, put(s, new), loc)
  BY <1>2, <1>4 DEF Same
<1> QED
  BY <1>4, <1>5, <1>6, <1>7 DEF Wrote

LEMMA DelFacts ==
    ASSUME NEW s, Sound(s), NEW locs
    PROVE  Erased(s, del(s, locs), locs)
<1>1. PICK a : a = [loc \in DOMAIN s.store \ locs |-> s.store[loc]]
  OBVIOUS
<1>2. ~ s.bulk
  BY DEF Sound
<1>3. del(s, locs) = WithStore(s, a)
  BY <1>1, <1>2 DEF del, Restrict, WithStore
<1>4. Sound(del(s, locs)) /\ del(s, locs).store = a /\ Kept(s, del(s, locs))
  BY <1>3, StoreField
<1>5. DOMAIN a = DOMAIN s.store \ locs
  BY <1>1
<1>6. \A loc : loc \notin locs => Same(s, del(s, locs), loc)
  BY <1>1, <1>4 DEF Same
<1> QED
  BY <1>4, <1>5, <1>6 DEF Erased

-----------------------------------------------------------------------------
(* Locators, descriptors and the entries of a key *)

KeyTypes == {"string", "hash", "set", "deque", "lhash", "vhash", "lease"}

\* The tags of the entries that belong to a key.
Content == FieldTypes \cup {"string", "lhash", "lindex", "lease"}

Descriptor == [type : KeyTypes \cup {"none"}, size : Nat, start : Int, end : Int]

IsOwn(loc, k) == loc[1] \in Content \cup {"descriptor"} /\ loc[2] = k

LEMMA LocatorParts ==
    /\ \A k : Desc(k)[1] = "descriptor" /\ Desc(k)[2] = k
    /\ \A k : Str(k)[1] = "string" /\ Str(k)[2] = k
    /\ \A type, k, f : Fld(type, k, f)[1] = type /\ Fld(type, k, f)[2] = k /\ Fld(type, k, f)[3] = f
    /\ \A k, h, f : /\ LField(k, h, f)[1] = "lhash" /\ LField(k, h, f)[2] = k
                    /\ LField(k, h, f)[3] = h /\ LField(k, h, f)[4] = f
    /\ \A k, f : LIndex(k, f)[1] = "lindex" /\ LIndex(k, f)[2] = k /\ LIndex(k, f)[3] = f
    /\ \A k : Lease(k)[1] = "lease" /\ Lease(k)[2] = k
    /\ \A t, k : Event(t, k)[1] = "event" /\ Event(t, k)[2] = t /\ Event(t, k)[3] = k
    /\ Clock[1] = "clock"
    /\ \A name : Config(name)[1] = "config"
BY DEF Desc, Str, Fld, LField, LIndex, Lease, Event, Clock, Config

LEMMA ContentTags ==
    /\ \A type \in Content : type \notin {"descriptor", "event", "clock", "config"}
    /\ KeyTypes \subseteq Content /\ "lindex" \in Content /\ FieldTypes \subseteq KeyTypes
    /\ "none" \notin KeyTypes
BY DEF Content, FieldTypes, KeyTypes

Resized(op, n) == [op EXCEPT !.size = n]

LEMMA ResizedFacts ==
    ASSUME NEW op \in Descriptor, NEW n \in Nat
    PROVE  /\ Resized(op, n) \in Descriptor /\ Resized(op, n).size = n /\ Resized(op, n).type = op.type
           /\ Resized(op, n).start = op.start /\ Resized(op, n).end = op.end
BY DEF Resized, Descriptor

\* A descriptor of a key without entries goes, except that of a versioned hash.
Vanishes(op, n) == n = 0 /\ op.type # "vhash"

Finalized(s, s2, k, op, n, force) ==
    /\ Sound(s2) /\ s2.revs = s.revs /\ s2.spoiled = s.spoiled /\ s2.cache = s.cache
    /\ \A loc : loc # Desc(k) => Same(s, s2, loc)
    /\ \A key : key # k => (key \in s2.puts <=> key \in s.puts)
    /\ s2.puts \subseteq s.puts \cup {k}
    /\ Vanishes(op, n) => ~ Has(s2, Desc(k)) /\ k \notin s2.puts
    /\ ~ Vanishes(op, n) /\ (op.size # n \/ force) =>
          Has(s2, Desc(k)) /\ s2.store[Desc(k)] = Resized(op, n) /\ k \in s2.puts
    /\ ~ Vanishes(op, n) /\ ~ (op.size # n \/ force) => s2 = s

LEMMA FinalizeFacts ==
    ASSUME NEW s, Sound(s), NEW k, NEW op, NEW n \in Nat, NEW force \in BOOLEAN
    PROVE  Finalized(s, finalize(s, k, op, n, force), k, op, n, force)
<1>0. ~ n < 0
  OBVIOUS
<1>1. CASE Vanishes(op, n)
  <2>1. PICK d : d = del(s, {Desc(k)}) /\ Erased(s, d, {Desc(k)})
    BY DelFacts
  <2>2. finalize(s, k, op, n, force) = WithPuts(d, d.puts \ {k})
    BY <1>0, <1>1, <2>1 DEF finalize, Vanishes, WithPuts
  <2>3. PICK s2, ps : s2 = WithPuts(d, ps) /\ ps = d.puts \ {k}
    OBVIOUS
  <2>. Sound(d)
    BY <2>1 DEF Erased
  <2>4. /\ Sound(s2) /\ s2.puts = d.puts \ {k} /\ s2.store = d.store /\ s2.revs = d.revs /\ s2.spoiled = d.spoiled
        /\ s2.cache = d.cache
    BY <2>3, PutsField
  <2>5. \A loc : loc # Desc(k) => Same(s, s2, loc)
    BY <2>1, <2>4 DEF Erased, Same
  <2>6. ~ Has(s2, Desc(k))
    BY <2>1, <2>4 DEF Erased, Has
  <2>7. Kept(s, d)
    BY <2>1 DEF Erased
  <2>8. Finalized(s, s2, k, op, n, force)
    BY <1>1, <2>4, <2>5, <2>6, <2>7 DEF Finalized, Kept
  <2> QED BY <2>2, <2>3, <2>8
<1>2. CASE ~ Vanishes(op, n) /\ (op.size # n \/ force)
  <2>1. PICK d : d = put(s, One(Desc(k), Resized(op, n))) /\ Wrote(s, d, One(Desc(k), Resized(op, n)))
    BY PutFacts
  <2>2. finalize(s, k, op, n, force) = WithPuts(d, d.puts \cup {k})
    BY <1>0, <1>2, <2>1 DEF finalize, Vanishes, WithPuts, Resized
  <2>3. PICK s2, ps : s2 = WithPuts(d, ps) /\ ps = d.puts \cup {k}
    OBVIOUS
  <2>. Sound(d)
    BY <2>1 DEF Wrote
  <2>4. /\ Sound(s2) /\ s2.puts = d.puts \cup {k} /\ s2.store = d.store /\ s2.revs = d.revs
        /\ s2.spoiled = d.spoiled /\ s2.cache = d.cache
    BY <2>3, PutsField
  <2>5. DOMAIN One(Desc(k), Resized(op, n)) = {Desc(k)} /\ One(Desc(k), Resized(op, n))[Desc(k)] = Resized(op, n)
    BY DEF One
  <2>6. \A loc : loc # Desc(k) => Same(s, s2, loc)
    BY <2>1, <2>4, <2>5 DEF Wrote, Same
  <2>7. Has(s2, Desc(k)) /\ s2.store[Desc(k)] = Resized(op, n)
    BY <2>1, <2>4, <2>5 DEF Wrote, Has
  <2>8. Kept(s, d)
    BY <2>1 DEF Wrote
  <2>9. Finalized(s, s2, k, op, n, force)
    BY <1>2, <2>4, <2>6, <2>7, <2>8 DEF Finalized, Kept
  <2> QED BY <2>2, <2>3, <2>9
<1>3. CASE ~ Vanishes(op, n) /\ ~ (op.size # n \/ force)
  <2>1. finalize(s, k, op, n, force) = s
    BY <1>0, <1>3 DEF finalize, Vanishes
  <2>2. Finalized(s, s, k, op, n, force)
    BY <1>3 DEF Finalized, Same
  <2> QED BY <2>1, <2>2
<1> QED
  BY <1>1, <1>2, <1>3

LEMMA OneFacts ==
    ASSUME NEW loc, NEW v
    PROVE  DOMAIN One(loc, v) = {loc} /\ One(loc, v)[loc] = v
BY DEF One

-----------------------------------------------------------------------------
(* The invariant *)

\* The tags of the entries a key of a type has.
Owned(type) == IF type = "lhash" THEN {"lhash", "lindex"} ELSE {type}

Counted(s, type, k, n) == IsFiniteSet(Fields(s, type, k)) /\ Cardinality(Fields(s, type, k)) = n

HashOK(s, k) == \A loc \in Fields(s, "hash", k) : loc = Fld("hash", k, loc[3])

Items(k, a, b) == {Fld("deque", k, j) : j \in (a + 1)..(b - 1)}

DequeOK(s, k, info) ==
    Fields(s, "deque", k) = Items(k, info.start, info.end) /\ info.size = info.end - info.start - 1

\* Fields and indexes of a locality hash are one to one.
IndexOK(s, k, loc) == loc = LIndex(k, loc[3]) /\ Has(s, LField(k, s.store[loc], loc[3]))
PlaceOK(s, k, loc) ==
    /\ loc = LField(k, loc[3], loc[4])
    /\ Has(s, LIndex(k, loc[4])) /\ s.store[LIndex(k, loc[4])] = loc[3]
LocalOK(s, k) ==
    /\ \A loc \in Fields(s, "lindex", k) : IndexOK(s, k, loc)
    /\ \A loc \in Fields(s, "lhash", k) : PlaceOK(s, k, loc)

\* The entries of a key are those its descriptor tells.
EntriesOK(s, k, info) ==
    /\ \A type \in Content : type \notin Owned(info.type) => Fields(s, type, k) = {}
    /\ info.type \in FieldTypes => Counted(s, info.type, k, info.size)
    /\ info.type = "hash" => HashOK(s, k)
    /\ info.type = "deque" => DequeOK(s, k, info)
    /\ info.type = "lhash" => Counted(s, "lindex", k, info.size) /\ LocalOK(s, k)
    /\ info.type = "string" => Fields(s, "string", k) = {Str(k)} /\ info.size = 1
    /\ info.type = "lease" => Fields(s, "lease", k) = {Lease(k)} /\ info.size = 1

InfoOK(info, w) ==
    /\ info \in Descriptor /\ info.type \in w.types \cup {"none"}
    /\ info.type \notin {"none", "vhash"} => info.size # 0

KeyOK(s, k, w) ==
    /\ InfoOK(Info(s, k), w) /\ EntriesOK(s, k, Info(s, k))
    /\ Info(s, k).type = "none" => ~ Has(s, Desc(k))

\* The revision of a versioned hash that has been changed in this transaction.
RevOK(s, k) ==
    /\ k \in DOMAIN s.revs /\ k \notin s.spoiled => k \in s.puts /\ Info(s, k).type = "vhash"
    /\ k \in DOMAIN s.revs /\ Info(s, k).type = "vhash" => s.revs[k] = Info(s, k).start
    /\ Info(s, k).type = "none" => k \notin s.puts

IsLease(s, k) == Info(s, k).type = "lease"

TermOK(s, k, w) ==
    IsLease(s, k) => /\ Info(s, k).start <= Now(s) /\ Now(s) < Info(s, k).end
                     /\ Info(s, k).end <= w.clock + MaxDuration

Deadlines(s) == {<<Info(s, k).end, k>> : k \in {key \in Key : IsLease(s, key)}}

EventOf(s, loc) == \E k \in Key : IsLease(s, k) /\ loc = Event(Info(s, k).end, k)

EventsOK(s) ==
    /\ \A loc \in DOMAIN s.store : loc[1] = "event" => EventOf(s, loc)
    /\ \A k \in Key : IsLease(s, k) => Has(s, Event(Info(s, k).end, k))
    /\ s.cache = Deadlines(s)

ClockOK(s, w) == Has(s, Clock) /\ Now(s) \in Nat /\ Now(s) <= w.clock

RegistersOK(s) == s.puts \subseteq Key /\ s.spoiled \subseteq Key /\ DOMAIN s.revs \subseteq Key

Good(s, w) ==
    /\ Sound(s) /\ RegistersOK(s) /\ ClockOK(s, w) /\ EventsOK(s)
    /\ \A k \in Key : KeyOK(s, k, w) /\ RevOK(s, k) /\ TermOK(s, k, w)

-----------------------------------------------------------------------------
(* What a command leaves alone *)

\* Everything of key k is the same.
SameKey(s, s2, k) == \A loc : IsOwn(loc, k) => Same(s, s2, loc)

LEMMA SameTrans ==
    ASSUME NEW s, NEW s1, NEW s2, NEW loc, Same(s, s1, loc), Same(s1, s2, loc)
    PROVE  Same(s, s2, loc)
BY DEF Same

LEMMA SameInfo ==
    ASSUME NEW s, NEW s2, NEW k, Same(s, s2, Desc(k))
    PROVE  Info(s2, k) = Info(s, k) /\ (Has(s2, Desc(k)) <=> Has(s, Desc(k)))
BY DEF Info, Same, Has

LEMMA SameFields ==
    ASSUME NEW s, NEW s2, NEW k, NEW type, \A loc : loc[1] = type /\ loc[2] = k => Same(s, s2, loc)
    PROVE  Fields(s2, type, k) = Fields(s, type, k)
BY DEF Fields, Same

LEMMA OwnTag ==
    ASSUME NEW loc, NEW k, loc[1] \in Content, loc[2] = k
    PROVE  IsOwn(loc, k)
BY DEF IsOwn

LEMMA SameEntries ==
    ASSUME NEW s, NEW s2, NEW k, NEW info, EntriesOK(s, k, info),
           \A type \in Content : Fields(s2, type, k) = Fields(s, type, k),
           \A f : Same(s, s2, LIndex(k, f)) /\ \A h : Same(s, s2, LField(k, h, f))
    PROVE  EntriesOK(s2, k, info)
<1>1. /\ "lindex" \in Content /\ "lhash" \in Content /\ "string" \in Content /\ "lease" \in Content
      /\ "hash" \in Content /\ "deque" \in Content /\ FieldTypes \subseteq Content
  BY ContentTags DEF KeyTypes
<1>2. \A type \in Content : type \notin Owned(info.type) => Fields(s2, type, k) = {}
  BY DEF EntriesOK
<1>3. info.type \in FieldTypes => Counted(s2, info.type, k, info.size)
  BY <1>1 DEF EntriesOK, Counted
<1>4. info.type = "hash" => HashOK(s2, k)
  BY <1>1 DEF EntriesOK, HashOK
<1>5. info.type = "deque" => DequeOK(s2, k, info)
  BY <1>1 DEF EntriesOK, DequeOK
<1>6. ASSUME info.type = "lhash" PROVE Counted(s2, "lindex", k, info.size) /\ LocalOK(s2, k)
  <2>1. Counted(s, "lindex", k, info.size) /\ LocalOK(s, k)
    BY <1>6 DEF EntriesOK
  <2>2. Counted(s2, "lindex", k, info.size)
    BY <1>1, <2>1 DEF Counted
  <2>3. ASSUME NEW loc \in Fields(s2, "lindex", k) PROVE IndexOK(s2, k, loc)
    <3>1. IndexOK(s, k, loc)
      BY <1>1, <2>1 DEF LocalOK
    <3>2. loc \in DOMAIN s2.store
      BY DEF Fields
    <3>3. s2.store[loc] = s.store[loc]
      BY <3>1, <3>2 DEF IndexOK, Same
    <3> QED BY <3>1, <3>3 DEF IndexOK, Same, Has
  <2>4. ASSUME NEW loc \in Fields(s2, "lhash", k) PROVE PlaceOK(s2, k, loc)
    <3>1. PlaceOK(s, k, loc)
      BY <1>1, <2>1 DEF LocalOK
    <3> QED BY <3>1 DEF PlaceOK, Same, Has
  <2> QED BY <2>2, <2>3, <2>4 DEF LocalOK
<1>7. info.type = "string" => Fields(s2, "string", k) = {Str(k)} /\ info.size = 1
  BY <1>1 DEF EntriesOK
<1>8. info.type = "lease" => Fields(s2, "lease", k) = {Lease(k)} /\ info.size = 1
  BY <1>1 DEF EntriesOK
<1> QED
  BY <1>2, <1>3, <1>4, <1>5, <1>6, <1>7, <1>8 DEF EntriesOK

LEMMA SameKeyFacts ==
    ASSUME NEW s, NEW s2, NEW k, NEW w, SameKey(s, s2, k)
    PROVE  Info(s2, k) = Info(s, k) /\ (KeyOK(s, k, w) => KeyOK(s2, k, w))
<1>1. Same(s, s2, Desc(k))
  BY LocatorParts DEF SameKey, IsOwn
<1>2. Info(s2, k) = Info(s, k) /\ (Has(s2, Desc(k)) <=> Has(s, Desc(k)))
  BY <1>1, SameInfo
<1>3. ASSUME NEW type \in Content PROVE Fields(s2, type, k) = Fields(s, type, k)
  <2>1. \A loc : loc[1] = type /\ loc[2] = k => Same(s, s2, loc)
    BY OwnTag DEF SameKey
  <2> QED BY <2>1, SameFields
<1>4. ASSUME NEW f PROVE Same(s, s2, LIndex(k, f)) /\ \A h : Same(s, s2, LField(k, h, f))
  <2>1. IsOwn(LIndex(k, f), k) /\ \A h : IsOwn(LField(k, h, f), k)
    BY LocatorParts, ContentTags, OwnTag DEF KeyTypes
  <2> QED BY <2>1 DEF SameKey
<1>5. EntriesOK(s, k, Info(s, k)) => EntriesOK(s2, k, Info(s, k))
  BY <1>3, <1>4, SameEntries
<1> QED
  BY <1>2, <1>5 DEF KeyOK

SameRev(s, s2, k) ==
    /\ k \in s2.puts <=> k \in s.puts
    /\ k \in s2.spoiled <=> k \in s.spoiled
    /\ k \in DOMAIN s2.revs <=> k \in DOMAIN s.revs
    /\ k \in DOMAIN s.revs => s2.revs[k] = s.revs[k]

\* A command on key k, which is not a lease.
KeyStep(s, s2, k) ==
    /\ Sound(s2) /\ RegistersOK(s2) /\ s2.cache = s.cache
    /\ \A loc : ~ IsOwn(loc, k) => Same(s, s2, loc)
    /\ \A key : key # k => SameRev(s, s2, key)
    /\ ~ IsLease(s, k) /\ ~ IsLease(s2, k)

LEMMA SameDeadlines ==
    ASSUME NEW s, NEW s2,
           \A k \in Key : IsLease(s2, k) <=> IsLease(s, k),
           \A k \in Key : IsLease(s, k) => Info(s2, k) = Info(s, k)
    PROVE  Deadlines(s2) = Deadlines(s)
<1>1. ASSUME NEW e PROVE e \in Deadlines(s2) <=> e \in Deadlines(s)
  <2>1. e \in Deadlines(s2) <=> \E k \in Key : IsLease(s2, k) /\ e = <<Info(s2, k).end, k>>
    BY DEF Deadlines
  <2>2. e \in Deadlines(s) <=> \E k \in Key : IsLease(s, k) /\ e = <<Info(s, k).end, k>>
    BY DEF Deadlines
  <2> QED BY <2>1, <2>2
<1> QED
  BY <1>1

\* Nothing is the matter with the events as long as the leases stay.
LEMMA SameEvents ==
    ASSUME NEW s, NEW s2, EventsOK(s), s2.cache = s.cache,
           \A loc : loc[1] = "event" => Same(s, s2, loc),
           \A k \in Key : IsLease(s2, k) <=> IsLease(s, k),
           \A k \in Key : IsLease(s, k) => Info(s2, k) = Info(s, k)
    PROVE  EventsOK(s2)
<1>1. s2.cache = Deadlines(s2)
  BY SameDeadlines DEF EventsOK
<1>2. ASSUME NEW loc \in DOMAIN s2.store, loc[1] = "event" PROVE EventOf(s2, loc)
  <2>1. loc \in DOMAIN s.store
    BY <1>2 DEF Same
  <2>2. PICK k \in Key : IsLease(s, k) /\ loc = Event(Info(s, k).end, k)
    BY <1>2, <2>1 DEF EventsOK, EventOf
  <2>3. IsLease(s2, k) /\ loc = Event(Info(s2, k).end, k)
    BY <2>2
  <2> QED BY <2>3 DEF EventOf
<1>3. ASSUME NEW k \in Key, IsLease(s2, k) PROVE Has(s2, Event(Info(s2, k).end, k))
  <2>1. IsLease(s, k) /\ Info(s2, k) = Info(s, k)
    BY <1>3
  <2>2. Has(s, Event(Info(s, k).end, k))
    BY <2>1 DEF EventsOK
  <2>3. Same(s, s2, Event(Info(s, k).end, k))
    BY LocatorParts
  <2> QED BY <2>1, <2>2, <2>3 DEF Same, Has
<1> QED
  BY <1>1, <1>2, <1>3 DEF EventsOK

LEMMA SameTime ==
    ASSUME NEW s, NEW s2, NEW w, Same(s, s2, Clock), ClockOK(s, w)
    PROVE  ClockOK(s2, w) /\ Now(s2) = Now(s)
BY DEF ClockOK, Same, Has, Now

LEMMA OtherKey ==
    ASSUME NEW s, NEW s2, NEW k, NEW key, key # k, \A loc : ~ IsOwn(loc, k) => Same(s, s2, loc)
    PROVE  SameKey(s, s2, key)
<1>1. \A loc : IsOwn(loc, key) => ~ IsOwn(loc, k)
  BY DEF IsOwn
<1> QED
  BY <1>1 DEF SameKey

LEMMA SharedTags ==
    ASSUME NEW k, NEW loc, loc[1] \in {"event", "clock", "config"}
    PROVE  ~ IsOwn(loc, k)
BY ContentTags DEF IsOwn

LEMMA SameRevOK ==
    ASSUME NEW s, NEW s2, NEW k, RevOK(s, k), SameRev(s, s2, k), Info(s2, k) = Info(s, k)
    PROVE  RevOK(s2, k)
BY DEF RevOK, SameRev

LEMMA SameTerm ==
    ASSUME NEW s, NEW s2, NEW k, NEW w, TermOK(s, k, w), Now(s2) = Now(s), Info(s2, k) = Info(s, k)
    PROVE  TermOK(s2, k, w)
BY DEF TermOK, IsLease

LEMMA NoLeaseEntry ==
    ASSUME NEW s, NEW k, NEW w, KeyOK(s, k, w), ~ IsLease(s, k)
    PROVE  ~ Has(s, Lease(k))
<1>1. "lease" \in Content /\ "lease" \notin Owned(Info(s, k).type)
  BY DEF Content, Owned, IsLease
<1>2. Fields(s, "lease", k) = {}
  BY <1>1 DEF KeyOK, EntriesOK
<1> QED
  BY <1>2, LocatorParts DEF Fields, Has

\* Nothing has happened to key k, or it is no versioned hash.
Plainly(s, s2, k) ==
    \/ SameKey(s, s2, k) /\ SameRev(s, s2, k)
    \/ /\ Info(s, k).type # "vhash" /\ Info(s2, k).type # "vhash"
       /\ k \in s2.spoiled <=> k \in s.spoiled

\* A step that changes no versioned hash.
Passes(s, s2) == \A k \in Key : Plainly(s, s2, k)

\* A command that does not have to do with time, leases or versions.
Fine(s, s2, w) ==
    /\ Good(s2, w) /\ Now(s2) = Now(s)
    /\ \A k \in Key : Same(s, s2, Lease(k))
    /\ \A k \in Key : Plainly(s, s2, k)

LEMMA FineSame ==
    ASSUME NEW s, NEW w, Good(s, w)
    PROVE  Fine(s, s, w)
BY DEF Fine, Same, Plainly, SameKey, SameRev

LEMMA PlainlyTrans ==
    ASSUME NEW s, NEW s1, NEW s2, NEW k, Plainly(s, s1, k), Plainly(s1, s2, k)
    PROVE  Plainly(s, s2, k)
<1>2. CASE SameKey(s, s1, k) /\ SameRev(s, s1, k) /\ SameKey(s1, s2, k) /\ SameRev(s1, s2, k)
  <2>1. SameKey(s, s2, k)
    BY <1>2, SameTrans DEF SameKey
  <2>2. SameRev(s, s2, k)
    BY <1>2 DEF SameRev
  <2> QED BY <2>1, <2>2 DEF Plainly
<1>3. CASE SameKey(s, s1, k) /\ SameRev(s, s1, k) /\ ~ (SameKey(s1, s2, k) /\ SameRev(s1, s2, k))
  <2>1. Info(s1, k) = Info(s, k) /\ (k \in s1.spoiled <=> k \in s.spoiled)
    BY <1>3, SameKeyFacts DEF SameRev
  <2> QED BY <1>3, <2>1 DEF Plainly
<1>4. CASE ~ (SameKey(s, s1, k) /\ SameRev(s, s1, k)) /\ SameKey(s1, s2, k) /\ SameRev(s1, s2, k)
  <2>1. Info(s2, k) = Info(s1, k) /\ (k \in s2.spoiled <=> k \in s1.spoiled)
    BY <1>4, SameKeyFacts DEF SameRev
  <2> QED BY <1>4, <2>1 DEF Plainly
<1>5. CASE ~ (SameKey(s, s1, k) /\ SameRev(s, s1, k)) /\ ~ (SameKey(s1, s2, k) /\ SameRev(s1, s2, k))
  BY <1>5 DEF Plainly
<1> QED BY <1>2, <1>3, <1>4, <1>5

LEMMA FineTrans ==
    ASSUME NEW s, NEW s1, NEW s2, NEW w, Fine(s, s1, w), Fine(s1, s2, w)
    PROVE  Fine(s, s2, w)
<1>1. \A k \in Key : Same(s, s2, Lease(k))
  BY SameTrans DEF Fine
<1>2. \A k \in Key : Plainly(s, s2, k)
  BY PlainlyTrans DEF Fine
<1> QED
  BY <1>1, <1>2 DEF Fine

LEMMA KeyStepGood ==
    ASSUME NEW s, NEW s2, NEW k \in Key, NEW w, Good(s, w), KeyStep(s, s2, k), KeyOK(s2, k, w), RevOK(s2, k)
    PROVE  /\ Good(s2, w) /\ Now(s2) = Now(s)
           /\ \A key \in Key : Same(s, s2, Lease(key))
           /\ \A key \in Key : key # k => SameKey(s, s2, key) /\ SameRev(s, s2, key)
<1>1. /\ Sound(s2) /\ RegistersOK(s2) /\ s2.cache = s.cache
      /\ \A loc : ~ IsOwn(loc, k) => Same(s, s2, loc)
      /\ \A key : key # k => SameRev(s, s2, key)
      /\ ~ IsLease(s, k) /\ ~ IsLease(s2, k)
  BY DEF KeyStep
<1>2. \A key \in Key : key # k => SameKey(s, s2, key)
  BY <1>1, OtherKey
<1>3. \A key \in Key : key # k => Info(s2, key) = Info(s, key)
  BY <1>2, SameKeyFacts
<1>4. Same(s, s2, Clock)
  BY <1>1, LocatorParts, SharedTags
<1>5. ClockOK(s2, w) /\ Now(s2) = Now(s)
  BY <1>4, SameTime DEF Good
<1>6. \A loc : loc[1] = "event" => Same(s, s2, loc)
  BY <1>1, SharedTags
<1>7. \A key \in Key : IsLease(s2, key) <=> IsLease(s, key)
  BY <1>1, <1>3 DEF IsLease
<1>8. \A key \in Key : IsLease(s, key) => Info(s2, key) = Info(s, key)
  BY <1>1, <1>3
<1>9. EventsOK(s2)
  BY <1>1, <1>6, <1>7, <1>8, SameEvents DEF Good
<1>10. ASSUME NEW key \in Key PROVE KeyOK(s2, key, w) /\ RevOK(s2, key) /\ TermOK(s2, key, w)
  <2>1. CASE key = k
    BY <1>1, <2>1 DEF TermOK
  <2>2. CASE key # k
    <3>1. KeyOK(s, key, w) /\ RevOK(s, key) /\ TermOK(s, key, w)
      BY DEF Good
    <3>2. KeyOK(s2, key, w)
      BY <1>2, <2>2, <3>1, SameKeyFacts
    <3>3. RevOK(s2, key)
      BY <1>1, <1>3, <2>2, <3>1, SameRevOK
    <3>4. TermOK(s2, key, w)
      BY <1>3, <1>5, <2>2, <3>1, SameTerm
    <3> QED BY <3>2, <3>3, <3>4
  <2> QED BY <2>1, <2>2
<1>11. ASSUME NEW key \in Key PROVE Same(s, s2, Lease(key))
  <2>1. CASE key = k
    <3>1. ~ Has(s, Lease(k))
      BY <1>1, NoLeaseEntry DEF Good
    <3>2. ~ Has(s2, Lease(k))
      BY <1>1, NoLeaseEntry
    <3> QED BY <2>1, <3>1, <3>2 DEF Same, Has
  <2>2. CASE key # k
    <3>1. IsOwn(Lease(key), key)
      BY LocatorParts, ContentTags, OwnTag DEF KeyTypes
    <3> QED BY <1>2, <2>2, <3>1 DEF SameKey
  <2> QED BY <2>1, <2>2
<1>12. Good(s2, w)
  BY <1>1, <1>5, <1>9, <1>10 DEF Good
<1> QED
  BY <1>1, <1>2, <1>5, <1>11, <1>12

-----------------------------------------------------------------------------
(* An operation on one key *)

LEMMA NoKeyFacts ==
    NoKey \in Descriptor /\ NoKey.type = "none" /\ NoKey.size = 0 /\ NoKey.start = 0 /\ NoKey.end = 0
BY DEF NoKey, Descriptor

LEMMA OperationFacts ==
    ASSUME NEW s, NEW w, Good(s, w), NEW k \in Key, NEW type \in KeyTypes, valid(s, k, type)
    PROVE  /\ operation(s, k, type) \in Descriptor /\ operation(s, k, type).type = type
           /\ operation(s, k, type).size = Info(s, k).size
           /\ operation(s, k, type).start = Info(s, k).start
           /\ operation(s, k, type).end = Info(s, k).end
           /\ Info(s, k) \in Descriptor
           /\ Info(s, k).type \in {"none", type}
           /\ Info(s, k).type = "none" => Info(s, k) = NoKey
           /\ Info(s, k).type = type => operation(s, k, type) = Info(s, k) /\ type \in w.types
<1>1. KeyOK(s, k, w)
  BY DEF Good
<1>2. PICK info : info = Info(s, k) /\ info \in Descriptor /\ info.type \in w.types \cup {"none"}
  BY <1>1 DEF KeyOK, InfoOK
<1>3. info.type \in {"none", type}
  BY <1>2 DEF valid
<1>4. info.type = "none" => info = NoKey
  BY <1>1, <1>2 DEF KeyOK, Info
<1>5. operation(s, k, type) = [info EXCEPT !.type = type]
  BY <1>2 DEF operation
<1>6. /\ [info EXCEPT !.type = type] \in Descriptor /\ [info EXCEPT !.type = type].type = type
      /\ [info EXCEPT !.type = type].size = info.size /\ [info EXCEPT !.type = type].start = info.start
      /\ [info EXCEPT !.type = type].end = info.end
  BY <1>2 DEF Descriptor
<1>7. info.type = type => [info EXCEPT !.type = type] = info
  BY <1>2 DEF Descriptor
<1>8. info.type = type => type \in w.types
  BY <1>2, ContentTags
<1> QED
  BY <1>2, <1>3, <1>4, <1>5, <1>6, <1>7, <1>8

\* The descriptor after an operation; a key without one has NoKey.
Final(op, n) == IF Vanishes(op, n) THEN NoKey ELSE Resized(op, n)

LEMMA ResizedSame ==
    ASSUME NEW op \in Descriptor
    PROVE  Resized(op, op.size) = op
BY DEF Resized, Descriptor

\* An operation that has changed the entries of k alone and finalizes.
Working(s, s1, k) ==
    Sound(s1) /\ Same(s, s1, Desc(k)) /\ \A loc : ~ IsOwn(loc, k) => Same(s, s1, loc)

\* finalize writes the descriptor that belongs to op and n.
Fits(s, k, op, n, force, w) ==
    /\ op \in Descriptor /\ op.type \in KeyTypes \ {"lease"} /\ n \in Nat /\ force \in BOOLEAN
    /\ Info(s, k).type \in {"none", op.type}
    /\ ~ Vanishes(op, n) => op.type \in w.types
    /\ Vanishes(op, n) \/ op.size # n \/ force \/ op = Info(s, k)

LEMMA FinalInfo ==
    ASSUME NEW s, NEW s1, NEW k, NEW op, NEW n, NEW force, NEW w,
           Working(s, s1, k), Fits(s, k, op, n, force, w)
    PROVE  /\ Info(finalize(s1, k, op, n, force), k) = Final(op, n)
           /\ Final(op, n).type = "none" => ~ Has(finalize(s1, k, op, n, force), Desc(k))
           /\ InfoOK(Final(op, n), w) /\ Final(op, n).type \in {"none", op.type}
           /\ Finalized(s1, finalize(s1, k, op, n, force), k, op, n, force)
<1>1. PICK s2 : s2 = finalize(s1, k, op, n, force) /\ Finalized(s1, s2, k, op, n, force)
  BY FinalizeFacts DEF Working, Fits
<1>2. op \in Descriptor /\ op.type \in KeyTypes \ {"lease"} /\ n \in Nat /\ force \in BOOLEAN
  BY DEF Fits
<1>3. /\ Resized(op, n) \in Descriptor /\ Resized(op, n).size = n /\ Resized(op, n).type = op.type
  BY <1>2, ResizedFacts
<1>4. CASE Vanishes(op, n)
  <2>1. ~ Has(s2, Desc(k))
    BY <1>1, <1>4 DEF Finalized
  <2>2. Info(s2, k) = NoKey /\ Final(op, n) = NoKey
    BY <1>4, <2>1 DEF Info, Final
  <2>3. InfoOK(NoKey, w)
    BY NoKeyFacts DEF InfoOK
  <2> QED BY <1>1, <2>1, <2>2, <2>3, NoKeyFacts
<1>5. CASE ~ Vanishes(op, n)
  <2>1. Final(op, n) = Resized(op, n)
    BY <1>5 DEF Final
  <2>2. op.type # "none" /\ op.type \in w.types
    BY <1>2, <1>5, ContentTags DEF Fits
  <2>3. op.type # "vhash" => n # 0
    BY <1>5 DEF Vanishes
  <2>4. InfoOK(Resized(op, n), w)
    BY <1>3, <2>2, <2>3 DEF InfoOK
  <2>5. CASE op.size # n \/ force
    <3>1. Has(s2, Desc(k)) /\ s2.store[Desc(k)] = Resized(op, n)
      BY <1>1, <1>5, <2>5 DEF Finalized
    <3>2. Info(s2, k) = Resized(op, n)
      BY <3>1 DEF Info
    <3> QED BY <1>1, <1>3, <2>1, <2>2, <2>4, <3>2
  <2>6. CASE ~ (op.size # n \/ force)
    <3>1. s2 = s1
      BY <1>1, <1>5, <2>6 DEF Finalized
    <3>2. op = Info(s, k)
      BY <1>5, <2>6 DEF Fits
    <3>3. Info(s1, k) = Info(s, k)
      BY SameInfo DEF Working
    <3>4. Resized(op, n) = op
      BY <1>2, <2>6, ResizedSame
    <3> QED BY <1>1, <1>3, <2>1, <2>2, <2>4, <3>1, <3>2, <3>3, <3>4
  <2> QED BY <2>5, <2>6
<1> QED
  BY <1>4, <1>5

LEMMA Closing ==
    ASSUME NEW s, NEW s1, NEW k, NEW op, NEW n, NEW force, NEW w,
           Working(s, s1, k), Fits(s, k, op, n, force, w), EntriesOK(s1, k, Final(op, n))
    PROVE  /\ KeyOK(finalize(s1, k, op, n, force), k, w)
           /\ \A loc : ~ IsOwn(loc, k) => Same(s, finalize(s1, k, op, n, force), loc)
           /\ Info(finalize(s1, k, op, n, force), k) = Final(op, n)
           /\ ~ IsLease(s, k) /\ ~ IsLease(finalize(s1, k, op, n, force), k)
<1>1. PICK s2 : s2 = finalize(s1, k, op, n, force)
  OBVIOUS
<1>2. /\ Info(s2, k) = Final(op, n) /\ (Final(op, n).type = "none" => ~ Has(s2, Desc(k)))
      /\ InfoOK(Final(op, n), w) /\ Final(op, n).type \in {"none", op.type}
      /\ Finalized(s1, s2, k, op, n, force)
  BY <1>1, FinalInfo
<1>3. \A loc : loc # Desc(k) => Same(s1, s2, loc)
  BY <1>2 DEF Finalized
<1>4. \A type \in Content : Fields(s2, type, k) = Fields(s1, type, k)
  <2> SUFFICES ASSUME NEW type \in Content PROVE Fields(s2, type, k) = Fields(s1, type, k)
    OBVIOUS
  <2>1. \A loc : loc[1] = type /\ loc[2] = k => Same(s1, s2, loc)
    BY <1>3, LocatorParts, ContentTags
  <2> QED BY <2>1, SameFields
<1>5. \A f : Same(s1, s2, LIndex(k, f)) /\ \A h : Same(s1, s2, LField(k, h, f))
  <2>1. \A f : LIndex(k, f) # Desc(k) /\ \A h : LField(k, h, f) # Desc(k)
    BY LocatorParts
  <2> QED BY <1>3, <2>1
<1>6. EntriesOK(s2, k, Final(op, n))
  BY <1>4, <1>5, SameEntries
<1>7. KeyOK(s2, k, w)
  BY <1>2, <1>6 DEF KeyOK
<1>8. ASSUME NEW loc, ~ IsOwn(loc, k) PROVE Same(s, s2, loc)
  <2>1. loc # Desc(k)
    BY <1>8, LocatorParts DEF IsOwn
  <2>2. Same(s, s1, loc)
    BY <1>8 DEF Working
  <2> QED BY <1>3, <2>1, <2>2, SameTrans
<1>9. ~ IsLease(s, k) /\ ~ IsLease(s2, k)
  BY <1>2 DEF IsLease, Fits
<1> QED
  BY <1>1, <1>2, <1>7, <1>8, <1>9

LEMMA ClosingGood ==
    ASSUME NEW s, NEW s1, NEW k \in Key, NEW op, NEW n, NEW force, NEW w, Good(s, w),
           Working(s, s1, k), Kept(s, s1), Fits(s, k, op, n, force, w), op.type # "vhash",
           EntriesOK(s1, k, Final(op, n))
    PROVE  /\ Fine(s, finalize(s1, k, op, n, force), w)
           /\ \A loc : ~ IsOwn(loc, k) => Same(s, finalize(s1, k, op, n, force), loc)
<1>1. PICK s2 : s2 = finalize(s1, k, op, n, force)
  OBVIOUS
<1>2. /\ KeyOK(s2, k, w) /\ (\A loc : ~ IsOwn(loc, k) => Same(s, s2, loc))
      /\ ~ IsLease(s, k) /\ ~ IsLease(s2, k)
  BY <1>1, Closing
<1>3. Finalized(s1, s2, k, op, n, force)
  BY <1>1, FinalInfo
<1>4. Sound(s2) /\ s2.revs = s.revs /\ s2.spoiled = s.spoiled /\ s2.cache = s.cache
  BY <1>3 DEF Finalized, Kept
<1>5. (\A key : key # k => (key \in s2.puts <=> key \in s.puts)) /\ s2.puts \subseteq s.puts \cup {k}
  BY <1>3 DEF Finalized, Kept
<1>6. RegistersOK(s2)
  BY <1>4, <1>5 DEF Good, RegistersOK
<1>7. \A key : key # k => SameRev(s, s2, key)
  BY <1>4, <1>5 DEF SameRev
<1>8. KeyStep(s, s2, k)
  BY <1>2, <1>4, <1>6, <1>7 DEF KeyStep
<1>9. Info(s, k).type # "vhash" /\ RevOK(s, k)
  BY DEF Fits, Good
<1>a. Info(s2, k) = Final(op, n) /\ Final(op, n).type \in {"none", op.type}
  BY <1>1, FinalInfo
<1>b. Final(op, n).type = "none" => k \notin s2.puts
  <2>1. op \in Descriptor /\ op.type \in KeyTypes /\ n \in Nat
    BY DEF Fits
  <2>2. ~ Vanishes(op, n) => Final(op, n).type # "none"
    BY <2>1, ResizedFacts, ContentTags DEF Final
  <2> QED BY <1>3, <2>2 DEF Finalized
<1>10. Info(s2, k).type # "vhash" /\ RevOK(s2, k)
  BY <1>4, <1>9, <1>a, <1>b DEF RevOK
<1>11. /\ Good(s2, w) /\ Now(s2) = Now(s) /\ (\A key \in Key : Same(s, s2, Lease(key)))
       /\ \A key \in Key : key # k => SameKey(s, s2, key) /\ SameRev(s, s2, key)
  BY <1>2, <1>8, <1>10, KeyStepGood
<1>12. \A key \in Key : Plainly(s, s2, key)
  BY <1>4, <1>9, <1>10, <1>11 DEF Plainly
<1>13. Fine(s, s2, w)
  BY <1>11, <1>12 DEF Fine
<1> QED
  BY <1>1, <1>2, <1>13

-----------------------------------------------------------------------------
(* Hashes, sets and versioned hashes: the size counts the entries *)

LEMMA WrittenFields ==
    ASSUME NEW s, NEW s1, NEW new, NEW type, NEW k, Wrote(s, s1, new),
           \A loc \in DOMAIN new : loc[1] = type /\ loc[2] = k
    PROVE  /\ Fields(s1, type, k) = Fields(s, type, k) \cup DOMAIN new
           /\ \A other : other # type => Fields(s1, other, k) = Fields(s, other, k)
<1>1. DOMAIN s1.store = DOMAIN s.store \cup DOMAIN new
  BY DEF Wrote
<1> QED
  BY <1>1 DEF Fields

LEMMA ErasedFields ==
    ASSUME NEW s, NEW s1, NEW locs, NEW type, NEW k, Erased(s, s1, locs),
           \A loc \in locs : loc[1] = type /\ loc[2] = k
    PROVE  /\ Fields(s1, type, k) = Fields(s, type, k) \ locs
           /\ \A other : other # type => Fields(s1, other, k) = Fields(s, other, k)
<1>1. DOMAIN s1.store = DOMAIN s.store \ locs
  BY DEF Erased
<1> QED
  BY <1>1 DEF Fields

Tagged(locs, type, k) == \A loc \in locs : loc[1] = type /\ loc[2] = k

LEMMA ErasedTagged ==
    ASSUME NEW s, NEW s1, NEW locs, NEW type \in Content, NEW k, Erased(s, s1, locs), Tagged(locs, type, k)
    PROVE  /\ Fields(s1, type, k) = Fields(s, type, k) \ locs
           /\ \A other : other # type => Fields(s1, other, k) = Fields(s, other, k)
<1>1. DOMAIN s1.store = DOMAIN s.store \ locs
  BY DEF Erased
<1> QED
  BY <1>1 DEF Fields, Tagged

LEMMA WrittenTagged ==
    ASSUME NEW s, NEW s1, NEW new, NEW type \in Content, NEW k, Wrote(s, s1, new), Tagged(DOMAIN new, type, k)
    PROVE  /\ Fields(s1, type, k) = Fields(s, type, k) \cup DOMAIN new
           /\ \A other : other # type => Fields(s1, other, k) = Fields(s, other, k)
BY WrittenFields DEF Tagged

LEMMA WrittenWorks ==
    ASSUME NEW s, NEW s1, NEW new, NEW k, Wrote(s, s1, new),
           \A loc \in DOMAIN new : loc[1] \in Content /\ loc[2] = k
    PROVE  Working(s, s1, k)
<1>1. Desc(k) \notin DOMAIN new
  BY LocatorParts, ContentTags
<1>2. \A loc : ~ IsOwn(loc, k) => loc \notin DOMAIN new
  BY OwnTag
<1> QED
  BY <1>1, <1>2 DEF Working, Wrote

LEMMA ErasedWorks ==
    ASSUME NEW s, NEW s1, NEW locs, NEW k, Erased(s, s1, locs),
           \A loc \in locs : loc[1] \in Content /\ loc[2] = k
    PROVE  Working(s, s1, k)
<1>1. Desc(k) \notin locs
  BY LocatorParts, ContentTags
<1>2. \A loc : ~ IsOwn(loc, k) => loc \notin locs
  BY OwnTag
<1> QED
  BY <1>1, <1>2 DEF Working, Erased

PlainTypes == {"hash", "set", "vhash"}

LEMMA PlainEntries ==
    ASSUME NEW s, NEW k, NEW op \in Descriptor, op.type \in PlainTypes, NEW n \in Nat,
           \A type \in Content : type # op.type => Fields(s, type, k) = {},
           Counted(s, op.type, k, n), op.type = "hash" => HashOK(s, k)
    PROVE  EntriesOK(s, k, Final(op, n))
<1>1. CASE Vanishes(op, n)
  <2>1. Final(op, n).type = "none"
    BY <1>1, NoKeyFacts DEF Final
  <2>2. IsFiniteSet(Fields(s, op.type, k)) /\ Cardinality(Fields(s, op.type, k)) = 0
    BY <1>1 DEF Counted, Vanishes
  <2>3. Fields(s, op.type, k) = {}
    BY <2>2, FS_EmptySet
  <2>4. \A type \in Content : Fields(s, type, k) = {}
    BY <2>3
  <2> QED BY <2>1, <2>4 DEF EntriesOK, FieldTypes
<1>2. CASE ~ Vanishes(op, n)
  <2>1. Final(op, n).type = op.type /\ Final(op, n).size = n
    BY <1>2, ResizedFacts DEF Final
  <2>2. Owned(op.type) = {op.type}
    BY DEF Owned, PlainTypes
  <2> QED BY <2>1, <2>2 DEF EntriesOK, PlainTypes
<1> QED
  BY <1>1, <1>2

\* The entries of a key that an operation on a type may work on.
LEMMA PlainFacts ==
    ASSUME NEW s, NEW w, Good(s, w), NEW k \in Key, NEW T \in PlainTypes, valid(s, k, T)
    PROVE  /\ \A type \in Content : type # T => Fields(s, type, k) = {}
           /\ Counted(s, T, k, Info(s, k).size)
           /\ T = "hash" => HashOK(s, k)
<1>1. EntriesOK(s, k, Info(s, k))
  BY DEF Good, KeyOK
<1>2. T \in KeyTypes /\ T \in Content /\ T \in FieldTypes
  BY DEF PlainTypes, KeyTypes, Content, FieldTypes
<1>3. /\ Info(s, k).type \in {"none", T} /\ (Info(s, k).type = "none" => Info(s, k) = NoKey)
  BY <1>2, OperationFacts
<1>4. CASE Info(s, k).type = "none"
  <2>1. \A type \in Content : Fields(s, type, k) = {}
    BY <1>1, <1>4, ContentTags DEF EntriesOK, Owned, Content, FieldTypes
  <2>2. Counted(s, T, k, 0)
    BY <1>2, <2>1, FS_EmptySet DEF Counted
  <2>3. Info(s, k).size = 0
    BY <1>3, <1>4, NoKeyFacts
  <2>4. HashOK(s, k)
    BY <2>1 DEF HashOK, Content, FieldTypes
  <2> QED BY <2>1, <2>2, <2>3, <2>4
<1>5. CASE Info(s, k).type = T
  <2>1. Owned(T) = {T}
    BY DEF Owned, PlainTypes
  <2> QED BY <1>1, <1>2, <1>5, <2>1 DEF EntriesOK
<1> QED
  BY <1>3, <1>4, <1>5

LEMMA FieldSet ==
    ASSUME NEW type, NEW k, NEW fs, IsFiniteSet(fs)
    PROVE  /\ IsFiniteSet({Fld(type, k, f) : f \in fs})
           /\ \A loc \in {Fld(type, k, f) : f \in fs} : loc[1] = type /\ loc[2] = k /\ loc = Fld(type, k, loc[3])
<1>1. PICK T : T = {Fld(type, k, f) : f \in fs}
  OBVIOUS
<1>2. PICK g : g = [f \in fs |-> Fld(type, k, f)]
  OBVIOUS
<1>3. g \in [fs -> T] /\ \A loc \in T : \E f \in fs : g[f] = loc
  BY <1>1, <1>2
<1>4. g \in Surjection(fs, T)
  BY <1>3 DEF Surjection
<1>5. IsFiniteSet(T)
  BY <1>4, FS_Surjection
<1>6. ASSUME NEW loc \in T PROVE loc[1] = type /\ loc[2] = k /\ loc = Fld(type, k, loc[3])
  <2>1. PICK f \in fs : loc = Fld(type, k, f)
    BY <1>1
  <2> QED BY <2>1, LocatorParts
<1> QED
  BY <1>1, <1>5, <1>6

LEMMA CountNew ==
    ASSUME NEW F, NEW C, IsFiniteSet(F), IsFiniteSet(C), F \cap C = {}
    PROVE  /\ IsFiniteSet(F \cup C) /\ Cardinality(F \cup C) = Cardinality(F) + Cardinality(C)
           /\ Cardinality(F) \in Nat /\ Cardinality(C) \in Nat
<1>1. Cardinality(F) \in Nat /\ Cardinality(C) \in Nat
  BY FS_CardinalityType
<1>2. Cardinality(F \cap C) = 0
  BY FS_EmptySet
<1>3. IsFiniteSet(F \cup C) /\ Cardinality(F \cup C) = Cardinality(F) + Cardinality(C) - Cardinality(F \cap C)
  BY FS_Union
<1> QED
  BY <1>1, <1>2, <1>3

LEMMA CountLeft ==
    ASSUME NEW F, NEW R, IsFiniteSet(F), R \subseteq F
    PROVE  /\ IsFiniteSet(F \ R) /\ Cardinality(F \ R) = Cardinality(F) - Cardinality(R)
           /\ Cardinality(F) \in Nat /\ Cardinality(R) \in Nat /\ Cardinality(F) - Cardinality(R) \in Nat
<1>1. IsFiniteSet(R) /\ F \cap R = R
  BY FS_Subset
<1>2. IsFiniteSet(F \ R) /\ Cardinality(F \ R) = Cardinality(F) - Cardinality(R)
  BY <1>1, FS_Difference
<1>3. Cardinality(F) \in Nat /\ Cardinality(R) \in Nat /\ Cardinality(F \ R) \in Nat
  BY <1>1, <1>2, FS_CardinalityType
<1> QED
  BY <1>2, <1>3

\* Entries of a plain type are written: n of them are new.
LEMMA AddedEntries ==
    ASSUME NEW s, NEW s1, NEW w, Good(s, w), NEW k \in Key, NEW T \in PlainTypes, valid(s, k, T),
           NEW new, Wrote(s, s1, new), IsFiniteSet(DOMAIN new),
           \A loc \in DOMAIN new : loc[1] = T /\ loc[2] = k /\ loc = Fld(T, k, loc[3])
    PROVE  /\ \A type \in Content : type # T => Fields(s1, type, k) = {}
           /\ Cardinality({loc \in DOMAIN new : ~ Has(s, loc)}) \in Nat
           /\ Counted(s1, T, k, Info(s, k).size + Cardinality({loc \in DOMAIN new : ~ Has(s, loc)}))
           /\ T = "hash" => HashOK(s1, k)
           /\ Working(s, s1, k)
<1>1. PICK C : C = {loc \in DOMAIN new : ~ Has(s, loc)}
  OBVIOUS
<1>2. PICK F : F = Fields(s, T, k)
  OBVIOUS
<1>3. /\ (\A type \in Content : type # T => Fields(s, type, k) = {})
      /\ IsFiniteSet(F) /\ Cardinality(F) = Info(s, k).size
      /\ (T = "hash" => HashOK(s, k))
  BY <1>2, PlainFacts DEF Counted
<1>4. /\ Fields(s1, T, k) = F \cup DOMAIN new
      /\ \A other : other # T => Fields(s1, other, k) = Fields(s, other, k)
  BY <1>2, WrittenFields
<1>5. F \cup DOMAIN new = F \cup C /\ F \cap C = {} /\ C \subseteq DOMAIN new
  BY <1>1, <1>2 DEF Fields, Has
<1>6. IsFiniteSet(C)
  BY <1>5, FS_Subset
<1>7. /\ IsFiniteSet(F \cup C) /\ Cardinality(F \cup C) = Cardinality(F) + Cardinality(C)
      /\ Cardinality(C) \in Nat
  BY <1>3, <1>5, <1>6, CountNew
<1>8. Counted(s1, T, k, Info(s, k).size + Cardinality(C))
  BY <1>3, <1>4, <1>5, <1>7 DEF Counted
<1>9. T = "hash" => HashOK(s1, k)
  BY <1>2, <1>3, <1>4 DEF HashOK
<1>10. T \in Content
  BY DEF PlainTypes, Content, FieldTypes
<1>11. Working(s, s1, k)
  BY <1>10, WrittenWorks
<1> QED
  BY <1>1, <1>3, <1>4, <1>7, <1>8, <1>9, <1>11

LEMMA RemovedEntries ==
    ASSUME NEW s, NEW s1, NEW w, Good(s, w), NEW k \in Key, NEW T \in PlainTypes, valid(s, k, T),
           NEW locs, Erased(s, s1, locs),
           \A loc \in locs : loc[1] = T /\ loc[2] = k /\ Has(s, loc)
    PROVE  /\ \A type \in Content : type # T => Fields(s1, type, k) = {}
           /\ Cardinality(locs) \in Nat /\ Info(s, k).size - Cardinality(locs) \in Nat
           /\ Counted(s1, T, k, Info(s, k).size - Cardinality(locs))
           /\ T = "hash" => HashOK(s1, k)
           /\ Working(s, s1, k)
<1>2. PICK F : F = Fields(s, T, k)
  OBVIOUS
<1>3. /\ (\A type \in Content : type # T => Fields(s, type, k) = {})
      /\ IsFiniteSet(F) /\ Cardinality(F) = Info(s, k).size
      /\ (T = "hash" => HashOK(s, k))
  BY <1>2, PlainFacts DEF Counted
<1>4. /\ Fields(s1, T, k) = F \ locs
      /\ \A other : other # T => Fields(s1, other, k) = Fields(s, other, k)
  BY <1>2, ErasedFields
<1>5. locs \subseteq F
  BY <1>2 DEF Fields, Has
<1>7. /\ IsFiniteSet(F \ locs) /\ Cardinality(F \ locs) = Cardinality(F) - Cardinality(locs)
      /\ Cardinality(locs) \in Nat /\ Cardinality(F) - Cardinality(locs) \in Nat
  BY <1>3, <1>5, CountLeft
<1>8. Counted(s1, T, k, Info(s, k).size - Cardinality(locs))
  BY <1>3, <1>4, <1>7 DEF Counted
<1>9. T = "hash" => HashOK(s1, k)
  BY <1>2, <1>3, <1>4 DEF HashOK
<1>10. T \in Content
  BY DEF PlainTypes, Content, FieldTypes
<1>11. Working(s, s1, k)
  BY <1>10, ErasedWorks
<1> QED
  BY <1>3, <1>4, <1>7, <1>8, <1>9, <1>11

LEMMA WriteFieldsGood ==
    ASSUME NEW s, NEW w, Good(s, w), NEW k \in Key, NEW T \in {"hash", "set"}, T \in w.types, valid(s, k, T),
           NEW new, IsFiniteSet(DOMAIN new)
    PROVE  Fine(s, writeFields(s, k, T, new), w)
<1>1. PICK op : op = operation(s, k, T)
  OBVIOUS
<1>2. T \in PlainTypes /\ T \in KeyTypes \ {"lease"} /\ T # "vhash"
  BY DEF PlainTypes, KeyTypes
<1>3. /\ op \in Descriptor /\ op.type = T /\ op.size = Info(s, k).size /\ Info(s, k).type \in {"none", T}
      /\ Info(s, k).type = "none" => Info(s, k) = NoKey
      /\ Info(s, k).type = T => op = Info(s, k)
  BY <1>1, <1>2, OperationFacts
<1>4. PICK entries : entries = [loc \in {Fld(T, k, f) : f \in DOMAIN new} |-> new[loc[3]]]
  OBVIOUS
<1>5. DOMAIN entries = {Fld(T, k, f) : f \in DOMAIN new}
  BY <1>4
<1>6. /\ IsFiniteSet(DOMAIN entries)
      /\ \A loc \in DOMAIN entries : loc[1] = T /\ loc[2] = k /\ loc = Fld(T, k, loc[3])
  BY <1>5, FieldSet
<1>7. PICK s1 : s1 = put(s, entries) /\ Wrote(s, s1, entries)
  BY PutFacts DEF Good
<1>8. PICK c : c = Cardinality({loc \in DOMAIN entries : ~ Has(s, loc)})
  OBVIOUS
<1>9. /\ \A type \in Content : type # T => Fields(s1, type, k) = {}
      /\ c \in Nat /\ Counted(s1, T, k, Info(s, k).size + c)
      /\ T = "hash" => HashOK(s1, k)
      /\ Working(s, s1, k)
  <2>1. Wrote(s, s1, entries) /\ T \in PlainTypes
    BY <1>2, <1>7
  <2>2. /\ \A type \in Content : type # T => Fields(s1, type, k) = {}
        /\ Cardinality({loc \in DOMAIN entries : ~ Has(s, loc)}) \in Nat
        /\ Counted(s1, T, k, Info(s, k).size + Cardinality({loc \in DOMAIN entries : ~ Has(s, loc)}))
        /\ T = "hash" => HashOK(s1, k)
        /\ Working(s, s1, k)
    BY <1>6, <2>1, AddedEntries
  <2> QED BY <1>8, <2>2
<1>10. PICK n \in Nat : n = op.size + c
  BY <1>3, <1>9 DEF Descriptor
<1>11. EntriesOK(s1, k, Final(op, n))
  BY <1>2, <1>3, <1>9, <1>10, PlainEntries
<1>12. Vanishes(op, n) \/ op.size # n \/ op = Info(s, k)
  <2>1. ASSUME Info(s, k).type = "none" PROVE Vanishes(op, n) \/ op.size # n
    BY <1>2, <1>3, <2>1, NoKeyFacts DEF Vanishes
  <2> QED BY <1>3, <2>1
<1>13. Fits(s, k, op, n, FALSE, w)
  BY <1>2, <1>3, <1>10, <1>12 DEF Fits
<1>14. Kept(s, s1)
  BY <1>7 DEF Wrote
<1>15. Fine(s, finalize(s1, k, op, n, FALSE), w)
  BY <1>2, <1>3, <1>9, <1>11, <1>13, <1>14, ClosingGood
<1>16. writeFields(s, k, T, new) = finalize(s1, k, op, n, FALSE)
  BY <1>1, <1>4, <1>7, <1>8, <1>10 DEF writeFields
<1> QED
  BY <1>15, <1>16

LEMMA DeleteFieldsGood ==
    ASSUME NEW s, NEW w, Good(s, w), NEW k \in Key, NEW T \in {"hash", "set"}, valid(s, k, T), NEW fs
    PROVE  /\ Fine(s, deleteFields(s, k, T, fs), w)
           /\ \A loc : ~ IsOwn(loc, k) => Same(s, deleteFields(s, k, T, fs), loc)
<1>1. PICK op : op = operation(s, k, T)
  OBVIOUS
<1>2. T \in PlainTypes /\ T \in KeyTypes \ {"lease"} /\ T # "vhash"
  BY DEF PlainTypes, KeyTypes
<1>3. /\ op \in Descriptor /\ op.type = T /\ op.size = Info(s, k).size /\ Info(s, k).type \in {"none", T}
      /\ Info(s, k).type = "none" => Info(s, k) = NoKey
      /\ Info(s, k).type = T => op = Info(s, k) /\ T \in w.types
  BY <1>1, <1>2, OperationFacts
<1>4. PICK removed : removed = {loc \in {Fld(T, k, f) : f \in fs} : Has(s, loc)}
  OBVIOUS
<1>5. \A loc \in removed : loc[1] = T /\ loc[2] = k /\ Has(s, loc)
  BY <1>4, LocatorParts
<1>6. PICK s1 : s1 = del(s, removed) /\ Erased(s, s1, removed)
  BY DelFacts DEF Good
<1>7. PICK c : c = Cardinality(removed)
  OBVIOUS
<1>9. /\ \A type \in Content : type # T => Fields(s1, type, k) = {}
      /\ c \in Nat /\ Info(s, k).size - c \in Nat /\ Counted(s1, T, k, Info(s, k).size - c)
      /\ T = "hash" => HashOK(s1, k)
      /\ Working(s, s1, k)
  BY <1>2, <1>5, <1>6, <1>7, RemovedEntries
<1>10. PICK n \in Nat : n = op.size - c
  BY <1>3, <1>9
<1>11. EntriesOK(s1, k, Final(op, n))
  BY <1>2, <1>3, <1>9, <1>10, PlainEntries
<1>12. Info(s, k).type = "none" => Vanishes(op, n)
  <2>1. ASSUME Info(s, k).type = "none" PROVE op.size = 0
    BY <1>3, <2>1, NoKeyFacts
  <2>2. op.size = 0 => n = 0
    BY <1>9, <1>10
  <2> QED BY <1>2, <1>3, <2>1, <2>2 DEF Vanishes
<1>13. Fits(s, k, op, n, FALSE, w)
  BY <1>2, <1>3, <1>10, <1>12 DEF Fits
<1>14. Kept(s, s1)
  BY <1>6 DEF Erased
<1>15. /\ Fine(s, finalize(s1, k, op, n, FALSE), w)
       /\ \A loc : ~ IsOwn(loc, k) => Same(s, finalize(s1, k, op, n, FALSE), loc)
  BY <1>2, <1>3, <1>9, <1>11, <1>13, <1>14, ClosingGood
<1>16. deleteFields(s, k, T, fs) = finalize(s1, k, op, n, FALSE)
  BY <1>1, <1>4, <1>6, <1>7, <1>10 DEF deleteFields
<1> QED
  BY <1>15, <1>16

LEMMA HmsetGood ==
    ASSUME NEW s, NEW w, Good(s, w), NEW k \in Key, "hash" \in w.types, NEW new, IsFiniteSet(DOMAIN new)
    PROVE  Fine(s, hmset(s, k, new), w)
BY WriteFieldsGood, FineSame DEF hmset, Guarded

LEMMA HsetnxGood ==
    ASSUME NEW s, NEW w, Good(s, w), NEW k \in Key, "hash" \in w.types, NEW f, NEW v
    PROVE  Fine(s, hsetnx(s, k, f, v), w) /\ Fine(s, hincrby(s, k, f), w)
<1>0. IsFiniteSet({f}) /\ \A x : DOMAIN One(f, x) = {f}
  BY OneFacts, FS_Singleton
<1>1. \A x : IsFiniteSet(DOMAIN One(f, x))
  BY <1>0
<1>2. \A x : Fine(s, hmset(s, k, One(f, x)), w)
  BY <1>1, HmsetGood
<1> QED
  BY <1>2, FineSame DEF hsetnx, hincrby

LEMMA HdelGood ==
    ASSUME NEW s, NEW w, Good(s, w), NEW k \in Key, NEW fs
    PROVE  Fine(s, hdel(s, k, fs), w)
BY DeleteFieldsGood, FineSame DEF hdel, Guarded

LEMMA SaddGood ==
    ASSUME NEW s, NEW w, Good(s, w), NEW k \in Key, "set" \in w.types, NEW fs, IsFiniteSet(fs)
    PROVE  Fine(s, sadd(s, k, fs), w) /\ Fine(s, srem(s, k, fs), w)
<1>0. PICK new : new = [f \in fs |-> "1"]
  OBVIOUS
<1>1. new = [f \in fs |-> "1"] /\ DOMAIN new = fs
  BY <1>0
<1>2. sadd(s, k, fs) = Guarded(s, k, "set", writeFields(s, k, "set", new))
  BY <1>1 DEF sadd
<1> QED
  BY <1>1, <1>2, FineSame, WriteFieldsGood, DeleteFieldsGood DEF srem, Guarded

-----------------------------------------------------------------------------
(* Strings, smove and hclone *)

LEMMA OneToOne ==
    ASSUME NEW S, NEW T, IsFiniteSet(S), NEW g \in [S -> T],
           \A a, b \in S : g[a] = g[b] => a = b,
           \A t \in T : \E a \in S : g[a] = t
    PROVE  IsFiniteSet(T) /\ Cardinality(T) = Cardinality(S)
<1>1. g \in Injection(S, T)
  BY DEF Injection, IsInjective
<1>2. g \in Surjection(S, T)
  BY DEF Surjection
<1>3. ExistsBijection(S, T)
  BY <1>1, <1>2 DEF ExistsBijection, Bijection
<1> QED
  BY <1>3, FS_Bijection

LEMMA OwnedFacts ==
    ASSUME NEW s, NEW w, Good(s, w), NEW k \in Key, NEW T \in KeyTypes, valid(s, k, T)
    PROVE  /\ \A type \in Content : type \notin Owned(T) => Fields(s, type, k) = {}
           /\ Info(s, k).type = "none" => \A type \in Content : Fields(s, type, k) = {}
           /\ EntriesOK(s, k, Info(s, k))
<1>1. EntriesOK(s, k, Info(s, k))
  BY DEF Good, KeyOK
<1>2. Info(s, k).type \in {"none", T}
  BY OperationFacts
<1>3. Info(s, k).type = "none" => \A type \in Content : Fields(s, type, k) = {}
  BY <1>1 DEF EntriesOK, Owned, Content, FieldTypes
<1> QED
  BY <1>1, <1>2, <1>3 DEF EntriesOK

LEMMA SetGood ==
    ASSUME NEW s, NEW w, Good(s, w), NEW k \in Key, "string" \in w.types
    PROVE  Fine(s, set(s, k, 1), w)
<1>0. CASE ~ valid(s, k, "string")
  BY <1>0, FineSame DEF set, Guarded
<1>a. CASE valid(s, k, "string")
  <2>1. PICK op : op = operation(s, k, "string")
    OBVIOUS
  <2>2. "string" \in KeyTypes \ {"lease"} /\ "string" \in Content /\ Owned("string") = {"string"}
    BY DEF KeyTypes, Content, Owned
  <2>3. /\ op \in Descriptor /\ op.type = "string" /\ op.size = Info(s, k).size
        /\ Info(s, k).type \in {"none", "string"}
        /\ Info(s, k).type = "none" => Info(s, k) = NoKey
        /\ Info(s, k).type = "string" => op = Info(s, k)
    BY <1>a, <2>1, <2>2, OperationFacts
  <2>4. PICK new : new = One(Str(k), "text") /\ DOMAIN new = {Str(k)}
    BY OneFacts
  <2>5. PICK s1 : s1 = put(s, new) /\ Wrote(s, s1, new)
    BY PutFacts DEF Good
  <2>6. \A loc \in DOMAIN new : loc[1] = "string" /\ loc[2] = k
    BY <2>4, LocatorParts
  <2>7. Working(s, s1, k) /\ Kept(s, s1)
    BY <2>2, <2>5, <2>6, WrittenWorks DEF Wrote
  <2>8. /\ Fields(s1, "string", k) = Fields(s, "string", k) \cup DOMAIN new
        /\ \A other : other # "string" => Fields(s1, other, k) = Fields(s, other, k)
    <3>1. PICK T : T = "string"
      OBVIOUS
    <3>2. \A loc \in DOMAIN new : loc[1] = T /\ loc[2] = k
      BY <2>6, <3>1
    <3>3. /\ Fields(s1, T, k) = Fields(s, T, k) \cup DOMAIN new
          /\ \A other : other # T => Fields(s1, other, k) = Fields(s, other, k)
      BY <2>5, <3>2, WrittenFields
    <3> QED BY <3>1, <3>3
  <2>9. /\ \A type \in Content : type # "string" => Fields(s, type, k) = {}
        /\ Fields(s, "string", k) \subseteq {Str(k)}
    BY <1>a, <2>2, <2>3, OwnedFacts DEF EntriesOK
  <2>10. Fields(s1, "string", k) = {Str(k)} /\ \A type \in Content : type # "string" => Fields(s1, type, k) = {}
    BY <2>4, <2>8, <2>9
  <2>11. ~ Vanishes(op, 1)
    BY DEF Vanishes
  <2>12. Final(op, 1).type = "string" /\ Final(op, 1).size = 1
    BY <2>3, <2>11, ResizedFacts DEF Final
  <2>13. EntriesOK(s1, k, Final(op, 1))
    BY <2>2, <2>10, <2>12 DEF EntriesOK, FieldTypes
  <2>14. Info(s, k).type = "none" => op.size # 1
    BY <2>3, NoKeyFacts
  <2>15. Fits(s, k, op, 1, FALSE, w)
    BY <2>2, <2>3, <2>14 DEF Fits
  <2>16. Fine(s, finalize(s1, k, op, 1, FALSE), w)
    BY <2>3, <2>7, <2>13, <2>15, ClosingGood
  <2>17. set(s, k, 1) = finalize(s1, k, op, 1, FALSE)
    BY <1>a, <2>1, <2>4, <2>5 DEF set, Guarded
  <2> QED BY <2>16, <2>17
<1> QED
  BY <1>0, <1>a

LEMMA SmoveGood ==
    ASSUME NEW s, NEW w, Good(s, w), NEW source \in Key, NEW destination \in Key, source # destination,
           "set" \in w.types, NEW f
    PROVE  Fine(s, smove(s, source, destination, f), w)
<1>0. CASE ~ valid(s, source, "set") \/ ~ valid(s, destination, "set") \/ ~ Has(s, Fld("set", source, f))
  BY <1>0, FineSame DEF smove
<1>a. CASE valid(s, source, "set") /\ valid(s, destination, "set") /\ Has(s, Fld("set", source, f))
  <2>1. PICK op1, op2 : op1 = operation(s, source, "set") /\ op2 = operation(s, destination, "set")
    OBVIOUS
  <2>2. "set" \in KeyTypes \ {"lease"} /\ "set" \in PlainTypes
    BY DEF KeyTypes, PlainTypes
  <2>3. PICK taken : taken = finalize(del(s, {Fld("set", source, f)}), source, op1, op1.size - 1, FALSE)
    OBVIOUS
  <2>4. taken = deleteFields(s, source, "set", {f})
    <3>1. {loc \in {Fld("set", source, g) : g \in {f}} : Has(s, loc)} = {Fld("set", source, f)}
      BY <1>a
    <3>2. Cardinality({Fld("set", source, f)}) = 1
      BY FS_Singleton
    <3> QED BY <2>1, <2>3, <3>1, <3>2 DEF deleteFields
  <2>5. Fine(s, taken, w) /\ Good(taken, w) /\ \A loc : ~ IsOwn(loc, source) => Same(s, taken, loc)
    BY <1>a, <2>4, DeleteFieldsGood DEF Fine
  <2>6. Info(taken, destination) = Info(s, destination)
    BY <2>5, OtherKey, SameKeyFacts
  <2>7. op2 = operation(taken, destination, "set") /\ valid(taken, destination, "set")
    BY <1>a, <2>1, <2>6 DEF operation, valid
  <2>8. CASE Has(taken, Fld("set", destination, f))
    <3>1. smove(s, source, destination, f) = finalize(taken, destination, op2, op2.size, FALSE)
      BY <1>a, <2>1, <2>3, <2>8 DEF smove
    <3>2. /\ op2 \in Descriptor /\ op2.type = "set" /\ op2.size = Info(taken, destination).size
          /\ Info(taken, destination).type \in {"none", "set"}
          /\ Info(taken, destination).type = "none" => Info(taken, destination) = NoKey
          /\ Info(taken, destination).type = "set" => op2 = Info(taken, destination)
      BY <2>2, <2>5, <2>7, OperationFacts
    <3>3. op2.size \in Nat
      BY <3>2 DEF Descriptor
    <3>4. EntriesOK(taken, destination, Final(op2, op2.size))
      BY <2>2, <2>5, <2>7, <3>2, <3>3, PlainFacts, PlainEntries
    <3>5. Info(taken, destination).type = "none" => Vanishes(op2, op2.size)
      BY <3>2, NoKeyFacts DEF Vanishes
    <3>6. Fits(taken, destination, op2, op2.size, FALSE, w)
      BY <2>2, <3>2, <3>3, <3>5 DEF Fits
    <3>7. Working(taken, taken, destination) /\ Kept(taken, taken)
      BY <2>5 DEF Working, Kept, Same, Good
    <3>8. Fine(taken, finalize(taken, destination, op2, op2.size, FALSE), w)
      BY <2>5, <3>2, <3>4, <3>6, <3>7, ClosingGood
    <3> QED BY <2>5, <3>1, <3>8, FineTrans
  <2>9. CASE ~ Has(taken, Fld("set", destination, f))
    <3>1. smove(s, source, destination, f)
             = finalize(put(taken, One(Fld("set", destination, f), "1")), destination, op2, op2.size + 1, FALSE)
      BY <1>a, <2>1, <2>3, <2>9 DEF smove
    <3>2. [loc \in {Fld("set", destination, g) : g \in DOMAIN One(f, "1")} |-> One(f, "1")[loc[3]]]
             = One(Fld("set", destination, f), "1")
      <4>a. DOMAIN One(f, "1") = {f} /\ One(f, "1")[f] = "1"
        BY OneFacts
      <4>b. Fld("set", destination, f)[3] = f
        BY LocatorParts
      <4>1. {Fld("set", destination, g) : g \in DOMAIN One(f, "1")} = {Fld("set", destination, f)}
        BY <4>a
      <4>2. One(f, "1")[Fld("set", destination, f)[3]] = "1"
        BY <4>a, <4>b
      <4> QED BY <4>1, <4>2 DEF One
    <3>3. {loc \in DOMAIN One(Fld("set", destination, f), "1") : ~ Has(taken, loc)} = {Fld("set", destination, f)}
      BY <2>9, OneFacts
    <3>4. Cardinality({Fld("set", destination, f)}) = 1
      BY FS_Singleton
    <3>5. writeFields(taken, destination, "set", One(f, "1"))
             = finalize(put(taken, One(Fld("set", destination, f), "1")), destination, op2, op2.size + 1, FALSE)
      BY <2>7, <3>2, <3>3, <3>4 DEF writeFields
    <3>6. IsFiniteSet(DOMAIN One(f, "1"))
      <4>1. IsFiniteSet({f}) /\ DOMAIN One(f, "1") = {f}
        BY OneFacts, FS_Singleton
      <4> QED BY <4>1
    <3>7. Fine(taken, writeFields(taken, destination, "set", One(f, "1")), w)
      BY <2>5, <2>7, <3>6, WriteFieldsGood
    <3> QED BY <2>5, <3>1, <3>5, <3>7, FineTrans
  <2> QED BY <2>8, <2>9
<1> QED
  BY <1>0, <1>a

LEMMA HcloneGood ==
    ASSUME NEW s, NEW w, Good(s, w), NEW source \in Key, NEW target \in Key, "hash" \in w.types
    PROVE  Fine(s, hclone(s, source, target), w)
<1>0. CASE keyExists(s, target) \/ Info(s, source).type # "hash"
  BY <1>0, FineSame DEF hclone
<1>a. CASE Info(s, target).type = "none" /\ Info(s, source).type = "hash"
  <2>1. PICK from : from = Fields(s, "hash", source)
    OBVIOUS
  <2>2. PICK locs : locs = {Fld("hash", target, l[3]) : l \in from}
    OBVIOUS
  <2>3. PICK copy : copy = [loc \in locs |-> s.store[Fld("hash", source, loc[3])]]
    OBVIOUS
  <2>4. "hash" \in PlainTypes /\ "hash" \in KeyTypes \ {"lease"} /\ "hash" # "vhash"
    BY DEF PlainTypes, KeyTypes
  <2>5. valid(s, source, "hash") /\ valid(s, target, "hash")
    BY <1>a DEF valid
  <2>6. IsFiniteSet(from) /\ Cardinality(from) = Info(s, source).size /\ HashOK(s, source)
    BY <2>1, <2>4, <2>5, PlainFacts DEF Counted
  <2>7. PICK g : g = [l \in from |-> Fld("hash", target, l[3])]
    OBVIOUS
  <2>8. g \in [from -> locs] /\ \A t \in locs : \E a \in from : g[a] = t
    BY <2>2, <2>7
  <2>9. ASSUME NEW a \in from, NEW b \in from, g[a] = g[b] PROVE a = b
    <3>1. Fld("hash", target, a[3]) = Fld("hash", target, b[3])
      BY <2>7, <2>9
    <3>2. a[3] = b[3]
      BY <3>1, LocatorParts
    <3>3. a = Fld("hash", source, a[3]) /\ b = Fld("hash", source, b[3])
      BY <2>1, <2>6 DEF HashOK
    <3> QED BY <3>2, <3>3
  <2>10. IsFiniteSet(locs) /\ Cardinality(locs) = Cardinality(from)
    BY <2>6, <2>8, <2>9, OneToOne
  <2>11. DOMAIN copy = locs
    BY <2>3
  <2>12. \A loc \in locs : loc[1] = "hash" /\ loc[2] = target /\ loc = Fld("hash", target, loc[3])
    BY <2>2, LocatorParts
  <2>13. PICK s1 : s1 = put(s, copy) /\ Wrote(s, s1, copy)
    BY PutFacts DEF Good
  <2>14. /\ \A type \in Content : type # "hash" => Fields(s1, type, target) = {}
         /\ Counted(s1, "hash", target, Info(s, target).size + Cardinality({loc \in DOMAIN copy : ~ Has(s, loc)}))
         /\ HashOK(s1, target) /\ Working(s, s1, target)
    BY <2>4, <2>5, <2>10, <2>11, <2>12, <2>13, AddedEntries
  <2>15. PICK op : op = operation(s, target, "hash")
    OBVIOUS
  <2>16. /\ op \in Descriptor /\ op.type = "hash" /\ op.size = Info(s, target).size
         /\ Info(s, target) = NoKey
    BY <1>a, <2>4, <2>5, <2>15, OperationFacts
  <2>17. {loc \in DOMAIN copy : ~ Has(s, loc)} = locs
    <3>1. Fields(s, "hash", target) = {}
      BY <1>a, <2>4, <2>5, OwnedFacts DEF Content, FieldTypes
    <3>2. \A loc \in locs : ~ Has(s, loc)
      BY <2>12, <3>1 DEF Fields, Has
    <3> QED BY <2>11, <3>2
  <2>18. PICK n \in Nat : n = Cardinality(from)
    BY <2>6, FS_CardinalityType
  <2>19. Info(s, target).size = 0 /\ op.size = 0
    BY <2>16, NoKeyFacts
  <2>20. Counted(s1, "hash", target, n)
    <3>1. Counted(s1, "hash", target, Info(s, target).size + n)
      BY <2>10, <2>14, <2>17, <2>18
    <3>2. Info(s, target).size + n = n
      BY <2>18, <2>19
    <3> QED BY <3>1, <3>2
  <2>21. EntriesOK(s1, target, Final(op, n))
    BY <2>4, <2>14, <2>16, <2>20, PlainEntries
  <2>22. Fits(s, target, op, n, FALSE, w)
    BY <1>a, <2>4, <2>16, <2>18, <2>19 DEF Fits, Vanishes
  <2>23. Fine(s, finalize(s1, target, op, n, FALSE), w)
    BY <2>4, <2>13, <2>14, <2>16, <2>21, <2>22, ClosingGood DEF Wrote
  <2>24. hclone(s, source, target) = finalize(s1, target, op, n, FALSE)
    BY <1>a, <2>1, <2>2, <2>3, <2>6, <2>13, <2>15, <2>18 DEF hclone, keyExists
  <2> QED BY <2>23, <2>24
<1> QED
  BY <1>0, <1>a DEF keyExists

-----------------------------------------------------------------------------
(* Deques *)

LEMMA ItemIn ==
    ASSUME NEW k, NEW a, NEW b
    PROVE  /\ \A j : Fld("deque", k, j) \in Items(k, a, b) <=> j \in (a + 1)..(b - 1)
           /\ \A loc \in Items(k, a, b) : loc = Fld("deque", k, loc[3]) /\ loc[3] \in (a + 1)..(b - 1)
           /\ \A loc \in Items(k, a, b) : loc[1] = "deque" /\ loc[2] = k
<1>1. \A loc : loc \in Items(k, a, b) <=> \E j \in (a + 1)..(b - 1) : loc = Fld("deque", k, j)
  BY DEF Items
<1> QED
  BY <1>1, LocatorParts

LEMMA ItemsCount ==
    ASSUME NEW k, NEW a \in Int, NEW b \in Int, b - a - 1 \in Nat
    PROVE  IsFiniteSet(Items(k, a, b)) /\ Cardinality(Items(k, a, b)) = b - a - 1
<1>1. PICK S : S = (a + 1)..(b - 1)
  OBVIOUS
<1>2. PICK x \in Int, y \in Int : x = a + 1 /\ y = b - 1 /\ S = x..y
  BY <1>1
<1>3. IsFiniteSet(S) /\ Cardinality(S) = IF x > y THEN 0 ELSE y - x + 1
  BY <1>2, FS_Interval
<1>4. (IF x > y THEN 0 ELSE y - x + 1) = b - a - 1
  BY <1>2
<1>5. PICK g : g = [j \in S |-> Fld("deque", k, j)]
  OBVIOUS
<1>6. g \in [S -> Items(k, a, b)] /\ \A t \in Items(k, a, b) : \E j \in S : g[j] = t
  BY <1>1, <1>5 DEF Items
<1>7. \A i, j \in S : g[i] = g[j] => i = j
  BY <1>5, LocatorParts
<1> QED
  BY <1>3, <1>4, <1>6, <1>7, OneToOne

LEMMA ItemsSplit ==
    ASSUME NEW k, NEW a \in Int, NEW b \in Int, NEW c \in Int, a < b, b <= c
    PROVE  /\ Items(k, a, b) \cup Items(k, b - 1, c) = Items(k, a, c)
           /\ Items(k, a, c) \ Items(k, a, b) = Items(k, b - 1, c)
           /\ Items(k, a, c) \ Items(k, b - 1, c) = Items(k, a, b)
<1>1. \A j : j \in (a + 1)..(c - 1) <=> j \in (a + 1)..(b - 1) \/ j \in (b - 1 + 1)..(c - 1)
  OBVIOUS
<1>2. \A j : ~ (j \in (a + 1)..(b - 1) /\ j \in (b - 1 + 1)..(c - 1))
  OBVIOUS
<1>3. \A loc : loc \in Items(k, a, c) <=> loc \in Items(k, a, b) \/ loc \in Items(k, b - 1, c)
  BY <1>1, ItemIn
<1>4. \A loc : ~ (loc \in Items(k, a, b) /\ loc \in Items(k, b - 1, c))
  BY <1>2, ItemIn
<1> QED
  BY <1>3, <1>4

Splits(k, a, b, c, m) ==
    /\ Items(k, a, b) \cup Items(k, m, c) = Items(k, a, c)
    /\ Items(k, a, c) \ Items(k, a, b) = Items(k, m, c)
    /\ Items(k, a, c) \ Items(k, m, c) = Items(k, a, b)

LEMMA ItemsSplitAt ==
    ASSUME NEW k, NEW a \in Int, NEW b \in Int, NEW c \in Int, NEW m \in Int, m = b - 1, a < b, b <= c
    PROVE  Splits(k, a, b, c, m)
BY ItemsSplit DEF Splits

LEMMA OneItem ==
    ASSUME NEW k, NEW v \in Int
    PROVE  Items(k, v - 1, v + 1) = {Fld("deque", k, v)}
<1>1. \A j : j \in (v - 1 + 1)..(v + 1 - 1) <=> j = v
  OBVIOUS
<1> QED
  BY <1>1, ItemIn

LEMMA DequeEntries ==
    ASSUME NEW s, NEW k, NEW op \in Descriptor, op.type = "deque", NEW n \in Nat, n = op.end - op.start - 1,
           \A type \in Content : type # "deque" => Fields(s, type, k) = {},
           Fields(s, "deque", k) = Items(k, op.start, op.end)
    PROVE  EntriesOK(s, k, Final(op, n))
<1>1. op.start \in Int /\ op.end \in Int
  BY DEF Descriptor
<1>2. IsFiniteSet(Items(k, op.start, op.end)) /\ Cardinality(Items(k, op.start, op.end)) = n
  BY <1>1, ItemsCount
<1>3. CASE Vanishes(op, n)
  <2>1. Final(op, n).type = "none"
    BY <1>3, NoKeyFacts DEF Final
  <2>2. Fields(s, "deque", k) = {}
    BY <1>2, <1>3, FS_EmptySet DEF Vanishes
  <2>3. \A type \in Content : Fields(s, type, k) = {}
    BY <2>2
  <2> QED BY <2>1, <2>3 DEF EntriesOK, FieldTypes
<1>4. CASE ~ Vanishes(op, n)
  <2>1. /\ Final(op, n).type = "deque" /\ Final(op, n).size = n
        /\ Final(op, n).start = op.start /\ Final(op, n).end = op.end
    BY <1>4, ResizedFacts DEF Final
  <2>2. Owned("deque") = {"deque"}
    BY DEF Owned
  <2>3. Counted(s, "deque", k, n)
    BY <1>2 DEF Counted
  <2>4. DequeOK(s, k, Final(op, n))
    BY <2>1 DEF DequeOK
  <2> QED BY <2>1, <2>2, <2>3, <2>4 DEF EntriesOK
<1> QED
  BY <1>3, <1>4

\* The items of a deque, or of a key that is none yet.
LEMMA DequeFacts ==
    ASSUME NEW s, NEW w, Good(s, w), NEW k \in Key, valid(s, k, "deque"), NEW op, op = operation(s, k, "deque")
    PROVE  /\ op \in Descriptor /\ op.type = "deque" /\ op.start \in Int /\ op.end \in Int /\ op.size \in Nat
           /\ Info(s, k).type \in {"none", "deque"} /\ "deque" \in KeyTypes \ {"lease"} /\ "deque" \in Content
           /\ \A type \in Content : type # "deque" => Fields(s, type, k) = {}
           /\ op.size = 0 => op.start = 0 /\ op.end = 0 /\ Fields(s, "deque", k) = {} /\ Info(s, k).type = "none"
           /\ op.size # 0 => /\ op = Info(s, k) /\ "deque" \in w.types
                             /\ op.size = op.end - op.start - 1
                             /\ Fields(s, "deque", k) = Items(k, op.start, op.end)
<1>1. "deque" \in KeyTypes \ {"lease"} /\ "deque" \in Content /\ Owned("deque") = {"deque"}
  BY DEF KeyTypes, Content, FieldTypes, Owned
<1>2. /\ op \in Descriptor /\ op.type = "deque" /\ op.size = Info(s, k).size /\ op.start = Info(s, k).start
      /\ op.end = Info(s, k).end /\ Info(s, k).type \in {"none", "deque"}
      /\ Info(s, k).type = "none" => Info(s, k) = NoKey
      /\ Info(s, k).type = "deque" => op = Info(s, k) /\ "deque" \in w.types
  BY <1>1, OperationFacts
<1>3. op.start \in Int /\ op.end \in Int /\ op.size \in Nat
  BY <1>2 DEF Descriptor
<1>4. /\ \A type \in Content : type # "deque" => Fields(s, type, k) = {}
      /\ Info(s, k).type = "none" => Fields(s, "deque", k) = {}
      /\ Info(s, k).type = "deque" => DequeOK(s, k, Info(s, k))
  BY <1>1, OwnedFacts DEF EntriesOK
<1>5. Info(s, k).type = "deque" => Info(s, k).size # 0
  BY DEF Good, KeyOK, InfoOK
<1>6. Info(s, k).type = "none" => op.size = 0 /\ op.start = 0 /\ op.end = 0
  BY <1>2, NoKeyFacts
<1> QED
  BY <1>1, <1>2, <1>3, <1>4, <1>5, <1>6 DEF DequeOK

\* An operation on a deque ends with the items that op tells.
LEMMA DequeClosing ==
    ASSUME NEW s, NEW s1, NEW w, Good(s, w), NEW k \in Key, valid(s, k, "deque"),
           Working(s, s1, k), Kept(s, s1),
           \A type \in Content : type # "deque" => Fields(s1, type, k) = {},
           NEW op \in Descriptor, op.type = "deque", NEW n \in Nat, n = op.end - op.start - 1,
           Fields(s1, "deque", k) = Items(k, op.start, op.end),
           op.size # n, "deque" \in w.types
    PROVE  Fine(s, finalize(s1, k, op, n, FALSE), w)
<1>1. EntriesOK(s1, k, Final(op, n))
  BY DequeEntries
<1>2. Fits(s, k, op, n, FALSE, w)
  BY DEF Fits, valid, KeyTypes
<1> QED
  BY <1>1, <1>2, ClosingGood

LEMMA ListIndexFacts ==
    ASSUME NEW op \in Descriptor, NEW i \in Int
    PROVE  /\ setListIndex(op, Left, i) \in Descriptor /\ setListIndex(op, Left, i).type = op.type
           /\ setListIndex(op, Left, i).size = op.size
           /\ setListIndex(op, Left, i).start = i /\ setListIndex(op, Left, i).end = op.end
           /\ setListIndex(op, Right, i) \in Descriptor /\ setListIndex(op, Right, i).type = op.type
           /\ setListIndex(op, Right, i).size = op.size
           /\ setListIndex(op, Right, i).start = op.start /\ setListIndex(op, Right, i).end = i
BY DEF setListIndex, Left, Right, Descriptor

LEMMA ListEnds ==
    ASSUME NEW op
    PROVE  ListIndex(op, Left) = op.start /\ ListIndex(op, Right) = op.end
BY DEF ListIndex, Left, Right

LEMMA PushedItems ==
    ASSUME NEW k, NEW i \in Int, NEW n \in Nat
    PROVE  /\ {Fld("deque", k, i + j * Left) : j \in 0..(n - 1)} = Items(k, i - n, i + 1)
           /\ {Fld("deque", k, i + j * Right) : j \in 0..(n - 1)} = Items(k, i - 1, i + n)
<1>1. \A x : x \in (i - n + 1)..(i + 1 - 1) <=> \E j \in 0..(n - 1) : x = i + j * Left
  <2>1. ASSUME NEW x \in (i - n + 1)..(i + 1 - 1) PROVE \E j \in 0..(n - 1) : x = i + j * Left
    <3>1. i - x \in 0..(n - 1) /\ x = i + (i - x) * Left
      BY DEF Left
    <3> QED BY <3>1
  <2>2. ASSUME NEW j \in 0..(n - 1) PROVE i + j * Left \in (i - n + 1)..(i + 1 - 1)
    BY DEF Left
  <2> QED BY <2>1, <2>2
<1>2. \A x : x \in (i - 1 + 1)..(i + n - 1) <=> \E j \in 0..(n - 1) : x = i + j * Right
  <2>1. ASSUME NEW x \in (i - 1 + 1)..(i + n - 1) PROVE \E j \in 0..(n - 1) : x = i + j * Right
    <3>1. x - i \in 0..(n - 1) /\ x = i + (x - i) * Right
      BY DEF Right
    <3> QED BY <3>1
  <2>2. ASSUME NEW j \in 0..(n - 1) PROVE i + j * Right \in (i - 1 + 1)..(i + n - 1)
    BY DEF Right
  <2> QED BY <2>1, <2>2
<1>3. ASSUME NEW loc
      PROVE  loc \in {Fld("deque", k, i + j * Left) : j \in 0..(n - 1)} <=> loc \in Items(k, i - n, i + 1)
  <2>1. loc \in Items(k, i - n, i + 1) <=> \E x \in (i - n + 1)..(i + 1 - 1) : loc = Fld("deque", k, x)
    BY DEF Items
  <2>2. loc \in {Fld("deque", k, i + j * Left) : j \in 0..(n - 1)}
           <=> \E j \in 0..(n - 1) : loc = Fld("deque", k, i + j * Left)
    OBVIOUS
  <2> QED BY <1>1, <2>1, <2>2
<1>4. ASSUME NEW loc
      PROVE  loc \in {Fld("deque", k, i + j * Right) : j \in 0..(n - 1)} <=> loc \in Items(k, i - 1, i + n)
  <2>1. loc \in Items(k, i - 1, i + n) <=> \E x \in (i - 1 + 1)..(i + n - 1) : loc = Fld("deque", k, x)
    BY DEF Items
  <2>2. loc \in {Fld("deque", k, i + j * Right) : j \in 0..(n - 1)}
           <=> \E j \in 0..(n - 1) : loc = Fld("deque", k, i + j * Right)
    OBVIOUS
  <2> QED BY <1>2, <2>1, <2>2
<1> QED
  BY <1>3, <1>4, Zenon

LEMMA DequePushGood ==
    ASSUME NEW s, NEW w, Good(s, w), NEW k \in Key, "deque" \in w.types, NEW n \in Nat \ {0},
           NEW direction \in {Left, Right}
    PROVE  Fine(s, dequePush(s, direction, k, n), w)
<1>0. CASE ~ valid(s, k, "deque")
  BY <1>0, FineSame DEF dequePush, Guarded
<1>a. CASE valid(s, k, "deque")
  <2>1. PICK op : op = operation(s, k, "deque")
    OBVIOUS
  <2>2. /\ op \in Descriptor /\ op.type = "deque" /\ op.start \in Int /\ op.end \in Int /\ op.size \in Nat
        /\ "deque" \in KeyTypes \ {"lease"} /\ "deque" \in Content
        /\ \A type \in Content : type # "deque" => Fields(s, type, k) = {}
        /\ op.size = 0 => op.start = 0 /\ op.end = 0 /\ Fields(s, "deque", k) = {}
        /\ op.size # 0 => op.size = op.end - op.start - 1 /\ Fields(s, "deque", k) = Items(k, op.start, op.end)
    BY <1>a, <2>1, DequeFacts
  <2>3. PICK index \in Int : index = ListIndex(op, direction)
    BY <2>2, ListEnds
  <2>4. PICK locs : locs = {Fld("deque", k, index + j * direction) : j \in 0..(n - 1)}
    OBVIOUS
  <2>a. PICK items : items = [loc \in locs |-> "item"]
    OBVIOUS
  <2>5. items = [loc \in locs |-> "item"] /\ DOMAIN items = locs
    BY <2>a
  <2>6. PICK s1 : s1 = put(s, items) /\ Wrote(s, s1, items)
    BY PutFacts DEF Good
  <2>7. PICK op2 : op2 = LET moved == setListIndex(op, direction, index + n * direction)
                         IN  IF op.size = 0 THEN setListIndex(moved, flipDirection(direction), index - direction) ELSE moved
    OBVIOUS
  <2>8. \A loc \in locs : loc[1] = "deque" /\ loc[2] = k
    BY <2>4, LocatorParts
  <2>9. Working(s, s1, k) /\ Kept(s, s1)
    BY <2>2, <2>5, <2>6, <2>8, WrittenWorks DEF Wrote
  <2>10. PICK T : T = "deque"
    OBVIOUS
  <2>11. \A loc \in DOMAIN items : loc[1] = T /\ loc[2] = k
    BY <2>5, <2>8, <2>10
  <2>12. /\ Fields(s1, T, k) = Fields(s, T, k) \cup DOMAIN items
         /\ \A other : other # T => Fields(s1, other, k) = Fields(s, other, k)
    BY <2>6, <2>11, WrittenFields
  <2>13. \A type \in Content : type # "deque" => Fields(s1, type, k) = {}
    BY <2>2, <2>10, <2>12
  <2>14. Fields(s1, "deque", k) = Fields(s, "deque", k) \cup locs
    BY <2>5, <2>10, <2>12
  <2>15. PICK m \in Nat : m = op.size + n /\ m # op.size
    BY <2>2
  <2>16. /\ op2 \in Descriptor /\ op2.type = "deque" /\ op2.size = op.size /\ m = op2.end - op2.start - 1
         /\ Fields(s1, "deque", k) = Items(k, op2.start, op2.end)
    <3>1. CASE direction = Left
      <4>1. index = op.start /\ locs = Items(k, index - n, index + 1)
        <5>1. index = op.start
          BY <2>3, <3>1, ListEnds
        <5>2. locs = {Fld("deque", k, index + j * Left) : j \in 0..(n - 1)}
          BY <2>4, <3>1
        <5>3. locs = Items(k, index - n, index + 1)
          BY <5>2, PushedItems
        <5> QED BY <5>1, <5>3
      <4>2. flipDirection(direction) = Right /\ index + n * direction = index - n /\ index - direction = index + 1
        <5>1. flipDirection(Left) = Right
          BY DEF flipDirection
        <5>2. index + n * Left = index - n
          BY DEF Left
        <5>3. index - Left = index + 1
          BY DEF Left
        <5> QED BY <3>1, <5>1, <5>2, <5>3
      <4>3. PICK x \in Int, y \in Int : x = index - n /\ y = index + 1
        OBVIOUS
      <4>4. PICK moved : moved = setListIndex(op, Left, x)
        OBVIOUS
      <4>5. /\ moved \in Descriptor /\ moved.type = "deque" /\ moved.size = op.size /\ moved.start = x
            /\ moved.end = op.end
        <5>1. op \in Descriptor /\ op.type = "deque" /\ x \in Int
          BY <2>2
        <5> QED BY <4>4, <5>1, ListIndexFacts
      <4>6. op2 = IF op.size = 0 THEN setListIndex(moved, Right, y) ELSE moved
        BY <2>7, <3>1, <4>2, <4>3, <4>4
      <4>7. CASE op.size = 0
        <5>1. /\ op2 \in Descriptor /\ op2.type = "deque" /\ op2.size = op.size /\ op2.start = x /\ op2.end = y
          BY <4>3, <4>5, <4>6, <4>7, ListIndexFacts
        <5>2. m = y - x - 1
          BY <2>15, <4>3, <4>7
        <5>3. Fields(s1, "deque", k) = Items(k, x, y)
          BY <2>2, <2>14, <4>1, <4>3, <4>7
        <5> QED BY <5>1, <5>2, <5>3
      <4>8. CASE op.size # 0
        <5>1. op2 = moved
          BY <4>6, <4>8
        <5>2. PICK e \in Int : e = op.end /\ op.size = e - index - 1
          BY <2>2, <4>1, <4>8
        <5>3. m = e - x - 1 /\ x < y /\ y <= e /\ y - 1 = index
          BY <2>2, <2>15, <4>3, <4>8, <5>2
        <5>4. Items(k, x, y) \cup Items(k, y - 1, e) = Items(k, x, e)
          <6>1. x < y /\ y <= e
            BY <5>3
          <6>2. \A b \in Int : x < b /\ b <= e => Items(k, x, b) \cup Items(k, b - 1, e) = Items(k, x, e)
            BY ItemsSplit
          <6> QED BY <6>1, <6>2
        <5>5. Fields(s1, "deque", k) = Items(k, x, e)
          <6>1. Fields(s, "deque", k) = Items(k, index, e)
            BY <2>2, <4>1, <4>8, <5>2
          <6>2. locs = Items(k, x, y) /\ Items(k, y - 1, e) = Items(k, index, e)
            BY <4>1, <4>3, <5>3
          <6> QED BY <2>14, <5>4, <6>1, <6>2
        <5> QED BY <4>5, <5>1, <5>2, <5>3, <5>5
      <4> QED BY <4>7, <4>8
    <3>2. CASE direction = Right
      <4>1. index = op.end /\ locs = Items(k, index - 1, index + n)
        <5>1. index = op.end
          BY <2>3, <3>2, ListEnds
        <5>2. locs = {Fld("deque", k, index + j * Right) : j \in 0..(n - 1)}
          BY <2>4, <3>2
        <5>3. locs = Items(k, index - 1, index + n)
          BY <5>2, PushedItems
        <5> QED BY <5>1, <5>3
      <4>2. flipDirection(direction) = Left /\ index + n * direction = index + n /\ index - direction = index - 1
        BY <3>2 DEF Left, Right, flipDirection
      <4>3. PICK x \in Int, y \in Int : x = index - 1 /\ y = index + n
        OBVIOUS
      <4>4. PICK moved : moved = setListIndex(op, Right, y)
        OBVIOUS
      <4>5. /\ moved \in Descriptor /\ moved.type = "deque" /\ moved.size = op.size /\ moved.end = y
            /\ moved.start = op.start
        <5>1. op \in Descriptor /\ op.type = "deque" /\ y \in Int
          BY <2>2
        <5> QED BY <4>4, <5>1, ListIndexFacts
      <4>6. op2 = IF op.size = 0 THEN setListIndex(moved, Left, x) ELSE moved
        BY <2>7, <3>2, <4>2, <4>3, <4>4
      <4>7. CASE op.size = 0
        <5>1. /\ op2 \in Descriptor /\ op2.type = "deque" /\ op2.size = op.size /\ op2.start = x /\ op2.end = y
          BY <4>3, <4>5, <4>6, <4>7, ListIndexFacts
        <5>2. m = y - x - 1
          BY <2>15, <4>3, <4>7
        <5>3. Fields(s1, "deque", k) = Items(k, x, y)
          BY <2>2, <2>14, <4>1, <4>3, <4>7
        <5> QED BY <5>1, <5>2, <5>3
      <4>8. CASE op.size # 0
        <5>1. op2 = moved
          BY <4>6, <4>8
        <5>2. PICK b \in Int : b = op.start /\ op.size = index - b - 1
          BY <2>2, <4>1, <4>8
        <5>3. m = y - b - 1 /\ b < index /\ index <= y
          BY <2>2, <2>15, <4>3, <4>8, <5>2
        <5>4. Items(k, b, index) \cup Items(k, index - 1, y) = Items(k, b, y)
          BY <4>3, <5>2, <5>3, ItemsSplit
        <5>5. Fields(s1, "deque", k) = Items(k, b, y)
          BY <2>2, <2>14, <4>1, <4>3, <4>8, <5>2, <5>3, <5>4
        <5> QED BY <4>5, <5>1, <5>2, <5>3, <5>5
      <4> QED BY <4>7, <4>8
    <3> QED BY <3>1, <3>2
  <2>17. Fine(s, finalize(s1, k, op2, m, FALSE), w)
    BY <1>a, <2>9, <2>13, <2>15, <2>16, DequeClosing
  <2>18. dequePush(s, direction, k, n) = finalize(s1, k, op2, m, FALSE)
    BY <1>a, <2>1, <2>3, <2>4, <2>5, <2>6, <2>7, <2>15 DEF dequePush, Guarded
  <2> QED BY <2>17, <2>18
<1> QED
  BY <1>0, <1>a

\* A key has entries of one tag at most.
Only(s, k, type) == \A other \in Content : other # type => Fields(s, other, k) = {}

Less(s, s1, k, type, locs) == Fields(s1, type, k) = Fields(s, type, k) \ locs

\* Items have been erased.
LEMMA ErasedItems ==
    ASSUME NEW s, NEW s1, NEW k, NEW locs, Erased(s, s1, locs), Tagged(locs, "deque", k),
           Only(s, k, "deque")
    PROVE  Working(s, s1, k) /\ Kept(s, s1) /\ Only(s1, k, "deque") /\ Less(s, s1, k, "deque", locs)
<1>1. "deque" \in Content
  BY DEF Content, FieldTypes
<1>2. /\ Fields(s1, "deque", k) = Fields(s, "deque", k) \ locs
      /\ \A other : other # "deque" => Fields(s1, other, k) = Fields(s, other, k)
  BY <1>1, ErasedTagged
<1>3. \A loc \in locs : loc[1] \in Content /\ loc[2] = k
  BY <1>1 DEF Tagged
<1>4. Working(s, s1, k)
  BY <1>3, ErasedWorks
<1>5. Only(s1, k, "deque")
  BY <1>2 DEF Only
<1> QED
  BY <1>2, <1>4, <1>5 DEF Erased, Less

LEMMA DequePopGood ==
    ASSUME NEW s, NEW w, Good(s, w), NEW k \in Key, NEW direction \in {Left, Right}
    PROVE  Fine(s, dequePop(s, direction, k), w)
<1>0. CASE ~ valid(s, k, "deque")
  BY <1>0, FineSame DEF dequePop, Guarded
<1>a. CASE valid(s, k, "deque")
  <2>1. PICK op : op = operation(s, k, "deque")
    OBVIOUS
  <2>2. /\ op \in Descriptor /\ op.type = "deque" /\ op.start \in Int /\ op.end \in Int /\ op.size \in Nat
        /\ Info(s, k).type \in {"none", "deque"} /\ "deque" \in KeyTypes \ {"lease"} /\ "deque" \in Content
        /\ \A type \in Content : type # "deque" => Fields(s, type, k) = {}
        /\ op.size = 0 => Fields(s, "deque", k) = {}
        /\ op.size # 0 => /\ "deque" \in w.types /\ op.size = op.end - op.start - 1
                          /\ Fields(s, "deque", k) = Items(k, op.start, op.end)
    BY <1>a, <2>1, DequeFacts
  <2>3. CASE op.size = 0
    <3>1. dequePop(s, direction, k) = finalize(s, k, op, 0, FALSE)
      BY <1>a, <2>1, <2>3 DEF dequePop, Guarded
    <3>2. Vanishes(op, 0) /\ Final(op, 0).type = "none"
      BY <2>2, NoKeyFacts DEF Vanishes, Final
    <3>3. \A type \in Content : Fields(s, type, k) = {}
      BY <2>2, <2>3
    <3>4. EntriesOK(s, k, Final(op, 0))
      BY <3>2, <3>3 DEF EntriesOK, FieldTypes
    <3>5. Fits(s, k, op, 0, FALSE, w)
      BY <2>2, <3>2 DEF Fits
    <3>6. Working(s, s, k) /\ Kept(s, s)
      BY DEF Working, Kept, Same, Good
    <3>7. op.type # "vhash"
      BY <2>2
    <3> QED BY <3>1, <3>4, <3>5, <3>6, <3>7, ClosingGood
  <2>4. CASE op.size # 0
    <3>1. PICK a \in Int, b \in Int : a = op.start /\ b = op.end /\ a + 1 < b /\ op.size = b - a - 1
      BY <2>2, <2>4
    <3>2. PICK v \in Int : /\ v = ListIndex(op, direction) - direction
                           /\ direction = Left => v = a + 1
                           /\ direction = Right => v = b - 1
      <4>1. CASE direction = Left
        <5>1. ListIndex(op, direction) - direction = a + 1
          BY <3>1, <4>1, ListEnds DEF Left
        <5>2. Left # Right
          BY DEF Left, Right
        <5> QED BY <4>1, <5>1, <5>2
      <4>2. CASE direction = Right
        <5>1. ListIndex(op, direction) - direction = b - 1
          BY <3>1, <4>2, ListEnds DEF Right
        <5>2. Left # Right
          BY DEF Left, Right
        <5> QED BY <4>2, <5>1, <5>2
      <4> QED BY <4>1, <4>2
    <3>3. PICK loc : loc = Fld("deque", k, v)
      OBVIOUS
    <3>4. v \in (a + 1)..(b - 1)
      BY <3>1, <3>2
    <3>5. Has(s, loc)
      <4>1. loc \in Fields(s, "deque", k)
        BY <2>2, <2>4, <3>1, <3>3, <3>4, ItemIn
      <4> QED BY <4>1 DEF Fields, Has
    <3>6. PICK s1 : s1 = del(s, {loc}) /\ Erased(s, s1, {loc})
      BY DelFacts DEF Good
    <3>7. Tagged({loc}, "deque", k)
      BY <3>3, LocatorParts DEF Tagged
    <3>a. Only(s, k, "deque")
      BY <2>2 DEF Only
    <3>b. /\ Working(s, s1, k) /\ Kept(s, s1) /\ Only(s1, k, "deque") /\ Less(s, s1, k, "deque", {loc})
      BY <3>6, <3>7, <3>a, ErasedItems
    <3>8. /\ Working(s, s1, k) /\ Kept(s, s1)
          /\ Fields(s1, "deque", k) = Fields(s, "deque", k) \ {loc}
          /\ \A type \in Content : type # "deque" => Fields(s1, type, k) = {}
      BY <3>b DEF Only, Less
    <3>9. PICK op2 : op2 = setListIndex(op, direction, v)
      OBVIOUS
    <3>10. PICK n \in Nat : n = op.size - 1 /\ n # op.size
      BY <2>2, <2>4
    <3>11. Fields(s, "deque", k) = Items(k, a, b) /\ {loc} = Items(k, v - 1, v + 1)
      BY <2>2, <2>4, <3>1, <3>3, OneItem
    <3>12. /\ op2 \in Descriptor /\ op2.type = "deque" /\ op2.size = op.size /\ n = op2.end - op2.start - 1
           /\ Fields(s1, "deque", k) = Items(k, op2.start, op2.end)
      <4>1. CASE direction = Left
        <5>1. /\ op2 \in Descriptor /\ op2.type = "deque" /\ op2.size = op.size /\ op2.start = v /\ op2.end = b
          BY <2>2, <3>1, <3>9, <4>1, ListIndexFacts
        <5>2. v - 1 = a /\ v + 1 - 1 = v
          BY <3>2, <4>1
        <5>3. PICK c \in Int : c = v + 1 /\ a < c /\ c <= b /\ c - 1 = v
          BY <3>1, <3>2, <4>1
        <5>4. Items(k, a, b) \ Items(k, a, c) = Items(k, v, b)
          <6>1. v = c - 1 /\ a < c /\ c <= b
            BY <5>3
          <6>2. Splits(k, a, c, b, v)
            BY <6>1, ItemsSplitAt
          <6> QED BY <6>2 DEF Splits
        <5>5. Fields(s1, "deque", k) = Items(k, v, b)
          BY <3>8, <3>11, <5>2, <5>3, <5>4
        <5>6. n = b - v - 1
          BY <3>1, <3>2, <3>10, <4>1
        <5> QED BY <5>1, <5>5, <5>6
      <4>2. CASE direction = Right
        <5>1. /\ op2 \in Descriptor /\ op2.type = "deque" /\ op2.size = op.size /\ op2.start = a /\ op2.end = v
          BY <2>2, <3>1, <3>9, <4>2, ListIndexFacts
        <5>2. v + 1 = b /\ a < v /\ v <= b
          BY <3>1, <3>2, <4>2
        <5>4. Items(k, a, b) \ Items(k, v - 1, b) = Items(k, a, v)
          BY <5>2, ItemsSplit
        <5>5. Fields(s1, "deque", k) = Items(k, a, v)
          BY <3>8, <3>11, <5>2, <5>4
        <5>6. n = v - a - 1
          BY <3>1, <3>2, <3>10, <4>2
        <5> QED BY <5>1, <5>5, <5>6
      <4> QED BY <4>1, <4>2
    <3>13. Fine(s, finalize(s1, k, op2, n, FALSE), w)
      BY <1>a, <2>2, <2>4, <3>8, <3>10, <3>12, DequeClosing
    <3>14. dequePop(s, direction, k) = finalize(s1, k, op2, n, FALSE)
      BY <1>a, <2>1, <2>4, <3>2, <3>3, <3>5, <3>6, <3>9, <3>10 DEF dequePop, Guarded
    <3> QED BY <3>13, <3>14
  <2> QED BY <2>3, <2>4
<1> QED
  BY <1>0, <1>a

LEMMA DequeTrimGood ==
    ASSUME NEW s, NEW w, Good(s, w), NEW k \in Key, NEW keep \in Nat
    PROVE  Fine(s, dequeTrimFront(s, k, keep), w)
<1>1. PICK op : op = operation(s, k, "deque")
  OBVIOUS
<1>0. CASE ~ valid(s, k, "deque") \/ op.size - keep <= 0
  BY <1>0, <1>1, FineSame DEF dequeTrimFront
<1>a. CASE valid(s, k, "deque") /\ ~ (op.size - keep <= 0)
  <2>2. /\ op \in Descriptor /\ op.type = "deque" /\ op.start \in Int /\ op.end \in Int /\ op.size \in Nat
        /\ \A type \in Content : type # "deque" => Fields(s, type, k) = {}
        /\ op.size # 0 => /\ "deque" \in w.types /\ op.size = op.end - op.start - 1
                          /\ Fields(s, "deque", k) = Items(k, op.start, op.end)
    BY <1>1, <1>a, DequeFacts
  <2>3. PICK r \in Nat \ {0} : r = op.size - keep
    BY <1>a, <2>2
  <2>4. op.size # 0
    BY <2>2, <2>3
  <2>a. PICK a \in Int, b \in Int : a = op.start /\ b = op.end /\ op.size = b - a - 1
    BY <2>2, <2>4
  <2>b. PICK m \in Int, c \in Int : m = a + r /\ c = m + 1
    OBVIOUS
  <2>5. m = c - 1 /\ a < c /\ c <= b /\ b - m - 1 = keep /\ m = a + r /\ c = a + r + 1
    BY <2>3, <2>a, <2>b
  <2>6. PICK locs : locs = {Fld("deque", k, i) : i \in (a + 1)..(a + r)}
    OBVIOUS
  <2>7. locs = Items(k, a, c)
    <3>1. (a + 1)..(a + r) = (a + 1)..(c - 1)
      BY <2>5
    <3> QED BY <2>6, <3>1 DEF Items
  <2>8. Items(k, a, c) \cup Items(k, m, b) = Items(k, a, b) /\ Items(k, a, b) \ Items(k, a, c) = Items(k, m, b)
    <3>1. m = c - 1 /\ a < c /\ c <= b
      BY <2>5
    <3>2. Splits(k, a, c, b, m)
      BY <3>1, ItemsSplitAt
    <3> QED BY <3>2 DEF Splits
  <2>9. Fields(s, "deque", k) = Items(k, a, b)
    BY <2>2, <2>4, <2>a
  <2>10. \A loc \in locs : loc \in Fields(s, "deque", k)
    BY <2>7, <2>8, <2>9
  <2>11. ~ \E loc \in locs : ~ Has(s, loc)
    BY <2>10 DEF Fields, Has
  <2>12. Tagged(locs, "deque", k)
    BY <2>10 DEF Fields, Tagged
  <2>13. PICK s1 : s1 = del(s, locs) /\ Erased(s, s1, locs)
    BY DelFacts DEF Good
  <2>c. Only(s, k, "deque")
    BY <2>2 DEF Only
  <2>d. /\ Working(s, s1, k) /\ Kept(s, s1) /\ Only(s1, k, "deque") /\ Less(s, s1, k, "deque", locs)
    BY <2>12, <2>13, <2>c, ErasedItems
  <2>14. /\ Working(s, s1, k) /\ Kept(s, s1)
         /\ Fields(s1, "deque", k) = Fields(s, "deque", k) \ locs
         /\ \A type \in Content : type # "deque" => Fields(s1, type, k) = {}
    BY <2>d DEF Only, Less
  <2>15. PICK op2 : op2 = [op EXCEPT !.start = @ + r]
    OBVIOUS
  <2>16. op2 = setListIndex(op, Left, m)
    BY <2>5, <2>a, <2>15 DEF setListIndex
  <2>18. /\ op2 \in Descriptor /\ op2.type = "deque" /\ op2.size = op.size /\ op2.start = m /\ op2.end = b
    BY <2>2, <2>a, <2>16, ListIndexFacts
  <2>19. keep = op2.end - op2.start - 1 /\ op2.size # keep
    BY <2>3, <2>5, <2>18
  <2>20. Fields(s1, "deque", k) = Items(k, op2.start, op2.end)
    BY <2>7, <2>8, <2>9, <2>14, <2>18
  <2>21. Fine(s, finalize(s1, k, op2, keep, FALSE), w)
    BY <1>a, <2>2, <2>4, <2>14, <2>18, <2>19, <2>20, DequeClosing
  <2>22. dequeTrimFront(s, k, keep) = finalize(s1, k, op2, keep, FALSE)
    BY <1>1, <1>a, <2>3, <2>a, <2>6, <2>11, <2>13, <2>15, <2>19 DEF dequeTrimFront
  <2> QED BY <2>21, <2>22
<1> QED
  BY <1>0, <1>a

-----------------------------------------------------------------------------
(* Locality hashes *)

\* No entries but fields and indexes of a locality hash.
NotOther(s, k) == \A type \in Content : type \notin {"lhash", "lindex"} => Fields(s, type, k) = {}

LEMMA LocalMembers ==
    ASSUME NEW s, NEW k, NEW f
    PROVE  /\ LIndex(k, f) \in Fields(s, "lindex", k) <=> Has(s, LIndex(k, f))
           /\ \A h : LField(k, h, f) \in Fields(s, "lhash", k) <=> Has(s, LField(k, h, f))
BY LocatorParts DEF Fields, Has

\* Index and field belong together, whatever the type of the key.
LEMMA LocalHas ==
    ASSUME NEW s, NEW w, Good(s, w), NEW k \in Key, NEW f
    PROVE  /\ Has(s, LIndex(k, f)) => Has(s, LField(k, s.store[LIndex(k, f)], f))
           /\ \A h : Has(s, LField(k, h, f)) => Has(s, LIndex(k, f)) /\ s.store[LIndex(k, f)] = h
<1>1. EntriesOK(s, k, Info(s, k))
  BY DEF Good, KeyOK
<1>2. "lhash" \in Content /\ "lindex" \in Content
  BY DEF Content
<1>3. CASE Info(s, k).type = "lhash"
  <2>1. LocalOK(s, k)
    BY <1>1, <1>3 DEF EntriesOK
  <2>2. ASSUME Has(s, LIndex(k, f)) PROVE Has(s, LField(k, s.store[LIndex(k, f)], f))
    <3>1. IndexOK(s, k, LIndex(k, f))
      BY <2>1, <2>2, LocalMembers DEF LocalOK
    <3>2. LIndex(k, f)[3] = f
      BY LocatorParts
    <3> QED BY <3>1, <3>2 DEF IndexOK
  <2>3. ASSUME NEW h, Has(s, LField(k, h, f)) PROVE Has(s, LIndex(k, f)) /\ s.store[LIndex(k, f)] = h
    <3>1. PlaceOK(s, k, LField(k, h, f))
      BY <2>1, <2>3, LocalMembers DEF LocalOK
    <3>2. LField(k, h, f)[3] = h /\ LField(k, h, f)[4] = f
      BY LocatorParts
    <3> QED BY <3>1, <3>2 DEF PlaceOK
  <2> QED BY <2>2, <2>3
<1>4. CASE Info(s, k).type # "lhash"
  <2>1. "lhash" \notin Owned(Info(s, k).type)
    BY <1>4 DEF Owned
  <2>2. "lindex" \notin Owned(Info(s, k).type)
    <3>1. Info(s, k).type # "lindex"
      BY DEF Good, KeyOK, InfoOK, Descriptor, KeyTypes
    <3> QED BY <1>4, <3>1 DEF Owned
  <2>3. Fields(s, "lhash", k) = {} /\ Fields(s, "lindex", k) = {}
    BY <1>1, <1>2, <2>1, <2>2 DEF EntriesOK
  <2> QED BY <2>3, LocalMembers
<1> QED
  BY <1>3, <1>4

LEMMA LocalFacts ==
    ASSUME NEW s, NEW w, Good(s, w), NEW k \in Key, valid(s, k, "lhash"), NEW op, op = operation(s, k, "lhash")
    PROVE  /\ op \in Descriptor /\ op.type = "lhash" /\ op.size \in Nat
           /\ Info(s, k).type \in {"none", "lhash"}
           /\ Info(s, k).type = "none" => op.size = 0
           /\ Info(s, k).type = "lhash" => op = Info(s, k) /\ "lhash" \in w.types
           /\ NotOther(s, k) /\ Counted(s, "lindex", k, op.size) /\ LocalOK(s, k)
<1>1. "lhash" \in KeyTypes /\ Owned("lhash") = {"lhash", "lindex"} /\ "lhash" \in Content /\ "lindex" \in Content
  BY DEF KeyTypes, Owned, Content
<1>2. /\ op \in Descriptor /\ op.type = "lhash" /\ op.size = Info(s, k).size
      /\ Info(s, k).type \in {"none", "lhash"}
      /\ Info(s, k).type = "none" => Info(s, k) = NoKey
      /\ Info(s, k).type = "lhash" => op = Info(s, k) /\ "lhash" \in w.types
  BY <1>1, OperationFacts
<1>3. op.size \in Nat
  BY <1>2 DEF Descriptor
<1>4. Info(s, k).type = "none" => op.size = 0
  BY <1>2, NoKeyFacts
<1>5. NotOther(s, k)
  BY <1>1, OwnedFacts DEF NotOther
<1>6. EntriesOK(s, k, Info(s, k)) /\ (Info(s, k).type = "none" => \A type \in Content : Fields(s, type, k) = {})
  BY <1>1, OwnedFacts
<1>7. CASE Info(s, k).type = "none"
  <2>1. Fields(s, "lindex", k) = {} /\ Fields(s, "lhash", k) = {}
    BY <1>1, <1>6, <1>7
  <2>2. Counted(s, "lindex", k, 0)
    BY <2>1, FS_EmptySet DEF Counted
  <2>3. LocalOK(s, k)
    BY <2>1 DEF LocalOK
  <2> QED BY <1>2, <1>3, <1>4, <1>5, <1>7, <2>2, <2>3
<1>8. CASE Info(s, k).type = "lhash"
  <2>1. Counted(s, "lindex", k, Info(s, k).size) /\ LocalOK(s, k)
    BY <1>6, <1>8 DEF EntriesOK
  <2> QED BY <1>2, <1>3, <1>5, <1>8, <2>1
<1> QED
  BY <1>2, <1>7, <1>8

LEMMA LocalEntries ==
    ASSUME NEW s, NEW k, NEW op \in Descriptor, op.type = "lhash", NEW n \in Nat,
           NotOther(s, k), Counted(s, "lindex", k, n), LocalOK(s, k)
    PROVE  EntriesOK(s, k, Final(op, n))
<1>1. CASE Vanishes(op, n)
  <2>1. Final(op, n).type = "none"
    BY <1>1, NoKeyFacts DEF Final
  <2>2. Fields(s, "lindex", k) = {}
    BY <1>1, FS_EmptySet DEF Vanishes, Counted
  <2>3. ASSUME NEW loc \in Fields(s, "lhash", k) PROVE FALSE
    <3>1. Has(s, LIndex(k, loc[4]))
      BY DEF LocalOK, PlaceOK
    <3> QED BY <2>2, <3>1, LocalMembers
  <2>4. \A type \in Content : Fields(s, type, k) = {}
    BY <2>2, <2>3 DEF NotOther
  <2> QED BY <2>1, <2>4 DEF EntriesOK, FieldTypes
<1>2. CASE ~ Vanishes(op, n)
  <2>1. Final(op, n).type = "lhash" /\ Final(op, n).size = n
    BY <1>2, ResizedFacts DEF Final
  <2>2. Owned("lhash") = {"lhash", "lindex"}
    BY DEF Owned
  <2> QED BY <2>1, <2>2 DEF EntriesOK, FieldTypes, NotOther
<1> QED
  BY <1>1, <1>2

\* A field of a locality hash has been written: it is where its index tells.
Placed(s, s1, k, f, h) ==
    /\ Has(s1, LField(k, h, f)) /\ Has(s1, LIndex(k, f)) /\ s1.store[LIndex(k, f)] = h
    /\ \A loc : loc \notin {LField(k, h, f), LIndex(k, f)} /\ Has(s1, loc) => Same(s, s1, loc)
    /\ \A loc : Has(s, loc) /\ ~ Has(s1, loc) => \E x : loc = LField(k, x, f)
    /\ \A x : x # h => ~ Has(s1, LField(k, x, f))

LEMMA PlacedLocal ==
    ASSUME NEW s, NEW s1, NEW k, NEW f, NEW h, LocalOK(s, k), Placed(s, s1, k, f, h)
    PROVE  LocalOK(s1, k)
<1>1. ASSUME NEW loc \in Fields(s1, "lindex", k) PROVE IndexOK(s1, k, loc)
  <2>0. loc[1] = "lindex" /\ loc[2] = k /\ Has(s1, loc)
    BY DEF Fields, Has
  <2>1. CASE loc = LIndex(k, f)
    <3>1. loc[3] = f
      BY <2>1, LocatorParts
    <3> QED BY <2>1, <3>1 DEF IndexOK, Placed
  <2>2. CASE loc # LIndex(k, f)
    <3>1. loc # LField(k, h, f)
      BY <2>0, LocatorParts
    <3>2. Same(s, s1, loc)
      BY <2>0, <2>2, <3>1 DEF Placed
    <3>3. loc \in Fields(s, "lindex", k) /\ s1.store[loc] = s.store[loc]
      BY <2>0, <3>2 DEF Fields, Same, Has
    <3>4. IndexOK(s, k, loc)
      BY <3>3 DEF LocalOK
    <3>5. PICK g, v : g = loc[3] /\ v = s.store[loc]
      OBVIOUS
    <3>6. loc = LIndex(k, g) /\ Has(s, LField(k, v, g)) /\ g # f
      BY <2>2, <3>4, <3>5 DEF IndexOK
    <3>7. ~ \E x : LField(k, v, g) = LField(k, x, f)
      BY <3>6, LocatorParts
    <3>8. Has(s1, LField(k, v, g))
      BY <3>6, <3>7 DEF Placed
    <3> QED BY <3>3, <3>5, <3>6, <3>8 DEF IndexOK
  <2> QED BY <2>1, <2>2
<1>2. ASSUME NEW loc \in Fields(s1, "lhash", k) PROVE PlaceOK(s1, k, loc)
  <2>0. loc[1] = "lhash" /\ loc[2] = k /\ Has(s1, loc)
    BY DEF Fields, Has
  <2>1. CASE loc = LField(k, h, f)
    <3>1. loc[3] = h /\ loc[4] = f
      BY <2>1, LocatorParts
    <3> QED BY <2>1, <3>1 DEF PlaceOK, Placed
  <2>2. CASE loc # LField(k, h, f)
    <3>1. loc # LIndex(k, f)
      BY <2>0, LocatorParts
    <3>2. Same(s, s1, loc)
      BY <2>0, <2>2, <3>1 DEF Placed
    <3>3. loc \in Fields(s, "lhash", k)
      BY <2>0, <3>2 DEF Fields, Same, Has
    <3>4. PlaceOK(s, k, loc)
      BY <3>3 DEF LocalOK
    <3>5. PICK x, g : x = loc[3] /\ g = loc[4]
      OBVIOUS
    <3>6. loc = LField(k, x, g) /\ Has(s, LIndex(k, g)) /\ s.store[LIndex(k, g)] = x
      BY <3>4, <3>5 DEF PlaceOK
    <3>7. g # f
      <4>1. ASSUME g = f PROVE FALSE
        <5>1. x # h
          BY <2>2, <3>6, <4>1
        <5>2. ~ Has(s1, LField(k, x, f))
          BY <5>1 DEF Placed
        <5> QED BY <2>0, <3>6, <4>1, <5>2
      <4> QED BY <4>1
    <3>8. ~ (\E y : LIndex(k, g) = LField(k, y, f)) /\ LIndex(k, g) # LField(k, h, f) /\ LIndex(k, g) # LIndex(k, f)
      BY <3>7, LocatorParts
    <3>9. Has(s1, LIndex(k, g))
      BY <3>6, <3>8 DEF Placed
    <3>10. Same(s, s1, LIndex(k, g))
      BY <3>8, <3>9 DEF Placed
    <3>11. s1.store[LIndex(k, g)] = x
      BY <3>6, <3>10 DEF Same, Has
    <3> QED BY <3>5, <3>6, <3>9, <3>11 DEF PlaceOK
  <2> QED BY <2>1, <2>2
<1> QED
  BY <1>1, <1>2 DEF LocalOK

LEMMA PlacedWorks ==
    ASSUME NEW s, NEW s1, NEW k, NEW f, NEW h, Placed(s, s1, k, f, h), Sound(s1), NotOther(s, k)
    PROVE  /\ Working(s, s1, k) /\ NotOther(s1, k)
           /\ Fields(s1, "lindex", k) = Fields(s, "lindex", k) \cup {LIndex(k, f)}
<1>1. ASSUME NEW loc, loc # LIndex(k, f), loc # LField(k, h, f), \A x : loc # LField(k, x, f)
      PROVE  Same(s, s1, loc)
  <2>1. CASE Has(s1, loc)
    BY <1>1, <2>1 DEF Placed
  <2>2. CASE ~ Has(s1, loc)
    <3>1. ~ Has(s, loc)
      BY <1>1, <2>2 DEF Placed
    <3> QED BY <2>2, <3>1 DEF Same, Has
  <2> QED BY <2>1, <2>2
<1>2. Same(s, s1, Desc(k))
  BY <1>1, LocatorParts
<1>3. ASSUME NEW loc, ~ IsOwn(loc, k) PROVE Same(s, s1, loc)
  <2>1. IsOwn(LIndex(k, f), k) /\ \A x : IsOwn(LField(k, x, f), k)
    BY LocatorParts, ContentTags, OwnTag DEF KeyTypes
  <2> QED BY <1>1, <1>3, <2>1
<1>4. Working(s, s1, k)
  BY <1>2, <1>3 DEF Working
<1>5. ASSUME NEW type \in Content, type \notin {"lhash", "lindex"} PROVE Fields(s1, type, k) = {}
  <2>1. ASSUME NEW loc \in Fields(s1, type, k) PROVE FALSE
    <3>1. loc[1] = type /\ loc[2] = k /\ Has(s1, loc)
      BY <2>1 DEF Fields, Has
    <3>2. Same(s, s1, loc)
      BY <1>1, <1>5, <3>1, LocatorParts
    <3>3. loc \in Fields(s, type, k)
      BY <3>1, <3>2 DEF Same, Has, Fields
    <3> QED BY <1>5, <3>3 DEF NotOther
  <2> QED BY <2>1
<1>6. NotOther(s1, k)
  BY <1>5 DEF NotOther
<1>7. ASSUME NEW loc
      PROVE  loc \in Fields(s1, "lindex", k) <=> loc \in Fields(s, "lindex", k) \/ loc = LIndex(k, f)
  <2>1. CASE loc = LIndex(k, f)
    <3>1. Has(s1, loc)
      BY <2>1 DEF Placed
    <3> QED BY <2>1, <3>1, LocalMembers
  <2>2. CASE loc # LIndex(k, f) /\ loc[1] = "lindex"
    <3>1. Same(s, s1, loc)
      BY <1>1, <2>2, LocatorParts
    <3> QED BY <2>2, <3>1 DEF Fields, Same
  <2>3. CASE loc # LIndex(k, f) /\ loc[1] # "lindex"
    BY <2>3 DEF Fields
  <2> QED BY <2>1, <2>2, <2>3
<1>8. Fields(s1, "lindex", k) = Fields(s, "lindex", k) \cup {LIndex(k, f)}
  BY <1>7
<1> QED
  BY <1>4, <1>6, <1>8

LEMMA PlacedGood ==
    ASSUME NEW s, NEW s1, NEW w, Good(s, w), NEW k \in Key, valid(s, k, "lhash"), "lhash" \in w.types,
           NEW op, op = operation(s, k, "lhash"), NEW f, NEW h, Placed(s, s1, k, f, h),
           Sound(s1), Kept(s, s1), NEW n \in Nat, n = op.size + IF Has(s, LIndex(k, f)) THEN 0 ELSE 1
    PROVE  Fine(s, finalize(s1, k, op, n, FALSE), w)
<1>1. /\ op \in Descriptor /\ op.type = "lhash" /\ op.size \in Nat
      /\ Info(s, k).type \in {"none", "lhash"}
      /\ Info(s, k).type = "none" => op.size = 0
      /\ Info(s, k).type = "lhash" => op = Info(s, k)
      /\ NotOther(s, k) /\ Counted(s, "lindex", k, op.size) /\ LocalOK(s, k)
  BY LocalFacts
<1>2. /\ Working(s, s1, k) /\ NotOther(s1, k)
      /\ Fields(s1, "lindex", k) = Fields(s, "lindex", k) \cup {LIndex(k, f)}
  BY <1>1, PlacedWorks
<1>3. LocalOK(s1, k)
  BY <1>1, PlacedLocal
<1>4. PICK F : F = Fields(s, "lindex", k) /\ IsFiniteSet(F) /\ Cardinality(F) = op.size
  BY <1>1 DEF Counted
<1>5. LIndex(k, f) \in F <=> Has(s, LIndex(k, f))
  BY <1>4, LocalMembers
<1>6. Counted(s1, "lindex", k, n)
  <2>1. CASE Has(s, LIndex(k, f))
    <3>1. F \cup {LIndex(k, f)} = F /\ n = op.size
      BY <1>1, <1>5, <2>1
    <3> QED BY <1>2, <1>4, <3>1 DEF Counted
  <2>2. CASE ~ Has(s, LIndex(k, f))
    <3>1. n = op.size + 1
      BY <2>2
    <3>2. IsFiniteSet(F \cup {LIndex(k, f)}) /\ Cardinality(F \cup {LIndex(k, f)}) = Cardinality(F) + 1
      BY <1>4, <1>5, <2>2, FS_AddElement
    <3> QED BY <1>2, <1>4, <3>1, <3>2 DEF Counted
  <2> QED BY <2>1, <2>2
<1>7. EntriesOK(s1, k, Final(op, n))
  BY <1>1, <1>2, <1>3, <1>6, LocalEntries
<1>8. op.size # n \/ op = Info(s, k)
  <2>1. CASE Has(s, LIndex(k, f))
    <3>1. F # {}
      BY <1>5, <2>1
    <3>2. Cardinality(F) # 0
      BY <1>4, <3>1, FS_EmptySet
    <3> QED BY <1>1, <1>4, <3>2
  <2>2. CASE ~ Has(s, LIndex(k, f))
    BY <1>1, <2>2
  <2> QED BY <2>1, <2>2
<1>9. Fits(s, k, op, n, FALSE, w)
  BY <1>1, <1>8 DEF Fits, KeyTypes
<1> QED
  BY <1>1, <1>2, <1>7, <1>9, ClosingGood

LEMMA LhsetGood ==
    ASSUME NEW s, NEW w, Good(s, w), NEW k \in Key, "lhash" \in w.types, NEW f, NEW h
    PROVE  Fine(s, lhset(s, k, f, h), w)
<1>0. CASE ~ valid(s, k, "lhash")
  BY <1>0, FineSame DEF lhset, Guarded
<1>a. CASE valid(s, k, "lhash")
  <2>1. PICK op : op = operation(s, k, "lhash") /\ op.size \in Nat
    BY <1>a, LocalFacts
  <2>2. PICK p, i : p = LField(k, h, f) /\ i = LIndex(k, f) /\ p # i
    BY LocatorParts
  <2>3. \A x : x # h => LField(k, x, f) # p /\ LField(k, x, f) # i
    BY <2>2, LocatorParts
  <2>4. PICK entry : entry = One(p, "text") /\ DOMAIN entry = {p}
    BY OneFacts
  <2>5. PICK index : index = One(i, h) /\ DOMAIN index = {i} /\ index[i] = h
    BY OneFacts
  <2>6. \A x : Has(s, LField(k, x, f)) => Has(s, i) /\ s.store[i] = x
    BY <2>2, LocalHas
  <2>7. Sound(s)
    BY DEF Good
  <2>8. CASE Has(s, p)
    <3>1. PICK s1 : s1 = put(s, entry) /\ Wrote(s, s1, entry)
      BY <2>7, PutFacts
    <3>2. Has(s, i) /\ s.store[i] = h
      BY <2>2, <2>6, <2>8
    <3>3. /\ Sound(s1) /\ Kept(s, s1) /\ DOMAIN s1.store = DOMAIN s.store \cup {p}
          /\ \A loc : loc # p => Same(s, s1, loc)
      BY <2>4, <3>1 DEF Wrote
    <3>4. Same(s, s1, i)
      BY <2>2, <3>3
    <3>5. Has(s1, p) /\ Has(s1, i) /\ s1.store[i] = h
      BY <3>2, <3>3, <3>4 DEF Has, Same
    <3>6. \A x : x # h => ~ Has(s1, LField(k, x, f))
      <4>1. \A x : x # h => ~ Has(s, LField(k, x, f))
        BY <2>6, <3>2
      <4> QED BY <2>3, <3>3, <4>1 DEF Has
    <3>7. \A loc : Has(s, loc) => Has(s1, loc)
      BY <3>3 DEF Has
    <3>8. Placed(s, s1, k, f, h)
      BY <2>2, <3>3, <3>5, <3>6, <3>7 DEF Placed
    <3>9. op.size = op.size + IF Has(s, i) THEN 0 ELSE 1
      BY <2>1, <3>2
    <3>10. Fine(s, finalize(s1, k, op, op.size, FALSE), w)
      BY <1>a, <2>1, <2>2, <3>3, <3>8, <3>9, PlacedGood
    <3>11. lhset(s, k, f, h) = finalize(s1, k, op, op.size, FALSE)
      BY <1>a, <2>1, <2>2, <2>4, <2>8, <3>1 DEF lhset, Guarded
    <3> QED BY <3>10, <3>11
  <2>9. ASSUME NEW s0, Sound(s0), Kept(s, s0), \A loc : Has(s0, loc) => Same(s, s0, loc),
               \A loc : Has(s, loc) /\ ~ Has(s0, loc) => \E x : loc = LField(k, x, f),
               \A x : x # h => ~ Has(s0, LField(k, x, f))
        PROVE  LET s1 == put(put(s0, entry), index)
               IN  Sound(s1) /\ Kept(s, s1) /\ Placed(s, s1, k, f, h)
    <3>1. PICK t : t = put(s0, entry) /\ Wrote(s0, t, entry)
      BY <2>9, PutFacts
    <3>2. Sound(t)
      BY <3>1 DEF Wrote
    <3>3. PICK s1 : s1 = put(t, index) /\ Wrote(t, s1, index)
      BY <3>2, PutFacts
    <3>4. /\ Kept(s0, t) /\ DOMAIN t.store = DOMAIN s0.store \cup {p}
          /\ \A loc : loc # p => Same(s0, t, loc)
      BY <2>4, <3>1 DEF Wrote
    <3>5. /\ Sound(s1) /\ Kept(t, s1) /\ DOMAIN s1.store = DOMAIN t.store \cup {i} /\ s1.store[i] = h
          /\ \A loc : loc # i => Same(t, s1, loc)
      BY <2>5, <3>3 DEF Wrote
    <3>6. Kept(s, s1)
      BY <2>9, <3>4, <3>5 DEF Kept
    <3>7. \A loc : Has(s1, loc) <=> Has(s0, loc) \/ loc = p \/ loc = i
      BY <3>4, <3>5 DEF Has
    <3>8. \A loc : loc # p /\ loc # i => Same(s0, s1, loc)
      BY <3>4, <3>5, SameTrans
    <3>9. ASSUME NEW loc, loc # p, loc # i, Has(s1, loc) PROVE Same(s, s1, loc)
      <4>1. Has(s0, loc)
        BY <3>7, <3>9
      <4> QED BY <2>9, <3>8, <3>9, <4>1, SameTrans
    <3>10. \A loc : Has(s, loc) /\ ~ Has(s1, loc) => \E x : loc = LField(k, x, f)
      BY <2>9, <3>7
    <3>11. \A x : x # h => ~ Has(s1, LField(k, x, f))
      BY <2>3, <2>9, <3>7
    <3>12. Has(s1, p) /\ Has(s1, i)
      BY <3>7
    <3>13. Placed(s, s1, k, f, h)
      BY <2>2, <3>5, <3>9, <3>10, <3>11, <3>12 DEF Placed
    <3> QED BY <3>1, <3>3, <3>5, <3>6, <3>13
  <2>10. CASE ~ Has(s, p) /\ Has(s, i)
    <3>1. PICK v : v = s.store[i] /\ Has(s, LField(k, v, f))
      BY <2>2, <2>10, LocalHas
    <3>2. PICK old : old = LField(k, v, f)
      OBVIOUS
    <3>3. PICK s0 : s0 = del(s, {old}) /\ Erased(s, s0, {old})
      BY <2>7, DelFacts
    <3>4. /\ Sound(s0) /\ Kept(s, s0) /\ DOMAIN s0.store = DOMAIN s.store \ {old}
          /\ \A loc : loc # old => Same(s, s0, loc)
      BY <3>3 DEF Erased
    <3>5. \A loc : Has(s0, loc) <=> Has(s, loc) /\ loc # old
      BY <3>4 DEF Has
    <3>6. \A loc : Has(s0, loc) => Same(s, s0, loc)
      BY <3>4, <3>5
    <3>7. \A loc : Has(s, loc) /\ ~ Has(s0, loc) => \E x : loc = LField(k, x, f)
      BY <3>2, <3>5
    <3>8. \A x : x # h => ~ Has(s0, LField(k, x, f))
      BY <2>6, <3>1, <3>2, <3>5
    <3>9. PICK s1 : s1 = put(put(s0, entry), index) /\ Sound(s1) /\ Kept(s, s1) /\ Placed(s, s1, k, f, h)
      BY <2>9, <3>4, <3>6, <3>7, <3>8
    <3>10. op.size = op.size + IF Has(s, i) THEN 0 ELSE 1
      BY <2>1, <2>10
    <3>11. Fine(s, finalize(s1, k, op, op.size, FALSE), w)
      BY <1>a, <2>1, <2>2, <3>9, <3>10, PlacedGood
    <3>12. lhset(s, k, f, h) = finalize(s1, k, op, op.size, FALSE)
      BY <1>a, <2>1, <2>2, <2>4, <2>5, <2>10, <3>1, <3>2, <3>3, <3>9 DEF lhset, Guarded
    <3> QED BY <3>11, <3>12
  <2>11. CASE ~ Has(s, p) /\ ~ Has(s, i)
    <3>1. \A loc : Has(s, loc) => Same(s, s, loc)
      BY DEF Same
    <3>2. \A x : x # h => ~ Has(s, LField(k, x, f))
      BY <2>6, <2>11
    <3>3. Kept(s, s)
      BY DEF Kept
    <3>4. PICK s1 : s1 = put(put(s, entry), index) /\ Sound(s1) /\ Kept(s, s1) /\ Placed(s, s1, k, f, h)
      BY <2>7, <2>9, <3>1, <3>2, <3>3
    <3>5. PICK n \in Nat : n = op.size + 1
      BY <2>1
    <3>6. n = op.size + IF Has(s, i) THEN 0 ELSE 1
      BY <2>11, <3>5
    <3>7. Fine(s, finalize(s1, k, op, n, FALSE), w)
      BY <1>a, <2>1, <2>2, <3>4, <3>5, <3>6, PlacedGood
    <3>8. lhset(s, k, f, h) = finalize(s1, k, op, n, FALSE)
      BY <1>a, <2>1, <2>2, <2>4, <2>5, <2>11, <3>4, <3>5 DEF lhset, Guarded
    <3> QED BY <3>7, <3>8
  <2> QED BY <2>8, <2>10, <2>11
<1> QED
  BY <1>0, <1>a

\* The fields fs of a locality hash have been erased, with their indexes.
Unplaced(s, k, found) ==
    {LField(k, s.store[LIndex(k, f)], f) : f \in found} \cup {LIndex(k, f) : f \in found}

LEMMA UnplacedIn ==
    ASSUME NEW s, NEW k, NEW found
    PROVE  /\ \A f : LIndex(k, f) \in Unplaced(s, k, found) <=> f \in found
           /\ \A h, f : LField(k, h, f) \in Unplaced(s, k, found) <=> f \in found /\ h = s.store[LIndex(k, f)]
           /\ \A loc \in Unplaced(s, k, found) : loc[1] \in {"lhash", "lindex"} /\ loc[2] = k
           /\ \A loc \in Unplaced(s, k, found) : loc[1] = "lindex" => loc = LIndex(k, loc[3]) /\ loc[3] \in found
<1>1. \A loc : loc \in Unplaced(s, k, found) <=> \E f \in found : loc = LField(k, s.store[LIndex(k, f)], f) \/ loc = LIndex(k, f)
  BY DEF Unplaced
<1>2. \A f : LIndex(k, f) \in Unplaced(s, k, found) <=> f \in found
  BY <1>1, LocatorParts
<1>3. \A h, f : LField(k, h, f) \in Unplaced(s, k, found) <=> f \in found /\ h = s.store[LIndex(k, f)]
  BY <1>1, LocatorParts
<1>4. ASSUME NEW loc \in Unplaced(s, k, found)
      PROVE  /\ loc[1] \in {"lhash", "lindex"} /\ loc[2] = k
             /\ loc[1] = "lindex" => loc = LIndex(k, loc[3]) /\ loc[3] \in found
  <2>1. PICK f \in found : loc = LField(k, s.store[LIndex(k, f)], f) \/ loc = LIndex(k, f)
    BY <1>1, <1>4
  <2> QED BY <2>1, LocatorParts
<1> QED
  BY <1>2, <1>3, <1>4

LEMMA UnplacedLocal ==
    ASSUME NEW s, NEW s1, NEW k, NEW found, LocalOK(s, k), Erased(s, s1, Unplaced(s, k, found))
    PROVE  LocalOK(s1, k)
<1>0. PICK U : U = Unplaced(s, k, found)
  OBVIOUS
<1>a. \A loc : Has(s1, loc) <=> Has(s, loc) /\ loc \notin U
  BY <1>0 DEF Erased, Has
<1>b. \A loc : Has(s1, loc) => s1.store[loc] = s.store[loc]
  BY <1>0, <1>a DEF Erased, Same, Has
<1>c. /\ \A f : LIndex(k, f) \in U <=> f \in found
      /\ \A h, f : LField(k, h, f) \in U <=> f \in found /\ h = s.store[LIndex(k, f)]
  BY <1>0, UnplacedIn
<1>1. ASSUME NEW loc \in Fields(s1, "lindex", k) PROVE IndexOK(s1, k, loc)
  <2>0. loc[1] = "lindex" /\ loc[2] = k /\ Has(s1, loc)
    BY DEF Fields, Has
  <2>1. loc \in Fields(s, "lindex", k) /\ s1.store[loc] = s.store[loc] /\ loc \notin U
    BY <1>a, <1>b, <2>0 DEF Fields, Has
  <2>2. IndexOK(s, k, loc)
    BY <2>1 DEF LocalOK
  <2>3. PICK g, v : g = loc[3] /\ v = s.store[loc]
    OBVIOUS
  <2>4. loc = LIndex(k, g) /\ Has(s, LField(k, v, g))
    BY <2>2, <2>3 DEF IndexOK
  <2>5. g \notin found
    BY <1>c, <2>1, <2>4
  <2>6. Has(s1, LField(k, v, g))
    BY <1>a, <1>c, <2>4, <2>5
  <2> QED BY <2>1, <2>3, <2>4, <2>6 DEF IndexOK
<1>2. ASSUME NEW loc \in Fields(s1, "lhash", k) PROVE PlaceOK(s1, k, loc)
  <2>0. loc[1] = "lhash" /\ loc[2] = k /\ Has(s1, loc)
    BY DEF Fields, Has
  <2>1. loc \in Fields(s, "lhash", k) /\ loc \notin U
    BY <1>a, <2>0 DEF Fields, Has
  <2>2. PlaceOK(s, k, loc)
    BY <2>1 DEF LocalOK
  <2>3. PICK x, g : x = loc[3] /\ g = loc[4]
    OBVIOUS
  <2>4. loc = LField(k, x, g) /\ Has(s, LIndex(k, g)) /\ s.store[LIndex(k, g)] = x
    BY <2>2, <2>3 DEF PlaceOK
  <2>5. g \notin found
    BY <1>c, <2>1, <2>4
  <2>6. Has(s1, LIndex(k, g))
    BY <1>a, <1>c, <2>4, <2>5
  <2>7. s1.store[LIndex(k, g)] = x
    BY <1>b, <2>4, <2>6
  <2> QED BY <2>3, <2>4, <2>6, <2>7 DEF PlaceOK
<1> QED
  BY <1>1, <1>2 DEF LocalOK

LEMMA UnplacedCount ==
    ASSUME NEW s, NEW s1, NEW k, NEW found, Erased(s, s1, Unplaced(s, k, found)),
           NEW n, Counted(s, "lindex", k, n), \A f \in found : Has(s, LIndex(k, f))
    PROVE  /\ Counted(s1, "lindex", k, n - Cardinality(found))
           /\ n - Cardinality(found) \in Nat /\ Cardinality(found) \in Nat
<1>1. PICK F : F = Fields(s, "lindex", k) /\ IsFiniteSet(F) /\ Cardinality(F) = n
  BY DEF Counted
<1>2. PICK R : R = {LIndex(k, f) : f \in found}
  OBVIOUS
<1>3. \A loc : loc \in R <=> \E f \in found : loc = LIndex(k, f)
  BY <1>2
<1>4. R \subseteq F
  BY <1>1, <1>3, LocalMembers
<1>5. ASSUME NEW loc PROVE loc \in Fields(s1, "lindex", k) <=> loc \in F \ R
  <2>1. loc \in Fields(s1, "lindex", k) <=> loc \in F /\ loc \notin Unplaced(s, k, found)
    BY <1>1 DEF Erased, Fields
  <2>2. loc \in F => (loc \in Unplaced(s, k, found) <=> loc \in R)
    <3>1. loc \in F => loc[1] = "lindex"
      BY <1>1 DEF Fields
    <3> QED BY <1>3, <3>1, UnplacedIn
  <2> QED BY <2>1, <2>2
<1>6. Fields(s1, "lindex", k) = F \ R
  BY <1>5
<1>7. /\ IsFiniteSet(F \ R) /\ Cardinality(F \ R) = Cardinality(F) - Cardinality(R)
      /\ Cardinality(F) - Cardinality(R) \in Nat /\ Cardinality(R) \in Nat
  BY <1>1, <1>4, CountLeft
<1>8. IsFiniteSet(R)
  BY <1>1, <1>4, FS_Subset
<1>9. \A loc \in R : loc = LIndex(k, loc[3]) /\ loc[3] \in found
  BY <1>3, LocatorParts
<1>10. PICK g : g = [loc \in R |-> loc[3]]
  OBVIOUS
<1>11. g \in [R -> found]
  BY <1>9, <1>10
<1>12. \A a, b \in R : g[a] = g[b] => a = b
  BY <1>9, <1>10
<1>13. ASSUME NEW t \in found PROVE \E a \in R : g[a] = t
  <2>1. LIndex(k, t) \in R /\ LIndex(k, t)[3] = t
    BY <1>3, LocatorParts
  <2>2. g[LIndex(k, t)] = t
    BY <1>10, <2>1
  <2> QED BY <2>1, <2>2
<1>14. Cardinality(found) = Cardinality(R)
  BY <1>8, <1>11, <1>12, <1>13, OneToOne
<1> QED
  BY <1>1, <1>6, <1>7, <1>14 DEF Counted

LEMMA LhdelGood ==
    ASSUME NEW s, NEW w, Good(s, w), NEW k \in Key, NEW fs
    PROVE  Fine(s, lhdel(s, k, fs), w)
<1>0. CASE ~ valid(s, k, "lhash")
  BY <1>0, FineSame DEF lhdel, Guarded
<1>a. CASE valid(s, k, "lhash")
  <2>1. PICK op : op = operation(s, k, "lhash")
    OBVIOUS
  <2>2. /\ op \in Descriptor /\ op.type = "lhash" /\ op.size \in Nat
        /\ Info(s, k).type \in {"none", "lhash"}
        /\ Info(s, k).type = "none" => op.size = 0
        /\ Info(s, k).type = "lhash" => op = Info(s, k) /\ "lhash" \in w.types
        /\ NotOther(s, k) /\ Counted(s, "lindex", k, op.size) /\ LocalOK(s, k)
    BY <1>a, <2>1, LocalFacts
  <2>3. PICK found : found = {f \in fs : Has(s, LIndex(k, f))}
    OBVIOUS
  <2>4. PICK field : field = {LField(k, s.store[LIndex(k, f)], f) : f \in found}
    OBVIOUS
  <2>5. \A f \in found : Has(s, LIndex(k, f))
    BY <2>3
  <2>6. ~ \E loc \in field : ~ Has(s, loc)
    BY <2>4, <2>5, LocalHas
  <2>7. PICK U : U = Unplaced(s, k, found)
    OBVIOUS
  <2>8. U = field \cup {LIndex(k, f) : f \in found}
    BY <2>4, <2>7 DEF Unplaced
  <2>9. PICK s1 : s1 = del(s, U) /\ Erased(s, s1, U)
    BY DelFacts DEF Good
  <2>10. LocalOK(s1, k)
    BY <2>2, <2>7, <2>9, UnplacedLocal
  <2>11. PICK n \in Nat : n = op.size - Cardinality(found) /\ Counted(s1, "lindex", k, n) /\ Cardinality(found) \in Nat
    BY <2>2, <2>5, <2>7, <2>9, UnplacedCount
  <2>12. \A loc \in U : loc[1] \in Content /\ loc[2] = k
    BY <2>7, UnplacedIn, ContentTags DEF KeyTypes
  <2>13. Working(s, s1, k)
    BY <2>9, <2>12, ErasedWorks
  <2>14. Kept(s, s1)
    BY <2>9 DEF Erased
  <2>15. NotOther(s1, k)
    <3>1. \A type : Fields(s1, type, k) \subseteq Fields(s, type, k)
      BY <2>9 DEF Erased, Fields
    <3> QED BY <2>2, <3>1 DEF NotOther
  <2>16. EntriesOK(s1, k, Final(op, n))
    BY <2>2, <2>10, <2>11, <2>15, LocalEntries
  <2>17. op.size = 0 => n = 0
    BY <2>2, <2>11
  <2>18. Info(s, k).type = "none" => Vanishes(op, n)
    BY <2>2, <2>17 DEF Vanishes
  <2>19. Fits(s, k, op, n, FALSE, w)
    BY <2>2, <2>18 DEF Fits, KeyTypes
  <2>20. Fine(s, finalize(s1, k, op, n, FALSE), w)
    BY <2>2, <2>13, <2>14, <2>16, <2>19, ClosingGood
  <2>21. lhdel(s, k, fs) = finalize(s1, k, op, n, FALSE)
    BY <1>a, <2>1, <2>3, <2>4, <2>6, <2>8, <2>9, <2>11 DEF lhdel, Guarded
  <2> QED BY <2>20, <2>21
<1> QED
  BY <1>0, <1>a

LEMMA LhlocdelGood ==
    ASSUME NEW s, NEW w, Good(s, w), NEW k \in Key, NEW f, NEW h
    PROVE  Fine(s, lhlocdel(s, k, f, h), w)
<1>1. Has(s, LField(k, h, f)) => Has(s, LIndex(k, f))
  BY LocalHas
<1>2. Fine(s, lhdel(s, k, {f}), w)
  BY LhdelGood
<1> QED
  BY <1>1, <1>2, FineSame DEF lhlocdel

LEMMA LhsetHdelGood ==
    ASSUME NEW s, NEW w, Good(s, w), NEW k \in Key, NEW other \in Key, "lhash" \in w.types, NEW f, NEW h, NEW g
    PROVE  Fine(s, hdel(lhset(s, k, f, h), other, {g}), w)
<1>1. PICK s1 : s1 = lhset(s, k, f, h) /\ Fine(s, s1, w)
  BY LhsetGood
<1>2. Good(s1, w)
  BY <1>1 DEF Fine
<1>3. Fine(s1, hdel(s1, other, {g}), w)
  BY <1>2, HdelGood
<1> QED
  BY <1>1, <1>3, FineTrans

LEMMA FallbackGood ==
    ASSUME NEW s, NEW w, Good(s, w), NEW k \in Key, NEW fallback \in Key, "lhash" \in w.types, NEW f, NEW h
    PROVE  /\ Fine(s, lhsetAndDelFallback(s, k, f, h, fallback), w)
           /\ Fine(s, lhdelWithFallback(s, k, f, fallback), w)
BY LhsetHdelGood, LhdelGood, HdelGood DEF lhsetAndDelFallback, lhdelWithFallback

LEMMA ConvertGood ==
    ASSUME NEW s, NEW w, Good(s, w), NEW k \in Key, NEW target \in Key, "lhash" \in w.types,
           NEW f, NEW g, NEW h
    PROVE  Fine(s, convertHashField(s, k, f, target, g, h), w)
<1>1. Fine(s, hdel(lhset(s, target, g, h), k, {f}), w)
  BY LhsetHdelGood
<1>2. Has(s, LIndex(target, g)) => Has(s, LField(target, s.store[LIndex(target, g)], g))
  BY LocalHas
<1> QED
  BY <1>1, <1>2, FineSame DEF convertHashField

-----------------------------------------------------------------------------
(* Versioned hashes *)

\* The revision of k has got its number.
Revised(s, s1, k, version) ==
    /\ DOMAIN s1.revs = DOMAIN s.revs \cup {k} /\ s1.revs[k] = version
    /\ \A key \in DOMAIN s.revs : key # k => s1.revs[key] = s.revs[key]

LEMMA RevisionFacts ==
    ASSUME NEW s, Sound(s), NEW k, NEW version, k \in DOMAIN s.revs => s.revs[k] = version
    PROVE  /\ Sound(setRevisionNumber(s, k, version)) /\ Revised(s, setRevisionNumber(s, k, version), k, version)
           /\ setRevisionNumber(s, k, version).store = s.store
           /\ setRevisionNumber(s, k, version).puts = s.puts
           /\ setRevisionNumber(s, k, version).spoiled = s.spoiled
           /\ setRevisionNumber(s, k, version).cache = s.cache
<1>1. PICK r : r = [key \in DOMAIN s.revs \cup {k} |-> IF key = k THEN version ELSE s.revs[key]]
  OBVIOUS
<1>2. setRevisionNumber(s, k, version) = WithRevs(s, r)
  BY <1>1 DEF setRevisionNumber, WithRevs
<1>3. PICK s1 : s1 = WithRevs(s, r)
  OBVIOUS
<1>4. /\ Sound(s1) /\ s1.revs = r /\ s1.store = s.store /\ s1.puts = s.puts /\ s1.spoiled = s.spoiled
      /\ s1.cache = s.cache
  BY <1>3, RevsField
<1>5. DOMAIN r = DOMAIN s.revs \cup {k}
  BY <1>1
<1>6. r[k] = version /\ \A key \in DOMAIN s.revs : key # k => r[key] = s.revs[key]
  BY <1>1
<1>7. Revised(s, s1, k, version)
  BY <1>4, <1>5, <1>6 DEF Revised
<1> QED
  BY <1>2, <1>3, <1>4, <1>7

\* Of other keys the same have been spoiled.
Spoils(s, s1, k) == s1.spoiled \subseteq Key /\ \A key : key # k => (key \in s1.spoiled <=> key \in s.spoiled)

\* What is not key k stays.
Steps(s, s2, k, w) ==
    /\ Good(s2, w) /\ Now(s2) = Now(s)
    /\ \A key \in Key : Same(s, s2, Lease(key))
    /\ \A key \in Key : key # k => SameKey(s, s2, key) /\ SameRev(s, s2, key)

SameVals(s, s2, k) == \A loc : loc[1] = "vhash" /\ loc[2] = k => Same(s, s2, loc)

\* The version of k counts the transaction.
Counts(s, s2, k) ==
    /\ valid(s, k, "vhash") /\ k \notin s.spoiled /\ Info(s2, k).type = "vhash" /\ k \in s2.puts
    /\ k \in s.puts => k \notin s2.spoiled /\ Info(s2, k).start = Info(s, k).start
    /\ k \notin s.puts /\ k \notin s2.spoiled => Info(s2, k).start = Info(s, k).start + 1
    /\ k \in s2.spoiled => SameVals(s, s2, k)

\* Of the areas before, with the new fields, with the new revision and at the end.
Versioned(s, s0, s1, s2, k, version, w) ==
    /\ Steps(s, s2, k, w) /\ Info(s2, k).type = "vhash" /\ Info(s2, k).start = version
    /\ k \in s2.puts /\ s2.spoiled = s1.spoiled /\ SameVals(s0, s2, k)

LEMMA VersionedGood ==
    ASSUME NEW s, NEW s0, NEW s1, NEW w, Good(s, w), NEW k \in Key, "vhash" \in w.types, valid(s, k, "vhash"),
           NEW op, op = operation(s, k, "vhash"), NEW version \in Int, NEW n \in Nat,
           Working(s, s0, k), Only(s0, k, "vhash"), Counted(s0, "vhash", k, n),
           Sound(s1), s1.store = s0.store, s1.puts = s.puts, s1.cache = s.cache,
           Revised(s, s1, k, version), Spoils(s, s1, k)
    PROVE  Versioned(s, s0, s1, finalize(s1, k, [op EXCEPT !.start = version], n, TRUE), k, version, w)
<1>0. "vhash" \in KeyTypes \ {"lease"} /\ "vhash" \in PlainTypes /\ "vhash" # "none"
  BY DEF KeyTypes, PlainTypes
<1>1. op \in Descriptor /\ op.type = "vhash" /\ Info(s, k).type \in {"none", "vhash"}
  BY <1>0, OperationFacts
<1>2. PICK op2 : op2 = [op EXCEPT !.start = version]
  OBVIOUS
<1>3. op2 = setListIndex(op, Left, version)
  BY <1>2 DEF setListIndex
<1>4. op2 \in Descriptor /\ op2.type = "vhash" /\ op2.start = version
  BY <1>1, <1>3, ListIndexFacts
<1>5. Working(s, s1, k)
  BY DEF Working, Same
<1>6. \A type : Fields(s1, type, k) = Fields(s0, type, k)
  BY DEF Fields
<1>7. (\A type \in Content : type # "vhash" => Fields(s1, type, k) = {}) /\ Counted(s1, "vhash", k, n)
  BY <1>6 DEF Only, Counted
<1>8. EntriesOK(s1, k, Final(op2, n))
  BY <1>0, <1>4, <1>7, PlainEntries
<1>9. Fits(s, k, op2, n, TRUE, w)
  BY <1>0, <1>1, <1>4 DEF Fits
<1>a. PICK force \in BOOLEAN : force = TRUE /\ Fits(s, k, op2, n, force, w)
  BY <1>9
<1>10. PICK s2 : s2 = finalize(s1, k, op2, n, force)
  OBVIOUS
<1>11. /\ KeyOK(s2, k, w) /\ (\A loc : ~ IsOwn(loc, k) => Same(s, s2, loc))
       /\ ~ IsLease(s, k) /\ ~ IsLease(s2, k)
  BY <1>5, <1>8, <1>a, <1>10, Closing
<1>12. Finalized(s1, s2, k, op2, n, force)
  BY <1>5, <1>a, <1>10, FinalInfo
<1>13. ~ Vanishes(op2, n)
  BY <1>4 DEF Vanishes
<1>b. Info(s2, k) = Resized(op2, n)
  <2>1. Has(s2, Desc(k)) /\ s2.store[Desc(k)] = Resized(op2, n)
    BY <1>a, <1>12, <1>13 DEF Finalized
  <2> QED BY <2>1 DEF Info
<1>14. /\ Sound(s2) /\ s2.revs = s1.revs /\ s2.spoiled = s1.spoiled /\ s2.cache = s.cache /\ k \in s2.puts
       /\ (\A key : key # k => (key \in s2.puts <=> key \in s.puts)) /\ s2.puts \subseteq s.puts \cup {k}
  BY <1>12, <1>13, <1>a DEF Finalized
<1>15. Info(s2, k).type = "vhash" /\ Info(s2, k).start = version
  BY <1>4, <1>b, ResizedFacts
<1>16. RevOK(s2, k)
  BY <1>14, <1>15 DEF RevOK, Revised
<1>17. RegistersOK(s2)
  BY <1>14 DEF Good, RegistersOK, Revised, Spoils
<1>18. \A key : key # k => SameRev(s, s2, key)
  BY <1>14 DEF SameRev, Revised, Spoils
<1>19. KeyStep(s, s2, k)
  BY <1>11, <1>14, <1>17, <1>18 DEF KeyStep
<1>20. Steps(s, s2, k, w)
  BY <1>11, <1>16, <1>19, KeyStepGood DEF Steps
<1>21. ASSUME NEW loc, loc[1] = "vhash", loc[2] = k PROVE Same(s0, s2, loc)
  <2>1. loc # Desc(k)
    BY <1>21, LocatorParts
  <2>2. Same(s1, s2, loc)
    BY <1>12, <2>1 DEF Finalized
  <2> QED BY <2>2 DEF Same
<1>22. SameVals(s0, s2, k)
  BY <1>21 DEF SameVals
<1>23. Versioned(s, s0, s1, s2, k, version, w)
  BY <1>14, <1>15, <1>20, <1>22 DEF Versioned
<1> QED
  BY <1>2, <1>10, <1>a, <1>23

\* A revision that has been numbered is that of the descriptor.
LEMMA RevisionNow ==
    ASSUME NEW s, NEW w, Good(s, w), NEW k \in Key, valid(s, k, "vhash"), k \notin s.spoiled,
           NEW op, op = operation(s, k, "vhash")
    PROVE  /\ op.start \in Int /\ op.size \in Nat /\ op.size = Info(s, k).size /\ op.start = Info(s, k).start
           /\ k \in DOMAIN s.revs => k \in s.puts /\ s.revs[k] = op.start
<1>1. "vhash" \in KeyTypes
  BY DEF KeyTypes
<1>2. op \in Descriptor /\ op.start = Info(s, k).start /\ op.size = Info(s, k).size
  BY <1>1, OperationFacts
<1>3. RevOK(s, k)
  BY DEF Good
<1> QED
  BY <1>2, <1>3 DEF RevOK, Descriptor

LEMMA VhsetGood ==
    ASSUME NEW s, NEW w, Good(s, w), NEW k \in Key, "vhash" \in w.types, k \notin s.spoiled, NEW f, NEW v
    PROVE  Fine(s, vhset(s, k, f, v), w) \/ (Steps(s, vhset(s, k, f, v), k, w) /\ Counts(s, vhset(s, k, f, v), k))
<1>0. CASE ~ valid(s, k, "vhash")
  BY <1>0, FineSame DEF vhset, Guarded
<1>a. CASE valid(s, k, "vhash")
  <2>1. PICK op : op = operation(s, k, "vhash")
    OBVIOUS
  <2>2. /\ op.start \in Int /\ op.size \in Nat /\ op.size = Info(s, k).size /\ op.start = Info(s, k).start
        /\ k \in DOMAIN s.revs => k \in s.puts /\ s.revs[k] = op.start
    BY <1>a, <2>1, RevisionNow
  <2>3. PICK version \in Int : version = op.start + IF k \in s.puts THEN 0 ELSE 1
    BY <2>2
  <2>4. k \in DOMAIN s.revs => s.revs[k] = version
    BY <2>2, <2>3
  <2>5. PICK loc : loc = Fld("vhash", k, f)
    OBVIOUS
  <2>6. PICK entry : entry = One(loc, v) /\ DOMAIN entry = {loc}
    BY OneFacts
  <2>7. PICK s0 : s0 = put(s, entry) /\ Wrote(s, s0, entry)
    BY PutFacts DEF Good
  <2>8. Sound(s0) /\ Kept(s, s0)
    BY <2>7 DEF Wrote
  <2>9. PICK T \in PlainTypes : T = "vhash"
    BY DEF PlainTypes
  <2>10. /\ IsFiniteSet(DOMAIN entry)
         /\ \A l \in DOMAIN entry : l[1] = T /\ l[2] = k /\ l = Fld(T, k, l[3])
    <3>1. IsFiniteSet({loc})
      BY FS_Singleton
    <3>2. loc[1] = T /\ loc[2] = k /\ loc = Fld(T, k, loc[3])
      BY <2>5, <2>9, LocatorParts
    <3> QED BY <2>6, <3>1, <3>2
  <2>11. PICK c : c = Cardinality({l \in DOMAIN entry : ~ Has(s, l)})
    OBVIOUS
  <2>12. /\ \A type \in Content : type # T => Fields(s0, type, k) = {}
         /\ c \in Nat /\ Counted(s0, T, k, Info(s, k).size + c) /\ Working(s, s0, k)
    BY <1>a, <2>7, <2>9, <2>10, <2>11, AddedEntries
  <2>13. c = IF Has(s, loc) THEN 0 ELSE 1
    <3>1. CASE Has(s, loc)
      <4>1. {l \in DOMAIN entry : ~ Has(s, l)} = {}
        BY <2>6, <3>1
      <4> QED BY <2>11, <3>1, <4>1, FS_EmptySet
    <3>2. CASE ~ Has(s, loc)
      <4>1. {l \in DOMAIN entry : ~ Has(s, l)} = {loc}
        BY <2>6, <3>2
      <4>2. Cardinality({loc}) = 1
        BY FS_Singleton
      <4> QED BY <2>11, <3>2, <4>1, <4>2
    <3> QED BY <3>1, <3>2
  <2>14. PICK n \in Nat : n = op.size + c
    BY <2>2, <2>12
  <2>15. Only(s0, k, "vhash") /\ Counted(s0, "vhash", k, n)
    BY <2>2, <2>9, <2>12, <2>14 DEF Only
  <2>16. PICK s1 : s1 = setRevisionNumber(s0, k, version)
    OBVIOUS
  <2>17. s0.revs = s.revs /\ s0.puts = s.puts /\ s0.spoiled = s.spoiled /\ s0.cache = s.cache
    BY <2>8 DEF Kept
  <2>18. /\ Sound(s1) /\ Revised(s0, s1, k, version) /\ s1.store = s0.store
         /\ s1.puts = s.puts /\ s1.spoiled = s.spoiled /\ s1.cache = s.cache
    BY <2>4, <2>8, <2>16, <2>17, RevisionFacts
  <2>19. Revised(s, s1, k, version) /\ Spoils(s, s1, k)
    BY <2>17, <2>18 DEF Revised, Spoils, Good, RegistersOK
  <2>20. PICK s2 : /\ s2 = finalize(s1, k, [op EXCEPT !.start = version], n, TRUE)
                   /\ Steps(s, s2, k, w) /\ Info(s2, k).type = "vhash" /\ Info(s2, k).start = version
                   /\ k \in s2.puts /\ s2.spoiled = s1.spoiled /\ SameVals(s0, s2, k)
    <3>1. PICK r : r = finalize(s1, k, [op EXCEPT !.start = version], n, TRUE) /\ Versioned(s, s0, s1, r, k, version, w)
      BY <1>a, <2>1, <2>12, <2>15, <2>18, <2>19, VersionedGood
    <3> QED BY <3>1 DEF Versioned
  <2>a. Counts(s, s2, k)
    <3>1. k \notin s2.spoiled
      BY <2>18, <2>20
    <3>2. k \in s.puts => version = Info(s, k).start
      BY <2>2, <2>3
    <3>3. k \notin s.puts => version = Info(s, k).start + 1
      BY <2>2, <2>3
    <3> QED BY <1>a, <2>20, <3>1, <3>2, <3>3 DEF Counts
  <2>21. vhset(s, k, f, v) = s2
    BY <1>a, <2>1, <2>3, <2>5, <2>6, <2>7, <2>13, <2>14, <2>16, <2>20 DEF vhset, Guarded
  <2> QED BY <2>20, <2>a, <2>21
<1> QED
  BY <1>0, <1>a

LEMMA VhdelGood ==
    ASSUME NEW s, NEW w, Good(s, w), NEW k \in Key, "vhash" \in w.types, k \notin s.spoiled, NEW fs
    PROVE  Fine(s, vhdel(s, k, fs), w) \/ (Steps(s, vhdel(s, k, fs), k, w) /\ Counts(s, vhdel(s, k, fs), k))
<1>0. CASE ~ valid(s, k, "vhash")
  BY <1>0, FineSame DEF vhdel, Guarded
<1>a. CASE valid(s, k, "vhash")
  <2>1. PICK op : op = operation(s, k, "vhash")
    OBVIOUS
  <2>2. /\ op.start \in Int /\ op.size \in Nat /\ op.size = Info(s, k).size /\ op.start = Info(s, k).start
        /\ k \in DOMAIN s.revs => k \in s.puts /\ s.revs[k] = op.start
    BY <1>a, <2>1, RevisionNow
  <2>3. PICK removed : removed = {loc \in {Fld("vhash", k, f) : f \in fs} : Has(s, loc)}
    OBVIOUS
  <2>4. PICK version \in Int : version = op.start + IF removed = {} \/ k \in s.puts THEN 0 ELSE 1
    BY <2>2
  <2>5. k \in DOMAIN s.revs => s.revs[k] = version
    BY <2>2, <2>4
  <2>6. PICK s0 : s0 = del(s, removed) /\ Erased(s, s0, removed)
    BY DelFacts DEF Good
  <2>7. Sound(s0) /\ Kept(s, s0)
    BY <2>6 DEF Erased
  <2>8. PICK T \in PlainTypes : T = "vhash"
    BY DEF PlainTypes
  <2>9. \A loc \in removed : loc[1] = T /\ loc[2] = k /\ Has(s, loc)
    BY <2>3, <2>8, LocatorParts
  <2>10. PICK c : c = Cardinality(removed)
    OBVIOUS
  <2>11. /\ \A type \in Content : type # T => Fields(s0, type, k) = {}
         /\ Info(s, k).size - c \in Nat /\ Counted(s0, T, k, Info(s, k).size - c) /\ Working(s, s0, k)
    BY <1>a, <2>6, <2>8, <2>9, <2>10, RemovedEntries
  <2>12. PICK n \in Nat : n = op.size - c
    BY <2>2, <2>11
  <2>13. Only(s0, k, "vhash") /\ Counted(s0, "vhash", k, n)
    BY <2>2, <2>8, <2>11, <2>12 DEF Only
  <2>14. PICK new : new = setRevisionNumber(s0, k, version)
    OBVIOUS
  <2>15. s0.revs = s.revs /\ s0.puts = s.puts /\ s0.spoiled = s.spoiled /\ s0.cache = s.cache
    BY <2>7 DEF Kept
  <2>16. /\ Sound(new) /\ Revised(s0, new, k, version) /\ new.store = s0.store
         /\ new.puts = s.puts /\ new.spoiled = s.spoiled /\ new.cache = s.cache
    BY <2>5, <2>7, <2>14, <2>15, RevisionFacts
  <2>17. PICK sp : sp = IF removed = {} /\ k \notin s.puts THEN new.spoiled \cup {k} ELSE new.spoiled
    OBVIOUS
  <2>18. PICK s1 : s1 = WithSpoiled(new, sp)
    OBVIOUS
  <2>19. /\ Sound(s1) /\ s1.spoiled = sp /\ s1.store = s0.store /\ s1.puts = s.puts /\ s1.cache = s.cache
         /\ s1.revs = new.revs
    BY <2>16, <2>18, SpoiledField
  <2>20. Revised(s, s1, k, version)
    BY <2>15, <2>16, <2>19 DEF Revised
  <2>21. Spoils(s, s1, k)
    <3>1. s.spoiled \subseteq Key
      BY DEF Good, RegistersOK
    <3> QED BY <2>16, <2>17, <2>19, <3>1 DEF Spoils
  <2>22. PICK s2 : /\ s2 = finalize(s1, k, [op EXCEPT !.start = version], n, TRUE)
                   /\ Steps(s, s2, k, w) /\ Info(s2, k).type = "vhash" /\ Info(s2, k).start = version
                   /\ k \in s2.puts /\ s2.spoiled = s1.spoiled /\ SameVals(s0, s2, k)
    <3>1. PICK r : r = finalize(s1, k, [op EXCEPT !.start = version], n, TRUE) /\ Versioned(s, s0, s1, r, k, version, w)
      BY <1>a, <2>1, <2>11, <2>13, <2>19, <2>20, <2>21, VersionedGood
    <3> QED BY <3>1 DEF Versioned
  <2>a. Counts(s, s2, k)
    <3>1. k \in s2.spoiled <=> removed = {} /\ k \notin s.puts
      BY <2>16, <2>17, <2>19, <2>22
    <3>2. k \in s.puts => version = Info(s, k).start
      BY <2>2, <2>4
    <3>3. k \notin s.puts /\ removed # {} => version = Info(s, k).start + 1
      BY <2>2, <2>4
    <3>4. ASSUME removed = {} PROVE SameVals(s, s2, k)
      <4>1. \A loc : Same(s, s0, loc)
        BY <2>6, <3>4 DEF Erased
      <4> QED BY <2>22, <4>1, SameTrans DEF SameVals
    <3> QED BY <1>a, <2>22, <3>1, <3>2, <3>3, <3>4 DEF Counts
  <2>23. vhdel(s, k, fs) = s2
    BY <1>a, <2>1, <2>3, <2>4, <2>6, <2>10, <2>12, <2>14, <2>17, <2>18, <2>22 DEF vhdel, Guarded, WithSpoiled
  <2> QED BY <2>22, <2>a, <2>23
<1> QED
  BY <1>0, <1>a

-----------------------------------------------------------------------------
(* Leases and the clock *)

\* The entries of the leases ks.
Terms(s, ks) == UNION {{Event(Info(s, k).end, k), Lease(k), Desc(k)} : k \in ks}

LEMMA TermsIn ==
    ASSUME NEW s, NEW ks, NEW loc
    PROVE  loc \in Terms(s, ks) <=> \E k \in ks : loc = Event(Info(s, k).end, k) \/ loc = Lease(k) \/ loc = Desc(k)
BY DEF Terms

LEMMA DeadlineIn ==
    ASSUME NEW s, NEW e
    PROVE  e \in Deadlines(s) <=> \E k \in Key : IsLease(s, k) /\ e = <<Info(s, k).end, k>>
BY DEF Deadlines

\* What is left when the leases ks have been released.
Released(s, s2, ks) ==
    /\ Sound(s2) /\ s2.revs = s.revs /\ s2.spoiled = s.spoiled /\ s2.puts = s.puts \ ks
    /\ \A e : e \in s2.cache <=> e \in s.cache /\ \A k \in ks : e # <<Info(s, k).end, k>>
    /\ \A loc : Has(s2, loc) <=> Has(s, loc) /\ loc \notin Terms(s, ks)
    /\ \A loc : loc \notin Terms(s, ks) => Same(s, s2, loc)

LEMMA LeaseIntact ==
    ASSUME NEW s, NEW w, Good(s, w), NEW k \in Key, IsLease(s, k)
    PROVE  Intact(s, k) /\ Has(s, Lease(k)) /\ Has(s, Event(Info(s, k).end, k)) /\ <<Info(s, k).end, k>> \in s.cache
<1>1. Has(s, Event(Info(s, k).end, k)) /\ s.cache = Deadlines(s)
  BY DEF Good, EventsOK
<1>2. <<Info(s, k).end, k>> \in s.cache
  BY <1>1, DeadlineIn
<1>3. Fields(s, "lease", k) = {Lease(k)}
  BY DEF Good, KeyOK, EntriesOK, IsLease
<1>4. Has(s, Lease(k))
  BY <1>3 DEF Fields, Has
<1> QED
  BY <1>1, <1>2, <1>4 DEF Intact

LEMMA ReleaseFacts ==
    ASSUME NEW s, NEW w, Good(s, w), NEW ks \in SUBSET Key, \A k \in ks : IsLease(s, k)
    PROVE  Released(s, releaseLeases(s, ks), ks)
<1>1. ~ \E k \in ks : ~ Intact(s, k)
  BY LeaseIntact
<1>2. PICK d : d = del(s, Terms(s, ks)) /\ Erased(s, d, Terms(s, ks))
  BY DelFacts DEF Good
<1>3. Sound(d) /\ Kept(s, d)
  BY <1>2 DEF Erased
<1>4. PICK ps, X : ps = d.puts \ ks /\ X = d.cache \ {<<Info(s, k).end, k>> : k \in ks}
  OBVIOUS
<1>5. releaseLeases(s, ks) = [d EXCEPT !.puts = ps, !.cache = X]
  BY <1>1, <1>2, <1>4 DEF releaseLeases, Terms
<1>6. PICK s1 : s1 = WithPuts(d, ps)
  OBVIOUS
<1>7. /\ Sound(s1) /\ s1.puts = ps /\ s1.store = d.store /\ s1.revs = d.revs /\ s1.spoiled = d.spoiled
      /\ s1.cache = d.cache
  BY <1>3, <1>6, PutsField
<1>8. PICK s2 : s2 = WithCache(s1, X)
  OBVIOUS
<1>9. /\ Sound(s2) /\ s2.puts = ps /\ s2.store = d.store /\ s2.revs = d.revs /\ s2.spoiled = d.spoiled
      /\ s2.cache = X
  BY <1>7, <1>8, CacheField
<1>10. [d EXCEPT !.puts = ps, !.cache = X] = s2
  BY <1>6, <1>8 DEF WithPuts, WithCache
<1>11. \A e : e \in s2.cache <=> e \in s.cache /\ \A k \in ks : e # <<Info(s, k).end, k>>
  BY <1>3, <1>4, <1>9 DEF Kept
<1>12. \A loc : Has(s2, loc) <=> Has(s, loc) /\ loc \notin Terms(s, ks)
  BY <1>2, <1>9 DEF Erased, Has
<1>13. \A loc : loc \notin Terms(s, ks) => Same(s, s2, loc)
  BY <1>2, <1>9 DEF Erased, Same
<1>14. Released(s, s2, ks)
  BY <1>3, <1>4, <1>9, <1>11, <1>12, <1>13 DEF Released, Kept
<1> QED
  BY <1>5, <1>10, <1>14

\* A key that is none.
LEMMA NoneOK ==
    ASSUME NEW s, NEW k, NEW w, ~ Has(s, Desc(k)), \A type \in Content : Fields(s, type, k) = {}
    PROVE  KeyOK(s, k, w) /\ Info(s, k) = NoKey
<1>1. Info(s, k) = NoKey /\ Info(s, k).type = "none"
  BY NoKeyFacts DEF Info
<1>2. InfoOK(Info(s, k), w)
  BY <1>1, NoKeyFacts DEF InfoOK
<1>3. EntriesOK(s, k, Info(s, k))
  BY <1>1 DEF EntriesOK, FieldTypes
<1> QED
  BY <1>1, <1>2, <1>3 DEF KeyOK

LEMMA ReleasedKeys ==
    ASSUME NEW s, NEW s2, NEW w, Good(s, w), NEW ks \in SUBSET Key, \A k \in ks : IsLease(s, k), Released(s, s2, ks)
    PROVE  /\ \A key : key \notin ks => SameKey(s, s2, key)
           /\ \A k \in ks : KeyOK(s2, k, w) /\ Info(s2, k) = NoKey
           /\ Same(s, s2, Clock)
<1>1. ASSUME NEW key, key \notin ks PROVE SameKey(s, s2, key)
  <2>1. ASSUME NEW loc, IsOwn(loc, key) PROVE loc \notin Terms(s, ks)
    <3>1. loc[2] = key /\ loc[1] # "event"
      BY <2>1, ContentTags DEF IsOwn
    <3> QED BY <1>1, <3>1, TermsIn, LocatorParts
  <2> QED BY <2>1 DEF SameKey, Released
<1>2. ASSUME NEW k \in ks PROVE KeyOK(s2, k, w) /\ Info(s2, k) = NoKey
  <2>1. ~ Has(s2, Desc(k)) /\ ~ Has(s2, Lease(k))
    BY <1>2, TermsIn DEF Released
  <2>2. EntriesOK(s, k, Info(s, k)) /\ Info(s, k).type = "lease"
    BY <1>2 DEF Good, KeyOK, IsLease
  <2>3. /\ \A type \in Content : type # "lease" => Fields(s, type, k) = {}
        /\ Fields(s, "lease", k) = {Lease(k)}
    BY <2>2 DEF EntriesOK, Owned
  <2>4. \A type : Fields(s2, type, k) \subseteq Fields(s, type, k)
    BY DEF Released, Fields, Has
  <2>5. Fields(s2, "lease", k) = {}
    BY <2>1, <2>3, <2>4 DEF Fields, Has
  <2>6. \A type \in Content : Fields(s2, type, k) = {}
    BY <2>3, <2>4, <2>5
  <2> QED BY <2>1, <2>6, NoneOK
<1>3. Same(s, s2, Clock)
  <2>1. Clock \notin Terms(s, ks)
    BY TermsIn, LocatorParts
  <2> QED BY <2>1 DEF Released
<1> QED
  BY <1>1, <1>2, <1>3

LEMMA ReleasedGood ==
    ASSUME NEW s, NEW s2, NEW w, Good(s, w), NEW ks \in SUBSET Key, \A k \in ks : IsLease(s, k), Released(s, s2, ks)
    PROVE  /\ Good(s2, w) /\ Now(s2) = Now(s)
           /\ \A k \in Key : IsLease(s2, k) <=> IsLease(s, k) /\ k \notin ks
           /\ \A key \in Key : key \notin ks => Info(s2, key) = Info(s, key)
<1>1. /\ \A key : key \notin ks => SameKey(s, s2, key)
      /\ \A k \in ks : KeyOK(s2, k, w) /\ Info(s2, k) = NoKey
      /\ Same(s, s2, Clock)
  BY ReleasedKeys
<1>2. ClockOK(s2, w) /\ Now(s2) = Now(s)
  BY <1>1, SameTime DEF Good
<1>3. \A key \in Key : key \notin ks => Info(s2, key) = Info(s, key)
  BY <1>1, SameKeyFacts
<1>4. \A k \in ks : ~ IsLease(s2, k)
  BY <1>1, NoKeyFacts DEF IsLease
<1>5. \A k \in Key : IsLease(s2, k) <=> IsLease(s, k) /\ k \notin ks
  BY <1>3, <1>4 DEF IsLease
<1>6. ASSUME NEW loc \in DOMAIN s2.store, loc[1] = "event" PROVE EventOf(s2, loc)
  <2>1. Has(s, loc) /\ loc \notin Terms(s, ks)
    BY DEF Released, Has
  <2>2. PICK k \in Key : IsLease(s, k) /\ loc = Event(Info(s, k).end, k)
    BY <1>6, <2>1 DEF Good, EventsOK, EventOf, Has
  <2>3. k \notin ks
    BY <2>1, <2>2, TermsIn
  <2> QED BY <1>3, <1>5, <2>2, <2>3 DEF EventOf
<1>7. ASSUME NEW k \in Key, IsLease(s2, k) PROVE Has(s2, Event(Info(s2, k).end, k))
  <2>1. k \notin ks /\ IsLease(s, k) /\ Info(s2, k) = Info(s, k)
    BY <1>3, <1>5, <1>7
  <2>2. Has(s, Event(Info(s, k).end, k))
    BY <2>1, LeaseIntact
  <2>3. Event(Info(s, k).end, k) \notin Terms(s, ks)
    BY <2>1, TermsIn, LocatorParts
  <2> QED BY <2>1, <2>2, <2>3 DEF Released
<1>8. ASSUME NEW e PROVE e \in s2.cache <=> e \in Deadlines(s2)
  <2>1. s.cache = Deadlines(s)
    BY DEF Good, EventsOK
  <2>2. e \in s2.cache <=> e \in Deadlines(s) /\ \A k \in ks : e # <<Info(s, k).end, k>>
    BY <2>1 DEF Released
  <2>3. ASSUME e \in s2.cache PROVE e \in Deadlines(s2)
    <3>1. PICK k \in Key : IsLease(s, k) /\ e = <<Info(s, k).end, k>>
      BY <2>2, <2>3, DeadlineIn
    <3>2. k \notin ks
      BY <2>2, <2>3, <3>1
    <3> QED BY <1>3, <1>5, <3>1, <3>2, DeadlineIn
  <2>4. ASSUME e \in Deadlines(s2) PROVE e \in s2.cache
    <3>1. PICK k \in Key : IsLease(s2, k) /\ e = <<Info(s2, k).end, k>>
      BY <2>4, DeadlineIn
    <3>2. k \notin ks /\ IsLease(s, k) /\ Info(s2, k) = Info(s, k)
      BY <1>3, <1>5, <3>1
    <3>3. e \in Deadlines(s)
      BY <3>1, <3>2, DeadlineIn
    <3>4. \A key \in ks : e # <<Info(s, key).end, key>>
      BY <3>1, <3>2
    <3> QED BY <2>2, <3>3, <3>4
  <2> QED BY <2>3, <2>4
<1>9. s2.cache = Deadlines(s2)
  BY <1>8
<1>10. EventsOK(s2)
  BY <1>6, <1>7, <1>9 DEF EventsOK
<1>11. ASSUME NEW key \in Key PROVE KeyOK(s2, key, w) /\ RevOK(s2, key) /\ TermOK(s2, key, w)
  <2>1. KeyOK(s, key, w) /\ RevOK(s, key) /\ TermOK(s, key, w)
    BY DEF Good
  <2>2. CASE key \in ks
    <3>1. KeyOK(s2, key, w)
      BY <1>1, <2>2
    <3>2. ~ IsLease(s2, key) /\ IsLease(s, key)
      BY <1>4, <2>2
    <3>3. Info(s, key).type # "vhash"
      BY <3>2 DEF IsLease
    <3>4. RevOK(s2, key)
      <4>1. Info(s2, key).type # "vhash" /\ key \notin s2.puts
        BY <1>1, <2>2, NoKeyFacts DEF Released
      <4>2. s2.revs = s.revs /\ s2.spoiled = s.spoiled
        BY DEF Released
      <4> QED BY <2>1, <3>3, <4>1, <4>2 DEF RevOK
    <3> QED BY <3>1, <3>2, <3>4 DEF TermOK
  <2>3. CASE key \notin ks
    <3>1. KeyOK(s2, key, w)
      BY <1>1, <2>1, <2>3, SameKeyFacts
    <3>2. SameRev(s, s2, key)
      BY <2>3 DEF Released, SameRev
    <3>3. RevOK(s2, key)
      BY <1>3, <2>1, <2>3, <3>2, SameRevOK
    <3>4. TermOK(s2, key, w)
      BY <1>2, <1>3, <2>1, <2>3, SameTerm
    <3> QED BY <3>1, <3>3, <3>4
  <2> QED BY <2>2, <2>3
<1>12. Sound(s2) /\ RegistersOK(s2)
  BY DEF Released, Good, RegistersOK
<1> QED
  BY <1>2, <1>3, <1>5, <1>10, <1>11, <1>12 DEF Good

LEMMA ExpireFacts ==
    ASSUME NEW s, NEW w, Good(s, w), NEW t \in Nat
    PROVE  \E ks \in SUBSET Key :
              /\ \A k \in ks : IsLease(s, k)
              /\ \A k \in Key : IsLease(s, k) /\ k \notin ks => ~ Info(s, k).end <= t
              /\ \A k \in ks : Info(s, k).end <= t
              /\ expire(s, {e \in s.cache : e[1] <= t}) = releaseLeases(s, ks)
<1>1. PICK due : due = {e \in s.cache : e[1] <= t}
  OBVIOUS
<1>2. s.cache = Deadlines(s)
  BY DEF Good, EventsOK
<1>3. ASSUME NEW e \in due
      PROVE  /\ e[2] \in Key /\ IsLease(s, e[2]) /\ Info(s, e[2]).end = e[1] /\ Info(s, e[2]).end <= t
  <2>1. PICK k \in Key : IsLease(s, k) /\ e = <<Info(s, k).end, k>>
    BY <1>1, <1>2, <1>3, DeadlineIn
  <2>2. e[1] = Info(s, k).end /\ e[2] = k
    BY <2>1
  <2>3. e[1] <= t
    BY <1>1, <1>3
  <2> QED BY <2>1, <2>2, <2>3
<1>4. PICK ks : ks = {e[2] : e \in due}
  OBVIOUS
<1>5. ks \in SUBSET Key /\ (\A k \in ks : IsLease(s, k)) /\ (\A k \in ks : Info(s, k).end <= t)
  BY <1>3, <1>4
<1>6. ~ \E e \in due : Info(s, e[2]).type # "lease" \/ Info(s, e[2]).end # e[1]
  BY <1>3 DEF IsLease
<1>7. expire(s, due) = releaseLeases(s, ks)
  BY <1>4, <1>6 DEF expire
<1>8. ASSUME NEW k \in Key, IsLease(s, k), Info(s, k).end <= t PROVE k \in ks
  <2>1. PICK e : e = <<Info(s, k).end, k>>
    OBVIOUS
  <2>2. e \in s.cache /\ e[1] <= t /\ e[2] = k
    BY <1>2, <1>8, <2>1, DeadlineIn
  <2>3. e \in due
    BY <1>1, <2>2
  <2> QED BY <1>4, <2>2, <2>3
<1> QED
  BY <1>1, <1>5, <1>7, <1>8

Over(s, k, t) == IsLease(s, k) /\ Info(s, k).end <= t

\* The clock of the state machine goes on, and leases that are over are gone.
LEMMA AdvanceGood ==
    ASSUME NEW s, NEW w, Good(s, w), NEW t \in Nat, t <= w.clock, Now(s) < t
    PROVE  /\ Good(advanceClock(s, t), w) /\ Now(advanceClock(s, t)) = t
           /\ \A k \in Key : IsLease(advanceClock(s, t), k) => IsLease(s, k)
           /\ \A k \in Key : ~ Over(s, k, t) => SameKey(s, advanceClock(s, t), k)
           /\ Passes(s, advanceClock(s, t))
<1>1. PICK ks \in SUBSET Key :
              /\ \A k \in ks : IsLease(s, k)
              /\ \A k \in Key : IsLease(s, k) /\ k \notin ks => ~ Info(s, k).end <= t
              /\ \A k \in ks : Info(s, k).end <= t
              /\ expire(s, {e \in s.cache : e[1] <= t}) = releaseLeases(s, ks)
  BY ExpireFacts
<1>2. PICK s1 : s1 = releaseLeases(s, ks) /\ Released(s, s1, ks)
  BY <1>1, ReleaseFacts
<1>3. /\ Good(s1, w) /\ Now(s1) = Now(s)
      /\ \A k \in Key : IsLease(s1, k) <=> IsLease(s, k) /\ k \notin ks
      /\ \A key \in Key : key \notin ks => Info(s1, key) = Info(s, key)
  <2>1. \A k \in ks : IsLease(s, k)
    BY <1>1
  <2> QED BY <1>2, <2>1, ReleasedGood
<1>4. PICK new : new = One(Clock, t) /\ DOMAIN new = {Clock} /\ new[Clock] = t
  BY OneFacts
<1>5. PICK s2 : s2 = put(s1, new) /\ Wrote(s1, s2, new)
  BY <1>3, PutFacts DEF Good
<1>6. advanceClock(s, t) = s2
  BY <1>1, <1>2, <1>4, <1>5 DEF advanceClock
<1>7. /\ Sound(s2) /\ Kept(s1, s2) /\ (\A loc : loc # Clock => Same(s1, s2, loc))
      /\ Has(s2, Clock) /\ Now(s2) = t
  BY <1>4, <1>5 DEF Wrote, Has, Now
<1>8. ASSUME NEW k \in Key PROVE SameKey(s1, s2, k)
  <2>1. ~ IsOwn(Clock, k)
    BY LocatorParts, SharedTags
  <2> QED BY <1>7, <2>1 DEF SameKey
<1>9. \A k \in Key : Info(s2, k) = Info(s1, k)
  BY <1>8, SameKeyFacts
<1>10. \A k \in Key : IsLease(s2, k) <=> IsLease(s1, k)
  BY <1>9 DEF IsLease
<1>11. \A loc : loc[1] = "event" => Same(s1, s2, loc)
  BY <1>7, LocatorParts
<1>12. EventsOK(s2)
  BY <1>3, <1>7, <1>9, <1>10, <1>11, SameEvents DEF Good, Kept
<1>13. ClockOK(s2, w)
  BY <1>7 DEF ClockOK
<1>14. RegistersOK(s2)
  BY <1>3, <1>7 DEF Good, RegistersOK, Kept
<1>15. ASSUME NEW k \in Key PROVE KeyOK(s2, k, w) /\ RevOK(s2, k) /\ TermOK(s2, k, w)
  <2>1. KeyOK(s1, k, w) /\ RevOK(s1, k) /\ TermOK(s1, k, w)
    BY <1>3 DEF Good
  <2>2. KeyOK(s2, k, w)
    BY <1>8, <2>1, SameKeyFacts
  <2>3. RevOK(s2, k)
    <3>1. SameRev(s1, s2, k)
      BY <1>7 DEF SameRev, Kept
    <3> QED BY <1>9, <2>1, <3>1, SameRevOK
  <2>4. TermOK(s2, k, w)
    <3>1. ASSUME IsLease(s2, k)
          PROVE  /\ Info(s2, k).start <= Now(s2) /\ Now(s2) < Info(s2, k).end
                 /\ Info(s2, k).end <= w.clock + MaxDuration
      <4>1. IsLease(s1, k) /\ IsLease(s, k) /\ k \notin ks /\ Info(s2, k) = Info(s, k)
        BY <1>3, <1>9, <1>10, <3>1
      <4>2. PICK a \in Int, b \in Int : a = Info(s, k).start /\ b = Info(s, k).end
        BY DEF Good, KeyOK, InfoOK, Descriptor
      <4>3. TermOK(s, k, w)
        BY DEF Good
      <4>4. PICK now \in Nat : now = Now(s)
        BY DEF Good, ClockOK
      <4>5. a <= now /\ b <= w.clock + MaxDuration /\ ~ b <= t /\ now < t
        BY <1>1, <4>1, <4>2, <4>3, <4>4 DEF TermOK
      <4>6. a <= t /\ t < b
        BY <4>5
      <4> QED BY <1>7, <4>1, <4>2, <4>5, <4>6
    <3> QED BY <3>1 DEF TermOK
  <2> QED BY <2>2, <2>3, <2>4
<1>16. Good(s2, w)
  BY <1>7, <1>12, <1>13, <1>14, <1>15 DEF Good
<1>17. \A k \in Key : IsLease(s2, k) => IsLease(s, k)
  BY <1>3, <1>10
<1>18. ASSUME NEW k \in Key, ~ Over(s, k, t) PROVE SameKey(s, s2, k)
  <2>1. k \notin ks
    BY <1>1, <1>18 DEF Over
  <2>2. SameKey(s, s1, k)
    BY <1>1, <1>2, <2>1, ReleasedKeys
  <2> QED BY <1>8, <2>2, SameTrans DEF SameKey
<1>19. ASSUME NEW k \in Key PROVE Plainly(s, s1, k)
  <2>1. CASE k \in ks
    <3>0. Info(s1, k) = NoKey
      BY <1>1, <1>2, <2>1, ReleasedKeys
    <3>1. Info(s, k).type = "lease" /\ Info(s1, k).type = "none"
      BY <1>1, <2>1, <3>0, NoKeyFacts DEF IsLease
    <3>2. s1.spoiled = s.spoiled
      BY <1>2 DEF Released
    <3> QED BY <3>1, <3>2 DEF Plainly
  <2>2. CASE k \notin ks
    <3>1. SameKey(s, s1, k)
      BY <1>1, <1>2, <2>2, ReleasedKeys
    <3>2. SameRev(s, s1, k)
      BY <1>2, <2>2 DEF Released, SameRev
    <3> QED BY <3>1, <3>2 DEF Plainly
  <2> QED BY <2>1, <2>2
<1>20. ASSUME NEW k \in Key PROVE Plainly(s1, s2, k)
  <2>1. SameRev(s1, s2, k)
    BY <1>7 DEF Kept, SameRev
  <2> QED BY <1>8, <2>1 DEF Plainly
<1>21. Passes(s, s2)
  BY <1>19, <1>20, PlainlyTrans DEF Passes
<1> QED
  BY <1>6, <1>7, <1>16, <1>17, <1>18, <1>21

LEMMA MaybeAdvanceGood ==
    ASSUME NEW s, NEW w, Good(s, w), NEW t \in Nat, t <= w.clock
    PROVE  /\ Good(maybeAdvanceClock(s, t), w)
           /\ Now(s) \in Nat /\ Now(maybeAdvanceClock(s, t)) \in Nat /\ Now(s) <= Now(maybeAdvanceClock(s, t))
           /\ \A k \in Key : IsLease(maybeAdvanceClock(s, t), k) => IsLease(s, k)
           /\ \A k \in Key : ~ Over(s, k, Now(maybeAdvanceClock(s, t))) => SameKey(s, maybeAdvanceClock(s, t), k)
           /\ Passes(s, maybeAdvanceClock(s, t))
<1>1. PICK now \in Nat : now = Now(s)
  BY DEF Good, ClockOK
<1>2. CASE now < t
  <2>1. PICK s1 : s1 = advanceClock(s, t)
    OBVIOUS
  <2>2. /\ Good(s1, w) /\ Now(s1) = t /\ (\A k \in Key : IsLease(s1, k) => IsLease(s, k))
        /\ (\A k \in Key : ~ Over(s, k, t) => SameKey(s, s1, k)) /\ Passes(s, s1)
    BY <1>1, <1>2, <2>1, AdvanceGood
  <2>3. maybeAdvanceClock(s, t) = s1
    BY <1>1, <1>2, <2>1 DEF maybeAdvanceClock
  <2>4. now <= t
    BY <1>2
  <2>5. Now(s) \in Nat /\ Now(s1) \in Nat /\ Now(s) <= Now(s1)
    BY <1>1, <2>2, <2>4
  <2>6. \A k \in Key : ~ Over(s, k, Now(s1)) => SameKey(s, s1, k)
    BY <2>2
  <2> QED BY <2>2, <2>3, <2>5, <2>6
<1>3. CASE ~ now < t
  <2>1. maybeAdvanceClock(s, t) = s
    BY <1>1, <1>3 DEF maybeAdvanceClock
  <2>2. \A k \in Key : SameKey(s, s, k)
    BY DEF SameKey, Same
  <2>3. Now(s) \in Nat /\ Now(s) <= Now(s)
    BY <1>1
  <2>4. Passes(s, s)
    BY FineSame DEF Passes, Fine
  <2> QED BY <2>1, <2>2, <2>3, <2>4
<1> QED
  BY <1>2, <1>3

\* No lease is new.
Lapses(s, s2) == \A k \in Key : Has(s2, Lease(k)) => Same(s, s2, Lease(k))

LEMMA LeaseDropGood ==
    ASSUME NEW s, NEW w, Good(s, w), NEW k \in Key
    PROVE  /\ Good(lease_drop(s, k), w) /\ Now(lease_drop(s, k)) = Now(s)
           /\ Passes(s, lease_drop(s, k)) /\ Lapses(s, lease_drop(s, k))
           /\ IsLease(s, k) => Released(s, lease_drop(s, k), {k})
<1>1. CASE ~ IsLease(s, k)
  <2>1. lease_drop(s, k) = s
    BY <1>1 DEF lease_drop, IsLease
  <2>2. Passes(s, s) /\ Lapses(s, s)
    BY FineSame DEF Passes, Lapses, Fine
  <2> QED BY <1>1, <2>1, <2>2
<1>2. CASE IsLease(s, k)
  <2>1. {k} \in SUBSET Key /\ \A key \in {k} : IsLease(s, key)
    BY <1>2
  <2>2. PICK ks \in SUBSET Key : ks = {k} /\ \A key \in ks : IsLease(s, key)
    BY <2>1
  <2>3. Released(s, releaseLeases(s, ks), ks)
    BY <2>2, ReleaseFacts
  <2>4. Good(releaseLeases(s, ks), w) /\ Now(releaseLeases(s, ks)) = Now(s)
    BY <2>2, <2>3, ReleasedGood
  <2>5. lease_drop(s, k) = releaseLeases(s, ks)
    BY <1>2, <2>2 DEF lease_drop, IsLease
  <2>6. PICK s2 : s2 = releaseLeases(s, ks) /\ Released(s, s2, ks)
    BY <2>3
  <2>7. Lapses(s, s2)
    BY <2>6 DEF Released, Lapses
  <2>8. ASSUME NEW key \in Key PROVE Plainly(s, s2, key)
    <3>1. CASE key \in ks
      <4>0. Info(s2, key) = NoKey
        BY <2>2, <2>6, <3>1, ReleasedKeys
      <4>1. Info(s, key).type = "lease" /\ Info(s2, key).type = "none"
        BY <2>2, <3>1, <4>0, NoKeyFacts DEF IsLease
      <4>2. s2.spoiled = s.spoiled
        BY <2>6 DEF Released
      <4> QED BY <4>1, <4>2 DEF Plainly
    <3>2. CASE key \notin ks
      <4>1. SameKey(s, s2, key)
        BY <2>2, <2>6, <3>2, ReleasedKeys
      <4>2. SameRev(s, s2, key)
        BY <2>6, <3>2 DEF Released, SameRev
      <4> QED BY <4>1, <4>2 DEF Plainly
    <3> QED BY <3>1, <3>2
  <2>9. Passes(s, s2)
    BY <2>8 DEF Passes
  <2> QED BY <2>2, <2>3, <2>4, <2>5, <2>6, <2>7, <2>9
<1> QED
  BY <1>1, <1>2

\* Another holder only after the deadline.
Hands(s, s2, k) ==
    Has(s, Lease(k)) /\ Has(s2, Lease(k)) => s.store[Lease(k)] = s2.store[Lease(k)] \/ Info(s, k).end <= Now(s2)

\* Key k is no versioned hash any more.
Spoilt(s, s2, k) ==
    Info(s2, k).type # "vhash" /\ (Info(s, k).type = "vhash" \/ k \in s.spoiled => k \in s2.spoiled)

\* What all commands have in common.
Goes(s, s2, w) ==
    /\ Good(s2, w) /\ Now(s) <= Now(s2)
    /\ \A k \in Key : Hands(s, s2, k)
    /\ \A k \in Key : Plainly(s, s2, k) \/ Counts(s, s2, k) \/ Spoilt(s, s2, k)

LEMMA GoodNow ==
    ASSUME NEW s, NEW w, Good(s, w)
    PROVE  Now(s) \in Nat /\ Now(s) <= Now(s)
<1>1. Now(s) \in Nat
  BY DEF Good, ClockOK
<1> QED
  BY <1>1

LEMMA FineGoes ==
    ASSUME NEW s, NEW s2, NEW w, Good(s, w), Fine(s, s2, w)
    PROVE  Goes(s, s2, w)
<1>1. \A k \in Key : Hands(s, s2, k)
  BY DEF Fine, Same, Has, Hands
<1>2. Now(s) <= Now(s2)
  BY GoodNow DEF Fine
<1> QED
  BY <1>1, <1>2 DEF Fine, Goes

LEMMA CountsGoes ==
    ASSUME NEW s, NEW s2, NEW w, Good(s, w), NEW k \in Key, Steps(s, s2, k, w), Counts(s, s2, k)
    PROVE  Goes(s, s2, w)
<1>1. \A key \in Key : Hands(s, s2, key)
  BY DEF Steps, Same, Has, Hands
<1>2. Now(s) <= Now(s2)
  BY GoodNow DEF Steps
<1>3. \A key \in Key : key # k => Plainly(s, s2, key)
  BY DEF Steps, Plainly
<1>4. \A key \in Key : Plainly(s, s2, key) \/ Counts(s, s2, key)
  BY <1>3
<1> QED
  BY <1>1, <1>2, <1>4 DEF Steps, Goes

LEMMA SameLease ==
    ASSUME NEW s, NEW s2, NEW k, SameKey(s, s2, k)
    PROVE  Same(s, s2, Lease(k))
<1>1. IsOwn(Lease(k), k)
  BY LocatorParts, ContentTags, OwnTag DEF KeyTypes
<1> QED
  BY <1>1 DEF SameKey

\* Leases that are not over stay as they are.
LEMMA MaybeAdvanceHands ==
    ASSUME NEW s, NEW w, Good(s, w), NEW t \in Nat, t <= w.clock, NEW k \in Key
    PROVE  Has(s, Lease(k)) => \/ Info(s, k).end <= Now(maybeAdvanceClock(s, t))
                              \/ Same(s, maybeAdvanceClock(s, t), Lease(k))
<1>1. PICK s1 : s1 = maybeAdvanceClock(s, t)
  OBVIOUS
<1>2. ~ Over(s, k, Now(s1)) => SameKey(s, s1, k)
  BY <1>1, MaybeAdvanceGood
<1>3. Has(s, Lease(k)) => IsLease(s, k)
  BY NoLeaseEntry DEF Good
<1> QED
  BY <1>1, <1>2, <1>3, SameLease DEF Over

LEMMA MaybeAdvanceGoes ==
    ASSUME NEW s, NEW w, Good(s, w), NEW t \in Nat, t <= w.clock
    PROVE  Goes(s, maybeAdvanceClock(s, t), w)
<1>1. PICK s1 : s1 = maybeAdvanceClock(s, t)
  OBVIOUS
<1>2. Good(s1, w) /\ Now(s) <= Now(s1) /\ Passes(s, s1)
  BY <1>1, MaybeAdvanceGood
<1>3. \A k \in Key : Has(s, Lease(k)) => Info(s, k).end <= Now(s1) \/ Same(s, s1, Lease(k))
  BY <1>1, MaybeAdvanceHands
<1>4. \A k \in Key : Hands(s, s1, k)
  BY <1>3 DEF Hands, Same, Has
<1> QED
  BY <1>1, <1>2, <1>4 DEF Goes, Passes

LEMMA LeaseReleaseGoes ==
    ASSUME NEW s, NEW w, Good(s, w), NEW k \in Key, NEW t \in Nat, t <= w.clock
    PROVE  Goes(s, lease_release(s, k, t), w)
<1>1. PICK s1 : s1 = maybeAdvanceClock(s, t)
  OBVIOUS
<1>2. Good(s1, w) /\ Now(s) <= Now(s1) /\ Passes(s, s1)
  BY <1>1, MaybeAdvanceGood
<1>3. \A key \in Key : Has(s, Lease(key)) => Info(s, key).end <= Now(s1) \/ Same(s, s1, Lease(key))
  BY <1>1, MaybeAdvanceHands
<1>4. PICK s2 : s2 = lease_drop(s1, k)
  OBVIOUS
<1>5. Good(s2, w) /\ Now(s2) = Now(s1) /\ Passes(s1, s2) /\ Lapses(s1, s2)
  BY <1>2, <1>4, LeaseDropGood
<1>6. lease_release(s, k, t) = s2
  BY <1>1, <1>4 DEF lease_release
<1>7. ASSUME NEW key \in Key PROVE Hands(s, s2, key)
  <2>1. Has(s2, Lease(key)) => Same(s1, s2, Lease(key))
    BY <1>5 DEF Lapses
  <2> QED BY <1>3, <1>5, <2>1 DEF Hands, Same, Has
<1>8. \A key \in Key : Plainly(s, s2, key)
  BY <1>2, <1>5, PlainlyTrans DEF Passes
<1> QED
  BY <1>2, <1>5, <1>6, <1>7, <1>8 DEF Goes

LEMMA LeaseGetGood ==
    ASSUME NEW s, NEW w, Good(s, w), NEW k \in Key, NEW t \in Nat, t <= w.clock,
           valid(maybeAdvanceClock(s, t), k, "lease")
    PROVE  lease_get(s, k, t) = maybeAdvanceClock(s, t)
<1>1. PICK s1 : s1 = maybeAdvanceClock(s, t) /\ Good(s1, w)
  BY MaybeAdvanceGood
<1>2. keyExists(s1, k) => IsLease(s1, k)
  BY <1>1 DEF keyExists, IsLease, valid
<1>3. keyExists(s1, k) => Has(s1, Lease(k))
  BY <1>1, <1>2, LeaseIntact
<1> QED
  BY <1>1, <1>3 DEF lease_get

\* An event of key k, and an entry that a new lease of k does not touch.
EventFor(loc, k) == loc[1] = "event" /\ loc[3] = k
Apart(loc, k) == ~ IsOwn(loc, k) /\ ~ EventFor(loc, k)

\* Lease k has lost its event, if it had one.
Freed(s, f, k) ==
    /\ Sound(f) /\ f.puts = s.puts /\ f.revs = s.revs /\ f.spoiled = s.spoiled
    /\ \A loc : ~ EventFor(loc, k) => Same(s, f, loc)
    /\ \A loc : EventFor(loc, k) => ~ Has(f, loc)
    /\ \A e : e \in f.cache <=> e \in s.cache /\ e[2] # k

LEMMA EventsFor ==
    ASSUME NEW s, NEW w, Good(s, w), NEW k
    PROVE  /\ \A loc : EventFor(loc, k) /\ Has(s, loc) => IsLease(s, k) /\ loc = Event(Info(s, k).end, k)
           /\ \A e \in s.cache : e[2] = k => IsLease(s, k) /\ e = <<Info(s, k).end, k>>
<1>1. ASSUME NEW loc, EventFor(loc, k), Has(s, loc) PROVE IsLease(s, k) /\ loc = Event(Info(s, k).end, k)
  <2>1. PICK key \in Key : IsLease(s, key) /\ loc = Event(Info(s, key).end, key)
    BY <1>1 DEF Good, EventsOK, EventOf, EventFor, Has
  <2>2. key = k
    BY <1>1, <2>1, LocatorParts DEF EventFor
  <2> QED BY <2>1, <2>2
<1>2. ASSUME NEW e \in s.cache, e[2] = k PROVE IsLease(s, k) /\ e = <<Info(s, k).end, k>>
  <2>1. PICK key \in Key : IsLease(s, key) /\ e = <<Info(s, key).end, key>>
    BY <1>2, DeadlineIn DEF Good, EventsOK
  <2>2. key = k
    BY <1>2, <2>1
  <2> QED BY <2>1, <2>2
<1> QED
  BY <1>1, <1>2

LEMMA FreedFacts ==
    ASSUME NEW s, NEW w, Good(s, w), NEW k \in Key, NEW end, IsLease(s, k) => end = Info(s, k).end
    PROVE  /\ ~ IsLease(s, k) => Freed(s, s, k)
           /\ IsLease(s, k) => Freed(s, [del(s, {Event(end, k)}) EXCEPT !.cache = @ \ {<<end, k>>}], k)
<1>1. ASSUME ~ IsLease(s, k) PROVE Freed(s, s, k)
  <2>1. (\A loc : EventFor(loc, k) => ~ Has(s, loc)) /\ (\A e \in s.cache : e[2] # k)
    BY <1>1, EventsFor
  <2> QED BY <2>1 DEF Freed, Same, Good
<1>2. ASSUME IsLease(s, k) PROVE Freed(s, [del(s, {Event(end, k)}) EXCEPT !.cache = @ \ {<<end, k>>}], k)
  <2>1. PICK d : d = del(s, {Event(end, k)}) /\ Erased(s, d, {Event(end, k)})
    BY DelFacts DEF Good
  <2>2. Sound(d) /\ Kept(s, d)
    BY <2>1 DEF Erased
  <2>3. PICK X : X = d.cache \ {<<end, k>>}
    OBVIOUS
  <2>4. PICK f : f = WithCache(d, X)
    OBVIOUS
  <2>5. /\ Sound(f) /\ f.cache = X /\ f.store = d.store /\ f.puts = d.puts /\ f.revs = d.revs
        /\ f.spoiled = d.spoiled
    BY <2>2, <2>4, CacheField
  <2>6. EventFor(Event(end, k), k)
    BY LocatorParts DEF EventFor
  <2>7. \A loc : ~ EventFor(loc, k) => Same(s, f, loc)
    BY <2>1, <2>5, <2>6 DEF Erased, Same
  <2>8. \A loc : EventFor(loc, k) => ~ Has(f, loc)
    <3>1. \A loc : EventFor(loc, k) /\ Has(s, loc) => loc = Event(end, k)
      BY <1>2, EventsFor
    <3> QED BY <2>1, <2>5, <3>1 DEF Erased, Has
  <2>9. \A e : e \in f.cache <=> e \in s.cache /\ e[2] # k
    <3>1. \A e \in s.cache : e[2] = k => e = <<end, k>>
      BY <1>2, EventsFor
    <3>2. <<end, k>>[2] = k
      OBVIOUS
    <3>3. s.cache = d.cache
      BY <2>2 DEF Kept
    <3> QED BY <2>3, <2>5, <3>1, <3>2, <3>3
  <2>10. Freed(s, f, k)
    BY <2>2, <2>5, <2>7, <2>8, <2>9 DEF Freed, Kept
  <2>11. f = [del(s, {Event(end, k)}) EXCEPT !.cache = @ \ {<<end, k>>}]
    BY <2>1, <2>3, <2>4 DEF WithCache
  <2> QED BY <2>10, <2>11
<1> QED
  BY <1>1, <1>2

\* Lease k has a new term.
Leased(s, s2, k, info) ==
    /\ Sound(s2) /\ s2.revs = s.revs /\ s2.spoiled = s.spoiled /\ s2.puts \subseteq s.puts \cup {k}
    /\ \A key : key # k => (key \in s2.puts <=> key \in s.puts)
    /\ \A loc : Apart(loc, k) => Same(s, s2, loc)
    /\ \A loc : EventFor(loc, k) => (Has(s2, loc) <=> loc = Event(info.end, k))
    /\ \A type \in Content : type # "lease" => Fields(s2, type, k) = {}
    /\ Fields(s2, "lease", k) = {Lease(k)} /\ Info(s2, k) = info
    /\ \A e : e \in s2.cache <=> (e \in s.cache /\ e[2] # k) \/ e = <<info.end, k>>

TermIs(info, now, end) ==
    info \in Descriptor /\ info.type = "lease" /\ info.size = 1 /\ info.start = now /\ info.end = end

LEMMA LeasedGood ==
    ASSUME NEW s, NEW s2, NEW w, Good(s, w), NEW k \in Key, NEW info, NEW end \in Int, Leased(s, s2, k, info),
           TermIs(info, Now(s), end), valid(s, k, "lease"), "lease" \in w.types, Now(s) < end,
           end <= w.clock + MaxDuration
    PROVE  /\ Good(s2, w) /\ Now(s2) = Now(s) /\ Passes(s, s2)
           /\ \A key \in Key : key # k => SameKey(s, s2, key)
<1>1. Info(s2, k) = info /\ IsLease(s2, k)
  BY DEF Leased, IsLease, TermIs
<1>2. ASSUME NEW key \in Key, key # k PROVE SameKey(s, s2, key)
  <2>1. \A loc : IsOwn(loc, key) => Apart(loc, k)
    BY <1>2, ContentTags DEF IsOwn, Apart, EventFor
  <2> QED BY <2>1 DEF SameKey, Leased
<1>3. \A key \in Key : key # k => Info(s2, key) = Info(s, key)
  BY <1>2, SameKeyFacts
<1>4. \A key \in Key : key # k => (IsLease(s2, key) <=> IsLease(s, key))
  BY <1>3 DEF IsLease
<1>5. Same(s, s2, Clock)
  <2>1. Apart(Clock, k)
    BY LocatorParts, SharedTags DEF Apart, EventFor
  <2> QED BY <2>1 DEF Leased
<1>6. ClockOK(s2, w) /\ Now(s2) = Now(s)
  BY <1>5, SameTime DEF Good
<1>7. ASSUME NEW loc \in DOMAIN s2.store, loc[1] = "event" PROVE EventOf(s2, loc)
  <2>1. CASE EventFor(loc, k)
    <3>1. loc = Event(Info(s2, k).end, k)
      BY <1>1, <2>1 DEF Leased, Has
    <3> QED BY <1>1, <3>1 DEF EventOf
  <2>2. CASE ~ EventFor(loc, k)
    <3>1. Apart(loc, k)
      BY <1>7, <2>2, SharedTags DEF Apart
    <3>2. Has(s, loc)
      BY <3>1 DEF Leased, Same, Has
    <3>3. PICK key \in Key : IsLease(s, key) /\ loc = Event(Info(s, key).end, key)
      BY <1>7, <3>2 DEF Good, EventsOK, EventOf, Has
    <3>4. key # k
      BY <2>2, <3>3, LocatorParts DEF EventFor
    <3> QED BY <1>3, <1>4, <3>3, <3>4 DEF EventOf
  <2> QED BY <2>1, <2>2
<1>8. ASSUME NEW key \in Key, IsLease(s2, key) PROVE Has(s2, Event(Info(s2, key).end, key))
  <2>1. CASE key = k
    <3>1. EventFor(Event(info.end, k), k)
      BY LocatorParts DEF EventFor
    <3> QED BY <1>1, <2>1, <3>1 DEF Leased
  <2>2. CASE key # k
    <3>1. IsLease(s, key) /\ Info(s2, key) = Info(s, key)
      BY <1>3, <1>4, <1>8, <2>2
    <3>2. Has(s, Event(Info(s, key).end, key))
      BY <3>1, LeaseIntact
    <3>3. Apart(Event(Info(s, key).end, key), k)
      BY <2>2, LocatorParts, SharedTags DEF Apart, EventFor
    <3> QED BY <3>1, <3>2, <3>3 DEF Leased, Same, Has
  <2> QED BY <2>1, <2>2
<1>9. ASSUME NEW e PROVE e \in s2.cache <=> e \in Deadlines(s2)
  <2>1. e \in s2.cache <=> (e \in Deadlines(s) /\ e[2] # k) \/ e = <<info.end, k>>
    BY DEF Leased, Good, EventsOK
  <2>2. ASSUME e \in Deadlines(s), e[2] # k PROVE e \in Deadlines(s2)
    <3>1. PICK key \in Key : IsLease(s, key) /\ e = <<Info(s, key).end, key>>
      BY <2>2, DeadlineIn
    <3>2. key # k
      BY <2>2, <3>1
    <3> QED BY <1>3, <1>4, <3>1, <3>2, DeadlineIn
  <2>3. e = <<info.end, k>> => e \in Deadlines(s2)
    BY <1>1, DeadlineIn
  <2>4. ASSUME e \in Deadlines(s2) PROVE (e \in Deadlines(s) /\ e[2] # k) \/ e = <<info.end, k>>
    <3>1. PICK key \in Key : IsLease(s2, key) /\ e = <<Info(s2, key).end, key>>
      BY <2>4, DeadlineIn
    <3>2. CASE key = k
      BY <1>1, <3>1, <3>2
    <3>3. CASE key # k
      <4>1. IsLease(s, key) /\ e = <<Info(s, key).end, key>> /\ e[2] # k
        BY <1>3, <1>4, <3>1, <3>3
      <4> QED BY <4>1, DeadlineIn
    <3> QED BY <3>2, <3>3
  <2> QED BY <2>1, <2>2, <2>3, <2>4
<1>10. s2.cache = Deadlines(s2)
  BY <1>9
<1>11. EventsOK(s2)
  BY <1>7, <1>8, <1>10 DEF EventsOK
<1>12. ASSUME NEW key \in Key PROVE KeyOK(s2, key, w) /\ RevOK(s2, key) /\ TermOK(s2, key, w)
  <2>1. KeyOK(s, key, w) /\ RevOK(s, key) /\ TermOK(s, key, w)
    BY DEF Good
  <2>2. CASE key = k
    <3>1. InfoOK(info, w)
      BY DEF InfoOK, TermIs
    <3>2. Owned("lease") = {"lease"}
      BY DEF Owned
    <3>3. EntriesOK(s2, k, info)
      BY <3>2 DEF EntriesOK, Leased, TermIs, FieldTypes
    <3>4. KeyOK(s2, k, w)
      BY <1>1, <3>1, <3>3 DEF KeyOK, TermIs
    <3>5. Info(s, k).type # "vhash"
      BY DEF valid
    <3>6. RevOK(s2, k)
      <4>1. Info(s2, k).type = "lease" /\ s2.revs = s.revs /\ s2.spoiled = s.spoiled
        BY <1>1 DEF IsLease, Leased
      <4> QED BY <2>1, <2>2, <3>5, <4>1 DEF RevOK
    <3>7. PICK now \in Nat : now = Now(s)
      BY DEF Good, ClockOK
    <3>8. TermOK(s2, k, w)
      BY <1>1, <1>6, <3>7 DEF TermOK, TermIs
    <3> QED BY <2>2, <3>4, <3>6, <3>8
  <2>3. CASE key # k
    <3>1. KeyOK(s2, key, w)
      BY <1>2, <2>1, <2>3, SameKeyFacts
    <3>2. SameRev(s, s2, key)
      BY <2>3 DEF Leased, SameRev
    <3>3. RevOK(s2, key)
      BY <1>3, <2>1, <2>3, <3>2, SameRevOK
    <3>4. TermOK(s2, key, w)
      BY <1>3, <1>6, <2>1, <2>3, SameTerm
    <3> QED BY <3>1, <3>3, <3>4
  <2> QED BY <2>2, <2>3
<1>13. Sound(s2) /\ RegistersOK(s2)
  BY DEF Leased, Good, RegistersOK
<1>14. ASSUME NEW key \in Key PROVE Plainly(s, s2, key)
  <2>1. CASE key = k
    <3>1. Info(s, k).type # "vhash" /\ Info(s2, k).type # "vhash"
      BY <1>1 DEF valid, IsLease
    <3>2. s2.spoiled = s.spoiled
      BY DEF Leased
    <3> QED BY <2>1, <3>1, <3>2 DEF Plainly
  <2>2. CASE key # k
    <3>1. SameRev(s, s2, key)
      BY <2>2 DEF Leased, SameRev
    <3> QED BY <1>2, <2>2, <3>1 DEF Plainly
  <2> QED BY <2>1, <2>2
<1>15. Passes(s, s2)
  BY <1>14 DEF Passes
<1>16. Good(s2, w)
  BY <1>6, <1>11, <1>12, <1>13 DEF Good
<1> QED
  BY <1>2, <1>6, <1>15, <1>16

Renewed(op, now, end) == [op EXCEPT !.start = now, !.end = end]

LEMMA RenewedFacts ==
    ASSUME NEW op \in Descriptor, op.type = "lease", NEW now \in Int, NEW end \in Int
    PROVE  /\ Renewed(op, now, end) \in Descriptor /\ Renewed(op, now, end).type = "lease"
           /\ TermIs(Resized(Renewed(op, now, end), 1), now, end)
<1>1. /\ Renewed(op, now, end) \in Descriptor /\ Renewed(op, now, end).type = "lease"
      /\ Renewed(op, now, end).start = now /\ Renewed(op, now, end).end = end
  BY DEF Renewed, Descriptor
<1>2. 1 \in Nat
  OBVIOUS
<1> QED
  BY <1>1, <1>2, ResizedFacts DEF TermIs

LeasedTo(s, s2, k, info, holder) ==
    Leased(s, s2, k, info) /\ Has(s2, Lease(k)) /\ s2.store[Lease(k)] = holder

\* The entries of a new term, and its descriptor.
LEMMA LeasedFacts ==
    ASSUME NEW s, NEW w, Good(s, w), NEW k \in Key, valid(s, k, "lease"), NEW f, Freed(s, f, k),
           NEW holder, NEW end, NEW op, op.type = "lease", op.end = end, NEW new,
           new = put(put(f, One(Event(end, k), "1")), One(Lease(k), holder))
    PROVE  LeasedTo(s, finalize([new EXCEPT !.cache = @ \cup {<<end, k>>}], k, op, 1, TRUE), k, Resized(op, 1), holder)
<1>1. /\ Sound(f) /\ f.puts = s.puts /\ f.revs = s.revs /\ f.spoiled = s.spoiled
      /\ (\A loc : ~ EventFor(loc, k) => Same(s, f, loc))
      /\ (\A loc : EventFor(loc, k) => ~ Has(f, loc))
      /\ (\A e : e \in f.cache <=> e \in s.cache /\ e[2] # k)
  BY DEF Freed
<1>2. PICK E, L : E = Event(end, k) /\ L = Lease(k)
  OBVIOUS
<1>3. PICK p1 : p1 = put(f, One(E, "1")) /\ Wrote(f, p1, One(E, "1"))
  BY <1>1, PutFacts
<1>4. /\ Sound(p1) /\ Kept(f, p1) /\ DOMAIN p1.store = DOMAIN f.store \cup {E}
      /\ \A loc : loc # E => Same(f, p1, loc)
  <2>1. DOMAIN One(E, "1") = {E}
    BY OneFacts
  <2> QED BY <1>3, <2>1 DEF Wrote
<1>5. new = put(p1, One(L, holder)) /\ Wrote(p1, new, One(L, holder))
  BY <1>2, <1>3, <1>4, PutFacts
<1>6. /\ Sound(new) /\ Kept(p1, new) /\ DOMAIN new.store = DOMAIN p1.store \cup {L}
      /\ \A loc : loc # L => Same(p1, new, loc)
  <2>1. DOMAIN One(L, holder) = {L}
    BY OneFacts
  <2> QED BY <1>5, <2>1 DEF Wrote
<1>7. PICK X : X = new.cache \cup {<<end, k>>}
  OBVIOUS
<1>8. PICK p3 : p3 = WithCache(new, X)
  OBVIOUS
<1>9. /\ Sound(p3) /\ p3.cache = X /\ p3.store = new.store /\ p3.puts = new.puts /\ p3.revs = new.revs
      /\ p3.spoiled = new.spoiled
  BY <1>6, <1>8, CacheField
<1>10. [new EXCEPT !.cache = @ \cup {<<end, k>>}] = p3
  BY <1>7, <1>8 DEF WithCache
<1>11. PICK force \in BOOLEAN : force = TRUE
  OBVIOUS
<1>12. PICK s2 : s2 = finalize(p3, k, op, 1, force) /\ Finalized(p3, s2, k, op, 1, force)
  BY <1>9, FinalizeFacts
<1>13. ~ Vanishes(op, 1)
  BY DEF Vanishes
<1>14. /\ Sound(s2) /\ s2.revs = p3.revs /\ s2.spoiled = p3.spoiled /\ s2.cache = p3.cache
       /\ (\A loc : loc # Desc(k) => Same(p3, s2, loc))
       /\ (\A key : key # k => (key \in s2.puts <=> key \in p3.puts)) /\ s2.puts \subseteq p3.puts \cup {k}
       /\ Has(s2, Desc(k)) /\ s2.store[Desc(k)] = Resized(op, 1)
  BY <1>11, <1>12, <1>13 DEF Finalized
<1>15. Info(s2, k) = Resized(op, 1)
  BY <1>14 DEF Info
<1>16. s2.revs = s.revs /\ s2.spoiled = s.spoiled /\ p3.puts = s.puts /\ new.cache = f.cache
  BY <1>1, <1>4, <1>6, <1>9, <1>14 DEF Kept
<1>17. \A loc : loc # Desc(k) => (Has(s2, loc) <=> Has(f, loc) \/ loc = E \/ loc = L)
  <2>1. \A loc : Has(p3, loc) <=> Has(f, loc) \/ loc = E \/ loc = L
    BY <1>4, <1>6, <1>9 DEF Has
  <2> QED BY <1>14, <2>1 DEF Same, Has
<1>18. ASSUME NEW loc, loc # Desc(k), loc # E, loc # L PROVE Same(f, s2, loc)
  <2>1. Same(f, p1, loc) /\ Same(p1, new, loc) /\ Same(p3, s2, loc)
    BY <1>4, <1>6, <1>14, <1>18
  <2>2. Same(new, p3, loc)
    BY <1>9 DEF Same
  <2> QED BY <2>1, <2>2, SameTrans
<1>19. IsOwn(L, k) /\ IsOwn(Desc(k), k) /\ EventFor(E, k) /\ L # Desc(k) /\ ~ EventFor(L, k) /\ E # Desc(k)
  BY <1>2, LocatorParts, ContentTags, OwnTag DEF IsOwn, EventFor, KeyTypes
<1>20. ASSUME NEW loc, Apart(loc, k) PROVE Same(s, s2, loc)
  <2>1. Same(f, s2, loc)
    BY <1>18, <1>19, <1>20 DEF Apart
  <2>2. Same(s, f, loc)
    BY <1>1, <1>20 DEF Apart
  <2> QED BY <2>1, <2>2, SameTrans
<1>21. ASSUME NEW loc, EventFor(loc, k) PROVE Has(s2, loc) <=> loc = E
  <2>1. loc # Desc(k) /\ loc # L
    BY <1>2, <1>21, LocatorParts DEF EventFor
  <2> QED BY <1>1, <1>17, <1>21, <2>1
<1>22. "lease" \in KeyTypes /\ "lease" \in Content /\ Owned("lease") = {"lease"}
  BY DEF KeyTypes, Content, Owned
<1>23. /\ \A type \in Content : type # "lease" => Fields(s, type, k) = {}
       /\ Fields(s, "lease", k) \subseteq {L}
  BY <1>2, <1>22, OwnedFacts DEF EntriesOK, valid
<1>24. ASSUME NEW loc, loc[1] \in Content, loc # L PROVE Has(s2, loc) <=> Has(s, loc)
  <2>1. loc # Desc(k) /\ loc # E /\ ~ EventFor(loc, k)
    BY <1>2, <1>24, LocatorParts, ContentTags DEF EventFor
  <2>2. Same(s, f, loc)
    BY <1>1, <2>1
  <2> QED BY <1>17, <1>24, <2>1, <2>2 DEF Same, Has
<1>25. ASSUME NEW type \in Content, type # "lease" PROVE Fields(s2, type, k) = {}
  <2>1. ASSUME NEW loc \in Fields(s2, type, k) PROVE FALSE
    <3>1. loc[1] = type /\ loc[2] = k /\ Has(s2, loc)
      BY <2>1 DEF Fields, Has
    <3>2. loc # L
      BY <1>2, <1>25, <3>1, LocatorParts
    <3>3. Has(s, loc)
      BY <1>24, <3>1, <3>2
    <3>4. loc \in Fields(s, type, k)
      BY <3>1, <3>3 DEF Fields, Has
    <3> QED BY <1>23, <1>25, <3>4
  <2> QED BY <2>1
<1>26. Fields(s2, "lease", k) = {L}
  <2>1. ASSUME NEW loc \in Fields(s2, "lease", k) PROVE loc = L
    <3>1. loc[1] = "lease" /\ loc[2] = k /\ Has(s2, loc)
      BY <2>1 DEF Fields, Has
    <3>2. loc # L => Has(s, loc)
      BY <1>22, <1>24, <3>1
    <3>3. loc # L => loc \in Fields(s, "lease", k)
      BY <3>1, <3>2 DEF Fields, Has
    <3> QED BY <1>23, <3>3
  <2>2. L \in Fields(s2, "lease", k)
    <3>1. Has(s2, L)
      BY <1>17, <1>19
    <3> QED BY <1>2, <3>1, LocatorParts DEF Fields, Has
  <2> QED BY <2>1, <2>2
<1>27. \A e : e \in s2.cache <=> (e \in s.cache /\ e[2] # k) \/ e = <<end, k>>
  BY <1>1, <1>7, <1>9, <1>14, <1>16
<1>28. Resized(op, 1).end = end
  BY DEF Resized
<1>29. Leased(s, s2, k, Resized(op, 1))
  BY <1>2, <1>14, <1>15, <1>16, <1>20, <1>21, <1>25, <1>26, <1>27, <1>28 DEF Leased
<1>30. new.store[L] = holder
  <2>1. DOMAIN One(L, holder) = {L} /\ One(L, holder)[L] = holder
    BY OneFacts
  <2> QED BY <1>5, <2>1 DEF Wrote
<1>31. Has(s2, L) /\ s2.store[L] = holder
  BY <1>6, <1>9, <1>14, <1>19, <1>30 DEF Same, Has
<1>32. LeasedTo(s, s2, k, Resized(op, 1), holder)
  BY <1>2, <1>29, <1>31 DEF LeasedTo
<1> QED
  BY <1>10, <1>11, <1>12, <1>32

LEMMA LeaseAcquireGoes ==
    ASSUME NEW s, NEW w, Good(s, w), NEW k \in Key, NEW holder, NEW t \in Nat, t <= w.clock,
           MaxDuration \in Nat, NEW duration \in 1..MaxDuration, "lease" \in w.types, w.clock \in Nat
    PROVE  Goes(s, lease_acquire(s, k, holder, t, duration), w)
<1>1. PICK s1 : s1 = maybeAdvanceClock(s, t) /\ Good(s1, w) /\ Now(s) <= Now(s1)
  BY MaybeAdvanceGood
<1>2. PICK op : op = operation(s1, k, "lease")
  OBVIOUS
<1>3. CASE ~ valid(s1, k, "lease") \/ (Has(s1, Lease(k)) /\ s1.store[Lease(k)] # holder)
  <2>1. lease_acquire(s, k, holder, t, duration) = s1
    BY <1>1, <1>3 DEF lease_acquire
  <2> QED BY <1>1, <2>1, MaybeAdvanceGoes
<1>4. CASE valid(s1, k, "lease") /\ ~ (Has(s1, Lease(k)) /\ s1.store[Lease(k)] # holder)
  <2>1. "lease" \in KeyTypes
    BY DEF KeyTypes
  <2>2. op \in Descriptor /\ op.type = "lease" /\ op.end = Info(s1, k).end
    BY <1>1, <1>2, <1>4, <2>1, OperationFacts
  <2>3. keyExists(s1, k) <=> IsLease(s1, k)
    BY <1>4 DEF valid, keyExists, IsLease
  <2>4. PICK free : free = IF keyExists(s1, k)
                           THEN [del(s1, {Event(op.end, k)}) EXCEPT !.cache = @ \ {<<op.end, k>>}]
                           ELSE s1
    OBVIOUS
  <2>5. Freed(s1, free, k)
    BY <1>1, <2>2, <2>3, <2>4, FreedFacts
  <2>6. ~ \E e \in free.cache : e[2] = k
    BY <2>5 DEF Freed
  <2>7. keyExists(s1, k) => <<op.end, k>> \in s1.cache /\ Has(s1, Event(op.end, k))
    BY <1>1, <2>2, <2>3, LeaseIntact
  <2>8. PICK now \in Nat : now = Now(s1) /\ now <= w.clock
    BY <1>1 DEF Good, ClockOK
  <2>9. PICK end \in Int : end = now + duration /\ now < end /\ end <= w.clock + MaxDuration
    BY <2>8
  <2>10. PICK new : new = put(put(free, One(Event(end, k), "1")), One(Lease(k), holder))
    OBVIOUS
  <2>11. PICK op2 : op2 = Renewed(op, now, end)
    OBVIOUS
  <2>12. op2 \in Descriptor /\ op2.type = "lease" /\ TermIs(Resized(op2, 1), now, end)
    BY <2>2, <2>8, <2>9, <2>11, RenewedFacts
  <2>13. op2.end = end
    BY <2>2, <2>11 DEF Renewed, Descriptor
  <2>14. PICK s2 : s2 = finalize([new EXCEPT !.cache = @ \cup {<<end, k>>}], k, op2, 1, TRUE)
    OBVIOUS
  <2>15. LeasedTo(s1, s2, k, Resized(op2, 1), holder)
    BY <1>1, <1>4, <2>5, <2>10, <2>12, <2>13, <2>14, LeasedFacts
  <2>b. Leased(s1, s2, k, Resized(op2, 1)) /\ Has(s2, Lease(k)) /\ s2.store[Lease(k)] = holder
    BY <2>15 DEF LeasedTo
  <2>16. /\ Good(s2, w) /\ Now(s2) = Now(s1) /\ Passes(s1, s2)
         /\ \A key \in Key : key # k => SameKey(s1, s2, key)
    BY <1>1, <1>4, <2>8, <2>9, <2>12, <2>b, LeasedGood
  <2>17. lease_acquire(s, k, holder, t, duration) = s2
    <3>1. ~ (keyExists(s1, k) /\ (<<op.end, k>> \notin s1.cache \/ ~ Has(s1, Event(op.end, k))))
      BY <2>7
    <3>2. [op EXCEPT !.start = Now(s1), !.end = Now(s1) + duration] = op2
      BY <2>8, <2>9, <2>11 DEF Renewed
    <3>3. Now(s1) + duration = end
      BY <2>8, <2>9
    <3> QED BY <1>1, <1>2, <1>4, <2>4, <2>6, <2>10, <2>14, <3>1, <3>2, <3>3 DEF lease_acquire
  <2>18. Passes(s, s1) /\ Now(s) <= Now(s1)
    BY <1>1, MaybeAdvanceGood
  <2>19. \A key \in Key : Has(s, Lease(key)) => Info(s, key).end <= Now(s1) \/ Same(s, s1, Lease(key))
    BY <1>1, MaybeAdvanceHands
  <2>20. ASSUME NEW key \in Key PROVE Hands(s, s2, key)
    <3>1. Has(s1, Lease(key)) => Has(s2, Lease(key)) /\ s1.store[Lease(key)] = s2.store[Lease(key)]
      <4>1. CASE key = k
        BY <1>4, <2>b, <4>1
      <4>2. CASE key # k
        BY <2>16, <4>2, SameLease DEF Same, Has
      <4> QED BY <4>1, <4>2
    <3> QED BY <2>16, <2>19, <3>1 DEF Hands, Same, Has
  <2>21. \A key \in Key : Plainly(s, s2, key)
    BY <2>16, <2>18, PlainlyTrans DEF Passes
  <2> QED BY <2>16, <2>17, <2>18, <2>20, <2>21 DEF Goes
<1> QED
  BY <1>3, <1>4

-----------------------------------------------------------------------------
(* Commands for all types *)

\* Fields of a locality hash are as many as its indexes.
LEMMA LhashCount ==
    ASSUME NEW s, NEW k, LocalOK(s, k), IsFiniteSet(Fields(s, "lindex", k))
    PROVE  /\ IsFiniteSet(Fields(s, "lhash", k))
           /\ Cardinality(Fields(s, "lhash", k)) = Cardinality(Fields(s, "lindex", k))
<1>1. PICK S, T : S = Fields(s, "lindex", k) /\ T = Fields(s, "lhash", k)
  OBVIOUS
<1>2. /\ \A loc \in S : loc = LIndex(k, loc[3]) /\ LField(k, s.store[loc], loc[3]) \in T
      /\ \A loc \in T : /\ loc = LField(k, loc[3], loc[4])
                        /\ LIndex(k, loc[4]) \in S /\ s.store[LIndex(k, loc[4])] = loc[3]
  BY <1>1, LocalMembers DEF LocalOK, IndexOK, PlaceOK
<1>3. PICK g : g = [loc \in S |-> LField(k, s.store[loc], loc[3])]
  OBVIOUS
<1>4. g \in [S -> T] /\ \A loc \in S : g[loc] = LField(k, s.store[loc], loc[3])
  BY <1>2, <1>3
<1>5. ASSUME NEW a \in S, NEW b \in S, g[a] = g[b] PROVE a = b
  <2>1. a[3] = b[3]
    BY <1>4, <1>5, LocatorParts
  <2> QED BY <1>2, <2>1
<1>6. ASSUME NEW t \in T PROVE \E a \in S : g[a] = t
  <2>1. PICK a : a = LIndex(k, t[4])
    OBVIOUS
  <2>2. a \in S /\ a[3] = t[4] /\ s.store[a] = t[3]
    BY <1>2, <2>1, LocatorParts
  <2>3. g[a] = t
    BY <1>2, <1>4, <2>2
  <2> QED BY <2>2, <2>3
<1> QED
  BY <1>1, <1>4, <1>5, <1>6, OneToOne

\* The contents of key k are gone, its descriptor may still be there.
Cleared(s, g, k) ==
    /\ Sound(g) /\ Kept(s, g) /\ \A loc : ~ IsOwn(loc, k) => Same(s, g, loc)
    /\ \A type \in Content : Fields(g, type, k) = {}

LEMMA ClearedFacts ==
    ASSUME NEW s, NEW k, Sound(s), NEW locs, \A loc \in locs : IsOwn(loc, k),
           \A type \in Content : Fields(s, type, k) \subseteq locs
    PROVE  Cleared(s, del(s, locs), k)
<1>1. PICK g : g = del(s, locs) /\ Erased(s, g, locs)
  BY DelFacts
<1>2. \A type \in Content : Fields(g, type, k) = {}
  BY <1>1 DEF Erased, Fields
<1> QED
  BY <1>1, <1>2 DEF Erased, Cleared

LEMMA DelClosing ==
    ASSUME NEW s, NEW w, Good(s, w), NEW k \in Key, ~ IsLease(s, k), NEW g, Cleared(s, g, k), NEW sp,
           sp = IF Info(s, k).type = "vhash" THEN s.spoiled \cup {k} ELSE s.spoiled, NEW r,
           r = WithSpoiled(WithPuts(del(g, {Desc(k)}), s.puts \ {k}), sp)
    PROVE  Steps(s, r, k, w) /\ Spoilt(s, r, k)
<1>1. /\ Sound(g) /\ Kept(s, g) /\ (\A loc : ~ IsOwn(loc, k) => Same(s, g, loc))
      /\ \A type \in Content : Fields(g, type, k) = {}
  BY DEF Cleared
<1>2. PICK d : d = del(g, {Desc(k)}) /\ Erased(g, d, {Desc(k)})
  BY <1>1, DelFacts
<1>3. /\ Sound(d) /\ Kept(g, d) /\ ~ Has(d, Desc(k)) /\ (\A loc : loc # Desc(k) => Same(g, d, loc))
      /\ DOMAIN d.store \subseteq DOMAIN g.store
  BY <1>2 DEF Erased, Has
<1>4. PICK p : p = WithPuts(d, s.puts \ {k})
  OBVIOUS
<1>5. /\ Sound(p) /\ p.puts = s.puts \ {k} /\ p.store = d.store /\ p.revs = d.revs /\ p.cache = d.cache
  BY <1>3, <1>4, PutsField
<1>6. r = WithSpoiled(p, sp)
  BY <1>2, <1>4
<1>7. /\ Sound(r) /\ r.spoiled = sp /\ r.puts = s.puts \ {k} /\ r.store = d.store /\ r.revs = d.revs
      /\ r.cache = d.cache
  <2>1. Sound(p)
    BY <1>5
  <2>2. /\ Sound(r) /\ r.spoiled = sp /\ r.store = p.store /\ r.puts = p.puts /\ r.revs = p.revs /\ r.cache = p.cache
    BY <1>6, <2>1, SpoiledField
  <2> QED BY <1>5, <2>2
<1>8. r.revs = s.revs /\ r.cache = s.cache
  BY <1>1, <1>3, <1>7 DEF Kept
<1>9. ~ Has(r, Desc(k)) /\ \A type \in Content : Fields(r, type, k) = {}
  BY <1>1, <1>3, <1>7 DEF Fields, Has
<1>10. KeyOK(r, k, w) /\ Info(r, k) = NoKey
  BY <1>9, NoneOK
<1>11. Info(r, k).type = "none" /\ ~ IsLease(r, k)
  BY <1>10, NoKeyFacts DEF IsLease
<1>12. ASSUME NEW loc, ~ IsOwn(loc, k) PROVE Same(s, r, loc)
  <2>1. loc # Desc(k)
    BY <1>12, LocatorParts DEF IsOwn
  <2>2. Same(s, g, loc) /\ Same(g, d, loc)
    BY <1>1, <1>3, <1>12, <2>1
  <2>3. Same(d, r, loc)
    BY <1>7 DEF Same
  <2> QED BY <2>2, <2>3, SameTrans
<1>13. \A key : key # k => SameRev(s, r, key)
  BY <1>7, <1>8 DEF SameRev
<1>14. RegistersOK(r)
  BY <1>7, <1>8 DEF Good, RegistersOK
<1>15. KeyStep(s, r, k)
  BY <1>7, <1>8, <1>11, <1>12, <1>13, <1>14 DEF KeyStep
<1>16. RevOK(r, k)
  <2>1. RevOK(s, k)
    BY DEF Good
  <2> QED BY <1>7, <1>8, <1>11, <2>1 DEF RevOK
<1>17. Steps(s, r, k, w)
  BY <1>10, <1>15, <1>16, KeyStepGood DEF Steps
<1>18. Spoilt(s, r, k)
  BY <1>7, <1>11 DEF Spoilt
<1> QED
  BY <1>17, <1>18

LEMMA SpoiltGoes ==
    ASSUME NEW s, NEW s2, NEW w, Good(s, w), NEW k \in Key, Steps(s, s2, k, w), Spoilt(s, s2, k)
    PROVE  Goes(s, s2, w)
<1>1. \A key \in Key : Hands(s, s2, key)
  BY DEF Steps, Same, Has, Hands
<1>2. Now(s) <= Now(s2)
  BY GoodNow DEF Steps
<1>3. \A key \in Key : key # k => Plainly(s, s2, key)
  BY DEF Steps, Plainly
<1>4. \A key \in Key : Plainly(s, s2, key) \/ Spoilt(s, s2, key)
  BY <1>3
<1> QED
  BY <1>1, <1>2, <1>4 DEF Steps, Goes

\* The end of del: the descriptor goes as well.
DelRest(g, k, T) ==
    [del(g, {Desc(k)}) EXCEPT !.puts = @ \ {k}, !.spoiled = IF T = "vhash" THEN @ \cup {k} ELSE @]

LEMMA DelRestIs ==
    ASSUME NEW s, NEW g, NEW k, NEW T, Sound(g), Kept(s, g), NEW sp,
           sp = IF T = "vhash" THEN s.spoiled \cup {k} ELSE s.spoiled
    PROVE  DelRest(g, k, T) = WithSpoiled(WithPuts(del(g, {Desc(k)}), s.puts \ {k}), sp)
<1>1. PICK d : d = del(g, {Desc(k)}) /\ Erased(g, d, {Desc(k)})
  BY DelFacts
<1>2. d.puts = s.puts /\ d.spoiled = s.spoiled
  BY <1>1 DEF Erased, Kept
<1>3. DelRest(g, k, T) = [d EXCEPT !.puts = s.puts \ {k}, !.spoiled = sp]
  BY <1>1, <1>2 DEF DelRest
<1> QED
  BY <1>1, <1>3 DEF WithSpoiled, WithPuts

LEMMA DelRestGoes ==
    ASSUME NEW s, NEW w, Good(s, w), NEW k \in Key, ~ IsLease(s, k), NEW g, Cleared(s, g, k)
    PROVE  Steps(s, DelRest(g, k, Info(s, k).type), k, w) /\ Spoilt(s, DelRest(g, k, Info(s, k).type), k)
<1>1. PICK sp : sp = IF Info(s, k).type = "vhash" THEN s.spoiled \cup {k} ELSE s.spoiled
  OBVIOUS
<1>2. Sound(g) /\ Kept(s, g)
  BY DEF Cleared
<1>3. DelRest(g, k, Info(s, k).type) = WithSpoiled(WithPuts(del(g, {Desc(k)}), s.puts \ {k}), sp)
  BY <1>1, <1>2, DelRestIs
<1> QED
  BY <1>1, <1>3, DelClosing

\* del of a lease.
LEMMA DelLeaseGoes ==
    ASSUME NEW s, NEW w, Good(s, w), NEW k \in Key, IsLease(s, k)
    PROVE  Goes(s, DelRest(lease_drop(s, k), k, "lease"), w)
<1>1. PICK g : g = lease_drop(s, k)
  OBVIOUS
<1>2. Good(g, w) /\ Now(g) = Now(s) /\ Passes(s, g) /\ Lapses(s, g) /\ Released(s, g, {k})
  BY <1>1, LeaseDropGood
<1>3. KeyOK(g, k, w) /\ Info(g, k) = NoKey
  <2>1. PICK ks \in SUBSET Key : ks = {k}
    OBVIOUS
  <2> QED BY <1>2, <2>1, ReleasedKeys
<1>4. Info(g, k).type = "none" /\ ~ IsLease(g, k)
  BY <1>3, NoKeyFacts DEF IsLease
<1>5. \A type \in Content : Fields(g, type, k) = {}
  <2>1. "lease" \in KeyTypes
    BY DEF KeyTypes
  <2>2. valid(g, k, "lease")
    BY <1>4 DEF valid
  <2> QED BY <1>2, <1>4, <2>1, <2>2, OwnedFacts
<1>6. Cleared(g, g, k)
  BY <1>2, <1>5 DEF Cleared, Good, Kept, Same
<1>7. PICK r : r = DelRest(g, k, Info(g, k).type)
  OBVIOUS
<1>8. Steps(g, r, k, w) /\ Spoilt(g, r, k)
  BY <1>2, <1>4, <1>6, <1>7, DelRestGoes
<1>9. r = DelRest(lease_drop(s, k), k, "lease")
  BY <1>1, <1>4, <1>7 DEF DelRest
<1>10. Good(r, w) /\ Now(s) <= Now(r)
  BY <1>2, <1>8, GoodNow DEF Steps
<1>11. \A key \in Key : Hands(s, r, key)
  BY <1>2, <1>8 DEF Steps, Lapses, Hands, Same, Has
<1>12. ASSUME NEW key \in Key PROVE Plainly(s, r, key) \/ Spoilt(s, r, key)
  <2>1. Plainly(s, g, key)
    BY <1>2 DEF Passes
  <2>2. CASE key = k
    <3>1. k \in g.spoiled <=> k \in s.spoiled
      BY <1>2 DEF Released
    <3>2. Info(s, k).type # "vhash"
      BY DEF IsLease
    <3> QED BY <1>8, <2>2, <3>1, <3>2 DEF Spoilt
  <2>3. CASE key # k
    <3>1. Plainly(g, r, key)
      BY <1>8, <2>3 DEF Steps, Plainly
    <3> QED BY <2>1, <3>1, PlainlyTrans
  <2> QED BY <2>2, <2>3
<1> QED
  BY <1>9, <1>10, <1>11, <1>12 DEF Goes

LEMMA RemoveFieldsClears ==
    ASSUME NEW s, NEW w, Good(s, w), NEW k \in Key, NEW types, types \subseteq Content, NEW size,
           \A type \in types : Cardinality(Fields(s, type, k)) = size,
           \A type \in Content : type \notin types => Fields(s, type, k) = {}
    PROVE  Cleared(s, removeFields(s, k, types, size), k)
<1>1. PICK locs : locs = UNION {Fields(s, type, k) : type \in types}
  OBVIOUS
<1>2. removeFields(s, k, types, size) = del(s, locs)
  BY <1>1 DEF removeFields
<1>3. \A loc \in locs : IsOwn(loc, k)
  BY <1>1, OwnTag DEF Fields
<1>4. \A type \in Content : Fields(s, type, k) \subseteq locs
  BY <1>1
<1> QED
  BY <1>2, <1>3, <1>4, ClearedFacts DEF Good

\* del finds the entries that the descriptor promises.
LEMMA DelKeyGoes ==
    ASSUME NEW s, NEW w, Good(s, w), NEW k \in Key
    PROVE  Goes(s, delKey(s, k), w)
<1>1. PICK T : T = Info(s, k).type
  OBVIOUS
<1>2. InfoOK(Info(s, k), w) /\ EntriesOK(s, k, Info(s, k))
  BY DEF Good, KeyOK
<1>3. T \in KeyTypes \cup {"none"}
  BY <1>1, <1>2 DEF InfoOK, Descriptor
<1>4. CASE T = "none"
  <2>1. delKey(s, k) = s
    BY <1>1, <1>4 DEF delKey
  <2> QED BY <2>1, FineSame, FineGoes
<1>5. CASE T = "lease"
  <2>1. delKey(s, k) = DelRest(lease_drop(s, k), k, "lease")
    BY <1>1, <1>5 DEF delKey, DelRest, FieldTypes
  <2> QED BY <1>1, <1>5, <2>1, DelLeaseGoes DEF IsLease
<1>6. CASE T = "string"
  <2>1. Fields(s, "string", k) = {Str(k)} /\ \A type \in Content : type # "string" => Fields(s, type, k) = {}
    BY <1>1, <1>2, <1>6 DEF EntriesOK, Owned
  <2>2. Has(s, Str(k))
    BY <2>1 DEF Fields, Has
  <2>3. IsOwn(Str(k), k)
    BY LocatorParts, OwnTag, ContentTags DEF KeyTypes
  <2>4. PICK g : g = del(s, {Str(k)})
    OBVIOUS
  <2>5. Cleared(s, g, k)
    <3>1. \A type \in Content : Fields(s, type, k) \subseteq {Str(k)}
      BY <2>1
    <3> QED BY <2>3, <2>4, <3>1, ClearedFacts DEF Good
  <2>6. delKey(s, k) = DelRest(g, k, T)
    BY <1>1, <1>6, <2>2, <2>4 DEF delKey, DelRest, FieldTypes
  <2>7. ~ IsLease(s, k)
    BY <1>1, <1>6 DEF IsLease
  <2> QED BY <1>1, <2>5, <2>6, <2>7, DelRestGoes, SpoiltGoes
<1>7. CASE T \in FieldTypes
  <2>0. T \in Content /\ T # "none" /\ T # "string" /\ T # "lhash" /\ T # "lease" /\ Owned(T) = {T}
    BY <1>7 DEF Content, FieldTypes, Owned
  <2>1. \A type \in Content : type \notin {T} => Fields(s, type, k) = {}
    BY <1>1, <1>2, <2>0 DEF EntriesOK
  <2>2. \A type \in {T} : Cardinality(Fields(s, type, k)) = Info(s, k).size
    BY <1>1, <1>2, <1>7 DEF EntriesOK, Counted
  <2>3. PICK g : g = removeFields(s, k, {T}, Info(s, k).size)
    OBVIOUS
  <2>4. Cleared(s, g, k)
    <3>1. PICK types : types = {T} /\ types \subseteq Content
      BY <2>0
    <3> QED BY <2>1, <2>2, <2>3, <3>1, RemoveFieldsClears
  <2>5. delKey(s, k) = DelRest(g, k, T)
    BY <1>1, <1>7, <2>0, <2>3 DEF delKey, DelRest
  <2>6. ~ IsLease(s, k)
    BY <1>1, <2>0 DEF IsLease
  <2> QED BY <1>1, <2>4, <2>5, <2>6, DelRestGoes, SpoiltGoes
<1>8. CASE T = "lhash"
  <2>1. \A type \in Content : type \notin {"lhash", "lindex"} => Fields(s, type, k) = {}
    BY <1>1, <1>2, <1>8 DEF EntriesOK, Owned
  <2>2. Counted(s, "lindex", k, Info(s, k).size) /\ LocalOK(s, k)
    BY <1>1, <1>2, <1>8 DEF EntriesOK
  <2>3. \A type \in {"lhash", "lindex"} : Cardinality(Fields(s, type, k)) = Info(s, k).size
    BY <2>2, LhashCount DEF Counted
  <2>4. PICK g : g = removeFields(s, k, {"lhash", "lindex"}, Info(s, k).size)
    OBVIOUS
  <2>5. Cleared(s, g, k)
    <3>1. PICK types : types = {"lhash", "lindex"} /\ types \subseteq Content
      BY DEF Content
    <3> QED BY <2>1, <2>3, <2>4, <3>1, RemoveFieldsClears
  <2>6. delKey(s, k) = DelRest(g, k, T)
    BY <1>1, <1>8, <2>4 DEF delKey, DelRest, FieldTypes
  <2>7. ~ IsLease(s, k)
    BY <1>1, <1>8 DEF IsLease
  <2> QED BY <1>1, <2>5, <2>6, <2>7, DelRestGoes, SpoiltGoes
<1> QED
  BY <1>3, <1>4, <1>5, <1>6, <1>7, <1>8 DEF KeyTypes, FieldTypes

\* The entries flushall spares.
Spared(loc) == loc[1] \in {"clock", "config"}

LEMMA FlushFacts ==
    ASSUME NEW s, Sound(s)
    PROVE  LET s2 == flushall(s)
           IN  /\ Sound(s2) /\ s2.puts = {} /\ s2.cache = {} /\ s2.revs = s.revs
               /\ s2.spoiled = s.spoiled \cup {k \in Key : Info(s, k).type = "vhash"}
               /\ \A loc : Has(s2, loc) => Spared(loc)
               /\ \A loc : Spared(loc) => Same(s, s2, loc)
<1>1. PICK locs : locs = {loc \in DOMAIN s.store : loc[1] \notin {"clock", "config"}}
  OBVIOUS
<1>2. PICK d : d = del(s, locs) /\ Erased(s, d, locs)
  BY DelFacts
<1>3. Sound(d) /\ Kept(s, d)
  BY <1>2 DEF Erased
<1>4. PICK sp : sp = d.spoiled \cup {k \in Key : Info(s, k).type = "vhash"}
  OBVIOUS
<1>5. flushall(s) = WithSpoiled(WithCache(WithPuts(d, {}), {}), sp)
  BY <1>1, <1>2, <1>4 DEF flushall, WithSpoiled, WithCache, WithPuts
<1>6. PICK p : p = WithPuts(d, {})
  OBVIOUS
<1>7. Sound(p) /\ p.puts = {} /\ p.store = d.store /\ p.revs = d.revs
  BY <1>3, <1>6, PutsField
<1>8. PICK c : c = WithCache(p, {})
  OBVIOUS
<1>9. Sound(c) /\ c.puts = {} /\ c.cache = {} /\ c.store = d.store /\ c.revs = d.revs
  BY <1>7, <1>8, CacheField
<1>10. PICK s2 : s2 = WithSpoiled(c, sp)
  OBVIOUS
<1>11. Sound(s2) /\ s2.spoiled = sp /\ s2.puts = {} /\ s2.cache = {} /\ s2.store = d.store /\ s2.revs = d.revs
  BY <1>9, <1>10, SpoiledField
<1>12. flushall(s) = s2
  BY <1>5, <1>6, <1>8, <1>10
<1>13. \A loc : Has(s2, loc) => Spared(loc)
  BY <1>1, <1>2, <1>11 DEF Erased, Has, Spared
<1>14. ASSUME NEW loc, Spared(loc) PROVE Same(s, s2, loc)
  <2>1. loc \notin locs
    BY <1>1, <1>14 DEF Spared
  <2>2. Same(s, d, loc)
    BY <1>2, <2>1 DEF Erased
  <2> QED BY <1>11, <2>2 DEF Same
<1>15. s2.revs = s.revs /\ sp = s.spoiled \cup {k \in Key : Info(s, k).type = "vhash"}
  BY <1>3, <1>4, <1>11 DEF Kept
<1> QED
  BY <1>11, <1>12, <1>13, <1>14, <1>15

LEMMA FlushGoes ==
    ASSUME NEW s, NEW w, Good(s, w)
    PROVE  Goes(s, flushall(s), w)
<1>1. PICK s2 : s2 = flushall(s)
  OBVIOUS
<1>2. /\ Sound(s2) /\ s2.puts = {} /\ s2.cache = {} /\ s2.revs = s.revs
      /\ s2.spoiled = s.spoiled \cup {k \in Key : Info(s, k).type = "vhash"}
      /\ (\A loc : Has(s2, loc) => Spared(loc)) /\ (\A loc : Spared(loc) => Same(s, s2, loc))
  BY <1>1, FlushFacts DEF Good
<1>3. ASSUME NEW k \in Key PROVE KeyOK(s2, k, w) /\ Info(s2, k) = NoKey
  <2>1. ~ Has(s2, Desc(k))
    BY <1>2, LocatorParts DEF Spared
  <2>2. \A type \in Content : Fields(s2, type, k) = {}
    BY <1>2, ContentTags DEF Spared, Fields, Has
  <2> QED BY <2>1, <2>2, NoneOK
<1>4. \A k \in Key : Info(s2, k).type = "none"
  BY <1>3, NoKeyFacts
<1>5. \A k \in Key : ~ IsLease(s2, k)
  BY <1>4 DEF IsLease
<1>6. ClockOK(s2, w) /\ Now(s2) = Now(s)
  <2>1. Same(s, s2, Clock)
    BY <1>2, LocatorParts DEF Spared
  <2> QED BY <2>1, SameTime DEF Good
<1>7. EventsOK(s2)
  <2>1. \A loc \in DOMAIN s2.store : loc[1] # "event"
    BY <1>2 DEF Has, Spared
  <2>2. Deadlines(s2) = {}
    BY <1>5 DEF Deadlines
  <2> QED BY <1>2, <1>5, <2>1, <2>2 DEF EventsOK
<1>8. RegistersOK(s2)
  BY <1>2 DEF Good, RegistersOK
<1>9. \A k \in Key : Spoilt(s, s2, k)
  BY <1>2, <1>4 DEF Spoilt
<1>10. ASSUME NEW k \in Key PROVE RevOK(s2, k)
  <2>1. RevOK(s, k)
    BY DEF Good
  <2> QED BY <1>2, <1>4, <2>1 DEF RevOK
<1>11. \A k \in Key : TermOK(s2, k, w)
  BY <1>5 DEF TermOK
<1>12. Good(s2, w)
  BY <1>2, <1>3, <1>6, <1>7, <1>8, <1>10, <1>11 DEF Good
<1>13. \A k \in Key : Hands(s, s2, k)
  BY <1>5, <1>3, NoLeaseEntry DEF Hands
<1>14. Now(s) <= Now(s2)
  BY <1>6, GoodNow
<1> QED
  BY <1>1, <1>9, <1>12, <1>13, <1>14 DEF Goes

LEMMA ConfigSetGoes ==
    ASSUME NEW s, NEW w, Good(s, w), NEW name, NEW value
    PROVE  Goes(s, configSet(s, name, value), w)
<1>1. PICK new : new = One(Config(name), value) /\ DOMAIN new = {Config(name)}
  BY OneFacts
<1>2. PICK s2 : s2 = put(s, new) /\ Wrote(s, s2, new)
  BY PutFacts DEF Good
<1>3. Sound(s2) /\ Kept(s, s2) /\ \A loc : loc # Config(name) => Same(s, s2, loc)
  BY <1>1, <1>2 DEF Wrote
<1>4. ASSUME NEW k \in Key PROVE SameKey(s, s2, k) /\ SameRev(s, s2, k)
  <2>1. ~ IsOwn(Config(name), k)
    BY LocatorParts, SharedTags
  <2> QED BY <1>3, <2>1 DEF SameKey, SameRev, Kept
<1>5. \A k \in Key : Info(s2, k) = Info(s, k)
  BY <1>4, SameKeyFacts
<1>6. ClockOK(s2, w) /\ Now(s2) = Now(s)
  <2>1. Same(s, s2, Clock)
    BY <1>3, LocatorParts
  <2> QED BY <2>1, SameTime DEF Good
<1>7. EventsOK(s2)
  <2>1. \A loc : loc[1] = "event" => Same(s, s2, loc)
    BY <1>3, LocatorParts
  <2>2. \A k \in Key : IsLease(s2, k) <=> IsLease(s, k)
    BY <1>5 DEF IsLease
  <2> QED BY <1>3, <1>5, <2>1, <2>2, SameEvents DEF Good, Kept
<1>8. RegistersOK(s2)
  BY <1>3 DEF Good, RegistersOK, Kept
<1>9. ASSUME NEW k \in Key PROVE KeyOK(s2, k, w) /\ RevOK(s2, k) /\ TermOK(s2, k, w)
  <2>1. KeyOK(s, k, w) /\ RevOK(s, k) /\ TermOK(s, k, w)
    BY DEF Good
  <2>2. KeyOK(s2, k, w)
    BY <1>4, <2>1, SameKeyFacts
  <2>3. RevOK(s2, k)
    BY <1>4, <1>5, <2>1, SameRevOK
  <2>4. TermOK(s2, k, w)
    BY <1>5, <1>6, <2>1, SameTerm
  <2> QED BY <2>2, <2>3, <2>4
<1>10. Good(s2, w)
  BY <1>3, <1>6, <1>7, <1>8, <1>9 DEF Good
<1>11. \A k \in Key : Same(s, s2, Lease(k)) /\ Plainly(s, s2, k)
  BY <1>4, SameLease DEF Plainly
<1>12. Fine(s, s2, w)
  BY <1>6, <1>10, <1>11 DEF Fine
<1> QED
  BY <1>1, <1>2, <1>12, FineGoes DEF configSet

-----------------------------------------------------------------------------
(* The steps of the specification *)

\* Clients leave out what the code does not guard against.
Careful == Unguarded \cap {"smove", "set", "lease_get", "vhash"} = {}

\* A command has been executed.
Ran ==
    /\ count < load.commands /\ count' = count + 1 /\ UNCHANGED <<db, keeper, load>>
    /\ Goes(area, area', load)

LEMMA ExecuteRan ==
    ASSUME NEW s, Execute(s), Goes(area, s, load)
    PROVE  Ran
BY DEF Execute, Ran

LEMMA LoadFacts ==
    ASSUME load \in Workload
    PROVE  /\ load.keys \subseteq Key /\ IsFiniteSet(load.fields) /\ load.commands \in Nat /\ load.clock \in Nat
           /\ MaxDuration \in Nat
BY BoundsAssumption

LEMMA FieldSubsets ==
    ASSUME load \in Workload, NEW fs \in SUBSET load.fields
    PROVE  IsFiniteSet(fs)
BY LoadFacts, FS_Subset

LEMMA SetRan ==
    ASSUME Careful, load \in Workload, Good(area, load), NEW k \in Key, NEW length \in 0..1, Set(k, length)
    PROVE  Ran
<1>1. length = 1 /\ "string" \in load.types /\ Execute(set(area, k, length))
  BY DEF Set, Careful
<1>2. Goes(area, set(area, k, 1), load)
  BY <1>1, SetGood, FineGoes
<1> QED
  BY <1>1, <1>2, ExecuteRan

LEMMA HashRan ==
    ASSUME load \in Workload, Good(area, load), NEW k \in Key, NEW f, HashCommand(k, f)
    PROVE  Ran
<1>0. "hash" \in load.types
  BY DEF HashCommand
<1>1. ASSUME NEW fs \in SUBSET load.fields, NEW new \in [fs -> Val], Execute(hmset(area, k, new)) PROVE Ran
  <2>1. IsFiniteSet(DOMAIN new)
    BY FieldSubsets
  <2>2. Goes(area, hmset(area, k, new), load)
    BY <1>0, <2>1, HmsetGood, FineGoes
  <2> QED BY <1>1, <2>2, ExecuteRan
<1>2. ASSUME NEW v, Execute(hsetnx(area, k, f, v)) PROVE Ran
  <2>1. Goes(area, hsetnx(area, k, f, v), load)
    BY <1>0, HsetnxGood, FineGoes
  <2> QED BY <1>2, <2>1, ExecuteRan
<1>3. ASSUME Execute(hincrby(area, k, f)) PROVE Ran
  <2>1. Goes(area, hincrby(area, k, f), load)
    BY <1>0, HsetnxGood, FineGoes
  <2> QED BY <1>3, <2>1, ExecuteRan
<1>4. ASSUME NEW fs, Execute(hdel(area, k, fs)) PROVE Ran
  <2>1. Goes(area, hdel(area, k, fs), load)
    BY HdelGood, FineGoes
  <2> QED BY <1>4, <2>1, ExecuteRan
<1>5. ASSUME NEW target \in load.keys, Execute(hclone(area, k, target)) PROVE Ran
  <2>1. target \in Key
    BY LoadFacts
  <2>2. Goes(area, hclone(area, k, target), load)
    BY <1>0, <2>1, HcloneGood, FineGoes
  <2> QED BY <1>5, <2>2, ExecuteRan
<1> QED
  BY <1>1, <1>2, <1>3, <1>4, <1>5 DEF HashCommand

LEMMA SetCommandRan ==
    ASSUME Careful, load \in Workload, Good(area, load), NEW k \in Key, NEW f, SetCommand(k, f)
    PROVE  Ran
<1>0. "set" \in load.types
  BY DEF SetCommand
<1>1. ASSUME NEW fs \in SUBSET load.fields, Execute(sadd(area, k, fs)) \/ Execute(srem(area, k, fs)) PROVE Ran
  <2>1. IsFiniteSet(fs)
    BY FieldSubsets
  <2>2. Goes(area, sadd(area, k, fs), load) /\ Goes(area, srem(area, k, fs), load)
    BY <1>0, <2>1, SaddGood, FineGoes
  <2> QED BY <1>1, <2>2, ExecuteRan
<1>2. ASSUME NEW target \in load.keys, target = k => "smove" \in Unguarded, Execute(smove(area, k, target, f))
      PROVE  Ran
  <2>1. target \in Key /\ k # target
    BY <1>2, LoadFacts DEF Careful
  <2>2. Goes(area, smove(area, k, target, f), load)
    BY <1>0, <2>1, SmoveGood, FineGoes
  <2> QED BY <1>2, <2>2, ExecuteRan
<1> QED
  BY <1>1, <1>2 DEF SetCommand

LEMMA DequeRan ==
    ASSUME load \in Workload, Good(area, load), NEW k \in Key, NEW direction \in {Left, Right},
           DequeCommand(k, direction)
    PROVE  Ran
<1>0. "deque" \in load.types
  BY DEF DequeCommand
<1>1. ASSUME NEW n \in 1..2, Execute(dequePush(area, direction, k, n)) PROVE Ran
  <2>1. n \in Nat \ {0}
    OBVIOUS
  <2>2. Goes(area, dequePush(area, direction, k, n), load)
    BY <1>0, <2>1, DequePushGood, FineGoes
  <2> QED BY <1>1, <2>2, ExecuteRan
<1>2. ASSUME Execute(dequePop(area, direction, k)) PROVE Ran
  <2>1. Goes(area, dequePop(area, direction, k), load)
    BY DequePopGood, FineGoes
  <2> QED BY <1>2, <2>1, ExecuteRan
<1>3. ASSUME NEW keep \in 0..1, Execute(dequeTrimFront(area, k, keep)) PROVE Ran
  <2>1. keep \in Nat
    OBVIOUS
  <2>2. Goes(area, dequeTrimFront(area, k, keep), load)
    BY <2>1, DequeTrimGood, FineGoes
  <2> QED BY <1>3, <2>2, ExecuteRan
<1> QED
  BY <1>1, <1>2, <1>3 DEF DequeCommand

LEMMA LocalityRan ==
    ASSUME load \in Workload, Good(area, load), NEW k \in Key, NEW f, NEW h, LocalityCommand(k, f, h)
    PROVE  Ran
<1>0. "lhash" \in load.types
  BY DEF LocalityCommand
<1>1. ASSUME Execute(lhset(area, k, f, h)) PROVE Ran
  <2>1. Goes(area, lhset(area, k, f, h), load)
    BY <1>0, LhsetGood, FineGoes
  <2> QED BY <1>1, <2>1, ExecuteRan
<1>2. ASSUME Execute(lhlocdel(area, k, f, h)) PROVE Ran
  <2>1. Goes(area, lhlocdel(area, k, f, h), load)
    BY LhlocdelGood, FineGoes
  <2> QED BY <1>2, <2>1, ExecuteRan
<1>3. ASSUME NEW fs, Execute(lhdel(area, k, fs)) PROVE Ran
  <2>1. Goes(area, lhdel(area, k, fs), load)
    BY LhdelGood, FineGoes
  <2> QED BY <1>3, <2>1, ExecuteRan
<1>4. ASSUME NEW other \in load.keys,
             Execute(lhsetAndDelFallback(area, k, f, h, other)) \/ Execute(lhdelWithFallback(area, k, f, other))
      PROVE  Ran
  <2>1. other \in Key
    BY LoadFacts
  <2>2. Goes(area, lhsetAndDelFallback(area, k, f, h, other), load)
    BY <1>0, <2>1, FallbackGood, FineGoes
  <2>3. Goes(area, lhdelWithFallback(area, k, f, other), load)
    BY <1>0, <2>1, FallbackGood, FineGoes
  <2> QED BY <1>4, <2>2, <2>3, ExecuteRan
<1>5. ASSUME NEW other \in load.keys, NEW g, Execute(convertHashField(area, other, g, k, f, h)) PROVE Ran
  <2>1. other \in Key
    BY LoadFacts
  <2>2. Goes(area, convertHashField(area, other, g, k, f, h), load)
    BY <1>0, <2>1, ConvertGood, FineGoes
  <2> QED BY <1>5, <2>2, ExecuteRan
<1> QED
  BY <1>1, <1>2, <1>3, <1>4, <1>5 DEF LocalityCommand

LEMMA VersionedRan ==
    ASSUME Careful, load \in Workload, Good(area, load), NEW k \in Key, NEW f, VersionedCommand(k, f)
    PROVE  Ran
<1>0. "vhash" \in load.types /\ k \notin area.spoiled
  BY DEF VersionedCommand, Careful
<1>1. ASSUME NEW v, Execute(vhset(area, k, f, v)) PROVE Ran
  <2>1. Goes(area, vhset(area, k, f, v), load)
    BY <1>0, VhsetGood, FineGoes, CountsGoes
  <2> QED BY <1>1, <2>1, ExecuteRan
<1>2. ASSUME NEW fs, Execute(vhdel(area, k, fs)) PROVE Ran
  <2>1. Goes(area, vhdel(area, k, fs), load)
    BY <1>0, VhdelGood, FineGoes, CountsGoes
  <2> QED BY <1>2, <2>1, ExecuteRan
<1> QED
  BY <1>1, <1>2 DEF VersionedCommand

LEMMA LeaseRan ==
    ASSUME Careful, load \in Workload, Good(area, load), NEW k \in Key, NEW t \in 0..load.clock, LeaseCommand(k, t)
    PROVE  Ran
<1>0. "lease" \in load.types
  BY DEF LeaseCommand
<1>1. t \in Nat /\ t <= load.clock /\ MaxDuration \in Nat /\ load.clock \in Nat
  BY LoadFacts
<1>2. ASSUME NEW holder, NEW duration \in 1..MaxDuration, Execute(lease_acquire(area, k, holder, t, duration))
      PROVE  Ran
  <2>1. Goes(area, lease_acquire(area, k, holder, t, duration), load)
    BY <1>0, <1>1, LeaseAcquireGoes
  <2> QED BY <1>2, <2>1, ExecuteRan
<1>3. ASSUME Execute(lease_release(area, k, t)) PROVE Ran
  <2>1. Goes(area, lease_release(area, k, t), load)
    BY <1>1, LeaseReleaseGoes
  <2> QED BY <1>3, <2>1, ExecuteRan
<1>4. ASSUME ~ valid(maybeAdvanceClock(area, t), k, "lease") => "lease_get" \in Unguarded,
             Execute(lease_get(area, k, t))
      PROVE  Ran
  <2>1. valid(maybeAdvanceClock(area, t), k, "lease")
    BY <1>4 DEF Careful
  <2>2. lease_get(area, k, t) = maybeAdvanceClock(area, t)
    BY <1>1, <2>1, LeaseGetGood
  <2>3. Goes(area, lease_get(area, k, t), load)
    BY <1>1, <2>2, MaybeAdvanceGoes
  <2> QED BY <1>4, <2>3, ExecuteRan
<1> QED
  BY <1>2, <1>3, <1>4 DEF LeaseCommand

LEMMA CommandRan ==
    ASSUME Careful, load \in Workload, Good(area, load), Command
    PROVE  Ran
<1>1. ASSUME NEW k \in load.keys, NEW length \in 0..1, Set(k, length) PROVE Ran
  BY <1>1, SetRan, LoadFacts
<1>2. ASSUME NEW k \in load.keys, NEW f \in load.fields, HashCommand(k, f) PROVE Ran
  BY <1>2, HashRan, LoadFacts
<1>3. ASSUME NEW k \in load.keys, NEW f \in load.fields, SetCommand(k, f) PROVE Ran
  BY <1>3, SetCommandRan, LoadFacts
<1>4. ASSUME NEW k \in load.keys, NEW f \in load.fields, VersionedCommand(k, f) PROVE Ran
  BY <1>4, VersionedRan, LoadFacts
<1>5. ASSUME NEW k \in load.keys, NEW f \in load.fields, NEW h \in Hint, LocalityCommand(k, f, h) PROVE Ran
  BY <1>5, LocalityRan, LoadFacts
<1>6. ASSUME NEW k \in load.keys, NEW direction \in {Left, Right}, DequeCommand(k, direction) PROVE Ran
  BY <1>6, DequeRan, LoadFacts
<1>7. ASSUME NEW k \in load.keys, NEW t \in 0..load.clock, LeaseCommand(k, t) PROVE Ran
  BY <1>7, LeaseRan, LoadFacts
<1>8. ASSUME NEW k \in load.keys, Del(k) PROVE Ran
  <2>1. k \in Key
    BY LoadFacts
  <2>2. Goes(area, delKey(area, k), load)
    BY <2>1, DelKeyGoes
  <2> QED BY <1>8, <2>2, ExecuteRan DEF Del
<1>9. ASSUME NEW name \in load.fields, ConfigSet(name) PROVE Ran
  <2>1. PICK value \in Val : Execute(configSet(area, name, value))
    BY <1>9 DEF ConfigSet
  <2>2. Goes(area, configSet(area, name, value), load)
    BY ConfigSetGoes
  <2> QED BY <2>1, <2>2, ExecuteRan
<1>10. ASSUME Flushall PROVE Ran
  <2>1. Goes(area, flushall(area), load)
    BY FlushGoes
  <2> QED BY <1>10, <2>1, ExecuteRan DEF Flushall
<1> QED
  BY <1>1, <1>2, <1>3, <1>4, <1>5, <1>6, <1>7, <1>8, <1>9, <1>10 DEF Command

-----------------------------------------------------------------------------
(* The invariant *)

\* The expiration cache that a process loads when it starts, and its staging area.
EventsIn(store) == {<<loc[2], loc[3]>> : loc \in {l \in DOMAIN store : l[1] = "event"}}
Base(store) == NewArea(store, EventsIn(store))

LEMMA AreaFacts ==
    ASSUME NEW store, NEW cache
    PROVE  /\ Sound(NewArea(store, cache)) /\ NewArea(store, cache).store = store
           /\ NewArea(store, cache).cache = cache /\ NewArea(store, cache).puts = {}
           /\ NewArea(store, cache).spoiled = {} /\ DOMAIN NewArea(store, cache).revs = {}
<1>1. DOMAIN <<>> = {}
  OBVIOUS
<1> QED
  BY <1>1 DEF NewArea, Sound, IsArea

\* The cache a process would load is the one it has.
LEMMA CacheLoaded ==
    ASSUME NEW s, EventsOK(s)
    PROVE  s.cache = EventsIn(s.store)
<1>1. ASSUME NEW e PROVE e \in Deadlines(s) <=> e \in EventsIn(s.store)
  <2>1. ASSUME e \in Deadlines(s) PROVE e \in EventsIn(s.store)
    <3>1. PICK k \in Key : IsLease(s, k) /\ e = <<Info(s, k).end, k>>
      BY <2>1, DeadlineIn
    <3>2. PICK loc : loc = Event(Info(s, k).end, k)
      OBVIOUS
    <3>3. loc \in DOMAIN s.store
      BY <3>1, <3>2 DEF EventsOK, Has
    <3>4. loc[1] = "event" /\ <<loc[2], loc[3]>> = e
      BY <3>1, <3>2, LocatorParts
    <3> QED BY <3>3, <3>4 DEF EventsIn
  <2>2. ASSUME e \in EventsIn(s.store) PROVE e \in Deadlines(s)
    <3>1. PICK loc \in DOMAIN s.store : loc[1] = "event" /\ e = <<loc[2], loc[3]>>
      BY <2>2 DEF EventsIn
    <3>2. PICK k \in Key : IsLease(s, k) /\ loc = Event(Info(s, k).end, k)
      BY <3>1 DEF EventsOK, EventOf
    <3>3. e = <<Info(s, k).end, k>>
      BY <3>1, <3>2, LocatorParts
    <3> QED BY <3>2, <3>3, DeadlineIn
  <2> QED BY <2>1, <2>2
<1>2. Deadlines(s) = EventsIn(s.store)
  BY <1>1
<1> QED
  BY <1>2 DEF EventsOK

LEMMA FreshGood ==
    ASSUME NEW s, NEW w, Good(s, w)
    PROVE  /\ NewArea(s.store, s.cache) = Base(s.store) /\ Good(Base(s.store), w)
           /\ Now(Base(s.store)) = Now(s)
<1>1. PICK n : n = NewArea(s.store, s.cache)
  OBVIOUS
<1>2. /\ Sound(n) /\ n.store = s.store /\ n.cache = s.cache /\ n.puts = {} /\ n.spoiled = {}
      /\ DOMAIN n.revs = {}
  BY <1>1, AreaFacts
<1>3. n = Base(s.store)
  BY <1>1, CacheLoaded DEF Good, Base
<1>4. \A loc : Same(s, n, loc)
  BY <1>2 DEF Same
<1>5. \A k \in Key : Info(n, k) = Info(s, k) /\ KeyOK(n, k, w)
  BY <1>4, SameKeyFacts DEF Good, SameKey
<1>6. ClockOK(n, w) /\ Now(n) = Now(s)
  BY <1>4, SameTime DEF Good
<1>7. EventsOK(n)
  <2>1. \A k \in Key : IsLease(n, k) <=> IsLease(s, k)
    BY <1>5 DEF IsLease
  <2> QED BY <1>2, <1>4, <1>5, <2>1, SameEvents DEF Good
<1>8. \A k \in Key : RevOK(n, k)
  BY <1>2 DEF RevOK
<1>9. \A k \in Key : TermOK(n, k, w)
  BY <1>5, <1>6, SameTerm DEF Good
<1>10. RegistersOK(n)
  BY <1>2 DEF RegistersOK
<1>11. Good(n, w)
  BY <1>2, <1>5, <1>6, <1>7, <1>8, <1>9, <1>10 DEF Good
<1> QED
  BY <1>1, <1>3, <1>6, <1>11

\* How versioned hash k of this transaction compares with the database d before it.
VersionOK(d, s, k) ==
    /\ Info(d, k).type = "vhash" /\ Info(s, k).type # "vhash" => k \in s.spoiled
    /\ Info(s, k).type = "vhash" /\ k \notin s.puts => SameKey(d, s, k)
    /\ Info(s, k).type = "vhash" /\ k \in s.puts /\ k \notin s.spoiled /\ Info(d, k).type \in {"vhash", "none"}
          => Info(s, k).start = Info(d, k).start + 1
    /\ Info(s, k).type = "vhash" /\ k \in s.spoiled => SameVals(d, s, k)

LEMMA VersionFresh ==
    ASSUME NEW d, NEW k, d.puts = {}, d.spoiled = {}
    PROVE  VersionOK(d, d, k)
BY DEF VersionOK, SameKey, Same

LEMMA SameKeyVals ==
    ASSUME NEW s, NEW s2, NEW k, SameKey(s, s2, k)
    PROVE  SameVals(s, s2, k)
<1>1. "vhash" \in Content
  BY DEF Content, FieldTypes
<1> QED
  BY <1>1, OwnTag DEF SameVals, SameKey

LEMMA NoVals ==
    ASSUME NEW s, NEW k, NEW w, KeyOK(s, k, w), Info(s, k).type # "vhash"
    PROVE  \A loc : loc[1] = "vhash" /\ loc[2] = k => ~ Has(s, loc)
<1>1. "vhash" \in Content /\ "vhash" \notin Owned(Info(s, k).type)
  BY DEF Content, FieldTypes, Owned
<1>2. Fields(s, "vhash", k) = {}
  BY <1>1 DEF KeyOK, EntriesOK
<1> QED
  BY <1>2 DEF Fields, Has

LEMMA NoneInfo ==
    ASSUME NEW s, NEW k, NEW w, KeyOK(s, k, w), Info(s, k).type = "none"
    PROVE  Info(s, k).start = 0
BY NoKeyFacts DEF KeyOK, Info

LEMMA VersionStep ==
    ASSUME NEW d, NEW s, NEW s2, NEW w, NEW k, KeyOK(d, k, w), KeyOK(s, k, w), RevOK(s, k), VersionOK(d, s, k),
           Plainly(s, s2, k) \/ Counts(s, s2, k) \/ Spoilt(s, s2, k)
    PROVE  VersionOK(d, s2, k)
<1>1. CASE SameKey(s, s2, k) /\ SameRev(s, s2, k)
  <2>1. Info(s2, k) = Info(s, k) /\ SameVals(s, s2, k)
    BY <1>1, SameKeyFacts, SameKeyVals
  <2>2. SameKey(d, s, k) => SameKey(d, s2, k)
    BY <1>1, SameTrans DEF SameKey
  <2>3. SameVals(d, s, k) => SameVals(d, s2, k)
    BY <2>1, SameTrans DEF SameVals
  <2> QED BY <1>1, <2>1, <2>2, <2>3 DEF VersionOK, SameRev
<1>2. CASE /\ Info(s, k).type # "vhash" /\ Info(s2, k).type # "vhash"
           /\ k \in s2.spoiled <=> k \in s.spoiled
  BY <1>2 DEF VersionOK
<1>3. CASE Spoilt(s, s2, k)
  BY <1>3 DEF VersionOK, Spoilt
<1>4. CASE Counts(s, s2, k)
  <2>1. /\ Info(s, k).type \in {"none", "vhash"} /\ k \notin s.spoiled /\ Info(s2, k).type = "vhash" /\ k \in s2.puts
        /\ k \in s.puts => k \notin s2.spoiled /\ Info(s2, k).start = Info(s, k).start
        /\ k \notin s.puts /\ k \notin s2.spoiled => Info(s2, k).start = Info(s, k).start + 1
        /\ k \in s2.spoiled => SameVals(s, s2, k)
    BY <1>4 DEF Counts, valid
  <2>2. k \in s.puts => Info(s, k).type = "vhash"
    BY <2>1 DEF RevOK
  <2>3. Info(s, k).type = "none" => Info(d, k).type # "vhash"
    BY <2>1 DEF VersionOK
  <2>4. ASSUME k \notin s2.spoiled, Info(d, k).type \in {"vhash", "none"}
        PROVE  Info(s2, k).start = Info(d, k).start + 1
    <3>1. CASE k \in s.puts
      BY <2>1, <2>2, <2>4, <3>1 DEF VersionOK
    <3>2. CASE k \notin s.puts /\ Info(s, k).type = "vhash"
      <4>1. Info(s, k) = Info(d, k)
        BY <3>2, SameKeyFacts DEF VersionOK
      <4> QED BY <2>1, <2>4, <3>2, <4>1
    <3>3. CASE k \notin s.puts /\ Info(s, k).type = "none"
      <4>1. Info(d, k).start = 0 /\ Info(s, k).start = 0
        BY <2>3, <2>4, <3>3, NoneInfo
      <4> QED BY <2>1, <2>4, <3>3, <4>1
    <3> QED BY <2>1, <3>1, <3>2, <3>3
  <2>5. ASSUME k \in s2.spoiled PROVE SameVals(d, s2, k)
    <3>1. k \notin s.puts /\ SameVals(s, s2, k)
      BY <2>1, <2>5
    <3>2. SameVals(d, s, k)
      <4>1. CASE Info(s, k).type = "vhash"
        BY <3>1, <4>1, SameKeyVals DEF VersionOK
      <4>2. CASE Info(s, k).type = "none"
        BY <2>3, <4>2, NoVals DEF SameVals, Same, Has
      <4> QED BY <2>1, <4>1, <4>2
    <3> QED BY <3>1, <3>2, SameTrans DEF SameVals
  <2> QED BY <2>1, <2>4, <2>5 DEF VersionOK
<1> QED
  BY <1>1, <1>2, <1>3, <1>4 DEF Plainly

\* What holds between commands: the staging area and the database are in order, the
\* clocks follow each other, and versions count transactions.
Inv ==
    /\ load \in Workload /\ Good(area, load) /\ Good(Base(db), load)
    /\ keeper \in Nat /\ keeper <= Now(Base(db)) /\ Now(Base(db)) <= Now(area)
    /\ count \in 0..load.commands
    /\ \A k \in Key : VersionOK(Base(db), area, k)

LEMMA EmptyGood ==
    ASSUME NEW w \in Workload, NEW s, s = NewArea(One(Clock, 0), {})
    PROVE  Good(s, w) /\ Now(s) = 0
<1>1. /\ Sound(s) /\ s.store = One(Clock, 0) /\ s.cache = {} /\ s.puts = {} /\ s.spoiled = {}
      /\ DOMAIN s.revs = {}
  BY AreaFacts
<1>2. \A loc : Has(s, loc) <=> loc = Clock
  <2>1. DOMAIN One(Clock, 0) = {Clock}
    BY OneFacts
  <2>2. DOMAIN s.store = {Clock}
    BY <1>1, <2>1
  <2> QED BY <2>2 DEF Has
<1>3. Now(s) = 0
  BY <1>1, OneFacts DEF Now
<1>4. w.clock \in Nat
  BY BoundsAssumption
<1>5. ClockOK(s, w)
  BY <1>2, <1>3, <1>4 DEF ClockOK
<1>6. ASSUME NEW k \in Key PROVE KeyOK(s, k, w) /\ Info(s, k) = NoKey
  <2>1. ~ Has(s, Desc(k))
    BY <1>2, LocatorParts
  <2>2. \A type \in Content : Fields(s, type, k) = {}
    BY <1>2, ContentTags, LocatorParts DEF Fields, Has
  <2> QED BY <2>1, <2>2, NoneOK
<1>7. \A k \in Key : ~ IsLease(s, k)
  BY <1>6, NoKeyFacts DEF IsLease
<1>8. EventsOK(s)
  <2>1. Deadlines(s) = {}
    BY <1>7 DEF Deadlines
  <2>2. \A loc \in DOMAIN s.store : loc[1] # "event"
    BY <1>2, LocatorParts DEF Has
  <2> QED BY <1>1, <1>7, <2>1, <2>2 DEF EventsOK
<1>9. \A k \in Key : RevOK(s, k) /\ TermOK(s, k, w)
  BY <1>1, <1>7 DEF RevOK, TermOK
<1>10. RegistersOK(s)
  BY <1>1 DEF RegistersOK
<1> QED
  BY <1>1, <1>3, <1>5, <1>6, <1>8, <1>9, <1>10 DEF Good

LEMMA InitInv ==
    ASSUME Init
    PROVE  Inv
<1>1. db = One(Clock, 0) /\ area = NewArea(One(Clock, 0), {}) /\ count = 0 /\ keeper = 0 /\ load \in Workload
  BY DEF Init
<1>2. Good(area, load) /\ Now(area) = 0
  BY <1>1, EmptyGood
<1>3. area.store = db /\ area.puts = {} /\ area.spoiled = {}
  BY <1>1, AreaFacts
<1>4. NewArea(area.store, area.cache) = Base(db) /\ Good(Base(db), load) /\ Now(Base(db)) = 0
  BY <1>2, <1>3, FreshGood
<1>5. area = Base(db)
  BY <1>1, <1>3, <1>4, AreaFacts
<1>6. \A k \in Key : VersionOK(Base(db), area, k)
  BY <1>3, <1>5, VersionFresh
<1>7. load.commands \in Nat
  BY <1>1, LoadFacts
<1> QED
  BY <1>1, <1>2, <1>4, <1>6, <1>7 DEF Inv

LEMMA RanInv ==
    ASSUME Inv, Ran
    PROVE  Inv'
<1>1. /\ count < load.commands /\ count' = count + 1 /\ db' = db /\ keeper' = keeper /\ load' = load
      /\ Goes(area, area', load)
  BY DEF Ran
<1>2. Good(area', load) /\ Now(area) <= Now(area')
  BY <1>1 DEF Goes
<1>3. load.commands \in Nat /\ count \in 0..load.commands
  BY LoadFacts DEF Inv
<1>4. count' \in 0..load.commands
  BY <1>1, <1>3
<1>5. Now(Base(db)) \in Nat /\ Now(area) \in Nat /\ Now(area') \in Nat /\ Now(Base(db)) <= Now(area)
  BY <1>2, GoodNow DEF Inv
<1>6. Now(Base(db)) <= Now(area')
  BY <1>2, <1>5
<1>7. ASSUME NEW k \in Key PROVE VersionOK(Base(db), area', k)
  <2>1. KeyOK(Base(db), k, load) /\ KeyOK(area, k, load) /\ RevOK(area, k) /\ VersionOK(Base(db), area, k)
    BY DEF Inv, Good
  <2>2. Plainly(area, area', k) \/ Counts(area, area', k) \/ Spoilt(area, area', k)
    BY <1>1 DEF Goes
  <2> QED BY <2>1, <2>2, VersionStep
<1> QED
  BY <1>1, <1>2, <1>4, <1>6, <1>7 DEF Inv

LEMMA FreshInv ==
    ASSUME NEW s, load \in Workload, Good(s, load), db' = s.store, area' = Base(s.store), count' = 0, load' = load,
           keeper' \in Nat, keeper' <= Now(s)
    PROVE  Inv'
<1>1. Good(Base(s.store), load) /\ Now(Base(s.store)) = Now(s)
  BY FreshGood
<1>2. Base(s.store).puts = {} /\ Base(s.store).spoiled = {}
  BY AreaFacts DEF Base
<1>3. \A k \in Key : VersionOK(Base(s.store), Base(s.store), k)
  BY <1>2, VersionFresh
<1>4. 0 \in 0..load.commands
  BY LoadFacts
<1>5. Now(Base(s.store)) <= Now(Base(s.store))
  BY <1>1, GoodNow
<1> QED
  BY <1>1, <1>3, <1>4, <1>5 DEF Inv

LEMMA CommitInv ==
    ASSUME Inv, Commit
    PROVE  Inv'
<1>1. /\ db' = area.store /\ area' = NewArea(area.store, area.cache) /\ count' = 0 /\ keeper' = keeper /\ load' = load
  BY DEF Commit
<1>2. load \in Workload /\ Good(area, load)
  BY DEF Inv
<1>3. area' = Base(area.store)
  BY <1>1, <1>2, FreshGood
<1>4. keeper \in Nat /\ Now(Base(db)) \in Nat /\ Now(area) \in Nat /\ keeper <= Now(Base(db)) /\ Now(Base(db)) <= Now(area)
  BY GoodNow DEF Inv
<1>5. keeper <= Now(area)
  BY <1>4
<1> QED
  BY <1>1, <1>2, <1>3, <1>4, <1>5, FreshInv

LEMMA BaseNow ==
    Base(db).store = db /\ Now(Base(db)) = db[Clock]
BY AreaFacts DEF Base, Now

LEMMA SynchronizeInv ==
    ASSUME Inv, Synchronize
    PROVE  Inv'
<1>1. keeper <= db[Clock] /\ db[Clock] \in Nat
  BY BaseNow, GoodNow DEF Inv
<1>2. keeper' = db[Clock] /\ area' = area /\ db' = db /\ count' = count /\ load' = load
  BY <1>1 DEF Synchronize
<1>3. keeper' \in Nat /\ keeper' <= Now(Base(db))
  BY <1>1, <1>2, BaseNow
<1> QED
  BY <1>2, <1>3 DEF Inv

LEMMA RestartInv ==
    ASSUME Inv, Restart
    PROVE  Inv'
<1>1. db' = db /\ area' = Base(db) /\ count' = 0 /\ keeper' = db[Clock] /\ load' = load
  BY DEF Restart, Base, EventsIn
<1>2. PICK s : s = Base(db) /\ Good(s, load) /\ s.store = db /\ Now(s) = db[Clock]
  BY BaseNow DEF Inv
<1>3. keeper' \in Nat /\ keeper' <= Now(s)
  BY <1>1, <1>2, GoodNow
<1>4. load \in Workload
  BY DEF Inv
<1> QED
  BY <1>1, <1>2, <1>3, <1>4, FreshInv

LEMMA NextInv ==
    ASSUME Careful, Inv, [Next]_vars
    PROVE  Inv'
<1>1. CASE Command
  <2>1. Ran
    BY <1>1, CommandRan DEF Inv
  <2> QED BY <2>1, RanInv
<1>2. CASE Commit
  BY <1>2, CommitInv
<1>3. CASE Synchronize
  BY <1>3, SynchronizeInv
<1>4. CASE Restart
  BY <1>4, RestartInv
<1>5. CASE UNCHANGED vars
  BY <1>5 DEF Inv, vars
<1> QED
  BY <1>1, <1>2, <1>3, <1>4, <1>5 DEF Next

\* The invariant holds in every state of a behaviour.
LEMMA InvHolds ==
    ASSUME Careful
    PROVE  Spec => []Inv
<1>1. Init => Inv
  BY InitInv
<1>2. Inv /\ [Next]_vars => Inv'
  BY NextInv
<1> QED
  BY <1>1, <1>2, PTL DEF Spec

-----------------------------------------------------------------------------
(* What the invariant is for *)

\* Contents has size n at these types and is empty at the others.
Of(s, k, types, n) ==
    \A type \in DOMAIN Contents(s, k) : Contents(s, k)[type] = IF type \in types THEN n ELSE 0

LEMMA OfFacts ==
    ASSUME NEW s, NEW k, NEW types, NEW n, \A type \in types : Cardinality(Fields(s, type, k)) = n,
           \A type \in Content : type \notin types => Fields(s, type, k) = {}
    PROVE  Of(s, k, types, n)
<1>1. DOMAIN Contents(s, k) = Content
  BY DEF Contents, Content
<1>2. \A type \in Content : Contents(s, k)[type] = Cardinality(Fields(s, type, k))
  BY DEF Contents, Content
<1>3. Cardinality({}) = 0
  BY FS_EmptySet
<1>4. \A type \in Content : type \notin types => Contents(s, k)[type] = 0
  BY <1>2, <1>3
<1> QED
  BY <1>1, <1>2, <1>4 DEF Of

\* DescriptorsMatch for one key.
Matched(s, k) ==
    LET info == Info(s, k)
    IN  CASE info.type = "none"   -> Of(s, k, {}, info.size)
          [] info.type = "lhash"  ->
                /\ Of(s, k, {"lhash", "lindex"}, info.size)
                /\ \A loc \in Fields(s, "lhash", k) :
                      Has(s, LIndex(k, loc[4])) /\ s.store[LIndex(k, loc[4])] = loc[3]
          [] info.type = "deque"  ->
                /\ Of(s, k, {"deque"}, info.size)
                /\ {loc[3] : loc \in Fields(s, "deque", k)} = (info.start + 1)..(info.end - 1)
          [] OTHER                -> Of(s, k, {info.type}, info.size)

LEMMA EntriesMatched ==
    ASSUME NEW s, NEW k, NEW w, KeyOK(s, k, w)
    PROVE  Matched(s, k)
<1>1. PICK info : info = Info(s, k)
  OBVIOUS
<1>2. info \in Descriptor /\ EntriesOK(s, k, info)
  BY <1>1 DEF KeyOK, InfoOK
<1>3. info.type \in KeyTypes \cup {"none"}
  BY <1>2 DEF Descriptor
<1>4. \A type \in Content : type \notin Owned(info.type) => Fields(s, type, k) = {}
  BY <1>2 DEF EntriesOK
<1>5. CASE info.type = "none"
  <2>1. \A type \in Content : Fields(s, type, k) = {}
    BY <1>4, <1>5 DEF Owned, Content, FieldTypes
  <2>2. Of(s, k, {}, info.size)
    BY <2>1, OfFacts
  <2> QED BY <1>1, <1>5, <2>2 DEF Matched
<1>6. CASE info.type = "lhash"
  <2>1. Counted(s, "lindex", k, info.size) /\ LocalOK(s, k)
    BY <1>2, <1>6 DEF EntriesOK
  <2>2. \A type \in {"lhash", "lindex"} : Cardinality(Fields(s, type, k)) = info.size
    BY <2>1, LhashCount DEF Counted
  <2>3. \A type \in Content : type \notin {"lhash", "lindex"} => Fields(s, type, k) = {}
    BY <1>4, <1>6 DEF Owned
  <2>4. PICK types : types = {"lhash", "lindex"}
    OBVIOUS
  <2>5. Of(s, k, types, info.size)
    BY <2>2, <2>3, <2>4, OfFacts
  <2>6. \A loc \in Fields(s, "lhash", k) : Has(s, LIndex(k, loc[4])) /\ s.store[LIndex(k, loc[4])] = loc[3]
    BY <2>1 DEF LocalOK, PlaceOK
  <2> QED BY <1>1, <1>6, <2>4, <2>5, <2>6 DEF Matched
<1>7. CASE info.type \in FieldTypes
  <2>1. PICK T : T = info.type /\ Owned(T) = {T} /\ T \notin {"none", "lhash"}
    BY <1>7 DEF Owned, FieldTypes
  <2>2. PICK types : types = {T}
    OBVIOUS
  <2>3. Cardinality(Fields(s, T, k)) = info.size
    BY <1>2, <1>7, <2>1 DEF EntriesOK, Counted
  <2>4. Of(s, k, types, info.size)
    BY <1>4, <2>1, <2>2, <2>3, OfFacts
  <2>5. CASE T # "deque"
    BY <1>1, <2>1, <2>2, <2>4, <2>5 DEF Matched
  <2>6. CASE T = "deque"
    <3>1. PICK a \in Int, b \in Int : a = info.start /\ b = info.end
      BY <1>2 DEF Descriptor
    <3>2. Fields(s, "deque", k) = Items(k, a, b)
      BY <1>2, <2>1, <2>6, <3>1 DEF EntriesOK, DequeOK
    <3>3. {loc[3] : loc \in Items(k, a, b)} = (a + 1)..(b - 1)
      <4>1. PICK S : S = (a + 1)..(b - 1)
        OBVIOUS
      <4>2. PICK I : I = Items(k, a, b) /\ I = {Fld("deque", k, j) : j \in S}
        BY <4>1 DEF Items
      <4>3. \A j \in S : Fld("deque", k, j) \in I /\ Fld("deque", k, j)[3] = j
        BY <4>2, LocatorParts
      <4>4. \A loc \in I : loc[3] \in S
        BY <4>2, LocatorParts
      <4>5. {loc[3] : loc \in I} = S
        BY <4>3, <4>4
      <4> QED BY <4>1, <4>2, <4>5
    <3> QED BY <1>1, <2>1, <2>2, <2>4, <2>6, <3>1, <3>2, <3>3 DEF Matched
  <2> QED BY <2>5, <2>6
<1>8. CASE info.type \in {"string", "lease"}
  <2>1. PICK T : T = info.type /\ Owned(T) = {T} /\ T \notin {"none", "lhash", "deque"}
    BY <1>8 DEF Owned
  <2>2. PICK types : types = {T}
    OBVIOUS
  <2>3. \E loc : Fields(s, T, k) = {loc} /\ info.size = 1
    BY <1>2, <1>8, <2>1 DEF EntriesOK
  <2>4. Cardinality(Fields(s, T, k)) = info.size
    BY <2>3, FS_Singleton
  <2>5. Of(s, k, types, info.size)
    BY <1>4, <2>1, <2>2, <2>4, OfFacts
  <2> QED BY <1>1, <2>1, <2>2, <2>5 DEF Matched
<1> QED
  BY <1>3, <1>5, <1>6, <1>7, <1>8 DEF KeyTypes, FieldTypes

LEMMA InvDescriptors ==
    ASSUME Inv
    PROVE  DescriptorsMatch
<1>1. \A k \in Key : Matched(area, k)
  BY EntriesMatched DEF Inv, Good
<1> QED
  BY <1>1 DEF DescriptorsMatch, Matched, Of

LEMMA InvLeases ==
    ASSUME Inv
    PROVE  LeasesMatch
<1>1. Good(area, load)
  BY DEF Inv
<1>2. area.cache = EventsIn(area.store) /\ area.cache = Deadlines(area)
  BY <1>1, CacheLoaded DEF Good, EventsOK
<1>3. \A k \in Key : IsLease(area, k) => Info(area, k).start <= Now(area) /\ Now(area) < Info(area, k).end
  BY <1>1 DEF Good, TermOK
<1> QED
  BY <1>2, <1>3 DEF LeasesMatch, EventsIn, Deadlines, IsLease

LEMMA InvTypes ==
    ASSUME Inv
    PROVE  NoFailure
<1>1. load \in Workload /\ Good(area, load) /\ Good(Base(db), load)
  BY DEF Inv
<1>2. load.clock \in Nat /\ load.commands \in Nat /\ MaxDuration \in Nat
  BY <1>1, LoadFacts
<1>3. Clock \in DOMAIN db /\ db[Clock] \in Nat /\ db[Clock] <= load.clock
  BY <1>1, BaseNow DEF Good, ClockOK, Has
<1>4. Clock \in DOMAIN area.store /\ Now(area) \in Nat /\ Now(area) <= load.clock
  BY <1>1 DEF Good, ClockOK, Has
<1>5. db[Clock] \in 0..load.clock /\ Now(area) \in 0..load.clock
  BY <1>2, <1>3, <1>4
<1>6. keeper \in 0..load.clock
  <2>1. keeper \in Nat /\ keeper <= db[Clock]
    BY BaseNow DEF Inv
  <2> QED BY <1>2, <1>3, <2>1
<1>7. \A k \in Key : Info(area, k).type \in load.types \cup {"none"} /\ Info(area, k).size \in Nat
  BY <1>1 DEF Good, KeyOK, InfoOK, Descriptor
<1>8. area.puts \subseteq Key /\ area.spoiled \subseteq Key /\ DOMAIN area.revs \subseteq Key
  BY <1>1 DEF Good, RegistersOK
<1>9. PICK top \in Nat : top = load.clock + MaxDuration
  BY <1>2
<1>10. ASSUME NEW e \in area.cache PROVE e \in (1..top) \X Key
  <2>1. PICK k \in Key : IsLease(area, k) /\ e = <<Info(area, k).end, k>>
    BY <1>1, DeadlineIn DEF Good, EventsOK
  <2>2. PICK end \in Int : end = Info(area, k).end
    BY <1>1 DEF Good, KeyOK, InfoOK, Descriptor
  <2>3. Now(area) < end /\ end <= top
    BY <1>1, <1>9, <2>1, <2>2 DEF Good, TermOK
  <2>4. end \in 1..top
    BY <1>4, <1>9, <2>3
  <2> QED BY <2>1, <2>2, <2>4
<1>11. area.cache \subseteq (1..(load.clock + MaxDuration)) \X Key
  BY <1>9, <1>10
<1>12. TypeOK
  BY <1>3, <1>4, <1>5, <1>6, <1>7, <1>8, <1>11 DEF TypeOK, Inv
<1>13. area.failure = "none"
  BY <1>1 DEF Good, Sound
<1> QED
  BY <1>12, <1>13 DEF NoFailure

\* The step of LeaseChangesHands.
LEMMA InvHands ==
    ASSUME Careful, Inv, [Next]_vars, NEW k \in Key, Has(area, Lease(k)), Has(area, Lease(k))', count' > 0
    PROVE  area.store[Lease(k)] = area'.store[Lease(k)] \/ Info(area, k).end <= Now(area)'
<1>1. CASE Command
  <2>1. Ran
    BY <1>1, CommandRan DEF Inv
  <2>2. Hands(area, area', k)
    BY <2>1 DEF Ran, Goes
  <2> QED BY <2>2 DEF Hands
<1>2. CASE Commit \/ Restart
  BY <1>2 DEF Commit, Restart
<1>3. CASE Synchronize
  BY <1>3 DEF Synchronize
<1>4. CASE UNCHANGED vars
  BY <1>4 DEF vars
<1> QED
  BY <1>1, <1>2, <1>3, <1>4 DEF Next

\* The fields of versioned hash k in a database.
Vals(store, k) == [loc \in {l \in DOMAIN store : l[1] = "vhash" /\ l[2] = k} |-> store[loc]]

LEMMA ValsSame ==
    ASSUME NEW d, NEW s, NEW k, SameVals(d, s, k)
    PROVE  Vals(d.store, k) = Vals(s.store, k)
<1>1. PICK D, S : /\ D = {l \in DOMAIN d.store : l[1] = "vhash" /\ l[2] = k}
                  /\ S = {l \in DOMAIN s.store : l[1] = "vhash" /\ l[2] = k}
  OBVIOUS
<1>2. D = S
  BY <1>1 DEF SameVals, Same
<1>3. \A loc \in D : d.store[loc] = s.store[loc]
  BY <1>1 DEF SameVals, Same
<1> QED
  BY <1>1, <1>2, <1>3 DEF Vals

\* VersionPerTransaction for one key.
Numbered(d, s, k, old) ==
    Info(s, k).type = "vhash" =>
        /\ old.type \in {"vhash", "none"} /\ Vals(d, k) # Vals(s.store, k) => Info(s, k).start = old.start + 1
        /\ k \in DOMAIN s.revs => s.revs[k] = Info(s, k).start

LEMMA InvVersions ==
    ASSUME Inv, NEW k \in Key
    PROVE  Numbered(db, area, k, Info([store |-> db], k))
<1>1. PICK d : d = Base(db) /\ d.store = db
  BY BaseNow
<1>2. Info([store |-> db], k) = Info(d, k)
  BY <1>1 DEF Info, Has
<1>3. VersionOK(d, area, k) /\ RevOK(area, k)
  BY <1>1 DEF Inv, Good
<1>4. ASSUME Info(area, k).type = "vhash", Vals(db, k) # Vals(area.store, k) PROVE k \in area.puts /\ k \notin area.spoiled
  <2>1. ~ SameVals(d, area, k)
    BY <1>1, <1>4, ValsSame
  <2>2. ~ SameKey(d, area, k)
    BY <2>1, SameKeyVals
  <2> QED BY <1>3, <1>4, <2>1, <2>2 DEF VersionOK
<1>5. ASSUME Info(area, k).type = "vhash", Vals(db, k) # Vals(area.store, k), Info(d, k).type \in {"vhash", "none"}
      PROVE  Info(area, k).start = Info(d, k).start + 1
  BY <1>3, <1>4, <1>5 DEF VersionOK
<1>6. Info(area, k).type = "vhash" /\ k \in DOMAIN area.revs => area.revs[k] = Info(area, k).start
  BY <1>3 DEF RevOK
<1> QED
  BY <1>2, <1>5, <1>6 DEF Numbered

\* No command of a careful client reaches an exception or an assertion of the state
\* machine, whatever transactions, restarts and leadership changes come in between.
THEOREM NoFailureCorrect ==
    ASSUME Careful
    PROVE  Spec => []NoFailure
<1>1. Inv => NoFailure
  BY InvTypes
<1> QED
  BY <1>1, InvHolds, PTL

\* The descriptors that hset, sadd, push, lhset, vhset, lease_acquire, del and the other
\* commands write always tell the entries of their keys.
THEOREM DescriptorsMatchCorrect ==
    ASSUME Careful
    PROVE  Spec => []DescriptorsMatch
<1>1. Inv => DescriptorsMatch
  BY InvDescriptors
<1> QED
  BY <1>1, InvHolds, PTL

\* Leases, their events and the expiration cache agree after every command and every
\* restart, and advanceClock leaves no lease behind that is over.
THEOREM LeasesMatchCorrect ==
    ASSUME Careful
    PROVE  Spec => []LeasesMatch
<1>1. Inv => LeasesMatch
  BY InvLeases
<1> QED
  BY <1>1, InvHolds, PTL

\* lease_acquire gives a lease to somebody else only after its deadline.
THEOREM LeaseChangesHandsCorrect ==
    ASSUME Careful
    PROVE  Spec => LeaseChangesHands
<1>1. Inv /\ [Next]_vars =>
        [\A k \in Key : Has(area, Lease(k)) /\ Has(area, Lease(k))' /\ count' > 0
            => \/ area.store[Lease(k)] = area'.store[Lease(k)]
               \/ Info(area, k).end <= Now(area)']_vars
  BY InvHands
<1> QED
  BY <1>1, InvHolds, PTL DEF Spec, LeaseChangesHands

\* A transaction that changes a versioned hash, with however many vhset and vhdel,
\* raises its version by one, and that is the revision its subscribers get.
THEOREM VersionPerTransactionCorrect ==
    ASSUME Careful
    PROVE  Spec => VersionPerTransaction
<1>1. Inv /\ [Next]_vars =>
        [count > 0 /\ db' = area.store =>
           \A k \in Key :
              LET old == Info([store |-> db], k)
                  new == Info(area, k)
                  Fields2(store) == [loc \in {l \in DOMAIN store : l[1] = "vhash" /\ l[2] = k} |-> store[loc]]
              IN  new.type = "vhash" =>
                    /\ old.type \in {"vhash", "none"} /\ Fields2(db) # Fields2(db') => new.start = old.start + 1
                    /\ k \in DOMAIN area.revs => area.revs[k] = new.start]_vars
  BY InvVersions DEF Numbered, Vals
<1> QED
  BY <1>1, InvHolds, PTL DEF Spec, VersionPerTransaction

=============================================================================
