---------------------------- MODULE PubSubProofs ----------------------------
(***************************************************************************)
(* Theorems about subscriptions: an iteration over maps that change under  *)
(* it returns whatever is there throughout, once; and a client that was    *)
(* told that it is unsubscribed gets no more messages.                     *)
(***************************************************************************)
EXTENDS PubSub, FiniteSetTheorems, SequenceTheorems, WellFoundedInduction, TLAPS

-----------------------------------------------------------------------------
(* Iterations: the invariant *)

OnValue == {"visit", "erase", "next"}
OnKey == OnValue \cup {"find", "nextkey"}

Iteration ==
    [pc: OnKey \cup {"idle", "keys", "done"}, map: Maps, channel: Nat, keys: SUBSET (Nat \ {0}),
     values: SUBSET Conn, present: SUBSET Subscriptions, visited: Seq(Subscriptions)]

\* A thread that is on a key, or on a value, has one; a message goes to one channel.
Shaped(t, it) ==
    /\ it \in Iteration
    /\ it.keys \subseteq Keys(it.map)
    /\ it.pc \in OnKey => it.keys # {}
    /\ it.pc \in OnValue => it.values # {}
    /\ t = "publish" /\ it.map = "channel" => it.pc # "keys"
    /\ t = "publish" /\ it.map = "channel" /\ it.pc \in OnKey => it.keys = {it.channel}

Wanted(t, it, r) ==
    \/ t = "purge"
    \/ r[1] = "channel" /\ r[2] = it.channel
    \/ r[1] = "pattern" /\ it.channel \in Matches[r[2]]

\* What was there throughout, is wanted and has not been returned.
Todo(t, it) == {r \in it.present : Wanted(t, it, r)} \ Range(it.visited)

KeyAt(it) == Min(it.keys)
ValueAt(it) == Min(it.values)
Here(it, r) == r[1] = it.map /\ r[2] = KeyAt(it)

\* The iteration has gone past the place of r in the maps.
Past(it, r) ==
    \/ it.pc = "done"
    \/ it.map = "pattern" /\ r[1] = "channel"
    \/ it.pc \in OnKey /\ r[1] = it.map /\ r[2] < KeyAt(it)
    \/ it.pc = "nextkey" /\ Here(it, r)
    \/ it.pc \in OnValue /\ Here(it, r) /\ r[3] < ValueAt(it)
    \/ it.pc \in {"erase", "next"} /\ Here(it, r) /\ r[3] = ValueAt(it)

\* A stage has no gaps: what is to be done and lies inside it is in it.
KeysCover(it, R) ==
    it.pc \in OnKey => \A r \in R :
        r[1] = it.map /\ KeyAt(it) < r[2] /\ (\E x \in it.keys : r[2] <= x) => r[2] \in it.keys

ValuesCover(it, R) ==
    it.pc \in OnValue => \A r \in R :
        Here(it, r) /\ ValueAt(it) < r[3] /\ (\E x \in it.values : r[3] <= x) => r[3] \in it.values

AllPast(it, R) == \A r \in R : Past(it, r)
NonePast(it, R) == \A r \in R : ~ Past(it, r)

\* What has been returned lies behind, what is to be done ahead.
IterOK(t, it) ==
    /\ Shaped(t, it)
    /\ IsInjective(it.visited)
    /\ AllPast(it, Range(it.visited)) /\ NonePast(it, Todo(t, it))
    /\ KeysCover(it, Todo(t, it)) /\ ValuesCover(it, Todo(t, it))

StoreInv ==
    /\ subs \subseteq Subscriptions /\ IsFiniteSet(subs)
    /\ stored \in [Maps -> Int] /\ \A m \in Maps : stored[m] = Cardinality({s \in subs : s[1] = m})

IterInv ==
    /\ iter \in [Thread -> Iteration]
    /\ \A t \in Thread : IterOK(t, iter[t]) /\ Todo(t, iter[t]) \subseteq subs

-----------------------------------------------------------------------------
(* Sets of numbers and stages *)

LEMMA LeastElement ==
    ASSUME NEW S, S \subseteq Nat, S # {}
    PROVE  Min(S) \in S /\ \A y \in S : Min(S) <= y
<1>1. PICK x \in S : \A y \in S : ~ (<<y, x>> \in OpToRel(<, Nat))
  BY WFMin, NatLessThanWellFounded
<1>2. \A y \in S : ~ (y < x)
  BY <1>1 DEF OpToRel
<1>3. \A y \in S : x <= y
  BY <1>2
<1>4. \E z \in S : \A y \in S : z <= y
  BY <1>3
<1> QED
  BY <1>4 DEF Min

LEMMA FirstFacts ==
    ASSUME NEW S, S \subseteq Nat, NEW n \in Nat \ {0}
    PROVE  /\ First(S, n) \subseteq S
           /\ S # {} => First(S, n) # {}
           /\ \A x \in First(S, n), y \in S : y <= x => y \in First(S, n)
<1>1. First(S, n) \subseteq S
  BY DEF First
<1>2. ASSUME S # {} PROVE First(S, n) # {}
  <2>1. PICK x \in S : \A y \in S : x <= y
    BY <1>2, LeastElement
  <2>0. x \in Nat /\ \A y \in S : y \in Nat /\ ~ (y < x)
    BY <2>1
  <2>2. {y \in S : y < x} = {}
    BY <2>0, Zenon
  <2>3. Cardinality({y \in S : y < x}) < n
    BY <2>2, FS_EmptySet
  <2> QED BY <2>3 DEF First
<1>3. ASSUME NEW x \in First(S, n), NEW y \in S, y <= x PROVE y \in First(S, n)
  <2>1. PICK A, B : A = {z \in S : z < y} /\ B = {z \in S : z < x}
    OBVIOUS
  <2>2. x \in S /\ x \in Nat /\ y \in Nat
    BY <1>1, <1>3
  <2>3. \A z \in B : z \in S /\ z < x
    BY <2>1, Zenon
  <2>4. IsFiniteSet(B)
    <3>0. \A z \in B : z \in Nat /\ z < x
      BY <2>3
    <3>1. \A z \in B : z \in 0..x
      BY <2>2, <3>0
    <3>2. PICK I : I = 0..x
      OBVIOUS
    <3>3. IsFiniteSet(I)
      BY <2>2, <3>2, FS_Interval
    <3>4. B \in SUBSET I
      BY <3>1, <3>2, Zenon
    <3> QED BY <3>3, <3>4, FS_Subset
  <2>5. A \in SUBSET B
    <3>1. \A z \in S : z < y => z < x
      BY <1>3, <2>2
    <3> QED BY <2>1, <3>1, Zenon
  <2>6. Cardinality(A) <= Cardinality(B) /\ IsFiniteSet(A)
    BY <2>4, <2>5, FS_Subset
  <2>7. Cardinality(A) \in Nat /\ Cardinality(B) \in Nat
    BY <2>4, <2>6, FS_CardinalityType
  <2>8. Cardinality(B) < n
    BY <1>3, <2>1 DEF First
  <2>9. Cardinality(A) < n
    BY <2>6, <2>7, <2>8
  <2> QED BY <2>1, <2>9 DEF First
<1> QED
  BY <1>1, <1>2, <1>3

LEMMA SubscriptionFacts ==
    ASSUME NEW r \in Subscriptions
    PROVE  /\ r[1] \in Maps /\ r[2] \in Keys(r[1]) /\ r[2] \in Nat \ {0} /\ r[3] \in Conn /\ r[3] \in Nat \ {0}
           /\ r = <<r[1], r[2], r[3]>>
<1>1. PICK m \in Maps : r \in {m} \X Keys(m) \X Conn
  BY DEF Subscriptions
<1>2. r = <<r[1], r[2], r[3]>> /\ r[1] = m /\ r[2] \in Keys(m) /\ r[3] \in Conn
  BY <1>1
<1>3. r[2] \in Nat \ {0} /\ r[3] \in Nat \ {0}
  BY <1>2, PubSubAssumption DEF Keys
<1> QED
  BY <1>2, <1>3

LEMMA IsSubscription ==
    ASSUME NEW m \in Maps, NEW k \in Keys(m), NEW c \in Conn
    PROVE  <<m, k, c>> \in Subscriptions
BY DEF Subscriptions

\* The keys of a map after last, as the stage shows them.
LEMMA KeyStageFacts ==
    ASSUME subs \subseteq Subscriptions, NEW m \in Maps, NEW last \in Nat
    PROVE  /\ populateKeys(m, last) \subseteq Keys(m) /\ populateKeys(m, last) \subseteq Nat \ {0}
           /\ \A x \in populateKeys(m, last) : last < x
           /\ \A r \in subs : r[1] = m /\ last < r[2] =>
                 /\ populateKeys(m, last) # {}
                 /\ \A x \in populateKeys(m, last) : r[2] <= x => r[2] \in populateKeys(m, last)
<1> DEFINE S == upper_bound(KeysOf(m), last)
<1>1. \A x \in S : x \in Keys(m) /\ x \in Nat \ {0} /\ last < x
  BY SubscriptionFacts DEF upper_bound, KeysOf
<1>2. \A r \in subs : r[1] = m /\ last < r[2] => r[2] \in S
  BY DEF upper_bound, KeysOf
<1>3. populateKeys(m, last) = First(S, KeyStage)
  BY DEF populateKeys
<1> HIDE DEF S
<1>4. S \subseteq Nat
  BY <1>1
<1>5. KeyStage \in Nat \ {0}
  BY PubSubAssumption
<1>6. /\ First(S, KeyStage) \subseteq S
      /\ S # {} => First(S, KeyStage) # {}
      /\ \A x \in First(S, KeyStage), y \in S : y <= x => y \in First(S, KeyStage)
  BY <1>4, <1>5, FirstFacts
<1> QED
  BY <1>1, <1>2, <1>3, <1>6

LEMMA ValueStageFacts ==
    ASSUME subs \subseteq Subscriptions, NEW m \in Maps, NEW k, NEW last \in Nat
    PROVE  /\ populateValues(m, k, last) \subseteq Conn
           /\ \A x \in populateValues(m, k, last) : last < x
           /\ \A r \in subs : r[1] = m /\ r[2] = k /\ last < r[3] =>
                 /\ populateValues(m, k, last) # {}
                 /\ \A x \in populateValues(m, k, last) : r[3] <= x => r[3] \in populateValues(m, k, last)
<1> DEFINE S == upper_bound(ValuesOf(m, k), last)
<1>1. \A x \in S : x \in Conn /\ x \in Nat \ {0} /\ last < x
  BY SubscriptionFacts DEF upper_bound, ValuesOf
<1>2. \A r \in subs : r[1] = m /\ r[2] = k /\ last < r[3] => r[3] \in S
  BY DEF upper_bound, ValuesOf
<1>3. populateValues(m, k, last) = First(S, ValueStage)
  BY DEF populateValues
<1> HIDE DEF S
<1>4. S \subseteq Nat
  BY <1>1
<1>5. ValueStage \in Nat \ {0}
  BY PubSubAssumption
<1>6. /\ First(S, ValueStage) \subseteq S
      /\ S # {} => First(S, ValueStage) # {}
      /\ \A x \in First(S, ValueStage), y \in S : y <= x => y \in First(S, ValueStage)
  BY <1>4, <1>5, FirstFacts
<1> QED
  BY <1>1, <1>2, <1>3, <1>6

-----------------------------------------------------------------------------
(* Moving on *)

\* it2 is it at another place.
Follows(it, it2) ==
    it2.visited = it.visited /\ it2.present = it.present /\ it2.channel = it.channel

\* It leaves nothing behind that is to be done, and does not go back.
GoesOn(it, it2, R) ==
    /\ \A r \in Subscriptions : Past(it, r) => Past(it2, r)
    /\ \A r \in R : ~ Past(it, r) => ~ Past(it2, r)

LEMMA VisitedFacts ==
    ASSUME NEW t, NEW it, Shaped(t, it)
    PROVE  Range(it.visited) \subseteq Subscriptions /\ Todo(t, it) \subseteq Subscriptions
<1>1. it.visited \in Seq(Subscriptions) /\ it.present \subseteq Subscriptions
  BY DEF Shaped, Iteration
<1>2. Range(it.visited) \subseteq Subscriptions
  BY <1>1 DEF Range
<1> QED
  BY <1>1, <1>2 DEF Todo

LEMMA SameTodo ==
    ASSUME NEW t, NEW it, NEW it2, Follows(it, it2)
    PROVE  Todo(t, it2) = Todo(t, it)
BY DEF Follows, Todo, Wanted

LEMMA Moves ==
    ASSUME NEW t, NEW it, NEW it2, IterOK(t, it), Shaped(t, it2), Follows(it, it2),
           GoesOn(it, it2, Todo(t, it)), KeysCover(it2, Todo(t, it)), ValuesCover(it2, Todo(t, it))
    PROVE  IterOK(t, it2) /\ Todo(t, it2) = Todo(t, it)
<1>1. Todo(t, it2) = Todo(t, it)
  BY SameTodo
<1>2. IsInjective(it2.visited) /\ Range(it2.visited) = Range(it.visited)
  BY DEF IterOK, Follows
<1>3. AllPast(it2, Range(it.visited))
  BY VisitedFacts DEF IterOK, AllPast, GoesOn
<1>4. NonePast(it2, Todo(t, it))
  BY DEF IterOK, NonePast, GoesOn
<1> QED
  BY <1>1, <1>2, <1>3, <1>4 DEF IterOK

LEMMA KeyAtFacts ==
    ASSUME NEW t, NEW it, Shaped(t, it), it.pc \in OnKey
    PROVE  KeyAt(it) \in it.keys /\ KeyAt(it) \in Keys(it.map) /\ KeyAt(it) \in Nat /\ \A k \in it.keys : k \in Nat /\ KeyAt(it) <= k
<1>1. it.keys \subseteq Nat /\ it.keys # {} /\ it.keys \subseteq Keys(it.map)
  BY DEF Shaped, Iteration
<1> QED
  BY <1>1, LeastElement DEF KeyAt

LEMMA ValueAtFacts ==
    ASSUME NEW t, NEW it, Shaped(t, it), it.pc \in OnValue
    PROVE  ValueAt(it) \in it.values /\ ValueAt(it) \in Conn /\ ValueAt(it) \in Nat /\ \A c \in it.values : c \in Nat /\ ValueAt(it) <= c
<1>1. it.values \subseteq Conn /\ it.values # {}
  BY DEF Shaped, Iteration
<1>2. it.values \subseteq Nat
  BY <1>1, PubSubAssumption
<1> QED
  BY <1>1, <1>2, LeastElement DEF ValueAt

-----------------------------------------------------------------------------
(* The end of a map *)

\* Nothing is to be done in this map any more.
Through(it, R) == \A r \in R : r[1] # it.map

LEMMA MapThrough ==
    ASSUME NEW t \in Thread, NEW it, IterOK(t, it), it.pc \in {"keys", "nextkey"}, Through(it, Todo(t, it))
    PROVE  IterOK(t, NextMap(it)) /\ Todo(t, NextMap(it)) = Todo(t, it)
<1>0. PICK it2 : it2 = NextMap(it)
  OBVIOUS
<1>1. it \in Iteration /\ Shaped(t, it) /\ NonePast(it, Todo(t, it))
  BY DEF IterOK, Shaped
<1>2. /\ it2 \in Iteration /\ Follows(it, it2) /\ it2.keys = {} /\ it2.values = {}
      /\ it.map = "channel" => it2.map = "pattern" /\ it2.pc = "keys"
      /\ it.map = "pattern" => it2.map = "pattern" /\ it2.pc = "done"
      /\ it.map \in Maps
  BY <1>0, <1>1 DEF NextMap, Iteration, Follows, Maps, OnKey
<1>3. it2.pc \in {"keys", "done"} /\ it2.map = "pattern"
  BY <1>2 DEF Maps
<1>4. Shaped(t, it2)
  BY <1>2, <1>3 DEF Shaped, OnKey, OnValue
<1>5. GoesOn(it, it2, Todo(t, it))
  <2>1. ASSUME NEW r \in Subscriptions, Past(it, r) PROVE Past(it2, r)
    <3>1. CASE it.map = "channel"
      <4>1. r[1] = "channel"
        BY <1>2, <2>1, <3>1 DEF Past, Here
      <4> QED BY <1>3, <4>1 DEF Past
    <3>2. CASE it.map = "pattern"
      BY <1>2, <3>2 DEF Past
    <3> QED BY <1>2, <3>1, <3>2 DEF Maps
  <2>2. ASSUME NEW r \in Todo(t, it), ~ Past(it, r) PROVE ~ Past(it2, r)
    <3>1. r[1] \in Maps /\ r[1] # it.map
      BY <1>1, VisitedFacts, SubscriptionFacts DEF Through
    <3>2. it.map = "channel"
      BY <1>2, <2>2, <3>1 DEF Past, Maps
    <3>3. r[1] # "channel" /\ it2.pc = "keys"
      BY <1>2, <3>1, <3>2
    <3> QED BY <3>3 DEF Past, OnKey, OnValue
  <2> QED BY <2>1, <2>2 DEF GoesOn
<1>6. KeysCover(it2, Todo(t, it)) /\ ValuesCover(it2, Todo(t, it))
  BY <1>3 DEF KeysCover, ValuesCover, OnKey, OnValue
<1> QED
  BY <1>0, <1>2, <1>4, <1>5, <1>6, Moves

-----------------------------------------------------------------------------
(* Keys *)

\* ks is the stage of keys that follows: it begins behind what is past, and skips
\* nothing that is to be done.
KeysFollow(it, ks, R) ==
    /\ ks # {} /\ ks \subseteq Keys(it.map) /\ ks \subseteq Nat \ {0}
    /\ it.pc = "nextkey" => \A k \in ks : KeyAt(it) < k
    /\ \A r \in R : r[1] = it.map /\ ~ Past(it, r) =>
          /\ Min(ks) <= r[2]
          /\ \A x \in ks : r[2] <= x => r[2] \in ks

\* The first keys of a map, or the next ones.
WithKeys(it, ks) == [it EXCEPT !.keys = ks, !.pc = "find"]

LEMMA OnNextKey ==
    ASSUME NEW t \in Thread, NEW it, IterOK(t, it), it.pc \in {"keys", "nextkey"}, NEW ks,
           t = "publish" => it.map # "channel",
           KeysFollow(it, ks, Todo(t, it)), NEW it2, it2 = WithKeys(it, ks)
    PROVE  IterOK(t, it2) /\ Todo(t, it2) = Todo(t, it)
<1>1. it \in Iteration /\ Shaped(t, it) /\ NonePast(it, Todo(t, it))
  BY DEF IterOK, Shaped
<1>2. ks \subseteq Nat \ {0} /\ ks # {} /\ ks \subseteq Keys(it.map)
  BY DEF KeysFollow
<1>3. /\ it2 \in Iteration /\ Follows(it, it2) /\ it2.keys = ks /\ it2.map = it.map /\ it2.pc = "find"
  BY <1>1, <1>2 DEF WithKeys, Iteration, Follows, OnKey
<1>4. Shaped(t, it2)
  BY <1>2, <1>3 DEF Shaped, OnKey, OnValue
<1>5. KeyAt(it2) = Min(ks) /\ KeyAt(it2) \in ks /\ KeyAt(it2) \in Nat
  BY <1>2, <1>3, LeastElement DEF KeyAt
<1>6. GoesOn(it, it2, Todo(t, it))
  <2>1. ASSUME NEW r \in Subscriptions, Past(it, r) PROVE Past(it2, r)
    <3>1. CASE it.map = "pattern" /\ r[1] = "channel"
      BY <1>3, <3>1 DEF Past
    <3>2. CASE it.pc = "nextkey" /\ r[1] = it.map /\ r[2] <= KeyAt(it)
      <4>1. KeyAt(it) \in Nat /\ r[2] \in Nat
        BY <1>1, <3>2, KeyAtFacts, SubscriptionFacts DEF OnKey
      <4>2. KeyAt(it) < KeyAt(it2)
        BY <1>5, <3>2 DEF KeysFollow
      <4>3. r[2] < KeyAt(it2)
        BY <1>5, <3>2, <4>1, <4>2
      <4> QED BY <1>3, <3>2, <4>3 DEF Past, OnKey
    <3>3. \/ it.map = "pattern" /\ r[1] = "channel"
          \/ it.pc = "nextkey" /\ r[1] = it.map /\ r[2] <= KeyAt(it)
      <4>1. it.pc = "nextkey" => KeyAt(it) \in Nat /\ r[2] \in Nat
        BY <1>1, KeyAtFacts, SubscriptionFacts DEF OnKey
      <4> QED BY <2>1, <4>1 DEF Past, Here, OnKey, OnValue
    <3> QED BY <3>1, <3>2, <3>3
  <2>2. ASSUME NEW r \in Todo(t, it), ~ Past(it, r) PROVE ~ Past(it2, r)
    <3>1. r[2] \in Nat /\ (r[1] = it.map => KeyAt(it2) <= r[2])
      BY <1>1, <1>5, <2>2, VisitedFacts, SubscriptionFacts DEF KeysFollow
    <3>2. ~ (it.map = "pattern" /\ r[1] = "channel")
      BY <2>2 DEF Past
    <3> QED BY <1>3, <1>5, <3>1, <3>2 DEF Past, OnKey, OnValue
  <2> QED BY <2>1, <2>2 DEF GoesOn
<1>7. KeysCover(it2, Todo(t, it)) /\ ValuesCover(it2, Todo(t, it))
  <2>1. KeysCover(it2, Todo(t, it))
    BY <1>1, <1>3 DEF KeysCover, KeysFollow, NonePast
  <2>2. ValuesCover(it2, Todo(t, it))
    BY <1>3 DEF ValuesCover, OnValue
  <2> QED BY <2>1, <2>2
<1> QED
  BY <1>3, <1>4, <1>6, <1>7, Moves

LEMMA FirstKeysStep ==
    ASSUME NEW t \in Thread, NEW it, IterOK(t, it), it.pc = "keys",
           subs \subseteq Subscriptions, Todo(t, it) \subseteq subs, NEW ks, ks = populateKeys(it.map, 0),
           NEW it2, it2 = IF ks = {} THEN NextMap(it) ELSE [it EXCEPT !.keys = ks, !.pc = "find"]
    PROVE  IterOK(t, it2) /\ Todo(t, it2) = Todo(t, it)
<1>1. it \in Iteration /\ it.map \in Maps /\ (t = "publish" => it.map # "channel")
  BY DEF IterOK, Shaped, Iteration
<1>2. /\ ks \subseteq Keys(it.map) /\ ks \subseteq Nat \ {0}
      /\ \A r \in subs : r[1] = it.map /\ 0 < r[2] => ks # {} /\ \A x \in ks : r[2] <= x => r[2] \in ks
  BY <1>1, KeyStageFacts
<1>3. \A r \in Todo(t, it) : r[2] \in Nat /\ 0 < r[2] /\ r \in subs
  BY SubscriptionFacts
<1>4. CASE ks = {}
  <2>1. Through(it, Todo(t, it))
    BY <1>2, <1>3, <1>4 DEF Through
  <2> QED BY <1>4, <2>1, MapThrough
<1>5. CASE ks # {}
  <2>1. Min(ks) \in ks /\ \A y \in ks : Min(ks) <= y
    BY <1>2, <1>5, LeastElement
  <2>2. ASSUME NEW r \in Todo(t, it), r[1] = it.map
        PROVE  Min(ks) <= r[2] /\ \A x \in ks : r[2] <= x => r[2] \in ks
    <3>1. \A x \in ks : r[2] <= x => r[2] \in ks
      BY <1>2, <1>3, <2>2
    <3>2. Min(ks) \in Nat /\ r[2] \in Nat
      BY <1>2, <1>3, <2>1
    <3>3. r[2] <= Min(ks) => Min(ks) <= r[2]
      BY <2>1, <3>1
    <3> QED BY <3>1, <3>2, <3>3
  <2>3. KeysFollow(it, ks, Todo(t, it))
    BY <1>2, <1>5, <2>2 DEF KeysFollow
  <2>4. it2 = WithKeys(it, ks)
    BY <1>5 DEF WithKeys
  <2> QED BY <1>1, <2>3, <2>4, OnNextKey
<1> QED
  BY <1>4, <1>5

\* What NextKey does.
ToKeys(t, it, ks) ==
    IF ks = {} \/ (t = "publish" /\ it.map = "channel") THEN NextMap(it)
    ELSE [it EXCEPT !.keys = ks, !.pc = "find"]

LEMMA NextKeyStep ==
    ASSUME NEW t \in Thread, NEW it, IterOK(t, it), it.pc = "nextkey",
           subs \subseteq Subscriptions, Todo(t, it) \subseteq subs, NEW ks, ks = nextKeys(it),
           NEW it2, it2 = ToKeys(t, it, ks)
    PROVE  IterOK(t, it2) /\ Todo(t, it2) = Todo(t, it)
<1>0. it2 = IF ks = {} \/ (t = "publish" /\ it.map = "channel") THEN NextMap(it)
            ELSE [it EXCEPT !.keys = ks, !.pc = "find"]
  BY DEF ToKeys
<1>1. it \in Iteration /\ it.map \in Maps /\ Shaped(t, it) /\ NonePast(it, Todo(t, it))
  BY DEF IterOK, Shaped, Iteration
<1>2. PICK k \in Nat : k = KeyAt(it) /\ k \in it.keys /\ \A x \in it.keys : x \in Nat /\ k <= x
  BY <1>1, KeyAtFacts DEF OnKey
\* What is to be done in this map has a later key.
<1>3. ASSUME NEW r \in Todo(t, it), r[1] = it.map PROVE r \in subs /\ r[2] \in Nat /\ k < r[2]
  <2>1. r \in subs /\ r[2] \in Nat /\ ~ Past(it, r)
    BY <1>1, <1>3, SubscriptionFacts DEF NonePast
  <2>2. ~ (r[2] < k) /\ r[2] # k
    BY <1>2, <1>3, <2>1 DEF Past, Here, OnKey
  <2> QED BY <2>1, <2>2
<1>4. /\ ks \subseteq Keys(it.map) /\ ks \subseteq Nat \ {0} /\ \A x \in ks : k < x
      /\ \A r \in Todo(t, it) : r[1] = it.map => ks # {} /\ \A x \in ks : r[2] <= x => r[2] \in ks
  <2>1. CASE it.keys = {k}
    <3>1. ks = populateKeys(it.map, k)
      BY <1>2, <2>1 DEF nextKeys, KeyAt
    <3> QED BY <1>1, <1>2, <1>3, <3>1, KeyStageFacts
  <2>2. CASE it.keys # {k}
    <3>1. ks = it.keys \ {k}
      BY <1>2, <2>2 DEF nextKeys, KeyAt
    <3>2. ks # {}
      BY <1>2, <2>2, <3>1
    <3>3. ks \subseteq Keys(it.map) /\ ks \subseteq Nat \ {0} /\ \A x \in ks : k < x
      BY <1>1, <1>2, <3>1 DEF Shaped, Iteration
    <3>4. ASSUME NEW r \in Todo(t, it), r[1] = it.map, NEW x \in ks, r[2] <= x PROVE r[2] \in ks
      <4>1. k < r[2] /\ r[2] \in Nat /\ x \in it.keys
        BY <1>3, <3>1, <3>4
      <4>2. r[2] \in it.keys
        BY <1>2, <3>4, <4>1 DEF IterOK, KeysCover, OnKey
      <4>3. r[2] # k
        BY <4>1
      <4> QED BY <3>1, <4>2, <4>3
    <3> QED BY <3>2, <3>3, <3>4
  <2> QED BY <2>1, <2>2
<1>5. CASE ks = {} \/ (t = "publish" /\ it.map = "channel")
  <2>1. CASE ks = {}
    <3>1. Through(it, Todo(t, it))
      BY <1>4, <2>1 DEF Through
    <3> QED BY <1>0, <2>1, <3>1, MapThrough
  <2>2. CASE t = "publish" /\ it.map = "channel"
    <3>1. k = it.channel
      BY <1>1, <1>2, <2>2 DEF Shaped, OnKey
    <3>2. \A r \in Todo(t, it) : r[1] = "channel" => r[2] = it.channel
      BY <2>2 DEF Todo, Wanted
    <3>3. Through(it, Todo(t, it))
      BY <1>3, <2>2, <3>1, <3>2 DEF Through
    <3> QED BY <1>0, <2>2, <3>3, MapThrough
  <2> QED BY <1>5, <2>1, <2>2
<1>6. CASE ks # {} /\ ~ (t = "publish" /\ it.map = "channel")
  <2>1. Min(ks) \in ks /\ \A y \in ks : Min(ks) <= y
    BY <1>4, <1>6, LeastElement
  <2>2. ASSUME NEW r \in Todo(t, it), r[1] = it.map
        PROVE  Min(ks) <= r[2] /\ \A x \in ks : r[2] <= x => r[2] \in ks
    <3>1. \A x \in ks : r[2] <= x => r[2] \in ks
      BY <1>4, <2>2
    <3>2. Min(ks) \in Nat /\ r[2] \in Nat
      BY <1>3, <1>4, <2>1, <2>2
    <3>3. r[2] <= Min(ks) => Min(ks) <= r[2]
      BY <2>1, <3>1
    <3> QED BY <3>1, <3>2, <3>3
  <2>3. KeysFollow(it, ks, Todo(t, it))
    BY <1>2, <1>4, <1>6, <2>2 DEF KeysFollow
  <2>4. it2 = WithKeys(it, ks) /\ (t = "publish" => it.map # "channel")
    BY <1>0, <1>6 DEF WithKeys
  <2>5. it.pc \in {"keys", "nextkey"}
    OBVIOUS
  <2> QED BY <2>3, <2>4, <2>5, OnNextKey
<1> QED
  BY <1>5, <1>6

-----------------------------------------------------------------------------
(* Values *)

\* it2 is on the same key as it.
SameKey(it, it2) == it2.map = it.map /\ it2.keys = it.keys

LEMMA KeyDone ==
    ASSUME NEW t \in Thread, NEW it, IterOK(t, it), it.pc \in {"find", "next"},
           \A r \in Todo(t, it) : ~ Here(it, r),
           NEW it2 \in Iteration, Follows(it, it2), SameKey(it, it2), it2.pc = "nextkey"
    PROVE  IterOK(t, it2) /\ Todo(t, it2) = Todo(t, it)
<1>1. Shaped(t, it) /\ NonePast(it, Todo(t, it)) /\ it.pc \in OnKey
  BY DEF IterOK, OnKey, OnValue
<1>2. KeyAt(it2) = KeyAt(it) /\ it2.map = it.map /\ it2.channel = it.channel
  BY DEF SameKey, KeyAt, Follows
<1>3. Shaped(t, it2)
  BY <1>1, <1>2 DEF Shaped, SameKey, OnKey, OnValue
<1>4. GoesOn(it, it2, Todo(t, it))
  <2>1. ASSUME NEW r \in Subscriptions, Past(it, r) PROVE Past(it2, r)
    BY <1>2, <2>1 DEF Past, Here, OnKey
  <2>2. ASSUME NEW r \in Todo(t, it), ~ Past(it, r) PROVE ~ Past(it2, r)
    <3>1. ~ Here(it2, r)
      BY <1>2 DEF Here
    <3>2. ~ (it.map = "pattern" /\ r[1] = "channel") /\ ~ (r[1] = it.map /\ r[2] < KeyAt(it))
      BY <1>1, <2>2 DEF Past
    <3> QED BY <1>2, <3>1, <3>2 DEF Past, OnKey, OnValue
  <2> QED BY <2>1, <2>2 DEF GoesOn
<1>5. KeysCover(it2, Todo(t, it))
  BY <1>1, <1>2 DEF IterOK, KeysCover, SameKey
<1>6. ValuesCover(it2, Todo(t, it))
  BY DEF ValuesCover, OnValue
<1> QED
  BY <1>3, <1>4, <1>5, <1>6, Moves

\* vs is the stage of values that follows.
ValuesFollow(it, vs, R) ==
    /\ vs # {} /\ vs \subseteq Conn
    /\ it.pc = "next" => \A v \in vs : ValueAt(it) < v
    /\ \A r \in R : Here(it, r) =>
          /\ Min(vs) <= r[3]
          /\ \A x \in vs : r[3] <= x => r[3] \in vs

LEMMA OnNextValue ==
    ASSUME NEW t \in Thread, NEW it, IterOK(t, it), it.pc \in {"find", "next"}, NEW vs,
           ValuesFollow(it, vs, Todo(t, it)),
           NEW it2 \in Iteration, Follows(it, it2), SameKey(it, it2), it2.values = vs, it2.pc = "visit"
    PROVE  IterOK(t, it2) /\ Todo(t, it2) = Todo(t, it)
<1>1. it \in Iteration /\ Shaped(t, it) /\ NonePast(it, Todo(t, it)) /\ it.pc \in OnKey
  BY DEF IterOK, Shaped, OnKey, OnValue
<1>2. vs \subseteq Conn /\ vs # {} /\ vs \subseteq Nat
  BY PubSubAssumption DEF ValuesFollow
<1>3. Follows(it, it2) /\ SameKey(it, it2) /\ it2.values = vs /\ it2.pc = "visit"
  OBVIOUS
<1>4. KeyAt(it2) = KeyAt(it) /\ it2.map = it.map /\ it2.channel = it.channel
  BY <1>3 DEF SameKey, KeyAt, Follows
<1>5. Shaped(t, it2)
  BY <1>1, <1>2, <1>3, <1>4 DEF Shaped, SameKey, OnKey, OnValue
<1>6. ValueAt(it2) = Min(vs) /\ ValueAt(it2) \in vs /\ ValueAt(it2) \in Nat
  BY <1>2, <1>3, LeastElement DEF ValueAt
<1>7. GoesOn(it, it2, Todo(t, it))
  <2>1. ASSUME NEW r \in Subscriptions, Past(it, r) PROVE Past(it2, r)
    <3>1. CASE it.pc = "next" /\ Here(it, r) /\ r[3] <= ValueAt(it)
      <4>1. ValueAt(it) \in Nat /\ r[3] \in Nat
        BY <1>1, <3>1, ValueAtFacts, SubscriptionFacts DEF OnValue
      <4>2. ValueAt(it) < ValueAt(it2)
        BY <1>6, <3>1 DEF ValuesFollow
      <4>3. r[3] < ValueAt(it2)
        BY <1>6, <3>1, <4>1, <4>2
      <4> QED BY <1>3, <1>4, <3>1, <4>3 DEF Past, Here, OnValue
    <3>2. CASE ~ (it.pc = "next" /\ Here(it, r) /\ r[3] <= ValueAt(it))
      <4>1. it.pc = "next" => ValueAt(it) \in Nat /\ r[3] \in Nat
        BY <1>1, ValueAtFacts, SubscriptionFacts DEF OnValue
      <4>2. \/ it.map = "pattern" /\ r[1] = "channel"
            \/ r[1] = it.map /\ r[2] < KeyAt(it)
        BY <2>1, <3>2, <4>1 DEF Past, OnValue
      <4> QED BY <1>3, <1>4, <4>2 DEF Past, OnKey, OnValue
    <3> QED BY <3>1, <3>2
  <2>2. ASSUME NEW r \in Todo(t, it), ~ Past(it, r) PROVE ~ Past(it2, r)
    <3>1. r[3] \in Nat
      BY <1>1, VisitedFacts, SubscriptionFacts
    <3>2. ~ (it.map = "pattern" /\ r[1] = "channel") /\ ~ (r[1] = it.map /\ r[2] < KeyAt(it))
      BY <1>1, <2>2 DEF Past
    <3>3. Here(it2, r) => ~ (r[3] < ValueAt(it2))
      BY <1>4, <1>6, <3>1 DEF Here, ValuesFollow
    <3> QED BY <1>3, <1>4, <3>2, <3>3 DEF Past, OnKey
  <2> QED BY <2>1, <2>2 DEF GoesOn
<1>8. KeysCover(it2, Todo(t, it))
  BY <1>1, <1>3, <1>4 DEF IterOK, KeysCover, SameKey
<1>9. ValuesCover(it2, Todo(t, it))
  BY <1>3, <1>4 DEF ValuesCover, ValuesFollow, Here
<1> QED
  BY <1>3, <1>5, <1>7, <1>8, <1>9, Moves

\* Both ways to go on with a stage of values: the first of a key, and the next.
ValuesNext(it, vs, R) ==
    /\ vs \subseteq Conn
    /\ it.pc = "next" => \A v \in vs : ValueAt(it) < v
    /\ \A r \in R : Here(it, r) => vs # {} /\ \A x \in vs : r[3] <= x => r[3] \in vs

TakesValues(it, it2, vs) ==
    /\ it2 \in Iteration /\ Follows(it, it2) /\ SameKey(it, it2)
    /\ it2.values = vs /\ it2.pc = IF vs = {} THEN "nextkey" ELSE "visit"

LEMMA StageOfValues ==
    ASSUME NEW t \in Thread, NEW it, IterOK(t, it), it.pc \in {"find", "next"}, NEW vs,
           ValuesNext(it, vs, Todo(t, it)),
           NEW it2, TakesValues(it, it2, vs)
    PROVE  IterOK(t, it2) /\ Todo(t, it2) = Todo(t, it)
<1>1. it \in Iteration /\ Shaped(t, it) /\ it2 \in Iteration /\ Follows(it, it2) /\ SameKey(it, it2)
  BY DEF IterOK, Shaped, TakesValues
<1>2. CASE vs = {}
  <2>1. it2.pc = "nextkey"
    BY <1>2 DEF TakesValues
  <2>2. \A r \in Todo(t, it) : ~ Here(it, r)
    BY <1>2 DEF ValuesNext
  <2> QED BY <1>1, <2>1, <2>2, KeyDone
<1>3. CASE vs # {}
  <2>1. vs \subseteq Nat
    BY PubSubAssumption DEF ValuesNext
  <2>2. Min(vs) \in vs /\ \A y \in vs : Min(vs) <= y
    BY <1>3, <2>1, LeastElement
  <2>3. ASSUME NEW r \in Todo(t, it), Here(it, r)
        PROVE  Min(vs) <= r[3] /\ \A x \in vs : r[3] <= x => r[3] \in vs
    <3>1. \A x \in vs : r[3] <= x => r[3] \in vs
      BY <2>3 DEF ValuesNext
    <3>2. Min(vs) \in Nat /\ r[3] \in Nat
      BY <1>1, <2>1, <2>2, VisitedFacts, SubscriptionFacts
    <3>3. r[3] <= Min(vs) => Min(vs) <= r[3]
      BY <2>2, <3>1
    <3> QED BY <3>1, <3>2, <3>3
  <2>4. ValuesFollow(it, vs, Todo(t, it))
    BY <1>3, <2>3 DEF ValuesFollow, ValuesNext
  <2>5. it2.pc = "visit" /\ it2.values = vs
    BY <1>3 DEF TakesValues
  <2> QED BY <1>1, <2>4, <2>5, OnNextValue
<1> QED
  BY <1>2, <1>3

\* What Find does: the key of the iteration is looked up, and vs are its first values.
Lookup(t, it) == t = "purge" \/ it.map = "channel" \/ it.channel \in Matches[Min(it.keys)]
Found(t, it, vs) ==
    IF ~ Lookup(t, it) THEN [it EXCEPT !.pc = "nextkey"]
    ELSE IF vs = {} THEN NoMatch(t, it)
    ELSE [it EXCEPT !.values = vs, !.pc = "visit"]

LEMMA FindStep ==
    ASSUME NEW t \in Thread, NEW it, IterOK(t, it), it.pc = "find",
           subs \subseteq Subscriptions, Todo(t, it) \subseteq subs,
           NEW vs, vs = populateValues(it.map, Min(it.keys), 0), NEW it2, it2 = Found(t, it, vs)
    PROVE  IterOK(t, it2) /\ Todo(t, it2) = Todo(t, it)
<1> DEFINE wanted == Lookup(t, it)
<1> HIDE DEF wanted
<1>0. it2 = IF ~ wanted THEN [it EXCEPT !.pc = "nextkey"]
            ELSE IF vs = {} THEN NoMatch(t, it)
            ELSE [it EXCEPT !.values = vs, !.pc = "visit"]
  BY DEF Found, wanted
<1>1. it \in Iteration /\ it.map \in Maps /\ Shaped(t, it)
  BY DEF IterOK, Shaped, Iteration
<1>2. /\ vs \subseteq Conn
      /\ \A r \in subs : Here(it, r) /\ 0 < r[3] => vs # {} /\ \A x \in vs : r[3] <= x => r[3] \in vs
  BY <1>1, ValueStageFacts DEF Here, KeyAt
<1>3. \A r \in Todo(t, it) : r \in subs /\ 0 < r[3]
  BY SubscriptionFacts
<1>4. CASE ~ wanted
  <2>1. t = "publish" /\ it.map # "channel" /\ it.channel \notin Matches[KeyAt(it)]
    BY <1>4 DEF Thread, KeyAt, wanted, Lookup
  <2>2. \A r \in Todo(t, it) : ~ Here(it, r)
    BY <2>1 DEF Todo, Wanted, Here
  <2>3. it2 \in Iteration /\ Follows(it, it2) /\ SameKey(it, it2) /\ it2.pc = "nextkey"
    BY <1>0, <1>1, <1>4 DEF Iteration, Follows, SameKey, OnKey
  <2> QED BY <2>2, <2>3, KeyDone
<1>5. CASE wanted /\ vs = {} /\ t = "purge"
  <2>1. it2 = [it EXCEPT !.pc = "find"]
    BY <1>0, <1>5 DEF NoMatch
  <2>2. it2 = it
    BY <1>1, <2>1 DEF Iteration
  <2> QED BY <2>2
<1>6. CASE wanted /\ vs = {} /\ t # "purge"
  <2>1. it2 = [it EXCEPT !.pc = "nextkey"]
    BY <1>0, <1>6 DEF NoMatch
  <2>2. \A r \in Todo(t, it) : ~ Here(it, r)
    BY <1>2, <1>3, <1>6
  <2>3. it2 \in Iteration /\ Follows(it, it2) /\ SameKey(it, it2) /\ it2.pc = "nextkey"
    BY <1>1, <2>1 DEF Iteration, Follows, SameKey, OnKey
  <2> QED BY <2>2, <2>3, KeyDone
<1>7. CASE wanted /\ vs # {}
  <2>1. TakesValues(it, it2, vs)
    BY <1>0, <1>1, <1>2, <1>7 DEF TakesValues, Iteration, Follows, SameKey, OnKey, OnValue
  <2>2. ValuesNext(it, vs, Todo(t, it))
    BY <1>2, <1>3 DEF ValuesNext
  <2>3. it.pc \in {"find", "next"}
    OBVIOUS
  <2> QED BY <2>1, <2>2, <2>3, StageOfValues, Zenon
<1> QED
  BY <1>4, <1>5, <1>6, <1>7

\* What NextValue does.
ToValues(it, vs) == [it EXCEPT !.values = vs, !.pc = IF vs = {} THEN "nextkey" ELSE "visit"]

LEMMA NextValueStep ==
    ASSUME NEW t \in Thread, NEW it, IterOK(t, it), it.pc = "next",
           subs \subseteq Subscriptions, Todo(t, it) \subseteq subs, NEW vs, vs = nextValues(it),
           NEW it2, it2 = ToValues(it, vs)
    PROVE  IterOK(t, it2) /\ Todo(t, it2) = Todo(t, it)
<1>0. it2 = [it EXCEPT !.values = vs, !.pc = IF vs = {} THEN "nextkey" ELSE "visit"]
  BY DEF ToValues
<1>1. it \in Iteration /\ it.map \in Maps /\ Shaped(t, it) /\ NonePast(it, Todo(t, it))
  BY DEF IterOK, Shaped, Iteration
<1>2. PICK v \in Nat : v = ValueAt(it) /\ v \in it.values /\ \A x \in it.values : x \in Nat /\ v <= x
  BY <1>1, ValueAtFacts DEF OnValue
<1>3. ASSUME NEW r \in Todo(t, it), Here(it, r) PROVE r \in subs /\ r[3] \in Nat /\ v < r[3]
  <2>1. r \in subs /\ r[3] \in Nat /\ ~ Past(it, r)
    BY <1>1, <1>3, SubscriptionFacts DEF NonePast
  <2>2. ~ (r[3] < v) /\ r[3] # v
    BY <1>2, <1>3, <2>1 DEF Past, OnValue
  <2> QED BY <2>1, <2>2
<1>4. /\ vs \subseteq Conn /\ \A x \in vs : v < x
      /\ \A r \in Todo(t, it) : Here(it, r) => vs # {} /\ \A x \in vs : r[3] <= x => r[3] \in vs
  <2>1. CASE it.values = {v}
    <3>1. vs = populateValues(it.map, KeyAt(it), v)
      BY <1>2, <2>1 DEF nextValues, KeyAt, ValueAt
    <3> QED BY <1>1, <1>2, <1>3, <3>1, ValueStageFacts DEF Here
  <2>2. CASE it.values # {v}
    <3>1. vs = it.values \ {v}
      BY <1>2, <2>2 DEF nextValues, ValueAt
    <3>2. vs # {}
      BY <1>2, <2>2, <3>1
    <3>3. vs \subseteq Conn /\ \A x \in vs : v < x
      BY <1>1, <1>2, <3>1 DEF Shaped, Iteration
    <3>4. ASSUME NEW r \in Todo(t, it), Here(it, r), NEW x \in vs, r[3] <= x PROVE r[3] \in vs
      <4>1. v < r[3] /\ r[3] \in Nat /\ x \in it.values
        BY <1>3, <3>1, <3>4
      <4>2. r[3] \in it.values
        BY <1>2, <3>4, <4>1 DEF IterOK, ValuesCover, OnValue
      <4>3. r[3] # v
        BY <4>1
      <4> QED BY <3>1, <4>2, <4>3
    <3> QED BY <3>2, <3>3, <3>4
  <2> QED BY <2>1, <2>2
<1>5. TakesValues(it, it2, vs)
  <2>1. CASE vs = {}
    <3>1. it2 = [it EXCEPT !.values = vs, !.pc = "nextkey"]
      BY <1>0, <2>1
    <3> QED BY <1>1, <1>4, <2>1, <3>1 DEF TakesValues, Iteration, Follows, SameKey, OnKey, OnValue
  <2>2. CASE vs # {}
    <3>1. it2 = [it EXCEPT !.values = vs, !.pc = "visit"]
      BY <1>0, <2>2
    <3> QED BY <1>1, <1>4, <2>2, <3>1 DEF TakesValues, Iteration, Follows, SameKey, OnKey, OnValue
  <2> QED BY <2>1, <2>2
<1>6. ValuesNext(it, vs, Todo(t, it))
  BY <1>2, <1>4 DEF ValuesNext
<1>7. it.pc \in {"find", "next"}
  OBVIOUS
<1> QED
  BY <1>5, <1>6, <1>7, StageOfValues, ZenonT(30)

-----------------------------------------------------------------------------
(* Visits, and what others erase *)

LEMMA AppendFacts ==
    ASSUME NEW v \in Seq(Subscriptions), NEW s \in Subscriptions, NEW w, w = Append(v, s)
    PROVE  /\ w \in Seq(Subscriptions) /\ Range(w) = Range(v) \cup {s}
           /\ IsInjective(v) /\ s \notin Range(v) => IsInjective(w)
<1>1. /\ w \in Seq(Subscriptions) /\ Len(w) = Len(v) + 1 /\ w[Len(v) + 1] = s /\ Len(v) \in Nat
      /\ \A k \in 1..Len(v) : w[k] = v[k]
  BY AppendProperties
<1>2. DOMAIN v = 1..Len(v) /\ DOMAIN w = 1..Len(w)
  BY <1>1
<1>3. \A k \in DOMAIN w : k \in DOMAIN v \/ k = Len(v) + 1
  BY <1>1, <1>2
<1>4. \A k \in DOMAIN v : k \in DOMAIN w /\ w[k] = v[k]
  BY <1>1, <1>2
<1>5. Len(v) + 1 \in DOMAIN w /\ w[Len(v) + 1] = s
  BY <1>1, <1>2
<1>6. Range(w) = Range(v) \cup {s}
  <2>1. ASSUME NEW x \in Range(w) PROVE x \in Range(v) \cup {s}
    BY <1>3, <1>4, <1>5, <2>1 DEF Range
  <2>2. ASSUME NEW x \in Range(v) \cup {s} PROVE x \in Range(w)
    BY <1>4, <1>5, <2>2 DEF Range
  <2> QED BY <2>1, <2>2
<1>7. ASSUME IsInjective(v), s \notin Range(v) PROVE IsInjective(w)
  <2> SUFFICES ASSUME NEW a \in DOMAIN w, NEW b \in DOMAIN w, w[a] = w[b] PROVE a = b
    BY DEF IsInjective
  <2>1. \A k \in DOMAIN v : w[k] # s
    BY <1>4, <1>7 DEF Range
  <2> QED BY <1>3, <1>4, <1>5, <1>7, <2>1 DEF IsInjective
<1> QED
  BY <1>1, <1>6, <1>7

\* What Visit does.
Visited(it, s, p) == [it EXCEPT !.visited = Append(it.visited, s), !.pc = p]

LEMMA VisitStep ==
    ASSUME NEW t \in Thread, NEW it, IterOK(t, it), it.pc = "visit", NEW s, s = At(it),
           NEW p \in {"erase", "next"}, NEW it2, it2 = Visited(it, s, p)
    PROVE  IterOK(t, it2) /\ Todo(t, it2) = Todo(t, it) \ {s}
<1>1. it \in Iteration /\ Shaped(t, it) /\ NonePast(it, Todo(t, it)) /\ AllPast(it, Range(it.visited))
      /\ it.visited \in Seq(Subscriptions) /\ it.map \in Maps /\ IsInjective(it.visited)
  BY DEF IterOK, Shaped, Iteration
<1>2. /\ KeyAt(it) \in Keys(it.map) /\ KeyAt(it) \in Nat /\ ValueAt(it) \in Conn /\ ValueAt(it) \in Nat
  BY <1>1, KeyAtFacts, ValueAtFacts DEF OnKey, OnValue
<1>3. s = <<it.map, KeyAt(it), ValueAt(it)>>
  BY DEF At, KeyAt, ValueAt
<1>4. s \in Subscriptions /\ s[1] = it.map /\ s[2] = KeyAt(it) /\ s[3] = ValueAt(it)
  BY <1>1, <1>2, <1>3, IsSubscription
<1>5. PICK w : w = Append(it.visited, s)
  OBVIOUS
<1>6. w \in Seq(Subscriptions) /\ Range(w) = Range(it.visited) \cup {s}
  BY <1>1, <1>4, <1>5, AppendFacts
<1>7. /\ it2 \in Iteration /\ it2.visited = w /\ it2.present = it.present /\ it2.channel = it.channel
      /\ it2.keys = it.keys /\ it2.values = it.values /\ it2.map = it.map /\ it2.pc = p
  <2>1. it2 = [it EXCEPT !.visited = w, !.pc = p]
    BY <1>5 DEF Visited
  <2> QED BY <1>1, <1>6, <2>1 DEF Iteration, OnKey, OnValue
<1>8. KeyAt(it2) = KeyAt(it) /\ ValueAt(it2) = ValueAt(it)
  BY <1>7 DEF KeyAt, ValueAt
<1>9. ~ Past(it, s)
  BY <1>2, <1>4 DEF Past, Here, OnKey, OnValue
<1>10. Past(it2, s) /\ \A r \in Subscriptions : Past(it2, r) => Past(it, r) \/ r = s
  <2>1. Past(it2, s)
    BY <1>4, <1>7, <1>8 DEF Past, Here
  <2>2. ASSUME NEW r \in Subscriptions, Past(it2, r) PROVE Past(it, r) \/ r = s
    <3>1. CASE Here(it2, r) /\ r[3] = ValueAt(it2)
      BY <1>3, <1>7, <1>8, <3>1, SubscriptionFacts DEF Here
    <3>2. CASE ~ (Here(it2, r) /\ r[3] = ValueAt(it2))
      BY <1>7, <1>8, <2>2, <3>2 DEF Past, Here, OnKey, OnValue
    <3> QED BY <3>1, <3>2
  <2> QED BY <2>1, <2>2
<1>11. \A r \in Subscriptions : Past(it, r) => Past(it2, r)
  BY <1>7, <1>8 DEF Past, Here, OnKey, OnValue
<1>12. Todo(t, it2) = Todo(t, it) \ {s}
  <2>1. \A r : Wanted(t, it2, r) <=> Wanted(t, it, r)
    BY <1>7 DEF Wanted
  <2> QED BY <1>6, <1>7, <2>1 DEF Todo
<1>13. Shaped(t, it2)
  BY <1>1, <1>7 DEF Shaped, OnKey, OnValue
<1>14. IsInjective(it2.visited)
  <2>1. s \notin Range(it.visited)
    BY <1>1, <1>9 DEF AllPast
  <2>2. IsInjective(w)
    <3>1. it.visited \in Seq(Subscriptions) /\ IsInjective(it.visited)
      BY <1>1
    <3> QED BY <1>4, <1>5, <2>1, <3>1, AppendFacts
  <2> QED BY <1>7, <2>2
<1>15. AllPast(it2, Range(it2.visited))
  BY <1>1, <1>6, <1>7, <1>10, <1>11, VisitedFacts DEF AllPast
<1>16. NonePast(it2, Todo(t, it2))
  BY <1>1, <1>10, <1>12, VisitedFacts DEF NonePast
<1>17. KeysCover(it2, Todo(t, it2)) /\ ValuesCover(it2, Todo(t, it2))
  <2>1. KeysCover(it, Todo(t, it)) /\ ValuesCover(it, Todo(t, it))
    BY DEF IterOK
  <2>2. KeysCover(it2, Todo(t, it2))
    BY <1>7, <1>8, <1>12, <2>1 DEF KeysCover, OnKey, OnValue
  <2>3. ValuesCover(it2, Todo(t, it2))
    BY <1>7, <1>8, <1>12, <2>1 DEF ValuesCover, Here, OnValue
  <2> QED BY <2>2, <2>3
<1> QED
  BY <1>12, <1>13, <1>14, <1>15, <1>16, <1>17 DEF IterOK

\* The thread has erased what it was at.
LEMMA EraseStep ==
    ASSUME NEW t \in Thread, NEW it, IterOK(t, it), it.pc = "erase", NEW it2, it2 = [it EXCEPT !.pc = "next"]
    PROVE  IterOK(t, it2) /\ Todo(t, it2) = Todo(t, it) /\ At(it) \notin Todo(t, it) /\ At(it) \in Subscriptions
<1>1. it \in Iteration /\ Shaped(t, it) /\ NonePast(it, Todo(t, it)) /\ it.map \in Maps
  BY DEF IterOK, Shaped, Iteration
<1>2. it2 \in Iteration /\ Follows(it, it2) /\ SameKey(it, it2) /\ it2.values = it.values /\ it2.pc = "next"
  BY <1>1 DEF Iteration, Follows, SameKey, OnKey, OnValue
<1>3. KeyAt(it2) = KeyAt(it) /\ ValueAt(it2) = ValueAt(it) /\ it2.map = it.map /\ it2.keys = it.keys /\ it2.channel = it.channel
  BY <1>2 DEF KeyAt, ValueAt, SameKey, Follows
<1>4. Shaped(t, it2)
  BY <1>1, <1>2, <1>3 DEF Shaped, OnKey, OnValue
<1>5. GoesOn(it, it2, Todo(t, it))
  BY <1>2, <1>3 DEF GoesOn, Past, Here, OnKey, OnValue
<1>6. KeysCover(it, Todo(t, it)) /\ ValuesCover(it, Todo(t, it))
  BY DEF IterOK
<1>7. KeysCover(it2, Todo(t, it))
  BY <1>2, <1>3, <1>6 DEF KeysCover, OnKey, OnValue
<1>8. ValuesCover(it2, Todo(t, it))
  BY <1>2, <1>3, <1>6 DEF ValuesCover, Here, OnValue
<1>9. At(it) \in Subscriptions /\ Past(it, At(it))
  <2>1. KeyAt(it) \in Keys(it.map) /\ ValueAt(it) \in Conn
    BY <1>1, KeyAtFacts, ValueAtFacts DEF OnKey, OnValue
  <2>2. At(it) = <<it.map, KeyAt(it), ValueAt(it)>>
    BY DEF At, KeyAt, ValueAt
  <2>3. Past(it, At(it))
    BY <2>2 DEF Past, Here
  <2> QED BY <1>1, <2>1, <2>2, <2>3, IsSubscription
<1>10. At(it) \notin Todo(t, it)
  BY <1>1, <1>9 DEF NonePast
<1> QED
  BY <1>2, <1>4, <1>5, <1>7, <1>8, <1>9, <1>10, Moves

\* Entries that disappear leave less to be done.
LEMMA LessPresent ==
    ASSUME NEW t \in Thread, NEW it, IterOK(t, it), NEW S, NEW it2, it2 = [it EXCEPT !.present = it.present \ S]
    PROVE  it2 \in Iteration /\ IterOK(t, it2) /\ Todo(t, it2) = Todo(t, it) \ S
<1>1. it \in Iteration /\ Shaped(t, it)
  BY DEF IterOK, Shaped
<1>2. /\ it2 \in Iteration /\ it2.visited = it.visited /\ it2.channel = it.channel /\ it2.present = it.present \ S
      /\ it2.keys = it.keys /\ it2.values = it.values /\ it2.map = it.map /\ it2.pc = it.pc
  BY <1>1 DEF Iteration
<1>3. Todo(t, it2) = Todo(t, it) \ S
  <2>1. \A r : Wanted(t, it2, r) <=> Wanted(t, it, r)
    BY <1>2 DEF Wanted
  <2> QED BY <1>2, <2>1 DEF Todo
<1>4. KeyAt(it2) = KeyAt(it) /\ ValueAt(it2) = ValueAt(it)
  BY <1>2 DEF KeyAt, ValueAt
<1>5. Shaped(t, it2)
  BY <1>1, <1>2 DEF Shaped
<1>6. \A r : Past(it2, r) <=> Past(it, r)
  BY <1>2, <1>4 DEF Past, Here
<1>7. IsInjective(it2.visited) /\ AllPast(it2, Range(it2.visited)) /\ NonePast(it2, Todo(t, it2))
  BY <1>2, <1>3, <1>6 DEF IterOK, AllPast, NonePast
<1>8. KeysCover(it2, Todo(t, it2)) /\ ValuesCover(it2, Todo(t, it2))
  BY <1>2, <1>3, <1>4 DEF IterOK, KeysCover, ValuesCover, Here
<1> QED
  BY <1>2, <1>3, <1>5, <1>7, <1>8 DEF IterOK

LEMMA NoIterationOK ==
    ASSUME NEW t \in Thread
    PROVE  NoIteration \in Iteration /\ IterOK(t, NoIteration) /\ Todo(t, NoIteration) = {}
<1>1. PICK it : it = NoIteration
  OBVIOUS
<1>2. /\ it.pc = "idle" /\ it.map = "channel" /\ it.channel = 0 /\ it.keys = {} /\ it.values = {}
      /\ it.present = {} /\ it.visited = <<>>
  BY <1>1 DEF NoIteration
<1>3. it \in Iteration
  BY <1>1 DEF NoIteration, Iteration, Maps
<1>4. Shaped(t, it)
  BY <1>2, <1>3 DEF Shaped, OnKey, OnValue
<1>5. DOMAIN it.visited = {}
  BY <1>2
<1>6. Range(it.visited) = {} /\ IsInjective(it.visited) /\ Todo(t, it) = {}
  BY <1>2, <1>5 DEF Range, IsInjective, Todo
<1>7. AllPast(it, Range(it.visited)) /\ NonePast(it, Todo(t, it)) /\ KeysCover(it, Todo(t, it)) /\ ValuesCover(it, Todo(t, it))
  BY <1>6 DEF AllPast, NonePast, KeysCover, ValuesCover
<1> QED
  BY <1>1, <1>3, <1>4, <1>6, <1>7 DEF IterOK

\* What an iteration starts from.
Started(t, ch) == [NoIteration EXCEPT !.channel = ch, !.present = subs,
    !.pc = IF t = "publish" THEN "find" ELSE "keys", !.keys = IF t = "publish" THEN {ch} ELSE {}]

LEMMA StartedOK ==
    ASSUME subs \subseteq Subscriptions, NEW t \in Thread, NEW ch \in Nat, t = "publish" => ch \in Channel
    PROVE  Started(t, ch) \in Iteration /\ IterOK(t, Started(t, ch)) /\ Todo(t, Started(t, ch)) \subseteq subs
<1>1. PICK it : it = Started(t, ch)
  OBVIOUS
<1>2. it.map = "channel" /\ it.channel = ch /\ it.values = {} /\ it.present = subs /\ it.visited = <<>>
  BY <1>1 DEF Started, NoIteration
<1>3. it.pc = (IF t = "publish" THEN "find" ELSE "keys") /\ it.keys = (IF t = "publish" THEN {ch} ELSE {})
  BY <1>1 DEF Started, NoIteration
<1>4. it.keys \subseteq Channel /\ Channel \subseteq Nat \ {0} /\ Keys("channel") = Channel
  BY <1>3, PubSubAssumption DEF Keys
<1>5. it \in Iteration
  <2>1. it = [pc |-> it.pc, map |-> "channel", channel |-> ch, keys |-> it.keys, values |-> {},
              present |-> subs, visited |-> <<>>]
    BY <1>1 DEF Started, NoIteration
  <2>2. it.pc \in OnKey \cup {"idle", "keys", "done"}
    BY <1>3 DEF OnKey
  <2>3. <<>> \in Seq(Subscriptions)
    OBVIOUS
  <2>4. it.keys \in SUBSET (Nat \ {0}) /\ {} \in SUBSET Conn /\ subs \in SUBSET Subscriptions /\ "channel" \in Maps
    BY <1>4, Zenon DEF Maps
  <2>5. PICK p, ks : p = it.pc /\ ks = it.keys
    OBVIOUS
  <2>6. [pc |-> p, map |-> "channel", channel |-> ch, keys |-> ks, values |-> {}, present |-> subs, visited |-> <<>>]
            \in Iteration
    BY <2>2, <2>3, <2>4, <2>5 DEF Iteration
  <2> QED BY <2>1, <2>5, <2>6
<1>6. Shaped(t, it)
  BY <1>2, <1>3, <1>4, <1>5 DEF Shaped, OnKey, OnValue, Thread
<1>7. Range(it.visited) = {} /\ IsInjective(it.visited)
  <2>1. DOMAIN it.visited = {}
    BY <1>2
  <2> QED BY <1>2, <2>1 DEF Range, IsInjective
<1>8. Todo(t, it) \subseteq subs
  BY <1>2 DEF Todo
<1>9. it.pc \in OnKey => t = "publish" /\ it.pc = "find" /\ it.keys = {ch}
  BY <1>3 DEF OnKey, OnValue
<1>10. it.pc \in OnKey => KeyAt(it) = ch
  <2>1. it.pc \in OnKey => KeyAt(it) \in it.keys
    BY <1>6, KeyAtFacts
  <2> QED BY <1>9, <2>1
<1>11. \A r \in Todo(t, it) : t = "publish" /\ r[1] = "channel" => r[2] = ch
  BY <1>2 DEF Todo, Wanted
<1>12. NonePast(it, Todo(t, it))
  <2> SUFFICES ASSUME NEW r \in Todo(t, it), Past(it, r) PROVE FALSE
    BY DEF NonePast
  <2>1. it.pc \in {"find", "keys"} /\ it.map = "channel"
    BY <1>2, <1>3
  <2>2. it.pc \in OnKey /\ r[1] = "channel" /\ r[2] < KeyAt(it)
    BY <2>1 DEF Past, OnKey, OnValue
  <2>3. r[2] = ch /\ KeyAt(it) = ch
    BY <1>9, <1>10, <1>11, <2>2
  <2> QED BY <2>2, <2>3
<1>13. KeysCover(it, Todo(t, it))
  <2> SUFFICES ASSUME it.pc \in OnKey, NEW r \in Todo(t, it), r[1] = it.map, KeyAt(it) < r[2] PROVE FALSE
    BY DEF KeysCover
  <2>1. r[2] = ch /\ KeyAt(it) = ch
    BY <1>2, <1>9, <1>10, <1>11
  <2> QED BY <2>1
<1>14. ValuesCover(it, Todo(t, it))
  BY <1>3 DEF ValuesCover, OnValue
<1>15. AllPast(it, Range(it.visited))
  BY <1>7 DEF AllPast
<1> QED
  BY <1>1, <1>5, <1>6, <1>7, <1>8, <1>12, <1>13, <1>14, <1>15 DEF IterOK

-----------------------------------------------------------------------------
(* The maps and the commands *)

ClientInv ==
    /\ tracker \subseteq Subscriptions /\ open \subseteq Conn
    /\ client \in [Conn -> [op: {"none", "subscribe", "unsubscribe"},
                            s: Subscriptions \cup {NoCommand.s}, step: 0..3]]
    /\ \A c \in Conn : \/ client[c] = NoCommand
                       \/ /\ client[c].op # "none" /\ client[c].step # 0
                          /\ client[c].s \in Subscriptions /\ client[c].s[3] = c

Inv == StoreInv /\ ClientInv /\ IterInv

Counted(m) == {s \in subs : s[1] = m}

LEMMA Counting ==
    ASSUME StoreInv, NEW m \in Maps
    PROVE  IsFiniteSet(Counted(m)) /\ stored[m] = Cardinality(Counted(m)) /\ Cardinality(Counted(m)) \in Nat
<1>1. Counted(m) \in SUBSET subs
  BY DEF Counted
<1> QED
  BY <1>1, FS_Subset, FS_CardinalityType DEF StoreInv, Counted

LEMMA Inserted ==
    ASSUME StoreInv, NEW s \in Subscriptions, insert(s)
    PROVE  StoreInv'
<1>1. s[1] \in Maps /\ subs' = subs \cup {s} /\ subs \subseteq Subscriptions /\ IsFiniteSet(subs)
  BY SubscriptionFacts DEF insert, StoreInv
<1>2. subs' \subseteq Subscriptions /\ IsFiniteSet(subs')
  BY <1>1, FS_AddElement
<1>3. stored \in [Maps -> Int] /\ stored' = [stored EXCEPT ![s[1]] = IF s \in subs THEN stored[s[1]] ELSE stored[s[1]] + 1]
  BY DEF insert, StoreInv
<1>4. stored' \in [Maps -> Int]
  BY <1>1, <1>3
<1>5. ASSUME NEW m \in Maps PROVE stored'[m] = Cardinality(Counted(m)')
  <2>1. IsFiniteSet(Counted(m)) /\ stored[m] = Cardinality(Counted(m)) /\ Cardinality(Counted(m)) \in Nat
    BY <1>5, Counting
  <2>2. CASE m = s[1]
    <3>1. Counted(m)' = Counted(m) \cup {s}
      BY <1>1, <2>2, Zenon DEF Counted
    <3>2. s \in Counted(m) <=> s \in subs
      BY <2>2 DEF Counted
    <3>3. Cardinality(Counted(m) \cup {s}) = IF s \in Counted(m) THEN Cardinality(Counted(m)) ELSE Cardinality(Counted(m)) + 1
      BY <2>1, FS_AddElement
    <3> QED BY <1>3, <2>1, <2>2, <3>1, <3>2, <3>3
  <2>3. CASE m # s[1]
    <3>1. Counted(m)' = Counted(m)
      BY <1>1, <2>3, Zenon DEF Counted
    <3> QED BY <1>3, <1>5, <2>1, <2>3, <3>1
  <2> QED BY <2>2, <2>3
<1> QED
  BY <1>2, <1>4, <1>5 DEF StoreInv, Counted

LEMMA ErasedFacts ==
    ASSUME StoreInv, NEW s \in Subscriptions, erase(s)
    PROVE  StoreInv'
<1>1. s[1] \in Maps /\ subs' = subs \ {s} /\ subs \subseteq Subscriptions /\ IsFiniteSet(subs)
  BY SubscriptionFacts DEF erase, StoreInv
<1>2. subs' \subseteq Subscriptions /\ IsFiniteSet(subs')
  BY <1>1, FS_RemoveElement
<1>3. stored \in [Maps -> Int] /\ stored' = [stored EXCEPT ![s[1]] = stored[s[1]] - Erased(s)]
  BY DEF erase, StoreInv
<1>4. Erased(s) \in Int /\ (s \in subs => Erased(s) = 1) /\ (s \notin subs => Erased(s) = 0)
  BY DEF Erased
<1>5. stored' \in [Maps -> Int]
  BY <1>1, <1>3, <1>4
<1>6. ASSUME NEW m \in Maps PROVE stored'[m] = Cardinality(Counted(m)')
  <2>1. IsFiniteSet(Counted(m)) /\ stored[m] = Cardinality(Counted(m)) /\ Cardinality(Counted(m)) \in Nat
    BY <1>6, Counting
  <2>2. CASE m = s[1]
    <3>1. Counted(m)' = Counted(m) \ {s}
      BY <1>1, <2>2, Zenon DEF Counted
    <3>2. s \in Counted(m) <=> s \in subs
      BY <2>2 DEF Counted
    <3>3. Cardinality(Counted(m) \ {s}) = IF s \in Counted(m) THEN Cardinality(Counted(m)) - 1 ELSE Cardinality(Counted(m))
      BY <2>1, FS_RemoveElement
    <3>4. stored'[m] = stored[m] - Erased(s)
      BY <1>3, <1>6, <2>2
    <3> QED BY <1>4, <2>1, <3>1, <3>2, <3>3, <3>4
  <2>3. CASE m # s[1]
    <3>1. Counted(m)' = Counted(m)
      BY <1>1, <2>3, Zenon DEF Counted
    <3> QED BY <1>3, <1>6, <2>1, <2>3, <3>1
  <2> QED BY <2>2, <2>3
<1> QED
  BY <1>2, <1>5, <1>6 DEF StoreInv, Counted

-----------------------------------------------------------------------------
(* Every step *)

LEMMA Initially ==
    ASSUME Init PROVE Inv
<1>1. PICK start \in Starts : subs = start.subs
  BY DEF Init
<1>2. subs \subseteq Subscriptions /\ IsFiniteSet(subs)
  BY <1>1, StartsAssumption
<1>3. \A m \in Maps : IsFiniteSet(Counted(m)) /\ Cardinality(Counted(m)) \in Int
  <2> SUFFICES ASSUME NEW m \in Maps PROVE IsFiniteSet(Counted(m)) /\ Cardinality(Counted(m)) \in Int
    OBVIOUS
  <2>1. Counted(m) \in SUBSET subs
    BY DEF Counted
  <2>2. IsFiniteSet(Counted(m))
    BY <1>2, <2>1, FS_Subset
  <2>3. Cardinality(Counted(m)) \in Nat
    BY <2>2, FS_CardinalityType
  <2> QED BY <2>2, <2>3
<1>4. StoreInv
  <2>1. stored = [m \in Maps |-> Cardinality(Counted(m))]
    BY DEF Init, Counted
  <2> QED BY <1>2, <1>3, <2>1 DEF StoreInv, Counted
<1>5. ClientInv
  <2>1. tracker \subseteq Subscriptions /\ open \subseteq Conn /\ client = [c \in Conn |-> NoCommand]
    BY <1>2 DEF Init
  <2>2. NoCommand \in [op: {"none", "subscribe", "unsubscribe"}, s: Subscriptions \cup {NoCommand.s}, step: 0..3]
    BY DEF NoCommand
  <2> QED BY <2>1, <2>2 DEF ClientInv
<1>6. IterInv
  <2>1. iter = [t \in Thread |-> NoIteration]
    BY DEF Init
  <2>2. \A t \in Thread : NoIteration \in Iteration /\ IterOK(t, NoIteration) /\ Todo(t, NoIteration) = {}
    BY NoIterationOK
  <2> QED BY <2>1, <2>2 DEF IterInv
<1> QED
  BY <1>4, <1>5, <1>6 DEF Inv

\* One thread goes on, on maps that stay.
LEMMA ThreadGoesOn ==
    ASSUME IterInv, NEW t \in Thread, NEW it2, IterOK(t, it2), Todo(t, it2) \subseteq subs,
           iter' = [iter EXCEPT ![t] = it2], subs' = subs
    PROVE  IterInv'
<1>1. it2 \in Iteration
  BY DEF IterOK, Shaped
<1>2. iter \in [Thread -> Iteration] /\ \A u \in Thread : IterOK(u, iter[u]) /\ Todo(u, iter[u]) \subseteq subs
  BY DEF IterInv
<1>3. iter' \in [Thread -> Iteration] /\ iter'[t] = it2 /\ \A u \in Thread : u # t => iter'[u] = iter[u]
  BY <1>1, <1>2
<1>4. \A u \in Thread : IterOK(u, iter'[u]) /\ Todo(u, iter'[u]) \subseteq subs'
  BY <1>2, <1>3
<1> QED
  BY <1>3, <1>4 DEF IterInv

\* The maps grow.
LEMMA MapsGrow ==
    ASSUME IterInv, iter' = iter, subs \subseteq subs'
    PROVE  IterInv'
<1>1. iter \in [Thread -> Iteration] /\ \A u \in Thread : IterOK(u, iter[u]) /\ Todo(u, iter[u]) \subseteq subs
  BY DEF IterInv
<1>2. \A u \in Thread : IterOK(u, iter'[u]) /\ Todo(u, iter'[u]) \subseteq subs'
  BY <1>1
<1> QED
  BY <1>1, <1>2 DEF IterInv

\* One entry is erased: for every thread, it was not there throughout.
LEMMA EntryGone ==
    ASSUME IterInv, NEW s, subs' = subs \ {s}, NEW t \in Thread
    PROVE  /\ WithoutAll({s})[t] \in Iteration /\ IterOK(t, WithoutAll({s})[t])
           /\ Todo(t, WithoutAll({s})[t]) \subseteq subs'
<1>1. IterOK(t, iter[t]) /\ Todo(t, iter[t]) \subseteq subs
  BY DEF IterInv
<1>2. PICK it, S, it2 : it = iter[t] /\ S = {s} /\ it2 = [it EXCEPT !.present = it.present \ S]
  OBVIOUS
<1>3. WithoutAll({s})[t] = it2
  BY <1>2 DEF WithoutAll
<1>4. it2 \in Iteration /\ IterOK(t, it2) /\ Todo(t, it2) = Todo(t, it) \ S
  <2>1. IterOK(t, it) /\ it2 = [it EXCEPT !.present = it.present \ S]
    BY <1>1, <1>2
  <2> QED BY <2>1, LessPresent
<1> QED
  BY <1>1, <1>2, <1>3, <1>4

LEMMA ErasedByClient ==
    ASSUME IterInv, NEW s, subs' = subs \ {s}, iter' = WithoutAll({s})
    PROVE  IterInv'
<1>1. \A t \in Thread : iter'[t] \in Iteration /\ IterOK(t, iter'[t]) /\ Todo(t, iter'[t]) \subseteq subs'
  BY EntryGone
<1>2. iter' \in [Thread -> Iteration]
  <2>1. iter' = [t \in Thread |-> iter'[t]]
    BY DEF WithoutAll
  <2> QED BY <1>1, <2>1
<1> QED
  BY <1>1, <1>2 DEF IterInv

LEMMA ErasedByThread ==
    ASSUME Inv, NEW t \in Thread, Erase(t)
    PROVE  StoreInv' /\ IterInv'
<1>1. PICK it, it2, s : it = iter[t] /\ it2 = [it EXCEPT !.pc = "next"] /\ s = At(it)
  OBVIOUS
<1>2. IterOK(t, it) /\ Todo(t, it) \subseteq subs /\ it.pc = "erase"
  BY <1>1 DEF Inv, IterInv, Erase
<1>3. IterOK(t, it2) /\ Todo(t, it2) = Todo(t, it) /\ s \notin Todo(t, it) /\ s \in Subscriptions
  BY <1>1, <1>2, EraseStep
<1>4. erase(s) /\ iter' = [WithoutAll({s}) EXCEPT ![t] = it2]
  BY <1>1 DEF Erase
<1>5. subs' = subs \ {s}
  BY <1>4 DEF erase
<1>6. StoreInv'
  BY <1>3, <1>4, ErasedFacts DEF Inv
<1>7. \A u \in Thread : WithoutAll({s})[u] \in Iteration /\ IterOK(u, WithoutAll({s})[u]) /\ Todo(u, WithoutAll({s})[u]) \subseteq subs'
  BY <1>5, EntryGone DEF Inv
<1>8. iter'[t] = it2 /\ (\A u \in Thread : u # t => iter'[u] = WithoutAll({s})[u]) /\ iter' = [u \in Thread |-> iter'[u]]
  BY <1>4 DEF WithoutAll
<1>9. it2 \in Iteration
  BY <1>3 DEF IterOK, Shaped
<1>10. Todo(t, it2) \subseteq subs'
  BY <1>2, <1>3, <1>5
<1>11. \A u \in Thread : iter'[u] \in Iteration /\ IterOK(u, iter'[u]) /\ Todo(u, iter'[u]) \subseteq subs'
  BY <1>3, <1>7, <1>8, <1>9, <1>10
<1>12. iter' \in [Thread -> Iteration]
  BY <1>8, <1>11
<1> QED
  BY <1>6, <1>11, <1>12 DEF IterInv

\* A step of an iteration, action by action.
LEMMA Iterated ==
    ASSUME Inv, NEW t \in Thread, Iterate(t)
    PROVE  StoreInv' /\ IterInv'
<1>1. StoreInv /\ IterInv /\ subs \subseteq Subscriptions
  BY DEF Inv, StoreInv
<1>2. PICK it : it = iter[t]
  OBVIOUS
<1>3. IterOK(t, it) /\ Todo(t, it) \subseteq subs
  BY <1>1, <1>2 DEF IterInv
<1>4. ASSUME subs' = subs, stored' = stored PROVE StoreInv'
  BY <1>1, <1>4 DEF StoreInv
<1>5. CASE FirstKeys(t)
  <2>1. PICK ks, it2 : ks = populateKeys(it.map, 0) /\ it2 = IF ks = {} THEN NextMap(it) ELSE [it EXCEPT !.keys = ks, !.pc = "find"]
    OBVIOUS
  <2>2. it.pc = "keys" /\ iter' = [iter EXCEPT ![t] = it2] /\ subs' = subs /\ stored' = stored
    BY <1>2, <1>5, <2>1 DEF FirstKeys
  <2>3. IterOK(t, it2) /\ Todo(t, it2) = Todo(t, it)
    BY <1>1, <1>3, <2>1, <2>2, FirstKeysStep
  <2> QED BY <1>1, <1>3, <1>4, <2>2, <2>3, ThreadGoesOn
<1>6. CASE Find(t)
  <2>1. PICK vs, it2 : vs = populateValues(it.map, Min(it.keys), 0) /\ it2 = Found(t, it, vs)
    OBVIOUS
  <2>2. it.pc = "find" /\ iter' = [iter EXCEPT ![t] = it2] /\ subs' = subs /\ stored' = stored
    BY <1>2, <1>6, <2>1 DEF Find, Found, Lookup
  <2>3. IterOK(t, it2) /\ Todo(t, it2) = Todo(t, it)
    BY <1>1, <1>3, <2>1, <2>2, FindStep
  <2> QED BY <1>1, <1>3, <1>4, <2>2, <2>3, ThreadGoesOn
<1>7. CASE Visit(t)
  <2>1. PICK s : s = At(it)
    OBVIOUS
  <2>2. PICK p : p = IF t = "purge" \/ s[3] \notin open THEN "erase" ELSE "next"
    OBVIOUS
  <2>3. PICK it2 : it2 = Visited(it, s, p)
    OBVIOUS
  <2>4. it.pc = "visit" /\ iter' = [iter EXCEPT ![t] = it2] /\ subs' = subs /\ stored' = stored
    BY <1>2, <1>7, <2>1, <2>2, <2>3 DEF Visit, Visited
  <2>5. p \in {"erase", "next"}
    BY <2>2
  <2>6. IterOK(t, it2) /\ Todo(t, it2) = Todo(t, it) \ {s}
    <3>1. it.pc = "visit"
      BY <2>4
    <3> QED BY <1>3, <2>1, <2>3, <2>5, <3>1, VisitStep
  <2>7. Todo(t, it2) \subseteq subs
    BY <1>3, <2>6
  <2> QED BY <1>1, <1>4, <2>4, <2>6, <2>7, ThreadGoesOn
<1>8. CASE Erase(t)
  BY <1>8, ErasedByThread
<1>9. CASE NextValue(t)
  <2>1. PICK vs, it2 : vs = nextValues(it) /\ it2 = ToValues(it, vs)
    OBVIOUS
  <2>2. it.pc = "next" /\ iter' = [iter EXCEPT ![t] = it2] /\ subs' = subs /\ stored' = stored
    BY <1>2, <1>9, <2>1 DEF NextValue, ToValues
  <2>3. IterOK(t, it2) /\ Todo(t, it2) = Todo(t, it)
    BY <1>1, <1>3, <2>1, <2>2, NextValueStep
  <2> QED BY <1>1, <1>3, <1>4, <2>2, <2>3, ThreadGoesOn
<1>10. CASE NextKey(t)
  <2>1. PICK ks, it2 : ks = nextKeys(it) /\ it2 = ToKeys(t, it, ks)
    OBVIOUS
  <2>2. it.pc = "nextkey" /\ iter' = [iter EXCEPT ![t] = it2] /\ subs' = subs /\ stored' = stored
    BY <1>2, <1>10, <2>1 DEF NextKey, ToKeys
  <2>3. IterOK(t, it2) /\ Todo(t, it2) = Todo(t, it)
    BY <1>1, <1>3, <2>1, <2>2, NextKeyStep
  <2> QED BY <1>1, <1>3, <1>4, <2>2, <2>3, ThreadGoesOn
<1>11. CASE End(t)
  <2>1. iter' = [iter EXCEPT ![t] = NoIteration] /\ subs' = subs /\ stored' = stored
    BY <1>11 DEF End
  <2>2. IterOK(t, NoIteration) /\ Todo(t, NoIteration) = {}
    BY NoIterationOK
  <2> QED BY <1>1, <1>4, <2>1, <2>2, ThreadGoesOn
<1> QED
  BY <1>5, <1>6, <1>7, <1>8, <1>9, <1>10, <1>11 DEF Iterate

Commands == [op: {"none", "subscribe", "unsubscribe"}, s: Subscriptions \cup {NoCommand.s}, step: 0..3]

\* What a connection may be executing.
Proper(c, d) ==
    \/ d = NoCommand
    \/ d.op # "none" /\ d.step # 0 /\ d.s \in Subscriptions /\ d.s[3] = c

LEMMA ClientFacts ==
    ASSUME ClientInv
    PROVE  client \in [Conn -> Commands] /\ \A c \in Conn : Proper(c, client[c])
BY DEF ClientInv, Commands, Proper

\* The command of one connection changes.
LEMMA OneClient ==
    ASSUME ClientInv, NEW c \in Conn, NEW d, d \in Commands, Proper(c, d), client' = [client EXCEPT ![c] = d],
           tracker' \subseteq Subscriptions, open' = open
    PROVE  ClientInv'
<1>1. client \in [Conn -> Commands] /\ (\A e \in Conn : Proper(e, client[e])) /\ open \subseteq Conn
  BY ClientFacts DEF ClientInv
<1>2. client' \in [Conn -> Commands] /\ \A e \in Conn : Proper(e, client'[e])
  BY <1>1
<1> QED
  BY <1>1, <1>2 DEF ClientInv, Commands, Proper

LEMMA SameClients ==
    ASSUME ClientInv, tracker' = tracker, client' = client, open' \subseteq open
    PROVE  ClientInv'
BY DEF ClientInv

\* The command of a connection comes to its next step.
StepTo(c, n) == client' = [client EXCEPT ![c].step = n]

LEMMA CommandStep ==
    ASSUME ClientInv, NEW c \in Conn, client[c].step # 0, NEW n \in 1..3, StepTo(c, n),
           tracker' \subseteq Subscriptions, open' = open
    PROVE  ClientInv' /\ client[c].s \in Subscriptions
<1>1. PICK d, d2 : d = client[c] /\ d2 = [d EXCEPT !.step = n]
  OBVIOUS
<1>2. d \in Commands /\ Proper(c, d) /\ d.step # 0
  BY <1>1, ClientFacts
<1>3. d.op # "none" /\ d.s \in Subscriptions /\ d.s[3] = c
  BY <1>2 DEF Proper, NoCommand
<1>4. d2 \in Commands /\ d2.op = d.op /\ d2.s = d.s /\ d2.step = n
  BY <1>1, <1>2 DEF Commands
<1>5. Proper(c, d2)
  BY <1>3, <1>4 DEF Proper
<1>6. client' = [client EXCEPT ![c] = d2]
  BY <1>1 DEF StepTo
<1> QED
  BY <1>1, <1>3, <1>4, <1>5, <1>6, OneClient

LEMMA ClientSteps ==
    ASSUME Inv, NEW c \in Conn, ClientStep(c)
    PROVE  Inv'
<1>1. StoreInv /\ ClientInv /\ IterInv /\ tracker \subseteq Subscriptions
  BY DEF Inv, ClientInv
<1>2. ASSUME subs' = subs, stored' = stored PROVE StoreInv'
  BY <1>1, <1>2 DEF StoreInv
<1>3. ASSUME iter' = iter, subs \subseteq subs' PROVE IterInv'
  BY <1>1, <1>3, MapsGrow
<1>4. PICK d : d = client[c]
  OBVIOUS
<1>5. d.step # 0 => d.s \in Subscriptions
  BY <1>1, <1>4, ClientFacts DEF Proper, NoCommand
<1>6. CASE Track(c)
  <2>1. d.step = 1 /\ StepTo(c, 2) /\ subs' = subs /\ stored' = stored /\ iter' = iter /\ open' = open
    BY <1>4, <1>6 DEF Track, StepTo
  <2>2. tracker' = IF d.op = "subscribe" THEN tracker \cup {d.s} ELSE tracker \ {d.s}
    BY <1>4, <1>6 DEF Track
  <2>3. tracker' \subseteq Subscriptions
    BY <1>1, <1>5, <2>1, <2>2
  <2>4. ClientInv'
    BY <1>1, <1>4, <2>1, <2>3, CommandStep
  <2> QED BY <1>2, <1>3, <2>1, <2>4 DEF Inv
<1>7. CASE subscribe(c)
  <2>1. d.step = 2 /\ StepTo(c, 3) /\ iter' = iter /\ tracker' = tracker /\ open' = open /\ insert(d.s)
    BY <1>4, <1>7 DEF subscribe, StepTo
  <2>2. ClientInv' /\ StoreInv'
    BY <1>1, <1>4, <1>5, <2>1, CommandStep, Inserted
  <2>3. subs \subseteq subs'
    BY <2>1 DEF insert
  <2> QED BY <1>3, <2>1, <2>2, <2>3 DEF Inv
<1>8. CASE unsubscribe(c)
  <2>1. d.step = 2 /\ StepTo(c, 3) /\ tracker' = tracker /\ open' = open
    BY <1>4, <1>8 DEF unsubscribe, StepTo
  <2>2. erase(d.s) /\ iter' = WithoutAll({d.s})
    BY <1>4, <1>8 DEF unsubscribe
  <2>3. ClientInv'
    BY <1>1, <1>4, <2>1, CommandStep
  <2>4. StoreInv'
    BY <1>1, <1>5, <2>1, <2>2, ErasedFacts
  <2>5. PICK s : s = d.s
    OBVIOUS
  <2>6. subs' = subs \ {s} /\ iter' = WithoutAll({s})
    BY <2>2, <2>5 DEF erase
  <2>7. IterInv'
    BY <1>1, <2>6, ErasedByClient
  <2> QED BY <2>3, <2>4, <2>7 DEF Inv
<1>9. CASE Confirm(c)
  <2>1. client' = [client EXCEPT ![c] = NoCommand] /\ tracker' = tracker /\ subs' = subs /\ stored' = stored /\ iter' = iter /\ open' = open
    BY <1>9 DEF Confirm
  <2>2. NoCommand \in Commands /\ Proper(c, NoCommand)
    BY DEF NoCommand, Commands, Proper
  <2>3. ClientInv'
    BY <1>1, <2>1, <2>2, OneClient
  <2> QED BY <1>2, <1>3, <2>1, <2>3 DEF Inv
<1> QED
  BY <1>6, <1>7, <1>8, <1>9 DEF ClientStep

LEMMA Steps ==
    ASSUME Inv, [Next]_vars
    PROVE  Inv'
<1>1. StoreInv /\ ClientInv /\ IterInv /\ tracker \subseteq Subscriptions /\ subs \subseteq Subscriptions
  BY DEF Inv, ClientInv, StoreInv
<1>2. ASSUME subs' = subs, stored' = stored PROVE StoreInv'
  BY <1>1, <1>2 DEF StoreInv
<1>3. ASSUME iter' = iter, subs' = subs PROVE IterInv'
  BY <1>1, <1>3, MapsGrow
<1>4. ASSUME NEW c \in Conn, NEW op \in {"subscribe", "unsubscribe"}, NEW s \in Subscriptions, dispatchPubsub(c, op, s)
      PROVE  Inv'
  <2>1. PICK d : d = [op |-> op, s |-> s, step |-> 1]
    OBVIOUS
  <2>2. client' = [client EXCEPT ![c] = d] /\ s[3] = c
    BY <1>4, <2>1 DEF dispatchPubsub
  <2>3. subs' = subs /\ stored' = stored /\ iter' = iter /\ tracker' = tracker /\ open' = open
    BY <1>4 DEF dispatchPubsub
  <2>4. d \in Commands /\ Proper(c, d)
    BY <2>1, <2>2 DEF Commands, Proper
  <2>5. ClientInv'
    BY <1>1, <2>2, <2>3, <2>4, OneClient
  <2> QED BY <1>2, <1>3, <2>3, <2>5 DEF Inv
<1>5. ASSUME NEW c \in Conn, ClientStep(c) PROVE Inv'
  BY <1>5, ClientSteps
<1>6. ASSUME NEW c \in Conn, Disconnect(c) PROVE Inv'
  <2>1. subs' = subs /\ stored' = stored /\ iter' = iter /\ tracker' = tracker /\ client' = client /\ open' \subseteq open
    BY <1>6 DEF Disconnect
  <2> QED BY <1>1, <1>2, <1>3, <2>1, SameClients DEF Inv
<1>7. ASSUME NEW t \in Thread, NEW ch \in Nat, t = "publish" => ch \in Channel, Begin(t, ch),
             subs' = subs, stored' = stored, tracker' = tracker, client' = client, open' = open
      PROVE  Inv'
  <2>1. iter' = [iter EXCEPT ![t] = Started(t, ch)]
    BY <1>7 DEF Begin, Started
  <2>2. IterOK(t, Started(t, ch)) /\ Todo(t, Started(t, ch)) \subseteq subs
    BY <1>1, <1>7, StartedOK
  <2>3. IterInv'
    BY <1>1, <1>7, <2>1, <2>2, ThreadGoesOn
  <2>4. ClientInv'
    BY <1>1, <1>7, SameClients
  <2> QED BY <1>2, <1>7, <2>3, <2>4 DEF Inv
<1>8. ASSUME NEW ch \in Channel, publish(ch) PROVE Inv'
  <2>1. ch \in Nat /\ "publish" \in Thread
    BY PubSubAssumption DEF Thread
  <2>2. Begin("publish", ch) /\ subs' = subs /\ stored' = stored /\ tracker' = tracker /\ client' = client /\ open' = open
    BY <1>8 DEF publish
  <2> QED BY <1>7, <2>1, <2>2
<1>9. ASSUME purgeListeners PROVE Inv'
  <2>1. "purge" \in Thread /\ "purge" # "publish" /\ 0 \in Nat
    BY DEF Thread
  <2>2. Begin("purge", 0) /\ subs' = subs /\ stored' = stored /\ tracker' = tracker /\ client' = client /\ open' = open
    BY <1>9 DEF purgeListeners
  <2> QED BY <1>7, <2>1, <2>2
<1>10. ASSUME NEW t \in Thread, Iterate(t) PROVE Inv'
  <2>1. tracker' = tracker /\ client' = client /\ open' = open
    BY <1>10 DEF Iterate, FirstKeys, Find, Visit, Erase, NextValue, NextKey, End
  <2> QED BY <1>1, <1>10, <2>1, Iterated, SameClients DEF Inv
<1>11. ASSUME StepDown \/ Ascend \/ UNCHANGED vars PROVE Inv'
  <2>1. subs' = subs /\ stored' = stored /\ iter' = iter /\ tracker' = tracker /\ client' = client /\ open' = open
    BY <1>11 DEF StepDown, Ascend, vars
  <2> QED BY <1>1, <1>2, <1>3, <2>1, SameClients DEF Inv
<1> QED
  BY <1>4, <1>5, <1>6, <1>8, <1>9, <1>10, <1>11 DEF Next

-----------------------------------------------------------------------------
(* Returned once *)

\* At the end nothing is to be done any more.
LEMMA AllReturned ==
    ASSUME Inv PROVE PresentReturnedOnce
<1>1. StoreInv /\ ClientInv /\ IterInv
  BY DEF Inv
<1>2. \A t \in Thread : IterOK(t, iter[t])
  BY <1>1 DEF IterInv
<1>3. TypeOK
  <2>1. \A t \in Thread : iter[t].pc \in {"find", "nextkey"} => iter[t].keys # {}
    BY <1>2 DEF IterOK, Shaped, OnKey
  <2> QED BY <1>1, <2>1 DEF TypeOK, StoreInv, ClientInv
<1>4. ASSUME NEW t \in Thread, iter[t].pc = "done"
      PROVE  Meant(t) \subseteq Range(iter[t].visited) /\ IsInjective(iter[t].visited)
  <2>1. PICK it : it = iter[t]
    OBVIOUS
  <2>2. it.pc = "done" /\ IsInjective(it.visited) /\ NonePast(it, Todo(t, it))
    BY <1>2, <1>4, <2>1 DEF IterOK
  <2>3. Todo(t, it) = {}
    BY <2>2 DEF NonePast, Past
  <2>4. \A r \in Meant(t) : r \in it.present /\ Wanted(t, it, r)
    BY <2>1 DEF Meant, Wanted
  <2>5. Meant(t) \subseteq Range(it.visited)
    BY <2>3, <2>4 DEF Todo
  <2> QED BY <2>1, <2>2, <2>5
<1> QED
  BY <1>3, <1>4 DEF PresentReturnedOnce

\* ThreadSafeMultiMap: an iteration that takes its elements stage by stage, while
\* connections subscribe, unsubscribe and leave and another thread erases, returns
\* every entry that is there from its beginning to its end, and none twice.
THEOREM PresentReturnedOnceCorrect == Spec => []PresentReturnedOnce
<1>1. Init => Inv
  BY Initially
<1>2. Inv /\ [Next]_vars => Inv'
  BY Steps
<1>3. Inv => PresentReturnedOnce
  BY AllReturned
<1> QED
  BY <1>1, <1>2, <1>3, PTL DEF Spec

-----------------------------------------------------------------------------
(* No stray message *)

\* Whoever is quiet is not in the account of its connection: an unsubscription
\* leaves the account before it is confirmed, and a subscription ends the quiet
\* before it enters the account.
QuietInv ==
    /\ \A s \in quiet : s \notin tracker
    /\ \A c \in Conn :
          /\ client[c].op = "subscribe" => client[c].s \notin quiet
          /\ client[c].op = "unsubscribe" /\ client[c].step \in {2, 3} => client[c].s \notin tracker

LEMMA QuietCommand ==
    ASSUME ClientInv, QuietInv, NEW c \in Conn, ClientStep(c)
    PROVE  QuietInv'
<1>1. client \in [Conn -> Commands] /\ \A e \in Conn : Proper(e, client[e])
  BY ClientFacts
<1>2. PICK d : d = client[c]
  OBVIOUS
<1>3. d.step # 0
  BY <1>2 DEF ClientStep, Track, subscribe, unsubscribe, Confirm
<1>4. d \in Commands /\ d.op \in {"subscribe", "unsubscribe"} /\ d.s[3] = c
  BY <1>1, <1>2, <1>3 DEF Proper, NoCommand, Commands
\* A connection changes its own subscriptions only.
<1>5. \A e \in Conn : e # c /\ client[e].op \in {"subscribe", "unsubscribe"} => client[e].s # d.s
  BY <1>1, <1>4 DEF Proper, NoCommand
<1>6. /\ \A s \in quiet : s \notin tracker
      /\ \A e \in Conn : client[e].op = "subscribe" => client[e].s \notin quiet
      /\ \A e \in Conn : client[e].op = "unsubscribe" /\ client[e].step \in {2, 3} => client[e].s \notin tracker
  BY DEF QuietInv
<1>7. \A n : StepTo(c, n) => /\ \A e \in Conn : client'[e].op = client[e].op /\ client'[e].s = client[e].s
                             /\ \A e \in Conn : e # c => client'[e] = client[e]
  BY <1>1 DEF StepTo, Commands
<1>8. CASE Track(c)
  <2>1. StepTo(c, 2) /\ quiet' = quiet /\ tracker' = IF d.op = "subscribe" THEN tracker \cup {d.s} ELSE tracker \ {d.s}
    BY <1>2, <1>8 DEF Track, StepTo
  <2>2. \A s \in quiet' : s \notin tracker'
    BY <1>2, <1>6, <2>1
  <2>3. \A e \in Conn : client'[e].op = "subscribe" => client'[e].s \notin quiet'
    BY <1>6, <1>7, <2>1
  <2>4. ASSUME NEW e \in Conn, client'[e].op = "unsubscribe", client'[e].step \in {2, 3} PROVE client'[e].s \notin tracker'
    <3>1. CASE e = c
      BY <1>2, <1>7, <2>1, <2>4, <3>1
    <3>2. CASE e # c
      <4>1. client'[e] = client[e] /\ client[e].s # d.s
        BY <1>5, <1>7, <2>1, <2>4, <3>2
      <4> QED BY <1>6, <2>1, <2>4, <4>1
    <3> QED BY <3>1, <3>2
  <2> QED BY <2>2, <2>3, <2>4 DEF QuietInv
<1>9. CASE subscribe(c) \/ unsubscribe(c)
  <2>1. StepTo(c, 3) /\ quiet' = quiet /\ tracker' = tracker /\ d.step = 2
    BY <1>2, <1>9 DEF subscribe, unsubscribe, StepTo
  <2>2. \A e \in Conn : client'[e].op = "subscribe" => client'[e].s \notin quiet'
    BY <1>6, <1>7, <2>1
  <2>3. ASSUME NEW e \in Conn, client'[e].op = "unsubscribe", client'[e].step \in {2, 3} PROVE client'[e].s \notin tracker'
    <3>1. client[e].op = "unsubscribe" /\ client[e].step \in {2, 3} /\ client'[e].s = client[e].s
      BY <1>2, <1>7, <2>1, <2>3
    <3> QED BY <1>6, <2>1, <3>1
  <2> QED BY <1>6, <2>1, <2>2, <2>3 DEF QuietInv
<1>10. CASE Confirm(c)
  <2>1. quiet' = (IF d.op = "unsubscribe" THEN quiet \cup {d.s} ELSE quiet) /\ tracker' = tracker /\ d.step = 3
    BY <1>2, <1>10 DEF Confirm
  <2>2. client'[c] = NoCommand /\ \A e \in Conn : e # c => client'[e] = client[e]
    BY <1>1, <1>10 DEF Confirm
  <2>3. NoCommand.op = "none"
    BY DEF NoCommand
  <2>4. \A s \in quiet' : s \notin tracker'
    BY <1>2, <1>6, <2>1
  <2>5. \A e \in Conn : client'[e].op = "subscribe" => client'[e].s \notin quiet'
    BY <1>5, <1>6, <2>1, <2>2, <2>3
  <2>6. \A e \in Conn : client'[e].op = "unsubscribe" /\ client'[e].step \in {2, 3} => client'[e].s \notin tracker'
    BY <1>6, <2>1, <2>2, <2>3
  <2> QED BY <2>4, <2>5, <2>6 DEF QuietInv
<1> QED
  BY <1>8, <1>9, <1>10 DEF ClientStep

LEMMA QuietDispatch ==
    ASSUME ClientInv, QuietInv, NEW c \in Conn, NEW op, NEW s, dispatchPubsub(c, op, s)
    PROVE  QuietInv'
<1>1. PICK d : d = [op |-> op, s |-> s, step |-> 1]
  OBVIOUS
<1>2. client \in [Conn -> Commands] /\ client' = [client EXCEPT ![c] = d] /\ tracker' = tracker
  BY <1>1, ClientFacts DEF dispatchPubsub
<1>3. quiet' = IF op = "subscribe" THEN quiet \ {s} ELSE quiet
  BY DEF dispatchPubsub
<1>4. client'[c] = d /\ (\A e \in Conn : e # c => client'[e] = client[e]) /\ d.op = op /\ d.s = s /\ d.step = 1
  BY <1>1, <1>2
<1>5. /\ \A r \in quiet : r \notin tracker
      /\ \A e \in Conn : client[e].op = "subscribe" => client[e].s \notin quiet
      /\ \A e \in Conn : client[e].op = "unsubscribe" /\ client[e].step \in {2, 3} => client[e].s \notin tracker
  BY DEF QuietInv
<1>6. \A r \in quiet' : r \notin tracker'
  BY <1>2, <1>3, <1>5
<1>7. \A e \in Conn : client'[e].op = "subscribe" => client'[e].s \notin quiet'
  BY <1>3, <1>4, <1>5
<1>8. \A e \in Conn : client'[e].op = "unsubscribe" /\ client'[e].step \in {2, 3} => client'[e].s \notin tracker'
  BY <1>2, <1>4, <1>5
<1> QED
  BY <1>6, <1>7, <1>8 DEF QuietInv

LEMMA QuietSteps ==
    ASSUME ClientInv, QuietInv, [Next]_vars
    PROVE  QuietInv'
<1>1. ASSUME client' = client, tracker' = tracker, quiet' = quiet PROVE QuietInv'
  BY <1>1 DEF QuietInv
<1>2. ASSUME NEW c \in Conn, NEW op \in {"subscribe", "unsubscribe"}, NEW s \in Subscriptions, dispatchPubsub(c, op, s)
      PROVE  QuietInv'
  BY <1>2, QuietDispatch
<1>3. ASSUME NEW c \in Conn, ClientStep(c) PROVE QuietInv'
  BY <1>3, QuietCommand
<1>4. ASSUME NEW c \in Conn, Disconnect(c) PROVE QuietInv'
  BY <1>1, <1>4 DEF Disconnect
<1>5. ASSUME NEW ch \in Channel, publish(ch) PROVE QuietInv'
  BY <1>1, <1>5 DEF publish
<1>6. ASSUME NEW t \in Thread, Iterate(t) PROVE QuietInv'
  BY <1>1, <1>6 DEF Iterate, FirstKeys, Find, Visit, Erase, NextValue, NextKey, End
<1>7. ASSUME purgeListeners \/ StepDown \/ Ascend \/ UNCHANGED vars PROVE QuietInv'
  BY <1>1, <1>7 DEF purgeListeners, StepDown, Ascend, vars
<1> QED
  BY <1>2, <1>3, <1>4, <1>5, <1>6, <1>7 DEF Next

\* Only a message to a listener can go astray.
LEMMA StraySteps ==
    ASSUME QuietInv, ~ stray, [Next]_vars
    PROVE  ~ stray'
<1>1. ASSUME NEW t \in Thread, Visit(t) PROVE ~ stray'
  <2>1. ~ (Tracked(At(iter[t])) /\ At(iter[t]) \in quiet)
    BY DEF QuietInv, Tracked
  <2> QED BY <1>1, <2>1, Zenon DEF Visit
<1>2. ASSUME stray' = stray PROVE ~ stray'
  BY <1>2
<1>3. ASSUME NEW c \in Conn, NEW op \in {"subscribe", "unsubscribe"}, NEW s \in Subscriptions, dispatchPubsub(c, op, s)
      PROVE  stray' = stray
  BY <1>3 DEF dispatchPubsub
<1>4. ASSUME NEW c \in Conn, ClientStep(c) \/ Disconnect(c) PROVE stray' = stray
  BY <1>4 DEF ClientStep, Track, subscribe, unsubscribe, Confirm, Disconnect
<1>5. ASSUME NEW ch \in Channel, publish(ch) PROVE stray' = stray
  BY <1>5 DEF publish
<1>6. ASSUME NEW t \in Thread, Iterate(t), ~ Visit(t) PROVE stray' = stray
  BY <1>6 DEF Iterate, FirstKeys, Find, Erase, NextValue, NextKey, End
<1>7. ASSUME purgeListeners \/ StepDown \/ Ascend \/ UNCHANGED vars PROVE stray' = stray
  BY <1>7 DEF purgeListeners, StepDown, Ascend, vars
<1> QED
  BY <1>1, <1>2, <1>3, <1>4, <1>5, <1>6, <1>7 DEF Next

\* PendingQueue::addMessageIfAttached: a client that was told that it is
\* unsubscribed gets no message, although the thread that publishes may still hold
\* its entry of the map.
THEOREM NoStrayMessageCorrect == Spec => []NoStrayMessage
<1>1. Init => ClientInv /\ QuietInv /\ ~ stray
  <2>1. Init => QuietInv
    BY DEF Init, QuietInv, NoCommand
  <2> QED BY <2>1, Initially DEF Inv, Init
<1>2. Init => Inv
  BY Initially
<1>3. Inv /\ [Next]_vars => Inv'
  BY Steps
<1>4. Inv => ClientInv
  BY DEF Inv
<1>5. ClientInv /\ QuietInv /\ [Next]_vars => QuietInv'
  BY QuietSteps
<1>6. QuietInv /\ ~ stray /\ [Next]_vars => ~ stray'
  BY StraySteps
<1>7. ~ stray => NoStrayMessage
  BY DEF NoStrayMessage
<1> QED
  BY <1>1, <1>2, <1>3, <1>4, <1>5, <1>6, <1>7, PTL DEF Spec

=============================================================================
