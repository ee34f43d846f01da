------------------------------- MODULE PubSub -------------------------------
(***************************************************************************)
(* Publisher: clients subscribe to channels and patterns, messages are     *)
(* published, and the listeners of a node that is not leader are purged,   *)
(* all at the same time.  ThreadSafeMultiMap is read through iterators     *)
(* that take a few elements per lock (a stage), so that the map changes    *)
(* under them; SubscriptionTracker is the connection's own account.        *)
(*                                                                         *)
(* Connections, channels and patterns are numbers, in the order of the     *)
(* maps.  A subscription is <<map, key, connection>>.                      *)
(***************************************************************************)
EXTENDS Integers, Sequences, FiniteSets, FiniteSetsExt, Functions

CONSTANTS
    Conn,         \* connections
    Channel,      \* channels
    Pattern,      \* patterns
    Matches,      \* Pattern -> the channels it matches
    KeyStage, ValueStage,  \* elements taken per lock
    Starts        \* initial subscriptions, and bounds on commands and closed
                  \* connections, on messages and on losses of leadership

ASSUME PubSubAssumption ==
    /\ Conn \cup Channel \cup Pattern \subseteq Nat \ {0}
    /\ KeyStage \in Nat \ {0} /\ ValueStage \in Nat \ {0}

Maps == {"channel", "pattern"}
Keys(m) == IF m = "channel" THEN Channel ELSE Pattern
Subscriptions == UNION {{m} \X Keys(m) \X Conn : m \in Maps}
Thread == {"publish", "purge"}

\* What is subscribed at the beginning.
ASSUME StartsAssumption ==
    \A start \in Starts : start.subs \subseteq Subscriptions /\ IsFiniteSet(start.subs)

VARIABLES
    subs,     \* contents of the two multi-maps
    stored,   \* per map: storedEntries
    tracker,  \* SubscriptionTracker: {<<map, key, connection>>}
    open,     \* connections that are attached
    client,   \* per connection: the command it executes
    leader,   \* the node is leader
    iter,     \* the iterations of the publishing and of the purging thread
    quiet,    \* history: unsubscribed, confirmed, and not subscribed since
    stray,    \* history: a message reached a connection that was quiet
    left      \* what may still happen

vars == <<subs, stored, tracker, open, client, leader, iter, quiet, stray, left>>

-----------------------------------------------------------------------------
(* ThreadSafeMultiMap *)

KeysOf(m) == {s[2] : s \in {x \in subs : x[1] = m}}
ValuesOf(m, k) == {s[3] : s \in {x \in subs : x[1] = m /\ x[2] = k}}

\* Mutant of upper_bound: one element too far.
upper_boundSkips(S, last) == {x \in S : x > last + 1}

upper_bound(S, last) == {x \in S : x > last}

\* The first n elements of a set.  A stage is the set of the elements taken, which
\* are returned in their order.
First(S, n) == {x \in S : Cardinality({y \in S : y < x}) < n}

\* KeyIterator::populateStage and MatchIterator::populateStage
populateKeys(m, last) == First(upper_bound(KeysOf(m), last), KeyStage)
populateValues(m, k, last) == First(upper_bound(ValuesOf(m, k), last), ValueStage)

\* next: a stage with one element is populated again before that one is dropped.
nextKeys(it) == IF it.keys = {Min(it.keys)} THEN populateKeys(it.map, Min(it.keys))
                ELSE it.keys \ {Min(it.keys)}
nextValues(it) == IF it.values = {Min(it.values)}
                  THEN populateValues(it.map, Min(it.keys), Min(it.values))
                  ELSE it.values \ {Min(it.values)}

\* Whatever disappears was not there throughout.
WithoutAll(S) == [t \in Thread |-> [iter[t] EXCEPT !.present = @ \ S]]

insert(s) ==
    /\ subs' = subs \cup {s}
    /\ stored' = [stored EXCEPT ![s[1]] = IF s \in subs THEN @ ELSE @ + 1]

Erased(s) == IF s \in subs THEN 1 ELSE 0

erase(s) ==
    /\ subs' = subs \ {s}
    /\ stored' = [stored EXCEPT ![s[1]] = @ - Erased(s)]

-----------------------------------------------------------------------------
NoIteration == [pc |-> "idle", map |-> "channel", channel |-> 0, keys |-> {}, values |-> {},
                present |-> {}, visited |-> <<>>]
NoCommand == [op |-> "none", s |-> <<"channel", 0, 0>>, step |-> 0]

Init ==
    /\ \E start \in Starts : subs = start.subs /\ left = start.left
    /\ stored = [m \in Maps |-> Cardinality({s \in subs : s[1] = m})]
    /\ tracker = subs
    /\ open = Conn
    /\ client = [c \in Conn |-> NoCommand]
    /\ leader = TRUE
    /\ iter = [t \in Thread |-> NoIteration]
    /\ quiet = {} /\ stray = FALSE

-----------------------------------------------------------------------------
(* The thread of a connection: dispatchPubsub, Publisher::dispatch *)

\* A command to a leader; the test is not repeated.
dispatchPubsub(c, op, s) ==
    /\ client[c] = NoCommand /\ c \in open /\ leader /\ s[3] = c
    /\ left.commands > 0
    /\ client' = [client EXCEPT ![c] = [op |-> op, s |-> s, step |-> 1]]
    /\ quiet' = IF op = "subscribe" THEN quiet \ {s} ELSE quiet
    /\ left' = [left EXCEPT !.commands = @ - 1]
    /\ UNCHANGED <<subs, stored, tracker, open, leader, iter, stray>>

\* PendingQueue::subscribe, psubscribe, unsubscribe, punsubscribe
Track(c) ==
    LET d == client[c]
    IN  /\ d.step = 1
        /\ tracker' = IF d.op = "subscribe" THEN tracker \cup {d.s} ELSE tracker \ {d.s}
        /\ client' = [client EXCEPT ![c].step = 2]
        /\ UNCHANGED <<subs, stored, open, leader, iter, quiet, stray, left>>

\* The multi-map follows.
subscribe(c) ==
    /\ client[c].step = 2 /\ client[c].op = "subscribe"
    /\ insert(client[c].s)
    /\ client' = [client EXCEPT ![c].step = 3]
    /\ UNCHANGED <<tracker, open, leader, iter, quiet, stray, left>>

unsubscribe(c) ==
    /\ client[c].step = 2 /\ client[c].op = "unsubscribe"
    /\ erase(client[c].s)
    /\ iter' = WithoutAll({client[c].s})
    /\ client' = [client EXCEPT ![c].step = 3]
    /\ UNCHANGED <<tracker, open, leader, quiet, stray, left>>

\* The client is told.
Confirm(c) ==
    /\ client[c].step = 3
    /\ quiet' = IF client[c].op = "unsubscribe" THEN quiet \cup {client[c].s} ELSE quiet
    /\ client' = [client EXCEPT ![c] = NoCommand]
    /\ UNCHANGED <<subs, stored, tracker, open, leader, iter, stray, left>>

\* Connection::~Connection, between two commands.
Disconnect(c) ==
    /\ client[c] = NoCommand /\ c \in open /\ left.commands > 0
    /\ open' = open \ {c}
    /\ left' = [left EXCEPT !.commands = @ - 1]
    /\ UNCHANGED <<subs, stored, tracker, client, leader, iter, quiet, stray>>

-----------------------------------------------------------------------------
(* Iterations *)

Begin(t, ch) ==
    iter' = [iter EXCEPT ![t] = [NoIteration EXCEPT !.channel = ch, !.present = subs,
        !.pc = IF t = "publish" THEN "find" ELSE "keys", !.keys = IF t = "publish" THEN {ch} ELSE {}]]

\* PUBLISH by a client, or asyncPublisher.
publish(ch) ==
    /\ iter["publish"].pc = "idle" /\ left.publish > 0
    /\ left' = [left EXCEPT !.publish = @ - 1]
    /\ Begin("publish", ch)
    /\ UNCHANGED <<subs, stored, tracker, open, client, leader, quiet, stray>>

\* appendEntries and followerLoop, on a node that is not leader.
purgeListeners ==
    /\ iter["purge"].pc = "idle" /\ ~ leader /\ subs # {}
    /\ Begin("purge", 0)
    /\ UNCHANGED <<subs, stored, tracker, open, client, leader, quiet, stray, left>>

\* The first map is through, or the second.
NextMap(it) ==
    IF it.map = "channel" THEN [it EXCEPT !.map = "pattern", !.pc = "keys", !.keys = {}, !.values = {}]
    ELSE [it EXCEPT !.pc = "done", !.keys = {}, !.values = {}]

FirstKeys(t) ==
    LET it == iter[t]
        ks == populateKeys(it.map, 0)
    IN  /\ it.pc = "keys"
        /\ iter' = [iter EXCEPT ![t] = IF ks = {} THEN NextMap(it)
                                       ELSE [it EXCEPT !.keys = ks, !.pc = "find"]]
        /\ UNCHANGED <<subs, stored, tracker, open, client, leader, quiet, stray, left>>

\* Mutant of NoMatch: the key is tried again.
NoMatchAgain(t, it) == [it EXCEPT !.pc = "find"]

\* findMatching found nothing under the key: advanceFirstIteratorUntilMatch goes on
\* to the next key, findValidMatchIter tries the same key again.
NoMatch(t, it) ==
    IF t = "purge" THEN [it EXCEPT !.pc = "find"]
    ELSE [it EXCEPT !.pc = "nextkey"]

Find(t) ==
    LET it == iter[t]
        vs == populateValues(it.map, Min(it.keys), 0)
        wanted == t = "purge" \/ it.map = "channel" \/ it.channel \in Matches[Min(it.keys)]
    IN  /\ it.pc = "find"
        /\ iter' = [iter EXCEPT ![t] =
              IF ~ wanted THEN [it EXCEPT !.pc = "nextkey"]
              ELSE IF vs = {} THEN NoMatch(t, it)
              ELSE [it EXCEPT !.values = vs, !.pc = "visit"]]
        /\ UNCHANGED <<subs, stored, tracker, open, client, leader, quiet, stray, left>>

At(it) == <<it.map, Min(it.keys), Min(it.values)>>

\* Mutant of Tracked: whoever is in the map gets the message.
TrackedAnyway(s) == TRUE

\* addMessageIfAttached, addPatternMessageIfAttached: the connection's own account.
Tracked(s) == s \in tracker

\* A message to one listener; one that is gone is erased in the next step.  A
\* listener that is purged is told so, then erased.
Visit(t) ==
    LET it == iter[t]
        s  == At(it)
    IN  /\ it.pc = "visit"
        /\ stray' = (stray \/ (t = "publish" /\ s[3] \in open /\ Tracked(s) /\ s \in quiet))
        /\ iter' = [iter EXCEPT ![t] = [it EXCEPT !.visited = Append(it.visited, s),
              !.pc = IF t = "purge" \/ s[3] \notin open THEN "erase" ELSE "next"]]
        /\ UNCHANGED <<subs, stored, tracker, open, client, leader, quiet, left>>

Erase(t) ==
    LET s == At(iter[t])
    IN  /\ iter[t].pc = "erase"
        /\ erase(s)
        /\ iter' = [WithoutAll({s}) EXCEPT ![t] = [iter[t] EXCEPT !.pc = "next"]]
        /\ UNCHANGED <<tracker, open, client, leader, quiet, stray, left>>

NextValue(t) ==
    LET it == iter[t]
        vs == nextValues(it)
    IN  /\ it.pc = "next"
        /\ iter' = [iter EXCEPT ![t] = [it EXCEPT !.values = vs, !.pc = IF vs = {} THEN "nextkey" ELSE "visit"]]
        /\ UNCHANGED <<subs, stored, tracker, open, client, leader, quiet, stray, left>>

\* skipKey; a message goes to one channel only.
NextKey(t) ==
    LET it == iter[t]
        ks == nextKeys(it)
    IN  /\ it.pc = "nextkey"
        /\ iter' = [iter EXCEPT ![t] =
              IF ks = {} \/ (t = "publish" /\ it.map = "channel") THEN NextMap(it)
              ELSE [it EXCEPT !.keys = ks, !.pc = "find"]]
        /\ UNCHANGED <<subs, stored, tracker, open, client, leader, quiet, stray, left>>

End(t) ==
    /\ iter[t].pc = "done"
    /\ iter' = [iter EXCEPT ![t] = NoIteration]
    /\ UNCHANGED <<subs, stored, tracker, open, client, leader, quiet, stray, left>>

Iterate(t) == FirstKeys(t) \/ Find(t) \/ Visit(t) \/ Erase(t) \/ NextValue(t) \/ NextKey(t) \/ End(t)

-----------------------------------------------------------------------------
StepDown ==
    /\ leader /\ left.reigns > 0
    /\ leader' = FALSE
    /\ left' = [left EXCEPT !.reigns = @ - 1]
    /\ UNCHANGED <<subs, stored, tracker, open, client, iter, quiet, stray>>

Ascend ==
    /\ ~ leader /\ left.reigns > 0
    /\ leader' = TRUE
    /\ UNCHANGED <<subs, stored, tracker, open, client, iter, quiet, stray, left>>

ClientStep(c) == Track(c) \/ subscribe(c) \/ unsubscribe(c) \/ Confirm(c)

Next ==
    \/ \E c \in Conn :
          \/ \E op \in {"subscribe", "unsubscribe"}, s \in Subscriptions : dispatchPubsub(c, op, s)
          \/ ClientStep(c) \/ Disconnect(c)
    \/ \E ch \in Channel : publish(ch)
    \/ purgeListeners
    \/ \E t \in Thread : Iterate(t)
    \/ StepDown \/ Ascend

Spec == Init /\ [][Next]_vars

\* All threads run; a node that is not leader purges again and again.
FairSpec ==
    /\ Spec
    /\ \A c \in Conn : WF_vars(ClientStep(c))
    /\ \A t \in Thread : WF_vars(Iterate(t))
    /\ WF_vars(purgeListeners)

-----------------------------------------------------------------------------
\* Every variable has its type, and storedEntries counts the entries, whoever
\* erases one first.
TypeOK ==
    /\ subs \subseteq Subscriptions /\ tracker \subseteq Subscriptions /\ open \subseteq Conn
    /\ \A m \in Maps : stored[m] = Cardinality({s \in subs : s[1] = m})
    /\ \A t \in Thread : iter[t].pc \in {"find", "nextkey"} => iter[t].keys # {}

\* Whom an iteration is meant for.
Meant(t) ==
    {s \in iter[t].present : \/ t = "purge"
                             \/ s[1] = "channel" /\ s[2] = iter[t].channel
                             \/ s[1] = "pattern" /\ iter[t].channel \in Matches[s[2]]}

\* ThreadSafeMultiMap, SimplePatternMatcher: an iteration returns every entry that
\* is there from its beginning to its end, whatever others insert and erase in
\* between, and none twice; the types and the counts of entries hold as well.
PresentReturnedOnce ==
    TypeOK /\ \A t \in Thread : iter[t].pc = "done" =>
        /\ Meant(t) \subseteq Range(iter[t].visited)
        /\ IsInjective(iter[t].visited)

\* PendingQueue::addMessageIfAttached: a client that was told that it is
\* unsubscribed gets no message any more, although a publishing thread may still
\* hold its entry.
NoStrayMessage == ~ stray

\* SimplePatternMatcher, MatchIterator: publishing ends, and the client that
\* publishes gets its answer.
PublishEnds == []<>(iter["publish"].pc = "idle")

\* FullIterator, RaftDirector::followerLoop: a listener on a node that is not
\* leader is told in the end, unless it leaves or the node becomes leader.
ListenersTold == \A s \in Subscriptions : (s \in subs /\ ~ leader) ~> (s \notin subs \/ leader)

=============================================================================
