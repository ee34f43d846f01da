------------------------- MODULE ResilveringProofs -------------------------
(***************************************************************************)
(* Theorems about Resilvering for any number of threads, cores and         *)
(* attempts: requests and the shard they use, and the databases a shard    *)
(* is opened with.                                                         *)
(***************************************************************************)
EXTENDS Resilvering, FiniteSetTheorems, TLAPS

-----------------------------------------------------------------------------
(* InFlightTracker and Shard: the invariant *)

OnCore(c) == {w \in Worker : worker[w].pc \in {"registered", "running"} /\ worker[w].core = c}

Running == {w \in Worker : worker[w].pc = "running"}

\* Steps of the finisher during which no request may start.
Stopped == {"spin", "detach", "supplant", "refuse", "install", "attach"}

FlightType ==
    /\ worker \in [Worker -> [pc : {"idle", "accepted", "registered", "running"}, core : 1..Cores]]
    /\ shard \in [group : BOOLEAN, threads : BOOLEAN, accepting : BOOLEAN, inFlight : [1..Cores -> Int]]
    /\ finisher \in [id : 0..MaxAttempts, step : Stopped \cup {"idle", "spinup"}, core : 1..Cores]
    /\ tracker.id \in 0..MaxAttempts /\ \A m \in wire : m.id \in Attempt

Counted == \A c \in 1..Cores : shard.inFlight[c] = Cardinality(OnCore(c))

\* The counters the finisher has read, and found zero, have no running request:
\* a request that registers there later sees that none are accepted.
StopInv ==
    /\ shard.accepting => shard.group
    /\ finisher.step \in Stopped => ~ shard.accepting
    /\ finisher.step \in {"spin", "detach", "spinup"} => shard.group
    /\ finisher.step \in Stopped \ {"spin", "detach"} => ~ shard.group
    /\ finisher.step = "spin" => \A w \in Running : worker[w].core >= finisher.core
    /\ finisher.step \in Stopped \ {"spin"} => Running = {}
    /\ Running # {} => shard.group

FlightInv == FlightType /\ Counted /\ StopInv

-----------------------------------------------------------------------------
(* Counters *)

LEMMA OnCoreFinite == \A c : IsFiniteSet(OnCore(c)) /\ Cardinality(OnCore(c)) \in Nat
<1> TAKE c
<1>1. IsFiniteSet(Worker) /\ OnCore(c) \subseteq Worker
  BY ResilveringAssumption DEF OnCore
<1> QED
  BY <1>1, FS_Subset, FS_CardinalityType

\* Requests register and leave one at a time.
LEMMA CountUp ==
    ASSUME FlightType, Counted, NEW w \in Worker, NEW c \in 1..Cores,
           worker[w].pc \notin {"registered", "running"},
           shard'.inFlight = [shard.inFlight EXCEPT ![c] = @ + 1],
           worker' = [worker EXCEPT ![w] = [pc |-> "registered", core |-> c]]
    PROVE  Counted'
<1> SUFFICES ASSUME NEW d \in 1..Cores
             PROVE  shard'.inFlight[d] = Cardinality(OnCore(d)')
  BY DEF Counted
<1>1. shard.inFlight[d] = Cardinality(OnCore(d)) /\ shard.inFlight \in [1..Cores -> Int]
  BY DEF Counted, FlightType
<1>2. CASE d = c
  <2>1. OnCore(d)' = OnCore(d) \cup {w} /\ w \notin OnCore(d)
    BY <1>2 DEF OnCore, FlightType
  <2>2. Cardinality(OnCore(d)') = Cardinality(OnCore(d)) + 1
    BY <2>1, OnCoreFinite, FS_AddElement
  <2> QED
    BY <1>1, <1>2, <2>2
<1>3. CASE d # c
  <2>1. OnCore(d)' = OnCore(d)
    BY <1>3 DEF OnCore, FlightType
  <2> QED
    BY <1>1, <1>3, <2>1
<1> QED
  BY <1>2, <1>3

LEMMA CountDown ==
    ASSUME FlightType, Counted, NEW w \in Worker,
           worker[w].pc \in {"registered", "running"},
           shard'.inFlight = [shard.inFlight EXCEPT ![worker[w].core] = @ - 1],
           worker' = [worker EXCEPT ![w] = Idle]
    PROVE  Counted'
<1> SUFFICES ASSUME NEW d \in 1..Cores
             PROVE  shard'.inFlight[d] = Cardinality(OnCore(d)')
  BY DEF Counted
<1> DEFINE c == worker[w].core
<1>1. /\ shard.inFlight[d] = Cardinality(OnCore(d)) /\ shard.inFlight \in [1..Cores -> Int]
      /\ c \in 1..Cores
  BY DEF Counted, FlightType
<1>2. CASE d = c
  <2>1. OnCore(d)' = OnCore(d) \ {w} /\ w \in OnCore(d)
    BY <1>2 DEF OnCore, FlightType, Idle
  <2>2. Cardinality(OnCore(d)') = Cardinality(OnCore(d)) - 1
    BY <2>1, OnCoreFinite, FS_RemoveElement
  <2> QED
    BY <1>1, <1>2, <2>2
<1>3. CASE d # c
  <2>1. OnCore(d)' = OnCore(d)
    BY <1>3 DEF OnCore, FlightType, Idle
  <2> QED
    BY <1>1, <1>3, <2>1
<1> QED
  BY <1>2, <1>3

LEMMA CountSame ==
    ASSUME Counted, shard'.inFlight = shard.inFlight,
           \A c \in 1..Cores : OnCore(c)' = OnCore(c)
    PROVE  Counted'
BY DEF Counted

-----------------------------------------------------------------------------
(* A counter that is zero has no running request. *)

LEMMA ZeroCounter ==
    ASSUME FlightType, Counted, NEW c \in 1..Cores, shard.inFlight[c] = 0
    PROVE  \A w \in Running : worker[w].core # c
<1>1. OnCore(c) = {}
  BY OnCoreFinite, FS_EmptySet DEF Counted
<1> QED
  BY <1>1 DEF OnCore, Running

-----------------------------------------------------------------------------
(* Every step *)

LEMMA BootedType ==
    ASSUME NEW db
    PROVE  /\ Booted(db) \in [group : BOOLEAN, threads : BOOLEAN, accepting : BOOLEAN,
                              inFlight : [1..Cores -> Int]]
           /\ Booted(db).accepting <=> CanOpen(db)
           /\ Booted(db).group <=> CanOpen(db)
           /\ Booted(db).inFlight = [c \in 1..Cores |-> 0]
<1>0. /\ Closed \in [group : BOOLEAN, threads : BOOLEAN, accepting : BOOLEAN, inFlight : [1..Cores -> Int]]
      /\ Closed.group = FALSE /\ Closed.accepting = FALSE /\ Closed.inFlight = [c \in 1..Cores |-> 0]
  BY DEF Closed
<1>1. CASE CanOpen(db)
  <2>1. Booted(db) = [Closed EXCEPT !.group = TRUE, !.accepting = TRUE, !.threads = TRUE]
    BY <1>1, <1>0 DEF Booted, spinup, attach, setAcceptingRequests
  <2> QED
    BY <1>0, <1>1, <2>1
<1>2. CASE ~ CanOpen(db)
  BY <1>0, <1>2 DEF Booted
<1> QED
  BY <1>1, <1>2

\* The tracker starts anew: nothing is counted and nobody runs.
LEMMA FlightStart ==
    ASSUME NEW db, shard' = Booted(db), finisher' = NoOne, worker' = [w \in Worker |-> Idle],
           tracker'.id \in 0..MaxAttempts, wire' = {}
    PROVE  FlightInv'
<1>1. FlightType'
  BY BootedType, ResilveringAssumption DEF FlightType, NoOne, Idle
<1>2. \A c : OnCore(c)' = {}
  BY DEF OnCore, Idle
<1>3. Counted'
  BY <1>2, BootedType, FS_EmptySet DEF Counted
<1>4. Running' = {}
  BY DEF Running, Idle
<1>5. finisher'.step = "idle"
  BY DEF NoOne
<1>6. StopInv'
  BY <1>4, <1>5, BootedType DEF StopInv, Stopped
<1> QED
  BY <1>1, <1>3, <1>6 DEF FlightInv

LEMMA FlightInit == Init => FlightInv
<1> SUFFICES ASSUME Init PROVE FlightInv
  OBVIOUS
<1> DEFINE db == Database(0, 1, 0, 1, 0)
<1>0. shard = Booted(db) /\ finisher = NoOne /\ worker = [w \in Worker |-> Idle] /\ wire = {} /\ tracker.id = 0
  BY DEF Init
<1> HIDE DEF db
<1>1. FlightType
  BY <1>0, BootedType, ResilveringAssumption DEF FlightType, NoOne, Idle
<1>2. \A c : OnCore(c) = {}
  BY <1>0 DEF OnCore, Idle
<1>3. Counted
  BY <1>0, <1>2, BootedType, FS_EmptySet DEF Counted
<1>4. Running = {}
  BY <1>0 DEF Running, Idle
<1>5. finisher.step = "idle"
  BY <1>0 DEF NoOne
<1>6. StopInv
  BY <1>0, <1>4, <1>5, BootedType DEF StopInv, Stopped
<1> QED
  BY <1>1, <1>3, <1>6 DEF FlightInv

\* Steps of the leader and copies leave the shard alone.
LEMMA FlightQuiet ==
    ASSUME FlightInv, UNCHANGED <<shard, finisher, worker>>,
           tracker'.id \in 0..MaxAttempts, \A m \in wire' : m.id \in Attempt
    PROVE  FlightInv'
<1>1. FlightType'
  BY DEF FlightInv, FlightType
<1>2. Counted'
  BY DEF FlightInv, Counted, OnCore
<1>3. StopInv'
  BY DEF FlightInv, StopInv, Running
<1> QED
  BY <1>1, <1>2, <1>3 DEF FlightInv

LEMMA FlightLeader ==
    ASSUME FlightInv,
           \/ SourceCommit \/ SourceApply \/ SourceTrim \/ Contact
           \/ \E a \in Attempt : Resilverer(a) \/ Fail(a)
           \/ \E m \in wire : resilveringStart(m) \/ resilveringCopy(m, TRUE) \/ resilveringCopy(m, FALSE)
    PROVE  FlightInv'
<1>0. tracker.id \in 0..MaxAttempts /\ \A m \in wire : m.id \in Attempt
  BY DEF FlightInv, FlightType
<1> DEFINE Kept == /\ UNCHANGED <<shard, finisher, worker>>
                   /\ tracker'.id \in 0..MaxAttempts /\ \A m \in wire' : m.id \in Attempt
<1>1. CASE SourceCommit \/ SourceApply \/ SourceTrim
  <2> Kept
    BY <1>0, <1>1 DEF SourceCommit, SourceApply, SourceTrim
  <2> QED
    BY FlightQuiet
<1>2. CASE Contact
  <2>1. UNCHANGED <<shard, finisher, worker>>
    BY <1>2 DEF Contact
  <2>2. CASE tracker.id < MaxAttempts /\ tracker' = [id |-> tracker.id + 1, alive |-> TRUE]
             /\ wire' = wire \cup {[id |-> tracker.id + 1, kind |-> "start", file |-> "none"]}
    <3> tracker'.id \in 0..MaxAttempts /\ \A m \in wire' : m.id \in Attempt
      BY <1>0, <2>2, ResilveringAssumption DEF Attempt
    <3> QED
      BY <2>1, FlightQuiet
  <2>3. CASE tracker' = [tracker EXCEPT !.alive = FALSE] /\ wire' = wire
    <3> tracker'.id \in 0..MaxAttempts
      BY <1>0, <2>3
    <3> QED
      BY <1>0, <2>1, <2>3, FlightQuiet
  <2> QED
    BY <1>2, <2>2, <2>3 DEF Contact
<1>3. ASSUME NEW a \in Attempt, Resilverer(a) \/ Fail(a) PROVE FlightInv'
  <2> SUFFICES Kept
    BY FlightQuiet
  <2>1. CASE Snapshot(a) \/ Succeed(a) \/ Fail(a)
    BY <1>0, <2>1 DEF Snapshot, Succeed, Fail
  <2>2. CASE SendNext(a)
    <3>1. UNCHANGED <<shard, finisher, worker, tracker>>
      BY <2>2 DEF SendNext
    <3>2. PICK x, y : wire' = wire \cup {[id |-> a, kind |-> x, file |-> y]}
      BY <2>2, Zenon DEF SendNext
    <3> QED
      BY <1>0, <3>1, <3>2
  <2> QED
    BY <1>3, <2>1, <2>2 DEF Resilverer
<1>4. ASSUME NEW m \in wire, resilveringStart(m) \/ resilveringCopy(m, TRUE) \/ resilveringCopy(m, FALSE)
      PROVE  FlightInv'
  <2> Kept
    BY <1>0, <1>4 DEF resilveringStart, resilveringCopy
  <2> QED
    BY FlightQuiet
<1> QED
  BY <1>1, <1>2, <1>3, <1>4

\* The finisher's own steps leave the requests alone.
LEMMA FlightFinisher ==
    ASSUME FlightInv,
           (\E m \in wire : FinishBegin(m)) \/ Spin \/ Detach \/ Supplant \/ Install \/ Attach \/ Spinup
    PROVE  FlightInv'
<1>0. FlightType /\ Counted /\ StopInv
  BY DEF FlightInv
<1>a. /\ finisher.id \in 0..MaxAttempts /\ finisher.core \in 1..Cores
      /\ finisher.step \in Stopped \cup {"idle", "spinup"}
  BY <1>0 DEF FlightType
<1> DEFINE Kept == /\ UNCHANGED worker /\ shard'.inFlight = shard.inFlight
                   /\ tracker'.id \in 0..MaxAttempts /\ wire' \subseteq wire
                   /\ shard' \in [group : BOOLEAN, threads : BOOLEAN, accepting : BOOLEAN,
                                  inFlight : [1..Cores -> Int]]
<1>b. Kept
  <2>0. tracker.id \in 0..MaxAttempts /\ shard \in [group : BOOLEAN, threads : BOOLEAN,
                                                     accepting : BOOLEAN, inFlight : [1..Cores -> Int]]
    BY <1>0 DEF FlightType
  <2>1. ASSUME NEW m \in wire, FinishBegin(m) PROVE Kept
    BY <2>0, <2>1 DEF FinishBegin, setAcceptingRequests
  <2>2. CASE Spin \/ Supplant \/ Install
    BY <2>0, <2>2 DEF Spin, Supplant, Install
  <2>3. CASE Detach
    BY <2>0, <2>3 DEF Detach, detach
  <2>4. CASE Attach
    BY <2>0, <2>4 DEF Attach, attach, setAcceptingRequests
  <2>5. CASE Spinup
    BY <2>0, <2>5 DEF Spinup, spinup
  <2> QED
    BY <2>1, <2>2, <2>3, <2>4, <2>5
<1>c. Counted'
  BY <1>0, <1>b DEF Counted, OnCore
<1>d. Running' = Running
  BY <1>b DEF Running
<1> DEFINE Goal == /\ finisher' \in [id : 0..MaxAttempts, step : Stopped \cup {"idle", "spinup"}, core : 1..Cores]
                   /\ StopInv'
<1>e. SUFFICES Goal
  BY <1>0, <1>b, <1>c DEF FlightInv, FlightType
<1>1. ASSUME NEW m \in wire, FinishBegin(m) PROVE Goal
  <2>1. finisher' = [id |-> m.id, step |-> "spin", core |-> 1] /\ shard.group
        /\ shard'.accepting = FALSE /\ shard'.group = shard.group
    BY <1>0, <1>1 DEF FinishBegin, setAcceptingRequests, FlightType
  <2>2. m.id \in 0..MaxAttempts /\ 1 \in 1..Cores
    BY <1>0, ResilveringAssumption DEF FlightType, Attempt
  <2>3. \A w \in Running : worker'[w].core >= finisher'.core
    BY <1>0, <1>b, <2>1 DEF Running, FlightType
  <2> QED
    BY <1>d, <2>1, <2>2, <2>3 DEF StopInv, Stopped
<1>2. CASE Spin
  <2> DEFINE c == finisher.core
  <2>0. /\ finisher.step = "spin" /\ shard' = shard
        /\ finisher' = IF shard.inFlight[c] # 0 THEN [finisher EXCEPT !.core = 1]
                       ELSE IF c < Cores THEN [finisher EXCEPT !.core = c + 1]
                       ELSE [finisher EXCEPT !.step = "detach"]
    BY <1>2 DEF Spin
  <2>1. /\ shard.group /\ ~ shard.accepting /\ \A w \in Running : worker[w].core >= c
    BY <1>0, <2>0 DEF StopInv, Stopped
  <2>2. \A w \in Running : worker[w].core \in 1..Cores
    BY <1>0 DEF Running, FlightType
  <2>3. c \in 1..Cores /\ Cores \in Nat \ {0}
    BY <1>a, ResilveringAssumption
  <2>4. finisher' \in [id : 0..MaxAttempts, step : Stopped \cup {"idle", "spinup"}, core : 1..Cores]
    BY <1>0, <2>0, <2>3 DEF FlightType, Stopped
  <2>5. CASE shard.inFlight[c] # 0
    <3>1. finisher'.step = "spin" /\ finisher'.core = 1
      BY <1>0, <2>0, <2>5 DEF FlightType
    <3> QED
      BY <1>b, <1>d, <2>0, <2>1, <2>2, <2>4, <3>1 DEF StopInv, Stopped
  <2>6. CASE shard.inFlight[c] = 0
    <3>1. \A w \in Running : worker[w].core > c
      BY <1>0, <2>1, <2>2, <2>3, <2>6, ZeroCounter
    <3>2. CASE c < Cores
      <4>1. finisher'.step = "spin" /\ finisher'.core = c + 1
        BY <1>0, <2>0, <2>6, <3>2 DEF FlightType
      <4>2. \A w \in Running : worker[w].core >= c + 1
        BY <2>2, <2>3, <3>1
      <4> HIDE DEF c
      <4> QED
        BY <1>b, <1>d, <2>0, <2>1, <2>4, <4>1, <4>2 DEF StopInv, Stopped
    <3>3. CASE ~ (c < Cores)
      <4>1. finisher'.step = "detach"
        BY <1>0, <2>0, <2>6, <3>3 DEF FlightType
      <4>2. Running = {}
        BY <2>2, <2>3, <3>1, <3>3
      <4> QED
        BY <1>d, <2>0, <2>1, <2>4, <4>1, <4>2 DEF StopInv, Stopped
    <3> QED
      BY <3>2, <3>3
  <2> QED
    BY <2>5, <2>6
<1>3. CASE Detach
  <2>1. /\ finisher.step = "detach" /\ finisher'.step \in {"supplant", "refuse"}
        /\ finisher' = [finisher EXCEPT !.step = finisher'.step]
        /\ shard'.accepting = shard.accepting /\ shard'.group = FALSE
    BY <1>0, <1>3 DEF Detach, detach, FlightType
  <2>2. Running = {} /\ ~ shard.accepting
    BY <1>0, <2>1 DEF StopInv, Stopped
  <2>3. finisher' \in [id : 0..MaxAttempts, step : Stopped \cup {"idle", "spinup"}, core : 1..Cores]
    BY <1>0, <2>1 DEF FlightType, Stopped
  <2> QED
    BY <1>d, <2>1, <2>2, <2>3 DEF StopInv, Stopped
<1>4. CASE Supplant \/ Install
  <2>1. /\ finisher.step \in {"supplant", "install"} /\ finisher'.step \in {"install", "attach"}
        /\ finisher' = [finisher EXCEPT !.step = finisher'.step]
        /\ shard' = shard
    BY <1>0, <1>4 DEF Supplant, Install, FlightType
  <2>2. Running = {} /\ ~ shard.accepting /\ ~ shard.group
    BY <1>0, <2>1 DEF StopInv, Stopped
  <2>3. finisher' \in [id : 0..MaxAttempts, step : Stopped \cup {"idle", "spinup"}, core : 1..Cores]
    BY <1>0, <2>1 DEF FlightType, Stopped
  <2> QED
    BY <1>d, <2>1, <2>2, <2>3 DEF StopInv, Stopped
<1>5. CASE Attach
  <2>1. /\ finisher' = [finisher EXCEPT !.step = "spinup"]
        /\ shard'.accepting = TRUE /\ shard'.group = TRUE
    BY <1>0, <1>5 DEF Attach, attach, setAcceptingRequests, FlightType
  <2>3. /\ finisher' \in [id : 0..MaxAttempts, step : Stopped \cup {"idle", "spinup"}, core : 1..Cores]
        /\ finisher'.step = "spinup"
    BY <1>0, <2>1 DEF FlightType, Stopped
  <2> QED
    BY <1>d, <2>1, <2>3 DEF StopInv, Stopped
<1>6. CASE Spinup
  <2>1. /\ finisher.step = "spinup" /\ finisher' = NoOne
        /\ shard'.accepting = shard.accepting /\ shard'.group = shard.group
    BY <1>0, <1>6 DEF Spinup, spinup, FlightType
  <2>2. shard.group
    BY <1>0, <2>1 DEF StopInv, Stopped
  <2>3. /\ finisher' \in [id : 0..MaxAttempts, step : Stopped \cup {"idle", "spinup"}, core : 1..Cores]
        /\ finisher'.step = "idle"
    BY <2>1, ResilveringAssumption DEF NoOne, Stopped
  <2> QED
    BY <1>d, <2>1, <2>2, <2>3 DEF StopInv, Stopped
<1> QED
  BY <1>1, <1>2, <1>3, <1>4, <1>5, <1>6

LEMMA FlightRequest ==
    ASSUME FlightInv, NEW w \in Worker, Arrive(w) \/ Threads(w)
    PROVE  FlightInv'
<1>0. FlightType /\ Counted /\ StopInv
  BY DEF FlightInv
<1>a. /\ UNCHANGED <<tracker, wire, finisher>>
      /\ shard'.group = shard.group /\ shard'.accepting = shard.accepting
  BY <1>0 DEF Arrive, Threads, Register, Recheck, Serve, up, down, FlightType
<1>b. worker[w] \in [pc : {"idle", "accepted", "registered", "running"}, core : 1..Cores]
  BY <1>0 DEF FlightType
<1>c. /\ shard \in [group : BOOLEAN, threads : BOOLEAN, accepting : BOOLEAN, inFlight : [1..Cores -> Int]]
      /\ shard.inFlight \in [1..Cores -> Int]
  BY <1>0 DEF FlightType
<1> DEFINE Goal == /\ worker' \in [Worker -> [pc : {"idle", "accepted", "registered", "running"}, core : 1..Cores]]
                   /\ shard' \in [group : BOOLEAN, threads : BOOLEAN, accepting : BOOLEAN,
                                  inFlight : [1..Cores -> Int]]
                   /\ Counted' /\ StopInv'
<1>d. SUFFICES Goal
  BY <1>0, <1>a DEF FlightInv, FlightType
\* Fewer requests run: nothing the finisher relies on is disturbed.
<1>e. ASSUME Running' \subseteq Running, \A v \in Running' : worker'[v] = worker[v] PROVE StopInv'
  BY <1>0, <1>a, <1>e DEF StopInv
<1>1. CASE Arrive(w)
  <2>1. worker' = [worker EXCEPT ![w].pc = "accepted"] /\ shard' = shard /\ worker[w].pc = "idle"
    BY <1>1 DEF Arrive
  <2>2. worker' \in [Worker -> [pc : {"idle", "accepted", "registered", "running"}, core : 1..Cores]]
    BY <1>0, <2>1 DEF FlightType
  <2>3. \A c : OnCore(c)' = OnCore(c)
    BY <1>0, <2>1 DEF OnCore, FlightType
  <2>4. Running' \subseteq Running /\ \A v \in Running' : worker'[v] = worker[v]
    BY <1>0, <2>1 DEF Running, FlightType
  <2> QED
    BY <1>0, <1>c, <1>e, <2>1, <2>2, <2>3, <2>4, CountSame
<1>2. ASSUME NEW c \in 1..Cores, Register(w, c) PROVE Goal
  <2>1. /\ worker' = [worker EXCEPT ![w] = [pc |-> "registered", core |-> c]]
        /\ shard' = [shard EXCEPT !.inFlight[c] = @ + 1] /\ worker[w].pc = "accepted"
    BY <1>2 DEF Register, up
  <2>2. worker' \in [Worker -> [pc : {"idle", "accepted", "registered", "running"}, core : 1..Cores]]
    BY <1>0, <2>1 DEF FlightType
  <2>3. /\ shard'.inFlight = [shard.inFlight EXCEPT ![c] = @ + 1]
        /\ shard' \in [group : BOOLEAN, threads : BOOLEAN, accepting : BOOLEAN, inFlight : [1..Cores -> Int]]
    <3> DEFINE f == [shard.inFlight EXCEPT ![c] = @ + 1]
    <3>0. PICK g : g = shard.inFlight
      OBVIOUS
    <3>a. g \in [1..Cores -> Int]
      BY <1>c, <3>0
    <3>b. c \in 1..Cores
      BY <1>b
    <3>c. g[c] \in Int
      BY <3>a, <3>b
    <3>d. g[c] + 1 \in Int
      BY <3>c
    <3>1. f \in [1..Cores -> Int]
      BY <3>0, <3>a, <3>d
    <3>2. shard' = [shard EXCEPT !.inFlight = f]
      BY <1>c, <2>1
    <3> HIDE DEF f
    <3>3. shard' \in [group : BOOLEAN, threads : BOOLEAN, accepting : BOOLEAN, inFlight : [1..Cores -> Int]] /\ shard'.inFlight = f
      BY <1>c, <3>1, <3>2
    <3> QED
      BY <3>3 DEF f
  <2>4. Running' \subseteq Running /\ \A v \in Running' : worker'[v] = worker[v]
    BY <1>0, <2>1 DEF Running, FlightType
  <2>5. Counted'
    BY <1>0, <2>1, <2>3, CountUp
  <2> QED
    BY <1>e, <2>2, <2>3, <2>4, <2>5
<1>3. CASE \/ Recheck(w) /\ ~ StillAccepting
           \/ Serve(w)
  <2>1. /\ worker' = [worker EXCEPT ![w] = Idle] /\ worker[w].pc \in {"registered", "running"}
        /\ shard' = [shard EXCEPT !.inFlight[worker[w].core] = @ - 1]
    BY <1>3 DEF Recheck, Serve, down
  <2>2. worker' \in [Worker -> [pc : {"idle", "accepted", "registered", "running"}, core : 1..Cores]]
    BY <1>0, <2>1, ResilveringAssumption DEF FlightType, Idle
  <2>3. /\ shard'.inFlight = [shard.inFlight EXCEPT ![worker[w].core] = @ - 1]
        /\ shard' \in [group : BOOLEAN, threads : BOOLEAN, accepting : BOOLEAN, inFlight : [1..Cores -> Int]]
    <3> DEFINE f == [shard.inFlight EXCEPT ![worker[w].core] = @ - 1]
    <3>0. PICK g : g = shard.inFlight
      OBVIOUS
    <3>a. g \in [1..Cores -> Int]
      BY <1>c, <3>0
    <3>b. worker[w].core \in 1..Cores
      BY <1>b
    <3>c. g[worker[w].core] \in Int
      BY <3>a, <3>b
    <3>d. g[worker[w].core] - 1 \in Int
      BY <3>c
    <3>1. f \in [1..Cores -> Int]
      BY <3>0, <3>a, <3>d
    <3>2. shard' = [shard EXCEPT !.inFlight = f]
      BY <1>c, <2>1
    <3> HIDE DEF f
    <3>3. shard' \in [group : BOOLEAN, threads : BOOLEAN, accepting : BOOLEAN, inFlight : [1..Cores -> Int]] /\ shard'.inFlight = f
      BY <1>c, <3>1, <3>2
    <3> QED
      BY <3>3 DEF f
  <2>4. Running' \subseteq Running /\ \A v \in Running' : worker'[v] = worker[v]
    BY <1>0, <2>1 DEF Running, FlightType, Idle
  <2>5. Counted'
    BY <1>0, <2>1, <2>3, CountDown
  <2> QED
    BY <1>e, <2>2, <2>3, <2>4, <2>5
<1>4. CASE Recheck(w) /\ StillAccepting
  <2>1. /\ worker' = [worker EXCEPT ![w].pc = "running"] /\ worker[w].pc = "registered"
        /\ shard' = shard /\ shard.accepting
    BY <1>4 DEF Recheck, StillAccepting
  <2>2. worker' \in [Worker -> [pc : {"idle", "accepted", "registered", "running"}, core : 1..Cores]]
    BY <1>0, <2>1 DEF FlightType
  <2>3. \A c : OnCore(c)' = OnCore(c)
    BY <1>0, <2>1 DEF OnCore, FlightType
  <2>4. shard.group /\ finisher.step \notin Stopped
    BY <1>0, <2>1 DEF StopInv
  <2>5. StopInv'
    BY <1>a, <2>1, <2>4 DEF StopInv, Stopped
  <2> QED
    BY <1>0, <1>c, <2>1, <2>2, <2>3, <2>5, CountSame
<1> QED
  BY <1>1, <1>2, <1>3, <1>4 DEF Threads

LEMMA FlightStep == FlightInv /\ [Next]_vars => FlightInv'
<1> SUFFICES ASSUME FlightInv, [Next]_vars PROVE FlightInv'
  OBVIOUS
<1>0. tracker.id \in 0..MaxAttempts /\ \A m \in wire : m.id \in Attempt
  BY DEF FlightInv, FlightType
<1>1. CASE Crash
  BY <1>0, <1>1, FlightStart DEF Crash
<1>2. CASE UNCHANGED vars
  BY <1>0, <1>2, FlightQuiet DEF vars
<1> QED
  BY <1>1, <1>2, FlightLeader, FlightFinisher, FlightRequest DEF Next, Handler

\* However requests interleave with the handler of QUARKDB_FINISH_RESILVERING, for
\* any number of threads and of counters: once Shard::detach has taken the group
\* apart, no request that passed InFlightTracker::up is still running.
THEOREM NoUseAfterDetachCorrect == Spec => []NoUseAfterDetach
<1>1. Spec => []FlightInv
  BY FlightInit, FlightStep, PTL DEF Spec
<1>2. FlightInv => NoUseAfterDetach
  BY DEF FlightInv, StopInv, NoUseAfterDetach, Running
<1> QED
  BY <1>1, <1>2, PTL

-----------------------------------------------------------------------------
(* Databases: the invariant *)

JournalType == [term : Nat, start : Nat, size : Nat, commit : Nat]
Databases == UNION {[D -> Nat \cup JournalType] : D \in SUBSET Files}
Active == {"starting", "copying", "finishing"}

DataType ==
    /\ source \in Databases
    /\ tracker \in [id : 0..MaxAttempts, alive : BOOLEAN]
    /\ attempt \in [Attempt -> [state : Active \cup {"none", "failed", "succeeded"}, snapshot : Databases,
                                sent : SUBSET Files, answer : {"none", "ok", "error"}]]
    /\ wire \subseteq [id : Attempt, kind : {"start", "copy", "finish"}, file : Files \cup {"none"}]
    /\ disk \in [current : Databases, arena : [Attempt -> Databases],
                 made : SUBSET Attempt, supplanted : SUBSET Attempt]

\* A database a node can continue with.
Whole(db) ==
    /\ DOMAIN db = Files /\ db["state-machine"] \in Nat /\ Journal(db) \in JournalType
    /\ Usable(db) /\ Journal(db).start <= Journal(db).size

SourceOK ==
    /\ Whole(source) /\ Journal(source).start <= Applied(source)
    /\ Journal(source).commit + 1 = Journal(source).size

\* As long as the state machine's checkpoint waits for the journal's, the journal
\* is not trimmed beyond it, since the attempt that took it holds a trimming block.
SnapshotOK(r) ==
    /\ "state-machine" \in DOMAIN r.snapshot => r.snapshot["state-machine"] \in Nat
    /\ "raft-journal" \in DOMAIN r.snapshot => Whole(r.snapshot)
    /\ r.state = "starting" /\ "state-machine" \in DOMAIN r.snapshot =>
          /\ Journal(source).start <= r.snapshot["state-machine"] + 1
          /\ r.snapshot["state-machine"] <= Applied(source)
    /\ r.state \in {"copying", "finishing"} => DOMAIN r.snapshot = Files

\* What the target has of an attempt is what was taken; what is acknowledged has
\* arrived.
ArenaOK(r, db) ==
    /\ r.state = "none" => r.snapshot = Missing /\ r.answer = "none" /\ db = Missing
    /\ r.state \in {"none", "starting"} => r.sent = {}
    /\ r.state # "succeeded" => \A f \in DOMAIN db : f \in DOMAIN r.snapshot /\ db[f] = r.snapshot[f]
    /\ r.state = "copying" /\ r.answer = "ok" => r.sent \subseteq DOMAIN db

\* At most one attempt is under way, the one the tracker holds.
AttemptOK(a) ==
    /\ attempt[a].state \in Active => tracker.alive /\ tracker.id = a
    /\ a > tracker.id => attempt[a].state = "none"
    /\ SnapshotOK(attempt[a]) /\ ArenaOK(attempt[a], disk.arena[a])

\* A request is the last one of its attempt and has no answer yet.
RequestOK(m, r, db) ==
    /\ r.answer = "none"
    /\ m.kind = "start" => r.state \in {"starting", "failed"}
    /\ m.kind = "copy" => /\ r.state \in {"copying", "failed"} /\ m.file \in Files
                          /\ DOMAIN r.snapshot = Files /\ r.sent \ {m.file} \subseteq DOMAIN db
    /\ m.kind = "finish" => r.state \in {"finishing", "failed"} /\ DOMAIN db = Files

WireOK ==
    /\ \A m \in wire : RequestOK(m, attempt[m.id], disk.arena[m.id])
    /\ \A m, n \in wire : m.id = n.id => m = n
    /\ finisher.step \in Stopped => \A m \in wire : m.id # finisher.id

FinisherOK ==
    /\ finisher.step # "idle" => finisher.id \in Attempt
    /\ finisher.step \in Stopped => /\ attempt[finisher.id].answer = "none"
                                    /\ attempt[finisher.id].state \in {"finishing", "failed"}
    /\ finisher.step \in {"spin", "detach", "supplant", "install"} => DOMAIN disk.arena[finisher.id] = Files

CurrentOK ==
    /\ CanOpen(disk.current) => Whole(disk.current)
    /\ shard.group \/ finisher.step \in {"supplant", "refuse", "attach"} => Whole(disk.current)

DataInv ==
    /\ DataType /\ SourceOK /\ \A a \in Attempt : AttemptOK(a)
    /\ WireOK /\ FinisherOK /\ CurrentOK

-----------------------------------------------------------------------------
(* Databases: files *)

LEMMA DatabaseParts ==
    ASSUME NEW db \in Databases
    PROVE  DOMAIN db \subseteq Files /\ \A f \in DOMAIN db : db[f] \in Nat \cup JournalType
<1>1. PICK D \in SUBSET Files : db \in [D -> Nat \cup JournalType]
  BY DEF Databases
<1> QED
  BY <1>1

LEMMA MissingType == Missing \in Databases /\ DOMAIN Missing = {}
<1>1. Missing \in [{} -> Nat \cup JournalType] /\ {} \in SUBSET Files /\ DOMAIN Missing = {}
  BY DEF Missing
<1> QED
  BY <1>1 DEF Databases

LEMMA WithFileParts ==
    ASSUME NEW db, NEW f, NEW contents
    PROVE  /\ DOMAIN WithFile(db, f, contents) = DOMAIN db \cup {f}
           /\ WithFile(db, f, contents)[f] = contents
           /\ \A g \in DOMAIN db : g # f => WithFile(db, f, contents)[g] = db[g]
BY DEF WithFile

LEMMA WithFileWhole ==
    ASSUME NEW db, DOMAIN db = Files, NEW contents
    PROVE  /\ DOMAIN WithFile(db, "raft-journal", contents) = Files
           /\ WithFile(db, "raft-journal", contents)["raft-journal"] = contents
           /\ WithFile(db, "raft-journal", contents)["state-machine"] = db["state-machine"]
           /\ DOMAIN WithFile(db, "state-machine", contents) = Files
           /\ WithFile(db, "state-machine", contents)["state-machine"] = contents
           /\ WithFile(db, "state-machine", contents)["raft-journal"] = db["raft-journal"]
<1>1. "raft-journal" \in Files /\ "state-machine" \in Files /\ "raft-journal" # "state-machine"
  BY DEF Files
<1>2. \A f \in Files : Files \cup {f} = Files
  OBVIOUS
<1>3. ASSUME NEW f \in Files, NEW g \in Files, f # g
      PROVE  /\ DOMAIN WithFile(db, f, contents) = Files
             /\ WithFile(db, f, contents)[f] = contents /\ WithFile(db, f, contents)[g] = db[g]
  <2>1. Files \cup {f} = Files
    BY <1>2
  <2>2. DOMAIN WithFile(db, f, contents) = Files
    BY <2>1 DEF WithFile
  <2> QED
    BY <1>3, <2>2 DEF WithFile
<1> QED
  BY <1>1, <1>3

LEMMA WithFileType ==
    ASSUME NEW db \in Databases, NEW f \in Files, NEW contents \in Nat \cup JournalType
    PROVE  WithFile(db, f, contents) \in Databases
<1> DEFINE D == DOMAIN db \cup {f}
<1>1. D \in SUBSET Files /\ \A g \in DOMAIN db : db[g] \in Nat \cup JournalType
  BY DatabaseParts
<1>2. WithFile(db, f, contents) \in [D -> Nat \cup JournalType]
  BY <1>1 DEF WithFile
<1> QED
  BY <1>1, <1>2 DEF Databases

LEMMA DatabaseType ==
    ASSUME NEW applied \in Nat, NEW term \in Nat, NEW start \in Nat, NEW size \in Nat, NEW commit \in Nat
    PROVE  LET db == Database(applied, term, start, size, commit) IN
           /\ db \in Databases /\ DOMAIN db = Files /\ db["state-machine"] = applied /\ Applied(db) = applied
           /\ Journal(db) = [term |-> term, start |-> start, size |-> size, commit |-> commit]
           /\ Journal(db) \in JournalType
<1> DEFINE db == Database(applied, term, start, size, commit)
           j == [term |-> term, start |-> start, size |-> size, commit |-> commit]
<1>1. j \in JournalType
  BY DEF JournalType
<1>2. db = [f \in Files |-> IF f = "state-machine" THEN applied ELSE j]
  BY DEF Database
<1> HIDE DEF db, j
<1>3. db \in [Files -> Nat \cup JournalType] /\ Files \in SUBSET Files
  BY <1>1, <1>2
<1>4. db["state-machine"] = applied /\ db["raft-journal"] = j /\ DOMAIN db = Files
  BY <1>2 DEF Files
<1>5. db \in Databases
  BY <1>3 DEF Databases
<1>6. Applied(db) = applied /\ Journal(db) = j
  BY <1>4 DEF Applied, Journal, Files
<1> QED
  BY <1>1, <1>4, <1>5, <1>6 DEF db, j

LEMMA DataInit == Init => DataInv
<1> SUFFICES ASSUME Init PROVE DataInv
  OBVIOUS
<1> DEFINE s == Database(Step + 1, 1, Step, Step + 2, Step + 1)
           d == Database(0, 1, 0, 1, 0)
<1>0. Step \in Nat /\ 1 \in Nat /\ Step + 1 \in Nat /\ Step + 2 \in Nat
  BY ResilveringAssumption
<1>1. /\ s \in Databases /\ DOMAIN s = Files /\ s["state-machine"] = Step + 1 /\ Applied(s) = Step + 1
      /\ Journal(s) = [term |-> 1, start |-> Step, size |-> Step + 2, commit |-> Step + 1]
      /\ Journal(s) \in JournalType
  BY ONLY <1>0, DatabaseType, Zenon
<1>2. /\ d \in Databases /\ DOMAIN d = Files /\ d["state-machine"] = 0 /\ Applied(d) = 0
      /\ Journal(d) = [term |-> 1, start |-> 0, size |-> 1, commit |-> 0]
      /\ Journal(d) \in JournalType
  BY DatabaseType
<1> HIDE DEF s, d
<1>3. /\ source = s /\ tracker = [id |-> 0, alive |-> FALSE] /\ wire = {} /\ finisher = NoOne
      /\ attempt = [a \in Attempt |-> [state |-> "none", snapshot |-> Missing, sent |-> {}, answer |-> "none"]]
      /\ disk = [current |-> d, arena |-> [a \in Attempt |-> Missing], made |-> {}, supplanted |-> {}]
  BY DEF Init, s, d
<1>4. Whole(s) /\ Journal(s).start <= Applied(s) /\ Journal(s).commit + 1 = Journal(s).size
  BY <1>0, <1>1 DEF Whole, Usable
<1>5. Whole(d)
  BY <1>2 DEF Whole, Usable
<1>6. DataType
  <2>1. source \in Databases /\ tracker \in [id : 0..MaxAttempts, alive : BOOLEAN] /\ wire = {}
    BY <1>1, <1>3, ResilveringAssumption
  <2>2. attempt \in [Attempt -> [state : Active \cup {"none", "failed", "succeeded"}, snapshot : Databases,
                                 sent : SUBSET Files, answer : {"none", "ok", "error"}]]
    BY <1>3, MissingType
  <2>3. disk \in [current : Databases, arena : [Attempt -> Databases],
                  made : SUBSET Attempt, supplanted : SUBSET Attempt]
    BY <1>2, <1>3, MissingType
  <2> QED
    BY <2>1, <2>2, <2>3 DEF DataType
<1>7. ASSUME NEW a \in Attempt PROVE AttemptOK(a)
  <2>1. /\ attempt[a] = [state |-> "none", snapshot |-> Missing, sent |-> {}, answer |-> "none"]
        /\ disk.arena[a] = Missing
    BY <1>3
  <2>2. SnapshotOK(attempt[a]) /\ ArenaOK(attempt[a], disk.arena[a])
    BY <2>1, MissingType DEF SnapshotOK, ArenaOK
  <2> QED
    BY <2>1, <2>2 DEF AttemptOK, Active
<1>8. SourceOK /\ CurrentOK /\ finisher.step = "idle"
  BY <1>3, <1>4, <1>5 DEF SourceOK, CurrentOK, NoOne
<1>9. WireOK /\ FinisherOK
  BY <1>3, <1>8 DEF WireOK, FinisherOK, Stopped
<1> QED
  BY <1>6, <1>7, <1>8, <1>9 DEF DataInv

-----------------------------------------------------------------------------
(* Databases: the leader *)

LEMMA DataParts ==
    ASSUME DataInv
    PROVE  /\ DataType /\ SourceOK /\ (\A a \in Attempt : AttemptOK(a)) /\ WireOK /\ FinisherOK /\ CurrentOK
           /\ source \in Databases /\ tracker.id \in 0..MaxAttempts
           /\ \A m \in wire : m.id \in Attempt /\ m.kind \in {"start", "copy", "finish"}
<1>1. DataType
  BY DEF DataInv
<1>2. tracker.id \in 0..MaxAttempts /\ \A m \in wire : m.id \in Attempt /\ m.kind \in {"start", "copy", "finish"}
  BY <1>1 DEF DataType
<1> QED
  BY <1>1, <1>2 DEF DataInv, DataType

\* The leader's own database moves on; it is trimmed only while no attempt is under way.
LEMMA SourceMoves ==
    ASSUME DataInv, UNCHANGED <<tracker, attempt, wire, disk, shard, finisher>>,
           source' \in Databases, SourceOK', Applied(source) <= Applied(source'),
           ~ tracker.alive \/ Journal(source').start = Journal(source).start
    PROVE  DataInv'
<1>0. DataType /\ SourceOK /\ (\A a \in Attempt : AttemptOK(a)) /\ WireOK /\ FinisherOK /\ CurrentOK
  BY DataParts
<1>1. DataType'
  BY <1>0 DEF DataType
<1>2. WireOK' /\ FinisherOK' /\ CurrentOK'
  BY <1>0 DEF WireOK, FinisherOK, CurrentOK
<1>3. /\ Applied(source) \in Nat /\ Applied(source') \in Nat
  <2>1. Whole(source) /\ Whole(source')
    BY <1>0 DEF SourceOK
  <2> QED
    BY <2>1 DEF Whole, Applied, Files
<1>4. ASSUME NEW a \in Attempt PROVE AttemptOK(a)'
  <2>1. AttemptOK(a)
    BY <1>0
  <2>2. attempt[a].state = "starting" => Journal(source').start = Journal(source).start
    BY <2>1 DEF AttemptOK, Active
  <2>3. SnapshotOK(attempt[a])'
    BY <1>3, <2>1, <2>2 DEF AttemptOK, SnapshotOK
  <2> QED
    BY <2>1, <2>3 DEF AttemptOK
<1> QED
  BY <1>1, <1>2, <1>4 DEF DataInv

LEMMA DataSource ==
    ASSUME DataInv, SourceCommit \/ SourceApply \/ SourceTrim
    PROVE  DataInv'
<1> DEFINE j == Journal(source)
<1>0. /\ SourceOK /\ source \in Databases
      /\ UNCHANGED <<tracker, attempt, wire, disk, shard, finisher>>
  BY DataParts DEF SourceCommit, SourceApply, SourceTrim
<1>1. /\ DOMAIN source = Files /\ source["state-machine"] \in Nat /\ Applied(source) = source["state-machine"]
      /\ j \in JournalType /\ source["raft-journal"] = j
  BY <1>0 DEF SourceOK, Whole, Applied, Files, Journal
<1>2. /\ j.start \in Nat /\ j.size \in Nat /\ j.commit \in Nat
      /\ j.start <= Applied(source) /\ Applied(source) <= j.commit /\ j.commit + 1 = j.size
  BY <1>0, <1>1 DEF SourceOK, Whole, Usable, JournalType
<1>3. CASE SourceCommit \/ SourceTrim
  <2>1. PICK k \in JournalType : /\ source' = WithFile(source, "raft-journal", k)
                                 /\ k.start <= Applied(source) /\ Applied(source) <= k.commit
                                 /\ k.commit + 1 = k.size
                                 /\ ~ tracker.alive \/ k.start = j.start
    <3>1. CASE SourceCommit
      <4> DEFINE k == [j EXCEPT !.size = @ + Batch, !.commit = @ + Batch]
      <4>0. j.size + Batch \in Nat /\ j.commit + Batch \in Nat
        BY <1>2, ResilveringAssumption
      <4>1. k \in JournalType /\ k.start = j.start /\ k.size = j.size + Batch /\ k.commit = j.commit + Batch
        <5> HIDE DEF j
        <5> QED
          BY <1>1, <4>0 DEF JournalType
      <4>2. source' = WithFile(source, "raft-journal", k)
        BY <3>1 DEF SourceCommit
      <4> HIDE DEF k, j
      <4> QED
        BY <1>1, <1>2, <4>1, <4>2, ResilveringAssumption
    <3>2. CASE SourceTrim
      <4> DEFINE k == [j EXCEPT !.start = j.start + Step]
      <4>1. k \in JournalType /\ k.start = j.start + Step /\ k.size = j.size /\ k.commit = j.commit
        BY <1>1, <1>2, ResilveringAssumption DEF JournalType
      <4>2. source' = WithFile(source, "raft-journal", k) /\ Applied(source) > j.start + Step /\ ~ tracker.alive
        BY <3>2 DEF SourceTrim, canTrimUntil
      <4> HIDE DEF k, j
      <4> QED
        BY <1>1, <1>2, <4>1, <4>2, ResilveringAssumption
    <3> QED
      BY <1>3, <3>1, <3>2
  <2>2. /\ DOMAIN source' = Files /\ source'["raft-journal"] = k /\ source'["state-machine"] = source["state-machine"]
    BY ONLY <1>1, <2>1, WithFileWhole, Zenon
  <2>3. source' \in Databases
    BY <1>0, <2>1, WithFileType DEF Files
  <2>4. Journal(source') = k /\ Applied(source') = Applied(source)
    BY <1>1, <2>2 DEF Journal, Applied, Files
  <2>5. k.start \in Nat /\ k.size \in Nat /\ k.commit \in Nat
    BY DEF JournalType
  <2>6. Whole(source')
    BY <1>1, <1>2, <2>1, <2>2, <2>4, <2>5 DEF Whole, Usable
  <2>7. SourceOK'
    BY <2>1, <2>4, <2>6 DEF SourceOK
  <2>8. Applied(source) <= Applied(source')
    BY <1>1, <2>4
  <2> QED
    BY <1>0, <2>1, <2>3, <2>4, <2>7, <2>8, SourceMoves
<1>4. CASE SourceApply
  <2>1. source' = WithFile(source, "state-machine", j.commit)
    BY <1>4 DEF SourceApply
  <2>2. /\ DOMAIN source' = Files /\ source'["raft-journal"] = j /\ source'["state-machine"] = j.commit
    BY ONLY <1>1, <2>1, WithFileWhole, Zenon
  <2>3. source' \in Databases
    BY <1>0, <1>2, <2>1, WithFileType DEF Files
  <2>4. Journal(source') = j /\ Applied(source') = j.commit
    BY <2>2 DEF Journal, Applied, Files
  <2> HIDE DEF j
  <2>6. Whole(source')
    BY <1>1, <1>2, <2>2, <2>4 DEF Whole, Usable
  <2>7. SourceOK'
    BY <1>1, <1>2, <2>4, <2>6 DEF SourceOK
  <2>8. Applied(source) <= Applied(source') /\ Journal(source').start = Journal(source).start
    BY <1>2, <2>4 DEF j
  <2> QED
    BY <1>0, <2>3, <2>7, <2>8, SourceMoves
<1> QED
  BY <1>3, <1>4

-----------------------------------------------------------------------------
(* Databases: steps of an attempt and of the target *)

\* Attempt a changes, and what the target has of it; its requests stay the last ones.
Touches(a) ==
    /\ UNCHANGED <<source, tracker, finisher>> /\ disk'.current = disk.current
    /\ shard'.group = shard.group
    /\ \A b \in Attempt : b # a => attempt'[b] = attempt[b] /\ disk'.arena[b] = disk.arena[b]
    /\ \A m \in wire' : m.id # a => m \in wire
    /\ \A m, n \in wire' : m.id = a /\ n.id = a => m = n

LEMMA DataMove ==
    ASSUME DataInv, DataType', NEW a \in Attempt, Touches(a), AttemptOK(a)',
           \A m \in wire' : m.id = a => RequestOK(m, attempt'[a], disk'.arena[a]),
           finisher.step \in Stopped /\ finisher.id = a =>
               /\ \A m \in wire' : m.id # a
               /\ attempt'[a].answer = "none" /\ attempt'[a].state \in {"finishing", "failed"}
               /\ DOMAIN disk'.arena[a] = DOMAIN disk.arena[a]
    PROVE  DataInv'
<1>0. SourceOK /\ (\A b \in Attempt : AttemptOK(b)) /\ WireOK /\ FinisherOK /\ CurrentOK
      /\ \A m \in wire : m.id \in Attempt
  BY DataParts
<1>1. \A m \in wire' : m.id \in Attempt
  BY <1>0 DEF Touches
<1>2. ASSUME NEW b \in Attempt PROVE AttemptOK(b)'
  <2>1. CASE b # a
    <3>1. AttemptOK(b) /\ attempt'[b] = attempt[b] /\ disk'.arena[b] = disk.arena[b]
          /\ source' = source /\ tracker' = tracker
      BY <1>0, <2>1 DEF Touches
    <3>2. SnapshotOK(attempt[b])'
      BY <3>1 DEF AttemptOK, SnapshotOK
    <3> QED
      BY <3>1, <3>2 DEF AttemptOK
  <2> QED
    BY <2>1
<1>3. WireOK'
  <2>1. ASSUME NEW m \in wire' PROVE RequestOK(m, attempt[m.id], disk.arena[m.id])'
    <3>1. CASE m.id # a
      <4>1. m \in wire /\ attempt'[m.id] = attempt[m.id] /\ disk'.arena[m.id] = disk.arena[m.id]
        BY <1>1, <3>1 DEF Touches
      <4>2. RequestOK(m, attempt[m.id], disk.arena[m.id])
        BY <1>0, <4>1 DEF WireOK
      <4> QED
        BY <4>1, <4>2 DEF RequestOK
    <3>2. CASE m.id = a
      <4>1. RequestOK(m, attempt'[a], disk'.arena[a])
        BY <3>2
      <4> QED
        BY <3>2, <4>1 DEF RequestOK
    <3> QED
      BY <3>1, <3>2
  <2>2. \A m, n \in wire' : m.id = n.id => m = n
    BY <1>0 DEF Touches, WireOK
  <2>3. finisher'.step \in Stopped => \A m \in wire' : m.id # finisher'.id
    BY <1>0 DEF Touches, WireOK
  <2> QED
    BY <2>1, <2>2, <2>3 DEF WireOK
<1>4. FinisherOK'
  <2>1. finisher' = finisher /\ (finisher.step # "idle" => finisher.id \in Attempt)
    BY <1>0 DEF Touches, FinisherOK
  <2>2. CASE finisher.step \in Stopped /\ finisher.id = a
    BY <1>0, <2>1, <2>2 DEF FinisherOK, Stopped
  <2>3. CASE finisher.step \in Stopped /\ finisher.id # a
    <3>1. finisher.id \in Attempt
      BY <2>1, <2>3 DEF Stopped
    <3>2. attempt'[finisher.id] = attempt[finisher.id] /\ disk'.arena[finisher.id] = disk.arena[finisher.id]
      BY <2>3, <3>1 DEF Touches
    <3> QED
      BY <1>0, <2>1, <3>2 DEF FinisherOK
  <2>4. CASE finisher.step \notin Stopped
    BY <2>1, <2>4 DEF FinisherOK, Stopped
  <2> QED
    BY <2>2, <2>3, <2>4
<1>5. CurrentOK' /\ SourceOK'
  BY <1>0 DEF Touches, CurrentOK, SourceOK
<1> QED
  BY <1>2, <1>3, <1>4, <1>5 DEF DataInv

LEMMA AttemptParts ==
    ASSUME DataInv, NEW a \in Attempt
    PROVE  /\ AttemptOK(a) /\ SnapshotOK(attempt[a]) /\ ArenaOK(attempt[a], disk.arena[a])
           /\ attempt[a] \in [state : Active \cup {"none", "failed", "succeeded"}, snapshot : Databases,
                              sent : SUBSET Files, answer : {"none", "ok", "error"}]
           /\ attempt[a].snapshot \in Databases /\ attempt[a].sent \subseteq Files
           /\ disk.arena[a] \in Databases
           /\ attempt[a].answer # "none" => \A m \in wire : m.id # a
           /\ finisher.step \in Stopped /\ finisher.id = a =>
                 /\ attempt[a].answer = "none" /\ attempt[a].state \in {"finishing", "failed"}
                 /\ \A m \in wire : m.id # a
<1>1. DataType /\ WireOK /\ FinisherOK /\ AttemptOK(a)
  BY DataParts
<1>2. /\ attempt[a] \in [state : Active \cup {"none", "failed", "succeeded"}, snapshot : Databases,
                         sent : SUBSET Files, answer : {"none", "ok", "error"}]
      /\ disk.arena[a] \in Databases
  BY <1>1 DEF DataType
<1>3. attempt[a].answer # "none" => \A m \in wire : m.id # a
  BY <1>1 DEF WireOK, RequestOK
<1>4. finisher.step \in Stopped /\ finisher.id = a =>
         /\ attempt[a].answer = "none" /\ attempt[a].state \in {"finishing", "failed"}
         /\ \A m \in wire : m.id # a
  BY <1>1 DEF FinisherOK, WireOK
<1>5. attempt[a].snapshot \in Databases /\ attempt[a].sent \subseteq Files
  BY <1>2
<1> QED
  BY <1>1, <1>2, <1>3, <1>4, <1>5 DEF AttemptOK

LEMMA AttemptTyped ==
    ASSUME DataType, NEW a \in Attempt, attempt' = [attempt EXCEPT ![a] = attempt'[a]],
           attempt'[a] \in [state : Active \cup {"none", "failed", "succeeded"}, snapshot : Databases,
                            sent : SUBSET Files, answer : {"none", "ok", "error"}],
           UNCHANGED <<source, tracker, disk>>,
           wire' \subseteq [id : Attempt, kind : {"start", "copy", "finish"}, file : Files \cup {"none"}]
    PROVE  DataType' /\ \A b \in Attempt : b # a => attempt'[b] = attempt[b]
BY DEF DataType

LEMMA DataSnapshot ==
    ASSUME DataInv, NEW a \in Attempt, Snapshot(a)
    PROVE  DataInv'
<1> DEFINE r == attempt[a]
           s == r.snapshot
           f == takeSnapshot(s)
           new == WithFile(s, f, source[f])
<1>0. /\ r.state = "starting" /\ r.answer = "ok" /\ DOMAIN s # Files
      /\ attempt' = [attempt EXCEPT ![a].snapshot = new]
      /\ UNCHANGED <<source, tracker, wire, disk, shard, finisher>>
  BY DEF Snapshot
<1>1. /\ AttemptOK(a) /\ SnapshotOK(r) /\ ArenaOK(r, disk.arena[a]) /\ s \in Databases
      /\ r \in [state : Active \cup {"none", "failed", "succeeded"}, snapshot : Databases,
                sent : SUBSET Files, answer : {"none", "ok", "error"}]
      /\ (\A m \in wire : m.id # a) /\ ~ (finisher.step \in Stopped /\ finisher.id = a)
  BY <1>0, AttemptParts
<1>2. DataType /\ SourceOK /\ source \in Databases
  BY DataParts
<1>3. /\ DOMAIN source = Files /\ source["state-machine"] \in Nat /\ Applied(source) = source["state-machine"]
      /\ Journal(source) \in JournalType /\ source["raft-journal"] = Journal(source)
      /\ Journal(source).start \in Nat /\ Journal(source).start <= Applied(source)
      /\ Journal(source).commit \in Nat /\ Applied(source) <= Journal(source).commit
      /\ Journal(source).start <= Journal(source).size
  BY <1>2 DEF SourceOK, Whole, Applied, Files, Journal, JournalType, Usable
<1>4. DOMAIN s \subseteq Files /\ f \in Files /\ source[f] \in Nat \cup JournalType
  BY <1>1, <1>3, DatabaseParts DEF takeSnapshot, Files
<1>5. new \in Databases /\ DOMAIN new = DOMAIN s \cup {f} /\ new[f] = source[f]
      /\ \A g \in DOMAIN s : g # f => new[g] = s[g]
  <2> HIDE DEF s, f
  <2>1. new \in Databases
    BY <1>1, <1>4, WithFileType
  <2>2. PICK c : c = source[f]
    OBVIOUS
  <2>3. new = WithFile(s, f, c)
    BY <2>2
  <2> QED
    BY <2>1, <2>2, <2>3 DEF WithFile
\* The journal is the second checkpoint.
<1>6. /\ "raft-journal" \notin DOMAIN s /\ f \notin DOMAIN s
      /\ \/ f = "state-machine" /\ DOMAIN new = {"state-machine"}
         \/ f = "raft-journal" /\ "state-machine" \in DOMAIN s /\ DOMAIN new = Files
  <2>1. "raft-journal" \notin DOMAIN s
    BY <1>0, <1>1 DEF SnapshotOK, Whole
  <2>2. CASE "state-machine" \in DOMAIN s
    <3>1. f = "raft-journal" /\ DOMAIN s = {"state-machine"}
      BY <1>4, <2>1, <2>2 DEF takeSnapshot, Files
    <3> QED
      BY <1>5, <2>1, <2>2, <3>1 DEF Files
  <2>3. CASE "state-machine" \notin DOMAIN s
    <3>1. f = "state-machine" /\ DOMAIN s = {}
      BY <1>4, <2>1, <2>3 DEF takeSnapshot, Files
    <3> QED
      BY <1>5, <2>1, <2>3, <3>1
  <2> QED
    BY <2>2, <2>3
<1> HIDE DEF new, f, s, r
<1>7. attempt'[a] = [r EXCEPT !.snapshot = new] /\ attempt' = [attempt EXCEPT ![a] = attempt'[a]]
  BY <1>0, <1>2 DEF DataType, r
<1>8. /\ attempt'[a].state = r.state /\ attempt'[a].answer = r.answer /\ attempt'[a].sent = r.sent
      /\ attempt'[a].snapshot = new
      /\ attempt'[a] \in [state : Active \cup {"none", "failed", "succeeded"}, snapshot : Databases,
                          sent : SUBSET Files, answer : {"none", "ok", "error"}]
  BY <1>1, <1>5, <1>7
<1>9. DataType' /\ \A b \in Attempt : b # a => attempt'[b] = attempt[b]
  <2>1. wire' \subseteq [id : Attempt, kind : {"start", "copy", "finish"}, file : Files \cup {"none"}]
    BY <1>0, <1>2 DEF DataType
  <2> QED
    BY <1>0, <1>2, <1>7, <1>8, <2>1, AttemptTyped
<1>10. SnapshotOK(attempt[a])'
  <2>1. CASE f = "state-machine"
    <3>1. "raft-journal" \notin DOMAIN new /\ new["state-machine"] = Applied(source)
      BY <1>3, <1>5, <1>6, <2>1
    <3> QED
      BY <1>0, <1>3, <1>8, <3>1 DEF SnapshotOK
  <2>2. CASE f = "raft-journal"
    <3>1. /\ new["state-machine"] = s["state-machine"] /\ new["raft-journal"] = Journal(source) /\ DOMAIN new = Files
      BY <1>3, <1>5, <1>6, <2>2
    <3>2. /\ s["state-machine"] \in Nat /\ Journal(source).start <= s["state-machine"] + 1
          /\ s["state-machine"] <= Applied(source)
      BY <1>0, <1>1, <1>6, <2>2 DEF SnapshotOK, s
    <3>3. Applied(new) = new["state-machine"] /\ Journal(new) = Journal(source)
      BY <3>1 DEF Applied, Journal, Files
    <3>4. Whole(new)
      BY <1>3, <3>1, <3>2, <3>3 DEF Whole, Usable
    <3> QED
      BY <1>0, <1>3, <1>8, <3>1, <3>2, <3>4 DEF SnapshotOK
  <2> QED
    BY <1>6, <2>1, <2>2
<1>11. ArenaOK(attempt[a], disk.arena[a])'
  BY <1>0, <1>1, <1>5, <1>6, <1>8 DEF ArenaOK, r, s
<1>12. AttemptOK(a)'
  BY <1>0, <1>1, <1>8, <1>10, <1>11 DEF AttemptOK, r
<1>13. Touches(a)
  BY <1>0, <1>1, <1>9 DEF Touches
<1> QED
  BY <1>0, <1>1, <1>9, <1>12, <1>13, DataMove

LEMMA DataFail ==
    ASSUME DataInv, NEW a \in Attempt, Fail(a)
    PROVE  DataInv'
<1> DEFINE r == attempt[a]
<1>0. /\ r.state \in Active /\ attempt' = [attempt EXCEPT ![a] = [r EXCEPT !.state = "failed"]]
      /\ UNCHANGED <<source, tracker, wire, disk, shard, finisher>>
  BY DEF Fail, Active
<1>1. /\ AttemptOK(a) /\ SnapshotOK(r) /\ ArenaOK(r, disk.arena[a])
      /\ r \in [state : Active \cup {"none", "failed", "succeeded"}, snapshot : Databases,
                sent : SUBSET Files, answer : {"none", "ok", "error"}]
      /\ finisher.step \in Stopped /\ finisher.id = a => r.answer = "none" /\ \A m \in wire : m.id # a
  BY AttemptParts
<1>2. DataType /\ WireOK
  BY DataParts
<1> HIDE DEF r
<1>7. attempt'[a] = [r EXCEPT !.state = "failed"] /\ attempt' = [attempt EXCEPT ![a] = attempt'[a]]
  BY <1>0, <1>2 DEF DataType
<1>8. /\ attempt'[a].state = "failed" /\ attempt'[a].answer = r.answer /\ attempt'[a].sent = r.sent
      /\ attempt'[a].snapshot = r.snapshot
      /\ attempt'[a] \in [state : Active \cup {"none", "failed", "succeeded"}, snapshot : Databases,
                          sent : SUBSET Files, answer : {"none", "ok", "error"}]
  BY <1>1, <1>7
<1>9. DataType' /\ \A b \in Attempt : b # a => attempt'[b] = attempt[b]
  <2>1. wire' \subseteq [id : Attempt, kind : {"start", "copy", "finish"}, file : Files \cup {"none"}]
    BY <1>0, <1>2 DEF DataType
  <2> QED
    BY <1>0, <1>2, <1>7, <1>8, <2>1, AttemptTyped
<1>10. SnapshotOK(attempt[a])' /\ ArenaOK(attempt[a], disk.arena[a])'
  BY <1>0, <1>1, <1>8 DEF SnapshotOK, ArenaOK, Active
<1>11. AttemptOK(a)'
  BY <1>0, <1>1, <1>8, <1>10 DEF AttemptOK, Active, r
<1>12. Touches(a)
  BY <1>0, <1>2, <1>9 DEF Touches, WireOK
<1>13. \A m \in wire' : m.id = a => RequestOK(m, attempt'[a], disk'.arena[a])
  <2> SUFFICES ASSUME NEW m \in wire, m.id = a PROVE RequestOK(m, attempt'[a], disk.arena[a])
    BY <1>0
  <2>1. RequestOK(m, r, disk.arena[a])
    BY <1>2 DEF WireOK, r
  <2> QED
    BY <1>8, <2>1 DEF RequestOK
<1> QED
  BY <1>0, <1>1, <1>8, <1>9, <1>11, <1>12, <1>13, DataMove

LEMMA DataSucceed ==
    ASSUME DataInv, NEW a \in Attempt, Succeed(a)
    PROVE  DataInv'
<1> DEFINE r == attempt[a]
<1>0. /\ r.state = "finishing" /\ r.answer = "ok"
      /\ attempt' = [attempt EXCEPT ![a] = [@ EXCEPT !.state = "succeeded", !.snapshot = Missing]]
      /\ UNCHANGED <<source, tracker, wire, disk, shard, finisher>>
  BY DEF Succeed, Acknowledged
<1>1. /\ AttemptOK(a)
      /\ r \in [state : Active \cup {"none", "failed", "succeeded"}, snapshot : Databases,
                sent : SUBSET Files, answer : {"none", "ok", "error"}]
      /\ (\A m \in wire : m.id # a) /\ ~ (finisher.step \in Stopped /\ finisher.id = a)
  BY <1>0, AttemptParts
<1>2. DataType
  BY DataParts
<1> HIDE DEF r
<1>7. attempt'[a] = [r EXCEPT !.state = "succeeded", !.snapshot = Missing]
      /\ attempt' = [attempt EXCEPT ![a] = attempt'[a]]
  BY <1>0, <1>2 DEF DataType, r
<1>8. /\ attempt'[a].state = "succeeded" /\ attempt'[a].snapshot = Missing
      /\ attempt'[a] \in [state : Active \cup {"none", "failed", "succeeded"}, snapshot : Databases,
                          sent : SUBSET Files, answer : {"none", "ok", "error"}]
  BY <1>1, <1>7, MissingType
<1>9. DataType' /\ \A b \in Attempt : b # a => attempt'[b] = attempt[b]
  <2>1. wire' \subseteq [id : Attempt, kind : {"start", "copy", "finish"}, file : Files \cup {"none"}]
    BY <1>0, <1>2 DEF DataType
  <2> QED
    BY <1>0, <1>2, <1>7, <1>8, <2>1, AttemptTyped
<1>10. SnapshotOK(attempt[a])' /\ ArenaOK(attempt[a], disk.arena[a])'
  BY <1>8, MissingType DEF SnapshotOK, ArenaOK
<1>11. AttemptOK(a)'
  BY <1>0, <1>1, <1>8, <1>10 DEF AttemptOK, Active, r
<1>12. Touches(a)
  BY <1>0, <1>1, <1>9 DEF Touches
<1> QED
  BY <1>0, <1>1, <1>9, <1>11, <1>12, DataMove

LEMMA DataSendNext ==
    ASSUME DataInv, NEW a \in Attempt, SendNext(a)
    PROVE  DataInv'
<1> DEFINE r == attempt[a]
           db == disk.arena[a]
<1>0. /\ r.answer = "ok" /\ UNCHANGED <<source, tracker, disk, shard, finisher>>
      /\ \/ r.state = "starting" /\ DOMAIN r.snapshot = Files
         \/ r.state = "copying"
  BY DEF SendNext, Acknowledged
<1>1. /\ AttemptOK(a) /\ SnapshotOK(r) /\ ArenaOK(r, db) /\ db \in Databases
      /\ r \in [state : Active \cup {"none", "failed", "succeeded"}, snapshot : Databases,
                sent : SUBSET Files, answer : {"none", "ok", "error"}]
      /\ (\A m \in wire : m.id # a) /\ ~ (finisher.step \in Stopped /\ finisher.id = a)
  BY <1>0, AttemptParts
<1>2. DataType /\ \A m \in wire : m.id \in Attempt
  BY DataParts
<1>3. /\ DOMAIN r.snapshot = Files /\ r.sent \subseteq DOMAIN db /\ r.sent \subseteq Files
      /\ DOMAIN db \subseteq Files
  BY <1>0, <1>1, DatabaseParts DEF SnapshotOK, ArenaOK
<1> DEFINE Request(state, sent, kind, file) ==
         /\ attempt' = [attempt EXCEPT ![a] = [r EXCEPT !.state = state, !.sent = sent, !.answer = "none"]]
         /\ wire' = wire \cup {[id |-> a, kind |-> kind, file |-> file]}
         /\ sent \subseteq Files
         /\ \/ state = "copying" /\ kind = "copy" /\ file \in Files /\ sent = r.sent \cup {file}
            \/ state = "finishing" /\ kind = "finish" /\ file = "none" /\ sent = r.sent /\ Files \ sent = {}
<1>4. PICK state, sent, kind, file : Request(state, sent, kind, file)
  <2>1. ASSUME NEW f \in Files,
               attempt' = [attempt EXCEPT ![a] =
                              [r EXCEPT !.state = "copying", !.sent = r.sent \cup {f}, !.answer = "none"]],
               wire' = wire \cup {[id |-> a, kind |-> "copy", file |-> f]}
        PROVE  \E state, sent, kind, file : Request(state, sent, kind, file)
    <3>1. r.sent \cup {f} \subseteq Files
      BY <1>3
    <3> QED
      BY <2>1, <3>1, Zenon
  <2>2. ASSUME Files \ r.sent = {},
               attempt' = [attempt EXCEPT ![a] = [r EXCEPT !.state = "finishing", !.answer = "none"]],
               wire' = wire \cup {[id |-> a, kind |-> "finish", file |-> "none"]}
        PROVE  \E state, sent, kind, file : Request(state, sent, kind, file)
    <3> HIDE DEF r
    <3>1. [r EXCEPT !.state = "finishing", !.answer = "none"]
            = [r EXCEPT !.state = "finishing", !.sent = r.sent, !.answer = "none"]
      BY <1>1
    <3> QED
      BY <1>3, <2>2, <3>1, Zenon
  <2> QED
    BY <2>1, <2>2 DEF SendNext
<1> DEFINE new == [id |-> a, kind |-> kind, file |-> file]
<1> HIDE DEF r, db
<1>5. new \in [id : Attempt, kind : {"start", "copy", "finish"}, file : Files \cup {"none"}]
  BY <1>4
<1>7. attempt'[a] = [r EXCEPT !.state = state, !.sent = sent, !.answer = "none"]
      /\ attempt' = [attempt EXCEPT ![a] = attempt'[a]]
  BY <1>2, <1>4 DEF DataType
<1>8. /\ attempt'[a].state = state /\ attempt'[a].snapshot = r.snapshot /\ attempt'[a].sent = sent
      /\ attempt'[a].answer = "none"
      /\ attempt'[a] \in [state : Active \cup {"none", "failed", "succeeded"}, snapshot : Databases,
                          sent : SUBSET Files, answer : {"none", "ok", "error"}]
  <2>1. state \in Active \cup {"none", "failed", "succeeded"} /\ sent \in SUBSET Files
    BY <1>4 DEF Active
  <2> HIDE DEF Request
  <2> QED
    BY <1>1, <1>7, <2>1
<1>9. DataType' /\ \A b \in Attempt : b # a => attempt'[b] = attempt[b]
  <2>1. wire' \subseteq [id : Attempt, kind : {"start", "copy", "finish"}, file : Files \cup {"none"}]
    BY <1>2, <1>4, <1>5 DEF DataType
  <2> QED
    BY <1>0, <1>2, <1>7, <1>8, <2>1, AttemptTyped
<1>10. SnapshotOK(attempt[a])'
  BY <1>0, <1>1, <1>3, <1>4, <1>8 DEF SnapshotOK
<1>11. ArenaOK(attempt[a], disk.arena[a])'
  BY <1>0, <1>1, <1>4, <1>8 DEF ArenaOK, db
<1>12. AttemptOK(a)'
  BY <1>0, <1>1, <1>8, <1>10, <1>11 DEF AttemptOK, Active, r
<1>13. /\ \A m \in wire' : m = new \/ (m \in wire /\ m.id # a)
       /\ new.id = a /\ new.kind = kind /\ new.file = file
  BY <1>1, <1>4
<1>14. Touches(a)
  BY <1>0, <1>9, <1>13 DEF Touches
<1>15. RequestOK(new, attempt'[a], disk'.arena[a])
  <2>1. CASE kind = "copy"
    BY <1>0, <1>3, <1>4, <1>8, <1>13, <2>1 DEF RequestOK, db
  <2>2. CASE kind = "finish"
    <3>1. DOMAIN db = Files
      BY <1>3, <1>4, <2>2
    <3> QED
      BY <1>0, <1>4, <1>8, <1>13, <2>2, <3>1 DEF RequestOK, db
  <2> QED
    BY <1>4, <2>1, <2>2
<1>16. \A m \in wire' : m.id = a => RequestOK(m, attempt'[a], disk'.arena[a])
  BY <1>13, <1>15
<1> QED
  BY <1>1, <1>9, <1>12, <1>14, <1>16, DataMove

\* The target has handled the request of an attempt, which has its answer unless it
\* gave up before.
Handled(m, res) ==
    /\ wire' = wire \ {m}
    /\ attempt' = [attempt EXCEPT ![m.id].answer = IF attempt[m.id].state = "failed" THEN @ ELSE res]

LEMMA HandledParts ==
    ASSUME DataInv, NEW m \in wire, NEW res \in {"ok", "error"}, Handled(m, res)
    PROVE  LET a == m.id
               r == attempt[a] IN
           /\ a \in Attempt /\ RequestOK(m, r, disk.arena[a])
           /\ attempt' = [attempt EXCEPT ![a] = attempt'[a]]
           /\ attempt'[a].state = r.state /\ attempt'[a].snapshot = r.snapshot /\ attempt'[a].sent = r.sent
           /\ attempt'[a] \in [state : Active \cup {"none", "failed", "succeeded"}, snapshot : Databases,
                               sent : SUBSET Files, answer : {"none", "ok", "error"}]
           /\ \A b \in Attempt : b # a => attempt'[b] = attempt[b]
           /\ attempt' \in [Attempt -> [state : Active \cup {"none", "failed", "succeeded"}, snapshot : Databases,
                                        sent : SUBSET Files, answer : {"none", "ok", "error"}]]
           /\ (\A n \in wire' : n.id # a /\ n \in wire)
           /\ ~ (finisher.step \in Stopped /\ finisher.id = a)
           /\ r.state \in {"starting", "copying", "finishing", "failed"}
<1> DEFINE a == m.id
           r == attempt[a]
<1>1. DataType /\ WireOK /\ a \in Attempt /\ m.kind \in {"start", "copy", "finish"}
  BY DataParts
<1>2. r \in [state : Active \cup {"none", "failed", "succeeded"}, snapshot : Databases,
             sent : SUBSET Files, answer : {"none", "ok", "error"}]
  BY <1>1, AttemptParts
<1>3. PICK x \in {"none", "ok", "error"} : attempt' = [attempt EXCEPT ![a] = [r EXCEPT !.answer = x]]
  <2>1. CASE r.state = "failed"
    BY <1>1, <1>2, <2>1 DEF Handled, DataType
  <2>2. CASE r.state # "failed"
    BY <1>1, <1>2, <2>2 DEF Handled, DataType
  <2> QED
    BY <2>1, <2>2
<1>4. attempt \in [Attempt -> [state : Active \cup {"none", "failed", "succeeded"}, snapshot : Databases,
                               sent : SUBSET Files, answer : {"none", "ok", "error"}]]
  BY <1>1 DEF DataType
<1>5. RequestOK(m, r, disk.arena[a]) /\ \A n \in wire : n.id = a => n = m
  BY <1>1 DEF WireOK
<1>6. ~ (finisher.step \in Stopped /\ finisher.id = a)
  BY <1>1 DEF WireOK
<1>7. r.state \in {"starting", "copying", "finishing", "failed"}
  BY <1>1, <1>5 DEF RequestOK
<1>8. \A n \in wire' : n.id # a /\ n \in wire
  BY <1>5 DEF Handled
<1> HIDE DEF a, r
<1>9. /\ attempt'[a] = [r EXCEPT !.answer = x] /\ attempt' = [attempt EXCEPT ![a] = attempt'[a]]
      /\ \A b \in Attempt : b # a => attempt'[b] = attempt[b]
  BY <1>1, <1>3, <1>4
<1>10. /\ attempt'[a].state = r.state /\ attempt'[a].snapshot = r.snapshot /\ attempt'[a].sent = r.sent
       /\ attempt'[a] \in [state : Active \cup {"none", "failed", "succeeded"}, snapshot : Databases,
                           sent : SUBSET Files, answer : {"none", "ok", "error"}]
  BY <1>2, <1>9
<1>11. attempt' \in [Attempt -> [state : Active \cup {"none", "failed", "succeeded"}, snapshot : Databases,
                                 sent : SUBSET Files, answer : {"none", "ok", "error"}]]
  BY <1>4, <1>9, <1>10
<1> QED
  BY <1>1, <1>5, <1>6, <1>7, <1>8, <1>9, <1>10, <1>11 DEF a, r

LEMMA DataStart ==
    ASSUME DataInv, NEW m \in wire, resilveringStart(m)
    PROVE  DataInv'
<1> DEFINE a == m.id
<1>0. /\ m.kind = "start" /\ UNCHANGED <<source, tracker, shard, finisher>>
      /\ disk' = [disk EXCEPT !.made = @ \cup {a}] /\ Handled(m, "ok")
  BY DEF resilveringStart, Handled, Answer
<1>1. /\ a \in Attempt /\ RequestOK(m, attempt[a], disk.arena[a])
      /\ attempt'[a].state = attempt[a].state /\ attempt'[a].snapshot = attempt[a].snapshot
      /\ attempt'[a].sent = attempt[a].sent
      /\ \A b \in Attempt : b # a => attempt'[b] = attempt[b]
      /\ attempt' \in [Attempt -> [state : Active \cup {"none", "failed", "succeeded"}, snapshot : Databases,
                                   sent : SUBSET Files, answer : {"none", "ok", "error"}]]
      /\ (\A n \in wire' : n.id # a /\ n \in wire)
      /\ ~ (finisher.step \in Stopped /\ finisher.id = a)
  BY <1>0, HandledParts
<1>2. DataType /\ AttemptOK(a) /\ SnapshotOK(attempt[a]) /\ ArenaOK(attempt[a], disk.arena[a])
  BY <1>1, DataParts, AttemptParts
<1> HIDE DEF a
<1>3. /\ disk'.arena = disk.arena /\ disk'.current = disk.current
      /\ disk' \in [current : Databases, arena : [Attempt -> Databases],
                    made : SUBSET Attempt, supplanted : SUBSET Attempt]
  BY <1>0, <1>1, <1>2 DEF DataType
<1>4. DataType'
  BY <1>0, <1>1, <1>2, <1>3 DEF DataType
<1>5. attempt[a].state \in {"starting", "failed"}
  BY <1>0, <1>1 DEF RequestOK
<1>6. SnapshotOK(attempt[a])' /\ ArenaOK(attempt[a], disk.arena[a])'
  BY <1>0, <1>1, <1>2, <1>3, <1>5 DEF SnapshotOK, ArenaOK
<1>7. AttemptOK(a)'
  BY <1>0, <1>1, <1>2, <1>6 DEF AttemptOK
<1>8. Touches(a)
  BY <1>0, <1>1, <1>3 DEF Touches
<1> QED
  BY <1>1, <1>4, <1>7, <1>8, DataMove

LEMMA DataCopy ==
    ASSUME DataInv, NEW m \in wire, NEW written \in BOOLEAN, resilveringCopy(m, written)
    PROVE  DataInv'
<1> DEFINE a == m.id
           r == attempt[a]
           db == disk.arena[a]
           new == IF written THEN WithFile(db, m.file, r.snapshot[m.file]) ELSE db
           res == IF written THEN "ok" ELSE "error"
<1>0. /\ m.kind = "copy" /\ UNCHANGED <<source, tracker, shard, finisher>>
      /\ disk' = IF ~ written THEN disk
                 ELSE [disk EXCEPT !.made = @ \cup {a}, !.arena[a] = WithFile(@, m.file, r.snapshot[m.file])]
      /\ Handled(m, res)
  BY DEF resilveringCopy, Handled, Answer
<1>1. /\ a \in Attempt /\ RequestOK(m, r, db)
      /\ attempt'[a].state = r.state /\ attempt'[a].snapshot = r.snapshot
      /\ attempt'[a].sent = r.sent
      /\ \A b \in Attempt : b # a => attempt'[b] = attempt[b]
      /\ attempt' \in [Attempt -> [state : Active \cup {"none", "failed", "succeeded"}, snapshot : Databases,
                                   sent : SUBSET Files, answer : {"none", "ok", "error"}]]
      /\ (\A n \in wire' : n.id # a /\ n \in wire)
      /\ ~ (finisher.step \in Stopped /\ finisher.id = a)
  <2>1. res \in {"ok", "error"}
    OBVIOUS
  <2> HIDE DEF res
  <2> QED
    BY <1>0, <2>1, HandledParts
<1>2. DataType /\ AttemptOK(a) /\ SnapshotOK(r) /\ ArenaOK(r, db) /\ db \in Databases
      /\ r.snapshot \in Databases
  BY <1>1, DataParts, AttemptParts
<1>3. /\ r.state \in {"copying", "failed"} /\ m.file \in Files /\ DOMAIN r.snapshot = Files
      /\ r.sent \ {m.file} \subseteq DOMAIN db /\ r.answer = "none"
  BY <1>0, <1>1 DEF RequestOK
<1>4. r.snapshot[m.file] \in Nat \cup JournalType
  BY <1>2, <1>3, DatabaseParts
<1> HIDE DEF a, r, db
<1>5. /\ new \in Databases /\ DOMAIN db \subseteq DOMAIN new
      /\ written => m.file \in DOMAIN new
      /\ \A f \in DOMAIN new : (f \in DOMAIN db /\ new[f] = db[f]) \/ (f = m.file /\ new[f] = r.snapshot[f])
  <2>1. CASE written
    <3>1. new = WithFile(db, m.file, r.snapshot[m.file])
      BY <2>1
    <3> HIDE DEF new
    <3>2. new \in Databases
      BY <1>2, <1>3, <1>4, <3>1, WithFileType
    <3>3. PICK c : c = r.snapshot[m.file]
      OBVIOUS
    <3>4. new = [g \in DOMAIN db \cup {m.file} |-> IF g = m.file THEN c ELSE db[g]]
      BY <3>1, <3>3 DEF WithFile
    <3>5. DOMAIN new = DOMAIN db \cup {m.file} /\ \A g \in DOMAIN new : new[g] = IF g = m.file THEN c ELSE db[g]
      BY <3>4
    <3> QED
      BY <3>2, <3>3, <3>5
  <2>2. CASE ~ written
    <3>1. new = db
      BY <2>2
    <3> HIDE DEF new
    <3> QED
      BY <1>2, <2>2, <3>1
  <2> QED
    BY <2>1, <2>2
<1>6. /\ disk'.arena = [disk.arena EXCEPT ![a] = new] /\ disk'.current = disk.current
      /\ disk'.made \in SUBSET Attempt /\ disk'.supplanted \in SUBSET Attempt
      /\ DOMAIN disk' = DOMAIN disk
      /\ disk' = [current |-> disk'.current, arena |-> disk'.arena, made |-> disk'.made,
                  supplanted |-> disk'.supplanted]
  <2>1. CASE written
    BY <1>0, <1>1, <1>2, <2>1 DEF DataType, db, r
  <2>2. CASE ~ written
    BY <1>0, <1>1, <1>2, <2>2 DEF DataType, db
  <2> QED
    BY <2>1, <2>2
<1> HIDE DEF new
<1>7. /\ disk.arena \in [Attempt -> Databases] /\ disk.current \in Databases
  BY <1>2 DEF DataType
<1>8. /\ disk'.arena \in [Attempt -> Databases] /\ disk'.arena[a] = new
      /\ \A b \in Attempt : b # a => disk'.arena[b] = disk.arena[b]
  BY <1>1, <1>5, <1>6, <1>7
<1>9. disk' \in [current : Databases, arena : [Attempt -> Databases],
                 made : SUBSET Attempt, supplanted : SUBSET Attempt]
  BY <1>6, <1>7, <1>8
<1>10. DataType'
  BY <1>0, <1>1, <1>2, <1>9 DEF DataType
<1>11. SnapshotOK(attempt[a])'
  BY <1>0, <1>1, <1>2, <1>3 DEF SnapshotOK
<1>12. ArenaOK(attempt[a], disk.arena[a])'
  <2>1. \A f \in DOMAIN new : f \in DOMAIN r.snapshot /\ new[f] = r.snapshot[f]
    BY <1>2, <1>3, <1>5 DEF ArenaOK
  <2>2. r.state = "copying" /\ attempt'[a].answer = "ok" => r.sent \subseteq DOMAIN new
    <3>1. CASE written
      BY <1>3, <1>5, <3>1
    <3>2. CASE ~ written /\ r.state = "copying"
      <4>1. attempt'[a].answer = "error"
        BY <1>0, <1>1, <1>2, <3>2 DEF Handled, DataType, a, r
      <4> QED
        BY <4>1
    <3> QED
      BY <3>1, <3>2
  <2> QED
    BY <1>1, <1>3, <1>8, <2>1, <2>2 DEF ArenaOK
<1>13. AttemptOK(a)'
  BY <1>0, <1>1, <1>2, <1>11, <1>12 DEF AttemptOK, r
<1>14. Touches(a)
  BY <1>0, <1>1, <1>6, <1>8 DEF Touches
<1> QED
  BY <1>1, <1>10, <1>13, <1>14, DataMove

LEMMA DataContact ==
    ASSUME DataInv, Contact
    PROVE  DataInv'
<1>0. /\ DataType /\ SourceOK /\ (\A b \in Attempt : AttemptOK(b)) /\ WireOK /\ FinisherOK /\ CurrentOK
      /\ tracker.id \in 0..MaxAttempts /\ \A m \in wire : m.id \in Attempt /\ m.kind \in {"start", "copy", "finish"}
  BY DataParts
<1>1. UNCHANGED <<source, disk, shard, finisher>>
  BY DEF Contact
<1>2. CASE /\ tracker.alive /\ Ended(tracker.id) /\ tracker' = [tracker EXCEPT !.alive = FALSE]
           /\ UNCHANGED <<attempt, wire>>
  <2>1. tracker'.id = tracker.id /\ tracker' \in [id : 0..MaxAttempts, alive : BOOLEAN]
    BY <1>0, <1>2 DEF DataType
  <2>2. DataType'
    BY <1>0, <1>1, <1>2, <2>1 DEF DataType
  <2>3. ASSUME NEW b \in Attempt PROVE AttemptOK(b)'
    <3>1. AttemptOK(b) /\ attempt[b].state \notin Active
      BY <1>0, <1>2 DEF AttemptOK, Ended, Active
    <3>2. SnapshotOK(attempt[b])'
      BY <1>1, <1>2, <3>1 DEF AttemptOK, SnapshotOK
    <3> QED
      BY <1>1, <1>2, <2>1, <3>1, <3>2 DEF AttemptOK
  <2>4. SourceOK' /\ WireOK' /\ FinisherOK' /\ CurrentOK'
    BY <1>0, <1>1, <1>2 DEF SourceOK, WireOK, FinisherOK, CurrentOK
  <2> QED
    BY <2>2, <2>3, <2>4 DEF DataInv
<1>3. CASE /\ ~ tracker.alive /\ tracker.id < MaxAttempts
           /\ tracker' = [id |-> tracker.id + 1, alive |-> TRUE]
           /\ attempt' = [attempt EXCEPT ![tracker.id + 1].state = "starting"]
           /\ wire' = wire \cup {[id |-> tracker.id + 1, kind |-> "start", file |-> "none"]}
  <2>1. PICK a : a = tracker.id + 1
    OBVIOUS
  <2>2. PICK new : new = [id |-> a, kind |-> "start", file |-> "none"]
    OBVIOUS
  <2>3. a \in Attempt /\ a \in 0..MaxAttempts /\ a \in Nat /\ a > tracker.id
    BY <1>0, <1>3, <2>1, ResilveringAssumption DEF Attempt
  <2>4. PICK r : r = attempt[a]
    OBVIOUS
  <2>5. /\ r \in [state : Active \cup {"none", "failed", "succeeded"}, snapshot : Databases,
                  sent : SUBSET Files, answer : {"none", "ok", "error"}]
        /\ SnapshotOK(r) /\ ArenaOK(r, disk.arena[a]) /\ r.state = "none"
    BY <1>0, <2>3, <2>4, AttemptParts DEF AttemptOK
  <2>6. r.snapshot = Missing /\ r.answer = "none" /\ disk.arena[a] = Missing /\ r.sent = {}
    BY <2>5 DEF ArenaOK
  <2>7. attempt' = [attempt EXCEPT ![a] = [r EXCEPT !.state = "starting"]]
    BY <1>0, <1>3, <2>1, <2>3, <2>4 DEF DataType
  <2>8. /\ attempt'[a] = [r EXCEPT !.state = "starting"]
        /\ \A b \in Attempt : b # a => attempt'[b] = attempt[b]
    BY <1>0, <2>3, <2>7 DEF DataType
  <2>9. /\ attempt'[a].state = "starting" /\ attempt'[a].snapshot = Missing /\ attempt'[a].answer = "none"
        /\ attempt'[a].sent = {}
        /\ attempt'[a] \in [state : Active \cup {"none", "failed", "succeeded"}, snapshot : Databases,
                            sent : SUBSET Files, answer : {"none", "ok", "error"}]
    BY <2>5, <2>6, <2>8 DEF Active
  <2>10. attempt' \in [Attempt -> [state : Active \cup {"none", "failed", "succeeded"}, snapshot : Databases,
                                   sent : SUBSET Files, answer : {"none", "ok", "error"}]]
    <3>1. attempt \in [Attempt -> [state : Active \cup {"none", "failed", "succeeded"}, snapshot : Databases,
                                   sent : SUBSET Files, answer : {"none", "ok", "error"}]]
      BY <1>0 DEF DataType
    <3> QED
      BY <2>7, <2>8, <2>9, <3>1
  <2>11. /\ wire' = wire \cup {new} /\ new.id = a /\ new.kind = "start"
         /\ new \in [id : Attempt, kind : {"start", "copy", "finish"}, file : Files \cup {"none"}]
    BY <1>3, <2>1, <2>2, <2>3
  <2>12. tracker'.id = a /\ tracker'.alive = TRUE /\ tracker' \in [id : 0..MaxAttempts, alive : BOOLEAN]
    BY <1>3, <2>1, <2>3
  <2>13. DataType'
    BY <1>0, <1>1, <2>10, <2>11, <2>12 DEF DataType
  <2>14. ASSUME NEW b \in Attempt PROVE AttemptOK(b)'
    <3>1. CASE b = a
      <4>1. SnapshotOK(attempt[b])' /\ ArenaOK(attempt[b], disk.arena[b])'
        BY <1>1, <2>6, <2>9, <3>1, MissingType DEF SnapshotOK, ArenaOK
      <4> QED
        BY <2>3, <2>9, <2>12, <3>1, <4>1 DEF AttemptOK
    <3>2. CASE b # a
      <4>1. AttemptOK(b) /\ attempt[b].state \notin Active /\ attempt'[b] = attempt[b]
        BY <1>0, <1>3, <2>8, <3>2 DEF AttemptOK
      <4>2. SnapshotOK(attempt[b])'
        BY <1>1, <4>1 DEF AttemptOK, SnapshotOK
      <4>3. b > tracker'.id => b > tracker.id
        BY <1>0, <2>3, <2>12 DEF Attempt
      <4> QED
        BY <1>1, <4>1, <4>2, <4>3 DEF AttemptOK
    <3> QED
      BY <3>1, <3>2
  <2>15. \A m \in wire : m.id # a
    BY <1>0, <2>4, <2>5 DEF WireOK, RequestOK
  <2>16. finisher.step \in Stopped => finisher.id # a
    BY <1>0, <2>4, <2>5 DEF FinisherOK
  <2>17. WireOK'
    <3>1. ASSUME NEW m \in wire' PROVE RequestOK(m, attempt[m.id], disk.arena[m.id])'
      <4>1. CASE m \in wire
        <5>1. attempt'[m.id] = attempt[m.id] /\ RequestOK(m, attempt[m.id], disk.arena[m.id])
          BY <1>0, <2>8, <2>15, <4>1 DEF WireOK
        <5> QED
          BY <1>1, <5>1 DEF RequestOK
      <4>2. CASE m = new
        BY <2>9, <2>11, <4>2 DEF RequestOK
      <4> QED
        BY <2>11, <4>1, <4>2
    <3>2. \A m, n \in wire' : m.id = n.id => m = n
      BY <1>0, <2>11, <2>15 DEF WireOK
    <3>3. finisher'.step \in Stopped => \A m \in wire' : m.id # finisher'.id
      BY <1>0, <1>1, <2>11, <2>16 DEF WireOK
    <3> QED
      BY <3>1, <3>2, <3>3 DEF WireOK
  <2>18. FinisherOK'
    <3>1. CASE finisher.step \in Stopped
      <4>1. finisher.id \in Attempt /\ attempt'[finisher.id] = attempt[finisher.id]
        BY <1>0, <2>8, <2>16, <3>1 DEF FinisherOK, Stopped
      <4> QED
        BY <1>0, <1>1, <4>1 DEF FinisherOK
    <3>2. CASE finisher.step \notin Stopped
      BY <1>0, <1>1, <3>2 DEF FinisherOK, Stopped
    <3> QED
      BY <3>1, <3>2
  <2>19. SourceOK' /\ CurrentOK'
    BY <1>0, <1>1 DEF SourceOK, CurrentOK
  <2> QED
    BY <2>13, <2>14, <2>17, <2>18, <2>19 DEF DataInv
<1> QED
  BY <1>2, <1>3 DEF Contact

\* Steps that change neither files nor attempts.
LEMMA DataStill ==
    ASSUME DataInv, UNCHANGED <<source, tracker, attempt, disk>>, wire' \subseteq wire,
           finisher'.step \in Stopped => \A m \in wire' : m.id # finisher'.id,
           FinisherOK', CurrentOK'
    PROVE  DataInv'
<1>0. DataType /\ SourceOK /\ (\A b \in Attempt : AttemptOK(b)) /\ WireOK
  BY DataParts
<1>1. DataType' /\ SourceOK'
  BY <1>0 DEF DataType, SourceOK
<1>2. ASSUME NEW b \in Attempt PROVE AttemptOK(b)'
  <2>1. AttemptOK(b)
    BY <1>0
  <2>2. SnapshotOK(attempt[b])'
    BY <2>1 DEF AttemptOK, SnapshotOK
  <2> QED
    BY <2>1, <2>2 DEF AttemptOK
<1>3. WireOK'
  BY <1>0 DEF WireOK
<1> QED
  BY <1>1, <1>2, <1>3 DEF DataInv

LEMMA DataFinisher ==
    ASSUME DataInv, FlightInv, (\E m \in wire : FinishBegin(m)) \/ Spin \/ Detach \/ Spinup
    PROVE  DataInv'
<1>0. /\ WireOK /\ FinisherOK /\ CurrentOK /\ \A m \in wire : m.id \in Attempt
  BY DataParts
<1>a. StopInv /\ FlightType
  BY DEF FlightInv
<1>1. ASSUME NEW m \in wire, FinishBegin(m) PROVE DataInv'
  <2>1. /\ m.kind = "finish" /\ finisher' = [id |-> m.id, step |-> "spin", core |-> 1] /\ shard.group
        /\ wire' = wire \ {m} /\ UNCHANGED <<source, tracker, attempt, disk>>
    BY <1>1 DEF FinishBegin
  <2>2. finisher'.id = m.id /\ finisher'.step = "spin" /\ m.id \in Attempt
    BY <1>0, <2>1
  <2>3. RequestOK(m, attempt[m.id], disk.arena[m.id])
    BY <1>0 DEF WireOK
  <2>4. FinisherOK'
    BY <2>1, <2>2, <2>3 DEF FinisherOK, RequestOK
  <2>5. CurrentOK'
    BY <1>0, <2>1, <2>2 DEF CurrentOK
  <2>6. \A n \in wire' : n.id # finisher'.id
    BY <1>0, <2>1, <2>2 DEF WireOK
  <2> QED
    BY <2>1, <2>4, <2>5, <2>6, DataStill
<1>2. CASE Spin \/ Detach
  <2>1. /\ UNCHANGED <<source, tracker, attempt, wire, disk>> /\ finisher'.id = finisher.id
        /\ finisher.step \in {"spin", "detach"}
        /\ finisher'.step \in {"spin", "detach", "supplant", "refuse"}
    BY <1>2, <1>a DEF Spin, Detach, FlightType
  <2>2. Whole(disk.current)
    BY <1>0, <1>a, <2>1 DEF StopInv, CurrentOK
  <2>3. FinisherOK'
    BY <1>0, <2>1 DEF FinisherOK, Stopped
  <2>4. CurrentOK'
    BY <2>1, <2>2 DEF CurrentOK
  <2>5. \A n \in wire' : n.id # finisher'.id
    BY <1>0, <2>1 DEF WireOK, Stopped
  <2> QED
    BY <2>1, <2>3, <2>4, <2>5, DataStill
<1>3. CASE Spinup
  <2>1. /\ UNCHANGED <<source, tracker, attempt, wire, disk>> /\ finisher.step = "spinup"
        /\ finisher' = NoOne
    BY <1>3 DEF Spinup
  <2>2. Whole(disk.current) /\ finisher'.step = "idle"
    BY <1>0, <1>a, <2>1 DEF StopInv, CurrentOK, NoOne
  <2>3. FinisherOK' /\ CurrentOK'
    BY <2>1, <2>2 DEF FinisherOK, CurrentOK, Stopped
  <2> QED
    BY <2>1, <2>2, <2>3, DataStill DEF Stopped
<1> QED
  BY <1>1, <1>2, <1>3

\* The swap of directories.
LEMMA DataSwap ==
    ASSUME DataInv, FlightInv, Supplant \/ Install
    PROVE  DataInv'
<1> DEFINE a == finisher.id
<1>0. /\ DataType /\ SourceOK /\ (\A b \in Attempt : AttemptOK(b)) /\ WireOK /\ FinisherOK /\ CurrentOK
      /\ \A m \in wire : m.id \in Attempt
  BY DataParts
<1>1. StopInv /\ FlightType
  BY DEF FlightInv
<1>2. /\ UNCHANGED <<source, tracker, attempt, wire, shard>> /\ finisher.step \in {"supplant", "install"}
      /\ finisher' = [finisher EXCEPT !.step = finisher'.step]
      /\ finisher'.step = IF finisher.step = "supplant" THEN "install" ELSE "attach"
  BY <1>1 DEF Supplant, Install, FlightType
<1>3. finisher'.id = a /\ a \in Attempt /\ finisher.step \in Stopped /\ finisher'.step \in Stopped
  BY <1>0, <1>1, <1>2 DEF FinisherOK, Stopped, FlightType
<1>4. DOMAIN disk.arena[a] = Files /\ attempt[a].answer = "none" /\ attempt[a].state \in {"finishing", "failed"}
      /\ \A m \in wire : m.id # a
  BY <1>0, <1>2, <1>3 DEF FinisherOK, WireOK
<1>5. ~ shard.group
  BY <1>1, <1>2 DEF StopInv, Stopped
<1> HIDE DEF a
<1>6. PICK db : db = disk.arena[a]
  OBVIOUS
<1>7. Whole(db) /\ db \in Databases
  <2>1. \A f \in Files : f \in DOMAIN attempt[a].snapshot /\ db[f] = attempt[a].snapshot[f]
    BY <1>0, <1>3, <1>4, <1>6 DEF AttemptOK, ArenaOK
  <2>2. "raft-journal" \in Files /\ "state-machine" \in Files
    BY DEF Files
  <2>3. PICK s : s = attempt[a].snapshot
    OBVIOUS
  <2>4. Whole(s)
    BY <1>0, <1>3, <2>1, <2>2, <2>3 DEF AttemptOK, SnapshotOK
  <2>5. db \in Databases
    BY <1>0, <1>3, <1>6 DEF DataType
  <2> QED
    BY <1>4, <1>6, <2>1, <2>2, <2>3, <2>4, <2>5 DEF Whole, Usable, Journal, Applied
<1>8. PICK current, arena :
         /\ disk'.current = current /\ disk'.arena = arena /\ arena \in [Attempt -> Databases]
         /\ \A b \in Attempt : b # a => arena[b] = disk.arena[b]
         /\ disk' \in [current : Databases, arena : [Attempt -> Databases],
                       made : SUBSET Attempt, supplanted : SUBSET Attempt]
         /\ \/ finisher'.step = "install" /\ current = Missing /\ arena[a] = db
            \/ finisher'.step = "attach" /\ current = db /\ arena[a] = Missing
  <2>0. disk \in [current : Databases, arena : [Attempt -> Databases],
                  made : SUBSET Attempt, supplanted : SUBSET Attempt]
    BY <1>0 DEF DataType
  <2>1. CASE Supplant
    <3>1. disk' = [disk EXCEPT !.supplanted = @ \cup {a}, !.current = Missing] /\ finisher.step = "supplant"
      BY <2>1 DEF Supplant, a
    <3> QED
      BY <1>2, <1>3, <1>6, <2>0, <3>1, MissingType
  <2>2. CASE Install
    <3>1. /\ disk' = [disk EXCEPT !.current = db, !.arena[a] = Missing, !.made = @ \ {a}]
          /\ finisher.step = "install"
      BY <1>6, <2>2 DEF Install, a
    <3>2. finisher'.step = "attach"
      BY <1>2, <3>1
    <3>3. PICK arena : arena = [disk.arena EXCEPT ![a] = Missing]
      OBVIOUS
    <3>4. /\ arena \in [Attempt -> Databases] /\ arena[a] = Missing
          /\ \A b \in Attempt : b # a => arena[b] = disk.arena[b]
      BY <1>3, <2>0, <3>3, MissingType
    <3>5. disk' = [disk EXCEPT !.current = db, !.arena = arena, !.made = @ \ {a}]
      BY <2>0, <3>1, <3>3
    <3> QED
      BY <1>7, <2>0, <3>2, <3>4, <3>5
  <2> QED
    BY <2>1, <2>2
<1>9. DataType' /\ SourceOK'
  BY <1>0, <1>2, <1>8 DEF DataType, SourceOK
<1>10. ASSUME NEW b \in Attempt PROVE AttemptOK(b)'
  <2>1. AttemptOK(b) /\ attempt' = attempt /\ tracker' = tracker
    BY <1>0, <1>2
  <2>2. SnapshotOK(attempt[b])'
    BY <1>2, <2>1 DEF AttemptOK, SnapshotOK
  <2>3. ArenaOK(attempt[b], disk.arena[b])'
    <3>1. CASE disk'.arena[b] = disk.arena[b]
      BY <2>1, <3>1 DEF AttemptOK
    <3>2. CASE b = a /\ disk'.arena[b] = Missing
      BY <1>4, <2>1, <3>2, MissingType DEF ArenaOK
    <3> QED
      BY <1>6, <1>8, <3>1, <3>2
  <2> QED
    BY <2>1, <2>2, <2>3 DEF AttemptOK
<1>11. WireOK'
  <2>1. ASSUME NEW m \in wire' PROVE RequestOK(m, attempt[m.id], disk.arena[m.id])'
    <3>1. m \in wire /\ m.id # a /\ m.id \in Attempt
      BY <1>0, <1>2, <1>4
    <3>2. RequestOK(m, attempt[m.id], disk.arena[m.id]) /\ disk'.arena[m.id] = disk.arena[m.id]
      BY <1>0, <1>8, <3>1 DEF WireOK
    <3> QED
      BY <1>2, <3>2 DEF RequestOK
  <2> QED
    BY <1>0, <1>2, <1>3, <1>4, <2>1 DEF WireOK
<1>12. FinisherOK'
  BY <1>2, <1>3, <1>4, <1>6, <1>8 DEF FinisherOK
<1>13. CurrentOK'
  BY <1>2, <1>5, <1>7, <1>8, MissingType DEF CurrentOK, CanOpen
<1> QED
  BY <1>9, <1>10, <1>11, <1>12, <1>13 DEF DataInv

LEMMA DataAttach ==
    ASSUME DataInv, FlightInv, Attach
    PROVE  DataInv'
<1>0. /\ DataType /\ SourceOK /\ (\A b \in Attempt : AttemptOK(b)) /\ WireOK /\ FinisherOK /\ CurrentOK
      /\ \A m \in wire : m.id \in Attempt
  BY DataParts
<1>1. PICK a, res : /\ a = finisher.id /\ res \in {"ok", "error"}
                    /\ attempt' = [attempt EXCEPT ![a].answer = IF attempt[a].state = "failed" THEN @ ELSE res]
  BY DEF Attach, Answer
<1>2. /\ UNCHANGED <<source, tracker, wire, disk>> /\ finisher.step \in {"attach", "refuse"}
      /\ finisher' = [finisher EXCEPT !.step = "spinup"]
  BY DEF Attach
<1>3. finisher'.id = a /\ finisher'.step = "spinup" /\ a \in Attempt /\ Whole(disk.current)
      /\ attempt[a].state \in {"finishing", "failed"} /\ \A m \in wire : m.id # a
  BY <1>0, <1>1, <1>2 DEF FlightInv, FlightType, FinisherOK, WireOK, CurrentOK, Stopped
<1>4. PICK r : r = attempt[a]
  OBVIOUS
<1>5. r \in [state : Active \cup {"none", "failed", "succeeded"}, snapshot : Databases,
             sent : SUBSET Files, answer : {"none", "ok", "error"}]
  BY <1>3, <1>4, AttemptParts
<1>6. PICK x \in {"none", "ok", "error"} : attempt' = [attempt EXCEPT ![a] = [r EXCEPT !.answer = x]]
  <2>1. CASE r.state = "failed"
    BY <1>0, <1>1, <1>3, <1>4, <1>5, <2>1 DEF DataType
  <2>2. CASE r.state # "failed"
    BY <1>0, <1>1, <1>3, <1>4, <1>5, <2>2 DEF DataType
  <2> QED
    BY <2>1, <2>2
<1>7. attempt \in [Attempt -> [state : Active \cup {"none", "failed", "succeeded"}, snapshot : Databases,
                               sent : SUBSET Files, answer : {"none", "ok", "error"}]]
  BY <1>0 DEF DataType
<1>8. /\ attempt'[a] = [r EXCEPT !.answer = x] /\ \A b \in Attempt : b # a => attempt'[b] = attempt[b]
  BY <1>3, <1>6, <1>7
<1>9. /\ attempt'[a].state = r.state /\ attempt'[a].snapshot = r.snapshot /\ attempt'[a].sent = r.sent
      /\ attempt'[a] \in [state : Active \cup {"none", "failed", "succeeded"}, snapshot : Databases,
                          sent : SUBSET Files, answer : {"none", "ok", "error"}]
  BY <1>5, <1>8
<1>10. attempt' \in [Attempt -> [state : Active \cup {"none", "failed", "succeeded"}, snapshot : Databases,
                                 sent : SUBSET Files, answer : {"none", "ok", "error"}]]
  BY <1>6, <1>7, <1>8, <1>9
<1>11. DataType' /\ SourceOK'
  BY <1>0, <1>2, <1>10 DEF DataType, SourceOK
<1>12. ASSUME NEW b \in Attempt PROVE AttemptOK(b)'
  <2>1. AttemptOK(b) /\ disk' = disk /\ tracker' = tracker /\ source' = source
    BY <1>0, <1>2
  <2>2. /\ attempt'[b].state = attempt[b].state /\ attempt'[b].snapshot = attempt[b].snapshot
        /\ attempt'[b].sent = attempt[b].sent /\ (b = a \/ attempt'[b].answer = attempt[b].answer)
    BY <1>4, <1>8, <1>9
  <2>3. SnapshotOK(attempt[b])' /\ ArenaOK(attempt[b], disk.arena[b])'
    BY <1>3, <2>1, <2>2 DEF AttemptOK, SnapshotOK, ArenaOK
  <2> QED
    BY <2>1, <2>2, <2>3 DEF AttemptOK
<1>13. WireOK'
  <2>1. ASSUME NEW m \in wire' PROVE RequestOK(m, attempt[m.id], disk.arena[m.id])'
    <3>1. m \in wire /\ m.id # a /\ m.id \in Attempt
      BY <1>0, <1>2, <1>3
    <3>2. RequestOK(m, attempt[m.id], disk.arena[m.id]) /\ attempt'[m.id] = attempt[m.id]
      BY <1>0, <1>8, <3>1 DEF WireOK
    <3> QED
      BY <1>2, <3>2 DEF RequestOK
  <2> QED
    BY <1>0, <1>2, <1>3, <2>1 DEF WireOK
<1>14. FinisherOK' /\ CurrentOK'
  BY <1>2, <1>3 DEF FinisherOK, CurrentOK, Stopped
<1> QED
  BY <1>11, <1>12, <1>13, <1>14 DEF DataInv

LEMMA DataCrash ==
    ASSUME DataInv, Crash
    PROVE  DataInv'
<1>0. CurrentOK
  BY DataParts
<1>1. /\ UNCHANGED <<source, tracker, attempt, disk>> /\ wire' = {} /\ finisher' = NoOne
      /\ shard' = Booted(disk.current)
  BY DEF Crash
<1>2. finisher'.step = "idle" /\ (shard'.group <=> CanOpen(disk.current))
  BY <1>1, BootedType DEF NoOne
<1>3. FinisherOK' /\ CurrentOK'
  BY <1>0, <1>1, <1>2 DEF FinisherOK, CurrentOK, Stopped
<1> QED
  BY <1>1, <1>2, <1>3, DataStill

\* The entries of the leader, or a vote, leave a whole database whole.
LEMMA ServedWhole ==
    ASSUME SourceOK, NEW db \in Databases, Whole(db), NEW new \in Served(db)
    PROVE  new \in Databases /\ Whole(new)
<1> DEFINE j == Journal(db)
           s == Journal(source)
<1>0. /\ DOMAIN db = Files /\ db["state-machine"] \in Nat /\ j \in JournalType /\ db["raft-journal"] = j
      /\ j.start <= db["state-machine"] + 1 /\ db["state-machine"] <= j.commit /\ j.start <= j.size
      /\ Applied(db) = db["state-machine"]
  BY DEF Whole, Usable, Applied, Journal, Files
<1>1. s.size \in Nat /\ s.commit \in Nat /\ s.commit + 1 = s.size
  BY DEF SourceOK, Whole, JournalType
<1>2. j.start \in Nat /\ j.size \in Nat /\ j.commit \in Nat /\ j.term \in Nat
  BY <1>0 DEF JournalType
<1>3. \/ new = db
      \/ /\ j.size < s.size
         /\ new = WithFile(WithFile(db, "raft-journal", [j EXCEPT !.size = s.size, !.commit = s.commit]),
                           "state-machine", s.commit)
      \/ new = WithFile(db, "raft-journal", [j EXCEPT !.term = j.term + 1])
  BY DEF Served
<1> HIDE DEF j, s
<1>4. ASSUME NEW k \in JournalType, NEW n \in Nat, NEW d, d \in Databases, DOMAIN d = Files,
             d["raft-journal"] = k, d["state-machine"] = n,
             k.start <= n + 1, n <= k.commit, k.start <= k.size
      PROVE  d \in Databases /\ Whole(d)
  <2>1. Journal(d) = k /\ Applied(d) = n
    BY <1>4 DEF Journal, Applied, Files
  <2> QED
    BY <1>4, <2>1 DEF Whole, Usable
<1>5. CASE j.size < s.size /\ new = WithFile(WithFile(db, "raft-journal", [j EXCEPT !.size = s.size, !.commit = s.commit]),
                                              "state-machine", s.commit)
  <2>1. PICK k : k = [j EXCEPT !.size = s.size, !.commit = s.commit]
    OBVIOUS
  <2>2. k \in JournalType /\ k.start = j.start /\ k.size = s.size /\ k.commit = s.commit
    BY <1>0, <1>1, <2>1 DEF JournalType
  <2>3. PICK d : d = WithFile(db, "raft-journal", k)
    OBVIOUS
  <2>4. DOMAIN d = Files /\ d["raft-journal"] = k /\ d \in Databases
    <3>1. DOMAIN d = Files /\ d["raft-journal"] = k
      BY <1>0, <2>3, WithFileWhole
    <3>2. d \in Databases
      BY <2>2, <2>3, WithFileType DEF Files
    <3> QED
      BY <3>1, <3>2
  <2>5. new = WithFile(d, "state-machine", s.commit)
    BY <1>5, <2>1, <2>3
  <2>6. DOMAIN new = Files /\ new["raft-journal"] = k /\ new["state-machine"] = s.commit
    BY <2>4, <2>5, WithFileWhole
  <2>7. new \in Databases
    BY <1>1, <2>4, <2>5, WithFileType DEF Files
  <2>8. k.start <= s.commit + 1 /\ s.commit <= k.commit /\ k.start <= k.size
    BY <1>0, <1>1, <1>2, <1>5, <2>2
  <2> QED
    BY <1>1, <1>4, <2>2, <2>6, <2>7, <2>8
<1>6. CASE new = WithFile(db, "raft-journal", [j EXCEPT !.term = j.term + 1])
  <2>1. PICK k : k = [j EXCEPT !.term = j.term + 1]
    OBVIOUS
  <2>2. k \in JournalType /\ k.start = j.start /\ k.size = j.size /\ k.commit = j.commit
    BY <1>0, <1>2, <2>1 DEF JournalType
  <2>3. new = WithFile(db, "raft-journal", k)
    BY <1>6, <2>1
  <2>4. DOMAIN new = Files /\ new["raft-journal"] = k /\ new["state-machine"] = db["state-machine"]
    BY <1>0, <2>3, WithFileWhole
  <2>5. new \in Databases
    BY <2>2, <2>3, WithFileType DEF Files
  <2> QED
    BY <1>0, <1>4, <2>2, <2>4, <2>5
<1> QED
  BY <1>3, <1>5, <1>6

LEMMA DataRequest ==
    ASSUME DataInv, FlightInv, NEW w \in Worker, Arrive(w) \/ Threads(w)
    PROVE  DataInv'
<1>0. /\ DataType /\ SourceOK /\ (\A b \in Attempt : AttemptOK(b)) /\ WireOK /\ FinisherOK /\ CurrentOK
      /\ \A m \in wire : m.id \in Attempt
  BY DataParts
<1>1. FlightType /\ StopInv
  BY DEF FlightInv
<1>2. UNCHANGED <<source, tracker, attempt, wire, finisher>> /\ shard'.group = shard.group
  BY <1>1 DEF Arrive, Threads, Register, Recheck, Serve, up, down, FlightType
<1>3. PICK current : /\ disk' = disk \/ disk' = [disk EXCEPT !.current = current]
                     /\ disk' # disk => /\ current \in Served(disk.current) /\ CanOpen(disk.current)
                                        /\ worker[w].pc = "running"
  BY DEF Arrive, Threads, Register, Recheck, Serve
<1>4. CASE disk' = disk
  <2>1. FinisherOK' /\ CurrentOK'
    BY <1>0, <1>2, <1>4 DEF FinisherOK, CurrentOK
  <2>2. finisher'.step \in Stopped => \A m \in wire' : m.id # finisher'.id
    BY <1>0, <1>2 DEF WireOK
  <2> QED
    BY <1>2, <1>4, <2>1, <2>2, DataStill
<1>5. CASE disk' # disk
  <2>1. Whole(disk.current) /\ disk.current \in Databases /\ shard.group
    <3>1. w \in Running
      BY <1>3, <1>5 DEF Running
    <3> QED
      BY <1>0, <1>1, <1>3, <1>5, <3>1 DEF StopInv, CurrentOK, DataType
  <2>2. current \in Databases /\ Whole(current)
    BY <1>0, <1>3, <1>5, <2>1, ServedWhole
  <2>3. /\ disk'.current = current /\ disk'.arena = disk.arena
        /\ disk' \in [current : Databases, arena : [Attempt -> Databases],
                      made : SUBSET Attempt, supplanted : SUBSET Attempt]
    BY <1>0, <1>3, <1>5, <2>2 DEF DataType
  <2>4. DataType' /\ SourceOK'
    BY <1>0, <1>2, <2>3 DEF DataType, SourceOK
  <2>5. ASSUME NEW b \in Attempt PROVE AttemptOK(b)'
    <3>1. AttemptOK(b)
      BY <1>0
    <3>2. SnapshotOK(attempt[b])'
      BY <1>2, <3>1 DEF AttemptOK, SnapshotOK
    <3> QED
      BY <1>2, <2>3, <3>1, <3>2 DEF AttemptOK
  <2>6. WireOK'
    BY <1>0, <1>2, <2>3 DEF WireOK
  <2>7. FinisherOK'
    BY <1>0, <1>2, <2>3 DEF FinisherOK
  <2>8. CurrentOK'
    BY <2>2, <2>3 DEF CurrentOK
  <2> QED
    BY <2>4, <2>5, <2>6, <2>7, <2>8 DEF DataInv
<1> QED
  BY <1>4, <1>5

LEMMA DataStep == DataInv /\ FlightInv /\ [Next]_vars => DataInv'
<1> SUFFICES ASSUME DataInv, FlightInv, [Next]_vars PROVE DataInv'
  OBVIOUS
<1>1. CASE UNCHANGED vars
  <2>1. WireOK /\ FinisherOK /\ CurrentOK
    BY DataParts
  <2>2. /\ UNCHANGED <<source, tracker, attempt, disk>> /\ wire' \subseteq wire
        /\ finisher'.step \in Stopped => \A m \in wire' : m.id # finisher'.id
    BY <1>1, <2>1 DEF vars, WireOK
  <2>3. FinisherOK' /\ CurrentOK'
    BY <1>1, <2>1 DEF vars, FinisherOK, CurrentOK
  <2> QED
    BY <2>2, <2>3, DataStill
<1>2. ASSUME NEW a \in Attempt, Resilverer(a) \/ Fail(a) PROVE DataInv'
  BY <1>2, DataSnapshot, DataSendNext, DataSucceed, DataFail DEF Resilverer
<1>3. ASSUME NEW m \in wire, resilveringStart(m) \/ resilveringCopy(m, TRUE) \/ resilveringCopy(m, FALSE)
      PROVE  DataInv'
  BY <1>3, DataStart, DataCopy
<1>4. CASE Handler
  BY <1>3, <1>4, DataFinisher, DataSwap, DataAttach DEF Handler
<1>5. CASE SourceCommit \/ SourceApply \/ SourceTrim \/ Contact \/ Crash
  BY <1>5, DataSource, DataContact, DataCrash
<1> QED
  BY <1>1, <1>2, <1>3, <1>4, <1>5, DataRequest DEF Next

\* Whatever the leader commits, applies and trims while RaftResilverer takes and
\* sends a snapshot, whichever transfers fail or arrive late, and wherever the target
\* stops: a shard is never opened on anything but a whole database whose journal
\* covers what its state machine has not applied.
THEOREM OpenIsUsableCorrect == Spec => []OpenIsUsable
<1>1. Spec => [](FlightInv /\ DataInv)
  <2>1. Init => FlightInv /\ DataInv
    BY FlightInit, DataInit
  <2>2. (FlightInv /\ DataInv) /\ [Next]_vars => (FlightInv /\ DataInv)'
    BY FlightStep, DataStep
  <2> QED
    BY <2>1, <2>2, PTL DEF Spec
<1>2. FlightInv /\ DataInv => OpenIsUsable
  <2> SUFFICES ASSUME FlightInv, DataInv PROVE OpenIsUsable
    OBVIOUS
  <2>1. DataType /\ SourceOK /\ CurrentOK /\ FlightType /\ Counted
    BY DataParts DEF FlightInv
  <2>2. DOMAIN source = Files
    BY <2>1 DEF SourceOK, Whole
  <2>3. disk.current \in Databases
    BY <2>1 DEF DataType
  <2>4. \A a \in Attempt : attempt[a].sent \subseteq Files
    BY AttemptParts
  <2>5. finisher.id \in 0..MaxAttempts
    BY <2>1 DEF FlightType
  <2>6. TypeOK
    BY <2>1, <2>2, <2>3, <2>4, <2>5, DatabaseParts DEF TypeOK, Counted, OnCore
  <2> QED
    BY <2>1, <2>6 DEF OpenIsUsable, CurrentOK, Whole
<1> QED
  BY <1>1, <1>2, PTL

=============================================================================
