------------------------------- MODULE Session -------------------------------
(***************************************************************************)
(* One client connection, from the bytes on the socket to the answers:     *)
(* Connection::processRequests, MultiHandler with its phantom batches,     *)
(* Transaction and its form in the journal, the filters, authentication,   *)
(* QuarkDBNode, Shard, the pending queue and BufferedWriter.               *)
(*                                                                         *)
(* A request carries its number `n', an answer the number `of' of the      *)
(* request it is meant for: neither is on the wire.                        *)
(***************************************************************************)
EXTENDS RequestParser

CONSTANTS
    phantomBatchLimit,   \* writes per phantom batch (100 in the code)
    PurgeBytes,          \* bytes dropped at once in MONITOR mode (1023)
    OutputSize,          \* OUTPUT_BUFFER_SIZE, in answers
    MaxMessages          \* bound: commands of others seen in MONITOR mode

VARIABLES
    conn,      \* Connection: authorization, authenticator, monitor, handled
    multi,     \* MultiHandler: activated, phantom, requests
    pending,   \* PendingQueue::pending
    writer,    \* BufferedWriter, and what it sent
    node,      \* accepting and attached (two InFlightTrackers), role, bounds
    journal,   \* this connection's entries of the raft journal
    executed   \* what the state machine applied, per entry

vars == <<client, reader, parser, pc, conn, multi, pending, writer, node, journal, executed>>
backend == <<node, journal, executed>>

-----------------------------------------------------------------------------
(* Commands: the table of names and types *)

CommandType(c) ==
    CASE c \in {"GET", "TX_READONLY"} -> "READ"
      [] c \in {"SET", "HMSET", "LEASE_GET", "TIMESTAMPED_LEASE_GET", "TX_READWRITE"} -> "WRITE"
      [] c \in {"PING", "CLIENT", "MONITOR", "MULTI", "EXEC", "DISCARD"} -> "CONTROL"
      [] c \in {"AUTH", "CHALLENGE", "VALIDATE"} -> "AUTHENTICATION"
      [] c = "QUARKDB_HEALTH" -> "QUARKDB"
      [] c = "RECOVERY_INFO" -> "RECOVERY"
      [] OTHER -> "INVALID"

\* InternalFilter::process: these names exist in the journal only.
InternalFilter(c) == IF c = "TIMESTAMPED_LEASE_GET" THEN "INVALID" ELSE c

\* The request that was just parsed.
currentRequest ==
    [n |-> conn.handled + 1, elements |-> parser.request,
     command |-> InternalFilter(contents(parser.request[1])[1])]

Command == currentRequest.command
Type == CommandType(Command)

-----------------------------------------------------------------------------
(* Transaction *)

\* A PinnedBuffer with its own copy of a text.
Text(b) == [region |-> 0, at |-> 0, len |-> 1, own |-> <<b>>]

Bytes(r) == [i \in 1..Len(r.elements) |-> contents(r.elements[i])]

containsWrites(tx) == \E i \in 1..Len(tx) : CommandType(tx[i].command) = "WRITE"

serialize(tx) ==
    <<ToByte(Len(tx))>> \o FlattenSeq([i \in 1..Len(tx) |->
        LET parts == Bytes(tx[i])
        IN <<ToByte(Len(parts))>> \o FlattenSeq([j \in 1..Len(parts) |->
               <<ToByte(Len(parts[j]))>> \o parts[j]])])

\* Mutant of the fused form: a batch of one is always unwrapped.
toRedisRequestUnwrapped(tx, phantom) ==
    IF phantom THEN Bytes(tx[1])
    ELSE <<<<IF containsWrites(tx) THEN "TX_READWRITE" ELSE "TX_READONLY">>, serialize(tx),
           <<IF phantom THEN "phantom" ELSE "real">>>>

toRedisRequest(tx, phantom) ==
    IF phantom /\ Len(tx) = 1 THEN Bytes(tx[1])
    ELSE <<<<IF containsWrites(tx) THEN "TX_READWRITE" ELSE "TX_READONLY">>, serialize(tx),
           <<IF phantom THEN "phantom" ELSE "real">>>>

\* The parts that start at each position of a serialized transaction, when
\* `left' of them are to come, and the position behind them.
deserializeParts(s) ==
    LET read[pos \in 1..Len(s) + 1, left \in 0..9] ==
            IF left = 0 THEN [parts |-> <<>>, next |-> pos]
            ELSE LET length == ToInt(s[pos])
                     rest == read[pos + 1 + length, left - 1]
                 IN [parts |-> <<SubSeq(s, pos + 1, pos + length)>> \o rest.parts, next |-> rest.next]
    IN read

deserialize(s) ==
    LET parts == deserializeParts(s)
        read[pos \in 1..Len(s) + 1, left \in 0..9] ==
            IF left = 0 THEN <<>>
            ELSE LET first == parts[pos + 1, ToInt(s[pos])]
                 IN <<first.parts>> \o read[first.next, left - 1]
    IN read[2, ToInt(s[1])]

\* What dispatchWrite executes for a request of the journal.
Unpacked(r) == IF r[1] = <<"TX_READWRITE">> THEN deserialize(r[2]) ELSE <<r>>

\* LeaseFilter::transform
LeaseFilter(tx) ==
    [i \in 1..Len(tx) |->
        IF tx[i].command # "LEASE_GET" THEN tx[i]
        ELSE [tx[i] EXCEPT !.command = "TIMESTAMPED_LEASE_GET",
                 !.elements = Append([@ EXCEPT ![1] = Text("TIMESTAMPED_LEASE_GET")], Text("now"))]]

-----------------------------------------------------------------------------
(* BufferedWriter and PendingQueue *)

Answer(n, what) == [of |-> n, what |-> what]

flush(w) == [w EXCEPT !.wire = @ \o w.buffered, !.buffered = <<>>]

send(w, answers) ==
    IF Len(answers) + Len(w.buffered) <= OutputSize THEN [w EXCEPT !.buffered = @ \o answers]
    ELSE IF Len(answers) > OutputSize THEN [flush(w) EXCEPT !.wire = @ \o answers]
    ELSE [flush(w) EXCEPT !.buffered = answers]

\* A dead connection is sent nothing.
sendIfAttached(w, answers) == IF pc = "closed" THEN w ELSE send(w, answers)

\* A PendingRequest: a transaction, or a response that waits behind one.
Waiting(tx, phantom, index) ==
    [tx |-> tx, phantom |-> phantom, of |-> conn.handled + 1, index |-> index, raw |-> <<>>]
Stored(answers) == [tx |-> <<>>, phantom |-> FALSE, of |-> 0, index |-> -1, raw |-> answers]

\* The answers to a transaction: expectedResponses() of them.
multiply(p, what) ==
    IF p.phantom THEN [i \in 1..Len(p.tx) |-> Answer(p.tx[i].n, what)]
    ELSE <<Answer(p.of, what)>>

\* Mutant: a response is sent although writes are pending.
appendResponseAtOnce(answers) ==
    /\ writer' = send(writer, answers)
    /\ UNCHANGED pending

appendResponse(answers) ==
    \/ /\ pending = <<>>
       /\ writer' = send(writer, answers)
       /\ UNCHANGED pending
    \/ /\ pending # <<>>
       /\ pending' = Append(pending, Stored(answers))
       /\ UNCHANGED writer

raw(what) == appendResponse(<<Answer(conn.handled + 1, what)>>)

\* flushPending: the rest of the queue is answered with an error.
flushPending(what) ==
    /\ writer' = flush(FoldLeft(LAMBDA w, p : sendIfAttached(w, IF p.tx = <<>> THEN p.raw ELSE multiply(p, what)),
                                writer, pending))
    /\ pending' = <<>>

-----------------------------------------------------------------------------
(* RaftDispatcher::service, Shard and QuarkDBNode *)

service(tx, phantom) ==
    LET p == Waiting(tx, phantom, -1)
        filtered == LeaseFilter(tx)
    IN \/ /\ node.role # "leader"
          /\ appendResponse(multiply(p, IF node.role = "none" THEN "unavailable" ELSE "moved"))
          /\ UNCHANGED journal
       \/ /\ node.role = "leader" /\ ~containsWrites(tx)
          /\ IF pending = <<>> THEN writer' = send(writer, multiply(p, "done")) /\ UNCHANGED pending
                               ELSE pending' = Append(pending, p) /\ UNCHANGED writer
          /\ UNCHANGED journal
       \/ /\ node.role = "leader" /\ containsWrites(tx)
          /\ journal' = Append(journal, [request |-> toRedisRequest(filtered, phantom),
                                         of |-> [i \in 1..Len(tx) |-> tx[i].n]])
          /\ pending' = Append(pending, [p EXCEPT !.tx = filtered, !.index = Len(journal) + 1])
          /\ UNCHANGED writer

isAuthenticated == conn.authorization \/ ~client.password \/ client.trusted

\* QuarkDBNode::dispatch and Shard::dispatch of a transaction.
dispatchTransaction(tx, phantom) ==
    \/ /\ ~isAuthenticated
       /\ appendResponse(<<Answer(IF phantom THEN tx[1].n ELSE conn.handled + 1, "noauth")>>)
       /\ UNCHANGED journal
    \/ /\ isAuthenticated /\ ~node.attached
       /\ appendResponse(multiply(Waiting(tx, phantom, -1), "unavailable"))
       /\ UNCHANGED journal
    \/ /\ isAuthenticated /\ node.attached
       /\ service(tx, phantom)

\* AuthenticationDispatcher::dispatch: any such command withdraws the
\* authorization first.  A challenge can be answered once, until its deadline.
authentication ==
    LET argument == contents(parser.request[2])[1]
        granted == \/ Command = "AUTH" /\ argument = "pw"
                   \/ Command = "VALIDATE" /\ conn.authenticator = "fresh" /\ argument = "signature"
    IN /\ raw(CASE ~client.password -> "nopassword"
                [] client.password /\ granted -> "ok"
                [] client.password /\ Command = "CHALLENGE" -> "challenge"
                [] OTHER -> "denied")
       /\ conn' = [conn EXCEPT !.handled = @ + 1,
                               !.authorization = ~client.password \/ granted,
                               !.authenticator = IF ~client.password \/ Command = "AUTH" THEN @
                                                 ELSE IF Command = "CHALLENGE" THEN "fresh" ELSE "none"]
       /\ UNCHANGED journal

\* The answer of the node or of the shard itself, whatever the backend does.
OwnAnswer ==
    CASE Command \in {"PING", "CLIENT"} -> "pong"
      [] Command = "MONITOR" -> "ok"
      [] Type = "RECOVERY" -> "notallowed"
      [] Type = "QUARKDB" -> "health"
      [] Type = "INVALID" -> "unknown"
      [] OTHER -> "none"

\* QuarkDBNode::dispatch and Shard::dispatch of any other request.
dispatchRequest ==
    /\ conn' = [conn EXCEPT !.handled = @ + 1, !.authorization = isAuthenticated,
                            !.monitor = isAuthenticated /\ Command = "MONITOR"]
    /\ \/ /\ ~isAuthenticated
          /\ raw("noauth") /\ UNCHANGED journal
       \/ /\ isAuthenticated /\ OwnAnswer # "none"
          /\ raw(OwnAnswer) /\ UNCHANGED journal
       \/ /\ isAuthenticated /\ OwnAnswer = "none" /\ ~node.attached
          /\ raw("unavailable") /\ UNCHANGED journal
       \/ /\ isAuthenticated /\ Type \in {"READ", "WRITE"} /\ node.attached
          /\ service(<<currentRequest>>, TRUE)

-----------------------------------------------------------------------------
(* Connection::processRequests and MultiHandler *)

HasPhantom == multi.activated /\ multi.phantom /\ multi.requests # <<>>
Inactive == [activated |-> FALSE, phantom |-> FALSE, requests |-> <<>>]

\* finalizePhantomTransaction; processRequests goes on at `next'.
finalizePhantomTransaction(next) ==
    /\ HasPhantom
    /\ dispatchTransaction(multi.requests, TRUE)
    /\ multi' = Inactive
    /\ conn' = [conn EXCEPT !.authorization = isAuthenticated]
    /\ pc' = next
    /\ UNCHANGED <<client, reader, parser, node, executed>>

\* The batch ends before anything but another write that fits in it.
MustFinalize ==
    /\ HasPhantom
    /\ \/ Command \in {"MULTI", "TX_READWRITE"}
       \/ Len(multi.requests) >= phantomBatchLimit
       \/ Type # "WRITE"

FinalizeFirst == pc = "handle" /\ MustFinalize /\ finalizePhantomTransaction("finalized")

\* A request is about to be handled, the batch being out of the way.
Handling == pc = "finalized" \/ (pc = "handle" /\ ~MustFinalize)
Done == pc' = "loop" /\ UNCHANGED <<client, reader, parser, node, executed>>
Counted == conn' = [conn EXCEPT !.handled = @ + 1]

\* MULTI
HandleMulti ==
    /\ Handling /\ Command = "MULTI"
    /\ LET begins == Len(parser.request) = 1 /\ ~multi.activated
       IN /\ raw(IF Len(parser.request) # 1 THEN "errargs" ELSE IF begins THEN "ok" ELSE "nested")
          /\ multi' = IF begins THEN [multi EXCEPT !.activated = TRUE, !.phantom = FALSE] ELSE multi
    /\ Counted /\ Done /\ UNCHANGED journal

\* EXEC and DISCARD outside of a MULTI block.
HandleWithout ==
    /\ Handling /\ ~multi.activated
    /\ Command = "DISCARD" \/ (Command = "EXEC" /\ pc = "handle")
    /\ raw("without")
    /\ Counted /\ Done /\ UNCHANGED <<journal, multi>>

\* Within a MULTI block: EXEC executes it, DISCARD drops it, reads and writes
\* are queued.
HandleInBlock ==
    /\ Handling /\ multi.activated /\ ~multi.phantom
    /\ Command \notin {"MULTI", "TX_READWRITE"}
    /\ \/ /\ Command = "DISCARD"
          /\ raw("ok") /\ multi' = Inactive /\ Counted /\ UNCHANGED journal
       \/ /\ Command = "EXEC" /\ multi.requests = <<>>
          /\ raw("empty") /\ multi' = Inactive /\ Counted /\ UNCHANGED journal
       \/ /\ Command = "EXEC" /\ multi.requests # <<>>
          /\ dispatchTransaction(multi.requests, FALSE)
          /\ multi' = Inactive
          /\ conn' = [conn EXCEPT !.handled = @ + 1, !.authorization = isAuthenticated]
       \/ /\ Command \notin {"EXEC", "DISCARD"} /\ Type \notin {"READ", "WRITE"}
          /\ raw("refused") /\ Counted /\ UNCHANGED <<multi, journal>>
       \/ /\ Type \in {"READ", "WRITE"}
          /\ raw("queued") /\ Counted
          /\ multi' = [multi EXCEPT !.requests = Append(@, currentRequest)]
          /\ UNCHANGED journal
    /\ Done

\* A write joins the phantom batch, or starts one.
HandleWrite ==
    /\ Handling /\ Type = "WRITE" /\ Command # "TX_READWRITE"
    /\ multi.activated => multi.phantom
    /\ multi' = [activated |-> TRUE, phantom |-> TRUE, requests |-> Append(multi.requests, currentRequest)]
    /\ Counted /\ Done /\ UNCHANGED <<pending, writer, journal>>

\* Everything else goes to the dispatcher at once, a client's TX_READWRITE
\* even within a MULTI block.
HandleRequest ==
    /\ Handling
    /\ \/ Command = "TX_READWRITE"
       \/ ~multi.activated /\ Type # "WRITE" /\ Command \notin {"MULTI", "DISCARD", "EXEC"}
    /\ IF Type = "AUTHENTICATION" THEN authentication ELSE dispatchRequest
    /\ Done /\ UNCHANGED multi

\* An EXEC that ended a phantom batch is passed to the backend as well, where
\* it is neither a read nor a write: an assertion of RaftDispatcher fails.
HandleExecAfterBatch ==
    /\ pc = "finalized" /\ Command = "EXEC"
    /\ \/ /\ isAuthenticated /\ node.attached
          /\ pc' = "crashed" /\ UNCHANGED <<client, reader, parser, conn, pending, writer, journal, node, executed>>
       \/ /\ ~(isAuthenticated /\ node.attached)
          /\ dispatchRequest /\ Done
    /\ UNCHANGED multi

Handle ==
    \/ FinalizeFirst \/ HandleMulti \/ HandleWithout \/ HandleInBlock
    \/ HandleWrite \/ HandleRequest \/ HandleExecAfterBatch

-----------------------------------------------------------------------------
(* The loop around them, and the poller *)

\* The poller saw the socket readable, or closed.
Wake ==
    /\ pc = "idle" /\ node.accepting
    /\ reader.taken < Len(Stream) \/ client.breaks
    /\ pc' = "loop"
    /\ reader' = [reader EXCEPT !.ready = TRUE]
    /\ UNCHANGED <<client, parser, conn, multi, pending, writer, backend>>

\* The condition of the loop; in MONITOR mode the input is dropped.
LoopTop ==
    /\ pc = "loop"
    /\ \/ /\ ~node.accepting
          /\ pc' = "slow" /\ UNCHANGED <<reader, parser>>
       \/ /\ node.accepting /\ ~conn.monitor
          /\ pc' = "fetch" /\ UNCHANGED <<reader, parser>>
       \/ /\ node.accepting /\ conn.monitor
          /\ parser' = EmptyParser
          /\ \E c \in canConsume(PurgeBytes) :
                /\ reader' = IF c.status = 1 THEN AfterCopy(c.reader, PurgeBytes) ELSE c.reader
                /\ pc' = CASE c.status = 1 -> "loop" [] c.status = 0 -> "slow" [] OTHER -> "error"
    /\ UNCHANGED <<client, conn, multi, pending, writer, backend>>

\* RedisParser::fetch, one `consume' at a time.
Fetch ==
    /\ pc = "fetch"
    /\ IntegerRead(conn.authorization) \/ ElementRead
    /\ UNCHANGED <<client, conn, multi, pending, writer, backend>>

\* Mutant: processRequests returns without executing the batch.
SlowLinkForgetting ==
    /\ pc = "slow"
    /\ pc' = "idle" /\ writer' = flush(writer)
    /\ UNCHANGED <<client, reader, parser, conn, multi, pending, backend>>

\* A slow link, or no more requests accepted: the batch is executed, then
\* processRequests returns and flushes the writer.
SlowLink ==
    /\ pc = "slow"
    /\ \/ finalizePhantomTransaction("slow")
       \/ /\ ~HasPhantom
          /\ pc' = "idle" /\ writer' = flush(writer)
          /\ UNCHANGED <<client, reader, parser, conn, multi, pending, backend>>

\* A link or protocol error: the connection is deleted, and its batch with it.
LinkError ==
    /\ pc = "error"
    /\ pc' = "closed" /\ writer' = flush(writer) /\ multi' = Inactive
    /\ UNCHANGED <<client, reader, parser, conn, pending, backend>>

Connection == Wake \/ LoopTop \/ Fetch \/ SlowLink \/ LinkError \/ Handle

-----------------------------------------------------------------------------
(* What happens meanwhile *)

\* RaftWriteTracker applies the next entry: through the pending queue, with
\* all that waits behind the write, or from the journal.
Apply ==
    LET index == Len(executed) + 1
        blocked == pending # <<>> /\ pending[1].index = index
        later == {i \in 2..Len(pending) : pending[i].index > index}
        served == IF later = {} THEN Len(pending)
                  ELSE (CHOOSE i \in later : \A j \in later : i <= j) - 1
    IN /\ node.attached /\ pc # "crashed"
       /\ index <= Len(journal)
       /\ \/ /\ blocked
             /\ executed' = Append(executed,
                   FlattenSeq([i \in 1..Len(pending[1].tx) |-> Unpacked(Bytes(pending[1].tx[i]))]))
             /\ writer' = flush(FoldLeft(
                   LAMBDA w, p : sendIfAttached(w, IF p.tx = <<>> THEN p.raw ELSE multiply(p, "done")),
                   writer, SubSeq(pending, 1, served)))
             /\ pending' = SubSeq(pending, served + 1, Len(pending))
          \/ /\ ~blocked
             /\ executed' = Append(executed, Unpacked(journal[index].request))
             /\ UNCHANGED <<pending, writer>>
       /\ UNCHANGED <<client, reader, parser, pc, conn, multi, node, journal>>

\* The node loses leadership, or becomes leader again.
ChangeRole ==
    /\ pc # "crashed" /\ node.attached
    /\ \/ /\ node.role = "leader" /\ node.reigns < client.reigns
          /\ \E role \in {"follower", "none"} :
                /\ node' = [node EXCEPT !.role = role, !.reigns = @ + 1]
                /\ flushPending(IF role = "none" THEN "unavailable" ELSE "moved")
       \/ /\ node.role # "leader"
          /\ node' = [node EXCEPT !.role = "leader"]
          /\ UNCHANGED <<writer, pending>>
    /\ UNCHANGED <<client, reader, parser, pc, conn, multi, journal, executed>>

\* Shard::detach waits for the requests in flight, and destroys the write
\* tracker; start attaches the backend again.
Detach ==
    /\ node.attached /\ pc # "crashed" /\ node.detaches < client.detaches
    /\ node' = [node EXCEPT !.attached = FALSE, !.detaches = @ + 1]
    /\ flushPending("unavailable")
    /\ UNCHANGED <<client, reader, parser, pc, conn, multi, journal, executed>>

Attach ==
    /\ ~node.attached
    /\ node' = [node EXCEPT !.attached = TRUE]
    /\ UNCHANGED <<client, reader, parser, pc, conn, multi, pending, writer, journal, executed>>

\* SIGTERM: the poller accepts no more requests.
Shutdown ==
    /\ node.accepting /\ client.stops /\ pc # "crashed"
    /\ node' = [node EXCEPT !.accepting = FALSE]
    /\ UNCHANGED <<client, reader, parser, pc, conn, multi, pending, writer, journal, executed>>

\* The deadline of a challenge passes.
Expire ==
    /\ conn.authenticator = "fresh"
    /\ conn' = [conn EXCEPT !.authenticator = "expired"]
    /\ UNCHANGED <<client, reader, parser, pc, multi, pending, writer, backend>>

\* CommandMonitor::broadcast of a command of another connection.
Broadcast ==
    /\ conn.monitor /\ pc \notin {"closed", "crashed"} /\ node.messages < MaxMessages
    /\ node' = [node EXCEPT !.messages = @ + 1]
    /\ \/ /\ pending = <<>>
          /\ writer' = flush(send(writer, <<Answer(0, "message")>>))
          /\ UNCHANGED pending
       \/ /\ pending # <<>>
          /\ pending' = Append(pending, Stored(<<Answer(0, "message")>>))
          /\ writer' = flush(writer)
    /\ UNCHANGED <<client, reader, parser, pc, conn, multi, journal, executed>>

Init ==
    /\ \E c \in Clients : Connects(c)
    /\ reader = EmptyReader /\ parser = EmptyParser /\ pc = "idle"
    /\ conn = [authorization |-> FALSE, authenticator |-> "none", monitor |-> FALSE, handled |-> 0]
    /\ multi = Inactive
    /\ pending = <<>> /\ writer = [buffered |-> <<>>, wire |-> <<>>]
    /\ node = [accepting |-> TRUE, attached |-> TRUE, role |-> "leader",
               reigns |-> 0, detaches |-> 0, messages |-> 0]
    /\ journal = <<>> /\ executed = <<>>

Next ==
    \/ Connection \/ Apply \/ ChangeRole \/ Detach \/ Attach
    \/ Shutdown \/ Expire \/ Broadcast

Spec == Init /\ [][Next]_vars

\* The thread pool serves a readable connection, and the applier a committed
\* entry; a majority of the cluster stays connected.
FairSpec == Spec /\ WF_vars(Connection) /\ WF_vars(Apply) /\ WF_vars(Attach)

-----------------------------------------------------------------------------
(* Properties *)

\* What a variable may be, and the bounds of the buffers.
TypeOK ==
    /\ reader.front \in 1..Len(reader.memory)
    /\ reader.position_read \in 0..BufferSize /\ reader.position_write \in 0..BufferSize - 1
    /\ available_bytes(reader) >= 0
    /\ parser.element_size \in -1..9 /\ parser.current_element \in 0..parser.request_size + 9
    /\ pc \in {"idle", "loop", "fetch", "handle", "finalized", "slow", "error", "closed", "crashed"}
    /\ Len(multi.requests) <= phantomBatchLimit \/ ~multi.phantom
    /\ pending # <<>> => pending[1].index > Len(executed)
    /\ Len(writer.buffered) <= OutputSize

Requests == client.requests
Name(k) == InternalFilter(Requests[k][1][1])
Kind(k) == CommandType(Name(k))

\* Reference: whether request k + 1 is within a MULTI block, in the order sent.
InBlock ==
    LET f[k \in 0..Len(Requests)] ==
            CASE k = 0 -> FALSE
              [] k > 0 /\ Name(k) = "MULTI" /\ Len(Requests[k]) = 1 -> TRUE
              [] k > 0 /\ Name(k) \in {"EXEC", "DISCARD"} -> FALSE
              [] OTHER -> f[k - 1]
    IN f

\* Reference: the requests the EXEC at k executes.
Block(k) ==
    SetToSortSeq({i \in 1..k - 1 : /\ Kind(i) \in {"READ", "WRITE"} /\ Name(i) # "TX_READWRITE"
                                   /\ \A j \in i..k - 1 : InBlock[j]}, <)

Answers == SelectSeq(writer.wire \o writer.buffered, LAMBDA a : a.what # "message")

\* Reference: the client may execute request k, given the answers before it.
Authorized(k) ==
    \/ ~client.password \/ client.trusted
    \/ \E j \in 1..k - 1 : /\ Kind(j) = "AUTHENTICATION" /\ Answers[j].what = "ok"
                           /\ \A i \in j + 1..k - 1 : Kind(i) # "AUTHENTICATION"

Outcomes(k) == IF Authorized(k) THEN {"done", "unavailable", "moved"} ELSE {"noauth"}

\* An EXEC right behind writes may be refused by the backend instead.
PassedOn(k) == {a \in {"noauth", "unavailable"} : k > 1 /\ Name(k) = "EXEC" /\ Kind(k - 1) = "WRITE"}

\* Reference: what request k may be answered.
Allowed(k) ==
    CASE Name(k) = "MULTI" -> IF Len(Requests[k]) # 1 THEN {"errargs"}
                              ELSE IF InBlock[k - 1] THEN {"nested"} ELSE {"ok"}
      [] Name(k) = "EXEC" /\ InBlock[k - 1] -> IF Block(k) = <<>> THEN {"empty"} ELSE Outcomes(k)
      [] Name(k) = "DISCARD" /\ InBlock[k - 1] -> {"ok"}
      [] Name(k) \in {"EXEC", "DISCARD"} /\ ~InBlock[k - 1] -> {"without"} \cup PassedOn(k)
      [] Name(k) = "TX_READWRITE" -> Outcomes(k)
      [] InBlock[k - 1] /\ Kind(k) \in {"READ", "WRITE"} -> {"queued"}
      [] InBlock[k - 1] /\ Kind(k) \notin {"READ", "WRITE"} -> {"refused"}
      [] Kind(k) \in {"READ", "WRITE"} -> Outcomes(k)
      [] Kind(k) = "AUTHENTICATION" -> {"ok", "challenge", "denied", "nopassword"}
      [] OTHER -> IF Authorized(k) THEN {"pong", "ok", "notallowed", "health", "unknown"} ELSE {"noauth"}

\* Reference: the writes that are done once request k is.
Writes(k) ==
    {i \in IF Name(k) = "EXEC" THEN ToSet(Block(k)) ELSE {k} : Kind(i) = "WRITE"}

\* The entry of the journal that request k is part of was applied.
Applied(k) == \E i \in 1..Len(executed) : k \in ToSet(journal[i].of)

(***************************************************************************)
(* The client gets one answer per request, in the order of the requests,   *)
(* and the kind of answer it would get if it sent them one by one: the     *)
(* server may cut the stream anywhere, batch writes behind its back, hold  *)
(* answers back behind pending writes and buffer them.  A write that is    *)
(* answered as done was executed.  (processRequests, MultiHandler,         *)
(* PendingQueue, BufferedWriter)                                           *)
(***************************************************************************)
AnswersInOrder ==
    \A k \in 1..Len(Answers) :
        /\ Answers[k].of = k
        /\ Answers[k].what \in Allowed(k)
        /\ Answers[k].what = "done" => \A i \in Writes(k) : Applied(i)

\* Reference: what the state machine executes for request k.
Effect(k) ==
    IF Name(k) = "LEASE_GET"
    THEN <<Append([Requests[k] EXCEPT ![1] = <<"TIMESTAMPED_LEASE_GET">>], <<"now">>)>>
    ELSE Unpacked(Requests[k])

(***************************************************************************)
(* The state machine executes the bytes the client sent, although elements *)
(* are not copied but point into the regions the connection goes on        *)
(* receiving into; in the order sent, each request at most once, and a     *)
(* MULTI block as a whole, in one entry; the types and the bounds of the   *)
(* buffers hold as well.  (BufferedReader::consume, RedisParser::fetch,    *)
(* MultiHandler::process)                                                  *)
(***************************************************************************)
ExecutesAsSent ==
    LET of == FlattenSeq([i \in 1..Len(journal) |-> journal[i].of])
    IN /\ TypeOK
       /\ \A i \in 1..Len(executed) :
             executed[i] = FlattenSeq([j \in 1..Len(journal[i].of) |-> Effect(journal[i].of[j])])
       /\ \A i, j \in 1..Len(of) : i < j => of[i] < of[j]
       /\ \A i \in 1..Len(journal), k \in 1..Len(Requests) :
             /\ Name(k) = "EXEC" /\ InBlock[k - 1]
             /\ ToSet(journal[i].of) \cap ToSet(Block(k)) # {}
             => journal[i].of = Block(k)

(***************************************************************************)
(* A node that applies an entry from its journal (a follower, or the       *)
(* leader after it lost the client) executes what the leader executed from *)
(* the transaction it kept in memory.  (Transaction::toRedisRequest,       *)
(* deserialize, RaftWriteTracker::applySingleCommit)                       *)
(***************************************************************************)
ReplayAgrees ==
    \A i \in 1..Len(executed) : executed[i] = Unpacked(journal[i].request)

(***************************************************************************)
(* Every request of a client that stays connected is answered, unless the  *)
(* node shuts down, the client is in MONITOR mode, or an assertion failed: *)
(* no batch stays behind on a slow link, no answer in a buffer.            *)
(* (processRequests, finalizePhantomTransaction, FlushGuard)               *)
(***************************************************************************)
AllAnswered ==
    <>(\/ Len(SelectSeq(writer.wire, LAMBDA a : a.what # "message")) = Len(Requests)
       \/ pc \in {"closed", "crashed"} \/ conn.monitor \/ ~node.accepting)

=============================================================================
