---------------------------- MODULE RequestParser ----------------------------
(***************************************************************************)
(* How a request is read from the network: Link returns any number of the  *)
(* bytes the client sent, BufferedReader keeps them in fixed-size regions  *)
(* and hands out all of the bytes asked for or none, RedisParser resumes   *)
(* at any of those points.  An element that lies within one region is not  *)
(* copied: the request refers to the region, and keeps it alive.           *)
(*                                                                         *)
(* A byte is a string; a command name and a key are one byte.  A request   *)
(* has at least one element.  Every `consume' is one step.                 *)
(***************************************************************************)
EXTENDS Integers, Sequences, FiniteSets, SequencesExt, TLC

CONSTANTS
    BufferSize,    \* bytes per region (32 KiB in the code)
    LargeElement,  \* bytes an unauthenticated client may not send (1 MiB)
    Clients        \* what a client sends, how it connects, and what may happen
                   \* meanwhile: [requests, tail (bytes after them), password
                   \* (one is required), trusted (localhost), breaks (the link
                   \* may), stops (the node may), and the bounds reigns and
                   \* detaches on losses of leadership and of the backend]

ASSUME ParserAssumption == BufferSize \in Nat \ {0} /\ LargeElement \in Nat \ {0}

VARIABLES
    client,  \* the member of Clients that connected
    reader,  \* BufferedReader, and `taken', the bytes received so far
    parser,  \* RedisParser and the request it fills
    pc       \* where the thread that serves the connection is

LOCAL Lesser(a, b) == IF a < b THEN a ELSE b

-----------------------------------------------------------------------------
(* What the client sends *)

Digit == <<"0", "1", "2", "3", "4", "5", "6", "7", "8", "9">>
CR == "\r"
LF == "\n"

\* A number below 10 as a byte, and a sequence of digits as a number.
ToByte(n) == Digit[n + 1]
IsDigit(b) == b \in {Digit[i] : i \in 1..10}
ToInt(b) == (CHOOSE i \in 1..10 : Digit[i] = b) - 1
ToNumber(s) == FoldLeft(LAMBDA n, b : 10 * n + ToInt(b), 0, s)

encodeElement(e) == <<"$", ToByte(Len(e)), CR, LF>> \o e \o <<CR, LF>>
encode(r) == <<"*", ToByte(Len(r)), CR, LF>> \o FlattenSeq([i \in 1..Len(r) |-> encodeElement(r[i])])

Sent(c) == FlattenSeq([i \in 1..Len(c.requests) |-> encode(c.requests[i])]) \o c.tail

\* The stream of bytes is kept with the client.
Stream == client.stream
Connects(c) == client = c @@ [stream |-> Sent(c)]

-----------------------------------------------------------------------------
(* BufferedReader: `memory' holds the regions allocated so far, those from *)
(* `front' on are the buffers.                                             *)

EmptyReader ==
    [memory |-> <<[i \in 1..BufferSize |-> ""]>>, front |-> 1,
     position_read |-> 0, position_write |-> 0, taken |-> 0, ready |-> FALSE]

available_bytes(r) ==
    (Len(r.memory) - r.front + 1) * BufferSize - r.position_read - (BufferSize - r.position_write)

\* The regions once the bytes lie behind position `start'; a full region is
\* followed by a new one.
Written(memory, start, bytes) ==
    LET end == start + Len(bytes)
    IN [k \in 1..(end \div BufferSize + 1) |->
           [i \in 1..BufferSize |->
               LET p == (k - 1) * BufferSize + i
               IN IF p > start /\ p <= end THEN bytes[p - start]
                  ELSE IF k <= Len(memory) THEN memory[k][i] ELSE ""]]

\* Mutant: the region is used again from its start once all of it was read.
readFromLinkRewinding(r, n) ==
    LET again == r.front = Len(r.memory) /\ r.position_read = r.position_write
        start == (Len(r.memory) - 1) * BufferSize + IF again THEN 0 ELSE r.position_write
    IN [r EXCEPT !.taken = @ + n, !.ready = FALSE,
                 !.position_read = IF again THEN 0 ELSE @,
                 !.position_write = (start + n) % BufferSize,
                 !.memory = Written(@, start, SubSeq(Stream, r.taken + 1, r.taken + n))]

\* n bytes are received behind position_write.
readFromLink(r, n) ==
    LET start == (Len(r.memory) - 1) * BufferSize + r.position_write
    IN [r EXCEPT !.taken = @ + n, !.ready = FALSE,
                 !.position_write = (start + n) % BufferSize,
                 !.memory = Written(@, start, SubSeq(Stream, r.taken + 1, r.taken + n))]

\* The most readFromLink receives: it fills whole regions until it has more
\* than limit bytes.
MostReceived(r, limit) ==
    LET space == BufferSize - r.position_write
    IN space + BufferSize * (IF space > limit THEN 0 ELSE (limit - space) \div BufferSize + 1)

\* The outcomes of canConsume(len): 1, 0 (a slow link) or -1 (a broken one).
\* A poller that saw the socket readable finds at least one byte on it.
canConsume(len) ==
    LET have == available_bytes(reader)
        rest == Len(Stream) - reader.taken
        most == Lesser(rest, MostReceived(reader, len - have))
    IN IF have >= len
       THEN {[reader |-> reader, status |-> 1]}
       ELSE {[reader |-> readFromLink(reader, n), status |-> IF have + n >= len THEN 1 ELSE 0] :
                n \in (IF reader.ready /\ rest > 0 THEN 1 ELSE 0)..most}
            \cup IF client.breaks THEN {[reader |-> reader, status |-> -1]} ELSE {}

\* The next len bytes lie in the front region.
FitsFront(r, len) == BufferSize - r.position_read >= len

\* consumeInternal: the bytes are copied, regions that were read are dropped.
Copied(r, len) ==
    [region |-> 0, at |-> 0, len |-> len,
     own |-> [i \in 1..len |-> LET p == r.position_read + i - 1
                               IN r.memory[r.front + p \div BufferSize][(p % BufferSize) + 1]]]
AfterCopy(r, len) ==
    [r EXCEPT !.front = @ + (r.position_read + len) \div BufferSize,
              !.position_read = (@ + len) % BufferSize]

\* consume(len, PinnedBuffer)
Pinned(r, len) ==
    IF FitsFront(r, len)
    THEN [region |-> r.front, at |-> r.position_read, len |-> len, own |-> <<>>]
    ELSE Copied(r, len)
AfterPinned(r, len) ==
    IF FitsFront(r, len) THEN [r EXCEPT !.position_read = @ + len] ELSE AfterCopy(r, len)

\* The bytes of a PinnedBuffer, as they are now.
contents(b) ==
    IF b.region = 0 THEN SubSeq(b.own, 1, b.len)
    ELSE SubSeq(reader.memory[b.region], b.at + 1, b.at + b.len)

-----------------------------------------------------------------------------
(* RedisParser *)

EmptyParser ==
    [request_size |-> 0, current_element |-> 0, element_size |-> -1,
     current_integer |-> <<>>, encounteredZeroSize |-> FALSE, request |-> <<>>]

\* readInteger on the bytes up to the newline: the number, or -1.
readInteger(prefix, s) ==
    LET digits == SubSeq(s, 2, Len(s) - 2)
    IN IF /\ s[1] = prefix /\ s[Len(s) - 1] = CR
          /\ \A i \in 1..Len(digits) : IsDigit(digits[i])
       THEN ToNumber(digits) ELSE -1

\* The parser waits for the number of elements, for the size of one, or for
\* its bytes.
Wants ==
    IF parser.request_size = 0 THEN "*"
    ELSE IF parser.element_size = -1 THEN "$" ELSE "bytes"

\* One byte of the number of elements or of the size of one.  The outcome is
\* "again", "slow", "error" or the new state of the parser.
IntegerRead(authenticated) ==
    /\ Wants # "bytes"
    /\ \E c \in canConsume(1) :
          LET s == Append(parser.current_integer, Copied(c.reader, 1).own[1])
              n == readInteger(Wants, s)
          IN \/ /\ c.status < 1
                /\ reader' = c.reader
                /\ pc' = IF c.status = 0 THEN "slow" ELSE "error"
                /\ UNCHANGED parser
             \/ /\ c.status = 1
                /\ reader' = AfterCopy(c.reader, 1)
                /\ \/ /\ s[Len(s)] # LF
                      /\ parser' = [parser EXCEPT !.current_integer = s]
                      /\ UNCHANGED pc
                   \/ /\ s[Len(s)] = LF /\ n = -1
                      /\ pc' = "error" /\ UNCHANGED parser
                   \/ /\ s[Len(s)] = LF /\ n # -1 /\ Wants = "*"
                      /\ parser' = [parser EXCEPT !.request_size = n, !.current_element = 0,
                                                  !.element_size = -1, !.current_integer = <<>>,
                                                  !.request = <<>>]
                      /\ pc' = IF ~authenticated /\ n >= 5 THEN "error" ELSE pc
                   \/ /\ s[Len(s)] = LF /\ n # -1 /\ Wants = "$"
                      /\ parser' = [parser EXCEPT !.element_size = n, !.current_integer = <<>>,
                                                  !.encounteredZeroSize = @ \/ n = 0]
                      /\ pc' = IF ~authenticated /\ n >= LargeElement THEN "error" ELSE pc

\* The bytes of one element; the last one completes the request.
ElementRead ==
    /\ Wants = "bytes"
    /\ LET len == parser.element_size + 2
       IN \E c \in canConsume(len) :
             LET buffer == Pinned(c.reader, len)
                 bytes == Copied(c.reader, len).own
                 last == parser.current_element + 1 = parser.request_size
             IN \/ /\ c.status < 1
                   /\ reader' = c.reader
                   /\ pc' = IF c.status = 0 THEN "slow" ELSE "error"
                   /\ UNCHANGED parser
                \/ /\ c.status = 1
                   /\ reader' = AfterPinned(c.reader, len)
                   /\ parser' = [parser EXCEPT
                         !.request = Append(@, [buffer EXCEPT !.len = @ - 2]),
                         !.element_size = -1, !.current_element = @ + 1,
                         !.request_size = IF last THEN 0 ELSE @]
                   /\ pc' = IF SubSeq(bytes, len - 1, len) # <<CR, LF>> THEN "error"
                            ELSE IF ~last THEN pc
                            ELSE IF parser.encounteredZeroSize THEN "error" ELSE "handle"

=============================================================================
