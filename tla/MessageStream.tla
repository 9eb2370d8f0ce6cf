--------------------------- MODULE MessageStream ---------------------------
(***************************************************************************)
(* The bytes of a connection: messages are written to a buffer, cut into   *)
(* chunks, sent in pieces, received in pieces and put together again.      *)
(* buffering.c, protocol.c, the loops of connection.c and communication.c, *)
(* and load_message and fetch of v1.c and v3.c.                            *)
(*                                                                         *)
(* A byte is a number. A chunk header is two digits in the base of a byte, *)
(* so that the largest chunk is what two digits can say. The payload of a  *)
(* message is as many bytes as its size, all different and none a digit.   *)
(***************************************************************************)
EXTENDS Integers, FiniteSets, FiniteSetsExt, SequencesExt

CONSTANTS
    Base,        \* values of a byte: 256 in the code
    InitialSize, \* size of a new buffer: 8192 in the code
    Sizes,       \* sizes of the messages that are loaded
    MaxMessages, \* bound: messages loaded
    MaxFailures, \* bound: messages that cannot be encoded, and links that break
    MaxBad       \* bound: answers that cannot be decoded

ASSUME BaseAssumption == Base \in Nat \ {0, 1}
ASSUME SizesAssumption ==
    /\ InitialSize \in Nat \ {0}
    /\ Sizes \subseteq Nat \ {0}
    /\ \E n \in Sizes : \A m \in Sizes : m <= n
    /\ MaxMessages \in Nat /\ MaxFailures \in Nat /\ MaxBad \in Nat

MaxChunk == Base * Base - 1 \* BOLT_MAX_CHUNK_SIZE

\* A byte of memory that nothing was written to.
Undefined == -1

-----------------------------------------------------------------------------
(* BoltBuffer: data up to extent, the first byte to unload, the allocation. *)

BoltBuffer_create(size) == [data |-> <<>>, cursor |-> 0, size |-> size]

Extent(b) == Len(b.data)
Unloadable(b) == Extent(b) - b.cursor
Loadable(b) == b.size - Extent(b)

\* Moves the contents to the front, but only if they do not overlap.
Compact(b) ==
    IF b.cursor > 0 /\ Unloadable(b) < b.cursor
    THEN [b EXCEPT !.data = SubSeq(b.data, b.cursor + 1, Extent(b)), !.cursor = 0]
    ELSE b

\* Reserves without looking whether there is room.
LoadPointer_NoGrowth(b, n) == [b EXCEPT !.data = @ \o [i \in 1 .. n |-> Undefined]]

\* Reserves n bytes after the extent; their contents are not defined yet.
LoadPointer(b, n) ==
    [b EXCEPT !.size = IF n > Loadable(b) THEN @ + (n - Loadable(b)) ELSE @,
              !.data = @ \o [i \in 1 .. n |-> Undefined]]

\* Writes bytes at an offset of the reserved space.
Store(b, offset, bytes) ==
    [b EXCEPT !.data = SubSeq(@, 1, offset) \o bytes
                          \o SubSeq(@, offset + Len(bytes) + 1, Len(@))]

LoadBytes(b, bytes) == Store(LoadPointer(b, Len(bytes)), Extent(b), bytes)

Ahead(b, n) == SubSeq(b.data, b.cursor + 1, b.cursor + n)

Advance(b, n) == [b EXCEPT !.cursor = @ + n]

\* unload_pointer empties the buffer with its last byte, unload compacts it.
UnloadPointer(b, n) ==
    IF b.cursor + n = Extent(b)
    THEN [b EXCEPT !.data = <<>>, !.cursor = 0]
    ELSE Advance(b, n)

Unload(b, n) ==
    IF Unloadable(b) = n THEN Compact(Advance(b, n)) ELSE Advance(b, n)

Truncate(b, extent) == [b EXCEPT !.data = SubSeq(@, 1, extent)]

-----------------------------------------------------------------------------
(* Chunks. *)

Header(n) == <<n \div Base, n % Base>>
HeaderValue(bytes) == bytes[1] * Base + bytes[2]

\* push_to_transmission: chunks as large as possible, then a chunk of no bytes.
Chunked[bytes \in Seq(Nat)] ==
    IF bytes = <<>> THEN Header(0)
    ELSE LET n == IF Len(bytes) > MaxChunk THEN MaxChunk ELSE Len(bytes)
         IN  Header(n) \o SubSeq(bytes, 1, n) \o Chunked[SubSeq(bytes, n + 1, Len(bytes))]

-----------------------------------------------------------------------------
VARIABLES
    msgTx,    \* tx_buffer of the protocol state: the message being written
    tx,       \* tx_buffer of the connection: chunks to send
    rx,       \* rx_buffer of the connection: bytes received
    msgRx,    \* rx_buffer of the protocol state: the message put together
    pc,       \* what the thread that uses the connection is doing
    sending,  \* BoltCommunication_send in progress
    call,     \* BoltConnection_receive in progress
    toPeer, toClient, \* bytes on their way
    bad,      \* messages whose answer cannot be decoded
    failures, \* messages that were not encoded and links that broke
    loaded, served,   \* messages loaded, messages that reached the server
    answered, fetched \* what the server answered, what fetches found

buffers == <<msgTx, tx, rx, msgRx>>
wire == <<toPeer, toClient>>
histories == <<loaded, served, answered, fetched>>
vars == <<buffers, pc, sending, call, wire, bad, failures, histories>>

\* The payload of the i-th message. Its first byte is a structure marker.
Stride == Max(Sizes) + 1
Payload(i, n) == [k \in 1 .. n |-> Base + i * Stride + k]
IsMarker(byte) == byte >= Base /\ (byte - Base) % Stride = 1
MessageOf(byte) == (byte - Base) \div Stride
Unreadable == <<Undefined>>

NoSend == [bytes |-> <<>>, total |-> 0, remaining |-> 0]
NoCall == [size |-> 0, delta |-> 0, max |-> 0, total |-> 0]

Init ==
    /\ msgTx = BoltBuffer_create(InitialSize) /\ tx = BoltBuffer_create(InitialSize)
    /\ msgRx = BoltBuffer_create(InitialSize) /\ rx = BoltBuffer_create(InitialSize)
    /\ pc = "idle"
    /\ sending = NoSend
    /\ call = NoCall
    /\ toPeer = <<>> /\ toClient = <<>>
    /\ bad = {}
    /\ failures = 0
    /\ loaded = <<>> /\ served = <<>> /\ answered = <<>> /\ fetched = <<>>

-----------------------------------------------------------------------------
(* Loading and sending. *)

PushToTransmission(message, transmission) ==
    LoadBytes(transmission, Chunked[Ahead(message, Unloadable(message))])

\* load_message
Load(n) ==
    LET payload == Payload(Len(loaded) + 1, n)
        written == LoadBytes(msgTx, payload)
    IN  /\ pc = "idle"
        /\ Len(loaded) < MaxMessages
        /\ tx' = PushToTransmission(written, tx)
        /\ msgTx' = Compact(UnloadPointer(written, Unloadable(written)))
        /\ loaded' = Append(loaded, payload)
        /\ UNCHANGED <<rx, msgRx, pc, sending, call, wire, bad, failures, served, answered, fetched>>

\* Gives only the cursor back.
RolledBack_CursorOnly(b, cursor, extent) == [b EXCEPT !.cursor = cursor]

\* load_message gives the cursor and the extent their old values back.
RolledBack(b, cursor, extent) == [Truncate(b, extent) EXCEPT !.cursor = cursor]

\* load_message of a message that cannot be encoded beyond its first k bytes.
LoadFails(n, k) ==
    LET written == LoadBytes(msgTx, SubSeq(Payload(Len(loaded) + 1, n), 1, k))
    IN  /\ pc = "idle"
        /\ failures < MaxFailures
        /\ msgTx' = RolledBack(written, msgTx.cursor, Extent(msgTx))
        /\ failures' = failures + 1
        /\ UNCHANGED <<tx, rx, msgRx, pc, sending, call, wire, bad, histories>>

\* BoltConnection_send up to the first call of comm->send
Send ==
    /\ pc = "idle"
    /\ Unloadable(tx) > 0
    /\ sending' = [bytes |-> Ahead(tx, Unloadable(tx)), total |-> 0, remaining |-> Unloadable(tx)]
    /\ tx' = UnloadPointer(tx, Unloadable(tx))
    /\ pc' = "sending"
    /\ UNCHANGED <<msgTx, rx, msgRx, call, wire, bad, failures, histories>>

Sent(s, k) == [s EXCEPT !.total = @ + k, !.remaining = @ - k]

\* comm->send takes k bytes.
SendSome(k) ==
    /\ pc = "sending"
    /\ k \in 1 .. sending.remaining
    /\ toPeer' = toPeer \o SubSeq(sending.bytes, sending.total + 1, sending.total + k)
    /\ IF Sent(sending, k).total < Len(sending.bytes)
       THEN sending' = Sent(sending, k) /\ UNCHANGED <<pc, tx>>
       ELSE sending' = NoSend /\ pc' = "idle" /\ tx' = Compact(tx)
    /\ UNCHANGED <<msgTx, rx, msgRx, call, toClient, bad, failures, histories>>

-----------------------------------------------------------------------------
(* Receiving. *)

\* BoltConnection_receive of n bytes, up to the first call of comm->recv: the
\* bytes that are missing, the space reserved for as many as there is room for.
\* Asks for all of them when one is missing.
Missing_Whole(b, n) == IF Unloadable(b) < n THEN n ELSE 0

Missing(b, n) == n - Unloadable(b)

MaxSize(b, n) == Max({Missing(b, n), Loadable(b)})

MakeRoom(b) == IF Loadable(b) = 0 THEN Compact(b) ELSE b

Receive(b, n) ==
    IF Missing(b, n) > 0
    THEN /\ rx' = LoadPointer(MakeRoom(b), MaxSize(MakeRoom(b), n))
         /\ call' = [size |-> n, delta |-> Missing(b, n),
                     max |-> MaxSize(MakeRoom(b), n), total |-> 0]
    ELSE /\ rx' = b
         /\ call' = [size |-> n, delta |-> 0, max |-> 0, total |-> 0]

\* The extent that is left when less was received than was reserved.
Adjusted(b, max, received) == Truncate(b, Extent(b) - max + received)

\* comm->recv returns k bytes; the loop of BoltCommunication_receive ends when
\* there are enough.
RecvSome(k) ==
    LET total == call.total + k
        filled == Store(rx, Extent(rx) - call.max + call.total, SubSeq(toClient, 1, k))
    IN  /\ call.delta > 0
        /\ pc # "defunct"
        /\ k \in 1 .. call.max - call.total
        /\ k <= Len(toClient)
        /\ toClient' = SubSeq(toClient, k + 1, Len(toClient))
        /\ IF total < call.delta
           THEN /\ rx' = filled
                /\ call' = [call EXCEPT !.total = total]
           ELSE /\ rx' = Adjusted(filled, call.max, total)
                /\ call' = [call EXCEPT !.delta = 0, !.max = 0, !.total = 0]
        /\ UNCHANGED <<msgTx, tx, msgRx, pc, sending, toPeer, bad, failures, histories>>

\* The link breaks or a time-out ends a send or a receive: the connection is
\* DEFUNCT, what was reserved stays reserved.
Break ==
    /\ failures < MaxFailures
    /\ pc = "sending" \/ call.delta > 0
    /\ pc' = "defunct"
    /\ sending' = NoSend
    /\ tx' = Compact(tx)
    /\ failures' = failures + 1
    /\ UNCHANGED <<msgTx, rx, msgRx, call, wire, bad, histories>>

Received == pc \in {"header", "chunk", "next header"} /\ call.delta = 0

\* The application fetches one message of those that answer what it has sent.
Fetch ==
    /\ pc = "idle"
    /\ Unloadable(tx) = 0
    /\ Len(fetched) < Len(loaded)
    /\ Receive(rx, 2)
    /\ pc' = "header"
    /\ UNCHANGED <<msgTx, tx, msgRx, sending, wire, bad, failures, histories>>

\* The first header of a message makes room in the message buffer.
MessageBuffer == IF pc = "header" THEN Compact(msgRx) ELSE msgRx

\* A header of a chunk that is not empty: the chunk follows.
TakeHeader ==
    LET size == HeaderValue(Ahead(rx, 2))
    IN  /\ Received /\ pc # "chunk"
        /\ size # 0
        /\ msgRx' = LoadPointer(MessageBuffer, size)
        /\ Receive(Unload(rx, 2), size)
        /\ pc' = "chunk"
        /\ UNCHANGED <<msgTx, tx, sending, wire, bad, failures, histories>>

\* Every chunk is put at the front of the message buffer.
ChunkTarget_Front(b, size) == b.cursor

\* Where load_pointer made room for the chunk.
ChunkTarget(b, size) == Extent(b) - size

TakeChunk ==
    /\ Received /\ pc = "chunk"
    /\ msgRx' = Store(msgRx, ChunkTarget(msgRx, call.size), Ahead(rx, call.size))
    /\ Receive(Unload(rx, call.size), 2)
    /\ pc' = "next header"
    /\ UNCHANGED <<msgTx, tx, sending, wire, bad, failures, histories>>

\* unload: what it makes of the bytes it was given, and how many of them it reads.
\* What does not start with a structure is a protocol violation after one byte,
\* a value inside that cannot be decoded ends it before the end of the message.
Unloaded(bytes) ==
    IF IsMarker(bytes[1]) /\ MessageOf(bytes[1]) \notin bad
    THEN [item |-> bytes, reads |-> {Len(bytes)}]
    ELSE [item |-> Unreadable,
          reads |-> IF IsMarker(bytes[1]) THEN 2 .. Len(bytes) - 1 ELSE {1}]

\* The empty chunk ends the message; the fetch returns what it finds in it.
TakeEnd ==
    /\ Received /\ pc = "next header"
    /\ HeaderValue(Ahead(rx, 2)) = 0
    /\ rx' = Unload(rx, 2)
    /\ LET message == Unloaded(Ahead(msgRx, Unloadable(msgRx)))
       IN  /\ fetched' = Append(fetched, message.item)
           /\ \E n \in message.reads : msgRx' = Advance(msgRx, n)
    /\ call' = NoCall
    /\ pc' = "idle"
    /\ UNCHANGED <<msgTx, tx, sending, wire, bad, failures, loaded, served, answered>>

-----------------------------------------------------------------------------
(* The server: takes a message that arrived as a whole, answers with its     *)
(* payload in chunks of its own choice.                                      *)

\* The first message in the bytes and how many bytes it takes; none yet if 0.
FirstMessage[bytes \in Seq(Nat)] ==
    LET n == HeaderValue(bytes)
        rest == FirstMessage[SubSeq(bytes, n + 3, Len(bytes))]
    IN  IF Len(bytes) < 2 \/ Len(bytes) < n + 2 THEN [payload |-> <<>>, length |-> 0]
        ELSE IF n = 0 THEN [payload |-> <<>>, length |-> 2]
        ELSE IF rest.length = 0 THEN rest
        ELSE [payload |-> SubSeq(bytes, 3, n + 2) \o rest.payload, length |-> n + 2 + rest.length]

\* All ways to cut a message into chunks.
Cut[bytes \in Seq(Nat)] ==
    IF bytes = <<>> THEN {Header(0)}
    ELSE UNION {{Header(n) \o SubSeq(bytes, 1, n) \o rest :
                    rest \in Cut[SubSeq(bytes, n + 1, Len(bytes))]} :
                n \in {m \in 1 .. MaxChunk : m <= Len(bytes)}}

Serve ==
    LET message == FirstMessage[toPeer]
    IN  /\ message.length > 0
        /\ toPeer' = SubSeq(toPeer, message.length + 1, Len(toPeer))
        /\ served' = Append(served, message.payload)
        /\ \E bytes \in Cut[message.payload] : toClient' = toClient \o bytes
        /\ \/ answered' = Append(answered, message.payload) /\ UNCHANGED bad
           \/ /\ Cardinality(bad) < MaxBad /\ Len(message.payload) > 2
              /\ answered' = Append(answered, Unreadable)
              /\ bad' = bad \cup {MessageOf(message.payload[1])}
        /\ UNCHANGED <<buffers, pc, sending, call, failures, loaded, fetched>>

-----------------------------------------------------------------------------
\* Steps that the thread inside the library or the network takes by itself.
Progress ==
    \/ \E k \in 1 .. sending.remaining : SendSome(k)
    \/ \E k \in 1 .. call.max : RecvSome(k)
    \/ TakeHeader \/ TakeChunk \/ TakeEnd

Next ==
    \/ Progress \/ Serve
    \/ \E n \in Sizes : Load(n) \/ \E k \in 1 .. n - 1 : LoadFails(n, k)
    \/ Send \/ Fetch \/ Break

Spec == Init /\ [][Next]_vars

\* Bytes that are on their way arrive, and the server answers.
FairSpec == Spec /\ WF_vars(Progress) /\ WF_vars(Serve)

-----------------------------------------------------------------------------
(* Properties. *)

BufferOK(b) ==
    /\ b.cursor \in 0 .. Extent(b)
    /\ Extent(b) <= b.size

\* No buffer is read beyond what was loaded, nor written beyond what is
\* allocated, whatever grows, is compacted, rolled back or adjusted.
TypeOK ==
    /\ \A b \in {msgTx, tx, rx, msgRx} : BufferOK(b)
    /\ pc \in {"idle", "sending", "header", "chunk", "next header", "defunct"}
    /\ sending.total + sending.remaining = Len(sending.bytes)
    /\ call.total <= call.max /\ call.delta <= call.max
    /\ failures \in 0 .. MaxFailures

Messages == {Payload(i, n) : i \in 1 .. MaxMessages, n \in Sizes} \cup {Unreadable}

\* Between load_message and the server: messages arrive as they were loaded, in
\* order, nothing of a message that was rolled back among them.
Requests == INSTANCE Fifo WITH Items <- Messages, put <- loaded, got <- served
RequestsInOrder == Requests!Spec

\* Between the server and fetch: however answers are cut into chunks and pieces,
\* each fetch finds the next one.
Answers == INSTANCE Fifo WITH Items <- Messages, put <- answered, got <- fetched
AnswersInOrder == Answers!Spec

\* A fetch of what was sent returns: no byte it waits for is lost, counted twice
\* or left in a buffer where it is not looked for.
FetchReturns == pc = "header" ~> pc \in {"idle", "defunct"}
=============================================================================
