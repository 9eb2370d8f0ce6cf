# A TLA+ model of seabolt

Seabolt is the C connector library for the Bolt protocol of Neo4j. This
directory holds TLA+ specifications of its parts, configurations that check them
with TLC on small instances, and proofs checked by TLAPS. All paths below are
relative to `src/src/seabolt/src/bolt/` of the repository unless they start
with `src/`.

## The system and its parts

An application asks a **connector** for a connection, uses it to exchange Bolt
messages with a server, and gives it back. Its threads share the connector and
its pool; a connection belongs to the thread that acquired it.

| Part | State | Operations | Interacts with | What is hard | What makes it correct |
|---|---|---|---|---|---|
| Connector (`connector.c`) | copies of address, auth token and configuration; one pool | create, acquire, release, destroy | forwards to one of the three pools | a connection keeps the access mode of its borrower | the mode is that of the borrower, and WRITE in the pool |
| Direct pool (`direct-pool.c`) | an array of connections, each with an `agent`; `in_use_count`; a mutex and a condition | acquire, release, destroy | opens, initialises, resets and closes connections; `BoltSync_*` | network exchanges under the mutex, waiting with a timeout, one signal per release, failed resets and opens, life time of connections | a connection has one user at a time; the count is right; nobody is refused or left waiting while a connection is free; what is handed out works |
| Routing pool (`routing-pool.c`) | a routing table, a set of servers, a direct pool for each, two round-robin counters, a read-write lock | acquire, release, refresh, clean up, create a pool, select a server, forget a server or writer, destroy | direct pools; discovery over a connection of its own; error callback of connections | locks given up and taken again in the middle of an operation; pools moved and destroyed while connections are out | a release finds the pool that lent; one pool per server; the selected server is the one that serves; calls return |
| Routing table, address set (`routing-table.c`, `address-set.c`) | addresses by role, expiry; arrays without duplicates | update, expire, forget; add, remove, replace, search | routing pool, under its lock | update is all or nothing; an index is only good until the next removal | no duplicates, old table kept when a response is malformed |
| No pool (`no-pool.c`) | a list of open connections under a mutex | acquire, release, destroy | connections | failed acquires are not in the list | a connection in the list is open, destroy closes all of them |
| Connection (`connection.c`, `status.c`) | state, error, transmit and receive buffers, the error callback | open, init, load, send, fetch, fetch summary, reset, close | protocol, communication, routing pool through the callback | pipelined requests answered later, ignored after a failure, network errors half way | answers belong to the request that is fetched; state follows the answers; no use of a defunct connection |
| Protocols (`v1.c`, `v2.c`, `v3.c`) | request and response counters, last failure, field names, metadata, bookmark, the messages BEGIN and RUN | clear, set and load each message, fetch | buffers, PackStream | messages and results outlive the borrower; BEGIN, COMMIT and ROLLBACK of versions 1 and 2 are two requests | counters never run apart; a borrower sends what it set and reads what it fetched |
| Framing (`protocol.c`), buffer (`buffering.c`), PackStream (`packstream.c`) | bytes between cursor and extent | load, unload, compact, chunk, encode | connection | boundaries of sizes | what is unloaded is what was loaded |
| Communication (`communication*.c`) | socket, TLS session, last error | open over resolved addresses, send and receive whole buffers, close | operating system, OpenSSL or SChannel | partial transfers, interrupted calls, time-outs, several addresses | no byte lost or duplicated, errors reported |
| Address (`address.c`, `address-resolver.c`) | resolved addresses under a read-write lock | resolve, count, get | pools, communication | re-resolution while another thread walks the list | an index below the count read may be gone when used |
| Memory (`mem.c`, `atomic-*.c`) | current and peak allocation | allocate, reallocate, deallocate | everything | separate atomic steps | peak is at least current |
| Synchronisation (`sync-*.c`) | mutexes, conditions, read-write locks | wrappers | pools, addresses | absolute timeouts, spurious wake-ups | a wait ends in time |
| Values, configuration, log, errors, clock, start-up | data of one caller | builders, formatting, table look-ups | everything | – | – |

### Where it gets hard

- **Interleaving.** Pools are shared by threads. The direct pool holds its mutex
  during network exchanges, but `in_use_count` and `agent` are changed in
  different steps and the count is read without the mutex. The routing pool gives
  its read lock up to take the write lock, twice in one acquire.
- **Waiting.** A release signals one waiter; the waiter, a newcomer, a timeout and
  a spurious wake-up race for the mutex.
- **Failure.** Each network exchange may fail between two changes of state; a
  receive timeout may be followed by the late answer; a link may break with some
  of the answers delivered.
- **Pipelining.** Responses carry no number. They are matched to requests by
  counting, some are skipped, and a failure turns those after it into IGNORED.
- **Boundaries.** Chunks, markers of PackStream, growth and compaction of buffers;
  TLS records that are split and joined by the socket, with pending plain and
  cipher text in one buffer.
- **Reuse.** Values, buffers, messages, the fields of a communication and the
  handshake buffer are used again, and what an earlier use or a failed attempt
  left in them is there.
- **What does not occur.** Nothing is persisted, so there is no crash recovery;
  TCP neither duplicates nor reorders.

All hazards, each with its line and the properties that guard it, are listed in
`PROJECT.json`.

## The modules

| Module | Models | Uses |
|---|---|---|
| `LeasePool` | abstract: what a bounded pool promises to its callers | |
| `DirectPool` | `direct-pool.c` with mutex and condition of `sync-pthread.c` | implements `LeasePool` |
| `RoutingPool` | `routing-pool.c`, `routing-table.c`, `address-set.c` and the read-write lock | direct pools as their counts |
| `LeastConnected` | the selection among servers, one read at a time | |
| `Connection` | `connection.c` and `v3.c` with the reset of a release, a server and the network | |
| `Requests` | the messages and results that `v1.c`, `v2.c` and `v3.c` keep in a connection, and the access mode of `connector.c` | |
| `Fifo` | abstract: what a channel promises | |
| `MessageStream` | `buffering.c`, `protocol.c`, the loops of `connection.c`, `communication.c` and of fetch in `v1.c` and `v3.c` | implements `Fifo` in both directions |
| `SChannel` | `communication-secure-schannel.c` over the resolved hosts of `communication.c` | |
| `NoPool` | `no-pool.c`, `address.c`, open and close of `communication.c`, `communication-plain*.c` and `communication-secure-openssl.c` | |
| `Values` | `values.c` and the accounting of `mem.c`, as operators | |
| `Encoding` | the markers, sizes and integers of `packstream.c` in a stream, as operators | |
| `PackStream` | `packstream.c` between values in use | `Values`, `Encoding` |
| `DirectPoolProofs`, `RoutingPoolProofs`, `LeastConnectedProofs`, `ConnectionProofs`, `RequestsProofs`, `MessageStreamProofs`, `SChannelProofs`, `NoPoolProofs` | theorems | the module they are named after (`MessageStreamProofs` also `Encoding`), TLAPS |
| `MCDirectPool`, `MCRoutingPool`, `MCSChannel`, `MCNoPool`, `MCPackStream` | instances for TLC | the module they are named after |

### DirectPool

One action per stretch of code between two points where another thread can get in.
`Acquire` enters, `Lock` gets the mutex, `TryConnection` is the loop body when a
connection was found (life time, open, initialise or reset, marking it used),
`ReportFull` and `Park` are the two ends of a full pool, `Tick`, `Expire`,
`WakeSpuriously` and `GiveUp` the timed wait, `Return` counts the lease. `Release`,
`ClearAgent`, `ResetOrClose` and `Signal` are the release, in the code's order:
the count is lowered after the signal. `ReleaseNull` is `BoltDirectPool_release`
without a connection, `Age` the clock, `Destroy` the end. Since the mutex is held
during network exchanges, an exchange is one step with any of its results
(`PrepareResults`, `ResetOrCloseStates`); `Faults` says which may go wrong.
Left out: `sec_context`, which create assigns.

### RoutingPool and LeastConnected

A section under the write lock shuts everyone else out and is one action
(`Refresh` with cleanup, `Create`, `ForgetServer`, `ForgetWriter`). Sections under
the read lock are steps of their own. `servers` and `in_use` are the parallel
arrays of addresses and direct pools. `index` keeps the index that
`ensure_server` returned, which is what may have gone stale; an acquire through a
stale index ends the thread (`GoAstray`), as nothing can be said of it. The
discovery exchange is a choice among the tables of `Responses`, or a failure.
`LeastConnected` opens up the selection that `RoutingPool` takes as a choice:
several threads go round the servers and read counts that move meanwhile.

### Connection

Bytes are messages: `tx` holds what is loaded, `toServer` and `toClient` what is on
its way, in order. `Load`, `LoadReset`, `Send` and `Fetch` are the calls of the
application, `Receive` takes one message and ends the fetch (`Finish`) when
`answered` reaches the request. `Lend`, `Open`, `Release` and `Retire` are the
direct pool's. `Open` covers connecting, the handshake and the sending of HELLO, as
nothing else can happen to the connection before HELLO is sent; `OpenFails` is any failure
before that. `Serve` is a Bolt server, `Break` the network: both are
outside the repository. The server ignores requests after a failure until a
RESET, and may ignore those that a RESET in sight interrupts.

When a receive fails, `BoltConnection_receive` leaves the bytes it had
reserved in `rx_buffer` counted as received. What they contain is undefined.
They may be messages of before, in a buffer that was compacted, or anything else:
`stale` is the sequence of messages they read as, of any type or empty (each pair of
zeros is an empty one, which counts as an answer of the type seen last), and `rx` says
whether they end with a message (`"stale"`) or announce a chunk that swallows what
follows (`"stuck"`). `MaxStale` bounds their number; with `MaxStale = 0` only the stuck chunk is left.
Closing and opening make new buffers (`FreshBuffers`).

`LoadFails` is a load that is refused: the message is rolled back, `TRY` makes the
connection DEFUNCT, and the release resets it like any other.

RUN and PULL stand for all requests that are answered like them. Messages that cannot be unloaded are left to `MessageStream`, and metadata is left out except for the failure.

### Requests

Where `Connection` follows one request through every failure of the link,
`Requests` follows the contents: a value that a setter puts into BEGIN or RUN is
the number of the lease it was set in, a value that the server sends is the
number of its request, so that a property can tell whose they are. The
link does not fail, and what is loaded is sent by the fetch that follows. One action per
call of `connection.h` (`ClearMessage`, `SetOption`, `SetCypher`,
`SetParameter`, `LoadRun`, `LoadTransaction`, `LoadStream`, `LoadReset`, `Fetch`),
`Acquire` and `Release` of the connector, and one per answer that the loop of
fetch takes (`ReceiveRecord`, `ReceiveSummary`). Version 3 keeps options and the mode
in one dictionary, where an entry once made is emptied and not removed; versions 1 and 2
know bookmarks of BEGIN only and say BEGIN, COMMIT and ROLLBACK with a RUN and a
DISCARD_ALL. A setter that is refused, or not supported, makes the connection
DEFUNCT (`TRY` in `connection.c`), and the RESET of its release makes it READY again.

`Release` is `BoltDirectPool_release`: it clears BEGIN and RUN (`direct-pool.c:328`) before the RESET, and that is all
that keeps the values of one borrower, and the mode `r`, from the next. Borrowers may clear
a message themselves (`ClearMessage`), and need not.
Two observations the properties leave room for: the failure of a request that
arrives after a RESET was loaded stays in `failure_data` of the READY connection, and the state may still
be FAILED while records of a later request are fetched past a RESET that nobody fetched.

### MessageStream

Bytes are numbers in base `Base`, so that a chunk of two digits is full after a few bytes. The four
buffers (`state->tx_buffer`, `connection->tx_buffer` and the two of receiving)
are records of contents, cursor and allocation with the operations of `buffering.c`. `Load` writes a
message, cuts it into chunks and numbers it; `LoadFails` stops half way and rolls back
(`RolledBack`). `SendSome` and `RecvSome` are one turn of the loops of
`communication.c`, with any number of bytes; `Received` is the end of
`BoltConnection_receive` with its correction of the extent. `TakeHeader`, `TakeChunk` and `TakeEnd`
are the loop of fetch. The server takes whole messages and answers each in chunks of every size (`Cut`).

### SChannel

One thread holds the communication; it opens over the resolved hosts, shakes hands, verifies the
certificate, sends and receives records, renegotiates, closes and destroys. `recv_buffer` is kept byte for byte,
as the pending plain and cipher text are pointers into it. `HandshakeRead`, `Token...` are
`secure_schannel_handshake_loop`; `SendSome` is any of the four send loops; `RecvPending`, `RecvCall`,
`RecvSome` and `Decrypt...` are `secure_schannel_recv` from its entry to each of its ends.
The library's calls are modelled by what they do with their buffers: one token or
record consumed, or too few bytes. A token that is refused makes an alert, which is sent, or none.
`HandshakeLength` is the size of `hs_buffer`, which a receive of the handshake never exceeds;
`TokensFit` says that it holds the longest token. A NULL that the code reads through ends the
thread (`crashed`): a security context that could not be made, and a record that arrives with the
last token, before `recv_buffer` is there.

### NoPool

Threads of an unpooled connector. `Resolve`, `Count` and `ReadHost` are the three uses of
the shared address in one open, each under its lock; another thread may resolve in
between. `OpenSocket`, `Connect` and `Tls` go on with what an earlier attempt left in the fields. `IgnoreSigpipe`, `BrokenPipe` and
`RestoreSigpipe` bracket each exchange, the GOODBYE of a release and the closing of its session included (`GoodbyeReturns`, `Close`). `Register`, `Release` and `DestroyNext` are the list of
`no-pool.c`. Sockets are numbers the system gives out anew; `allocated` counts endpoints, sessions and contexts.

### Values and PackStream

`Values` says for each operation what value it leaves and by how much the
allocation changes; nested values keep what `_resize` leaves them. `PackStream`
encodes a value to a sequence of bytes and opaque payloads and decodes it into
a value that was used before, with the markers, sizes and integers of `Encoding`. Integers are their eight bytes. `FormatAs` formats the value at any
path, `CopyTo` copies, `Echo` loads a value and unloads it from a server that sends it back, `Serve`
unloads one that may hold structures the client does not know, `ServeNegative` a list or dictionary of a negative size, `Renew` destroys and creates. The sizes of strings and bytes are
not checked for a sign (`packstream.c:368`, `:397`); no server of the model sends a negative one.

## The runs

All bounds are constants of the configurations.

| Run | Instance | What it shows |
|---|---|---|
| `pool_leases` | 3 clients, 2 connections, no waiting, all faults, ageing, 1 release of NULL | `ExclusiveLease`, `CountMatches`, `IdleConnectionsReusable`, `FullOnlyWhenAllLeased`, `HandsOutLive`; the pool implements `LeasePool` |
| `pool_waiting` | 3 clients, 1 connection, waiting for 1 tick, resets may fail, fair | `TypeOK`; `NoLostWakeup`: nobody sleeps beside a free connection while opens succeed; `CallsProgress`: calls end or wait for a connection |
| `routing_pools` | 2 clients, 2 servers, every sane cluster of them, fair, a lock that prefers writers | `TypeOK`, `LeasesCounted`, `NoDuplicatePool`, `SelectsFromTable`, `CallsReturn` |
| `least_connected` | 2 threads, 3 servers, 5 selections | `SpreadsEvenly` |
| `connections` | 6 requests, 2 openings, 1 receive timeout, undefined bytes that read as at most 1 message of any type, fair | `TypeOK`; `AnswersMatch`, `InStep`, `CleanHandover` of every connection on which no receive has failed since it was opened; `FetchReturns` |
| `requests` | versions 2 and 3, 2 leases, 4 calls that build or load, 1 parameter | `OwnRequests`, `ResultsOfRequest`, `FailureKnown` |
| `messages` | base 2, buffers of 3 bytes, 3 messages of 3 or 4 bytes, 1 failure, fair | `TypeOK`; both directions implement `Fifo` (`RequestsInOrder`, `AnswersInOrder`); `FetchReturns` |
| `schannel` | 2 hosts, records of 3 bytes, tokens of 2 in a buffer of 3, 4 bytes sent, 3 served in 2 records, 1 renegotiation, 1 failure, three settings of trust, fair | `TypeOK`, `AnswersInOrder`, `RequestsInOrder`, `VerifiedPeer`, `Delivered` |
| `no_pool` | 2 threads, 1 acquire each, an address of 1 or 2 hosts, TLS, connect timeout, fair | `Registered`, `Usable`, `TriesEach`, `FirstHostLeavesNothing`, `NoSigpipe`, `Returns` |
| `packstream` | sizes and integers on both sides of each marker, 2 levels of nesting, at most 2 items formatted | `Accounted`, `ArrivesAsSent` |

Why these bounds suffice to meet the hazards:

- with three clients and two connections there are a holder, a second holder and
  one that is refused; with one connection two are parked while the third
  releases and comes again as a newcomer;
- two clients of the routing pool are one that refreshes or creates while the other is
  anywhere in its own acquire or release, and two servers let a cleanup move a
  pool that stays; three servers make a round with a start in the middle;
- six requests are HELLO, up to four of two borrowers and the RESETs between them,
  so that failures, ignored requests and RESETs of one borrower can be outstanding
  when the next one gets the connection; two openings show that a reopened connection starts anew;
  one message that undefined bytes read as is one answer too many, in front of those that come late;
- four calls are enough for one borrower to set and load a message and for the next to set and load
  it, and for a COMMIT, a RUN and a PULL or RESET behind each other; the release, which clears, is not counted among them;
- in base 2 the largest chunk has 3 bytes: a message of 3 fills one, a message of 4 takes two of 3 and 1, buffers
  of 3 bytes grow, and three messages meet a buffer that was compacted, rolled
  back or holds the beginning of the next one;
- a send of 4 bytes takes two records of at most 3; records of 1 to 3 bytes
  arrive together or in pieces, and receives of 1 and 4 bytes leave and exceed pending plain text;
- two threads and two hosts let one resolve while the other walks the list, and let a
  second attempt follow a failed one;
- sizes 15, 16, 255, 256, 65535 and 65536 and the integers around each power of two
  are both sides of each marker; structures have 0, 15, 16, 127, 128, 255 and 256 fields, both sides of what
  fits and of each change of sign and turn of the `int8_t` their size is cut to. Of these, 256 is the one that
  arrives as something else: `ArrivesAsSent` excepts it (`Truncated`), and `PackStreamWide.cfg` shows it.

No run is bounded by depth. Runs whose actors stop when their bounds are used up
do not check for deadlock: `least_connected`, `requests`, `messages`, `schannel`, `no_pool`.

### What the code does not keep

Two runs state what a comment or a header says and show a behaviour of the code against it.

| Run | Property | What happens |
|---|---|---|
| `routing_stale_index` | `ServedBySelected` | the index of a direct pool is used after the lock it was found under was given up; a cleanup in between moves the pools |
| `connection_out_of_step` | `FailedReceiveIsFinal` | undefined bytes left by a failed receive are taken for the answer to the RESET; the connection is READY again with its real answers still to come |

`connection_out_of_step` needs undefined bytes that read as a message: zeros, which fresh memory often holds,
or an answer that was read before. `connections` has such bytes too, and shows that nothing goes wrong before the receive that
fails nor after the next close or open; with `MaxStale = 0` they are excluded, and a DEFUNCT connection on which a receive has failed stays so.

Further configurations reproduce counterexamples of the same kind. Most are
statements that the passing run of their module makes under an assumption, without it.

| Configuration, module | Property | What it says and what happens |
|---|---|---|
| `PoolForgottenWaiter.cfg`, `MCDirectPool` | `NoLostWakeup` with failing opens | `direct-pool.c:291` "Retry acquire operation until we get a live connection or timeout"; a woken caller that cannot open the freed connection leaves at once and passes the signal to nobody, and another sleeps beside a free connection |
| `PoolWaitsAgain.cfg`, `MCDirectPool` | `WaitBounded` | `config.h:380` "the configured maximum connection acquisition time"; each turn waits for the whole time again |
| `PoolNullRelease.cfg`, `MCDirectPool` | `InUseExact` | releasing the NULL of a refused acquire, as `test-pooling.cpp:157` does, lowers the count of connections in use |
| `RoutingNoWriter.cfg`, `MCRoutingPool` | `CallsReturn` | `error.h:78` "No servers to select for the requested operation"; with tables that name no writer an acquire for writing refreshes for ever |
| `ConnectionRefusedLoad.cfg`, `Connection` | `DefunctIsFinal` | `status.h:45` "Unrecoverable failure"; a load that is refused makes the connection DEFUNCT with the link up (`TRY`, `connection.c:41`), and the RESET of its release, which has no look at the state (`direct-pool.c:113`), makes it READY. It is in step: `AnswersMatch`, `InStep` and `CleanHandover` hold of it |
| `MessagesUnreadable.cfg`, `MessageStream` | `AnswersInOrder` | `connection.h:65` "The function returns -1 if an error occurs"; a message that cannot be decoded makes fetch return a positive code (`v3.c:1030`, `v1.c:711`) and leaves its rest in the buffer, so that the next answer is lost |
| `SChannelStaleHandshake.cfg`, `MCSChannel` | `HandshakeFed` | `communication-secure-schannel.c:1343` "Buffer 0 is used to pass in data received from the server"; `hs_buffer_pos` is never set back, and the handshake with the second host begins with the bytes of the first |
| `SChannelFullBuffer.cfg`, `MCSChannel` | `ReadsMore` | `communication-secure-schannel.c:1399` "then we need to read more data from the server and try again"; a token longer than `hs_buffer` fills it, and the loop receives zero bytes, which `communication-plain.c:252` takes for success, again and again. The configuration has a buffer of 1 byte for tokens of 2; the code has 16 KiB (`:1151`), and a TLS record may be longer by its header |
| `NoPoolLeaks.cfg`, `MCNoPool` | `NothingLeft` | `connector.h:63` "Destroys the passed BoltConnector instance and all related resources"; an attempt at a host that fails leaves its socket and endpoints, whose only pointers the next attempt overwrites (`communication-plain.c:108`) |
| `PackStreamWide.cfg`, `MCPackStream` | `LoadsAll` | `values.h:334` "the number of entries to be placed in the structure"; the size of a structure of 256 fields is cut to an `int8_t` of 0 (`packstream.c:216`) and passes the check at `:172`, so that an empty structure is sent with 256 values behind it |
| `PackStreamSwallowed.cfg`, `MCPackStream` | `UnloadsAll` | `unload_structure` does not look at the errors of its fields (`packstream.c:497`): a structure in a structure that is not supported is left out, and what follows is read in its place |

### Fairness

Weak fairness for steps that a running thread can take by itself. Strong
fairness for steps that need a lock: a thread that finds the mutex free again and
again is not passed over for ever. This is more than POSIX promises but what its
implementations do; a read-write lock may prefer readers, which can starve writers, and that is
recorded as a hazard. Exchanges end, since the receive timeout or the
peer ends them. In `Connection` the receive timeout is not fair: `FetchReturns`
must hold without it. `MessageStream` and `SChannel` take for granted that the
thread runs, that the socket delivers what is under way and that the server reads and, in `MessageStream`,
answers; `Delivered` also needs a caller that goes on receiving. `NoPool` has weak fairness for each thread that is
in a call: its locks are held for one step only. Nothing forces an application to call, to use or to release;
the server answers what reaches it, but a link need not break.

## The proofs

Each theorem holds for every value of the constants that the named assumptions of
its module allow, and for no other reason than those. Each property is also checked
by a passing run, on the instance of its configuration; only `FailedReceiveIsFinal` is not, as a run shows it violated where
`MaxStale` is not 0.

| Module | Theorem | Property |
|---|---|---|
| `DirectPoolProofs` | `TypeCorrect` | `TypeOK` |
| | `LeasesAreExclusive` | `ExclusiveLease` |
| | `CountIsExact` | `CountMatches` |
| | `IdleAreReusable` | `IdleConnectionsReusable` |
| | `FullIsFull` | `FullOnlyWhenAllLeased` |
| | `HandedOutIsLive` | `HandsOutLive` |
| | `PoolImplementsLeases` | `ImplementsLeasePool` |
| | `WakeupsAreNotLost` | `NoLostWakeup`, for finitely many clients and opens that do not fail |
| `RoutingPoolProofs` | `TypeCorrect` | `TypeOK` |
| | `LeasesStayCounted` | `LeasesCounted` |
| | `OnePoolPerServer` | `NoDuplicatePool` |
| | `SelectionNeverEmpty` | `SelectsFromTable` |
| `LeastConnectedProofs` | `LoadIsSpread` | `SpreadsEvenly` |
| `ConnectionProofs` | `TypeCorrect` | `TypeOK` |
| | `FetchReturnsItsAnswer` | `AnswersMatch` |
| | `HandoverIsClean` | `CleanHandover` |
| | `StateFollowsServer` | `InStep` |
| | `FailedReceivesAreFinal` | `FailedReceiveIsFinal`, if `MaxStale = 0` |
| `RequestsProofs` | `LoadsAreOwn` | `OwnRequests` |
| | `FetchTellsOfItsRequest` | `ResultsOfRequest` |
| | `FailuresAreKnown` | `FailureKnown` |
| `MessageStreamProofs` | `TypeCorrect` | `TypeOK` |
| | `RequestsArriveInOrder` | `RequestsInOrder` |
| | `AnswersArriveInOrder` | `AnswersInOrder`, if `MaxBad = 0` |
| | `IntegersArrive` | none: what `LoadInteger` of `Encoding` writes, in front of any stream, `Integer` reads, for every 64-bit integer |
| | `SizesArrive` | none: the same of `LoadHeader`, `MarkerType` and `HeaderSize`, for the four types with a size and every size up to 2^31 - 1 |
| `SChannelProofs` | `PeerIsVerified` | `VerifiedPeer` |
| | `AnswersArriveInOrder` | `AnswersInOrder` |
| | `RequestsArriveInOrder` | `RequestsInOrder` |
| | `TypeCorrect` | `TypeOK` |
| `NoPoolProofs` | `ListedOnce` | `Registered` |
| | `HandedOutUsable` | `Usable` |
| | `GivesUpAfterAll` | `TriesEach` |
| | `NothingLeftBehind` | `FirstHostLeavesNothing` |
| | `SigpipeKeptIn` | `NoSigpipe` |

Hardly any of these properties is inductive alone. What each proof adds:

**DirectPool.** `PoolInv` adds
that the mutex belongs to exactly the client inside a critical section (`Owned`),
that a client deals with a connection from the moment acquire picked it to the end of its release (`ConnKept`), that a FAILED
or CONNECTED idle connection belongs to a reset in progress
(`IdleOrResetting`), that only limited connections age (`AgesIfLimited`) and that
a caller still inside has no answer yet (`Unanswered`). `Owned` is what makes
leases exclusive: two clients cannot both find the same unused connection.
The count needs `Uncounted`, the lease that the owner of the mutex has marked and not counted, or
cleared and not counted. With this, a full count means as many leases as
connections, hence a full pool (`FullMeansLeased`). For wake-ups, `WakeInv` says that
while somebody is parked, the free connections are no more than the woken
clients, plus one if the owner of the mutex is about to take a connection or to signal a release. For the refinement, each action
maps to a step of `LeasePool` or a stutter, with `LeaseHolder` picking the one holder
that `ExclusiveLease` guarantees.

**RoutingPool.** `RoutingInv` adds that whoever is inside a section under the read lock
holds it (`Reading`), that the locals of an acquire are set when they are used (`LocalsKept`) and that
only a client between lease and release has a connection (`HoldersOnly`). The counts stay exact
over a cleanup because `CleanupMoves` finds for every position that remains the one it comes from: the loop of
`BoltRoutingPool_cleanup` is the definition `Remaining`, its positions in rising order `Upwards`. A new pool
starts at 0 because everything that is out has a pool already, so that the server without a pool has nothing out.

**LeastConnected.** While no count has moved, a pass returns the server it started with (`FirstIsBest`), so
`SelectionInv` counts passes: what was picked, plus the passes begun and not over, is for every server the number of
rounds of the offset, and one more for the servers that the last round has come to (`RoundRobin`).

**Connection.** `TypeInv` has the counters (`Counting`: `response_counter` never
passes the request fetched). `StreamInv` describes all that is on its way: the answers are numbered from
`response_counter` on, without a gap, before the requests not yet read
(`AnswersInOrder`, `AnswersBeforeRequests`); while the link is up nothing is
missing (`NothingMissing`); the last answer says what the server is in
(`LastAnswerTells`), and a failure has been told or will be (`FailureTold`). All this holds while
no receive has failed (`rx = "sound"`), of a connection that is DEFUNCT for a refused load too, which the RESET of its release
makes READY in step with its server; and it holds again after the steps that
end what a failed receive has left (`SoundAgain`, `EndsOfStale`). `LostInv` says that in between, unless undefined bytes
read as messages, the connection is DEFUNCT and nothing is received; the run `connection_out_of_step` shows what happens if they do.

**Requests.** Two invariants. `MessageInv`: the messages of a connection contain only values
of its borrower, as the release before has cleared them. `RequestsInv`: a fetch ends at a request with a handle, a PULL
follows its RUN at once (`StreamsFollow`), the field names of a RUN that was answered are still there
for the PULL at the head (`FieldsKept`), and a failed server has told of a failure of this borrower
(`ServerKnown`).

**MessageStream.** `MemoryInv`: what was reserved for bytes that are missing is the end of
`rx_buffer`, and fewer were received than are missing (`Reserved`); everything in front of that is
defined (`Defined`), so that a chunk header is never read from bytes that were not received; when nothing is missing,
what was asked for is there (`Enough`), and there is room for the chunk (`Room`). There is one lemma for each operation of
`buffering.c`. Chunks are defined by recursive functions on sequences; `RecursionExists` shows that they
exist, as a function on all sequences that gets its values from shorter ones, and facts about them are shown by taking the shortest
counterexample (`SmallestExists`).
For the refinement of `Fifo`, `OutInv`: the bytes on their way to the server, those of the send in progress that are not
sent and those in `tx_buffer` are, in this order, the chunks of the messages that were loaded and not
served; after a broken link a front of them (`OnTheWay`). `Tails` names what is left of such a stream behind each message.
`FirstIsWhatWasCut` reads a message back from any of its cuts whatever follows, `FirstMessageStays` says that a message
that arrived as a whole is the same when more arrives; with these, what the server takes is the next message (`ArrivesInOrder`).
The other direction has `InInv`, about the same tails of what was answered. Between two fetches, what arrived in `rx_buffer`
(`Arrivals`, without what is reserved) and the bytes on their way behind it are the answers that no fetch returned.
In the middle of one they are what is left of its chunk, a cut of the rest and the answers behind, and the message buffer holds
the part in front, without the room made for the chunk (`Inside`, `Together`, `Due`). A header is read at a place where one was written
(`HeaderInside`), and the message buffer is empty between two messages because a payload that can be decoded is read to its end (`PayloadReads`):
that is where `MaxBad = 0` is needed, and the run of `MessagesUnreadable.cfg` shows what happens without it.

**SChannel.** `PeerInv`: wherever the thread is in a session, or will be when the send under way is over, there is a
security context that was made from the trust settings (`ContextOK`), whatever closes and failed hosts came before; so the
chain is verified against the roots of the settings.
For the streams, bytes are `Framed` if there are positions to cut them into whole units at, whose records carry the numbered
plain text from one count to another. As the positions are quantified and not computed, no induction is needed:
`FramedBegins` takes the first unit off, `FramedGrows` puts one more behind.
`InInv` says that during a session the pending cipher text, the bytes received and those on their way are framed, in this order (`Unread`),
and that the plain text in them goes on after the pending plain text, which goes on after what was handed out (`PendingText`).
Before the session it is the bytes in `hs_buffer` and those on their way (`HandshakeStream`), or `hs_buffer` begins with a byte of a server
that was tried before, which no handshake accepts. A handshake that the server asks for finds the last token of the first one (`Renegotiating`), and fails
on it (`StaleToken`): what `SChannelStaleHandshake.cfg` finds is part of the invariant. That a plain receive has room (`RoomToReceive`)
follows, since bytes that fill `recv_buffer` begin with a whole unit.
`OutInv` says the same of what is sent: in a session the bytes on their way and the rest of `send_buffer` are whole units with the plain text up to what is
encrypted (`WholeUnits`); after a call that has failed they are a front of whole units (`CutOff`), and behind that front comes at
most the one byte of the alert (`ClosedOK`). The server may take that byte for the last of a record that was cut off;
it can only be the trailer, so the plain text is the same (`BodyIs`).

**Encoding.** A marker and the bytes behind it are found again in front of any stream (`MarkedIs`). An integer that fits its last
n bytes is their sign extension (`ExtendedFits`); a size is what its two or four bytes stand for (`TwoBytes`, `FourBytes`);
and the marker names its type and how many bytes follow (`IntegerMarker`, `SizedMarker`, `TinyMarker`). These are the parts of
`ArrivesAsSent` that are not recursive, for all values, where the run takes those at the boundaries.

**NoPool.** `NoPoolInv`: a socket that a thread has is open and its own, and blocks once it is connected
(`SocketsOwned`); session and context are there from the end of the handshake on (`SessionsFollow`); unless somebody else
resolved the address, the hosts tried are those up to the index (`HostsTried`); at least as much is allocated as the threads point to
(`NeverTooFew`), and exactly as much until an attempt has followed another (`NothingLost`). That the system always finds a free number for
a new socket is a pigeonhole (`FreeSocketIsFree`), and needs finitely many threads.

Assumptions that are there for the proofs: the clients of `RoutingPool` and `NoPool` are finitely many,
a connection has numbers for two requests (`MaxRequests >= 2`, HELLO and a RESET), there is a
largest message (`SizesAssumption` of `MessageStream`, from which payloads are numbered), and the data that comes along with the
last token of a handshake is one record (`Early` of `SChannel` up to `MaxMessage`, the library's `cbMaximumMessage`).

Only model-checked: all liveness, which is out of this
prover's reach; `Values` and `PackStream` (`Accounted`, `ArrivesAsSent`), which are recursive operators,
so that only the encoding of one marker, size or integer is proved, not of nested values.

## The plan

1. Done: all modules above, the proofs in the table.
2. To model: the error callback of a connection into the routing pool as a
   composition of `Connection` and `RoutingPool`; the checks of a discovery response.

## What is not modelled

Configuration, authentication tokens, logging, error texts, the textual form of
values, start-up and the clock are pure functions or data of one caller. The
choice of a pool by the scheme, in the connector, is one switch. OpenSSL, the SChannel library,
sockets and the server are outside of the repository and modelled by what the code
relies on. The OpenSSL communication is modelled in its opening and closing; its
`SSL_read` and `SSL_write` are one call each. The Windows variants of synchronisation and sockets do what the POSIX
ones do. The timed read-write locks that poll have no caller in the library. The
peak of the memory accounting is not modelled. The
checks of a discovery response are not modelled either: `RoutingPool` takes a response as one that
replaces the table or one that fails and leaves it; `RoutingTable_update` reads through NULL when
the response has no `ttl` or no `servers` (`routing-table.c:73`, `:88`). Address strings are not parsed, and a custom resolver is one more
source of hosts. The mock communication and the command line client are users of the library.
