------------------------------- MODULE NoPool -------------------------------
(***************************************************************************)
(* Connections without a pool: threads acquire and release connections of  *)
(* a connector whose scheme is BOLT_SCHEME_DIRECT_UNPOOLED (connector.c,   *)
(* no-pool.c).  Each acquire resolves the shared address (address.c),      *)
(* opens a connection to one resolved host after the other                 *)
(* (communication.c) with a plain socket (communication-plain.c) and, on   *)
(* it, a TLS session of OpenSSL (communication-secure-openssl.c), and      *)
(* registers it.  A step that holds the mutex of the pool or the lock of   *)
(* the address is atomic; everything else of a thread touches only what    *)
(* that thread owns, except for the socket numbers, which the system       *)
(* gives out anew after a close.                                           *)
(***************************************************************************)
EXTENDS Naturals, Sequences, SequencesExt, FiniteSetsExt

CONSTANTS
    Client,       \* threads
    Resolutions,  \* the lists of hosts a resolution may yield
    Nowhere,      \* not a host: an uninitialised sockaddr_storage
    Encrypted,    \* config->transport = BOLT_TRANSPORT_ENCRYPTED
    Timeout,      \* socket_options->connect_timeout > 0
    MaxAcquires   \* bound: calls of acquire by a thread

ASSUME NoPoolAssumption ==
    /\ IsFiniteSet(Client)
    /\ <<>> \notin Resolutions \* getaddrinfo returns at least one host
    /\ \A list \in Resolutions : list \in Seq(Range(list)) /\ Nowhere \notin Range(list)
    /\ {Encrypted, Timeout} \subseteq BOOLEAN
    /\ MaxAcquires \in Nat

VARIABLES
    resolved,    \* pool->address->resolved_hosts
    connections, \* pool->connections; a thread stands for the connection it holds
    pc,          \* where each thread is
    hosts, index, host, \* the locals of BoltCommunication_open
    socket,      \* context->fd_socket: 0 for none
    ssl, sec_ctx,     \* whether ctx->ssl, ctx->sec_ctx are not NULL
    remote, local,    \* whether the endpoints are not NULL
    sigpipe,     \* SIGPIPE for the thread: "open", or while blocked "blocked" or "pending"
    delivered,   \* where SIGPIPE has been delivered to a thread
    open,        \* sockets the process has open; each is [blocking]
    allocated,   \* number of endpoints, sessions and contexts that are allocated
    tried,       \* ghost: hosts the running acquire has tried
    stable,      \* ghost: the address has not been resolved since it counted the hosts
    retried,     \* ghost: some attempt at a host followed one that failed
    acquires     \* calls of acquire so far

shared == <<resolved, connections>>
opening == <<hosts, index, host, tried>>
comm == <<socket, ssl, sec_ctx, remote, local>>
system == <<open, allocated>>
signals == <<sigpipe, delivered>>
vars == <<shared, opening, comm, system, pc, signals, stable, retried, acquires>>

Goto(c, to) == pc' = [pc EXCEPT ![c] = to]
-----------------------------------------------------------------------------
Init ==
    /\ resolved = <<>> /\ connections = <<>>
    /\ pc = [c \in Client |-> "idle"]
    /\ hosts = [c \in Client |-> 0] /\ index = [c \in Client |-> 0]
    /\ host = [c \in Client |-> Nowhere]
    /\ socket = [c \in Client |-> 0]
    /\ ssl = [c \in Client |-> FALSE] /\ sec_ctx = [c \in Client |-> FALSE]
    /\ remote = [c \in Client |-> FALSE] /\ local = [c \in Client |-> FALSE]
    /\ sigpipe = [c \in Client |-> "open"] /\ delivered = {}
    /\ open = {} /\ allocated = 0
    /\ tried = [c \in Client |-> {}] /\ stable = [c \in Client |-> TRUE]
    /\ retried = FALSE
    /\ acquires = [c \in Client |-> 0]

\* BoltAddress_resolve, under the write lock: new hosts replace the old ones;
\* a failure leaves them and the connection is returned closed.
Resolve(c) ==
    /\ pc[c] = "idle" /\ acquires[c] < MaxAcquires
    /\ acquires' = [acquires EXCEPT ![c] = @ + 1]
    /\ \/ /\ resolved' \in Resolutions
          /\ stable' = [d \in Client |-> FALSE]
          /\ Goto(c, "count")
       \/ /\ Goto(c, "failed")
          /\ UNCHANGED <<resolved, stable>>
    /\ UNCHANGED <<connections, opening, comm, system, signals, retried>>

\* BoltCommunication_open counts the hosts and then reads one after the other,
\* each under the read lock, while other threads may resolve the address.
Count(c) ==
    /\ pc[c] = "count"
    /\ hosts' = [hosts EXCEPT ![c] = Len(resolved)]
    /\ index' = [index EXCEPT ![c] = 1]
    /\ host' = [host EXCEPT ![c] = Nowhere]
    /\ tried' = [tried EXCEPT ![c] = {}]
    /\ stable' = [stable EXCEPT ![c] = TRUE]
    /\ Goto(c, "host")
    /\ UNCHANGED <<shared, comm, system, signals, retried, acquires>>

\* BoltAddress_resolved_addr; that it failed is not noticed by its caller.
ReadHost(c) ==
    /\ pc[c] = "host"
    /\ host' = [host EXCEPT ![c] = IF index[c] <= Len(resolved) THEN resolved[index[c]] ELSE @]
    /\ tried' = [tried EXCEPT ![c] = @ \cup {host'[c]}]
    /\ Goto(c, "socket")
    /\ UNCHANGED <<shared, hosts, index, comm, system, signals, stable, retried, acquires>>

\* The attempt at a host has failed: the next one, if any, is tried.  Nothing of
\* the attempt is closed or freed.
NextHost_TooSoon(c) == \* mutant: the last host is never tried
    /\ index' = [index EXCEPT ![c] = @ + 1]
    /\ retried' = (retried \/ index[c] < hosts[c])
    /\ Goto(c, IF index[c] + 1 < hosts[c] THEN "host" ELSE "unopened")
NextHost_Same(c) == \* mutant: the same host is tried again
    /\ retried' = (retried \/ index[c] < hosts[c])
    /\ Goto(c, IF index[c] < hosts[c] THEN "host" ELSE "unopened")
    /\ UNCHANGED index
NextHost(c) ==
    /\ index' = [index EXCEPT ![c] = @ + 1]
    /\ retried' = (retried \/ index[c] < hosts[c])
    /\ Goto(c, IF index[c] < hosts[c] THEN "host" ELSE "unopened")
-----------------------------------------------------------------------------
(* plain_socket_open. *)

\* The system gives out the smallest number that is free.
InUse == {s.number : s \in open}
FreeSocket == Min((1 .. Cardinality(InUse) + 1) \ InUse)
Socket(n, blocking) == [number |-> n, blocking |-> blocking]

SocketFails(c) ==
    /\ pc[c] = "socket"
    /\ socket' = [socket EXCEPT ![c] = 0] \* -1, which no call accepts
    /\ NextHost(c)
    /\ UNCHANGED <<shared, hosts, host, tried, ssl, sec_ctx, remote, local, system, signals,
                   stable, acquires>>

\* The socket is made; with a timeout, it does not block while it connects.
OpenSocket(c) ==
    /\ pc[c] = "socket"
    /\ socket' = [socket EXCEPT ![c] = FreeSocket]
    /\ open' = open \cup {Socket(FreeSocket, ~Timeout)}
    /\ Goto(c, "connect")
    /\ UNCHANGED <<shared, opening, ssl, sec_ctx, remote, local, allocated, signals, stable,
                   retried, acquires>>

\* It is refused, or select reports an error or the end of the timeout.
ConnectFails(c) ==
    /\ pc[c] = "connect"
    /\ NextHost(c)
    /\ UNCHANGED <<shared, hosts, host, tried, comm, system, signals, stable, acquires>>

\* The socket is connected and blocks again, and the remote and the local
\* endpoint are noted; a call before, between or after these may still fail.
Reverted_Never(n) == open \* mutant: the socket stays as it is
Reverted(n) == (open \ {Socket(n, FALSE)}) \cup {Socket(n, TRUE)}
Connect(c) ==
    /\ pc[c] = "connect"
    /\ open' = Reverted(socket[c])
    /\ \E noted \in 0 .. 2 :
         /\ remote' = [remote EXCEPT ![c] = @ \/ noted >= 1]
         /\ local' = [local EXCEPT ![c] = @ \/ noted = 2]
         /\ allocated' = allocated + noted
         /\ \/ NextHost(c)
            \/ /\ noted = 2
               /\ Goto(c, IF Encrypted THEN "tls" ELSE "init")
               /\ UNCHANGED <<index, retried>>
    /\ UNCHANGED <<shared, hosts, host, tried, socket, ssl, sec_ctx, signals, stable, acquires>>
-----------------------------------------------------------------------------
(* secure_openssl_open, after the plain socket is open. *)

\* A session and its context are made, and SSL_connect succeeds.
Tls(c) ==
    /\ pc[c] = "tls"
    /\ sec_ctx' = [sec_ctx EXCEPT ![c] = TRUE] /\ ssl' = [ssl EXCEPT ![c] = TRUE]
    /\ allocated' = allocated + 2
    /\ Goto(c, "init")
    /\ UNCHANGED <<shared, opening, socket, remote, local, open, signals, stable, retried, acquires>>

\* BoltSecurityContext_create fails, and its NULL is read through.
ContextFails(c) ==
    /\ pc[c] = "tls"
    /\ Goto(c, "crashed")
    /\ UNCHANGED <<shared, opening, comm, system, signals, stable, retried, acquires>>

\* It fails, and both are freed.  When the server has closed the connection,
\* SSL_connect writes to a broken pipe and nobody has blocked the signal.
TlsFails(c) ==
    /\ pc[c] = "tls"
    /\ delivered' \in {delivered, delivered \cup {"tls"}}
    /\ NextHost(c)
    /\ UNCHANGED <<shared, hosts, host, tried, comm, system, sigpipe, stable, acquires>>
-----------------------------------------------------------------------------
(* SIGPIPE, in BoltCommunication_send, _receive and _close. *)

IgnoreSigpipe(c) == sigpipe' = [sigpipe EXCEPT ![c] = "blocked"]

\* A write to a connection that the server has closed.
BrokenPipe(c) ==
    /\ pc[c] \in {"exchange", "goodbye", "close"} /\ sigpipe[c] = "blocked"
    /\ sigpipe' = [sigpipe EXCEPT ![c] = "pending"]
    /\ UNCHANGED <<shared, opening, comm, system, pc, delivered, stable, retried, acquires>>

\* A signal that is pending is taken before the mask of the thread is restored;
\* one that still is would be delivered then.
Taken_Not(state) == state \* mutant: sigtimedwait is not called
Taken(state) == IF state = "pending" THEN "blocked" ELSE state
Delivers(c) ==
    delivered' = IF Taken(sigpipe[c]) = "pending" THEN delivered \cup {pc[c]} ELSE delivered
RestoreSigpipe(c) == Delivers(c) /\ sigpipe' = [sigpipe EXCEPT ![c] = "open"]
-----------------------------------------------------------------------------
(* The rest of BoltNoPool_acquire, and BoltNoPool_release. *)

\* The handshake of the protocol and BoltConnection_init: a send or a receive of
\* theirs begins, and returns; one that fails ends the acquire.
InitSends(c) ==
    /\ pc[c] = "init"
    /\ IgnoreSigpipe(c)
    /\ Goto(c, "exchange")
    /\ UNCHANGED <<shared, opening, comm, system, delivered, stable, retried, acquires>>

InitReturns(c) ==
    /\ pc[c] = "exchange"
    /\ RestoreSigpipe(c)
    /\ \E to \in {"register", "failed"} : Goto(c, to)
    /\ UNCHANGED <<shared, opening, comm, system, stable, retried, acquires>>

\* Under the mutex of the pool.
Register(c) ==
    /\ pc[c] = "register"
    /\ connections' = Append(connections, c)
    /\ Goto(c, "held")
    /\ UNCHANGED <<resolved, opening, comm, system, signals, stable, retried, acquires>>

\* Under the mutex the connection is looked up and those behind it move up.
\* One that was returned with an error is not in the list.  It is closed: with
\* a GOODBYE before, if it has got a protocol, version 3 of it.
Without_Last(list, c) == \* mutant: none moves up
    IF Contains(list, c) THEN Front(list) ELSE list
Without(list, c) == RemoveFirst(list, c)
Release(c) ==
    /\ pc[c] \in {"held", "unopened", "failed"}
    /\ connections' = Without(connections, c)
    /\ IgnoreSigpipe(c) \* BoltCommunication_send, or _close
    /\ \E to \in {"goodbye", "close"} :
         /\ to = "goodbye" => pc[c] # "unopened" /\ socket[c] # 0
         /\ Goto(c, to)
    /\ UNCHANGED <<resolved, opening, comm, system, delivered, stable, retried, acquires>>

\* The GOODBYE is sent, or not; BoltCommunication_close blocks the signal anew.
GoodbyeReturns(c) ==
    /\ pc[c] = "goodbye"
    /\ Delivers(c) /\ IgnoreSigpipe(c)
    /\ Goto(c, "close")
    /\ UNCHANGED <<shared, opening, comm, system, stable, retried, acquires>>

\* What the communication points to is closed and freed: by
\* secure_openssl_close, plain_socket_close and the destroy functions.
One(there) == IF there THEN 1 ELSE 0
Live_NoContext(c) == \* mutant: the context of a TLS session is never freed
    One(ssl[c]) + One(remote[c]) + One(local[c])
Live(c) == One(ssl[c]) + One(sec_ctx[c]) + One(remote[c]) + One(local[c])
Freed(c) ==
    /\ allocated' = allocated - Live(c)
    /\ open' = {s \in open : s.number # socket[c]}
    /\ socket' = [socket EXCEPT ![c] = 0]
    /\ ssl' = [ssl EXCEPT ![c] = FALSE] /\ sec_ctx' = [sec_ctx EXCEPT ![c] = FALSE]
    /\ remote' = [remote EXCEPT ![c] = FALSE] /\ local' = [local EXCEPT ![c] = FALSE]
Close(c) ==
    /\ pc[c] = "close"
    /\ Freed(c)
    /\ RestoreSigpipe(c)
    /\ Goto(c, "idle")
    /\ UNCHANGED <<shared, opening, stable, retried, acquires>>

\* BoltConnector_destroy, BoltNoPool_destroy, while no thread is in a call:
\* the registered connections are closed, one after the other.
NoCalls == \A c \in Client : pc[c] \in {"idle", "held"}
DestroyNext ==
    /\ NoCalls /\ connections # <<>>
    /\ Freed(Head(connections)) /\ Goto(Head(connections), "idle")
    /\ acquires' = [c \in Client |-> MaxAcquires] \* no call follows
    /\ connections' = Tail(connections)
    /\ UNCHANGED <<resolved, opening, signals, stable, retried>>

Step(c) ==
    \/ Count(c) \/ ReadHost(c)
    \/ SocketFails(c) \/ OpenSocket(c) \/ ConnectFails(c) \/ Connect(c) \/ Tls(c)
    \/ ContextFails(c) \/ TlsFails(c)
    \/ InitSends(c) \/ InitReturns(c) \/ Register(c) \/ GoodbyeReturns(c) \/ Close(c)
Next == DestroyNext \/ \E c \in Client : Resolve(c) \/ Release(c) \/ BrokenPipe(c) \/ Step(c)
Spec == Init /\ [][Next]_vars
\* The calls of a thread that has begun one go on.
FairSpec == Spec /\ \A c \in Client : WF_vars(Step(c))
-----------------------------------------------------------------------------
(* Properties. *)

TypeOK ==
    /\ resolved \in Resolutions \cup {<<>>}
    /\ connections \in Seq(Client)
    /\ pc \in [Client -> {"idle", "count", "host", "socket", "connect", "tls", "init", "exchange",
                          "register", "held", "unopened", "failed", "goodbye", "close",
                          "crashed"}]
    /\ index \in [Client -> Nat] /\ hosts \in [Client -> Nat]
    /\ host \in [Client -> {Nowhere} \cup UNION {Range(r) : r \in Resolutions}]
    /\ socket \in [Client -> Nat]
    /\ {ssl, sec_ctx, remote, local} \subseteq [Client -> BOOLEAN]
    /\ open \subseteq [number : Nat \ {0}, blocking : BOOLEAN]
    /\ allocated \in Nat
    /\ sigpipe \in [Client -> {"open", "blocked", "pending"}]

\* The pool lists each connection that a thread holds exactly once, whatever
\* the order in which threads acquire and release (no-pool.c:42, 117-121): the
\* list is what BoltNoPool_destroy closes.
Registered ==
    /\ IsInjective(connections)
    /\ Range(connections) = {c \in Client : pc[c] = "held"}

\* A connection that is handed out has a socket of its own, which is open and
\* blocks, and a TLS session if the transport is encrypted: whatever attempts
\* at other hosts came before (communication.c:88-101, plain_socket_open).
Usable ==
    \A c \in Client : pc[c] \in {"init", "exchange", "register", "held"} =>
        /\ Socket(socket[c], TRUE) \in open /\ remote[c] /\ local[c]
        /\ ssl[c] = Encrypted /\ sec_ctx[c] = Encrypted
        /\ \A d \in Client \ {c} : socket[d] # socket[c]

\* An open that gives up has tried every host the address resolves to, unless
\* another thread resolved the address meanwhile (communication.c:84-101).
TriesEach ==
    \A c \in Client : pc[c] = "unopened" /\ stable[c] =>
        tried[c] = Range(resolved)

\* When no thread is in a call or holds a connection, no socket is open and
\* nothing is allocated.
Idle == \A c \in Client : pc[c] = "idle"
NothingLeft == Idle => open = {} /\ allocated = 0

\* That is so as long as every open ended at its first host.
FirstHostLeavesNothing == ~retried => NothingLeft

\* Sending, receiving and closing never let a SIGPIPE through to the
\* application (communication.c:107-219); the TLS handshake may.
NoSigpipe == delivered \subseteq {"tls"}

\* A call of acquire returns, since the hosts come to an end (communication.c:88),
\* or crashes for want of a security context.
Returns == \A c \in Client : pc[c] = "count" ~> pc[c] \in {"held", "unopened", "failed", "crashed"}
=============================================================================
