---------------------------- MODULE NoPoolProofs ----------------------------
(***************************************************************************)
(* Proofs about NoPool, for every finite set of threads, every set of      *)
(* lists of hosts and either transport: what a thread is handed is usable  *)
(* and registered, an open that gives up has tried every host, and an      *)
(* acquire that never got past its first host leaves nothing behind.       *)
(***************************************************************************)
EXTENDS NoPool, FiniteSetTheorems, WellFoundedInduction, TLAPS

-----------------------------------------------------------------------------
(* The inductive invariant *)

Hosts == {Nowhere} \cup UNION {Range(r) : r \in Resolutions}

Pcs == {"idle", "count", "host", "socket", "connect", "tls", "init", "exchange", "register",
        "held", "unopened", "failed", "goodbye", "close", "crashed"}

GhostsOK ==
    /\ tried \in [Client -> SUBSET Hosts]
    /\ stable \in [Client -> BOOLEAN]
    /\ retried \in BOOLEAN
    /\ acquires \in [Client -> Nat]

(* A socket that a thread has is open, and no other thread has it.  It     *)
(* blocks once it is connected.  A thread that has not begun to open has   *)
(* none.                                                                   *)
SocketsOwned ==
    /\ IsFiniteSet(InUse)
    /\ \A c \in Client :
         /\ socket[c] # 0 => socket[c] \in InUse
         /\ \A d \in Client : d # c /\ socket[c] # 0 => socket[d] # socket[c]
         /\ pc[c] \in {"idle", "count"} => socket[c] = 0
         /\ pc[c] = "connect" => socket[c] # 0
         /\ pc[c] \in {"tls", "init", "exchange", "register", "held"} =>
               Socket(socket[c], TRUE) \in open

(* A session is there from the end of the handshake on, and the endpoints  *)
(* from the connect on.                                                    *)
SessionsFollow ==
    \A c \in Client :
         /\ pc[c] \in {"idle", "count"} => ~remote[c] /\ ~local[c]
         /\ pc[c] \in {"tls", "init", "exchange", "register", "held"} => remote[c] /\ local[c]
         /\ pc[c] = "tls" => Encrypted
         /\ pc[c] \in {"idle", "count", "host", "socket", "connect", "tls"} => ~ssl[c] /\ ~sec_ctx[c]
         /\ pc[c] \in {"init", "exchange", "register", "held"} =>
               ssl[c] = Encrypted /\ sec_ctx[c] = Encrypted

(* How far a thread has got in the hosts it has counted. *)
HostsTried ==
    \A c \in Client :
         /\ pc[c] \in {"host", "socket", "connect", "tls"} => index[c] > 0
         /\ pc[c] = "count" => resolved \in Resolutions
         /\ stable[c] /\ pc[c] \in {"host", "socket", "connect", "tls"} =>
               /\ resolved \in Resolutions
               /\ hosts[c] = Len(resolved) /\ index[c] \in 1..Len(resolved)
         /\ stable[c] /\ pc[c] = "host" =>
               tried[c] = {resolved[j] : j \in 1..(index[c] - 1)}
         /\ stable[c] /\ pc[c] \in {"socket", "connect", "tls"} =>
               tried[c] = {resolved[j] : j \in 1..index[c]}

(* What is allocated is at least what the threads point to. *)
Number(flag) == Cardinality({c \in Client : flag[c]})
Pointed == Number(ssl) + Number(sec_ctx) + Number(remote) + Number(local)
NeverTooFew == allocated >= Pointed

(* As long as no attempt has followed another, the threads point to all    *)
(* that is open or allocated: an attempt finds nothing of an earlier one.  *)
NothingLost ==
    ~retried =>
        /\ allocated = Pointed
        /\ \A n \in InUse : \E c \in Client : socket[c] = n
        /\ \A c \in Client :
              /\ pc[c] \in {"host", "socket"} => socket[c] = 0
              /\ pc[c] \in {"host", "socket", "connect"} => ~remote[c] /\ ~local[c]

NoPoolInv ==
    /\ TypeOK /\ GhostsOK /\ SocketsOwned /\ SessionsFollow /\ HostsTried
    /\ NeverTooFew /\ NothingLost /\ Registered /\ TriesEach /\ NoSigpipe

-----------------------------------------------------------------------------
(* Lemmas about sets, sequences and the operators of NoPool *)

\* Min of a set of numbers is one of them.
LEMMA LeastIsMember ==
    ASSUME NEW S, S \subseteq Nat, S # {}
    PROVE  Min(S) \in S
  <1> DEFINE Below == OpToRel(<, Nat)
  <1>0. IsWellFoundedOn(Below, Nat)
    BY NatLessThanWellFounded
  <1> HIDE DEF Below
  <1>1. PICK x \in S : \A y \in S : ~(<<y, x>> \in Below)
    BY <1>0, WFMin
  <1>2. \A y \in S : x =< y
    <2> TAKE y \in S
    <2>1. y \in Nat /\ x \in Nat
      OBVIOUS
    <2>2. <<y, x>> \notin Below
      BY <1>1
    <2>3. ~(y < x)
      BY <2>1, <2>2 DEF Below, OpToRel
    <2> QED
      BY <2>1, <2>3
  <1> QED
    BY <1>2 DEF Min

\* The socket number that is given out next is not in use: of one more number
\* than there are sockets, one is free.
LEMMA FreeSocketIsFree ==
    ASSUME IsFiniteSet(InUse)
    PROVE  FreeSocket \in Nat \ {0} /\ FreeSocket \notin InUse
  <1> DEFINE n == Cardinality(InUse)
             numbers == 1 .. n + 1
  <1>1. n \in Nat
    BY FS_CardinalityType
  <1>2. Cardinality(numbers) = n + 1
    <2>1. Cardinality(1 .. n + 1) = IF 1 > n + 1 THEN 0 ELSE (n + 1) - 1 + 1
      BY <1>1, FS_Interval
    <2> QED
      BY <1>1, <2>1
  <1>3. numbers \ InUse # {}
    <2> SUFFICES ASSUME numbers \subseteq InUse PROVE FALSE
      OBVIOUS
    <2>1. Cardinality(numbers) <= Cardinality(InUse)
      BY FS_Subset
    <2> QED
      BY <1>1, <1>2, <2>1
  <1>4. numbers \ InUse \subseteq Nat
    BY <1>1
  <1>5. Min(numbers \ InUse) \in numbers \ InUse
    BY <1>3, <1>4, LeastIsMember
  <1> QED
    BY <1>1, <1>5 DEF FreeSocket

\* How many threads have a flag set, once it is written for one thread.
LEMMA NumberWritten ==
    ASSUME NEW flag \in [Client -> BOOLEAN], NEW c \in Client, NEW b \in BOOLEAN
    PROVE  /\ Number(flag) \in Nat
           /\ Number([flag EXCEPT ![c] = b]) \in Nat
           /\ Number([flag EXCEPT ![c] = b]) = (Number(flag) - One(flag[c])) + One(b)
  <1> DEFINE S == {d \in Client : flag[d]}
             T == {d \in Client : [flag EXCEPT ![c] = b][d]}
  <1>1. IsFiniteSet(S) /\ IsFiniteSet(T)
    BY FS_Subset, NoPoolAssumption
  <1>2. Cardinality(S) \in Nat /\ Cardinality(T) \in Nat
    BY <1>1, FS_CardinalityType
  <1>3. CASE b
    <2>1. T = S \cup {c}
      BY <1>3
    <2>2. Cardinality(T) = IF c \in S THEN Cardinality(S) ELSE Cardinality(S) + 1
      BY <1>1, <2>1, FS_AddElement
    <2>3. One(flag[c]) = (IF c \in S THEN 1 ELSE 0) /\ One(b) = 1
      BY <1>3 DEF One
    <2> HIDE DEF S, T
    <2>4. Cardinality(T) = (Cardinality(S) - One(flag[c])) + One(b)
      BY <1>2, <2>2, <2>3
    <2> QED
      BY <1>2, <2>4 DEF Number, S, T
  <1>4. CASE ~b
    <2>1. T = S \ {c}
      BY <1>4
    <2>2. Cardinality(T) = IF c \in S THEN Cardinality(S) - 1 ELSE Cardinality(S)
      BY <1>1, <2>1, FS_RemoveElement
    <2>3. One(flag[c]) = (IF c \in S THEN 1 ELSE 0) /\ One(b) = 0
      BY <1>4 DEF One
    <2> HIDE DEF S, T
    <2>4. Cardinality(T) = (Cardinality(S) - One(flag[c])) + One(b)
      BY <1>2, <2>2, <2>3
    <2> QED
      BY <1>2, <2>4 DEF Number, S, T
  <1> QED
    BY <1>3, <1>4

\* A thread that has a flag set is counted.
LEMMA NumberAtLeast ==
    ASSUME NEW flag \in [Client -> BOOLEAN], NEW c \in Client
    PROVE  Number(flag) \in Nat /\ One(flag[c]) \in 0 .. 1 /\ Number(flag) >= One(flag[c])
  <1> DEFINE all == Number(flag)
             others == Number([flag EXCEPT ![c] = FALSE])
             here == One(flag[c])
             none == One(FALSE)
  <1>1. all \in Nat /\ others \in Nat /\ others = (all - here) + none
    BY NumberWritten
  <1>2. none = 0 /\ here \in 0 .. 1
    BY DEF One
  <1> HIDE DEF all, others, here, none
  <1>3. all >= here
    BY <1>1, <1>2
  <1> QED
    BY <1>1, <1>2, <1>3 DEF all, here

\* No thread has a flag set: their number is zero.
LEMMA NumberOfNone ==
    ASSUME NEW flag, \A c \in Client : ~flag[c]
    PROVE  Number(flag) = 0
  <1>1. {c \in Client : flag[c]} = {}
    OBVIOUS
  <1> QED
    BY <1>1, FS_EmptySet DEF Number

\* Removing a thread from a list without duplicates: the others stay, once each.
LEMMA WithoutRemoves ==
    ASSUME NEW list \in Seq(Client), IsInjective(list), NEW c \in Client
    PROVE  /\ Without(list, c) \in Seq(Client)
           /\ IsInjective(Without(list, c))
           /\ Range(Without(list, c)) = Range(list) \ {c}
  <1>1. CASE ~ \E i \in 1 .. Len(list) : list[i] = c
    <2>1. Without(list, c) = list
      BY <1>1 DEF Without, RemoveFirst
    <2>2. c \notin Range(list)
      BY <1>1 DEF Range
    <2> QED
      BY <2>1, <2>2
  <1>2. CASE \E i \in 1 .. Len(list) : list[i] = c
    <2> DEFINE I == {i \in 1 .. Len(list) : list[i] = c}
               k == Min(I)
               low == SubSeq(list, 1, k - 1)
               high == SubSeq(list, k + 1, Len(list))
               rest == low \o high
    <2>1. I # {} /\ I \subseteq Nat
      BY <1>2
    <2>2. k \in I
      BY <2>1, LeastIsMember
    <2>3. Without(list, c) = rest
      BY <1>2, <2>1 DEF Without, RemoveFirst, RemoveAt, SelectInSeq
    <2>4. k \in 1 .. Len(list) /\ list[k] = c
      BY <2>2
    <2> HIDE DEF k
    <2>5. /\ rest \in Seq(Client) /\ Len(rest) = Len(list) - 1
          /\ \A i \in 1 .. Len(rest) : rest[i] = IF i < k THEN list[i] ELSE list[i + 1]
      <3>1. /\ low \in Seq(Client) /\ Len(low) = k - 1
            /\ \A i \in 1 .. k - 1 : low[i] = list[i]
        BY <2>4
      <3>2. /\ high \in Seq(Client) /\ Len(high) = Len(list) - k
            /\ \A i \in 1 .. Len(list) - k : high[i] = list[k + i]
        BY <2>4
      <3> HIDE DEF low, high
      <3>3. rest \in Seq(Client) /\ Len(rest) = Len(list) - 1
        <4> low \in Seq(Client) /\ high \in Seq(Client)
          BY <3>1, <3>2
        <4>1. rest \in Seq(Client) /\ Len(rest) = Len(low) + Len(high)
          OBVIOUS
        <4>2. (k - 1) + (Len(list) - k) = Len(list) - 1
          BY <2>4
        <4> QED
          BY <3>1, <3>2, <4>1, <4>2
      <3>4. ASSUME NEW i \in 1 .. Len(rest)
            PROVE  rest[i] = IF i < k THEN list[i] ELSE list[i + 1]
        <4>1. CASE i < k
          BY <2>4, <3>1, <3>2, <3>3, <4>1
        <4>2. CASE i >= k
          <5>1. rest[i] = high[i - (k - 1)] /\ i - (k - 1) \in 1 .. Len(list) - k
            BY <2>4, <3>1, <3>2, <3>3, <4>2
          <5>2. high[i - (k - 1)] = list[k + (i - (k - 1))]
            BY <3>2, <5>1
          <5> QED
            BY <2>4, <3>3, <4>2, <5>1, <5>2
        <4> QED
          BY <2>4, <3>3, <4>1, <4>2
      <3> QED
        BY <3>3, <3>4
    <2> HIDE DEF rest
    <2>6. IsInjective(rest)
      <3> SUFFICES ASSUME NEW i \in 1 .. Len(rest), NEW j \in 1 .. Len(rest), rest[i] = rest[j]
                   PROVE  i = j
        BY <2>5 DEF IsInjective
      <3>1. \A m, n \in 1 .. Len(list) : list[m] = list[n] => m = n
        BY DEF IsInjective
      <3> QED
        BY <2>4, <2>5, <3>1
    <2>7. Range(rest) \subseteq Range(list) \ {c}
      BY <2>4, <2>5 DEF Range, IsInjective
    <2>8. Range(list) \ {c} \subseteq Range(rest)
      <3> SUFFICES ASSUME NEW i \in 1 .. Len(list), list[i] # c
                   PROVE  list[i] \in Range(rest)
        BY DEF Range
      <3>1. CASE i < k
        <4>1. i \in 1 .. Len(rest) /\ rest[i] = list[i]
          BY <2>4, <2>5, <3>1
        <4> QED
          BY <2>5, <4>1 DEF Range
      <3>2. CASE i > k
        <4>1. i - 1 \in 1 .. Len(rest) /\ rest[i - 1] = list[i]
          BY <2>4, <2>5, <3>2
        <4> QED
          BY <2>5, <4>1 DEF Range
      <3> QED
        BY <2>4, <3>1, <3>2
    <2> QED
      BY <2>3, <2>5, <2>6, <2>7, <2>8
  <1> QED
    BY <1>1, <1>2

\* The first of a list without duplicates is removed: the others stay, once each.
LEMMA TailRemoves ==
    ASSUME NEW list \in Seq(Client), IsInjective(list), list # <<>>
    PROVE  /\ Tail(list) \in Seq(Client)
           /\ IsInjective(Tail(list))
           /\ Range(Tail(list)) = Range(list) \ {Head(list)}
           /\ Head(list) \in Range(list)
  <1> DEFINE rest == Tail(list)
  <1>1. /\ rest \in Seq(Client) /\ Len(rest) = Len(list) - 1 /\ Len(list) >= 1
        /\ \A i \in 1 .. Len(rest) : rest[i] = list[i + 1]
        /\ Head(list) = list[1]
    OBVIOUS
  <1> HIDE DEF rest
  <1>2. IsInjective(rest)
    <2>1. DOMAIN rest = 1 .. Len(rest) /\ DOMAIN list = 1 .. Len(list)
      BY <1>1
    <2>2. \A i, j \in 1 .. Len(list) : list[i] = list[j] => i = j
      BY <2>1 DEF IsInjective
    <2>3. ASSUME NEW i \in 1 .. Len(rest), NEW j \in 1 .. Len(rest), rest[i] = rest[j]
          PROVE  i = j
      <3>1. list[i + 1] = list[j + 1]
        BY <1>1, <2>3
      <3>2. i + 1 \in 1 .. Len(list) /\ j + 1 \in 1 .. Len(list)
        BY <1>1
      <3>3. i + 1 = j + 1
        BY <2>2, <3>1, <3>2
      <3> QED
        BY <1>1, <3>3
    <2> QED
      BY <2>1, <2>3 DEF IsInjective
  <1>3. Range(rest) \subseteq Range(list) \ {Head(list)}
    BY <1>1 DEF Range, IsInjective
  <1>4. Range(list) \ {Head(list)} \subseteq Range(rest)
    <2> SUFFICES ASSUME NEW i \in 1 .. Len(list), list[i] # Head(list)
                 PROVE  list[i] \in Range(rest)
      BY DEF Range
    <2>1. i - 1 \in 1 .. Len(rest) /\ rest[i - 1] = list[i]
      BY <1>1
    <2> QED
      BY <1>1, <2>1 DEF Range
  <1>5. Head(list) \in Range(list)
    BY <1>1 DEF Range
  <1> QED
    BY <1>1, <1>2, <1>3, <1>4, <1>5 DEF rest

\* A connection appended to a list that does not have it.
LEMMA AppendAdds ==
    ASSUME NEW list \in Seq(Client), IsInjective(list), NEW c \in Client, c \notin Range(list)
    PROVE  /\ Append(list, c) \in Seq(Client)
           /\ IsInjective(Append(list, c))
           /\ Range(Append(list, c)) = Range(list) \cup {c}
  <1> DEFINE new == Append(list, c)
  <1>1. /\ new \in Seq(Client) /\ Len(new) = Len(list) + 1
        /\ \A i \in 1 .. Len(list) : new[i] = list[i]
        /\ new[Len(list) + 1] = c
    OBVIOUS
  <1> HIDE DEF new
  <1>2. IsInjective(new)
    BY <1>1 DEF IsInjective, Range
  <1>3. Range(new) \subseteq Range(list) \cup {c}
    BY <1>1 DEF Range
  <1>4. Range(list) \cup {c} \subseteq Range(new)
    BY <1>1 DEF Range
  <1> QED
    BY <1>1, <1>2, <1>3, <1>4 DEF new

\* The address has a list of hosts, which is empty before it is first resolved.
LEMMA ResolvedIsList ==
    ASSUME TypeOK
    PROVE  /\ Len(resolved) \in Nat /\ DOMAIN resolved = 1 .. Len(resolved)
           /\ resolved = <<>> => Len(resolved) = 0
           /\ resolved # <<>> => /\ resolved \in Resolutions /\ resolved \in Seq(Range(resolved))
                                 /\ Len(resolved) > 0 /\ Range(resolved) \subseteq Hosts
           /\ resolved \in Resolutions => resolved # <<>>
  <1>1. CASE resolved = <<>>
    BY <1>1, NoPoolAssumption
  <1>2. CASE resolved \in Resolutions
    <2>1. resolved \in Seq(Range(resolved)) /\ resolved # <<>>
      BY <1>2, NoPoolAssumption
    <2> DEFINE R == Range(resolved)
    <2> HIDE DEF R
    <2>2. resolved \in Seq(R)
      BY <2>1 DEF R
    <2>3. Len(resolved) \in Nat /\ DOMAIN resolved = 1 .. Len(resolved) /\ Len(resolved) > 0
      BY <2>1, <2>2
    <2>4. Range(resolved) \subseteq Hosts
      BY <1>2 DEF Hosts
    <2> QED
      BY <1>2, <2>1, <2>3, <2>4
  <1> QED
    BY <1>1, <1>2 DEF TypeOK

-----------------------------------------------------------------------------
(* The types are preserved *)

\* What a thread frees is allocated.
LEMMA AllocatedStaysNatural ==
    ASSUME TypeOK, NeverTooFew, NEW c \in Client
    PROVE  allocated - Live(c) \in Nat
  <1>1. /\ ssl \in [Client -> BOOLEAN] /\ sec_ctx \in [Client -> BOOLEAN]
        /\ remote \in [Client -> BOOLEAN] /\ local \in [Client -> BOOLEAN]
    BY DEF TypeOK
  <1>2. /\ Number(ssl) \in Nat /\ One(ssl[c]) \in 0 .. 1 /\ Number(ssl) >= One(ssl[c])
        /\ Number(sec_ctx) \in Nat /\ One(sec_ctx[c]) \in 0 .. 1 /\ Number(sec_ctx) >= One(sec_ctx[c])
        /\ Number(remote) \in Nat /\ One(remote[c]) \in 0 .. 1 /\ Number(remote) >= One(remote[c])
        /\ Number(local) \in Nat /\ One(local[c]) \in 0 .. 1 /\ Number(local) >= One(local[c])
    BY <1>1, NumberAtLeast
  <1>3. allocated \in Nat /\ allocated >= Pointed
    BY DEF TypeOK, NeverTooFew
  <1> QED
    BY <1>2, <1>3 DEF Live, Pointed

\* Every step preserves the types.
LEMMA TypesStep ==
    ASSUME TypeOK, GhostsOK, SocketsOwned, HostsTried, NeverTooFew, Registered,
           Next
    PROVE  TypeOK' /\ GhostsOK'
  <1>1. CASE DestroyNext
    <2> DEFINE c == Head(connections)
    <2>1. c \in Client /\ Tail(connections) \in Seq(Client)
      BY <1>1, TailRemoves DEF DestroyNext, TypeOK, Registered
    <2>2. allocated' \in Nat
      BY <1>1, <2>1, AllocatedStaysNatural DEF DestroyNext, Freed
    <2>3. MaxAcquires \in Nat
      BY NoPoolAssumption
    <2> HIDE DEF c
    <2>4. Freed(c) /\ Goto(c, "idle")
      BY <1>1 DEF DestroyNext, c
    <2>5. {ssl, sec_ctx, remote, local}' \subseteq [Client -> BOOLEAN] /\ socket' \in [Client -> Nat]
      BY <2>1, <2>4 DEF TypeOK, Freed
    <2> QED
      BY <1>1, <2>1, <2>2, <2>3, <2>4, <2>5
      DEF TypeOK, GhostsOK, DestroyNext, Freed, Goto, opening, signals
  <1>2. ASSUME NEW c \in Client, Resolve(c) PROVE TypeOK' /\ GhostsOK'
    <2>1. acquires' \in [Client -> Nat] /\ stable' \in [Client -> BOOLEAN]
      <3>1. acquires' \in [Client -> Nat]
        BY <1>2 DEF GhostsOK, Resolve
      <3>2. [d \in Client |-> FALSE] \in [Client -> BOOLEAN]
        OBVIOUS
      <3>3. stable' \in {stable, [d \in Client |-> FALSE]}
        BY <1>2 DEF Resolve
      <3> QED
        BY <3>1, <3>2, <3>3 DEF GhostsOK
    <2> QED
      BY <1>2, <2>1 DEF TypeOK, GhostsOK, Resolve, Goto, opening, comm, system, signals
  <1>3. ASSUME NEW c \in Client, Count(c) PROVE TypeOK' /\ GhostsOK'
    <2>1. Len(resolved) \in Nat
      BY ResolvedIsList
    <2> QED
      BY <1>3, <2>1 DEF TypeOK, GhostsOK, Count, Goto, Hosts, shared, comm, system, signals
  <1>4. ASSUME NEW c \in Client, ReadHost(c) PROVE TypeOK' /\ GhostsOK'
    <2>1. host' \in [Client -> Hosts]
      <3>1. index[c] \in Nat /\ index[c] > 0 /\ host[c] \in Hosts
        BY <1>4 DEF TypeOK, HostsTried, ReadHost, Hosts
      <3>2. ASSUME index[c] <= Len(resolved) PROVE resolved[index[c]] \in Hosts
        <4>1. resolved # <<>> /\ index[c] \in DOMAIN resolved
          BY <3>1, <3>2, ResolvedIsList
        <4> QED
          BY <4>1, ResolvedIsList DEF Range
      <3> DEFINE h == IF index[c] <= Len(resolved) THEN resolved[index[c]] ELSE host[c]
      <3>3. h \in Hosts
        BY <3>1, <3>2
      <3>4. host' = [host EXCEPT ![c] = h]
        BY <1>4 DEF ReadHost
      <3> HIDE DEF h
      <3> QED
        BY <3>3, <3>4 DEF TypeOK, Hosts
    <2> QED
      BY <1>4, <2>1 DEF TypeOK, GhostsOK, ReadHost, Goto, Hosts, shared, comm, system, signals
  <1>5. ASSUME NEW c \in Client, SocketFails(c) PROVE TypeOK' /\ GhostsOK'
    BY <1>5 DEF TypeOK, GhostsOK, SocketFails, NextHost, Goto, shared, opening, comm, system,
       signals
  <1>6. ASSUME NEW c \in Client, OpenSocket(c) PROVE TypeOK' /\ GhostsOK'
    <2>1. FreeSocket \in Nat \ {0}
      BY FreeSocketIsFree DEF SocketsOwned
    <2>2. open' \subseteq [number : Nat \ {0}, blocking : BOOLEAN]
      <3>1. (~Timeout) \in BOOLEAN
        OBVIOUS
      <3>2. Socket(FreeSocket, ~Timeout) \in [number : Nat \ {0}, blocking : BOOLEAN]
        BY <2>1, <3>1 DEF Socket
      <3>3. open' = open \cup {Socket(FreeSocket, ~Timeout)}
        BY <1>6 DEF OpenSocket
      <3> HIDE DEF Socket
      <3> QED
        BY <3>2, <3>3 DEF TypeOK
    <2> QED
      BY <1>6, <2>1, <2>2 DEF TypeOK, GhostsOK, OpenSocket, Goto, shared, opening, signals
  <1>7. ASSUME NEW c \in Client, ConnectFails(c) PROVE TypeOK' /\ GhostsOK'
    BY <1>7 DEF TypeOK, GhostsOK, ConnectFails, NextHost, Goto, shared, opening, comm, system,
       signals
  <1>8. ASSUME NEW c \in Client, Connect(c) PROVE TypeOK' /\ GhostsOK'
    <2>1. PICK noted \in 0 .. 2 :
             /\ remote' = [remote EXCEPT ![c] = @ \/ noted >= 1]
             /\ local' = [local EXCEPT ![c] = @ \/ noted = 2]
             /\ allocated' = allocated + noted
             /\ \/ NextHost(c)
                \/ Goto(c, IF Encrypted THEN "tls" ELSE "init") /\ UNCHANGED <<index, retried>>
      BY <1>8 DEF Connect
    <2>2. {ssl, sec_ctx, remote, local}' \subseteq [Client -> BOOLEAN]
      BY <1>8, <2>1 DEF TypeOK, Connect
    <2>3. open' \subseteq [number : Nat \ {0}, blocking : BOOLEAN]
      <3>1. socket[c] \in Nat \ {0}
        BY <1>8 DEF Connect, TypeOK, SocketsOwned
      <3>2. Socket(socket[c], TRUE) \in [number : Nat \ {0}, blocking : BOOLEAN]
        BY <3>1 DEF Socket
      <3>3. open' = (open \ {Socket(socket[c], FALSE)}) \cup {Socket(socket[c], TRUE)}
        BY <1>8 DEF Connect, Reverted
      <3> QED
        BY <3>2, <3>3 DEF TypeOK
    <2>4. allocated' \in Nat
      BY <2>1 DEF TypeOK
    <2>5. pc' \in [Client -> Pcs] /\ index' \in [Client -> Nat] /\ retried' \in BOOLEAN
      <3>1. CASE NextHost(c)
        <4>1. retried' = (retried \/ index[c] < hosts[c])
          BY <3>1 DEF NextHost
        <4>2. retried' \in BOOLEAN
          BY <4>1
        <4> QED
          BY <3>1, <4>2 DEF TypeOK, NextHost, Goto, Pcs
      <3>2. CASE Goto(c, IF Encrypted THEN "tls" ELSE "init") /\ UNCHANGED <<index, retried>>
        BY <3>2 DEF TypeOK, GhostsOK, Goto, Pcs
      <3> QED
        BY <2>1, <3>1, <3>2
    <2> QED
      BY <1>8, <2>2, <2>3, <2>4, <2>5 DEF TypeOK, GhostsOK, Connect, Pcs, shared, signals
  <1>9. ASSUME NEW c \in Client, Tls(c) PROVE TypeOK' /\ GhostsOK'
    BY <1>9 DEF TypeOK, GhostsOK, Tls, Goto, shared, opening, comm, system, signals
  <1>10. ASSUME NEW c \in Client, ContextFails(c) PROVE TypeOK' /\ GhostsOK'
    BY <1>10 DEF TypeOK, GhostsOK, ContextFails, Goto, shared, opening, comm, system, signals
  <1>11. ASSUME NEW c \in Client, TlsFails(c) PROVE TypeOK' /\ GhostsOK'
    BY <1>11 DEF TypeOK, GhostsOK, TlsFails, NextHost, Goto, shared, opening, comm, system, signals
  <1>12. ASSUME NEW c \in Client, BrokenPipe(c) PROVE TypeOK' /\ GhostsOK'
    BY <1>12 DEF TypeOK, GhostsOK, BrokenPipe, Goto, shared, opening, comm, system, signals
  <1>13. ASSUME NEW c \in Client, InitSends(c) PROVE TypeOK' /\ GhostsOK'
    BY <1>13 DEF TypeOK, GhostsOK, InitSends, IgnoreSigpipe, Goto, shared, opening, comm, system,
       signals
  <1>14. ASSUME NEW c \in Client, InitReturns(c) PROVE TypeOK' /\ GhostsOK'
    BY <1>14 DEF TypeOK, GhostsOK, InitReturns, RestoreSigpipe, Delivers, Goto, shared, opening,
       comm, system, signals
  <1>15. ASSUME NEW c \in Client, Register(c) PROVE TypeOK' /\ GhostsOK'
    <2>1. connections' \in Seq(Client)
      BY <1>15 DEF TypeOK, Register
    <2> QED
      BY <1>15, <2>1 DEF TypeOK, GhostsOK, Register, Goto, opening, comm, system, signals
  <1>16. ASSUME NEW c \in Client, Release(c) PROVE TypeOK' /\ GhostsOK'
    <2>1. connections' \in Seq(Client)
      BY <1>16, WithoutRemoves DEF TypeOK, Release, Registered
    <2> QED
      BY <1>16, <2>1 DEF TypeOK, GhostsOK, Release, IgnoreSigpipe, Goto, opening, comm, system
  <1>17. ASSUME NEW c \in Client, Close(c) PROVE TypeOK' /\ GhostsOK'
    <2>1. allocated' \in Nat
      BY <1>17, AllocatedStaysNatural DEF Close, Freed
    <2>2. {ssl, sec_ctx, remote, local}' \subseteq [Client -> BOOLEAN] /\ socket' \in [Client -> Nat]
      BY <1>17 DEF TypeOK, Close, Freed
    <2> QED
      BY <1>17, <2>1, <2>2 DEF TypeOK, GhostsOK, Close, Freed, RestoreSigpipe, Delivers, Goto, shared,
         opening
  <1>18. ASSUME NEW c \in Client, GoodbyeReturns(c) PROVE TypeOK' /\ GhostsOK'
    BY <1>18 DEF TypeOK, GhostsOK, GoodbyeReturns, Delivers, IgnoreSigpipe, Goto, shared, opening, comm,
       system
  <1> QED
    BY <1>1, <1>2, <1>3, <1>4, <1>5, <1>6, <1>7, <1>8, <1>9, <1>10, <1>11, <1>12, <1>13, <1>14,
       <1>15, <1>16, <1>17, <1>18 DEF Next, Step

-----------------------------------------------------------------------------
(* Sockets *)

\* What is in use after a close, and after a socket is made or changed.
LEMMA InUseAfter ==
    /\ open' = open => InUse' = InUse
    /\ \A n : open' = {s \in open : s.number # n} => InUse' = InUse \ {n}
    /\ \A n, b : open' = open \cup {Socket(n, b)} => InUse' = InUse \cup {n}
    /\ \A n \in InUse : open' = Reverted(n) => InUse' = InUse
  <1>1. ASSUME NEW n, open' = {s \in open : s.number # n} PROVE InUse' = InUse \ {n}
    BY <1>1 DEF InUse
  <1>0. \A n, b : Socket(n, b).number = n
    BY DEF Socket
  <1>2. ASSUME NEW n, NEW b, open' = open \cup {Socket(n, b)} PROVE InUse' = InUse \cup {n}
    <2>1. {s.number : s \in open \cup {Socket(n, b)}} = {s.number : s \in open} \cup {Socket(n, b).number}
      OBVIOUS
    <2> QED
      BY <1>0, <1>2, <2>1 DEF InUse
  <1>3. ASSUME NEW n \in InUse, open' = Reverted(n) PROVE InUse' = InUse
    <2> DEFINE others == open \ {Socket(n, FALSE)}
    <2>1. open' = others \cup {Socket(n, TRUE)}
      BY <1>3 DEF Reverted
    <2>2. {s.number : s \in others \cup {Socket(n, TRUE)}}
             = {s.number : s \in others} \cup {Socket(n, TRUE).number}
      OBVIOUS
    <2>3. {s.number : s \in open} \subseteq {s.number : s \in others} \cup {Socket(n, FALSE).number}
      OBVIOUS
    <2>4. {s.number : s \in others} \subseteq {s.number : s \in open}
      OBVIOUS
    <2>5. Socket(n, TRUE).number = n /\ Socket(n, FALSE).number = n
      BY <1>0
    <2> QED
      BY <1>3, <2>1, <2>2, <2>3, <2>4, <2>5 DEF InUse
  <1> QED
    BY <1>1, <1>2, <1>3 DEF InUse

\* A thread closes its socket: no other thread has it.
LEMMA FreedSockets ==
    ASSUME TypeOK, SocketsOwned, NEW c \in Client, Freed(c), Goto(c, "idle")
    PROVE  SocketsOwned'
  <1>1. /\ open' = {s \in open : s.number # socket[c]}
        /\ socket' = [socket EXCEPT ![c] = 0] /\ pc' = [pc EXCEPT ![c] = "idle"]
    BY DEF Freed, Goto
  <1>2. InUse' = InUse \ {socket[c]}
    BY <1>1, InUseAfter
  <1>3. IsFiniteSet(InUse')
    BY <1>2, FS_RemoveElement DEF SocketsOwned
  <1>4. \A d \in Client : socket'[d] = (IF d = c THEN 0 ELSE socket[d])
                          /\ pc'[d] = (IF d = c THEN "idle" ELSE pc[d])
    BY <1>1 DEF TypeOK
  <1>5. ASSUME NEW d \in Client, d # c, Socket(socket[d], TRUE) \in open
        PROVE  Socket(socket[d], TRUE) \in open'
    <2>1. socket[d] # 0
      BY <1>5 DEF TypeOK, Socket
    <2>2. socket[d] # socket[c]
      BY <1>5, <2>1 DEF SocketsOwned
    <2> QED
      BY <1>1, <1>5, <2>2 DEF Socket
  <1>6. \A d \in Client :
           /\ socket'[d] # 0 => socket'[d] \in InUse'
           /\ \A e \in Client : e # d /\ socket'[d] # 0 => socket'[e] # socket'[d]
    <2> TAKE d \in Client
    <2>1. CASE d = c
      BY <1>4, <2>1
    <2>2. CASE d # c
      <3>1. socket'[d] = socket[d] /\ (socket[d] # 0 => socket[d] \in InUse /\ socket[d] # socket[c])
        BY <1>4, <2>2 DEF SocketsOwned
      <3>2. \A e \in Client : e # d /\ socket[d] # 0 => socket[e] # socket[d]
        BY DEF SocketsOwned
      <3> QED
        BY <1>2, <1>4, <3>1, <3>2
    <2> QED
      BY <2>1, <2>2
  <1>7. \A d \in Client :
           /\ pc'[d] \in {"idle", "count"} => socket'[d] = 0
           /\ pc'[d] = "connect" => socket'[d] # 0
           /\ pc'[d] \in {"tls", "init", "exchange", "register", "held"} =>
                 Socket(socket'[d], TRUE) \in open'
    <2> TAKE d \in Client
    <2>1. CASE d = c
      BY <1>4, <2>1
    <2>2. CASE d # c
      <3>1. socket'[d] = socket[d] /\ pc'[d] = pc[d]
        BY <1>4, <2>2
      <3>2. /\ pc[d] \in {"idle", "count"} => socket[d] = 0
            /\ pc[d] = "connect" => socket[d] # 0
        BY DEF SocketsOwned
      <3>3. ASSUME pc[d] \in {"tls", "init", "exchange", "register", "held"}
            PROVE  Socket(socket[d], TRUE) \in open'
        BY <1>5, <2>2, <3>3 DEF SocketsOwned
      <3> QED
        BY <3>1, <3>2, <3>3
    <2> QED
      BY <2>1, <2>2
  <1> QED
    BY <1>3, <1>6, <1>7 DEF SocketsOwned

\* A thread goes on and no socket changes.
LEMMA SocketsStay ==
    ASSUME TypeOK, SocketsOwned, NEW c \in Client, NEW to,
           open' = open, socket' = socket, pc' = [pc EXCEPT ![c] = to],
           to \in {"idle", "count"} => socket[c] = 0,
           to = "connect" => socket[c] # 0,
           to \in {"tls", "init", "exchange", "register", "held"} => Socket(socket[c], TRUE) \in open
    PROVE  SocketsOwned'
  <1>1. InUse' = InUse
    BY InUseAfter
  <1>2. \A d \in Client : pc'[d] = IF d = c THEN to ELSE pc[d]
    BY DEF TypeOK
  <1> DEFINE has(n) == Socket(n, TRUE) \in open
  <1>3. \A d \in Client :
           /\ pc'[d] \in {"idle", "count"} => socket[d] = 0
           /\ pc'[d] = "connect" => socket[d] # 0
           /\ pc'[d] \in {"tls", "init", "exchange", "register", "held"} => has(socket[d])
    <2>1. \A d \in Client :
           /\ pc[d] \in {"idle", "count"} => socket[d] = 0
           /\ pc[d] = "connect" => socket[d] # 0
           /\ pc[d] \in {"tls", "init", "exchange", "register", "held"} => has(socket[d])
      BY DEF SocketsOwned
    <2>2. /\ to \in {"idle", "count"} => socket[c] = 0
          /\ to = "connect" => socket[c] # 0
          /\ to \in {"tls", "init", "exchange", "register", "held"} => has(socket[c])
      OBVIOUS
    <2> HIDE DEF has
    <2> QED
      BY <1>2, <2>1, <2>2
  <1> QED
    BY <1>1, <1>3 DEF SocketsOwned

\* Every step leaves each thread a socket of its own.
LEMMA SocketsStep ==
    ASSUME TypeOK, SocketsOwned, Registered,
           Next
    PROVE  SocketsOwned'
  <1>1. CASE DestroyNext
    <2>1. Head(connections) \in Client
      BY <1>1, TailRemoves DEF DestroyNext, TypeOK, Registered
    <2> QED
      BY <1>1, <2>1, FreedSockets DEF DestroyNext
  <1>2. ASSUME NEW c \in Client, Resolve(c) PROVE SocketsOwned'
    <2>1. open' = open /\ socket' = socket
      BY <1>2 DEF Resolve, comm, system
    <2>2. PICK to \in {"count", "failed"} : pc' = [pc EXCEPT ![c] = to]
      BY <1>2 DEF Resolve, Goto
    <2>3. socket[c] = 0
      BY <1>2 DEF Resolve, SocketsOwned
    <2> QED
      BY <2>1, <2>2, <2>3, SocketsStay
  <1>3. ASSUME NEW c \in Client, Count(c) PROVE SocketsOwned'
    <2>1. open' = open /\ socket' = socket
      BY <1>3 DEF Count, comm, system
    <2>2. PICK to \in {"host"} : pc' = [pc EXCEPT ![c] = to]
      BY <1>3 DEF Count, Goto
    <2> QED
      BY <2>1, <2>2, SocketsStay
  <1>4. ASSUME NEW c \in Client, ReadHost(c) PROVE SocketsOwned'
    <2>1. open' = open /\ socket' = socket
      BY <1>4 DEF ReadHost, comm, system
    <2>2. PICK to \in {"socket"} : pc' = [pc EXCEPT ![c] = to]
      BY <1>4 DEF ReadHost, Goto
    <2> QED
      BY <2>1, <2>2, SocketsStay
  <1>5. ASSUME NEW c \in Client, SocketFails(c) PROVE SocketsOwned'
    <2>1. open' = open /\ socket' = [socket EXCEPT ![c] = 0]
      BY <1>5 DEF SocketFails, system
    <2>2. InUse' = InUse
      BY <2>1, InUseAfter
    <2>3. pc[c] = "socket" /\ \E to \in {"host", "unopened"} : pc' = [pc EXCEPT ![c] = to]
      BY <1>5 DEF SocketFails, NextHost, Goto
    <2> QED
      BY <2>1, <2>2, <2>3 DEF SocketsOwned, TypeOK
  <1>6. ASSUME NEW c \in Client, OpenSocket(c) PROVE SocketsOwned'
    <2> DEFINE n == FreeSocket
    <2>1. n \in Nat \ {0} /\ n \notin InUse
      BY FreeSocketIsFree DEF SocketsOwned
    <2>2. /\ open' = open \cup {Socket(n, ~Timeout)} /\ socket' = [socket EXCEPT ![c] = n]
          /\ pc[c] = "socket" /\ pc' = [pc EXCEPT ![c] = "connect"]
      BY <1>6 DEF OpenSocket, Goto
    <2> HIDE DEF n
    <2>3. InUse' = InUse \cup {n}
      BY <2>2, InUseAfter
    <2>4. IsFiniteSet(InUse')
      BY <2>3, FS_AddElement DEF SocketsOwned
    <2>5. open \subseteq open'
      BY <2>2
    <2>6. \A d \in Client : socket'[d] = (IF d = c THEN n ELSE socket[d])
                            /\ pc'[d] = (IF d = c THEN "connect" ELSE pc[d])
      BY <2>2 DEF TypeOK
    <2>7. \A d \in Client :
             /\ socket'[d] # 0 => socket'[d] \in InUse'
             /\ \A e \in Client : e # d /\ socket'[d] # 0 => socket'[e] # socket'[d]
      BY <2>1, <2>3, <2>6 DEF SocketsOwned
    <2>8. \A d \in Client :
             /\ pc'[d] \in {"idle", "count"} => socket'[d] = 0
             /\ pc'[d] = "connect" => socket'[d] # 0
             /\ pc'[d] \in {"tls", "init", "exchange", "register", "held"} =>
                   Socket(socket'[d], TRUE) \in open'
      <3> TAKE d \in Client
      <3>1. CASE d = c
        BY <2>1, <2>6, <3>1
      <3>2. CASE d # c
        <4>1. socket'[d] = socket[d] /\ pc'[d] = pc[d]
          BY <2>6, <3>2
        <4>2. /\ pc[d] \in {"idle", "count"} => socket[d] = 0
              /\ pc[d] = "connect" => socket[d] # 0
          BY DEF SocketsOwned
        <4>3. ASSUME pc[d] \in {"tls", "init", "exchange", "register", "held"}
              PROVE  Socket(socket[d], TRUE) \in open'
          BY <2>5, <4>3 DEF SocketsOwned
        <4> QED
          BY <4>1, <4>2, <4>3
      <3> QED
        BY <3>1, <3>2
    <2> QED
      BY <2>4, <2>7, <2>8 DEF SocketsOwned
  <1>7. ASSUME NEW c \in Client, ConnectFails(c) PROVE SocketsOwned'
    <2>1. open' = open /\ socket' = socket
      BY <1>7 DEF ConnectFails, comm, system
    <2>2. PICK to \in {"host", "unopened"} : pc' = [pc EXCEPT ![c] = to]
      BY <1>7 DEF ConnectFails, NextHost, Goto
    <2> QED
      BY <2>1, <2>2, SocketsStay
  <1>8. ASSUME NEW c \in Client, Connect(c) PROVE SocketsOwned'
    <2>1. socket[c] # 0 /\ socket[c] \in InUse /\ pc[c] = "connect"
      BY <1>8 DEF Connect, SocketsOwned
    <2>2. open' = Reverted(socket[c]) /\ socket' = socket
      BY <1>8 DEF Connect
    <2>3. InUse' = InUse
      BY <2>1, <2>2, InUseAfter
    <2>4. Socket(socket[c], TRUE) \in open'
      BY <2>2 DEF Reverted
    <2>5. \A n : Socket(n, TRUE) \in open => Socket(n, TRUE) \in open'
      BY <2>2 DEF Reverted, Socket
    <2>6. \E to \in {"host", "unopened", "tls", "init"} : pc' = [pc EXCEPT ![c] = to]
      BY <1>8 DEF Connect, NextHost, Goto
    <2> QED
      BY <2>1, <2>2, <2>3, <2>4, <2>5, <2>6 DEF SocketsOwned, TypeOK
  <1>9. ASSUME NEW c \in Client, Tls(c) PROVE SocketsOwned'
    <2>1. open' = open /\ socket' = socket
      BY <1>9 DEF Tls, comm, system
    <2>2. PICK to \in {"init"} : pc' = [pc EXCEPT ![c] = to]
      BY <1>9 DEF Tls, Goto
    <2>3. Socket(socket[c], TRUE) \in open
      BY <1>9 DEF Tls, SocketsOwned
    <2> QED
      BY <2>1, <2>2, <2>3, SocketsStay
  <1>10. ASSUME NEW c \in Client, ContextFails(c) PROVE SocketsOwned'
    <2>1. open' = open /\ socket' = socket
      BY <1>10 DEF ContextFails, comm, system
    <2>2. PICK to \in {"crashed"} : pc' = [pc EXCEPT ![c] = to]
      BY <1>10 DEF ContextFails, Goto
    <2> QED
      BY <2>1, <2>2, SocketsStay
  <1>11. ASSUME NEW c \in Client, TlsFails(c) PROVE SocketsOwned'
    <2>1. open' = open /\ socket' = socket
      BY <1>11 DEF TlsFails, comm, system
    <2>2. PICK to \in {"host", "unopened"} : pc' = [pc EXCEPT ![c] = to]
      BY <1>11 DEF TlsFails, NextHost, Goto
    <2> QED
      BY <2>1, <2>2, SocketsStay
  <1>12. ASSUME NEW c \in Client, BrokenPipe(c) PROVE SocketsOwned'
    <2>1. open' = open /\ socket' = socket /\ pc' = pc
      BY <1>12 DEF BrokenPipe, comm, system
    <2> QED
      BY <2>1, InUseAfter DEF SocketsOwned
  <1>13. ASSUME NEW c \in Client, InitSends(c) PROVE SocketsOwned'
    <2>1. open' = open /\ socket' = socket
      BY <1>13 DEF InitSends, comm, system
    <2>2. PICK to \in {"exchange"} : pc' = [pc EXCEPT ![c] = to]
      BY <1>13 DEF InitSends, Goto
    <2>3. Socket(socket[c], TRUE) \in open
      BY <1>13 DEF InitSends, SocketsOwned
    <2> QED
      BY <2>1, <2>2, <2>3, SocketsStay
  <1>14. ASSUME NEW c \in Client, InitReturns(c) PROVE SocketsOwned'
    <2>1. open' = open /\ socket' = socket
      BY <1>14 DEF InitReturns, comm, system
    <2>2. PICK to \in {"register", "failed"} : pc' = [pc EXCEPT ![c] = to]
      BY <1>14 DEF InitReturns, Goto
    <2>3. Socket(socket[c], TRUE) \in open
      BY <1>14 DEF InitReturns, SocketsOwned
    <2> QED
      BY <2>1, <2>2, <2>3, SocketsStay
  <1>15. ASSUME NEW c \in Client, Register(c) PROVE SocketsOwned'
    <2>1. open' = open /\ socket' = socket
      BY <1>15 DEF Register, comm, system
    <2>2. PICK to \in {"held"} : pc' = [pc EXCEPT ![c] = to]
      BY <1>15 DEF Register, Goto
    <2>3. Socket(socket[c], TRUE) \in open
      BY <1>15 DEF Register, SocketsOwned
    <2> QED
      BY <2>1, <2>2, <2>3, SocketsStay
  <1>16. ASSUME NEW c \in Client, Release(c) PROVE SocketsOwned'
    <2>1. open' = open /\ socket' = socket
      BY <1>16 DEF Release, comm, system
    <2>2. PICK to \in {"goodbye", "close"} : pc' = [pc EXCEPT ![c] = to]
      BY <1>16 DEF Release, Goto
    <2> QED
      BY <2>1, <2>2, SocketsStay
  <1>17. ASSUME NEW c \in Client, Close(c) PROVE SocketsOwned'
    BY <1>17, FreedSockets DEF Close
  <1>18. ASSUME NEW c \in Client, GoodbyeReturns(c) PROVE SocketsOwned'
    <2>1. open' = open /\ socket' = socket
      BY <1>18 DEF GoodbyeReturns, comm, system
    <2>2. PICK to \in {"close"} : pc' = [pc EXCEPT ![c] = to]
      BY <1>18 DEF GoodbyeReturns, Goto
    <2> QED
      BY <2>1, <2>2, SocketsStay
  <1> QED
    BY <1>1, <1>2, <1>3, <1>4, <1>5, <1>6, <1>7, <1>8, <1>9, <1>10, <1>11, <1>12, <1>13, <1>14,
       <1>15, <1>16, <1>17, <1>18 DEF Next, Step

-----------------------------------------------------------------------------
(* Sessions and endpoints *)

\* A thread goes on: only what belongs to it can change.
LEMMA SessionsMove ==
    ASSUME TypeOK, SessionsFollow, NEW c \in Client, NEW to,
           pc' = [pc EXCEPT ![c] = to],
           \A d \in Client \ {c} : /\ ssl'[d] = ssl[d] /\ sec_ctx'[d] = sec_ctx[d]
                                   /\ remote'[d] = remote[d] /\ local'[d] = local[d],
           to \in {"idle", "count"} => ~remote'[c] /\ ~local'[c],
           to \in {"tls", "init", "exchange", "register", "held"} => remote'[c] /\ local'[c],
           to = "tls" => Encrypted,
           to \in {"idle", "count", "host", "socket", "connect", "tls"} => ~ssl'[c] /\ ~sec_ctx'[c],
           to \in {"init", "exchange", "register", "held"} =>
               ssl'[c] = Encrypted /\ sec_ctx'[c] = Encrypted
    PROVE  SessionsFollow'
  <1> SUFFICES ASSUME NEW d \in Client
               PROVE
                 /\ pc'[d] \in {"idle", "count"} => ~remote'[d] /\ ~local'[d]
                 /\ pc'[d] \in {"tls", "init", "exchange", "register", "held"} => remote'[d] /\ local'[d]
                 /\ pc'[d] = "tls" => Encrypted
                 /\ pc'[d] \in {"idle", "count", "host", "socket", "connect", "tls"} =>
                       ~ssl'[d] /\ ~sec_ctx'[d]
                 /\ pc'[d] \in {"init", "exchange", "register", "held"} =>
                       ssl'[d] = Encrypted /\ sec_ctx'[d] = Encrypted
    BY DEF SessionsFollow
  <1>1. CASE d = c
    <2>1. pc'[d] = to
      BY <1>1 DEF TypeOK
    <2> QED
      BY <1>1, <2>1
  <1>2. CASE d # c
    <2>1. pc'[d] = pc[d]
      BY <1>2 DEF TypeOK
    <2>2. /\ ssl'[d] = ssl[d] /\ sec_ctx'[d] = sec_ctx[d]
          /\ remote'[d] = remote[d] /\ local'[d] = local[d]
      BY <1>2
    <2> QED
      BY <2>1, <2>2 DEF SessionsFollow
  <1> QED
    BY <1>1, <1>2

\* What a thread frees is gone, and nothing of another thread is.
LEMMA FreedSessions ==
    ASSUME TypeOK, SessionsFollow, NEW c \in Client, Freed(c), Goto(c, "idle")
    PROVE  SessionsFollow'
  <1>1. /\ pc' = [pc EXCEPT ![c] = "idle"]
        /\ ssl' = [ssl EXCEPT ![c] = FALSE] /\ sec_ctx' = [sec_ctx EXCEPT ![c] = FALSE]
        /\ remote' = [remote EXCEPT ![c] = FALSE] /\ local' = [local EXCEPT ![c] = FALSE]
    BY DEF Freed, Goto
  <1>2. /\ ssl'[c] = FALSE /\ sec_ctx'[c] = FALSE /\ remote'[c] = FALSE /\ local'[c] = FALSE
        /\ \A d \in Client \ {c} : /\ ssl'[d] = ssl[d] /\ sec_ctx'[d] = sec_ctx[d]
                                   /\ remote'[d] = remote[d] /\ local'[d] = local[d]
    BY <1>1 DEF TypeOK
  <1> QED
    BY <1>1, <1>2, SessionsMove

\* Every step leaves sessions and endpoints where they belong.
LEMMA SessionsStep ==
    ASSUME TypeOK, SessionsFollow, Registered,
           Next
    PROVE  SessionsFollow'
  <1>1. CASE DestroyNext
    <2>1. Head(connections) \in Client
      BY <1>1, TailRemoves DEF DestroyNext, TypeOK, Registered
    <2> QED
      BY <1>1, <2>1, FreedSessions DEF DestroyNext
  <1>2. ASSUME NEW c \in Client, Resolve(c) PROVE SessionsFollow'
    <2>1. UNCHANGED <<ssl, sec_ctx, remote, local>>
      BY <1>2 DEF Resolve, comm
    <2>2. PICK to \in {"count", "failed"} : pc' = [pc EXCEPT ![c] = to]
      BY <1>2 DEF Resolve, Goto
    <2>3. ~remote[c] /\ ~local[c] /\ ~ssl[c] /\ ~sec_ctx[c]
      BY <1>2 DEF Resolve, SessionsFollow
    <2> QED
      BY <2>1, <2>2, <2>3, SessionsMove
  <1>3. ASSUME NEW c \in Client, Count(c) PROVE SessionsFollow'
    <2>1. UNCHANGED <<ssl, sec_ctx, remote, local>>
      BY <1>3 DEF Count, comm
    <2>2. PICK to \in {"host"} : pc' = [pc EXCEPT ![c] = to]
      BY <1>3 DEF Count, Goto
    <2>3. ~ssl[c] /\ ~sec_ctx[c]
      BY <1>3 DEF Count, SessionsFollow
    <2> QED
      BY <2>1, <2>2, <2>3, SessionsMove
  <1>4. ASSUME NEW c \in Client, ReadHost(c) PROVE SessionsFollow'
    <2>1. UNCHANGED <<ssl, sec_ctx, remote, local>>
      BY <1>4 DEF ReadHost, comm
    <2>2. PICK to \in {"socket"} : pc' = [pc EXCEPT ![c] = to]
      BY <1>4 DEF ReadHost, Goto
    <2>3. ~ssl[c] /\ ~sec_ctx[c]
      BY <1>4 DEF ReadHost, SessionsFollow
    <2> QED
      BY <2>1, <2>2, <2>3, SessionsMove
  <1>5. ASSUME NEW c \in Client, SocketFails(c) PROVE SessionsFollow'
    <2>1. UNCHANGED <<ssl, sec_ctx, remote, local>>
      BY <1>5 DEF SocketFails, comm
    <2>2. PICK to \in {"host", "unopened"} : pc' = [pc EXCEPT ![c] = to]
      BY <1>5 DEF SocketFails, NextHost, Goto
    <2>3. ~ssl[c] /\ ~sec_ctx[c]
      BY <1>5 DEF SocketFails, SessionsFollow
    <2> QED
      BY <2>1, <2>2, <2>3, SessionsMove
  <1>6. ASSUME NEW c \in Client, OpenSocket(c) PROVE SessionsFollow'
    <2>1. UNCHANGED <<ssl, sec_ctx, remote, local>>
      BY <1>6 DEF OpenSocket, comm
    <2>2. PICK to \in {"connect"} : pc' = [pc EXCEPT ![c] = to]
      BY <1>6 DEF OpenSocket, Goto
    <2>3. ~ssl[c] /\ ~sec_ctx[c]
      BY <1>6 DEF OpenSocket, SessionsFollow
    <2> QED
      BY <2>1, <2>2, <2>3, SessionsMove
  <1>7. ASSUME NEW c \in Client, ConnectFails(c) PROVE SessionsFollow'
    <2>1. UNCHANGED <<ssl, sec_ctx, remote, local>>
      BY <1>7 DEF ConnectFails, comm
    <2>2. PICK to \in {"host", "unopened"} : pc' = [pc EXCEPT ![c] = to]
      BY <1>7 DEF ConnectFails, NextHost, Goto
    <2>3. ~ssl[c] /\ ~sec_ctx[c]
      BY <1>7 DEF ConnectFails, SessionsFollow
    <2> QED
      BY <2>1, <2>2, <2>3, SessionsMove
  <1>8. ASSUME NEW c \in Client, Connect(c) PROVE SessionsFollow'
    <2>1. PICK noted \in 0 .. 2 :
             /\ remote' = [remote EXCEPT ![c] = @ \/ noted >= 1]
             /\ local' = [local EXCEPT ![c] = @ \/ noted = 2]
             /\ NextHost(c) \/ (noted = 2 /\ Goto(c, IF Encrypted THEN "tls" ELSE "init"))
      BY <1>8 DEF Connect
    <2>2. ssl' = ssl /\ sec_ctx' = sec_ctx /\ ~ssl[c] /\ ~sec_ctx[c]
      BY <1>8 DEF Connect, SessionsFollow
    <2>3. \A d \in Client \ {c} : remote'[d] = remote[d] /\ local'[d] = local[d]
      BY <2>1 DEF TypeOK
    <2>4. CASE NextHost(c)
      <3>1. PICK to \in {"host", "unopened"} : pc' = [pc EXCEPT ![c] = to]
        BY <2>4 DEF NextHost, Goto
      <3> QED
        BY <2>2, <2>3, <3>1, SessionsMove
    <2>5. CASE noted = 2 /\ Goto(c, IF Encrypted THEN "tls" ELSE "init")
      <3>1. remote'[c] = (remote[c] \/ noted >= 1) /\ local'[c] = (local[c] \/ noted = 2)
        BY <2>1 DEF TypeOK
      <3>2. (noted >= 1) = TRUE /\ (noted = 2) = TRUE
        BY <2>5
      <3>3. remote'[c] /\ local'[c]
        BY <3>1, <3>2, Zenon
      <3>4. CASE Encrypted
        <4>1. pc' = [pc EXCEPT ![c] = "tls"]
          BY <2>5, <3>4 DEF Goto
        <4> QED
          BY <2>2, <2>3, <3>3, <3>4, <4>1, SessionsMove
      <3>5. CASE ~Encrypted
        <4>1. pc' = [pc EXCEPT ![c] = "init"]
          BY <2>5, <3>5 DEF Goto
        <4>2. ssl[c] = Encrypted /\ sec_ctx[c] = Encrypted
          <5>1. Encrypted = FALSE
            BY <3>5, NoPoolAssumption
          <5>2. ssl[c] = FALSE /\ sec_ctx[c] = FALSE
            BY <2>2 DEF TypeOK
          <5> QED
            BY <5>1, <5>2
        <4>3. /\ ssl'[c] = Encrypted /\ sec_ctx'[c] = Encrypted
              /\ \A d \in Client \ {c} : /\ ssl'[d] = ssl[d] /\ sec_ctx'[d] = sec_ctx[d]
                                         /\ remote'[d] = remote[d] /\ local'[d] = local[d]
          BY <2>2, <2>3, <4>2
        <4> QED
          BY <3>3, <4>1, <4>3, SessionsMove
      <3> QED
        BY <3>4, <3>5
    <2> QED
      BY <2>1, <2>4, <2>5
  <1>9. ASSUME NEW c \in Client, Tls(c) PROVE SessionsFollow'
    <2>1. /\ sec_ctx' = [sec_ctx EXCEPT ![c] = TRUE] /\ ssl' = [ssl EXCEPT ![c] = TRUE]
          /\ remote' = remote /\ local' = local /\ pc' = [pc EXCEPT ![c] = "init"]
      BY <1>9 DEF Tls, Goto
    <2>2. remote[c] /\ local[c] /\ Encrypted = TRUE
      BY <1>9, NoPoolAssumption DEF Tls, SessionsFollow
    <2>3. /\ ssl'[c] = TRUE /\ sec_ctx'[c] = TRUE
          /\ \A d \in Client \ {c} : ssl'[d] = ssl[d] /\ sec_ctx'[d] = sec_ctx[d]
      BY <2>1 DEF TypeOK
    <2> QED
      BY <2>1, <2>2, <2>3, SessionsMove
  <1>10. ASSUME NEW c \in Client, ContextFails(c) PROVE SessionsFollow'
    <2>1. UNCHANGED <<ssl, sec_ctx, remote, local>>
      BY <1>10 DEF ContextFails, comm
    <2>2. PICK to \in {"crashed"} : pc' = [pc EXCEPT ![c] = to]
      BY <1>10 DEF ContextFails, Goto
    <2> QED
      BY <2>1, <2>2, SessionsMove
  <1>11. ASSUME NEW c \in Client, TlsFails(c) PROVE SessionsFollow'
    <2>1. UNCHANGED <<ssl, sec_ctx, remote, local>>
      BY <1>11 DEF TlsFails, comm
    <2>2. PICK to \in {"host", "unopened"} : pc' = [pc EXCEPT ![c] = to]
      BY <1>11 DEF TlsFails, NextHost, Goto
    <2>3. ~ssl[c] /\ ~sec_ctx[c]
      BY <1>11 DEF TlsFails, SessionsFollow
    <2> QED
      BY <2>1, <2>2, <2>3, SessionsMove
  <1>12. ASSUME NEW c \in Client, BrokenPipe(c) PROVE SessionsFollow'
    BY <1>12 DEF BrokenPipe, comm, SessionsFollow
  <1>13. ASSUME NEW c \in Client, InitSends(c) PROVE SessionsFollow'
    <2>1. UNCHANGED <<ssl, sec_ctx, remote, local>>
      BY <1>13 DEF InitSends, comm
    <2>2. PICK to \in {"exchange"} : pc' = [pc EXCEPT ![c] = to]
      BY <1>13 DEF InitSends, Goto
    <2>3. remote[c] /\ local[c] /\ ssl[c] = Encrypted /\ sec_ctx[c] = Encrypted
      BY <1>13 DEF InitSends, SessionsFollow
    <2> QED
      BY <2>1, <2>2, <2>3, SessionsMove
  <1>14. ASSUME NEW c \in Client, InitReturns(c) PROVE SessionsFollow'
    <2>1. UNCHANGED <<ssl, sec_ctx, remote, local>>
      BY <1>14 DEF InitReturns, comm
    <2>2. PICK to \in {"register", "failed"} : pc' = [pc EXCEPT ![c] = to]
      BY <1>14 DEF InitReturns, Goto
    <2>3. remote[c] /\ local[c] /\ ssl[c] = Encrypted /\ sec_ctx[c] = Encrypted
      BY <1>14 DEF InitReturns, SessionsFollow
    <2> QED
      BY <2>1, <2>2, <2>3, SessionsMove
  <1>15. ASSUME NEW c \in Client, Register(c) PROVE SessionsFollow'
    <2>1. UNCHANGED <<ssl, sec_ctx, remote, local>>
      BY <1>15 DEF Register, comm
    <2>2. PICK to \in {"held"} : pc' = [pc EXCEPT ![c] = to]
      BY <1>15 DEF Register, Goto
    <2>3. remote[c] /\ local[c] /\ ssl[c] = Encrypted /\ sec_ctx[c] = Encrypted
      BY <1>15 DEF Register, SessionsFollow
    <2> QED
      BY <2>1, <2>2, <2>3, SessionsMove
  <1>16. ASSUME NEW c \in Client, Release(c) PROVE SessionsFollow'
    <2>1. UNCHANGED <<ssl, sec_ctx, remote, local>>
      BY <1>16 DEF Release, comm
    <2>2. PICK to \in {"goodbye", "close"} : pc' = [pc EXCEPT ![c] = to]
      BY <1>16 DEF Release, Goto
    <2> QED
      BY <2>1, <2>2, SessionsMove
  <1>17. ASSUME NEW c \in Client, Close(c) PROVE SessionsFollow'
    BY <1>17, FreedSessions DEF Close
  <1>18. ASSUME NEW c \in Client, GoodbyeReturns(c) PROVE SessionsFollow'
    <2>1. UNCHANGED <<ssl, sec_ctx, remote, local>>
      BY <1>18 DEF GoodbyeReturns, comm
    <2>2. PICK to \in {"close"} : pc' = [pc EXCEPT ![c] = to]
      BY <1>18 DEF GoodbyeReturns, Goto
    <2> QED
      BY <2>1, <2>2, SessionsMove
  <1> QED
    BY <1>1, <1>2, <1>3, <1>4, <1>5, <1>6, <1>7, <1>8, <1>9, <1>10, <1>11, <1>12, <1>13, <1>14,
       <1>15, <1>16, <1>17, <1>18 DEF Next, Step

-----------------------------------------------------------------------------
(* The hosts that an open tries *)

\* A thread goes on: only its own progress can change.
LEMMA HostsMove ==
    ASSUME TypeOK, HostsTried, TriesEach, NEW c \in Client, NEW to,
           pc' = [pc EXCEPT ![c] = to], resolved' = resolved,
           \A d \in Client \ {c} : /\ index'[d] = index[d] /\ hosts'[d] = hosts[d]
                                   /\ tried'[d] = tried[d] /\ stable'[d] = stable[d],
           to \in {"host", "socket", "connect", "tls"} => index'[c] > 0,
           to = "count" => resolved \in Resolutions,
           stable'[c] /\ to \in {"host", "socket", "connect", "tls"} =>
               /\ resolved \in Resolutions
               /\ hosts'[c] = Len(resolved) /\ index'[c] \in 1 .. Len(resolved),
           stable'[c] /\ to = "host" => tried'[c] = {resolved[j] : j \in 1 .. (index'[c] - 1)},
           stable'[c] /\ to \in {"socket", "connect", "tls"} =>
               tried'[c] = {resolved[j] : j \in 1 .. index'[c]},
           stable'[c] /\ to = "unopened" => tried'[c] = Range(resolved)
    PROVE  HostsTried' /\ TriesEach'
  <1> DEFINE Upto(n) == {resolved[j] : j \in 1 .. n}
             P(d) == /\ pc'[d] \in {"host", "socket", "connect", "tls"} => index'[d] > 0
                     /\ pc'[d] = "count" => resolved \in Resolutions
                     /\ stable'[d] /\ pc'[d] \in {"host", "socket", "connect", "tls"} =>
                           /\ resolved \in Resolutions
                           /\ hosts'[d] = Len(resolved) /\ index'[d] \in 1 .. Len(resolved)
                     /\ stable'[d] /\ pc'[d] = "host" => tried'[d] = Upto(index'[d] - 1)
                     /\ stable'[d] /\ pc'[d] \in {"socket", "connect", "tls"} =>
                           tried'[d] = Upto(index'[d])
                     /\ stable'[d] /\ pc'[d] = "unopened" => tried'[d] = Range(resolved)
  <1>1. P(c)
    <2>1. pc'[c] = to
      BY DEF TypeOK
    <2> QED
      BY <2>1
  <1>2. ASSUME NEW d \in Client, d # c PROVE P(d)
    <2>1. /\ pc'[d] = pc[d] /\ index'[d] = index[d] /\ hosts'[d] = hosts[d]
          /\ tried'[d] = tried[d] /\ stable'[d] = stable[d]
      BY <1>2 DEF TypeOK
    <2>2. /\ pc[d] \in {"host", "socket", "connect", "tls"} => index[d] > 0
          /\ pc[d] = "count" => resolved \in Resolutions
          /\ stable[d] /\ pc[d] \in {"host", "socket", "connect", "tls"} =>
                /\ resolved \in Resolutions
                /\ hosts[d] = Len(resolved) /\ index[d] \in 1 .. Len(resolved)
          /\ stable[d] /\ pc[d] = "host" => tried[d] = Upto(index[d] - 1)
          /\ stable[d] /\ pc[d] \in {"socket", "connect", "tls"} => tried[d] = Upto(index[d])
          /\ stable[d] /\ pc[d] = "unopened" => tried[d] = Range(resolved)
      BY DEF HostsTried, TriesEach
    <2> HIDE DEF Upto
    <2> QED
      BY <2>1, <2>2
  <1>3. \A d \in Client : P(d)
    BY <1>1, <1>2
  <1>4. (\A d \in Client : P(d)) => HostsTried' /\ TriesEach'
    BY DEF HostsTried, TriesEach
  <1> QED
    BY <1>3, <1>4

\* An attempt has failed: the next host is tried, or all have been.
LEMMA NextHostTries ==
    ASSUME TypeOK, GhostsOK, HostsTried, TriesEach, NEW c \in Client,
           pc[c] \in {"socket", "connect", "tls"}, NextHost(c),
           UNCHANGED <<resolved, hosts, tried, stable>>
    PROVE  HostsTried' /\ TriesEach'
  <1> DEFINE to == IF index[c] < hosts[c] THEN "host" ELSE "unopened"
  <1>1. pc' = [pc EXCEPT ![c] = to] /\ index' = [index EXCEPT ![c] = index[c] + 1]
    BY DEF NextHost, Goto
  <1>2. index[c] \in Nat /\ index[c] > 0 /\ hosts[c] \in Nat
    BY DEF HostsTried, TypeOK
  <1>3. index'[c] = index[c] + 1 /\ \A d \in Client \ {c} : index'[d] = index[d]
    BY <1>1 DEF TypeOK
  <1>4. to \in {"host", "unopened"}
    OBVIOUS
  <1>5. index'[c] > 0
    BY <1>2, <1>3
  <1>6. CASE ~stable[c]
    <2>1. ~stable'[c]
      BY <1>6
    <2> HIDE DEF to
    <2> QED
      BY <1>1, <1>3, <1>4, <1>5, <2>1, HostsMove
  <1>7. CASE stable[c]
    <2>1. /\ resolved \in Resolutions /\ hosts[c] = Len(resolved) /\ index[c] \in 1 .. Len(resolved)
          /\ tried[c] = {resolved[j] : j \in 1 .. index[c]}
      BY <1>7 DEF HostsTried
    <2>2. Len(resolved) \in Nat /\ DOMAIN resolved = 1 .. Len(resolved)
      BY ResolvedIsList
    <2>3. CASE to = "host"
      <3>1. index'[c] \in 1 .. Len(resolved) /\ index'[c] - 1 = index[c]
        BY <1>2, <1>3, <2>1, <2>2, <2>3
      <3>2. tried'[c] = {resolved[j] : j \in 1 .. (index'[c] - 1)} /\ hosts'[c] = Len(resolved)
        BY <2>1, <3>1
      <3> HIDE DEF to
      <3> QED
        BY <1>1, <1>3, <1>5, <2>1, <2>3, <3>1, <3>2, HostsMove
    <2>4. CASE to = "unopened"
      <3>1. index[c] = Len(resolved)
        BY <1>2, <2>1, <2>2, <2>4
      <3>2. tried'[c] = Range(resolved)
        BY <2>1, <2>2, <3>1 DEF Range
      <3> HIDE DEF to
      <3> QED
        BY <1>1, <1>3, <2>4, <3>2, HostsMove
    <2> QED
      BY <1>4, <2>3, <2>4
  <1> QED
    BY <1>6, <1>7

\* Every step keeps track of the hosts that an open has tried.
LEMMA HostsStep ==
    ASSUME TypeOK, GhostsOK, HostsTried, TriesEach, Registered,
           Next
    PROVE  HostsTried' /\ TriesEach'
  <1>1. CASE DestroyNext
    <2>1. Head(connections) \in Client
      BY <1>1, TailRemoves DEF DestroyNext, TypeOK, Registered
    <2>2. pc' = [pc EXCEPT ![Head(connections)] = "idle"] /\ UNCHANGED <<resolved, opening, stable>>
      BY <1>1 DEF DestroyNext, Goto
    <2> QED
      BY <2>1, <2>2, HostsMove DEF opening
  <1>2. ASSUME NEW c \in Client, Resolve(c) PROVE HostsTried' /\ TriesEach'
    <2>1. CASE /\ resolved' \in Resolutions /\ stable' = [d \in Client |-> FALSE]
               /\ pc' = [pc EXCEPT ![c] = "count"]
      <3>1. \A d \in Client : ~stable'[d]
        BY <2>1
      <3>2. index' = index
        BY <1>2 DEF Resolve, opening
      <3>3. \A d \in Client : pc'[d] \in {"host", "socket", "connect", "tls"} => index[d] > 0
        BY <2>1 DEF TypeOK, HostsTried
      <3> QED
        BY <2>1, <3>1, <3>2, <3>3 DEF HostsTried, TriesEach
    <2>2. CASE pc' = [pc EXCEPT ![c] = "failed"] /\ UNCHANGED <<resolved, stable>>
      BY <1>2, <2>2, HostsMove DEF Resolve, opening
    <2> QED
      BY <1>2, <2>1, <2>2 DEF Resolve, Goto
  <1>3. ASSUME NEW c \in Client, Count(c) PROVE HostsTried' /\ TriesEach'
    <2>1. /\ hosts' = [hosts EXCEPT ![c] = Len(resolved)] /\ index' = [index EXCEPT ![c] = 1]
          /\ tried' = [tried EXCEPT ![c] = {}] /\ stable' = [stable EXCEPT ![c] = TRUE]
          /\ pc' = [pc EXCEPT ![c] = "host"] /\ resolved' = resolved
      BY <1>3 DEF Count, Goto, shared
    <2>2. resolved \in Resolutions /\ Len(resolved) \in Nat /\ Len(resolved) > 0
      BY <1>3, ResolvedIsList DEF Count, HostsTried
    <2>3. /\ hosts'[c] = Len(resolved) /\ index'[c] = 1 /\ tried'[c] = {}
          /\ \A d \in Client \ {c} : /\ index'[d] = index[d] /\ hosts'[d] = hosts[d]
                                     /\ tried'[d] = tried[d] /\ stable'[d] = stable[d]
      BY <2>1 DEF TypeOK, GhostsOK
    <2>4. {resolved[j] : j \in 1 .. (index'[c] - 1)} = {} /\ index'[c] \in 1 .. Len(resolved)
      BY <2>2, <2>3
    <2>5. tried'[c] = {resolved[j] : j \in 1 .. (index'[c] - 1)} /\ index'[c] > 0
      BY <2>3, <2>4
    <2> QED
      BY <2>1, <2>2, <2>3, <2>4, <2>5, HostsMove
  <1>4. ASSUME NEW c \in Client, ReadHost(c) PROVE HostsTried' /\ TriesEach'
    <2>1. /\ pc[c] = "host" /\ pc' = [pc EXCEPT ![c] = "socket"]
          /\ UNCHANGED <<resolved, index, hosts, stable>>
          /\ tried' = [tried EXCEPT ![c] = tried[c] \cup {host'[c]}]
          /\ host' = [host EXCEPT ![c] = IF index[c] <= Len(resolved) THEN resolved[index[c]] ELSE host[c]]
      BY <1>4 DEF ReadHost, Goto, shared
    <2>2. tried'[c] = tried[c] \cup {host'[c]} /\ \A d \in Client \ {c} : tried'[d] = tried[d]
      BY <2>1 DEF GhostsOK
    <2>3. index[c] > 0
      BY <2>1 DEF HostsTried
    <2>4. CASE ~stable[c]
      BY <2>1, <2>2, <2>3, <2>4, HostsMove
    <2>5. CASE stable[c]
      <3>1. /\ resolved \in Resolutions
            /\ hosts[c] = Len(resolved) /\ index[c] \in 1 .. Len(resolved)
            /\ tried[c] = {resolved[j] : j \in 1 .. (index[c] - 1)}
        BY <2>1, <2>5 DEF HostsTried
      <3>2. Len(resolved) \in Nat
        BY ResolvedIsList
      <3>3. host'[c] = resolved[index[c]]
        BY <2>1, <3>1, <3>2 DEF TypeOK
      <3>4. {resolved[j] : j \in 1 .. index[c]}
               = {resolved[j] : j \in 1 .. (index[c] - 1)} \cup {resolved[index[c]]}
        BY <3>1, <3>2
      <3>5. tried'[c] = {resolved[j] : j \in 1 .. index'[c]}
        BY <2>1, <2>2, <3>1, <3>3, <3>4
      <3> QED
        BY <2>1, <2>2, <2>3, <3>1, <3>5, HostsMove
    <2> QED
      BY <2>4, <2>5
  <1>5. ASSUME NEW c \in Client, SocketFails(c) PROVE HostsTried' /\ TriesEach'
    BY <1>5, NextHostTries DEF SocketFails, shared
  <1>6. ASSUME NEW c \in Client, OpenSocket(c) PROVE HostsTried' /\ TriesEach'
    <2>1. /\ pc[c] = "socket" /\ pc' = [pc EXCEPT ![c] = "connect"]
          /\ UNCHANGED <<resolved, index, hosts, tried, stable>>
      BY <1>6 DEF OpenSocket, Goto, shared, opening
    <2>2. /\ index[c] > 0
          /\ stable[c] => /\ resolved \in Resolutions
                          /\ hosts[c] = Len(resolved) /\ index[c] \in 1 .. Len(resolved)
                          /\ tried[c] = {resolved[j] : j \in 1 .. index[c]}
      BY <2>1 DEF HostsTried
    <2> QED
      BY <2>1, <2>2, HostsMove
  <1>7. ASSUME NEW c \in Client, ConnectFails(c) PROVE HostsTried' /\ TriesEach'
    BY <1>7, NextHostTries DEF ConnectFails, shared
  <1>8. ASSUME NEW c \in Client, Connect(c) PROVE HostsTried' /\ TriesEach'
    <2>1. pc[c] = "connect" /\ UNCHANGED <<resolved, hosts, tried, stable>>
      BY <1>8 DEF Connect, shared
    <2>2. CASE NextHost(c)
      BY <2>1, <2>2, NextHostTries
    <2>3. CASE Goto(c, IF Encrypted THEN "tls" ELSE "init") /\ index' = index
      <3>1. /\ index[c] > 0
            /\ stable[c] => /\ resolved \in Resolutions
                            /\ hosts[c] = Len(resolved) /\ index[c] \in 1 .. Len(resolved)
                            /\ tried[c] = {resolved[j] : j \in 1 .. index[c]}
        BY <2>1 DEF HostsTried
      <3>2. PICK to \in {"tls", "init"} : pc' = [pc EXCEPT ![c] = to]
        BY <2>3 DEF Goto
      <3> QED
        BY <2>1, <2>3, <3>1, <3>2, HostsMove
    <2> QED
      BY <1>8, <2>2, <2>3 DEF Connect
  <1>9. ASSUME NEW c \in Client, Tls(c) PROVE HostsTried' /\ TriesEach'
    <2>1. pc' = [pc EXCEPT ![c] = "init"] /\ UNCHANGED <<resolved, opening, stable>>
      BY <1>9 DEF Tls, Goto, shared
    <2> QED
      BY <2>1, HostsMove DEF opening
  <1>10. ASSUME NEW c \in Client, ContextFails(c) PROVE HostsTried' /\ TriesEach'
    <2>1. pc' = [pc EXCEPT ![c] = "crashed"] /\ UNCHANGED <<resolved, opening, stable>>
      BY <1>10 DEF ContextFails, Goto, shared
    <2> QED
      BY <2>1, HostsMove DEF opening
  <1>11. ASSUME NEW c \in Client, TlsFails(c) PROVE HostsTried' /\ TriesEach'
    BY <1>11, NextHostTries DEF TlsFails, shared
  <1>12. ASSUME NEW c \in Client, BrokenPipe(c) PROVE HostsTried' /\ TriesEach'
    BY <1>12 DEF BrokenPipe, shared, opening, HostsTried, TriesEach
  <1>13. ASSUME NEW c \in Client, InitSends(c) PROVE HostsTried' /\ TriesEach'
    <2>1. pc' = [pc EXCEPT ![c] = "exchange"] /\ UNCHANGED <<resolved, opening, stable>>
      BY <1>13 DEF InitSends, Goto, shared
    <2> QED
      BY <2>1, HostsMove DEF opening
  <1>14. ASSUME NEW c \in Client, InitReturns(c) PROVE HostsTried' /\ TriesEach'
    <2>1. PICK to \in {"register", "failed"} : pc' = [pc EXCEPT ![c] = to]
      BY <1>14 DEF InitReturns, Goto
    <2>2. UNCHANGED <<resolved, opening, stable>>
      BY <1>14 DEF InitReturns, shared
    <2> QED
      BY <2>1, <2>2, HostsMove DEF opening
  <1>15. ASSUME NEW c \in Client, Register(c) PROVE HostsTried' /\ TriesEach'
    <2>1. pc' = [pc EXCEPT ![c] = "held"] /\ UNCHANGED <<resolved, opening, stable>>
      BY <1>15 DEF Register, Goto, shared
    <2> QED
      BY <2>1, HostsMove DEF opening
  <1>16. ASSUME NEW c \in Client, Release(c) PROVE HostsTried' /\ TriesEach'
    <2>1. PICK to \in {"goodbye", "close"} : pc' = [pc EXCEPT ![c] = to]
      BY <1>16 DEF Release, Goto
    <2>2. UNCHANGED <<resolved, opening, stable>>
      BY <1>16 DEF Release, shared
    <2> QED
      BY <2>1, <2>2, HostsMove DEF opening
  <1>17. ASSUME NEW c \in Client, Close(c) PROVE HostsTried' /\ TriesEach'
    <2>1. pc' = [pc EXCEPT ![c] = "idle"] /\ UNCHANGED <<resolved, opening, stable>>
      BY <1>17 DEF Close, Goto, shared
    <2> QED
      BY <2>1, HostsMove DEF opening
  <1>18. ASSUME NEW c \in Client, GoodbyeReturns(c) PROVE HostsTried' /\ TriesEach'
    <2>1. pc' = [pc EXCEPT ![c] = "close"] /\ UNCHANGED <<resolved, opening, stable>>
      BY <1>18 DEF GoodbyeReturns, Goto, shared
    <2> QED
      BY <2>1, HostsMove DEF opening
  <1> QED
    BY <1>1, <1>2, <1>3, <1>4, <1>5, <1>6, <1>7, <1>8, <1>9, <1>10, <1>11, <1>12, <1>13, <1>14,
       <1>15, <1>16, <1>17, <1>18 DEF Next, Step

-----------------------------------------------------------------------------
(* What is allocated, and what is lost *)

\* How many threads have a flag set, when one thread alone has changed its own.
LEMMA NumberMoves ==
    ASSUME NEW f \in [Client -> BOOLEAN], NEW g \in [Client -> BOOLEAN], NEW c \in Client,
           \A d \in Client \ {c} : g[d] = f[d]
    PROVE  /\ Number(f) \in Nat /\ Number(g) \in Nat
           /\ Number(g) = (Number(f) - One(f[c])) + One(g[c])
  <1>1. g = [f EXCEPT ![c] = g[c]]
    OBVIOUS
  <1>2. g[c] \in BOOLEAN
    OBVIOUS
  <1> QED
    BY <1>1, <1>2, NumberWritten

\* What the threads point to, when one thread alone has written its pointers.
LEMMA PointedMoves ==
    ASSUME TypeOK, NEW c \in Client,
           {ssl', sec_ctx', remote', local'} \subseteq [Client -> BOOLEAN],
           \A d \in Client \ {c} : /\ ssl'[d] = ssl[d] /\ sec_ctx'[d] = sec_ctx[d]
                                   /\ remote'[d] = remote[d] /\ local'[d] = local[d]
    PROVE  /\ Pointed \in Nat /\ Pointed' \in Nat /\ Live(c) \in Nat /\ Live(c)' \in Nat
           /\ Pointed' = (Pointed - Live(c)) + Live(c)'
  <1>1. /\ ssl \in [Client -> BOOLEAN] /\ sec_ctx \in [Client -> BOOLEAN]
        /\ remote \in [Client -> BOOLEAN] /\ local \in [Client -> BOOLEAN]
    BY DEF TypeOK
  <1>2. /\ ssl' \in [Client -> BOOLEAN] /\ sec_ctx' \in [Client -> BOOLEAN]
        /\ remote' \in [Client -> BOOLEAN] /\ local' \in [Client -> BOOLEAN]
    OBVIOUS
  <1>3. /\ Number(ssl) \in Nat /\ Number(ssl') \in Nat
        /\ Number(ssl') = (Number(ssl) - One(ssl[c])) + One(ssl'[c])
    BY <1>1, <1>2, NumberMoves
  <1>4. /\ Number(sec_ctx) \in Nat /\ Number(sec_ctx') \in Nat
        /\ Number(sec_ctx') = (Number(sec_ctx) - One(sec_ctx[c])) + One(sec_ctx'[c])
    BY <1>1, <1>2, NumberMoves
  <1>5. /\ Number(remote) \in Nat /\ Number(remote') \in Nat
        /\ Number(remote') = (Number(remote) - One(remote[c])) + One(remote'[c])
    BY <1>1, <1>2, NumberMoves
  <1>6. /\ Number(local) \in Nat /\ Number(local') \in Nat
        /\ Number(local') = (Number(local) - One(local[c])) + One(local'[c])
    BY <1>1, <1>2, NumberMoves
  <1> DEFINE a == Number(ssl)      A == Number(ssl')      x == One(ssl[c])      X == One(ssl'[c])
             b == Number(sec_ctx)  B == Number(sec_ctx')  y == One(sec_ctx[c])  Y == One(sec_ctx'[c])
             d == Number(remote)   D == Number(remote')   z == One(remote[c])   Z == One(remote'[c])
             e == Number(local)    E == Number(local')    w == One(local[c])    W == One(local'[c])
  <1>7. /\ Pointed = a + b + d + e /\ Pointed' = A + B + D + E
        /\ Live(c) = x + y + z + w /\ Live(c)' = X + Y + Z + W
    BY DEF Pointed, Live, Number, One
  <1>8. {x, y, z, w, X, Y, Z, W} \subseteq Nat
    BY DEF One
  <1>9. {a, b, d, e, A, B, D, E} \subseteq Nat
    BY <1>3, <1>4, <1>5, <1>6
  <1>10. A = (a - x) + X /\ B = (b - y) + Y /\ D = (d - z) + Z /\ E = (e - w) + W
    BY <1>3, <1>4, <1>5, <1>6
  <1> HIDE DEF a, b, d, e, A, B, D, E, x, y, z, w, X, Y, Z, W
  <1>11. A + B + D + E = ((a + b + d + e) - (x + y + z + w)) + (X + Y + Z + W)
    BY <1>8, <1>9, <1>10
  <1>12. /\ a + b + d + e \in Nat /\ A + B + D + E \in Nat
         /\ x + y + z + w \in Nat /\ X + Y + Z + W \in Nat
    BY <1>8, <1>9
  <1> QED
    BY <1>7, <1>11, <1>12

\* A thread goes on: of what is not lost, only its own part can change.
LEMMA NothingLostMove ==
    ASSUME TypeOK, NothingLost, NEW c \in Client, NEW to,
           pc' = [pc EXCEPT ![c] = to], retried => retried',
           \A d \in Client \ {c} : /\ socket'[d] = socket[d]
                                   /\ remote'[d] = remote[d] /\ local'[d] = local[d],
           ~retried' => /\ allocated' = Pointed'
                        /\ \A n \in InUse' : \E d \in Client : socket'[d] = n
                        /\ to \in {"host", "socket"} => socket'[c] = 0
                        /\ to \in {"host", "socket", "connect"} => ~remote'[c] /\ ~local'[c]
    PROVE  NothingLost'
  <1> SUFFICES ASSUME ~retried', NEW d \in Client
               PROVE  /\ pc'[d] \in {"host", "socket"} => socket'[d] = 0
                      /\ pc'[d] \in {"host", "socket", "connect"} => ~remote'[d] /\ ~local'[d]
    BY DEF NothingLost
  <1>1. CASE d = c
    <2>1. pc'[d] = to
      BY <1>1 DEF TypeOK
    <2> QED
      BY <1>1, <2>1
  <1>2. CASE d # c
    <2>1. /\ pc'[d] = pc[d] /\ socket'[d] = socket[d]
          /\ remote'[d] = remote[d] /\ local'[d] = local[d]
      BY <1>2 DEF TypeOK
    <2>2. /\ pc[d] \in {"host", "socket"} => socket[d] = 0
          /\ pc[d] \in {"host", "socket", "connect"} => ~remote[d] /\ ~local[d]
      BY DEF NothingLost
    <2> QED
      BY <2>1, <2>2
  <1> QED
    BY <1>1, <1>2

\* A thread goes on, and nothing is opened, closed, allocated or freed.
LEMMA NothingChanges ==
    ASSUME TypeOK, NeverTooFew, NothingLost, NEW c \in Client, NEW to,
           pc' = [pc EXCEPT ![c] = to], retried => retried', UNCHANGED comm, UNCHANGED system,
           ~retried' => /\ to \in {"host", "socket"} => socket[c] = 0
                        /\ to \in {"host", "socket", "connect"} => ~remote[c] /\ ~local[c]
    PROVE  NeverTooFew' /\ NothingLost'
  <1>1. UNCHANGED <<socket, ssl, sec_ctx, remote, local, open, allocated>>
    BY DEF comm, system
  <1>2. Pointed' = Pointed /\ InUse' = InUse
    BY <1>1, InUseAfter DEF Pointed
  <1>3. NeverTooFew'
    BY <1>1, <1>2 DEF NeverTooFew
  <1>4. ~retried' => /\ allocated' = Pointed'
                     /\ \A n \in InUse' : \E d \in Client : socket'[d] = n
    BY <1>1, <1>2 DEF NothingLost
  <1>5. NothingLost'
    BY <1>1, <1>4, NothingLostMove
  <1> QED
    BY <1>3, <1>5

\* What a thread closes and frees is what it points to.
LEMMA FreedIsPointed ==
    ASSUME TypeOK, SocketsOwned, NeverTooFew, NothingLost, NEW c \in Client,
           Freed(c), Goto(c, "idle"), retried' = retried
    PROVE  NeverTooFew' /\ NothingLost'
  <1>1. /\ open' = {s \in open : s.number # socket[c]} /\ allocated' = allocated - Live(c)
        /\ socket' = [socket EXCEPT ![c] = 0] /\ pc' = [pc EXCEPT ![c] = "idle"]
        /\ ssl' = [ssl EXCEPT ![c] = FALSE] /\ sec_ctx' = [sec_ctx EXCEPT ![c] = FALSE]
        /\ remote' = [remote EXCEPT ![c] = FALSE] /\ local' = [local EXCEPT ![c] = FALSE]
    BY DEF Freed, Goto
  <1>2. /\ Pointed \in Nat /\ Pointed' \in Nat /\ Live(c) \in Nat /\ Pointed' = Pointed - Live(c)
    <2>1. {ssl', sec_ctx', remote', local'} \subseteq [Client -> BOOLEAN]
      BY <1>1 DEF TypeOK
    <2>2. \A d \in Client \ {c} : /\ ssl'[d] = ssl[d] /\ sec_ctx'[d] = sec_ctx[d]
                                  /\ remote'[d] = remote[d] /\ local'[d] = local[d]
      BY <1>1 DEF TypeOK
    <2>3. Live(c)' = 0
      <3>1. ~ssl'[c] /\ ~sec_ctx'[c] /\ ~remote'[c] /\ ~local'[c]
        BY <1>1 DEF TypeOK
      <3> QED
        BY <3>1 DEF Live, One
    <2>4. /\ Pointed \in Nat /\ Pointed' \in Nat /\ Live(c) \in Nat
          /\ Pointed' = (Pointed - Live(c)) + Live(c)'
      BY <2>1, <2>2, PointedMoves
    <2> QED
      BY <2>3, <2>4
  <1>3. allocated \in Nat /\ allocated >= Pointed
    BY DEF TypeOK, NeverTooFew
  <1>4. NeverTooFew'
    BY <1>1, <1>2, <1>3 DEF NeverTooFew
  <1>5. ASSUME ~retried'
        PROVE  /\ allocated' = Pointed'
               /\ \A n \in InUse' : \E d \in Client : socket'[d] = n
    <2>1. allocated = Pointed /\ \A n \in InUse : \E d \in Client : socket[d] = n
      BY <1>5 DEF NothingLost
    <2>2. InUse' = InUse \ {socket[c]}
      BY <1>1, InUseAfter
    <2>3. ASSUME NEW n \in InUse' PROVE \E d \in Client : socket'[d] = n
      <3>1. PICK d \in Client : socket[d] = n
        BY <2>1, <2>2
      <3>2. d # c
        BY <2>2, <3>1
      <3>3. socket'[d] = n
        BY <1>1, <3>1, <3>2 DEF TypeOK
      <3> QED
        BY <3>3
    <2> QED
      BY <1>1, <1>2, <2>1, <2>3
  <1>6. \A d \in Client \ {c} : /\ socket'[d] = socket[d]
                                /\ remote'[d] = remote[d] /\ local'[d] = local[d]
    BY <1>1 DEF TypeOK
  <1>7. NothingLost'
    BY <1>1, <1>5, <1>6, NothingLostMove
  <1> QED
    BY <1>4, <1>7

\* Every step counts what it allocates and frees.
LEMMA NothingLostStep ==
    ASSUME TypeOK, SocketsOwned, SessionsFollow, NeverTooFew, NothingLost, Registered,
           Next
    PROVE  NeverTooFew' /\ NothingLost'
  <1>1. CASE DestroyNext
    <2>1. Head(connections) \in Client
      BY <1>1, TailRemoves DEF DestroyNext, TypeOK, Registered
    <2> QED
      BY <1>1, <2>1, FreedIsPointed DEF DestroyNext
  <1>2. ASSUME NEW c \in Client, Resolve(c) PROVE NeverTooFew' /\ NothingLost'
    <2>1. PICK to \in {"count", "failed"} : pc' = [pc EXCEPT ![c] = to]
      BY <1>2 DEF Resolve, Goto
    <2>2. retried' = retried /\ UNCHANGED comm /\ UNCHANGED system
      BY <1>2 DEF Resolve
    <2> QED
      BY <2>1, <2>2, NothingChanges
  <1>3. ASSUME NEW c \in Client, Count(c) PROVE NeverTooFew' /\ NothingLost'
    <2>1. pc[c] = "count" /\ pc' = [pc EXCEPT ![c] = "host"] /\ retried' = retried
      BY <1>3 DEF Count, Goto
    <2>2. UNCHANGED comm /\ UNCHANGED system
      BY <1>3 DEF Count
    <2>3. socket[c] = 0 /\ ~remote[c] /\ ~local[c]
      BY <2>1 DEF SocketsOwned, SessionsFollow
    <2> QED
      BY <2>1, <2>2, <2>3, NothingChanges
  <1>4. ASSUME NEW c \in Client, ReadHost(c) PROVE NeverTooFew' /\ NothingLost'
    <2>1. pc[c] = "host" /\ pc' = [pc EXCEPT ![c] = "socket"] /\ retried' = retried
      BY <1>4 DEF ReadHost, Goto
    <2>2. UNCHANGED comm /\ UNCHANGED system
      BY <1>4 DEF ReadHost
    <2>3. ~retried => socket[c] = 0 /\ ~remote[c] /\ ~local[c]
      BY <2>1 DEF NothingLost
    <2> QED
      BY <2>1, <2>2, <2>3, NothingChanges
  <1>5. ASSUME NEW c \in Client, SocketFails(c) PROVE NeverTooFew' /\ NothingLost'
    <2>1. PICK to \in {"host", "unopened"} :
             pc' = [pc EXCEPT ![c] = to] /\ (to = "host" => retried')
      BY <1>5 DEF SocketFails, NextHost, Goto
    <2>2. /\ retried => retried'
          /\ UNCHANGED <<ssl, sec_ctx, remote, local, open, allocated>>
          /\ socket' = [socket EXCEPT ![c] = 0] /\ pc[c] = "socket"
      BY <1>5 DEF SocketFails, NextHost, system
    <2>3. Pointed' = Pointed /\ InUse' = InUse
      BY <2>2, InUseAfter DEF Pointed
    <2>4. NeverTooFew'
      BY <2>2, <2>3 DEF NeverTooFew
    <2>5. ASSUME ~retried'
          PROVE  allocated' = Pointed' /\ \A n \in InUse' : \E d \in Client : socket'[d] = n
      <3>1. socket[c] = 0
        BY <2>2, <2>5 DEF NothingLost
      <3>2. socket' = socket
        BY <2>2, <3>1 DEF TypeOK
      <3> QED
        BY <2>2, <2>3, <2>5, <3>2 DEF NothingLost
    <2>6. \A d \in Client \ {c} : socket'[d] = socket[d]
      BY <2>2 DEF TypeOK
    <2>7. NothingLost'
      BY <2>1, <2>2, <2>5, <2>6, NothingLostMove
    <2> QED
      BY <2>4, <2>7
  <1>6. ASSUME NEW c \in Client, OpenSocket(c) PROVE NeverTooFew' /\ NothingLost'
    <2>1. /\ pc[c] = "socket" /\ pc' = [pc EXCEPT ![c] = "connect"]
          /\ UNCHANGED <<ssl, sec_ctx, remote, local, allocated, retried>>
          /\ socket' = [socket EXCEPT ![c] = FreeSocket]
          /\ open' = open \cup {Socket(FreeSocket, ~Timeout)}
      BY <1>6 DEF OpenSocket, Goto
    <2>2. Pointed' = Pointed /\ InUse' = InUse \cup {FreeSocket}
      BY <2>1, InUseAfter DEF Pointed
    <2>3. NeverTooFew'
      BY <2>1, <2>2 DEF NeverTooFew
    <2>4. ASSUME ~retried'
          PROVE  /\ allocated' = Pointed' /\ \A n \in InUse' : \E d \in Client : socket'[d] = n
                 /\ ~remote'[c] /\ ~local'[c]
      <3>1. /\ socket[c] = 0 /\ ~remote[c] /\ ~local[c] /\ allocated = Pointed
            /\ \A n \in InUse : \E d \in Client : socket[d] = n
        BY <2>1, <2>4 DEF NothingLost
      <3>2. 0 \notin InUse
        BY DEF InUse, TypeOK
      <3>3. ASSUME NEW n \in InUse' PROVE \E d \in Client : socket'[d] = n
        <4>1. CASE n = FreeSocket
          <5>1. socket'[c] = n
            BY <2>1, <4>1 DEF TypeOK
          <5> QED
            BY <5>1
        <4>2. CASE n \in InUse
          <5>1. PICK d \in Client : socket[d] = n
            BY <3>1, <4>2
          <5>2. d # c
            BY <3>1, <3>2, <4>2, <5>1
          <5>3. socket'[d] = n
            BY <2>1, <5>1, <5>2 DEF TypeOK
          <5> QED
            BY <5>3
        <4> QED
          BY <2>2, <4>1, <4>2
      <3> QED
        BY <2>1, <2>2, <3>1, <3>3
    <2>5. \A d \in Client \ {c} : socket'[d] = socket[d]
      BY <2>1 DEF TypeOK
    <2>6. NothingLost'
      BY <2>1, <2>4, <2>5, NothingLostMove
    <2> QED
      BY <2>3, <2>6
  <1>7. ASSUME NEW c \in Client, ConnectFails(c) PROVE NeverTooFew' /\ NothingLost'
    <2>1. PICK to \in {"host", "unopened"} :
             pc' = [pc EXCEPT ![c] = to] /\ (to = "host" => retried')
      BY <1>7 DEF ConnectFails, NextHost, Goto
    <2>2. (retried => retried') /\ UNCHANGED comm /\ UNCHANGED system
      BY <1>7 DEF ConnectFails, NextHost
    <2> QED
      BY <2>1, <2>2, NothingChanges
  <1>8. ASSUME NEW c \in Client, Connect(c) PROVE NeverTooFew' /\ NothingLost'
    <2>1. PICK noted \in 0 .. 2 :
             /\ remote' = [remote EXCEPT ![c] = @ \/ noted >= 1]
             /\ local' = [local EXCEPT ![c] = @ \/ noted = 2]
             /\ allocated' = allocated + noted
             /\ NextHost(c) \/ (Goto(c, IF Encrypted THEN "tls" ELSE "init") /\ UNCHANGED retried)
      BY <1>8 DEF Connect
    <2>2. /\ pc[c] = "connect" /\ open' = Reverted(socket[c])
          /\ UNCHANGED <<socket, ssl, sec_ctx>>
      BY <1>8 DEF Connect
    <2> DEFINE r == remote[c] \/ noted >= 1
               l == local[c] \/ noted = 2
               r1 == One(r)
               l1 == One(l)
               r0 == One(remote[c])
               l0 == One(local[c])
    <2>3. /\ Pointed \in Nat /\ Pointed' \in Nat /\ Pointed' = ((Pointed - r0) - l0) + (r1 + l1)
      <3>1. {ssl', sec_ctx', remote', local'} \subseteq [Client -> BOOLEAN]
        BY <2>1, <2>2 DEF TypeOK
      <3>2. \A d \in Client \ {c} : /\ ssl'[d] = ssl[d] /\ sec_ctx'[d] = sec_ctx[d]
                                    /\ remote'[d] = remote[d] /\ local'[d] = local[d]
        BY <2>1, <2>2 DEF TypeOK
      <3> DEFINE s1 == One(ssl[c])
                 t1 == One(sec_ctx[c])
                 live == Live(c)
                 now == Live(c)'
      <3>3. /\ Pointed \in Nat /\ Pointed' \in Nat /\ live \in Nat /\ now \in Nat
            /\ Pointed' = (Pointed - live) + now
        BY <3>1, <3>2, PointedMoves
      <3>4. live = s1 + t1 + r0 + l0
        BY DEF Live
      <3>5. now = s1 + t1 + r1 + l1
        <4>1. ssl'[c] = ssl[c] /\ sec_ctx'[c] = sec_ctx[c] /\ remote'[c] = r /\ local'[c] = l
          BY <2>1, <2>2 DEF TypeOK
        <4> QED
          BY <4>1 DEF Live, One
      <3>6. s1 \in Nat /\ t1 \in Nat /\ r0 \in Nat /\ l0 \in Nat /\ r1 \in Nat /\ l1 \in Nat
        BY DEF One
      <3> HIDE DEF s1, t1, live, now, r0, l0, r1, l1
      <3> QED
        BY <3>3, <3>4, <3>5, <3>6
    <2>4. r0 \in 0 .. 1 /\ l0 \in 0 .. 1
      BY DEF One
    <2>5. /\ r1 = (IF noted >= 1 THEN 1 ELSE r0) /\ l1 = (IF noted = 2 THEN 1 ELSE l0)
      BY DEF One
    <2> HIDE DEF r, l, r1, l1, r0, l0
    <2>6. /\ allocated \in Nat /\ allocated >= Pointed
      BY DEF TypeOK, NeverTooFew
    <2>7. Pointed' <= Pointed + noted /\ (r0 = 0 /\ l0 = 0 => Pointed' = Pointed + noted)
      BY <2>3, <2>4, <2>5
    <2>8. NeverTooFew'
      BY <2>1, <2>3, <2>6, <2>7 DEF NeverTooFew
    <2>9. InUse' = InUse
      <3>1. socket[c] \in InUse
        BY <2>2 DEF SocketsOwned
      <3> QED
        BY <2>2, <3>1, InUseAfter
    <2>10. PICK to \in {"host", "unopened", "tls", "init"} :
             pc' = [pc EXCEPT ![c] = to] /\ (to = "host" => retried') /\ (retried => retried')
      <3>1. CASE NextHost(c)
        <4>1. retried' = (retried \/ index[c] < hosts[c])
          BY <3>1 DEF NextHost
        <4>2. pc' = [pc EXCEPT ![c] = IF index[c] < hosts[c] THEN "host" ELSE "unopened"]
          BY <3>1 DEF NextHost, Goto
        <4> QED
          BY <4>1, <4>2
      <3>2. CASE Goto(c, IF Encrypted THEN "tls" ELSE "init") /\ UNCHANGED retried
        BY <3>2 DEF Goto
      <3> QED
        BY <2>1, <3>1, <3>2
    <2>11. ASSUME ~retried'
           PROVE  allocated' = Pointed' /\ \A n \in InUse' : \E d \in Client : socket'[d] = n
      <3>1. /\ allocated = Pointed /\ ~remote[c] /\ ~local[c]
            /\ \A n \in InUse : \E d \in Client : socket[d] = n
        BY <2>2, <2>10, <2>11 DEF NothingLost
      <3>2. r0 = 0 /\ l0 = 0
        BY <3>1 DEF One, r0, l0
      <3> QED
        BY <2>1, <2>2, <2>7, <2>9, <3>1, <3>2
    <2>12. \A d \in Client \ {c} : remote'[d] = remote[d] /\ local'[d] = local[d]
      BY <2>1 DEF TypeOK
    <2>13. NothingLost'
      BY <2>2, <2>10, <2>11, <2>12, NothingLostMove
    <2> QED
      BY <2>8, <2>13
  <1>9. ASSUME NEW c \in Client, Tls(c) PROVE NeverTooFew' /\ NothingLost'
    <2>1. /\ pc[c] = "tls" /\ pc' = [pc EXCEPT ![c] = "init"]
          /\ UNCHANGED <<socket, remote, local, open, retried>> /\ allocated' = allocated + 2
          /\ ssl' = [ssl EXCEPT ![c] = TRUE] /\ sec_ctx' = [sec_ctx EXCEPT ![c] = TRUE]
      BY <1>9 DEF Tls, Goto
    <2>2. ~ssl[c] /\ ~sec_ctx[c]
      BY <2>1 DEF SessionsFollow
    <2>3. /\ Pointed \in Nat /\ Pointed' \in Nat /\ Pointed' = Pointed + 2
      <3>1. {ssl', sec_ctx', remote', local'} \subseteq [Client -> BOOLEAN]
        BY <2>1 DEF TypeOK
      <3>2. \A d \in Client \ {c} : /\ ssl'[d] = ssl[d] /\ sec_ctx'[d] = sec_ctx[d]
                                    /\ remote'[d] = remote[d] /\ local'[d] = local[d]
        BY <2>1 DEF TypeOK
      <3> DEFINE r1 == One(remote[c])
                 l1 == One(local[c])
                 live == Live(c)
                 now == Live(c)'
      <3>3. /\ Pointed \in Nat /\ Pointed' \in Nat /\ live \in Nat /\ now \in Nat
            /\ Pointed' = (Pointed - live) + now
        BY <3>1, <3>2, PointedMoves
      <3>4. live = 0 + 0 + r1 + l1
        BY <2>2 DEF Live, One
      <3>5. now = 1 + 1 + r1 + l1
        <4>1. ssl'[c] /\ sec_ctx'[c] /\ remote'[c] = remote[c] /\ local'[c] = local[c]
          BY <2>1 DEF TypeOK
        <4> QED
          BY <4>1 DEF Live, One
      <3>6. r1 \in Nat /\ l1 \in Nat
        BY DEF One
      <3> HIDE DEF r1, l1, live, now
      <3> QED
        BY <3>3, <3>4, <3>5, <3>6
    <2>4. allocated \in Nat /\ allocated >= Pointed
      BY DEF TypeOK, NeverTooFew
    <2>5. NeverTooFew'
      BY <2>1, <2>3, <2>4 DEF NeverTooFew
    <2>6. InUse' = InUse
      BY <2>1, InUseAfter
    <2>7. ~retried' => allocated' = Pointed' /\ \A n \in InUse' : \E d \in Client : socket'[d] = n
      BY <2>1, <2>3, <2>4, <2>6 DEF NothingLost
    <2>8. NothingLost'
      BY <2>1, <2>7, NothingLostMove
    <2> QED
      BY <2>5, <2>8
  <1>10. ASSUME NEW c \in Client, ContextFails(c) PROVE NeverTooFew' /\ NothingLost'
    <2>1. PICK to \in {"crashed"} : pc' = [pc EXCEPT ![c] = to]
      BY <1>10 DEF ContextFails, Goto
    <2>2. retried' = retried /\ UNCHANGED comm /\ UNCHANGED system
      BY <1>10 DEF ContextFails
    <2> QED
      BY <2>1, <2>2, NothingChanges
  <1>11. ASSUME NEW c \in Client, TlsFails(c) PROVE NeverTooFew' /\ NothingLost'
    <2>1. PICK to \in {"host", "unopened"} :
             pc' = [pc EXCEPT ![c] = to] /\ (to = "host" => retried')
      BY <1>11 DEF TlsFails, NextHost, Goto
    <2>2. (retried => retried') /\ UNCHANGED comm /\ UNCHANGED system
      BY <1>11 DEF TlsFails, NextHost
    <2> QED
      BY <2>1, <2>2, NothingChanges
  <1>12. ASSUME NEW c \in Client, BrokenPipe(c) PROVE NeverTooFew' /\ NothingLost'
    <2>1. UNCHANGED <<socket, ssl, sec_ctx, remote, local, open, allocated, pc, retried>>
      BY <1>12 DEF BrokenPipe, comm, system
    <2>2. Pointed' = Pointed /\ InUse' = InUse
      BY <2>1, InUseAfter DEF Pointed
    <2> QED
      BY <2>1, <2>2 DEF NeverTooFew, NothingLost
  <1>13. ASSUME NEW c \in Client, InitSends(c) PROVE NeverTooFew' /\ NothingLost'
    <2>1. PICK to \in {"exchange"} : pc' = [pc EXCEPT ![c] = to]
      BY <1>13 DEF InitSends, Goto
    <2>2. retried' = retried /\ UNCHANGED comm /\ UNCHANGED system
      BY <1>13 DEF InitSends
    <2> QED
      BY <2>1, <2>2, NothingChanges
  <1>14. ASSUME NEW c \in Client, InitReturns(c) PROVE NeverTooFew' /\ NothingLost'
    <2>1. PICK to \in {"register", "failed"} : pc' = [pc EXCEPT ![c] = to]
      BY <1>14 DEF InitReturns, Goto
    <2>2. retried' = retried /\ UNCHANGED comm /\ UNCHANGED system
      BY <1>14 DEF InitReturns
    <2> QED
      BY <2>1, <2>2, NothingChanges
  <1>15. ASSUME NEW c \in Client, Register(c) PROVE NeverTooFew' /\ NothingLost'
    <2>1. PICK to \in {"held"} : pc' = [pc EXCEPT ![c] = to]
      BY <1>15 DEF Register, Goto
    <2>2. retried' = retried /\ UNCHANGED comm /\ UNCHANGED system
      BY <1>15 DEF Register
    <2> QED
      BY <2>1, <2>2, NothingChanges
  <1>16. ASSUME NEW c \in Client, Release(c) PROVE NeverTooFew' /\ NothingLost'
    <2>1. PICK to \in {"goodbye", "close"} : pc' = [pc EXCEPT ![c] = to]
      BY <1>16 DEF Release, Goto
    <2>2. retried' = retried /\ UNCHANGED comm /\ UNCHANGED system
      BY <1>16 DEF Release
    <2> QED
      BY <2>1, <2>2, NothingChanges
  <1>17. ASSUME NEW c \in Client, Close(c) PROVE NeverTooFew' /\ NothingLost'
    BY <1>17, FreedIsPointed DEF Close
  <1>18. ASSUME NEW c \in Client, GoodbyeReturns(c) PROVE NeverTooFew' /\ NothingLost'
    <2>1. PICK to \in {"close"} : pc' = [pc EXCEPT ![c] = to]
      BY <1>18 DEF GoodbyeReturns, Goto
    <2>2. retried' = retried /\ UNCHANGED comm /\ UNCHANGED system
      BY <1>18 DEF GoodbyeReturns
    <2> QED
      BY <2>1, <2>2, NothingChanges
  <1> QED
    BY <1>1, <1>2, <1>3, <1>4, <1>5, <1>6, <1>7, <1>8, <1>9, <1>10, <1>11, <1>12, <1>13, <1>14,
       <1>15, <1>16, <1>17, <1>18 DEF Next, Step

-----------------------------------------------------------------------------
(* The list of connections *)

\* A thread that goes on without its connection being listed or taken off.
LEMMA RegisteredStays ==
    ASSUME TypeOK, Registered, NEW c \in Client, NEW to, pc[c] # "held", to # "held",
           pc' = [pc EXCEPT ![c] = to], connections' = connections
    PROVE  Registered'
  <1>1. {d \in Client : pc'[d] = "held"} = {d \in Client : pc[d] = "held"}
    BY DEF TypeOK
  <1> QED
    BY <1>1 DEF Registered

\* A thread that held its connection has let go of it, and it is off the list.
LEMMA RegisteredRemoved ==
    ASSUME TypeOK, Registered, NEW c \in Client, NEW to, to # "held",
           pc' = [pc EXCEPT ![c] = to], IsInjective(connections'),
           Range(connections') = Range(connections) \ {c}
    PROVE  Registered'
  <1>1. {d \in Client : pc'[d] = "held"} = {d \in Client : pc[d] = "held"} \ {c}
    BY DEF TypeOK
  <1> QED
    BY <1>1 DEF Registered

\* Every step keeps the list of connections to those that are held.
LEMMA RegisteredStep ==
    ASSUME TypeOK, Registered,
           Next
    PROVE  Registered'
  <1>1. CASE DestroyNext
    <2>1. /\ connections # <<>> /\ connections' = Tail(connections)
          /\ pc' = [pc EXCEPT ![Head(connections)] = "idle"]
      BY <1>1 DEF DestroyNext, Goto
    <2>2. /\ IsInjective(connections') /\ Range(connections') = Range(connections) \ {Head(connections)}
          /\ Head(connections) \in Client
      BY <2>1, TailRemoves DEF TypeOK, Registered
    <2> QED
      BY <2>1, <2>2, RegisteredRemoved
  <1>2. ASSUME NEW c \in Client, Resolve(c) PROVE Registered'
    <2>1. \E to \in {"count", "failed"} : pc' = [pc EXCEPT ![c] = to]
      BY <1>2 DEF Resolve, Goto
    <2>2. pc[c] # "held" /\ connections' = connections
      BY <1>2 DEF Resolve
    <2> QED
      BY <2>1, <2>2, RegisteredStays
  <1>3. ASSUME NEW c \in Client, Count(c) PROVE Registered'
    <2>1. \E to \in {"host"} : pc' = [pc EXCEPT ![c] = to]
      BY <1>3 DEF Count, Goto
    <2>2. pc[c] # "held" /\ connections' = connections
      BY <1>3 DEF Count, shared
    <2> QED
      BY <2>1, <2>2, RegisteredStays
  <1>4. ASSUME NEW c \in Client, ReadHost(c) PROVE Registered'
    <2>1. \E to \in {"socket"} : pc' = [pc EXCEPT ![c] = to]
      BY <1>4 DEF ReadHost, Goto
    <2>2. pc[c] # "held" /\ connections' = connections
      BY <1>4 DEF ReadHost, shared
    <2> QED
      BY <2>1, <2>2, RegisteredStays
  <1>5. ASSUME NEW c \in Client, SocketFails(c) PROVE Registered'
    <2>1. \E to \in {"host", "unopened"} : pc' = [pc EXCEPT ![c] = to]
      BY <1>5 DEF SocketFails, NextHost, Goto
    <2>2. pc[c] # "held" /\ connections' = connections
      BY <1>5 DEF SocketFails, shared
    <2> QED
      BY <2>1, <2>2, RegisteredStays
  <1>6. ASSUME NEW c \in Client, OpenSocket(c) PROVE Registered'
    <2>1. \E to \in {"connect"} : pc' = [pc EXCEPT ![c] = to]
      BY <1>6 DEF OpenSocket, Goto
    <2>2. pc[c] # "held" /\ connections' = connections
      BY <1>6 DEF OpenSocket, shared
    <2> QED
      BY <2>1, <2>2, RegisteredStays
  <1>7. ASSUME NEW c \in Client, ConnectFails(c) PROVE Registered'
    <2>1. \E to \in {"host", "unopened"} : pc' = [pc EXCEPT ![c] = to]
      BY <1>7 DEF ConnectFails, NextHost, Goto
    <2>2. pc[c] # "held" /\ connections' = connections
      BY <1>7 DEF ConnectFails, shared
    <2> QED
      BY <2>1, <2>2, RegisteredStays
  <1>8. ASSUME NEW c \in Client, Connect(c) PROVE Registered'
    <2>1. \E to \in {"host", "unopened", "tls", "init"} : pc' = [pc EXCEPT ![c] = to]
      BY <1>8 DEF Connect, NextHost, Goto
    <2>2. pc[c] # "held" /\ connections' = connections
      BY <1>8 DEF Connect, shared
    <2> QED
      BY <2>1, <2>2, RegisteredStays
  <1>9. ASSUME NEW c \in Client, Tls(c) PROVE Registered'
    <2>1. \E to \in {"init"} : pc' = [pc EXCEPT ![c] = to]
      BY <1>9 DEF Tls, Goto
    <2>2. pc[c] # "held" /\ connections' = connections
      BY <1>9 DEF Tls, shared
    <2> QED
      BY <2>1, <2>2, RegisteredStays
  <1>10. ASSUME NEW c \in Client, ContextFails(c) PROVE Registered'
    <2>1. \E to \in {"crashed"} : pc' = [pc EXCEPT ![c] = to]
      BY <1>10 DEF ContextFails, Goto
    <2>2. pc[c] # "held" /\ connections' = connections
      BY <1>10 DEF ContextFails, shared
    <2> QED
      BY <2>1, <2>2, RegisteredStays
  <1>11. ASSUME NEW c \in Client, TlsFails(c) PROVE Registered'
    <2>1. \E to \in {"host", "unopened"} : pc' = [pc EXCEPT ![c] = to]
      BY <1>11 DEF TlsFails, NextHost, Goto
    <2>2. pc[c] # "held" /\ connections' = connections
      BY <1>11 DEF TlsFails, shared
    <2> QED
      BY <2>1, <2>2, RegisteredStays
  <1>12. ASSUME NEW c \in Client, BrokenPipe(c) PROVE Registered'
    BY <1>12 DEF BrokenPipe, shared, Registered
  <1>13. ASSUME NEW c \in Client, InitSends(c) PROVE Registered'
    <2>1. \E to \in {"exchange"} : pc' = [pc EXCEPT ![c] = to]
      BY <1>13 DEF InitSends, Goto
    <2>2. pc[c] # "held" /\ connections' = connections
      BY <1>13 DEF InitSends, shared
    <2> QED
      BY <2>1, <2>2, RegisteredStays
  <1>14. ASSUME NEW c \in Client, InitReturns(c) PROVE Registered'
    <2>1. \E to \in {"register", "failed"} : pc' = [pc EXCEPT ![c] = to]
      BY <1>14 DEF InitReturns, Goto
    <2>2. pc[c] # "held" /\ connections' = connections
      BY <1>14 DEF InitReturns, shared
    <2> QED
      BY <2>1, <2>2, RegisteredStays
  <1>15. ASSUME NEW c \in Client, Register(c) PROVE Registered'
    <2>1. /\ pc[c] = "register" /\ connections' = Append(connections, c)
          /\ pc' = [pc EXCEPT ![c] = "held"]
      BY <1>15 DEF Register, Goto
    <2>2. c \notin Range(connections)
      BY <2>1 DEF Registered
    <2>3. IsInjective(connections') /\ Range(connections') = Range(connections) \cup {c}
      BY <2>1, <2>2, AppendAdds DEF TypeOK, Registered
    <2>4. {d \in Client : pc'[d] = "held"} = {d \in Client : pc[d] = "held"} \cup {c}
      BY <2>1 DEF TypeOK
    <2> QED
      BY <2>3, <2>4 DEF Registered
  <1>16. ASSUME NEW c \in Client, Release(c) PROVE Registered'
    <2>1. connections' = Without(connections, c)
      BY <1>16 DEF Release
    <2>2. PICK to \in {"goodbye", "close"} : pc' = [pc EXCEPT ![c] = to]
      BY <1>16 DEF Release, Goto
    <2>3. IsInjective(connections') /\ Range(connections') = Range(connections) \ {c}
      BY <2>1, WithoutRemoves DEF TypeOK, Registered
    <2>4. to # "held"
      OBVIOUS
    <2> QED
      BY <2>2, <2>3, <2>4, RegisteredRemoved
  <1>17. ASSUME NEW c \in Client, Close(c) PROVE Registered'
    <2>1. \E to \in {"idle"} : pc' = [pc EXCEPT ![c] = to]
      BY <1>17 DEF Close, Goto
    <2>2. pc[c] # "held" /\ connections' = connections
      BY <1>17 DEF Close, shared
    <2> QED
      BY <2>1, <2>2, RegisteredStays
  <1>18. ASSUME NEW c \in Client, GoodbyeReturns(c) PROVE Registered'
    <2>1. \E to \in {"close"} : pc' = [pc EXCEPT ![c] = to]
      BY <1>18 DEF GoodbyeReturns, Goto
    <2>2. pc[c] # "held" /\ connections' = connections
      BY <1>18 DEF GoodbyeReturns, shared
    <2> QED
      BY <2>1, <2>2, RegisteredStays
  <1> QED
    BY <1>1, <1>2, <1>3, <1>4, <1>5, <1>6, <1>7, <1>8, <1>9, <1>10, <1>11, <1>12, <1>13, <1>14,
       <1>15, <1>16, <1>17, <1>18 DEF Next, Step

\* A signal that is pending is taken before it is let through.
LEMMA NoSigpipeStep ==
    ASSUME NoSigpipe, Next
    PROVE  NoSigpipe'
  <1>1. \A state : Taken(state) # "pending"
    BY DEF Taken
  <1>2. CASE DestroyNext
    BY <1>2 DEF NoSigpipe, DestroyNext, signals
  <1>3. ASSUME NEW c \in Client, Resolve(c) PROVE NoSigpipe'
    BY <1>3 DEF NoSigpipe, Resolve, signals
  <1>4. ASSUME NEW c \in Client, Count(c) PROVE NoSigpipe'
    BY <1>4 DEF NoSigpipe, Count, signals
  <1>5. ASSUME NEW c \in Client, ReadHost(c) PROVE NoSigpipe'
    BY <1>5 DEF NoSigpipe, ReadHost, signals
  <1>6. ASSUME NEW c \in Client, SocketFails(c) PROVE NoSigpipe'
    BY <1>6 DEF NoSigpipe, SocketFails, signals
  <1>7. ASSUME NEW c \in Client, OpenSocket(c) PROVE NoSigpipe'
    BY <1>7 DEF NoSigpipe, OpenSocket, signals
  <1>8. ASSUME NEW c \in Client, ConnectFails(c) PROVE NoSigpipe'
    BY <1>8 DEF NoSigpipe, ConnectFails, signals
  <1>9. ASSUME NEW c \in Client, Connect(c) PROVE NoSigpipe'
    BY <1>9 DEF NoSigpipe, Connect, signals
  <1>10. ASSUME NEW c \in Client, Tls(c) PROVE NoSigpipe'
    BY <1>10 DEF NoSigpipe, Tls, signals
  <1>11. ASSUME NEW c \in Client, ContextFails(c) PROVE NoSigpipe'
    BY <1>11 DEF NoSigpipe, ContextFails, signals
  <1>12. ASSUME NEW c \in Client, TlsFails(c) PROVE NoSigpipe'
    BY <1>12 DEF NoSigpipe, TlsFails
  <1>13. ASSUME NEW c \in Client, BrokenPipe(c) PROVE NoSigpipe'
    BY <1>13 DEF NoSigpipe, BrokenPipe
  <1>14. ASSUME NEW c \in Client, InitSends(c) PROVE NoSigpipe'
    BY <1>14 DEF NoSigpipe, InitSends
  <1>15. ASSUME NEW c \in Client, InitReturns(c) PROVE NoSigpipe'
    BY <1>1, <1>15 DEF NoSigpipe, InitReturns, RestoreSigpipe, Delivers
  <1>16. ASSUME NEW c \in Client, Register(c) PROVE NoSigpipe'
    BY <1>16 DEF NoSigpipe, Register, signals
  <1>17. ASSUME NEW c \in Client, Release(c) PROVE NoSigpipe'
    BY <1>17 DEF NoSigpipe, Release
  <1>18. ASSUME NEW c \in Client, Close(c) PROVE NoSigpipe'
    BY <1>1, <1>18 DEF NoSigpipe, Close, RestoreSigpipe, Delivers
  <1>19. ASSUME NEW c \in Client, GoodbyeReturns(c) PROVE NoSigpipe'
    BY <1>1, <1>19 DEF NoSigpipe, GoodbyeReturns, Delivers
  <1> QED
    BY <1>2, <1>3, <1>4, <1>5, <1>6, <1>7, <1>8, <1>9, <1>10, <1>11, <1>12, <1>13, <1>14, <1>15,
       <1>16, <1>17, <1>18, <1>19 DEF Next, Step

-----------------------------------------------------------------------------
(* Theorems *)

\* At the start nothing is resolved, listed, open or allocated.
LEMMA InitHolds ==
    ASSUME Init
    PROVE  NoPoolInv
  <1> USE DEF Init
  <1>1. InUse = {} /\ IsFiniteSet(InUse)
    BY FS_EmptySet DEF InUse
  <1>2. /\ TypeOK
    <2>1. <<>> \in Seq(Client)
      OBVIOUS
    <2>2. [c \in Client |-> FALSE] \in [Client -> BOOLEAN]
      OBVIOUS
    <2> QED
      BY <2>1, <2>2 DEF TypeOK
  <1>3. GhostsOK
    BY DEF GhostsOK
  <1>4. SocketsOwned /\ SessionsFollow /\ HostsTried /\ TriesEach /\ NoSigpipe
    BY <1>1 DEF SocketsOwned, SessionsFollow, HostsTried, TriesEach, NoSigpipe
  <1>5. Pointed = 0
    <2>1. Number(ssl) = 0 /\ Number(sec_ctx) = 0 /\ Number(remote) = 0 /\ Number(local) = 0
      BY NumberOfNone
    <2> QED
      BY <2>1 DEF Pointed
  <1>6. NeverTooFew /\ NothingLost
    BY <1>1, <1>5 DEF NeverTooFew, NothingLost
  <1>7. Registered
    <2>1. IsInjective(connections) /\ Range(connections) = {}
      BY DEF IsInjective, Range
    <2>2. {c \in Client : pc[c] = "held"} = {}
      OBVIOUS
    <2> QED
      BY <2>1, <2>2 DEF Registered
  <1> QED
    BY <1>2, <1>3, <1>4, <1>6, <1>7 DEF NoPoolInv

\* Every step of every thread, and of the connector's destruction, preserves
\* the invariant.
LEMMA StepHolds ==
    ASSUME NoPoolInv, [Next]_vars
    PROVE  NoPoolInv'
  <1>1. CASE Next
    <2> USE <1>1 DEF NoPoolInv
    <2>1. TypeOK' /\ GhostsOK'
      BY TypesStep
    <2>2. SocketsOwned'
      BY SocketsStep
    <2>3. SessionsFollow'
      BY SessionsStep
    <2>4. HostsTried' /\ TriesEach'
      BY HostsStep
    <2>5. NeverTooFew' /\ NothingLost'
      BY NothingLostStep
    <2>6. Registered'
      BY RegisteredStep
    <2>7. NoSigpipe'
      BY NoSigpipeStep
    <2> QED
      BY <2>1, <2>2, <2>3, <2>4, <2>5, <2>6, <2>7
  <1>2. CASE UNCHANGED vars
    <2>1. /\ UNCHANGED <<resolved, connections, pc, hosts, index, host, tried, socket, ssl, sec_ctx>>
          /\ UNCHANGED <<remote, local, open, allocated, sigpipe, delivered, stable, retried, acquires>>
      BY <1>2 DEF vars, shared, opening, comm, system, signals
    <2>2. InUse' = InUse /\ Pointed' = Pointed
      BY <2>1, InUseAfter DEF Pointed
    <2>3. TypeOK' /\ GhostsOK'
      BY <2>1 DEF NoPoolInv, TypeOK, GhostsOK
    <2>4. SocketsOwned' /\ SessionsFollow' /\ NeverTooFew' /\ NothingLost'
      BY <2>1, <2>2 DEF NoPoolInv, SocketsOwned, SessionsFollow, NeverTooFew, NothingLost
    <2>5. HostsTried' /\ TriesEach' /\ Registered' /\ NoSigpipe'
      BY <2>1 DEF NoPoolInv, HostsTried, TriesEach, Registered, NoSigpipe
    <2> QED
      BY <2>3, <2>4, <2>5 DEF NoPoolInv
  <1> QED
    BY <1>1, <1>2

\* Threads that acquire, release and lose connections without a pool, and the
\* destruction of the connector, keep to the invariant (no-pool.c,
\* communication.c, communication-plain.c, communication-secure-openssl.c).
THEOREM NoPoolInvariant == Spec => []NoPoolInv
  <1>1. Init => NoPoolInv
    BY InitHolds
  <1>2. NoPoolInv /\ [Next]_vars => NoPoolInv'
    BY StepHolds
  <1> QED
    BY <1>1, <1>2, PTL DEF Spec

\* BoltNoPool_destroy finds in the list every connection a thread holds, once:
\* BoltNoPool_release takes off the one it is given and no other, whatever the
\* order in which the threads release (no-pool.c:42, 117-121).
THEOREM ListedOnce == Spec => []Registered
  <1>1. NoPoolInv => Registered
    BY DEF NoPoolInv
  <1> QED
    BY <1>1, NoPoolInvariant, PTL

\* A connection that is handed out is connected, blocks, has a TLS session just
\* if the transport is encrypted, and shares its socket with no other thread,
\* though socket numbers are given out again (communication.c:88-101).
THEOREM HandedOutUsable == Spec => []Usable
  <1>1. NoPoolInv => Usable
    <2> SUFFICES ASSUME NoPoolInv, NEW c \in Client,
                        pc[c] \in {"init", "exchange", "register", "held"}
                 PROVE  /\ Socket(socket[c], TRUE) \in open /\ remote[c] /\ local[c]
                        /\ ssl[c] = Encrypted /\ sec_ctx[c] = Encrypted
                        /\ \A d \in Client \ {c} : socket[d] # socket[c]
      BY DEF Usable
    <2>1. Socket(socket[c], TRUE) \in open
      BY DEF NoPoolInv, SocketsOwned
    <2>2. remote[c] /\ local[c] /\ ssl[c] = Encrypted /\ sec_ctx[c] = Encrypted
      BY DEF NoPoolInv, SessionsFollow
    <2>3. socket[c] # 0
      BY <2>1 DEF NoPoolInv, TypeOK, Socket
    <2>4. \A d \in Client \ {c} : socket[d] # socket[c]
      BY <2>3 DEF NoPoolInv, SocketsOwned
    <2> QED
      BY <2>1, <2>2, <2>4
  <1> QED
    BY <1>1, NoPoolInvariant, PTL

\* An open that gives up has tried every host of the address, unless another
\* thread resolved the address meanwhile (communication.c:84-101).
THEOREM GivesUpAfterAll == Spec => []TriesEach
  <1>1. NoPoolInv => TriesEach
    BY DEF NoPoolInv
  <1> QED
    BY <1>1, NoPoolInvariant, PTL

\* Nothing is open or allocated when no thread holds a connection or is in a
\* call, as long as no attempt at a host followed one that failed
\* (communication.c:88-101: the attempts that fail are not closed).
THEOREM NothingLeftBehind == Spec => []FirstHostLeavesNothing
  <1>1. NoPoolInv => FirstHostLeavesNothing
    <2> SUFFICES ASSUME NoPoolInv, ~retried, \A c \in Client : pc[c] = "idle"
                 PROVE  open = {} /\ allocated = 0
      BY DEF FirstHostLeavesNothing, NothingLeft, Idle
    <2>1. \A c \in Client : socket[c] = 0 /\ ~ssl[c] /\ ~sec_ctx[c] /\ ~remote[c] /\ ~local[c]
      BY DEF NoPoolInv, SocketsOwned, SessionsFollow
    <2>2. open = {}
      <3> SUFFICES ASSUME NEW s \in open PROVE FALSE
        OBVIOUS
      <3>1. s.number \in InUse /\ s.number # 0
        BY DEF InUse, NoPoolInv, TypeOK
      <3> QED
        BY <2>1, <3>1 DEF NoPoolInv, NothingLost
    <2>3. Number(ssl) = 0 /\ Number(sec_ctx) = 0 /\ Number(remote) = 0 /\ Number(local) = 0
      BY <2>1, NumberOfNone
    <2>4. allocated = 0
      BY <2>3 DEF NoPoolInv, NothingLost, Pointed
    <2> QED
      BY <2>2, <2>4
  <1> QED
    BY <1>1, NoPoolInvariant, PTL

\* Sending, receiving and closing never let a SIGPIPE through
\* (communication.c:107-219).
THEOREM SigpipeKeptIn == Spec => []NoSigpipe
  <1>1. NoPoolInv => NoSigpipe
    BY DEF NoPoolInv
  <1> QED
    BY <1>1, NoPoolInvariant, PTL

=============================================================================
