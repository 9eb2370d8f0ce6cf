---------------------------- MODULE RoutingPool ----------------------------
(***************************************************************************)
(* The routing pool of routing-pool.c: a routing table and one direct pool *)
(* per server, shared by client threads under one read-write lock.  Each   *)
(* section under the write lock excludes every other thread and is one     *)
(* action; sections under the read lock overlap and are stepped through.   *)
(*                                                                         *)
(* A direct pool is represented by the number of its connections in use:   *)
(* DirectPool shows that the count is exact when NULL is never released,   *)
(* and BoltRoutingPool_release cannot be called with NULL.                 *)
(***************************************************************************)
EXTENDS Integers, Sequences, FiniteSets

CONSTANTS Client,            \* threads that call the routing pool
          Addr,              \* addresses of servers
          NoAddr,            \* no address
          Responses,         \* the routing tables that discovery may return
          PoolSize,          \* config->max_pool_size of each direct pool
          WriterPreference   \* a waiting writer holds up new readers

Modes == {"READ", "WRITE"}
Tables == [READ : SUBSET Addr, WRITE : SUBSET Addr, ROUTE : SUBSET Addr]

ASSUME ClientAssumption == IsFiniteSet(Client)
ASSUME AddrAssumption == NoAddr \notin Addr
ASSUME ResponsesAssumption == Responses \subseteq Tables
ASSUME SizeAssumption == PoolSize \in Nat \ {0}
ASSUME PreferenceAssumption == WriterPreference \in BOOLEAN

VARIABLES readers,   \* the clients that hold pool->rwlock for reading
          table,     \* pool->routing_table: the addresses of each role
          fresh,     \* the table's time to live has not run out
          servers,   \* pool->servers, an address set: a sequence of addresses
          in_use,    \* the in_use_count of each of pool->server_pools
          pc,        \* where each client is
          mode,      \* the access mode of k's acquire
          server,    \* the server that k's acquire selected
          index,     \* k's server_pool_index
          held,      \* the address of the connection that k holds
          reply      \* what k's last acquire returned

lockVars == <<readers>>
tableVars == <<table, fresh>>
poolVars == <<servers, in_use>>
clientVars == <<pc, mode, server, index, held, reply>>
vars == <<lockVars, tableVars, poolVars, clientVars>>

WaitingWriters == {k \in Client : pc[k] \in {"refresh", "create", "forget"}}

(* The locals of an acquire end with it. *)
Forgotten(k) ==
    /\ server' = [server EXCEPT ![k] = NoAddr]
    /\ index' = [index EXCEPT ![k] = 0]

Goto(k, place) == pc' = [pc EXCEPT ![k] = place]

-----------------------------------------------------------------------------
(* The read-write lock *)

(* BoltSync_rwlock_rdlock can return. *)
CanRead == ~(WriterPreference /\ WaitingWriters # {})
ReadLock(k) == CanRead /\ readers' = readers \cup {k}
ReadUnlock(k) == readers' = readers \ {k}

(* Mutant: readers do not keep a writer out. *)
Exclusive_IgnoresReaders == UNCHANGED readers

(* A section under the write lock: nobody reads, before and after. *)
Exclusive == readers = {} /\ UNCHANGED readers

-----------------------------------------------------------------------------
(* The routing table, the address set and the direct pools *)

(* RoutingTable_is_expired *)
IsExpired(t, f, m) == t.ROUTE = {} \/ t[m] = {} \/ ~f

(* BoltAddressSet_index_of; 0 stands for -1. *)
IndexOf(set, a) ==
    IF \E i \in 1..Len(set) : set[i] = a
    THEN CHOOSE i \in 1..Len(set) : set[i] = a /\ \A j \in 1..(i - 1) : set[j] # a
    ELSE 0

Active(t) == t.READ \cup t.WRITE \cup t.ROUTE

(* Mutant: a pool is dropped although its connections are in use. *)
Kept_IgnoresUse(t, i) == servers[i] \in Active(t)

(* BoltRoutingPool_cleanup keeps the pools of the servers in the table and *)
(* the pools with connections in use.                                      *)
Kept(t, i) == servers[i] \in Active(t) \/ in_use[i] # 0

Remaining(t) == {i \in 1..Len(servers) : Kept(t, i)}

(* The one enumeration of a set of positions from the lowest upwards. *)
Upwards(K) ==
    {s \in [1..Cardinality(K) -> K] :
        /\ \A m, n \in DOMAIN s : m < n => s[m] < s[n]
        /\ \A i \in K : \E n \in DOMAIN s : s[n] = i}

(* What remains moves down to the front of both arrays, in its old order. *)
Cleanup(t) ==
    \E from \in Upwards(Remaining(t)) :
        /\ servers' = [n \in DOMAIN from |-> servers[from[n]]]
        /\ in_use' = [n \in DOMAIN from |-> in_use[from[n]]]

(* Mutant: the server is added without looking for it again. *)
AddServer_Blindly(k) ==
    /\ servers' = Append(servers, server[k])
    /\ in_use' = Append(in_use, 0)
    /\ index' = [index EXCEPT ![k] = Len(servers) + 1]

(* The body of ensure_server under the write lock: look again, and add the *)
(* server and a new direct pool at the end if it is still missing.         *)
AddServer(k) ==
    LET i == IndexOf(servers, server[k]) IN
        IF i = 0
        THEN /\ servers' = Append(servers, server[k])
             /\ in_use' = Append(in_use, 0)
             /\ index' = [index EXCEPT ![k] = Len(servers) + 1]
        ELSE /\ index' = [index EXCEPT ![k] = i]
             /\ UNCHANGED poolVars

-----------------------------------------------------------------------------
(* BoltRoutingPool_create *)
Init ==
    /\ readers = {}
    /\ table = [READ |-> {}, WRITE |-> {}, ROUTE |-> {}]
    /\ fresh = FALSE
    /\ servers = << >>
    /\ in_use = << >>
    /\ pc = [k \in Client |-> "idle"]
    /\ mode = [k \in Client |-> "WRITE"]
    /\ server = [k \in Client |-> NoAddr]
    /\ index = [k \in Client |-> 0]
    /\ held = [k \in Client |-> NoAddr]
    /\ reply = [k \in Client |-> "NONE"]

(* BoltRoutingPool_acquire is called. *)
Acquire(k, m) ==
    /\ pc[k] = "idle"
    /\ mode' = [mode EXCEPT ![k] = m]
    /\ reply' = [reply EXCEPT ![k] = "NONE"]
    /\ Goto(k, "enter")
    /\ UNCHANGED <<readers, tableVars, poolVars, server, index, held>>

(* The read lock is taken, at the start or after a refresh. *)
Enter(k) ==
    /\ pc[k] = "enter"
    /\ ReadLock(k)
    /\ Goto(k, "checking")
    /\ UNCHANGED <<tableVars, poolVars, mode, server, index, held, reply>>

(* Loop condition of ensure_routing_table: the table is to be refreshed.   *)
LeaveToRefresh(k) ==
    /\ pc[k] = "checking"
    /\ IsExpired(table, fresh, mode[k])
    /\ ReadUnlock(k)
    /\ Goto(k, "refresh")
    /\ UNCHANGED <<tableVars, poolVars, mode, server, index, held, reply>>

(* The table is good for the mode. *)
TableIsGood(k) ==
    /\ pc[k] = "checking"
    /\ ~IsExpired(table, fresh, mode[k])
    /\ Goto(k, "selecting")
    /\ UNCHANGED <<readers, tableVars, poolVars, mode, server, index, held, reply>>

(* select_least_connected picks one of its servers.  The counts that it    *)
(* compares change while it reads them: module LeastConnected models the   *)
(* choice itself, here any server may be the one.                          *)
SelectServer(k) ==
    /\ pc[k] = "selecting"
    /\ \E a \in table[mode[k]] : server' = [server EXCEPT ![k] = a]
    /\ Goto(k, "ensuring")
    /\ UNCHANGED <<readers, tableVars, poolVars, mode, index, held, reply>>

(* Under the write lock: another thread refreshed the table meanwhile. *)
RefreshUnneeded(k) ==
    /\ pc[k] = "refresh"
    /\ Exclusive
    /\ ~IsExpired(table, fresh, mode[k])
    /\ Goto(k, "enter")
    /\ UNCHANGED <<tableVars, poolVars, mode, server, index, held, reply>>

(* Under the write lock: one of the known or initial routers answers.  Its *)
(* table replaces ours and the pools are cleaned up.                       *)
Refresh(k) ==
    /\ pc[k] = "refresh"
    /\ Exclusive
    /\ IsExpired(table, fresh, mode[k])
    /\ \E t \in Responses : table' = t /\ Cleanup(t)
    /\ fresh' = TRUE
    /\ Goto(k, "enter")
    /\ UNCHANGED <<mode, server, index, held, reply>>

(* Under the write lock: no router answers with a routing table. *)
RefreshFails(k) ==
    /\ pc[k] = "refresh"
    /\ Exclusive
    /\ IsExpired(table, fresh, mode[k])
    /\ Goto(k, "leave")
    /\ UNCHANGED <<tableVars, poolVars, mode, server, index, held, reply>>

(* Mutant: the error return keeps the read lock. *)
Leave_KeepsLock(k) ==
    /\ pc[k] = "leave"
    /\ ReadLock(k)
    /\ reply' = [reply EXCEPT ![k] = "NO_TABLE"]
    /\ Goto(k, "idle")
    /\ UNCHANGED <<tableVars, poolVars, mode, server, index, held>>

(* The read lock is taken once more only to be given back: acquire returns *)
(* NULL with the error of the refresh.                                     *)
Leave(k) ==
    /\ pc[k] = "leave"
    /\ CanRead
    /\ reply' = [reply EXCEPT ![k] = "NO_TABLE"]
    /\ Goto(k, "idle")
    /\ UNCHANGED <<readers, tableVars, poolVars, mode, server, index, held>>

(* ensure_server finds the direct pool of the server. *)
FindPool(k) ==
    /\ pc[k] = "ensuring"
    /\ IndexOf(servers, server[k]) # 0
    /\ index' = [index EXCEPT ![k] = IndexOf(servers, server[k])]
    /\ Goto(k, "leasing")
    /\ UNCHANGED <<readers, tableVars, poolVars, mode, server, held, reply>>

(* ensure_server does not, and gives up the read lock to create it. *)
LeaveToCreate(k) ==
    /\ pc[k] = "ensuring"
    /\ IndexOf(servers, server[k]) = 0
    /\ ReadUnlock(k)
    /\ Goto(k, "create")
    /\ UNCHANGED <<tableVars, poolVars, mode, server, index, held, reply>>

(* Under the write lock: add the server unless another thread did. *)
Create(k) ==
    /\ pc[k] = "create"
    /\ Exclusive
    /\ AddServer(k)
    /\ Goto(k, "created")
    /\ UNCHANGED <<tableVars, mode, server, held, reply>>

(* The read lock is taken again; the loop ends because index is not        *)
(* negative, whatever happened to the pools since it was computed.         *)
ReturnFromCreate(k) ==
    /\ pc[k] = "created"
    /\ ReadLock(k)
    /\ Goto(k, "leasing")
    /\ UNCHANGED <<tableVars, poolVars, mode, server, index, held, reply>>

(* Mutant: the lease is not counted. *)
CountUp_Missed(i) == in_use

CountUp(i) == [in_use EXCEPT ![i] = @ + 1]

(* BoltDirectPool_acquire on server_pools[index] hands out a connection. *)
Lease(k) ==
    /\ pc[k] = "leasing"
    /\ index[k] <= Len(in_use)
    /\ in_use[index[k]] < PoolSize
    /\ in_use' = CountUp(index[k])
    /\ held' = [held EXCEPT ![k] = servers[index[k]]]
    /\ reply' = [reply EXCEPT ![k] = "SUCCESS"]
    /\ ReadUnlock(k)
    /\ Forgotten(k)
    /\ Goto(k, "holding")
    /\ UNCHANGED <<tableVars, servers, mode>>

(* It is full, times out waiting or cannot connect: acquire returns NULL   *)
(* with the status of the direct pool, and the server stays in the table.  *)
Refuse(k) ==
    /\ pc[k] = "leasing"
    /\ index[k] <= Len(in_use)
    /\ reply' = [reply EXCEPT ![k] = "REFUSED"]
    /\ ReadUnlock(k)
    /\ Forgotten(k)
    /\ Goto(k, "idle")
    /\ UNCHANGED <<tableVars, poolVars, mode, held>>

(* The index is beyond the array: the program's behaviour is undefined and *)
(* is not followed further.                                                *)
GoAstray(k) ==
    /\ pc[k] = "leasing"
    /\ index[k] > Len(in_use)
    /\ pc' = [c \in Client |-> "astray"]
    /\ UNCHANGED <<readers, tableVars, poolVars, mode, server, index, held, reply>>

(* The connection that k uses breaks, or the server reports a failure: the *)
(* error handler forgets the server or only its writer role, which needs   *)
(* the write lock.                                                         *)
Fail(k) ==
    /\ pc[k] = "holding"
    /\ Goto(k, "forget")
    /\ UNCHANGED <<readers, tableVars, poolVars, mode, server, index, held, reply>>

ForgetServer(k) ==
    /\ pc[k] = "forget"
    /\ Exclusive
    /\ table' = [r \in DOMAIN table |-> table[r] \ {held[k]}]
    /\ Goto(k, "holding")
    /\ UNCHANGED <<fresh, poolVars, mode, server, index, held, reply>>

ForgetWriter(k) ==
    /\ pc[k] = "forget"
    /\ Exclusive
    /\ table' = [table EXCEPT !.WRITE = @ \ {held[k]}]
    /\ Goto(k, "holding")
    /\ UNCHANGED <<fresh, poolVars, mode, server, index, held, reply>>

(* BoltRoutingPool_release is called and takes the read lock. *)
Release(k) ==
    /\ pc[k] = "holding"
    /\ Goto(k, "release")
    /\ UNCHANGED <<readers, tableVars, poolVars, mode, server, index, held, reply>>

EnterRelease(k) ==
    /\ pc[k] = "release"
    /\ ReadLock(k)
    /\ Goto(k, "releasing")
    /\ UNCHANGED <<tableVars, poolVars, mode, server, index, held, reply>>

(* The connection goes back to the pool of its address; if there is none   *)
(* it is closed.                                                           *)
GiveBack(k) ==
    /\ pc[k] = "releasing"
    /\ LET i == IndexOf(servers, held[k]) IN
          in_use' = IF i = 0 THEN in_use ELSE [in_use EXCEPT ![i] = @ - 1]
    /\ held' = [held EXCEPT ![k] = NoAddr]
    /\ ReadUnlock(k)
    /\ Goto(k, "idle")
    /\ UNCHANGED <<tableVars, servers, mode, server, index, reply>>

(* The routing table gets older than its time to live. *)
ExpireTable ==
    /\ fresh
    /\ fresh' = FALSE
    /\ UNCHANGED <<readers, table, poolVars, clientVars>>

(* BoltRoutingPool_destroy, when the application has ended its calls. *)
Destroy ==
    /\ \A k \in Client : pc[k] = "idle"
    /\ servers' = << >>
    /\ in_use' = << >>
    /\ pc' = [k \in Client |-> "destroyed"]
    /\ UNCHANGED <<readers, tableVars, mode, server, index, held, reply>>

Over == \A k \in Client : pc[k] \in {"astray", "destroyed"}
Gone == Over /\ UNCHANGED vars

(* What a thread inside the routing pool does next. *)
Inside(k) ==
    \/ Enter(k) \/ LeaveToRefresh(k) \/ TableIsGood(k) \/ SelectServer(k)
    \/ RefreshUnneeded(k) \/ Refresh(k) \/ RefreshFails(k) \/ Leave(k)
    \/ FindPool(k) \/ LeaveToCreate(k) \/ Create(k) \/ ReturnFromCreate(k)
    \/ Lease(k) \/ Refuse(k) \/ GoAstray(k)
    \/ ForgetServer(k) \/ ForgetWriter(k)
    \/ EnterRelease(k) \/ GiveBack(k)

(* What the application makes it do. *)
Call(k) == (\E m \in Modes : Acquire(k, m)) \/ Fail(k) \/ Release(k)

Next ==
    \/ \E k \in Client : Call(k) \/ Inside(k)
    \/ ExpireTable \/ Destroy \/ Gone

Spec == Init /\ [][Next]_vars

(* A thread inside goes on when it can, and gets the lock if it is free    *)
(* again and again.  Nothing makes the application call, the table expire  *)
(* or a router answer.                                                     *)
Fairness == \A k \in Client : SF_vars(Inside(k))
FairSpec == Spec /\ Fairness

-----------------------------------------------------------------------------
(* Properties *)

Places == {"idle", "enter", "checking", "refresh", "leave", "selecting", "ensuring",
           "create", "created", "leasing", "holding", "forget", "release", "releasing", "astray", "destroyed"}

(* The variables keep their types: pools and servers are parallel arrays,  *)
(* no count is negative.                                                   *)
TypeOK ==
    /\ readers \subseteq Client
    /\ table \in Tables
    /\ fresh \in BOOLEAN
    /\ servers \in Seq(Addr)
    /\ in_use \in Seq(0..PoolSize)
    /\ Len(in_use) = Len(servers)
    /\ pc \in [Client -> Places]
    /\ mode \in [Client -> Modes]
    /\ server \in [Client -> Addr \cup {NoAddr}]
    /\ index \in [Client -> Nat]
    /\ held \in [Client -> Addr \cup {NoAddr}]
    /\ reply \in [Client -> {"NONE", "SUCCESS", "NO_TABLE", "REFUSED"}]

Holders(a) == {k \in Client : held[k] = a}

(* BoltRoutingPool_cleanup runs while connections are out and moves the    *)
(* pools that stay: the pool of every connection that a client holds is    *)
(* still there, and its in_use_count is the number of clients that hold    *)
(* one of its connections.  So a release finds the pool that lent it.      *)
LeasesCounted ==
    /\ \A k \in Client : held[k] # NoAddr => IndexOf(servers, held[k]) # 0
    /\ \A i \in 1..Len(servers) : in_use[i] = Cardinality(Holders(servers[i]))

(* Threads that miss the same server at once create one pool for it:       *)
(* ensure_server looks again under the write lock.                         *)
NoDuplicatePool ==
    \A i, j \in 1..Len(servers) : servers[i] = servers[j] => i = j

(* Between the check of ensure_routing_table and the selection no other    *)
(* thread can take the last server of the role away, so that               *)
(* select_least_connected never meets an empty set.                        *)
SelectsFromTable ==
    \A k \in Client : pc[k] = "selecting" => table[mode[k]] # {}

(* The connection of an acquire comes from the direct pool of the server   *)
(* that was selected: the index of ensure_server still denotes that pool   *)
(* when BoltDirectPool_acquire is called.                                  *)
ServedBySelected ==
    \A k \in Client : pc[k] = "leasing" =>
        index[k] <= Len(servers) /\ servers[index[k]] = server[k]

(* Once the table neither expires nor loses servers, calls of acquire and  *)
(* release return, whatever lock the thread has to wait for.               *)
CallsReturn ==
    <>[](fresh /\ \A k \in Client : pc[k] # "forget") =>
        \A k \in Client :
            /\ pc[k] = "enter" ~> pc[k] \in {"idle", "holding"} \/ Over
            /\ pc[k] = "release" ~> pc[k] = "idle" \/ Over
=============================================================================
