----------------------------- MODULE DirectPool -----------------------------
(***************************************************************************)
(* The bounded connection pool of direct-pool.c.  Clients are threads in   *)
(* one acquire .. release cycle each.  Everything the pool does, network   *)
(* exchanges included, happens while the calling thread owns pool->mutex;  *)
(* the mutex is given up only inside BoltSync_cond_timedwait.              *)
(*                                                                         *)
(* The network is the set of faults it may show: each call of resolve,     *)
(* open, init or reset may fail when its name is in Faults.                *)
(***************************************************************************)
EXTENDS Integers, FiniteSets

CONSTANTS Client,           \* threads that call the pool
          NoClient,         \* the owner of a free mutex
          MaxSize,          \* config->max_pool_size
          AcquisitionTime,  \* config->max_connection_acquisition_time, in ticks
          LifeTimeLimited,  \* config->max_connection_life_time > 0
          Faults,           \* the network exchanges that may fail
          MaxNullReleases   \* bound: calls of release with a NULL connection

ASSUME ClientAssumption == NoClient \notin Client
ASSUME SizeAssumption == MaxSize \in Nat
ASSUME TimeAssumption == AcquisitionTime \in Nat
ASSUME LifeTimeAssumption == LifeTimeLimited \in BOOLEAN
ASSUME FaultsAssumption == Faults \subseteq {"resolve", "open", "init", "reset"}
ASSUME NullAssumption == MaxNullReleases \in Nat

Index == 1..MaxSize         \* position in pool->connections; 0 stands for none

States == {"DISCONNECTED", "CONNECTED", "READY", "FAILED", "DEFUNCT"}
Replies == {"NONE", "SUCCESS", "POOL_FULL", "TIMED_OUT",
            "NOT_RESOLVED", "CONNECTION_ERROR"}

(* Where a client is: outside the pool, waiting for the mutex (acquiring,  *)
(* woken, expired, releasing), parked on released_cond, or inside a        *)
(* critical section (attempting, returning, resetting, signalling).        *)
Outside == {"idle", "holding"}
Blocked == {"acquiring", "woken", "expired", "releasing"}
Inside == {"attempting", "returning", "resetting", "signalling"}
Places == Outside \cup Blocked \cup Inside \cup {"parked"}

VARIABLES mutex,         \* the owner of pool->mutex
          agent,         \* agent[i]: pool->connections[i]->agent
          state,         \* state[i]: pool->connections[i]->status->state
          aged,          \* aged[i]: open for longer than the maximum life time
          in_use_count,  \* pool->in_use_count
          pc,            \* where each client is
          conn,          \* conn[k]: the connection client k deals with, or 0
          reply,         \* reply[k]: the status acquire gave client k
          timer,         \* timer[k]: ticks left of k's current timed wait
          waited,        \* waited[k]: ticks k has waited in this acquire
          nullReleases,  \* history: calls of release with NULL so far
          destroyed      \* BoltDirectPool_destroy was called

poolVars == <<agent, state, aged, in_use_count>>
clientVars == <<pc, conn, reply, timer, waited>>
vars == <<mutex, poolVars, clientVars, nullReleases, destroyed>>

(* Bound on waited: one more than the maximum is enough to see it exceeded. *)
WaitedBound == AcquisitionTime + 1

Leased == {i \in Index : agent[i] = "USED"}
Free == Index \ Leased

-----------------------------------------------------------------------------
(* The network exchanges of a connection, as the set of results they may   *)
(* have: the state the connection is left in and the code returned.        *)

Result(s, e) == [state |-> s, error |-> e]

(* init *)
InitResults ==
    {Result("READY", "SUCCESS")}
    \cup {Result("DEFUNCT", "CONNECTION_ERROR") : f \in Faults \cap {"init"}}

(* open_init: a failed resolution leaves the connection as it was. *)
OpenInitResults(s) ==
    {Result(s, "NOT_RESOLVED") : f \in Faults \cap {"resolve"}}
    \cup {Result("DEFUNCT", "CONNECTION_ERROR") : f \in Faults \cap {"open"}}
    \cup InitResults

(* reset_or_open_init: a RESET that fails may leave the state it found,    *)
(* FAILED or DEFUNCT, and the connection is then opened again.             *)
ResetOrOpenInitResults(s) ==
    {Result("READY", "SUCCESS")}
    \cup UNION {OpenInitResults(r) : r \in
                   IF "reset" \in Faults THEN {s, "FAILED", "DEFUNCT"} ELSE {}}

(* The switch of BoltDirectPool_acquire over the state it finds. *)
PrepareResults(s) ==
    CASE s \in {"DISCONNECTED", "DEFUNCT"} -> OpenInitResults(s)
      [] s = "CONNECTED" -> InitResults
      [] s = "FAILED" -> ResetOrOpenInitResults(s)
      [] s = "READY" -> {Result("READY", "SUCCESS")}

(* Mutant: a failed RESET is taken for a successful one. *)
ResetOrCloseStates_IgnoresFailure ==
    {"READY"} \cup {"FAILED" : f \in Faults \cap {"reset"}}

(* reset_or_close: what is not reset is closed. *)
ResetOrCloseStates ==
    {"READY"} \cup {"DISCONNECTED" : f \in Faults \cap {"reset"}}

(* Mutant: the agent of a connection is not looked at. *)
FindsUnused_AnyAgent(i) == in_use_count < MaxSize /\ i = 1

(* find_unused_connection finds connection i: the first one without an     *)
(* agent, if the count of connections in use is below the maximum.         *)
FindsUnused(i) == /\ in_use_count < MaxSize
                  /\ agent[i] = "NULL"
                  /\ \A j \in 1..(i - 1) : agent[j] # "NULL"

(* Mutant: the bound on connections in use is off by one. *)
FindsNone_OneEarly == \/ in_use_count >= MaxSize - 1
                      \/ \A i \in Index : agent[i] # "NULL"

(* find_unused_connection returns -1. *)
FindsNone == \/ in_use_count >= MaxSize
             \/ \A i \in Index : agent[i] # "NULL"

(* The state of connection i after find_unused_connection has closed it if *)
(* it outlived max_connection_life_time.                                   *)
Outlived(i) == /\ LifeTimeLimited
               /\ state[i] \notin {"DISCONNECTED", "DEFUNCT"}
               /\ aged[i]

(* Mutant: the maximum life time is not enforced. *)
FoundState_NeverOld(i) == state[i]

FoundState(i) == IF Outlived(i) THEN "DISCONNECTED" ELSE state[i]

-----------------------------------------------------------------------------
(* BoltDirectPool_create: no connection is open, none is in use. *)
Init ==
    /\ mutex = NoClient
    /\ agent = [i \in Index |-> "NULL"]
    /\ state = [i \in Index |-> "DISCONNECTED"]
    /\ aged = [i \in Index |-> FALSE]
    /\ in_use_count = 0
    /\ pc = [k \in Client |-> "idle"]
    /\ conn = [k \in Client |-> 0]
    /\ reply = [k \in Client |-> "NONE"]
    /\ timer = [k \in Client |-> 0]
    /\ waited = [k \in Client |-> 0]
    /\ nullReleases = 0
    /\ destroyed = FALSE

Goto(k, place) == pc' = [pc EXCEPT ![k] = place]

(* Mutant: the mutex stays locked. *)
Unlock_Missed == UNCHANGED mutex

(* BoltSync_mutex_unlock *)
Unlock == mutex' = NoClient

(* Mutant: release forgets to count down. *)
CountDown_Missed == UNCHANGED in_use_count

(* BoltAtomic_decrement(&pool->in_use_count) *)
CountDown == in_use_count' = in_use_count - 1

(* A client calls BoltDirectPool_acquire. *)
Acquire(k) ==
    /\ pc[k] = "idle"
    /\ ~destroyed
    /\ Goto(k, "acquiring")
    /\ reply' = [reply EXCEPT ![k] = "NONE"]
    /\ UNCHANGED <<mutex, poolVars, conn, timer, waited, nullReleases, destroyed>>

(* BoltSync_mutex_lock, or cond_timedwait taking the mutex back after a    *)
(* wake-up (the loop continues).                                           *)
Lock(k) ==
    /\ pc[k] \in {"acquiring", "woken"}
    /\ mutex = NoClient
    /\ mutex' = k
    /\ Goto(k, "attempting")
    /\ UNCHANGED <<poolVars, conn, reply, timer, waited, nullReleases, destroyed>>

(* One turn of the loop that finds a connection: it is brought up as its   *)
(* state requires and marked used on success, or its error is reported.    *)
TryConnection(k, i) ==
    /\ pc[k] = "attempting"
    /\ FindsUnused(i)
    /\ \E r \in PrepareResults(FoundState(i)) :
          /\ state' = [state EXCEPT ![i] = r.state]
          /\ aged' = [aged EXCEPT ![i] = @ /\ FoundState(i) \notin {"DISCONNECTED", "DEFUNCT"}]
          /\ reply' = [reply EXCEPT ![k] = r.error]
          /\ IF r.error = "SUCCESS"
             THEN /\ agent' = [agent EXCEPT ![i] = "USED"]
                  /\ conn' = [conn EXCEPT ![k] = i]
             ELSE UNCHANGED <<agent, conn>>
    /\ Goto(k, "returning")
    /\ UNCHANGED <<mutex, in_use_count, timer, waited, nullReleases, destroyed>>

(* One turn of the loop that finds none, with no acquisition time. *)
ReportFull(k) ==
    /\ pc[k] = "attempting"
    /\ FindsNone
    /\ AcquisitionTime = 0
    /\ reply' = [reply EXCEPT ![k] = "POOL_FULL"]
    /\ Goto(k, "returning")
    /\ UNCHANGED <<mutex, poolVars, conn, timer, waited, nullReleases, destroyed>>

(* One turn of the loop that finds none: wait for a release, for the whole *)
(* acquisition time whatever was waited before.                            *)
Park(k) ==
    /\ pc[k] = "attempting"
    /\ FindsNone
    /\ AcquisitionTime > 0
    /\ Unlock
    /\ Goto(k, "parked")
    /\ timer' = [timer EXCEPT ![k] = AcquisitionTime]
    /\ UNCHANGED <<poolVars, conn, reply, waited, nullReleases, destroyed>>

(* Mutant: the clock runs on after the time is up. *)
Tick_NoEnd(k) ==
    /\ pc[k] = "parked"
    /\ timer' = [timer EXCEPT ![k] = @ - 1]
    /\ waited' = [waited EXCEPT ![k] = IF @ < WaitedBound THEN @ + 1 ELSE @]
    /\ UNCHANGED <<mutex, poolVars, pc, conn, reply, nullReleases, destroyed>>

(* Time passes for a parked client. *)
Tick(k) ==
    /\ pc[k] = "parked"
    /\ timer[k] > 0
    /\ timer' = [timer EXCEPT ![k] = @ - 1]
    /\ waited' = [waited EXCEPT ![k] = IF @ < WaitedBound THEN @ + 1 ELSE @]
    /\ UNCHANGED <<mutex, poolVars, pc, conn, reply, nullReleases, destroyed>>

(* The timed wait runs out: released_cond no longer counts k as a waiter,  *)
(* which still has to take the mutex back.                                 *)
Expire(k) ==
    /\ pc[k] = "parked"
    /\ timer[k] = 0
    /\ Goto(k, "expired")
    /\ UNCHANGED <<mutex, poolVars, conn, reply, timer, waited, nullReleases, destroyed>>

(* POSIX lets a condition wait return 0 without a signal. *)
WakeSpuriously(k) ==
    /\ pc[k] = "parked"
    /\ Goto(k, "woken")
    /\ UNCHANGED <<mutex, poolVars, conn, reply, timer, waited, nullReleases, destroyed>>

(* The loop left with BOLT_POOL_ACQUISITION_TIMED_OUT: no second look at   *)
(* the connections.                                                        *)
GiveUp(k) ==
    /\ pc[k] = "expired"
    /\ mutex = NoClient
    /\ mutex' = k
    /\ reply' = [reply EXCEPT ![k] = "TIMED_OUT"]
    /\ Goto(k, "returning")
    /\ UNCHANGED <<poolVars, conn, timer, waited, nullReleases, destroyed>>

(* The end of BoltDirectPool_acquire. *)
Return(k) ==
    /\ pc[k] = "returning"
    /\ IF conn[k] # 0
       THEN /\ in_use_count' = in_use_count + 1
            /\ Goto(k, "holding")
       ELSE /\ Goto(k, "idle")
            /\ UNCHANGED in_use_count
    /\ Unlock
    /\ timer' = [timer EXCEPT ![k] = 0]
    /\ waited' = [waited EXCEPT ![k] = 0]
    /\ UNCHANGED <<agent, state, aged, conn, reply, nullReleases, destroyed>>

(* The client works with its connection: a server failure, a reset and a   *)
(* broken or misused connection change its state (see Connection).         *)
Use(k) ==
    /\ pc[k] = "holding"
    /\ \E s \in {"READY", "FAILED", "DEFUNCT"} :
          state' = [state EXCEPT ![conn[k]] = s]
    /\ UNCHANGED <<mutex, agent, aged, in_use_count, clientVars, nullReleases, destroyed>>

(* An open connection gets older than the maximum life time. *)
Age(i) ==
    /\ LifeTimeLimited
    /\ state[i] \in {"READY", "FAILED"}
    /\ ~aged[i]
    /\ aged' = [aged EXCEPT ![i] = TRUE]
    /\ UNCHANGED <<mutex, agent, state, in_use_count, clientVars, nullReleases, destroyed>>

(* A client calls BoltDirectPool_release with the connection it holds. *)
Release(k) ==
    /\ pc[k] = "holding"
    /\ Goto(k, "releasing")
    /\ UNCHANGED <<mutex, poolVars, conn, reply, timer, waited, nullReleases, destroyed>>

(* release: lock, find_connection, give the connection up. *)
ClearAgent(k) ==
    /\ pc[k] = "releasing"
    /\ mutex = NoClient
    /\ mutex' = k
    /\ agent' = [agent EXCEPT ![conn[k]] = "NULL"]
    /\ Goto(k, "resetting")
    /\ UNCHANGED <<state, aged, in_use_count, conn, reply, timer, waited, nullReleases, destroyed>>

(* release: reset_or_close *)
ResetOrClose(k) ==
    /\ pc[k] = "resetting"
    /\ \E s \in ResetOrCloseStates :
          /\ state' = [state EXCEPT ![conn[k]] = s]
          /\ aged' = [aged EXCEPT ![conn[k]] = @ /\ s = "READY"]
    /\ Goto(k, "signalling")
    /\ UNCHANGED <<mutex, agent, in_use_count, conn, reply, timer, waited, nullReleases, destroyed>>

Parked == {w \in Client : pc[w] = "parked"}

(* Mutant: nobody is signalled. *)
WakeOneAndLeave_NoSignal(k) == Goto(k, "idle")

(* BoltSync_cond_signal wakes one waiter if there is one; k leaves. *)
WakeOneAndLeave(k) ==
    \/ Parked = {} /\ Goto(k, "idle")
    \/ \E w \in Parked : pc' = [pc EXCEPT ![k] = "idle", ![w] = "woken"]

(* release: signal, count down, unlock. *)
Signal(k) ==
    /\ pc[k] = "signalling"
    /\ WakeOneAndLeave(k)
    /\ CountDown
    /\ conn' = [conn EXCEPT ![k] = 0]
    /\ Unlock
    /\ UNCHANGED <<agent, state, aged, reply, timer, waited, nullReleases, destroyed>>

(* release of the NULL that a failed acquire returned: no connection is    *)
(* found, nobody is signalled, and the count goes down all the same.       *)
ReleaseNull(k) ==
    /\ pc[k] = "idle"
    /\ reply[k] \notin {"NONE", "SUCCESS"}
    /\ ~destroyed
    /\ mutex = NoClient
    /\ nullReleases < MaxNullReleases
    /\ nullReleases' = nullReleases + 1
    /\ CountDown
    /\ reply' = [reply EXCEPT ![k] = "NONE"]
    /\ UNCHANGED <<mutex, agent, state, aged, pc, conn, timer, waited, destroyed>>

(* BoltDirectPool_destroy, which takes no lock: its caller must be the     *)
(* last user of the pool.  Every open connection is closed.                *)
Destroy ==
    /\ ~destroyed
    /\ \A k \in Client : pc[k] = "idle"
    /\ destroyed' = TRUE
    /\ state' = [i \in Index |-> "DISCONNECTED"]
    /\ UNCHANGED <<mutex, agent, aged, in_use_count, clientVars, nullReleases>>

(* After BoltDirectPool_destroy nothing is left to do. *)
Destroyed == destroyed /\ UNCHANGED vars

Attempt(k) == (\E i \in Index : TryConnection(k, i)) \/ ReportFull(k) \/ Park(k)

Step(k) ==
    \/ Acquire(k) \/ Lock(k) \/ Attempt(k)
    \/ Tick(k) \/ Expire(k) \/ WakeSpuriously(k) \/ GiveUp(k) \/ Return(k)
    \/ Use(k) \/ Release(k) \/ ClearAgent(k) \/ ResetOrClose(k) \/ Signal(k)
    \/ ReleaseNull(k)

Next == (\E k \in Client : Step(k)) \/ (\E i \in Index : Age(i))
        \/ Destroy \/ Destroyed

Spec == Init /\ [][Next]_vars

(* A thread inside the pool keeps running, time passes for a waiting one,  *)
(* and a network exchange ends (a peer that never answers is cut off by    *)
(* the receive timeout).  Strong fairness where the mutex is needed: a     *)
(* thread that waits for it is not passed over forever.  No client has to  *)
(* call acquire, to use its connection or to release it.                   *)
FairSpec ==
    /\ Spec
    /\ \A k \in Client :
          /\ WF_vars(Attempt(k) \/ Return(k) \/ ResetOrClose(k) \/ Signal(k) \/ Tick(k) \/ Expire(k))
          /\ SF_vars(Lock(k) \/ GiveUp(k) \/ ClearAgent(k))

-----------------------------------------------------------------------------
(* Properties *)

(* The type invariant. *)
TypeOK ==
    /\ mutex \in Client \cup {NoClient}
    /\ agent \in [Index -> {"NULL", "USED"}]
    /\ state \in [Index -> States]
    /\ aged \in [Index -> BOOLEAN]
    /\ in_use_count \in Int
    /\ pc \in [Client -> Places]
    /\ conn \in [Client -> Index \cup {0}]
    /\ reply \in [Client -> Replies]
    /\ timer \in [Client -> 0..AcquisitionTime]
    /\ waited \in [Client -> 0..WaitedBound]
    /\ nullReleases \in 0..MaxNullReleases
    /\ destroyed \in BOOLEAN

(* Client k has connection i on loan. *)
Leases(k, i) == conn[k] = i /\ pc[k] \in {"returning", "holding", "releasing"}

(* A connection marked used is on loan to exactly one client, and one that *)
(* is on loan is marked used: agent is what keeps acquire from handing the *)
(* same socket to two threads, even when in_use_count has drifted.         *)
ExclusiveLease ==
    /\ \A i \in Index : agent[i] = "USED" <=> \E k \in Client : Leases(k, i)
    /\ \A i \in Index : \A k, l \in Client :
          Leases(k, i) /\ Leases(l, i) => k = l

(* What the thread inside the critical section has not counted yet: acquire *)
(* marks a connection used before it counts it, release counts it down     *)
(* after the reset.                                                        *)
Uncounted ==
    IF mutex = NoClient THEN 0
    ELSE IF pc[mutex] \in {"resetting", "signalling"} THEN -1
    ELSE IF pc[mutex] = "returning" /\ conn[mutex] # 0 THEN 1
    ELSE 0

(* in_use_count, which the routing pool reads without the mutex to choose  *)
(* and to destroy pools, is the number of leased connections up to the     *)
(* step in progress, less one for every release of NULL.                   *)
CountMatches ==
    in_use_count = Cardinality(Leased) - Uncounted - nullReleases

(* Between two critical sections no idle connection is left CONNECTED or   *)
(* FAILED: the two cases that acquire says "should rarely, if ever, be     *)
(* encountered" are never met.                                             *)
IdleConnectionsReusable ==
    mutex = NoClient =>
        \A i \in Free : state[i] \in {"DISCONNECTED", "READY", "DEFUNCT"}

(* acquire refuses or parks a caller for a full pool only when every       *)
(* connection is on loan, also after in_use_count has drifted.             *)
FullOnlyWhenAllLeased ==
    [][\A k \in Client :
          pc[k] = "attempting" /\ (pc'[k] = "parked" \/ reply'[k] = "POOL_FULL")
             => Free = {}]_vars

(* acquire hands out READY connections only, and none that was open for    *)
(* longer than max_connection_life_time when it looked.                    *)
HandsOutLive ==
    [][\A i \in Index : agent[i] = "NULL" /\ agent'[i] = "USED"
          => state'[i] = "READY" /\ ~aged'[i]]_vars

(* A caller parked in cond_timedwait has no free connection beside it that *)
(* nobody woken is on the way to: release signals one waiter for every     *)
(* connection it frees.  True as long as a found connection can be opened. *)
NoLostWakeup ==
    mutex = NoClient /\ Parked # {} =>
        Cardinality(Free) <= Cardinality({k \in Client : pc[k] = "woken"})

(* An acquire waits for max_connection_acquisition_time at most. *)
WaitBounded == \A k \in Client : waited[k] <= AcquisitionTime

(* With the mutex free, in_use_count is the number of connections in use. *)
InUseExact == mutex = NoClient => in_use_count = Cardinality(Leased)

(* No caller is stuck on the mutex: an acquire is answered or gets to wait *)
(* for a release, a wait ends, and a release returns.                      *)
CallsProgress ==
    \A k \in Client :
        /\ pc[k] \in {"acquiring", "woken"} ~> pc[k] \in {"idle", "holding", "parked"}
        /\ pc[k] = "parked" ~> pc[k] \in {"idle", "woken"}
        /\ pc[k] = "releasing" ~> pc[k] = "idle"

(* The pool implements LeasePool: a lease begins when acquire marks the    *)
(* connection and ends when release clears the mark.                       *)
LeaseHolder(i) == IF \E k \in Client : Leases(k, i)
                  THEN CHOOSE k \in Client : Leases(k, i)
                  ELSE NoClient
Abstract == INSTANCE LeasePool WITH
                Conn <- Index,
                lease <- [i \in Index |-> LeaseHolder(i)],
                answer <- reply
ImplementsLeasePool == Abstract!Spec
=============================================================================
