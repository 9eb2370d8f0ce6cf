------------------------- MODULE RoutingPoolProofs -------------------------
(***************************************************************************)
(* Proofs about RoutingPool, for every finite set of clients, every set of *)
(* addresses and of router answers, every pool size and both kinds of      *)
(* read-write lock.                                                        *)
(***************************************************************************)
EXTENDS RoutingPool, FiniteSetTheorems, TLAPS

-----------------------------------------------------------------------------
(* The inductive invariant *)

(* A client inside a section under the read lock holds it. *)
Reading ==
    \A k \in Client :
        pc[k] \in {"checking", "selecting", "ensuring", "leasing", "releasing"}
            => k \in readers

(* The locals of an acquire: a server once it is selected, the index of a  *)
(* pool once it is found or created.                                       *)
LocalsKept ==
    \A k \in Client :
        /\ pc[k] \in {"ensuring", "create"} => server[k] \in Addr
        /\ pc[k] \in {"created", "leasing"} => index[k] # 0

(* Only a client between acquire and the end of release has a connection. *)
HoldersOnly ==
    \A k \in Client :
        held[k] # NoAddr => pc[k] \in {"holding", "forget", "release", "releasing", "astray"}

RoutingInv ==
    /\ TypeOK
    /\ NoDuplicatePool
    /\ LocalsKept
    /\ HoldersOnly
    /\ LeasesCounted
    /\ Reading
    /\ SelectsFromTable

-----------------------------------------------------------------------------
(* Lemmas about the address set *)

(* In a set without duplicates BoltAddressSet_index_of returns the one     *)
(* position of the address.                                                *)
LEMMA IndexOfIsThePosition ==
    ASSUME NEW set \in Seq(Addr), NEW a,
           \A i, j \in 1..Len(set) : set[i] = set[j] => i = j
    PROVE  /\ IndexOf(set, a) \in 0..Len(set)
           /\ IndexOf(set, a) # 0 => set[IndexOf(set, a)] = a
           /\ \A i \in 1..Len(set) : set[i] = a => IndexOf(set, a) = i
  <1>1. CASE \E i \in 1..Len(set) : set[i] = a
    <2>1. PICK i \in 1..Len(set) : set[i] = a
      BY <1>1
    <2>2. \A j \in 1..(i - 1) : set[j] # a
      BY <2>1
    <2>3. /\ IndexOf(set, a) \in 1..Len(set)
          /\ set[IndexOf(set, a)] = a
      BY <1>1, <2>1, <2>2 DEF IndexOf
    <2> QED BY <2>3
  <1>2. CASE ~ \E i \in 1..Len(set) : set[i] = a
    BY <1>2 DEF IndexOf
  <1> QED BY <1>1, <1>2

(* What BoltRoutingPool_cleanup does to the two arrays: every old position *)
(* that remains has a new one, and only those, and no two new positions    *)
(* come from one old position.                                             *)
LEMMA CleanupMoves ==
    ASSUME TypeOK, NEW t \in Tables, Cleanup(t)
    PROVE  \E len \in Nat : \E from \in [1..len -> Remaining(t)] :
              /\ servers' = [n \in 1..len |-> servers[from[n]]]
              /\ in_use' = [n \in 1..len |-> in_use[from[n]]]
              /\ \A m, n \in 1..len : from[m] = from[n] => m = n
              /\ \A i \in Remaining(t) : \E n \in 1..len : from[n] = i
  <1> DEFINE len == Cardinality(Remaining(t))
  <1>1. Remaining(t) \subseteq 1..Len(servers) /\ Len(servers) \in Nat
    BY DEF Remaining, TypeOK
  <1>2. len \in Nat
    <2>1. IsFiniteSet(1..Len(servers))
      BY <1>1, FS_Interval
    <2>2. IsFiniteSet(Remaining(t))
      BY <1>1, <2>1, FS_Subset
    <2> QED BY <2>2, FS_CardinalityType
  <1>3. PICK from \in Upwards(Remaining(t)) :
          /\ servers' = [n \in DOMAIN from |-> servers[from[n]]]
          /\ in_use' = [n \in DOMAIN from |-> in_use[from[n]]]
    BY DEF Cleanup
  <1>4. /\ from \in [1..len -> Remaining(t)]
        /\ \A m, n \in 1..len : m < n => from[m] < from[n]
        /\ \A i \in Remaining(t) : \E n \in 1..len : from[n] = i
    BY <1>3 DEF Upwards
  <1>5. \A m, n \in 1..len : from[m] = from[n] => m = n
    <2> SUFFICES ASSUME NEW m \in 1..len, NEW n \in 1..len, from[m] = from[n]
                 PROVE  m = n
      OBVIOUS
    <2>1. from[m] \in Int /\ from[n] \in Int
      BY <1>1, <1>4
    <2>2. ~(m < n) /\ ~(n < m)
      BY <1>4, <2>1
    <2> QED BY <1>2, <2>2
  <1>6. DOMAIN from = 1..len
    BY <1>4
  <1> HIDE DEF len
  <1> QED BY <1>2, <1>3, <1>4, <1>5, <1>6

-----------------------------------------------------------------------------
(* Type correctness *)

(* The variables keep their types.  That no in_use_count gets negative     *)
(* rests on the counts being exact.                                        *)
LEMMA TypeStep == TypeOK /\ NoDuplicatePool /\ LocalsKept /\ LeasesCounted /\ [Next]_vars => TypeOK'
  <1> SUFFICES ASSUME TypeOK, NoDuplicatePool, LocalsKept, LeasesCounted, [Next]_vars PROVE TypeOK'
    OBVIOUS
  <1> USE SizeAssumption DEF TypeOK, tableVars, poolVars, clientVars, Goto, ReadLock,
          ReadUnlock, Places
  <1>1. ASSUME NEW k \in Client, NEW m \in Modes, Acquire(k, m) PROVE TypeOK'
    BY <1>1 DEF Acquire
  <1>2. ASSUME NEW k \in Client, Enter(k) PROVE TypeOK'
    BY <1>2 DEF Enter
  <1>3. ASSUME NEW k \in Client, LeaveToRefresh(k) PROVE TypeOK'
    BY <1>3 DEF LeaveToRefresh
  <1>4. ASSUME NEW k \in Client, TableIsGood(k) PROVE TypeOK'
    BY <1>4 DEF TableIsGood
  <1>5. ASSUME NEW k \in Client, SelectServer(k) PROVE TypeOK'
    <2>1. PICK a \in table[mode[k]] : server' = [server EXCEPT ![k] = a]
      BY <1>5 DEF SelectServer
    <2>2. a \in Addr
      BY <2>1 DEF Tables, Modes
    <2> QED BY <1>5, <2>1, <2>2 DEF SelectServer
  <1>6. ASSUME NEW k \in Client, RefreshUnneeded(k) PROVE TypeOK'
    BY <1>6 DEF RefreshUnneeded, Exclusive
  <1>7. ASSUME NEW k \in Client, Refresh(k) PROVE TypeOK'
    <2>1. PICK t \in Responses : table' = t /\ Cleanup(t)
      BY <1>7 DEF Refresh
    <2>2. t \in Tables
      BY ResponsesAssumption
    <2>3. PICK len \in Nat : \E f \in [1..len -> Remaining(t)] :
              /\ servers' = [n \in 1..len |-> servers[f[n]]]
              /\ in_use' = [n \in 1..len |-> in_use[f[n]]]
              /\ \A m, n \in 1..len : f[m] = f[n] => m = n
              /\ \A i \in Remaining(t) : \E n \in 1..len : f[n] = i
      BY <2>1, <2>2, CleanupMoves
    <2>4. PICK from \in [1..len -> Remaining(t)] :
              /\ servers' = [n \in 1..len |-> servers[from[n]]]
              /\ in_use' = [n \in 1..len |-> in_use[from[n]]]
              /\ \A m, n \in 1..len : from[m] = from[n] => m = n
              /\ \A i \in Remaining(t) : \E n \in 1..len : from[n] = i
      BY <2>3
    <2>5. \A n \in 1..len : from[n] \in 1..Len(servers)
      BY <2>4 DEF Remaining
    <2>6. servers' \in Seq(Addr) /\ in_use' \in Seq(0..PoolSize) /\ Len(in_use') = Len(servers')
      BY <2>4, <2>5
    <2> QED BY <1>7, <2>1, <2>2, <2>6 DEF Refresh, Exclusive
  <1>8. ASSUME NEW k \in Client, RefreshFails(k) PROVE TypeOK'
    BY <1>8 DEF RefreshFails, Exclusive
  <1>9. ASSUME NEW k \in Client, Leave(k) PROVE TypeOK'
    BY <1>9 DEF Leave
  <1>10. ASSUME NEW k \in Client, FindPool(k) PROVE TypeOK'
    <2>1. /\ IndexOf(servers, server[k]) \in 0..Len(servers)
          /\ IndexOf(servers, server[k]) # 0 => servers[IndexOf(servers, server[k])] = server[k]
          /\ \A i \in 1..Len(servers) : servers[i] = server[k] => IndexOf(servers, server[k]) = i
      BY IndexOfIsThePosition DEF TypeOK, NoDuplicatePool
    <2> QED BY <1>10, <2>1 DEF FindPool
  <1>11. ASSUME NEW k \in Client, LeaveToCreate(k) PROVE TypeOK'
    BY <1>11 DEF LeaveToCreate
  <1>12. ASSUME NEW k \in Client, Create(k) PROVE TypeOK'
    <2>1. /\ IndexOf(servers, server[k]) \in 0..Len(servers)
          /\ IndexOf(servers, server[k]) # 0 => servers[IndexOf(servers, server[k])] = server[k]
          /\ \A i \in 1..Len(servers) : servers[i] = server[k] => IndexOf(servers, server[k]) = i
      BY IndexOfIsThePosition DEF TypeOK, NoDuplicatePool
    <2>2. server[k] \in Addr
      BY <1>12 DEF Create, LocalsKept
    <2>3. CASE IndexOf(servers, server[k]) = 0
      <3>1. /\ servers' = Append(servers, server[k])
            /\ in_use' = Append(in_use, 0)
            /\ index' = [index EXCEPT ![k] = Len(servers) + 1]
        BY <1>12, <2>3 DEF Create, AddServer
      <3>2. servers' \in Seq(Addr) /\ Len(servers') = Len(servers) + 1
        BY <2>2, <3>1
      <3>3. in_use' \in Seq(0..PoolSize) /\ Len(in_use') = Len(in_use) + 1
        BY <3>1
      <3>4. index' \in [Client -> Nat]
        BY <3>1
      <3> QED BY <1>12, <3>2, <3>3, <3>4 DEF Create, Exclusive
    <2>4. CASE IndexOf(servers, server[k]) # 0
      BY <1>12, <2>1, <2>4 DEF Create, AddServer, Exclusive
    <2> QED BY <2>3, <2>4
  <1>13. ASSUME NEW k \in Client, ReturnFromCreate(k) PROVE TypeOK'
    BY <1>13 DEF ReturnFromCreate
  <1>14. ASSUME NEW k \in Client, Lease(k) PROVE TypeOK'
    <2>1. index[k] \in 1..Len(in_use) /\ in_use[index[k]] \in 0..(PoolSize - 1)
      BY <1>14 DEF Lease, LocalsKept
    <2>2. in_use' \in Seq(0..PoolSize) /\ Len(in_use') = Len(in_use)
      BY <1>14, <2>1 DEF Lease, CountUp
    <2>3. held' \in [Client -> Addr \cup {NoAddr}]
      BY <1>14, <2>1 DEF Lease
    <2> QED BY <1>14, <2>2, <2>3 DEF Lease, Forgotten
  <1>15. ASSUME NEW k \in Client, Refuse(k) PROVE TypeOK'
    BY <1>15 DEF Refuse, Forgotten
  <1>16. ASSUME NEW k \in Client, GoAstray(k) PROVE TypeOK'
    BY <1>16 DEF GoAstray
  <1>17. ASSUME NEW k \in Client, ForgetServer(k) PROVE TypeOK'
    <2>1. table' \in Tables
      BY <1>17 DEF ForgetServer, Tables
    <2> QED BY <1>17, <2>1 DEF ForgetServer, Exclusive
  <1>18. ASSUME NEW k \in Client, ForgetWriter(k) PROVE TypeOK'
    <2>1. table' \in Tables
      BY <1>18 DEF ForgetWriter, Tables
    <2> QED BY <1>18, <2>1 DEF ForgetWriter, Exclusive
  <1>19. ASSUME NEW k \in Client, EnterRelease(k) PROVE TypeOK'
    BY <1>19 DEF EnterRelease
  <1>20. ASSUME NEW k \in Client, GiveBack(k) PROVE TypeOK'
    <2>1. /\ IndexOf(servers, held[k]) \in 0..Len(servers)
          /\ IndexOf(servers, held[k]) # 0 => servers[IndexOf(servers, held[k])] = held[k]
          /\ \A i \in 1..Len(servers) : servers[i] = held[k] => IndexOf(servers, held[k]) = i
      BY IndexOfIsThePosition DEF TypeOK, NoDuplicatePool
    <2>2. IndexOf(servers, held[k]) # 0 => in_use[IndexOf(servers, held[k])] \in 1..PoolSize
      <3> SUFFICES ASSUME IndexOf(servers, held[k]) # 0
                   PROVE  in_use[IndexOf(servers, held[k])] # 0
        BY <2>1
      <3> DEFINE H == Holders(servers[IndexOf(servers, held[k])])
      <3>1. k \in H /\ IsFiniteSet(H)
        BY <2>1, ClientAssumption, FS_Subset DEF Holders
      <3>2. Cardinality(H) # 0
        BY <3>1, FS_EmptySet
      <3> QED BY <2>1, <3>2 DEF LeasesCounted
    <2>3. in_use' \in Seq(0..PoolSize) /\ Len(in_use') = Len(in_use)
      <3>1. CASE IndexOf(servers, held[k]) = 0
        BY <1>20, <3>1 DEF GiveBack
      <3>2. CASE IndexOf(servers, held[k]) # 0
        <4> DEFINE i == IndexOf(servers, held[k])
        <4>1. i \in 1..Len(in_use) /\ in_use[i] - 1 \in 0..PoolSize
          BY <2>1, <2>2, <3>2
        <4>2. in_use' = [in_use EXCEPT ![i] = in_use[i] - 1]
          BY <1>20, <3>2 DEF GiveBack
        <4> HIDE DEF i
        <4> QED BY <4>1, <4>2
      <3> QED BY <3>1, <3>2
    <2> QED BY <1>20, <2>3 DEF GiveBack
  <1>21. ASSUME NEW k \in Client, Fail(k) PROVE TypeOK'
    BY <1>21 DEF Fail
  <1>22. ASSUME NEW k \in Client, Release(k) PROVE TypeOK'
    BY <1>22 DEF Release
  <1>23. ASSUME ExpireTable PROVE TypeOK'
    BY <1>23 DEF ExpireTable
  <1>24. ASSUME Destroy PROVE TypeOK'
    BY <1>24 DEF Destroy
  <1>25. ASSUME UNCHANGED vars PROVE TypeOK'
    BY <1>25 DEF vars, lockVars
  <1> QED BY <1>1, <1>2, <1>3, <1>4, <1>5, <1>6, <1>7, <1>8, <1>9, <1>10,
       <1>11, <1>12, <1>13, <1>14, <1>15, <1>16, <1>17, <1>18, <1>19, <1>20,
       <1>21, <1>22, <1>23, <1>24, <1>25 DEF Next, Call, Inside, Gone
-----------------------------------------------------------------------------
(* The steps that touch the pools and the connections *)

(* Only a refresh, the creation of a pool and the destruction of the whole *)
(* change the address set; only they and lease and release move a          *)
(* connection or a count.                                                  *)
LEMMA PoolsMove ==
    ASSUME [Next]_vars
    PROVE  \/ UNCHANGED <<servers, in_use, held>>
           \/ \E k \in Client : \/ Refresh(k) \/ Create(k)
                                \/ Lease(k) \/ GiveBack(k)
           \/ Destroy
  <1> USE DEF poolVars, clientVars
  <1>1. ASSUME NEW k \in Client, Call(k) PROVE UNCHANGED <<servers, in_use, held>>
    BY <1>1 DEF Call, Acquire, Fail, Release
  <1>2. ASSUME NEW k \in Client, Inside(k)
        PROVE  \/ UNCHANGED <<servers, in_use, held>>
               \/ Refresh(k) \/ Create(k) \/ Lease(k) \/ GiveBack(k)
    BY <1>2 DEF Inside, Enter, LeaveToRefresh, TableIsGood, SelectServer,
       RefreshUnneeded, RefreshFails, Leave, FindPool, LeaveToCreate,
       ReturnFromCreate, Refuse, GoAstray, ForgetServer, ForgetWriter, EnterRelease
  <1>3. ASSUME ExpireTable PROVE UNCHANGED <<servers, in_use, held>>
    BY <1>3 DEF ExpireTable
  <1>4. ASSUME UNCHANGED vars PROVE UNCHANGED <<servers, in_use, held>>
    BY <1>4 DEF vars
  <1> QED BY <1>1, <1>2, <1>3, <1>4 DEF Next, Gone

(* Whoever works under the read lock has it, because the write lock is     *)
(* granted only when nobody reads.                                         *)
LEMMA ReadingStep == TypeOK /\ Reading /\ [Next]_vars => Reading'
  <1> SUFFICES ASSUME TypeOK, Reading, [Next]_vars PROVE Reading'
    OBVIOUS
  <1> USE DEF TypeOK, Reading, Goto, ReadLock, ReadUnlock, Exclusive,
          clientVars
  <1>1. ASSUME NEW k \in Client, NEW m \in Modes, Acquire(k, m) PROVE Reading'
    BY <1>1 DEF Acquire
  <1>2. ASSUME NEW k \in Client, Enter(k) PROVE Reading'
    BY <1>2 DEF Enter
  <1>3. ASSUME NEW k \in Client, LeaveToRefresh(k) PROVE Reading'
    BY <1>3 DEF LeaveToRefresh
  <1>4. ASSUME NEW k \in Client, TableIsGood(k) PROVE Reading'
    BY <1>4 DEF TableIsGood
  <1>5. ASSUME NEW k \in Client, SelectServer(k) PROVE Reading'
    BY <1>5 DEF SelectServer
  <1>6. ASSUME NEW k \in Client, RefreshUnneeded(k) PROVE Reading'
    BY <1>6 DEF RefreshUnneeded
  <1>7. ASSUME NEW k \in Client, Refresh(k) PROVE Reading'
    BY <1>7 DEF Refresh
  <1>8. ASSUME NEW k \in Client, RefreshFails(k) PROVE Reading'
    BY <1>8 DEF RefreshFails
  <1>9. ASSUME NEW k \in Client, Leave(k) PROVE Reading'
    BY <1>9 DEF Leave
  <1>10. ASSUME NEW k \in Client, FindPool(k) PROVE Reading'
    BY <1>10 DEF FindPool
  <1>11. ASSUME NEW k \in Client, LeaveToCreate(k) PROVE Reading'
    BY <1>11 DEF LeaveToCreate
  <1>12. ASSUME NEW k \in Client, Create(k) PROVE Reading'
    BY <1>12 DEF Create
  <1>13. ASSUME NEW k \in Client, ReturnFromCreate(k) PROVE Reading'
    BY <1>13 DEF ReturnFromCreate
  <1>14. ASSUME NEW k \in Client, Lease(k) PROVE Reading'
    BY <1>14 DEF Lease
  <1>15. ASSUME NEW k \in Client, Refuse(k) PROVE Reading'
    BY <1>15 DEF Refuse
  <1>16. ASSUME NEW k \in Client, GoAstray(k) PROVE Reading'
    BY <1>16 DEF GoAstray
  <1>17. ASSUME NEW k \in Client, ForgetServer(k) PROVE Reading'
    BY <1>17 DEF ForgetServer
  <1>18. ASSUME NEW k \in Client, ForgetWriter(k) PROVE Reading'
    BY <1>18 DEF ForgetWriter
  <1>19. ASSUME NEW k \in Client, EnterRelease(k) PROVE Reading'
    BY <1>19 DEF EnterRelease
  <1>20. ASSUME NEW k \in Client, GiveBack(k) PROVE Reading'
    BY <1>20 DEF GiveBack
  <1>21. ASSUME NEW k \in Client, Fail(k) PROVE Reading'
    BY <1>21 DEF Fail
  <1>22. ASSUME NEW k \in Client, Release(k) PROVE Reading'
    BY <1>22 DEF Release
  <1>23. ASSUME ExpireTable PROVE Reading'
    BY <1>23 DEF ExpireTable
  <1>24. ASSUME Destroy PROVE Reading'
    BY <1>24 DEF Destroy
  <1>25. ASSUME UNCHANGED vars PROVE Reading'
    BY <1>25 DEF vars, lockVars
  <1> QED BY <1>1, <1>2, <1>3, <1>4, <1>5, <1>6, <1>7, <1>8, <1>9, <1>10,
       <1>11, <1>12, <1>13, <1>14, <1>15, <1>16, <1>17, <1>18, <1>19, <1>20,
       <1>21, <1>22, <1>23, <1>24, <1>25 DEF Next, Call, Inside, Gone

(* The locals of an acquire are set when they are used. *)
LEMMA LocalsStep ==
    TypeOK /\ NoDuplicatePool /\ LocalsKept /\ [Next]_vars => LocalsKept'
  <1> SUFFICES ASSUME TypeOK, NoDuplicatePool, LocalsKept, [Next]_vars PROVE LocalsKept'
    OBVIOUS
  <1> USE DEF TypeOK, LocalsKept, Goto, clientVars
  <1>1. ASSUME NEW k \in Client, NEW m \in Modes, Acquire(k, m) PROVE LocalsKept'
    BY <1>1 DEF Acquire
  <1>2. ASSUME NEW k \in Client, Enter(k) PROVE LocalsKept'
    BY <1>2 DEF Enter
  <1>3. ASSUME NEW k \in Client, LeaveToRefresh(k) PROVE LocalsKept'
    BY <1>3 DEF LeaveToRefresh
  <1>4. ASSUME NEW k \in Client, TableIsGood(k) PROVE LocalsKept'
    BY <1>4 DEF TableIsGood
  <1>5. ASSUME NEW k \in Client, SelectServer(k) PROVE LocalsKept'
    <2>1. PICK a \in table[mode[k]] : server' = [server EXCEPT ![k] = a]
      BY <1>5 DEF SelectServer
    <2>2. a \in Addr
      BY <2>1 DEF Tables, Modes
    <2> QED BY <1>5, <2>1, <2>2 DEF SelectServer
  <1>6. ASSUME NEW k \in Client, RefreshUnneeded(k) PROVE LocalsKept'
    BY <1>6 DEF RefreshUnneeded
  <1>7. ASSUME NEW k \in Client, Refresh(k) PROVE LocalsKept'
    BY <1>7 DEF Refresh
  <1>8. ASSUME NEW k \in Client, RefreshFails(k) PROVE LocalsKept'
    BY <1>8 DEF RefreshFails
  <1>9. ASSUME NEW k \in Client, Leave(k) PROVE LocalsKept'
    BY <1>9 DEF Leave
  <1>10. ASSUME NEW k \in Client, FindPool(k) PROVE LocalsKept'
    BY <1>10 DEF FindPool
  <1>11. ASSUME NEW k \in Client, LeaveToCreate(k) PROVE LocalsKept'
    BY <1>11 DEF LeaveToCreate
  <1>12. ASSUME NEW k \in Client, Create(k) PROVE LocalsKept'
    <2>1. IndexOf(servers, server[k]) \in 0..Len(servers)
      BY IndexOfIsThePosition DEF NoDuplicatePool
    <2>2. index' = [index EXCEPT ![k] = IF IndexOf(servers, server[k]) = 0
                                        THEN Len(servers) + 1
                                        ELSE IndexOf(servers, server[k])]
      BY <1>12 DEF Create, AddServer
    <2> QED BY <1>12, <2>1, <2>2 DEF Create
  <1>13. ASSUME NEW k \in Client, ReturnFromCreate(k) PROVE LocalsKept'
    BY <1>13 DEF ReturnFromCreate
  <1>14. ASSUME NEW k \in Client, Lease(k) PROVE LocalsKept'
    BY <1>14 DEF Lease, Forgotten
  <1>15. ASSUME NEW k \in Client, Refuse(k) PROVE LocalsKept'
    BY <1>15 DEF Refuse, Forgotten
  <1>16. ASSUME NEW k \in Client, GoAstray(k) PROVE LocalsKept'
    BY <1>16 DEF GoAstray
  <1>17. ASSUME NEW k \in Client, ForgetServer(k) PROVE LocalsKept'
    BY <1>17 DEF ForgetServer
  <1>18. ASSUME NEW k \in Client, ForgetWriter(k) PROVE LocalsKept'
    BY <1>18 DEF ForgetWriter
  <1>19. ASSUME NEW k \in Client, EnterRelease(k) PROVE LocalsKept'
    BY <1>19 DEF EnterRelease
  <1>20. ASSUME NEW k \in Client, GiveBack(k) PROVE LocalsKept'
    BY <1>20 DEF GiveBack
  <1>21. ASSUME NEW k \in Client, Fail(k) PROVE LocalsKept'
    BY <1>21 DEF Fail
  <1>22. ASSUME NEW k \in Client, Release(k) PROVE LocalsKept'
    BY <1>22 DEF Release
  <1>23. ASSUME ExpireTable PROVE LocalsKept'
    BY <1>23 DEF ExpireTable
  <1>24. ASSUME Destroy PROVE LocalsKept'
    BY <1>24 DEF Destroy
  <1>25. ASSUME UNCHANGED vars PROVE LocalsKept'
    BY <1>25 DEF vars
  <1> QED BY <1>1, <1>2, <1>3, <1>4, <1>5, <1>6, <1>7, <1>8, <1>9, <1>10,
       <1>11, <1>12, <1>13, <1>14, <1>15, <1>16, <1>17, <1>18, <1>19, <1>20,
       <1>21, <1>22, <1>23, <1>24, <1>25 DEF Next, Call, Inside, Gone

(* A client has a connection only from lease to release. *)
LEMMA HoldersStep == TypeOK /\ HoldersOnly /\ [Next]_vars => HoldersOnly'
  <1> SUFFICES ASSUME TypeOK, HoldersOnly, [Next]_vars PROVE HoldersOnly'
    OBVIOUS
  <1> USE DEF TypeOK, HoldersOnly, Goto, clientVars
  <1>1. ASSUME NEW k \in Client, NEW m \in Modes, Acquire(k, m) PROVE HoldersOnly'
    BY <1>1 DEF Acquire
  <1>2. ASSUME NEW k \in Client, Enter(k) PROVE HoldersOnly'
    BY <1>2 DEF Enter
  <1>3. ASSUME NEW k \in Client, LeaveToRefresh(k) PROVE HoldersOnly'
    BY <1>3 DEF LeaveToRefresh
  <1>4. ASSUME NEW k \in Client, TableIsGood(k) PROVE HoldersOnly'
    BY <1>4 DEF TableIsGood
  <1>5. ASSUME NEW k \in Client, SelectServer(k) PROVE HoldersOnly'
    BY <1>5 DEF SelectServer
  <1>6. ASSUME NEW k \in Client, RefreshUnneeded(k) PROVE HoldersOnly'
    BY <1>6 DEF RefreshUnneeded
  <1>7. ASSUME NEW k \in Client, Refresh(k) PROVE HoldersOnly'
    BY <1>7 DEF Refresh
  <1>8. ASSUME NEW k \in Client, RefreshFails(k) PROVE HoldersOnly'
    BY <1>8 DEF RefreshFails
  <1>9. ASSUME NEW k \in Client, Leave(k) PROVE HoldersOnly'
    BY <1>9 DEF Leave
  <1>10. ASSUME NEW k \in Client, FindPool(k) PROVE HoldersOnly'
    BY <1>10 DEF FindPool
  <1>11. ASSUME NEW k \in Client, LeaveToCreate(k) PROVE HoldersOnly'
    BY <1>11 DEF LeaveToCreate
  <1>12. ASSUME NEW k \in Client, Create(k) PROVE HoldersOnly'
    BY <1>12 DEF Create
  <1>13. ASSUME NEW k \in Client, ReturnFromCreate(k) PROVE HoldersOnly'
    BY <1>13 DEF ReturnFromCreate
  <1>14. ASSUME NEW k \in Client, Lease(k) PROVE HoldersOnly'
    BY <1>14 DEF Lease
  <1>15. ASSUME NEW k \in Client, Refuse(k) PROVE HoldersOnly'
    BY <1>15 DEF Refuse
  <1>16. ASSUME NEW k \in Client, GoAstray(k) PROVE HoldersOnly'
    BY <1>16 DEF GoAstray
  <1>17. ASSUME NEW k \in Client, ForgetServer(k) PROVE HoldersOnly'
    BY <1>17 DEF ForgetServer
  <1>18. ASSUME NEW k \in Client, ForgetWriter(k) PROVE HoldersOnly'
    BY <1>18 DEF ForgetWriter
  <1>19. ASSUME NEW k \in Client, EnterRelease(k) PROVE HoldersOnly'
    BY <1>19 DEF EnterRelease
  <1>20. ASSUME NEW k \in Client, GiveBack(k) PROVE HoldersOnly'
    BY <1>20 DEF GiveBack
  <1>21. ASSUME NEW k \in Client, Fail(k) PROVE HoldersOnly'
    BY <1>21 DEF Fail
  <1>22. ASSUME NEW k \in Client, Release(k) PROVE HoldersOnly'
    BY <1>22 DEF Release
  <1>23. ASSUME ExpireTable PROVE HoldersOnly'
    BY <1>23 DEF ExpireTable
  <1>24. ASSUME Destroy PROVE HoldersOnly'
    BY <1>24 DEF Destroy
  <1>25. ASSUME UNCHANGED vars PROVE HoldersOnly'
    BY <1>25 DEF vars
  <1> QED BY <1>1, <1>2, <1>3, <1>4, <1>5, <1>6, <1>7, <1>8, <1>9, <1>10,
       <1>11, <1>12, <1>13, <1>14, <1>15, <1>16, <1>17, <1>18, <1>19, <1>20,
       <1>21, <1>22, <1>23, <1>24, <1>25 DEF Next, Call, Inside, Gone

(* The table loses servers only under the write lock, when nobody selects. *)
LEMMA SelectsStep ==
    TypeOK /\ Reading /\ SelectsFromTable /\ [Next]_vars => SelectsFromTable'
  <1> SUFFICES ASSUME TypeOK, Reading, SelectsFromTable, [Next]_vars PROVE SelectsFromTable'
    OBVIOUS
  <1> USE DEF TypeOK, SelectsFromTable, Goto, tableVars, clientVars
  <1>1. ASSUME NEW k \in Client, NEW m \in Modes, Acquire(k, m) PROVE SelectsFromTable'
    BY <1>1 DEF Acquire
  <1>2. ASSUME NEW k \in Client, Enter(k) PROVE SelectsFromTable'
    BY <1>2 DEF Enter
  <1>3. ASSUME NEW k \in Client, LeaveToRefresh(k) PROVE SelectsFromTable'
    BY <1>3 DEF LeaveToRefresh
  <1>4. ASSUME NEW k \in Client, TableIsGood(k) PROVE SelectsFromTable'
    BY <1>4 DEF TableIsGood, IsExpired, Modes, Tables
  <1>5. ASSUME NEW k \in Client, SelectServer(k) PROVE SelectsFromTable'
    BY <1>5 DEF SelectServer
  <1>6. ASSUME NEW k \in Client, RefreshUnneeded(k) PROVE SelectsFromTable'
    BY <1>6 DEF RefreshUnneeded
  <1>7. ASSUME NEW k \in Client, Refresh(k) PROVE SelectsFromTable'
    BY <1>7 DEF Refresh, Exclusive, Reading
  <1>8. ASSUME NEW k \in Client, RefreshFails(k) PROVE SelectsFromTable'
    BY <1>8 DEF RefreshFails
  <1>9. ASSUME NEW k \in Client, Leave(k) PROVE SelectsFromTable'
    BY <1>9 DEF Leave
  <1>10. ASSUME NEW k \in Client, FindPool(k) PROVE SelectsFromTable'
    BY <1>10 DEF FindPool
  <1>11. ASSUME NEW k \in Client, LeaveToCreate(k) PROVE SelectsFromTable'
    BY <1>11 DEF LeaveToCreate
  <1>12. ASSUME NEW k \in Client, Create(k) PROVE SelectsFromTable'
    BY <1>12 DEF Create
  <1>13. ASSUME NEW k \in Client, ReturnFromCreate(k) PROVE SelectsFromTable'
    BY <1>13 DEF ReturnFromCreate
  <1>14. ASSUME NEW k \in Client, Lease(k) PROVE SelectsFromTable'
    BY <1>14 DEF Lease
  <1>15. ASSUME NEW k \in Client, Refuse(k) PROVE SelectsFromTable'
    BY <1>15 DEF Refuse
  <1>16. ASSUME NEW k \in Client, GoAstray(k) PROVE SelectsFromTable'
    BY <1>16 DEF GoAstray
  <1>17. ASSUME NEW k \in Client, ForgetServer(k) PROVE SelectsFromTable'
    BY <1>17 DEF ForgetServer, Exclusive, Reading
  <1>18. ASSUME NEW k \in Client, ForgetWriter(k) PROVE SelectsFromTable'
    BY <1>18 DEF ForgetWriter, Exclusive, Reading
  <1>19. ASSUME NEW k \in Client, EnterRelease(k) PROVE SelectsFromTable'
    BY <1>19 DEF EnterRelease
  <1>20. ASSUME NEW k \in Client, GiveBack(k) PROVE SelectsFromTable'
    BY <1>20 DEF GiveBack
  <1>21. ASSUME NEW k \in Client, Fail(k) PROVE SelectsFromTable'
    BY <1>21 DEF Fail
  <1>22. ASSUME NEW k \in Client, Release(k) PROVE SelectsFromTable'
    BY <1>22 DEF Release
  <1>23. ASSUME ExpireTable PROVE SelectsFromTable'
    BY <1>23 DEF ExpireTable
  <1>24. ASSUME Destroy PROVE SelectsFromTable'
    BY <1>24 DEF Destroy
  <1>25. ASSUME UNCHANGED vars PROVE SelectsFromTable'
    BY <1>25 DEF vars
  <1> QED BY <1>1, <1>2, <1>3, <1>4, <1>5, <1>6, <1>7, <1>8, <1>9, <1>10,
       <1>11, <1>12, <1>13, <1>14, <1>15, <1>16, <1>17, <1>18, <1>19, <1>20,
       <1>21, <1>22, <1>23, <1>24, <1>25 DEF Next, Call, Inside, Gone

-----------------------------------------------------------------------------
(* Cleaning up and creating pools leaves no server with two pools. *)
LEMMA NoDuplicateStep ==
    TypeOK /\ NoDuplicatePool /\ LocalsKept /\ [Next]_vars => NoDuplicatePool'
  <1> SUFFICES ASSUME TypeOK, NoDuplicatePool, LocalsKept, [Next]_vars
               PROVE  NoDuplicatePool'
    OBVIOUS
  <1>1. ASSUME NEW k \in Client, Refresh(k) PROVE NoDuplicatePool'
    <2>1. PICK t \in Responses : table' = t /\ Cleanup(t)
      BY <1>1 DEF Refresh
    <2>2. t \in Tables
      BY ResponsesAssumption
    <2>3. PICK len \in Nat : \E f \in [1..len -> Remaining(t)] :
              /\ servers' = [n \in 1..len |-> servers[f[n]]]
              /\ in_use' = [n \in 1..len |-> in_use[f[n]]]
              /\ \A m, n \in 1..len : f[m] = f[n] => m = n
              /\ \A i \in Remaining(t) : \E n \in 1..len : f[n] = i
      BY <2>1, <2>2, CleanupMoves
    <2>4. PICK from \in [1..len -> Remaining(t)] :
              /\ servers' = [n \in 1..len |-> servers[from[n]]]
              /\ in_use' = [n \in 1..len |-> in_use[from[n]]]
              /\ \A m, n \in 1..len : from[m] = from[n] => m = n
              /\ \A i \in Remaining(t) : \E n \in 1..len : from[n] = i
      BY <2>3
    <2>5. \A n \in 1..len : from[n] \in 1..Len(servers)
      BY <2>4 DEF Remaining
    <2>6. Len(servers') = len /\ \A n \in 1..len : servers'[n] = servers[from[n]]
      BY <2>4
    <2> QED BY <2>4, <2>5, <2>6 DEF NoDuplicatePool
  <1>2. ASSUME NEW k \in Client, Create(k) PROVE NoDuplicatePool'
    <2>1. CASE IndexOf(servers, server[k]) = 0
      <3>0. \A i \in 1..Len(servers) : servers[i] = server[k] => IndexOf(servers, server[k]) = i
        BY IndexOfIsThePosition DEF TypeOK, NoDuplicatePool
      <3>1. \A i \in 1..Len(servers) : servers[i] # server[k]
        BY <2>1, <3>0
      <3>2. servers' = Append(servers, server[k]) /\ server[k] \in Addr
        BY <1>2, <2>1 DEF Create, AddServer, LocalsKept
      <3>3. /\ Len(servers') = Len(servers) + 1
            /\ \A i \in 1..Len(servers) : servers'[i] = servers[i]
            /\ servers'[Len(servers) + 1] = server[k]
        BY <3>2 DEF TypeOK
      <3>4. Len(servers) \in Nat /\ 1..Len(servers') = 1..Len(servers) \cup {Len(servers) + 1}
        BY <3>3 DEF TypeOK
      <3> QED BY <3>1, <3>3, <3>4 DEF NoDuplicatePool
    <2>2. CASE IndexOf(servers, server[k]) # 0
      BY <1>2, <2>2 DEF Create, AddServer, poolVars, NoDuplicatePool
    <2> QED BY <2>1, <2>2
  <1>3. ASSUME Destroy PROVE NoDuplicatePool'
    BY <1>3 DEF Destroy, NoDuplicatePool
  <1>4. ASSUME UNCHANGED servers PROVE NoDuplicatePool'
    BY <1>4 DEF NoDuplicatePool
  <1>5. ASSUME NEW k \in Client, Lease(k) \/ GiveBack(k) PROVE UNCHANGED servers
    BY <1>5 DEF Lease, GiveBack
  <1> QED BY <1>1, <1>2, <1>3, <1>4, <1>5, PoolsMove

(* The clients that hold a connection to address a, when h says what each  *)
(* of them holds.                                                          *)
Holding(h, a) == {c \in Client : h[c] = a}

(* How many hold an address when a client takes or gives back one of its   *)
(* connections.                                                            *)
LEMMA HoldingChange ==
    ASSUME NEW h \in [Client -> Addr \cup {NoAddr}], NEW k \in Client,
           NEW a \in Addr \cup {NoAddr}, a # h[k],
           NEW g \in [Client -> Addr \cup {NoAddr}],
           \A c \in Client : g[c] = IF c = k THEN a ELSE h[c]
    PROVE  /\ \A b : b \notin {a, h[k]} => Holding(g, b) = Holding(h, b)
           /\ Cardinality(Holding(g, a)) = Cardinality(Holding(h, a)) + 1
           /\ Cardinality(Holding(g, h[k])) = Cardinality(Holding(h, h[k])) - 1
  <1>1. \A b : IsFiniteSet(Holding(h, b))
    BY ClientAssumption, FS_Subset DEF Holding
  <1>2. \A b : b \notin {a, h[k]} => Holding(g, b) = Holding(h, b)
    BY DEF Holding
  <1>3. k \notin Holding(h, a) /\ k \in Holding(h, h[k])
    BY DEF Holding
  <1>4. Holding(g, a) = Holding(h, a) \cup {k}
    BY DEF Holding
  <1>5. Holding(g, h[k]) = Holding(h, h[k]) \ {k}
    BY DEF Holding
  <1>6. Cardinality(Holding(g, a)) = Cardinality(Holding(h, a)) + 1
    BY <1>1, <1>3, <1>4, FS_AddElement
  <1>7. Cardinality(Holding(g, h[k])) = Cardinality(Holding(h, h[k])) - 1
    BY <1>1, <1>3, <1>5, FS_RemoveElement
  <1> QED BY <1>2, <1>6, <1>7

(* The counts stay exact: a cleanup drops only pools of which nothing is   *)
(* in use, a new pool starts with nothing in use because every connection  *)
(* that is out has its pool, and lease and release change both sides.      *)
LEMMA LeasesStep ==
    TypeOK /\ NoDuplicatePool /\ LocalsKept /\ HoldersOnly /\ LeasesCounted /\ [Next]_vars
        => LeasesCounted'
  <1> SUFFICES ASSUME TypeOK, NoDuplicatePool, LocalsKept, HoldersOnly, LeasesCounted,
                      [Next]_vars
               PROVE  LeasesCounted'
    OBVIOUS
  <1> DEFINE HasPool(s, h, c) == \E i \in 1..Len(s) : s[i] = h[c]
             Exact(s, n, h, i) == n[i] = Cardinality(Holding(h, s[i]))
             Good(s, n, h) ==
                 /\ \A c \in Client : h[c] # NoAddr => HasPool(s, h, c)
                 /\ \A i \in 1..Len(s) : Exact(s, n, h, i)
  <1>1. TypeOK' /\ NoDuplicatePool'
    BY TypeStep, NoDuplicateStep
  <1>2. SUFFICES Good(servers', in_use', held')
    <2>1. \A c \in Client, i \in 1..Len(servers') :
              servers'[i] = held'[c] => IndexOf(servers', held'[c]) = i
      <3> SUFFICES ASSUME NEW c \in Client, NEW i \in 1..Len(servers'), servers'[i] = held'[c]
                   PROVE  IndexOf(servers', held'[c]) = i
        OBVIOUS
      <3>1. servers' \in Seq(Addr)
        BY <1>1 DEF TypeOK
      <3>2. \A j, k \in 1..Len(servers') : servers'[j] = servers'[k] => j = k
        BY <1>1 DEF NoDuplicatePool
      <3> HIDE DEF HasPool, Exact, Good
      <3>3. \A j \in 1..Len(servers') : servers'[j] = held'[c] => IndexOf(servers', held'[c]) = j
        BY <3>1, <3>2, IndexOfIsThePosition
      <3> QED BY <3>3
    <2> QED BY <2>1 DEF LeasesCounted, Holders, Holding
  <1>3. Good(servers, in_use, held)
    <2>1. \A c \in Client : /\ IndexOf(servers, held[c]) \in 0..Len(servers)
                            /\ IndexOf(servers, held[c]) # 0
                                  => servers[IndexOf(servers, held[c])] = held[c]
      BY IndexOfIsThePosition DEF TypeOK, NoDuplicatePool
    <2> QED BY <2>1 DEF LeasesCounted, Holders, Holding
  <1>4. ASSUME NEW k \in Client, Refresh(k)
        PROVE  Good(servers', in_use', held')
    <2>1. PICK t \in Responses : table' = t /\ Cleanup(t)
      BY <1>4 DEF Refresh
    <2>2. t \in Tables
      BY ResponsesAssumption
    <2>3. PICK len \in Nat : \E f \in [1..len -> Remaining(t)] :
              /\ servers' = [n \in 1..len |-> servers[f[n]]]
              /\ in_use' = [n \in 1..len |-> in_use[f[n]]]
              /\ \A m, n \in 1..len : f[m] = f[n] => m = n
              /\ \A i \in Remaining(t) : \E n \in 1..len : f[n] = i
      BY <2>1, <2>2, CleanupMoves
    <2>4. PICK from \in [1..len -> Remaining(t)] :
              /\ servers' = [n \in 1..len |-> servers[from[n]]]
              /\ in_use' = [n \in 1..len |-> in_use[from[n]]]
              /\ \A i \in Remaining(t) : \E n \in 1..len : from[n] = i
      BY <2>3
    <2>5. /\ Len(servers') = len
          /\ \A n \in 1..len : /\ servers'[n] = servers[from[n]]
                               /\ in_use'[n] = in_use[from[n]]
                               /\ from[n] \in 1..Len(servers)
      BY <2>4 DEF Remaining
    <2>6. held' = held
      BY <1>4 DEF Refresh
    <2>7. ASSUME NEW c \in Client, held[c] # NoAddr PROVE HasPool(servers', held, c)
      <3>1. PICK i \in 1..Len(servers) : servers[i] = held[c]
        BY <1>3, <2>7
      <3>2. c \in Holding(held, servers[i]) /\ IsFiniteSet(Holding(held, servers[i]))
        BY <3>1, ClientAssumption, FS_Subset DEF Holding
      <3>3. in_use[i] # 0
        BY <1>3, <3>2, FS_EmptySet
      <3>4. i \in Remaining(t)
        BY <3>3 DEF Remaining, Kept
      <3>5. PICK n \in 1..len : from[n] = i
        BY <2>4, <3>4
      <3> QED BY <2>5, <2>6, <3>1, <3>5
    <2>8. ASSUME NEW n \in 1..len PROVE Exact(servers', in_use', held, n)
      BY <1>3, <2>5, <2>6
    <2> QED BY <2>5, <2>6, <2>7, <2>8
  <1>5. ASSUME NEW k \in Client, Create(k)
        PROVE  Good(servers', in_use', held')
    <2>1. held' = held
      BY <1>5 DEF Create
    <2>2. CASE IndexOf(servers, server[k]) = 0
      <3>1. \A i \in 1..Len(servers) : servers[i] = server[k] => IndexOf(servers, server[k]) = i
        BY IndexOfIsThePosition DEF TypeOK, NoDuplicatePool
      <3>2. server[k] \in Addr /\ server[k] # NoAddr
        BY <1>5, AddrAssumption DEF Create, LocalsKept
      <3>3. Holding(held, server[k]) = {}
        BY <1>3, <2>2, <3>1, <3>2 DEF Holding
      <3>4. servers' = Append(servers, server[k]) /\ in_use' = Append(in_use, 0)
        BY <1>5, <2>2 DEF Create, AddServer
      <3>5. /\ Len(servers) \in Nat
            /\ 1..Len(servers') = 1..Len(servers) \cup {Len(servers) + 1}
            /\ \A i \in 1..Len(servers) : servers'[i] = servers[i]
            /\ servers'[Len(servers) + 1] = server[k]
        BY <3>2, <3>4 DEF TypeOK
      <3>6. /\ \A i \in 1..Len(servers) : in_use'[i] = in_use[i]
            /\ in_use'[Len(servers) + 1] = 0
        BY <3>4, SizeAssumption DEF TypeOK
      <3>7. \A i \in 1..Len(servers) : Exact(servers', in_use', held, i)
        BY <1>3, <3>5, <3>6
      <3>8. Exact(servers', in_use', held, Len(servers) + 1)
        BY <3>3, <3>5, <3>6, FS_EmptySet
      <3>9. \A c \in Client : held[c] # NoAddr => HasPool(servers', held, c)
        BY <1>3, <3>5
      <3> QED BY <2>1, <3>5, <3>7, <3>8, <3>9
    <2>3. CASE IndexOf(servers, server[k]) # 0
      <3>1. UNCHANGED <<servers, in_use>>
        BY <1>5, <2>3 DEF Create, AddServer, poolVars
      <3> QED BY <1>3, <2>1, <3>1
    <2> QED BY <2>2, <2>3
  <1>6. ASSUME NEW k \in Client, Lease(k)
        PROVE  Good(servers', in_use', held')
    <2> DEFINE j == index[k]
    <2>1. /\ j \in 1..Len(servers) /\ servers[j] \in Addr /\ servers[j] # NoAddr
          /\ held[k] = NoAddr
      <3>1. j \in 1..Len(servers) /\ servers[j] \in Addr
        BY <1>6 DEF Lease, LocalsKept, TypeOK
      <3>2. held[k] = NoAddr
        BY <1>6 DEF Lease, HoldersOnly
      <3> QED BY <3>1, <3>2, AddrAssumption
    <2>2. /\ servers' = servers
          /\ held' = [held EXCEPT ![k] = servers[j]]
          /\ in_use' = [in_use EXCEPT ![j] = in_use[j] + 1]
      BY <1>6 DEF Lease, CountUp
    <2> HIDE DEF j
    <2>3. /\ \A b : b \notin {servers[j], NoAddr} => Holding(held', b) = Holding(held, b)
          /\ Cardinality(Holding(held', servers[j])) = Cardinality(Holding(held, servers[j])) + 1
      <3> DEFINE a == servers[j]
      <3>1. /\ held \in [Client -> Addr \cup {NoAddr}] /\ a \in Addr \cup {NoAddr}
            /\ a # held[k] /\ held[k] = NoAddr
            /\ held' \in [Client -> Addr \cup {NoAddr}]
            /\ \A c \in Client : held'[c] = IF c = k THEN a ELSE held[c]
        BY <2>1, <2>2 DEF TypeOK
      <3> HIDE DEF a
      <3>2. /\ \A b : b \notin {a, held[k]} => Holding(held', b) = Holding(held, b)
            /\ Cardinality(Holding(held', a)) = Cardinality(Holding(held, a)) + 1
        BY <3>1, HoldingChange
      <3> QED BY <3>1, <3>2 DEF a
    <2>4. ASSUME NEW i \in 1..Len(servers) PROVE Exact(servers, in_use', held', i)
      <3>1. CASE i = j
        BY <1>3, <2>1, <2>2, <2>3, <3>1 DEF TypeOK
      <3>2. CASE i # j
        <4>1. servers[i] # servers[j] /\ servers[i] # NoAddr
          BY <2>1, <3>2, AddrAssumption DEF TypeOK, NoDuplicatePool
        <4>2. in_use'[i] = in_use[i]
          BY <2>1, <2>2, <3>2 DEF TypeOK
        <4> QED BY <1>3, <2>3, <4>1, <4>2
      <3> QED BY <3>1, <3>2
    <2>5. ASSUME NEW c \in Client, held'[c] # NoAddr PROVE HasPool(servers, held', c)
      BY <1>3, <2>1, <2>2, <2>5 DEF TypeOK
    <2> QED BY <2>2, <2>4, <2>5
  <1>7. ASSUME NEW k \in Client, GiveBack(k)
        PROVE  Good(servers', in_use', held')
    <2> DEFINE j == IndexOf(servers, held[k])
    <2>1. /\ j \in 0..Len(servers)
          /\ j # 0 => servers[j] = held[k]
      BY IndexOfIsThePosition DEF TypeOK, NoDuplicatePool
    <2>2. /\ servers' = servers
          /\ held' = [held EXCEPT ![k] = NoAddr]
          /\ in_use' = IF j = 0 THEN in_use ELSE [in_use EXCEPT ![j] = in_use[j] - 1]
      BY <1>7 DEF GiveBack
    <2>3. CASE held[k] = NoAddr
      <3>1. j = 0
        BY <2>1, <2>3, AddrAssumption DEF TypeOK
      <3>2. held' = held /\ in_use' = in_use
        BY <2>2, <2>3, <3>1 DEF TypeOK
      <3> QED BY <1>3, <2>2, <3>2
    <2>4. CASE held[k] # NoAddr
      <3>1. j \in 1..Len(servers) /\ servers[j] = held[k]
        BY <2>1, <2>4 DEF LeasesCounted
      <3>2. in_use' = [in_use EXCEPT ![j] = in_use[j] - 1]
        BY <2>2, <3>1
      <3> HIDE DEF j
      <3>3. /\ \A b : b \notin {NoAddr, servers[j]} => Holding(held', b) = Holding(held, b)
            /\ Cardinality(Holding(held', servers[j])) = Cardinality(Holding(held, servers[j])) - 1
        <4>1. /\ held \in [Client -> Addr \cup {NoAddr}] /\ NoAddr \in Addr \cup {NoAddr}
              /\ NoAddr # held[k]
              /\ held' \in [Client -> Addr \cup {NoAddr}]
              /\ \A c \in Client : held'[c] = IF c = k THEN NoAddr ELSE held[c]
          BY <2>2, <2>4 DEF TypeOK
        <4>2. /\ \A b : b \notin {NoAddr, held[k]} => Holding(held', b) = Holding(held, b)
              /\ Cardinality(Holding(held', held[k])) = Cardinality(Holding(held, held[k])) - 1
          BY <4>1, HoldingChange
        <4> QED BY <3>1, <4>2
      <3>4. ASSUME NEW i \in 1..Len(servers) PROVE Exact(servers, in_use', held', i)
        <4>1. CASE i = j
          BY <1>3, <3>1, <3>2, <3>3, <4>1 DEF TypeOK
        <4>2. CASE i # j
          <5>1. servers[i] # servers[j] /\ servers[i] # NoAddr
            BY <3>1, <4>2, AddrAssumption DEF TypeOK, NoDuplicatePool
          <5>2. in_use'[i] = in_use[i]
            BY <3>1, <3>2, <4>2 DEF TypeOK
          <5> QED BY <1>3, <3>3, <5>1, <5>2
        <4> QED BY <4>1, <4>2
      <3>5. ASSUME NEW c \in Client, held'[c] # NoAddr PROVE HasPool(servers, held', c)
        BY <1>3, <2>2, <3>5 DEF TypeOK
      <3> QED BY <2>2, <3>4, <3>5
    <2> QED BY <2>3, <2>4
  <1>8. ASSUME Destroy PROVE Good(servers', in_use', held')
    <2>1. servers' = << >> /\ held' = held /\ \A c \in Client : held[c] = NoAddr
      BY <1>8 DEF Destroy, HoldersOnly
    <2> QED BY <2>1
  <1>9. ASSUME UNCHANGED <<servers, in_use, held>> PROVE Good(servers', in_use', held')
    BY <1>3, <1>9
  <1> HIDE DEF Good
  <1> QED BY <1>4, <1>5, <1>6, <1>7, <1>8, <1>9, PoolsMove

-----------------------------------------------------------------------------
(* The theorems *)

(* A pool just created satisfies the invariant ... *)
LEMMA InvInit == Init => RoutingInv
  <1> SUFFICES ASSUME Init PROVE RoutingInv
    OBVIOUS
  <1>1. TypeOK
    <2>1. table \in Tables /\ servers \in Seq(Addr) /\ in_use \in Seq(0..PoolSize)
      BY DEF Init, Tables
    <2> QED BY <2>1 DEF Init, TypeOK, Places, Modes
  <1>2. NoDuplicatePool /\ LocalsKept /\ HoldersOnly /\ LeasesCounted
    BY DEF Init, NoDuplicatePool, LocalsKept, HoldersOnly, LeasesCounted
  <1>3. Reading /\ SelectsFromTable
    BY DEF Init, Reading, SelectsFromTable
  <1> QED BY <1>1, <1>2, <1>3 DEF RoutingInv

(* ... every step of a client keeps it ... *)
LEMMA InvStep == RoutingInv /\ [Next]_vars => RoutingInv'
  BY TypeStep, NoDuplicateStep, LocalsStep, HoldersStep, LeasesStep, ReadingStep, SelectsStep
     DEF RoutingInv

(* ... and so it holds in every state of the routing pool. *)
THEOREM RoutingInvariant == Spec => []RoutingInv
  BY InvInit, InvStep, PTL DEF Spec

(* The variables keep their types: pools and servers stay parallel arrays, *)
(* no in_use_count gets negative or exceeds the size of its pool, whatever *)
(* index a thread carries from ensure_server to BoltDirectPool_acquire.    *)
THEOREM TypeCorrect == Spec => []TypeOK
  <1>1. RoutingInv => TypeOK
    BY DEF RoutingInv
  <1> QED BY <1>1, RoutingInvariant, PTL

(* BoltRoutingPool_cleanup never drops the pool of a connection that is    *)
(* out, and every in_use_count is the number of clients that hold one of   *)
(* the pool's connections: a release finds the pool that lent it.          *)
THEOREM LeasesStayCounted == Spec => []LeasesCounted
  <1>1. RoutingInv => LeasesCounted
    BY DEF RoutingInv
  <1> QED BY <1>1, RoutingInvariant, PTL

(* ensure_server never makes a second pool for a server, however many      *)
(* threads miss it at once.                                                *)
THEOREM OnePoolPerServer == Spec => []NoDuplicatePool
  <1>1. RoutingInv => NoDuplicatePool
    BY DEF RoutingInv
  <1> QED BY <1>1, RoutingInvariant, PTL

(* select_least_connected never meets an empty set: the check of the       *)
(* routing table still holds when the server is selected.                  *)
THEOREM SelectionNeverEmpty == Spec => []SelectsFromTable
  <1>1. RoutingInv => SelectsFromTable
    BY DEF RoutingInv
  <1> QED BY <1>1, RoutingInvariant, PTL
=============================================================================
