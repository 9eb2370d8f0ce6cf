-------------------------- MODULE DirectPoolProofs --------------------------
(***************************************************************************)
(* Proofs about DirectPool, for every set of clients, pool size,           *)
(* acquisition time, set of network faults and number of NULL releases.    *)
(***************************************************************************)
EXTENDS DirectPool, FiniteSetTheorems, TLAPS

-----------------------------------------------------------------------------
(* The inductive invariant *)

(* The client in a critical section is the one that owns the mutex. *)
Owned == \A k \in Client : pc[k] \in Inside <=> mutex = k

(* A client deals with a connection from the moment acquire picked it for  *)
(* it to the end of release.                                               *)
ConnKept ==
    \A k \in Client :
        /\ pc[k] \in {"holding", "releasing", "resetting", "signalling"}
              => conn[k] \in Index
        /\ pc[k] \notin {"returning", "holding", "releasing", "resetting", "signalling"}
              => conn[k] = 0

(* A connection without agent is reusable, unless its release has not      *)
(* reset it yet.                                                           *)
IdleOrResetting ==
    \A i \in Index :
        agent[i] = "NULL" =>
            \/ state[i] \in {"DISCONNECTED", "READY", "DEFUNCT"}
            \/ \E k \in Client : pc[k] = "resetting" /\ conn[k] = i

(* Connections do not age when their life is not limited. *)
AgesIfLimited == ~LifeTimeLimited => \A i \in Index : ~aged[i]

(* A client that has asked has not been answered. *)
Unanswered ==
    \A k \in Client :
        pc[k] \in {"acquiring", "attempting", "parked", "woken", "expired"}
            => reply[k] = "NONE"

LeaseInv == TypeOK /\ Owned /\ ConnKept /\ ExclusiveLease
PoolInv == LeaseInv /\ CountMatches /\ IdleOrResetting /\ AgesIfLimited /\ Unanswered

-----------------------------------------------------------------------------
(* TryConnection picks a result of the network exchanges, and any such     *)
(* result is a state of a connection and an answer of acquire.             *)
LEMMA ResultType ==
    ASSUME NEW s \in States, NEW r \in PrepareResults(s)
    PROVE  r.state \in States /\ r.error \in Replies
  BY FaultsAssumption DEF PrepareResults, OpenInitResults, InitResults,
     ResetOrOpenInitResults, Result, States, Replies

(* TypeOK holds in every state. *)
LEMMA TypeStep == TypeOK /\ [Next]_vars => TypeOK'
  <1> SUFFICES ASSUME TypeOK, [Next]_vars PROVE TypeOK'
    OBVIOUS
  <1> USE ClientAssumption, SizeAssumption, TimeAssumption, NullAssumption
          DEF TypeOK, poolVars, clientVars, Goto, Unlock, CountDown, Places,
              Outside, Blocked, Inside, WaitedBound
  <1>1. ASSUME NEW k \in Client, Acquire(k) PROVE TypeOK'
    BY <1>1 DEF Acquire, Replies
  <1>2. ASSUME NEW k \in Client, Lock(k) PROVE TypeOK'
    BY <1>2 DEF Lock
  <1>3. ASSUME NEW k \in Client, NEW i \in Index, TryConnection(k, i) PROVE TypeOK'
    <2>1. FoundState(i) \in States
      BY DEF FoundState, States
    <2>2. PICK r \in PrepareResults(FoundState(i)) :
            /\ state' = [state EXCEPT ![i] = r.state]
            /\ reply' = [reply EXCEPT ![k] = r.error]
            /\ IF r.error = "SUCCESS"
               THEN /\ agent' = [agent EXCEPT ![i] = "USED"]
                    /\ conn' = [conn EXCEPT ![k] = i]
               ELSE UNCHANGED <<agent, conn>>
      BY <1>3 DEF TryConnection
    <2>3. r.state \in States /\ r.error \in Replies
      BY <2>1, ResultType
    <2>4. aged' \in [Index -> BOOLEAN]
      BY <1>3 DEF TryConnection
    <2>5. CASE r.error = "SUCCESS"
      BY <1>3, <2>2, <2>3, <2>4, <2>5 DEF TryConnection
    <2>6. CASE r.error # "SUCCESS"
      BY <1>3, <2>2, <2>3, <2>4, <2>6 DEF TryConnection
    <2> QED BY <2>5, <2>6
  <1>4. ASSUME NEW k \in Client, ReportFull(k) PROVE TypeOK'
    BY <1>4 DEF ReportFull, Replies
  <1>5. ASSUME NEW k \in Client, Park(k) PROVE TypeOK'
    BY <1>5 DEF Park
  <1>6. ASSUME NEW k \in Client, Tick(k) PROVE TypeOK'
    BY <1>6 DEF Tick
  <1>7. ASSUME NEW k \in Client, Expire(k) PROVE TypeOK'
    BY <1>7 DEF Expire
  <1>8. ASSUME NEW k \in Client, WakeSpuriously(k) PROVE TypeOK'
    BY <1>8 DEF WakeSpuriously
  <1>9. ASSUME NEW k \in Client, GiveUp(k) PROVE TypeOK'
    BY <1>9 DEF GiveUp, Replies
  <1>10. ASSUME NEW k \in Client, Return(k) PROVE TypeOK'
    <2>1. in_use_count' \in Int /\ pc' \in [Client -> Places]
      BY <1>10 DEF Return
    <2> QED BY <1>10, <2>1 DEF Return
  <1>11. ASSUME NEW k \in Client, Use(k) PROVE TypeOK'
    BY <1>11 DEF Use, States
  <1>12. ASSUME NEW k \in Client, Release(k) PROVE TypeOK'
    BY <1>12 DEF Release
  <1>13. ASSUME NEW k \in Client, ClearAgent(k) PROVE TypeOK'
    BY <1>13 DEF ClearAgent
  <1>14. ASSUME NEW k \in Client, ResetOrClose(k) PROVE TypeOK'
    <2>1. PICK s \in ResetOrCloseStates :
            /\ state' = [state EXCEPT ![conn[k]] = s]
            /\ aged' = [aged EXCEPT ![conn[k]] = @ /\ s = "READY"]
      BY <1>14 DEF ResetOrClose
    <2>2. s \in States
      BY DEF ResetOrCloseStates, States
    <2>3. state' \in [Index -> States]
      BY <2>1, <2>2
    <2>4. aged' \in [Index -> BOOLEAN]
      BY <2>1
    <2> QED BY <1>14, <2>3, <2>4 DEF ResetOrClose
  <1>15. ASSUME NEW k \in Client, Signal(k) PROVE TypeOK'
    <2>1. pc' \in [Client -> Places]
      BY <1>15 DEF Signal, WakeOneAndLeave, Parked
    <2>2. in_use_count' \in Int /\ mutex' = NoClient
      BY <1>15 DEF Signal
    <2>3. conn' \in [Client -> Index \cup {0}]
      BY <1>15 DEF Signal
    <2> QED BY <1>15, <2>1, <2>2, <2>3 DEF Signal
  <1>16. ASSUME NEW k \in Client, ReleaseNull(k) PROVE TypeOK'
    BY <1>16 DEF ReleaseNull, Replies
  <1>17. ASSUME NEW i \in Index, Age(i) PROVE TypeOK'
    BY <1>17 DEF Age
  <1>18. CASE Destroy
    BY <1>18 DEF Destroy, States
  <1>19. CASE UNCHANGED vars
    BY <1>19 DEF vars
  <1> QED
    BY <1>1, <1>2, <1>3, <1>4, <1>5, <1>6, <1>7, <1>8, <1>9, <1>10, <1>11,
       <1>12, <1>13, <1>14, <1>15, <1>16, <1>17, <1>18, <1>19
       DEF Next, Step, Attempt, Destroyed

(* TypeOK holds initially. *)
LEMMA TypeInit == Init => TypeOK
  <1> SUFFICES ASSUME Init PROVE TypeOK
    OBVIOUS
  <1>1. 0 \in 0..AcquisitionTime /\ 0 \in 0..WaitedBound /\ 0 \in 0..MaxNullReleases
    BY TimeAssumption, NullAssumption DEF WaitedBound
  <1>2. "idle" \in Places /\ "NONE" \in Replies /\ "DISCONNECTED" \in States
    BY DEF Places, Outside, Replies, States
  <1>3. /\ agent \in [Index -> {"NULL", "USED"}]
        /\ state \in [Index -> States]
        /\ aged \in [Index -> BOOLEAN]
    BY <1>2 DEF Init
  <1>4. /\ pc \in [Client -> Places]
        /\ conn \in [Client -> Index \cup {0}]
        /\ reply \in [Client -> Replies]
        /\ timer \in [Client -> 0..AcquisitionTime]
        /\ waited \in [Client -> 0..WaitedBound]
    BY <1>1, <1>2 DEF Init
  <1>5. /\ mutex \in Client \cup {NoClient}
        /\ in_use_count \in Int
        /\ nullReleases \in 0..MaxNullReleases
    BY <1>1 DEF Init
  <1>6. destroyed \in BOOLEAN
    BY DEF Init
  <1> QED BY <1>3, <1>4, <1>5, <1>6 DEF TypeOK

(* The variables of the pool and of its clients keep their types. *)
THEOREM TypeCorrect == Spec => []TypeOK
  BY TypeInit, TypeStep, PTL DEF Spec

-----------------------------------------------------------------------------
(* Leases *)

LEMMA LeaseStep == LeaseInv /\ [Next]_vars => (Owned /\ ConnKept /\ ExclusiveLease)'
  <1> DEFINE Goal == Owned /\ ConnKept /\ ExclusiveLease
  <1> SUFFICES ASSUME LeaseInv, [Next]_vars PROVE Goal'
    OBVIOUS
  <1> USE ClientAssumption DEF LeaseInv, TypeOK, Owned, ConnKept, ExclusiveLease, Leases,
          poolVars, clientVars, Goto, Unlock, Inside
  <1>0. 0 \notin Index
    BY SizeAssumption DEF Index
  <1>1. ASSUME NEW k \in Client, Acquire(k) PROVE Goal'
    BY <1>1 DEF Acquire
  <1>2. ASSUME NEW k \in Client, Lock(k) PROVE Goal'
    BY <1>2 DEF Lock
  <1>3. ASSUME NEW k \in Client, NEW i \in Index, TryConnection(k, i) PROVE Goal'
    <2>1. CASE agent' = [agent EXCEPT ![i] = "USED"] /\ conn' = [conn EXCEPT ![k] = i]
      BY <1>0, <1>3, <2>1 DEF TryConnection, FindsUnused
    <2>2. CASE UNCHANGED <<agent, conn>>
      BY <1>0, <1>3, <2>2 DEF TryConnection
    <2> QED BY <1>3, <2>1, <2>2 DEF TryConnection
  <1>4. ASSUME NEW k \in Client, ReportFull(k) PROVE Goal'
    BY <1>0, <1>4 DEF ReportFull
  <1>5. ASSUME NEW k \in Client, Park(k) PROVE Goal'
    BY <1>5 DEF Park
  <1>6. ASSUME NEW k \in Client, Tick(k) PROVE Goal'
    BY <1>6 DEF Tick
  <1>7. ASSUME NEW k \in Client, Expire(k) PROVE Goal'
    BY <1>7 DEF Expire
  <1>8. ASSUME NEW k \in Client, WakeSpuriously(k) PROVE Goal'
    BY <1>8 DEF WakeSpuriously
  <1>9. ASSUME NEW k \in Client, GiveUp(k) PROVE Goal'
    BY <1>0, <1>9 DEF GiveUp
  <1>10. ASSUME NEW k \in Client, Return(k) PROVE Goal'
    BY <1>0, <1>10 DEF Return
  <1>11. ASSUME NEW k \in Client, Use(k) PROVE Goal'
    BY <1>11 DEF Use
  <1>12. ASSUME NEW k \in Client, Release(k) PROVE Goal'
    BY <1>12 DEF Release
  <1>13. ASSUME NEW k \in Client, ClearAgent(k) PROVE Goal'
    BY <1>0, <1>13 DEF ClearAgent
  <1>14. ASSUME NEW k \in Client, ResetOrClose(k) PROVE Goal'
    <2>1. /\ pc[k] = "resetting" /\ pc' = [pc EXCEPT ![k] = "signalling"]
          /\ UNCHANGED <<mutex, agent, conn>>
      BY ONLY <1>14 DEF ResetOrClose, Goto
    <2> QED BY <2>1
  <1>15. ASSUME NEW k \in Client, Signal(k) PROVE Goal'
    <2>1. /\ pc[k] = "signalling" /\ conn' = [conn EXCEPT ![k] = 0]
          /\ mutex' = NoClient /\ agent' = agent
          /\ \/ pc' = [pc EXCEPT ![k] = "idle"]
             \/ \E w \in Client : pc[w] = "parked" /\ pc' = [pc EXCEPT ![k] = "idle", ![w] = "woken"]
      BY ONLY <1>15 DEF Signal, WakeOneAndLeave, Parked, Goto, Unlock
    <2>2. CASE pc' = [pc EXCEPT ![k] = "idle"]
      BY <1>0, <2>1, <2>2
    <2>3. ASSUME NEW w \in Client, pc[w] = "parked",
                 pc' = [pc EXCEPT ![k] = "idle", ![w] = "woken"]
          PROVE  Goal'
      BY <1>0, <2>1, <2>3
    <2> QED BY <2>1, <2>2, <2>3
  <1>16. ASSUME NEW k \in Client, ReleaseNull(k) PROVE Goal'
    BY <1>16 DEF ReleaseNull
  <1>17. ASSUME NEW i \in Index, Age(i) PROVE Goal'
    BY <1>17 DEF Age
  <1>18. CASE Destroy
    BY <1>18 DEF Destroy
  <1>19. CASE UNCHANGED vars
    BY <1>19 DEF vars
  <1> QED
    BY <1>1, <1>2, <1>3, <1>4, <1>5, <1>6, <1>7, <1>8, <1>9, <1>10, <1>11,
       <1>12, <1>13, <1>14, <1>15, <1>16, <1>17, <1>18, <1>19
       DEF Next, Step, Attempt, Destroyed

-----------------------------------------------------------------------------
(* The count of connections in use *)

LEMMA LeasedFinite == IsFiniteSet(Leased) /\ Cardinality(Leased) \in Nat
  <1>1. IsFiniteSet(Index)
    BY SizeAssumption, FS_Interval DEF Index
  <1>2. Leased \subseteq Index
    BY DEF Leased
  <1> QED BY <1>1, <1>2, FS_Subset, FS_CardinalityType

(* A client that does not own the mutex does not change what the owner has *)
(* not counted.                                                            *)
LEMMA UncountedKept ==
    ASSUME LeaseInv, mutex' = mutex, NEW k \in Client,
           pc[k] \notin Inside,
           \A l \in Client : l # k => pc'[l] = pc[l] /\ conn'[l] = conn[l]
    PROVE  Uncounted' = Uncounted
  BY DEF LeaseInv, Owned, TypeOK, Uncounted

LEMMA CountStep == LeaseInv /\ CountMatches /\ [Next]_vars => CountMatches'
  <1> SUFFICES ASSUME LeaseInv, CountMatches, [Next]_vars PROVE CountMatches'
    OBVIOUS
  <1> USE ClientAssumption DEF poolVars, clientVars, Goto, Unlock
  <1>0. 0 \notin Index
    BY SizeAssumption DEF Index
  <1>n. nullReleases \in Int /\ in_use_count \in Int /\ Cardinality(Leased) \in Int
    BY LeasedFinite, NullAssumption DEF LeaseInv, TypeOK
  <1>q. ASSUME UNCHANGED <<agent, in_use_count, nullReleases>>, Uncounted' = Uncounted
        PROVE  CountMatches'
    BY <1>q DEF CountMatches, Leased
  <1>1. ASSUME NEW k \in Client, Acquire(k) PROVE CountMatches'
    BY <1>1, <1>q, UncountedKept DEF Acquire, Inside, LeaseInv, TypeOK
  <1>2. ASSUME NEW k \in Client, Lock(k) PROVE CountMatches'
    <2>1. Uncounted = 0 /\ Uncounted' = 0
      BY <1>2 DEF Lock, Uncounted, LeaseInv, TypeOK
    <2> QED BY <1>2, <1>q, <2>1 DEF Lock
  <1>3. ASSUME NEW k \in Client, NEW i \in Index, TryConnection(k, i) PROVE CountMatches'
    <2>1. Uncounted = 0 /\ mutex = k
      BY <1>3 DEF TryConnection, Uncounted, LeaseInv, Owned, TypeOK, Inside
    <2>2. CASE agent' = [agent EXCEPT ![i] = "USED"] /\ conn' = [conn EXCEPT ![k] = i]
      <3>1. Uncounted' = 1
        BY <1>0, <1>3, <2>1, <2>2 DEF TryConnection, Uncounted, LeaseInv, TypeOK
      <3>2. i \notin Leased /\ Leased' = Leased \cup {i}
        BY <1>3, <2>2 DEF TryConnection, FindsUnused, Leased, LeaseInv, TypeOK
      <3>3. Cardinality(Leased') = Cardinality(Leased) + 1
        BY <3>2, LeasedFinite, FS_AddElement
      <3> QED BY <1>3, <1>n, <2>1, <3>1, <3>3 DEF TryConnection, CountMatches
    <2>3. CASE UNCHANGED <<agent, conn>>
      <3>1. Uncounted' = 0
        BY <1>3, <2>1, <2>3 DEF TryConnection, Uncounted, LeaseInv, ConnKept, TypeOK
      <3> QED BY <1>3, <1>q, <2>1, <2>3, <3>1 DEF TryConnection
    <2> QED BY <1>3, <2>2, <2>3 DEF TryConnection
  <1>4. ASSUME NEW k \in Client, ReportFull(k) PROVE CountMatches'
    <2>1. Uncounted = 0 /\ Uncounted' = 0
      BY <1>4 DEF ReportFull, Uncounted, LeaseInv, Owned, ConnKept, TypeOK, Inside
    <2> QED BY <1>4, <1>q, <2>1 DEF ReportFull
  <1>5. ASSUME NEW k \in Client, Park(k) PROVE CountMatches'
    <2>1. Uncounted = 0 /\ Uncounted' = 0
      BY <1>5 DEF Park, Uncounted, LeaseInv, Owned, TypeOK, Inside
    <2> QED BY <1>5, <1>q, <2>1 DEF Park
  <1>6. ASSUME NEW k \in Client, Tick(k) PROVE CountMatches'
    BY <1>6, <1>q DEF Tick, Uncounted
  <1>7. ASSUME NEW k \in Client, Expire(k) PROVE CountMatches'
    BY <1>7, <1>q, UncountedKept DEF Expire, Inside, LeaseInv, TypeOK
  <1>8. ASSUME NEW k \in Client, WakeSpuriously(k) PROVE CountMatches'
    BY <1>8, <1>q, UncountedKept DEF WakeSpuriously, Inside, LeaseInv, TypeOK
  <1>9. ASSUME NEW k \in Client, GiveUp(k) PROVE CountMatches'
    <2>1. Uncounted = 0 /\ Uncounted' = 0
      BY <1>9 DEF GiveUp, Uncounted, LeaseInv, ConnKept, TypeOK
    <2> QED BY <1>9, <1>q, <2>1 DEF GiveUp
  <1>10. ASSUME NEW k \in Client, Return(k) PROVE CountMatches'
    <2>1. mutex = k /\ Uncounted' = 0 /\ Leased' = Leased
      BY <1>10 DEF Return, Uncounted, LeaseInv, Owned, TypeOK, Inside, Leased
    <2>2. CASE conn[k] # 0
      <3>1. Uncounted = 1
        BY <1>10, <2>1, <2>2 DEF Return, Uncounted
      <3> QED BY <1>10, <1>n, <2>1, <2>2, <3>1 DEF Return, CountMatches
    <2>3. CASE conn[k] = 0
      <3>1. Uncounted = 0
        BY <1>10, <2>1, <2>3 DEF Return, Uncounted
      <3> QED BY <1>10, <1>n, <2>1, <2>3, <3>1 DEF Return, CountMatches
    <2> QED BY <2>2, <2>3
  <1>11. ASSUME NEW k \in Client, Use(k) PROVE CountMatches'
    BY <1>11, <1>q DEF Use, Uncounted
  <1>12. ASSUME NEW k \in Client, Release(k) PROVE CountMatches'
    BY <1>12, <1>q, UncountedKept DEF Release, Inside, LeaseInv, TypeOK
  <1>13. ASSUME NEW k \in Client, ClearAgent(k) PROVE CountMatches'
    <2>1. Uncounted = 0 /\ Uncounted' = -1
      BY <1>13 DEF ClearAgent, Uncounted, LeaseInv, TypeOK
    <2>2. conn[k] \in Leased /\ Leased' = Leased \ {conn[k]}
      BY <1>13 DEF ClearAgent, Leased, LeaseInv, TypeOK, ConnKept, ExclusiveLease, Leases
    <2>3. Cardinality(Leased') = Cardinality(Leased) - 1
      BY <2>2, LeasedFinite, FS_RemoveElement
    <2> QED BY <1>13, <1>n, <2>1, <2>3 DEF ClearAgent, CountMatches
  <1>14. ASSUME NEW k \in Client, ResetOrClose(k) PROVE CountMatches'
    <2>1. Uncounted = -1 /\ Uncounted' = -1
      BY <1>14 DEF ResetOrClose, Uncounted, LeaseInv, Owned, TypeOK, Inside
    <2> QED BY <1>14, <1>q, <2>1 DEF ResetOrClose
  <1>15. ASSUME NEW k \in Client, Signal(k) PROVE CountMatches'
    <2>1. Uncounted = -1 /\ Uncounted' = 0 /\ Leased' = Leased
      BY <1>15 DEF Signal, Uncounted, LeaseInv, Owned, TypeOK, Inside, Leased
    <2> QED BY <1>15, <1>n, <2>1 DEF Signal, CountDown, CountMatches
  <1>16. ASSUME NEW k \in Client, ReleaseNull(k) PROVE CountMatches'
    <2>1. Uncounted = 0 /\ Uncounted' = 0 /\ Leased' = Leased
      BY <1>16 DEF ReleaseNull, Uncounted, Leased
    <2> QED BY <1>16, <1>n, <2>1 DEF ReleaseNull, CountDown, CountMatches
  <1>17. ASSUME NEW i \in Index, Age(i) PROVE CountMatches'
    BY <1>17, <1>q DEF Age, Uncounted
  <1>18. CASE Destroy
    BY <1>18, <1>q DEF Destroy, Uncounted
  <1>19. CASE UNCHANGED vars
    BY <1>19, <1>q DEF vars, Uncounted
  <1> QED
    BY <1>1, <1>2, <1>3, <1>4, <1>5, <1>6, <1>7, <1>8, <1>9, <1>10, <1>11,
       <1>12, <1>13, <1>14, <1>15, <1>16, <1>17, <1>18, <1>19
       DEF Next, Step, Attempt, Destroyed

-----------------------------------------------------------------------------
(* The connections that are not on loan, and the answers *)

LEMMA RestStep ==
    LeaseInv /\ IdleOrResetting /\ AgesIfLimited /\ Unanswered /\ [Next]_vars
        => (IdleOrResetting /\ AgesIfLimited /\ Unanswered)'
  <1> DEFINE Rest == IdleOrResetting /\ AgesIfLimited /\ Unanswered
  <1> SUFFICES ASSUME LeaseInv, Rest, [Next]_vars PROVE Rest'
    OBVIOUS
  <1> USE DEF IdleOrResetting, AgesIfLimited, Unanswered,
          LeaseInv, TypeOK, poolVars, clientVars, Goto
  <1>1. ASSUME NEW k \in Client, Acquire(k) PROVE Rest'
    BY <1>1 DEF Acquire
  <1>2. ASSUME NEW k \in Client, Lock(k) PROVE Rest'
    BY <1>2 DEF Lock
  <1>3. ASSUME NEW k \in Client, NEW i \in Index, TryConnection(k, i) PROVE Rest'
    <2>1. PICK r \in PrepareResults(FoundState(i)) :
            /\ state' = [state EXCEPT ![i] = r.state]
            /\ IF r.error = "SUCCESS" THEN agent' = [agent EXCEPT ![i] = "USED"]
                                     ELSE UNCHANGED agent
      BY <1>3 DEF TryConnection
    <2>2. /\ pc[k] = "attempting" /\ mutex = k
          /\ agent[i] = "NULL"
      BY <1>3 DEF TryConnection, FindsUnused, Owned, Inside
    <2>3. FoundState(i) \in {"DISCONNECTED", "READY", "DEFUNCT"}
      BY <2>2 DEF FoundState, Owned, Inside
    <2>4. r.state \in {"DISCONNECTED", "READY", "DEFUNCT"}
      BY <2>1, <2>3 DEF PrepareResults, OpenInitResults, InitResults,
                        ResetOrOpenInitResults, Result
    <2>5. IdleOrResetting'
      BY <1>3, <2>1, <2>2, <2>4 DEF TryConnection, Owned, Inside
    <2>6. AgesIfLimited'
      BY <1>3 DEF TryConnection
    <2>7. Unanswered'
      BY <1>3 DEF TryConnection
    <2> QED BY <2>5, <2>6, <2>7
  <1>4. ASSUME NEW k \in Client, ReportFull(k) PROVE Rest'
    BY <1>4 DEF ReportFull
  <1>5. ASSUME NEW k \in Client, Park(k) PROVE Rest'
    BY <1>5 DEF Park
  <1>6. ASSUME NEW k \in Client, Tick(k) PROVE Rest'
    BY <1>6 DEF Tick
  <1>7. ASSUME NEW k \in Client, Expire(k) PROVE Rest'
    BY <1>7 DEF Expire
  <1>8. ASSUME NEW k \in Client, WakeSpuriously(k) PROVE Rest'
    BY <1>8 DEF WakeSpuriously
  <1>9. ASSUME NEW k \in Client, GiveUp(k) PROVE Rest'
    BY <1>9 DEF GiveUp
  <1>10. ASSUME NEW k \in Client, Return(k) PROVE Rest'
    BY <1>10 DEF Return
  <1>11. ASSUME NEW k \in Client, Use(k) PROVE Rest'
    <2>1. agent[conn[k]] = "USED"
      BY <1>11 DEF Use, ExclusiveLease, Leases, ConnKept
    <2> QED BY <1>11, <2>1 DEF Use
  <1>12. ASSUME NEW k \in Client, Release(k) PROVE Rest'
    BY <1>12 DEF Release
  <1>13. ASSUME NEW k \in Client, ClearAgent(k) PROVE Rest'
    BY <1>13 DEF ClearAgent
  <1>14. ASSUME NEW k \in Client, ResetOrClose(k) PROVE Rest'
    <2>1. PICK s \in {"READY", "DISCONNECTED"} :
            /\ state' = [state EXCEPT ![conn[k]] = s]
            /\ aged' = [aged EXCEPT ![conn[k]] = @ /\ s = "READY"]
      BY <1>14 DEF ResetOrClose, ResetOrCloseStates
    <2>2. \A l \in Client : pc[l] = "resetting" => l = k
      BY <1>14 DEF ResetOrClose, Owned, Inside
    <2>3. IdleOrResetting'
      BY <1>14, <2>1, <2>2 DEF ResetOrClose
    <2>4. AgesIfLimited'
      BY <1>14, <2>1 DEF ResetOrClose
    <2>5. Unanswered'
      BY <1>14 DEF ResetOrClose
    <2> QED BY <2>3, <2>4, <2>5
  <1>15. ASSUME NEW k \in Client, Signal(k) PROVE Rest'
    BY <1>15 DEF Signal, WakeOneAndLeave, Parked, Owned, Inside
  <1>16. ASSUME NEW k \in Client, ReleaseNull(k) PROVE Rest'
    BY <1>16 DEF ReleaseNull
  <1>17. ASSUME NEW i \in Index, Age(i) PROVE Rest'
    BY <1>17 DEF Age
  <1>18. CASE Destroy
    BY <1>18 DEF Destroy
  <1>19. CASE UNCHANGED vars
    BY <1>19 DEF vars
  <1> QED
    BY <1>1, <1>2, <1>3, <1>4, <1>5, <1>6, <1>7, <1>8, <1>9, <1>10, <1>11,
       <1>12, <1>13, <1>14, <1>15, <1>16, <1>17, <1>18, <1>19
       DEF Next, Step, Attempt, Destroyed

LEMMA PoolInit == Init => PoolInv
  <1> SUFFICES ASSUME Init PROVE PoolInv
    OBVIOUS
  <1>1. TypeOK
    BY TypeInit
  <1>2. Owned /\ ConnKept
    BY ClientAssumption DEF Init, Owned, ConnKept, Inside
  <1>3. ExclusiveLease /\ Leased = {}
    BY DEF Init, ExclusiveLease, Leases, Leased
  <1>4. CountMatches
    BY <1>3, FS_EmptySet DEF Init, CountMatches, Uncounted
  <1>5. IdleOrResetting /\ AgesIfLimited /\ Unanswered
    BY DEF Init, IdleOrResetting, AgesIfLimited, Unanswered
  <1> QED BY <1>1, <1>2, <1>3, <1>4, <1>5 DEF PoolInv, LeaseInv

(* The inductive invariant of the pool. *)
THEOREM PoolInvariant == Spec => []PoolInv
  <1>1. PoolInv /\ [Next]_vars => PoolInv'
    BY TypeStep, LeaseStep, CountStep, RestStep DEF PoolInv, LeaseInv
  <1> QED BY <1>1, PoolInit, PTL DEF Spec

(* No connection is ever handed to two clients, whatever in_use_count says *)
(* and whatever fails on the network.                                      *)
THEOREM LeasesAreExclusive == Spec => []ExclusiveLease
  BY PoolInvariant, PTL DEF PoolInv, LeaseInv

(* in_use_count is exact up to the step in progress and NULL releases. *)
THEOREM CountIsExact == Spec => []CountMatches
  BY PoolInvariant, PTL DEF PoolInv

(* No idle connection is CONNECTED or FAILED while the mutex is free. *)
THEOREM IdleAreReusable == Spec => []IdleConnectionsReusable
  <1>1. PoolInv => IdleConnectionsReusable
    BY ClientAssumption DEF PoolInv, LeaseInv, TypeOK, IdleConnectionsReusable,
       IdleOrResetting, Owned, Inside, Free, Leased
  <1> QED BY <1>1, PoolInvariant, PTL

(* A caller is refused or parked for a full pool only when it is full. *)
LEMMA FullMeansLeased ==
    ASSUME PoolInv, NEW k \in Client, pc[k] = "attempting", FindsNone
    PROVE  Free = {}
  <1>1. CASE \A i \in Index : agent[i] # "NULL"
    BY <1>1 DEF PoolInv, LeaseInv, TypeOK, Free, Leased
  <1>2. CASE in_use_count >= MaxSize
    <2>1. Uncounted = 0
      BY DEF PoolInv, LeaseInv, TypeOK, Owned, Uncounted, Inside
    <2>2. Cardinality(Leased) >= MaxSize
      BY <1>2, <2>1, LeasedFinite, SizeAssumption, NullAssumption
         DEF PoolInv, CountMatches, LeaseInv, TypeOK
    <2>3. IsFiniteSet(Index) /\ Cardinality(Index) = MaxSize
      BY SizeAssumption, FS_Interval DEF Index
    <2>4. Leased \subseteq Index
      BY DEF Leased
    <2>5. Leased = Index
      BY <2>2, <2>3, <2>4, FS_Subset, LeasedFinite, SizeAssumption
    <2> QED BY <2>5 DEF Free
  <1> QED BY <1>1, <1>2 DEF FindsNone

LEMMA FullStep ==
    ASSUME PoolInv, [Next]_vars, NEW k \in Client, pc[k] = "attempting",
           pc'[k] = "parked" \/ reply'[k] = "POOL_FULL"
    PROVE  FindsNone
  <1> USE DEF PoolInv, LeaseInv, TypeOK, Unanswered, poolVars, clientVars, Goto
  <1>1. reply[k] = "NONE"
    OBVIOUS
  <1>2. ASSUME NEW l \in Client, NEW i \in Index, TryConnection(l, i) PROVE FindsNone
    <2>1. PICK r \in PrepareResults(FoundState(i)) : reply' = [reply EXCEPT ![l] = r.error]
      BY <1>2 DEF TryConnection
    <2>2. FoundState(i) \in States
      BY DEF FoundState, States
    <2>3. r.error # "POOL_FULL"
      BY <2>2 DEF PrepareResults, OpenInitResults, InitResults,
                  ResetOrOpenInitResults, Result, States
    <2> QED BY <1>1, <1>2, <2>1, <2>3 DEF TryConnection
  <1>3. ASSUME NEW l \in Client, ReportFull(l) PROVE FindsNone
    BY <1>3 DEF ReportFull
  <1>4. ASSUME NEW l \in Client, Park(l) PROVE FindsNone
    BY <1>4 DEF Park
  <1>5. ASSUME NEW l \in Client,
               \/ Acquire(l) \/ Lock(l) \/ Tick(l) \/ Expire(l) \/ WakeSpuriously(l)
               \/ GiveUp(l) \/ Return(l) \/ Use(l) \/ Release(l) \/ ClearAgent(l)
               \/ ResetOrClose(l) \/ Signal(l) \/ ReleaseNull(l)
        PROVE  FALSE
    BY <1>1, <1>5 DEF Acquire, Lock, Tick, Expire, WakeSpuriously, GiveUp, Return,
       Use, Release, ClearAgent, ResetOrClose, Signal, ReleaseNull,
       WakeOneAndLeave, Parked
  <1>6. ASSUME (\E i \in Index : Age(i)) \/ Destroy \/ UNCHANGED vars PROVE FALSE
    BY <1>1, <1>6 DEF Age, Destroy, vars
  <1> QED BY <1>2, <1>3, <1>4, <1>5, <1>6 DEF Next, Step, Attempt, Destroyed

(* acquire says POOL_FULL, and makes a caller wait for a release, only     *)
(* when every connection is on loan, even after NULL releases made         *)
(* in_use_count smaller than the number of leases.                         *)
THEOREM FullIsFull == Spec => FullOnlyWhenAllLeased
  <1>1. PoolInv /\ [Next]_vars =>
          [\A k \in Client :
             pc[k] = "attempting" /\ (pc'[k] = "parked" \/ reply'[k] = "POOL_FULL")
                => Free = {}]_vars
    BY FullStep, FullMeansLeased
  <1> QED BY <1>1, PoolInvariant, PTL DEF Spec, FullOnlyWhenAllLeased

LEMMA LiveStep ==
    ASSUME PoolInv, [Next]_vars, NEW i \in Index,
           agent[i] = "NULL", agent'[i] = "USED"
    PROVE  state'[i] = "READY" /\ ~aged'[i]
  <1> USE DEF PoolInv, LeaseInv, TypeOK, poolVars, clientVars
  <1>1. ASSUME NEW k \in Client, NEW j \in Index, TryConnection(k, j)
        PROVE  state'[i] = "READY" /\ ~aged'[i]
    <2>1. PICK r \in PrepareResults(FoundState(j)) :
            /\ state' = [state EXCEPT ![j] = r.state]
            /\ aged' = [aged EXCEPT ![j] = @ /\ FoundState(j) \notin {"DISCONNECTED", "DEFUNCT"}]
            /\ IF r.error = "SUCCESS" THEN agent' = [agent EXCEPT ![j] = "USED"]
                                     ELSE UNCHANGED agent
      BY <1>1 DEF TryConnection
    <2>2. j = i /\ r.error = "SUCCESS"
      BY <2>1
    <2>3. pc[k] = "attempting"
      BY <1>1 DEF TryConnection
    <2>4. FoundState(i) \in {"DISCONNECTED", "READY", "DEFUNCT"}
      BY <2>3 DEF FoundState, IdleOrResetting, Owned, Inside
    <2>5. r.state = "READY"
      BY <2>2, <2>4 DEF PrepareResults, OpenInitResults, InitResults, Result
    <2>6. ~aged'[i]
      <3>1. CASE FoundState(i) \in {"DISCONNECTED", "DEFUNCT"}
        BY <2>1, <2>2, <3>1
      <3>2. CASE FoundState(i) = "READY"
        <4>1. ~aged[i]
          BY <3>2 DEF FoundState, Outlived, AgesIfLimited
        <4> QED BY <2>1, <2>2, <4>1
      <3> QED BY <2>4, <3>1, <3>2
    <2> QED BY <2>1, <2>2, <2>5, <2>6
  <1>2. ASSUME NEW k \in Client, ClearAgent(k) PROVE FALSE
    BY <1>2 DEF ClearAgent
  <1>3. ASSUME NEW l \in Client,
               \/ Acquire(l) \/ Lock(l) \/ Tick(l) \/ Expire(l) \/ WakeSpuriously(l)
               \/ ReportFull(l) \/ Park(l) \/ GiveUp(l) \/ Return(l) \/ Use(l)
               \/ Release(l) \/ ResetOrClose(l) \/ Signal(l) \/ ReleaseNull(l)
        PROVE  FALSE
    BY <1>3 DEF Acquire, Lock, Tick, Expire, WakeSpuriously, ReportFull, Park, GiveUp,
       Return, Use, Release, ResetOrClose, Signal, ReleaseNull
  <1>4. ASSUME (\E j \in Index : Age(j)) \/ Destroy \/ UNCHANGED vars PROVE FALSE
    BY <1>4 DEF Age, Destroy, vars
  <1> QED BY <1>1, <1>2, <1>3, <1>4 DEF Next, Step, Attempt, Destroyed

(* A connection handed out is READY, and was not kept beyond the maximum   *)
(* life time.                                                              *)
THEOREM HandedOutIsLive == Spec => HandsOutLive
  <1>1. PoolInv /\ [Next]_vars =>
          [\A i \in Index : agent[i] = "NULL" /\ agent'[i] = "USED"
             => state'[i] = "READY" /\ ~aged'[i]]_vars
    BY LiveStep
  <1> QED BY <1>1, PoolInvariant, PTL DEF Spec, HandsOutLive

-----------------------------------------------------------------------------
(* DirectPool implements LeasePool *)

LeaseMap == [i \in Index |-> LeaseHolder(i)]

(* What LeaseHolder says, in a state and in its successor. *)
LEMMA HolderIs ==
    ASSUME ExclusiveLease, NEW i \in Index
    PROVE  /\ \A k \in Client : LeaseHolder(i) = k <=> Leases(k, i)
           /\ LeaseHolder(i) = NoClient <=> agent[i] # "USED"
  BY ClientAssumption DEF ExclusiveLease, LeaseHolder

LEMMA HolderIsNext ==
    ASSUME ExclusiveLease', NEW i \in Index
    PROVE  /\ \A k \in Client : LeaseHolder(i)' = k <=> Leases(k, i)'
           /\ LeaseHolder(i)' = NoClient <=> agent'[i] # "USED"
           /\ LeaseHolder(i)' \in Client \cup {NoClient}
  BY ClientAssumption DEF ExclusiveLease, LeaseHolder

(* A step that leaves every lease alone leaves the abstract leases alone. *)
LEMMA SameLeases ==
    ASSUME ExclusiveLease, ExclusiveLease', NEW i \in Index,
           \A k \in Client : Leases(k, i)' <=> Leases(k, i)
    PROVE  LeaseHolder(i)' = LeaseHolder(i)
  BY HolderIs, HolderIsNext DEF ExclusiveLease

LEMMA SameMap ==
    ASSUME ExclusiveLease, ExclusiveLease',
           \A i \in Index, k \in Client : Leases(k, i)' <=> Leases(k, i)
    PROVE  LeaseMap' = LeaseMap
  BY SameLeases DEF LeaseMap

LEMMA RefineInit == Init => Abstract!Init
  <1> SUFFICES ASSUME Init PROVE Abstract!Init
    OBVIOUS
  <1>1. ExclusiveLease
    BY DEF Init, ExclusiveLease, Leases
  <1>2. \A i \in Index : LeaseHolder(i) = NoClient
    BY <1>1, HolderIs DEF Init
  <1> QED BY <1>2 DEF Init, Abstract!Init

LEMMA RefineStep ==
    ASSUME PoolInv, PoolInv', [Next]_vars
    PROVE  [Abstract!Next]_(Abstract!vars)
  <1> DEFINE Same == LeaseMap' = LeaseMap
             Goal == [Abstract!Next]_(Abstract!vars)
  <1>0. 0 \notin Index /\ ExclusiveLease /\ ExclusiveLease'
    BY SizeAssumption DEF Index, PoolInv, LeaseInv
  <1> USE DEF PoolInv, LeaseInv, TypeOK, poolVars, clientVars, Goto, Unlock
  <1>s. ASSUME Same, reply' = reply PROVE Goal
    BY <1>s DEF LeaseMap, Abstract!vars
  <1>a. ASSUME NEW k \in Client, pc[k] = "idle", Same,
               reply' = [reply EXCEPT ![k] = "NONE"]
        PROVE  Goal
    <2>1. \A i \in Index : LeaseMap[i] # k
      BY <1>0, <1>a, HolderIs DEF Leases, LeaseMap
    <2> QED BY <1>a, <2>1 DEF LeaseMap, Abstract!Ask, Abstract!Next
  <1>1. ASSUME NEW k \in Client, Acquire(k) PROVE Goal
    <2>1. Same
      BY <1>0, <1>1, SameMap DEF Acquire, Leases
    <2> QED BY <1>1, <1>a, <2>1 DEF Acquire
  <1>2. ASSUME NEW k \in Client, Lock(k) PROVE Goal
    <2>1. Same
      BY <1>0, <1>2, SameMap DEF Lock, Leases
    <2> QED BY <1>2, <1>s, <2>1 DEF Lock
  <1>3. ASSUME NEW k \in Client, NEW i \in Index, TryConnection(k, i) PROVE Goal
    <2>1. PICK r \in PrepareResults(FoundState(i)) :
            /\ reply' = [reply EXCEPT ![k] = r.error]
            /\ IF r.error = "SUCCESS"
               THEN /\ agent' = [agent EXCEPT ![i] = "USED"]
                    /\ conn' = [conn EXCEPT ![k] = i]
               ELSE UNCHANGED <<agent, conn>>
      BY <1>3 DEF TryConnection
    <2>2. /\ agent[i] = "NULL" /\ conn[k] = 0 /\ reply[k] = "NONE"
          /\ pc[k] = "attempting" /\ pc' = [pc EXCEPT ![k] = "returning"]
      BY <1>3 DEF TryConnection, FindsUnused, ConnKept, Unanswered
    <2>3. LeaseMap[i] = NoClient
      BY <1>0, <2>2, HolderIs DEF LeaseMap
    <2>4. CASE r.error = "SUCCESS"
      <3>1. \A j \in Index : LeaseMap[j] # k
        BY <1>0, <2>2, HolderIs DEF LeaseMap, Leases
      <3>2. Leases(k, i)'
        BY <2>1, <2>2, <2>4 DEF Leases
      <3>3. LeaseHolder(i)' = k
        BY <1>0, <3>2, HolderIsNext
      <3>4. ASSUME NEW j \in Index, j # i PROVE LeaseHolder(j)' = LeaseHolder(j)
        BY <1>0, <2>1, <2>2, <2>4, <3>4, SameLeases DEF Leases
      <3>5. LeaseMap' = [LeaseMap EXCEPT ![i] = k]
        BY <3>3, <3>4 DEF LeaseMap
      <3>6. Abstract!Grant(k, i)
        BY <2>1, <2>2, <2>3, <2>4, <3>1, <3>5 DEF LeaseMap, Abstract!Grant
      <3> QED BY <3>6 DEF Abstract!Next
    <2>5. CASE r.error # "SUCCESS"
      <3>1. Same
        BY <1>0, <2>1, <2>2, <2>5, SameMap DEF Leases
      <3>2. FoundState(i) \in States
        BY DEF FoundState, States
      <3>3. r.error \in {"NOT_RESOLVED", "CONNECTION_ERROR"}
        BY <2>5, <3>2 DEF PrepareResults, OpenInitResults, InitResults,
                          ResetOrOpenInitResults, Result, States
      <3>4. Abstract!RefuseBroken(k)
        BY <2>1, <2>2, <2>3, <3>1, <3>3 DEF LeaseMap, Abstract!RefuseBroken
      <3> QED BY <3>4 DEF Abstract!Next
    <2> QED BY <2>4, <2>5
  <1>4. ASSUME NEW k \in Client, ReportFull(k) PROVE Goal
    <2>1. Same
      BY <1>0, <1>4, SameMap DEF ReportFull, Leases, ConnKept
    <2>2. Free = {}
      BY <1>4, FullMeansLeased DEF ReportFull
    <2>3. \A i \in Index : LeaseMap[i] # NoClient
      BY <1>0, <2>2, HolderIs DEF LeaseMap, Free, Leased
    <2>4. Abstract!RefuseFull(k)
      BY <1>4, <2>1, <2>3 DEF ReportFull, Unanswered, LeaseMap, Abstract!RefuseFull
    <2> QED BY <2>4 DEF Abstract!Next
  <1>5. ASSUME NEW k \in Client, Park(k) PROVE Goal
    <2>1. Same
      BY <1>0, <1>5, SameMap DEF Park, Leases
    <2> QED BY <1>5, <1>s, <2>1 DEF Park
  <1>6. ASSUME NEW k \in Client, Tick(k) PROVE Goal
    <2>1. Same
      BY <1>0, <1>6, SameMap DEF Tick, Leases
    <2> QED BY <1>6, <1>s, <2>1 DEF Tick
  <1>7. ASSUME NEW k \in Client, Expire(k) PROVE Goal
    <2>1. Same
      BY <1>0, <1>7, SameMap DEF Expire, Leases
    <2> QED BY <1>7, <1>s, <2>1 DEF Expire
  <1>8. ASSUME NEW k \in Client, WakeSpuriously(k) PROVE Goal
    <2>1. Same
      BY <1>0, <1>8, SameMap DEF WakeSpuriously, Leases
    <2> QED BY <1>8, <1>s, <2>1 DEF WakeSpuriously
  <1>9. ASSUME NEW k \in Client, GiveUp(k) PROVE Goal
    <2>1. Same
      BY <1>0, <1>9, SameMap DEF GiveUp, Leases, ConnKept
    <2>2. Abstract!RefuseLate(k)
      BY <1>9, <2>1 DEF GiveUp, Unanswered, LeaseMap, Abstract!RefuseLate
    <2> QED BY <2>2 DEF Abstract!Next
  <1>10. ASSUME NEW k \in Client, Return(k) PROVE Goal
    <2>1. Same
      BY <1>0, <1>10, SameMap DEF Return, Leases
    <2> QED BY <1>10, <1>s, <2>1 DEF Return
  <1>11. ASSUME NEW k \in Client, Use(k) PROVE Goal
    <2>1. Same
      BY <1>0, <1>11, SameMap DEF Use, Leases
    <2> QED BY <1>11, <1>s, <2>1 DEF Use
  <1>12. ASSUME NEW k \in Client, Release(k) PROVE Goal
    <2>1. Same
      BY <1>0, <1>12, SameMap DEF Release, Leases
    <2> QED BY <1>12, <1>s, <2>1 DEF Release
  <1>13. ASSUME NEW k \in Client, ClearAgent(k) PROVE Goal
    <2>1. PICK i \in Index : conn[k] = i /\ Leases(k, i)
      BY <1>13 DEF ClearAgent, ConnKept, Leases
    <2>2. LeaseMap[i] = k
      BY <1>0, <2>1, HolderIs DEF LeaseMap
    <2>3. LeaseHolder(i)' = NoClient
      BY <1>0, <1>13, <2>1, HolderIsNext DEF ClearAgent
    <2>4. ASSUME NEW j \in Index, j # i PROVE LeaseHolder(j)' = LeaseHolder(j)
      BY <1>0, <1>13, <2>1, <2>4, SameLeases DEF ClearAgent, Leases
    <2>5. LeaseMap' = [LeaseMap EXCEPT ![i] = NoClient]
      BY <2>3, <2>4 DEF LeaseMap
    <2>6. Abstract!GiveBack(k, i)
      BY <1>13, <2>2, <2>5 DEF ClearAgent, LeaseMap, Abstract!GiveBack
    <2> QED BY <2>6 DEF Abstract!Next
  <1>14. ASSUME NEW k \in Client, ResetOrClose(k) PROVE Goal
    <2>1. Same
      BY <1>0, <1>14, SameMap DEF ResetOrClose, Leases
    <2> QED BY <1>14, <1>s, <2>1 DEF ResetOrClose
  <1>15. ASSUME NEW k \in Client, Signal(k) PROVE Goal
    <2>1. Same
      BY <1>0, <1>15, SameMap DEF Signal, WakeOneAndLeave, Parked, Leases
    <2> QED BY <1>15, <1>s, <2>1 DEF Signal
  <1>16. ASSUME NEW k \in Client, ReleaseNull(k) PROVE Goal
    <2>1. Same
      BY <1>0, <1>16, SameMap DEF ReleaseNull, Leases
    <2> QED BY <1>16, <1>a, <2>1 DEF ReleaseNull
  <1>17. ASSUME NEW i \in Index, Age(i) PROVE Goal
    <2>1. Same
      BY <1>0, <1>17, SameMap DEF Age, Leases
    <2> QED BY <1>17, <1>s, <2>1 DEF Age
  <1>18. CASE Destroy
    <2>1. Same
      BY <1>0, <1>18, SameMap DEF Destroy, Leases
    <2> QED BY <1>18, <1>s, <2>1 DEF Destroy
  <1>19. CASE UNCHANGED vars
    <2>1. Same
      BY <1>0, <1>19, SameMap DEF vars, Leases
    <2> QED BY <1>19, <1>s, <2>1 DEF vars
  <1> QED
    BY <1>1, <1>2, <1>3, <1>4, <1>5, <1>6, <1>7, <1>8, <1>9, <1>10, <1>11,
       <1>12, <1>13, <1>14, <1>15, <1>16, <1>17, <1>18, <1>19
       DEF Next, Step, Attempt, Destroyed

(* Every behaviour of the pool is one of the abstract pool of leases. *)
THEOREM PoolImplementsLeases == Spec => ImplementsLeasePool
  <1>1. PoolInv /\ PoolInv' /\ [Next]_vars => [Abstract!Next]_(Abstract!vars)
    BY RefineStep
  <1> QED BY <1>1, RefineInit, PoolInvariant, PTL DEF Spec, ImplementsLeasePool, Abstract!Spec

-----------------------------------------------------------------------------
(* Nobody is left parked beside a free connection *)

Woken == {k \in Client : pc[k] = "woken"}

(* The owner of the mutex is about to take a connection, or about to       *)
(* signal the release of one.                                              *)
Pending == IF mutex = NoClient THEN 0
           ELSE IF pc[mutex] \in {"attempting", "resetting", "signalling"} THEN 1
           ELSE 0

(* Each free connection has somebody on the way to it while a client is    *)
(* parked.                                                                 *)
WakeInv == Parked # {} => Cardinality(Free) <= Cardinality(Woken) + Pending

LEMMA FiniteSets ==
    ASSUME IsFiniteSet(Client)
    PROVE  /\ IsFiniteSet(Free) /\ Cardinality(Free) \in Nat
           /\ IsFiniteSet(Woken) /\ Cardinality(Woken) \in Nat
  <1>1. IsFiniteSet(Index)
    BY SizeAssumption, FS_Interval DEF Index
  <1>2. Free \subseteq Index /\ Woken \subseteq Client
    BY DEF Free, Woken
  <1> QED BY <1>1, <1>2, FS_Subset, FS_CardinalityType

LEMMA WakeStep ==
    ASSUME IsFiniteSet(Client), Faults \subseteq {"reset"},
           PoolInv, WakeInv, [Next]_vars
    PROVE  WakeInv'
  <1> USE ClientAssumption DEF PoolInv, LeaseInv, TypeOK, poolVars, clientVars, Goto, Unlock
  <1>n. /\ IsFiniteSet(Free) /\ Cardinality(Free) \in Nat
        /\ IsFiniteSet(Woken) /\ Cardinality(Woken) \in Nat
    BY FiniteSets
  <1>0. Pending \in {0, 1} /\ Pending' \in {0, 1}
    BY DEF Pending
  <1>s. ASSUME Parked' \subseteq Parked, Free' = Free, Woken' = Woken, Pending' = Pending
        PROVE  WakeInv'
    BY <1>s DEF WakeInv
  <1>o. ASSUME NEW k \in Client, pc[k] \notin Inside, mutex' = mutex,
               \A l \in Client : l # k => pc'[l] = pc[l]
        PROVE  Pending' = Pending
    BY <1>o DEF Pending, Owned
  <1>1. ASSUME NEW k \in Client, Acquire(k) PROVE WakeInv'
    BY <1>1, <1>s, <1>o DEF Acquire, Inside, Parked, Free, Leased, Woken
  <1>2. ASSUME NEW k \in Client, Lock(k) PROVE WakeInv'
    <2>1. Pending = 0 /\ Pending' = 1 /\ Parked' = Parked /\ Free' = Free
      BY <1>2 DEF Lock, Pending, Parked, Free, Leased
    <2>2. Woken' = Woken \ {k}
      BY <1>2 DEF Lock, Woken
    <2>3. CASE k \in Woken
      <3>1. Cardinality(Woken \ {k}) = Cardinality(Woken) - 1
        BY <1>n, <2>3, FS_RemoveElement
      <3> QED BY <1>n, <2>1, <2>2, <3>1 DEF WakeInv
    <2>4. CASE k \notin Woken
      <3>1. Woken' = Woken
        BY <2>2, <2>4
      <3> QED BY <1>n, <2>1, <3>1 DEF WakeInv
    <2> QED BY <2>3, <2>4
  <1>3. ASSUME NEW k \in Client, NEW i \in Index, TryConnection(k, i) PROVE WakeInv'
    <2>1. Pending = 1 /\ Pending' = 0 /\ Parked' = Parked /\ Woken' = Woken
      BY <1>3 DEF TryConnection, Pending, Owned, Inside, Parked, Woken
    <2>2. agent' = [agent EXCEPT ![i] = "USED"]
      <3>1. PICK r \in PrepareResults(FoundState(i)) :
              IF r.error = "SUCCESS" THEN agent' = [agent EXCEPT ![i] = "USED"]
                                     ELSE UNCHANGED agent
        BY <1>3 DEF TryConnection
      <3>2. FoundState(i) \in States
        BY DEF FoundState, States
      <3>3. r.error = "SUCCESS"
        BY <3>2 DEF PrepareResults, OpenInitResults, InitResults,
                    ResetOrOpenInitResults, Result, States
      <3> QED BY <3>1, <3>3
    <2>3. i \in Free /\ Free' = Free \ {i}
      BY <1>3, <2>2 DEF TryConnection, FindsUnused, Free, Leased
    <2>4. Cardinality(Free') = Cardinality(Free) - 1
      BY <1>n, <2>3, FS_RemoveElement
    <2> QED BY <1>n, <2>1, <2>4 DEF WakeInv
  <1>4. ASSUME NEW k \in Client, ReportFull(k) PROVE WakeInv'
    <2>1. Free' = {} /\ Woken' = Woken
      BY <1>4, FullMeansLeased DEF ReportFull, Free, Leased, Woken
    <2> QED BY <1>0, <1>n, <2>1, FS_EmptySet DEF WakeInv
  <1>5. ASSUME NEW k \in Client, Park(k) PROVE WakeInv'
    <2>1. Free' = {} /\ Woken' = Woken
      BY <1>5, FullMeansLeased DEF Park, Free, Leased, Woken
    <2> QED BY <1>0, <1>n, <2>1, FS_EmptySet DEF WakeInv
  <1>6. ASSUME NEW k \in Client, Tick(k) PROVE WakeInv'
    BY <1>6, <1>s DEF Tick, Parked, Free, Leased, Woken, Pending
  <1>7. ASSUME NEW k \in Client, Expire(k) PROVE WakeInv'
    BY <1>7, <1>s, <1>o DEF Expire, Inside, Parked, Free, Leased, Woken
  <1>8. ASSUME NEW k \in Client, WakeSpuriously(k) PROVE WakeInv'
    <2>1. Pending' = Pending /\ Free' = Free
      BY <1>8, <1>o DEF WakeSpuriously, Inside, Free, Leased
    <2>2. k \notin Woken /\ Woken' = Woken \cup {k} /\ Parked # {}
      BY <1>8 DEF WakeSpuriously, Woken, Parked
    <2>3. Cardinality(Woken') = Cardinality(Woken) + 1
      BY <1>n, <2>2, FS_AddElement
    <2> QED BY <1>0, <1>n, <2>1, <2>2, <2>3 DEF WakeInv
  <1>9. ASSUME NEW k \in Client, GiveUp(k) PROVE WakeInv'
    <2>1. Pending' = 0 /\ Pending = 0
      BY <1>9 DEF GiveUp, Pending
    <2> QED BY <1>9, <1>s, <2>1 DEF GiveUp, Parked, Free, Leased, Woken
  <1>10. ASSUME NEW k \in Client, Return(k) PROVE WakeInv'
    <2>1. Pending' = 0 /\ Pending = 0
      BY <1>10 DEF Return, Pending, Owned, Inside
    <2> QED BY <1>10, <1>s, <2>1 DEF Return, Parked, Free, Leased, Woken
  <1>11. ASSUME NEW k \in Client, Use(k) PROVE WakeInv'
    BY <1>11, <1>s DEF Use, Parked, Free, Leased, Woken, Pending
  <1>12. ASSUME NEW k \in Client, Release(k) PROVE WakeInv'
    BY <1>12, <1>s, <1>o DEF Release, Inside, Parked, Free, Leased, Woken
  <1>13. ASSUME NEW k \in Client, ClearAgent(k) PROVE WakeInv'
    <2>1. Pending = 0 /\ Pending' = 1 /\ Parked' = Parked /\ Woken' = Woken
      BY <1>13 DEF ClearAgent, Pending, Parked, Woken
    <2>2. conn[k] \in Index \ Free /\ Free' = Free \cup {conn[k]}
      BY <1>13 DEF ClearAgent, ConnKept, ExclusiveLease, Leases, Free, Leased
    <2>3. Cardinality(Free') = Cardinality(Free) + 1
      BY <1>n, <2>2, FS_AddElement
    <2> QED BY <1>n, <2>1, <2>3 DEF WakeInv
  <1>14. ASSUME NEW k \in Client, ResetOrClose(k) PROVE WakeInv'
    <2>1. Pending = 1 /\ Pending' = 1
      BY <1>14 DEF ResetOrClose, Pending, Owned, Inside
    <2> QED BY <1>14, <1>s, <2>1 DEF ResetOrClose, Parked, Free, Leased, Woken
  <1>15. ASSUME NEW k \in Client, Signal(k) PROVE WakeInv'
    <2>1. Pending = 1 /\ Pending' = 0 /\ Free' = Free
      BY <1>15 DEF Signal, Pending, Owned, Inside, Free, Leased
    <2>2. CASE Parked = {}
      BY <1>15, <2>2 DEF Signal, WakeOneAndLeave, Parked, WakeInv
    <2>3. ASSUME NEW w \in Parked, pc' = [pc EXCEPT ![k] = "idle", ![w] = "woken"]
          PROVE  WakeInv'
      <3>1. w \notin Woken /\ Woken' = Woken \cup {w}
        BY <1>15, <2>3 DEF Signal, Woken, Parked
      <3>2. Cardinality(Woken') = Cardinality(Woken) + 1
        BY <1>n, <3>1, FS_AddElement
      <3> QED BY <1>n, <2>1, <2>3, <3>2 DEF WakeInv
    <2> QED BY <1>15, <2>2, <2>3 DEF Signal, WakeOneAndLeave
  <1>16. ASSUME NEW k \in Client, ReleaseNull(k) PROVE WakeInv'
    BY <1>16, <1>s DEF ReleaseNull, Parked, Free, Leased, Woken, Pending
  <1>17. ASSUME NEW i \in Index, Age(i) PROVE WakeInv'
    BY <1>17, <1>s DEF Age, Parked, Free, Leased, Woken, Pending
  <1>18. CASE Destroy
    BY <1>18, <1>s DEF Destroy, Parked, Free, Leased, Woken, Pending
  <1>19. CASE UNCHANGED vars
    BY <1>19, <1>s DEF vars, Parked, Free, Leased, Woken, Pending
  <1> QED
    BY <1>1, <1>2, <1>3, <1>4, <1>5, <1>6, <1>7, <1>8, <1>9, <1>10, <1>11,
       <1>12, <1>13, <1>14, <1>15, <1>16, <1>17, <1>18, <1>19
       DEF Next, Step, Attempt, Destroyed

(* As long as connections can be opened, release wakes enough waiters: no  *)
(* acquire sleeps beside a free connection that nobody else is going for.  *)
THEOREM WakeupsAreNotLost ==
    ASSUME IsFiniteSet(Client), Faults \subseteq {"reset"}
    PROVE  Spec => []NoLostWakeup
  <1>1. Init => WakeInv
    BY DEF Init, WakeInv, Parked
  <1>2. PoolInv /\ WakeInv /\ [Next]_vars => WakeInv'
    BY WakeStep
  <1>3. PoolInv /\ WakeInv => NoLostWakeup
    BY FiniteSets DEF WakeInv, NoLostWakeup, Pending, Woken
  <1> QED BY <1>1, <1>2, <1>3, PoolInvariant, PTL DEF Spec
=============================================================================
