------------------------ MODULE LeastConnectedProofs ------------------------
(***************************************************************************)
(* Proofs about LeastConnected, for every number of servers and every      *)
(* finite set of threads: as long as all servers are equally used, the     *)
(* passes start round-robin and each selects the server it starts with, so *)
(* that the selections are spread evenly although threads overlap.         *)
(***************************************************************************)
EXTENDS LeastConnected, FiniteSetTheorems, TLAPS

-----------------------------------------------------------------------------
(* The inductive invariant *)

TypesOK ==
    /\ offset \in Nat /\ level \in BOOLEAN
    /\ in_use \in [Indexes -> 0 .. MaxUse]
    /\ start \in [Selector -> Indexes \cup {NotSelecting}]
    /\ looked \in [Selector -> 0 .. Size]
    /\ best \in [Selector -> Indexes \cup {None}]
    /\ least \in [Selector -> 0 .. IntMax]
    /\ picks \in [Indexes -> Nat]

(* A pass that has looked at a server has one to return. *)
HasBest ==
    \A k \in Selector : Selecting(k) =>
        /\ looked[k] = 0 => least[k] = IntMax
        /\ looked[k] > 0 => best[k] \in Indexes

(* The first server that a pass looks at is not worse than those after it. *)
FirstIsBest ==
    level => /\ \A i, j \in Indexes : in_use[i] = in_use[j]
             /\ \A k \in Selector : Selecting(k) /\ looked[k] > 0 =>
                   best[k] = start[k] /\ least[k] = in_use[start[k]]

(* How many passes that started with a server are not over. *)
Passing(i) == Cardinality({k \in Selector : start[k] = i})

(* Of all passes begun, as many started with one server as with another:   *)
(* up to one more with those that the last round has come to.              *)
Extra(n, i) == IF i \in 1 .. (n % Size) THEN 1 ELSE 0
RoundRobin ==
    level => \E rounds \in Int : \A i \in Indexes : picks[i] + Passing(i) = rounds + Extra(offset, i)

SelectionInv == TypesOK /\ HasBest /\ FirstIsBest /\ RoundRobin

-----------------------------------------------------------------------------
(* Lemmas about remainders *)

\* A quotient and a remainder are determined by the number they make up.
LEMMA QuotientUnique ==
    ASSUME NEW s \in Nat \ {0}, NEW a \in Int, NEW b \in Int,
           NEW q \in 0 .. s - 1, NEW r \in 0 .. s - 1, s * a + q = s * b + r
    PROVE  a = b /\ q = r
  <1>1. ~(a < b)
    <2> SUFFICES ASSUME a < b PROVE FALSE
      OBVIOUS
    <2>1. s * (b - (a + 1)) >= 0
      OBVIOUS
    <2>2. s * (b - (a + 1)) = (s * b - s * a) - s
      OBVIOUS
    <2> QED
      BY <2>1, <2>2
  <1>2. ~(b < a)
    <2> SUFFICES ASSUME b < a PROVE FALSE
      OBVIOUS
    <2>1. s * (a - (b + 1)) >= 0
      OBVIOUS
    <2>2. s * (a - (b + 1)) = (s * a - s * b) - s
      OBVIOUS
    <2> QED
      BY <2>1, <2>2
  <1>3. a = b
    BY <1>1, <1>2
  <1> QED
    BY <1>3

\* What a remainder is.
LEMMA RemainderOf ==
    ASSUME NEW s \in Nat \ {0}, NEW n \in Nat
    PROVE  n % s \in 0 .. s - 1 /\ n \div s \in Int /\ s * (n \div s) + (n % s) = n
  <1>1. n % s \in 0 .. s - 1 /\ n \div s \in Int
    OBVIOUS
  <1>2. n = s * (n \div s) + (n % s)
    OBVIOUS
  <1> QED
    BY <1>1, <1>2

\* The remainders of successive numbers go round.
LEMMA RemainderRound ==
    ASSUME NEW s \in Nat \ {0}, NEW n \in Nat
    PROVE  (n + 1) % s = IF n % s = s - 1 THEN 0 ELSE (n % s) + 1
  <1> DEFINE a == n \div s
             q == n % s
             b == (n + 1) \div s
             r == (n + 1) % s
  <1>1. q \in 0 .. s - 1 /\ a \in Int /\ s * a + q = n
    BY RemainderOf
  <1>2. r \in 0 .. s - 1 /\ b \in Int /\ s * b + r = n + 1
    BY RemainderOf
  <1> HIDE DEF a, q, b, r
  <1>3. CASE q = s - 1
    <2>1. s * (a + 1) = s * a + s
      BY <1>1
    <2>2. s * (a + 1) + 0 = s * b + r /\ a + 1 \in Int /\ 0 \in 0 .. s - 1
      BY <1>1, <1>2, <1>3, <2>1
    <2>3. 0 = r
      BY <1>2, <2>2, QuotientUnique
    <2> QED
      BY <1>3, <2>3 DEF q, r
  <1>4. CASE q # s - 1
    <2>1. s * a + (q + 1) = s * b + r /\ q + 1 \in 0 .. s - 1
      BY <1>1, <1>2, <1>4
    <2>2. q + 1 = r
      BY <1>1, <1>2, <2>1, QuotientUnique
    <2> QED
      BY <1>4, <2>2 DEF q, r
  <1> QED
    BY <1>3, <1>4

\* A number below the divisor is its own remainder.
LEMMA RemainderSmall ==
    ASSUME NEW s \in Nat \ {0}, NEW n \in 0 .. s - 1
    PROVE  n % s = n
  OBVIOUS

-----------------------------------------------------------------------------
(* Lemmas about the operators *)

\* A pass looks at servers there are, first at the one it starts with.
LEMMA AtIsIndex ==
    ASSUME NEW s \in Indexes, NEW n \in Nat
    PROVE  At(s, n) \in Indexes /\ At(s, 0) = s
  <1>1. Size \in Nat \ {0} /\ s \in 0 .. Size - 1 /\ s + n \in Nat
    BY SizeAssumption DEF Indexes
  <1>2. (s + n) % Size \in 0 .. Size - 1
    BY <1>1, RemainderOf
  <1>3. s + 0 = s /\ s % Size = s
    BY <1>1, RemainderSmall
  <1> QED
    BY <1>2, <1>3 DEF At, Indexes

\* How many passes started with a server, once a pass begins or ends.
LEMMA PassingWritten ==
    ASSUME NEW k \in Selector, NEW new, start[k] # new,
           start \in [Selector -> Indexes \cup {NotSelecting}],
           start' = [start EXCEPT ![k] = new], NEW i
    PROVE  /\ Passing(i) \in Nat /\ Passing(i)' \in Nat
           /\ i = new => Passing(i)' = Passing(i) + 1
           /\ i = start[k] => Passing(i)' = Passing(i) - 1
           /\ i \notin {start[k], new} => Passing(i)' = Passing(i)
  <1> DEFINE S == {m \in Selector : start[m] = i}
             T == {m \in Selector : start'[m] = i}
  <1>1. IsFiniteSet(S) /\ IsFiniteSet(T)
    BY FS_Subset, SelectorAssumption
  <1>2. Cardinality(S) \in Nat /\ Cardinality(T) \in Nat
    BY <1>1, FS_CardinalityType
  <1>3. Passing(i) = Cardinality(S) /\ Passing(i)' = Cardinality(T)
    BY DEF Passing
  <1>4. CASE i = new
    <2>1. T = S \cup {k} /\ k \notin S
      BY <1>4
    <2>2. Cardinality(T) = Cardinality(S) + 1
      BY <1>1, <2>1, FS_AddElement
    <2> HIDE DEF S, T
    <2> QED
      BY <1>2, <1>3, <1>4, <2>2
  <1>5. CASE i = start[k]
    <2>1. T = S \ {k} /\ k \in S
      BY <1>5
    <2>2. Cardinality(T) = Cardinality(S) - 1
      BY <1>1, <2>1, FS_RemoveElement
    <2> HIDE DEF S, T
    <2> QED
      BY <1>2, <1>3, <1>5, <2>2
  <1>6. CASE i \notin {start[k], new}
    <2>1. T = S
      BY <1>6
    <2> HIDE DEF S, T
    <2> QED
      BY <1>2, <1>3, <1>6, <2>1
  <1> QED
    BY <1>4, <1>5, <1>6

\* The pass that begins next starts with the server whose turn it is.
LEMMA ExtraWritten ==
    ASSUME NEW n \in Nat
    PROVE  /\ StartIndex(n + 1) \in Indexes
           /\ \E round \in 0 .. 1 : \A i \in Indexes :
                 Extra(n, i) + (IF i = StartIndex(n + 1) THEN 1 ELSE 0) = round + Extra(n + 1, i)
  <1> DEFINE q == n % Size
             r == (n + 1) % Size
  <1>1. Size \in Nat \ {0}
    BY SizeAssumption
  <1>2. q \in 0 .. Size - 1 /\ r \in 0 .. Size - 1
    BY <1>1, RemainderOf
  <1>3. r = IF q = Size - 1 THEN 0 ELSE q + 1
    BY <1>1, RemainderRound
  <1>4. StartIndex(n + 1) = r
    BY DEF StartIndex
  <1>5. \A i : Extra(n, i) = (IF i \in 1 .. q THEN 1 ELSE 0)
               /\ Extra(n + 1, i) = (IF i \in 1 .. r THEN 1 ELSE 0)
    BY DEF Extra
  <1> HIDE DEF q, r
  <1>6. CASE q = Size - 1
    <2>1. \A i \in 0 .. Size - 1 : (IF i \in 1 .. q THEN 1 ELSE 0) + (IF i = r THEN 1 ELSE 0)
                                      = 1 + (IF i \in 1 .. r THEN 1 ELSE 0)
      BY <1>1, <1>2, <1>3, <1>6
    <2>2. \A i \in Indexes :
             Extra(n, i) + (IF i = StartIndex(n + 1) THEN 1 ELSE 0) = 1 + Extra(n + 1, i)
      BY <1>4, <1>5, <2>1 DEF Indexes
    <2> QED
      BY <1>2, <1>4, <2>2 DEF Indexes
  <1>7. CASE q # Size - 1
    <2>1. \A i \in 0 .. Size - 1 : (IF i \in 1 .. q THEN 1 ELSE 0) + (IF i = r THEN 1 ELSE 0)
                                      = 0 + (IF i \in 1 .. r THEN 1 ELSE 0)
      BY <1>1, <1>2, <1>3, <1>7
    <2>2. \A i \in Indexes :
             Extra(n, i) + (IF i = StartIndex(n + 1) THEN 1 ELSE 0) = 0 + Extra(n + 1, i)
      BY <1>4, <1>5, <2>1 DEF Indexes
    <2> QED
      BY <1>2, <1>4, <2>2 DEF Indexes
  <1> QED
    BY <1>2, <1>4, <1>6, <1>7 DEF Indexes

-----------------------------------------------------------------------------
(* The steps *)

\* Every step preserves the types, and a pass finds a server.
LEMMA TypesStep ==
    ASSUME TypesOK, HasBest, Next
    PROVE  TypesOK' /\ HasBest'
  <1> USE SizeAssumption, BoundAssumption
  <1>0. NotSelecting \notin Indexes /\ None \notin Indexes
    BY DEF NotSelecting, None, Indexes
  <1>1. ASSUME NEW k \in Selector, Begin(k) PROVE TypesOK' /\ HasBest'
    <2>1. StartIndex(offset + 1) \in Indexes
      BY ExtraWritten DEF TypesOK
    <2>2. IntMax \in 0 .. IntMax
      BY DEF IntMax
    <2>3. TypesOK'
      BY <1>1, <2>1, <2>2 DEF TypesOK, Begin
    <2>4. HasBest'
      BY <1>1 DEF HasBest, Begin, Selecting, TypesOK
    <2> QED
      BY <2>3, <2>4
  <1>2. ASSUME NEW k \in Selector, Look(k) PROVE TypesOK' /\ HasBest'
    <2> DEFINE i == At(start[k], looked[k])
    <2>1. start[k] \in Indexes /\ looked[k] \in Nat /\ looked[k] < Size
      BY <1>2 DEF Look, Selecting, TypesOK
    <2>2. i \in Indexes /\ in_use[i] \in 0 .. MaxUse
      BY <2>1, AtIsIndex DEF TypesOK
    <2>3. /\ looked' = [looked EXCEPT ![k] = looked[k] + 1]
          /\ IF in_use[i] < least[k]
             THEN best' = [best EXCEPT ![k] = i] /\ least' = [least EXCEPT ![k] = in_use[i]]
             ELSE UNCHANGED <<best, least>>
          /\ UNCHANGED <<offset, in_use, start, picks, level>>
      BY <1>2 DEF Look, Better
    <2> HIDE DEF i
    <2>4. in_use[i] \in 0 .. IntMax /\ in_use[i] < IntMax
      BY <2>2 DEF IntMax
    <2>5. TypesOK'
      BY <2>1, <2>2, <2>3, <2>4 DEF TypesOK
    <2>6. best'[k] \in Indexes
      <3>1. CASE looked[k] = 0
        <4>1. least[k] = IntMax
          BY <1>2, <3>1 DEF HasBest, Look
        <4> QED
          BY <2>2, <2>3, <2>4, <4>1 DEF TypesOK
      <3>2. CASE looked[k] > 0
        <4>1. best[k] \in Indexes
          BY <1>2, <3>2 DEF HasBest, Look
        <4> QED
          BY <2>2, <2>3, <4>1 DEF TypesOK
      <3> QED
        BY <2>1, <3>1, <3>2
    <2>7. HasBest'
      <3> SUFFICES ASSUME NEW m \in Selector, Selecting(m)'
                   PROVE  (looked'[m] = 0 => least'[m] = IntMax) /\ (looked'[m] > 0 => best'[m] \in Indexes)
        BY DEF HasBest
      <3>1. CASE m = k
        BY <2>1, <2>3, <2>6, <3>1 DEF TypesOK
      <3>2. CASE m # k
        <4>1. looked'[m] = looked[m] /\ least'[m] = least[m] /\ best'[m] = best[m] /\ Selecting(m)
          BY <2>3, <3>2 DEF TypesOK, Selecting
        <4> QED
          BY <4>1 DEF HasBest
      <3> QED
        BY <3>1, <3>2
    <2> QED
      BY <2>5, <2>7
  <1>3. ASSUME NEW k \in Selector, Finish(k) PROVE TypesOK' /\ HasBest'
    <2>1. best[k] \in Indexes
      BY <1>3 DEF Finish, HasBest
    <2> QED
      BY <1>3, <2>1 DEF TypesOK, HasBest, Finish, Selecting
  <1>4. ASSUME NEW i \in Indexes, NEW count \in 0 .. MaxUse, Use(i, count) PROVE TypesOK' /\ HasBest'
    BY <1>4 DEF TypesOK, HasBest, Use, Selecting
  <1> QED
    BY <1>1, <1>2, <1>3, <1>4 DEF Next

\* While the servers are equally used, a pass stays with the first it sees.
LEMMA FirstIsBestStep ==
    ASSUME TypesOK, HasBest, FirstIsBest, Next
    PROVE  FirstIsBest'
  <1> USE SizeAssumption, BoundAssumption
  <1>1. ASSUME NEW k \in Selector, Begin(k) PROVE FirstIsBest'
    BY <1>1 DEF FirstIsBest, Begin, Selecting, TypesOK
  <1>2. ASSUME NEW k \in Selector, Look(k) PROVE FirstIsBest'
    <2> DEFINE i == At(start[k], looked[k])
    <2>1. start[k] \in Indexes /\ looked[k] \in Nat
      BY <1>2 DEF Look, Selecting, TypesOK
    <2>2. i \in Indexes /\ in_use[i] \in 0 .. MaxUse /\ (looked[k] = 0 => i = start[k])
      BY <2>1, AtIsIndex DEF TypesOK
    <2>3. /\ looked' = [looked EXCEPT ![k] = looked[k] + 1]
          /\ IF in_use[i] < least[k]
             THEN best' = [best EXCEPT ![k] = i] /\ least' = [least EXCEPT ![k] = in_use[i]]
             ELSE UNCHANGED <<best, least>>
          /\ UNCHANGED <<offset, in_use, start, picks, level>>
      BY <1>2 DEF Look, Better
    <2> HIDE DEF i
    <2> SUFFICES ASSUME level, NEW m \in Selector, Selecting(m)', looked'[m] > 0
                 PROVE  best'[m] = start[m] /\ least'[m] = in_use[start[m]]
      BY <2>3 DEF FirstIsBest
    <2>4. \A a, b \in Indexes : in_use[a] = in_use[b]
      BY DEF FirstIsBest
    <2>5. CASE m = k /\ looked[k] = 0
      <3>1. least[k] = IntMax /\ i = start[k]
        BY <1>2, <2>2, <2>5 DEF HasBest, Look
      <3>2. in_use[i] < least[k]
        BY <2>2, <3>1 DEF IntMax
      <3> QED
        BY <2>3, <2>5, <3>1, <3>2 DEF TypesOK
    <2>6. CASE m = k /\ looked[k] > 0
      <3>1. best[k] = start[k] /\ least[k] = in_use[start[k]]
        BY <1>2, <2>6 DEF FirstIsBest, Look
      <3>2. ~(in_use[i] < least[k])
        BY <2>1, <2>2, <2>4, <3>1
      <3> QED
        BY <2>3, <2>6, <3>1, <3>2
    <2>7. CASE m # k
      <3>1. looked'[m] = looked[m] /\ least'[m] = least[m] /\ best'[m] = best[m] /\ Selecting(m)
        BY <2>3, <2>7 DEF TypesOK, Selecting
      <3> QED
        BY <3>1 DEF FirstIsBest
    <2> QED
      BY <2>1, <2>5, <2>6, <2>7
  <1>3. ASSUME NEW k \in Selector, Finish(k) PROVE FirstIsBest'
    BY <1>3 DEF FirstIsBest, Finish, Selecting, TypesOK
  <1>4. ASSUME NEW i \in Indexes, NEW count \in 0 .. MaxUse, Use(i, count) PROVE FirstIsBest'
    BY <1>4 DEF FirstIsBest, Use
  <1> QED
    BY <1>1, <1>2, <1>3, <1>4 DEF Next

\* The passes begin round-robin, and each pick ends one.
LEMMA RoundRobinStep ==
    ASSUME TypesOK, HasBest, FirstIsBest, RoundRobin, Next
    PROVE  RoundRobin'
  <1> USE SizeAssumption, BoundAssumption
  <1>0. NotSelecting \notin Indexes
    BY DEF NotSelecting, Indexes
  <1>1. ASSUME NEW k \in Selector, Begin(k) PROVE RoundRobin'
    <2> SUFFICES ASSUME level
                 PROVE  \E rounds \in Int : \A i \in Indexes :
                           picks[i] + Passing(i)' = rounds + Extra(offset + 1, i)
      BY <1>1 DEF RoundRobin, Begin, Extra
    <2> DEFINE first == StartIndex(offset + 1)
    <2>1. PICK rounds \in Int : \A i \in Indexes : picks[i] + Passing(i) = rounds + Extra(offset, i)
      BY DEF RoundRobin
    <2>2. PICK round \in 0 .. 1 : \A i \in Indexes :
             Extra(offset, i) + (IF i = first THEN 1 ELSE 0) = round + Extra(offset + 1, i)
      BY ExtraWritten DEF TypesOK
    <2>3. first \in Indexes
      BY ExtraWritten DEF TypesOK
    <2>4. /\ start[k] = NotSelecting /\ start' = [start EXCEPT ![k] = first]
          /\ start \in [Selector -> Indexes \cup {NotSelecting}]
      BY <1>1 DEF Begin, Selecting, TypesOK
    <2> HIDE DEF first
    <2> WITNESS rounds + round \in Int
    <2> TAKE i \in Indexes
    <2>5. /\ Passing(i) \in Nat /\ Passing(i)' \in Nat
          /\ Passing(i)' = Passing(i) + (IF i = first THEN 1 ELSE 0)
      <3>1. start[k] # first /\ i # start[k]
        BY <1>0, <2>3, <2>4
      <3>2. /\ Passing(i) \in Nat /\ Passing(i)' \in Nat
            /\ i = first => Passing(i)' = Passing(i) + 1
            /\ i \notin {start[k], first} => Passing(i)' = Passing(i)
        BY <2>4, <3>1, PassingWritten
      <3> QED
        BY <3>1, <3>2
    <2>6. picks[i] \in Nat /\ Extra(offset, i) \in Nat /\ Extra(offset + 1, i) \in Nat
      BY DEF TypesOK, Extra
    <2>7. picks[i] + Passing(i) = rounds + Extra(offset, i)
      BY <2>1
    <2>8. Extra(offset, i) + (IF i = first THEN 1 ELSE 0) = round + Extra(offset + 1, i)
      BY <2>2
    <2> QED
      BY <2>5, <2>6, <2>7, <2>8
  <1>2. ASSUME NEW k \in Selector, Look(k) PROVE RoundRobin'
    BY <1>2 DEF RoundRobin, Look, Passing
  <1>3. ASSUME NEW k \in Selector, Finish(k) PROVE RoundRobin'
    <2> SUFFICES ASSUME level
                 PROVE  \E rounds \in Int : \A i \in Indexes :
                           picks'[i] + Passing(i)' = rounds + Extra(offset, i)
      BY <1>3 DEF RoundRobin, Finish
    <2>1. PICK rounds \in Int : \A i \in Indexes : picks[i] + Passing(i) = rounds + Extra(offset, i)
      BY DEF RoundRobin
    <2>2. start[k] \in Indexes /\ best[k] = start[k]
      BY <1>3 DEF Finish, Selecting, FirstIsBest, TypesOK
    <2>3. /\ picks' = [picks EXCEPT ![start[k]] = picks[start[k]] + 1]
          /\ start' = [start EXCEPT ![k] = NotSelecting]
          /\ start \in [Selector -> Indexes \cup {NotSelecting}]
      BY <1>3, <2>2 DEF Finish, TypesOK
    <2> WITNESS rounds \in Int
    <2> TAKE i \in Indexes
    <2>4. /\ Passing(i) \in Nat /\ Passing(i)' \in Nat
          /\ Passing(i)' = IF i = start[k] THEN Passing(i) - 1 ELSE Passing(i)
      <3>1. start[k] # NotSelecting /\ i # NotSelecting
        BY <1>0, <2>2
      <3>2. /\ Passing(i) \in Nat /\ Passing(i)' \in Nat
            /\ i = start[k] => Passing(i)' = Passing(i) - 1
            /\ i \notin {start[k], NotSelecting} => Passing(i)' = Passing(i)
        BY <2>3, <3>1, PassingWritten
      <3> QED
        BY <3>1, <3>2
    <2>5. picks[i] \in Nat /\ picks'[i] = IF i = start[k] THEN picks[i] + 1 ELSE picks[i]
      BY <2>3 DEF TypesOK
    <2>6. picks[i] + Passing(i) = rounds + Extra(offset, i)
      BY <2>1
    <2>7. picks'[i] + Passing(i)' = picks[i] + Passing(i)
      BY <2>4, <2>5
    <2> QED
      BY <2>6, <2>7
  <1>4. ASSUME NEW i \in Indexes, NEW count \in 0 .. MaxUse, Use(i, count) PROVE RoundRobin'
    BY <1>4 DEF RoundRobin, Use
  <1> QED
    BY <1>1, <1>2, <1>3, <1>4 DEF Next

-----------------------------------------------------------------------------
(* Theorems *)

\* At the start nobody selects and no server has been picked.
LEMMA InitHolds ==
    ASSUME Init
    PROVE  SelectionInv
  <1> USE SizeAssumption, BoundAssumption
  <1>1. TypesOK
    BY DEF Init, TypesOK, IntMax
  <1>2. HasBest /\ FirstIsBest
    BY DEF Init, HasBest, FirstIsBest, Selecting
  <1>3. RoundRobin
    <2>1. \A i \in Indexes : Passing(i) = 0
      <3> TAKE i \in Indexes
      <3>1. {k \in Selector : start[k] = i} = {}
        BY DEF Init, Indexes, NotSelecting
      <3> QED
        BY <3>1, FS_EmptySet DEF Passing
    <2>2. \A i \in Indexes : Extra(offset, i) = 0 /\ picks[i] = 0
      <3>1. 0 % Size = 0
        BY RemainderSmall
      <3> QED
        BY <3>1 DEF Init, Extra
    <2>3. \A i \in Indexes : picks[i] + Passing(i) = 0 + Extra(offset, i)
      BY <2>1, <2>2
    <2> QED
      BY <2>3 DEF RoundRobin
  <1> QED
    BY <1>1, <1>2, <1>3 DEF SelectionInv

\* The selections of threads that overlap keep to the invariant
\* (routing-pool.c, BoltRoutingPool_select_least_connected).
THEOREM SelectionInvariant == Spec => []SelectionInv
  <1>1. Init => SelectionInv
    BY InitHolds
  <1>2. SelectionInv /\ [Next]_vars => SelectionInv'
    <2>1. CASE Next
      BY <2>1, TypesStep, FirstIsBestStep, RoundRobinStep DEF SelectionInv
    <2>2. CASE UNCHANGED vars
      BY <2>2 DEF vars, SelectionInv, TypesOK, HasBest, FirstIsBest, RoundRobin, Selecting, Passing
    <2> QED
      BY <2>1, <2>2
  <1> QED
    BY <1>1, <1>2, PTL DEF Spec

\* While all servers are equally used, the picks of two of them differ by one
\* at most when nobody is selecting ("Start at an index that round-robins"),
\* for any number of servers and of threads that select at once.
THEOREM LoadIsSpread == Spec => []SpreadsEvenly
  <1>1. SelectionInv => SpreadsEvenly
    <2> SUFFICES ASSUME SelectionInv, level, \A k \in Selector : ~Selecting(k),
                        NEW i \in Indexes, NEW j \in Indexes
                 PROVE  picks[i] <= picks[j] + 1
      BY DEF SpreadsEvenly
    <2>1. \A m \in Indexes : Passing(m) = 0
      <3> TAKE m \in Indexes
      <3>1. {k \in Selector : start[k] = m} = {}
        BY DEF Indexes, NotSelecting, Selecting
      <3> QED
        BY <3>1, FS_EmptySet DEF Passing
    <2>2. PICK rounds \in Int : \A m \in Indexes : picks[m] + Passing(m) = rounds + Extra(offset, m)
      BY DEF SelectionInv, RoundRobin
    <2>3. \A m \in Indexes : picks[m] \in Nat /\ Extra(offset, m) \in 0 .. 1
      BY DEF SelectionInv, TypesOK, Extra
    <2> QED
      BY <2>1, <2>2, <2>3
  <1> QED
    BY <1>1, SelectionInvariant, PTL

=============================================================================
