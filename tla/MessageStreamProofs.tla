------------------------ MODULE MessageStreamProofs ------------------------
(***************************************************************************)
(* Proofs about MessageStream: no buffer is read beyond what was loaded or *)
(* written beyond what is allocated, for every size of the buffers, the    *)
(* chunks and the messages and every way in which bytes arrive; the        *)
(* messages that are loaded reach the server in order; and if they can be  *)
(* decoded, what is fetched are the answers of the server in order.  The   *)
(* last section is about what messages hold: each integer and each size    *)
(* that PackStream writes is read back (Encoding).                         *)
(*                                                                         *)
(* The framing is defined by recursive functions over sequences.  That     *)
(* such a function exists is RecursionExists, from the library's theorem   *)
(* that every set of naturals has a least member; what it computes is      *)
(* shown by taking the shortest sequence for which it would not.           *)
(***************************************************************************)
EXTENDS MessageStream, Encoding, FiniteSetTheorems, SequenceTheorems, WellFoundedInduction, TLAPS

-----------------------------------------------------------------------------
(* Induction and recursion *)

\* Among some things that have a size, one is the smallest.
LEMMA SmallestExists ==
    ASSUME NEW S, NEW m \in [S -> Nat], NEW B, B \subseteq S, B # {}
    PROVE  \E b \in B : \A c \in B : m[b] <= m[c]
  <1> DEFINE Below == OpToRel(<, Nat)
             N == {m[b] : b \in B}
  <1>1. IsWellFoundedOn(Below, Nat)
    BY NatLessThanWellFounded, Zenon
  <1>2. N \subseteq Nat /\ N # {}
    OBVIOUS
  <1> HIDE DEF Below, N
  <1>3. PICK x \in N : \A y \in N : ~(<<y, x>> \in Below)
    BY <1>1, <1>2, WFMin
  <1>4. \A y \in N : x <= y
    <2> TAKE y \in N
    <2>1. y \in Nat /\ x \in Nat
      BY <1>2
    <2>2. ~(y < x)
      BY <1>3, <2>1, Zenon DEF Below, OpToRel
    <2> QED
      BY <2>1, <2>2
  <1>5. PICK b \in B : m[b] = x
    BY DEF N
  <1>6. \A c \in B : m[c] \in N
    BY DEF N
  <1> QED
    BY <1>4, <1>5, <1>6

\* A step of a recursion on the size of the argument: from a function it makes
\* the value for an argument, and it looks only at values for smaller ones.
Recursion(S, T, m, step) ==
    /\ T # {}
    /\ m \in [S -> Nat]
    /\ step \in [S -> [[S -> T] -> T]]
    /\ \A b \in S : \A g, h \in [S -> T] :
          (\A c \in S : m[c] < m[b] => g[c] = h[c]) => step[b][g] = step[b][h]

\* There is a function that is defined by such a step.
LEMMA RecursionExists ==
    ASSUME NEW S, NEW T, NEW m, NEW step, Recursion(S, T, m, step)
    PROVE  \E f \in [S -> T] : \A b \in S : f[b] = step[b][f]
  <1> USE DEF Recursion
  <1> DEFINE Good(n, g) == g \in [S -> T] /\ \A b \in S : m[b] < n => g[b] = step[b][g]
  <1>1. \A n \in Nat : \E g : Good(n, g)
    <2> DEFINE Bad == {n \in Nat : ~ \E g : Good(n, g)}
    <2> SUFFICES ASSUME Bad # {} PROVE FALSE
      OBVIOUS
    <2>1. PICK n \in Bad : \A k \in Bad : n <= k
      <3> DEFINE id == [k \in Nat |-> k]
      <3>1. id \in [Nat -> Nat] /\ Bad \subseteq Nat
        OBVIOUS
      <3> HIDE DEF Bad
      <3>2. \E b \in Bad : \A c \in Bad : id[b] <= id[c]
        BY <3>1, SmallestExists
      <3> QED
        BY <3>1, <3>2
    <2>2. n # 0
      <3>1. PICK t \in T : TRUE
        OBVIOUS
      <3>2. Good(0, [b \in S |-> t])
        OBVIOUS
      <3> QED
        BY <3>2
    <2>3. n - 1 \in Nat /\ n - 1 \notin Bad
      <3>1. n \in Nat
        BY <2>1
      <3>2. n - 1 \in Nat /\ ~(n <= n - 1)
        BY <2>2, <3>1
      <3> HIDE DEF Bad
      <3> QED
        BY <2>1, <3>2
    <2>4. PICK g : Good(n - 1, g)
      BY <2>3
    <2> DEFINE h == [b \in S |-> step[b][g]]
    <2>5. h \in [S -> T]
      BY <2>4
    <2>6. \A b \in S : m[b] < n - 1 => h[b] = g[b]
      BY <2>4
    <2>7. ASSUME NEW b \in S, m[b] < n PROVE h[b] = step[b][h]
      <3>1. \A c \in S : m[c] < m[b] => g[c] = h[c]
        BY <2>3, <2>6, <2>7
      <3>2. step[b][g] = step[b][h]
        BY <2>4, <2>5, <3>1
      <3> QED
        BY <3>2
    <2>8. Good(n, h)
      BY <2>5, <2>7
    <2> QED
      BY <2>8
  <1>2. ASSUME NEW n \in Nat, NEW k \in Nat, n <= k, NEW g, NEW h, Good(n, g), Good(k, h)
        PROVE  \A b \in S : m[b] < n => g[b] = h[b]
    <2> DEFINE Bad == {b \in S : m[b] < n /\ g[b] # h[b]}
    <2> SUFFICES ASSUME Bad # {} PROVE FALSE
      OBVIOUS
    <2>1. PICK b \in Bad : \A c \in Bad : m[b] <= m[c]
      BY SmallestExists
    <2>2. \A c \in S : m[c] < m[b] => g[c] = h[c]
      BY <2>1
    <2>3. step[b][g] = step[b][h]
      BY <1>2, <2>2
    <2>4. g[b] = step[b][g] /\ h[b] = step[b][h]
      BY <1>2, <2>1
    <2> QED
      BY <2>1, <2>3, <2>4
  <1> DEFINE G(n) == CHOOSE g : Good(n, g)
             f == [b \in S |-> G(m[b] + 1)[b]]
  <1>3. \A n \in Nat : Good(n, G(n))
    BY <1>1
  <1> HIDE DEF G
  <1>4. ASSUME NEW b \in S PROVE m[b] + 1 \in Nat /\ Good(m[b] + 1, G(m[b] + 1))
    <2>1. m[b] + 1 \in Nat
      OBVIOUS
    <2> HIDE DEF Good
    <2> QED
      BY <1>3, <2>1
  <1>5. f \in [S -> T]
    BY <1>4
  <1>6. ASSUME NEW b \in S PROVE f[b] = step[b][f]
    <2> DEFINE g == G(m[b] + 1)
    <2>1. Good(m[b] + 1, g) /\ f[b] = g[b] /\ m[b] \in Nat
      BY <1>4
    <2>2. ASSUME NEW c \in S, m[c] < m[b] PROVE g[c] = f[c]
      <3>1. /\ m[c] + 1 \in Nat /\ m[b] + 1 \in Nat /\ m[c] + 1 <= m[b] + 1
            /\ Good(m[c] + 1, G(m[c] + 1)) /\ m[c] < m[c] + 1
        BY <1>4, <2>1, <2>2
      <3> HIDE DEF Good, g
      <3>2. G(m[c] + 1)[c] = g[c]
        BY <1>2, <2>1, <3>1
      <3> QED
        BY <3>2
    <2> HIDE DEF g
    <2>3. g \in [S -> T] /\ g[b] = step[b][g]
      BY <2>1
    <2>4. step[b][g] = step[b][f]
      BY <1>5, <2>2, <2>3
    <2> QED
      BY <2>1, <2>3, <2>4
  <1> QED
    BY <1>5, <1>6

-----------------------------------------------------------------------------
(* The recursive definitions *)

\* A chunk header is two bytes.
LEMMA HeaderOK ==
    ASSUME NEW n \in Nat
    PROVE  /\ Header(n) \in Seq(Nat)
           /\ Len(Header(n)) = 2
  <1>1. n \div Base \in Nat
    BY BaseAssumption
  <1>2. n % Base \in Nat
    BY BaseAssumption
  <1> QED
    BY <1>1, <1>2 DEF Header

\* The bytes from position n + 1 on.
LEMMA RestIs ==
    ASSUME NEW S, NEW s \in Seq(S), NEW n \in 0 .. Len(s)
    PROVE  /\ SubSeq(s, n + 1, Len(s)) \in Seq(S)
           /\ Len(SubSeq(s, n + 1, Len(s))) = Len(s) - n
           /\ \A i \in 1 .. Len(s) - n : SubSeq(s, n + 1, Len(s))[i] = s[n + i]
  <1>1. \A i \in n + 1 .. Len(s) : s[i] \in S
    BY LenProperties
  <1>2. Len(s) \in Nat
    BY LenProperties
  <1> QED
    BY <1>1, <1>2, SubSeqProperties

\* The front of a sequence.
LEMMA FrontIs ==
    ASSUME NEW S, NEW s \in Seq(S), NEW n \in 0 .. Len(s)
    PROVE  /\ SubSeq(s, 1, n) \in Seq(S)
           /\ Len(SubSeq(s, 1, n)) = n
           /\ \A i \in 1 .. n : SubSeq(s, 1, n)[i] = s[i]
  <1>1. \A i \in 1 .. n : s[i] \in S
    BY LenProperties
  <1>2. Len(s) \in Nat
    BY LenProperties
  <1> QED
    BY <1>1, <1>2, SubSeqProperties

Part(bytes) == IF Len(bytes) > MaxChunk THEN MaxChunk ELSE Len(bytes)

\* The next chunk takes at least one byte and no more than there are.
LEMMA PartOK ==
    ASSUME NEW bytes \in Seq(Nat), bytes # <<>>
    PROVE  Part(bytes) \in 1 .. Len(bytes)
  <1>1. MaxChunk \in Nat \ {0}
    <2>1. Base * Base > 1 /\ Base * Base \in Nat
      BY BaseAssumption
    <2> QED
      BY <2>1 DEF MaxChunk
  <1>2. Len(bytes) \in Nat \ {0}
    BY EmptySeq
  <1> QED
    BY <1>1, <1>2 DEF Part

\* push_to_transmission as a function on all messages: the recursion ends.
LEMMA ChunkedIs ==
    /\ Chunked \in [Seq(Nat) -> Seq(Nat)]
    /\ \A bytes \in Seq(Nat) :
         Chunked[bytes] = IF bytes = <<>> THEN Header(0)
                          ELSE Header(Part(bytes)) \o SubSeq(bytes, 1, Part(bytes))
                                  \o Chunked[SubSeq(bytes, Part(bytes) + 1, Len(bytes))]
  <1> DEFINE S == Seq(Nat)
             Rest(b) == SubSeq(b, Part(b) + 1, Len(b))
             Body(b, g) == IF b = <<>> THEN Header(0)
                           ELSE Header(Part(b)) \o SubSeq(b, 1, Part(b)) \o g[Rest(b)]
             m == [b \in S |-> Len(b)]
             step == [b \in S |-> [g \in [S -> S] |-> Body(b, g)]]
  <1>1. ASSUME NEW b \in S, b # <<>>
        PROVE  Rest(b) \in S /\ Len(Rest(b)) < Len(b) /\ Len(b) \in Nat /\ Len(Rest(b)) \in Nat
    <2>1. Part(b) \in 1 .. Len(b) /\ Len(b) \in Nat
      BY <1>1, PartOK, LenProperties
    <2>2. Rest(b) \in S /\ Len(Rest(b)) = Len(b) - Part(b)
      BY <2>1, RestIs
    <2> QED
      BY <2>1, <2>2
  <1>2. ASSUME NEW b \in S, NEW g, b # <<>> => g[Rest(b)] \in S
        PROVE  Body(b, g) \in S
    <2>1. CASE b = <<>>
      BY <2>1, HeaderOK
    <2>2. CASE b # <<>>
      <3>1. Part(b) \in 1 .. Len(b) /\ Len(b) \in Nat
        BY <2>2, PartOK, LenProperties
      <3>2. Header(Part(b)) \in S /\ SubSeq(b, 1, Part(b)) \in S
        BY <3>1, HeaderOK, FrontIs
      <3> HIDE DEF S, Rest
      <3>3. Header(Part(b)) \o SubSeq(b, 1, Part(b)) \in S
        BY <3>2, ConcatProperties DEF S
      <3>4. g[Rest(b)] \in S
        BY <1>2, <2>2
      <3>5. (Header(Part(b)) \o SubSeq(b, 1, Part(b))) \o g[Rest(b)] \in S
        BY <3>3, <3>4, ConcatProperties DEF S
      <3> QED
        BY <2>2, <3>5
    <2> QED
      BY <2>1, <2>2
  <1>3. m \in [S -> Nat]
    BY LenProperties
  <1>4. <<>> \in S
    BY EmptySeq
  <1> HIDE DEF Body, S, Rest
  <1>5. step \in [S -> [[S -> S] -> S]]
    <2> SUFFICES ASSUME NEW b \in S, NEW g \in [S -> S] PROVE Body(b, g) \in S
      OBVIOUS
    <2>1. b # <<>> => g[Rest(b)] \in S
      BY <1>1
    <2> QED
      BY <1>2, <2>1
  <1>6. ASSUME NEW b \in S, NEW g \in [S -> S], NEW h \in [S -> S],
               \A c \in S : m[c] < m[b] => g[c] = h[c]
        PROVE  step[b][g] = step[b][h]
    <2>1. b # <<>> => g[Rest(b)] = h[Rest(b)]
      BY <1>1, <1>6
    <2>2. Body(b, g) = Body(b, h)
      BY <2>1 DEF Body, Rest
    <2> QED
      BY <2>2
  <1> HIDE DEF m, step
  <1>7. PICK f \in [S -> S] : \A b \in S : f[b] = step[b][f]
    <2>1. \A b \in S : \A g, h \in [S -> S] :
             (\A c \in S : m[c] < m[b] => g[c] = h[c]) => step[b][g] = step[b][h]
      BY <1>6
    <2>2. S # {}
      BY <1>4
    <2>3. Recursion(S, S, m, step)
      BY <1>3, <1>5, <2>1, <2>2 DEF Recursion
    <2> QED
      BY <2>3, RecursionExists
  <1>8. f = [b \in S |-> Body(b, f)]
    <2>1. \A b \in S : f[b] = Body(b, f)
      BY <1>7 DEF step
    <2> QED
      BY <1>7, <2>1
  <1>9. Chunked = CHOOSE g : g = [b \in S |-> Body(b, g)]
    BY Zenon DEF Chunked, S, Body, Part, Rest
  <1>10. Chunked = [b \in S |-> Body(b, Chunked)]
    BY <1>8, <1>9
  <1>11. \A b \in S : Chunked[b] \in S
    <2> DEFINE Bad == {b \in S : Chunked[b] \notin S}
    <2> SUFFICES ASSUME Bad # {} PROVE FALSE
      OBVIOUS
    <2>1. Bad \subseteq S
      OBVIOUS
    <2>2. PICK b \in Bad : \A c \in Bad : m[b] <= m[c]
      <3> HIDE DEF Bad
      <3> QED
        BY <1>3, <2>1, SmallestExists
    <2>3. b # <<>> => Chunked[Rest(b)] \in S
      <3>1. b \in S
        BY <2>2
      <3> SUFFICES ASSUME b # <<>> PROVE Chunked[Rest(b)] \in S
        OBVIOUS
      <3>2. Rest(b) \in S /\ ~(m[b] <= m[Rest(b)])
        BY <1>1, <3>1 DEF m
      <3> QED
        BY <2>2, <3>2
    <2>4. Body(b, Chunked) \in S
      BY <1>2, <2>3
    <2> QED
      BY <1>10, <2>4
  <1> QED
    <2>1. Chunked \in [S -> S]
      BY <1>10, <1>11
    <2>2. \A b \in S : Chunked[b] = Body(b, Chunked)
      BY <1>10
    <2> QED
      BY <2>1, <2>2 DEF S, Body, Rest

\* The bytes begin with a whole chunk; what comes after it.
Complete(bytes) == ~(Len(bytes) < 2 \/ Len(bytes) < HeaderValue(bytes) + 2)
After(bytes) == SubSeq(bytes, HeaderValue(bytes) + 3, Len(bytes))

\* What two bytes say is the size of a chunk.
LEMMA HeaderValueOK ==
    ASSUME NEW bytes \in Seq(Nat), Len(bytes) >= 2
    PROVE  HeaderValue(bytes) \in Nat
  <1>1. bytes[1] \in Nat /\ bytes[2] \in Nat
    BY LenProperties
  <1> DEFINE x == bytes[1]
  <1> HIDE DEF x
  <1>2. x * Base \in Nat
    BY <1>1, BaseAssumption DEF x
  <1> QED
    BY <1>1, <1>2 DEF HeaderValue, x

\* What follows a chunk that arrived as a whole is shorter than what arrived.
LEMMA AfterIs ==
    ASSUME NEW bytes \in Seq(Nat), Complete(bytes)
    PROVE  /\ HeaderValue(bytes) \in Nat /\ Len(bytes) \in Nat
           /\ HeaderValue(bytes) + 2 <= Len(bytes)
           /\ SubSeq(bytes, 3, HeaderValue(bytes) + 2) \in Seq(Nat)
           /\ After(bytes) \in Seq(Nat)
           /\ Len(After(bytes)) = Len(bytes) - HeaderValue(bytes) - 2
  <1>1. Len(bytes) \in Nat /\ \A i \in 1 .. Len(bytes) : bytes[i] \in Nat
    BY LenProperties
  <1>2. Len(bytes) >= 2
    BY <1>1 DEF Complete
  <1> DEFINE n == HeaderValue(bytes)
  <1>3. n \in Nat
    BY <1>2, HeaderValueOK
  <1>4. n + 2 <= Len(bytes)
    BY <1>1, <1>3 DEF Complete
  <1> HIDE DEF n
  <1>5. SubSeq(bytes, 3, n + 2) \in Seq(Nat)
    <2>1. \A i \in 3 .. n + 2 : bytes[i] \in Nat
      BY <1>1, <1>3, <1>4
    <2> QED
      BY <1>3, <2>1, SubSeqProperties
  <1>6. /\ SubSeq(bytes, (n + 2) + 1, Len(bytes)) \in Seq(Nat)
        /\ Len(SubSeq(bytes, (n + 2) + 1, Len(bytes))) = Len(bytes) - (n + 2)
    <2>1. n + 2 \in 0 .. Len(bytes)
      BY <1>1, <1>3, <1>4
    <2> QED
      BY <2>1, RestIs
  <1>7. (n + 2) + 1 = n + 3 /\ Len(bytes) - (n + 2) = Len(bytes) - n - 2
    BY <1>1, <1>3
  <1> QED
    BY <1>1, <1>3, <1>4, <1>5, <1>6, <1>7 DEF n, After

Parsed == [payload : Seq(Nat), length : Nat]

\* The first message as a function on all bytes: it takes no more than arrived.
LEMMA FirstMessageIs ==
    /\ FirstMessage \in [Seq(Nat) -> Parsed]
    /\ \A bytes \in Seq(Nat) :
         /\ FirstMessage[bytes].length <= Len(bytes)
         /\ FirstMessage[bytes] =
              IF ~Complete(bytes) THEN [payload |-> <<>>, length |-> 0]
              ELSE IF HeaderValue(bytes) = 0 THEN [payload |-> <<>>, length |-> 2]
              ELSE IF FirstMessage[After(bytes)].length = 0 THEN FirstMessage[After(bytes)]
              ELSE [payload |-> SubSeq(bytes, 3, HeaderValue(bytes) + 2)
                                   \o FirstMessage[After(bytes)].payload,
                    length |-> HeaderValue(bytes) + 2 + FirstMessage[After(bytes)].length]
  <1> DEFINE S == Seq(Nat)
             Goes(b) == Complete(b) /\ HeaderValue(b) # 0
             Body(b, g) ==
                 IF ~Complete(b) THEN [payload |-> <<>>, length |-> 0]
                 ELSE IF HeaderValue(b) = 0 THEN [payload |-> <<>>, length |-> 2]
                 ELSE IF g[After(b)].length = 0 THEN g[After(b)]
                 ELSE [payload |-> SubSeq(b, 3, HeaderValue(b) + 2) \o g[After(b)].payload,
                       length |-> HeaderValue(b) + 2 + g[After(b)].length]
             Read(b, g) ==
                 LET n == HeaderValue(b)
                     rest == g[SubSeq(b, n + 3, Len(b))]
                 IN  IF Len(b) < 2 \/ Len(b) < n + 2 THEN [payload |-> <<>>, length |-> 0]
                     ELSE IF n = 0 THEN [payload |-> <<>>, length |-> 2]
                     ELSE IF rest.length = 0 THEN rest
                     ELSE [payload |-> SubSeq(b, 3, n + 2) \o rest.payload,
                           length |-> n + 2 + rest.length]
             m == [b \in S |-> Len(b)]
             step == [b \in S |-> [g \in [S -> Parsed] |-> Body(b, g)]]
  <1>1. ASSUME NEW b \in S, Goes(b)
        PROVE  /\ After(b) \in S /\ Len(After(b)) < Len(b) /\ Len(b) \in Nat
               /\ Len(After(b)) \in Nat
               /\ HeaderValue(b) \in Nat
               /\ Len(b) = HeaderValue(b) + 2 + Len(After(b))
    <2>1. After(b) \in S /\ Len(b) \in Nat /\ HeaderValue(b) \in Nat
      BY <1>1, AfterIs
    <2>2. Len(After(b)) = Len(b) - HeaderValue(b) - 2
      BY <1>1, AfterIs
    <2>3. Len(After(b)) \in Nat
      BY <2>1, LenProperties
    <2> QED
      BY <2>1, <2>2, <2>3
  <1>2. ASSUME NEW b \in S, NEW g, Goes(b) => g[After(b)] \in Parsed
        PROVE  Body(b, g) \in Parsed
    <2>1. CASE ~Complete(b)
      BY <2>1, EmptySeq DEF Parsed
    <2>2. CASE Complete(b) /\ HeaderValue(b) = 0
      BY <2>2, EmptySeq DEF Parsed
    <2>3. CASE Goes(b)
      <3> DEFINE r == g[After(b)]
      <3>1. r \in Parsed
        BY <1>2, <2>3
      <3> HIDE DEF r
      <3>2. r.payload \in Seq(Nat) /\ r.length \in Nat
        BY <3>1 DEF Parsed
      <3>3. HeaderValue(b) \in Nat /\ SubSeq(b, 3, HeaderValue(b) + 2) \in Seq(Nat)
        BY <2>3, AfterIs
      <3> DEFINE v == HeaderValue(b)
                 t == SubSeq(b, 3, v + 2)
      <3> HIDE DEF v, t
      <3>4. t \o r.payload \in Seq(Nat)
        BY <3>2, <3>3, ConcatProperties DEF t, v
      <3>5. v + 2 + r.length \in Nat
        BY <3>2, <3>3 DEF v
      <3>6. [payload |-> t \o r.payload, length |-> v + 2 + r.length] \in Parsed
        BY <3>4, <3>5 DEF Parsed
      <3>7. Body(b, g) = IF r.length = 0 THEN r
                         ELSE [payload |-> t \o r.payload, length |-> v + 2 + r.length]
        BY <2>3, Zenon DEF r, t, v
      <3> QED
        BY <3>1, <3>6, <3>7
    <2> QED
      BY <2>1, <2>2, <2>3
  <1>3. m \in [S -> Nat]
    BY LenProperties
  <1>4. [payload |-> <<>>, length |-> 0] \in Parsed
    BY EmptySeq DEF Parsed
  <1>5. ASSUME NEW b \in S, NEW g, NEW h, Goes(b) => g[After(b)] = h[After(b)]
        PROVE  Body(b, g) = Body(b, h)
    <2>1. CASE Goes(b)
      <3>1. g[After(b)] = h[After(b)]
        BY <1>5, <2>1
      <3> HIDE DEF S, Goes, step, m
      <3> QED
        BY <3>1, Zenon
    <2>2. CASE ~Goes(b)
      <3>1. ~Complete(b) \/ HeaderValue(b) = 0
        BY <2>2
      <3> HIDE DEF S, Goes, step, m
      <3> QED
        BY <3>1, Zenon
    <2> HIDE DEF Body, Goes, S, m, step
    <2> QED
      BY <2>1, <2>2
  <1>6. FirstMessage = CHOOSE g : g = [b \in S |-> Read(b, g)]
    BY Zenon DEF FirstMessage
  <1>6a. \A b \in S : \A g : Read(b, g) = Body(b, g)
    <2> SUFFICES ASSUME NEW b \in S, NEW g PROVE Read(b, g) = Body(b, g)
      OBVIOUS
    <2>1. Complete(b) <=> ~(Len(b) < 2 \/ Len(b) < HeaderValue(b) + 2)
      BY DEF Complete
    <2>2. After(b) = SubSeq(b, HeaderValue(b) + 3, Len(b))
      BY DEF After
    <2> QED
      BY ONLY <2>1, <2>2, Zenon
  <1> HIDE DEF Body, Read, S, Goes
  <1>7. step \in [S -> [[S -> Parsed] -> Parsed]]
    <2> SUFFICES ASSUME NEW b \in S, NEW g \in [S -> Parsed] PROVE Body(b, g) \in Parsed
      OBVIOUS
    <2>1. Goes(b) => g[After(b)] \in Parsed
      BY <1>1
    <2> QED
      BY <1>2, <2>1
  <1>8. ASSUME NEW b \in S, NEW g \in [S -> Parsed], NEW h \in [S -> Parsed],
               \A c \in S : m[c] < m[b] => g[c] = h[c]
        PROVE  step[b][g] = step[b][h]
    <2>1. Goes(b) => g[After(b)] = h[After(b)]
      BY <1>1, <1>8
    <2>2. Body(b, g) = Body(b, h)
      BY <1>5, <2>1
    <2> QED
      BY <2>2
  <1> HIDE DEF m, step
  <1>9. PICK f \in [S -> Parsed] : \A b \in S : f[b] = step[b][f]
    <2>1. \A b \in S : \A g, h \in [S -> Parsed] :
             (\A c \in S : m[c] < m[b] => g[c] = h[c]) => step[b][g] = step[b][h]
      BY <1>8
    <2>2. Parsed # {}
      BY <1>4
    <2>3. Recursion(S, Parsed, m, step)
      BY <1>3, <1>7, <2>1, <2>2 DEF Recursion
    <2> QED
      BY <2>3, RecursionExists
  <1>10. f = [b \in S |-> Body(b, f)]
    <2>1. \A b \in S : f[b] = Body(b, f)
      BY <1>9 DEF step
    <2> QED
      BY <1>9, <2>1
  <1>11. FirstMessage = [b \in S |-> Body(b, FirstMessage)]
    <2>1. \A g : [b \in S |-> Read(b, g)] = [b \in S |-> Body(b, g)]
      BY ONLY <1>6a
    <2>2. f = [b \in S |-> Read(b, f)]
      BY ONLY <1>10, <2>1, Zenon
    <2>3. FirstMessage = [b \in S |-> Read(b, FirstMessage)]
      BY ONLY <1>6, <2>2, Zenon
    <2> QED
      BY ONLY <2>1, <2>3, Zenon
  <1>12. \A b \in S : FirstMessage[b] \in Parsed /\ FirstMessage[b].length <= Len(b)
    <2> DEFINE Ok(b) == FirstMessage[b] \in Parsed /\ FirstMessage[b].length <= Len(b)
               Bad == {b \in S : ~Ok(b)}
    <2> SUFFICES ASSUME Bad # {} PROVE FALSE
      OBVIOUS
    <2>1. Bad \subseteq S
      OBVIOUS
    <2>2. PICK b \in Bad : \A c \in Bad : m[b] <= m[c]
      <3> HIDE DEF Bad
      <3> QED
        BY <1>3, <2>1, SmallestExists
    <2>3. b \in S
      BY <2>2
    <2>4. Goes(b) => Ok(After(b))
      <3> SUFFICES ASSUME Goes(b) PROVE Ok(After(b))
        OBVIOUS
      <3>1. After(b) \in S /\ ~(m[b] <= m[After(b)])
        BY <1>1, <2>3 DEF m
      <3> HIDE DEF Ok
      <3> QED
        BY <2>2, <3>1
    <2>5. Body(b, FirstMessage) \in Parsed
      <3>1. Goes(b) => FirstMessage[After(b)] \in Parsed
        BY <2>4
      <3> QED
        BY <1>2, <2>3, <3>1
    <2>6. Body(b, FirstMessage).length <= Len(b)
      <3>1. Len(b) \in Nat
        BY <2>3, LenProperties DEF S
      <3>2. CASE ~Complete(b)
        BY <3>1, <3>2 DEF Body
      <3>3. CASE Complete(b) /\ HeaderValue(b) = 0
        <4>1. 2 <= Len(b)
          BY <3>1, <3>3 DEF Complete
        <4> QED
          BY <3>3, <4>1 DEF Body
      <3>4. CASE Goes(b)
        <4>1. FirstMessage[After(b)] \in Parsed /\ FirstMessage[After(b)].length <= Len(After(b))
          BY <2>4, <3>4
        <4> DEFINE r == FirstMessage[After(b)]
                   v == HeaderValue(b)
                   l == Len(After(b))
        <4>2. r.length \in Nat /\ v \in Nat /\ l \in Nat /\ Len(b) = v + 2 + l /\ r.length <= l
          BY <1>1, <2>3, <3>4, <4>1 DEF Parsed
        <4>3. Body(b, FirstMessage).length = IF r.length = 0 THEN r.length ELSE v + 2 + r.length
          BY <3>4 DEF Body, Goes
        <4> HIDE DEF r, v, l
        <4> QED
          BY <3>1, <4>2, <4>3
      <3> QED
        BY <3>2, <3>3, <3>4 DEF Goes
    <2>7. Ok(b)
      BY <1>11, <2>3, <2>5, <2>6
    <2> QED
      BY <2>2, <2>7
  <1> QED
    <2>1. FirstMessage \in [S -> Parsed]
      BY <1>11, <1>12
    <2>2. \A b \in S : FirstMessage[b] = Body(b, FirstMessage)
      BY <1>11
    <2> QED
      BY <1>12, <2>1, <2>2 DEF S, Body

\* The sizes that the first chunk of some bytes may have.
Cuts(bytes) == {n \in 1 .. MaxChunk : n <= Len(bytes)}

\* The ways to cut a message as a function on all messages.
LEMMA CutIs ==
    /\ Cut \in [Seq(Nat) -> SUBSET Seq(Nat)]
    /\ \A bytes \in Seq(Nat) :
         Cut[bytes] = IF bytes = <<>> THEN {Header(0)}
                      ELSE UNION {{Header(n) \o SubSeq(bytes, 1, n) \o rest :
                                      rest \in Cut[SubSeq(bytes, n + 1, Len(bytes))]} :
                                  n \in Cuts(bytes)}
  <1> DEFINE S == Seq(Nat)
             T == SUBSET S
             Rest(b, n) == SubSeq(b, n + 1, Len(b))
             Chunk(b, n, r) == Header(n) \o SubSeq(b, 1, n) \o r
             Body(b, g) == IF b = <<>> THEN {Header(0)}
                           ELSE UNION {{Chunk(b, n, r) : r \in g[Rest(b, n)]} : n \in Cuts(b)}
             m == [b \in S |-> Len(b)]
             step == [b \in S |-> [g \in [S -> T] |-> Body(b, g)]]
  <1>1. ASSUME NEW b \in S, NEW n \in Cuts(b)
        PROVE  /\ Rest(b, n) \in S /\ Len(Rest(b, n)) < Len(b)
               /\ Len(b) \in Nat /\ Len(Rest(b, n)) \in Nat
               /\ \A r \in S : Chunk(b, n, r) \in S
    <2>1. n \in 1 .. Len(b) /\ Len(b) \in Nat
      BY LenProperties DEF Cuts, MaxChunk
    <2>2. Rest(b, n) \in S /\ Len(Rest(b, n)) = Len(b) - n
      BY <2>1, RestIs
    <2>3. Header(n) \in S /\ SubSeq(b, 1, n) \in S
      BY <2>1, HeaderOK, FrontIs
    <2>4. Header(n) \o SubSeq(b, 1, n) \in S
      BY <2>3, ConcatProperties
    <2>5. ASSUME NEW r \in S PROVE Chunk(b, n, r) \in S
      <3> DEFINE t == Header(n) \o SubSeq(b, 1, n)
      <3> HIDE DEF t
      <3>1. t \in S
        BY <2>4 DEF t
      <3>2. t \o r \in S
        BY <3>1, ConcatProperties
      <3> QED
        BY <3>2 DEF t
    <2> QED
      BY <2>1, <2>2, <2>5
  <1>2. m \in [S -> Nat]
    BY LenProperties
  <1>3. Header(0) \in S
    BY HeaderOK
  <1>4. Cut = CHOOSE g : g = [b \in S |-> Body(b, g)]
    BY Zenon DEF Cut, Cuts
  <1> HIDE DEF S, Rest, Chunk, m
  <1>5. ASSUME NEW b \in S, NEW g, \A n \in Cuts(b) : g[Rest(b, n)] \in T
        PROVE  Body(b, g) \in T
    <2> SUFFICES ASSUME b # <<>>, NEW n \in Cuts(b), NEW r \in g[Rest(b, n)]
                 PROVE  Chunk(b, n, r) \in S
      BY <1>3
    <2>1. r \in S
      BY <1>5
    <2> QED
      BY <1>1, <2>1
  <1>6. ASSUME NEW b \in S, NEW g, NEW h, \A n \in Cuts(b) : g[Rest(b, n)] = h[Rest(b, n)]
        PROVE  Body(b, g) = Body(b, h)
    <2>1. CASE b = <<>>
      BY <2>1
    <2>2. CASE b # <<>>
      <3>1. \A x : x \in Body(b, g) <=> \E n \in Cuts(b) : \E r \in g[Rest(b, n)] : x = Chunk(b, n, r)
        BY <2>2
      <3>2. \A x : x \in Body(b, h) <=> \E n \in Cuts(b) : \E r \in h[Rest(b, n)] : x = Chunk(b, n, r)
        BY <2>2
      <3> HIDE DEF Body
      <3>3. \A x : x \in Body(b, g) <=> x \in Body(b, h)
        BY <1>6, <3>1, <3>2
      <3>4. Body(b, g) = {x \in Body(b, g) : TRUE} /\ Body(b, h) = {x \in Body(b, h) : TRUE}
        BY <2>2 DEF Body
      <3> QED
        BY <3>3, <3>4
    <2> QED
      BY <2>1, <2>2
  <1> HIDE DEF Body
  <1>7. step \in [S -> [[S -> T] -> T]]
    <2> SUFFICES ASSUME NEW b \in S, NEW g \in [S -> T] PROVE Body(b, g) \in T
      OBVIOUS
    <2>1. \A n \in Cuts(b) : g[Rest(b, n)] \in T
      <3> HIDE DEF T
      <3> QED BY <1>1
    <2> QED
      BY <1>5, <2>1
  <1>8. ASSUME NEW b \in S, NEW g \in [S -> T], NEW h \in [S -> T],
               \A c \in S : m[c] < m[b] => g[c] = h[c]
        PROVE  step[b][g] = step[b][h]
    <2>1. \A n \in Cuts(b) : g[Rest(b, n)] = h[Rest(b, n)]
      BY <1>1, <1>8 DEF m
    <2>2. Body(b, g) = Body(b, h)
      BY <1>6, <2>1
    <2> QED
      BY <2>2
  <1> HIDE DEF step
  <1>9. PICK f \in [S -> T] : \A b \in S : f[b] = step[b][f]
    <2>1. \A b \in S : \A g, h \in [S -> T] :
             (\A c \in S : m[c] < m[b] => g[c] = h[c]) => step[b][g] = step[b][h]
      BY <1>8
    <2>2. T # {}
      OBVIOUS
    <2> HIDE DEF T
    <2>3. Recursion(S, T, m, step)
      BY <1>2, <1>7, <2>1, <2>2 DEF Recursion
    <2> QED
      BY <2>3, RecursionExists
  <1>10. f = [b \in S |-> Body(b, f)]
    <2>1. \A b \in S : f[b] = Body(b, f)
      BY <1>9 DEF step
    <2> QED
      BY <1>9, <2>1
  <1>11. Cut = [b \in S |-> Body(b, Cut)]
    BY <1>4, <1>10
  <1>12. \A b \in S : Cut[b] \in T
    <2> DEFINE Bad == {b \in S : Cut[b] \notin T}
    <2> SUFFICES ASSUME Bad # {} PROVE FALSE
      OBVIOUS
    <2> HIDE DEF T
    <2>1. Bad \subseteq S
      OBVIOUS
    <2>2. PICK b \in Bad : \A c \in Bad : m[b] <= m[c]
      <3> HIDE DEF Bad
      <3> QED
        BY <1>2, <2>1, SmallestExists
    <2>3. b \in S
      BY <2>2
    <2>4. ASSUME NEW n \in Cuts(b) PROVE Cut[Rest(b, n)] \in T
      <3>1. Rest(b, n) \in S /\ ~(m[b] <= m[Rest(b, n)])
        BY <1>1, <2>3 DEF m
      <3> QED
        BY <2>2, <3>1
    <2>5. Body(b, Cut) \in T
      BY <1>5, <2>3, <2>4
    <2> QED
      BY <1>11, <2>2, <2>3, <2>5
  <1> QED
    <2>1. Cut \in [S -> T]
      BY <1>11, <1>12
    <2>2. \A b \in S : Cut[b] = Body(b, Cut)
      BY <1>11
    <2> QED
      BY <2>1, <2>2 DEF S, Body, Rest, Chunk

-----------------------------------------------------------------------------
(* Buffers *)

Buffer(S) == [data : Seq(S), cursor : Nat, size : Nat]

\* A buffer of things in S, read within what was loaded and loaded within what
\* is allocated.
IsBuffer(b, S) == b \in Buffer(S) /\ BufferOK(b)

\* The members of a buffer and what its measures come to.
LEMMA BufferIs ==
    ASSUME NEW S, NEW b, IsBuffer(b, S)
    PROVE  /\ b \in Buffer(S) /\ b.data \in Seq(S) /\ b.cursor \in Nat /\ b.size \in Nat
           /\ Extent(b) = Len(b.data) /\ Extent(b) \in Nat
           /\ b.cursor <= Extent(b) /\ Extent(b) <= b.size
           /\ Unloadable(b) \in Nat /\ Unloadable(b) = Extent(b) - b.cursor
           /\ Loadable(b) \in Nat /\ Loadable(b) = b.size - Extent(b)
  <1>1. b \in Buffer(S) /\ b.data \in Seq(S) /\ b.cursor \in Nat /\ b.size \in Nat
    BY DEF IsBuffer, Buffer
  <1>2. Extent(b) = Len(b.data) /\ Extent(b) \in Nat
    BY <1>1, LenProperties DEF Extent
  <1>3. b.cursor <= Extent(b) /\ Extent(b) <= b.size
    BY <1>1, <1>2 DEF IsBuffer, BufferOK
  <1> QED
    BY <1>1, <1>2, <1>3 DEF Unloadable, Loadable

\* What makes a buffer.
LEMMA MakesBuffer ==
    ASSUME NEW S, NEW data \in Seq(S), NEW cursor \in Nat, NEW size \in Nat,
           cursor <= Len(data), Len(data) <= size
    PROVE  IsBuffer([data |-> data, cursor |-> cursor, size |-> size], S)
  <1> DEFINE b == [data |-> data, cursor |-> cursor, size |-> size]
  <1>1. b \in Buffer(S)
    BY DEF Buffer
  <1>2. b.data = data /\ b.cursor = cursor /\ b.size = size
    OBVIOUS
  <1>3. Len(data) \in Nat
    BY LenProperties
  <1> HIDE DEF b
  <1>4. BufferOK(b)
    BY <1>2, <1>3 DEF BufferOK, Extent
  <1> QED
    BY <1>1, <1>4 DEF IsBuffer, b

\* A buffer is its three fields: what an update of some of them gives
LEMMA DataIs ==
    ASSUME NEW S, NEW b \in Buffer(S), NEW d
    PROVE  [b EXCEPT !.data = d] = [data |-> d, cursor |-> b.cursor, size |-> b.size]
  <1> DEFINE x == b.data
             y == b.cursor
             z == b.size
             r == [data |-> x, cursor |-> y, size |-> z]
  <1>1. b = r
    BY DEF Buffer
  <1> HIDE DEF x, y, z
  <1>2. [r EXCEPT !.data = d] = [data |-> d, cursor |-> y, size |-> z]
    OBVIOUS
  <1> HIDE DEF r
  <1> QED
    BY <1>1, <1>2, Zenon DEF y, z

LEMMA CursorIs ==
    ASSUME NEW S, NEW b \in Buffer(S), NEW c
    PROVE  [b EXCEPT !.cursor = c] = [data |-> b.data, cursor |-> c, size |-> b.size]
  <1> DEFINE x == b.data
             y == b.cursor
             z == b.size
             r == [data |-> x, cursor |-> y, size |-> z]
  <1>1. b = r
    BY DEF Buffer
  <1> HIDE DEF x, y, z
  <1>2. [r EXCEPT !.cursor = c] = [data |-> x, cursor |-> c, size |-> z]
    OBVIOUS
  <1> HIDE DEF r
  <1> QED
    BY <1>1, <1>2, Zenon DEF x, z

LEMMA DataCursorIs ==
    ASSUME NEW S, NEW b \in Buffer(S), NEW d, NEW c
    PROVE  [b EXCEPT !.data = d, !.cursor = c] = [data |-> d, cursor |-> c, size |-> b.size]
  <1> DEFINE x == b.data
             y == b.cursor
             z == b.size
             r == [data |-> x, cursor |-> y, size |-> z]
             p == [data |-> d, cursor |-> y, size |-> z]
             q == [r EXCEPT !.data = d]
  <1>1. b = r
    BY DEF Buffer
  <1> HIDE DEF x, y, z
  <1>2. q = p
    OBVIOUS
  <1>3. [r EXCEPT !.data = d, !.cursor = c] = [q EXCEPT !.cursor = c]
    OBVIOUS
  <1>4. [p EXCEPT !.cursor = c] = [data |-> d, cursor |-> c, size |-> z]
    OBVIOUS
  <1> HIDE DEF r, p, q
  <1>5. [r EXCEPT !.data = d, !.cursor = c] = [data |-> d, cursor |-> c, size |-> z]
    BY <1>2, <1>3, <1>4, Zenon
  <1> QED
    BY <1>1, <1>5, Zenon DEF z

LEMMA SizeDataIs ==
    ASSUME NEW S, NEW b \in Buffer(S), NEW d, NEW s
    PROVE  [b EXCEPT !.size = s, !.data = d] = [data |-> d, cursor |-> b.cursor, size |-> s]
  <1> DEFINE x == b.data
             y == b.cursor
             z == b.size
             r == [data |-> x, cursor |-> y, size |-> z]
             p == [data |-> x, cursor |-> y, size |-> s]
             q == [r EXCEPT !.size = s]
  <1>1. b = r
    BY DEF Buffer
  <1> HIDE DEF x, y, z
  <1>2. q = p
    OBVIOUS
  <1>3. [r EXCEPT !.size = s, !.data = d] = [q EXCEPT !.data = d]
    OBVIOUS
  <1>4. [p EXCEPT !.data = d] = [data |-> d, cursor |-> y, size |-> s]
    OBVIOUS
  <1> HIDE DEF r, p, q
  <1>5. [r EXCEPT !.size = s, !.data = d] = [data |-> d, cursor |-> y, size |-> s]
    BY <1>2, <1>3, <1>4, Zenon
  <1> QED
    BY <1>1, <1>5, Zenon DEF y

\* BoltBuffer_create: nothing in it.
LEMMA CreatedOK ==
    ASSUME NEW S, NEW size \in Nat
    PROVE  IsBuffer(BoltBuffer_create(size), S) /\ Unloadable(BoltBuffer_create(size)) = 0
           /\ Extent(BoltBuffer_create(size)) = 0
  <1>1. <<>> \in Seq(S) /\ Len(<<>>) = 0
    BY EmptySeq
  <1>2. IsBuffer(BoltBuffer_create(size), S)
    <2> DEFINE data == <<>>
    <2>1. data \in Seq(S) /\ 0 <= Len(data) /\ Len(data) <= size /\ 0 \in Nat
      BY <1>1
    <2> HIDE DEF data
    <2>2. IsBuffer([data |-> data, cursor |-> 0, size |-> size], S)
      BY <2>1, MakesBuffer
    <2> QED
      BY <2>2 DEF data, BoltBuffer_create
  <1> QED
    BY <1>1, <1>2 DEF BoltBuffer_create, Unloadable, Extent

\* A buffer in which all bytes are defined is a buffer.
LEMMA Weaken ==
    ASSUME NEW b, IsBuffer(b, Nat)
    PROVE  IsBuffer(b, Int)
  <1>1. b \in Buffer(Nat)
    BY DEF IsBuffer
  <1>2. b.data \in Seq(Int)
    BY <1>1, SeqMonotonic DEF Buffer
  <1>3. b \in Buffer(Int)
    BY <1>1, <1>2 DEF Buffer
  <1> QED
    BY <1>3 DEF IsBuffer

\* BoltBuffer_compact keeps what is ahead.
LEMMA CompactOK ==
    ASSUME NEW S, NEW b, IsBuffer(b, S)
    PROVE  /\ IsBuffer(Compact(b), S)
           /\ Unloadable(Compact(b)) = Unloadable(b)
           /\ Compact(b).size = b.size
  <1>0. /\ b \in Buffer(S) /\ b.data \in Seq(S) /\ b.cursor \in Nat /\ b.size \in Nat
        /\ Extent(b) = Len(b.data) /\ Len(b.data) \in Nat
        /\ b.cursor <= Len(b.data) /\ Len(b.data) <= b.size
        /\ Unloadable(b) = Len(b.data) - b.cursor
        /\ Loadable(b) \in Nat /\ Loadable(b) = b.size - Len(b.data)
    BY BufferIs
  <1>1. CASE b.cursor > 0 /\ Unloadable(b) < b.cursor
    <2> DEFINE rest == SubSeq(b.data, b.cursor + 1, Len(b.data))
    <2>1. b.cursor \in 0 .. Len(b.data)
      BY <1>0
    <2>2. rest \in Seq(S) /\ Len(rest) = Len(b.data) - b.cursor
      BY <1>0, <2>1, RestIs
    <2>3. Compact(b) = [data |-> rest, cursor |-> 0, size |-> b.size]
      <3>1. Compact(b) = [b EXCEPT !.data = rest, !.cursor = 0]
        BY <1>0, <1>1 DEF Compact
      <3> HIDE DEF rest
      <3>2. [b EXCEPT !.data = rest, !.cursor = 0] = [data |-> rest, cursor |-> 0, size |-> b.size]
        <4>1. b \in Buffer(S)
          BY <1>0
        <4> QED
          BY <4>1, DataCursorIs, Zenon
      <3> QED
        BY <3>1, <3>2, Zenon
    <2> HIDE DEF rest
    <2>4. Len(rest) <= b.size
      BY <1>0, <2>2
    <2>5. IsBuffer(Compact(b), S)
      BY <1>0, <2>2, <2>3, <2>4, MakesBuffer
    <2> QED
      BY <1>0, <2>2, <2>3, <2>5 DEF Unloadable, Extent
  <1>2. CASE ~(b.cursor > 0 /\ Unloadable(b) < b.cursor)
    BY <1>2 DEF Compact
  <1> QED
    BY <1>1, <1>2

\* BoltBuffer_load_pointer: what is reserved is allocated.
LEMMA LoadPointerOK ==
    ASSUME NEW b, IsBuffer(b, Int), NEW n \in Nat
    PROVE  /\ IsBuffer(LoadPointer(b, n), Int)
           /\ Extent(LoadPointer(b, n)) = Extent(b) + n
           /\ LoadPointer(b, n).cursor = b.cursor
           /\ \A i \in 1 .. Extent(b) : LoadPointer(b, n).data[i] = b.data[i]
           /\ LoadPointer(b, n).size = IF n > Loadable(b) THEN b.size + (n - Loadable(b)) ELSE b.size
  <1>0. /\ b \in Buffer(Int) /\ b.data \in Seq(Int) /\ b.cursor \in Nat /\ b.size \in Nat
        /\ Extent(b) = Len(b.data) /\ Len(b.data) \in Nat
        /\ b.cursor <= Len(b.data) /\ Len(b.data) <= b.size
        /\ Unloadable(b) = Len(b.data) - b.cursor
        /\ Loadable(b) \in Nat /\ Loadable(b) = b.size - Len(b.data)
    BY BufferIs
  <1> DEFINE space == [i \in 1 .. n |-> Undefined]
             size == IF n > Loadable(b) THEN b.size + (n - Loadable(b)) ELSE b.size
  <1>1. space \in Seq(Int) /\ Len(space) = n
    <2>1. space \in Seq(Int)
      BY IsASeq DEF Undefined
    <2> QED
      BY <2>1
  <1>2. LoadPointer(b, n) = [data |-> b.data \o space, cursor |-> b.cursor, size |-> size]
    <2> DEFINE data == b.data \o space
    <2>1. LoadPointer(b, n) = [b EXCEPT !.size = size, !.data = data]
      BY DEF LoadPointer
    <2> HIDE DEF data, size
    <2>2. LoadPointer(b, n) = [data |-> data, cursor |-> b.cursor, size |-> size]
      <3>1. b \in Buffer(Int)
        BY <1>0
      <3>2. [b EXCEPT !.size = size, !.data = data] = [data |-> data, cursor |-> b.cursor, size |-> size]
        BY <3>1, SizeDataIs, Zenon
      <3> QED
        BY <2>1, <3>2, Zenon
    <2> QED
      BY <2>2 DEF data
  <1> HIDE DEF space
  <1>3. /\ b.data \o space \in Seq(Int)
        /\ Len(b.data \o space) = Len(b.data) + n
        /\ \A i \in 1 .. Len(b.data) : (b.data \o space)[i] = b.data[i]
    <2>1. /\ b.data \o space \in Seq(Int)
          /\ Len(b.data \o space) = Len(b.data) + Len(space)
          /\ \A i \in 1 .. Len(b.data) + Len(space) :
                (b.data \o space)[i] = IF i <= Len(b.data) THEN b.data[i] ELSE space[i - Len(b.data)]
      BY <1>0, <1>1, ConcatProperties
    <2> QED
      BY <1>0, <1>1, <2>1
  <1>4. size \in Nat /\ Len(b.data) + n <= size
    BY <1>0
  <1> HIDE DEF size
  <1> DEFINE data == b.data \o space
  <1>5. IsBuffer([data |-> data, cursor |-> b.cursor, size |-> size], Int)
    <2> HIDE DEF data
    <2>1. data \in Seq(Int) /\ Len(data) = Len(b.data) + n
      BY <1>3 DEF data
    <2> QED
      BY <1>0, <1>4, <2>1, MakesBuffer
  <1> QED
    BY <1>0, <1>2, <1>3, <1>5 DEF Extent, size

\* Bytes written within the extent change neither it nor the cursor.
LEMMA StoreOK ==
    ASSUME NEW b, IsBuffer(b, Int), NEW offset \in Nat, NEW bytes \in Seq(Int),
           offset + Len(bytes) <= Extent(b)
    PROVE  /\ IsBuffer(Store(b, offset, bytes), Int)
           /\ Extent(Store(b, offset, bytes)) = Extent(b)
           /\ Store(b, offset, bytes).cursor = b.cursor
           /\ Store(b, offset, bytes).size = b.size
           /\ \A i \in 1 .. Extent(b) :
                Store(b, offset, bytes).data[i] =
                   IF i \in offset + 1 .. offset + Len(bytes) THEN bytes[i - offset] ELSE b.data[i]
  <1>0. /\ b \in Buffer(Int) /\ b.data \in Seq(Int) /\ b.cursor \in Nat /\ b.size \in Nat
        /\ Extent(b) = Len(b.data) /\ Len(b.data) \in Nat
        /\ b.cursor <= Len(b.data) /\ Len(b.data) <= b.size
        /\ Unloadable(b) = Len(b.data) - b.cursor
        /\ Loadable(b) \in Nat /\ Loadable(b) = b.size - Len(b.data)
    BY BufferIs
  <1> DEFINE l == Len(bytes)
             front == SubSeq(b.data, 1, offset)
             back == SubSeq(b.data, offset + l + 1, Len(b.data))
             data == front \o bytes \o back
  <1>1. l \in Nat
    BY LenProperties
  <1>2. offset \in 0 .. Len(b.data) /\ offset + l \in 0 .. Len(b.data)
    BY <1>0, <1>1
  <1>3. front \in Seq(Int) /\ Len(front) = offset /\ \A i \in 1 .. offset : front[i] = b.data[i]
    BY <1>0, <1>2, FrontIs
  <1>4. /\ back \in Seq(Int) /\ Len(back) = Len(b.data) - (offset + l)
        /\ \A i \in 1 .. Len(b.data) - (offset + l) : back[i] = b.data[offset + l + i]
    <2> DEFINE n == offset + l
    <2>1. n \in 0 .. Len(b.data)
      BY <1>2
    <2> HIDE DEF n
    <2>2. /\ SubSeq(b.data, n + 1, Len(b.data)) \in Seq(Int)
          /\ Len(SubSeq(b.data, n + 1, Len(b.data))) = Len(b.data) - n
          /\ \A i \in 1 .. Len(b.data) - n : SubSeq(b.data, n + 1, Len(b.data))[i] = b.data[n + i]
      BY <1>0, <2>1, RestIs
    <2> QED
      BY <2>2 DEF n
  <1>5. Store(b, offset, bytes) = [data |-> data, cursor |-> b.cursor, size |-> b.size]
    <2>1. b \in Buffer(Int)
      BY <1>0
    <2>2. Store(b, offset, bytes) = [b EXCEPT !.data = data]
      BY DEF Store
    <2> HIDE DEF data
    <2> QED
      BY <2>1, <2>2, DataIs, Zenon
  <1> HIDE DEF front, back
  <1>6. /\ front \o bytes \in Seq(Int) /\ Len(front \o bytes) = offset + l
        /\ \A i \in 1 .. offset + l : (front \o bytes)[i] = IF i <= offset THEN front[i] ELSE bytes[i - offset]
    <2>1. /\ front \o bytes \in Seq(Int) /\ Len(front \o bytes) = Len(front) + Len(bytes)
          /\ \A i \in 1 .. Len(front) + Len(bytes) :
                (front \o bytes)[i] = IF i <= Len(front) THEN front[i] ELSE bytes[i - Len(front)]
      BY <1>3, ConcatProperties
    <2> QED
      BY <1>3, <2>1
  <1> DEFINE half == front \o bytes
  <1> HIDE DEF half
  <1>7. half \in Seq(Int) /\ Len(half) = offset + l
    BY <1>6 DEF half
  <1>8. /\ half \o back \in Seq(Int) /\ Len(half \o back) = Len(half) + Len(back)
        /\ \A i \in 1 .. Len(half) + Len(back) :
              (half \o back)[i] = IF i <= Len(half) THEN half[i] ELSE back[i - Len(half)]
    BY <1>4, <1>7, ConcatProperties, Zenon
  <1>9. data = half \o back
    BY DEF half
  <1> HIDE DEF data, l
  <1>13. /\ data \in Seq(Int) /\ Len(data) = Len(half) + Len(back)
         /\ \A i \in 1 .. Len(half) + Len(back) :
               data[i] = IF i <= Len(half) THEN half[i] ELSE back[i - Len(half)]
    BY <1>8, <1>9, Zenon
  <1> DEFINE e == Len(b.data)
  <1>14. /\ e \in Nat /\ l \in Nat /\ offset + l <= e
         /\ Len(half) = offset + l /\ Len(back) = e - (offset + l)
    BY <1>0, <1>1, <1>2, <1>4, <1>7
  <1> HIDE DEF e
  <1>10. data \in Seq(Int) /\ Len(data) = Len(b.data)
    <2>1. Len(half) + Len(back) = e
      BY <1>14
    <2> QED
      BY <1>13, <2>1 DEF e
  <1>11. IsBuffer([data |-> data, cursor |-> b.cursor, size |-> b.size], Int)
    BY <1>0, <1>10, MakesBuffer
  <1>12. ASSUME NEW i \in 1 .. e
         PROVE  data[i] = IF i \in offset + 1 .. offset + l THEN bytes[i - offset] ELSE b.data[i]
    <2>1. CASE i <= offset
      <3>1. data[i] = half[i]
        BY <1>13, <1>14, <2>1
      <3>2. half[i] = front[i]
        BY <1>6, <1>14, <2>1 DEF half
      <3>3. front[i] = b.data[i]
        BY <1>3, <2>1
      <3> QED
        BY <1>14, <2>1, <3>1, <3>2, <3>3
    <2>2. CASE i \in offset + 1 .. offset + l
      <3>1. data[i] = half[i]
        BY <1>13, <1>14, <2>2
      <3>2. half[i] = bytes[i - offset]
        BY <1>6, <1>14, <2>2 DEF half
      <3> QED
        BY <2>2, <3>1, <3>2
    <2>3. CASE i > offset + l
      <3>1. data[i] = back[i - (offset + l)]
        <4>1. i \in 1 .. Len(half) + Len(back) /\ ~(i <= Len(half))
          BY <1>14, <2>3
        <4>2. data[i] = back[i - Len(half)]
          BY <1>13, <4>1
        <4> QED
          BY <1>14, <4>2
      <3>2. back[i - (offset + l)] = b.data[i]
        <4> DEFINE j == i - (offset + l)
        <4>1. j \in 1 .. e - (offset + l) /\ offset + l + j = i
          BY <1>14, <2>3
        <4> HIDE DEF j
        <4>2. back[j] = b.data[offset + l + j]
          BY <1>4, <4>1 DEF e
        <4> QED
          BY <4>1, <4>2 DEF j
      <3> QED
        BY <1>14, <2>3, <3>1, <3>2
    <2> QED
      BY <1>14, <2>1, <2>2, <2>3
  <1> QED
    BY <1>0, <1>5, <1>10, <1>11, <1>12 DEF Extent, l, e

\* BoltBuffer_load puts bytes behind the extent.
LEMMA LoadBytesOK ==
    ASSUME NEW b, IsBuffer(b, Nat), NEW bytes \in Seq(Nat)
    PROVE  /\ IsBuffer(LoadBytes(b, bytes), Nat)
           /\ LoadBytes(b, bytes).data = b.data \o bytes
           /\ LoadBytes(b, bytes).cursor = b.cursor
           /\ Extent(LoadBytes(b, bytes)) = Extent(b) + Len(bytes)
  <1> DEFINE l == Len(bytes)
             p == LoadPointer(b, l)
             r == Store(p, Extent(b), bytes)
  <1>1. l \in Nat /\ bytes \in Seq(Int) /\ IsBuffer(b, Int)
    BY LenProperties, SeqMonotonic, Weaken
  <1>2. /\ IsBuffer(p, Int) /\ Extent(p) = Extent(b) + l /\ p.cursor = b.cursor
        /\ \A i \in 1 .. Extent(b) : p.data[i] = b.data[i]
    BY <1>1, LoadPointerOK
  <1>3. b.data \in Seq(Nat) /\ Extent(b) = Len(b.data) /\ Extent(b) \in Nat
    BY BufferIs
  <1> HIDE DEF p
  <1>4. /\ IsBuffer(r, Int) /\ Extent(r) = Extent(p) /\ r.cursor = p.cursor
        /\ \A i \in 1 .. Extent(p) :
              r.data[i] = IF i \in Extent(b) + 1 .. Extent(b) + l THEN bytes[i - Extent(b)] ELSE p.data[i]
    <2>1. Extent(b) + Len(bytes) <= Extent(p)
      BY <1>1, <1>2, <1>3
    <2> QED
      BY <1>1, <1>2, <1>3, <2>1, StoreOK
  <1> HIDE DEF r, l
  <1> DEFINE data == b.data \o bytes
  <1>5. /\ data \in Seq(Nat) /\ Len(data) = Len(b.data) + l
        /\ \A i \in 1 .. Len(b.data) + l : data[i] = IF i <= Len(b.data) THEN b.data[i] ELSE bytes[i - Len(b.data)]
    BY <1>3, ConcatProperties DEF l
  <1> HIDE DEF data
  <1>6. r.data = data
    <2>1. r.data \in Seq(Int) /\ data \in Seq(Int) /\ Len(r.data) = Len(data)
      BY <1>2, <1>3, <1>4, <1>5, BufferIs, SeqMonotonic
    <2>2. ASSUME NEW i \in 1 .. Len(r.data) PROVE r.data[i] = data[i]
      <3>1. Len(r.data) = Extent(b) + l /\ i \in 1 .. Extent(p)
        BY <1>1, <1>2, <1>3, <1>4, <1>5, <2>1
      <3>2. CASE i <= Len(b.data)
        <4>1. r.data[i] = p.data[i] /\ p.data[i] = b.data[i]
          BY <1>1, <1>2, <1>3, <1>4, <3>1, <3>2
        <4> QED
          BY <1>1, <1>3, <1>5, <3>1, <3>2, <4>1
      <3>3. CASE i > Len(b.data)
        <4>1. i \in Extent(b) + 1 .. Extent(b) + l
          BY <1>1, <1>3, <3>1, <3>3
        <4>2. r.data[i] = bytes[i - Len(b.data)]
          BY <1>3, <1>4, <3>1, <4>1
        <4> QED
          BY <1>1, <1>3, <1>5, <3>1, <3>3, <4>2
      <3> QED
        BY <1>1, <1>3, <3>1, <3>2, <3>3
    <2> QED
      BY <2>1, <2>2, SeqEqual
  <1>7. IsBuffer(r, Nat)
    <2>1. r \in Buffer(Int) /\ r.data \in Seq(Nat)
      BY <1>4, <1>5, <1>6, BufferIs
    <2>2. r \in Buffer(Nat)
      BY <2>1 DEF Buffer
    <2> QED
      BY <1>4, <2>2 DEF IsBuffer
  <1> QED
    BY <1>2, <1>4, <1>6, <1>7 DEF LoadBytes, r, p, l, data

\* What is read next is within what was loaded.
LEMMA AheadOK ==
    ASSUME NEW S, NEW b, IsBuffer(b, S), NEW n \in 0 .. Unloadable(b)
    PROVE  /\ Ahead(b, n) \in Seq(S)
           /\ Len(Ahead(b, n)) = n
           /\ \A i \in 1 .. n : Ahead(b, n)[i] = b.data[b.cursor + i]
  <1>1. /\ b.data \in Seq(S) /\ b.cursor \in Nat /\ Len(b.data) \in Nat
        /\ b.cursor <= Len(b.data) /\ Unloadable(b) = Len(b.data) - b.cursor
    BY BufferIs
  <1> DEFINE c == b.cursor
             e == Len(b.data)
  <1>2. c \in Nat /\ e \in Nat /\ n \in Nat /\ c + n <= e
    BY <1>1
  <1>3. \A i \in 1 .. e : b.data[i] \in S
    BY <1>1, LenProperties
  <1> HIDE DEF c, e
  <1>4. \A i \in c + 1 .. c + n : b.data[i] \in S
    BY <1>2, <1>3
  <1>5. /\ SubSeq(b.data, c + 1, c + n) \in Seq(S)
        /\ Len(SubSeq(b.data, c + 1, c + n)) = IF c + 1 <= c + n THEN (c + n) - (c + 1) + 1 ELSE 0
        /\ \A i \in 1 .. (c + n) - (c + 1) + 1 : SubSeq(b.data, c + 1, c + n)[i] = b.data[(c + 1) + i - 1]
    <2>1. c + 1 \in Int /\ c + n \in Int
      BY <1>2
    <2> QED
      BY <1>4, <2>1, SubSeqProperties
  <1>6. Len(SubSeq(b.data, c + 1, c + n)) = n
    BY <1>2, <1>5
  <1>7. ASSUME NEW i \in 1 .. n PROVE SubSeq(b.data, c + 1, c + n)[i] = b.data[c + i]
    <2>1. i \in 1 .. (c + n) - (c + 1) + 1 /\ (c + 1) + i - 1 = c + i
      BY <1>2
    <2>2. SubSeq(b.data, c + 1, c + n)[i] = b.data[(c + 1) + i - 1]
      BY <1>5, <2>1
    <2> QED
      BY <2>1, <2>2
  <1> QED
    BY <1>5, <1>6, <1>7 DEF Ahead, c

\* Unloading moves the cursor up to the extent and nothing else.
LEMMA AdvanceOK ==
    ASSUME NEW S, NEW b, IsBuffer(b, S), NEW n \in 0 .. Unloadable(b)
    PROVE  /\ IsBuffer(Advance(b, n), S)
           /\ Unloadable(Advance(b, n)) = Unloadable(b) - n
           /\ Advance(b, n).data = b.data
           /\ Advance(b, n).cursor = b.cursor + n
  <1>1. /\ b \in Buffer(S) /\ b.data \in Seq(S) /\ b.cursor \in Nat /\ b.size \in Nat
        /\ Len(b.data) \in Nat /\ b.cursor <= Len(b.data) /\ Len(b.data) <= b.size
        /\ Unloadable(b) = Len(b.data) - b.cursor
    BY BufferIs
  <1> DEFINE c == b.cursor + n
  <1>2. c \in Nat /\ c <= Len(b.data)
    BY <1>1
  <1>3. Unloadable(b) - n = Len(b.data) - c
    BY <1>1
  <1>4. Advance(b, n) = [b EXCEPT !.cursor = c]
    BY DEF Advance
  <1> HIDE DEF c
  <1>5. Advance(b, n) = [data |-> b.data, cursor |-> c, size |-> b.size]
    <2>1. b \in Buffer(S)
      BY <1>1
    <2> QED
      BY <1>4, <2>1, CursorIs, Zenon
  <1>6. IsBuffer(Advance(b, n), S)
    BY <1>1, <1>2, <1>5, MakesBuffer
  <1>7. Unloadable(Advance(b, n)) = Len(b.data) - c
    BY <1>5 DEF Unloadable, Extent
  <1> QED
    BY <1>3, <1>5, <1>6, <1>7 DEF c

\* BoltBuffer_unload
LEMMA UnloadOK ==
    ASSUME NEW S, NEW b, IsBuffer(b, S), NEW n \in 0 .. Unloadable(b)
    PROVE  /\ IsBuffer(Unload(b, n), S)
           /\ Unloadable(Unload(b, n)) = Unloadable(b) - n
  <1>1. /\ IsBuffer(Advance(b, n), S)
        /\ Unloadable(Advance(b, n)) = Unloadable(b) - n
    BY AdvanceOK
  <1> DEFINE a == Advance(b, n)
  <1> HIDE DEF a
  <1>2. IsBuffer(Compact(a), S) /\ Unloadable(Compact(a)) = Unloadable(a)
    BY <1>1, CompactOK DEF a
  <1> QED
    BY <1>1, <1>2 DEF Unload, a

\* BoltBuffer_unload_pointer
LEMMA UnloadPointerOK ==
    ASSUME NEW S, NEW b, IsBuffer(b, S), NEW n \in 0 .. Unloadable(b)
    PROVE  /\ IsBuffer(UnloadPointer(b, n), S)
           /\ Unloadable(UnloadPointer(b, n)) = Unloadable(b) - n
           /\ n = Unloadable(b) => UnloadPointer(b, n).data = <<>> /\ UnloadPointer(b, n).cursor = 0
  <1>1. /\ b \in Buffer(S) /\ b.data \in Seq(S) /\ b.cursor \in Nat /\ b.size \in Nat
        /\ Extent(b) = Len(b.data)
        /\ Len(b.data) \in Nat /\ b.cursor <= Len(b.data) /\ Len(b.data) <= b.size
        /\ Unloadable(b) = Len(b.data) - b.cursor
    BY BufferIs
  <1>2. CASE b.cursor + n = Extent(b)
    <2> DEFINE data == <<>>
    <2>1. data \in Seq(S) /\ Len(data) = 0
      BY EmptySeq
    <2>2. UnloadPointer(b, n) = [b EXCEPT !.data = data, !.cursor = 0]
      BY <1>2 DEF UnloadPointer
    <2> HIDE DEF data
    <2>3. UnloadPointer(b, n) = [data |-> data, cursor |-> 0, size |-> b.size]
      <3>1. b \in Buffer(S)
        BY <1>1
      <3>2. [b EXCEPT !.data = data, !.cursor = 0] = [data |-> data, cursor |-> 0, size |-> b.size]
        BY <3>1, DataCursorIs, Zenon
      <3> QED
        BY <2>2, <3>2, Zenon
    <2>4. IsBuffer(UnloadPointer(b, n), S)
      <3>1. 0 <= Len(data) /\ Len(data) <= b.size /\ 0 \in Nat
        BY <1>1, <2>1
      <3> QED
        BY <1>1, <2>1, <2>3, <3>1, MakesBuffer
    <2>5. Unloadable(UnloadPointer(b, n)) = 0
      BY <2>1, <2>3 DEF Unloadable, Extent
    <2>6. Unloadable(b) - n = 0
      BY <1>1, <1>2
    <2> QED
      BY <2>3, <2>4, <2>5, <2>6 DEF data
  <1>3. CASE b.cursor + n # Extent(b)
    <2>1. UnloadPointer(b, n) = Advance(b, n)
      BY <1>3 DEF UnloadPointer
    <2>2. n # Unloadable(b)
      BY <1>1, <1>3
    <2> QED
      BY <2>1, <2>2, AdvanceOK
  <1> QED
    BY <1>2, <1>3

\* Setting the extent back keeps what is in front of it.
LEMMA TruncateOK ==
    ASSUME NEW S, NEW b, IsBuffer(b, S), NEW extent \in b.cursor .. Extent(b)
    PROVE  /\ IsBuffer(Truncate(b, extent), S)
           /\ Extent(Truncate(b, extent)) = extent
           /\ Truncate(b, extent).cursor = b.cursor
           /\ Truncate(b, extent).size = b.size
           /\ \A i \in 1 .. extent : Truncate(b, extent).data[i] = b.data[i]
  <1>1. /\ b \in Buffer(S) /\ b.data \in Seq(S) /\ b.cursor \in Nat /\ b.size \in Nat
        /\ Extent(b) = Len(b.data)
        /\ Len(b.data) \in Nat /\ b.cursor <= Len(b.data) /\ Len(b.data) <= b.size
    BY BufferIs
  <1> DEFINE data == SubSeq(b.data, 1, extent)
  <1>2. extent \in 0 .. Len(b.data)
    BY <1>1
  <1>3. data \in Seq(S) /\ Len(data) = extent /\ \A i \in 1 .. extent : data[i] = b.data[i]
    BY <1>1, <1>2, FrontIs
  <1>4. Truncate(b, extent) = [b EXCEPT !.data = data]
    BY DEF Truncate
  <1> HIDE DEF data
  <1>5. Truncate(b, extent) = [data |-> data, cursor |-> b.cursor, size |-> b.size]
    <2>1. b \in Buffer(S)
      BY <1>1
    <2> QED
      BY <1>4, <2>1, DataIs, Zenon
  <1>6. b.cursor <= Len(data) /\ Len(data) <= b.size
    BY <1>1, <1>2, <1>3
  <1>7. IsBuffer(Truncate(b, extent), S)
    BY <1>1, <1>3, <1>5, <1>6, MakesBuffer
  <1> QED
    BY <1>3, <1>5, <1>7 DEF Extent

-----------------------------------------------------------------------------
(* Memory: the inductive invariant *)

Calls == {"header", "chunk", "next header"}

\* Types. What is sent are bytes; the buffers that are received into may hold
\* bytes that are reserved and not defined.
Typed ==
    /\ IsBuffer(msgTx, Nat) /\ IsBuffer(tx, Nat) /\ IsBuffer(rx, Int) /\ IsBuffer(msgRx, Int)
    /\ toPeer \in Seq(Nat) /\ toClient \in Seq(Nat)
    /\ sending \in [bytes : Seq(Nat), total : Nat, remaining : Nat]
    /\ sending.total + sending.remaining = Len(sending.bytes)
    /\ call \in [size : Nat, delta : Nat, max : Nat, total : Nat]
    /\ pc \in Calls \cup {"idle", "sending", "defunct"}
    /\ failures \in 0 .. MaxFailures
    /\ loaded \in Seq(Seq(Nat))

\* While bytes are missing, those that were reserved are the last of rx_buffer
\* and fewer were received than are missing.
Reserved ==
    /\ call.delta <= call.max /\ call.max <= Unloadable(rx)
    /\ call.total < call.delta \/ (call.delta = 0 /\ call.max = 0 /\ call.total = 0)
    /\ pc \in {"idle", "sending"} => call.delta = 0

\* All bytes of rx_buffer but those are defined.
Defined == \A i \in 1 .. Extent(rx) - call.max + call.total : rx.data[i] \in Nat

\* When nothing is missing any more, what was asked for is there.
Enough ==
    pc \in Calls => /\ Unloadable(rx) - call.max + call.delta >= call.size
                    /\ pc # "chunk" => call.size = 2

\* There is room for the chunk that is received, and a message has a byte.
Room ==
    /\ pc = "chunk" => call.size >= 1 /\ call.size <= Unloadable(msgRx)
    /\ pc = "next header" => Unloadable(msgRx) >= 1

MemoryInv == Typed /\ Reserved /\ Defined /\ Enough /\ Room

Record == [size : Nat, delta : Nat, max : Nat, total : Nat]

\* The members of the calls in progress.
LEMMA CallIs ==
    ASSUME Typed
    PROVE  /\ call.size \in Nat /\ call.delta \in Nat /\ call.max \in Nat /\ call.total \in Nat
           /\ sending.bytes \in Seq(Nat) /\ sending.total \in Nat /\ sending.remaining \in Nat
           /\ sending.total + sending.remaining = Len(sending.bytes)
  BY DEF Typed

\* If no byte is undefined, the buffer is one of bytes.
LEMMA NowDefined ==
    ASSUME NEW b, IsBuffer(b, Int), \A i \in 1 .. Extent(b) : b.data[i] \in Nat
    PROVE  IsBuffer(b, Nat)
  <1>1. b \in Buffer(Int) /\ b.data \in Seq(Int) /\ Extent(b) = Len(b.data) /\ Len(b.data) \in Nat
    BY BufferIs
  <1>2. b.data \in Seq(Nat)
    <2> DEFINE s == b.data
    <2> HIDE DEF s
    <2>1. s \in Seq(Int) /\ \A i \in 1 .. Len(s) : s[i] \in Nat
      BY <1>1 DEF s
    <2>2. s \in [1 .. Len(s) -> Nat] /\ Len(s) \in Nat
      BY <2>1, LenProperties
    <2>3. s \in Seq(Nat)
      BY <2>2, SeqDef
    <2> QED
      BY <2>3 DEF s
  <1>3. b \in Buffer(Nat)
    BY <1>1, <1>2 DEF Buffer
  <1> QED
    BY <1>3 DEF IsBuffer

\* In a buffer of numbers every byte is defined.
LEMMA AllDefined ==
    ASSUME NEW b, IsBuffer(b, Nat)
    PROVE  IsBuffer(b, Int) /\ \A i \in 1 .. Extent(b) : b.data[i] \in Nat
  <1>1. b.data \in Seq(Nat) /\ Extent(b) = Len(b.data)
    BY BufferIs
  <1> QED
    BY <1>1, Weaken, LenProperties

\* The larger of two numbers.
LEMMA MaxOK ==
    ASSUME NEW x \in Int, NEW y \in Int
    PROVE  /\ Max({x, y}) \in {x, y}
           /\ Max({x, y}) >= x /\ Max({x, y}) >= y
  <1>1. \E z \in {x, y} : \A w \in {x, y} : z >= w
    <2>1. CASE x >= y
      BY <2>1
    <2>2. CASE ~(x >= y)
      BY <2>2
    <2> QED
      BY <2>1, <2>2
  <1>2. Max({x, y}) \in {x, y} /\ \A w \in {x, y} : Max({x, y}) >= w
    BY <1>1 DEF Max
  <1> QED
    BY <1>2

\* What a call of BoltConnection_receive for n bytes begins with.
LEMMA ReceiveOK ==
    ASSUME NEW b, IsBuffer(b, Nat), NEW n \in Nat, Receive(b, n)
    PROVE  /\ IsBuffer(rx', Int)
           /\ call' \in Record /\ call'.size = n
           /\ call'.delta <= call'.max /\ call'.max <= Unloadable(rx')
           /\ call'.total < call'.delta \/ (call'.delta = 0 /\ call'.max = 0 /\ call'.total = 0)
           /\ Unloadable(rx') - call'.max + call'.delta >= n
           /\ \A i \in 1 .. Extent(rx') - call'.max + call'.total : rx'.data[i] \in Nat
  <1>1. Unloadable(b) \in Nat
    BY BufferIs
  <1>2. CASE Missing(b, n) > 0
    <2> DEFINE r == MakeRoom(b)
               max == MaxSize(r, n)
               delta == Missing(b, n)
    <2>1. IsBuffer(r, Nat) /\ Unloadable(r) = Unloadable(b)
      BY CompactOK DEF MakeRoom
    <2> HIDE DEF r
    <2>2. Loadable(r) \in Nat /\ Extent(r) \in Nat
      BY <2>1, BufferIs
    <2>3. delta \in Nat \ {0} /\ delta = n - Unloadable(b) /\ Missing(r, n) = delta
      BY <1>1, <1>2, <2>1 DEF Missing
    <2> HIDE DEF delta
    <2>4. max \in Nat /\ max >= delta
      <3>1. max = Max({delta, Loadable(r)})
        BY <2>3 DEF MaxSize
      <3>2. max \in {delta, Loadable(r)} /\ max >= delta
        BY <2>2, <2>3, <3>1, MaxOK
      <3> QED
        BY <2>2, <2>3, <3>2
    <2> HIDE DEF max
    <2>5. IsBuffer(r, Int) /\ \A i \in 1 .. Extent(r) : r.data[i] \in Nat
      BY <2>1, AllDefined
    <2>6. rx' = LoadPointer(r, max) /\ call' = [size |-> n, delta |-> delta, max |-> max, total |-> 0]
      BY <1>2 DEF Receive, r, max, delta
    <2>7. /\ IsBuffer(rx', Int) /\ Extent(rx') = Extent(r) + max /\ rx'.cursor = r.cursor
          /\ \A i \in 1 .. Extent(r) : rx'.data[i] = r.data[i]
      BY <2>4, <2>5, <2>6, LoadPointerOK
    <2>8. call'.size = n /\ call'.delta = delta /\ call'.max = max /\ call'.total = 0
      BY <2>6
    <2>9. call' \in Record
      BY <2>3, <2>4, <2>6 DEF Record
    <2>10. Unloadable(rx') = Unloadable(b) + max
      <3>1. Unloadable(rx') = Extent(rx') - rx'.cursor /\ Unloadable(r) = Extent(r) - r.cursor
        BY DEF Unloadable
      <3>2. r.cursor \in Nat
        BY <2>1, BufferIs
      <3> QED
        BY <1>1, <2>1, <2>2, <2>4, <2>7, <3>1, <3>2
    <2>11. Extent(rx') - call'.max + call'.total = Extent(r)
      BY <2>2, <2>4, <2>7, <2>8
    <2>12. \A i \in 1 .. Extent(rx') - call'.max + call'.total : rx'.data[i] \in Nat
      BY <2>5, <2>7, <2>11
    <2>13. /\ call'.delta <= call'.max /\ call'.max <= Unloadable(rx') /\ call'.total < call'.delta
           /\ Unloadable(rx') - call'.max + call'.delta >= n
      BY <1>1, <2>3, <2>4, <2>8, <2>10
    <2> QED
      BY <2>7, <2>8, <2>9, <2>12, <2>13
  <1>3. CASE ~(Missing(b, n) > 0)
    <2>1. rx' = b /\ call' = [size |-> n, delta |-> 0, max |-> 0, total |-> 0]
      BY <1>3 DEF Receive
    <2>2. call'.size = n /\ call'.delta = 0 /\ call'.max = 0 /\ call'.total = 0 /\ call' \in Record
      BY <2>1 DEF Record
    <2>3. Unloadable(b) >= n
      BY <1>1, <1>3 DEF Missing
    <2>4. IsBuffer(b, Int) /\ \A i \in 1 .. Extent(b) : b.data[i] \in Nat
      BY AllDefined
    <2>5. Extent(b) \in Nat
      BY BufferIs
    <2>6. Extent(rx') - call'.max + call'.total = Extent(b)
      BY <2>1, <2>2, <2>5
    <2> QED
      BY <1>1, <2>1, <2>2, <2>3, <2>4, <2>6
  <1> QED
    BY <1>2, <1>3

\* The largest size is one.
LEMMA PayloadOK ==
    ASSUME NEW i \in Nat, NEW n \in Sizes
    PROVE  /\ Payload(i, n) \in Seq(Nat)
           /\ Len(Payload(i, n)) = n /\ n \in Nat \ {0}
  <1>1. Max(Sizes) \in Nat
    <2>1. \E x \in Sizes : \A y \in Sizes : x >= y
      BY SizesAssumption
    <2>2. Max(Sizes) \in Sizes
      BY <2>1 DEF Max
    <2> QED
      BY <2>2, SizesAssumption
  <1>2. Stride \in Nat
    BY <1>1 DEF Stride
  <1>3. n \in Nat \ {0}
    BY SizesAssumption
  <1>4. i * Stride \in Nat
    BY <1>2
  <1> DEFINE j == i * Stride
  <1> HIDE DEF j
  <1>5. \A k \in 1 .. n : Base + j + k \in Nat
    BY <1>3, <1>4, BaseAssumption DEF j
  <1>6. Payload(i, n) = [k \in 1 .. n |-> Base + j + k]
    BY DEF Payload, j
  <1>7. [k \in 1 .. n |-> Base + j + k] \in Seq(Nat)
    BY <1>3, <1>5, IsASeq
  <1>8. Len([k \in 1 .. n |-> Base + j + k]) = n
    BY <1>3
  <1> QED
    BY <1>3, <1>6, <1>7, <1>8

-----------------------------------------------------------------------------
(* Memory: every action keeps the invariant *)

\* New buffers are in order.
LEMMA MemoryInit == Init => MemoryInv
  <1> SUFFICES ASSUME Init PROVE MemoryInv
    OBVIOUS
  <1>1. InitialSize \in Nat
    BY SizesAssumption
  <1> DEFINE new == BoltBuffer_create(InitialSize)
  <1>2. /\ IsBuffer(new, Nat) /\ IsBuffer(new, Int) /\ Unloadable(new) = 0 /\ Extent(new) = 0
    BY <1>1, CreatedOK
  <1> HIDE DEF new
  <1>3. msgTx = new /\ tx = new /\ rx = new /\ msgRx = new
    BY DEF Init, new
  <1>4. /\ sending \in [bytes : Seq(Nat), total : Nat, remaining : Nat]
        /\ sending.total + sending.remaining = Len(sending.bytes)
    <2>1. <<>> \in Seq(Nat) /\ Len(<<>>) = 0
      BY EmptySeq
    <2>2. sending = NoSend
      BY DEF Init
    <2>3. NoSend.total = 0 /\ NoSend.remaining = 0 /\ NoSend.bytes = <<>>
      BY DEF NoSend
    <2>4. NoSend \in [bytes : Seq(Nat), total : Nat, remaining : Nat]
      BY <2>1 DEF NoSend
    <2> QED
      BY <2>1, <2>2, <2>3, <2>4
  <1>5. call = [size |-> 0, delta |-> 0, max |-> 0, total |-> 0] /\ pc = "idle" /\ failures = 0
    BY DEF Init, NoCall
  <1>6. toPeer \in Seq(Nat) /\ toClient \in Seq(Nat) /\ loaded \in Seq(Seq(Nat))
    BY EmptySeq DEF Init
  <1>7. Typed
    BY <1>2, <1>3, <1>4, <1>5, <1>6, SizesAssumption DEF Typed
  <1>8. call.size = 0 /\ call.delta = 0 /\ call.max = 0 /\ call.total = 0
    BY <1>5
  <1>9. Reserved
    BY <1>2, <1>3, <1>8 DEF Reserved
  <1>10. Defined
    BY <1>2, <1>3, <1>8 DEF Defined
  <1>11. Enough /\ Room
    BY <1>5 DEF Enough, Room, Calls
  <1> QED
    BY <1>7, <1>9, <1>10, <1>11 DEF MemoryInv

\* If neither the buffers of receiving nor the call change, and what is done is
\* done outside a fetch.
LEMMA OutsideFetch ==
    ASSUME MemoryInv, UNCHANGED <<rx, msgRx, call>>,
           pc' \in Calls => pc' = pc,
           pc' \in {"idle", "sending"} => pc \in {"idle", "sending"} \/ call.delta = 0
    PROVE  Reserved' /\ Defined' /\ Enough' /\ Room'
  <1>1. Reserved'
    BY DEF MemoryInv, Reserved, Unloadable, Extent
  <1>2. Defined'
    BY DEF MemoryInv, Defined, Extent
  <1>3. Enough'
    BY DEF MemoryInv, Enough, Unloadable, Extent, Calls
  <1>4. Room'
    BY DEF MemoryInv, Room, Unloadable, Extent, Calls
  <1> QED
    BY <1>1, <1>2, <1>3, <1>4

\* load_message: what is written fits, the chunks fit.
LEMMA LoadKeeps ==
    ASSUME MemoryInv, NEW n \in Sizes, Load(n)
    PROVE  MemoryInv'
  <1> DEFINE payload == Payload(Len(loaded) + 1, n)
             written == LoadBytes(msgTx, payload)
             ahead == Ahead(written, Unloadable(written))
  <1>1. IsBuffer(msgTx, Nat) /\ IsBuffer(tx, Nat) /\ loaded \in Seq(Seq(Nat))
    BY DEF MemoryInv, Typed
  <1>2. payload \in Seq(Nat)
    <2>1. Len(loaded) \in Nat
      BY <1>1, LenProperties
    <2>2. Len(loaded) + 1 \in Nat
      BY <2>1
    <2> QED
      BY <2>2, PayloadOK
  <1>3. /\ tx' = LoadBytes(tx, Chunked[ahead])
        /\ msgTx' = Compact(UnloadPointer(written, Unloadable(written)))
        /\ loaded' = Append(loaded, payload)
        /\ UNCHANGED <<rx, msgRx, pc, sending, call, toPeer, toClient, failures>>
    BY DEF Load, PushToTransmission, wire
  <1> HIDE DEF payload
  <1>4. IsBuffer(written, Nat)
    BY <1>1, <1>2, LoadBytesOK
  <1> HIDE DEF written
  <1>5. Unloadable(written) \in 0 .. Unloadable(written)
    BY <1>4, BufferIs
  <1>6. ahead \in Seq(Nat)
    BY <1>4, <1>5, AheadOK
  <1> HIDE DEF ahead
  <1>7. IsBuffer(tx', Nat)
    <2>1. Chunked[ahead] \in Seq(Nat)
      BY <1>6, ChunkedIs
    <2> QED
      BY <1>1, <1>3, <2>1, LoadBytesOK
  <1>8. IsBuffer(msgTx', Nat)
    <2> DEFINE emptied == UnloadPointer(written, Unloadable(written))
    <2>1. IsBuffer(emptied, Nat)
      BY <1>4, <1>5, UnloadPointerOK
    <2> HIDE DEF emptied
    <2>2. IsBuffer(Compact(emptied), Nat)
      BY <2>1, CompactOK
    <2> QED
      BY <1>3, <2>2 DEF emptied
  <1>9. loaded' \in Seq(Seq(Nat))
    BY <1>1, <1>2, <1>3
  <1>10. Typed'
    BY <1>3, <1>7, <1>8, <1>9 DEF MemoryInv, Typed
  <1>11. Reserved' /\ Defined' /\ Enough' /\ Room'
    BY <1>3, OutsideFetch
  <1> QED
    BY <1>10, <1>11 DEF MemoryInv

\* load_message that fails gives back an extent the buffer had.
LEMMA LoadFailsKeeps ==
    ASSUME MemoryInv, NEW n \in Sizes, NEW k \in 1 .. n - 1, LoadFails(n, k)
    PROVE  MemoryInv'
  <1> DEFINE payload == SubSeq(Payload(Len(loaded) + 1, n), 1, k)
             written == LoadBytes(msgTx, payload)
             cut == Truncate(written, Extent(msgTx))
  <1>1. IsBuffer(msgTx, Nat) /\ loaded \in Seq(Seq(Nat)) /\ failures \in 0 .. MaxFailures
    BY DEF MemoryInv, Typed
  <1>2. payload \in Seq(Nat)
    <2> DEFINE i == Len(loaded) + 1
               p == Payload(i, n)
    <2>1. Len(loaded) \in Nat
      BY <1>1, LenProperties
    <2>2. i \in Nat
      BY <2>1
    <2> HIDE DEF i
    <2>3. p \in Seq(Nat) /\ Len(p) = n /\ n \in Nat \ {0}
      BY <2>2, PayloadOK
    <2> HIDE DEF p
    <2>4. k \in 0 .. Len(p)
      BY <2>3
    <2>5. SubSeq(p, 1, k) \in Seq(Nat)
      BY <2>3, <2>4, FrontIs
    <2> QED
      BY <2>5 DEF p, i
  <1>3. /\ msgTx' = [cut EXCEPT !.cursor = msgTx.cursor]
        /\ failures < MaxFailures /\ failures' = failures + 1
        /\ UNCHANGED <<tx, rx, msgRx, pc, sending, call, toPeer, toClient, loaded>>
    BY DEF LoadFails, RolledBack, wire, histories
  <1> HIDE DEF payload
  <1>4. /\ IsBuffer(written, Nat) /\ written.cursor = msgTx.cursor
        /\ Extent(written) = Extent(msgTx) + Len(payload)
    BY <1>1, <1>2, LoadBytesOK
  <1>5. /\ msgTx.cursor \in Nat /\ Extent(msgTx) \in Nat /\ msgTx.cursor <= Extent(msgTx)
        /\ Len(payload) \in Nat
    BY <1>1, <1>2, BufferIs, LenProperties
  <1> HIDE DEF written
  <1>6. IsBuffer(cut, Nat) /\ cut.cursor = msgTx.cursor
    <2>1. Extent(msgTx) \in written.cursor .. Extent(written)
      BY <1>4, <1>5
    <2> QED
      BY <1>4, <2>1, TruncateOK
  <1> HIDE DEF cut
  <1>7. IsBuffer(msgTx', Nat)
    <2>1. cut \in Buffer(Nat)
      BY <1>6 DEF IsBuffer
    <2>2. [cut EXCEPT !.cursor = cut.cursor] = cut
      BY <2>1 DEF Buffer
    <2> QED
      BY <1>3, <1>6, <2>2
  <1>8. failures' \in 0 .. MaxFailures
    BY <1>1, <1>3, SizesAssumption
  <1>10. Typed'
    BY <1>3, <1>7, <1>8 DEF MemoryInv, Typed
  <1>11. Reserved' /\ Defined' /\ Enough' /\ Room'
    BY <1>3, OutsideFetch
  <1> QED
    BY <1>10, <1>11 DEF MemoryInv

\* BoltConnection_send takes the whole buffer.
LEMMA SendKeeps ==
    ASSUME MemoryInv, Send
    PROVE  MemoryInv'
  <1> DEFINE u == Unloadable(tx)
             ahead == Ahead(tx, u)
  <1>1. IsBuffer(tx, Nat)
    BY DEF MemoryInv, Typed
  <1>2. u \in Nat /\ u \in 0 .. Unloadable(tx)
    BY <1>1, BufferIs
  <1>3. ahead \in Seq(Nat) /\ Len(ahead) = u
    BY <1>1, <1>2, AheadOK
  <1>4. IsBuffer(UnloadPointer(tx, u), Nat)
    BY <1>1, <1>2, UnloadPointerOK
  <1>5. /\ sending' = [bytes |-> ahead, total |-> 0, remaining |-> u]
        /\ tx' = UnloadPointer(tx, u)
        /\ pc = "idle" /\ pc' = "sending"
        /\ UNCHANGED <<msgTx, rx, msgRx, call, toPeer, toClient, failures, loaded>>
    BY DEF Send, wire, histories
  <1> HIDE DEF ahead, u
  <1>6. /\ sending' \in [bytes : Seq(Nat), total : Nat, remaining : Nat]
        /\ sending'.total + sending'.remaining = Len(sending'.bytes)
    BY <1>2, <1>3, <1>5
  <1>7. Typed'
    BY <1>4, <1>5, <1>6 DEF MemoryInv, Typed
  <1>8. Reserved' /\ Defined' /\ Enough' /\ Room'
    BY <1>5, OutsideFetch DEF Calls
  <1> QED
    BY <1>7, <1>8 DEF MemoryInv

\* Between two sends nothing remains.
LEMMA NoSendOK ==
    /\ NoSend \in [bytes : Seq(Nat), total : Nat, remaining : Nat]
    /\ NoSend.total + NoSend.remaining = Len(NoSend.bytes)
  <1>1. <<>> \in Seq(Nat) /\ Len(<<>>) = 0
    BY EmptySeq
  <1>2. NoSend.total = 0 /\ NoSend.remaining = 0 /\ NoSend.bytes = <<>>
    BY DEF NoSend
  <1>3. NoSend \in [bytes : Seq(Nat), total : Nat, remaining : Nat]
    BY <1>1 DEF NoSend
  <1> QED
    BY <1>1, <1>2, <1>3

\* BoltCommunication_send counts what it has sent and what remains.
LEMMA SendSomeKeeps ==
    ASSUME MemoryInv, NEW k, SendSome(k)
    PROVE  MemoryInv'
  <1>1. /\ IsBuffer(tx, Nat) /\ toPeer \in Seq(Nat)
        /\ sending \in [bytes : Seq(Nat), total : Nat, remaining : Nat]
    BY DEF MemoryInv, Typed
  <1>2. /\ sending.bytes \in Seq(Nat) /\ sending.total \in Nat /\ sending.remaining \in Nat
        /\ sending.total + sending.remaining = Len(sending.bytes)
    BY CallIs DEF MemoryInv
  <1>3. k \in 1 .. sending.remaining /\ pc = "sending"
    BY DEF SendSome
  <1> DEFINE t == sending.total
             s == sending.bytes
             piece == SubSeq(s, t + 1, t + k)
  <1>4. piece \in Seq(Nat)
    <2> HIDE DEF t, s
    <2>1. t \in Nat /\ k \in Nat /\ t + k <= Len(s) /\ s \in Seq(Nat) /\ Len(s) \in Nat
      BY <1>2, <1>3, LenProperties DEF t, s
    <2>2. \A i \in t + 1 .. t + k : s[i] \in Nat
      BY <2>1, LenProperties
    <2> QED
      BY <2>1, <2>2, SubSeqProperties
  <1>5. toPeer' = toPeer \o piece
    BY DEF SendSome
  <1> HIDE DEF piece
  <1>6. toPeer' \in Seq(Nat)
    BY <1>1, <1>4, <1>5, ConcatProperties
  <1>7. UNCHANGED <<msgTx, rx, msgRx, call, toClient, failures, loaded>>
    BY DEF SendSome, histories
  <1>8. /\ sending' \in [bytes : Seq(Nat), total : Nat, remaining : Nat]
        /\ sending'.total + sending'.remaining = Len(sending'.bytes)
        /\ IsBuffer(tx', Nat)
        /\ pc' \in {"sending", "idle"}
    <2>1. CASE Sent(sending, k).total < Len(sending.bytes)
      <3>1. sending' = Sent(sending, k) /\ pc' = pc /\ tx' = tx
        BY <2>1 DEF SendSome
      <3>2. /\ Sent(sending, k).total = t + k /\ Sent(sending, k).remaining = sending.remaining - k
            /\ Sent(sending, k).bytes = s
        BY <1>1 DEF Sent
      <3>3. t + k \in Nat /\ sending.remaining - k \in Nat
        BY <1>2, <1>3
      <3>4. Sent(sending, k) \in [bytes : Seq(Nat), total : Nat, remaining : Nat]
        BY <1>1, <3>3 DEF Sent
      <3>5. (t + k) + (sending.remaining - k) = Len(s)
        <4> DEFINE r == sending.remaining
        <4>1. t \in Nat /\ r \in Nat /\ k \in Int /\ t + r = Len(s)
          BY <1>2, <1>3
        <4> HIDE DEF r, t, s
        <4>2. (t + k) + (r - k) = t + r
          BY <4>1
        <4> QED
          BY <4>1, <4>2 DEF r
      <3> QED
        BY <1>1, <1>3, <3>1, <3>2, <3>4, <3>5
    <2>2. CASE ~(Sent(sending, k).total < Len(sending.bytes))
      <3>1. sending' = NoSend /\ pc' = "idle" /\ tx' = Compact(tx)
        BY <2>2 DEF SendSome
      <3> QED
        BY <1>1, <3>1, NoSendOK, CompactOK
    <2> QED
      BY <2>1, <2>2
  <1>9. Typed'
    BY <1>6, <1>7, <1>8 DEF MemoryInv, Typed
  <1>10. Reserved' /\ Defined' /\ Enough' /\ Room'
    BY <1>3, <1>7, <1>8, OutsideFetch DEF Calls
  <1> QED
    BY <1>9, <1>10 DEF MemoryInv

\* After a broken link what was reserved stays reserved.
LEMMA BreakKeeps ==
    ASSUME MemoryInv, Break
    PROVE  MemoryInv'
  <1>1. IsBuffer(tx, Nat) /\ failures \in 0 .. MaxFailures
    BY DEF MemoryInv, Typed
  <1>2. /\ pc' = "defunct" /\ sending' = NoSend /\ tx' = Compact(tx)
        /\ failures < MaxFailures /\ failures' = failures + 1
        /\ UNCHANGED <<msgTx, rx, msgRx, call, toPeer, toClient, loaded>>
    BY DEF Break, wire, histories
  <1>3. IsBuffer(tx', Nat)
    BY <1>1, <1>2, CompactOK
  <1>4. failures' \in 0 .. MaxFailures
    BY <1>1, <1>2, SizesAssumption
  <1>5. Typed'
    BY <1>2, <1>3, <1>4, NoSendOK DEF MemoryInv, Typed
  <1>6. Reserved' /\ Defined' /\ Enough' /\ Room'
    BY <1>2, OutsideFetch DEF Calls
  <1> QED
    BY <1>5, <1>6 DEF MemoryInv

\* The server's answer is bytes.
LEMMA ServeKeeps ==
    ASSUME MemoryInv, Serve
    PROVE  MemoryInv'
  <1> DEFINE message == FirstMessage[toPeer]
             l == message.length
  <1>1. toPeer \in Seq(Nat) /\ toClient \in Seq(Nat)
    BY DEF MemoryInv, Typed
  <1>2. message \in Parsed /\ message.length <= Len(toPeer)
    BY <1>1, FirstMessageIs
  <1>3. message.payload \in Seq(Nat) /\ l \in Nat /\ Len(toPeer) \in Nat
    BY <1>1, <1>2, LenProperties DEF Parsed
  <1>4. toPeer' = SubSeq(toPeer, l + 1, Len(toPeer))
    BY DEF Serve
  <1>5. PICK bytes \in Cut[message.payload] : toClient' = toClient \o bytes
    BY DEF Serve
  <1>6. UNCHANGED <<msgTx, tx, rx, msgRx, pc, sending, call, failures, loaded>>
    BY DEF Serve, buffers
  <1> HIDE DEF message
  <1>7. toPeer' \in Seq(Nat)
    <2>1. l \in 0 .. Len(toPeer)
      BY <1>2, <1>3
    <2> HIDE DEF l
    <2> QED
      BY <1>1, <1>4, <2>1, RestIs
  <1>8. toClient' \in Seq(Nat)
    <2>1. bytes \in Seq(Nat)
      BY <1>3, <1>5, CutIs
    <2> QED
      BY <1>1, <1>5, <2>1, ConcatProperties
  <1>9. Typed'
    BY <1>6, <1>7, <1>8 DEF MemoryInv, Typed
  <1>10. Reserved' /\ Defined' /\ Enough' /\ Room'
    BY <1>6, OutsideFetch
  <1> QED
    BY <1>9, <1>10 DEF MemoryInv

\* Nothing is undefined in rx_buffer while nothing is missing.
LEMMA RxDefined ==
    ASSUME MemoryInv, call.delta = 0
    PROVE  IsBuffer(rx, Nat) /\ call.max = 0 /\ call.total = 0
  <1>1. call.max = 0 /\ call.total = 0
    BY CallIs DEF MemoryInv, Reserved
  <1>2. IsBuffer(rx, Int)
    BY DEF MemoryInv, Typed
  <1>3. Extent(rx) \in Nat
    BY <1>2, BufferIs
  <1>4. Extent(rx) - call.max + call.total = Extent(rx)
    BY <1>1, <1>3
  <1>5. \A i \in 1 .. Extent(rx) : rx.data[i] \in Nat
    BY <1>4 DEF MemoryInv, Defined
  <1> QED
    BY <1>1, <1>2, <1>5, NowDefined

\* A receive that begins keeps what is about the receiving.
LEMMA ReceiveKeeps ==
    ASSUME MemoryInv, NEW b, IsBuffer(b, Nat), NEW n \in Nat, Receive(b, n),
           pc' \in Calls, pc' # "chunk" => n = 2
    PROVE  /\ IsBuffer(rx', Int) /\ call' \in Record /\ call'.size = n
           /\ Reserved' /\ Defined' /\ Enough'
  <1>1. /\ IsBuffer(rx', Int)
        /\ call' \in Record /\ call'.size = n
        /\ call'.delta <= call'.max /\ call'.max <= Unloadable(rx')
        /\ call'.total < call'.delta \/ (call'.delta = 0 /\ call'.max = 0 /\ call'.total = 0)
        /\ Unloadable(rx') - call'.max + call'.delta >= n
        /\ \A i \in 1 .. Extent(rx') - call'.max + call'.total : rx'.data[i] \in Nat
    BY ReceiveOK
  <1>2. Unloadable(rx)' = Unloadable(rx') /\ Extent(rx)' = Extent(rx')
    BY DEF Unloadable, Extent
  <1>3. pc' \notin {"idle", "sending"}
    BY DEF Calls
  <1>4. Reserved'
    BY <1>1, <1>2, <1>3 DEF Reserved
  <1>5. Defined'
    BY <1>1, <1>2 DEF Defined
  <1>6. Enough'
    BY <1>1, <1>2 DEF Enough
  <1> QED
    BY <1>1, <1>4, <1>5, <1>6

\* fetch asks for the first header.
LEMMA FetchKeeps ==
    ASSUME MemoryInv, Fetch
    PROVE  MemoryInv'
  <1>1. pc = "idle" /\ pc' = "header" /\ Receive(rx, 2)
        /\ UNCHANGED <<msgTx, tx, msgRx, sending, toPeer, toClient, failures, loaded>>
    BY DEF Fetch, wire, histories
  <1>2. IsBuffer(rx, Nat)
    BY <1>1, RxDefined DEF MemoryInv, Reserved
  <1>3. /\ IsBuffer(rx', Int) /\ call' \in Record
        /\ Reserved' /\ Defined' /\ Enough'
    BY <1>1, <1>2, ReceiveKeeps DEF Calls
  <1>4. Typed'
    BY <1>1, <1>3 DEF MemoryInv, Typed, Record, Calls
  <1>5. Room'
    BY <1>1 DEF Room
  <1> QED
    BY <1>3, <1>4, <1>5 DEF MemoryInv

\* The two bytes of the header are there; it makes room for its chunk.
LEMMA TakeHeaderKeeps ==
    ASSUME MemoryInv, TakeHeader
    PROVE  MemoryInv'
  <1> DEFINE size == HeaderValue(Ahead(rx, 2))
             message == MessageBuffer
             rest == Unload(rx, 2)
  <1>1. /\ call.delta = 0 /\ pc \in Calls /\ pc # "chunk" /\ size # 0
        /\ msgRx' = LoadPointer(message, size)
        /\ Receive(rest, size)
        /\ pc' = "chunk"
        /\ UNCHANGED <<msgTx, tx, sending, toPeer, toClient, failures, loaded>>
    BY DEF TakeHeader, Received, Calls, wire, histories
  <1>2. IsBuffer(rx, Nat) /\ call.max = 0
    BY <1>1, RxDefined
  <1>3. 2 \in 0 .. Unloadable(rx)
    <2>1. Unloadable(rx) \in Nat
      BY <1>2, BufferIs
    <2>2. Unloadable(rx) - call.max + call.delta >= call.size /\ call.size = 2
      BY <1>1 DEF MemoryInv, Enough
    <2> QED
      BY <1>1, <1>2, <2>1, <2>2
  <1>4. size \in Nat \ {0}
    <2> DEFINE n == 2
               h == Ahead(rx, n)
    <2>1. n \in 0 .. Unloadable(rx)
      BY <1>3
    <2> HIDE DEF n
    <2>2. h \in Seq(Nat) /\ Len(h) = n
      BY <1>2, <2>1, AheadOK
    <2> HIDE DEF h
    <2>3. Len(h) >= 2
      BY <2>2 DEF n
    <2>4. HeaderValue(h) \in Nat
      BY <2>2, <2>3, HeaderValueOK
    <2> QED
      BY <1>1, <2>4 DEF h, n
  <1>5. IsBuffer(rest, Nat)
    BY <1>2, <1>3, UnloadOK
  <1>6. IsBuffer(message, Int)
    <2>1. IsBuffer(msgRx, Int)
      BY DEF MemoryInv, Typed
    <2> QED
      BY <2>1, CompactOK DEF MessageBuffer
  <1> HIDE DEF size, message, rest
  <1>7. /\ IsBuffer(msgRx', Int) /\ Extent(msgRx') = Extent(message) + size
        /\ msgRx'.cursor = message.cursor
    BY <1>1, <1>4, <1>6, LoadPointerOK
  <1>8. Unloadable(msgRx') >= size
    <2>1. Unloadable(msgRx') = Extent(msgRx') - msgRx'.cursor
      BY DEF Unloadable
    <2>2. message.cursor \in Nat /\ Extent(message) \in Nat /\ message.cursor <= Extent(message)
      BY <1>6, BufferIs
    <2> QED
      BY <1>4, <1>7, <2>1, <2>2
  <1>9. /\ IsBuffer(rx', Int) /\ call' \in Record /\ call'.size = size
        /\ Reserved' /\ Defined' /\ Enough'
    BY <1>1, <1>4, <1>5, ReceiveKeeps DEF Calls
  <1>10. Typed'
    BY <1>1, <1>7, <1>9 DEF MemoryInv, Typed, Record, Calls
  <1>11. Room'
    <2>1. Unloadable(msgRx)' = Unloadable(msgRx')
      BY DEF Unloadable, Extent
    <2>2. Unloadable(msgRx') \in Nat
      BY <1>7, BufferIs
    <2> QED
      BY <1>1, <1>4, <1>8, <1>9, <2>1, <2>2 DEF Room
  <1> QED
    BY <1>9, <1>10, <1>11 DEF MemoryInv

\* The bytes of the chunk are there, and so is the room for them.
LEMMA TakeChunkKeeps ==
    ASSUME MemoryInv, TakeChunk
    PROVE  MemoryInv'
  <1> DEFINE size == call.size
             ahead == Ahead(rx, size)
             offset == Extent(msgRx) - size
             rest == Unload(rx, size)
  <1>1. /\ call.delta = 0 /\ pc = "chunk"
        /\ msgRx' = Store(msgRx, offset, ahead)
        /\ Receive(rest, 2)
        /\ pc' = "next header"
        /\ UNCHANGED <<msgTx, tx, sending, toPeer, toClient, failures, loaded>>
    BY DEF TakeChunk, Received, ChunkTarget, wire, histories
  <1>2. IsBuffer(rx, Nat) /\ call.max = 0
    BY <1>1, RxDefined
  <1>3. size \in Nat
    BY CallIs DEF MemoryInv
  <1>4. size \in 0 .. Unloadable(rx)
    <2>1. Unloadable(rx) \in Nat
      BY <1>2, BufferIs
    <2>2. Unloadable(rx) - call.max + call.delta >= size
      BY <1>1 DEF MemoryInv, Enough, Calls
    <2>3. call.delta = 0 /\ call.max = 0
      BY <1>1, <1>2
    <2> QED
      BY <1>3, <2>1, <2>2, <2>3
  <1>5. ahead \in Seq(Nat) /\ Len(ahead) = size
    BY <1>2, <1>4, AheadOK
  <1>6. IsBuffer(rest, Nat)
    BY <1>2, <1>4, UnloadOK
  <1>7. IsBuffer(msgRx, Int) /\ size >= 1 /\ size <= Unloadable(msgRx)
    BY <1>1 DEF MemoryInv, Typed, Room
  <1>8. /\ msgRx.cursor \in Nat /\ Extent(msgRx) \in Nat
        /\ Unloadable(msgRx) \in Nat /\ Unloadable(msgRx) = Extent(msgRx) - msgRx.cursor
    BY <1>7, BufferIs
  <1> HIDE DEF ahead, rest, size
  <1>9. offset \in Nat /\ offset + size = Extent(msgRx)
    BY <1>3, <1>7, <1>8
  <1> HIDE DEF offset
  <1>10. /\ IsBuffer(msgRx', Int) /\ Extent(msgRx') = Extent(msgRx)
         /\ msgRx'.cursor = msgRx.cursor
    <2>1. ahead \in Seq(Int)
      BY <1>5, SeqMonotonic
    <2>2. offset + Len(ahead) <= Extent(msgRx)
      BY <1>5, <1>8, <1>9
    <2> QED
      BY <1>1, <1>7, <1>9, <2>1, <2>2, StoreOK
  <1>11. /\ IsBuffer(rx', Int) /\ call' \in Record
         /\ Reserved' /\ Defined' /\ Enough'
    BY <1>1, <1>6, ReceiveKeeps DEF Calls
  <1>12. Typed'
    BY <1>1, <1>10, <1>11 DEF MemoryInv, Typed, Record, Calls
  <1>13. Room'
    <2>1. Unloadable(msgRx)' = Extent(msgRx') - msgRx'.cursor
      BY DEF Unloadable, Extent
    <2>2. Unloadable(msgRx)' >= 1
      BY <1>3, <1>7, <1>8, <1>10, <2>1
    <2> QED
      BY <1>1, <2>2 DEF Room
  <1> QED
    BY <1>11, <1>12, <1>13 DEF MemoryInv

\* The empty chunk ends the message; no more of it is read than there is.
LEMMA TakeEndKeeps ==
    ASSUME MemoryInv, TakeEnd
    PROVE  MemoryInv'
  <1> DEFINE bytes == Ahead(msgRx, Unloadable(msgRx))
  <1>1. /\ call.delta = 0 /\ pc = "next header" /\ pc' = "idle"
        /\ rx' = Unload(rx, 2) /\ call' = NoCall
        /\ UNCHANGED <<msgTx, tx, sending, toPeer, toClient, failures, loaded>>
    BY DEF TakeEnd, Received, wire
  <1>2. PICK n \in Unloaded(bytes).reads : msgRx' = Advance(msgRx, n)
    BY DEF TakeEnd
  <1>3. IsBuffer(rx, Nat) /\ call.max = 0
    BY <1>1, RxDefined
  <1>4. 2 \in 0 .. Unloadable(rx)
    <2>1. Unloadable(rx) \in Nat
      BY <1>3, BufferIs
    <2>2. Unloadable(rx) - call.max + call.delta >= call.size /\ call.size = 2
      BY <1>1 DEF MemoryInv, Enough, Calls
    <2>3. call.delta = 0 /\ call.max = 0
      BY <1>1, <1>3
    <2> QED
      BY <2>1, <2>2, <2>3
  <1>5. IsBuffer(rx', Nat)
    BY <1>1, <1>3, <1>4, UnloadOK
  <1>6. IsBuffer(msgRx, Int) /\ Unloadable(msgRx) \in Nat /\ Unloadable(msgRx) >= 1
    BY <1>1, BufferIs DEF MemoryInv, Typed, Room
  <1>7. Len(bytes) = Unloadable(msgRx)
    <2>1. Unloadable(msgRx) \in 0 .. Unloadable(msgRx)
      BY <1>6
    <2> QED
      BY <1>6, <2>1, AheadOK
  <1>8. n \in 0 .. Unloadable(msgRx)
    <2> HIDE DEF bytes
    <2>1. n \in {Len(bytes)} \/ n \in 2 .. Len(bytes) - 1 \/ n \in {1}
      BY <1>2 DEF Unloaded
    <2> QED
      BY <1>6, <1>7, <2>1
  <1>9. IsBuffer(msgRx', Int)
    BY <1>2, <1>6, <1>8, AdvanceOK
  <1>10. /\ call' \in Record /\ call'.size = 0 /\ call'.delta = 0 /\ call'.max = 0 /\ call'.total = 0
    BY <1>1 DEF NoCall, Record
  <1>11. IsBuffer(rx', Int) /\ \A i \in 1 .. Extent(rx') : rx'.data[i] \in Nat
    BY <1>5, AllDefined
  <1>12. Unloadable(rx') \in Nat /\ Extent(rx') \in Nat
    BY <1>5, BufferIs
  <1>13. Unloadable(rx)' = Unloadable(rx') /\ Extent(rx)' = Extent(rx')
    BY DEF Unloadable, Extent
  <1>14. Typed'
    BY <1>1, <1>9, <1>10, <1>11 DEF MemoryInv, Typed, Record, Calls
  <1>15. Reserved'
    BY <1>10, <1>12, <1>13 DEF Reserved
  <1>16. Defined'
    <2>1. Extent(rx') - call'.max + call'.total = Extent(rx')
      BY <1>10, <1>12
    <2> QED
      BY <1>11, <1>13, <2>1 DEF Defined
  <1>17. Enough' /\ Room'
    BY <1>1 DEF Enough, Room, Calls
  <1> QED
    BY <1>14, <1>15, <1>16, <1>17 DEF MemoryInv

\* BoltCommunication_receive writes into what was reserved, and the extent ends
\* up where the bytes end.
LEMMA RecvSomeKeeps ==
    ASSUME MemoryInv, NEW k, RecvSome(k)
    PROVE  MemoryInv'
  <1> DEFINE max == call.max
             delta == call.delta
             got == call.total
             total == got + k
             e == Extent(rx)
             piece == SubSeq(toClient, 1, k)
             offset == e - max + got
             filled == Store(rx, offset, piece)
  <1>1. /\ call \in Record /\ max \in Nat /\ delta \in Nat /\ got \in Nat /\ call.size \in Nat
        /\ toClient \in Seq(Nat)
    BY CallIs DEF MemoryInv, Typed, Record
  <1>2. /\ delta > 0 /\ pc # "defunct" /\ k \in 1 .. max - got /\ k <= Len(toClient)
        /\ toClient' = SubSeq(toClient, k + 1, Len(toClient))
        /\ UNCHANGED <<msgTx, tx, msgRx, pc, sending, toPeer, failures, loaded>>
        /\ IF total < delta
           THEN rx' = filled /\ call' = [call EXCEPT !.total = total]
           ELSE rx' = Adjusted(filled, max, total)
                /\ call' = [call EXCEPT !.delta = 0, !.max = 0, !.total = 0]
    BY DEF RecvSome, histories
  <1>3. /\ IsBuffer(rx, Int) /\ delta <= max /\ max <= Unloadable(rx) /\ got < delta
        /\ pc \notin {"idle", "sending"}
    <2>1. delta # 0
      BY <1>1, <1>2
    <2> QED
      BY <2>1 DEF MemoryInv, Typed, Reserved
  <1>4. /\ rx.cursor \in Nat /\ e \in Nat /\ Unloadable(rx) = e - rx.cursor
    BY <1>3, BufferIs
  <1>5. /\ offset \in Nat /\ offset + k <= e /\ total \in Nat /\ total <= max
        /\ e - max >= rx.cursor /\ k \in Nat /\ k >= 1
    <2> DEFINE c == rx.cursor
    <2>1. /\ max \in Nat /\ delta \in Nat /\ got \in Nat /\ c \in Nat /\ e \in Nat
          /\ max <= e - c /\ got < delta /\ delta <= max /\ k \in 1 .. max - got
      BY <1>1, <1>2, <1>3, <1>4
    <2> HIDE DEF max, delta, got, c, e
    <2>2. /\ offset \in Nat /\ offset + k <= e /\ total \in Nat /\ total <= max
          /\ e - max >= c /\ k \in Nat /\ k >= 1
      BY <2>1
    <2> QED
      BY <2>2 DEF c
  <1>6. piece \in Seq(Nat) /\ Len(piece) = k /\ toClient' \in Seq(Nat)
    <2>1. k \in 0 .. Len(toClient)
      BY <1>1, <1>2, <1>5, LenProperties
    <2> QED
      BY <1>1, <1>2, <2>1, FrontIs, RestIs
  <1>7. piece \in Seq(Int) /\ \A i \in 1 .. k : piece[i] \in Nat
    BY <1>6, SeqMonotonic, LenProperties
  <1> HIDE DEF piece
  <1>8. /\ IsBuffer(filled, Int) /\ Extent(filled) = e /\ filled.cursor = rx.cursor
        /\ \A i \in 1 .. e : filled.data[i] =
              IF i \in offset + 1 .. offset + k THEN piece[i - offset] ELSE rx.data[i]
    <2>1. e = Extent(rx)
      OBVIOUS
    <2>2. offset \in Nat /\ offset + Len(piece) <= Extent(rx)
      BY <1>5, <1>6
    <2> HIDE DEF offset, e
    <2>3. /\ IsBuffer(Store(rx, offset, piece), Int)
          /\ Extent(Store(rx, offset, piece)) = Extent(rx)
          /\ Store(rx, offset, piece).cursor = rx.cursor
          /\ \A i \in 1 .. Extent(rx) :
                Store(rx, offset, piece).data[i] =
                   IF i \in offset + 1 .. offset + Len(piece) THEN piece[i - offset] ELSE rx.data[i]
      BY <1>3, <1>7, <2>2, StoreOK
    <2>4. filled = Store(rx, offset, piece)
      OBVIOUS
    <2>5. Len(piece) = k
      BY <1>6
    <2> HIDE DEF offset, e, got, delta, max, total
    <2>6. /\ IsBuffer(filled, Int) /\ Extent(filled) = Extent(rx) /\ filled.cursor = rx.cursor
          /\ \A i \in 1 .. Extent(rx) : filled.data[i] =
                IF i \in offset + 1 .. offset + k THEN piece[i - offset] ELSE rx.data[i]
      BY ONLY <2>3, <2>4, <2>5, Zenon
    <2> QED
      BY ONLY <2>1, <2>6
  <1>9. \A i \in 1 .. e - max + total : filled.data[i] \in Nat
    <2> SUFFICES ASSUME NEW i \in 1 .. e - max + total PROVE filled.data[i] \in Nat
      OBVIOUS
    <2>1. i \in 1 .. e
      <3>1. /\ max \in Nat /\ e \in Nat /\ rx.cursor \in Nat /\ total \in Nat
            /\ total <= max /\ e - max >= rx.cursor
        BY <1>1, <1>4, <1>5
      <3>2. i \in 1 .. e - max + total
        OBVIOUS
      <3> HIDE DEF max, delta, got, total, e, offset, filled
      <3> QED
        BY ONLY <3>1, <3>2
    <2>2. CASE i \in offset + 1 .. offset + k
      <3>1. filled.data[i] = piece[i - offset]
        BY <1>8, <2>1, <2>2
      <3>2. i - offset \in 1 .. k
        BY <1>5, <2>2
      <3> QED
        BY <1>7, <3>1, <3>2
    <2>3. CASE i \notin offset + 1 .. offset + k
      <3>1. filled.data[i] = rx.data[i]
        BY <1>8, <2>1, <2>3
      <3>2. i \in 1 .. e - max + got
        BY <1>1, <1>4, <1>5, <2>1, <2>3
      <3>3. rx.data[i] \in Nat
        BY <3>2 DEF MemoryInv, Defined
      <3> QED
        BY <3>1, <3>3
    <2> QED
      BY <2>2, <2>3
  <1>10. pc \in Calls => Unloadable(rx) - max + delta >= call.size /\ (pc # "chunk" => call.size = 2)
    BY DEF MemoryInv, Enough
  <1> HIDE DEF filled, offset
  <1>11. CASE total < delta
    <2>1. rx' = filled /\ call' = [call EXCEPT !.total = total]
      BY <1>2, <1>11
    <2>2. /\ call'.size = call.size /\ call'.delta = delta /\ call'.max = max
          /\ call'.total = total /\ call' \in Record
      BY <1>1, <1>5, <2>1 DEF Record
    <2>3. Unloadable(rx)' = Unloadable(rx) /\ Extent(rx)' = e
      BY <1>4, <1>8, <2>1 DEF Unloadable, Extent
    <2>4. Typed'
      BY <1>2, <1>6, <1>8, <2>1, <2>2 DEF MemoryInv, Typed, Record
    <2> HIDE DEF max, delta, total, e, got
    <2>5. Reserved'
      BY <1>2, <1>3, <1>11, <2>2, <2>3 DEF Reserved
    <2>6. Defined'
      BY <1>9, <2>1, <2>2, <2>3 DEF Defined
    <2>7. Enough'
      BY <1>2, <1>10, <2>2, <2>3 DEF Enough
    <2>8. Room'
      BY <1>2, <2>2 DEF MemoryInv, Room, Unloadable, Extent
    <2> QED
      BY <2>4, <2>5, <2>6, <2>7, <2>8 DEF MemoryInv
  <1>12. CASE ~(total < delta)
    <2>1. rx' = Truncate(filled, e - max + total)
          /\ call' = [call EXCEPT !.delta = 0, !.max = 0, !.total = 0]
      BY <1>2, <1>8, <1>12 DEF Adjusted
    <2>2. /\ call'.size = call.size /\ call'.delta = 0 /\ call'.max = 0
          /\ call'.total = 0 /\ call' \in Record
      BY <1>1, <2>1 DEF Record
    <2> DEFINE extent == e - max + total
    <2>3. extent \in filled.cursor .. Extent(filled) /\ extent \in Nat
      <3> HIDE DEF e, max, total
      <3>1. extent \in rx.cursor .. e /\ extent \in Nat
        BY <1>1, <1>4, <1>5
      <3> QED
        BY <1>8, <3>1
    <2> HIDE DEF extent
    <2>4. /\ IsBuffer(rx', Int) /\ Extent(rx') = extent /\ rx'.cursor = rx.cursor
          /\ \A i \in 1 .. extent : rx'.data[i] = filled.data[i]
      BY <1>8, <2>1, <2>3, TruncateOK DEF extent
    <2>5. Unloadable(rx)' = extent - rx.cursor /\ Extent(rx)' = extent
      BY <2>4 DEF Unloadable, Extent
    <2>6. Typed'
      BY <1>2, <1>6, <2>2, <2>4 DEF MemoryInv, Typed, Record
    <2>7. Unloadable(rx)' = Unloadable(rx) - max + total /\ Unloadable(rx)' \in Nat
      <3> DEFINE c == rx.cursor
                 u == Unloadable(rx)
                 v == Unloadable(rx)'
      <3>1. c \in Nat /\ e \in Nat /\ u = e - c /\ v = extent - c /\ max \in Nat /\ total \in Nat
            /\ extent >= c /\ extent \in Nat
        BY <1>1, <1>4, <1>5, <1>8, <2>3, <2>5
      <3>2. extent = e - max + total
        BY DEF extent
      <3> HIDE DEF c, u, v, e, max, total
      <3>3. v = u - max + total /\ v \in Nat
        BY <3>1, <3>2
      <3> QED
        BY <3>3 DEF u, v
    <2>8. Reserved'
      BY <1>2, <1>3, <2>2, <2>7 DEF Reserved
    <2>9. Defined'
      <3>1. extent - 0 + 0 = extent
        BY <2>3
      <3>2. \A i \in 1 .. extent : rx'.data[i] \in Nat
        BY <1>9, <2>4 DEF extent
      <3> QED
        BY <2>2, <2>5, <3>1, <3>2 DEF Defined
    <2>10. Enough'
      <3> SUFFICES ASSUME pc' \in Calls
                   PROVE  Unloadable(rx)' - call'.max + call'.delta >= call'.size
                          /\ (pc' # "chunk" => call'.size = 2)
        BY DEF Enough
      <3>1. Unloadable(rx) - max + delta >= call.size /\ (pc' # "chunk" => call'.size = 2)
        BY <1>2, <1>10, <2>2
      <3>2. Unloadable(rx) \in Int
        BY <1>4
      <3> DEFINE u == Unloadable(rx)
                 v == Unloadable(rx)'
      <3> HIDE DEF u, v, max, delta, total
      <3>3. v >= call.size
        BY <1>1, <1>5, <1>12, <2>7, <3>1, <3>2 DEF u, v
      <3>4. v - 0 + 0 = v
        BY <2>7 DEF v
      <3> QED
        BY <2>2, <3>1, <3>3, <3>4 DEF v
    <2>11. Room'
      BY <1>2, <2>2 DEF MemoryInv, Room, Unloadable, Extent
    <2> QED
      BY <2>6, <2>8, <2>9, <2>10, <2>11 DEF MemoryInv
  <1> QED
    BY <1>11, <1>12

\* Every step keeps the invariant.
LEMMA MemoryStep == MemoryInv /\ [Next]_vars => MemoryInv'
  <1> SUFFICES ASSUME MemoryInv, [Next]_vars PROVE MemoryInv'
    OBVIOUS
  <1>1. CASE Next
    <2>1. ASSUME NEW k \in 1 .. sending.remaining, SendSome(k) PROVE MemoryInv'
      BY <2>1, SendSomeKeeps
    <2>2. ASSUME NEW k \in 1 .. call.max, RecvSome(k) PROVE MemoryInv'
      BY <2>2, RecvSomeKeeps
    <2>3. ASSUME NEW n \in Sizes, Load(n) PROVE MemoryInv'
      BY <2>3, LoadKeeps
    <2>4. ASSUME NEW n \in Sizes, NEW k \in 1 .. n - 1, LoadFails(n, k) PROVE MemoryInv'
      BY <2>4, LoadFailsKeeps
    <2> QED
      BY <1>1, <2>1, <2>2, <2>3, <2>4, TakeHeaderKeeps, TakeChunkKeeps, TakeEndKeeps,
         ServeKeeps, SendKeeps, FetchKeeps, BreakKeeps DEF Next, Progress
  <1>2. CASE UNCHANGED vars
    <2>1. UNCHANGED <<msgTx, tx, rx, msgRx, pc, sending, call, toPeer, toClient, failures, loaded>>
      BY <1>2 DEF vars, buffers, wire, histories
    <2>2. Typed'
      BY <2>1 DEF MemoryInv, Typed
    <2>3. Reserved' /\ Defined' /\ Enough' /\ Room'
      BY <2>1, OutsideFetch
    <2> QED
      BY <2>2, <2>3 DEF MemoryInv
  <1> QED
    BY <1>1, <1>2

\* The invariant about the memory holds of every behaviour.
THEOREM MemoryInvariant == Spec => []MemoryInv
  BY MemoryInit, MemoryStep, PTL DEF Spec

\* No buffer is read beyond what was loaded nor written beyond what is
\* allocated (buffering.c), for every size of buffers, chunks and messages,
\* every way in which bytes arrive, and every server that frames its answers.
THEOREM TypeCorrect == Spec => []TypeOK
  <1>1. MemoryInv => TypeOK
    <2> SUFFICES ASSUME MemoryInv PROVE TypeOK
      OBVIOUS
    <2>1. \A b \in {msgTx, tx, rx, msgRx} : BufferOK(b)
      BY DEF MemoryInv, Typed, IsBuffer
    <2>2. call.total <= call.max /\ call.delta <= call.max
      BY CallIs DEF MemoryInv, Reserved
    <2> QED
      BY <2>1, <2>2 DEF MemoryInv, Typed, TypeOK, Calls
  <1> QED
    BY <1>1, MemoryInvariant, PTL

-----------------------------------------------------------------------------
(* Lemmas about sequences *)

\* A sequence is its front and its rest.
LEMMA SplitAt ==
    ASSUME NEW S, NEW s \in Seq(S), NEW n \in 0 .. Len(s)
    PROVE  s = SubSeq(s, 1, n) \o SubSeq(s, n + 1, Len(s))
  <1>1. /\ 1 \in 1 .. Len(s) + 1 /\ n \in 1 - 1 .. Len(s) /\ Len(s) \in n .. Len(s)
    BY LenProperties
  <1>2. SubSeq(s, 1, n) \o SubSeq(s, n + 1, Len(s)) = SubSeq(s, 1, Len(s))
    BY <1>1, ConcatAdjacentSubSeq
  <1> QED
    BY <1>2, SubSeqFull

\* The two parts of a concatenation are its front and its rest.
LEMMA PartsOfConcat ==
    ASSUME NEW S, NEW a \in Seq(S), NEW b \in Seq(S)
    PROVE  /\ SubSeq(a \o b, 1, Len(a)) = a
           /\ SubSeq(a \o b, Len(a) + 1, Len(a \o b)) = b
  <1> DEFINE s == a \o b
             l == Len(a)
             k == Len(b)
  <1>1. /\ s \in Seq(S) /\ Len(s) = l + k /\ l \in Nat /\ k \in Nat
        /\ \A i \in 1 .. l + k : s[i] = IF i <= l THEN a[i] ELSE b[i - l]
    BY ConcatProperties, LenProperties
  <1> HIDE DEF s
  <1>2. l \in 0 .. Len(s)
    BY <1>1
  <1>3. SubSeq(s, 1, l) = a
    <2>1. /\ SubSeq(s, 1, l) \in Seq(S) /\ Len(SubSeq(s, 1, l)) = l
          /\ \A i \in 1 .. l : SubSeq(s, 1, l)[i] = s[i]
      BY <1>1, <1>2, FrontIs
    <2>2. \A i \in 1 .. l : SubSeq(s, 1, l)[i] = a[i]
      BY <1>1, <2>1
    <2> QED
      BY <2>1, <2>2, SeqEqual
  <1>4. SubSeq(s, l + 1, Len(s)) = b
    <2> DEFINE r == SubSeq(s, l + 1, Len(s))
    <2>1. /\ r \in Seq(S) /\ Len(r) = Len(s) - l
          /\ \A i \in 1 .. Len(s) - l : r[i] = s[l + i]
      BY <1>1, <1>2, RestIs
    <2> HIDE DEF r
    <2>2. Len(r) = k /\ \A i \in 1 .. k : r[i] = s[l + i]
      BY <1>1, <2>1
    <2>3. \A i \in 1 .. k : s[l + i] = b[i]
      <3> TAKE i \in 1 .. k
      <3>1. l + i \in 1 .. l + k /\ ~(l + i <= l) /\ (l + i) - l = i
        BY <1>1
      <3> QED
        BY <1>1, <3>1
    <2> QED
      BY <2>1, <2>2, <2>3, SeqEqual DEF r
  <1> QED
    BY <1>3, <1>4 DEF s

\* Cutting within the first part of a concatenation
LEMMA CutOfConcat ==
    ASSUME NEW S, NEW a \in Seq(S), NEW b \in Seq(S), NEW n \in 0 .. Len(a)
    PROVE  /\ SubSeq(a \o b, 1, n) = SubSeq(a, 1, n)
           /\ SubSeq(a \o b, n + 1, Len(a \o b)) = SubSeq(a, n + 1, Len(a)) \o b
  <1> DEFINE f == SubSeq(a, 1, n)
             r == SubSeq(a, n + 1, Len(a))
  <1>1. f \in Seq(S) /\ Len(f) = n /\ r \in Seq(S)
    BY FrontIs, RestIs
  <1>2. a = f \o r
    BY SplitAt
  <1> HIDE DEF f, r
  <1>3. a \o b = f \o (r \o b) /\ r \o b \in Seq(S)
    BY <1>1, <1>2, ConcatAssociative, ConcatProperties
  <1>4. SubSeq(f \o (r \o b), 1, Len(f)) = f
    BY <1>1, <1>3, PartsOfConcat
  <1>5. SubSeq(f \o (r \o b), Len(f) + 1, Len(f \o (r \o b))) = r \o b
    BY <1>1, <1>3, PartsOfConcat
  <1> QED
    BY <1>1, <1>3, <1>4, <1>5 DEF f, r

\* The middle of three parts
LEMMA MiddleOfConcat ==
    ASSUME NEW S, NEW a \in Seq(S), NEW b \in Seq(S), NEW c \in Seq(S)
    PROVE  SubSeq(a \o b \o c, Len(a) + 1, Len(a) + Len(b)) = b
  <1> DEFINE s == a \o b \o c
             l == Len(a)
             k == Len(b)
             t == SubSeq(s, l + 1, l + k)
  <1>1. /\ a \o b \in Seq(S) /\ Len(a \o b) = l + k /\ l \in Nat /\ k \in Nat
        /\ \A i \in 1 .. l + k : (a \o b)[i] = IF i <= l THEN a[i] ELSE b[i - l]
    BY ConcatProperties, LenProperties
  <1>2. \A i \in 1 .. l + k : s[i] = (a \o b)[i]
    <2> DEFINE ab == a \o b
    <2> HIDE DEF ab
    <2>1. ab \in Seq(S) /\ Len(ab) = l + k
      BY <1>1 DEF ab
    <2>2. \A i \in 1 .. Len(ab) + Len(c) : (ab \o c)[i] = IF i <= Len(ab) THEN ab[i] ELSE c[i - Len(ab)]
      BY <2>1, ConcatProperties
    <2>3. Len(c) \in Nat
      BY LenProperties
    <2>4. \A i \in 1 .. l + k : (ab \o c)[i] = ab[i]
      BY <1>1, <2>1, <2>2, <2>3
    <2> QED
      BY <2>4 DEF ab
  <1> HIDE DEF s
  <1>3. ASSUME NEW i \in 1 .. k PROVE s[l + i] = b[i] /\ b[i] \in S
    <2>1. l + i \in 1 .. l + k /\ ~(l + i <= l) /\ (l + i) - l = i
      BY <1>1
    <2>2. s[l + i] = b[i]
      BY <1>1, <1>2, <2>1
    <2> QED
      BY <2>2, LenProperties
  <1>4. \A i \in l + 1 .. l + k : s[i] \in S
    <2> TAKE i \in l + 1 .. l + k
    <2>1. i - l \in 1 .. k /\ l + (i - l) = i
      BY <1>1
    <2> QED
      BY <1>3, <2>1
  <1>5. /\ t \in Seq(S) /\ Len(t) = k
        /\ \A i \in 1 .. k : t[i] = s[l + i]
    <2>1. l + 1 \in Int /\ l + k \in Int
      BY <1>1
    <2>2. /\ t \in Seq(S)
          /\ Len(t) = IF l + 1 <= l + k THEN (l + k) - (l + 1) + 1 ELSE 0
          /\ \A i \in 1 .. (l + k) - (l + 1) + 1 : t[i] = s[(l + 1) + i - 1]
      BY <1>4, <2>1, SubSeqProperties
    <2> HIDE DEF t
    <2>3. Len(t) = k
      BY <1>1, <2>2
    <2>4. \A i \in 1 .. k : t[i] = s[l + i]
      <3> TAKE i \in 1 .. k
      <3>1. i \in 1 .. (l + k) - (l + 1) + 1 /\ (l + 1) + i - 1 = l + i
        BY <1>1
      <3> QED
        BY <2>2, <3>1
    <2> QED
      BY <2>2, <2>3, <2>4
  <1> HIDE DEF t
  <1>6. t = b
    BY <1>3, <1>5, SeqEqual
  <1> QED
    BY <1>6 DEF t, s

-----------------------------------------------------------------------------
(* Chunks are read as they were written *)

\* A header says the size that it was made of.
LEMMA HeaderSays ==
    ASSUME NEW n \in Nat, NEW r \in Seq(Nat)
    PROVE  /\ Header(n) \o r \in Seq(Nat) /\ Len(Header(n) \o r) = 2 + Len(r)
           /\ HeaderValue(Header(n) \o r) = n
  <1> DEFINE h == Header(n)
             s == h \o r
  <1>1. h \in Seq(Nat) /\ Len(h) = 2 /\ Len(r) \in Nat
    BY HeaderOK, LenProperties
  <1>2. h[1] = n \div Base /\ h[2] = n % Base
    BY DEF Header
  <1> HIDE DEF h
  <1>3. /\ s \in Seq(Nat) /\ Len(s) = Len(h) + Len(r)
        /\ \A i \in 1 .. Len(h) + Len(r) : s[i] = IF i <= Len(h) THEN h[i] ELSE r[i - Len(h)]
    BY <1>1, ConcatProperties
  <1> HIDE DEF s
  <1>4. s[1] = n \div Base /\ s[2] = n % Base
    BY <1>1, <1>2, <1>3
  <1>5. (n \div Base) * Base + (n % Base) = n
    BY BaseAssumption
  <1>6. HeaderValue(s) = n
    BY <1>4, <1>5 DEF HeaderValue
  <1> QED
    BY <1>1, <1>3, <1>6 DEF h, s

\* Concatenation is associative.
Associates(x, y, z) == (x \o y) \o z = x \o (y \o z)

LEMMA RegroupNumbers == \A x, y, z \in Seq(Int) : Associates(x, y, z)
  <1> SUFFICES ASSUME NEW x \in Seq(Int), NEW y \in Seq(Int), NEW z \in Seq(Int)
               PROVE  Associates(x, y, z)
    OBVIOUS
  <1> DEFINE a == (x \o y) \o z
             b == x \o (y \o z)
  <1>1. Len(a) = Len(b) /\ a \in Seq(Int) /\ b \in Seq(Int)
    OBVIOUS
  <1>2. \A i \in 1 .. Len(a) : a[i] = b[i]
    OBVIOUS
  <1> HIDE DEF a, b
  <1>3. a = b
    BY <1>1, <1>2, SeqEqual
  <1> QED
    BY <1>3 DEF a, b, Associates

LEMMA RegroupIs == \A x, y, z \in Seq(Nat) : Associates(x, y, z)
  <1>1. \A x \in Seq(Nat) : x \in Seq(Int)
    BY SeqMonotonic
  <1> QED
    BY <1>1, RegroupNumbers, Zenon

LEMMA Regroup == \A x, y, z \in Seq(Nat) : (x \o y) \o z = x \o (y \o z)
  BY RegroupIs, Zenon DEF Associates

\* Concatenation of bytes
LEMMA BytesConcat ==
    /\ \A x, y, z \in Seq(Nat) : (x \o y) \o z = x \o (y \o z)
    /\ \A x, y \in Seq(Nat) : x \o y \in Seq(Nat) /\ Len(x \o y) = Len(x) + Len(y)
    /\ \A x \in Seq(Nat) : x \o <<>> = x /\ <<>> \o x = x
    /\ <<>> \in Seq(Nat)
  <1>1. \A x, y \in Seq(Nat) : x \o y \in Seq(Nat) /\ Len(x \o y) = Len(x) + Len(y)
    BY ConcatProperties
  <1>2. \A x \in Seq(Nat) : x \o <<>> = x /\ <<>> \o x = x
    BY ConcatEmptySeq
  <1>3. <<>> \in Seq(Nat)
    BY EmptySeq
  <1> QED
    BY <1>1, <1>2, <1>3, Regroup, Zenon

\* A chunk in front of other bytes
OneChunk(c, r) == Header(Len(c)) \o c \o r

\* What a chunk is read as
LEMMA ChunkReads ==
    ASSUME NEW c \in Seq(Nat), NEW r \in Seq(Nat)
    PROVE  /\ OneChunk(c, r) \in Seq(Nat)
           /\ Complete(OneChunk(c, r))
           /\ HeaderValue(OneChunk(c, r)) = Len(c)
           /\ SubSeq(OneChunk(c, r), 3, Len(c) + 2) = c
           /\ After(OneChunk(c, r)) = r
           /\ Len(OneChunk(c, r)) = 2 + Len(c) + Len(r)
  <1> DEFINE n == Len(c)
             chunk == OneChunk(c, r)
  <1>0. n \in Nat /\ chunk = Header(n) \o c \o r
    BY LenProperties DEF OneChunk
  <1> HIDE DEF n, chunk
  <1> DEFINE h == Header(n)
  <1>1. h \in Seq(Nat) /\ Len(h) = 2
    BY <1>0, HeaderOK
  <1>2. c \o r \in Seq(Nat) /\ Len(c \o r) = n + Len(r) /\ Len(r) \in Nat
    BY ConcatProperties, LenProperties DEF n
  <1>3. chunk = h \o (c \o r)
    <2>1. chunk = (h \o c) \o r
      BY <1>0
    <2> HIDE DEF h
    <2>2. h \in Seq(Nat) /\ c \in Seq(Nat) /\ r \in Seq(Nat)
      BY <1>1
    <2>3. (h \o c) \o r = h \o (c \o r)
      <3>1. Associates(h, c, r)
        BY ONLY <2>2, RegroupIs, Zenon
      <3> QED
        BY ONLY <3>1, Zenon DEF Associates
    <2> QED
      BY <2>1, <2>3
  <1>4. chunk \in Seq(Nat) /\ Len(chunk) = 2 + (n + Len(r)) /\ HeaderValue(chunk) = n
    <2> DEFINE t == c \o r
    <2>1. t \in Seq(Nat) /\ Len(t) = n + Len(r) /\ chunk = Header(n) \o t
      BY <1>2, <1>3
    <2> HIDE DEF t
    <2>2. Header(n) \o t \in Seq(Nat) /\ Len(Header(n) \o t) = 2 + Len(t) /\ HeaderValue(Header(n) \o t) = n
      BY <1>0, <2>1, HeaderSays
    <2> QED
      BY <2>1, <2>2
  <1>5. Complete(chunk)
    BY <1>0, <1>2, <1>4 DEF Complete
  <1> HIDE DEF h
  <1>6. SubSeq(h \o c \o r, Len(h) + 1, Len(h) + Len(c)) = c
    BY <1>1, MiddleOfConcat
  <1>7. SubSeq(chunk, 3, n + 2) = c
    <2>1. Len(h) + 1 = 3 /\ Len(h) + Len(c) = n + 2
      BY <1>0, <1>1 DEF n
    <2> QED
      BY <1>0, <1>6, <2>1 DEF h
  <1>8. After(chunk) = r
    <2>1. h \o c \in Seq(Nat) /\ Len(h \o c) = 2 + n
      <3>1. h \o c \in Seq(Nat) /\ Len(h \o c) = Len(h) + Len(c)
        BY <1>1, ConcatProperties
      <3> QED
        BY <1>1, <3>1 DEF n
    <2>2. SubSeq((h \o c) \o r, Len(h \o c) + 1, Len((h \o c) \o r)) = r
      BY <2>1, PartsOfConcat
    <2>3. Len(h \o c) + 1 = HeaderValue(chunk) + 3 /\ chunk = (h \o c) \o r
      BY <1>0, <1>4, <2>1 DEF h
    <2> QED
      BY <2>2, <2>3 DEF After
  <1> QED
    BY <1>0, <1>2, <1>4, <1>5, <1>7, <1>8 DEF n, chunk

\* Bytes that follow change nothing in a chunk that is complete.
LEMMA ChunkStays ==
    ASSUME NEW a \in Seq(Nat), NEW b \in Seq(Nat), Complete(a)
    PROVE  /\ Complete(a \o b) /\ HeaderValue(a \o b) = HeaderValue(a)
           /\ SubSeq(a \o b, 3, HeaderValue(a) + 2) = SubSeq(a, 3, HeaderValue(a) + 2)
           /\ After(a \o b) = After(a) \o b
  <1> DEFINE n == HeaderValue(a)
             s == a \o b
  <1>1. n \in Nat /\ Len(a) \in Nat /\ n + 2 <= Len(a) /\ Len(b) \in Nat
    BY AfterIs, LenProperties
  <1>2. /\ s \in Seq(Nat) /\ Len(s) = Len(a) + Len(b)
        /\ \A i \in 1 .. Len(a) + Len(b) : s[i] = IF i <= Len(a) THEN a[i] ELSE b[i - Len(a)]
    BY ConcatProperties
  <1>3. HeaderValue(s) = n
    <2>1. s[1] = a[1] /\ s[2] = a[2]
      <3> HIDE DEF s, n
      <3>1. /\ 1 \in 1 .. Len(a) + Len(b) /\ 1 <= Len(a)
            /\ 2 \in 1 .. Len(a) + Len(b) /\ 2 <= Len(a)
        BY <1>1
      <3> QED
        BY <1>2, <3>1
    <2> QED
      BY <2>1 DEF HeaderValue
  <1>4. Complete(s)
    <2> HIDE DEF s, n
    <2> QED
      BY <1>1, <1>2, <1>3 DEF Complete
  <1>5. SubSeq(s, 3, n + 2) = SubSeq(a, 3, n + 2)
    <2>1. CASE n = 0
      <3>1. SubSeq(s, 3, 2) = <<>> /\ SubSeq(a, 3, 2) = <<>>
        BY SubSeqEmpty
      <3> QED
        BY <2>1, <3>1
    <2>2. CASE n # 0
      <3> HIDE DEF n
      <3>1. 3 \in 1 .. Len(a) /\ n + 2 \in 1 .. Len(a)
        BY <1>1, <2>2
      <3> QED
        BY <3>1, SubSeqOfConcat1
    <2> QED
      BY <2>1, <2>2
  <1>6. After(s) = After(a) \o b
    <2>1. n + 2 \in 0 .. Len(a) /\ n + 3 = (n + 2) + 1
      BY <1>1
    <2> HIDE DEF n
    <2>2. SubSeq(a \o b, (n + 2) + 1, Len(a \o b)) = SubSeq(a, (n + 2) + 1, Len(a)) \o b
      BY <2>1, CutOfConcat
    <2> QED
      BY <1>3, <2>1, <2>2 DEF After, n
  <1> QED
    BY <1>3, <1>4, <1>5, <1>6

\* The first message does not depend on what follows it.
LEMMA FirstMessageStays ==
    ASSUME NEW a \in Seq(Nat), NEW b \in Seq(Nat), FirstMessage[a].length > 0
    PROVE  FirstMessage[a \o b] = FirstMessage[a]
  <1> DEFINE S == Seq(Nat)
             m == [s \in S |-> Len(s)]
             Bad == {s \in S : FirstMessage[s].length > 0 /\ FirstMessage[s \o b] # FirstMessage[s]}
  <1> SUFFICES ASSUME Bad # {} PROVE FALSE
    OBVIOUS
  <1>1. m \in [S -> Nat] /\ Bad \subseteq S
    BY LenProperties
  <1>2. PICK s \in Bad : \A t \in Bad : m[s] <= m[t]
    <2> HIDE DEF Bad, m
    <2> QED
      BY <1>1, SmallestExists
  <1>3. s \in S /\ FirstMessage[s].length > 0 /\ FirstMessage[s \o b] # FirstMessage[s]
    BY <1>2
  <1>4. s \o b \in S
    BY <1>3, ConcatProperties
  <1>5. Complete(s)
    <2>1. ~Complete(s) => FirstMessage[s] = [payload |-> <<>>, length |-> 0]
      BY <1>3, FirstMessageIs
    <2> QED
      BY <1>3, <2>1
  <1>6. /\ Complete(s \o b) /\ HeaderValue(s \o b) = HeaderValue(s)
        /\ SubSeq(s \o b, 3, HeaderValue(s) + 2) = SubSeq(s, 3, HeaderValue(s) + 2)
        /\ After(s \o b) = After(s) \o b
    BY <1>3, <1>5, ChunkStays
  <1>7. CASE HeaderValue(s) = 0
    BY <1>3, <1>4, <1>5, <1>6, <1>7, FirstMessageIs
  <1>8. CASE HeaderValue(s) # 0
    <2>1. /\ FirstMessage[s] =
              IF FirstMessage[After(s)].length = 0 THEN FirstMessage[After(s)]
              ELSE [payload |-> SubSeq(s, 3, HeaderValue(s) + 2) \o FirstMessage[After(s)].payload,
                    length |-> HeaderValue(s) + 2 + FirstMessage[After(s)].length]
          /\ FirstMessage[s \o b] =
              IF FirstMessage[After(s \o b)].length = 0 THEN FirstMessage[After(s \o b)]
              ELSE [payload |-> SubSeq(s \o b, 3, HeaderValue(s \o b) + 2)
                                   \o FirstMessage[After(s \o b)].payload,
                    length |-> HeaderValue(s \o b) + 2 + FirstMessage[After(s \o b)].length]
      BY <1>3, <1>4, <1>5, <1>6, <1>8, FirstMessageIs
    <2>2. FirstMessage[After(s)].length # 0
      BY <1>3, <2>1
    <2>3. /\ After(s) \in S /\ Len(After(s)) = Len(s) - HeaderValue(s) - 2
          /\ HeaderValue(s) \in Nat /\ Len(s) \in Nat
      BY <1>3, <1>5, AfterIs
    <2>4. FirstMessage[After(s)].length > 0
      <3>1. FirstMessage[After(s)].length \in Nat
        BY <2>3, FirstMessageIs DEF Parsed
      <3> QED
        BY <2>2, <3>1
    <2>5. After(s) \notin Bad
      <3>1. ~(m[s] <= m[After(s)])
        BY <1>3, <2>3
      <3> HIDE DEF Bad, m
      <3> QED
        BY <1>2, <3>1
    <2>6. FirstMessage[After(s) \o b] = FirstMessage[After(s)]
      BY <2>3, <2>4, <2>5
    <2> QED
      BY <1>3, <1>6, <2>1, <2>6
  <1> QED
    BY <1>7, <1>8

\* What the ways to cut a message look like
LEMMA CutMembers ==
    ASSUME NEW p \in Seq(Nat)
    PROVE  /\ p = <<>> => Cut[p] = {Header(0)}
           /\ p # <<>> => \A v : v \in Cut[p] <=>
                 \E n \in Cuts(p) : \E rest \in Cut[SubSeq(p, n + 1, Len(p))] :
                    v = Header(n) \o SubSeq(p, 1, n) \o rest
  <1>1. Cut[p] = IF p = <<>> THEN {Header(0)}
                 ELSE UNION {{Header(n) \o SubSeq(p, 1, n) \o rest :
                                 rest \in Cut[SubSeq(p, n + 1, Len(p))]} : n \in Cuts(p)}
    BY CutIs
  <1>2. CASE p = <<>>
    BY <1>1, <1>2
  <1>3. CASE p # <<>>
    <2> DEFINE Ways(n) == {Header(n) \o SubSeq(p, 1, n) \o rest : rest \in Cut[SubSeq(p, n + 1, Len(p))]}
    <2>1. Cut[p] = UNION {Ways(n) : n \in Cuts(p)}
      BY <1>1, <1>3, Zenon
    <2>2. \A n, v : v \in Ways(n) <=> \E rest \in Cut[SubSeq(p, n + 1, Len(p))] :
                                         v = Header(n) \o SubSeq(p, 1, n) \o rest
      OBVIOUS
    <2> HIDE DEF Ways
    <2>3. \A v : v \in Cut[p] <=> \E n \in Cuts(p) : v \in Ways(n)
      BY <2>1
    <2>4. ASSUME NEW v
          PROVE  v \in Cut[p] <=> \E n \in Cuts(p) : \E rest \in Cut[SubSeq(p, n + 1, Len(p))] :
                                    v = Header(n) \o SubSeq(p, 1, n) \o rest
      <3>1. v \in Cut[p] <=> \E n \in Cuts(p) : v \in Ways(n)
        BY <2>3
      <3>2. \A n : v \in Ways(n) <=> \E rest \in Cut[SubSeq(p, n + 1, Len(p))] :
                                       v = Header(n) \o SubSeq(p, 1, n) \o rest
        BY <2>2
      <3> QED
        BY <3>1, <3>2
    <2> QED
      BY <1>3, <2>4
  <1> QED
    BY <1>2, <1>3

\* However a message is cut into chunks, it is the first that is read from them,
\* and takes all their bytes.
LEMMA FirstIsWhatWasCut ==
    ASSUME NEW p \in Seq(Nat), NEW r \in Seq(Nat), NEW w \in Cut[p]
    PROVE  /\ w \in Seq(Nat)
           /\ FirstMessage[w \o r] = [payload |-> p, length |-> Len(w)]
           /\ Len(w) >= 2 /\ Len(w) \in Nat
  <1> DEFINE S == Seq(Nat)
             m == [s \in S |-> Len(s)]
             Ok(s) == \A v \in Cut[s] :
                         /\ FirstMessage[v \o r] = [payload |-> s, length |-> Len(v)]
                         /\ Len(v) >= 2 /\ Len(v) \in Nat
             Bad == {s \in S : ~Ok(s)}
  <1>0. w \in Seq(Nat)
    BY CutIs
  <1> SUFFICES ASSUME Bad # {} PROVE FALSE
    BY <1>0
  <1>1. m \in [S -> Nat] /\ Bad \subseteq S
    BY LenProperties
  <1>2. PICK s \in Bad : \A t \in Bad : m[s] <= m[t]
    <2> HIDE DEF Bad, m
    <2> QED
      BY <1>1, SmallestExists
  <1>3. s \in S /\ ~Ok(s)
    BY <1>2
  <1>4. CASE s = <<>>
    <2> DEFINE b == Header(0) \o r
    <2>1. Cut[s] = {Header(0)}
      BY <1>3, <1>4, CutMembers
    <2>2. b \in S /\ Len(b) = 2 + Len(r) /\ HeaderValue(b) = 0 /\ Len(r) \in Nat
      BY HeaderSays, LenProperties
    <2> HIDE DEF b
    <2>3. Complete(b)
      BY <2>2 DEF Complete
    <2>4. FirstMessage[b] = [payload |-> <<>>, length |-> 2]
      BY <2>2, <2>3, FirstMessageIs
    <2>5. Len(Header(0)) = 2
      BY HeaderOK
    <2>6. FirstMessage[Header(0) \o r] = [payload |-> s, length |-> Len(Header(0))]
      BY <1>4, <2>4, <2>5 DEF b
    <2>7. Ok(s)
      <3> SUFFICES ASSUME NEW v \in Cut[s]
                   PROVE  /\ FirstMessage[v \o r] = [payload |-> s, length |-> Len(v)]
                          /\ Len(v) >= 2 /\ Len(v) \in Nat
        OBVIOUS
      <3>1. v = Header(0)
        BY <2>1
      <3>2. Len(v) = 2
        BY <2>5, <3>1
      <3>3. FirstMessage[v \o r] = [payload |-> s, length |-> Len(v)]
        BY <2>6, <3>1, Zenon
      <3> QED
        BY <3>2, <3>3
    <2> QED
      BY <1>3, <2>7
  <1>5. CASE s # <<>>
    <2>0. PICK v \in Cut[s] :
             ~(/\ FirstMessage[v \o r] = [payload |-> s, length |-> Len(v)]
               /\ Len(v) >= 2 /\ Len(v) \in Nat)
      BY <1>3
    <2>1. PICK n \in Cuts(s) :
             \E rest \in Cut[SubSeq(s, n + 1, Len(s))] : v = Header(n) \o SubSeq(s, 1, n) \o rest
      <3>1. v \in Cut[s] <=> \E n \in Cuts(s) : \E rest \in Cut[SubSeq(s, n + 1, Len(s))] :
                                v = Header(n) \o SubSeq(s, 1, n) \o rest
        <4>1. s \in Seq(Nat)
          BY <1>3
        <4> HIDE DEF Ok, Bad, S
        <4>2. \A u : u \in Cut[s] <=>
                 \E n \in Cuts(s) : \E rest \in Cut[SubSeq(s, n + 1, Len(s))] :
                    u = Header(n) \o SubSeq(s, 1, n) \o rest
          BY ONLY <1>5, <4>1, CutMembers
        <4> QED
          BY ONLY <4>2, Zenon
      <3> QED
        BY <2>0, <3>1
    <2> DEFINE c == SubSeq(s, 1, n)
               q == SubSeq(s, n + 1, Len(s))
               h == Header(n)
    <2>2. PICK d \in Cut[q] : v = h \o c \o d
      BY <2>1
    <2>16. n \in 1 .. Len(s) /\ Len(s) \in Nat /\ n \in Nat
      BY <1>3, LenProperties DEF Cuts, MaxChunk
    <2>3. /\ c \in S /\ Len(c) = n /\ q \in S /\ Len(q) = Len(s) - n
          /\ s = c \o q /\ h \in S /\ Len(h) = 2
      <3>1. n \in 0 .. Len(s)
        BY <2>16
      <3>2. c \in S /\ Len(c) = n
        BY <1>3, <3>1, FrontIs
      <3>3. q \in S /\ Len(q) = Len(s) - n
        BY <1>3, <3>1, RestIs
      <3>4. s = c \o q
        BY <1>3, <3>1, SplitAt
      <3>5. h \in S /\ Len(h) = 2
        BY <2>16, HeaderOK
      <3> QED
        BY <3>2, <3>3, <3>4, <3>5
    <2>4. d \in S
      BY <2>2, <2>3, CutIs
    <2>5. Ok(q)
      <3>1. ~(m[s] <= m[q])
        BY <1>3, <2>16, <2>3
      <3> HIDE DEF Bad, m, Ok
      <3>2. q \notin Bad
        BY <1>2, <3>1
      <3>3. q \in S
        BY <2>3
      <3> QED
        BY <3>2, <3>3, Zenon DEF Bad
    <2>6. h \o c \in S /\ Len(h \o c) = 2 + n
      <3>1. h \o c \in S /\ Len(h \o c) = Len(h) + Len(c)
        BY <2>3, ConcatProperties
      <3> QED
        BY <2>3, <3>1
    <2>7. d \o r \in S
      BY <2>4, ConcatProperties
    <2> HIDE DEF c, q, Ok, Bad, m
    <2> DEFINE b == v \o r
    <2>8. b = h \o c \o (d \o r)
      <3> DEFINE hc == h \o c
      <3>1. hc \in S
        BY <2>6
      <3> HIDE DEF hc, h
      <3>2. hc \in Seq(Nat) /\ d \in Seq(Nat) /\ r \in Seq(Nat)
        BY <2>4, <3>1
      <3>3. (hc \o d) \o r = hc \o (d \o r)
        <4>1. Associates(hc, d, r)
          BY ONLY <3>2, RegroupIs, Zenon
        <4> QED
          BY ONLY <4>1, Zenon DEF Associates
      <3> QED
        BY <2>2, <3>3 DEF hc
    <2> HIDE DEF b
    <2>9. /\ b \in S /\ Complete(b) /\ HeaderValue(b) = n
          /\ SubSeq(b, 3, HeaderValue(b) + 2) = c /\ After(b) = d \o r
      <3>1. b = OneChunk(c, d \o r)
        BY <2>3, <2>8 DEF OneChunk
      <3> QED
        BY <2>3, <2>7, <3>1, ChunkReads
    <2>10. FirstMessage[After(b)] = [payload |-> q, length |-> Len(d)] /\ Len(d) >= 2 /\ Len(d) \in Nat
      BY <2>2, <2>5, <2>9 DEF Ok
    <2>11. FirstMessage[b] = [payload |-> c \o q, length |-> n + 2 + Len(d)]
      <3>1. n # 0 /\ FirstMessage[After(b)].length # 0
        BY <2>16, <2>10
      <3>2. FirstMessage[b] =
              [payload |-> SubSeq(b, 3, HeaderValue(b) + 2) \o FirstMessage[After(b)].payload,
               length |-> HeaderValue(b) + 2 + FirstMessage[After(b)].length]
        BY <2>9, <3>1, FirstMessageIs
      <3>3. FirstMessage[After(b)].payload = q /\ FirstMessage[After(b)].length = Len(d)
        BY <2>10
      <3> QED
        BY <2>9, <3>2, <3>3, Zenon
    <2>12. Len(v) = n + 2 + Len(d)
      <3> DEFINE hc == h \o c
      <3>1. hc \in S /\ Len(hc) = 2 + n
        BY <2>6
      <3> HIDE DEF hc
      <3>2. Len(hc \o d) = Len(hc) + Len(d)
        BY <2>4, <3>1, ConcatProperties
      <3>3. Len(d) \in Nat
        BY <2>10
      <3>4. Len(v) = Len(hc \o d)
        BY <2>2 DEF hc
      <3> QED
        BY <2>16, <3>1, <3>2, <3>3, <3>4
    <2>13. n + 2 + Len(d) \in Nat /\ n + 2 + Len(d) >= 2
      BY <2>16, <2>10
    <2>14. FirstMessage[v \o r] = [payload |-> s, length |-> Len(v)]
      BY <2>3, <2>11, <2>12 DEF b
    <2> QED
      BY <2>0, <2>12, <2>13, <2>14
  <1> QED
    BY <1>4, <1>5

\* push_to_transmission cuts a message in one of the ways there are.
LEMMA PushedIsCut ==
    ASSUME NEW p \in Seq(Nat)
    PROVE  Chunked[p] \in Cut[p]
  <1> DEFINE S == Seq(Nat)
             m == [s \in S |-> Len(s)]
             Bad == {s \in S : Chunked[s] \notin Cut[s]}
  <1> SUFFICES ASSUME Bad # {} PROVE FALSE
    OBVIOUS
  <1>1. m \in [S -> Nat] /\ Bad \subseteq S
    BY LenProperties
  <1>2. PICK s \in Bad : \A t \in Bad : m[s] <= m[t]
    <2> HIDE DEF Bad, m
    <2> QED
      BY <1>1, SmallestExists
  <1>3. s \in S /\ Chunked[s] \notin Cut[s]
    BY <1>2
  <1>4. CASE s = <<>>
    BY <1>3, <1>4, ChunkedIs, CutIs
  <1>5. CASE s # <<>>
    <2> DEFINE n == Part(s)
               q == SubSeq(s, n + 1, Len(s))
    <2>1. n \in 1 .. Len(s) /\ Len(s) \in Nat
      BY <1>3, <1>5, PartOK, LenProperties
    <2>2. n \in Cuts(s)
      <3>1. Base * Base - 1 \in Int
        BY BaseAssumption
      <3>2. n <= MaxChunk
        BY <2>1, <3>1 DEF Part, MaxChunk
      <3> HIDE DEF n
      <3> QED
        BY <2>1, <3>1, <3>2 DEF Cuts, MaxChunk
    <2>3. Chunked[s] = Header(n) \o SubSeq(s, 1, n) \o Chunked[q]
      BY <1>3, <1>5, ChunkedIs
    <2> HIDE DEF n
    <2>4. q \in S /\ Len(q) = Len(s) - n
      <3>1. n \in 0 .. Len(s)
        BY <2>1
      <3> QED
        BY <1>3, <3>1, RestIs
    <2>5. Chunked[q] \in Cut[q]
      <3>1. ~(m[s] <= m[q])
        BY <1>3, <2>1, <2>4
      <3> HIDE DEF Bad, m
      <3>2. q \notin Bad
        BY <1>2, <3>1
      <3> QED
        BY <2>4, <3>2 DEF Bad
    <2> QED
      BY <1>3, <1>5, <2>2, <2>3, <2>5, CutMembers
  <1> QED
    BY <1>4, <1>5

-----------------------------------------------------------------------------
(* Streams of messages *)

\* What is left of a stream of messages behind each of them, when each of them
\* was cut into chunks.
Tails(f, messages) ==
    /\ f \in [0 .. Len(messages) -> Seq(Nat)]
    /\ f[Len(messages)] = <<>>
    /\ \A i \in 1 .. Len(messages) : \E w \in Cut[messages[i]] : f[i - 1] = w \o f[i]

\* A stream without messages
LEMMA TailsOfNothing ==
    \E f : Tails(f, <<>>) /\ f[0] = <<>>
  <1> DEFINE f == [i \in 0 .. 0 |-> <<>>]
  <1>1. f \in [0 .. 0 -> Seq(Nat)] /\ f[0] = <<>>
    BY BytesConcat
  <1>2. Len(<<>>) = 0
    OBVIOUS
  <1> HIDE DEF f
  <1>3. Tails(f, <<>>)
    <2>1. \A i \in 1 .. 0 : FALSE
      OBVIOUS
    <2> QED
      BY <1>1, <1>2, <2>1 DEF Tails
  <1> QED
    BY <1>1, <1>3

\* A message that is put at the end of a stream
LEMMA TailsGrow ==
    ASSUME NEW messages \in Seq(Seq(Nat)), NEW f, Tails(f, messages),
           NEW p \in Seq(Nat), NEW w \in Cut[p]
    PROVE  \E g : /\ Tails(g, Append(messages, p))
                  /\ \A i \in 0 .. Len(messages) : g[i] = f[i] \o w
  <1> DEFINE l == Len(messages)
             more == Append(messages, p)
             g == [i \in 0 .. l + 1 |-> IF i <= l THEN f[i] \o w ELSE <<>>]
  <1>1. /\ l \in Nat /\ Len(more) = l + 1 /\ more[l + 1] = p
        /\ \A i \in 1 .. l : more[i] = messages[i] /\ messages[i] \in Seq(Nat)
    BY AppendProperties, LenProperties
  <1>2. /\ f \in [0 .. l -> Seq(Nat)] /\ f[l] = <<>>
        /\ \A i \in 1 .. l : \E v \in Cut[messages[i]] : f[i - 1] = v \o f[i]
    BY DEF Tails
  <1>3. w \in Seq(Nat) /\ \A s \in Seq(Nat) : \A v \in Cut[s] : v \in Seq(Nat)
    BY CutIs
  <1> HIDE DEF l, more
  <1>4. g \in [0 .. l + 1 -> Seq(Nat)]
    <2>1. \A i \in 0 .. l + 1 : i <= l => f[i] \o w \in Seq(Nat)
      BY <1>1, <1>2, <1>3, BytesConcat
    <2> QED
      BY <2>1, BytesConcat
  <1>5. g[l + 1] = <<>> /\ \A i \in 0 .. l : g[i] = f[i] \o w
    BY <1>1
  <1> HIDE DEF g
  <1>6. ASSUME NEW i \in 1 .. l + 1
        PROVE  \E v \in Cut[more[i]] : g[i - 1] = v \o g[i]
    <2>1. CASE i = l + 1
      <3>1. g[i - 1] = f[l] \o w /\ l \in 0 .. l /\ i - 1 = l
        BY <1>1, <1>5, <2>1
      <3>2. g[i - 1] = w /\ w \o g[i] = w
        BY <1>2, <1>3, <1>5, <2>1, <3>1, BytesConcat
      <3> QED
        BY <1>1, <2>1, <3>2
    <2>2. CASE i # l + 1
      <3>1. i \in 1 .. l /\ i - 1 \in 0 .. l /\ i \in 0 .. l
        BY <1>1, <2>2
      <3>2. PICK v \in Cut[messages[i]] : f[i - 1] = v \o f[i]
        BY <1>2, <3>1
      <3>3. v \in Seq(Nat) /\ f[i] \in Seq(Nat)
        BY <1>1, <1>2, <1>3, <3>1
      <3>4. g[i - 1] = (v \o f[i]) \o w /\ g[i] = f[i] \o w
        BY <1>5, <3>1, <3>2
      <3> DEFINE x == f[i]
      <3> HIDE DEF x
      <3>5. (v \o x) \o w = v \o (x \o w)
        <4>1. v \in Seq(Nat) /\ x \in Seq(Nat) /\ w \in Seq(Nat)
          BY <1>3, <3>3 DEF x
        <4>2. \A a, b, c \in Seq(Nat) : (a \o b) \o c = a \o (b \o c)
          BY BytesConcat
        <4> QED
          BY <4>1, <4>2, Zenon
      <3>6. g[i - 1] = v \o g[i]
        BY <3>4, <3>5 DEF x
      <3> QED
        BY <1>1, <3>1, <3>6
    <2> QED
      BY <2>1, <2>2
  <1>7. Tails(g, more)
    <2>1. g \in [0 .. Len(more) -> Seq(Nat)] /\ g[Len(more)] = <<>>
      BY <1>1, <1>4, <1>5
    <2> QED
      BY <1>1, <1>6, <2>1 DEF Tails
  <1> QED
    BY <1>5, <1>7 DEF l, more

\* The message that comes next in a stream
LEMMA TailsNext ==
    ASSUME NEW messages \in Seq(Seq(Nat)), NEW f, Tails(f, messages),
           NEW k \in 0 .. Len(messages), f[k] # <<>>
    PROVE  /\ k < Len(messages) /\ k + 1 \in 1 .. Len(messages)
           /\ messages[k + 1] \in Seq(Nat) /\ f[k] \in Seq(Nat) /\ f[k + 1] \in Seq(Nat)
           /\ \E w \in Cut[messages[k + 1]] : f[k] = w \o f[k + 1]
  <1> DEFINE l == Len(messages)
  <1>1. l \in Nat
    BY LenProperties
  <1>2. /\ f \in [0 .. l -> Seq(Nat)] /\ f[l] = <<>>
        /\ \A i \in 1 .. l : \E v \in Cut[messages[i]] : f[i - 1] = v \o f[i]
    BY DEF Tails
  <1>3. \A i \in 1 .. l : messages[i] \in Seq(Nat)
    BY LenProperties
  <1> HIDE DEF l
  <1>4. k \in 0 .. l /\ k # l
    BY <1>2 DEF l
  <1>5. k < l /\ k + 1 \in 1 .. l /\ k + 1 \in 0 .. l /\ (k + 1) - 1 = k
    BY <1>1, <1>4
  <1>6. messages[k + 1] \in Seq(Nat) /\ f[k] \in Seq(Nat) /\ f[k + 1] \in Seq(Nat)
    BY <1>2, <1>3, <1>4, <1>5
  <1>7. \E w \in Cut[messages[k + 1]] : f[(k + 1) - 1] = w \o f[k + 1]
    BY <1>2, <1>5
  <1> QED
    BY <1>5, <1>6, <1>7 DEF l

\* The stream after its first k messages begins with what arrived, and that is
\* at least one message.
Arrived(messages, f, k, a, b) ==
    /\ Tails(f, messages) /\ k \in 0 .. Len(messages)
    /\ f[k] = a \o b /\ FirstMessage[a].length > 0

\* What arrived begins with the next message, and what follows it is what is
\* left of the stream.
NextArrived(messages, f, k, a, b) ==
    /\ k < Len(messages) /\ k + 1 \in 1 .. Len(messages)
    /\ FirstMessage[a].payload = messages[k + 1]
    /\ FirstMessage[a].length \in 0 .. Len(a)
    /\ f[k + 1] = SubSeq(a, FirstMessage[a].length + 1, Len(a)) \o b

\* A message that arrived as a whole is the next one of the stream, and what
\* follows it is what is left of the stream.
LEMMA ArrivesInOrder ==
    ASSUME NEW messages \in Seq(Seq(Nat)), NEW f, NEW k,
           NEW a \in Seq(Nat), NEW b \in Seq(Nat), Arrived(messages, f, k, a, b)
    PROVE  NextArrived(messages, f, k, a, b)
  <1>0. /\ Tails(f, messages) /\ k \in 0 .. Len(messages)
        /\ f[k] = a \o b /\ FirstMessage[a].length > 0
    BY DEF Arrived
  <1> DEFINE n == FirstMessage[a].length
  <1>1. n \in Nat /\ n <= Len(a) /\ Len(a) \in Nat /\ n \in 0 .. Len(a) /\ n > 0
    BY <1>0, FirstMessageIs, LenProperties DEF Parsed
  <1>2. f[k] \in Seq(Nat) /\ Len(f[k]) = Len(a) + Len(b) /\ Len(b) \in Nat
    BY <1>0, BytesConcat, LenProperties
  <1>3. f[k] # <<>>
    <2>1. Len(<<>>) = 0
      OBVIOUS
    <2> QED
      BY <1>1, <1>2, <2>1
  <1>4. PICK w \in Cut[messages[k + 1]] : f[k] = w \o f[k + 1]
    BY <1>0, <1>3, TailsNext
  <1>5. /\ k < Len(messages) /\ k + 1 \in 1 .. Len(messages)
        /\ messages[k + 1] \in Seq(Nat) /\ f[k + 1] \in Seq(Nat)
    BY <1>0, <1>3, TailsNext
  <1>6. w \in Seq(Nat) /\ FirstMessage[w \o f[k + 1]] = [payload |-> messages[k + 1], length |-> Len(w)]
    BY <1>5, FirstIsWhatWasCut
  <1>7. FirstMessage[a] = [payload |-> messages[k + 1], length |-> Len(w)]
    <2>1. FirstMessage[a \o b] = FirstMessage[a]
      BY <1>0, FirstMessageStays
    <2> QED
      BY <1>0, <1>4, <1>6, <2>1
  <1>8. n = Len(w) /\ FirstMessage[a].payload = messages[k + 1]
    BY <1>7
  <1>9. SubSeq(a \o b, n + 1, Len(a \o b)) = SubSeq(a, n + 1, Len(a)) \o b
    BY <1>1, CutOfConcat
  <1>10. SubSeq(w \o f[k + 1], Len(w) + 1, Len(w \o f[k + 1])) = f[k + 1]
    BY <1>5, <1>6, PartsOfConcat
  <1>11. f[k + 1] = SubSeq(a, n + 1, Len(a)) \o b
    BY <1>0, <1>4, <1>8, <1>9, <1>10
  <1> QED
    BY <1>1, <1>5, <1>8, <1>11 DEF NextArrived

-----------------------------------------------------------------------------
(* What is left in a buffer *)

Contents(b) == Ahead(b, Unloadable(b))

\* What is left are the bytes from the cursor on.
LEMMA ContentsAre ==
    ASSUME NEW S, NEW b, IsBuffer(b, S)
    PROVE  /\ Contents(b) = SubSeq(b.data, b.cursor + 1, Len(b.data))
           /\ Contents(b) \in Seq(S) /\ Len(Contents(b)) = Unloadable(b)
           /\ b.cursor \in 0 .. Len(b.data)
           /\ Unloadable(b) = 0 => Contents(b) = <<>>
  <1>1. /\ b.data \in Seq(S) /\ b.cursor \in Nat /\ Extent(b) = Len(b.data)
        /\ b.cursor <= Extent(b) /\ Extent(b) \in Nat
        /\ Unloadable(b) \in Nat /\ Unloadable(b) = Extent(b) - b.cursor
    BY BufferIs
  <1>2. b.cursor + Unloadable(b) = Len(b.data) /\ Unloadable(b) \in 0 .. Unloadable(b)
    BY <1>1
  <1>3. Contents(b) = SubSeq(b.data, b.cursor + 1, Len(b.data))
    BY <1>2 DEF Contents, Ahead
  <1>4. Contents(b) \in Seq(S) /\ Len(Contents(b)) = Unloadable(b)
    BY <1>2, AheadOK DEF Contents
  <1>5. Unloadable(b) = 0 => Contents(b) = <<>>
    BY <1>4, EmptySeq
  <1> QED
    BY <1>1, <1>3, <1>4, <1>5

\* BoltBuffer_compact moves what is left and keeps it.
LEMMA CompactContents ==
    ASSUME NEW S, NEW b, IsBuffer(b, S)
    PROVE  Contents(Compact(b)) = Contents(b)
  <1> DEFINE d == SubSeq(b.data, b.cursor + 1, Extent(b))
             c == [b EXCEPT !.data = d, !.cursor = 0]
  <1>1. b \in Buffer(S) /\ Extent(b) = Len(b.data) /\ b.data \in Seq(S)
    BY BufferIs
  <1>2. Contents(b) = d /\ Contents(b) \in Seq(S)
    BY <1>1, ContentsAre
  <1> HIDE DEF d
  <1>3. Compact(b) = b \/ Compact(b) = c
    BY DEF Compact, d
  <1>4. c = [data |-> d, cursor |-> 0, size |-> b.size]
    <2>1. c = [b EXCEPT !.data = d, !.cursor = 0]
      OBVIOUS
    <2> HIDE DEF c
    <2>2. b \in Buffer(S)
      BY <1>1
    <2> QED
      BY <2>1, <2>2, DataCursorIs, Zenon
  <1>5. c.data = d /\ c.cursor = 0
    BY <1>4
  <1> HIDE DEF c
  <1>6. CASE Compact(b) = c
    <2>1. IsBuffer(c, S)
      BY <1>6, CompactOK
    <2>2. Contents(c) = SubSeq(d, 0 + 1, Len(d))
      BY <1>5, <2>1, ContentsAre
    <2>3. SubSeq(d, 1, Len(d)) = d
      BY <1>2, SubSeqFull
    <2> QED
      BY <1>2, <1>6, <2>2, <2>3
  <1> QED
    BY <1>3, <1>6

\* BoltBuffer_load puts bytes behind what is left.
LEMMA LoadContents ==
    ASSUME NEW b, IsBuffer(b, Nat), NEW bytes \in Seq(Nat)
    PROVE  Contents(LoadBytes(b, bytes)) = Contents(b) \o bytes
  <1> DEFINE r == LoadBytes(b, bytes)
  <1>1. IsBuffer(r, Nat) /\ r.data = b.data \o bytes /\ r.cursor = b.cursor
    BY LoadBytesOK
  <1> HIDE DEF r
  <1>2. Contents(r) = SubSeq(b.data \o bytes, b.cursor + 1, Len(b.data \o bytes))
    BY <1>1, ContentsAre
  <1>3. /\ Contents(b) = SubSeq(b.data, b.cursor + 1, Len(b.data))
        /\ b.cursor \in 0 .. Len(b.data) /\ b.data \in Seq(Nat)
    BY ContentsAre, BufferIs
  <1>4. SubSeq(b.data \o bytes, b.cursor + 1, Len(b.data \o bytes))
           = SubSeq(b.data, b.cursor + 1, Len(b.data)) \o bytes
    BY <1>3, CutOfConcat
  <1> QED
    BY <1>2, <1>3, <1>4 DEF r

\* BoltBuffer_unload_pointer of all that is left leaves nothing.
LEMMA UnloadAll ==
    ASSUME NEW S, NEW b, IsBuffer(b, S)
    PROVE  LET e == UnloadPointer(b, Unloadable(b))
           IN  IsBuffer(e, S) /\ Unloadable(e) = 0 /\ Contents(e) = <<>>
  <1> DEFINE u == Unloadable(b)
             e == UnloadPointer(b, u)
  <1>1. u \in 0 .. Unloadable(b) /\ u \in Nat
    BY BufferIs
  <1>2. IsBuffer(e, S) /\ Unloadable(e) = u - u
    BY <1>1, UnloadPointerOK
  <1>3. Unloadable(e) = 0
    BY <1>1, <1>2
  <1> HIDE DEF e
  <1>4. Contents(e) = <<>>
    BY <1>2, <1>3, ContentsAre
  <1> QED
    BY <1>2, <1>3, <1>4 DEF e

-----------------------------------------------------------------------------
(* Requests: the inductive invariant *)

Payloads == {Payload(i, n) : i \in 1 .. MaxMessages, n \in Sizes}

\* The bytes that were loaded and not sent: those of the send in progress, and
\* those behind it in tx_buffer.
Unsent == SubSeq(sending.bytes, sending.total + 1, Len(sending.bytes)) \o Contents(tx)

\* What is on its way to the server, with the bytes that are not sent, are the
\* messages that the server did not take.  After a broken link bytes are lost
\* at the end.
OnTheWay ==
    \E f : Tails(f, loaded) /\ \E rest \in Seq(Nat) :
        /\ f[Len(served)] = toPeer \o rest
        /\ pc # "defunct" => rest = Unsent

RequestsKept ==
    /\ loaded \in Seq(Payloads) /\ Len(loaded) <= MaxMessages
    /\ served \in Seq(Payloads) /\ Len(served) <= Len(loaded)
    /\ Unloadable(msgTx) = 0
    /\ pc # "sending" => sending = NoSend

OutInv == RequestsKept /\ OnTheWay

\* What is not sent are bytes.
LEMMA UnsentIs ==
    ASSUME Typed
    PROVE  /\ Unsent \in Seq(Nat) /\ Contents(tx) \in Seq(Nat)
           /\ SubSeq(sending.bytes, sending.total + 1, Len(sending.bytes)) \in Seq(Nat)
           /\ sending.total \in 0 .. Len(sending.bytes)
  <1>1. /\ sending.bytes \in Seq(Nat) /\ sending.total \in Nat /\ sending.remaining \in Nat
        /\ sending.total + sending.remaining = Len(sending.bytes)
    BY CallIs
  <1>2. sending.total \in 0 .. Len(sending.bytes)
    BY <1>1
  <1>3. SubSeq(sending.bytes, sending.total + 1, Len(sending.bytes)) \in Seq(Nat)
    BY <1>1, <1>2, RestIs
  <1>4. Contents(tx) \in Seq(Nat)
    BY ContentsAre DEF Typed
  <1> QED
    BY <1>2, <1>3, <1>4, BytesConcat DEF Unsent

\* Between two sends all that is not sent is in tx_buffer.
LEMMA UnsentIdle ==
    ASSUME Typed, sending = NoSend
    PROVE  Unsent = Contents(tx)
  <1>1. SubSeq(<<>>, 1, 0) = <<>>
    BY SubSeqEmpty
  <1>2. sending.bytes = <<>> /\ sending.total = 0 /\ Len(<<>>) = 0
    BY DEF NoSend
  <1>3. SubSeq(sending.bytes, sending.total + 1, Len(sending.bytes)) = <<>>
    BY <1>1, <1>2
  <1> QED
    BY <1>3, UnsentIs, BytesConcat DEF Unsent

\* Payloads are bytes.
LEMMA PayloadsAreBytes ==
    /\ Payloads \subseteq Seq(Nat) /\ Payloads \subseteq Messages
    /\ Seq(Payloads) \subseteq Seq(Seq(Nat))
  <1>1. Payloads \subseteq Seq(Nat)
    <2> SUFFICES ASSUME NEW i \in 1 .. MaxMessages, NEW n \in Sizes PROVE Payload(i, n) \in Seq(Nat)
      BY DEF Payloads
    <2>1. i \in Nat
      BY SizesAssumption
    <2> QED
      BY <2>1, PayloadOK
  <1>2. Seq(Payloads) \subseteq Seq(Seq(Nat))
    BY <1>1, SeqMonotonic
  <1>3. Payloads \subseteq Messages
    BY DEF Payloads, Messages
  <1> QED
    BY <1>1, <1>2, <1>3

-----------------------------------------------------------------------------
(* Requests: every action keeps the invariant *)

\* At the start nothing is on its way.
LEMMA OutInit == Init => OutInv
  <1> SUFFICES ASSUME Init PROVE OutInv
    OBVIOUS
  <1>1. /\ loaded = <<>> /\ served = <<>> /\ toPeer = <<>> /\ sending = NoSend /\ pc = "idle"
        /\ msgTx = BoltBuffer_create(InitialSize) /\ tx = BoltBuffer_create(InitialSize)
    BY DEF Init
  <1>2. Unloadable(msgTx) = 0 /\ Unloadable(tx) = 0 /\ IsBuffer(tx, Nat)
    BY <1>1, CreatedOK, SizesAssumption
  <1>3. Typed
    BY MemoryInit DEF MemoryInv
  <1>4. Unsent = <<>>
    BY <1>1, <1>2, <1>3, UnsentIdle, ContentsAre
  <1>5. RequestsKept
    <2>1. <<>> \in Seq(Payloads) /\ Len(<<>>) = 0
      BY EmptySeq
    <2> QED
      BY <1>1, <1>2, <2>1, SizesAssumption DEF RequestsKept
  <1>6. OnTheWay
    <2>1. PICK f : Tails(f, <<>>) /\ f[0] = <<>>
      BY TailsOfNothing
    <2>2. f[Len(<<>>)] = <<>> \o <<>> /\ <<>> \in Seq(Nat)
      BY <2>1, BytesConcat
    <2> QED
      BY <1>1, <1>4, <2>1, <2>2 DEF OnTheWay
  <1> QED
    BY <1>5, <1>6 DEF OutInv

\* What has nothing to do with sending changes nothing of it.
LEMMA OutsideSend ==
    ASSUME OutInv, UNCHANGED <<msgTx, tx, sending, toPeer, loaded, served>>,
           pc' # "sending" => pc # "sending", pc' # "defunct" => pc # "defunct"
    PROVE  OutInv'
  <1>1. RequestsKept'
    BY DEF OutInv, RequestsKept
  <1>2. Unsent' = Unsent
    BY DEF Unsent, Contents, Ahead, Unloadable, Extent
  <1>3. PICK f : Tails(f, loaded) /\ \E rest \in Seq(Nat) :
                    /\ f[Len(served)] = toPeer \o rest
                    /\ pc # "defunct" => rest = Unsent
    BY DEF OutInv, OnTheWay
  <1>4. /\ Tails(f, loaded')
        /\ \E rest \in Seq(Nat) :
              /\ f[Len(served')] = toPeer' \o rest
              /\ pc' # "defunct" => rest = Unsent'
    BY <1>2, <1>3
  <1>5. OnTheWay'
    BY <1>4 DEF OnTheWay
  <1> QED
    BY <1>1, <1>5 DEF OutInv

\* load_message puts the chunks of the message behind all that is not sent.
LEMMA LoadInOrder ==
    ASSUME MemoryInv, OutInv, NEW n \in Sizes, Load(n)
    PROVE  OutInv' /\ loaded' = Append(loaded, Payload(Len(loaded) + 1, n))
           /\ Payload(Len(loaded) + 1, n) \in Payloads /\ served' = served
  <1> DEFINE i == Len(loaded) + 1
             payload == Payload(i, n)
             written == LoadBytes(msgTx, payload)
             w == Chunked[payload]
             s == SubSeq(sending.bytes, sending.total + 1, Len(sending.bytes))
  <1>1. /\ loaded \in Seq(Payloads) /\ Len(loaded) <= MaxMessages /\ Len(loaded) \in Nat
        /\ served \in Seq(Payloads) /\ Len(served) <= Len(loaded) /\ Len(served) \in Nat
        /\ Unloadable(msgTx) = 0
        /\ pc # "sending" => sending = NoSend
    BY LenProperties DEF OutInv, RequestsKept
  <1>2. Typed /\ IsBuffer(msgTx, Nat) /\ IsBuffer(tx, Nat)
    BY DEF MemoryInv, Typed
  <1>3. /\ pc = "idle" /\ Len(loaded) < MaxMessages
        /\ tx' = LoadBytes(tx, Chunked[Contents(written)])
        /\ msgTx' = Compact(UnloadPointer(written, Unloadable(written)))
        /\ loaded' = Append(loaded, payload)
        /\ UNCHANGED <<pc, sending, toPeer, served>>
    BY DEF Load, PushToTransmission, wire, Contents
  <1>4. i \in 1 .. MaxMessages /\ i \in Nat
    BY <1>1, <1>3, SizesAssumption
  <1> HIDE DEF i
  <1>5. payload \in Payloads /\ payload \in Seq(Nat)
    BY <1>4, PayloadOK DEF Payloads
  <1> HIDE DEF payload
  <1>6. IsBuffer(written, Nat) /\ Contents(written) = payload
    <2>1. IsBuffer(written, Nat) /\ Contents(written) = Contents(msgTx) \o payload
      BY <1>2, <1>5, LoadBytesOK, LoadContents
    <2>2. Contents(msgTx) = <<>>
      <3>1. IsBuffer(msgTx, Nat) /\ Unloadable(msgTx) = 0
        BY <1>1, <1>2
      <3>2. \A b : IsBuffer(b, Nat) /\ Unloadable(b) = 0 => Contents(b) = <<>>
        BY ContentsAre
      <3> QED
        BY <3>1, <3>2
    <2> QED
      BY <1>5, <2>1, <2>2, BytesConcat
  <1> HIDE DEF written
  <1>7. w \in Cut[payload] /\ w \in Seq(Nat)
    BY <1>5, PushedIsCut, ChunkedIs
  <1> HIDE DEF w
  <1>8. Unloadable(msgTx') = 0
    <2> DEFINE e == UnloadPointer(written, Unloadable(written))
    <2>1. IsBuffer(e, Nat) /\ Unloadable(e) = 0
      BY <1>6, UnloadAll
    <2> HIDE DEF e
    <2>2. Unloadable(Compact(e)) = 0
      BY <2>1, CompactOK
    <2> QED
      BY <1>3, <2>2 DEF e
  <1>9. s \in Seq(Nat) /\ Contents(tx) \in Seq(Nat) /\ Unsent = s \o Contents(tx)
    BY <1>2, UnsentIs DEF Unsent
  <1>10. Unsent' = s \o Contents(tx') /\ Contents(tx') = Contents(tx) \o w
    <2>1. tx' = LoadBytes(tx, w)
      BY <1>3, <1>6 DEF w
    <2>2. Contents(LoadBytes(tx, w)) = Contents(tx) \o w
      BY <1>2, <1>7, LoadContents
    <2>3. Contents(tx)' = Contents(tx')
      BY DEF Contents, Ahead, Unloadable, Extent
    <2> QED
      BY <1>3, <2>1, <2>2, <2>3 DEF Unsent
  <1> HIDE DEF s
  <1>11. Unsent' = Unsent \o w /\ Unsent \in Seq(Nat)
    <2> DEFINE c == Contents(tx)
    <2> HIDE DEF c
    <2>1. c \in Seq(Nat) /\ (s \o c) \o w = s \o (c \o w)
      BY <1>7, <1>9, BytesConcat DEF c
    <2> QED
      BY <1>9, <1>10, <2>1, BytesConcat DEF c
  <1>12. PICK f : Tails(f, loaded) /\ f[Len(served)] = toPeer \o Unsent
    BY <1>3 DEF OutInv, OnTheWay
  <1>13. PICK g : /\ Tails(g, Append(loaded, payload))
                  /\ \A k \in 0 .. Len(loaded) : g[k] = f[k] \o w
    <2>1. loaded \in Seq(Seq(Nat))
      BY <1>1, PayloadsAreBytes
    <2>2. payload \in Seq(Nat) /\ w \in Cut[payload] /\ Tails(f, loaded)
      BY <1>5, <1>7, <1>12
    <2>3. \E g : /\ Tails(g, Append(loaded, payload))
                 /\ \A k \in 0 .. Len(loaded) : g[k] = f[k] \o w
      BY ONLY <2>1, <2>2, TailsGrow, Zenon
    <2> QED
      BY <2>3, Zenon
  <1>14. g[Len(served)] = toPeer \o Unsent'
    <2>1. Len(served) \in 0 .. Len(loaded)
      BY <1>1
    <2>2. g[Len(served)] = (toPeer \o Unsent) \o w
      BY <1>12, <1>13, <2>1
    <2>3. toPeer \in Seq(Nat)
      BY <1>2 DEF Typed
    <2> DEFINE u == Unsent
    <2> HIDE DEF u
    <2>4. (toPeer \o u) \o w = toPeer \o (u \o w)
      BY <1>7, <1>11, <2>3, BytesConcat DEF u
    <2> QED
      BY <1>11, <2>2, <2>4 DEF u
  <1>15. OnTheWay'
    <2>1. Unsent' \in Seq(Nat)
      BY <1>7, <1>11, BytesConcat
    <2>2. Tails(g, loaded') /\ g[Len(served')] = toPeer' \o Unsent'
      BY <1>3, <1>13, <1>14
    <2> QED
      BY <2>1, <2>2 DEF OnTheWay
  <1>16. RequestsKept'
    <2>1. loaded' \in Seq(Payloads) /\ Len(loaded') = Len(loaded) + 1
      BY <1>1, <1>3, <1>5, AppendProperties
    <2>2. Len(loaded') <= MaxMessages /\ Len(served') <= Len(loaded')
      BY <1>1, <1>3, <2>1, SizesAssumption
    <2>3. Unloadable(msgTx)' = 0
      BY <1>8 DEF Unloadable, Extent
    <2> QED
      BY <1>1, <1>3, <2>1, <2>2, <2>3 DEF RequestsKept
  <1> QED
    BY <1>3, <1>5, <1>15, <1>16 DEF OutInv, payload, i

\* A message that could not be encoded leaves nothing behind.
LEMMA LoadFailsInOrder ==
    ASSUME MemoryInv, OutInv, NEW n \in Sizes, NEW k \in 1 .. n - 1, LoadFails(n, k)
    PROVE  OutInv' /\ UNCHANGED <<loaded, served>>
  <1> DEFINE p == Payload(Len(loaded) + 1, n)
             payload == SubSeq(p, 1, k)
             written == LoadBytes(msgTx, payload)
             cut == Truncate(written, Extent(msgTx))
  <1>1. /\ loaded \in Seq(Payloads) /\ Len(loaded) + 1 \in Nat /\ Unloadable(msgTx) = 0
        /\ IsBuffer(msgTx, Nat)
    BY LenProperties DEF OutInv, RequestsKept, MemoryInv, Typed
  <1>2. /\ msgTx' = [cut EXCEPT !.cursor = msgTx.cursor]
        /\ UNCHANGED <<tx, pc, sending, toPeer, loaded, served>>
    BY DEF LoadFails, RolledBack, wire, histories
  <1>3. payload \in Seq(Nat)
    <2>1. p \in Seq(Nat) /\ Len(p) = n /\ n \in Nat
      BY <1>1, PayloadOK
    <2> HIDE DEF p
    <2>2. k \in 0 .. Len(p)
      BY <2>1
    <2> QED
      BY <2>1, <2>2, FrontIs
  <1> HIDE DEF payload
  <1>4. /\ IsBuffer(written, Nat) /\ written.cursor = msgTx.cursor
        /\ Extent(written) = Extent(msgTx) + Len(payload)
    BY <1>1, <1>3, LoadBytesOK
  <1>5. /\ msgTx.cursor \in Nat /\ Extent(msgTx) \in Nat /\ msgTx.cursor <= Extent(msgTx)
        /\ Len(payload) \in Nat /\ Unloadable(msgTx) = Extent(msgTx) - msgTx.cursor
    BY <1>1, <1>3, BufferIs, LenProperties
  <1> HIDE DEF written
  <1>6. IsBuffer(cut, Nat) /\ cut.cursor = msgTx.cursor /\ Extent(cut) = Extent(msgTx)
    <2>1. Extent(msgTx) \in written.cursor .. Extent(written)
      BY <1>4, <1>5
    <2> QED
      BY <1>4, <2>1, TruncateOK
  <1> HIDE DEF cut
  <1>7. msgTx' = cut
    <2>1. cut \in Buffer(Nat)
      BY <1>6 DEF IsBuffer
    <2>2. [cut EXCEPT !.cursor = cut.cursor] = cut
      BY <2>1 DEF Buffer
    <2> QED
      BY <1>2, <1>6, <2>2
  <1>8. Unloadable(cut) = 0
    <2>1. Unloadable(cut) = Extent(cut) - cut.cursor
      BY <1>6, BufferIs
    <2> QED
      BY <1>1, <1>5, <1>6, <2>1
  <1>9. RequestsKept'
    <2>1. Unloadable(msgTx)' = Unloadable(cut)
      BY <1>7 DEF Unloadable, Extent
    <2> QED
      BY <1>2, <1>8, <2>1 DEF OutInv, RequestsKept
  <1>10. OnTheWay'
    <2>1. Unsent' = Unsent
      BY <1>2 DEF Unsent, Contents, Ahead, Unloadable, Extent
    <2> QED
      BY <1>2, <2>1 DEF OutInv, OnTheWay
  <1> QED
    BY <1>2, <1>9, <1>10 DEF OutInv

\* BoltConnection_send takes all that is not sent out of tx_buffer.
LEMMA SendInOrder ==
    ASSUME MemoryInv, OutInv, Send
    PROVE  OutInv' /\ UNCHANGED <<loaded, served>>
  <1>1. Typed /\ IsBuffer(tx, Nat)
    BY DEF MemoryInv, Typed
  <1>2. /\ pc = "idle" /\ pc' = "sending"
        /\ sending' = [bytes |-> Contents(tx), total |-> 0, remaining |-> Unloadable(tx)]
        /\ tx' = UnloadPointer(tx, Unloadable(tx))
        /\ UNCHANGED <<msgTx, toPeer, loaded, served>>
    BY DEF Send, wire, histories, Contents
  <1>3. Unsent = Contents(tx) /\ Contents(tx) \in Seq(Nat)
    BY <1>1, <1>2, UnsentIdle, UnsentIs DEF OutInv, RequestsKept
  <1>4. Contents(tx') = <<>>
    BY <1>1, <1>2, UnloadAll
  <1>5. Unsent' = Unsent
    <2> DEFINE c == Contents(tx)
    <2>1. sending'.bytes = c /\ sending'.total = 0
      BY <1>2
    <2>2. Contents(tx)' = <<>>
      BY <1>4 DEF Contents, Ahead, Unloadable, Extent
    <2> HIDE DEF c
    <2>3. SubSeq(c, 1, Len(c)) = c /\ c \o <<>> = c
      BY <1>3, SubSeqFull, BytesConcat DEF c
    <2>4. Unsent' = SubSeq(c, 0 + 1, Len(c)) \o <<>>
      BY <2>1, <2>2 DEF Unsent
    <2> QED
      BY <1>3, <2>3, <2>4 DEF c
  <1>6. RequestsKept'
    BY <1>2 DEF OutInv, RequestsKept, Unloadable, Extent
  <1>7. OnTheWay'
    BY <1>2, <1>5 DEF OutInv, OnTheWay
  <1> QED
    BY <1>2, <1>6, <1>7 DEF OutInv

\* What is sent leaves the front of what is not sent.
LEMMA SendSomeInOrder ==
    ASSUME MemoryInv, OutInv, NEW k, SendSome(k)
    PROVE  OutInv' /\ UNCHANGED <<loaded, served>>
  <1> DEFINE b == sending.bytes
             t == sending.total
             d == Contents(tx)
             piece == SubSeq(b, t + 1, t + k)
             last == SubSeq(b, t + k + 1, Len(b))
             s == SubSeq(b, t + 1, Len(b))
  <1>1. Typed /\ IsBuffer(tx, Nat) /\ toPeer \in Seq(Nat)
    BY DEF MemoryInv, Typed
  <1>2. /\ pc = "sending" /\ k \in 1 .. sending.remaining
        /\ toPeer' = toPeer \o piece
        /\ IF t + k < Len(b)
           THEN /\ sending' = [sending EXCEPT !.total = @ + k, !.remaining = @ - k]
                /\ UNCHANGED <<pc, tx>>
           ELSE sending' = NoSend /\ pc' = "idle" /\ tx' = Compact(tx)
        /\ UNCHANGED <<msgTx, loaded, served>>
    <2>1. sending \in [bytes : Seq(Nat), total : Nat, remaining : Nat]
      BY <1>1 DEF Typed
    <2>2. Sent(sending, k).total = t + k
      BY <2>1 DEF Sent
    <2> QED
      BY <2>2 DEF SendSome, Sent, histories
  <1>3. /\ b \in Seq(Nat) /\ t \in Nat /\ k \in Nat /\ t + k <= Len(b) /\ Len(b) \in Nat
        /\ k >= 1 /\ t <= Len(b)
    <2>1. /\ b \in Seq(Nat) /\ t \in Nat /\ sending.remaining \in Nat
          /\ t + sending.remaining = Len(b)
      BY <1>1, CallIs
    <2>2. k \in 1 .. sending.remaining
      BY <1>2
    <2>3. Len(b) \in Nat
      BY <2>1, LenProperties
    <2> DEFINE r == sending.remaining
               m == Len(b)
    <2>4. /\ r \in Nat /\ t \in Nat /\ m \in Nat /\ t + r = m /\ k \in 1 .. r
      BY <2>1, <2>2, <2>3
    <2> HIDE DEF b, t, r, m
    <2>5. k \in Nat /\ t + k <= m /\ k >= 1 /\ t <= m
      BY <2>4
    <2> QED
      BY <2>1, <2>4, <2>5 DEF m
  <1>4. s \in Seq(Nat) /\ d \in Seq(Nat) /\ Unsent = s \o d
    BY <1>1, UnsentIs DEF Unsent
  <1>5. s = piece \o last /\ piece \in Seq(Nat) /\ last \in Seq(Nat)
    <2> HIDE DEF b, t
    <2>1. t + 1 \in 1 .. Len(b) + 1 /\ t + k \in (t + 1) - 1 .. Len(b) /\ Len(b) \in t + k .. Len(b)
      BY <1>3
    <2>2. s = piece \o last
      BY <1>3, <2>1, ConcatAdjacentSubSeq
    <2>3. t + k \in 0 .. Len(b)
      BY <1>3
    <2>4. last \in Seq(Nat)
      BY <1>3, <2>3, RestIs
    <2>5. piece \in Seq(Nat)
      <3>1. \A i \in t + 1 .. t + k : b[i] \in Nat
        BY <1>3, LenProperties
      <3>2. t + 1 \in Int /\ t + k \in Int
        BY <1>3
      <3> QED
        BY <3>1, <3>2, SubSeqProperties
    <2> QED
      BY <2>2, <2>4, <2>5
  <1>6. Unsent' = last \o d
    <2>1. CASE t + k < Len(b)
      <3>1. sending' = [sending EXCEPT !.total = t + k, !.remaining = @ - k] /\ UNCHANGED tx
        BY <1>2, <2>1
      <3>2. sending \in [bytes : Seq(Nat), total : Nat, remaining : Nat]
        BY <1>1 DEF Typed
      <3>3. sending'.bytes = b /\ sending'.total = t + k
        BY <3>1, <3>2
      <3>4. Contents(tx)' = d
        BY <3>1 DEF Contents, Ahead, Unloadable, Extent
      <3> HIDE DEF b, t, d
      <3> QED
        BY <3>3, <3>4 DEF Unsent
    <2>2. CASE ~(t + k < Len(b))
      <3>1. sending' = NoSend /\ tx' = Compact(tx)
        BY <1>2, <2>2
      <3>2. Contents(tx)' = d
        <4>1. Contents(Compact(tx)) = Contents(tx)
          BY <1>1, CompactContents
        <4> QED
          BY <3>1, <4>1 DEF Contents, Ahead, Unloadable, Extent
      <3>3. last = <<>>
        <4> HIDE DEF b, t
        <4>1. t + k + 1 \in Int /\ Len(b) \in Int /\ Len(b) < t + k + 1
          BY <1>3, <2>2
        <4> QED
          BY <4>1, SubSeqEmpty
      <3>4. SubSeq(sending'.bytes, sending'.total + 1, Len(sending'.bytes)) = <<>>
        <4>1. sending'.bytes = <<>> /\ sending'.total = 0 /\ Len(<<>>) = 0
          BY <3>1 DEF NoSend
        <4>2. SubSeq(<<>>, 1, 0) = <<>>
          BY SubSeqEmpty
        <4> QED
          BY <4>1, <4>2
      <3> HIDE DEF last, d, b, t
      <3> QED
        BY <3>2, <3>3, <3>4 DEF Unsent
    <2> QED
      BY <2>1, <2>2
  <1>7. RequestsKept'
    <2>1. pc' # "sending" => sending' = NoSend
      BY <1>2
    <2> QED
      BY <1>2, <2>1 DEF OutInv, RequestsKept, Unloadable, Extent
  <1> HIDE DEF piece, last, s, d
  <1>8. toPeer \o Unsent = toPeer' \o Unsent' /\ Unsent' \in Seq(Nat)
    <2>1. /\ toPeer \in Seq(Nat) /\ piece \in Seq(Nat) /\ last \in Seq(Nat) /\ d \in Seq(Nat)
          /\ toPeer' = toPeer \o piece /\ Unsent = (piece \o last) \o d /\ Unsent' = last \o d
      BY <1>1, <1>2, <1>4, <1>5, <1>6
    <2>2. last \o d \in Seq(Nat) /\ (piece \o last) \o d = piece \o (last \o d)
      <3>1. last \o d \in Seq(Nat)
        BY <2>1, BytesConcat
      <3>2. (piece \o last) \o d = piece \o (last \o d)
        <4>1. Associates(piece, last, d)
          BY ONLY <2>1, RegroupIs, Zenon
        <4> QED
          BY ONLY <4>1, Zenon DEF Associates
      <3> QED
        BY <3>1, <3>2
    <2> DEFINE e == last \o d
    <2> HIDE DEF e
    <2>3. e \in Seq(Nat)
      BY <2>2 DEF e
    <2>4. (toPeer \o piece) \o e = toPeer \o (piece \o e)
      <3>1. Associates(toPeer, piece, e)
        BY ONLY <2>1, <2>3, RegroupIs, Zenon
      <3> QED
        BY ONLY <3>1, Zenon DEF Associates
    <2> QED
      BY <2>1, <2>2, <2>3, <2>4 DEF e
  <1>9. OnTheWay'
    <2>1. PICK f : Tails(f, loaded) /\ f[Len(served)] = toPeer \o Unsent
      BY <1>2 DEF OutInv, OnTheWay
    <2>2. Tails(f, loaded') /\ f[Len(served')] = toPeer' \o Unsent'
      BY <1>2, <1>8, <2>1
    <2> QED
      BY <1>8, <2>2 DEF OnTheWay
  <1> QED
    BY <1>2, <1>7, <1>9 DEF OutInv

\* A broken link loses what was not sent, and nothing else is sent any more.
LEMMA BreakInOrder ==
    ASSUME OutInv, Break
    PROVE  OutInv' /\ UNCHANGED <<loaded, served>>
  <1>1. /\ pc' = "defunct" /\ sending' = NoSend
        /\ UNCHANGED <<msgTx, toPeer, loaded, served>>
    BY DEF Break, wire, histories
  <1>2. RequestsKept'
    BY <1>1 DEF OutInv, RequestsKept, Unloadable, Extent
  <1>3. OnTheWay'
    <2>1. PICK f : Tails(f, loaded) /\ \E rest \in Seq(Nat) : f[Len(served)] = toPeer \o rest
      BY DEF OutInv, OnTheWay
    <2> QED
      BY <1>1, <2>1 DEF OnTheWay
  <1> QED
    BY <1>1, <1>2, <1>3 DEF OutInv

\* The server takes the message that comes next.
LEMMA ServeInOrder ==
    ASSUME MemoryInv, OutInv, Serve
    PROVE  /\ OutInv' /\ UNCHANGED loaded
           /\ Len(served) < Len(loaded)
           /\ served' = Append(served, loaded[Len(served) + 1])
           /\ loaded[Len(served) + 1] \in Payloads
           /\ FirstMessage[toPeer].payload = loaded[Len(served) + 1]
  <1> DEFINE l == FirstMessage[toPeer].length
             k == Len(served)
  <1>1. /\ l > 0
        /\ toPeer' = SubSeq(toPeer, l + 1, Len(toPeer))
        /\ served' = Append(served, FirstMessage[toPeer].payload)
        /\ UNCHANGED <<msgTx, tx, pc, sending, loaded>>
    BY DEF Serve, buffers
  <1>2. /\ loaded \in Seq(Payloads) /\ served \in Seq(Payloads) /\ k <= Len(loaded)
        /\ k \in Nat /\ Len(loaded) \in Nat
    BY LenProperties DEF OutInv, RequestsKept
  <1>3. toPeer \in Seq(Nat)
    BY DEF MemoryInv, Typed
  <1>11. PICK f : Tails(f, loaded) /\ \E rest \in Seq(Nat) :
                     /\ f[k] = toPeer \o rest
                     /\ pc # "defunct" => rest = Unsent
    BY DEF OutInv, OnTheWay
  <1>4. PICK rest \in Seq(Nat) : /\ f[k] = toPeer \o rest
                                 /\ pc # "defunct" => rest = Unsent
    BY <1>11
  <1> HIDE DEF l, k
  <1>5. loaded \in Seq(Seq(Nat)) /\ k \in 0 .. Len(loaded)
    BY <1>2, PayloadsAreBytes
  <1>6. /\ k < Len(loaded) /\ k + 1 \in 1 .. Len(loaded)
        /\ FirstMessage[toPeer].payload = loaded[k + 1]
        /\ f[k + 1] = toPeer' \o rest
    <2> DEFINE a == toPeer
               m == loaded
    <2> HIDE DEF a, m
    <2>1. /\ Arrived(m, f, k, a, rest)
          /\ m \in Seq(Seq(Nat)) /\ a \in Seq(Nat)
      BY <1>1, <1>3, <1>4, <1>5, <1>11 DEF Arrived, l, a, m
    <2>2. NextArrived(m, f, k, a, rest)
      BY <1>4, <2>1, ArrivesInOrder, Zenon
    <2> QED
      BY <1>1, <2>2 DEF NextArrived, l, a, m
  <1>7. loaded[k + 1] \in Payloads
    BY <1>2, <1>6, LenProperties
  <1>8. /\ served' = Append(served, loaded[k + 1]) /\ served' \in Seq(Payloads)
        /\ Len(served') = k + 1
    <2>1. served' = Append(served, loaded[k + 1])
      BY <1>1, <1>6
    <2> QED
      BY <1>2, <1>7, <2>1, AppendProperties DEF k
  <1>9. RequestsKept'
    <2>1. Len(served') <= Len(loaded')
      BY <1>1, <1>2, <1>6, <1>8
    <2> QED
      BY <1>1, <1>8, <2>1 DEF OutInv, RequestsKept, Unloadable, Extent
  <1>10. OnTheWay'
    <2>1. Unsent' = Unsent
      BY <1>1 DEF Unsent, Contents, Ahead, Unloadable, Extent
    <2>2. /\ Tails(f, loaded') /\ f[Len(served')] = toPeer' \o rest
          /\ pc' # "defunct" => rest = Unsent'
      BY <1>1, <1>4, <1>6, <1>8, <1>11, <2>1
    <2> QED
      BY <2>2 DEF OnTheWay
  <1> QED
    BY <1>1, <1>6, <1>7, <1>8, <1>9, <1>10 DEF OutInv, k

-----------------------------------------------------------------------------
(* Requests: every step, and the theorem *)

\* Every step keeps the invariant, and is a step of the channel of requests.
LEMMA OutStep ==
    ASSUME MemoryInv, OutInv, [Next]_vars
    PROVE  OutInv' /\ [Requests!Next]_<<loaded, served>>
  <1> DEFINE Step == OutInv' /\ [Requests!Next]_<<loaded, served>>
  <1>1. ASSUME OutInv' /\ UNCHANGED <<loaded, served>> PROVE Step
    BY <1>1
  <1>2. ASSUME UNCHANGED <<msgTx, tx, sending, toPeer, loaded, served>>,
               pc' # "sending" => pc # "sending", pc' # "defunct" => pc # "defunct"
        PROVE  Step
    BY <1>1, <1>2, OutsideSend
  <1>3. ASSUME NEW n \in Sizes, Load(n) PROVE Step
    <2> DEFINE p == Payload(Len(loaded) + 1, n)
    <2>1. OutInv' /\ loaded' = Append(loaded, p) /\ p \in Payloads /\ served' = served
      BY <1>3, LoadInOrder
    <2> HIDE DEF p
    <2>2. p \in Messages
      BY <2>1, PayloadsAreBytes
    <2> QED
      BY <2>1, <2>2 DEF Requests!Next, Requests!Put
  <1>4. ASSUME NEW n \in Sizes, NEW k \in 1 .. n - 1, LoadFails(n, k) PROVE Step
    BY <1>1, <1>4, LoadFailsInOrder
  <1>5. ASSUME Send PROVE Step
    BY <1>1, <1>5, SendInOrder
  <1>6. ASSUME NEW k, SendSome(k) PROVE Step
    BY <1>1, <1>6, SendSomeInOrder
  <1>7. ASSUME Break PROVE Step
    BY <1>1, <1>7, BreakInOrder
  <1>8. ASSUME Serve PROVE Step
    <2>1. OutInv' /\ loaded' = loaded /\ Len(served) < Len(loaded)
          /\ served' = Append(served, loaded[Len(served) + 1])
      BY <1>8, ServeInOrder
    <2> QED
      BY <2>1 DEF Requests!Next, Requests!Get
  <1>9. ASSUME NEW k, RecvSome(k) PROVE Step
    BY <1>2, <1>9 DEF RecvSome, histories
  <1>10. ASSUME TakeHeader \/ TakeChunk \/ TakeEnd PROVE Step
    BY <1>2, <1>10 DEF TakeHeader, TakeChunk, TakeEnd, Received, wire, histories
  <1>11. ASSUME Fetch PROVE Step
    BY <1>2, <1>11 DEF Fetch, wire, histories
  <1>12. ASSUME UNCHANGED vars PROVE Step
    BY <1>2, <1>12 DEF vars, buffers, wire, histories
  <1> SUFFICES Step
    OBVIOUS
  <1> HIDE DEF Step
  <1>13. CASE Progress
    <2>1. CASE \E k \in 1 .. sending.remaining : SendSome(k)
      BY <1>6, <2>1
    <2>2. CASE \E k \in 1 .. call.max : RecvSome(k)
      BY <1>9, <2>2
    <2> QED
      BY <1>10, <1>13, <2>1, <2>2 DEF Progress
  <1>14. CASE \E n \in Sizes : Load(n) \/ \E k \in 1 .. n - 1 : LoadFails(n, k)
    <2>1. PICK n \in Sizes : Load(n) \/ \E k \in 1 .. n - 1 : LoadFails(n, k)
      BY <1>14
    <2>2. CASE Load(n)
      BY <1>3, <2>2
    <2>3. CASE \E k \in 1 .. n - 1 : LoadFails(n, k)
      BY <1>4, <2>3
    <2> QED
      BY <2>1, <2>2, <2>3
  <1> QED
    BY <1>5, <1>7, <1>8, <1>11, <1>12, <1>13, <1>14 DEF Next

\* The invariant about requests holds of every behaviour.
THEOREM RequestsInvariant == Spec => []OutInv
  <1>1. MemoryInv /\ OutInv /\ [Next]_vars => OutInv'
    BY OutStep
  <1> QED
    BY <1>1, OutInit, MemoryInvariant, PTL DEF Spec

\* Messages reach the server as they were loaded, in order and each once,
\* nothing of one that was rolled back among them (load_message of v1.c,
\* BoltConnection_send), for every size of buffers, chunks and messages, every
\* piece in which they are sent and every point where the link breaks.
THEOREM RequestsArriveInOrder == Spec => RequestsInOrder
  <1>1. Init => Requests!Init
    BY DEF Init, Requests!Init
  <1>2. MemoryInv /\ OutInv /\ [Next]_vars => [Requests!Next]_<<loaded, served>>
    BY OutStep
  <1> QED
    BY <1>1, <1>2, MemoryInvariant, RequestsInvariant, PTL DEF Spec, RequestsInOrder, Requests!Spec

-----------------------------------------------------------------------------
(* Messages that are put together *)

\* In message m, of which part was put together: n bytes are left of the chunk
\* that is read, then there are more chunks, then the bytes after.
Inside(m, after, part, n, bytes) ==
    \E c, q, w \in Seq(Nat) :
        /\ w \in Cut[q]
        /\ m = part \o (c \o q) /\ Len(c) = n
        /\ bytes = c \o (w \o after)

\* Concatenation of what is in a buffer
LEMMA NumbersConcat ==
    /\ Seq(Nat) \subseteq Seq(Int)
    /\ \A x, y, z \in Seq(Int) : (x \o y) \o z = x \o (y \o z)
    /\ \A x, y \in Seq(Int) : x \o y \in Seq(Int)
    /\ \A x \in Seq(Int) : x \o <<>> = x /\ <<>> \o x = x
  <1>1. \A x, y, z \in Seq(Int) : (x \o y) \o z = x \o (y \o z)
    BY RegroupNumbers, Zenon DEF Associates
  <1>2. \A x, y \in Seq(Int) : x \o y \in Seq(Int)
    BY ConcatProperties
  <1>3. \A x \in Seq(Int) : x \o <<>> = x /\ <<>> \o x = x
    BY ConcatEmptySeq
  <1>4. Seq(Nat) \subseteq Seq(Int)
    BY SeqMonotonic
  <1> QED
    BY <1>1, <1>2, <1>3, <1>4

\* Concatenation of what is in a buffer and bytes
LEMMA RegroupBytes == \A x \in Seq(Int), y, z \in Seq(Nat) : (x \o y) \o z = x \o (y \o z)
  <1>1. \A y \in Seq(Nat) : y \in Seq(Int)
    BY NumbersConcat, Zenon
  <1>2. \A x, y, z \in Seq(Int) : (x \o y) \o z = x \o (y \o z)
    BY NumbersConcat, Zenon
  <1> QED
    BY <1>1, <1>2, Zenon

\* Concatenation of four
TailRegroups(c, w, a, b) == (c \o (w \o a)) \o b = c \o (w \o (a \o b))

\* What comes behind comes behind the last.
LEMMA RegroupTail ==
    ASSUME NEW c \in Seq(Nat), NEW w \in Seq(Nat), NEW a \in Seq(Nat), NEW b \in Seq(Nat)
    PROVE  TailRegroups(c, w, a, b)
  <1> DEFINE x == w \o a
  <1>1. x \in Seq(Nat)
    BY BytesConcat
  <1> HIDE DEF x
  <1>2. Associates(w, a, b) /\ Associates(c, x, b)
    BY <1>1, RegroupIs, Zenon
  <1>3. (w \o a) \o b = w \o (a \o b) /\ (c \o x) \o b = c \o (x \o b)
    BY ONLY <1>2, Zenon DEF Associates
  <1> QED
    BY ONLY <1>3, Zenon DEF x, TailRegroups

\* What is cut are bytes.
LEMMA CutBytes ==
    ASSUME NEW q \in Seq(Nat), NEW w \in Cut[q]
    PROVE  w \in Seq(Nat)
  BY CutIs

\* A stream that is not at its end begins with a message.
LEMMA StreamStarts ==
    ASSUME NEW messages \in Seq(Seq(Nat)), NEW f, Tails(f, messages),
           NEW k \in 0 .. Len(messages), f[k] # <<>>
    PROVE  /\ k < Len(messages) /\ k + 1 \in 1 .. Len(messages)
           /\ messages[k + 1] \in Seq(Nat) /\ f[k + 1] \in Seq(Nat)
           /\ Inside(messages[k + 1], f[k + 1], <<>>, 0, f[k])
  <1> DEFINE m == messages[k + 1]
             after == f[k + 1]
             s == f[k]
  <1>1. /\ k < Len(messages) /\ k + 1 \in 1 .. Len(messages)
        /\ m \in Seq(Nat) /\ after \in Seq(Nat)
        /\ \E w \in Cut[m] : s = w \o after
    BY TailsNext
  <1> HIDE DEF m, after, s
  <1>2. PICK w \in Cut[m] : s = w \o after
    BY <1>1
  <1>3. w \in Seq(Nat)
    BY <1>1, CutBytes
  <1>4. m = <<>> \o (<<>> \o m) /\ s = <<>> \o (w \o after) /\ Len(<<>>) = 0 /\ <<>> \in Seq(Nat)
    <2>1. w \o after \in Seq(Nat)
      BY <1>1, <1>3, BytesConcat
    <2>2. <<>> \o m = m
      BY <1>1, BytesConcat
    <2> QED
      BY <1>2, <2>1, <2>2, BytesConcat
  <1>5. Inside(m, after, <<>>, 0, s)
    BY <1>1, <1>3, <1>4, Zenon DEF Inside
  <1> QED
    BY <1>1, <1>5 DEF m, after, s

\* What is at the front of bytes is at the front of what they begin.
LEMMA HeaderOfFront ==
    ASSUME NEW a \in Seq(Nat), NEW b \in Seq(Nat), Len(a) >= 2
    PROVE  HeaderValue(a \o b) = HeaderValue(a)
  <1>1. /\ Len(a) \in Nat /\ Len(b) \in Nat
        /\ \A i \in 1 .. Len(a) + Len(b) : (a \o b)[i] = IF i <= Len(a) THEN a[i] ELSE b[i - Len(a)]
    BY ConcatProperties, LenProperties
  <1>2. 1 \in 1 .. Len(a) + Len(b) /\ 2 \in 1 .. Len(a) + Len(b) /\ 1 <= Len(a)
    BY <1>1
  <1>3. (a \o b)[1] = a[1] /\ (a \o b)[2] = a[2]
    BY <1>1, <1>2
  <1> QED
    BY <1>3 DEF HeaderValue

\* Behind a header comes the rest.
LEMMA BehindHeader ==
    ASSUME NEW n \in Nat, NEW rest \in Seq(Nat)
    PROVE  SubSeq(Header(n) \o rest, 3, Len(Header(n) \o rest)) = rest
  <1> DEFINE h == Header(n)
  <1>1. h \in Seq(Nat) /\ Len(h) = 2
    BY HeaderOK
  <1> HIDE DEF h
  <1>2. SubSeq(h \o rest, Len(h) + 1, Len(h \o rest)) = rest
    BY <1>1, PartsOfConcat
  <1>3. Len(h) + 1 = 3
    BY <1>1
  <1>4. SubSeq(h \o rest, 3, Len(h \o rest)) = rest
    BY <1>2, <1>3, Zenon
  <1> QED
    BY <1>4 DEF h

\* The bytes behind the first two
LEMMA BehindTwo ==
    ASSUME NEW a \in Seq(Nat), NEW b \in Seq(Nat), Len(a) >= 2
    PROVE  SubSeq(a \o b, 3, Len(a \o b)) = SubSeq(a, 3, Len(a)) \o b
  <1> DEFINE n == 2
  <1>1. n \in 0 .. Len(a) /\ n + 1 = 3
    BY LenProperties
  <1> HIDE DEF n
  <1>2. SubSeq(a \o b, n + 1, Len(a \o b)) = SubSeq(a, n + 1, Len(a)) \o b
    BY <1>1, CutOfConcat
  <1> QED
    BY <1>1, <1>2, Zenon

\* The end of a message; a chunk in front of a cut of the rest
ReadsEnd(q, w) == q = <<>> /\ w = Header(0)
ReadsChunk(q, w) ==
    \E n \in Nat \ {0} : \E chunk, more, rest \in Seq(Nat) :
        /\ rest \in Cut[more] /\ Len(chunk) = n /\ q = chunk \o more
        /\ w = Header(n) \o (chunk \o rest)

\* A cut of bytes is one of them.
LEMMA CutReads ==
    ASSUME NEW q \in Seq(Nat), NEW w \in Cut[q]
    PROVE  ReadsEnd(q, w) \/ ReadsChunk(q, w)
  <1>1. CASE q = <<>>
    <2>1. Cut[q] = {Header(0)}
      BY <1>1, CutMembers
    <2> QED
      BY <1>1, <2>1 DEF ReadsEnd
  <1>2. CASE q # <<>>
    <2>1. \A v : v \in Cut[q] <=>
                 \E n \in Cuts(q) : \E rest \in Cut[SubSeq(q, n + 1, Len(q))] :
                    v = Header(n) \o SubSeq(q, 1, n) \o rest
      BY <1>2, CutMembers
    <2>2. PICK n \in Cuts(q) : \E rest \in Cut[SubSeq(q, n + 1, Len(q))] :
                                  w = Header(n) \o SubSeq(q, 1, n) \o rest
      BY <2>1
    <2> DEFINE chunk == SubSeq(q, 1, n)
               more == SubSeq(q, n + 1, Len(q))
    <2>3. PICK rest \in Cut[more] : w = Header(n) \o chunk \o rest
      BY <2>2
    <2>4. n \in 1 .. Len(q) /\ n \in Nat \ {0} /\ n \in 0 .. Len(q)
      BY LenProperties DEF Cuts
    <2>5. chunk \in Seq(Nat) /\ Len(chunk) = n /\ more \in Seq(Nat) /\ chunk \o more = q
      BY <2>4, FrontIs, RestIs, SplitAt
    <2> HIDE DEF chunk, more
    <2>6. rest \in Seq(Nat)
      BY <2>5, CutIs
    <2>7. w = Header(n) \o (chunk \o rest)
      <3> DEFINE h == Header(n)
      <3>1. h \in Seq(Nat)
        BY <2>4, HeaderOK
      <3> HIDE DEF h
      <3>2. chunk \in Seq(Nat)
        BY <2>5
      <3>3. (h \o chunk) \o rest = h \o (chunk \o rest)
        BY <2>6, <3>1, <3>2, Regroup, Zenon
      <3> QED
        BY <2>3, <3>3 DEF h
    <2> QED
      BY <2>3, <2>4, <2>5, <2>6, <2>7 DEF ReadsChunk
  <1> QED
    BY <1>1, <1>2

\* Behind a chunk the next two bytes are a header: the one that ends the
\* message if it says 0, else one of a chunk of bytes of the message.
LEMMA HeaderInside ==
    ASSUME NEW m \in Seq(Nat), NEW after \in Seq(Nat), NEW part \in Seq(Int),
           NEW a \in Seq(Nat), NEW b \in Seq(Nat), Len(a) >= 2,
           Inside(m, after, part, 0, a \o b)
    PROVE  /\ HeaderValue(a) # 0 =>
                Inside(m, after, part, HeaderValue(a), SubSeq(a, 3, Len(a)) \o b)
           /\ HeaderValue(a) = 0 => part = m /\ SubSeq(a, 3, Len(a)) \o b = after
  <1> DEFINE z == HeaderValue(a)
             left == SubSeq(a, 3, Len(a)) \o b
             s == a \o b
  <1>1. PICK c \in Seq(Nat), q \in Seq(Nat), w \in Seq(Nat) :
             /\ w \in Cut[q]
             /\ m = part \o (c \o q) /\ Len(c) = 0 /\ s = c \o (w \o after)
    BY DEF Inside
  <1>3. w \o after \in Seq(Nat)
    BY BytesConcat
  <1>4. c = <<>>
    BY <1>1, EmptySeq
  <1>5. m = part \o q /\ s = w \o after
    <2>1. <<>> \o q = q /\ <<>> \o (w \o after) = w \o after
      BY <1>3, BytesConcat
    <2> QED
      BY <1>1, <1>4, <2>1
  <1>6. HeaderValue(s) = z
    BY HeaderOfFront
  <1>7. SubSeq(s, 3, Len(s)) = left
    BY BehindTwo
  <1> HIDE DEF z, left, s
  <1>8. ASSUME NEW h \in Nat, NEW rest \in Seq(Nat), s = Header(h) \o rest
        PROVE  z = h /\ left = rest
    <2>1. HeaderValue(Header(h) \o rest) = h
      BY HeaderSays
    <2>2. SubSeq(Header(h) \o rest, 3, Len(Header(h) \o rest)) = rest
      BY BehindHeader
    <2> QED
      BY <1>6, <1>7, <1>8, <2>1, <2>2, Zenon
  <1>9. CASE ReadsEnd(q, w)
    <2>0. q = <<>> /\ w = Header(0)
      BY <1>9 DEF ReadsEnd
    <2>1. z = 0 /\ left = after
      BY <1>5, <1>8, <2>0
    <2>2. part = m
      BY <1>5, <2>0, NumbersConcat
    <2> QED
      BY <2>1, <2>2 DEF z, left
  <1>10. CASE ReadsChunk(q, w)
    <2>1. PICK n \in Nat \ {0}, chunk \in Seq(Nat), more \in Seq(Nat), rest \in Seq(Nat) :
                /\ rest \in Cut[more] /\ Len(chunk) = n /\ q = chunk \o more
                /\ w = Header(n) \o (chunk \o rest)
      BY <1>10 DEF ReadsChunk
    <2>2. s = Header(n) \o (chunk \o (rest \o after)) /\ chunk \o (rest \o after) \in Seq(Nat)
      <3> DEFINE h == Header(n)
      <3>1. h \in Seq(Nat) /\ rest \o after \in Seq(Nat)
        BY HeaderOK, BytesConcat
      <3> HIDE DEF h
      <3>2. TailRegroups(h, chunk, rest, after)
        BY <3>1, RegroupTail
      <3>3. s = (h \o (chunk \o rest)) \o after
        BY <1>5, <2>1, Zenon DEF h
      <3>4. s = h \o (chunk \o (rest \o after))
        BY <3>2, <3>3, Zenon DEF TailRegroups
      <3>5. chunk \o (rest \o after) \in Seq(Nat)
        BY <3>1, BytesConcat
      <3> QED
        BY <3>4, <3>5, Zenon DEF h
    <2>3. z = n /\ left = chunk \o (rest \o after)
      BY <1>8, <2>2
    <2>4. Inside(m, after, part, n, left)
      BY <1>5, <2>1, <2>3 DEF Inside
    <2> QED
      BY <2>3, <2>4 DEF z, left
  <1> QED
    BY <1>1, <1>9, <1>10, CutReads

\* The bytes of a chunk are the next ones of the message.
LEMMA ChunkInside ==
    ASSUME NEW m \in Seq(Nat), NEW after \in Seq(Nat), NEW part \in Seq(Int), NEW n \in Nat,
           NEW a \in Seq(Nat), NEW b \in Seq(Nat), Len(a) >= n,
           Inside(m, after, part, n, a \o b)
    PROVE  Inside(m, after, part \o SubSeq(a, 1, n), 0, SubSeq(a, n + 1, Len(a)) \o b)
  <1>1. PICK c \in Seq(Nat), q \in Seq(Nat), w \in Seq(Nat) :
             /\ w \in Cut[q]
             /\ m = part \o (c \o q) /\ Len(c) = n
             /\ a \o b = c \o (w \o after)
    BY DEF Inside
  <1>3. w \o after \in Seq(Nat)
    BY BytesConcat
  <1>4. n \in 0 .. Len(a)
    BY LenProperties
  <1>5. /\ SubSeq(a \o b, 1, n) = SubSeq(a, 1, n)
        /\ SubSeq(a \o b, n + 1, Len(a \o b)) = SubSeq(a, n + 1, Len(a)) \o b
    BY <1>4, CutOfConcat
  <1> DEFINE r == w \o after
  <1>6. r \in Seq(Nat)
    BY <1>3
  <1> HIDE DEF r
  <1>7. SubSeq(c \o r, 1, Len(c)) = c /\ SubSeq(c \o r, Len(c) + 1, Len(c \o r)) = r
    BY <1>6, PartsOfConcat
  <1>8. SubSeq(a, 1, n) = c /\ SubSeq(a, n + 1, Len(a)) \o b = r
    BY <1>1, <1>5, <1>7 DEF r
  <1>9. m = (part \o c) \o (<<>> \o q)
    <2>2. (part \o c) \o q = part \o (c \o q)
      BY RegroupBytes, Zenon
    <2>3. <<>> \o q = q
      BY BytesConcat
    <2> QED
      BY <1>1, <2>2, <2>3
  <1>10. r = <<>> \o (w \o after) /\ <<>> \in Seq(Nat) /\ Len(<<>>) = 0
    <2>1. <<>> \o r = r /\ <<>> \in Seq(Nat)
      BY <1>6, BytesConcat
    <2> QED
      BY <2>1, EmptySeq DEF r
  <1>11. Inside(m, after, part \o c, 0, r)
    BY <1>1, <1>9, <1>10 DEF Inside
  <1> QED
    BY <1>8, <1>11

\* What comes behind does not change a message that is put together.
LEMMA GrowInside ==
    ASSUME NEW m \in Seq(Nat), NEW after \in Seq(Nat), NEW part \in Seq(Int), NEW n \in Nat,
           NEW s \in Seq(Nat), NEW b \in Seq(Nat), Inside(m, after, part, n, s)
    PROVE  Inside(m, after \o b, part, n, s \o b)
  <1>1. PICK c \in Seq(Nat), q \in Seq(Nat), w \in Seq(Nat) :
             /\ w \in Cut[q]
             /\ m = part \o (c \o q) /\ Len(c) = n
             /\ s = c \o (w \o after)
    BY DEF Inside
  <1>2. TailRegroups(c, w, after, b)
    BY RegroupTail
  <1>3. s \o b = c \o (w \o (after \o b))
    BY <1>1, <1>2, Zenon DEF TailRegroups
  <1> QED
    BY <1>1, <1>3 DEF Inside

-----------------------------------------------------------------------------
(* What is in the buffers of a fetch *)

\* What a concatenation is
Joined(x, y) ==
    /\ x \o y \in Seq(Int) /\ Len(x \o y) = Len(x) + Len(y)
    /\ \A i \in 1 .. Len(x) + Len(y) : (x \o y)[i] = IF i <= Len(x) THEN x[i] ELSE y[i - Len(x)]

\* The bytes of the one, then those of the other
LEMMA JoinIs ==
    ASSUME NEW x \in Seq(Int), NEW y \in Seq(Int)
    PROVE  Joined(x, y)
  BY ConcatProperties DEF Joined

\* In more, the piece comes behind the first m elements of data.
Behind(data, more, piece, m) ==
    /\ m <= Len(data) /\ m + Len(piece) <= Len(more)
    /\ \A i \in 1 .. m : more[i] = data[i]
    /\ \A i \in 1 .. Len(piece) : more[m + i] = piece[i]

\* From position c on, it comes behind what is up to m.
PieceFollows(data, more, piece, c, m) ==
    SubSeq(more, c + 1, m + Len(piece)) = SubSeq(data, c + 1, m) \o piece

\* A piece that is written behind position m is behind what was up to there.
LEMMA PieceBehind ==
    ASSUME NEW data \in Seq(Int), NEW more \in Seq(Int), NEW piece \in Seq(Int),
           NEW c \in Nat, NEW m \in Nat, c <= m, Behind(data, more, piece, m)
    PROVE  PieceFollows(data, more, piece, c, m)
  <1>0. /\ m <= Len(data) /\ m + Len(piece) <= Len(more)
        /\ \A i \in 1 .. m : more[i] = data[i]
        /\ \A i \in 1 .. Len(piece) : more[m + i] = piece[i]
    BY DEF Behind
  <1> DEFINE p == Len(piece)
             front == SubSeq(data, c + 1, m)
             all == SubSeq(more, c + 1, m + p)
             l == m - c
  <1>1. /\ p \in Nat /\ Len(data) \in Nat /\ Len(more) \in Nat /\ l \in Nat
        /\ \A i \in 1 .. Len(data) : data[i] \in Int
        /\ \A i \in 1 .. Len(more) : more[i] \in Int
    BY LenProperties
  <1>2. /\ front \in Seq(Int) /\ Len(front) = l
        /\ \A i \in 1 .. l : front[i] = data[c + i]
    <2>1. \A i \in c + 1 .. m : data[i] \in Int
      BY <1>0, <1>1
    <2>2. /\ front \in Seq(Int) /\ Len(front) = IF c + 1 <= m THEN m - (c + 1) + 1 ELSE 0
          /\ \A i \in 1 .. m - (c + 1) + 1 : front[i] = data[(c + 1) + i - 1]
      BY <2>1, SubSeqProperties
    <2> QED
      BY <1>1, <2>2
  <1>3. /\ all \in Seq(Int) /\ Len(all) = l + p
        /\ \A i \in 1 .. l + p : all[i] = more[c + i]
    <2>1. \A i \in c + 1 .. m + p : more[i] \in Int
      BY <1>0, <1>1
    <2>2. /\ all \in Seq(Int) /\ Len(all) = IF c + 1 <= m + p THEN (m + p) - (c + 1) + 1 ELSE 0
          /\ \A i \in 1 .. (m + p) - (c + 1) + 1 : all[i] = more[(c + 1) + i - 1]
      BY <1>1, <2>1, SubSeqProperties
    <2> HIDE DEF all, p
    <2> QED
      BY <1>1, <2>2
  <1> HIDE DEF front, all, p
  <1>4. /\ front \o piece \in Seq(Int) /\ Len(front \o piece) = l + p
        /\ \A i \in 1 .. l + p : (front \o piece)[i] = IF i <= l THEN front[i] ELSE piece[i - l]
    <2>1. /\ front \o piece \in Seq(Int) /\ Len(front \o piece) = Len(front) + Len(piece)
          /\ \A i \in 1 .. Len(front) + Len(piece) :
                (front \o piece)[i] = IF i <= Len(front) THEN front[i] ELSE piece[i - Len(front)]
      <3>1. front \in Seq(Int)
        BY <1>2
      <3>2. Joined(front, piece)
        BY <3>1, JoinIs
      <3> QED
        BY <3>2, Zenon DEF Joined
    <2> QED
      BY <1>2, <2>1, Zenon DEF p
  <1> DEFINE both == front \o piece
  <1> HIDE DEF both
  <1>5. ASSUME NEW i \in 1 .. l + p PROVE all[i] = both[i]
    <2>1. CASE i <= l
      <3>1. both[i] = data[c + i]
        BY <1>1, <1>2, <1>4, <2>1 DEF both
      <3>2. c + i \in 1 .. m
        BY <1>1, <2>1
      <3> QED
        BY <1>0, <1>3, <3>1, <3>2
    <2>2. CASE i > l
      <3>1. both[i] = piece[i - l]
        BY <1>1, <1>4, <2>2 DEF both
      <3>2. i - l \in 1 .. p /\ m + (i - l) = c + i
        BY <1>1, <2>2
      <3>3. more[m + (i - l)] = piece[i - l]
        BY <1>0, <3>2 DEF p
      <3> QED
        BY <1>3, <3>1, <3>2, <3>3
    <2> QED
      BY <1>1, <2>1, <2>2
  <1>6. all = both
    BY <1>3, <1>4, <1>5, SeqEqual DEF both
  <1> QED
    BY <1>6 DEF all, both, front, p, PieceFollows

\* The rest of the rest of a sequence
LEMMA RestOfRest ==
    ASSUME NEW S, NEW s \in Seq(S), NEW c \in 0 .. Len(s), NEW n \in 0 .. Len(s) - c
    PROVE  LET r == SubSeq(s, c + 1, Len(s))
           IN  SubSeq(r, n + 1, Len(r)) = SubSeq(s, c + n + 1, Len(s))
  <1> DEFINE r == SubSeq(s, c + 1, Len(s))
             l == Len(s)
             t == c + n
  <1>1. l \in Nat /\ t \in 0 .. l
    BY LenProperties
  <1>2. r \in Seq(S) /\ Len(r) = l - c /\ \A i \in 1 .. l - c : r[i] = s[c + i]
    BY RestIs
  <1> HIDE DEF r
  <1> DEFINE x == SubSeq(r, n + 1, Len(r))
             y == SubSeq(s, t + 1, l)
  <1>3. /\ x \in Seq(S) /\ Len(x) = Len(r) - n
        /\ \A i \in 1 .. Len(r) - n : x[i] = r[n + i]
    <2>1. n \in 0 .. Len(r)
      BY <1>2
    <2> QED
      BY <1>2, <2>1, RestIs
  <1> HIDE DEF t
  <1>4. /\ y \in Seq(S) /\ Len(y) = l - t
        /\ \A i \in 1 .. l - t : y[i] = s[t + i]
    BY <1>1, RestIs
  <1> HIDE DEF x, y
  <1>5. Len(x) = l - t /\ l - t \in Nat
    BY <1>1, <1>2, <1>3 DEF t
  <1>6. ASSUME NEW i \in 1 .. l - t PROVE x[i] = y[i]
    <2>1. i \in 1 .. Len(r) - n /\ n + i \in 1 .. l - c /\ c + (n + i) = t + i
      BY <1>1, <1>2 DEF t
    <2>2. x[i] = r[n + i] /\ r[n + i] = s[c + (n + i)] /\ y[i] = s[t + i]
      BY <1>2, <1>3, <1>4, <2>1
    <2> QED
      BY <2>1, <2>2
  <1>7. x = y
    BY <1>3, <1>4, <1>5, <1>6, SeqEqual
  <1> QED
    BY <1>7 DEF x, y, r, t

\* What BoltBuffer_unload takes are the first bytes of what is left.
LEMMA AheadIsFront ==
    ASSUME NEW S, NEW b, IsBuffer(b, S), NEW n \in 0 .. Unloadable(b)
    PROVE  Ahead(b, n) = SubSeq(Contents(b), 1, n)
  <1> DEFINE a == Ahead(b, n)
             c == Contents(b)
             u == Unloadable(b)
             y == SubSeq(c, 1, n)
  <1>1. u \in Nat /\ u \in 0 .. u
    BY BufferIs
  <1>2. a \in Seq(S) /\ Len(a) = n /\ \A i \in 1 .. n : a[i] = b.data[b.cursor + i]
    BY AheadOK
  <1>3. c \in Seq(S) /\ Len(c) = u /\ \A i \in 1 .. u : c[i] = b.data[b.cursor + i]
    BY <1>1, AheadOK DEF Contents
  <1> HIDE DEF a, c
  <1>4. y \in Seq(S) /\ Len(y) = n /\ \A i \in 1 .. n : y[i] = c[i]
    BY <1>3, FrontIs
  <1> HIDE DEF y
  <1>5. \A i \in 1 .. n : a[i] = y[i]
    <2> TAKE i \in 1 .. n
    <2>1. i \in 1 .. u
      BY <1>1
    <2> QED
      BY <1>2, <1>3, <1>4, <2>1
  <1>6. a = y
    BY <1>2, <1>4, <1>5, SeqEqual
  <1> QED
    BY <1>6 DEF a, y, c

\* BoltBuffer_unload leaves the rest, moved or not.
LEMMA UnloadContents ==
    ASSUME NEW S, NEW b, IsBuffer(b, S), NEW n \in 0 .. Unloadable(b)
    PROVE  Contents(Unload(b, n)) = SubSeq(Contents(b), n + 1, Len(Contents(b)))
  <1> DEFINE a == Advance(b, n)
             s == b.data
             c == b.cursor
  <1>1. IsBuffer(a, S) /\ a.data = s /\ a.cursor = c + n
    BY AdvanceOK
  <1>2. s \in Seq(S) /\ c \in 0 .. Len(s) /\ n \in 0 .. Len(s) - c /\ Contents(b) = SubSeq(s, c + 1, Len(s))
    BY BufferIs, ContentsAre
  <1> HIDE DEF a
  <1>3. Contents(a) = SubSeq(s, c + n + 1, Len(s))
    BY <1>1, ContentsAre
  <1>4. Contents(Unload(b, n)) = Contents(a)
    BY <1>1, CompactContents DEF Unload, a
  <1> HIDE DEF s, c
  <1>5. LET r == SubSeq(s, c + 1, Len(s)) IN SubSeq(r, n + 1, Len(r)) = SubSeq(s, c + n + 1, Len(s))
    BY <1>2, RestOfRest
  <1> QED
    BY <1>2, <1>3, <1>4, <1>5

\* The space that BoltBuffer_load_pointer reserves is behind what is left.
LEMMA ReserveContents ==
    ASSUME NEW b, IsBuffer(b, Int), NEW n \in Nat
    PROVE  SubSeq(LoadPointer(b, n).data, b.cursor + 1, Extent(b)) = Contents(b)
  <1> DEFINE r == LoadPointer(b, n)
             e == Extent(b)
             more == r.data
  <1>1. /\ IsBuffer(r, Int) /\ Extent(r) = e + n
        /\ \A i \in 1 .. e : more[i] = b.data[i]
    BY LoadPointerOK
  <1> HIDE DEF r
  <1>2. /\ more \in Seq(Int) /\ Len(more) = e + n
        /\ b.data \in Seq(Int) /\ Len(b.data) = e /\ e \in Nat
        /\ b.cursor \in Nat /\ b.cursor <= e
    BY <1>1, BufferIs
  <1>3. Contents(b) = SubSeq(b.data, b.cursor + 1, Len(b.data)) /\ Contents(b) \in Seq(Int)
    BY ContentsAre
  <1>4. <<>> \in Seq(Int) /\ Len(<<>>) = 0 /\ e + Len(<<>>) = e /\ \A i \in 1 .. Len(<<>>) : FALSE
    BY <1>2, EmptySeq
  <1> HIDE DEF more, e
  <1>5. SubSeq(more, b.cursor + 1, e + Len(<<>>)) = SubSeq(b.data, b.cursor + 1, e) \o <<>>
    <2> DEFINE none == <<>>
    <2>1. none \in Seq(Int) /\ Len(none) = 0 /\ \A i \in 1 .. Len(none) : FALSE
      BY <1>4
    <2> HIDE DEF none
    <2>2. e <= Len(b.data) /\ e + Len(none) <= Len(more)
      BY <1>2, <2>1
    <2> DEFINE d == b.data
               c == b.cursor
    <2>3. /\ d \in Seq(Int) /\ c \in Nat /\ c <= e /\ e <= Len(d) /\ e + Len(none) <= Len(more)
          /\ \A i \in 1 .. e : more[i] = d[i]
      BY <1>1, <1>2, <2>2 DEF more
    <2>4. \A i \in 1 .. Len(none) : more[e + i] = none[i]
      BY <2>1
    <2> HIDE DEF d, c
    <2>5. Behind(d, more, none, e)
      BY <2>3, <2>4 DEF Behind
    <2>6. SubSeq(more, c + 1, e + Len(none)) = SubSeq(d, c + 1, e) \o none
      <3>1. /\ d \in Seq(Int) /\ more \in Seq(Int) /\ none \in Seq(Int)
            /\ c \in Nat /\ e \in Nat /\ c <= e
        BY <1>2, <2>1, <2>3
      <3>2. PieceFollows(d, more, none, c, e)
        BY ONLY <2>5, <3>1, PieceBehind
      <3> QED
        BY ONLY <3>2, Zenon DEF PieceFollows
    <2> QED
      BY <2>6 DEF none, d, c
  <1>6. SubSeq(b.data, b.cursor + 1, e) \o <<>> = Contents(b)
    BY <1>2, <1>3, NumbersConcat
  <1> QED
    BY <1>4, <1>5, <1>6 DEF more, r, e

-----------------------------------------------------------------------------
(* Answers: the inductive invariant *)

\* What arrived in rx_buffer and was not unloaded, without what is reserved.
Arrivals == SubSeq(rx.data, rx.cursor + 1, Extent(rx) - call.max + call.total)

\* Bytes that are left of the chunk that is read; the space reserved for them.
Due == IF pc = "chunk" THEN call.size ELSE 0

\* The part of the message that was put together.
Together == SubSeq(msgRx.data, msgRx.cursor + 1, Extent(msgRx) - Due)

\* The k-th message was read and what comes after it is all that is on its way.
Between(f, k, bytes) == f[k] = bytes

\* The message after the k-th is read.
Amid(f, messages, k, part, n, bytes) ==
    /\ k < Len(messages)
    /\ Inside(messages[k + 1], f[k + 1], part, n, bytes)

\* What is in rx_buffer and what is on its way behind it are the answers that
\* were not fetched, or what is left of them in the middle of a message.
FromServer(f) ==
    /\ Tails(f, answered)
    /\ pc \in {"idle", "sending", "header"} =>
           Unloadable(msgRx) = 0 /\ Between(f, Len(fetched), Arrivals \o toClient)
    /\ pc \in {"chunk", "next header"} =>
           Amid(f, answered, Len(fetched), Together, Due, Arrivals \o toClient)

AnswersKept ==
    /\ bad = {}
    /\ answered \in Seq(Payloads)
    /\ fetched \in Seq(Payloads) /\ Len(fetched) <= Len(answered)

InInv == AnswersKept /\ \E f : FromServer(f)

-----------------------------------------------------------------------------
(* Answers: lemmas *)

\* What arrived are bytes.
LEMMA ArrivalsAre ==
    ASSUME MemoryInv
    PROVE  /\ Arrivals \in Seq(Nat) /\ toClient \in Seq(Nat)
           /\ Arrivals \o toClient \in Seq(Nat)
           /\ call.delta = 0 => Arrivals = Contents(rx)
  <1> DEFINE s == rx.data
             c == rx.cursor
             e == Extent(rx) - call.max + call.total
  <1>1. IsBuffer(rx, Int) /\ toClient \in Seq(Nat)
    BY DEF MemoryInv, Typed
  <1>2. /\ s \in Seq(Int) /\ c \in Nat /\ Extent(rx) \in Nat /\ Extent(rx) = Len(s)
        /\ Unloadable(rx) = Extent(rx) - c
    BY <1>1, BufferIs
  <1>3. /\ call.max \in Nat /\ call.total \in Nat /\ call.delta \in Nat
        /\ call.max <= Unloadable(rx)
        /\ call.delta = 0 => call.max = 0 /\ call.total = 0
    BY CallIs DEF MemoryInv, Reserved
  <1>4. e \in Int /\ \A i \in 1 .. e : s[i] \in Nat
    BY <1>2, <1>3 DEF MemoryInv, Defined
  <1> HIDE DEF s, c, e
  <1>5. \A i \in c + 1 .. e : s[i] \in Nat
    BY <1>2, <1>4
  <1>6. SubSeq(s, c + 1, e) \in Seq(Nat)
    BY <1>2, <1>4, <1>5, SubSeqProperties
  <1>7. Arrivals \in Seq(Nat)
    BY <1>6 DEF Arrivals, s, c, e
  <1>8. ASSUME call.delta = 0 PROVE Arrivals = Contents(rx)
    <2>1. e = Len(s)
      BY <1>2, <1>3, <1>8 DEF e
    <2>2. Contents(rx) = SubSeq(s, c + 1, Len(s))
      BY <1>1, ContentsAre DEF s, c
    <2>3. Arrivals = SubSeq(s, c + 1, e)
      BY DEF Arrivals, s, c, e
    <2> QED
      BY <2>1, <2>2, <2>3
  <1> QED
    BY <1>1, <1>7, <1>8, BytesConcat

\* Between two chunks all that is in the message buffer was put together.
LEMMA TogetherIs ==
    ASSUME MemoryInv
    PROVE  /\ Due \in Nat /\ Together \in Seq(Int)
           /\ pc # "chunk" => Due = 0 /\ Together = Contents(msgRx)
  <1> DEFINE s == msgRx.data
             c == msgRx.cursor
  <1>1. IsBuffer(msgRx, Int) /\ call.size \in Nat
    BY CallIs DEF MemoryInv, Typed
  <1>2. /\ s \in Seq(Int) /\ c \in Nat /\ Extent(msgRx) \in Nat /\ Extent(msgRx) = Len(s)
    BY <1>1, BufferIs
  <1>3. Due \in Nat /\ (pc # "chunk" => Due = 0)
    BY <1>1 DEF Due
  <1> DEFINE e == Extent(msgRx) - Due
  <1>4. e \in Int /\ e <= Len(s) /\ \A i \in 1 .. Len(s) : s[i] \in Int
    BY <1>2, <1>3, LenProperties
  <1>5. Together = SubSeq(s, c + 1, e)
    BY DEF Together
  <1>6. pc # "chunk" => Contents(msgRx) = SubSeq(s, c + 1, Len(s)) /\ e = Len(s)
    BY <1>1, <1>2, <1>3, ContentsAre
  <1> HIDE DEF s, c, e
  <1>7. \A i \in c + 1 .. e : s[i] \in Int
    BY <1>2, <1>4
  <1>8. SubSeq(s, c + 1, e) \in Seq(Int)
    BY <1>2, <1>4, <1>7, SubSeqProperties
  <1> QED
    BY <1>3, <1>5, <1>6, <1>8

\* BoltConnection_receive begins with what is left of the buffer.
LEMMA ReceiveContents ==
    ASSUME NEW b, IsBuffer(b, Nat), NEW n \in Nat, Receive(b, n)
    PROVE  Arrivals' = Contents(b)
  <1> DEFINE arrivals == SubSeq(rx'.data, rx'.cursor + 1, Extent(rx') - call'.max + call'.total)
  <1>0. Arrivals' = arrivals
    BY DEF Arrivals, Extent
  <1>1. Unloadable(b) \in Nat
    BY BufferIs
  <1>2. CASE Missing(b, n) > 0
    <2> DEFINE r == MakeRoom(b)
               max == MaxSize(r, n)
    <2>1. IsBuffer(r, Nat) /\ Unloadable(r) = Unloadable(b) /\ Contents(r) = Contents(b)
      BY CompactOK, CompactContents DEF MakeRoom
    <2>2. rx' = LoadPointer(r, max) /\ call'.max = max /\ call'.total = 0
      BY <1>2 DEF Receive
    <2>3. max \in Nat
      <3>1. Missing(r, n) \in Nat
        BY <1>1, <1>2, <2>1 DEF Missing
      <3>2. Loadable(r) \in Nat
        BY <2>1, BufferIs
      <3> HIDE DEF r
      <3> DEFINE x == Missing(r, n)
                 y == Loadable(r)
      <3> HIDE DEF x, y
      <3>5. x \in Int /\ y \in Int
        BY <3>1, <3>2 DEF x, y
      <3>3. Max({x, y}) \in {x, y}
        BY <3>5, MaxOK
      <3>4. max = Max({x, y})
        BY DEF MaxSize, max, x, y
      <3> HIDE DEF max
      <3> QED
        BY <3>1, <3>2, <3>3, <3>4 DEF x, y
    <2> HIDE DEF r, max
    <2>4. IsBuffer(r, Int)
      BY <2>1, Weaken
    <2>5. Extent(rx') = Extent(r) + max /\ rx'.cursor = r.cursor /\ Extent(r) \in Nat
      BY <2>2, <2>3, <2>4, LoadPointerOK, BufferIs
    <2>6. Extent(rx') - call'.max + call'.total = Extent(r)
      BY <2>2, <2>3, <2>5
    <2>7. SubSeq(LoadPointer(r, max).data, r.cursor + 1, Extent(r)) = Contents(r)
      BY <2>3, <2>4, ReserveContents
    <2>8. arrivals = Contents(r)
      BY <2>2, <2>5, <2>6, <2>7
    <2> QED
      BY <1>0, <2>1, <2>8
  <1>3. CASE ~(Missing(b, n) > 0)
    <2>1. rx' = b /\ call'.max = 0 /\ call'.total = 0
      BY <1>3 DEF Receive
    <2>2. Extent(b) \in Nat /\ Extent(b) = Len(b.data)
      BY BufferIs
    <2>3. Extent(rx') - call'.max + call'.total = Len(b.data)
      BY <2>1, <2>2
    <2>4. arrivals = SubSeq(b.data, b.cursor + 1, Len(b.data))
      BY <2>1, <2>3
    <2> QED
      BY <1>0, <2>4, ContentsAre
  <1> QED
    BY <1>2, <1>3

\* The message buffer makes room for a chunk behind what was put together.
LEMMA MakesRoom ==
    ASSUME NEW b, IsBuffer(b, Int), NEW n \in Nat
    PROVE  LET r == LoadPointer(b, n)
           IN  SubSeq(r.data, r.cursor + 1, Extent(r) - n) = Contents(b)
  <1> DEFINE r == LoadPointer(b, n)
  <1>1. Extent(r) = Extent(b) + n /\ r.cursor = b.cursor /\ Extent(b) \in Nat
    BY LoadPointerOK, BufferIs
  <1>2. Extent(r) - n = Extent(b)
    BY <1>1
  <1>3. SubSeq(r.data, b.cursor + 1, Extent(b)) = Contents(b)
    BY ReserveContents
  <1> HIDE DEF r
  <1> QED
    BY <1>1, <1>2, <1>3 DEF r

\* A chunk fills the room that was made for it.
LEMMA FillsRoom ==
    ASSUME NEW b, IsBuffer(b, Int), NEW bytes \in Seq(Int), Len(bytes) <= Unloadable(b)
    PROVE  Contents(Store(b, Extent(b) - Len(bytes), bytes))
              = SubSeq(b.data, b.cursor + 1, Extent(b) - Len(bytes)) \o bytes
  <1> DEFINE n == Len(bytes)
             m == Extent(b) - n
             r == Store(b, m, bytes)
             more == r.data
             d == b.data
             c == b.cursor
  <1>1. /\ d \in Seq(Int) /\ c \in Nat /\ Extent(b) \in Nat /\ Extent(b) = Len(d)
        /\ Unloadable(b) = Extent(b) - c /\ n \in Nat
    BY BufferIs, LenProperties
  <1>2. m \in Nat /\ c <= m /\ m <= Len(d) /\ m + n = Len(d)
    BY <1>1
  <1> HIDE DEF m
  <1>3. /\ IsBuffer(r, Int) /\ Extent(r) = Extent(b) /\ r.cursor = c
        /\ \A i \in 1 .. Extent(b) :
              more[i] = IF i \in m + 1 .. m + n THEN bytes[i - m] ELSE d[i]
    BY <1>1, <1>2, StoreOK
  <1> HIDE DEF r
  <1>4. more \in Seq(Int) /\ Len(more) = Len(d)
    BY <1>1, <1>3, BufferIs
  <1> HIDE DEF more, d, c
  <1>5. \A i \in 1 .. m : more[i] = d[i]
    <2> TAKE i \in 1 .. m
    <2>1. i \in 1 .. Extent(b) /\ i \notin m + 1 .. m + n
      BY <1>1, <1>2
    <2> QED
      BY <1>3, <2>1
  <1>6. \A i \in 1 .. Len(bytes) : more[m + i] = bytes[i]
    <2> TAKE i \in 1 .. Len(bytes)
    <2>1. m + i \in 1 .. Extent(b) /\ m + i \in m + 1 .. m + n /\ (m + i) - m = i
      BY <1>1, <1>2
    <2> QED
      BY <1>3, <2>1
  <1>7. SubSeq(more, c + 1, m + Len(bytes)) = SubSeq(d, c + 1, m) \o bytes
    <2>1. /\ d \in Seq(Int) /\ more \in Seq(Int) /\ c \in Nat /\ m \in Nat
          /\ c <= m /\ m <= Len(d) /\ m + Len(bytes) <= Len(more)
      BY <1>1, <1>2, <1>4 DEF d, c
    <2>2. Behind(d, more, bytes, m)
      BY <1>5, <1>6, <2>1 DEF Behind
    <2>3. PieceFollows(d, more, bytes, c, m)
      BY <2>1, <2>2, PieceBehind
    <2> QED
      BY <2>3 DEF PieceFollows
  <1>8. Contents(r) = SubSeq(more, c + 1, m + Len(bytes))
    BY <1>2, <1>3, <1>4, ContentsAre DEF more
  <1> QED
    BY <1>7, <1>8 DEF r, m, d, c

\* What a fetch makes of a message that can be decoded
Found(p) == [item |-> p, reads |-> {Len(p)}]

\* A number from its quotient and its remainder
LEMMA DivMod ==
    ASSUME NEW z \in Nat, NEW S \in Nat \ {0, 1}
    PROVE  /\ (z \div S) * S + (z % S) = z
           /\ z \div S \in Int
           /\ z % S \in 0 .. S - 1
  <1>1. (z \div S) * S + (z % S) = z
    OBVIOUS
  <1>2. z \div S \in Int
    OBVIOUS
  <1>3. z % S \in 0 .. S - 1
    OBVIOUS
  <1> QED
    BY <1>1, <1>2, <1>3

\* One more than a multiple leaves one.
LEMMA Remainder ==
    ASSUME NEW i \in Nat, NEW S \in Nat \ {0, 1}
    PROVE  (i * S + 1) % S = 1
  <1> DEFINE z == i * S + 1
             q == z \div S
             r == z % S
             d == i - q
             t == i * S
             u == q * S
  <1>1. t \in Nat /\ z \in Nat /\ z = t + 1
    OBVIOUS
  <1> HIDE DEF z
  <1>2. u + r = z /\ q \in Int /\ r \in 0 .. S - 1
    BY <1>1, DivMod
  <1> HIDE DEF q, r
  <1>3. u \in Int /\ t - u = d * S /\ d \in Int
    BY <1>2
  <1> HIDE DEF d, t, u
  <1>4. d * S = r - 1 /\ r \in Int
    BY <1>1, <1>2, <1>3
  <1>5. d = 0
    <2>1. ASSUME d >= 1 PROVE FALSE
      <3>1. d * S >= S
        BY <1>3, <2>1
      <3> QED
        BY <1>2, <1>4, <3>1
    <2>2. ASSUME d <= -1 PROVE FALSE
      <3>1. d * S <= -S
        BY <1>3, <2>2
      <3> QED
        BY <1>2, <1>4, <3>1
    <2> QED
      BY <1>3, <2>1, <2>2
  <1>6. r = 1
    <2>1. d * S = 0
      BY <1>5
    <2> QED
      BY <1>4, <2>1
  <1> QED
    BY <1>6 DEF r, z
\* The payload of a message begins with a marker, so that all of it is read.
LEMMA PayloadReads ==
    ASSUME NEW p \in Payloads, bad = {}
    PROVE  Unloaded(p) = Found(p)
  <1>1. PICK i \in 1 .. MaxMessages, n \in Sizes : p = Payload(i, n)
    BY DEF Payloads
  <1>2. n \in Nat /\ n >= 1 /\ i \in Nat
    BY SizesAssumption
  <1>3. Stride \in Nat /\ Stride >= 2
    <2>1. \E x \in Sizes : \A y \in Sizes : x >= y
      BY SizesAssumption
    <2>2. Max(Sizes) \in Sizes
      BY <2>1 DEF Max
    <2> DEFINE largest == Max(Sizes)
    <2> HIDE DEF largest
    <2>3. largest \in Nat \ {0}
      BY <2>2, SizesAssumption DEF largest
    <2>4. Stride = largest + 1
      BY DEF Stride, largest
    <2> QED
      BY <2>3, <2>4
  <1> DEFINE S == Stride
             x == i * S
             byte == p[1]
  <1>4. x \in Nat
    BY <1>2, <1>3
  <1>5. byte = Base + x + 1
    <2>1. p = [k \in 1 .. n |-> Base + i * Stride + k]
      BY <1>1 DEF Payload
    <2>2. 1 \in 1 .. n
      BY <1>2
    <2> QED
      BY <2>1, <2>2
  <1>6. (x + 1) % S = 1
    <2>1. S \in Nat \ {0, 1}
      BY <1>3
    <2> HIDE DEF S
    <2> QED
      BY <1>2, <2>1, Remainder
  <1> HIDE DEF x, S
  <1>7. byte >= Base /\ byte - Base = x + 1
    BY <1>4, <1>5, BaseAssumption
  <1>8. IsMarker(byte)
    BY <1>6, <1>7 DEF IsMarker, S
  <1> HIDE DEF byte
  <1>9. MessageOf(byte) \notin bad
    OBVIOUS
  <1> QED
    BY <1>8, <1>9 DEF Unloaded, Found, byte

\* The two bytes of a header, in the buffer and in what is left of it
LEMMA HeaderAhead ==
    ASSUME NEW b, IsBuffer(b, Nat), Unloadable(b) >= 2
    PROVE  /\ HeaderValue(Ahead(b, 2)) = HeaderValue(Contents(b))
           /\ Contents(b) \in Seq(Nat) /\ Len(Contents(b)) >= 2
           /\ HeaderValue(Contents(b)) \in Nat
           /\ Contents(Unload(b, 2)) = SubSeq(Contents(b), 3, Len(Contents(b)))
           /\ IsBuffer(Unload(b, 2), Nat)
  <1> DEFINE u == Unloadable(b)
             two == 2
             a == Ahead(b, two)
             c == Contents(b)
  <1>1. u \in Nat /\ u \in 0 .. u /\ two \in 0 .. u /\ two + 1 = 3
    BY BufferIs
  <1>2. /\ c \in Seq(Nat) /\ Len(c) = u /\ \A i \in 1 .. u : c[i] = b.data[b.cursor + i]
    <2>1. c = Ahead(b, Unloadable(b))
      BY DEF Contents
    <2>2. IsBuffer(b, Nat) /\ Unloadable(b) \in 0 .. Unloadable(b)
      BY <1>1
    <2> HIDE DEF a, c, two, u
    <2>3. /\ Ahead(b, Unloadable(b)) \in Seq(Nat) /\ Len(Ahead(b, Unloadable(b))) = Unloadable(b)
          /\ \A i \in 1 .. Unloadable(b) : Ahead(b, Unloadable(b))[i] = b.data[b.cursor + i]
      BY ONLY <2>2, AheadOK
    <2> QED
      BY <2>1, <2>3 DEF u
  <1> HIDE DEF two
  <1>3. \A i \in 1 .. two : a[i] = b.data[b.cursor + i]
    <2>1. IsBuffer(b, Nat) /\ two \in 0 .. Unloadable(b)
      BY <1>1
    <2> QED
      BY ONLY <2>1, AheadOK
  <1>4. Contents(Unload(b, two)) = SubSeq(c, two + 1, Len(c)) /\ IsBuffer(Unload(b, two), Nat)
    BY <1>1, UnloadContents, UnloadOK
  <1> HIDE DEF a, c
  <1>5. a[1] = c[1] /\ a[2] = c[2]
    <2>1. 1 \in 1 .. two /\ 2 \in 1 .. two /\ 1 \in 1 .. u /\ 2 \in 1 .. u
      BY <1>1 DEF two
    <2> QED
      BY <1>2, <1>3, <2>1
  <1>6. HeaderValue(a) = HeaderValue(c)
    BY <1>5 DEF HeaderValue
  <1>7. Len(c) >= 2 /\ HeaderValue(c) \in Nat
    BY <1>2, HeaderValueOK
  <1>8. Contents(Unload(b, two)) = SubSeq(c, 3, Len(c))
    BY <1>1, <1>4, Zenon
  <1> QED
    BY <1>2, <1>4, <1>6, <1>7, <1>8 DEF a, c, two

\* A message of the stream, and what comes after it
LEMMA StreamIs ==
    ASSUME NEW messages \in Seq(Payloads), NEW f, Tails(f, messages), NEW k \in Nat, k < Len(messages)
    PROVE  /\ messages[k + 1] \in Payloads /\ messages[k + 1] \in Seq(Nat)
           /\ f[k + 1] \in Seq(Nat) /\ k + 1 \in 1 .. Len(messages)
  <1>1. Len(messages) \in Nat /\ k + 1 \in 1 .. Len(messages) /\ k + 1 \in 0 .. Len(messages)
    BY LenProperties
  <1>2. messages[k + 1] \in Payloads
    BY <1>1, ElementOfSeq
  <1>3. f[k + 1] \in Seq(Nat)
    BY <1>1 DEF Tails
  <1> QED
    BY <1>1, <1>2, <1>3, PayloadsAreBytes

\* At the start nothing was answered.
LEMMA InInit == Init => InInv
  <1> SUFFICES ASSUME Init PROVE InInv
    OBVIOUS
  <1>1. /\ answered = <<>> /\ fetched = <<>> /\ toClient = <<>> /\ pc = "idle" /\ bad = {}
        /\ call = NoCall
        /\ msgRx = BoltBuffer_create(InitialSize) /\ rx = BoltBuffer_create(InitialSize)
    BY DEF Init
  <1>2. Unloadable(msgRx) = 0 /\ Unloadable(rx) = 0 /\ IsBuffer(rx, Nat)
    BY <1>1, CreatedOK, SizesAssumption
  <1>3. Arrivals = <<>>
    <2>1. call.delta = 0
      BY <1>1 DEF NoCall
    <2>2. Arrivals = Contents(rx)
      BY <2>1, ArrivalsAre, MemoryInit
    <2> QED
      BY <1>2, <2>2, ContentsAre
  <1>4. Arrivals \o toClient = <<>> /\ Len(fetched) = 0
    BY <1>1, <1>3, BytesConcat, EmptySeq
  <1>5. PICK f : Tails(f, <<>>) /\ f[0] = <<>>
    BY TailsOfNothing
  <1>6. FromServer(f)
    BY <1>1, <1>2, <1>4, <1>5 DEF FromServer, Between
  <1>7. AnswersKept
    <2>1. <<>> \in Seq(Payloads) /\ Len(<<>>) = 0
      BY EmptySeq
    <2> QED
      BY <1>1, <2>1 DEF AnswersKept
  <1> QED
    BY <1>6, <1>7 DEF InInv

\* What has nothing to do with fetching changes nothing of it.
LEMMA OutsideAnswers ==
    ASSUME InInv, UNCHANGED <<rx, msgRx, call, toClient, bad, answered, fetched>>,
           \/ pc' = pc \/ pc' = "defunct"
           \/ pc \in {"idle", "sending"} /\ pc' \in {"idle", "sending"}
    PROVE  InInv'
  <1>1. AnswersKept'
    BY DEF InInv, AnswersKept
  <1>2. PICK f : FromServer(f)
    BY DEF InInv
  <1>3. Arrivals' = Arrivals /\ Unloadable(msgRx)' = Unloadable(msgRx)
    BY DEF Arrivals, Unloadable, Extent
  <1>4. pc' = pc => Due' = Due /\ Together' = Together
    BY DEF Due, Together, Extent
  <1>5. FromServer(f)'
    BY <1>2, <1>3, <1>4 DEF FromServer, Amid, Between
  <1> QED
    BY <1>1, <1>5 DEF InInv

\* Between two messages all that arrived is what comes next in the stream.
LEMMA FetchAnswers ==
    ASSUME MemoryInv, InInv, Fetch
    PROVE  InInv' /\ UNCHANGED <<answered, fetched>>
  <1>1. /\ pc = "idle" /\ pc' = "header" /\ Receive(rx, 2)
        /\ UNCHANGED <<msgRx, toClient, bad, answered, fetched>>
    BY DEF Fetch, wire, histories
  <1>2. call.delta = 0
    BY <1>1 DEF MemoryInv, Reserved
  <1>3. IsBuffer(rx, Nat) /\ Arrivals = Contents(rx)
    BY <1>2, RxDefined, ArrivalsAre
  <1>4. Arrivals' = Arrivals
    <2> DEFINE two == 2
    <2>1. two \in Nat /\ Receive(rx, two)
      BY <1>1
    <2> HIDE DEF two
    <2> QED
      BY <1>3, <2>1, ReceiveContents
  <1>5. PICK f : FromServer(f)
    BY DEF InInv
  <1>6. Unloadable(msgRx)' = Unloadable(msgRx)
    BY <1>1 DEF Unloadable, Extent
  <1>7. FromServer(f)'
    BY <1>1, <1>4, <1>5, <1>6 DEF FromServer, Between
  <1>8. AnswersKept'
    BY <1>1 DEF InInv, AnswersKept
  <1> QED
    BY <1>1, <1>7, <1>8 DEF InInv

\* A header follows what was put together of the message that is fetched.
HeaderFollows(f) ==
    /\ Tails(f, answered)
    /\ Amid(f, answered, Len(fetched), Contents(msgRx), 0, Contents(rx) \o toClient)

\* So it is at the start of a message and behind each of its chunks.
LEMMA AtHeader ==
    ASSUME MemoryInv, InInv, pc \in Calls, pc # "chunk", call.delta = 0
    PROVE  /\ \E f : HeaderFollows(f)
           /\ IsBuffer(rx, Nat) /\ Unloadable(rx) \in Nat /\ Unloadable(rx) >= 2
           /\ IsBuffer(msgRx, Int) /\ toClient \in Seq(Nat)
           /\ answered \in Seq(Payloads) /\ answered \in Seq(Seq(Nat))
           /\ fetched \in Seq(Payloads) /\ Len(fetched) \in Nat /\ bad = {}
  <1> DEFINE k == Len(fetched)
             s == Contents(rx) \o toClient
             part == Contents(msgRx)
  <1> HIDE DEF s, part
  <1>1. /\ answered \in Seq(Payloads) /\ answered \in Seq(Seq(Nat))
        /\ fetched \in Seq(Payloads) /\ k \in Nat /\ bad = {} /\ k \in 0 .. Len(answered)
    <2>1. /\ answered \in Seq(Payloads) /\ fetched \in Seq(Payloads)
          /\ k <= Len(answered) /\ bad = {}
      BY DEF InInv, AnswersKept
    <2>2. k \in Nat /\ Len(answered) \in Nat
      BY <2>1, LenProperties
    <2>3. answered \in Seq(Seq(Nat))
      BY <2>1, PayloadsAreBytes
    <2> HIDE DEF k
    <2>4. k \in 0 .. Len(answered)
      BY <2>1, <2>2 DEF k
    <2> QED
      BY <2>1, <2>2, <2>3, <2>4
  <1>2. IsBuffer(rx, Nat) /\ call.max = 0 /\ Arrivals = Contents(rx) /\ toClient \in Seq(Nat)
    BY RxDefined, ArrivalsAre
  <1>3. IsBuffer(msgRx, Int)
    BY DEF MemoryInv, Typed
  <1>4. Unloadable(rx) \in Nat /\ Unloadable(rx) >= 2
    <2>1. Unloadable(rx) \in Nat
      BY <1>2, BufferIs
    <2>2. Unloadable(rx) - call.max + call.delta >= call.size /\ call.size = 2
      BY DEF MemoryInv, Enough, Calls
    <2>3. call.delta = 0 /\ call.max = 0
      BY <1>2
    <2> QED
      BY <2>1, <2>2, <2>3
  <1>5. PICK f : FromServer(f)
    BY DEF InInv
  <1>6. Tails(f, answered)
    BY <1>5 DEF FromServer
  <1>7. CASE pc = "header"
    <2>1. Unloadable(msgRx) = 0 /\ f[k] = s
      BY <1>2, <1>5, <1>7 DEF FromServer, Between, s
    <2>2. part = <<>>
      BY <1>3, <2>1, ContentsAre DEF part
    <2>3. s # <<>>
      <3> DEFINE a == Contents(rx)
      <3>1. a \in Seq(Nat) /\ Len(a) >= 2
        BY <1>2, <1>4, ContentsAre
      <3> HIDE DEF a
      <3>2. Len(a \o toClient) = Len(a) + Len(toClient) /\ Len(toClient) \in Nat /\ Len(a) \in Nat
        <4>1. toClient \in Seq(Nat)
          BY <1>2
        <4>2. Len(a \o toClient) = Len(a) + Len(toClient)
          BY <3>1, <4>1, BytesConcat
        <4> QED
          BY <3>1, <4>1, <4>2, LenProperties
      <3>3. Len(a \o toClient) # 0
        BY <3>1, <3>2
      <3> QED
        BY <3>3, EmptySeq DEF a, s
    <2> HIDE DEF k
    <2>4. k < Len(answered) /\ Inside(answered[k + 1], f[k + 1], <<>>, 0, f[k])
      BY <1>1, <1>6, <2>1, <2>3, StreamStarts
    <2>5. Amid(f, answered, k, part, 0, s)
      BY <2>1, <2>2, <2>4 DEF Amid
    <2> QED
      BY <1>1, <1>2, <1>3, <1>4, <1>6, <2>5 DEF HeaderFollows, k, s, part
  <1>8. CASE pc = "next header"
    <2>1. Due = 0 /\ Together = part
      BY <1>8, TogetherIs DEF part
    <2>2. Amid(f, answered, k, part, 0, s)
      BY <1>2, <1>5, <1>8, <2>1 DEF FromServer, s
    <2> QED
      BY <1>1, <1>2, <1>3, <1>4, <1>6, <2>2 DEF HeaderFollows, s, part
  <1> QED
    BY <1>7, <1>8 DEF Calls

\* The chunk that a header announces is the next one of the message.
LEMMA TakeHeaderAnswers ==
    ASSUME MemoryInv, InInv, TakeHeader
    PROVE  InInv' /\ UNCHANGED <<answered, fetched>>
  <1> DEFINE size == HeaderValue(Ahead(rx, 2))
             message == MessageBuffer
             rest == Unload(rx, 2)
             k == Len(fetched)
             a == Contents(rx)
             left == SubSeq(a, 3, Len(a))
             part == Contents(msgRx)
  <1>1. /\ pc \in Calls /\ pc # "chunk" /\ call.delta = 0 /\ size # 0
        /\ msgRx' = LoadPointer(message, size)
        /\ Receive(rest, size)
        /\ pc' = "chunk"
        /\ UNCHANGED <<toClient, bad, answered, fetched>>
    BY DEF TakeHeader, Received, Calls, wire, histories
  <1>2. /\ \E f : HeaderFollows(f)
        /\ IsBuffer(rx, Nat) /\ Unloadable(rx) \in Nat /\ Unloadable(rx) >= 2
        /\ IsBuffer(msgRx, Int) /\ toClient \in Seq(Nat)
        /\ answered \in Seq(Payloads) /\ k \in Nat
    BY <1>1, AtHeader
  <1>3. /\ size = HeaderValue(a) /\ a \in Seq(Nat) /\ Len(a) >= 2 /\ size \in Nat
        /\ Contents(rest) = left /\ IsBuffer(rest, Nat)
    BY <1>2, HeaderAhead
  <1>4. IsBuffer(message, Int) /\ Contents(message) = part /\ part \in Seq(Int)
    BY <1>2, CompactOK, CompactContents, ContentsAre DEF MessageBuffer
  <1> HIDE DEF size, message, rest, a, part
  <1>5. Arrivals' = left
    BY <1>1, <1>3, ReceiveContents
  <1> HIDE DEF left
  <1>6. call'.size = size
    <2>1. CASE Missing(rest, size) > 0
      BY <1>1, <2>1 DEF Receive
    <2>2. CASE ~(Missing(rest, size) > 0)
      BY <1>1, <2>2 DEF Receive
    <2> QED
      BY <2>1, <2>2
  <1>7. Due' = size
    BY <1>1, <1>6 DEF Due
  <1>8. Together' = part
    <2>1. Together' = SubSeq(msgRx'.data, msgRx'.cursor + 1, Extent(msgRx') - Due')
      BY DEF Together, Extent
    <2>2. LET r == LoadPointer(message, size)
          IN  SubSeq(r.data, r.cursor + 1, Extent(r) - size) = Contents(message)
      BY <1>3, <1>4, MakesRoom
    <2> QED
      BY <1>1, <1>4, <1>7, <2>1, <2>2
  <1>9. PICK f : HeaderFollows(f)
    BY <1>2
  <1>10. /\ Tails(f, answered) /\ k < Len(answered)
         /\ Inside(answered[k + 1], f[k + 1], part, 0, a \o toClient)
    BY <1>9 DEF HeaderFollows, Amid, a, part
  <1> HIDE DEF k
  <1>11. answered[k + 1] \in Seq(Nat) /\ f[k + 1] \in Seq(Nat)
    BY <1>2, <1>10, StreamIs
  <1>12. Inside(answered[k + 1], f[k + 1], part, size, left \o toClient)
    <2> DEFINE m == answered[k + 1]
               after == f[k + 1]
    <2> HIDE DEF m, after
    <2>1. m \in Seq(Nat) /\ after \in Seq(Nat) /\ Inside(m, after, part, 0, a \o toClient)
      BY <1>10, <1>11 DEF m, after
    <2>2. HeaderValue(a) # 0 =>
             Inside(m, after, part, HeaderValue(a), SubSeq(a, 3, Len(a)) \o toClient)
      BY <1>2, <1>3, <1>4, <2>1, HeaderInside
    <2> QED
      BY <1>1, <1>3, <2>2 DEF m, after, left
  <1>13. Amid(f, answered, k, part, size, left \o toClient)
    BY <1>10, <1>12 DEF Amid
  <1>14. FromServer(f)'
    <2>1. Tails(f, answered') /\ pc' = "chunk"
      BY <1>1, <1>10
    <2>2. Amid(f, answered', Len(fetched'), Together', Due', Arrivals' \o toClient')
      BY <1>1, <1>5, <1>7, <1>8, <1>13 DEF k
    <2> QED
      BY <2>1, <2>2 DEF FromServer, Amid
  <1>15. AnswersKept'
    BY <1>1 DEF InInv, AnswersKept
  <1> QED
    BY <1>1, <1>14, <1>15 DEF InInv

\* What was put together, when no chunk is read, as an operator of the buffer.
LEMMA TogetherBehind ==
    ASSUME NEW b, IsBuffer(b, Int)
    PROVE  SubSeq(b.data, b.cursor + 1, Extent(b) - 0) = Contents(b)
  <1>1. Extent(b) - 0 = Len(b.data)
    BY BufferIs
  <1> QED
    BY <1>1, ContentsAre

\* A chunk that arrived is put behind what was put together.
LEMMA TakeChunkAnswers ==
    ASSUME MemoryInv, InInv, TakeChunk
    PROVE  InInv' /\ UNCHANGED <<answered, fetched>>
  <1> DEFINE n == call.size
             k == Len(fetched)
             a == Contents(rx)
             ahead == Ahead(rx, n)
             rest == Unload(rx, n)
             part == Together
             left == SubSeq(a, n + 1, Len(a))
             more == part \o ahead
  <1>1. /\ pc = "chunk" /\ call.delta = 0
        /\ msgRx' = Store(msgRx, Extent(msgRx) - n, ahead)
        /\ Receive(rest, 2)
        /\ pc' = "next header"
        /\ UNCHANGED <<toClient, bad, answered, fetched>>
    BY DEF TakeChunk, Received, ChunkTarget, wire, histories
  <1> HIDE DEF ahead, rest, left, more
  <1>2. IsBuffer(rx, Nat) /\ call.max = 0 /\ Arrivals = a /\ toClient \in Seq(Nat)
    BY <1>1, RxDefined, ArrivalsAre
  <1>3. /\ n \in Nat /\ n \in 0 .. Unloadable(rx)
        /\ IsBuffer(msgRx, Int) /\ n <= Unloadable(msgRx)
    <2>1. n \in Nat /\ Unloadable(rx) \in Nat
      BY <1>2, CallIs, BufferIs DEF MemoryInv
    <2>2. Unloadable(rx) - call.max + call.delta >= n
      BY <1>1 DEF MemoryInv, Enough, Calls
    <2>3. call.delta = 0 /\ call.max = 0
      BY <1>1, <1>2
    <2>4. IsBuffer(msgRx, Int) /\ n <= Unloadable(msgRx)
      BY <1>1 DEF MemoryInv, Typed, Room
    <2> QED
      BY <2>1, <2>2, <2>3, <2>4
  <1>4. /\ answered \in Seq(Payloads) /\ k \in Nat
    BY LenProperties DEF InInv, AnswersKept
  <1> HIDE DEF n, k, a, part
  <1>5. /\ a \in Seq(Nat) /\ Len(a) = Unloadable(rx) /\ ahead = SubSeq(a, 1, n)
        /\ ahead \in Seq(Nat) /\ ahead \in Seq(Int) /\ Len(ahead) = n
    <2>1. a \in Seq(Nat) /\ Len(a) = Unloadable(rx)
      BY <1>2, ContentsAre DEF a
    <2>2. ahead = SubSeq(a, 1, n)
      BY <1>2, <1>3, AheadIsFront DEF a, ahead
    <2>3. ahead \in Seq(Nat) /\ Len(ahead) = n
      BY <1>2, <1>3, AheadOK DEF ahead
    <2> QED
      BY <2>1, <2>2, <2>3, SeqMonotonic
  <1>6. Contents(rest) = left /\ IsBuffer(rest, Nat)
    BY <1>2, <1>3, UnloadContents, UnloadOK DEF rest, left, a
  <1>7. Arrivals' = left
    <2> DEFINE two == 2
    <2>1. two \in Nat /\ Receive(rest, two)
      BY <1>1
    <2> HIDE DEF two
    <2> QED
      BY <1>6, <2>1, ReceiveContents
  <1>8. part \in Seq(Int) /\ Due = n
    BY <1>1, TogetherIs DEF part, Due, n
  <1>9. Contents(msgRx') = more
    <2>1. Contents(Store(msgRx, Extent(msgRx) - Len(ahead), ahead))
             = SubSeq(msgRx.data, msgRx.cursor + 1, Extent(msgRx) - Len(ahead)) \o ahead
      BY <1>3, <1>5, FillsRoom
    <2>2. part = SubSeq(msgRx.data, msgRx.cursor + 1, Extent(msgRx) - n)
      BY <1>8 DEF part, Together
    <2> QED
      BY <1>1, <1>5, <2>1, <2>2 DEF more
  <1>10. Due' = 0 /\ Together' = more
    <2>1. Due' = 0
      BY <1>1 DEF Due
    <2>2. IsBuffer(msgRx', Int)
      BY TakeChunkKeeps DEF MemoryInv, Typed
    <2>3. Together' = SubSeq(msgRx'.data, msgRx'.cursor + 1, Extent(msgRx') - 0)
      BY <2>1 DEF Together, Extent
    <2> DEFINE b == msgRx'
    <2>4. IsBuffer(b, Int) /\ Contents(b) = more
      BY <1>9, <2>2
    <2> HIDE DEF b
    <2>5. SubSeq(b.data, b.cursor + 1, Extent(b) - 0) = Contents(b)
      BY <2>4, TogetherBehind
    <2> QED
      BY <2>1, <2>3, <2>4, <2>5 DEF b
  <1>11. PICK f : FromServer(f)
    BY DEF InInv
  <1>12. /\ Tails(f, answered) /\ k < Len(answered)
         /\ Inside(answered[k + 1], f[k + 1], part, n, a \o toClient)
    BY <1>1, <1>2, <1>8, <1>11 DEF FromServer, Amid, a, k, part
  <1>13. answered[k + 1] \in Seq(Nat) /\ f[k + 1] \in Seq(Nat)
    BY <1>4, <1>12, StreamIs
  <1>14. Inside(answered[k + 1], f[k + 1], more, 0, left \o toClient)
    <2> DEFINE m == answered[k + 1]
               after == f[k + 1]
    <2> HIDE DEF m, after
    <2>1. m \in Seq(Nat) /\ after \in Seq(Nat) /\ Inside(m, after, part, n, a \o toClient)
      BY <1>12, <1>13 DEF m, after
    <2>2. Len(a) >= n
      BY <1>3, <1>5
    <2>3. Inside(m, after, part \o SubSeq(a, 1, n), 0, SubSeq(a, n + 1, Len(a)) \o toClient)
      BY <1>2, <1>3, <1>5, <1>8, <2>1, <2>2, ChunkInside
    <2> QED
      BY <1>5, <2>3 DEF m, after, more, left
  <1>15. Amid(f, answered, k, more, 0, left \o toClient)
    BY <1>12, <1>14 DEF Amid
  <1>16. FromServer(f)'
    <2>1. Tails(f, answered') /\ pc' = "next header"
      BY <1>1, <1>12
    <2>2. Amid(f, answered', Len(fetched'), Together', Due', Arrivals' \o toClient')
      BY <1>1, <1>7, <1>10, <1>15 DEF k
    <2> QED
      BY <2>1, <2>2 DEF FromServer, Amid
  <1>17. AnswersKept'
    BY <1>1 DEF InInv, AnswersKept
  <1> QED
    BY <1>1, <1>16, <1>17 DEF InInv

\* The empty chunk ends the message, and what was put together is all of it.
LEMMA TakeEndAnswers ==
    ASSUME MemoryInv, InInv, TakeEnd
    PROVE  /\ InInv' /\ UNCHANGED answered
           /\ Len(fetched) < Len(answered)
           /\ fetched' = Append(fetched, answered[Len(fetched) + 1])
  <1> DEFINE k == Len(fetched)
             a == Contents(rx)
             left == SubSeq(a, 3, Len(a))
             part == Contents(msgRx)
             rest == Unload(rx, 2)
  <1> HIDE DEF left
  <1>1. /\ pc = "next header" /\ call.delta = 0 /\ HeaderValue(Ahead(rx, 2)) = 0
        /\ rx' = rest /\ call' = NoCall /\ pc' = "idle"
        /\ UNCHANGED <<toClient, bad, answered>>
        /\ fetched' = Append(fetched, Unloaded(part).item)
        /\ \E n \in Unloaded(part).reads : msgRx' = Advance(msgRx, n)
    BY DEF TakeEnd, Received, wire, Contents
  <1>2. /\ \E f : HeaderFollows(f)
        /\ IsBuffer(rx, Nat) /\ Unloadable(rx) \in Nat /\ Unloadable(rx) >= 2
        /\ IsBuffer(msgRx, Int) /\ toClient \in Seq(Nat)
        /\ answered \in Seq(Payloads) /\ fetched \in Seq(Payloads) /\ k \in Nat /\ bad = {}
    BY <1>1, AtHeader DEF Calls
  <1>3. /\ HeaderValue(a) = 0 /\ a \in Seq(Nat) /\ Len(a) >= 2
        /\ Contents(rest) = left /\ IsBuffer(rest, Nat)
    BY <1>1, <1>2, HeaderAhead DEF left
  <1>4. part \in Seq(Int) /\ Len(part) = Unloadable(msgRx)
    BY <1>2, ContentsAre
  <1> HIDE DEF rest, a, part, k
  <1>5. PICK f : HeaderFollows(f)
    BY <1>2
  <1> DEFINE m == answered[k + 1]
             tail == f[k + 1]
  <1>6. /\ Tails(f, answered) /\ k < Len(answered)
        /\ Inside(m, tail, part, 0, a \o toClient)
    BY <1>5 DEF HeaderFollows, Amid, a, part, k
  <1>7. m \in Payloads /\ m \in Seq(Nat) /\ tail \in Seq(Nat)
    BY <1>2, <1>6, StreamIs
  <1> HIDE DEF m, tail
  <1>8. part = m /\ left \o toClient = tail
    <2>1. HeaderValue(a) = 0 => part = m /\ SubSeq(a, 3, Len(a)) \o toClient = tail
      BY <1>2, <1>3, <1>4, <1>6, <1>7, HeaderInside
    <2> QED
      BY <1>3, <2>1 DEF left
  <1>9. Unloaded(part) = Found(m)
    BY <1>2, <1>7, <1>8, PayloadReads
  <1>10. fetched' = Append(fetched, m) /\ msgRx' = Advance(msgRx, Unloadable(msgRx))
    <2>1. Found(m).item = m /\ Found(m).reads = {Len(m)}
      BY DEF Found
    <2> QED
      BY <1>1, <1>4, <1>8, <1>9, <2>1
  <1>11. Unloadable(msgRx)' = 0
    <2> DEFINE u == Unloadable(msgRx)
    <2>1. u \in Nat /\ u \in 0 .. u
      BY <1>2, BufferIs
    <2>2. Unloadable(Advance(msgRx, u)) = u - u
      BY <1>2, <2>1, AdvanceOK
    <2> HIDE DEF u
    <2>3. Unloadable(msgRx)' = Unloadable(msgRx')
      BY DEF Unloadable, Extent
    <2>4. Unloadable(msgRx') = u - u
      BY <1>10, <2>2 DEF u
    <2> QED
      BY <2>1, <2>3, <2>4
  <1>12. Arrivals' = left
    <2>1. Arrivals' = SubSeq(rest.data, rest.cursor + 1, Extent(rest) - 0 + 0)
      BY <1>1 DEF Arrivals, Extent, NoCall
    <2>2. Extent(rest) \in Nat /\ Extent(rest) = Len(rest.data)
      BY <1>3, BufferIs
    <2>3. Extent(rest) - 0 + 0 = Len(rest.data)
      BY <2>2
    <2>4. Contents(rest) = SubSeq(rest.data, rest.cursor + 1, Len(rest.data))
      BY <1>3, ContentsAre
    <2> QED
      BY <1>3, <2>1, <2>3, <2>4
  <1>13. fetched' \in Seq(Payloads) /\ Len(fetched') = k + 1 /\ Len(fetched') <= Len(answered)
    <2>1. fetched' \in Seq(Payloads) /\ Len(fetched') = k + 1
      BY <1>2, <1>7, <1>10, AppendProperties DEF k
    <2>2. Len(answered) \in Nat
      BY <1>2, LenProperties
    <2> QED
      BY <1>2, <1>6, <2>1, <2>2
  <1>14. FromServer(f)'
    <2>1. Tails(f, answered') /\ pc' = "idle"
      BY <1>1, <1>6
    <2>2. f[Len(fetched')] = Arrivals' \o toClient'
      BY <1>1, <1>8, <1>12, <1>13 DEF tail
    <2> QED
      BY <1>11, <2>1, <2>2 DEF FromServer, Between
  <1>15. AnswersKept'
    BY <1>1, <1>13 DEF InInv, AnswersKept
  <1> QED
    BY <1>1, <1>6, <1>10, <1>14, <1>15 DEF InInv, k, m

\* The bytes that BoltCommunication_receive takes from the link come behind
\* those that arrived before, whether it goes on or ends.
LEMMA RecvSomeArrives ==
    ASSUME MemoryInv, NEW k, RecvSome(k)
    PROVE  Arrivals' \o toClient' = Arrivals \o toClient
  <1> DEFINE max == call.max
             delta == call.delta
             got == call.total
             total == got + k
             e == Extent(rx)
             c == rx.cursor
             d == rx.data
             piece == SubSeq(toClient, 1, k)
             offset == e - max + got
             end == offset + k
             filled == Store(rx, offset, piece)
             last == SubSeq(toClient, k + 1, Len(toClient))
  <1>1. /\ call \in Record /\ max \in Nat /\ delta \in Nat /\ got \in Nat
        /\ toClient \in Seq(Nat)
    BY CallIs DEF MemoryInv, Typed, Record
  <1>2. /\ delta > 0 /\ k \in 1 .. max - got /\ k <= Len(toClient)
        /\ toClient' = last
        /\ IF total < delta
           THEN rx' = filled /\ call' = [call EXCEPT !.total = total]
           ELSE rx' = Adjusted(filled, max, total)
                /\ call' = [call EXCEPT !.delta = 0, !.max = 0, !.total = 0]
    BY DEF RecvSome, histories
  <1>3. /\ IsBuffer(rx, Int) /\ delta <= max /\ max <= Unloadable(rx) /\ got < delta
    <2>1. delta # 0
      BY <1>1, <1>2
    <2> QED
      BY <2>1 DEF MemoryInv, Typed, Reserved
  <1>4. c \in Nat /\ e \in Nat /\ Unloadable(rx) = e - c /\ d \in Seq(Int) /\ Len(d) = e
    BY <1>3, BufferIs
  <1>5. /\ offset \in Nat /\ end <= e /\ c <= offset /\ end \in Nat /\ k \in Nat
        /\ end = e - max + total /\ c <= end
    <2> HIDE DEF max, delta, got, c, e
    <2>1. /\ max \in Nat /\ delta \in Nat /\ got \in Nat /\ c \in Nat /\ e \in Nat
          /\ max <= e - c /\ got < delta /\ delta <= max /\ k \in 1 .. max - got
      BY <1>1, <1>2, <1>3, <1>4 DEF max, delta, got, c, e
    <2> QED
      BY <2>1
  <1>6. /\ piece \in Seq(Nat) /\ Len(piece) = k /\ last \in Seq(Nat)
        /\ toClient = piece \o last
    <2>1. k \in 0 .. Len(toClient)
      BY <1>1, <1>2, <1>5, LenProperties
    <2> QED
      BY <1>1, <2>1, FrontIs, RestIs, SplitAt
  <1> HIDE DEF piece, last
  <1>7. piece \in Seq(Int)
    BY <1>6, SeqMonotonic
  <1>8. /\ IsBuffer(filled, Int) /\ Extent(filled) = e /\ filled.cursor = c
        /\ \A i \in 1 .. e : filled.data[i] =
              IF i \in offset + 1 .. offset + k THEN piece[i - offset] ELSE d[i]
    <2>1. offset \in Nat /\ offset + Len(piece) <= Extent(rx)
      BY <1>5, <1>6
    <2> HIDE DEF offset
    <2>2. /\ IsBuffer(Store(rx, offset, piece), Int)
          /\ Extent(Store(rx, offset, piece)) = Extent(rx)
          /\ Store(rx, offset, piece).cursor = rx.cursor
          /\ \A i \in 1 .. Extent(rx) :
                Store(rx, offset, piece).data[i] =
                   IF i \in offset + 1 .. offset + Len(piece) THEN piece[i - offset] ELSE rx.data[i]
      BY <1>3, <1>7, <2>1, StoreOK
    <2> QED
      BY <1>6, <2>2
  <1> DEFINE more == rx'.data
  <1> HIDE DEF filled, more, offset, end
  <1>9. /\ rx'.cursor = c /\ IsBuffer(rx', Int) /\ end <= Extent(rx')
        /\ Extent(rx') - call'.max + call'.total = end
        /\ \A i \in 1 .. end : more[i] = filled.data[i]
    <2>1. CASE total < delta
      <3>1. rx' = filled /\ call'.max = max /\ call'.total = total
        BY <1>1, <1>2, <2>1 DEF Record
      <3> HIDE DEF max, delta, total, e, c, d
      <3>2. Extent(rx') - call'.max + call'.total = end
        BY <1>5, <1>8, <3>1
      <3> QED
        BY <1>5, <1>8, <3>1, <3>2 DEF more
    <2>2. CASE ~(total < delta)
      <3>1. /\ rx' = Truncate(filled, Extent(filled) - max + total)
            /\ call'.max = 0 /\ call'.total = 0
        BY <1>1, <1>2, <2>2 DEF Record, Adjusted
      <3> HIDE DEF max, delta, total, e, c, d
      <3>2. rx' = Truncate(filled, end)
        BY <1>5, <1>8, <3>1
      <3>3. end \in filled.cursor .. Extent(filled)
        BY <1>4, <1>5, <1>8
      <3>4. /\ IsBuffer(rx', Int) /\ Extent(rx') = end /\ rx'.cursor = filled.cursor
            /\ \A i \in 1 .. end : rx'.data[i] = filled.data[i]
        BY <1>8, <3>2, <3>3, TruncateOK
      <3>5. Extent(rx') - call'.max + call'.total = end
        BY <1>5, <3>1, <3>4
      <3> QED
        BY <1>5, <1>8, <3>4, <3>5 DEF more
    <2> QED
      BY <2>1, <2>2
  <1> HIDE DEF max, delta, got, total, e, c, d
  <1>10. more \in Seq(Int) /\ end <= Len(more)
    <2> DEFINE b == rx'
    <2>1. IsBuffer(b, Int) /\ end <= Extent(b)
      BY <1>9
    <2> HIDE DEF b
    <2>2. b.data \in Seq(Int) /\ Extent(b) = Len(b.data)
      BY <2>1, BufferIs
    <2> QED
      BY <2>1, <2>2 DEF b, more
  <1>11. end = offset + Len(piece)
    BY <1>6 DEF end
  <1>12. Behind(d, more, piece, offset)
    <2>1. ASSUME NEW i \in 1 .. offset PROVE more[i] = d[i]
      <3>1. i \in 1 .. end /\ i \in 1 .. e /\ i \notin offset + 1 .. offset + k
        BY <1>4, <1>5 DEF end
      <3> QED
        BY <1>8, <1>9, <3>1
    <2>2. ASSUME NEW i \in 1 .. Len(piece) PROVE more[offset + i] = piece[i]
      <3>1. /\ offset + i \in 1 .. end /\ offset + i \in 1 .. e
            /\ offset + i \in offset + 1 .. offset + k /\ (offset + i) - offset = i
        BY <1>4, <1>5, <1>6, <1>11
      <3> QED
        BY <1>8, <1>9, <3>1
    <2>3. offset <= Len(d) /\ offset + Len(piece) <= Len(more)
      BY <1>4, <1>5, <1>6, <1>10, <1>11
    <2> QED
      BY <2>1, <2>2, <2>3 DEF Behind
  <1>13. PieceFollows(d, more, piece, c, offset)
    BY <1>4, <1>5, <1>7, <1>10, <1>12, PieceBehind
  <1>14. Arrivals = SubSeq(d, c + 1, offset)
    BY DEF Arrivals, d, c, offset, e, max, got
  <1>15. Arrivals' = SubSeq(more, c + 1, end)
    <2>1. Arrivals' = SubSeq(rx'.data, rx'.cursor + 1, Extent(rx') - call'.max + call'.total)
      BY DEF Arrivals, Extent
    <2> QED
      BY <1>9, <2>1 DEF more
  <1>16. Arrivals' = Arrivals \o piece
    BY <1>11, <1>13, <1>14, <1>15 DEF PieceFollows
  <1>17. (Arrivals \o piece) \o last = Arrivals \o (piece \o last)
    <2> DEFINE x == Arrivals
    <2>1. x \in Seq(Nat)
      BY ArrivalsAre
    <2> HIDE DEF x
    <2>2. (x \o piece) \o last = x \o (piece \o last)
      BY <1>6, <2>1, Regroup
    <2> QED
      BY <2>2 DEF x
  <1> QED
    BY <1>2, <1>6, <1>16, <1>17

\* Receiving a piece changes neither the stream nor what was read of it.
LEMMA RecvSomeAnswers ==
    ASSUME MemoryInv, InInv, NEW k, RecvSome(k)
    PROVE  InInv' /\ UNCHANGED <<answered, fetched>>
  <1>1. UNCHANGED <<msgRx, pc, bad, answered, fetched>>
    BY DEF RecvSome, histories
  <1>2. Arrivals' \o toClient' = Arrivals \o toClient
    BY RecvSomeArrives
  <1>3. Due' = Due
    <2>1. call'.size = call.size
      BY DEF RecvSome, MemoryInv, Typed
    <2> QED
      BY <1>1, <2>1 DEF Due
  <1>4. Together' = Together /\ Unloadable(msgRx)' = Unloadable(msgRx)
    BY <1>1, <1>3 DEF Together, Unloadable, Extent
  <1>5. PICK f : FromServer(f)
    BY DEF InInv
  <1>6. FromServer(f)'
    <2> DEFINE s == Arrivals \o toClient
               t == Arrivals' \o toClient'
    <2>1. s = t
      BY <1>2
    <2>2. /\ Tails(f, answered)
          /\ pc \in {"idle", "sending", "header"} =>
                 Unloadable(msgRx) = 0 /\ Between(f, Len(fetched), s)
          /\ pc \in {"chunk", "next header"} =>
                 Amid(f, answered, Len(fetched), Together, Due, s)
      BY <1>5 DEF FromServer
    <2> HIDE DEF s, t
    <2>3. /\ Tails(f, answered')
          /\ pc' \in {"idle", "sending", "header"} =>
                 Unloadable(msgRx)' = 0 /\ Between(f, Len(fetched'), t)
          /\ pc' \in {"chunk", "next header"} =>
                 Amid(f, answered', Len(fetched'), Together', Due', t)
      BY <1>1, <1>3, <1>4, <2>1, <2>2
    <2> QED
      BY <2>3, Zenon DEF FromServer, t, Between, Amid
  <1>7. AnswersKept'
    BY <1>1 DEF InInv, AnswersKept
  <1> QED
    BY <1>1, <1>6, <1>7 DEF InInv

\* The server answers with the message that it took, cut as it likes, behind
\* all that is on its way.
LEMMA ServeAnswers ==
    ASSUME MaxBad = 0, MemoryInv, OutInv, InInv, Serve
    PROVE  /\ InInv' /\ UNCHANGED fetched
           /\ \E p \in Payloads : answered' = Append(answered, p)
  <1> DEFINE p == FirstMessage[toPeer].payload
             l == Len(answered)
             k == Len(fetched)
             s == Arrivals \o toClient
  <1>1. p \in Payloads /\ p \in Seq(Nat)
    BY ServeInOrder, PayloadsAreBytes
  <1> HIDE DEF p
  <1>2. /\ bad = {} /\ answered \in Seq(Payloads) /\ answered \in Seq(Seq(Nat))
        /\ fetched \in Seq(Payloads) /\ k <= l /\ k \in Nat /\ l \in Nat
    <2>1. /\ bad = {} /\ answered \in Seq(Payloads) /\ fetched \in Seq(Payloads) /\ k <= l
      BY DEF InInv, AnswersKept
    <2>2. k \in Nat /\ l \in Nat
      BY <2>1, LenProperties
    <2> QED
      BY <2>1, <2>2, PayloadsAreBytes
  <1>3. ~(Cardinality(bad) < MaxBad)
    <2>1. Cardinality(bad) = 0
      BY <1>2, FS_EmptySet
    <2> QED
      BY <2>1
  <1>4. /\ answered' = Append(answered, p) /\ UNCHANGED bad
        /\ UNCHANGED <<rx, msgRx, pc, call, fetched>>
        /\ \E w \in Cut[p] : toClient' = toClient \o w
    BY <1>3 DEF Serve, buffers, p
  <1>5. PICK w \in Cut[p] : toClient' = toClient \o w
    BY <1>4
  <1>6. w \in Seq(Nat)
    BY <1>1, CutBytes
  <1>7. PICK f : FromServer(f)
    BY DEF InInv
  <1>8. Tails(f, answered)
    BY <1>7 DEF FromServer
  <1> HIDE DEF k, l, s
  <1>9. PICK g : /\ Tails(g, Append(answered, p))
                 /\ \A i \in 0 .. Len(answered) : g[i] = f[i] \o w
    BY <1>1, <1>2, <1>8, TailsGrow
  <1>10. s \in Seq(Nat) /\ Arrivals' \o toClient' = s \o w
    <2> DEFINE x == Arrivals
    <2>1. x \in Seq(Nat) /\ toClient \in Seq(Nat) /\ x \o toClient \in Seq(Nat)
      BY ArrivalsAre
    <2>2. Arrivals' = x
      BY <1>4 DEF Arrivals, Extent
    <2> HIDE DEF x
    <2>3. (x \o toClient) \o w = x \o (toClient \o w)
      BY <1>6, <2>1, Regroup
    <2> QED
      BY <1>5, <2>1, <2>2, <2>3 DEF s, x
  <1>11. /\ Due' = Due /\ Together' = Together /\ Unloadable(msgRx)' = Unloadable(msgRx)
    BY <1>4 DEF Due, Together, Unloadable, Extent
  <1>12. answered' \in Seq(Payloads) /\ Len(answered') = l + 1
    BY <1>1, <1>2, <1>4, AppendProperties DEF l
  <1>13. ASSUME pc \in {"idle", "sending", "header"} PROVE FromServer(g)'
    <2>1. Unloadable(msgRx) = 0 /\ f[k] = s
      BY <1>7, <1>13 DEF FromServer, Between, k, s
    <2>2. k \in 0 .. Len(answered)
      BY <1>2 DEF l
    <2>3. g[k] = s \o w
      BY <1>9, <2>1, <2>2
    <2> QED
      BY <1>4, <1>9, <1>10, <1>11, <1>13, <2>1, <2>3 DEF FromServer, Between, k
  <1>14. ASSUME pc \in {"chunk", "next header"} PROVE FromServer(g)'
    <2> DEFINE m == answered[k + 1]
               n == Append(answered, p)[k + 1]
               after == f[k + 1]
    <2>1. k < Len(answered) /\ Inside(m, after, Together, Due, s)
      BY <1>7, <1>14 DEF FromServer, Amid, k, s
    <2>2. m \in Seq(Nat) /\ after \in Seq(Nat) /\ k + 1 \in 1 .. Len(answered)
      BY <1>2, <1>8, <2>1, StreamIs
    <2>3. n = m /\ g[k + 1] = after \o w
      <3>1. k + 1 \in 0 .. Len(answered)
        BY <2>2
      <3>2. n = m
        BY <1>1, <1>2, <2>2, AppendProperties
      <3> QED
        BY <1>9, <3>1, <3>2
    <2>4. Together \in Seq(Int) /\ Due \in Nat
      BY TogetherIs
    <2> DEFINE part == Together
               due == Due
    <2> HIDE DEF m, n, after, part, due
    <2>5. Inside(m, after \o w, part, due, s \o w)
      BY <1>6, <1>10, <2>1, <2>2, <2>4, GrowInside DEF part, due
    <2>6. Inside(n, g[k + 1], part, due, s \o w)
      BY <2>3, <2>5
    <2>7. k < Len(answered')
      BY <1>2, <1>12, <2>1 DEF l
    <2>8. Amid(g, answered', k, Together', Due', Arrivals' \o toClient')
      BY <1>4, <1>10, <1>11, <2>6, <2>7 DEF Amid, n, part, due
    <2> QED
      BY <1>4, <1>9, <1>14, <2>8 DEF FromServer, k, Amid
  <1>15. ASSUME pc \notin {"idle", "sending", "header"}, pc \notin {"chunk", "next header"}
         PROVE  FromServer(g)'
    BY <1>4, <1>9, <1>15 DEF FromServer
  <1>16. FromServer(g)'
    BY <1>13, <1>14, <1>15
  <1>17. AnswersKept'
    <2>1. Len(fetched') <= Len(answered')
      BY <1>2, <1>4, <1>12 DEF k, l
    <2> QED
      BY <1>2, <1>4, <1>12, <2>1 DEF AnswersKept
  <1> QED
    BY <1>1, <1>4, <1>16, <1>17 DEF InInv

-----------------------------------------------------------------------------
(* Answers: every step, and the theorem *)

\* Every step keeps the invariant, and is a step of the channel of answers.
LEMMA InStepKeeps ==
    ASSUME MaxBad = 0, MemoryInv, OutInv, InInv, [Next]_vars
    PROVE  InInv' /\ [Answers!Next]_<<answered, fetched>>
  <1> DEFINE Step == InInv' /\ [Answers!Next]_<<answered, fetched>>
  <1>1. ASSUME InInv' /\ UNCHANGED <<answered, fetched>> PROVE Step
    BY <1>1
  <1>2. ASSUME UNCHANGED <<rx, msgRx, call, toClient, bad, answered, fetched>>,
               \/ pc' = pc \/ pc' = "defunct"
               \/ pc \in {"idle", "sending"} /\ pc' \in {"idle", "sending"}
        PROVE  Step
    BY <1>1, <1>2, OutsideAnswers
  <1>3. ASSUME NEW n \in Sizes, Load(n) PROVE Step
    BY <1>2, <1>3 DEF Load, wire
  <1>4. ASSUME NEW n \in Sizes, NEW k \in 1 .. n - 1, LoadFails(n, k) PROVE Step
    BY <1>2, <1>4 DEF LoadFails, wire, histories
  <1>5. ASSUME Send PROVE Step
    BY <1>2, <1>5 DEF Send, wire, histories
  <1>6. ASSUME NEW k, SendSome(k) PROVE Step
    BY <1>2, <1>6 DEF SendSome, histories
  <1>7. ASSUME Break PROVE Step
    BY <1>2, <1>7 DEF Break, wire, histories
  <1>8. ASSUME Serve PROVE Step
    <2>1. PICK p \in Payloads : answered' = Append(answered, p)
      BY <1>8, ServeAnswers
    <2>2. InInv' /\ fetched' = fetched
      BY <1>8, ServeAnswers
    <2>3. p \in Messages
      BY PayloadsAreBytes
    <2> QED
      BY <2>1, <2>2, <2>3 DEF Answers!Next, Answers!Put
  <1>9. ASSUME NEW k, RecvSome(k) PROVE Step
    BY <1>1, <1>9, RecvSomeAnswers
  <1>10. ASSUME TakeHeader PROVE Step
    BY <1>1, <1>10, TakeHeaderAnswers
  <1>11. ASSUME TakeChunk PROVE Step
    BY <1>1, <1>11, TakeChunkAnswers
  <1>12. ASSUME TakeEnd PROVE Step
    <2>1. /\ InInv' /\ answered' = answered
          /\ Len(fetched) < Len(answered)
          /\ fetched' = Append(fetched, answered[Len(fetched) + 1])
      BY <1>12, TakeEndAnswers
    <2> QED
      BY <2>1 DEF Answers!Next, Answers!Get
  <1>13. ASSUME Fetch PROVE Step
    BY <1>1, <1>13, FetchAnswers
  <1>14. ASSUME UNCHANGED vars PROVE Step
    BY <1>2, <1>14 DEF vars, buffers, wire, histories
  <1> SUFFICES Step
    OBVIOUS
  <1> HIDE DEF Step
  <1>15. CASE Progress
    <2>1. CASE \E k \in 1 .. sending.remaining : SendSome(k)
      BY <1>6, <2>1
    <2>2. CASE \E k \in 1 .. call.max : RecvSome(k)
      BY <1>9, <2>2
    <2> QED
      BY <1>10, <1>11, <1>12, <1>15, <2>1, <2>2 DEF Progress
  <1>16. CASE \E n \in Sizes : Load(n) \/ \E k \in 1 .. n - 1 : LoadFails(n, k)
    <2>1. PICK n \in Sizes : Load(n) \/ \E k \in 1 .. n - 1 : LoadFails(n, k)
      BY <1>16
    <2>2. CASE Load(n)
      BY <1>3, <2>2
    <2>3. CASE \E k \in 1 .. n - 1 : LoadFails(n, k)
      BY <1>4, <2>3
    <2> QED
      BY <2>1, <2>2, <2>3
  <1> QED
    BY <1>5, <1>7, <1>8, <1>13, <1>14, <1>15, <1>16 DEF Next

\* Between the server and fetch each fetch finds the next answer, whole and
\* once (fetch and unload of v1.c, BoltConnection_receive), for every size of
\* buffers, chunks and messages, every way in which the server cuts an answer
\* and every piece in which it arrives, when all answers can be decoded: what
\* fetch makes of others is what the run MessagesUnreadable shows.
THEOREM AnswersArriveInOrder ==
    ASSUME MaxBad = 0
    PROVE  Spec => AnswersInOrder
  <1>1. Init => Answers!Init
    BY DEF Init, Answers!Init
  <1>2. MemoryInv /\ OutInv /\ InInv /\ [Next]_vars
           => InInv' /\ [Answers!Next]_<<answered, fetched>>
    BY InStepKeeps
  <1> QED
    BY <1>1, <1>2, InInit, MemoryInvariant, RequestsInvariant, PTL
    DEF Spec, AnswersInOrder, Answers!Spec
-----------------------------------------------------------------------------
(* What the messages hold: markers, sizes and integers *)

\* A marker and the bytes behind it, with a stream behind them, are found again.
LEMMA MarkedIs ==
    ASSUME NEW T, NEW m \in T, NEW b \in Seq(T), NEW r \in Seq(T)
    PROVE  LET s == (<<m>> \o b) \o r
           IN  /\ s \in Seq(T) /\ s # <<>>
               /\ Head(s) = m /\ SubSeq(Tail(s), 1, Len(b)) = b /\ Drop(Tail(s), Len(b)) = r
  <1> DEFINE s == (<<m>> \o b) \o r
             t == Tail(s)
  <1>1. /\ s \in Seq(T) /\ Len(s) = 1 + Len(b) + Len(r) /\ s[1] = m
        /\ \A i \in 1 .. Len(b) : s[1 + i] = b[i]
        /\ \A i \in 1 .. Len(r) : s[1 + Len(b) + i] = r[i]
    OBVIOUS
  <1>2. Len(b) \in Nat /\ Len(r) \in Nat
    BY LenProperties
  <1> HIDE DEF s
  <1>3. s # <<>> /\ Head(s) = m
    BY <1>1, <1>2
  <1>4. /\ t \in Seq(T) /\ Len(t) = Len(b) + Len(r)
        /\ \A i \in 1 .. Len(t) : t[i] = s[i + 1]
    BY <1>1, <1>2, <1>3
  <1> HIDE DEF t
  <1>5. SubSeq(t, 1, Len(b)) = b
    <2> DEFINE u == SubSeq(t, 1, Len(b))
    <2>1. u \in Seq(T) /\ Len(u) = Len(b) /\ \A i \in 1 .. Len(b) : u[i] = t[i]
      BY <1>2, <1>4
    <2> HIDE DEF u
    <2>2. ASSUME NEW i \in 1 .. Len(b) PROVE u[i] = b[i]
      <3>1. i \in 1 .. Len(t) /\ i + 1 = 1 + i
        BY <1>2, <1>4
      <3>2. u[i] = t[i] /\ t[i] = s[i + 1]
        BY <1>4, <2>1, <3>1
      <3> QED
        BY <1>1, <3>1, <3>2
    <2>3. u = b
      BY <2>1, <2>2, SeqEqual
    <2> QED
      BY <2>3 DEF u
  <1>6. Drop(t, Len(b)) = r
    <2> DEFINE u == SubSeq(t, Len(b) + 1, Len(t))
    <2>1. /\ u \in Seq(T) /\ Len(u) = Len(r)
          /\ \A i \in 1 .. Len(r) : u[i] = t[Len(b) + i]
      BY <1>2, <1>4
    <2> HIDE DEF u
    <2>2. ASSUME NEW i \in 1 .. Len(r) PROVE u[i] = r[i]
      <3>1. Len(b) + i \in 1 .. Len(t) /\ Len(b) + i + 1 = 1 + Len(b) + i
        BY <1>2, <1>4
      <3>2. u[i] = t[Len(b) + i] /\ t[Len(b) + i] = s[Len(b) + i + 1]
        BY <1>4, <2>1, <3>1
      <3> QED
        BY <1>1, <3>1, <3>2
    <2>3. u = r
      BY <2>1, <2>2, SeqEqual
    <2> QED
      BY <2>3 DEF u, Drop
  <1> QED
    BY <1>1, <1>3, <1>5, <1>6 DEF s, t

\* The numbers below 256 are bytes.
LEMMA SmallIsByte == \A n \in Nat : n < 256 => n \in Byte
  BY DEF Byte

\* An integer is a sequence of eight bytes.
LEMMA EightBytes ==
    ASSUME NEW x \in Int64
    PROVE  x \in Seq(Byte) /\ Len(x) = 8 /\ DOMAIN x = 1 .. 8
  <1>1. x \in [1 .. 8 -> Byte] /\ DOMAIN x = 1 .. 8
    BY DEF Int64
  <1>2. x \in Seq(Byte)
    <2>1. 8 \in Nat
      OBVIOUS
    <2>2. x \in UNION {[1 .. n -> Byte] : n \in Nat}
      BY <1>1, <2>1, Zenon
    <2> QED
      BY <2>2, SeqDef, Zenon
  <1>3. Len(x) = 8
    <2>1. Len(x) \in Nat /\ DOMAIN x = 1 .. Len(x)
      BY <1>2, LenProperties
    <2> QED
      BY <1>1, <2>1
  <1> QED
    BY <1>1, <1>2, <1>3

IntegerMark == 200 .. 203
Widths == {1, 2, 4, 8}

\* The sign extension of the last bytes of an integer is the integer.
LEMMA ExtendedFits ==
    ASSUME NEW x \in Int64, NEW n \in Widths, Fits(x, n)
    PROVE  /\ LastBytes(x, n) \in Seq(Byte) /\ Len(LastBytes(x, n)) = n
           /\ Extended(LastBytes(x, n)) = x
  <1> DEFINE b == LastBytes(x, n)
  <1>1. x \in Seq(Byte) /\ Len(x) = 8 /\ n \in 1 .. 8
    BY EightBytes DEF Widths
  <1>2. b \in Seq(Byte) /\ Len(b) = n /\ \A i \in 1 .. n : b[i] = x[8 - n + i]
    <2>1. /\ 9 - n \in Int /\ 8 \in Int /\ 9 - n <= 8 /\ 8 - (9 - n) + 1 = n
          /\ \A i \in 9 - n .. 8 : i \in 1 .. 8
      BY <1>1
    <2>2. \A i \in 9 - n .. 8 : x[i] \in Byte
      BY <1>1, <2>1, ElementOfSeq
    <2>3. /\ b \in Seq(Byte) /\ Len(b) = 8 - (9 - n) + 1
          /\ \A i \in 1 .. 8 - (9 - n) + 1 : b[i] = x[(9 - n) + i - 1]
      BY <2>1, <2>2, SubSeqProperties DEF LastBytes
    <2>4. ASSUME NEW i \in 1 .. n PROVE b[i] = x[8 - n + i]
      <3>1. (9 - n) + i - 1 = 8 - n + i
        BY <1>1
      <3>2. i \in 1 .. 8 - (9 - n) + 1
        BY <2>1
      <3> QED
        BY <2>3, <3>1, <3>2
    <2> QED
      BY <2>1, <2>3, <2>4
  <1> HIDE DEF b
  <1> DEFINE e == Extended(b)
  <1>3. e = [i \in 1 .. 8 |-> IF i > 8 - n THEN b[i - 8 + n]
                              ELSE IF b[1] < 128 THEN 0 ELSE 255]
    BY <1>2 DEF Extended
  <1>4. ASSUME NEW i \in 1 .. 8 PROVE e[i] = x[i]
    <2>1. CASE i > 8 - n
      <3>1. i - 8 + n \in 1 .. n /\ 8 - n + (i - 8 + n) = i
        BY <1>1, <2>1
      <3>2. b[i - 8 + n] = x[i]
        BY <1>2, <3>1
      <3> QED
        BY <1>3, <2>1, <3>2
    <2>2. CASE ~(i > 8 - n)
      <3>1. i \in 1 .. 8 - n
        BY <1>1, <2>2
      <3>2. x[i] = IF x[9 - n] < 128 THEN 0 ELSE 255
        BY <3>1 DEF Fits
      <3>3. b[1] = x[9 - n]
        <4>1. 1 \in 1 .. n /\ 8 - n + 1 = 9 - n
          BY <1>1
        <4> QED
          BY <1>2, <4>1
      <3> QED
        BY <1>3, <2>2, <3>2, <3>3
    <2> QED
      BY <2>1, <2>2
  <1>5. e = x
    <2>1. DOMAIN e = 1 .. 8
      BY <1>3
    <2>2. e = [i \in 1 .. 8 |-> e[i]] /\ x = [i \in 1 .. 8 |-> x[i]]
      BY <1>3 DEF Int64
    <2> HIDE DEF e
    <2> QED
      BY <1>4, <2>2
  <1> QED
    BY <1>2, <1>5 DEF b, e

\* What marker_type and unload_integer make of a stream, the integer x behind which is r.
Reads(s, x, r) ==
    /\ s # <<>> /\ Head(s) \in Byte /\ MarkerType(Head(s)) = "integer"
    /\ Integer(Head(s), Tail(s)) = x
    /\ Drop(Tail(s), IntegerBytes(Head(s))) = r

\* The markers of integers.
LEMMA IntegerMarker ==
    ASSUME NEW m \in Nat, m < 128 \/ m \in 200 .. 203 \/ m >= 240
    PROVE  MarkerType(m) = "integer"
  BY DEF MarkerType

\* An integer behind a marker is read.
LEMMA MarkedReads ==
    ASSUME NEW T, Byte \subseteq T, NEW x \in Int64, NEW n \in Widths, Fits(x, n),
           NEW m \in IntegerMark, IntegerBytes(m) = n, NEW r \in Seq(T),
           LoadInteger(x) = <<m>> \o LastBytes(x, n)
    PROVE  Reads(LoadInteger(x) \o r, x, r)
  <1> DEFINE b == LastBytes(x, n)
             s == (<<m>> \o b) \o r
  <1>1. b \in Seq(Byte) /\ Len(b) = n /\ Extended(b) = x
    BY ExtendedFits
  <1> HIDE DEF b
  <1>2. m \in Byte /\ m \in T
    <2>1. m \in Nat /\ m < 256
      BY DEF IntegerMark
    <2>2. m \in Byte
      BY <2>1, SmallIsByte
    <2> QED
      BY <2>2
  <1>3. b \in Seq(T)
    BY <1>1, SeqMonotonic
  <1>4. /\ s # <<>>
        /\ Head(s) = m /\ SubSeq(Tail(s), 1, Len(b)) = b /\ Drop(Tail(s), Len(b)) = r
    <2>1. m \in T /\ b \in Seq(T) /\ r \in Seq(T)
      BY <1>2, <1>3
    <2> QED
      BY <2>1, MarkedIs
  <1> HIDE DEF s
  <1>5. MarkerType(m) = "integer"
    <2>1. m \in Nat /\ m \in 200 .. 203
      BY DEF IntegerMark
    <2> QED
      BY <2>1, IntegerMarker
  <1>6. Integer(m, Tail(s)) = x
    <2>1. Integer(m, Tail(s)) = Extended(SubSeq(Tail(s), 1, n))
      BY DEF Integer, Widths
    <2> QED
      BY <1>1, <1>4, <2>1
  <1>7. Reads(s, x, r)
    BY <1>1, <1>2, <1>4, <1>5, <1>6 DEF Reads
  <1>8. LoadInteger(x) \o r = s
    BY DEF s, b
  <1> QED
    BY <1>7, <1>8

(* Every 64-bit integer that load_integer writes, in front of whatever      *)
(* comes next in the buffer, has the marker of an integer, unload_integer   *)
(* reads the same integer, and what comes next is where it stops.           *)
THEOREM IntegersArrive ==
    \A T : Byte \subseteq T => \A x \in Int64, r \in Seq(T) : Reads(LoadInteger(x) \o r, x, r)
  <1> SUFFICES ASSUME NEW T, Byte \subseteq T, NEW x \in Int64, NEW r \in Seq(T)
               PROVE  Reads(LoadInteger(x) \o r, x, r)
    OBVIOUS
  <1>1. CASE Fits(x, 1) /\ (x[8] < 128 \/ x[8] >= 240)
    <2> DEFINE b == LastBytes(x, 1)
               none == <<>>
               m == x[8]
               s == (<<m>> \o none) \o r
    <2>1. b \in Seq(Byte) /\ Len(b) = 1 /\ Extended(b) = x
      BY <1>1, ExtendedFits DEF Widths
    <2>2. m \in Byte /\ m \in T /\ b[1] = m
      <3>1. x \in Seq(Byte) /\ Len(x) = 8
        BY EightBytes
      <3> QED
        BY <3>1 DEF LastBytes, Int64
    <2> HIDE DEF b
    <2>3. b = <<m>>
      BY <2>1, <2>2
    <2>4. none \in Seq(T) /\ Len(none) = 0 /\ <<m>> \o none = <<m>>
      BY <2>2
    <2>5. LoadInteger(x) \o r = s
      <3>1. LoadInteger(x) = b
        BY <1>1 DEF LoadInteger, b
      <3> QED
        BY <2>3, <2>4, <3>1
    <2> HIDE DEF m, none
    <2>6. /\ s # <<>>
          /\ Head(s) = m /\ SubSeq(Tail(s), 1, Len(none)) = none /\ Drop(Tail(s), Len(none)) = r
      <3>1. m \in T /\ none \in Seq(T) /\ r \in Seq(T)
        BY <2>2, <2>4
      <3> QED
        BY <3>1, MarkedIs
    <2> HIDE DEF s
    <2>7. MarkerType(m) = "integer" /\ IntegerBytes(m) = 0
      <3>1. m < 128 \/ m >= 240
        BY <1>1 DEF m
      <3>2. m \in Nat
        <4>1. m \in Byte
          BY <2>2
        <4> QED
          BY <4>1 DEF Byte
      <3>3. m \notin 200 .. 203
        BY <3>1, <3>2
      <3> QED
        BY <3>1, <3>2, <3>3, IntegerMarker DEF IntegerBytes
    <2>8. Integer(m, Tail(s)) = x
      BY <2>1, <2>3, <2>7 DEF Integer
    <2> QED
      BY <2>2, <2>4, <2>5, <2>6, <2>7, <2>8 DEF Reads
  <1>2. CASE Fits(x, 1) /\ ~(x[8] < 128 \/ x[8] >= 240)
    <2> DEFINE m == 200
               n == 1
    <2>1. m \in IntegerMark /\ n \in Widths /\ IntegerBytes(m) = n
      BY DEF IntegerMark, Widths, IntegerBytes
    <2>2. Fits(x, n) /\ LoadInteger(x) = <<m>> \o LastBytes(x, n)
      BY <1>2 DEF LoadInteger
    <2> HIDE DEF m, n
    <2> QED
      BY <2>1, <2>2, MarkedReads
  <1>3. CASE ~Fits(x, 1) /\ Fits(x, 2)
    <2> DEFINE m == 201
               n == 2
    <2>1. m \in IntegerMark /\ n \in Widths /\ IntegerBytes(m) = n
      BY DEF IntegerMark, Widths, IntegerBytes
    <2>2. Fits(x, n) /\ LoadInteger(x) = <<m>> \o LastBytes(x, n)
      BY <1>3 DEF LoadInteger
    <2> HIDE DEF m, n
    <2> QED
      BY <2>1, <2>2, MarkedReads
  <1>4. CASE ~Fits(x, 1) /\ ~Fits(x, 2) /\ Fits(x, 4)
    <2> DEFINE m == 202
               n == 4
    <2>1. m \in IntegerMark /\ n \in Widths /\ IntegerBytes(m) = n
      BY DEF IntegerMark, Widths, IntegerBytes
    <2>2. Fits(x, n) /\ LoadInteger(x) = <<m>> \o LastBytes(x, n)
      BY <1>4 DEF LoadInteger
    <2> HIDE DEF m, n
    <2> QED
      BY <2>1, <2>2, MarkedReads
  <1>5. CASE ~Fits(x, 1) /\ ~Fits(x, 2) /\ ~Fits(x, 4)
    <2> DEFINE m == 203
               n == 8
    <2>1. m \in IntegerMark /\ n \in Widths /\ IntegerBytes(m) = n
      BY DEF IntegerMark, Widths, IntegerBytes
    <2>2. Fits(x, n)
      BY DEF Fits
    <2>3. LastBytes(x, n) = x
      <3>1. x \in Seq(Byte) /\ Len(x) = 8
        BY EightBytes
      <3>2. SubSeq(x, 1, 8) = x
        BY <3>1
      <3> QED
        BY <3>2 DEF LastBytes
    <2>4. LoadInteger(x) = <<m>> \o LastBytes(x, n)
      <3>1. LoadInteger(x) = <<m>> \o x
        BY <1>5 DEF LoadInteger
      <3> QED
        BY <2>3, <3>1
    <2> HIDE DEF m, n
    <2> QED
      BY <2>1, <2>2, <2>4, MarkedReads
  <1> QED
    BY <1>1, <1>2, <1>3, <1>4, <1>5

\* The sizes in two bytes, and all sizes: what an int32_t holds.
Short == {n \in Nat : n < 65536}
Counts == {n \in Nat : n < 2147483648}

\* A size is the number that its two or four bytes are.
LEMMA TwoBytes ==
    ASSUME NEW n \in Short
    PROVE  /\ U16(n) \in Seq(Byte) /\ Len(U16(n)) = 2 /\ SizeIn(U16(n)) = n
  <1> DEFINE h == n \div 256
             l == n % 256
  <1>1. n \in Nat /\ h \in Nat /\ h <= 255 /\ l \in Nat /\ l <= 255 /\ 256 * h + l = n
    <2>1. n \in Short
      OBVIOUS
    <2>2. n \in Nat /\ n <= 65535
      BY <2>1, SMT DEF Short
    <2> QED
      BY <2>2, SMT
  <1>2. U16(n) = <<h, l>>
    BY SMT DEF U16
  <1> HIDE DEF h, l
  <1> DEFINE b == <<h, l>>
  <1>3. h \in Byte /\ l \in Byte
    BY <1>1, SMT DEF Byte
  <1>4. b \in Seq(Byte) /\ Len(b) = 2 /\ b[1] = h /\ b[2] = l
    BY <1>3, SMT
  <1> HIDE DEF b
  <1>5. SizeIn(b) = 256 * h + l
    BY <1>4, SMT DEF SizeIn
  <1> QED
    BY <1>1, <1>2, <1>4, <1>5, SMT DEF b

\* The same for the largest sizes.
LEMMA FourBytes ==
    ASSUME NEW n \in Counts
    PROVE  /\ I32(n) \in Seq(Byte) /\ Len(I32(n)) = 4 /\ SizeIn(I32(n)) = n
  <1> DEFINE p == n \div 256
             q == n \div 65536
             h == n \div 16777216
             i == q % 256
             j == p % 256
             l == n % 256
  <1>1. n \in Nat /\ n <= 2147483647
    <2>1. n \in Counts
      OBVIOUS
    <2> QED
      BY <2>1, SMT DEF Counts
  <1>2. /\ p \in Nat /\ q \in Nat /\ h \in Nat /\ h <= 127
        /\ i \in Nat /\ i <= 255 /\ j \in Nat /\ j <= 255 /\ l \in Nat /\ l <= 255
    BY <1>1, SMT
  <1>3. n = 256 * p + l
    BY <1>1, SMT
  <1>4. p = 256 * q + j
    BY <1>1, SMT
  <1>5. q = 256 * h + i
    BY <1>1, SMT
  <1>6. I32(n) = <<h, i, j, l>>
    BY SMT DEF I32
  <1> HIDE DEF h, i, j, l, p, q
  <1>7. 16777216 * h + 65536 * i + 256 * j + l = n
    BY <1>1, <1>2, <1>3, <1>4, <1>5, SMT
  <1> DEFINE b == <<h, i, j, l>>
  <1>8. h \in Byte /\ i \in Byte /\ j \in Byte /\ l \in Byte
    BY <1>2, SMT DEF Byte
  <1>9. b \in Seq(Byte) /\ Len(b) = 4 /\ b[1] = h /\ b[2] = i /\ b[3] = j /\ b[4] = l
    BY <1>8, SMT
  <1> HIDE DEF b
  <1>10. SizeIn(b) = 16777216 * h + 65536 * i + 256 * j + l
    BY <1>2, <1>9, SMT DEF SizeIn, Signed
  <1> QED
    BY <1>6, <1>7, <1>9, <1>10, SMT DEF b

Headed == {"bytes", "string", "list", "dictionary"}

\* What marker_type and unload_string, or one like it, make of a stream.
ReadsHeader(s, type, size, r) ==
    /\ s # <<>> /\ Head(s) \in Byte /\ MarkerType(Head(s)) = type
    /\ HeaderSize(Head(s), Tail(s)) = size
    /\ Drop(Tail(s), SizeBytes(Head(s))) = r

\* The markers that are followed by a size.
LEMMA SizedMarker ==
    ASSUME NEW type \in Headed, NEW k \in 0 .. 2
    PROVE  LET m == Sized[type] + k
           IN  /\ m \in Byte /\ ~(m < 192) /\ MarkerType(m) = type
               /\ SizeBytes(m) = <<1, 2, 4>>[k + 1]
  <1> DEFINE m == Sized[type] + k
  <1>1. k = 0 \/ k = 1 \/ k = 2
    OBVIOUS
  <1>2. CASE type = "bytes"
    <2>1. m = 204 + k
      BY <1>2 DEF Sized
    <2> HIDE DEF m
    <2>2. m \in Nat /\ m >= 204 /\ m <= 206 /\ m % 4 = k
      BY <1>1, <2>1
    <2> QED
      BY <1>2, <2>2 DEF m, Byte, MarkerType, SizeBytes
  <1>3. CASE type = "string"
    <2>1. m = 208 + k
      BY <1>3 DEF Sized
    <2> HIDE DEF m
    <2>2. m \in Nat /\ m >= 208 /\ m <= 210 /\ m % 4 = k
      BY <1>1, <2>1
    <2> QED
      BY <1>3, <2>2 DEF m, Byte, MarkerType, SizeBytes
  <1>4. CASE type = "list"
    <2>1. m = 212 + k
      BY <1>4 DEF Sized
    <2> HIDE DEF m
    <2>2. m \in Nat /\ m >= 212 /\ m <= 214 /\ m % 4 = k
      BY <1>1, <2>1
    <2> QED
      BY <1>4, <2>2 DEF m, Byte, MarkerType, SizeBytes
  <1>5. CASE type = "dictionary"
    <2>1. m = 216 + k
      BY <1>5 DEF Sized
    <2> HIDE DEF m
    <2>2. m \in Nat /\ m >= 216 /\ m <= 218 /\ m % 4 = k
      BY <1>1, <2>1
    <2> QED
      BY <1>5, <2>2 DEF m, Byte, MarkerType, SizeBytes
  <1> QED
    BY <1>2, <1>3, <1>4, <1>5 DEF Headed

\* The size that a tiny marker holds.
LEMMA TinyMarker ==
    ASSUME NEW type \in Headed \ {"bytes"}, NEW size \in 0 .. 15
    PROVE  LET m == Tiny[type] + size
           IN  m \in Byte /\ m < 192 /\ MarkerType(m) = type /\ m % 16 = size
  <1> DEFINE m == Tiny[type] + size
  <1>1. CASE type = "string"
    <2>1. m = 128 + size
      BY <1>1 DEF Tiny
    <2> HIDE DEF m
    <2>2. m \in Nat /\ m >= 128 /\ m <= 143 /\ m % 16 = size
      BY <2>1
    <2> QED
      BY <1>1, <2>2 DEF m, Byte, MarkerType
  <1>2. CASE type = "list"
    <2>1. m = 144 + size
      BY <1>2 DEF Tiny
    <2> HIDE DEF m
    <2>2. m \in Nat /\ m >= 144 /\ m <= 159 /\ m % 16 = size
      BY <2>1
    <2> QED
      BY <1>2, <2>2 DEF m, Byte, MarkerType
  <1>3. CASE type = "dictionary"
    <2>1. m = 160 + size
      BY <1>3 DEF Tiny
    <2> HIDE DEF m
    <2>2. m \in Nat /\ m >= 160 /\ m <= 175 /\ m % 16 = size
      BY <2>1
    <2> QED
      BY <1>3, <2>2 DEF m, Byte, MarkerType
  <1> QED
    BY <1>1, <1>2, <1>3 DEF Headed

\* A size behind a marker is read.
LEMMA SizedReads ==
    ASSUME NEW T, Byte \subseteq T, NEW type \in Headed, NEW size \in Counts,
           NEW k \in 0 .. 2, NEW b \in Seq(Byte),
           Len(b) = <<1, 2, 4>>[k + 1], SizeIn(b) = size, NEW r \in Seq(T)
    PROVE  ReadsHeader((<<Sized[type] + k>> \o b) \o r, type, size, r)
  <1> DEFINE m == Sized[type] + k
             s == (<<m>> \o b) \o r
  <1>1. m \in Byte /\ ~(m < 192) /\ MarkerType(m) = type /\ SizeBytes(m) = Len(b)
    BY SizedMarker
  <1> HIDE DEF m
  <1>2. m \in T
    BY <1>1
  <1>3. b \in Seq(T)
    BY SeqMonotonic
  <1>4. /\ s # <<>>
        /\ Head(s) = m /\ SubSeq(Tail(s), 1, Len(b)) = b /\ Drop(Tail(s), Len(b)) = r
    <2>1. m \in T /\ b \in Seq(T) /\ r \in Seq(T)
      BY <1>2, <1>3
    <2> QED
      BY <2>1, MarkedIs
  <1> HIDE DEF s
  <1>5. HeaderSize(m, Tail(s)) = size
    <2>1. HeaderSize(m, Tail(s)) = SizeIn(SubSeq(Tail(s), 1, SizeBytes(m)))
      BY <1>1 DEF HeaderSize
    <2> QED
      BY <1>1, <1>4, <2>1
  <1>6. ReadsHeader(s, type, size, r)
    BY <1>1, <1>4, <1>5 DEF ReadsHeader
  <1> QED
    BY <1>6 DEF s, m

(* Every size up to INT32_MAX that load_bytes, load_string_header,          *)
(* load_list_header or load_map_header writes, in front of the contents,    *)
(* has a marker of its type, unload_bytes, unload_string, unload_list or    *)
(* unload_map reads the same size, and the contents begin where it stops.   *)
THEOREM SizesArrive ==
    \A T : Byte \subseteq T =>
        \A type \in Headed, size \in Counts, r \in Seq(T) :
            ReadsHeader(LoadHeader(type, size) \o r, type, size, r)
  <1> SUFFICES ASSUME NEW T, Byte \subseteq T, NEW type \in Headed, NEW size \in Counts,
                      NEW r \in Seq(T)
               PROVE  ReadsHeader(LoadHeader(type, size) \o r, type, size, r)
    OBVIOUS
  <1>0. size \in Nat
    <2>1. size \in Counts
      OBVIOUS
    <2> QED
      BY <2>1, SMT DEF Counts
  <1>1. CASE type # "bytes" /\ size < 16
    <2> DEFINE none == <<>>
               m == Tiny[type] + size
               s == (<<m>> \o none) \o r
    <2>1. type \in Headed \ {"bytes"} /\ size \in 0 .. 15
      BY <1>1, <1>0, SMT
    <2>2. m \in Byte /\ m < 192 /\ MarkerType(m) = type /\ m % 16 = size
      BY <2>1, TinyMarker
    <2>3. LoadHeader(type, size) = <<m>>
      BY <1>1, SMT DEF LoadHeader
    <2> HIDE DEF m
    <2>4. m \in T
      BY <2>2
    <2>5. none \in Seq(T) /\ Len(none) = 0 /\ <<m>> \o none = <<m>>
      BY <2>4
    <2>6. LoadHeader(type, size) \o r = s
      BY <2>3, <2>5
    <2> HIDE DEF none
    <2>7. /\ s # <<>>
          /\ Head(s) = m /\ SubSeq(Tail(s), 1, Len(none)) = none /\ Drop(Tail(s), Len(none)) = r
      <3>1. m \in T /\ none \in Seq(T) /\ r \in Seq(T)
        BY <2>4, <2>5
      <3> QED
        BY <3>1, MarkedIs
    <2> HIDE DEF s
    <2>8. HeaderSize(m, Tail(s)) = size /\ SizeBytes(m) = 0
      BY <2>2 DEF HeaderSize, SizeBytes
    <2> QED
      BY <2>2, <2>5, <2>6, <2>7, <2>8 DEF ReadsHeader
  <1>2. CASE ~(type # "bytes" /\ size < 16) /\ size < 256
    <2> DEFINE b == <<size>>
    <2>1. size \in Byte
      <3>1. size \in Nat /\ size < 256
        BY <1>2, <1>0
      <3> QED
        BY <3>1, SmallIsByte
    <2>2. b \in Seq(Byte) /\ Len(b) = 1 /\ b[1] = size
      BY <2>1
    <2>3. LoadHeader(type, size) = <<Sized[type]>> \o b
      <3>1. LoadHeader(type, size) = <<Sized[type], size>>
        BY <1>2, SMT DEF LoadHeader
      <3> QED
        BY <3>1
    <2> HIDE DEF b
    <2>4. SizeIn(b) = size
      BY <2>2 DEF SizeIn
    <2>5. 0 \in 0 .. 2 /\ Len(b) = <<1, 2, 4>>[0 + 1] /\ Sized[type] + 0 = Sized[type]
      BY <2>2 DEF Headed, Sized
    <2>6. ReadsHeader((<<Sized[type] + 0>> \o b) \o r, type, size, r)
      BY <2>2, <2>4, <2>5, SizedReads
    <2> QED
      BY <2>3, <2>5, <2>6
  <1>3. CASE ~(size < 256) /\ size < 65536
    <2> DEFINE b == U16(size)
    <2>1. size \in Short
      BY <1>3, <1>0, SMT DEF Short
    <2>2. b \in Seq(Byte) /\ Len(b) = 2 /\ SizeIn(b) = size
      BY <2>1, TwoBytes
    <2>3. LoadHeader(type, size) = <<Sized[type] + 1>> \o b
      BY <1>3, <1>0, SMT DEF LoadHeader
    <2> HIDE DEF b
    <2>4. 1 \in 0 .. 2 /\ Len(b) = <<1, 2, 4>>[1 + 1]
      BY <2>2
    <2>5. ReadsHeader((<<Sized[type] + 1>> \o b) \o r, type, size, r)
      BY <2>2, <2>4, SizedReads
    <2> QED
      BY <2>3, <2>5
  <1>4. CASE ~(size < 65536)
    <2> DEFINE b == I32(size)
    <2>1. b \in Seq(Byte) /\ Len(b) = 4 /\ SizeIn(b) = size
      BY FourBytes
    <2>2. LoadHeader(type, size) = <<Sized[type] + 2>> \o b
      BY <1>4, <1>0, SMT DEF LoadHeader
    <2> HIDE DEF b
    <2>3. 2 \in 0 .. 2 /\ Len(b) = <<1, 2, 4>>[2 + 1]
      BY <2>1
    <2>4. ReadsHeader((<<Sized[type] + 2>> \o b) \o r, type, size, r)
      BY <2>1, <2>3, SizedReads
    <2> QED
      BY <2>2, <2>4
  <1> QED
    BY <1>1, <1>2, <1>3, <1>4, <1>0, SMT
=============================================================================
