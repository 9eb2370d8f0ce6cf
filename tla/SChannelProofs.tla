--------------------------- MODULE SChannelProofs ---------------------------
(***************************************************************************)
(* Proofs about SChannel.  A session is used only with a server that was   *)
(* verified against the certificates of the settings.  What is received    *)
(* and what is sent are streams of units that go on where the last one     *)
(* ended, however the socket cuts them: from that follow the order of the  *)
(* plain text in both directions, and the types.  A stream is framed when  *)
(* there are positions to cut it at; so no proof needs an induction over   *)
(* the units of it, only what a first or another last unit changes.        *)
(***************************************************************************)
EXTENDS SChannel, SequenceTheorems, TLAPS

-----------------------------------------------------------------------------
(* The server that is verified: the inductive invariant *)

(* Where there is a session, or one is being opened. *)
InSession == {"handshake", "token", "verify", "sizes", "ready", "encrypt", "recv", "decrypt"}

(* The context is made from the settings.  There is one wherever the       *)
(* thread may come to verify a server, also after a send that is under     *)
(* way; the close takes it away.                                           *)
ContextOK ==
    /\ sec_ctx \in {NoContext, SecurityContext(trust)}
    /\ then \in {"none", "handshake", "ready", "encrypt", "opening", "defunct", "closed"}
    /\ pc \in InSession \/ (pc = "sending" /\ then \in InSession) => sec_ctx.null = FALSE

PeerInv == ContextOK /\ VerifiedPeer

-----------------------------------------------------------------------------
(* Lemmas *)

\* The chain is accepted only if each fault is excused by its own setting.
LEMMA ChainVerified ==
    ASSUME NEW ctx, NEW c, NEW t, VerifyChain(ctx, c, t)
    PROVE  /\ c.issuer \in ctx.roots \/ t.skip_verify
           /\ c.named \/ t.skip_verify_hostname
  BY DEF VerifyChain, PolicyError

\* The roots of a context that was made from the settings.
LEMMA RootsOfSettings ==
    ASSUME ContextOK, sec_ctx.null = FALSE
    PROVE  sec_ctx.roots = IF trust.certs = <<>> THEN {"system"} ELSE Range(trust.certs) \cap SelfSigned
  <1>1. sec_ctx # NoContext
    BY DEF NoContext
  <1>2. sec_ctx = SecurityContext(trust)
    BY <1>1 DEF ContextOK
  <1>3. CASE trust.certs = <<>>
    BY <1>2, <1>3 DEF SecurityContext
  <1>4. CASE trust.certs # <<>>
    BY <1>1, <1>2, <1>4 DEF SecurityContext, LoadCerts
  <1> QED
    BY <1>3, <1>4

-----------------------------------------------------------------------------
(* The steps *)

\* A step that is not a verification and keeps the context and the settings.
LEMMA PeerKept ==
    ASSUME PeerInv, UNCHANGED <<trust, sec_ctx>>, pc' # "sizes",
           then' \in {"none", "handshake", "ready", "encrypt", "opening", "defunct", "closed"},
           pc' \in InSession \/ (pc' = "sending" /\ then' \in InSession) =>
               pc \in InSession \/ (pc = "sending" /\ then \in InSession)
    PROVE  PeerInv'
  BY DEF PeerInv, ContextOK, VerifiedPeer

\* A call that fails ends the session.
LEMMA PeerFails ==
    ASSUME PeerInv, Fail
    PROVE  PeerInv'
  <1>1. pc' \in {"closed", "opening", "defunct"} /\ UNCHANGED <<trust, sec_ctx, then>>
    BY DEF Fail, FailedPc, session, sendvars
  <1> QED
    BY <1>1, PeerKept DEF InSession, PeerInv, ContextOK

\* Every step preserves the invariant.
LEMMA PeerStep ==
    ASSUME PeerInv, [Next]_vars
    PROVE  PeerInv'
  <1> USE DEF InSession
  <1>1. CASE Connect
    <2>1. trust' = trust /\ pc = "opening"
      BY <1>1 DEF Connect
    <2>2. CASE UNCHANGED <<pc, sec_ctx, then>>
      BY <2>1, <2>2, PeerKept DEF PeerInv, ContextOK
    <2>3. CASE /\ sec_ctx' = IF sec_ctx.null THEN SecurityContext(trust) ELSE sec_ctx
               /\ \/ pc' = "crashed" /\ then' = then
                  \/ ~sec_ctx'.null /\ pc' = "sending" /\ then' = "handshake"
      <3>1. sec_ctx' \in {NoContext, SecurityContext(trust)}
        BY <2>3 DEF PeerInv, ContextOK
      <3>2. CASE pc' = "crashed" /\ then' = then
        BY <2>1, <3>1, <3>2 DEF PeerInv, ContextOK, VerifiedPeer
      <3>3. CASE ~sec_ctx'.null /\ pc' = "sending" /\ then' = "handshake"
        <4>1. sec_ctx'.null = FALSE
          BY <3>1, <3>3 DEF NoContext, SecurityContext, LoadCerts
        <4> QED
          BY <2>1, <3>1, <3>3, <4>1 DEF PeerInv, ContextOK, VerifiedPeer
      <3> QED
        BY <2>3, <3>2, <3>3
    <2> QED
      BY <1>1, <2>2, <2>3 DEF Connect
  <1>2. CASE OpenFails
    BY <1>2, PeerKept DEF OpenFails, PeerInv, ContextOK, session, sendvars
  <1>3. CASE SendSome
    <2>1. /\ pc = "sending" /\ UNCHANGED <<trust, sec_ctx>>
          /\ (pc' = pc /\ then' = then) \/ (pc' = then /\ then' = "none")
      BY <1>3 DEF SendSome, SendSomeFrom, session
    <2> QED
      BY <2>1, PeerKept DEF PeerInv, ContextOK
  <1>4. CASE HandshakeRead
    BY <1>4, PeerKept DEF HandshakeRead, PeerInv, ContextOK, session, sendvars
  <1>5. CASE HandshakeKeeps
    BY <1>5, PeerKept DEF HandshakeKeeps, PeerInv, ContextOK, session, sendvars
  <1>6. CASE TokenIncomplete
    BY <1>6, PeerKept DEF TokenIncomplete, PeerInv, ContextOK, session, sendvars
  <1>7. CASE TokenRefused
    <2>1. /\ UNCHANGED <<trust, sec_ctx>>
          /\ (pc' = FailedPc /\ then' = then) \/ (pc' = "sending" /\ then' = FailedPc)
      BY <1>7 DEF TokenRefused, session
    <2>2. FailedPc \in {"closed", "opening", "defunct"}
      BY DEF FailedPc
    <2> QED
      BY <2>1, <2>2, PeerKept DEF PeerInv, ContextOK
  <1>8. CASE TokenContinue
    <2>1. /\ pc = "token" /\ UNCHANGED <<trust, sec_ctx>>
          /\ (pc' = "sending" /\ then' = "handshake") \/ (pc' = "handshake" /\ then' = then)
      BY <1>8 DEF TokenContinue, session
    <2> QED
      BY <2>1, PeerKept DEF PeerInv, ContextOK
  <1>9. CASE TokenLast
    BY <1>9, PeerKept DEF TokenLast, PeerInv, ContextOK, session, sendvars
  <1>10. CASE Verify
    <2>1. pc = "verify" /\ UNCHANGED <<trust, sec_ctx, then>>
      BY <1>10 DEF Verify, sendvars
    <2>2. PICK c \in Certs : IF VerifyChain(sec_ctx, c, trust)
                             THEN pc' = "sizes" /\ cert' = c
                             ELSE pc' = "opening" /\ UNCHANGED cert
      BY <1>10 DEF Verify
    <2>3. CASE ~VerifyChain(sec_ctx, c, trust)
      BY <2>1, <2>2, <2>3, PeerKept DEF PeerInv, ContextOK
    <2>4. CASE VerifyChain(sec_ctx, c, trust)
      <3>1. sec_ctx.null = FALSE /\ sec_ctx \in {NoContext, SecurityContext(trust)}
        BY <2>1 DEF PeerInv, ContextOK
      <3>2. sec_ctx.roots = IF trust.certs = <<>> THEN {"system"} ELSE Range(trust.certs) \cap SelfSigned
        BY <3>1, RootsOfSettings DEF PeerInv
      <3>3. /\ c.issuer \in sec_ctx.roots \/ trust.skip_verify
            /\ c.named \/ trust.skip_verify_hostname
        BY <2>4, ChainVerified
      <3>4. pc' = "sizes" /\ cert' = c
        BY <2>2, <2>4
      <3>5. VerifiedPeer'
        BY <2>1, <3>2, <3>3, <3>4 DEF VerifiedPeer
      <3>6. ContextOK'
        BY <2>1, <3>1, <3>4 DEF PeerInv, ContextOK
      <3> QED
        BY <3>5, <3>6 DEF PeerInv
    <2> QED
      BY <2>3, <2>4
  <1>11. CASE StreamSizes
    BY <1>11, PeerKept DEF StreamSizes, PeerInv, ContextOK, sendvars
  <1>12. CASE Encrypt
    <2>1. /\ pc = "encrypt" /\ pc' = "sending" /\ then' \in {"ready", "encrypt"}
          /\ UNCHANGED <<trust, sec_ctx>>
      BY <1>12 DEF Encrypt, session
    <2> QED
      BY <2>1, PeerKept DEF PeerInv, ContextOK
  <1>13. CASE RecvSome
    BY <1>13, PeerKept DEF RecvSome, PeerInv, ContextOK, session, sendvars
  <1>14. CASE RecvKeeps
    BY <1>14, PeerKept DEF RecvKeeps, PeerInv, ContextOK, session, sendvars
  <1>15. CASE DecryptIncomplete
    BY <1>15, PeerKept DEF DecryptIncomplete, PeerInv, ContextOK, session, sendvars
  <1>16. CASE DecryptData
    BY <1>16, PeerKept DEF DecryptData, PeerInv, ContextOK, session, sendvars
  <1>17. CASE DecryptRenegotiate
    BY <1>17, PeerKept DEF DecryptRenegotiate, PeerInv, ContextOK, session, sendvars
  <1>18. CASE DecryptExpired
    BY <1>18, PeerKept DEF DecryptExpired, PeerInv, ContextOK, session, sendvars
  <1>19. CASE SendCall
    BY <1>19, PeerKept DEF SendCall, PeerInv, ContextOK, session
  <1>20. CASE RecvPending
    BY <1>20, PeerKept DEF RecvPending, PeerInv, ContextOK, session, sendvars
  <1>21. CASE RecvCall
    BY <1>21, PeerKept DEF RecvCall, RecvCallWhen, PeerInv, ContextOK, session, sendvars
  <1>22. CASE Close
    <2>1. /\ trust' = trust /\ sec_ctx' = NoContext /\ then' = "closed"
          /\ pc' \in {"closed", "sending"}
      BY <1>22 DEF Close
    <2> QED
      BY <2>1 DEF PeerInv, ContextOK, VerifiedPeer
  <1>23. CASE Destroy
    BY <1>23, PeerKept DEF Destroy, PeerInv, ContextOK, session, sendvars
  <1>24. CASE Failures
    <2>1. Fail
      BY <1>24 DEF Failures, SendFails, HandshakeReadFails, TokenFails, OpenBreaks, EncryptFails,
         RecvFails, DecryptFails
    <2> QED
      BY <2>1, PeerFails
  <1>25. CASE Server
    <2>1. UNCHANGED <<pc, trust, sec_ctx, cert, then>>
      BY <1>25 DEF Server, ServerReads, ServerSends, ServerRequests, ServerCloses, server_keeps,
         session, sendvars
    <2> QED
      BY <2>1 DEF PeerInv, ContextOK, VerifiedPeer
  <1>26. CASE UNCHANGED vars
    BY <1>26 DEF vars, session, sendvars, PeerInv, ContextOK, VerifiedPeer
  <1>27. CASE Client
    BY <1>1, <1>2, <1>3, <1>4, <1>5, <1>6, <1>7, <1>8, <1>9, <1>10, <1>11, <1>12, <1>13, <1>14,
       <1>15, <1>16, <1>17, <1>18, <1>27 DEF Client
  <1>28. CASE Caller
    BY <1>19, <1>20, <1>21, <1>22, <1>23, <1>28 DEF Caller
  <1> QED
    BY <1>27, <1>28, <1>24, <1>25, <1>26 DEF Next

-----------------------------------------------------------------------------
(* Theorems *)

\* Whatever servers are tried, the context that a server is verified with comes
\* from the settings, and there is one wherever a session may be.
THEOREM PeerInvariant == Spec => []PeerInv
  <1>1. Init => PeerInv
    BY DEF Init, PeerInv, ContextOK, VerifiedPeer, InSession, NoContext
  <1>2. PeerInv /\ [Next]_vars => PeerInv'
    BY PeerStep
  <1> QED
    BY <1>1, <1>2, PTL DEF Spec

\* secure_schannel_verify_chain lets a session go on only with a server whose
\* chain is trusted and whose name matches, or where the settings skip exactly
\* that check: for all certificates and settings.
THEOREM PeerIsVerified == Spec => []VerifiedPeer
  <1>1. PeerInv => VerifiedPeer
    BY DEF PeerInv
  <1> QED
    BY <1>1, PeerInvariant, PTL

-----------------------------------------------------------------------------
(* Bytes and units *)

(* What a byte is, and one of a session up to that with server n. *)
Kinds == {"token", "record", "request", "alert", "data", "blank"}
Bytes == [kind : Kinds, peer : Nat, v : Nat]
BytesUpTo(n) == [kind : Kinds, peer : 0 .. n, v : Nat]

(* A unit that begins at byte b, complete, no longer than recv_buffer; of   *)
(* the numbered plain text it carries what follows up to "to".              *)
UnitAt(s, b, from, to) ==
    /\ s[b].v <= MaxMessage + 1 /\ b + s[b].v <= Len(s)
    /\ IF s[b].kind = "record"
       THEN /\ s[b].v > 0 /\ to + 1 = from + s[b].v
            /\ \A i \in 1 .. s[b].v - 1 : s[b + i].v = from + i
       ELSE to = from

(* Where units begin, and how much plain text comes before. *)
Cuts(s, from, to, B, c) ==
    /\ B \subseteq 1 .. Len(s) + 1 /\ 1 \in B /\ Len(s) + 1 \in B
    /\ \A b \in B : c[b] \in 0 .. to
    /\ c[1] = from /\ c[Len(s) + 1] = to
    /\ \A b \in B : b <= Len(s) => b + s[b].v + 1 \in B /\ UnitAt(s, b, c[b], c[b + s[b].v + 1])

(* The bytes are units, with the plain text behind "from" up to "to". *)
Framed(s, from, to) == \E B, c : Cuts(s, from, to, B, c)

\* The bytes from position n + 1 on.
LEMMA RestIs ==
    ASSUME NEW S, NEW s \in Seq(S), NEW n \in 0 .. Len(s)
    PROVE  /\ SubSeq(s, n + 1, Len(s)) \in Seq(S)
           /\ Len(SubSeq(s, n + 1, Len(s))) = Len(s) - n
           /\ \A i \in 1 .. Len(s) - n : SubSeq(s, n + 1, Len(s))[i] = s[n + i]
  <1>1. \A i \in n + 1 .. Len(s) : s[i] \in S
    BY LenProperties
  <1>2. Len(s) \in Nat
    BY LenProperties
  <1> QED
    BY <1>1, <1>2, SubSeqProperties

\* The front of a sequence.
LEMMA FrontIs ==
    ASSUME NEW S, NEW s \in Seq(S), NEW n \in 0 .. Len(s)
    PROVE  /\ SubSeq(s, 1, n) \in Seq(S)
           /\ Len(SubSeq(s, 1, n)) = n
           /\ \A i \in 1 .. n : SubSeq(s, 1, n)[i] = s[i]
  <1>1. \A i \in 1 .. n : s[i] \in S
    BY LenProperties
  <1>2. Len(s) \in Nat
    BY LenProperties
  <1> QED
    BY <1>1, <1>2, SubSeqProperties

\* A sequence is its front and its rest.
LEMMA SplitAt ==
    ASSUME NEW S, NEW s \in Seq(S), NEW n \in 0 .. Len(s)
    PROVE  s = SubSeq(s, 1, n) \o SubSeq(s, n + 1, Len(s))
  <1>1. /\ 1 \in 1 .. Len(s) + 1 /\ n \in 1 - 1 .. Len(s) /\ Len(s) \in n .. Len(s)
    BY LenProperties
  <1>2. SubSeq(s, 1, n) \o SubSeq(s, n + 1, Len(s)) = SubSeq(s, 1, Len(s))
    BY <1>1, ConcatAdjacentSubSeq
  <1> QED
    BY <1>2, SubSeqFull

\* The two parts of a concatenation are its front and its rest.
LEMMA PartsOfConcat ==
    ASSUME NEW S, NEW a \in Seq(S), NEW b \in Seq(S)
    PROVE  /\ SubSeq(a \o b, 1, Len(a)) = a
           /\ SubSeq(a \o b, Len(a) + 1, Len(a \o b)) = b
  <1> DEFINE s == a \o b
             l == Len(a)
             k == Len(b)
  <1>1. /\ s \in Seq(S) /\ Len(s) = l + k /\ l \in Nat /\ k \in Nat
        /\ \A i \in 1 .. l + k : s[i] = IF i <= l THEN a[i] ELSE b[i - l]
    BY ConcatProperties, LenProperties
  <1> HIDE DEF s
  <1>2. l \in 0 .. Len(s)
    BY <1>1
  <1>3. SubSeq(s, 1, l) = a
    <2>1. /\ SubSeq(s, 1, l) \in Seq(S) /\ Len(SubSeq(s, 1, l)) = l
          /\ \A i \in 1 .. l : SubSeq(s, 1, l)[i] = s[i]
      BY <1>1, <1>2, FrontIs
    <2>2. \A i \in 1 .. l : SubSeq(s, 1, l)[i] = a[i]
      BY <1>1, <2>1
    <2> QED
      BY <2>1, <2>2, SeqEqual
  <1>4. SubSeq(s, l + 1, Len(s)) = b
    <2> DEFINE r == SubSeq(s, l + 1, Len(s))
    <2>1. /\ r \in Seq(S) /\ Len(r) = Len(s) - l
          /\ \A i \in 1 .. Len(s) - l : r[i] = s[l + i]
      BY <1>1, <1>2, RestIs
    <2> HIDE DEF r
    <2>2. Len(r) = k /\ \A i \in 1 .. k : r[i] = s[l + i]
      BY <1>1, <2>1
    <2>3. \A i \in 1 .. k : s[l + i] = b[i]
      <3> TAKE i \in 1 .. k
      <3>1. l + i \in 1 .. l + k /\ ~(l + i <= l) /\ (l + i) - l = i
        BY <1>1
      <3> QED
        BY <1>1, <3>1
    <2> QED
      BY <2>1, <2>2, <2>3, SeqEqual DEF r
  <1> QED
    BY <1>3, <1>4 DEF s

\* Cutting within the first part of a concatenation
LEMMA CutOfConcat ==
    ASSUME NEW S, NEW a \in Seq(S), NEW b \in Seq(S), NEW n \in 0 .. Len(a)
    PROVE  /\ SubSeq(a \o b, 1, n) = SubSeq(a, 1, n)
           /\ SubSeq(a \o b, n + 1, Len(a \o b)) = SubSeq(a, n + 1, Len(a)) \o b
  <1> DEFINE f == SubSeq(a, 1, n)
             r == SubSeq(a, n + 1, Len(a))
  <1>1. f \in Seq(S) /\ Len(f) = n /\ r \in Seq(S)
    BY FrontIs, RestIs
  <1>2. a = f \o r
    BY SplitAt
  <1> HIDE DEF f, r
  <1>3. a \o b = f \o (r \o b) /\ r \o b \in Seq(S)
    BY <1>1, <1>2, ConcatAssociative, ConcatProperties
  <1>4. SubSeq(f \o (r \o b), 1, Len(f)) = f
    BY <1>1, <1>3, PartsOfConcat
  <1>5. SubSeq(f \o (r \o b), Len(f) + 1, Len(f \o (r \o b))) = r \o b
    BY <1>1, <1>3, PartsOfConcat
  <1> QED
    BY <1>1, <1>3, <1>4, <1>5 DEF f, r

\* What a member of a sequence of bytes is.
LEMMA ByteIs ==
    ASSUME NEW s \in Seq(Bytes), NEW b \in 1 .. Len(s)
    PROVE  s[b] \in Bytes /\ s[b].v \in Nat /\ s[b].kind \in Kinds
  <1>1. s[b] \in Bytes
    BY ElementOfSeq
  <1> QED
    BY <1>1 DEF Bytes

\* A unit somewhere else is the same unit.
LEMMA UnitMoves ==
    ASSUME NEW s \in Seq(Bytes), NEW t \in Seq(Bytes), NEW b \in 1 .. Len(s), NEW a \in Nat,
           NEW from \in Nat, NEW to \in Nat, UnitAt(s, b, from, to),
           \A j \in 0 .. s[b].v : t[a + j] = s[b + j],
           a + s[b].v <= Len(t)
    PROVE  UnitAt(t, a, from, to)
  <1>1. s[b].v \in Nat /\ b \in Nat
    BY ByteIs, LenProperties
  <1> DEFINE v == s[b].v
  <1>2. v \in Nat
    BY <1>1
  <1>3. \A j \in 0 .. v : t[a + j] = s[b + j]
    OBVIOUS
  <1> HIDE DEF v
  <1>4. t[a] = s[b]
    <2>1. 0 \in 0 .. v /\ a + 0 = a /\ b + 0 = b
      BY <1>1, <1>2
    <2> QED
      BY <1>3, <2>1
  <1>5. \A i \in 1 .. v - 1 : t[a + i] = s[b + i]
    <2> TAKE i \in 1 .. v - 1
    <2>1. i \in 0 .. v
      BY <1>2
    <2> QED
      BY <1>3, <2>1
  <1> QED
    BY <1>1, <1>4, <1>5 DEF UnitAt, v

\* Nothing is framed.
LEMMA FramedNothing ==
    ASSUME NEW from \in Nat
    PROVE  Framed(<<>>, from, from)
  <1> DEFINE c == [b \in {1} |-> from]
  <1>1. Cuts(<<>>, from, from, {1}, c)
    BY DEF Cuts
  <1> QED
    BY <1>1 DEF Framed

\* The numbers of what is framed.
LEMMA FramedTypes ==
    ASSUME NEW s, NEW from, NEW to \in Nat, Framed(s, from, to)
    PROVE  from \in 0 .. to
  BY DEF Framed, Cuts

(* A unit and nothing else *)
IsUnit(u, from, to) == Len(u) > 0 /\ Len(u) = u[1].v + 1 /\ UnitAt(u, 1, from, to)

\* A unit may follow.
LEMMA FramedGrows ==
    ASSUME NEW s \in Seq(Bytes), NEW u \in Seq(Bytes), NEW from \in Nat, NEW m \in Nat, NEW to \in Nat,
           Framed(s, from, m), IsUnit(u, m, to), m <= to
    PROVE  Framed(s \o u, from, to)
  <1> DEFINE t == s \o u
             l == Len(s)
             k == Len(u)
  <1>1. PICK B, c : Cuts(s, from, m, B, c)
    BY DEF Framed
  <1>2. /\ t \in Seq(Bytes) /\ Len(t) = l + k /\ l \in Nat /\ k \in Nat
        /\ \A i \in 1 .. l + k : t[i] = IF i <= l THEN s[i] ELSE u[i - l]
    BY ConcatProperties, LenProperties
  <1> HIDE DEF t, l, k
  <1> DEFINE C == B \cup {l + k + 1}
             e == [b \in C |-> IF b \in B THEN c[b] ELSE to]
  <1>3. B \subseteq 1 .. l + 1 /\ 1 \in B /\ l + 1 \in B /\ c[1] = from /\ c[l + 1] = m
        /\ \A b \in B : c[b] \in 0 .. m
    BY <1>1 DEF Cuts, l
  <1>4. /\ k > 0 /\ k = u[1].v + 1 /\ UnitAt(u, 1, m, to) /\ 1 \in 1 .. Len(u) /\ u[1].v \in Nat
    <2>1. k > 0 /\ k = u[1].v + 1 /\ UnitAt(u, 1, m, to) /\ 1 \in 1 .. Len(u)
      BY <1>2 DEF IsUnit, k
    <2> QED
      BY <2>1, ByteIs
  <1>5. l + k + 1 \notin B
    <2>1. l \in Nat /\ k \in Nat /\ k > 0
      BY <1>2, <1>4
    <2>2. l + k + 1 \notin 1 .. l + 1
      BY <2>1
    <2> QED
      BY <1>3, <2>2
  <1>6. /\ C \subseteq 1 .. Len(t) + 1 /\ 1 \in C /\ Len(t) + 1 \in C
        /\ e[1] = from /\ e[Len(t) + 1] = to
    <2>1. l + k + 1 \in C /\ e[l + k + 1] = to
      BY <1>5
    <2>2. \A b \in C : b \in 1 .. l + k + 1
      BY <1>2, <1>3
    <2>3. 1 \in C /\ e[1] = from
      BY <1>3
    <2> QED
      BY <1>2, <2>1, <2>2, <2>3
  <1>7. \A b \in C : e[b] \in 0 .. to
    BY <1>3
  <1>8. ASSUME NEW b \in C, b <= Len(t)
        PROVE  b + t[b].v + 1 \in C /\ UnitAt(t, b, e[b], e[b + t[b].v + 1])
    <2>1. CASE b <= l
      <3>1. b \in B /\ b \in 1 .. l /\ b \in 1 .. Len(s) /\ t[b] = s[b]
        <4>1. b # l + k + 1
          BY <1>2, <2>1
        <4>2. b \in B /\ b \in 1 .. l + 1
          BY <1>3, <4>1
        <4> QED
          BY <1>2, <2>1, <4>2 DEF l
      <3>2. b + s[b].v + 1 \in B /\ UnitAt(s, b, c[b], c[b + s[b].v + 1])
        BY <1>1, <3>1 DEF Cuts
      <3>3. s[b].v \in Nat /\ b + s[b].v <= l
        BY <3>1, <3>2, ByteIs DEF UnitAt, l
      <3>4. \A j \in 0 .. s[b].v : t[b + j] = s[b + j]
        <4> DEFINE v == s[b].v
        <4>1. v \in Nat /\ b + v <= l /\ b \in 1 .. l
          BY <3>1, <3>3
        <4> HIDE DEF v
        <4>2. ASSUME NEW j \in 0 .. v PROVE t[b + j] = s[b + j]
          <5>1. b + j \in 1 .. l + k /\ b + j <= l
            BY <1>2, <4>1
          <5> QED
            BY <1>2, <5>1
        <4> QED
          BY <4>2 DEF v
      <3>5. c[b] \in Nat /\ c[b + s[b].v + 1] \in Nat
        <4>1. \A x \in B : c[x] \in Nat
          BY <1>3
        <4> QED
          BY <3>1, <3>2, <4>1
      <3>6. b + s[b].v <= Len(t) /\ b \in Nat
        BY <1>2, <3>1, <3>3
      <3>7. UnitAt(t, b, c[b], c[b + s[b].v + 1])
        BY <1>2, <3>1, <3>2, <3>4, <3>5, <3>6, UnitMoves
      <3> QED
        BY <3>1, <3>2, <3>7
    <2>2. CASE b > l
      <3>1. b = l + 1 /\ b \in B
        <4>1. b # l + k + 1
          BY <1>2, <1>8
        <4>2. b \in B /\ b \in 1 .. l + 1
          BY <1>3, <4>1
        <4> QED
          BY <1>2, <2>2, <4>2
      <3>2. t[b] = u[1]
        <4>1. l \in Nat /\ k \in Nat /\ k > 0 /\ b = l + 1
          BY <1>2, <1>4, <3>1
        <4>2. b \in 1 .. l + k /\ ~(b <= l) /\ b - l = 1
          BY <4>1
        <4>3. t[b] = IF b <= l THEN s[b] ELSE u[b - l]
          BY <1>2, <4>2
        <4> QED
          BY <4>2, <4>3
      <3> DEFINE v == u[1].v
      <3>3. v \in Nat /\ k = v + 1
        BY <1>4
      <3>4. \A j \in 0 .. v : t[b + j] = u[1 + j]
        <4> HIDE DEF v
        <4> TAKE j \in 0 .. v
        <4>1. b + j \in 1 .. l + k /\ ~(b + j <= l) /\ (b + j) - l = 1 + j
          BY <1>2, <3>1, <3>3
        <4> QED
          BY <1>2, <4>1
      <3>5. b + v <= Len(t) /\ b + v + 1 = l + k + 1 /\ b \in Nat
        <4> HIDE DEF v
        <4> QED
          BY <1>2, <3>1, <3>3
      <3>6. UnitAt(t, b, m, to)
        BY <1>2, <1>4, <3>4, <3>5, UnitMoves
      <3>7. e[b] = m /\ e[l + k + 1] = to
        BY <1>2, <1>3, <1>5, <3>1
      <3> QED
        BY <3>2, <3>5, <3>6, <3>7
    <2> QED
      BY <1>2, <1>3, <2>1, <2>2
  <1> HIDE DEF C, e
  <1>9. Cuts(t, from, to, C, e)
    BY <1>6, <1>7, <1>8 DEF Cuts
  <1> QED
    BY <1>9 DEF Framed, t

(* What comes after the first unit *)
After(u, from) == IF u.kind = "record" THEN from + u.v - 1 ELSE from

\* What is framed begins with a unit.
LEMMA FramedBegins ==
    ASSUME NEW s \in Seq(Bytes), NEW from \in Nat, NEW to \in Nat, Framed(s, from, to), s # <<>>
    PROVE  /\ Complete(s) /\ s[1].v <= MaxMessage + 1 /\ s[1].v \in Nat
           /\ UnitAt(s, 1, from, After(s[1], from))
           /\ After(s[1], from) \in from .. to
           /\ Framed(Behind(s), After(s[1], from), to)
  <1> DEFINE l == Len(s)
             v == s[1].v
             r == Behind(s)
  <1>1. PICK B, c : Cuts(s, from, to, B, c)
    BY DEF Framed
  <1>2. l \in Nat /\ l > 0 /\ s[1] \in Bytes /\ v \in Nat /\ 1 \in 1 .. Len(s)
    <2>1. l \in Nat /\ l # 0
      BY LenProperties, EmptySeq
    <2>2. 1 \in 1 .. Len(s)
      BY <2>1
    <2> QED
      BY <2>1, <2>2, ByteIs
  <1>3. /\ B \subseteq 1 .. l + 1 /\ 1 \in B /\ l + 1 \in B /\ c[1] = from /\ c[l + 1] = to
        /\ \A b \in B : c[b] \in 0 .. to
    BY <1>1 DEF Cuts
  <1>4. v + 2 \in B /\ UnitAt(s, 1, from, c[v + 2])
    <2>1. 1 + s[1].v + 1 \in B /\ UnitAt(s, 1, c[1], c[1 + s[1].v + 1])
      BY <1>1, <1>2, <1>3 DEF Cuts
    <2>2. 1 + s[1].v + 1 = v + 2
      BY <1>2
    <2> QED
      BY <1>3, <2>1, <2>2
  <1>5. v <= MaxMessage + 1 /\ v < l
    <2>1. v <= MaxMessage + 1 /\ 1 + v <= l
      BY <1>4 DEF UnitAt
    <2> QED
      BY <1>2, <2>1
  <1>6. c[v + 2] = After(s[1], from) /\ After(s[1], from) \in from .. to
    <2>1. c[v + 2] \in 0 .. to
      BY <1>3, <1>4
    <2>2. CASE s[1].kind = "record"
      <3>1. v > 0 /\ c[v + 2] + 1 = from + v
        BY <1>4, <2>2 DEF UnitAt
      <3>2. After(s[1], from) = from + v - 1
        BY <2>2 DEF After
      <3> HIDE DEF v
      <3> QED
        BY <1>2, <2>1, <3>1, <3>2
    <2>3. CASE s[1].kind # "record"
      BY <1>4, <2>1, <2>3 DEF UnitAt, After
    <2> QED
      BY <2>2, <2>3
  <1>7. /\ r \in Seq(Bytes) /\ Len(r) = l - (v + 1)
        /\ \A i \in 1 .. l - (v + 1) : r[i] = s[(v + 1) + i]
    <2>1. v + 1 \in 0 .. l /\ (v + 1) + 1 = v + 2
      <3> HIDE DEF v, l
      <3> QED
        BY <1>2, <1>5
    <2>2. v + 1 \in 0 .. Len(s)
      BY <2>1
    <2> DEFINE q == SubSeq(s, (v + 1) + 1, Len(s))
    <2>3. /\ q \in Seq(Bytes) /\ Len(q) = l - (v + 1)
          /\ \A i \in 1 .. l - (v + 1) : q[i] = s[(v + 1) + i]
      BY <2>2, RestIs
    <2>4. r = q
      BY <2>1 DEF Behind
    <2> HIDE DEF q, r, v, l
    <2> QED
      BY <2>3, <2>4
  <1> HIDE DEF r, v, l
  <1> DEFINE C == {b \in 1 .. l - v : b + (v + 1) \in B}
             e == [b \in C |-> c[b + (v + 1)]]
  <1>8. /\ C \subseteq 1 .. Len(r) + 1 /\ 1 \in C /\ Len(r) + 1 \in C
        /\ e[1] = c[v + 2] /\ e[Len(r) + 1] = to
    <2>1. /\ Len(r) + 1 = l - v /\ l - v \in 1 .. l - v /\ 1 \in 1 .. l - v
          /\ 1 + (v + 1) = v + 2 /\ (l - v) + (v + 1) = l + 1
      BY <1>2, <1>5, <1>7
    <2> QED
      BY <1>3, <1>4, <2>1
  <1>9. \A b \in C : e[b] \in 0 .. to
    BY <1>3
  <1>10. ASSUME NEW b \in C, b <= Len(r)
         PROVE  b + r[b].v + 1 \in C /\ UnitAt(r, b, e[b], e[b + r[b].v + 1])
    <2> DEFINE a == b + (v + 1)
    <2>1. b \in 1 .. l - v /\ a \in B /\ a \in 1 .. l /\ b + (v + 1) = (v + 1) + b
      <3>1. b \in 1 .. l - v /\ a \in B
        OBVIOUS
      <3> QED
        BY <1>2, <1>5, <1>7, <1>10, <3>1
    <2>2. r[b] = s[a]
      BY <1>2, <1>7, <1>10, <2>1
    <2>3. a + s[a].v + 1 \in B /\ UnitAt(s, a, c[a], c[a + s[a].v + 1])
      <3>1. a <= Len(s)
        BY <2>1 DEF l
      <3> QED
        BY <1>1, <2>1, <3>1 DEF Cuts
    <2>4. s[a] \in Bytes /\ s[a].v \in Nat /\ a \in 1 .. Len(s)
      BY <2>1, ByteIs DEF l
    <2>5. a + s[a].v <= l
      BY <2>3 DEF UnitAt, l
    <2> HIDE DEF a
    <2>6. a = b + (v + 1)
      BY DEF a
    <2> DEFINE w == s[a].v
    <2>7. w \in Nat /\ a + w <= l /\ a + w + 1 \in B
      BY <2>3, <2>4, <2>5
    <2> HIDE DEF w
    <2>8. (b + w + 1) + (v + 1) = a + w + 1 /\ b + w + 1 \in 1 .. l - v
      BY <1>2, <2>1, <2>6, <2>7
    <2>9. b + w + 1 \in C /\ e[b] = c[a] /\ e[b + w + 1] = c[a + w + 1]
      BY <2>6, <2>7, <2>8
    <2>10. \A j \in 0 .. w : r[b + j] = s[a + j]
      <3> TAKE j \in 0 .. w
      <3>1. b + j \in 1 .. l - (v + 1) /\ (v + 1) + (b + j) = a + j
        BY <1>2, <2>1, <2>6, <2>7
      <3> QED
        BY <1>7, <3>1
    <2>11. b + w <= Len(r) /\ b \in Nat
      BY <1>2, <1>7, <2>1, <2>6, <2>7
    <2>12. c[a] \in Nat /\ c[a + w + 1] \in Nat
      <3>1. \A x \in B : c[x] \in Nat
        BY <1>3
      <3> QED
        BY <2>1, <2>7, <3>1
    <2>13. UnitAt(r, b, c[a], c[a + w + 1])
      BY <1>7, <2>3, <2>4, <2>10, <2>11, <2>12, UnitMoves DEF w
    <2> QED
      BY <2>2, <2>9, <2>13 DEF w
  <1> HIDE DEF C, e
  <1>11. Cuts(r, c[v + 2], to, C, e)
    BY <1>8, <1>9, <1>10 DEF Cuts
  <1>12. Framed(r, c[v + 2], to)
    BY <1>11 DEF Framed
  <1>13. Complete(s)
    BY <1>5 DEF Complete, l, v
  <1> QED
    BY <1>2, <1>4, <1>5, <1>6, <1>12, <1>13 DEF r, v

-----------------------------------------------------------------------------
(* The units that are sent *)

\* A unit is its length and its values.
LEMMA UnitOK ==
    ASSUME NEW kind \in Kinds, NEW peer \in Nat, NEW values \in Seq(Nat)
    PROVE  /\ Unit(kind, peer, values) \in Seq(BytesUpTo(peer))
           /\ Len(Unit(kind, peer, values)) = Len(values) + 1
           /\ Unit(kind, peer, values)[1] = Byte(kind, peer, Len(values))
           /\ \A i \in 1 .. Len(values) : Unit(kind, peer, values)[1 + i] = Byte("data", peer, values[i])
  <1> DEFINE h == <<Byte(kind, peer, Len(values))>>
             d == [i \in DOMAIN values |-> Byte("data", peer, values[i])]
             l == Len(values)
             S == BytesUpTo(peer)
  <1>1. l \in Nat /\ DOMAIN values = 1 .. l /\ \A i \in 1 .. l : values[i] \in Nat
    BY LenProperties
  <1>2. Byte(kind, peer, l) \in S
    BY <1>1 DEF Byte, BytesUpTo
  <1>3. h \in Seq(S) /\ Len(h) = 1 /\ h[1] = Byte(kind, peer, l)
    BY <1>2
  <1>4. \A i \in 1 .. l : Byte("data", peer, values[i]) \in S
    BY <1>1 DEF Byte, BytesUpTo, Kinds
  <1>5. d \in Seq(S) /\ Len(d) = l /\ \A i \in 1 .. l : d[i] = Byte("data", peer, values[i])
    BY <1>1, <1>4
  <1>6. Unit(kind, peer, values) = h \o d
    BY DEF Unit
  <1> HIDE DEF h, d, l, S
  <1>7. /\ h \o d \in Seq(S) /\ Len(h \o d) = 1 + l
        /\ \A i \in 1 .. 1 + l : (h \o d)[i] = IF i <= 1 THEN h[i] ELSE d[i - 1]
    <2>1. /\ h \o d \in Seq(S) /\ Len(h \o d) = Len(h) + Len(d)
          /\ \A i \in 1 .. Len(h) + Len(d) : (h \o d)[i] = IF i <= Len(h) THEN h[i] ELSE d[i - Len(h)]
      BY <1>3, <1>5, ConcatProperties
    <2> QED
      BY <1>3, <1>5, <2>1
  <1>8. ASSUME NEW i \in 1 .. l PROVE (h \o d)[1 + i] = d[i]
    <2>1. 1 + i \in 1 .. 1 + l /\ ~(1 + i <= 1) /\ (1 + i) - 1 = i
      BY <1>1
    <2> QED
      BY <1>7, <2>1
  <1>9. (h \o d)[1] = h[1]
    BY <1>1, <1>7
  <1>10. Len(h \o d) = l + 1
    BY <1>1, <1>7
  <1> QED
    BY <1>3, <1>5, <1>6, <1>7, <1>8, <1>9, <1>10 DEF l, S

\* Bytes of a session are bytes.
LEMMA SessionBytes ==
    ASSUME NEW n \in Nat
    PROVE  /\ Seq(BytesUpTo(n)) \subseteq Seq(Bytes)
           /\ Seq(BytesUpTo(n)) \subseteq Seq(BytesUpTo(n + 1))
  <1>1. BytesUpTo(n) \subseteq Bytes
    BY DEF BytesUpTo, Bytes
  <1>2. BytesUpTo(n) \subseteq BytesUpTo(n + 1)
    BY DEF BytesUpTo
  <1> QED
    BY <1>1, <1>2, SeqMonotonic

\* A unit that is not a record carries no plain text.
LEMMA OtherUnit ==
    ASSUME NEW kind \in Kinds, kind # "record", NEW peer \in Nat, NEW values \in Seq(Nat),
           Len(values) <= MaxMessage + 1, NEW n \in Nat
    PROVE  IsUnit(Unit(kind, peer, values), n, n)
  <1> DEFINE u == Unit(kind, peer, values)
  <1>1. Len(u) = Len(values) + 1 /\ u[1] = Byte(kind, peer, Len(values)) /\ Len(values) \in Nat
    BY UnitOK, LenProperties
  <1>2. u[1].v = Len(values) /\ u[1].kind = kind
    BY <1>1 DEF Byte
  <1> HIDE DEF u
  <1>3. UnitAt(u, 1, n, n)
    BY <1>1, <1>2 DEF UnitAt
  <1> QED
    BY <1>1, <1>2, <1>3 DEF IsUnit, u

\* Numbers are numbers.
LEMMA NumbersOK ==
    ASSUME NEW from \in Nat, NEW n \in Nat
    PROVE  /\ Numbers(from, n) \in Seq(Nat) /\ Len(Numbers(from, n)) = n
           /\ \A i \in 1 .. n : Numbers(from, n)[i] = from + i
  <1>1. \A i \in 1 .. n : from + i \in Nat
    OBVIOUS
  <1> QED
    BY <1>1 DEF Numbers

\* What is numbered goes on.
LEMMA NumbersGoOn ==
    ASSUME NEW from \in Nat, NEW m \in Nat, NEW n \in Nat
    PROVE  Numbers(from, m) \o Numbers(from + m, n) = Numbers(from, m + n)
  <1> DEFINE a == Numbers(from, m)
             b == Numbers(from + m, n)
             c == Numbers(from, m + n)
  <1>1. a \in Seq(Nat) /\ Len(a) = m /\ \A i \in 1 .. m : a[i] = from + i
    BY NumbersOK
  <1>2. b \in Seq(Nat) /\ Len(b) = n /\ \A i \in 1 .. n : b[i] = (from + m) + i
    <2>1. from + m \in Nat
      OBVIOUS
    <2> QED
      BY <2>1, NumbersOK
  <1>3. c \in Seq(Nat) /\ Len(c) = m + n /\ \A i \in 1 .. m + n : c[i] = from + i
    <2>1. m + n \in Nat
      OBVIOUS
    <2> QED
      BY <2>1, NumbersOK
  <1> HIDE DEF a, b, c
  <1>4. /\ a \o b \in Seq(Nat) /\ Len(a \o b) = m + n
        /\ \A i \in 1 .. m + n : (a \o b)[i] = IF i <= m THEN a[i] ELSE b[i - m]
    <2>1. a \in Seq(Nat) /\ b \in Seq(Nat) /\ Len(a) = m /\ Len(b) = n
      BY <1>1, <1>2
    <2>2. /\ a \o b \in Seq(Nat) /\ Len(a \o b) = Len(a) + Len(b)
          /\ \A i \in 1 .. Len(a) + Len(b) :
                (a \o b)[i] = IF i <= Len(a) THEN a[i] ELSE b[i - Len(a)]
      BY <2>1, ConcatProperties
    <2> QED
      BY <2>1, <2>2
  <1>5. ASSUME NEW i \in 1 .. m + n PROVE (a \o b)[i] = c[i]
    <2>1. CASE i <= m
      BY <1>1, <1>3, <1>4, <2>1
    <2>2. CASE ~(i <= m)
      <3>1. i - m \in 1 .. n /\ (from + m) + (i - m) = from + i
        BY <2>2
      <3> QED
        BY <1>2, <1>3, <1>4, <2>2, <3>1
    <2> QED
      BY <2>1, <2>2
  <1>6. a \o b = c
    BY <1>3, <1>4, <1>5, SeqEqual
  <1> QED
    BY <1>6 DEF a, b, c

\* A record is its length, its plain text and a trailer.
LEMMA RecordOK ==
    ASSUME NEW peer \in Nat, NEW values \in Seq(Nat)
    PROVE  /\ Record(peer, values) \in Seq(BytesUpTo(peer))
           /\ Len(Record(peer, values)) = Len(values) + 2
           /\ Record(peer, values)[1] = Byte("record", peer, Len(values) + 1)
           /\ \A i \in 1 .. Len(values) : Record(peer, values)[1 + i].v = values[i]
  <1> DEFINE w == values \o <<0>>
             l == Len(values)
  <1>1. l \in Nat
    BY LenProperties
  <1>2. <<0>> \in Seq(Nat) /\ Len(<<0>>) = 1
    OBVIOUS
  <1>3. /\ w \in Seq(Nat) /\ Len(w) = l + 1
        /\ \A i \in 1 .. l + 1 : w[i] = IF i <= l THEN values[i] ELSE <<0>>[i - l]
    BY <1>2, ConcatProperties
  <1> HIDE DEF w
  <1>4. "record" \in Kinds
    BY DEF Kinds
  <1>5. /\ Unit("record", peer, w) \in Seq(BytesUpTo(peer))
        /\ Len(Unit("record", peer, w)) = Len(w) + 1
        /\ Unit("record", peer, w)[1] = Byte("record", peer, Len(w))
        /\ \A i \in 1 .. Len(w) : Unit("record", peer, w)[1 + i] = Byte("data", peer, w[i])
    BY <1>3, <1>4, UnitOK
  <1> HIDE DEF l
  <1>6. \A i \in 1 .. l : Unit("record", peer, w)[1 + i].v = values[i]
    <2> TAKE i \in 1 .. l
    <2>1. i \in 1 .. Len(w) /\ w[i] = values[i]
      BY <1>1, <1>3
    <2> QED
      <3>1. Unit("record", peer, w)[1 + i] = Byte("data", peer, w[i])
        BY <1>5, <2>1
      <3> QED
        BY <2>1, <3>1 DEF Byte
  <1>7. Len(Unit("record", peer, w)) = l + 2
    BY <1>1, <1>3, <1>5
  <1> QED
    BY <1>3, <1>5, <1>6, <1>7 DEF Record, w, l

\* A record of the numbers that follow is a unit.
LEMMA RecordUnit ==
    ASSUME NEW peer \in Nat, NEW from \in Nat, NEW n \in 0 .. MaxMessage
    PROVE  /\ Record(peer, Numbers(from, n)) \in Seq(BytesUpTo(peer))
           /\ IsUnit(Record(peer, Numbers(from, n)), from, from + n)
  <1> DEFINE q == Numbers(from, n)
             u == Record(peer, q)
  <1>0. MaxMessage \in Nat
    BY SChannelAssumption
  <1>1. n \in Nat /\ n <= MaxMessage
    BY <1>0
  <1>2. q \in Seq(Nat) /\ Len(q) = n /\ \A i \in 1 .. n : q[i] = from + i
    BY <1>1, NumbersOK
  <1> HIDE DEF q
  <1>3. /\ u \in Seq(BytesUpTo(peer)) /\ Len(u) = n + 2 /\ u[1] = Byte("record", peer, n + 1)
        /\ \A i \in 1 .. n : u[1 + i].v = from + i
    BY <1>2, RecordOK
  <1> HIDE DEF u
  <1>4. u[1].v = n + 1 /\ u[1].kind = "record"
    BY <1>3 DEF Byte
  <1>5. UnitAt(u, 1, from, from + n)
    <2>1. \A i \in 1 .. u[1].v - 1 : u[1 + i].v = from + i
      BY <1>1, <1>3, <1>4
    <2>2. u[1].v <= MaxMessage + 1 /\ 1 + u[1].v <= Len(u) /\ u[1].v > 0 /\ from + n + 1 = from + u[1].v
      BY <1>0, <1>1, <1>3, <1>4
    <2> QED
      BY <1>4, <2>1, <2>2 DEF UnitAt
  <1>6. Len(u) > 0 /\ Len(u) = u[1].v + 1
    BY <1>1, <1>3, <1>4
  <1> QED
    BY <1>3, <1>5, <1>6 DEF IsUnit, u, q

\* A token is a unit.
LEMMA TokenOK ==
    ASSUME NEW peer \in Nat, NEW n \in Nat
    PROVE  /\ Token(peer, n) \in Seq(BytesUpTo(peer)) /\ Len(Token(peer, n)) = 2
           /\ Token(peer, n)[1] = Byte("token", peer, 1) /\ Token(peer, n)[2] = Byte("data", peer, n)
           /\ \A m \in Nat : IsUnit(Token(peer, n), m, m)
  <1>1. "token" \in Kinds /\ "token" # "record"
    BY DEF Kinds
  <1>2. <<n>> \in Seq(Nat) /\ Len(<<n>>) = 1 /\ <<n>>[1] = n /\ 1 \in 1 .. Len(<<n>>)
    OBVIOUS
  <1>3. MaxMessage \in Nat
    BY SChannelAssumption
  <1> DEFINE w == <<n>>
  <1>4. w \in Seq(Nat) /\ Len(w) = 1 /\ w[1] = n /\ 1 \in 1 .. Len(w)
    BY <1>2
  <1>5. Token(peer, n) = Unit("token", peer, w)
    BY DEF Token
  <1> HIDE DEF w
  <1>6. /\ Unit("token", peer, w) \in Seq(BytesUpTo(peer))
        /\ Len(Unit("token", peer, w)) = Len(w) + 1
        /\ Unit("token", peer, w)[1] = Byte("token", peer, Len(w))
        /\ \A i \in 1 .. Len(w) : Unit("token", peer, w)[1 + i] = Byte("data", peer, w[i])
    BY <1>1, <1>4, UnitOK
  <1>7. Unit("token", peer, w)[1 + 1] = Byte("data", peer, n)
    BY <1>4, <1>6
  <1>8. Len(w) <= MaxMessage + 1
    BY <1>3, <1>4
  <1>9. \A m \in Nat : IsUnit(Unit("token", peer, w), m, m)
    BY <1>1, <1>4, <1>8, OtherUnit
  <1> QED
    BY <1>4, <1>5, <1>6, <1>7, <1>9

\* An empty unit that is not a record, like an alert
LEMMA EmptyUnit ==
    ASSUME NEW kind \in {"request", "alert"}, NEW peer \in Nat
    PROVE  /\ Unit(kind, peer, <<>>) \in Seq(BytesUpTo(peer))
           /\ Len(Unit(kind, peer, <<>>)) = 1 /\ Unit(kind, peer, <<>>)[1] = Byte(kind, peer, 0)
           /\ \A m \in Nat : IsUnit(Unit(kind, peer, <<>>), m, m)
  <1>1. kind \in Kinds /\ kind # "record"
    BY DEF Kinds
  <1>2. <<>> \in Seq(Nat) /\ Len(<<>>) = 0
    OBVIOUS
  <1>3. MaxMessage \in Nat
    BY SChannelAssumption
  <1> DEFINE w == <<>>
  <1>4. w \in Seq(Nat) /\ Len(w) = 0 /\ Len(w) <= MaxMessage + 1
    BY <1>2, <1>3
  <1> HIDE DEF w
  <1>5. /\ Unit(kind, peer, w) \in Seq(BytesUpTo(peer))
        /\ Len(Unit(kind, peer, w)) = 1 /\ Unit(kind, peer, w)[1] = Byte(kind, peer, 0)
    <2>1. /\ Unit(kind, peer, w) \in Seq(BytesUpTo(peer))
          /\ Len(Unit(kind, peer, w)) = Len(w) + 1
          /\ Unit(kind, peer, w)[1] = Byte(kind, peer, Len(w))
      BY <1>1, <1>4, UnitOK
    <2> QED
      BY <1>4, <2>1
  <1>6. \A m \in Nat : IsUnit(Unit(kind, peer, w), m, m)
    BY <1>1, <1>4, OtherUnit
  <1> QED
    BY <1>5, <1>6 DEF w

-----------------------------------------------------------------------------
(* Moving bytes *)

\* The smaller of two numbers.
LEMMA MinOK ==
    ASSUME NEW x \in Nat, NEW y \in Nat
    PROVE  Min({x, y}) = IF x <= y THEN x ELSE y
  <1>1. \E z \in {x, y} : \A w \in {x, y} : z <= w
    <2>1. CASE x <= y
      BY <2>1
    <2>2. CASE ~(x <= y)
      BY <2>2
    <2> QED
      BY <2>1, <2>2
  <1>2. Min({x, y}) \in {x, y} /\ \A w \in {x, y} : Min({x, y}) <= w
    BY <1>1 DEF Min
  <1> QED
    BY <1>2

\* What is joined to bytes may be joined first.
LEMMA Regroup == \A x, y, z \in Seq(Bytes) : (x \o y) \o z = x \o (y \o z)
  BY ConcatAssociative

\* Bytes joined
LEMMA Joined ==
    /\ \A x, y \in Seq(Bytes) : x \o y \in Seq(Bytes)
    /\ \A x \in Seq(Bytes) : <<>> \o x = x /\ x \o <<>> = x
  <1>1. \A x, y \in Seq(Bytes) : x \o y \in Seq(Bytes)
    BY ConcatProperties
  <1>2. \A x \in Seq(Bytes) : <<>> \o x = x /\ x \o <<>> = x
    BY ConcatEmptySeq
  <1> QED
    BY <1>1, <1>2

\* Bytes that move from the front of one buffer to the end of another.
LEMMA FrontMoves ==
    ASSUME NEW a \in Seq(Bytes), NEW b \in Seq(Bytes), NEW n \in 0 .. Len(b)
    PROVE  (a \o SubSeq(b, 1, n)) \o SubSeq(b, n + 1, Len(b)) = a \o b
  <1> DEFINE f == SubSeq(b, 1, n)
             r == SubSeq(b, n + 1, Len(b))
  <1>1. f \in Seq(Bytes) /\ r \in Seq(Bytes) /\ b = f \o r
    BY FrontIs, RestIs, SplitAt
  <1> HIDE DEF f, r
  <1>2. (a \o f) \o r = a \o (f \o r)
    <2>1. a \in Seq(Bytes) /\ f \in Seq(Bytes) /\ r \in Seq(Bytes)
      BY <1>1
    <2> QED
      BY <2>1, Regroup, Zenon
  <1> QED
    BY <1>1, <1>2, Zenon DEF f, r

\* The first unit of bytes stays the first when others follow.
LEMMA FirstStays ==
    ASSUME NEW a \in Seq(Bytes), NEW b \in Seq(Bytes), a # <<>>
    PROVE  /\ a \o b \in Seq(Bytes) /\ Len(a \o b) = Len(a) + Len(b) /\ a \o b # <<>>
           /\ \A i \in 1 .. Len(a) : (a \o b)[i] = a[i]
           /\ Complete(a) => Complete(a \o b) /\ Behind(a \o b) = Behind(a) \o b
  <1>1. /\ a \o b \in Seq(Bytes) /\ Len(a \o b) = Len(a) + Len(b)
        /\ \A i \in 1 .. Len(a) + Len(b) : (a \o b)[i] = IF i <= Len(a) THEN a[i] ELSE b[i - Len(a)]
    BY ConcatProperties
  <1> DEFINE l == Len(a)
             k == Len(b)
             v == a[1].v
             s == a \o b
  <1>2. l \in Nat /\ k \in Nat /\ l > 0 /\ 1 \in 1 .. Len(a)
    <2>1. l \in Nat /\ l # 0 /\ k \in Nat
      BY LenProperties, EmptySeq
    <2> QED
      BY <2>1
  <1>3. v \in Nat
    BY <1>2, ByteIs
  <1> HIDE DEF l, k, v, s
  <1>4. /\ s \in Seq(Bytes) /\ Len(s) = l + k
        /\ \A i \in 1 .. l + k : s[i] = IF i <= l THEN a[i] ELSE b[i - l]
    BY <1>1 DEF l, k, s
  <1>5. \A i \in 1 .. l : s[i] = a[i]
    BY <1>2, <1>4
  <1>6. s # <<>> /\ s[1] = a[1]
    <2>1. Len(s) # 0
      BY <1>2, <1>4
    <2>2. s # <<>>
      BY <1>4, <2>1, EmptySeq
    <2>3. 1 \in 1 .. l
      BY <1>2
    <2> QED
      BY <1>5, <2>2, <2>3
  <1>7. ASSUME Complete(a)
        PROVE  Complete(s) /\ Behind(s) = Behind(a) \o b
    <2>1. l > v
      BY <1>7 DEF Complete, l, v
    <2>2. Len(s) > v
      BY <1>2, <1>3, <1>4, <2>1
    <2>3. Complete(s)
      BY <1>6, <2>2 DEF Complete, v
    <2>4. v + 1 \in 0 .. Len(a)
      BY <1>2, <1>3, <2>1 DEF l
    <2>5. SubSeq(a \o b, (v + 1) + 1, Len(a \o b)) = SubSeq(a, (v + 1) + 1, Len(a)) \o b
      BY <2>4, CutOfConcat
    <2>6. (v + 1) + 1 = v + 2
      BY <1>3
    <2>7. SubSeq(a \o b, v + 2, Len(a \o b)) = SubSeq(a, v + 2, Len(a)) \o b
      BY <2>5, <2>6
    <2> QED
      BY <1>6, <2>3, <2>7 DEF Behind, s, v
  <1> QED
    BY <1>4, <1>5, <1>6, <1>7 DEF s, l, k

\* Behind a complete unit
LEMMA BehindOK ==
    ASSUME NEW S, S \subseteq Bytes, NEW a \in Seq(S), Complete(a)
    PROVE  /\ a[1] \in S /\ a[1].v \in Nat /\ a[1].v < Len(a) /\ Len(a) \in Nat /\ 1 \in 1 .. Len(a)
           /\ Behind(a) \in Seq(S) /\ Len(Behind(a)) = Len(a) - a[1].v - 1
  <1>1. a # <<>> /\ Len(a) > a[1].v
    BY DEF Complete
  <1>2. Len(a) \in Nat /\ Len(a) # 0
    BY <1>1, LenProperties, EmptySeq
  <1>3. 1 \in 1 .. Len(a)
    BY <1>2
  <1>4. a[1] \in S
    BY <1>3, ElementOfSeq
  <1>5. a[1].v \in Nat
    BY <1>4 DEF Bytes
  <1> DEFINE v == a[1].v
  <1> HIDE DEF v
  <1>6. v \in Nat /\ v < Len(a)
    BY <1>1, <1>2, <1>5 DEF v
  <1>7. v + 1 \in 0 .. Len(a) /\ (v + 1) + 1 = v + 2
    BY <1>2, <1>6
  <1>8. /\ SubSeq(a, (v + 1) + 1, Len(a)) \in Seq(S)
        /\ Len(SubSeq(a, (v + 1) + 1, Len(a))) = Len(a) - (v + 1)
    BY <1>7, RestIs
  <1>9. Len(a) - (v + 1) = Len(a) - v - 1
    BY <1>2, <1>6
  <1>10. Behind(a) = SubSeq(a, v + 2, Len(a))
    BY DEF Behind, v
  <1> QED
    BY <1>2, <1>3, <1>4, <1>6, <1>7, <1>8, <1>9, <1>10 DEF v

\* The values of bytes
LEMMA ValuesOK ==
    ASSUME NEW s \in Seq(Bytes)
    PROVE  /\ Values(s) \in Seq(Nat) /\ Len(Values(s)) = Len(s)
           /\ \A i \in 1 .. Len(s) : Values(s)[i] = s[i].v
  <1>1. \A i \in 1 .. Len(s) : s[i].v \in Nat
    BY ByteIs
  <1>2. DOMAIN s = 1 .. Len(s) /\ Len(s) \in Nat
    BY LenProperties
  <1> QED
    BY <1>1, <1>2 DEF Values

\* Bytes that are written to a buffer are there, behind those before them.
LEMMA WrittenOK ==
    ASSUME NEW buffer \in Seq(Bytes), NEW bytes \in Seq(Bytes), NEW at \in Nat,
           at + Len(bytes) <= Len(buffer)
    PROVE  /\ Written(buffer, bytes, at) \in Seq(Bytes)
           /\ Len(Written(buffer, bytes, at)) = Len(buffer)
           /\ SubSeq(Written(buffer, bytes, at), 1, at + Len(bytes)) = SubSeq(buffer, 1, at) \o bytes
  <1> DEFINE w == Written(buffer, bytes, at)
             l == Len(buffer)
             k == Len(bytes)
  <1>1. /\ DOMAIN buffer = 1 .. l /\ DOMAIN bytes = 1 .. k /\ l \in Nat /\ k \in Nat
        /\ \A i \in 1 .. l : buffer[i] \in Bytes
        /\ \A i \in 1 .. k : bytes[i] \in Bytes
    BY LenProperties
  <1>2. w = [i \in 1 .. l |-> IF i - at \in 1 .. k THEN bytes[i - at] ELSE buffer[i]]
    BY <1>1 DEF Written
  <1>3. at + k <= l
    OBVIOUS
  <1> HIDE DEF l, k
  <1> DEFINE e(i) == IF i - at \in 1 .. k THEN bytes[i - at] ELSE buffer[i]
  <1>4. \A i \in 1 .. l : e(i) \in Bytes
    BY <1>1
  <1>5. w = [i \in 1 .. l |-> e(i)]
    BY <1>2
  <1> HIDE DEF e, w
  <1>6. w \in Seq(Bytes) /\ Len(w) = l /\ \A i \in 1 .. l : w[i] = e(i)
    BY <1>1, <1>4, <1>5
  <1> DEFINE f == SubSeq(buffer, 1, at)
             g == SubSeq(w, 1, at + k)
             h == f \o bytes
  <1>7. f \in Seq(Bytes) /\ Len(f) = at /\ \A i \in 1 .. at : f[i] = buffer[i]
    <2>1. at \in 0 .. Len(buffer)
      BY <1>1, <1>3 DEF l
    <2> QED
      BY <2>1, FrontIs
  <1>8. g \in Seq(Bytes) /\ Len(g) = at + k /\ \A i \in 1 .. at + k : g[i] = w[i]
    <2>1. at + k \in 0 .. Len(w)
      BY <1>1, <1>3, <1>6
    <2> QED
      BY <1>6, <2>1, FrontIs
  <1> HIDE DEF f, g
  <1>9. /\ h \in Seq(Bytes) /\ Len(h) = at + k
        /\ \A i \in 1 .. at + k : h[i] = IF i <= at THEN f[i] ELSE bytes[i - at]
    BY <1>7, ConcatProperties DEF k
  <1> HIDE DEF h
  <1>10. ASSUME NEW i \in 1 .. at + k PROVE g[i] = h[i]
    <2>1. i \in 1 .. l /\ g[i] = e(i)
      BY <1>1, <1>3, <1>6, <1>8
    <2>2. CASE i <= at
      <3>1. ~(i - at \in 1 .. k) /\ i \in 1 .. at
        BY <2>2
      <3> QED
        BY <1>7, <1>9, <2>1, <2>2, <3>1 DEF e
    <2>3. CASE ~(i <= at)
      <3>1. i - at \in 1 .. k
        BY <1>1, <2>3
      <3> QED
        BY <1>9, <2>1, <2>3, <3>1 DEF e
    <2> QED
      BY <2>2, <2>3
  <1>11. g = h
    BY <1>8, <1>9, <1>10, SeqEqual
  <1> QED
    BY <1>6, <1>11 DEF w, f, g, h, l, k

\* The plain text of a record, seen through its header and its data alone:
\* the trailer may be another byte.
LEMMA BodyIs ==
    ASSUME NEW z \in Seq(Bytes), NEW y \in Seq(Bytes), NEW from \in Nat, NEW to \in Nat,
           UnitAt(z, 1, from, to), z[1].kind = "record", z[1].v \in Nat, Complete(y),
           \A i \in 1 .. z[1].v : y[i] = z[i]
    PROVE  /\ z[1].v > 0 /\ y[1] = z[1]
           /\ Values(Body(y)) = Numbers(from, z[1].v - 1)
           /\ \A i \in 1 .. z[1].v - 1 : 1 + i \in 1 .. Len(y) /\ y[1 + i].v = from + i
  <1> DEFINE v == z[1].v
             b == SubSeq(y, 2, v)
  <1>1. /\ v > 0 /\ v \in Nat /\ \A i \in 1 .. v - 1 : z[1 + i].v = from + i
        /\ \A i \in 1 .. v : y[i] = z[i]
    BY DEF UnitAt
  <1>2. y[1] = z[1] /\ y[1].v = v /\ Len(y) > y[1].v /\ Len(y) \in Nat
    <2> HIDE DEF v
    <2>1. 1 \in 1 .. v
      BY <1>1
    <2>2. y[1] = z[1]
      BY <1>1, <2>1
    <2> QED
      BY <2>2, LenProperties DEF Complete, v
  <1> HIDE DEF v
  <1>3. Len(y) > v /\ v - 1 \in Nat
    BY <1>1, <1>2
  <1>4. ASSUME NEW i \in 1 .. v - 1
        PROVE  1 + i \in 1 .. Len(y) /\ y[1 + i].v = from + i
    <2>1. 1 + i \in 1 .. v /\ 1 + i \in 1 .. Len(y)
      BY <1>1, <1>2, <1>3
    <2> QED
      BY <1>1, <2>1
  <1>5. /\ b \in Seq(Bytes) /\ Len(b) = v - 1
        /\ \A i \in 1 .. v - 1 : b[i] = y[1 + i]
    <2>1. \A i \in 2 .. v : y[i] \in Bytes
      <3> TAKE i \in 2 .. v
      <3>1. i \in 1 .. Len(y)
        BY <1>1, <1>2, <1>3
      <3> QED
        BY <3>1, ElementOfSeq
    <2>2. /\ b \in Seq(Bytes) /\ Len(b) = IF 2 <= v THEN v - 2 + 1 ELSE 0
          /\ \A i \in 1 .. v - 2 + 1 : b[i] = y[2 + i - 1]
      BY <1>1, <2>1, SubSeqProperties
    <2> HIDE DEF b
    <2>3. Len(b) = v - 1
      BY <1>1, <2>2
    <2>4. \A i \in 1 .. v - 1 : b[i] = y[1 + i]
      <3> TAKE i \in 1 .. v - 1
      <3>1. i \in 1 .. v - 2 + 1 /\ 2 + i - 1 = 1 + i
        BY <1>1
      <3> QED
        BY <2>2, <3>1
    <2> QED
      BY <2>2, <2>3, <2>4
  <1> HIDE DEF b
  <1>6. /\ Values(b) \in Seq(Nat) /\ Len(Values(b)) = v - 1
        /\ \A i \in 1 .. v - 1 : Values(b)[i] = b[i].v
    BY <1>5, ValuesOK
  <1>7. /\ Numbers(from, v - 1) \in Seq(Nat) /\ Len(Numbers(from, v - 1)) = v - 1
        /\ \A i \in 1 .. v - 1 : Numbers(from, v - 1)[i] = from + i
    BY <1>3, NumbersOK
  <1>8. \A i \in 1 .. v - 1 : Values(b)[i] = Numbers(from, v - 1)[i]
    BY <1>4, <1>5, <1>6, <1>7
  <1>9. Values(b) = Numbers(from, v - 1)
    BY <1>6, <1>7, <1>8, SeqEqual
  <1>10. Body(y) = b
    BY <1>2 DEF Body, b
  <1> QED
    BY <1>1, <1>2, <1>4, <1>9, <1>10 DEF v

-----------------------------------------------------------------------------
(* The inductive invariant of what is received *)

(* Where the thread is, or will be when the send under way is over. *)
Where == IF pc = "sending" THEN then ELSE pc
Places == {"opening", "sending", "handshake", "token", "verify", "sizes", "ready", "encrypt",
           "recv", "decrypt", "defunct", "closed", "destroyed", "crashed"}
Sends == {"handshake", "ready", "encrypt", "opening", "defunct", "closed"}
Idle == {"ready", "encrypt"}
Verifying == {"verify", "sizes"}

PlaceOK ==
    /\ pc \in Places /\ then \in Sends \cup {"none"}
    /\ pc = "sending" => then \in Sends
    /\ pc = "sending" /\ then = "defunct" => recv_buffer # <<>> \* after the open

(* The bytes come from this server, or from one that was tried before. *)
HandshakeOK ==
    /\ server \in 0 .. Servers /\ accepted \in 0 .. Tokens
    /\ hs_buffer \in Seq(BytesUpTo(server)) /\ down \in Seq(BytesUpTo(server))
    /\ Len(hs_buffer) <= HandshakeLength

(* A pointer into recv_buffer, at something, with a position in it. *)
Into(buffer, p) ==
    \/ p = Nothing
    \/ /\ p \in [at : Nat, length : Nat, pos : Nat]
       /\ p.at > 0 /\ p.pos < p.length /\ p.at + p.length <= Len(buffer) + 1

BuffersOK ==
    /\ recv_buffer \in Seq(Bytes) /\ (recv_buffer = <<>> \/ Len(recv_buffer) = BufferLength)
    /\ recv_buffer_pos \in 0 .. Len(recv_buffer)
    /\ Into(recv_buffer, pt_pending) /\ Into(recv_buffer, ct_pending)
    /\ length \in Nat

(* The server numbers what it sends; the client has got the first of it. *)
Counted(s) == s \in Seq(Nat) /\ s = Numbers(0, Len(s))
CountsOK == Counted(served) /\ Counted(got) /\ Len(got) <= Len(served)

(* Plain text that is pending goes on with what was got. *)
PendingText ==
    \A i \in 1 .. Rest : recv_buffer[pt_pending.at + pt_pending.pos + i - 1].v = Len(got) + i

(* The last token of the handshake stays in hs_buffer. *)
LastToken == Token(server, Tokens)

BeforeOK == recv_buffer = <<>> /\ got = <<>>

(* The handshake gets units, or what is left of a session that has failed. *)
HandshakeStream ==
    \/ Framed(hs_buffer \o down, 0, Len(served))
    \/ hs_buffer # <<>> /\ hs_buffer[1].peer < server

VerifyOK == BeforeOK /\ hs_buffer = LastToken /\ Framed(down, 0, Len(served))

(* What is not decrypted yet are units, and the plain text in them goes on *)
(* with what is pending.                                                   *)
PendingBytes == SubSeq(recv_buffer, ct_pending.at, ct_pending.at + ct_pending.length - 1)
Unread == (IF ct_pending = Nothing THEN <<>> ELSE PendingBytes) \o (Received \o down)
SessionOK ==
    /\ recv_buffer # <<>> /\ hs_buffer = LastToken
    /\ Framed(Unread, Len(got) + Rest, Len(served))
NonePending == pt_pending = Nothing /\ ct_pending = Nothing

(* A handshake that the server asks for finds the token of the last one. *)
Renegotiating == recv_buffer # <<>> /\ hs_buffer = LastToken /\ accepted = 0

Phase ==
    /\ Where = "opening" => BeforeOK
    /\ Where = "handshake" => BeforeOK /\ HandshakeStream
    /\ Where = "token" => (BeforeOK /\ HandshakeStream) \/ Renegotiating
    /\ Where \in Verifying => VerifyOK
    /\ Where \in Idle => SessionOK /\ recv_buffer_pos = 0
    /\ Where = "recv" => SessionOK /\ NonePending /\ (status = "incomplete" => ~Complete(Received))
    /\ Where = "decrypt" => SessionOK /\ NonePending

InInv == PlaceOK /\ HandshakeOK /\ BuffersOK /\ CountsOK /\ PendingText /\ Phase

-----------------------------------------------------------------------------
(* The phases *)

inputs == <<server, down, hs_buffer, accepted, recvvars, served, got>>

\* What is true of the bytes stays true while they stay.
LEMMA SameBytes ==
    ASSUME InInv, UNCHANGED <<server, down, hs_buffer, recvvars, served, got>>
    PROVE  /\ BuffersOK' /\ CountsOK' /\ PendingText'
           /\ (BeforeOK' <=> BeforeOK) /\ (HandshakeStream' <=> HandshakeStream)
           /\ (VerifyOK' <=> VerifyOK) /\ (SessionOK' <=> SessionOK)
           /\ (NonePending' <=> NonePending) /\ Received' = Received /\ LastToken' = LastToken
           /\ Unread' = Unread
  <1> USE DEF recvvars
  <1>1. BuffersOK' /\ CountsOK' /\ PendingText'
    BY DEF InInv, BuffersOK, CountsOK, PendingText, Rest
  <1>2. LastToken' = LastToken /\ Received' = Received /\ Rest' = Rest
    BY DEF LastToken, Received, Rest
  <1>3. Unread' = Unread
    BY <1>2 DEF Unread, PendingBytes
  <1>4. (BeforeOK' <=> BeforeOK) /\ (NonePending' <=> NonePending)
    BY DEF BeforeOK, NonePending
  <1>5. HandshakeStream' <=> HandshakeStream
    BY DEF HandshakeStream
  <1>6. VerifyOK' <=> VerifyOK
    BY <1>2, <1>4 DEF VerifyOK
  <1>7. SessionOK' <=> SessionOK
    BY <1>2, <1>3 DEF SessionOK
  <1> QED
    BY <1>1, <1>2, <1>3, <1>4, <1>5, <1>6, <1>7

\* A step that stays where it is, or ends the session, and changes no bytes.
LEMMA StayOrEnd ==
    ASSUME InInv, UNCHANGED inputs, PlaceOK',
           \/ Where' = Where /\ status' = status
           \/ Where' \in {"defunct", "closed", "destroyed", "crashed"}
           \/ Where' = "opening" /\ BeforeOK
    PROVE  InInv'
  <1>1. UNCHANGED <<server, down, hs_buffer, accepted, recvvars, served, got>>
    BY DEF inputs
  <1>2. HandshakeOK'
    BY <1>1 DEF InInv, HandshakeOK
  <1>3. Renegotiating' <=> Renegotiating
    BY <1>1, SameBytes DEF Renegotiating, recvvars
  <1>4. recv_buffer_pos' = recv_buffer_pos
    BY <1>1 DEF recvvars
  <1>5. CASE Where' = Where /\ status' = status
    <2>1. Phase'
      BY <1>1, <1>3, <1>4, <1>5, SameBytes DEF InInv, Phase
    <2> QED
      BY <1>1, <1>2, <2>1, SameBytes DEF InInv
  <1>6. CASE Where' \in {"defunct", "closed", "destroyed", "crashed"}
    <2>1. Phase'
      BY <1>6 DEF Phase, Idle, Verifying
    <2> QED
      BY <1>1, <1>2, <2>1, SameBytes DEF InInv
  <1>7. CASE Where' = "opening" /\ BeforeOK
    <2>1. Phase'
      BY <1>1, <1>7, SameBytes DEF Phase, Idle, Verifying
    <2> QED
      BY <1>1, <1>2, <2>1, SameBytes DEF InInv
  <1> QED
    BY <1>5, <1>6, <1>7

\* Where the phases say it
LEMMA PhaseIs ==
    ASSUME \/ Where' = "handshake" /\ BeforeOK' /\ HandshakeStream'
           \/ Where' = "token" /\ ((BeforeOK' /\ HandshakeStream') \/ Renegotiating')
           \/ Where' \in Verifying /\ VerifyOK'
           \/ Where' \in Idle /\ SessionOK' /\ recv_buffer_pos' = 0
           \/ Where' = "recv" /\ SessionOK' /\ NonePending' /\ status' # "incomplete"
           \/ Where' = "recv" /\ SessionOK' /\ NonePending' /\ ~Complete(Received')
           \/ Where' = "decrypt" /\ SessionOK' /\ NonePending'
           \/ Where' = "opening" /\ BeforeOK'
           \/ Where' \in {"defunct", "closed", "destroyed", "crashed"}
    PROVE  Phase'
  <1>1. CASE Where' = "handshake" /\ BeforeOK' /\ HandshakeStream'
    BY <1>1 DEF Phase, Idle, Verifying
  <1>2. CASE Where' = "token" /\ ((BeforeOK' /\ HandshakeStream') \/ Renegotiating')
    BY <1>2 DEF Phase, Idle, Verifying
  <1>3. CASE Where' \in Verifying /\ VerifyOK'
    BY <1>3 DEF Phase, Idle, Verifying
  <1>4. CASE Where' \in Idle /\ SessionOK' /\ recv_buffer_pos' = 0
    BY <1>4 DEF Phase, Idle, Verifying
  <1>5. CASE Where' = "recv" /\ SessionOK' /\ NonePending' /\ status' # "incomplete"
    BY <1>5 DEF Phase, Idle, Verifying
  <1>6. CASE Where' = "recv" /\ SessionOK' /\ NonePending' /\ ~Complete(Received')
    BY <1>6 DEF Phase, Idle, Verifying
  <1>7. CASE Where' = "decrypt" /\ SessionOK' /\ NonePending'
    BY <1>7 DEF Phase, Idle, Verifying
  <1>8. CASE Where' = "opening" /\ BeforeOK'
    BY <1>8 DEF Phase, Idle, Verifying
  <1>9. CASE Where' \in {"defunct", "closed", "destroyed", "crashed"}
    BY <1>9 DEF Phase, Idle, Verifying
  <1> QED
    BY <1>1, <1>2, <1>3, <1>4, <1>5, <1>6, <1>7, <1>8, <1>9

\* A call that fails before there is a recv_buffer fails the attempt, and
\* nothing was got from that server.
LEMMA FailsIn ==
    ASSUME InInv, pc \in {"sending", "handshake", "token", "verify", "sizes", "encrypt", "recv", "decrypt"},
           UNCHANGED inputs, pc' = FailedPc, then' = then
    PROVE  InInv'
  <1>1. pc' \in {"closed", "opening", "defunct"} /\ pc' # "sending"
    BY DEF FailedPc
  <1>2. PlaceOK' /\ Where' = pc'
    BY <1>1 DEF InInv, PlaceOK, Places, Where
  <1>3. ASSUME pc' = "opening" PROVE BeforeOK
    <2>1. recv_buffer = <<>> /\ then # "closed"
      BY <1>3 DEF FailedPc
    <2>2. Where \in {"opening", "handshake", "token", "verify", "sizes", "ready", "encrypt", "recv",
                     "decrypt"}
      BY <2>1 DEF Where, InInv, PlaceOK, Sends
    <2> QED
      BY <2>1, <2>2 DEF InInv, Phase, SessionOK, Renegotiating, VerifyOK, Idle, Verifying
  <1> QED
    BY <1>1, <1>2, <1>3, StayOrEnd

-----------------------------------------------------------------------------
(* The steps: the handshake *)

\* A call that fails.
LEMMA FailuresIn ==
    ASSUME InInv, Failures
    PROVE  InInv'
  <1>1. Fail /\ pc \in {"sending", "handshake", "token", "verify", "sizes", "encrypt", "recv", "decrypt"}
    BY DEF Failures, SendFails, HandshakeReadFails, TokenFails, OpenBreaks, EncryptFails, RecvFails,
       DecryptFails
  <1>2. UNCHANGED inputs /\ pc' = FailedPc /\ then' = then
    BY <1>1 DEF Fail, inputs, session, wire, hsvars, sendvars, data
  <1> QED
    BY <1>1, <1>2, FailsIn

\* Steps that leave the bytes of the server alone.
LEMMA LeavesBytes ==
    ASSUME InInv, OpenFails \/ SendSome \/ TokenRefused \/ Encrypt \/ DecryptExpired \/ SendCall
    PROVE  InInv'
  <1> USE DEF inputs, session, wire, hsvars, sendvars, data
  <1>1. CASE OpenFails
    <2>1. UNCHANGED inputs /\ PlaceOK' /\ Where' = "defunct"
      BY <1>1 DEF OpenFails, InInv, PlaceOK, Places, Where
    <2> QED
      BY <2>1, StayOrEnd
  <1>2. CASE SendSome
    <2>1. /\ pc = "sending" /\ UNCHANGED inputs /\ status' = status
          /\ (pc' = pc /\ then' = then) \/ (pc' = then /\ then' = "none")
      BY <1>2 DEF SendSome, SendSomeFrom
    <2>2. then \in Sends /\ then \in Places /\ then # "sending"
      BY <2>1 DEF InInv, PlaceOK, Sends, Places
    <2>3. Where' = Where /\ PlaceOK'
      BY <2>1, <2>2 DEF InInv, PlaceOK, Where, recvvars
    <2> QED
      BY <2>1, <2>3, StayOrEnd
  <1>3. CASE TokenRefused
    <2>1. /\ pc = "token" /\ UNCHANGED inputs
          /\ (pc' = FailedPc /\ then' = then) \/ (pc' = "sending" /\ then' = FailedPc)
      BY <1>3 DEF TokenRefused
    <2>2. CASE pc' = FailedPc /\ then' = then
      BY <2>1, <2>2, FailsIn
    <2>3. CASE pc' = "sending" /\ then' = FailedPc
      <3>1. /\ FailedPc \in {"closed", "opening", "defunct"}
            /\ FailedPc = "opening" => recv_buffer = <<>>
            /\ FailedPc = "defunct" => recv_buffer # <<>>
        BY DEF FailedPc
      <3>2. PlaceOK' /\ Where' = FailedPc
        BY <2>1, <2>3, <3>1 DEF PlaceOK, Places, Sends, Where, recvvars
      <3>3. FailedPc = "opening" => BeforeOK
        BY <2>1, <3>1 DEF InInv, Phase, Where, Renegotiating
      <3> QED
        BY <2>1, <3>1, <3>2, <3>3, StayOrEnd
    <2> QED
      BY <2>1, <2>2, <2>3
  <1>4. CASE Encrypt
    <2>1. /\ pc = "encrypt" /\ UNCHANGED inputs /\ recv_buffer_pos' = recv_buffer_pos
          /\ pc' = "sending" /\ then' \in {"ready", "encrypt"}
      BY <1>4 DEF Encrypt, recvvars
    <2>2. PlaceOK' /\ Where \in Idle /\ Where' \in Idle
      BY <2>1 DEF PlaceOK, Places, Sends, Where, Idle
    <2>3. HandshakeOK'
      BY <2>1 DEF InInv, HandshakeOK
    <2>4. SessionOK' /\ BuffersOK' /\ CountsOK' /\ PendingText' /\ recv_buffer_pos' = 0
      BY <2>1, <2>2, SameBytes DEF InInv, Phase
    <2>5. Phase'
      BY <2>2, <2>4, PhaseIs
    <2> QED
      BY <2>2, <2>3, <2>4, <2>5 DEF InInv
  <1>5. CASE DecryptExpired
    <2>1. UNCHANGED inputs /\ PlaceOK' /\ Where' = "defunct"
      BY <1>5 DEF DecryptExpired, InInv, PlaceOK, Places, Where
    <2> QED
      BY <2>1, StayOrEnd
  <1>6. CASE SendCall
    <2>1. /\ pc = "ready" /\ UNCHANGED inputs /\ recv_buffer_pos' = recv_buffer_pos
          /\ pc' = "encrypt" /\ then' = then
      BY <1>6 DEF SendCall, recvvars
    <2>2. PlaceOK' /\ Where \in Idle /\ Where' \in Idle
      BY <2>1 DEF InInv, PlaceOK, Places, Sends, Where, Idle
    <2>3. HandshakeOK'
      BY <2>1 DEF InInv, HandshakeOK
    <2>4. SessionOK' /\ BuffersOK' /\ CountsOK' /\ PendingText' /\ recv_buffer_pos' = 0
      BY <2>1, <2>2, SameBytes DEF InInv, Phase
    <2>5. Phase'
      BY <2>2, <2>4, PhaseIs
    <2> QED
      BY <2>2, <2>3, <2>4, <2>5 DEF InInv
  <1> QED
    BY <1>1, <1>2, <1>3, <1>4, <1>5, <1>6

\* Types of the handshake
LEMMA HandshakeBytes ==
    ASSUME HandshakeOK
    PROVE  /\ server \in Nat /\ accepted \in Nat
           /\ hs_buffer \in Seq(Bytes) /\ down \in Seq(Bytes)
           /\ hs_buffer \in Seq(BytesUpTo(server)) /\ down \in Seq(BytesUpTo(server))
           /\ BytesUpTo(server) \subseteq Bytes
  <1>1. Servers \in Nat
    BY SChannelAssumption
  <1>2. server \in Nat /\ accepted \in Nat
    BY <1>1 DEF HandshakeOK, Tokens
  <1>3. hs_buffer \in Seq(BytesUpTo(server)) /\ down \in Seq(BytesUpTo(server))
    BY DEF HandshakeOK
  <1>4. BytesUpTo(server) \subseteq Bytes
    BY <1>2 DEF BytesUpTo, Bytes
  <1> QED
    BY <1>2, <1>3, <1>4, SessionBytes

\* The next address: what is left in hs_buffer is of a server before.
LEMMA ConnectIn ==
    ASSUME InInv, Connect
    PROVE  InInv'
  <1> USE DEF session, wire, hsvars, sendvars, data
  <1>1. /\ pc = "opening" /\ server < Servers /\ server' = server + 1
        /\ down' = <<>> /\ accepted' = 0 /\ served' = <<>>
        /\ hs_buffer' = hs_buffer /\ UNCHANGED recvvars /\ got' = got
    BY DEF Connect
  <1>2. Where = "opening" /\ BeforeOK
    BY <1>1 DEF InInv, Phase, Where
  <1>3. /\ PlaceOK'
        /\ Where' \in {"opening", "crashed", "handshake"}
    <2>1. \/ pc' = pc /\ then' = then
          \/ pc' = "crashed" /\ then' = then
          \/ pc' = "sending" /\ then' = "handshake"
      BY DEF Connect
    <2> QED
      BY <1>1, <2>1 DEF InInv, PlaceOK, Places, Sends, Where
  <1>4. HandshakeOK'
    <2>1. server \in Nat /\ Servers \in Nat /\ server \in 0 .. Servers
      BY SChannelAssumption, HandshakeBytes DEF InInv, HandshakeOK
    <2>2. server' \in 0 .. Servers
      BY <1>1, <2>1
    <2>3. hs_buffer \in Seq(BytesUpTo(server + 1))
      BY <2>1, HandshakeBytes, SessionBytes DEF InInv
    <2>4. down' \in Seq(BytesUpTo(server'))
      BY <1>1
    <2>5. accepted' \in 0 .. Tokens
      BY <1>1 DEF Tokens
    <2> QED
      BY <1>1, <2>2, <2>3, <2>4, <2>5 DEF InInv, HandshakeOK
  <1>5. BuffersOK' /\ PendingText'
    BY <1>1 DEF InInv, BuffersOK, PendingText, Rest, recvvars
  <1>6. BeforeOK'
    BY <1>1, <1>2 DEF BeforeOK, recvvars
  <1>7. CountsOK' /\ Len(served') = 0
    <2>1. <<>> \in Seq(Nat) /\ Len(<<>>) = 0 /\ <<>> = Numbers(0, 0)
      BY DEF Numbers
    <2>2. served' = <<>> /\ got' = <<>>
      BY <1>1, <1>6 DEF BeforeOK
    <2> QED
      BY <2>1, <2>2 DEF CountsOK, Counted
  <1>8. HandshakeStream'
    <2>1. CASE hs_buffer = <<>>
      <3>1. hs_buffer' \o down' = <<>>
        BY <1>1, <2>1
      <3>2. Framed(<<>>, 0, 0)
        BY FramedNothing
      <3> QED
        BY <1>7, <3>1, <3>2 DEF HandshakeStream
    <2>2. CASE hs_buffer # <<>>
      <3>1. Len(hs_buffer) \in Nat /\ Len(hs_buffer) # 0
        BY <2>2, LenProperties, EmptySeq, HandshakeBytes DEF InInv
      <3>2. 1 \in 1 .. Len(hs_buffer)
        BY <3>1
      <3>3. hs_buffer[1] \in BytesUpTo(server) /\ server \in Nat
        BY <3>2, ElementOfSeq, HandshakeBytes DEF InInv
      <3>4. hs_buffer[1].peer \in 0 .. server
        BY <3>3 DEF BytesUpTo
      <3>5. hs_buffer'[1].peer < server'
        BY <1>1, <3>3, <3>4
      <3> QED
        BY <1>1, <2>2, <3>5 DEF HandshakeStream
    <2> QED
      BY <2>1, <2>2
  <1>9. Phase'
    BY <1>3, <1>6, <1>8, PhaseIs
  <1> QED
    BY <1>3, <1>4, <1>5, <1>7, <1>9 DEF InInv

\* What is read comes from the socket and fits into hs_buffer.
LEMMA HandshakeTakes ==
    ASSUME HandshakeOK, HandshakeRead
    PROVE  \E n \in 0 .. Len(down) :
               /\ n <= HandshakeRoom
               /\ hs_buffer' = hs_buffer \o SubSeq(down, 1, n)
               /\ down' = SubSeq(down, n + 1, Len(down))
  <1> DEFINE k == Len(down)
             m == HandshakeRoom
  <1>1. k \in Nat /\ m \in Nat
    <2>1. Len(down) \in Nat /\ Len(hs_buffer) \in Nat
      BY HandshakeBytes, LenProperties
    <2>2. HandshakeLength \in Nat /\ Len(hs_buffer) <= HandshakeLength
      BY SChannelAssumption DEF HandshakeOK
    <2> QED
      BY <2>1, <2>2 DEF HandshakeRoom
  <1>2. PICK n \in IF m = 0 THEN {0} ELSE 1 .. Min({k, m}) :
            /\ hs_buffer' = hs_buffer \o SubSeq(down, 1, n)
            /\ down' = SubSeq(down, n + 1, Len(down))
    BY DEF HandshakeRead
  <1>3. n \in 0 .. k /\ n <= m
    <2> HIDE DEF k, m
    <2>1. CASE m = 0
      BY <1>1, <1>2, <2>1
    <2>2. CASE m # 0
      <3>1. Min({k, m}) = IF k <= m THEN k ELSE m
        BY <1>1, MinOK
      <3>2. n \in 1 .. Min({k, m})
        BY <1>2, <2>2
      <3> QED
        BY <1>1, <3>1, <3>2
    <2> QED
      BY <2>1, <2>2
  <1> QED
    BY <1>2, <1>3

\* Bytes move from the socket to hs_buffer.
LEMMA HandshakeReadIn ==
    ASSUME InInv, HandshakeRead
    PROVE  InInv'
  <1> USE DEF session, wire, hsvars, sendvars, data
  <1>1. PICK n \in 0 .. Len(down) :
            /\ n <= HandshakeRoom
            /\ hs_buffer' = hs_buffer \o SubSeq(down, 1, n)
            /\ down' = SubSeq(down, n + 1, Len(down))
    BY HandshakeTakes DEF InInv
  <1>2. /\ pc = "handshake" /\ pc' = "token" /\ then' = then
        /\ UNCHANGED <<server, accepted, served, got>> /\ UNCHANGED recvvars
    BY DEF HandshakeRead
  <1>3. /\ server \in Nat /\ hs_buffer \in Seq(Bytes) /\ down \in Seq(Bytes)
        /\ hs_buffer \in Seq(BytesUpTo(server)) /\ down \in Seq(BytesUpTo(server))
    BY HandshakeBytes DEF InInv
  <1>4. n \in 0 .. Len(down)
    OBVIOUS
  <1>5. HandshakeOK'
    <2>1. SubSeq(down, 1, n) \in Seq(BytesUpTo(server)) /\ down' \in Seq(BytesUpTo(server))
      BY <1>1, <1>3, <1>4, FrontIs, RestIs
    <2>2. hs_buffer' \in Seq(BytesUpTo(server)) /\ Len(hs_buffer') = Len(hs_buffer) + n
      <3>1. Len(SubSeq(down, 1, n)) = n
        BY <1>3, <1>4, FrontIs
      <3> QED
        BY <1>1, <1>3, <2>1, <3>1, ConcatProperties
    <2>3. Len(hs_buffer') <= HandshakeLength
      <3>1. Len(hs_buffer) \in Nat /\ HandshakeLength \in Nat /\ n \in Nat
        BY <1>3, <1>4, LenProperties, SChannelAssumption
      <3> QED
        BY <1>1, <2>2, <3>1 DEF HandshakeRoom
    <2> QED
      BY <1>2, <2>1, <2>2, <2>3 DEF InInv, HandshakeOK
  <1>6. BuffersOK' /\ PendingText' /\ CountsOK'
    BY <1>2 DEF InInv, BuffersOK, PendingText, CountsOK, Rest, recvvars
  <1>7. BeforeOK /\ HandshakeStream
    BY <1>2 DEF InInv, Phase, Where
  <1>8. BeforeOK'
    BY <1>2, <1>7 DEF BeforeOK, recvvars
  <1>9. HandshakeStream'
    <2>1. CASE Framed(hs_buffer \o down, 0, Len(served))
      <3>1. hs_buffer' \o down' = hs_buffer \o down
        BY <1>1, <1>3, <1>4, FrontMoves
      <3> QED
        BY <1>2, <2>1, <3>1 DEF HandshakeStream
    <2>2. CASE hs_buffer # <<>> /\ hs_buffer[1].peer < server
      <3>1. SubSeq(down, 1, n) \in Seq(Bytes)
        BY <1>3, <1>4, FrontIs
      <3>2. Len(hs_buffer) \in Nat /\ Len(hs_buffer) # 0
        BY <1>3, <2>2, LenProperties, EmptySeq
      <3>3. 1 \in 1 .. Len(hs_buffer)
        BY <3>2
      <3>4. hs_buffer' # <<>> /\ hs_buffer'[1] = hs_buffer[1]
        BY <1>1, <1>3, <2>2, <3>1, <3>3, FirstStays
      <3> QED
        BY <1>2, <2>2, <3>4 DEF HandshakeStream
    <2> QED
      BY <1>7, <2>1, <2>2 DEF HandshakeStream
  <1>10. PlaceOK' /\ Where' = "token"
    BY <1>2 DEF InInv, PlaceOK, Places, Where
  <1>11. Phase'
    BY <1>8, <1>9, <1>10, PhaseIs
  <1> QED
    BY <1>5, <1>6, <1>10, <1>11 DEF InInv

\* hs_buffer is looked at again.
LEMMA HandshakeKeepsIn ==
    ASSUME InInv, HandshakeKeeps
    PROVE  InInv'
  <1>1. pc = "handshake" /\ pc' = "token" /\ then' = then /\ UNCHANGED inputs
    BY DEF HandshakeKeeps, inputs, session, wire, hsvars, sendvars, data
  <1>2. BeforeOK /\ HandshakeStream /\ PlaceOK' /\ Where' = "token"
    BY <1>1 DEF InInv, Phase, Where, PlaceOK, Places
  <1>3. BeforeOK' /\ HandshakeStream' /\ BuffersOK' /\ CountsOK' /\ PendingText'
    BY <1>1, <1>2, SameBytes DEF inputs
  <1>4. HandshakeOK'
    BY <1>1 DEF InInv, HandshakeOK, inputs
  <1>5. Phase'
    BY <1>2, <1>3, PhaseIs
  <1> QED
    BY <1>2, <1>3, <1>4, <1>5 DEF InInv

\* The token that is expected next
LEMMA ExpectedToken ==
    ASSUME HandshakeOK
    PROVE  /\ Expected \in Seq(Bytes) /\ Len(Expected) = 2 /\ Expected[1] = Byte("token", server, 1)
           /\ Expected[2] = Byte("data", server, accepted + 1)
  <1>1. server \in Nat /\ accepted + 1 \in Nat
    BY HandshakeBytes
  <1>2. Expected \in Seq(BytesUpTo(server)) /\ Len(Expected) = 2 /\ Expected[1] = Byte("token", server, 1)
    BY <1>1, TokenOK DEF Expected
  <1>3. Expected[2] = Byte("data", server, accepted + 1)
    BY <1>1, TokenOK DEF Expected
  <1> QED
    BY <1>1, <1>2, <1>3, SessionBytes

\* hs_buffer begins with the token that is expected.
LEMMA TokenExpected ==
    ASSUME HandshakeOK, IsExpected
    PROVE  /\ hs_buffer # <<>> /\ Complete(hs_buffer) /\ Len(hs_buffer) >= 2
           /\ hs_buffer[1] = Byte("token", server, 1)
           /\ hs_buffer[2] = Byte("data", server, accepted + 1)
  <1>1. hs_buffer # <<>> /\ Complete(hs_buffer) /\ IsPrefix(Expected, hs_buffer)
    BY DEF IsExpected
  <1>2. hs_buffer \in Seq(Bytes) /\ Len(hs_buffer) \in Nat
    BY HandshakeBytes, LenProperties
  <1>3. Expected \in Seq(Bytes) /\ Len(Expected) = 2
    BY ExpectedToken
  <1>4. 2 <= Len(hs_buffer) /\ SubSeq(Expected, 1, 2) = SubSeq(hs_buffer, 1, 2)
    BY <1>1, <1>3 DEF IsPrefix
  <1>5. 2 \in 0 .. Len(Expected) /\ 2 \in 0 .. Len(hs_buffer)
    BY <1>2, <1>3, <1>4
  <1>6. \A i \in 1 .. 2 : SubSeq(Expected, 1, 2)[i] = Expected[i]
    BY <1>3, <1>5, FrontIs
  <1>7. \A i \in 1 .. 2 : SubSeq(hs_buffer, 1, 2)[i] = hs_buffer[i]
    BY <1>2, <1>5, FrontIs
  <1>8. 1 \in 1 .. 2 /\ 2 \in 1 .. 2
    OBVIOUS
  <1>9. hs_buffer[1] = Expected[1] /\ hs_buffer[2] = Expected[2]
    BY <1>4, <1>6, <1>7, <1>8
  <1> QED
    BY <1>1, <1>2, <1>4, <1>9, ExpectedToken

\* The token of the last handshake is not taken in a new one.
LEMMA StaleToken ==
    ASSUME HandshakeOK, Renegotiating
    PROVE  ~IsExpected /\ ~IsStrictPrefix(hs_buffer, Expected)
  <1>1. hs_buffer = Token(server, Tokens) /\ accepted = 0 /\ server \in Nat /\ Tokens \in Nat
    BY HandshakeBytes DEF Renegotiating, LastToken, Tokens
  <1>2. hs_buffer \in Seq(Bytes) /\ Len(hs_buffer) = 2 /\ hs_buffer[2] = Byte("data", server, Tokens)
    BY <1>1, TokenOK, HandshakeBytes
  <1>3. Expected \in Seq(Bytes) /\ Len(Expected) = 2 /\ Expected[2] = Byte("data", server, 1)
    BY <1>1, ExpectedToken
  <1>4. hs_buffer[2] # Expected[2]
    <2>1. hs_buffer[2].v = 3 /\ Expected[2].v = 1
      BY <1>2, <1>3 DEF Byte, Tokens
    <2> QED
      BY <2>1
  <1>5. ~IsExpected
    <2>1. ASSUME IsExpected PROVE FALSE
      <3>1. hs_buffer[2] = Byte("data", server, accepted + 1)
        BY <2>1, TokenExpected
      <3> QED
        BY <1>1, <1>3, <1>4, <3>1
    <2> QED
      BY <2>1
  <1>6. ~IsStrictPrefix(hs_buffer, Expected)
    <2>1. ASSUME IsPrefix(hs_buffer, Expected) PROVE FALSE
      <3>1. SubSeq(hs_buffer, 1, Len(hs_buffer)) = SubSeq(Expected, 1, Len(Expected))
        BY <1>2, <1>3, <2>1 DEF IsPrefix
      <3>2. hs_buffer = Expected
        BY <1>2, <1>3, <3>1, SubSeqFull
      <3> QED
        BY <1>4, <3>2
    <2> QED
      BY <2>1 DEF IsStrictPrefix
  <1> QED
    BY <1>5, <1>6

\* More of the token is needed.
LEMMA TokenIncompleteIn ==
    ASSUME InInv, TokenIncomplete
    PROVE  InInv'
  <1>1. pc = "token" /\ pc' = "handshake" /\ then' = then /\ UNCHANGED inputs
    BY DEF TokenIncomplete, inputs, session, wire, sendvars, data
  <1>2. ~Renegotiating
    BY StaleToken DEF TokenIncomplete, InInv
  <1>3. BeforeOK /\ HandshakeStream /\ PlaceOK' /\ Where' = "handshake"
    BY <1>1, <1>2 DEF InInv, Phase, Where, PlaceOK, Places
  <1>4. BeforeOK' /\ HandshakeStream' /\ BuffersOK' /\ CountsOK' /\ PendingText'
    BY <1>1, <1>3, SameBytes DEF inputs
  <1>5. HandshakeOK'
    BY <1>1 DEF InInv, HandshakeOK, inputs
  <1>6. Phase'
    BY <1>3, <1>4, PhaseIs
  <1> QED
    BY <1>3, <1>4, <1>5, <1>6 DEF InInv

\* Only before the session is a token taken, of this server; what follows
\* are units.
LEMMA TokenTaken ==
    ASSUME InInv, pc = "token", IsExpected
    PROVE  /\ BeforeOK
           /\ Behind(hs_buffer) \in Seq(BytesUpTo(server)) /\ Len(Behind(hs_buffer)) = Len(hs_buffer) - 2
           /\ Framed(Behind(hs_buffer) \o down, 0, Len(served))
  <1>1. HandshakeOK /\ ~Renegotiating
    BY StaleToken DEF InInv
  <1>2. BeforeOK /\ HandshakeStream
    BY <1>1 DEF InInv, Phase, Where
  <1>3. /\ server \in Nat /\ hs_buffer \in Seq(Bytes) /\ down \in Seq(Bytes)
        /\ hs_buffer \in Seq(BytesUpTo(server)) /\ BytesUpTo(server) \subseteq Bytes
    BY <1>1, HandshakeBytes
  <1>4. /\ hs_buffer # <<>> /\ Complete(hs_buffer) /\ Len(hs_buffer) >= 2
        /\ hs_buffer[1] = Byte("token", server, 1)
    BY <1>1, TokenExpected
  <1>5. hs_buffer[1].v = 1 /\ hs_buffer[1].peer = server /\ hs_buffer[1].kind = "token"
    BY <1>4 DEF Byte
  <1>6. Framed(hs_buffer \o down, 0, Len(served))
    BY <1>2, <1>3, <1>5 DEF HandshakeStream
  <1>7. /\ Behind(hs_buffer) \in Seq(BytesUpTo(server))
        /\ Len(Behind(hs_buffer)) = Len(hs_buffer) - hs_buffer[1].v - 1 /\ 1 \in 1 .. Len(hs_buffer)
        /\ Len(hs_buffer) \in Nat
    BY <1>3, <1>4, BehindOK
  <1>8. Len(Behind(hs_buffer)) = Len(hs_buffer) - 2
    BY <1>5, <1>7
  <1> DEFINE s == hs_buffer \o down
  <1>9. /\ s \in Seq(Bytes) /\ s # <<>> /\ s[1] = hs_buffer[1] /\ Behind(s) = Behind(hs_buffer) \o down
    BY <1>3, <1>4, <1>7, FirstStays
  <1>10. Framed(s, 0, Len(served))
    BY <1>6
  <1> HIDE DEF s
  <1>11. Len(served) \in Nat
    BY LenProperties DEF InInv, CountsOK, Counted
  <1>12. Framed(Behind(s), After(s[1], 0), Len(served))
    BY <1>9, <1>10, <1>11, FramedBegins
  <1>13. After(s[1], 0) = 0
    BY <1>5, <1>9 DEF After
  <1> QED
    BY <1>2, <1>7, <1>8, <1>9, <1>12, <1>13

\* A token of the handshake
LEMMA TokenContinueIn ==
    ASSUME InInv, TokenContinue
    PROVE  InInv'
  <1>1. /\ pc = "token" /\ IsExpected /\ accepted' = accepted + 1 /\ accepted + 1 < Tokens
        /\ hs_buffer' = Behind(hs_buffer)
        /\ (pc' = "sending" /\ then' = "handshake") \/ (pc' = "handshake" /\ then' = then)
        /\ UNCHANGED <<server, down, served, got>> /\ UNCHANGED recvvars
    BY DEF TokenContinue, session, wire, data
  <1>2. /\ BeforeOK /\ Behind(hs_buffer) \in Seq(BytesUpTo(server))
        /\ Len(Behind(hs_buffer)) = Len(hs_buffer) - 2
        /\ Framed(Behind(hs_buffer) \o down, 0, Len(served))
    BY <1>1, TokenTaken
  <1>3. HandshakeOK'
    <2>1. accepted' \in 0 .. Tokens
      BY <1>1, HandshakeBytes DEF InInv, Tokens
    <2>2. Len(hs_buffer') <= HandshakeLength
      <3>1. /\ Len(hs_buffer) \in Nat /\ HandshakeLength \in Nat
            /\ Len(hs_buffer) <= HandshakeLength
        BY HandshakeBytes, LenProperties, SChannelAssumption DEF InInv, HandshakeOK
      <3> QED
        BY <1>1, <1>2, <3>1
    <2> QED
      BY <1>1, <1>2, <2>1, <2>2 DEF InInv, HandshakeOK
  <1>4. BuffersOK' /\ PendingText' /\ CountsOK'
    BY <1>1 DEF InInv, BuffersOK, PendingText, CountsOK, Rest, recvvars
  <1>5. BeforeOK' /\ HandshakeStream'
    BY <1>1, <1>2 DEF BeforeOK, HandshakeStream, recvvars
  <1>6. PlaceOK' /\ Where' = "handshake"
    BY <1>1 DEF InInv, PlaceOK, Places, Sends, Where
  <1>7. Phase'
    BY <1>5, <1>6, PhaseIs
  <1> QED
    BY <1>3, <1>4, <1>6, <1>7 DEF InInv

\* The last token of the handshake
LEMMA TokenLastIn ==
    ASSUME InInv, TokenLast
    PROVE  InInv'
  <1>1. /\ pc = "token" /\ IsExpected /\ accepted' = accepted + 1 /\ accepted + 1 = Tokens
        /\ pc' = IF Behind(hs_buffer) = <<>> THEN "verify" ELSE "crashed"
        /\ then' = then /\ hs_buffer' = hs_buffer
        /\ UNCHANGED <<server, down, served, got>> /\ UNCHANGED recvvars
    BY DEF TokenLast, session, wire, data, sendvars
  <1>2. /\ BeforeOK /\ Behind(hs_buffer) \in Seq(BytesUpTo(server))
        /\ Len(Behind(hs_buffer)) = Len(hs_buffer) - 2
        /\ Framed(Behind(hs_buffer) \o down, 0, Len(served))
    BY <1>1, TokenTaken
  <1>3. HandshakeOK'
    <2>1. accepted' \in 0 .. Tokens
      BY <1>1, HandshakeBytes DEF InInv, Tokens
    <2> QED
      BY <1>1, <2>1 DEF InInv, HandshakeOK
  <1>4. BuffersOK' /\ PendingText' /\ CountsOK'
    BY <1>1 DEF InInv, BuffersOK, PendingText, CountsOK, Rest, recvvars
  <1>5. PlaceOK' /\ Where' \in {"verify", "crashed"}
    BY <1>1 DEF InInv, PlaceOK, Places, Sends, Where
  <1>6. CASE Behind(hs_buffer) # <<>>
    <2>1. Where' = "crashed"
      BY <1>1, <1>6 DEF Where
    <2>2. Phase'
      BY <2>1, PhaseIs
    <2> QED
      BY <1>3, <1>4, <1>5, <2>2 DEF InInv
  <1>7. CASE Behind(hs_buffer) = <<>>
    <2>1. Where' \in Verifying
      BY <1>1, <1>7 DEF Where, Verifying
    <2>2. /\ server \in Nat /\ hs_buffer \in Seq(Bytes) /\ down \in Seq(Bytes)
      BY HandshakeBytes DEF InInv
    <2>3. Framed(down, 0, Len(served))
      <3>1. Behind(hs_buffer) \o down = down
        BY <1>7, <2>2, Joined
      <3> QED
        BY <1>2, <3>1
    <2>4. hs_buffer = LastToken
      <3>1. Len(hs_buffer) \in Nat /\ Len(<<>>) = 0
        BY <2>2, LenProperties
      <3>2. Len(hs_buffer) = 2
        BY <1>2, <1>7, <3>1
      <3>3. Tokens \in Nat /\ accepted + 1 = Tokens
        BY <1>1 DEF Tokens
      <3>4. hs_buffer[1] = Byte("token", server, 1) /\ hs_buffer[2] = Byte("data", server, Tokens)
        BY <1>1, TokenExpected DEF InInv
      <3>5. /\ LastToken \in Seq(Bytes) /\ Len(LastToken) = 2
            /\ LastToken[1] = Byte("token", server, 1) /\ LastToken[2] = Byte("data", server, Tokens)
        BY <2>2, <3>3, TokenOK, SessionBytes DEF LastToken
      <3>6. \A i \in 1 .. Len(hs_buffer) : hs_buffer[i] = LastToken[i]
        BY <3>2, <3>4, <3>5
      <3> QED
        BY <2>2, <3>2, <3>5, <3>6, SeqEqual
    <2>5. VerifyOK'
      BY <1>1, <1>2, <2>3, <2>4 DEF VerifyOK, BeforeOK, LastToken, recvvars
    <2>6. Phase'
      BY <2>1, <2>5, PhaseIs
    <2> QED
      BY <1>3, <1>4, <1>5, <2>6 DEF InInv
  <1> QED
    BY <1>6, <1>7

\* The certificate is verified.
LEMMA VerifyIn ==
    ASSUME InInv, Verify
    PROVE  InInv'
  <1>1. pc = "verify" /\ pc' \in {"sizes", "opening"} /\ then' = then /\ UNCHANGED inputs
    BY DEF Verify, inputs, wire, hsvars, sendvars, data
  <1>2. VerifyOK /\ PlaceOK' /\ Where' = pc'
    BY <1>1 DEF InInv, Phase, Where, PlaceOK, Places, Verifying
  <1>3. VerifyOK' /\ BeforeOK' /\ BuffersOK' /\ CountsOK' /\ PendingText'
    BY <1>1, <1>2, SameBytes DEF inputs, VerifyOK
  <1>4. HandshakeOK'
    BY <1>1 DEF InInv, HandshakeOK, inputs
  <1>5. Where' \in Verifying \/ Where' = "opening"
    BY <1>1, <1>2 DEF Verifying
  <1>6. Phase'
    BY <1>3, <1>5, PhaseIs
  <1> QED
    BY <1>2, <1>3, <1>4, <1>6 DEF InInv

\* Nothing points into a buffer that is empty.
LEMMA NothingPoints ==
    ASSUME BuffersOK, recv_buffer = <<>>
    PROVE  NonePending /\ Rest = 0
  <1>1. ASSUME NEW p, Into(recv_buffer, p) PROVE p = Nothing
    <2>1. Len(recv_buffer) = 0
      OBVIOUS
    <2> QED
      BY <1>1, <2>1 DEF Into
  <1>2. NonePending
    BY <1>1 DEF BuffersOK, NonePending
  <1> QED
    BY <1>2 DEF NonePending, Rest, Nothing

\* The buffers of the record layer
LEMMA StreamSizesIn ==
    ASSUME InInv, StreamSizes
    PROVE  InInv'
  <1>1. /\ pc = "sizes" /\ pc' = "ready" /\ then' = then
        /\ recv_buffer' = [i \in 1 .. BufferLength |-> Blank] /\ recv_buffer_pos' = 0
        /\ UNCHANGED <<server, down, hs_buffer, accepted, pt_pending, ct_pending, length, served, got>>
    BY DEF StreamSizes, wire, hsvars, sendvars, data
  <1>2. VerifyOK /\ PlaceOK' /\ Where' \in Idle
    BY <1>1 DEF InInv, Phase, Where, PlaceOK, Places, Verifying, Idle
  <1>3. recv_buffer = <<>> /\ got = <<>> /\ hs_buffer = LastToken /\ Framed(down, 0, Len(served))
    BY <1>2 DEF VerifyOK, BeforeOK
  <1>4. NonePending /\ Rest = 0
    BY <1>3, NothingPoints DEF InInv
  <1>5. recv_buffer' \in Seq(Bytes) /\ Len(recv_buffer') = BufferLength /\ BufferLength \in Nat \ {0}
    <2>1. BufferLength \in Nat \ {0}
      BY SChannelAssumption DEF BufferLength
    <2>2. Blank \in Bytes
      BY DEF Blank, Byte, Bytes, Kinds
    <2> QED
      BY <1>1, <2>1, <2>2
  <1>6. BuffersOK'
    BY <1>1, <1>4, <1>5 DEF InInv, BuffersOK, NonePending, Into
  <1>7. HandshakeOK' /\ CountsOK'
    BY <1>1 DEF InInv, HandshakeOK, CountsOK
  <1>8. Rest' = Rest /\ NonePending'
    BY <1>1, <1>4 DEF Rest, NonePending
  <1>9. PendingText'
    BY <1>4, <1>8 DEF PendingText
  <1>10. Unread' = down
    <2>1. down \in Seq(Bytes)
      BY HandshakeBytes DEF InInv
    <2>2. Received' = <<>>
      BY <1>1, SubSeqEmpty DEF Received
    <2>3. Unread' = <<>> \o (<<>> \o down)
      BY <1>1, <1>8, <2>2 DEF Unread, NonePending
    <2> QED
      BY <2>1, <2>3, Joined
  <1>11. SessionOK'
    <2>1. recv_buffer' # <<>>
      BY <1>5, EmptySeq
    <2>2. Len(got') + Rest' = 0
      BY <1>1, <1>3, <1>4, <1>8
    <2> QED
      BY <1>1, <1>3, <1>10, <2>1, <2>2 DEF SessionOK, LastToken
  <1>12. Phase'
    BY <1>1, <1>2, <1>11, PhaseIs
  <1> QED
    BY <1>2, <1>6, <1>7, <1>9, <1>12 DEF InInv

-----------------------------------------------------------------------------
(* The steps: receiving *)

\* What is received and not decrypted yet
LEMMA ReceivedIs ==
    ASSUME BuffersOK
    PROVE  /\ Received \in Seq(Bytes) /\ Len(Received) = recv_buffer_pos /\ recv_buffer_pos \in Nat
           /\ recv_buffer_pos <= Len(recv_buffer) /\ recv_buffer \in Seq(Bytes)
           /\ Len(recv_buffer) \in Nat
           /\ \A i \in 1 .. recv_buffer_pos : Received[i] = recv_buffer[i]
           /\ recv_buffer_pos = 0 => Received = <<>>
  <1>1. recv_buffer \in Seq(Bytes) /\ recv_buffer_pos \in 0 .. Len(recv_buffer) /\ Len(recv_buffer) \in Nat
    BY LenProperties DEF BuffersOK
  <1>2. recv_buffer_pos \in Nat /\ recv_buffer_pos <= Len(recv_buffer)
    BY <1>1
  <1>3. /\ Received \in Seq(Bytes) /\ Len(Received) = recv_buffer_pos
        /\ \A i \in 1 .. recv_buffer_pos : Received[i] = recv_buffer[i]
    BY <1>1, FrontIs DEF Received
  <1>4. recv_buffer_pos = 0 => Received = <<>>
    BY <1>3, EmptySeq
  <1> QED
    BY <1>1, <1>2, <1>3, <1>4

\* While nothing is pending, what is unread begins with what was received.
LEMMA UnreadIs ==
    ASSUME InInv, NonePending
    PROVE  Unread = Received \o down /\ Rest = 0
  <1>1. Received \in Seq(Bytes) /\ down \in Seq(Bytes)
    BY ReceivedIs, HandshakeBytes DEF InInv
  <1>2. Received \o down \in Seq(Bytes)
    BY <1>1, Joined
  <1>3. Unread = <<>> \o (Received \o down)
    BY DEF Unread, NonePending
  <1>4. Unread = Received \o down
    BY <1>2, <1>3, Joined
  <1>5. Rest = 0
    BY DEF NonePending, Rest, Nothing
  <1> QED
    BY <1>4, <1>5

\* What recv_buffer holds is tried first, or a record is not complete.
LEMMA LooksIn ==
    ASSUME InInv, RecvKeeps \/ DecryptIncomplete
    PROVE  InInv'
  <1>1. /\ then' = then /\ UNCHANGED inputs
        /\ \/ pc = "recv" /\ pc' = "decrypt"
           \/ pc = "decrypt" /\ pc' = "recv" /\ ~Complete(Received)
    BY DEF RecvKeeps, DecryptIncomplete, inputs, session, wire, hsvars, sendvars, data
  <1>2. SessionOK /\ NonePending
    BY <1>1 DEF InInv, Phase, Where
  <1>3. /\ SessionOK' /\ NonePending' /\ Received' = Received
        /\ BuffersOK' /\ CountsOK' /\ PendingText'
    BY <1>1, <1>2, SameBytes DEF inputs
  <1>4. HandshakeOK'
    BY <1>1 DEF InInv, HandshakeOK, inputs
  <1>5. PlaceOK' /\ Where' = pc'
    BY <1>1 DEF InInv, PlaceOK, Places, Where
  <1>6. Phase'
    BY <1>1, <1>3, <1>5, PhaseIs
  <1> QED
    BY <1>3, <1>4, <1>5, <1>6 DEF InInv

\* Bytes move from the socket to recv_buffer.
LEMMA RecvSomeIn ==
    ASSUME InInv, RecvSome
    PROVE  InInv'
  <1>1. PICK n \in 1 .. Min({Len(down), BufferLength - recv_buffer_pos}) :
            /\ recv_buffer' = Written(recv_buffer, SubSeq(down, 1, n), recv_buffer_pos)
            /\ recv_buffer_pos' = recv_buffer_pos + n
            /\ down' = SubSeq(down, n + 1, Len(down))
    BY DEF RecvSome
  <1>2. /\ pc = "recv" /\ pc' = "decrypt" /\ then' = then
        /\ UNCHANGED <<server, accepted, hs_buffer, pt_pending, ct_pending, length, served, got>>
    BY DEF RecvSome, session, hsvars, sendvars, data
  <1>3. SessionOK /\ NonePending
    BY <1>2 DEF InInv, Phase, Where
  <1>4. /\ down \in Seq(Bytes) /\ down \in Seq(BytesUpTo(server)) /\ Len(down) \in Nat
    BY HandshakeBytes, LenProperties DEF InInv
  <1>5. /\ Received \in Seq(Bytes) /\ recv_buffer_pos \in Nat /\ recv_buffer_pos <= Len(recv_buffer)
        /\ recv_buffer \in Seq(Bytes) /\ Len(recv_buffer) \in Nat
    BY ReceivedIs DEF InInv
  <1>6. Len(recv_buffer) = BufferLength
    BY <1>3 DEF InInv, BuffersOK, SessionOK
  <1>7. n \in 1 .. Len(down) /\ n <= Len(recv_buffer) - recv_buffer_pos /\ n \in 0 .. Len(down)
    <2>1. BufferLength - recv_buffer_pos \in Nat
      BY <1>5, <1>6
    <2>2. Min({Len(down), BufferLength - recv_buffer_pos}) =
              IF Len(down) <= BufferLength - recv_buffer_pos THEN Len(down) ELSE BufferLength - recv_buffer_pos
      BY <1>4, <2>1, MinOK
    <2> HIDE DEF BufferLength
    <2> QED
      BY <1>4, <1>5, <1>6, <2>1, <2>2
  <1> DEFINE f == SubSeq(down, 1, n)
  <1>8. f \in Seq(Bytes) /\ Len(f) = n /\ down' \in Seq(Bytes) /\ down' \in Seq(BytesUpTo(server))
    BY <1>1, <1>4, <1>7, FrontIs, RestIs
  <1>9. recv_buffer_pos + Len(f) <= Len(recv_buffer)
    BY <1>5, <1>7, <1>8
  <1> HIDE DEF f
  <1>10. /\ recv_buffer' \in Seq(Bytes) /\ Len(recv_buffer') = Len(recv_buffer)
         /\ SubSeq(recv_buffer', 1, recv_buffer_pos + Len(f)) = Received \o f
    BY <1>1, <1>5, <1>8, <1>9, WrittenOK DEF f, Received
  <1>11. Received' = Received \o f
    BY <1>1, <1>8, <1>10 DEF Received
  <1>12. Received' \o down' = Received \o down
    BY <1>1, <1>4, <1>5, <1>7, <1>11, FrontMoves DEF f
  <1>13. NonePending' /\ Rest' = Rest
    BY <1>2, <1>3 DEF NonePending, Rest
  <1>14. Unread' = Unread
    BY <1>12, <1>13, <1>3 DEF Unread, NonePending
  <1>15. recv_buffer' # <<>>
    <2>1. Len(recv_buffer') # 0
      BY <1>5, <1>7, <1>10
    <2> QED
      BY <1>10, <2>1, EmptySeq
  <1>16. SessionOK'
    BY <1>2, <1>3, <1>13, <1>14, <1>15 DEF SessionOK, LastToken
  <1>17. BuffersOK'
    <2>1. recv_buffer_pos' \in 0 .. Len(recv_buffer')
      BY <1>1, <1>5, <1>7, <1>10
    <2>2. pt_pending' = Nothing /\ ct_pending' = Nothing
      BY <1>13 DEF NonePending
    <2> QED
      BY <1>2, <1>6, <1>10, <2>1, <2>2 DEF InInv, BuffersOK, Into
  <1>18. Rest' = 0 /\ PendingText'
    <2>1. Rest' = 0
      BY <1>3, <1>13, UnreadIs
    <2> QED
      BY <2>1 DEF PendingText
  <1>19. HandshakeOK' /\ CountsOK'
    BY <1>2, <1>8 DEF InInv, HandshakeOK, CountsOK
  <1>20. PlaceOK' /\ Where' = "decrypt"
    BY <1>2 DEF InInv, PlaceOK, Places, Where
  <1>21. Phase'
    BY <1>13, <1>16, <1>20, PhaseIs
  <1> QED
    BY <1>17, <1>18, <1>19, <1>20, <1>21 DEF InInv

\* What follows the unit that was decrypted is pending cipher text.
LEMMA ExtraIs ==
    ASSUME InInv, NonePending, Complete(Received), ExtraPending
    PROVE  /\ Into(recv_buffer, ct_pending')
           /\ Behind(Received) =
                IF ct_pending' = Nothing THEN <<>>
                ELSE SubSeq(recv_buffer, ct_pending'.at, ct_pending'.at + ct_pending'.length - 1)
           /\ Behind(Received) \in Seq(Bytes)
  <1> DEFINE v == Received[1].v
             p == recv_buffer_pos
             b == Behind(Received)
  <1>1. /\ Received \in Seq(Bytes) /\ Len(Received) = p /\ p \in Nat
        /\ p <= Len(recv_buffer) /\ recv_buffer \in Seq(Bytes) /\ Len(recv_buffer) \in Nat
        /\ \A i \in 1 .. p : Received[i] = recv_buffer[i]
    BY ReceivedIs DEF InInv
  <1>2. v \in Nat /\ v < p /\ b \in Seq(Bytes) /\ Len(b) = p - v - 1
    BY <1>1, BehindOK
  <1>3. ct_pending' = IF b = <<>> THEN ct_pending ELSE [at |-> v + 2, length |-> Len(b), pos |-> 0]
    BY DEF ExtraPending, ExtraAt
  <1>4. b = SubSeq(Received, (v + 1) + 1, Len(Received))
    <2>1. b = SubSeq(Received, v + 2, Len(Received)) /\ v + 2 = (v + 1) + 1
      BY <1>2 DEF Behind
    <2> QED
      BY <2>1
  <1>5. \A i \in 1 .. p - v - 1 : b[i] = Received[(v + 1) + i]
    <2>1. v + 1 \in 0 .. Len(Received)
      BY <1>1, <1>2
    <2>2. \A i \in 1 .. Len(Received) - (v + 1) : b[i] = Received[(v + 1) + i]
      BY <1>1, <1>4, <2>1, RestIs
    <2> QED
      BY <1>1, <1>2, <2>2
  <1> HIDE DEF v, p, b
  <1>6. CASE b = <<>>
    BY <1>2, <1>3, <1>6 DEF NonePending, Into, b
  <1>7. CASE b # <<>>
    <2>1. p - v - 1 > 0
      BY <1>1, <1>2, <1>7, EmptySeq
    <2>2. /\ ct_pending' = [at |-> v + 2, length |-> p - v - 1, pos |-> 0]
          /\ ct_pending'.at = v + 2 /\ ct_pending'.length = p - v - 1 /\ ct_pending'.pos = 0
      BY <1>2, <1>3, <1>7
    <2>3. ct_pending' # Nothing
      BY <1>2, <2>2 DEF Nothing
    <2>4. ct_pending' \in [at : Nat, length : Nat, pos : Nat]
      <3>1. v + 2 \in Nat /\ p - v - 1 \in Nat
        BY <1>1, <1>2, <2>1
      <3> QED
        BY <2>2, <3>1
    <2>5. Into(recv_buffer, ct_pending')
      <3>1. (v + 2) + (p - v - 1) <= Len(recv_buffer) + 1 /\ v + 2 > 0
        BY <1>1, <1>2
      <3> QED
        BY <2>1, <2>2, <2>4, <3>1 DEF Into
    <2> DEFINE c == SubSeq(recv_buffer, v + 2, p)
    <2>6. /\ c \in Seq(Bytes) /\ Len(c) = p - v - 1
          /\ \A i \in 1 .. p - v - 1 : c[i] = recv_buffer[(v + 1) + i]
      <3>1. \A i \in v + 2 .. p : recv_buffer[i] \in Bytes
        BY <1>1, <1>2, ElementOfSeq
      <3>2. v + 2 \in Int /\ p \in Int
        BY <1>1, <1>2
      <3>3. /\ c \in Seq(Bytes) /\ Len(c) = IF v + 2 <= p THEN p - (v + 2) + 1 ELSE 0
            /\ \A i \in 1 .. p - (v + 2) + 1 : c[i] = recv_buffer[(v + 2) + i - 1]
        BY <3>1, <3>2, SubSeqProperties
      <3> HIDE DEF c
      <3>4. Len(c) = p - v - 1
        BY <1>1, <1>2, <2>1, <3>3
      <3>5. \A i \in 1 .. p - v - 1 : c[i] = recv_buffer[(v + 1) + i]
        <4> TAKE i \in 1 .. p - v - 1
        <4>1. i \in 1 .. p - (v + 2) + 1 /\ (v + 2) + i - 1 = (v + 1) + i
          BY <1>1, <1>2
        <4> QED
          BY <3>3, <4>1
      <3> QED
        BY <3>3, <3>4, <3>5
    <2> HIDE DEF c
    <2>7. \A i \in 1 .. p - v - 1 : b[i] = c[i]
      <3> TAKE i \in 1 .. p - v - 1
      <3>1. (v + 1) + i \in 1 .. p
        BY <1>1, <1>2
      <3> QED
        BY <1>1, <1>5, <2>6, <3>1
    <2>8. b = c
      BY <1>2, <2>6, <2>7, SeqEqual
    <2>9. (v + 2) + (p - v - 1) - 1 = p
      <3>1. v \in Nat /\ p \in Nat
        BY <1>1, <1>2
      <3> QED
        BY <3>1
    <2>10. SubSeq(recv_buffer, ct_pending'.at, ct_pending'.at + ct_pending'.length - 1) = c
      BY <2>2, <2>9 DEF c
    <2> QED
      BY <1>2, <2>3, <2>5, <2>8, <2>10 DEF b
  <1> QED
    BY <1>6, <1>7

\* What follows is unread.
LEMMA UnreadBehind ==
    ASSUME InInv, NonePending, Complete(Received), ExtraPending,
           UNCHANGED <<recv_buffer, down>>, recv_buffer_pos' = 0
    PROVE  Unread' = Behind(Received) \o down
  <1>1. down \in Seq(Bytes)
    BY HandshakeBytes DEF InInv
  <1>2. Received' = <<>>
    BY SubSeqEmpty DEF Received
  <1>3. Received' \o down' = down
    BY <1>1, <1>2, Joined
  <1>4. (IF ct_pending' = Nothing THEN <<>> ELSE PendingBytes') = Behind(Received)
    BY ExtraIs DEF PendingBytes
  <1> QED
    BY <1>3, <1>4 DEF Unread

\* The plain text of a record that is complete goes on with what was got.
LEMMA TextIs ==
    ASSUME InInv, SessionOK, NonePending, Complete(Received)
    PROVE  /\ Framed(Behind(Received) \o down, After(Received[1], Len(got)), Len(served))
           /\ Received[1].v \in Nat /\ Received[1].v < recv_buffer_pos
           /\ Received[1].kind = "record" =>
                 /\ Received[1].v > 0
                 /\ Values(Body(Received)) = Numbers(Len(got), Received[1].v - 1)
                 /\ \A i \in 1 .. Received[1].v - 1 : recv_buffer[1 + i].v = Len(got) + i
  <1> DEFINE v == Received[1].v
             p == recv_buffer_pos
             g == Len(got)
             s == Received \o down
  <1>1. /\ Received \in Seq(Bytes) /\ Len(Received) = p /\ p \in Nat
        /\ p <= Len(recv_buffer) /\ recv_buffer \in Seq(Bytes) /\ Len(recv_buffer) \in Nat
        /\ \A i \in 1 .. p : Received[i] = recv_buffer[i]
    BY ReceivedIs DEF InInv
  <1>2. v \in Nat /\ v < p /\ Received[1] \in Bytes /\ 1 \in 1 .. p /\ Behind(Received) \in Seq(Bytes)
    BY <1>1, BehindOK
  <1>3. Received # <<>>
    BY DEF Complete
  <1>4. down \in Seq(Bytes)
    BY HandshakeBytes DEF InInv
  <1>5. /\ s \in Seq(Bytes) /\ s # <<>>
        /\ \A i \in 1 .. p : s[i] = Received[i]
        /\ Behind(s) = Behind(Received) \o down
    BY <1>1, <1>3, <1>4, FirstStays
  <1>6. g \in Nat /\ Len(served) \in Nat
    BY LenProperties DEF InInv, CountsOK, Counted
  <1>7. Framed(s, g, Len(served))
    <2>1. Unread = s /\ g + Rest = g
      BY <1>6, UnreadIs
    <2> QED
      BY <2>1 DEF SessionOK
  <1>8. s[1] = Received[1]
    BY <1>2, <1>5
  <1> HIDE DEF s, g
  <1>9. UnitAt(s, 1, g, After(s[1], g)) /\ Framed(Behind(s), After(s[1], g), Len(served))
    BY <1>5, <1>6, <1>7, FramedBegins
  <1>10. Framed(Behind(Received) \o down, After(Received[1], g), Len(served))
    BY <1>5, <1>8, <1>9
  <1>11. ASSUME Received[1].kind = "record"
         PROVE  /\ v > 0 /\ Values(Body(Received)) = Numbers(g, v - 1)
                /\ \A i \in 1 .. v - 1 : recv_buffer[1 + i].v = g + i
    <2>1. v \in Nat /\ s[1].v \in Nat /\ s[1].v = v /\ s[1].kind = "record"
      BY <1>2, <1>8, <1>11
    <2>2. \A i \in 1 .. v : Received[i] = s[i]
      <3> HIDE DEF v, p
      <3> TAKE i \in 1 .. v
      <3>1. i \in 1 .. p
        BY <1>1, <1>2
      <3> QED
        BY <1>5, <3>1
    <2>3. After(s[1], g) \in Nat
      <3>1. After(s[1], g) \in 0 .. Len(served)
        BY <1>6, <1>9, FramedTypes
      <3> QED
        BY <1>6, <3>1
    <2>4. \A i \in 1 .. s[1].v : Received[i] = s[i]
      BY <2>1, <2>2
    <2>5. /\ s[1].v > 0 /\ Values(Body(Received)) = Numbers(g, s[1].v - 1)
          /\ \A i \in 1 .. s[1].v - 1 :
                1 + i \in 1 .. Len(Received) /\ Received[1 + i].v = g + i
      <3> DEFINE a == After(s[1], g)
                 l == Len(served)
      <3>1. s \in Seq(Bytes) /\ Received \in Seq(Bytes) /\ g \in Nat /\ a \in Nat
        BY <1>1, <1>5, <1>6, <2>3
      <3>2. UnitAt(s, 1, g, a)
        BY <1>9
      <3> HIDE DEF a, v, p
      <3> QED
        BY <2>1, <2>4, <3>1, <3>2, BodyIs
    <2>6. \A i \in 1 .. v - 1 : 1 + i \in 1 .. p /\ Received[1 + i].v = g + i
      BY <1>1, <2>1, <2>5
    <2>7. \A i \in 1 .. v - 1 : recv_buffer[1 + i].v = g + i
      BY <1>1, <2>6
    <2> QED
      BY <2>1, <2>5, <2>7
  <1> QED
    BY <1>2, <1>10, <1>11 DEF g

\* What is numbered goes on with the numbers that follow.
LEMMA CountGoesOn ==
    ASSUME NEW s, Counted(s), NEW n \in Nat, NEW t, t = s \o Numbers(Len(s), n)
    PROVE  Counted(t) /\ Len(t) = Len(s) + n /\ Len(s) \in Nat
  <1> DEFINE g == Len(s)
  <1>1. g \in Nat /\ s = Numbers(0, g)
    BY LenProperties DEF Counted
  <1> HIDE DEF g
  <1>2. 0 + g = g /\ g + n \in Nat /\ 0 \in Nat
    BY <1>1
  <1>3. Numbers(0, g) \o Numbers(0 + g, n) = Numbers(0, g + n)
    BY <1>1, <1>2, NumbersGoOn
  <1>4. t = Numbers(0, g + n)
    BY <1>1, <1>2, <1>3 DEF g
  <1>5. Numbers(0, g + n) \in Seq(Nat) /\ Len(Numbers(0, g + n)) = g + n
    BY <1>2, NumbersOK
  <1> QED
    BY <1>1, <1>4, <1>5 DEF Counted, g

\* The front of numbers
LEMMA NumbersFront ==
    ASSUME NEW from \in Nat, NEW n \in Nat, NEW m \in 0 .. n
    PROVE  SubSeq(Numbers(from, n), 1, m) = Numbers(from, m)
  <1> DEFINE a == Numbers(from, n)
             b == Numbers(from, m)
             c == SubSeq(a, 1, m)
  <1>1. m \in Nat /\ m <= n
    OBVIOUS
  <1>2. a \in Seq(Nat) /\ Len(a) = n /\ \A i \in 1 .. n : a[i] = from + i
    BY NumbersOK
  <1>3. b \in Seq(Nat) /\ Len(b) = m /\ \A i \in 1 .. m : b[i] = from + i
    BY <1>1, NumbersOK
  <1> HIDE DEF a, b
  <1>4. c \in Seq(Nat) /\ Len(c) = m /\ \A i \in 1 .. m : c[i] = a[i]
    BY <1>2, FrontIs
  <1> HIDE DEF c
  <1>5. \A i \in 1 .. m : b[i] = c[i]
    BY <1>1, <1>2, <1>3, <1>4
  <1>6. b = c
    BY <1>3, <1>4, <1>5, SeqEqual
  <1> QED
    BY <1>6 DEF a, b, c

\* A record is decrypted.
LEMMA DecryptDataIn ==
    ASSUME InInv, DecryptData
    PROVE  InInv'
  <1> DEFINE v == Received[1].v
             t == Values(Body(Received))
             k == Min({length, Len(t)})
             g == Len(got)
  <1>1. /\ pc = "decrypt" /\ Complete(Received) /\ Received[1].kind = "record"
        /\ got' = got \o SubSeq(t, 1, k)
        /\ pt_pending' = IF k < Len(t) THEN [at |-> 2, length |-> Len(t), pos |-> k] ELSE Nothing
        /\ ExtraPending /\ recv_buffer_pos' = 0 /\ length' = 0 /\ pc' = "ready" /\ then' = then
        /\ UNCHANGED <<server, accepted, hs_buffer, down, recv_buffer, served>>
    BY DEF DecryptData, session, wire, sendvars
  <1>2. SessionOK /\ NonePending
    BY <1>1 DEF InInv, Phase, Where
  <1>3. /\ Framed(Behind(Received) \o down, After(Received[1], g), Len(served))
        /\ v \in Nat /\ v < recv_buffer_pos /\ v > 0 /\ t = Numbers(g, v - 1)
        /\ \A i \in 1 .. v - 1 : recv_buffer[1 + i].v = g + i
    BY <1>1, <1>2, TextIs
  <1>4. recv_buffer_pos \in Nat /\ recv_buffer_pos <= Len(recv_buffer) /\ Len(recv_buffer) \in Nat
    BY ReceivedIs DEF InInv
  <1>5. g \in Nat /\ Len(served) \in Nat /\ length \in Nat /\ Counted(got) /\ Counted(served)
    BY LenProperties DEF InInv, CountsOK, Counted, BuffersOK
  <1>6. After(Received[1], g) = g + v - 1
    BY <1>1 DEF After
  <1> HIDE DEF v, t, g
  <1>7. v - 1 \in Nat /\ Len(t) = v - 1
    <2>1. v - 1 \in Nat
      BY <1>3
    <2> QED
      BY <1>3, <1>5, <2>1, NumbersOK
  <1>8. k \in 0 .. v - 1 /\ k \in Nat
    <2>1. k = IF length <= Len(t) THEN length ELSE Len(t)
      BY <1>5, <1>7, MinOK
    <2> QED
      BY <1>5, <1>7, <2>1
  <1> HIDE DEF k
  <1>9. got' = got \o Numbers(g, k)
    <2>1. SubSeq(Numbers(g, v - 1), 1, k) = Numbers(g, k)
      BY <1>5, <1>7, <1>8, NumbersFront
    <2> QED
      BY <1>1, <1>3, <2>1
  <1>10. Counted(got') /\ Len(got') = g + k
    BY <1>5, <1>8, <1>9, CountGoesOn DEF g
  <1>11. Rest' = v - 1 - k
    <2>1. CASE k < v - 1
      <3>1. pt_pending'.length = v - 1 /\ pt_pending'.pos = k
        BY <1>1, <1>7, <2>1
      <3> QED
        BY <3>1 DEF Rest
    <2>2. CASE ~(k < v - 1)
      <3>1. pt_pending' = Nothing /\ v - 1 - k = 0
        BY <1>1, <1>3, <1>7, <1>8, <2>2
      <3> QED
        BY <3>1 DEF Rest, Nothing
    <2> QED
      BY <2>1, <2>2
  <1>12. Into(recv_buffer, pt_pending')
    <2>1. CASE k < v - 1
      <3>1. /\ pt_pending' = [at |-> 2, length |-> v - 1, pos |-> k]
            /\ pt_pending'.at = 2 /\ pt_pending'.length = v - 1 /\ pt_pending'.pos = k
        BY <1>1, <1>7, <2>1
      <3>2. pt_pending' \in [at : Nat, length : Nat, pos : Nat]
        BY <1>7, <1>8, <3>1
      <3>3. 2 + (v - 1) <= Len(recv_buffer) + 1
        BY <1>3, <1>4
      <3> QED
        BY <2>1, <3>1, <3>2, <3>3 DEF Into
    <2>2. CASE ~(k < v - 1)
      BY <1>1, <1>7, <2>2 DEF Into
    <2> QED
      BY <2>1, <2>2
  <1>13. PendingText'
    <2>1. ASSUME NEW i \in 1 .. Rest'
          PROVE  recv_buffer'[pt_pending'.at + pt_pending'.pos + i - 1].v = Len(got') + i
      <3>1. k < v - 1 /\ i \in 1 .. v - 1 - k
        BY <1>3, <1>8, <1>11
      <3>2. pt_pending'.at = 2 /\ pt_pending'.pos = k
        BY <1>1, <1>7, <3>1
      <3>3. k + i \in 1 .. v - 1 /\ 2 + k + i - 1 = 1 + (k + i) /\ g + (k + i) = (g + k) + i
        <4>1. v \in Nat /\ k \in Nat /\ g \in Nat /\ i \in Nat /\ i >= 1 /\ i <= v - 1 - k
          BY <1>3, <1>5, <1>8, <3>1
        <4> QED
          BY <4>1
      <3>4. recv_buffer[1 + (k + i)].v = g + (k + i)
        BY <1>3, <3>3
      <3> QED
        BY <1>1, <1>10, <3>2, <3>3, <3>4
    <2> QED
      BY <2>1 DEF PendingText
  <1>14. Unread' = Behind(Received) \o down /\ Into(recv_buffer, ct_pending')
    BY <1>1, <1>2, UnreadBehind, ExtraIs
  <1>15. Framed(Unread', g + v - 1, Len(served)) /\ g + v - 1 = Len(got') + Rest'
    BY <1>3, <1>5, <1>6, <1>8, <1>10, <1>11, <1>14
  <1>16. SessionOK'
    BY <1>1, <1>2, <1>15 DEF SessionOK, LastToken
  <1>17. CountsOK'
    <2>1. g + v - 1 \in 0 .. Len(served)
      BY <1>5, <1>15, FramedTypes
    <2>2. Len(got') <= Len(served)
      BY <1>3, <1>5, <1>8, <1>10, <2>1
    <2> QED
      BY <1>1, <1>5, <1>10, <2>2 DEF CountsOK
  <1>18. BuffersOK'
    <2>1. recv_buffer_pos' \in 0 .. Len(recv_buffer')
      BY <1>1, <1>4
    <2> QED
      BY <1>1, <1>12, <1>14, <2>1 DEF InInv, BuffersOK
  <1>19. HandshakeOK'
    BY <1>1 DEF InInv, HandshakeOK
  <1>20. PlaceOK' /\ Where' \in Idle
    BY <1>1 DEF InInv, PlaceOK, Places, Where, Idle
  <1>21. Phase'
    BY <1>1, <1>16, <1>20, PhaseIs
  <1> QED
    BY <1>13, <1>17, <1>18, <1>19, <1>20, <1>21 DEF InInv

\* The server asks for a handshake.
LEMMA DecryptRenegotiateIn ==
    ASSUME InInv, DecryptRenegotiate
    PROVE  InInv'
  <1>1. /\ pc = "decrypt" /\ Complete(Received) /\ ExtraPending
        /\ accepted' = 0 /\ pc' = "token" /\ then' = then
        /\ UNCHANGED <<server, hs_buffer, down, recv_buffer, recv_buffer_pos, pt_pending, length>>
        /\ UNCHANGED <<served, got>>
    BY DEF DecryptRenegotiate, session, wire, sendvars, data
  <1>2. SessionOK /\ NonePending
    BY <1>1 DEF InInv, Phase, Where
  <1>3. Into(recv_buffer, ct_pending')
    BY <1>1, <1>2, ExtraIs
  <1>4. BuffersOK' /\ CountsOK' /\ PendingText'
    BY <1>1, <1>3 DEF InInv, BuffersOK, CountsOK, PendingText, Rest
  <1>5. HandshakeOK'
    BY <1>1 DEF InInv, HandshakeOK, Tokens
  <1>6. Renegotiating'
    BY <1>1, <1>2 DEF Renegotiating, SessionOK, LastToken
  <1>7. PlaceOK' /\ Where' = "token"
    BY <1>1 DEF InInv, PlaceOK, Places, Where
  <1>8. Phase'
    BY <1>6, <1>7, PhaseIs
  <1> QED
    BY <1>4, <1>5, <1>7, <1>8 DEF InInv

-----------------------------------------------------------------------------
(* The steps: the caller and the server *)

\* Plain text that is pending is handed out.
LEMMA RecvPendingIn ==
    ASSUME InInv, RecvPending
    PROVE  InInv'
  <1> DEFINE r == Rest
             at == pt_pending.at
             pos == pt_pending.pos
             g == Len(got)
  <1>1. PICK n \in RecvSizes :
            /\ got' = got \o Values(SubSeq(recv_buffer, at + pos, at + pos + Min({n, r}) - 1))
            /\ pt_pending' = IF Min({n, r}) = r THEN Nothing ELSE [pt_pending EXCEPT !.pos = @ + Min({n, r})]
    BY DEF RecvPending
  <1>2. /\ pc = "ready" /\ pt_pending # Nothing /\ UNCHANGED <<pc, then>>
        /\ UNCHANGED <<server, accepted, hs_buffer, down, served>>
        /\ UNCHANGED <<recv_buffer, recv_buffer_pos, ct_pending, length>>
    BY DEF RecvPending, session, wire, hsvars, sendvars
  <1>3. SessionOK /\ recv_buffer_pos = 0 /\ Where \in Idle
    BY <1>2 DEF InInv, Phase, Where, Idle
  <1>4. /\ pt_pending \in [at : Nat, length : Nat, pos : Nat]
        /\ at > 0 /\ pos < pt_pending.length /\ at + pt_pending.length <= Len(recv_buffer) + 1
    BY <1>2 DEF InInv, BuffersOK, Into
  <1>5. /\ at \in Nat /\ pos \in Nat /\ pt_pending.length \in Nat /\ r = pt_pending.length - pos
        /\ pt_pending = [at |-> at, length |-> pt_pending.length, pos |-> pos]
    BY <1>4 DEF Rest
  <1>6. g \in Nat /\ Counted(got) /\ Len(served) \in Nat
    BY LenProperties DEF InInv, CountsOK, Counted
  <1>7. recv_buffer \in Seq(Bytes) /\ Len(recv_buffer) \in Nat
    BY ReceivedIs DEF InInv
  <1>8. \A i \in 1 .. r : recv_buffer[at + pos + i - 1].v = g + i
    BY DEF InInv, PendingText
  <1>9. n \in Nat /\ n > 0
    BY SChannelAssumption
  <1> DEFINE k == Min({n, r})
  <1> HIDE DEF r, at, pos, g
  <1>10. r \in Nat /\ r > 0 /\ at + pos + r <= Len(recv_buffer) + 1 /\ at > 0
    BY <1>4, <1>5, <1>7
  <1>11. k \in 1 .. r /\ k \in Nat
    <2>1. k = IF n <= r THEN n ELSE r
      BY <1>9, <1>10, MinOK
    <2> QED
      BY <1>9, <1>10, <2>1
  <1>12. /\ got' = got \o Values(SubSeq(recv_buffer, at + pos, at + pos + k - 1))
         /\ pt_pending' = IF k = r THEN Nothing ELSE [pt_pending EXCEPT !.pos = @ + k]
    BY <1>1
  <1> HIDE DEF k
  <1> DEFINE s == SubSeq(recv_buffer, at + pos, at + pos + k - 1)
  <1>13. /\ s \in Seq(Bytes) /\ Len(s) = k
         /\ \A i \in 1 .. k : s[i] = recv_buffer[at + pos + i - 1]
    <2>1. at + pos \in Int /\ at + pos + k - 1 \in Int /\ at + pos <= at + pos + k - 1
      BY <1>5, <1>11
    <2>2. \A i \in at + pos .. at + pos + k - 1 : recv_buffer[i] \in Bytes
      <3> TAKE i \in at + pos .. at + pos + k - 1
      <3>1. i \in 1 .. Len(recv_buffer)
        BY <1>5, <1>7, <1>10, <1>11
      <3> QED
        BY <1>7, <3>1, ElementOfSeq
    <2>3. /\ s \in Seq(Bytes)
          /\ Len(s) = IF at + pos <= at + pos + k - 1 THEN (at + pos + k - 1) - (at + pos) + 1 ELSE 0
          /\ \A i \in 1 .. (at + pos + k - 1) - (at + pos) + 1 : s[i] = recv_buffer[at + pos + i - 1]
      BY <2>1, <2>2, SubSeqProperties
    <2>4. (at + pos + k - 1) - (at + pos) + 1 = k
      BY <1>5, <1>11
    <2> HIDE DEF s
    <2> QED
      BY <2>1, <2>3, <2>4
  <1> HIDE DEF s
  <1>14. Values(s) = Numbers(g, k)
    <2>1. Values(s) \in Seq(Nat) /\ Len(Values(s)) = k /\ \A i \in 1 .. k : Values(s)[i] = s[i].v
      BY <1>13, ValuesOK
    <2>2. /\ Numbers(g, k) \in Seq(Nat) /\ Len(Numbers(g, k)) = k
          /\ \A i \in 1 .. k : Numbers(g, k)[i] = g + i
      BY <1>6, <1>11, NumbersOK
    <2>3. ASSUME NEW i \in 1 .. k PROVE Values(s)[i] = Numbers(g, k)[i]
      <3>1. i \in 1 .. r
        BY <1>10, <1>11
      <3> QED
        BY <1>8, <1>13, <2>1, <2>2, <3>1
    <2> QED
      BY <2>1, <2>2, <2>3, SeqEqual
  <1>15. Counted(got') /\ Len(got') = g + k
    <2>1. got' = got \o Numbers(g, k)
      BY <1>12, <1>14 DEF s
    <2> QED
      BY <1>6, <1>11, <2>1, CountGoesOn DEF g
  <1>16. /\ k # r => pt_pending' = [at |-> at, length |-> pt_pending.length, pos |-> pos + k]
         /\ k = r => pt_pending' = Nothing
    <2>1. ASSUME k # r PROVE pt_pending' = [at |-> at, length |-> pt_pending.length, pos |-> pos + k]
      <3>1. pt_pending' = [pt_pending EXCEPT !.pos = @ + k]
        BY <1>12, <2>1
      <3> QED
        BY <1>5, <3>1
    <2> QED
      BY <1>12, <2>1
  <1>17. Rest' = r - k
    <2>1. CASE k # r
      <3>1. pt_pending'.length = pt_pending.length /\ pt_pending'.pos = pos + k
        BY <1>16, <2>1
      <3>2. pt_pending.length - (pos + k) = r - k
        BY <1>5, <1>11
      <3> QED
        BY <3>1, <3>2 DEF Rest
    <2>2. CASE k = r
      BY <1>10, <1>16, <2>2 DEF Rest, Nothing
    <2> QED
      BY <2>1, <2>2
  <1>18. BuffersOK'
    <2>1. Into(recv_buffer, pt_pending')
      <3>1. CASE k # r
        <4>1. /\ pt_pending'.at = at /\ pt_pending'.length = pt_pending.length /\ pt_pending'.pos = pos + k
              /\ pt_pending' \in [at : Nat, length : Nat, pos : Nat]
          BY <1>5, <1>11, <1>16, <3>1
        <4>2. pos + k < pt_pending.length
          BY <1>5, <1>10, <1>11, <3>1
        <4>3. at + pt_pending.length <= Len(recv_buffer) + 1
          BY <1>4 DEF at
        <4> QED
          BY <1>10, <4>1, <4>2, <4>3 DEF Into
      <3>2. CASE k = r
        BY <1>16, <3>2 DEF Into
      <3> QED
        BY <3>1, <3>2
    <2> QED
      BY <1>2, <2>1 DEF InInv, BuffersOK
  <1>19. PendingText'
    <2>1. ASSUME NEW i \in 1 .. Rest'
          PROVE  recv_buffer'[pt_pending'.at + pt_pending'.pos + i - 1].v = Len(got') + i
      <3>1. k # r /\ i \in 1 .. r - k
        BY <1>10, <1>11, <1>17
      <3>2. pt_pending'.at = at /\ pt_pending'.pos = pos + k
        BY <1>16, <3>1
      <3>3. k + i \in 1 .. r /\ at + (pos + k) + i - 1 = at + pos + (k + i) - 1 /\ g + (k + i) = (g + k) + i
        <4>1. i \in Nat /\ k + i \in 1 .. r
          BY <1>10, <1>11, <3>1
        <4>2. at + (pos + k) + i - 1 = at + pos + (k + i) - 1
          BY <1>5, <1>11, <4>1
        <4>3. g + (k + i) = (g + k) + i
          BY <1>6, <1>11, <4>1
        <4> QED
          BY <4>1, <4>2, <4>3
      <3>4. recv_buffer[at + pos + (k + i) - 1].v = g + (k + i)
        BY <1>8, <3>3
      <3> QED
        BY <1>2, <1>15, <3>2, <3>3, <3>4
    <2> QED
      BY <2>1 DEF PendingText
  <1>20. Unread' = Unread
    BY <1>2 DEF Unread, PendingBytes, Received
  <1>21. Len(got') + Rest' = Len(got) + Rest
    <2>1. (g + k) + (r - k) = g + r
      BY <1>6, <1>10, <1>11
    <2> QED
      BY <1>15, <1>17, <2>1 DEF g, r
  <1>22. SessionOK'
    BY <1>2, <1>3, <1>20, <1>21 DEF SessionOK, LastToken
  <1>23. CountsOK'
    <2>1. Len(got) + Rest \in 0 .. Len(served)
      BY <1>3, <1>6, FramedTypes DEF SessionOK
    <2>2. Len(got') <= Len(served)
      BY <1>6, <1>10, <1>11, <1>15, <2>1 DEF g, r
    <2> QED
      BY <1>2, <1>15, <2>2 DEF InInv, CountsOK
  <1>24. HandshakeOK' /\ PlaceOK' /\ Where' \in Idle
    BY <1>2, <1>3 DEF InInv, HandshakeOK, PlaceOK, Where
  <1>25. Phase'
    BY <1>2, <1>3, <1>22, <1>24, PhaseIs
  <1> QED
    BY <1>18, <1>19, <1>23, <1>24, <1>25 DEF InInv

\* Cipher text that is pending is moved to the front of recv_buffer.
LEMMA RecvCallIn ==
    ASSUME InInv, RecvCall
    PROVE  InInv'
  <1>1. /\ pc = "ready" /\ pt_pending = Nothing /\ length' \in RecvSizes
        /\ IF ct_pending.length > 0
           THEN /\ recv_buffer' = Written(recv_buffer, PendingBytes, 0)
                /\ recv_buffer_pos' = ct_pending.length
                /\ ct_pending' = Nothing
           ELSE UNCHANGED <<recv_buffer, recv_buffer_pos, ct_pending>>
        /\ status' = "ok" /\ pc' = "recv" /\ then' = then
        /\ UNCHANGED <<server, accepted, hs_buffer, down, pt_pending, served, got>>
    BY DEF RecvCall, RecvCallWhen, PendingBytes, session, wire, sendvars, data
  <1>2. SessionOK /\ recv_buffer_pos = 0
    BY <1>1 DEF InInv, Phase, Where, Idle
  <1>3. /\ recv_buffer \in Seq(Bytes) /\ Len(recv_buffer) \in Nat /\ Received = <<>>
        /\ down \in Seq(Bytes)
    BY <1>2, ReceivedIs, HandshakeBytes DEF InInv
  <1>4. length' \in Nat
    BY <1>1, SChannelAssumption
  <1>5. Rest' = Rest /\ Rest = 0 /\ PendingText'
    <2>1. Rest' = 0 /\ Rest = 0
      BY <1>1 DEF Rest, Nothing
    <2> QED
      BY <2>1 DEF PendingText
  <1>6. /\ BuffersOK' /\ Unread' = Unread /\ ct_pending' = Nothing /\ recv_buffer' # <<>>
    <2>1. CASE ct_pending = Nothing
      <3>1. ~(ct_pending.length > 0)
        BY <2>1 DEF Nothing
      <3>2. UNCHANGED <<recv_buffer, recv_buffer_pos, ct_pending>>
        BY <1>1, <3>1
      <3>3. Received' = Received
        BY <3>2 DEF Received
      <3>4. Unread' = Unread
        BY <1>1, <2>1, <3>2, <3>3 DEF Unread
      <3> QED
        BY <1>1, <1>2, <1>4, <2>1, <3>2, <3>4 DEF InInv, BuffersOK, SessionOK
    <2>2. CASE ct_pending # Nothing
      <3> DEFINE a == ct_pending.at
                 m == ct_pending.length
      <3>1. /\ a \in Nat /\ m \in Nat /\ ct_pending.pos \in Nat /\ a > 0
            /\ ct_pending.pos < m /\ a + m <= Len(recv_buffer) + 1
        <4>1. /\ ct_pending \in [at : Nat, length : Nat, pos : Nat]
              /\ ct_pending.at > 0 /\ ct_pending.pos < ct_pending.length
              /\ ct_pending.at + ct_pending.length <= Len(recv_buffer) + 1
          BY <2>2 DEF InInv, BuffersOK, Into
        <4> QED
          BY <4>1
      <3> HIDE DEF a, m
      <3>2. m > 0
        BY <3>1
      <3>3. /\ recv_buffer' = Written(recv_buffer, PendingBytes, 0)
            /\ recv_buffer_pos' = m /\ ct_pending' = Nothing
        BY <1>1, <3>2 DEF m
      <3>4. PendingBytes \in Seq(Bytes) /\ Len(PendingBytes) = m
        <4>1. \A i \in a .. a + m - 1 : recv_buffer[i] \in Bytes
          <5> TAKE i \in a .. a + m - 1
          <5>1. i \in 1 .. Len(recv_buffer)
            BY <1>3, <3>1
          <5> QED
            BY <1>3, <5>1, ElementOfSeq
        <4>2. a \in Int /\ a + m - 1 \in Int /\ a <= a + m - 1
          BY <3>1, <3>2
        <4>3. /\ SubSeq(recv_buffer, a, a + m - 1) \in Seq(Bytes)
              /\ Len(SubSeq(recv_buffer, a, a + m - 1)) = IF a <= a + m - 1 THEN (a + m - 1) - a + 1 ELSE 0
          BY <4>1, <4>2, SubSeqProperties
        <4>4. (a + m - 1) - a + 1 = m
          BY <3>1
        <4>5. PendingBytes = SubSeq(recv_buffer, a, a + m - 1)
          BY DEF PendingBytes, a, m
        <4> QED
          BY <4>2, <4>3, <4>4, <4>5
      <3>5. m <= Len(recv_buffer) /\ 0 + m = m /\ 0 + Len(PendingBytes) <= Len(recv_buffer)
        BY <1>3, <3>1, <3>4
      <3>6. /\ recv_buffer' \in Seq(Bytes) /\ Len(recv_buffer') = Len(recv_buffer)
            /\ SubSeq(recv_buffer', 1, 0 + Len(PendingBytes)) = SubSeq(recv_buffer, 1, 0) \o PendingBytes
        BY <1>3, <3>3, <3>4, <3>5, WrittenOK
      <3>7. SubSeq(recv_buffer, 1, 0) = <<>> /\ <<>> \o PendingBytes = PendingBytes
        BY <3>4, SubSeqEmpty, Joined
      <3>8. Received' = PendingBytes
        BY <3>3, <3>4, <3>5, <3>6, <3>7 DEF Received
      <3>9. Unread' = PendingBytes \o down
        <4>1. PendingBytes \o down \in Seq(Bytes)
          BY <1>3, <3>4, Joined
        <4>2. Unread' = <<>> \o (PendingBytes \o down)
          BY <1>1, <3>3, <3>8 DEF Unread
        <4> QED
          BY <4>1, <4>2, Joined
      <3>10. Unread = PendingBytes \o down
        <4>1. <<>> \o down = down
          BY <1>3, Joined
        <4> QED
          BY <1>3, <2>2, <4>1 DEF Unread
      <3>11. recv_buffer' # <<>> /\ Len(recv_buffer) = BufferLength
        <4>1. recv_buffer # <<>>
          BY <1>2 DEF SessionOK
        <4>2. Len(recv_buffer) # 0
          BY <1>3, <4>1, EmptySeq
        <4> QED
          BY <3>6, <4>1, <4>2, EmptySeq DEF InInv, BuffersOK
      <3>12. recv_buffer_pos' \in 0 .. Len(recv_buffer')
        BY <1>3, <3>1, <3>3, <3>5, <3>6
      <3>13. BuffersOK'
        BY <1>1, <1>4, <3>3, <3>6, <3>11, <3>12 DEF BuffersOK, Into
      <3> QED
        BY <3>3, <3>9, <3>10, <3>11, <3>13
    <2> QED
      BY <2>1, <2>2
  <1>7. SessionOK'
    BY <1>1, <1>2, <1>5, <1>6 DEF SessionOK, LastToken
  <1>8. NonePending'
    BY <1>1, <1>6 DEF NonePending
  <1>9. HandshakeOK' /\ CountsOK'
    BY <1>1 DEF InInv, HandshakeOK, CountsOK
  <1>10. PlaceOK' /\ Where' = "recv" /\ status' # "incomplete"
    BY <1>1 DEF InInv, PlaceOK, Places, Where
  <1>11. Phase'
    BY <1>7, <1>8, <1>10, PhaseIs
  <1> QED
    BY <1>5, <1>6, <1>9, <1>10, <1>11 DEF InInv

\* The end of the session
LEMMA EndsIn ==
    ASSUME InInv, Close \/ Destroy
    PROVE  InInv'
  <1>1. CASE Close
    <2>1. /\ recv_buffer' = <<>> /\ recv_buffer_pos' = 0 /\ pt_pending' = Nothing /\ ct_pending' = Nothing
          /\ then' = "closed" /\ pc' \in {"closed", "sending"}
          /\ UNCHANGED <<server, accepted, hs_buffer, down, length, served, got>>
      BY <1>1 DEF Close, wire, hsvars, data
    <2>2. PlaceOK' /\ Where' = "closed"
      BY <2>1 DEF PlaceOK, Places, Sends, Where
    <2>3. BuffersOK'
      <3>1. <<>> \in Seq(Bytes) /\ Len(<<>>) = 0
        OBVIOUS
      <3> QED
        BY <2>1, <3>1 DEF InInv, BuffersOK, Into
    <2>4. PendingText'
      <3>1. Rest' = 0
        BY <2>1 DEF Rest, Nothing
      <3> QED
        BY <3>1 DEF PendingText
    <2>5. HandshakeOK' /\ CountsOK'
      BY <2>1 DEF InInv, HandshakeOK, CountsOK
    <2>6. Phase'
      BY <2>2, PhaseIs
    <2> QED
      BY <2>2, <2>3, <2>4, <2>5, <2>6 DEF InInv
  <1>2. CASE Destroy
    <2>1. /\ pc' = "destroyed" /\ then' = then /\ hs_buffer' = <<>>
          /\ UNCHANGED <<server, accepted, down, served, got>> /\ UNCHANGED recvvars
      BY <1>2 DEF Destroy, session, wire, sendvars, data
    <2>2. PlaceOK' /\ Where' = "destroyed"
      BY <2>1 DEF InInv, PlaceOK, Places, Where
    <2>3. BuffersOK' /\ PendingText' /\ CountsOK'
      BY <2>1 DEF InInv, BuffersOK, PendingText, CountsOK, Rest, recvvars
    <2>4. HandshakeOK'
      <3>1. Len(<<>>) = 0 /\ HandshakeLength \in Nat
        BY SChannelAssumption
      <3> QED
        BY <2>1, <3>1 DEF InInv, HandshakeOK
    <2>5. Phase'
      BY <2>2, PhaseIs
    <2> QED
      BY <2>2, <2>3, <2>4, <2>5 DEF InInv
  <1> QED
    BY <1>1, <1>2

(* Units that the server sends: they may follow whatever is framed. *)
Follows(u, m, to) ==
    /\ u \in Seq(BytesUpTo(server)) /\ m <= to
    /\ \A s \in Seq(Bytes), from \in Nat : Framed(s, from, m) => Framed(s \o u, from, to)

\* One unit may follow.
LEMMA UnitFollows ==
    ASSUME HandshakeOK, NEW m \in Nat, NEW to \in Nat, m <= to,
           NEW u \in Seq(BytesUpTo(server)), IsUnit(u, m, to)
    PROVE  Follows(u, m, to)
  <1>1. u \in Seq(Bytes)
    BY HandshakeBytes, SessionBytes
  <1> QED
    BY <1>1, FramedGrows DEF Follows

\* Units that follow one another may follow.
LEMMA FollowsOn ==
    ASSUME HandshakeOK, NEW m \in Nat, NEW k \in Nat, NEW to \in Nat,
           NEW u, NEW w, Follows(u, m, k), Follows(w, k, to)
    PROVE  Follows(u \o w, m, to)
  <1>1. /\ u \in Seq(BytesUpTo(server)) /\ w \in Seq(BytesUpTo(server)) /\ m <= to
    BY DEF Follows
  <1>2. u \in Seq(Bytes) /\ w \in Seq(Bytes)
    BY <1>1, HandshakeBytes, SessionBytes
  <1>3. u \o w \in Seq(BytesUpTo(server))
    BY <1>1, ConcatProperties
  <1>4. ASSUME NEW s \in Seq(Bytes), NEW from \in Nat, Framed(s, from, m)
        PROVE  Framed(s \o (u \o w), from, to)
    <2>1. Framed(s \o u, from, k)
      BY <1>4 DEF Follows
    <2>2. s \o u \in Seq(Bytes)
      BY <1>2, Joined
    <2>3. Framed((s \o u) \o w, from, to)
      BY <2>1, <2>2 DEF Follows
    <2>4. (s \o u) \o w = s \o (u \o w)
      BY <1>2, Regroup, Zenon
    <2> QED
      BY <2>3, <2>4
  <1> QED
    BY <1>1, <1>3, <1>4 DEF Follows

\* The server sends units with the plain text that comes next.
LEMMA ServerGoesOn ==
    ASSUME InInv, UNCHANGED server_keeps, UNCHANGED got, NEW n \in Nat, NEW u,
           Follows(u, Len(served), Len(served) + n),
           down' = down \o u, served' = served \o Numbers(Len(served), n)
    PROVE  InInv'
  <1>1. /\ UNCHANGED <<pc, then, server, accepted, hs_buffer, status>> /\ UNCHANGED recvvars
    BY DEF server_keeps, session, hsvars, sendvars
  <1>2. /\ u \in Seq(Bytes) /\ u \in Seq(BytesUpTo(server)) /\ down \in Seq(Bytes)
        /\ hs_buffer \in Seq(Bytes) /\ down \in Seq(BytesUpTo(server))
    BY HandshakeBytes, SessionBytes DEF InInv, Follows
  <1>3. down' \in Seq(BytesUpTo(server))
    BY <1>2, ConcatProperties
  <1> DEFINE l == Len(served)
  <1>4. Counted(served') /\ Len(served') = l + n /\ l \in Nat
    BY CountGoesOn DEF InInv, CountsOK
  <1>5. \A s \in Seq(Bytes), from \in Nat : Framed(s, from, Len(served)) => Framed(s \o u, from, Len(served'))
    BY <1>4 DEF Follows
  <1>6. HandshakeOK' /\ BuffersOK' /\ PlaceOK' /\ PendingText'
    BY <1>1, <1>3 DEF InInv, HandshakeOK, BuffersOK, PlaceOK, PendingText, Rest, recvvars
  <1>7. CountsOK'
    <2>1. Counted(got) /\ Len(got) \in Nat /\ Len(got) <= l
      BY LenProperties DEF InInv, CountsOK, Counted
    <2> HIDE DEF l
    <2>2. Len(got) <= l + n
      BY <1>4, <2>1
    <2> QED
      BY <1>4, <2>1, <2>2 DEF CountsOK
  <1>8. Where' = Where /\ (BeforeOK' <=> BeforeOK) /\ LastToken' = LastToken /\ Rest' = Rest
        /\ Received' = Received /\ (NonePending' <=> NonePending)
        /\ (Renegotiating' <=> Renegotiating) /\ recv_buffer_pos' = recv_buffer_pos
    BY <1>1 DEF Where, BeforeOK, LastToken, Rest, Received, NonePending, Renegotiating, recvvars
  <1>9. HandshakeStream => HandshakeStream'
    <2>1. hs_buffer \o (down \o u) = (hs_buffer \o down) \o u /\ hs_buffer \o down \in Seq(Bytes)
      <3>1. hs_buffer \o down \in Seq(Bytes)
        BY <1>2, Joined
      <3>2. (hs_buffer \o down) \o u = hs_buffer \o (down \o u)
        BY <1>2, Regroup, Zenon
      <3> QED
        BY <3>1, <3>2
    <2>2. ASSUME Framed(hs_buffer \o down, 0, Len(served))
          PROVE  Framed(hs_buffer' \o down', 0, Len(served'))
      <3>1. Framed((hs_buffer \o down) \o u, 0, Len(served'))
        BY <1>5, <2>1, <2>2
      <3> QED
        BY <1>1, <2>1, <3>1
    <2> QED
      BY <1>1, <2>2 DEF HandshakeStream
  <1>10. VerifyOK => VerifyOK'
    BY <1>1, <1>2, <1>5, <1>8 DEF VerifyOK
  <1>11. SessionOK => SessionOK'
    <2> DEFINE a == IF ct_pending = Nothing THEN <<>> ELSE PendingBytes
               b == Received \o down
    <2>1. a \in Seq(Bytes)
      <3>1. CASE ct_pending = Nothing
        BY <3>1
      <3>2. CASE ct_pending # Nothing
        <4>1. /\ ct_pending \in [at : Nat, length : Nat, pos : Nat]
              /\ ct_pending.at > 0 /\ ct_pending.at + ct_pending.length <= Len(recv_buffer) + 1
          BY <3>2 DEF InInv, BuffersOK, Into
        <4>2. recv_buffer \in Seq(Bytes) /\ Len(recv_buffer) \in Nat
          BY ReceivedIs DEF InInv
        <4> DEFINE x == ct_pending.at
                   y == ct_pending.at + ct_pending.length - 1
        <4>3. x \in Nat /\ y \in Int /\ x > 0 /\ y <= Len(recv_buffer)
          BY <4>1, <4>2
        <4> HIDE DEF x, y
        <4>4. \A i \in x .. y : recv_buffer[i] \in Bytes
          <5> TAKE i \in x .. y
          <5>1. i \in 1 .. Len(recv_buffer)
            BY <4>2, <4>3
          <5> QED
            BY <4>2, <5>1, ElementOfSeq
        <4>5. SubSeq(recv_buffer, x, y) \in Seq(Bytes)
          BY <4>3, <4>4, SubSeqProperties
        <4>6. PendingBytes = SubSeq(recv_buffer, x, y)
          BY DEF PendingBytes, x, y
        <4> QED
          BY <3>2, <4>5, <4>6
      <3> QED
        BY <3>1, <3>2
    <2>2. b \in Seq(Bytes) /\ Received \in Seq(Bytes)
      BY <1>2, ReceivedIs, Joined DEF InInv
    <2>3. Unread = a \o b
      BY DEF Unread
    <2>4. Unread' = a \o (Received \o (down \o u))
      <3>1. (IF ct_pending' = Nothing THEN <<>> ELSE PendingBytes') = a
        BY <1>1 DEF PendingBytes, recvvars
      <3>2. Received' \o down' = Received \o (down \o u)
        BY <1>8
      <3> QED
        BY <3>1, <3>2 DEF Unread
    <2>5. Received \o (down \o u) = b \o u
      <3>1. Received \in Seq(Bytes) /\ down \in Seq(Bytes) /\ u \in Seq(Bytes)
        BY <1>2, <2>2
      <3>2. (Received \o down) \o u = Received \o (down \o u)
        BY <3>1, Regroup, Zenon
      <3> QED
        BY <3>2
    <2> HIDE DEF a, b
    <2>6. (a \o b) \o u = a \o (b \o u) /\ a \o b \in Seq(Bytes)
      <3>1. (a \o b) \o u = a \o (b \o u)
        BY <1>2, <2>1, <2>2, Regroup, Zenon
      <3>2. a \o b \in Seq(Bytes)
        BY <2>1, <2>2, Joined
      <3> QED
        BY <3>1, <3>2
    <2>7. Unread' = Unread \o u /\ Unread \in Seq(Bytes)
      BY <2>3, <2>4, <2>5, <2>6
    <2>8. ASSUME SessionOK PROVE Framed(Unread', Len(got') + Rest', Len(served'))
      <3>1. Framed(Unread, Len(got) + Rest, l) /\ l \in Nat
        BY <1>4, <2>8 DEF SessionOK
      <3>2. Len(got) + Rest \in 0 .. l
        BY <3>1, FramedTypes
      <3>3. Len(got) + Rest \in Nat
        BY <3>1, <3>2
      <3>4. Framed(Unread \o u, Len(got) + Rest, Len(served'))
        BY <1>5, <2>7, <3>1, <3>3
      <3> QED
        BY <1>8, <2>7, <3>4
    <2> QED
      BY <1>1, <1>8, <2>8 DEF SessionOK, recvvars
  <1>12. Phase'
    BY <1>1, <1>8, <1>9, <1>10, <1>11 DEF InInv, Phase
  <1> QED
    BY <1>6, <1>7, <1>12 DEF InInv

\* What the server does
LEMMA ServerIn ==
    ASSUME InInv, Server
    PROVE  InInv'
  <1> DEFINE l == Len(served)
  <1>1. l \in Nat /\ server \in Nat /\ HandshakeOK /\ MaxMessage \in Nat
    BY LenProperties, HandshakeBytes, SChannelAssumption DEF InInv, CountsOK, Counted
  <1>2. /\ served \in Seq(Nat) /\ served = served \o Numbers(l, 0)
    <2>1. served \in Seq(Nat)
      BY DEF InInv, CountsOK, Counted
    <2>2. Numbers(l, 0) \in Seq(Nat) /\ Len(Numbers(l, 0)) = 0
      BY <1>1, NumbersOK
    <2>3. Numbers(l, 0) = <<>>
      BY <2>2, EmptySeq
    <2> QED
      BY <2>1, <2>3, ConcatEmptySeq
  <1> HIDE DEF l
  <1>3. ASSUME NEW n \in 0 .. MaxMessage
        PROVE  Follows(Record(server, Numbers(l, n)), l, l + n)
    <2>1. /\ Record(server, Numbers(l, n)) \in Seq(BytesUpTo(server))
          /\ IsUnit(Record(server, Numbers(l, n)), l, l + n)
      BY <1>1, RecordUnit
    <2>2. l + n \in Nat /\ l <= l + n
      BY <1>1
    <2> QED
      BY <1>1, <2>1, <2>2, UnitFollows
  <1>4. \A n \in Nat : Follows(Token(server, n), l, l)
    <2> TAKE n \in Nat
    <2>1. Token(server, n) \in Seq(BytesUpTo(server)) /\ IsUnit(Token(server, n), l, l)
      BY <1>1, TokenOK
    <2> QED
      BY <1>1, <2>1, UnitFollows
  <1>5. \A kind \in {"request", "alert"} : Follows(Unit(kind, server, <<>>), l, l)
    <2> TAKE kind \in {"request", "alert"}
    <2>1. Unit(kind, server, <<>>) \in Seq(BytesUpTo(server)) /\ IsUnit(Unit(kind, server, <<>>), l, l)
      BY <1>1, EmptyUnit
    <2> QED
      BY <1>1, <2>1, UnitFollows
  <1>6. \A n : Follows(Flight(server, n), l, l)
    <2> TAKE n
    <2>1. /\ Follows(Token(server, 1), l, l) /\ Follows(Token(server, 2), l, l)
          /\ Follows(Token(server, 3), l, l)
      BY <1>4
    <2>2. Follows(Token(server, 1) \o Token(server, 2), l, l)
      BY <1>1, <2>1, FollowsOn
    <2> QED
      BY <2>1, <2>2 DEF Flight
  <1>7. CASE ServerReads
    <2>1. UNCHANGED server_keeps /\ got' = got
      BY <1>7 DEF ServerReads
    <2>2. CASE UNCHANGED <<down, served>>
      <3>1. PlaceOK' /\ Where' = Where /\ status' = status /\ UNCHANGED inputs
        BY <2>1, <2>2 DEF server_keeps, session, hsvars, sendvars, recvvars, inputs, InInv, PlaceOK, Where
      <3> QED
        BY <3>1, StayOrEnd
    <2>3. CASE \E early \in IF up[2].v = 0 THEN {0} ELSE Early :
                   LET answer == Flight(server, up[2].v + 1)
                       text == Numbers(Len(served), early)
                   IN  /\ down' = IF early = 0 THEN down \o answer
                                  ELSE down \o answer \o Record(server, text)
                       /\ served' = served \o text
      <3>1. PICK early \in IF up[2].v = 0 THEN {0} ELSE Early :
                /\ down' = IF early = 0 THEN down \o Flight(server, up[2].v + 1)
                           ELSE down \o Flight(server, up[2].v + 1) \o Record(server, Numbers(l, early))
                /\ served' = served \o Numbers(l, early)
        BY <2>3 DEF l
      <3> DEFINE a == Flight(server, up[2].v + 1)
                 r == Record(server, Numbers(l, early))
      <3>2. early \in 0 .. MaxMessage /\ early \in Nat
        <4>1. Early \subseteq 0 .. MaxMessage /\ 0 \in 0 .. MaxMessage
          BY <1>1, SChannelAssumption
        <4>2. early \in {0} \/ early \in Early
          BY <3>1
        <4> QED
          BY <1>1, <4>1, <4>2
      <3>3. Follows(a, l, l) /\ Follows(r, l, l + early)
        BY <1>3, <1>6, <3>2
      <3> HIDE DEF a, r
      <3>4. l + early \in Nat
        BY <1>1, <3>2
      <3>5. Follows(a \o r, l, l + early)
        BY <1>1, <3>3, <3>4, FollowsOn
      <3>6. CASE early = 0
        <4>1. down' = down \o a /\ l + early = l
          BY <1>1, <3>1, <3>6 DEF a
        <4> QED
          BY <2>1, <3>1, <3>2, <3>3, <4>1, ServerGoesOn DEF l
      <3>7. CASE early # 0
        <4>1. down' = (down \o a) \o r
          BY <3>1, <3>7 DEF a, r
        <4>2. a \in Seq(Bytes) /\ r \in Seq(Bytes) /\ down \in Seq(Bytes)
          BY <1>1, <3>3, HandshakeBytes, SessionBytes DEF Follows
        <4>3. (down \o a) \o r = down \o (a \o r)
          BY <4>2, Regroup, Zenon
        <4>4. down' = down \o (a \o r)
          BY <4>1, <4>3
        <4> QED
          BY <2>1, <3>1, <3>2, <3>5, <4>4, ServerGoesOn DEF l
      <3> QED
        BY <3>6, <3>7
    <2> QED
      BY <1>7, <2>2, <2>3 DEF ServerReads
  <1>8. CASE ServerSends
    <2>1. PICK n \in 0 .. MaxMessage :
              /\ served' = served \o Numbers(l, n)
              /\ down' = down \o Record(server, Numbers(l, n))
      BY <1>8 DEF ServerSends, l
    <2>2. UNCHANGED server_keeps /\ got' = got /\ n \in Nat
      BY <1>1, <1>8 DEF ServerSends
    <2> QED
      BY <1>3, <2>1, <2>2, ServerGoesOn DEF l
  <1>9. CASE ServerRequests \/ ServerCloses
    <2>1. PICK kind \in {"request", "alert"} : down' = down \o Unit(kind, server, <<>>)
      BY <1>9 DEF ServerRequests, ServerCloses
    <2>2. UNCHANGED server_keeps /\ got' = got /\ served' = served \o Numbers(l, 0) /\ 0 \in Nat /\ l + 0 = l
      BY <1>1, <1>2, <1>9 DEF ServerRequests, ServerCloses, data
    <2>3. Follows(Unit(kind, server, <<>>), l, l + 0)
      BY <1>5, <2>2
    <2> QED
      BY <2>1, <2>2, <2>3, ServerGoesOn DEF l
  <1> QED
    BY <1>7, <1>8, <1>9 DEF Server

-----------------------------------------------------------------------------
(* The invariant holds *)

\* Nothing is opened, and nothing has arrived.
LEMMA InInit == Init => InInv
  <1> SUFFICES ASSUME Init PROVE InInv
    OBVIOUS
  <1>1. <<>> \in Seq(Nat) /\ Len(<<>>) = 0 /\ <<>> = Numbers(0, 0)
    BY DEF Numbers
  <1>2. CountsOK
    BY <1>1 DEF Init, CountsOK, Counted
  <1>3. PlaceOK /\ Where = "opening" /\ BeforeOK
    BY DEF Init, PlaceOK, Places, Where, BeforeOK
  <1>4. HandshakeOK
    <2>1. Servers \in Nat /\ HandshakeLength \in Nat
      BY SChannelAssumption
    <2>2. Len(<<>>) = 0 /\ \A S : <<>> \in Seq(S)
      OBVIOUS
    <2>3. server \in 0 .. Servers /\ accepted \in 0 .. Tokens /\ hs_buffer = <<>> /\ down = <<>>
      BY <2>1 DEF Init, Tokens
    <2> QED
      BY <2>1, <2>2, <2>3 DEF HandshakeOK
  <1>5. BuffersOK
    <2>1. <<>> \in Seq(Bytes) /\ Len(<<>>) = 0
      OBVIOUS
    <2> QED
      BY <2>1 DEF Init, BuffersOK, Into
  <1>6. PendingText
    <2>1. Rest = 0
      BY DEF Init, Rest, Nothing
    <2> QED
      BY <2>1 DEF PendingText
  <1>7. Phase
    BY <1>3 DEF Phase, Idle, Verifying
  <1> QED
    BY <1>2, <1>3, <1>4, <1>5, <1>6, <1>7 DEF InInv

\* Every step preserves the invariant.
LEMMA InStep ==
    ASSUME InInv, [Next]_vars
    PROVE  InInv'
  <1>1. CASE Client
    BY <1>1, LeavesBytes, ConnectIn, HandshakeReadIn, HandshakeKeepsIn, TokenIncompleteIn, TokenContinueIn,
       TokenLastIn, VerifyIn, StreamSizesIn, RecvSomeIn, LooksIn, DecryptDataIn, DecryptRenegotiateIn
       DEF Client
  <1>2. CASE Caller
    BY <1>2, LeavesBytes, RecvPendingIn, RecvCallIn, EndsIn DEF Caller
  <1>3. CASE Failures
    BY <1>3, FailuresIn
  <1>4. CASE Server
    BY <1>4, ServerIn
  <1>5. CASE UNCHANGED vars
    <2>1. UNCHANGED inputs /\ UNCHANGED <<pc, then, status>>
      BY <1>5 DEF vars, inputs, session, wire, hsvars, sendvars, data
    <2>2. PlaceOK' /\ Where' = Where
      BY <2>1 DEF InInv, PlaceOK, Where, inputs, recvvars
    <2> QED
      BY <2>1, <2>2, StayOrEnd
  <1> QED
    BY <1>1, <1>2, <1>3, <1>4, <1>5 DEF Next

\* However the bytes of the server arrive, what recv_buffer holds are its
\* units, and the plain text in them goes on with what was handed out.
THEOREM AnswersInvariant == Spec => []InInv
  <1>1. Init => InInv
    BY InInit
  <1>2. InInv /\ [Next]_vars => InInv'
    BY InStep
  <1> QED
    BY <1>1, <1>2, PTL DEF Spec

-----------------------------------------------------------------------------
(* What is sent *)

(* In a session the bytes under way are whole units, once the rest of      *)
(* send_buffer is sent; so they are where a refused token is answered by   *)
(* an alert.  Where a call has failed nothing more is sent.                *)
Stopped == {"opening", "defunct", "crashed"}
Over == {"defunct", "closed", "destroyed", "crashed"}

Unsent == IF pc = "sending" THEN SubSeq(send_buffer, msg_sent + 1, Len(send_buffer)) ELSE <<>>
Encrypted == Len(sent) - Len(plain)
Alert == Unit("alert", server, <<>>)

(* Units of which the last may be cut off, with plain text up to "most" *)
Cut(s, from, most) == \E t \in Seq(Bytes), n \in Nat : n <= most /\ Framed(s \o t, from, n)
CutOff(s) == Cut(s, Len(arrived), Len(sent))

SendBufferOK ==
    /\ up \in Seq(Bytes) /\ send_buffer \in Seq(Bytes)
    /\ msg_sent \in 0 .. Len(send_buffer)

(* The client numbers what it sends; the last of it is not encrypted yet. *)
SentOK ==
    /\ Counted(sent) /\ Counted(arrived) /\ Len(arrived) <= Len(sent)
    /\ plain \in Seq(Nat) /\ Len(plain) <= Len(sent) /\ plain = Numbers(Encrypted, Len(plain))

(* Nothing is sent before there is a session. *)
NoneSent == sent = <<>> /\ plain = <<>>

WholeUnits == Framed(up \o Unsent, Len(arrived), Encrypted) /\ (Where # "encrypt" => plain = <<>>)
ClosingOK == CutOff(up) /\ send_buffer = Alert /\ msg_sent = 0
ClosedOK == CutOff(up) \/ \E x \in Seq(Bytes) : up = x \o Alert /\ CutOff(x)

SendPhase ==
    /\ Where \in InSession \/ (Where \in Stopped /\ pc = "sending") => WholeUnits
    /\ Where \in Stopped /\ pc # "sending" => CutOff(up)
    /\ Where = "closed" /\ pc = "sending" => ClosingOK
    /\ Where \in {"closed", "destroyed"} /\ pc # "sending" => ClosedOK
    /\ recv_buffer = <<>> /\ Where \notin Over => NoneSent

OutInv == SendBufferOK /\ SentOK /\ SendPhase

outputs == <<up, send_buffer, msg_sent, plain, sent, arrived>>

\* The lengths are numbers.
LEMMA SentIs ==
    ASSUME SentOK
    PROVE  /\ Len(sent) \in Nat /\ Len(arrived) \in Nat /\ Len(plain) \in Nat /\ Encrypted \in Nat
           /\ Len(arrived) <= Len(sent) /\ Encrypted <= Len(sent)
           /\ plain = <<>> => Encrypted = Len(sent)
  <1>1. /\ Len(sent) \in Nat /\ Len(arrived) \in Nat /\ Len(plain) \in Nat
        /\ Len(arrived) <= Len(sent) /\ Len(plain) <= Len(sent)
    BY LenProperties DEF SentOK, Counted
  <1>2. plain = <<>> => Len(plain) = 0
    OBVIOUS
  <1> QED
    BY <1>1, <1>2 DEF Encrypted

\* The rest of send_buffer
LEMMA UnsentOK ==
    ASSUME SendBufferOK
    PROVE  Unsent \in Seq(Bytes)
  <1>1. CASE pc = "sending"
    BY <1>1, RestIs DEF SendBufferOK, Unsent
  <1>2. CASE pc # "sending"
    BY <1>2 DEF Unsent
  <1> QED
    BY <1>1, <1>2

\* A send that is given up cuts off the last unit.
LEMMA WholeIsCut ==
    ASSUME OutInv, Where \in InSession \cup Stopped
    PROVE  CutOff(up)
  <1>1. CASE Where \in InSession \/ (Where \in Stopped /\ pc = "sending")
    <2>1. Framed(up \o Unsent, Len(arrived), Encrypted)
      BY <1>1 DEF OutInv, SendPhase, WholeUnits
    <2>2. Unsent \in Seq(Bytes) /\ Encrypted \in Nat /\ Encrypted <= Len(sent)
      BY UnsentOK, SentIs DEF OutInv
    <2> QED
      BY <2>1, <2>2 DEF CutOff, Cut
  <1>2. CASE Where \in Stopped /\ pc # "sending"
    BY <1>2 DEF OutInv, SendPhase
  <1> QED
    BY <1>1, <1>2

\* Nothing under way is cut off as well.
LEMMA NothingCut ==
    ASSUME NEW from \in Nat, NEW most \in Nat, from <= most
    PROVE  Cut(<<>>, from, most)
  <1>1. Framed(<<>>, from, from)
    BY FramedNothing
  <1>2. <<>> \in Seq(Bytes) /\ <<>> \o <<>> = <<>>
    BY Joined
  <1> QED
    BY <1>1, <1>2 DEF Cut

\* What is true of the bytes that are sent stays true while they stay.
LEMMA SameOutputs ==
    ASSUME OutInv, UNCHANGED outputs
    PROVE  /\ SendBufferOK' /\ SentOK' /\ Encrypted' = Encrypted /\ (NoneSent' <=> NoneSent)
           /\ (CutOff(up))' = CutOff(up)
  BY DEF OutInv, outputs, SendBufferOK, SentOK, Counted, Encrypted, NoneSent, CutOff

\* A step that sends nothing: within the session, back from a call that has
\* failed, or out of a session that is closed.
LEMMA OutStays ==
    ASSUME OutInv, UNCHANGED outputs,
           \/ /\ pc # "sending" /\ Where \in InSession \ {"encrypt"}
              /\ pc' # "sending" /\ Where' \in InSession \ {"encrypt"}
           \/ Where \in InSession \cup Stopped /\ Where' \in Stopped /\ pc' # "sending"
           \/ Where' = Where /\ pc' = pc /\ server' = server
           \/ /\ Where = "closed" /\ pc # "sending"
              /\ Where' = "destroyed" /\ pc' # "sending" /\ server' = server
           \/ /\ Where \in InSession \cup Stopped \/ (Where = "closed" /\ pc = "sending")
              /\ Where' = "closed" /\ pc' # "sending",
           recv_buffer' = <<>> /\ Where' \notin Over =>
               recv_buffer = <<>> /\ Where \notin Over
    PROVE  OutInv'
  <1>1. /\ SendBufferOK' /\ SentOK' /\ Encrypted' = Encrypted /\ (NoneSent' <=> NoneSent)
        /\ (CutOff(up))' = CutOff(up)
    BY SameOutputs
  <1>2. recv_buffer' = <<>> /\ Where' \notin Over => NoneSent'
    BY <1>1 DEF OutInv, SendPhase
  <1>3. CASE /\ pc # "sending" /\ Where \in InSession \ {"encrypt"}
             /\ pc' # "sending" /\ Where' \in InSession \ {"encrypt"}
    <2>1. Unsent' = Unsent
      BY <1>3 DEF Unsent
    <2>2. WholeUnits
      BY <1>3 DEF OutInv, SendPhase
    <2>3. WholeUnits'
      BY <1>1, <1>3, <2>1, <2>2 DEF WholeUnits, outputs
    <2>4. Where' \notin Stopped /\ Where' \notin {"closed", "destroyed"}
      BY <1>3 DEF InSession, Stopped
    <2>5. SendPhase'
      BY <1>2, <2>3, <2>4 DEF SendPhase
    <2> QED
      BY <1>1, <2>5 DEF OutInv
  <1>4. CASE Where \in InSession \cup Stopped /\ Where' \in Stopped /\ pc' # "sending"
    <2>1. (CutOff(up))'
      BY <1>1, <1>4, WholeIsCut
    <2>2. Where' \notin InSession /\ Where' \notin {"closed", "destroyed"}
      BY <1>4 DEF InSession, Stopped
    <2>3. SendPhase'
      BY <1>2, <1>4, <2>1, <2>2 DEF SendPhase
    <2> QED
      BY <1>1, <2>3 DEF OutInv
  <1>5. CASE Where' = Where /\ pc' = pc /\ server' = server
    <2>1. Unsent' = Unsent /\ Alert' = Alert
      BY <1>5 DEF Unsent, Alert, outputs
    <2>2. WholeUnits => WholeUnits'
      BY <1>1, <1>5, <2>1 DEF WholeUnits, outputs
    <2>3. ClosingOK => ClosingOK'
      BY <1>1, <2>1 DEF ClosingOK, outputs
    <2>4. ClosedOK => ClosedOK'
      BY <1>1, <2>1 DEF ClosedOK, outputs, CutOff
    <2>5. SendPhase'
      BY <1>1, <1>2, <1>5, <2>2, <2>3, <2>4 DEF OutInv, SendPhase
    <2> QED
      BY <1>1, <2>5 DEF OutInv
  <1>6. CASE /\ Where = "closed" /\ pc # "sending"
             /\ Where' = "destroyed" /\ pc' # "sending" /\ server' = server
    <2>1. Alert' = Alert
      BY <1>6 DEF Alert
    <2>2. ClosedOK
      BY <1>6 DEF OutInv, SendPhase
    <2>3. ClosedOK'
      BY <1>1, <2>1, <2>2 DEF ClosedOK, outputs, CutOff
    <2>4. Where' \notin InSession /\ Where' \notin Stopped
      BY <1>6 DEF InSession, Stopped
    <2>5. SendPhase'
      BY <1>2, <1>6, <2>3, <2>4 DEF SendPhase
    <2> QED
      BY <1>1, <2>5 DEF OutInv
  <1>7. CASE /\ Where \in InSession \cup Stopped \/ (Where = "closed" /\ pc = "sending")
             /\ Where' = "closed" /\ pc' # "sending"
    <2>1. CutOff(up)
      BY <1>7, WholeIsCut DEF OutInv, SendPhase, ClosingOK
    <2>2. ClosedOK'
      BY <1>1, <2>1 DEF ClosedOK
    <2>3. Where' \notin InSession /\ Where' \notin Stopped
      BY <1>7 DEF InSession, Stopped
    <2>4. SendPhase'
      BY <1>2, <1>7, <2>2, <2>3 DEF SendPhase
    <2> QED
      BY <1>1, <2>4 DEF OutInv
  <1> QED
    BY <1>3, <1>4, <1>5, <1>6, <1>7

\* Where the thread is in a state of the invariant
LEMMA WhereIs ==
    ASSUME InInv
    PROVE  /\ pc # "sending" => Where = pc
           /\ pc = "sending" => Where = then /\ then \in Sends
           /\ Where \in {"ready", "encrypt", "recv", "decrypt"} => recv_buffer # <<>>
           /\ Where \in {"opening", "handshake", "verify", "sizes"} => recv_buffer = <<>>
           /\ pc = "sending" /\ Where = "defunct" => recv_buffer # <<>>
  BY DEF InInv, PlaceOK, Where, Phase, SessionOK, BeforeOK, VerifyOK, Idle, Verifying

\* A call that fails
LEMMA FailuresOut ==
    ASSUME InInv, OutInv, Failures
    PROVE  OutInv'
  <1>1. Fail /\ pc \in {"sending", "handshake", "token", "verify", "sizes", "encrypt", "recv", "decrypt"}
    BY DEF Failures, SendFails, HandshakeReadFails, TokenFails, OpenBreaks, EncryptFails, RecvFails,
       DecryptFails
  <1>2. UNCHANGED outputs /\ UNCHANGED <<server, recv_buffer>> /\ pc' = FailedPc
    BY <1>1 DEF Fail, outputs, session, wire, sendvars, recvvars, data
  <1>3. pc' \in {"closed", "opening", "defunct"} /\ Where' = pc' /\ pc' # "sending"
    BY <1>2 DEF FailedPc, Where
  <1>4. \/ Where \in InSession \cup {"opening"}
        \/ Where = "defunct" /\ recv_buffer # <<>>
        \/ Where = "closed" /\ pc = "sending"
    BY <1>1, WhereIs DEF InSession, Sends
  <1>5. /\ pc' = "opening" => Where \in InSession \cup {"opening"}
        /\ pc' = "defunct" => Where \in InSession \cup {"opening", "defunct"}
    BY <1>2, <1>4, WhereIs DEF FailedPc
  <1>6. Where' \notin Over => recv_buffer' = recv_buffer /\ Where \notin Over
    BY <1>2, <1>3, <1>5 DEF Over, InSession
  <1> QED
    BY <1>2, <1>3, <1>4, <1>5, <1>6, OutStays DEF Stopped

\* The steps that send nothing and change none of the bytes that are sent
LEMMA QuietOut ==
    ASSUME InInv, OutInv, InInv',
           \/ OpenFails \/ HandshakeRead \/ HandshakeKeeps
           \/ TokenIncomplete \/ TokenLast \/ Verify \/ StreamSizes
           \/ RecvSome \/ RecvKeeps
           \/ DecryptIncomplete \/ DecryptData \/ DecryptRenegotiate \/ DecryptExpired
           \/ RecvPending \/ RecvCall \/ Destroy
           \/ ServerSends \/ ServerRequests \/ ServerCloses
           \/ UNCHANGED vars
    PROVE  OutInv'
  <1> USE DEF outputs, session, wire, sendvars, recvvars, data
  <1>1. CASE OpenFails \/ Destroy
    <2>1. /\ UNCHANGED outputs /\ UNCHANGED server /\ pc' # "sending" /\ pc # "sending"
          /\ Where = pc /\ Where' = pc'
          /\ (pc = "opening" /\ pc' = "defunct") \/ (pc = "closed" /\ pc' = "destroyed")
      BY <1>1 DEF OpenFails, Destroy, Where
    <2> QED
      BY <2>1, OutStays DEF Stopped, Over
  <1>2. CASE HandshakeRead \/ HandshakeKeeps \/ TokenIncomplete
    <2>1. /\ UNCHANGED outputs /\ recv_buffer' = recv_buffer
          /\ pc \in {"handshake", "token"} /\ pc' \in {"handshake", "token"}
      BY <1>2 DEF HandshakeRead, HandshakeKeeps, TokenIncomplete
    <2> QED
      BY <2>1, OutStays DEF InSession, Over, Where
  <1>3. CASE TokenLast \/ Verify
    <2>1. /\ UNCHANGED outputs /\ recv_buffer' = recv_buffer
          /\ pc \in {"token", "verify"}
          /\ pc' \in {"opening", "verify", "sizes", "crashed"}
      BY <1>3 DEF TokenLast, Verify
    <2>2. Where = pc /\ Where' = pc'
      BY <2>1 DEF Where
    <2> QED
      BY <2>1, <2>2, OutStays DEF InSession, Stopped, Over
  <1>4. CASE StreamSizes
    <2>1. UNCHANGED outputs /\ pc = "sizes" /\ pc' = "ready"
      BY <1>4 DEF StreamSizes
    <2>2. Where = pc /\ Where' = pc' /\ recv_buffer' # <<>>
      BY <2>1, WhereIs DEF Where, InInv, Phase, Idle, SessionOK
    <2> QED
      BY <2>1, <2>2, OutStays DEF InSession
  <1>5. CASE \/ RecvSome \/ RecvKeeps \/ DecryptIncomplete \/ DecryptData \/ DecryptRenegotiate
             \/ RecvPending \/ RecvCall
    <2>1. /\ UNCHANGED outputs /\ pc \in {"ready", "recv", "decrypt"}
          /\ (pc' \in {"ready", "recv", "decrypt"} \/ (pc' = "token" /\ recv_buffer' = recv_buffer))
      BY <1>5 DEF RecvSome, RecvKeeps, DecryptIncomplete, DecryptData, DecryptRenegotiate, RecvPending,
         RecvCall, RecvCallWhen
    <2>2. Where = pc /\ Where' = pc' /\ pc # "sending" /\ pc' # "sending"
      BY <2>1 DEF Where
    <2>3. recv_buffer' # <<>>
      BY <2>1, <2>2, WhereIs DEF InInv, Phase, Idle, SessionOK
    <2> QED
      BY <2>1, <2>2, <2>3, OutStays DEF InSession
  <1>6. CASE DecryptExpired
    <2>1. UNCHANGED outputs /\ pc = "decrypt" /\ pc' = "defunct"
      BY <1>6 DEF DecryptExpired
    <2> QED
      BY <2>1, OutStays DEF InSession, Stopped, Over, Where
  <1>7. CASE ServerSends \/ ServerRequests \/ ServerCloses \/ UNCHANGED vars
    <2>1. UNCHANGED outputs /\ UNCHANGED <<pc, then, server, recv_buffer>>
      BY <1>7 DEF ServerSends, ServerRequests, ServerCloses, server_keeps, vars
    <2>2. Where' = Where
      BY <2>1 DEF Where
    <2> QED
      BY <2>1, <2>2, OutStays
  <1> QED
    BY <1>1, <1>2, <1>3, <1>4, <1>5, <1>6, <1>7

\* Nothing of the send_buffer is under way when a unit is put there.
LEMMA UnsentIs ==
    ASSUME NEW u \in Seq(Bytes), send_buffer' = u, msg_sent' = 0, pc' = "sending"
    PROVE  Unsent' = u
  <1>1. SubSeq(u, 0 + 1, Len(u)) = u
    BY SubSeqFull
  <1> QED
    BY <1>1 DEF Unsent

\* Another server is tried: nothing was sent to the last one.
LEMMA ConnectOut ==
    ASSUME InInv, OutInv, Connect
    PROVE  OutInv'
  <1>1. /\ pc = "opening" /\ up' = <<>> /\ server' = server + 1
        /\ UNCHANGED <<plain, sent, arrived, recv_buffer>>
        /\ \/ UNCHANGED <<pc, send_buffer, msg_sent, then>>
           \/ pc' = "crashed" /\ UNCHANGED <<send_buffer, msg_sent, then>>
           \/ pc' = "sending" /\ then' = "handshake" /\ send_buffer' = Token(server', 0) /\ msg_sent' = 0
    BY DEF Connect, recvvars
  <1>2. Where = "opening" /\ recv_buffer = <<>> /\ NoneSent
    BY <1>1, WhereIs DEF OutInv, SendPhase, Over
  <1>3. /\ sent = <<>> /\ plain = <<>> /\ Len(sent) = 0 /\ Len(arrived) = 0 /\ SentOK /\ Encrypted = 0
    <2>1. sent = <<>> /\ plain = <<>> /\ Len(sent) = 0
      BY <1>2 DEF NoneSent
    <2> QED
      BY <2>1, SentIs DEF OutInv
  <1>4. SentOK' /\ Encrypted' = 0 /\ NoneSent' /\ Len(arrived') = 0 /\ Len(sent') = 0
    BY <1>1, <1>2, <1>3 DEF SentOK, Counted, Encrypted, NoneSent
  <1>5. CutOff(up)'
    <2>1. Cut(<<>>, 0, 0)
      BY NothingCut
    <2> QED
      BY <1>1, <1>4, <2>1 DEF CutOff
  <1>6. CASE UNCHANGED <<send_buffer, msg_sent>> /\ pc' \in {"opening", "crashed"}
    <2>1. SendBufferOK'
      BY <1>1, <1>6 DEF OutInv, SendBufferOK
    <2>2. Where' \in Stopped /\ Where' \notin InSession /\ Where' \notin {"closed", "destroyed"}
      BY <1>6 DEF Where, Stopped, InSession
    <2>3. SendPhase'
      BY <1>4, <1>5, <1>6, <2>2 DEF SendPhase
    <2> QED
      BY <1>4, <2>1, <2>3 DEF OutInv
  <1>7. CASE pc' = "sending" /\ then' = "handshake" /\ send_buffer' = Token(server', 0) /\ msg_sent' = 0
    <2> DEFINE u == Token(server + 1, 0)
    <2>1. server + 1 \in Nat /\ 0 \in Nat
      BY HandshakeBytes DEF InInv
    <2>2. u \in Seq(BytesUpTo(server + 1)) /\ IsUnit(u, 0, 0)
      BY <2>1, TokenOK
    <2>3. u \in Seq(Bytes)
      BY <2>1, <2>2, SessionBytes
    <2>4. send_buffer' = u
      BY <1>1, <1>7
    <2> HIDE DEF u
    <2>5. Unsent' = u
      BY <1>7, <2>3, <2>4, UnsentIs
    <2>6. Framed(<<>> \o u, 0, 0)
      <3>1. Framed(<<>>, 0, 0) /\ <<>> \in Seq(Bytes) /\ 0 <= 0
        BY <2>1, FramedNothing
      <3> QED
        BY <2>1, <2>2, <2>3, <3>1, FramedGrows
    <2>7. WholeUnits' /\ Where' = "handshake"
      BY <1>1, <1>3, <1>4, <1>7, <2>5, <2>6 DEF WholeUnits, Where
    <2>8. SendBufferOK'
      BY <1>1, <1>7, <2>3, <2>4, LenProperties DEF SendBufferOK
    <2>9. SendPhase'
      BY <1>4, <2>7 DEF SendPhase, InSession, Stopped
    <2> QED
      BY <1>4, <2>8, <2>9 DEF OutInv
  <1> QED
    BY <1>1, <1>6, <1>7

\* The socket takes bytes from the front of what is unsent.
LEMMA SendSomeOut ==
    ASSUME InInv, OutInv, SendSome
    PROVE  OutInv'
  <1>1. PICK n \in 1 .. Len(send_buffer) - msg_sent :
            /\ up' = up \o SubSeq(send_buffer, msg_sent + 1, msg_sent + n)
            /\ IF msg_sent + n < Len(send_buffer)
               THEN msg_sent' = msg_sent + n /\ UNCHANGED <<pc, send_buffer, then>>
               ELSE pc' = then /\ then' = "none" /\ send_buffer' = <<>> /\ msg_sent' = 0
    BY DEF SendSome, SendSomeFrom
  <1>2. /\ pc = "sending" /\ UNCHANGED <<server, plain, recv_buffer, sent, arrived>>
        /\ Where = then /\ then \in Sends
    BY WhereIs DEF SendSome, SendSomeFrom, session, recvvars, data
  <1> DEFINE m == msg_sent
             l == Len(send_buffer)
  <1>3. /\ m \in Nat /\ l \in Nat /\ m <= l /\ n \in Nat /\ m + n <= l /\ n > 0
        /\ send_buffer \in Seq(Bytes) /\ up \in Seq(Bytes)
    <2>1. m \in 0 .. l /\ l \in Nat /\ send_buffer \in Seq(Bytes) /\ up \in Seq(Bytes)
      BY LenProperties DEF OutInv, SendBufferOK
    <2>2. n \in 1 .. l - m
      OBVIOUS
    <2> HIDE DEF m, l
    <2> QED
      BY <2>1, <2>2
  <1> DEFINE f == SubSeq(send_buffer, m + 1, m + n)
             r == SubSeq(send_buffer, (m + n) + 1, l)
  <1>4. f \in Seq(Bytes) /\ r \in Seq(Bytes) /\ Unsent = f \o r
    <2>1. \A i \in m + 1 .. m + n : send_buffer[i] \in Bytes
      <3> HIDE DEF m, l
      <3> TAKE i \in m + 1 .. m + n
      <3>1. i \in 1 .. l
        BY <1>3
      <3> QED
        BY <1>3, <3>1, ElementOfSeq DEF l
    <2>2. f \in Seq(Bytes)
      <3> HIDE DEF m, l
      <3>1. m + 1 \in Int /\ m + n \in Int
        BY <1>3
      <3> QED
        BY <1>3, <2>1, <3>1, SubSeqProperties
    <2>3. m + n \in 0 .. l
      <3> HIDE DEF m, l
      <3> QED
        BY <1>3
    <2>4. r \in Seq(Bytes)
      BY <1>3, <2>3, RestIs
    <2>5. SubSeq(send_buffer, m + 1, l) = f \o r
      <3>1. m + 1 \in 1 .. l + 1 /\ m + n \in (m + 1) - 1 .. l /\ l \in m + n .. l
        <4> HIDE DEF m, l
        <4> QED
          BY <1>3
      <3> QED
        BY <1>3, <3>1, ConcatAdjacentSubSeq
    <2> QED
      BY <1>2, <2>2, <2>4, <2>5 DEF Unsent
  <1>5. /\ up' = up \o f
        /\ \/ m + n < l /\ msg_sent' = m + n /\ UNCHANGED <<pc, send_buffer, then>>
           \/ m + n = l /\ pc' = then /\ send_buffer' = <<>> /\ msg_sent' = 0
    <2>1. m + n < l \/ m + n = l
      <3> HIDE DEF m, l
      <3> QED
        BY <1>3
    <2> QED
      BY <1>1, <2>1
  <1> HIDE DEF m, l, f, r
  <1>6. Unsent' = r /\ SendBufferOK' /\ Where' = Where
    <2>1. up' \in Seq(Bytes)
      BY <1>3, <1>4, <1>5, Joined
    <2>2. CASE m + n < l /\ msg_sent' = m + n /\ UNCHANGED <<pc, send_buffer, then>>
      <3>1. m + n \in 0 .. l
        BY <1>3
      <3> QED
        BY <1>2, <1>3, <2>1, <2>2, <3>1 DEF Unsent, SendBufferOK, Where, r, l
    <2>3. CASE m + n = l /\ pc' = then /\ send_buffer' = <<>> /\ msg_sent' = 0
      <3>1. r = <<>>
        <4>1. (m + n) + 1 > l
          BY <1>3, <2>3
        <4> QED
          BY <1>3, <4>1, SubSeqEmpty DEF r
      <3>2. pc' # "sending"
        BY <1>2, <2>3 DEF Sends
      <3>3. <<>> \in Seq(Bytes) /\ 0 \in 0 .. Len(<<>>)
        OBVIOUS
      <3> QED
        BY <1>2, <2>1, <2>3, <3>1, <3>2, <3>3 DEF Unsent, SendBufferOK, Where
    <2> QED
      BY <1>5, <2>2, <2>3
  <1>7. up' \o Unsent' = up \o Unsent
    <2>1. (up \o f) \o r = up \o (f \o r)
      BY <1>3, <1>4, Regroup, Zenon
    <2> QED
      BY <1>4, <1>5, <1>6, <2>1
  <1>8. SentOK' /\ Encrypted' = Encrypted /\ (NoneSent' <=> NoneSent) /\ Alert' = Alert
    BY <1>2 DEF OutInv, SentOK, Counted, Encrypted, NoneSent, Alert
  <1>9. CASE then # "closed"
    <2>1. Where \in InSession \cup Stopped /\ Where' \notin {"closed", "destroyed"}
      BY <1>2, <1>6, <1>9 DEF InSession, Stopped, Sends
    <2>2. WholeUnits'
      BY <1>2, <1>6, <1>7, <1>8, <2>1 DEF OutInv, SendPhase, WholeUnits
    <2>3. CutOff(up)'
      <3>1. Framed(up' \o r, Len(arrived'), Encrypted')
        BY <1>6, <2>2 DEF WholeUnits
      <3>2. Encrypted' \in Nat /\ Encrypted' <= Len(sent')
        BY <1>2, <1>8, SentIs DEF OutInv
      <3> QED
        BY <1>4, <3>1, <3>2 DEF CutOff, Cut
    <2>4. SendPhase'
      BY <1>2, <1>6, <1>8, <2>1, <2>2, <2>3 DEF OutInv, SendPhase
    <2> QED
      BY <1>6, <1>8, <2>4 DEF OutInv
  <1>10. CASE then = "closed"
    <2>1. CutOff(up) /\ send_buffer = Alert /\ m = 0
      BY <1>2, <1>10 DEF OutInv, SendPhase, ClosingOK, m
    <2>2. l = 1
      <3>1. server \in Nat
        BY HandshakeBytes DEF InInv
      <3> QED
        BY <2>1, <3>1, EmptyUnit DEF Alert, l
    <2>3. ~(m + n < l)
      BY <1>3, <2>1, <2>2
    <2>4. pc' = "closed" /\ r = <<>>
      <3>1. (m + n) + 1 > l
        BY <1>3, <2>3
      <3> QED
        BY <1>3, <1>5, <1>10, <2>3, <3>1, SubSeqEmpty DEF r
    <2>5. up' = up \o Alert
      <3>1. Unsent = Alert
        <4>1. SubSeq(send_buffer, 0 + 1, Len(send_buffer)) = send_buffer
          BY <1>3, SubSeqFull
        <4> QED
          BY <1>2, <2>1, <4>1 DEF Unsent, m
      <3>2. f \o r = f
        BY <1>4, <2>4, Joined
      <3> QED
        BY <1>4, <1>5, <3>1, <3>2
    <2>6. ClosedOK'
      BY <1>2, <1>3, <1>8, <2>1, <2>5 DEF ClosedOK, CutOff
    <2>7. Where' = "closed" /\ pc' # "sending"
      BY <1>2, <1>6, <1>10, <2>4
    <2>8. SendPhase'
      BY <2>6, <2>7 DEF SendPhase, InSession, Stopped, Over
    <2> QED
      BY <1>6, <1>8, <2>8 DEF OutInv
  <1> QED
    BY <1>9, <1>10

\* A unit that is put to the send_buffer follows what is under way.
LEMMA UnitOut ==
    ASSUME OutInv, pc # "sending", Where \in InSession, pc' = "sending",
           then' \in InSession \cup {"opening", "defunct"},
           UNCHANGED <<up, arrived>>, msg_sent' = 0, SentOK',
           NEW u \in Seq(Bytes), send_buffer' = u,
           IsUnit(u, Encrypted, Encrypted'), Encrypted <= Encrypted',
           then' # "encrypt" => plain' = <<>>, recv_buffer' = <<>> => NoneSent'
    PROVE  OutInv'
  <1>1. /\ Framed(up, Len(arrived), Encrypted) /\ up \in Seq(Bytes)
    <2>1. Unsent = <<>> /\ up \in Seq(Bytes) /\ up \o <<>> = up
      BY Joined DEF OutInv, SendBufferOK, Unsent
    <2>2. Framed(up \o Unsent, Len(arrived), Encrypted)
      BY DEF OutInv, SendPhase, WholeUnits
    <2> QED
      BY <2>1, <2>2
  <1>2. Len(arrived) \in Nat /\ Encrypted \in Nat
    BY SentIs DEF OutInv
  <1>3. Encrypted' \in Nat
    <2>1. Len(sent') \in Nat /\ Len(plain') \in Nat /\ Len(plain') <= Len(sent')
      BY LenProperties DEF SentOK, Counted
    <2>2. Encrypted' = Len(sent') - Len(plain')
      BY DEF Encrypted
    <2> QED
      BY <2>1, <2>2
  <1>4. Framed(up \o u, Len(arrived), Encrypted')
    BY <1>1, <1>2, <1>3, FramedGrows
  <1>5. Unsent' = u
    BY UnsentIs
  <1>6. Where' = then' /\ pc' = "sending" /\ Where' \notin {"closed", "destroyed"}
    BY DEF Where, InSession
  <1>7. WholeUnits'
    BY <1>4, <1>5, <1>6 DEF WholeUnits
  <1>8. SendPhase'
    BY <1>6, <1>7 DEF SendPhase
  <1>9. SendBufferOK'
    <2>1. 0 \in 0 .. Len(u)
      BY LenProperties
    <2> QED
      BY <1>1, <2>1 DEF SendBufferOK
  <1> QED
    BY <1>8, <1>9 DEF OutInv

\* A token of the handshake is answered, or not.
LEMMA TokenContinueOut ==
    ASSUME InInv, OutInv, TokenContinue
    PROVE  OutInv'
  <1>1. /\ pc = "token" /\ UNCHANGED <<server, up, plain, recv_buffer, sent, arrived>>
        /\ \/ pc' = "sending" /\ then' = "handshake" /\ send_buffer' = Token(server, 1) /\ msg_sent' = 0
           \/ pc' = "handshake" /\ UNCHANGED <<send_buffer, msg_sent, then>>
    BY DEF TokenContinue, session, wire, recvvars, data
  <1>2. Where = "token" /\ Where \in InSession /\ Where \notin Over
    BY <1>1 DEF Where, InSession, Over
  <1>3. /\ SentOK' /\ Encrypted' = Encrypted /\ Encrypted \in Nat
        /\ plain = <<>> /\ (recv_buffer = <<>> => NoneSent) /\ (NoneSent' <=> NoneSent)
    BY <1>1, <1>2, SentIs DEF OutInv, SentOK, Counted, Encrypted, SendPhase, WholeUnits, NoneSent
  <1>4. CASE pc' = "handshake" /\ UNCHANGED <<send_buffer, msg_sent, then>>
    <2>1. UNCHANGED outputs /\ Where' = "handshake"
      BY <1>1, <1>4 DEF outputs, Where
    <2> QED
      BY <1>1, <1>2, <1>4, <2>1, OutStays DEF InSession
  <1>5. CASE pc' = "sending" /\ then' = "handshake" /\ send_buffer' = Token(server, 1) /\ msg_sent' = 0
    <2>1. server \in Nat /\ 1 \in Nat
      BY HandshakeBytes DEF InInv
    <2>2. Token(server, 1) \in Seq(BytesUpTo(server)) /\ IsUnit(Token(server, 1), Encrypted, Encrypted)
      BY <1>3, <2>1, TokenOK
    <2>3. Token(server, 1) \in Seq(Bytes)
      BY <2>1, <2>2, SessionBytes
    <2>4. IsUnit(Token(server, 1), Encrypted, Encrypted') /\ Encrypted <= Encrypted'
      BY <1>3, <2>2
    <2>5. pc # "sending" /\ then' \in InSession
      BY <1>1, <1>5 DEF InSession
    <2> QED
      BY <1>1, <1>2, <1>3, <1>5, <2>3, <2>4, <2>5, UnitOut
  <1> QED
    BY <1>1, <1>4, <1>5

\* A token is refused, with an alert to the server or without one.
LEMMA TokenRefusedOut ==
    ASSUME InInv, OutInv, TokenRefused
    PROVE  OutInv'
  <1>1. /\ pc = "token" /\ UNCHANGED <<server, up, plain, recv_buffer, sent, arrived>>
        /\ \/ pc' = FailedPc /\ UNCHANGED <<send_buffer, msg_sent, then>>
           \/ pc' = "sending" /\ then' = FailedPc /\ send_buffer' = Alert /\ msg_sent' = 0
    BY DEF TokenRefused, session, wire, recvvars, data, Alert
  <1>2. Where = "token" /\ Where \in InSession /\ Where \notin Over
    BY <1>1 DEF Where, InSession, Over
  <1>3. FailedPc \in {"closed", "opening", "defunct"}
    BY DEF FailedPc
  <1>4. /\ SentOK' /\ Encrypted' = Encrypted /\ Encrypted \in Nat
        /\ plain = <<>> /\ (recv_buffer = <<>> => NoneSent) /\ (NoneSent' <=> NoneSent)
    BY <1>1, <1>2, SentIs DEF OutInv, SentOK, Counted, Encrypted, SendPhase, WholeUnits, NoneSent
  <1>5. CASE pc' = FailedPc /\ UNCHANGED <<send_buffer, msg_sent, then>>
    <2>1. UNCHANGED outputs /\ Where' = FailedPc /\ pc' # "sending"
      BY <1>1, <1>3, <1>5 DEF outputs, Where
    <2> QED
      BY <1>1, <1>2, <1>3, <1>5, <2>1, OutStays DEF Stopped
  <1>6. CASE pc' = "sending" /\ then' = FailedPc /\ send_buffer' = Alert /\ msg_sent' = 0
    <2>1. server \in Nat
      BY HandshakeBytes DEF InInv
    <2>2. Alert \in Seq(BytesUpTo(server)) /\ IsUnit(Alert, Encrypted, Encrypted)
      BY <1>4, <2>1, EmptyUnit DEF Alert
    <2>3. Alert \in Seq(Bytes)
      BY <2>1, <2>2, SessionBytes
    <2>4. CASE FailedPc # "closed"
      <3>1. IsUnit(Alert, Encrypted, Encrypted') /\ Encrypted <= Encrypted'
        BY <1>4, <2>2
      <3>2. pc # "sending" /\ then' \in InSession \cup {"opening", "defunct"} /\ then' # "encrypt"
        BY <1>1, <1>3, <1>6, <2>4
      <3> HIDE DEF Alert
      <3> QED
        BY <1>1, <1>2, <1>4, <1>6, <2>3, <3>1, <3>2, UnitOut
    <2>5. CASE FailedPc = "closed"
      <3>1. CutOff(up)
        BY <1>2, WholeIsCut
      <3>2. Alert' = Alert
        BY <1>1 DEF Alert
      <3>3. ClosingOK'
        BY <1>1, <1>6, <3>1, <3>2 DEF ClosingOK, CutOff
      <3>4. Where' = "closed" /\ pc' = "sending"
        BY <1>6, <2>5 DEF Where
      <3>5. SendPhase'
        BY <3>3, <3>4 DEF SendPhase, InSession, Stopped, Over
      <3>6. SendBufferOK'
        <4>1. 0 \in 0 .. Len(Alert)
          BY <2>3, LenProperties
        <4> QED
          BY <1>1, <1>6, <2>3, <4>1 DEF OutInv, SendBufferOK
      <3> QED
        BY <1>4, <3>5, <3>6 DEF OutInv
    <2> QED
      BY <2>4, <2>5
  <1> QED
    BY <1>1, <1>5, <1>6

\* What the caller sends is numbered on, and none of it is encrypted yet.
LEMMA SendCallOut ==
    ASSUME InInv, OutInv, SendCall
    PROVE  OutInv'
  <1>1. PICK n \in SendSizes : plain' = Numbers(Len(sent), n) /\ sent' = sent \o plain'
    BY DEF SendCall
  <1>2. /\ pc = "ready" /\ pc' = "encrypt"
        /\ UNCHANGED <<server, up, send_buffer, msg_sent, recv_buffer, arrived>>
    BY DEF SendCall, session, wire, recvvars
  <1>3. /\ Where = "ready" /\ Where' = "encrypt" /\ recv_buffer # <<>>
    BY <1>2, WhereIs DEF Where
  <1>4. n \in Nat
    BY SChannelAssumption
  <1> DEFINE l == Len(sent)
  <1>5. /\ l \in Nat /\ Len(arrived) \in Nat /\ Len(arrived) <= l
        /\ Counted(arrived) /\ plain = <<>> /\ Encrypted = l
    BY <1>3, SentIs DEF OutInv, SentOK, Counted, SendPhase, WholeUnits, InSession
  <1> HIDE DEF l
  <1>6. plain' = Numbers(l, n) /\ Numbers(l, n) \in Seq(Nat) /\ Len(Numbers(l, n)) = n
    BY <1>1, <1>4, <1>5, NumbersOK DEF l
  <1>7. Counted(sent') /\ Len(sent') = l + n
    BY <1>1, <1>4, CountGoesOn DEF OutInv, SentOK, l
  <1>8. Encrypted' = l
    <2>1. (l + n) - n = l
      BY <1>4, <1>5
    <2> QED
      BY <1>6, <1>7, <2>1 DEF Encrypted
  <1>9. SentOK'
    <2>1. Len(arrived) <= l + n /\ n <= l + n
      BY <1>4, <1>5
    <2> QED
      BY <1>2, <1>5, <1>6, <1>7, <1>8, <2>1 DEF SentOK, Counted
  <1>10. Unsent' = Unsent
    BY <1>2 DEF Unsent
  <1>11. WholeUnits'
    <2>1. Framed(up \o Unsent, Len(arrived), Encrypted)
      BY <1>3 DEF OutInv, SendPhase, WholeUnits, InSession
    <2> QED
      BY <1>2, <1>3, <1>5, <1>8, <1>10, <2>1 DEF WholeUnits
  <1>12. SendPhase'
    BY <1>2, <1>3, <1>11 DEF SendPhase, Stopped
  <1>13. SendBufferOK'
    BY <1>2 DEF OutInv, SendBufferOK
  <1> QED
    BY <1>9, <1>12, <1>13 DEF OutInv

\* The rest of numbers
LEMMA NumbersRest ==
    ASSUME NEW from \in Nat, NEW n \in Nat, NEW m \in 0 .. n
    PROVE  SubSeq(Numbers(from, n), m + 1, n) = Numbers(from + m, n - m)
  <1> DEFINE a == Numbers(from, n)
             b == Numbers(from + m, n - m)
             c == SubSeq(a, m + 1, n)
  <1>1. m \in Nat /\ m <= n /\ n - m \in Nat /\ from + m \in Nat
    OBVIOUS
  <1>2. a \in Seq(Nat) /\ Len(a) = n /\ \A i \in 1 .. n : a[i] = from + i
    BY NumbersOK
  <1>3. b \in Seq(Nat) /\ Len(b) = n - m /\ \A i \in 1 .. n - m : b[i] = (from + m) + i
    BY <1>1, NumbersOK
  <1> HIDE DEF a, b
  <1>4. c \in Seq(Nat) /\ Len(c) = n - m /\ \A i \in 1 .. n - m : c[i] = a[m + i]
    <2>1. m \in 0 .. Len(a)
      BY <1>2
    <2>2. SubSeq(a, m + 1, Len(a)) = c
      BY <1>2
    <2> HIDE DEF c
    <2> QED
      BY <1>2, <2>1, <2>2, RestIs
  <1> HIDE DEF c
  <1>5. ASSUME NEW i \in 1 .. n - m PROVE b[i] = c[i]
    <2>1. m + i \in 1 .. n /\ from + (m + i) = (from + m) + i
      BY <1>1
    <2> QED
      BY <1>2, <1>3, <1>4, <2>1
  <1>6. b = c
    BY <1>3, <1>4, <1>5, SeqEqual
  <1> QED
    BY <1>6 DEF a, b, c

\* A record carries the plain text that comes next.
LEMMA EncryptOut ==
    ASSUME InInv, OutInv, Encrypt
    PROVE  OutInv'
  <1> DEFINE k == CurrentLength
             p == Len(plain)
             e == Encrypted
  <1>1. /\ pc = "encrypt" /\ pc' = "sending" /\ msg_sent' = 0
        /\ send_buffer' = Record(server, SubSeq(plain, 1, k)) /\ plain' = SubSeq(plain, k + 1, p)
        /\ then' = IF plain' = <<>> THEN "ready" ELSE "encrypt"
        /\ UNCHANGED <<server, up, recv_buffer, sent, arrived>>
    BY DEF Encrypt, session, wire, recvvars, data
  <1>2. Where = "encrypt" /\ recv_buffer # <<>>
    BY <1>1, WhereIs DEF Where
  <1>3. /\ p \in Nat /\ e \in Nat /\ plain = Numbers(e, p) /\ Len(sent) \in Nat /\ e = Len(sent) - p
        /\ p <= Len(sent) /\ server \in Nat /\ MaxMessage \in Nat
    BY SentIs, HandshakeBytes, SChannelAssumption DEF OutInv, SentOK, Encrypted, InInv
  <1>4. k \in Nat /\ k <= p /\ k <= MaxMessage
    BY <1>3 DEF CurrentLength
  <1> HIDE DEF k, p, e
  <1>5. k \in 0 .. p /\ k \in 0 .. MaxMessage /\ p - k \in Nat /\ e + k \in Nat /\ p - k <= Len(sent)
        /\ Len(sent) - (p - k) = e + k /\ e <= e + k
    BY <1>3, <1>4
  <1>6. send_buffer' = Record(server, Numbers(e, k))
    BY <1>1, <1>3, <1>5, NumbersFront
  <1>7. plain' = Numbers(e + k, p - k)
    BY <1>1, <1>3, <1>5, NumbersRest
  <1>8. plain' \in Seq(Nat) /\ Len(plain') = p - k
    BY <1>5, <1>7, NumbersOK
  <1>9. Encrypted' = e + k
    BY <1>1, <1>5, <1>8 DEF Encrypted
  <1>10. SentOK'
    BY <1>1, <1>5, <1>7, <1>8, <1>9 DEF OutInv, SentOK, Counted
  <1> DEFINE u == Record(server, Numbers(e, k))
  <1>11. u \in Seq(BytesUpTo(server)) /\ IsUnit(u, e, e + k)
    BY <1>3, <1>5, RecordUnit
  <1>12. u \in Seq(Bytes)
    BY <1>3, <1>11, SessionBytes
  <1> HIDE DEF u
  <1>13. send_buffer' = u
    BY <1>6 DEF u
  <1>14. IsUnit(u, Encrypted, Encrypted') /\ Encrypted <= Encrypted'
    BY <1>5, <1>9, <1>11 DEF e
  <1>15. /\ then' \in InSession /\ Where \in InSession /\ pc # "sending"
         /\ then' # "encrypt" => plain' = <<>>
    BY <1>1, <1>2 DEF InSession
  <1> QED
    BY <1>1, <1>2, <1>10, <1>12, <1>13, <1>14, <1>15, UnitOut

\* Nothing but the alert is sent once the session is closed.
LEMMA CloseOut ==
    ASSUME InInv, OutInv, Close
    PROVE  OutInv'
  <1>1. /\ pc \in {"ready", "defunct"} /\ then' = "closed"
        /\ UNCHANGED <<server, up, plain, sent, arrived>>
        /\ \/ pc' = "closed" /\ UNCHANGED <<send_buffer, msg_sent>>
           \/ pc' = "sending" /\ send_buffer' = Unit("alert", server, <<>>) /\ msg_sent' = 0
    BY DEF Close, wire, data
  <1>2. Where = pc /\ Where \in InSession \cup Stopped /\ Where' = "closed"
    BY <1>1 DEF Where, InSession, Stopped
  <1>3. CASE pc' = "closed" /\ UNCHANGED <<send_buffer, msg_sent>>
    <2>1. UNCHANGED outputs /\ Where' \in Over
      BY <1>1, <1>2, <1>3 DEF outputs, Over
    <2> QED
      BY <1>2, <1>3, <2>1, OutStays
  <1>4. CASE pc' = "sending" /\ send_buffer' = Unit("alert", server, <<>>) /\ msg_sent' = 0
    <2>1. CutOff(up)
      BY <1>2, WholeIsCut
    <2>2. server \in Nat
      BY HandshakeBytes DEF InInv
    <2>3. Alert \in Seq(BytesUpTo(server))
      BY <2>2, EmptyUnit DEF Alert
    <2>4. Alert \in Seq(Bytes)
      BY <2>2, <2>3, SessionBytes
    <2>5. Alert' = Alert /\ send_buffer' = Alert
      BY <1>1, <1>4 DEF Alert
    <2>6. ClosingOK'
      BY <1>1, <1>4, <2>1, <2>5 DEF ClosingOK, CutOff
    <2>7. SendPhase'
      BY <1>2, <1>4, <2>6 DEF SendPhase, InSession, Stopped, Over
    <2>8. SendBufferOK'
      <3>1. 0 \in 0 .. Len(Alert)
        BY <2>4, LenProperties
      <3> QED
        BY <1>1, <1>4, <2>4, <2>5, <3>1 DEF OutInv, SendBufferOK
    <2>9. SentOK'
      BY <1>1 DEF OutInv, SentOK, Counted, Encrypted
    <2> QED
      BY <2>7, <2>8, <2>9 DEF OutInv
  <1> QED
    BY <1>1, <1>3, <1>4

\* What the server reads is the first unit, though its trailer may be another
\* byte, and the plain text in it goes on with what has arrived.
LEMMA UnitRead ==
    ASSUME SentOK, ServerReads, up \in Seq(Bytes),
           NEW z \in Seq(Bytes), z # <<>>, NEW to \in Nat, to <= Len(sent),
           Framed(z, Len(arrived), to), up[1] = z[1], \A i \in 1 .. z[1].v : up[i] = z[i]
    PROVE  SentOK' /\ Framed(Behind(z), Len(arrived'), to) /\ Len(arrived') <= to
  <1> DEFINE l == Len(arrived)
             a == After(z[1], l)
  <1>1. l \in Nat /\ Len(sent) \in Nat
    BY SentIs
  <1>2. /\ z[1].v \in Nat /\ UnitAt(z, 1, l, a) /\ a \in l .. to /\ Framed(Behind(z), a, to)
    BY <1>1, FramedBegins
  <1>3. Complete(up) /\ UNCHANGED <<plain, sent>>
        /\ \/ up[1].kind = "record" /\ arrived' = arrived \o Values(Body(up))
           \/ up[1].kind # "record" /\ arrived' = arrived
    BY DEF ServerReads, server_keeps, sendvars
  <1> HIDE DEF a, l
  <1>4. Counted(arrived') /\ Len(arrived') = a
    <2>1. CASE up[1].kind # "record" /\ arrived' = arrived
      <3>1. a = l
        BY <2>1 DEF a, After
      <3> QED
        BY <2>1, <3>1 DEF SentOK, Counted, l
    <2>2. CASE up[1].kind = "record" /\ arrived' = arrived \o Values(Body(up))
      <3>1. a = l + z[1].v - 1 /\ a \in Nat
        BY <1>1, <1>2, <2>2 DEF a, After
      <3>2. z[1].v > 0 /\ Values(Body(up)) = Numbers(l, z[1].v - 1)
        BY <1>1, <1>2, <1>3, <2>2, <3>1, BodyIs
      <3>3. z[1].v - 1 \in Nat
        BY <1>2, <3>2
      <3>4. Counted(arrived') /\ Len(arrived') = l + (z[1].v - 1)
        BY <2>2, <3>2, <3>3, CountGoesOn DEF SentOK, l
      <3> QED
        BY <1>1, <1>2, <3>1, <3>4
    <2> QED
      BY <1>3, <2>1, <2>2
  <1>5. a \in Nat /\ a <= to /\ a <= Len(sent)
    BY <1>1, <1>2
  <1> QED
    BY <1>2, <1>3, <1>4, <1>5 DEF SentOK, Counted, Encrypted

\* The server reads whole units.
LEMMA ReadsOn ==
    ASSUME OutInv, ServerReads, NEW t \in Seq(Bytes), NEW n \in Nat, n <= Len(sent),
           Framed(up \o t, Len(arrived), n)
    PROVE  SentOK' /\ Framed(up' \o t, Len(arrived'), n)
  <1>1. up \in Seq(Bytes) /\ Complete(up) /\ up' = Behind(up) /\ up # <<>> /\ SentOK
    BY DEF ServerReads, OutInv, SendBufferOK, Complete
  <1> DEFINE z == up \o t
  <1>2. /\ z \in Seq(Bytes) /\ z # <<>> /\ Behind(z) = Behind(up) \o t
        /\ \A i \in 1 .. Len(up) : z[i] = up[i]
    BY <1>1, FirstStays
  <1>3. up[1].v \in Nat /\ up[1].v < Len(up) /\ Len(up) \in Nat /\ 1 \in 1 .. Len(up)
    BY <1>1, BehindOK
  <1> HIDE DEF z
  <1>4. z[1] = up[1] /\ \A i \in 1 .. z[1].v : up[i] = z[i]
    BY <1>2, <1>3
  <1>5. Framed(z, Len(arrived), n)
    BY DEF z
  <1> QED
    BY <1>1, <1>2, <1>4, <1>5, UnitRead

\* What is left of the bytes under way is cut off as they were.
LEMMA CutReads ==
    ASSUME OutInv, ServerReads, CutOff(up)
    PROVE  SentOK' /\ CutOff(up)'
  <1>1. PICK t \in Seq(Bytes), n \in Nat : n <= Len(sent) /\ Framed(up \o t, Len(arrived), n)
    BY DEF CutOff, Cut
  <1>2. SentOK' /\ Framed(up' \o t, Len(arrived'), n)
    BY <1>1, ReadsOn
  <1>3. sent' = sent
    BY DEF ServerReads
  <1> QED
    BY <1>1, <1>2, <1>3 DEF CutOff, Cut

\* The server reads what was sent before the session was closed, and the
\* alert; where that follows a unit that is cut off, it may be taken for the
\* end of it.
LEMMA ClosedReads ==
    ASSUME InInv, OutInv, ServerReads, ClosedOK
    PROVE  SentOK' /\ ClosedOK'
  <1>1. up \in Seq(Bytes) /\ Complete(up) /\ up' = Behind(up) /\ SentOK /\ sent' = sent /\ server' = server
    BY DEF ServerReads, OutInv, SendBufferOK, server_keeps, session
  <1>2. CASE CutOff(up)
    BY <1>2, CutReads DEF ClosedOK
  <1>3. CASE \E x \in Seq(Bytes) : up = x \o Alert /\ CutOff(x)
    <2>1. PICK x \in Seq(Bytes) : up = x \o Alert /\ CutOff(x)
      BY <1>3
    <2>2. /\ Alert \in Seq(Bytes) /\ Len(Alert) = 1 /\ Alert[1] = Byte("alert", server, 0)
          /\ Alert' = Alert
      <3>1. server \in Nat
        BY HandshakeBytes DEF InInv
      <3>2. /\ Alert \in Seq(BytesUpTo(server)) /\ Len(Alert) = 1 /\ Alert[1] = Byte("alert", server, 0)
        BY <3>1, EmptyUnit DEF Alert
      <3> QED
        BY <1>1, <3>1, <3>2, SessionBytes DEF Alert
    <2>3. /\ up[1].v \in Nat /\ up[1].v < Len(up) /\ Len(up) \in Nat /\ 1 \in 1 .. Len(up)
          /\ Behind(up) \in Seq(Bytes) /\ Len(Behind(up)) = Len(up) - up[1].v - 1
      BY <1>1, BehindOK
    <2>4. PICK t \in Seq(Bytes), n \in Nat : n <= Len(sent) /\ Framed(x \o t, Len(arrived), n)
      BY <2>1 DEF CutOff, Cut
    <2>5. Len(arrived) \in Nat /\ Len(sent) \in Nat /\ Len(arrived) <= Len(sent)
      BY <1>1, SentIs
    <2>6. CASE x = <<>>
      <3>1. up = Alert
        BY <2>1, <2>2, <2>6, Joined
      <3>2. up[1].v = 0 /\ up[1].kind = "alert" /\ Len(up) = 1
        BY <2>2, <3>1 DEF Byte
      <3>3. arrived' = arrived /\ UNCHANGED <<plain, sent>>
        BY <3>2 DEF ServerReads, server_keeps, sendvars
      <3>4. up' = <<>>
        <4>1. Len(Behind(up)) = 0
          BY <2>3, <3>2
        <4> QED
          BY <1>1, <2>3, <4>1, EmptySeq
      <3>5. CutOff(up)'
        BY <2>5, <3>3, <3>4, NothingCut DEF CutOff
      <3> QED
        BY <1>1, <3>3, <3>5 DEF ClosedOK, SentOK, Counted, Encrypted
    <2>7. CASE x # <<>>
      <3> DEFINE z == x \o t
      <3>1. /\ z \in Seq(Bytes) /\ z # <<>> /\ \A i \in 1 .. Len(x) : z[i] = x[i]
            /\ Complete(x) => Behind(z) = Behind(x) \o t
        BY <2>7, FirstStays
      <3>2. /\ Len(up) = Len(x) + 1 /\ \A i \in 1 .. Len(x) : up[i] = x[i]
            /\ Complete(x) => Behind(up) = Behind(x) \o Alert
        <4>1. /\ Len(x \o Alert) = Len(x) + Len(Alert)
              /\ \A i \in 1 .. Len(x) : (x \o Alert)[i] = x[i]
              /\ Complete(x) => Behind(x \o Alert) = Behind(x) \o Alert
          BY <2>2, <2>7, FirstStays
        <4>2. up = x \o Alert /\ Len(Alert) = 1
          BY <2>1, <2>2
        <4> HIDE DEF z
        <4> QED
          BY <4>1, <4>2, Zenon
      <3>3. Framed(z, Len(arrived), n)
        BY <2>4
      <3> HIDE DEF z
      <3>4. Len(x) \in Nat /\ Len(x) > 0
        BY <2>7, LenProperties, EmptySeq
      <3>5. z[1] = up[1] /\ x[1] = up[1]
        <4>1. 1 \in 1 .. Len(x)
          BY <3>4
        <4> QED
          BY <3>1, <3>2, <4>1
      <3>6. up[1].v <= Len(x)
        BY <2>3, <3>2, <3>4
      <3>7. \A i \in 1 .. z[1].v : up[i] = z[i]
        <4> DEFINE v == up[1].v
        <4>1. v \in Nat /\ v <= Len(x) /\ z[1].v = v
          BY <2>3, <3>5, <3>6
        <4> HIDE DEF v
        <4>2. \A i \in 1 .. v : i \in 1 .. Len(x)
          BY <3>4, <4>1
        <4> QED
          BY <3>1, <3>2, <4>1, <4>2
      <3>8. SentOK' /\ Framed(Behind(z), Len(arrived'), n) /\ Len(arrived') <= n
        BY <1>1, <2>4, <3>1, <3>3, <3>5, <3>7, UnitRead
      <3>9. CASE Complete(x)
        <4>1. Behind(x) \in Seq(Bytes)
          BY <3>9, BehindOK
        <4>2. CutOff(Behind(x))'
          BY <1>1, <2>4, <3>1, <3>8, <3>9 DEF CutOff, Cut
        <4>3. up' = Behind(x) \o Alert'
          BY <1>1, <2>2, <3>2, <3>9
        <4> QED
          BY <3>8, <4>1, <4>2, <4>3 DEF ClosedOK
      <3>10. CASE ~Complete(x)
        <4>1. up[1].v = Len(x)
          <5>1. ~(Len(x) > up[1].v)
            BY <2>7, <3>5, <3>10 DEF Complete
          <5> QED
            BY <2>3, <3>4, <3>6, <5>1
        <4>2. up' = <<>>
          <5>1. Len(Behind(up)) = 0
            BY <2>3, <3>2, <3>4, <4>1
          <5> QED
            BY <1>1, <2>3, <5>1, EmptySeq
        <4>3. Len(arrived') \in Nat /\ Len(arrived') <= Len(sent)
          BY <1>1, <3>8, LenProperties DEF SentOK, Counted
        <4>4. CutOff(up)'
          BY <1>1, <2>5, <4>2, <4>3, NothingCut DEF CutOff
        <4> QED
          BY <3>8, <4>4 DEF ClosedOK
      <3> QED
        BY <3>9, <3>10
    <2> QED
      BY <2>6, <2>7
  <1> QED
    BY <1>2, <1>3 DEF ClosedOK

\* The server reads.
LEMMA ServerReadsOut ==
    ASSUME InInv, OutInv, ServerReads
    PROVE  OutInv'
  <1>1. /\ up \in Seq(Bytes) /\ Complete(up) /\ up' = Behind(up)
        /\ UNCHANGED <<pc, then, server, send_buffer, msg_sent, plain, recv_buffer, sent>>
    BY DEF ServerReads, OutInv, SendBufferOK, server_keeps, session, sendvars, recvvars
  <1>2. SendBufferOK'
    <2>1. Behind(up) \in Seq(Bytes)
      BY <1>1, BehindOK
    <2> QED
      BY <1>1, <2>1 DEF OutInv, SendBufferOK
  <1>3. /\ Where' = Where /\ Unsent' = Unsent /\ Encrypted' = Encrypted /\ Alert' = Alert
        /\ (NoneSent' <=> NoneSent)
    BY <1>1 DEF Where, Unsent, Encrypted, Alert, NoneSent
  <1>4. recv_buffer' = <<>> /\ Where' \notin Over => NoneSent'
    BY <1>1, <1>3 DEF OutInv, SendPhase
  <1>5. CASE Where \in InSession \/ (Where \in Stopped /\ pc = "sending")
    <2>1. WholeUnits
      BY <1>5 DEF OutInv, SendPhase
    <2>2. Unsent \in Seq(Bytes) /\ Encrypted \in Nat /\ Encrypted <= Len(sent)
      BY UnsentOK, SentIs DEF OutInv
    <2>3. SentOK' /\ Framed(up' \o Unsent, Len(arrived'), Encrypted)
      BY <2>1, <2>2, ReadsOn DEF WholeUnits
    <2>4. WholeUnits'
      BY <1>1, <1>3, <2>1, <2>3 DEF WholeUnits
    <2>5. SendPhase'
      BY <1>1, <1>3, <1>4, <1>5, <2>4 DEF SendPhase, InSession, Stopped
    <2> QED
      BY <1>2, <2>3, <2>5 DEF OutInv
  <1>6. CASE Where \in Stopped /\ pc # "sending"
    <2>1. SentOK' /\ CutOff(up)'
      BY <1>6, CutReads DEF OutInv, SendPhase
    <2>2. SendPhase'
      BY <1>1, <1>3, <1>4, <1>6, <2>1 DEF SendPhase, InSession, Stopped
    <2> QED
      BY <1>2, <2>1, <2>2 DEF OutInv
  <1>7. CASE Where = "closed" /\ pc = "sending"
    <2>1. ClosingOK
      BY <1>7 DEF OutInv, SendPhase
    <2>2. SentOK' /\ CutOff(up)'
      BY <2>1, CutReads DEF ClosingOK
    <2>3. ClosingOK'
      BY <1>1, <1>3, <2>1, <2>2 DEF ClosingOK
    <2>4. SendPhase'
      BY <1>1, <1>3, <1>4, <1>7, <2>3 DEF SendPhase, InSession, Stopped
    <2> QED
      BY <1>2, <2>2, <2>4 DEF OutInv
  <1>8. CASE Where \in {"closed", "destroyed"} /\ pc # "sending"
    <2>1. SentOK' /\ ClosedOK'
      BY <1>8, ClosedReads DEF OutInv, SendPhase
    <2>2. SendPhase'
      BY <1>1, <1>3, <1>4, <1>8, <2>1 DEF SendPhase, InSession, Stopped
    <2> QED
      BY <1>2, <2>1, <2>2 DEF OutInv
  <1>9. Where \in InSession \cup Stopped \cup {"closed", "destroyed"} /\ (Where = "destroyed" => pc # "sending")
    BY WhereIs DEF InInv, PlaceOK, Places, Sends, Where, InSession, Stopped
  <1> QED
    BY <1>5, <1>6, <1>7, <1>8, <1>9

\* Nothing is sent.
LEMMA OutInit == Init => OutInv
  <1> SUFFICES ASSUME Init PROVE OutInv
    OBVIOUS
  <1>1. /\ up = <<>> /\ send_buffer = <<>> /\ msg_sent = 0 /\ sent = <<>> /\ plain = <<>> /\ arrived = <<>>
        /\ pc = "opening" /\ recv_buffer = <<>>
    BY DEF Init
  <1>2. <<>> \in Seq(Nat) /\ Len(<<>>) = 0 /\ <<>> = Numbers(0, 0) /\ <<>> \in Seq(Bytes)
    BY DEF Numbers
  <1>3. SendBufferOK
    BY <1>1, <1>2 DEF SendBufferOK
  <1>4. SentOK
    BY <1>1, <1>2 DEF SentOK, Counted, Encrypted
  <1>5. CutOff(up)
    <2>1. Cut(<<>>, 0, 0)
      BY NothingCut
    <2> QED
      BY <1>1, <1>2, <2>1 DEF CutOff
  <1>6. Where = "opening"
    BY <1>1 DEF Where
  <1>7. SendPhase
    BY <1>1, <1>5, <1>6 DEF SendPhase, NoneSent, InSession, Stopped
  <1> QED
    BY <1>3, <1>4, <1>7 DEF OutInv

\* Every step preserves the invariant of what is sent.
LEMMA OutStep ==
    ASSUME InInv, OutInv, InInv', [Next]_vars
    PROVE  OutInv'
  <1>1. CASE Client
    BY <1>1, ConnectOut, QuietOut, SendSomeOut, TokenRefusedOut, TokenContinueOut, EncryptOut DEF Client
  <1>2. CASE Caller
    BY <1>2, SendCallOut, QuietOut, CloseOut DEF Caller
  <1>3. CASE Failures
    BY <1>3, FailuresOut
  <1>4. CASE Server
    BY <1>4, ServerReadsOut, QuietOut DEF Server
  <1>5. CASE UNCHANGED vars
    BY <1>5, QuietOut
  <1> QED
    BY <1>1, <1>2, <1>3, <1>4, <1>5 DEF Next

\* However much a plain send takes, what is under way are units, the last of
\* them cut off only where the connection is lost or closed.
THEOREM RequestsInvariant == Spec => []OutInv
  <1>1. Init => OutInv
    BY OutInit
  <1>2. InInv /\ InInv' /\ OutInv /\ [Next]_vars => OutInv'
    BY OutStep
  <1> QED
    BY <1>1, <1>2, AnswersInvariant, PTL DEF Spec

\* Of two sequences that are numbered, the shorter begins the longer.
LEMMA CountedBegins ==
    ASSUME NEW s, NEW t, Counted(s), Counted(t), Len(s) <= Len(t)
    PROVE  IsPrefix(s, t)
  <1> DEFINE g == Len(s)
             l == Len(t)
  <1>1. /\ g \in Nat /\ l \in Nat /\ g <= l /\ s = Numbers(0, g) /\ t = Numbers(0, l)
        /\ s \in Seq(Nat)
    BY LenProperties DEF Counted
  <1>2. SubSeq(s, 1, g) = s
    BY <1>1, SubSeqFull
  <1> HIDE DEF g, l
  <1>3. g \in 0 .. l /\ 0 \in Nat
    BY <1>1
  <1>4. SubSeq(t, 1, g) = s
    BY <1>1, <1>3, NumbersFront
  <1> QED
    BY <1>1, <1>2, <1>4 DEF IsPrefix, g, l

-----------------------------------------------------------------------------
(* The properties *)

\* secure_schannel_recv hands out what the server has sent, in its order: for
\* all sizes of the records and of the buffers of the callers, however the
\* bytes arrive.
THEOREM AnswersArriveInOrder == Spec => []AnswersInOrder
  <1>1. InInv => AnswersInOrder
    BY CountedBegins DEF InInv, CountsOK, AnswersInOrder
  <1> QED
    BY <1>1, AnswersInvariant, PTL

\* The server gets what secure_schannel_send was called with, in its order:
\* for all sizes of the sends and of the records, however much of a record one
\* plain send takes, and wherever a send is given up.
THEOREM RequestsArriveInOrder == Spec => []RequestsInOrder
  <1>1. OutInv => RequestsInOrder
    BY CountedBegins DEF OutInv, SentOK, RequestsInOrder
  <1> QED
    BY <1>1, RequestsInvariant, PTL

\* A plain receive has room to write to: bytes that fill recv_buffer hold a
\* whole record, which is decrypted first.
LEMMA RoomToReceive ==
    ASSUME InInv, pc = "recv", RecvReads
    PROVE  recv_buffer_pos < BufferLength
  <1> DEFINE p == recv_buffer_pos
             s == Received \o down
  <1>1. /\ SessionOK /\ NonePending /\ (status = "incomplete" => ~Complete(Received))
    BY DEF InInv, Phase, Where
  <1>2. Received \in Seq(Bytes) /\ Len(Received) = p /\ p \in Nat /\ down \in Seq(Bytes)
    BY ReceivedIs, HandshakeBytes DEF InInv
  <1>3. MaxMessage \in Nat /\ BufferLength = 1 + MaxMessage + 1
    BY SChannelAssumption DEF BufferLength
  <1>4. CASE p = 0
    BY <1>3, <1>4
  <1>5. CASE p # 0
    <2>1. ~Complete(Received) /\ Received # <<>>
      BY <1>1, <1>2, <1>5 DEF RecvReads
    <2>2. /\ s \in Seq(Bytes) /\ s # <<>> /\ \A i \in 1 .. p : s[i] = Received[i]
      BY <1>2, <2>1, FirstStays
    <2>3. s[1] = Received[1]
      <3> HIDE DEF s, p
      <3>1. 1 \in 1 .. p
        BY <1>2, <1>5
      <3> QED
        BY <2>2, <3>1
    <2>4. Len(got) \in Nat /\ Len(served) \in Nat
      BY LenProperties DEF InInv, CountsOK, Counted
    <2>5. Framed(s, Len(got), Len(served))
      <3>1. Unread = s /\ Len(got) + Rest = Len(got)
        BY <1>1, <2>4, UnreadIs
      <3> QED
        BY <1>1, <3>1 DEF SessionOK
    <2> HIDE DEF s
    <2>6. s[1].v <= MaxMessage + 1 /\ s[1].v \in Nat
      BY <2>2, <2>4, <2>5, FramedBegins
    <2>7. ~(p > Received[1].v)
      BY <1>2, <2>1 DEF Complete
    <2> QED
      BY <1>2, <1>3, <2>3, <2>6, <2>7
  <1> QED
    BY <1>4, <1>5

(* A handshake is read on only with nothing in hs_buffer, or with less than *)
(* a token.                                                                 *)
TokenBegun ==
    /\ pc = "handshake" /\ status = "incomplete" => Len(hs_buffer) < 2
    /\ pc = "sending" /\ then = "handshake" => status = "continue"

\* What is not a whole token is less than one.
LEMMA LessThanToken ==
    ASSUME InInv, IsStrictPrefix(hs_buffer, Expected)
    PROVE  Len(hs_buffer) < 2
  <1>1. /\ hs_buffer \in Seq(Bytes) /\ Len(hs_buffer) \in Nat
        /\ Expected \in Seq(Bytes) /\ Len(Expected) = 2
    BY HandshakeBytes, LenProperties, ExpectedToken DEF InInv
  <1>2. /\ Len(hs_buffer) <= 2 /\ hs_buffer # Expected
        /\ SubSeq(hs_buffer, 1, Len(hs_buffer)) = SubSeq(Expected, 1, Len(hs_buffer))
    BY <1>1 DEF IsStrictPrefix, IsPrefix
  <1>3. Len(hs_buffer) # 2
    <2>1. ASSUME Len(hs_buffer) = 2 PROVE FALSE
      <3>1. SubSeq(hs_buffer, 1, Len(hs_buffer)) = SubSeq(Expected, 1, Len(Expected))
        BY <1>1, <1>2, <2>1
      <3> QED
        BY <1>1, <1>2, <3>1, SubSeqFull
    <2> QED
      BY <2>1
  <1> QED
    BY <1>1, <1>2, <1>3

\* Every step leaves hs_buffer so.
LEMMA TokenBegunStep ==
    ASSUME InInv, TokenBegun, [Next]_vars
    PROVE  TokenBegun'
  <1> USE DEF session, hsvars, sendvars
  <1>1. CASE Connect
    <2>1. pc = "opening" /\ status' = "continue" /\ (pc' = pc \/ pc' \in {"crashed", "sending"})
      BY <1>1 DEF Connect
    <2> QED
      BY <2>1 DEF TokenBegun
  <1>2. CASE SendSome
    <2>1. /\ pc = "sending" /\ UNCHANGED <<hs_buffer, status>>
          /\ (pc' = pc /\ then' = then) \/ (pc' = then /\ then' = "none")
      BY <1>2 DEF SendSome, SendSomeFrom
    <2>2. then # "sending"
      BY <2>1 DEF InInv, PlaceOK, Sends
    <2> QED
      BY <2>1, <2>2 DEF TokenBegun
  <1>3. CASE TokenIncomplete
    <2>1. IsStrictPrefix(hs_buffer, Expected) /\ hs_buffer' = hs_buffer /\ pc' = "handshake"
      BY <1>3 DEF TokenIncomplete
    <2> QED
      BY <2>1, LessThanToken DEF TokenBegun
  <1>4. CASE TokenContinue
    <2>1. status' = "continue"
      BY <1>4 DEF TokenContinue
    <2> QED
      BY <2>1 DEF TokenBegun
  <1>5. CASE TokenRefused \/ Encrypt \/ Close
    <2>1. pc' # "handshake" /\ (pc' = "sending" => then' # "handshake")
      BY <1>5 DEF TokenRefused, Encrypt, Close, FailedPc
    <2> QED
      BY <2>1 DEF TokenBegun
  <1>6. CASE \/ OpenFails \/ HandshakeRead \/ HandshakeKeeps \/ TokenLast \/ Verify \/ StreamSizes
             \/ RecvSome \/ RecvKeeps \/ DecryptIncomplete \/ DecryptData \/ DecryptRenegotiate
             \/ DecryptExpired \/ SendCall \/ RecvPending \/ RecvCall \/ Destroy
    <2>1. pc' \notin {"handshake", "sending"}
      BY <1>6 DEF OpenFails, HandshakeRead, HandshakeKeeps, TokenLast, Verify, StreamSizes, RecvSome,
         RecvKeeps, DecryptIncomplete, DecryptData, DecryptRenegotiate, DecryptExpired, SendCall,
         RecvPending, RecvCall, RecvCallWhen, Destroy
    <2> QED
      BY <2>1 DEF TokenBegun
  <1>7. CASE Failures
    <2>1. pc' \in {"closed", "opening", "defunct"}
      BY <1>7 DEF Failures, SendFails, HandshakeReadFails, TokenFails, OpenBreaks, EncryptFails,
         RecvFails, DecryptFails, Fail, FailedPc
    <2> QED
      BY <2>1 DEF TokenBegun
  <1>8. CASE Server \/ UNCHANGED vars
    <2>1. UNCHANGED <<pc, then, status, hs_buffer>>
      BY <1>8 DEF Server, ServerReads, ServerSends, ServerRequests, ServerCloses, server_keeps, vars
    <2> QED
      BY <2>1 DEF TokenBegun
  <1> QED
    BY <1>1, <1>2, <1>3, <1>4, <1>5, <1>6, <1>7, <1>8 DEF Next, Client, Caller

\* The buffers hold what their lengths say, and the pointers lie inside them;
\* no plain receive is asked for no bytes, neither in a handshake whose tokens
\* fit into hs_buffer nor for a record: for all sizes of the messages and all
\* cuts of the stream.
THEOREM TypeCorrect == Spec => []TypeOK
  <1>1. InInv /\ OutInv /\ TokenBegun => TypeOK
    <2> SUFFICES ASSUME InInv, OutInv, TokenBegun PROVE TypeOK
      OBVIOUS
    <2>1. pc \in Places /\ server \in 0 .. Servers /\ accepted \in 0 .. Tokens
      BY DEF InInv, PlaceOK, HandshakeOK
    <2>2. msg_sent \in 0 .. Len(send_buffer)
      BY DEF OutInv, SendBufferOK
    <2>3. /\ recv_buffer # <<>> => Len(recv_buffer) = BufferLength
          /\ recv_buffer_pos \in 0 .. Len(recv_buffer)
          /\ Into(recv_buffer, pt_pending) /\ Into(recv_buffer, ct_pending)
          /\ Len(recv_buffer) \in Nat
      BY LenProperties DEF InInv, BuffersOK
    <2>4. pt_pending.pos \in 0 .. pt_pending.length
      <3>1. CASE pt_pending = Nothing
        BY <3>1 DEF Nothing
      <3>2. CASE pt_pending # Nothing
        <4>1. pt_pending \in [at : Nat, length : Nat, pos : Nat] /\ pt_pending.pos < pt_pending.length
          BY <2>3, <3>2 DEF Into
        <4> QED
          BY <4>1
      <3> QED
        BY <3>1, <3>2
    <2>5. ASSUME NEW p \in {pt_pending, ct_pending}, p # Nothing
          PROVE  p.at \in 1 .. Len(recv_buffer) /\ p.at + p.length - 1 \in p.at .. Len(recv_buffer)
      <3>1. /\ p \in [at : Nat, length : Nat, pos : Nat]
            /\ p.at > 0 /\ p.pos < p.length /\ p.at + p.length <= Len(recv_buffer) + 1
        BY <2>3, <2>5 DEF Into
      <3>2. p.at \in Nat /\ p.length \in Nat /\ p.pos \in Nat
        BY <3>1
      <3> QED
        BY <2>3, <3>1, <3>2
    <2>6. pc = "recv" /\ RecvReads => recv_buffer_pos < BufferLength
      BY RoomToReceive
    <2>7. Len(hs_buffer) <= HandshakeLength
      BY DEF InInv, HandshakeOK
    <2>8. ASSUME TokensFit, pc = "handshake", HandshakeReads
          PROVE  HandshakeRoom > 0
      <3>1. Len(hs_buffer) \in Nat /\ HandshakeLength \in Nat /\ HandshakeLength >= 2
        BY <2>8, HandshakeBytes, LenProperties, SChannelAssumption DEF InInv, TokensFit
      <3>2. Len(hs_buffer) < 2
        BY <2>8 DEF TokenBegun, HandshakeReads
      <3> QED
        BY <3>1, <3>2 DEF HandshakeRoom
    <2> QED
      BY <2>1, <2>2, <2>3, <2>4, <2>5, <2>6, <2>7, <2>8 DEF TypeOK, Places, ReadsMore
  <1>2. Init => TokenBegun
    BY DEF Init, TokenBegun
  <1>3. InInv /\ TokenBegun /\ [Next]_vars => TokenBegun'
    BY TokenBegunStep
  <1> QED
    BY <1>1, <1>2, <1>3, AnswersInvariant, RequestsInvariant, PTL DEF Spec
=============================================================================
