------------------------------ MODULE SChannel ------------------------------
(***************************************************************************)
(* Secure communication on Windows: a TLS session of the SChannel library  *)
(* over a plain socket (communication-secure-schannel.c), opened against   *)
(* one resolved address after the other (communication.c).  One thread     *)
(* owns the communication; the socket and the server run on their own.     *)
(* A byte is a record: its kind, the server whose session it belongs to    *)
(* and a value.  Every unit of the protocol, a token of a handshake or a   *)
(* record of data, starts with a byte that tells how many bytes follow.    *)
(* TLS 1.2 is modelled, with one flight of two tokens and one of one token *)
(* from the server.  The contents of recv_buffer are kept byte for byte,   *)
(* because the pending plain text and the pending cipher text are pointers *)
(* into it.                                                                *)
(***************************************************************************)
EXTENDS Naturals, Sequences, SequencesExt, FiniteSetsExt

CONSTANTS
    Servers,        \* number of resolved addresses
    MaxMessage,     \* stream_sizes->cbMaximumMessage
    HandshakeLength, \* hs_buffer_length, 16*1024 in the code
    SendSizes, RecvSizes, \* lengths of the callers' sends and receives
    MaxSent,        \* bound: bytes the client sends
    MaxServed,      \* bound: bytes the server sends
    MaxRecords,     \* bound: records the server sends
    Early,          \* bytes the server may send along with its last token
    Renegotiations, \* bound: handshakes the server asks for
    MaxFailures,    \* bound: calls to the socket and the library that fail
    Trusts, Certs   \* settings and certificates that occur

ASSUME SChannelAssumption ==
    /\ {Servers, MaxMessage, HandshakeLength} \subseteq Nat \ {0}
    /\ SendSizes \cup RecvSizes \subseteq Nat \ {0}
    /\ {MaxSent, MaxServed, MaxRecords, Renegotiations, MaxFailures} \subseteq Nat
    /\ Early \subseteq 0 .. MaxMessage
    /\ \A t \in Trusts : {t.skip_verify, t.skip_verify_hostname} \subseteq BOOLEAN
    /\ \A c \in Certs : c.named \in BOOLEAN

VARIABLES
    pc,            \* where the thread is
    trust, sec_ctx, \* ctx->trust, ctx->sec_ctx
    cert,          \* the server's certificate, while it is verified
    server,        \* index of the address that is tried or in use
    up, down,      \* bytes under way to the server, and from it
    hs_buffer,     \* the hs_buffer_pos first bytes of hs_buffer
    status,        \* what the last call of the running loop returned
    accepted,      \* bytes of the server's tokens the library has consumed
    send_buffer, msg_sent, then, \* bytes of a send loop, its progress, and what follows it
    plain,         \* plain text of the running send that is not encrypted yet
    length,        \* length of the running receive
    recv_buffer, recv_buffer_pos,
    pt_pending,    \* pt_pending_buffer as an index, _length, _pos
    ct_pending,    \* ct_pending_buffer as an index, _length
    failures, requests, records, \* failed calls, handshakes asked for, records sent, so far
    sent, arrived, \* plain text the client has sent, and the server has got
    served, got    \* plain text the server has sent, and the client has got

hsvars == <<hs_buffer, status, accepted>>
sendvars == <<send_buffer, msg_sent, then, plain>>
recvvars == <<recv_buffer, recv_buffer_pos, pt_pending, ct_pending, length>>
wire == <<up, down>>
bounds == <<failures, requests, records>>
data == <<sent, arrived, served, got>>
session == <<trust, sec_ctx, cert, server>>
vars == <<pc, session, wire, hsvars, sendvars, recvvars, bounds, data>>
-----------------------------------------------------------------------------
(* The bytes. *)

Byte(kind, peer, v) == [kind |-> kind, peer |-> peer, v |-> v]
Unit(kind, peer, values) ==
    <<Byte(kind, peer, Len(values))>> \o [i \in DOMAIN values |-> Byte("data", peer, values[i])]
Values(bytes) == [i \in DOMAIN bytes |-> bytes[i].v]
Record(peer, values) == Unit("record", peer, values \o <<0>>) \* header, data, trailer
Complete(bytes) == bytes # <<>> /\ Len(bytes) > bytes[1].v
Behind(bytes) == SubSeq(bytes, bytes[1].v + 2, Len(bytes)) \* what follows the first unit
Body(bytes) == SubSeq(bytes, 2, bytes[1].v) \* the data of a complete record
Numbers(from, n) == [i \in 1 .. n |-> from + i]

Tokens == 3 \* of the server: two in its first flight, the last in its second
Token(peer, n) == Unit("token", peer, <<n>>)
Flight(peer, n) ==
    IF n = 1 THEN Token(peer, 1) \o Token(peer, 2) ELSE Token(peer, 3)

BufferLength == 1 + MaxMessage + 1 \* cbHeader + cbMaximumMessage + cbTrailer
Blank == Byte("blank", 0, 0)
Written(buffer, bytes, at) ==
    [i \in DOMAIN buffer |->
        IF i - at \in DOMAIN bytes THEN bytes[i - at] ELSE buffer[i]]
Nothing == [at |-> 0, length |-> 0, pos |-> 0] \* a NULL pointer
-----------------------------------------------------------------------------
(* The security context and the verification of the server. *)

\* secure_schannel_load_certs: the certificates among the PEM blocks, the
\* self-signed ones as roots; nothing if one of the blocks cannot be read.
SelfSigned == {"root"}
NoContext == [null |-> TRUE, roots |-> {}]
LoadCerts(certs) ==
    IF "malformed" \in Range(certs) THEN NoContext
    ELSE [null |-> FALSE, roots |-> Range(certs) \cap SelfSigned]

\* BoltSecurityContext_create: without certificates, the roots of the system.
SecurityContext(t) ==
    IF t.certs = <<>> THEN [null |-> FALSE, roots |-> {"system"}] ELSE LoadCerts(t.certs)

\* CertVerifyCertificateChainPolicy reports one error per call.
PolicyError(ctx, c, nameOnly) ==
    IF c.issuer \notin ctx.roots /\ ~nameOnly THEN "untrusted"
    ELSE IF ~c.named THEN "mismatch" ELSE "none"

\* Mutant: skipping the one check clears the failure of the other.
VerifyChain_Clears(ctx, c, t) ==
    IF c.issuer \in ctx.roots THEN c.named \/ t.skip_verify_hostname ELSE t.skip_verify

\* secure_schannel_verify_chain: if the error is not a mismatch of the name,
\* the policy is asked again for that alone.
VerifyChain(ctx, c, t) ==
    LET first == PolicyError(ctx, c, FALSE)
        stored == first \notin {"none", "mismatch"}
        last == IF stored THEN PolicyError(ctx, c, TRUE) ELSE first
    IN  /\ last = "mismatch" => t.skip_verify_hostname
        /\ stored => t.skip_verify
-----------------------------------------------------------------------------
Unseen == [issuer |-> "none", named |-> FALSE] \* no certificate

Init ==
    /\ pc = "opening" /\ server = 0
    /\ trust \in Trusts /\ sec_ctx = NoContext /\ cert = Unseen
    /\ up = <<>> /\ down = <<>>
    /\ hs_buffer = <<>> /\ status = "none" /\ accepted = 0
    /\ send_buffer = <<>> /\ msg_sent = 0 /\ then = "none" /\ plain = <<>>
    /\ recv_buffer = <<>> /\ recv_buffer_pos = 0 /\ length = 0
    /\ pt_pending = Nothing /\ ct_pending = Nothing
    /\ failures = 0 /\ requests = 0 /\ records = 0
    /\ sent = <<>> /\ arrived = <<>> /\ served = <<>> /\ got = <<>>

\* A call fails: while opening, the next address is tried; afterwards the
\* connection is defunct, and its owner can only close it.  recv_buffer is
\* allocated at the end of an open that succeeds.
FailedPc ==
    IF then = "closed" THEN "closed" ELSE IF recv_buffer = <<>> THEN "opening" ELSE "defunct"
Fail ==
    /\ failures < MaxFailures
    /\ failures' = failures + 1
    /\ pc' = FailedPc
    /\ UNCHANGED <<session, wire, hsvars, sendvars, recvvars, requests, records, data>>

\* BoltCommunication_open, _open and the first half of secure_schannel_open:
\* the socket, the security context and the first token of the handshake.
Connect ==
    /\ pc = "opening" /\ server < Servers
    /\ server' = server + 1
    /\ up' = <<>> /\ down' = <<>>
    /\ accepted' = 0 /\ status' = "continue"
    /\ served' = <<>> \* to the server before, in a session that failed
    /\ UNCHANGED <<trust, cert, hs_buffer, plain, recvvars, requests, records, sent, arrived, got>>
    /\ \/ \* the plain socket does not open
          /\ failures < MaxFailures
          /\ failures' = failures + 1
          /\ UNCHANGED <<pc, sec_ctx, send_buffer, msg_sent, then>>
       \/ /\ sec_ctx' = IF sec_ctx.null THEN SecurityContext(trust) ELSE sec_ctx
          /\ UNCHANGED failures
          /\ \/ \* BoltSecurityContext_create has returned NULL, which is not checked
                sec_ctx'.null /\ pc' = "crashed" /\ UNCHANGED <<send_buffer, msg_sent, then>>
             \/ /\ ~sec_ctx'.null
                /\ pc' = "sending" /\ then' = "handshake"
                /\ send_buffer' = Token(server', 0) /\ msg_sent' = 0

OpenFails ==
    /\ pc = "opening" /\ server = Servers
    /\ pc' = "defunct"
    /\ UNCHANGED <<session, wire, hsvars, sendvars, recvvars, bounds, data>>

\* One call of the plain send, in any of the four loops that send bytes.
SendSomeFrom(offset) ==
    /\ pc = "sending"
    /\ \E n \in 1 .. Len(send_buffer) - msg_sent :
        /\ up' = up \o SubSeq(send_buffer, offset + 1, offset + n)
        /\ IF msg_sent + n < Len(send_buffer)
           THEN msg_sent' = msg_sent + n /\ UNCHANGED <<pc, send_buffer, then>>
           ELSE pc' = then /\ then' = "none" /\ send_buffer' = <<>> /\ msg_sent' = 0
    /\ UNCHANGED <<session, down, hsvars, plain, recvvars, bounds, data>>
SendSome_FromStart == SendSomeFrom(0) \* mutant: what is left of a unit is sent from its beginning
SendSome == SendSomeFrom(msg_sent)

SendFails == pc = "sending" /\ Fail
-----------------------------------------------------------------------------
(* secure_schannel_handshake_loop. *)

\* Bytes are read when hs_buffer is empty or does not hold a whole token.  To
\* receive no bytes, because hs_buffer is full, succeeds at once.
HandshakeReads == hs_buffer = <<>> \/ status = "incomplete"
HandshakeRoom == HandshakeLength - Len(hs_buffer)
HandshakeRead ==
    /\ pc = "handshake" /\ HandshakeReads
    /\ \E n \in IF HandshakeRoom = 0 THEN {0} ELSE 1 .. Min({Len(down), HandshakeRoom}) :
        /\ hs_buffer' = hs_buffer \o SubSeq(down, 1, n)
        /\ down' = SubSeq(down, n + 1, Len(down))
    /\ pc' = "token"
    /\ UNCHANGED <<session, up, status, accepted, sendvars, recvvars, bounds, data>>

HandshakeReadFails == pc = "handshake" /\ HandshakeReads /\ Fail

HandshakeKeeps ==
    /\ pc = "handshake" /\ ~HandshakeReads
    /\ pc' = "token"
    /\ UNCHANGED <<session, wire, hsvars, sendvars, recvvars, bounds, data>>

\* InitializeSecurityContext takes the next token of this handshake.
Expected == Token(server, accepted + 1)
IsExpected == hs_buffer # <<>> /\ Complete(hs_buffer) /\ IsPrefix(Expected, hs_buffer)

TokenFails == pc = "token" /\ Fail \* client authentication is asked for, or an error

TokenIncomplete ==
    /\ pc = "token" /\ IsStrictPrefix(hs_buffer, Expected)
    /\ status' = "incomplete" /\ pc' = "handshake"
    /\ UNCHANGED <<session, wire, hs_buffer, accepted, sendvars, recvvars, bounds, data>>

\* Any other bytes are refused; the attempt fails, after an alert is sent to
\* the server if the library has made one.
TokenRefused ==
    /\ pc = "token" /\ ~IsExpected /\ ~IsStrictPrefix(hs_buffer, Expected)
    /\ status' = "failed"
    /\ \/ pc' = FailedPc /\ UNCHANGED <<send_buffer, msg_sent, then>>
       \/ /\ pc' = "sending" /\ then' = FailedPc
          /\ send_buffer' = Unit("alert", server, <<>>) /\ msg_sent' = 0
    /\ UNCHANGED <<session, wire, hs_buffer, accepted, plain, recvvars, bounds, data>>

TokenContinue ==
    /\ pc = "token" /\ IsExpected /\ accepted + 1 < Tokens
    /\ accepted' = accepted + 1 /\ status' = "continue"
    /\ hs_buffer' = Behind(hs_buffer)
    /\ IF accepted' = 2 \* the end of the server's first flight is answered
       THEN /\ pc' = "sending" /\ then' = "handshake"
            /\ send_buffer' = Token(server, 1) /\ msg_sent' = 0
       ELSE pc' = "handshake" /\ UNCHANGED <<send_buffer, msg_sent, then>>
    /\ UNCHANGED <<session, wire, plain, recvvars, bounds, data>>

\* The handshake is over.  Bytes behind the last token go to recv_buffer,
\* which is not allocated yet.
TokenLast ==
    /\ pc = "token" /\ IsExpected /\ accepted + 1 = Tokens
    /\ accepted' = accepted + 1 /\ status' = "ok"
    /\ pc' = IF Behind(hs_buffer) = <<>> THEN "verify" ELSE "crashed"
    /\ UNCHANGED <<session, wire, hs_buffer, sendvars, recvvars, bounds, data>>

Verify ==
    /\ pc = "verify"
    /\ \E c \in Certs :
          IF VerifyChain(sec_ctx, c, trust)
          THEN pc' = "sizes" /\ cert' = c
          ELSE pc' = "opening" /\ UNCHANGED cert
    /\ UNCHANGED <<trust, sec_ctx, server, wire, hsvars, sendvars, recvvars, bounds, data>>

\* The second half of secure_schannel_open: the buffers of the record layer.
StreamSizes ==
    /\ pc = "sizes"
    /\ pc' = "ready" /\ cert' = Unseen
    /\ recv_buffer' = [i \in 1 .. BufferLength |-> Blank] /\ recv_buffer_pos' = 0
    /\ UNCHANGED <<trust, sec_ctx, server, wire, hsvars, sendvars, pt_pending, ct_pending, length, bounds,
                   data>>

OpenBreaks == pc \in {"verify", "sizes"} /\ Fail
-----------------------------------------------------------------------------
(* secure_schannel_send. *)

SendCall ==
    /\ pc = "ready"
    /\ \E n \in SendSizes :
        /\ Len(sent) + n <= MaxSent
        /\ plain' = Numbers(Len(sent), n)
        /\ sent' = sent \o plain'
    /\ pc' = "encrypt"
    /\ UNCHANGED <<session, wire, hsvars, send_buffer, msg_sent, then, recvvars, bounds,
                   arrived, served, got>>

CurrentLength == IF Len(plain) < MaxMessage THEN Len(plain) ELSE MaxMessage

Encrypt ==
    /\ pc = "encrypt"
    /\ LET current == CurrentLength
       IN  /\ send_buffer' = Record(server, SubSeq(plain, 1, current))
           /\ plain' = SubSeq(plain, current + 1, Len(plain))
    /\ msg_sent' = 0
    /\ then' = IF plain' = <<>> THEN "ready" ELSE "encrypt"
    /\ pc' = "sending"
    /\ UNCHANGED <<session, wire, hsvars, recvvars, bounds, data>>

EncryptFails == pc = "encrypt" /\ Fail
-----------------------------------------------------------------------------
(* secure_schannel_recv. *)

\* Plain text that is pending is handed out without looking at the socket.
Rest == pt_pending.length - pt_pending.pos
RecvPending ==
    /\ pc = "ready" /\ pt_pending # Nothing
    /\ \E n \in RecvSizes :
        LET copied == Min({n, Rest})
            from == pt_pending.at + pt_pending.pos
        IN  /\ got' = got \o Values(SubSeq(recv_buffer, from, from + copied - 1))
            /\ pt_pending' =
                  IF copied = Rest THEN Nothing ELSE [pt_pending EXCEPT !.pos = @ + copied]
    /\ UNCHANGED <<pc, session, wire, hsvars, sendvars, recv_buffer, recv_buffer_pos, ct_pending,
                   length, bounds, sent, arrived, served>>

\* Otherwise pending cipher text is moved to the front of recv_buffer.
RecvCallWhen(guard) ==
    /\ pc = "ready" /\ guard
    /\ length' \in RecvSizes
    /\ IF ct_pending.length > 0
       THEN /\ recv_buffer' =
                  Written(recv_buffer,
                          SubSeq(recv_buffer, ct_pending.at, ct_pending.at + ct_pending.length - 1), 0)
            /\ recv_buffer_pos' = ct_pending.length
            /\ ct_pending' = Nothing
       ELSE UNCHANGED <<recv_buffer, recv_buffer_pos, ct_pending>>
    /\ status' = "ok" /\ pc' = "recv"
    /\ UNCHANGED <<session, wire, hs_buffer, accepted, sendvars, pt_pending, bounds, data>>
RecvCall_Anyway == RecvCallWhen(TRUE) \* mutant: although plain text is pending
RecvCall == RecvCallWhen(pt_pending = Nothing)

RecvReads_Always == TRUE \* mutant: the cipher text that is there is not tried first
RecvReads == recv_buffer_pos = 0 \/ status = "incomplete"

RecvSome ==
    /\ pc = "recv" /\ RecvReads /\ down # <<>>
    /\ \E n \in 1 .. Min({Len(down), BufferLength - recv_buffer_pos}) :
        /\ recv_buffer' = Written(recv_buffer, SubSeq(down, 1, n), recv_buffer_pos)
        /\ recv_buffer_pos' = recv_buffer_pos + n
        /\ down' = SubSeq(down, n + 1, Len(down))
    /\ pc' = "decrypt"
    /\ UNCHANGED <<session, up, hsvars, sendvars, pt_pending, ct_pending, length, bounds, data>>

RecvFails == pc = "recv" /\ RecvReads /\ Fail

RecvKeeps ==
    /\ pc = "recv" /\ ~RecvReads
    /\ pc' = "decrypt"
    /\ UNCHANGED <<session, wire, hsvars, sendvars, recvvars, bounds, data>>

Received == SubSeq(recv_buffer, 1, recv_buffer_pos)

DecryptFails == pc = "decrypt" /\ Fail

DecryptIncomplete ==
    /\ pc = "decrypt" /\ ~Complete(Received)
    /\ status' = "incomplete" /\ pc' = "recv"
    /\ UNCHANGED <<session, wire, hs_buffer, accepted, sendvars, recvvars, bounds, data>>

\* What follows the unit that was decrypted becomes pending cipher text.
ExtraAt(index) ==
    ct_pending' = IF Behind(Received) = <<>> THEN ct_pending
                  ELSE [at |-> index, length |-> Len(Behind(Received)), pos |-> 0]
ExtraPending_OffByOne == ExtraAt(Received[1].v + 3) \* mutant
ExtraPending == ExtraAt(Received[1].v + 2)

DecryptData ==
    /\ pc = "decrypt" /\ Complete(Received) /\ Received[1].kind = "record"
    /\ LET text == Values(Body(Received))
           copied == Min({length, Len(text)})
       IN  /\ got' = got \o SubSeq(text, 1, copied)
           /\ pt_pending' = IF copied < Len(text)
                            THEN [at |-> 2, length |-> Len(text), pos |-> copied]
                            ELSE Nothing
    /\ ExtraPending
    /\ recv_buffer_pos' = 0 /\ length' = 0 /\ status' = "ok" /\ pc' = "ready"
    /\ UNCHANGED <<session, wire, hs_buffer, accepted, sendvars, recv_buffer, bounds, sent,
                   arrived, served>>

\* The server asks for a new handshake: secure_schannel_handshake_loop again,
\* without an initial read, on the hs_buffer of the last one.
DecryptRenegotiate ==
    /\ pc = "decrypt" /\ Complete(Received) /\ Received[1].kind = "request"
    /\ ExtraPending
    /\ accepted' = 0 /\ status' = "continue"
    /\ pc' = "token"
    /\ UNCHANGED <<session, wire, hs_buffer, sendvars, recv_buffer, recv_buffer_pos, pt_pending,
                   length, bounds, data>>

\* SEC_I_CONTEXT_EXPIRED: the server has closed the session.
DecryptExpired ==
    /\ pc = "decrypt" /\ Complete(Received) /\ Received[1].kind = "alert"
    /\ pc' = "defunct" /\ status' = "expired"
    /\ UNCHANGED <<session, wire, hs_buffer, accepted, sendvars, recvvars, bounds, data>>
-----------------------------------------------------------------------------
(* secure_schannel_close: a shutdown token if there is a session; what that *)
(* returns is ignored.                                                      *)

Close ==
    /\ pc \in {"ready", "defunct"}
    /\ recv_buffer' = <<>> /\ recv_buffer_pos' = 0
    /\ pt_pending' = Nothing /\ ct_pending' = Nothing
    /\ then' = "closed"
    /\ \/ /\ pc' = "closed"
          /\ UNCHANGED <<send_buffer, msg_sent>>
       \/ /\ pc' = "sending"
          /\ send_buffer' = Unit("alert", server, <<>>) /\ msg_sent' = 0
    /\ sec_ctx' = NoContext \* the communication owns it
    /\ UNCHANGED <<trust, cert, server, wire, hsvars, plain, length, bounds, data>>

\* secure_schannel_destroy, after the close: only now hs_buffer is freed.
Destroy ==
    /\ pc = "closed"
    /\ pc' = "destroyed" /\ hs_buffer' = <<>>
    /\ UNCHANGED <<session, wire, status, accepted, sendvars, recvvars, bounds, data>>
-----------------------------------------------------------------------------
(* The server. *)

server_keeps == <<pc, session, hsvars, sendvars, recvvars, failures>>

ServerReads ==
    /\ Complete(up)
    /\ up' = Behind(up)
    /\ \/ /\ up[1].kind = "token"
          /\ \E early \in IF up[2].v = 0 THEN {0} ELSE Early :
               LET answer == Flight(server, up[2].v + 1)
                   text == Numbers(Len(served), early)
               IN  /\ down' = IF early = 0 THEN down \o answer
                              ELSE down \o answer \o Record(server, text)
                   /\ served' = served \o text
          /\ UNCHANGED arrived
       \/ /\ up[1].kind = "record"
          /\ arrived' = arrived \o Values(Body(up))
          /\ UNCHANGED <<down, served>>
       \/ /\ up[1].kind = "alert"
          /\ UNCHANGED <<down, arrived, served>>
    /\ UNCHANGED <<server_keeps, requests, records, sent, got>>

Established == recv_buffer # <<>>
\* Records of any size up to the largest, empty ones too.
ServerSends ==
    /\ Established /\ records < MaxRecords
    /\ \E n \in 0 .. MaxMessage :
        /\ Len(served) + n <= MaxServed
        /\ served' = served \o Numbers(Len(served), n)
        /\ down' = down \o Record(server, Numbers(Len(served), n))
    /\ records' = records + 1
    /\ UNCHANGED <<server_keeps, up, requests, sent, arrived, got>>

ServerRequests ==
    /\ Established /\ requests < Renegotiations
    /\ requests' = requests + 1
    /\ down' = down \o Unit("request", server, <<>>)
    /\ UNCHANGED <<server_keeps, up, records, data>>

ServerCloses ==
    /\ Established /\ records < MaxRecords
    /\ records' = MaxRecords \* nothing follows
    /\ down' = down \o Unit("alert", server, <<>>)
    /\ UNCHANGED <<server_keeps, up, requests, data>>
-----------------------------------------------------------------------------

Client ==
    \/ Connect \/ OpenFails \/ SendSome
    \/ HandshakeRead \/ HandshakeKeeps
    \/ TokenIncomplete \/ TokenRefused \/ TokenContinue \/ TokenLast \/ Verify \/ StreamSizes
    \/ Encrypt
    \/ RecvSome \/ RecvKeeps
    \/ DecryptIncomplete \/ DecryptData \/ DecryptRenegotiate \/ DecryptExpired
Caller == SendCall \/ RecvPending \/ RecvCall \/ Close \/ Destroy
Failures ==
    \/ SendFails \/ HandshakeReadFails \/ TokenFails \/ OpenBreaks
    \/ EncryptFails \/ RecvFails \/ DecryptFails
Server == ServerReads \/ ServerSends \/ ServerRequests \/ ServerCloses

Next == Client \/ Caller \/ Failures \/ Server

Spec == Init /\ [][Next]_vars

\* The thread runs, the socket delivers, the server reads, and the caller
\* goes on receiving.
FairSpec ==
    /\ Spec
    /\ WF_vars(Client) /\ WF_vars(ServerReads) /\ WF_vars(RecvPending \/ RecvCall)
-----------------------------------------------------------------------------
(* Properties. *)

\* A token that is not whole is completed with bytes of the server ("then we
\* need to read more data from the server and try again",
\* communication-secure-schannel.c:1399): there is room for them in hs_buffer.
\* If not, the receive returns no bytes and no error for ever.
ReadsMore == pc = "handshake" /\ HandshakeReads => HandshakeRoom > 0

\* Every token fits into hs_buffer.
TokensFit == HandshakeLength >= 2

\* The buffers hold what their lengths say, the pointers lie inside them,
\* and a plain receive never has an empty space to write to, if hs_buffer can
\* hold a token.
TypeOK ==
    /\ pc \in {"opening", "sending", "handshake", "token", "verify", "sizes", "ready", "encrypt",
               "recv", "decrypt", "defunct", "closed", "destroyed", "crashed"}
    /\ server \in 0 .. Servers /\ accepted \in 0 .. Tokens
    /\ msg_sent \in 0 .. Len(send_buffer)
    /\ recv_buffer # <<>> => Len(recv_buffer) = BufferLength
    /\ recv_buffer_pos \in 0 .. Len(recv_buffer)
    /\ pt_pending.pos \in 0 .. pt_pending.length
    /\ \A p \in {pt_pending, ct_pending} :
          p # Nothing => p.at \in 1 .. Len(recv_buffer) /\ p.at + p.length - 1 \in p.at .. Len(recv_buffer)
    /\ pc = "recv" /\ RecvReads => recv_buffer_pos < BufferLength
    /\ Len(hs_buffer) <= HandshakeLength
    /\ TokensFit => ReadsMore

\* What secure_schannel_recv hands out is what the server has sent, in its
\* order: neither the pending plain text, nor the pending cipher text, nor
\* the bytes of an incomplete record overwrite each other in recv_buffer.
AnswersInOrder == IsPrefix(got, served)

\* What the server gets is what secure_schannel_send was called with, in its
\* order, however the records are cut and however much one plain send takes.
RequestsInOrder == IsPrefix(arrived, sent)

\* A session is used only with a server whose chain is trusted and whose name
\* matches, or where the settings say to skip exactly that check; asking the
\* policy twice does not let one setting excuse the other fault.
VerifiedPeer ==
    pc = "sizes" =>
        /\ \/ cert.issuer \in (IF trust.certs = <<>> THEN {"system"} ELSE Range(trust.certs) \cap SelfSigned)
           \/ trust.skip_verify
        /\ cert.named \/ trust.skip_verify_hostname

\* The handshake is fed with bytes of the server it is held with, the ones it
\* expects next ("Buffer 0 is used to pass in data received from the server",
\* communication-secure-schannel.c:1343).
HandshakeFed ==
    pc = "token" => Len(hs_buffer) > 0 /\ hs_buffer[1] = Expected[1]

\* Every byte the server sends reaches a caller that goes on receiving,
\* unless the connection is lost or closed: the thread never waits for the
\* socket while it holds what was asked for.
Delivered ==
    \A n \in 1 .. MaxServed :
        Established /\ Len(served) >= n ~> Len(got) >= n \/ pc \in {"defunct", "closed", "destroyed", "crashed"}
=============================================================================
