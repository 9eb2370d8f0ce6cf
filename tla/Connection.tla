---------------------------- MODULE Connection ----------------------------
(***************************************************************************)
(* A Bolt connection of version 3 (connection.c, v3.c) between the direct  *)
(* pool that owns it, the one application thread that has it on loan, and  *)
(* a server.  Requests are pipelined: they are numbered when loaded, sent  *)
(* together and answered later in order; BoltConnection_fetch skips the    *)
(* answers to earlier requests.  A release resets the connection, so that  *)
(* the next borrower finds it as if new.                                   *)
(*                                                                         *)
(* Bytes are abstracted to messages.  When a receive fails, the space it   *)
(* had reserved in rx_buffer still counts as received: these bytes are     *)
(* undefined.  They may read as whole messages, of any type when they are  *)
(* left of earlier ones and empty when they are zeros, and then either     *)
(* end with a message or in a chunk that swallows all that follows.        *)
(***************************************************************************)
EXTENDS Integers, Sequences

CONSTANTS MaxRequests,   \* bound: requests between open and close, HELLO included
          MaxOpens,      \* bound: times that the connection is opened
          MaxTimeouts,   \* bound: receive timeouts
          MaxStale       \* bound: messages that undefined bytes read as

ASSUME BoundAssumption ==
    /\ MaxRequests \in Nat /\ MaxRequests >= 2   \* HELLO, and the RESET of a release
    /\ MaxOpens \in Nat /\ MaxTimeouts \in Nat /\ MaxStale \in Nat

States == {"DISCONNECTED", "CONNECTED", "READY", "FAILED", "DEFUNCT"}
Summaries == {"SUCCESS", "FAILURE", "IGNORED"}
Types == Summaries \union {"RECORD", "UNKNOWN"}
Work == {"RUN", "PULL"}   \* RUN stands for BEGIN, COMMIT, ROLLBACK and DISCARD as well
NoRequest == -1

VARIABLES state,       \* connection->status->state
          tx,          \* connection->tx_buffer: requests loaded and not sent
          next_id,     \* next_request_id
          answered,    \* response_counter
          failure,     \* failure_data # NULL
          data_type,   \* type of the message unloaded last
          rx,          \* "sound"; "stale" or "stuck" when a receive has failed
          stale,       \* what undefined bytes in rx_buffer read as, then
          call,        \* "pooled", "using", or the call that is fetching
          request,     \* the request that is fetched
          matched,     \* what the last fetch returned answers its request
          toServer,    \* requests on their way
          toClient,    \* answers on their way, with the request they answer
          server,      \* "ready" or "failed": what the server is
          link,        \* "up" or "down"
          opens, timeouts

protocolVars == <<next_id, answered, failure, data_type>>
bufferVars == <<tx, rx, stale>>
callVars == <<call, request, matched>>
peerVars == <<toServer, toClient, server, link>>
counters == <<opens, timeouts>>
vars == <<state, protocolVars, bufferVars, callVars, peerVars, counters>>

Fetching == call \in {"fetch", "summary", "hello", "reset"}

Init ==
    /\ state = "DISCONNECTED"
    /\ tx = << >> /\ rx = "sound" /\ stale = << >>
    /\ next_id = 0 /\ answered = 0 /\ failure = FALSE /\ data_type = "RECORD"
    /\ call = "pooled" /\ request = NoRequest /\ matched = TRUE
    /\ toServer = << >> /\ toClient = << >> /\ server = "ready" /\ link = "down"
    /\ opens = 0 /\ timeouts = 0

-----------------------------------------------------------------------------
(* Loading and sending *)

(* Mutant: the request is not counted. *)
NextId_Missed == next_id

(* BoltProtocolV3_load_message numbers the request. *)
NextId == next_id + 1

Loaded(kind) == Append(tx, [id |-> next_id, kind |-> kind])

(* BoltConnection_send: everything loaded leaves tx_buffer, and a link that *)
(* is down may or may not be noticed.                                      *)
Transmit(requests) ==
    /\ tx' = << >>
    /\ \/ /\ link = "up"
          /\ toServer' = toServer \o requests
          /\ UNCHANGED state
       \/ /\ link = "down"
          /\ toServer' = toServer
          /\ state' \in {state, "DEFUNCT"}

(* The application goes on only while no call has failed. *)
Usable == call = "using" /\ state \in {"READY", "FAILED"}

(* BoltConnection_load_run_request and the like *)
Load(kind) ==
    /\ Usable
    /\ next_id < MaxRequests - 1   \* the last request is the pool's RESET
    /\ tx' = Loaded(kind)
    /\ next_id' = NextId
    /\ UNCHANGED <<state, answered, failure, data_type, rx, stale, callVars, peerVars, counters>>

(* A setter or a load is refused, a structure in a parameter for example:   *)
(* tx_buffer is as it was before, and TRY makes the connection DEFUNCT.    *)
LoadFails ==
    /\ Usable
    /\ state' = "DEFUNCT"
    /\ UNCHANGED <<protocolVars, bufferVars, callVars, peerVars, counters>>

(* BoltConnection_load_reset_request by the application *)
LoadReset ==
    /\ Usable
    /\ next_id < MaxRequests - 1
    /\ tx' = Loaded("RESET")
    /\ next_id' = NextId
    /\ failure' = FALSE
    /\ UNCHANGED <<state, answered, data_type, rx, stale, callVars, peerVars, counters>>

Send ==
    /\ Usable
    /\ tx # << >>
    /\ Transmit(tx)
    /\ UNCHANGED <<protocolVars, rx, stale, callVars, toClient, server, link, counters>>

-----------------------------------------------------------------------------
(* Fetching *)

Awaited == {r \in answered..(next_id - 1) : \A i \in DOMAIN tx : tx[i].id # r}

(* BoltConnection_fetch or BoltConnection_fetch_summary is called for a    *)
(* request that was sent and is not answered, as its comment demands.      *)
Fetch(kind) ==
    /\ Usable
    /\ request' \in Awaited
    /\ call' = kind
    /\ UNCHANGED <<state, protocolVars, bufferVars, matched, peerVars, counters>>

(* Mutant: only a successful answer is counted. *)
Counts_Successes(type) == type = "SUCCESS"

(* The answer to a request ends with the message of this type. *)
Counts(type) == type # "RECORD"

(* Mutant: an ignored request leaves the state alone. *)
StateAfter_IgnoredLeft(type, failed) ==
    CASE type = "SUCCESS" -> "READY"
      [] type = "FAILURE" -> "FAILED"
      [] OTHER -> state

(* The state that BoltConnection_fetch sets for a summary. *)
StateAfter(type, failed) ==
    CASE type = "SUCCESS" -> "READY"
      [] type = "FAILURE" \/ (type = "IGNORED" /\ failed) -> "FAILED"
      [] type = "UNKNOWN" -> "DEFUNCT"
      [] OTHER -> state

(* Mutant: what a failed receive left stays in rx_buffer. *)
FreshBuffers_StaleKept == tx' = << >> /\ rx' = "sound" /\ UNCHANGED stale

(* Closing destroys rx_buffer and tx_buffer, opening creates them. *)
FreshBuffers == tx' = << >> /\ rx' = "sound" /\ stale' = << >>

(* BoltConnection_close, with the GOODBYE that nobody waits for *)
Closed ==
    /\ state' = "DISCONNECTED"
    /\ FreshBuffers
    /\ next_id' = 0 /\ answered' = 0 /\ failure' = FALSE /\ data_type' = "RECORD"
    /\ call' = "pooled" /\ request' = NoRequest /\ matched' = TRUE
    /\ toServer' = << >> /\ toClient' = << >> /\ server' = "ready" /\ link' = "down"

(* reset of direct-pool.c asks for BoltConnection_summary_success. *)
ResetDone(type) == type = "SUCCESS"

(* The loop of BoltProtocolV3_fetch ends with this message for `request',  *)
(* and its caller goes on.                                                 *)
Finish(type, failed) ==
    IF type = "RECORD"
    THEN /\ call' = IF call = "fetch" THEN "using" ELSE call
         /\ UNCHANGED state
    ELSE CASE call \in {"fetch", "summary"} -> call' = "using" /\ state' = StateAfter(type, failed)
           [] call = "hello" /\ type = "SUCCESS" -> call' = "using" /\ state' = "READY"
           [] call = "hello" /\ type # "SUCCESS" -> call' = "pooled" /\ state' = "DEFUNCT"
           [] call = "reset" -> call' = "pooled" /\ state' = StateAfter(type, failed)

(* BoltProtocolV3_extract_metadata keeps the code and message of a failure. *)
FailureAfter(type) == failure \/ type = "FAILURE"

(* The next message in rx_buffer.  Undefined bytes come first; an empty     *)
(* message leaves data_type as it was and counts as if it were of that type. *)
HasMessage == stale # << >> \/ (rx # "stuck" /\ toClient # << >>)
Message ==
    IF stale = << >> THEN Head(toClient)
    ELSE [id |-> NoRequest, type |-> IF Head(stale) = "EMPTY" THEN data_type ELSE Head(stale)]
TakeMessage ==
    IF stale = << >>
    THEN toClient' = Tail(toClient) /\ UNCHANGED stale
    ELSE stale' = Tail(stale) /\ UNCHANGED toClient

(* reset_or_close closes the connection when the RESET was not successful. *)
ResetFails(type) == call = "reset" /\ answered = request /\ Counts(type) /\ ~ResetDone(type)

(* A message is received and unloaded; the fetch goes on to the next, or   *)
(* ends if this one is for its request.                                    *)
Receive ==
    LET type == Message.type
        failed == FailureAfter(type)
        through == answered = request IN
    /\ Fetching /\ HasMessage /\ ~ResetFails(type)
    /\ TakeMessage
    /\ data_type' = type
    /\ answered' = IF Counts(type) THEN answered + 1 ELSE answered
    /\ failure' = failed
    /\ matched' = (through => Message.id = request)
    /\ IF through
       THEN /\ Finish(type, failed)
            /\ request' = IF call' = call THEN request ELSE NoRequest
       ELSE UNCHANGED <<state, call, request>>
    /\ UNCHANGED <<tx, rx, next_id, toServer, server, link, counters>>

ReceiveFailedReset ==
    /\ Fetching /\ HasMessage /\ ResetFails(Message.type)
    /\ Closed
    /\ UNCHANGED counters

(* What undefined bytes may read as *)
Garbage == UNION {[1..n -> Types \union {"EMPTY"}] : n \in 0..MaxStale}

(* A receive fails: DEFUNCT.  Initialising gives up, a reset closes the    *)
(* connection, and the application is told.                                *)
Fails ==
    IF call = "reset"
    THEN Closed
    ELSE /\ state' = "DEFUNCT"
         /\ call' = IF call = "hello" THEN "pooled" ELSE "using"
         /\ request' = NoRequest
         /\ stale' \in Garbage
         /\ rx' \in IF stale' = << >> THEN {"stuck"} ELSE {"stale", "stuck"}
         /\ UNCHANGED <<tx, protocolVars, matched, peerVars>>

ReceiveBroken ==
    /\ Fetching /\ ~HasMessage
    /\ link = "down"
    /\ Fails
    /\ UNCHANGED counters

(* The answer does not come within the receive timeout; or the chunk that  *)
(* undefined bytes announce does not.                                      *)
ReceiveTimesOut ==
    /\ Fetching /\ ~HasMessage
    /\ link = "up" /\ (rx = "stuck" \/ timeouts < MaxTimeouts)
    /\ timeouts' = IF rx = "stuck" THEN timeouts ELSE timeouts + 1
    /\ Fails
    /\ UNCHANGED opens

-----------------------------------------------------------------------------
(* The direct pool *)

(* BoltDirectPool_acquire hands out a READY connection as it is ... *)
Lend ==
    /\ call = "pooled" /\ state = "READY"
    /\ next_id < MaxRequests
    /\ call' = "using"
    /\ UNCHANGED <<state, protocolVars, bufferVars, request, matched, peerVars, counters>>

(* ... and closes it when it is past its life time. *)
Retire ==
    /\ call = "pooled" /\ state = "READY"
    /\ Closed
    /\ UNCHANGED counters

(* It opens a DISCONNECTED or DEFUNCT one: connect, handshake, HELLO. *)
Open ==
    /\ call = "pooled" /\ state \in {"DISCONNECTED", "DEFUNCT"}
    /\ opens < MaxOpens
    /\ opens' = opens + 1
    /\ state' = "CONNECTED"
    /\ FreshBuffers
    /\ next_id' = 1 /\ answered' = 0 /\ failure' = FALSE /\ data_type' = "RECORD"
    /\ call' = "hello" /\ request' = 0
    /\ toServer' = <<[id |-> 0, kind |-> "HELLO"]>>
    /\ toClient' = << >> /\ server' = "ready" /\ link' = "up"
    /\ matched' = TRUE
    /\ UNCHANGED timeouts

(* Connecting or the handshake fails, or the version is not supported. *)
OpenFails ==
    /\ call = "pooled" /\ state \in {"DISCONNECTED", "DEFUNCT"}
    /\ state' = "DEFUNCT"
    /\ FreshBuffers
    /\ next_id' = 0 /\ answered' = 0 /\ failure' = FALSE /\ data_type' = "RECORD"
    /\ toServer' = << >> /\ toClient' = << >> /\ server' = "ready" /\ link' = "down"
    /\ matched' = TRUE
    /\ UNCHANGED <<call, request, counters>>

(* Mutant: the request before the RESET is fetched. *)
LastRequest_Before == next_id' - 2

(* BoltConnection_last_request *)
LastRequest == next_id' - 1

(* BoltDirectPool_release, whatever was left loaded, sent or unread: load  *)
(* a RESET, send, and fetch its summary.  A send that fails returns a      *)
(* positive number and does not stop it.                                   *)
Release ==
    /\ call = "using"
    /\ Transmit(Loaded("RESET"))
    /\ next_id' = NextId
    /\ failure' = FALSE
    /\ call' = "reset" /\ request' = LastRequest
    /\ UNCHANGED <<answered, data_type, rx, stale, matched, toClient, server, link, counters>>

-----------------------------------------------------------------------------
(* The server and the network *)

Answers(id, records, summary) ==
    toClient \o [i \in 1..(records + 1) |->
                    [id |-> id, type |-> IF i <= records THEN "RECORD" ELSE summary]]

Interrupted == \E i \in 2..Len(toServer) : toServer[i].kind = "RESET"

(* The server answers its next request.  After a failure it ignores all    *)
(* requests up to a RESET, and a RESET in sight interrupts what is before  *)
(* it.  Refusing HELLO or RESET it hangs up.                               *)
Serve ==
    /\ link = "up" /\ toServer # << >>
    /\ LET r == Head(toServer) IN
        \E records \in 0..1, summary \in Summaries :
           /\ records = 1 => r.kind = "PULL" /\ server = "ready"
           /\ summary = "IGNORED" => r.kind \in Work /\ (server = "failed" \/ Interrupted)
           /\ r.kind \in Work /\ server = "failed" => summary = "IGNORED"
           /\ toClient' = Answers(r.id, records, summary)
           /\ server' = IF summary = "FAILURE" THEN "failed"
                        ELSE IF r.kind = "RESET" THEN "ready" ELSE server
           /\ link' = IF summary = "FAILURE" /\ r.kind \notin Work THEN "down" ELSE link
    /\ toServer' = Tail(toServer)
    /\ UNCHANGED <<state, protocolVars, bufferVars, callVars, counters>>

(* The link breaks; what is on its way may be lost. *)
Break ==
    /\ link = "up"
    /\ link' = "down"
    /\ toServer' = << >>
    /\ \E n \in 0..Len(toClient) : toClient' = SubSeq(toClient, 1, n)
    /\ UNCHANGED <<state, protocolVars, bufferVars, callVars, server, counters>>

Next ==
    \/ \E kind \in Work : Load(kind)
    \/ LoadFails \/ LoadReset \/ Send
    \/ \E kind \in {"fetch", "summary"} : Fetch(kind)
    \/ Receive \/ ReceiveFailedReset \/ ReceiveBroken \/ ReceiveTimesOut
    \/ Lend \/ Retire \/ Open \/ OpenFails \/ Release
    \/ Serve \/ Break

Spec == Init /\ [][Next]_vars

(* The server answers what reaches it, and a fetch takes what arrives. *)
Fairness ==
    /\ WF_vars(Serve)
    /\ WF_vars(Receive \/ ReceiveFailedReset \/ ReceiveBroken)
    /\ WF_vars(rx = "stuck" /\ ReceiveTimesOut)

FairSpec == Spec /\ Fairness

-----------------------------------------------------------------------------
(* Properties *)

(* The variables keep their types, and requests are numbered in the order   *)
(* in which they are loaded (BoltProtocolV3_load_message): those that wait  *)
(* to be sent are the last ones.                                            *)
TypeOK ==
    /\ state \in States
    /\ next_id \in 0..MaxRequests /\ answered \in 0..MaxRequests
    /\ failure \in BOOLEAN /\ matched \in BOOLEAN
    /\ data_type \in Types
    /\ rx \in {"sound", "stale", "stuck"}
    /\ stale \in Seq(Types \union {"EMPTY"}) /\ Len(stale) <= MaxStale
    /\ stale # << >> => rx # "sound"
    /\ call \in {"pooled", "using", "fetch", "summary", "hello", "reset"}
    /\ request \in {NoRequest} \union 0..(MaxRequests - 1)
    /\ Fetching <=> request # NoRequest
    /\ server \in {"ready", "failed"} /\ link \in {"up", "down"}
    /\ opens \in 0..MaxOpens /\ timeouts \in 0..MaxTimeouts
    /\ \A i \in DOMAIN tx : tx[i].id = next_id - Len(tx) + i - 1

(* The next three hold of a connection on which no receive has failed since *)
(* it was opened.  A receive that fails (BoltConnection_receive) is all     *)
(* that may break them, and closing the connection or opening it anew leave *)
(* nothing of what undefined bytes were read as, on the way of a hello that *)
(* failed, a reset, or an acquire that finds the connection defunct.        *)

(* Counting responses (BoltProtocolV3_fetch) never gets out of step with    *)
(* what the server sends: a record or summary that a fetch returns answers  *)
(* the request that was asked for, whatever requests were skipped.          *)
AnswersMatch == rx = "sound" => matched

(* When the application has seen the answer to its last request, the state  *)
(* it reads (BoltConnection_status) is what the server is in, even when the *)
(* failure itself was skipped and only an IGNORED was fetched.              *)
InStep ==
    (rx = "sound" /\ Usable /\ answered = next_id /\ link = "up") =>
        (state = "FAILED" <=> server = "failed")

(* A connection that a client has released (reset_or_close) is handed to    *)
(* the next one only with nothing left of the last one: no request unsent   *)
(* or unanswered, no answer on its way, no failure on the server.  That is  *)
(* so even if a load was refused, which makes it DEFUNCT until its RESET.   *)
CleanHandover ==
    rx = "sound" /\ call = "pooled" =>
        /\ state \in {"READY", "DISCONNECTED", "DEFUNCT"}
        /\ state = "READY" => /\ answered = next_id
                              /\ << >> = tx /\ toServer = << >> /\ toClient = << >>
                              /\ server = "ready"

(* A fetch of a request that was sent returns, without the help of a        *)
(* receive timeout, if the server answers what it gets.                     *)
FetchReturns == Fetching ~> ~Fetching

(* status.h: DEFUNCT is an unrecoverable failure.  Only closing the         *)
(* connection, or opening it anew, ends it.  The release of a connection    *)
(* whose borrower had a load refused does (reset has no look at the state). *)
DefunctIsFinal ==
    [][state = "DEFUNCT" => state' \in {"DEFUNCT", "DISCONNECTED"} \/ opens' > opens]_vars

(* The part of this that matters most: when BoltConnection_receive has      *)
(* failed, so that requests and answers cannot be in step any more, the     *)
(* connection is not taken for a sound one before it is opened anew.        *)
FailedReceiveIsFinal ==
    [][rx # "sound" => state' \in {"DEFUNCT", "DISCONNECTED"} \/ opens' > opens]_vars
=============================================================================
