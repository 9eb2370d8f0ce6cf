------------------------------ MODULE Requests ------------------------------
(***************************************************************************)
(* What a pooled connection keeps from call to call, and so from borrower  *)
(* to borrower: the BEGIN and RUN messages that are built up by setters    *)
(* and loaded any number of times, and what was extracted from the answers *)
(* (v1.c, v2.c, v3.c).  Version 2 differs from version 1 only in the       *)
(* structures it knows; both say BEGIN, COMMIT and ROLLBACK with a RUN and *)
(* a DISCARD_ALL, and the handle of the pair is that of the DISCARD_ALL.   *)
(*                                                                         *)
(* A value that a setter puts into a message is the number of the lease    *)
(* during which it was set; a value that the server sends is the number of *)
(* the request that it belongs to.  The link does not fail here, and what  *)
(* is loaded is sent before an answer is fetched: Connection has the rest. *)
(***************************************************************************)
EXTENDS Integers, Sequences

CONSTANTS Versions,      \* the protocol versions that a handshake may agree on
          MaxLeases,     \* bound: times that the connection is borrowed
          MaxCalls,      \* bound: calls that clear, set or load, in all leases
          MaxParameters  \* bound: parameters of a query

ASSUME VersionAssumption == Versions \subseteq 1..3
ASSUME BoundAssumption == {MaxLeases, MaxCalls, MaxParameters} \subseteq Nat

Lease == 1..MaxLeases
Unset == 0        \* no such entry in the message
Emptied == -1     \* an entry with an empty list, an empty dictionary or Null
None == 0         \* nothing was received
Transactions == {"BEGIN", "COMMIT", "ROLLBACK"}
Options == {"bookmarks", "timeout", "metadata"}

VARIABLES version,       \* connection->protocol_version
          access_mode,   \* connection->access_mode
          state,         \* connection->status->state
          begin_request, \* the entries of the BEGIN message
          run_request,   \* the entries of the RUN message, its query and parameters
          last,          \* the message loaded last, until it is sent
          field_names,   \* the RUN whose field names are kept
          metadata,      \* the requests whose metadata result_metadata holds
          last_bookmark, \* the request that last_bookmark came with
          failure,       \* the request whose code and message failure_data holds
          next_id,       \* next_request_id
          result,        \* the request whose result a PULL or DISCARD loaded now is about
          pending,       \* requests loaded and not answered yet
          skipping,      \* answers that the call of fetch still reads, 0: no call
          fetched,       \* what the last call of fetch in this lease returned
          server,        \* "ready", "failed" or "interrupted": what the server is
          lease,         \* the number of the lease
          using,         \* the connection is on loan
          first,         \* the first request of this lease
          made           \* such calls so far

extras == <<begin_request, run_request>>
results == <<field_names, metadata, last_bookmark, failure>>
borrower == <<lease, using, first>>
queues == <<next_id, result, pending>>
fetches == <<skipping, fetched, server>>
vars == <<version, access_mode, state, extras, last, results, queues, fetches, borrower, made>>

NoExtra == [o \in Options \cup {"mode"} |-> Unset]
NoResult == [id |-> None, kind |-> "NONE"]
NoRun == [cypher |-> Unset, parameters |-> << >>, extra |-> NoExtra]
NoRequest == [id |-> None, kind |-> "NONE", of |-> NoResult, handle |-> FALSE]
NothingFetched == [type |-> "NONE", request |-> NoRequest]
NoMessage == [kind |-> "NONE", extra |-> NoExtra, cypher |-> Unset, parameters |-> << >>]

(* A connection that was opened, agreed on a version and is initialised: a *)
(* new protocol state, and INIT or HELLO (request 0) answered.             *)
Init ==
    /\ version \in Versions
    /\ access_mode = "WRITE" /\ state = "READY"
    /\ begin_request = NoExtra /\ run_request = NoRun /\ last = NoMessage
    /\ field_names = None /\ metadata = {} /\ last_bookmark = None /\ failure = None
    /\ next_id = 1 /\ result = NoResult /\ pending = << >> /\ skipping = 0
    /\ fetched = NothingFetched /\ server = "ready"
    /\ lease = 0 /\ using = FALSE /\ first = 1 /\ made = 0

Usable == using /\ skipping = 0 /\ state \in {"READY", "FAILED"}

(* The next call of the borrower, within its bound *)
Calling == Usable /\ made < MaxCalls /\ made' = made + 1

-----------------------------------------------------------------------------
(* Borrowing *)

(* BoltConnector_acquire stores the access mode in the connection. *)
Acquire(mode) ==
    /\ ~using /\ skipping = 0 /\ lease < MaxLeases
    /\ using' = TRUE /\ lease' = lease + 1 /\ first' = next_id
    /\ access_mode' = mode
    /\ fetched' = NothingFetched
    /\ UNCHANGED <<version, state, extras, last, results, queues, skipping, server, made>>

-----------------------------------------------------------------------------
(* Building messages.  The argument of a setter is "given", "none" (NULL   *)
(* or a negative timeout) or "invalid" (of a type that is refused).        *)

(* TRY of connection.c: a setter or load that fails makes the connection   *)
(* DEFUNCT.                                                                *)
Refused == state' = "DEFUNCT" /\ UNCHANGED <<extras, last, queues>>

(* Mutant: only the query and its parameters are cleared. *)
ClearedRun_QueryOnly == [NoRun EXCEPT !.extra = run_request.extra]

(* _clear_run *)
ClearedRun == NoRun

(* _clear_begin_tx *)
ClearedBegin == NoExtra

ClearMessage(kind) ==
    /\ Calling
    /\ run_request' = IF kind = "RUN" THEN ClearedRun ELSE run_request
    /\ begin_request' = IF kind = "BEGIN" THEN ClearedBegin ELSE begin_request
    /\ UNCHANGED <<version, access_mode, state, last, results, queues, fetches, borrower>>

(* _set_tx_bookmark, _set_tx_timeout and _set_tx_metadata: an entry is made *)
(* when there is none; without an argument one that is there is emptied.    *)
WithOption(extra, option, argument) ==
    [extra EXCEPT ![option] = CASE argument = "given" -> lease
                                [] argument = "none" /\ @ # Unset -> Emptied
                                [] OTHER -> Unset]

(* BoltProtocolV1_set_begin_tx_bookmark *)
WithBookmarksV1(extra, argument) ==
    [extra EXCEPT !.bookmarks = IF argument = "given" THEN lease ELSE Unset]

(* What versions 1 and 2 do not support: time limits and metadata.  They   *)
(* ignore bookmarks of a RUN.                                              *)
Unsupported(option) == version < 3 /\ option # "bookmarks"
Ignored(kind, option) == version < 3 /\ option = "bookmarks" /\ kind = "RUN"

SetOption(kind, option, argument) ==
    /\ Calling
    /\ option = "timeout" => argument # "invalid"
    /\ \/ /\ Unsupported(option) \/ (argument = "invalid" /\ ~Ignored(kind, option))
          /\ Refused
       \/ /\ ~Unsupported(option) /\ Ignored(kind, option)
          /\ UNCHANGED <<state, extras, last, queues>>
       \/ /\ ~Unsupported(option) /\ ~Ignored(kind, option) /\ argument # "invalid"
          /\ IF kind = "RUN"
             THEN /\ run_request' = [run_request EXCEPT !.extra = WithOption(@, option, argument)]
                  /\ UNCHANGED begin_request
             ELSE /\ begin_request' = IF version < 3 THEN WithBookmarksV1(begin_request, argument)
                                      ELSE WithOption(begin_request, option, argument)
                  /\ UNCHANGED run_request
          /\ UNCHANGED <<state, last, queues>>
    /\ UNCHANGED <<version, access_mode, results, fetches, borrower>>

(* Formatting a dictionary as a dictionary keeps the entries that fit. *)
Resized(parameters, n) ==
    [i \in 1..n |-> IF i \in DOMAIN parameters THEN parameters[i] ELSE Unset]

(* BoltConnection_set_run_cypher; a query too long for 32 bits is refused. *)
SetCypher(n) ==
    /\ Calling
    /\ \/ Refused
       \/ /\ run_request' = [run_request EXCEPT !.cypher = lease,
                                                !.parameters = Resized(@, n)]
          /\ UNCHANGED <<state, begin_request, last, queues>>
    /\ UNCHANGED <<version, access_mode, results, fetches, borrower>>

(* BoltConnection_set_run_cypher_parameter, and its value filled in *)
SetParameter(i) ==
    /\ Calling
    /\ i \in DOMAIN run_request.parameters
    /\ run_request' = [run_request EXCEPT !.parameters[i] = lease]
    /\ UNCHANGED <<version, access_mode, state, begin_request, last, results, queues, fetches, borrower>>

-----------------------------------------------------------------------------
(* Loading *)

(* BoltProtocolV1_load_message, BoltProtocolV3_load_message: requests are  *)
(* numbered; BoltConnection_last_request is the handle of the last one.    *)
Queue(kinds, of) ==
    /\ pending' = pending \o [i \in DOMAIN kinds |->
                                 [id |-> next_id + i - 1, kind |-> kinds[i], of |-> of,
                                  handle |-> i = Len(kinds)]]
    /\ next_id' = next_id + Len(kinds)

(* _set_access_mode: version 3 says when a transaction only reads. *)
WithMode(extra) ==
    IF version = 3 /\ access_mode = "READ" THEN [extra EXCEPT !.mode = lease] ELSE extra

(* BoltConnection_load_run_request *)
LoadRun ==
    /\ Calling
    /\ run_request' = [run_request EXCEPT !.extra = WithMode(@)]
    /\ last' = [kind |-> "RUN", extra |-> run_request'.extra,
                cypher |-> run_request.cypher, parameters |-> run_request.parameters]
    /\ result' = [id |-> next_id, kind |-> "RUN"]
    /\ Queue(<<"RUN">>, result')
    /\ UNCHANGED <<version, access_mode, state, begin_request, results, fetches, borrower>>

(* Mutant: the result of the RUN is not discarded. *)
TransactionMessages_RunOnly(kind) == <<kind>>

(* BoltProtocolV1_load_begin_request and the like load two messages. *)
TransactionMessages(kind) == IF version < 3 THEN <<kind, "DISCARD">> ELSE <<kind>>

(* BoltConnection_load_begin_request, .._commit_request, .._rollback_request *)
LoadTransaction(kind) ==
    /\ Calling
    /\ begin_request' = IF kind = "BEGIN" THEN WithMode(begin_request) ELSE begin_request
    /\ last' = [NoMessage EXCEPT !.kind = kind,
                                 !.extra = IF kind = "BEGIN" THEN begin_request' ELSE NoExtra]
    /\ Queue(TransactionMessages(kind), [id |-> next_id, kind |-> kind])
    /\ result' = NoResult
    /\ UNCHANGED <<version, access_mode, state, run_request, results, fetches, borrower>>

(* BoltConnection_load_pull_request and .._discard_request; a number of    *)
(* records is refused.                                                     *)
LoadStream(kind) ==
    /\ Calling
    /\ \/ Refused
       \/ /\ last' = [NoMessage EXCEPT !.kind = kind]
          /\ Queue(<<kind>>, result)
          /\ result' = NoResult
          /\ UNCHANGED <<state, extras>>
    /\ UNCHANGED <<version, access_mode, results, fetches, borrower>>

(* BoltProtocolV1_load_reset_request, BoltProtocolV3_load_reset *)
Reset ==
    /\ Queue(<<"RESET">>, NoResult)
    /\ result' = NoResult
    /\ failure' = None
    /\ UNCHANGED <<version, field_names, metadata, last_bookmark, fetched, server>>

LoadReset ==
    /\ Calling
    /\ last' = [NoMessage EXCEPT !.kind = "RESET"]
    /\ Reset
    /\ UNCHANGED <<access_mode, state, extras, skipping, borrower>>

(* BoltConnector_release, and BoltDirectPool_release: both messages are     *)
(* cleared, and the connection is reset.                                   *)
Release ==
    /\ using /\ skipping = 0
    /\ using' = FALSE
    /\ access_mode' = "WRITE"
    /\ run_request' = ClearedRun /\ begin_request' = ClearedBegin
    /\ last' = NoMessage
    /\ Reset
    /\ skipping' = Len(pending')
    /\ UNCHANGED <<state, lease, first, made>>

-----------------------------------------------------------------------------
(* Fetching *)

(* BoltConnection_send and BoltConnection_fetch of a request that has a    *)
(* handle and is not answered.                                             *)
Fetch(n) ==
    /\ Usable
    /\ n \in DOMAIN pending /\ pending[n].handle
    /\ skipping' = n
    /\ last' = NoMessage
    /\ UNCHANGED <<version, access_mode, state, extras, results, queues, fetched, server, borrower, made>>

(* The server: what it may answer to request r, and what that brings.  It  *)
(* ignores what comes between a failure and a RESET, and what it sees a    *)
(* RESET behind of.  A PULL or DISCARD needs a result.                     *)
Interrupted == \E i \in 2..Len(pending) : pending[i].kind = "RESET"
MayAnswer(r, type) ==
    IF r.kind = "RESET" THEN type = "SUCCESS"
    ELSE CASE type = "IGNORED" -> server # "ready" \/ Interrupted
           [] type = "FAILURE" -> server = "ready"
           [] OTHER -> server = "ready" /\ (r.kind \in {"PULL", "DISCARD"} => r.of # NoResult)

ServerAfter(r, type) ==
    CASE r.kind = "RESET" -> "ready"
      [] type = "FAILURE" -> "failed"
      [] type = "IGNORED" /\ server = "ready" -> "interrupted"
      [] OTHER -> server

BringsFields(r) == r.kind = "RUN" \/ (version < 3 /\ r.kind \in Transactions)
BringsBookmark(r) == \/ r.kind = "COMMIT" /\ version = 3
                     \/ r.kind = "DISCARD" /\ r.of.kind = "COMMIT"
                     \/ r.kind \in {"PULL", "DISCARD"} /\ r.of.kind = "RUN"

(* Metadata that has no place of its own; the fetch clears it for every    *)
(* summary, and a summary without fields brings none.                      *)
MetadataAfter(r, type) == IF type = "SUCCESS" THEN {r.id} ELSE {}

(* BoltProtocolV1_extract_metadata, BoltProtocolV3_extract_metadata *)
Extract(r, type) ==
    /\ metadata' = MetadataAfter(r, type)
    /\ field_names' = IF type = "SUCCESS" /\ BringsFields(r) THEN r.id ELSE field_names
    /\ last_bookmark' = IF type = "SUCCESS" /\ BringsBookmark(r) THEN r.of.id ELSE last_bookmark
    /\ failure' = IF type = "FAILURE" THEN r.id ELSE failure

(* Mutant: an ignored request leaves the state alone. *)
StateAfter_IgnoredLeft(type) ==
    CASE type = "SUCCESS" -> "READY" [] type = "FAILURE" -> "FAILED" [] OTHER -> state

(* BoltConnection_fetch sets the state for the summary that it returns. *)
StateAfter(type) ==
    CASE type = "SUCCESS" -> "READY"
      [] type = "FAILURE" \/ (type = "IGNORED" /\ failure' # None) -> "FAILED"
      [] OTHER -> state

(* A record: returned if it is for the request, else read over. *)
ReceiveRecord ==
    /\ skipping = 1 /\ using
    /\ Head(pending).kind = "PULL" /\ MayAnswer(Head(pending), "RECORD")
    /\ skipping' = 0
    /\ fetched' = [type |-> "RECORD", request |-> Head(pending)]
    /\ UNCHANGED <<version, access_mode, state, extras, last, results, queues, server, borrower, made>>

(* A summary: of an earlier request, or the one that ends the fetch. *)
ReceiveSummary(type) ==
    LET r == Head(pending) IN
    /\ skipping > 0
    /\ MayAnswer(r, type)
    /\ Extract(r, type)
    /\ pending' = Tail(pending)
    /\ server' = ServerAfter(r, type)
    /\ skipping' = skipping - 1
    /\ IF skipping = 1
       THEN state' = StateAfter(type) /\ fetched' = [type |-> type, request |-> r]
       ELSE UNCHANGED <<state, fetched>>
    /\ UNCHANGED <<version, access_mode, extras, last, next_id, result, borrower, made>>

Next ==
    \/ \E mode \in {"READ", "WRITE"} : Acquire(mode)
    \/ \E kind \in {"RUN", "BEGIN"} :
          \/ ClearMessage(kind)
          \/ \E option \in Options, argument \in {"given", "none", "invalid"} :
                SetOption(kind, option, argument)
    \/ \E n \in 0..MaxParameters : SetCypher(n) \/ SetParameter(n)
    \/ LoadRun \/ LoadReset \/ Release
    \/ \E kind \in Transactions : LoadTransaction(kind)
    \/ \E kind \in {"PULL", "DISCARD"} : LoadStream(kind)
    \/ \E n \in 1..Len(pending) : Fetch(n)
    \/ ReceiveRecord
    \/ \E type \in {"SUCCESS", "FAILURE", "IGNORED"} : ReceiveSummary(type)

Spec == Init /\ [][Next]_vars

-----------------------------------------------------------------------------
(* Properties *)

(* A BEGIN or RUN message that a borrower loads (load_begin_tx, load_run)   *)
(* holds nothing that an earlier borrower of the connection has set, and    *)
(* says that it reads exactly when this borrower acquired it for reading:   *)
(* BoltDirectPool_release clears both messages, whatever of them the        *)
(* borrower has built, loaded or had refused.                               *)
OwnRequests ==
    last.kind \in {"RUN", "BEGIN"} =>
        /\ \A o \in Options : last.extra[o] \in {Unset, Emptied, lease}
        /\ last.cypher \in {Unset, lease}
        /\ \A i \in DOMAIN last.parameters : last.parameters[i] \in {Unset, lease}
        /\ last.extra.mode # Unset <=> version = 3 /\ access_mode = "READ"

(* What can be read after a fetch is about what was fetched, however many   *)
(* answers it skipped: with a record the field names are those of its RUN,  *)
(* with a summary the metadata is that of this summary, and the handle of a *)
(* COMMIT, which versions 1 and 2 make of two requests, brings the bookmark *)
(* of this commit.                                                          *)
ResultsOfRequest ==
    skipping = 0 =>
        /\ fetched.type = "RECORD" => field_names = fetched.request.of.id
        /\ fetched.type = "SUCCESS" => metadata = {fetched.request.id}
        /\ fetched.type \in {"FAILURE", "IGNORED"} => metadata = {}
        /\ fetched.type = "SUCCESS" /\ fetched.request.of.kind = "COMMIT"
              => last_bookmark = fetched.request.of.id

(* When everything is answered, the state says whether the server has       *)
(* failed, even if the request that failed has no handle; and after a       *)
(* summary that left the connection FAILED, BoltConnection_failure tells of *)
(* a request of this borrower, unless a RESET was loaded since.             *)
FailureKnown ==
    Usable => /\ pending = << >> => (state = "FAILED" <=> server = "failed")
              /\ /\ state = "FAILED" /\ fetched.type # "RECORD"
                 /\ \A i \in DOMAIN pending : pending[i].kind # "RESET"
                 => failure >= first
=============================================================================
