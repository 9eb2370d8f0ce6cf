--------------------------- MODULE RequestsProofs ---------------------------
(***************************************************************************)
(* Proofs about Requests, for every set of protocol versions and every     *)
(* bound: the messages that a borrower loads are its own, and what a fetch *)
(* returns is about the request that was fetched, though the connection    *)
(* keeps messages, results and failures from one borrower to the next.     *)
(***************************************************************************)
EXTENDS Requests, TLAPS

-----------------------------------------------------------------------------
(* The inductive invariant: messages *)

Entries == Options \cup {"mode"}
Extra == [Entries -> Int]
Run == [cypher : Int, parameters : Seq(Int), extra : Extra]
Loadable == [kind : {"NONE", "RUN", "BEGIN", "COMMIT", "ROLLBACK", "PULL", "DISCARD", "RESET"},
             extra : Extra, cypher : Int, parameters : Seq(Int)]

MessagesOK ==
    /\ begin_request \in Extra /\ run_request \in Run /\ last \in Loadable
    /\ lease \in Nat /\ (using => lease > 0)
    /\ last.kind # "NONE" => using

(* Set by this borrower, and read-only only if it acquired it for reading  *)
OwnExtra(extra) ==
    /\ \A o \in Options : extra[o] \in {Unset, Emptied, lease}
    /\ extra["mode"] # Unset => version = 3 /\ access_mode = "READ"

OwnRun(run) ==
    /\ OwnExtra(run.extra)
    /\ run.cypher \in {Unset, lease}
    /\ \A i \in DOMAIN run.parameters : run.parameters[i] \in {Unset, lease}

(* Both messages are empty between two leases, and hold nothing but what   *)
(* this borrower has set within one.                                       *)
MessagesOwn ==
    IF using THEN OwnExtra(begin_request) /\ OwnRun(run_request)
    ELSE begin_request = NoExtra /\ run_request = NoRun

MessageInv == MessagesOK /\ MessagesOwn /\ OwnRequests

-----------------------------------------------------------------------------
(* The inductive invariant: requests and answers *)

Kinds == {"RUN", "PULL", "DISCARD", "RESET"} \cup Transactions
Result == [id : Nat, kind : {"NONE", "RUN"} \cup Transactions]
Request == [id : Nat, kind : Kinds, of : Result, handle : BOOLEAN]

AnswersOK ==
    /\ version \in 1..3 /\ state \in {"READY", "FAILED", "DEFUNCT"}
    /\ server \in {"ready", "failed", "interrupted"}
    /\ next_id \in Nat /\ first \in Nat /\ failure \in Nat /\ next_id > 0
    /\ pending \in Seq(Request)
    /\ result \in Result /\ result.kind \in {"NONE", "RUN"}

(* A fetch ends at a request that has a handle.  A connection that is not  *)
(* on loan reads all answers, up to that of the RESET of its release, and  *)
(* is as good as new then.                                                 *)
FetchesOK ==
    /\ skipping \in 0..Len(pending)
    /\ skipping > 0 => pending[skipping].handle
    /\ ~using => skipping = Len(pending)
    /\ ~using /\ Len(pending) > 0 => pending[Len(pending)].kind = "RESET"
    /\ ~using /\ Len(pending) = 0 => state = "READY" /\ server = "ready"

(* What a PULL is about: a RUN that was loaded right before it.  The handle *)
(* of a COMMIT is that of the request that brings its bookmark.             *)
StreamsFollow ==
    /\ result = NoResult \/ result.kind = "RUN"
    /\ result.kind = "RUN" /\ Len(pending) > 0 =>
          pending[Len(pending)].kind = "RUN" /\ pending[Len(pending)].id = result.id
    /\ \A i \in 1..Len(pending) :
          /\ pending[i].kind = "PULL" => pending[i].of = NoResult \/ pending[i].of.kind = "RUN"
          /\ pending[i].handle /\ pending[i].of.kind = "COMMIT" =>
                pending[i].kind = "DISCARD" \/ (pending[i].kind = "COMMIT" /\ version = 3)
          /\ pending[i].kind = "PULL" /\ pending[i].of.kind = "RUN" /\ i > 1 =>
                pending[i - 1].kind = "RUN" /\ pending[i - 1].id = pending[i].of.id

(* The field names of a RUN are kept once it was answered, unless it       *)
(* failed, for the PULL that follows it.                                   *)
FieldsKept ==
    server = "ready" =>
        /\ Len(pending) > 0 /\ pending[1].kind = "PULL" /\ pending[1].of.kind = "RUN" =>
              field_names = pending[1].of.id
        /\ Len(pending) = 0 /\ result.kind = "RUN" => field_names = result.id

NoReset == \A i \in 1..Len(pending) : pending[i].kind # "RESET"

(* The server is interrupted up to a RESET, and it has failed with a       *)
(* failure of this borrower that the connection knows of.                  *)
ServerKnown ==
    /\ server = "interrupted" => ~NoReset
    /\ server = "failed" /\ NoReset => failure >= first
    /\ first \in 1..next_id
    /\ using => \A i \in 1..Len(pending) : pending[i].id >= first

QueueInv == AnswersOK /\ FetchesOK /\ StreamsFollow /\ FieldsKept /\ ServerKnown

RequestsInv == QueueInv /\ ResultsOfRequest /\ FailureKnown

-----------------------------------------------------------------------------
(* Messages *)

(* Every step keeps the types of the messages. *)
LEMMA MessagesStep == MessagesOK /\ [Next]_vars => MessagesOK'
  <1> SUFFICES ASSUME MessagesOK, [Next]_vars PROVE MessagesOK'
    OBVIOUS
  <1>1. /\ NoExtra \in Extra /\ NoRun \in Run /\ NoMessage \in Loadable
        /\ NoMessage.kind = "NONE" /\ << >> \in Seq(Int)
    BY DEF NoExtra, NoRun, NoMessage, Extra, Run, Loadable, Entries, Unset
  <1>2. ASSUME NEW extra \in Extra, NEW option \in Options, NEW argument
        PROVE  WithOption(extra, option, argument) \in Extra
    BY <1>2 DEF WithOption, Extra, Entries, MessagesOK, Emptied, Unset
  <1>3. ASSUME NEW extra \in Extra, NEW argument
        PROVE  WithBookmarksV1(extra, argument) \in Extra
    BY <1>3 DEF WithBookmarksV1, Extra, Entries, Options, MessagesOK, Unset
  <1>4. ASSUME NEW extra \in Extra PROVE WithMode(extra) \in Extra
    BY <1>4 DEF WithMode, Extra, Entries, MessagesOK
  <1>5. ASSUME NEW kind \in {"COMMIT", "ROLLBACK", "PULL", "DISCARD", "RESET"}
        PROVE  [NoMessage EXCEPT !.kind = kind] \in Loadable
    BY <1>1, <1>5 DEF Loadable
  <1> USE DEF MessagesOK
  <1>6. ASSUME NEW mode \in {"READ", "WRITE"}, Acquire(mode) PROVE MessagesOK'
    BY <1>6 DEF Acquire, extras
  <1>7. ASSUME NEW kind \in {"RUN", "BEGIN"}, ClearMessage(kind) PROVE MessagesOK'
    BY <1>1, <1>7 DEF ClearMessage, ClearedRun, ClearedBegin, borrower
  <1>8. ASSUME NEW kind \in {"RUN", "BEGIN"}, NEW option \in Options,
               NEW argument \in {"given", "none", "invalid"}, SetOption(kind, option, argument)
        PROVE  MessagesOK'
    <2>1. run_request' \in {run_request, [run_request EXCEPT !.extra = WithOption(@, option, argument)]}
      BY <1>8 DEF SetOption, Refused, extras
    <2>2. begin_request' \in {begin_request, WithOption(begin_request, option, argument),
                              WithBookmarksV1(begin_request, argument)}
      BY <1>8 DEF SetOption, Refused, extras
    <2>3. run_request.extra \in Extra
      BY DEF Run
    <2>4. run_request' \in Run
      BY <1>2, <2>1, <2>3 DEF Run
    <2>5. begin_request' \in Extra
      BY <1>2, <1>3, <2>2
    <2> QED BY <1>8, <2>4, <2>5 DEF SetOption, Refused, extras, borrower
  <1>9. ASSUME NEW n \in 0..MaxParameters, SetCypher(n) PROVE MessagesOK'
    <2>1. run_request.parameters \in Seq(Int)
      BY DEF Run
    <2>2. Resized(run_request.parameters, n) \in Seq(Int)
      <3>1. ASSUME NEW i \in 1..n
            PROVE  (IF i \in DOMAIN run_request.parameters THEN run_request.parameters[i] ELSE Unset) \in Int
        BY <2>1 DEF Unset
      <3>2. n \in Nat
        BY BoundAssumption
      <3> QED BY <3>1, <3>2 DEF Resized
    <2>3. \/ run_request' = run_request
          \/ run_request' = [cypher |-> lease, extra |-> run_request.extra,
                              parameters |-> Resized(run_request.parameters, n)]
      BY <1>9 DEF SetCypher, Refused, Run, extras
    <2>4. run_request' \in Run
      BY <2>2, <2>3 DEF Run
    <2> QED BY <1>9, <2>4 DEF SetCypher, Refused, extras, borrower
  <1>10. ASSUME NEW n \in 0..MaxParameters, SetParameter(n) PROVE MessagesOK'
    <2>1. run_request.parameters \in Seq(Int) /\ lease \in Int
      BY DEF Run
    <2>2. [run_request.parameters EXCEPT ![n] = lease] \in Seq(Int)
      <3>1. /\ Len(run_request.parameters) \in Nat
            /\ run_request.parameters \in [1..Len(run_request.parameters) -> Int]
        BY <2>1
      <3>2. [run_request.parameters EXCEPT ![n] = lease] \in [1..Len(run_request.parameters) -> Int]
        BY <2>1, <3>1
      <3> QED BY <3>1, <3>2
    <2>3. run_request' = [run_request EXCEPT !.parameters = [@ EXCEPT ![n] = lease]]
      BY <1>10 DEF SetParameter
    <2>4. run_request' \in Run
      BY <2>2, <2>3 DEF Run
    <2> QED BY <1>10, <2>4 DEF SetParameter, borrower
  <1>11. ASSUME LoadRun PROVE MessagesOK'
    <2>1. run_request.extra \in Extra
      BY DEF Run
    <2>2. run_request' \in Run
      BY <1>4, <1>11, <2>1 DEF LoadRun, Run
    <2>3. last' \in Loadable
      BY <1>11, <2>2 DEF LoadRun, Loadable, Run
    <2> QED BY <1>11, <2>2, <2>3 DEF LoadRun, Calling, Usable, borrower
  <1>12. ASSUME LoadReset PROVE MessagesOK'
    BY <1>5, <1>12 DEF LoadReset, Reset, Calling, Usable, borrower, extras
  <1>13. ASSUME Release PROVE MessagesOK'
    BY <1>1, <1>13 DEF Release, Reset, ClearedRun, ClearedBegin
  <1>14. ASSUME NEW kind \in Transactions, LoadTransaction(kind) PROVE MessagesOK'
    <2>1. begin_request' \in Extra
      BY <1>4, <1>14 DEF LoadTransaction
    <2>2. last' \in Loadable
      BY <1>1, <1>14, <2>1 DEF LoadTransaction, Loadable, Transactions
    <2> QED BY <1>14, <2>1, <2>2 DEF LoadTransaction, Calling, Usable, borrower
  <1>15. ASSUME NEW kind \in {"PULL", "DISCARD"}, LoadStream(kind) PROVE MessagesOK'
    BY <1>5, <1>15 DEF LoadStream, Refused, Calling, Usable, borrower, extras
  <1>16. ASSUME NEW n \in 1..Len(pending), Fetch(n) PROVE MessagesOK'
    BY <1>1, <1>16 DEF Fetch, extras, borrower
  <1>17. ASSUME ReceiveRecord PROVE MessagesOK'
    BY <1>17 DEF ReceiveRecord, extras, borrower
  <1>18. ASSUME NEW type \in {"SUCCESS", "FAILURE", "IGNORED"}, ReceiveSummary(type)
         PROVE  MessagesOK'
    BY <1>18 DEF ReceiveSummary, extras, borrower
  <1>19. ASSUME UNCHANGED vars PROVE MessagesOK'
    BY <1>19 DEF vars, extras, borrower
  <1> QED BY <1>6, <1>7, <1>8, <1>9, <1>10, <1>11, <1>12, <1>13, <1>14, <1>15, <1>16, <1>17,
             <1>18, <1>19 DEF Next

(* Setting an option, or the access mode, in a message of one's own leaves *)
(* it one's own.                                                           *)
LEMMA OwnExtras ==
    ASSUME MessagesOK
    PROVE  /\ OwnExtra(NoExtra)
           /\ \A extra \in Extra : OwnExtra(extra) =>
                 /\ \A option \in Options, argument \in {"given", "none", "invalid"} :
                       OwnExtra(WithOption(extra, option, argument))
                 /\ \A argument \in {"given", "none", "invalid"} :
                       OwnExtra(WithBookmarksV1(extra, argument))
                 /\ OwnExtra(WithMode(extra))
                 /\ using => (WithMode(extra)["mode"] # Unset <=> version = 3 /\ access_mode = "READ")
  <1>1. OwnExtra(NoExtra)
    BY DEF OwnExtra, NoExtra
  <1>2. ASSUME NEW extra \in Extra, OwnExtra(extra), NEW option \in Options,
               NEW argument \in {"given", "none", "invalid"}
        PROVE  OwnExtra(WithOption(extra, option, argument))
    <2>1. option # "mode"
      BY DEF Options
    <2> QED BY <1>2, <2>1 DEF OwnExtra, WithOption, Extra, Entries, Options
  <1>3. ASSUME NEW extra \in Extra, OwnExtra(extra), NEW argument \in {"given", "none", "invalid"}
        PROVE  OwnExtra(WithBookmarksV1(extra, argument))
    BY <1>3 DEF OwnExtra, WithBookmarksV1, Extra, Entries, Options
  <1>4. ASSUME NEW extra \in Extra, OwnExtra(extra)
        PROVE  /\ OwnExtra(WithMode(extra))
               /\ using => (WithMode(extra)["mode"] # Unset <=> version = 3 /\ access_mode = "READ")
    BY <1>4 DEF OwnExtra, WithMode, Extra, Entries, Options, MessagesOK, Unset
  <1> QED BY <1>1, <1>2, <1>3, <1>4

(* The lease goes on. *)
SameLease == UNCHANGED <<version, access_mode, lease, using>>

(* Messages that are a borrower's own within its lease *)
LEMMA OwnInLease ==
    ASSUME SameLease, using, OwnExtra(begin_request'), OwnRun(run_request')
    PROVE  MessagesOwn'
  BY DEF SameLease, MessagesOwn, OwnRun, OwnExtra

(* Every step keeps the messages their borrower's own: a setter or a load  *)
(* puts in what belongs to the lease, and a release empties them.          *)
LEMMA OwnMessagesStep ==
    MessagesOK /\ MessagesOwn /\ [Next]_vars => MessagesOwn'
  <1> SUFFICES ASSUME MessagesOK, MessagesOwn, [Next]_vars PROVE MessagesOwn'
    OBVIOUS
  <1>1. begin_request \in Extra /\ run_request \in Run /\ run_request.extra \in Extra
    BY DEF MessagesOK, Run
  <1>2. using => OwnExtra(begin_request)
    BY DEF MessagesOwn
  <1>3. using => OwnRun(run_request)
    BY DEF MessagesOwn
  <1>4. ASSUME SameLease, begin_request' = begin_request, run_request' = run_request
        PROVE  MessagesOwn'
    BY <1>4 DEF MessagesOwn, SameLease, OwnRun, OwnExtra
  <1>5. OwnRun(NoRun) /\ OwnExtra(NoExtra)
    BY OwnExtras DEF OwnRun, NoRun
  <1>6. ASSUME NEW mode \in {"READ", "WRITE"}, Acquire(mode) PROVE MessagesOwn'
    <2>1. using' /\ begin_request' = NoExtra /\ run_request' = NoRun
      BY <1>6 DEF Acquire, MessagesOwn, extras
    <2>2. OwnExtra(NoExtra)' /\ OwnRun(NoRun)'
      BY DEF OwnExtra, OwnRun, NoExtra, NoRun
    <2> QED BY <2>1, <2>2 DEF MessagesOwn, OwnExtra, OwnRun
  <1>7. ASSUME NEW kind \in {"RUN", "BEGIN"}, ClearMessage(kind) PROVE MessagesOwn'
    <2>1. SameLease /\ using
      BY <1>7 DEF ClearMessage, Calling, Usable, SameLease, borrower
    <2>3. CASE kind = "RUN"
      <3>1. run_request' = NoRun /\ begin_request' = begin_request
        BY <1>7, <2>3 DEF ClearMessage, ClearedRun
      <3> QED BY <1>2, <1>5, <2>1, <3>1, OwnInLease
    <2>4. CASE kind = "BEGIN"
      <3>1. run_request' = run_request /\ begin_request' = NoExtra
        BY <1>7, <2>4 DEF ClearMessage, ClearedBegin
      <3> QED BY <1>3, <1>5, <2>1, <3>1, OwnInLease
    <2> QED BY <2>3, <2>4
  <1>8. ASSUME NEW kind \in {"RUN", "BEGIN"}, NEW option \in Options,
               NEW argument \in {"given", "none", "invalid"}, SetOption(kind, option, argument)
        PROVE  MessagesOwn'
    <2>1. SameLease /\ using
      BY <1>8 DEF SetOption, Calling, Usable, SameLease, borrower
    <2>2. \/ run_request' = run_request
          \/ /\ kind = "RUN"
             /\ run_request' = [run_request EXCEPT !.extra = WithOption(run_request.extra, option, argument)]
      BY <1>8 DEF SetOption, Refused, extras
    <2>3. \/ begin_request' = begin_request
          \/ /\ kind = "BEGIN"
             /\ begin_request' \in {WithOption(begin_request, option, argument),
                                    WithBookmarksV1(begin_request, argument)}
      BY <1>8 DEF SetOption, Refused, extras
    <2>4. OwnExtra(begin_request')
      BY <1>1, <1>2, <2>1, <2>3, OwnExtras
    <2>5. OwnRun(run_request')
      <3>1. CASE run_request' = run_request
        BY <1>3, <2>1, <3>1
      <3>2. CASE run_request' # run_request
        <4>1. OwnRun(run_request) /\ OwnExtra(run_request.extra)
          BY <1>3, <2>1, <2>2, <3>2 DEF OwnRun
        <4>2. OwnExtra(WithOption(run_request.extra, option, argument))
          BY <1>1, <4>1, OwnExtras
        <4>3. /\ run_request'.extra = WithOption(run_request.extra, option, argument)
              /\ run_request'.cypher = run_request.cypher
              /\ run_request'.parameters = run_request.parameters
          BY <1>1, <2>2, <3>2 DEF Run
        <4> QED BY <4>1, <4>2, <4>3 DEF OwnRun
      <3> QED BY <3>1, <3>2
    <2> QED BY <2>1, <2>4, <2>5, OwnInLease
  <1>9. ASSUME NEW n \in 0..MaxParameters, SetCypher(n) PROVE MessagesOwn'
    <2>1. SameLease /\ using /\ begin_request' = begin_request
      BY <1>9 DEF SetCypher, Calling, Usable, SameLease, borrower, Refused, extras
    <2>2. OwnRun(run_request) /\ OwnExtra(run_request.extra)
      BY <1>3, <2>1 DEF OwnRun
    <2>3. CASE run_request' = run_request
      BY <1>4, <2>1, <2>3
    <2>4. CASE run_request' # run_request
      <3>1. /\ run_request'.extra = run_request.extra
            /\ run_request'.cypher = lease
            /\ run_request'.parameters = Resized(run_request.parameters, n)
        BY <1>1, <1>9, <2>4 DEF SetCypher, Run, Refused, extras
      <3>2. \A i \in DOMAIN Resized(run_request.parameters, n) :
               Resized(run_request.parameters, n)[i] \in {Unset, lease}
        BY <2>2 DEF Resized, OwnRun
      <3>3. OwnRun(run_request')
        BY <2>2, <3>1, <3>2 DEF OwnRun
      <3> QED BY <1>2, <2>1, <3>3, OwnInLease
    <2> QED BY <2>3, <2>4
  <1>10. ASSUME NEW n \in 0..MaxParameters, SetParameter(n) PROVE MessagesOwn'
    <2>1. SameLease /\ using /\ begin_request' = begin_request
      BY <1>10 DEF SetParameter, Calling, Usable, SameLease, borrower
    <2>2. OwnRun(run_request) /\ OwnExtra(run_request.extra)
      BY <1>3, <2>1 DEF OwnRun
    <2>3. /\ run_request'.extra = run_request.extra
          /\ run_request'.cypher = run_request.cypher
          /\ run_request'.parameters = [run_request.parameters EXCEPT ![n] = lease]
      BY <1>1, <1>10 DEF SetParameter, Run
    <2>4. OwnRun(run_request')
      BY <2>2, <2>3 DEF OwnRun
    <2> QED BY <1>2, <2>1, <2>4, OwnInLease
  <1>11. ASSUME LoadRun PROVE MessagesOwn'
    <2>1. SameLease /\ using /\ begin_request' = begin_request
      BY <1>11 DEF LoadRun, Calling, Usable, SameLease, borrower
    <2>2. OwnRun(run_request) /\ OwnExtra(run_request.extra)
      BY <1>3, <2>1 DEF OwnRun
    <2>3. /\ run_request'.extra = WithMode(run_request.extra)
          /\ run_request'.cypher = run_request.cypher
          /\ run_request'.parameters = run_request.parameters
      BY <1>1, <1>11 DEF LoadRun, Run
    <2>4. OwnRun(run_request')
      BY <1>1, <2>2, <2>3, OwnExtras DEF OwnRun
    <2> QED BY <1>2, <2>1, <2>4, OwnInLease
  <1>12. ASSUME LoadReset PROVE MessagesOwn'
    BY <1>4, <1>12 DEF LoadReset, Reset, SameLease, borrower, extras
  <1>13. ASSUME Release PROVE MessagesOwn'
    BY <1>13 DEF Release, MessagesOwn, ClearedBegin, ClearedRun
  <1>14. ASSUME NEW kind \in Transactions, LoadTransaction(kind) PROVE MessagesOwn'
    <2>1. /\ SameLease /\ using /\ run_request' = run_request
          /\ begin_request' = IF kind = "BEGIN" THEN WithMode(begin_request) ELSE begin_request
      BY <1>14 DEF LoadTransaction, Calling, Usable, SameLease, borrower
    <2>2. OwnExtra(begin_request')
      BY <1>1, <1>2, <2>1, OwnExtras
    <2> QED BY <1>3, <2>1, <2>2, OwnInLease
  <1>15. ASSUME NEW kind \in {"PULL", "DISCARD"}, LoadStream(kind) PROVE MessagesOwn'
    BY <1>4, <1>15 DEF LoadStream, Refused, SameLease, borrower, extras
  <1>16. ASSUME NEW n \in 1..Len(pending), Fetch(n) PROVE MessagesOwn'
    BY <1>4, <1>16 DEF Fetch, SameLease, extras, borrower
  <1>17. ASSUME ReceiveRecord PROVE MessagesOwn'
    BY <1>4, <1>17 DEF ReceiveRecord, SameLease, extras, borrower
  <1>18. ASSUME NEW type \in {"SUCCESS", "FAILURE", "IGNORED"}, ReceiveSummary(type)
         PROVE  MessagesOwn'
    BY <1>4, <1>18 DEF ReceiveSummary, SameLease, extras, borrower
  <1>19. ASSUME UNCHANGED vars PROVE MessagesOwn'
    BY <1>4, <1>19 DEF vars, SameLease, extras, borrower
  <1> QED BY <1>6, <1>7, <1>8, <1>9, <1>10, <1>11, <1>12, <1>13, <1>14, <1>15, <1>16, <1>17,
             <1>18, <1>19 DEF Next

(* So a message that is loaded is its borrower's own until it is sent. *)
LEMMA OwnStep ==
    MessageInv /\ [Next]_vars => OwnRequests'
  <1> SUFFICES ASSUME MessageInv, [Next]_vars PROVE OwnRequests'
    OBVIOUS
  <1>0. MessagesOK /\ MessagesOwn /\ OwnRequests
    BY DEF MessageInv
  <1>1. begin_request \in Extra /\ run_request \in Run /\ run_request.extra \in Extra
    BY <1>0 DEF MessagesOK, Run
  <1>2. ASSUME last'.kind \notin {"RUN", "BEGIN"} PROVE OwnRequests'
    BY <1>2 DEF OwnRequests
  <1>3. ASSUME SameLease, last' = last PROVE OwnRequests'
    BY <1>0, <1>3 DEF OwnRequests, SameLease
  <1>4. NoMessage.kind = "NONE"
    BY DEF NoMessage
  <1>5. \A kind : [NoMessage EXCEPT !.kind = kind].kind = kind
    BY DEF NoMessage
  <1>6. ASSUME NEW mode \in {"READ", "WRITE"}, Acquire(mode) PROVE OwnRequests'
    BY <1>0, <1>2, <1>6 DEF Acquire, MessagesOK
  <1>7. ASSUME NEW kind \in {"RUN", "BEGIN"}, ClearMessage(kind) PROVE OwnRequests'
    BY <1>3, <1>7 DEF ClearMessage, SameLease, borrower
  <1>8. ASSUME NEW kind \in {"RUN", "BEGIN"}, NEW option \in Options,
               NEW argument \in {"given", "none", "invalid"}, SetOption(kind, option, argument)
        PROVE  OwnRequests'
    BY <1>3, <1>8 DEF SetOption, Refused, SameLease, borrower
  <1>9. ASSUME NEW n \in 0..MaxParameters, SetCypher(n) PROVE OwnRequests'
    BY <1>3, <1>9 DEF SetCypher, Refused, SameLease, borrower
  <1>10. ASSUME NEW n \in 0..MaxParameters, SetParameter(n) PROVE OwnRequests'
    BY <1>3, <1>10 DEF SetParameter, SameLease, borrower
  <1>11. ASSUME LoadRun PROVE OwnRequests'
    <2>1. SameLease /\ using
      BY <1>11 DEF LoadRun, Calling, Usable, SameLease, borrower
    <2>2. OwnRun(run_request) /\ OwnExtra(run_request.extra)
      BY <1>0, <2>1 DEF OwnRun, MessagesOwn
    <2>3. /\ last'.extra = WithMode(run_request.extra)
          /\ last'.cypher = run_request.cypher /\ last'.parameters = run_request.parameters
      BY <1>1, <1>11 DEF LoadRun, Run
    <2>4. /\ OwnExtra(last'.extra)
          /\ last'.extra["mode"] # Unset <=> version = 3 /\ access_mode = "READ"
      BY <1>0, <1>1, <2>1, <2>2, <2>3, OwnExtras
    <2> QED BY <2>1, <2>2, <2>3, <2>4 DEF OwnRequests, OwnRun, OwnExtra, SameLease
  <1>12. ASSUME LoadReset PROVE OwnRequests'
    BY <1>2, <1>5, <1>12 DEF LoadReset
  <1>13. ASSUME Release PROVE OwnRequests'
    BY <1>2, <1>4, <1>13 DEF Release
  <1>14. ASSUME NEW kind \in Transactions, LoadTransaction(kind) PROVE OwnRequests'
    <2>1. CASE kind # "BEGIN"
      BY <1>2, <1>14, <2>1 DEF LoadTransaction, Transactions, NoMessage
    <2>2. CASE kind = "BEGIN"
      <3>1. /\ SameLease /\ using
            /\ begin_request' = WithMode(begin_request)
        BY <1>14, <2>2 DEF LoadTransaction, Calling, Usable, SameLease, borrower
      <3>2. last' = [kind |-> "BEGIN", extra |-> begin_request', cypher |-> Unset, parameters |-> << >>]
        BY <1>14, <2>2 DEF LoadTransaction, NoMessage
      <3>3. /\ OwnExtra(last'.extra)
            /\ last'.extra["mode"] # Unset <=> version = 3 /\ access_mode = "READ"
        BY <1>0, <1>1, <3>1, <3>2, OwnExtras DEF MessagesOwn
      <3>4. last'.cypher = Unset /\ last'.parameters = << >>
        BY <3>2
      <3> QED BY <3>1, <3>3, <3>4 DEF OwnRequests, OwnExtra, SameLease
    <2> QED BY <2>1, <2>2
  <1>15. ASSUME NEW kind \in {"PULL", "DISCARD"}, LoadStream(kind) PROVE OwnRequests'
    <2>1. CASE last' = last
      BY <1>3, <1>15, <2>1 DEF LoadStream, SameLease, borrower
    <2>2. CASE last' # last
      BY <1>2, <1>5, <1>15, <2>2 DEF LoadStream, Refused
    <2> QED BY <2>1, <2>2
  <1>16. ASSUME NEW n \in 1..Len(pending), Fetch(n) PROVE OwnRequests'
    BY <1>2, <1>4, <1>16 DEF Fetch
  <1>17. ASSUME ReceiveRecord PROVE OwnRequests'
    BY <1>3, <1>17 DEF ReceiveRecord, SameLease, borrower
  <1>18. ASSUME NEW type \in {"SUCCESS", "FAILURE", "IGNORED"}, ReceiveSummary(type)
         PROVE  OwnRequests'
    BY <1>3, <1>18 DEF ReceiveSummary, SameLease, borrower
  <1>19. ASSUME UNCHANGED vars PROVE OwnRequests'
    BY <1>3, <1>19 DEF vars, SameLease, borrower
  <1> QED BY <1>6, <1>7, <1>8, <1>9, <1>10, <1>11, <1>12, <1>13, <1>14, <1>15, <1>16, <1>17,
             <1>18, <1>19 DEF Next

-----------------------------------------------------------------------------
(* Requests and answers *)

(* A step that builds a message, or whose load is refused, leaves the       *)
(* queue of requests and what was fetched alone.                            *)
Quiet ==
    /\ using /\ skipping = 0
    /\ state' \in {state, "DEFUNCT"}
    /\ UNCHANGED <<version, field_names, metadata, last_bookmark, failure, next_id, result,
                   pending, skipping, fetched, server, using, first>>

(* The steps that matter for the queue *)
LEMMA Steps ==
    ASSUME Next
    PROVE  \/ Quiet \/ (\E mode \in {"READ", "WRITE"} : Acquire(mode))
           \/ LoadRun \/ LoadReset \/ Release
           \/ \E kind \in Transactions : LoadTransaction(kind)
           \/ \E kind \in {"PULL", "DISCARD"} : LoadStream(kind) /\ state' = state /\ ~Quiet
           \/ \E n \in 1..Len(pending) : Fetch(n)
           \/ ReceiveRecord
           \/ \E type \in {"SUCCESS", "FAILURE", "IGNORED"} : ReceiveSummary(type)
  <1> USE DEF Quiet, Calling, Usable, queues, results, fetches, borrower
  <1>1. ASSUME NEW kind \in {"RUN", "BEGIN"}, ClearMessage(kind) PROVE Quiet
    BY <1>1 DEF ClearMessage
  <1>2. ASSUME NEW kind \in {"RUN", "BEGIN"}, NEW option \in Options,
               NEW argument \in {"given", "none", "invalid"}, SetOption(kind, option, argument)
        PROVE  Quiet
    BY <1>2 DEF SetOption, Refused
  <1>3. ASSUME NEW n \in 0..MaxParameters, SetCypher(n) \/ SetParameter(n) PROVE Quiet
    BY <1>3 DEF SetCypher, SetParameter, Refused
  <1>4. ASSUME NEW kind \in {"PULL", "DISCARD"}, LoadStream(kind)
        PROVE  Quiet \/ (state' = state /\ ~Quiet)
    BY <1>4 DEF LoadStream, Refused
  <1> QED BY <1>1, <1>2, <1>3, <1>4 DEF Next

(* What the library says about concatenation *)
LEMMA Concatenated ==
    ASSUME NEW S, NEW s \in Seq(S), NEW t \in Seq(S)
    PROVE  /\ s \o t \in Seq(S) /\ Len(s \o t) = Len(s) + Len(t)
           /\ \A i \in 1..Len(s) : (s \o t)[i] = s[i]
           /\ \A i \in 1..Len(t) : (s \o t)[Len(s) + i] = t[i]
  OBVIOUS

(* Loading puts requests behind those that wait: the last of them has the  *)
(* handle.                                                                 *)
Appended(n, kind, of) ==
    /\ pending' \in Seq(Request) /\ Len(pending) \in Nat
    /\ Len(pending') = Len(pending) + n /\ next_id' = next_id + n
    /\ \A i \in 1..Len(pending) : pending'[i] = pending[i]
    /\ LET r == pending'[Len(pending')] IN
          /\ r.kind = kind /\ r.of = of /\ r.handle /\ r.id = next_id + n - 1
    /\ \A i \in (Len(pending) + 1)..Len(pending') : pending'[i].id >= next_id

(* A load of one message, and one of two (versions 1 and 2) *)
LEMMA QueueOne ==
    ASSUME AnswersOK, NEW kind \in Kinds, NEW of \in Result, Queue(<<kind>>, of)
    PROVE  Appended(1, kind, of)
  <1> DEFINE new == [i \in DOMAIN <<kind>> |->
                        [id |-> next_id + i - 1, kind |-> <<kind>>[i], of |-> of,
                         handle |-> i = Len(<<kind>>)]]
  <1>1. pending' = pending \o new /\ next_id' = next_id + 1
    BY DEF Queue
  <1>2. pending \in Seq(Request) /\ next_id \in Nat
    BY DEF AnswersOK
  <1>3. new[1].id = next_id /\ new[1].kind = kind /\ new[1].of = of
    BY <1>2
  <1>4. new[1].handle
    <2>1. new[1].handle = (1 = Len(<<kind>>))
      OBVIOUS
    <2>2. 1 = Len(<<kind>>)
      OBVIOUS
    <2> QED BY <2>1, <2>2, Zenon
  <1>5. new \in Seq(Request) /\ Len(new) = 1
    <2>1. DOMAIN new = 1..1 /\ \A i \in 1..1 : new[i] \in Request
      BY <1>2 DEF Request
    <2> QED BY <2>1
  <1> HIDE DEF new
  <1>6. /\ pending' \in Seq(Request) /\ Len(pending') = Len(pending) + 1
        /\ \A i \in 1..Len(pending) : pending'[i] = pending[i]
        /\ pending'[Len(pending) + 1] = new[1]
    <2>1. 1 \in 1..Len(new)
      BY <1>5
    <2>2. pending \o new \in Seq(Request) /\ Len(pending \o new) = Len(pending) + Len(new)
      BY <1>2, <1>5, Concatenated
    <2>3. \A i \in 1..Len(pending) : (pending \o new)[i] = pending[i]
      BY <1>2, <1>5, Concatenated
    <2>4. \A i \in 1..Len(new) : (pending \o new)[Len(pending) + i] = new[i]
      <3>1. new \in Seq(Request)
        BY <1>5
      <3> QED BY <1>2, <3>1, Concatenated
    <2> QED BY <1>1, <1>5, <2>1, <2>2, <2>3, <2>4
  <1> QED BY <1>1, <1>2, <1>3, <1>4, <1>6 DEF Appended

(* The first of two requests has no handle. *)
LEMMA QueueTwo ==
    ASSUME AnswersOK, NEW kind \in Kinds, NEW of \in Result, Queue(<<kind, "DISCARD">>, of)
    PROVE  /\ Appended(2, "DISCARD", of)
           /\ LET r == pending'[Len(pending) + 1] IN ~r.handle /\ r.kind = kind /\ r.of = of
  <1> DEFINE new == [i \in DOMAIN <<kind, "DISCARD">> |->
                        [id |-> next_id + i - 1, kind |-> <<kind, "DISCARD">>[i], of |-> of,
                         handle |-> i = Len(<<kind, "DISCARD">>)]]
  <1>1. pending' = pending \o new /\ next_id' = next_id + 2
    BY DEF Queue
  <1>2. pending \in Seq(Request) /\ next_id \in Nat
    BY DEF AnswersOK
  <1>3. /\ new[1].id = next_id /\ new[1].kind = kind /\ new[1].of = of
        /\ new[2].id = next_id + 1 /\ new[2].kind = "DISCARD" /\ new[2].of = of
    BY <1>2
  <1>4. ~new[1].handle /\ new[2].handle
    <2>1. /\ new[1].handle = (1 = Len(<<kind, "DISCARD">>))
          /\ new[2].handle = (2 = Len(<<kind, "DISCARD">>))
      OBVIOUS
    <2>2. 1 # Len(<<kind, "DISCARD">>) /\ 2 = Len(<<kind, "DISCARD">>)
      OBVIOUS
    <2> QED BY <2>1, <2>2, Zenon
  <1>5. new \in Seq(Request) /\ Len(new) = 2
    <2>1. DOMAIN new = 1..2 /\ \A i \in 1..2 : new[i] \in Request
      BY <1>2 DEF Request, Kinds
    <2> QED BY <2>1
  <1> HIDE DEF new
  <1>6. /\ pending' \in Seq(Request) /\ Len(pending') = Len(pending) + 2
        /\ \A i \in 1..Len(pending) : pending'[i] = pending[i]
        /\ pending'[Len(pending) + 1] = new[1] /\ pending'[Len(pending) + 2] = new[2]
    <2>1. 1 \in 1..Len(new) /\ 2 \in 1..Len(new)
      BY <1>5
    <2>2. pending \in Seq(Request) /\ new \in Seq(Request)
      BY <1>2, <1>5
    <2>3. /\ pending \o new \in Seq(Request) /\ Len(pending \o new) = Len(pending) + Len(new)
          /\ \A i \in 1..Len(pending) : (pending \o new)[i] = pending[i]
          /\ \A i \in 1..Len(new) : (pending \o new)[Len(pending) + i] = new[i]
      BY ONLY <2>2, Concatenated
    <2>4. pending' = pending \o new
      BY <1>1
    <2>5. Len(new) = 2
      BY <1>5
    <2> QED BY ONLY <2>1, <2>3, <2>4, <2>5
  <1>7. ASSUME NEW i \in (Len(pending) + 1)..Len(pending') PROVE pending'[i].id >= next_id
    <2>1. i = Len(pending) + 1 \/ i = Len(pending) + 2
      BY <1>2, <1>6
    <2> QED BY <1>2, <1>3, <1>6, <2>1
  <1> QED BY <1>1, <1>2, <1>3, <1>4, <1>6, <1>7 DEF Appended

(* An answer takes the request at the head of the queue away. *)
Shifted ==
    /\ pending' \in Seq(Request) /\ Len(pending) \in Nat /\ Len(pending) > 0
    /\ Len(pending') = Len(pending) - 1
    /\ \A i \in 1..Len(pending') : i + 1 \in 1..Len(pending) /\ pending'[i] = pending[i + 1]
    /\ Head(pending) = pending[1] /\ 1 \in 1..Len(pending) /\ pending[1] \in Request

(* Reading a summary shifts the queue. *)
LEMMA Shifts ==
    ASSUME AnswersOK, FetchesOK, NEW type \in {"SUCCESS", "FAILURE", "IGNORED"}, ReceiveSummary(type)
    PROVE  Shifted
  <1>1. /\ pending \in Seq(Request) /\ Len(pending) \in Nat /\ skipping > 0
        /\ skipping \in 0..Len(pending) /\ pending' = Tail(pending)
    BY DEF AnswersOK, FetchesOK, ReceiveSummary
  <1>2. pending # << >> /\ Len(pending) > 0
    BY <1>1
  <1> QED BY <1>1, <1>2 DEF Shifted

(* What the server may answer, and what it is then *)
Answered(r, type) ==
    \/ r.kind = "RESET" /\ type = "SUCCESS" /\ server' = "ready"
    \/ r.kind # "RESET" /\ type = "SUCCESS" /\ server = "ready" /\ server' = "ready"
    \/ r.kind # "RESET" /\ type = "FAILURE" /\ server = "ready" /\ server' = "failed"
    \/ r.kind # "RESET" /\ type = "IGNORED" /\ server = "ready" /\ Interrupted /\ server' = "interrupted"
    \/ r.kind # "RESET" /\ type = "IGNORED" /\ server # "ready" /\ server' = server

(* The cases of MayAnswer and ServerAfter *)
LEMMA Answering ==
    ASSUME AnswersOK, FetchesOK, NEW type \in {"SUCCESS", "FAILURE", "IGNORED"}, ReceiveSummary(type)
    PROVE  Answered(pending[1], type)
  <1>1. Head(pending) = pending[1]
    BY Shifts DEF Shifted
  <1>2. MayAnswer(pending[1], type) /\ server' = ServerAfter(pending[1], type)
    BY <1>1 DEF ReceiveSummary
  <1>3. CASE pending[1].kind = "RESET"
    BY <1>2, <1>3 DEF MayAnswer, ServerAfter, Answered
  <1>4. CASE pending[1].kind # "RESET" /\ type = "SUCCESS"
    BY <1>2, <1>4 DEF MayAnswer, ServerAfter, Answered
  <1>5. CASE pending[1].kind # "RESET" /\ type = "FAILURE"
    BY <1>2, <1>5 DEF MayAnswer, ServerAfter, Answered
  <1>6. CASE pending[1].kind # "RESET" /\ type = "IGNORED"
    BY <1>2, <1>6 DEF MayAnswer, ServerAfter, Answered
  <1> QED BY <1>3, <1>4, <1>5, <1>6

(* What each load appends *)
LEMMA Loads ==
    ASSUME AnswersOK
    PROVE  /\ LoadRun => /\ Appended(1, "RUN", [id |-> next_id, kind |-> "RUN"])
                         /\ result' = [id |-> next_id, kind |-> "RUN"]
           /\ LoadReset \/ Release => Appended(1, "RESET", NoResult) /\ result' = NoResult
           /\ \A kind \in {"PULL", "DISCARD"} :
                 LoadStream(kind) /\ state' = state /\ ~Quiet =>
                    Appended(1, kind, result) /\ result' = NoResult
           /\ \A kind \in Transactions : LoadTransaction(kind) =>
                 LET of == [id |-> next_id, kind |-> kind] IN
                 /\ result' = NoResult
                 /\ \/ version = 3 /\ Appended(1, kind, of)
                    \/ /\ version < 3 /\ Appended(2, "DISCARD", of)
                       /\ LET r == pending'[Len(pending) + 1] IN ~r.handle /\ r.kind = kind /\ r.of = of
  <1>1. \A kind \in {"RUN"} \cup Transactions : [id |-> next_id, kind |-> kind] \in Result
    BY DEF AnswersOK, Result
  <1>2. NoResult \in Result
    BY DEF NoResult, Result, None
  <1>3. ASSUME LoadRun
        PROVE  /\ Appended(1, "RUN", [id |-> next_id, kind |-> "RUN"])
               /\ result' = [id |-> next_id, kind |-> "RUN"]
    <2> DEFINE of == [id |-> next_id, kind |-> "RUN"]
    <2>1. result' = of /\ Queue(<<"RUN">>, of)
      BY <1>3 DEF LoadRun
    <2> QED BY <1>1, <2>1, QueueOne DEF Kinds
  <1>4. ASSUME LoadReset \/ Release PROVE Appended(1, "RESET", NoResult) /\ result' = NoResult
    BY <1>2, <1>4, QueueOne DEF LoadReset, Release, Reset, Kinds
  <1>5. ASSUME NEW kind \in {"PULL", "DISCARD"}, LoadStream(kind), state' = state, ~Quiet
        PROVE  Appended(1, kind, result) /\ result' = NoResult
    <2>1. Queue(<<kind>>, result) /\ result' = NoResult
      BY <1>5 DEF LoadStream, Refused, Quiet, Calling, Usable, queues, results, fetches, borrower
    <2> QED BY <2>1, QueueOne DEF AnswersOK, Kinds
  <1>6. ASSUME NEW kind \in Transactions, LoadTransaction(kind)
        PROVE  LET of == [id |-> next_id, kind |-> kind] IN
               /\ result' = NoResult
               /\ \/ version = 3 /\ Appended(1, kind, of)
                  \/ /\ version < 3 /\ Appended(2, "DISCARD", of)
                     /\ LET r == pending'[Len(pending) + 1] IN ~r.handle /\ r.kind = kind /\ r.of = of
    <2> DEFINE of == [id |-> next_id, kind |-> kind]
    <2>1. result' = NoResult /\ Queue(TransactionMessages(kind), of) /\ of \in Result /\ kind \in Kinds
      BY <1>1, <1>6 DEF LoadTransaction, Kinds
    <2> HIDE DEF of
    <2>2. CASE version < 3
      <3>1. Queue(<<kind, "DISCARD">>, of)
        BY <2>1, <2>2 DEF TransactionMessages
      <3> QED BY <2>1, <2>2, <3>1, QueueTwo DEF of
    <2>3. CASE version = 3
      <3>1. Queue(<<kind>>, of)
        BY <2>1, <2>3 DEF TransactionMessages
      <3> QED BY <2>1, <2>3, <3>1, QueueOne DEF of
    <2> QED BY <2>2, <2>3 DEF AnswersOK
  <1> QED BY <1>3, <1>4, <1>5, <1>6

-----------------------------------------------------------------------------
(* Every step keeps the invariant *)

(* The types of requests and answers *)
LEMMA AnswersStep == AnswersOK /\ FetchesOK /\ [Next]_vars => AnswersOK'
  <1> SUFFICES ASSUME AnswersOK, FetchesOK, [Next]_vars PROVE AnswersOK'
    OBVIOUS
  <1>a. NoResult \in Result /\ NoResult.kind = "NONE"
    BY DEF NoResult, Result, None
  <1>b. [id |-> next_id, kind |-> "RUN"] \in Result
    BY DEF AnswersOK, Result
  <1>1. ASSUME Quiet PROVE AnswersOK'
    BY <1>1 DEF Quiet, AnswersOK
  <1>2. ASSUME NEW mode \in {"READ", "WRITE"}, Acquire(mode) PROVE AnswersOK'
    BY <1>2 DEF Acquire, AnswersOK, results, queues
  <1>3. ASSUME LoadRun PROVE AnswersOK'
    BY <1>3, <1>b, Loads DEF LoadRun, AnswersOK, Appended, results, fetches, borrower
  <1>4. ASSUME LoadReset PROVE AnswersOK'
    BY <1>4, <1>a, Loads DEF LoadReset, Reset, AnswersOK, Appended, fetches, borrower, None
  <1>5. ASSUME Release PROVE AnswersOK'
    <2>1. Appended(1, "RESET", NoResult) /\ result' = NoResult
      BY <1>5, Loads
    <2>2. failure' = 0 /\ UNCHANGED <<version, state, server, first>>
      BY <1>5 DEF Release, Reset, None
    <2> QED BY <1>a, <2>1, <2>2 DEF AnswersOK, Appended
  <1>6. ASSUME NEW kind \in Transactions, LoadTransaction(kind) PROVE AnswersOK'
    <2>1. /\ pending' \in Seq(Request) /\ next_id' \in {next_id + 1, next_id + 2}
          /\ result' = NoResult
      BY <1>6, Loads DEF Appended
    <2>2. UNCHANGED <<version, state, server, first, failure>>
      BY <1>6 DEF LoadTransaction, results, fetches, borrower
    <2> QED BY <1>a, <2>1, <2>2 DEF AnswersOK
  <1>7. ASSUME NEW kind \in {"PULL", "DISCARD"}, LoadStream(kind), state' = state, ~Quiet
        PROVE  AnswersOK'
    BY <1>7, <1>a, Loads DEF LoadStream, AnswersOK, Appended, results, fetches, borrower
  <1>8. ASSUME NEW n \in 1..Len(pending), Fetch(n) PROVE AnswersOK'
    BY <1>8 DEF Fetch, AnswersOK, results, queues, borrower
  <1>9. ASSUME ReceiveRecord PROVE AnswersOK'
    BY <1>9 DEF ReceiveRecord, AnswersOK, results, queues, borrower
  <1>10. ASSUME NEW type \in {"SUCCESS", "FAILURE", "IGNORED"}, ReceiveSummary(type)
        PROVE  AnswersOK'
    <2>1. Shifted /\ Answered(pending[1], type)
      BY <1>10, Shifts, Answering
    <2>2. pending[1].id \in Nat
      BY <2>1 DEF Shifted, Request
    <2>3. failure' \in Nat
      BY <1>10, <2>1, <2>2 DEF ReceiveSummary, Extract, Shifted, AnswersOK
    <2>4. state' \in {"READY", "FAILED", "DEFUNCT"}
      BY <1>10 DEF ReceiveSummary, StateAfter, AnswersOK
    <2>5. server' \in {"ready", "failed", "interrupted"}
      BY <2>1 DEF Answered, AnswersOK
    <2> QED BY <1>10, <2>1, <2>3, <2>4, <2>5 DEF ReceiveSummary, AnswersOK, Shifted, borrower
  <1>11. ASSUME UNCHANGED vars PROVE AnswersOK'
    BY <1>11 DEF vars, AnswersOK, results, queues, fetches, borrower
  <1> QED BY <1>1, <1>2, <1>3, <1>4, <1>5, <1>6, <1>7, <1>8, <1>9, <1>10, <1>11, Steps

(* Fetches end at a handle, and a connection that is not on loan reads up  *)
(* to the answer of its RESET.                                             *)
LEMMA FetchesStep == AnswersOK /\ FetchesOK /\ [Next]_vars => FetchesOK'
  <1> SUFFICES ASSUME AnswersOK, FetchesOK, [Next]_vars PROVE FetchesOK'
    OBVIOUS
  <1>a. pending \in Seq(Request) /\ Len(pending) \in Nat
    BY DEF AnswersOK
  <1>1. ASSUME Quiet PROVE FetchesOK'
    BY <1>1 DEF Quiet, FetchesOK
  <1>2. ASSUME NEW mode \in {"READ", "WRITE"}, Acquire(mode) PROVE FetchesOK'
    BY <1>2 DEF Acquire, FetchesOK, queues
  <1>3. ASSUME LoadRun PROVE FetchesOK'
    BY <1>3, Loads DEF LoadRun, FetchesOK, Appended, Calling, Usable, fetches, borrower
  <1>4. ASSUME LoadReset PROVE FetchesOK'
    BY <1>4, Loads DEF LoadReset, FetchesOK, Appended, Calling, Usable, borrower
  <1>5. ASSUME Release PROVE FetchesOK'
    <2>1. skipping' = Len(pending') /\ using' = FALSE
      BY <1>5 DEF Release
    <2> QED BY <1>5, <2>1, Loads DEF FetchesOK, Appended
  <1>6. ASSUME NEW kind \in Transactions, LoadTransaction(kind) PROVE FetchesOK'
    <2>1. using' /\ skipping' = 0
      BY <1>6 DEF LoadTransaction, Calling, Usable, fetches, borrower
    <2>2. Len(pending') \in Nat
      BY <1>6, Loads DEF Appended
    <2> QED BY <2>1, <2>2 DEF FetchesOK
  <1>7. ASSUME NEW kind \in {"PULL", "DISCARD"}, LoadStream(kind), state' = state, ~Quiet
        PROVE  FetchesOK'
    BY <1>7, Loads DEF LoadStream, FetchesOK, Appended, Calling, Usable, fetches, borrower
  <1>8. ASSUME NEW n \in 1..Len(pending), Fetch(n) PROVE FetchesOK'
    BY <1>8, <1>a DEF Fetch, Usable, FetchesOK, queues, borrower
  <1>9. ASSUME ReceiveRecord PROVE FetchesOK'
    BY <1>9 DEF ReceiveRecord, FetchesOK, queues, borrower
  <1>10. ASSUME NEW type \in {"SUCCESS", "FAILURE", "IGNORED"}, ReceiveSummary(type)
        PROVE  FetchesOK'
    <2>1. Shifted /\ Answered(pending[1], type)
      BY <1>10, Shifts, Answering
    <2>2. /\ skipping > 0 /\ skipping \in 0..Len(pending) /\ skipping' = skipping - 1 /\ using' = using
          /\ skipping = 1 => state' = StateAfter(type)
      BY <1>10 DEF ReceiveSummary, borrower, FetchesOK
    <2>3. skipping' \in 0..Len(pending')
      BY <2>1, <2>2 DEF Shifted
    <2>4. ASSUME skipping' > 0 PROVE pending'[skipping'].handle
      <3>1. skipping' \in 1..Len(pending') /\ skipping' + 1 = skipping
        BY <2>2, <2>3, <2>4, <1>a
      <3>2. pending'[skipping'] = pending[skipping]
        BY <2>1, <3>1 DEF Shifted
      <3> QED BY <2>2, <3>2 DEF FetchesOK
    <2>5. ASSUME ~using'
          PROVE  /\ skipping' = Len(pending')
                 /\ Len(pending') > 0 => pending'[Len(pending')].kind = "RESET"
                 /\ Len(pending') = 0 => state' = "READY" /\ server' = "ready"
      <3>1. skipping = Len(pending) /\ pending[Len(pending)].kind = "RESET"
        BY <2>1, <2>2, <2>5 DEF FetchesOK, Shifted
      <3>2. skipping' = Len(pending')
        BY <2>1, <2>2, <3>1 DEF Shifted
      <3>3. ASSUME Len(pending') > 0 PROVE pending'[Len(pending')].kind = "RESET"
        <4>1. Len(pending') \in 1..Len(pending') /\ Len(pending') + 1 = Len(pending)
          BY <2>1, <3>3 DEF Shifted
        <4> QED BY <2>1, <3>1, <4>1 DEF Shifted
      <3>4. ASSUME Len(pending') = 0 PROVE state' = "READY" /\ server' = "ready"
        <4>1. Len(pending) = 1 /\ skipping = 1
          BY <2>1, <3>1, <3>4 DEF Shifted
        <4> QED BY <2>1, <2>2, <3>1, <4>1 DEF Answered, StateAfter
      <3> QED BY <3>2, <3>3, <3>4
    <2> QED BY <2>3, <2>4, <2>5 DEF FetchesOK
  <1>11. ASSUME UNCHANGED vars PROVE FetchesOK'
    BY <1>11 DEF vars, FetchesOK, queues, fetches, borrower
  <1> QED BY <1>1, <1>2, <1>3, <1>4, <1>5, <1>6, <1>7, <1>8, <1>9, <1>10, <1>11, Steps

(* A request that is put behind its RUN keeps the order of the queue. *)
LEMMA StreamsAppend ==
    ASSUME AnswersOK, StreamsFollow, NEW kind, NEW of, Appended(1, kind, of), version' = version,
           result' = NoResult \/ (result'.kind = "RUN" /\ kind = "RUN" /\ result'.id = next_id),
           kind = "PULL" => of = NoResult \/ of.kind = "RUN",
           of.kind = "COMMIT" => kind = "DISCARD" \/ (kind = "COMMIT" /\ version = 3),
           kind = "PULL" /\ of.kind = "RUN" /\ Len(pending) > 0 =>
              pending[Len(pending)].kind = "RUN" /\ pending[Len(pending)].id = of.id
    PROVE  StreamsFollow'
  <1>1. /\ Len(pending) \in Nat /\ Len(pending') = Len(pending) + 1
        /\ \A i \in 1..Len(pending) : pending'[i] = pending[i]
    BY DEF Appended
  <1>2. LET r == pending'[Len(pending) + 1] IN r.kind = kind /\ r.of = of /\ r.id = next_id
    <2>1. next_id \in Nat
      BY DEF AnswersOK
    <2> QED BY <1>1, <2>1 DEF Appended
  <1>3. result' = NoResult \/ result'.kind = "RUN"
    OBVIOUS
  <1>4. NoResult.kind = "NONE"
    BY DEF NoResult
  <1>5. result'.kind = "RUN" =>
           pending'[Len(pending')].kind = "RUN" /\ pending'[Len(pending')].id = result'.id
    BY <1>1, <1>2, <1>4
  <1>6. ASSUME NEW i \in 1..Len(pending')
        PROVE  /\ pending'[i].kind = "PULL" => pending'[i].of = NoResult \/ pending'[i].of.kind = "RUN"
               /\ pending'[i].handle /\ pending'[i].of.kind = "COMMIT" =>
                     pending'[i].kind = "DISCARD" \/ (pending'[i].kind = "COMMIT" /\ version' = 3)
               /\ pending'[i].kind = "PULL" /\ pending'[i].of.kind = "RUN" /\ i > 1 =>
                     pending'[i - 1].kind = "RUN" /\ pending'[i - 1].id = pending'[i].of.id
    <2>1. CASE i = Len(pending) + 1
      <3>1. i > 1 => i - 1 = Len(pending) /\ i - 1 \in 1..Len(pending) /\ Len(pending) > 0
        BY <1>1, <2>1
      <3> QED BY <1>1, <1>2, <2>1, <3>1
    <2>2. CASE i # Len(pending) + 1
      <3>1. i \in 1..Len(pending) /\ (i > 1 => i - 1 \in 1..Len(pending))
        BY <1>1, <2>2
      <3> QED BY <1>1, <3>1 DEF StreamsFollow
    <2> QED BY <2>1, <2>2
  <1> QED BY <1>3, <1>5, <1>6, Zenon DEF StreamsFollow

(* Every PULL keeps its place behind its RUN. *)
LEMMA StreamsStep == AnswersOK /\ FetchesOK /\ StreamsFollow /\ [Next]_vars => StreamsFollow'
  <1> SUFFICES ASSUME AnswersOK, FetchesOK, StreamsFollow, [Next]_vars PROVE StreamsFollow'
    OBVIOUS
  <1>a. NoResult.kind = "NONE" /\ Len(pending) \in Nat
    BY DEF NoResult, AnswersOK
  <1>1. ASSUME Quiet PROVE StreamsFollow'
    BY <1>1 DEF Quiet, StreamsFollow
  <1>2. ASSUME NEW mode \in {"READ", "WRITE"}, Acquire(mode) PROVE StreamsFollow'
    BY <1>2 DEF Acquire, StreamsFollow, queues
  <1>3. ASSUME LoadRun PROVE StreamsFollow'
    <2>1. /\ Appended(1, "RUN", [id |-> next_id, kind |-> "RUN"]) /\ version' = version
          /\ result'.kind = "RUN" /\ result'.id = next_id
      BY <1>3, Loads DEF LoadRun
    <2> QED BY <2>1, StreamsAppend
  <1>4. ASSUME LoadReset PROVE StreamsFollow'
    <2>1. Appended(1, "RESET", NoResult) /\ result' = NoResult /\ version' = version
      BY <1>4, Loads DEF LoadReset, Reset
    <2> QED BY <1>a, <2>1, StreamsAppend
  <1>5. ASSUME Release PROVE StreamsFollow'
    <2>1. Appended(1, "RESET", NoResult) /\ result' = NoResult /\ version' = version
      BY <1>5, Loads DEF Release, Reset
    <2> QED BY <1>a, <2>1, StreamsAppend
  <1>6. ASSUME NEW kind \in Transactions, LoadTransaction(kind) PROVE StreamsFollow'
    <2> DEFINE of == [id |-> next_id, kind |-> kind]
    <2>1. version' = version /\ result' = NoResult /\ of.kind = kind /\ kind \notin {"PULL", "RUN"}
      BY <1>6, Loads DEF LoadTransaction, Transactions
    <2>2. CASE version = 3
      <3>1. Appended(1, kind, of)
        BY <1>6, <2>2, Loads
      <3> QED BY <2>1, <2>2, <3>1, StreamsAppend
    <2>3. CASE version # 3
      <3>1. /\ Appended(2, "DISCARD", of)
            /\ LET r == pending'[Len(pending) + 1] IN ~r.handle /\ r.kind = kind /\ r.of = of
        BY <1>6, <2>3, Loads
      <3> HIDE DEF of
      <3>2. /\ Len(pending') = Len(pending) + 2
            /\ \A i \in 1..Len(pending) : pending'[i] = pending[i]
            /\ pending'[Len(pending) + 2].kind = "DISCARD" /\ pending'[Len(pending) + 2].of = of
        BY <1>a, <3>1 DEF Appended
      <3>3. ASSUME NEW i \in 1..Len(pending')
            PROVE  /\ pending'[i].kind = "PULL" => pending'[i].of = NoResult \/ pending'[i].of.kind = "RUN"
                   /\ pending'[i].handle /\ pending'[i].of.kind = "COMMIT" =>
                         pending'[i].kind = "DISCARD" \/ (pending'[i].kind = "COMMIT" /\ version' = 3)
                   /\ pending'[i].kind = "PULL" /\ pending'[i].of.kind = "RUN" /\ i > 1 =>
                         pending'[i - 1].kind = "RUN" /\ pending'[i - 1].id = pending'[i].of.id
        <4>1. CASE i \in 1..Len(pending)
          <5>1. i > 1 => i - 1 \in 1..Len(pending)
            BY <1>a, <4>1
          <5> QED BY <2>1, <3>2, <4>1, <5>1 DEF StreamsFollow
        <4>2. CASE i = Len(pending) + 1
          BY <2>1, <3>1, <4>2
        <4>3. CASE i = Len(pending) + 2
          BY <3>2, <4>3
        <4> QED BY <1>a, <3>2, <4>1, <4>2, <4>3
      <3> QED BY <1>a, <2>1, <3>3, Zenon DEF StreamsFollow
    <2> QED BY <2>2, <2>3
  <1>7. ASSUME NEW kind \in {"PULL", "DISCARD"}, LoadStream(kind), state' = state, ~Quiet
        PROVE  StreamsFollow'
    <2>1. Appended(1, kind, result) /\ result' = NoResult /\ version' = version
      BY <1>7, Loads DEF LoadStream
    <2>2. result.kind \in {"NONE", "RUN"}
      BY DEF AnswersOK
    <2> QED BY <1>a, <2>1, <2>2, StreamsAppend DEF StreamsFollow
  <1>8. ASSUME NEW n \in 1..Len(pending), Fetch(n) PROVE StreamsFollow'
    BY <1>8 DEF Fetch, StreamsFollow, queues
  <1>9. ASSUME ReceiveRecord PROVE StreamsFollow'
    BY <1>9 DEF ReceiveRecord, StreamsFollow, queues
  <1>10. ASSUME NEW type \in {"SUCCESS", "FAILURE", "IGNORED"}, ReceiveSummary(type)
        PROVE  StreamsFollow'
    <2>1. Shifted /\ result' = result /\ version' = version
      BY <1>10, Shifts DEF ReceiveSummary
    <2>2. \A i \in 1..Len(pending') : i + 1 \in 1..Len(pending) /\ pending'[i] = pending[i + 1]
      BY <2>1 DEF Shifted
    <2>3. ASSUME result.kind = "RUN", Len(pending') > 0
          PROVE  pending'[Len(pending')].kind = "RUN" /\ pending'[Len(pending')].id = result.id
      <3>1. Len(pending') \in 1..Len(pending') /\ Len(pending') + 1 = Len(pending) /\ Len(pending) > 0
        BY <2>1, <2>3 DEF Shifted
      <3>2. pending'[Len(pending')] = pending[Len(pending)]
        BY <2>2, <3>1
      <3> QED BY <2>3, <3>1, <3>2 DEF StreamsFollow
    <2>4. ASSUME NEW i \in 1..Len(pending'), i > 1, pending'[i].kind = "PULL", pending'[i].of.kind = "RUN"
          PROVE  pending'[i - 1].kind = "RUN" /\ pending'[i - 1].id = pending'[i].of.id
      <3>1. i + 1 \in 1..Len(pending) /\ pending'[i] = pending[i + 1]
        BY <2>2
      <3>2. i - 1 \in 1..Len(pending') /\ (i - 1) + 1 = (i + 1) - 1 /\ i + 1 > 1
        BY <2>1, <2>4 DEF Shifted
      <3>3. pending'[i - 1] = pending[(i - 1) + 1]
        BY <2>2, <3>2
      <3>4. pending[(i + 1) - 1].kind = "RUN" /\ pending[(i + 1) - 1].id = pending[i + 1].of.id
        BY <2>4, <3>1, <3>2 DEF StreamsFollow
      <3> QED BY <3>1, <3>2, <3>3, <3>4
    <2>5. ASSUME NEW i \in 1..Len(pending')
          PROVE  /\ pending'[i].kind = "PULL" => pending'[i].of = NoResult \/ pending'[i].of.kind = "RUN"
                 /\ pending'[i].handle /\ pending'[i].of.kind = "COMMIT" =>
                       pending'[i].kind = "DISCARD" \/ (pending'[i].kind = "COMMIT" /\ version' = 3)
      BY <2>1, <2>2 DEF StreamsFollow
    <2> QED BY <2>1, <2>3, <2>4, <2>5 DEF StreamsFollow
  <1>11. ASSUME UNCHANGED vars PROVE StreamsFollow'
    BY <1>11 DEF vars, StreamsFollow, queues
  <1> QED BY <1>1, <1>2, <1>3, <1>4, <1>5, <1>6, <1>7, <1>8, <1>9, <1>10, <1>11, Steps

(* The field names stay those of the RUN whose result is pulled next. *)
LEMMA FieldsStep ==
    AnswersOK /\ FetchesOK /\ StreamsFollow /\ FieldsKept /\ [Next]_vars => FieldsKept'
  <1> SUFFICES ASSUME AnswersOK, FetchesOK, StreamsFollow, FieldsKept, [Next]_vars PROVE FieldsKept'
    OBVIOUS
  <1>a. NoResult.kind = "NONE" /\ Len(pending) \in Nat
    BY DEF NoResult, AnswersOK
  <1>b. ASSUME NEW kind, NEW of, NEW n \in {1, 2}, Appended(n, kind, of),
               UNCHANGED <<server, field_names>>,
               Len(pending) = 0 => pending'[1].kind # "PULL"
        PROVE  FieldsKept'
    <2>1. Len(pending') > 0 /\ (Len(pending) > 0 => pending'[1] = pending[1])
      BY <1>a, <1>b DEF Appended
    <2> QED BY <1>a, <1>b, <2>1 DEF FieldsKept
  <1>1. ASSUME Quiet PROVE FieldsKept'
    BY <1>1 DEF Quiet, FieldsKept
  <1>2. ASSUME NEW mode \in {"READ", "WRITE"}, Acquire(mode) PROVE FieldsKept'
    BY <1>2 DEF Acquire, FieldsKept, queues, results
  <1>3. ASSUME LoadRun PROVE FieldsKept'
    <2> DEFINE of == [id |-> next_id, kind |-> "RUN"]
    <2>1. Appended(1, "RUN", of) /\ UNCHANGED <<server, field_names>>
      BY <1>3, Loads DEF LoadRun, fetches, results
    <2> HIDE DEF of
    <2> QED BY <1>b, <2>1 DEF Appended
  <1>4. ASSUME LoadReset PROVE FieldsKept'
    <2>1. Appended(1, "RESET", NoResult) /\ UNCHANGED <<server, field_names>>
      BY <1>4, Loads DEF LoadReset, Reset
    <2> QED BY <1>b, <2>1 DEF Appended
  <1>5. ASSUME Release PROVE FieldsKept'
    <2>1. Appended(1, "RESET", NoResult) /\ UNCHANGED <<server, field_names>>
      BY <1>5, Loads DEF Release, Reset
    <2> QED BY <1>b, <2>1 DEF Appended
  <1>6. ASSUME NEW kind \in Transactions, LoadTransaction(kind) PROVE FieldsKept'
    <2> DEFINE of == [id |-> next_id, kind |-> kind]
    <2>1. UNCHANGED <<server, field_names>> /\ kind # "PULL"
      BY <1>6 DEF LoadTransaction, fetches, results, Transactions
    <2>2. \/ Appended(1, kind, of)
          \/ Appended(2, "DISCARD", of) /\ pending'[Len(pending) + 1].kind = kind
      BY <1>6, Loads
    <2> HIDE DEF of
    <2>3. CASE Appended(1, kind, of)
      <3>1. Len(pending) = 0 => pending'[1].kind = kind
        BY <2>3 DEF Appended
      <3> QED BY <1>b, <2>1, <2>3, <3>1
    <2>4. CASE Appended(2, "DISCARD", of) /\ pending'[Len(pending) + 1].kind = kind
      <3>1. Len(pending) = 0 => pending'[1].kind = kind
        BY <2>4
      <3> QED BY <1>b, <2>1, <2>4, <3>1
    <2> QED BY <2>2, <2>3, <2>4
  <1>7. ASSUME NEW kind \in {"PULL", "DISCARD"}, LoadStream(kind), state' = state, ~Quiet
        PROVE  FieldsKept'
    <2>1. Appended(1, kind, result) /\ result' = NoResult /\ UNCHANGED <<server, field_names>>
      BY <1>7, Loads DEF LoadStream, fetches, results
    <2>2. CASE Len(pending) = 0
      <3>1. Len(pending') = 1 /\ pending'[1].of = result
        BY <2>1, <2>2 DEF Appended
      <3> QED BY <2>1, <2>2, <3>1 DEF FieldsKept
    <2>3. CASE Len(pending) # 0
      BY <1>b, <2>1, <2>3
    <2> QED BY <2>2, <2>3
  <1>8. ASSUME NEW n \in 1..Len(pending), Fetch(n) PROVE FieldsKept'
    BY <1>8 DEF Fetch, FieldsKept, queues, results
  <1>9. ASSUME ReceiveRecord PROVE FieldsKept'
    BY <1>9 DEF ReceiveRecord, FieldsKept, queues, results
  <1>10. ASSUME NEW type \in {"SUCCESS", "FAILURE", "IGNORED"}, ReceiveSummary(type)
        PROVE  FieldsKept'
    <2>1. Shifted /\ Answered(pending[1], type) /\ result' = result
      BY <1>10, Shifts, Answering DEF ReceiveSummary
    <2>2. SUFFICES ASSUME server' = "ready"
                   PROVE  /\ Len(pending') > 0 /\ pending'[1].kind = "PULL" /\ pending'[1].of.kind = "RUN" =>
                                field_names' = pending'[1].of.id
                          /\ Len(pending') = 0 /\ result'.kind = "RUN" => field_names' = result'.id
      BY DEF FieldsKept
    <2>3. pending[1].kind = "RUN" => field_names' = pending[1].id
      BY <1>10, <2>1, <2>2 DEF ReceiveSummary, Extract, BringsFields, Answered, Shifted
    <2>4. ASSUME Len(pending') > 0, pending'[1].kind = "PULL", pending'[1].of.kind = "RUN"
          PROVE  field_names' = pending'[1].of.id
      <3>1. 2 \in 1..Len(pending) /\ pending'[1] = pending[2]
        BY <2>1, <2>4 DEF Shifted
      <3>2. pending[2 - 1].kind = "RUN" /\ pending[2 - 1].id = pending[2].of.id
        BY <2>4, <3>1 DEF StreamsFollow
      <3> QED BY <2>3, <3>1, <3>2
    <2>5. ASSUME Len(pending') = 0, result'.kind = "RUN" PROVE field_names' = result'.id
      <3>1. Len(pending) = 1
        BY <2>1, <2>5 DEF Shifted
      <3> QED BY <2>1, <2>3, <2>5, <3>1 DEF StreamsFollow
    <2> QED BY <2>4, <2>5
  <1>11. ASSUME UNCHANGED vars PROVE FieldsKept'
    BY <1>11 DEF vars, FieldsKept, queues, results, fetches
  <1> QED BY <1>1, <1>2, <1>3, <1>4, <1>5, <1>6, <1>7, <1>8, <1>9, <1>10, <1>11, Steps

(* The server is known: no RESET waits when none is behind the head. *)
LEMMA Behind ==
    ASSUME Shifted, NoReset', pending[1].kind # "RESET"
    PROVE  NoReset
  <1> SUFFICES ASSUME NEW i \in 1..Len(pending) PROVE pending[i].kind # "RESET"
    BY DEF NoReset
  <1>1. CASE i = 1
    BY <1>1
  <1>2. CASE i # 1
    <2>1. i - 1 \in 1..Len(pending') /\ (i - 1) + 1 = i
      BY <1>2 DEF Shifted
    <2>2. pending'[i - 1] = pending[(i - 1) + 1]
      BY <2>1 DEF Shifted
    <2> QED BY <2>1, <2>2 DEF NoReset
  <1> QED BY <1>1, <1>2

(* The server that has failed is known to have failed, and one that was    *)
(* interrupted waits for a RESET.                                          *)
LEMMA ServerStep == AnswersOK /\ FetchesOK /\ ServerKnown /\ [Next]_vars => ServerKnown'
  <1> SUFFICES ASSUME AnswersOK, FetchesOK, ServerKnown, [Next]_vars PROVE ServerKnown'
    OBVIOUS
  <1>a. Len(pending) \in Nat /\ next_id \in Nat /\ first \in 1..next_id
    BY DEF AnswersOK, ServerKnown
  <1>b. ASSUME NEW kind, NEW of, NEW n \in {1, 2}, Appended(n, kind, of),
               server' = server, first' = first, using' => using,
               kind = "RESET" \/ failure' = failure
        PROVE  ServerKnown'
    <2>1. /\ Len(pending') \in Nat /\ Len(pending') \in 1..Len(pending')
          /\ 1..Len(pending) \subseteq 1..Len(pending')
          /\ \A i \in 1..Len(pending) : pending'[i] = pending[i]
          /\ pending'[Len(pending')].kind = kind
      BY <1>a, <1>b DEF Appended
    <2>2. NoReset' => NoReset /\ kind # "RESET"
      BY <2>1 DEF NoReset
    <2>3. first' \in 1..next_id'
      BY <1>a, <1>b DEF Appended
    <2>4. ASSUME using, NEW i \in 1..Len(pending') PROVE pending'[i].id >= first
      <3>1. CASE i \in 1..Len(pending)
        BY <2>1, <2>4, <3>1 DEF ServerKnown
      <3>2. CASE i \notin 1..Len(pending)
        <4>1. i \in (Len(pending) + 1)..Len(pending')
          BY <1>a, <2>1, <3>2
        <4>2. pending'[i].id >= next_id
          BY <1>b, <4>1 DEF Appended
        <4>3. pending'[i] \in Request
          BY <1>b DEF Appended
        <4>4. pending'[i].id \in Nat
          BY <4>3 DEF Request
        <4> QED BY <1>a, <4>2, <4>4
      <3> QED BY <3>1, <3>2
    <2> QED BY <1>b, <2>2, <2>3, <2>4 DEF ServerKnown
  <1>1. ASSUME Quiet PROVE ServerKnown'
    BY <1>1 DEF Quiet, ServerKnown, NoReset
  <1>2. ASSUME NEW mode \in {"READ", "WRITE"}, Acquire(mode) PROVE ServerKnown'
    <2>1. Len(pending) = 0 /\ server = "ready"
      BY <1>2 DEF Acquire, FetchesOK
    <2>2. UNCHANGED <<pending, server, next_id>> /\ first' = next_id
      BY <1>2 DEF Acquire, queues
    <2> QED BY <1>a, <2>1, <2>2 DEF ServerKnown, AnswersOK
  <1>3. ASSUME LoadRun PROVE ServerKnown'
    <2> DEFINE of == [id |-> next_id, kind |-> "RUN"]
    <2>1. Appended(1, "RUN", of) /\ UNCHANGED <<server, first, using, failure>>
      BY <1>3, Loads DEF LoadRun, fetches, results, borrower
    <2> HIDE DEF of
    <2> QED BY <1>b, <2>1
  <1>4. ASSUME LoadReset PROVE ServerKnown'
    <2>1. Appended(1, "RESET", NoResult) /\ UNCHANGED <<server, first, using>>
      BY <1>4, Loads DEF LoadReset, Reset, borrower
    <2> QED BY <1>b, <2>1
  <1>5. ASSUME Release PROVE ServerKnown'
    <2>1. Appended(1, "RESET", NoResult) /\ UNCHANGED <<server, first>> /\ ~using'
      BY <1>5, Loads DEF Release, Reset
    <2> QED BY <1>b, <2>1
  <1>6. ASSUME NEW kind \in Transactions, LoadTransaction(kind) PROVE ServerKnown'
    <2> DEFINE of == [id |-> next_id, kind |-> kind]
    <2>1. UNCHANGED <<server, first, using, failure>>
      BY <1>6 DEF LoadTransaction, fetches, results, borrower
    <2>2. Appended(1, kind, of) \/ Appended(2, "DISCARD", of)
      BY <1>6, Loads
    <2> HIDE DEF of
    <2> QED BY <1>b, <2>1, <2>2
  <1>7. ASSUME NEW kind \in {"PULL", "DISCARD"}, LoadStream(kind), state' = state, ~Quiet
        PROVE  ServerKnown'
    <2>1. Appended(1, kind, result) /\ UNCHANGED <<server, first, using, failure>>
      BY <1>7, Loads DEF LoadStream, fetches, results, borrower
    <2> QED BY <1>b, <2>1
  <1>8. ASSUME NEW n \in 1..Len(pending), Fetch(n) PROVE ServerKnown'
    BY <1>8 DEF Fetch, ServerKnown, NoReset, queues, results, borrower
  <1>9. ASSUME ReceiveRecord PROVE ServerKnown'
    BY <1>9 DEF ReceiveRecord, ServerKnown, NoReset, queues, results, borrower
  <1>10. ASSUME NEW type \in {"SUCCESS", "FAILURE", "IGNORED"}, ReceiveSummary(type)
        PROVE  ServerKnown'
    <2>1. Shifted /\ Answered(pending[1], type)
      BY <1>10, Shifts, Answering
    <2>2. UNCHANGED <<first, next_id, using>>
      BY <1>10 DEF ReceiveSummary, borrower
    <2>3. failure' = IF type = "FAILURE" THEN pending[1].id ELSE failure
      BY <1>10, <2>1 DEF ReceiveSummary, Extract, Shifted
    <2>4. NoReset' /\ pending[1].kind # "RESET" => NoReset
      BY <2>1, Behind
    <2>5. using' => \A i \in 1..Len(pending') : pending'[i].id >= first'
      BY <2>1, <2>2 DEF ServerKnown, Shifted
    <2>6. server' = "interrupted" => ~NoReset'
      <3>1. Interrupted => ~NoReset
        BY <1>a DEF Interrupted, NoReset
      <3> QED BY <2>1, <2>4, <3>1 DEF Answered, ServerKnown
    <2>7. ASSUME server' = "failed", NoReset' PROVE failure' >= first'
      <3>1. CASE type = "FAILURE"
        <4>1. pending[1].kind # "RESET" /\ NoReset
          BY <2>1, <2>4, <2>7, <3>1 DEF Answered
        <4>2. using
          BY <2>1, <4>1 DEF FetchesOK, NoReset, Shifted
        <4>3. pending[1].id >= first
          BY <2>1, <4>2 DEF ServerKnown, Shifted
        <4> QED BY <2>2, <2>3, <3>1, <4>3
      <3>2. CASE type # "FAILURE"
        BY <2>1, <2>2, <2>3, <2>4, <2>7, <3>2 DEF Answered, ServerKnown
      <3> QED BY <3>1, <3>2
    <2> QED BY <1>a, <2>2, <2>5, <2>6, <2>7 DEF ServerKnown
  <1>11. ASSUME UNCHANGED vars PROVE ServerKnown'
    BY <1>11 DEF vars, ServerKnown, NoReset, queues, results, fetches, borrower
  <1> QED BY <1>1, <1>2, <1>3, <1>4, <1>5, <1>6, <1>7, <1>8, <1>9, <1>10, <1>11, Steps

(* What a fetch returned is about its request. *)
LEMMA ResultsStep == QueueInv /\ ResultsOfRequest /\ [Next]_vars => ResultsOfRequest'
  <1> SUFFICES ASSUME QueueInv, ResultsOfRequest, [Next]_vars PROVE ResultsOfRequest'
    OBVIOUS
  <1>a. AnswersOK /\ FetchesOK /\ StreamsFollow /\ FieldsKept
    BY DEF QueueInv
  <1>b. ASSUME UNCHANGED <<skipping, fetched, field_names, metadata, last_bookmark>>
        PROVE  ResultsOfRequest'
    BY <1>b DEF ResultsOfRequest
  <1>1. ASSUME Quiet PROVE ResultsOfRequest'
    BY <1>1, <1>b DEF Quiet
  <1>2. ASSUME NEW mode \in {"READ", "WRITE"}, Acquire(mode) PROVE ResultsOfRequest'
    BY <1>2 DEF Acquire, ResultsOfRequest, NothingFetched
  <1>3. ASSUME LoadRun PROVE ResultsOfRequest'
    BY <1>3, <1>b DEF LoadRun, fetches, results
  <1>4. ASSUME LoadReset PROVE ResultsOfRequest'
    BY <1>4, <1>b DEF LoadReset, Reset
  <1>5. ASSUME Release PROVE ResultsOfRequest'
    <2>1. skipping' = Len(pending')
      BY <1>5 DEF Release
    <2>2. Len(pending) \in Nat /\ Len(pending') = Len(pending) + 1
      BY <1>5, <1>a, Loads DEF Appended
    <2>3. skipping' # 0
      BY <2>1, <2>2
    <2> QED BY <2>3 DEF ResultsOfRequest
  <1>6. ASSUME NEW kind \in Transactions, LoadTransaction(kind) PROVE ResultsOfRequest'
    BY <1>6, <1>b DEF LoadTransaction, fetches, results
  <1>7. ASSUME NEW kind \in {"PULL", "DISCARD"}, LoadStream(kind), state' = state, ~Quiet
        PROVE  ResultsOfRequest'
    BY <1>7, <1>b DEF LoadStream, fetches, results
  <1>8. ASSUME NEW n \in 1..Len(pending), Fetch(n) PROVE ResultsOfRequest'
    BY <1>8 DEF Fetch, ResultsOfRequest
  <1>9. ASSUME ReceiveRecord PROVE ResultsOfRequest'
    <2>1. skipping = 1 /\ skipping \in 0..Len(pending) /\ pending \in Seq(Request)
      BY <1>9, <1>a DEF ReceiveRecord, FetchesOK, AnswersOK
    <2>2. Head(pending) = pending[1] /\ Len(pending) > 0 /\ 1 \in 1..Len(pending)
      BY <2>1
    <2>3. pending[1].kind = "PULL" /\ MayAnswer(pending[1], "RECORD")
      BY <1>9, <2>2 DEF ReceiveRecord
    <2>4. server = "ready" /\ pending[1].of # NoResult
      BY <2>3 DEF MayAnswer
    <2>5. pending[1].of.kind = "RUN"
      BY <1>a, <2>2, <2>3, <2>4 DEF StreamsFollow
    <2>6. field_names = pending[1].of.id
      BY <1>a, <2>2, <2>3, <2>4, <2>5 DEF FieldsKept
    <2>7. fetched'.type = "RECORD" /\ fetched'.request = pending[1] /\ field_names' = field_names
      BY <1>9, <2>2 DEF ReceiveRecord, results
    <2> QED BY <2>6, <2>7 DEF ResultsOfRequest
  <1>10. ASSUME NEW type \in {"SUCCESS", "FAILURE", "IGNORED"}, ReceiveSummary(type)
        PROVE  ResultsOfRequest'
    <2>1. SUFFICES ASSUME skipping' = 0 PROVE ResultsOfRequest'
      BY DEF ResultsOfRequest
    <2>2. Shifted
      BY <1>10, <1>a, Shifts
    <2>3. skipping = 1 /\ pending[1].handle
      BY <1>10, <1>a, <2>1 DEF ReceiveSummary, FetchesOK
    <2>4. /\ fetched'.type = type /\ fetched'.request = pending[1]
          /\ metadata' = MetadataAfter(pending[1], type)
          /\ last_bookmark' = IF type = "SUCCESS" /\ BringsBookmark(pending[1]) THEN pending[1].of.id
                              ELSE last_bookmark
      BY <1>10, <2>2, <2>3 DEF ReceiveSummary, Extract, Shifted
    <2>5. ASSUME pending[1].of.kind = "COMMIT" PROVE BringsBookmark(pending[1])
      BY <1>a, <2>2, <2>3, <2>5 DEF StreamsFollow, BringsBookmark, Shifted
    <2> QED BY <2>4, <2>5 DEF ResultsOfRequest, MetadataAfter
  <1>11. ASSUME UNCHANGED vars PROVE ResultsOfRequest'
    BY <1>11, <1>b DEF vars, fetches, results
  <1> QED BY <1>1, <1>2, <1>3, <1>4, <1>5, <1>6, <1>7, <1>8, <1>9, <1>10, <1>11, Steps

(* What the connection knows of a failure is true and of this borrower. *)
LEMMA FailureStep == QueueInv /\ FailureKnown /\ [Next]_vars => FailureKnown'
  <1> SUFFICES ASSUME QueueInv, FailureKnown, [Next]_vars PROVE FailureKnown'
    OBVIOUS
  <1>a. AnswersOK /\ FetchesOK /\ ServerKnown /\ Len(pending) \in Nat
    BY DEF QueueInv, AnswersOK
  <1>b. ASSUME NEW kind, NEW of, NEW n \in {1, 2}, Appended(n, kind, of), Usable,
               UNCHANGED <<state, fetched>>, kind = "RESET" \/ UNCHANGED <<failure, first>>
        PROVE  FailureKnown'
    <2>1. /\ pending' # << >> /\ DOMAIN pending \subseteq DOMAIN pending'
          /\ \A i \in DOMAIN pending : pending'[i] = pending[i]
          /\ Len(pending') \in DOMAIN pending' /\ pending'[Len(pending')].kind = kind
      <3>1. /\ pending' \in Seq(Request) /\ pending \in Seq(Request) /\ Len(pending') = Len(pending) + n
            /\ \A i \in 1..Len(pending) : pending'[i] = pending[i]
            /\ pending'[Len(pending')].kind = kind
        BY <1>a, <1>b DEF Appended, AnswersOK
      <3> QED BY <3>1
    <2> QED BY <1>b, <2>1 DEF FailureKnown
  <1>1. ASSUME Quiet PROVE FailureKnown'
    BY <1>1 DEF Quiet, FailureKnown, Usable
  <1>2. ASSUME NEW mode \in {"READ", "WRITE"}, Acquire(mode) PROVE FailureKnown'
    <2>1. state = "READY" /\ server = "ready"
      BY <1>2, <1>a DEF Acquire, FetchesOK
    <2> QED BY <1>2, <2>1 DEF Acquire, FailureKnown
  <1>3. ASSUME LoadRun PROVE FailureKnown'
    <2> DEFINE of == [id |-> next_id, kind |-> "RUN"]
    <2>1. Appended(1, "RUN", of) /\ UNCHANGED <<state, fetched, failure, first>> /\ Usable
      BY <1>3, <1>a, Loads DEF LoadRun, Calling, fetches, results, borrower
    <2> HIDE DEF of
    <2> QED BY <1>b, <2>1
  <1>4. ASSUME LoadReset PROVE FailureKnown'
    <2>1. Appended(1, "RESET", NoResult) /\ UNCHANGED <<state, fetched>> /\ Usable
      BY <1>4, <1>a, Loads DEF LoadReset, Reset, Calling
    <2> QED BY <1>b, <2>1
  <1>5. ASSUME Release PROVE FailureKnown'
    BY <1>5 DEF Release, FailureKnown, Usable
  <1>6. ASSUME NEW kind \in Transactions, LoadTransaction(kind) PROVE FailureKnown'
    <2> DEFINE of == [id |-> next_id, kind |-> kind]
    <2>1. UNCHANGED <<state, fetched, failure, first>> /\ Usable
      BY <1>6 DEF LoadTransaction, Calling, fetches, results, borrower
    <2>2. Appended(1, kind, of) \/ Appended(2, "DISCARD", of)
      BY <1>6, <1>a, Loads
    <2> HIDE DEF of
    <2> QED BY <1>b, <2>1, <2>2
  <1>7. ASSUME NEW kind \in {"PULL", "DISCARD"}, LoadStream(kind), state' = state, ~Quiet
        PROVE  FailureKnown'
    <2>1. Appended(1, kind, result) /\ UNCHANGED <<state, fetched, failure, first>> /\ Usable
      BY <1>7, <1>a, Loads DEF LoadStream, Calling, fetches, results, borrower
    <2> QED BY <1>b, <2>1
  <1>8. ASSUME NEW n \in 1..Len(pending), Fetch(n) PROVE FailureKnown'
    BY <1>8 DEF Fetch, FailureKnown, Usable
  <1>9. ASSUME ReceiveRecord PROVE FailureKnown'
    <2>1. pending' # << >> /\ fetched'.type = "RECORD"
      BY <1>9, <1>a DEF ReceiveRecord, FetchesOK, AnswersOK, queues
    <2> QED BY <2>1 DEF FailureKnown
  <1>10. ASSUME NEW type \in {"SUCCESS", "FAILURE", "IGNORED"}, ReceiveSummary(type)
        PROVE  FailureKnown'
    <2>1. SUFFICES ASSUME Usable'
                   PROVE  /\ pending' = << >> => (state' = "FAILED" <=> server' = "failed")
                          /\ state' = "FAILED" /\ NoReset' => failure' >= first'
      <3>1. ASSUME \A i \in DOMAIN pending' : pending'[i].kind # "RESET" PROVE NoReset'
        BY <1>10, <1>a, <3>1, Shifts DEF NoReset, Shifted
      <3> QED BY <3>1 DEF FailureKnown
    <2>2. Shifted /\ Answered(pending[1], type)
      BY <1>10, <1>a, Shifts, Answering
    <2>3. skipping = 1 /\ state' = StateAfter(type) /\ using /\ first' = first
      BY <1>10, <1>a, <2>1 DEF ReceiveSummary, Usable, FetchesOK, borrower
    <2>4. failure' = IF type = "FAILURE" THEN pending[1].id ELSE failure
      BY <1>10, <2>2 DEF ReceiveSummary, Extract, Shifted
    <2>5. pending' = << >> => NoReset'
      BY <2>2 DEF NoReset
    <2>6. CASE type = "SUCCESS"
      BY <2>2, <2>3, <2>6 DEF StateAfter, Answered
    <2>7. CASE type = "FAILURE"
      <3>1. pending[1].id >= first
        BY <1>a, <2>2, <2>3 DEF ServerKnown, Shifted
      <3> QED BY <2>2, <2>3, <2>4, <2>7, <3>1 DEF StateAfter, Answered
    <2>8. CASE type = "IGNORED"
      <3>1. ASSUME NoReset' PROVE server = "failed" /\ server' = "failed" /\ failure >= first
        <4>1. NoReset
          BY <2>2, <2>8, <3>1, Behind DEF Answered
        <4>2. ~Interrupted
          BY <1>a, <4>1 DEF Interrupted, NoReset
        <4>3. server # "ready" /\ server' = server
          BY <2>2, <2>8, <4>2 DEF Answered
        <4> QED BY <1>a, <4>1, <4>3 DEF ServerKnown, AnswersOK
      <3>2. ASSUME NoReset' PROVE state' = "FAILED"
        <4>1. failure' # None
          BY <1>a, <2>4, <2>8, <3>1, <3>2 DEF ServerKnown, AnswersOK, None
        <4> QED BY <2>3, <2>8, <4>1 DEF StateAfter
      <3> QED BY <2>3, <2>4, <2>5, <2>8, <3>1, <3>2
    <2> QED BY <2>6, <2>7, <2>8
  <1>11. ASSUME UNCHANGED vars PROVE FailureKnown'
    BY <1>11 DEF vars, FailureKnown, Usable, queues, results, fetches, borrower
  <1> QED BY <1>1, <1>2, <1>3, <1>4, <1>5, <1>6, <1>7, <1>8, <1>9, <1>10, <1>11, Steps

-----------------------------------------------------------------------------
(* The theorems *)

(* A connection that was just opened satisfies the invariants. *)
LEMMA InitInv == Init => MessageInv /\ RequestsInv
  <1> SUFFICES ASSUME Init PROVE MessageInv /\ RequestsInv
    OBVIOUS
  <1>1. /\ NoExtra \in Extra /\ NoRun \in Run /\ NoMessage \in Loadable
        /\ NoMessage.kind = "NONE" /\ << >> \in Seq(Int)
    BY DEF NoExtra, NoRun, NoMessage, Extra, Run, Loadable, Entries, Unset
  <1>2. MessageInv
    BY <1>1 DEF Init, MessageInv, MessagesOK, MessagesOwn, OwnRequests
  <1>3. NoResult \in Result /\ NoResult.kind = "NONE" /\ << >> \in Seq(Request) /\ Len(<< >>) = 0
    BY DEF NoResult, Result, None
  <1>4. pending = << >> /\ Len(pending) = 0 /\ skipping = 0 /\ server = "ready" /\ state = "READY"
    BY DEF Init
  <1>5. AnswersOK
    BY <1>3, VersionAssumption DEF Init, AnswersOK, None
  <1>6. FetchesOK /\ StreamsFollow /\ FieldsKept
    BY <1>3, <1>4 DEF Init, FetchesOK, StreamsFollow, FieldsKept
  <1>7. ServerKnown
    BY <1>4 DEF Init, ServerKnown, NoReset
  <1>8. ResultsOfRequest
    BY DEF Init, ResultsOfRequest, NothingFetched
  <1>9. FailureKnown
    BY <1>4 DEF FailureKnown
  <1> QED BY <1>2, <1>5, <1>6, <1>7, <1>8, <1>9 DEF RequestsInv, QueueInv

(* The invariant of the queue of requests is inductive. *)
THEOREM RequestsInvariant == Spec => []RequestsInv
  <1>1. RequestsInv /\ [Next]_vars => RequestsInv'
    BY AnswersStep, FetchesStep, StreamsStep, FieldsStep, ServerStep, ResultsStep, FailureStep
       DEF RequestsInv, QueueInv
  <1> QED BY <1>1, InitInv, PTL DEF Spec

(* A BEGIN or RUN that is loaded (load_begin_tx, load_run) holds nothing   *)
(* that an earlier borrower of the connection has set, and its access mode *)
(* is that of this borrower: both messages and the mode live in the        *)
(* connection, and BoltDirectPool_release clears them after every lease,   *)
(* also after one whose setters or loads were refused.                     *)
THEOREM LoadsAreOwn == Spec => []OwnRequests
  <1>1. MessageInv /\ [Next]_vars => MessageInv'
    BY MessagesStep, OwnMessagesStep, OwnStep DEF MessageInv
  <1>2. MessageInv => OwnRequests
    BY DEF MessageInv
  <1> QED BY <1>1, <1>2, InitInv, PTL DEF Spec

(* The field names, the metadata and the bookmark that can be read after a *)
(* fetch are those of the request that was fetched, however many answers   *)
(* it skipped (BoltProtocolV1_extract_metadata,                            *)
(* BoltProtocolV3_extract_metadata).                                       *)
THEOREM FetchTellsOfItsRequest == Spec => []ResultsOfRequest
  <1>1. RequestsInv => ResultsOfRequest
    BY DEF RequestsInv
  <1> QED BY <1>1, RequestsInvariant, PTL

(* The state of the connection says whether the server has failed, and the *)
(* failure that it tells of is one of this borrower's requests, although   *)
(* failure_data outlives the lease (BoltConnection_fetch).                 *)
THEOREM FailuresAreKnown == Spec => []FailureKnown
  <1>1. RequestsInv => FailureKnown
    BY DEF RequestsInv
  <1> QED BY <1>1, RequestsInvariant, PTL
=============================================================================
